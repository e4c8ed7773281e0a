# A TLA+ model of cloudgov

cloudgov is a command-line auditor for AWS accounts. Its commands read an account, compare what they
read with what should be, print a report and exit with a code that other systems take as evidence:
0 under `--fail-on` means "the account was read and nothing reaches the threshold", 2 means "something
does", 3 means "nothing does, but part of the account could not be read". Almost everything that can go
wrong in it is a variant of one mistake: **a part that was not read passing for a part that is clean**.
The specifications in this directory state that in each component's own terms, check it on small
instances with TLC and, for every safety property, action property and refinement that a run confirms, prove
it with TLAPS for every instance.

Run everything from this directory:

    tlc -workers 2 -config MCIamScan.cfg MCIamScan
    tlapm IamScanProofs.tla          # and DriftScanProofs, RegionSweepProofs, AuditRunProofs,
                                     # IamFixProofs, BaselineStoreProofs, RemediationProofs,
                                     # CommandProofs

`PROJECT.json` maps every definition to the lines it models.

## 1. Inventory

| Component (source) | State | Operations | Talks to | Hard behaviour | What makes it correct |
|---|---|---|---|---|---|
| IAM scan (`internal/iam/analyzer.go`) | one `Result` under a mutex, a semaphore, two atomic counters | `Scan`, `analyze` | an `IAMProvider` | goroutines, five return paths, partial reads, a window longer than the log's retention | nothing lost, no invented verdict without a trace, clean means whole, bounded reads, it ends |
| AWS IAM readers (`internal/cloud/aws/iam.go`, `cloudtrail.go`) | none of their own; the provider's warnings | `ListPrincipals`, `GrantedPermissions`, `UsedPermissions`, `MinimalPolicy` | AWS, `warnf` | a failed page is a warning and a success | what is missing is warned about; a minimal policy grants what was used |
| Audit runner (`internal/audit`, `cmd/audit.go`) | a `Report`, errors and unread principals under a mutex | `Run`, `collectIncomplete`, `buildSummary`, `runAudit` | scanners, registry, gate, sinks | seven domains in parallel, three channels of incompleteness, interrupts | exit codes mean what they say; zero findings is explained; no false alarm |
| Gate and run state (`cmd/gate.go`, `cmd/root.go`) | `exitCode`, `failOn`, `quiet` | `gate`, `gateBool`, `gateIncomplete`, `resetRunState` | every command | order of the two gates; flags that survive a command | findings outrank gaps; nothing leaks between runs |
| Registry (`internal/providers`) | factories, failures | `Available`, `Capable`, `Incomplete` | AWS SDK construction | detected but not constructible | a lost capability is recorded |
| Sinks (`internal/output/sinks`) | none | `Parse`, `SendAll`, `Send` | HTTP | one of several deliveries fails | every sink is tried |
| Region fan-out and warnings (`internal/cloud/aws/regions.go`, `aws.go`) | a memoised region set, the warning list | `regionsToScan`, `discoverRegions`, `eachRegion`, `warnf`, `Incomplete` | AWS | many sweeps at once on one provider, failed discovery, failed regions | one discovery, bounded burst, every gap warned, one denial contained |
| Baseline store (`internal/baseline`) | files in a shared directory | `Save`, `Load`, `List`, `Delete` | the file system | crashes between system calls, two processes | an atomic register |
| Fix generation (`cmd/iam.go`, `internal/fix`) | files in an output directory | `generateIAMFixes`, `GenerateTerraform`, `WriteRawPolicies` | saved reports, `MinimalPolicy` | partial scans, a write that fails midway, links, colliding names | access in use is not removed without consent and a caveat |
| Report comparison (`internal/compare`, `cmd/compare.go`) | the two reports it read | `NormalizeReport`, `Diff`, `ReportIncomplete` | baseline store | a finding that could not be read is RESOLVED by arithmetic | RESOLVED is evidence or is declared partial |
| Drift (`internal/drift`, `internal/cloud/aws/drift.go`, `cmd/drift.go`) | a results slice with one slot per goroutine, the exit code | `ParseTFStateBytes`, `Scan`, `CheckDrift`, `Incomplete`, `runDrift` | AWS, a Terraform state file | bounded concurrency, not-found against error, an account that changes between two calls, the configured region only | every instance has its row; DELETED rests on a not-found; an exit code is evidence |
| Platform audit (`internal/platform`, `internal/cloud/aws/platform_iam.go`, `cmd/platform.go`) | a report and its notes | `Audit`, `auditPlatform` and its checks, `GetRoleInfo`, `GetPodIdentityAssociation`, `runPlatformAudit` | Kubernetes, AWS IAM and EKS | what a tenant should be is listed first, what it is is read later, call by call, while an operator, a kill-switch and people work; one refused call is answered like a missing object | every verdict had a ground, every lasting gap is found or on record, exit 0 covers the contract |
| Orphans and remediation (`internal/cloud/aws/orphans.go`, `orphan_db_snapshots.go`, `cluster_residue.go`, `internal/orphans`, `internal/{storage,network}/fix.go`, `cmd/orphans.go`, `cmd/remediate.go`) | indexes of live resources, the warnings, a report file, script files | `listOrphansInRegion` and its readers, `runOrphans`, `runRemediate`, `WriteFixScripts` | AWS, the file system | an index older or younger than the listing it judges, probes one by one, a listing cut short, a run killed between truncating and writing | nothing in use is condemned, a quiet scan is whole, a script is the report's |
| Compliance (`internal/compliance`) | none | `Evaluate` | saved reports | a control over a domain that was not read | not evaluated is not a pass |
| MCP server (`cmd/mcp.go`) | process-wide flags | the tools | scanners | many tool calls in one process | one call's flags do not reach another |
| AWS domain readers (tags, inventory, quota, secrets, storage, network, certs, cost, lambda) | the warning list | one reader each | AWS | pagers that warn and go on | as for the IAM readers |
| Kubernetes RBAC (`internal/cloud/k8s`) | none | one reader of role bindings | Kubernetes | a namespace that cannot be listed | as for the domain readers |
| Repository audit (`internal/repo`) | a report | `Audit` | `gh` | reads that fail one by one | not read is not compliant |
| Rendering (`internal/output`, `internal/report`) | none | writers | finished reports | none | formatting, not modelled |

## 2. Modules

    Severity -- IamAnalyze -- IamScan -- IamScanRefines -- MCIamScan
                    |                          |  + INSTANCE IamPromise
                IamPromise                 IamScanProofs
    Severity -- AuditRun -- MCAuditRun,       AuditRun -- AuditRunProofs
    RegionSweep -- MCRegionSweep,             RegionSweep -- RegionSweepProofs
    BaselineStore -- MCBaselineStore,         BaselineStore -- BaselineStoreProofs
         + INSTANCE BaselineRegister
    Severity -- IamFix -- MCIamFix,           IamFix -- IamFixProofs
    DriftScan -- MCDriftScan,                 DriftScan -- DriftScanProofs
    Severity -- Compliance -- OfflineCommands -- MCOfflineCommands
                ReportDiff ---------|
    OrphanScan, Severity -- Remediation -- MCRemediation,   Remediation -- RemediationProofs
    Severity -- PlatformAudit -- MCPlatformAudit
    PlatformAudit, OfflineCommands -- CommandProofs

The components meet at interfaces rather than in one big composition. `IamScan` and `RegionSweep` show what
one domain read is (whole; partial and on record; an error), and `AuditRun` takes exactly these three
outcomes as the steps of a domain; `OrphanScan` takes a reader apart and shows, call by call and page by
page, how it comes to them, and hands its report file to `Remediation`. `IamFix` takes reports whose
used-set may fall short of the real activity only when they carry an incomplete record, which is what
`CleanScanIsWhole` says of the scan that wrote them.

**Severity, IamAnalyze.** The severity order, and `analyze` as a comparison of sets. A finding is the
triple the code deduplicates by (type, resource, principal), so the set is the deduplicated slice.
Lower-casing of actions is the constant function `Canon`; the resource is compared as it stands.

**IamScan.** One `pc` per principal stands for its goroutine; `main` stands for `Scan`; `sem` holds the
depositors of the channel's tokens. `append` to a shared slice is two steps, a read of the slice header
on entry to the critical section (`snap`) and the write back, so that a missing lock would lose an
update here as it does in Go. The account is chosen once in `Init` and never changes: it holds each
principal's grants, its activity within the log's retention and the activity before it, and so lets a
result be compared with what a complete reading would have said. A provider call fails as its contract
allows (`"error"`) or as the AWS provider does it (`"warn"`: keep the pages read so far, warn, succeed).

**IamPromise, IamScanRefines.** What `Scan` promises without any goroutine: every principal is decided
once, analysed or unread, and one report states all decisions. A principal is decided when its provider
call returns an error or when it is counted as scanned.

**AuditRun.** One audit command: flags, registry, one goroutine per enabled domain, the join, the gate,
the output, the sinks, the exit. Each critical section of `audit.Run` is one append under one lock and
is one step. A domain's providers are places in the registry, read from the lowest up, as the loop over
the slice does. `report`, `errs`, `scannerUnread` and `warnings` are the four channels through which
a domain's outcome reaches the summary; `missed` is a history variable that records which reads were not
whole, for the properties only. An interrupt may come at any time and fails every later read.

**RegionSweep.** Several `eachRegion` calls on one provider. `once`/`regions` are `regionsOnce` and
`resolvedRegions`; `slot` is the results array; `warnings` lives on the root provider.

**BaselineRegister, BaselineStore.** The store at the level of system calls: open-truncate, write, close,
rename, remove, stat, open, read. A file is an inode, the directory maps the two paths of a name to
inodes, a descriptor keeps its inode whatever the directory does, and a write past the end of a truncated
file leaves a hole. A process can die between any two calls (`End`) and what it wrote stays.

**IamFix.** `iam fix` from a saved report to the last file. The directory starts with any mix of missing
files, files of an earlier run and links; any write may fail and leave the file as it was or cut short.

**DriftScan.** `drift` from the state file to the exit code. `filtered` holds the instances `Scan` checks,
by their place in the file, so that the instances of one resource keep their own slots in `results`;
`job` is where each goroutine of the errgroup stands. A check is one API call, a bucket's is two, and the
account changes between any of them: objects are deleted (a bucket with its access block), created again
or edited in place. `described` means that the API still describes the object, so a terminated EC2 instance
is compared like any other. `NotFound` is the set of answers each check takes for a deletion, and only the
configured region is asked: a regional resource of another region reads as DELETED, a bucket of another
region as an ERROR. `CompareAttributes` compares two printed values. They are abstracted to what that
decides: the fields edited in the account differ, and so do those whose two sides never print alike
(`NeverEqual`), a null of the file and the two booleans of a database, which print as addresses.
`seen` is a history variable: what each object was until its check ended. An instance
without an id, which the parser keeps and every check answers with an error or a not-found, and the order
of the rows are left out.

**ReportDiff, Compliance, OfflineCommands.** The commands that read saved reports. `ReportDiff` is the
comparison and `Compliance` the two benchmarks with all their controls, both as plain operators.
`OfflineCommands` runs them: processes scan into shared report files (created and truncated first, written
later), save and delete baselines, compare and evaluate, while the account changes. A scan reads one account
in one step (`Read`), and comes to what the other modules show: it is whole; or partial and on record, and
then its rows may be short and may hold what `IamScan` takes for unused because the events that used it were
not read (`Guesses`); or the tags of Karpenter rules were refused, and then it has their rows as debris and
no record (`Misread`, from `OrphanScan`). A scan's own gate is left out. The store is `BaselineRegister`'s
register, one step per operation. Loading takes one step per input, so a file can be truncated or replaced
between two of them. `account` and `floor` in a report are history variables: what there was to read, and
the `--severity` it was read with, which the file does not tell.

**OrphanScan, Remediation.** The orphans command and `remediate`, one command after the other on one report
file. Each region of `OrphanScan` goes through the fifteen calls of `listOrphansInRegion` in their order;
`job` is where it stands, with the page it is on, the index it has read, the things still to be probed one
by one, and what it has found. What uses a thing is a thing too (an attachment, a target, an image, an
instance, a database, a cluster), so one `present` is the account, and it changes between any two calls. A
failing call sinks the region (`RegionFails`), or cuts the listing short with a warning (`Warn`), or, for
the tags of a rule, is taken for an answer (`untold`). `absent` and `kept` are history variables: what was
not there at some moment of the scan, what was an orphan throughout. Then `report` is what the command
wrote, or one of a few reports that were saved elsewhere, a bare array of rows among them, and `Remediation`
reads it as of the type it is given, checks every name in it, and opens, truncates and writes one script per
provider, under the name the code composes (`ScriptName`); the directory may hold older scripts, scripts
cut short and links, the process can be killed between truncating and writing, and it can be run again.

**PlatformAudit.** `platform audit` from the list to the exit code. A tenant is one record: what its
Platform resource declares (`cr`) and what there is of it in the cluster and in AWS. `listed` is the
declarations as they were listed; every check of `auditPlatform` is one call and one step that compares the
listed declaration with the tenant as it is then, adds its findings, and on a failing call adds its note and
returns as early as the code does. The two AWS reads are three calls and two. Meanwhile tenants change by
`Becomes`, which an instance defines: the kill-switch's steps in any order, egress policies put up and
taken down, things deleted by hand. `seen` is a history variable: every state each tenant was in while the
audit ran.
`Gaps` is the contract: the verdicts of all checks on one declaration and one state. It shares the verdicts'
definitions with the checks; what the properties examine is which declaration, which answers and which notes
they are given. A gap is `Lasting` if the listed declaration has it in every state of `seen`, whichever two of
them the two kinds of egress policy are looked at in.

Definitions whose comment begins with *Seeded fault* are not part of the models. Each changes one
definition the way a plausible bug would, and shows that a property would notice.

## 3. Runs

| Run | Instance | Shows |
|---|---|---|
| `MCIamScan` | 3 principals, 2 slots, windows of 90 and 91 days against a retention of 90, at most 2 failed reads of both kinds | `TypeOK`, `BoundedReads`, `NothingLost`, `CleanScanIsWhole`, `InventedVerdictIsTraced`; the refinement `KeepsPromise`; `Terminates` |
| `MCAuditRun` | 4 domains, 2 providers, 5 command lines, 2 accounts, at most 2 failed reads before an interrupt | `ExitZeroIsEvidence`, `ZeroIsExplained`, `NoFalseAlarm`, `FindingsOutrankGaps`, `Ends` |
| `MCRegionSweep` | 2 sweeps, 3 regions, fan-out 2, 4 region lists, with and without a configured region, at most 3 failures | `OneDiscovery`, `QuietSweepIsWhole`, `EveryGapIsWarned`, `OneDenialIsContained`, `EverySweepEnds` |
| `MCBaselineStore` | 2 processes, 1 name, a long and a short report, 4 inodes, 4 calls | `StoredIsWhole`, the refinement `KeepsRegister` |
| `MCBaselineRace` | the same, Saves may overlap | violated: `StoredIsWhole` |
| `MCIamFix` | 3 principals, two of them with one Terraform slug, complete and partial reports, all command lines, every initial directory | `LostAccessIsDeclared`, `PolicyIsWhatWasUsed`, `ExitZeroCoversReport` |
| `MCIamFixCollision` | two principals with one slug | violated: `OneFilePerPrincipal` |
| `MCDriftScan` | 5 state files of at most 3 checkable instances, one with a database and a policy without a description, concurrency 0 (ten), 1 and 2, with and without a type filter, 2 changes of the account, 1 failed call before an interrupt | `TypeOK`, `EveryInstanceHasItsRow`, `VerdictFollowsAccount`, `ExitIsEvidence`, `EveryRunEnds` |
| `MCOfflineCommands` | 2 processes, 2 report files, 1 baseline, 2 accounts of a bucket, a certificate, a role and a Karpenter rule, 13 command lines of which 4 are run, 1 change of the account, 1 fault (a partial reading, refused tags, a killed process) | `ComparisonIsEvidence`, `VerdictsAreEvidence`, `BenchmarkGateHolds` |
| `MCRemediation` | 2 regions, 14 things, 3 accounts, 2 changes during the scan, 1 failing call; 4 reports from elsewhere, 3 directories, 3 providers of which one is no file name and two share a script's name, `remediate` run twice | `TypeOK`, `SparesTheLiving`, `QuietScanIsWhole`, `ScriptsAreTheReport`, `RefusalLeavesNoTrace`, `GoodScriptStaysGood` |
| `MCOrphanLive` | the same | violated: `LiveClusterKeepsItsResidue` |
| `MCPlatformAudit` | 2 tenants in 3 pairs of states, 2 changes and 1 failing call during the audit, with and without AWS credentials, floors LOW, CRITICAL and a misspelt one, gates none and HIGH | `TypeOK`, `VerdictHasGround`, `LastingGapIsKnown`, `ExitZeroCoversTheContract` |

`TypeOK` of the modules whose run does not list it documents the types; where there is a proof module it
is a theorem. `BurstIsBounded` and `ChecksAreBounded` are likewise proved and not run.

**Bounds.** Three principals over two slots is the least with one goroutine waiting for a token while two
contend for the mutex. Four domains hold every shape of domain the runner has: `iam` (goes on after an
error, has a result of its own), `storage` (stops at an error, two providers), `tags` (guarded by its rules)
and `orphans` (no severity); the other three are copies of `storage`. Two providers are needed for "one
failed after another succeeded". Three regions over two slots make one wait, and two sweeps are the least
that can race for the discovery. Two processes with two calls each reach every overlap of a Save with a
Load, a Delete and the remains of a crash; a short report over a long one shows torn tails. The fault
budgets (`MaxFaults`) exceed one so that faults combine, except in the drift scan, where a failed check
touches its own slot only and one fault combines with an interrupt, and in the offline commands, where one
reading that falls short is enough to compare with a whole one. The drift scan's three instances over two
slots make one wait; two changes of the account are enough for an object to go and come back, or for a
bucket and another object to change, around one check. Four offline commands are a scan, a save, a second
scan and a comparison, with a change of the account between the scans; a comparison of two files or a
benchmark over two files leaves one command to interfere. The windows of the IAM scan are the last one the
log retains and the first one it does not. The orphans instance has a thing for each way of being judged: by
its own attachment, by an index read after the listing, by one read before it, by a live set, by its tags,
by a probe of two target groups; the other kinds share the code of one of these, and their calls are made,
and fail, and find nothing. Two changes let a user go and another come, or the same one come back, around
one call; one failing call suffices because calls of a region share nothing but the index they build. The
three pairs of tenants cover the conforming, the tampered, the suspended, the half-declared, the starting
one and the vcluster; two changes are half of a suspension, or the replacement of one kind of network policy
by the other between the two reads. For everything but liveness the proofs remove all of these bounds.
`MaxCalls`, `MaxCommands`, `MaxChanges`, `MaxAccountChanges`, `MaxMoves`, `MaxRuns`, `MaxFaults` and
`MaxFailures` are the only bounds on behaviours.

**Fairness.** Liveness is checked under weak fairness of every goroutine and of the main flow. The Go
scheduler runs every runnable goroutine; every AWS call has a deadline (`awsOpTimeout`, aws.go) and every
sink an HTTP client timeout, so a call that was started returns. A goroutine that waits for a token or the
mutex needs no strong fairness: every goroutine takes finitely many steps, so it is overtaken only
finitely often. Interrupts, crashes and changes of the account are never forced. The orphans, remediation
and platform models are sequential within a region or a command, and no liveness is claimed of them.

## 4. Proofs

`IamScanProofs` proves, for any finite set of principals, any filter, concurrency, window, retention,
account and fault budget:

* `TypeCorrect` — `TypeOK` is invariant (with `ErrOK`: whoever is about to write an Incomplete entry has
  an error to write).
* `ReadsBounded`, `NoAppendLost`, `InventedTraced`, `CleanIsWhole` — the four safety invariants of the run.
* `PromiseKept` — the scan implements `IamPromise` (`KeepsPromise`).

The safety invariants are not inductive. The strengthening says, for each shared variable, what the
program counters imply about it: the semaphore holds exactly the goroutines between `g.Go` and their
deferred call and never more than `Slots` (`SemOK`); a goroutine inside a critical section holds the mutex
and its snapshot is the current result (`MuOK`); goroutines exist only for principals that left the queue
(`MainOK`); each field of the result is what the goroutines past the corresponding append have put there,
the counters are cardinalities of sets of program counters, and an answer that falls short of the truth
has its warning. `Invariance` proves it; the four theorems follow from it state by state. Assumptions:
`ScanAssumption` and `AnalyzeAssumption`, which constrain the constants' types only and which TLC
evaluates in every run that uses them.

`PromiseKept` is a step simulation. A goroutine decides its principal at one of two steps, where the
provider's answer is an error (`ReadRefines`) and where the principal is counted (`CountRefines`); its other
steps, the spawning and the listing stutter. What it read is settled from the answer on and no later step of
any goroutine changes what a decided principal came to (`OutcomeFrame`). The return publishes
(`ReturnPublishes`): that the one report then states every decision, no less and no more, is `NothingLost`
of the state it leads to.

`DriftScanProofs` proves, for any set of state files, filters and concurrencies, any account, any number of
changes to it and any fault budget: `TypeCorrect`; `VerdictsFollowAccount` (`VerdictFollowsAccount`);
`ExitEvidence` (`ExitIsEvidence`); `NoInstanceLost` (`EveryInstanceHasItsRow`); `ChecksBounded`
(`ChecksAreBounded`). Here too the properties need a strengthening: while a check is under way `seen` is the
object as it is now, so an answer that is true of the account is true of `seen`, and afterwards neither
moves (`SeenOK`); a slot is empty until its goroutine is done and then carries its own instance's address
(`RowsOK`); past the join every goroutine is done, and the exit code is the function of the rows the gate
computed, or 1 (`VerdictInv`, `GateInv`). The only assumption is `DriftAssumption`, which types the
constants and puts every instance of a file among the account's objects; TLC evaluates it in the drift run.

`RegionSweepProofs` proves, for any number of sweeps on one provider, any regions, region lists, fan-out
and fault budget: `TypeCorrect`; `DiscoveredOnce` (`OneDiscovery`); `QuietIsWhole` (`QuietSweepIsWhole`);
`GapsWarned` (`EveryGapIsWarned`); `DenialContained` (`OneDenialIsContained`); `BurstBounded`
(`BurstIsBounded`). The strengthening says who may be inside `regionsOnce` and that nobody is past it
before the set is there (`OnceOK`), that the goroutines of a sweep are those of the region set and a slot
is filled exactly when its goroutine is done (`JobsOK`), that without a warning the set is the one that was
asked for (`AskedOK`), and what a sweep that is over has accounted for (`EndOK`). The bound on the burst
needs the cardinality of the running goroutines on top of it. Assumption: `SweepAssumption`.

`AuditRunProofs` proves, for any registry, any set of domains, accounts, command lines, sinks and fault
budget: `TypeCorrect`; `ZeroIsEvidence` (`ExitZeroIsEvidence`); `ZeroExplained` (`ZeroIsExplained`);
`AlarmsAreReal` (`NoFalseAlarm`); `FindingsFirst` (`FindingsOutrankGaps`). The argument follows a missed
read through the three channels: it is on one of them from the step that missed it (`MissedOK`), each
channel holds nothing else (`EntryOK`), what a domain publishes is what its providers hold short of its
misses (`FoundOK`), and past the join the record, the tally and the exit code are functions of the channels
and the report (`VerdictOK`). Assumption: `AuditAssumption`.

`IamFixProofs` proves, for any principals, reports, command lines and initial directories, and with every
write free to fail: `TypeCorrect`; `AccessDeclared` (`LostAccessIsDeclared`); `LeastPrivilege`
(`PolicyIsWhatWasUsed`); `ZeroCoversReport` (`ExitZeroCoversReport`). The strengthening says that the note
stands before the first policy that cannot carry the caveat itself (`NoteOK`), that whatever this run has
written is some flagged principal's policy with the right banner (`FileOK`), and that whoever is to get a
file is waiting for it or there is one under its name, written for it or for another principal of that name
(`QueueOK`). `ZeroCoversReport` is stated for slugs that collide as for those that do not: the file of a
flagged principal's name has its owner's policy, and its owner is that principal if no other has the name.
That each has a file of its own is false (section 5). `FixAssumption` carries the one fact taken from another
module: a report without an incomplete record has seen all the activity there was, which is
`CleanScanIsWhole`.

`BaselineStoreProofs` proves, for any number of processes, names, inodes and calls and reports of any
length, that `StoredIsWhole` is invariant (`Stored`) if two Saves of one name do not overlap (`Serialised`).
The strengthening gives the inodes their owners: no inode has two paths (`OnePath`), a writer's inode is the
one at its temp path and holds a prefix of its report, all of it by the rename (`WriterOK`), a reader's
inode holds a whole report and is at no temp path (`ReaderOK`), and nobody else saves under the name
(`OneSaver`), which is the only place where the assumption on the callers enters. From it follows that the
store implements the register (`Refinement`, property `KeepsRegister`): initial states map to initial
states, the calls of a Save before its rename map to no step of the register, the rename to the effect, a
failure to a refusal; a Load takes effect when it opens the file and a Delete at its remove. The other
assumption is `StoreAssumption`.

`RemediationProofs` proves, for any regions and accounts, any changes to the account during the scan, any
pages and fault budget, any saved reports and output directories and any number of runs: `TypeCorrect`;
`LivingSpared` (`SparesTheLiving`); `QuietIsWhole` (`QuietScanIsWhole`); `ScriptsRight`
(`ScriptsAreTheReport`); `RefusalTraceless` (`RefusalLeavesNoTrace`); `GoodStays` (`GoodScriptStaysGood`).
For the scan the strengthening is about one region's job. What the index is for at each call: of the pages
already read it holds whatever has not been absent since, and the calls that judge by it come only after the
last of its pages (`Indexed`); of the target groups of the load balancer under probe those already asked
about have been absent (`Judged`); what stayed an orphan and is behind the scan has been found or waits for
its probe (`Whole`), unless something was warned about; and nothing in an index uses it (`Clean`). `Shape`
says where things can wait for a probe at all. That a failing page of an index sinks the region is what
keeps `Indexed`: a job that has left an index has read it to its end. For the scripts: past the check of the
names every provider is accepted, and until a run ends each of its scripts is whole or its provider still
has its turn (`ProgressOK`, `WholeOrWaiting`). Assumptions: `ScriptNames`, which says of concatenation that
one type's names are apart and those of orphans are apart from the others'; `OrphanAssumption`, which says
besides the types what kind of thing the reader takes for the use of each kind of orphan (`UserKind`), in
the same region, and that the three listings the code reads at one go have one page; and
`RemediationAssumption`.

`CommandProofs` has the theorems of two components that share no variable. Of `PlatformAudit` it proves, for
any listing, any states of the tenants and any way they may change (`Deployments`, `Becomes`), any extra
policies, flags and number of changes and failed calls: `PlatformTypeCorrect` (`TypeOK`); `VerdictsGrounded`
(`VerdictHasGround`); `LastingGapsKnown` (`LastingGapIsKnown`); `ZeroCoversContract`
(`ExitZeroCoversTheContract`). The audit judges by answers that are old when they are used, so the
strengthening says what they still prove: `seen` has the state of now and one with the listed declaration
(`SeenOK`); the call for the second kind of egress policy is only made after a state without the first, the
role the policy calls speak of is one that was there, and the policies that were attached are those of a
role that was there (`CallOK`). Then each finding has its ground (`GroundOK`). For the gaps, every type
belongs to one question, each call has the set of types whose questions are still open (`Open`), and a
lasting gap is a finding, is excused by a note, belongs to a namespace that is reported missing, or its
question is still open (`KnownOK`): an early return that skips a question without a note or that finding
would break it. `GateOK` says that the gate decided over all notes and findings. `PlatformInvariance` proves the
invariant inductive. Assumption:
`PlatformAssumption`, which types the constants, lists no platform twice, and keeps the three names of
policies apart.

Of `OfflineCommands` it proves, for any processes, files, rows, accounts and command lines, and any number
of commands, account changes and failures: `OfflineTypeCorrect`; `ComparisonsAreEvidence`
(`ComparisonIsEvidence`); `VerdictsRestOnEvidence` (`VerdictsAreEvidence`); `BenchmarkGated`
(`BenchmarkGateHolds`). A report is `Faithful` if its rows are among what there was to read at its floor and
what a reading can make up (`Guesses`), and, unless it has an entry, are exactly what there was to read,
with some rules' rows replaced or joined by debris (`Misread`). So a comparison is exact but for the rows of
rules, which no entry qualifies, and a control fails on what there was, or is about what goes unused and its
report has an entry. Every file is missing, torn or faithful (`DiskOK`) and every report in a process's
hands is faithful (`HeldOK`), because files are replaced whole or torn first, whatever another process does
between two loads; how many reports a command holds follows from where it stands (`StageOK`), and its exit
code is the one its gate computes from them (`ExitOK`). `OfflineInvariance` proves all of it inductive. The rest is about the operators: which keys `Diff`
puts where, and on which rows a control's verdict depends. Assumption: `OfflineAssumption`, which types the
rows and the command lines, a benchmark's with one file for each of its distinct slots.

Only model-checked: liveness (`Terminates`, `Ends`, `EverySweepEnds`, `EveryRunEnds`), which is beyond the
prover. `StoredIsWhole` without the assumption on the callers, `OneFilePerPrincipal` and
`LiveClusterKeepsItsResidue` are false (section 5).

## 5. Where the code and its own words differ

1. **The temp file of a Save** (`MCBaselineRace`). "Atomic write via temp file + rename" (store.go:61)
   holds against crashes and readers, not against a second Save of the same name: the temp path is shared.
2. **One file per principal** (`MCIamFixCollision`). The file is named by a slug of the name, and a user
   and a role may share a name; "a-b" and "a.b" share a slug.
3. **A live cluster's rule** (`MCOrphanLive`). "A live cluster's resources are never flagged"
   (cluster_residue.go:43-46), but a rule whose tags cannot be read is told from one without a ClusterName
   tag by nothing (cluster_residue.go:216), and a rule without the tag is debris. No warning is left, and the
   rule reaches the deletion script.

Two more need no run of their own, because a property that holds names them as its exception:

* *A database that nobody touched.* Drift "checks each managed resource against the AWS API to detect
  modifications or deletions outside Terraform" (README.md:661), but `MultiAZ` and `DeletionProtection` are
  pointers and `%v` prints their addresses (aws/drift.go:320-321). So every `aws_db_instance` that exists is
  MODIFIED in both fields, edited or not (`NeverEqual` in `VerdictFollowsAccount`), and a gate on drift exits 2
  on it: `ExitIsEvidence` takes the rows as they are. The test of the in-sync database (drift_test.go:307)
  leaves the pointers nil. In the same way `formatValue` prints a null as `<nil>` (compare.go:28-33) and a live
  value that is missing is the empty string, so a policy whose description or an instance whose key name is null
  in the file is MODIFIED although neither side has one.
* *A failure that was not there.* "A control evaluated over a partial account is not an evaluated control, and
  both reach the caller through the same exit code" (cmd/compliance.go:142-144), and only "a real failure"
  outranks it (133-134). The gate runs over every FAIL (119): an IAM report that is partial because a CloudTrail
  page failed holds permissions that were used, and the benchmark exits 2 on them. It is the last disjunct of
  `VerdictsAreEvidence`.

Noted while reading, and shown by no run:

* *Gate and flags.* The `regions` flag and pflag's `Changed` survive a command in one process
  (gate.go:83-96). The digest shows an orphan at LOW, "the severity the summary counts it under"
  (digest.go:77-85), and the summary counts it under none (runner.go:401-405), so `--fail-on LOW` exits 0
  over a report full of orphans. `Registry.Incomplete` is dropped by `buildAuditProviders`
  (cmd/audit.go:236-239).
* *IAM.* analyzer.go:140-145 explains why an unreadable used-set must not reach `analyze`, and
  cloudtrail.go:65-67 turns a failed page into a warning and a success, so it does;
  `InventedVerdictIsTraced` shows what remains true. The warning does not say whose log it was
  (cloudtrail.go:66); `warnings` notes the principal of each reading, so that the property can ask for a
  warning of that very one, but a reader of the report learns only that some log was cut short. Raw policies
  ignore `iam fix --severity` (policy.go:30). No AWS principal carries the `account_id` the cross-account
  question needs (aws/iam.go:52-79, analyzer.go:215-218). `GenerateTerraform` writes an empty policy for a
  principal that has none, which the AWS provider never produces.
* *Drift.* The command "checks each managed resource against the AWS API" (cmd/drift.go:20) and exit 0 means
  "the scan saw everything it was asked to" (README.md:1058), but `Scan` drops the resources of every type
  the provider does not support before the first check (drift/scanner.go:39) and leaves no record of them. A
  bucket's versioning is read and never compared (aws/drift.go:164-181).
* *Orphans and remediation.* An image made between the listing of images and that of snapshots gets its
  snapshot flagged (orphans.go:284-303), and a load balancer whose targets move from one group to another
  during the probe is flagged; `SparesTheLiving` holds of both, because each user was absent at some moment.
  `remediate` ignores the report's `incomplete`. An orphans report under another `--type` has no rows and
  exits 0; storage and network reports share their key and are taken for each other. An older script stays
  when the report has nothing to delete, and the storage and network scripts are rewritten even when they
  are up to date. `storage audit --fix` with JSON or SARIF output returns before it writes any
  script (cmd/storage.go:84-107). The storage script of a provider `network-aws` and the network script of
  `aws` have one name (storage/fix.go:46, network/fix.go:48): `ScriptsAreTheReport` says what each run leaves,
  and a later run of the other type replaces it. In a comparison a rule whose tags were refused in one of the
  two scans is NEW or RESOLVED, and no entry of either report says so; `ComparisonIsEvidence` leaves rules
  out.
* *Platform.* For a Ready platform whose `status.iamRoleArn` is empty or cannot be parsed the role and
  association checks are skipped without a note (audit.go:235-238, 451-455, against the comment at 121-124).
  A vcluster's ServiceAccount that cannot be derived is an INFO finding and no note. A misspelt
  `--severity` is refused after the whole audit (cmd/platform.go:94-101). A tenant that is being suspended
  can be reported for suspension drift or a missing baseline, and one whose network policy is being replaced
  by the other kind for having none: `VerdictHasGround` compares with the declaration that was listed, and
  with the two kinds at two moments. For the same reason a weak Cilium policy that is replaced by a weak
  NetworkPolicy between the two reads is reported as no policy and not as a weak one, although at every moment
  the tenant had a weak one; `Lasting` does not count such a gap, and counts gaps against the listed
  declaration only.

Noted of the offline commands, where `OfflineCommands` takes the code's own terms (its match key, the floor
of the scan): a certificate's detail holds the days that are left (aws/certs.go:74) and the match key holds
the detail (normalize.go:23), so an unrenewed certificate is RESOLVED and NEW a day later; a storage,
network, certs, tags or secrets report without findings is an unknown report (normalize.go:87-100), so the
scan after the last fix cannot be compared; a report does not tell its `--severity` floor, so control 3.7,
which LOW findings fail, passes over a report cut at HIGH; P6.1 looks for PUBLIC_ACL, which no scanner
produces, and so can pass and never fail; no loader asks whose report it was given, and an audit report
loads as one without findings; a saved compliance report is taken for a drift report; and
`ReportIncomplete` says of a report without an `incomplete` key that "the caller says so rather than implying
the inputs were complete" (normalize.go:485-488), which `runCompare` does not.

## 6. What is abstracted, and what is not modelled

Names, ARNs, messages and prose are members of small sets. Sorting, rendering and SARIF are left out. Paging
is one read that is whole or falls short in any way, except in `OrphanScan`. Power loss is not modelled
(Save does not fsync), process death is. The progress callback and `audit.Run`'s progress lines have no
effect on state. In an audit the certificates' day horizon and the orphans' cost filter are part of what a
read returns. `DomainsRun` counts domains without providers too; no property uses it. A bad `--sink` is only
noticed after the scan, which `AuditRun` shows as a command that delivers nothing and exits as if it had.
`--regions ","` is a list of none and scans the configured region (`Normalised`). `Serialised` is an
assumption on the callers of the store, and run `MCBaselineRace` shows what happens without it. Which of
several objects of one kind a platform finding names is left out, as are the orphans' prices.

Not modelled:

* **MCP server.** Its tool calls share the process-wide flags and nothing else; the scanners behind them
  are those of the commands. It wants a model of gate.go's run state across several commands.
* **AWS domain readers** (tags, inventory, quota, secrets, storage, network, certs, cost, lambda). Nine
  sequential readers that list, warn and go on. `AuditRun` and `RegionSweep` take each as one read that is
  whole, partial or failed, and `OrphanScan` shows page by page how such a reader comes to these outcomes;
  what is left is what each of them parses.
* **Repository audit, Kubernetes RBAC.** Sequential reads that keep no state.
* **Rendering.** Formatting of finished reports.
* Of the components that are modelled in part: `resetRunState` over several commands; `Capable` and
  `Registry.Incomplete` in the per-domain commands; the parsing of policy documents; the per-domain commands
  other than those named above, which repeat the sequence of flags, scan, gate and output.

## 7. Plan

1. `RunState`: several commands, and several MCP calls, in one process.
2. The AWS domain readers as refinements of the three outcomes `AuditRun` assumes.
3. The repository audit; `analyze` as a walk over slices, checked against `IamAnalyze`.

Proofs, in order: abstract specifications of a drift run and of a platform audit (one verdict per instance,
one per question, each true at a moment of the run) and the step simulations behind them; that `AuditRun`'s
three outcomes of a domain are those of `RegionSweep` and `OrphanScan`, by refinement; lemmas that pin down
`AtLeast` (a total preorder with CRITICAL on top) and `Diff` (its three parts partition the keys).
