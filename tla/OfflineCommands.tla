--------------------------- MODULE OfflineCommands ---------------------------
(***************************************************************************)
(* The commands that read saved reports instead of the account: baseline   *)
(* save and delete, compare, compliance - and the scans that write the     *)
(* reports, while the account goes on changing.  Several processes share   *)
(* the report files and the baseline store.                                *)
(*                                                                         *)
(* A scan reads the account whole, or in part and says so in the report's  *)
(* incomplete array: that is what modules IamScan, AuditRun and            *)
(* RegionSweep establish.  In part is not always less: what IamScan's      *)
(* unread events make look unused is a finding too, and a Karpenter rule   *)
(* whose tags OrphanScan could not read is a row without any entry.  One   *)
(* scan reads one account here, whatever changes under it: OrphanScan and  *)
(* DriftScan have that.  The store is the register BaselineStore           *)
(* implements: one step per Save, Load and Delete, as long as the Saves of *)
(* one name do not overlap.  A report file is opened and truncated first   *)
(* and written later; scans running at one time have files of their own.   *)
(***************************************************************************)
EXTENDS ReportDiff, Compliance, Sequences

CONSTANTS
  Proc,         \* processes
  Path, Name,   \* report files and baseline names
  Row,          \* the findings scans can make
  Accounts,     \* the accounts, each as the findings a whole reading makes
  Commands,     \* the command lines
  MaxAccountChanges,  \* bound: how often the account changes
  MaxFailures,  \* bound: partial readings, I/O errors and killed processes
  MaxCommands   \* bound: how many commands are started

(* Where a report can be.                                                  *)
File(f)     == <<"file", f>>
Baseline(n) == <<"baseline", n>>
Place == {File(f) : f \in Path} \cup {Baseline(n) : n \in Name}

(* A report; account and floor are history, no file tells them: what there *)
(* was to read and the --severity the scan was given.                      *)
Report == [kind : Kinds, rows : SUBSET Row, partial : BOOLEAN, floor : Level, account : SUBSET Row]

NotAReport(kind) == [kind |-> kind, rows |-> {}, partial |-> FALSE, floor |-> "INFO", account |-> {}]
Missing == NotAReport("missing")
Torn    == NotAReport("torn")

Domains == {"iam", "storage", "network", "orphans", "certs", "tags", "secrets"}

(* The command lines.  reads is what the command loads, in its order.      *)
ScanCommand == [op : {"scan"}, kind : Domains \cup {"audit"}, floor : Level, to : {File(f) : f \in Path}, reads : {<<>>}]
SaveCommand == [op : {"save"}, to : {Baseline(n) : n \in Name}, reads : {<<File(f)>> : f \in Path}]
DeleteCommand == [op : {"delete"}, to : {Baseline(n) : n \in Name}, reads : {<<>>}]
CompareCommand == [op : {"compare"}, failOn : Level \cup {""}, reads : Place \X {File(f) : f \in Path}]
ComplianceCommand ==
  [op : {"compliance"}, benchmark : {"cis-aws-v3", "soc2"}, failOn : Level \cup {""},
   slots : Seq(Slots), reads : Seq({File(f) : f \in Path})]

ASSUME OfflineAssumption ==
  /\ Row \subseteq [domain : STRING, type : STRING, id : STRING, detail : STRING, severity : Level]
  /\ Accounts \subseteq SUBSET Row
  /\ \A c \in Commands :
       \/ c \in ScanCommand \cup SaveCommand \cup DeleteCommand \cup CompareCommand
       \/ /\ c \in ComplianceCommand /\ Len(c.slots) = Len(c.reads)
          /\ \A i, j \in DOMAIN c.slots : c.slots[i] = c.slots[j] => i = j
  /\ MaxAccountChanges \in Nat /\ MaxFailures \in Nat /\ MaxCommands \in Nat

VARIABLES
  account, accountChanges, failures, started,
  disk,   \* what is in each place
  stage,  \* where each process stands
  cmd,    \* its command
  held,   \* what it has read so far, one report per entry of cmd.reads
  exit    \* its exit code

budget == <<accountChanges, failures, started>>

offlineVars == <<account, budget, disk, stage, cmd, held, exit>>

Idle == [op |-> "none", reads |-> <<>>]

OfflineInit ==
  /\ account \in Accounts
  /\ accountChanges = 0 /\ failures = 0 /\ started = 0
  /\ disk = [place \in Place |-> Missing]
  /\ stage = [p \in Proc |-> "done"]
  /\ cmd = [p \in Proc |-> Idle]
  /\ held = [p \in Proc |-> <<>>]
  /\ exit = [p \in Proc |-> 0]

(* The account changes under everything.                                   *)
World ==
  /\ accountChanges < MaxAccountChanges
  /\ account' \in Accounts \ {account}
  /\ accountChanges' = accountChanges + 1
  /\ UNCHANGED <<failures, started, disk, stage, cmd, held, exit>>

Start(p) ==
  /\ stage[p] = "done" /\ started < MaxCommands
  /\ \E c \in Commands :
       /\ cmd' = [cmd EXCEPT ![p] = c]
       /\ stage' = [stage EXCEPT ![p] = IF c.op = "scan" THEN "scan" ELSE "load"]
  /\ started' = started + 1
  /\ held' = [held EXCEPT ![p] = <<>>]
  /\ exit' = [exit EXCEPT ![p] = 0]
  /\ UNCHANGED <<account, accountChanges, failures, disk>>

Exit(p, code) ==
  /\ stage' = [stage EXCEPT ![p] = "done"]
  /\ exit' = [exit EXCEPT ![p] = code]

(* An I/O error, a refused read, or the process killed: whatever it has    *)
(* done stays done, a report file it had truncated stays torn.             *)
Stop(p) ==
  /\ stage[p] # "done"
  /\ failures < MaxFailures
  /\ failures' = failures + 1
  /\ Exit(p, 1)
  /\ UNCHANGED <<account, accountChanges, started, disk, cmd, held>>

-----------------------------------------------------------------------------
(* A scan.                                                                 *)
Covered(kind) == IF kind = "audit" THEN Domains ELSE {kind}

(* The floor is the domain scanners'; orphans have no severity.            *)
Shown(kind, floor, rows) ==
  {row \in rows : row.domain \in Covered(kind) /\ (row.domain = "orphans" \/ AtLeast(row.severity, floor))}

Envelope(p, rows, partial) ==
  [kind |-> cmd[p].kind, rows |-> rows, partial |-> partial, floor |-> cmd[p].floor, account |-> account]

(* A rule whose tags were refused is reported as nobody's, for good if its *)
(* cluster lives and instead of its own row if not.                        *)
IsRule(row) == row.type = "karpenter_rule"
Debris      == {row \in Row : row.domain = "orphans" /\ IsRule(row) /\ row.detail = "no ClusterName tag"}

Misread(rows, refused) ==
  {row \in rows : IsRule(row) => \A rule \in refused : rule.id # row.id} \cup refused

(* What a reading can come upon that is not there: a permission the events *)
(* that could not be read were the use of, and debris.                     *)
Guesses == Debris \cup {row \in Row : row.domain = "iam" /\ row.type \in Stale}

ReadWhole(p) ==
  /\ held' = [held EXCEPT ![p] = <<Envelope(p, Shown(cmd[p].kind, cmd[p].floor, account), FALSE)>>]
  /\ UNCHANGED failures

(* ruleClusterName drops the error: no entry.                              *)
ReadTagsRefused(p) ==
  /\ failures < MaxFailures /\ failures' = failures + 1
  /\ \E refused \in SUBSET Shown(cmd[p].kind, cmd[p].floor, Debris) :
       held' = [held EXCEPT ![p] =
         <<Envelope(p, Misread(Shown(cmd[p].kind, cmd[p].floor, account), refused), FALSE)>>]

(* Whatever else is refused has an entry.                                  *)
ReadPartly(p) ==
  /\ failures < MaxFailures /\ failures' = failures + 1
  /\ \E rows \in SUBSET Shown(cmd[p].kind, cmd[p].floor, account \cup Guesses) :
       held' = [held EXCEPT ![p] = <<Envelope(p, rows, TRUE)>>]

Read(p) ==
  /\ stage[p] = "scan"
  /\ ReadWhole(p) \/ ReadTagsRefused(p) \/ ReadPartly(p)
  /\ stage' = [stage EXCEPT ![p] = "create"]
  /\ UNCHANGED <<account, accountChanges, started, disk, cmd, exit>>

(* os.Create of --output-file.                                             *)
Create(p) ==
  /\ stage[p] = "create"
  /\ \A q \in Proc : stage[q] = "write" => cmd[q].to # cmd[p].to
  /\ disk' = [disk EXCEPT ![cmd[p].to] = Torn]
  /\ stage' = [stage EXCEPT ![p] = "write"]
  /\ UNCHANGED <<account, budget, cmd, held, exit>>

Write(p) ==
  /\ stage[p] = "write"
  /\ disk' = [disk EXCEPT ![cmd[p].to] = held[p][1]]
  /\ Exit(p, 0)
  /\ UNCHANGED <<account, budget, cmd, held>>

-----------------------------------------------------------------------------
(* Loading the inputs, one after the other.                                *)
NextReport(p) == disk[cmd[p].reads[Len(held[p]) + 1]]

Loading(p) == stage[p] = "load" /\ Len(held[p]) < Len(cmd[p].reads)
Loaded(p)  == stage[p] = "load" /\ Len(held[p]) = Len(cmd[p].reads)

Keep(p) ==
  /\ held' = [held EXCEPT ![p] = Append(@, NextReport(p))]
  /\ UNCHANGED <<account, budget, disk, stage, cmd, exit>>

Load(p) == Loading(p) /\ NextReport(p) \notin {Missing, Torn} /\ Keep(p)

(* No such file, no such baseline, or not the JSON of a report.            *)
LoadFails(p) ==
  /\ Loading(p) /\ NextReport(p) \in {Missing, Torn}
  /\ Exit(p, 1)
  /\ UNCHANGED <<account, budget, disk, cmd, held>>

Save(p) ==
  /\ Loaded(p) /\ cmd[p].op = "save"
  /\ disk' = [disk EXCEPT ![cmd[p].to] = held[p][1]]
  /\ Exit(p, 0)
  /\ UNCHANGED <<account, budget, cmd, held>>

Delete(p) ==
  /\ Loaded(p) /\ cmd[p].op = "delete"
  /\ disk' = [disk EXCEPT ![cmd[p].to] = Missing]
  /\ Exit(p, IF disk[cmd[p].to] = Missing THEN 1 ELSE 0)
  /\ UNCHANGED <<account, budget, cmd, held>>

(* Seeded fault: an input's array replaces the one before it.              *)
UnreadLast(p) == {i \in DOMAIN held[p] : i = Len(held[p]) /\ held[p][i].partial}

(* The inputs whose incomplete array has an entry: their entries are the   *)
(* result's own array, each under the name of its input.                   *)
Unread(p) == {i \in DOMAIN held[p] : held[p][i].partial}

Compare(p) ==
  /\ Loaded(p) /\ cmd[p].op = "compare"
  /\ Exit(p, IF \E i \in DOMAIN held[p] : ~Comparable(held[p][i]) THEN 1
             ELSE IF cmd[p].failOn # "" /\ Unread(p) # {} THEN 3 ELSE 0)
  /\ UNCHANGED <<account, budget, disk, cmd, held>>

(* What a loader decodes: the findings array, which only some reports have *)
(* and no loader asks whose it is.                                         *)
Findings(report) == IF report.kind \in ByFinding \cup {"iam"} THEN report.rows ELSE {}

Input(p) ==
  [slot \in Slots |-> UNION {Findings(held[p][i]) : i \in {j \in DOMAIN held[p] : cmd[p].slots[j] = slot}}]

Comply(p) ==
  /\ Loaded(p) /\ cmd[p].op = "compliance"
  /\ Exit(p, ComplianceExit(cmd[p].benchmark, Input(p), Unread(p) # {}, cmd[p].failOn))
  /\ UNCHANGED <<account, budget, disk, cmd, held>>

Process(p) ==
  \/ Start(p) \/ Stop(p)
  \/ Read(p) \/ Create(p) \/ Write(p)
  \/ Load(p) \/ LoadFails(p)
  \/ Save(p) \/ Delete(p) \/ Compare(p) \/ Comply(p)

Finished == (\A p \in Proc : stage[p] = "done") /\ UNCHANGED offlineVars

OfflineNext == World \/ (\E p \in Proc : Process(p)) \/ Finished

OfflineSpec == OfflineInit /\ [][OfflineNext]_offlineVars
-----------------------------------------------------------------------------
OfflineTypeOK ==
  /\ account \in Accounts
  /\ accountChanges \in 0 .. MaxAccountChanges /\ failures \in 0 .. MaxFailures /\ started \in 0 .. MaxCommands
  /\ disk \in [Place -> Report \cup {Missing, Torn}]
  /\ stage \in [Proc -> {"scan", "create", "write", "load", "done"}]
  /\ cmd \in [Proc -> Commands \cup {Idle}]
  /\ held \in [Proc -> Seq(Report)]
  /\ exit \in [Proc -> 0 .. 3]

(* What the scan behind a report was asked to show of the account it read. *)
Truth(report) == Shown(report.kind, report.floor, report.account)

Judged(p, op) == stage[p] = "done" /\ cmd[p].op = op /\ exit[p] # 1

SameScan(one, other) == one.kind = other.kind /\ one.floor = other.floor

ButRules(rows) == {row \in rows : ~IsRule(row)}

(* Two whole readings differ by what was fixed and what came up: the       *)
(* abstract meaning of a comparison.                                       *)
IsTheDifference(base, current) ==
  LET diff == Diff(Normalized(base.rows), Normalized(current.rows))
      then == Keys(ButRules(Normalized(Truth(base))))
      now  == Keys(ButRules(Normalized(Truth(current))))
  IN  Keys(ButRules(diff.resolved)) = then \ now /\ Keys(ButRules(diff.new)) = now \ then

(* A comparison of two runs of one scan that carries no incomplete entry,  *)
(* or passes a gate, says what happened to the account: RESOLVED is gone,  *)
(* NEW was not there before, and nothing else came or went.  "A finding    *)
(* the baseline saw and the current run could not read is RESOLVED by      *)
(* arithmetic and unobserved in fact" (cmd/compare.go).  It says it of     *)
(* everything but Karpenter's rules, whose rows no entry qualifies.        *)
ComparisonIsEvidence == \A p \in Proc :
  (Judged(p, "compare") /\ SameScan(held[p][1], held[p][2])
     /\ (Unread(p) = {} \/ (cmd[p].failOn # "" /\ exit[p] = 0)))
  => IsTheDifference(held[p][1], held[p][2])

(* The inputs that are the report of the domain they were given for.       *)
Proper(p, i) == held[p][i].kind = cmd[p].slots[i]

(* What there was to read fails the control.                               *)
Shows(report, control) ==
  \E row \in Truth(report) : control.slot = "tags" \/ row.type \in control.fails

(* A control that PASSES rests on a reading that shows nothing against it, *)
(* unless the incomplete array names the reading; one that FAILS rests on  *)
(* a finding that was there, unless it is about what goes unused and the   *)
(* array names the reading - whatever the account, the files and the other *)
(* commands have done between the scan and the evaluation.  That exception *)
(* exits 2 as any failure does, although "a control evaluated over a       *)
(* partial account is not an evaluated control" (cmd/compliance.go).       *)
VerdictsAreEvidence == \A p \in Proc : Judged(p, "compliance") =>
  \A i \in DOMAIN held[p] : Proper(p, i) =>
    \A control \in Evaluated(cmd[p].benchmark) : control.slot = held[p][i].kind =>
      /\ Verdict(control, Input(p)) = "PASS" /\ i \notin Unread(p) => ~Shows(held[p][i], control)
      /\ Verdict(control, Input(p)) = "FAIL" =>
           Shows(held[p][i], control) \/ (control.fails = Stale /\ i \in Unread(p))

(* A benchmark behind a gate is never clean, for some of its controls no   *)
(* scan can answer; and a control that a whole reading fails at or above   *)
(* the threshold is exit 2, whatever else went unread or unevaluated ("a   *)
(* real failure still outranks 'could not tell'", cmd/compliance.go).      *)
BenchmarkGateHolds == \A p \in Proc : (Judged(p, "compliance") /\ cmd[p].failOn # "") =>
  /\ exit[p] \in {2, 3}
  /\ \A i \in DOMAIN held[p] : \A control \in Evaluated(cmd[p].benchmark) :
       (/\ Proper(p, i) /\ i \notin Unread(p) /\ control.slot = held[p][i].kind
        /\ Shows(held[p][i], control) /\ AtLeast(control.severity, cmd[p].failOn))
       => exit[p] = 2
=============================================================================
