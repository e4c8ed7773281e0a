------------------------------ MODULE AuditRun ------------------------------
(***************************************************************************)
(* One `cloudgov audit`: resolve the providers (cmd/audit.go,              *)
(* internal/providers), run the enabled domains in parallel                *)
(* (internal/audit/runner.go), join them, gate on what they found and on   *)
(* what they could not read (cmd/gate.go), write the report, notify the    *)
(* sinks (internal/output/sinks) and exit.                                 *)
(*                                                                         *)
(* A domain reads its providers one after the other.  A read is whole, or  *)
(* fails with an error, or is partial: the provider keeps what it got and  *)
(* records a warning on itself - or, for IAM, iam.Scan lists the unread    *)
(* principal on its own Result (module IamScan).  Each critical section of *)
(* audit.Run is one append under one lock, and is one step here.           *)
(***************************************************************************)
EXTENDS Severity, Integers, FiniteSets, Sequences

CONSTANTS
  Domain,      \* the scan domains, among AllDomains
  Factories,   \* the registry: a sequence of provider factories
  Implements,  \* per provider, the domains whose interface it implements
  Reported,    \* the severities a partial reading may report
  Accounts,    \* the accounts: per domain and provider, the severities a whole reading reports
  Commands,    \* the command lines: [skip, failOn, floor, rules, sinks]
  MaxFaults    \* bound: how many reads fail before the user interrupts

AllDomains == {"iam", "storage", "network", "orphans", "certs", "tags", "secrets"}
SinkKinds  == {"slack", "webhook", "pagerduty"}
Providers  == {Factories[i] : i \in DOMAIN Factories}

(* An omitted --fail-on.                                                   *)
Omitted == ""

(* "HIHG" stands for any level the tool cannot rank, "fax" for any sink    *)
(* spec Parse refuses.                                                     *)
ASSUME AuditAssumption ==
  /\ Domain \subseteq AllDomains
  /\ Factories \in Seq(Providers)
  /\ Implements \in [Providers -> SUBSET Domain]
  /\ Reported \subseteq Level
  /\ Accounts \subseteq [Domain -> [Providers -> SUBSET Level]]
  /\ Commands \subseteq [skip : SUBSET Domain, failOn : Level \cup {Omitted, "HIHG"}, floor : Level,
                         rules : BOOLEAN, sinks : Seq(SinkKinds \cup {"fax"})]
  /\ MaxFaults \in Nat

VARIABLES
  command, account,  \* the command line and the truth, chosen in Init
  main,        \* where runAudit stands
  built,       \* the providers the registry could build
  pc,          \* where each domain's goroutine stands
  todo,        \* the providers it has not read yet, by their place in the registry
  found, unread,             \* its local findings and, for IAM, its Result.Incomplete
  report, errs, scannerUnread,  \* what the goroutines publish under mu
  warnings,    \* each provider's own record of what it could not read
  missed,      \* history: the reads that were not whole
  incomplete,  \* Report.Incomplete
  counted,     \* the severities Summary.BySeverity has an entry for
  exit,        \* exitCode, or 1 after a command error
  written,     \* whether the report was rendered
  next, delivered, refused,  \* the sink to try next, those reached and those that failed
  cancelled    \* whether a signal cancelled the context

input   == <<command, account>>
scan    == <<built, pc, todo, found, unread, report, errs, scannerUnread, warnings, missed>>
verdict == <<incomplete, counted, exit>>
output  == <<written, next, delivered, refused>>
vars    == <<command, account, main, built, pc, todo, found, unread, report, errs, scannerUnread,
             warnings, missed, incomplete, counted, exit, written, next, delivered, refused, cancelled>>

Finding == [domain : Domain, provider : Providers, severity : Level]
Findings(d, p, S) == {[domain |-> d, provider |-> p, severity |-> s] : s \in S}

(* An observation that could not be made: through which channel, by which  *)
(* domain, of which provider.                                              *)
Entry == {"warning", "error", "principal"} \X Domain \X Providers

(* buildAuditProviders: the built providers of a domain, by their place in *)
(* the registry.                                                           *)
ProvidersOf(d) == {i \in DOMAIN Factories : Factories[i] \in built /\ d \in Implements[Factories[i]]}

Ran(d) == d \notin command.skip /\ ProvidersOf(d) # {}

(* Tags alone needs something to look for.                                 *)
Enabled(d) == Ran(d) /\ (d = "tags" => command.rules)

(* The scanners' floor.  An orphan has a cost and no severity, and audit   *)
(* asks for every cost.                                                    *)
Shown(d, f) == d = "orphans" \/ AtLeast(f.severity, command.floor)

Whole(d, p) == {f \in Findings(d, p, account[d][p]) : Shown(d, f)}

HasSeverity(f) == f.domain # "orphans"

-----------------------------------------------------------------------------
Init ==
  /\ command \in Commands
  /\ account \in Accounts
  /\ main = "flags"
  /\ built = {}
  /\ pc = [d \in Domain |-> "idle"]
  /\ todo = [d \in Domain |-> {}]
  /\ found = [d \in Domain |-> {}]
  /\ unread = [d \in Domain |-> {}]
  /\ report = [d \in Domain |-> {}]
  /\ errs = {}
  /\ scannerUnread = {}
  /\ warnings = {}
  /\ missed = {}
  /\ incomplete = {}
  /\ counted = {}
  /\ exit = 0
  /\ written = FALSE
  /\ next = 1
  /\ delivered = {}
  /\ refused = {}
  /\ cancelled = FALSE

Fail == main' = "exited" /\ exit' = 1

(* PersistentPreRunE refuses a threshold it cannot rank, runAudit a floor  *)
(* or a format it cannot use, before any provider is resolved.             *)
Flags ==
  /\ main = "flags"
  /\ IF command.failOn = "HIHG" THEN Fail ELSE main' = "resolve" /\ UNCHANGED exit
  /\ UNCHANGED <<input, scan, incomplete, counted, output, cancelled>>

(* Registry.Available asks every factory.  One that detects credentials    *)
(* and cannot be built is skipped like one that detects none: the registry *)
(* remembers it and buildAuditProviders never asks.  With none left the    *)
(* command fails.                                                          *)
Resolve ==
  /\ main = "resolve"
  /\ built' \in SUBSET Providers
  /\ IF built' # {} THEN main' = "spawn" /\ UNCHANGED exit ELSE Fail
  /\ UNCHANGED <<input, pc, todo, found, unread, report, errs, scannerUnread, warnings, missed,
                 incomplete, counted, output, cancelled>>

(* audit.Run starts one goroutine per enabled domain.                      *)
Spawn ==
  /\ main = "spawn"
  /\ main' = "wait"
  /\ pc' = [d \in Domain |-> IF Enabled(d) THEN "read" ELSE "idle"]
  /\ todo' = [d \in Domain |-> IF Enabled(d) THEN ProvidersOf(d) ELSE {}]
  /\ UNCHANGED <<input, built, found, unread, report, errs, scannerUnread, warnings, missed,
                 verdict, output, cancelled>>

-----------------------------------------------------------------------------
(* A cancelled context fails the calls that have not been answered yet.    *)
MayMiss == cancelled \/ Cardinality(missed) < MaxFaults

(* The domain is about to read the provider at place i, in registry order. *)
Reading(d, i) == pc[d] = "read" /\ i \in todo[d] /\ \A j \in todo[d] : i <= j

Collect(d, i, F) ==
  /\ found' = [found EXCEPT ![d] = @ \cup {f \in F : Shown(d, f)}]
  /\ todo' = [todo EXCEPT ![d] = @ \ {i}]

ReadWhole(d, i) ==
  /\ Reading(d, i)
  /\ ~cancelled
  /\ LET p == Factories[i] IN Collect(d, i, Findings(d, p, account[d][p]))
  /\ UNCHANGED <<input, main, built, pc, unread, report, errs, scannerUnread, warnings, missed,
                 verdict, output, cancelled>>

ReadPartial(d, i) ==
  /\ Reading(d, i)
  /\ MayMiss
  /\ LET p == Factories[i] IN
       /\ \E S \in SUBSET Reported : Collect(d, i, Findings(d, p, S))
       /\ missed' = missed \cup {<<d, p>>}
       /\ \/ warnings' = warnings \cup {<<"warning", d, p>>} /\ UNCHANGED unread
          \/ /\ d = "iam"
             /\ unread' = [unread EXCEPT ![d] = @ \cup {<<"principal", d, p>>}]
             /\ UNCHANGED warnings
  /\ UNCHANGED <<input, main, built, pc, report, errs, scannerUnread, verdict, output, cancelled>>

(* Seeded fault: the early return misses wg.Done.                           *)
ReadErrorNotDone(d, i) ==
  /\ Reading(d, i)
  /\ MayMiss
  /\ LET p == Factories[i] IN
       /\ errs' = errs \cup {<<"error", d, p>>}
       /\ missed' = missed \cup {<<d, p>>}
  /\ pc' = [pc EXCEPT ![d] = IF d = "iam" THEN "read" ELSE "stuck"]
  /\ todo' = [todo EXCEPT ![d] = @ \ {i}]
  /\ UNCHANGED <<input, main, built, found, unread, report, scannerUnread, warnings, verdict, output,
                 cancelled>>

(* Seeded fault: the error is printed and not recorded.                     *)
ReadErrorPrinted(d, i) ==
  /\ Reading(d, i)
  /\ MayMiss
  /\ missed' = missed \cup {<<d, Factories[i]>>}
  /\ pc' = [pc EXCEPT ![d] = IF d = "iam" THEN "read" ELSE "done"]
  /\ todo' = [todo EXCEPT ![d] = @ \ {i}]
  /\ UNCHANGED <<input, main, built, found, unread, report, errs, scannerUnread, warnings, verdict,
                 output, cancelled>>

(* An error ends a domain at once, and with it what its earlier providers  *)
(* had found; the IAM loop goes on to the next provider.                   *)
ReadError(d, i) ==
  /\ Reading(d, i)
  /\ MayMiss
  /\ LET p == Factories[i] IN
       /\ errs' = errs \cup {<<"error", d, p>>}
       /\ missed' = missed \cup {<<d, p>>}
  /\ pc' = [pc EXCEPT ![d] = IF d = "iam" THEN "read" ELSE "done"]
  /\ todo' = [todo EXCEPT ![d] = @ \ {i}]
  /\ UNCHANGED <<input, main, built, found, unread, report, scannerUnread, warnings, verdict, output,
                 cancelled>>

(* Seeded fault: the IAM scan's own unread principals stay on its Result.   *)
PublishFindingsOnly(d) ==
  /\ pc[d] = "read" /\ todo[d] = {}
  /\ report' = [report EXCEPT ![d] = found[d]]
  /\ pc' = [pc EXCEPT ![d] = "done"]
  /\ UNCHANGED <<input, main, built, todo, found, unread, scannerUnread, errs, warnings, missed,
                 verdict, output, cancelled>>

Publish(d) ==
  /\ pc[d] = "read" /\ todo[d] = {}
  /\ report' = [report EXCEPT ![d] = found[d]]
  /\ scannerUnread' = scannerUnread \cup unread[d]
  /\ pc' = [pc EXCEPT ![d] = "done"]
  /\ UNCHANGED <<input, main, built, todo, found, unread, errs, warnings, missed, verdict, output,
                 cancelled>>

Goroutine(d) ==
  (\E i \in todo[d] : ReadWhole(d, i) \/ ReadPartial(d, i) \/ ReadError(d, i)) \/ Publish(d)

-----------------------------------------------------------------------------
(* collectIncomplete: the warn channel of every provider of a domain that  *)
(* ran - one instance serves many domains, so the union is taken over      *)
(* providers - then the domain errors, then what the scanners listed.      *)
Heard == UNION {{Factories[i] : i \in ProvidersOf(d)} : d \in {e \in Domain : Ran(e)}}

(* Seeded fault: a skipped domain counts as one that could not be observed. *)
SkippedCounted ==
  {w \in warnings : w[3] \in Heard} \cup errs \cup scannerUnread
    \cup {e \in Entry : e[1] = "error" /\ e[2] \in command.skip /\ e[3] \in built}

CollectIncomplete == {w \in warnings : w[3] \in Heard} \cup errs \cup scannerUnread

Published == UNION {report[d] : d \in Domain}

(* buildSummary's BySeverity has no entry for an orphan.                   *)
Tally == {f.severity : f \in {g \in Published : HasSeverity(g)}}

Join ==
  /\ main = "wait"
  /\ \A d \in Domain : pc[d] \in {"idle", "done"}
  /\ main' = "gate"
  /\ incomplete' = CollectIncomplete
  /\ counted' = Tally
  /\ UNCHANGED <<input, scan, exit, output, cancelled>>

(* Seeded fault: it does.                                                   *)
ExitCodeOverridden ==
  IF command.failOn = Omitted THEN 0
  ELSE IF incomplete # {} THEN 3
  ELSE IF \E s \in counted : AtLeast(s, command.failOn) THEN 2 ELSE 0

(* gate, then gateIncomplete, which never overrides a tripped threshold.   *)
ExitCode ==
  IF command.failOn = Omitted THEN 0
  ELSE IF \E s \in counted : AtLeast(s, command.failOn) THEN 2
  ELSE IF incomplete # {} THEN 3 ELSE 0

Gate ==
  /\ main = "gate"
  /\ main' = "render"
  /\ exit' = ExitCode
  /\ UNCHANGED <<input, scan, incomplete, counted, output, cancelled>>

(* An output file that cannot be created or written fails the command, and *)
(* no sink hears of the run.                                               *)
Render ==
  /\ main = "render"
  /\ \/ main' = "notify" /\ written' = TRUE /\ UNCHANGED exit
     \/ Fail /\ UNCHANGED written
  /\ UNCHANGED <<input, scan, incomplete, counted, next, delivered, refused, cancelled>>

(* Parse is all or nothing: one bad spec and nothing is sent.              *)
Sinks == IF \E i \in DOMAIN command.sinks : command.sinks[i] = "fax" THEN <<>> ELSE command.sinks

(* A pager stays silent unless the digest has something critical or high.  *)
Silent(kind) == kind = "pagerduty" /\ counted \cap {"CRITICAL", "HIGH"} = {}

(* SendAll tries every sink, whatever became of the ones before it.        *)
Send ==
  /\ main = "notify"
  /\ next <= Len(Sinks)
  /\ next' = next + 1
  /\ \/ Silent(Sinks[next]) /\ UNCHANGED <<delivered, refused>>
     \/ ~Silent(Sinks[next]) /\ refused' = refused \cup {next} /\ UNCHANGED delivered
     \/ /\ ~Silent(Sinks[next]) /\ ~cancelled
        /\ delivered' = delivered \cup {next}
        /\ UNCHANGED refused
  /\ UNCHANGED <<input, main, scan, verdict, written, cancelled>>

(* A sink failure is only warned about: the exit code stands.              *)
Exit ==
  /\ main = "notify"
  /\ next > Len(Sinks)
  /\ main' = "exited"
  /\ UNCHANGED <<input, scan, verdict, output, cancelled>>

(* SIGINT or SIGTERM.                                                      *)
Interrupt ==
  /\ main # "exited"
  /\ ~cancelled
  /\ cancelled' = TRUE
  /\ UNCHANGED <<input, main, scan, verdict, output>>

Main == Flags \/ Resolve \/ Spawn \/ Join \/ Gate \/ Render \/ Send \/ Exit

(* The process is gone; the disjunct tells its end from a deadlock.        *)
Terminated == main = "exited" /\ UNCHANGED vars

Next == Main \/ (\E d \in Domain : Goroutine(d)) \/ Interrupt \/ Terminated

Spec == Init /\ [][Next]_vars

(* Goroutines are scheduled, and every provider and sink call has a        *)
(* deadline (awsOpTimeout, the sinks' HTTP clients); nobody must interrupt.*)
FairSpec == Spec /\ WF_vars(Main) /\ \A d \in Domain : WF_vars(Goroutine(d))

-----------------------------------------------------------------------------
(* Every variable ranges over what its Go type and the program point admit.*)
TypeOK ==
  /\ command \in Commands /\ account \in Accounts
  /\ main \in {"flags", "resolve", "spawn", "wait", "gate", "render", "notify", "exited"}
  /\ built \subseteq Providers
  /\ pc \in [Domain -> {"idle", "read", "done"}]
  /\ todo \in [Domain -> SUBSET DOMAIN Factories]
  /\ found \in [Domain -> SUBSET Finding] /\ report \in [Domain -> SUBSET Finding]
  /\ unread \in [Domain -> SUBSET Entry]
  /\ errs \subseteq Entry /\ scannerUnread \subseteq Entry
  /\ warnings \subseteq Entry /\ incomplete \subseteq Entry
  /\ missed \subseteq Domain \X Providers
  /\ counted \subseteq Level
  /\ exit \in 0 .. 3
  /\ next \in 1 .. Len(command.sinks) + 1
  /\ delivered \subseteq 1 .. next - 1 /\ refused \subseteq 1 .. next - 1
  /\ written \in BOOLEAN /\ cancelled \in BOOLEAN

Exited == main = "exited"
Joined == main \in {"gate", "render", "notify"} \/ (Exited /\ written)

(* Exit 0 under --fail-on is evidence (gate.go: "exit 0 is consumed as     *)
(* evidence supporting approval"): everything the run was asked to read    *)
(* was read whole, and no finding the account holds reaches both the floor *)
(* and the threshold.  Orphans have no severity and are outside the gate.  *)
ExitZeroIsEvidence ==
  (Exited /\ command.failOn # Omitted /\ exit = 0) =>
    /\ missed = {}
    /\ \A d \in {e \in Domain : Enabled(e)} : \A i \in ProvidersOf(d) :
         \A f \in Whole(d, Factories[i]) :
           HasSeverity(f) => ~AtLeast(f.severity, command.failOn)

(* A domain's share of the report is either all its providers hold, or the *)
(* record names that domain: zero findings never stand for an unread       *)
(* domain (Report.Incomplete).                                             *)
ZeroIsExplained ==
  Joined => \A d \in {e \in Domain : Enabled(e)} :
    \/ report[d] = UNION {Whole(d, Factories[i]) : i \in ProvidersOf(d)}
    \/ \E e \in incomplete : e[2] = d

(* The record raises no false alarm: each entry names a read that was made *)
(* and missed, so a skipped domain never raises exit 3 (collectIncomplete),*)
(* and exit 3 means that something really was not read.                    *)
NoFalseAlarm ==
  /\ \A e \in incomplete : <<e[2], e[3]>> \in missed /\ e[2] \notin command.skip
  /\ exit = 3 => missed # {}

(* Findings outrank gaps (gateIncomplete: "exit 2 stands"): a run that     *)
(* ends normally exits 2 exactly when a finding it published with a        *)
(* severity reaches the threshold, however much it could not read.         *)
FindingsOutrankGaps ==
  (Exited /\ exit # 1 /\ command.failOn # Omitted) =>
    (exit = 2 <=> \E f \in Published : HasSeverity(f) /\ AtLeast(f.severity, command.failOn))

(* The command ends, with or without failures and interrupts.              *)
Ends == <>Exited
=============================================================================
