---------------------------- MODULE AuditRunProofs ----------------------------
(***************************************************************************)
(* Theorems about AuditRun for any domains, registry and providers, any    *)
(* account, any command line and any number of missed reads.               *)
(***************************************************************************)
EXTENDS AuditRun, SequenceTheorems, TLAPS

-----------------------------------------------------------------------------
(* The invariant.                                                          *)

Early == main \in {"flags", "resolve", "spawn"}

(* Goroutines run for the enabled domains and for no other.                *)
PcOK ==
  \A d \in Domain :
    /\ Early => pc[d] = "idle"
    /\ main = "wait" => (Enabled(d) => pc[d] # "idle")
    /\ pc[d] # "idle" => Enabled(d)
    /\ pc[d] = "read" => main = "wait"

(* Each miss is of a provider the domain was to read, and is on one of the *)
(* three records; the IAM scan's own reaches the report when it publishes. *)
MissedOK ==
  /\ \A d \in Domain, p \in Providers :
       <<d, p>> \in missed =>
         /\ pc[d] # "idle"
         /\ \E i \in ProvidersOf(d) : Factories[i] = p
         /\ \/ <<"error", d, p>> \in errs
            \/ <<"warning", d, p>> \in warnings
            \/ <<"principal", d, p>> \in unread[d]
  /\ \A d \in Domain :
       /\ unread[d] # {} => d = "iam"
       /\ pc[d] = "done" => unread[d] \subseteq scannerUnread

(* Each record names a miss.                                               *)
EntryOK ==
  /\ \A e \in errs \cup warnings \cup scannerUnread \cup incomplete : <<e[2], e[3]>> \in missed
  /\ \A d \in Domain : \A e \in unread[d] : <<e[2], e[3]>> \in missed

Short(d) == \E p \in Providers : <<d, p>> \in missed

(* What a domain has found is what the providers it is done with hold,     *)
(* short of the reads it missed, and what it publishes is what it found.   *)
FoundOK ==
  \A d \in Domain :
    /\ pc[d] = "idle" => found[d] = {}
    /\ pc[d] # "idle" =>
      /\ todo[d] \subseteq ProvidersOf(d)
      /\ \A i \in ProvidersOf(d) :
           \/ i \in todo[d]
           \/ <<d, Factories[i]>> \in missed
           \/ Whole(d, Factories[i]) \subseteq found[d]
      /\ Short(d) \/ \A f \in found[d] : \E i \in ProvidersOf(d) : f \in Whole(d, Factories[i])
      /\ pc[d] = "done" => Short(d) \/ (todo[d] = {} /\ report[d] = found[d])

(* The command has gone through the gate, or is about to.                  *)
Past == main \in {"gate", "render", "notify"} \/ (main = "exited" /\ (exit # 1 \/ written))

(* Past the join the verdict is a function of the report.                  *)
VerdictOK ==
  /\ Past => /\ \A d \in Domain : Enabled(d) => pc[d] = "done"
             /\ incomplete = CollectIncomplete
             /\ counted = Tally
  /\ main \in {"render", "notify"} => exit = ExitCode
  /\ main = "exited" => exit = 1 \/ (exit = ExitCode /\ written)
  /\ main \notin {"notify", "exited"} => ~written
  /\ main = "notify" => written
  /\ main \in {"flags", "resolve", "spawn", "wait", "gate"} => exit = 0
  /\ (main = "exited" /\ exit = 1) => ~written

IInv == TypeOK /\ PcOK /\ MissedOK /\ EntryOK /\ FoundOK /\ VerdictOK

-----------------------------------------------------------------------------
(* Types.                                                                  *)

(* The places of a domain's providers are places of the registry.          *)
LEMMA Places ==
  /\ \A i \in DOMAIN Factories : Factories[i] \in Providers
  /\ \A d \in Domain : ProvidersOf(d) \subseteq DOMAIN Factories
  BY DEF Providers, ProvidersOf

LEMMA SinksType ==
  ASSUME command \in Commands
  PROVE  /\ Len(command.sinks) \in Nat
         /\ Len(Sinks) \in Nat /\ Len(Sinks) <= Len(command.sinks)
<1>1. command.sinks \in Seq(SinkKinds \cup {"fax"})
    BY AuditAssumption
<1> QED BY <1>1, LenProperties, EmptySeq DEF Sinks

LEMMA WholeType ==
  ASSUME TypeOK, NEW d \in Domain, NEW p \in Providers
  PROVE  /\ account[d][p] \subseteq Level
         /\ Findings(d, p, account[d][p]) \subseteq Finding
         /\ Whole(d, p) \subseteq Finding
<1>1. account[d][p] \subseteq Level
    BY AuditAssumption DEF TypeOK
<1> QED BY <1>1 DEF Findings, Finding, Whole

LEMMA PartialType ==
  ASSUME NEW d \in Domain, NEW p \in Providers, NEW S \in SUBSET Reported
  PROVE  Findings(d, p, S) \subseteq Finding
  BY AuditAssumption DEF Findings, Finding

LEMMA EntryType ==
  \A d \in Domain, p \in Providers :
    /\ <<"error", d, p>> \in Entry /\ <<"warning", d, p>> \in Entry /\ <<"principal", d, p>> \in Entry
  BY DEF Entry

LEMMA ExitCodeType == ExitCode \in 0 .. 3 /\ ExitCode # 1
  BY DEF ExitCode

-----------------------------------------------------------------------------
(* What does not change with the goroutines.                               *)

LEMMA SamePlan ==
  ASSUME command' = command, built' = built
  PROVE  \A d \in Domain : /\ ProvidersOf(d)' = ProvidersOf(d)
                           /\ Ran(d)' = Ran(d) /\ Enabled(d)' = Enabled(d)
<1>1. \A d \in Domain : ProvidersOf(d)' = ProvidersOf(d)
    BY DEF ProvidersOf
<1>2. \A d \in Domain : Ran(d)' = Ran(d)
    BY <1>1 DEF Ran
<1> QED BY <1>1, <1>2 DEF Enabled

LEMMA SameTruth ==
  ASSUME UNCHANGED input
  PROVE  \A d \in Domain, p \in Providers : Whole(d, p)' = Whole(d, p)
  BY DEF input, Whole, Findings, Shown

LEMMA SameReport ==
  ASSUME UNCHANGED <<input, scan>>
  PROVE  CollectIncomplete' = CollectIncomplete /\ Tally' = Tally
<1>1. command' = command /\ built' = built /\ warnings' = warnings /\ errs' = errs
      /\ scannerUnread' = scannerUnread /\ report' = report
    BY DEF input, scan
<1>2. Heard' = Heard
    BY <1>1, SamePlan DEF Heard
<1> QED BY <1>1, <1>2 DEF CollectIncomplete, Tally, Published

(* A step of the main flow past the join leaves the scan as it is.         *)
LEMMA ScanKept ==
  ASSUME IInv, UNCHANGED <<input, scan>>, incomplete' \in {incomplete, CollectIncomplete},
         Early' => Early, main' = "wait" => main = "wait",
         \A d \in Domain : pc[d] # "read"
  PROVE  PcOK' /\ MissedOK' /\ EntryOK' /\ FoundOK'
<1>1. /\ UNCHANGED <<command, account, built, pc, todo, found, unread, report, errs, scannerUnread,
                      warnings, missed>>
    BY DEF input, scan
<1>2. PcOK'
    BY <1>1, SamePlan DEF IInv, PcOK
<1>3. MissedOK'
    BY <1>1, SamePlan DEF IInv, MissedOK
<1>4. EntryOK'
    BY <1>1 DEF IInv, EntryOK, CollectIncomplete
<1>5. FoundOK'
    BY <1>1, SamePlan, SameTruth, Places DEF IInv, FoundOK, Short
<1> QED BY <1>2, <1>3, <1>4, <1>5

-----------------------------------------------------------------------------
(* The invariant holds initially and after every step.                     *)

(* While no goroutine has started, nothing is missed.                      *)
LEMMA NothingMissed ==
  ASSUME TypeOK, MissedOK, \A d \in Domain : pc[d] = "idle"
  PROVE  missed = {}
<1> SUFFICES ASSUME NEW x \in missed PROVE FALSE
    OBVIOUS
<1>1. PICK d \in Domain, p \in Providers : x = <<d, p>>
    BY DEF TypeOK
<1> QED BY <1>1 DEF MissedOK

LEMMA InitInv == Init => IInv
<1> SUFFICES ASSUME Init PROVE IInv
    OBVIOUS
<1>1. next \in 1 .. Len(command.sinks) + 1
    BY SinksType DEF Init
<1>2. TypeOK
  <2>1. /\ pc \in [Domain -> {"idle", "read", "done"}]
        /\ todo \in [Domain -> SUBSET DOMAIN Factories]
        /\ found \in [Domain -> SUBSET Finding] /\ report \in [Domain -> SUBSET Finding]
        /\ unread \in [Domain -> SUBSET Entry]
      BY DEF Init
  <2>2. exit \in 0 .. 3 /\ delivered \subseteq 1 .. next - 1 /\ refused \subseteq 1 .. next - 1
      BY DEF Init
  <2> QED BY <1>1, <2>1, <2>2 DEF Init, TypeOK
<1>3. PcOK /\ MissedOK /\ EntryOK /\ FoundOK
    BY DEF Init, PcOK, MissedOK, EntryOK, FoundOK
<1>4. VerdictOK
    BY DEF Init, VerdictOK, Past
<1> QED BY <1>2, <1>3, <1>4 DEF IInv

LEMMA FlagsInv == ASSUME IInv, Flags PROVE IInv'
<1>1. /\ main = "flags" /\ UNCHANGED <<input, scan, incomplete, counted, output, cancelled>>
      /\ (main' = "exited" /\ exit' = 1) \/ (main' = "resolve" /\ exit' = exit)
    BY DEF Flags, Fail
<1>2. TypeOK'
    BY <1>1 DEF IInv, TypeOK, input, scan, output
<1>3. PcOK' /\ MissedOK' /\ EntryOK' /\ FoundOK'
    BY <1>1, ScanKept DEF Early, IInv, PcOK
<1>4. VerdictOK'
    BY <1>1 DEF IInv, VerdictOK, Past, output
<1> QED BY <1>2, <1>3, <1>4 DEF IInv

(* The registry decides what the plan is; nothing has been read yet.       *)
LEMMA ResolveInv == ASSUME IInv, Resolve PROVE IInv'
<1>1. /\ main = "resolve" /\ built' \subseteq Providers
      /\ UNCHANGED <<input, pc, todo, found, unread, report, errs, scannerUnread, warnings, missed,
                     incomplete, counted, output, cancelled>>
      /\ (main' = "exited" /\ exit' = 1) \/ (main' = "spawn" /\ exit' = exit)
    BY DEF Resolve, Fail
<1>2. \A d \in Domain : pc[d] = "idle" /\ pc'[d] = "idle"
    BY <1>1 DEF IInv, PcOK, Early
<1>3. missed = {} /\ missed' = {}
    BY <1>1, <1>2, NothingMissed DEF IInv
<1>4. TypeOK'
    BY <1>1 DEF IInv, TypeOK, input, output
<1>5. PcOK' /\ MissedOK' /\ FoundOK'
    BY <1>1, <1>2, <1>3 DEF IInv, PcOK, MissedOK, FoundOK
<1>6. EntryOK'
    BY <1>1 DEF IInv, EntryOK
<1>7. VerdictOK'
    BY <1>1 DEF IInv, VerdictOK, Past, output
<1> QED BY <1>4, <1>5, <1>6, <1>7 DEF IInv

LEMMA SpawnInv == ASSUME IInv, Spawn PROVE IInv'
<1>1. /\ main = "spawn" /\ main' = "wait"
      /\ pc' = [d \in Domain |-> IF Enabled(d) THEN "read" ELSE "idle"]
      /\ todo' = [d \in Domain |-> IF Enabled(d) THEN ProvidersOf(d) ELSE {}]
      /\ UNCHANGED <<input, built, found, unread, report, errs, scannerUnread, warnings, missed,
                     verdict, output, cancelled>>
    BY DEF Spawn
<1>2. \A d \in Domain : pc[d] = "idle"
    BY <1>1 DEF IInv, PcOK, Early
<1>3. missed = {} /\ missed' = {}
    BY <1>1, <1>2, NothingMissed DEF IInv
<1>4. \A d \in Domain : unread[d] = {}
    BY <1>3 DEF IInv, EntryOK
<1>5. TypeOK'
  <2>1. todo' \in [Domain -> SUBSET DOMAIN Factories]
      BY <1>1, Places
  <2> QED BY <1>1, <2>1 DEF IInv, TypeOK, input, verdict, output
<1>6. PcOK'
    BY <1>1, SamePlan DEF PcOK, Early, input
<1>7. MissedOK'
    BY <1>1, <1>3, <1>4 DEF MissedOK
<1>8. EntryOK'
    BY <1>1 DEF IInv, EntryOK, verdict
<1>9. FoundOK'
  <2>1. \A d \in Domain : found[d] = {}
      BY <1>2 DEF IInv, FoundOK
  <2> QED BY <1>1, <2>1, SamePlan DEF FoundOK, input
<1>10. VerdictOK'
    BY <1>1 DEF IInv, VerdictOK, Past, verdict, output
<1> QED BY <1>5, <1>6, <1>7, <1>8, <1>9, <1>10 DEF IInv

(* A goroutine runs between the start and the join, and leaves the verdict *)
(* to the main flow.                                                       *)
LEMMA Frame ==
  ASSUME IInv, NEW d \in Domain, pc[d] = "read",
         UNCHANGED <<input, main, built, verdict, output, cancelled>>
  PROVE  /\ main = "wait" /\ Enabled(d)
         /\ VerdictOK'
         /\ \A e \in Domain : ProvidersOf(e)' = ProvidersOf(e) /\ Enabled(e)' = Enabled(e)
         /\ \A e \in Domain, p \in Providers : Whole(e, p)' = Whole(e, p)
<1>1. main = "wait" /\ Enabled(d)
    BY DEF IInv, PcOK
<1>2. VerdictOK'
    BY <1>1 DEF IInv, VerdictOK, Past, verdict, output
<1> QED BY <1>1, <1>2, SamePlan, SameTruth DEF input

LEMMA ReadWholeInv ==
  ASSUME IInv, NEW d \in Domain, NEW i \in todo[d], ReadWhole(d, i)
  PROVE  IInv'
<1> DEFINE p == Factories[i]
<1>1. /\ pc[d] = "read" /\ UNCHANGED <<input, main, built, pc, unread, report, errs, scannerUnread,
                                      warnings, missed, verdict, output, cancelled>>
    BY DEF ReadWhole, Reading
<1>2. /\ found' = [found EXCEPT ![d] = @ \cup Whole(d, p)]
      /\ todo' = [todo EXCEPT ![d] = @ \ {i}]
    BY DEF ReadWhole, Collect, Whole
<1>3. p \in Providers /\ Whole(d, p) \subseteq Finding /\ i \in ProvidersOf(d)
    BY <1>1, Places, WholeType DEF IInv, TypeOK, FoundOK
<1>4. /\ main = "wait" /\ VerdictOK'
      /\ \A e \in Domain : ProvidersOf(e)' = ProvidersOf(e) /\ Enabled(e)' = Enabled(e)
      /\ \A e \in Domain, q \in Providers : Whole(e, q)' = Whole(e, q)
    BY <1>1, Frame
<1> HIDE DEF p
<1>5. TypeOK'
  <2>1. found' \in [Domain -> SUBSET Finding] /\ todo' \in [Domain -> SUBSET DOMAIN Factories]
      BY <1>2, <1>3 DEF IInv, TypeOK
  <2> QED BY <1>1, <2>1 DEF IInv, TypeOK, input, verdict, output
<1>6. PcOK'
    BY <1>1, <1>4 DEF IInv, PcOK, Early
<1>7. MissedOK'
    BY <1>1, <1>4 DEF IInv, MissedOK
<1>8. EntryOK'
    BY <1>1 DEF IInv, EntryOK, verdict
<1>9. FoundOK'
  <2> SUFFICES ASSUME NEW e \in Domain
               PROVE  /\ pc'[e] = "idle" => found'[e] = {}
                      /\ pc'[e] # "idle" =>
                           /\ todo'[e] \subseteq ProvidersOf(e)
                           /\ \A j \in ProvidersOf(e) :
                                \/ j \in todo'[e]
                                \/ <<e, Factories[j]>> \in missed'
                                \/ Whole(e, Factories[j]) \subseteq found'[e]
                           /\ Short(e)' \/ \A f \in found'[e] :
                                              \E j \in ProvidersOf(e) : f \in Whole(e, Factories[j])
                           /\ pc'[e] = "done" => Short(e)' \/ (todo'[e] = {} /\ report'[e] = found'[e])
      BY <1>4, Places DEF FoundOK
  <2>1. Short(e)' = Short(e)
      BY <1>1 DEF Short
  <2>2. CASE e = d
      BY <1>1, <1>2, <1>3, <2>1, <2>2 DEF IInv, TypeOK, FoundOK, p
  <2>3. CASE e # d
      BY <1>1, <1>2, <2>1, <2>3 DEF IInv, TypeOK, FoundOK
  <2> QED BY <2>2, <2>3
<1> QED BY <1>4, <1>5, <1>6, <1>7, <1>8, <1>9 DEF IInv

(* A read that is missed, in whichever way: it is put on a record, and     *)
(* whatever the domain has found by then no longer counts as whole.        *)
LEMMA MissInv ==
  ASSUME IInv, NEW d \in Domain, NEW i \in todo[d], pc[d] = "read",
         UNCHANGED <<input, main, built, report, scannerUnread, verdict, output, cancelled>>,
         missed' = missed \cup {<<d, Factories[i]>>},
         todo' = [todo EXCEPT ![d] = @ \ {i}],
         NEW F \in SUBSET Finding, found[d] \subseteq F, found' = [found EXCEPT ![d] = F],
         NEW v \in {"read", "done"}, pc' = [pc EXCEPT ![d] = v],
         NEW U \in SUBSET Entry, unread' = [unread EXCEPT ![d] = unread[d] \cup U],
         U # {} => v = "read" /\ d = "iam", v = "done" => d # "iam",
         errs \subseteq errs', errs' \subseteq Entry,
         warnings \subseteq warnings', warnings' \subseteq Entry,
         \A e \in (errs' \ errs) \cup (warnings' \ warnings) \cup U : e[2] = d /\ e[3] = Factories[i],
         \/ <<"error", d, Factories[i]>> \in errs'
         \/ <<"warning", d, Factories[i]>> \in warnings'
         \/ <<"principal", d, Factories[i]>> \in U
  PROVE  IInv'
<1> DEFINE p == Factories[i]
<1>1. p \in Providers /\ i \in ProvidersOf(d) /\ Enabled(d)
    BY Places, Frame DEF IInv, TypeOK, FoundOK
<1>2. /\ main = "wait" /\ VerdictOK'
      /\ \A e \in Domain : ProvidersOf(e)' = ProvidersOf(e) /\ Enabled(e)' = Enabled(e)
      /\ \A e \in Domain, q \in Providers : Whole(e, q)' = Whole(e, q)
    BY Frame
<1>3. TypeOK'
  <2>1. /\ found' \in [Domain -> SUBSET Finding] /\ todo' \in [Domain -> SUBSET DOMAIN Factories]
        /\ pc' \in [Domain -> {"idle", "read", "done"}]
        /\ unread' \in [Domain -> SUBSET Entry]
      BY DEF IInv, TypeOK
  <2>2. missed' \subseteq Domain \X Providers
      BY <1>1 DEF IInv, TypeOK
  <2> QED BY <2>1, <2>2 DEF IInv, TypeOK, input, verdict, output
<1>4. PcOK'
    BY <1>1, <1>2 DEF IInv, TypeOK, PcOK, Early
<1>5. MissedOK'
  <2>1. ASSUME NEW e \in Domain, NEW q \in Providers, <<e, q>> \in missed'
        PROVE  /\ pc'[e] # "idle"
               /\ \E j \in ProvidersOf(e) : Factories[j] = q
               /\ \/ <<"error", e, q>> \in errs'
                  \/ <<"warning", e, q>> \in warnings'
                  \/ <<"principal", e, q>> \in unread'[e]
    <3>1. CASE e = d /\ q = p
        BY <1>1, <3>1 DEF IInv, TypeOK
    <3>2. CASE <<e, q>> \in missed
        BY <3>2 DEF IInv, TypeOK, MissedOK
    <3> QED BY <2>1, <3>1, <3>2
  <2>2. ASSUME NEW e \in Domain
        PROVE  /\ unread'[e] # {} => e = "iam"
               /\ pc'[e] = "done" => unread'[e] \subseteq scannerUnread'
    <3>1. CASE e = d
        BY <3>1 DEF IInv, TypeOK, MissedOK
    <3>2. CASE e # d
        BY <3>2 DEF IInv, TypeOK, MissedOK
    <3> QED BY <3>1, <3>2
  <2> QED BY <1>2, <2>1, <2>2, Places DEF MissedOK
<1>6. EntryOK'
  <2>1. \A e \in errs' \cup warnings' \cup scannerUnread' \cup incomplete' : <<e[2], e[3]>> \in missed'
      BY DEF IInv, EntryOK, verdict
  <2>2. \A e \in Domain : \A u \in unread'[e] : <<u[2], u[3]>> \in missed'
      BY DEF IInv, TypeOK, EntryOK
  <2> QED BY <2>1, <2>2 DEF EntryOK
<1>7. FoundOK'
  <2> SUFFICES ASSUME NEW e \in Domain
               PROVE  /\ pc'[e] = "idle" => found'[e] = {}
                      /\ pc'[e] # "idle" =>
                           /\ todo'[e] \subseteq ProvidersOf(e)
                           /\ \A j \in ProvidersOf(e) :
                                \/ j \in todo'[e]
                                \/ <<e, Factories[j]>> \in missed'
                                \/ Whole(e, Factories[j]) \subseteq found'[e]
                           /\ Short(e)' \/ \A f \in found'[e] :
                                              \E j \in ProvidersOf(e) : f \in Whole(e, Factories[j])
                           /\ pc'[e] = "done" => Short(e)' \/ (todo'[e] = {} /\ report'[e] = found'[e])
      BY <1>2, Places DEF FoundOK
  <2>1. CASE e = d
    <3>1. Short(d)'
        BY <1>1 DEF Short
    <3> QED BY <1>1, <2>1, <3>1 DEF IInv, TypeOK, FoundOK
  <2>2. CASE e # d
    <3>1. Short(e)' = Short(e)
        BY <2>2 DEF Short
    <3> QED BY <2>2, <3>1 DEF IInv, TypeOK, FoundOK
  <2> QED BY <2>1, <2>2
<1> QED BY <1>2, <1>3, <1>4, <1>5, <1>6, <1>7 DEF IInv

LEMMA ReadPartialInv ==
  ASSUME IInv, NEW d \in Domain, NEW i \in todo[d], ReadPartial(d, i)
  PROVE  IInv'
<1>1. /\ pc[d] = "read" /\ missed' = missed \cup {<<d, Factories[i]>>}
      /\ UNCHANGED <<input, main, built, pc, report, errs, scannerUnread, verdict, output, cancelled>>
    BY DEF ReadPartial, Reading
<1>2. Factories[i] \in Providers
    BY Places DEF IInv, TypeOK
<1>3. PICK S \in SUBSET Reported : Collect(d, i, Findings(d, Factories[i], S))
    BY DEF ReadPartial
<1>4. PICK F \in SUBSET Finding : found[d] \subseteq F /\ found' = [found EXCEPT ![d] = F]
  <2>1. found[d] \cup {f \in Findings(d, Factories[i], S) : Shown(d, f)} \in SUBSET Finding
      BY <1>2, PartialType DEF IInv, TypeOK
  <2> QED BY <1>3, <2>1 DEF Collect
<1>5. todo' = [todo EXCEPT ![d] = @ \ {i}]
    BY <1>3 DEF Collect
<1>6. pc' = [pc EXCEPT ![d] = "read"]
    BY <1>1 DEF IInv, TypeOK
<1>7. CASE warnings' = warnings \cup {<<"warning", d, Factories[i]>>} /\ UNCHANGED unread
  <2>1. unread' = [unread EXCEPT ![d] = unread[d] \cup {}]
      BY <1>7 DEF IInv, TypeOK
  <2>2. warnings' \subseteq Entry
      BY <1>2, <1>7, EntryType DEF IInv, TypeOK
  <2>3. errs \subseteq errs' /\ errs' \subseteq Entry /\ errs' \ errs = {}
      BY <1>1 DEF IInv, TypeOK
  <2>4. \A e \in (errs' \ errs) \cup (warnings' \ warnings) \cup {} : e[2] = d /\ e[3] = Factories[i]
      BY <1>7, <2>3
  <2> QED BY <1>1, <1>4, <1>5, <1>6, <1>7, <2>1, <2>2, <2>3, <2>4, MissInv
<1>8. CASE /\ d = "iam" /\ UNCHANGED warnings
           /\ unread' = [unread EXCEPT ![d] = @ \cup {<<"principal", d, Factories[i]>>}]
  <2> DEFINE U == {<<"principal", d, Factories[i]>>}
  <2>1. U \in SUBSET Entry
      BY <1>2, EntryType
  <2>2. /\ errs \subseteq errs' /\ errs' \subseteq Entry /\ errs' \ errs = {}
        /\ warnings \subseteq warnings' /\ warnings' \subseteq Entry /\ warnings' \ warnings = {}
      BY <1>1, <1>8 DEF IInv, TypeOK
  <2>3. \A e \in (errs' \ errs) \cup (warnings' \ warnings) \cup U : e[2] = d /\ e[3] = Factories[i]
      BY <2>2
  <2>4. unread' = [unread EXCEPT ![d] = unread[d] \cup U] /\ <<"principal", d, Factories[i]>> \in U
      BY <1>8
  <2> HIDE DEF U
  <2> QED BY <1>1, <1>4, <1>5, <1>6, <1>8, <2>1, <2>2, <2>3, <2>4, MissInv
<1> QED BY <1>7, <1>8 DEF ReadPartial

LEMMA ReadErrorInv ==
  ASSUME IInv, NEW d \in Domain, NEW i \in todo[d], ReadError(d, i)
  PROVE  IInv'
<1> DEFINE v == IF d = "iam" THEN "read" ELSE "done"
<1>1. /\ pc[d] = "read" /\ missed' = missed \cup {<<d, Factories[i]>>}
      /\ errs' = errs \cup {<<"error", d, Factories[i]>>}
      /\ pc' = [pc EXCEPT ![d] = v] /\ todo' = [todo EXCEPT ![d] = @ \ {i}]
      /\ UNCHANGED <<input, main, built, report, scannerUnread, verdict, output, cancelled>>
      /\ UNCHANGED <<found, unread, warnings>>
    BY DEF ReadError, Reading
<1>2. Factories[i] \in Providers
    BY Places DEF IInv, TypeOK
<1>3. PICK F \in SUBSET Finding : found[d] \subseteq F /\ found' = [found EXCEPT ![d] = F]
    BY <1>1 DEF IInv, TypeOK
<1>4. PICK U \in SUBSET Entry : U = {} /\ unread' = [unread EXCEPT ![d] = unread[d] \cup U]
  <2>1. unread' = [unread EXCEPT ![d] = unread[d] \cup {}]
      BY <1>1 DEF IInv, TypeOK
  <2>2. {} \in SUBSET Entry
      OBVIOUS
  <2> QED BY <2>1, <2>2
<1>5. /\ errs \subseteq errs' /\ errs' \subseteq Entry
      /\ warnings \subseteq warnings' /\ warnings' \subseteq Entry /\ warnings' \ warnings = {}
    BY <1>1, <1>2, EntryType DEF IInv, TypeOK
<1>6. \A e \in (errs' \ errs) \cup (warnings' \ warnings) \cup U : e[2] = d /\ e[3] = Factories[i]
    BY <1>1, <1>4, <1>5
<1>7. PICK w \in {"read", "done"} : pc' = [pc EXCEPT ![d] = w] /\ (w = "done" => d # "iam")
    BY <1>1
<1>9. U # {} => w = "read" /\ d = "iam"
    BY <1>4
<1>8. <<"error", d, Factories[i]>> \in errs'
    BY <1>1
<1>10. /\ pc[d] = "read" /\ missed' = missed \cup {<<d, Factories[i]>>}
       /\ todo' = [todo EXCEPT ![d] = @ \ {i}]
       /\ UNCHANGED <<input, main, built, report, scannerUnread, verdict, output, cancelled>>
    BY <1>1
<1> HIDE DEF v
<1> QED BY <1>3, <1>4, <1>5, <1>6, <1>7, <1>8, <1>9, <1>10, MissInv

LEMMA PublishInv == ASSUME IInv, NEW d \in Domain, Publish(d) PROVE IInv'
<1>1. /\ pc[d] = "read" /\ todo[d] = {}
      /\ report' = [report EXCEPT ![d] = found[d]]
      /\ scannerUnread' = scannerUnread \cup unread[d]
      /\ pc' = [pc EXCEPT ![d] = "done"]
      /\ UNCHANGED <<input, main, built, todo, found, unread, errs, warnings, missed, verdict, output,
                     cancelled>>
    BY DEF Publish
<1>2. /\ main = "wait" /\ VerdictOK' /\ Enabled(d)
      /\ \A e \in Domain : ProvidersOf(e)' = ProvidersOf(e) /\ Enabled(e)' = Enabled(e)
      /\ \A e \in Domain, q \in Providers : Whole(e, q)' = Whole(e, q)
    BY <1>1, Frame
<1>3. TypeOK'
  <2>1. report' \in [Domain -> SUBSET Finding] /\ pc' \in [Domain -> {"idle", "read", "done"}]
        /\ scannerUnread' \subseteq Entry
      BY <1>1 DEF IInv, TypeOK
  <2> QED BY <1>1, <2>1 DEF IInv, TypeOK, input, verdict, output
<1>4. PcOK'
    BY <1>1, <1>2 DEF IInv, TypeOK, PcOK, Early
<1>5. MissedOK'
  <2>1. ASSUME NEW e \in Domain
        PROVE  /\ unread'[e] # {} => e = "iam"
               /\ pc'[e] = "done" => unread'[e] \subseteq scannerUnread'
               /\ pc[e] # "idle" => pc'[e] # "idle"
      BY <1>1 DEF IInv, TypeOK, MissedOK
  <2> QED BY <1>1, <1>2, <2>1 DEF IInv, MissedOK
<1>6. EntryOK'
    BY <1>1 DEF IInv, TypeOK, EntryOK, verdict
<1>7. FoundOK'
  <2>1. \A e \in Domain : Short(e)' = Short(e)
      BY <1>1 DEF Short
  <2> QED BY <1>1, <1>2, <2>1, Places DEF IInv, TypeOK, FoundOK
<1> QED BY <1>2, <1>3, <1>4, <1>5, <1>6, <1>7 DEF IInv

-----------------------------------------------------------------------------
(* The main flow from the join on.                                         *)

LEMMA JoinInv == ASSUME IInv, Join PROVE IInv'
<1>1. /\ main = "wait" /\ main' = "gate" /\ \A d \in Domain : pc[d] \in {"idle", "done"}
      /\ incomplete' = CollectIncomplete /\ counted' = Tally
      /\ UNCHANGED <<input, scan, exit, output, cancelled>>
    BY DEF Join
<1>2. PcOK' /\ MissedOK' /\ EntryOK' /\ FoundOK'
    BY <1>1, ScanKept DEF Early
<1>3. TypeOK'
  <2>1. CollectIncomplete \subseteq Entry
      BY DEF IInv, TypeOK, CollectIncomplete
  <2>2. Tally \subseteq Level
    <3>1. Published \subseteq Finding
        BY DEF IInv, TypeOK, Published
    <3> QED BY <3>1 DEF Tally, Finding
  <2> QED BY <1>1, <2>1, <2>2 DEF IInv, TypeOK, input, scan, output
<1>4. VerdictOK'
  <2>1. \A d \in Domain : Enabled(d)' => pc'[d] = "done"
      BY <1>1, SamePlan DEF IInv, PcOK, input, scan
  <2>2. incomplete' = CollectIncomplete' /\ counted' = Tally'
      BY <1>1, SameReport
  <2> QED BY <1>1, <2>1, <2>2 DEF IInv, VerdictOK, Past, output
<1> QED BY <1>2, <1>3, <1>4 DEF IInv

(* Gate, Render, Send, Exit and a signal leave the scan and the verdict's  *)
(* grounds as they are.                                                    *)
LEMMA PastKept ==
  ASSUME IInv, UNCHANGED <<input, scan, incomplete, counted>>, Past
  PROVE  /\ PcOK /\ \A d \in Domain : pc[d] # "read"
         /\ \A d \in Domain : Enabled(d)' => pc'[d] = "done"
         /\ incomplete' = CollectIncomplete' /\ counted' = Tally'
         /\ ExitCode' = ExitCode
<1>1. PcOK /\ \A d \in Domain : pc[d] # "read"
    BY DEF IInv, PcOK, VerdictOK
<1>2. \A d \in Domain : Enabled(d)' => pc'[d] = "done"
    BY SamePlan DEF IInv, VerdictOK, input, scan
<1>3. incomplete' = CollectIncomplete' /\ counted' = Tally'
    BY SameReport DEF IInv, VerdictOK
<1>4. ExitCode' = ExitCode
    BY DEF ExitCode, input
<1> QED BY <1>1, <1>2, <1>3, <1>4

LEMMA GateInv == ASSUME IInv, Gate PROVE IInv'
<1>1. /\ main = "gate" /\ main' = "render" /\ exit' = ExitCode
      /\ UNCHANGED <<input, scan, incomplete, counted, output, cancelled>>
    BY DEF Gate
<1>2. Past
    BY <1>1 DEF Past
<1>3. PcOK' /\ MissedOK' /\ EntryOK' /\ FoundOK'
    BY <1>1, <1>2, PastKept, ScanKept DEF Early
<1>4. TypeOK'
    BY <1>1, ExitCodeType DEF IInv, TypeOK, input, scan, output
<1>5. VerdictOK'
    BY <1>1, <1>2, PastKept DEF IInv, VerdictOK, Past, output
<1> QED BY <1>3, <1>4, <1>5 DEF IInv

LEMMA RenderInv == ASSUME IInv, Render PROVE IInv'
<1>1. /\ main = "render"
      /\ UNCHANGED <<input, scan, incomplete, counted, next, delivered, refused, cancelled>>
      /\ \/ main' = "notify" /\ written' = TRUE /\ exit' = exit
         \/ main' = "exited" /\ exit' = 1 /\ written' = written
    BY DEF Render, Fail
<1>2. Past
    BY <1>1 DEF Past
<1>3. PcOK' /\ MissedOK' /\ EntryOK' /\ FoundOK'
  <2>1. ~Early' /\ main' # "wait" /\ incomplete' = incomplete
      BY <1>1 DEF Early
  <2> QED BY <1>1, <1>2, <2>1, PastKept, ScanKept
<1>4. TypeOK'
  <2>1. written' \in BOOLEAN
      BY <1>1 DEF IInv, TypeOK
  <2>2. exit' \in 0 .. 3 /\ main' \in {"notify", "exited"}
      BY <1>1 DEF IInv, TypeOK
  <2> QED BY <1>1, <2>1, <2>2 DEF IInv, TypeOK, input, scan
<1>5. VerdictOK'
    BY <1>1, <1>2, PastKept DEF IInv, VerdictOK, Past
<1> QED BY <1>3, <1>4, <1>5 DEF IInv

LEMMA SendInv == ASSUME IInv, Send PROVE IInv'
<1>1. /\ main = "notify" /\ next <= Len(Sinks) /\ next' = next + 1
      /\ delivered' \in {delivered, delivered \cup {next}}
      /\ refused' \in {refused, refused \cup {next}}
      /\ UNCHANGED <<input, main, scan, verdict, written, cancelled>>
    BY DEF Send
<1>2. Past
    BY <1>1 DEF Past
<1>3. PcOK' /\ MissedOK' /\ EntryOK' /\ FoundOK'
    BY <1>1, <1>2, PastKept, ScanKept DEF Early, verdict
<1>4. TypeOK'
  <2>1. next' \in 1 .. Len(command.sinks) + 1
      BY <1>1, SinksType DEF IInv, TypeOK
  <2>2. delivered' \subseteq 1 .. next' - 1 /\ refused' \subseteq 1 .. next' - 1
      BY <1>1 DEF IInv, TypeOK
  <2> QED BY <1>1, <2>1, <2>2 DEF IInv, TypeOK, input, scan, verdict
<1>5. VerdictOK'
    BY <1>1, <1>2, PastKept DEF IInv, VerdictOK, Past, verdict
<1> QED BY <1>3, <1>4, <1>5 DEF IInv

LEMMA ExitInv == ASSUME IInv, Exit PROVE IInv'
<1>1. /\ main = "notify" /\ main' = "exited"
      /\ UNCHANGED <<input, scan, verdict, output, cancelled>>
    BY DEF Exit
<1>2. Past
    BY <1>1 DEF Past
<1>3. PcOK' /\ MissedOK' /\ EntryOK' /\ FoundOK'
    BY <1>1, <1>2, PastKept, ScanKept DEF Early, verdict
<1>4. TypeOK'
    BY <1>1 DEF IInv, TypeOK, input, scan, verdict, output
<1>5. written /\ exit = ExitCode
    BY <1>1, <1>2 DEF IInv, VerdictOK
<1>6. VerdictOK'
    BY <1>1, <1>2, <1>5, ExitCodeType, PastKept DEF IInv, VerdictOK, Past, verdict, output
<1> QED BY <1>3, <1>4, <1>6 DEF IInv

(* A signal, or a step that changes nothing.                               *)
LEMMA StutterInv ==
  ASSUME IInv, UNCHANGED <<input, main, scan, verdict, output>>, cancelled' \in BOOLEAN
  PROVE  IInv'
<1>1. /\ UNCHANGED <<command, account, built, pc, todo, found, unread, report, errs, scannerUnread,
                      warnings, missed, main, incomplete, counted, exit, written, next, delivered, refused>>
    BY DEF input, scan, verdict, output
<1>2. TypeOK'
    BY <1>1 DEF IInv, TypeOK
<1>3. PcOK' /\ MissedOK' /\ EntryOK' /\ FoundOK'
  <2>1. PcOK'
      BY <1>1, SamePlan DEF IInv, PcOK, Early
  <2>2. MissedOK'
      BY <1>1, SamePlan DEF IInv, MissedOK
  <2>3. EntryOK'
      BY <1>1 DEF IInv, EntryOK
  <2>4. FoundOK'
      BY <1>1, SamePlan, SameTruth, Places DEF IInv, FoundOK, Short
  <2> QED BY <2>1, <2>2, <2>3, <2>4
<1>4. VerdictOK'
  <2>1. /\ CollectIncomplete' = CollectIncomplete /\ Tally' = Tally
        /\ \A d \in Domain : Enabled(d)' = Enabled(d)
        /\ ExitCode' = ExitCode
      BY <1>1, SameReport, SamePlan DEF ExitCode
  <2> QED BY <1>1, <2>1 DEF IInv, VerdictOK, Past
<1> QED BY <1>2, <1>3, <1>4 DEF IInv

LEMMA NextInv == IInv /\ [Next]_vars => IInv'
<1> SUFFICES ASSUME IInv, [Next]_vars PROVE IInv'
    OBVIOUS
<1>1. ASSUME Main PROVE IInv'
    BY <1>1, FlagsInv, ResolveInv, SpawnInv, JoinInv, GateInv, RenderInv, SendInv, ExitInv DEF Main
<1>2. ASSUME NEW d \in Domain, Goroutine(d) PROVE IInv'
    BY <1>2, ReadWholeInv, ReadPartialInv, ReadErrorInv, PublishInv DEF Goroutine
<1>3. CASE Interrupt
    BY <1>3, StutterInv DEF Interrupt
<1>4. CASE UNCHANGED vars
    BY <1>4, StutterInv DEF vars, input, scan, verdict, output, IInv, TypeOK
<1> QED BY <1>1, <1>2, <1>3, <1>4 DEF Next, Terminated

(* The invariant holds throughout; what follows is read off it.            *)
THEOREM Invariance == Spec => []IInv
  BY InitInv, NextInv, PTL DEF Spec

-----------------------------------------------------------------------------
(* The theorems.                                                           *)

(* Every variable keeps the type the code gives it.                        *)
THEOREM TypeCorrect == Spec => []TypeOK
<1>1. IInv => TypeOK
    BY DEF IInv
<1> QED BY <1>1, Invariance, PTL

(* Whatever was missed is on the record once the domains have been joined. *)
LEMMA MissIsRecorded ==
  ASSUME IInv, Past, NEW d \in Domain, Short(d)
  PROVE  \E e \in incomplete : e[2] = d
<1>1. PICK p \in Providers : <<d, p>> \in missed
    BY DEF Short
<1>2. Enabled(d) /\ pc[d] = "done" /\ \E i \in ProvidersOf(d) : Factories[i] = p
    BY <1>1 DEF IInv, PcOK, MissedOK, VerdictOK
<1>3. p \in Heard
    BY <1>2 DEF Heard, Enabled
<1>4. \E e \in CollectIncomplete : e[2] = d
  <2>1. CASE <<"error", d, p>> \in errs
      BY <2>1 DEF CollectIncomplete
  <2>2. CASE <<"warning", d, p>> \in warnings
      BY <1>3, <2>2 DEF CollectIncomplete
  <2>3. CASE <<"principal", d, p>> \in unread[d]
      BY <1>2, <2>3 DEF IInv, MissedOK, CollectIncomplete
  <2> QED BY <1>1, <2>1, <2>2, <2>3 DEF IInv, MissedOK
<1> QED BY <1>4 DEF IInv, VerdictOK

(* A domain that missed nothing publishes all its providers hold, and      *)
(* nothing else.                                                           *)
LEMMA WholeIsPublished ==
  ASSUME IInv, Past, NEW d \in Domain, Enabled(d), ~Short(d)
  PROVE  report[d] = UNION {Whole(d, Factories[i]) : i \in ProvidersOf(d)}
<1>1. pc[d] = "done"
    BY DEF IInv, VerdictOK
<1>2. todo[d] = {} /\ report[d] = found[d]
    BY <1>1 DEF IInv, FoundOK
<1>3. \A i \in ProvidersOf(d) : Whole(d, Factories[i]) \subseteq found[d]
    BY <1>1, <1>2, Places DEF IInv, FoundOK, Short
<1>4. \A f \in found[d] : \E i \in ProvidersOf(d) : f \in Whole(d, Factories[i])
    BY <1>1 DEF IInv, FoundOK
<1> QED BY <1>2, <1>3, <1>4

(* Exit 0 under --fail-on is evidence: nothing was missed, and nothing the *)
(* account holds reaches both the floor and the threshold.                 *)
THEOREM ZeroIsEvidence == Spec => []ExitZeroIsEvidence
<1>1. IInv => ExitZeroIsEvidence
  <2> SUFFICES ASSUME IInv, Exited, command.failOn # Omitted, exit = 0
               PROVE  /\ missed = {}
                      /\ \A d \in {e \in Domain : Enabled(e)} : \A i \in ProvidersOf(d) :
                           \A f \in Whole(d, Factories[i]) :
                             HasSeverity(f) => ~AtLeast(f.severity, command.failOn)
      BY DEF ExitZeroIsEvidence
  <2>1. Past /\ exit = ExitCode /\ counted = Tally
      BY DEF IInv, VerdictOK, Past, Exited
  <2>2. incomplete = {} /\ ~(\E s \in counted : AtLeast(s, command.failOn))
      BY <2>1 DEF ExitCode
  <2>3. \A d \in Domain : ~Short(d)
      BY <2>1, <2>2, MissIsRecorded
  <2>4. missed = {}
    <3> SUFFICES ASSUME NEW x \in missed PROVE FALSE
        OBVIOUS
    <3>1. PICK d \in Domain, p \in Providers : x = <<d, p>>
        BY DEF IInv, TypeOK
    <3> QED BY <2>3, <3>1 DEF Short
  <2>5. ASSUME NEW d \in Domain, Enabled(d), NEW i \in ProvidersOf(d),
               NEW f \in Whole(d, Factories[i]), HasSeverity(f)
        PROVE  ~AtLeast(f.severity, command.failOn)
    <3>1. f \in report[d]
        BY <2>1, <2>3, <2>5, WholeIsPublished
    <3>2. f.severity \in counted
        BY <2>1, <2>5, <3>1 DEF Tally, Published
    <3> QED BY <2>2, <3>2
  <2> QED BY <2>4, <2>5
<1> QED BY <1>1, Invariance, PTL

(* A domain's share of the report is all its providers hold, or the record *)
(* names the domain.                                                       *)
THEOREM ZeroExplained == Spec => []ZeroIsExplained
<1>1. IInv => ZeroIsExplained
  <2> SUFFICES ASSUME IInv, Joined, NEW d \in Domain, Enabled(d)
               PROVE  \/ report[d] = UNION {Whole(d, Factories[i]) : i \in ProvidersOf(d)}
                      \/ \E e \in incomplete : e[2] = d
      BY DEF ZeroIsExplained
  <2>1. Past
      BY DEF Joined, Exited, Past
  <2> QED BY <2>1, MissIsRecorded, WholeIsPublished
<1> QED BY <1>1, Invariance, PTL

(* Each entry of the record names a read that was made and missed, of a    *)
(* domain that was not skipped, and exit 3 means there was one.            *)
THEOREM AlarmsAreReal == Spec => []NoFalseAlarm
<1>1. IInv => NoFalseAlarm
  <2> SUFFICES ASSUME IInv
               PROVE  /\ \A e \in incomplete : <<e[2], e[3]>> \in missed /\ e[2] \notin command.skip
                      /\ exit = 3 => missed # {}
      BY DEF NoFalseAlarm
  <2>1. ASSUME NEW e \in incomplete PROVE <<e[2], e[3]>> \in missed /\ e[2] \notin command.skip
    <3>1. <<e[2], e[3]>> \in missed /\ e[2] \in Domain /\ e[3] \in Providers
        BY DEF IInv, TypeOK, EntryOK, Entry
    <3>2. Enabled(e[2])
        BY <3>1 DEF IInv, MissedOK, PcOK
    <3> QED BY <3>1, <3>2 DEF Enabled, Ran
  <2>2. ASSUME exit = 3 PROVE missed # {}
    <3>1. exit = ExitCode
        BY <2>2 DEF IInv, TypeOK, VerdictOK
    <3>2. incomplete # {}
        BY <2>2, <3>1 DEF ExitCode
    <3> QED BY <2>1, <3>2
  <2> QED BY <2>1, <2>2
<1> QED BY <1>1, Invariance, PTL

(* A run that ends normally exits 2 exactly when a finding it published    *)
(* with a severity reaches the threshold, whatever it could not read.      *)
THEOREM FindingsFirst == Spec => []FindingsOutrankGaps
<1>1. IInv => FindingsOutrankGaps
  <2> SUFFICES ASSUME IInv, Exited, exit # 1, command.failOn # Omitted
               PROVE  exit = 2 <=> \E f \in Published : HasSeverity(f) /\ AtLeast(f.severity, command.failOn)
      BY DEF FindingsOutrankGaps
  <2>1. exit = ExitCode /\ counted = Tally
      BY DEF IInv, VerdictOK, Past, Exited
  <2>2. exit = 2 <=> \E s \in counted : AtLeast(s, command.failOn)
      BY <2>1 DEF ExitCode
  <2> QED BY <2>1, <2>2 DEF Tally
<1> QED BY <1>1, Invariance, PTL
=============================================================================
