---------------------------- MODULE IamScanProofs ----------------------------
(***************************************************************************)
(* Theorems about IamScan for every account, filter, concurrency, window   *)
(* and number of failed reads.                                             *)
(***************************************************************************)
EXTENDS IamScanRefines, FiniteSetTheorems, TLAPS

-----------------------------------------------------------------------------
(* What analyze returns.                                                   *)

(* Every verdict is a finding about the principal it was asked about.      *)
LEMMA AnalyzeType ==
  ASSUME NEW p \in Principal, NEW g \in SUBSET Permission, NEW u \in SUBSET Permission,
         NEW k \in BOOLEAN
  PROVE  /\ Analyze(p, g, u, k) \subseteq Finding
         /\ \A f \in Analyze(p, g, u, k) : f.principal = p
  BY DEF Analyze, Verdict, Finding, FindingType, Permission, NoResource

(* With the same used-set, a principal read in part shows no verdict that  *)
(* reading it whole would not.                                             *)
LEMMA AnalyzeMonotone ==
  ASSUME NEW p \in Principal, NEW G \in SUBSET Permission, NEW g \in SUBSET G,
         NEW u \in SUBSET Permission, NEW k \in BOOLEAN
  PROVE  Analyze(p, g, u, k) \subseteq Analyze(p, G, u, k)
  BY DEF Analyze

LEMMA KeptType ==
  ASSUME TypeOK, NEW p \in Principal
  PROVE  /\ Kept(p) \subseteq Finding
         /\ \A f \in Kept(p) : f.principal = p
  BY AnalyzeType, ScanAssumption DEF Kept, AboveFloor, TypeOK

(* The shape of the account.                                               *)
LEMMA AccountType ==
  ASSUME TypeOK, NEW p \in Principal
  PROVE  /\ account[p].granted \in SUBSET Permission
         /\ LogAnswer(p) \in SUBSET Permission
         /\ Activity(p) \in SUBSET Permission
  BY ScanAssumption DEF TypeOK, LogAnswer, Activity

LEMMA EmptyResultType == EmptyResult \in ResultType
  BY DEF EmptyResult, ResultType

-----------------------------------------------------------------------------
(* Type correctness.                                                       *)

(* A goroutine on its way to Incomplete has an error to report.            *)
ErrOK == \A p \in Principal : pc[p] \in {"wantIncomplete", "inIncomplete"} => err[p] # "none"

LEMMA TypeInit == Init => TypeOK /\ ErrOK
  BY EmptyResultType DEF Init, TypeOK, ErrOK, Labels

LEMMA ListPrincipalsType == TypeOK /\ ListPrincipals => TypeOK'
<1> SUFFICES ASSUME TypeOK, ListPrincipals PROVE TypeOK'
    OBVIOUS
<1> USE DEF TypeOK
<1>1. WindowNote \in SUBSET ({"window", "granted", "used"} \X (Principal \cup {NoOne}))
    BY DEF WindowNote
<1>2. [result EXCEPT !.incomplete = WindowNote] \in ResultType
    BY <1>1 DEF ResultType
<1>3. queue' \subseteq Principal /\ result' \in ResultType
    BY <1>2, ScanAssumption DEF ListPrincipals, Listed
<1>4. main' \in {"list", "spawn", "wait", "returned", "failed"}
    BY DEF ListPrincipals, Listed
<1>5. warnings' \subseteq {"list", "granted", "used"} \X (Principal \cup {NoOne})
    BY DEF ListPrincipals
<1> QED BY <1>3, <1>4, <1>5 DEF ListPrincipals, local, counters, input

LEMMA TypeStep == TypeOK /\ ErrOK /\ [Next]_vars => TypeOK' /\ ErrOK'
<1> SUFFICES ASSUME TypeOK, ErrOK, [Next]_vars PROVE TypeOK' /\ ErrOK'
    OBVIOUS
<1> USE DEF TypeOK, ErrOK
<1>1. CASE ListPrincipals
    BY <1>1, ListPrincipalsType DEF ListPrincipals, local
<1>2. ASSUME NEW p \in Principal, Spawn(p) PROVE TypeOK' /\ ErrOK'
    BY <1>2 DEF Spawn, Goto, Labels, provider, input, local, counters
<1>3. CASE Wait
    BY <1>3 DEF Wait, provider, input, local, counters
<1>4. CASE Return
    BY <1>4 DEF Return, provider, input, local, counters
<1>5. ASSUME NEW p \in Principal, GrantedPermissions(p) PROVE TypeOK' /\ ErrOK'
    BY <1>5, AccountType DEF GrantedPermissions, Goto, Labels, input, counters
<1>6. ASSUME NEW p \in Principal, UsedPermissions(p) PROVE TypeOK' /\ ErrOK'
    BY <1>6, AccountType DEF UsedPermissions, Goto, Labels, input, counters
<1>7. ASSUME NEW p \in Principal, CountScanned(p) PROVE TypeOK' /\ ErrOK'
    BY <1>7 DEF CountScanned, AfterAnalysis, Goto, Labels, provider, input, local
<1>8. ASSUME NEW p \in Principal, Lock(p) PROVE TypeOK' /\ ErrOK'
    BY <1>8 DEF Lock, Section, Goto, Labels, provider, input, local, counters
<1>9. ASSUME NEW p \in Principal, AppendIncomplete(p) PROVE TypeOK' /\ ErrOK'
  <2>1. <<err[p], p>> \in {"window", "granted", "used"} \X (Principal \cup {NoOne})
    BY <1>9 DEF AppendIncomplete
  <2>2. result' \in ResultType
    BY <1>9, <2>1 DEF AppendIncomplete, ResultType
  <2> QED BY <1>9, <2>2, EmptyResultType
       DEF AppendIncomplete, Unlock, Goto, Labels, provider, input, local, counters
<1>10. ASSUME NEW p \in Principal, StoreUsed(p) PROVE TypeOK' /\ ErrOK'
  <2>1. result' \in ResultType
    BY <1>10 DEF StoreUsed, ResultType
  <2> QED BY <1>10, <2>1, EmptyResultType
       DEF StoreUsed, AfterAnalysis, Unlock, Goto, Labels, provider, input, local, counters
<1>11. ASSUME NEW p \in Principal, AppendFindings(p) PROVE TypeOK' /\ ErrOK'
  <2>1. result' \in ResultType
    BY <1>11, KeptType DEF AppendFindings, ResultType
  <2> QED BY <1>11, <2>1, EmptyResultType
       DEF AppendFindings, Unlock, Goto, Labels, provider, input, local, counters
<1>12. ASSUME NEW p \in Principal, Release(p) PROVE TypeOK' /\ ErrOK'
    BY <1>12 DEF Release, Goto, Labels, provider, input, local, counters
<1>13. ASSUME NEW p \in Principal, Finish(p) PROVE TypeOK' /\ ErrOK'
    BY <1>13 DEF Finish, Goto, Labels, provider, input, local
<1>14. CASE UNCHANGED vars
    BY <1>14 DEF vars
<1> QED BY <1>1, <1>2, <1>3, <1>4, <1>5, <1>6, <1>7, <1>8, <1>9, <1>10, <1>11, <1>12, <1>13,
          <1>14 DEF Next, Main, Worker, Terminated

(* Every variable keeps the type the code gives it, whatever the provider  *)
(* returns and in whatever order the goroutines run.                       *)
THEOREM TypeCorrect == Spec => []TypeOK
<1>1. Spec => [](TypeOK /\ ErrOK)
    BY TypeInit, TypeStep, PTL DEF Spec
<1> QED BY <1>1, PTL

-----------------------------------------------------------------------------
(* The inductive invariant.  Each part says what the program counters tell *)
(* about one shared variable.                                              *)

Past   == {"release", "tally", "finished"}
Posted == {p \in Principal : err[p] = "none" /\ pc[p] \in Past}

SemOK ==
  /\ sem = {p \in Principal : pc[p] \notin {"idle", "tally", "finished"}}
  /\ Cardinality(sem) <= Slots

MuOK ==
  \A p \in Principal : pc[p] \in {"inIncomplete", "inUsed", "inFindings"} =>
    mu = p /\ snap[p] = result

MainOK ==
  /\ \A p \in queue : pc[p] = "idle"
  /\ main \in {"list", "failed"} =>
       queue = {} /\ result = EmptyResult /\ \A p \in Principal : pc[p] = "idle"
  /\ main \in {"wait", "returned"} => queue = {}
  /\ main = "returned" => \A p \in Principal : pc[p] \in {"idle", "finished"}

ErrPast ==
  \A p \in Principal : err[p] # "none" => pc[p] \in {"wantIncomplete", "inIncomplete"} \cup Past

FindingsOK == result.findings = UNION {Kept(p) : p \in Posted}

IncompleteOK ==
  /\ \A p \in Principal : \A w \in {"granted", "used"} :
       <<w, p>> \in result.incomplete <=> err[p] = w /\ pc[p] \in Past
  /\ main \notin {"list", "failed"} /\ Short => <<"window", NoOne>> \in result.incomplete

UsedOK ==
  \A p \in Principal :
    result.used[p] = IF err[p] = "none" /\ pc[p] \in {"wantFindings", "inFindings"} \cup Past
                     THEN used[p] ELSE {}

Finished == {p \in Principal : pc[p] = "finished"}

CountOK ==
  /\ scanned = Cardinality(Analysed)
  /\ done = Cardinality(Finished)

TraceOK ==
  /\ \A p \in Principal :
       /\ granted[p] \subseteq account[p].granted
       /\ pc[p] \notin {"idle", "granted"} /\ err[p] # "granted" =>
            granted[p] = account[p].granted \/ <<"granted", p>> \in warnings
       /\ pc[p] \notin {"idle", "granted", "used"} /\ err[p] = "none" =>
            used[p] = LogAnswer(p) \/ <<"used", p>> \in warnings
  /\ queue \cup Attempted \subseteq Matches
  /\ main \notin {"list", "failed"} => Matches \subseteq queue \cup Attempted \/ <<"list", NoOne>> \in warnings

IInv == /\ TypeOK /\ ErrOK
        /\ SemOK /\ MuOK /\ MainOK /\ ErrPast
        /\ FindingsOK /\ IncompleteOK /\ UsedOK /\ CountOK /\ TraceOK

(* The mutex admits one section at a time, whose view of the Result is the *)
(* current one; nothing is spawned twice; an error ends its goroutine.     *)
LEMMA ControlStep ==
  TypeOK /\ ErrOK /\ MuOK /\ MainOK /\ ErrPast /\ [Next]_vars => MuOK' /\ MainOK' /\ ErrPast'
<1> SUFFICES ASSUME TypeOK, ErrOK, MuOK, MainOK, ErrPast, [Next]_vars PROVE MuOK' /\ MainOK' /\ ErrPast'
    OBVIOUS
<1> USE DEF TypeOK, ErrOK, MuOK, MainOK, ErrPast, Labels, Past
<1>1. CASE ListPrincipals
    BY <1>1 DEF ListPrincipals, input, local, counters, Listed
<1>2. ASSUME NEW p \in Principal, Spawn(p) PROVE MuOK' /\ MainOK' /\ ErrPast'
    BY <1>2 DEF Spawn, provider, input, local, counters, Goto
<1>3. CASE Wait
    BY <1>3 DEF Wait, provider, input, local, counters, Goto
<1>4. CASE Return
    BY <1>4 DEF Return, provider, input, local, counters, Goto
<1>5. ASSUME NEW p \in Principal, GrantedPermissions(p) PROVE MuOK' /\ MainOK' /\ ErrPast'
    BY <1>5 DEF GrantedPermissions, provider, input, local, counters, Goto
<1>6. ASSUME NEW p \in Principal, UsedPermissions(p) PROVE MuOK' /\ MainOK' /\ ErrPast'
    BY <1>6 DEF UsedPermissions, provider, input, local, counters, Goto
<1>7. ASSUME NEW p \in Principal, CountScanned(p) PROVE MuOK' /\ MainOK' /\ ErrPast'
    BY <1>7 DEF CountScanned, provider, input, local, counters, Goto, AfterAnalysis
<1>8. ASSUME NEW p \in Principal, Lock(p) PROVE MuOK' /\ MainOK' /\ ErrPast'
  <2>1. pc[p] \in {"wantIncomplete", "wantUsed", "wantFindings"}
    BY <1>8 DEF Lock, Section
  <2>2. Section[pc[p]] = CASE pc[p] = "wantIncomplete" -> "inIncomplete"
                           [] pc[p] = "wantUsed" -> "inUsed"
                           [] OTHER -> "inFindings"
    BY <2>1 DEF Section
  <2> QED BY <1>8, <2>1, <2>2, ScanAssumption DEF Lock, provider, input, local, counters, Goto
<1>9. ASSUME NEW p \in Principal, AppendIncomplete(p) PROVE MuOK' /\ MainOK' /\ ErrPast'
    BY <1>9 DEF AppendIncomplete, provider, input, local, counters, Goto, Unlock
<1>10. ASSUME NEW p \in Principal, StoreUsed(p) PROVE MuOK' /\ MainOK' /\ ErrPast'
    BY <1>10 DEF StoreUsed, provider, input, local, counters, Goto, Unlock, AfterAnalysis
<1>11. ASSUME NEW p \in Principal, AppendFindings(p) PROVE MuOK' /\ MainOK' /\ ErrPast'
    BY <1>11 DEF AppendFindings, provider, input, local, counters, Goto, Unlock
<1>12. ASSUME NEW p \in Principal, Release(p) PROVE MuOK' /\ MainOK' /\ ErrPast'
    BY <1>12 DEF Release, provider, input, local, counters, Goto
<1>13. ASSUME NEW p \in Principal, Finish(p) PROVE MuOK' /\ MainOK' /\ ErrPast'
    BY <1>13 DEF Finish, provider, input, local, counters, Goto
<1>14. CASE UNCHANGED vars
    BY <1>14 DEF vars
<1> QED BY <1>1, <1>2, <1>3, <1>4, <1>5, <1>6, <1>7, <1>8, <1>9, <1>10, <1>11, <1>12, <1>13, <1>14
       DEF Next, Main, Worker, Terminated

(* The semaphore holds a token for each goroutine between its spawn and    *)
(* its deferred receive, and never more tokens than slots.                 *)
LEMMA SemStep ==
  TypeOK /\ MainOK /\ SemOK /\ [Next]_vars => SemOK'
<1> SUFFICES ASSUME TypeOK, MainOK, SemOK, [Next]_vars PROVE SemOK'
    OBVIOUS
<1> USE DEF TypeOK, SemOK, Labels
<1>fin. IsFiniteSet(sem) /\ Cardinality(sem) \in Nat
    BY FS_Subset, FS_CardinalityType, ScanAssumption
<1>1. CASE ListPrincipals
    BY <1>1 DEF ListPrincipals, local, counters, Slots
<1>2. ASSUME NEW p \in Principal, Spawn(p) PROVE SemOK'
  <2>0. Cardinality(sem \cup {p}) = IF p \in sem THEN Cardinality(sem) ELSE Cardinality(sem) + 1
    BY <1>fin, FS_AddElement
  <2>1. Cardinality(sem') <= Slots
    BY <1>2, <1>fin, <2>0, ScanAssumption DEF Spawn, Slots
  <2>2. sem' = {q \in Principal : pc'[q] \notin {"idle", "tally", "finished"}}
    BY <1>2 DEF Spawn, Goto
  <2> QED BY <2>1, <2>2 DEF Slots
<1>3. CASE Wait
    BY <1>3 DEF Wait, provider, input, local, counters, Goto
<1>4. CASE Return
    BY <1>4 DEF Return, provider, input, local, counters, Goto
<1>5. ASSUME NEW p \in Principal, GrantedPermissions(p) PROVE SemOK'
    BY <1>5 DEF GrantedPermissions, provider, input, local, counters, Goto
<1>6. ASSUME NEW p \in Principal, UsedPermissions(p) PROVE SemOK'
    BY <1>6 DEF UsedPermissions, provider, input, local, counters, Goto
<1>7. ASSUME NEW p \in Principal, CountScanned(p) PROVE SemOK'
    BY <1>7 DEF CountScanned, provider, input, local, counters, Goto, AfterAnalysis
<1>8. ASSUME NEW p \in Principal, Lock(p) PROVE SemOK'
    BY <1>8 DEF Lock, provider, input, local, counters, Goto, Section
<1>9. ASSUME NEW p \in Principal, AppendIncomplete(p) PROVE SemOK'
    BY <1>9 DEF AppendIncomplete, provider, input, local, counters, Goto, Unlock
<1>10. ASSUME NEW p \in Principal, StoreUsed(p) PROVE SemOK'
    BY <1>10 DEF StoreUsed, provider, input, local, counters, Goto, Unlock, AfterAnalysis
<1>11. ASSUME NEW p \in Principal, AppendFindings(p) PROVE SemOK'
    BY <1>11 DEF AppendFindings, provider, input, local, counters, Goto, Unlock
<1>12. ASSUME NEW p \in Principal, Release(p) PROVE SemOK'
  <2>0. Cardinality(sem \ {p}) = IF p \in sem THEN Cardinality(sem) - 1 ELSE Cardinality(sem)
    BY <1>fin, FS_RemoveElement
  <2>1. Cardinality(sem') <= Slots
    BY <1>12, <1>fin, <2>0, ScanAssumption DEF Release, Slots
  <2>2. sem' = {q \in Principal : pc'[q] \notin {"idle", "tally", "finished"}}
    BY <1>12 DEF Release, Goto
  <2> QED BY <2>1, <2>2 DEF Slots
<1>13. ASSUME NEW p \in Principal, Finish(p) PROVE SemOK'
    BY <1>13 DEF Finish, provider, input, local, counters, Goto
<1>14. CASE UNCHANGED vars
    BY <1>14 DEF vars, Slots
<1> QED BY <1>1, <1>2, <1>3, <1>4, <1>5, <1>6, <1>7, <1>8, <1>9, <1>10, <1>11, <1>12, <1>13,
          <1>14 DEF Next, Main, Worker, Terminated

(* A step that posts nothing and leaves the answers behind the posted      *)
(* findings alone keeps FindingsOK.                                        *)
LEMMA KeptFrame ==
  ASSUME NEW q \in Principal, granted'[q] = granted[q], used'[q] = used[q]
  PROVE  Kept(q)' = Kept(q)
  BY DEF Kept

LEMMA NothingPosted ==
  ASSUME FindingsOK, result'.findings = result.findings, Posted' = Posted,
         \A q \in Posted : granted'[q] = granted[q] /\ used'[q] = used[q]
  PROVE  FindingsOK'
<1>1. \A q \in Posted : Kept(q)' = Kept(q)
    BY KeptFrame DEF Posted
<1>2. {Kept(q) : q \in Posted}' = {Kept(q) : q \in Posted}
    BY <1>1
<1> QED BY <1>2 DEF FindingsOK

LEMMA OnePosted ==
  ASSUME FindingsOK, NEW p \in Principal, UNCHANGED <<granted, used>>,
         result'.findings = result.findings \cup Kept(p), Posted' = Posted \cup {p}
  PROVE  FindingsOK'
<1>1. \A q \in Principal : Kept(q)' = Kept(q)
    BY KeptFrame
<1>2. {Kept(q) : q \in Posted}' = {Kept(q) : q \in Posted} \cup {Kept(p)}
    BY <1>1 DEF Posted
<1> QED BY <1>2 DEF FindingsOK

(* Findings holds what the posted principals contribute, nothing else.     *)
LEMMA FindingsStep ==
  TypeOK /\ ErrOK /\ MuOK /\ MainOK /\ ErrPast /\ FindingsOK /\ [Next]_vars => FindingsOK'
<1> SUFFICES ASSUME TypeOK, ErrOK, MuOK, MainOK, ErrPast, FindingsOK, [Next]_vars PROVE FindingsOK'
    OBVIOUS
<1> USE DEF TypeOK, ErrOK, MuOK, MainOK, ErrPast
<1>1. CASE ListPrincipals
  <2>1. Posted' = Posted /\ result'.findings = result.findings
    BY <1>1 DEF ListPrincipals, Listed, Posted, ResultType, local
  <2> QED BY <1>1, <2>1, NothingPosted DEF ListPrincipals, local
<1>2. ASSUME NEW p \in Principal, Spawn(p) PROVE FindingsOK'
  <2>1. Posted' = Posted /\ result'.findings = result.findings
    BY <1>2 DEF Spawn, Posted, Past, Labels, provider, input, local, counters, Goto
  <2>2. \A q \in Posted : granted'[q] = granted[q] /\ used'[q] = used[q]
    BY <1>2 DEF Spawn, Posted, Past, provider, input, local, counters, Goto
  <2> QED BY <2>1, <2>2, NothingPosted
<1>3. CASE Wait
  <2>1. Posted' = Posted /\ result'.findings = result.findings
    BY <1>3 DEF Wait, Posted, Past, Labels, provider, input, local, counters, Goto
  <2>2. \A q \in Posted : granted'[q] = granted[q] /\ used'[q] = used[q]
    BY <1>3 DEF Wait, Posted, Past, provider, input, local, counters, Goto
  <2> QED BY <2>1, <2>2, NothingPosted
<1>4. CASE Return
  <2>1. Posted' = Posted /\ result'.findings = result.findings
    BY <1>4 DEF Return, Posted, Past, Labels, provider, input, local, counters, Goto
  <2>2. \A q \in Posted : granted'[q] = granted[q] /\ used'[q] = used[q]
    BY <1>4 DEF Return, Posted, Past, provider, input, local, counters, Goto
  <2> QED BY <2>1, <2>2, NothingPosted
<1>5. ASSUME NEW p \in Principal, GrantedPermissions(p) PROVE FindingsOK'
  <2>1. Posted' = Posted /\ result'.findings = result.findings
    BY <1>5 DEF GrantedPermissions, Posted, Past, Labels, provider, input, local, counters, Goto
  <2>2. \A q \in Posted : granted'[q] = granted[q] /\ used'[q] = used[q]
    BY <1>5 DEF GrantedPermissions, Posted, Past, provider, input, local, counters, Goto
  <2> QED BY <2>1, <2>2, NothingPosted
<1>6. ASSUME NEW p \in Principal, UsedPermissions(p) PROVE FindingsOK'
  <2>1. Posted' = Posted /\ result'.findings = result.findings
    BY <1>6 DEF UsedPermissions, Posted, Past, Labels, provider, input, local, counters, Goto
  <2>2. \A q \in Posted : granted'[q] = granted[q] /\ used'[q] = used[q]
    BY <1>6 DEF UsedPermissions, Posted, Past, provider, input, local, counters, Goto
  <2> QED BY <2>1, <2>2, NothingPosted
<1>7. ASSUME NEW p \in Principal, CountScanned(p) PROVE FindingsOK'
  <2>1. CASE Kept(p) = {} /\ used[p] = {}
    <3>1. Posted' = Posted \cup {p} /\ result'.findings = result.findings \cup Kept(p)
      BY <1>7, <2>1 DEF CountScanned, Posted, Past, Labels, provider, input, local, counters, Goto, AfterAnalysis
    <3> QED BY <1>7, <3>1, OnePosted DEF CountScanned, local
  <2>2. CASE Kept(p) # {} \/ used[p] # {}
    <3>1. Posted' = Posted /\ result'.findings = result.findings
      BY <1>7, <2>2 DEF CountScanned, Posted, Past, Labels, provider, input, local, counters, Goto, AfterAnalysis
    <3> QED BY <1>7, <3>1, NothingPosted DEF CountScanned, local
  <2> QED BY <2>1, <2>2
<1>8. ASSUME NEW p \in Principal, Lock(p) PROVE FindingsOK'
  <2>1. Posted' = Posted /\ result'.findings = result.findings
    BY <1>8 DEF Lock, Posted, Past, Labels, provider, input, local, counters, Goto, Section
  <2>2. \A q \in Posted : granted'[q] = granted[q] /\ used'[q] = used[q]
    BY <1>8 DEF Lock, Posted, Past, provider, input, local, counters, Goto, Section
  <2> QED BY <2>1, <2>2, NothingPosted
<1>9. ASSUME NEW p \in Principal, AppendIncomplete(p) PROVE FindingsOK'
  <2>1. Posted' = Posted /\ result'.findings = result.findings
    BY <1>9 DEF AppendIncomplete, Posted, Past, Labels, provider, input, local, counters, Goto, Unlock
  <2>2. \A q \in Posted : granted'[q] = granted[q] /\ used'[q] = used[q]
    BY <1>9 DEF AppendIncomplete, Posted, Past, provider, input, local, counters, Goto, Unlock
  <2> QED BY <2>1, <2>2, NothingPosted
<1>10. ASSUME NEW p \in Principal, StoreUsed(p) PROVE FindingsOK'
  <2>1. CASE Kept(p) = {}
    <3>1. Posted' = Posted \cup {p} /\ result'.findings = result.findings \cup Kept(p)
      BY <1>10, <2>1 DEF StoreUsed, Posted, Past, Labels, provider, input, local, counters, Goto, Unlock, AfterAnalysis
    <3> QED BY <1>10, <3>1, OnePosted DEF StoreUsed, local
  <2>2. CASE Kept(p) # {}
    <3>1. Posted' = Posted /\ result'.findings = result.findings
      BY <1>10, <2>2 DEF StoreUsed, Posted, Past, Labels, provider, input, local, counters, Goto, Unlock, AfterAnalysis
    <3> QED BY <1>10, <3>1, NothingPosted DEF StoreUsed, local
  <2> QED BY <2>1, <2>2
<1>11. ASSUME NEW p \in Principal, AppendFindings(p) PROVE FindingsOK'
  <2>1. Posted' = Posted \cup {p} /\ result'.findings = result.findings \cup Kept(p)
    BY <1>11 DEF AppendFindings, Posted, Past, Labels, provider, input, local, counters, Goto, Unlock
  <2> QED BY <1>11, <2>1, OnePosted DEF AppendFindings, local
<1>12. ASSUME NEW p \in Principal, Release(p) PROVE FindingsOK'
  <2>1. Posted' = Posted /\ result'.findings = result.findings
    BY <1>12 DEF Release, Posted, Past, Labels, provider, input, local, counters, Goto
  <2>2. \A q \in Posted : granted'[q] = granted[q] /\ used'[q] = used[q]
    BY <1>12 DEF Release, Posted, Past, provider, input, local, counters, Goto
  <2> QED BY <2>1, <2>2, NothingPosted
<1>13. ASSUME NEW p \in Principal, Finish(p) PROVE FindingsOK'
  <2>1. Posted' = Posted /\ result'.findings = result.findings
    BY <1>13 DEF Finish, Posted, Past, Labels, provider, input, local, counters, Goto
  <2>2. \A q \in Posted : granted'[q] = granted[q] /\ used'[q] = used[q]
    BY <1>13 DEF Finish, Posted, Past, provider, input, local, counters, Goto
  <2> QED BY <2>1, <2>2, NothingPosted
<1>14. CASE UNCHANGED vars
    BY <1>14, NothingPosted DEF vars, Posted
<1> QED BY <1>1, <1>2, <1>3, <1>4, <1>5, <1>6, <1>7, <1>8, <1>9, <1>10, <1>11, <1>12, <1>13,
          <1>14 DEF Next, Main, Worker, Terminated

(* Incomplete names each principal whose provider call returned an error,  *)
(* under the call that failed, and the window when it was narrowed.        *)
LEMMA IncompleteStep ==
  TypeOK /\ ErrOK /\ MuOK /\ MainOK /\ ErrPast /\ IncompleteOK /\ [Next]_vars => IncompleteOK'
<1> SUFFICES ASSUME TypeOK, ErrOK, MuOK, MainOK, ErrPast, IncompleteOK, [Next]_vars PROVE IncompleteOK'
    OBVIOUS
<1> USE DEF TypeOK, ErrOK, MuOK, MainOK, ErrPast, IncompleteOK, Past, Labels, Short, ObservedDays, EmptyResult, ResultType
<1>1. CASE ListPrincipals
    BY <1>1, ScanAssumption DEF ListPrincipals, input, local, counters, Listed, WindowNote
<1>2. ASSUME NEW p \in Principal, Spawn(p) PROVE IncompleteOK'
    BY <1>2, ScanAssumption DEF Spawn, provider, input, local, counters, Goto
<1>3. CASE Wait
    BY <1>3, ScanAssumption DEF Wait, provider, input, local, counters, Goto
<1>4. CASE Return
    BY <1>4, ScanAssumption DEF Return, provider, input, local, counters, Goto
<1>5. ASSUME NEW p \in Principal, GrantedPermissions(p) PROVE IncompleteOK'
    BY <1>5, ScanAssumption DEF GrantedPermissions, provider, input, local, counters, Goto
<1>6. ASSUME NEW p \in Principal, UsedPermissions(p) PROVE IncompleteOK'
    BY <1>6, ScanAssumption DEF UsedPermissions, provider, input, local, counters, Goto
<1>7. ASSUME NEW p \in Principal, CountScanned(p) PROVE IncompleteOK'
  <2>1. err[p] = "none"
    BY <1>7 DEF CountScanned
  <2>2. \A q \in Principal \ {p} : pc'[q] = pc[q]
    BY <1>7 DEF CountScanned, Goto
  <2>3. UNCHANGED <<main, days, err, result>>
    BY <1>7 DEF CountScanned, provider, input, local
  <2> QED BY <1>7, <2>1, <2>2, <2>3 DEF CountScanned
<1>8. ASSUME NEW p \in Principal, Lock(p) PROVE IncompleteOK'
    BY <1>8, ScanAssumption DEF Lock, provider, input, local, counters, Goto, Section
<1>9. ASSUME NEW p \in Principal, AppendIncomplete(p) PROVE IncompleteOK'
    BY <1>9, ScanAssumption DEF AppendIncomplete, provider, input, local, counters, Goto, Unlock
<1>10. ASSUME NEW p \in Principal, StoreUsed(p) PROVE IncompleteOK'
  <2>1. err[p] = "none"
    BY <1>10 DEF StoreUsed
  <2>2. \A q \in Principal \ {p} : pc'[q] = pc[q]
    BY <1>10 DEF StoreUsed, Goto
  <2>3. UNCHANGED <<main, days, err>> /\ result'.incomplete = result.incomplete
    BY <1>10 DEF StoreUsed, provider, input, local
  <2> QED BY <1>10, <2>1, <2>2, <2>3 DEF StoreUsed
<1>11. ASSUME NEW p \in Principal, AppendFindings(p) PROVE IncompleteOK'
  <2>1. err[p] = "none"
    BY <1>11 DEF AppendFindings
  <2>2. \A q \in Principal \ {p} : pc'[q] = pc[q]
    BY <1>11 DEF AppendFindings, Goto
  <2>3. UNCHANGED <<main, days, err>> /\ result'.incomplete = result.incomplete
    BY <1>11 DEF AppendFindings, provider, input, local
  <2> QED BY <1>11, <2>1, <2>2, <2>3 DEF AppendFindings
<1>12. ASSUME NEW p \in Principal, Release(p) PROVE IncompleteOK'
    BY <1>12, ScanAssumption DEF Release, provider, input, local, counters, Goto
<1>13. ASSUME NEW p \in Principal, Finish(p) PROVE IncompleteOK'
    BY <1>13, ScanAssumption DEF Finish, provider, input, local, counters, Goto
<1>14. CASE UNCHANGED vars
    BY <1>14, ScanAssumption DEF vars
<1> QED BY <1>1, <1>2, <1>3, <1>4, <1>5, <1>6, <1>7, <1>8, <1>9, <1>10, <1>11, <1>12, <1>13,
          <1>14 DEF Next, Main, Worker, Terminated

(* UsedPermissions holds the used-set of every principal whose comparison  *)
(* got past storing it.                                                    *)
LEMMA UsedStep ==
  TypeOK /\ ErrOK /\ MuOK /\ MainOK /\ ErrPast /\ UsedOK /\ [Next]_vars => UsedOK'
<1> SUFFICES ASSUME TypeOK, ErrOK, MuOK, MainOK, ErrPast, UsedOK, [Next]_vars PROVE UsedOK'
    OBVIOUS
<1> USE DEF TypeOK, ErrOK, MuOK, MainOK, ErrPast, UsedOK, Past, Labels, EmptyResult, ResultType
<1>1. CASE ListPrincipals
    BY <1>1 DEF ListPrincipals, input, local, counters, Listed
<1>2. ASSUME NEW p \in Principal, Spawn(p) PROVE UsedOK'
    BY <1>2 DEF Spawn, provider, input, local, counters, Goto
<1>3. CASE Wait
    BY <1>3 DEF Wait, provider, input, local, counters, Goto
<1>4. CASE Return
    BY <1>4 DEF Return, provider, input, local, counters, Goto
<1>5. ASSUME NEW p \in Principal, GrantedPermissions(p) PROVE UsedOK'
  <2>1. result.used[p] = {} /\ result' = result
    BY <1>5 DEF GrantedPermissions
  <2>2. pc'[p] \in {"used", "scanned", "wantIncomplete"}
    BY <1>5 DEF GrantedPermissions, Goto
  <2>3. \A q \in Principal \ {p} : pc'[q] = pc[q] /\ err'[q] = err[q] /\ used'[q] = used[q]
    BY <1>5 DEF GrantedPermissions, Goto
  <2> QED BY <2>1, <2>2, <2>3
<1>6. ASSUME NEW p \in Principal, UsedPermissions(p) PROVE UsedOK'
  <2>1. result.used[p] = {} /\ result' = result
    BY <1>6 DEF UsedPermissions
  <2>2. pc'[p] \in {"used", "scanned", "wantIncomplete"}
    BY <1>6 DEF UsedPermissions, Goto
  <2>3. \A q \in Principal \ {p} : pc'[q] = pc[q] /\ err'[q] = err[q] /\ used'[q] = used[q]
    BY <1>6 DEF UsedPermissions, Goto
  <2> QED BY <2>1, <2>2, <2>3
<1>7. ASSUME NEW p \in Principal, CountScanned(p) PROVE UsedOK'
    BY <1>7 DEF CountScanned, provider, input, local, counters, Goto, AfterAnalysis
<1>8. ASSUME NEW p \in Principal, Lock(p) PROVE UsedOK'
    BY <1>8 DEF Lock, provider, input, local, counters, Goto, Section
<1>9. ASSUME NEW p \in Principal, AppendIncomplete(p) PROVE UsedOK'
    BY <1>9 DEF AppendIncomplete, provider, input, local, counters, Goto, Unlock
<1>10. ASSUME NEW p \in Principal, StoreUsed(p) PROVE UsedOK'
    BY <1>10 DEF StoreUsed, provider, input, local, counters, Goto, Unlock, AfterAnalysis
<1>11. ASSUME NEW p \in Principal, AppendFindings(p) PROVE UsedOK'
    BY <1>11 DEF AppendFindings, provider, input, local, counters, Goto, Unlock
<1>12. ASSUME NEW p \in Principal, Release(p) PROVE UsedOK'
    BY <1>12 DEF Release, provider, input, local, counters, Goto
<1>13. ASSUME NEW p \in Principal, Finish(p) PROVE UsedOK'
    BY <1>13 DEF Finish, provider, input, local, counters, Goto
<1>14. CASE UNCHANGED vars
    BY <1>14 DEF vars
<1> QED BY <1>1, <1>2, <1>3, <1>4, <1>5, <1>6, <1>7, <1>8, <1>9, <1>10, <1>11, <1>12, <1>13,
          <1>14 DEF Next, Main, Worker, Terminated

(* An answer that is not the whole truth left a warning on the provider.   *)
LEMMA TraceStep ==
  TypeOK /\ ErrOK /\ MainOK /\ ErrPast /\ TraceOK /\ [Next]_vars => TraceOK'
<1> SUFFICES ASSUME TypeOK, ErrOK, MainOK, ErrPast, TraceOK, [Next]_vars PROVE TraceOK'
    OBVIOUS
<1> USE DEF TypeOK, ErrOK, MainOK, ErrPast, TraceOK, Past, Labels, LogAnswer, Attempted
<1>1. CASE ListPrincipals
    BY <1>1, ScanAssumption DEF ListPrincipals, input, local, counters, Listed
<1>2. ASSUME NEW p \in Principal, Spawn(p) PROVE TraceOK'
    BY <1>2, ScanAssumption DEF Spawn, provider, input, local, counters, Goto
<1>3. CASE Wait
    BY <1>3, ScanAssumption DEF Wait, provider, input, local, counters, Goto
<1>4. CASE Return
    BY <1>4, ScanAssumption DEF Return, provider, input, local, counters, Goto
<1>5. ASSUME NEW p \in Principal, GrantedPermissions(p) PROVE TraceOK'
    BY <1>5, ScanAssumption DEF GrantedPermissions, provider, input, local, counters, Goto
<1>6. ASSUME NEW p \in Principal, UsedPermissions(p) PROVE TraceOK'
  <2>1. \A q \in Principal \ {p} : pc'[q] = pc[q] /\ err'[q] = err[q] /\ used'[q] = used[q]
    BY <1>6 DEF UsedPermissions, Goto
  <2>2. UNCHANGED <<account, main, queue, granted>> /\ warnings \subseteq warnings'
    BY <1>6 DEF UsedPermissions, input
  <2>3. pc[p] = "used" /\ err[p] = "none" /\ pc'[p] \in {"scanned", "wantIncomplete"}
    BY <1>6 DEF UsedPermissions, Goto
  <2>4. err'[p] = "none" => used'[p] = LogAnswer(p)' \/ <<"used", p>> \in warnings'
    BY <1>6, <2>2 DEF UsedPermissions
  <2>5. err'[p] # "granted"
    BY <1>6, <2>3 DEF UsedPermissions
  <2>6. Attempted' = Attempted
    BY <2>1, <2>3
  <2> QED BY <2>1, <2>2, <2>3, <2>4, <2>5, <2>6
<1>7. ASSUME NEW p \in Principal, CountScanned(p) PROVE TraceOK'
    BY <1>7, ScanAssumption DEF CountScanned, provider, input, local, counters, Goto, AfterAnalysis
<1>8. ASSUME NEW p \in Principal, Lock(p) PROVE TraceOK'
    BY <1>8, ScanAssumption DEF Lock, provider, input, local, counters, Goto, Section
<1>9. ASSUME NEW p \in Principal, AppendIncomplete(p) PROVE TraceOK'
    BY <1>9, ScanAssumption DEF AppendIncomplete, provider, input, local, counters, Goto, Unlock
<1>10. ASSUME NEW p \in Principal, StoreUsed(p) PROVE TraceOK'
    BY <1>10, ScanAssumption DEF StoreUsed, provider, input, local, counters, Goto, Unlock, AfterAnalysis
<1>11. ASSUME NEW p \in Principal, AppendFindings(p) PROVE TraceOK'
    BY <1>11, ScanAssumption DEF AppendFindings, provider, input, local, counters, Goto, Unlock
<1>12. ASSUME NEW p \in Principal, Release(p) PROVE TraceOK'
    BY <1>12, ScanAssumption DEF Release, provider, input, local, counters, Goto
<1>13. ASSUME NEW p \in Principal, Finish(p) PROVE TraceOK'
    BY <1>13, ScanAssumption DEF Finish, provider, input, local, counters, Goto
<1>14. CASE UNCHANGED vars
    BY <1>14, ScanAssumption DEF vars
<1> QED BY <1>1, <1>2, <1>3, <1>4, <1>5, <1>6, <1>7, <1>8, <1>9, <1>10, <1>11, <1>12, <1>13,
          <1>14 DEF Next, Main, Worker, Terminated

(* The atomic counters count what the program counters say.                *)
LEMMA CountStep ==
  TypeOK /\ ErrOK /\ MainOK /\ ErrPast /\ CountOK /\ [Next]_vars => CountOK'
<1> SUFFICES ASSUME TypeOK, ErrOK, MainOK, ErrPast, CountOK, [Next]_vars PROVE CountOK'
    OBVIOUS
<1> USE DEF TypeOK, ErrOK, MainOK, ErrPast, CountOK, Past, Labels
<1>fin. IsFiniteSet(Analysed) /\ IsFiniteSet(Finished)
    BY FS_Subset, ScanAssumption DEF Analysed, Attempted, Finished
<1>1. CASE ListPrincipals
  <2>1. Analysed' = Analysed
    BY <1>1 DEF ListPrincipals, Analysed, Attempted, input, local, counters, Listed
  <2>2. Finished' = Finished
    BY <1>1 DEF ListPrincipals, Finished, input, local, counters, Listed
  <2> QED BY <1>1, <2>1, <2>2 DEF ListPrincipals, counters
<1>2. ASSUME NEW p \in Principal, Spawn(p) PROVE CountOK'
  <2>1. Analysed' = Analysed
    BY <1>2 DEF Spawn, Analysed, Attempted, provider, input, local, counters, Goto
  <2>2. Finished' = Finished
    BY <1>2 DEF Spawn, Finished, provider, input, local, counters, Goto
  <2> QED BY <1>2, <2>1, <2>2 DEF Spawn, counters
<1>3. CASE Wait
  <2>1. Analysed' = Analysed
    BY <1>3 DEF Wait, Analysed, Attempted, provider, input, local, counters, Goto
  <2>2. Finished' = Finished
    BY <1>3 DEF Wait, Finished, provider, input, local, counters, Goto
  <2> QED BY <1>3, <2>1, <2>2 DEF Wait, counters
<1>4. CASE Return
  <2>1. Analysed' = Analysed
    BY <1>4 DEF Return, Analysed, Attempted, provider, input, local, counters, Goto
  <2>2. Finished' = Finished
    BY <1>4 DEF Return, Finished, provider, input, local, counters, Goto
  <2> QED BY <1>4, <2>1, <2>2 DEF Return, counters
<1>5. ASSUME NEW p \in Principal, GrantedPermissions(p) PROVE CountOK'
  <2>1. Analysed' = Analysed
    BY <1>5 DEF GrantedPermissions, Analysed, Attempted, provider, input, local, counters, Goto
  <2>2. Finished' = Finished
    BY <1>5 DEF GrantedPermissions, Finished, provider, input, local, counters, Goto
  <2> QED BY <1>5, <2>1, <2>2 DEF GrantedPermissions, counters
<1>6. ASSUME NEW p \in Principal, UsedPermissions(p) PROVE CountOK'
  <2>1. Analysed' = Analysed
    BY <1>6 DEF UsedPermissions, Analysed, Attempted, provider, input, local, counters, Goto
  <2>2. Finished' = Finished
    BY <1>6 DEF UsedPermissions, Finished, provider, input, local, counters, Goto
  <2> QED BY <1>6, <2>1, <2>2 DEF UsedPermissions, counters
<1>7. ASSUME NEW p \in Principal, CountScanned(p) PROVE CountOK'
  <2>1. Analysed' = Analysed \cup {p} /\ p \notin Analysed
    BY <1>7 DEF CountScanned, Analysed, Attempted, AfterAnalysis, Goto, local
  <2>2. Finished' = Finished
    BY <1>7 DEF CountScanned, Finished, AfterAnalysis, Goto
  <2>3. Cardinality(Analysed \cup {p}) = Cardinality(Analysed) + 1
    BY <1>fin, <2>1, FS_AddElement
  <2> QED BY <1>7, <2>1, <2>2, <2>3 DEF CountScanned
<1>8. ASSUME NEW p \in Principal, Lock(p) PROVE CountOK'
  <2>1. Analysed' = Analysed
    BY <1>8 DEF Lock, Analysed, Attempted, provider, input, local, counters, Goto, Section
  <2>2. Finished' = Finished
    BY <1>8 DEF Lock, Finished, provider, input, local, counters, Goto, Section
  <2> QED BY <1>8, <2>1, <2>2 DEF Lock, counters
<1>9. ASSUME NEW p \in Principal, AppendIncomplete(p) PROVE CountOK'
  <2>1. Analysed' = Analysed
    BY <1>9 DEF AppendIncomplete, Analysed, Attempted, provider, input, local, counters, Goto, Unlock
  <2>2. Finished' = Finished
    BY <1>9 DEF AppendIncomplete, Finished, provider, input, local, counters, Goto, Unlock
  <2> QED BY <1>9, <2>1, <2>2 DEF AppendIncomplete, counters
<1>10. ASSUME NEW p \in Principal, StoreUsed(p) PROVE CountOK'
  <2>1. Analysed' = Analysed
    BY <1>10 DEF StoreUsed, Analysed, Attempted, provider, input, local, counters, Goto, Unlock, AfterAnalysis
  <2>2. Finished' = Finished
    BY <1>10 DEF StoreUsed, Finished, provider, input, local, counters, Goto, Unlock, AfterAnalysis
  <2> QED BY <1>10, <2>1, <2>2 DEF StoreUsed, counters
<1>11. ASSUME NEW p \in Principal, AppendFindings(p) PROVE CountOK'
  <2>1. Analysed' = Analysed
    BY <1>11 DEF AppendFindings, Analysed, Attempted, provider, input, local, counters, Goto, Unlock
  <2>2. Finished' = Finished
    BY <1>11 DEF AppendFindings, Finished, provider, input, local, counters, Goto, Unlock
  <2> QED BY <1>11, <2>1, <2>2 DEF AppendFindings, counters
<1>12. ASSUME NEW p \in Principal, Release(p) PROVE CountOK'
  <2>1. Analysed' = Analysed
    BY <1>12 DEF Release, Analysed, Attempted, provider, input, local, counters, Goto
  <2>2. Finished' = Finished
    BY <1>12 DEF Release, Finished, provider, input, local, counters, Goto
  <2> QED BY <1>12, <2>1, <2>2 DEF Release, counters
<1>13. ASSUME NEW p \in Principal, Finish(p) PROVE CountOK'
  <2>1. Analysed' = Analysed
    BY <1>13 DEF Finish, Analysed, Attempted, Goto, local
  <2>2. Finished' = Finished \cup {p} /\ p \notin Finished
    BY <1>13 DEF Finish, Finished, Goto
  <2>3. Cardinality(Finished \cup {p}) = Cardinality(Finished) + 1
    BY <1>fin, <2>2, FS_AddElement
  <2> QED BY <1>13, <2>1, <2>2, <2>3 DEF Finish
<1>14. CASE UNCHANGED vars
    BY <1>14 DEF vars, Analysed, Attempted, Finished
<1> QED BY <1>1, <1>2, <1>3, <1>4, <1>5, <1>6, <1>7, <1>8, <1>9, <1>10, <1>11, <1>12, <1>13,
          <1>14 DEF Next, Main, Worker, Terminated

-----------------------------------------------------------------------------
LEMMA InvInit == Init => IInv
<1> SUFFICES ASSUME Init PROVE IInv
    OBVIOUS
<1>1. TypeOK /\ ErrOK
    BY TypeInit
<1>2. SemOK
    BY FS_EmptySet, ScanAssumption DEF Init, SemOK, Slots
<1>3. MuOK /\ MainOK /\ ErrPast
    BY DEF Init, MuOK, MainOK, ErrPast
<1>4. FindingsOK
    BY DEF Init, FindingsOK, Posted, Past, EmptyResult
<1>5. IncompleteOK /\ UsedOK
    BY DEF Init, IncompleteOK, UsedOK, EmptyResult
<1>6. CountOK
  <2>1. Analysed = {} /\ Finished = {}
    BY DEF Init, Analysed, Attempted, Finished
  <2> QED BY <2>1, FS_EmptySet DEF Init, CountOK
<1>7. TraceOK
    BY DEF Init, TraceOK, Attempted
<1> QED BY <1>1, <1>2, <1>3, <1>4, <1>5, <1>6, <1>7 DEF IInv

LEMMA InvStep == IInv /\ [Next]_vars => IInv'
  BY TypeStep, ControlStep, SemStep, FindingsStep, IncompleteStep, UsedStep, CountStep, TraceStep
     DEF IInv

THEOREM Invariance == Spec => []IInv
  BY InvInit, InvStep, PTL DEF Spec

-----------------------------------------------------------------------------
(* The properties of the runs, for every instance.                         *)

(* At most Slots provider calls are in flight (the semaphore of Scan).     *)
THEOREM ReadsBounded == Spec => []BoundedReads
<1>1. IInv => BoundedReads
  <2> SUFFICES ASSUME IInv PROVE BoundedReads
    OBVIOUS
  <2> DEFINE R == {p \in Principal : pc[p] \in {"granted", "used"}}
  <2>1. R \in SUBSET sem /\ sem \subseteq Principal
    BY DEF IInv, SemOK
  <2>2. IsFiniteSet(sem)
    BY <2>1, FS_Subset, ScanAssumption
  <2>3. Cardinality(R) <= Cardinality(sem) /\ Cardinality(R) \in Nat /\ Cardinality(sem) \in Nat
    BY <2>1, <2>2, FS_Subset, FS_CardinalityType
  <2>4. Cardinality(sem) <= Slots /\ Slots \in Int
    BY ScanAssumption DEF IInv, SemOK, Slots
  <2> QED BY <2>3, <2>4 DEF BoundedReads
<1> QED BY <1>1, Invariance, PTL

(* What the program counters of a returned scan say of its Result.         *)
LEMMA NothingIsLost == IInv => NothingLost
<1> SUFFICES ASSUME IInv, main = "returned" PROVE
      /\ result.findings = UNION {Kept(p) : p \in Analysed}
      /\ UnreadPrincipals = Attempted \ Analysed
      /\ \A p \in Principal : result.used[p] = IF p \in Analysed THEN used[p] ELSE {}
      /\ scanned = Cardinality(Analysed)
      /\ done = Cardinality(Attempted)
  BY DEF NothingLost
<1>1. \A p \in Principal : pc[p] \in {"idle", "finished"}
  BY DEF IInv, MainOK
<1>2. Posted = Analysed
  BY <1>1 DEF Posted, Past, Analysed, Attempted
<1>3. result.findings = UNION {Kept(p) : p \in Analysed}
  BY <1>2 DEF IInv, FindingsOK
<1>4. UnreadPrincipals = Attempted \ Analysed
  BY <1>1 DEF IInv, TypeOK, IncompleteOK, UnreadPrincipals, Attempted, Analysed, Past
<1>5. \A p \in Principal : result.used[p] = IF p \in Analysed THEN used[p] ELSE {}
  BY <1>1 DEF IInv, UsedOK, Attempted, Analysed, Past
<1>6. Finished = Attempted
  BY <1>1 DEF Finished, Attempted
<1>7. scanned = Cardinality(Analysed) /\ done = Cardinality(Attempted)
  BY <1>6 DEF IInv, CountOK
<1> QED BY <1>3, <1>4, <1>5, <1>7

(* The Result a scan returns is the sum of its decisions: no append of a   *)
(* goroutine is lost, none is made twice or by an unread principal.        *)
THEOREM NoAppendLost == Spec => []NothingLost
  BY NothingIsLost, Invariance, PTL

(* A finding that a whole reading would not have produced carries its own  *)
(* warning, or the note of a narrowed window.                              *)
THEOREM InventedTraced == Spec => []InventedVerdictIsTraced
<1>1. IInv => InventedVerdictIsTraced
  <2> SUFFICES ASSUME IInv, NEW f \in result.findings,
                      <<"used", f.principal>> \notin warnings,
                      ~(Short /\ <<"window", NoOne>> \in result.incomplete)
               PROVE  f \in Whole(f.principal)
    BY DEF InventedVerdictIsTraced
  <2>0. TypeOK
    BY DEF IInv
  <2>1. PICK p \in Posted : f \in Kept(p)
    BY DEF IInv, FindingsOK
  <2>2. p \in Principal /\ err[p] = "none" /\ pc[p] \in Past
    BY DEF Posted
  <2>3. f.principal = p
    BY <2>0, <2>1, <2>2, KeptType
  <2>4. used[p] = LogAnswer(p) /\ granted[p] \subseteq account[p].granted
    BY <2>2, <2>3 DEF IInv, TraceOK, Past
  <2>5. main \notin {"list", "failed"}
    BY <2>2 DEF IInv, MainOK, Past
  <2>6. ~Short
    BY <2>5 DEF IInv, IncompleteOK
  <2>7. Activity(p) = LogAnswer(p)
    BY <2>6 DEF Activity, LogAnswer
  <2>8. Kept(p) \subseteq Whole(p)
    BY <2>0, <2>2, <2>4, <2>7, AnalyzeMonotone, AccountType, ScanAssumption
       DEF Kept, Whole, AboveFloor
  <2> QED BY <2>1, <2>3, <2>8
<1> QED BY <1>1, Invariance, PTL

(* A scan with nothing to declare saw everything it was asked to see.      *)
THEOREM CleanIsWhole == Spec => []CleanScanIsWhole
<1>1. IInv => CleanScanIsWhole
  <2> SUFFICES ASSUME IInv, main = "returned", result.incomplete = {}, warnings = {}
               PROVE  result.findings = UNION {Whole(p) : p \in Matches}
    BY DEF CleanScanIsWhole
  <2>1. \A p \in Principal : pc[p] \in {"idle", "finished"}
    BY DEF IInv, MainOK
  <2>2. ~Short
    BY DEF IInv, IncompleteOK
  <2>3. \A p \in Attempted : err[p] = "none"
    BY <2>1 DEF IInv, TypeOK, IncompleteOK, Attempted, Past
  <2>4. Posted = Matches
    BY <2>1, <2>3 DEF IInv, TraceOK, MainOK, Posted, Past, Attempted
  <2>5. \A p \in Matches : granted[p] = account[p].granted /\ used[p] = LogAnswer(p)
    BY <2>4 DEF IInv, TraceOK, Posted, Past
  <2>6. \A p \in Matches : Kept(p) = Whole(p)
    BY <2>2, <2>5 DEF Kept, Whole, Activity, LogAnswer
  <2> QED BY <2>4, <2>6 DEF IInv, FindingsOK
<1> QED BY <1>1, Invariance, PTL

-----------------------------------------------------------------------------
(* The refinement of IamPromise: what its variables are here.              *)

due     == queue \cup Attempted
outcome == [p \in Principal |-> OutcomeOf(p)]
report  == IF main = "returned"
           THEN [findings |-> result.findings, unread |-> UnreadPrincipals, scanned |-> scanned]
           ELSE [findings |-> {}, unread |-> {}, scanned |-> 0]

LEMMA PromiseStutter ==
  ASSUME PhaseOf' = PhaseOf, due' = due, outcome' = outcome, report' = report
  PROVE  UNCHANGED Promise!pvars
  BY DEF Promise!pvars, due, outcome, report

LEMMA SameFindings == Promise!Finding = Finding
  BY DEF Promise!Finding, Finding, Promise!FindingType, FindingType, Promise!Permission, Permission,
         Promise!NoResource, NoResource

LEMMA SameCount == ASSUME NEW S PROVE Promise!Cardinality(S) = Cardinality(S)
  BY DEF Promise!Cardinality, Cardinality

LEMMA PromisePublish ==
  ASSUME PhaseOf = "scanning", PhaseOf' = "returned", due' = due, outcome' = outcome, Promise!Decided("none") = {},
         report' = [findings |-> UNION {outcome[p].findings : p \in due},
                    unread   |-> Promise!Decided("unread"),
                    scanned  |-> Cardinality(Promise!Decided("analysed"))]
  PROVE  Promise!Publish
  BY SameCount DEF Promise!Publish, due, outcome, report

LEMMA PromiseDecide ==
  ASSUME NEW p \in Principal, p \in due, PhaseOf = "scanning", PhaseOf' = PhaseOf, due' = due, report' = report,
         OutcomeOf(p) = Promise!Undecided, outcome' = [outcome EXCEPT ![p] = OutcomeOf(p)'],
         \/ OutcomeOf(p)' = Promise!Unread
         \/ OutcomeOf(p)'.kind = "analysed" /\ \A f \in OutcomeOf(p)'.findings : f \in Finding /\ f.principal = p
  PROVE  Promise!PNext
<1>2. outcome[p] = Promise!Undecided /\ outcome'[p] = OutcomeOf(p)'
    BY DEF outcome
<1>3. Promise!Decide(p, outcome'[p])
    BY <1>2, SameFindings DEF Promise!Decide, due, outcome, report
<1> QED BY <1>3 DEF Promise!PNext, due, outcome

(* A step of one goroutine touches the decision on its own principal only. *)
LEMMA OutcomeFrame ==
  ASSUME NEW q \in Principal, pc'[q] = pc[q], err'[q] = err[q], granted'[q] = granted[q], used'[q] = used[q]
  PROVE  OutcomeOf(q)' = OutcomeOf(q)
<1>1. (q \in Analysed)' = (q \in Analysed)
    BY DEF Analysed, Attempted
<1> QED BY <1>1 DEF OutcomeOf, Kept

OwnStep(p) ==
  /\ pc[p] \notin {"idle", "finished"} /\ pc'[p] # "idle"
  /\ UNCHANGED <<main, queue>>
  /\ \A q \in Principal \ {p} :
       pc'[q] = pc[q] /\ err'[q] = err[q] /\ granted'[q] = granted[q] /\ used'[q] = used[q]

LEMMA OwnStepMaps ==
  ASSUME IInv, NEW p \in Principal, OwnStep(p)
  PROVE  /\ p \in due /\ PhaseOf = "scanning" /\ PhaseOf' = PhaseOf /\ due' = due /\ report' = report
         /\ outcome' = [outcome EXCEPT ![p] = OutcomeOf(p)']
<1>1. main \in {"spawn", "wait"} /\ main' = main
    BY DEF OwnStep, IInv, TypeOK, MainOK
<1>2. Attempted' = Attempted /\ p \in Attempted
    BY DEF OwnStep, Attempted
<1>3. PhaseOf = "scanning" /\ PhaseOf' = PhaseOf /\ due' = due /\ report' = report /\ p \in due
    BY <1>1, <1>2 DEF OwnStep, PhaseOf, due, report
<1>4. \A q \in Principal \ {p} : OutcomeOf(q)' = OutcomeOf(q)
    BY OutcomeFrame DEF OwnStep
<1> QED BY <1>3, <1>4 DEF outcome

LEMMA OwnStepStutters ==
  ASSUME IInv, NEW p \in Principal, OwnStep(p), OutcomeOf(p)' = OutcomeOf(p)
  PROVE  UNCHANGED Promise!pvars
<1>1. outcome' = outcome
    BY OwnStepMaps DEF outcome
<1> QED BY <1>1, OwnStepMaps, PromiseStutter

(* The answer before the last read decides nothing; an error, or the count, *)
(* does.                                                                    *)
LEMMA ReadRefines ==
  ASSUME IInv, NEW p \in Principal, GrantedPermissions(p) \/ UsedPermissions(p)
  PROVE  Promise!PNext \/ UNCHANGED Promise!pvars
<1> USE DEF IInv, TypeOK
<1>1. OwnStep(p)
    BY DEF OwnStep, GrantedPermissions, UsedPermissions, Goto
<1>2. pc[p] \in {"granted", "used"} /\ err[p] = "none"
    BY DEF GrantedPermissions, UsedPermissions, ErrPast, Past
<1>3. OutcomeOf(p) = Promise!Undecided
    BY <1>2 DEF OutcomeOf, Kept, Analysed, Promise!Undecided
<1>4. CASE err'[p] = "none"
  <2>1. pc'[p] \in {"used", "scanned"}
      BY <1>2, <1>4 DEF GrantedPermissions, UsedPermissions, Goto
  <2>2. OutcomeOf(p)' = Promise!Undecided
      BY <1>4, <2>1 DEF OutcomeOf, Kept, Analysed, Promise!Undecided
  <2> QED BY <1>1, <1>3, <2>2, OwnStepStutters
<1>5. CASE err'[p] # "none"
  <2>1. OutcomeOf(p)' = Promise!Unread
      BY <1>5 DEF OutcomeOf, Kept, Promise!Unread
  <2> QED BY <1>1, <1>3, <2>1, OwnStepMaps, PromiseDecide
<1> QED BY <1>4, <1>5

LEMMA CountRefines ==
  ASSUME IInv, NEW p \in Principal, CountScanned(p)
  PROVE  Promise!PNext
<1>1. TypeOK
    BY DEF IInv
<1>2. pc[p] = "scanned" /\ pc'[p] \in {"wantUsed", "wantFindings", "release"} /\ UNCHANGED <<err, granted, used>>
    BY <1>1 DEF CountScanned, AfterAnalysis, Goto, local, TypeOK
<1>3. OwnStep(p)
    BY <1>1, <1>2 DEF OwnStep, CountScanned, Goto, TypeOK
<1>4. err[p] = "none"
    BY <1>2 DEF IInv, ErrPast, Past
<1>5. OutcomeOf(p) = Promise!Undecided
    BY <1>2, <1>4 DEF OutcomeOf, Kept, Analysed, Promise!Undecided
<1>6. p \in Analysed'
    BY <1>2, <1>4 DEF Analysed, Attempted
<1>7. OutcomeOf(p)' = [kind |-> "analysed", findings |-> Kept(p)]
    BY <1>2, <1>4, <1>6 DEF OutcomeOf, Kept
<1> QED BY <1>1, <1>3, <1>5, <1>7, KeptType, OwnStepMaps, PromiseDecide

(* Posting a decision, giving the token back and counting the attempt      *)
(* decide nothing more.                                                    *)
LEMMA PostingStutters ==
  ASSUME IInv, NEW p \in Principal,
         Lock(p) \/ AppendIncomplete(p) \/ StoreUsed(p) \/ AppendFindings(p) \/ Release(p) \/ Finish(p)
  PROVE  UNCHANGED Promise!pvars
<1> DEFINE Before == {"wantIncomplete", "wantUsed", "wantFindings", "inIncomplete", "inUsed", "inFindings", "release", "tally"}
           After  == (Before \cup {"finished"})
<1>1. TypeOK
    BY DEF IInv
<1>2. UNCHANGED <<main, queue, err, granted, used>>
    BY DEF Lock, AppendIncomplete, StoreUsed, AppendFindings, Release, Finish, local
<1>3. pc[p] \in Before /\ pc'[p] \in After
    BY <1>1 DEF Lock, AppendIncomplete, StoreUsed, AppendFindings, Release, Finish, Section, AfterAnalysis, Goto, TypeOK
<1>4. \A q \in Principal \ {p} : pc'[q] = pc[q]
    BY <1>1 DEF Lock, AppendIncomplete, StoreUsed, AppendFindings, Release, Finish, Goto, TypeOK
<1>5. OwnStep(p)
    BY <1>2, <1>3, <1>4 DEF OwnStep
<1>6. (p \in Analysed)' = (p \in Analysed)
    BY <1>2, <1>3 DEF Analysed, Attempted
<1>7. OutcomeOf(p)' = OutcomeOf(p)
    BY <1>2, <1>6 DEF OutcomeOf, Kept
<1> QED BY <1>5, <1>7, OwnStepStutters

LEMMA ListRefines ==
  ASSUME IInv, ListPrincipals
  PROVE  Promise!PNext
<1>1. /\ main = "list" /\ main' \in {"spawn", "failed"} /\ UNCHANGED <<pc, err, granted, used>>
      /\ main' = "failed" => queue' = queue
      /\ main' = "spawn" => queue' \subseteq Matches
    BY DEF ListPrincipals, Listed, local
<1>2. queue = {} /\ Attempted = {} /\ Attempted' = {}
    BY <1>1 DEF IInv, MainOK, Attempted
<1>3. \A p \in Principal : OutcomeOf(p)' = OutcomeOf(p)
    BY <1>1, OutcomeFrame
<1>4. outcome' = outcome
    BY <1>3 DEF outcome
<1>5. report' = report
    BY <1>1 DEF report
<1>6. PhaseOf = "start" /\ PhaseOf' = IF main' = "spawn" THEN "scanning" ELSE "failed"
    BY <1>1 DEF PhaseOf
<1>7. CASE main' = "spawn"
  <2>1. Promise!Begin
      BY <1>1, <1>2, <1>4, <1>5, <1>6, <1>7 DEF Promise!Begin, outcome, report
  <2> QED BY <2>1 DEF Promise!PNext
<1>8. CASE main' = "failed"
  <2>1. Promise!Fail
      BY <1>1, <1>2, <1>4, <1>5, <1>6, <1>8 DEF Promise!Fail, outcome, report
  <2> QED BY <2>1 DEF Promise!PNext
<1> QED BY <1>1, <1>7, <1>8

LEMMA SpawnStutters ==
  ASSUME IInv, (\E p \in Principal : Spawn(p)) \/ Wait \/ UNCHANGED vars
  PROVE  UNCHANGED Promise!pvars
<1>1. CASE \E p \in Principal : Spawn(p)
  <2>1. PICK p \in Principal : Spawn(p)
      BY <1>1
  <2>2. /\ p \in queue /\ queue' = queue \ {p} /\ pc' = [pc EXCEPT ![p] = "granted"]
        /\ main = "spawn" /\ main' = "spawn" /\ UNCHANGED <<err, granted, used>>
      BY <2>1 DEF Spawn, Goto, local
  <2>3. pc[p] = "idle" /\ err[p] = "none"
      BY <2>2 DEF IInv, TypeOK, MainOK, ErrPast, Past
  <2>4. Attempted' = Attempted \cup {p}
      BY <2>2 DEF IInv, TypeOK, Attempted
  <2>5. OutcomeOf(p)' = OutcomeOf(p)
      BY <2>2, <2>3 DEF OutcomeOf, Kept, Analysed, Attempted, IInv, TypeOK
  <2>6. \A q \in Principal \ {p} : OutcomeOf(q)' = OutcomeOf(q)
      BY <2>2, OutcomeFrame DEF IInv, TypeOK
  <2>7. outcome' = outcome
      BY <2>5, <2>6 DEF outcome
  <2>8. due' = due /\ report' = report /\ PhaseOf' = PhaseOf
      BY <2>2, <2>4 DEF due, report, PhaseOf
  <2> QED BY <2>7, <2>8, PromiseStutter
<1>2. CASE Wait \/ UNCHANGED vars
  <2>1. UNCHANGED <<queue, pc, err, granted, used, result, scanned>> /\ (main' = main \/ (main = "spawn" /\ main' = "wait"))
    <3>1. CASE Wait
        BY <3>1 DEF Wait, local, counters
    <3>2. CASE UNCHANGED vars
        BY <3>2 DEF vars
    <3> QED BY <1>2, <3>1, <3>2
  <2>2. \A q \in Principal : OutcomeOf(q)' = OutcomeOf(q)
      BY <2>1, OutcomeFrame
  <2>3. outcome' = outcome
      BY <2>2 DEF outcome
  <2>4. due' = due /\ report' = report /\ PhaseOf' = PhaseOf
      BY <2>1 DEF due, Attempted, report, UnreadPrincipals, PhaseOf
  <2> QED BY <2>3, <2>4, PromiseStutter
<1> QED BY <1>1, <1>2

(* Once every goroutine has finished, every attempt is a decision, and the *)
(* Result is the sum of them.                                              *)
LEMMA ReturnPublishes ==
  ASSUME IInv, Return, NothingLost'
  PROVE  Promise!PNext
<1>1. /\ main = "wait" /\ main' = "returned" /\ UNCHANGED <<queue, pc, err, granted, used, result, scanned>>
      /\ \A p \in Principal : pc[p] \in {"idle", "finished"}
    BY DEF Return, local, counters
<1>2. queue = {} /\ due = Attempted /\ Attempted' = Attempted /\ Analysed' = Analysed
    BY <1>1 DEF IInv, MainOK, due, Attempted, Analysed
<1>3. /\ \A p \in Analysed : p \in Attempted /\ OutcomeOf(p) = [kind |-> "analysed", findings |-> Kept(p)]
      /\ \A p \in Attempted \ Analysed : OutcomeOf(p) = [kind |-> "unread", findings |-> {}]
    BY <1>1 DEF OutcomeOf, Kept, Analysed, Attempted
<1>4. \A p \in Principal : OutcomeOf(p)' = OutcomeOf(p)
    BY <1>1, OutcomeFrame
<1>5. outcome' = outcome
    BY <1>4 DEF outcome
<1>6. /\ result.findings = UNION {Kept(p) : p \in Analysed}
      /\ UnreadPrincipals = Attempted \ Analysed /\ scanned = Cardinality(Analysed)
  <2>1. result'.findings = UNION {Kept(p) : p \in Analysed}
      BY <1>1, <1>2 DEF NothingLost, Kept
  <2>2. UnreadPrincipals' = Attempted' \ Analysed' /\ scanned' = Cardinality(Analysed')
      BY <1>1 DEF NothingLost, Kept
  <2>3. UnreadPrincipals' = UnreadPrincipals
      BY <1>1 DEF UnreadPrincipals
  <2> QED BY <1>1, <1>2, <2>1, <2>2, <2>3
<1> DEFINE undecided  == {p \in due : outcome[p].kind = "none"}
           unread     == {p \in due : outcome[p].kind = "unread"}
           analysed   == {p \in due : outcome[p].kind = "analysed"}
<1>7. \A p \in due : p \in Principal /\ outcome[p] = OutcomeOf(p)
    BY <1>2 DEF outcome, Attempted
<1>8. undecided = {} /\ unread = Attempted \ Analysed /\ analysed = Analysed
    BY <1>2, <1>3, <1>7
<1>9. UNION {outcome[p].findings : p \in due} = UNION {Kept(p) : p \in Analysed}
    BY <1>2, <1>3, <1>7
<1>10. report' = [findings |-> result.findings, unread |-> UnreadPrincipals, scanned |-> scanned]
    BY <1>1 DEF report, UnreadPrincipals
<1>11. PhaseOf = "scanning" /\ PhaseOf' = "returned" /\ due' = due
    BY <1>1, <1>2 DEF PhaseOf, due
<1>12. Promise!Publish
  <2>1. report' = [findings |-> UNION {outcome[p].findings : p \in due}, unread |-> unread, scanned |-> Cardinality(analysed)]
      BY <1>6, <1>8, <1>9, <1>10
  <2>2. Promise!Decided("none") = undecided /\ Promise!Decided("unread") = unread /\ Promise!Decided("analysed") = analysed
      BY DEF Promise!Decided, due, outcome
  <2> HIDE DEF undecided, unread, analysed
  <2>3. report' = [findings |-> UNION {outcome[p].findings : p \in due},
                   unread   |-> Promise!Decided("unread"),
                   scanned  |-> Cardinality(Promise!Decided("analysed"))]
      BY <2>1, <2>2
  <2>4. Promise!Decided("none") = {}
      BY <1>8, <2>2
  <2> QED BY <1>5, <1>11, <2>3, <2>4, PromisePublish
<1> QED BY <1>12 DEF Promise!PNext

LEMMA PromiseStep == IInv /\ NothingLost' /\ [Next]_vars => [Promise!PNext]_(Promise!pvars)
<1> SUFFICES ASSUME IInv, NothingLost', [Next]_vars PROVE Promise!PNext \/ UNCHANGED Promise!pvars
    OBVIOUS
<1>1. ASSUME NEW p \in Principal, Worker(p) PROVE Promise!PNext \/ UNCHANGED Promise!pvars
    BY <1>1, ReadRefines, CountRefines, PostingStutters DEF Worker
<1>2. CASE Main
    BY <1>2, ListRefines, SpawnStutters, ReturnPublishes DEF Main
<1>3. CASE UNCHANGED vars
    BY <1>3, SpawnStutters
<1> QED BY <1>1, <1>2, <1>3 DEF Next, Terminated

LEMMA PromiseInit == Init => Promise!PInit
<1> SUFFICES ASSUME Init PROVE Promise!PInit
    OBVIOUS
<1>1. Attempted = {}
    BY DEF Init, Attempted
<1>2. \A p \in Principal : OutcomeOf(p) = Promise!Undecided
    BY <1>1 DEF Init, OutcomeOf, Kept, Analysed, Promise!Undecided
<1> QED BY <1>1, <1>2 DEF Init, PhaseOf, Promise!PInit, Promise!NoReport

(* Scan, with its goroutines, mutex and semaphore, does nothing its caller *)
(* could tell from deciding the principals one at a time, each once, and   *)
(* publishing all of the decisions in one report (analyzer.go).            *)
THEOREM PromiseKept == Spec => KeepsPromise
<1>1. Spec => [](IInv /\ NothingLost)
    BY Invariance, NothingIsLost, PTL
<1> QED BY <1>1, PromiseInit, PromiseStep, PTL DEF Spec, KeepsPromise, Promise!PSpec
=============================================================================
