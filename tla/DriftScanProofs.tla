--------------------------- MODULE DriftScanProofs ---------------------------
(***************************************************************************)
(* Theorems about DriftScan for every state file, filter, concurrency and  *)
(* account, and however often the account changes or a call fails.         *)
(***************************************************************************)
EXTENDS DriftScan, SequenceTheorems, FiniteSetTheorems, TLAPS

-----------------------------------------------------------------------------
(* Type correctness.                                                       *)

LEMMA InstanceType ==
  ASSUME TypeOK, NEW i \in Checkable
  PROVE  /\ Instance[i] \in Resources
         /\ Of(i) \in Object
         /\ Instance[i].type \in Supported
<1>1. file \in StateFile /\ i \in DOMAIN Instance /\ Instance[i].type \in Supported
    BY DEF TypeOK, Checkable, Wanted, Managed
<1>2. Instance \in Seq(Resources)
    BY <1>1, DriftAssumption DEF Instance
<1>3. Instance[i] \in Resources
    BY <1>1, <1>2, ElementOfSeq, LenProperties
<1>4. Of(i) \in Object
    BY <1>1, DriftAssumption DEF Instance, Of
<1> QED BY <1>1, <1>3, <1>4

LEMMA RowTyped ==
  ASSUME TypeOK, NEW i \in Checkable, NEW s \in Status,
         NEW F \in SUBSET UNION {Compared(t) : t \in Supported}
  PROVE  Row(Instance[i], s, F) \in RowType
  BY InstanceType DEF Row, RowType, Text, Resources

(* Answer fills a slot with a typed row.                                   *)
LEMMA AnswerTyped ==
  ASSUME TypeOK, NEW i \in filtered, NEW s \in Status,
         NEW F \in SUBSET UNION {Compared(t) : t \in Supported}, Answer(i, s, F)
  PROVE  /\ results' \in [filtered -> RowType]
         /\ job' \in [filtered -> {"none", "first", "versioning", "done"}]
<1>1. Row(Instance[i], s, F) \in RowType
    BY RowTyped DEF TypeOK
<1> QED BY <1>1 DEF Answer, TypeOK

LEMMA CompareTyped ==
  ASSUME TypeOK, NEW i \in filtered, Compare(i)
  PROVE  /\ results' \in [filtered -> RowType]
         /\ job' \in [filtered -> {"none", "first", "versioning", "done"}]
<1> DEFINE F == Differing(Instance[i], edited[Of(i)])
<1>1. F \in SUBSET UNION {Compared(t) : t \in Supported}
  <2>1. F \subseteq Compared(Instance[i].type)
      BY DEF Differing, NeverEqual
  <2>2. Instance[i].type \in Supported
      BY InstanceType DEF TypeOK
  <2> QED BY <2>1, <2>2
<1>2. (IF F = {} THEN "IN_SYNC" ELSE "MODIFIED") \in Status
    BY DEF Status
<1>3. Answer(i, IF F = {} THEN "IN_SYNC" ELSE "MODIFIED", F)
    BY DEF Compare
<1> HIDE DEF F
<1> QED BY <1>1, <1>2, <1>3, AnswerTyped

LEMMA NoRowTyped == NoRow \in RowType
<1>1. {} \in SUBSET UNION {Compared(t) : t \in Supported}
    OBVIOUS
<1>2. "" \in Status \cup {""}
    OBVIOUS
<1>3. "" \in Text
    BY DEF Text
<1> QED BY <1>1, <1>2, <1>3 DEF NoRow, RowType

LEMMA TypeInit == Init => TypeOK
<1> SUFFICES ASSUME Init PROVE TypeOK
    OBVIOUS
<1>1. edited \in [Object -> SUBSET {at[2] : at \in Attribute}]
    BY DEF Init
<1>2. /\ job \in [filtered -> {"none", "first", "versioning", "done"}]
      /\ results \in [filtered -> RowType]
    BY NoRowTyped DEF Init
<1>3. seen \in [filtered -> [described : BOOLEAN, edited : SUBSET {at[2] : at \in Attribute}]]
    BY DEF Init
<1>4. changes \in 0 .. MaxChanges /\ faults \in 0 .. MaxFaults /\ exitCode \in 0 .. 3
    BY DriftAssumption DEF Init
<1>5. filtered \subseteq Checkable /\ described \subseteq Object
    BY DEF Init
<1>6. /\ file \in StateFile /\ filter \in Filter /\ concurrency \in Concurrency
      /\ gating \in BOOLEAN /\ cancelled \in BOOLEAN
      /\ main \in {"parse", "spawn", "gate", "render", "exited"}
    BY DEF Init
<1> QED BY <1>1, <1>2, <1>3, <1>4, <1>5, <1>6 DEF TypeOK

LEMMA WorkerTyped ==
  ASSUME TypeOK, NEW i \in filtered, Worker(i)
  PROVE  TypeOK'
<1>1. results' \in [filtered -> RowType] /\ job' \in [filtered -> {"none", "first", "versioning", "done"}]
  <2>1. CASE Check(i)
    <3>1. CASE Answer(i, "DELETED", {}) \/ Answer(i, "ERROR", {})
        BY <3>1, AnswerTyped DEF Status
    <3>2. CASE Compare(i)
        BY <3>2, CompareTyped
    <3>3. CASE UNCHANGED results /\ job' = [job EXCEPT ![i] = "versioning"]
        BY <3>3 DEF TypeOK
    <3> QED BY <2>1, <3>1, <3>2, <3>3 DEF Check
  <2>2. CASE CheckVersioning(i)
      BY <2>2, AnswerTyped, CompareTyped DEF CheckVersioning, Status
  <2>3. CASE CheckFails(i)
      BY <2>3, AnswerTyped DEF CheckFails, Status
  <2> QED BY <2>1, <2>2, <2>3 DEF Worker
<1>2. UNCHANGED <<input, account, cancelled, main, filtered, exitCode>> /\ faults' \in 0 .. MaxFaults
  <2>1. CASE Check(i) \/ CheckVersioning(i)
      BY <2>1 DEF Check, CheckVersioning, TypeOK
  <2>2. CASE CheckFails(i)
      BY <2>2, DriftAssumption DEF CheckFails, MayFail, Charge, TypeOK
  <2> QED BY <2>1, <2>2 DEF Worker
<1> QED BY <1>1, <1>2 DEF TypeOK, input, account, Checkable, Wanted, Managed, Instance

LEMMA WorldTyped ==
  ASSUME TypeOK, World
  PROVE  TypeOK'
<1> PICK o \in {Of(i) : i \in filtered} :
      Delete(o) \/ Recreate(o) \/ \E at \in Attribute : at[1] = o[1] /\ Edit(o, at[2])
    BY DEF World
<1>0. o \in Object
    BY InstanceType DEF TypeOK
<1>1. \E D \in SUBSET Object, E \in [Object -> SUBSET {at[2] : at \in Attribute}] : Becomes(D, E)
  <2>1. CASE Delete(o)
      BY <2>1 DEF Delete, TypeOK
  <2>2. CASE Recreate(o)
      BY <2>2, <1>0 DEF Recreate, TypeOK
  <2>3. CASE \E at \in Attribute : at[1] = o[1] /\ Edit(o, at[2])
      BY <2>3, <1>0 DEF Edit, TypeOK
  <2> QED BY <2>1, <2>2, <2>3
<1>2. PICK D \in SUBSET Object, E \in [Object -> SUBSET {at[2] : at \in Attribute}] : Becomes(D, E)
    BY <1>1
<1>3. \A i \in filtered : Snapshot(Of(i), D, E) \in [described : BOOLEAN, edited : SUBSET {at[2] : at \in Attribute}]
    BY InstanceType DEF Snapshot, TypeOK
<1>4. seen' \in [filtered -> [described : BOOLEAN, edited : SUBSET {at[2] : at \in Attribute}]]
    BY <1>2, <1>3 DEF Becomes, TypeOK
<1>5. changes' \in 0 .. MaxChanges
    BY <1>2, DriftAssumption DEF Becomes, TypeOK
<1> QED BY <1>2, <1>4, <1>5 DEF Becomes, TypeOK, input, Checkable, Wanted, Managed, Instance

LEMMA SpawnTyped ==
  ASSUME TypeOK, NEW i \in filtered, Spawn(i)
  PROVE  TypeOK'
<1>1. Snapshot(Of(i), described, edited) \in [described : BOOLEAN, edited : SUBSET {at[2] : at \in Attribute}]
    BY InstanceType DEF Snapshot, TypeOK
<1> QED BY <1>1 DEF Spawn, TypeOK, input, Checkable, Wanted, Managed, Instance

LEMMA ParseTyped == TypeOK /\ Parse => TypeOK'
<1> SUFFICES ASSUME TypeOK, Parse PROVE TypeOK'
    OBVIOUS
<1>1. UNCHANGED <<input, Checkable>>
    BY DEF Parse, input, Checkable, Wanted, Managed, Instance
<1>2. \A i \in Checkable : Snapshot(Of(i), described, edited)
                            \in [described : BOOLEAN, edited : SUBSET {at[2] : at \in Attribute}]
    BY InstanceType DEF Snapshot, TypeOK
<1>3. /\ job' \in [Checkable -> {"none", "first", "versioning", "done"}]
      /\ results' \in [Checkable -> RowType]
      /\ seen' \in [Checkable -> [described : BOOLEAN, edited : SUBSET {at[2] : at \in Attribute}]]
    BY <1>2, NoRowTyped DEF Parse
<1> HIDE DEF Checkable
<1> QED BY <1>1, <1>3 DEF Parse, TypeOK, input

LEMMA TypeStep == TypeOK /\ [Next]_vars => TypeOK'
<1> SUFFICES ASSUME TypeOK, [Next]_vars PROVE TypeOK'
    OBVIOUS
<1>0. UNCHANGED file /\ UNCHANGED filter => UNCHANGED Checkable
    BY DEF Checkable, Wanted, Managed, Instance
<1>1. CASE Parse
    BY <1>1, ParseTyped
<1>2. CASE ParseFails
    BY <1>0, <1>2, DriftAssumption DEF ParseFails, MayFail, Charge, TypeOK, input, account
<1>3. ASSUME NEW i \in filtered, Spawn(i) PROVE TypeOK'
    BY <1>3, SpawnTyped
<1>4. CASE Join
    BY <1>0, <1>4 DEF Join, TypeOK, input, account
<1>5. CASE Gate
  <2>1. exitCode' \in 0 .. 3
      BY <1>5 DEF Gate
  <2> QED BY <1>0, <1>5, <2>1 DEF Gate, TypeOK, input, account
<1>6. CASE Render
    BY <1>0, <1>6, DriftAssumption DEF Render, TypeOK, input, account
<1>7. ASSUME NEW i \in filtered, Worker(i) PROVE TypeOK'
    BY <1>7, WorkerTyped
<1>8. CASE World
    BY <1>8, WorldTyped
<1>9. CASE Interrupt
    BY <1>0, <1>9 DEF Interrupt, TypeOK, input, account
<1>10. CASE UNCHANGED vars
    BY <1>0, <1>10 DEF vars, TypeOK, input, account
<1> QED BY <1>1, <1>2, <1>3, <1>4, <1>5, <1>6, <1>7, <1>8, <1>9, <1>10 DEF Next, Main, Finished

(* The state of a drift run is always well-typed.                          *)
THEOREM TypeCorrect == Spec => []TypeOK
  BY TypeInit, TypeStep, PTL DEF Spec

-----------------------------------------------------------------------------
(* Every verdict follows the account.                                      *)

(* While a check is under way its history follows the account.             *)
SeenOK == \A i \in filtered : Active(i) => seen[i] = Snapshot(Of(i), described, edited)

(* A goroutine that has ended has filled its own slot.                     *)
RowsOK == \A i \in filtered :
  job[i] = "done" => /\ results[i].status \in Status
                     /\ results[i] = Row(Instance[i], results[i].status, results[i].fields)

VerdictInv == SeenOK /\ RowsOK /\ VerdictFollowsAccount

(* A row that is true of the account as it is keeps the invariant.         *)
LEMMA AnswerKeeps ==
  ASSUME TypeOK, VerdictInv, NEW i \in filtered, NEW s \in Status, NEW F,
         Answer(i, s, F), IsTrue(i, Row(Instance[i], s, F)),
         UNCHANGED <<input, account, filtered>>
  PROVE  VerdictInv'
<1> USE DEF VerdictInv, TypeOK, input, account
<1>1. results'[i] = Row(Instance[i], s, F) /\ job'[i] = "done"
    BY DEF Answer
<1>2. \A j \in filtered \ {i} : results'[j] = results[j] /\ job'[j] = job[j]
    BY DEF Answer
<1>3. Instance' = Instance /\ filtered' = filtered
    BY DEF Instance
<1>4. \A row : \A j \in filtered : IsTrue(j, row) => IsTrue(j, row)'
    BY <1>3 DEF IsTrue
<1>5. SeenOK'
    BY <1>1, <1>2, <1>3 DEF SeenOK, Active, Of, Snapshot
<1>6. RowsOK'
    BY <1>1, <1>2, <1>3 DEF RowsOK, Row
<1>7. VerdictFollowsAccount'
    BY <1>1, <1>2, <1>3, <1>4 DEF VerdictFollowsAccount, IsTrue
<1> QED BY <1>5, <1>6, <1>7

LEMMA SnapshotFields ==
  ASSUME NEW o, NEW D, NEW E
  PROVE  /\ Snapshot(o, D, E).described <=> o \in D
         /\ Snapshot(o, D, E).edited = E[o]
<1>1. CASE o \in D
  <2>1. (o \in D) = TRUE
      BY <1>1
  <2> QED BY <1>1, <2>1 DEF Snapshot
<1>2. CASE o \notin D
  <2>1. (o \in D) = FALSE
      BY <1>2
  <2> QED BY <1>2, <2>1 DEF Snapshot
<1> QED BY <1>1, <1>2

LEMMA CompareKeeps ==
  ASSUME TypeOK, VerdictInv, NEW i \in filtered, Active(i), Found(Of(i)), Compare(i),
         UNCHANGED <<input, account, filtered>>
  PROVE  VerdictInv'
<1> DEFINE r == Instance[i]
           F == Differing(r, edited[Of(i)])
           s == IF F = {} THEN "IN_SYNC" ELSE "MODIFIED"
<1>1. seen[i] = Snapshot(Of(i), described, edited) /\ Of(i) \in described
    BY DEF VerdictInv, SeenOK, Found
<1>2. IsTrue(i, Row(r, s, F))
  <2>1. seen[i].described /\ F = (seen[i].edited \cap Compared(r.type)) \cup NeverEqual(r)
      BY <1>1, SnapshotFields DEF Differing
  <2> HIDE DEF F, r
  <2>2. CASE F = {}
      BY <2>1, <2>2 DEF IsTrue, Row, r
  <2>3. CASE F # {}
      BY <2>1, <2>3 DEF IsTrue, Row, r
  <2> QED BY <2>2, <2>3
<1>3. Answer(i, s, F)
    BY DEF Compare
<1>4. s \in Status
    BY DEF Status
<1> HIDE DEF F, s
<1> QED BY <1>2, <1>3, <1>4, AnswerKeeps

LEMMA ErrorKeeps ==
  ASSUME TypeOK, VerdictInv, NEW i \in filtered, Answer(i, "ERROR", {}),
         UNCHANGED <<input, account, filtered>>
  PROVE  VerdictInv'
<1>1. IsTrue(i, Row(Instance[i], "ERROR", {}))
    BY DEF IsTrue, Row
<1> QED BY <1>1, AnswerKeeps DEF Status

LEMMA DeletedKeeps ==
  ASSUME TypeOK, VerdictInv, NEW i \in filtered, Active(i), NotFound(Of(i)),
         Answer(i, "DELETED", {}), UNCHANGED <<input, account, filtered>>
  PROVE  VerdictInv'
<1>1. seen[i] = Snapshot(Of(i), described, edited)
    BY DEF VerdictInv, SeenOK
<1>2. Of(i) \notin described \/ (Instance[i].id \in Elsewhere /\ Instance[i].type \in Regional)
    BY DEF NotFound, RegionalGone, GlobalGone, AccessBlockGone, Of
<1>3. IsTrue(i, Row(Instance[i], "DELETED", {}))
    BY <1>1, <1>2, SnapshotFields DEF IsTrue, Row
<1> QED BY <1>3, AnswerKeeps DEF Status

LEMMA WorkerKeeps ==
  ASSUME TypeOK, VerdictInv, NEW i \in filtered, Worker(i)
  PROVE  VerdictInv'
<1>1. Active(i) /\ UNCHANGED <<input, account, filtered>>
    BY DEF Worker, Check, CheckVersioning, CheckFails, Active
<1>2. CASE NotFound(Of(i)) /\ Answer(i, "DELETED", {})
    BY <1>1, <1>2, DeletedKeeps
<1>3. CASE Found(Of(i)) /\ Compare(i)
    BY <1>1, <1>3, CompareKeeps
<1>4. CASE Answer(i, "ERROR", {})
    BY <1>1, <1>4, ErrorKeeps
<1>5. CASE UNCHANGED results /\ job' = [job EXCEPT ![i] = "versioning"]
  <2> USE DEF VerdictInv, TypeOK, input, account
  <2>1. Instance' = Instance
      BY <1>1 DEF Instance
  <2>2. SeenOK'
      BY <1>1, <1>5, <2>1 DEF SeenOK, Active, Of, Snapshot
  <2>3. RowsOK'
      BY <1>1, <1>5, <2>1 DEF RowsOK, Row
  <2>4. VerdictFollowsAccount'
      BY <1>1, <1>5, <2>1 DEF VerdictFollowsAccount, IsTrue
  <2> QED BY <2>2, <2>3, <2>4
<1> QED BY <1>2, <1>3, <1>4, <1>5 DEF Worker, Check, CheckVersioning, CheckFails

LEMMA WorldKeeps ==
  ASSUME TypeOK, VerdictInv, World
  PROVE  VerdictInv'
<1>1. PICK D, E : Becomes(D, E)
    BY DEF World, Delete, Recreate, Edit
<1> USE DEF VerdictInv, TypeOK
<1>2. UNCHANGED <<Instance, filtered, job, results>>
    BY <1>1 DEF Becomes, Instance, input
<1>3. \A i \in filtered : ~Active(i) => seen'[i] = seen[i]
    BY <1>1 DEF Becomes
<1>4. SeenOK'
    BY <1>1, <1>2 DEF Becomes, SeenOK, Active, Of, Snapshot
<1>5. RowsOK'
    BY <1>2 DEF RowsOK, Row
<1>6. VerdictFollowsAccount'
    BY <1>2, <1>3 DEF VerdictFollowsAccount, IsTrue, Active
<1> QED BY <1>4, <1>5, <1>6

LEMMA SpawnKeeps ==
  ASSUME TypeOK, VerdictInv, NEW i \in filtered, Spawn(i)
  PROVE  VerdictInv'
<1> USE DEF VerdictInv, TypeOK
<1>1. UNCHANGED <<Instance, filtered, results, described, edited>>
    BY DEF Spawn, Instance, input
<1>2. job'[i] = "first" /\ seen'[i] = Snapshot(Of(i), described, edited)
    BY DEF Spawn
<1>3. \A j \in filtered \ {i} : job'[j] = job[j] /\ seen'[j] = seen[j]
    BY DEF Spawn
<1>4. SeenOK'
    BY <1>1, <1>2, <1>3 DEF SeenOK, Active, Of, Snapshot
<1>5. RowsOK'
    BY <1>1, <1>2, <1>3 DEF RowsOK, Row
<1>6. VerdictFollowsAccount'
    BY <1>1, <1>2, <1>3 DEF VerdictFollowsAccount, IsTrue
<1> QED BY <1>4, <1>5, <1>6

LEMMA VerdictStep == TypeOK /\ VerdictInv /\ [Next]_vars => VerdictInv'
<1> SUFFICES ASSUME TypeOK, VerdictInv, [Next]_vars PROVE VerdictInv'
    OBVIOUS
<1>1. CASE Parse
    BY <1>1 DEF Parse, VerdictInv, SeenOK, RowsOK, VerdictFollowsAccount, Active
<1>2. ASSUME NEW i \in filtered, Spawn(i) PROVE VerdictInv'
    BY <1>2, SpawnKeeps
<1>3. ASSUME NEW i \in filtered, Worker(i) PROVE VerdictInv'
    BY <1>3, WorkerKeeps
<1>4. CASE World
    BY <1>4, WorldKeeps
<1>5. CASE UNCHANGED <<file, filtered, described, edited, seen, job, results>>
  <2>1. Instance' = Instance
      BY <1>5 DEF Instance
  <2> QED BY <1>5, <2>1 DEF VerdictInv, SeenOK, RowsOK, VerdictFollowsAccount, Active, IsTrue, Of, Snapshot, Row
<1>6. ParseFails \/ Join \/ Gate \/ Render \/ Interrupt \/ UNCHANGED vars
        => UNCHANGED <<file, filtered, described, edited, seen, job, results>>
    BY DEF ParseFails, Join, Gate, Render, Interrupt, vars, input, account
<1> QED BY <1>1, <1>2, <1>3, <1>4, <1>5, <1>6 DEF Next, Main, Finished

(* No verdict of a drift run is ever made of a refused call, of another    *)
(* resource's answer or of a state the resource was no longer in; what a   *)
(* MODIFIED names beyond the edits is only what can never print alike.     *)
THEOREM VerdictsFollowAccount == Spec => []VerdictFollowsAccount
<1>1. Init => VerdictInv
    BY DEF Init, VerdictInv, SeenOK, RowsOK, VerdictFollowsAccount
<1>2. VerdictInv => VerdictFollowsAccount
    BY DEF VerdictInv
<1> QED BY <1>1, <1>2, VerdictStep, TypeCorrect, PTL DEF Spec

-----------------------------------------------------------------------------
(* What the exit code is evidence of.                                      *)

(* Past the join every instance the file asks for has been checked, and    *)
(* past the gate the exit code is what the rows make it.                   *)
GateInv ==
  /\ main \in {"spawn", "gate", "render"} => filtered = Checkable
  /\ main = "gate" => \A i \in filtered : job[i] = "done"
  /\ main = "render" \/ (main = "exited" /\ exitCode # 1) =>
       /\ \A i \in filtered : job[i] = "done"
       /\ exitCode = IF gating /\ Drifted THEN 2 ELSE IF gating /\ Incomplete # {} THEN 3 ELSE 0

LEMMA GateStep == TypeOK /\ GateInv /\ [Next]_vars => GateInv'
<1> SUFFICES ASSUME TypeOK, GateInv, [Next]_vars PROVE GateInv'
    OBVIOUS
<1>0. UNCHANGED <<file, filter>> => UNCHANGED Checkable
    BY DEF Checkable, Wanted, Managed, Instance
<1>1. CASE Parse
    BY <1>0, <1>1 DEF Parse, GateInv, input
<1>2. CASE ParseFails
    BY <1>2 DEF ParseFails, GateInv
<1>3. ASSUME NEW i \in filtered, Spawn(i) PROVE GateInv'
    BY <1>0, <1>3 DEF Spawn, GateInv, input
<1>4. CASE Join
    BY <1>0, <1>4 DEF Join, GateInv, input
<1>5. CASE Gate
    BY <1>0, <1>5 DEF Gate, GateInv, input, Drifted, Incomplete, Final
<1>6. CASE Render
    BY <1>0, <1>6 DEF Render, GateInv, input, Drifted, Incomplete, Final
<1>7. ASSUME NEW i \in filtered, Worker(i) PROVE GateInv'
  <2>1. job[i] # "done"
      BY <1>7 DEF Worker, Check, CheckVersioning, CheckFails, Active
  <2>2. main \notin {"gate", "render"} /\ ~(main = "exited" /\ exitCode # 1)
      BY <2>1 DEF GateInv
  <2>3. UNCHANGED <<input, main, filtered, exitCode>>
      BY <1>7 DEF Worker, Check, CheckVersioning, CheckFails
  <2> QED BY <1>0, <2>2, <2>3 DEF GateInv, input
<1>8. CASE World
    BY <1>0, <1>8 DEF World, Delete, Recreate, Edit, Becomes, GateInv, input, Drifted, Incomplete, Final
<1>9. CASE Interrupt
    BY <1>0, <1>9 DEF Interrupt, GateInv, input, Drifted, Incomplete, Final
<1>10. CASE UNCHANGED vars
    BY <1>0, <1>10 DEF vars, GateInv, input, Drifted, Incomplete, Final
<1> QED BY <1>1, <1>2, <1>3, <1>4, <1>5, <1>6, <1>7, <1>8, <1>9, <1>10 DEF Next, Main, Finished

(* A filled slot is a row of the report.                                   *)
LEMMA DoneIsFinal ==
  ASSUME TypeOK, RowsOK, NEW i \in filtered, job[i] = "done"
  PROVE  i \in Final /\ results[i].status \in Status
<1>1. results[i] = Row(Instance[i], results[i].status, results[i].fields) /\ results[i].status \in Status
    BY DEF RowsOK
<1>2. results[i].type = Instance[i].type
    BY <1>1 DEF Row
<1>3. Instance[i].type \in Supported
    BY InstanceType DEF TypeOK
<1>4. results[i].type # ""
    BY <1>2, <1>3 DEF Supported
<1> QED BY <1>1, <1>4 DEF Final

LEMMA EvidenceFollows == TypeOK /\ VerdictInv /\ GateInv => ExitIsEvidence
<1> SUFFICES ASSUME TypeOK, VerdictInv, GateInv, main = "exited", gating
             PROVE  /\ exitCode = 0 => \A i \in filtered : job[i] = "done" /\ results[i].status = "IN_SYNC"
                    /\ exitCode = 2 => Drifted
                    /\ exitCode = 3 => ~Drifted /\ Incomplete # {}
    BY DEF ExitIsEvidence
<1>1. ASSUME exitCode = 0, NEW i \in filtered
      PROVE  job[i] = "done" /\ results[i].status = "IN_SYNC"
  <2>1. ~Drifted /\ Incomplete = {} /\ job[i] = "done"
      BY <1>1 DEF GateInv
  <2>2. i \in Final /\ results[i].status \in Status
      BY <2>1, DoneIsFinal DEF VerdictInv
  <2> QED BY <2>1, <2>2 DEF Drifted, Incomplete, Status
<1>2. exitCode = 2 => Drifted
    BY DEF GateInv
<1>3. exitCode = 3 => ~Drifted /\ Incomplete # {}
    BY DEF GateInv
<1> QED BY <1>1, <1>2, <1>3

(* A gate's exit code says what the checks of the whole file saw.          *)
THEOREM ExitEvidence == Spec => []ExitIsEvidence
<1>1. Init => VerdictInv /\ GateInv
    BY DEF Init, VerdictInv, SeenOK, RowsOK, VerdictFollowsAccount, GateInv
<1> QED BY <1>1, VerdictStep, GateStep, EvidenceFollows, TypeCorrect, PTL DEF Spec

(* The report holds every instance Scan can check, each under its own      *)
(* address and id.                                                         *)
THEOREM NoInstanceLost == Spec => []EveryInstanceHasItsRow
<1>1. Init => VerdictInv /\ GateInv
    BY DEF Init, VerdictInv, SeenOK, RowsOK, VerdictFollowsAccount, GateInv
<1>2. TypeOK /\ VerdictInv /\ GateInv => EveryInstanceHasItsRow
  <2> SUFFICES ASSUME TypeOK, VerdictInv, GateInv, main \in {"gate", "render"}
               PROVE  EveryInstanceHasItsRow
      BY DEF EveryInstanceHasItsRow
  <2>1. filtered = Checkable /\ \A i \in filtered : job[i] = "done"
      BY DEF GateInv
  <2>2. Final = Checkable
      BY <2>1, DoneIsFinal DEF VerdictInv, Final
  <2> QED BY <2>1, <2>2 DEF EveryInstanceHasItsRow, VerdictInv, RowsOK
<1> QED BY <1>1, <1>2, VerdictStep, GateStep, TypeCorrect, PTL DEF Spec

-----------------------------------------------------------------------------
(* The errgroup's limit.                                                   *)

LEMMA InFlightFinite == TypeOK => IsFiniteSet(InFlight)
<1> SUFFICES ASSUME TypeOK PROVE IsFiniteSet(InFlight)
    OBVIOUS
<1>1. Instance \in Seq(Resources)
    BY DriftAssumption DEF TypeOK, Instance
<1>2. Len(Instance) \in Nat /\ DOMAIN Instance = 1 .. Len(Instance)
    BY <1>1, LenProperties
<1>3. InFlight \in SUBSET (1 .. Len(Instance))
    BY <1>2 DEF InFlight, TypeOK, Checkable, Wanted, Managed
<1>4. IsFiniteSet(1 .. Len(Instance))
    BY <1>2, FS_Interval
<1> QED BY <1>3, <1>4, FS_Subset

LEMMA LimitType == TypeOK => Limit \in Nat \ {0}
  BY DriftAssumption DEF TypeOK, Limit

LEMMA BoundStep == TypeOK /\ ChecksAreBounded /\ [Next]_vars => ChecksAreBounded'
<1> SUFFICES ASSUME TypeOK, ChecksAreBounded, [Next]_vars PROVE ChecksAreBounded'
    OBVIOUS
<1> USE DEF ChecksAreBounded
<1>1. UNCHANGED Limit
    BY DEF Next, Main, Parse, ParseFails, Spawn, Join, Gate, Render, Interrupt, Finished, World,
           Delete, Recreate, Edit, Becomes, Worker, Check, CheckVersioning, CheckFails, vars, input, Limit
<1>2. IsFiniteSet(InFlight) /\ Cardinality(InFlight) \in Nat /\ Limit \in Nat
    BY InFlightFinite, FS_CardinalityType, LimitType
<1>3. CASE InFlight' \subseteq InFlight
  <2>1. IsFiniteSet(InFlight') /\ Cardinality(InFlight') <= Cardinality(InFlight)
      BY <1>2, <1>3, FS_Subset
  <2>2. Cardinality(InFlight') \in Nat
      BY <2>1, FS_CardinalityType
  <2> QED BY <1>1, <1>2, <2>1, <2>2
<1>4. ASSUME NEW i \in filtered, Spawn(i) PROVE Cardinality(InFlight') <= Limit'
  <2>1. InFlight' = InFlight \cup {i}
      BY <1>4 DEF Spawn, InFlight, Active, TypeOK
  <2>2. Cardinality(InFlight') = IF i \in InFlight THEN Cardinality(InFlight) ELSE Cardinality(InFlight) + 1
      BY <1>2, <2>1, FS_AddElement
  <2> QED BY <1>1, <1>2, <1>4, <2>2 DEF Spawn
<1>5. ASSUME NEW i \in filtered, Worker(i) PROVE InFlight' \subseteq InFlight
    BY <1>5 DEF Worker, Check, CheckVersioning, CheckFails, Answer, Compare, InFlight, Active, TypeOK
<1>6. World \/ ParseFails \/ Join \/ Gate \/ Render \/ Interrupt \/ UNCHANGED vars
        => InFlight' \subseteq InFlight
    BY DEF World, Delete, Recreate, Edit, Becomes, ParseFails, Join, Gate, Render, Interrupt, vars,
           InFlight, Active
<1>7. CASE Parse
    BY <1>3, <1>7 DEF Parse, InFlight, Active
<1> QED BY <1>3, <1>4, <1>5, <1>6, <1>7 DEF Next, Main, Finished

(* No more checks are in flight than the concurrency asked for, or ten.    *)
THEOREM ChecksBounded == Spec => []ChecksAreBounded
<1>1. Init => ChecksAreBounded
  <2> SUFFICES ASSUME Init PROVE ChecksAreBounded
      OBVIOUS
  <2>1. InFlight = {}
      BY DEF Init, InFlight
  <2>2. Cardinality(InFlight) = 0
      BY <2>1, FS_EmptySet
  <2> QED BY <2>2, TypeInit, LimitType DEF ChecksAreBounded
<1> QED BY <1>1, BoundStep, TypeCorrect, PTL DEF Spec
=============================================================================
