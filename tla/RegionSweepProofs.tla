-------------------------- MODULE RegionSweepProofs --------------------------
(***************************************************************************)
(* Theorems about RegionSweep for any number of sweeps and regions, any    *)
(* region list and credentials, any fan-out and any number of failures.    *)
(***************************************************************************)
EXTENDS RegionSweep, FiniteSetTheorems, TLAPS

-----------------------------------------------------------------------------
(* The region set and what is asked of it.                                 *)

(* The constants a leaf needs one at a time.                               *)
LEMMA Bounds == Fanout \in Nat /\ 0 < Fanout /\ MaxFaults \in Nat
  BY SweepAssumption

(* Every warning the code writes is one of the record's.                   *)
LEMMA Warnings ==
  /\ <<"discovery", NoRegion, NoRegion>> \in Warning
  /\ \A s \in Sweep, r \in Region \cup {NoRegion} :
       <<"partial", s, r>> \in Warning /\ <<"failed", s, r>> \in Warning
  BY DEF Warning

(* The set in use is finite, so its cardinality can be compared.           *)
LEMMA RegionsFinite ==
  ASSUME TypeOK
  PROVE  IsFiniteSet(regions) /\ Cardinality(regions) \in Nat
  BY SweepAssumption, FS_Subset, FS_CardinalityType DEF TypeOK

(* Each of the three ways to resolve the set yields regions.               *)
LEMMA ResolvedType ==
  ASSUME TypeOK
  PROVE  /\ Enabled \subseteq Region /\ Fallback \subseteq Region
         /\ Normalised(requested) \subseteq Region
  BY SweepAssumption DEF TypeOK, Fallback, Normalised

(* Where there is at most one region, the target is all there is.          *)
LEMMA TargetIsAll ==
  ASSUME TypeOK, Cardinality(regions) <= 1
  PROVE  regions \subseteq {Target} /\ (Target = NoRegion \/ Target \in Region)
<1>1. CASE regions = {}
    BY <1>1, SweepAssumption DEF Target, TypeOK
<1>2. CASE regions # {}
  <2>1. Cardinality(regions) = 1
      BY <1>2, RegionsFinite, FS_EmptySet
  <2>2. PICK r : regions = {r}
      BY <2>1, RegionsFinite, FS_Singleton
  <2>3. Target = r
      BY <2>2 DEF Target
  <2> QED BY <2>2, <2>3 DEF TypeOK
<1> QED BY <1>1, <1>2

-----------------------------------------------------------------------------
(* The invariant.                                                          *)

(* Whoever is inside Do is the one sweep that discovers, and nobody is     *)
(* past it before the set is there.                                        *)
OnceOK ==
  /\ discovery \in {0, 1} /\ (once # "done" => discovery = 0)
  /\ \A s \in Sweep : pc[s] = "discover" <=> once = s
  /\ \A s \in Sweep : pc[s] \notin {"start", "discover"} => once = "done"

(* A sweep's goroutines are those of the region set, once it fans out, and *)
(* all of them are done when it ends; a slot is empty until its goroutine  *)
(* is done, and a partial one has its warning.                             *)
JobsOK ==
  \A s \in Sweep :
    /\ pc[s] \in {"start", "discover", "resolved", "single"} => \A r \in Region : job[s][r] = "none"
    /\ pc[s] = "single" => Cardinality(regions) <= 1
    /\ pc[s] = "join" => \A r \in Region : job[s][r] # "none" <=> r \in regions
    /\ pc[s] \in {"returned", "failed"} => \A r \in Region : job[s][r] \in {"none", "done"}
    /\ \A r \in Region : job[s][r] # "none" => r \in regions
    /\ \A r \in Region : slot[s][r] = "empty" <=> job[s][r] # "done"
    /\ \A r \in Region : slot[s][r] = "partial" => <<"partial", s, r>> \in warnings

(* Without a warning the set is the one that was asked for.                *)
AskedOK == (once = "done" /\ warnings = {}) => regions = Asked

(* What a sweep that is over has accounted for.                            *)
EndOK ==
  \A s \in Sweep :
    /\ pc[s] = "returned" =>
         /\ regions \ Failed(s) \subseteq out[s]
         /\ \A r \in Failed(s) : <<"failed", s, r>> \in warnings
    /\ pc[s] = "failed" => (Cardinality(regions) > 1 => Failed(s) = regions)

IInv == TypeOK /\ OnceOK /\ JobsOK /\ AskedOK /\ EndOK

LEMMA InitInv == Init => IInv
<1> SUFFICES ASSUME Init PROVE IInv
    OBVIOUS
<1>1. TypeOK
    BY SweepAssumption DEF Init, TypeOK
<1>2. OnceOK /\ JobsOK /\ AskedOK /\ EndOK
    BY SweepAssumption DEF Init, OnceOK, JobsOK, AskedOK, EndOK
<1> QED BY <1>1, <1>2 DEF IInv

(* Before the set is there no sweep has left the way to it.                *)
LEMMA Unresolved ==
  ASSUME IInv, once # "done", NEW s \in Sweep
  PROVE  /\ pc[s] \in {"start", "discover"}
         /\ \A r \in Region : job[s][r] = "none" /\ slot[s][r] = "empty"
  BY DEF IInv, TypeOK, OnceOK, JobsOK

LEMMA EnterInv == ASSUME IInv, NEW s \in Sweep, Enter(s) PROVE IInv'
<1> USE DEF IInv, Enter, Goto, input
<1>1. TypeOK'
    BY DEF TypeOK
<1>2. OnceOK'
    BY SweepAssumption DEF TypeOK, OnceOK
<1>3. JobsOK'
    BY DEF TypeOK, JobsOK
<1>4. AskedOK' /\ EndOK'
    BY SweepAssumption DEF TypeOK, AskedOK, Asked, EndOK, Failed
<1> QED BY <1>1, <1>2, <1>3, <1>4

(* Discover and TakeRequested.                                             *)
LEMMA ResolveInv ==
  ASSUME IInv, NEW s \in Sweep, NEW R \in SUBSET Region, pc[s] = "discover",
         Resolved(s, R), UNCHANGED <<input, job, slot, out>>,
         discovery' \in {discovery, discovery + 1}, faults' \in 0 .. MaxFaults,
         warnings \subseteq warnings', warnings' \subseteq Warning,
         warnings' = {} => R = Asked
  PROVE  IInv'
<1>1. once = s /\ once # "done" /\ discovery = 0
    BY SweepAssumption DEF IInv, OnceOK
<1>2. \A t \in Sweep : pc[t] \in {"start", "discover"} /\ \A r \in Region : job[t][r] = "none" /\ slot[t][r] = "empty"
    BY <1>1, Unresolved
<1> USE DEF Resolved, Goto, input
<1>3. TypeOK'
    BY <1>1 DEF IInv, TypeOK
<1>4. OnceOK'
    BY <1>1, <1>2, SweepAssumption DEF IInv, TypeOK, OnceOK
<1>5. JobsOK'
    BY <1>2 DEF IInv, TypeOK, JobsOK
<1>6. AskedOK'
    BY DEF AskedOK, Asked
<1>7. EndOK'
  <2>1. \A t \in Sweep : pc'[t] \notin {"returned", "failed"}
      BY <1>2 DEF IInv, TypeOK
  <2> QED BY <2>1 DEF EndOK
<1> QED BY <1>3, <1>4, <1>5, <1>6, <1>7 DEF IInv

LEMMA DiscoverInv == ASSUME IInv, NEW s \in Sweep, Discover(s) PROVE IInv'
<1>1. TypeOK
    BY DEF IInv
<1>2. CASE configured # NoRegion /\ Resolved(s, Enabled) /\ UNCHANGED <<warnings, faults>>
    BY <1>1, <1>2, ResolvedType, ResolveInv DEF Discover, TypeOK, Asked
<1>3. CASE /\ configured = NoRegion \/ faults < MaxFaults
           /\ Resolved(s, Fallback)
           /\ warnings' = warnings \cup {<<"discovery", NoRegion, NoRegion>>}
           /\ faults' = IF configured = NoRegion THEN faults ELSE faults + 1
  <2>1. warnings' \subseteq Warning /\ warnings \subseteq warnings' /\ warnings' # {}
      BY <1>1, <1>3, Warnings DEF TypeOK
  <2>2. faults' \in 0 .. MaxFaults
      BY <1>1, <1>3, SweepAssumption DEF TypeOK
  <2> QED BY <1>1, <1>3, <2>1, <2>2, ResolvedType, ResolveInv DEF Discover
<1> QED BY <1>2, <1>3 DEF Discover

LEMMA TakeRequestedInv == ASSUME IInv, NEW s \in Sweep, TakeRequested(s) PROVE IInv'
  BY ResolvedType, ResolveInv DEF TakeRequested, Asked, IInv, TypeOK

(* A goroutine is started for each region of the set and no other.         *)
LEMMA FanOutInv == ASSUME IInv, NEW s \in Sweep, FanOut(s) PROVE IInv'
<1>1. once = "done" /\ pc[s] \in {"start", "resolved"} /\ \A r \in Region : job[s][r] = "none" /\ slot[s][r] = "empty"
    BY DEF FanOut, IInv, TypeOK, JobsOK
<1>2. UNCHANGED <<input, once, regions, discovery, slot, out, warnings, faults>>
    BY DEF FanOut
<1>3. \/ Cardinality(regions) <= 1 /\ pc' = [pc EXCEPT ![s] = "single"] /\ job' = job
      \/ /\ Cardinality(regions) > 1 /\ pc' = [pc EXCEPT ![s] = "join"]
         /\ job' = [job EXCEPT ![s] = [r \in Region |-> IF r \in regions THEN "queued" ELSE "none"]]
    BY RegionsFinite DEF FanOut, Goto, IInv
<1> USE <1>1, <1>2, <1>3 DEF input
<1>4. TypeOK'
  <2>1. pc' \in [Sweep -> {"start", "discover", "resolved", "single", "join", "returned", "failed"}]
      BY DEF IInv, TypeOK
  <2>2. [r \in Region |-> IF r \in regions THEN "queued" ELSE "none"]
          \in [Region -> {"none", "queued", "scanning", "done"}]
      OBVIOUS
  <2>3. job' \in [Sweep -> [Region -> {"none", "queued", "scanning", "done"}]]
      BY <2>2 DEF IInv, TypeOK
  <2> QED BY <2>1, <2>3 DEF IInv, TypeOK
<1>5. OnceOK'
    BY SweepAssumption DEF IInv, TypeOK, OnceOK
<1>6. JobsOK'
    BY DEF IInv, TypeOK, JobsOK
<1>7. AskedOK' /\ EndOK'
    BY DEF IInv, TypeOK, AskedOK, Asked, EndOK, Failed
<1> QED BY <1>4, <1>5, <1>6, <1>7 DEF IInv

LEMMA SingleInv == ASSUME IInv, NEW s \in Sweep, Single(s) PROVE IInv'
<1>1. /\ once = "done" /\ pc[s] = "single" /\ Cardinality(regions) <= 1
      /\ \A r \in Region : job[s][r] = "none" /\ slot[s][r] = "empty"
    BY DEF Single, IInv, TypeOK, JobsOK, OnceOK
<1>2. regions \subseteq {Target} /\ (Target = NoRegion \/ Target \in Region)
    BY <1>1, TargetIsAll DEF IInv
<1>3. UNCHANGED <<input, once, regions, discovery, job, slot>>
    BY DEF Single
<1>4. /\ \/ /\ Target # NoRegion /\ out' = [out EXCEPT ![s] = {Target}]
            /\ pc' = [pc EXCEPT ![s] = "returned"]
         \/ out' = out /\ pc' = [pc EXCEPT ![s] = "failed"]
      /\ faults' \in 0 .. MaxFaults
      /\ warnings \subseteq warnings' /\ warnings' \subseteq Warning
    BY <1>2, SweepAssumption DEF Single, Goto, IInv, TypeOK, Warning
<1> HIDE DEF Target
<1> USE <1>1, <1>2, <1>3, <1>4 DEF input
<1>5. TypeOK'
  <2>1. pc' \in [Sweep -> {"start", "discover", "resolved", "single", "join", "returned", "failed"}]
      BY DEF IInv, TypeOK
  <2>2. out' \in [Sweep -> SUBSET Region]
    <3>1. Target # NoRegion => {Target} \in SUBSET Region
        OBVIOUS
    <3> QED BY <3>1 DEF IInv, TypeOK
  <2> QED BY <2>1, <2>2 DEF IInv, TypeOK
<1>6. OnceOK'
    BY SweepAssumption DEF IInv, TypeOK, OnceOK
<1>7. JobsOK'
    BY DEF IInv, TypeOK, JobsOK
<1>8. AskedOK'
    BY DEF IInv, AskedOK, Asked
<1>9. EndOK'
  <2> SUFFICES ASSUME NEW t \in Sweep
               PROVE  /\ pc'[t] = "returned" => /\ regions \ Failed(t) \subseteq out'[t]
                                                /\ \A r \in Failed(t) : <<"failed", t, r>> \in warnings'
                      /\ pc'[t] = "failed" => (Cardinality(regions) > 1 => Failed(t) = regions)
      BY DEF EndOK, Failed
  <2>1. CASE t = s
    <3>1. Failed(s) = {}
        BY DEF IInv, TypeOK, Failed
    <3>2. ~(Cardinality(regions) > 1)
        BY RegionsFinite DEF IInv
    <3> QED BY <2>1, <3>1, <3>2 DEF IInv, TypeOK
  <2>2. CASE t # s
      BY <2>2 DEF IInv, TypeOK, EndOK
  <2> QED BY <2>1, <2>2
<1> QED BY <1>5, <1>6, <1>7, <1>8, <1>9 DEF IInv

LEMMA AcquireInv == ASSUME IInv, NEW s \in Sweep, NEW r \in Region, Acquire(s, r) PROVE IInv'
<1> USE DEF IInv, Acquire, SetJob, input
<1>1. TypeOK'
    BY DEF TypeOK
<1>2. OnceOK' /\ AskedOK' /\ EndOK'
    BY DEF TypeOK, OnceOK, AskedOK, Asked, EndOK, Failed
<1>3. JobsOK'
    BY DEF TypeOK, JobsOK
<1> QED BY <1>1, <1>2, <1>3

LEMMA ScanRegionInv == ASSUME IInv, NEW s \in Sweep, NEW r \in Region, ScanRegion(s, r) PROVE IInv'
<1>1. /\ job[s][r] = "scanning" /\ job' = [job EXCEPT ![s][r] = "done"]
      /\ UNCHANGED <<input, once, regions, discovery, pc, out>>
      /\ slot[s][r] = "empty" /\ pc[s] = "join"
    BY DEF ScanRegion, SetJob, IInv, TypeOK, JobsOK
<1>2. PICK v \in {"whole", "partial", "error"} :
        /\ slot' = [slot EXCEPT ![s][r] = v]
        /\ v = "partial" => <<"partial", s, r>> \in warnings'
    BY DEF ScanRegion
<1>3. /\ warnings \subseteq warnings' /\ warnings' \subseteq Warning /\ faults' \in 0 .. MaxFaults
    BY SweepAssumption DEF ScanRegion, IInv, TypeOK, Warning
<1> USE <1>1, <1>2, <1>3 DEF input
<1>4. TypeOK'
    BY DEF IInv, TypeOK
<1>5. OnceOK' /\ AskedOK'
    BY DEF IInv, TypeOK, OnceOK, AskedOK, Asked
<1>6. JobsOK'
  <2>1. ASSUME NEW t \in Sweep, NEW q \in Region
        PROVE  \/ job'[t][q] = job[t][q] /\ slot'[t][q] = slot[t][q]
               \/ t = s /\ q = r /\ job'[t][q] = "done" /\ slot'[t][q] = v
      BY DEF IInv, TypeOK
  <2>2. ASSUME NEW t \in Sweep, NEW q \in Region
        PROVE  /\ slot'[t][q] = "empty" <=> job'[t][q] # "done"
               /\ slot'[t][q] = "partial" => <<"partial", t, q>> \in warnings'
               /\ job'[t][q] # "none" <=> job[t][q] # "none"
               /\ t # s => job'[t][q] = job[t][q]
    <3>1. /\ slot[t][q] = "empty" <=> job[t][q] # "done"
          /\ slot[t][q] = "partial" => <<"partial", t, q>> \in warnings
        BY DEF IInv, JobsOK
    <3> QED BY <2>1, <3>1
  <2> QED BY <2>2 DEF IInv, JobsOK
<1>7. EndOK'
  <2>1. \A t \in Sweep : pc[t] # "join" => Failed(t)' = Failed(t)
      BY DEF IInv, TypeOK, Failed
  <2> QED BY <2>1 DEF IInv, TypeOK, EndOK
<1> QED BY <1>4, <1>5, <1>6, <1>7 DEF IInv

LEMMA FoldInv == ASSUME IInv, NEW s \in Sweep, Fold(s) PROVE IInv'
<1>1. /\ pc[s] = "join" /\ \A r \in regions : job[s][r] = "done"
      /\ UNCHANGED <<input, once, regions, discovery, job, slot, faults>>
      /\ pc' = [pc EXCEPT ![s] = IF Failed(s) = regions THEN "failed" ELSE "returned"]
      /\ out' = [out EXCEPT ![s] = regions \ Failed(s)]
      /\ warnings' = warnings \cup {<<"failed", s, r>> : r \in Failed(s)}
    BY DEF Fold, Goto
<1>2. \A t \in Sweep : Failed(t)' = Failed(t) /\ Failed(t) \subseteq regions
    BY <1>1 DEF Failed
<1>3. warnings' \subseteq Warning
    BY <1>1, <1>2 DEF IInv, TypeOK, Warning
<1> USE <1>1, <1>2, <1>3 DEF input
<1>4. TypeOK'
    BY DEF IInv, TypeOK
<1>5. OnceOK'
    BY SweepAssumption DEF IInv, TypeOK, OnceOK
<1>6. JobsOK'
    BY DEF IInv, TypeOK, JobsOK
<1>7. AskedOK'
    BY DEF IInv, TypeOK, AskedOK, Asked
<1>8. EndOK'
    BY DEF IInv, TypeOK, EndOK
<1> QED BY <1>4, <1>5, <1>6, <1>7, <1>8 DEF IInv

LEMMA NextInv == IInv /\ [Next]_vars => IInv'
<1> SUFFICES ASSUME IInv, [Next]_vars PROVE IInv'
    OBVIOUS
<1>1. ASSUME NEW s \in Sweep, Caller(s) PROVE IInv'
    BY <1>1, EnterInv, DiscoverInv, TakeRequestedInv, FanOutInv, SingleInv, FoldInv DEF Caller
<1>2. ASSUME NEW s \in Sweep, NEW r \in Region, Job(s, r) PROVE IInv'
    BY <1>2, AcquireInv, ScanRegionInv DEF Job
<1>3. CASE UNCHANGED vars
    BY <1>3 DEF vars, IInv, TypeOK, OnceOK, JobsOK, AskedOK, Asked, EndOK, Failed
<1> QED BY <1>1, <1>2, <1>3 DEF Next, Finished

(* The invariant holds throughout; what follows is read off it.            *)
THEOREM Invariance == Spec => []IInv
  BY InitInv, NextInv, PTL DEF Spec

-----------------------------------------------------------------------------
(* The theorems.                                                           *)

(* The variables have their types and the region set is empty until it has *)
(* been resolved.                                                          *)
THEOREM TypeCorrect == Spec => []TypeOK
<1>1. IInv => TypeOK
    BY DEF IInv
<1> QED BY <1>1, Invariance, PTL

(* However many sweeps arrive, in whatever order, the account is asked for *)
(* its regions once and every sweep covers the same set.                   *)
THEOREM DiscoveredOnce == Spec => []OneDiscovery
<1>1. IInv => OneDiscovery
    BY DEF IInv, TypeOK, OnceOK, JobsOK, OneDiscovery
<1> QED BY <1>1, Invariance, PTL

(* An answer without a warning is the whole answer.                        *)
THEOREM QuietIsWhole == Spec => []QuietSweepIsWhole
<1>1. IInv => QuietSweepIsWhole
  <2> SUFFICES ASSUME IInv, NEW s \in Sweep, pc[s] = "returned", warnings = {}
               PROVE  Asked \subseteq out[s] /\ \A r \in Region : slot[s][r] \in {"empty", "whole"}
      BY DEF QuietSweepIsWhole
  <2>1. Failed(s) = {} /\ regions \subseteq out[s]
      BY DEF IInv, EndOK
  <2>2. regions = Asked
      BY DEF IInv, OnceOK, AskedOK
  <2>3. ASSUME NEW r \in Region PROVE slot[s][r] \in {"empty", "whole"}
      BY <2>1 DEF IInv, TypeOK, JobsOK, Failed
  <2> QED BY <2>1, <2>2, <2>3
<1> QED BY <1>1, Invariance, PTL

(* Whatever fails, each region that is missing from an answer, or was read *)
(* in part, is named.                                                      *)
THEOREM GapsWarned == Spec => []EveryGapIsWarned
<1>1. IInv => EveryGapIsWarned
  <2> SUFFICES ASSUME IInv, NEW s \in Sweep, pc[s] = "returned"
               PROVE  /\ \A r \in regions \ out[s] : <<"failed", s, r>> \in warnings
                      /\ \A r \in out[s] : slot[s][r] = "partial" => <<"partial", s, r>> \in warnings
      BY DEF EveryGapIsWarned
  <2>1. regions \ out[s] \subseteq Failed(s)
      BY DEF IInv, EndOK
  <2> QED BY <2>1 DEF IInv, TypeOK, JobsOK, EndOK
<1> QED BY <1>1, Invariance, PTL

(* A sweep of many regions fails only when all of them did, and otherwise  *)
(* keeps what every other region found.                                    *)
THEOREM DenialContained == Spec => []OneDenialIsContained
<1>1. IInv => OneDenialIsContained
    BY DEF IInv, EndOK, OneDenialIsContained, Failed
<1> QED BY <1>1, Invariance, PTL

-----------------------------------------------------------------------------
(* A token is taken only while fewer than the fan-out are.                 *)
LEMMA BurstStep == TypeOK /\ BurstIsBounded /\ [Next]_vars => BurstIsBounded'
<1> SUFFICES ASSUME TypeOK, BurstIsBounded, [Next]_vars, NEW t \in Sweep
             PROVE  Cardinality(Scanning(t)') <= Fanout
    BY DEF BurstIsBounded
<1>0. IsFiniteSet(Scanning(t)) /\ Cardinality(Scanning(t)) \in Nat /\ Cardinality(Scanning(t)) <= Fanout
  <2>1. Scanning(t) \in SUBSET Region
      BY DEF Scanning
  <2> QED BY <2>1, SweepAssumption, FS_Subset, FS_CardinalityType DEF BurstIsBounded
<1>1. CASE Scanning(t)' \subseteq Scanning(t)
  <2>1. Cardinality(Scanning(t)') <= Cardinality(Scanning(t)) /\ IsFiniteSet(Scanning(t)')
      BY <1>0, <1>1, FS_Subset
  <2>2. Cardinality(Scanning(t)') \in Nat
      BY <2>1, FS_CardinalityType
  <2> QED BY <1>0, <2>1, <2>2, SweepAssumption
<1>2. ASSUME NEW s \in Sweep, Caller(s) PROVE Scanning(t)' \subseteq Scanning(t)
  <2>1. CASE FanOut(s)
      BY <2>1 DEF FanOut, Scanning, TypeOK
  <2>2. CASE UNCHANGED job
      BY <2>2 DEF Scanning
  <2> QED BY <1>2, <2>1, <2>2 DEF Caller, Enter, Discover, TakeRequested, Single, Fold
<1>3. ASSUME NEW s \in Sweep, NEW r \in Region, Acquire(s, r)
      PROVE  Cardinality(Scanning(t)') <= Fanout
  <2>1. CASE t = s
    <3>1. Scanning(t)' = Scanning(t) \cup {r} /\ Cardinality(Scanning(t)) < Fanout /\ r \notin Scanning(t)
        BY <1>3, <2>1 DEF Acquire, SetJob, Scanning, TypeOK
    <3>2. Cardinality(Scanning(t) \cup {r}) = Cardinality(Scanning(t)) + 1
        BY <1>0, <3>1, FS_AddElement
    <3> QED BY <1>0, <3>1, <3>2, SweepAssumption
  <2>2. CASE t # s
      BY <1>1, <1>3, <2>2 DEF Acquire, SetJob, Scanning, TypeOK
  <2> QED BY <2>1, <2>2
<1>4. ASSUME NEW s \in Sweep, NEW r \in Region, ScanRegion(s, r) PROVE Scanning(t)' \subseteq Scanning(t)
    BY <1>4 DEF ScanRegion, SetJob, Scanning, TypeOK
<1>5. CASE UNCHANGED vars
    BY <1>1, <1>5 DEF vars, Scanning
<1> QED BY <1>1, <1>2, <1>3, <1>4, <1>5 DEF Next, Job, Finished

(* No sweep has more than regionFanout regions in flight, however many     *)
(* there are and whatever fails.                                           *)
THEOREM BurstBounded == Spec => []BurstIsBounded
<1>1. Init => BurstIsBounded
  <2> SUFFICES ASSUME Init, NEW s \in Sweep PROVE Cardinality(Scanning(s)) <= Fanout
      BY DEF BurstIsBounded
  <2>1. Scanning(s) = {}
      BY DEF Init, Scanning
  <2> QED BY <2>1, FS_EmptySet, SweepAssumption
<1> QED BY <1>1, BurstStep, TypeCorrect, PTL DEF Spec
=============================================================================
