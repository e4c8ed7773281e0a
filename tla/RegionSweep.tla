----------------------------- MODULE RegionSweep -----------------------------
(***************************************************************************)
(* The AWS provider's region fan-out (internal/cloud/aws/regions.go) and   *)
(* its warning record (aws.go).  Several sweeps run at once on one         *)
(* provider - audit runs every domain against the same instance - and      *)
(* share the region set, resolved once, and the warnings, kept on the root *)
(* provider.  A sweep scans every region behind its own semaphore, each    *)
(* goroutine writing its own slot, and folds the slots once all are done.  *)
(*                                                                         *)
(* A region's scan is whole, partial (it warns and goes on), or an error.  *)
(***************************************************************************)
EXTENDS Naturals, FiniteSets

CONSTANTS
  Sweep,       \* the eachRegion calls made on the provider
  Region,      \* the regions there are
  Enabled,     \* those enabled for the account
  NoRegion,    \* no region configured
  Configured,  \* the regions the credentials may be configured for
  Requests,    \* --regions: sets of names, blank ones among them
  Fanout,      \* regionFanout
  MaxFaults    \* bound: how many calls fail

(* What --regions may name besides a region.                               *)
Blank == ""

ASSUME SweepAssumption ==
  /\ IsFiniteSet(Region) /\ Enabled \subseteq Region
  /\ "free" \notin Sweep /\ "done" \notin Sweep
  /\ NoRegion \notin Region /\ Configured \subseteq Region \cup {NoRegion}
  /\ Requests \subseteq SUBSET (Region \cup {Blank})
  /\ Blank \notin Region
  /\ Fanout \in Nat \ {0} /\ MaxFaults \in Nat

VARIABLES
  requested, configured,  \* the command line and the credentials, chosen in Init
  once,       \* regionsOnce: "free", the sweep inside it, or "done"
  regions,    \* resolvedRegions
  discovery,  \* how many times DescribeRegions was called
  pc,         \* where each sweep stands
  job,        \* where each of its per-region goroutines stands
  slot,       \* results[i]
  out,        \* what the sweep returned: the regions whose findings it holds
  warnings,   \* the root provider's record
  faults

input == <<requested, configured>>
vars  == <<requested, configured, once, regions, discovery, pc, job, slot, out, warnings, faults>>

Warning == ({"discovery"} \X {NoRegion} \X {NoRegion})
             \cup ({"partial", "failed"} \X Sweep \X (Region \cup {NoRegion}))

(* normalizeRegions drops what is blank.                                   *)
Normalised(R) == R \ {Blank}

Init ==
  /\ requested \in Requests
  /\ configured \in Configured
  /\ once = "free"
  /\ regions = {}
  /\ discovery = 0
  /\ pc = [s \in Sweep |-> "start"]
  /\ job = [s \in Sweep |-> [r \in Region |-> "none"]]
  /\ slot = [s \in Sweep |-> [r \in Region |-> "empty"]]
  /\ out = [s \in Sweep |-> {}]
  /\ warnings = {}
  /\ faults = 0

Goto(s, label) == pc' = [pc EXCEPT ![s] = label]

-----------------------------------------------------------------------------
(* Seeded fault: nothing but a nil check guards the discovery.              *)
EnterUnguarded(s) ==
  /\ pc[s] = "start"
  /\ once # "done"
  /\ once' = s
  /\ Goto(s, "discover")
  /\ UNCHANGED <<input, regions, discovery, job, slot, out, warnings, faults>>

(* regionsToScan.  Only the first sweep to arrive discovers; the others    *)
(* wait for it inside Do.                                                  *)
Enter(s) ==
  /\ pc[s] = "start"
  /\ once = "free"
  /\ once' = s
  /\ Goto(s, "discover")
  /\ UNCHANGED <<input, regions, discovery, job, slot, out, warnings, faults>>

Fallback == {configured} \ {NoRegion}

Resolved(s, R) ==
  /\ regions' = R
  /\ once' = "done"
  /\ Goto(s, "resolved")

(* Seeded fault: the fallback is taken for a full sweep.                    *)
DiscoverSilently(s) ==
  /\ pc[s] = "discover"
  /\ requested = {}
  /\ discovery' = discovery + 1
  /\ \/ configured # NoRegion /\ Resolved(s, Enabled) /\ UNCHANGED faults
     \/ faults < MaxFaults /\ Resolved(s, Fallback) /\ faults' = faults + 1
  /\ UNCHANGED <<input, job, slot, out, warnings>>

(* discoverRegions: the explicit list, or DescribeRegions, which fails     *)
(* without a region to ask in; a failure narrows to the configured region  *)
(* and warns.                                                              *)
Discover(s) ==
  /\ pc[s] = "discover"
  /\ requested = {}
  /\ discovery' = discovery + 1
  /\ \/ /\ configured # NoRegion
        /\ Resolved(s, Enabled)
        /\ UNCHANGED <<warnings, faults>>
     \/ /\ configured = NoRegion \/ faults < MaxFaults
        /\ Resolved(s, Fallback)
        /\ warnings' = warnings \cup {<<"discovery", NoRegion, NoRegion>>}
        /\ faults' = IF configured = NoRegion THEN faults ELSE faults + 1
  /\ UNCHANGED <<input, job, slot, out>>

TakeRequested(s) ==
  /\ pc[s] = "discover"
  /\ requested # {}
  /\ Resolved(s, Normalised(requested))
  /\ UNCHANGED <<input, discovery, job, slot, out, warnings, faults>>

(* With no region at all the provider scans with the clients it has; with  *)
(* one, with a client bound to it.  Either way the answer is returned as   *)
(* it is.                                                                  *)
FanOut(s) ==
  /\ pc[s] \in {"start", "resolved"}
  /\ once = "done"
  /\ IF Cardinality(regions) <= 1
       THEN Goto(s, "single") /\ UNCHANGED job
       ELSE /\ Goto(s, "join")
            /\ job' = [job EXCEPT ![s] = [r \in Region |-> IF r \in regions THEN "queued" ELSE "none"]]
  /\ UNCHANGED <<input, once, regions, discovery, slot, out, warnings, faults>>

Target == IF regions = {} THEN configured ELSE CHOOSE r \in regions : TRUE

Single(s) ==
  /\ pc[s] = "single"
  /\ \/ /\ Target # NoRegion
        /\ out' = [out EXCEPT ![s] = {Target}]
        /\ Goto(s, "returned")
        /\ \/ UNCHANGED <<warnings, faults>>
           \/ /\ faults < MaxFaults
              /\ warnings' = warnings \cup {<<"partial", s, Target>>}
              /\ faults' = faults + 1
     \/ /\ Target = NoRegion \/ faults < MaxFaults
        /\ Goto(s, "failed")
        /\ faults' = IF Target = NoRegion THEN faults ELSE faults + 1
        /\ UNCHANGED <<out, warnings>>
  /\ UNCHANGED <<input, once, regions, discovery, job, slot>>

-----------------------------------------------------------------------------
Scanning(s) == {r \in Region : job[s][r] = "scanning"}

SetJob(s, r, label) == job' = [job EXCEPT ![s][r] = label]

(* sem <- struct{}{}, inside the goroutine.                                *)
Acquire(s, r) ==
  /\ job[s][r] = "queued"
  /\ Cardinality(Scanning(s)) < Fanout
  /\ SetJob(s, r, "scanning")
  /\ UNCHANGED <<input, once, regions, discovery, pc, slot, out, warnings, faults>>

(* Seeded fault: an error returns before the token is given back.           *)
ScanRegionLeaking(s, r) ==
  /\ job[s][r] = "scanning"
  /\ \/ slot' = [slot EXCEPT ![s][r] = "whole"] /\ SetJob(s, r, "done") /\ UNCHANGED faults
     \/ /\ faults < MaxFaults /\ faults' = faults + 1
        /\ slot' = [slot EXCEPT ![s][r] = "error"]
        /\ UNCHANGED job
  /\ slot[s][r] = "empty"
  /\ UNCHANGED <<input, once, regions, discovery, pc, out, warnings>>

(* The scan, its slot, and the deferred release.                           *)
ScanRegion(s, r) ==
  /\ job[s][r] = "scanning"
  /\ \/ /\ slot' = [slot EXCEPT ![s][r] = "whole"]
        /\ UNCHANGED <<warnings, faults>>
     \/ /\ faults < MaxFaults
        /\ faults' = faults + 1
        /\ \/ /\ slot' = [slot EXCEPT ![s][r] = "partial"]
              /\ warnings' = warnings \cup {<<"partial", s, r>>}
           \/ /\ slot' = [slot EXCEPT ![s][r] = "error"]
              /\ UNCHANGED warnings
  /\ SetJob(s, r, "done")
  /\ UNCHANGED <<input, once, regions, discovery, pc, out>>

Failed(s) == {r \in regions : slot[s][r] = "error"}

(* Seeded fault: a failed region is skipped without a word.                 *)
FoldSilently(s) ==
  /\ pc[s] = "join"
  /\ \A r \in regions : job[s][r] = "done"
  /\ out' = [out EXCEPT ![s] = regions \ Failed(s)]
  /\ Goto(s, IF Failed(s) = regions THEN "failed" ELSE "returned")
  /\ UNCHANGED <<input, once, regions, discovery, job, slot, warnings, faults>>

(* Seeded fault: one denied region sinks the sweep.                         *)
FoldAllOrNothing(s) ==
  /\ pc[s] = "join"
  /\ \A r \in regions : job[s][r] = "done"
  /\ warnings' = warnings \cup {<<"failed", s, r>> : r \in Failed(s)}
  /\ out' = [out EXCEPT ![s] = IF Failed(s) = {} THEN regions ELSE {}]
  /\ Goto(s, IF Failed(s) = {} THEN "returned" ELSE "failed")
  /\ UNCHANGED <<input, once, regions, discovery, job, slot, faults>>

(* wg.Wait, and the fold: failed regions are warned about and skipped, and *)
(* with nothing but failures the sweep itself fails.                       *)
Fold(s) ==
  /\ pc[s] = "join"
  /\ \A r \in regions : job[s][r] = "done"
  /\ warnings' = warnings \cup {<<"failed", s, r>> : r \in Failed(s)}
  /\ out' = [out EXCEPT ![s] = regions \ Failed(s)]
  /\ Goto(s, IF Failed(s) = regions THEN "failed" ELSE "returned")
  /\ UNCHANGED <<input, once, regions, discovery, job, slot, faults>>

Caller(s)  == Enter(s) \/ Discover(s) \/ TakeRequested(s) \/ FanOut(s) \/ Single(s) \/ Fold(s)
Job(s, r)  == Acquire(s, r) \/ ScanRegion(s, r)

Over(s) == pc[s] \in {"returned", "failed"}

(* Every sweep has returned.                                               *)
Finished == (\A s \in Sweep : Over(s)) /\ UNCHANGED vars

Next == (\E s \in Sweep : Caller(s) \/ \E r \in Region : Job(s, r)) \/ Finished

Spec == Init /\ [][Next]_vars

(* Goroutines are scheduled and every AWS call has a deadline              *)
(* (awsOpTimeout).                                                         *)
FairSpec ==
  Spec /\ \A s \in Sweep : WF_vars(Caller(s)) /\ \A r \in Region : WF_vars(Job(s, r))

-----------------------------------------------------------------------------
(* The types, and a region set that is empty until it has been resolved.   *)
TypeOK ==
  /\ requested \in Requests /\ configured \in Configured
  /\ once \in {"free", "done"} \cup Sweep
  /\ regions \subseteq Region /\ (once # "done" => regions = {})
  /\ discovery \in Nat /\ faults \in 0 .. MaxFaults
  /\ pc \in [Sweep -> {"start", "discover", "resolved", "single", "join", "returned", "failed"}]
  /\ job \in [Sweep -> [Region -> {"none", "queued", "scanning", "done"}]]
  /\ slot \in [Sweep -> [Region -> {"empty", "whole", "partial", "error"}]]
  /\ out \in [Sweep -> SUBSET Region]
  /\ warnings \subseteq Warning

(* However many sweeps arrive at once, the account is asked for its        *)
(* regions at most once and every sweep covers the same set                *)
(* (regionsToScan: "resolved once per provider tree and memoised").        *)
OneDiscovery ==
  /\ discovery <= 1
  /\ \A s \in Sweep : pc[s] = "join" => \A r \in Region : job[s][r] # "none" <=> r \in regions

(* No sweep has more than regionFanout regions in flight.                  *)
BurstIsBounded == \A s \in Sweep : Cardinality(Scanning(s)) <= Fanout

(* The regions the command was asked to cover.                             *)
Asked == IF requested = {} THEN Enabled ELSE Normalised(requested)

(* A sweep that returned, on a provider that has nothing to warn about,    *)
(* has read every region it was asked for, whole: an empty answer then     *)
(* means "the account is clean" and not "the configured region is clean"   *)
(* (regions.go).                                                           *)
QuietSweepIsWhole ==
  \A s \in Sweep :
    (pc[s] = "returned" /\ warnings = {}) =>
      /\ Asked \subseteq out[s]
      /\ \A r \in Region : slot[s][r] \in {"empty", "whole"}

(* Each region a returned sweep set out to read is either in its answer or *)
(* named by a warning, and one that was read only in part is named too.    *)
EveryGapIsWarned ==
  \A s \in Sweep :
    pc[s] = "returned" =>
      /\ \A r \in regions \ out[s] : <<"failed", s, r>> \in warnings
      /\ \A r \in out[s] : slot[s][r] = "partial" => <<"partial", s, r>> \in warnings

(* One region denying a call does not discard what the others found: the   *)
(* sweep fails only when every region did.                                 *)
OneDenialIsContained ==
  \A s \in Sweep :
    /\ (pc[s] = "failed" /\ Cardinality(regions) > 1) => Failed(s) = regions
    /\ pc[s] = "returned" => \A r \in regions : slot[s][r] \in {"whole", "partial"} => r \in out[s]

(* Every sweep ends, whatever fails and whoever waits for whom.            *)
EverySweepEnds == <>(\A s \in Sweep : Over(s))
=============================================================================
