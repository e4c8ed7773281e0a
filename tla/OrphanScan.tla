------------------------------ MODULE OrphanScan ------------------------------
(***************************************************************************)
(* The orphans command: the AWS reader (internal/cloud/aws/orphans.go,     *)
(* orphan_db_snapshots.go, cluster_residue.go), the cost filter            *)
(* (internal/orphans/scanner.go) and the command itself (cmd/orphans.go).  *)
(*                                                                         *)
(* A resource is called an orphan because nothing uses it.  Whether        *)
(* something does is rarely part of the resource's own description: it     *)
(* takes an index of live resources, read in calls of its own before or    *)
(* after the listing it judges, while the account goes on changing.  Some  *)
(* failing calls sink the region, some are warned about and cut the        *)
(* listing short, one is taken for an answer.                              *)
(*                                                                         *)
(* What uses a thing is a thing too: an attachment, an association, the    *)
(* registered targets of a target group, an instance, an image, a          *)
(* database, a cluster.                                                    *)
(***************************************************************************)
EXTENDS Naturals, FiniteSets, Sequences

CONSTANTS
  Region, Thing,
  NoThing,
  kind,        \* what each thing is
  home,        \* the region it is in
  page,        \* the page of the listing it comes on
  owners,      \* what uses it, or used it
  Unnamed,     \* residue that names no owner, or is still being made: never judged
  Cheap,       \* what costs less than --min-cost, when the flag is given
  Accounts,    \* what may be there when the scan starts
  Creations,   \* what comes into being together
  Pages,       \* how many pages each call takes
  MaxMoves,    \* bound: how often the account changes during the scan
  MaxFaults    \* bound: how many calls fail

(* cloud.AllOrphanKinds.                                                   *)
Residue    == {"eks_log_group", "karpenter_queue", "karpenter_rule"}
OrphanKind == {"disk", "ip", "load_balancer", "snapshot", "image", "db_snapshot", "db_cluster_snapshot"} \cup Residue

(* What the scan takes for the use of a thing of each kind.                *)
UserKind ==
  [disk |-> "attachment", ip |-> "attachment", load_balancer |-> "targets", snapshot |-> "image", image |-> "instance",
   db_snapshot |-> "db", db_cluster_snapshot |-> "db_cluster",
   eks_log_group |-> "eks_cluster", karpenter_queue |-> "eks_cluster", karpenter_rule |-> "eks_cluster"]

OwnerKind == {UserKind[k] : k \in OrphanKind}

(* The calls of one region, in the order listOrphansInRegion makes them,   *)
(* and what each of them reads.                                            *)
Calls ==
  <<"volumes", "addresses", "balancers", "amis", "snapshots", "images", "instances", "databases", "dbclusters",
    "dbsnapshots", "clustersnapshots", "clusters", "loggroups", "queues", "rules">>

KindOf ==
  [volumes |-> "disk", addresses |-> "ip", balancers |-> "load_balancer", amis |-> "image", snapshots |-> "snapshot",
   images |-> "image", instances |-> "instance", databases |-> "db", dbclusters |-> "db_cluster",
   dbsnapshots |-> "db_snapshot", clustersnapshots |-> "db_cluster_snapshot", clusters |-> "eks_cluster",
   loggroups |-> "eks_log_group", queues |-> "karpenter_queue", rules |-> "karpenter_rule"]

Call == DOMAIN KindOf

After(call) ==
  IF call = "rules" THEN "done"
  ELSE Calls[1 + CHOOSE i \in DOMAIN Calls : Calls[i] = call]

ASSUME OrphanAssumption ==
  /\ IsFiniteSet(Region) /\ Region # {} /\ NoThing \notin Thing
  /\ kind \in [Thing -> OrphanKind \cup OwnerKind]
  /\ home \in [Thing -> Region]
  /\ owners \in [Thing -> SUBSET Thing]
  /\ \A t \in Thing : \A o \in owners[t] :
       home[o] = home[t] /\ (kind[t] \in OrphanKind => kind[o] = UserKind[kind[t]])
  /\ Pages \in [Call -> Nat \ {0}] /\ page \in [Thing -> Nat \ {0}]
  /\ \A call \in {"addresses", "amis", "images"} : Pages[call] = 1
  /\ \A t \in Thing : \A call \in Call : kind[t] = KindOf[call] => page[t] <= Pages[call]
  /\ Unnamed \subseteq Thing /\ Cheap \subseteq Thing
  /\ Accounts \subseteq SUBSET Thing /\ Creations \subseteq SUBSET Thing
  /\ MaxMoves \in Nat /\ MaxFaults \in Nat

VARIABLES
  present,    \* the account
  absent,     \* history: what was not there at some moment of the scan
  kept,       \* history: what was an orphan at every moment of the scan
  moves, faults,
  pc,         \* where the command stands
  minCost,    \* whether --min-cost is given; it is chosen where it is first read
  failOn,     \* whether --fail-on is given; likewise
  job,        \* where the scan of each region stands
  warned,     \* the provider's warnings
  untold,     \* history: the rules whose tags could not be read
  resources,  \* what Scan returned
  report,     \* the output file
  exit

world   == <<present, absent, kept, moves>>
command == <<pc, minCost, failOn, resources, report, exit>>
scan    == <<world, faults, command, job, warned, untold>>

(* A region's scan: the call it is about to make and the page it asks for, *)
(* the index of live things, the things of a page still to be probed, the  *)
(* load balancer being probed with the target groups left to ask about,    *)
(* and the orphans found.                                                  *)
Job == [at : Call \cup {"done", "failed"}, page : Nat, index : SUBSET Thing, todo : SUBSET Thing,
        lb : Thing \cup {NoThing}, left : SUBSET Thing, found : SUBSET Thing]

NewJob == [at |-> "volumes", page |-> 1, index |-> {}, todo |-> {}, lb |-> NoThing, left |-> {}, found |-> {}]

(* What is in nobody's use, of the kinds the scan judges.                  *)
Stranded(account) ==
  {t \in account \ Unnamed : kind[t] \in OrphanKind /\ owners[t] \cap account = {}}

(* A report file, and the two things at its path that are no report.       *)
Report(t, entries) == [type |-> t, rows |-> entries]
Absent   == Report("absent", {})
TornFile == Report("torn", {})

ScanInit ==
  /\ present \in Accounts
  /\ absent = Thing \ present
  /\ kept = Stranded(present)
  /\ moves = 0 /\ faults = 0
  /\ pc = "scan"
  /\ minCost = FALSE /\ failOn = FALSE
  /\ job = [r \in Region |-> NewJob]
  /\ warned = {} /\ untold = {}
  /\ resources = {}
  /\ report = Absent
  /\ exit = 0

(* The account changes while the scan runs; nothing later reads it.        *)
Becomes(account) ==
  /\ pc = "scan" /\ moves < MaxMoves
  /\ moves' = moves + 1
  /\ present' = account
  /\ absent' = absent \cup (Thing \ account)
  /\ kept' = kept \cap Stranded(account)
  /\ UNCHANGED <<faults, command, job, warned, untold>>

Vanish == \E t \in present : Becomes(present \ {t})

Appear == \E things \in Creations : things \cap present = {} /\ Becomes(present \cup things)

-----------------------------------------------------------------------------
At(r, call) == pc = "scan" /\ job[r].at = call

Go(r, j) == job' = [job EXCEPT ![r] = j]

Leave(j, call) == [j EXCEPT !.at = call, !.page = 1]

(* The next page, or after the last one the next call.                     *)
Turn(j) ==
  IF j.page < Pages[j.at] THEN [j EXCEPT !.page = @ + 1] ELSE Leave(j, After(j.at))

Page(r) ==
  {t \in present : home[t] = r /\ kind[t] = KindOf[job[r].at] /\ page[t] = job[r].page}

Refused == faults < MaxFaults /\ faults' = faults + 1

Answered == UNCHANGED <<faults, warned>>

Warn(r, what) == Refused /\ warned' = warned \cup {<<r, what>>}

(* A call whose failure is the region's.                                   *)
RegionFails(r) == Refused /\ Go(r, Leave(job[r], "failed")) /\ UNCHANGED warned

(* Seeded fault: the page is skipped without a word.                        *)
ListPageSilently(r, call, orphans) ==
  /\ At(r, call)
  /\ \/ Answered /\ Go(r, Turn([job[r] EXCEPT !.found = @ \cup orphans]))
     \/ Refused /\ UNCHANGED warned /\ Go(r, Leave(job[r], After(call)))
  /\ UNCHANGED <<world, command, untold>>

(* A listing that keeps what it has read when a page fails.                *)
ListPage(r, call, orphans) ==
  /\ At(r, call)
  /\ \/ Answered /\ Go(r, Turn([job[r] EXCEPT !.found = @ \cup orphans]))
     \/ Warn(r, call) /\ Go(r, Leave(job[r], After(call)))
  /\ UNCHANGED <<world, command, untold>>

Unused(t) == owners[t] \cap present = {}

(* Whether a volume is available and an address associated is part of      *)
(* their own description.                                                  *)
OrphanDisks(r) == ListPage(r, "volumes", {t \in Page(r) : Unused(t)})

OrphanIPs(r) ==
  /\ At(r, "addresses")
  /\ \/ Answered /\ Go(r, Turn([job[r] EXCEPT !.found = @ \cup {t \in Page(r) : Unused(t)}]))
     \/ RegionFails(r)
  /\ UNCHANGED <<world, command, untold>>

-----------------------------------------------------------------------------
(* Load balancers and rules are probed one by one; with the last of a page *)
(* probed the next page is asked for.                                      *)
Probed(j) == IF j.todo = {} THEN Turn(j) ELSE j

ListToProbe(r, call) ==
  /\ At(r, call) /\ job[r].todo = {} /\ job[r].lb = NoThing
  /\ \/ Answered /\ Go(r, Probed([job[r] EXCEPT !.todo = Page(r)]))
     \/ Warn(r, call) /\ Go(r, Leave(job[r], After(call)))
  /\ UNCHANGED <<world, command, untold>>

LoadBalancers(r) == ListToProbe(r, "balancers")

(* lbHasNoTargets: the target groups of a load balancer ...                *)
TargetGroups(r) ==
  /\ At(r, "balancers") /\ job[r].lb = NoThing
  /\ \E lb \in job[r].todo :
       LET j == [job[r] EXCEPT !.todo = @ \ {lb}]
       IN  \/ /\ Answered
              /\ Go(r, IF owners[lb] = {} THEN Probed([j EXCEPT !.found = @ \cup {lb}])
                       ELSE [j EXCEPT !.lb = lb, !.left = owners[lb]])
           \/ Warn(r, lb) /\ Go(r, Probed(j))
  /\ UNCHANGED <<world, command, untold>>

(* Seeded fault: a group that could not be read is skipped, and the load    *)
(* balancer judged by the others.                                           *)
TargetHealthSkipping(r) ==
  /\ At(r, "balancers")
  /\ \E group \in job[r].left :
       LET j    == [job[r] EXCEPT !.lb = NoThing, !.left = {}]
           rest == job[r].left \ {group}
           on   == IF rest # {} THEN [job[r] EXCEPT !.left = rest] ELSE Probed([j EXCEPT !.found = @ \cup {job[r].lb}])
       IN  \/ Answered /\ Go(r, IF group \in present THEN Probed(j) ELSE on)
           \/ Warn(r, group) /\ Go(r, on)
  /\ UNCHANGED <<world, command, untold>>

(* ... and the health of each, until one has a target.  A group that       *)
(* cannot be read is not known to be empty: it ends the probe.             *)
TargetHealth(r) ==
  /\ At(r, "balancers")
  /\ \E group \in job[r].left :
       LET j    == [job[r] EXCEPT !.lb = NoThing, !.left = {}]
           rest == job[r].left \ {group}
       IN  \/ /\ Answered
              /\ Go(r, CASE group \in present -> Probed(j)
                         [] group \notin present /\ rest # {} -> [job[r] EXCEPT !.left = rest]
                         [] OTHER -> Probed([j EXCEPT !.found = @ \cup {job[r].lb}]))
           \/ Warn(r, job[r].lb) /\ Go(r, Probed(j))
  /\ UNCHANGED <<world, command, untold>>

-----------------------------------------------------------------------------
(* Seeded fault: a failing index is warned about like a listing.            *)
ReadIndexBestEffort(r, call, before) ==
  /\ At(r, call)
  /\ \/ Answered /\ Go(r, Turn([job[r] EXCEPT !.index = before \cup Page(r)]))
     \/ Warn(r, call) /\ Go(r, Leave([job[r] EXCEPT !.index = before], After(call)))
  /\ UNCHANGED <<world, command, untold>>

(* An index of live things, page by page; before is what is in it already. *)
(* A failing page sinks the region: an empty live set would make           *)
(* everything look stranded.                                               *)
ReadIndex(r, call, before) ==
  /\ At(r, call)
  /\ \/ Answered /\ Go(r, Turn([job[r] EXCEPT !.index = before \cup Page(r)]))
     \/ RegionFails(r)
  /\ UNCHANGED <<world, command, untold>>

FirstPage(r) == job[r].page = 1

(* The residue of a page whose owners the index does not hold.             *)
Ownerless(r) == {t \in Page(r) \ Unnamed : owners[t] \cap job[r].index = {}}

(* orphanSnapshots: the images and the snapshots behind them first.        *)
SelfAMIIndex(r)    == ReadIndex(r, "amis", {})
OrphanSnapshots(r) == ListPage(r, "snapshots", Ownerless(r))

(* orphanImages: here the listing comes first, and the index of what the   *)
(* instances use only if there was an image.                               *)
Images(r) ==
  /\ At(r, "images")
  /\ \/ /\ Answered
        /\ Go(r, IF Page(r) = {} THEN Leave(job[r], "databases") ELSE Turn([job[r] EXCEPT !.todo = Page(r)]))
     \/ RegionFails(r)
  /\ UNCHANGED <<world, command, untold>>

OrphanImages(r) ==
  /\ At(r, "instances")
  /\ \/ LET inUse == (IF FirstPage(r) THEN {} ELSE job[r].index) \cup Page(r)
            last  == job[r].page = Pages["instances"]
        IN  /\ Answered
            /\ Go(r, Turn([job[r] EXCEPT !.index = inUse,
                                         !.todo  = IF last THEN {} ELSE @,
                                         !.found = IF last THEN @ \cup {t \in job[r].todo : owners[t] \cap inUse = {}} ELSE @]))
     \/ RegionFails(r)
  /\ UNCHANGED <<world, command, untold>>

(* orphanDBSnapshots: the databases, the database clusters, the manual     *)
(* snapshots of both.                                                      *)
LiveDatabaseIndex(r) ==
  \/ ReadIndex(r, "databases", IF FirstPage(r) THEN {} ELSE job[r].index)
  \/ ReadIndex(r, "dbclusters", job[r].index)

StrandedInstanceSnapshots(r) == ListPage(r, "dbsnapshots", Ownerless(r))
StrandedClusterSnapshots(r)  == ListPage(r, "clustersnapshots", Ownerless(r))

(* orphanClusterResidue: without the live clusters there is no residue     *)
(* scan.                                                                   *)
LiveEKSClusters(r) ==
  /\ At(r, "clusters")
  /\ \/ Answered /\ Go(r, Turn([job[r] EXCEPT !.index = (IF FirstPage(r) THEN {} ELSE @) \cup Page(r)]))
     \/ Warn(r, "clusters") /\ Go(r, Leave(job[r], "done"))
  /\ UNCHANGED <<world, command, untold>>

OrphanEKSLogGroups(r)    == ListPage(r, "loggroups", Ownerless(r))
OrphanKarpenterQueues(r) == ListPage(r, "queues", Ownerless(r))
KarpenterRules(r)        == ListToProbe(r, "rules")

(* The tags of one rule.  A rule without a ClusterName is debris, and so   *)
(* is one whose tags could not be read: ruleClusterName answers both alike *)
(* and warns of neither.                                                   *)
RuleClusterName(r) ==
  /\ At(r, "rules")
  /\ \E rule \in job[r].todo :
       LET j       == [job[r] EXCEPT !.todo = @ \ {rule}]
           flagged == Probed([j EXCEPT !.found = @ \cup {rule}])
       IN  \/ /\ Answered /\ UNCHANGED untold
              /\ Go(r, IF owners[rule] \cap job[r].index # {} THEN Probed(j) ELSE flagged)
           \/ /\ Refused /\ untold' = untold \cup {rule} /\ UNCHANGED warned
              /\ Go(r, flagged)
  /\ UNCHANGED <<world, command>>

RegionScan(r) ==
  \/ OrphanDisks(r) \/ OrphanIPs(r)
  \/ LoadBalancers(r) \/ TargetGroups(r) \/ TargetHealth(r)
  \/ SelfAMIIndex(r) \/ OrphanSnapshots(r)
  \/ Images(r) \/ OrphanImages(r)
  \/ LiveDatabaseIndex(r) \/ StrandedInstanceSnapshots(r) \/ StrandedClusterSnapshots(r)
  \/ LiveEKSClusters(r) \/ OrphanEKSLogGroups(r) \/ OrphanKarpenterQueues(r)
  \/ KarpenterRules(r) \/ RuleClusterName(r)

-----------------------------------------------------------------------------
Failed == {r \in Region : job[r].at = "failed"}

(* Seeded fault: the cost filter hides the residue, which costs nothing.    *)
ReportableByCost(t, threshold) == threshold => t \notin Cheap

(* orphans.Scan: residue is a conflict and not a cost, and no threshold    *)
(* hides it.                                                               *)
Reportable(t, threshold) == kind[t] \in Residue \/ (threshold => t \notin Cheap)

(* The command ends, and with it all it knew.  Nothing later reads the     *)
(* account, so the model forgets it too.                                   *)
EndScan(code) ==
  /\ pc' = "over" /\ exit' = code
  /\ job' = [r \in Region |-> NewJob]
  /\ warned' = {} /\ untold' = {} /\ resources' = {}
  /\ minCost' = FALSE /\ failOn' = FALSE
  /\ present' = {} /\ absent' = {} /\ kept' = {} /\ moves' = 0

(* ListOrphans' fold over the regions - a failed one takes all it had      *)
(* found with it - and the filter.                                         *)
Scanned ==
  /\ pc = "scan" /\ \A r \in Region : job[r].at \in {"done", "failed"}
  /\ \/ Failed = Region /\ EndScan(1)
     \/ /\ Failed # Region /\ pc' = "gate"
        /\ warned' = warned \cup {<<r, "failed">> : r \in Failed}
        /\ minCost' \in BOOLEAN
        /\ resources' = {t \in UNION {job[r].found : r \in Region \ Failed} : Reportable(t, minCost')}
        /\ UNCHANGED <<world, failOn, job, untold, exit>>
  /\ UNCHANGED <<faults, report>>

(* Seeded fault: the gate looks at what was found.                          *)
GateFindings ==
  /\ pc = "gate"
  /\ failOn' \in BOOLEAN
  /\ exit' = IF failOn' /\ resources # {} THEN 2 ELSE 0
  /\ pc' = "create"
  /\ UNCHANGED <<world, faults, minCost, job, warned, untold, resources, report>>

(* Orphans have no severity: only what was not read moves the exit code.   *)
GateIncomplete ==
  /\ pc = "gate"
  /\ failOn' \in BOOLEAN
  /\ exit' = IF failOn' /\ warned # {} THEN 3 ELSE 0
  /\ pc' = "create"
  /\ UNCHANGED <<world, faults, minCost, job, warned, untold, resources, report>>

CreateReport ==
  /\ pc = "create"
  /\ \/ /\ pc' = "write" /\ report' = TornFile
        /\ UNCHANGED <<world, faults, minCost, failOn, resources, exit, job, warned, untold>>
     \/ Refused /\ EndScan(1) /\ UNCHANGED report

(* A row of the report.  Every orphan the reader finds has an id and, a    *)
(* rule too, a name: there is a command that deletes it.                   *)
Row(t) == [provider |-> "aws", what |-> t, runnable |-> {"orphans"}, severity |-> ""]

(* WriteOrphans; a process killed here leaves a torn file.                 *)
WriteReport ==
  /\ pc = "write"
  /\ \/ EndScan(exit) /\ report' = Report("orphans", {Row(t) : t \in resources}) /\ UNCHANGED faults
     \/ Refused /\ EndScan(1) /\ UNCHANGED report

RunOrphans == (\E r \in Region : RegionScan(r)) \/ Scanned \/ GateIncomplete \/ CreateReport \/ WriteReport

ScanNext == Vanish \/ Appear \/ RunOrphans
=============================================================================
