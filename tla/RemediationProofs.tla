-------------------------- MODULE RemediationProofs --------------------------
(***************************************************************************)
(* Theorems about OrphanScan and Remediation for any account and any way   *)
(* it changes, any regions, pages and failures, any report and any output  *)
(* directory.                                                              *)
(***************************************************************************)
EXTENDS Remediation, WellFoundedInduction, TLAPS

-----------------------------------------------------------------------------
(* The calls of a region, and the jobs they make.                          *)

(* The order of the calls.                                                 *)
LEMMA Order ==
  /\ After("volumes") = "addresses" /\ After("addresses") = "balancers" /\ After("balancers") = "amis"
  /\ After("amis") = "snapshots" /\ After("snapshots") = "images" /\ After("images") = "instances"
  /\ After("instances") = "databases" /\ After("databases") = "dbclusters" /\ After("dbclusters") = "dbsnapshots"
  /\ After("dbsnapshots") = "clustersnapshots" /\ After("clustersnapshots") = "clusters"
  /\ After("clusters") = "loggroups" /\ After("loggroups") = "queues" /\ After("queues") = "rules"
  /\ After("rules") = "done"
<1>1. \A i, j \in 1 .. 15 : Calls[i] = Calls[j] => i = j
    BY DEF Calls
<1>2. DOMAIN Calls = 1 .. 15
    BY DEF Calls
<1>3. /\ Calls[1] = "volumes" /\ Calls[2] = "addresses" /\ Calls[3] = "balancers" /\ Calls[4] = "amis"
      /\ Calls[5] = "snapshots" /\ Calls[6] = "images" /\ Calls[7] = "instances" /\ Calls[8] = "databases"
      /\ Calls[9] = "dbclusters" /\ Calls[10] = "dbsnapshots" /\ Calls[11] = "clustersnapshots"
      /\ Calls[12] = "clusters" /\ Calls[13] = "loggroups" /\ Calls[14] = "queues" /\ Calls[15] = "rules"
    BY DEF Calls
<1>4. \A i \in 1 .. 15 : Calls[i] # "rules" => After(Calls[i]) = Calls[1 + i]
    BY <1>1, <1>2 DEF After
<1>5. After("rules") = "done"
    BY DEF After
<1> QED BY <1>3, <1>4, <1>5

LEMMA CallSet ==
  Call = {"volumes", "addresses", "balancers", "amis", "snapshots", "images", "instances", "databases", "dbclusters",
          "dbsnapshots", "clustersnapshots", "clusters", "loggroups", "queues", "rules"}
  BY DEF Call, KindOf

(* What can become of a job when a call is done with.                      *)
LEMMA LeaveFacts ==
  ASSUME NEW j \in Job, NEW call \in Call \cup {"done", "failed"}
  PROVE  /\ Leave(j, call) \in Job
         /\ Leave(j, call).at = call /\ Leave(j, call).page = 1
         /\ Leave(j, call).index = j.index /\ Leave(j, call).todo = j.todo /\ Leave(j, call).lb = j.lb
         /\ Leave(j, call).left = j.left /\ Leave(j, call).found = j.found
  BY DEF Job, Leave

LEMMA TurnFacts ==
  ASSUME NEW j \in Job, j.at \in Call
  PROVE  /\ Turn(j) \in Job
         /\ Turn(j).index = j.index /\ Turn(j).todo = j.todo /\ Turn(j).lb = j.lb
         /\ Turn(j).left = j.left /\ Turn(j).found = j.found
         /\ j.page < Pages[j.at] => Turn(j).at = j.at /\ Turn(j).page = j.page + 1
         /\ ~(j.page < Pages[j.at]) => Turn(j).at = After(j.at) /\ Turn(j).page = 1
<1>1. After(j.at) \in Call \cup {"done", "failed"}
    BY Order, CallSet
<1>2. CASE j.page < Pages[j.at]
    BY <1>2 DEF Turn, Job
<1>3. CASE ~(j.page < Pages[j.at])
    BY <1>1, <1>3, LeaveFacts DEF Turn
<1> QED BY <1>2, <1>3

-----------------------------------------------------------------------------
(* The invariant of a region's scan.                                       *)

(* Things wait to be probed only where they are probed, and a load         *)
(* balancer is being probed as long as it has target groups left.          *)
Shape(r, j) ==
  /\ j.page >= 1 /\ (j.at \in Call => j.page <= Pages[j.at])
  /\ j.todo # {} => j.at \in {"balancers", "instances", "rules", "failed"}
  /\ j.lb # NoThing => j.at = "balancers"
  /\ j.lb # NoThing <=> j.left # {}
  /\ j.at = "instances" => \A t \in j.todo : home[t] = r /\ kind[t] = "image"
  /\ j.at = "rules" => \A t \in j.todo : home[t] = r /\ kind[t] = "karpenter_rule"

(* Of what a call lists up to a page, the index holds whatever was there   *)
(* throughout.                                                             *)
Read(r, call, n, index, gone) ==
  \A o \in Thing : (home[o] = r /\ kind[o] = KindOf[call] /\ page[o] < n) => o \in index \cup gone

All(r, call, index, gone) ==
  \A o \in Thing : (home[o] = r /\ kind[o] = KindOf[call]) => o \in index \cup gone

IndexCall == {"amis", "instances", "databases", "dbclusters", "clusters"}

Indexed(r, j, gone) ==
  /\ j.at \in IndexCall => Read(r, j.at, j.page, j.index, gone)
  /\ j.at = "snapshots" => All(r, "amis", j.index, gone)
  /\ j.at \in {"dbclusters", "dbsnapshots", "clustersnapshots"} => All(r, "databases", j.index, gone)
  /\ j.at \in {"dbsnapshots", "clustersnapshots"} => All(r, "dbclusters", j.index, gone)
  /\ j.at \in {"loggroups", "queues", "rules"} => All(r, "clusters", j.index, gone)

(* What used an orphan was gone at some moment, and so were the target     *)
(* groups that were found empty.                                           *)
Judged(j, gone, unread) ==
  /\ \A t \in j.found \ unread : owners[t] \subseteq gone
  /\ j.lb # NoThing => j.left \subseteq owners[j.lb] /\ owners[j.lb] \ j.left \subseteq gone

Sound(r, j, gone, unread) ==
  j \in Job /\ Shape(r, j) /\ Indexed(r, j, gone) /\ Judged(j, gone, unread)

(* The call that lists the orphans of a kind, and when it is behind the    *)
(* scan.                                                                   *)
Listing ==
  [disk |-> "volumes", ip |-> "addresses", load_balancer |-> "balancers", snapshot |-> "snapshots", image |-> "images",
   db_snapshot |-> "dbsnapshots", db_cluster_snapshot |-> "clustersnapshots",
   eks_log_group |-> "loggroups", karpenter_queue |-> "queues", karpenter_rule |-> "rules"]

Position ==
  [volumes |-> 1, addresses |-> 2, balancers |-> 3, amis |-> 4, snapshots |-> 5, images |-> 6, instances |-> 7,
   databases |-> 8, dbclusters |-> 9, dbsnapshots |-> 10, clustersnapshots |-> 11, clusters |-> 12,
   loggroups |-> 13, queues |-> 14, rules |-> 15, done |-> 16]

Behind(t, j) ==
  LET call == Listing[kind[t]]
  IN  \/ Position[call] < Position[j.at]
      \/ j.at = call /\ (page[t] < j.page \/ (page[t] = j.page /\ (j.todo # {} \/ j.lb # NoThing)))

(* What stayed an orphan and is behind the scan has been found, or is      *)
(* about to be.                                                            *)
Whole(r, j, orphans) ==
  j.at # "failed" => \A t \in orphans : (home[t] = r /\ Behind(t, j)) => t \in j.found \cup j.todo \cup {j.lb}

(* Nothing in the index uses it.                                           *)
Clean(j, orphans) == \A t \in orphans : owners[t] \cap j.index = {}

(* The constants, as the leaves need them.                                 *)
LEMMA Constants ==
  /\ NoThing \notin Thing
  /\ \A t \in Thing : home[t] \in Region /\ owners[t] \subseteq Thing /\ page[t] \in Nat /\ page[t] >= 1
  /\ \A t \in Thing, o \in Thing :
       o \in owners[t] => home[o] = home[t] /\ (kind[t] \in OrphanKind => kind[o] = UserKind[kind[t]])
  /\ \A call \in Call : Pages[call] \in Nat /\ Pages[call] >= 1
  /\ Pages["addresses"] = 1 /\ Pages["amis"] = 1 /\ Pages["images"] = 1
  /\ \A t \in Thing, call \in Call : kind[t] = KindOf[call] => page[t] <= Pages[call]
  /\ MaxMoves \in Nat /\ MaxFaults \in Nat
<1>1. /\ NoThing \notin Thing /\ MaxMoves \in Nat /\ MaxFaults \in Nat
      /\ \A t \in Thing, call \in Call : kind[t] = KindOf[call] => page[t] <= Pages[call]
      /\ Pages["addresses"] = 1 /\ Pages["amis"] = 1 /\ Pages["images"] = 1
    BY OrphanAssumption
<1>2. \A t \in Thing : home[t] \in Region /\ owners[t] \subseteq Thing /\ page[t] \in Nat \ {0}
    BY OrphanAssumption
<1>3. \A t \in Thing, o \in Thing :
        o \in owners[t] => home[o] = home[t] /\ (kind[t] \in OrphanKind => kind[o] = UserKind[kind[t]])
    BY OrphanAssumption
<1>4. \A call \in Call : Pages[call] \in Nat \ {0}
    BY OrphanAssumption
<1> QED BY <1>1, <1>2, <1>3, <1>4

LEMMA Kinds ==
  /\ \A k \in OrphanKind : Listing[k] \in Call /\ KindOf[Listing[k]] = k /\ Position[Listing[k]] \in 1 .. 15
  /\ \A c, d \in Call : Position[c] = Position[d] => c = d
  /\ \A c \in Call : Position[c] \in 1 .. 15 /\ Position[After(c)] = Position[c] + 1
<1>1. \A k \in OrphanKind : Listing[k] \in Call /\ KindOf[Listing[k]] = k /\ Position[Listing[k]] \in 1 .. 15
    BY DEF OrphanKind, Residue, Listing, Position, Call, KindOf
<1>2. \A c, d \in Call : Position[c] = Position[d] => c = d
    BY CallSet DEF Position
<1>3. \A c \in Call : Position[c] \in 1 .. 15 /\ Position[After(c)] = Position[c] + 1
    BY CallSet, Order DEF Position
<1> QED BY <1>1, <1>2, <1>3

(* With nothing left to probe, the next page keeps a job in shape.         *)
LEMMA TurnShape ==
  ASSUME NEW r \in Region, NEW j \in Job, Shape(r, j), j.at \in Call, j.todo = {}, j.lb = NoThing
  PROVE  Shape(r, Turn(j)) /\ Shape(r, Leave(j, After(j.at)))
<1>1. After(j.at) \in Call \cup {"done"}
    BY Order, CallSet
<1>2. Shape(r, Leave(j, After(j.at)))
    BY <1>1, LeaveFacts, Constants DEF Shape
<1>3. CASE j.page < Pages[j.at]
  <2>1. Turn(j).at = j.at /\ Turn(j).page = j.page + 1 /\ Turn(j).todo = {} /\ Turn(j).lb = NoThing /\ Turn(j).left = j.left
      BY <1>3, TurnFacts
  <2>2. Pages[j.at] \in Nat /\ j.page \in Nat
      BY Constants DEF Job
  <2> QED BY <1>2, <1>3, <2>1, <2>2 DEF Shape
<1>4. CASE ~(j.page < Pages[j.at])
    BY <1>2, <1>4 DEF Turn
<1> QED BY <1>2, <1>3, <1>4

(* A call that reads no index leaves what is known of it.                  *)
LEMMA TurnIndexed ==
  ASSUME NEW r \in Region, NEW j \in Job, NEW gone, Shape(r, j), Indexed(r, j, gone),
         j.at \in Call \ IndexCall
  PROVE  Indexed(r, Turn(j), gone) /\ Indexed(r, Leave(j, After(j.at)), gone)
<1>1. Indexed(r, Leave(j, After(j.at)), gone)
  <2>1. \A call : Read(r, call, 1, j.index, gone)
      BY Constants DEF Read
  <2> QED BY <2>1, Order, CallSet, LeaveFacts DEF Indexed, IndexCall
<1>2. CASE j.page < Pages[j.at]
  <2>1. Turn(j).at = j.at /\ Turn(j).index = j.index
      BY <1>2, TurnFacts
  <2> QED BY <1>1, <2>1 DEF Indexed
<1>3. CASE ~(j.page < Pages[j.at])
    BY <1>1, <1>3 DEF Turn
<1> QED BY <1>1, <1>2, <1>3

(* What is behind the next page was behind this one or on it.              *)
LEMMA TurnBehind ==
  ASSUME NEW r \in Region, NEW j \in Job, Shape(r, j), j.at \in Call, j.todo = {}, j.lb = NoThing,
         NEW t \in Thing, kind[t] \in OrphanKind, Behind(t, Turn(j))
  PROVE  Behind(t, j) \/ (Listing[kind[t]] = j.at /\ page[t] = j.page)
<1> DEFINE call == Listing[kind[t]]
<1>1. call \in Call /\ KindOf[call] = kind[t] /\ Position[call] \in Nat /\ page[t] \in Nat /\ page[t] <= Pages[call]
    BY Kinds, Constants
<1>2. j.page \in Nat /\ Position[j.at] \in Nat /\ Pages[j.at] \in Nat
    BY Kinds, Constants DEF Job
<1>3. CASE j.page < Pages[j.at]
    BY <1>1, <1>2, <1>3, TurnFacts DEF Behind
<1>4. CASE ~(j.page < Pages[j.at])
  <2>1. Turn(j).at = After(j.at) /\ Turn(j).page = 1 /\ Turn(j).todo = {} /\ Turn(j).lb = NoThing
      BY <1>4, TurnFacts
  <2>2. Position[call] < Position[After(j.at)]
      BY <2>1, Constants DEF Behind
  <2>3. CASE Position[call] < Position[j.at]
      BY <2>3 DEF Behind
  <2>4. CASE Position[call] = Position[j.at]
    <3>1. call = j.at
        BY <2>4, <1>1, Kinds
    <3> QED BY <3>1, <1>1, <1>2, <1>4 DEF Behind, Shape
  <2> QED BY <2>2, <2>3, <2>4, <1>1, <1>2, Kinds
<1> QED BY <1>3, <1>4

-----------------------------------------------------------------------------
(* The invariant of the scan.                                              *)

Warning == Region \X (Call \cup Thing \cup {"failed"})

ScanTypes ==
  /\ present \subseteq Thing /\ absent \subseteq Thing /\ kept \subseteq Thing
  /\ moves \in 0 .. MaxMoves /\ faults \in 0 .. MaxFaults
  /\ pc \in {"scan", "gate", "create", "write", "over"} /\ exit \in {0, 1, 3}
  /\ minCost \in BOOLEAN /\ failOn \in BOOLEAN
  /\ job \in [Region -> Job]
  /\ warned \subseteq Warning /\ untold \subseteq Thing
  /\ resources \subseteq Thing

(* What is not there has been absent, and what is kept is stranded.        *)
WorldOK == pc = "scan" => Thing \ present \subseteq absent /\ kept \subseteq Stranded(present)

JobsOK ==
  /\ \A r \in Region : Sound(r, job[r], absent, untold)
  /\ \A r \in Region : Clean(job[r], kept)
  /\ warned = {} => \A r \in Region : Whole(r, job[r], kept)

(* Without a warning the result is all that was kept, and a gate that saw  *)
(* one does not exit 0.                                                    *)
ResultOK ==
  /\ (pc \in {"gate", "create", "write"} /\ warned = {}) =>
       \A t \in kept : kind[t] \in Residue \/ ~minCost \/ t \notin Cheap => t \in resources
  /\ (pc \in {"create", "write"} /\ failOn /\ exit = 0) => warned = {}

SInv == ScanTypes /\ WorldOK /\ JobsOK /\ ResultOK

(* One region's job becomes j.                                             *)
Step(r, j) ==
  /\ Go(r, j) /\ UNCHANGED <<world, command>>
  /\ Sound(r, j, absent, untold') /\ Clean(j, kept)
  /\ warned' = {} => Whole(r, j, kept)
  /\ untold \subseteq untold' /\ untold' \subseteq Thing
  /\ warned \subseteq warned' /\ warned' \subseteq Warning
  /\ faults' \in 0 .. MaxFaults

(* Knowing of more that was gone, or of more that was not read, does no    *)
(* harm.                                                                   *)
LEMMA SoundLater ==
  ASSUME NEW r, NEW j, NEW g, NEW h, NEW u, NEW v, Sound(r, j, g, u), g \subseteq h, u \subseteq v
  PROVE  Sound(r, j, h, v)
<1>1. Indexed(r, j, h)
    BY DEF Sound, Indexed, Read, All
<1>2. Judged(j, h, v)
    BY DEF Sound, Judged
<1> QED BY <1>1, <1>2 DEF Sound

LEMMA StepInv ==
  ASSUME SInv, pc = "scan", NEW r \in Region, NEW j, Step(r, j)
  PROVE  SInv'
<1>1. /\ job' \in [Region -> Job] /\ job'[r] = j
      /\ \A q \in Region : q # r => job'[q] = job[q]
    BY DEF SInv, ScanTypes, Step, Go, Sound
<1>2. ScanTypes'
    BY <1>1 DEF SInv, ScanTypes, Step, world, command, Warning
<1>3. WorldOK'
    BY DEF SInv, WorldOK, Step, world, command, Stranded
<1>4. JobsOK'
  <2>1. \A q \in Region : Sound(q, job'[q], absent, untold')
      BY <1>1, SoundLater DEF SInv, JobsOK, Step
  <2>2. \A q \in Region : Clean(job'[q], kept)
      BY <1>1 DEF SInv, JobsOK, Step
  <2>3. warned' = {} => \A q \in Region : Whole(q, job'[q], kept)
      BY <1>1 DEF SInv, JobsOK, Step
  <2>4. absent' = absent /\ kept' = kept
      BY DEF Step, world
  <2> QED BY <2>1, <2>2, <2>3, <2>4 DEF JobsOK
<1>5. ResultOK'
    BY DEF SInv, ResultOK, Step, world, command
<1> QED BY <1>2, <1>3, <1>4, <1>5 DEF SInv

LEMMA WarnType ==
  ASSUME SInv, NEW r \in Region, NEW what \in Call \cup Thing, Warn(r, what)
  PROVE  faults' \in 0 .. MaxFaults /\ warned' # {} /\ warned \subseteq warned' /\ warned' \subseteq Warning
<1>1. faults' \in 0 .. MaxFaults
    BY Constants DEF Warn, Refused, SInv, ScanTypes
<1>2. <<r, what>> \in Warning
    BY DEF Warning
<1> QED BY <1>1, <1>2 DEF Warn, SInv, ScanTypes

(* The region's scan is given up.                                          *)
LEMMA FailStep ==
  ASSUME SInv, NEW r \in Region, NEW call \in {"addresses", "images", "instances", "amis", "databases", "dbclusters"},
         At(r, call), RegionFails(r), UNCHANGED <<world, command, untold>>
  PROVE  SInv'
<1> DEFINE j == Leave(job[r], "failed")
<1>1. job[r] \in Job /\ Sound(r, job[r], absent, untold) /\ Clean(job[r], kept)
    BY DEF SInv, ScanTypes, JobsOK
<1>2. j \in Job /\ j.at = "failed" /\ j.page = 1 /\ j.index = job[r].index /\ j.todo = job[r].todo
      /\ j.lb = job[r].lb /\ j.left = job[r].left /\ j.found = job[r].found
    BY <1>1, LeaveFacts
<1>3. job[r].lb = NoThing
    BY <1>1 DEF Sound, Shape, At
<1>4. Shape(r, j)
    BY <1>1, <1>2, <1>3, CallSet DEF Sound, Shape
<1>5. Indexed(r, j, absent)
    BY <1>2 DEF Indexed, IndexCall
<1>6. Judged(j, absent, untold)
    BY <1>1, <1>2 DEF Sound, Judged
<1>7. faults' \in 0 .. MaxFaults
    BY Constants DEF RegionFails, Refused, SInv, ScanTypes
<1>8. Step(r, j)
    BY <1>1, <1>2, <1>4, <1>5, <1>6, <1>7 DEF Step, Sound, Clean, Whole, RegionFails, SInv, ScanTypes
<1> HIDE DEF j
<1> QED BY <1>8, StepInv DEF At

(* A listing is cut short, with a warning.                                 *)
LEMMA WarnStep ==
  ASSUME SInv, NEW r \in Region, NEW call \in Call \ IndexCall, At(r, call),
         job[r].todo = {}, job[r].lb = NoThing, Warn(r, call), Go(r, Leave(job[r], After(call))),
         UNCHANGED <<world, command, untold>>
  PROVE  SInv'
<1> DEFINE j == Leave(job[r], After(call))
<1>1. job[r] \in Job /\ Sound(r, job[r], absent, untold) /\ Clean(job[r], kept)
    BY DEF SInv, ScanTypes, JobsOK
<1>2. Shape(r, j) /\ Indexed(r, j, absent)
    BY <1>1, TurnShape, TurnIndexed DEF Sound, At
<1>3. j \in Job /\ j.index = job[r].index /\ j.lb = job[r].lb /\ j.left = job[r].left /\ j.found = job[r].found
    BY <1>1, LeaveFacts, Order, CallSet
<1>4. Judged(j, absent, untold) /\ Clean(j, kept)
    BY <1>1, <1>3 DEF Sound, Judged, Clean
<1>5. faults' \in 0 .. MaxFaults /\ warned' # {} /\ warned \subseteq warned' /\ warned' \subseteq Warning
    BY WarnType
<1>6. Step(r, j)
    BY <1>2, <1>3, <1>4, <1>5 DEF Step, Sound, SInv, ScanTypes
<1> HIDE DEF j
<1> QED BY <1>6, StepInv DEF At

(* A page is read, and the orphans on it are found.                        *)
LEMMA FoundStep ==
  ASSUME SInv, NEW r \in Region, NEW call \in Call \ IndexCall, At(r, call),
         job[r].todo = {}, job[r].lb = NoThing, NEW new \in SUBSET Thing,
         \A t \in new : owners[t] \subseteq absent,
         \A t \in kept : (home[t] = r /\ kind[t] = KindOf[call] /\ page[t] = job[r].page) => t \in new,
         Answered, Go(r, Turn([job[r] EXCEPT !.found = @ \cup new])), UNCHANGED <<world, command, untold>>
  PROVE  SInv'
<1> DEFINE i == [job[r] EXCEPT !.found = @ \cup new]
<1> DEFINE j == Turn(i)
<1>1. job[r] \in Job /\ Sound(r, job[r], absent, untold) /\ Clean(job[r], kept)
    BY DEF SInv, ScanTypes, JobsOK
<1>2. i \in Job /\ i.at = call /\ i.page = job[r].page /\ i.index = job[r].index /\ i.todo = {} /\ i.lb = NoThing
      /\ i.left = job[r].left /\ i.found = job[r].found \cup new
    BY <1>1 DEF Job, At
<1>3. Shape(r, i) /\ Indexed(r, i, absent)
    BY <1>1, <1>2 DEF Sound, Shape, Indexed, At
<1>4. Shape(r, j) /\ Indexed(r, j, absent)
    BY <1>2, <1>3, TurnShape, TurnIndexed
<1>5. j \in Job /\ j.index = job[r].index /\ j.lb = NoThing /\ j.found = job[r].found \cup new
    BY <1>2, TurnFacts
<1>6. Judged(j, absent, untold) /\ Clean(j, kept)
    BY <1>1, <1>5 DEF Sound, Judged, Clean
<1>7. ASSUME warned = {} PROVE Whole(r, j, kept)
  <2> SUFFICES ASSUME NEW t \in kept, home[t] = r, Behind(t, j) PROVE t \in j.found
      BY DEF Whole
  <2>1. t \in Thing /\ kind[t] \in OrphanKind
      BY DEF SInv, ScanTypes, WorldOK, Stranded, At
  <2>2. Behind(t, i) \/ (kind[t] = KindOf[call] /\ page[t] = job[r].page)
      BY <1>2, <1>3, <2>1, TurnBehind, Kinds
  <2>3. Behind(t, i) => Behind(t, job[r])
      BY <1>2 DEF Behind, At
  <2>4. Behind(t, job[r]) => t \in job[r].found
      BY <1>7, <2>1, Constants DEF SInv, JobsOK, Whole, At, Call, KindOf
  <2> QED BY <2>2, <2>3, <2>4, <1>5
<1>8. Step(r, j)
    BY <1>4, <1>5, <1>6, <1>7 DEF Step, Sound, SInv, ScanTypes, Answered
<1> HIDE DEF j
<1> QED BY <1>8, StepInv DEF At

LEMMA ListPageStep ==
  ASSUME SInv, NEW r \in Region, NEW call \in Call \ (IndexCall \cup {"balancers", "rules"}),
         NEW new \in SUBSET Thing,
         \A t \in new : owners[t] \subseteq absent,
         \A t \in kept : (home[t] = r /\ kind[t] = KindOf[call] /\ page[t] = job[r].page) => t \in new,
         ListPage(r, call, new)
  PROVE  SInv'
<1>1. job[r].todo = {} /\ job[r].lb = NoThing
    BY CallSet DEF SInv, JobsOK, Sound, Shape, ListPage, At, IndexCall
<1>2. CASE Answered /\ Go(r, Turn([job[r] EXCEPT !.found = @ \cup new]))
    BY <1>1, <1>2, FoundStep DEF ListPage
<1>3. CASE Warn(r, call) /\ Go(r, Leave(job[r], After(call)))
    BY <1>1, <1>3, WarnStep DEF ListPage
<1> QED BY <1>2, <1>3 DEF ListPage

(* What is not in use now is judged rightly now.                           *)
LEMMA UnusedRightly ==
  ASSUME SInv, NEW r \in Region, pc = "scan", NEW new, new = {t \in Page(r) : Unused(t)}
  PROVE  /\ new \in SUBSET Thing /\ \A t \in new : owners[t] \subseteq absent
         /\ \A t \in kept : (home[t] = r /\ kind[t] = KindOf[job[r].at] /\ page[t] = job[r].page) => t \in new
  BY Constants DEF SInv, ScanTypes, WorldOK, Stranded, Page, Unused

LEMMA DisksStep == ASSUME SInv, NEW r \in Region, OrphanDisks(r) PROVE SInv'
<1>1. PICK new : new = {t \in Page(r) : Unused(t)}
    OBVIOUS
<1>2. pc = "scan" /\ job[r].at = "volumes"
    BY DEF OrphanDisks, ListPage, At
<1>3. ListPage(r, "volumes", new)
    BY <1>1 DEF OrphanDisks
<1>4. /\ new \in SUBSET Thing /\ \A t \in new : owners[t] \subseteq absent
      /\ \A t \in kept : (home[t] = r /\ kind[t] = KindOf["volumes"] /\ page[t] = job[r].page) => t \in new
    BY <1>1, <1>2, UnusedRightly
<1>5. "volumes" \in Call \ (IndexCall \cup {"balancers", "rules"})
    BY CallSet DEF IndexCall
<1> QED BY <1>3, <1>4, <1>5, ListPageStep

LEMMA IPsStep == ASSUME SInv, NEW r \in Region, OrphanIPs(r) PROVE SInv'
<1>1. PICK new : new = {t \in Page(r) : Unused(t)}
    OBVIOUS
<1>2. At(r, "addresses") /\ pc = "scan" /\ job[r].at = "addresses" /\ UNCHANGED <<world, command, untold>>
    BY DEF OrphanIPs, At
<1>3. job[r].todo = {} /\ job[r].lb = NoThing
    BY <1>2, CallSet DEF SInv, JobsOK, Sound, Shape
<1>4. CASE Answered /\ Go(r, Turn([job[r] EXCEPT !.found = @ \cup new]))
  <2>1. /\ new \in SUBSET Thing /\ \A t \in new : owners[t] \subseteq absent
        /\ \A t \in kept : (home[t] = r /\ kind[t] = KindOf["addresses"] /\ page[t] = job[r].page) => t \in new
      BY <1>1, <1>2, UnusedRightly
  <2>2. "addresses" \in Call \ IndexCall
      BY CallSet DEF IndexCall
  <2> QED BY <1>2, <1>3, <1>4, <2>1, <2>2, FoundStep
<1>5. CASE RegionFails(r)
    BY <1>2, <1>5, FailStep
<1> QED BY <1>1, <1>4, <1>5 DEF OrphanIPs

(* What uses an orphan, by the index of its kind.                          *)
LEMMA Users ==
  ASSUME NEW r \in Region, NEW t \in Thing, home[t] = r, kind[t] \in OrphanKind
  PROVE  \A o \in owners[t] : o \in Thing /\ home[o] = r /\ kind[o] = UserKind[kind[t]]
  BY Constants

(* What the index of its users does not know is judged rightly.            *)
LEMMA OwnerlessRightly ==
  ASSUME SInv, NEW r \in Region, NEW call \in {"snapshots", "dbsnapshots", "clustersnapshots", "loggroups", "queues"},
         At(r, call), NEW new, new = Ownerless(r)
  PROVE  /\ new \in SUBSET Thing /\ \A t \in new : owners[t] \subseteq absent
         /\ \A t \in kept : (home[t] = r /\ kind[t] = KindOf[call] /\ page[t] = job[r].page) => t \in new
<1>1. new \in SUBSET Thing
    BY DEF SInv, ScanTypes, Ownerless, Page
<1>2. ASSUME NEW t \in new, NEW o \in owners[t] PROVE o \in absent
  <2>1. t \in Thing /\ home[t] = r /\ kind[t] = KindOf[call] /\ o \notin job[r].index
      BY <1>1, <1>2 DEF Ownerless, Page, At
  <2>2. kind[t] \in OrphanKind
      BY <2>1 DEF KindOf, OrphanKind, Residue
  <2>3. o \in Thing /\ home[o] = r /\ kind[o] = UserKind[KindOf[call]]
      BY <2>1, <2>2, Users
  <2>4. PICK c \in {"amis", "databases", "dbclusters", "clusters"} :
          kind[o] = KindOf[c] /\ All(r, c, job[r].index, absent)
    <3>1. Indexed(r, job[r], absent) /\ job[r].at = call
        BY DEF SInv, JobsOK, Sound, At
    <3>2. CASE call = "snapshots"
        BY <2>3, <3>1, <3>2 DEF Indexed, KindOf, UserKind
    <3>3. CASE call = "dbsnapshots"
        BY <2>3, <3>1, <3>3 DEF Indexed, KindOf, UserKind
    <3>4. CASE call = "clustersnapshots"
        BY <2>3, <3>1, <3>4 DEF Indexed, KindOf, UserKind
    <3>5. CASE call = "loggroups"
        BY <2>3, <3>1, <3>5 DEF Indexed, KindOf, UserKind
    <3>6. CASE call = "queues"
        BY <2>3, <3>1, <3>6 DEF Indexed, KindOf, UserKind
    <3> QED BY <3>2, <3>3, <3>4, <3>5, <3>6
  <2> QED BY <2>1, <2>3, <2>4 DEF All
<1>3. ASSUME NEW t \in kept, home[t] = r, kind[t] = KindOf[call], page[t] = job[r].page PROVE t \in new
  <2>1. t \in Page(r)
      BY <1>3 DEF SInv, WorldOK, Stranded, At, Page
  <2>2. t \notin Unnamed /\ owners[t] \cap job[r].index = {}
      BY <1>3 DEF SInv, WorldOK, Stranded, At, JobsOK, Clean
  <2> QED BY <2>1, <2>2 DEF Ownerless
<1> QED BY <1>1, <1>2, <1>3

(* A listing judged by the index.                                          *)
LEMMA OwnerlessStep ==
  ASSUME SInv, NEW r \in Region, NEW call \in {"snapshots", "dbsnapshots", "clustersnapshots", "loggroups", "queues"},
         ListPage(r, call, Ownerless(r))
  PROVE  SInv'
<1>1. PICK new : new = Ownerless(r)
    OBVIOUS
<1>2. At(r, call) /\ ListPage(r, call, new)
    BY <1>1 DEF ListPage
<1>3. call \in Call \ (IndexCall \cup {"balancers", "rules"})
    BY CallSet DEF IndexCall
<1>4. /\ new \in SUBSET Thing /\ \A t \in new : owners[t] \subseteq absent
      /\ \A t \in kept : (home[t] = r /\ kind[t] = KindOf[call] /\ page[t] = job[r].page) => t \in new
    BY <1>1, <1>2, OwnerlessRightly
<1> QED BY <1>2, <1>3, <1>4, ListPageStep

-----------------------------------------------------------------------------
(* The indexes.                                                            *)

(* One page more of an index.                                              *)
LEMMA PageRead ==
  ASSUME SInv, NEW r \in Region, NEW call \in IndexCall, At(r, call), NEW old, NEW read,
         read = old \cup Page(r), Read(r, call, job[r].page, old, absent)
  PROVE  /\ Read(r, call, job[r].page + 1, read, absent)
         /\ ~(job[r].page < Pages[call]) => All(r, call, read, absent)
<1>1. job[r].page \in Nat /\ call \in Call
    BY CallSet DEF SInv, ScanTypes, Job, IndexCall
<1>2. Read(r, call, job[r].page + 1, read, absent)
  <2> SUFFICES ASSUME NEW o \in Thing, home[o] = r, kind[o] = KindOf[call], page[o] < job[r].page + 1
               PROVE  o \in read \cup absent
      BY DEF Read
  <2>1. page[o] < job[r].page \/ page[o] = job[r].page
      BY <1>1, Constants
  <2> QED BY <2>1 DEF Read, Page, At, SInv, WorldOK
<1>3. ASSUME ~(job[r].page < Pages[call]) PROVE All(r, call, read, absent)
  <2>1. Pages[call] \in Nat /\ \A o \in Thing : kind[o] = KindOf[call] => page[o] \in Nat /\ page[o] <= Pages[call]
      BY <1>1, Constants
  <2> QED BY <1>1, <1>2, <1>3, <2>1 DEF Read, All
<1> QED BY <1>2, <1>3

(* What is in the account now uses nothing that was kept.                  *)
LEMMA PageClean ==
  ASSUME SInv, NEW r \in Region, pc = "scan", NEW t \in kept
  PROVE  owners[t] \cap Page(r) = {}
  BY DEF SInv, WorldOK, Stranded, Page

LEMMA IndexedOn ==
  ASSUME NEW r \in Region, NEW i \in Job, NEW gone, i.at \in IndexCall,
         Read(r, i.at, i.page + 1, i.index, gone),
         ~(i.page < Pages[i.at]) => All(r, i.at, i.index, gone),
         i.at = "dbclusters" => All(r, "databases", i.index, gone)
  PROVE  Indexed(r, Turn(i), gone)
<1>1. i.at \in Call
    BY CallSet DEF IndexCall
<1>2. CASE i.page < Pages[i.at]
  <2>1. Turn(i).at = i.at /\ Turn(i).page = i.page + 1 /\ Turn(i).index = i.index
      BY <1>1, <1>2, TurnFacts
  <2> QED BY <2>1 DEF Indexed, IndexCall
<1>3. CASE ~(i.page < Pages[i.at])
  <2>1. Turn(i).at = After(i.at) /\ Turn(i).page = 1 /\ Turn(i).index = i.index
      BY <1>1, <1>3, TurnFacts
  <2>2. \A call : Read(r, call, 1, i.index, gone)
      BY Constants DEF Read
  <2> QED BY <1>3, <2>1, <2>2, Order DEF Indexed, IndexCall
<1> QED BY <1>2, <1>3

(* A page of an index is read.                                             *)
LEMMA IndexStep ==
  ASSUME SInv, NEW r \in Region, NEW call \in IndexCall \ {"instances"}, At(r, call), NEW old, NEW read,
         read = old \cup Page(r), old \subseteq Thing, Read(r, call, job[r].page, old, absent),
         \A t \in kept : owners[t] \cap old = {},
         call = "dbclusters" => All(r, "databases", old, absent),
         Answered, Go(r, Turn([job[r] EXCEPT !.index = read])), UNCHANGED <<world, command, untold>>
  PROVE  SInv'
<1> DEFINE i == [job[r] EXCEPT !.index = read]
<1> DEFINE j == Turn(i)
<1>1. job[r] \in Job /\ Sound(r, job[r], absent, untold) /\ job[r].todo = {} /\ job[r].lb = NoThing /\ call \in Call
    BY CallSet DEF SInv, ScanTypes, JobsOK, Sound, Shape, At, IndexCall
<1>2. read \subseteq Thing
    BY DEF SInv, ScanTypes, Page
<1>3. i \in Job /\ i.at = call /\ i.page = job[r].page /\ i.index = read /\ i.todo = {} /\ i.lb = NoThing
      /\ i.left = job[r].left /\ i.found = job[r].found
    BY <1>1, <1>2 DEF Job, At
<1>4. Shape(r, i)
    BY <1>1, <1>3 DEF Sound, Shape, At
<1>5. Shape(r, j)
    BY <1>1, <1>3, <1>4, TurnShape
<1>6. Indexed(r, j, absent)
  <2>1. /\ Read(r, call, job[r].page + 1, read, absent)
        /\ ~(job[r].page < Pages[call]) => All(r, call, read, absent)
      BY PageRead
  <2>2. call = "dbclusters" => All(r, "databases", read, absent)
      BY DEF All
  <2> QED BY <1>3, <2>1, <2>2, IndexedOn
<1>7. j \in Job /\ j.index = read /\ j.lb = NoThing /\ j.todo = {} /\ j.found = job[r].found
    BY <1>1, <1>3, TurnFacts
<1>8. Judged(j, absent, untold)
    BY <1>1, <1>7 DEF Sound, Judged
<1>9. Clean(j, kept)
    BY <1>7, PageClean DEF Clean, At
<1>10. ASSUME warned = {} PROVE Whole(r, j, kept)
  <2> SUFFICES ASSUME NEW t \in kept, home[t] = r, Behind(t, j) PROVE t \in j.found
      BY DEF Whole
  <2>1. t \in Thing /\ kind[t] \in OrphanKind
      BY DEF SInv, ScanTypes, WorldOK, Stranded, At
  <2>2. Listing[kind[t]] # call
      BY <2>1 DEF Listing, OrphanKind, Residue, IndexCall
  <2>3. Behind(t, i)
      BY <1>1, <1>3, <1>4, <2>1, <2>2, TurnBehind
  <2>4. Behind(t, job[r])
      BY <1>1, <1>3, <2>3 DEF Behind, At
  <2>5. t \in job[r].found
      BY <1>1, <1>10, <2>1, <2>4, Constants, CallSet DEF SInv, JobsOK, Whole, At
  <2> QED BY <2>5, <1>7
<1>11. Step(r, j)
    BY <1>5, <1>6, <1>7, <1>8, <1>9, <1>10 DEF Step, Sound, SInv, ScanTypes, Answered
<1> HIDE DEF j
<1> QED BY <1>11, StepInv DEF At

LEMMA ReadIndexStep ==
  ASSUME SInv, NEW r \in Region, NEW call \in {"amis", "databases", "dbclusters"}, NEW old,
         old \subseteq Thing, Read(r, call, job[r].page, old, absent), \A t \in kept : owners[t] \cap old = {},
         call = "dbclusters" => All(r, "databases", old, absent), ReadIndex(r, call, old)
  PROVE  SInv'
<1>1. call \in IndexCall \ {"instances"} /\ At(r, call)
    BY DEF IndexCall, ReadIndex
<1>2. CASE Answered /\ Go(r, Turn([job[r] EXCEPT !.index = old \cup Page(r)]))
  <2>1. PICK read : read = old \cup Page(r)
      OBVIOUS
  <2>2. Go(r, Turn([job[r] EXCEPT !.index = read]))
      BY <1>2, <2>1
  <2> QED BY <1>1, <1>2, <2>1, <2>2, IndexStep DEF ReadIndex
<1>3. CASE RegionFails(r)
    BY <1>1, <1>3, FailStep DEF ReadIndex
<1> QED BY <1>2, <1>3 DEF ReadIndex

(* Nothing is listed before the first page.                                *)
LEMMA FirstPageRead ==
  ASSUME NEW r \in Region, NEW call
  PROVE  Read(r, call, 1, {}, absent)
  BY Constants DEF Read

(* What a job already knows.                                               *)
LEMMA Known ==
  ASSUME SInv, NEW r \in Region
  PROVE  /\ job[r].index \subseteq Thing /\ \A t \in kept : owners[t] \cap job[r].index = {}
         /\ Indexed(r, job[r], absent)
  BY DEF SInv, ScanTypes, Job, JobsOK, Clean, Sound

LEMMA AMIIndexStep == ASSUME SInv, NEW r \in Region, SelfAMIIndex(r) PROVE SInv'
<1>1. job[r].page = 1
    BY Constants, CallSet DEF SInv, ScanTypes, Job, JobsOK, Sound, Shape, SelfAMIIndex, ReadIndex, At
<1>2. PICK old : old = {}
    OBVIOUS
<1> QED BY <1>1, <1>2, FirstPageRead, ReadIndexStep DEF SelfAMIIndex

LEMMA DatabaseIndexStep == ASSUME SInv, NEW r \in Region, LiveDatabaseIndex(r) PROVE SInv'
<1>1. PICK old : old = IF FirstPage(r) THEN {} ELSE job[r].index
    OBVIOUS
<1>2. PICK index : index = job[r].index
    OBVIOUS
<1>3. CASE ReadIndex(r, "databases", old)
  <2>1. job[r].at = "databases"
      BY <1>3 DEF ReadIndex, At
  <2>2. Read(r, "databases", job[r].page, old, absent)
      BY <1>1, <2>1, FirstPageRead, Known DEF Indexed, IndexCall, FirstPage
  <2> QED BY <1>1, <1>3, <2>2, Known, ReadIndexStep
<1>4. CASE ReadIndex(r, "dbclusters", index)
  <2>1. job[r].at = "dbclusters"
      BY <1>4 DEF ReadIndex, At
  <2>2. Read(r, "dbclusters", job[r].page, index, absent) /\ All(r, "databases", index, absent)
      BY <1>2, <2>1, Known DEF Indexed, IndexCall
  <2> QED BY <1>2, <1>4, <2>2, Known, ReadIndexStep
<1> QED BY <1>1, <1>2, <1>3, <1>4 DEF LiveDatabaseIndex

LEMMA ClustersStep == ASSUME SInv, NEW r \in Region, LiveEKSClusters(r) PROVE SInv'
<1>1. At(r, "clusters") /\ job[r].at = "clusters" /\ "clusters" \in IndexCall \ {"instances"}
    BY DEF LiveEKSClusters, At, IndexCall
<1>2. CASE Answered /\ Go(r, Turn([job[r] EXCEPT !.index = (IF FirstPage(r) THEN {} ELSE @) \cup Page(r)]))
  <2>1. PICK old : old = IF FirstPage(r) THEN {} ELSE job[r].index
      OBVIOUS
  <2>2. PICK read : read = old \cup Page(r)
      OBVIOUS
  <2>3. Go(r, Turn([job[r] EXCEPT !.index = read]))
      BY <1>2, <2>1, <2>2
  <2>4. Read(r, "clusters", job[r].page, old, absent)
      BY <1>1, <2>1, FirstPageRead, Known DEF Indexed, IndexCall, FirstPage
  <2>5. old \subseteq Thing /\ \A t \in kept : owners[t] \cap old = {}
      BY <2>1, Known
  <2> QED BY <1>1, <1>2, <2>2, <2>3, <2>4, <2>5, IndexStep DEF LiveEKSClusters
<1>3. CASE Warn(r, "clusters") /\ Go(r, Leave(job[r], "done"))
  <2> DEFINE j == Leave(job[r], "done")
  <2>1. job[r] \in Job /\ Sound(r, job[r], absent, untold) /\ Clean(job[r], kept)
      BY DEF SInv, ScanTypes, JobsOK
  <2>2. j \in Job /\ j.at = "done" /\ j.page = 1 /\ j.index = job[r].index /\ j.todo = job[r].todo
        /\ j.lb = job[r].lb /\ j.left = job[r].left /\ j.found = job[r].found
      BY <2>1, LeaveFacts
  <2>3. Shape(r, j)
      BY <1>1, <2>1, <2>2, CallSet DEF Sound, Shape
  <2>4. Indexed(r, j, absent) /\ Judged(j, absent, untold) /\ Clean(j, kept)
      BY <2>1, <2>2 DEF Sound, Indexed, Judged, Clean, IndexCall
  <2>5. faults' \in 0 .. MaxFaults /\ warned' # {} /\ warned \subseteq warned' /\ warned' \subseteq Warning
      BY <1>3, WarnType, CallSet
  <2>6. Step(r, j)
      BY <1>3, <2>2, <2>3, <2>4, <2>5 DEF Step, Sound, SInv, ScanTypes, LiveEKSClusters
  <2> HIDE DEF j
  <2> QED BY <1>1, <2>6, StepInv DEF At
<1> QED BY <1>2, <1>3 DEF LiveEKSClusters

-----------------------------------------------------------------------------
(* The probes.                                                             *)

(* With one thing probed, or a page of them listed, a job goes on.         *)
LEMMA ProbedSound ==
  ASSUME NEW r \in Region, NEW i \in Job, NEW gone, NEW unread, i.at \in {"balancers", "rules"},
         i.lb = NoThing, Shape(r, i), Indexed(r, i, gone), Judged(i, gone, unread)
  PROVE  /\ Sound(r, Probed(i), gone, unread) /\ Probed(i).lb = NoThing
         /\ Probed(i).index = i.index /\ Probed(i).found = i.found /\ Probed(i).todo = i.todo
<1>1. i.at \in Call \ IndexCall
    BY CallSet DEF IndexCall
<1>2. CASE i.todo = {}
  <2>1. Shape(r, Turn(i)) /\ Indexed(r, Turn(i), gone)
      BY <1>1, <1>2, TurnShape, TurnIndexed
  <2>2. /\ Turn(i) \in Job /\ Turn(i).lb = NoThing /\ Turn(i).index = i.index /\ Turn(i).found = i.found
        /\ Turn(i).todo = i.todo
      BY <1>1, TurnFacts
  <2>3. Judged(Turn(i), gone, unread)
      BY <2>2 DEF Judged
  <2> QED BY <1>2, <2>1, <2>2, <2>3 DEF Probed, Sound
<1>3. CASE i.todo # {}
    BY <1>3 DEF Probed, Sound
<1> QED BY <1>2, <1>3

LEMMA ProbedWhole ==
  ASSUME NEW r \in Region, NEW i \in Job, i.at \in {"balancers", "rules"}, i.lb = NoThing, Shape(r, i),
         NEW orphans \in SUBSET Thing,
         \A t \in orphans :
           /\ kind[t] \in OrphanKind
           /\ (home[t] = r /\ (Behind(t, i) \/ (Listing[kind[t]] = i.at /\ page[t] = i.page))) =>
                t \in i.found \cup i.todo
  PROVE  Whole(r, Probed(i), orphans)
<1>1. CASE i.todo # {}
    BY <1>1 DEF Probed, Whole
<1>2. CASE i.todo = {}
  <2>1. i.at \in Call
      BY CallSet
  <2>2. Turn(i).found = i.found
      BY <2>1, TurnFacts
  <2> SUFFICES ASSUME NEW t \in orphans, home[t] = r, Behind(t, Turn(i)) PROVE t \in Turn(i).found
      BY <1>2 DEF Whole, Probed
  <2>3. Behind(t, i) \/ (Listing[kind[t]] = i.at /\ page[t] = i.page)
      BY <1>2, <2>1, TurnBehind
  <2> QED BY <1>2, <2>2, <2>3
<1> QED BY <1>1, <1>2

LEMMA ProbeStep ==
  ASSUME SInv, NEW r \in Region, pc = "scan", NEW i \in Job, i.at \in {"balancers", "rules"},
         i.at = job[r].at, i.page = job[r].page, i.index = job[r].index, i.lb = NoThing, i.left = {},
         i.at = "rules" => \A t \in i.todo : home[t] = r /\ kind[t] = "karpenter_rule",
         Judged(i, absent, untold'),
         warned' = {} =>
           \A t \in kept :
             (home[t] = r /\ (Behind(t, i) \/ (Listing[kind[t]] = i.at /\ page[t] = i.page))) =>
               t \in i.found \cup i.todo,
         Go(r, Probed(i)), UNCHANGED <<world, command>>, untold \subseteq untold', untold' \subseteq Thing,
         warned \subseteq warned', warned' \subseteq Warning, faults' \in 0 .. MaxFaults
  PROVE  SInv'
<1>1. job[r] \in Job /\ Sound(r, job[r], absent, untold) /\ Clean(job[r], kept)
    BY DEF SInv, ScanTypes, JobsOK
<1>2. Shape(r, i) /\ Indexed(r, i, absent)
    BY <1>1 DEF Sound, Shape, Indexed
<1>3. /\ Sound(r, Probed(i), absent, untold') /\ Probed(i).index = i.index
    BY <1>2, ProbedSound
<1>4. Clean(Probed(i), kept)
    BY <1>1, <1>3 DEF Clean
<1>5. \A t \in kept : t \in Thing /\ kind[t] \in OrphanKind
    BY DEF SInv, ScanTypes, WorldOK, Stranded
<1>6. warned' = {} => Whole(r, Probed(i), kept)
    BY <1>2, <1>5, ProbedWhole
<1>7. PICK j : j = Probed(i)
    OBVIOUS
<1>8. Step(r, j)
    BY <1>3, <1>4, <1>6, <1>7 DEF Step
<1> QED BY <1>8, StepInv

(* A page of load balancers or rules is listed.                            *)
LEMMA ListToProbeStep ==
  ASSUME SInv, NEW r \in Region, NEW call \in {"balancers", "rules"}, ListToProbe(r, call)
  PROVE  SInv'
<1>1. At(r, call) /\ pc = "scan" /\ job[r].at = call /\ job[r].todo = {} /\ job[r].lb = NoThing
      /\ UNCHANGED <<world, command, untold>>
    BY DEF ListToProbe, At
<1>2. job[r] \in Job /\ Sound(r, job[r], absent, untold) /\ job[r].left = {}
    BY <1>1 DEF SInv, ScanTypes, JobsOK, Sound, Shape
<1>3. CASE Answered /\ Go(r, Probed([job[r] EXCEPT !.todo = Page(r)]))
  <2>1. PICK i : i = [job[r] EXCEPT !.todo = Page(r)]
      OBVIOUS
  <2>2. Page(r) \subseteq Thing
      BY DEF SInv, ScanTypes, Page
  <2>3. i \in Job /\ i.at = call /\ i.page = job[r].page /\ i.index = job[r].index /\ i.todo = Page(r)
        /\ i.lb = NoThing /\ i.left = {} /\ i.found = job[r].found
      BY <1>1, <1>2, <2>1, <2>2 DEF Job
  <2>4. call = "rules" => \A t \in i.todo : home[t] = r /\ kind[t] = "karpenter_rule"
      BY <1>1, <2>3 DEF Page, KindOf
  <2>5. Judged(i, absent, untold)
      BY <1>2, <2>3 DEF Sound, Judged
  <2>6. ASSUME warned = {}, NEW t \in kept, home[t] = r,
               Behind(t, i) \/ (Listing[kind[t]] = call /\ page[t] = job[r].page)
        PROVE  t \in i.found \cup i.todo
    <3>1. t \in present /\ t \in Thing /\ kind[t] \in OrphanKind
        BY <1>1 DEF SInv, ScanTypes, WorldOK, Stranded
    <3>2. CASE Behind(t, job[r])
        BY <1>1, <2>3, <2>6, <3>1, <3>2, Constants DEF SInv, JobsOK, Whole
    <3>3. CASE Listing[kind[t]] = call /\ page[t] = job[r].page
        BY <1>1, <2>3, <2>6, <3>1, <3>3, Kinds DEF Page
    <3>4. Behind(t, i) => Behind(t, job[r]) \/ (Listing[kind[t]] = call /\ page[t] = job[r].page)
        BY <1>1, <2>3 DEF Behind
    <3> QED BY <2>6, <3>2, <3>3, <3>4
  <2>7. faults' \in 0 .. MaxFaults /\ warned' = warned /\ warned \subseteq Warning /\ untold \subseteq Thing
      BY <1>3 DEF Answered, SInv, ScanTypes
  <2>8. Go(r, Probed(i))
      BY <1>3, <2>1
  <2> QED BY <1>1, <2>3, <2>4, <2>5, <2>6, <2>7, <2>8, ProbeStep
<1>4. CASE Warn(r, call) /\ Go(r, Leave(job[r], After(call)))
  <2>1. call \in Call \ IndexCall
      BY CallSet DEF IndexCall
  <2> QED BY <1>1, <1>4, <2>1, WarnStep
<1> QED BY <1>3, <1>4 DEF ListToProbe

(* What a job that is probing has found, and what it has still to probe.   *)
LEMMA Probing ==
  ASSUME SInv, NEW r \in Region, pc = "scan", warned = {}, job[r].at # "failed", NEW t \in kept, home[t] = r,
         Behind(t, job[r])
  PROVE  t \in job[r].found \cup job[r].todo \cup {job[r].lb} /\ t \in Thing
  BY DEF SInv, ScanTypes, JobsOK, Whole

LEMMA TargetGroupsStep == ASSUME SInv, NEW r \in Region, TargetGroups(r) PROVE SInv'
<1>1. pc = "scan" /\ job[r].at = "balancers" /\ job[r].lb = NoThing /\ UNCHANGED <<world, command, untold>>
    BY DEF TargetGroups, At
<1>2. /\ job[r] \in Job /\ Sound(r, job[r], absent, untold) /\ Clean(job[r], kept) /\ job[r].left = {}
      /\ warned \subseteq Warning /\ untold \subseteq Thing /\ job[r].todo \subseteq Thing
    BY <1>1 DEF SInv, ScanTypes, JobsOK, Sound, Shape, Job
<1>3. PICK lb \in job[r].todo :
        LET j == [job[r] EXCEPT !.todo = @ \ {lb}]
        IN  \/ /\ Answered
               /\ Go(r, IF owners[lb] = {} THEN Probed([j EXCEPT !.found = @ \cup {lb}])
                        ELSE [j EXCEPT !.lb = lb, !.left = owners[lb]])
            \/ Warn(r, lb) /\ Go(r, Probed(j))
    BY DEF TargetGroups
<1>4. PICK j : j = [job[r] EXCEPT !.todo = @ \ {lb}]
    OBVIOUS
<1>5. lb \in Thing /\ lb # NoThing /\ owners[lb] \subseteq Thing
    BY <1>2, Constants
<1>6. j \in Job /\ j.at = "balancers" /\ j.page = job[r].page /\ j.index = job[r].index
      /\ j.todo = job[r].todo \ {lb} /\ j.lb = NoThing /\ j.left = {} /\ j.found = job[r].found
    BY <1>1, <1>2, <1>4 DEF Job
<1>7. \A t \in Thing : Listing[kind[t]] = "balancers" /\ page[t] = job[r].page => Behind(t, job[r])
    BY <1>1, <1>2 DEF Behind
<1>8. CASE Answered /\ owners[lb] = {} /\ Go(r, Probed([j EXCEPT !.found = @ \cup {lb}]))
  <2>1. PICK i : i = [j EXCEPT !.found = @ \cup {lb}]
      OBVIOUS
  <2>2. i \in Job /\ i.at = "balancers" /\ i.page = job[r].page /\ i.index = job[r].index
        /\ i.todo = job[r].todo \ {lb} /\ i.lb = NoThing /\ i.left = {} /\ i.found = job[r].found \cup {lb}
      BY <1>5, <1>6, <2>1 DEF Job
  <2>3. Judged(i, absent, untold)
      BY <1>2, <1>8, <2>2 DEF Sound, Judged
  <2>4. ASSUME warned = {}, NEW t \in kept, home[t] = r,
               Behind(t, i) \/ (Listing[kind[t]] = "balancers" /\ page[t] = job[r].page)
        PROVE  t \in i.found \cup i.todo
    <3>1. t \in Thing
        BY DEF SInv, ScanTypes
    <3>2. Behind(t, job[r])
        BY <1>1, <1>7, <2>2, <2>4, <3>1 DEF Behind
    <3>3. t \in job[r].found \cup job[r].todo
        BY <1>1, <2>4, <3>1, <3>2, Probing, Constants
    <3> QED BY <2>2, <3>3
  <2>5. faults' \in 0 .. MaxFaults /\ warned' = warned
      BY <1>8 DEF Answered, SInv, ScanTypes
  <2>6. Go(r, Probed(i))
      BY <1>8, <2>1
  <2> QED BY <1>1, <1>2, <2>2, <2>3, <2>4, <2>5, <2>6, ProbeStep
<1>9. CASE Answered /\ owners[lb] # {} /\ Go(r, [j EXCEPT !.lb = lb, !.left = owners[lb]])
  <2>1. PICK i : i = [j EXCEPT !.lb = lb, !.left = owners[lb]]
      OBVIOUS
  <2>2. i \in Job /\ i.at = "balancers" /\ i.page = job[r].page /\ i.index = job[r].index
        /\ i.todo = job[r].todo \ {lb} /\ i.lb = lb /\ i.left = owners[lb] /\ i.found = job[r].found
      BY <1>5, <1>6, <2>1 DEF Job
  <2>3. Shape(r, i) /\ Indexed(r, i, absent) /\ Judged(i, absent, untold) /\ Clean(i, kept)
      BY <1>1, <1>2, <1>5, <1>9, <2>2 DEF Sound, Shape, Indexed, Judged, Clean, IndexCall
  <2>4. ASSUME warned = {}, NEW t \in kept, home[t] = r, Behind(t, i)
        PROVE  t \in i.found \cup i.todo \cup {i.lb}
    <3>1. t \in Thing
        BY DEF SInv, ScanTypes
    <3>2. Behind(t, job[r])
        BY <1>1, <1>7, <2>2, <2>4, <3>1 DEF Behind
    <3>3. t \in job[r].found \cup job[r].todo
        BY <1>1, <2>4, <3>1, <3>2, Probing, Constants
    <3> QED BY <2>2, <3>3
  <2>5. faults' \in 0 .. MaxFaults /\ warned' = warned
      BY <1>9 DEF Answered, SInv, ScanTypes
  <2>6. Step(r, i)
      BY <1>1, <1>2, <1>9, <2>1, <2>2, <2>3, <2>4, <2>5 DEF Step, Sound, Whole
  <2> QED BY <1>1, <2>6, StepInv
<1>10. CASE Warn(r, lb) /\ Go(r, Probed(j))
  <2>1. Judged(j, absent, untold)
      BY <1>2, <1>6 DEF Sound, Judged
  <2>2. faults' \in 0 .. MaxFaults /\ warned' # {} /\ warned \subseteq warned' /\ warned' \subseteq Warning
      BY <1>5, <1>10, WarnType
  <2> QED BY <1>1, <1>2, <1>6, <1>10, <2>1, <2>2, ProbeStep
<1> QED BY <1>3, <1>4, <1>8, <1>9, <1>10

LEMMA TargetHealthStep == ASSUME SInv, NEW r \in Region, TargetHealth(r) PROVE SInv'
<1>1. pc = "scan" /\ job[r].at = "balancers" /\ UNCHANGED <<world, command, untold>>
    BY DEF TargetHealth, At
<1>2. PICK group \in job[r].left :
        LET j    == [job[r] EXCEPT !.lb = NoThing, !.left = {}]
            rest == job[r].left \ {group}
        IN  \/ /\ Answered
               /\ Go(r, CASE group \in present -> Probed(j)
                          [] group \notin present /\ rest # {} -> [job[r] EXCEPT !.left = rest]
                          [] OTHER -> Probed([j EXCEPT !.found = @ \cup {job[r].lb}]))
            \/ Warn(r, job[r].lb) /\ Go(r, Probed(j))
    BY DEF TargetHealth
<1>3. /\ job[r] \in Job /\ Sound(r, job[r], absent, untold) /\ Clean(job[r], kept)
      /\ job[r].lb # NoThing /\ job[r].lb \in Thing /\ job[r].left \subseteq owners[job[r].lb]
      /\ owners[job[r].lb] \ job[r].left \subseteq absent
      /\ warned \subseteq Warning /\ untold \subseteq Thing /\ job[r].left \subseteq Thing
    BY DEF SInv, ScanTypes, JobsOK, Sound, Shape, Judged, Job
<1>4. PICK j : j = [job[r] EXCEPT !.lb = NoThing, !.left = {}]
    OBVIOUS
<1>5. j \in Job /\ j.at = "balancers" /\ j.page = job[r].page /\ j.index = job[r].index
      /\ j.todo = job[r].todo /\ j.lb = NoThing /\ j.left = {} /\ j.found = job[r].found
    BY <1>1, <1>3, <1>4 DEF Job
<1>6. ASSUME warned = {}, NEW t \in kept, home[t] = r,
             Behind(t, job[r]) \/ Behind(t, j) \/ (Listing[kind[t]] = "balancers" /\ page[t] = job[r].page)
      PROVE  t \in job[r].found \cup job[r].todo \cup {job[r].lb}
  <2>1. Behind(t, job[r])
      BY <1>1, <1>3, <1>5, <1>6 DEF Behind
  <2> QED BY <1>1, <1>6, <2>1, Probing
<1>7. group \notin present => group \in absent
    BY <1>1, <1>3 DEF SInv, WorldOK
<1>8. CASE Answered /\ group \in present /\ Go(r, Probed(j))
  <2>1. Judged(j, absent, untold)
      BY <1>3, <1>5 DEF Sound, Judged
  <2>2. job[r].lb \notin kept
      BY <1>1, <1>3, <1>8 DEF SInv, WorldOK, Stranded
  <2>3. faults' \in 0 .. MaxFaults /\ warned' = warned
      BY <1>8 DEF Answered, SInv, ScanTypes
  <2>4. warned' = {} =>
          \A t \in kept :
            (home[t] = r /\ (Behind(t, j) \/ (Listing[kind[t]] = j.at /\ page[t] = j.page))) => t \in j.found \cup j.todo
      BY <1>5, <1>6, <2>2, <2>3
  <2> QED BY <1>1, <1>3, <1>5, <1>8, <2>1, <2>3, <2>4, ProbeStep
<1>9. CASE Answered /\ group \notin present /\ job[r].left \ {group} # {}
           /\ Go(r, [job[r] EXCEPT !.left = job[r].left \ {group}])
  <2>1. PICK i : i = [job[r] EXCEPT !.left = job[r].left \ {group}]
      OBVIOUS
  <2>2. i \in Job /\ i.at = "balancers" /\ i.page = job[r].page /\ i.index = job[r].index
        /\ i.todo = job[r].todo /\ i.lb = job[r].lb /\ i.left = job[r].left \ {group} /\ i.found = job[r].found
      BY <1>1, <1>3, <2>1 DEF Job
  <2>3. Shape(r, i) /\ Indexed(r, i, absent) /\ Clean(i, kept)
      BY <1>1, <1>3, <1>9, <2>2 DEF Sound, Shape, Indexed, Clean, IndexCall
  <2>4. Judged(i, absent, untold)
      BY <1>3, <1>7, <1>9, <2>2 DEF Sound, Judged
  <2>6. \A t : Behind(t, i) => Behind(t, job[r])
      BY <1>1, <1>3, <2>2 DEF Behind
  <2>7. warned = {} => Whole(r, i, kept)
      BY <1>6, <2>2, <2>6 DEF Whole
  <2>8. faults' \in 0 .. MaxFaults /\ warned' = warned
      BY <1>9 DEF Answered, SInv, ScanTypes
  <2>9. Step(r, i)
      BY <1>1, <1>3, <1>9, <2>1, <2>2, <2>3, <2>4, <2>7, <2>8 DEF Step, Sound
  <2> QED BY <1>1, <2>9, StepInv
<1>10. CASE Answered /\ group \notin present /\ job[r].left \ {group} = {}
            /\ Go(r, Probed([j EXCEPT !.found = @ \cup {job[r].lb}]))
  <2>1. PICK i : i = [j EXCEPT !.found = @ \cup {job[r].lb}]
      OBVIOUS
  <2>2. i \in Job /\ i.at = "balancers" /\ i.page = job[r].page /\ i.index = job[r].index
        /\ i.todo = job[r].todo /\ i.lb = NoThing /\ i.left = {} /\ i.found = job[r].found \cup {job[r].lb}
      BY <1>3, <1>5, <2>1 DEF Job
  <2>3. Judged(i, absent, untold)
      BY <1>3, <1>7, <1>10, <2>2 DEF Sound, Judged
  <2>4. \A t : Behind(t, i) => Behind(t, j)
      BY <1>5, <2>2 DEF Behind
  <2>5. faults' \in 0 .. MaxFaults /\ warned' = warned
      BY <1>10 DEF Answered, SInv, ScanTypes
  <2>6. warned' = {} =>
          \A t \in kept :
            (home[t] = r /\ (Behind(t, i) \/ (Listing[kind[t]] = i.at /\ page[t] = i.page))) => t \in i.found \cup i.todo
      BY <1>6, <2>2, <2>4, <2>5
  <2>7. Go(r, Probed(i))
      BY <1>10, <2>1
  <2> QED BY <1>1, <1>3, <2>2, <2>3, <2>5, <2>6, <2>7, ProbeStep
<1>11. CASE Warn(r, job[r].lb) /\ Go(r, Probed(j))
  <2>1. Judged(j, absent, untold)
      BY <1>3, <1>5 DEF Sound, Judged
  <2>2. faults' \in 0 .. MaxFaults /\ warned' # {} /\ warned \subseteq warned' /\ warned' \subseteq Warning
      BY <1>3, <1>11, WarnType
  <2> QED BY <1>1, <1>3, <1>5, <1>11, <2>1, <2>2, ProbeStep
<1> QED BY <1>2, <1>4, <1>8, <1>9, <1>10, <1>11

LEMMA RulesStep == ASSUME SInv, NEW r \in Region, RuleClusterName(r) PROVE SInv'
<1>1. pc = "scan" /\ job[r].at = "rules" /\ UNCHANGED <<world, command>>
    BY DEF RuleClusterName, At
<1>2. /\ job[r] \in Job /\ Sound(r, job[r], absent, untold) /\ Clean(job[r], kept) /\ job[r].lb = NoThing
      /\ job[r].left = {} /\ warned \subseteq Warning /\ untold \subseteq Thing /\ job[r].todo \subseteq Thing
      /\ \A t \in job[r].todo : home[t] = r /\ kind[t] = "karpenter_rule"
      /\ All(r, "clusters", job[r].index, absent)
    BY <1>1 DEF SInv, ScanTypes, JobsOK, Sound, Shape, Indexed, Job
<1>3. PICK rule \in job[r].todo :
        LET j       == [job[r] EXCEPT !.todo = @ \ {rule}]
            flagged == Probed([j EXCEPT !.found = @ \cup {rule}])
        IN  \/ /\ Answered /\ UNCHANGED untold
               /\ Go(r, IF owners[rule] \cap job[r].index # {} THEN Probed(j) ELSE flagged)
            \/ /\ Refused /\ untold' = untold \cup {rule} /\ UNCHANGED warned
               /\ Go(r, flagged)
    BY DEF RuleClusterName
<1>4. PICK j : j = [job[r] EXCEPT !.todo = @ \ {rule}]
    OBVIOUS
<1>5. rule \in Thing /\ home[rule] = r /\ kind[rule] = "karpenter_rule"
    BY <1>2
<1>6. j \in Job /\ j.at = "rules" /\ j.page = job[r].page /\ j.index = job[r].index
      /\ j.todo = job[r].todo \ {rule} /\ j.lb = NoThing /\ j.left = {} /\ j.found = job[r].found
    BY <1>1, <1>2, <1>4 DEF Job
<1>7. PICK i : i = [j EXCEPT !.found = @ \cup {rule}]
    OBVIOUS
<1>8. i \in Job /\ i.at = "rules" /\ i.page = job[r].page /\ i.index = job[r].index
      /\ i.todo = job[r].todo \ {rule} /\ i.lb = NoThing /\ i.left = {} /\ i.found = job[r].found \cup {rule}
    BY <1>5, <1>6, <1>7 DEF Job
<1>9. ASSUME warned = {}, NEW t \in kept, home[t] = r,
             Behind(t, i) \/ Behind(t, j) \/ (Listing[kind[t]] = "rules" /\ page[t] = job[r].page)
      PROVE  t \in job[r].found \cup job[r].todo
  <2>1. t \in Thing
      BY DEF SInv, ScanTypes
  <2>2. Behind(t, job[r])
      BY <1>1, <1>2, <1>6, <1>8, <1>9 DEF Behind
  <2> QED BY <1>1, <1>2, <1>9, <2>1, <2>2, Probing, Constants
<1>10. CASE Answered /\ UNCHANGED untold /\ owners[rule] \cap job[r].index # {} /\ Go(r, Probed(j))
  <2>1. Judged(j, absent, untold')
      BY <1>2, <1>6, <1>10 DEF Sound, Judged
  <2>2. rule \notin kept
      BY <1>2, <1>10 DEF Clean
  <2>3. faults' \in 0 .. MaxFaults /\ warned' = warned
      BY <1>10 DEF Answered, SInv, ScanTypes
  <2>4. warned' = {} =>
          \A t \in kept :
            (home[t] = r /\ (Behind(t, j) \/ (Listing[kind[t]] = j.at /\ page[t] = j.page))) => t \in j.found \cup j.todo
      BY <1>6, <1>9, <2>2, <2>3
  <2> QED BY <1>1, <1>2, <1>6, <1>10, <2>1, <2>3, <2>4, ProbeStep
<1>11. CASE /\ \/ Answered /\ UNCHANGED untold /\ owners[rule] \cap job[r].index = {}
               \/ Refused /\ untold' = untold \cup {rule} /\ UNCHANGED warned
            /\ Go(r, Probed(i))
  <2>1. ASSUME rule \notin untold' PROVE owners[rule] \subseteq absent
    <3>1. owners[rule] \cap job[r].index = {}
        BY <1>11, <2>1
    <3>2. kind[rule] \in OrphanKind
        BY <1>5 DEF OrphanKind, Residue
    <3>3. \A o \in owners[rule] : o \in Thing /\ home[o] = r /\ kind[o] = KindOf["clusters"]
        BY <1>5, <3>2, Users DEF UserKind, KindOf
    <3> QED BY <1>2, <3>1, <3>3 DEF All
  <2>2. untold \subseteq untold' /\ untold' \subseteq Thing /\ warned' = warned
      BY <1>2, <1>5, <1>11 DEF Answered
  <2>3. Judged(i, absent, untold')
      BY <1>2, <1>8, <2>1, <2>2 DEF Sound, Judged
  <2>4. faults' \in 0 .. MaxFaults
      BY <1>11, Constants DEF Answered, Refused, SInv, ScanTypes
  <2>5. warned' = {} =>
          \A t \in kept :
            (home[t] = r /\ (Behind(t, i) \/ (Listing[kind[t]] = i.at /\ page[t] = i.page))) => t \in i.found \cup i.todo
      BY <1>8, <1>9, <2>2
  <2>6. Go(r, Probed(i))
      BY <1>11
  <2> QED BY <1>1, <1>2, <1>8, <2>2, <2>3, <2>4, <2>5, <2>6, ProbeStep
<1> QED BY <1>3, <1>4, <1>7, <1>10, <1>11

-----------------------------------------------------------------------------
(* The images.                                                             *)

LEMMA ImagesStep == ASSUME SInv, NEW r \in Region, Images(r) PROVE SInv'
<1>1. At(r, "images") /\ pc = "scan" /\ job[r].at = "images" /\ UNCHANGED <<world, command, untold>>
    BY DEF Images, At
<1>2. /\ job[r] \in Job /\ Sound(r, job[r], absent, untold) /\ Clean(job[r], kept) /\ job[r].lb = NoThing
      /\ job[r].todo = {} /\ job[r].left = {} /\ warned \subseteq Warning /\ untold \subseteq Thing
    BY <1>1, CallSet DEF SInv, ScanTypes, JobsOK, Sound, Shape
<1>3. job[r].page = 1 /\ ~(1 < Pages["images"]) /\ "images" \in Call
    BY <1>1, <1>2, Constants, CallSet DEF Sound, Shape, Job
<1>4. Page(r) \subseteq Thing /\ \A t \in Page(r) : home[t] = r /\ kind[t] = "image"
    BY <1>1 DEF SInv, ScanTypes, Page, KindOf
<1>5. ASSUME NEW t \in kept, home[t] = r, kind[t] = "image" PROVE t \in Page(r)
  <2>1. t \in present /\ t \in Thing
      BY <1>1 DEF SInv, ScanTypes, WorldOK, Stranded
  <2>2. page[t] = 1
      BY <1>3, <1>5, <2>1, Constants DEF KindOf
  <2> QED BY <1>1, <1>3, <1>5, <2>1, <2>2 DEF Page, KindOf
<1>6. ASSUME NEW t \in kept, NEW n \in {"instances", "databases"}, home[t] = r,
             Position[Listing[kind[t]]] < Position[n]
      PROVE  Behind(t, job[r]) \/ t \in Page(r)
  <2>1. t \in Thing /\ kind[t] \in OrphanKind
      BY <1>1 DEF SInv, ScanTypes, WorldOK, Stranded
  <2>2. CASE kind[t] = "image"
      BY <1>5, <1>6, <2>2
  <2>3. CASE kind[t] # "image"
      BY <1>1, <1>6, <2>1, <2>3 DEF Behind, Listing, Position, OrphanKind, Residue
  <2> QED BY <2>2, <2>3
<1>7. \A call : Read(r, call, 1, job[r].index, absent)
    BY Constants DEF Read
<1>8. CASE Answered /\ Page(r) = {} /\ Go(r, Leave(job[r], "databases"))
  <2>1. PICK j : j = Leave(job[r], "databases")
      OBVIOUS
  <2>2. j \in Job /\ j.at = "databases" /\ j.page = 1 /\ j.index = job[r].index /\ j.todo = {} /\ j.lb = NoThing
        /\ j.left = {} /\ j.found = job[r].found
      BY <1>2, <2>1, LeaveFacts, CallSet
  <2>3. Shape(r, j)
      BY <2>2, Constants, CallSet DEF Shape
  <2>4. Indexed(r, j, absent) /\ Judged(j, absent, untold) /\ Clean(j, kept)
      BY <1>2, <1>7, <2>2 DEF Sound, Judged, Clean, Indexed
  <2>5. ASSUME warned = {} PROVE Whole(r, j, kept)
    <3> SUFFICES ASSUME NEW t \in kept, home[t] = r, Behind(t, j) PROVE t \in j.found
        BY DEF Whole
    <3>1. t \in Thing /\ kind[t] \in OrphanKind
        BY <1>1 DEF SInv, ScanTypes, WorldOK, Stranded
    <3>2. Listing[kind[t]] # "databases"
        BY <3>1 DEF Listing, OrphanKind, Residue
    <3>3. Behind(t, job[r])
        BY <1>6, <1>8, <2>2, <3>2 DEF Behind
    <3> QED BY <1>1, <1>2, <2>2, <2>5, <3>1, <3>3, Probing, Constants
  <2>6. Step(r, j)
      BY <1>1, <1>2, <1>8, <2>1, <2>2, <2>3, <2>4, <2>5 DEF Step, Sound, Answered, SInv, ScanTypes
  <2> QED BY <1>1, <2>6, StepInv
<1>9. CASE Answered /\ Page(r) # {} /\ Go(r, Turn([job[r] EXCEPT !.todo = Page(r)]))
  <2>1. PICK i : i = [job[r] EXCEPT !.todo = Page(r)]
      OBVIOUS
  <2>2. PICK j : j = Turn(i)
      OBVIOUS
  <2>3. i \in Job /\ i.at = "images" /\ i.page = 1 /\ i.index = job[r].index /\ i.todo = Page(r) /\ i.lb = NoThing
        /\ i.left = {} /\ i.found = job[r].found
      BY <1>1, <1>2, <1>3, <1>4, <2>1 DEF Job
  <2>4. j \in Job /\ j.at = "instances" /\ j.page = 1 /\ j.index = job[r].index /\ j.todo = Page(r)
        /\ j.lb = NoThing /\ j.left = {} /\ j.found = job[r].found
      BY <1>3, <2>2, <2>3, TurnFacts, Order
  <2>5. Shape(r, j)
      BY <1>4, <2>4, Constants, CallSet DEF Shape
  <2>6. Indexed(r, j, absent) /\ Judged(j, absent, untold) /\ Clean(j, kept)
      BY <1>2, <1>7, <2>4 DEF Sound, Judged, Clean, Indexed
  <2>7. ASSUME warned = {} PROVE Whole(r, j, kept)
    <3> SUFFICES ASSUME NEW t \in kept, home[t] = r, Behind(t, j) PROVE t \in j.found \cup j.todo
        BY DEF Whole
    <3>1. t \in Thing /\ kind[t] \in OrphanKind
        BY <1>1 DEF SInv, ScanTypes, WorldOK, Stranded
    <3>2. Listing[kind[t]] # "instances"
        BY <3>1 DEF Listing, OrphanKind, Residue
    <3>3. Behind(t, job[r]) \/ t \in Page(r)
        BY <1>6, <2>4, <3>2 DEF Behind
    <3>4. Behind(t, job[r]) => t \in job[r].found
        BY <1>1, <1>2, <2>7, <3>1, Probing, Constants
    <3> QED BY <2>4, <3>3, <3>4
  <2>8. Step(r, j)
      BY <1>1, <1>2, <1>9, <2>1, <2>2, <2>4, <2>5, <2>6, <2>7 DEF Step, Sound, Answered, SInv, ScanTypes
  <2> QED BY <1>1, <2>8, StepInv
<1>10. CASE RegionFails(r)
    BY <1>1, <1>10, FailStep
<1> QED BY <1>8, <1>9, <1>10 DEF Images

LEMMA OrphanImagesStep == ASSUME SInv, NEW r \in Region, OrphanImages(r) PROVE SInv'
<1>1. At(r, "instances") /\ pc = "scan" /\ job[r].at = "instances" /\ UNCHANGED <<world, command, untold>>
    BY DEF OrphanImages, At
<1>2. /\ job[r] \in Job /\ Sound(r, job[r], absent, untold) /\ Clean(job[r], kept) /\ job[r].lb = NoThing
      /\ job[r].left = {} /\ warned \subseteq Warning /\ untold \subseteq Thing /\ job[r].todo \subseteq Thing
      /\ \A t \in job[r].todo : home[t] = r /\ kind[t] = "image"
    BY <1>1 DEF SInv, ScanTypes, JobsOK, Sound, Shape, Job
<1>3. job[r].page \in Nat /\ Pages["instances"] \in Nat /\ job[r].page <= Pages["instances"] /\ "instances" \in Call
    BY <1>1, <1>2, Constants, CallSet DEF Sound, Shape, Job
<1>4. PICK old : old = IF FirstPage(r) THEN {} ELSE job[r].index
    OBVIOUS
<1>5. PICK inUse : inUse = old \cup Page(r)
    OBVIOUS
<1>6. old \subseteq Thing /\ inUse \subseteq Thing
    BY <1>4, <1>5, Known DEF SInv, ScanTypes, Page
<1>7. Read(r, "instances", job[r].page, old, absent)
    BY <1>1, <1>4, FirstPageRead, Known DEF Indexed, IndexCall, FirstPage
<1>8. /\ Read(r, "instances", job[r].page + 1, inUse, absent)
      /\ ~(job[r].page < Pages["instances"]) => All(r, "instances", inUse, absent)
    BY <1>1, <1>5, <1>7, PageRead DEF IndexCall
<1>9. \A t \in kept : owners[t] \cap inUse = {}
    BY <1>1, <1>4, <1>5, Known, PageClean
<1>10. \A t \in kept : t \in Thing /\ kind[t] \in OrphanKind
    BY <1>1 DEF SInv, ScanTypes, WorldOK, Stranded
<1>11. \A t \in kept : Listing[kind[t]] # "instances"
    BY <1>10 DEF Listing, OrphanKind, Residue
<1>12. ASSUME warned = {}, NEW t \in kept, home[t] = r, Position[Listing[kind[t]]] < Position["instances"]
       PROVE  t \in job[r].found \cup job[r].todo
  <2>1. Behind(t, job[r])
      BY <1>1, <1>12 DEF Behind
  <2> QED BY <1>1, <1>2, <1>10, <1>12, <2>1, Probing, Constants
<1>13. CASE Answered /\ job[r].page # Pages["instances"] /\ Go(r, Turn([job[r] EXCEPT !.index = inUse]))
  <2>1. PICK i : i = [job[r] EXCEPT !.index = inUse]
      OBVIOUS
  <2>2. PICK j : j = Turn(i)
      OBVIOUS
  <2>3. i \in Job /\ i.at = "instances" /\ i.page = job[r].page /\ i.index = inUse /\ i.todo = job[r].todo
        /\ i.lb = NoThing /\ i.left = {} /\ i.found = job[r].found
      BY <1>1, <1>2, <1>6, <2>1 DEF Job
  <2>4. j \in Job /\ j.at = "instances" /\ j.page = job[r].page + 1 /\ j.index = inUse /\ j.todo = job[r].todo
        /\ j.lb = NoThing /\ j.left = {} /\ j.found = job[r].found
      BY <1>3, <1>13, <2>2, <2>3, TurnFacts
  <2>5. Shape(r, j)
      BY <1>2, <1>3, <1>13, <2>4 DEF Shape
  <2>6. Indexed(r, j, absent)
      BY <1>8, <2>4 DEF Indexed, IndexCall
  <2>7. Judged(j, absent, untold) /\ Clean(j, kept)
      BY <1>2, <1>9, <2>4 DEF Sound, Judged, Clean
  <2>8. warned = {} => Whole(r, j, kept)
      BY <1>11, <1>12, <2>4 DEF Whole, Behind
  <2>9. Step(r, j)
      BY <1>1, <1>2, <1>13, <2>1, <2>2, <2>4, <2>5, <2>6, <2>7, <2>8 DEF Step, Sound, Answered, SInv, ScanTypes
  <2> QED BY <1>1, <2>9, StepInv
<1>14. CASE /\ Answered /\ job[r].page = Pages["instances"]
            /\ Go(r, Turn([job[r] EXCEPT !.index = inUse, !.todo = {},
                                         !.found = @ \cup {t \in job[r].todo : owners[t] \cap inUse = {}}]))
  <2>1. PICK new : new = {t \in job[r].todo : owners[t] \cap inUse = {}}
      OBVIOUS
  <2>2. PICK i : i = [job[r] EXCEPT !.index = inUse, !.todo = {}, !.found = @ \cup new]
      OBVIOUS
  <2>3. PICK j : j = Turn(i)
      OBVIOUS
  <2>4. new \subseteq Thing
      BY <1>2, <2>1
  <2>5. i \in Job /\ i.at = "instances" /\ i.page = job[r].page /\ i.index = inUse /\ i.todo = {}
        /\ i.lb = NoThing /\ i.left = {} /\ i.found = job[r].found \cup new
      BY <1>1, <1>2, <1>6, <2>2, <2>4 DEF Job
  <2>6. j \in Job /\ j.at = "databases" /\ j.page = 1 /\ j.index = inUse /\ j.todo = {}
        /\ j.lb = NoThing /\ j.left = {} /\ j.found = job[r].found \cup new
      BY <1>3, <1>14, <2>3, <2>5, TurnFacts, Order
  <2>7. Shape(r, j)
      BY <2>6, Constants, CallSet DEF Shape
  <2>8. Indexed(r, j, absent)
      BY <1>3, <1>8, <1>14, <2>5, <2>3, IndexedOn DEF IndexCall
  <2>9. \A t \in new : owners[t] \subseteq absent
    <3> SUFFICES ASSUME NEW t \in new, NEW o \in owners[t] PROVE o \in absent
        OBVIOUS
    <3>1. t \in Thing /\ home[t] = r /\ kind[t] = "image" /\ o \notin inUse
        BY <1>2, <2>1
    <3>2. kind[t] \in OrphanKind
        BY <3>1 DEF OrphanKind
    <3>3. o \in Thing /\ home[o] = r /\ kind[o] = KindOf["instances"]
        BY <3>1, <3>2, Users DEF UserKind, KindOf
    <3> QED BY <1>3, <1>8, <1>14, <3>1, <3>3 DEF All
  <2>10. Judged(j, absent, untold) /\ Clean(j, kept)
      BY <1>2, <1>9, <2>6, <2>9 DEF Sound, Judged, Clean
  <2>11. ASSUME warned = {} PROVE Whole(r, j, kept)
    <3> SUFFICES ASSUME NEW t \in kept, home[t] = r, Behind(t, j) PROVE t \in j.found
        BY DEF Whole
    <3>1. Listing[kind[t]] # "databases"
        BY <1>10 DEF Listing, OrphanKind, Residue
    <3>2. Position[Listing[kind[t]]] < Position["databases"]
        BY <2>6, <3>1 DEF Behind
    <3>3. Position[Listing[kind[t]]] < Position["instances"]
        BY <1>10, <3>2 DEF Position, Listing, OrphanKind, Residue
    <3>4. t \in job[r].found \cup job[r].todo
        BY <1>12, <2>11, <3>3
    <3> QED BY <1>9, <2>1, <2>6, <3>4
  <2>12. Step(r, j)
      BY <1>1, <1>2, <1>14, <2>1, <2>2, <2>3, <2>6, <2>7, <2>8, <2>10, <2>11
         DEF Step, Sound, Answered, SInv, ScanTypes
  <2> QED BY <1>1, <2>12, StepInv
<1>15. CASE RegionFails(r)
    BY <1>1, <1>15, FailStep
<1>16. Go(r, Turn([job[r] EXCEPT !.index = inUse,
                                 !.todo  = IF job[r].page = Pages["instances"] THEN {} ELSE @,
                                 !.found = IF job[r].page = Pages["instances"]
                                             THEN @ \cup {t \in job[r].todo : owners[t] \cap inUse = {}} ELSE @]))
         /\ job[r].page # Pages["instances"] => Go(r, Turn([job[r] EXCEPT !.index = inUse]))
  <2>1. CASE job[r].page # Pages["instances"]
    <3>1. [job[r] EXCEPT !.index = inUse,
                         !.todo  = IF job[r].page = Pages["instances"] THEN {} ELSE @,
                         !.found = IF job[r].page = Pages["instances"]
                                     THEN @ \cup {t \in job[r].todo : owners[t] \cap inUse = {}} ELSE @]
            = [job[r] EXCEPT !.index = inUse]
        BY <1>2, <2>1 DEF Job
    <3> QED BY <3>1
  <2> QED BY <2>1
<1> QED BY <1>4, <1>5, <1>13, <1>14, <1>15, <1>16 DEF OrphanImages

-----------------------------------------------------------------------------
(* The scan as a whole.                                                    *)

LEMMA RegionScanInv == ASSUME SInv, NEW r \in Region, RegionScan(r) PROVE SInv'
<1>1. CASE LoadBalancers(r)
    BY <1>1, ListToProbeStep DEF LoadBalancers
<1>2. CASE KarpenterRules(r)
    BY <1>2, ListToProbeStep DEF KarpenterRules
<1>3. CASE OrphanSnapshots(r)
    BY <1>3, OwnerlessStep DEF OrphanSnapshots
<1>4. CASE StrandedInstanceSnapshots(r)
    BY <1>4, OwnerlessStep DEF StrandedInstanceSnapshots
<1>5. CASE StrandedClusterSnapshots(r)
    BY <1>5, OwnerlessStep DEF StrandedClusterSnapshots
<1>6. CASE OrphanEKSLogGroups(r)
    BY <1>6, OwnerlessStep DEF OrphanEKSLogGroups
<1>7. CASE OrphanKarpenterQueues(r)
    BY <1>7, OwnerlessStep DEF OrphanKarpenterQueues
<1> QED BY <1>1, <1>2, <1>3, <1>4, <1>5, <1>6, <1>7, DisksStep, IPsStep, TargetGroupsStep, TargetHealthStep,
           AMIIndexStep, ImagesStep, OrphanImagesStep, DatabaseIndexStep, ClustersStep, RulesStep DEF RegionScan

(* A job that has not begun.                                               *)
LEMMA NewJobSound ==
  ASSUME NEW r \in Region, NEW gone, NEW unread
  PROVE  Sound(r, NewJob, gone, unread) /\ NewJob.index = {} /\ NewJob.found = {}
<1>1. NewJob \in Job
    BY CallSet DEF NewJob, Job
<1> QED BY <1>1, Constants, CallSet DEF NewJob, Sound, Shape, Indexed, Judged, IndexCall

LEMMA BecomesInv ==
  ASSUME SInv, NEW account \in SUBSET Thing, Becomes(account)
  PROVE  SInv'
<1>1. ScanTypes'
    BY Constants DEF SInv, ScanTypes, Becomes, command, Warning
<1>2. WorldOK'
    BY DEF SInv, WorldOK, Becomes, Stranded
<1>3. JobsOK'
  <2>1. \A r \in Region : Sound(r, job[r], absent', untold)
      BY SoundLater DEF SInv, JobsOK, Becomes
  <2>2. \A r \in Region : Clean(job[r], kept')
      BY DEF SInv, JobsOK, Clean, Becomes
  <2>3. warned = {} => \A r \in Region : Whole(r, job[r], kept')
      BY DEF SInv, JobsOK, Whole, Becomes
  <2>4. job' = job /\ warned' = warned /\ untold' = untold
      BY DEF Becomes
  <2> QED BY <2>1, <2>2, <2>3, <2>4 DEF JobsOK
<1>4. ResultOK'
    BY DEF SInv, ResultOK, Becomes, command
<1> QED BY <1>1, <1>2, <1>3, <1>4 DEF SInv

LEMMA WorldInv == ASSUME SInv, Vanish \/ Appear PROVE SInv'
<1>1. CASE Vanish
  <2>1. PICK account : /\ \E t \in present : account = present \ {t}
                       /\ Becomes(account)
      BY <1>1 DEF Vanish
  <2> QED BY <2>1, BecomesInv DEF SInv, ScanTypes
<1>2. CASE Appear
  <2>1. PICK account : /\ \E things \in Creations : account = present \cup things
                       /\ Becomes(account)
      BY <1>2 DEF Appear
  <2>2. account \in SUBSET Thing
      BY <2>1, OrphanAssumption DEF SInv, ScanTypes
  <2> QED BY <2>1, <2>2, BecomesInv
<1> QED BY <1>1, <1>2

LEMMA EndScanInv ==
  ASSUME SInv, NEW c \in {0, 1, 3}, EndScan(c), faults' \in 0 .. MaxFaults
  PROVE  SInv'
<1>1. NewJob \in Job
    BY CallSet DEF NewJob, Job
<1>2. ScanTypes'
  <2>1. job' \in [Region -> Job] /\ moves' \in 0 .. MaxMoves
      BY <1>1, Constants DEF EndScan
  <2>2. present' = {} /\ absent' = {} /\ kept' = {} /\ warned' = {} /\ untold' = {} /\ resources' = {}
        /\ pc' = "over" /\ exit' = c /\ minCost' = FALSE /\ failOn' = FALSE
      BY DEF EndScan
  <2> QED BY <2>1, <2>2 DEF ScanTypes
<1>3. WorldOK'
    BY DEF WorldOK, EndScan
<1>4. JobsOK'
  <2>1. \A r \in Region : job'[r] = NewJob
      BY DEF EndScan
  <2>2. kept' = {}
      BY DEF EndScan
  <2> QED BY <2>1, <2>2, NewJobSound DEF JobsOK, Clean, Whole
<1>5. ResultOK'
    BY DEF ResultOK, EndScan
<1> QED BY <1>2, <1>3, <1>4, <1>5 DEF SInv

LEMMA ScannedInv == ASSUME SInv, Scanned PROVE SInv'
<1>1. faults' \in 0 .. MaxFaults /\ pc = "scan" /\ \A r \in Region : job[r].at \in {"done", "failed"}
    BY DEF SInv, ScanTypes, Scanned
<1>2. CASE EndScan(1)
    BY <1>1, <1>2, EndScanInv
<1>3. CASE /\ Failed # Region /\ pc' = "gate"
           /\ warned' = warned \cup {<<r, "failed">> : r \in Failed}
           /\ minCost' \in BOOLEAN
           /\ resources' = {t \in UNION {job[r].found : r \in Region \ Failed} : Reportable(t, minCost')}
           /\ UNCHANGED <<world, failOn, job, untold, exit>>
  <2>1. warned' \subseteq Warning /\ resources' \subseteq Thing
      BY <1>3 DEF SInv, ScanTypes, Warning, Job, Failed
  <2>2. ScanTypes'
      BY <1>1, <1>3, <2>1 DEF SInv, ScanTypes, world, Warning
  <2>3. WorldOK'
      BY <1>3 DEF WorldOK
  <2>4. JobsOK'
      BY <1>3 DEF SInv, JobsOK, world
  <2>5. ASSUME warned' = {}, NEW t \in kept, kind[t] \in Residue \/ ~minCost' \/ t \notin Cheap
        PROVE  t \in resources'
    <3>1. warned = {} /\ Failed = {}
        BY <1>3, <2>5
    <3>2. t \in Thing /\ kind[t] \in OrphanKind
        BY <1>1 DEF SInv, ScanTypes, WorldOK, Stranded
    <3>3. PICK r \in Region : home[t] = r
        BY <3>2, Constants
    <3>4. job[r].at = "done"
        BY <1>1, <3>1 DEF Failed
    <3>5. Behind(t, job[r])
        BY <3>2, <3>4, Kinds DEF Behind, Position
    <3>6. job[r].todo = {} /\ job[r].lb = NoThing
        BY <3>4 DEF SInv, JobsOK, Sound, Shape
    <3>7. t \in job[r].found
        BY <1>1, <3>1, <3>2, <3>3, <3>4, <3>5, <3>6, Probing, Constants
    <3> QED BY <1>3, <2>5, <3>1, <3>7 DEF Reportable
  <2>6. ResultOK'
      BY <1>3, <2>5 DEF ResultOK, world
  <2> QED BY <2>2, <2>3, <2>4, <2>6 DEF SInv
<1> QED BY <1>2, <1>3 DEF Scanned

LEMMA GateInv == ASSUME SInv, GateIncomplete PROVE SInv'
<1>1. ScanTypes'
    BY DEF SInv, ScanTypes, GateIncomplete, world, Warning
<1>2. WorldOK'
    BY DEF WorldOK, GateIncomplete
<1>3. JobsOK'
    BY DEF SInv, JobsOK, GateIncomplete, world
<1>4. ResultOK'
    BY DEF SInv, ResultOK, GateIncomplete, world
<1> QED BY <1>1, <1>2, <1>3, <1>4 DEF SInv

LEMMA CreateInv == ASSUME SInv, CreateReport PROVE SInv'
<1>1. CASE Refused /\ EndScan(1)
    BY <1>1, EndScanInv, Constants DEF Refused, SInv, ScanTypes
<1>2. CASE pc' = "write" /\ UNCHANGED <<world, faults, minCost, failOn, resources, exit, job, warned, untold>>
  <2>1. ScanTypes'
      BY <1>2 DEF SInv, ScanTypes, world, Warning
  <2>2. WorldOK'
      BY <1>2 DEF WorldOK
  <2>3. JobsOK'
      BY <1>2 DEF SInv, JobsOK, world
  <2>4. ResultOK'
      BY <1>2 DEF SInv, ResultOK, world, CreateReport
  <2> QED BY <2>1, <2>2, <2>3, <2>4 DEF SInv
<1> QED BY <1>1, <1>2 DEF CreateReport

LEMMA WriteInv == ASSUME SInv, WriteReport PROVE SInv'
<1>1. faults' \in 0 .. MaxFaults
    BY Constants DEF WriteReport, Refused, SInv, ScanTypes
<1>2. PICK c : c = exit
    OBVIOUS
<1>3. EndScan(c) \/ EndScan(1)
    BY <1>2 DEF WriteReport
<1> QED BY <1>1, <1>2, <1>3, EndScanInv DEF SInv, ScanTypes

-----------------------------------------------------------------------------
(* The scripts.                                                            *)

FileTypes ==
  /\ report.type \in Types \cup {"bare", "absent", "torn"} /\ report.rows \subseteq Rows
  /\ at \in {"idle", "read", "mkdir", "scripts", "write"}
  /\ type \in Types /\ floor \in Floors \cup {"LOW"} /\ rows \subseteq Rows /\ queue \subseteq DOMAIN Sorted
  /\ DOMAIN dir = Script /\ DOMAIN before = Script
  /\ \A s \in Script : IsContent(dir[s]) /\ IsContent(before[s])
  /\ code \in {"none", "killed", "error", "ok"} /\ runs \in 0 .. MaxRuns

(* A script of this run is whole, or its provider still has its turn; one  *)
(* the report has nothing for is as it was.                                *)
WholeOrWaiting ==
  \A p \in Provider :
    LET s == ScriptName(type, p)
    IN  IF Due(type, p) = {} THEN dir[s] = before[s]
        ELSE dir[s] = Text(Due(type, p)) \/ \E i \in queue : Sorted[i] = p

(* How far a run of remediate has come.                                    *)
ProgressOK ==
  /\ at # "idle" => runs > 0 /\ code = "none"
  /\ runs > 0 => pc = "over"
  /\ at \in {"read", "mkdir"} => dir = before
  /\ at \in {"mkdir", "scripts", "write"} =>
       /\ Readable /\ rows = {row \in ReportRows : Wanted(row)}
       /\ \A row \in ReportRows : row.provider \in Accepted
  /\ at \in {"scripts", "write"} => WholeOrWaiting /\ \A i \in queue : Commands(Sorted[i]) # {}
  /\ at = "write" => queue # {} /\ dir[Path] = TornFile

RInv == FileTypes /\ ProgressOK /\ ScriptsAreTheReport /\ RefusalLeavesNoTrace

IInv == SInv /\ RInv

(* The provider whose turn it is is one of those that wait.                *)
LEMMA Turns ==
  ASSUME FileTypes, queue # {}
  PROVE  First \in queue /\ Current \in Provider /\ Current = Sorted[First] /\ Path = ScriptName(type, Current) /\ Path \in Script
<1>1. queue \subseteq Nat
    BY RemediationAssumption DEF FileTypes
<1>2. PICK i \in queue : \A j \in queue : <<j, i>> \notin OpToRel(<, Nat)
    BY <1>1, NatLessThanWellFounded, WFMin, Zenon
<1>3. \A j \in queue : ~(j < i)
    BY <1>1, <1>2 DEF OpToRel
<1>4. \A j \in queue : i <= j
    BY <1>1, <1>3
<1>5. First \in queue
    BY <1>4 DEF First
<1> QED BY <1>5 DEF FileTypes, Current, Provider, Path, Script

(* A run writes for a provider what the report has for it.                 *)
LEMMA CommandsAreDue ==
  ASSUME FileTypes, rows = {row \in ReportRows : Wanted(row)}, NEW p \in Provider
  PROVE  Commands(p) = Due(type, p)
  BY DEF Commands, Due, ReportRows, Wanted

LEMMA TypesFollow == IInv => TypeOK
  BY DEF IInv, SInv, RInv, ScanTypes, FileTypes, TypeOK, Warning

(* Nothing the scripts depend on has changed.                              *)
LEMMA SameReport ==
  ASSUME UNCHANGED <<report, type, floor>>
  PROVE  /\ ReportRows' = ReportRows /\ Readable' = Readable
         /\ \A p : Due(type, p)' = Due(type, p)
         /\ \A row : Wanted(row)' = Wanted(row)
  BY DEF ReportRows, RowsFor, Holds, Readable, Due, Wanted

LEMMA MeanwhileInv == ASSUME RInv, Meanwhile PROVE RInv'
<1>1. FileTypes'
  <2>1. \A s \in Script : DOMAIN dir' = Script /\ IsContent(dir'[s])
      BY RemediationAssumption DEF Meanwhile
  <2>2. DOMAIN dir' = Script
      BY RemediationAssumption DEF Meanwhile
  <2> QED BY <2>1, <2>2 DEF RInv, FileTypes, Meanwhile, scan, command, IsContent
<1>2. ProgressOK'
    BY DEF RInv, ProgressOK, Meanwhile, scan, command
<1>3. ScriptsAreTheReport' /\ RefusalLeavesNoTrace'
    BY DEF RInv, FileTypes, ScriptsAreTheReport, RefusalLeavesNoTrace, Meanwhile
<1> QED BY <1>1, <1>2, <1>3 DEF RInv

LEMMA StartInv == ASSUME RInv, Start PROVE RInv'
<1>1. FileTypes'
    BY RemediationAssumption DEF RInv, FileTypes, Start, scan, command, IsContent
<1>2. ProgressOK'
    BY DEF RInv, FileTypes, ProgressOK, Start, scan, command
<1>3. ScriptsAreTheReport' /\ RefusalLeavesNoTrace'
    BY DEF ScriptsAreTheReport, RefusalLeavesNoTrace, Start
<1> QED BY <1>1, <1>2, <1>3 DEF RInv

LEMMA ReadReportInv == ASSUME RInv, ReadReport PROVE RInv'
<1>1. UNCHANGED <<report, type, floor>> /\ pc' = pc /\ dir' = dir /\ before' = before /\ dir = before
    BY DEF RInv, ProgressOK, ReadReport, scan, command
<1>2. FileTypes'
    BY <1>1 DEF RInv, FileTypes, ReadReport, End, ReportRows, RowsFor, IsContent
<1>3. ProgressOK'
    BY <1>1, SameReport DEF RInv, ProgressOK, ReadReport, End
<1>4. ScriptsAreTheReport' /\ RefusalLeavesNoTrace'
  <2>1. code' # "ok"
      BY DEF RInv, ProgressOK, ReadReport, End
  <2> QED BY <1>1, <2>1 DEF ScriptsAreTheReport, RefusalLeavesNoTrace
<1> QED BY <1>2, <1>3, <1>4 DEF RInv

LEMMA MakeDirInv == ASSUME RInv, MakeDir PROVE RInv'
<1>1. UNCHANGED <<report, type, floor, rows, runs>> /\ pc' = pc /\ dir' = dir /\ before' = before /\ dir = before
      /\ runs > 0 /\ rows = {row \in ReportRows : Wanted(row)}
    BY DEF RInv, ProgressOK, MakeDir, command
<1>2. FileTypes'
    BY <1>1 DEF RInv, FileTypes, MakeDir, End, IsContent
<1>3. at' \in {"scripts", "write"} => WholeOrWaiting' /\ \A i \in queue' : Commands(Sorted[i])' # {}
  <2> SUFFICES ASSUME at' \in {"scripts", "write"} PROVE WholeOrWaiting' /\ \A i \in queue' : Commands(Sorted[i])' # {}
      OBVIOUS
  <2>1. queue' = {i \in DOMAIN Sorted : Commands(Sorted[i]) # {}}
      BY DEF MakeDir, End
  <2>2. \A i \in queue' : Commands(Sorted[i])' # {}
      BY <1>1, <2>1 DEF Commands
  <2>3. ASSUME NEW p \in Provider, Due(type, p) # {} PROVE \E i \in queue' : Sorted[i] = p
    <3>1. Commands(p) # {}
        BY <1>1, <2>3, CommandsAreDue DEF RInv
    <3> QED BY <2>1, <3>1 DEF Provider
  <2> QED BY <1>1, <2>2, <2>3, SameReport DEF WholeOrWaiting
<1>4. ProgressOK'
    BY <1>1, <1>3, SameReport DEF RInv, ProgressOK, MakeDir, End
<1>5. ScriptsAreTheReport' /\ RefusalLeavesNoTrace'
  <2>1. code' # "ok"
      BY DEF RInv, ProgressOK, MakeDir, End
  <2> QED BY <1>1, <2>1 DEF ScriptsAreTheReport, RefusalLeavesNoTrace
<1> QED BY <1>2, <1>4, <1>5 DEF RInv

(* With one provider served, the others are as before.                     *)
LEMMA Served ==
  ASSUME RInv, at \in {"scripts", "write"}, queue # {}, UNCHANGED <<report, type, floor, rows, before>>,
         queue' = queue \ {First}, DOMAIN dir' = Script, dir'[Path] = Text(Commands(Current)),
         \A s \in Script : s # Path => dir'[s] = dir[s]
  PROVE  WholeOrWaiting' /\ \A i \in queue' : Commands(Sorted[i])' # {}
<1>1. First \in queue /\ Current \in Provider /\ Current = Sorted[First] /\ Path = ScriptName(type, Current) /\ Path \in Script
    BY Turns DEF RInv
<1>2. Commands(Current) = Due(type, Current) /\ Commands(Current) # {}
    BY <1>1, CommandsAreDue DEF RInv, ProgressOK
<1>3. ASSUME NEW p \in Provider
      PROVE  IF Due(type, p) = {} THEN dir'[ScriptName(type, p)] = before[ScriptName(type, p)]
             ELSE dir'[ScriptName(type, p)] = Text(Due(type, p)) \/ \E i \in queue' : Sorted[i] = p
  <2>1. CASE p = Current
      BY <1>1, <1>2, <2>1
  <2>2. CASE p # Current
    <3>1. ScriptName(type, p) \in Script /\ ScriptName(type, p) # Path
        BY <1>1, <1>3, <2>2, ScriptNames DEF RInv, FileTypes, Script
    <3> QED BY <1>1, <1>3, <2>2, <3>1 DEF RInv, ProgressOK, WholeOrWaiting
  <2> QED BY <2>1, <2>2
<1>4. \A i \in queue' : Commands(Sorted[i])' # {}
    BY DEF RInv, ProgressOK, Commands
<1> QED BY <1>3, <1>4, SameReport DEF WholeOrWaiting

(* Only the script of the provider whose turn it is changes.               *)
LEMMA ScriptsKept ==
  ASSUME RInv, at \in {"scripts", "write"}, UNCHANGED <<report, type, floor, rows, before, runs>>, code' # "ok",
         \/ dir' = dir
         \/ /\ queue # {}
            /\ dir' = [dir EXCEPT ![Path] = TornFile] \/ dir' = [dir EXCEPT ![Path] = Text(Commands(Current))]
  PROVE  ScriptsAreTheReport' /\ RefusalLeavesNoTrace' /\ \A s \in Script : DOMAIN dir' = Script /\ IsContent(dir'[s])
<1>1. /\ \A row \in ReportRows : row.provider \in Accepted
      /\ rows = {row \in ReportRows : Wanted(row)}
    BY DEF RInv, ProgressOK
<1>2. RefusalLeavesNoTrace'
    BY <1>1, SameReport DEF RefusalLeavesNoTrace
<1>3. CASE dir' = dir
  <2>1. ScriptsAreTheReport'
      BY <1>3, SameReport DEF RInv, ScriptsAreTheReport
  <2> QED BY <1>2, <1>3, <2>1 DEF RInv, FileTypes
<1>4. CASE /\ queue # {}
           /\ dir' = [dir EXCEPT ![Path] = TornFile] \/ dir' = [dir EXCEPT ![Path] = Text(Commands(Current))]
  <2>1. Current \in Provider /\ Path = ScriptName(type, Current) /\ Path \in Script
        /\ First \in queue /\ Current = Sorted[First]
      BY <1>4, Turns DEF RInv
  <2>2. Commands(Current) = Due(type, Current) /\ Due(type, Current) # {}
      BY <1>1, <2>1, CommandsAreDue DEF RInv, ProgressOK
  <2>3. /\ DOMAIN dir' = Script /\ dir'[Path] \in {TornFile, Text(Due(type, Current))}
        /\ \A s \in Script : s # Path => dir'[s] = dir[s]
      BY <1>4, <2>1, <2>2 DEF RInv, FileTypes
  <2>4. IsContent(dir'[Path])
    <3>1. Commands(Current) \subseteq Rows
        BY DEF Commands, RInv, FileTypes
    <3> QED BY <2>2, <2>3, <3>1 DEF IsContent, Text, Report
  <2>5. \A s \in Script : IsContent(dir'[s])
      BY <2>3, <2>4 DEF RInv, FileTypes
  <2>6. ASSUME runs > 0, Readable, NEW p \in Provider
        PROVE  \/ dir'[ScriptName(type, p)] = before[ScriptName(type, p)]
               \/ Due(type, p) # {} /\ dir'[ScriptName(type, p)] \in {TornFile, Text(Due(type, p))}
    <3>1. CASE p = Current
        BY <2>1, <2>2, <2>3, <3>1
    <3>2. CASE p # Current
      <4>1. ScriptName(type, p) \in Script /\ ScriptName(type, p) # Path
          BY <2>1, <2>6, <3>2, ScriptNames DEF RInv, FileTypes, Script
      <4> QED BY <2>3, <2>6, <4>1 DEF RInv, ScriptsAreTheReport
    <3> QED BY <3>1, <3>2
  <2>7. ASSUME runs > 0, Readable, NEW s \in Script, \A p \in Provider : s # ScriptName(type, p)
        PROVE  dir'[s] = before[s]
      BY <2>1, <2>3, <2>7 DEF RInv, ScriptsAreTheReport
  <2>8. ScriptsAreTheReport'
      BY <2>6, <2>7, SameReport DEF ScriptsAreTheReport
  <2> QED BY <1>2, <2>3, <2>5, <2>8
<1> QED BY <1>3, <1>4

LEMMA OpenScriptInv == ASSUME RInv, OpenScript PROVE RInv'
<1>1. at = "scripts" /\ queue # {} /\ UNCHANGED <<report, type, floor, rows, before, runs>> /\ pc' = pc
    BY DEF OpenScript, command
<1>2. code = "none" /\ runs > 0 /\ pc = "over" /\ Readable /\ rows = {row \in ReportRows : Wanted(row)}
      /\ \A row \in ReportRows : row.provider \in Accepted
    BY <1>1 DEF RInv, ProgressOK
<1>3. First \in queue /\ Current \in Provider /\ Current = Sorted[First] /\ Path = ScriptName(type, Current) /\ Path \in Script
    BY <1>1, Turns DEF RInv
<1>4. CASE End("error") /\ dir' = dir /\ queue' = queue
  <2>1. ScriptsAreTheReport' /\ RefusalLeavesNoTrace'
      BY <1>1, <1>4, ScriptsKept DEF End
  <2>2. FileTypes'
      BY <1>1, <1>4 DEF RInv, FileTypes, End, IsContent
  <2>3. ProgressOK'
      BY <1>1, <1>2, <1>4 DEF ProgressOK, End
  <2> QED BY <2>1, <2>2, <2>3 DEF RInv
<1>5. CASE UpToDate /\ queue' = queue \ {First} /\ UNCHANGED <<at, code, dir>>
  <2>1. ScriptsAreTheReport' /\ RefusalLeavesNoTrace'
      BY <1>1, <1>2, <1>5, ScriptsKept
  <2>2. FileTypes'
      BY <1>1, <1>5 DEF RInv, FileTypes, IsContent
  <2>3. WholeOrWaiting' /\ \A i \in queue' : Commands(Sorted[i])' # {}
      BY <1>1, <1>5, Served DEF UpToDate, RInv, FileTypes
  <2>4. ProgressOK'
      BY <1>1, <1>2, <1>5, <2>3, SameReport DEF ProgressOK
  <2> QED BY <2>1, <2>2, <2>4 DEF RInv
<1>6. CASE at' = "write" /\ dir' = [dir EXCEPT ![Path] = TornFile] /\ UNCHANGED <<code, queue>>
  <2>1. ScriptsAreTheReport' /\ RefusalLeavesNoTrace' /\ \A s \in Script : DOMAIN dir' = Script /\ IsContent(dir'[s])
      BY <1>1, <1>2, <1>6, ScriptsKept
  <2>2. DOMAIN dir' = Script /\ dir'[Path] = TornFile /\ \A s \in Script : s # Path => dir'[s] = dir[s]
      BY <1>3, <1>6 DEF RInv, FileTypes
  <2>3. FileTypes'
      BY <1>1, <1>6, <2>1, <2>2 DEF RInv, FileTypes, IsContent
  <2>4. Path' = Path
      BY <1>1, <1>6 DEF Path, Current, First
  <2>5. Due(type, Current) # {}
      BY <1>1, <1>2, <1>3, CommandsAreDue DEF RInv, ProgressOK
  <2>6. WholeOrWaiting'
    <3> SUFFICES ASSUME NEW p \in Provider
                 PROVE  IF Due(type, p) = {} THEN dir'[ScriptName(type, p)] = before[ScriptName(type, p)]
                        ELSE dir'[ScriptName(type, p)] = Text(Due(type, p)) \/ \E i \in queue : Sorted[i] = p
        BY <1>1, <1>6, SameReport DEF WholeOrWaiting
    <3>1. CASE p = Current
        BY <1>3, <2>5, <3>1
    <3>2. CASE p # Current
      <4>1. ScriptName(type, p) \in Script /\ ScriptName(type, p) # Path
          BY <1>3, <3>2, ScriptNames DEF RInv, FileTypes, Script
      <4> QED BY <1>1, <2>2, <4>1 DEF RInv, ProgressOK, WholeOrWaiting
    <3> QED BY <3>1, <3>2
  <2>7. \A i \in queue' : Commands(Sorted[i])' # {}
      BY <1>1, <1>6 DEF RInv, ProgressOK, Commands
  <2>8. ProgressOK'
      BY <1>1, <1>2, <1>6, <2>2, <2>4, <2>6, <2>7, SameReport DEF ProgressOK
  <2> QED BY <2>1, <2>3, <2>8 DEF RInv
<1> QED BY <1>4, <1>5, <1>6 DEF OpenScript

LEMMA WriteScriptInv == ASSUME RInv, WriteScript PROVE RInv'
<1>1. at = "write" /\ queue # {} /\ UNCHANGED <<report, type, floor, rows, before, runs>> /\ pc' = pc
    BY DEF WriteScript, command, RInv, ProgressOK
<1>2. code = "none" /\ runs > 0 /\ pc = "over" /\ Readable /\ rows = {row \in ReportRows : Wanted(row)}
      /\ \A row \in ReportRows : row.provider \in Accepted
    BY <1>1 DEF RInv, ProgressOK
<1>3. First \in queue /\ Path \in Script
    BY <1>1, Turns DEF RInv
<1>4. CASE End("error") /\ dir' = dir /\ queue' = queue
  <2>1. ScriptsAreTheReport' /\ RefusalLeavesNoTrace'
      BY <1>1, <1>4, ScriptsKept DEF End
  <2>2. FileTypes'
      BY <1>1, <1>4 DEF RInv, FileTypes, End, IsContent
  <2>3. ProgressOK'
      BY <1>1, <1>2, <1>4 DEF ProgressOK, End
  <2> QED BY <2>1, <2>2, <2>3 DEF RInv
<1>5. CASE /\ dir' = [dir EXCEPT ![Path] = Text(Commands(Current))]
           /\ queue' = queue \ {First} /\ at' = "scripts" /\ UNCHANGED code
  <2>1. ScriptsAreTheReport' /\ RefusalLeavesNoTrace' /\ \A s \in Script : DOMAIN dir' = Script /\ IsContent(dir'[s])
      BY <1>1, <1>2, <1>5, ScriptsKept
  <2>2. /\ DOMAIN dir' = Script /\ dir'[Path] = Text(Commands(Current))
        /\ \A s \in Script : s # Path => dir'[s] = dir[s]
      BY <1>3, <1>5 DEF RInv, FileTypes
  <2>3. FileTypes'
      BY <1>1, <1>5, <2>1, <2>2 DEF RInv, FileTypes, IsContent
  <2>4. WholeOrWaiting' /\ \A i \in queue' : Commands(Sorted[i])' # {}
      BY <1>1, <1>5, <2>2, Served
  <2>5. ProgressOK'
      BY <1>1, <1>2, <1>5, <2>4, SameReport DEF ProgressOK
  <2> QED BY <2>1, <2>3, <2>5 DEF RInv
<1> QED BY <1>4, <1>5 DEF WriteScript

LEMMA AnnounceInv == ASSUME RInv, Announce PROVE RInv'
<1>1. at = "scripts" /\ queue = {} /\ at' = "idle" /\ UNCHANGED <<report, type, floor, rows, queue, dir, before, runs>>
      /\ pc' = pc
    BY DEF Announce, End, scan, command
<1>2. FileTypes'
    BY <1>1 DEF RInv, FileTypes, Announce, End, IsContent
<1>3. ProgressOK'
    BY <1>1 DEF RInv, ProgressOK, Announce, End
<1>4. ScriptsAreTheReport'
  <2>1. \A p \in Provider :
          dir[ScriptName(type, p)] = IF Due(type, p) = {} THEN before[ScriptName(type, p)] ELSE Text(Due(type, p))
      BY <1>1 DEF RInv, ProgressOK, WholeOrWaiting
  <2> QED BY <1>1, <2>1, SameReport DEF RInv, ProgressOK, ScriptsAreTheReport
<1>5. RefusalLeavesNoTrace'
    BY <1>1, SameReport DEF RInv, RefusalLeavesNoTrace
<1> QED BY <1>2, <1>3, <1>4, <1>5 DEF RInv

LEMMA KilledInv == ASSUME RInv, Killed PROVE RInv'
<1>1. UNCHANGED <<report, type, floor, rows, queue, dir, before, runs>> /\ at' = "idle" /\ code' = "killed" /\ pc' = pc
    BY DEF Killed, command
<1>2. FileTypes'
    BY <1>1 DEF RInv, FileTypes, IsContent
<1>3. ProgressOK'
    BY <1>1 DEF RInv, ProgressOK
<1>4. ScriptsAreTheReport' /\ RefusalLeavesNoTrace'
    BY <1>1, SameReport DEF RInv, ScriptsAreTheReport, RefusalLeavesNoTrace
<1> QED BY <1>2, <1>3, <1>4 DEF RInv

-----------------------------------------------------------------------------
(* The invariant of the whole.                                             *)

(* A step of the scan comes before any run of remediate.                   *)
LEMMA ScanFirst ==
  ASSUME IInv, ScanNext
  PROVE  /\ pc # "over"
         /\ report'.type \in Types \cup {"bare", "absent", "torn"} /\ report'.rows \subseteq Rows
<1>1. CASE Vanish \/ Appear
    BY <1>1 DEF Vanish, Appear, Becomes, command, IInv, RInv, FileTypes
<1>2. CASE \E r \in Region : RegionScan(r)
    BY <1>2
       DEF RegionScan, OrphanDisks, OrphanIPs, LoadBalancers, TargetGroups, TargetHealth, SelfAMIIndex, OrphanSnapshots,
           Images, OrphanImages, LiveDatabaseIndex, StrandedInstanceSnapshots, StrandedClusterSnapshots, LiveEKSClusters,
           OrphanEKSLogGroups, OrphanKarpenterQueues, KarpenterRules, RuleClusterName, ListPage, ListToProbe, ReadIndex,
           At, command, IInv, RInv, FileTypes
<1>3. CASE Scanned \/ GateIncomplete
    BY <1>3 DEF Scanned, GateIncomplete, IInv, RInv, FileTypes
<1>4. CASE CreateReport
    BY <1>4 DEF CreateReport, TornFile, Report, IInv, RInv, FileTypes
<1>5. CASE WriteReport
  <2>1. \A t \in resources : Row(t) \in Rows
      BY RemediationAssumption DEF IInv, SInv, ScanTypes, Row, Rows, Types
  <2>2. {Row(t) : t \in resources} \subseteq Rows
      BY <2>1
  <2> QED BY <1>5, <2>2 DEF WriteReport, Report, Types, IInv, RInv, FileTypes
<1> QED BY <1>1, <1>2, <1>3, <1>4, <1>5 DEF ScanNext, RunOrphans

LEMMA ScanStepInv == ASSUME IInv, ScanNext, UNCHANGED remediate PROVE IInv'
<1>1. SInv'
    BY WorldInv, RegionScanInv, ScannedInv, GateInv, CreateInv, WriteInv DEF IInv, ScanNext, RunOrphans
<1>2. runs = 0 /\ at = "idle"
    BY ScanFirst DEF IInv, RInv, FileTypes, ProgressOK
<1>3. FileTypes'
    BY ScanFirst DEF IInv, RInv, FileTypes, remediate, IsContent
<1>4. ProgressOK' /\ ScriptsAreTheReport' /\ RefusalLeavesNoTrace'
    BY <1>2 DEF remediate, ProgressOK, ScriptsAreTheReport, RefusalLeavesNoTrace
<1> QED BY <1>1, <1>3, <1>4 DEF IInv, RInv

(* Remediate leaves the scan alone, but for the count of failures.         *)
LEMMA ScanLeftAlone ==
  ASSUME SInv, UNCHANGED <<world, command, job, warned, untold>>, faults' \in 0 .. MaxFaults
  PROVE  SInv'
<1>1. ScanTypes'
    BY DEF SInv, ScanTypes, world, command, Warning
<1>2. WorldOK'
    BY DEF SInv, WorldOK, Stranded, world, command
<1>3. JobsOK'
    BY DEF SInv, JobsOK, world, command
<1>4. ResultOK'
    BY DEF SInv, ResultOK, world, command
<1> QED BY <1>1, <1>2, <1>3, <1>4 DEF SInv

LEMMA RemediateStepInv == ASSUME IInv, Meanwhile \/ Start \/ RunRemediate \/ Killed PROVE IInv'
<1>1. UNCHANGED <<world, command, job, warned, untold>> /\ faults' \in 0 .. MaxFaults
    BY Constants
       DEF IInv, SInv, ScanTypes, Meanwhile, Start, RunRemediate, ReadReport, MakeDir, OpenScript, WriteScript, Announce,
           Killed, Refused, scan
<1>2. RInv'
    BY MeanwhileInv, StartInv, ReadReportInv, MakeDirInv, OpenScriptInv, WriteScriptInv, AnnounceInv, KilledInv
       DEF IInv, RunRemediate
<1> QED BY <1>1, <1>2, ScanLeftAlone DEF IInv

LEMMA StutterInv == ASSUME IInv, UNCHANGED vars PROVE IInv'
<1>1. UNCHANGED <<world, command, job, warned, untold, faults, remediate, report>>
    BY DEF vars, scan, command
<1>2. SInv'
    BY <1>1, ScanLeftAlone DEF IInv, SInv, ScanTypes
<1>3. FileTypes'
    BY <1>1 DEF IInv, RInv, FileTypes, remediate, IsContent
<1>4. /\ UNCHANGED <<at, type, floor, rows, queue, dir, before, code, runs, pc>>
      /\ Path' = Path /\ \A p : Commands(p)' = Commands(p)
    BY <1>1 DEF remediate, command, Path, Current, First, Commands
<1>5. ProgressOK'
    BY <1>1, <1>4, SameReport DEF IInv, RInv, ProgressOK, WholeOrWaiting
<1>6. ScriptsAreTheReport' /\ RefusalLeavesNoTrace'
    BY <1>1, <1>4, SameReport DEF IInv, RInv, ScriptsAreTheReport, RefusalLeavesNoTrace
<1> QED BY <1>2, <1>3, <1>5, <1>6 DEF IInv, RInv

LEMMA InitInv == Init => IInv
<1> SUFFICES ASSUME Init PROVE IInv
    OBVIOUS
<1>1. \A r \in Region : job[r] = NewJob
    BY DEF Init, ScanInit
<1>2. NewJob \in Job
    BY CallSet DEF NewJob, Job
<1>3. \A account \in Accounts : account \subseteq Thing
    BY OrphanAssumption
<1>4. ScanTypes
  <2>1. job \in [Region -> Job]
      BY <1>2 DEF Init, ScanInit
  <2>2. present \subseteq Thing /\ absent \subseteq Thing /\ kept \subseteq Thing
      BY <1>3 DEF Init, ScanInit, Stranded
  <2>3. moves = 0 /\ faults = 0 /\ pc \in {"scan", "over"} /\ exit = 0 /\ minCost = FALSE /\ failOn = FALSE
        /\ warned = {} /\ untold = {} /\ resources = {}
      BY DEF Init, ScanInit
  <2>4. moves \in 0 .. MaxMoves /\ faults \in 0 .. MaxFaults
      BY <2>3, Constants
  <2> QED BY <2>1, <2>2, <2>3, <2>4 DEF ScanTypes
<1>5. WorldOK
    BY DEF Init, ScanInit, WorldOK
<1>6. JobsOK
  <2>1. \A r \in Region : Sound(r, job[r], absent, untold) /\ Clean(job[r], kept)
      BY <1>1, NewJobSound DEF Clean
  <2>2. ASSUME NEW r \in Region PROVE Whole(r, job[r], kept)
    <3> SUFFICES ASSUME NEW t \in kept PROVE ~Behind(t, job[r])
        BY DEF Whole
    <3>1. CASE ScanInit
      <4>1. t \in Thing /\ kind[t] \in OrphanKind
          BY <1>4, <3>1 DEF ScanTypes, ScanInit, Stranded
      <4> QED BY <1>1, <4>1, Constants, Kinds DEF Behind, NewJob, Position
    <3>2. CASE ~ScanInit
        BY <3>2 DEF Init
    <3> QED BY <3>1, <3>2
  <2> QED BY <2>1, <2>2 DEF JobsOK
<1>7. ResultOK
    BY DEF Init, ScanInit, ResultOK
<1>8. FileTypes
  <2>1. report.type \in Types \cup {"bare", "absent", "torn"} /\ report.rows \subseteq Rows
      BY RemediationAssumption DEF Init, ScanInit, Absent, Report
  <2> QED BY <2>1, RemediationAssumption DEF Init, RemediationInit, FileTypes, Types, IsContent
<1>9. ProgressOK /\ ScriptsAreTheReport /\ RefusalLeavesNoTrace
    BY DEF Init, RemediationInit, ProgressOK, ScriptsAreTheReport, RefusalLeavesNoTrace
<1> QED BY <1>4, <1>5, <1>6, <1>7, <1>8, <1>9 DEF IInv, SInv, RInv

LEMMA NextInv == IInv /\ [Next]_vars => IInv'
  BY ScanStepInv, RemediateStepInv, StutterInv DEF Next, Over

(* The invariant holds of every behaviour.                                 *)
THEOREM Invariance == Spec => []IInv
  BY InitInv, NextInv, PTL DEF Spec

(* The state is of the types it is meant to be: what the reader calls      *)
(* orphans, the report, and the scripts.                                   *)
THEOREM TypeCorrect == Spec => []TypeOK
  BY Invariance, TypesFollow, PTL

(* Nothing that was in use throughout the scan is condemned, whatever the  *)
(* account, however it changes and whichever calls fail; but for the rules *)
(* whose tags were not read.                                               *)
THEOREM LivingSpared == Spec => []SparesTheLiving
<1>1. IInv => SparesTheLiving
    BY DEF IInv, SInv, JobsOK, Sound, Judged, SparesTheLiving
<1> QED BY <1>1, Invariance, PTL

(* A scan without a warning, or past a gate that exits 0, reports all that *)
(* was an orphan throughout.                                               *)
THEOREM QuietIsWhole == Spec => []QuietScanIsWhole
<1>1. IInv => QuietScanIsWhole
    BY DEF IInv, SInv, ResultOK, QuietScanIsWhole
<1> QED BY <1>1, Invariance, PTL

(* A run of remediate that ends well leaves the scripts of the report      *)
(* whole, and no run puts anything else there.                             *)
THEOREM ScriptsRight == Spec => []ScriptsAreTheReport
<1>1. IInv => ScriptsAreTheReport
    BY DEF IInv, RInv
<1> QED BY <1>1, Invariance, PTL

(* A report that is refused leaves no script.                              *)
THEOREM RefusalTraceless == Spec => []RefusalLeavesNoTrace
<1>1. IInv => RefusalLeavesNoTrace
    BY DEF IInv, RInv
<1> QED BY <1>1, Invariance, PTL

(* A script of orphans that is right stays as it is.                       *)
LEMMA GoodStep ==
  ASSUME IInv, [Next]_vars, NEW p \in Provider, Readable, Due("orphans", p) # {},
         dir[ScriptName("orphans", p)] = Text(Due("orphans", p))
  PROVE  dir'[ScriptName("orphans", p)] = dir[ScriptName("orphans", p)]
<1>1. ScriptName("orphans", p) \in Script
    BY DEF Script, Types
<1>2. Text(Due("orphans", p)) # Absent /\ Text(Due("orphans", p)) # TornFile
    BY DEF Text, Absent, TornFile, Report
<1>3. CASE Meanwhile
    BY <1>1, <1>2, <1>3 DEF Meanwhile
<1>4. CASE OpenScript
  <2>1. at = "scripts" /\ queue # {}
      BY <1>4 DEF OpenScript
  <2>2. Current \in Provider /\ Path = ScriptName(type, Current) /\ Path \in Script /\ type \in Types
      BY <2>1, Turns DEF IInv, RInv, FileTypes
  <2>3. Commands(Current) = Due(type, Current)
      BY <2>1, <2>2, CommandsAreDue DEF IInv, RInv, ProgressOK
  <2>4. CASE Path = ScriptName("orphans", p)
    <3>1. type = "orphans"
        BY <2>2, <2>4, ScriptNames
    <3>2. Current = p
        BY <2>2, <2>4, <3>1, ScriptNames
    <3>3. UpToDate
        BY <2>3, <2>4, <3>1, <3>2 DEF UpToDate
    <3> QED BY <1>4, <3>3 DEF OpenScript
  <2>5. CASE Path # ScriptName("orphans", p)
      BY <1>1, <1>4, <2>5 DEF OpenScript, IInv, RInv, FileTypes
  <2> QED BY <2>4, <2>5
<1>5. CASE WriteScript
  <2>1. dir[Path] = TornFile
      BY <1>5 DEF WriteScript, IInv, RInv, ProgressOK
  <2> QED BY <1>1, <1>2, <1>5, <2>1 DEF WriteScript, IInv, RInv, FileTypes
<1>6. CASE ~Meanwhile /\ ~OpenScript /\ ~WriteScript
  <2>1. dir' = dir
      BY <1>6 DEF Next, remediate, vars, Start, RunRemediate, ReadReport, MakeDir, Announce, Killed, Over
  <2> QED BY <2>1
<1> QED BY <1>3, <1>4, <1>5, <1>6

(* Running remediate again never spoils a script that is already what the  *)
(* report says, not even when the run is killed halfway.                   *)
THEOREM GoodStays == Spec => GoodScriptStaysGood
<1>1. IInv /\ [Next]_vars =>
        [\A p \in Provider :
           LET s == ScriptName("orphans", p)
               due == Due("orphans", p)
           IN  (Readable /\ due # {} /\ dir[s] = Text(due)) => dir'[s] = dir[s]]_vars
    BY GoodStep
<1> QED BY <1>1, Invariance, PTL DEF Spec, GoodScriptStaysGood
=============================================================================
