---------------------------- MODULE MCRemediation ----------------------------
(* Two regions.  In one of them a thing of each way of being judged: a     *)
(* load balancer by two target groups, a snapshot and an image by indexes  *)
(* read before and after them, database and cluster residue by their live  *)
(* sets, a rule by its tags; in the other a volume, judged by its own      *)
(* attachment.  The other kinds share the code path of one of these; their *)
(* calls are made, and may fail, and find nothing.                         *)
EXTENDS Remediation

CONSTANTS east, west, disk, plug, lb, blue, green, snap, ami, box, db, dump, dev, logs, rule, debris

MCThing == {disk, plug, lb, blue, green, snap, ami, box, db, dump, dev, logs, rule, debris}

MCKind ==
  [t \in MCThing |->
     CASE t = disk -> "disk" [] t = plug -> "attachment" [] t = lb -> "load_balancer"
       [] t \in {blue, green} -> "targets" [] t = snap -> "snapshot" [] t = ami -> "image"
       [] t = box -> "instance" [] t = db -> "db" [] t = dump -> "db_snapshot"
       [] t = dev -> "eks_cluster" [] t = logs -> "eks_log_group" [] OTHER -> "karpenter_rule"]

MCOwners ==
  [t \in MCThing |->
     CASE t = disk -> {plug} [] t = lb -> {blue, green} [] t = snap -> {ami} [] t = ami -> {box}
       [] t = dump -> {db} [] t \in {logs, rule} -> {dev} [] OTHER -> {}]

MCHome == [t \in MCThing |-> IF t \in {disk, plug} THEN west ELSE east]

MCPage == [t \in MCThing |-> IF t = dump THEN 2 ELSE 1]

MCPages == [call \in Call |-> IF call \in {"dbsnapshots", "databases"} THEN 2 ELSE 1]

(* A few things each, so that the account can come to hold any of them in  *)
(* use and out of use.                                                     *)
MCAccounts ==
  {{disk, plug, lb, blue, dump}, {lb, snap, ami, box, logs, debris}, {disk, snap, db, dump, dev, logs, rule}}

(* An image comes with its snapshot, a cluster with its residue.           *)
MCCreations == {{plug}, {blue}, {green}, {ami, snap}, {box}, {db}, {dev, logs, rule}}

(* The storage script of "network-aws" and the network script of "aws" are *)
(* one file.                                                               *)
MCSorted == <<"aws", "network-aws", "x/y">>
MCAccepted == {"aws", "network-aws"}

ARow(p, t, runnable, severity) == [provider |-> p, what |-> t, runnable |-> runnable, severity |-> severity]

Finding == {"storage", "network"}

MCOtherReports ==
  {Report("storage", {ARow("aws", disk, Finding, "HIGH"), ARow("aws", snap, Finding, "LOW"),
                      ARow("network-aws", disk, Finding, "LOW"), ARow("network-aws", lb, {}, "HIGH")}),
   Report("network", {ARow("aws", lb, Finding, "HIGH"), ARow("x/y", lb, Finding, "HIGH")}),
   Report("orphans", {ARow("aws", disk, {"orphans"}, ""), ARow("aws", lb, {}, ""),
                      ARow("network-aws", disk, {"orphans"}, "")}),
   Report("bare", {ARow("aws", disk, {"orphans"}, ""), ARow("aws", lb, Finding, "HIGH"),
                   ARow("network-aws", snap, Finding, "LOW")})}

Older == Text({ARow("aws", db, {"orphans"}, "")})

OfNetworkAws == {ScriptName(t, "network-aws") : t \in Types}

MCDirectories ==
  {[s \in Script |-> Absent],
   [s \in Script |-> IF s \in OfNetworkAws THEN Link ELSE Older],
   [s \in Script |-> IF s \in OfNetworkAws THEN Text({ARow("network-aws", disk, {"orphans"}, "")}) ELSE TornFile]}
=============================================================================
