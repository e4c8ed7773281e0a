----------------------------- MODULE MCDriftScan -----------------------------
(* Five state files: a bucket with its access block and a security group;  *)
(* the two instances of one resource, a data source and a queue, which     *)
(* cloudgov cannot check; resources of another region; a database, and a   *)
(* policy the file holds no description of; a version 3 file.              *)
EXTENDS DriftScan

Lacking(mode, type, name, id, null) ==
  [mode |-> mode, type |-> type, name |-> name, id |-> id, null |-> null]
Resource(mode, type, name, id) == Lacking(mode, type, name, id, {})
File(version, resources) == [version |-> version, resources |-> resources]

Group    == "aws_security_group"
Node     == "aws_instance"
Queue    == "aws_sqs_queue"
Database == "aws_db_instance"
Policy   == "aws_iam_policy"

MCStateFile == {
  File(4, <<Resource("managed", Bucket, "logs", "b1"),
            Resource("managed", AccessBlock, "logs", "b1"),
            Resource("managed", Group, "web", "s1")>>),
  File(4, <<Resource("managed", Node, "node", "i1"),
            Resource("data", Group, "web", "s1"),
            Resource("managed", Queue, "jobs", "q1"),
            Resource("managed", Node, "node", "i2")>>),
  File(4, <<Resource("managed", Group, "far", "s9"),
            Resource("managed", Bucket, "far", "b9")>>),
  File(4, <<Resource("managed", Database, "orders", "d1"),
            Lacking("managed", Policy, "ops", "p1", {"description"})>>),
  File(3, <<Resource("managed", Group, "web", "s1")>>) }

MCObject == {<<Bucket, "b1">>, <<AccessBlock, "b1">>, <<Group, "s1">>, <<Node, "i1">>,
             <<Node, "i2">>, <<Group, "s9">>, <<Queue, "q1">>, <<Bucket, "b9">>,
             <<Database, "d1">>, <<Policy, "p1">>}

MCElsewhere == {"s9", "b9"}

MCAttribute == {<<Bucket, "versioning">>, <<AccessBlock, "block_public_acls">>,
                <<Group, "ingress">>, <<Group, "description">>, <<Node, "instance_type">>,
                <<Database, "instance_class">>, <<Database, "multi_az">>,
                <<Policy, "description">>}

MCFilter      == {"", Group}
MCConcurrency == {0, 1, 2}
=============================================================================
