------------------------------ MODULE DriftScan ------------------------------
(***************************************************************************)
(* cloudgov drift: a Terraform state file compared with the live account.  *)
(* runDrift (cmd/drift.go) parses the file, Scan (internal/drift) checks   *)
(* each instance in a goroutine of an errgroup limited to --concurrency,   *)
(* each writing its own slot, and the AWS provider's CheckDrift            *)
(* (internal/cloud/aws/drift.go) asks one call - for a bucket, two - and   *)
(* answers IN_SYNC, MODIFIED or DELETED, or an error that becomes a row.   *)
(*                                                                         *)
(* The account changes while it is being read.  An object is a resource    *)
(* type and an id; "described" is what the API still describes, and        *)
(* "edited" the attributes that differ from the file's.                    *)
(***************************************************************************)
EXTENDS Integers, Sequences, FiniteSets

CONSTANTS
  StateFile,    \* the files there may be: [version, resources], a resource
                \* being [mode, type, name, id, null], where null names the
                \* attributes the file holds no value of
  Filter,       \* --resource-type, "" for every type
  Concurrency,  \* --concurrency
  Object,       \* the <<type, id>> of the account
  Elsewhere,    \* the ids that live outside the configured region
  Attribute,    \* the <<type, attribute>> that can change in place
  MaxChanges,   \* bound: how often the account changes
  MaxFaults     \* bound: how many calls fail, cancellation aside

Resources == [mode : STRING, type : STRING, name : STRING, id : STRING, null : SUBSET STRING]

ASSUME DriftAssumption ==
  /\ Object \subseteq STRING \X STRING /\ Attribute \subseteq STRING \X STRING
  /\ \A f \in StateFile :
       /\ f.resources \in Seq(Resources)
       /\ \A i \in DOMAIN f.resources : <<f.resources[i].type, f.resources[i].id>> \in Object
  /\ Filter \subseteq STRING /\ Concurrency \subseteq Int
  /\ MaxChanges \in Nat /\ MaxFaults \in Nat

VARIABLES
  file, filter, concurrency, gating,  \* the command, chosen in Init
  described, edited,  \* the account
  changes, faults,
  cancelled,  \* the signal context
  main,       \* where runDrift and Scan stand
  filtered,   \* the instances Scan checks, by their place in the file
  job,        \* where each goroutine stands
  results,    \* Scan's slots
  exitCode,   \* raised by the gates; 1 for a command error
  seen        \* history: what each instance's object was until its check ended

input   == <<file, filter, concurrency, gating>>
account == <<described, edited, changes, seen>>
vars    == <<input, account, faults, cancelled, main, filtered, job, results, exitCode>>

-----------------------------------------------------------------------------
(* The resource types and the attributes compared.                         *)
Supported == {"aws_security_group", "aws_iam_policy", "aws_s3_bucket",
              "aws_s3_bucket_public_access_block", "aws_instance", "aws_db_instance", "aws_lb"}

Bucket      == "aws_s3_bucket"
AccessBlock == "aws_s3_bucket_public_access_block"

(* The fields given to CompareAttributes.  A bucket's "bucket" is the id   *)
(* it was asked about; its versioning is read and not compared.            *)
Compared(type) ==
  CASE type = "aws_security_group" -> {"name", "description"}
    [] type = "aws_iam_policy"     -> {"description", "path"}
    [] type = Bucket               -> {"bucket"}
    [] type = AccessBlock          -> {"block_public_acls", "block_public_policy",
                                       "ignore_public_acls", "restrict_public_buckets"}
    [] type = "aws_instance"       -> {"instance_type", "key_name"}
    [] type = "aws_db_instance"    -> {"instance_class", "engine_version", "multi_az",
                                       "deletion_protection"}
    [] type = "aws_lb"             -> {"load_balancer_type", "internal"}
    [] OTHER                       -> {}

(* The live MultiAZ and DeletionProtection of a database are pointers, and *)
(* "%v" prints the address of each.                                        *)
PrintedAsAddress(type) ==
  IF type = "aws_db_instance" THEN {"multi_az", "deletion_protection"} ELSE {}

(* The attributes of r that no live value is equal to: an address is no    *)
(* text of the file, and a null of the file, "<nil>" to formatValue, is no *)
(* live text, which is "" when the account holds nothing.                  *)
NeverEqual(r) == Compared(r.type) \cap (r.null \cup PrintedAsAddress(r.type))

(* CompareAttributes, where E are the attributes edited in the account.    *)
Differing(r, E) == (E \cap Compared(r.type)) \cup NeverEqual(r)

S3       == {Bucket, AccessBlock}
Regional == Supported \ (S3 \cup {"aws_iam_policy"})

Status == {"DELETED", "MODIFIED", "ERROR", "IN_SYNC"}

(* A row of the report; "" is the zero value of a slot nothing has filled. *)
Row(r, status, fields) == [type |-> r.type, name |-> r.name, id |-> r.id, status |-> status, fields |-> fields]
NoRow == [type |-> "", name |-> "", id |-> "", status |-> "", fields |-> {}]

(* ParseTFStateBytes keeps the managed resources; Scan, those of the type  *)
(* asked for that a provider supports.                                     *)
Instance   == file.resources
Managed    == {i \in DOMAIN Instance : Instance[i].mode = "managed"}
Wanted     == {i \in Managed : filter = "" \/ Instance[i].type = filter}
Checkable  == {i \in Wanted : Instance[i].type \in Supported}

(* Seeded fault: the flag is taken as it is.                               *)
LimitUnclamped == concurrency

Limit == IF concurrency <= 0 THEN 10 ELSE concurrency

Of(i) == <<Instance[i].type, Instance[i].id>>
Snapshot(o, D, E) == [described |-> o \in D, edited |-> E[o]]

Init ==
  /\ file \in StateFile /\ filter \in Filter /\ concurrency \in Concurrency /\ gating \in BOOLEAN
  /\ described = Object
  /\ edited = [o \in Object |-> {}]
  /\ changes = 0 /\ faults = 0 /\ cancelled = FALSE
  /\ main = "parse"
  /\ filtered = {}
  /\ job = [i \in filtered |-> "none"]
  /\ results = [i \in filtered |-> NoRow]
  /\ seen = [i \in filtered |-> Snapshot(Of(i), described, edited)]
  /\ exitCode = 0

-----------------------------------------------------------------------------
(* The account changes under the scan.                                     *)
Active(i) == job[i] \in {"first", "versioning"}
InFlight  == {i \in filtered : Active(i)}

(* The objects that vanish with o: a bucket's access block with it.        *)
Owned(o) == {o} \cup (IF o[1] = Bucket THEN {<<AccessBlock, o[2]>>} ELSE {})

Becomes(D, E) ==
  /\ changes < MaxChanges
  /\ changes' = changes + 1
  /\ described' = D /\ edited' = E
  /\ seen' = [i \in filtered |-> IF Active(i) THEN Snapshot(Of(i), D, E) ELSE seen[i]]
  /\ UNCHANGED <<input, faults, cancelled, main, filtered, job, results, exitCode>>

Delete(o) == o \in described /\ Becomes(described \ Owned(o), edited)

(* Created again as the file has it, if the bucket it belongs to exists.   *)
Recreate(o) ==
  /\ o \notin described
  /\ o[1] = AccessBlock => <<Bucket, o[2]>> \in described
  /\ Becomes(described \cup {o}, [edited EXCEPT ![o] = {}])

Edit(o, a) ==
  /\ o \in described
  /\ a \notin edited[o]
  /\ Becomes(described, [edited EXCEPT ![o] = @ \cup {a}])

(* Only the file's objects, and only while they are being checked: what   *)
(* happens to the others, before or after, no row can tell.                *)
World == \E o \in {Of(i) : i \in filtered} : main = "spawn" /\
  (Delete(o) \/ Recreate(o) \/ \E at \in Attribute : at[1] = o[1] /\ Edit(o, at[2]))

-----------------------------------------------------------------------------
(* What the API answers about an object.                                   *)

(* The answers the checks take for a deletion.  Groups, instances,         *)
(* databases and balancers are looked for in the configured region only.   *)
RegionalGone(o) == o[1] \in Regional /\ (o \notin described \/ o[2] \in Elsewhere)

(* NoSuchEntity of a policy, a 404 of a bucket.                            *)
GlobalGone(o) == o[1] \in {"aws_iam_policy", Bucket} /\ o \notin described

(* An access block is missing only while its bucket exists.                *)
AccessBlockGone(o) ==
  /\ o[1] = AccessBlock /\ o[2] \notin Elsewhere
  /\ o \notin described /\ <<Bucket, o[2]>> \in described

NotFound(o) == RegionalGone(o) \/ GlobalGone(o) \/ AccessBlockGone(o)

(* A bucket of another region answers with a redirect, an error.           *)
Found(o) == o \in described /\ (o[2] \in Elsewhere => o[1] = "aws_iam_policy")

(* A denied, throttled or cancelled call.                                  *)
MayFail == cancelled \/ faults < MaxFaults
Charge  == faults' = IF cancelled THEN faults ELSE faults + 1

-----------------------------------------------------------------------------
(* Seeded fault: instances of unsupported types are given slots as well.   *)
ParseUnsupported ==
  /\ main = "parse"
  /\ file.version = 4
  /\ main' = "spawn"
  /\ filtered' = Wanted
  /\ job' = [i \in Wanted |-> "none"]
  /\ results' = [i \in Wanted |-> NoRow]
  /\ seen' = [i \in Wanted |-> Snapshot(Of(i), described, edited)]
  /\ UNCHANGED <<input, described, edited, changes, faults, cancelled, exitCode>>

(* runDrift up to the scan: the flags, the file and the providers.         *)
Parse ==
  /\ main = "parse"
  /\ file.version = 4
  /\ main' = "spawn"
  /\ filtered' = Checkable
  /\ job' = [i \in Checkable |-> "none"]
  /\ results' = [i \in Checkable |-> NoRow]
  /\ seen' = [i \in Checkable |-> Snapshot(Of(i), described, edited)]
  /\ UNCHANGED <<input, described, edited, changes, faults, cancelled, exitCode>>

ParseFails ==
  /\ main = "parse"
  /\ \/ file.version # 4 /\ UNCHANGED faults
     \/ MayFail /\ Charge
  /\ main' = "exited" /\ exitCode' = 1
  /\ UNCHANGED <<input, account, cancelled, filtered, job, results>>

(* The loop's order.                                                       *)
IsNext(i) == job[i] = "none" /\ \A j \in filtered : j < i => job[j] # "none"

(* g.Go, which blocks at the limit.                                        *)
Spawn(i) ==
  /\ main = "spawn" /\ IsNext(i)
  /\ Cardinality(InFlight) < Limit
  /\ job' = [job EXCEPT ![i] = "first"]
  /\ seen' = [seen EXCEPT ![i] = Snapshot(Of(i), described, edited)]
  /\ UNCHANGED <<input, described, edited, changes, faults, cancelled, main, filtered, results, exitCode>>

-----------------------------------------------------------------------------
(* The goroutine of instance i.                                            *)

LoopVariable == CHOOSE i \in filtered : job[i] # "none" /\ \A j \in filtered : j > i => job[j] = "none"

(* Seeded fault: the closure shares the loop's variable.                   *)
AnswerShared(i, status, fields) ==
  /\ results' = [results EXCEPT ![LoopVariable] = Row(Instance[i], status, fields)]
  /\ job' = [job EXCEPT ![i] = "done"]

Answer(i, status, fields) ==
  /\ results' = [results EXCEPT ![i] = Row(Instance[i], status, fields)]
  /\ job' = [job EXCEPT ![i] = "done"]

Compare(i) ==
  LET fields == Differing(Instance[i], edited[Of(i)])
  IN  Answer(i, IF fields = {} THEN "IN_SYNC" ELSE "MODIFIED", fields)

(* The check's first call, and for all but a bucket its only one.          *)
Check(i) ==
  /\ job[i] = "first"
  /\ \/ NotFound(Of(i)) /\ Answer(i, "DELETED", {})
     \/ Found(Of(i)) /\ Instance[i].type # Bucket /\ Compare(i)
     \/ Found(Of(i)) /\ Instance[i].type = Bucket /\ UNCHANGED results
        /\ job' = [job EXCEPT ![i] = "versioning"]
     \/ ~NotFound(Of(i)) /\ ~Found(Of(i)) /\ Answer(i, "ERROR", {})
  /\ UNCHANGED <<input, account, faults, cancelled, main, filtered, exitCode>>

(* Seeded fault: a bucket gone by the second call is taken for whole.      *)
CheckVersioningLoosely(i) ==
  /\ job[i] = "versioning"
  /\ Compare(i)
  /\ UNCHANGED <<input, account, faults, cancelled, main, filtered, exitCode>>

(* GetBucketVersioning: a bucket deleted since HeadBucket is an error.     *)
CheckVersioning(i) ==
  /\ job[i] = "versioning"
  /\ IF Found(Of(i)) THEN Compare(i) ELSE Answer(i, "ERROR", {})
  /\ UNCHANGED <<input, account, faults, cancelled, main, filtered, exitCode>>

(* Either call refused: the row is an ERROR, and the scan goes on.         *)
CheckFails(i) ==
  /\ Active(i)
  /\ MayFail /\ Charge
  /\ Answer(i, "ERROR", {})
  /\ UNCHANGED <<input, account, cancelled, main, filtered, exitCode>>

Worker(i) == Check(i) \/ CheckVersioning(i) \/ CheckFails(i)

-----------------------------------------------------------------------------
(* g.Wait.                                                                 *)
Join ==
  /\ main = "spawn"
  /\ \A i \in filtered : job[i] = "done"
  /\ main' = "gate"
  /\ UNCHANGED <<input, account, faults, cancelled, filtered, job, results, exitCode>>

(* The report; its order, the worst status first, is left out.             *)
Final == {i \in filtered : results[i].type # ""}

Drifted    == \E i \in Final : results[i].status \in {"MODIFIED", "DELETED"}
Incomplete == {i \in Final : results[i].status = "ERROR"}

(* Seeded fault: an unread resource is a table cell and nothing more.      *)
GateDriftOnly ==
  /\ main = "gate"
  /\ exitCode' = IF gating /\ Drifted THEN 2 ELSE 0
  /\ main' = "render"
  /\ UNCHANGED <<input, account, faults, cancelled, filtered, job, results>>

(* gateBool, then gateIncomplete, which an exit 2 stands against.          *)
Gate ==
  /\ main = "gate"
  /\ exitCode' = IF gating /\ Drifted THEN 2 ELSE IF gating /\ Incomplete # {} THEN 3 ELSE 0
  /\ main' = "render"
  /\ UNCHANGED <<input, account, faults, cancelled, filtered, job, results>>

(* The report is written, or its file cannot be.                           *)
Render ==
  /\ main = "render"
  /\ main' = "exited"
  /\ \/ UNCHANGED <<exitCode, faults>>
     \/ faults < MaxFaults /\ faults' = faults + 1 /\ exitCode' = 1
  /\ UNCHANGED <<input, account, cancelled, filtered, job, results>>

(* The first SIGINT or SIGTERM.                                            *)
Interrupt ==
  /\ main # "exited" /\ ~cancelled
  /\ cancelled' = TRUE
  /\ UNCHANGED <<input, account, faults, main, filtered, job, results, exitCode>>

Main == Parse \/ ParseFails \/ (\E i \in filtered : Spawn(i)) \/ Join \/ Gate \/ Render

Finished == main = "exited" /\ UNCHANGED vars

Next == Main \/ (\E i \in filtered : Worker(i)) \/ World \/ Interrupt \/ Finished

Spec == Init /\ [][Next]_vars

(* Goroutines are scheduled and every AWS call has a deadline.             *)
FairSpec == Spec /\ WF_vars(Main) /\ WF_vars(\E i \in filtered : Worker(i))

-----------------------------------------------------------------------------
Text    == STRING \cup {""}
RowType == [type : Text, name : Text, id : Text, status : Status \cup {""},
            fields : SUBSET UNION {Compared(t) : t \in Supported}]

(* The types, and slots that fill as their goroutines end.                 *)
TypeOK ==
  /\ file \in StateFile /\ filter \in Filter /\ concurrency \in Concurrency /\ gating \in BOOLEAN
  /\ described \subseteq Object
  /\ edited \in [Object -> SUBSET {at[2] : at \in Attribute}]
  /\ changes \in 0 .. MaxChanges /\ faults \in 0 .. MaxFaults /\ cancelled \in BOOLEAN
  /\ main \in {"parse", "spawn", "gate", "render", "exited"}
  /\ filtered \subseteq Checkable
  /\ job \in [filtered -> {"none", "first", "versioning", "done"}]
  /\ results \in [filtered -> RowType]
  /\ seen \in [filtered -> [described : BOOLEAN, edited : SUBSET {at[2] : at \in Attribute}]]
  /\ exitCode \in 0 .. 3

(* However the checks interleave, the report holds one row for every       *)
(* instance the file manages that Scan can check, under its own address    *)
(* and id, in the slot of its own goroutine (scanner.go's results[i]):     *)
(* none lost, none over another's.                                         *)
EveryInstanceHasItsRow ==
  main \in {"gate", "render"} =>
    /\ Final = Checkable
    /\ \A i \in filtered : /\ results[i].status \in Status
                       /\ results[i] = Row(Instance[i], results[i].status, results[i].fields)

(* What a row's status says of the object as it was at the answer.         *)
IsTrue(i, row) ==
  LET differs == seen[i].edited \cap Compared(Instance[i].type)
  IN  /\ row.status = "DELETED" =>
           \/ ~seen[i].described
           \/ Instance[i].id \in Elsewhere /\ Instance[i].type \in Regional
      /\ row.status = "MODIFIED" =>
           /\ seen[i].described
           /\ differs \subseteq row.fields
           /\ row.fields \subseteq differs \cup NeverEqual(Instance[i])
           /\ row.fields # {}
      /\ row.status = "IN_SYNC"  => seen[i].described /\ differs = {}

(* A verdict follows the account as it was when its check ended, whatever  *)
(* happened meanwhile: DELETED of a resource the API no longer described   *)
(* in the region asked, never of one it refused to describe ("only a       *)
(* genuine 404 is deletion", drift.go); IN_SYNC of a resource that was     *)
(* there with every compared field as declared; MODIFIED with every field  *)
(* that differed, and with no field that did not, but for the ones whose   *)
(* two sides can never print alike: a database that nobody touched is      *)
(* MODIFIED in its multi_az and deletion_protection.                       *)
VerdictFollowsAccount == \A i \in filtered : job[i] = "done" => IsTrue(i, results[i])

(* No more than --concurrency checks are in flight, ten without one.       *)
ChecksAreBounded == Cardinality(InFlight) <= Limit

(* The exit code of a gate is evidence: 0 only when every check came back  *)
(* and found its resource as declared; 2 only for drift; 3 only when there *)
(* is no drift to report and some resource went unread - an interrupted    *)
(* run among them (drift.Incomplete: "a run denied every Describe call     *)
(* reports a tfstate as matching an account it never saw").                *)
ExitIsEvidence ==
  (main = "exited" /\ gating) =>
    /\ exitCode = 0 => \A i \in filtered : job[i] = "done" /\ results[i].status = "IN_SYNC"
    /\ exitCode = 2 => Drifted
    /\ exitCode = 3 => ~Drifted /\ Incomplete # {}

(* Every run ends, whatever is refused and however the account changes.    *)
EveryRunEnds == <>(main = "exited")
=============================================================================
