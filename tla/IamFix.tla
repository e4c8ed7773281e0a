------------------------------- MODULE IamFix -------------------------------
(***************************************************************************)
(* `cloudgov iam fix` (cmd/iam.go, internal/fix): read a saved scan,       *)
(* refuse a partial one, build a minimal policy for each principal with a  *)
(* finding, and write one file after the other into a directory that may   *)
(* already hold files, each write of which may fail.                       *)
(*                                                                         *)
(* A report carries what its scan observed; beside it stands what the      *)
(* principals really did in the window, which only a complete scan is      *)
(* known to have seen (IamScan, CleanScanIsWhole).                         *)
(***************************************************************************)
EXTENDS Severity, FiniteSets

CONSTANTS
  Principal, Action, Resource,
  Arn,        \* the resources a statement can name
  AnyResource,
  TfSlug, RawSlug,  \* the file each principal's name, and its ID, is slugged to
  File, Note, \* the names in the directory; Note is partialScanNote
  Absent, Symlink, Stale, Torn,  \* no file, somebody's link, a file of an earlier run, a write cut short
  Reports,    \* saved scans: [findings, used, activity, incomplete]
  Commands    \* command lines: [accept, format, floor, failOn]

Permission == [action : Action, resource : Resource]

(* A generated file: whose it is, what it grants, and whether it carries   *)
(* the caveat.                                                             *)
Generated == [owner : Principal, policy : SUBSET Permission, banner : BOOLEAN]
NoteText  == [note |-> TRUE]

(* What a name may hold that this run has not written.                     *)
Other == {Absent, Symlink, Stale, Torn}

ASSUME FixAssumption ==
  /\ Arn \subseteq Resource \ {AnyResource} /\ AnyResource \in Resource
  /\ TfSlug \in [Principal -> File] /\ RawSlug \in [Principal -> File] /\ Note \notin File
  /\ Other \cap Generated = {}
  /\ Commands \subseteq [accept : BOOLEAN, format : {"terraform", "json"}, floor : Level, failOn : BOOLEAN]
  /\ \A r \in Reports :
       /\ r.findings \in SUBSET [principal : Principal, severity : Level]
       /\ r.used \in [Principal -> SUBSET Permission]
       /\ r.activity \in [Principal -> SUBSET Permission]
       /\ r.incomplete \in BOOLEAN
       /\ ~r.incomplete => r.used = r.activity

VARIABLES
  command, report,
  main,      \* where runIAMFix stands
  disk,      \* the output directory
  policies,  \* the policies built, per principal a set of statements
  pending,   \* the principals whose files are still to be written
  unfixed,   \* those no policy could be built for
  exit

vars == <<command, report, main, disk, policies, pending, unfixed, exit>>

NoPolicy == {}

Flagged == {f.principal : f \in report.findings}

Init ==
  /\ command \in Commands /\ report \in Reports
  /\ main = "read"
  /\ disk \in [File \cup {Note} -> {Absent, Symlink, Stale}]
  /\ policies = [p \in Principal |-> NoPolicy]
  /\ pending = {} /\ unfixed = {}
  /\ exit = 0

-----------------------------------------------------------------------------
(* Seeded fault: a permission that cannot be scoped is left out.            *)
MinimalPolicyScopedOnly(used) == {u \in used : u.resource \in Arn}

(* MinimalPolicy: what was used, scoped where the audit log named an ARN   *)
(* and widened to any resource, under a Sid of its own, where it did not.  *)
MinimalPolicy(used) ==
  {[action |-> u.action, resource |-> IF u.resource \in Arn THEN u.resource ELSE AnyResource] : u \in used}

(* The default that separates a fix from a report: a partial scan is       *)
(* refused before anything is made.                                        *)
Refused == report.incomplete /\ ~command.accept

Refuse ==
  /\ main = "read"
  /\ Refused
  /\ main' = "refused" /\ exit' = 1
  /\ UNCHANGED <<command, report, disk, policies, pending, unfixed>>

(* The report cannot be read or parsed, or no provider is configured.      *)
ReadFails ==
  /\ main = "read"
  /\ main' = "failed" /\ exit' = 1
  /\ UNCHANGED <<command, report, disk, policies, pending, unfixed>>

(* Which principals get a file: raw policies for all that have a policy,   *)
(* Terraform for those with a finding at the floor.                        *)
ToWrite(fixed) ==
  IF command.format = "json" THEN fixed
  ELSE {f.principal : f \in {g \in report.findings : AtLeast(g.severity, command.floor)}}

Slug(p) == IF command.format = "json" THEN RawSlug[p] ELSE TfSlug[p]

(* Seeded fault: a principal left out is only mentioned at the terminal.    *)
GenerateUngated ==
  /\ main = "read"
  /\ ~Refused
  /\ \E lost \in SUBSET Flagged :
       /\ unfixed' = lost
       /\ policies' = [p \in Principal |-> IF p \in Flagged \ lost THEN MinimalPolicy(report.used[p]) ELSE NoPolicy]
       /\ pending' = ToWrite(Flagged \ lost)
  /\ main' = "mkdir"
  /\ UNCHANGED <<command, report, disk, exit>>

(* One policy per flagged principal, unless its provider is not there or   *)
(* cannot build one; then gateIncomplete.                                  *)
Generate ==
  /\ main = "read"
  /\ ~Refused
  /\ \E lost \in SUBSET Flagged :
       /\ unfixed' = lost
       /\ policies' = [p \in Principal |-> IF p \in Flagged \ lost THEN MinimalPolicy(report.used[p]) ELSE NoPolicy]
       /\ pending' = ToWrite(Flagged \ lost)
       /\ exit' = IF command.failOn /\ lost # {} THEN 3 ELSE 0
  /\ main' = "mkdir"
  /\ UNCHANGED <<command, report, disk>>

(* A directory that cannot be made, a symlink at the name (PathUnder) and  *)
(* a failed write all end the command.  Files written before stay, and the *)
(* file that failed keeps what it had or is cut short (os.WriteFile        *)
(* truncates first).                                                       *)
Abort(name) ==
  /\ \/ main = "mkdir" /\ command.format = "json" /\ report.incomplete /\ name = Note
     \/ main = "write" /\ \E p \in pending : name = Slug(p)
  /\ \/ UNCHANGED disk
     \/ disk[name] # Symlink /\ disk' = [disk EXCEPT ![name] = Torn]
  /\ main' = "failed" /\ exit' = 1
  /\ UNCHANGED <<command, report, policies, pending, unfixed>>

MkdirFails ==
  /\ main = "mkdir"
  /\ main' = "failed" /\ exit' = 1
  /\ UNCHANGED <<command, report, disk, policies, pending, unfixed>>

(* Seeded fault: it is written when the policies are all there.             *)
MakeDirNoteLater ==
  /\ main = "mkdir"
  /\ main' = "write"
  /\ UNCHANGED <<command, report, disk, policies, pending, unfixed, exit>>

(* Raw policies have no comment syntax: the caveat is a file of its own,   *)
(* written before the first policy.                                        *)
MakeDir ==
  /\ main = "mkdir"
  /\ IF command.format = "json" /\ report.incomplete
       THEN disk[Note] # Symlink /\ disk' = [disk EXCEPT ![Note] = NoteText]
       ELSE UNCHANGED disk
  /\ main' = "write"
  /\ UNCHANGED <<command, report, policies, pending, unfixed, exit>>

(* The map is ranged over in no particular order.                          *)
WriteFile(p) ==
  /\ main = "write"
  /\ p \in pending
  /\ disk[Slug(p)] # Symlink
  /\ disk' = [disk EXCEPT ![Slug(p)] =
       [owner |-> p, policy |-> policies[p],
        banner |-> command.format = "terraform" /\ report.incomplete]]
  /\ pending' = pending \ {p}
  /\ UNCHANGED <<command, report, main, policies, unfixed, exit>>

Done ==
  /\ main = "write"
  /\ pending = {}
  /\ main' = "done"
  /\ UNCHANGED <<command, report, disk, policies, pending, unfixed, exit>>

Ended == main \in {"refused", "failed", "done"}

(* The process is gone.                                                    *)
Terminated == Ended /\ UNCHANGED vars

Next ==
  \/ ReadFails \/ Refuse \/ Generate \/ MkdirFails \/ MakeDir \/ Done \/ Terminated
  \/ \E p \in Principal : WriteFile(p)
  \/ \E name \in File \cup {Note} : Abort(name)

Spec == Init /\ [][Next]_vars

-----------------------------------------------------------------------------
(* Every variable ranges over what the code puts there, and exit code 1    *)
(* belongs to the two ways of giving up.                                   *)
TypeOK ==
  /\ command \in Commands /\ report \in Reports
  /\ main \in {"read", "mkdir", "write", "refused", "failed", "done"}
  /\ DOMAIN disk = File \cup {Note} /\ disk[Note] \in Other \cup {NoteText}
  /\ \A f \in File : disk[f] \in Other \cup Generated
  /\ policies \in [Principal -> SUBSET Permission]
  /\ pending \subseteq Flagged /\ unfixed \subseteq Flagged
  /\ exit \in {0, 1, 3} /\ (exit = 1 <=> main \in {"refused", "failed"})

Written == {f \in File : disk[f] \notin Other}

Grants(policy, u) == \E s \in policy : s.action = u.action /\ s.resource \in {u.resource, AnyResource}

(* Access that is in use is never taken away without consent and a        *)
(* caveat.  If a file's policy does not grant everything its principal did *)
(* in the window, and the principal is not reported as unfixed, then the   *)
(* operator accepted a partial scan and the file carries the caveat or     *)
(* stands beside the note that does - at every moment, so that a write     *)
(* that fails later cannot leave it bare (generateIAMFixes,                *)
(* WriteRawPolicies).                                                      *)
LostAccessIsDeclared ==
  \A f \in Written :
    \/ \A u \in report.activity[disk[f].owner] : Grants(disk[f].policy, u)
    \/ command.accept /\ (disk[f].banner \/ disk[Note] = NoteText)
    \/ disk[f].owner \in unfixed

(* What the scan saw used stays granted whatever the audit log recorded    *)
(* about the resource, and nothing is granted that was not used            *)
(* (MinimalPolicy): least privilege from both sides.                       *)
PolicyIsWhatWasUsed ==
  \A p \in Flagged \ unfixed : main \in {"mkdir", "write", "done"} =>
    /\ \A u \in report.used[p] : Grants(policies[p], u)
    /\ \A s \in policies[p] : \E u \in report.used[p] : s.action = u.action

(* The principals that get a file under the name of p's.                   *)
Namesakes(p) == {q \in ToWrite(Flagged \ unfixed) : Slug(q) = Slug(p)}

(* Exit 0 under --fail-on: every flagged principal at the floor has a      *)
(* policy, and the file of its name was written in this run, with the      *)
(* policy of the principal it says it is of - its own, unless another that *)
(* gets a file is slugged to that name, which the exit code does not tell. *)
ExitZeroCoversReport ==
  (Ended /\ command.failOn /\ exit = 0) =>
    \A f \in report.findings : AtLeast(f.severity, command.floor) =>
      LET p    == f.principal
          file == disk[Slug(p)]
      IN  /\ p \notin unfixed
          /\ Slug(p) \in Written /\ file.owner \in Namesakes(p) /\ file.policy = policies[file.owner]
          /\ Namesakes(p) = {p} => file.owner = p

(* "one .tf file per principal" (terraform.go): each principal's own       *)
(* policy reaches a file of its own.                                       *)
OneFilePerPrincipal ==
  main = "done" =>
    \A p \in ToWrite(Flagged \ unfixed) : Slug(p) \in Written /\ disk[Slug(p)].owner = p
=============================================================================
