----------------------------- MODULE Remediation -----------------------------
(***************************************************************************)
(* cloudgov remediate (cmd/remediate.go): from a saved report to one shell *)
(* script per provider, for the orphans report OrphanScan wrote, and for   *)
(* storage and network reports (internal/orphans/fix.go,                   *)
(* internal/storage/fix.go, internal/network/fix.go).                      *)
(*                                                                         *)
(* The report is a file that travels, so a row may name any provider, and  *)
(* the directory may hold scripts of earlier runs, some cut short, and     *)
(* links.  A script is opened and truncated first and written later, and   *)
(* the process can be killed in between; it can be run again.              *)
(***************************************************************************)
EXTENDS OrphanScan, Severity

CONSTANTS
  Sorted,        \* the providers a report may name, in the order of their names
  Accepted,      \* those NameComponent takes for an element of a file name
  OtherReports,  \* reports that were saved by other commands, or elsewhere
  Floors,        \* the --severity values given
  Directories,   \* what the output directory may hold by the time remediate is run
  MaxRuns        \* bound: how often remediate is run

Types    == {"storage", "network", "orphans"}
Provider == {Sorted[i] : i \in DOMAIN Sorted}

(* The file of a provider's script.  Storage and network share a prefix:   *)
(* the storage script of "network-aws" is the network script of "aws".     *)
Prefix(t) == CASE t = "storage" -> "fix-" [] t = "network" -> "fix-network-" [] OTHER -> "delete-orphans-"

ScriptName(t, p) == Prefix(t) \o p \o ".sh"

Script == {ScriptName(t, p) : t \in Types, p \in Provider}

(* "runnable" is the types whose generator makes a command of the row.     *)
Rows == [provider : Provider, what : Thing, runnable : SUBSET Types, severity : Level \cup {""}]

(* What is at a script's path: nothing, a link, a file cut short, or a     *)
(* script with its commands, each the row it remediates.                   *)
Link == Report("link", {})
Text(commands) == Report("script", commands)
IsContent(file) == file \in {Absent, Link, TornFile} \/ (file.type = "script" /\ file.rows \subseteq Rows)

ASSUME RemediationAssumption ==
  /\ Sorted \in Seq(Provider)
  /\ "aws" \in Accepted /\ Accepted \subseteq Provider
  /\ \A i, j \in DOMAIN Sorted : Sorted[i] = Sorted[j] => i = j
  /\ \A found \in OtherReports : found.type \in Types \cup {"bare"} /\ found.rows \subseteq Rows
  /\ Floors \subseteq Level /\ MaxRuns \in Nat
  /\ \A d \in Directories : DOMAIN d = Script /\ \A s \in Script : IsContent(d[s])

(* What concatenation gives: one type's names are apart, and those of      *)
(* orphans are apart from the others'.                                     *)
ASSUME ScriptNames ==
  /\ \A t \in Types : \A p, q \in Provider : ScriptName(t, p) = ScriptName(t, q) => p = q
  /\ \A t \in Types \ {"orphans"} : \A p, q \in Provider : ScriptName(t, p) # ScriptName("orphans", q)

VARIABLES
  at,      \* where remediate stands
  type,    \* --type
  floor,   \* --severity
  rows,    \* the rows read, above the floor
  queue,   \* the places in Sorted of the providers whose scripts are still to be written
  dir,     \* the output directory
  before,  \* history: the directory when this run started
  code,    \* how it ended: "ok" is exit 0, "error" exit 1
  runs

remediate == <<at, type, floor, rows, queue, dir, before, code, runs>>
vars == <<scan, remediate>>

RemediationInit ==
  /\ at = "idle" /\ type = "orphans" /\ floor = "LOW"
  /\ rows = {} /\ queue = {}
  /\ dir = [s \in Script |-> Absent] /\ before = dir
  /\ code = "none" /\ runs = 0

(* A report found lying about, or one the orphans command is about to      *)
(* write.                                                                  *)
Init ==
  \/ ScanInit /\ RemediationInit
  \/ /\ RemediationInit
     /\ report \in OtherReports /\ pc = "over"
     /\ present = {} /\ absent = {} /\ kept = {} /\ moves = 0 /\ faults = 0
     /\ minCost = FALSE /\ failOn = FALSE /\ exit = 0
     /\ job = [r \in Region |-> NewJob] /\ warned = {} /\ untold = {} /\ resources = {}

End(c) == at' = "idle" /\ code' = c

-----------------------------------------------------------------------------
(* What earlier runs over other reports, and others, have left there.      *)
Meanwhile ==
  /\ pc = "over" /\ at = "idle" /\ runs = 0
  /\ \A s \in Script : dir[s] = Absent
  /\ dir' \in Directories /\ before' = dir'
  /\ UNCHANGED <<scan, at, type, floor, rows, queue, code, runs>>

Start ==
  /\ pc = "over" /\ at = "idle" /\ runs < MaxRuns
  /\ at' = "read" /\ runs' = runs + 1
  /\ type' \in Types /\ floor' \in Floors
  /\ rows' = {} /\ queue' = {} /\ before' = dir /\ code' = "none"
  /\ UNCHANGED <<scan, dir>>

Readable == report \notin {Absent, TornFile}

(* Storage and network reports keep their rows under one key, and their    *)
(* rows have the fields a script is made of in common: either is taken for *)
(* the other.  An orphans report has a key of its own; without its key a   *)
(* report has no rows, which is not an error.  A bare array, written by    *)
(* hand, is a report of any type.                                          *)
Envelope(t) == IF t = "orphans" THEN "resources" ELSE "findings"

Holds(t) == report.type = "bare" \/ (report.type \in Types /\ Envelope(report.type) = Envelope(t))

RowsFor(t) == IF Holds(t) THEN report.rows ELSE {}

ReportRows == RowsFor(type)

(* --severity does not apply to orphans.                                   *)
Wanted(row) == type = "orphans" \/ AtLeast(row.severity, floor)

(* Seeded fault: the check is left to the writer of each script.            *)
ReadReportTrusting ==
  /\ at = "read"
  /\ IF ~Readable THEN End("error") /\ UNCHANGED rows
     ELSE at' = "mkdir" /\ rows' = {row \in ReportRows : Wanted(row)} /\ UNCHANGED code
  /\ UNCHANGED <<scan, type, floor, queue, dir, before, runs>>

(* The file, its rows, and checkNames over all of them before any file     *)
(* exists; then the floor.                                                 *)
ReadReport ==
  /\ at = "read"
  /\ IF ~Readable \/ \E row \in ReportRows : row.provider \notin Accepted
       THEN End("error") /\ UNCHANGED rows
       ELSE at' = "mkdir" /\ rows' = {row \in ReportRows : Wanted(row)} /\ UNCHANGED code
  /\ UNCHANGED <<scan, type, floor, queue, dir, before, runs>>

(* deleteCommand: a row without an id, of a kind that is not known, or a   *)
(* rule without its name has no command; a storage or network row may have *)
(* no remediation.                                                         *)
Commands(p) == {row \in rows : row.provider = p /\ type \in row.runnable}

(* MkdirAll, and the providers in the order of their names.                *)
MakeDir ==
  /\ at = "mkdir"
  /\ \/ /\ at' = "scripts"
        /\ queue' = {i \in DOMAIN Sorted : Commands(Sorted[i]) # {}}
        /\ UNCHANGED <<faults, code>>
     \/ Refused /\ End("error") /\ UNCHANGED queue
  /\ UNCHANGED <<world, command, job, warned, untold, type, floor, rows, dir, before, runs>>

(* The provider whose turn it is.                                          *)
First == CHOOSE i \in queue : \A j \in queue : i <= j

Current == Sorted[First]

Path == ScriptName(type, Current)

(* PathUnder, the write layer's own refusals.                              *)
Writable == Current \in Accepted /\ dir[Path] # Link

(* Seeded fault: an orphans script is written whatever is there.            *)
UpToDateNever == FALSE

(* writeIfChanged: only the orphans generator compares first.              *)
UpToDate == type = "orphans" /\ dir[Path] = Text(Commands(Current))

(* Seeded fault: a script that is there is left alone, whatever it holds.   *)
OpenScriptIfAbsent ==
  /\ at = "scripts" /\ queue # {}
  /\ IF dir[Path] # Absent THEN queue' = queue \ {First} /\ UNCHANGED <<at, dir>>
     ELSE at' = "write" /\ dir' = [dir EXCEPT ![Path] = TornFile] /\ UNCHANGED queue
  /\ UNCHANGED <<scan, type, floor, rows, before, code, runs>>

OpenScript ==
  /\ at = "scripts" /\ queue # {}
  /\ \/ /\ ~Writable /\ End("error") /\ UNCHANGED <<faults, queue, dir>>
     \/ /\ Writable /\ UpToDate
        /\ queue' = queue \ {First}
        /\ UNCHANGED <<at, code, faults, dir>>
     \/ /\ Writable /\ ~UpToDate
        /\ \/ at' = "write" /\ dir' = [dir EXCEPT ![Path] = TornFile] /\ UNCHANGED <<faults, code>>
           \/ Refused /\ End("error") /\ UNCHANGED dir
        /\ UNCHANGED queue
  /\ UNCHANGED <<world, command, job, warned, untold, type, floor, rows, before, runs>>

WriteScript ==
  /\ at = "write"
  /\ \/ /\ dir' = [dir EXCEPT ![Path] = Text(Commands(Current))]
        /\ queue' = queue \ {First} /\ at' = "scripts"
        /\ UNCHANGED <<faults, code>>
     \/ Refused /\ End("error") /\ UNCHANGED <<queue, dir>>
  /\ UNCHANGED <<world, command, job, warned, untold, type, floor, rows, before, runs>>

Announce ==
  /\ at = "scripts" /\ queue = {}
  /\ End("ok")
  /\ UNCHANGED <<scan, type, floor, rows, queue, dir, before, runs>>

(* The process is killed; what it has written stays.                       *)
Killed ==
  /\ at # "idle"
  /\ Refused /\ at' = "idle" /\ code' = "killed"
  /\ UNCHANGED <<world, command, job, warned, untold, type, floor, rows, queue, dir, before, runs>>

RunRemediate == ReadReport \/ MakeDir \/ OpenScript \/ WriteScript \/ Announce

(* Nothing is left to run.                                                 *)
Over == pc = "over" /\ at = "idle" /\ runs = MaxRuns /\ UNCHANGED vars

Next ==
  \/ ScanNext /\ UNCHANGED remediate
  \/ Meanwhile \/ Start \/ RunRemediate \/ Killed \/ Over

Spec == Init /\ [][Next]_vars

-----------------------------------------------------------------------------
TypeOK ==
  /\ present \subseteq Thing /\ absent \subseteq Thing /\ kept \subseteq Thing
  /\ moves \in 0 .. MaxMoves /\ faults \in 0 .. MaxFaults
  /\ pc \in {"scan", "gate", "create", "write", "over"} /\ exit \in {0, 1, 3}
  /\ minCost \in BOOLEAN /\ failOn \in BOOLEAN
  /\ job \in [Region -> Job]
  /\ warned \subseteq Region \X (Call \cup Thing \cup {"failed"}) /\ untold \subseteq Thing
  /\ resources \subseteq Thing
  /\ report.type \in Types \cup {"bare", "absent", "torn"} /\ report.rows \subseteq Rows
  /\ at \in {"idle", "read", "mkdir", "scripts", "write"}
  /\ type \in Types /\ floor \in Floors \cup {"LOW"} /\ rows \subseteq Rows
  /\ DOMAIN dir = Script /\ DOMAIN before = Script
  /\ \A s \in Script : IsContent(dir[s]) /\ IsContent(before[s])
  /\ code \in {"none", "killed", "error", "ok"} /\ runs \in 0 .. MaxRuns

(* No resource in use is condemned: whatever fails and in whatever order   *)
(* the account changes, each thing that uses a reported resource was gone  *)
(* at some moment of the scan ("a denied DescribeDBInstances" must    *)
(* not become "a script that deletes every backup the account has",        *)
(* orphan_db_snapshots.go).  The exception is a rule whose tags could not  *)
(* be read; run orphan_live shows what comes of it.                        *)
SparesTheLiving ==
  \A r \in Region : \A t \in job[r].found \ untold : owners[t] \subseteq absent

(* The same without the exception: "only residue whose owning cluster is   *)
(* gone is reported, so a live cluster's resources are never flagged"      *)
(* (cluster_residue.go:43-46).                                             *)
LiveClusterKeepsItsResidue ==
  \A r \in Region : \A t \in job[r].found : kind[t] \in Residue => owners[t] \subseteq absent

(* A scan that warned of nothing, and a gate that exits 0, reported all    *)
(* that was an orphan throughout, the residue whatever --min-cost says.    *)
QuietScanIsWhole ==
  (pc \in {"create", "write"} /\ (warned = {} \/ (failOn /\ exit = 0))) =>
    \A t \in kept : kind[t] \in Residue \/ ~minCost \/ t \notin Cheap => t \in resources

(* What a report read as of type t says should be in the script of p.      *)
Due(t, p) ==
  {row \in RowsFor(t) :
     /\ row.provider = p /\ t \in row.runnable
     /\ t = "orphans" \/ AtLeast(row.severity, floor)}

(* A run that ends with exit 0 leaves, whole, the script of every provider *)
(* the report has a command for, over whatever was there - an older        *)
(* script, another type's script of that name, or what a killed run had    *)
(* left.  No other run puts anything but these commands there, and none    *)
(* touches any other file (WriteFixScripts).                               *)
ScriptsAreTheReport ==
  (runs > 0 /\ Readable) =>
    /\ \A p \in Provider :
         LET s == ScriptName(type, p)
             due == Due(type, p)
         IN  /\ dir[s] = before[s] \/ (due # {} /\ dir[s] \in {TornFile, Text(due)})
             /\ (code = "ok" /\ due # {}) => dir[s] = Text(due)
    /\ \A s \in Script : (\A p \in Provider : s # ScriptName(type, p)) => dir[s] = before[s]

(* A report with one provider that cannot be part of a file name leaves no *)
(* script at all, "so a report with one bad entry does not leave the       *)
(* scripts for its good entries on disk beside an error" (checkNames).     *)
RefusalLeavesNoTrace ==
  (runs > 0 /\ Readable /\ \E row \in ReportRows : row.provider \notin Accepted) => dir = before

(* Running remediate again cannot spoil an orphans script that is already  *)
(* what the report says, not even when it is killed halfway ("re-running   *)
(* remediate is idempotent", orphans/fix.go).                              *)
GoodScriptStaysGood ==
  [][\A p \in Provider :
       LET s == ScriptName("orphans", p)
           due == Due("orphans", p)
       IN  (Readable /\ due # {} /\ dir[s] = Text(due)) => dir'[s] = dir[s]]_vars
=============================================================================
