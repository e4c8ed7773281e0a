----------------------------- MODULE IamFixProofs -----------------------------
(***************************************************************************)
(* Theorems about IamFix for any principals, reports, command lines and    *)
(* file names, and any directory to begin with.                            *)
(***************************************************************************)
EXTENDS IamFix, TLAPS

-----------------------------------------------------------------------------
(* The report.                                                             *)

LEMMA ReportType ==
  ASSUME report \in Reports
  PROVE  /\ report.findings \subseteq [principal : Principal, severity : Level]
         /\ Flagged \subseteq Principal
         /\ \A p \in Principal : report.used[p] \subseteq Permission
         /\ report.incomplete \in BOOLEAN
         /\ ~report.incomplete => report.used = report.activity
  BY FixAssumption DEF Flagged

LEMMA CommandType ==
  ASSUME command \in Commands
  PROVE  command.accept \in BOOLEAN /\ command.format \in {"terraform", "json"} /\ command.failOn \in BOOLEAN
  BY FixAssumption

LEMMA SlugType ==
  ASSUME NEW p \in Principal
  PROVE  Slug(p) \in File /\ Slug(p) # Note
  BY FixAssumption DEF Slug

(* A minimal policy grants what was used, and no action that was not.      *)
LEMMA MinimalGrants ==
  ASSUME NEW used \in SUBSET Permission
  PROVE  /\ MinimalPolicy(used) \subseteq Permission
         /\ \A u \in used : Grants(MinimalPolicy(used), u)
         /\ \A s \in MinimalPolicy(used) : \E u \in used : s.action = u.action
<1>1. MinimalPolicy(used) \subseteq Permission
    BY FixAssumption DEF MinimalPolicy, Permission
<1>2. ASSUME NEW u \in used PROVE Grants(MinimalPolicy(used), u)
  <2> DEFINE s == [action |-> u.action, resource |-> IF u.resource \in Arn THEN u.resource ELSE AnyResource]
  <2>1. s \in MinimalPolicy(used)
      BY DEF MinimalPolicy
  <2>2. s.action = u.action /\ s.resource \in {u.resource, AnyResource}
      OBVIOUS
  <2> QED BY <2>1, <2>2 DEF Grants
<1>3. \A s \in MinimalPolicy(used) : \E u \in used : s.action = u.action
    BY DEF MinimalPolicy
<1> QED BY <1>1, <1>2, <1>3

LEMMA ToWriteType ==
  ASSUME report \in Reports, NEW fixed \in SUBSET Flagged
  PROVE  ToWrite(fixed) \subseteq Flagged
  BY ReportType DEF ToWrite, Flagged

-----------------------------------------------------------------------------
(* The invariant.                                                          *)

Running == main \in {"mkdir", "write", "done"}

(* Policies come of what was used, and only past the refusal.              *)
PolicyOK ==
  /\ main # "read" => pending \subseteq Principal
  /\ Running => /\ ~Refused
                /\ \A p \in Flagged \ unfixed : policies[p] = MinimalPolicy(report.used[p])

(* The note stands before the first policy that cannot carry the caveat.   *)
NoteOK ==
  (command.format = "json" /\ report.incomplete /\ (main \in {"write", "done"} \/ Written # {}))
    => disk[Note] = NoteText

(* A file of this run is some flagged principal's, made of what that       *)
(* principal used unless there was no policy for it.                       *)
FileOK ==
  \A f \in Written :
    /\ ~Refused
    /\ disk[f] \in Generated
    /\ disk[f].banner <=> (command.format = "terraform" /\ report.incomplete)
    /\ \/ disk[f].policy = MinimalPolicy(report.used[disk[f].owner])
       \/ disk[f].owner \in unfixed

(* The file of p's name is of one of those that get it.                    *)
HasFile(p) == Slug(p) \in Written /\ disk[Slug(p)].owner \in Namesakes(p)

(* Whoever is to get a file has it or is waiting for it.                   *)
QueueOK ==
  /\ main \in {"read", "mkdir", "refused"} => Written = {}
  /\ main = "mkdir" => pending = ToWrite(Flagged \ unfixed)
  /\ main = "write" => pending \subseteq ToWrite(Flagged \ unfixed)
  /\ main \in {"write", "done"} => \A p \in ToWrite(Flagged \ unfixed) : p \in pending \/ HasFile(p)
  /\ main = "done" => pending = {}
  /\ Running => (command.failOn /\ unfixed # {} => exit = 3)

IInv == TypeOK /\ PolicyOK /\ NoteOK /\ FileOK /\ QueueOK

LEMMA InitInv == Init => IInv
<1> SUFFICES ASSUME Init PROVE IInv
    OBVIOUS
<1>1. Note \in File \cup {Note} /\ \A f \in File : f \in File \cup {Note}
    OBVIOUS
<1>2. TypeOK
    BY <1>1 DEF Init, TypeOK, Other, NoPolicy
<1>3. Written = {}
    BY DEF Init, Written, Other
<1>4. PolicyOK /\ NoteOK /\ FileOK /\ QueueOK
    BY <1>3 DEF Init, PolicyOK, NoteOK, FileOK, QueueOK, Running
<1> QED BY <1>2, <1>4 DEF IInv

(* The steps that only move the program counter, up or out.                *)
LEMMA GiveUpInv ==
  ASSUME IInv, UNCHANGED <<command, report, disk, policies, pending, unfixed>>,
         main' \in {"refused", "failed"}, main' = "refused" => main = "read", exit' = 1
  PROVE  IInv'
<1> USE DEF IInv
<1>1. TypeOK'
    BY DEF TypeOK, Flagged
<1>2. Written' = Written /\ Refused' = Refused
    BY DEF Written, Refused
<1>3. PolicyOK'
    BY ReportType DEF TypeOK, PolicyOK, Running
<1>4. NoteOK'
    BY <1>2 DEF NoteOK
<1>5. FileOK'
    BY <1>2 DEF FileOK
<1>6. QueueOK'
    BY <1>2 DEF QueueOK, Running
<1> QED BY <1>1, <1>3, <1>4, <1>5, <1>6

LEMMA GenerateInv == ASSUME IInv, Generate PROVE IInv'
<1>1. /\ main = "read" /\ main' = "mkdir" /\ ~Refused /\ UNCHANGED <<command, report, disk>>
    BY DEF Generate
<1>2. PICK lost \in SUBSET Flagged :
        /\ unfixed' = lost
        /\ policies' = [p \in Principal |-> IF p \in Flagged \ lost THEN MinimalPolicy(report.used[p]) ELSE NoPolicy]
        /\ pending' = ToWrite(Flagged \ lost)
        /\ exit' = IF command.failOn /\ lost # {} THEN 3 ELSE 0
    BY DEF Generate
<1>3. Written' = Written /\ Written = {} /\ Refused' = Refused /\ Flagged' = Flagged
      /\ ToWrite(Flagged \ lost)' = ToWrite(Flagged \ lost)
    BY <1>1 DEF IInv, QueueOK, Written, Refused, Flagged, ToWrite
<1>4. TypeOK'
  <2>1. policies' \in [Principal -> SUBSET Permission]
      BY <1>2, ReportType, MinimalGrants DEF IInv, TypeOK, NoPolicy
  <2>2. pending' \subseteq Flagged' /\ unfixed' \subseteq Flagged'
      BY <1>2, <1>3, ToWriteType DEF IInv, TypeOK
  <2>3. exit' \in {0, 3}
      BY <1>2
  <2> QED BY <1>1, <2>1, <2>2, <2>3 DEF IInv, TypeOK
<1>5. PolicyOK'
  <2>1. pending' \subseteq Principal
      BY <1>2, ToWriteType, ReportType DEF IInv, TypeOK
  <2>2. \A p \in Flagged \ lost : policies'[p] = MinimalPolicy(report.used[p])
      BY <1>2, ReportType DEF IInv, TypeOK
  <2> QED BY <1>1, <1>2, <1>3, <2>1, <2>2 DEF PolicyOK
<1>6. NoteOK' /\ FileOK'
    BY <1>1, <1>3 DEF NoteOK, FileOK
<1>7. QueueOK'
    BY <1>1, <1>2, <1>3 DEF QueueOK
<1> QED BY <1>4, <1>5, <1>6, <1>7 DEF IInv

LEMMA MakeDirInv == ASSUME IInv, MakeDir PROVE IInv'
<1>1. /\ main = "mkdir" /\ main' = "write"
      /\ UNCHANGED <<command, report, policies, pending, unfixed, exit>>
      /\ IF command.format = "json" /\ report.incomplete
           THEN disk' = [disk EXCEPT ![Note] = NoteText]
           ELSE disk' = disk
    BY DEF MakeDir
<1>2. DOMAIN disk' = File \cup {Note} /\ \A f \in File : disk'[f] = disk[f]
    BY <1>1, FixAssumption DEF IInv, TypeOK
<1>3. disk'[Note] \in Other \cup {NoteText}
      /\ ((command.format = "json" /\ report.incomplete) => disk'[Note] = NoteText)
    BY <1>1 DEF IInv, TypeOK
<1>4. /\ Written' = Written /\ Written = {} /\ Refused' = Refused /\ Flagged' = Flagged
      /\ ToWrite(Flagged \ unfixed)' = ToWrite(Flagged \ unfixed)
    BY <1>1, <1>2 DEF IInv, QueueOK, Written, Refused, Flagged, ToWrite
<1>5. TypeOK'
    BY <1>1, <1>2, <1>3, <1>4 DEF IInv, TypeOK
<1>6. PolicyOK'
    BY <1>1, <1>4 DEF IInv, PolicyOK, Running
<1>7. NoteOK' /\ FileOK'
    BY <1>1, <1>3, <1>4 DEF NoteOK, FileOK
<1>8. QueueOK'
    BY <1>1, <1>4 DEF IInv, QueueOK, Running
<1> QED BY <1>5, <1>6, <1>7, <1>8 DEF IInv

(* One file is written: it is the owner's, and no other file changes.      *)
LEMMA WriteFileInv == ASSUME IInv, NEW p \in Principal, WriteFile(p) PROVE IInv'
<1> DEFINE g == [owner |-> p, policy |-> policies[p],
                 banner |-> command.format = "terraform" /\ report.incomplete]
<1>1. /\ main = "write" /\ p \in pending /\ pending' = pending \ {p}
      /\ disk' = [disk EXCEPT ![Slug(p)] = g]
      /\ UNCHANGED <<command, report, main, policies, unfixed, exit>>
    BY DEF WriteFile
<1>2. Slug(p) \in File /\ Slug(p) # Note /\ p \in Flagged
    BY <1>1, SlugType DEF IInv, TypeOK
<1>3. g \in Generated /\ g \notin Other /\ g.owner = p /\ g.policy = policies[p]
      /\ (g.banner <=> (command.format = "terraform" /\ report.incomplete))
  <2>1. policies[p] \in SUBSET Permission
      BY DEF IInv, TypeOK
  <2>2. g \in Generated
      BY <2>1 DEF Generated
  <2> QED BY <2>2, FixAssumption
<1> HIDE DEF g
<1>4. /\ DOMAIN disk' = File \cup {Note} /\ disk'[Note] = disk[Note] /\ disk'[Slug(p)] = g
      /\ \A f \in File : f # Slug(p) => disk'[f] = disk[f]
    BY <1>1, <1>2 DEF IInv, TypeOK
<1>5. Written' = Written \cup {Slug(p)}
    BY <1>2, <1>3, <1>4 DEF Written
<1>6. /\ Refused' = Refused /\ Flagged' = Flagged /\ ToWrite(Flagged \ unfixed)' = ToWrite(Flagged \ unfixed)
      /\ \A q \in Principal : Slug(q)' = Slug(q)
    BY <1>1 DEF Refused, Flagged, ToWrite, Slug
<1>7. TypeOK'
    BY <1>1, <1>3, <1>4, <1>6 DEF IInv, TypeOK
<1>8. PolicyOK'
    BY <1>1, <1>6 DEF IInv, PolicyOK, Running
<1>9. NoteOK'
    BY <1>1, <1>4 DEF IInv, NoteOK
<1>10. FileOK'
  <2> SUFFICES ASSUME NEW f \in Written'
               PROVE  /\ ~Refused
                      /\ disk'[f] \in Generated
                      /\ disk'[f].banner <=> (command.format = "terraform" /\ report.incomplete)
                      /\ \/ disk'[f].policy = MinimalPolicy(report.used[disk'[f].owner])
                         \/ disk'[f].owner \in unfixed
      BY <1>1, <1>6 DEF FileOK
  <2>1. CASE f = Slug(p)
    <3>1. ~Refused /\ (p \in unfixed \/ policies[p] = MinimalPolicy(report.used[p]))
        BY <1>1, <1>2 DEF IInv, PolicyOK, Running
    <3> QED BY <1>3, <1>4, <2>1, <3>1
  <2>2. CASE f # Slug(p)
    <3>1. f \in Written /\ disk'[f] = disk[f]
        BY <1>4, <1>5, <2>2 DEF Written
    <3> QED BY <3>1 DEF IInv, FileOK
  <2> QED BY <2>1, <2>2
<1>11. QueueOK'
  <2>0. ToWrite(Flagged \ unfixed) \subseteq Principal
      BY ToWriteType, ReportType DEF IInv, TypeOK
  <2>1. pending' \subseteq ToWrite(Flagged \ unfixed) /\ p \in ToWrite(Flagged \ unfixed)
      BY <1>1 DEF IInv, QueueOK
  <2>2. \A q \in Principal : Namesakes(q)' = Namesakes(q)
      BY <1>6, <2>0 DEF Namesakes
  <2>3. ASSUME NEW q \in ToWrite(Flagged \ unfixed), q \notin pending'
        PROVE  HasFile(q)'
    <3>1. q \in Principal /\ (q = p \/ HasFile(q))
        BY <1>1, <2>0, <2>3 DEF IInv, QueueOK
    <3>2. CASE Slug(q) = Slug(p)
      <4>1. p \in Namesakes(q)
          BY <2>1, <3>2 DEF Namesakes
      <4> QED BY <1>3, <1>4, <1>5, <1>6, <2>2, <3>1, <3>2, <4>1 DEF HasFile
    <3>3. CASE Slug(q) # Slug(p)
      <4>1. HasFile(q) /\ Slug(q) \in File
          BY <3>1, <3>3, SlugType
      <4>2. disk'[Slug(q)] = disk[Slug(q)]
          BY <1>4, <3>3, <4>1
      <4> QED BY <1>5, <1>6, <2>2, <3>1, <4>1, <4>2 DEF HasFile
    <3> QED BY <3>2, <3>3
  <2> QED BY <1>1, <1>6, <2>1, <2>3 DEF IInv, QueueOK, Running
<1> QED BY <1>7, <1>8, <1>9, <1>10, <1>11 DEF IInv

(* A name that could not be written keeps what it had or is cut short.     *)
LEMMA AbortInv == ASSUME IInv, NEW name \in File \cup {Note}, Abort(name) PROVE IInv'
<1>1. /\ main' = "failed" /\ exit' = 1 /\ UNCHANGED <<command, report, policies, pending, unfixed>>
      /\ \/ main = "mkdir" /\ name = Note
         \/ main = "write" /\ \E p \in pending : name = Slug(p)
      /\ disk' = disk \/ disk' = [disk EXCEPT ![name] = Torn]
    BY DEF Abort
<1>2. CASE disk' = disk
    BY <1>1, <1>2, GiveUpInv
<1>3. CASE disk' = [disk EXCEPT ![name] = Torn]
  <2>1. DOMAIN disk' = File \cup {Note} /\ disk'[name] = Torn /\ Torn \in Other
        /\ \A f \in File \cup {Note} : f # name => disk'[f] = disk[f]
      BY <1>3 DEF IInv, TypeOK, Other
  <2>2. /\ Written' \subseteq Written /\ \A f \in Written' : disk'[f] = disk[f]
      BY <2>1 DEF Written
  <2>3. main = "write" => name \in File /\ name # Note
      BY <1>1, SlugType DEF IInv, PolicyOK
  <2>4. Refused' = Refused /\ Flagged' = Flagged
      BY <1>1 DEF Refused, Flagged
  <2>5. TypeOK'
    <3>1. disk'[Note] \in Other \cup {NoteText} /\ \A f \in File : disk'[f] \in Other \cup Generated
        BY <2>1 DEF IInv, TypeOK
    <3> QED BY <1>1, <2>1, <2>4, <3>1 DEF IInv, TypeOK
  <2>6. PolicyOK'
      BY <1>1 DEF IInv, PolicyOK, Running
  <2>7. NoteOK'
    <3>1. CASE main = "write"
      <4>1. disk'[Note] = disk[Note]
          BY <2>1, <2>3, <3>1
      <4> QED BY <1>1, <3>1, <4>1 DEF IInv, NoteOK
    <3>2. CASE main = "mkdir"
      <4>1. Written' = {}
          BY <2>2, <3>2 DEF IInv, QueueOK
      <4> QED BY <1>1, <4>1 DEF NoteOK
    <3> QED BY <1>1, <3>1, <3>2
  <2>8. FileOK'
      BY <1>1, <2>2, <2>4 DEF IInv, FileOK
  <2>9. QueueOK'
      BY <1>1 DEF QueueOK, Running
  <2> QED BY <2>5, <2>6, <2>7, <2>8, <2>9 DEF IInv
<1> QED BY <1>1, <1>2, <1>3

LEMMA DoneInv ==
  ASSUME IInv, UNCHANGED <<command, report, disk, policies, pending, unfixed, exit>>,
         main' = main \/ (main = "write" /\ pending = {} /\ main' = "done")
  PROVE  IInv'
<1>1. /\ Written' = Written /\ Refused' = Refused /\ Flagged' = Flagged
      /\ ToWrite(Flagged \ unfixed)' = ToWrite(Flagged \ unfixed)
      /\ \A q \in Principal : Slug(q)' = Slug(q)
    BY DEF Written, Refused, Flagged, ToWrite, Slug
<1>2. TypeOK'
    BY <1>1 DEF IInv, TypeOK
<1>3. PolicyOK'
    BY <1>1 DEF IInv, PolicyOK, Running
<1>4. NoteOK' /\ FileOK'
    BY <1>1 DEF IInv, NoteOK, FileOK
<1>5. QueueOK'
  <2>1. ToWrite(Flagged \ unfixed) \subseteq Principal
      BY ToWriteType, ReportType DEF IInv, TypeOK
  <2>2. \A q \in Principal : HasFile(q)' = HasFile(q)
    <3>1. \A q \in Principal : Namesakes(q)' = Namesakes(q)
        BY <1>1, <2>1 DEF Namesakes
    <3> QED BY <1>1, <3>1 DEF HasFile
  <2> QED BY <1>1, <2>1, <2>2 DEF IInv, QueueOK, Running
<1> QED BY <1>2, <1>3, <1>4, <1>5 DEF IInv

LEMMA NextInv == IInv /\ [Next]_vars => IInv'
<1> SUFFICES ASSUME IInv, [Next]_vars PROVE IInv'
    OBVIOUS
<1>1. CASE ReadFails \/ Refuse \/ MkdirFails
    BY <1>1, GiveUpInv DEF ReadFails, Refuse, MkdirFails
<1>2. CASE Generate
    BY <1>2, GenerateInv
<1>3. CASE MakeDir
    BY <1>3, MakeDirInv
<1>4. CASE Done \/ Terminated \/ UNCHANGED vars
    BY <1>4, DoneInv DEF Done, Terminated, vars
<1>5. ASSUME NEW p \in Principal, WriteFile(p) PROVE IInv'
    BY <1>5, WriteFileInv
<1>6. ASSUME NEW name \in File \cup {Note}, Abort(name) PROVE IInv'
    BY <1>6, AbortInv
<1> QED BY <1>1, <1>2, <1>3, <1>4, <1>5, <1>6 DEF Next

(* The invariant holds throughout; what follows is read off it.            *)
THEOREM Invariance == Spec => []IInv
  BY InitInv, NextInv, PTL DEF Spec

-----------------------------------------------------------------------------
(* The theorems.                                                           *)

(* Every variable keeps its type, and exit code 1 belongs to giving up.    *)
THEOREM TypeCorrect == Spec => []TypeOK
<1>1. IInv => TypeOK
    BY DEF IInv
<1> QED BY <1>1, Invariance, PTL

(* Access in use is not taken away without the operator's consent and a    *)
(* caveat in the file or beside it, at any moment and whatever fails.      *)
THEOREM AccessDeclared == Spec => []LostAccessIsDeclared
<1>1. IInv => LostAccessIsDeclared
  <2> SUFFICES ASSUME IInv, NEW f \in Written
               PROVE  \/ \A u \in report.activity[disk[f].owner] : Grants(disk[f].policy, u)
                      \/ command.accept /\ (disk[f].banner \/ disk[Note] = NoteText)
                      \/ disk[f].owner \in unfixed
      BY DEF LostAccessIsDeclared
  <2>1. /\ ~Refused /\ disk[f] \in Generated
        /\ disk[f].banner <=> (command.format = "terraform" /\ report.incomplete)
        /\ disk[f].policy = MinimalPolicy(report.used[disk[f].owner]) \/ disk[f].owner \in unfixed
      BY DEF IInv, FileOK
  <2>2. disk[f].owner \in Principal
      BY <2>1 DEF Generated
  <2>3. CASE report.incomplete
    <3>1. command.accept
        BY <2>1, <2>3 DEF Refused
    <3>2. disk[f].banner \/ disk[Note] = NoteText
        BY <2>1, <2>3, CommandType DEF IInv, TypeOK, NoteOK
    <3> QED BY <3>1, <3>2
  <2>4. CASE ~report.incomplete /\ disk[f].owner \notin unfixed
    <3>1. report.activity[disk[f].owner] = report.used[disk[f].owner]
          /\ report.used[disk[f].owner] \in SUBSET Permission
        BY <2>2, <2>4, ReportType DEF IInv, TypeOK
    <3>2. disk[f].policy = MinimalPolicy(report.used[disk[f].owner])
        BY <2>1, <2>4
    <3> QED BY <3>1, <3>2, MinimalGrants
  <2> QED BY <2>3, <2>4
<1> QED BY <1>1, Invariance, PTL

(* A policy grants everything the scan saw used and no action beside it.   *)
THEOREM LeastPrivilege == Spec => []PolicyIsWhatWasUsed
<1>1. IInv => PolicyIsWhatWasUsed
    BY ReportType, MinimalGrants DEF IInv, TypeOK, PolicyOK, Running, PolicyIsWhatWasUsed
<1> QED BY <1>1, Invariance, PTL

(* Exit 0 of a gate: every principal flagged at the floor has a policy,    *)
(* and the file of its name holds its own, or that of another principal    *)
(* whose name is slugged alike.                                            *)
THEOREM ZeroCoversReport == Spec => []ExitZeroCoversReport
<1>1. IInv => ExitZeroCoversReport
  <2> SUFFICES ASSUME IInv, Ended, command.failOn, exit = 0,
                      NEW f \in report.findings, AtLeast(f.severity, command.floor)
               PROVE  LET p    == f.principal
                          file == disk[Slug(p)]
                      IN  /\ p \notin unfixed
                          /\ Slug(p) \in Written /\ file.owner \in Namesakes(p)
                          /\ file.policy = policies[file.owner]
                          /\ Namesakes(p) = {p} => file.owner = p
      BY DEF ExitZeroCoversReport
  <2> DEFINE p    == f.principal
             file == disk[Slug(p)]
  <2>1. main = "done"
      BY DEF IInv, TypeOK, Ended
  <2>2. unfixed = {} /\ pending = {}
      BY <2>1 DEF IInv, QueueOK, Running
  <2>3. p \in ToWrite(Flagged \ unfixed)
      BY <2>2 DEF ToWrite, Flagged
  <2>4. Slug(p) \in Written /\ file.owner \in Namesakes(p)
      BY <2>1, <2>2, <2>3 DEF IInv, QueueOK, HasFile
  <2>5. file.owner \in Flagged \ unfixed
      BY <2>2, <2>4, ToWriteType DEF IInv, TypeOK, Namesakes
  <2>6. file.policy = policies[file.owner]
      BY <2>1, <2>4, <2>5 DEF IInv, FileOK, PolicyOK, Running
  <2> QED BY <2>2, <2>4, <2>6
<1> QED BY <1>1, Invariance, PTL
=============================================================================
