---------------------------- MODULE BaselineStore ----------------------------
(***************************************************************************)
(* The baseline store (internal/baseline/store.go): Save, Load and Delete  *)
(* as the system calls they make, by processes that share one directory.   *)
(* Each process runs one `cloudgov baseline` or `cloudgov diff` at a time  *)
(* and can die between any two calls.                                      *)
(*                                                                         *)
(* A file is an inode holding a sequence of chunks; a report of length n   *)
(* is written in n chunks.  The directory maps a name's two paths, the     *)
(* baseline and the temp file, to inodes.  An open descriptor keeps its    *)
(* inode whatever the directory does.                                      *)
(***************************************************************************)
EXTENDS Naturals, Sequences, FiniteSets

CONSTANTS
  Client,      \* processes
  Name,        \* baseline names validName and PathUnder accept
  Report,      \* reports
  Length,      \* how many chunks each report takes
  Inode,       \* bound: the inodes of the file system
  NoInode, Missing, Idle,
  Serialised,  \* whether the callers keep two Saves of one name apart
  MaxCalls     \* bound: how many calls are made in all

Requests == [op : {"save", "load", "delete"}, name : Name, report : Report]

ASSUME StoreAssumption ==
  /\ Length \in [Report -> Nat \ {0}]
  /\ NoInode \notin Inode
  /\ Missing \notin Report /\ Idle \notin Requests
  /\ Serialised \in BOOLEAN
  /\ MaxCalls \in Nat

VARIABLES
  dir,      \* the directory: path -> inode or NoInode
  data,     \* the chunks of each inode
  request,  \* each process's call
  pc,       \* and where it stands
  fd, off,  \* its open descriptor and write offset
  got,      \* what its Load has read
  calls

file == <<dir, data>>
proc == <<request, pc, fd, off, got>>
vars == <<dir, data, request, pc, fd, off, got, calls>>

Path == Name \X {"json", "tmp"}
Final(n) == <<n, "json">>
Temp(n)  == <<n, "tmp">>

Content(r) == [i \in 1 .. Length[r] |-> <<r, i>>]
Whole(s)   == \E r \in Report : s = Content(r)
ReportOf(s) == CHOOSE r \in Report : s = Content(r)

Nothing == <<>>

(* An inode is free once no path and no descriptor refers to it.           *)
Free == {i \in Inode : (\A p \in Path : dir[p] # i) /\ (\A c \in Client : fd[c] # i)}

-----------------------------------------------------------------------------
Init ==
  /\ dir = [p \in Path |-> NoInode]
  /\ data = [i \in Inode |-> Nothing]
  /\ request = [c \in Client |-> Idle]
  /\ pc = [c \in Client |-> "none"]
  /\ fd = [c \in Client |-> NoInode]
  /\ off = [c \in Client |-> 0]
  /\ got = [c \in Client |-> Nothing]
  /\ calls = 0

Goto(c, label) == pc' = [pc EXCEPT ![c] = label]

Saving(c, n) == request[c] # Idle /\ request[c].op = "save" /\ request[c].name = n

Entry == [save |-> "open", load |-> "read", delete |-> "stat"]

Call(c) ==
  /\ request[c] = Idle
  /\ calls < MaxCalls
  /\ \E r \in Requests :
       /\ (Serialised /\ r.op = "save") => \A d \in Client : ~Saving(d, r.name)
       /\ request' = [request EXCEPT ![c] = r]
       /\ Goto(c, Entry[r.op])
  /\ calls' = calls + 1
  /\ UNCHANGED <<file, fd, off, got>>

(* The process prints its answer and exits, or dies: its descriptors close *)
(* and what it wrote stays.                                                *)
End(c) ==
  /\ request[c] # Idle
  /\ request' = [request EXCEPT ![c] = Idle]
  /\ Goto(c, "none")
  /\ fd' = [fd EXCEPT ![c] = NoInode]
  /\ off' = [off EXCEPT ![c] = 0]
  /\ got' = [got EXCEPT ![c] = Nothing]
  /\ UNCHANGED <<file, calls>>

-----------------------------------------------------------------------------
(* Save.  os.WriteFile opens with O_CREAT|O_TRUNC: a temp file that is     *)
(* there already, left by a dead process or open in a live one, is         *)
(* emptied in place.                                                       *)
OpenAt(c, path) ==
  /\ pc[c] = "open"
  /\ \E i \in IF dir[path] = NoInode THEN Free ELSE {dir[path]} :
       /\ dir' = [dir EXCEPT ![path] = i]
       /\ data' = [data EXCEPT ![i] = Nothing]
       /\ fd' = [fd EXCEPT ![c] = i]
  /\ Goto(c, "write")
  /\ UNCHANGED <<request, off, got, calls>>

(* Seeded fault: the report is written straight to the baseline's path.     *)
OpenInPlace(c) == OpenAt(c, Final(request[c].name))

Open(c) == OpenAt(c, Temp(request[c].name))

(* The next chunk, at this descriptor's own offset: another process may    *)
(* have emptied the inode, which leaves a hole, or be writing it too.      *)
Hole == "hole"
Write(c) ==
  /\ pc[c] = "write"
  /\ off[c] < Length[request[c].report]
  /\ LET old == data[fd[c]]
         end == IF Len(old) > off[c] + 1 THEN Len(old) ELSE off[c] + 1 IN
       data' = [data EXCEPT ![fd[c]] =
         [i \in 1 .. end |-> IF i = off[c] + 1 THEN <<request[c].report, i>>
                             ELSE IF i \in DOMAIN old THEN old[i] ELSE Hole]]
  /\ off' = [off EXCEPT ![c] = @ + 1]
  /\ UNCHANGED <<dir, request, pc, fd, got, calls>>

Close(c) ==
  /\ pc[c] = "write"
  /\ off[c] = Length[request[c].report]
  /\ fd' = [fd EXCEPT ![c] = NoInode]
  /\ Goto(c, "rename")
  /\ UNCHANGED <<file, request, off, got, calls>>

(* The disk is full, or the directory unwritable: the call fails and the   *)
(* temp file stays as it is.                                               *)
WriteFails(c) ==
  /\ pc[c] \in {"open", "write"}
  /\ fd' = [fd EXCEPT ![c] = NoInode]
  /\ Goto(c, "failed")
  /\ UNCHANGED <<file, request, off, got, calls>>

Rename(c) ==
  /\ pc[c] = "rename"
  /\ LET n == request[c].name IN
       /\ dir[Temp(n)] # NoInode
       /\ dir' = [dir EXCEPT ![Final(n)] = dir[Temp(n)], ![Temp(n)] = NoInode]
  /\ Goto(c, "succeeded")
  /\ UNCHANGED <<data, request, fd, off, got, calls>>

(* Also without a temp file to rename, when somebody else has moved it.    *)
RenameFails(c) ==
  /\ pc[c] = "rename"
  /\ Goto(c, "cleanup")
  /\ UNCHANGED <<file, request, fd, off, got, calls>>

RemoveTemp(c) ==
  /\ pc[c] = "cleanup"
  /\ dir' = [dir EXCEPT ![Temp(request[c].name)] = NoInode]
  /\ Goto(c, "failed")
  /\ UNCHANGED <<data, request, fd, off, got, calls>>

-----------------------------------------------------------------------------
(* Load: os.ReadFile opens and then reads; Unmarshal refuses what is not   *)
(* one whole report.                                                       *)
OpenToRead(c) ==
  /\ pc[c] = "read"
  /\ LET i == dir[Final(request[c].name)] IN
       IF i = NoInode THEN Goto(c, "failed") /\ UNCHANGED fd
       ELSE Goto(c, "parse") /\ fd' = [fd EXCEPT ![c] = i]
  /\ UNCHANGED <<file, request, off, got, calls>>

Read(c) ==
  /\ pc[c] = "parse"
  /\ IF Whole(data[fd[c]])
       THEN Goto(c, "succeeded") /\ got' = [got EXCEPT ![c] = data[fd[c]]]
       ELSE Goto(c, "failed") /\ UNCHANGED got
  /\ fd' = [fd EXCEPT ![c] = NoInode]
  /\ UNCHANGED <<file, request, off, calls>>

(* Delete: os.Stat, and then os.Remove, which finds out for itself.        *)
Stat(c) ==
  /\ pc[c] = "stat"
  /\ Goto(c, IF dir[Final(request[c].name)] = NoInode THEN "failed" ELSE "remove")
  /\ UNCHANGED <<file, request, fd, off, got, calls>>

(* Seeded fault: Remove's own error is dropped.                             *)
RemoveUnchecked(c) ==
  /\ pc[c] = "remove"
  /\ dir' = [dir EXCEPT ![Final(request[c].name)] = NoInode]
  /\ Goto(c, "succeeded")
  /\ UNCHANGED <<data, request, fd, off, got, calls>>

Remove(c) ==
  /\ pc[c] = "remove"
  /\ dir' = [dir EXCEPT ![Final(request[c].name)] = NoInode]
  /\ Goto(c, IF dir[Final(request[c].name)] = NoInode THEN "failed" ELSE "succeeded")
  /\ UNCHANGED <<data, request, fd, off, got, calls>>

Save(c)   == Open(c) \/ Write(c) \/ Close(c) \/ WriteFails(c) \/ Rename(c) \/ RenameFails(c) \/ RemoveTemp(c)
Load(c)   == OpenToRead(c) \/ Read(c)
Delete(c) == Stat(c) \/ Remove(c)

(* Every call has been made and answered.                                  *)
Quiet == calls = MaxCalls /\ (\A c \in Client : request[c] = Idle) /\ UNCHANGED vars

Next == (\E c \in Client : Call(c) \/ Save(c) \/ Load(c) \/ Delete(c) \/ End(c)) \/ Quiet

Spec == Init /\ [][Next]_vars

-----------------------------------------------------------------------------
Chunk == (Report \X Nat) \cup {Hole}

(* The types, and a descriptor open exactly while its call needs it.       *)
TypeOK ==
  /\ dir \in [Path -> Inode \cup {NoInode}]
  /\ data \in [Inode -> Seq(Chunk)] /\ got \in [Client -> Seq(Chunk)]
  /\ request \in [Client -> Requests \cup {Idle}]
  /\ pc \in [Client -> {"none", "open", "write", "rename", "cleanup", "read", "parse", "stat", "remove",
                        "succeeded", "failed"}]
  /\ fd \in [Client -> Inode \cup {NoInode}]
  /\ off \in [Client -> Nat]
  /\ calls \in 0 .. MaxCalls
  /\ \A c \in Client : pc[c] \in {"write", "parse"} <=> fd[c] # NoInode

(* What a reader finds under a name at any moment - between any two system *)
(* calls of the writers, after a crash, over a stale temp file - is one    *)
(* whole report: "Atomic write via temp file + rename" (store.go).         *)
StoredIsWhole == \A n \in Name : dir[Final(n)] # NoInode => Whole(data[dir[Final(n)]])

(* The store seen as a register.  Save takes effect at its rename, Delete  *)
(* at its remove and Load when it opens the file.                          *)
Held(i) == IF i # NoInode /\ Whole(data[i]) THEN ReportOf(data[i]) ELSE Missing

Phase(c) ==
  CASE pc[c] = "none" -> "none"
    [] pc[c] = "failed" -> "failed"
    [] pc[c] \in {"parse", "succeeded"} -> "applied"
    [] OTHER -> "pending"

Answer(c) ==
  IF pc[c] = "parse" THEN Held(fd[c])
  ELSE IF got[c] # Nothing THEN ReportOf(got[c]) ELSE Missing

Register == INSTANCE BaselineRegister WITH
  stored <- [n \in Name |-> Held(dir[Final(n)])],
  phase  <- [c \in Client |-> Phase(c)],
  answer <- [c \in Client |-> Answer(c)]

(* The store is an atomic register: a Save or Delete that reports success  *)
(* has taken effect exactly once, one that reports an error or dies not at *)
(* all or before it died, and a Load returns what was stored at one moment *)
(* of its own call.                                                        *)
KeepsRegister == Register!Spec
=============================================================================
