-------------------------- MODULE BaselineStoreProofs --------------------------
(***************************************************************************)
(* Theorems about BaselineStore for any number of processes, names,        *)
(* reports of any length, inodes and calls, as long as two Saves of one    *)
(* name do not overlap.                                                    *)
(***************************************************************************)
EXTENDS BaselineStore, SequenceTheorems, TLAPS

-----------------------------------------------------------------------------
(* Chunks and reports.                                                     *)

LEMMA ContentType ==
  ASSUME NEW r \in Report
  PROVE  /\ Length[r] \in Nat /\ 0 < Length[r]
         /\ Content(r) \in Seq(Chunk) /\ Len(Content(r)) = Length[r] /\ Content(r) # Nothing
<1>1. Length[r] \in Nat /\ 0 < Length[r]
    BY StoreAssumption
<1>2. \A i \in 1 .. Length[r] : <<r, i>> \in Chunk
    BY DEF Chunk
<1>3. Content(r) \in Seq(Chunk) /\ Len(Content(r)) = Length[r]
    BY <1>1, <1>2 DEF Content
<1>4. Content(r) # Nothing
    BY <1>1, <1>3, EmptySeq DEF Nothing
<1> QED BY <1>1, <1>3, <1>4

(* No two reports have one content.                                        *)
LEMMA ContentDistinct ==
  ASSUME NEW r \in Report, NEW s \in Report, Content(r) = Content(s)
  PROVE  r = s
<1>1. Content(r)[1] = <<r, 1>> /\ Content(s)[1] = <<s, 1>>
    BY ContentType DEF Content
<1> QED BY <1>1

LEMMA ReportOfContent ==
  ASSUME NEW r \in Report
  PROVE  Whole(Content(r)) /\ ReportOf(Content(r)) = r
<1>1. Whole(Content(r))
    BY DEF Whole
<1>2. ReportOf(Content(r)) \in Report /\ Content(r) = Content(ReportOf(Content(r)))
    BY DEF ReportOf
<1> QED BY <1>1, <1>2, ContentDistinct

LEMMA PathType ==
  ASSUME NEW n \in Name, NEW m \in Name
  PROVE  /\ Final(n) \in Path /\ Temp(n) \in Path
         /\ Final(n) # Temp(m)
         /\ (Final(n) = Final(m) => n = m) /\ (Temp(n) = Temp(m) => n = m)
  BY DEF Final, Temp, Path

-----------------------------------------------------------------------------
(* The invariant.                                                          *)

Busy == {"open", "write", "rename", "cleanup"}

(* Where each process stands in which call.                                *)
CallOK ==
  \A c \in Client :
    /\ pc[c] = "none" <=> request[c] = Idle
    /\ pc[c] \in Busy => request[c] # Idle /\ request[c].op = "save"
    /\ pc[c] \in {"read", "parse"} => request[c] # Idle /\ request[c].op = "load"
    /\ pc[c] \in {"stat", "remove"} => request[c] # Idle /\ request[c].op = "delete"
    /\ pc[c] \in {"none", "open"} => off[c] = 0
    /\ got[c] # Nothing => pc[c] = "succeeded" /\ Whole(got[c])

(* The callers keep two Saves of one name apart.                           *)
OneSaver ==
  \A c, d \in Client, n \in Name : Saving(c, n) /\ Saving(d, n) => c = d

(* No inode has two paths.                                                 *)
OnePath == \A p, q \in Path : dir[p] # NoInode /\ dir[p] = dir[q] => p = q

(* What a Save has written by now is a prefix of its report, in the inode  *)
(* of its temp file; when it comes to the rename the report is complete.   *)
WriterOK ==
  \A c \in Client :
    /\ pc[c] = "write" =>
         /\ fd[c] = dir[Temp(request[c].name)]
         /\ off[c] <= Length[request[c].report]
         /\ data[fd[c]] = [i \in 1 .. off[c] |-> <<request[c].report, i>>]
    /\ pc[c] = "rename" =>
         /\ dir[Temp(request[c].name)] # NoInode
         /\ data[dir[Temp(request[c].name)]] = Content(request[c].report)

(* A reader's inode holds a whole report and is nobody's temp file.        *)
ReaderOK ==
  \A c \in Client :
    pc[c] = "parse" => /\ Whole(data[fd[c]])
                       /\ \A n \in Name : fd[c] # dir[Temp(n)]

IInv == TypeOK /\ CallOK /\ OneSaver /\ OnePath /\ WriterOK /\ ReaderOK /\ StoredIsWhole

LEMMA InitInv == Init => IInv
<1> SUFFICES ASSUME Init PROVE IInv
    OBVIOUS
<1>1. Nothing \in Seq(Chunk)
    BY EmptySeq DEF Nothing
<1>2. TypeOK
    BY <1>1, StoreAssumption DEF Init, TypeOK
<1>3. CallOK /\ OneSaver
    BY DEF Init, CallOK, OneSaver, Saving, Busy
<1>4. OnePath /\ WriterOK /\ ReaderOK
    BY DEF Init, OnePath, WriterOK, ReaderOK
<1>5. StoredIsWhole
    BY PathType DEF Init, StoredIsWhole
<1> QED BY <1>2, <1>3, <1>4, <1>5 DEF IInv

(* The call of a process that is inside one.                               *)
LEMMA RequestType ==
  ASSUME TypeOK, NEW c \in Client, request[c] # Idle
  PROVE  /\ request[c] \in Requests /\ request[c].name \in Name /\ request[c].report \in Report
         /\ Final(request[c].name) \in Path /\ Temp(request[c].name) \in Path
<1>1. request[c] \in Requests
    BY DEF TypeOK
<1>2. request[c].name \in Name /\ request[c].report \in Report
    BY <1>1 DEF Requests
<1> QED BY <1>1, <1>2, PathType

(* Nobody else saves under the name.                                       *)
LEMMA Alone ==
  ASSUME IInv, NEW c \in Client, pc[c] \in Busy, NEW d \in Client, pc[d] \in Busy, c # d
  PROVE  request[c].name # request[d].name /\ Temp(request[c].name) # Temp(request[d].name)
<1>1. request[c] # Idle /\ request[d] # Idle /\ request[c].op = "save" /\ request[d].op = "save"
    BY DEF IInv, CallOK
<1>2. request[c].name \in Name /\ request[d].name \in Name
    BY <1>1, RequestType DEF IInv
<1>3. request[c].name # request[d].name
    BY <1>1, <1>2 DEF IInv, OneSaver, Saving
<1> QED BY <1>2, <1>3, PathType

(* A step of a Save before its rename touches its own temp file, or        *)
(* nothing: neither the stored reports nor anybody else's file.            *)
LEMMA SaverKeeps ==
  ASSUME IInv, NEW c \in Client, pc[c] \in Busy, request' = request,
         NEW t \in Path, t = Temp(request[c].name),
         \A p \in Path : p # t => dir'[p] = dir[p],
         \A p \in Path : p # t /\ dir'[t] # NoInode => dir'[t] # dir[p],
         \A d \in Client : pc[d] = "parse" => dir'[t] # fd[d],
         \A i \in Inode : i # dir'[t] => data'[i] = data[i],
         \A d \in Client : d # c => pc'[d] = pc[d] /\ fd'[d] = fd[d] /\ off'[d] = off[d],
         pc'[c] # "parse"
  PROVE  /\ OnePath' /\ ReaderOK' /\ StoredIsWhole'
         /\ \A d \in Client : d # c =>
              /\ pc[d] = "write" => /\ fd[d] = dir'[Temp(request[d].name)]
                                    /\ off[d] <= Length[request[d].report]
                                    /\ data'[fd[d]] = [i \in 1 .. off[d] |-> <<request[d].report, i>>]
              /\ pc[d] = "rename" => /\ dir'[Temp(request[d].name)] # NoInode
                                     /\ data'[dir'[Temp(request[d].name)]] = Content(request[d].report)
<1>1. OnePath'
    BY DEF IInv, OnePath
<1>2. ASSUME NEW n \in Name, dir'[Final(n)] # NoInode
      PROVE  Whole(data'[dir'[Final(n)]])
  <2>1. Final(n) # t /\ Final(n) \in Path
      BY RequestType, PathType DEF IInv, CallOK
  <2>2. dir'[Final(n)] = dir[Final(n)] /\ dir[Final(n)] # dir'[t] /\ dir[Final(n)] \in Inode
      BY <1>2, <2>1 DEF IInv, TypeOK
  <2>3. data'[dir'[Final(n)]] = data[dir[Final(n)]]
      BY <2>2
  <2> QED BY <1>2, <2>2, <2>3 DEF IInv, StoredIsWhole
<1>3. StoredIsWhole'
    BY <1>2 DEF StoredIsWhole, Whole, Content
<1>4. ASSUME NEW d \in Client, pc'[d] = "parse"
      PROVE  /\ Whole(data'[fd'[d]])
             /\ \A n \in Name : fd'[d] # dir'[Temp(n)]
  <2>1. d # c /\ pc[d] = "parse" /\ fd'[d] = fd[d] /\ fd[d] \in Inode
      BY <1>4 DEF IInv, TypeOK
  <2>2. data'[fd[d]] = data[fd[d]]
      BY <2>1
  <2>3. \A n \in Name : fd[d] # dir'[Temp(n)]
      BY <2>1, PathType DEF IInv, ReaderOK
  <2> QED BY <2>1, <2>2, <2>3 DEF IInv, ReaderOK
<1>5. ReaderOK'
    BY <1>4 DEF ReaderOK, Whole, Content
<1>6. ASSUME NEW d \in Client, d # c, pc[d] \in {"write", "rename"}
      PROVE  /\ dir'[Temp(request[d].name)] = dir[Temp(request[d].name)]
             /\ dir[Temp(request[d].name)] # NoInode =>
                  data'[dir[Temp(request[d].name)]] = data[dir[Temp(request[d].name)]]
  <2>1. Temp(request[d].name) # t /\ Temp(request[d].name) \in Path
      BY <1>6, Alone, RequestType DEF Busy, IInv, CallOK
  <2>2. dir[Temp(request[d].name)] # NoInode => /\ dir[Temp(request[d].name)] # dir'[t]
                                                /\ dir[Temp(request[d].name)] \in Inode
      BY <2>1 DEF IInv, TypeOK
  <2> QED BY <2>1, <2>2
<1>7. ASSUME NEW d \in Client, d # c, pc[d] = "write"
      PROVE  /\ fd[d] = dir'[Temp(request[d].name)]
             /\ off[d] <= Length[request[d].report]
             /\ data'[fd[d]] = [i \in 1 .. off[d] |-> <<request[d].report, i>>]
  <2>1. fd[d] # NoInode /\ fd[d] = dir[Temp(request[d].name)]
      BY <1>7 DEF IInv, TypeOK, WriterOK
  <2> QED BY <1>6, <1>7, <2>1 DEF IInv, WriterOK
<1>8. ASSUME NEW d \in Client, d # c, pc[d] = "rename"
      PROVE  /\ dir'[Temp(request[d].name)] # NoInode
             /\ data'[dir'[Temp(request[d].name)]] = Content(request[d].report)
    BY <1>6, <1>8 DEF IInv, WriterOK
<1> QED BY <1>1, <1>3, <1>5, <1>7, <1>8

(* What such a step leaves of the processes' places.                       *)
LEMMA SaverStays ==
  ASSUME IInv, NEW c \in Client, pc[c] \in Busy, request' = request, got' = got,
         NEW v \in {"write", "rename", "cleanup", "failed", "succeeded"}, pc' = [pc EXCEPT ![c] = v],
         \A d \in Client : d # c => off'[d] = off[d]
  PROVE  CallOK' /\ OneSaver'
<1>1. OneSaver'
    BY DEF IInv, OneSaver, Saving
<1>2. ASSUME NEW d \in Client
      PROVE  /\ pc'[d] = "none" <=> request[d] = Idle
             /\ pc'[d] \in Busy => request[d] # Idle /\ request[d].op = "save"
             /\ pc'[d] \in {"read", "parse"} => request[d] # Idle /\ request[d].op = "load"
             /\ pc'[d] \in {"stat", "remove"} => request[d] # Idle /\ request[d].op = "delete"
             /\ pc'[d] \in {"none", "open"} => off'[d] = 0
             /\ got[d] # Nothing => pc'[d] = "succeeded" /\ Whole(got[d])
  <2>1. CASE d = c
      BY <2>1 DEF IInv, TypeOK, CallOK, Busy
  <2>2. CASE d # c
    <3>1. pc'[d] = pc[d] /\ off'[d] = off[d]
        BY <2>2 DEF IInv, TypeOK
    <3> QED BY <3>1 DEF IInv, CallOK
  <2> QED BY <2>1, <2>2
<1>3. CallOK'
    BY <1>2 DEF CallOK, Whole, Content
<1> QED BY <1>1, <1>3

LEMMA OpenInv == ASSUME IInv, NEW c \in Client, Open(c) PROVE IInv'
<1> DEFINE t == Temp(request[c].name)
<1>1. /\ pc[c] = "open" /\ pc' = [pc EXCEPT ![c] = "write"]
      /\ UNCHANGED <<request, off, got, calls>>
    BY DEF Open, OpenAt, Goto
<1>2. request[c] # Idle /\ request[c].op = "save" /\ off[c] = 0 /\ pc[c] \in Busy
    BY <1>1 DEF IInv, CallOK, Busy
<1>3. /\ t \in Path /\ request[c].name \in Name /\ request[c].report \in Report
    BY <1>2, RequestType DEF IInv
<1>4. PICK i \in Inode : /\ i \in IF dir[t] = NoInode THEN Free ELSE {dir[t]}
                         /\ dir' = [dir EXCEPT ![t] = i]
                         /\ data' = [data EXCEPT ![i] = Nothing]
                         /\ fd' = [fd EXCEPT ![c] = i]
    BY <1>3 DEF Open, OpenAt, Free, IInv, TypeOK
<1>5. /\ \A p \in Path : p # t => i # dir[p]
      /\ \A d \in Client : pc[d] = "parse" => i # fd[d]
  <2>1. CASE dir[t] = NoInode
      BY <1>4, <2>1 DEF Free
  <2>2. CASE dir[t] # NoInode
      BY <1>3, <1>4, <2>2 DEF IInv, OnePath, ReaderOK
  <2> QED BY <2>1, <2>2
<1>6. /\ dir'[t] = i /\ fd'[c] = i /\ data'[i] = Nothing /\ pc'[c] = "write"
      /\ \A p \in Path : p # t => dir'[p] = dir[p]
      /\ \A j \in Inode : j # i => data'[j] = data[j]
      /\ \A d \in Client : d # c => pc'[d] = pc[d] /\ fd'[d] = fd[d] /\ off'[d] = off[d]
    BY <1>1, <1>3, <1>4 DEF IInv, TypeOK
<1>7. TypeOK'
  <2>1. Nothing \in Seq(Chunk)
      BY EmptySeq DEF Nothing
  <2>2. /\ dir' \in [Path -> Inode \cup {NoInode}] /\ data' \in [Inode -> Seq(Chunk)]
        /\ fd' \in [Client -> Inode \cup {NoInode}]
      BY <1>3, <1>4, <2>1 DEF IInv, TypeOK
  <2>3. \A d \in Client : pc'[d] \in {"write", "parse"} <=> fd'[d] # NoInode
      BY <1>6, StoreAssumption DEF IInv, TypeOK
  <2> QED BY <1>1, <2>2, <2>3 DEF IInv, TypeOK
<1>8. CallOK' /\ OneSaver'
    BY <1>1, <1>2, SaverStays
<1> HIDE DEF t
<1>9. /\ OnePath' /\ ReaderOK' /\ StoredIsWhole'
      /\ \A d \in Client : d # c =>
           /\ pc[d] = "write" => /\ fd[d] = dir'[Temp(request[d].name)]
                                 /\ off[d] <= Length[request[d].report]
                                 /\ data'[fd[d]] = [j \in 1 .. off[d] |-> <<request[d].report, j>>]
           /\ pc[d] = "rename" => /\ dir'[Temp(request[d].name)] # NoInode
                                  /\ data'[dir'[Temp(request[d].name)]] = Content(request[d].report)
    BY <1>1, <1>2, <1>3, <1>5, <1>6, SaverKeeps DEF t
<1>10. WriterOK'
  <2> SUFFICES ASSUME NEW d \in Client
               PROVE  /\ pc'[d] = "write" =>
                           /\ fd'[d] = dir'[Temp(request[d].name)]
                           /\ off[d] <= Length[request[d].report]
                           /\ data'[fd'[d]] = [j \in 1 .. off[d] |-> <<request[d].report, j>>]
                      /\ pc'[d] = "rename" =>
                           /\ dir'[Temp(request[d].name)] # NoInode
                           /\ data'[dir'[Temp(request[d].name)]] = Content(request[d].report)
      BY <1>1 DEF WriterOK, Temp, Content
  <2>1. CASE d = c
    <3>1. data'[fd'[c]] = [j \in 1 .. off[c] |-> <<request[c].report, j>>]
        BY <1>2, <1>6 DEF Nothing
    <3> QED BY <1>2, <1>3, <1>6, <2>1, <3>1, ContentType DEF t
  <2>2. CASE d # c
      BY <1>6, <1>9, <2>2
  <2> QED BY <2>1, <2>2
<1> QED BY <1>7, <1>8, <1>9, <1>10 DEF IInv

(* The next chunk extends the prefix by one.                               *)
LEMMA WriteInv == ASSUME IInv, NEW c \in Client, Write(c) PROVE IInv'
<1> DEFINE t == Temp(request[c].name)
           r == request[c].report
           prefix == [i \in 1 .. off[c] + 1 |-> <<r, i>>]
<1>1. /\ pc[c] = "write" /\ off[c] < Length[r] /\ off' = [off EXCEPT ![c] = @ + 1]
      /\ UNCHANGED <<dir, request, pc, fd, got, calls>>
    BY DEF Write
<1>2. request[c] # Idle /\ request[c].op = "save" /\ pc[c] \in Busy
    BY <1>1 DEF IInv, CallOK, Busy
<1>3. t \in Path /\ request[c].name \in Name /\ r \in Report
    BY <1>2, RequestType DEF IInv
<1>4. /\ fd[c] = dir[t] /\ fd[c] \in Inode /\ off[c] \in Nat
      /\ data[fd[c]] = [i \in 1 .. off[c] |-> <<r, i>>]
    BY <1>1 DEF IInv, TypeOK, WriterOK
<1>5. data' = [data EXCEPT ![fd[c]] = prefix]
  <2>1. Len(data[fd[c]]) = off[c] /\ DOMAIN data[fd[c]] = 1 .. off[c]
      BY <1>4 DEF IInv, TypeOK
  <2>2. (IF Len(data[fd[c]]) > off[c] + 1 THEN Len(data[fd[c]]) ELSE off[c] + 1) = off[c] + 1
      BY <1>4, <2>1
  <2>3. [i \in 1 .. off[c] + 1 |-> IF i = off[c] + 1 THEN <<r, i>>
                                  ELSE IF i \in DOMAIN data[fd[c]] THEN data[fd[c]][i] ELSE Hole] = prefix
      BY <1>4, <2>1
  <2> QED BY <2>2, <2>3 DEF Write
<1>6. prefix \in Seq(Chunk)
  <2>1. \A i \in 1 .. off[c] + 1 : <<r, i>> \in Chunk
      BY <1>3, <1>4 DEF Chunk
  <2>2. off[c] + 1 \in Nat
      BY <1>4
  <2> HIDE DEF r
  <2> QED BY <2>1, <2>2
<1> HIDE DEF prefix
<1>7. /\ data'[fd[c]] = prefix /\ off'[c] = off[c] + 1 /\ off'[c] <= Length[r]
      /\ \A j \in Inode : j # dir'[t] => data'[j] = data[j]
      /\ \A d \in Client : d # c => off'[d] = off[d]
    BY <1>1, <1>3, <1>4, <1>5, StoreAssumption DEF IInv, TypeOK
<1>8. TypeOK'
  <2>1. data' \in [Inode -> Seq(Chunk)] /\ off' \in [Client -> Nat]
      BY <1>1, <1>4, <1>5, <1>6 DEF IInv, TypeOK
  <2> QED BY <1>1, <2>1 DEF IInv, TypeOK
<1>9. CallOK' /\ OneSaver'
  <2>1. pc' = [pc EXCEPT ![c] = "write"]
      BY <1>1 DEF IInv, TypeOK
  <2> QED BY <1>1, <1>2, <1>7, <2>1, SaverStays
<1>10. /\ OnePath' /\ ReaderOK' /\ StoredIsWhole'
       /\ \A d \in Client : d # c =>
           /\ pc[d] = "write" => /\ fd[d] = dir'[Temp(request[d].name)]
                                 /\ off[d] <= Length[request[d].report]
                                 /\ data'[fd[d]] = [j \in 1 .. off[d] |-> <<request[d].report, j>>]
           /\ pc[d] = "rename" => /\ dir'[Temp(request[d].name)] # NoInode
                                  /\ data'[dir'[Temp(request[d].name)]] = Content(request[d].report)
  <2>1. /\ \A p \in Path : p # t => dir'[t] # dir[p]
        /\ \A d \in Client : pc[d] = "parse" => dir'[t] # fd[d]
      BY <1>1, <1>3, <1>4, StoreAssumption DEF IInv, OnePath, ReaderOK
  <2> QED BY <1>1, <1>2, <1>3, <1>7, <2>1, SaverKeeps
<1>11. WriterOK'
  <2> SUFFICES ASSUME NEW d \in Client
               PROVE  /\ pc[d] = "write" =>
                           /\ fd[d] = dir[Temp(request[d].name)]
                           /\ off'[d] <= Length[request[d].report]
                           /\ data'[fd[d]] = [j \in 1 .. off'[d] |-> <<request[d].report, j>>]
                      /\ pc[d] = "rename" =>
                           /\ dir[Temp(request[d].name)] # NoInode
                           /\ data'[dir[Temp(request[d].name)]] = Content(request[d].report)
      BY <1>1 DEF WriterOK, Temp, Content
  <2>1. CASE d = c
    <3>1. data'[fd[c]] = [i \in 1 .. off'[c] |-> <<r, i>>]
        BY <1>7 DEF prefix
    <3> QED BY <1>1, <1>4, <1>7, <2>1, <3>1
  <2>2. CASE d # c
      BY <1>1, <1>7, <1>10, <2>2
  <2> QED BY <2>1, <2>2
<1> QED BY <1>8, <1>9, <1>10, <1>11 DEF IInv

(* Close and a failing call: the files stay as they are.                   *)
LEMMA CloseInv == ASSUME IInv, NEW c \in Client, Close(c) \/ WriteFails(c) PROVE IInv'
<1> DEFINE t == Temp(request[c].name)
<1>1. PICK v \in {"rename", "failed"} :
        /\ pc' = [pc EXCEPT ![c] = v] /\ fd' = [fd EXCEPT ![c] = NoInode]
        /\ UNCHANGED <<file, request, off, got, calls>>
        /\ pc[c] \in {"open", "write"}
        /\ v = "rename" => pc[c] = "write" /\ off[c] = Length[request[c].report]
    BY DEF Close, WriteFails, Goto
<1>2. request[c] # Idle /\ request[c].op = "save" /\ pc[c] \in Busy
    BY <1>1 DEF IInv, CallOK, Busy
<1>3. t \in Path /\ request[c].name \in Name /\ request[c].report \in Report
    BY <1>2, RequestType DEF IInv
<1>4. /\ pc'[c] = v /\ fd'[c] = NoInode /\ dir' = dir /\ data' = data /\ off' = off
      /\ \A d \in Client : d # c => pc'[d] = pc[d] /\ fd'[d] = fd[d]
    BY <1>1 DEF file, IInv, TypeOK
<1>5. TypeOK'
  <2>1. /\ pc' \in [Client -> {"none", "open", "write", "rename", "cleanup", "read", "parse", "stat", "remove",
                               "succeeded", "failed"}]
        /\ fd' \in [Client -> Inode \cup {NoInode}]
      BY <1>1 DEF IInv, TypeOK
  <2>2. \A d \in Client : pc'[d] \in {"write", "parse"} <=> fd'[d] # NoInode
      BY <1>4 DEF IInv, TypeOK
  <2> QED BY <1>1, <1>4, <2>1, <2>2 DEF IInv, TypeOK
<1>6. CallOK' /\ OneSaver'
    BY <1>1, <1>2, SaverStays
<1>7. OnePath' /\ StoredIsWhole'
    BY <1>4 DEF IInv, OnePath, StoredIsWhole, Whole, Content
<1>8. ReaderOK'
    BY <1>4 DEF IInv, ReaderOK, Whole, Content
<1>9. WriterOK'
  <2> SUFFICES ASSUME NEW d \in Client
               PROVE  /\ pc'[d] = "write" =>
                           /\ fd'[d] = dir[Temp(request[d].name)]
                           /\ off[d] <= Length[request[d].report]
                           /\ data[fd'[d]] = [j \in 1 .. off[d] |-> <<request[d].report, j>>]
                      /\ pc'[d] = "rename" =>
                           /\ dir[Temp(request[d].name)] # NoInode
                           /\ data[dir[Temp(request[d].name)]] = Content(request[d].report)
      BY <1>1, <1>4 DEF WriterOK, Temp, Content
  <2>1. CASE d = c
      BY <1>1, <1>4, <2>1 DEF IInv, TypeOK, WriterOK, Content
  <2>2. CASE d # c
      BY <1>4, <2>2 DEF IInv, WriterOK
  <2> QED BY <2>1, <2>2
<1> QED BY <1>5, <1>6, <1>7, <1>8, <1>9 DEF IInv

(* The rename moves a complete report, and nobody writes it any more.      *)
LEMMA RenameInv == ASSUME IInv, NEW c \in Client, Rename(c) PROVE IInv'
<1> DEFINE n == request[c].name
<1>1. /\ pc[c] = "rename" /\ pc' = [pc EXCEPT ![c] = "succeeded"] /\ dir[Temp(n)] # NoInode
      /\ dir' = [dir EXCEPT ![Final(n)] = dir[Temp(n)], ![Temp(n)] = NoInode]
      /\ UNCHANGED <<data, request, fd, off, got, calls>>
    BY DEF Rename, Goto
<1>2. request[c] # Idle /\ request[c].op = "save" /\ pc[c] \in Busy
    BY <1>1 DEF IInv, CallOK, Busy
<1>3. n \in Name /\ Final(n) \in Path /\ Temp(n) \in Path /\ Final(n) # Temp(n) /\ request[c].report \in Report
    BY <1>2, RequestType, PathType DEF IInv
<1>4. data[dir[Temp(n)]] = Content(request[c].report)
    BY <1>1 DEF IInv, WriterOK
<1>5. /\ dir'[Final(n)] = dir[Temp(n)] /\ dir'[Temp(n)] = NoInode
      /\ \A p \in Path : p # Final(n) /\ p # Temp(n) => dir'[p] = dir[p]
    BY <1>1, <1>3 DEF IInv, TypeOK
<1>6. pc'[c] = "succeeded" /\ \A d \in Client : d # c => pc'[d] = pc[d]
    BY <1>1 DEF IInv, TypeOK
<1>7. TypeOK'
  <2>1. dir' \in [Path -> Inode \cup {NoInode}]
      BY <1>1, <1>3 DEF IInv, TypeOK
  <2>2. \A d \in Client : pc'[d] \in {"write", "parse"} <=> fd[d] # NoInode
      BY <1>1, <1>6 DEF IInv, TypeOK
  <2>3. pc' \in [Client -> {"none", "open", "write", "rename", "cleanup", "read", "parse", "stat", "remove",
                            "succeeded", "failed"}]
      BY <1>1 DEF IInv, TypeOK
  <2> QED BY <1>1, <2>1, <2>2, <2>3 DEF IInv, TypeOK
<1>8. CallOK' /\ OneSaver'
    BY <1>1, <1>2, SaverStays
<1> HIDE DEF n
<1>9. OnePath'
  <2> SUFFICES ASSUME NEW p \in Path, NEW q \in Path, dir'[p] # NoInode, dir'[p] = dir'[q]
               PROVE  p = q
      BY DEF OnePath
  <2> DEFINE before(x) == IF x = Final(n) THEN Temp(n) ELSE x
  <2>1. \A x \in {p, q} : x # Temp(n) /\ before(x) \in Path /\ dir'[x] = dir[before(x)]
      BY <1>3, <1>5
  <2>2. before(p) = before(q)
      BY <2>1 DEF IInv, OnePath
  <2> QED BY <1>3, <2>1, <2>2
<1>10. StoredIsWhole'
  <2> SUFFICES ASSUME NEW m \in Name, dir'[Final(m)] # NoInode
               PROVE  Whole(data[dir'[Final(m)]])
      BY <1>1 DEF StoredIsWhole, Whole, Content
  <2>1. CASE m = n
      BY <1>3, <1>4, <1>5, <2>1, ReportOfContent
  <2>2. CASE m # n
      BY <1>3, <1>5, <2>2, PathType DEF IInv, StoredIsWhole
  <2> QED BY <2>1, <2>2
<1>11. ReaderOK'
  <2> SUFFICES ASSUME NEW d \in Client, pc[d] = "parse", d # c
               PROVE  Whole(data[fd[d]]) /\ \A m \in Name : fd[d] # dir'[Temp(m)]
      BY <1>1, <1>6 DEF ReaderOK, Whole, Content
  <2>1. \A m \in Name : dir'[Temp(m)] = dir[Temp(m)] \/ dir'[Temp(m)] = NoInode
      BY <1>3, <1>5, PathType
  <2> QED BY <2>1 DEF IInv, TypeOK, ReaderOK
<1>12. data' = data /\ request' = request /\ fd' = fd /\ off' = off
    BY <1>1
<1>13. WriterOK'
  <2> SUFFICES ASSUME NEW d \in Client
               PROVE  /\ pc'[d] = "write" =>
                           /\ fd[d] = dir'[Temp(request[d].name)]
                           /\ off[d] <= Length[request[d].report]
                           /\ data[fd[d]] = [i \in 1 .. off[d] |-> <<request[d].report, i>>]
                      /\ pc'[d] = "rename" =>
                           /\ dir'[Temp(request[d].name)] # NoInode
                           /\ data[dir'[Temp(request[d].name)]] = Content(request[d].report)
      BY <1>12 DEF WriterOK, Temp, Content
  <2>1. CASE pc'[d] \in {"write", "rename"}
    <3>1. d # c /\ pc'[d] = pc[d] /\ pc[d] \in Busy
        BY <1>6, <2>1 DEF Busy
    <3>2. Temp(request[d].name) # Temp(n) /\ Temp(request[d].name) \in Path /\ request[d].name \in Name
        BY <1>2, <3>1, Alone, RequestType DEF n, IInv, CallOK
    <3>3. dir'[Temp(request[d].name)] = dir[Temp(request[d].name)]
        BY <1>3, <1>5, <3>2, PathType
    <3> QED BY <3>1, <3>3 DEF IInv, WriterOK
  <2> QED BY <2>1
<1> QED BY <1>7, <1>8, <1>9, <1>10, <1>11, <1>13 DEF IInv

(* A path is removed or nothing happens to the files: a Save giving up, a  *)
(* Delete, the end of a call.  Nobody else's temp file is the one removed. *)
LEMMA RemovalKeeps ==
  ASSUME IInv, data' = data, request' = request,
         \A p \in Path : dir'[p] = dir[p] \/ dir'[p] = NoInode,
         \A d \in Client : pc'[d] \in {"write", "rename"} =>
           /\ pc[d] = pc'[d] /\ fd'[d] = fd[d] /\ off'[d] = off[d]
           /\ dir'[Temp(request[d].name)] = dir[Temp(request[d].name)],
         \A d \in Client : pc'[d] = "parse" => pc[d] = "parse" /\ fd'[d] = fd[d]
  PROVE  OnePath' /\ WriterOK' /\ ReaderOK' /\ StoredIsWhole'
<1>1. OnePath'
    BY DEF IInv, OnePath
<1>2. StoredIsWhole'
    BY PathType DEF IInv, StoredIsWhole, Whole, Content
<1>3. ReaderOK'
  <2> SUFFICES ASSUME NEW d \in Client, pc[d] = "parse"
               PROVE  Whole(data[fd[d]]) /\ \A m \in Name : fd[d] # dir'[Temp(m)]
      BY DEF ReaderOK, Whole, Content
  <2> QED BY PathType DEF IInv, TypeOK, ReaderOK
<1>4. WriterOK'
    BY DEF IInv, WriterOK, Temp, Content
<1> QED BY <1>1, <1>2, <1>3, <1>4

(* A Save whose rename fails takes its temp file away.                     *)
LEMMA GiveUpInv == ASSUME IInv, NEW c \in Client, RenameFails(c) \/ RemoveTemp(c) PROVE IInv'
<1> DEFINE n == request[c].name
<1>1. PICK v \in {"cleanup", "failed"} :
        /\ pc' = [pc EXCEPT ![c] = v] /\ pc[c] \in {"rename", "cleanup"}
        /\ dir' = dir \/ dir' = [dir EXCEPT ![Temp(n)] = NoInode]
        /\ UNCHANGED <<data, request, fd, off, got, calls>>
    BY DEF RenameFails, RemoveTemp, Goto, file
<1>2. request[c] # Idle /\ request[c].op = "save" /\ pc[c] \in Busy
    BY <1>1 DEF IInv, CallOK, Busy
<1>3. n \in Name /\ Temp(n) \in Path
    BY <1>2, RequestType DEF IInv
<1>4. /\ \A p \in Path : dir'[p] = dir[p] \/ dir'[p] = NoInode
      /\ \A p \in Path : p # Temp(n) => dir'[p] = dir[p]
      /\ pc'[c] = v /\ \A d \in Client : d # c => pc'[d] = pc[d]
    BY <1>1, <1>3 DEF IInv, TypeOK
<1>5. TypeOK'
  <2>1. /\ dir' \in [Path -> Inode \cup {NoInode}]
        /\ pc' \in [Client -> {"none", "open", "write", "rename", "cleanup", "read", "parse", "stat", "remove",
                             "succeeded", "failed"}]
      BY <1>1, <1>3 DEF IInv, TypeOK
  <2>2. \A d \in Client : pc'[d] \in {"write", "parse"} <=> fd[d] # NoInode
      BY <1>1, <1>4 DEF IInv, TypeOK
  <2> QED BY <1>1, <2>1, <2>2 DEF IInv, TypeOK
<1>6. CallOK' /\ OneSaver'
    BY <1>1, <1>2, SaverStays
<1> HIDE DEF n
<1>7. OnePath' /\ WriterOK' /\ ReaderOK' /\ StoredIsWhole'
  <2>1. ASSUME NEW d \in Client, pc'[d] \in {"write", "rename"}
        PROVE  pc[d] = pc'[d] /\ dir'[Temp(request[d].name)] = dir[Temp(request[d].name)]
    <3>1. d # c /\ pc[d] = pc'[d] /\ pc[d] \in Busy
        BY <1>4, <2>1 DEF Busy
    <3>2. Temp(request[d].name) # Temp(n) /\ Temp(request[d].name) \in Path
        BY <1>2, <3>1, Alone, RequestType DEF n, IInv, CallOK
    <3> QED BY <1>4, <3>1, <3>2
  <2>2. \A d \in Client : pc'[d] = "parse" => pc[d] = "parse"
      BY <1>4
  <2> QED BY <1>1, <1>4, <2>1, <2>2, RemovalKeeps
<1> QED BY <1>5, <1>6, <1>7 DEF IInv

(* A call begins.  Here the callers' promise is used.                      *)
LEMMA CallInv == ASSUME Serialised, IInv, NEW c \in Client, Call(c) PROVE IInv'
<1>1. PICK r \in Requests :
        /\ request[c] = Idle /\ calls < MaxCalls /\ calls' = calls + 1
        /\ r.op = "save" => \A d \in Client : ~Saving(d, r.name)
        /\ request' = [request EXCEPT ![c] = r]
        /\ pc' = [pc EXCEPT ![c] = Entry[r.op]]
        /\ UNCHANGED <<file, fd, off, got>>
    BY DEF Call, Goto
<1>2. /\ r \in Requests /\ r # Idle /\ r.op \in {"save", "load", "delete"}
      /\ Entry[r.op] \in {"open", "read", "stat"}
      /\ (r.op = "save" <=> Entry[r.op] = "open") /\ (r.op = "load" <=> Entry[r.op] = "read")
      /\ (r.op = "delete" <=> Entry[r.op] = "stat")
    BY <1>1, StoreAssumption DEF Requests, Entry
<1>3. pc[c] = "none" /\ off[c] = 0 /\ got[c] = Nothing
    BY <1>1 DEF IInv, CallOK
<1>4. /\ request'[c] = r /\ pc'[c] = Entry[r.op] /\ dir' = dir /\ data' = data
      /\ fd' = fd /\ off' = off /\ got' = got
      /\ \A d \in Client : d # c => pc'[d] = pc[d] /\ request'[d] = request[d]
    BY <1>1 DEF file, IInv, TypeOK
<1>5. TypeOK'
  <2>1. calls' \in 0 .. MaxCalls
      BY <1>1, StoreAssumption DEF IInv, TypeOK
  <2>2. /\ request' \in [Client -> Requests \cup {Idle}]
        /\ pc' \in [Client -> {"none", "open", "write", "rename", "cleanup", "read", "parse", "stat", "remove",
                             "succeeded", "failed"}]
      BY <1>1, <1>2 DEF IInv, TypeOK
  <2>3. \A d \in Client : pc'[d] \in {"write", "parse"} <=> fd[d] # NoInode
      BY <1>2, <1>3, <1>4 DEF IInv, TypeOK
  <2> QED BY <1>4, <2>1, <2>2, <2>3 DEF IInv, TypeOK
<1>6. CallOK'
  <2>1. ASSUME NEW d \in Client
        PROVE  /\ pc'[d] = "none" <=> request'[d] = Idle
               /\ pc'[d] \in Busy => request'[d] # Idle /\ request'[d].op = "save"
               /\ pc'[d] \in {"read", "parse"} => request'[d] # Idle /\ request'[d].op = "load"
               /\ pc'[d] \in {"stat", "remove"} => request'[d] # Idle /\ request'[d].op = "delete"
               /\ pc'[d] \in {"none", "open"} => off[d] = 0
               /\ got[d] # Nothing => pc'[d] = "succeeded" /\ Whole(got[d])
    <3>1. CASE d = c
        BY <1>2, <1>3, <1>4, <3>1 DEF Busy
    <3>2. CASE d # c
        BY <1>4, <3>2 DEF IInv, CallOK
    <3> QED BY <3>1, <3>2
  <2> QED BY <1>4, <2>1 DEF CallOK, Whole, Content
<1>7. OneSaver'
  <2> SUFFICES ASSUME NEW d \in Client, NEW e \in Client, NEW n \in Name, Saving(d, n)', Saving(e, n)'
               PROVE  d = e
      BY DEF OneSaver
  <2>1. CASE d = c /\ e # c
      BY <1>1, <1>4, <2>1 DEF Saving
  <2>2. CASE d # c /\ e = c
      BY <1>1, <1>4, <2>2 DEF Saving
  <2>3. CASE d # c /\ e # c
      BY <1>4, <2>3 DEF IInv, OneSaver, Saving
  <2> QED BY <2>1, <2>2, <2>3
<1>8. OnePath' /\ StoredIsWhole'
    BY <1>4 DEF IInv, OnePath, StoredIsWhole, Whole, Content
<1>9. \A d \in Client : pc'[d] \in {"write", "rename", "parse"} => d # c
    BY <1>2, <1>4
<1>10. WriterOK'
  <2>1. \A d \in Client : pc'[d] \in {"write", "rename"} => pc[d] = pc'[d] /\ request'[d] = request[d]
      BY <1>4, <1>9
  <2> QED BY <1>4, <2>1 DEF IInv, WriterOK, Temp, Content
<1>11. ReaderOK'
    BY <1>4, <1>9 DEF IInv, ReaderOK, Whole, Content
<1> QED BY <1>5, <1>6, <1>7, <1>8, <1>10, <1>11 DEF IInv

(* A call ends, answered or not.                                           *)
LEMMA EndInv == ASSUME IInv, NEW c \in Client, End(c) PROVE IInv'
<1>1. /\ request' = [request EXCEPT ![c] = Idle] /\ pc' = [pc EXCEPT ![c] = "none"]
      /\ fd' = [fd EXCEPT ![c] = NoInode] /\ off' = [off EXCEPT ![c] = 0]
      /\ got' = [got EXCEPT ![c] = Nothing] /\ UNCHANGED <<dir, data, calls>>
    BY DEF End, Goto, file
<1>2. /\ request'[c] = Idle /\ pc'[c] = "none" /\ fd'[c] = NoInode /\ off'[c] = 0 /\ got'[c] = Nothing
      /\ \A d \in Client : d # c => /\ request'[d] = request[d] /\ pc'[d] = pc[d] /\ fd'[d] = fd[d]
                                    /\ off'[d] = off[d] /\ got'[d] = got[d]
    BY <1>1 DEF IInv, TypeOK
<1>3. TypeOK'
  <2>1. Nothing \in Seq(Chunk)
      BY EmptySeq DEF Nothing
  <2>2. /\ request' \in [Client -> Requests \cup {Idle}] /\ got' \in [Client -> Seq(Chunk)]
        /\ fd' \in [Client -> Inode \cup {NoInode}] /\ off' \in [Client -> Nat]
      BY <1>1, <2>1 DEF IInv, TypeOK
  <2>3. pc' \in [Client -> {"none", "open", "write", "rename", "cleanup", "read", "parse", "stat", "remove",
                             "succeeded", "failed"}]
      BY <1>1 DEF IInv, TypeOK
  <2>4. \A d \in Client : pc'[d] \in {"write", "parse"} <=> fd'[d] # NoInode
      BY <1>2 DEF IInv, TypeOK
  <2> QED BY <1>1, <2>2, <2>3, <2>4 DEF IInv, TypeOK
<1>4. CallOK'
  <2>1. ASSUME NEW d \in Client
        PROVE  /\ pc'[d] = "none" <=> request'[d] = Idle
               /\ pc'[d] \in Busy => request'[d] # Idle /\ request'[d].op = "save"
               /\ pc'[d] \in {"read", "parse"} => request'[d] # Idle /\ request'[d].op = "load"
               /\ pc'[d] \in {"stat", "remove"} => request'[d] # Idle /\ request'[d].op = "delete"
               /\ pc'[d] \in {"none", "open"} => off'[d] = 0
               /\ got'[d] # Nothing => pc'[d] = "succeeded" /\ Whole(got'[d])
    <3>1. CASE d = c
        BY <1>2, <3>1 DEF Busy
    <3>2. CASE d # c
        BY <1>2, <3>2 DEF IInv, CallOK
    <3> QED BY <3>1, <3>2
  <2> QED BY <2>1 DEF CallOK, Whole, Content
<1>5. OneSaver'
  <2> SUFFICES ASSUME NEW d \in Client, NEW e \in Client, NEW n \in Name, Saving(d, n)', Saving(e, n)'
               PROVE  d = e
      BY DEF OneSaver
  <2>1. d # c /\ e # c
      BY <1>2 DEF Saving
  <2> QED BY <1>2, <2>1 DEF IInv, OneSaver, Saving
<1>6. OnePath' /\ StoredIsWhole'
    BY <1>1 DEF IInv, OnePath, StoredIsWhole, Whole, Content
<1>7. WriterOK'
  <2>1. \A d \in Client : pc'[d] \in {"write", "rename"} =>
          pc[d] = pc'[d] /\ request'[d] = request[d] /\ fd'[d] = fd[d] /\ off'[d] = off[d]
      BY <1>2
  <2> QED BY <1>1, <2>1 DEF IInv, WriterOK, Temp, Content
<1>8. ReaderOK'
  <2>1. \A d \in Client : pc'[d] = "parse" => pc[d] = "parse" /\ fd'[d] = fd[d]
      BY <1>2
  <2> QED BY <1>1, <2>1 DEF IInv, ReaderOK, Whole, Content
<1> QED BY <1>3, <1>4, <1>5, <1>6, <1>7, <1>8 DEF IInv

(* A step of a Load or a Delete: it may remove a baseline's path, and moves *)
(* no process that saves.                                                  *)
LEMMA OtherInv ==
  ASSUME IInv, NEW c \in Client, request[c] # Idle,
         pc[c] \in {"read", "parse", "stat", "remove"},
         NEW v \in {"parse", "remove", "succeeded", "failed"}, pc' = [pc EXCEPT ![c] = v],
         v = "parse" => pc[c] = "read", v = "remove" => pc[c] = "stat",
         dir' = dir \/ dir' = [dir EXCEPT ![Final(request[c].name)] = NoInode],
         NEW g, got' = [got EXCEPT ![c] = g], g \in Seq(Chunk),
         g # Nothing => v = "succeeded" /\ Whole(g),
         NEW f \in Inode \cup {NoInode}, fd' = [fd EXCEPT ![c] = f],
         v = "parse" <=> f # NoInode,
         v = "parse" => f = dir[Final(request[c].name)] /\ dir' = dir,
         UNCHANGED <<data, request, off, calls>>
  PROVE  IInv'
<1>1. request[c].name \in Name /\ Final(request[c].name) \in Path
    BY RequestType DEF IInv
<1>2. /\ pc'[c] = v /\ got'[c] = g /\ fd'[c] = f
      /\ \A d \in Client : d # c => pc'[d] = pc[d] /\ got'[d] = got[d] /\ fd'[d] = fd[d]
    BY DEF IInv, TypeOK
<1>3. TypeOK'
  <2>1. /\ dir' \in [Path -> Inode \cup {NoInode}] /\ fd' \in [Client -> Inode \cup {NoInode}]
        /\ got' \in [Client -> Seq(Chunk)]
      BY DEF IInv, TypeOK
  <2>2. pc' \in [Client -> {"none", "open", "write", "rename", "cleanup", "read", "parse", "stat", "remove",
                             "succeeded", "failed"}]
      BY DEF IInv, TypeOK
  <2>3. \A d \in Client : pc'[d] \in {"write", "parse"} <=> fd'[d] # NoInode
      BY <1>2 DEF IInv, TypeOK
  <2> QED BY <2>1, <2>2, <2>3 DEF IInv, TypeOK
<1>4. OneSaver'
    BY DEF IInv, OneSaver, Saving
<1>5. CallOK'
  <2>1. ASSUME NEW d \in Client
        PROVE  /\ pc'[d] = "none" <=> request[d] = Idle
               /\ pc'[d] \in Busy => request[d] # Idle /\ request[d].op = "save"
               /\ pc'[d] \in {"read", "parse"} => request[d] # Idle /\ request[d].op = "load"
               /\ pc'[d] \in {"stat", "remove"} => request[d] # Idle /\ request[d].op = "delete"
               /\ pc'[d] \in {"none", "open"} => off[d] = 0
               /\ got'[d] # Nothing => pc'[d] = "succeeded" /\ Whole(got'[d])
    <3>1. CASE d = c
        BY <1>2, <3>1 DEF Busy, IInv, CallOK
    <3>2. CASE d # c
        BY <1>2, <3>2 DEF IInv, CallOK
    <3> QED BY <3>1, <3>2
  <2> QED BY <2>1 DEF CallOK, Whole, Content
<1>6. \A p \in Path : dir'[p] = dir[p] \/ dir'[p] = NoInode
    BY <1>1 DEF IInv, TypeOK
<1>7. OnePath'
    BY <1>6 DEF IInv, OnePath
<1>8. StoredIsWhole'
    BY <1>6, PathType DEF IInv, StoredIsWhole, Whole, Content
<1>9. \A n \in Name : dir'[Temp(n)] = dir[Temp(n)]
    BY <1>1, PathType DEF IInv, TypeOK
<1>10. WriterOK'
  <2> SUFFICES ASSUME NEW d \in Client
               PROVE  /\ pc'[d] = "write" =>
                           /\ fd'[d] = dir'[Temp(request[d].name)]
                           /\ off[d] <= Length[request[d].report]
                           /\ data[fd'[d]] = [i \in 1 .. off[d] |-> <<request[d].report, i>>]
                      /\ pc'[d] = "rename" =>
                           /\ dir'[Temp(request[d].name)] # NoInode
                           /\ data[dir'[Temp(request[d].name)]] = Content(request[d].report)
      BY DEF WriterOK, Temp, Content
  <2>1. CASE pc'[d] \in {"write", "rename"}
    <3>1. d # c /\ pc'[d] = pc[d] /\ fd'[d] = fd[d] /\ pc[d] \in Busy
        BY <1>2, <2>1 DEF Busy
    <3>2. request[d].name \in Name
        BY <3>1, RequestType DEF IInv, CallOK
    <3> QED BY <1>9, <3>1, <3>2 DEF IInv, WriterOK
  <2> QED BY <2>1
<1>11. ReaderOK'
  <2> SUFFICES ASSUME NEW d \in Client, pc'[d] = "parse"
               PROVE  Whole(data[fd'[d]]) /\ \A n \in Name : fd'[d] # dir[Temp(n)]
      BY <1>9 DEF ReaderOK, Whole, Content
  <2>1. CASE d = c
    <3>1. f = dir[Final(request[c].name)] /\ f # NoInode /\ fd'[d] = f
        BY <1>2, <2>1
    <3>2. \A n \in Name : f # dir[Temp(n)]
        BY <1>1, <3>1, PathType DEF IInv, OnePath
    <3> QED BY <1>1, <3>1, <3>2 DEF IInv, StoredIsWhole
  <2>2. CASE d # c
      BY <1>2, <2>2 DEF IInv, ReaderOK
  <2> QED BY <2>1, <2>2
<1> QED BY <1>3, <1>4, <1>5, <1>7, <1>8, <1>10, <1>11 DEF IInv

LEMMA LoadDeleteInv == ASSUME IInv, NEW c \in Client, Load(c) \/ Delete(c) PROVE IInv'
<1>1. pc[c] \in {"read", "parse", "stat", "remove"} => request[c] # Idle
    BY DEF IInv, CallOK
<1>2. /\ got = [got EXCEPT ![c] = got[c]] /\ got[c] \in Seq(Chunk)
      /\ fd = [fd EXCEPT ![c] = fd[c]] /\ fd[c] \in Inode \cup {NoInode}
      /\ pc[c] \in {"read", "parse", "stat", "remove"} => got[c] = Nothing
      /\ pc[c] \in {"read", "stat", "remove"} => fd[c] = NoInode
    BY DEF IInv, TypeOK, CallOK
<1>3. CASE OpenToRead(c)
  <2> DEFINE i == dir[Final(request[c].name)]
  <2>1. pc[c] = "read" /\ i \in Inode \cup {NoInode} /\ UNCHANGED <<dir, data, request, off, got, calls>>
      BY <1>1, <1>3, RequestType DEF OpenToRead, file, IInv, TypeOK
  <2>2. CASE i = NoInode
      BY <1>1, <1>2, <1>3, <2>1, <2>2, OtherInv DEF OpenToRead, Goto
  <2>3. CASE i # NoInode
      BY <1>1, <1>2, <1>3, <2>1, <2>3, OtherInv DEF OpenToRead, Goto
  <2> QED BY <2>2, <2>3
<1>4. CASE Read(c)
  <2>1. /\ pc[c] = "parse" /\ fd' = [fd EXCEPT ![c] = NoInode]
        /\ UNCHANGED <<dir, data, request, off, calls>> /\ data[fd[c]] \in Seq(Chunk)
      BY <1>4 DEF Read, file, IInv, TypeOK
  <2>2. CASE Whole(data[fd[c]])
      BY <1>1, <1>2, <1>4, <2>1, <2>2, OtherInv DEF Read, Goto
  <2>3. CASE ~Whole(data[fd[c]])
      BY <1>1, <1>2, <1>4, <2>1, <2>3, OtherInv DEF Read, Goto
  <2> QED BY <2>2, <2>3
<1>5. CASE Stat(c)
  <2>1. PICK v \in {"failed", "remove"} : pc' = [pc EXCEPT ![c] = v]
      BY <1>5 DEF Stat, Goto
  <2>2. pc[c] = "stat" /\ UNCHANGED <<dir, data, request, fd, off, got, calls>>
      BY <1>5 DEF Stat, file
  <2> QED BY <1>1, <1>2, <2>1, <2>2, OtherInv
<1>6. CASE Remove(c)
  <2>1. PICK v \in {"failed", "succeeded"} : pc' = [pc EXCEPT ![c] = v]
      BY <1>6 DEF Remove, Goto
  <2>2. /\ pc[c] = "remove" /\ dir' = [dir EXCEPT ![Final(request[c].name)] = NoInode]
        /\ UNCHANGED <<data, request, fd, off, got, calls>>
      BY <1>6 DEF Remove
  <2> QED BY <1>1, <1>2, <2>1, <2>2, OtherInv
<1> QED BY <1>3, <1>4, <1>5, <1>6 DEF Load, Delete

-----------------------------------------------------------------------------
LEMMA NextInv == Serialised /\ IInv /\ [Next]_vars => IInv'
<1> SUFFICES ASSUME Serialised, IInv, [Next]_vars PROVE IInv'
    OBVIOUS
<1>1. ASSUME NEW c \in Client, Call(c) \/ Save(c) \/ Load(c) \/ Delete(c) \/ End(c) PROVE IInv'
  <2>1. CASE Call(c)
      BY <2>1, CallInv
  <2>2. CASE Save(c)
      BY <2>2, OpenInv, WriteInv, CloseInv, RenameInv, GiveUpInv DEF Save
  <2>3. CASE Load(c) \/ Delete(c)
      BY <2>3, LoadDeleteInv
  <2>4. CASE End(c)
      BY <2>4, EndInv
  <2> QED BY <1>1, <2>1, <2>2, <2>3, <2>4
<1>2. CASE UNCHANGED vars
  <2> USE <1>2 DEF vars
  <2>1. TypeOK' /\ CallOK' /\ OneSaver' /\ OnePath'
      BY DEF IInv, TypeOK, CallOK, OneSaver, Saving, OnePath, Whole, Content
  <2>2. WriterOK' /\ ReaderOK' /\ StoredIsWhole'
      BY DEF IInv, WriterOK, ReaderOK, StoredIsWhole, Whole, Content, Temp, Final
  <2> QED BY <2>1, <2>2 DEF IInv
<1> QED BY <1>1, <1>2 DEF Next, Quiet

(* Every state a run of the store reaches satisfies the invariant, when no *)
(* two Saves of one name overlap.                                          *)
THEOREM Invariance == Serialised => (Spec => []IInv)
<1> SUFFICES ASSUME Serialised PROVE Spec => []IInv
    OBVIOUS
<1>1. IInv /\ [Next]_vars => IInv'
    BY NextInv
<1> QED BY <1>1, InitInv, PTL DEF Spec

(* What a reader finds under a name is always one whole report, whatever   *)
(* crash or error stopped the writers before it (store.go, Save).          *)
THEOREM Stored == Serialised => (Spec => []StoredIsWhole)
<1> SUFFICES ASSUME Serialised PROVE Spec => []StoredIsWhole
    OBVIOUS
<1>1. Spec => []IInv
    BY Invariance
<1>2. IInv => StoredIsWhole
    BY DEF IInv
<1> QED BY <1>1, <1>2, PTL

-----------------------------------------------------------------------------
(* The store implements the register: the initial states map to initial    *)
(* states, and every system call maps to one step of the register or to    *)
(* none.  The refinement mapping first.                                    *)

stored == [n \in Name |-> Held(dir[Final(n)])]
phase  == [c \in Client |-> Phase(c)]
answer == [c \in Client |-> Answer(c)]

(* The mapped values in a state and in the next, as functions of the       *)
(* variables.                                                              *)
Value(d, i) == IF i # NoInode /\ Whole(d[i]) THEN ReportOf(d[i]) ELSE Missing

Stage(label) ==
  CASE label = "none" -> "none"
    [] label = "failed" -> "failed"
    [] label \in {"parse", "succeeded"} -> "applied"
    [] OTHER -> "pending"

Given(label, d, i, s) ==
  IF label = "parse" THEN Value(d, i) ELSE IF s # Nothing THEN ReportOf(s) ELSE Missing

LEMMA Mapped ==
  /\ stored = [n \in Name |-> Value(data, dir[Final(n)])]
  /\ phase = [c \in Client |-> Stage(pc[c])]
  /\ answer = [c \in Client |-> Given(pc[c], data, fd[c], got[c])]
  BY DEF stored, phase, answer, Held, Phase, Answer, Value, Stage, Given

LEMMA MappedNext ==
  /\ stored' = [n \in Name |-> Value(data', dir'[Final(n)])]
  /\ phase' = [c \in Client |-> Stage(pc'[c])]
  /\ answer' = [c \in Client |-> Given(pc'[c], data', fd'[c], got'[c])]
<1>1. stored' = [n \in Name |-> Value(data', dir'[Final(n)])]
    BY DEF stored, Held, Value, Whole, ReportOf, Content, Final
<1>2. phase' = [c \in Client |-> Stage(pc'[c])]
    BY DEF phase, Phase, Stage
<1>3. answer' = [c \in Client |-> Given(pc'[c], data', fd'[c], got'[c])]
    BY DEF answer, Answer, Held, Given, Value, Whole, ReportOf, Content, Nothing
<1> QED BY <1>1, <1>2, <1>3

LEMMA RegisterInit == Init => Register!Init
<1> SUFFICES ASSUME Init PROVE Register!Init
    OBVIOUS
<1>1. stored = [n \in Name |-> Missing]
    BY PathType DEF Init, stored, Held
<1>2. phase = [c \in Client |-> "none"] /\ answer = [c \in Client |-> Missing]
    BY DEF Init, phase, answer, Phase, Answer
<1>3. request = [c \in Client |-> Idle]
    BY DEF Init
<1> QED BY <1>1, <1>2, <1>3 DEF Register!Init, stored, phase, answer

-----------------------------------------------------------------------------
(* The steps of the register, in the terms of the mapping.                 *)

LEMMA RegisterCall ==
  ASSUME NEW c \in Client, request[c] = Idle,
         NEW r \in Requests, request' = [request EXCEPT ![c] = r],
         stored' = stored, phase' = [phase EXCEPT ![c] = "pending"],
         answer' = [answer EXCEPT ![c] = Missing]
  PROVE  Register!Call(c)
  BY DEF Register!Call, Register!To, Register!Requests, Requests, stored, phase, answer

LEMMA RegisterApply ==
  ASSUME NEW c \in Client, phase[c] = "pending", phase' = [phase EXCEPT ![c] = "applied"],
         request' = request,
         \/ /\ request[c].op = "save" /\ answer' = answer
            /\ stored' = [stored EXCEPT ![request[c].name] = request[c].report]
         \/ /\ request[c].op = "delete" /\ answer' = answer /\ stored[request[c].name] # Missing
            /\ stored' = [stored EXCEPT ![request[c].name] = Missing]
         \/ /\ request[c].op = "load" /\ stored' = stored /\ stored[request[c].name] # Missing
            /\ answer' = [answer EXCEPT ![c] = stored[request[c].name]]
  PROVE  Register!Apply(c)
  BY DEF Register!Apply, Register!To, stored, phase, answer

LEMMA RegisterRefuse ==
  ASSUME NEW c \in Client, phase[c] = "pending", phase' = [phase EXCEPT ![c] = "failed"],
         stored' = stored, request' = request, answer' = answer
  PROVE  Register!Refuse(c)
  BY DEF Register!Refuse, Register!To, stored, phase, answer

LEMMA RegisterEnd ==
  ASSUME NEW c \in Client, request[c] # Idle, request' = [request EXCEPT ![c] = Idle],
         phase' = [phase EXCEPT ![c] = "none"], answer' = [answer EXCEPT ![c] = Missing],
         stored' = stored
  PROVE  Register!End(c)
  BY DEF Register!End, Register!To, stored, phase, answer

LEMMA RegisterStutter ==
  ASSUME stored' = stored, request' = request, phase' = phase, answer' = answer
  PROVE  UNCHANGED Register!vars
  BY DEF Register!vars, stored, phase, answer

(* The stages of a call.                                                   *)
LEMMA Stages ==
  /\ Stage("none") = "none" /\ Stage("failed") = "failed"
  /\ Stage("parse") = "applied" /\ Stage("succeeded") = "applied"
  /\ \A label \in {"open", "write", "rename", "cleanup", "read", "stat", "remove"} :
       Stage(label) = "pending"
  BY DEF Stage

(* Two functions over one set that agree everywhere but at one point.      *)
LEMMA PhaseMoves ==
  ASSUME NEW c \in Client, \A d \in Client : d # c => pc'[d] = pc[d],
         NEW v, Stage(pc'[c]) = v
  PROVE  phase' = [phase EXCEPT ![c] = v]
<1>1. phase' = [d \in Client |-> IF d = c THEN v ELSE Stage(pc[d])]
    BY MappedNext
<1>2. phase = [d \in Client |-> Stage(pc[d])]
    BY Mapped
<1> QED BY <1>1, <1>2

LEMMA AnswerMoves ==
  ASSUME NEW c \in Client,
         \A d \in Client : d # c => /\ pc'[d] = pc[d] /\ fd'[d] = fd[d] /\ got'[d] = got[d]
                                    /\ pc[d] = "parse" => data'[fd[d]] = data[fd[d]],
         NEW v, Given(pc'[c], data', fd'[c], got'[c]) = v
  PROVE  answer' = [answer EXCEPT ![c] = v]
<1>1. ASSUME NEW d \in Client, d # c
      PROVE  Given(pc'[d], data', fd'[d], got'[d]) = Given(pc[d], data, fd[d], got[d])
  <2>1. pc'[d] = pc[d] /\ fd'[d] = fd[d] /\ got'[d] = got[d]
      BY <1>1
  <2>2. pc[d] = "parse" => Value(data', fd[d]) = Value(data, fd[d])
      BY <1>1 DEF Value
  <2> QED BY <2>1, <2>2 DEF Given
<1>2. answer' = [d \in Client |-> IF d = c THEN v ELSE Given(pc[d], data, fd[d], got[d])]
    BY <1>1, MappedNext
<1>3. answer = [d \in Client |-> Given(pc[d], data, fd[d], got[d])]
    BY Mapped
<1> QED BY <1>2, <1>3

(* A process that neither reads nor has read has no answer.                *)
LEMMA NoAnswer ==
  ASSUME NEW label, label # "parse", NEW d, NEW i
  PROVE  Given(label, d, i, Nothing) = Missing
  BY DEF Given

(* Whatever a name holds, Value sees it.                                   *)
LEMMA StoredValue ==
  ASSUME IInv, NEW n \in Name
  PROVE  /\ stored[n] = Value(data, dir[Final(n)])
         /\ stored[n] # Missing <=> dir[Final(n)] # NoInode
<1>1. stored[n] = Value(data, dir[Final(n)])
    BY Mapped
<1>2. Whole(data[dir[Final(n)]]) => ReportOf(data[dir[Final(n)]]) \in Report
    BY ReportOfContent DEF Whole
<1> QED BY <1>1, <1>2, StoreAssumption DEF Value, IInv, StoredIsWhole

-----------------------------------------------------------------------------
(* The store's steps.                                                      *)

(* A step that leaves every stored report, every reader's file and every   *)
(* other process alone shows only in the stage of its own call.            *)
LEMMA OwnStage ==
  ASSUME IInv, NEW c \in Client, request' = request, got' = got,
         pc[c] # "parse", pc'[c] # "parse", pc[c] # "succeeded",
         \A d \in Client : d # c => pc'[d] = pc[d] /\ fd'[d] = fd[d],
         \A n \in Name : /\ dir'[Final(n)] = dir[Final(n)]
                         /\ dir[Final(n)] # NoInode => data'[dir[Final(n)]] = data[dir[Final(n)]],
         \A d \in Client : pc[d] = "parse" => data'[fd[d]] = data[fd[d]]
  PROVE  /\ stored' = stored /\ answer' = answer
         /\ phase' = [phase EXCEPT ![c] = Stage(pc'[c])] /\ phase[c] = Stage(pc[c])
<1>1. stored' = stored
  <2>1. ASSUME NEW n \in Name PROVE Value(data', dir'[Final(n)]) = Value(data, dir[Final(n)])
      BY DEF Value
  <2> QED BY <2>1, Mapped, MappedNext
<1>2. answer' = answer
  <2>1. answer' = [answer EXCEPT ![c] = Given(pc'[c], data', fd'[c], got'[c])]
    <3>1. \A d \in Client : d # c => got'[d] = got[d]
        OBVIOUS
    <3> QED BY <3>1, AnswerMoves
  <2>2. got[c] = Nothing
      BY DEF IInv, CallOK
  <2>3. Given(pc'[c], data', fd'[c], got'[c]) = Missing /\ Given(pc[c], data, fd[c], got[c]) = Missing
      BY <2>2, NoAnswer
  <2>4. answer = [d \in Client |-> Given(pc[d], data, fd[d], got[d])]
      BY Mapped
  <2> QED BY <2>1, <2>3, <2>4
<1>3. phase' = [phase EXCEPT ![c] = Stage(pc'[c])]
    BY PhaseMoves
<1>4. phase[c] = Stage(pc[c])
    BY Mapped
<1> QED BY <1>1, <1>2, <1>3, <1>4

(* A Save before its rename has no effect.                                 *)
LEMMA SaverStutters ==
  ASSUME IInv, NEW c \in Client, Open(c) \/ Write(c) \/ Close(c) \/ RenameFails(c)
  PROVE  UNCHANGED Register!vars
<1>1. /\ pc[c] \in {"open", "write", "rename"} /\ pc'[c] \in {"write", "rename", "cleanup"}
      /\ \A d \in Client : d # c => pc'[d] = pc[d] /\ fd'[d] = fd[d]
      /\ request' = request /\ got' = got
  <2>1. CASE Open(c)
    <3>1. \A i : i \in (IF dir[Temp(request[c].name)] = NoInode THEN Free ELSE {dir[Temp(request[c].name)]})
            => \A d \in Client : d # c => [fd EXCEPT ![c] = i][d] = fd[d]
        BY DEF IInv, TypeOK
    <3> QED BY <2>1, <3>1 DEF Open, OpenAt, Goto, IInv, TypeOK
  <2>2. CASE Write(c)
      BY <2>2 DEF Write, IInv, TypeOK
  <2>3. CASE Close(c) \/ RenameFails(c)
      BY <2>3 DEF Close, RenameFails, Goto, IInv, TypeOK
  <2> QED BY <2>1, <2>2, <2>3
<1>2. /\ \A n \in Name : /\ dir'[Final(n)] = dir[Final(n)]
                         /\ dir[Final(n)] # NoInode => data'[dir[Final(n)]] = data[dir[Final(n)]]
      /\ \A d \in Client : pc[d] = "parse" => data'[fd[d]] = data[fd[d]]
  <2> DEFINE t == Temp(request[c].name)
  <2>1. request[c].name \in Name /\ t \in Path /\ \A n \in Name : Final(n) \in Path /\ Final(n) # t
      BY <1>1, RequestType, PathType DEF Busy, IInv, CallOK
  <2>2. CASE Open(c)
    <3>1. PICK i \in Inode : /\ i \in IF dir[t] = NoInode THEN Free ELSE {dir[t]}
                             /\ dir' = [dir EXCEPT ![t] = i]
                             /\ data' = [data EXCEPT ![i] = Nothing]
        BY <2>1, <2>2 DEF Open, OpenAt, Free, IInv, TypeOK
    <3>2. /\ \A p \in Path : p # t => i # dir[p]
          /\ \A d \in Client : pc[d] = "parse" => i # fd[d]
      <4>1. CASE dir[t] = NoInode
          BY <3>1, <4>1 DEF Free
      <4>2. CASE dir[t] # NoInode
          BY <2>1, <3>1, <4>2 DEF IInv, OnePath, ReaderOK
      <4> QED BY <4>1, <4>2
    <3> HIDE DEF t
    <3> QED BY <2>1, <3>1, <3>2 DEF IInv, TypeOK
  <2>3. CASE Write(c)
    <3>1. PICK s : data' = [data EXCEPT ![fd[c]] = s]
        BY <2>3 DEF Write
    <3>2. pc[c] = "write" /\ dir' = dir /\ fd[c] = dir[t] /\ fd[c] # NoInode
        BY <2>3 DEF Write, IInv, TypeOK, WriterOK
    <3>3. /\ \A n \in Name : dir[Final(n)] # fd[c]
          /\ \A d \in Client : pc[d] = "parse" => fd[d] # fd[c]
        BY <2>1, <3>2 DEF IInv, OnePath, ReaderOK
    <3> HIDE DEF t
    <3> QED BY <2>1, <3>1, <3>2, <3>3 DEF IInv, TypeOK
  <2>4. CASE Close(c) \/ RenameFails(c)
      BY <2>4 DEF Close, RenameFails, file
  <2> QED BY <1>1, <2>2, <2>3, <2>4
<1>3. /\ stored' = stored /\ answer' = answer
      /\ phase' = [phase EXCEPT ![c] = Stage(pc'[c])] /\ phase[c] = Stage(pc[c])
    BY <1>1, <1>2, OwnStage
<1>4. Stage(pc[c]) = "pending" /\ Stage(pc'[c]) = "pending"
    BY <1>1, Stages
<1>5. phase' = phase
    BY <1>3, <1>4, Mapped
<1> QED BY <1>1, <1>3, <1>5, RegisterStutter

(* Every failure is a refusal.                                             *)
LEMMA FailureRefuses ==
  ASSUME IInv, NEW c \in Client, WriteFails(c) \/ RemoveTemp(c)
  PROVE  Register!Refuse(c)
<1>1. /\ pc[c] \in {"open", "write", "cleanup"} /\ pc'[c] = "failed"
      /\ \A d \in Client : d # c => pc'[d] = pc[d] /\ fd'[d] = fd[d]
      /\ request' = request /\ got' = got /\ data' = data
    BY DEF WriteFails, RemoveTemp, Goto, file, IInv, TypeOK
<1>2. request[c].name \in Name /\ \A n \in Name : Final(n) \in Path /\ Final(n) # Temp(request[c].name)
    BY <1>1, RequestType, PathType DEF Busy, IInv, CallOK
<1>3. \A n \in Name : dir'[Final(n)] = dir[Final(n)]
    BY <1>2 DEF WriteFails, RemoveTemp, file, IInv, TypeOK
<1>4. /\ stored' = stored /\ answer' = answer
      /\ phase' = [phase EXCEPT ![c] = Stage(pc'[c])] /\ phase[c] = Stage(pc[c])
    BY <1>1, <1>3, OwnStage
<1>5. Stage(pc[c]) = "pending" /\ Stage(pc'[c]) = "failed"
    BY <1>1, Stages
<1> QED BY <1>1, <1>4, <1>5, RegisterRefuse

(* A Save takes effect at its rename.                                      *)
LEMMA RenameApplies ==
  ASSUME IInv, NEW c \in Client, Rename(c)
  PROVE  Register!Apply(c)
<1> DEFINE n == request[c].name
<1>1. /\ pc[c] = "rename" /\ pc'[c] = "succeeded" /\ \A d \in Client : d # c => pc'[d] = pc[d]
      /\ data' = data /\ request' = request /\ fd' = fd /\ got' = got
      /\ dir' = [dir EXCEPT ![Final(n)] = dir[Temp(n)], ![Temp(n)] = NoInode]
    BY DEF Rename, Goto, IInv, TypeOK
<1>2. request[c].op = "save" /\ request[c].report \in Report /\ n \in Name /\ Final(n) \in Path
    BY <1>1, RequestType DEF Busy, IInv, CallOK
<1>3. dir[Temp(n)] # NoInode /\ data[dir[Temp(n)]] = Content(request[c].report)
    BY <1>1 DEF IInv, WriterOK
<1>4. /\ dir'[Final(n)] = dir[Temp(n)]
      /\ \A m \in Name : m # n => dir'[Final(m)] = dir[Final(m)]
    BY <1>1, <1>2, PathType DEF IInv, TypeOK
<1>5. Value(data', dir'[Final(n)]) = request[c].report
    BY <1>1, <1>2, <1>3, <1>4, ReportOfContent DEF Value
<1> HIDE DEF n
<1>6. stored' = [stored EXCEPT ![n] = request[c].report]
  <2>1. ASSUME NEW m \in Name, m # n
        PROVE  Value(data', dir'[Final(m)]) = Value(data, dir[Final(m)])
      BY <1>1, <1>4, <2>1
  <2> QED BY <1>5, <2>1, Mapped, MappedNext
<1>7. answer' = answer
  <2>1. got[c] = Nothing
      BY <1>1 DEF IInv, CallOK
  <2>2. Given(pc'[c], data', fd'[c], got'[c]) = Missing /\ Given(pc[c], data, fd[c], got[c]) = Missing
      BY <1>1, <2>1, NoAnswer
  <2>3. answer' = [answer EXCEPT ![c] = Missing]
      BY <1>1, <2>2, AnswerMoves
  <2> QED BY <2>2, <2>3, Mapped
<1>8. phase[c] = "pending" /\ phase' = [phase EXCEPT ![c] = "applied"]
    BY <1>1, Mapped, PhaseMoves, Stages
<1> QED BY <1>1, <1>2, <1>6, <1>7, <1>8, RegisterApply DEF n

(* A Load takes effect when it opens the file.                             *)
LEMMA OpenToReadRefines ==
  ASSUME IInv, NEW c \in Client, OpenToRead(c)
  PROVE  Register!Refuse(c) \/ Register!Apply(c)
<1> DEFINE n == request[c].name
<1>1. /\ pc[c] = "read" /\ UNCHANGED <<dir, data, request, got>>
      /\ \A d \in Client : d # c => pc'[d] = pc[d] /\ fd'[d] = fd[d]
    BY DEF OpenToRead, Goto, file, IInv, TypeOK
<1>2. request[c].op = "load" /\ n \in Name /\ got[c] = Nothing
    BY <1>1, RequestType DEF IInv, CallOK
<1>3. CASE dir[Final(n)] = NoInode
  <2>1. pc'[c] = "failed"
      BY <1>3 DEF OpenToRead, Goto, IInv, TypeOK
  <2>2. /\ stored' = stored /\ answer' = answer
        /\ phase' = [phase EXCEPT ![c] = Stage(pc'[c])] /\ phase[c] = Stage(pc[c])
      BY <1>1, <2>1, OwnStage
  <2> QED BY <1>1, <2>1, <2>2, Stages, RegisterRefuse
<1>4. CASE dir[Final(n)] # NoInode
  <2>1. pc'[c] = "parse" /\ fd'[c] = dir[Final(n)]
      BY <1>4 DEF OpenToRead, Goto, IInv, TypeOK
  <2>2. stored' = stored
      BY <1>1, Mapped, MappedNext
  <2>3. Given(pc'[c], data', fd'[c], got'[c]) = stored[n] /\ stored[n] # Missing
      BY <1>1, <1>2, <1>4, <2>1, StoredValue DEF Given
  <2>4. answer' = [answer EXCEPT ![c] = stored[n]]
      BY <1>1, <2>3, AnswerMoves
  <2>5. phase[c] = "pending" /\ phase' = [phase EXCEPT ![c] = "applied"]
      BY <1>1, <2>1, Mapped, PhaseMoves, Stages
  <2> QED BY <1>1, <1>2, <2>2, <2>3, <2>4, <2>5, RegisterApply
<1> QED BY <1>3, <1>4

(* What it opened is a whole report: reading it fails in no case.          *)
LEMMA ReadStutters ==
  ASSUME IInv, NEW c \in Client, Read(c)
  PROVE  UNCHANGED Register!vars
<1>1. /\ pc[c] = "parse" /\ UNCHANGED <<dir, data, request>>
      /\ Whole(data[fd[c]]) /\ fd[c] # NoInode
    BY DEF Read, file, IInv, TypeOK, ReaderOK
<1>2. /\ pc'[c] = "succeeded" /\ got'[c] = data[fd[c]]
      /\ \A d \in Client : d # c => pc'[d] = pc[d] /\ fd'[d] = fd[d] /\ got'[d] = got[d]
    BY <1>1 DEF Read, Goto, IInv, TypeOK
<1>3. data[fd[c]] # Nothing
    BY <1>1, ContentType DEF Whole
<1>4. Given(pc'[c], data', fd'[c], got'[c]) = Given(pc[c], data, fd[c], got[c])
    BY <1>1, <1>2, <1>3 DEF Given, Value
<1>5. answer' = answer
    BY <1>1, <1>2, <1>4, AnswerMoves, Mapped
<1>6. phase' = phase
    BY <1>1, <1>2, PhaseMoves, Stages, Mapped
<1>7. stored' = stored
    BY <1>1, Mapped, MappedNext
<1> QED BY <1>1, <1>5, <1>6, <1>7, RegisterStutter

(* A Delete takes effect at its remove.                                    *)
LEMMA DeleteRefines ==
  ASSUME IInv, NEW c \in Client, Delete(c)
  PROVE  Register!Refuse(c) \/ Register!Apply(c) \/ UNCHANGED Register!vars
<1> DEFINE n == request[c].name
<1>1. /\ pc[c] \in {"stat", "remove"} /\ UNCHANGED <<data, request, fd, got>>
      /\ \A d \in Client : d # c => pc'[d] = pc[d]
    BY DEF Delete, Stat, Remove, Goto, file, IInv, TypeOK
<1>2. request[c].op = "delete" /\ n \in Name /\ Final(n) \in Path /\ got[c] = Nothing
    BY <1>1, RequestType DEF IInv, CallOK
<1>3. Stage(pc[c]) = "pending"
    BY <1>1, Stages
<1>4. ASSUME dir' = dir, pc'[c] \in {"failed", "remove"}
      PROVE  Register!Refuse(c) \/ UNCHANGED Register!vars
  <2>1. /\ stored' = stored /\ answer' = answer
        /\ phase' = [phase EXCEPT ![c] = Stage(pc'[c])] /\ phase[c] = Stage(pc[c])
      BY <1>1, <1>4, OwnStage
  <2>2. CASE pc'[c] = "failed"
      BY <1>1, <1>3, <2>1, <2>2, Stages, RegisterRefuse
  <2>3. CASE pc'[c] = "remove"
    <3>1. phase' = phase
        BY <1>3, <2>1, <2>3, Stages, Mapped
    <3> QED BY <1>1, <2>1, <3>1, RegisterStutter
  <2> QED BY <1>4, <2>2, <2>3
<1>5. CASE Stat(c)
  <2>1. dir' = dir /\ pc'[c] \in {"failed", "remove"}
      BY <1>5 DEF Stat, Goto, file, IInv, TypeOK
  <2> QED BY <1>4, <2>1
<1>6. CASE Remove(c) /\ dir[Final(n)] = NoInode
  <2>1. dir' = dir /\ pc'[c] = "failed"
      BY <1>2, <1>6 DEF Remove, Goto, IInv, TypeOK
  <2> QED BY <1>4, <2>1
<1>7. CASE Remove(c) /\ dir[Final(n)] # NoInode
  <2>1. /\ pc'[c] = "succeeded" /\ dir'[Final(n)] = NoInode
        /\ \A m \in Name : m # n => dir'[Final(m)] = dir[Final(m)]
      BY <1>2, <1>7, PathType DEF Remove, Goto, IInv, TypeOK
  <2>2. stored' = [stored EXCEPT ![n] = Missing]
    <3>1. Value(data', dir'[Final(n)]) = Missing
        BY <2>1 DEF Value
    <3> HIDE DEF n
    <3>2. stored' = [m \in Name |-> IF m = n THEN Missing ELSE Value(data, dir[Final(m)])]
        BY <1>1, <2>1, <3>1, MappedNext
    <3> QED BY <3>2, Mapped
  <2>3. answer' = answer
    <3>1. Given(pc'[c], data', fd'[c], got'[c]) = Missing /\ Given(pc[c], data, fd[c], got[c]) = Missing
        BY <1>1, <1>2, <2>1, NoAnswer
    <3>2. answer' = [answer EXCEPT ![c] = Missing]
        BY <1>1, <3>1, AnswerMoves
    <3> QED BY <3>1, <3>2, Mapped
  <2>4. phase[c] = "pending" /\ phase' = [phase EXCEPT ![c] = "applied"]
      BY <1>1, <1>3, <2>1, Mapped, PhaseMoves, Stages
  <2>5. stored[n] # Missing
      BY <1>2, <1>7, StoredValue
  <2> QED BY <1>1, <1>2, <2>2, <2>3, <2>4, <2>5, RegisterApply
<1> QED BY <1>5, <1>6, <1>7 DEF Delete

(* A call begins and ends without touching what is stored.                 *)
LEMMA CallRefines ==
  ASSUME IInv, NEW c \in Client, Call(c)
  PROVE  Register!Call(c)
<1>1. PICK r \in Requests :
        /\ request[c] = Idle /\ request' = [request EXCEPT ![c] = r]
        /\ pc' = [pc EXCEPT ![c] = Entry[r.op]] /\ UNCHANGED <<dir, data, fd, got>>
    BY DEF Call, Goto, file
<1>2. Entry[r.op] \in {"open", "read", "stat"}
    BY DEF Requests, Entry
<1>3. pc'[c] = Entry[r.op] /\ \A d \in Client : d # c => pc'[d] = pc[d]
    BY <1>1 DEF IInv, TypeOK
<1>4. got[c] = Nothing
    BY <1>1 DEF IInv, CallOK
<1>5. Given(pc'[c], data', fd'[c], got'[c]) = Missing
    BY <1>1, <1>2, <1>3, <1>4, NoAnswer
<1>6. answer' = [answer EXCEPT ![c] = Missing]
    BY <1>1, <1>3, <1>5, AnswerMoves
<1>7. Stage(pc'[c]) = "pending"
    BY <1>2, <1>3, Stages
<1>8. phase' = [phase EXCEPT ![c] = "pending"]
    BY <1>3, <1>7, PhaseMoves
<1>9. stored' = stored
    BY <1>1, Mapped, MappedNext
<1> QED BY <1>1, <1>6, <1>8, <1>9, RegisterCall

LEMMA EndRefines ==
  ASSUME IInv, NEW c \in Client, End(c)
  PROVE  Register!End(c)
<1>1. /\ request[c] # Idle /\ request' = [request EXCEPT ![c] = Idle] /\ UNCHANGED <<dir, data>>
      /\ pc'[c] = "none" /\ got'[c] = Nothing
      /\ \A d \in Client : d # c => pc'[d] = pc[d] /\ fd'[d] = fd[d] /\ got'[d] = got[d]
    BY DEF End, Goto, file, IInv, TypeOK
<1>2. Given(pc'[c], data', fd'[c], got'[c]) = Missing
    BY <1>1, NoAnswer
<1>3. answer' = [answer EXCEPT ![c] = Missing]
    BY <1>1, <1>2, AnswerMoves
<1>4. phase' = [phase EXCEPT ![c] = "none"]
    BY <1>1, PhaseMoves, Stages
<1>5. stored' = stored
    BY <1>1, Mapped, MappedNext
<1> QED BY <1>1, <1>3, <1>4, <1>5, RegisterEnd

-----------------------------------------------------------------------------
LEMMA StepRefines ==
  ASSUME IInv, [Next]_vars
  PROVE  [Register!Next]_(Register!vars)
<1>1. ASSUME NEW c \in Client, Call(c) \/ Save(c) \/ Load(c) \/ Delete(c) \/ End(c)
      PROVE  Register!Next \/ UNCHANGED Register!vars
  <2>1. CASE Call(c)
      BY <2>1, CallRefines DEF Register!Next
  <2>2. CASE Save(c)
      BY <2>2, SaverStutters, FailureRefuses, RenameApplies DEF Save, Register!Next
  <2>3. CASE Load(c)
      BY <2>3, OpenToReadRefines, ReadStutters DEF Load, Register!Next
  <2>4. CASE Delete(c)
      BY <2>4, DeleteRefines DEF Register!Next
  <2>5. CASE End(c)
      BY <2>5, EndRefines DEF Register!Next
  <2> QED BY <1>1, <2>1, <2>2, <2>3, <2>4, <2>5
<1>2. CASE UNCHANGED vars
  <2>1. stored' = stored /\ phase' = phase /\ answer' = answer /\ request' = request
      BY <1>2, Mapped, MappedNext DEF vars
  <2> QED BY <2>1, RegisterStutter
<1> QED BY <1>1, <1>2 DEF Next, Quiet

(* The store is an atomic register while no two Saves of one name overlap:  *)
(* whatever fails or dies between two system calls, a call that succeeds    *)
(* has taken effect once, and one that is refused not at all (store.go).    *)
THEOREM Refinement == Serialised => (Spec => KeepsRegister)
<1> SUFFICES ASSUME Serialised PROVE Spec => KeepsRegister
    OBVIOUS
<1>1. Spec => []IInv
    BY Invariance
<1>2. IInv /\ [Next]_vars => [Register!Next]_(Register!vars)
    BY StepRefines
<1> QED BY <1>1, <1>2, RegisterInit, PTL DEF Spec, KeepsRegister, Register!Spec
=============================================================================
