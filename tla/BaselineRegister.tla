--------------------------- MODULE BaselineRegister ---------------------------
(***************************************************************************)
(* What the baseline store promises: every name holds a whole report or    *)
(* nothing, a call that succeeds takes effect exactly once between its     *)
(* start and its answer, and one that fails or dies before that has no     *)
(* effect at all.                                                          *)
(***************************************************************************)
CONSTANTS Client, Name, Report, Missing, Idle

VARIABLES
  stored,   \* the report of each name
  request,  \* what each client has asked for: Idle, or [op, name, report]
  phase,    \* and how far it has come
  answer    \* what its Load took out of the store

vars == <<stored, request, phase, answer>>

Requests == [op : {"save", "load", "delete"}, name : Name, report : Report]

Init ==
  /\ stored \in [Name -> Report \cup {Missing}]
  /\ request = [c \in Client |-> Idle]
  /\ phase = [c \in Client |-> "none"]
  /\ answer = [c \in Client |-> Missing]

To(c, label) == phase' = [phase EXCEPT ![c] = label]

Call(c) ==
  /\ request[c] = Idle
  /\ \E r \in Requests : request' = [request EXCEPT ![c] = r]
  /\ To(c, "pending")
  /\ answer' = [answer EXCEPT ![c] = Missing]
  /\ UNCHANGED stored

(* A name that is missing can be neither loaded nor deleted.               *)
Apply(c) ==
  /\ phase[c] = "pending"
  /\ LET r == request[c] IN
       \/ /\ r.op = "save"
          /\ stored' = [stored EXCEPT ![r.name] = r.report]
          /\ UNCHANGED answer
       \/ /\ r.op = "delete" /\ stored[r.name] # Missing
          /\ stored' = [stored EXCEPT ![r.name] = Missing]
          /\ UNCHANGED answer
       \/ /\ r.op = "load" /\ stored[r.name] # Missing
          /\ answer' = [answer EXCEPT ![c] = stored[r.name]]
          /\ UNCHANGED stored
  /\ To(c, "applied")
  /\ UNCHANGED request

Refuse(c) ==
  /\ phase[c] = "pending"
  /\ To(c, "failed")
  /\ UNCHANGED <<stored, request, answer>>

(* The answer, or the death of the client.                                 *)
End(c) ==
  /\ request[c] # Idle
  /\ request' = [request EXCEPT ![c] = Idle]
  /\ To(c, "none")
  /\ answer' = [answer EXCEPT ![c] = Missing]
  /\ UNCHANGED stored

Next == \E c \in Client : Call(c) \/ Apply(c) \/ Refuse(c) \/ End(c)

Spec == Init /\ [][Next]_vars
=============================================================================
