----------------------------- MODULE IamPromise -----------------------------
(***************************************************************************)
(* What iam.Scan promises its caller, with no goroutine in sight: every    *)
(* principal the scan was given is decided once, analysed or unread, and   *)
(* one report states all of the decisions and nothing else.                *)
(***************************************************************************)
EXTENDS IamAnalyze, FiniteSets

CONSTANT Matches    \* the principals PrincipalFilter lets through

VARIABLES
  phase,      \* "start", "scanning", then "returned" or "failed"
  due,        \* the principals to decide
  outcome,    \* the decision on each of them
  report      \* what the caller receives

pvars == <<phase, due, outcome, report>>

Undecided == [kind |-> "none", findings |-> {}]
Unread    == [kind |-> "unread", findings |-> {}]
NoReport  == [findings |-> {}, unread |-> {}, scanned |-> 0]

Decided(kind) == {p \in due : outcome[p].kind = kind}

PInit ==
  /\ phase = "start"
  /\ due = {}
  /\ outcome = [p \in Principal |-> Undecided]
  /\ report = NoReport

Begin ==
  /\ phase = "start"
  /\ due' \in SUBSET Matches
  /\ phase' = "scanning"
  /\ UNCHANGED <<outcome, report>>

Fail ==
  /\ phase = "start"
  /\ phase' = "failed"
  /\ UNCHANGED <<due, outcome, report>>

Decide(p, o) ==
  /\ phase = "scanning"
  /\ p \in due
  /\ outcome[p] = Undecided
  /\ \/ o = Unread
     \/ o.kind = "analysed" /\ \A f \in o.findings : f \in Finding /\ f.principal = p
  /\ outcome' = [outcome EXCEPT ![p] = o]
  /\ UNCHANGED <<phase, due, report>>

Publish ==
  /\ phase = "scanning"
  /\ Decided("none") = {}
  /\ report' = [findings |-> UNION {outcome[p].findings : p \in due},
                unread   |-> Decided("unread"),
                scanned  |-> Cardinality(Decided("analysed"))]
  /\ phase' = "returned"
  /\ UNCHANGED <<due, outcome>>

PNext == Begin \/ Fail \/ (\E p \in due : Decide(p, outcome'[p])) \/ Publish

PSpec == PInit /\ [][PNext]_pvars
=============================================================================
