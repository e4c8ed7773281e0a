--------------------------- MODULE IamScanRefines ---------------------------
(***************************************************************************)
(* The refinement mapping from the goroutines of IamScan to the decisions  *)
(* of IamPromise.  A principal is decided when its provider call returns   *)
(* an error, or when it is counted as scanned; the report exists from the  *)
(* moment g.Wait lets Scan return.                                         *)
(***************************************************************************)
EXTENDS IamScan

OutcomeOf(p) ==
  IF err[p] # "none" THEN [kind |-> "unread", findings |-> {}]
  ELSE IF p \in Analysed THEN [kind |-> "analysed", findings |-> Kept(p)]
  ELSE [kind |-> "none", findings |-> {}]

PhaseOf ==
  IF main = "list" THEN "start" ELSE IF main \in {"spawn", "wait"} THEN "scanning" ELSE main

Promise == INSTANCE IamPromise WITH
  phase   <- PhaseOf,
  due     <- queue \cup Attempted,
  outcome <- [p \in Principal |-> OutcomeOf(p)],
  report  <- IF main = "returned"
             THEN [findings |-> result.findings, unread |-> UnreadPrincipals, scanned |-> scanned]
             ELSE [findings |-> {}, unread |-> {}, scanned |-> 0]

(* The concurrent scan does nothing its caller could tell from deciding    *)
(* the principals one at a time and publishing the decisions at once.      *)
KeepsPromise == Promise!PSpec
=============================================================================
