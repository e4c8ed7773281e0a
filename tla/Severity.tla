------------------------------ MODULE Severity ------------------------------
(***************************************************************************)
(* The severity vocabulary every domain shares (internal/cloud).           *)
(***************************************************************************)
EXTENDS Integers

Level == {"CRITICAL", "HIGH", "MEDIUM", "LOW", "INFO"}

(* Rank 0 belongs to a word that is not a level, so that every real level, *)
(* INFO included, ranks above a typo.                                      *)
SeverityRank(s) ==
  CASE s = "CRITICAL" -> 5
    [] s = "HIGH"     -> 4
    [] s = "MEDIUM"   -> 3
    [] s = "LOW"      -> 2
    [] s = "INFO"     -> 1
    [] OTHER          -> 0

AtLeast(s, floor) == SeverityRank(s) >= SeverityRank(floor)
=============================================================================
