----------------------------- MODULE Compliance -----------------------------
(***************************************************************************)
(* The two benchmarks and their evaluation over the findings of saved      *)
(* reports (internal/compliance).  A control is decided by the findings of *)
(* one domain: some of the types that fail it, or none of them.            *)
(***************************************************************************)
EXTENDS Severity

Slots == {"iam", "storage", "network", "certs", "tags"}

Control(id, severity, slot, fails) == [id |-> id, severity |-> severity, slot |-> slot, fails |-> fails]

Stale == {"STALE_PRINCIPAL", "UNUSED_PERMISSION"}
Broad == {"BROAD_SCOPE", "WILDCARD_RESOURCE"}

(* The controls some evaluator decides.  Tags fail by being reported.      *)
CisEvaluated == {
  Control("1.10",  "MEDIUM",   "iam",     Stale),
  Control("1.12",  "MEDIUM",   "iam",     Stale),
  Control("1.15",  "MEDIUM",   "iam",     Broad),
  Control("1.16",  "CRITICAL", "iam",     {"ADMIN_ACCESS"}),
  Control("2.1.4", "HIGH",     "storage", {"UNENCRYPTED"}),
  Control("2.1.5", "CRITICAL", "storage", {"PUBLIC_ACCESS"}),
  Control("3.7",   "MEDIUM",   "storage", {"NO_LOGGING"}),
  Control("4.1",   "LOW",      "tags",    {}),
  Control("5.1",   "CRITICAL", "network", {"ADMIN_PORT_OPEN"}),
  Control("5.2",   "HIGH",     "network", {"ADMIN_PORT_OPEN"}),
  Control("5.3",   "HIGH",     "network", {"ADMIN_PORT_OPEN"}) }

Soc2Evaluated == {
  Control("CC6.1", "CRITICAL", "iam",     {"ADMIN_ACCESS"}),
  Control("CC6.2", "HIGH",     "iam",     Stale),
  Control("CC6.3", "HIGH",     "iam",     Broad),
  Control("CC6.6", "CRITICAL", "network", {"ADMIN_PORT_OPEN"}),
  Control("CC6.7", "HIGH",     "storage", {"UNENCRYPTED"}),
  Control("CC7.2", "MEDIUM",   "storage", {"NO_LOGGING"}),
  Control("A1.2",  "HIGH",     "certs",   {"EXPIRED", "EXPIRING_7D"}),
  Control("C1.1",  "CRITICAL", "storage", {"PUBLIC_ACCESS"}),
  Control("C1.2",  "CRITICAL", "storage", {"UNENCRYPTED"}),
  Control("P6.1",  "HIGH",     "storage", {"PUBLIC_ACL"}) }

(* The controls no scan can answer: never evaluated, whatever is loaded.   *)
CisUncollected  == {"1.4", "1.5", "1.17", "1.19", "1.22", "2.1.1", "2.1.2", "2.2.1", "3.1", "3.4", "5.4"}
Soc2Uncollected == {"CC1.1", "CC2.1", "CC3.1", "CC4.1", "CC5.1", "CC7.1", "CC8.1", "CC9.1"}

Evaluated(benchmark)   == IF benchmark = "soc2" THEN Soc2Evaluated ELSE CisEvaluated
Uncollected(benchmark) == IF benchmark = "soc2" THEN Soc2Uncollected ELSE CisUncollected

(* A domain without findings is not told from one nobody loaded.           *)
Verdict(control, input) ==
  LET rows == input[control.slot]
  IN  CASE rows = {}                                       -> "NOT_EVALUATED"
        [] control.slot = "tags" /\ rows # {}              -> "FAIL"
        [] \E row \in rows : row.type \in control.fails    -> "FAIL"
        [] OTHER                                           -> "PASS"

WithVerdict(benchmark, input, verdict) ==
  {control \in Evaluated(benchmark) : Verdict(control, input) = verdict}

(* What runCompliance's gates look at.  A failing control counts at its own *)
(* severity, every other at INFO; "" is an omitted --fail-on.              *)
Tripped(benchmark, input, failOn) ==
  /\ failOn # ""
  /\ \/ AtLeast("INFO", failOn)
     \/ \E control \in WithVerdict(benchmark, input, "FAIL") : AtLeast(control.severity, failOn)

Undecided(benchmark, input) ==
  Uncollected(benchmark) # {} \/ WithVerdict(benchmark, input, "NOT_EVALUATED") # {}

(* Seeded fault: the gates are taken in the other order.                   *)
ComplianceExitSwapped(benchmark, input, unread, failOn) ==
  IF failOn # "" /\ (unread \/ Undecided(benchmark, input)) THEN 3
  ELSE IF Tripped(benchmark, input, failOn) THEN 2 ELSE 0

(* gate, then gateIncomplete over what was not evaluated and not read.     *)
ComplianceExit(benchmark, input, unread, failOn) ==
  IF Tripped(benchmark, input, failOn) THEN 2
  ELSE IF failOn # "" /\ (unread \/ Undecided(benchmark, input)) THEN 3 ELSE 0
=============================================================================
