----------------------------- MODULE MCAuditRun -----------------------------
(* Two providers: one in every domain, as the AWS provider is, and one for *)
(* IAM and storage, so that a second read follows a first in both loops.   *)
EXTENDS AuditRun, TLC

CONSTANTS aws, other

MCFactories  == <<aws, other>>
MCImplements == aws :> Domain @@ other :> {"iam", "storage"}

(* What the accounts hold: an orphan and nothing else, or something in     *)
(* every domain.                                                           *)
Clean   == [d \in Domain |-> [p \in Providers |-> {}]]
Residue == [Clean EXCEPT !["orphans"][aws] = {"LOW"}]
Busy    == [Residue EXCEPT !["storage"][aws] = {"HIGH"}, !["iam"][other] = {"LOW"},
                           !["tags"][aws] = {"LOW"}]
MCAccounts == {Residue, Busy}

Command(skip, failOn, floor, rules, sinks) ==
  [skip |-> skip, failOn |-> failOn, floor |-> floor, rules |-> rules, sinks |-> sinks]

MCCommands == {
  Command({}, "LOW", "LOW", TRUE, <<"slack", "pagerduty", "webhook">>),
  Command({"iam"}, "HIGH", "LOW", FALSE, <<>>),
  Command({"orphans", "storage"}, "LOW", "MEDIUM", FALSE, <<"pagerduty", "fax">>),
  Command({"storage"}, "", "LOW", TRUE, <<"webhook">>),
  Command({}, "HIHG", "LOW", TRUE, <<>>)}
=============================================================================
