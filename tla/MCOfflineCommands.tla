-------------------------- MODULE MCOfflineCommands --------------------------
(* One bucket, one certificate, one role and one rule of Karpenter's.  As  *)
(* the days go by the certificate's finding becomes another one; a bucket  *)
(* has one finding per fault; the rule's row says whose it is when its     *)
(* tags can be read.                                                       *)
EXTENDS OfflineCommands, TLC

CONSTANTS ci, ops

Found(domain, type, id, detail, severity) ==
  [domain |-> domain, type |-> type, id |-> id, detail |-> detail, severity |-> severity]

Unencrypted == Found("storage", "UNENCRYPTED", "b", "no default encryption", "HIGH")
NoLogging   == Found("storage", "NO_LOGGING", "b", "no access logging", "LOW")
InSixDays   == Found("certs", "EXPIRING_7D", "c", "expires in 6 days", "CRITICAL")
InFiveDays  == Found("certs", "EXPIRING_7D", "c", "expires in 5 days", "CRITICAL")

Unused      == Found("iam", "UNUSED_PERMISSION", "r", "s3:GetObject", "HIGH")
DeadRule    == Found("orphans", "karpenter_rule", "k", "deleted cluster", "INFO")
UntaggedRule == Found("orphans", "karpenter_rule", "k", "no ClusterName tag", "INFO")

MCRow == {Unencrypted, NoLogging, InSixDays, InFiveDays, Unused, DeadRule, UntaggedRule}
MCAccounts == {{Unencrypted, NoLogging, InSixDays, DeadRule}, {NoLogging, InFiveDays, Unused}}

MCProc == {ci, ops}
MCPath == {"one", "two"}
MCName == {"base"}

Scan(kind, floor, f) == [op |-> "scan", kind |-> kind, floor |-> floor, to |-> File(f), reads |-> <<>>]
Comparing(b, f, failOn) == [op |-> "compare", failOn |-> failOn, reads |-> <<b, File(f)>>]
Complying(benchmark, slots, files, failOn) ==
  [op |-> "compliance", benchmark |-> benchmark, failOn |-> failOn, slots |-> slots, reads |-> files]

MCCommands ==
  {Scan("storage", "LOW", "one"), Scan("storage", "HIGH", "one"), Scan("certs", "LOW", "two"),
   Scan("audit", "CRITICAL", "two"), Scan("iam", "LOW", "one"), Scan("orphans", "LOW", "one"),
   [op |-> "save", to |-> Baseline("base"), reads |-> <<File("one")>>],
   [op |-> "delete", to |-> Baseline("base"), reads |-> <<>>],
   Comparing(Baseline("base"), "one", "LOW"), Comparing(File("two"), "one", ""),
   Complying("soc2", <<"storage", "certs">>, <<File("one"), File("two")>>, "HIGH"),
   Complying("soc2", <<"iam">>, <<File("one")>>, "HIGH"),
   Complying("cis-aws-v3", <<"storage">>, <<File("one")>>, "")}

MCSymmetry == Permutations(MCProc)
=============================================================================
