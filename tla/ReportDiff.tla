----------------------------- MODULE ReportDiff -----------------------------
(***************************************************************************)
(* Reading saved reports and comparing two of them (internal/compare).     *)
(* A report is a record with at least [kind, rows, partial]: which command *)
(* wrote it, its findings, and whether its incomplete array has an entry.  *)
(* A row is [domain, type, id, detail, severity], a certificate's status,  *)
(* a tag finding's resource type, an orphan's kind and a drift's status    *)
(* being its type, as the normalize functions have it.                     *)
(***************************************************************************)

(* The reports DetectType knows by a key of their own, and those it knows  *)
(* by the fields of their first finding.                                   *)
ByEnvelope == {"audit", "iam", "orphans", "quotas", "drift", "cost"}
ByFinding  == {"storage", "network", "certs", "tags", "secrets"}

(* Any other JSON a command writes, SARIF included.                        *)
Kinds == ByEnvelope \cup ByFinding \cup {"other"}

(* A findings list without a single finding could be anybody's.            *)
DetectType(report) ==
  IF \/ report.kind \in ByEnvelope
     \/ report.kind \in ByFinding /\ report.rows # {}
  THEN report.kind
  ELSE "unknown"

Comparable(report) == DetectType(report) \notin {"cost", "unknown"}

(* What NormalizeReport keeps: a resource in sync is no finding.           *)
Normalized(rows) == {row \in rows : ~(row.domain = "drift" /\ row.type = "IN_SYNC")}

(* Without the severity, "so reclassified findings still match"; the       *)
(* provider is always the one.                                             *)
MatchKey(row) == <<row.type, row.id, row.detail>>

Keys(rows) == {MatchKey(row) : row \in rows}

Diff(baseline, current) ==
  [new       |-> {row \in current  : MatchKey(row) \notin Keys(baseline)},
   unchanged |-> {row \in current  : MatchKey(row) \in Keys(baseline)},
   resolved  |-> {row \in baseline : MatchKey(row) \notin Keys(current)}]
=============================================================================
