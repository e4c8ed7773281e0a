----------------------------- MODULE IamAnalyze -----------------------------
(***************************************************************************)
(* The verdicts of internal/iam/analyzer.go on one principal: what its     *)
(* granted permissions say when they are compared with the used ones.      *)
(*                                                                         *)
(* The code walks a slice and drops duplicates by (type, resource,         *)
(* principal); a finding here IS that triple, so the set of findings is    *)
(* the deduplicated slice, whatever order the grants come in.              *)
(***************************************************************************)
EXTENDS Severity

CONSTANTS
  Principal,      \* IAM principals
  Action,         \* action names as policies and audit events spell them
  AdminAction,    \* the ones isAdminAction accepts: "*" and "service:*"
  Canon,          \* strings.ToLower on action names
  Resource,       \* resource strings
  AnyResource,    \* the resource "*"
  Foreign         \* ARNs that carry another account's id

ASSUME AnalyzeAssumption ==
  /\ AdminAction \subseteq Action
  /\ Canon \in [Action -> Action]
  /\ AnyResource \in Resource
  /\ Foreign \subseteq Resource \ {AnyResource}

Permission == [action : Action, resource : Resource]

FindingType == {"ADMIN_ACCESS", "WILDCARD_RESOURCE", "CROSS_ACCOUNT_ACCESS",
                "UNUSED_PERMISSION", "STALE_PRINCIPAL"}

(* The principal's own finding, which names no resource.                   *)
NoResource == "none"

Finding == [principal : Principal, type : FindingType, resource : Resource \cup {NoResource}]

SeverityOf(f) ==
  CASE f.type \in {"ADMIN_ACCESS", "WILDCARD_RESOURCE"}         -> "CRITICAL"
    [] f.type \in {"CROSS_ACCOUNT_ACCESS", "UNUSED_PERMISSION"} -> "HIGH"
    [] OTHER                                                    -> "MEDIUM"

(* normalizeKey: the action is compared case-insensitively, the resource   *)
(* as it stands.                                                           *)
Key(a, r) == <<Canon[a], r>>

UsedSet(used) == {Key(u.action, u.resource) : u \in used} \cup {Key(u.action, AnyResource) : u \in used}

Unused(g, used) ==
  /\ used # {}
  /\ Key(g.action, g.resource) \notin UsedSet(used)
  /\ Key(g.action, AnyResource) \notin UsedSet(used)

Verdict(p, t, g) == [principal |-> p, type |-> t, resource |-> g.resource]

(* analyze.  An admin grant ends the walk's look at that permission, so    *)
(* the other three questions are asked of the remaining grants only.       *)
(* The account id decides whether the cross-account one is asked at all.   *)
Analyze(p, granted, used, hasAccountID) ==
  LET plain == {g \in granted : g.action \notin AdminAction}
  IN  {Verdict(p, "ADMIN_ACCESS", g) : g \in granted \ plain}
      \cup {Verdict(p, "WILDCARD_RESOURCE", g) : g \in {h \in plain : h.resource = AnyResource}}
      \cup {Verdict(p, "CROSS_ACCOUNT_ACCESS", g) :
              g \in {h \in plain : hasAccountID /\ h.resource \in Foreign}}
      \cup {Verdict(p, "UNUSED_PERMISSION", g) : g \in {h \in plain : Unused(h, used)}}
      \cup {[principal |-> p, type |-> "STALE_PRINCIPAL", resource |-> NoResource] :
              g \in IF used = {} THEN granted ELSE {}}

(* The reporting floor Scan applies to what analyze returned.              *)
AboveFloor(findings, floor) == {f \in findings : AtLeast(SeverityOf(f), floor)}
=============================================================================
