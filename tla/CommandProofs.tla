----------------------------- MODULE CommandProofs -----------------------------
(***************************************************************************)
(* Theorems about the two components whose verdicts rest on readings of a  *)
(* world that moves: PlatformAudit, for every listing of platforms, every  *)
(* way they may change, every flag and number of failed calls; and         *)
(* OfflineCommands, for every set of processes, files, command lines,      *)
(* account changes and failures.  Their variables have nothing in common.  *)
(***************************************************************************)
EXTENDS PlatformAudit, OfflineCommands, TLAPS

-----------------------------------------------------------------------------
(* Platform audit: which question a gap answers.                           *)

IdentityTypes  == {"IDENTITY_INVALID"}
BudgetTypes    == {"BUDGET_POLICY_MISSING", "KILL_SWITCH_DISABLED"}
TenantTypes    == {"TENANT_MISSING", "COMPLIANCE_WEAKER_THAN_TENANT"}
GatewayTypes   == {"HIPAA_GUARDRAIL_INHERITED"}
NamespaceTypes == {"NAMESPACE_MISSING", "PSS_NOT_RESTRICTED", "LABEL_MISSING"}
QuotaTypes     == {"RESOURCE_QUOTA_MISSING"}
LimitTypes     == {"LIMIT_RANGE_MISSING"}

(* A verdict's findings are of the types of its question.                  *)
Of(verdict, types) == \A f \in verdict : f.type \in types /\ f.severity \in Level

LEMMA WhenOf ==
  ASSUME NEW broken, NEW type, NEW severity \in Level, NEW types, type \in types
  PROVE  Of(When(broken, type, severity), types)
  BY DEF When, Finding, Of

LEMMA Levels == {"CRITICAL", "HIGH", "MEDIUM", "LOW", "INFO"} = Level
  BY DEF Level

LEMMA UnionOf ==
  ASSUME NEW one, NEW other, NEW types, Of(one, types), Of(other, types)
  PROVE  Of(one \cup other, types)
  BY DEF Of

LEMMA SpecVerdicts ==
  ASSUME NEW cr, NEW spending, NEW tenant, NEW gateways
  PROVE  /\ Of(auditIdentity(cr), IdentityTypes)
         /\ Of(BudgetVerdict(cr, spending), BudgetTypes)
         /\ Of(TenantVerdict(cr, tenant), TenantTypes)
         /\ Of(GatewayVerdict(cr, gateways), GatewayTypes)
<1>1. Of(auditIdentity(cr), IdentityTypes)
    BY WhenOf, Levels DEF auditIdentity, IdentityTypes
<1>2. Of(BudgetVerdict(cr, spending), BudgetTypes)
    BY Levels DEF BudgetVerdict, BudgetTypes, Of, When, Finding
<1>3. Of(TenantVerdict(cr, tenant), TenantTypes)
    BY Levels DEF TenantVerdict, TenantTypes, Of, When, Finding
<1>4. Of(GatewayVerdict(cr, gateways), GatewayTypes)
    BY Levels DEF GatewayVerdict, GatewayTypes, Of, When, Finding
<1> QED BY <1>1, <1>2, <1>3, <1>4

LEMMA ClusterVerdicts ==
  ASSUME NEW cr, NEW namespace, NEW quota, NEW limits, NEW netpol, NEW cilium, NEW sa
  PROVE  /\ Of(NamespaceVerdict(namespace), NamespaceTypes)
         /\ Of(QuotaVerdict(quota), QuotaTypes)
         /\ Of(LimitVerdict(limits), LimitTypes)
         /\ Of(NetworkVerdict(netpol, cilium), EgressTypes)
         /\ Of(AccountVerdict(cr, sa), AccountTypes)
<1>1. Of(NamespaceVerdict(namespace), NamespaceTypes)
    BY Levels DEF NamespaceVerdict, NamespaceTypes, Of, When, Finding
<1>2. Of(QuotaVerdict(quota), QuotaTypes)
    BY Levels DEF QuotaVerdict, QuotaTypes, Of, When, Finding
<1>3. Of(LimitVerdict(limits), LimitTypes)
    BY Levels DEF LimitVerdict, LimitTypes, Of, When, Finding
<1>4. Of(NetworkVerdict(netpol, cilium), EgressTypes)
    BY Levels DEF NetworkVerdict, EgressTypes, Of, When, Finding
<1>5. Of(AccountVerdict(cr, sa), AccountTypes)
    BY Levels DEF AccountVerdict, AccountTypes, Of, When, Finding
<1> QED BY <1>1, <1>2, <1>3, <1>4, <1>5

(* The verdicts on a role fall into those on what GetRole returns, on its  *)
(* attached policies and on its inline ones.                               *)
RoleGaps(cr, role) ==
  When(role.trust # "pods", "TENANT_ROLE_TRUST_MISMATCH", "HIGH")
  \cup When(role.boundary = "none", "TENANT_ROLE_PERMISSIONS_BOUNDARY_MISSING", "CRITICAL")
  \cup When(role.boundary = "other" /\ cr.boundary, "TENANT_ROLE_PERMISSIONS_BOUNDARY_MISMATCH", "CRITICAL")
  \cup When(role.tagged # cr.suspended, "TENANT_ROLE_SUSPENSION_DRIFT", "HIGH")

AttachedGaps(cr, attached) ==
  When(~(cr.extras \subseteq attached), "TENANT_ROLE_EXTRA_POLICY_MISSING", "MEDIUM")
  \cup When(~cr.suspended /\ attached = {}, "TENANT_ROLE_NO_BASELINE", "HIGH")

InlineGaps(cr, inline) ==
  When(~cr.suspended /\ ~(inline \subseteq operatorInlinePolicies), "TENANT_ROLE_INLINE_POLICY_UNEXPECTED", "HIGH")
  \cup When(~cr.suspended /\ "bedrock-model-scoping" \notin inline, "TENANT_ROLE_MODEL_SCOPING_MISSING", "HIGH")

RoleTypes     == {"TENANT_ROLE_TRUST_MISMATCH", "TENANT_ROLE_PERMISSIONS_BOUNDARY_MISSING",
                  "TENANT_ROLE_PERMISSIONS_BOUNDARY_MISMATCH", "TENANT_ROLE_SUSPENSION_DRIFT"}
AttachedTypes == {"TENANT_ROLE_EXTRA_POLICY_MISSING", "TENANT_ROLE_NO_BASELINE"}
InlineTypes   == {"TENANT_ROLE_INLINE_POLICY_UNEXPECTED", "TENANT_ROLE_MODEL_SCOPING_MISSING"}

LEMMA RoleParts ==
  ASSUME NEW cr, NEW role, NEW attached, NEW inline
  PROVE  /\ role.there => RoleVerdict(cr, role, attached, inline) =
                            RoleGaps(cr, role) \cup AttachedGaps(cr, attached) \cup InlineGaps(cr, inline)
         /\ ~role.there => RoleVerdict(cr, role, attached, inline) = {Finding("TENANT_ROLE_MISSING", "CRITICAL")}
  BY Zenon DEF RoleVerdict, RoleGaps, AttachedGaps, InlineGaps

LEMMA RolePartTypes ==
  ASSUME NEW cr, NEW role, NEW attached, NEW inline
  PROVE  /\ Of(RoleGaps(cr, role), RoleTypes)
         /\ Of(AttachedGaps(cr, attached), AttachedTypes)
         /\ Of(InlineGaps(cr, inline), InlineTypes)
<1>1. Of(RoleGaps(cr, role), RoleTypes)
    BY Levels DEF RoleGaps, RoleTypes, Of, When, Finding
<1>2. Of(AttachedGaps(cr, attached), AttachedTypes)
    BY WhenOf, UnionOf, Levels DEF AttachedGaps, AttachedTypes
<1>3. Of(InlineGaps(cr, inline), InlineTypes)
    BY WhenOf, UnionOf, Levels DEF InlineGaps, InlineTypes
<1> QED BY <1>1, <1>2, <1>3

LEMMA AWSVerdicts ==
  ASSUME NEW cr, NEW role, NEW attached, NEW inline, NEW association
  PROVE  /\ Of(RoleVerdict(cr, role, attached, inline), AWSTypes)
         /\ Of(AssociationVerdict(cr, association), BindingTypes)
<1>1. RoleTypes \cup AttachedTypes \cup InlineTypes \subseteq AWSTypes
    BY DEF RoleTypes, AttachedTypes, InlineTypes, AWSTypes
<1>2. Of({Finding("TENANT_ROLE_MISSING", "CRITICAL")}, AWSTypes)
    BY Levels DEF Of, Finding, AWSTypes
<1>3. Of(RoleVerdict(cr, role, attached, inline), AWSTypes)
    BY <1>1, <1>2, RoleParts, RolePartTypes DEF Of
<1>4. Of(AssociationVerdict(cr, association), BindingTypes)
    BY Levels DEF AssociationVerdict, BindingTypes, Of, When, Finding
<1> QED BY <1>3, <1>4

(* Every gap belongs to one question.                                      *)
Part(types, g, verdict) == g \in verdict /\ g.type \in types

LEMMA GapParts ==
  ASSUME NEW cr, NEW o, NEW cilium, NEW g \in Gaps(cr, o, cilium)
  PROVE  /\ g.severity \in Level
         /\ \/ Part(IdentityTypes, g, auditIdentity(cr))
            \/ Part(BudgetTypes, g, BudgetVerdict(cr, o.budget))
            \/ Part(TenantTypes, g, TenantVerdict(cr, o.tenant))
            \/ Part(GatewayTypes, g, GatewayVerdict(cr, o.gateways))
            \/ Part(NamespaceTypes, g, NamespaceVerdict(o.namespace))
            \/ Part(QuotaTypes, g, QuotaVerdict(o.quota))
            \/ Part(LimitTypes, g, LimitVerdict(o.limits))
            \/ Part(EgressTypes, g, NetworkVerdict(o.netpol, cilium))
            \/ Part(AccountTypes, g, AccountVerdict(cr, o.sa))
            \/ cr.role /\ Part(AWSTypes, g, RoleVerdict(cr, o.role, o.attached, o.inline))
            \/ cr.role /\ Part(BindingTypes, g, AssociationVerdict(cr, o.association))
<1>1. \/ g \in auditIdentity(cr) \/ g \in BudgetVerdict(cr, o.budget) \/ g \in TenantVerdict(cr, o.tenant)
      \/ g \in GatewayVerdict(cr, o.gateways) \/ g \in NamespaceVerdict(o.namespace)
      \/ g \in QuotaVerdict(o.quota) \/ g \in LimitVerdict(o.limits) \/ g \in NetworkVerdict(o.netpol, cilium)
      \/ g \in AccountVerdict(cr, o.sa)
      \/ cr.role /\ g \in RoleVerdict(cr, o.role, o.attached, o.inline)
      \/ cr.role /\ g \in AssociationVerdict(cr, o.association)
    BY DEF Gaps
<1>2. /\ g \in auditIdentity(cr) => g.type \in IdentityTypes /\ g.severity \in Level
      /\ g \in BudgetVerdict(cr, o.budget) => g.type \in BudgetTypes /\ g.severity \in Level
      /\ g \in TenantVerdict(cr, o.tenant) => g.type \in TenantTypes /\ g.severity \in Level
      /\ g \in GatewayVerdict(cr, o.gateways) => g.type \in GatewayTypes /\ g.severity \in Level
    BY SpecVerdicts DEF Of
<1>3. /\ g \in NamespaceVerdict(o.namespace) => g.type \in NamespaceTypes /\ g.severity \in Level
      /\ g \in QuotaVerdict(o.quota) => g.type \in QuotaTypes /\ g.severity \in Level
      /\ g \in LimitVerdict(o.limits) => g.type \in LimitTypes /\ g.severity \in Level
      /\ g \in NetworkVerdict(o.netpol, cilium) => g.type \in EgressTypes /\ g.severity \in Level
      /\ g \in AccountVerdict(cr, o.sa) => g.type \in AccountTypes /\ g.severity \in Level
    BY ClusterVerdicts DEF Of
<1>4. /\ g \in RoleVerdict(cr, o.role, o.attached, o.inline) => g.type \in AWSTypes /\ g.severity \in Level
      /\ g \in AssociationVerdict(cr, o.association) => g.type \in BindingTypes /\ g.severity \in Level
    BY AWSVerdicts DEF Of
<1> QED BY <1>1, <1>2, <1>3, <1>4 DEF Part

(* The questions that are open from each on.                               *)
FromAssociation == BindingTypes
FromRole        == AWSTypes \cup FromAssociation
FromAccount     == AccountTypes \cup FromRole
FromEgress      == EgressTypes \cup FromAccount
FromLimits      == LimitTypes \cup FromEgress
FromQuota       == QuotaTypes \cup FromLimits
FromNamespace   == NamespaceTypes \cup FromQuota
FromGateways    == GatewayTypes \cup FromNamespace
FromTenant      == TenantTypes \cup FromGateways
FromBudget      == BudgetTypes \cup FromTenant
FromIdentity    == IdentityTypes \cup FromBudget

(* No two questions share a type.                                          *)
LEMMA Distinct ==
  /\ IdentityTypes \cap FromBudget = {} /\ BudgetTypes \cap FromTenant = {} /\ TenantTypes \cap FromGateways = {}
  /\ GatewayTypes \cap FromNamespace = {} /\ NamespaceTypes \cap FromQuota = {} /\ QuotaTypes \cap FromLimits = {}
  /\ LimitTypes \cap FromEgress = {} /\ EgressTypes \cap FromAccount = {} /\ AccountTypes \cap FromRole = {}
  /\ AWSTypes \cap FromAssociation = {}
<1> USE DEF FromAssociation, AWSTypes, BindingTypes
<1>1. AWSTypes \cap FromAssociation = {}
    OBVIOUS
<1> USE DEF FromRole, AccountTypes
<1>2. AccountTypes \cap FromRole = {}
    OBVIOUS
<1> USE DEF FromAccount, EgressTypes
<1>3. EgressTypes \cap FromAccount = {}
    OBVIOUS
<1> USE DEF FromEgress, LimitTypes
<1>4. LimitTypes \cap FromEgress = {}
    OBVIOUS
<1> USE DEF FromLimits, QuotaTypes
<1>5. QuotaTypes \cap FromLimits = {}
    OBVIOUS
<1> USE DEF FromQuota, NamespaceTypes
<1>6. NamespaceTypes \cap FromQuota = {}
    OBVIOUS
<1> USE DEF FromNamespace, GatewayTypes
<1>7. GatewayTypes \cap FromNamespace = {}
    OBVIOUS
<1> USE DEF FromGateways, TenantTypes
<1>8. TenantTypes \cap FromGateways = {}
    OBVIOUS
<1> USE DEF FromTenant, BudgetTypes
<1>9. BudgetTypes \cap FromTenant = {}
    OBVIOUS
<1> USE DEF FromBudget, IdentityTypes
<1>10. IdentityTypes \cap FromBudget = {}
    OBVIOUS
<1> QED BY <1>1, <1>2, <1>3, <1>4, <1>5, <1>6, <1>7, <1>8, <1>9, <1>10

(* The gap of a type is one its question's verdict has.                    *)
LEMMA GapOf ==
  ASSUME NEW cr, NEW o, NEW cilium, NEW g \in Gaps(cr, o, cilium)
  PROVE  /\ g.type \in FromIdentity /\ g.severity \in Level
         /\ g.type \in IdentityTypes => g \in auditIdentity(cr)
         /\ g.type \in BudgetTypes => g \in BudgetVerdict(cr, o.budget)
         /\ g.type \in TenantTypes => g \in TenantVerdict(cr, o.tenant)
         /\ g.type \in GatewayTypes => g \in GatewayVerdict(cr, o.gateways)
         /\ g.type \in NamespaceTypes => g \in NamespaceVerdict(o.namespace)
         /\ g.type \in QuotaTypes => g \in QuotaVerdict(o.quota)
         /\ g.type \in LimitTypes => g \in LimitVerdict(o.limits)
         /\ g.type \in EgressTypes => g \in NetworkVerdict(o.netpol, cilium)
         /\ g.type \in AccountTypes => g \in AccountVerdict(cr, o.sa)
         /\ g.type \in AWSTypes => cr.role /\ g \in RoleVerdict(cr, o.role, o.attached, o.inline)
         /\ g.type \in BindingTypes => cr.role /\ g \in AssociationVerdict(cr, o.association)
  BY GapParts, Distinct
     DEF Part, FromIdentity, FromBudget, FromTenant, FromGateways, FromNamespace, FromQuota, FromLimits, FromEgress,
         FromAccount, FromRole, FromAssociation

(* What the missing namespace leaves open is not asked of the spec alone.  *)
LEMMA BeyondSpec == FromNamespace \cap SpecTypes = {}
  BY DEF FromNamespace, FromQuota, FromLimits, FromEgress, FromAccount, FromRole, FromAssociation, NamespaceTypes,
         QuotaTypes, LimitTypes, EgressTypes, AccountTypes, AWSTypes, BindingTypes, SpecTypes

-----------------------------------------------------------------------------
(* Platform audit: the invariant.                                          *)

Calls == {"begin", "budget", "tenant", "gateways", "phase", "namespace", "quota", "limits", "netpol", "cilium", "sa",
          "role", "attached", "inline", "association", "describe"}

(* What has been seen of a platform includes what it is, and its listed    *)
(* declaration is one it made.                                             *)
SeenOK ==
  \A p \in Platform :
    /\ deployed[p] \in seen[p] /\ seen[p] \subseteq State
    /\ \E o \in seen[p] : o.cr = listed[p]

(* What a call in the middle of a question rests on.                       *)
RoleKnown(info0, states)     == info0.role.there /\ \E o \in states : o.role = info0.role
AttachedKnown(info0, states) == \E o \in states : o.role.there /\ o.attached = info0.attached

CallOK ==
  pc = "audit" =>
    /\ queue # <<>> /\ call \in Calls
    /\ call \in {"role", "attached", "inline", "association", "describe"} => roles /\ listed[Head(queue)].role
    /\ call = "cilium" => \E o \in seen[Head(queue)] : o.netpol = "gone"
    /\ call \in {"attached", "inline"} => RoleKnown(info, seen[Head(queue)])
    /\ call = "inline" => AttachedKnown(info, seen[Head(queue)])

QueueOK ==
  /\ queue \in Seq(Platform)
  /\ pc # "audit" => queue = <<>>
  /\ pc = "list" => \A p \in Platform : findings[p] = {} /\ notes[p] = {}

(* The findings are those the contract supports.                           *)
Grounded(cr, states, f) ==
  \/ f.severity = "INFO" \/ f = Finding("HIPAA_GUARDRAIL_INHERITED", "LOW")
  \/ \E o, later \in states : f \in Gaps(cr, o, later.cilium)

GroundOK == \A p \in Platform : \A f \in findings[p] : f.severity \in Level /\ Grounded(listed[p], seen[p], f)

(* The types of the questions that are open when a call is to be made.     *)
Open(c) ==
  CASE c = "begin" -> FromIdentity
    [] c = "budget" -> FromBudget
    [] c = "tenant" -> FromTenant
    [] c = "gateways" -> FromGateways
    [] c \in {"phase", "namespace"} -> FromNamespace
    [] c = "quota" -> FromQuota
    [] c = "limits" -> FromLimits
    [] c \in {"netpol", "cilium"} -> FromEgress
    [] c = "sa" -> FromAccount
    [] c \in {"role", "attached", "inline"} -> FromRole
    [] OTHER -> FromAssociation

Later(q) == {q[i] : i \in 2 .. Len(q)}

Waiting(p, type) == pc = "audit" /\ (p \in Later(queue) \/ (p = Head(queue) /\ type \in Open(call)))

NamespaceGone == Finding("NAMESPACE_MISSING", "CRITICAL")

(* How a gap comes to be known.                                            *)
Known(g, found, noted) ==
  \/ g \in found
  \/ \E n \in noted : Excuses(n, g.type)
  \/ g.type \notin SpecTypes /\ NamespaceGone \in found
  \/ ~roles /\ g.type \in FromRole

KnownOK ==
  (pc \in {"audit", "filter", "write"} \/ (pc = "over" /\ exitCode # 1)) =>
    \A p \in Platform : \A g \in Lasting(p) : Known(g, findings[p], notes[p]) \/ Waiting(p, g.type)

(* What the gate decided it decided of all there is.                       *)
GateOK ==
  /\ (pc = "write" \/ (pc = "over" /\ exitCode # 1)) =>
       /\ incomplete = Noted \cup (IF roles THEN {} ELSE {NoCredentials})
       /\ exitCode = 0 /\ failOn # "" => incomplete = {} /\ \A f \in Kept(floor) : ~AtLeast(f[2].severity, failOn)
  /\ pc = "over" /\ exitCode # 1 => report.written /\ report.incomplete = incomplete

PlatformIInv == TypeOK /\ SeenOK /\ CallOK /\ QueueOK /\ GroundOK /\ KnownOK /\ GateOK

LEMMA Bounds == MaxChanges \in Nat /\ MaxFaults \in Nat
  BY PlatformAssumption, Zenon

LEMMA Counters == TypeOK => changes \in 0 .. MaxChanges /\ faults \in 0 .. MaxFaults
  BY Zenon DEF TypeOK

LEMMA PlatformInitInv == Init => PlatformIInv
<1> SUFFICES ASSUME Init PROVE PlatformIInv
    OBVIOUS
<1>1. deployed \in [Platform -> State]
    BY PlatformAssumption DEF Init
<1>2. \A o \in State : o.cr \in Declaration
    BY DEF State
<1>3. TypeOK
  <2>1. listed \in [Platform -> Declaration]
      BY <1>1, <1>2 DEF Init
  <2>2. \A p \in Platform : seen[p] \subseteq State
      BY <1>1 DEF Init
  <2>3. info \in [role : Role, attached : SUBSET Managed]
      BY DEF Init, NoRole, Role
  <2>4. changes \in 0 .. MaxChanges /\ faults \in 0 .. MaxFaults
    <3>1. changes = 0 /\ faults = 0
        BY DEF Init
    <3> QED BY <3>1, Bounds
  <2>5. floor \in Floors \cup {"LOW"} /\ failOn \in Gates \cup {""}
      BY Zenon DEF Init
  <2>6. exitCode \in 0 .. 3
    <3>1. exitCode = 0
        BY DEF Init
    <3> QED BY <3>1
  <2>7. DOMAIN seen = Platform /\ roles \in BOOLEAN /\ pc = "list"
      BY DEF Init
  <2>8. /\ DOMAIN findings = Platform /\ DOMAIN notes = Platform
        /\ \A p \in Platform : findings[p] = {} /\ notes[p] = {}
      BY DEF Init
  <2> QED BY <1>1, <2>1, <2>2, <2>3, <2>4, <2>5, <2>6, <2>7, <2>8, Zenon DEF TypeOK
<1>4. SeenOK
    BY <1>1 DEF Init, SeenOK
<1>5. CallOK /\ QueueOK /\ GroundOK /\ KnownOK /\ GateOK
  <2>1. pc = "list" /\ queue = <<>> /\ \A p \in Platform : findings[p] = {} /\ notes[p] = {}
      BY DEF Init
  <2> QED BY <2>1 DEF CallOK, QueueOK, GroundOK, KnownOK, GateOK
<1> QED BY <1>3, <1>4, <1>5 DEF PlatformIInv

-----------------------------------------------------------------------------
(* A lasting gap is one that every state seen has, and more is seen as the *)
(* platforms change.                                                       *)
AlwaysGap(g, cr, states) == \A o, later \in states : g \in Gaps(cr, o, later.cilium)

LEMMA LastingIs ==
  ASSUME SeenOK, NEW p \in Platform
  PROVE  \A g : g \in Lasting(p) <=> AlwaysGap(g, listed[p], seen[p])
  BY DEF SeenOK, Lasting, AlwaysGap

LEMMA LastingNext ==
  ASSUME NEW p \in Platform, NEW g \in Lasting(p)'
  PROVE  AlwaysGap(g, listed'[p], seen'[p])
  BY DEF Lasting, Gaps, AlwaysGap

LEMMA LastingShrinks ==
  ASSUME SeenOK, NEW p \in Platform, listed' = listed, seen[p] \subseteq seen'[p]
  PROVE  Lasting(p)' \subseteq Lasting(p)
<1>1. ASSUME NEW g \in Lasting(p)' PROVE g \in Lasting(p)
  <2>1. AlwaysGap(g, listed[p], seen'[p])
      BY <1>1, LastingNext
  <2>2. AlwaysGap(g, listed[p], seen[p])
      BY <2>1 DEF AlwaysGap
  <2> QED BY <2>2, LastingIs
<1> QED BY <1>1

LEMMA GroundGrows ==
  ASSUME NEW cr, NEW f, NEW few, NEW many, few \subseteq many, Grounded(cr, few, f)
  PROVE  Grounded(cr, many, f)
  BY DEF Grounded

LEMMA ChangeInv == ASSUME PlatformIInv, NEW p \in Platform, Change(p) PROVE PlatformIInv'
<1>1. PICK next \in State :
        /\ deployed' = [deployed EXCEPT ![p] = next]
        /\ seen' = [seen EXCEPT ![p] = @ \cup {next}]
    BY DEF Change
<1>2. /\ pc \in {"list", "audit"} /\ changes < MaxChanges /\ changes' = changes + 1
      /\ UNCHANGED <<faults, roles, floor, failOn, pc, listed, queue, call, info, findings, notes, incomplete, report, exitCode>>
    BY DEF Change
<1>3. /\ deployed' \in [Platform -> State] /\ DOMAIN seen' = Platform
      /\ \A q \in Platform : deployed'[q] \in seen'[q] /\ seen'[q] \subseteq State /\ seen[q] \subseteq seen'[q]
    BY <1>1 DEF PlatformIInv, TypeOK, SeenOK
<1>4. TypeOK'
  <2>1. changes' \in 0 .. MaxChanges
      BY <1>2, Bounds, Counters DEF PlatformIInv
  <2> QED BY <1>2, <1>3, <2>1 DEF PlatformIInv, TypeOK
<1>5. SeenOK'
    BY <1>2, <1>3 DEF PlatformIInv, SeenOK
<1>6. CallOK'
  <2>1. queue # <<>> => Head(queue) \in Platform
      BY DEF PlatformIInv, QueueOK
  <2> QED BY <1>2, <1>3, <2>1 DEF PlatformIInv, CallOK, RoleKnown, AttachedKnown
<1>7. QueueOK'
    BY <1>2 DEF PlatformIInv, QueueOK
<1>8. GroundOK'
    BY <1>2, <1>3, GroundGrows DEF PlatformIInv, GroundOK
<1>9. KnownOK'
  <2> SUFFICES ASSUME pc = "audit", NEW q \in Platform, NEW g \in Lasting(q)'
               PROVE  Known(g, findings[q], notes[q])' \/ Waiting(q, g.type)'
      BY <1>2 DEF KnownOK
  <2>1. g \in Lasting(q)
      BY <1>2, <1>3, LastingShrinks DEF PlatformIInv
  <2>2. Known(g, findings[q], notes[q]) \/ Waiting(q, g.type)
      BY <2>1 DEF PlatformIInv, KnownOK
  <2> QED BY <1>2, <2>2 DEF Known, Waiting
<1>10. GateOK'
    BY <1>2 DEF GateOK
<1> QED BY <1>4, <1>5, <1>6, <1>7, <1>8, <1>9, <1>10 DEF PlatformIInv

-----------------------------------------------------------------------------
(* Listing.  Everything is still to be asked.                              *)

LEMMA WhoIsListed ==
  /\ Listing \in Seq(Platform)
  /\ \A p \in Platform : Listing # <<>> /\ (p = Head(Listing) \/ p \in Later(Listing))
<1>1. Listing \in Seq(Platform)
    BY PlatformAssumption
<1>2. ASSUME NEW p \in Platform PROVE Listing # <<>> /\ (p = Head(Listing) \/ p \in Later(Listing))
  <2>1. PICK i \in DOMAIN Listing : p = Listing[i]
      BY DEF Platform
  <2>2. i \in 1 .. Len(Listing) /\ Len(Listing) \in Nat
      BY <1>1
  <2>3. Head(Listing) = Listing[1]
      BY <1>1, <2>2
  <2> QED BY <2>1, <2>2, <2>3 DEF Later
<1> QED BY <1>1, <1>2

LEMMA ListInv == ASSUME PlatformIInv, List PROVE PlatformIInv'
<1>1. pc = "list" /\ UNCHANGED <<deployed, seen, changes, roles, floor, failOn, info, findings, notes, incomplete, report>>
    BY DEF List, live
<1>2. CASE /\ listed' = [p \in Platform |-> deployed[p].cr] /\ queue' = Listing
           /\ pc' = IF Listing = <<>> THEN "filter" ELSE "audit"
           /\ call' = "begin" /\ UNCHANGED <<faults, exitCode>>
  <2>1. \A o \in State : o.cr \in Declaration
      BY DEF State
  <2>2. TypeOK'
    <3>1. listed' \in [Platform -> Declaration]
        BY <1>2, <2>1 DEF PlatformIInv, TypeOK
    <3> QED BY <1>1, <1>2, <3>1 DEF PlatformIInv, TypeOK
  <2>3. SeenOK'
      BY <1>1, <1>2 DEF PlatformIInv, SeenOK
  <2>4. CallOK'
      BY <1>2 DEF CallOK, Calls
  <2>5. QueueOK'
      BY <1>2, WhoIsListed DEF QueueOK
  <2>6. GroundOK'
      BY <1>1, <1>2 DEF PlatformIInv, QueueOK, GroundOK
  <2>7. KnownOK'
    <3> SUFFICES ASSUME NEW p \in Platform, NEW g \in Lasting(p)' PROVE Waiting(p, g.type)'
        BY DEF KnownOK
    <3>1. Listing # <<>> /\ (p = Head(Listing) \/ p \in Later(Listing))
        BY WhoIsListed
    <3>2. g.type \in FromIdentity
      <4>1. deployed'[p] \in seen'[p]
          BY <2>3 DEF SeenOK
      <4>2. g \in Gaps(listed'[p], deployed'[p], deployed'[p].cilium)
          BY <4>1, LastingNext DEF AlwaysGap
      <4> QED BY <4>2, GapOf
    <3> QED BY <1>2, <3>1, <3>2 DEF Waiting, Open
  <2>8. GateOK'
      BY <1>2 DEF GateOK
  <2> QED BY <2>2, <2>3, <2>4, <2>5, <2>6, <2>7, <2>8 DEF PlatformIInv
<1>3. CASE Refused /\ pc' = "over" /\ exitCode' = 1 /\ UNCHANGED <<listed, queue, call>>
  <2>1. TypeOK'
    <3>1. faults' \in 0 .. MaxFaults
        BY <1>3, Bounds, Counters DEF PlatformIInv, Refused
    <3>2. exitCode' \in 0 .. 3 /\ pc' # "audit"
        BY <1>3
    <3> QED BY <1>1, <1>3, <3>1, <3>2 DEF PlatformIInv, TypeOK
  <2>2. SeenOK' /\ GroundOK'
      BY <1>1, <1>3 DEF PlatformIInv, SeenOK, GroundOK
  <2>3. CallOK' /\ QueueOK' /\ KnownOK' /\ GateOK'
      BY <1>1, <1>3 DEF PlatformIInv, CallOK, QueueOK, KnownOK, GateOK
  <2> QED BY <2>1, <2>2, <2>3 DEF PlatformIInv
<1> QED BY <1>2, <1>3 DEF List

-----------------------------------------------------------------------------
(* A step of a platform's audit: what it adds to the findings and to the   *)
(* notes, and which questions it settles.                                  *)

Told(found, noted) ==
  /\ DOMAIN findings' = Platform /\ DOMAIN notes' = Platform
  /\ findings'[p0] = findings[p0] \cup found /\ notes'[p0] = notes[p0] \cup noted
  /\ \A p \in Platform \ {p0} : findings'[p] = findings[p] /\ notes'[p] = notes[p]

Sound(found, noted) ==
  noted \subseteq Note /\ \A f \in found : f.severity \in Level /\ Grounded(cr0, seen[p0], f)

Asked(found, noted) ==
  /\ pc = "audit" /\ Rest
  /\ Told(found, noted) /\ Sound(found, noted)
  /\ faults' \in 0 .. MaxFaults
  /\ info' \in [role : Role, attached : SUBSET Managed]

Settles(found, noted, left) ==
  \A g \in Lasting(p0) : g.type \in Open(call) => g.type \in left \/ Known(g, found, noted)

LEMMA AtHead ==
  ASSUME PlatformIInv, pc = "audit"
  PROVE  /\ queue # <<>> /\ p0 = Head(queue) /\ p0 \in Platform
         /\ cr0 = listed[p0] /\ now = deployed[p0]
         /\ now \in State /\ now \in seen[p0] /\ seen[p0] \subseteq State
<1>1. queue # <<>> /\ p0 = Head(queue) /\ p0 \in Platform
    BY DEF PlatformIInv, CallOK, QueueOK, p0
<1>2. cr0 = listed[p0] /\ now = deployed[p0]
    BY DEF cr0, now
<1> QED BY <1>1, <1>2 DEF PlatformIInv, SeenOK

LEMMA TellTold == ASSUME PlatformIInv, pc = "audit", NEW found, NEW noted, Tell(found, noted) PROVE Told(found, noted)
<1>1. DOMAIN findings = Platform /\ DOMAIN notes = Platform
    BY Zenon DEF PlatformIInv, TypeOK
<1>2. /\ findings' = [findings EXCEPT ![p0] = @ \cup found]
      /\ notes' = [notes EXCEPT ![p0] = @ \cup noted]
    BY DEF Tell
<1> QED BY <1>1, <1>2, AtHead DEF Told

LEMMA SameTold == ASSUME PlatformIInv, pc = "audit", UNCHANGED <<findings, notes>> PROVE Told({}, {})
<1>1. DOMAIN findings = Platform /\ DOMAIN notes = Platform
    BY Zenon DEF PlatformIInv, TypeOK
<1> QED BY <1>1 DEF Told

LEMMA FaultsBounded == ASSUME PlatformIInv, Answered \/ Refused PROVE faults' \in 0 .. MaxFaults
  BY Bounds, Counters DEF PlatformIInv, Answered, Refused

(* Whatever the step, these parts of the invariant need only what it tells. *)
LEMMA AskedInv ==
  ASSUME PlatformIInv, NEW found, NEW noted, Asked(found, noted),
         pc' \in {"audit", "filter"}, pc' = "audit" => queue' # <<>>
  PROVE  TypeOK' /\ SeenOK' /\ GroundOK' /\ GateOK'
<1>1. UNCHANGED <<deployed, seen, changes, roles, listed, floor, failOn, incomplete, report, exitCode>>
    BY DEF Asked, Rest, live, ended
<1>2. /\ findings'[p0] = findings[p0] \cup found /\ notes'[p0] = notes[p0] \cup noted
      /\ \A p \in Platform \ {p0} : findings'[p] = findings[p] /\ notes'[p] = notes[p]
      /\ DOMAIN findings' = Platform /\ DOMAIN notes' = Platform
    BY DEF Asked, Told
<1>3. noted \subseteq Note /\ \A f \in found : f.severity \in Level /\ Grounded(listed[p0], seen[p0], f)
    BY AtHead DEF Asked, Sound
<1>4. TypeOK'
  <2>1. \A p \in Platform : (\A f \in findings[p] : f.severity \in Level) /\ notes[p] \subseteq Note
      BY Zenon DEF PlatformIInv, TypeOK
  <2>2. \A p \in Platform : (\A f \in findings'[p] : f.severity \in Level) /\ notes'[p] \subseteq Note
      BY <1>2, <1>3, <2>1
  <2>3. faults' \in 0 .. MaxFaults /\ info' \in [role : Role, attached : SUBSET Managed]
      BY DEF Asked
  <2>4. pc' \in {"list", "audit", "filter", "write", "over"}
      OBVIOUS
  <2>5. changes' \in 0 .. MaxChanges /\ exitCode' \in 0 .. 3
      BY <1>1, Zenon DEF PlatformIInv, TypeOK
  <2> QED BY <1>1, <1>2, <2>2, <2>3, <2>4, <2>5, Zenon DEF PlatformIInv, TypeOK
<1>5. SeenOK'
    BY <1>1 DEF PlatformIInv, SeenOK
<1>6. GroundOK'
    BY <1>1, <1>2, <1>3 DEF PlatformIInv, GroundOK
<1>7. GateOK'
    BY DEF GateOK
<1> QED BY <1>4, <1>5, <1>6, <1>7

LEMMA AskedKnown ==
  ASSUME PlatformIInv, NEW found, NEW noted, Asked(found, noted), NEW p \in Platform, NEW g \in Lasting(p)'
  PROVE  /\ g \in Lasting(p)
         /\ Known(g, findings[p], notes[p]) => Known(g, findings[p], notes[p])'
         /\ p = p0 /\ Known(g, found, noted) => Known(g, findings[p], notes[p])'
         /\ Known(g, findings[p], notes[p]) \/ Waiting(p, g.type)
<1>1. UNCHANGED <<seen, listed, roles>> /\ pc = "audit"
    BY DEF Asked, Rest, live
<1>2. g \in Lasting(p)
    BY <1>1, LastingShrinks DEF PlatformIInv
<1>3. /\ findings[p] \subseteq findings'[p] /\ notes[p] \subseteq notes'[p]
      /\ p = p0 => found \subseteq findings'[p] /\ noted \subseteq notes'[p]
    BY DEF Asked, Told
<1>4. Known(g, findings[p], notes[p]) => Known(g, findings[p], notes[p])'
    BY <1>1, <1>3 DEF Known
<1>5. p = p0 /\ Known(g, found, noted) => Known(g, findings[p], notes[p])'
    BY <1>1, <1>3 DEF Known
<1>6. Known(g, findings[p], notes[p]) \/ Waiting(p, g.type)
    BY <1>1, <1>2 DEF PlatformIInv, KnownOK
<1> QED BY <1>2, <1>4, <1>5, <1>6

(* What the next call of the same platform rests on.                       *)
Ready(next) ==
  /\ next \in Calls
  /\ next \in {"role", "attached", "inline", "association", "describe"} => roles /\ cr0.role
  /\ next = "cilium" => \E o \in seen[p0] : o.netpol = "gone"
  /\ next \in {"attached", "inline"} => RoleKnown(info', seen[p0])
  /\ next = "inline" => AttachedKnown(info', seen[p0])

LEMMA StayInv ==
  ASSUME PlatformIInv, NEW found, NEW noted, NEW next,
         Asked(found, noted), Go(next), Ready(next), Settles(found, noted, Open(next))
  PROVE  PlatformIInv'
<1>1. pc = "audit" /\ UNCHANGED <<pc, queue, seen, listed, roles>> /\ call' = next
    BY DEF Asked, Go, Rest, live
<1>2. queue # <<>> /\ p0 = Head(queue) /\ cr0 = listed[p0]
    BY <1>1, AtHead
<1>3. TypeOK' /\ SeenOK' /\ GroundOK' /\ GateOK'
    BY <1>1, <1>2, AskedInv
<1>4. CallOK'
    BY <1>1, <1>2 DEF CallOK, Ready
<1>5. QueueOK'
    BY <1>1 DEF PlatformIInv, QueueOK
<1>6. KnownOK'
  <2> SUFFICES ASSUME NEW p \in Platform, NEW g \in Lasting(p)'
               PROVE  Known(g, findings[p], notes[p])' \/ Waiting(p, g.type)'
      BY DEF KnownOK
  <2>1. CASE Known(g, findings[p], notes[p])
      BY <2>1, AskedKnown
  <2>2. CASE p \in Later(queue)
      BY <1>1, <2>2 DEF Waiting
  <2>3. CASE p = p0 /\ g.type \in Open(call)
    <3>1. g.type \in Open(next) \/ Known(g, found, noted)
        BY <2>3, AskedKnown DEF Settles
    <3> QED BY <1>1, <1>2, <2>3, <3>1, AskedKnown DEF Waiting
  <2> QED BY <1>2, <2>1, <2>2, <2>3, AskedKnown DEF Waiting
<1> QED BY <1>3, <1>4, <1>5, <1>6 DEF PlatformIInv

LEMMA HeadIsFirst == ASSUME NEW S, NEW t \in Seq(S), Len(t) # 0 PROVE t # <<>> /\ Head(t) = t[1]
  OBVIOUS

LEMMA TailLater ==
  ASSUME NEW S, NEW q \in Seq(S), q # <<>>
  PROVE  /\ Tail(q) \in Seq(S)
         /\ \A p \in Later(q) : Tail(q) # <<>> /\ (p = Head(Tail(q)) \/ p \in Later(Tail(q)))
<1>1. Tail(q) \in Seq(S) /\ Len(Tail(q)) = Len(q) - 1 /\ Len(q) \in Nat
    OBVIOUS
<1>2. ASSUME NEW p \in Later(q) PROVE Tail(q) # <<>> /\ (p = Head(Tail(q)) \/ p \in Later(Tail(q)))
  <2>1. PICK i \in 2 .. Len(q) : p = q[i]
      BY DEF Later
  <2>2. i - 1 \in 1 .. Len(Tail(q)) /\ Tail(q)[i - 1] = p
      BY <1>1, <2>1
  <2>3. Tail(q) # <<>> /\ Head(Tail(q)) = Tail(q)[1]
    <3>1. Len(Tail(q)) # 0
        BY <1>1, <2>1
    <3> QED BY <1>1, <3>1, HeadIsFirst
  <2>4. i - 1 = 1 \/ i - 1 \in 2 .. Len(Tail(q))
      BY <1>1, <2>1, <2>2
  <2> QED BY <2>2, <2>3, <2>4 DEF Later
<1> QED BY <1>1, <1>2

LEMMA LeaveInv ==
  ASSUME PlatformIInv, NEW found, NEW noted,
         Asked(found, noted), NextPlatform, Settles(found, noted, {})
  PROVE  PlatformIInv'
<1>1. /\ pc = "audit" /\ UNCHANGED <<seen, listed, roles, deployed>>
      /\ queue' = Tail(queue) /\ call' = "begin"
      /\ pc' = IF Tail(queue) = <<>> THEN "filter" ELSE "audit"
    BY DEF Asked, NextPlatform, Rest, live
<1>2. queue # <<>> /\ p0 = Head(queue) /\ cr0 = listed[p0] /\ queue \in Seq(Platform)
    BY <1>1, AtHead DEF PlatformIInv, QueueOK
<1>3. TypeOK' /\ SeenOK' /\ GroundOK' /\ GateOK'
    BY <1>1, AskedInv
<1>4. CallOK'
    BY <1>1 DEF CallOK, Calls
<1>5. QueueOK'
    BY <1>1, <1>2, TailLater DEF QueueOK
<1>6. KnownOK'
  <2> SUFFICES ASSUME NEW p \in Platform, NEW g \in Lasting(p)'
               PROVE  Known(g, findings[p], notes[p])' \/ Waiting(p, g.type)'
      BY DEF KnownOK
  <2>1. CASE Known(g, findings[p], notes[p])
      BY <2>1, AskedKnown
  <2>2. CASE p \in Later(queue)
    <3>1. pc' = "audit" /\ (p = Head(queue') \/ p \in Later(queue'))
        BY <1>1, <1>2, <2>2, TailLater
    <3>3. g \in Gaps(listed[p], deployed[p], deployed[p].cilium)
        BY AskedKnown DEF Lasting
    <3>4. g.type \in Open("begin")
        BY <3>3, GapOf DEF Open
    <3> QED BY <1>1, <3>1, <3>4 DEF Waiting
  <2>3. CASE p = p0 /\ g.type \in Open(call)
    <3>1. Known(g, found, noted)
        BY <2>3, AskedKnown DEF Settles
    <3> QED BY <2>3, <3>1, AskedKnown
  <2> QED BY <1>2, <2>1, <2>2, <2>3, AskedKnown DEF Waiting
<1> QED BY <1>3, <1>4, <1>5, <1>6 DEF PlatformIInv

-----------------------------------------------------------------------------
(* The calls that settle one question each.                                *)

LEMMA LastingHas ==
  ASSUME PlatformIInv, pc = "audit", NEW g \in Lasting(p0), NEW o \in seen[p0], NEW later \in seen[p0]
  PROVE  g \in Gaps(cr0, o, later.cilium)
  BY AtHead, LastingIs DEF PlatformIInv, AlwaysGap

LEMMA LastingNow ==
  ASSUME PlatformIInv, pc = "audit", NEW g \in Lasting(p0)
  PROVE  g \in Gaps(cr0, now, now.cilium)
  BY AtHead, LastingHas

LEMMA Excused ==
  /\ \A type \in BudgetTypes : Excuses("budget", type)
  /\ \A type \in TenantTypes : Excuses("tenant", type)
  /\ \A type \in GatewayTypes : Excuses("gateways", type)
  /\ \A type \in FromNamespace : Excuses("phase", type) /\ Excuses("namespace", type)
  /\ \A type \in QuotaTypes : Excuses("quota", type)
  /\ \A type \in LimitTypes : Excuses("limits", type)
  /\ \A type \in EgressTypes : Excuses("netpol", type) /\ Excuses("cilium", type)
  /\ \A type \in AccountTypes : Excuses("sa", type)
  /\ \A type \in AWSTypes : Excuses("role", type)
  /\ \A type \in BindingTypes : Excuses("association", type)
  BY BeyondSpec DEF Excuses, BudgetTypes, TenantTypes, GatewayTypes, QuotaTypes, LimitTypes

LEMMA GapsSound ==
  ASSUME PlatformIInv, pc = "audit", NEW o \in seen[p0], NEW later \in seen[p0],
         NEW found \in SUBSET Gaps(cr0, o, later.cilium), NEW noted \in SUBSET Note
  PROVE  Sound(found, noted)
  BY AtHead, GapOf DEF Sound, Grounded

LEMMA InfoTyped == ASSUME PlatformIInv PROVE info \in [role : Role, attached : SUBSET Managed]
  BY Zenon DEF PlatformIInv, TypeOK

Plain == Calls \ {"role", "attached", "inline", "association", "describe", "cilium"}

LEMMA CheckInv ==
  ASSUME PlatformIInv, NEW c \in Note, NEW verdict, NEW next \in Plain, Check(c, verdict, next),
         NEW o \in seen[p0], NEW later \in seen[p0], verdict \subseteq Gaps(cr0, o, later.cilium),
         Settles(verdict, {}, Open(next)), Settles({}, {c}, Open(next))
  PROVE  PlatformIInv'
<1>1. pc = "audit" /\ Rest /\ Go(next) /\ info' = info
    BY DEF Check, At
<1>2. Ready(next)
    BY DEF Ready, Plain
<1>3. info' \in [role : Role, attached : SUBSET Managed]
    BY <1>1, InfoTyped
<1>4. CASE Answered /\ Tell(verdict, {})
  <2>1. Sound(verdict, {})
      BY <1>1, GapsSound
  <2>2. Asked(verdict, {})
      BY <1>1, <1>3, <1>4, <2>1, TellTold, FaultsBounded DEF Asked
  <2> QED BY <1>1, <1>2, <2>2, StayInv
<1>5. CASE Refused /\ Tell({}, {c})
  <2>1. Sound({}, {c})
      BY DEF Sound
  <2>2. Asked({}, {c})
      BY <1>1, <1>3, <1>5, <2>1, TellTold, FaultsBounded DEF Asked
  <2> QED BY <1>1, <1>2, <2>2, StayInv
<1> QED BY <1>4, <1>5 DEF Check

LEMMA SkipInv ==
  ASSUME PlatformIInv, NEW c, NEW found, NEW next \in Plain, Skip(c, found, next),
         found \subseteq Gaps(cr0, now, now.cilium), Settles(found, {}, Open(next))
  PROVE  PlatformIInv'
<1>1. pc = "audit" /\ Rest /\ Go(next) /\ info' = info /\ Answered /\ Tell(found, {})
    BY DEF Skip, At
<1>2. Ready(next)
    BY DEF Ready, Plain
<1>3. info' \in [role : Role, attached : SUBSET Managed]
    BY <1>1, InfoTyped
<1>4. Sound(found, {})
    BY <1>1, AtHead, GapsSound
<1>5. Asked(found, {})
    BY <1>1, <1>3, <1>4, TellTold, FaultsBounded DEF Asked
<1> QED BY <1>1, <1>2, <1>5, StayInv

LEMMA BeginInv == ASSUME PlatformIInv, Begin PROVE PlatformIInv'
<1>1. pc = "audit" /\ call = "begin"
    BY DEF Begin, Skip, At
<1>2. auditIdentity(cr0) \subseteq Gaps(cr0, now, now.cilium)
    BY DEF Gaps
<1>3. Settles(auditIdentity(cr0), {}, Open("budget"))
    BY <1>1, LastingNow, GapOf DEF Settles, Open, Known, FromIdentity
<1>4. "budget" \in Plain
    BY DEF Plain, Calls
<1> QED BY <1>2, <1>3, <1>4, SkipInv DEF Begin

LEMMA BudgetInv == ASSUME PlatformIInv, AuditBudgetPolicy PROVE PlatformIInv'
<1>1. pc = "audit" /\ call = "budget" /\ now \in seen[p0]
    BY AtHead DEF AuditBudgetPolicy, Check, Skip, At
<1>2. BudgetVerdict(cr0, now.budget) \subseteq Gaps(cr0, now, now.cilium)
    BY DEF Gaps
<1>3. Settles(BudgetVerdict(cr0, now.budget), {}, Open("tenant"))
    BY <1>1, LastingNow, GapOf DEF Settles, Open, Known, FromBudget
<1>4. Settles({}, {"budget"}, Open("tenant"))
    BY <1>1, Excused DEF Settles, Open, Known, FromBudget
<1>5. "tenant" \in Plain /\ "budget" \in Note
    BY DEF Plain, Calls, Note
<1> QED BY <1>1, <1>2, <1>3, <1>4, <1>5, CheckInv, SkipInv DEF AuditBudgetPolicy

LEMMA TenantInv == ASSUME PlatformIInv, AuditTenant PROVE PlatformIInv'
<1>1. pc = "audit" /\ call = "tenant" /\ now \in seen[p0]
    BY AtHead DEF AuditTenant, Check, Skip, At
<1>2. TenantVerdict(cr0, now.tenant) \subseteq Gaps(cr0, now, now.cilium)
    BY DEF Gaps
<1>3. Settles(TenantVerdict(cr0, now.tenant), {}, Open("gateways"))
    BY <1>1, LastingNow, GapOf DEF Settles, Open, Known, FromTenant
<1>4. Settles({}, {"tenant"}, Open("gateways"))
    BY <1>1, Excused DEF Settles, Open, Known, FromTenant
<1>5. "gateways" \in Plain /\ "tenant" \in Note
    BY DEF Plain, Calls, Note
<1>6. ~cr0.tenant => TenantVerdict(cr0, now.tenant) = {}
    BY DEF TenantVerdict
<1> QED BY <1>1, <1>2, <1>3, <1>4, <1>5, <1>6, CheckInv, SkipInv DEF AuditTenant

LEMMA QuotaInv == ASSUME PlatformIInv, AuditQuota PROVE PlatformIInv'
<1>1. pc = "audit" /\ call = "quota" /\ now \in seen[p0]
    BY AtHead DEF AuditQuota, Check, At
<1>2. QuotaVerdict(now.quota) \subseteq Gaps(cr0, now, now.cilium)
    BY DEF Gaps
<1>3. Settles(QuotaVerdict(now.quota), {}, Open("limits"))
    BY <1>1, LastingNow, GapOf DEF Settles, Open, Known, FromQuota
<1>4. Settles({}, {"quota"}, Open("limits"))
    BY <1>1, Excused DEF Settles, Open, Known, FromQuota
<1>5. "limits" \in Plain /\ "quota" \in Note
    BY DEF Plain, Calls, Note
<1> QED BY <1>1, <1>2, <1>3, <1>4, <1>5, CheckInv DEF AuditQuota

LEMMA LimitsInv == ASSUME PlatformIInv, AuditLimits PROVE PlatformIInv'
<1>1. pc = "audit" /\ call = "limits" /\ now \in seen[p0]
    BY AtHead DEF AuditLimits, Check, At
<1>2. LimitVerdict(now.limits) \subseteq Gaps(cr0, now, now.cilium)
    BY DEF Gaps
<1>3. Settles(LimitVerdict(now.limits), {}, Open("netpol"))
    BY <1>1, LastingNow, GapOf DEF Settles, Open, Known, FromLimits
<1>4. Settles({}, {"limits"}, Open("netpol"))
    BY <1>1, Excused DEF Settles, Open, Known, FromLimits
<1>5. "netpol" \in Plain /\ "limits" \in Note
    BY DEF Plain, Calls, Note
<1> QED BY <1>1, <1>2, <1>3, <1>4, <1>5, CheckInv DEF AuditLimits

LEMMA CiliumInv == ASSUME PlatformIInv, auditCiliumNetworkPolicy PROVE PlatformIInv'
<1>1. pc = "audit" /\ call = "cilium" /\ now \in seen[p0]
    BY AtHead DEF auditCiliumNetworkPolicy, Check, At
<1>2. PICK o \in seen[p0] : o.netpol = "gone"
    BY <1>1, AtHead DEF PlatformIInv, CallOK
<1>3. NetworkVerdict("gone", now.cilium) \subseteq Gaps(cr0, o, now.cilium)
    BY <1>2 DEF Gaps
<1>4. Settles(NetworkVerdict("gone", now.cilium), {}, Open("sa"))
    BY <1>1, <1>2, LastingHas, GapOf DEF Settles, Open, Known, FromEgress
<1>5. Settles({}, {"cilium"}, Open("sa"))
    BY <1>1, Excused DEF Settles, Open, Known, FromEgress
<1>6. "sa" \in Plain /\ "cilium" \in Note
    BY DEF Plain, Calls, Note
<1> QED BY <1>1, <1>2, <1>3, <1>4, <1>5, <1>6, CheckInv DEF auditCiliumNetworkPolicy

-----------------------------------------------------------------------------
(* The calls with more ways on.                                            *)

LEMMA UnreadSound ==
  ASSUME NEW noted \in SUBSET Note
  PROVE  Sound({Finding("NOT_READY", "INFO")}, noted) /\ Sound({Finding("POD_IDENTITY_BINDING_UNKNOWN", "INFO")}, noted)
  BY Levels DEF Sound, Grounded, Finding

LEMMA GatewaysInv == ASSUME PlatformIInv, auditHipaaGuardrails PROVE PlatformIInv'
<1>1. pc = "audit" /\ call = "gateways" /\ Go("phase") /\ info' = info /\ Rest /\ now \in seen[p0]
    BY AtHead DEF auditHipaaGuardrails, At
<1>2. Ready("phase")
    BY DEF Ready, Calls
<1>3. info' \in [role : Role, attached : SUBSET Managed]
    BY <1>1, InfoTyped
<1> DEFINE verdict == GatewayVerdict(cr0, now.gateways)
<1>4. CASE Answered /\ Tell(verdict, {})
  <2>1. verdict \subseteq Gaps(cr0, now, now.cilium)
      BY DEF Gaps
  <2>2. Settles(verdict, {}, Open("phase"))
      BY <1>1, LastingNow, GapOf DEF Settles, Open, Known, FromGateways
  <2> HIDE DEF verdict
  <2>3. Sound(verdict, {})
      BY <1>1, <2>1, GapsSound
  <2>4. Asked(verdict, {})
      BY <1>1, <1>3, <1>4, <2>3, TellTold, FaultsBounded DEF Asked
  <2> QED BY <1>1, <1>2, <2>2, <2>4, StayInv
<1>5. CASE Refused /\ Tell({Finding("HIPAA_GUARDRAIL_INHERITED", "LOW")}, {"gateways"})
  <2> DEFINE found == {Finding("HIPAA_GUARDRAIL_INHERITED", "LOW")}
  <2>1. Sound(found, {"gateways"})
      BY Levels DEF Sound, Grounded, Finding, Note
  <2> HIDE DEF found
  <2>2. Settles(found, {"gateways"}, Open("phase"))
      BY <1>1, Excused DEF Settles, Open, Known, FromGateways
  <2>3. Asked(found, {"gateways"})
      BY <1>1, <1>3, <1>5, <2>1, TellTold, FaultsBounded DEF Asked, found
  <2> QED BY <1>1, <1>2, <2>2, <2>3, StayInv
<1> QED BY <1>4, <1>5 DEF auditHipaaGuardrails

LEMMA PhaseInv == ASSUME PlatformIInv, Phase PROVE PlatformIInv'
<1>1. pc = "audit" /\ call = "phase"
    BY DEF Phase, Skip, At
<1>2. CASE Skip("phase", {}, "namespace")
  <2>1. Settles({}, {}, Open("namespace"))
      BY <1>1 DEF Settles, Open
  <2>2. "namespace" \in Plain
      BY DEF Plain, Calls
  <2> QED BY <1>2, <2>1, <2>2, SkipInv
<1>3. CASE Answered /\ Tell({Finding("NOT_READY", "INFO")}, {"phase"}) /\ NextPlatform /\ UNCHANGED info /\ Rest
  <2> DEFINE found == {Finding("NOT_READY", "INFO")}
  <2>1. Sound(found, {"phase"})
      BY UnreadSound DEF Note
  <2> HIDE DEF found
  <2>2. Settles(found, {"phase"}, {})
      BY <1>1, Excused DEF Settles, Open, Known
  <2>3. info' \in [role : Role, attached : SUBSET Managed]
      BY <1>3, InfoTyped
  <2>4. Asked(found, {"phase"})
      BY <1>1, <1>3, <2>1, <2>3, TellTold, FaultsBounded DEF Asked, found
  <2> QED BY <1>3, <2>2, <2>4, LeaveInv
<1> QED BY <1>2, <1>3 DEF Phase

LEMMA NamespaceInv == ASSUME PlatformIInv, AuditNamespace PROVE PlatformIInv'
<1>1. pc = "audit" /\ call = "namespace" /\ info' = info /\ Rest /\ now \in seen[p0]
    BY AtHead DEF AuditNamespace, At
<1>2. info' \in [role : Role, attached : SUBSET Managed]
    BY <1>1, InfoTyped
<1> DEFINE verdict == NamespaceVerdict(now.namespace)
<1>3. CASE Answered /\ Tell(verdict, {}) /\ IF now.namespace = "gone" THEN NextPlatform ELSE Go("quota")
  <2>1. verdict \subseteq Gaps(cr0, now, now.cilium)
      BY DEF Gaps
  <2>2. Settles(verdict, {}, Open("quota"))
      BY <1>1, LastingNow, GapOf DEF Settles, Open, Known, FromNamespace
  <2>3. now.namespace = "gone" => Settles(verdict, {}, {})
    <3>1. now.namespace = "gone" => NamespaceGone \in verdict
        BY DEF NamespaceVerdict, When, NamespaceGone
    <3> HIDE DEF verdict
    <3> QED BY <1>1, <3>1, BeyondSpec DEF Settles, Open, Known
  <2> HIDE DEF verdict
  <2>4. Sound(verdict, {})
      BY <1>1, <2>1, GapsSound
  <2>5. Asked(verdict, {})
      BY <1>1, <1>2, <1>3, <2>4, TellTold, FaultsBounded DEF Asked
  <2>6. Ready("quota")
      BY DEF Ready, Calls
  <2> QED BY <1>3, <2>2, <2>3, <2>5, <2>6, StayInv, LeaveInv
<1>4. CASE Refused /\ Tell({Finding("NOT_READY", "INFO")}, {"namespace"}) /\ NextPlatform
  <2> DEFINE found == {Finding("NOT_READY", "INFO")}
  <2>1. Sound(found, {"namespace"})
      BY UnreadSound DEF Note
  <2> HIDE DEF found
  <2>2. Settles(found, {"namespace"}, {})
      BY <1>1, Excused DEF Settles, Open, Known
  <2>3. Asked(found, {"namespace"})
      BY <1>1, <1>2, <1>4, <2>1, TellTold, FaultsBounded DEF Asked, found
  <2> QED BY <1>4, <2>2, <2>3, LeaveInv
<1> QED BY <1>3, <1>4 DEF AuditNamespace

(* "tight" stands for a policy of the other kind that was not asked for.   *)
LEMMA NetpolInv == ASSUME PlatformIInv, auditNetworkPolicy PROVE PlatformIInv'
<1>1. pc = "audit" /\ call = "netpol" /\ info' = info /\ Rest /\ now \in seen[p0]
    BY AtHead DEF auditNetworkPolicy, At
<1>2. info' \in [role : Role, attached : SUBSET Managed]
    BY <1>1, InfoTyped
<1>3. Ready("sa")
    BY DEF Ready, Calls
<1> DEFINE verdict == NetworkVerdict(now.netpol, "tight")
<1>4. CASE Answered /\ Tell(verdict, {}) /\ Go(IF now.netpol = "gone" THEN "cilium" ELSE "sa")
  <2>1. verdict \subseteq Gaps(cr0, now, now.cilium)
    <3>1. verdict \subseteq NetworkVerdict(now.netpol, now.cilium)
        BY DEF NetworkVerdict, When
    <3> HIDE DEF verdict
    <3> QED BY <3>1 DEF Gaps
  <2>2. now.netpol # "gone" => Settles(verdict, {}, Open("sa"))
    <3>1. now.netpol # "gone" => verdict = NetworkVerdict(now.netpol, now.cilium)
        BY DEF NetworkVerdict, When
    <3> HIDE DEF verdict
    <3> QED BY <1>1, <3>1, LastingNow, GapOf DEF Settles, Open, Known, FromEgress
  <2> HIDE DEF verdict
  <2>3. Settles(verdict, {}, Open("cilium"))
      BY <1>1 DEF Settles, Open
  <2>4. Sound(verdict, {})
      BY <1>1, <2>1, GapsSound
  <2>5. Asked(verdict, {})
      BY <1>1, <1>2, <1>4, <2>4, TellTold, FaultsBounded DEF Asked
  <2>6. now.netpol = "gone" => Ready("cilium")
      BY <1>1 DEF Ready, Calls
  <2> QED BY <1>3, <1>4, <2>2, <2>3, <2>5, <2>6, StayInv
<1>5. CASE Refused /\ Tell({}, {"netpol"}) /\ Go("sa")
  <2>1. Sound({}, {"netpol"})
      BY DEF Sound, Note
  <2>2. Settles({}, {"netpol"}, Open("sa"))
      BY <1>1, Excused DEF Settles, Open, Known, FromEgress
  <2>3. Asked({}, {"netpol"})
      BY <1>1, <1>2, <1>5, <2>1, TellTold, FaultsBounded DEF Asked
  <2> QED BY <1>3, <1>5, <2>2, <2>3, StayInv
<1> QED BY <1>4, <1>5 DEF auditNetworkPolicy

(* Without credentials, and without a role, the account's is the last call. *)
LEMMA AccountInv ==
  ASSUME PlatformIInv, call = "sa", NEW found, NEW noted,
         Asked(found, noted), Settles(found, noted, Open("role")),
         IF AskAWS THEN Go("role") ELSE NextPlatform
  PROVE  PlatformIInv'
<1>1. pc = "audit"
    BY DEF Asked
<1>2. CASE AskAWS /\ Go("role")
  <2>1. Ready("role")
      BY <1>2 DEF Ready, Calls, AskAWS
  <2> QED BY <1>2, <2>1, StayInv
<1>3. CASE ~AskAWS /\ NextPlatform
  <2>1. ASSUME NEW g \in Lasting(p0), g.type \in Open("role") PROVE Known(g, found, noted)
    <3>1. g.type \in FromRole
        BY <2>1 DEF Open
    <3>2. ~cr0.role => g.type \notin FromRole
        BY <1>1, LastingNow, GapOf DEF FromRole, FromAssociation
    <3> QED BY <1>3, <3>1, <3>2 DEF Known, AskAWS
  <2>2. Settles(found, noted, {})
      BY <2>1 DEF Settles
  <2> QED BY <1>3, <2>2, LeaveInv
<1> QED BY <1>2, <1>3

LEMMA ServiceAccountInv == ASSUME PlatformIInv, auditServiceAccount PROVE PlatformIInv'
<1>1. pc = "audit" /\ call = "sa" /\ info' = info /\ Rest /\ now \in seen[p0]
    BY AtHead DEF auditServiceAccount, At
<1>2. info' \in [role : Role, attached : SUBSET Managed]
    BY <1>1, InfoTyped
<1>3. ASSUME ~Derivable(cr0), Answered, AuditAccount({Finding("POD_IDENTITY_BINDING_UNKNOWN", "INFO")}, {})
      PROVE  PlatformIInv'
  <2> DEFINE found == {Finding("POD_IDENTITY_BINDING_UNKNOWN", "INFO")}
  <2>1. Sound(found, {})
      BY UnreadSound
  <2> HIDE DEF found
  <2>2. AccountVerdict(cr0, now.sa) = {}
      BY <1>3 DEF AccountVerdict
  <2>3. Settles(found, {}, Open("role"))
      BY <1>1, <2>2, LastingNow, GapOf DEF Settles, Open, FromAccount
  <2>4. Tell(found, {}) /\ IF AskAWS THEN Go("role") ELSE NextPlatform
      BY <1>3 DEF AuditAccount, found
  <2>5. Asked(found, {})
      BY <1>1, <1>2, <1>3, <2>1, <2>4, TellTold, FaultsBounded DEF Asked
  <2> QED BY <1>1, <2>3, <2>4, <2>5, AccountInv
<1>4. ASSUME Answered, AuditAccount(AccountVerdict(cr0, now.sa), {}) PROVE PlatformIInv'
  <2> DEFINE verdict == AccountVerdict(cr0, now.sa)
  <2>1. verdict \subseteq Gaps(cr0, now, now.cilium)
      BY DEF Gaps
  <2>2. Settles(verdict, {}, Open("role"))
      BY <1>1, LastingNow, GapOf DEF Settles, Open, Known, FromAccount
  <2> HIDE DEF verdict
  <2>3. Sound(verdict, {})
      BY <1>1, <2>1, GapsSound
  <2>4. Tell(verdict, {}) /\ IF AskAWS THEN Go("role") ELSE NextPlatform
      BY <1>4 DEF AuditAccount, verdict
  <2>5. Asked(verdict, {})
      BY <1>1, <1>2, <1>4, <2>3, <2>4, TellTold, FaultsBounded DEF Asked
  <2> QED BY <1>1, <2>2, <2>4, <2>5, AccountInv
<1>5. ASSUME Refused, AuditAccount({}, {"sa"}) PROVE PlatformIInv'
  <2>1. Sound({}, {"sa"})
      BY DEF Sound, Note
  <2>2. Settles({}, {"sa"}, Open("role"))
      BY <1>1, Excused DEF Settles, Open, Known, FromAccount
  <2>3. Tell({}, {"sa"}) /\ IF AskAWS THEN Go("role") ELSE NextPlatform
      BY <1>5 DEF AuditAccount
  <2>4. Asked({}, {"sa"})
      BY <1>1, <1>2, <1>5, <2>1, <2>3, TellTold, FaultsBounded DEF Asked
  <2> QED BY <1>1, <2>2, <2>3, <2>4, AccountInv
<1> QED BY <1>3, <1>4, <1>5 DEF auditServiceAccount

-----------------------------------------------------------------------------
(* The role.  Its verdicts wait for the last of three calls, and each part *)
(* of them has its ground in what its own call read.                       *)

AWSCalls == {"role", "attached", "inline", "association", "describe"}

LEMMA NoRoleTyped == NoRole \in [role : Role, attached : SUBSET Managed]
  BY DEF NoRole, Role

LEMMA AtAWS ==
  ASSUME PlatformIInv, pc = "audit", call \in AWSCalls
  PROVE  roles /\ cr0.role /\ Ready("association") /\ Ready("describe")
  BY AtHead DEF PlatformIInv, CallOK, AWSCalls, Ready, Calls

LEMMA RoleUnreadInv ==
  ASSUME PlatformIInv, pc = "audit", call \in {"role", "attached", "inline"}, Rest, Answered \/ Refused, RoleUnread
  PROVE  PlatformIInv'
<1> DEFINE found == {Finding("NOT_READY", "INFO")}
<1>1. Sound(found, {"role"})
    BY UnreadSound DEF Note
<1>2. Tell(found, {"role"}) /\ Go("association") /\ info' = NoRole
    BY DEF RoleUnread
<1> HIDE DEF found
<1>3. Settles(found, {"role"}, Open("association"))
    BY Excused DEF Settles, Open, Known, FromRole
<1>4. Asked(found, {"role"})
    BY <1>1, <1>2, NoRoleTyped, TellTold, FaultsBounded DEF Asked
<1>5. Ready("association")
    BY AtAWS DEF AWSCalls
<1> QED BY <1>2, <1>3, <1>4, <1>5, StayInv

LEMMA GetRoleInv == ASSUME PlatformIInv, GetRole PROVE PlatformIInv'
<1>1. pc = "audit" /\ call = "role" /\ Rest
    BY DEF GetRole, At
<1>2. now \in seen[p0] /\ now.role \in Role /\ roles /\ cr0.role /\ Ready("association")
    BY <1>1, AtHead, AtAWS DEF AWSCalls, State
<1>3. info \in [role : Role, attached : SUBSET Managed]
    BY InfoTyped
<1>4. CASE /\ now.role.there /\ Answered /\ info' = [info EXCEPT !.role = now.role]
           /\ Go("attached") /\ UNCHANGED <<findings, notes>>
  <2>1. info' \in [role : Role, attached : SUBSET Managed] /\ info'.role = now.role
      BY <1>2, <1>3, <1>4
  <2>2. Ready("attached")
      BY <1>2, <1>4, <2>1 DEF Ready, Calls, RoleKnown
  <2>3. Settles({}, {}, Open("attached"))
      BY <1>1 DEF Settles, Open
  <2>4. Sound({}, {})
      BY DEF Sound
  <2>5. Asked({}, {})
      BY <1>1, <1>4, <2>1, <2>4, SameTold, FaultsBounded DEF Asked
  <2> QED BY <1>4, <2>2, <2>3, <2>5, StayInv
<1>5. CASE /\ ~now.role.there /\ Answered /\ Tell(RoleVerdict(cr0, now.role, {}, {}), {})
           /\ Go("association") /\ UNCHANGED info
  <2> DEFINE verdict == RoleVerdict(cr0, now.role, {}, {})
  <2>1. verdict = RoleVerdict(cr0, now.role, now.attached, now.inline)
      BY <1>5, RoleParts
  <2> HIDE DEF verdict
  <2>2. verdict \subseteq Gaps(cr0, now, now.cilium)
      BY <1>2, <2>1 DEF Gaps
  <2>3. Settles(verdict, {}, Open("association"))
      BY <1>1, <2>1, LastingNow, GapOf DEF Settles, Open, Known, FromRole
  <2>4. Sound(verdict, {})
      BY <1>1, <1>2, <2>2, GapsSound
  <2>5. Asked(verdict, {})
      BY <1>1, <1>3, <1>5, <2>4, TellTold, FaultsBounded DEF Asked, verdict
  <2> QED BY <1>2, <1>5, <2>3, <2>5, StayInv
<1>6. CASE Refused /\ RoleUnread
    BY <1>1, <1>6, RoleUnreadInv
<1> QED BY <1>4, <1>5, <1>6 DEF GetRole

LEMMA AttachedInv == ASSUME PlatformIInv, ListAttachedRolePolicies PROVE PlatformIInv'
<1>1. pc = "audit" /\ call = "attached" /\ Rest
    BY DEF ListAttachedRolePolicies, At
<1>2. now \in seen[p0] /\ now.attached \subseteq Managed /\ roles /\ cr0.role
    BY <1>1, AtHead, AtAWS DEF AWSCalls, State
<1>3. info \in [role : Role, attached : SUBSET Managed] /\ RoleKnown(info, seen[p0])
    BY <1>1, InfoTyped, AtHead DEF PlatformIInv, CallOK
<1>4. CASE /\ now.role.there /\ Answered /\ info' = [info EXCEPT !.attached = now.attached]
           /\ Go("inline") /\ UNCHANGED <<findings, notes>>
  <2>1. /\ info' \in [role : Role, attached : SUBSET Managed]
        /\ info'.role = info.role /\ info'.attached = now.attached
      BY <1>2, <1>3, <1>4
  <2>2. Ready("inline")
      BY <1>2, <1>3, <1>4, <2>1 DEF Ready, Calls, RoleKnown, AttachedKnown
  <2>3. Settles({}, {}, Open("inline"))
      BY <1>1 DEF Settles, Open
  <2>4. Sound({}, {})
      BY DEF Sound
  <2>5. Asked({}, {})
      BY <1>1, <1>4, <2>1, <2>4, SameTold, FaultsBounded DEF Asked
  <2> QED BY <1>4, <2>2, <2>3, <2>5, StayInv
<1>5. CASE (Refused \/ (~now.role.there /\ Answered)) /\ RoleUnread
    BY <1>1, <1>5, RoleUnreadInv
<1> QED BY <1>4, <1>5 DEF ListAttachedRolePolicies

(* The three readings of a role that was there at each of them.            *)
LEMMA RoleGround ==
  ASSUME NEW cr, cr.role, NEW states, NEW one \in states, NEW two \in states, NEW three \in states,
         one.role.there, two.role.there, three.role.there
  PROVE  /\ \A f \in RoleVerdict(cr, one.role, two.attached, three.inline) : f.severity \in Level /\ Grounded(cr, states, f)
         /\ \A g : AlwaysGap(g, cr, states) /\ g.type \in AWSTypes =>
                   g \in RoleVerdict(cr, one.role, two.attached, three.inline)
<1>1. RoleVerdict(cr, one.role, two.attached, three.inline) =
        RoleGaps(cr, one.role) \cup AttachedGaps(cr, two.attached) \cup InlineGaps(cr, three.inline)
    BY RoleParts
<1>2. \A o \in states : o.role.there =>
        RoleVerdict(cr, o.role, o.attached, o.inline) =
          RoleGaps(cr, o.role) \cup AttachedGaps(cr, o.attached) \cup InlineGaps(cr, o.inline)
    BY RoleParts
<1>3. \A o \in states : RoleVerdict(cr, o.role, o.attached, o.inline) \subseteq Gaps(cr, o, o.cilium)
    BY DEF Gaps
<1>4. ASSUME NEW f \in RoleVerdict(cr, one.role, two.attached, three.inline)
      PROVE  f.severity \in Level /\ Grounded(cr, states, f)
  <2>1. \/ f \in Gaps(cr, one, one.cilium) \/ f \in Gaps(cr, two, two.cilium) \/ f \in Gaps(cr, three, three.cilium)
      BY <1>1, <1>2, <1>3
  <2> QED BY <2>1, GapOf DEF Grounded
<1>5. ASSUME NEW g, AlwaysGap(g, cr, states), g.type \in AWSTypes
      PROVE  g \in RoleVerdict(cr, one.role, two.attached, three.inline)
  <2>1. \A o \in states : g \in RoleVerdict(cr, o.role, o.attached, o.inline)
      BY <1>5, GapOf DEF AlwaysGap
  <2>2. \A o \in states : o.role.there =>
          \/ g \in RoleGaps(cr, o.role) /\ g.type \in RoleTypes
          \/ g \in AttachedGaps(cr, o.attached) /\ g.type \in AttachedTypes
          \/ g \in InlineGaps(cr, o.inline) /\ g.type \in InlineTypes
      BY <1>2, <2>1, RolePartTypes DEF Of
  <2>3. RoleTypes \cap AttachedTypes = {} /\ RoleTypes \cap InlineTypes = {} /\ AttachedTypes \cap InlineTypes = {}
      BY DEF RoleTypes, AttachedTypes, InlineTypes
  <2> QED BY <1>1, <2>2, <2>3
<1> QED BY <1>4, <1>5

LEMMA InlineInv == ASSUME PlatformIInv, ListRolePolicies PROVE PlatformIInv'
<1>1. pc = "audit" /\ call = "inline" /\ Rest
    BY DEF ListRolePolicies, At
<1>2. now \in seen[p0] /\ roles /\ cr0.role /\ Ready("association")
    BY <1>1, AtHead, AtAWS DEF AWSCalls
<1>3. RoleKnown(info, seen[p0]) /\ AttachedKnown(info, seen[p0])
    BY <1>1, AtHead DEF PlatformIInv, CallOK
<1>4. PICK one \in seen[p0] : one.role.there /\ one.role = info.role
    BY <1>3 DEF RoleKnown
<1>5. PICK two \in seen[p0] : two.role.there /\ two.attached = info.attached
    BY <1>3 DEF AttachedKnown
<1> DEFINE verdict == RoleVerdict(cr0, info.role, info.attached, now.inline)
           noted   == IF info.role.boundary # "none" /\ ~cr0.boundary THEN {"boundary"} ELSE {}
<1>6. CASE now.role.there /\ Answered /\ Tell(verdict, noted) /\ Go("association") /\ info' = NoRole
  <2>1. /\ \A f \in verdict : f.severity \in Level /\ Grounded(cr0, seen[p0], f)
        /\ \A g : AlwaysGap(g, cr0, seen[p0]) /\ g.type \in AWSTypes => g \in verdict
      BY <1>2, <1>4, <1>5, <1>6, RoleGround
  <2>2. noted \subseteq Note
      BY DEF Note
  <2> HIDE DEF verdict, noted
  <2>3. Sound(verdict, noted)
      BY <2>1, <2>2 DEF Sound
  <2>4. Settles(verdict, noted, Open("association"))
    <3>1. ASSUME NEW g \in Lasting(p0) PROVE AlwaysGap(g, cr0, seen[p0])
        BY <1>1, LastingHas DEF AlwaysGap
    <3> QED BY <1>1, <2>1, <3>1 DEF Settles, Open, Known, FromRole
  <2>5. Asked(verdict, noted)
      BY <1>1, <1>6, <2>3, NoRoleTyped, TellTold, FaultsBounded DEF Asked
  <2> QED BY <1>2, <1>6, <2>4, <2>5, StayInv
<1>7. CASE (Refused \/ (~now.role.there /\ Answered)) /\ RoleUnread
    BY <1>1, <1>7, RoleUnreadInv
<1> QED BY <1>6, <1>7 DEF ListRolePolicies

-----------------------------------------------------------------------------
(* The association, the last question of all.                              *)

LEMMA AssociationUnreadInv ==
  ASSUME PlatformIInv, pc = "audit", call \in {"association", "describe"}, Rest, Answered \/ Refused,
         UNCHANGED info, NextPlatform,
         Tell({Finding("NOT_READY", "INFO")}, {"association"})
           \/ Tell({Finding("POD_IDENTITY_BINDING_UNKNOWN", "INFO")}, {"association"})
  PROVE  PlatformIInv'
<1>1. PICK found : Sound(found, {"association"}) /\ Tell(found, {"association"})
    BY UnreadSound DEF Note
<1>2. Settles(found, {"association"}, {})
    BY Excused DEF Settles, Open, Known, FromAssociation
<1>3. Asked(found, {"association"})
    BY <1>1, InfoTyped, TellTold, FaultsBounded DEF Asked
<1> QED BY <1>2, <1>3, LeaveInv

LEMMA AssociationAnswered ==
  ASSUME PlatformIInv, pc = "audit", call \in {"association", "describe"}, Rest, Answered, UNCHANGED info,
         Tell(AssociationVerdict(cr0, now.association), {}), NextPlatform
  PROVE  PlatformIInv'
<1> DEFINE verdict == AssociationVerdict(cr0, now.association)
<1>1. now \in seen[p0] /\ cr0.role
    BY AtHead, AtAWS DEF AWSCalls
<1>2. verdict \subseteq Gaps(cr0, now, now.cilium)
    BY <1>1 DEF Gaps
<1>3. Settles(verdict, {}, {})
    BY LastingNow, GapOf DEF Settles, Open, Known, FromAssociation
<1> HIDE DEF verdict
<1>4. Sound(verdict, {})
    BY <1>1, <1>2, GapsSound
<1>5. Asked(verdict, {})
    BY <1>4, InfoTyped, TellTold, FaultsBounded DEF Asked, verdict
<1> QED BY <1>3, <1>5, LeaveInv

LEMMA AssociationInv == ASSUME PlatformIInv, ListPodIdentityAssociations PROVE PlatformIInv'
<1>1. pc = "audit" /\ call = "association" /\ info' = info /\ Rest
    BY DEF ListPodIdentityAssociations, At
<1>2. CASE Answered /\ Tell({Finding("POD_IDENTITY_BINDING_UNKNOWN", "INFO")}, {"association"}) /\ NextPlatform
    BY <1>1, <1>2, AssociationUnreadInv
<1>3. CASE now.association = "gone" /\ Answered /\ Tell(AssociationVerdict(cr0, "gone"), {}) /\ NextPlatform
    BY <1>1, <1>3, AssociationAnswered
<1>4. CASE Answered /\ Tell({}, {}) /\ Go("describe")
  <2>1. Sound({}, {})
      BY DEF Sound
  <2>2. Asked({}, {})
      BY <1>1, <1>4, <2>1, InfoTyped, TellTold, FaultsBounded DEF Asked
  <2>3. Settles({}, {}, Open("describe"))
      BY <1>1 DEF Settles, Open
  <2>4. Ready("describe")
      BY <1>1, AtAWS DEF AWSCalls
  <2> QED BY <1>4, <2>2, <2>3, <2>4, StayInv
<1>5. CASE Refused /\ AssociationUnread
    BY <1>1, <1>5, AssociationUnreadInv DEF AssociationUnread
<1> QED BY <1>2, <1>3, <1>4, <1>5 DEF ListPodIdentityAssociations

LEMMA DescribeInv == ASSUME PlatformIInv, DescribePodIdentityAssociation PROVE PlatformIInv'
<1>1. pc = "audit" /\ call = "describe" /\ info' = info /\ Rest
    BY DEF DescribePodIdentityAssociation, At
<1>2. CASE Answered /\ Tell(AssociationVerdict(cr0, now.association), {}) /\ NextPlatform
    BY <1>1, <1>2, AssociationAnswered
<1>3. CASE (Answered \/ Refused) /\ AssociationUnread
    BY <1>1, <1>3, AssociationUnreadInv DEF AssociationUnread
<1> QED BY <1>2, <1>3 DEF DescribePodIdentityAssociation

-----------------------------------------------------------------------------
(* Platform audit: the gate and the report.                                *)

LEMMA GateInv == ASSUME PlatformIInv, Gate PROVE PlatformIInv'
<1>1. /\ pc = "filter" /\ floor' \in Floors /\ failOn' \in Gates
      /\ UNCHANGED <<deployed, seen, changes, roles, faults, listed, queue, call, info, findings, notes, report>>
    BY DEF Gate, live
<1>2. SeenOK' /\ GroundOK'
    BY <1>1 DEF PlatformIInv, SeenOK, GroundOK
<1>3. pc' # "audit" /\ pc' # "list" /\ pc' \in {"write", "over"} => CallOK' /\ QueueOK'
    BY <1>1 DEF PlatformIInv, CallOK, QueueOK
<1>4. pc' \in {"write", "over"} /\ exitCode' \in 0 .. 3 => TypeOK'
  <2>1. pc' \in {"write", "over"} => pc' \in {"list", "audit", "filter", "write", "over"} /\ pc' # "audit"
      OBVIOUS
  <2>2. floor' \in Floors \cup {"LOW"} /\ failOn' \in Gates \cup {""}
      BY <1>1, Zenon
  <2> QED BY <1>1, <2>1, <2>2, Zenon DEF PlatformIInv, TypeOK
<1>5. CASE exitCode' = 1 /\ pc' = "over"
  <2>1. KnownOK' /\ GateOK'
      BY <1>5 DEF KnownOK, GateOK
  <2> QED BY <1>2, <1>3, <1>4, <1>5, <2>1 DEF PlatformIInv
<1>6. CASE /\ incomplete' = Noted \cup (IF roles THEN {} ELSE {NoCredentials})
           /\ exitCode' = CASE failOn' # "" /\ \E f \in Kept(floor') : AtLeast(f[2].severity, failOn') -> 2
                            [] failOn' # "" /\ incomplete' # {} -> 3
                            [] OTHER -> 0
           /\ pc' = "write"
  <2> DEFINE gated == failOn' # ""
             some  == \E f \in Kept(floor') : AtLeast(f[2].severity, failOn')
  <2>1. exitCode' = CASE gated /\ some -> 2 [] gated /\ incomplete' # {} -> 3 [] OTHER -> 0
      BY <1>6, Zenon
  <2>2. some \in BOOLEAN /\ gated \in BOOLEAN
      BY Zenon
  <2>3. KnownOK'
    <3> SUFFICES ASSUME NEW p \in Platform, NEW g \in Lasting(p)' PROVE Known(g, findings[p], notes[p])'
        BY DEF KnownOK
    <3>1. g \in Lasting(p)
        BY <1>1, LastingShrinks DEF PlatformIInv
    <3>2. Known(g, findings[p], notes[p])
        BY <1>1, <3>1 DEF PlatformIInv, KnownOK, Waiting
    <3> QED BY <1>1, <3>2 DEF Known
  <2>4. Noted' = Noted
      BY <1>1 DEF Noted
  <2>5. Kept(floor)' = Kept(floor')
      BY <1>1 DEF Kept
  <2> HIDE DEF gated, some
  <2>6. exitCode' \in 0 .. 3 /\ (exitCode' = 0 /\ gated => incomplete' = {} /\ ~some)
      BY <2>1, <2>2
  <2>7. exitCode' = 0 /\ failOn' # "" => incomplete' = {} /\ \A f \in Kept(floor)' : ~AtLeast(f[2].severity, failOn')
      BY <2>5, <2>6, Zenon DEF gated, some
  <2>8. pc' # "over" /\ incomplete' = Noted' \cup (IF roles' THEN {} ELSE {NoCredentials})
      BY <1>1, <1>6, <2>4
  <2>9. GateOK'
      BY <2>7, <2>8, Zenon DEF GateOK
  <2> QED BY <1>2, <1>3, <1>4, <1>6, <2>3, <2>6, <2>9 DEF PlatformIInv
<1> QED BY <1>5, <1>6, Zenon DEF Gate

LEMMA WriteReportInv == ASSUME PlatformIInv, WriteReport PROVE PlatformIInv'
<1>1. /\ pc = "write" /\ pc' = "over"
      /\ UNCHANGED <<deployed, seen, changes, roles, floor, failOn, listed, queue, call, info, findings, notes, incomplete>>
    BY DEF WriteReport, live
<1>2. SeenOK' /\ GroundOK' /\ CallOK' /\ QueueOK'
    BY <1>1 DEF PlatformIInv, SeenOK, GroundOK, CallOK, QueueOK
<1>3. faults' \in 0 .. MaxFaults /\ exitCode' \in 0 .. 3 => TypeOK'
  <2>1. pc' \in {"list", "audit", "filter", "write", "over"} /\ pc' # "audit"
      BY <1>1
  <2> QED BY <1>1, <2>1, Zenon DEF PlatformIInv, TypeOK
<1>4. CASE /\ report' = [written |-> TRUE, findings |-> Kept(floor), incomplete |-> incomplete]
           /\ UNCHANGED <<faults, exitCode>>
  <2>1. faults' \in 0 .. MaxFaults /\ exitCode' \in 0 .. 3
      BY <1>4, Zenon DEF PlatformIInv, TypeOK
  <2>2. KnownOK'
    <3> SUFFICES ASSUME NEW p \in Platform, NEW g \in Lasting(p)' PROVE Known(g, findings[p], notes[p])'
        BY DEF KnownOK
    <3>1. g \in Lasting(p)
        BY <1>1, LastingShrinks DEF PlatformIInv
    <3>2. Known(g, findings[p], notes[p])
        BY <1>1, <3>1 DEF PlatformIInv, KnownOK, Waiting
    <3> QED BY <1>1, <3>2 DEF Known
  <2>3. report'.written /\ report'.incomplete = incomplete'
      BY <1>1, <1>4
  <2>4. Kept(floor)' = Kept(floor) /\ Noted' = Noted
      BY <1>1 DEF Kept, Noted
  <2>5. GateOK'
      BY <1>1, <1>4, <2>3, <2>4, Zenon DEF PlatformIInv, GateOK
  <2> QED BY <1>2, <1>3, <2>1, <2>2, <2>5 DEF PlatformIInv
<1>5. CASE Refused /\ exitCode' = 1
  <2>1. faults' \in 0 .. MaxFaults
      BY <1>5, FaultsBounded
  <2>2. exitCode' \in 0 .. 3 /\ KnownOK' /\ GateOK'
      BY <1>1, <1>5 DEF KnownOK, GateOK
  <2> QED BY <1>2, <1>3, <2>1, <2>2 DEF PlatformIInv
<1> QED BY <1>4, <1>5 DEF WriteReport

LEMMA PlatformStutterInv == ASSUME PlatformIInv, UNCHANGED vars PROVE PlatformIInv'
<1> USE DEF vars
<1>1. TypeOK'
    BY Zenon DEF PlatformIInv, TypeOK
<1>2. SeenOK' /\ CallOK' /\ QueueOK' /\ GroundOK'
    BY DEF PlatformIInv, SeenOK, CallOK, QueueOK, GroundOK, RoleKnown, AttachedKnown
<1>3. KnownOK'
    BY DEF PlatformIInv, KnownOK, Known, Waiting, Lasting
<1>4. GateOK'
  <2>1. Kept(floor)' = Kept(floor) /\ Noted' = Noted
      BY DEF Kept, Noted
  <2> QED BY <2>1, Zenon DEF PlatformIInv, GateOK
<1> QED BY <1>1, <1>2, <1>3, <1>4 DEF PlatformIInv

LEMMA AuditPlatformInv == ASSUME PlatformIInv, AuditPlatform PROVE PlatformIInv'
  BY BeginInv, BudgetInv, TenantInv, GatewaysInv, PhaseInv, NamespaceInv, QuotaInv, LimitsInv, NetpolInv, CiliumInv,
     ServiceAccountInv, GetRoleInv, AttachedInv, InlineInv, AssociationInv, DescribeInv
     DEF AuditPlatform

LEMMA PlatformNextInv == PlatformIInv /\ [Next]_vars => PlatformIInv'
  BY ChangeInv, ListInv, AuditPlatformInv, GateInv, WriteReportInv, PlatformStutterInv DEF Next, runPlatformAudit, Over

-----------------------------------------------------------------------------
(* Platform audit: the theorems.                                           *)

(* The invariant that the others rest on: what each call has seen, and for *)
(* every lasting gap that it is known or its question is still open.       *)
THEOREM PlatformInvariance == Spec => []PlatformIInv
  BY PlatformInitInv, PlatformNextInv, PTL DEF Spec

(* The state of the audit has its types: no platform is asked about after  *)
(* the last one, and every note is one of a known call.                    *)
THEOREM PlatformTypeCorrect == Spec => []TypeOK
<1>1. PlatformIInv => TypeOK
    BY DEF PlatformIInv
<1> QED BY <1>1, PlatformInvariance, PTL

(* Whatever changes while the audit runs and whichever calls fail, every   *)
(* finding above INFO is a gap the platform had against the declaration    *)
(* that was listed: a failed call never becomes a verdict.                 *)
THEOREM VerdictsGrounded == Spec => []VerdictHasGround
<1>1. PlatformIInv => VerdictHasGround
    BY DEF PlatformIInv, GroundOK, Grounded, VerdictHasGround
<1> QED BY <1>1, PlatformInvariance, PTL

LEMMA CredentialsExcuse == \A type \in FromRole : Excuses(NoCredentials[2], type)
  BY DEF NoCredentials, Excuses, FromRole, FromAssociation

(* Nothing is passed over in silence: a gap that lasts through the run is  *)
(* a finding, or the incomplete list says that it was not looked for.      *)
THEOREM LastingGapsKnown == Spec => []LastingGapIsKnown
<1>1. ASSUME PlatformIInv, pc = "write", NEW p \in Platform, NEW g \in Lasting(p)
      PROVE  \/ g \in findings[p]
             \/ \E n \in incomplete : n[1] \in {p, "aws"} /\ Excuses(n[2], g.type)
             \/ g.type \notin SpecTypes /\ Finding("NAMESPACE_MISSING", "CRITICAL") \in findings[p]
  <2>1. Known(g, findings[p], notes[p])
      BY <1>1 DEF PlatformIInv, KnownOK, Waiting
  <2>2. incomplete = Noted \cup (IF roles THEN {} ELSE {NoCredentials})
      BY <1>1, Zenon DEF PlatformIInv, GateOK
  <2>3. CASE \E n \in notes[p] : Excuses(n, g.type)
    <3>1. PICK n \in notes[p] : Excuses(n, g.type)
        BY <2>3
    <3>2. <<p, n>> \in incomplete
        BY <2>2, <3>1 DEF Noted
    <3> QED BY <3>1, <3>2
  <2>4. CASE ~roles /\ g.type \in FromRole
    <3>1. NoCredentials \in incomplete /\ NoCredentials[1] = "aws"
        BY <2>2, <2>4 DEF NoCredentials
    <3> QED BY <2>4, <3>1, CredentialsExcuse
  <2> QED BY <2>1, <2>3, <2>4 DEF Known, NamespaceGone
<1>2. PlatformIInv => LastingGapIsKnown
    BY <1>1 DEF LastingGapIsKnown
<1> QED BY <1>2, PlatformInvariance, PTL

LEMMA CriticalOutranks == \A level : AtLeast("CRITICAL", level)
  BY DEF AtLeast, SeverityRank

(* A gated run that exits 0 wrote its report, left nothing unread, and no  *)
(* platform had, all through the run, a gap the flags ask about.           *)
THEOREM ZeroCoversContract == Spec => []ExitZeroCoversTheContract
<1>1. ASSUME PlatformIInv, pc = "over", exitCode = 0, NEW p \in Platform, NEW g \in Lasting(p),
             incomplete = Noted \cup (IF roles THEN {} ELSE {NoCredentials}), incomplete = {},
             \A f \in Kept(floor) : ~AtLeast(f[2].severity, failOn),
             AtLeast(g.severity, floor), AtLeast(g.severity, failOn)
      PROVE  FALSE
  <2>1. Known(g, findings[p], notes[p])
      BY <1>1 DEF PlatformIInv, KnownOK, Waiting
  <2>2. notes[p] = {} /\ roles
    <3>1. \A n \in notes[p] : <<p, n>> \in Noted
        BY DEF Noted
    <3> QED BY <1>1, <3>1
  <2>3. \A f \in findings[p] : AtLeast(f.severity, floor) => <<p, f>> \in Kept(floor)
      BY DEF Kept
  <2>4. CASE NamespaceGone \in findings[p]
    <3>1. NamespaceGone.severity = "CRITICAL"
        BY DEF NamespaceGone, Finding
    <3> QED BY <1>1, <2>3, <2>4, <3>1, CriticalOutranks
  <2>5. CASE g \in findings[p]
      BY <1>1, <2>3, <2>5
  <2> QED BY <2>1, <2>2, <2>4, <2>5 DEF Known
<1>2. ASSUME PlatformIInv, pc = "over", exitCode = 0, failOn # ""
      PROVE  /\ report.written /\ report.incomplete = {}
             /\ incomplete = Noted \cup (IF roles THEN {} ELSE {NoCredentials}) /\ incomplete = {}
             /\ \A f \in Kept(floor) : ~AtLeast(f[2].severity, failOn)
  <2>1. \A code : code = 0 => code # 1
      OBVIOUS
  <2> QED BY <1>2, <2>1, Zenon DEF PlatformIInv, GateOK
<1>3. PlatformIInv => ExitZeroCoversTheContract
    BY <1>1, <1>2, Zenon DEF ExitZeroCoversTheContract
<1> QED BY <1>3, PlatformInvariance, PTL

-----------------------------------------------------------------------------
(* Saved reports: the command lines.                                       *)

(* What each command line carries, and what it reads.                      *)
LEMMA CommandType ==
  ASSUME NEW c \in Commands
  PROVE  /\ c.op \in {"scan", "save", "delete", "compare", "compliance"}
         /\ c.reads \in Seq(Place)
         /\ c.op = "scan" => c.kind \in Domains \cup {"audit"} /\ c.floor \in Level /\ c.to \in Place
         /\ c.op = "save" => c.to \in Place /\ Len(c.reads) = 1
         /\ c.op = "delete" => c.to \in Place
         /\ c.op = "compare" => Len(c.reads) = 2
         /\ c.op = "compliance" =>
              /\ c.slots \in Seq(Slots) /\ Len(c.slots) = Len(c.reads)
              /\ \A i, j \in DOMAIN c.slots : c.slots[i] = c.slots[j] => i = j
<1>1. CASE c \in ScanCommand
  <2>1. c.op = "scan" /\ c.kind \in Domains \cup {"audit"} /\ c.floor \in Level /\ c.to \in {File(f) : f \in Path} /\ c.reads = <<>>
      BY <1>1 DEF ScanCommand
  <2>2. c.to \in Place
      BY <2>1 DEF Place
  <2> QED BY <2>1, <2>2
<1>2. CASE c \in SaveCommand
  <2>1. c.op = "save" /\ c.to \in {Baseline(n) : n \in Name} /\ c.reads \in {<<File(f)>> : f \in Path}
      BY <1>2 DEF SaveCommand
  <2>2. PICK f \in Path : c.reads = <<File(f)>>
      BY <2>1
  <2>3. c.to \in Place /\ File(f) \in Place
      BY <2>1 DEF Place
  <2> HIDE DEF File
  <2> QED BY <2>1, <2>2, <2>3
<1>3. CASE c \in DeleteCommand
  <2>1. c.op = "delete" /\ c.to \in {Baseline(n) : n \in Name} /\ c.reads = <<>>
      BY <1>3 DEF DeleteCommand
  <2>2. c.to \in Place
      BY <2>1 DEF Place
  <2> QED BY <2>1, <2>2
<1>4. CASE c \in CompareCommand
  <2>1. c.op = "compare" /\ c.reads \in Place \X {File(f) : f \in Path}
      BY <1>4 DEF CompareCommand
  <2>2. PICK b \in Place, r \in {File(f) : f \in Path} : c.reads = <<b, r>>
      BY <2>1
  <2>3. r \in Place
      BY DEF Place
  <2> QED BY <2>1, <2>2, <2>3
<1>5. CASE /\ c \in ComplianceCommand /\ Len(c.slots) = Len(c.reads)
           /\ \A i, j \in DOMAIN c.slots : c.slots[i] = c.slots[j] => i = j
  <2>1. c.op = "compliance" /\ c.slots \in Seq(Slots) /\ c.reads \in Seq({File(f) : f \in Path})
      BY <1>5 DEF ComplianceCommand
  <2>2. {File(f) : f \in Path} \subseteq Place
      BY DEF Place
  <2>3. c.reads \in Seq(Place)
      BY <2>1, <2>2
  <2> QED BY <1>5, <2>1, <2>3
<1> QED BY <1>1, <1>2, <1>3, <1>4, <1>5, OfflineAssumption

(* A report says no more than there was to read and what a reading may     *)
(* guess; and unless its incomplete array has an entry it says all of it,  *)
(* but for the rules whose tags were refused.                              *)
Faithful(r) ==
  /\ r \in Report
  /\ r.rows \subseteq Shown(r.kind, r.floor, r.account \cup Guesses)
  /\ ~r.partial => \E refused \in SUBSET Shown(r.kind, r.floor, Debris) : r.rows = Misread(Truth(r), refused)

(* Nothing refused, nothing misread.                                       *)
LEMMA MisreadNone == \A rows : Misread(rows, {}) = rows
  BY DEF Misread

(* What is misread is a rule.                                              *)
LEMMA MisreadRules ==
  ASSUME NEW rows, NEW refused \in SUBSET Debris
  PROVE  ButRules(Misread(rows, refused)) = ButRules(rows)
  BY DEF ButRules, Misread, Debris

LEMMA ShownOf ==
  ASSUME NEW kind, NEW least, NEW A, NEW B, NEW row \in Shown(kind, least, A \cup B)
  PROVE  row \in Shown(kind, least, A) \/ (row \in B /\ row.domain \in Covered(kind))
  BY DEF Shown

(* The report of a domain some benchmark reads has no rules in it.         *)
LEMMA SlotsCover ==
  ASSUME NEW kind \in Slots
  PROVE  Covered(kind) = {kind} /\ kind # "orphans" /\ (kind = "tags" => kind # "iam")
  BY DEF Covered, Slots

LEMMA WholeOfSlot ==
  ASSUME NEW r, Faithful(r), r.kind \in Slots, ~r.partial
  PROVE  r.rows = Truth(r)
<1>1. PICK refused \in SUBSET Shown(r.kind, r.floor, Debris) : r.rows = Misread(Truth(r), refused)
    BY DEF Faithful
<1>2. Shown(r.kind, r.floor, Debris) = {}
    BY SlotsCover DEF Shown, Debris
<1> QED BY <1>1, <1>2, MisreadNone

(* And no guesses but those of what goes unused.                           *)
LEMMA GuessOfSlot ==
  ASSUME NEW r, Faithful(r), r.kind \in Slots, NEW row \in r.rows
  PROVE  row \in Truth(r) \/ (r.kind = "iam" /\ row.type \in Stale)
<1>1. row \in Shown(r.kind, r.floor, r.account) \/ (row \in Guesses /\ row.domain \in Covered(r.kind))
    BY ShownOf DEF Faithful
<1> QED BY <1>1, SlotsCover DEF Truth, Guesses, Debris

-----------------------------------------------------------------------------
(* Saved reports: the invariant.                                           *)

(* Every file that is a report is a faithful one.                          *)
DiskOK == \A place \in Place : disk[place] \in {Missing, Torn} \/ Faithful(disk[place])

(* So is everything a process holds.                                       *)
HeldOK(p) == \A i \in DOMAIN held[p] : Faithful(held[p][i])

(* Where it stands in which command.                                       *)
StageOK(p) ==
  /\ stage[p] # "done" => cmd[p] \in Commands
  /\ stage[p] \in {"scan", "create", "write"} => cmd[p].op = "scan"
  /\ stage[p] \in {"create", "write"} => Len(held[p]) = 1
  /\ stage[p] = "load" => cmd[p].op # "scan" /\ Len(held[p]) <= Len(cmd[p].reads)

(* What an exit code other than 1 stands for.                              *)
ExitOK(p) ==
  /\ Judged(p, "compare") =>
       /\ cmd[p] \in Commands /\ Len(held[p]) = 2
       /\ \A i \in DOMAIN held[p] : Comparable(held[p][i])
       /\ exit[p] = IF cmd[p].failOn # "" /\ Unread(p) # {} THEN 3 ELSE 0
  /\ Judged(p, "compliance") =>
       /\ cmd[p] \in Commands /\ Len(held[p]) = Len(cmd[p].reads)
       /\ exit[p] = ComplianceExit(cmd[p].benchmark, Input(p), Unread(p) # {}, cmd[p].failOn)

ProcessOK(p) == HeldOK(p) /\ StageOK(p) /\ ExitOK(p)

OfflineIInv == OfflineTypeOK /\ DiskOK /\ \A p \in Proc : ProcessOK(p)

LEMMA OfflineInitInv == OfflineInit => OfflineIInv
<1> SUFFICES ASSUME OfflineInit PROVE OfflineIInv
    OBVIOUS
<1>1. OfflineTypeOK
    BY OfflineAssumption DEF OfflineInit, OfflineTypeOK
<1>2. DiskOK
    BY DEF OfflineInit, DiskOK
<1>3. ASSUME NEW p \in Proc PROVE ProcessOK(p)
    BY DEF OfflineInit, ProcessOK, HeldOK, StageOK, ExitOK, Judged, Idle
<1> QED BY <1>1, <1>2, <1>3 DEF OfflineIInv

-----------------------------------------------------------------------------
(* A step moves one process at most, and the others are what they were.    *)

Still(p) == stage'[p] = stage[p] /\ cmd'[p] = cmd[p] /\ held'[p] = held[p] /\ exit'[p] = exit[p]

LEMMA StillOK ==
  ASSUME NEW p \in Proc, ProcessOK(p), Still(p)
  PROVE  ProcessOK(p)'
<1>1. /\ Unread(p)' = Unread(p) /\ Input(p)' = Input(p)
      /\ \A op : Judged(p, op)' = Judged(p, op)
    BY DEF Still, Unread, Input, Judged
<1>2. HeldOK(p)' /\ StageOK(p)'
    BY DEF Still, ProcessOK, HeldOK, StageOK
<1>3. ExitOK(p)'
    BY <1>1 DEF Still, ProcessOK, ExitOK
<1> QED BY <1>2, <1>3 DEF ProcessOK

LEMMA OneMoves ==
  ASSUME OfflineIInv, NEW p \in Proc, OfflineTypeOK', DiskOK', ProcessOK(p)', \A q \in Proc : q # p => Still(q)
  PROVE  OfflineIInv'
  BY StillOK DEF OfflineIInv

LEMMA NoneMoves ==
  ASSUME OfflineIInv, OfflineTypeOK', UNCHANGED <<disk, stage, cmd, held, exit>>
  PROVE  OfflineIInv'
<1>1. DiskOK'
    BY DEF OfflineIInv, DiskOK
<1>2. \A p \in Proc : Still(p)
    BY DEF Still
<1> QED BY <1>1, <1>2, StillOK DEF OfflineIInv

(* A process that ends in error has nothing to answer for.                 *)
LEMMA StopOK ==
  ASSUME NEW p \in Proc, ProcessOK(p), stage'[p] = "done", exit'[p] = 1, held'[p] = held[p]
  PROVE  ProcessOK(p)'
  BY DEF ProcessOK, HeldOK, StageOK, ExitOK, Judged

(* Nor has one whose end says nothing of reports.                          *)
LEMMA EndOK ==
  ASSUME NEW p \in Proc, ProcessOK(p), stage'[p] = "done", UNCHANGED <<cmd, held>>,
         cmd[p].op \notin {"compare", "compliance"}
  PROVE  ProcessOK(p)'
  BY DEF ProcessOK, HeldOK, StageOK, ExitOK, Judged

(* What moves when process p moves.                                        *)
LEMMA ExitStep ==
  ASSUME OfflineTypeOK, NEW p \in Proc, NEW code \in 0 .. 3, Exit(p, code), UNCHANGED <<cmd, held>>
  PROVE  /\ stage' \in [Proc -> {"scan", "create", "write", "load", "done"}] /\ exit' \in [Proc -> 0 .. 3]
         /\ stage'[p] = "done" /\ exit'[p] = code /\ cmd'[p] = cmd[p] /\ held'[p] = held[p]
         /\ \A q \in Proc : q # p => Still(q)
  BY DEF Exit, OfflineTypeOK, Still

LEMMA StopInv == ASSUME OfflineIInv, NEW p \in Proc, Stop(p) PROVE OfflineIInv'
<1>1. /\ Exit(p, 1) /\ UNCHANGED <<account, accountChanges, started, disk, cmd, held>>
      /\ failures < MaxFailures /\ failures' = failures + 1
    BY DEF Stop
<1>2. OfflineTypeOK'
    BY <1>1, ExitStep, OfflineAssumption DEF OfflineIInv, OfflineTypeOK
<1>3. DiskOK'
    BY <1>1 DEF OfflineIInv, DiskOK
<1>4. ProcessOK(p)'
    BY <1>1, ExitStep, StopOK DEF OfflineIInv
<1> QED BY <1>1, <1>2, <1>3, <1>4, ExitStep, OneMoves DEF OfflineIInv

LEMMA WorldInv == ASSUME OfflineIInv, World PROVE OfflineIInv'
<1>1. OfflineTypeOK'
    BY OfflineAssumption DEF World, OfflineIInv, OfflineTypeOK
<1> QED BY <1>1, NoneMoves DEF World

LEMMA StartInv == ASSUME OfflineIInv, NEW p \in Proc, Start(p) PROVE OfflineIInv'
<1>1. PICK c \in Commands : cmd' = [cmd EXCEPT ![p] = c] /\ stage' = [stage EXCEPT ![p] = IF c.op = "scan" THEN "scan" ELSE "load"]
    BY DEF Start
<1>2. /\ started < MaxCommands /\ started' = started + 1
      /\ held' = [held EXCEPT ![p] = <<>>] /\ exit' = [exit EXCEPT ![p] = 0]
      /\ UNCHANGED <<account, accountChanges, failures, disk>>
    BY DEF Start
<1>3. OfflineTypeOK'
  <2>1. held' \in [Proc -> Seq(Report)]
    <3>1. <<>> \in Seq(Report)
        OBVIOUS
    <3> QED BY <1>2, <3>1 DEF OfflineIInv, OfflineTypeOK
  <2>2. exit' \in [Proc -> 0 .. 3] /\ cmd' \in [Proc -> Commands \cup {Idle}]
      BY <1>1, <1>2 DEF OfflineIInv, OfflineTypeOK
  <2>3. stage' \in [Proc -> {"scan", "create", "write", "load", "done"}]
      BY <1>1 DEF OfflineIInv, OfflineTypeOK
  <2> QED BY <1>2, <2>1, <2>2, <2>3, OfflineAssumption DEF OfflineIInv, OfflineTypeOK
<1>4. DiskOK'
    BY <1>2 DEF OfflineIInv, DiskOK
<1>5. /\ cmd'[p] = c /\ held'[p] = <<>> /\ stage'[p] = IF c.op = "scan" THEN "scan" ELSE "load"
      /\ \A q \in Proc : q # p => Still(q)
    BY <1>1, <1>2 DEF OfflineIInv, OfflineTypeOK, Still
<1>6. ProcessOK(p)'
    BY <1>5, CommandType DEF ProcessOK, HeldOK, StageOK, ExitOK, Judged
<1> QED BY <1>3, <1>4, <1>5, <1>6, OneMoves

-----------------------------------------------------------------------------
(* The scans.  What is shown is what there is to show, whole or in part.   *)

LEMMA KindsOfScans == Domains \cup {"audit"} \subseteq Kinds
  BY DEF Domains, Kinds, ByEnvelope, ByFinding

LEMMA ReadInv == ASSUME OfflineIInv, NEW p \in Proc, Read(p) PROVE OfflineIInv'
<1> DEFINE shown == Shown(cmd[p].kind, cmd[p].floor, account)
<1>1. /\ stage[p] = "scan" /\ stage' = [stage EXCEPT ![p] = "create"]
      /\ UNCHANGED <<account, accountChanges, started, disk, cmd, exit>>
      /\ failures' \in {failures, failures + 1} /\ (failures' # failures => failures < MaxFailures)
    BY DEF Read, ReadWhole, ReadTagsRefused, ReadPartly
<1>2. PICK rows \in SUBSET Shown(cmd[p].kind, cmd[p].floor, account \cup Guesses), partial \in BOOLEAN :
        /\ held' = [held EXCEPT ![p] = <<Envelope(p, rows, partial)>>]
        /\ ~partial => \E refused \in SUBSET Shown(cmd[p].kind, cmd[p].floor, Debris) : rows = Misread(shown, refused)
  <2>1. CASE ReadWhole(p)
    <3>1. held' = [held EXCEPT ![p] = <<Envelope(p, shown, FALSE)>>]
        BY <2>1 DEF ReadWhole
    <3>2. shown = Misread(shown, {}) /\ {} \in SUBSET Shown(cmd[p].kind, cmd[p].floor, Debris)
        BY MisreadNone
    <3>3. shown \subseteq Shown(cmd[p].kind, cmd[p].floor, account \cup Guesses)
        BY DEF Shown
    <3> HIDE DEF shown
    <3> QED BY <3>1, <3>2, <3>3
  <2>2. CASE ReadTagsRefused(p)
    <3>1. PICK refused \in SUBSET Shown(cmd[p].kind, cmd[p].floor, Debris) :
            held' = [held EXCEPT ![p] = <<Envelope(p, Misread(shown, refused), FALSE)>>]
        BY <2>2 DEF ReadTagsRefused
    <3>2. Misread(shown, refused) \subseteq shown \cup refused
        BY DEF Misread
    <3>3. Misread(shown, refused) \subseteq Shown(cmd[p].kind, cmd[p].floor, account \cup Guesses)
        BY <3>2 DEF Shown, Guesses
    <3> HIDE DEF shown
    <3> QED BY <3>1, <3>3
  <2>3. CASE ReadPartly(p)
    <3>1. PICK rows \in SUBSET Shown(cmd[p].kind, cmd[p].floor, account \cup Guesses) :
            held' = [held EXCEPT ![p] = <<Envelope(p, rows, TRUE)>>]
        BY <2>3 DEF ReadPartly
    <3> HIDE DEF shown
    <3> QED BY <3>1
  <2> QED BY <2>1, <2>2, <2>3 DEF Read
<1>3. cmd[p] \in Commands /\ cmd[p].op = "scan" /\ cmd[p].kind \in Kinds /\ cmd[p].floor \in Level
    BY <1>1, CommandType, KindsOfScans DEF OfflineIInv, ProcessOK, StageOK
<1>4. account \subseteq Row
    BY OfflineAssumption DEF OfflineIInv, OfflineTypeOK
<1>5. Faithful(Envelope(p, rows, partial))
  <2>1. rows \subseteq Row
      BY <1>2, <1>4 DEF Shown, Guesses, Debris
  <2>2. Envelope(p, rows, partial) \in Report
      BY <1>3, <1>4, <2>1 DEF Envelope, Report
  <2>3. Truth(Envelope(p, rows, partial)) = shown
      BY DEF Truth, Envelope
  <2> QED BY <1>2, <2>2, <2>3 DEF Faithful, Envelope
<1> HIDE DEF shown
<1>6. OfflineTypeOK'
  <2>1. <<Envelope(p, rows, partial)>> \in Seq(Report)
      BY <1>5 DEF Faithful
  <2>2. held' \in [Proc -> Seq(Report)]
      BY <1>2, <2>1 DEF OfflineIInv, OfflineTypeOK
  <2>3. stage' \in [Proc -> {"scan", "create", "write", "load", "done"}]
      BY <1>1 DEF OfflineIInv, OfflineTypeOK
  <2>4. failures' \in 0 .. MaxFailures
      BY <1>1, OfflineAssumption DEF OfflineIInv, OfflineTypeOK
  <2> QED BY <1>1, <2>2, <2>3, <2>4 DEF OfflineIInv, OfflineTypeOK
<1>7. DiskOK'
    BY <1>1 DEF OfflineIInv, DiskOK
<1>8. /\ cmd'[p] = cmd[p] /\ held'[p] = <<Envelope(p, rows, partial)>> /\ stage'[p] = "create"
      /\ \A q \in Proc : q # p => Still(q)
    BY <1>1, <1>2 DEF OfflineIInv, OfflineTypeOK, Still
<1>9. ProcessOK(p)'
    BY <1>3, <1>5, <1>8 DEF ProcessOK, HeldOK, StageOK, ExitOK, Judged
<1> QED BY <1>6, <1>7, <1>8, <1>9, OneMoves

(* What a command puts into a place is whole or gone.                      *)
LEMMA DiskStep ==
  ASSUME OfflineIInv, NEW place \in Place, NEW r, r \in {Missing, Torn} \/ Faithful(r), disk' = [disk EXCEPT ![place] = r]
  PROVE  DiskOK' /\ disk' \in [Place -> Report \cup {Missing, Torn}]
  BY DEF OfflineIInv, OfflineTypeOK, DiskOK, Faithful

LEMMA CreateInv == ASSUME OfflineIInv, NEW p \in Proc, Create(p) PROVE OfflineIInv'
<1>1. /\ stage[p] = "create" /\ stage' = [stage EXCEPT ![p] = "write"]
      /\ disk' = [disk EXCEPT ![cmd[p].to] = Torn]
      /\ UNCHANGED <<account, accountChanges, failures, started, cmd, held, exit>>
    BY DEF Create, budget
<1>2. cmd[p] \in Commands /\ cmd[p].op = "scan" /\ cmd[p].to \in Place /\ Len(held[p]) = 1
    BY <1>1, CommandType DEF OfflineIInv, ProcessOK, StageOK
<1>3. DiskOK' /\ disk' \in [Place -> Report \cup {Missing, Torn}]
    BY <1>1, <1>2, DiskStep
<1>4. OfflineTypeOK'
    BY <1>1, <1>3 DEF OfflineIInv, OfflineTypeOK
<1>5. cmd'[p] = cmd[p] /\ held'[p] = held[p] /\ stage'[p] = "write" /\ \A q \in Proc : q # p => Still(q)
    BY <1>1 DEF OfflineIInv, OfflineTypeOK, Still
<1>6. ProcessOK(p)'
    BY <1>2, <1>5 DEF OfflineIInv, ProcessOK, HeldOK, StageOK, ExitOK, Judged
<1> QED BY <1>3, <1>4, <1>5, <1>6, OneMoves

(* Writing a report file, saving a baseline: a report that is held is put  *)
(* in its place.                                                           *)
LEMMA PutInv ==
  ASSUME OfflineIInv, NEW p \in Proc, cmd[p].to \in Place, Len(held[p]) = 1, cmd[p].op \in {"scan", "save"},
         disk' = [disk EXCEPT ![cmd[p].to] = held[p][1]], Exit(p, 0),
         UNCHANGED <<account, accountChanges, failures, started, cmd, held>>
  PROVE  OfflineIInv'
<1>1. held[p] \in Seq(Report) /\ 1 \in DOMAIN held[p]
    BY DEF OfflineIInv, OfflineTypeOK
<1>2. DiskOK' /\ disk' \in [Place -> Report \cup {Missing, Torn}]
    BY <1>1, DiskStep DEF OfflineIInv, ProcessOK, HeldOK
<1>3. OfflineTypeOK'
    BY <1>2, ExitStep DEF OfflineIInv, OfflineTypeOK
<1>4. ProcessOK(p)'
    BY ExitStep, EndOK DEF OfflineIInv
<1> QED BY <1>2, <1>3, <1>4, ExitStep, OneMoves DEF OfflineIInv

LEMMA WriteInv == ASSUME OfflineIInv, NEW p \in Proc, Write(p) PROVE OfflineIInv'
<1>1. cmd[p] \in Commands /\ cmd[p].op = "scan" /\ cmd[p].to \in Place /\ Len(held[p]) = 1
    BY CommandType DEF Write, OfflineIInv, ProcessOK, StageOK
<1> QED BY <1>1, PutInv DEF Write, budget

-----------------------------------------------------------------------------
(* The commands that load.                                                 *)

LEMMA LoadInv == ASSUME OfflineIInv, NEW p \in Proc, Load(p) PROVE OfflineIInv'
<1> DEFINE r == NextReport(p)
<1>1. /\ stage[p] = "load" /\ Len(held[p]) < Len(cmd[p].reads) /\ r \notin {Missing, Torn}
      /\ held' = [held EXCEPT ![p] = Append(@, r)]
      /\ UNCHANGED <<account, accountChanges, failures, started, disk, stage, cmd, exit>>
    BY DEF Load, Loading, Keep, budget
<1>2. cmd[p] \in Commands /\ cmd[p].op # "scan" /\ cmd[p].reads \in Seq(Place) /\ held[p] \in Seq(Report)
    BY <1>1, CommandType DEF OfflineIInv, OfflineTypeOK, ProcessOK, StageOK
<1>3. Faithful(r)
  <2>1. cmd[p].reads[Len(held[p]) + 1] \in Place
      BY <1>1, <1>2
  <2> QED BY <1>1, <2>1 DEF NextReport, OfflineIInv, DiskOK
<1> HIDE DEF r
<1>4. OfflineTypeOK'
  <2>1. held' \in [Proc -> Seq(Report)]
      BY <1>1, <1>2, <1>3 DEF OfflineIInv, OfflineTypeOK, Faithful
  <2> QED BY <1>1, <2>1 DEF OfflineIInv, OfflineTypeOK
<1>5. DiskOK'
    BY <1>1 DEF OfflineIInv, DiskOK
<1>6. /\ cmd'[p] = cmd[p] /\ held'[p] = Append(held[p], r) /\ stage'[p] = "load"
      /\ \A q \in Proc : q # p => Still(q)
    BY <1>1 DEF OfflineIInv, OfflineTypeOK, Still
<1>7. ProcessOK(p)'
  <2>1. HeldOK(p)'
    <3>1. \A i \in DOMAIN held'[p] : held'[p][i] = r \/ (i \in DOMAIN held[p] /\ held'[p][i] = held[p][i])
        BY <1>2, <1>3, <1>6 DEF Faithful
    <3> QED BY <1>3, <3>1 DEF OfflineIInv, ProcessOK, HeldOK
  <2>2. Len(held'[p]) = Len(held[p]) + 1
      BY <1>2, <1>6
  <2>3. StageOK(p)'
      BY <1>1, <1>2, <1>6, <2>2 DEF StageOK
  <2> QED BY <1>6, <2>1, <2>3 DEF ProcessOK, ExitOK, Judged
<1> QED BY <1>4, <1>5, <1>6, <1>7, OneMoves

LEMMA LoadFailsInv == ASSUME OfflineIInv, NEW p \in Proc, LoadFails(p) PROVE OfflineIInv'
<1>1. Exit(p, 1) /\ UNCHANGED <<account, accountChanges, failures, started, disk, cmd, held>>
    BY DEF LoadFails, budget
<1>2. OfflineTypeOK'
    BY <1>1, ExitStep DEF OfflineIInv, OfflineTypeOK
<1>3. DiskOK'
    BY <1>1 DEF OfflineIInv, DiskOK
<1>4. ProcessOK(p)'
    BY <1>1, ExitStep, StopOK DEF OfflineIInv
<1> QED BY <1>1, <1>2, <1>3, <1>4, ExitStep, OneMoves DEF OfflineIInv

LEMMA SaveInv == ASSUME OfflineIInv, NEW p \in Proc, Save(p) PROVE OfflineIInv'
<1>1. cmd[p] \in Commands /\ cmd[p].op = "save" /\ cmd[p].to \in Place /\ Len(held[p]) = 1
    BY CommandType DEF Save, Loaded, OfflineIInv, ProcessOK, StageOK
<1> QED BY <1>1, PutInv DEF Save, budget

LEMMA DeleteInv == ASSUME OfflineIInv, NEW p \in Proc, Delete(p) PROVE OfflineIInv'
<1>1. PICK code \in {0, 1} : Exit(p, code)
    BY DEF Delete
<1>2. /\ cmd[p].op = "delete" /\ disk' = [disk EXCEPT ![cmd[p].to] = Missing]
      /\ UNCHANGED <<account, accountChanges, failures, started, cmd, held>>
    BY DEF Delete, budget
<1>3. cmd[p].to \in Place
    BY CommandType DEF Delete, Loaded, OfflineIInv, ProcessOK, StageOK
<1>4. DiskOK' /\ disk' \in [Place -> Report \cup {Missing, Torn}]
    BY <1>2, <1>3, DiskStep
<1>5. OfflineTypeOK'
    BY <1>1, <1>2, <1>4, ExitStep DEF OfflineIInv, OfflineTypeOK
<1>6. ProcessOK(p)'
    BY <1>1, <1>2, ExitStep, EndOK DEF OfflineIInv
<1> QED BY <1>1, <1>2, <1>4, <1>5, <1>6, ExitStep, OneMoves DEF OfflineIInv

-----------------------------------------------------------------------------
(* The two commands that judge what they have loaded.                      *)

LEMMA JudgeInv ==
  ASSUME OfflineIInv, NEW p \in Proc, NEW code \in 0 .. 3, Exit(p, code),
         UNCHANGED <<account, accountChanges, failures, started, disk, cmd, held>>,
         ExitOK(p)'
  PROVE  OfflineIInv'
<1>1. OfflineTypeOK'
    BY ExitStep DEF OfflineIInv, OfflineTypeOK
<1>2. DiskOK'
    BY DEF OfflineIInv, DiskOK
<1>3. HeldOK(p)' /\ StageOK(p)'
    BY ExitStep DEF OfflineIInv, ProcessOK, HeldOK, StageOK
<1> QED BY <1>1, <1>2, <1>3, ExitStep, OneMoves DEF OfflineIInv, ProcessOK

LEMMA CompareInv == ASSUME OfflineIInv, NEW p \in Proc, Compare(p) PROVE OfflineIInv'
<1> DEFINE code == IF \E i \in DOMAIN held[p] : ~Comparable(held[p][i]) THEN 1
                   ELSE IF cmd[p].failOn # "" /\ Unread(p) # {} THEN 3 ELSE 0
<1>1. /\ stage[p] = "load" /\ Len(held[p]) = Len(cmd[p].reads) /\ cmd[p].op = "compare" /\ Exit(p, code)
      /\ UNCHANGED <<account, accountChanges, failures, started, disk, cmd, held>>
    BY DEF Compare, Loaded, budget
<1>2. cmd[p] \in Commands /\ Len(held[p]) = 2
    BY <1>1, CommandType DEF OfflineIInv, ProcessOK, StageOK
<1>3. code \in 0 .. 3
    OBVIOUS
<1>4. Unread(p)' = Unread(p)
    BY <1>1 DEF Unread
<1>5. stage'[p] = "done" /\ exit'[p] = code /\ cmd'[p] = cmd[p] /\ held'[p] = held[p]
    BY <1>1, <1>3, ExitStep DEF OfflineIInv
<1>6. ExitOK(p)'
    BY <1>1, <1>2, <1>4, <1>5 DEF ExitOK, Judged
<1> QED BY <1>1, <1>3, <1>6, JudgeInv

LEMMA ComplyInv == ASSUME OfflineIInv, NEW p \in Proc, Comply(p) PROVE OfflineIInv'
<1> DEFINE code == ComplianceExit(cmd[p].benchmark, Input(p), Unread(p) # {}, cmd[p].failOn)
<1>1. /\ stage[p] = "load" /\ Len(held[p]) = Len(cmd[p].reads) /\ cmd[p].op = "compliance" /\ Exit(p, code)
      /\ UNCHANGED <<account, accountChanges, failures, started, disk, cmd, held>>
    BY DEF Comply, Loaded, budget
<1>2. cmd[p] \in Commands
    BY <1>1 DEF OfflineIInv, ProcessOK, StageOK
<1>3. code \in 0 .. 3
    BY DEF ComplianceExit
<1>4. Unread(p)' = Unread(p) /\ Input(p)' = Input(p)
    BY <1>1 DEF Unread, Input
<1>5. code' = code
    BY <1>1, <1>4
<1> HIDE DEF code
<1>6. stage'[p] = "done" /\ exit'[p] = code /\ cmd'[p] = cmd[p] /\ held'[p] = held[p]
    BY <1>1, <1>3, ExitStep DEF OfflineIInv
<1>7. ExitOK(p)'
    BY <1>1, <1>2, <1>5, <1>6 DEF ExitOK, Judged, code
<1> QED BY <1>1, <1>3, <1>7, JudgeInv

LEMMA OfflineNextInv == OfflineIInv /\ [OfflineNext]_offlineVars => OfflineIInv'
<1> SUFFICES ASSUME OfflineIInv, [OfflineNext]_offlineVars PROVE OfflineIInv'
    OBVIOUS
<1>1. ASSUME NEW p \in Proc, Process(p) PROVE OfflineIInv'
    BY <1>1, StartInv, StopInv, ReadInv, CreateInv, WriteInv, LoadInv, LoadFailsInv, SaveInv, DeleteInv,
       CompareInv, ComplyInv DEF Process
<1>2. CASE World
    BY <1>2, WorldInv
<1>3. CASE UNCHANGED offlineVars
  <2>1. UNCHANGED <<account, accountChanges, failures, started, disk, stage, cmd, held, exit>>
      BY <1>3 DEF offlineVars, budget
  <2>2. OfflineTypeOK'
      BY <2>1 DEF OfflineIInv, OfflineTypeOK
  <2> QED BY <2>1, <2>2, NoneMoves
<1> QED BY <1>1, <1>2, <1>3 DEF OfflineNext, Finished

(* The invariant: every saved report stays faithful to the account its     *)
(* scan read, and an exit code to the reports that were held.              *)
THEOREM OfflineInvariance == OfflineSpec => []OfflineIInv
  BY OfflineInitInv, OfflineNextInv, PTL DEF OfflineSpec

(* Every variable keeps the type the code gives it, whichever commands run *)
(* at once and wherever they are stopped.                                  *)
THEOREM OfflineTypeCorrect == OfflineSpec => []OfflineTypeOK
<1>1. OfflineIInv => OfflineTypeOK
    BY DEF OfflineIInv
<1> QED BY <1>1, OfflineInvariance, PTL

-----------------------------------------------------------------------------
(* Comparison.  What is gone and what is new, of the keys of two readings. *)

LEMMA DiffKeys ==
  ASSUME NEW base, NEW current
  PROVE  /\ Keys(ButRules(Diff(base, current).resolved)) = Keys(ButRules(base)) \ Keys(ButRules(current))
         /\ Keys(ButRules(Diff(base, current).new)) = Keys(ButRules(current)) \ Keys(ButRules(base))
<1>1. Diff(base, current).resolved = {row \in base : MatchKey(row) \notin Keys(current)}
      /\ Diff(base, current).new = {row \in current : MatchKey(row) \notin Keys(base)}
    BY DEF Diff
<1>2. \A one, other : MatchKey(one) = MatchKey(other) => (IsRule(one) <=> IsRule(other))
    BY DEF MatchKey, IsRule
<1>3. ASSUME NEW A, NEW B
      PROVE  Keys(ButRules({row \in A : MatchKey(row) \notin Keys(B)})) = Keys(ButRules(A)) \ Keys(ButRules(B))
  <2>1. \A row : ~IsRule(row) => (MatchKey(row) \in Keys(B) <=> MatchKey(row) \in Keys(ButRules(B)))
      BY <1>2 DEF Keys, ButRules
  <2> QED BY <2>1 DEF Keys, ButRules
<1> QED BY <1>1, <1>3

(* Nothing about this differs between a reading and what there was to read *)
(* when no entry qualifies it.                                             *)
LEMMA ButRulesOfWhole ==
  ASSUME NEW r, Faithful(r), ~r.partial
  PROVE  ButRules(Normalized(r.rows)) = ButRules(Normalized(Truth(r)))
<1>1. PICK refused \in SUBSET Shown(r.kind, r.floor, Debris) : r.rows = Misread(Truth(r), refused)
    BY DEF Faithful
<1>2. refused \in SUBSET Debris
    BY <1>1 DEF Shown
<1>3. ButRules(r.rows) = ButRules(Truth(r))
    BY <1>1, <1>2, MisreadRules
<1>4. \A rows : ButRules(Normalized(rows)) = Normalized(ButRules(rows))
    BY DEF ButRules, Normalized
<1> QED BY <1>3, <1>4

(* A comparison without an incomplete entry, or past its gate, says what   *)
(* happened to the account between the two scans.                          *)
THEOREM ComparisonsAreEvidence == OfflineSpec => []ComparisonIsEvidence
<1>1. ASSUME OfflineIInv, NEW p \in Proc, Judged(p, "compare"),
             Unread(p) = {} \/ (cmd[p].failOn # "" /\ exit[p] = 0)
      PROVE  IsTheDifference(held[p][1], held[p][2])
  <2>1. DOMAIN held[p] = {1, 2}
    <3>1. held[p] \in Seq(Report)
        BY <1>1 DEF OfflineIInv, OfflineTypeOK
    <3>2. Len(held[p]) = 2
        BY <1>1 DEF OfflineIInv, ProcessOK, ExitOK
    <3> QED BY <3>1, <3>2
  <2>2. Unread(p) = {}
    <3>1. Unread(p) = {} \/ cmd[p].failOn = "" \/ exit[p] = 3
        BY <1>1 DEF OfflineIInv, ProcessOK, ExitOK
    <3>2. exit[p] = 3 => exit[p] # 0
        OBVIOUS
    <3> QED BY <1>1, <3>1, <3>2, Zenon
  <2>3. \A i \in {1, 2} : Faithful(held[p][i]) /\ ~held[p][i].partial
    <3>1. \A i \in {1, 2} : Faithful(held[p][i])
        BY <1>1, <2>1, Zenon DEF OfflineIInv, ProcessOK, HeldOK
    <3> QED BY <2>1, <2>2, <3>1 DEF Unread
  <2>4. \A i \in {1, 2} : ButRules(Normalized(held[p][i].rows)) = ButRules(Normalized(Truth(held[p][i])))
      BY <2>3, ButRulesOfWhole
  <2> QED BY <2>4, DiffKeys DEF IsTheDifference
<1>2. OfflineIInv => ComparisonIsEvidence
    BY <1>1 DEF ComparisonIsEvidence
<1> QED BY <1>2, OfflineInvariance, PTL

-----------------------------------------------------------------------------
(* Compliance.  A report given for its own domain is all a slot holds.     *)

LEMMA SlotsOfReports == \A kind \in Slots : kind \in ByFinding \cup {"iam"}
  BY DEF Slots, ByFinding

LEMMA InputOfProper ==
  ASSUME OfflineIInv, NEW p \in Proc, Judged(p, "compliance"), NEW i \in DOMAIN held[p], Proper(p, i)
  PROVE  held[p][i].kind \in Slots /\ Input(p)[held[p][i].kind] = held[p][i].rows
<1>1. /\ cmd[p] \in Commands /\ Len(held[p]) = Len(cmd[p].reads) /\ cmd[p].op = "compliance"
      /\ held[p] \in Seq(Report)
    BY DEF OfflineIInv, OfflineTypeOK, ProcessOK, ExitOK, Judged
<1>2. /\ cmd[p].slots \in Seq(Slots) /\ DOMAIN cmd[p].slots = DOMAIN held[p]
      /\ \A k, j \in DOMAIN cmd[p].slots : cmd[p].slots[k] = cmd[p].slots[j] => k = j
    BY <1>1, CommandType
<1> DEFINE slot == cmd[p].slots[i]
<1>3. slot \in Slots /\ held[p][i].kind = slot
    BY <1>2 DEF Proper
<1>4. {j \in DOMAIN held[p] : cmd[p].slots[j] = slot} = {i}
    BY <1>2
<1>5. Input(p)[slot] = UNION {Findings(held[p][k]) : k \in {j \in DOMAIN held[p] : cmd[p].slots[j] = slot}}
    BY <1>3 DEF Input
<1>6. Input(p)[slot] = Findings(held[p][i])
    BY <1>4, <1>5
<1>7. Findings(held[p][i]) = held[p][i].rows
    BY <1>3, SlotsOfReports DEF Findings
<1> QED BY <1>3, <1>6, <1>7

(* What a verdict says of the findings of the control's domain.            *)
LEMMA VerdictOf ==
  ASSUME NEW control, NEW input
  PROVE  LET rows == input[control.slot]
             failing == {row \in rows : control.slot = "tags" \/ row.type \in control.fails}
         IN  /\ Verdict(control, input) = "PASS" => failing = {}
             /\ Verdict(control, input) = "FAIL" <=> failing # {}
<1> DEFINE rows == input[control.slot]
<1>1. CASE rows = {}
    BY <1>1 DEF Verdict
<1>2. CASE rows # {} /\ control.slot = "tags"
    BY <1>2 DEF Verdict
<1>3. CASE rows # {} /\ control.slot # "tags"
    BY <1>3 DEF Verdict
<1> QED BY <1>1, <1>2, <1>3

(* The controls that fail by something unused fail by nothing else.        *)
LEMMA StaleControls ==
  ASSUME NEW benchmark, NEW control \in Evaluated(benchmark), NEW type \in Stale, type \in control.fails
  PROVE  control.fails = Stale
<1>1. control \in CisEvaluated \/ control \in Soc2Evaluated
    BY DEF Evaluated
<1>2. control.fails \in {Stale, Broad, {"ADMIN_ACCESS"}, {"UNENCRYPTED"}, {"PUBLIC_ACCESS"}, {"NO_LOGGING"},
                         {"ADMIN_PORT_OPEN"}, {"EXPIRED", "EXPIRING_7D"}, {"PUBLIC_ACL"}, {}}
  <2>1. CASE control \in CisEvaluated
      BY <2>1 DEF CisEvaluated, Control
  <2>2. CASE control \in Soc2Evaluated
      BY <2>2 DEF Soc2Evaluated, Control
  <2> QED BY <1>1, <2>1, <2>2
<1> QED BY <1>2 DEF Stale, Broad

(* A control that passes rests on a whole reading that shows nothing       *)
(* against it, or an entry names the reading; one that fails rests on a    *)
(* finding that was there, or is about what goes unused and an entry names *)
(* the reading.                                                            *)
THEOREM VerdictsRestOnEvidence == OfflineSpec => []VerdictsAreEvidence
<1>1. ASSUME OfflineIInv, NEW p \in Proc, Judged(p, "compliance"), NEW i \in DOMAIN held[p], Proper(p, i),
             NEW control \in Evaluated(cmd[p].benchmark), control.slot = held[p][i].kind
      PROVE  /\ Verdict(control, Input(p)) = "PASS" /\ i \notin Unread(p) => ~Shows(held[p][i], control)
             /\ Verdict(control, Input(p)) = "FAIL" =>
                  Shows(held[p][i], control) \/ (control.fails = Stale /\ i \in Unread(p))
  <2> DEFINE r == held[p][i]
             failing == {row \in r.rows : control.slot = "tags" \/ row.type \in control.fails}
  <2>1. r.kind \in Slots /\ Input(p)[control.slot] = r.rows
      BY <1>1, InputOfProper
  <2>2. Faithful(r)
      BY <1>1 DEF OfflineIInv, ProcessOK, HeldOK
  <2>3. i \notin Unread(p) => r.rows = Truth(r)
      BY <2>1, <2>2, WholeOfSlot DEF Unread
  <2>4. /\ Verdict(control, Input(p)) = "PASS" => failing = {}
        /\ Verdict(control, Input(p)) = "FAIL" <=> failing # {}
      BY <2>1, VerdictOf
  <2>5. ASSUME NEW row \in failing
        PROVE  Shows(r, control) \/ (control.fails = Stale /\ i \in Unread(p))
    <3>1. CASE row \in Truth(r)
        BY <3>1 DEF Shows
    <3>2. CASE row \notin Truth(r)
      <4>1. r.kind = "iam" /\ row.type \in Stale /\ i \in Unread(p)
          BY <2>1, <2>2, <2>3, <3>2, GuessOfSlot
      <4>2. row.type \in control.fails
          BY <1>1, <4>1
      <4> QED BY <4>1, <4>2, StaleControls
    <3> QED BY <3>1, <3>2
  <2>6. i \notin Unread(p) /\ failing = {} => ~Shows(r, control)
      BY <2>3 DEF Shows
  <2> HIDE DEF failing, r
  <2> QED BY <2>4, <2>5, <2>6 DEF r
<1>2. OfflineIInv => VerdictsAreEvidence
    BY <1>1 DEF VerdictsAreEvidence
<1> QED BY <1>2, OfflineInvariance, PTL

(* Every benchmark has a control no scan can answer.                       *)
LEMMA NeverDecided == \A benchmark, input : Undecided(benchmark, input)
<1>1. "1.4" \in CisUncollected /\ "CC1.1" \in Soc2Uncollected
    BY DEF CisUncollected, Soc2Uncollected
<1> QED BY <1>1 DEF Undecided, Uncollected

(* A gated benchmark ends 2 or 3, and 2 when a whole reading fails one of  *)
(* its controls at the threshold.                                          *)
THEOREM BenchmarkGated == OfflineSpec => []BenchmarkGateHolds
<1>1. ASSUME OfflineIInv, NEW p \in Proc, Judged(p, "compliance"), cmd[p].failOn # ""
      PROVE  /\ exit[p] \in {2, 3}
             /\ Tripped(cmd[p].benchmark, Input(p), cmd[p].failOn) => exit[p] = 2
    BY <1>1, NeverDecided DEF OfflineIInv, ProcessOK, ExitOK, ComplianceExit
<1>2. ASSUME OfflineIInv, NEW p \in Proc, Judged(p, "compliance"), cmd[p].failOn # "",
             NEW i \in DOMAIN held[p], Proper(p, i), i \notin Unread(p),
             NEW control \in Evaluated(cmd[p].benchmark), control.slot = held[p][i].kind,
             Shows(held[p][i], control), AtLeast(control.severity, cmd[p].failOn)
      PROVE  Tripped(cmd[p].benchmark, Input(p), cmd[p].failOn)
  <2>1. held[p][i].kind \in Slots /\ Input(p)[control.slot] = held[p][i].rows
      BY <1>2, InputOfProper
  <2>2. held[p][i].rows = Truth(held[p][i])
    <3>1. Faithful(held[p][i]) /\ ~held[p][i].partial
        BY <1>2 DEF OfflineIInv, ProcessOK, HeldOK, Unread
    <3> QED BY <2>1, <3>1, WholeOfSlot
  <2>3. \E row \in Input(p)[control.slot] : control.slot = "tags" \/ row.type \in control.fails
      BY <1>2, <2>1, <2>2 DEF Shows
  <2>4. Verdict(control, Input(p)) = "FAIL"
      BY <2>3, VerdictOf
  <2>5. control \in WithVerdict(cmd[p].benchmark, Input(p), "FAIL")
      BY <2>4 DEF WithVerdict
  <2> QED BY <1>2, <2>5 DEF Tripped
<1>3. OfflineIInv => BenchmarkGateHolds
    BY <1>1, <1>2 DEF BenchmarkGateHolds
<1> QED BY <1>3, OfflineInvariance, PTL
================================================================================
