----------------------------- MODULE PlatformAudit -----------------------------
(***************************************************************************)
(* cloudgov platform audit: Audit (internal/platform/audit.go) lists the   *)
(* Platform resources once and then asks, platform by platform, for the    *)
(* objects each of them should have - in the cluster, and in AWS when      *)
(* there are credentials (internal/cloud/aws/platform_iam.go).             *)
(*                                                                         *)
(* What an object should be is taken from the listed resource, and what it *)
(* is from a later call.  Meanwhile the operator goes on reconciling, the  *)
(* kill-switch suspends and resumes tenants, and people change things by   *)
(* hand.  A call that fails is no verdict: it becomes a note, which no     *)
(* severity filter touches and the exit code answers for.                  *)
(***************************************************************************)
EXTENDS Severity, Sequences

CONSTANTS
  Listing,        \* the platforms, in the order the API server lists them
  Deployments,    \* the states all the platforms may be in at first
  Becomes(_),     \* what a platform may become in one step
  Floors,         \* the --severity values given
  Gates,          \* the --fail-on values given, "" for none
  Extra, ByHand,  \* an extraPolicyArn; an inline policy of nobody's making
  MaxChanges,     \* bound: how often a platform changes
  MaxFaults       \* bound: how many calls fail

Platform == {Listing[i] : i \in DOMAIN Listing}

(* Two of the managed policies of a tenant role, and the inline policies   *)
(* the operator writes.                                                    *)
BaselinePolicy == "baseline"
Managed == {BaselinePolicy, Extra}
operatorInlinePolicies == {"bedrock-model-scoping", "datastore-access"}

(* A Platform resource as listed: whether iamRoleArn is set, what          *)
(* status.podIdentity publishes (the binding; one without the cluster's    *)
(* name; nothing, and the ServiceAccount has its default name; nothing, on *)
(* a vcluster).                                                            *)
Declaration ==
  [phase : {"Ready", "Suspended", "Provisioning"}, suspended : BOOLEAN, role : BOOLEAN, boundary : BOOLEAN,
   binding : {"published", "clusterless", "default", "unknown"}, models : {"one", "both", "neither"},
   budget : BOOLEAN, tenant : BOOLEAN, soc2 : BOOLEAN, hipaa : BOOLEAN, extras : SUBSET {Extra}]

Role == [there : BOOLEAN, trust : {"pods", "web", "other"}, boundary : {"none", "published", "other"}, tagged : BOOLEAN]

(* A platform: what it declares and what there is of it.                   *)
State ==
  [cr : Declaration,
   budget : {"gone", "armed", "disarmed"}, tenant : {"gone", "lax", "soc2", "hipaa"},
   gateways : {"guarded", "inheriting"},
   namespace : {"gone", "restricted", "loose", "unlabelled"},
   quota : {"gone", "there"}, limits : {"gone", "there"},
   netpol : {"gone", "tight", "weak"}, cilium : {"gone", "tight", "weak"},
   sa : {"gone", "clean", "annotated"},
   role : Role, attached : SUBSET Managed, inline : SUBSET (operatorInlinePolicies \cup {ByHand}),
   association : {"gone", "own", "foreign"}]

ASSUME PlatformAssumption ==
  /\ Listing \in Seq(Platform)
  /\ \A i, j \in DOMAIN Listing : Listing[i] = Listing[j] => i = j
  /\ Deployments \subseteq [Platform -> State]
  /\ Floors \subseteq Level \cup {"typo"} /\ Gates \subseteq Level \cup {""}
  /\ Extra \notin {BaselinePolicy, ByHand} /\ ByHand \notin operatorInlinePolicies
  /\ MaxChanges \in Nat /\ MaxFaults \in Nat

VARIABLES
  deployed,    \* the platforms
  seen,        \* history: every state a platform was in while the audit ran
  changes, faults,
  roles,       \* whether AWS credentials were detected
  floor, failOn,  \* --severity and --fail-on, chosen where they are first read
  pc,          \* where the command stands
  listed,      \* the Platform resources, as listed
  queue,       \* the platforms still to be audited, the first one first
  call,        \* the call its audit is about to make
  info,        \* what has been read of its role
  findings, notes,
  incomplete,  \* the run's incomplete list
  report,      \* the output file: its findings, and its incomplete list
  exitCode

vars == <<deployed, seen, changes, faults, roles, floor, failOn, pc, listed, queue, call, info, findings, notes, incomplete, report, exitCode>>

-----------------------------------------------------------------------------
(* The verdicts.  A finding is a type and a severity; which object of the  *)
(* platform it names follows from the type.                                *)
Finding(type, severity) == [type |-> type, severity |-> severity]
When(broken, type, severity) == IF broken THEN {Finding(type, severity)} ELSE {}

auditIdentity(cr) == When(cr.models # "one", "IDENTITY_INVALID", "MEDIUM")

BudgetVerdict(cr, budget) ==
  IF ~cr.budget THEN {Finding("BUDGET_POLICY_MISSING", "MEDIUM")}
  ELSE When(budget = "gone", "BUDGET_POLICY_MISSING", "HIGH")
       \cup When(budget = "disarmed" /\ cr.soc2, "KILL_SWITCH_DISABLED", "HIGH")

TenantVerdict(cr, tenant) ==
  IF ~cr.tenant THEN {}
  ELSE When(tenant = "gone", "TENANT_MISSING", "LOW")
       \cup When((tenant = "soc2" /\ ~cr.soc2) \/ (tenant = "hipaa" /\ ~cr.hipaa), "COMPLIANCE_WEAKER_THAN_TENANT", "HIGH")

GatewayVerdict(cr, gateways) == When(cr.hipaa /\ gateways = "inheriting", "HIPAA_GUARDRAIL_INHERITED", "HIGH")

NamespaceVerdict(namespace) ==
  When(namespace = "gone", "NAMESPACE_MISSING", "CRITICAL")
  \cup When(namespace = "loose", "PSS_NOT_RESTRICTED", "HIGH")
  \cup When(namespace = "unlabelled", "LABEL_MISSING", "LOW")

QuotaVerdict(quota)  == When(quota = "gone", "RESOURCE_QUOTA_MISSING", "HIGH")
LimitVerdict(limits) == When(limits = "gone", "LIMIT_RANGE_MISSING", "MEDIUM")

(* The operator writes one of two kinds of egress policy.                  *)
NetworkVerdict(netpol, cilium) ==
  When(netpol = "gone" /\ cilium = "gone", "NETWORK_POLICY_MISSING", "CRITICAL")
  \cup When(netpol = "weak" \/ (netpol = "gone" /\ cilium = "weak"), "NETWORK_POLICY_WEAK", "HIGH")

Derivable(cr) == cr.binding # "unknown"

AccountVerdict(cr, sa) ==
  IF ~Derivable(cr) THEN {}
  ELSE When(sa = "gone", "SERVICE_ACCOUNT_MISSING", "HIGH")
       \cup When(sa = "annotated", "SERVICE_ACCOUNT_ANNOTATED", "MEDIUM")

(* auditTrustPolicy, auditPermissionsBoundary and the suspension tag, of   *)
(* GetRole; the attached policies; auditInlinePolicies.  The operator      *)
(* writes no policy for a suspended tenant, and its policies are not       *)
(* judged.                                                                 *)
RoleVerdict(cr, role, attached, inline) ==
  IF ~role.there THEN {Finding("TENANT_ROLE_MISSING", "CRITICAL")}
  ELSE When(role.trust # "pods", "TENANT_ROLE_TRUST_MISMATCH", "HIGH")
       \cup When(role.boundary = "none", "TENANT_ROLE_PERMISSIONS_BOUNDARY_MISSING", "CRITICAL")
       \cup When(role.boundary = "other" /\ cr.boundary, "TENANT_ROLE_PERMISSIONS_BOUNDARY_MISMATCH", "CRITICAL")
       \cup When(role.tagged # cr.suspended, "TENANT_ROLE_SUSPENSION_DRIFT", "HIGH")
       \cup When(~(cr.extras \subseteq attached), "TENANT_ROLE_EXTRA_POLICY_MISSING", "MEDIUM")
       \cup When(~cr.suspended /\ attached = {}, "TENANT_ROLE_NO_BASELINE", "HIGH")
       \cup When(~cr.suspended /\ ~(inline \subseteq operatorInlinePolicies), "TENANT_ROLE_INLINE_POLICY_UNEXPECTED", "HIGH")
       \cup When(~cr.suspended /\ "bedrock-model-scoping" \notin inline, "TENANT_ROLE_MODEL_SCOPING_MISSING", "HIGH")

AssociationVerdict(cr, association) ==
  IF cr.binding # "published" THEN {}
  ELSE When(association = "gone", "POD_IDENTITY_ASSOCIATION_MISSING", "HIGH")
       \cup When(association = "foreign", "POD_IDENTITY_ASSOCIATION_MISMATCH", "CRITICAL")

Settled(cr) == cr.phase \in {"Ready", "Suspended"}

-----------------------------------------------------------------------------
NoRole == [role |-> [there |-> FALSE, trust |-> "other", boundary |-> "none", tagged |-> FALSE], attached |-> {}]

Unwritten == [written |-> FALSE, findings |-> {}, incomplete |-> {}]

Init ==
  /\ deployed \in Deployments /\ seen = [p \in Platform |-> {deployed[p]}]
  /\ changes = 0 /\ faults = 0
  /\ roles \in BOOLEAN /\ floor = "LOW" /\ failOn = ""
  /\ pc = "list"
  /\ listed = [p \in Platform |-> deployed[p].cr]
  /\ queue = <<>> /\ call = "none" /\ info = NoRole
  /\ findings = [p \in Platform |-> {}] /\ notes = [p \in Platform |-> {}]
  /\ incomplete = {} /\ report = Unwritten /\ exitCode = 0

(* The operator, the kill-switch, someone by hand.                         *)
Change(p) ==
  /\ pc \in {"list", "audit"} /\ changes < MaxChanges
  /\ \E next \in (Becomes(deployed[p]) \cap State) \ {deployed[p]} :
       /\ deployed' = [deployed EXCEPT ![p] = next]
       /\ seen' = [seen EXCEPT ![p] = @ \cup {next}]
  /\ changes' = changes + 1
  /\ UNCHANGED <<faults, roles, floor, failOn, pc, listed, queue, call, info, findings, notes, incomplete, report, exitCode>>

live  == <<deployed, seen, changes, roles>>
ended == <<floor, failOn, incomplete, report, exitCode>>

Refused == faults < MaxFaults /\ faults' = faults + 1

List ==
  /\ pc = "list"
  /\ \/ /\ listed' = [p \in Platform |-> deployed[p].cr]
        /\ queue' = Listing
        /\ pc' = IF Listing = <<>> THEN "filter" ELSE "audit"
        /\ call' = "begin"
        /\ UNCHANGED <<faults, exitCode>>
     \/ Refused /\ pc' = "over" /\ exitCode' = 1 /\ UNCHANGED <<listed, queue, call>>
  /\ UNCHANGED <<live, floor, failOn, info, findings, notes, incomplete, report>>

-----------------------------------------------------------------------------
(* auditPlatform, of the platform at the head of the queue.                *)
p0 == Head(queue)
cr0 == listed[p0]
now == deployed[p0]

At(c) == pc = "audit" /\ call = c

Tell(found, noted) ==
  /\ findings' = [findings EXCEPT ![p0] = @ \cup found]
  /\ notes' = [notes EXCEPT ![p0] = @ \cup noted]

Go(next) == call' = next /\ UNCHANGED <<pc, queue>>

(* Seeded fault: the loop does not see that it has taken the last one.      *)
NextPlatformAlways == queue' = Tail(queue) /\ call' = "begin" /\ UNCHANGED pc

(* The platform's audit is done.                                           *)
NextPlatform ==
  /\ queue' = Tail(queue) /\ call' = "begin"
  /\ pc' = IF Tail(queue) = <<>> THEN "filter" ELSE "audit"

Answered == UNCHANGED faults

Rest == UNCHANGED <<live, listed, ended>>

(* A call that settles one question, and leaves a note when it fails.      *)
Check(c, verdict, next) ==
  /\ At(c)
  /\ \/ Answered /\ Tell(verdict, {})
     \/ Refused /\ Tell({}, {c})
  /\ Go(next) /\ UNCHANGED info /\ Rest

(* A call that the declaration gives no reason to make.                    *)
Skip(c, found, next) ==
  At(c) /\ Answered /\ Tell(found, {}) /\ Go(next) /\ UNCHANGED info /\ Rest

Begin == Skip("begin", auditIdentity(cr0), "budget")

AuditBudgetPolicy ==
  \/ cr0.budget /\ Check("budget", BudgetVerdict(cr0, now.budget), "tenant")
  \/ ~cr0.budget /\ Skip("budget", BudgetVerdict(cr0, now.budget), "tenant")

AuditTenant ==
  \/ cr0.tenant /\ Check("tenant", TenantVerdict(cr0, now.tenant), "gateways")
  \/ ~cr0.tenant /\ Skip("tenant", {}, "gateways")

(* Seeded fault: gateways that could not be listed are a LOW finding alone, *)
(* which the severity filter drops.                                         *)
AuditHipaaGuardrailsUnnoted ==
  /\ At("gateways")
  /\ \/ Answered /\ Tell(GatewayVerdict(cr0, now.gateways), {})
     \/ cr0.hipaa /\ Refused /\ Tell({Finding("HIPAA_GUARDRAIL_INHERITED", "LOW")}, {})
  /\ Go("phase") /\ UNCHANGED info /\ Rest

auditHipaaGuardrails ==
  /\ At("gateways")
  /\ \/ Answered /\ Tell(GatewayVerdict(cr0, now.gateways), {})
     \/ cr0.hipaa /\ Refused /\ Tell({Finding("HIPAA_GUARDRAIL_INHERITED", "LOW")}, {"gateways"})
  /\ Go("phase") /\ UNCHANGED info /\ Rest

Phase ==
  \/ Settled(cr0) /\ Skip("phase", {}, "namespace")
  \/ /\ ~Settled(cr0) /\ At("phase") /\ Answered
     /\ Tell({Finding("NOT_READY", "INFO")}, {"phase"})
     /\ NextPlatform /\ UNCHANGED info /\ Rest

AuditNamespace ==
  /\ At("namespace")
  /\ \/ /\ Answered /\ Tell(NamespaceVerdict(now.namespace), {})
        /\ IF now.namespace = "gone" THEN NextPlatform ELSE Go("quota")
     \/ Refused /\ Tell({Finding("NOT_READY", "INFO")}, {"namespace"}) /\ NextPlatform
  /\ UNCHANGED info /\ Rest

AuditQuota  == Check("quota", QuotaVerdict(now.quota), "limits")
AuditLimits == Check("limits", LimitVerdict(now.limits), "netpol")

(* The other kind is asked for only when this one is not there; either     *)
(* call failing leaves egress unchecked.                                   *)
auditNetworkPolicy ==
  /\ At("netpol")
  /\ \/ Answered /\ Tell(NetworkVerdict(now.netpol, "tight"), {}) /\ Go(IF now.netpol = "gone" THEN "cilium" ELSE "sa")
     \/ Refused /\ Tell({}, {"netpol"}) /\ Go("sa")
  /\ UNCHANGED info /\ Rest

auditCiliumNetworkPolicy == Check("cilium", NetworkVerdict("gone", now.cilium), "sa")

(* The AWS half, when there are credentials and a role to ask about.       *)
AskAWS == roles /\ cr0.role

AuditAccount(found, noted) ==
  /\ Tell(found, noted)
  /\ IF AskAWS THEN Go("role") ELSE NextPlatform

auditServiceAccount ==
  /\ At("sa")
  /\ \/ ~Derivable(cr0) /\ Answered /\ AuditAccount({Finding("POD_IDENTITY_BINDING_UNKNOWN", "INFO")}, {})
     \/ Derivable(cr0) /\ Answered /\ AuditAccount(AccountVerdict(cr0, now.sa), {})
     \/ Derivable(cr0) /\ Refused /\ AuditAccount({}, {"sa"})
  /\ UNCHANGED info /\ Rest

(* GetRoleInfo: the role, its attached policies, its inline policies; a    *)
(* role that goes away between the calls is an error and not a verdict.    *)
RoleUnread == Tell({Finding("NOT_READY", "INFO")}, {"role"}) /\ Go("association") /\ info' = NoRole

GetRole ==
  /\ At("role")
  /\ \/ /\ now.role.there /\ Answered
        /\ info' = [info EXCEPT !.role = now.role]
        /\ Go("attached") /\ UNCHANGED <<findings, notes>>
     \/ /\ ~now.role.there /\ Answered
        /\ Tell(RoleVerdict(cr0, now.role, {}, {}), {})
        /\ Go("association") /\ UNCHANGED info
     \/ Refused /\ RoleUnread
  /\ Rest

ListAttachedRolePolicies ==
  /\ At("attached")
  /\ \/ /\ now.role.there /\ Answered
        /\ info' = [info EXCEPT !.attached = now.attached]
        /\ Go("inline") /\ UNCHANGED <<findings, notes>>
     \/ (Refused \/ (~now.role.there /\ Answered)) /\ RoleUnread
  /\ Rest

(* auditRole's verdicts wait for the last call.  A boundary that the       *)
(* Platform does not publish cannot be told from another one.              *)
ListRolePolicies ==
  /\ At("inline")
  /\ \/ /\ now.role.there /\ Answered
        /\ Tell(RoleVerdict(cr0, info.role, info.attached, now.inline),
                IF info.role.boundary # "none" /\ ~cr0.boundary THEN {"boundary"} ELSE {})
        /\ Go("association") /\ info' = NoRole
     \/ (Refused \/ (~now.role.there /\ Answered)) /\ RoleUnread
  /\ Rest

AssociationUnread == Tell({Finding("NOT_READY", "INFO")}, {"association"}) /\ NextPlatform

(* Seeded fault: a cluster that this client cannot see has no association.  *)
ListPodIdentityAssociationsElsewhere ==
  /\ At("association") /\ cr0.binding = "published"
  /\ \/ Answered /\ now.association # "gone" /\ Go("describe") /\ Tell({}, {})
     \/ (Refused \/ (Answered /\ now.association = "gone"))
        /\ Tell(AssociationVerdict(cr0, "gone"), {}) /\ NextPlatform
  /\ UNCHANGED info /\ Rest

(* GetPodIdentityAssociation: the listing names the association, and a     *)
(* second call the role it binds.                                          *)
ListPodIdentityAssociations ==
  /\ At("association")
  /\ \/ /\ cr0.binding # "published" /\ Answered
        /\ Tell({Finding("POD_IDENTITY_BINDING_UNKNOWN", "INFO")}, {"association"})
        /\ NextPlatform
     \/ /\ cr0.binding = "published" /\ Answered
        /\ IF now.association = "gone"
             THEN Tell(AssociationVerdict(cr0, "gone"), {}) /\ NextPlatform
             ELSE Tell({}, {}) /\ Go("describe")
     \/ cr0.binding = "published" /\ Refused /\ AssociationUnread
  /\ UNCHANGED info /\ Rest

DescribePodIdentityAssociation ==
  /\ At("describe")
  /\ \/ /\ now.association # "gone" /\ Answered
        /\ Tell(AssociationVerdict(cr0, now.association), {}) /\ NextPlatform
     \/ (Refused \/ (now.association = "gone" /\ Answered)) /\ AssociationUnread
  /\ UNCHANGED info /\ Rest

AuditPlatform ==
  /\ pc = "audit"
  /\ \/ Begin \/ AuditBudgetPolicy \/ AuditTenant \/ auditHipaaGuardrails \/ Phase
     \/ AuditNamespace \/ AuditQuota \/ AuditLimits
     \/ auditNetworkPolicy \/ auditCiliumNetworkPolicy \/ auditServiceAccount
     \/ GetRole \/ ListAttachedRolePolicies \/ ListRolePolicies
     \/ ListPodIdentityAssociations \/ DescribePodIdentityAssociation

-----------------------------------------------------------------------------
Kept(level) == UNION {{p} \X {f \in findings[p] : AtLeast(f.severity, level)} : p \in Platform}

Noted == UNION {{p} \X notes[p] : p \in Platform}

NoCredentials == <<"aws", "credentials">>

(* Seeded fault: what the auditor could not read is left to its findings.   *)
GateFindingsOnly ==
  /\ pc = "filter" /\ floor' \in Floors \cap Level /\ failOn' \in Gates
  /\ incomplete' = IF roles THEN {} ELSE {NoCredentials}
  /\ exitCode' = CASE failOn' # "" /\ \E f \in Kept(floor') : AtLeast(f[2].severity, failOn') -> 2
                   [] failOn' # "" /\ incomplete' # {} -> 3
                   [] OTHER -> 0
  /\ pc' = "write"
  /\ UNCHANGED <<live, faults, listed, queue, call, info, findings, notes, report>>

(* The severity filter - a word that is not a level fails here, with the   *)
(* audit done -, then gate and gateIncomplete.                             *)
Gate ==
  /\ pc = "filter" /\ floor' \in Floors /\ failOn' \in Gates
  /\ IF floor' \notin Level
       THEN exitCode' = 1 /\ pc' = "over" /\ UNCHANGED incomplete
       ELSE /\ incomplete' = Noted \cup (IF roles THEN {} ELSE {NoCredentials})
            /\ exitCode' = CASE failOn' # "" /\ \E f \in Kept(floor') : AtLeast(f[2].severity, failOn') -> 2
                             [] failOn' # "" /\ incomplete' # {} -> 3
                             [] OTHER -> 0
            /\ pc' = "write"
  /\ UNCHANGED <<live, faults, listed, queue, call, info, findings, notes, report>>

WriteReport ==
  /\ pc = "write" /\ pc' = "over"
  /\ \/ /\ report' = [written |-> TRUE, findings |-> Kept(floor), incomplete |-> incomplete]
        /\ UNCHANGED <<faults, exitCode>>
     \/ Refused /\ exitCode' = 1 /\ UNCHANGED report
  /\ UNCHANGED <<live, floor, failOn, listed, queue, call, info, findings, notes, incomplete>>

runPlatformAudit == List \/ AuditPlatform \/ Gate \/ WriteReport

Over == pc = "over" /\ UNCHANGED vars

Next == (\E p \in Platform : Change(p)) \/ runPlatformAudit \/ Over

Spec == Init /\ [][Next]_vars

-----------------------------------------------------------------------------
Note == {"budget", "tenant", "gateways", "phase", "namespace", "quota", "limits", "netpol", "cilium", "sa", "role",
         "boundary", "association"}

TypeOK ==
  /\ deployed \in [Platform -> State] /\ DOMAIN seen = Platform
  /\ \A p \in Platform : seen[p] \subseteq State
  /\ changes \in 0 .. MaxChanges /\ faults \in 0 .. MaxFaults
  /\ roles \in BOOLEAN /\ floor \in Floors \cup {"LOW"} /\ failOn \in Gates \cup {""}
  /\ pc \in {"list", "audit", "filter", "write", "over"}
  /\ pc = "audit" => queue # <<>>
  /\ listed \in [Platform -> Declaration]
  /\ info \in [role : Role, attached : SUBSET Managed]
  /\ DOMAIN findings = Platform /\ DOMAIN notes = Platform
  /\ \A p \in Platform : (\A f \in findings[p] : f.severity \in Level) /\ notes[p] \subseteq Note
  /\ exitCode \in 0 .. 3

(* What the contract finds wrong with a platform.  Where the egress policy *)
(* is concerned the two kinds may be looked at at different times.         *)
Gaps(cr, o, cilium) ==
  auditIdentity(cr) \cup BudgetVerdict(cr, o.budget) \cup TenantVerdict(cr, o.tenant)
  \cup GatewayVerdict(cr, o.gateways) \cup NamespaceVerdict(o.namespace)
  \cup QuotaVerdict(o.quota) \cup LimitVerdict(o.limits) \cup NetworkVerdict(o.netpol, cilium)
  \cup AccountVerdict(cr, o.sa)
  \cup (IF cr.role THEN RoleVerdict(cr, o.role, o.attached, o.inline) \cup AssociationVerdict(cr, o.association) ELSE {})

(* No call that failed became a verdict: every finding above INFO is a gap *)
(* the platform had, against the declaration that was listed, at a moment  *)
(* of the audit; for a platform nobody touched, it is a gap it has ("An    *)
(* unread probe must not become a verdict", platform_iam.go).  The LOW     *)
(* finding for gateways that could not be listed says so itself.           *)
VerdictHasGround ==
  \A p \in Platform : \A f \in findings[p] :
    \/ f.severity = "INFO" \/ f = Finding("HIPAA_GUARDRAIL_INHERITED", "LOW")
    \/ \E o, later \in seen[p] : f \in Gaps(listed[p], o, later.cilium)

(* A gap that the declaration that was listed has had all through the run, *)
(* whenever the two kinds of egress policy are looked at.                  *)
Lasting(p) ==
  {g \in Gaps(listed[p], deployed[p], deployed[p].cilium) : \A o, later \in seen[p] : g \in Gaps(listed[p], o, later.cilium)}

AWSTypes == {"TENANT_ROLE_MISSING", "TENANT_ROLE_TRUST_MISMATCH", "TENANT_ROLE_PERMISSIONS_BOUNDARY_MISSING",
             "TENANT_ROLE_PERMISSIONS_BOUNDARY_MISMATCH", "TENANT_ROLE_SUSPENSION_DRIFT", "TENANT_ROLE_EXTRA_POLICY_MISSING",
             "TENANT_ROLE_NO_BASELINE", "TENANT_ROLE_INLINE_POLICY_UNEXPECTED", "TENANT_ROLE_MODEL_SCOPING_MISSING"}
BindingTypes == {"POD_IDENTITY_ASSOCIATION_MISSING", "POD_IDENTITY_ASSOCIATION_MISMATCH"}
AccountTypes == {"SERVICE_ACCOUNT_MISSING", "SERVICE_ACCOUNT_ANNOTATED"}
EgressTypes  == {"NETWORK_POLICY_MISSING", "NETWORK_POLICY_WEAK"}
SpecTypes    == {"IDENTITY_INVALID", "BUDGET_POLICY_MISSING", "KILL_SWITCH_DISABLED", "TENANT_MISSING",
                 "COMPLIANCE_WEAKER_THAN_TENANT", "HIPAA_GUARDRAIL_INHERITED"}

(* The gaps that a note says were not looked for.                          *)
Excuses(note, type) ==
  CASE note = "budget"      -> type \in {"BUDGET_POLICY_MISSING", "KILL_SWITCH_DISABLED"}
    [] note = "tenant"      -> type \in {"TENANT_MISSING", "COMPLIANCE_WEAKER_THAN_TENANT"}
    [] note = "gateways"    -> type = "HIPAA_GUARDRAIL_INHERITED"
    [] note \in {"phase", "namespace"} -> type \notin SpecTypes
    [] note = "quota"       -> type = "RESOURCE_QUOTA_MISSING"
    [] note = "limits"      -> type = "LIMIT_RANGE_MISSING"
    [] note \in {"netpol", "cilium"} -> type \in EgressTypes
    [] note = "sa"          -> type \in AccountTypes
    [] note = "role"        -> type \in AWSTypes
    [] note = "association" -> type \in BindingTypes
    [] note = "credentials" -> type \in AWSTypes \cup BindingTypes
    [] OTHER                -> FALSE

(* Nothing is passed over in silence: a gap that lasted through the run is *)
(* a finding, or the incomplete list says that it was not looked for, or   *)
(* the whole namespace is reported missing ("an unexamined tenant is not a *)
(* conformant tenant", Audit).                                             *)
LastingGapIsKnown ==
  pc = "write" =>
    \A p \in Platform : \A g \in Lasting(p) :
      \/ g \in findings[p]
      \/ \E n \in incomplete : n[1] \in {p, "aws"} /\ Excuses(n[2], g.type)
      \/ g.type \notin SpecTypes /\ Finding("NAMESPACE_MISSING", "CRITICAL") \in findings[p]

(* A gated run that exits 0 wrote its report, left nothing unread, and no  *)
(* platform had, all through the run, a gap the flags ask about.           *)
ExitZeroCoversTheContract ==
  (pc = "over" /\ exitCode = 0 /\ failOn # "") =>
    /\ report.written /\ report.incomplete = {}
    /\ \A p \in Platform : \A g \in Lasting(p) : ~(AtLeast(g.severity, floor) /\ AtLeast(g.severity, failOn))
=============================================================================
