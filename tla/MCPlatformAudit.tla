--------------------------- MODULE MCPlatformAudit ---------------------------
(* Two tenants, of six: one conforms, with everything there is to ask for, *)
(* and the others have gaps of their own.  The kill-switch tags the role,  *)
(* detaches its policies and publishes the suspension, in any order;       *)
(* someone replaces the egress policy by one of the other kind, or deletes *)
(* a namespace, a role or an association.                                  *)
EXTENDS PlatformAudit

CONSTANTS alpha, beta, extra, manual

MCListing == <<alpha, beta>>

Tight ==
  [cr |-> [phase |-> "Ready", suspended |-> FALSE, role |-> TRUE, boundary |-> TRUE, binding |-> "published",
           models |-> "one", budget |-> TRUE, tenant |-> TRUE, soc2 |-> TRUE, hipaa |-> TRUE, extras |-> {extra}],
   budget |-> "armed", tenant |-> "soc2", gateways |-> "guarded", namespace |-> "restricted",
   quota |-> "there", limits |-> "there", netpol |-> "gone", cilium |-> "tight", sa |-> "clean",
   role |-> [there |-> TRUE, trust |-> "pods", boundary |-> "published", tagged |-> FALSE],
   attached |-> {BaselinePolicy, extra}, inline |-> {"bedrock-model-scoping"}, association |-> "own"]

Tampered == [Tight EXCEPT !.budget = "disarmed", !.gateways = "inheriting", !.quota = "gone", !.cilium = "gone",
                          !.sa = "annotated", !.role.boundary = "other", !.inline = {manual}, !.association = "foreign"]

Suspended == [Tight EXCEPT !.cr.phase = "Suspended", !.cr.suspended = TRUE, !.role.tagged = TRUE, !.attached = {},
                           !.tenant = "lax", !.netpol = "weak", !.namespace = "unlabelled", !.cr.boundary = FALSE]

Partial == [Tight EXCEPT !.cr.binding = "default", !.cr.hipaa = FALSE, !.tenant = "hipaa", !.cr.budget = FALSE,
                         !.limits = "gone", !.role.trust = "web", !.cr.models = "neither"]

Started == [Tight EXCEPT !.cr.phase = "Provisioning", !.cr.role = FALSE, !.cr.tenant = FALSE, !.cr.binding = "unknown",
                         !.budget = "gone", !.namespace = "gone", !.role.there = FALSE]

Vcluster == [Tight EXCEPT !.cr.binding = "unknown", !.cilium = "weak", !.inline = {}, !.attached = {BaselinePolicy}]

Pair(a, b) == [p \in {alpha, beta} |-> IF p = alpha THEN a ELSE b]

MCDeployments == {Pair(Started, Tight), Pair(Tampered, Vcluster), Pair(Partial, Suspended)}

Toggles(policy, others) == IF policy = "gone" THEN others ELSE {"gone"}

MCBecomes(o) ==
  {[o EXCEPT !.cr.suspended = ~@], [o EXCEPT !.role.tagged = ~@], [o EXCEPT !.attached = IF @ = {} THEN {BaselinePolicy} ELSE {}],
   [o EXCEPT !.association = "gone"], [o EXCEPT !.role.there = FALSE], [o EXCEPT !.namespace = "gone"]}
  \cup {[o EXCEPT !.netpol = policy] : policy \in Toggles(o.netpol, {"tight", "weak"})}
  \cup {[o EXCEPT !.cilium = policy] : policy \in Toggles(o.cilium, {"tight"})}
=============================================================================
