------------------------------ MODULE MCIamFix ------------------------------
(* Three principals.  A user and a role may bear one name (their ARNs      *)
(* differ), and "ci-deploy" and "ci.deploy" slug to one file name.         *)
EXTENDS IamFix, TLC

CONSTANTS user, role, deploy

MCPrincipal == {user, role, deploy}
MCFile    == {"admin_user", "admin", "ci_deploy"}
Distinct  == user :> "admin_user" @@ role :> "admin" @@ deploy :> "ci_deploy"
Colliding == user :> "admin" @@ role :> "admin" @@ deploy :> "ci_deploy"

Used(a, r) == [action |-> a, resource |-> r]
Get  == Used("get", "arn")
List == Used("list", "bucket")

Flag(p, s) == [principal |-> p, severity |-> s]

Complete ==
  [findings   |-> {Flag(user, "HIGH"), Flag(role, "HIGH"), Flag(deploy, "LOW")},
   used       |-> user :> {Get} @@ role :> {} @@ deploy :> {List},
   activity   |-> user :> {Get} @@ role :> {} @@ deploy :> {List},
   incomplete |-> FALSE]

(* The role's page of the audit log that held its activity was lost.       *)
Partial ==
  [Complete EXCEPT !.activity = user :> {Get} @@ role :> {Get} @@ deploy :> {List, Get},
                   !.incomplete = TRUE]

MCReports == {Complete, Partial}
MCCommands == [accept : BOOLEAN, format : {"terraform", "json"}, floor : {"HIGH"}, failOn : BOOLEAN]
=============================================================================
