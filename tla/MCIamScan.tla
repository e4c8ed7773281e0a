----------------------------- MODULE MCIamScan ------------------------------
(* Three principals over two slots, so that one always waits for a token.  *)
EXTENDS IamScanRefines, TLC

CONSTANTS p1, p2, p3

MCPrincipal == {p1, p2, p3}
MCMatches   == {p1, p2, p3}

(* "s3:Get" and "s3:get" fold to one key.                                  *)
MCAction == {"s3:Get", "s3:get"}
MCCanon  == [a \in MCAction |-> "s3:get"]
MCResource == {"*", "own", "foreign"}

Grant(a, r) == [action |-> a, resource |-> r]

(* A principal active on what it holds, and one whose only activity is     *)
(* older than the provider's retention.                                    *)
Active ==
  [granted |-> {Grant("s3:Get", "own")}, recent |-> {Grant("s3:get", "own")}, older |-> {}]
Dormant ==
  [granted |-> {Grant("s3:Get", "foreign")}, recent |-> {}, older |-> {Grant("s3:get", "foreign")}]

MCAccounts == {(p1 :> Active @@ p2 :> Dormant @@ p3 :> Active)}
=============================================================================
