--------------------------- MODULE MCGatewayUpdate ---------------------------
(* An update with its rollback, and another one by hand.                    *)
EXTENDS GatewayUpdate, TLC

Symmetry == Permutations(Requests)
=============================================================================
