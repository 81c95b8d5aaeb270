----------------------- MODULE MCResponsesHistoryCache -----------------------
(* Two credentials and three response ids; three histories or a few bytes   *)
(* fill the cache, two histories a credential's share.                      *)
EXTENDS ResponsesHistoryCache, TLC

CONSTANTS short, long

MCSize == short :> 1 @@ long :> 2
Symmetry == Permutations(Owners) \cup Permutations(Ids)
=============================================================================
