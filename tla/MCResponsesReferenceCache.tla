---------------------- MODULE MCResponsesReferenceCache ----------------------
(* Two credentials, three ids and outputs of up to two items, the first of  *)
(* two a short one; three entries or a few bytes fill the cache, two        *)
(* entries a credential's share.                                            *)
EXTENDS ResponsesReferenceCache, SequencesExt

CONSTANTS short, long

MCSize == short :> 1 @@ long :> 2
MCOutputs ==
  {output \in BoundedSeq([id : Ids, json : Contents], 2) :
     Len(output) = 2 => output[1].json = short}
Symmetry == Permutations(Owners) \cup Permutations(Ids)
=============================================================================
