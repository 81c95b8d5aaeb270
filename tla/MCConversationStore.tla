------------------------- MODULE MCConversationStore -------------------------
(* A small instance of ConversationStore: two credentials share two ids,    *)
(* two turns run at a time, and the budgets are met by two or three items.  *)
EXTENDS ConversationStore, TLC

CONSTANTS a, b, plain, wide

MCBatches == {<<>>, <<a>>, <<b>>}
Symmetry == Permutations(Owners) \cup Permutations(Ids) \cup Permutations(Items)
              \cup Permutations(Turns)

(* What a turn captured can be read only while the turn is active.          *)
Visible ==
  <<entries, bytes, issued, now,
    [t \in Turns |-> IF turns[t] = NoTurn THEN <<>>
                     ELSE IF Active(t) THEN <<turns[t]>>
                     ELSE <<turns[t].key, turns[t].committed, turns[t].closed>>]>>

MCMetadataBytes == plain :> 0 @@ wide :> 1
=============================================================================
