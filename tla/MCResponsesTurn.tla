--------------------------- MODULE MCResponsesTurn ---------------------------
(* Turns on one conversation or outside of it, over all transports.         *)
EXTENDS ResponsesTurn, TLC

(* One request is like another.                                             *)
Symmetry == Permutations(Requests)

(* Of a turn that is over only this is read again: what continues it, and   *)
(* how where it is written agrees with its end.  Nothing reads what was said *)
(* in one that failed, nor whether the items of another are still held.      *)
Visible ==
  LET failed == {r \in Begun : turns[r].told = "error"}
      Over(turn) == <<turn.told, turn.context, turn.kept, turn.kept = Due(turn), turn.via = "ws">>
      Seen(r) == IF r \notin Begun THEN <<>>
                 ELSE IF r \in failed THEN <<turns[r].kept, turns[r].via = "ws">>
                 ELSE IF r \in Live THEN <<turns[r]>> ELSE Over(turns[r])
  IN  <<[r \in Requests |-> Seen(r)], documents, lease, references \cap (Live \cup failed),
        histories>>
=============================================================================
