---------------------------- MODULE ResponsesAnswer ----------------------------
(***************************************************************************)
(* A streamed answer as a client of POST /v1/responses may rely on it:      *)
(* response.created, output items, response.completed or                    *)
(* response.incomplete.  Items get the indices 0, 1, 2, ... in the order of *)
(* their starts; a delta belongs to an item that is not done; every item is *)
(* done before the response is.  The frames are numbered 0, 1, 2, ... by    *)
(* their sequence_number, of whatever kind they are.                        *)
(***************************************************************************)
EXTENDS Integers, FiniteSets

VARIABLES
  phase,                \* "idle", "open", "stopped" or "error"
  started, open,        \* indices of items
  frames,               \* number of frames
  last                  \* the latest frame: its event and its item, or -1

vars == <<phase, started, open, frames, last>>

Init == phase = "idle" /\ started = {} /\ open = {} /\ frames = 0 /\ last = <<"none", 0>>

Created ==
  /\ phase = "idle" /\ phase' = "open"
  /\ last' = <<"response.created", -1>>
  /\ UNCHANGED <<started, open>>

(* The first index that no item has had.                                    *)
ItemAdded ==
  LET i == Cardinality(started)
  IN  /\ phase = "open"
      /\ started' = started \cup {i} /\ open' = open \cup {i}
      /\ last' = <<"response.output_item.added", i>>
      /\ UNCHANGED phase

Delta(i) ==
  /\ phase = "open" /\ i \in open
  /\ last' \in {<<"delta", i>>, <<"arguments.done", i>>}
  /\ UNCHANGED <<phase, started, open>>

ItemDone(i) ==
  /\ phase = "open" /\ i \in open
  /\ open' = open \ {i}
  /\ last' = <<"response.output_item.done", i>>
  /\ UNCHANGED <<phase, started>>

Terminal ==
  /\ phase = "open" /\ open = {} /\ phase' = "stopped"
  /\ last' = <<"terminal", -1>>
  /\ UNCHANGED <<started, open>>

(* An error may come at any time, but not behind the end.                   *)
Fail ==
  /\ phase # "stopped" /\ phase' = "error"
  /\ last'[1] = "error"
  /\ UNCHANGED <<started, open>>

Next ==
  /\ frames' = frames + 1
  /\ \/ Created \/ ItemAdded \/ Terminal \/ Fail
     \/ \E i \in open : Delta(i) \/ ItemDone(i)

Spec == Init /\ [][Next]_vars
=============================================================================
