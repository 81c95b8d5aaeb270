--------------------------- MODULE AnthropicMessage ---------------------------
(***************************************************************************)
(* A streamed answer as a client of POST /v1/messages may rely on it:       *)
(* message_start, content blocks, message_delta, message_stop               *)
(* (docs/compatibility.md:350).  Blocks get the indices 0, 1, 2, ... in the *)
(* order of their starts and may be open side by side; a delta belongs to a *)
(* block that is open; no block is left open by message_delta.  An error    *)
(* may come at any time and is the last thing the client has to look at.    *)
(***************************************************************************)
EXTENDS Integers, FiniteSets

CONSTANT Error          \* what the client has in the end if it is an error

VARIABLES
  phase,                \* "idle", "open", "closing", "stopped" or Error
  started, open,        \* indices of blocks
  last                  \* the latest frame: its event and its block, or 0

vars == <<phase, started, open, last>>

Init == phase = "idle" /\ started = {} /\ open = {} /\ last = <<"none", 0>>

MessageStart ==
  /\ phase = "idle" /\ phase' = "open"
  /\ last' = <<"message_start", 0>>
  /\ UNCHANGED <<started, open>>

(* The first index that no block has had.                                   *)
BlockStart ==
  LET i == Cardinality(started)
  IN  /\ phase = "open"
      /\ started' = started \cup {i} /\ open' = open \cup {i}
      /\ last' = <<"content_block_start", i>>
      /\ UNCHANGED phase

BlockDelta(i) ==
  /\ phase = "open" /\ i \in open
  /\ last' = <<"content_block_delta", i>>
  /\ UNCHANGED <<phase, started, open>>

BlockStop(i) ==
  /\ phase = "open" /\ i \in open
  /\ open' = open \ {i}
  /\ last' = <<"content_block_stop", i>>
  /\ UNCHANGED <<phase, started>>

MessageDelta ==
  /\ phase = "open" /\ open = {} /\ phase' = "closing"
  /\ last' = <<"message_delta", 0>>
  /\ UNCHANGED <<started, open>>

MessageStop ==
  /\ phase = "closing" /\ phase' = "stopped"
  /\ last' = <<"message_stop", 0>>
  /\ UNCHANGED <<started, open>>

Fail ==
  /\ phase' = Error
  /\ last' = <<"error", 0>>
  /\ UNCHANGED <<started, open>>

Next ==
  \/ MessageStart \/ BlockStart \/ MessageDelta \/ MessageStop \/ Fail
  \/ \E i \in open : BlockDelta(i) \/ BlockStop(i)

Spec == Init /\ [][Next]_vars
=============================================================================
