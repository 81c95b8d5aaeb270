---------------------------- MODULE Conversations ----------------------------
(***************************************************************************)
(* What the conversation store promises its users, as the documentation    *)
(* (src/docs/compatibility.md, "Conversations") states it and without the  *)
(* budgets, entry records and turn closures that bring it about:            *)
(*                                                                         *)
(*  - a conversation id, once gone, never comes back;                      *)
(*  - while a turn holds a conversation nobody else changes or removes it,  *)
(*    and the turn adds items behind the present ones, once, in one step;   *)
(*  - only an unheld conversation unused for Ttl may be forgotten, other    *)
(*    than by deletion or shutdown.                                        *)
(*                                                                         *)
(* An action says what a step may do to the documents, not which document  *)
(* results: the module is meant to be implemented, not executed.           *)
(***************************************************************************)
EXTENDS Integers, Sequences

CONSTANTS Owners, Ids, Turns, None, Ttl

VARIABLES
  doc,      \* the document of each key, None if there is none
  holder,   \* the turn holding each key, None if nobody
  spent,    \* whether the holder has added its items
  usedAt,   \* when each existing conversation was last used, else 0
  issued,   \* the ids of all conversations ever created
  now

vars == <<doc, holder, spent, usedAt, issued, now>>

Keys == Owners \X Ids

Exists(k) == doc[k] # None

Overdue == {k \in Keys : /\ Exists(k)
                         /\ holder[k] = None
                         /\ usedAt[k] + Ttl <= now}

(* The documents after those of X were forgotten and k's became d.          *)
Put(k, d, X) ==
  doc' = [j \in Keys |-> IF j = k THEN d ELSE IF j \in X THEN None ELSE doc[j]]

(* Using the conversations of U restarts their idle time.                   *)
Stamp(U) ==
  usedAt' = [k \in Keys |-> IF doc'[k] = None THEN 0
                            ELSE IF k \in U THEN now ELSE usedAt[k]]

Forget(X) ==
  /\ doc' = [j \in Keys |-> IF j \in X THEN None ELSE doc[j]]
  /\ Stamp({})
  /\ UNCHANGED <<holder, spent, issued, now>>

Create(k, X) ==
  /\ k[2] \notin issued
  /\ issued' = issued \cup {k[2]}
  /\ doc'[k] # None
  /\ Put(k, doc'[k], X)
  /\ Stamp({k})
  /\ UNCHANGED <<holder, spent, now>>

(* Reading a conversation, or a change that was refused.                    *)
Access(k, X) ==
  /\ Exists(k) /\ k \notin X
  /\ Put(k, doc[k], X)
  /\ Stamp({k})
  /\ UNCHANGED <<holder, spent, issued, now>>

Change(k, X) ==
  /\ Exists(k) /\ k \notin X /\ holder[k] = None
  /\ doc'[k] # None
  /\ Put(k, doc'[k], X)
  /\ Stamp({k})
  /\ UNCHANGED <<holder, spent, issued, now>>

Remove(k, X) ==
  /\ Exists(k) /\ holder[k] = None
  /\ Put(k, None, X)
  /\ Stamp({})
  /\ UNCHANGED <<holder, spent, issued, now>>

Acquire(t, k, X) ==
  /\ Exists(k) /\ k \notin X /\ holder[k] = None
  /\ \A j \in Keys : holder[j] # t
  /\ holder' = [holder EXCEPT ![k] = t]
  /\ Put(k, doc[k], X)
  /\ Stamp({k})
  /\ UNCHANGED <<spent, issued, now>>

(* The items go behind the ones the conversation has now; the metadata it   *)
(* has now stays.                                                           *)
AddItems(t, k, X) ==
  /\ holder[k] = t /\ ~spent[k]
  /\ doc'[k] # None
  /\ doc'[k].metadata = doc[k].metadata
  /\ LET n == Len(doc[k].items)
     IN  /\ Len(doc'[k].items) >= n
         /\ SubSeq(doc'[k].items, 1, n) = doc[k].items
  /\ Put(k, doc'[k], X)
  /\ spent' = [spent EXCEPT ![k] = TRUE]
  /\ Stamp({k})
  /\ UNCHANGED <<holder, issued, now>>

Yield(t, k) ==
  /\ holder[k] = t
  /\ holder' = [holder EXCEPT ![k] = None]
  /\ spent' = [spent EXCEPT ![k] = FALSE]
  /\ UNCHANGED doc
  /\ Stamp({k})
  /\ UNCHANGED <<issued, now>>

Shutdown ==
  /\ doc' = [k \in Keys |-> None]
  /\ holder' = [k \in Keys |-> None]
  /\ spent' = [k \in Keys |-> FALSE]
  /\ usedAt' = [k \in Keys |-> 0]
  /\ UNCHANGED <<issued, now>>

Pass ==
  /\ now' = now + 1
  /\ UNCHANGED <<doc, holder, spent, usedAt, issued>>

Init ==
  /\ doc = [k \in Keys |-> None]
  /\ holder = [k \in Keys |-> None]
  /\ spent = [k \in Keys |-> FALSE]
  /\ usedAt = [k \in Keys |-> 0]
  /\ issued = {}
  /\ now = 0

Next ==
  \/ \E X \in SUBSET Overdue :
       \/ Forget(X)
       \/ \E k \in Keys :
            \/ Create(k, X) \/ Access(k, X) \/ Change(k, X) \/ Remove(k, X)
            \/ \E t \in Turns : Acquire(t, k, X) \/ AddItems(t, k, X)
  \/ \E t \in Turns, k \in Keys : Yield(t, k)
  \/ Shutdown
  \/ Pass

Spec == Init /\ [][Next]_vars
=============================================================================
