------------------------ MODULE ResponsesHistoryCache ------------------------
(***************************************************************************)
(* The cache of whole turns (src/src/policies/responses-history-cache): the *)
(* id of a completed response leads to everything that was said up to it.   *)
(* Unlike the reference cache it keeps no usage records: what a credential  *)
(* holds is read off the map.                                               *)
(***************************************************************************)
EXTENDS ReplayEntries

VARIABLES
  entries,              \* #entries
  bytes,                \* #bytes
  now

vars == <<entries, bytes, now>>

Fresh == Dropped(entries, Expired(entries, now))

FreshBytes == bytes - Sum(entries, Expired(entries, now))

(* A key that is held: repeated, or contradicted, or already a tombstone.   *)
Repeat(k, c) ==
  LET e == Heard(Fresh[k], c)
  IN  /\ entries' = [Fresh EXCEPT ![k] = e]
      /\ bytes' = FreshBytes - (Fresh[k].bytes - e.bytes)

(* The entries of a credential that make room for b bytes of its own.       *)
Own(o, b) ==
  LET own == Of(Fresh, o)
  IN Victims([k \in own |-> Fresh[k].older], Sizes(Fresh), Sum(Fresh, own), b,
             MaxCredentialBytes, MaxCredentialEntries)

(* Mutant of Store: only the credential's own entries make room.            *)
StoreOwnRoomOnly(k, c) ==
  LET mine == Own(k[1], Bytes(c))
      left == Dropped(Fresh, mine)
  IN  /\ entries' = Put(left, k, New(left, c, now))
      /\ bytes' = FreshBytes - Sum(Fresh, mine) + Bytes(c)

(* The credential's own entries make room first, then the oldest of all.    *)
Store(k, c) ==
  LET b    == Bytes(c)
      mine == Own(k[1], b)
      left == Dropped(Fresh, mine)
      held == FreshBytes - Sum(Fresh, mine)
      rest == Victims([x \in DOMAIN left |-> left[x].older], Sizes(left), held, b,
                      MaxBytes, MaxEntries)
      kept == Dropped(left, rest)
  IN  /\ entries' = Put(kept, k, New(kept, c, now))
      /\ bytes' = held - Sum(left, rest) + b

Remember(k, c) ==
  /\ IF k \in DOMAIN Fresh THEN Repeat(k, c)
     ELSE IF TooLarge(c) THEN entries' = Fresh /\ bytes' = FreshBytes
     ELSE Store(k, c)
  /\ UNCHANGED now

(* A lookup changes the cache only by removing the expired entry it finds.  *)
Resolve(k) ==
  /\ k \in Expired(entries, now)
  /\ entries' = Dropped(entries, {k})
  /\ bytes' = bytes - entries[k].bytes
  /\ UNCHANGED now

Prune ==
  /\ entries' = Fresh /\ bytes' = FreshBytes
  /\ UNCHANGED now

Clear ==
  /\ entries' = << >> /\ bytes' = 0
  /\ UNCHANGED now

Tick ==
  /\ now < MaxNow
  /\ now' = now + 1
  /\ UNCHANGED <<entries, bytes>>

Init == entries = << >> /\ bytes = 0 /\ now = 0

Next ==
  \/ \E k \in Keys, c \in Contents : Remember(k, c)
  \/ \E k \in Keys : Resolve(k)
  \/ Prune
  \/ Clear
  \/ Tick

Spec == Init /\ [][Next]_vars

-----------------------------------------------------------------------------
(* The counter #bytes is exact and the cache stays within every limit.      *)
WithinBudgets == bytes = Sum(entries, DOMAIN entries) /\ Affordable(entries)

(* A continuation never resolves to the history of another response that    *)
(* came under the same id (comment at responses-history-cache.ts:56).       *)
NeverMisquotes == Truthful(entries)
=============================================================================
