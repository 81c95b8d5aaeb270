----------------------- MODULE ResponsesReferenceCache -----------------------
(***************************************************************************)
(* The cache of output items (src/src/policies/responses-reference-cache):  *)
(* beside the map it keeps, for each credential, the number of bytes and    *)
(* the keys held, from which it decides what to evict.  Each method runs    *)
(* to completion; remember() takes a whole output.                          *)
(***************************************************************************)
EXTENDS ReplayEntries, Sequences

CONSTANT Outputs        \* sequences of [id, json] a response may carry

ASSUME OutputsAssumption == Outputs \subseteq Seq([id : Ids, json : Contents])

VARIABLES
  entries,              \* #entries
  bytes,                \* #bytes
  usage,                \* #owners: of each credential that holds keys, their
                        \* bytes, and the keys with those before them
  now

vars == <<entries, bytes, usage, now>>

Held == [entries |-> entries, bytes |-> bytes, usage |-> usage]

(* Mutant of Users: the record of the last key is kept.                     *)
UsersAll(s, gone) == DOMAIN s.usage

(* The credentials that have keys left when some are gone.                  *)
Users(s, gone) == {o \in DOMAIN s.usage : ~ DOMAIN s.usage[o].older \subseteq gone}

(* #remove() of each of these keys                                          *)
Removed(s, gone) ==
  [entries |-> Dropped(s.entries, gone),
   bytes   |-> s.bytes - Sum(s.entries, gone),
   usage   |-> [o \in Users(s, gone) |->
                  LET older == s.usage[o].older
                  IN [bytes |-> s.usage[o].bytes - Sum(s.entries, DOMAIN older \cap gone),
                      older |-> [k \in DOMAIN older \ gone |-> older[k] \ gone]]]]

Pruned(s) == Removed(s, Expired(s.entries, now))

(* #insert()                                                                *)
Inserted(s, k, e) ==
  LET o == k[1]
      u == IF o \in DOMAIN s.usage THEN s.usage[o] ELSE [bytes |-> 0, older |-> << >>]
      v == [bytes |-> u.bytes + e.bytes, older |-> Put(u.older, k, DOMAIN u.older)]
  IN [entries |-> Put(s.entries, k, e),
      bytes   |-> s.bytes + e.bytes,
      usage   |-> Put(s.usage, o, v)]

(* An item under a key that is held: a contradiction shrinks the entry, and *)
(* all three counters with it.                                              *)
Reheard(s, k, c) ==
  LET e == Heard(s.entries[k], c)
      freed == s.entries[k].bytes - e.bytes
  IN [entries |-> [s.entries EXCEPT ![k] = e],
      bytes   |-> s.bytes - freed,
      usage   |-> [o \in DOMAIN s.usage |->
                     IF o = k[1] THEN [s.usage[o] EXCEPT !.bytes = @ - freed]
                                 ELSE s.usage[o]]]

(* The credential's own keys make room first, by its usage record, then the *)
(* oldest of the map, by the counter.                                       *)
OwnRoom(s, o, b) ==
  IF o \in DOMAIN s.usage
    THEN Removed(s, Victims(s.usage[o].older, Sizes(s.entries), s.usage[o].bytes, b,
                            MaxCredentialBytes, MaxCredentialEntries))
    ELSE s

Room(s, b) ==
  LET older == [k \in DOMAIN s.entries |-> s.entries[k].older]
  IN Removed(s, Victims(older, Sizes(s.entries), s.bytes, b, MaxBytes, MaxEntries))

Item(s, o, item) ==
  LET k == <<o, item.id>>
      t == Room(OwnRoom(s, o, Bytes(item.json)), Bytes(item.json))
  IN IF k \in DOMAIN s.entries THEN Reheard(s, k, item.json)
     ELSE IF TooLarge(item.json) THEN s
     ELSE Inserted(t, k, New(t.entries, item.json, now))

(* The cache after each item of an output, one after the other.             *)
Remembered(o, output) ==
  LET after[n \in 0 .. Len(output)] ==
        IF n = 0 THEN Pruned(Held) ELSE Item(after[n - 1], o, output[n])
  IN after[Len(output)]

Set(s) == entries' = s.entries /\ bytes' = s.bytes /\ usage' = s.usage

-----------------------------------------------------------------------------
Remember(o, output) ==
  /\ Set(Remembered(o, output))
  /\ UNCHANGED now

(* A lookup changes the cache only by removing the expired entry it finds.  *)
Resolve(k) ==
  /\ k \in Expired(entries, now)
  /\ Set(Removed(Held, {k}))
  /\ UNCHANGED now

Prune ==
  /\ Set(Pruned(Held))
  /\ UNCHANGED now

Clear ==
  /\ entries' = << >> /\ bytes' = 0 /\ usage' = << >>
  /\ UNCHANGED now

Tick ==
  /\ now < MaxNow
  /\ now' = now + 1
  /\ UNCHANGED <<entries, bytes, usage>>

Init ==
  /\ entries = << >> /\ bytes = 0 /\ usage = << >>
  /\ now = 0

Next ==
  \/ \E o \in Owners, output \in Outputs : Remember(o, output)
  \/ \E k \in Keys : Resolve(k)
  \/ Prune
  \/ Clear
  \/ Tick

Spec == Init /\ [][Next]_vars

-----------------------------------------------------------------------------
(* The records eviction goes by say what the map holds: the counter and     *)
(* each credential's usage agree with the entries, in their order, through  *)
(* evictions within a batch, tombstones and lookups that remove; and a      *)
(* credential that holds nothing has no record left behind.                 *)
Record(es, o) ==
  [bytes |-> Sum(es, Of(es, o)),
   older |-> [k \in Of(es, o) |-> es[k].older \cap Of(es, o)]]

UsageAgrees ==
  /\ bytes = Sum(entries, DOMAIN entries)
  /\ usage = [o \in {k[1] : k \in DOMAIN entries} |-> Record(entries, o)]

(* The cache stays within its limits although tombstones are never evicted  *)
(* early and one output may insert many items, and it keeps doing so: the   *)
(* records it evicts by agree with what it holds.                           *)
WithinBudgets == Affordable(entries) /\ UsageAgrees

(* An item reference never resolves to one of two different items the       *)
(* upstream sent under the same id (comment at                              *)
(* responses-reference-cache.ts:73).                                        *)
NeverMisquotes == Truthful(entries)

(* Nothing is forgotten early except to make room, and then the caller's    *)
(* own oldest items first and the oldest of all after them: in particular   *)
(* no credential's newer items go while its older ones stay.                *)
EvictsOldestFirst ==
  [][ \/ Lost(entries, entries', now) = {}
      \/ Clear
      \/ \E o \in Owners, output \in Outputs :
           /\ OldestLeft(entries, entries', now, o, {output[i].id : i \in DOMAIN output})
           /\ Remember(o, output)
    ]_vars
=============================================================================
