--------------------- MODULE ResponsesHistoryCacheProofs ---------------------
(***************************************************************************)
(* The cache of whole turns keeps its limits and never misquotes, for any   *)
(* credentials, ids, contents and limits that satisfy ReplayAssumption.     *)
(***************************************************************************)
EXTENDS ResponsesHistoryCache, LedgersProofs

EntryOK(e) ==
  /\ e \in Entry /\ e.bytes >= Overhead
  /\ IF e.json = NoContent THEN \E c, d \in e.heard : c # d ELSE e.heard = {e.json}

MapOK(es) ==
  /\ DOMAIN es \subseteq Keys /\ Sized(es)
  /\ es = [k \in DOMAIN es |-> es[k]]
  /\ \A k \in DOMAIN es : EntryOK(es[k])

(* The inductive invariant: the limits hold because what is counted is what *)
(* is there.                                                                *)
IInv ==
  /\ MapOK(entries) /\ Affordable(entries)
  /\ bytes = Sum(entries, DOMAIN entries)
  /\ now \in Nat

-----------------------------------------------------------------------------
(* The operators of the cache.                                              *)

LEMMA Limits ==
  /\ Overhead \in Nat /\ Ttl \in Nat /\ NoContent \notin Contents
  /\ MaxBytes \in Nat \ {0} /\ MaxEntries \in Nat \ {0}
  /\ MaxCredentialBytes \in Nat \ {0} /\ MaxCredentialEntries \in Nat \ {0}
  /\ \A c \in Contents : Bytes(c) \in Nat /\ Bytes(c) >= Overhead
<1>1. \A c \in Contents : Size[c] \in Nat /\ Overhead \in Nat
  BY ReplayAssumption
<1> QED BY <1>1, ReplayAssumption DEF Bytes

LEMMA SmallEnough ==
  ASSUME NEW c \in Contents, ~ TooLarge(c)
  PROVE  Bytes(c) <= MaxCredentialBytes /\ Bytes(c) <= MaxBytes
<1> DEFINE S == {MaxEntryBytes, MaxCredentialBytes, MaxBytes}
<1>1. S \subseteq Nat /\ S # {}
  BY ReplayAssumption
<1>2. MaxCredentialBytes \in S /\ MaxBytes \in S
  OBVIOUS
<1>3. Bytes(c) <= Min(S)
  <2>1. Min(S) \in Nat
    <3> HIDE DEF S
    <3> QED BY <1>1, SmallestOf
  <2>2. ~ (Bytes(c) > Min(S))
    BY DEF TooLarge
  <2> HIDE DEF S
  <2> QED BY <2>1, <2>2, Limits
<1>4. \A n \in S : Min(S) <= n /\ n \in Nat /\ Min(S) \in Nat
  <2> HIDE DEF S
  <2> QED BY <1>1, SmallestOf
<1> HIDE DEF S
<1> QED BY <1>2, <1>3, <1>4, Limits

(* What is left when some entries are removed.                              *)
LEMMA DroppedKeeps ==
  ASSUME NEW es, MapOK(es), NEW gone \in SUBSET DOMAIN es
  PROVE  /\ MapOK(Dropped(es, gone))
         /\ DOMAIN Dropped(es, gone) = DOMAIN es \ gone
         /\ \A S \in SUBSET (DOMAIN es \ gone) : Sum(Dropped(es, gone), S) = Sum(es, S)
         /\ Sum(Dropped(es, gone), DOMAIN es \ gone) = Sum(es, DOMAIN es) - Sum(es, gone)
<1> DEFINE fs == Dropped(es, gone)
<1>1. /\ Sized(fs) /\ DOMAIN fs = DOMAIN es \ gone
      /\ \A S \in SUBSET (DOMAIN es \ gone) : Sum(fs, S) = Sum(es, S)
  BY DroppedSums DEF MapOK
<1>2. fs = [k \in DOMAIN fs |-> fs[k]]
  BY DEF Dropped
<1>3. ASSUME NEW k \in DOMAIN fs PROVE EntryOK(fs[k])
  <2>1. EntryOK(es[k]) /\ k \in DOMAIN es
    BY <1>1 DEF MapOK
  <2>2. fs[k] = [es[k] EXCEPT !.older = @ \ gone]
    BY <1>1 DEF Dropped
  <2> HIDE DEF fs
  <2> QED BY <2>1, <2>2 DEF EntryOK, Entry
<1>4. Sum(es, DOMAIN es \ gone) = Sum(es, DOMAIN es) - Sum(es, gone)
  BY SumLess DEF MapOK, Sized
<1> HIDE DEF fs
<1> QED BY <1>1, <1>2, <1>3, <1>4 DEF MapOK, fs

LEMMA DroppedAffordable ==
  ASSUME NEW es, MapOK(es), Affordable(es), NEW gone \in SUBSET DOMAIN es
  PROVE  Affordable(Dropped(es, gone))
<1> DEFINE fs == Dropped(es, gone)
<1>1. /\ DOMAIN fs = DOMAIN es \ gone
      /\ \A S \in SUBSET (DOMAIN es \ gone) : Sum(fs, S) = Sum(es, S)
  BY DroppedKeeps
<1>2. ASSUME NEW S \in SUBSET DOMAIN es, NEW T \in SUBSET DOMAIN fs, T \subseteq S,
             NEW b \in Nat, NEW n \in Nat, Within(es, S, b, n)
      PROVE  Within(fs, T, b, n)
  <2>1. Within(es, T, b, n)
    BY <1>2, WithinLess DEF MapOK
  <2> HIDE DEF fs
  <2> QED BY <2>1, <1>1 DEF Within
<1>3. \A o \in Owners : Of(fs, o) \subseteq Of(es, o) /\ Of(fs, o) \subseteq DOMAIN fs /\ Of(es, o) \subseteq DOMAIN es
  <2> HIDE DEF fs
  <2> QED BY <1>1 DEF Of
<1> HIDE DEF fs
<1>4. Within(fs, DOMAIN fs, MaxBytes, MaxEntries)
  BY <1>1, <1>2, Limits DEF Affordable
<1>5. ASSUME NEW o \in Owners
      PROVE  Within(fs, Of(fs, o), MaxCredentialBytes, MaxCredentialEntries)
  BY <1>2, <1>3, Limits DEF Affordable
<1> QED BY <1>4, <1>5 DEF Affordable, fs

(* A key that is offered again: the entry shrinks, if it changes at all.    *)
LEMMA HeardKeeps ==
  ASSUME NEW e, EntryOK(e), NEW c \in Contents
  PROVE  /\ EntryOK(Heard(e, c))
         /\ Heard(e, c).older = e.older /\ Heard(e, c).bytes <= e.bytes
         /\ {"bytes", "older"} \subseteq DOMAIN Heard(e, c)
<1>1. e \in Entry /\ e.bytes >= Overhead /\ e.bytes \in Nat /\ Overhead \in Nat
  BY Limits DEF EntryOK, Entry
<1>2. CASE e.json = NoContent
  <2>1. Heard(e, c) = [e EXCEPT !.heard = @ \cup {c}]
    BY <1>2 DEF Heard
  <2> QED BY <2>1, <1>1, <1>2 DEF EntryOK, Entry
<1>3. CASE e.json = c
  <2>1. Heard(e, c) = [e EXCEPT !.heard = @ \cup {c}]
    BY <1>3 DEF Heard
  <2>2. e.heard = {c} /\ e.json # NoContent
    BY <1>3, Limits DEF EntryOK
  <2> QED BY <2>1, <2>2, <1>1, <1>3 DEF EntryOK, Entry
<1>4. CASE e.json \notin {NoContent, c}
  <2>1. Heard(e, c) = [e EXCEPT !.json = NoContent, !.bytes = Overhead, !.heard = @ \cup {c}]
    BY <1>4 DEF Heard
  <2>2. e.heard = {e.json} /\ e.json # c
    BY <1>4 DEF EntryOK
  <2>3. /\ Heard(e, c) \in Entry
        /\ Heard(e, c).json = NoContent /\ Heard(e, c).bytes = Overhead
        /\ Heard(e, c).older = e.older /\ Heard(e, c).heard = {e.json, c}
    <3>1. {e.json} \cup {c} = {e.json, c}
      OBVIOUS
    <3>2. /\ Heard(e, c) \in Entry
          /\ Heard(e, c).json = NoContent /\ Heard(e, c).bytes = Overhead
          /\ Heard(e, c).older = e.older /\ Heard(e, c).heard = e.heard \cup {c}
      BY <2>1, <1>1 DEF Entry
    <3> QED BY <2>2, <3>1, <3>2
  <2>4. \E x, y \in Heard(e, c).heard : x # y
    BY <2>2, <2>3
  <2>5. EntryOK(Heard(e, c))
    BY <2>3, <2>4, <1>1 DEF EntryOK
  <2>6. {"bytes", "older"} \subseteq DOMAIN Heard(e, c)
    BY <2>3 DEF Entry
  <2> QED BY <2>3, <2>5, <2>6, <1>1
<1> QED BY <1>2, <1>3, <1>4

LEMMA ReheardKeeps ==
  ASSUME NEW es, MapOK(es), Affordable(es), NEW k \in DOMAIN es, NEW c \in Contents
  PROVE  LET e == Heard(es[k], c)
             fs == [es EXCEPT ![k] = e]
         IN /\ MapOK(fs) /\ Affordable(fs) /\ DOMAIN fs = DOMAIN es
            /\ Sum(fs, DOMAIN fs) = Sum(es, DOMAIN es) - (es[k].bytes - e.bytes)
<1> DEFINE e == Heard(es[k], c)
           fs == [es EXCEPT ![k] = e]
<1>1. EntryOK(es[k]) /\ k \notin es[k].older /\ es[k].bytes \in Nat
  BY DEF MapOK, Sized
<1>2. /\ EntryOK(e) /\ e.older = es[k].older /\ e.bytes <= es[k].bytes
      /\ {"bytes", "older"} \subseteq DOMAIN e /\ e.bytes \in Nat
  <2>1. EntryOK(e) /\ e.older = es[k].older /\ e.bytes <= es[k].bytes /\ {"bytes", "older"} \subseteq DOMAIN e
    BY <1>1, HeardKeeps
  <2> HIDE DEF e
  <2> QED BY <2>1 DEF EntryOK, Entry
<1> HIDE DEF e
<1>3. /\ Sized(fs) /\ DOMAIN fs = DOMAIN es
      /\ \A S \in SUBSET DOMAIN es :
           /\ Sum(fs, S) = IF k \in S THEN Sum(es, S) - (es[k].bytes - e.bytes) ELSE Sum(es, S)
           /\ Sum(es, S) \in Nat
  <2>1. Sized(es)
    BY DEF MapOK
  <2>2. k \notin e.older
    BY <1>1, <1>2
  <2> QED BY <1>2, <2>1, <2>2, ShrunkSums
<1>4. fs = [x \in DOMAIN fs |-> fs[x]] /\ fs[k] = e /\ \A x \in DOMAIN es \ {k} : fs[x] = es[x]
  BY DEF MapOK
<1> HIDE DEF fs
<1>5. MapOK(fs)
  BY <1>2, <1>3, <1>4 DEF MapOK
<1>6. \A o : Of(fs, o) = Of(es, o) /\ Of(es, o) \subseteq DOMAIN es
  BY <1>3 DEF Of
<1>7. \A S \in SUBSET DOMAIN es : Sum(fs, S) <= Sum(es, S) /\ Sum(fs, S) \in Int
  BY <1>1, <1>2, <1>3
<1>8. Affordable(fs)
  <2>1. ASSUME NEW S \in SUBSET DOMAIN es, NEW b \in Nat, NEW n \in Nat, Within(es, S, b, n)
        PROVE  Within(fs, S, b, n)
    BY <2>1, <1>3, <1>7 DEF Within
  <2> QED BY <2>1, <1>3, <1>6, Limits DEF Affordable
<1> QED BY <1>3, <1>5, <1>8 DEF e, fs

(* A new entry for which there is room.                                     *)
LEMMA PutKeeps ==
  ASSUME NEW es, MapOK(es), Affordable(es), NEW k \in Keys, k \notin DOMAIN es,
         NEW c \in Contents, NEW time \in Nat,
         Sum(es, DOMAIN es) + Bytes(c) <= MaxBytes, Cardinality(DOMAIN es) < MaxEntries,
         Sum(es, Of(es, k[1])) + Bytes(c) <= MaxCredentialBytes,
         Cardinality(Of(es, k[1])) < MaxCredentialEntries
  PROVE  LET fs == Put(es, k, New(es, c, time))
         IN /\ MapOK(fs) /\ Affordable(fs)
            /\ Sum(fs, DOMAIN fs) = Sum(es, DOMAIN es) + Bytes(c)
<1> DEFINE e == New(es, c, time)
           fs == Put(es, k, e)
<1>1. /\ e.json = c /\ e.bytes = Bytes(c) /\ e.older = DOMAIN es /\ e.heard = {c}
      /\ {"bytes", "older"} \subseteq DOMAIN e
  BY DEF New
<1>2. EntryOK(e)
  <2>1. e \in Entry
    BY Limits DEF New, Entry, MapOK
  <2> HIDE DEF e
  <2> QED BY <1>1, <2>1, Limits DEF EntryOK
<1>3. fs = [x \in DOMAIN fs |-> fs[x]] /\ DOMAIN fs = DOMAIN es \cup {k} /\ fs[k] = e
      /\ \A x \in DOMAIN es : fs[x] = es[x]
  BY DEF Put
<1> HIDE DEF e
<1>4. /\ Sized(fs)
      /\ \A S \in SUBSET DOMAIN es :
           /\ Sum(fs, S) = Sum(es, S)
           /\ Sum(fs, S \cup {k}) = Sum(es, S) + e.bytes
           /\ IsFiniteSet(S) /\ Cardinality(S \cup {k}) = Cardinality(S) + 1
           /\ Cardinality(S) \in Nat /\ Sum(es, S) \in Nat
  <2>1. Sized(es) /\ e.bytes \in Nat /\ k \notin e.older
    BY <1>1, Limits DEF MapOK
  <2> QED BY <1>1, <2>1, PutSums
<1> HIDE DEF fs
<1>5. MapOK(fs)
  BY <1>2, <1>3, <1>4 DEF MapOK
<1>6. ASSUME NEW o \in Owners
      PROVE  /\ Of(es, o) \in SUBSET DOMAIN es
             /\ Of(fs, o) = IF o = k[1] THEN Of(es, o) \cup {k} ELSE Of(es, o)
  BY <1>3 DEF Of
<1>7. Within(fs, DOMAIN fs, MaxBytes, MaxEntries)
  BY <1>1, <1>3, <1>4, Limits DEF Within
<1>8. ASSUME NEW o \in Owners
      PROVE  Within(fs, Of(fs, o), MaxCredentialBytes, MaxCredentialEntries)
  <2>1. CASE o = k[1]
    <3>1. /\ Of(fs, o) = Of(es, o) \cup {k}
          /\ Sum(fs, Of(fs, o)) = Sum(es, Of(es, o)) + Bytes(c)
          /\ Cardinality(Of(fs, o)) = Cardinality(Of(es, o)) + 1
          /\ Cardinality(Of(es, o)) \in Nat
      BY <2>1, <1>1, <1>4, <1>6
    <3> QED BY <2>1, <3>1, Limits DEF Within
  <2>2. CASE o # k[1]
    <3>1. Of(fs, o) = Of(es, o) /\ Sum(fs, Of(fs, o)) = Sum(es, Of(es, o))
      BY <2>2, <1>4, <1>6
    <3> QED BY <3>1 DEF Affordable, Within
  <2> QED BY <2>1, <2>2
<1>9. Sum(fs, DOMAIN fs) = Sum(es, DOMAIN es) + Bytes(c)
  BY <1>1, <1>3, <1>4
<1> QED BY <1>5, <1>7, <1>8, <1>9 DEF Affordable, fs, e

-----------------------------------------------------------------------------
(* What every operation starts with.                                        *)
LEMMA FreshKeeps ==
  ASSUME IInv
  PROVE  /\ MapOK(Fresh) /\ Affordable(Fresh)
         /\ FreshBytes = Sum(Fresh, DOMAIN Fresh)
<1>1. Expired(entries, now) \in SUBSET DOMAIN entries
  BY DEF Expired
<1>2. MapOK(entries) /\ Affordable(entries) /\ bytes = Sum(entries, DOMAIN entries)
  BY DEF IInv
<1>3. MapOK(Fresh) /\ Affordable(Fresh)
  BY <1>1, <1>2, DroppedKeeps, DroppedAffordable DEF Fresh
<1>4. /\ DOMAIN Fresh = DOMAIN entries \ Expired(entries, now)
      /\ Sum(Fresh, DOMAIN entries \ Expired(entries, now)) = Sum(entries, DOMAIN entries) - Sum(entries, Expired(entries, now))
  BY <1>1, <1>2, DroppedKeeps DEF Fresh
<1> QED BY <1>2, <1>3, <1>4 DEF FreshBytes

(* Room in a credential's share, then in the whole cache.                   *)
LEMMA OwnRoom ==
  ASSUME IInv, NEW o \in Owners, NEW c \in Contents, ~ TooLarge(c)
  PROVE  LET mine == Own(o, Bytes(c))
         IN /\ mine \in SUBSET Of(Fresh, o)
            /\ Sum(Fresh, Of(Fresh, o) \ mine) + Bytes(c) <= MaxCredentialBytes
            /\ Cardinality(Of(Fresh, o) \ mine) < MaxCredentialEntries
<1> DEFINE own == Of(Fresh, o)
           older == [k \in own |-> Fresh[k].older]
<1>1. MapOK(Fresh)
  BY FreshKeeps
<1>2. own \in SUBSET DOMAIN Fresh /\ IsFiniteSet(own)
  BY <1>1, FS_Subset DEF Of, MapOK, Sized
<1>3. DOMAIN older = own
  OBVIOUS
<1>4. \A k \in own : k \notin older[k] /\ Sizes(Fresh)[k] \in Nat
  BY <1>1, <1>2 DEF Sizes, MapOK, Sized
<1>5. Bytes(c) \in Nat /\ Bytes(c) <= MaxCredentialBytes
  BY Limits, SmallEnough
<1> HIDE DEF own
<1>6. Own(o, Bytes(c)) = Victims(older, Sizes(Fresh), Total(Sizes(Fresh), DOMAIN older), Bytes(c),
                                 MaxCredentialBytes, MaxCredentialEntries)
  BY <1>3 DEF Own, Sum, own
<1> HIDE DEF older
<1>7. LET gone == Victims(older, Sizes(Fresh), Total(Sizes(Fresh), DOMAIN older), Bytes(c),
                          MaxCredentialBytes, MaxCredentialEntries)
      IN /\ gone \subseteq DOMAIN older
         /\ Total(Sizes(Fresh), DOMAIN older \ gone) + Bytes(c) <= MaxCredentialBytes
         /\ Cardinality(DOMAIN older \ gone) < MaxCredentialEntries
  <2>1. /\ IsFiniteSet(DOMAIN older) /\ \A x \in DOMAIN older : x \notin older[x]
        /\ \A x \in DOMAIN older : Sizes(Fresh)[x] \in Nat
    BY <1>2, <1>3, <1>4
  <2>2. MaxCredentialBytes \in Nat /\ MaxCredentialEntries \in Nat \ {0}
    BY Limits
  <2> QED BY <1>5, <2>1, <2>2, RoomMade
<1> QED BY <1>6, <1>7, <1>3 DEF Sum, own

LEMMA AllRoom ==
  ASSUME NEW es, MapOK(es), NEW c \in Contents, ~ TooLarge(c)
  PROVE  LET gone == Victims([k \in DOMAIN es |-> es[k].older], Sizes(es), Sum(es, DOMAIN es), Bytes(c),
                             MaxBytes, MaxEntries)
         IN /\ gone \in SUBSET DOMAIN es
            /\ Sum(es, DOMAIN es \ gone) + Bytes(c) <= MaxBytes
            /\ Cardinality(DOMAIN es \ gone) < MaxEntries
<1> DEFINE older == [k \in DOMAIN es |-> es[k].older]
<1>1. DOMAIN older = DOMAIN es /\ IsFiniteSet(DOMAIN es)
  BY DEF MapOK, Sized
<1>2. \A k \in DOMAIN es : k \notin older[k] /\ Sizes(es)[k] \in Nat
  BY DEF Sizes, MapOK, Sized
<1>3. Bytes(c) \in Nat /\ Bytes(c) <= MaxBytes
  BY Limits, SmallEnough
<1> HIDE DEF older
<1>4. LET gone == Victims(older, Sizes(es), Total(Sizes(es), DOMAIN older), Bytes(c), MaxBytes, MaxEntries)
      IN /\ gone \subseteq DOMAIN older
         /\ Total(Sizes(es), DOMAIN older \ gone) + Bytes(c) <= MaxBytes
         /\ Cardinality(DOMAIN older \ gone) < MaxEntries
  BY <1>1, <1>2, <1>3, Limits, RoomMade
<1> QED BY <1>1, <1>4 DEF Sum, older

LEMMA StoreKeeps ==
  ASSUME IInv, NEW k \in Keys, NEW c \in Contents, k \notin DOMAIN Fresh, ~ TooLarge(c),
         Store(k, c), now' = now
  PROVE  IInv'
<1> DEFINE b    == Bytes(c)
           mine == Own(k[1], b)
           left == Dropped(Fresh, mine)
           held == FreshBytes - Sum(Fresh, mine)
           rest == Victims([x \in DOMAIN left |-> left[x].older], Sizes(left), held, b,
                           MaxBytes, MaxEntries)
           kept == Dropped(left, rest)
<1>1. k[1] \in Owners /\ now \in Nat
  BY DEF Keys, IInv
<1>2. /\ MapOK(Fresh) /\ Affordable(Fresh) /\ FreshBytes = Sum(Fresh, DOMAIN Fresh)
      /\ Of(Fresh, k[1]) \in SUBSET DOMAIN Fresh
  BY FreshKeeps DEF Of
<1>3. /\ mine \in SUBSET Of(Fresh, k[1])
      /\ Sum(Fresh, Of(Fresh, k[1]) \ mine) + b <= MaxCredentialBytes
      /\ Cardinality(Of(Fresh, k[1]) \ mine) < MaxCredentialEntries
  BY <1>1, OwnRoom
<1>4. entries' = Put(kept, k, New(kept, c, now)) /\ bytes' = held - Sum(left, rest) + b
  BY DEF Store
<1> HIDE DEF mine
<1>5. /\ MapOK(left) /\ Affordable(left) /\ DOMAIN left = DOMAIN Fresh \ mine
      /\ held = Sum(left, DOMAIN left)
      /\ \A S \in SUBSET (DOMAIN Fresh \ mine) : Sum(left, S) = Sum(Fresh, S)
  BY <1>2, <1>3, DroppedKeeps, DroppedAffordable, ZenonT(60)
<1> HIDE DEF left, held
<1>6. /\ rest \in SUBSET DOMAIN left
      /\ Sum(left, DOMAIN left \ rest) + b <= MaxBytes
      /\ Cardinality(DOMAIN left \ rest) < MaxEntries
  BY <1>5, AllRoom
<1> HIDE DEF rest
<1>7. /\ MapOK(kept) /\ Affordable(kept) /\ DOMAIN kept = DOMAIN left \ rest
      /\ Sum(kept, DOMAIN kept) = held - Sum(left, rest)
      /\ \A S \in SUBSET (DOMAIN left \ rest) : Sum(kept, S) = Sum(left, S)
  <2>1. Affordable(kept)
    BY <1>5, <1>6, DroppedAffordable
  <2>2. /\ MapOK(kept) /\ DOMAIN kept = DOMAIN left \ rest
        /\ \A S \in SUBSET (DOMAIN left \ rest) : Sum(kept, S) = Sum(left, S)
        /\ Sum(kept, DOMAIN left \ rest) = Sum(left, DOMAIN left) - Sum(left, rest)
    BY <1>5, <1>6, DroppedKeeps
  <2> HIDE DEF kept
  <2> QED BY <1>5, <2>1, <2>2
<1> HIDE DEF kept
<1>8. Sum(kept, DOMAIN kept) + b <= MaxBytes /\ Cardinality(DOMAIN kept) < MaxEntries
  BY <1>6, <1>7
<1>9. Sum(kept, Of(kept, k[1])) + b <= MaxCredentialBytes /\ Cardinality(Of(kept, k[1])) < MaxCredentialEntries
  <2> DEFINE S == Of(Fresh, k[1]) \ mine
             T == Of(kept, k[1])
  <2>1. S \in SUBSET DOMAIN Fresh /\ T \in SUBSET S /\ T \in SUBSET (DOMAIN left \ rest)
        /\ T \in SUBSET (DOMAIN Fresh \ mine)
    BY <1>2, <1>5, <1>7 DEF Of
  <2>2. Sum(kept, T) = Sum(Fresh, T)
    <3> HIDE DEF T, S
    <3> QED BY <2>1, <1>5, <1>7
  <2>3. IsFiniteSet(S)
    BY <2>1, <1>2, FS_Subset DEF MapOK, Sized
  <2>4. /\ Cardinality(S) \in Nat /\ Cardinality(T) \in Nat /\ Cardinality(T) <= Cardinality(S)
    <3> HIDE DEF S, T
    <3> QED BY <2>1, <2>3, FS_Subset, FS_CardinalityType
  <2>5. Sum(Fresh, T) <= Sum(Fresh, S) /\ Sum(Fresh, T) \in Nat /\ Sum(Fresh, S) \in Nat
    <3> HIDE DEF S, T
    <3> QED BY <2>1, <2>3, <1>2, SumLess DEF MapOK, Sized
  <2> QED BY <1>3, <2>2, <2>4, <2>5, Limits
<1>10. k \notin DOMAIN kept
  BY <1>5, <1>7
<1>11. LET fs == Put(kept, k, New(kept, c, now))
       IN MapOK(fs) /\ Affordable(fs) /\ Sum(fs, DOMAIN fs) = Sum(kept, DOMAIN kept) + b
  BY <1>1, <1>7, <1>8, <1>9, <1>10, PutKeeps
<1>12. MapOK(entries') /\ Affordable(entries') /\ bytes' = Sum(entries', DOMAIN entries') /\ now' \in Nat
  BY <1>1, <1>4, <1>7, <1>11
<1> QED BY <1>12 DEF IInv

-----------------------------------------------------------------------------
(* An empty map.                                                            *)
LEMMA EmptyOK ==
  ASSUME NEW es, es = << >>
  PROVE  MapOK(es) /\ Affordable(es) /\ Sum(es, DOMAIN es) = 0
<1>1. DOMAIN es = {} /\ es = [k \in DOMAIN es |-> es[k]]
  OBVIOUS
<1>2. MapOK(es)
  BY <1>1, FS_EmptySet DEF MapOK, Sized
<1>3. Sum(es, {}) = 0 /\ Cardinality({}) = 0
  BY SumEmpty, FS_EmptySet
<1>4. \A b \in Nat, n \in Nat : Within(es, {}, b, n)
  BY <1>3 DEF Within
<1>5. \A o \in Owners : Of(es, o) = {}
  BY <1>1 DEF Of
<1>6. Affordable(es)
  BY <1>1, <1>4, <1>5, Limits DEF Affordable
<1> QED BY <1>1, <1>2, <1>3, <1>6

LEMMA InitOK == Init => IInv
<1> SUFFICES ASSUME Init PROVE IInv
  OBVIOUS
<1>1. entries = << >> /\ bytes = 0 /\ now = 0
  BY DEF Init
<1> QED BY <1>1, EmptyOK DEF IInv

LEMMA NextKeeps == IInv /\ [Next]_vars => IInv'
<1> SUFFICES ASSUME IInv, [Next]_vars PROVE IInv'
  OBVIOUS
<1> USE DEF IInv
<1>1. ASSUME NEW k \in Keys, NEW c \in Contents, Remember(k, c) PROVE IInv'
  <2>1. now' = now /\ MapOK(Fresh) /\ Affordable(Fresh) /\ FreshBytes = Sum(Fresh, DOMAIN Fresh)
    BY <1>1, FreshKeeps DEF Remember
  <2>2. CASE k \in DOMAIN Fresh
    <3> DEFINE e == Heard(Fresh[k], c)
    <3>1. entries' = [Fresh EXCEPT ![k] = e] /\ bytes' = FreshBytes - (Fresh[k].bytes - e.bytes)
      BY <1>1, <2>2 DEF Remember, Repeat
    <3>2. LET fs == [Fresh EXCEPT ![k] = e]
          IN MapOK(fs) /\ Affordable(fs) /\ Sum(fs, DOMAIN fs) = Sum(Fresh, DOMAIN Fresh) - (Fresh[k].bytes - e.bytes)
      BY <2>1, <2>2, ReheardKeeps
    <3> HIDE DEF e
    <3>3. MapOK(entries') /\ Affordable(entries') /\ bytes' = Sum(entries', DOMAIN entries')
      BY <3>1, <3>2, <2>1
    <3> QED BY <3>3, <2>1
  <2>3. CASE k \notin DOMAIN Fresh /\ TooLarge(c)
    <3>1. entries' = Fresh /\ bytes' = FreshBytes
      BY <1>1, <2>3 DEF Remember
    <3> QED BY <3>1, <2>1
  <2>4. CASE k \notin DOMAIN Fresh /\ ~ TooLarge(c)
    <3>1. Store(k, c)
      BY <1>1, <2>4 DEF Remember
    <3> QED BY <3>1, <2>1, <2>4, StoreKeeps
  <2> QED BY <2>2, <2>3, <2>4
<1>2. ASSUME NEW k \in Keys, Resolve(k) PROVE IInv'
  <2>1. /\ k \in DOMAIN entries /\ entries' = Dropped(entries, {k})
        /\ bytes' = bytes - entries[k].bytes /\ now' = now
    BY <1>2 DEF Resolve, Expired
  <2>2. {k} \in SUBSET DOMAIN entries
    BY <2>1
  <2> DEFINE left == Dropped(entries, {k})
  <2>3. /\ MapOK(left) /\ Affordable(left) /\ DOMAIN left = DOMAIN entries \ {k}
        /\ Sum(left, DOMAIN entries \ {k}) = Sum(entries, DOMAIN entries) - Sum(entries, {k})
    BY <2>2, DroppedKeeps, DroppedAffordable
  <2>4. Sum(entries, {k}) = entries[k].bytes
    BY <2>1, SumOne DEF MapOK, Sized
  <2> QED BY <2>1, <2>3, <2>4
<1>3. CASE Prune
  BY <1>3, FreshKeeps DEF Prune
<1>4. CASE Clear
  <2>1. entries' = << >> /\ bytes' = 0 /\ now' = now
    BY <1>4 DEF Clear
  <2>2. MapOK(entries') /\ Affordable(entries') /\ Sum(entries', DOMAIN entries') = 0
    BY <2>1, EmptyOK
  <2> QED BY <2>1, <2>2
<1>5. CASE Tick
  BY <1>5 DEF Tick
<1>6. CASE UNCHANGED vars
  BY <1>6 DEF vars
<1> QED BY <1>1, <1>2, <1>3, <1>4, <1>5, <1>6 DEF Next

(* The inductive invariant of the cache.                                    *)
THEOREM HistoryCacheInvariance == Spec => []IInv
  BY InitOK, NextKeeps, PTL DEF Spec

(* The counter is exact and no limit is ever passed: of the cache or of a   *)
(* credential, in bytes or in entries.                                      *)
THEOREM HistoriesWithinBudgets == Spec => []WithinBudgets
<1>1. IInv => WithinBudgets
  BY DEF IInv, WithinBudgets
<1> QED BY <1>1, HistoryCacheInvariance, PTL

(* A continuation never resolves to the history of another response.        *)
THEOREM HistoriesNeverMisquoted == Spec => []NeverMisquotes
<1>1. IInv => NeverMisquotes
  BY DEF IInv, NeverMisquotes, Truthful, MapOK, EntryOK
<1> QED BY <1>1, HistoryCacheInvariance, PTL
=============================================================================
