-------------------- MODULE ResponsesReferenceCacheProofs --------------------
(***************************************************************************)
(* The cache of output items keeps its limits, its usage records agree with *)
(* what it holds, and no reference is misquoted, for any credentials, ids,  *)
(* contents, outputs and limits that satisfy the assumptions.               *)
(***************************************************************************)
EXTENDS ResponsesReferenceCache, LedgersProofs

EntryOK(e) ==
  /\ e \in Entry /\ e.bytes >= Overhead
  /\ IF e.json = NoContent THEN \E c, d \in e.heard : c # d ELSE e.heard = {e.json}

MapOK(es) ==
  /\ DOMAIN es \subseteq Keys /\ Sized(es)
  /\ es = [k \in DOMAIN es |-> es[k]]
  /\ \A k \in DOMAIN es : EntryOK(es[k]) /\ es[k].older \subseteq DOMAIN es

Credentials(es) == {k[1] : k \in DOMAIN es}

(* A state of the cache within an operation: entries, counter and records   *)
(* agree after each single step, not only when a batch is done.             *)
CacheOK(s) ==
  /\ MapOK(s.entries) /\ Affordable(s.entries)
  /\ s.bytes = Sum(s.entries, DOMAIN s.entries)
  /\ s.usage = [o \in Credentials(s.entries) |-> Record(s.entries, o)]

(* The inductive invariant.                                                 *)
IInv == CacheOK(Held) /\ now \in Nat

-----------------------------------------------------------------------------
(* The operators of both caches.                                            *)

LEMMA Limits ==
  /\ Overhead \in Nat /\ Ttl \in Nat /\ NoContent \notin Contents
  /\ MaxBytes \in Nat \ {0} /\ MaxEntries \in Nat \ {0}
  /\ MaxCredentialBytes \in Nat \ {0} /\ MaxCredentialEntries \in Nat \ {0}
  /\ \A c \in Contents : Bytes(c) \in Nat /\ Bytes(c) >= Overhead
<1>1. \A c \in Contents : Size[c] \in Nat /\ Overhead \in Nat
  BY ReplayAssumption
<1> QED BY <1>1, ReplayAssumption DEF Bytes

LEMMA SmallEnough ==
  ASSUME NEW c \in Contents, ~ TooLarge(c)
  PROVE  Bytes(c) <= MaxCredentialBytes /\ Bytes(c) <= MaxBytes
<1> DEFINE S == {MaxEntryBytes, MaxCredentialBytes, MaxBytes}
<1>1. S \subseteq Nat /\ S # {}
  BY ReplayAssumption
<1>2. MaxCredentialBytes \in S /\ MaxBytes \in S
  OBVIOUS
<1>3. Bytes(c) <= Min(S)
  <2>1. Min(S) \in Nat
    <3> HIDE DEF S
    <3> QED BY <1>1, SmallestOf
  <2>2. ~ (Bytes(c) > Min(S))
    BY DEF TooLarge
  <2> HIDE DEF S
  <2> QED BY <2>1, <2>2, Limits
<1>4. \A n \in S : Min(S) <= n /\ n \in Nat /\ Min(S) \in Nat
  <2> HIDE DEF S
  <2> QED BY <1>1, SmallestOf
<1> HIDE DEF S
<1> QED BY <1>2, <1>3, <1>4, Limits

(* What is left when some entries are removed.                              *)
LEMMA DroppedKeeps ==
  ASSUME NEW es, MapOK(es), NEW gone \in SUBSET DOMAIN es
  PROVE  /\ MapOK(Dropped(es, gone))
         /\ DOMAIN Dropped(es, gone) = DOMAIN es \ gone
         /\ \A S \in SUBSET (DOMAIN es \ gone) : Sum(Dropped(es, gone), S) = Sum(es, S)
         /\ Sum(Dropped(es, gone), DOMAIN es \ gone) = Sum(es, DOMAIN es) - Sum(es, gone)
<1> DEFINE fs == Dropped(es, gone)
<1>1. /\ Sized(fs) /\ DOMAIN fs = DOMAIN es \ gone
      /\ \A S \in SUBSET (DOMAIN es \ gone) : Sum(fs, S) = Sum(es, S)
  BY DroppedSums DEF MapOK
<1>2. fs = [k \in DOMAIN fs |-> fs[k]]
  BY DEF Dropped
<1>3. ASSUME NEW k \in DOMAIN fs PROVE EntryOK(fs[k])
  <2>1. EntryOK(es[k]) /\ k \in DOMAIN es
    BY <1>1 DEF MapOK
  <2>2. fs[k] = [es[k] EXCEPT !.older = @ \ gone]
    BY <1>1 DEF Dropped
  <2> HIDE DEF fs
  <2> QED BY <2>1, <2>2 DEF EntryOK, Entry
<1>4. Sum(es, DOMAIN es \ gone) = Sum(es, DOMAIN es) - Sum(es, gone)
  BY SumLess DEF MapOK, Sized
<1>5. ASSUME NEW k \in DOMAIN fs PROVE fs[k].older \subseteq DOMAIN fs
  <2>1. EntryOK(es[k]) /\ k \in DOMAIN es /\ es[k].older \subseteq DOMAIN es
    BY <1>1 DEF MapOK
  <2>2. fs[k] = [es[k] EXCEPT !.older = @ \ gone]
    BY <1>1 DEF Dropped
  <2> HIDE DEF fs
  <2> QED BY <1>1, <2>1, <2>2 DEF EntryOK, Entry
<1> HIDE DEF fs
<1> QED BY <1>1, <1>2, <1>3, <1>4, <1>5 DEF MapOK, fs

LEMMA DroppedAffordable ==
  ASSUME NEW es, MapOK(es), Affordable(es), NEW gone \in SUBSET DOMAIN es
  PROVE  Affordable(Dropped(es, gone))
<1> DEFINE fs == Dropped(es, gone)
<1>1. /\ DOMAIN fs = DOMAIN es \ gone
      /\ \A S \in SUBSET (DOMAIN es \ gone) : Sum(fs, S) = Sum(es, S)
  BY DroppedKeeps
<1>2. ASSUME NEW S \in SUBSET DOMAIN es, NEW T \in SUBSET DOMAIN fs, T \subseteq S,
             NEW b \in Nat, NEW n \in Nat, Within(es, S, b, n)
      PROVE  Within(fs, T, b, n)
  <2>1. Within(es, T, b, n)
    BY <1>2, WithinLess DEF MapOK
  <2> HIDE DEF fs
  <2> QED BY <2>1, <1>1 DEF Within
<1>3. \A o \in Owners : Of(fs, o) \subseteq Of(es, o) /\ Of(fs, o) \subseteq DOMAIN fs /\ Of(es, o) \subseteq DOMAIN es
  <2> HIDE DEF fs
  <2> QED BY <1>1 DEF Of
<1> HIDE DEF fs
<1>4. Within(fs, DOMAIN fs, MaxBytes, MaxEntries)
  BY <1>1, <1>2, Limits DEF Affordable
<1>5. ASSUME NEW o \in Owners
      PROVE  Within(fs, Of(fs, o), MaxCredentialBytes, MaxCredentialEntries)
  BY <1>2, <1>3, Limits DEF Affordable
<1> QED BY <1>4, <1>5 DEF Affordable, fs

(* A key that is offered again: the entry shrinks, if it changes at all.    *)
LEMMA HeardKeeps ==
  ASSUME NEW e, EntryOK(e), NEW c \in Contents
  PROVE  /\ EntryOK(Heard(e, c))
         /\ Heard(e, c).older = e.older /\ Heard(e, c).bytes <= e.bytes
         /\ {"bytes", "older"} \subseteq DOMAIN Heard(e, c)
<1>1. e \in Entry /\ e.bytes >= Overhead /\ e.bytes \in Nat /\ Overhead \in Nat
  BY Limits DEF EntryOK, Entry
<1>2. CASE e.json = NoContent
  <2>1. Heard(e, c) = [e EXCEPT !.heard = @ \cup {c}]
    BY <1>2 DEF Heard
  <2> QED BY <2>1, <1>1, <1>2 DEF EntryOK, Entry
<1>3. CASE e.json = c
  <2>1. Heard(e, c) = [e EXCEPT !.heard = @ \cup {c}]
    BY <1>3 DEF Heard
  <2>2. e.heard = {c} /\ e.json # NoContent
    BY <1>3, Limits DEF EntryOK
  <2> QED BY <2>1, <2>2, <1>1, <1>3 DEF EntryOK, Entry
<1>4. CASE e.json \notin {NoContent, c}
  <2>1. Heard(e, c) = [e EXCEPT !.json = NoContent, !.bytes = Overhead, !.heard = @ \cup {c}]
    BY <1>4 DEF Heard
  <2>2. e.heard = {e.json} /\ e.json # c
    BY <1>4 DEF EntryOK
  <2>3. /\ Heard(e, c) \in Entry
        /\ Heard(e, c).json = NoContent /\ Heard(e, c).bytes = Overhead
        /\ Heard(e, c).older = e.older /\ Heard(e, c).heard = {e.json, c}
    <3>1. {e.json} \cup {c} = {e.json, c}
      OBVIOUS
    <3>2. /\ Heard(e, c) \in Entry
          /\ Heard(e, c).json = NoContent /\ Heard(e, c).bytes = Overhead
          /\ Heard(e, c).older = e.older /\ Heard(e, c).heard = e.heard \cup {c}
      BY <2>1, <1>1 DEF Entry
    <3> QED BY <2>2, <3>1, <3>2
  <2>4. \E x, y \in Heard(e, c).heard : x # y
    BY <2>2, <2>3
  <2>5. EntryOK(Heard(e, c))
    BY <2>3, <2>4, <1>1 DEF EntryOK
  <2>6. {"bytes", "older"} \subseteq DOMAIN Heard(e, c)
    BY <2>3 DEF Entry
  <2> QED BY <2>3, <2>5, <2>6, <1>1
<1> QED BY <1>2, <1>3, <1>4

LEMMA ReheardKeeps ==
  ASSUME NEW es, MapOK(es), Affordable(es), NEW k \in DOMAIN es, NEW c \in Contents
  PROVE  LET e == Heard(es[k], c)
             fs == [es EXCEPT ![k] = e]
         IN /\ MapOK(fs) /\ Affordable(fs) /\ DOMAIN fs = DOMAIN es
            /\ Sum(fs, DOMAIN fs) = Sum(es, DOMAIN es) - (es[k].bytes - e.bytes)
<1> DEFINE e == Heard(es[k], c)
           fs == [es EXCEPT ![k] = e]
<1>1. EntryOK(es[k]) /\ k \notin es[k].older /\ es[k].bytes \in Nat
  BY DEF MapOK, Sized
<1>2. /\ EntryOK(e) /\ e.older = es[k].older /\ e.bytes <= es[k].bytes
      /\ {"bytes", "older"} \subseteq DOMAIN e /\ e.bytes \in Nat
  <2>1. EntryOK(e) /\ e.older = es[k].older /\ e.bytes <= es[k].bytes /\ {"bytes", "older"} \subseteq DOMAIN e
    BY <1>1, HeardKeeps
  <2> HIDE DEF e
  <2> QED BY <2>1 DEF EntryOK, Entry
<1> HIDE DEF e
<1>3. /\ Sized(fs) /\ DOMAIN fs = DOMAIN es
      /\ \A S \in SUBSET DOMAIN es :
           /\ Sum(fs, S) = IF k \in S THEN Sum(es, S) - (es[k].bytes - e.bytes) ELSE Sum(es, S)
           /\ Sum(es, S) \in Nat
  <2>1. Sized(es)
    BY DEF MapOK
  <2>2. k \notin e.older
    BY <1>1, <1>2
  <2> QED BY <1>2, <2>1, <2>2, ShrunkSums
<1>4. fs = [x \in DOMAIN fs |-> fs[x]] /\ fs[k] = e /\ \A x \in DOMAIN es \ {k} : fs[x] = es[x]
  BY DEF MapOK
<1> HIDE DEF fs
<1>5. MapOK(fs)
  BY <1>2, <1>3, <1>4 DEF MapOK
<1>6. \A o : Of(fs, o) = Of(es, o) /\ Of(es, o) \subseteq DOMAIN es
  BY <1>3 DEF Of
<1>7. \A S \in SUBSET DOMAIN es : Sum(fs, S) <= Sum(es, S) /\ Sum(fs, S) \in Int
  BY <1>1, <1>2, <1>3
<1>8. Affordable(fs)
  <2>1. ASSUME NEW S \in SUBSET DOMAIN es, NEW b \in Nat, NEW n \in Nat, Within(es, S, b, n)
        PROVE  Within(fs, S, b, n)
    BY <2>1, <1>3, <1>7 DEF Within
  <2> QED BY <2>1, <1>3, <1>6, Limits DEF Affordable
<1> QED BY <1>3, <1>5, <1>8 DEF e, fs

(* A new entry for which there is room.                                     *)
LEMMA PutKeeps ==
  ASSUME NEW es, MapOK(es), Affordable(es), NEW k \in Keys, k \notin DOMAIN es,
         NEW c \in Contents, NEW time \in Nat,
         Sum(es, DOMAIN es) + Bytes(c) <= MaxBytes, Cardinality(DOMAIN es) < MaxEntries,
         Sum(es, Of(es, k[1])) + Bytes(c) <= MaxCredentialBytes,
         Cardinality(Of(es, k[1])) < MaxCredentialEntries
  PROVE  LET fs == Put(es, k, New(es, c, time))
         IN /\ MapOK(fs) /\ Affordable(fs)
            /\ Sum(fs, DOMAIN fs) = Sum(es, DOMAIN es) + Bytes(c)
<1> DEFINE e == New(es, c, time)
           fs == Put(es, k, e)
<1>1. /\ e.json = c /\ e.bytes = Bytes(c) /\ e.older = DOMAIN es /\ e.heard = {c}
      /\ {"bytes", "older"} \subseteq DOMAIN e
  BY DEF New
<1>2. EntryOK(e)
  <2>1. e \in Entry
    BY Limits DEF New, Entry, MapOK
  <2> HIDE DEF e
  <2> QED BY <1>1, <2>1, Limits DEF EntryOK
<1>3. fs = [x \in DOMAIN fs |-> fs[x]] /\ DOMAIN fs = DOMAIN es \cup {k} /\ fs[k] = e
      /\ \A x \in DOMAIN es : fs[x] = es[x]
  BY DEF Put
<1> HIDE DEF e
<1>4. /\ Sized(fs)
      /\ \A S \in SUBSET DOMAIN es :
           /\ Sum(fs, S) = Sum(es, S)
           /\ Sum(fs, S \cup {k}) = Sum(es, S) + e.bytes
           /\ IsFiniteSet(S) /\ Cardinality(S \cup {k}) = Cardinality(S) + 1
           /\ Cardinality(S) \in Nat /\ Sum(es, S) \in Nat
  <2>1. Sized(es) /\ e.bytes \in Nat /\ k \notin e.older
    BY <1>1, Limits DEF MapOK
  <2> QED BY <1>1, <2>1, PutSums
<1> HIDE DEF fs
<1>5. MapOK(fs)
  <2>1. ASSUME NEW x \in DOMAIN fs PROVE EntryOK(fs[x]) /\ fs[x].older \subseteq DOMAIN fs
    <3>1. CASE x = k
      BY <1>1, <1>2, <1>3, <3>1
    <3>2. CASE x # k
      BY <1>3, <3>2 DEF MapOK
    <3> QED BY <3>1, <3>2
  <2> QED BY <1>3, <1>4, <2>1 DEF MapOK
<1>6. ASSUME NEW o \in Owners
      PROVE  /\ Of(es, o) \in SUBSET DOMAIN es
             /\ Of(fs, o) = IF o = k[1] THEN Of(es, o) \cup {k} ELSE Of(es, o)
  BY <1>3 DEF Of
<1>7. Within(fs, DOMAIN fs, MaxBytes, MaxEntries)
  BY <1>1, <1>3, <1>4, Limits DEF Within
<1>8. ASSUME NEW o \in Owners
      PROVE  Within(fs, Of(fs, o), MaxCredentialBytes, MaxCredentialEntries)
  <2>1. CASE o = k[1]
    <3>1. /\ Of(fs, o) = Of(es, o) \cup {k}
          /\ Sum(fs, Of(fs, o)) = Sum(es, Of(es, o)) + Bytes(c)
          /\ Cardinality(Of(fs, o)) = Cardinality(Of(es, o)) + 1
          /\ Cardinality(Of(es, o)) \in Nat
      BY <2>1, <1>1, <1>4, <1>6
    <3> QED BY <2>1, <3>1, Limits DEF Within
  <2>2. CASE o # k[1]
    <3>1. Of(fs, o) = Of(es, o) /\ Sum(fs, Of(fs, o)) = Sum(es, Of(es, o))
      BY <2>2, <1>4, <1>6
    <3> QED BY <3>1 DEF Affordable, Within
  <2> QED BY <2>1, <2>2
<1>9. Sum(fs, DOMAIN fs) = Sum(es, DOMAIN es) + Bytes(c)
  BY <1>1, <1>3, <1>4
<1> QED BY <1>5, <1>7, <1>8, <1>9 DEF Affordable, fs, e

LEMMA AllRoom ==
  ASSUME NEW es, MapOK(es), NEW c \in Contents, ~ TooLarge(c)
  PROVE  LET gone == Victims([k \in DOMAIN es |-> es[k].older], Sizes(es), Sum(es, DOMAIN es), Bytes(c),
                             MaxBytes, MaxEntries)
         IN /\ gone \in SUBSET DOMAIN es
            /\ Sum(es, DOMAIN es \ gone) + Bytes(c) <= MaxBytes
            /\ Cardinality(DOMAIN es \ gone) < MaxEntries
<1> DEFINE older == [k \in DOMAIN es |-> es[k].older]
<1>1. DOMAIN older = DOMAIN es /\ IsFiniteSet(DOMAIN es)
  BY DEF MapOK, Sized
<1>2. \A k \in DOMAIN es : k \notin older[k] /\ Sizes(es)[k] \in Nat
  BY DEF Sizes, MapOK, Sized
<1>3. Bytes(c) \in Nat /\ Bytes(c) <= MaxBytes
  BY Limits, SmallEnough
<1> HIDE DEF older
<1>4. LET gone == Victims(older, Sizes(es), Total(Sizes(es), DOMAIN older), Bytes(c), MaxBytes, MaxEntries)
      IN /\ gone \subseteq DOMAIN older
         /\ Total(Sizes(es), DOMAIN older \ gone) + Bytes(c) <= MaxBytes
         /\ Cardinality(DOMAIN older \ gone) < MaxEntries
  BY <1>1, <1>2, <1>3, Limits, RoomMade
<1> QED BY <1>1, <1>4 DEF Sum, older

(* An empty map.                                                            *)
LEMMA EmptyOK ==
  ASSUME NEW es, es = << >>
  PROVE  MapOK(es) /\ Affordable(es) /\ Sum(es, DOMAIN es) = 0
<1>1. DOMAIN es = {} /\ es = [k \in DOMAIN es |-> es[k]]
  OBVIOUS
<1>2. MapOK(es)
  BY <1>1, FS_EmptySet DEF MapOK, Sized
<1>3. Sum(es, {}) = 0 /\ Cardinality({}) = 0
  BY SumEmpty, FS_EmptySet
<1>4. \A b \in Nat, n \in Nat : Within(es, {}, b, n)
  BY <1>3 DEF Within
<1>5. \A o \in Owners : Of(es, o) = {}
  BY <1>1 DEF Of
<1>6. Affordable(es)
  BY <1>1, <1>4, <1>5, Limits DEF Affordable
<1> QED BY <1>1, <1>2, <1>3, <1>6

-----------------------------------------------------------------------------
(* Each step of an operation keeps entries, counter and records in step.    *)

LEMMA RecordOf ==
  ASSUME NEW s, CacheOK(s), NEW o
  PROVE  /\ (o \in DOMAIN s.usage) = (Of(s.entries, o) # {})
         /\ o \in DOMAIN s.usage => /\ s.usage[o] = Record(s.entries, o)
                                    /\ s.usage[o].bytes = Sum(s.entries, Of(s.entries, o))
                                    /\ DOMAIN s.usage[o].older = Of(s.entries, o)
         /\ Of(s.entries, o) \in SUBSET DOMAIN s.entries
         /\ IsFiniteSet(Of(s.entries, o))
<1>1. s.usage = [x \in Credentials(s.entries) |-> Record(s.entries, x)]
  BY DEF CacheOK
<1>2. Of(s.entries, o) \in SUBSET DOMAIN s.entries
  BY DEF Of
<1>3. (o \in Credentials(s.entries)) = (Of(s.entries, o) # {})
  BY DEF Credentials, Of
<1>4. IsFiniteSet(Of(s.entries, o))
  BY <1>2, FS_Subset DEF CacheOK, MapOK, Sized
<1>5. Record(s.entries, o).bytes = Sum(s.entries, Of(s.entries, o)) /\ DOMAIN Record(s.entries, o).older = Of(s.entries, o)
  BY DEF Record
<1> QED BY <1>1, <1>2, <1>3, <1>4, <1>5

(* Removing entries adjusts all three, and drops the records of credentials *)
(* that hold nothing any more.                                              *)
LEMMA RemovedKeeps ==
  ASSUME NEW s, CacheOK(s), NEW gone \in SUBSET DOMAIN s.entries
  PROVE  /\ CacheOK(Removed(s, gone))
         /\ Removed(s, gone).entries = Dropped(s.entries, gone)
<1> DEFINE es == s.entries
           fs == Dropped(es, gone)
           t  == Removed(s, gone)
           use(o) == [bytes |-> s.usage[o].bytes - Sum(es, DOMAIN s.usage[o].older \cap gone),
                      older |-> [k \in DOMAIN s.usage[o].older \ gone |-> s.usage[o].older[k] \ gone]]
<1>1. /\ t.entries = fs /\ t.bytes = s.bytes - Sum(es, gone)
      /\ t.usage = [o \in Users(s, gone) |-> use(o)]
  BY DEF Removed
<1>2. MapOK(es) /\ Affordable(es) /\ s.bytes = Sum(es, DOMAIN es)
  BY DEF CacheOK
<1>3. /\ MapOK(fs) /\ Affordable(fs) /\ DOMAIN fs = DOMAIN es \ gone
      /\ \A S \in SUBSET (DOMAIN es \ gone) : Sum(fs, S) = Sum(es, S)
      /\ Sum(fs, DOMAIN es \ gone) = Sum(es, DOMAIN es) - Sum(es, gone)
  BY <1>2, DroppedKeeps, DroppedAffordable
<1>4. \A k \in DOMAIN fs : fs[k].older = es[k].older \ gone
  <2> SUFFICES ASSUME NEW k \in DOMAIN fs PROVE fs[k].older = es[k].older \ gone
    OBVIOUS
  <2>1. es[k] \in Entry
    BY <1>2, <1>3 DEF MapOK, EntryOK
  <2>2. fs[k] = [es[k] EXCEPT !.older = @ \ gone]
    BY <1>3 DEF Dropped
  <2> HIDE DEF fs, es
  <2> QED BY <2>1, <2>2 DEF Entry
<1> HIDE DEF fs, t
<1>5. ASSUME NEW o PROVE Of(fs, o) = Of(es, o) \ gone
  BY <1>3 DEF Of
<1>6. ASSUME NEW o PROVE (o \in Users(s, gone)) = (o \in Credentials(fs))
  <2>1. (o \in DOMAIN s.usage) = (Of(es, o) # {}) /\ (o \in DOMAIN s.usage => DOMAIN s.usage[o].older = Of(es, o))
    BY RecordOf
  <2>2. (o \in Credentials(fs)) = (Of(fs, o) # {})
    BY DEF Credentials, Of
  <2> QED BY <2>1, <2>2, <1>5 DEF Users
<1>7. ASSUME NEW o \in Users(s, gone) PROVE use(o) = Record(fs, o)
  <2> DEFINE own == Of(es, o)
  <2>1. o \in DOMAIN s.usage /\ s.usage[o] = Record(es, o) /\ own \in SUBSET DOMAIN es /\ IsFiniteSet(own)
    BY RecordOf DEF Users
  <2>2. s.usage[o].bytes = Sum(es, own) /\ s.usage[o].older = [k \in own |-> es[k].older \cap own]
    BY <2>1 DEF Record
  <2>3. Sum(fs, own \ gone) = Sum(es, own) - Sum(es, own \cap gone)
    <3>1. own \ (own \cap gone) = own \ gone /\ own \ gone \in SUBSET (DOMAIN es \ gone) /\ own \cap gone \in SUBSET own
      BY <2>1
    <3>2. \A k \in own : es[k].bytes \in Nat
      BY <2>1, <1>2 DEF MapOK, Sized
    <3> HIDE DEF own, es
    <3>3. Sum(es, own \ (own \cap gone)) = Sum(es, own) - Sum(es, own \cap gone)
      BY <2>1, <3>1, <3>2, SumLess
    <3> QED BY <3>1, <3>3, <1>3
  <2>4. use(o).older = [k \in own \ gone |-> fs[k].older \cap (own \ gone)]
    <3>1. use(o).older = [k \in own \ gone |-> (es[k].older \cap own) \ gone]
      BY <2>2
    <3>2. \A k \in own \ gone : (es[k].older \cap own) \ gone = fs[k].older \cap (own \ gone)
      BY <2>1, <1>3, <1>4
    <3> QED BY <3>1, <3>2
  <2>5. use(o).bytes = Sum(fs, own \ gone)
    BY <2>2, <2>3
  <2>6. Of(fs, o) = own \ gone
    BY <1>5
  <2>7. use(o) = [bytes |-> use(o).bytes, older |-> use(o).older]
    OBVIOUS
  <2> HIDE DEF use, own
  <2> QED BY <2>4, <2>5, <2>6, <2>7 DEF Record
<1>8. t.usage = [o \in Credentials(fs) |-> Record(fs, o)]
  <2>1. Users(s, gone) = Credentials(fs)
    BY <1>6
  <2> HIDE DEF use
  <2> QED BY <1>1, <1>7, <2>1
<1>9. t.bytes = Sum(fs, DOMAIN fs)
  BY <1>1, <1>2, <1>3
<1> HIDE DEF es
<1> QED BY <1>1, <1>3, <1>8, <1>9 DEF CacheOK, t, fs, es

(* The records of credentials whose entries a step leaves alone.            *)
LEMMA RecordSame ==
  ASSUME NEW es, NEW fs, NEW o, MapOK(es), Of(fs, o) = Of(es, o),
         Of(fs, o) \subseteq DOMAIN fs,
         \A k \in Of(es, o) : fs[k].bytes = es[k].bytes
                              /\ fs[k].older \cap Of(es, o) = es[k].older \cap Of(es, o)
  PROVE  Record(fs, o) = Record(es, o)
<1> DEFINE own == Of(es, o)
<1>1. own \subseteq DOMAIN es
  BY DEF Of
<1>2. Sum(es, own) = Sum(fs, own)
  BY <1>1, SumSame
<1> QED BY <1>2 DEF Record

LEMMA InsertedKeeps ==
  ASSUME NEW s, CacheOK(s), NEW k \in Keys, k \notin DOMAIN s.entries,
         NEW c \in Contents, NEW time \in Nat,
         Sum(s.entries, DOMAIN s.entries) + Bytes(c) <= MaxBytes,
         Cardinality(DOMAIN s.entries) < MaxEntries,
         Sum(s.entries, Of(s.entries, k[1])) + Bytes(c) <= MaxCredentialBytes,
         Cardinality(Of(s.entries, k[1])) < MaxCredentialEntries
  PROVE  CacheOK(Inserted(s, k, New(s.entries, c, time)))
<1> DEFINE es == s.entries
           e  == New(es, c, time)
           fs == Put(es, k, e)
           o  == k[1]
           u  == IF o \in DOMAIN s.usage THEN s.usage[o] ELSE [bytes |-> 0, older |-> << >>]
           v  == [bytes |-> u.bytes + e.bytes, older |-> Put(u.older, k, DOMAIN u.older)]
           t  == Inserted(s, k, e)
<1>1. t.entries = fs /\ t.bytes = s.bytes + e.bytes /\ t.usage = Put(s.usage, o, v)
  BY DEF Inserted
<1>2. MapOK(es) /\ Affordable(es) /\ s.bytes = Sum(es, DOMAIN es)
  BY DEF CacheOK
<1>3. MapOK(fs) /\ Affordable(fs) /\ Sum(fs, DOMAIN fs) = Sum(es, DOMAIN es) + Bytes(c)
  BY <1>2, PutKeeps
<1>4. /\ DOMAIN fs = DOMAIN es \cup {k} /\ fs[k] = e /\ \A x \in DOMAIN es : fs[x] = es[x]
      /\ e.bytes = Bytes(c) /\ e.older = DOMAIN es
  BY DEF Put, New
<1>5. t.bytes = Sum(fs, DOMAIN fs)
  BY <1>1, <1>2, <1>3, <1>4
<1>6. /\ u.bytes = Sum(es, Of(es, o)) /\ DOMAIN u.older = Of(es, o)
      /\ \A x \in Of(es, o) : u.older[x] = es[x].older \cap Of(es, o)
  <2>1. CASE o \in DOMAIN s.usage
    <3>1. u = Record(es, o)
      BY <2>1, RecordOf
    <3> HIDE DEF u, es
    <3> QED BY <3>1 DEF Record
  <2>2. CASE o \notin DOMAIN s.usage
    <3>1. Of(es, o) = {}
      BY <2>2, RecordOf
    <3>2. Sum(es, {}) = 0
      BY SumEmpty
    <3>3. u.bytes = 0 /\ DOMAIN u.older = {}
      BY <2>2
    <3> HIDE DEF u, es
    <3> QED BY <3>1, <3>2, <3>3
  <2> QED BY <2>1, <2>2
<1>7. Of(fs, o) = Of(es, o) \cup {k} /\ \A x : x # o => Of(fs, x) = Of(es, x)
  <2> HIDE DEF fs, es, e
  <2> QED BY <1>4 DEF Of
<1>8. v = Record(fs, o)
  <2> DEFINE own == Of(es, o)
  <2>1. own \in SUBSET DOMAIN es /\ k \notin own /\ k \notin DOMAIN es
    BY DEF Of
  <2>2. Sum(fs, own \cup {k}) = Sum(es, own) + e.bytes
    <3>1. Sized(es) /\ e.bytes \in Nat /\ k \notin e.older /\ {"bytes", "older"} \subseteq DOMAIN e
      BY <1>2, <1>4, Limits DEF MapOK, New
    <3> HIDE DEF es, e, own
    <3>2. /\ Sized(fs) /\ DOMAIN fs = DOMAIN es \cup {k}
          /\ \A S \in SUBSET DOMAIN es :
               /\ Sum(fs, S) = Sum(es, S)
               /\ Sum(fs, S \cup {k}) = Sum(es, S) + e.bytes
               /\ IsFiniteSet(S) /\ Cardinality(S \cup {k}) = Cardinality(S) + 1
               /\ Cardinality(S) \in Nat /\ Sum(es, S) \in Nat
      BY <2>1, <3>1, PutSums
    <3> QED BY <2>1, <3>2
  <2>3. v.bytes = Sum(fs, Of(fs, o))
    <3> HIDE DEF fs, es, e, u
    <3> QED BY <2>2, <1>6, <1>7
  <2>4. \A x \in own : es[x].older \subseteq DOMAIN es
    BY <2>1, <1>2 DEF MapOK
  <2>5. v.older = [x \in Of(fs, o) |-> fs[x].older \cap Of(fs, o)]
    <3>1. v.older = [x \in own \cup {k} |-> IF x = k THEN own ELSE u.older[x]]
      BY <1>6 DEF Put
    <3>2. k \notin DOMAIN es
      OBVIOUS
    <3> HIDE DEF v, u, fs, e, es
    <3>3. fs[k].older \cap (own \cup {k}) = own
      BY <1>4, <2>1, <3>2
    <3>4. \A x \in own : fs[x].older \cap (own \cup {k}) = u.older[x]
      BY <1>4, <1>6, <2>1, <2>4, <3>2
    <3>5. \A x \in own \cup {k} : (IF x = k THEN own ELSE u.older[x]) = fs[x].older \cap (own \cup {k})
      BY <3>3, <3>4, <2>1
    <3> QED BY <3>1, <3>5, <1>7
  <2>6. v = [bytes |-> v.bytes, older |-> v.older]
    OBVIOUS
  <2> HIDE DEF v
  <2> QED BY <2>3, <2>5, <2>6 DEF Record
<1>9. t.usage = [x \in Credentials(fs) |-> Record(fs, x)]
  <2>1. s.usage = [x \in Credentials(es) |-> Record(es, x)]
    BY DEF CacheOK
  <2>2. Credentials(fs) = Credentials(es) \cup {o}
    BY <1>4 DEF Credentials
  <2>3. ASSUME NEW x, x # o PROVE Record(fs, x) = Record(es, x)
    <3>1. Of(fs, x) = Of(es, x) /\ Of(es, x) \subseteq DOMAIN es /\ Of(fs, x) \subseteq DOMAIN fs
      BY <1>7, <2>3 DEF Of
    <3> HIDE DEF fs, es
    <3> QED BY <3>1, <1>2, <1>4, RecordSame
  <2> HIDE DEF v, fs, es, e, o, t
  <2> QED BY <1>1, <1>8, <2>1, <2>2, <2>3 DEF Put
<1> HIDE DEF es, e, t
<1> QED BY <1>1, <1>3, <1>5, <1>9 DEF CacheOK, es, e, t

(* A contradiction shrinks the entry and all that counts it.                *)
LEMMA ReheardKeepsAll ==
  ASSUME NEW s, CacheOK(s), NEW k \in DOMAIN s.entries, NEW c \in Contents
  PROVE  CacheOK(Reheard(s, k, c))
<1> DEFINE es == s.entries
           e  == Heard(es[k], c)
           fs == [es EXCEPT ![k] = e]
           freed == es[k].bytes - e.bytes
           t  == Reheard(s, k, c)
<1>1. /\ t.entries = fs /\ t.bytes = s.bytes - freed
      /\ t.usage = [o \in DOMAIN s.usage |-> IF o = k[1] THEN [s.usage[o] EXCEPT !.bytes = @ - freed]
                                                         ELSE s.usage[o]]
  BY DEF Reheard
<1>2. MapOK(es) /\ Affordable(es) /\ s.bytes = Sum(es, DOMAIN es)
  BY DEF CacheOK
<1>3. /\ MapOK(fs) /\ Affordable(fs) /\ DOMAIN fs = DOMAIN es
      /\ Sum(fs, DOMAIN fs) = Sum(es, DOMAIN es) - freed
  BY <1>2, ReheardKeeps
<1>4. EntryOK(es[k]) /\ es[k].bytes \in Nat /\ Sized(es) /\ k \notin es[k].older
  BY <1>2 DEF MapOK, Sized
<1>5. /\ EntryOK(e) /\ e.older = es[k].older /\ {"bytes", "older"} \subseteq DOMAIN e
  BY <1>4, HeardKeeps
<1>6. e.bytes \in Nat /\ k \notin e.older
  BY <1>4, <1>5 DEF EntryOK, Entry
<1>7. /\ fs[k] = e /\ \A x \in DOMAIN es \ {k} : fs[x] = es[x]
  OBVIOUS
<1>8. ASSUME NEW S \in SUBSET DOMAIN es, k \in S
      PROVE  Sum(fs, S) = Sum(es, S) - freed
  <2> HIDE DEF e, es
  <2> QED BY <1>4, <1>5, <1>6, <1>8, ShrunkSums
<1> HIDE DEF e, freed, fs
<1>9. \A o : Of(fs, o) = Of(es, o) /\ Of(es, o) \in SUBSET DOMAIN es
  BY <1>3 DEF Of
<1>10. \A x \in DOMAIN es : fs[x].older = es[x].older
  BY <1>5, <1>7
<1>11. s.usage = [o \in Credentials(es) |-> Record(es, o)] /\ Credentials(fs) = Credentials(es)
  BY <1>3 DEF CacheOK, Credentials
<1>12. ASSUME NEW o \in Credentials(es), o # k[1] PROVE Record(fs, o) = Record(es, o)
  <2>1. \A x \in Of(es, o) : x \in DOMAIN es \ {k}
    BY <1>12 DEF Of
  <2> HIDE DEF es
  <2> QED BY <2>1, <1>2, <1>3, <1>7, <1>9, RecordSame
<1>13. ASSUME NEW o, o = k[1] PROVE [Record(es, o) EXCEPT !.bytes = @ - freed] = Record(fs, o)
  <2>1. k \in Of(es, o)
    BY <1>13 DEF Of
  <2> HIDE DEF es
  <2>2. Sum(fs, Of(es, o)) = Sum(es, Of(es, o)) - freed
    BY <2>1, <1>8, <1>9
  <2>3. [x \in Of(fs, o) |-> fs[x].older \cap Of(fs, o)] = [x \in Of(es, o) |-> es[x].older \cap Of(es, o)]
    BY <1>9, <1>10
  <2> DEFINE older == [x \in Of(es, o) |-> es[x].older \cap Of(es, o)]
  <2>4. Record(es, o) = [bytes |-> Sum(es, Of(es, o)), older |-> older]
    BY DEF Record
  <2>5. Record(fs, o) = [bytes |-> Sum(fs, Of(es, o)), older |-> older]
    BY <2>3, <1>9 DEF Record
  <2> HIDE DEF older
  <2> QED BY <2>2, <2>4, <2>5
<1>14. t.usage = [o \in Credentials(fs) |-> Record(fs, o)]
  <2> HIDE DEF es, t
  <2>1. DOMAIN s.usage = Credentials(es) /\ \A o \in Credentials(es) : s.usage[o] = Record(es, o)
    BY <1>11
  <2>2. \A o \in Credentials(es) :
          (IF o = k[1] THEN [s.usage[o] EXCEPT !.bytes = @ - freed] ELSE s.usage[o]) = Record(fs, o)
    BY <2>1, <1>12, <1>13, Zenon
  <2> QED BY <1>1, <1>11, <2>1, <2>2
<1>15. t.bytes = Sum(fs, DOMAIN fs)
  BY <1>1, <1>2, <1>3
<1> HIDE DEF es, t
<1> QED BY <1>1, <1>3, <1>14, <1>15 DEF CacheOK, t

(* Room in the credential's share, by its record.                           *)
LEMMA OwnRoomKeeps ==
  ASSUME NEW s, CacheOK(s), NEW o \in Owners, NEW c \in Contents, ~ TooLarge(c)
  PROVE  LET t == OwnRoom(s, o, Bytes(c))
         IN /\ CacheOK(t) /\ DOMAIN t.entries \subseteq DOMAIN s.entries
            /\ Sum(t.entries, Of(t.entries, o)) + Bytes(c) <= MaxCredentialBytes
            /\ Cardinality(Of(t.entries, o)) < MaxCredentialEntries
<1> DEFINE es  == s.entries
           own == Of(es, o)
           t   == OwnRoom(s, o, Bytes(c))
<1>1. /\ (o \in DOMAIN s.usage) = (own # {})
      /\ o \in DOMAIN s.usage => /\ s.usage[o] = Record(es, o)
                                 /\ s.usage[o].bytes = Sum(es, own)
                                 /\ DOMAIN s.usage[o].older = own
      /\ own \in SUBSET DOMAIN es /\ IsFiniteSet(own)
  BY RecordOf
<1>2. MapOK(es) /\ Bytes(c) \in Nat /\ Bytes(c) <= MaxCredentialBytes
  BY Limits, SmallEnough DEF CacheOK
<1>3. CASE o \notin DOMAIN s.usage
  <2>1. t = s /\ own = {}
    BY <1>1, <1>3 DEF OwnRoom
  <2>2. Sum(es, {}) = 0 /\ Cardinality({}) = 0
    BY SumEmpty, FS_EmptySet
  <2>3. Sum(es, own) + Bytes(c) <= MaxCredentialBytes /\ Cardinality(own) < MaxCredentialEntries
    BY <2>1, <2>2, <1>2, Limits
  <2>4. /\ CacheOK(t) /\ DOMAIN t.entries \subseteq DOMAIN es
        /\ Sum(t.entries, Of(t.entries, o)) + Bytes(c) <= MaxCredentialBytes
        /\ Cardinality(Of(t.entries, o)) < MaxCredentialEntries
    <3> HIDE DEF t
    <3> QED BY <2>1, <2>3
  <2> HIDE DEF t
  <2> QED BY <2>4 DEF t
<1>4. CASE o \in DOMAIN s.usage
  <2> DEFINE older == s.usage[o].older
             gone  == Victims(older, Sizes(es), Total(Sizes(es), DOMAIN older), Bytes(c),
                              MaxCredentialBytes, MaxCredentialEntries)
  <2>1. DOMAIN older = own /\ \A k \in own : older[k] = es[k].older \cap own
    <3>1. s.usage[o] = Record(es, o)
      BY <1>1, <1>4
    <3> QED BY <3>1 DEF Record
  <2>2. t = Removed(s, gone)
    <3>1. s.usage[o].bytes = Total(Sizes(es), DOMAIN older)
      BY <1>1, <1>4, <2>1 DEF Sum
    <3> QED BY <1>4, <3>1 DEF OwnRoom
  <2>3. /\ IsFiniteSet(DOMAIN older) /\ \A x \in DOMAIN older : x \notin older[x]
        /\ \A x \in DOMAIN older : Sizes(es)[x] \in Nat
    <3> HIDE DEF older, own, es
    <3> QED BY <1>1, <1>2, <2>1 DEF MapOK, Sized, Sizes
  <2>4. MaxCredentialBytes \in Nat /\ MaxCredentialEntries \in Nat \ {0}
    BY Limits
  <2>5. /\ gone \subseteq DOMAIN older
        /\ Total(Sizes(es), DOMAIN older \ gone) + Bytes(c) <= MaxCredentialBytes
        /\ Cardinality(DOMAIN older \ gone) < MaxCredentialEntries
    <3> HIDE DEF older, es
    <3> QED BY <1>2, <2>3, <2>4, RoomMade
  <2> HIDE DEF gone, older
  <2>6. gone \in SUBSET DOMAIN es /\ gone \subseteq own
    BY <1>1, <2>1, <2>5
  <2>7. CacheOK(t) /\ t.entries = Dropped(es, gone)
    BY <2>2, <2>6, RemovedKeeps
  <2>8. /\ DOMAIN t.entries = DOMAIN es \ gone
        /\ \A S \in SUBSET (DOMAIN es \ gone) : Sum(t.entries, S) = Sum(es, S)
    <3> HIDE DEF t, es, own
    <3>1. /\ DOMAIN Dropped(es, gone) = DOMAIN es \ gone
          /\ \A S \in SUBSET (DOMAIN es \ gone) : Sum(Dropped(es, gone), S) = Sum(es, S)
      BY <1>2, <2>6, DroppedKeeps
    <3> QED BY <2>7, <3>1
  <2> HIDE DEF t
  <2>9. Of(t.entries, o) = own \ gone /\ own \ gone \in SUBSET (DOMAIN es \ gone)
    BY <2>8 DEF Of
  <2>10. Sum(t.entries, Of(t.entries, o)) = Total(Sizes(es), own \ gone)
    BY <2>8, <2>9 DEF Sum
  <2> QED BY <2>1, <2>5, <2>7, <2>8, <2>9, <2>10 DEF t
<1> QED BY <1>3, <1>4

(* Room in the whole map, by the counter; the share stays free.             *)
LEMMA RoomKeeps ==
  ASSUME NEW s, CacheOK(s), NEW o \in Owners, NEW c \in Contents, ~ TooLarge(c),
         Sum(s.entries, Of(s.entries, o)) + Bytes(c) <= MaxCredentialBytes,
         Cardinality(Of(s.entries, o)) < MaxCredentialEntries
  PROVE  LET t == Room(s, Bytes(c))
         IN /\ CacheOK(t) /\ DOMAIN t.entries \subseteq DOMAIN s.entries
            /\ Sum(t.entries, DOMAIN t.entries) + Bytes(c) <= MaxBytes
            /\ Cardinality(DOMAIN t.entries) < MaxEntries
            /\ Sum(t.entries, Of(t.entries, o)) + Bytes(c) <= MaxCredentialBytes
            /\ Cardinality(Of(t.entries, o)) < MaxCredentialEntries
<1> DEFINE es   == s.entries
           gone == Victims([k \in DOMAIN es |-> es[k].older], Sizes(es), Sum(es, DOMAIN es),
                           Bytes(c), MaxBytes, MaxEntries)
           t    == Room(s, Bytes(c))
<1>1. MapOK(es) /\ s.bytes = Sum(es, DOMAIN es)
  BY DEF CacheOK
<1>2. t = Removed(s, gone)
  BY <1>1 DEF Room
<1>3. /\ gone \in SUBSET DOMAIN es
      /\ Sum(es, DOMAIN es \ gone) + Bytes(c) <= MaxBytes
      /\ Cardinality(DOMAIN es \ gone) < MaxEntries
  BY <1>1, AllRoom
<1> HIDE DEF gone
<1>4. CacheOK(t) /\ t.entries = Dropped(es, gone)
  BY <1>2, <1>3, RemovedKeeps
<1>5. /\ DOMAIN t.entries = DOMAIN es \ gone
      /\ \A S \in SUBSET (DOMAIN es \ gone) : Sum(t.entries, S) = Sum(es, S)
  BY <1>1, <1>3, <1>4, DroppedKeeps
<1> HIDE DEF t
<1>6. Sum(t.entries, DOMAIN t.entries) = Sum(es, DOMAIN es \ gone)
  BY <1>5
<1>7. /\ Sum(t.entries, Of(t.entries, o)) <= Sum(es, Of(es, o))
      /\ Sum(t.entries, Of(t.entries, o)) \in Nat /\ Sum(es, Of(es, o)) \in Nat
      /\ Cardinality(Of(t.entries, o)) <= Cardinality(Of(es, o))
      /\ Cardinality(Of(t.entries, o)) \in Nat /\ Cardinality(Of(es, o)) \in Nat
  <2> DEFINE S == Of(es, o)
             T == Of(t.entries, o)
  <2>1. S \in SUBSET DOMAIN es /\ T \in SUBSET S /\ T \in SUBSET (DOMAIN es \ gone)
    BY <1>5 DEF Of
  <2> HIDE DEF S, T
  <2>2. IsFiniteSet(S) /\ Sum(t.entries, T) = Sum(es, T)
    BY <2>1, <1>1, <1>5, FS_Subset DEF MapOK, Sized
  <2>3. Cardinality(T) <= Cardinality(S) /\ Cardinality(T) \in Nat /\ Cardinality(S) \in Nat
    BY <2>1, <2>2, FS_Subset, FS_CardinalityType
  <2>4. Sum(es, T) <= Sum(es, S) /\ Sum(es, T) \in Nat /\ Sum(es, S) \in Nat
    BY <2>1, <2>2, <1>1, SumLess DEF MapOK, Sized
  <2> QED BY <2>2, <2>3, <2>4 DEF S, T
<1>8. /\ Sum(t.entries, Of(t.entries, o)) + Bytes(c) <= MaxCredentialBytes
      /\ Cardinality(Of(t.entries, o)) < MaxCredentialEntries
  BY <1>7, Limits
<1> QED BY <1>3, <1>4, <1>5, <1>6, <1>8 DEF t

LEMMA ItemKeeps ==
  ASSUME NEW s, CacheOK(s), now \in Nat, NEW o \in Owners,
         NEW item \in [id : Ids, json : Contents]
  PROVE  CacheOK(Item(s, o, item))
<1> DEFINE k == <<o, item.id>>
           c == item.json
           r == OwnRoom(s, o, Bytes(c))
           t == Room(r, Bytes(c))
<1>1. k \in Keys /\ c \in Contents /\ k[1] = o
  BY DEF Keys
<1>2. CASE k \in DOMAIN s.entries
  <2>1. Item(s, o, item) = Reheard(s, k, c)
    BY <1>2 DEF Item
  <2> HIDE DEF k, c
  <2> QED BY <1>1, <1>2, <2>1, ReheardKeepsAll
<1>3. CASE k \notin DOMAIN s.entries /\ TooLarge(c)
  BY <1>3 DEF Item
<1>4. CASE k \notin DOMAIN s.entries /\ ~ TooLarge(c)
  <2>1. Item(s, o, item) = Inserted(t, k, New(t.entries, c, now))
    BY <1>4 DEF Item
  <2> HIDE DEF k, c
  <2>2. /\ CacheOK(r) /\ DOMAIN r.entries \subseteq DOMAIN s.entries
        /\ Sum(r.entries, Of(r.entries, o)) + Bytes(c) <= MaxCredentialBytes
        /\ Cardinality(Of(r.entries, o)) < MaxCredentialEntries
    BY <1>1, <1>4, OwnRoomKeeps
  <2> HIDE DEF r
  <2>3. /\ CacheOK(t) /\ DOMAIN t.entries \subseteq DOMAIN r.entries
        /\ Sum(t.entries, DOMAIN t.entries) + Bytes(c) <= MaxBytes
        /\ Cardinality(DOMAIN t.entries) < MaxEntries
        /\ Sum(t.entries, Of(t.entries, o)) + Bytes(c) <= MaxCredentialBytes
        /\ Cardinality(Of(t.entries, o)) < MaxCredentialEntries
    BY <1>1, <1>4, <2>2, RoomKeeps
  <2> HIDE DEF t
  <2>4. k \notin DOMAIN t.entries
    BY <1>4, <2>2, <2>3
  <2> QED BY <1>1, <2>1, <2>3, <2>4, InsertedKeeps
<1> QED BY <1>2, <1>3, <1>4

-----------------------------------------------------------------------------
(* A whole output, item by item.                                            *)

(* The recursive function of Remembered exists: a shortest output without   *)
(* one would get one from that of the output before its last item.          *)
LEMMA ItemByItem ==
  ASSUME NEW o, NEW output, Len(output) \in Nat
  PROVE  \E f : /\ f[0] = Pruned(Held)
                /\ \A n \in 1 .. Len(output) : f[n] = Item(f[n - 1], o, output[n])
                /\ Remembered(o, output) = f[Len(output)]
<1> DEFINE N == Len(output)
           first == Pruned(Held)
           after[n \in 0 .. N] == IF n = 0 THEN first ELSE Item(after[n - 1], o, output[n])
<1>1. Remembered(o, output) = after[N]
  BY DEF Remembered
<1> HIDE DEF first, N
<1>2. N \in Nat
  BY DEF N
<1> DEFINE Fits(g, m) == g = [n \in 0 .. m |-> IF n = 0 THEN first ELSE Item(g[n - 1], o, output[n])]
           bad == {m \in 0 .. N : ~ \E g : Fits(g, m)}
<1>3. \E f : f = [n \in 0 .. N |-> IF n = 0 THEN first ELSE Item(f[n - 1], o, output[n])]
  <2>1. SUFFICES ASSUME bad # {} PROVE FALSE
    <3>1. N \in 0 .. N
      BY <1>2
    <3> QED BY <3>1
  <2>2. PICK m \in bad : \A n \in bad : m <= n
    <3>1. bad \subseteq Nat
      OBVIOUS
    <3> HIDE DEF bad
    <3> QED BY <2>1, <3>1, SmallestOf
  <2>3. m \in Nat /\ m <= N
    OBVIOUS
  <2>4. CASE m = 0
    <3> DEFINE g == [n \in 0 .. 0 |-> first]
    <3>1. Fits(g, 0)
      OBVIOUS
    <3> QED BY <3>1, <2>4
  <2>5. CASE m > 0
    <3>1. m - 1 \in 0 .. N /\ m - 1 \notin bad
      <4>1. m - 1 \in 0 .. N /\ ~ (m <= m - 1)
        BY <1>2, <2>3, <2>5
      <4> HIDE DEF bad
      <4> QED BY <2>2, <4>1
    <3>2. PICK h : Fits(h, m - 1)
      BY <3>1
    <3> DEFINE g == [n \in 0 .. m |-> IF n = m THEN Item(h[m - 1], o, output[m]) ELSE h[n]]
    <3>3. ASSUME NEW n \in 0 .. m
          PROVE  g[n] = IF n = 0 THEN first ELSE Item(g[n - 1], o, output[n])
      <4>1. CASE n = m
        <5>1. g[n - 1] = h[m - 1]
          BY <4>1, <2>3, <2>5
        <5> QED BY <4>1, <5>1, <2>5
      <4>2. CASE n < m /\ n > 0
        <5>1. g[n] = h[n] /\ g[n - 1] = h[n - 1]
          BY <4>2, <2>3
        <5>2. h[n] = Item(h[n - 1], o, output[n])
          <6>1. n \in 0 .. m - 1 /\ n # 0
            BY <4>2, <2>3
          <6> QED BY <3>2, <6>1
        <5> QED BY <5>1, <5>2, <4>2
      <4>3. CASE n = 0
        <5>1. g[0] = h[0]
          BY <4>3, <2>3, <2>5
        <5>2. h[0] = first
          <6>1. 0 \in 0 .. m - 1
            BY <2>3, <2>5
          <6> QED BY <3>2, <6>1
        <5> QED BY <4>3, <5>1, <5>2
      <4> QED BY <4>1, <4>2, <4>3, <2>3
    <3>4. Fits(g, m)
      <4> DEFINE G(n) == IF n = 0 THEN first ELSE Item(g[n - 1], o, output[n])
      <4>1. g = [n \in 0 .. m |-> g[n]]
        OBVIOUS
      <4>2. \A n \in 0 .. m : g[n] = G(n)
        BY <3>3
      <4> HIDE DEF g
      <4> QED BY <4>1, <4>2
    <3> QED BY <3>4
  <2> QED BY <2>3, <2>4, <2>5
<1>4. after = [n \in 0 .. N |-> IF n = 0 THEN first ELSE Item(after[n - 1], o, output[n])]
  BY <1>3
<1> HIDE DEF after
<1>5. after[0] = first /\ \A n \in 1 .. N : after[n] = Item(after[n - 1], o, output[n])
  BY <1>2, <1>4
<1> QED BY <1>1, <1>5 DEF first, N

LEMMA RememberedKeeps ==
  ASSUME IInv, NEW o \in Owners, NEW output \in Outputs
  PROVE  CacheOK(Remembered(o, output))
<1> DEFINE N == Len(output)
           items == [id : Ids, json : Contents]
<1>1. N \in Nat /\ \A n \in 1 .. N : output[n] \in items
  <2>1. output \in Seq(items)
    BY OutputsAssumption
  <2> HIDE DEF items
  <2> QED BY <2>1
<1>2. PICK after : /\ after[0] = Pruned(Held)
                   /\ \A n \in 1 .. N : after[n] = Item(after[n - 1], o, output[n])
                   /\ Remembered(o, output) = after[N]
  BY <1>1, ItemByItem
<1> HIDE DEF N
<1>3. CacheOK(after[0])
  <2>1. CacheOK(Held) /\ Expired(Held.entries, now) \in SUBSET DOMAIN Held.entries
    BY DEF IInv, Expired
  <2> QED BY <1>2, <2>1, RemovedKeeps DEF Pruned
<1>4. ASSUME NEW n \in 1 .. N, CacheOK(after[n - 1]) PROVE CacheOK(after[n])
  <2>1. after[n] = Item(after[n - 1], o, output[n])
    BY <1>1, <1>2
  <2> QED BY <1>1, <1>4, <2>1, ItemKeeps DEF IInv
<1> DEFINE bad == {n \in 0 .. N : ~ CacheOK(after[n])}
<1>5. bad = {}
  <2> SUFFICES ASSUME bad # {} PROVE FALSE
    OBVIOUS
  <2>1. PICK m \in bad : \A n \in bad : m <= n
    <3>1. bad \subseteq Nat
      BY <1>1
    <3> HIDE DEF bad
    <3> QED BY <3>1, SmallestOf
  <2>2. m \in 0 .. N /\ m # 0
    BY <1>3
  <2>3. m \in 1 .. N /\ m - 1 \in 0 .. N /\ m - 1 \notin bad
    BY <2>1, <2>2, <1>1
  <2> QED BY <2>3, <1>4
<1>6. N \in 0 .. N
  BY <1>1
<1> QED BY <1>2, <1>5, <1>6

-----------------------------------------------------------------------------
(* The operations of the cache.                                             *)

LEMMA InitOK == Init => IInv
<1> SUFFICES ASSUME Init PROVE IInv
  OBVIOUS
<1>1. entries = << >> /\ bytes = 0 /\ usage = << >> /\ now = 0
  BY DEF Init
<1>2. MapOK(entries) /\ Affordable(entries) /\ Sum(entries, DOMAIN entries) = 0
  BY <1>1, EmptyOK
<1>3. Credentials(entries) = {} /\ usage = [o \in {} |-> Record(entries, o)]
  BY <1>1 DEF Credentials
<1> QED BY <1>1, <1>2, <1>3 DEF IInv, CacheOK, Held

(* What an operation sets is what it computed.                              *)
LEMMA SetKeeps ==
  ASSUME NEW s, CacheOK(s), Set(s), now' \in Nat
  PROVE  IInv'
<1>1. Held'.entries = s.entries /\ Held'.bytes = s.bytes /\ Held'.usage = s.usage
  BY DEF Set, Held
<1>2. CacheOK(Held')
  BY <1>1 DEF CacheOK
<1>3. CacheOK(Held)'
  BY <1>2 DEF CacheOK, Held
<1> QED BY <1>3 DEF IInv

LEMMA NextKeeps == IInv /\ [Next]_vars => IInv'
<1> SUFFICES ASSUME IInv, [Next]_vars PROVE IInv'
  OBVIOUS
<1>1. CacheOK(Held) /\ now \in Nat /\ Held.entries = entries
  BY DEF IInv, Held
<1>2. ASSUME NEW o \in Owners, NEW output \in Outputs, Remember(o, output) PROVE IInv'
  <2>1. CacheOK(Remembered(o, output)) /\ Set(Remembered(o, output)) /\ now' = now
    BY <1>2, RememberedKeeps DEF Remember
  <2> QED BY <1>1, <2>1, SetKeeps
<1>3. ASSUME NEW k \in Keys, Resolve(k) PROVE IInv'
  <2>1. {k} \in SUBSET DOMAIN Held.entries /\ Set(Removed(Held, {k})) /\ now' = now
    BY <1>1, <1>3 DEF Resolve, Expired
  <2>2. CacheOK(Removed(Held, {k}))
    BY <1>1, <2>1, RemovedKeeps
  <2> QED BY <1>1, <2>1, <2>2, SetKeeps
<1>4. CASE Prune
  <2>1. Set(Pruned(Held)) /\ now' = now
    BY <1>4 DEF Prune
  <2>2. CacheOK(Pruned(Held))
    <3>1. Expired(Held.entries, now) \in SUBSET DOMAIN Held.entries
      BY DEF Expired
    <3> QED BY <1>1, <3>1, RemovedKeeps DEF Pruned
  <2> QED BY <1>1, <2>1, <2>2, SetKeeps
<1>5. CASE Clear
  <2> DEFINE s == [entries |-> << >>, bytes |-> 0, usage |-> << >>]
  <2>1. Set(s) /\ now' = now
    BY <1>5 DEF Clear, Set
  <2>2. s.entries = << >> /\ s.bytes = 0 /\ s.usage = << >>
    OBVIOUS
  <2> HIDE DEF s
  <2>3. MapOK(s.entries) /\ Affordable(s.entries) /\ Sum(s.entries, DOMAIN s.entries) = 0
    BY <2>2, EmptyOK
  <2>4. Credentials(s.entries) = {} /\ s.usage = [o \in {} |-> Record(s.entries, o)]
    BY <2>2 DEF Credentials
  <2>5. CacheOK(s)
    BY <2>2, <2>3, <2>4 DEF CacheOK
  <2> QED BY <1>1, <2>1, <2>5, SetKeeps
<1>6. CASE Tick
  <2>1. Set(Held) /\ now' \in Nat
    BY <1>1, <1>6 DEF Tick, Set, Held
  <2> QED BY <1>1, <2>1, SetKeeps
<1>7. CASE UNCHANGED vars
  <2>1. Set(Held) /\ now' \in Nat
    BY <1>1, <1>7 DEF vars, Set, Held
  <2> QED BY <1>1, <2>1, SetKeeps
<1> QED BY <1>2, <1>3, <1>4, <1>5, <1>6, <1>7 DEF Next

(* The inductive invariant of the cache.                                    *)
THEOREM ReferenceCacheInvariance == Spec => []IInv
  BY InitOK, NextKeeps, PTL DEF Spec

(* No limit is ever passed, of the cache or of a credential, in bytes or in *)
(* items, and the records eviction goes by say what is held.                *)
THEOREM ReferencesWithinBudgets == Spec => []WithinBudgets
<1>1. IInv => WithinBudgets
  BY DEF IInv, CacheOK, Held, Credentials, WithinBudgets, UsageAgrees
<1> QED BY <1>1, ReferenceCacheInvariance, PTL

(* A reference never resolves to one of two items sent under the same id.   *)
THEOREM ReferencesNeverMisquoted == Spec => []NeverMisquotes
<1>1. IInv => NeverMisquotes
  BY DEF IInv, CacheOK, Held, NeverMisquotes, Truthful, MapOK, EntryOK
<1> QED BY <1>1, ReferenceCacheInvariance, PTL

-----------------------------------------------------------------------------
(* What goes to make room.                                                  *)

Ordered(es) ==
  \A j \in DOMAIN es : \A i \in es[j].older :
    i \in DOMAIN es /\ es[i].older \subseteq es[j].older

(* Within remember(): these of the entries es the call found are still      *)
(* there, in their order; what went of a credential were its oldest, and    *)
(* what went of others the oldest of all; what else is there under a key of *)
(* es has been offered again.                                               *)
Left(es, fs, kept, o, offered) ==
  /\ kept \subseteq DOMAIN es \ Expired(es, now) /\ kept \subseteq DOMAIN fs
  /\ \A k \in kept : /\ fs[k].expiresAt = es[k].expiresAt
                     /\ es[k].older \cap kept \subseteq fs[k].older
  /\ \A j \in (DOMAIN es \ Expired(es, now)) \ kept : \A i \in es[j].older :
       i[1] = j[1] \/ j[1] # o => i \notin kept
  /\ \A k \in (DOMAIN fs \cap DOMAIN es) \ kept : k[1] = o /\ k[2] \in offered

LEMMA DroppedFields ==
  ASSUME NEW es, MapOK(es), NEW gone, NEW k \in DOMAIN es \ gone
  PROVE  /\ Dropped(es, gone)[k].older = es[k].older \ gone
         /\ Dropped(es, gone)[k].expiresAt = es[k].expiresAt
<1>1. es[k] \in Entry
  BY DEF MapOK, EntryOK
<1>2. Dropped(es, gone)[k] = [es[k] EXCEPT !.older = @ \ gone]
  BY DEF Dropped
<1> QED BY <1>1, <1>2 DEF Entry

LEMMA DroppedOrdered ==
  ASSUME NEW es, MapOK(es), Ordered(es), NEW gone
  PROVE  Ordered(Dropped(es, gone))
<1> DEFINE fs == Dropped(es, gone)
<1>1. DOMAIN fs = DOMAIN es \ gone
  BY DEF Dropped
<1>2. \A k \in DOMAIN fs : fs[k].older = es[k].older \ gone
  BY <1>1, DroppedFields
<1> HIDE DEF fs
<1> QED BY <1>1, <1>2 DEF Ordered, fs

LEMMA DroppedLeft ==
  ASSUME NEW es, NEW fs, NEW kept, NEW o, NEW offered, MapOK(fs), Left(es, fs, kept, o, offered),
         NEW gone,
         \A j \in gone : \A i \in fs[j].older : i[1] = j[1] \/ j[1] # o => i \in gone
  PROVE  Left(es, Dropped(fs, gone), kept \ gone, o, offered)
<1> DEFINE gs == Dropped(fs, gone)
<1>1. DOMAIN gs = DOMAIN fs \ gone
  BY DEF Dropped
<1>2. \A k \in DOMAIN gs : gs[k].older = fs[k].older \ gone /\ gs[k].expiresAt = fs[k].expiresAt
  BY <1>1, DroppedFields
<1> HIDE DEF gs
<1>3. \A k \in kept \ gone : /\ gs[k].expiresAt = es[k].expiresAt
                             /\ es[k].older \cap (kept \ gone) \subseteq gs[k].older
  BY <1>1, <1>2 DEF Left
<1>4. ASSUME NEW j \in (DOMAIN es \ Expired(es, now)) \ (kept \ gone), NEW i \in es[j].older,
             i[1] = j[1] \/ j[1] # o
      PROVE  i \notin kept \ gone
  <2>1. CASE j \notin kept
    BY <1>4, <2>1 DEF Left
  <2>2. CASE j \in kept
    <3>1. j \in gone /\ es[j].older \cap kept \subseteq fs[j].older
      BY <2>2 DEF Left
    <3> QED BY <1>4, <3>1
  <2> QED BY <2>1, <2>2
<1> QED BY <1>1, <1>3, <1>4 DEF Left, gs

LEMMA OwnRoomLeaves ==
  ASSUME NEW s, CacheOK(s), Ordered(s.entries), NEW o, NEW b,
         NEW es, NEW kept, NEW offered, Left(es, s.entries, kept, o, offered)
  PROVE  LET t == OwnRoom(s, o, b)
         IN Ordered(t.entries) /\ \E rest : Left(es, t.entries, rest, o, offered)
<1> DEFINE fs  == s.entries
           own == Of(fs, o)
           t   == OwnRoom(s, o, b)
<1>1. MapOK(fs)
  BY DEF CacheOK
<1>2. CASE o \notin DOMAIN s.usage
  <2>1. t = s
    BY <1>2 DEF OwnRoom
  <2> QED BY <2>1
<1>3. CASE o \in DOMAIN s.usage
  <2> DEFINE older == s.usage[o].older
             gone  == Victims(older, Sizes(fs), s.usage[o].bytes, b, MaxCredentialBytes, MaxCredentialEntries)
  <2>1. s.usage[o] = Record(fs, o) /\ DOMAIN older = own /\ own \in SUBSET DOMAIN fs /\ IsFiniteSet(own)
    BY <1>3, RecordOf
  <2>2. \A k \in own : older[k] = fs[k].older \cap own
    BY <2>1 DEF Record
  <2>3. \A j \in DOMAIN older : \A i \in older[j] \cap DOMAIN older : older[i] \cap DOMAIN older \subseteq older[j]
    <3> HIDE DEF older, own, fs
    <3> QED BY <2>1, <2>2 DEF Ordered, fs
  <2>4. gone \subseteq DOMAIN older /\ \A j \in gone : older[j] \cap DOMAIN older \subseteq gone
    <3> HIDE DEF older, own, fs
    <3> QED BY <2>1, <2>3, VictimsOldest
  <2>5. t = Removed(s, gone)
    BY <1>3 DEF OwnRoom
  <2> HIDE DEF gone, older
  <2>6. t.entries = Dropped(fs, gone)
    BY <2>5 DEF Removed
  <2>7. \A j \in gone : \A i \in fs[j].older : i[1] = j[1] \/ j[1] # o => i \in gone
    <3> SUFFICES ASSUME NEW j \in gone, NEW i \in fs[j].older, i[1] = j[1] \/ j[1] # o PROVE i \in gone
      OBVIOUS
    <3>1. j \in own /\ j[1] = o /\ i \in DOMAIN fs
      BY <1>1, <2>1, <2>4 DEF Of, MapOK
    <3>2. i \in own
      BY <3>1 DEF Of
    <3> QED BY <2>1, <2>2, <2>4, <3>1, <3>2
  <2>8. Ordered(Dropped(fs, gone))
    BY <1>1, DroppedOrdered
  <2>9. Left(es, Dropped(fs, gone), kept \ gone, o, offered)
    BY <1>1, <2>7, DroppedLeft
  <2> HIDE DEF t
  <2> QED BY <2>6, <2>8, <2>9 DEF t
<1> QED BY <1>2, <1>3

LEMMA RoomLeaves ==
  ASSUME NEW s, CacheOK(s), Ordered(s.entries), NEW o, NEW b,
         NEW es, NEW kept, NEW offered, Left(es, s.entries, kept, o, offered)
  PROVE  LET t == Room(s, b)
         IN Ordered(t.entries) /\ \E rest : Left(es, t.entries, rest, o, offered)
<1> DEFINE fs    == s.entries
           older == [k \in DOMAIN fs |-> fs[k].older]
           gone  == Victims(older, Sizes(fs), s.bytes, b, MaxBytes, MaxEntries)
           t     == Room(s, b)
<1>1. MapOK(fs) /\ IsFiniteSet(DOMAIN fs)
  BY DEF CacheOK, MapOK, Sized
<1>2. DOMAIN older = DOMAIN fs /\ \A k \in DOMAIN fs : older[k] = fs[k].older
  OBVIOUS
<1>3. t = Removed(s, gone)
  BY DEF Room
<1> HIDE DEF older
<1>4. \A j \in DOMAIN older : \A i \in older[j] \cap DOMAIN older : older[i] \cap DOMAIN older \subseteq older[j]
  BY <1>2 DEF Ordered
<1>5. gone \subseteq DOMAIN older /\ \A j \in gone : older[j] \cap DOMAIN older \subseteq gone
  BY <1>1, <1>2, <1>4, VictimsOldest
<1> HIDE DEF gone
<1>6. t.entries = Dropped(fs, gone)
  BY <1>3 DEF Removed
<1>7. \A j \in gone : \A i \in fs[j].older : i \in gone
  BY <1>1, <1>2, <1>5 DEF MapOK
<1>8. Ordered(Dropped(fs, gone))
  BY <1>1, DroppedOrdered
<1>9. Left(es, Dropped(fs, gone), kept \ gone, o, offered)
  BY <1>1, <1>7, DroppedLeft
<1> HIDE DEF t
<1> QED BY <1>6, <1>8, <1>9 DEF t

LEMMA ItemLeaves ==
  ASSUME NEW s, CacheOK(s), Ordered(s.entries), now \in Nat, NEW o \in Owners,
         NEW item \in [id : Ids, json : Contents], NEW offered, item.id \in offered,
         NEW es, NEW kept, Left(es, s.entries, kept, o, offered)
  PROVE  LET t == Item(s, o, item)
         IN Ordered(t.entries) /\ \E rest : Left(es, t.entries, rest, o, offered)
<1> DEFINE k == <<o, item.id>>
           c == item.json
           r == OwnRoom(s, o, Bytes(c))
           u == Room(r, Bytes(c))
           t == Item(s, o, item)
<1>1. k[1] = o /\ k[2] \in offered /\ c \in Contents /\ k \in Keys
  BY DEF Keys
<1> HIDE DEF k, c
<1>2. CASE k \in DOMAIN s.entries
  <2> DEFINE fs == s.entries
             e  == Heard(fs[k], c)
             gs == [fs EXCEPT ![k] = e]
  <2>1. t.entries = gs
    BY <1>2 DEF Item, Reheard, k, c
  <2>2. e.older = fs[k].older /\ e.expiresAt = fs[k].expiresAt
    <3>1. fs[k] \in Entry
      BY <1>2 DEF CacheOK, MapOK, EntryOK
    <3> QED BY <3>1 DEF Heard, Entry
  <2>3. DOMAIN gs = DOMAIN fs /\ gs[k] = e /\ \A x \in DOMAIN fs \ {k} : gs[x] = fs[x]
    BY <1>2
  <2> HIDE DEF gs, e, fs
  <2>4. \A x \in DOMAIN fs : gs[x].older = fs[x].older /\ gs[x].expiresAt = fs[x].expiresAt
    BY <2>2, <2>3
  <2>5. Ordered(gs)
    BY <2>3, <2>4 DEF Ordered, fs
  <2>6. Left(es, gs, kept, o, offered)
    <3>1. Left(es, fs, kept, o, offered)
      BY DEF fs
    <3> QED BY <3>1, <2>3, <2>4 DEF Left
  <2> HIDE DEF t
  <2> QED BY <2>1, <2>5, <2>6 DEF t
<1>3. CASE k \notin DOMAIN s.entries /\ TooLarge(c)
  <2>1. t = s
    BY <1>3 DEF Item, k, c
  <2> QED BY <2>1
<1>4. CASE k \notin DOMAIN s.entries /\ ~ TooLarge(c)
  <2>1. t = Inserted(u, k, New(u.entries, c, now))
    BY <1>4 DEF Item, k, c
  <2>2. CacheOK(r) /\ DOMAIN r.entries \subseteq DOMAIN s.entries
    BY <1>1, <1>4, OwnRoomKeeps
  <2>3. CacheOK(u) /\ DOMAIN u.entries \subseteq DOMAIN r.entries
    <3>1. /\ Sum(r.entries, Of(r.entries, o)) + Bytes(c) <= MaxCredentialBytes
          /\ Cardinality(Of(r.entries, o)) < MaxCredentialEntries
      BY <1>1, <1>4, OwnRoomKeeps
    <3> HIDE DEF r
    <3> QED BY <2>2, <3>1, <1>1, <1>4, RoomKeeps
  <2>4. PICK left : Ordered(r.entries) /\ Left(es, r.entries, left, o, offered)
    BY OwnRoomLeaves
  <2> HIDE DEF r
  <2>5. PICK rest : Ordered(u.entries) /\ Left(es, u.entries, rest, o, offered)
    BY <2>2, <2>4, RoomLeaves
  <2> HIDE DEF u
  <2> DEFINE fs == u.entries
             e  == New(fs, c, now)
             gs == Put(fs, k, e)
  <2>6. t.entries = gs
    BY <2>1 DEF Inserted
  <2>7. k \notin DOMAIN fs /\ e.older = DOMAIN fs
    BY <1>4, <2>2, <2>3 DEF New
  <2>8. DOMAIN gs = DOMAIN fs \cup {k} /\ gs[k] = e /\ \A x \in DOMAIN fs : gs[x] = fs[x]
    BY <2>7 DEF Put
  <2>9. \A x \in DOMAIN fs : fs[x].older \subseteq DOMAIN fs
    BY <2>3 DEF CacheOK, MapOK
  <2> HIDE DEF gs, e, fs
  <2>10. Ordered(gs)
    <3>1. Ordered(fs)
      BY <2>5 DEF fs
    <3> SUFFICES ASSUME NEW j \in DOMAIN gs, NEW i \in gs[j].older
                 PROVE  i \in DOMAIN gs /\ gs[i].older \subseteq gs[j].older
      BY DEF Ordered
    <3>2. CASE j = k
      <4>1. i \in DOMAIN fs
        BY <3>2, <2>7, <2>8
      <4> QED BY <3>2, <4>1, <2>7, <2>8, <2>9
    <3>3. CASE j # k
      <4>1. j \in DOMAIN fs /\ i \in fs[j].older
        BY <3>3, <2>8
      <4>2. i \in DOMAIN fs /\ fs[i].older \subseteq fs[j].older
        BY <3>1, <4>1 DEF Ordered
      <4> QED BY <4>1, <4>2, <2>8
    <3> QED BY <3>2, <3>3
  <2>11. Left(es, gs, rest, o, offered)
    <3>1. Left(es, fs, rest, o, offered)
      BY <2>5 DEF fs
    <3> QED BY <3>1, <1>1, <2>7, <2>8 DEF Left
  <2> HIDE DEF t
  <2> QED BY <2>6, <2>10, <2>11 DEF t
<1> QED BY <1>2, <1>3, <1>4

(* Removing what has expired.                                               *)
LEMMA PrunedLeaves ==
  ASSUME MapOK(entries), Ordered(entries), NEW o, NEW offered
  PROVE  LET fs == Dropped(entries, Expired(entries, now))
         IN /\ Ordered(fs)
            /\ Left(entries, fs, DOMAIN entries \ Expired(entries, now), o, offered)
<1> DEFINE gone == Expired(entries, now)
           fs   == Dropped(entries, gone)
<1>1. DOMAIN fs = DOMAIN entries \ gone
  BY DEF Dropped
<1>2. \A k \in DOMAIN fs : fs[k].older = entries[k].older \ gone /\ fs[k].expiresAt = entries[k].expiresAt
  BY <1>1, DroppedFields
<1>3. Ordered(fs)
  BY DroppedOrdered
<1> HIDE DEF fs, gone
<1> QED BY <1>1, <1>2, <1>3 DEF Left, fs, gone

LEMMA RememberedLeaves ==
  ASSUME IInv, Ordered(entries), NEW o \in Owners, NEW output \in Outputs
  PROVE  LET t == Remembered(o, output)
             offered == {output[i].id : i \in DOMAIN output}
         IN /\ Ordered(t.entries)
            /\ \E rest : Left(entries, t.entries, rest, o, offered)
<1> DEFINE N == Len(output)
           items == [id : Ids, json : Contents]
           offered == {output[i].id : i \in DOMAIN output}
<1>1. N \in Nat /\ DOMAIN output = 1 .. N /\ \A n \in 1 .. N : output[n] \in items
  <2>1. output \in Seq(items)
    BY OutputsAssumption
  <2> HIDE DEF items
  <2> QED BY <2>1
<1>2. PICK after : /\ after[0] = Pruned(Held)
                   /\ \A n \in 1 .. N : after[n] = Item(after[n - 1], o, output[n])
                   /\ Remembered(o, output) = after[N]
  BY <1>1, ItemByItem
<1>3. \A n \in 1 .. N : output[n].id \in offered
  BY <1>1
<1> HIDE DEF N, offered
<1> DEFINE Fine(s) == /\ CacheOK(s) /\ Ordered(s.entries)
                      /\ \E rest : Left(entries, s.entries, rest, o, offered)
<1>4. Fine(after[0])
  <2>1. CacheOK(Held) /\ Held.entries = entries /\ Expired(entries, now) \in SUBSET DOMAIN entries
    BY DEF IInv, Expired, Held
  <2>2. CacheOK(after[0])
    BY <1>2, <2>1, RemovedKeeps DEF Pruned
  <2>3. after[0].entries = Dropped(entries, Expired(entries, now))
    BY <1>2, <2>1 DEF Pruned, Removed
  <2>4. MapOK(entries)
    BY <2>1 DEF CacheOK
  <2> QED BY <2>2, <2>3, <2>4, PrunedLeaves
<1>5. ASSUME NEW n \in 1 .. N, Fine(after[n - 1]) PROVE Fine(after[n])
  <2>1. after[n] = Item(after[n - 1], o, output[n]) /\ now \in Nat
    BY <1>1, <1>2 DEF IInv
  <2>2. CacheOK(after[n])
    BY <1>1, <1>5, <2>1, ItemKeeps
  <2>3. PICK kept : Left(entries, after[n - 1].entries, kept, o, offered)
    BY <1>5
  <2>4. Ordered(after[n].entries) /\ \E rest : Left(entries, after[n].entries, rest, o, offered)
    BY <1>1, <1>3, <1>5, <2>1, <2>3, ItemLeaves
  <2> QED BY <2>2, <2>4
<1> HIDE DEF Fine
<1> DEFINE bad == {n \in 0 .. N : ~ Fine(after[n])}
<1>6. bad = {}
  <2> SUFFICES ASSUME bad # {} PROVE FALSE
    OBVIOUS
  <2>1. PICK m \in bad : \A n \in bad : m <= n
    <3>1. bad \subseteq Nat
      BY <1>1
    <3> HIDE DEF bad
    <3> QED BY <3>1, SmallestOf
  <2>2. m \in 0 .. N /\ m # 0
    BY <1>4
  <2>3. m \in 1 .. N /\ m - 1 \in 0 .. N /\ m - 1 \notin bad
    BY <2>1, <2>2, <1>1
  <2> QED BY <2>3, <1>5
<1>7. Fine(Remembered(o, output))
  BY <1>1, <1>2, <1>6
<1> QED BY <1>7 DEF Fine, offered

LEMMA OrderKeeps == IInv /\ Ordered(entries) /\ [Next]_vars => Ordered(entries)'
<1> SUFFICES ASSUME IInv, Ordered(entries), [Next]_vars PROVE Ordered(entries')
  BY DEF Ordered
<1>1. MapOK(entries)
  BY DEF IInv, CacheOK, Held
<1>2. ASSUME NEW gone, entries' = Dropped(entries, gone) PROVE Ordered(entries')
  BY <1>1, <1>2, DroppedOrdered
<1>3. ASSUME NEW o \in Owners, NEW output \in Outputs, Remember(o, output) PROVE Ordered(entries')
  BY <1>3, RememberedLeaves DEF Remember, Set
<1>4. ASSUME NEW k \in Keys, Resolve(k) PROVE Ordered(entries')
  BY <1>2, <1>4 DEF Resolve, Set, Removed, Held
<1>5. CASE Prune
  BY <1>2, <1>5 DEF Prune, Set, Pruned, Removed, Held
<1>6. CASE Clear
  <2>1. DOMAIN entries' = {}
    BY <1>6 DEF Clear
  <2> QED BY <2>1 DEF Ordered
<1>7. CASE Tick
  BY <1>7 DEF Tick
<1>8. CASE UNCHANGED vars
  BY <1>8 DEF vars
<1> QED BY <1>3, <1>4, <1>5, <1>6, <1>7, <1>8 DEF Next

LEMMA NothingLost ==
  ASSUME NEW fs, \A k \in DOMAIN entries \ Expired(entries, now) :
                   k \in DOMAIN fs /\ fs[k].expiresAt = entries[k].expiresAt
  PROVE  Lost(entries, fs, now) = {}
BY DEF Lost, Survives

LEMMA EvictionStep ==
  IInv /\ Ordered(entries) /\ Next =>
    \/ Lost(entries, entries', now) = {}
    \/ Clear
    \/ \E o \in Owners, output \in Outputs :
         /\ OldestLeft(entries, entries', now, o, {output[i].id : i \in DOMAIN output})
         /\ Remember(o, output)
<1> SUFFICES ASSUME IInv, Ordered(entries), Next
             PROVE  \/ Lost(entries, entries', now) = {}
                    \/ Clear
                    \/ \E o \in Owners, output \in Outputs :
                         /\ OldestLeft(entries, entries', now, o, {output[i].id : i \in DOMAIN output})
                         /\ Remember(o, output)
  OBVIOUS
<1>1. MapOK(entries)
  BY DEF IInv, CacheOK, Held
<1>2. ASSUME NEW gone \in SUBSET Expired(entries, now), entries' = Dropped(entries, gone)
      PROVE  Lost(entries, entries', now) = {}
  <2>1. DOMAIN Dropped(entries, gone) = DOMAIN entries \ gone
    BY DEF Dropped
  <2> QED BY <1>1, <1>2, <2>1, DroppedFields, NothingLost
<1>3. ASSUME NEW o \in Owners, NEW output \in Outputs, Remember(o, output)
      PROVE  OldestLeft(entries, entries', now, o, {output[i].id : i \in DOMAIN output})
  <2> DEFINE offered == {output[i].id : i \in DOMAIN output}
  <2>1. PICK kept : Left(entries, entries', kept, o, offered)
    BY <1>3, RememberedLeaves DEF Remember, Set
  <2> HIDE DEF offered
  <2>2. ASSUME NEW j \in Lost(entries, entries', now), NEW i \in entries[j].older,
               i[1] = j[1] \/ j[1] # o
        PROVE  ~ Survives(i, entries, entries') \/ (i[1] = o /\ i[2] \in offered)
    <3>1. j \in DOMAIN entries \ Expired(entries, now) /\ j \notin kept
      BY <2>1 DEF Lost, Survives, Left
    <3>2. i \notin kept
      BY <2>1, <2>2, <3>1 DEF Left
    <3>3. i \in DOMAIN entries
      BY <1>1, <3>1 DEF MapOK
    <3> QED BY <2>1, <3>2, <3>3 DEF Left, Survives
  <2> QED BY <2>2 DEF OldestLeft, offered
<1>4. ASSUME NEW k \in Keys, Resolve(k) PROVE Lost(entries, entries', now) = {}
  BY <1>2, <1>4 DEF Resolve, Set, Removed, Held
<1>5. CASE Prune
  BY <1>2, <1>5 DEF Prune, Set, Pruned, Removed, Held
<1>6. CASE Tick
  <2>1. entries' = entries
    BY <1>6 DEF Tick
  <2> QED BY <2>1, NothingLost
<1> QED BY <1>3, <1>4, <1>5, <1>6 DEF Next

(* What makes room goes in its order: no newer item of a credential goes    *)
(* while an older one stays, nor one of another credential while anything   *)
(* older stays, in whatever order a batch evicts and inserts.               *)
THEOREM EvictionOldestFirst == Spec => EvictsOldestFirst
<1>1. Init => Ordered(entries)
  BY DEF Init, Ordered
<1>2. Spec => [](IInv /\ Ordered(entries))
  BY <1>1, InitOK, NextKeeps, OrderKeeps, PTL DEF Spec
<1> QED BY <1>2, EvictionStep, PTL DEF Spec, EvictsOldestFirst
=============================================================================
