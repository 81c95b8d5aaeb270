----------------------------- MODULE LedgersProofs -----------------------------
(***************************************************************************)
(* Facts about sums of sizes and the oldest of a map, for any sizes and any *)
(* order, from the theorems on finite sets.                                 *)
(***************************************************************************)
EXTENDS Ledgers, FiniteSetsExt, FiniteSetTheorems, WellFoundedInduction, TLAPS

(* One entry of b bytes has b lines.                                        *)
LEMMA OneEntry ==
  ASSUME NEW x, NEW b \in Nat
  PROVE  IsFiniteSet({x} \X (1 .. b)) /\ Cardinality({x} \X (1 .. b)) = b
<1>1. IsFiniteSet({x}) /\ Cardinality({x}) = 1
  BY FS_Singleton
<1>2. IsFiniteSet(1 .. b) /\ Cardinality(1 .. b) = b
  BY FS_Interval
<1>3. /\ IsFiniteSet({x} \X (1 .. b))
      /\ Cardinality({x} \X (1 .. b)) = Cardinality({x}) * Cardinality(1 .. b)
  BY <1>1, <1>2, FS_Product, Zenon
<1>4. 1 * b = b
  OBVIOUS
<1> QED BY <1>1, <1>2, <1>3, <1>4, Zenon

LEMMA LedgerFinite ==
  ASSUME NEW S, IsFiniteSet(S), NEW size, \A x \in S : size[x] \in Nat
  PROVE  IsFiniteSet(Ledger(size, S)) /\ Total(size, S) \in Nat
<1> DEFINE f == [x \in S |-> {x} \X (1 .. size[x])]
           L == {{x} \X (1 .. size[x]) : x \in S}
<1>1. f \in Surjection(S, L)
  BY DEF Surjection
<1>2. IsFiniteSet(L)
  BY <1>1, FS_Surjection
<1>3. \A T \in L : IsFiniteSet(T)
  <2> SUFFICES ASSUME NEW x \in S PROVE IsFiniteSet({x} \X (1 .. size[x]))
    OBVIOUS
  <2> QED BY OneEntry
<1>4. IsFiniteSet(UNION L)
  BY <1>2, <1>3, FS_UNION
<1> QED BY <1>4, FS_CardinalityType DEF Ledger, Total

(* Sums over disjoint sets add up.                                          *)
LEMMA TotalSplit ==
  ASSUME NEW A, NEW B, IsFiniteSet(A), IsFiniteSet(B), A \cap B = {}, NEW size,
         \A x \in A \cup B : size[x] \in Nat
  PROVE  Total(size, A \cup B) = Total(size, A) + Total(size, B)
<1>1. Ledger(size, A \cup B) = Ledger(size, A) \cup Ledger(size, B)
  BY DEF Ledger
<1>2. Ledger(size, A) \cap Ledger(size, B) = {}
  <2> SUFFICES ASSUME NEW line \in Ledger(size, A) \cap Ledger(size, B) PROVE FALSE
    OBVIOUS
  <2>1. PICK x \in A : \E n : line = <<x, n>>
    BY DEF Ledger
  <2>2. PICK y \in B : \E n : line = <<y, n>>
    BY DEF Ledger
  <2>3. x = y
    BY <2>1, <2>2
  <2> QED BY <2>3
<1>3. IsFiniteSet(Ledger(size, A)) /\ IsFiniteSet(Ledger(size, B))
  BY LedgerFinite
<1>4. Cardinality(Ledger(size, A)) \in Nat /\ Cardinality(Ledger(size, B)) \in Nat
  BY <1>3, FS_CardinalityType
<1>5. Cardinality(Ledger(size, A) \cup Ledger(size, B)) =
        Cardinality(Ledger(size, A)) + Cardinality(Ledger(size, B))
          - Cardinality(Ledger(size, A) \cap Ledger(size, B))
  BY <1>3, FS_Union, Zenon
<1>6. Cardinality(Ledger(size, A) \cap Ledger(size, B)) = 0
  BY <1>2, FS_EmptySet
<1>7. /\ Total(size, A \cup B) = Cardinality(Ledger(size, A) \cup Ledger(size, B))
      /\ Total(size, A) = Cardinality(Ledger(size, A))
      /\ Total(size, B) = Cardinality(Ledger(size, B))
  BY <1>1, Zenon DEF Total
<1>8. Total(size, A) \in Nat /\ Total(size, B) \in Nat
  BY <1>4, <1>7
<1>9. Total(size, A \cup B) = Total(size, A) + Total(size, B) - 0
  BY <1>5, <1>6, <1>7, Zenon
<1> QED BY <1>8, <1>9

LEMMA TotalEmpty ==
  ASSUME NEW size
  PROVE  Total(size, {}) = 0
<1>1. Ledger(size, {}) = {}
  BY DEF Ledger
<1> QED BY <1>1, FS_EmptySet DEF Total

LEMMA TotalOne ==
  ASSUME NEW size, NEW x, size[x] \in Nat
  PROVE  Total(size, {x}) = size[x]
<1>1. Ledger(size, {x}) = {x} \X (1 .. size[x])
  BY DEF Ledger
<1> QED BY <1>1, OneEntry DEF Total

(* Only the sizes of its members count.                                     *)
LEMMA TotalSame ==
  ASSUME NEW S, NEW size, NEW other, \A x \in S : size[x] = other[x]
  PROVE  Total(size, S) = Total(other, S)
<1>1. Ledger(size, S) = Ledger(other, S)
  BY DEF Ledger
<1> QED BY <1>1 DEF Total

(* What is taken away is subtracted.                                        *)
LEMMA TotalLess ==
  ASSUME NEW S, IsFiniteSet(S), NEW T \in SUBSET S, NEW size, \A x \in S : size[x] \in Nat
  PROVE  /\ IsFiniteSet(T) /\ IsFiniteSet(S \ T)
         /\ Total(size, S \ T) = Total(size, S) - Total(size, T)
         /\ Total(size, T) <= Total(size, S)
         /\ Total(size, S) \in Nat /\ Total(size, T) \in Nat /\ Total(size, S \ T) \in Nat
<1>1. IsFiniteSet(T) /\ IsFiniteSet(S \ T)
  BY FS_Subset
<1>2. (S \ T) \cup T = S /\ (S \ T) \cap T = {}
  OBVIOUS
<1>3. Total(size, S) = Total(size, S \ T) + Total(size, T)
  BY <1>1, <1>2, TotalSplit
<1>4. Total(size, S) \in Nat /\ Total(size, T) \in Nat /\ Total(size, S \ T) \in Nat
  BY <1>1, LedgerFinite
<1> QED BY <1>1, <1>3, <1>4

(* What is new is added.                                                    *)
LEMMA TotalMore ==
  ASSUME NEW S, IsFiniteSet(S), NEW x, x \notin S, NEW size,
         \A y \in S \cup {x} : size[y] \in Nat
  PROVE  Total(size, S \cup {x}) = Total(size, S) + size[x]
<1>1. IsFiniteSet({x}) /\ S \cap {x} = {}
  BY FS_Singleton
<1>2. Total(size, S \cup {x}) = Total(size, S) + Total(size, {x})
  BY <1>1, TotalSplit
<1>3. Total(size, {x}) = size[x]
  BY TotalOne
<1> QED BY <1>2, <1>3

(* A set of numbers has a smallest.                                         *)
LEMMA SmallestOf ==
  ASSUME NEW S, S \subseteq Nat, S # {}
  PROVE  Min(S) \in S /\ \A n \in S : Min(S) <= n
<1> DEFINE Below(n) == 1 .. n
           T == {Below(n) : n \in S}
<1>1. T \subseteq FiniteSubsetsOf(Nat) /\ T # {}
  <2>1. ASSUME NEW n \in S PROVE IsFiniteSet(Below(n)) /\ Below(n) \subseteq Nat
    BY FS_Interval
  <2> QED BY <2>1 DEF FiniteSubsetsOf
<1>2. PICK X \in T : \A Y \in T : ~ (<<Y, X>> \in StrictSubsetOrdering(Nat))
  BY <1>1, FS_StrictSubsetOrderingWellFounded, WFMin, Zenon
<1>3. PICK m \in S : X = Below(m)
  OBVIOUS
<1>4. ASSUME NEW n \in S, n < m PROVE FALSE
  <2>1. Below(n) \in T /\ Below(n) \subseteq Nat /\ Below(m) \subseteq Nat
    OBVIOUS
  <2>2. Below(n) \subseteq Below(m) /\ m \in Below(m) /\ m \notin Below(n)
    BY <1>4
  <2>3. <<Below(n), Below(m)>> \in StrictSubsetOrdering(Nat)
    BY <2>1, <2>2 DEF StrictSubsetOrdering
  <2> QED BY <1>2, <1>3, <2>1, <2>3
<1>5. \A n \in S : m <= n
  BY <1>4
<1> QED BY <1>5 DEF Min

(* All of them are the oldest as many.                                      *)
LEMMA AllOldest ==
  ASSUME NEW S, IsFiniteSet(S), NEW older, \A x \in S : x \notin older[x]
  PROVE  Oldest(older, S, Cardinality(S)) = S
<1> SUFFICES ASSUME NEW x \in S PROVE Cardinality(older[x] \cap S) < Cardinality(S)
  BY DEF Oldest
<1>1. older[x] \cap S \in SUBSET S /\ older[x] \cap S # S
  OBVIOUS
<1>2. /\ Cardinality(older[x] \cap S) \in Nat /\ Cardinality(S) \in Nat
      /\ Cardinality(older[x] \cap S) <= Cardinality(S)
      /\ Cardinality(older[x] \cap S) # Cardinality(S)
  BY <1>1, FS_Subset, FS_CardinalityType
<1> QED BY <1>2

(* Eviction makes as much room as was asked for.                            *)
LEMMA RoomMade ==
  ASSUME NEW older, IsFiniteSet(DOMAIN older), \A x \in DOMAIN older : x \notin older[x],
         NEW size, \A x \in DOMAIN older : size[x] \in Nat,
         NEW byteLimit \in Nat, NEW entryLimit \in Nat \ {0},
         NEW b \in Nat, b <= byteLimit
  PROVE  LET gone == Victims(older, size, Total(size, DOMAIN older), b, byteLimit, entryLimit)
         IN /\ gone \subseteq DOMAIN older
            /\ Total(size, DOMAIN older \ gone) + b <= byteLimit
            /\ Cardinality(DOMAIN older \ gone) < entryLimit
<1> DEFINE keys == DOMAIN older
           held == Total(size, keys)
           First(n) == Oldest(older, keys, n)
           Enough(n) == /\ held - Total(size, First(n)) + b <= byteLimit
                        /\ Cardinality(keys \ First(n)) < entryLimit
           need == {n \in 0 .. Cardinality(keys) : n = Cardinality(keys) \/ Enough(n)}
<1>1. Cardinality(keys) \in Nat
  BY FS_CardinalityType
<1>2. need \subseteq Nat /\ Cardinality(keys) \in need
  BY <1>1
<1>3. Min(need) \in need
  <2> HIDE DEF need
  <2> QED BY <1>2, SmallestOf
<1>4. PICK m \in need : m = Min(need)
  BY <1>3
<1>5. First(m) \in SUBSET keys
  BY DEF Oldest
<1>6. /\ Total(size, keys \ First(m)) = held - Total(size, First(m))
      /\ held \in Nat /\ Total(size, First(m)) \in Nat
  BY <1>5, TotalLess
<1>7. Total(size, keys \ First(m)) + b <= byteLimit /\ Cardinality(keys \ First(m)) < entryLimit
  <2>1. CASE m = Cardinality(keys)
    <3>1. First(m) = keys
      BY <2>1, AllOldest
    <3>2. keys \ First(m) = {}
      BY <3>1
    <3>3. Total(size, keys \ First(m)) = 0 /\ Cardinality(keys \ First(m)) = 0
      BY <3>2, TotalEmpty, FS_EmptySet
    <3> QED BY <3>3
  <2>2. CASE Enough(m)
    BY <2>2, <1>6
  <2> QED BY <2>1, <2>2
<1>8. Victims(older, size, held, b, byteLimit, entryLimit) = First(m)
  BY <1>4 DEF Victims
<1> QED BY <1>5, <1>7, <1>8

(* The bytes of a set of keys of a map, and of any part of it.              *)
LEMMA SumType ==
  ASSUME NEW es, NEW S \in SUBSET DOMAIN es, IsFiniteSet(S), \A k \in S : es[k].bytes \in Nat
  PROVE  Sum(es, S) \in Nat
<1>1. \A k \in S : Sizes(es)[k] \in Nat
  BY DEF Sizes
<1> QED BY <1>1, LedgerFinite DEF Sum

(* A map that holds the same entries, with other neighbours, adds up alike. *)
LEMMA SumSame ==
  ASSUME NEW es, NEW fs, NEW S, S \subseteq DOMAIN es, S \subseteq DOMAIN fs,
         \A k \in S : es[k].bytes = fs[k].bytes
  PROVE  Sum(es, S) = Sum(fs, S)
<1>1. \A k \in S : Sizes(es)[k] = Sizes(fs)[k]
  BY DEF Sizes
<1> QED BY <1>1, TotalSame DEF Sum

LEMMA SumLess ==
  ASSUME NEW es, NEW S \in SUBSET DOMAIN es, IsFiniteSet(S), NEW T \in SUBSET S,
         \A k \in S : es[k].bytes \in Nat
  PROVE  /\ Sum(es, S \ T) = Sum(es, S) - Sum(es, T)
         /\ Sum(es, T) <= Sum(es, S)
         /\ Sum(es, S) \in Nat /\ Sum(es, T) \in Nat /\ Sum(es, S \ T) \in Nat
<1>1. \A k \in S : Sizes(es)[k] \in Nat
  BY DEF Sizes
<1> QED BY <1>1, TotalLess DEF Sum

LEMMA SumMore ==
  ASSUME NEW es, NEW k \in DOMAIN es, NEW S \in SUBSET (DOMAIN es \ {k}), IsFiniteSet(S),
         \A x \in S \cup {k} : es[x].bytes \in Nat
  PROVE  Sum(es, S \cup {k}) = Sum(es, S) + es[k].bytes
<1>1. k \notin S /\ \A x \in S \cup {k} : Sizes(es)[x] = es[x].bytes
  BY DEF Sizes
<1>2. \A x \in S \cup {k} : Sizes(es)[x] \in Nat
  BY <1>1
<1> QED BY <1>1, <1>2, TotalMore, ZenonT(60) DEF Sum

LEMMA SumOne ==
  ASSUME NEW es, NEW k \in DOMAIN es, es[k].bytes \in Nat
  PROVE  Sum(es, {k}) = es[k].bytes
<1>1. Sizes(es)[k] = es[k].bytes
  BY DEF Sizes
<1> QED BY <1>1, TotalOne DEF Sum

LEMMA SumEmpty == ASSUME NEW es PROVE Sum(es, {}) = 0
  BY TotalEmpty DEF Sum

(* A map whose entries have sizes, none older than itself.                  *)
Sized(es) ==
  /\ IsFiniteSet(DOMAIN es)
  /\ \A k \in DOMAIN es : /\ {"bytes", "older"} \subseteq DOMAIN es[k]
                          /\ es[k].bytes \in Nat /\ k \notin es[k].older

(* Taking entries out of a map changes the sizes of no others.              *)
LEMMA DroppedSums ==
  ASSUME NEW es, Sized(es), NEW gone
  PROVE  /\ Sized(Dropped(es, gone))
         /\ DOMAIN Dropped(es, gone) = DOMAIN es \ gone
         /\ \A S \in SUBSET (DOMAIN es \ gone) : Sum(Dropped(es, gone), S) = Sum(es, S)
<1> DEFINE fs == Dropped(es, gone)
<1>1. DOMAIN fs = DOMAIN es \ gone
  BY DEF Dropped
<1>2. ASSUME NEW k \in DOMAIN fs
      PROVE  /\ DOMAIN fs[k] = DOMAIN es[k] /\ fs[k].bytes = es[k].bytes
             /\ fs[k].older = es[k].older \ gone
  <2>1. fs[k] = [es[k] EXCEPT !.older = @ \ gone]
    BY DEF Dropped
  <2>2. {"bytes", "older"} \subseteq DOMAIN es[k]
    BY <1>1 DEF Sized
  <2> QED BY <2>1, <2>2
<1>3. IsFiniteSet(DOMAIN fs)
  BY <1>1, FS_Subset DEF Sized
<1>4. Sized(fs)
  <2> HIDE DEF fs
  <2> QED BY <1>1, <1>2, <1>3 DEF Sized
<1>5. ASSUME NEW S \in SUBSET (DOMAIN es \ gone) PROVE Sum(fs, S) = Sum(es, S)
  <2> HIDE DEF fs
  <2> QED BY <1>1, <1>2, SumSame
<1> QED BY <1>1, <1>4, <1>5

(* A part of what fits the limits fits them.                                *)
LEMMA WithinLess ==
  ASSUME NEW es, Sized(es), NEW S \in SUBSET DOMAIN es, NEW T \in SUBSET S,
         NEW byteLimit \in Nat, NEW entryLimit \in Nat, Within(es, S, byteLimit, entryLimit)
  PROVE  Within(es, T, byteLimit, entryLimit)
<1>1. IsFiniteSet(S) /\ IsFiniteSet(T)
  BY FS_Subset DEF Sized
<1>2. /\ Cardinality(T) <= Cardinality(S)
      /\ Cardinality(T) \in Nat /\ Cardinality(S) \in Nat
  BY <1>1, FS_Subset, FS_CardinalityType
<1>3. Sum(es, T) <= Sum(es, S) /\ Sum(es, T) \in Nat /\ Sum(es, S) \in Nat
  BY <1>1, SumLess DEF Sized
<1> QED BY <1>2, <1>3 DEF Within

(* A new entry adds its size to whatever it is counted among.               *)
LEMMA PutSums ==
  ASSUME NEW es, Sized(es), NEW k, k \notin DOMAIN es, NEW e,
         {"bytes", "older"} \subseteq DOMAIN e, e.bytes \in Nat, k \notin e.older
  PROVE  /\ Sized(Put(es, k, e))
         /\ DOMAIN Put(es, k, e) = DOMAIN es \cup {k}
         /\ \A S \in SUBSET DOMAIN es :
              /\ Sum(Put(es, k, e), S) = Sum(es, S)
              /\ Sum(Put(es, k, e), S \cup {k}) = Sum(es, S) + e.bytes
              /\ IsFiniteSet(S) /\ Cardinality(S \cup {k}) = Cardinality(S) + 1
              /\ Cardinality(S) \in Nat /\ Sum(es, S) \in Nat
<1> DEFINE fs == Put(es, k, e)
<1>1. DOMAIN fs = DOMAIN es \cup {k} /\ fs[k] = e /\ \A x \in DOMAIN es : fs[x] = es[x]
  BY DEF Put
<1>2. IsFiniteSet(DOMAIN fs)
  BY <1>1, FS_AddElement DEF Sized
<1>3. Sized(fs)
  <2> HIDE DEF fs
  <2> QED BY <1>1, <1>2 DEF Sized
<1>4. ASSUME NEW S \in SUBSET DOMAIN es
      PROVE  /\ Sum(fs, S) = Sum(es, S)
             /\ Sum(fs, S \cup {k}) = Sum(es, S) + e.bytes
             /\ IsFiniteSet(S) /\ Cardinality(S \cup {k}) = Cardinality(S) + 1
             /\ Cardinality(S) \in Nat /\ Sum(es, S) \in Nat
  <2> HIDE DEF fs
  <2>1. IsFiniteSet(S) /\ k \notin S
    BY FS_Subset DEF Sized
  <2>2. Sum(fs, S) = Sum(es, S) /\ Sum(es, S) \in Nat
    BY <1>1, <2>1, SumSame, SumType DEF Sized
  <2>3. Sum(fs, S \cup {k}) = Sum(fs, S) + fs[k].bytes
    <3>1. k \in DOMAIN fs /\ S \in SUBSET (DOMAIN fs \ {k}) /\ \A x \in S \cup {k} : fs[x].bytes \in Nat
      BY <1>1, <2>1, <1>3 DEF Sized
    <3> QED BY <2>1, <3>1, SumMore
  <2> QED BY <1>1, <2>1, <2>2, <2>3, FS_AddElement, FS_CardinalityType
<1> QED BY <1>1, <1>3, <1>4

(* An entry that shrinks in place takes as much off whatever counts it.     *)
LEMMA ShrunkSums ==
  ASSUME NEW es, Sized(es), NEW k \in DOMAIN es, NEW e,
         {"bytes", "older"} \subseteq DOMAIN e, e.bytes \in Nat, k \notin e.older
  PROVE  LET fs == [es EXCEPT ![k] = e]
         IN /\ Sized(fs) /\ DOMAIN fs = DOMAIN es
            /\ \A S \in SUBSET DOMAIN es :
                 /\ Sum(fs, S) = IF k \in S THEN Sum(es, S) - (es[k].bytes - e.bytes)
                                            ELSE Sum(es, S)
                 /\ Sum(es, S) \in Nat
<1> DEFINE fs == [es EXCEPT ![k] = e]
<1>1. DOMAIN fs = DOMAIN es /\ fs[k] = e /\ \A x \in DOMAIN es \ {k} : fs[x] = es[x]
  OBVIOUS
<1> HIDE DEF fs
<1>2. Sized(fs)
  BY <1>1 DEF Sized
<1>3. ASSUME NEW S \in SUBSET DOMAIN es
      PROVE  /\ Sum(fs, S) = IF k \in S THEN Sum(es, S) - (es[k].bytes - e.bytes)
                                        ELSE Sum(es, S)
             /\ Sum(es, S) \in Nat
  <2> DEFINE R == S \ {k}
  <2>1. IsFiniteSet(S) /\ IsFiniteSet(R)
    BY FS_Subset DEF Sized
  <2>2. Sum(es, S) \in Nat /\ Sum(es, R) \in Nat
    BY <2>1, SumType DEF Sized
  <2>3. Sum(fs, R) = Sum(es, R)
    BY <1>1, SumSame
  <2>4. ASSUME k \in S
        PROVE  Sum(fs, S) = Sum(fs, R) + e.bytes /\ Sum(es, S) = Sum(es, R) + es[k].bytes
    <3>1. R \cup {k} = S /\ R \in SUBSET (DOMAIN es \ {k}) /\ R \in SUBSET (DOMAIN fs \ {k})
      BY <2>4, <1>1
    <3>2. \A x \in R \cup {k} : es[x].bytes \in Nat /\ fs[x].bytes \in Nat
      BY <3>1, <1>1, <1>2 DEF Sized
    <3> HIDE DEF R
    <3>3. Sum(es, R \cup {k}) = Sum(es, R) + es[k].bytes
      BY <2>1, <3>1, <3>2, SumMore
    <3>4. Sum(fs, R \cup {k}) = Sum(fs, R) + fs[k].bytes
      BY <2>1, <3>1, <3>2, <1>1, SumMore
    <3> QED BY <3>1, <3>3, <3>4, <1>1
  <2>5. es[k].bytes \in Nat
    BY DEF Sized
  <2>6. CASE k \in S
    BY <2>2, <2>3, <2>4, <2>5, <2>6
  <2>7. CASE k \notin S
    BY <2>2, <2>3, <2>7
  <2> QED BY <2>6, <2>7
<1> QED BY <1>1, <1>2, <1>3 DEF fs

(* Nothing stays that is older than what has to go.                         *)
LEMMA VictimsOldest ==
  ASSUME NEW older, IsFiniteSet(DOMAIN older),
         \A j \in DOMAIN older : \A i \in older[j] \cap DOMAIN older :
           older[i] \cap DOMAIN older \subseteq older[j],
         NEW size, NEW held, NEW b, NEW byteLimit, NEW entryLimit
  PROVE  LET gone == Victims(older, size, held, b, byteLimit, entryLimit)
         IN /\ gone \subseteq DOMAIN older
            /\ \A j \in gone : older[j] \cap DOMAIN older \subseteq gone
<1> DEFINE keys == DOMAIN older
           First(n) == Oldest(older, keys, n)
           Enough(n) == /\ held - Total(size, First(n)) + b <= byteLimit
                        /\ Cardinality(keys \ First(n)) < entryLimit
           need == {n \in 0 .. Cardinality(keys) : n = Cardinality(keys) \/ Enough(n)}
<1>1. Cardinality(keys) \in Nat
  BY FS_CardinalityType
<1>2. need \subseteq Nat /\ Cardinality(keys) \in need
  BY <1>1
<1>3. PICK m \in Nat : m = Min(need)
  <2> HIDE DEF need
  <2> QED BY <1>2, SmallestOf
<1>4. Victims(older, size, held, b, byteLimit, entryLimit) = First(m)
  BY <1>3 DEF Victims
<1>5. First(m) \subseteq keys
  BY DEF Oldest
<1>6. ASSUME NEW j \in First(m), NEW i \in older[j] \cap keys PROVE i \in First(m)
  <2>1. j \in keys /\ Cardinality(older[j] \cap keys) < m
    BY DEF Oldest
  <2>2. older[i] \cap keys \subseteq older[j] \cap keys
    BY <2>1
  <2>3. IsFiniteSet(older[j] \cap keys)
    BY FS_Subset
  <2>4. /\ Cardinality(older[i] \cap keys) <= Cardinality(older[j] \cap keys)
        /\ Cardinality(older[i] \cap keys) \in Nat /\ Cardinality(older[j] \cap keys) \in Nat
    BY <2>2, <2>3, FS_Subset, FS_CardinalityType
  <2>5. Cardinality(older[i] \cap keys) < m
    BY <2>1, <2>4
  <2> QED BY <2>5 DEF Oldest
<1> HIDE DEF First
<1> QED BY <1>4, <1>5, <1>6
=============================================================================
