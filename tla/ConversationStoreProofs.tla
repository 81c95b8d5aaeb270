----------------------- MODULE ConversationStoreProofs -----------------------
(***************************************************************************)
(* Proofs that the conversation store keeps its types, its byte counter,   *)
(* its budgets and its leases, and that it implements Conversations, for    *)
(* every credential, id, item and budget.                                   *)
(*                                                                         *)
(* The sums are cardinalities of ledgers (module ConversationStore), so    *)
(* facts about them come from the theorems on finite sets.                  *)
(***************************************************************************)
EXTENDS ConversationStore, FiniteSetTheorems, SequenceTheorems, TLAPS

MapType == [Keys -> Entry \cup {NoEntry}]

-----------------------------------------------------------------------------
(* Ledgers and totals.                                                      *)

(* Byte n of the entry at k is in the ledger of K when k is a held key of K *)
(* and n is within the entry's size.                                        *)
LEMMA LedgerMember ==
  ASSUME NEW es \in MapType, NEW K, NEW x
  PROVE  x \in Ledger(es, K) <=>
           \E k \in Live(es) \cap K : \E n \in 1 .. es[k].bytes : x = <<k, n>>
BY DEF Ledger

(* The ledger of one entry of b bytes has b members.                        *)
LEMMA OneEntry ==
  ASSUME NEW k, NEW b \in Nat
  PROVE  /\ IsFiniteSet({k} \X (1 .. b))
         /\ Cardinality({k} \X (1 .. b)) = b
<1>1. IsFiniteSet({k}) /\ Cardinality({k}) = 1
  BY FS_Singleton
<1>2. IsFiniteSet(1 .. b) /\ Cardinality(1 .. b) = b
  BY FS_Interval
<1>3. /\ IsFiniteSet({k} \X (1 .. b))
      /\ Cardinality({k} \X (1 .. b)) = Cardinality({k}) * Cardinality(1 .. b)
  BY <1>1, <1>2, FS_Product, Zenon
<1>4. 1 * b = b
  OBVIOUS
<1> QED BY <1>1, <1>2, <1>3, <1>4, Zenon

(* A map with finitely many entries has finite ledgers.                     *)
LEMMA LedgerFinite ==
  ASSUME NEW es \in MapType, IsFiniteSet(Live(es)), NEW K
  PROVE  /\ IsFiniteSet(Ledger(es, K))
         /\ Total(es, K) \in Nat
<1> DEFINE S == Live(es) \cap K
           L == {{k} \X (1 .. es[k].bytes) : k \in S}
<1>1. IsFiniteSet(S)
  BY FS_Intersection
<1>2. IsFiniteSet(L)
  <2> DEFINE f == [k \in S |-> {k} \X (1 .. es[k].bytes)]
  <2>1. f \in Surjection(S, L)
    BY DEF Surjection
  <2> QED BY <1>1, <2>1, FS_Surjection
<1>3. \A T \in L : IsFiniteSet(T)
  <2> TAKE T \in L
  <2>1. PICK k \in S : T = {k} \X (1 .. es[k].bytes)
    OBVIOUS
  <2>2. es[k].bytes \in Nat
    BY DEF MapType, Live, Entry
  <2> QED BY <2>1, <2>2, OneEntry
<1>4. IsFiniteSet(UNION L)
  BY <1>2, <1>3, FS_UNION
<1> QED BY <1>4, FS_CardinalityType DEF Ledger, Total

(* Totals of disjoint sets of keys add up.                                  *)
LEMMA TotalSplit ==
  ASSUME NEW es \in MapType, IsFiniteSet(Live(es)),
         NEW A, NEW B, A \cap B = {}
  PROVE  Total(es, A \cup B) = Total(es, A) + Total(es, B)
<1>1. Ledger(es, A \cup B) = Ledger(es, A) \cup Ledger(es, B)
  BY DEF Ledger
<1>2. Ledger(es, A) \cap Ledger(es, B) = {}
  <2> SUFFICES ASSUME NEW x \in Ledger(es, A) \cap Ledger(es, B) PROVE FALSE
    OBVIOUS
  <2>1. PICK k \in A : \E n : x = <<k, n>>
    BY LedgerMember
  <2>2. PICK j \in B : \E n : x = <<j, n>>
    BY LedgerMember
  <2>3. k = j
    BY <2>1, <2>2
  <2> QED BY <2>3
<1>3. IsFiniteSet(Ledger(es, A)) /\ IsFiniteSet(Ledger(es, B))
  BY LedgerFinite
<1>4. Cardinality(Ledger(es, A)) \in Nat /\ Cardinality(Ledger(es, B)) \in Nat
  BY <1>3, FS_CardinalityType
<1>5. Cardinality(Ledger(es, A) \cup Ledger(es, B)) =
        Cardinality(Ledger(es, A)) + Cardinality(Ledger(es, B))
          - Cardinality(Ledger(es, A) \cap Ledger(es, B))
  BY <1>3, FS_Union, Zenon
<1>6. Cardinality(Ledger(es, A) \cap Ledger(es, B)) = 0
  BY <1>2, FS_EmptySet
<1>7. /\ Total(es, A \cup B) = Cardinality(Ledger(es, A) \cup Ledger(es, B))
      /\ Total(es, A) = Cardinality(Ledger(es, A))
      /\ Total(es, B) = Cardinality(Ledger(es, B))
  BY <1>1, Zenon DEF Total
<1>8. Total(es, A) \in Nat /\ Total(es, B) \in Nat
  BY <1>4, <1>7
<1>9. Total(es, A \cup B) = Total(es, A) + Total(es, B) - 0
  BY <1>5, <1>6, <1>7, Zenon
<1> QED BY <1>8, <1>9

(* Totals depend only on which entries are held and on their sizes.         *)
LEMMA TotalFrame ==
  ASSUME NEW es \in MapType, NEW fs \in MapType, NEW K \in SUBSET Keys,
         \A k \in K : /\ es[k] = NoEntry <=> fs[k] = NoEntry
                      /\ es[k] # NoEntry => es[k].bytes = fs[k].bytes
  PROVE  Total(es, K) = Total(fs, K)
<1>1. Live(es) \cap K = Live(fs) \cap K
  BY DEF Live
<1>2. \A k \in Live(es) \cap K : es[k].bytes = fs[k].bytes
  BY DEF Live
<1>3. Ledger(es, K) = Ledger(fs, K)
  BY <1>1, <1>2 DEF Ledger
<1> QED BY <1>3 DEF Total

(* The total of one key is its entry's size, or nothing.                    *)
LEMMA TotalSingle ==
  ASSUME NEW es \in MapType, NEW k \in Keys
  PROVE  Total(es, {k}) = IF es[k] = NoEntry THEN 0 ELSE es[k].bytes
<1>1. CASE es[k] = NoEntry
  <2>1. Ledger(es, {k}) = {}
    BY <1>1 DEF Ledger, Live
  <2> QED BY <1>1, <2>1, FS_EmptySet DEF Total
<1>2. CASE es[k] # NoEntry
  <2>1. Live(es) \cap {k} = {k}
    BY <1>2 DEF Live
  <2>2. Ledger(es, {k}) = {k} \X (1 .. es[k].bytes)
    BY <2>1 DEF Ledger
  <2>3. es[k].bytes \in Nat
    BY <1>2 DEF MapType, Entry
  <2> QED BY <1>2, <2>2, <2>3, OneEntry DEF Total
<1> QED BY <1>1, <1>2
(* A map with fewer entries, of unchanged sizes, has smaller totals.        *)
LEMMA TotalMonotone ==
  ASSUME NEW es \in MapType, NEW fs \in MapType, IsFiniteSet(Live(es)),
         NEW K \in SUBSET Keys,
         \A k \in Keys : fs[k] # NoEntry =>
                           es[k] # NoEntry /\ fs[k].bytes = es[k].bytes
  PROVE  Total(fs, K) <= Total(es, K)
<1>1. Ledger(fs, K) \subseteq Ledger(es, K)
  BY DEF Ledger, Live
<1>2. IsFiniteSet(Ledger(es, K))
  BY LedgerFinite
<1> QED BY <1>1, <1>2, FS_Subset DEF Total

(* Dropping the entries of R takes away their total.                        *)
LEMMA TotalRemoval ==
  ASSUME NEW es \in MapType, NEW fs \in MapType, IsFiniteSet(Live(es)),
         NEW R \in SUBSET Keys,
         \A k \in Keys : /\ fs[k] = NoEntry <=> es[k] = NoEntry \/ k \in R
                         /\ fs[k] # NoEntry => fs[k].bytes = es[k].bytes
  PROVE  Total(fs, Keys) = Total(es, Keys) - Total(es, R)
<1> DEFINE S == Keys \ R
<1>1. R \cup S = Keys /\ R \cap S = {}
  OBVIOUS
<1>2. IsFiniteSet(Live(fs))
  <2>1. Live(fs) \subseteq Live(es)
    BY DEF Live
  <2> QED BY <2>1, FS_Subset
<1>3. Total(es, Keys) = Total(es, R) + Total(es, S)
  BY <1>1, TotalSplit
<1>4. Total(fs, Keys) = Total(fs, R) + Total(fs, S)
  BY <1>1, <1>2, TotalSplit
<1>5. Total(fs, S) = Total(es, S)
  BY TotalFrame
<1>6. Total(fs, R) = 0
  <2>1. Ledger(fs, R) = {}
    BY DEF Ledger, Live
  <2> QED BY <2>1, FS_EmptySet DEF Total
<1>7. Total(es, R) \in Nat /\ Total(es, S) \in Nat
  BY LedgerFinite
<1> QED BY <1>3, <1>4, <1>5, <1>6, <1>7

(* Putting e at k trades the old size at k for the new one, in every set of *)
(* keys that has k, and touches no other.                                   *)
LEMMA TotalReplace ==
  ASSUME NEW es \in MapType, IsFiniteSet(Live(es)),
         NEW k \in Keys, NEW e \in Entry, NEW K \in SUBSET Keys
  PROVE  LET fs == [es EXCEPT ![k] = e]
             old == IF es[k] = NoEntry THEN 0 ELSE es[k].bytes
         IN  /\ fs \in MapType
             /\ Live(fs) = Live(es) \cup {k}
             /\ IsFiniteSet(Live(fs))
             /\ Total(fs, K) = IF k \in K THEN Total(es, K) - old + e.bytes
                                          ELSE Total(es, K)
<1> DEFINE fs == [es EXCEPT ![k] = e]
           old == IF es[k] = NoEntry THEN 0 ELSE es[k].bytes
           S == K \ {k}
<1>1. fs \in MapType
  BY DEF MapType
<1>2. Live(fs) = Live(es) \cup {k}
  BY StoreAssumption DEF Live, MapType
<1>3. IsFiniteSet(Live(fs))
  <2>1. IsFiniteSet(Live(es) \cup {k})
    BY FS_AddElement, Zenon
  <2> QED BY <1>2, <2>1
<1>4. Total(fs, S) = Total(es, S)
  <2>1. S \in SUBSET Keys /\ \A j \in S : fs[j] = es[j]
    BY DEF MapType
  <2> HIDE DEF fs, S
  <2> QED BY <1>1, <2>1, TotalFrame
<1>5. CASE k \in K
  <2>1. K = S \cup {k} /\ S \cap {k} = {}
    BY <1>5
  <2>2. Total(es, K) = Total(es, S) + Total(es, {k})
    BY <2>1, TotalSplit
  <2>3. Total(fs, K) = Total(fs, S) + Total(fs, {k})
    BY <2>1, <1>1, <1>3, TotalSplit
  <2>4. Total(es, {k}) = old
    BY TotalSingle
  <2>5. Total(fs, {k}) = e.bytes
    <3>1. fs[k] = e /\ e # NoEntry
      BY StoreAssumption DEF MapType
    <3> HIDE DEF fs
    <3>2. Total(fs, {k}) = IF fs[k] = NoEntry THEN 0 ELSE fs[k].bytes
      BY <1>1, TotalSingle
    <3> QED BY <3>1, <3>2, Zenon
  <2>6. Total(es, S) \in Nat /\ old \in Nat /\ e.bytes \in Nat
    BY LedgerFinite DEF MapType, Entry
  <2>7. Total(fs, K) = Total(es, K) - old + e.bytes
    <3> HIDE DEF fs, old, S
    <3> QED BY <1>4, <2>2, <2>3, <2>4, <2>5, <2>6
  <2> QED BY <1>1, <1>2, <1>3, <1>5, <2>7, Zenon
<1>6. CASE k \notin K
  <2>1. S = K
    BY <1>6
  <2> QED BY <1>1, <1>2, <1>3, <1>4, <1>6, <2>1
<1> QED BY <1>5, <1>6

-----------------------------------------------------------------------------
(* The operations on the map.                                               *)

MapOK(es, b) ==
  /\ es \in MapType
  /\ IsFiniteSet(Live(es))
  /\ b = Total(es, Keys)
  /\ Affordable(es)

(* Same or fewer entries with the same documents stay within the budgets.   *)
LEMMA ShrinkAffordable ==
  ASSUME NEW es \in MapType, NEW fs \in MapType, IsFiniteSet(Live(es)),
         Affordable(es),
         \A k \in Keys : fs[k] # NoEntry =>
                           /\ es[k] # NoEntry
                           /\ fs[k].bytes = es[k].bytes
                           /\ fs[k].doc = es[k].doc
  PROVE  IsFiniteSet(Live(fs)) /\ Affordable(fs)
<1>1. Live(fs) \subseteq Live(es)
  BY DEF Live
<1>2. \A K : /\ IsFiniteSet(Live(fs) \cap K) /\ IsFiniteSet(Live(es) \cap K)
             /\ Cardinality(Live(fs) \cap K) <= Cardinality(Live(es) \cap K)
  <2> TAKE K
  <2>1. Live(fs) \cap K \subseteq Live(es) \cap K
    BY <1>1
  <2>2. IsFiniteSet(Live(es) \cap K)
    BY FS_Intersection
  <2> QED BY <2>1, <2>2, FS_Subset
<1>3. IsFiniteSet(Live(fs)) /\ Cardinality(Live(fs)) <= Cardinality(Live(es))
  BY <1>1, FS_Subset
<1>4. \A K \in SUBSET Keys : Total(fs, K) <= Total(es, K)
  BY TotalMonotone
<1>5. \A K : Total(fs, K) \in Nat /\ Total(es, K) \in Nat
  BY <1>3, LedgerFinite
<1>6. \A K : /\ Cardinality(Live(fs) \cap K) \in Nat
             /\ Cardinality(Live(es) \cap K) \in Nat
  BY <1>2, FS_CardinalityType
<1>7. Cardinality(Live(fs)) \in Nat /\ Cardinality(Live(es)) \in Nat
  BY <1>3, FS_CardinalityType
<1>8. Total(fs, Keys) <= MaxBytes /\ Cardinality(Live(fs)) <= MaxEntries
  BY <1>3, <1>4, <1>5, <1>7, StoreAssumption DEF Affordable
<1>9. ASSUME NEW o \in Owners
      PROVE  /\ Total(fs, OwnerKeys(o)) <= MaxCredentialBytes
             /\ Cardinality(Live(fs) \cap OwnerKeys(o)) <= MaxCredentialEntries
  <2>1. OwnerKeys(o) \in SUBSET Keys
    BY DEF OwnerKeys, Keys
  <2>2. /\ Total(es, OwnerKeys(o)) <= MaxCredentialBytes
        /\ Cardinality(Live(es) \cap OwnerKeys(o)) <= MaxCredentialEntries
    BY DEF Affordable
  <2>3. Total(fs, OwnerKeys(o)) <= MaxCredentialBytes
    BY <1>4, <1>5, <2>1, <2>2, StoreAssumption
  <2>4. Cardinality(Live(fs) \cap OwnerKeys(o)) <= MaxCredentialEntries
    <3> DEFINE cf == Cardinality(Live(fs) \cap OwnerKeys(o))
               ce == Cardinality(Live(es) \cap OwnerKeys(o))
    <3>1. cf <= ce /\ cf \in Nat /\ ce \in Nat
      BY <1>2, <1>6, Zenon
    <3>2. ce <= MaxCredentialEntries /\ MaxCredentialEntries \in Nat
      BY <2>2, StoreAssumption
    <3> HIDE DEF cf, ce
    <3> QED BY <3>1, <3>2 DEF cf
  <2> QED BY <2>3, <2>4
<1>10. \A k \in Live(fs) :
         /\ fs[k].bytes = DocumentBytes(fs[k].doc)
         /\ fs[k].bytes <= MaxConversationBytes
         /\ Len(fs[k].doc.items) <= MaxItems
         /\ UniqueIds(fs[k].doc.items)
  BY <1>1 DEF Affordable, Live
<1> QED BY <1>3, <1>8, <1>9, <1>10 DEF Affordable

(* Renewing expiries and moving leases leaves the accounts as they are.     *)
LEMMA AdjustOK ==
  ASSUME NEW es, NEW b, MapOK(es, b), NEW fs \in MapType,
         \A k \in Keys : /\ fs[k] = NoEntry <=> es[k] = NoEntry
                         /\ fs[k] # NoEntry => /\ fs[k].bytes = es[k].bytes
                                               /\ fs[k].doc = es[k].doc
  PROVE  MapOK(fs, b)
<1>1. es \in MapType /\ IsFiniteSet(Live(es)) /\ b = Total(es, Keys) /\ Affordable(es)
  BY DEF MapOK
<1>2. IsFiniteSet(Live(fs)) /\ Affordable(fs)
  BY <1>1, ShrinkAffordable
<1>3. Total(es, Keys) = Total(fs, Keys)
  BY <1>1, TotalFrame
<1> QED BY <1>1, <1>2, <1>3 DEF MapOK

(* Dropping the entries of R and their total from the counter.              *)
LEMMA DropOK ==
  ASSUME NEW es, NEW b, MapOK(es, b), NEW fs \in MapType, NEW R \in SUBSET Keys,
         \A k \in Keys : /\ fs[k] = NoEntry <=> es[k] = NoEntry \/ k \in R
                         /\ fs[k] # NoEntry => fs[k] = es[k]
  PROVE  MapOK(fs, b - Total(es, R))
<1>1. es \in MapType /\ IsFiniteSet(Live(es)) /\ b = Total(es, Keys) /\ Affordable(es)
  BY DEF MapOK
<1>2. IsFiniteSet(Live(fs)) /\ Affordable(fs)
  BY <1>1, ShrinkAffordable
<1>3. Total(fs, Keys) = Total(es, Keys) - Total(es, R)
  BY <1>1, TotalRemoval
<1> QED BY <1>1, <1>2, <1>3 DEF MapOK

LEMMA SweptOK ==
  ASSUME MapOK(entries, bytes)
  PROVE  MapOK(Swept, SweptBytes)
<1>1. Swept \in MapType
  BY DEF MapOK, MapType, Swept
<1>2. Expired \in SUBSET Keys
  BY DEF Expired, Live
<1>3. \A k \in Keys : /\ Swept[k] = NoEntry <=> entries[k] = NoEntry \/ k \in Expired
                      /\ Swept[k] # NoEntry => Swept[k] = entries[k]
  BY DEF Swept
<1> QED BY <1>1, <1>2, <1>3, DropOK DEF SweptBytes

(* Putting an entry at k that respects the limits of #serialize and, if the *)
(* key is new, those of create.                                             *)
LEMMA PutOK ==
  ASSUME NEW es, NEW b, MapOK(es, b), NEW k \in Keys, NEW e \in Entry,
         NEW old, old = IF es[k] = NoEntry THEN 0 ELSE es[k].bytes,
         e.bytes = DocumentBytes(e.doc),
         e.bytes <= MaxConversationBytes,
         Len(e.doc.items) <= MaxItems,
         UniqueIds(e.doc.items),
         Total(es, OwnerKeys(k[1])) - old + e.bytes <= MaxCredentialBytes,
         b - old + e.bytes <= MaxBytes,
         es[k] = NoEntry =>
           /\ Cardinality(Live(es) \cap OwnerKeys(k[1])) < MaxCredentialEntries
           /\ Cardinality(Live(es)) < MaxEntries
  PROVE  MapOK([es EXCEPT ![k] = e], b + e.bytes - old)
<1> DEFINE fs == [es EXCEPT ![k] = e]
<1>1. /\ es \in MapType /\ IsFiniteSet(Live(es))
      /\ b = Total(es, Keys) /\ Affordable(es)
  BY DEF MapOK
<1>2. /\ fs \in MapType /\ Live(fs) = Live(es) \cup {k} /\ IsFiniteSet(Live(fs))
      /\ fs[k] = e /\ \A j \in Keys \ {k} : fs[j] = es[j]
  <2>1. fs \in MapType /\ Live(fs) = Live(es) \cup {k} /\ IsFiniteSet(Live(fs))
    BY <1>1, TotalReplace
  <2>2. fs[k] = e /\ \A j \in Keys \ {k} : fs[j] = es[j]
    BY <1>1 DEF MapType
  <2> QED BY <2>1, <2>2
<1>3. \A K \in SUBSET Keys :
        Total(fs, K) = IF k \in K THEN Total(es, K) - old + e.bytes ELSE Total(es, K)
  <2> TAKE K \in SUBSET Keys
  <2>1. Total(fs, K) = IF k \in K
          THEN Total(es, K) - (IF es[k] = NoEntry THEN 0 ELSE es[k].bytes) + e.bytes
          ELSE Total(es, K)
    BY <1>1, TotalReplace
  <2> HIDE DEF fs
  <2> QED BY <2>1
<1>4. old \in Nat /\ e.bytes \in Nat /\ \A K : Total(es, K) \in Nat
  BY <1>1, LedgerFinite DEF MapType, Entry
<1>5. /\ {MaxBytes, MaxEntries, MaxCredentialBytes, MaxCredentialEntries} \subseteq Nat
      /\ b \in Nat
  BY <1>1, <1>4, StoreAssumption
<1>6. \A K : /\ IsFiniteSet(Live(es) \cap K)
             /\ Cardinality(Live(es) \cap K) \in Nat
  BY <1>1, FS_Intersection, FS_CardinalityType
<1> HIDE DEF fs
<1>7. Total(fs, Keys) = b + e.bytes - old /\ Total(fs, Keys) <= MaxBytes
  <2>1. Total(fs, Keys) = Total(es, Keys) - old + e.bytes
    BY <1>3
  <2> QED BY <2>1, <1>1, <1>4, <1>5
<1>8. \A K : Cardinality(Live(fs) \cap K) =
        IF k \in K /\ es[k] = NoEntry THEN Cardinality(Live(es) \cap K) + 1
                                      ELSE Cardinality(Live(es) \cap K)
  <2> TAKE K
  <2>1. CASE k \in K /\ es[k] = NoEntry
    <3>1. Live(fs) \cap K = (Live(es) \cap K) \cup {k}
      BY <1>2, <2>1
    <3>2. k \notin Live(es) \cap K
      BY <2>1 DEF Live
    <3>3. Cardinality((Live(es) \cap K) \cup {k}) = Cardinality(Live(es) \cap K) + 1
      BY <1>6, <3>2, FS_AddElement, Zenon
    <3> QED BY <2>1, <3>1, <3>3, Zenon
  <2>2. CASE ~(k \in K /\ es[k] = NoEntry)
    <3>1. Live(fs) \cap K = Live(es) \cap K
      BY <1>2, <2>2 DEF Live
    <3> QED BY <2>2, <3>1, Zenon
  <2> QED BY <2>1, <2>2
<1>9. Live(fs) \cap Keys = Live(fs) /\ Live(es) \cap Keys = Live(es)
  BY DEF Live
<1>10. Cardinality(Live(fs)) <= MaxEntries
  <2>1. Cardinality(Live(es)) \in Nat /\ Cardinality(Live(es)) <= MaxEntries
    BY <1>1, <1>6, <1>9, Zenon DEF Affordable
  <2>2. Cardinality(Live(fs)) = IF es[k] = NoEntry THEN Cardinality(Live(es)) + 1
                                                   ELSE Cardinality(Live(es))
    BY <1>8, <1>9, Zenon
  <2> QED BY <2>1, <2>2, <1>5
<1>11. ASSUME NEW o \in Owners
       PROVE  /\ Total(fs, OwnerKeys(o)) <= MaxCredentialBytes
              /\ Cardinality(Live(fs) \cap OwnerKeys(o)) <= MaxCredentialEntries
  <2>1. /\ OwnerKeys(o) \in SUBSET Keys
        /\ k \in OwnerKeys(o) <=> o = k[1]
    BY DEF OwnerKeys, Keys
  <2>2. /\ Total(es, OwnerKeys(o)) <= MaxCredentialBytes
        /\ Cardinality(Live(es) \cap OwnerKeys(o)) <= MaxCredentialEntries
    BY <1>1 DEF Affordable
  <2>3. Total(fs, OwnerKeys(o)) <= MaxCredentialBytes
    BY <1>3, <2>1, <2>2
  <2>4. Cardinality(Live(es) \cap OwnerKeys(o)) \in Nat
    BY <1>6, Zenon
  <2>5. Cardinality(Live(fs) \cap OwnerKeys(o)) =
          IF k \in OwnerKeys(o) /\ es[k] = NoEntry
            THEN Cardinality(Live(es) \cap OwnerKeys(o)) + 1
            ELSE Cardinality(Live(es) \cap OwnerKeys(o))
    BY <1>8, Zenon
  <2>6. Cardinality(Live(fs) \cap OwnerKeys(o)) <= MaxCredentialEntries
    <3>1. k \in OwnerKeys(o) /\ es[k] = NoEntry =>
            Cardinality(Live(es) \cap OwnerKeys(o)) < MaxCredentialEntries
      BY <2>1, Zenon
    <3> QED BY <2>2, <2>4, <2>5, <3>1, <1>5
  <2> QED BY <2>3, <2>6
<1>12. ASSUME NEW j \in Live(fs)
       PROVE  /\ fs[j].bytes = DocumentBytes(fs[j].doc)
              /\ fs[j].bytes <= MaxConversationBytes
              /\ Len(fs[j].doc.items) <= MaxItems
              /\ UniqueIds(fs[j].doc.items)
  <2>1. CASE j = k
    BY <1>2, <2>1
  <2>2. CASE j # k
    <3>1. j \in Live(es) /\ fs[j] = es[j]
      BY <1>2, <2>2 DEF Live
    <3> QED BY <1>1, <3>1 DEF Affordable
  <2> QED BY <2>1, <2>2
<1>13. Affordable(fs)
  BY <1>7, <1>10, <1>11, <1>12 DEF Affordable
<1> QED BY <1>2, <1>7, <1>13 DEF MapOK, fs

-----------------------------------------------------------------------------
(* What an operation leaves of the entry at k: the document and the lease.  *)
Same(k) == /\ entries[k] # NoEntry
           /\ entries'[k].doc = entries[k].doc
           /\ entries'[k].busy = entries[k].busy

(* Every entry the operation leaves in the map is the same one.             *)
Steady(S) == \A j \in S : entries'[j] = NoEntry \/ Same(j)

LEMMA SweptSame ==
  \A j \in Keys : Swept[j] # NoEntry => entries[j] # NoEntry /\ Swept[j] = entries[j]
BY DEF Swept

LEMMA SweepStep ==
  ASSUME MapOK(entries, bytes), Sweep
  PROVE  MapOK(entries', bytes') /\ Steady(Keys)
<1>1. MapOK(entries', bytes')
  BY SweptOK DEF Sweep
<1>2. Steady(Keys)
  BY SweptSame DEF Sweep, Steady, Same
<1> QED BY <1>1, <1>2

LEMMA TouchStep ==
  ASSUME MapOK(entries, bytes), now \in Nat, NEW k \in Keys, Touch(k)
  PROVE  MapOK(entries', bytes') /\ Steady(Keys)
<1>1. MapOK(Swept, SweptBytes) /\ Swept \in MapType
  BY SweptOK DEF MapOK
<1>2. CASE Swept[k] = NoEntry
  <2>1. Sweep
    BY <1>2 DEF Touch, Sweep
  <2> QED BY <2>1, SweepStep
<1>3. CASE Swept[k] # NoEntry
  <2> DEFINE e == [Swept[k] EXCEPT !.expiresAt = now + Ttl]
  <2>1. /\ e \in Entry /\ e # NoEntry
        /\ e.bytes = Swept[k].bytes /\ e.doc = Swept[k].doc /\ e.busy = Swept[k].busy
    <3>1. Swept[k] \in Entry
      BY <1>1, <1>3 DEF MapType
    <3>2. now + Ttl \in Nat
      BY StoreAssumption
    <3> QED BY <3>1, <3>2, StoreAssumption DEF Entry
  <2>2. entries' = [Swept EXCEPT ![k] = e] /\ bytes' = SweptBytes
    BY <1>3 DEF Touch
  <2> HIDE DEF e
  <2>3. /\ entries' \in MapType /\ entries'[k] = e
        /\ \A j \in Keys \ {k} : entries'[j] = Swept[j]
    BY <1>1, <2>1, <2>2 DEF MapType
  <2>4. MapOK(entries', bytes')
    <3>1. \A j \in Keys : /\ entries'[j] = NoEntry <=> Swept[j] = NoEntry
                          /\ entries'[j] # NoEntry => /\ entries'[j].bytes = Swept[j].bytes
                                                      /\ entries'[j].doc = Swept[j].doc
      BY <1>3, <2>1, <2>3
    <3> QED BY <1>1, <2>2, <2>3, <3>1, AdjustOK
  <2>5. Steady(Keys)
    BY <1>3, <2>1, <2>3, SweptSame DEF Steady, Same
  <2> QED BY <2>4, <2>5
<1> QED BY <1>2, <1>3

LEMMA WriteStep ==
  ASSUME MapOK(entries, bytes), now \in Nat,
         NEW k \in Keys, NEW doc \in Document, NEW busy \in BOOLEAN,
         Fits(k, doc), Write(k, doc, busy),
         Swept[k] = NoEntry => EntriesFit(k[1])
  PROVE  /\ MapOK(entries', bytes')
         /\ Steady(Keys \ {k})
         /\ entries'[k] # NoEntry
         /\ entries'[k].doc = doc /\ entries'[k].busy = busy
<1> DEFINE e == [doc |-> doc, bytes |-> DocumentBytes(doc),
                 busy |-> busy, expiresAt |-> now + Ttl]
           old == IF Swept[k] = NoEntry THEN 0 ELSE Swept[k].bytes
<1>1. MapOK(Swept, SweptBytes) /\ Swept \in MapType
  BY SweptOK DEF MapOK
<1>2. DocumentBytes(doc) \in Nat /\ now + Ttl \in Nat
  BY StoreAssumption, SMTT(30) DEF DocumentBytes, Document
<1>3. e \in Entry /\ e # NoEntry /\ e.doc = doc /\ e.busy = busy /\ e.bytes = DocumentBytes(doc)
  BY <1>2, StoreAssumption DEF Entry
<1>4. /\ entries' = [Swept EXCEPT ![k] = e]
      /\ bytes' = SweptBytes + e.bytes - old
  BY DEF Write
<1>5. /\ Len(doc.items) <= MaxItems /\ UniqueIds(doc.items)
      /\ DocumentBytes(doc) <= MaxConversationBytes
      /\ Total(Swept, OwnerKeys(k[1])) - old + DocumentBytes(doc) <= MaxCredentialBytes
      /\ SweptBytes - old + DocumentBytes(doc) <= MaxBytes
  BY Zenon DEF Fits
<1>6. old = IF Swept[k] = NoEntry THEN 0 ELSE Swept[k].bytes
  OBVIOUS
<1> HIDE DEF e, old
<1>7. MapOK([Swept EXCEPT ![k] = e], SweptBytes + e.bytes - old)
  BY <1>1, <1>3, <1>5, <1>6, PutOK DEF EntriesFit
<1>8. entries'[k] = e /\ \A j \in Keys \ {k} : entries'[j] = Swept[j]
  BY <1>1, <1>4 DEF MapType
<1>9. Steady(Keys \ {k})
  BY <1>8, SweptSame DEF Steady, Same
<1> QED BY <1>3, <1>4, <1>7, <1>8, <1>9

(* What a rewrite leaves: the entry at k has the new document, or the old.  *)
LEMMA RewriteStep ==
  ASSUME MapOK(entries, bytes), now \in Nat,
         NEW k \in Keys, NEW doc \in Document, Idle(k), Rewrite(k, doc)
  PROVE  /\ MapOK(entries', bytes')
         /\ Steady(Keys \ {k})
         /\ ~entries[k].busy /\ entries[k] # NoEntry
         /\ entries'[k] # NoEntry => ~entries'[k].busy
<1>1. ~entries[k].busy /\ entries[k] # NoEntry /\ Swept[k] # NoEntry
  BY SweptSame DEF Idle
<1>2. CASE Fits(k, doc)
  BY <1>1, <1>2, WriteStep DEF Rewrite
<1>3. CASE ~Fits(k, doc)
  <2>1. Touch(k)
    BY <1>3 DEF Rewrite
  <2>2. MapOK(entries', bytes') /\ Steady(Keys)
    BY <2>1, TouchStep
  <2> QED BY <1>1, <2>2 DEF Steady, Same
<1> QED BY <1>2, <1>3

-----------------------------------------------------------------------------
(* Documents an operation builds are documents.                             *)

LEMMA HeldDocument ==
  ASSUME entries \in MapType, NEW k \in Keys, Swept[k] # NoEntry
  PROVE  Swept[k].doc \in Document /\ Swept[k].busy \in BOOLEAN
BY SweptSame DEF MapType, Entry

LEMMA WithMetadata ==
  ASSUME NEW doc \in Document, NEW m \in Metadata
  PROVE  [doc EXCEPT !.metadata = m] \in Document
BY DEF Document

LEMMA WithItems ==
  ASSUME NEW doc \in Document, NEW items \in Seq(Items)
  PROVE  /\ [doc EXCEPT !.items = @ \o items] \in Document
         /\ [doc EXCEPT !.items = items] \in Document
         /\ doc.items \in Seq(Items)
<1>1. doc.items \in Seq(Items)
  BY DEF Document
<1>2. doc.items \o items \in Seq(Items)
  BY <1>1, ConcatProperties
<1> QED BY <1>1, <1>2 DEF Document

LEMMA WithoutItem ==
  ASSUME NEW items \in Seq(Items), NEW n \in 1 .. Len(items)
  PROVE  Without(items, n) \in Seq(Items)
<1>1. SubSeq(items, 1, n - 1) \in Seq(Items)
  BY SubSeqProperties
<1>2. SubSeq(items, n + 1, Len(items)) \in Seq(Items)
  BY SubSeqProperties
<1> QED BY <1>1, <1>2, ConcatProperties DEF Without

-----------------------------------------------------------------------------
(* The inductive invariant.  A lease is sound because an id, once issued,   *)
(* never names another entry: a turn whose entry is gone stays detached.    *)

IdsIssued ==
  /\ \A k \in Live(entries) : k[2] \in issued
  /\ \A t \in Turns : turns[t] # NoTurn => turns[t].key[2] \in issued

IInv == TypeOK /\ MapOK(entries, bytes) /\ IdsIssued /\ LeaseIsExclusive

(* What a step may do to the entry at k while every open turn stays open:   *)
(* drop it, keep it, create it under a fresh id, change it while idle, or   *)
(* change it for a turn that becomes committed.                             *)
Legal(k) ==
  \/ entries'[k] = NoEntry
  \/ Same(k)
  \/ k[2] \notin issued /\ k[2] \in issued' /\ ~entries'[k].busy
  \/ entries[k] # NoEntry /\ ~entries[k].busy /\ ~entries'[k].busy
  \/ /\ entries[k] # NoEntry /\ entries'[k].busy = entries[k].busy
     /\ \E t \in Turns : Open(t) /\ turns[t].key = k /\ turns'[t].committed

Alike(t) ==
  /\ turns'[t] = NoTurn <=> turns[t] = NoTurn
  /\ turns[t] # NoTurn => /\ turns'[t].key = turns[t].key
                          /\ turns'[t].base = turns[t].base
                          /\ turns'[t].closed = turns[t].closed
                          /\ turns[t].committed => turns'[t].committed

LEMMA LegalStep ==
  ASSUME IInv, issued \subseteq issued',
         \A t \in Turns : Alike(t),
         \A k \in Keys : Legal(k)
  PROVE  IdsIssued' /\ LeaseIsExclusive'
<1>1. \A t \in Turns : /\ Open(t)' <=> Open(t)
                       /\ Open(t) => turns'[t].key = turns[t].key /\ turns[t].key \in Keys
  BY DEF Open, Alike, IInv, TypeOK, Turn
<1>2. IdsIssued'
  <2>1. ASSUME NEW k \in Keys, entries'[k] # NoEntry PROVE k[2] \in issued'
    <3>1. entries[k] # NoEntry => k[2] \in issued
      BY DEF IInv, IdsIssued, Live
    <3> QED BY <2>1, <3>1 DEF Legal, Same
  <2>2. ASSUME NEW t \in Turns, turns'[t] # NoTurn PROVE turns'[t].key[2] \in issued'
    BY <2>2 DEF Alike, IInv, IdsIssued
  <2> QED BY <2>1, <2>2 DEF IdsIssued, Live
<1>3. ASSUME NEW k \in Keys, entries'[k] # NoEntry
      PROVE  entries'[k].busy <=> \E t \in Turns : Open(t) /\ turns[t].key = k
  <2>1. entries[k] # NoEntry =>
          (entries[k].busy <=> \E t \in Turns : Open(t) /\ turns[t].key = k)
    BY DEF IInv, LeaseIsExclusive, Live
  <2>2. k[2] \notin issued => ~ \E t \in Turns : Open(t) /\ turns[t].key = k
    BY DEF IInv, IdsIssued, Open
  <2>3. Legal(k)
    OBVIOUS
  <2> QED BY <1>3, <2>1, <2>2, <2>3 DEF Legal, Same
<1>4. ASSUME NEW t \in Turns, Active(t)'
      PROVE  entries'[turns'[t].key].doc = turns'[t].base
  <2> DEFINE k == turns[t].key
  <2>1. /\ Open(t) /\ k \in Keys /\ turns'[t].key = k /\ turns'[t].base = turns[t].base
        /\ ~turns'[t].committed /\ ~turns[t].committed /\ entries'[k] # NoEntry
    BY <1>1, <1>4 DEF Active, Attached, Alike, Open
  <2>2. k[2] \in issued
    BY <2>1 DEF IInv, IdsIssued, Open
  <2>3. entries[k] # NoEntry => entries[k].busy /\ entries[k].doc = turns[t].base
    BY <2>1 DEF IInv, LeaseIsExclusive, Live, Active, Attached
  <2>4. \A u \in Turns : Open(u) /\ turns[u].key = k => u = t
    BY <2>1 DEF IInv, LeaseIsExclusive
  <2>5. Legal(k)
    BY <2>1
  <2> QED BY <2>1, <2>2, <2>3, <2>4, <2>5 DEF Legal, Same
<1>5. \A t, u \in Turns :
        Open(t)' /\ Open(u)' /\ turns'[t].key = turns'[u].key => t = u
  BY <1>1 DEF IInv, LeaseIsExclusive
<1>6. \A k \in Live(entries') :
        entries'[k].busy <=> \E t \in Turns : Open(t)' /\ turns'[t].key = k
  BY <1>1, <1>3 DEF Live
<1> QED BY <1>2, <1>4, <1>5, <1>6 DEF LeaseIsExclusive

(* The invariant after a step that keeps the accounts and is legal at every *)
(* key.                                                                     *)
LEMMA Restored ==
  ASSUME IInv, MapOK(entries', bytes'),
         issued \subseteq issued', issued' \subseteq Ids, now' \in Nat,
         turns' \in [Turns -> Turn \cup {NoTurn}],
         \A t \in Turns : Alike(t),
         \A k \in Keys : Legal(k)
  PROVE  IInv'
<1>1. entries' \in MapType /\ bytes' \in Nat
  BY LedgerFinite DEF MapOK
<1>2. TypeOK'
  BY <1>1 DEF TypeOK, MapType
<1>3. IdsIssued' /\ LeaseIsExclusive'
  BY LegalStep
<1> QED BY <1>2, <1>3 DEF IInv

(* The same for a management operation, which leaves the turns alone.       *)
LEMMA Managed ==
  ASSUME IInv, MapOK(entries', bytes'), UNCHANGED <<issued, turns, now>>,
         \A k \in Keys : Legal(k)
  PROVE  IInv'
<1>1. \A t \in Turns : Alike(t)
  BY DEF Alike
<1>2. /\ issued \subseteq issued' /\ issued' \subseteq Ids /\ now' \in Nat
      /\ turns' \in [Turns -> Turn \cup {NoTurn}]
  BY DEF IInv, TypeOK
<1> QED BY <1>1, <1>2, Restored

LEMMA InvFacts ==
  ASSUME IInv
  PROVE  /\ MapOK(entries, bytes) /\ now \in Nat /\ entries \in MapType
         /\ issued \subseteq Ids /\ turns \in [Turns -> Turn \cup {NoTurn}]
BY DEF IInv, TypeOK, MapOK

LEMMA SteadyLegal ==
  ASSUME NEW S, Steady(S)
  PROVE  \A k \in S : Legal(k)
BY DEF Steady, Legal

LEMMA TouchManaged ==
  ASSUME IInv, NEW k \in Keys, Touch(k), UNCHANGED <<issued, turns, now>>
  PROVE  IInv'
<1>1. MapOK(entries', bytes') /\ Steady(Keys)
  BY InvFacts, TouchStep
<1> QED BY <1>1, SteadyLegal, Managed

LEMMA SweepManaged ==
  ASSUME IInv, Sweep, UNCHANGED <<issued, turns, now>>
  PROVE  IInv'
<1>1. MapOK(entries', bytes') /\ Steady(Keys)
  BY InvFacts, SweepStep
<1> QED BY <1>1, SteadyLegal, Managed

LEMMA RewriteManaged ==
  ASSUME IInv, NEW k \in Keys, NEW doc \in Document, Idle(k), Rewrite(k, doc),
         UNCHANGED <<issued, turns, now>>
  PROVE  IInv'
<1>1. /\ MapOK(entries', bytes') /\ Steady(Keys \ {k})
      /\ ~entries[k].busy /\ entries[k] # NoEntry
      /\ entries'[k] # NoEntry => ~entries'[k].busy
  BY InvFacts, RewriteStep
<1>2. \A j \in Keys \ {k} : Legal(j)
  BY <1>1, SteadyLegal
<1>3. Legal(k)
  BY <1>1 DEF Legal
<1>4. \A j \in Keys : Legal(j)
  BY <1>2, <1>3
<1> QED BY <1>1, <1>4, Managed

LEMMA CreateKeeps ==
  ASSUME IInv, NEW k \in Keys, NEW m \in Metadata, NEW items \in Batches,
         Create(k, m, items)
  PROVE  IInv'
<1> DEFINE doc == [metadata |-> m, items |-> items]
<1>1. doc \in Document
  BY StoreAssumption DEF Document
<1>2. CASE EntriesFit(k[1]) /\ Fits(k, doc)
  <2>1. /\ k[2] \notin issued /\ Write(k, doc, FALSE)
        /\ issued' = issued \cup {k[2]} /\ UNCHANGED <<turns, now>>
    BY <1>2 DEF Create
  <2>2. /\ MapOK(entries', bytes') /\ Steady(Keys \ {k}) /\ ~entries'[k].busy
    <3> HIDE DEF doc
    <3> QED BY <1>1, <1>2, <2>1, InvFacts, WriteStep
  <2>3. \A j \in Keys \ {k} : Legal(j)
    BY <2>2, SteadyLegal
  <2>4. Legal(k)
    BY <2>1, <2>2 DEF Legal
  <2>5. \A j \in Keys : Legal(j)
    BY <2>3, <2>4
  <2>6. \A t \in Turns : Alike(t)
    BY <2>1 DEF Alike
  <2>7. k[2] \in Ids
    BY DEF Keys
  <2>8. /\ issued \subseteq issued' /\ issued' \subseteq Ids /\ now' \in Nat
        /\ turns' \in [Turns -> Turn \cup {NoTurn}]
    BY <2>1, <2>7, InvFacts
  <2> QED BY <2>2, <2>5, <2>6, <2>8, Restored
<1>3. CASE ~(EntriesFit(k[1]) /\ Fits(k, doc))
  <2>1. Sweep /\ UNCHANGED <<issued, turns, now>>
    BY <1>3 DEF Create
  <2> QED BY <2>1, SweepManaged
<1> QED BY <1>2, <1>3

LEMMA UpdateKeeps ==
  ASSUME IInv, NEW k \in Keys, NEW m \in Metadata, Update(k, m)
  PROVE  IInv'
<1>1. CASE Idle(k)
  <2> DEFINE doc == [Swept[k].doc EXCEPT !.metadata = m]
  <2>1. doc \in Document
    BY <1>1, InvFacts, HeldDocument, WithMetadata DEF Idle
  <2>2. Rewrite(k, doc) /\ UNCHANGED <<issued, turns, now>>
    BY <1>1 DEF Update
  <2> HIDE DEF doc
  <2> QED BY <1>1, <2>1, <2>2, RewriteManaged
<1>2. CASE ~Idle(k)
  BY <1>2, TouchManaged DEF Update
<1> QED BY <1>1, <1>2

LEMMA AppendKeeps ==
  ASSUME IInv, NEW k \in Keys, NEW items \in Batches, AppendItems(k, items)
  PROVE  IInv'
<1>1. CASE Idle(k)
  <2> DEFINE doc == [Swept[k].doc EXCEPT !.items = @ \o items]
  <2>1. doc \in Document
    <3>1. Swept[k].doc \in Document /\ items \in Seq(Items)
      BY <1>1, InvFacts, HeldDocument, StoreAssumption DEF Idle
    <3> QED BY <3>1, WithItems
  <2>2. Rewrite(k, doc) /\ UNCHANGED <<issued, turns, now>>
    BY <1>1 DEF AppendItems
  <2> HIDE DEF doc
  <2> QED BY <1>1, <2>1, <2>2, RewriteManaged
<1>2. CASE ~Idle(k)
  BY <1>2, TouchManaged DEF AppendItems
<1> QED BY <1>1, <1>2

LEMMA DeleteItemKeeps ==
  ASSUME IInv, NEW k \in Keys, NEW i \in Items, DeleteItem(k, i)
  PROVE  IInv'
<1> DEFINE held == Swept[k].doc.items
<1>1. CASE Idle(k) /\ \E n \in 1 .. Len(held) : held[n] = i
  <2>1. PICK n \in 1 .. Len(held) :
          Rewrite(k, [Swept[k].doc EXCEPT !.items = Without(@, n)])
    BY <1>1 DEF DeleteItem
  <2> DEFINE doc == [Swept[k].doc EXCEPT !.items = Without(@, n)]
  <2>2. doc \in Document
    <3>1. Swept[k].doc \in Document
      BY <1>1, InvFacts, HeldDocument DEF Idle
    <3>2. held \in Seq(Items)
      BY <3>1 DEF Document
    <3>3. Without(held, n) \in Seq(Items)
      BY <3>2, WithoutItem
    <3> QED BY <3>1, <3>3 DEF Document
  <2>3. UNCHANGED <<issued, turns, now>> /\ Idle(k) /\ Rewrite(k, doc)
    BY <1>1, <2>1 DEF DeleteItem
  <2> HIDE DEF doc
  <2> QED BY <2>2, <2>3, RewriteManaged
<1>2. CASE ~(Idle(k) /\ \E n \in 1 .. Len(held) : held[n] = i)
  BY <1>2, TouchManaged DEF DeleteItem
<1> QED BY <1>1, <1>2

LEMMA DeleteKeeps ==
  ASSUME IInv, NEW k \in Keys, Delete(k)
  PROVE  IInv'
<1>1. CASE Idle(k)
  <2>1. MapOK(Swept, SweptBytes) /\ Swept \in MapType /\ Swept[k] # NoEntry
    BY <1>1, InvFacts, SweptOK DEF MapOK, Idle
  <2>2. /\ entries' = [Swept EXCEPT ![k] = NoEntry]
        /\ bytes' = SweptBytes - Swept[k].bytes
        /\ UNCHANGED <<issued, turns, now>>
    BY <1>1 DEF Delete
  <2>3. /\ entries' \in MapType /\ entries'[k] = NoEntry
        /\ \A j \in Keys \ {k} : entries'[j] = Swept[j]
    BY <2>1, <2>2 DEF MapType
  <2>4. Total(Swept, {k}) = Swept[k].bytes
    BY <2>1, TotalSingle
  <2>5. MapOK(entries', SweptBytes - Total(Swept, {k}))
    <3>1. \A j \in Keys : /\ entries'[j] = NoEntry <=> Swept[j] = NoEntry \/ j \in {k}
                          /\ entries'[j] # NoEntry => entries'[j] = Swept[j]
      BY <2>3
    <3> QED BY <2>1, <2>3, <3>1, DropOK
  <2>6. Steady(Keys)
    BY <2>3, SweptSame DEF Steady, Same
  <2> QED BY <2>2, <2>4, <2>5, <2>6, SteadyLegal, Managed
<1>2. CASE ~Idle(k)
  BY <1>2, TouchManaged DEF Delete
<1> QED BY <1>1, <1>2

(* Begin on an idle conversation: nobody holds it, so the new turn is the   *)
(* only one, and it captures the document the map holds.                    *)
LEMMA BeginKeeps ==
  ASSUME IInv, NEW t \in Turns, NEW k \in Keys, Begin(t, k)
  PROVE  IInv'
<1>1. CASE Idle(k)
  <2> DEFINE e == [Swept[k] EXCEPT !.busy = TRUE, !.expiresAt = now + Ttl]
             new == [key |-> k, base |-> Swept[k].doc, pending |-> <<>>,
                     committed |-> FALSE, closed |-> FALSE]
  <2>1. MapOK(Swept, SweptBytes) /\ Swept \in MapType /\ Swept[k] # NoEntry
    BY <1>1, InvFacts, SweptOK DEF MapOK, Idle
  <2>2. /\ entries[k] = Swept[k] /\ ~entries[k].busy /\ entries[k] # NoEntry
        /\ k[2] \in issued
        /\ ~ \E u \in Turns : Open(u) /\ turns[u].key = k
    <3>1. entries[k] = Swept[k] /\ ~entries[k].busy /\ entries[k] # NoEntry
      BY <1>1, SweptSame DEF Idle
    <3> QED BY <3>1 DEF IInv, IdsIssued, LeaseIsExclusive, Live
  <2>3. /\ e \in Entry /\ e # NoEntry /\ e.busy = TRUE
        /\ e.bytes = Swept[k].bytes /\ e.doc = Swept[k].doc
    <3>1. Swept[k] \in Entry /\ now + Ttl \in Nat
      BY <2>1, InvFacts, StoreAssumption DEF MapType
    <3> QED BY <3>1, StoreAssumption DEF Entry
  <2>4. new \in Turn /\ new # NoTurn
    <3>1. Swept[k].doc \in Document
      BY <2>1, InvFacts, HeldDocument
    <3>2. <<>> \in Seq(Items)
      BY EmptySeq
    <3>3. \A d \in Document, p \in Seq(Items) :
            [key |-> k, base |-> d, pending |-> p,
             committed |-> FALSE, closed |-> FALSE] \in Turn
      BY DEF Turn
    <3>4. new \in Turn
      BY <3>1, <3>2, <3>3, Zenon
    <3> QED BY <3>4, StoreAssumption
  <2>5. /\ ~Open(t) /\ bytes' = SweptBytes /\ UNCHANGED <<issued, now>>
        /\ entries' = [Swept EXCEPT ![k] = e]
        /\ turns' = [turns EXCEPT ![t] = new]
    BY <1>1 DEF Begin
  <2>6. /\ new.key = k /\ new.base = Swept[k].doc
        /\ new.committed = FALSE /\ new.closed = FALSE
    OBVIOUS
  <2> HIDE DEF e, new
  <2>7. /\ entries' \in MapType /\ entries'[k] = e
        /\ \A j \in Keys \ {k} : entries'[j] = Swept[j]
    BY <2>1, <2>3, <2>5 DEF MapType
  <2>8. /\ turns' \in [Turns -> Turn \cup {NoTurn}] /\ turns'[t] = new
        /\ \A u \in Turns \ {t} : turns'[u] = turns[u]
    BY <2>4, <2>5, InvFacts
  <2>9. MapOK(entries', bytes')
    <3>1. \A j \in Keys : /\ entries'[j] = NoEntry <=> Swept[j] = NoEntry
                          /\ entries'[j] # NoEntry => /\ entries'[j].bytes = Swept[j].bytes
                                                      /\ entries'[j].doc = Swept[j].doc
      BY <2>1, <2>3, <2>7
    <3> QED BY <2>1, <2>5, <2>7, <3>1, AdjustOK
  <2>10. TypeOK'
    <3>1. bytes' \in Nat
      BY <2>9, LedgerFinite DEF MapOK
    <3> QED BY <2>5, <2>7, <2>8, <3>1, InvFacts DEF TypeOK, MapType
  <2>11. \A u \in Turns \ {t} : Open(u)' <=> Open(u)
    BY <2>8 DEF Open
  <2>12. Open(t)' /\ turns'[t].key = k
    BY <2>4, <2>6, <2>8 DEF Open
  <2>13. \A j \in Keys \ {k} : entries'[j] # NoEntry =>
            entries[j] # NoEntry /\ entries'[j] = entries[j]
    BY <2>7, SweptSame
  <2>14. IdsIssued'
    BY <2>2, <2>5, <2>6, <2>8, <2>13 DEF IInv, IdsIssued, Live
  <2>15. \A u, v \in Turns :
            Open(u)' /\ Open(v)' /\ turns'[u].key = turns'[v].key => u = v
    BY <2>2, <2>8, <2>11, <2>12 DEF IInv, LeaseIsExclusive
  <2>16. \A j \in Live(entries') :
            entries'[j].busy <=> \E u \in Turns : Open(u)' /\ turns'[u].key = j
    <3> TAKE j \in Live(entries')
    <3>1. CASE j = k
      BY <2>3, <2>7, <2>12, <3>1
    <3>2. CASE j # k
      <4>1. entries[j] # NoEntry /\ entries'[j] = entries[j] /\ j \in Keys
        BY <2>13, <3>2 DEF Live
      <4>2. entries[j].busy <=> \E u \in Turns : Open(u) /\ turns[u].key = j
        BY <4>1 DEF IInv, LeaseIsExclusive, Live
      <4>3. (\E u \in Turns : Open(u) /\ turns[u].key = j) <=>
            (\E u \in Turns : Open(u)' /\ turns'[u].key = j)
        BY <2>5, <2>8, <2>11, <2>12, <3>2
      <4> QED BY <4>1, <4>2, <4>3
    <3> QED BY <3>1, <3>2
  <2>17. ASSUME NEW u \in Turns, Active(u)'
         PROVE  entries'[turns'[u].key].doc = turns'[u].base
    <3>1. CASE u = t
      BY <2>3, <2>6, <2>7, <2>8, <3>1
    <3>2. CASE u # t
      <4>1. turns'[u] = turns[u] /\ Open(u) /\ ~turns[u].committed
        BY <2>8, <2>11, <2>17, <3>2 DEF Active
      <4>2. turns[u].key # k /\ turns[u].key \in Keys
        BY <2>2, <4>1 DEF IInv, TypeOK, Turn, Open
      <4>3. /\ entries[turns[u].key] # NoEntry
            /\ entries'[turns[u].key] = entries[turns[u].key]
        BY <2>13, <2>17, <4>1, <4>2 DEF Active, Attached
      <4> QED BY <4>1, <4>3 DEF IInv, LeaseIsExclusive, Active, Attached
    <3> QED BY <3>1, <3>2
  <2>18. LeaseIsExclusive'
    BY <2>15, <2>16, <2>17 DEF LeaseIsExclusive
  <2> QED BY <2>9, <2>10, <2>14, <2>18 DEF IInv
<1>2. CASE ~Idle(k)
  BY <1>2, TouchManaged DEF Begin
<1> QED BY <1>1, <1>2

LEMMA StageKeeps ==
  ASSUME IInv, NEW t \in Turns, NEW input \in Batches, Stage(t, input)
  PROVE  IInv'
<1>1. MapOK(entries', bytes') /\ Steady(Keys)
  BY InvFacts, SweepStep DEF Stage
<1>2. /\ Open(t) /\ UNCHANGED <<issued, now>>
      /\ turns' = [turns EXCEPT ![t].pending = input]
  BY DEF Stage, Active
<1>3. turns[t] \in Turn /\ turns[t] # NoTurn /\ input \in Seq(Items)
  BY <1>2, InvFacts, StoreAssumption DEF Open
<1> DEFINE new == [turns[t] EXCEPT !.pending = input]
<1>4. /\ new \in Turn /\ new # NoTurn
      /\ new.key = turns[t].key /\ new.base = turns[t].base
      /\ new.closed = turns[t].closed /\ new.committed = turns[t].committed
  BY <1>3, StoreAssumption DEF Turn
<1>5. turns' = [turns EXCEPT ![t] = new]
  BY <1>2
<1> HIDE DEF new
<1>6. /\ turns' \in [Turns -> Turn \cup {NoTurn}]
      /\ turns'[t] = new /\ \A u \in Turns \ {t} : turns'[u] = turns[u]
  BY <1>4, <1>5, InvFacts
<1>7. \A u \in Turns : Alike(u)
  BY <1>3, <1>4, <1>6 DEF Alike
<1>8. issued \subseteq issued' /\ issued' \subseteq Ids /\ now' \in Nat
  BY <1>2, InvFacts
<1> QED BY <1>1, <1>6, <1>7, <1>8, SteadyLegal, Restored

LEMMA CommitKeeps ==
  ASSUME IInv, NEW t \in Turns, NEW output \in Batches, Commit(t, output)
  PROVE  IInv'
<1> DEFINE k == turns[t].key
           doc == [turns[t].base EXCEPT !.items = @ \o turns[t].pending \o output]
           new == [turns[t] EXCEPT !.committed = TRUE]
<1>1. turns[t] \in Turn /\ turns[t] # NoTurn /\ Open(t) /\ entries[k] # NoEntry
  BY InvFacts DEF Commit, Active, Open, Attached
<1>2. k \in Keys /\ doc \in Document
  <2>1. /\ turns[t].base \in Document /\ turns[t].pending \in Seq(Items)
        /\ output \in Seq(Items) /\ k \in Keys
    BY <1>1, StoreAssumption DEF Turn
  <2>2. turns[t].base.items \o turns[t].pending \in Seq(Items)
    BY <2>1, WithItems, ConcatProperties
  <2>3. (turns[t].base.items \o turns[t].pending) \o output \in Seq(Items)
    BY <2>1, <2>2, ConcatProperties
  <2> QED BY <2>1, <2>3 DEF Document
<1>3. entries[k].busy
  BY <1>1, <1>2 DEF IInv, LeaseIsExclusive, Live
<1>4. Swept[k] # NoEntry
  BY <1>1, <1>2, <1>3 DEF Swept, Expired
<1>5. CASE Fits(k, doc)
  <2>1. /\ Write(k, doc, TRUE) /\ UNCHANGED <<issued, now>>
        /\ turns' = [turns EXCEPT ![t] = new]
    BY <1>5 DEF Commit
  <2>2. /\ new \in Turn /\ new # NoTurn
        /\ new.key = k /\ new.base = turns[t].base
        /\ new.closed = turns[t].closed /\ new.committed = TRUE
    BY <1>1, StoreAssumption DEF Turn
  <2> HIDE DEF doc, new
  <2>3. /\ MapOK(entries', bytes') /\ Steady(Keys \ {k})
        /\ entries'[k] # NoEntry /\ entries'[k].busy = TRUE
    <3> HIDE DEF k
    <3> QED BY <1>2, <1>4, <1>5, <2>1, InvFacts, WriteStep
  <2>4. /\ turns' \in [Turns -> Turn \cup {NoTurn}]
        /\ turns'[t] = new /\ \A u \in Turns \ {t} : turns'[u] = turns[u]
    BY <2>1, <2>2, InvFacts
  <2>5. \A u \in Turns : Alike(u)
    BY <1>1, <2>2, <2>4 DEF Alike
  <2>6. Legal(k)
    <3>1. entries[k].busy = TRUE
      BY <1>1, <1>2, <1>3 DEF IInv, TypeOK, Entry
    <3> QED BY <1>1, <2>2, <2>3, <2>4, <3>1 DEF Legal
  <2>7. \A j \in Keys : Legal(j)
    BY <2>3, <2>6, SteadyLegal
  <2>8. issued \subseteq issued' /\ issued' \subseteq Ids /\ now' \in Nat
    BY <2>1, InvFacts
  <2> QED BY <2>3, <2>4, <2>5, <2>7, <2>8, Restored
<1>6. CASE ~Fits(k, doc)
  BY <1>6, SweepManaged DEF Commit
<1> QED BY <1>5, <1>6

(* Release frees exactly the conversation the turn held.                    *)
LEMMA ReleaseKeeps ==
  ASSUME IInv, NEW t \in Turns, Release(t)
  PROVE  IInv'
<1> DEFINE k == turns[t].key
           new == [turns[t] EXCEPT !.closed = TRUE]
<1>1. /\ Open(t) /\ turns[t] \in Turn /\ turns[t] # NoTurn /\ k \in Keys
      /\ k[2] \in issued
  BY InvFacts DEF Release, Open, Turn, IInv, IdsIssued
<1>2. turns' = [turns EXCEPT ![t] = new] /\ UNCHANGED <<bytes, issued, now>>
  BY DEF Release
<1>3. new \in Turn /\ new # NoTurn /\ new.closed = TRUE /\ new.key = k
  BY <1>1, StoreAssumption DEF Turn
<1>4. /\ entries[k] # NoEntry =>
           entries' = [entries EXCEPT ![k].busy = FALSE, ![k].expiresAt = now + Ttl]
      /\ entries[k] = NoEntry => entries' = entries
  BY DEF Release, Attached
<1> HIDE DEF new
<1>5. /\ turns' \in [Turns -> Turn \cup {NoTurn}]
      /\ turns'[t] = new /\ \A u \in Turns \ {t} : turns'[u] = turns[u]
  BY <1>2, <1>3, InvFacts
<1>6. /\ entries' \in MapType
      /\ \A j \in Keys \ {k} : entries'[j] = entries[j]
      /\ entries'[k] = NoEntry <=> entries[k] = NoEntry
      /\ entries'[k] # NoEntry => /\ entries'[k].busy = FALSE
                                  /\ entries'[k].bytes = entries[k].bytes
                                  /\ entries'[k].doc = entries[k].doc
  <2>1. CASE entries[k] = NoEntry
    BY <1>4, <2>1, InvFacts
  <2>2. CASE entries[k] # NoEntry
    <3> DEFINE e == [entries[k] EXCEPT !.busy = FALSE, !.expiresAt = now + Ttl]
    <3>1. /\ e \in Entry /\ e # NoEntry /\ e.busy = FALSE
          /\ e.bytes = entries[k].bytes /\ e.doc = entries[k].doc
      <4>1. entries[k] \in Entry /\ now + Ttl \in Nat
        BY <1>1, <2>2, InvFacts, StoreAssumption DEF MapType
      <4> QED BY <4>1, StoreAssumption DEF Entry
    <3>2. entries' = [entries EXCEPT ![k] = e]
      BY <1>4, <2>2
    <3> HIDE DEF e
    <3> QED BY <1>1, <2>2, <3>1, <3>2, InvFacts DEF MapType
  <2> QED BY <2>1, <2>2
<1>7. MapOK(entries', bytes')
  <2>1. \A j \in Keys : /\ entries'[j] = NoEntry <=> entries[j] = NoEntry
                        /\ entries'[j] # NoEntry => /\ entries'[j].bytes = entries[j].bytes
                                                    /\ entries'[j].doc = entries[j].doc
    BY <1>6
  <2> QED BY <1>2, <1>6, <2>1, InvFacts, AdjustOK
<1>8. TypeOK'
  <2>1. bytes' \in Nat
    BY <1>7, LedgerFinite DEF MapOK
  <2> QED BY <1>2, <1>5, <1>6, <2>1, InvFacts DEF TypeOK, MapType
<1>9. IdsIssued'
  <2>1. \A j \in Live(entries') : j[2] \in issued
    BY <1>1, <1>6 DEF IInv, IdsIssued, Live
  <2>2. \A u \in Turns : turns'[u] # NoTurn => turns'[u].key[2] \in issued
    BY <1>1, <1>3, <1>5 DEF IInv, IdsIssued
  <2> QED BY <1>2, <2>1, <2>2 DEF IdsIssued
<1>10. ~Open(t)' /\ \A u \in Turns \ {t} : Open(u)' <=> Open(u)
  BY <1>3, <1>5 DEF Open
<1>11. \A u \in Turns \ {t} : Open(u) => turns[u].key # k
  BY <1>1 DEF IInv, LeaseIsExclusive
<1>12. \A u, v \in Turns :
         Open(u)' /\ Open(v)' /\ turns'[u].key = turns'[v].key => u = v
  BY <1>5, <1>10 DEF IInv, LeaseIsExclusive
<1>13. \A j \in Live(entries') :
         entries'[j].busy <=> \E u \in Turns : Open(u)' /\ turns'[u].key = j
  <2> TAKE j \in Live(entries')
  <2>1. CASE j = k
    BY <1>5, <1>6, <1>10, <1>11, <2>1 DEF Live
  <2>2. CASE j # k
    <3>1. entries[j] # NoEntry /\ entries'[j] = entries[j] /\ j \in Keys
      BY <1>6, <2>2 DEF Live
    <3>2. entries[j].busy <=> \E u \in Turns : Open(u) /\ turns[u].key = j
      BY <3>1 DEF IInv, LeaseIsExclusive, Live
    <3>3. (\E u \in Turns : Open(u) /\ turns[u].key = j) <=>
          (\E u \in Turns : Open(u)' /\ turns'[u].key = j)
      BY <1>5, <1>10, <2>2
    <3> QED BY <3>1, <3>2, <3>3
  <2> QED BY <2>1, <2>2
<1>14. ASSUME NEW u \in Turns, Active(u)'
       PROVE  entries'[turns'[u].key].doc = turns'[u].base
  <2>1. u # t /\ turns'[u] = turns[u] /\ Open(u) /\ ~turns[u].committed
    BY <1>5, <1>10, <1>14 DEF Active
  <2>2. turns[u].key # k /\ turns[u].key \in Keys
    BY <1>11, <2>1 DEF IInv, TypeOK, Turn, Open
  <2>3. entries'[turns[u].key] = entries[turns[u].key] /\ entries[turns[u].key] # NoEntry
    BY <1>6, <1>14, <2>1, <2>2 DEF Active, Attached
  <2> QED BY <2>1, <2>3 DEF IInv, LeaseIsExclusive, Active, Attached
<1>15. LeaseIsExclusive'
  BY <1>12, <1>13, <1>14 DEF LeaseIsExclusive
<1> QED BY <1>7, <1>8, <1>9, <1>15 DEF IInv

(* An empty map costs nothing.                                              *)
LEMMA EmptyMapOK ==
  ASSUME NEW es, es = [k \in Keys |-> NoEntry]
  PROVE  MapOK(es, 0)
<1>1. es \in MapType /\ Live(es) = {}
  BY DEF MapType, Live
<1>2. IsFiniteSet({}) /\ Cardinality({}) = 0
  BY FS_EmptySet
<1>3. \A K : Ledger(es, K) = {}
  BY <1>1 DEF Ledger
<1>4. \A K : Total(es, K) = 0
  BY <1>2, <1>3 DEF Total
<1>5. \A K : Cardinality(Live(es) \cap K) = 0
  BY <1>1, <1>2
<1>6. {MaxBytes, MaxEntries, MaxCredentialBytes, MaxCredentialEntries} \subseteq Nat
  BY StoreAssumption
<1>7. Cardinality(Live(es)) <= MaxEntries /\ Total(es, Keys) <= MaxBytes
  BY <1>1, <1>2, <1>4, <1>6
<1>8. \A o \in Owners : /\ Total(es, OwnerKeys(o)) <= MaxCredentialBytes
                        /\ Cardinality(Live(es) \cap OwnerKeys(o)) <= MaxCredentialEntries
  BY <1>4, <1>5, <1>6
<1> QED BY <1>1, <1>2, <1>4, <1>7, <1>8, Zenon DEF MapOK, Affordable

LEMMA ClearKeeps ==
  ASSUME IInv, Clear
  PROVE  IInv'
<1>1. entries' = [k \in Keys |-> NoEntry] /\ bytes' = 0
  BY DEF Clear
<1>2. MapOK(entries', bytes')
  BY <1>1, EmptyMapOK
<1>3. \A k \in Keys : Legal(k)
  BY <1>1 DEF Legal
<1> QED BY <1>2, <1>3, Managed DEF Clear

LEMMA TickKeeps ==
  ASSUME IInv, Tick
  PROVE  IInv'
<1>1. UNCHANGED <<entries, bytes, issued, turns>> /\ now' \in Nat
  BY InvFacts DEF Tick
<1>2. MapOK(entries', bytes')
  BY <1>1, InvFacts
<1>3. \A k \in Keys : Legal(k)
  BY <1>1 DEF Legal, Same
<1>4. \A t \in Turns : Alike(t)
  BY <1>1 DEF Alike
<1> QED BY <1>1, <1>2, <1>3, <1>4, InvFacts, Restored

-----------------------------------------------------------------------------
(* The invariant holds initially and through every step.                    *)

LEMMA InvInit == Init => IInv
<1> SUFFICES ASSUME Init PROVE IInv
  OBVIOUS
<1>1. MapOK(entries, bytes)
  BY EmptyMapOK DEF Init
<1>2. TypeOK
  BY DEF Init, TypeOK
<1>3. IdsIssued /\ LeaseIsExclusive
  BY DEF Init, IdsIssued, LeaseIsExclusive, Live, Open, Active
<1> QED BY <1>1, <1>2, <1>3 DEF IInv

LEMMA InvNext == IInv /\ [Next]_vars => IInv'
<1> SUFFICES ASSUME IInv, [Next]_vars PROVE IInv'
  OBVIOUS
<1>1. ASSUME NEW k \in Keys, Read(k) PROVE IInv'
  BY <1>1, TouchManaged DEF Read
<1>2. ASSUME NEW k \in Keys, Manage(k) PROVE IInv'
  BY <1>1, <1>2, DeleteKeeps, UpdateKeeps, CreateKeeps, AppendKeeps, DeleteItemKeeps
  DEF Manage
<1>3. ASSUME NEW t \in Turns, Hold(t) PROVE IInv'
  BY <1>3, BeginKeeps, StageKeeps, CommitKeeps, ReleaseKeeps DEF Hold
<1>4. CASE Prune
  BY <1>4, SweepManaged DEF Prune
<1>5. CASE Clear
  BY <1>5, ClearKeeps
<1>6. CASE Tick
  BY <1>6, TickKeeps
<1>7. CASE UNCHANGED vars
  BY <1>7 DEF vars, IInv, TypeOK, IdsIssued, LeaseIsExclusive, Open, Active, Attached
<1> QED BY <1>2, <1>3, <1>4, <1>5, <1>6, <1>7 DEF Next

(* The inductive invariant holds of every reachable state.                  *)
THEOREM Invariance == Spec => []IInv
BY InvInit, InvNext, PTL DEF Spec

(* conversation-store.ts: every variable keeps its type; in particular the  *)
(* counter #bytes, which is only ever adjusted, never falls below zero.     *)
THEOREM TypeCorrect == Spec => []TypeOK
<1>1. IInv => TypeOK
  BY DEF IInv
<1> QED BY <1>1, Invariance, PTL

(* conversation-store.ts #write, #remove, clear: the counter #bytes is at   *)
(* every moment the sum of the sizes of the entries in the map.             *)
THEOREM CounterAlwaysExact == Spec => []CounterIsExact
<1>1. IInv => CounterIsExact
  BY DEF IInv, MapOK, CounterIsExact
<1> QED BY <1>1, Invariance, PTL

(* conversation-store.ts #serialize, create: no state exceeds the entry and *)
(* byte limits of the process, of a credential or of a conversation, and no *)
(* stored document repeats an item id; and the counter is exact.            *)
THEOREM BudgetsAlwaysKept == Spec => []WithinBudgets
<1>1. IInv => WithinBudgets
  BY DEF IInv, MapOK, WithinBudgets, CounterIsExact
<1> QED BY <1>1, Invariance, PTL

(* conversation-store.ts begin: the lease flag of a held entry says whether *)
(* an open turn has it, at most one has, and what an active turn captured   *)
(* is what the map still holds.                                             *)
THEOREM LeaseAlwaysExclusive == Spec => []LeaseIsExclusive
<1>1. IInv => LeaseIsExclusive
  BY DEF IInv
<1> QED BY <1>1, Invariance, PTL

-----------------------------------------------------------------------------
(* The store implements module Conversations: every step of it is a step    *)
(* the promises allow, or none of theirs.                                   *)

(* The refinement mapping, key by key.                                      *)

LEMMA Mapped ==
  ASSUME IInv, NEW k \in Keys
  PROVE  /\ PromisedDoc[k] = IF entries[k] = NoEntry THEN NoEntry ELSE entries[k].doc
         /\ PromisedDoc[k] = NoEntry <=> entries[k] = NoEntry
         /\ UsedAt[k] = IF entries[k] = NoEntry THEN 0 ELSE entries[k].expiresAt - Ttl
         /\ Holder[k] = NoEntry <=> HolderOf(k) = {}
         /\ \A t \in HolderOf(k) : HolderOf(k) = {t} /\ Holder[k] = t
         /\ Holder[k] = NoEntry <=> entries[k] = NoEntry \/ ~entries[k].busy
         /\ Spent[k] <=> \E t \in HolderOf(k) : turns[t].committed
<1>1. /\ PromisedDoc[k] = IF entries[k] = NoEntry THEN NoEntry ELSE entries[k].doc
      /\ UsedAt[k] = IF entries[k] = NoEntry THEN 0 ELSE entries[k].expiresAt - Ttl
  BY DEF PromisedDoc, UsedAt, Live
<1>2. entries[k] # NoEntry => entries[k].doc # NoEntry
  <2>1. entries[k] # NoEntry => entries[k].doc \in Document
    BY DEF IInv, TypeOK, Entry
  <2> QED BY <2>1, StoreAssumption
<1>3. Holder[k] = IF HolderOf(k) = {} THEN NoEntry ELSE CHOOSE t \in HolderOf(k) : TRUE
  BY DEF Holder, Holding
<1>4. HolderOf(k) \subseteq Turns /\ NoEntry \notin Turns
  BY StoreAssumption DEF HolderOf
<1>5. \A t \in HolderOf(k) : HolderOf(k) = {t}
  BY DEF HolderOf, IInv, LeaseIsExclusive
<1>6. \A t \in HolderOf(k) : Holder[k] = t
  BY <1>3, <1>5
<1>7. Holder[k] = NoEntry <=> HolderOf(k) = {}
  BY <1>3, <1>4, <1>6
<1>8. HolderOf(k) = {} <=> entries[k] = NoEntry \/ ~entries[k].busy
  BY DEF HolderOf, IInv, LeaseIsExclusive, Live
<1>9. Spent[k] <=> \E t \in HolderOf(k) : turns[t].committed
  BY DEF Spent
<1> QED BY <1>1, <1>2, <1>5, <1>6, <1>7, <1>8, <1>9

(* What is swept is what may be forgotten.                                  *)
LEMMA OverdueIsExpired ==
  ASSUME IInv
  PROVE  Promise!Overdue = Expired /\ Promise!Keys = Keys
<1>1. Promise!Keys = Keys
  BY DEF Promise!Keys, Keys
<1>2. ASSUME NEW k \in Keys
      PROVE  k \in Promise!Overdue <=> k \in Expired
  <2>1. entries[k] # NoEntry =>
          (entries[k].expiresAt - Ttl + Ttl <= now <=> entries[k].expiresAt <= now)
    <3>1. entries[k] # NoEntry => entries[k].expiresAt \in Nat
      BY DEF IInv, TypeOK, Entry
    <3> QED BY <3>1, StoreAssumption DEF IInv, TypeOK
  <2> QED BY <1>1, <2>1, Mapped DEF Promise!Overdue, Promise!Exists, Expired, Live
<1> QED BY <1>1, <1>2 DEF Promise!Overdue, Expired, Live

(* Away from S the map is the swept one.                                    *)
LEMMA Forgotten ==
  ASSUME IInv, IInv', NEW j \in Keys, entries'[j] = Swept[j]
  PROVE  /\ PromisedDoc'[j] = IF j \in Expired THEN NoEntry ELSE PromisedDoc[j]
         /\ UsedAt'[j] = IF PromisedDoc'[j] = NoEntry THEN 0 ELSE UsedAt[j]
<1>1. entries'[j] = IF j \in Expired THEN NoEntry ELSE entries[j]
  BY DEF Swept
<1>2. /\ PromisedDoc'[j] = IF entries'[j] = NoEntry THEN NoEntry ELSE entries'[j].doc
      /\ PromisedDoc'[j] = NoEntry <=> entries'[j] = NoEntry
      /\ UsedAt'[j] = IF entries'[j] = NoEntry THEN 0 ELSE entries'[j].expiresAt - Ttl
  <2>1. /\ PromisedDoc'[j] = IF entries'[j] = NoEntry THEN NoEntry ELSE entries'[j].doc
        /\ UsedAt'[j] = IF entries'[j] = NoEntry THEN 0 ELSE entries'[j].expiresAt - Ttl
    BY DEF PromisedDoc, UsedAt, Live
  <2>2. entries'[j] # NoEntry => entries'[j].doc \in Document
    BY DEF IInv, TypeOK, Entry
  <2> QED BY <2>1, <2>2, StoreAssumption
<1> QED BY <1>1, <1>2, Mapped

(* Holders stay while their turns and conversations do.                     *)
LEMMA HoldersStay ==
  ASSUME IInv,
         \A t \in Turns : /\ Open(t)' <=> Open(t)
                          /\ Open(t) => /\ turns'[t].key = turns[t].key
                                        /\ turns'[t].committed = turns[t].committed,
         \A k \in Keys : entries[k] # NoEntry /\ entries[k].busy => entries'[k] # NoEntry,
         \A k \in Keys : entries[k] = NoEntry /\ k[2] \in issued => entries'[k] = NoEntry
  PROVE  Holder' = Holder /\ Spent' = Spent
<1>1. ASSUME NEW k \in Keys
      PROVE  /\ HolderOf(k)' = HolderOf(k)
             /\ \A t \in HolderOf(k) : turns'[t].committed = turns[t].committed
  <2>1. \A t \in Turns : Open(t) /\ turns[t].key = k =>
          /\ k[2] \in issued
          /\ entries[k] # NoEntry => entries[k].busy
    BY DEF IInv, IdsIssued, LeaseIsExclusive, Live, Open
  <2> QED BY <2>1 DEF HolderOf, Live
<1>2. Holder' = Holder
  BY <1>1 DEF Holder
<1>3. Spent' = Spent
  BY <1>1 DEF Spent
<1> QED BY <1>2, <1>3

(* The sweep alone.                                                         *)
LEMMA SweepForgets ==
  ASSUME IInv, IInv', Sweep, Holder' = Holder, Spent' = Spent, UNCHANGED <<issued, now>>
  PROVE  Promise!Next
<1>1. \A j \in Keys : /\ PromisedDoc'[j] = IF j \in Expired THEN NoEntry ELSE PromisedDoc[j]
                      /\ UsedAt'[j] = IF PromisedDoc'[j] = NoEntry THEN 0 ELSE UsedAt[j]
  BY Forgotten DEF Sweep
<1>2. PromisedDoc' = [j \in Keys |-> IF j \in Expired THEN NoEntry ELSE PromisedDoc[j]]
  BY <1>1 DEF PromisedDoc
<1>3. UsedAt' = [j \in Keys |-> IF PromisedDoc'[j] = NoEntry THEN 0 ELSE UsedAt[j]]
  BY <1>1 DEF UsedAt
<1>4. Promise!Forget(Expired)
  BY <1>2, <1>3, OverdueIsExpired DEF Promise!Forget, Promise!Stamp
<1> QED BY <1>4, OverdueIsExpired DEF Promise!Next

(* The entry at k, if it is held, is put back with a new expiry and perhaps *)
(* a new document.                                                          *)
LEMMA Stamped ==
  ASSUME IInv, IInv', NEW k \in Keys, entries'[k] # NoEntry, entries'[k].expiresAt = now + Ttl,
         \A j \in Keys \ {k} : entries'[j] = Swept[j], now' = now
  PROVE  /\ PromisedDoc'[k] = entries'[k].doc /\ PromisedDoc'[k] # NoEntry
         /\ PromisedDoc' = [j \in Keys |-> IF j = k THEN PromisedDoc'[k]
                                           ELSE IF j \in Expired THEN NoEntry ELSE PromisedDoc[j]]
         /\ UsedAt' = [j \in Keys |-> IF PromisedDoc'[j] = NoEntry THEN 0
                                      ELSE IF j \in {k} THEN now ELSE UsedAt[j]]
<1>1. /\ PromisedDoc'[k] = entries'[k].doc
      /\ UsedAt'[k] = entries'[k].expiresAt - Ttl
  BY DEF PromisedDoc, UsedAt, Live
<1>2. PromisedDoc'[k] # NoEntry
  <2>1. entries'[k].doc \in Document
    BY DEF IInv, TypeOK, Entry
  <2> QED BY <1>1, <2>1, StoreAssumption
<1>3. UsedAt'[k] = now
  BY <1>1, StoreAssumption DEF IInv, TypeOK
<1>4. \A j \in Keys \ {k} :
        /\ PromisedDoc'[j] = IF j \in Expired THEN NoEntry ELSE PromisedDoc[j]
        /\ UsedAt'[j] = IF PromisedDoc'[j] = NoEntry THEN 0 ELSE UsedAt[j]
  BY Forgotten
<1>5. PromisedDoc' = [j \in Keys |-> IF j = k THEN PromisedDoc'[k]
                                     ELSE IF j \in Expired THEN NoEntry ELSE PromisedDoc[j]]
  BY <1>4 DEF PromisedDoc
<1>6. UsedAt' = [j \in Keys |-> IF PromisedDoc'[j] = NoEntry THEN 0
                                ELSE IF j \in {k} THEN now ELSE UsedAt[j]]
  BY <1>2, <1>3, <1>4 DEF UsedAt
<1> QED BY <1>1, <1>2, <1>5, <1>6

(* A conversation that is found is used, and others may be forgotten.       *)
LEMMA TouchAccesses ==
  ASSUME IInv, IInv', NEW k \in Keys, Touch(k), Holder' = Holder, Spent' = Spent,
         UNCHANGED <<issued, now>>
  PROVE  Promise!Next
<1>1. CASE Swept[k] = NoEntry
  <2>1. Sweep
    BY <1>1 DEF Touch, Sweep
  <2> QED BY <2>1, SweepForgets
<1>2. CASE Swept[k] # NoEntry
  <2>1. entries' = [Swept EXCEPT ![k].expiresAt = now + Ttl]
    BY <1>2 DEF Touch
  <2>2. /\ Swept[k] = entries[k] /\ entries[k] # NoEntry /\ k \notin Expired
        /\ Swept[k] \in Entry
    BY <1>2, SweptSame DEF Swept, IInv, TypeOK
  <2>3. /\ entries'[k].expiresAt = now + Ttl /\ entries'[k].doc = entries[k].doc
        /\ entries'[k] \in Entry
        /\ \A j \in Keys \ {k} : entries'[j] = Swept[j]
    <3>1. now + Ttl \in Nat
      BY StoreAssumption DEF IInv, TypeOK
    <3> QED BY <2>1, <2>2, <3>1 DEF Swept, Entry
  <2>4. entries'[k] # NoEntry
    BY <2>3, StoreAssumption
  <2>5. /\ PromisedDoc'[k] = PromisedDoc[k] /\ PromisedDoc[k] # NoEntry
        /\ PromisedDoc' = [j \in Keys |-> IF j = k THEN PromisedDoc'[k]
                                          ELSE IF j \in Expired THEN NoEntry ELSE PromisedDoc[j]]
        /\ UsedAt' = [j \in Keys |-> IF PromisedDoc'[j] = NoEntry THEN 0
                                     ELSE IF j \in {k} THEN now ELSE UsedAt[j]]
    BY <2>2, <2>3, <2>4, Stamped, Mapped
  <2>6. Promise!Access(k, Expired)
    BY <2>2, <2>5, OverdueIsExpired
    DEF Promise!Access, Promise!Exists, Promise!Put, Promise!Stamp
  <2> QED BY <2>6, OverdueIsExpired DEF Promise!Next
<1> QED BY <1>1, <1>2

(* What a write leaves of the map.                                          *)
LEMMA Written ==
  ASSUME IInv, NEW k \in Keys, NEW doc, NEW busy, Write(k, doc, busy)
  PROVE  /\ entries'[k].doc = doc /\ entries'[k].expiresAt = now + Ttl
         /\ \A j \in Keys \ {k} : entries'[j] = Swept[j]
BY DEF Write, Swept

(* A conversation nobody holds is rewritten, or the change is refused.      *)
LEMMA RewriteChanges ==
  ASSUME IInv, IInv', NEW k \in Keys, NEW doc \in Document, Idle(k), Rewrite(k, doc),
         Holder' = Holder, Spent' = Spent, UNCHANGED <<issued, now>>
  PROVE  Promise!Next
<1>1. CASE ~Fits(k, doc)
  BY <1>1, TouchAccesses DEF Rewrite
<1>2. CASE Fits(k, doc)
  <2>1. Write(k, doc, FALSE)
    BY <1>2 DEF Rewrite
  <2>2. entries[k] # NoEntry /\ ~entries[k].busy /\ k \notin Expired
    BY SweptSame DEF Idle, Swept
  <2>3. /\ entries'[k].doc = doc /\ entries'[k].expiresAt = now + Ttl /\ entries'[k] # NoEntry
        /\ \A j \in Keys \ {k} : entries'[j] = Swept[j]
    <3>1. entries'[k] # NoEntry
      BY <2>1, <1>2, WriteStep, InvFacts DEF Idle
    <3> QED BY <2>1, <3>1, Written
  <2>4. /\ PromisedDoc'[k] # NoEntry
        /\ PromisedDoc' = [j \in Keys |-> IF j = k THEN PromisedDoc'[k]
                                          ELSE IF j \in Expired THEN NoEntry ELSE PromisedDoc[j]]
        /\ UsedAt' = [j \in Keys |-> IF PromisedDoc'[j] = NoEntry THEN 0
                                     ELSE IF j \in {k} THEN now ELSE UsedAt[j]]
    BY <2>3, Stamped
  <2>5. PromisedDoc[k] # NoEntry /\ Holder[k] = NoEntry
    BY <2>2, Mapped
  <2>6. Promise!Change(k, Expired)
    BY <2>2, <2>4, <2>5, OverdueIsExpired
    DEF Promise!Change, Promise!Exists, Promise!Put, Promise!Stamp
  <2> QED BY <2>6, OverdueIsExpired DEF Promise!Next
<1> QED BY <1>1, <1>2

-----------------------------------------------------------------------------
(* Operations of the management API leave the holders alone.                *)

LEMMA ManagedHolders ==
  ASSUME IInv, UNCHANGED turns, NEW k \in Keys,
         \A j \in Keys \ {k} : entries'[j] = Swept[j],
         entries[k] # NoEntry /\ entries[k].busy => entries'[k] # NoEntry,
         entries[k] = NoEntry /\ k[2] \in issued => entries'[k] = NoEntry
  PROVE  Holder' = Holder /\ Spent' = Spent
<1>1. \A t \in Turns : /\ Open(t)' <=> Open(t)
                       /\ Open(t) => /\ turns'[t].key = turns[t].key
                                     /\ turns'[t].committed = turns[t].committed
  BY DEF Open
<1>2. \A j \in Keys : entries[j] # NoEntry /\ entries[j].busy => entries'[j] # NoEntry
  BY DEF Swept, Expired
<1>3. \A j \in Keys : entries[j] = NoEntry /\ j[2] \in issued => entries'[j] = NoEntry
  BY DEF Swept
<1> QED BY <1>1, <1>2, <1>3, HoldersStay

LEMMA SweptHolders ==
  ASSUME IInv, Sweep, UNCHANGED turns
  PROVE  Holder' = Holder /\ Spent' = Spent
<1>1. \A t \in Turns : /\ Open(t)' <=> Open(t)
                       /\ Open(t) => /\ turns'[t].key = turns[t].key
                                     /\ turns'[t].committed = turns[t].committed
  BY DEF Open
<1>2. \A j \in Keys : entries[j] # NoEntry /\ entries[j].busy => entries'[j] # NoEntry
  BY DEF Sweep, Swept, Expired
<1>3. \A j \in Keys : entries[j] = NoEntry /\ j[2] \in issued => entries'[j] = NoEntry
  BY DEF Sweep, Swept
<1> QED BY <1>1, <1>2, <1>3, HoldersStay

LEMMA TouchSimulated ==
  ASSUME IInv, IInv', NEW k \in Keys, Touch(k), UNCHANGED <<issued, turns, now>>
  PROVE  Promise!Next
<1>1. CASE Swept[k] = NoEntry
  <2>1. Sweep
    BY <1>1 DEF Touch, Sweep
  <2>2. Holder' = Holder /\ Spent' = Spent
    BY <2>1, SweptHolders
  <2> QED BY <2>2, TouchAccesses
<1>2. CASE Swept[k] # NoEntry
  <2>1. entries' = [Swept EXCEPT ![k].expiresAt = now + Ttl]
    BY <1>2 DEF Touch
  <2>2. entries[k] # NoEntry /\ Swept[k] \in Entry
    BY <1>2, SweptSame DEF Swept, IInv, TypeOK
  <2>3. \A j \in Keys \ {k} : entries'[j] = Swept[j]
    BY <2>1 DEF Swept
  <2>4. entries'[k] \in Entry
    <3>1. now + Ttl \in Nat
      BY StoreAssumption DEF IInv, TypeOK
    <3> QED BY <2>1, <2>2, <3>1 DEF Swept, Entry
  <2>5. entries'[k] # NoEntry
    BY <2>4, StoreAssumption
  <2>6. Holder' = Holder /\ Spent' = Spent
    BY <2>2, <2>3, <2>5, ManagedHolders
  <2> QED BY <2>6, TouchAccesses
<1> QED BY <1>1, <1>2

LEMMA SweepSimulated ==
  ASSUME IInv, IInv', Sweep, UNCHANGED <<issued, turns, now>>
  PROVE  Promise!Next
BY SweptHolders, SweepForgets

LEMMA RewriteSimulated ==
  ASSUME IInv, IInv', NEW k \in Keys, NEW doc \in Document, Idle(k), Rewrite(k, doc),
         UNCHANGED <<issued, turns, now>>
  PROVE  Promise!Next
<1>1. CASE ~Fits(k, doc)
  BY <1>1, TouchSimulated DEF Rewrite
<1>2. CASE Fits(k, doc)
  <2>1. Write(k, doc, FALSE)
    BY <1>2 DEF Rewrite
  <2>2. entries[k] # NoEntry
    BY SweptSame DEF Idle
  <2>3. entries'[k] # NoEntry
    BY <2>1, <1>2, WriteStep, InvFacts DEF Idle
  <2>4. Holder' = Holder /\ Spent' = Spent
    BY <2>1, <2>2, <2>3, Written, ManagedHolders
  <2> QED BY <2>4, RewriteChanges
<1> QED BY <1>1, <1>2

LEMMA CreateSimulated ==
  ASSUME IInv, IInv', NEW k \in Keys, NEW m \in Metadata, NEW items \in Batches,
         Create(k, m, items)
  PROVE  Promise!Next
<1> DEFINE doc == [metadata |-> m, items |-> items]
<1>1. doc \in Document
  BY StoreAssumption DEF Document
<1>2. CASE ~(EntriesFit(k[1]) /\ Fits(k, doc))
  BY <1>2, SweepSimulated DEF Create
<1>3. CASE EntriesFit(k[1]) /\ Fits(k, doc)
  <2>1. /\ k[2] \notin issued /\ Write(k, doc, FALSE)
        /\ issued' = issued \cup {k[2]} /\ UNCHANGED <<turns, now>>
    BY <1>3 DEF Create
  <2> HIDE DEF doc
  <2>2. /\ entries'[k].doc = doc /\ entries'[k].expiresAt = now + Ttl
        /\ entries'[k] # NoEntry
        /\ \A j \in Keys \ {k} : entries'[j] = Swept[j]
    BY <1>1, <1>3, <2>1, InvFacts, WriteStep, Written
  <2>3. entries[k] = NoEntry
    BY <2>1 DEF IInv, IdsIssued, Live
  <2>4. Holder' = Holder /\ Spent' = Spent
    BY <2>1, <2>2, <2>3, ManagedHolders
  <2>5. /\ PromisedDoc'[k] # NoEntry
        /\ PromisedDoc' = [j \in Keys |-> IF j = k THEN PromisedDoc'[k]
                                          ELSE IF j \in Expired THEN NoEntry ELSE PromisedDoc[j]]
        /\ UsedAt' = [j \in Keys |-> IF PromisedDoc'[j] = NoEntry THEN 0
                                     ELSE IF j \in {k} THEN now ELSE UsedAt[j]]
    BY <2>1, <2>2, Stamped
  <2>6. Promise!Create(k, Expired)
    BY <2>1, <2>4, <2>5, OverdueIsExpired DEF Promise!Create, Promise!Put, Promise!Stamp
  <2> QED BY <2>6, OverdueIsExpired DEF Promise!Next
<1> QED BY <1>2, <1>3

LEMMA UpdateSimulated ==
  ASSUME IInv, IInv', NEW k \in Keys, NEW m \in Metadata, Update(k, m)
  PROVE  Promise!Next
<1>1. CASE Idle(k)
  <2> DEFINE doc == [Swept[k].doc EXCEPT !.metadata = m]
  <2>1. doc \in Document
    BY <1>1, InvFacts, HeldDocument, WithMetadata DEF Idle
  <2>2. Rewrite(k, doc) /\ UNCHANGED <<issued, turns, now>>
    BY <1>1 DEF Update
  <2> HIDE DEF doc
  <2> QED BY <1>1, <2>1, <2>2, RewriteSimulated
<1>2. CASE ~Idle(k)
  BY <1>2, TouchSimulated DEF Update
<1> QED BY <1>1, <1>2

LEMMA AppendSimulated ==
  ASSUME IInv, IInv', NEW k \in Keys, NEW items \in Batches, AppendItems(k, items)
  PROVE  Promise!Next
<1>1. CASE Idle(k)
  <2> DEFINE doc == [Swept[k].doc EXCEPT !.items = @ \o items]
  <2>1. doc \in Document
    <3>1. Swept[k].doc \in Document /\ items \in Seq(Items)
      BY <1>1, InvFacts, HeldDocument, StoreAssumption DEF Idle
    <3> QED BY <3>1, WithItems
  <2>2. Rewrite(k, doc) /\ UNCHANGED <<issued, turns, now>>
    BY <1>1 DEF AppendItems
  <2> HIDE DEF doc
  <2> QED BY <1>1, <2>1, <2>2, RewriteSimulated
<1>2. CASE ~Idle(k)
  BY <1>2, TouchSimulated DEF AppendItems
<1> QED BY <1>1, <1>2

LEMMA DeleteItemSimulated ==
  ASSUME IInv, IInv', NEW k \in Keys, NEW i \in Items, DeleteItem(k, i)
  PROVE  Promise!Next
<1> DEFINE held == Swept[k].doc.items
<1>1. CASE Idle(k) /\ \E n \in 1 .. Len(held) : held[n] = i
  <2>1. PICK n \in 1 .. Len(held) :
          Rewrite(k, [Swept[k].doc EXCEPT !.items = Without(@, n)])
    BY <1>1 DEF DeleteItem
  <2> DEFINE doc == [Swept[k].doc EXCEPT !.items = Without(@, n)]
  <2>2. doc \in Document
    <3>1. Swept[k].doc \in Document
      BY <1>1, InvFacts, HeldDocument DEF Idle
    <3>2. held \in Seq(Items)
      BY <3>1 DEF Document
    <3>3. Without(held, n) \in Seq(Items)
      BY <3>2, WithoutItem
    <3> QED BY <3>1, <3>3 DEF Document
  <2>3. UNCHANGED <<issued, turns, now>> /\ Idle(k) /\ Rewrite(k, doc)
    BY <1>1, <2>1 DEF DeleteItem
  <2> HIDE DEF doc
  <2> QED BY <2>2, <2>3, RewriteSimulated
<1>2. CASE ~(Idle(k) /\ \E n \in 1 .. Len(held) : held[n] = i)
  BY <1>2, TouchSimulated DEF DeleteItem
<1> QED BY <1>1, <1>2

LEMMA DeleteSimulated ==
  ASSUME IInv, IInv', NEW k \in Keys, Delete(k)
  PROVE  Promise!Next
<1>1. CASE ~Idle(k)
  BY <1>1, TouchSimulated DEF Delete
<1>2. CASE Idle(k)
  <2>1. /\ entries' = [Swept EXCEPT ![k] = NoEntry] /\ UNCHANGED <<issued, turns, now>>
        /\ entries[k] # NoEntry /\ ~entries[k].busy
    BY <1>2, SweptSame DEF Delete, Idle
  <2>2. entries'[k] = NoEntry /\ \A j \in Keys \ {k} : entries'[j] = Swept[j]
    BY <2>1 DEF Swept
  <2>3. Holder' = Holder /\ Spent' = Spent
    BY <2>1, <2>2, ManagedHolders
  <2>4. PromisedDoc'[k] = NoEntry /\ UsedAt'[k] = 0
    BY <2>2 DEF PromisedDoc, UsedAt, Live
  <2>5. \A j \in Keys \ {k} :
          /\ PromisedDoc'[j] = IF j \in Expired THEN NoEntry ELSE PromisedDoc[j]
          /\ UsedAt'[j] = IF PromisedDoc'[j] = NoEntry THEN 0 ELSE UsedAt[j]
    BY <2>2, Forgotten
  <2>6. PromisedDoc' = [j \in Keys |-> IF j = k THEN NoEntry
                                       ELSE IF j \in Expired THEN NoEntry ELSE PromisedDoc[j]]
    BY <2>4, <2>5 DEF PromisedDoc
  <2>7. UsedAt' = [j \in Keys |-> IF PromisedDoc'[j] = NoEntry THEN 0 ELSE UsedAt[j]]
    BY <2>4, <2>5 DEF UsedAt
  <2>8. PromisedDoc[k] # NoEntry /\ Holder[k] = NoEntry
    BY <2>1, Mapped
  <2>9. Promise!Remove(k, Expired)
    BY <2>1, <2>3, <2>6, <2>7, <2>8, OverdueIsExpired
    DEF Promise!Remove, Promise!Exists, Promise!Put, Promise!Stamp
  <2> QED BY <2>9, OverdueIsExpired DEF Promise!Next
<1> QED BY <1>1, <1>2

-----------------------------------------------------------------------------
(* Turns.                                                                   *)

(* A turn that holds its conversation keeps it while both are there.        *)
LEMMA SameHolders ==
  ASSUME IInv, NEW k \in Keys,
         \A t \in Turns : Open(t)' /\ turns'[t].key = k <=> Open(t) /\ turns[t].key = k,
         entries[k] # NoEntry /\ entries[k].busy => entries'[k] # NoEntry,
         entries[k] = NoEntry /\ k[2] \in issued => entries'[k] = NoEntry
  PROVE  HolderOf(k)' = HolderOf(k)
<1>1. \A t \in Turns : Open(t) /\ turns[t].key = k =>
        /\ k[2] \in issued
        /\ entries[k] # NoEntry => entries[k].busy
  BY DEF IInv, IdsIssued, LeaseIsExclusive, Live, Open
<1> QED BY <1>1 DEF HolderOf, Live

(* Begin on an idle conversation acquires it.                               *)
LEMMA BeginSimulated ==
  ASSUME IInv, IInv', NEW t \in Turns, NEW k \in Keys, Begin(t, k)
  PROVE  Promise!Next
<1>1. CASE ~Idle(k)
  BY <1>1, TouchSimulated DEF Begin
<1>2. CASE Idle(k)
  <2> DEFINE new == [key |-> k, base |-> Swept[k].doc, pending |-> <<>>,
                     committed |-> FALSE, closed |-> FALSE]
  <2>1. /\ ~Open(t) /\ turns' = [turns EXCEPT ![t] = new]
        /\ entries' = [Swept EXCEPT ![k].busy = TRUE, ![k].expiresAt = now + Ttl]
        /\ UNCHANGED <<issued, now>>
    BY <1>2 DEF Begin
  <2>2. /\ Swept[k] = entries[k] /\ entries[k] # NoEntry /\ ~entries[k].busy
        /\ k \notin Expired /\ entries[k] \in Entry
    BY <1>2, SweptSame DEF Idle, Swept, IInv, TypeOK
  <2>3. /\ new \in Turn /\ new # NoTurn /\ new.key = k
        /\ new.closed = FALSE /\ new.committed = FALSE
    <3>1. Swept[k].doc \in Document
      BY <2>2 DEF Entry
    <3>2. new \in Turn
      BY <3>1 DEF Turn
    <3> QED BY <3>2, StoreAssumption
  <2> HIDE DEF new
  <2>4. turns'[t] = new /\ \A u \in Turns \ {t} : turns'[u] = turns[u]
    BY <2>1 DEF IInv, TypeOK
  <2>5. /\ entries'[k].expiresAt = now + Ttl /\ entries'[k].doc = entries[k].doc
        /\ entries'[k] \in Entry
        /\ \A j \in Keys \ {k} : entries'[j] = Swept[j]
    <3>1. now + Ttl \in Nat
      BY StoreAssumption DEF IInv, TypeOK
    <3> QED BY <2>1, <2>2, <3>1 DEF Swept, Entry
  <2>6. entries'[k] # NoEntry
    BY <2>5, StoreAssumption
  <2>7. /\ PromisedDoc'[k] = PromisedDoc[k] /\ PromisedDoc[k] # NoEntry
        /\ PromisedDoc' = [j \in Keys |-> IF j = k THEN PromisedDoc'[k]
                                          ELSE IF j \in Expired THEN NoEntry ELSE PromisedDoc[j]]
        /\ UsedAt' = [j \in Keys |-> IF PromisedDoc'[j] = NoEntry THEN 0
                                     ELSE IF j \in {k} THEN now ELSE UsedAt[j]]
    BY <2>1, <2>2, <2>5, <2>6, Stamped, Mapped
  <2>8. HolderOf(k) = {} /\ Holder[k] = NoEntry
    BY <2>2, Mapped
  <2>9. HolderOf(k)' = {t}
    <3>1. \A u \in Turns : ~(Open(u) /\ turns[u].key = k)
      BY <2>2, <2>8 DEF HolderOf, Live
    <3> QED BY <2>3, <2>4, <2>6, <3>1 DEF HolderOf, Live, Open
  <2>10. ASSUME NEW j \in Keys \ {k}
         PROVE  /\ HolderOf(j)' = HolderOf(j)
                /\ \A u \in HolderOf(j) : turns'[u] = turns[u] /\ u # t
    <3>1. \A u \in Turns : Open(u)' /\ turns'[u].key = j <=> Open(u) /\ turns[u].key = j
      BY <2>1, <2>3, <2>4 DEF Open
    <3>2. /\ entries[j] # NoEntry /\ entries[j].busy => entries'[j] # NoEntry
          /\ entries[j] = NoEntry /\ j[2] \in issued => entries'[j] = NoEntry
      BY <2>5 DEF Swept, Expired
    <3> QED BY <2>1, <2>4, <3>1, <3>2, SameHolders DEF HolderOf
  <2>11. Holding({t}) = t
    BY DEF Holding
  <2>12. Holder' = [Holder EXCEPT ![k] = t]
    BY <2>9, <2>10, <2>11 DEF Holder
  <2>13. Spent' = Spent
    BY <2>3, <2>4, <2>8, <2>9, <2>10 DEF Spent
  <2>14. \A j \in Keys : Holder[j] # t
    <3> SUFFICES ASSUME NEW j \in Keys, Holder[j] = t PROVE FALSE
      OBVIOUS
    <3>1. Holder[j] # NoEntry
      BY StoreAssumption
    <3>2. t \in HolderOf(j)
      BY <3>1, Mapped
    <3> QED BY <2>1, <3>2 DEF HolderOf
  <2>15. Promise!Acquire(t, k, Expired)
    BY <2>1, <2>2, <2>7, <2>8, <2>12, <2>13, <2>14, OverdueIsExpired
    DEF Promise!Acquire, Promise!Exists, Promise!Put, Promise!Stamp
  <2> QED BY <2>15, OverdueIsExpired DEF Promise!Next
<1> QED BY <1>1, <1>2

LEMMA StageSimulated ==
  ASSUME IInv, IInv', NEW t \in Turns, NEW input \in Batches, Stage(t, input)
  PROVE  Promise!Next
<1>1. /\ Sweep /\ turns' = [turns EXCEPT ![t].pending = input] /\ UNCHANGED <<issued, now>>
      /\ turns[t] \in Turn /\ turns[t] # NoTurn
  BY DEF Stage, Active, Open, IInv, TypeOK
<1> DEFINE new == [turns[t] EXCEPT !.pending = input]
<1>2. /\ new.key = turns[t].key /\ new.closed = turns[t].closed
      /\ new.committed = turns[t].committed /\ new \in Turn
  BY <1>1, StoreAssumption DEF Turn
<1>3. turns'[t] = new /\ new # NoTurn /\ \A u \in Turns \ {t} : turns'[u] = turns[u]
  BY <1>1, <1>2, StoreAssumption DEF IInv, TypeOK
<1> HIDE DEF new
<1>4. \A u \in Turns : /\ Open(u)' <=> Open(u)
                       /\ Open(u) => /\ turns'[u].key = turns[u].key
                                     /\ turns'[u].committed = turns[u].committed
  BY <1>1, <1>2, <1>3 DEF Open
<1>5. /\ \A j \in Keys : entries[j] # NoEntry /\ entries[j].busy => entries'[j] # NoEntry
      /\ \A j \in Keys : entries[j] = NoEntry /\ j[2] \in issued => entries'[j] = NoEntry
  BY <1>1 DEF Sweep, Swept, Expired
<1>6. Holder' = Holder /\ Spent' = Spent
  BY <1>4, <1>5, HoldersStay
<1> QED BY <1>1, <1>6, SweepForgets

(* A sequence begins with what others were appended to.                     *)
LEMMA AppendedBehind ==
  ASSUME NEW s \in Seq(Items), NEW u \in Seq(Items), NEW v \in Seq(Items)
  PROVE  /\ Len((s \o u) \o v) >= Len(s)
         /\ SubSeq((s \o u) \o v, 1, Len(s)) = s
<1> DEFINE w == (s \o u) \o v
<1>1. s \o u \in Seq(Items) /\ Len(s \o u) = Len(s) + Len(u)
      /\ \A n \in 1 .. Len(s) : (s \o u)[n] = s[n]
  BY ConcatProperties
<1>2. w \in Seq(Items) /\ Len(w) = Len(s) + Len(u) + Len(v)
      /\ \A n \in 1 .. Len(s) : w[n] = s[n]
  BY <1>1, ConcatProperties
<1>3. Len(s) \in Nat /\ Len(u) \in Nat /\ Len(v) \in Nat /\ Len(s) \in 0 .. Len(w)
  BY <1>2, LenProperties
<1> HIDE DEF w
<1>4. /\ SubSeq(w, 1, Len(s)) \in Seq(Items) /\ Len(SubSeq(w, 1, Len(s))) = Len(s)
      /\ \A n \in 1 .. Len(s) : SubSeq(w, 1, Len(s))[n] = w[n]
  BY <1>2, <1>3, SubSeqProperties
<1>5. SubSeq(w, 1, Len(s)) = s
  BY <1>2, <1>4, SeqEqual
<1> QED BY <1>2, <1>3, <1>5 DEF w

(* Commit adds the turn's items behind those the conversation has.          *)
LEMMA CommitSimulated ==
  ASSUME IInv, IInv', NEW t \in Turns, NEW output \in Batches, Commit(t, output)
  PROVE  Promise!Next
<1> DEFINE k == turns[t].key
           doc == [turns[t].base EXCEPT !.items = @ \o turns[t].pending \o output]
           new == [turns[t] EXCEPT !.committed = TRUE]
<1>1. /\ turns[t] \in Turn /\ turns[t] # NoTurn /\ Open(t) /\ entries[k] # NoEntry
      /\ ~turns[t].committed
  BY InvFacts DEF Commit, Active, Open, Attached
<1>2. /\ k \in Keys /\ turns[t].base \in Document /\ turns[t].pending \in Seq(Items)
      /\ output \in Seq(Items) /\ turns[t].base.items \in Seq(Items)
  <2>1. /\ k \in Keys /\ turns[t].base \in Document /\ turns[t].pending \in Seq(Items)
        /\ output \in Seq(Items)
    BY <1>1, StoreAssumption DEF Turn
  <2> QED BY <2>1 DEF Document
<1>3. /\ doc.metadata = turns[t].base.metadata
      /\ doc.items = (turns[t].base.items \o turns[t].pending) \o output
      /\ doc \in Document
  <2>1. turns[t].base.items \o turns[t].pending \in Seq(Items)
    BY <1>2, ConcatProperties
  <2>2. (turns[t].base.items \o turns[t].pending) \o output \in Seq(Items)
    BY <1>2, <2>1, ConcatProperties
  <2> QED BY <1>2, <2>2 DEF Document
<1>4. entries[k].busy /\ entries[k].doc = turns[t].base
  BY <1>1, <1>2 DEF IInv, LeaseIsExclusive, Live, Active, Attached
<1>5. Swept[k] # NoEntry /\ k \notin Expired
  BY <1>1, <1>2, <1>4 DEF Swept, Expired
<1>6. CASE ~Fits(k, doc)
  BY <1>6, SweepSimulated DEF Commit
<1>7. CASE Fits(k, doc)
  <2>1. /\ Write(k, doc, TRUE) /\ UNCHANGED <<issued, now>>
        /\ turns' = [turns EXCEPT ![t] = new]
    BY <1>7 DEF Commit
  <2>2. /\ new.key = k /\ new.closed = turns[t].closed /\ new.committed = TRUE
        /\ new \in Turn /\ new # NoTurn
    BY <1>1, StoreAssumption DEF Turn
  <2> HIDE DEF doc, new
  <2>3. turns'[t] = new /\ \A u \in Turns \ {t} : turns'[u] = turns[u]
    BY <2>1 DEF IInv, TypeOK
  <2>4. /\ entries'[k].doc = doc /\ entries'[k].expiresAt = now + Ttl /\ entries'[k] # NoEntry
        /\ \A j \in Keys \ {k} : entries'[j] = Swept[j]
    <3> HIDE DEF k
    <3> QED BY <1>2, <1>3, <1>5, <1>7, <2>1, InvFacts, WriteStep, Written
  <2>5. /\ PromisedDoc'[k] = doc /\ PromisedDoc'[k] # NoEntry
        /\ PromisedDoc' = [j \in Keys |-> IF j = k THEN PromisedDoc'[k]
                                          ELSE IF j \in Expired THEN NoEntry ELSE PromisedDoc[j]]
        /\ UsedAt' = [j \in Keys |-> IF PromisedDoc'[j] = NoEntry THEN 0
                                     ELSE IF j \in {k} THEN now ELSE UsedAt[j]]
    <3> HIDE DEF k
    <3> QED BY <1>2, <2>1, <2>4, Stamped
  <2>6. PromisedDoc[k] = turns[t].base
    BY <1>1, <1>2, <1>4, Mapped
  <2>7. t \in HolderOf(k)
    BY <1>1, <1>2 DEF HolderOf, Live
  <2>8. Holder[k] = t /\ HolderOf(k) = {t} /\ ~Spent[k]
    BY <1>1, <1>2, <2>7, Mapped
  <2>9. \A j \in Keys : HolderOf(j)' = HolderOf(j)
    <3> TAKE j \in Keys
    <3>1. \A u \in Turns : Open(u)' /\ turns'[u].key = j <=> Open(u) /\ turns[u].key = j
      BY <1>1, <2>2, <2>3 DEF Open
    <3>2. /\ entries[j] # NoEntry /\ entries[j].busy => entries'[j] # NoEntry
          /\ entries[j] = NoEntry /\ j[2] \in issued => entries'[j] = NoEntry
      BY <1>1, <2>4 DEF Swept, Expired
    <3> QED BY <3>1, <3>2, SameHolders
  <2>10. Holder' = Holder
    BY <2>9 DEF Holder
  <2>11. Spent' = [Spent EXCEPT ![k] = TRUE]
    <3>1. k' = k /\ \E u \in HolderOf(k)' : turns'[u].committed
      BY <1>2, <2>2, <2>3, <2>7, <2>9
    <3> HIDE DEF k
    <3>2. ASSUME NEW j \in Keys \ {k}
          PROVE  (\E u \in HolderOf(j)' : turns'[u].committed)
                   <=> (\E u \in HolderOf(j) : turns[u].committed)
      <4>1. HolderOf(j) \subseteq Turns \ {t}
        BY <2>7 DEF HolderOf
      <4> QED BY <2>3, <2>9, <4>1
    <3>3. \A j \in Keys \ {k} :
            (\E u \in HolderOf(j)' : turns'[u].committed)
              = (\E u \in HolderOf(j) : turns[u].committed)
      BY <3>2
    <3>4. [Spent EXCEPT ![k] = TRUE] = [j \in Keys |-> IF j = k THEN TRUE ELSE Spent[j]]
      BY DEF Spent
    <3>5. Spent' = [j \in Keys |-> IF j = k THEN TRUE ELSE Spent[j]]
      <4>1. Spent = [j \in Keys |-> \E u \in HolderOf(j) : turns[u].committed]
        BY DEF Spent
      <4>2. Spent' = [j \in Keys |-> \E u \in HolderOf(j)' : turns'[u].committed]
        BY DEF Spent
      <4>3. ASSUME NEW j \in Keys \ {k}  PROVE Spent'[j] = Spent[j]
        BY <3>3, <4>1, <4>2, Zenon
      <4>4. Spent'[k] = TRUE
        <5>1. k \in Keys
          BY <1>2
        <5>2. Spent'[k] = (\E u \in HolderOf(k)' : turns'[u].committed)
          BY <3>1, <4>2, <5>1, Zenon
        <5>3. (\E u \in HolderOf(k)' : turns'[u].committed) <=> TRUE
          BY <3>1
        <5> QED BY <5>2, <5>3, Zenon
      <4>5. Spent' = [j \in Keys |-> Spent'[j]]
        BY DEF Spent
      <4> HIDE DEF Spent
      <4> QED BY <4>3, <4>4, <4>5
    <3> QED BY <3>4, <3>5
  <2>12. /\ Len(doc.items) >= Len(turns[t].base.items)
         /\ SubSeq(doc.items, 1, Len(turns[t].base.items)) = turns[t].base.items
    <3> DEFINE held == turns[t].base.items
               staged == turns[t].pending
    <3>1. held \in Seq(Items) /\ staged \in Seq(Items) /\ output \in Seq(Items)
      BY <1>2
    <3>2. doc.items = (held \o staged) \o output
      BY <1>3
    <3> HIDE DEF held, staged
    <3>3. /\ Len((held \o staged) \o output) >= Len(held)
          /\ SubSeq((held \o staged) \o output, 1, Len(held)) = held
      BY <3>1, AppendedBehind
    <3>4. Len(doc.items) >= Len(held) /\ SubSeq(doc.items, 1, Len(held)) = held
      BY <3>2, <3>3
    <3> QED BY <3>4 DEF held
  <2>13. Promise!AddItems(t, k, Expired)
    BY <1>2, <1>3, <2>1, <2>5, <2>6, <2>8, <2>10, <2>11, <2>12, OverdueIsExpired
    DEF Promise!AddItems, Promise!Put, Promise!Stamp
  <2> QED BY <1>2, <2>13, OverdueIsExpired DEF Promise!Next
<1> QED BY <1>6, <1>7

(* Release gives the conversation back; if it is gone, nothing happens.     *)
LEMMA ReleaseSimulated ==
  ASSUME IInv, IInv', NEW t \in Turns, NEW k \in Keys, turns[t].key = k, Release(t)
  PROVE  [Promise!Next]_(Promise!vars)
<1> DEFINE new == [turns[t] EXCEPT !.closed = TRUE]
<1>1. /\ Open(t) /\ turns[t] \in Turn /\ turns' = [turns EXCEPT ![t] = new]
      /\ UNCHANGED <<issued, now>>
  BY InvFacts DEF Release, Open
<1>2. new.closed = TRUE /\ new.key = k
  BY <1>1 DEF Turn
<1> HIDE DEF new
<1>3. turns'[t] = new /\ \A u \in Turns \ {t} : turns'[u] = turns[u]
  BY <1>1, InvFacts
<1>4. ~Open(t)' /\ \A u \in Turns \ {t} : Open(u)' <=> Open(u)
  BY <1>2, <1>3 DEF Open
<1>5. \A u \in Turns \ {t} : Open(u) => turns[u].key # k
  BY <1>1 DEF IInv, LeaseIsExclusive
<1>6. HolderOf(k)' = {}
  BY <1>3, <1>4, <1>5 DEF HolderOf
<1>7. CASE entries[k] = NoEntry
  <2>1. UNCHANGED <<entries, issued, now>>
    BY <1>7 DEF Release, Attached
  <2>2. ASSUME NEW j \in Keys
        PROVE  /\ HolderOf(j)' = HolderOf(j)
               /\ \A u \in HolderOf(j) : turns'[u] = turns[u]
    <3>1. t \notin HolderOf(j)
      BY <1>7 DEF HolderOf, Live
    <3> QED BY <1>3, <1>4, <2>1, <3>1 DEF HolderOf, Live
  <2>3. Holder' = Holder
    BY <2>2 DEF Holder
  <2>4. Spent' = Spent
    BY <2>2 DEF Spent
  <2>5. PromisedDoc' = PromisedDoc /\ UsedAt' = UsedAt
    BY <2>1 DEF PromisedDoc, UsedAt, Live
  <2> QED BY <2>1, <2>3, <2>4, <2>5 DEF Promise!vars
<1>8. CASE entries[k] # NoEntry
  <2>1. /\ entries' = [entries EXCEPT ![k].busy = FALSE, ![k].expiresAt = now + Ttl]
        /\ entries[k] \in Entry
    BY <1>8, InvFacts DEF Release, Attached, MapType
  <2>2. /\ entries'[k].expiresAt = now + Ttl /\ entries'[k].doc = entries[k].doc
        /\ entries'[k] \in Entry
    <3>1. now + Ttl \in Nat
      BY StoreAssumption, InvFacts
    <3> QED BY <2>1, <3>1, InvFacts DEF Entry, MapType
  <2>3. entries'[k] # NoEntry /\ \A j \in Keys \ {k} : entries'[j] = entries[j]
    BY <2>1, <2>2, StoreAssumption, InvFacts DEF MapType
  <2>4. t \in HolderOf(k)
    BY <1>1, <1>8 DEF HolderOf, Live
  <2>5. Holder[k] = t
    BY <2>4, Mapped
  <2>6. ASSUME NEW j \in Keys \ {k}
        PROVE  /\ HolderOf(j)' = HolderOf(j)
               /\ \A u \in HolderOf(j) : turns'[u] = turns[u]
    <3>1. /\ t \notin HolderOf(j)
          /\ \A u \in Turns : u \in HolderOf(j) <=> j \in Live(entries) /\ Open(u) /\ turns[u].key = j
          /\ \A u \in Turns : u \in HolderOf(j)' <=> j \in Live(entries') /\ Open(u)' /\ turns'[u].key = j
          /\ j \in Live(entries') <=> j \in Live(entries)
          /\ HolderOf(j) \subseteq Turns /\ HolderOf(j)' \subseteq Turns
      BY <2>3 DEF HolderOf, Live
    <3>2. \A u \in Turns : u \in HolderOf(j)' <=> u \in HolderOf(j)
      BY <1>3, <1>4, <3>1
    <3> QED BY <1>3, <3>1, <3>2
  <2>7. Holder' = [Holder EXCEPT ![k] = NoEntry]
    <3>1. Holding({}) = NoEntry
      BY DEF Holding
    <3> QED BY <1>6, <2>6, <3>1 DEF Holder
  <2>8. Spent' = [Spent EXCEPT ![k] = FALSE]
    <3>1. ASSUME NEW j \in Keys \ {k}
          PROVE  (\E u \in HolderOf(j)' : turns'[u].committed)
                   = (\E u \in HolderOf(j) : turns[u].committed)
      BY <2>6
    <3>2. [Spent EXCEPT ![k] = FALSE] = [j \in Keys |-> IF j = k THEN FALSE ELSE Spent[j]]
      BY DEF Spent
    <3>3. Spent = [j \in Keys |-> \E u \in HolderOf(j) : turns[u].committed]
      BY DEF Spent
    <3>4. Spent' = [j \in Keys |-> \E u \in HolderOf(j)' : turns'[u].committed]
      BY DEF Spent
    <3>5. ASSUME NEW j \in Keys \ {k} PROVE Spent'[j] = Spent[j]
      BY <3>1, <3>3, <3>4, Zenon
    <3>6. Spent'[k] = FALSE
      <4>1. Spent'[k] = (\E u \in HolderOf(k)' : turns'[u].committed)
        BY <3>4, Zenon
      <4>2. (\E u \in HolderOf(k)' : turns'[u].committed) <=> FALSE
        BY <1>6
      <4> QED BY <4>1, <4>2, Zenon
    <3>7. Spent' = [j \in Keys |-> Spent'[j]]
      BY DEF Spent
    <3> HIDE DEF Spent
    <3> QED BY <3>2, <3>5, <3>6, <3>7
  <2>9. PromisedDoc' = PromisedDoc
    BY <2>2, <2>3, <1>8 DEF PromisedDoc, Live
  <2>10. UsedAt' = [j \in Keys |-> IF PromisedDoc'[j] = NoEntry THEN 0
                                   ELSE IF j \in {k} THEN now ELSE UsedAt[j]]
    <3>1. UsedAt'[k] = now
      <4>1. UsedAt'[k] = entries'[k].expiresAt - Ttl
        BY <2>3 DEF UsedAt, Live
      <4> QED BY <2>2, <4>1, StoreAssumption, InvFacts
    <3>2. PromisedDoc'[k] # NoEntry
      BY <1>8, <2>9, Mapped
    <3>3. ASSUME NEW j \in Keys \ {k}
          PROVE  UsedAt'[j] = IF PromisedDoc'[j] = NoEntry THEN 0 ELSE UsedAt[j]
      <4>1. UsedAt'[j] = UsedAt[j]
        BY <2>3 DEF UsedAt, Live
      <4> QED BY <2>9, <4>1, Mapped
    <3> QED BY <3>1, <3>2, <3>3 DEF UsedAt
  <2>11. Promise!Yield(t, k)
    BY <1>1, <2>5, <2>7, <2>8, <2>9, <2>10, OverdueIsExpired
    DEF Promise!Yield, Promise!Stamp
  <2> QED BY <2>11, OverdueIsExpired DEF Promise!Next
<1> QED BY <1>7, <1>8

-----------------------------------------------------------------------------
(* The rest of the steps, and all of them.                                  *)

LEMMA ClearSimulated ==
  ASSUME IInv, Clear
  PROVE  Promise!Next
<1>1. entries' = [k \in Keys |-> NoEntry] /\ UNCHANGED <<issued, now>>
  BY DEF Clear
<1>2. Live(entries') = {}
  BY <1>1 DEF Live
<1>3. \A k \in Keys : HolderOf(k)' = {}
  BY <1>2 DEF HolderOf
<1>4. /\ PromisedDoc' = [k \in Keys |-> NoEntry]
      /\ UsedAt' = [k \in Keys |-> 0]
  BY <1>2 DEF PromisedDoc, UsedAt
<1>5. Holder' = [k \in Keys |-> NoEntry]
  <2>1. Holding({}) = NoEntry
    BY DEF Holding
  <2> QED BY <1>3, <2>1 DEF Holder
<1>6. Spent' = [k \in Keys |-> FALSE]
  BY <1>3 DEF Spent
<1>7. Promise!Shutdown
  BY <1>1, <1>4, <1>5, <1>6, OverdueIsExpired DEF Promise!Shutdown
<1> QED BY <1>7 DEF Promise!Next

LEMMA TickSimulated ==
  ASSUME Tick
  PROVE  Promise!Next
<1>1. UNCHANGED <<PromisedDoc, Holder, Spent, UsedAt, issued>>
  BY DEF Tick, PromisedDoc, Holder, Spent, UsedAt, HolderOf, Live, Open
<1>2. Promise!Pass
  BY <1>1 DEF Tick, Promise!Pass
<1> QED BY <1>2 DEF Promise!Next

LEMMA StutterSimulated ==
  ASSUME UNCHANGED vars
  PROVE  UNCHANGED Promise!vars
<1>1. UNCHANGED <<PromisedDoc, Holder, Spent, UsedAt>>
  BY DEF vars, PromisedDoc, Holder, Spent, UsedAt, HolderOf, Live, Open
<1> QED BY <1>1 DEF vars, Promise!vars

LEMMA InitSimulated == Init => Promise!Init
<1> SUFFICES ASSUME Init PROVE Promise!Init
  OBVIOUS
<1>1. Live(entries) = {}
  BY DEF Init, Live
<1>2. \A k \in Keys : HolderOf(k) = {}
  BY <1>1 DEF HolderOf
<1>3. /\ PromisedDoc = [k \in Keys |-> NoEntry]
      /\ UsedAt = [k \in Keys |-> 0]
  BY <1>1 DEF PromisedDoc, UsedAt
<1>4. Holder = [k \in Keys |-> NoEntry]
  <2>1. Holding({}) = NoEntry
    BY DEF Holding
  <2> QED BY <1>2, <2>1 DEF Holder
<1>5. Spent = [k \in Keys |-> FALSE]
  BY <1>2 DEF Spent
<1>6. Promise!Keys = Keys
  BY DEF Promise!Keys, Keys
<1> QED BY <1>3, <1>4, <1>5, <1>6 DEF Init, Promise!Init

LEMMA NextSimulated ==
  IInv /\ IInv' /\ [Next]_vars => [Promise!Next]_(Promise!vars)
<1> SUFFICES ASSUME IInv, IInv', [Next]_vars PROVE [Promise!Next]_(Promise!vars)
  OBVIOUS
<1>1. ASSUME NEW k \in Keys, Read(k) PROVE Promise!Next
  BY <1>1, TouchSimulated DEF Read
<1>2. ASSUME NEW k \in Keys, Manage(k) PROVE Promise!Next
  BY <1>1, <1>2, DeleteSimulated, UpdateSimulated, CreateSimulated, AppendSimulated,
     DeleteItemSimulated DEF Manage
<1>3. ASSUME NEW t \in Turns, Release(t) PROVE [Promise!Next]_(Promise!vars)
  <2>1. turns[t].key \in Keys
    BY <1>3 DEF Release, Open, IInv, TypeOK, Turn
  <2>2. PICK k \in Keys : turns[t].key = k
    BY <2>1
  <2> QED BY <1>3, <2>2, ReleaseSimulated
<1>4. ASSUME NEW t \in Turns, Hold(t) PROVE [Promise!Next]_(Promise!vars)
  BY <1>3, <1>4, BeginSimulated, StageSimulated, CommitSimulated DEF Hold
<1>5. CASE Prune
  BY <1>5, SweepSimulated DEF Prune
<1>6. CASE Clear
  BY <1>6, ClearSimulated
<1>7. CASE Tick
  BY <1>7, TickSimulated
<1>8. CASE UNCHANGED vars
  BY <1>8, StutterSimulated
<1> QED BY <1>2, <1>4, <1>5, <1>6, <1>7, <1>8 DEF Next

(* conversation-store.ts: for every number of credentials, conversations,   *)
(* turns and items, every behaviour of the store is one its users were      *)
(* promised: while a turn holds a conversation nobody else changes or       *)
(* removes it, the turn adds its items once and behind those present, an id *)
(* that is gone never returns, and only an idle conversation unused for the *)
(* whole time to live is forgotten.                                         *)
THEOREM StoreKeepsPromise == Spec => KeepsPromise
BY InitSimulated, NextSimulated, Invariance, PTL DEF Spec, KeepsPromise, Promise!Spec
=============================================================================
