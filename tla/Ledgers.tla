-------------------------------- MODULE Ledgers --------------------------------
(***************************************************************************)
(* What the bounded maps of the gateway have in common: sums of sizes, and  *)
(* which entries are the oldest.  A sum is the length of a ledger that has  *)
(* a line for each byte of each entry.                                      *)
(*                                                                         *)
(* A Map in insertion order is a function on the keys it holds; each entry  *)
(* names those that were there before it.                                   *)
(***************************************************************************)
EXTENDS Integers, FiniteSets, FiniteSetsExt

Ledger(size, S) == UNION {{x} \X (1 .. size[x]) : x \in S}

Total(size, S) == Cardinality(Ledger(size, S))

(* The first n of S in the order of a map; older[x] are those before x.     *)
Oldest(older, S, n) == {x \in S : Cardinality(older[x] \cap S) < n}

Sizes(es) == [k \in DOMAIN es |-> es[k].bytes]

Sum(es, S) == Total(Sizes(es), S)

Within(es, S, byteLimit, entryLimit) ==
  Sum(es, S) <= byteLimit /\ Cardinality(S) <= entryLimit

Put(es, k, e) == [x \in DOMAIN es \cup {k} |-> IF x = k THEN e ELSE es[x]]

Dropped(es, gone) ==
  [k \in DOMAIN es \ gone |-> [es[k] EXCEPT !.older = @ \ gone]]

(* Mutant of Victims: the newest make room.                                 *)
VictimsNewest(older, size, held, b, byteLimit, entryLimit) ==
  LET keys      == DOMAIN older
      Newest(n) == {x \in keys : Cardinality({y \in keys : x \in older[y]}) < n}
      Enough(n) == /\ held - Total(size, Newest(n)) + b <= byteLimit
                   /\ Cardinality(keys \ Newest(n)) < entryLimit
      need == {n \in 0 .. Cardinality(keys) : n = Cardinality(keys) \/ Enough(n)}
  IN Newest(Min(need))

(* The oldest keys that have to go before b more bytes and one more entry   *)
(* fit the limits, when a counter says that they hold so many bytes.        *)
Victims(older, size, held, b, byteLimit, entryLimit) ==
  LET keys      == DOMAIN older
      First(n)  == Oldest(older, keys, n)
      Enough(n) == /\ held - Total(size, First(n)) + b <= byteLimit
                   /\ Cardinality(keys \ First(n)) < entryLimit
      need == {n \in 0 .. Cardinality(keys) : n = Cardinality(keys) \/ Enough(n)}
  IN First(Min(need))
=============================================================================
