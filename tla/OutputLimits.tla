----------------------------- MODULE OutputLimits -----------------------------
(***************************************************************************)
(* StreamOutputLimiter (src/src/stream/output-limits.ts): how many bytes of *)
(* UTF-8 the items of an answer have, counted delta by delta.  A delta is a *)
(* JavaScript string: an upstream that escapes what is outside the basic    *)
(* plane may cut a surrogate pair in two, and a lone half has three bytes   *)
(* where the pair has four.                                                 *)
(*                                                                         *)
(* What an item or a citation adds whatever its text, by addUnrelated() and *)
(* addBytes(), is left out: no pair is ever cut there.                      *)
(***************************************************************************)
EXTENDS Integers, Sequences, FiniteSets

CONSTANTS
  Items,                \* the indices of an answer's items
  MaxItemBytes,         \* 8 MB in the code
  MaxStreamBytes        \* 32 MB in the code

ASSUME LimitsAssumption ==
  MaxItemBytes \in Nat \ {0} /\ MaxStreamBytes \in Nat \ {0}

(* The characters of a text that are unit, and the pairs in it.             *)
Positions(text, unit) == {i \in DOMAIN text : text[i] = unit}

Pairs(text) == {i \in Positions(text, "high") : i + 1 \in Positions(text, "low")}

(* Buffer.byteLength(): one byte, two if it is "wide", three for a "high"   *)
(* or "low" surrogate, four for both together.                              *)
Utf8Length(text) ==
  Len(text) + Cardinality(Positions(text, "wide"))
    + 2 * (Cardinality(Positions(text, "high")) + Cardinality(Positions(text, "low")))
    - 2 * Cardinality(Pairs(text))

(* bytes of each item, and whether its text so far ends in the first half   *)
(* of a pair.                                                               *)
NewLimiter ==
  [bytes |-> [i \in Items |-> 0], high |-> [i \in Items |-> FALSE], stream |-> 0]

StartsLow(text) == text # <<>> /\ text[1] = "low"

EndsHigh(text) == text # <<>> /\ text[Len(text)] = "high"

(* Mutant of Correction: whatever item the other half belongs to.           *)
CorrectionAnywhere(limiter, i, text) ==
  IF (\E j \in Items : limiter.high[j]) /\ StartsLow(text) THEN 2 ELSE 0

Correction(limiter, i, text) ==
  IF limiter.high[i] /\ StartsLow(text) THEN 2 ELSE 0

Additional(limiter, i, text) == Utf8Length(text) - Correction(limiter, i, text)

(* #add() throws.                                                           *)
Exceeds(limiter, i, text) ==
  \/ limiter.bytes[i] + Additional(limiter, i, text) > MaxItemBytes
  \/ limiter.stream + Additional(limiter, i, text) > MaxStreamBytes

(* add()                                                                    *)
Add(limiter, i, text) ==
  [bytes  |-> [limiter.bytes EXCEPT ![i] = @ + Additional(limiter, i, text)],
   high   |-> [limiter.high EXCEPT ![i] = IF text = <<>> THEN @ ELSE EndsHigh(text)],
   stream |-> limiter.stream + Additional(limiter, i, text)]

(* What a limiter should know of an item whose text so far is known.        *)
Counts(limiter, i, text) ==
  limiter.bytes[i] = Utf8Length(text) /\ limiter.high[i] = EndsHigh(text)
=============================================================================
