---------------------------- MODULE ReplayEntries ----------------------------
(***************************************************************************)
(* What the two replay caches of the Responses route have in common: the    *)
(* history of whole responses (policies/responses-history-cache) and the    *)
(* items a later request may refer to (policies/responses-reference-cache). *)
(*                                                                         *)
(* Both keep a Map in insertion order (Ledgers).  A key is a credential and *)
(* an id; the model name is hashed into the id.  An upstream that reuses an *)
(* id for something else turns the entry into a tombstone, which keeps its  *)
(* place and its expiry.                                                    *)
(***************************************************************************)
EXTENDS Ledgers

CONSTANTS
  Owners, Ids,
  Contents,             \* serialized items or histories
  NoContent,            \* the json field of a tombstone is deleted
  Size,                 \* serialized size of each content
  Overhead,             \* key length and 256 bytes
  Ttl,
  MaxEntryBytes, MaxCredentialBytes, MaxBytes,
  MaxCredentialEntries, MaxEntries,
  MaxNow                \* bound of the clock, for model checking

ASSUME ReplayAssumption ==
  /\ NoContent \notin Contents
  /\ Size \in [Contents -> Nat]
  /\ Overhead \in Nat
  /\ {Ttl, MaxEntryBytes, MaxCredentialBytes, MaxBytes,
      MaxCredentialEntries, MaxEntries} \subseteq Nat \ {0}
  /\ MaxNow \in Nat

Keys == Owners \X Ids

(* older: the keys that were in the Map before this one.                    *)
(* heard is not in the code: it records every content the entry's key was   *)
(* offered with since the entry was made, for the properties below.         *)
Entry == [json : Contents \cup {NoContent}, bytes : Nat, expiresAt : Nat,
          older : SUBSET Keys, heard : SUBSET Contents]

Bytes(c) == Size[c] + Overhead

TooLarge(c) == Bytes(c) > Min({MaxEntryBytes, MaxCredentialBytes, MaxBytes})

Of(es, o) == {k \in DOMAIN es : k[1] = o}

Expired(es, now) == {k \in DOMAIN es : es[k].expiresAt <= now}

New(es, c, now) ==
  [json |-> c, bytes |-> Bytes(c), expiresAt |-> now + Ttl,
   older |-> DOMAIN es, heard |-> {c}]

(* Mutant of Heard: a contradiction replaces what was remembered.           *)
HeardLast(e, c) ==
  IF e.json \in {NoContent, c}
    THEN [e EXCEPT !.heard = @ \cup {c}]
    ELSE [e EXCEPT !.json = c, !.bytes = Bytes(c), !.heard = @ \cup {c}]

(* A key that is offered again: neither a repetition nor a contradiction    *)
(* renews the entry, and a contradiction takes its content away.            *)
Heard(e, c) ==
  IF e.json \in {NoContent, c}
    THEN [e EXCEPT !.heard = @ \cup {c}]
    ELSE [e EXCEPT !.json = NoContent, !.bytes = Overhead, !.heard = @ \cup {c}]

-----------------------------------------------------------------------------
(* Vocabulary of the properties of both caches.                             *)

Affordable(es) ==
  /\ Within(es, DOMAIN es, MaxBytes, MaxEntries)
  /\ \A o \in Owners :
       Within(es, Of(es, o), MaxCredentialBytes, MaxCredentialEntries)

(* A content is replayed only while everything said under its key agreed    *)
(* with it, and is withheld only after a contradiction.                     *)
Truthful(es) ==
  \A k \in DOMAIN es :
    IF es[k].json = NoContent THEN \E c, d \in es[k].heard : c # d
                              ELSE es[k].heard = {es[k].json}

Survives(k, es, fs) == k \in DOMAIN fs /\ fs[k].expiresAt = es[k].expiresAt

(* Entries of es that were still to be kept at the time and are not in fs.  *)
Lost(es, fs, time) == {k \in DOMAIN es \ Expired(es, time) : ~Survives(k, es, fs)}

(* Between es and fs an entry was lost to a caller making room only after   *)
(* every older entry of its owner and, if its owner is not the caller,      *)
(* after every older entry.  An entry the caller offered again may have     *)
(* left and come back.                                                      *)
OldestLeft(es, fs, time, caller, offered) ==
  \A j \in Lost(es, fs, time) : \A i \in es[j].older :
    i[1] = j[1] \/ j[1] # caller =>
      ~Survives(i, es, fs) \/ (i[1] = caller /\ i[2] \in offered)
=============================================================================
