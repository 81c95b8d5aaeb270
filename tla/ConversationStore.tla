-------------------------- MODULE ConversationStore --------------------------
(***************************************************************************)
(* The in-memory conversation store (src/src/policies/conversation-store).  *)
(*                                                                         *)
(* The store maps a key, a credential together with a conversation id, to  *)
(* an entry holding the serialized document, its size, a lease flag and an *)
(* expiry.  Every method runs to completion on the event loop, so each is  *)
(* one action; what interleaves is the methods of different requests and   *)
(* the calls a turn's holder makes between begin and release.              *)
(*                                                                         *)
(* A call that is refused without any effect (a stage or commit through a  *)
(* turn that is closed, committed or detached, a second release) is a      *)
(* stuttering step and has no action.  A refusal that renews the expiry or *)
(* sweeps expired entries is part of the operation's action.               *)
(***************************************************************************)
EXTENDS Integers, Sequences, FiniteSets

CONSTANTS
  Owners,               \* credentials, as the HMAC of the API key
  Ids,                  \* conversation ids the UUID generator may return
  Items,                \* item ids
  Metadata,             \* metadata values
  Batches,              \* the sequences of items a caller may pass
  Turns,                \* turn objects callers hold at the same time
  NoEntry,              \* what the map returns for a key it does not hold
  NoTurn,               \* a turn object not created yet
  DocumentOverhead,     \* fixed cost of an entry: envelope, key, 256 bytes
  MetadataBytes,        \* serialized size of each metadata value
  Ttl,                  \* ttlMs
  MaxConversationBytes, MaxCredentialBytes, MaxBytes,
  MaxCredentialEntries, MaxEntries, MaxItems,
  MaxNow                \* bound of the clock, for model checking

VARIABLES
  entries,              \* #entries
  bytes,                \* #bytes
  issued,               \* ids handed out: randomUUID never repeats one
  turns,                \* the closures begin() returned
  now                   \* the monotonic clock

vars == <<entries, bytes, issued, turns, now>>

Keys == Owners \X Ids

Document == [metadata : Metadata, items : Seq(Items)]

Entry == [doc : Document, bytes : Nat, busy : BOOLEAN, expiresAt : Nat]

Turn == [key : Keys, base : Document, pending : Seq(Items),
         committed : BOOLEAN, closed : BOOLEAN]

ASSUME StoreAssumption ==
  /\ Batches \subseteq Seq(Items)
  /\ NoEntry \notin Entry \cup Document \cup Turns
  /\ NoTurn \notin Turn
  /\ DocumentOverhead \in Nat
  /\ MetadataBytes \in [Metadata -> Nat]
  /\ {Ttl, MaxConversationBytes, MaxCredentialBytes, MaxBytes,
      MaxCredentialEntries, MaxEntries, MaxItems} \subseteq Nat \ {0}
  /\ MaxNow \in Nat

-----------------------------------------------------------------------------
(* Sizes.  A sum of sizes is the number of bytes held, <<k, n>> being byte  *)
(* n of the entry at k.                                                     *)

Live(es) == {k \in Keys : es[k] # NoEntry}

Ledger(es, K) == UNION {{k} \X (1 .. es[k].bytes) : k \in Live(es) \cap K}

Total(es, K) == Cardinality(Ledger(es, K))

OwnerKeys(o) == {o} \X Ids

DocumentBytes(doc) ==
  DocumentOverhead + MetadataBytes[doc.metadata] + Len(doc.items)

UniqueIds(items) ==
  \A i, j \in 1 .. Len(items) : items[i] = items[j] => i = j

-----------------------------------------------------------------------------
(* prune(): idle entries at or past their expiry go; leased ones stay.      *)

Expired == {k \in Live(entries) : /\ ~entries[k].busy
                                  /\ entries[k].expiresAt <= now}

Swept == [k \in Keys |-> IF k \in Expired THEN NoEntry ELSE entries[k]]

SweptBytes == bytes - Total(entries, Expired)

Sweep == entries' = Swept /\ bytes' = SweptBytes

(* #get(): sweep, then 404 for an absent key; a found one gets a new expiry *)
(* whatever the operation goes on to do.                                    *)
Touch(k) ==
  /\ entries' = IF Swept[k] = NoEntry
                  THEN Swept
                  ELSE [Swept EXCEPT ![k].expiresAt = now + Ttl]
  /\ bytes' = SweptBytes

(* #get() found the entry and #assertIdle() let the operation go on.        *)
Idle(k) == Swept[k] # NoEntry /\ ~Swept[k].busy

(* #serialize(): item limit, unique ids, and the three byte budgets with    *)
(* the entry's present size given back.                                     *)
Fits(k, doc) ==
  LET old == IF Swept[k] = NoEntry THEN 0 ELSE Swept[k].bytes
  IN  /\ Len(doc.items) <= MaxItems
      /\ UniqueIds(doc.items)
      /\ DocumentBytes(doc) <= MaxConversationBytes
      /\ Total(Swept, OwnerKeys(k[1])) - old + DocumentBytes(doc)
           <= MaxCredentialBytes
      /\ SweptBytes - old + DocumentBytes(doc) <= MaxBytes

(* #write() once #serialize() has returned.                                 *)
Write(k, doc, busy) ==
  LET old == IF Swept[k] = NoEntry THEN 0 ELSE Swept[k].bytes
  IN  /\ entries' = [Swept EXCEPT ![k] =
                       [doc |-> doc, bytes |-> DocumentBytes(doc),
                        busy |-> busy, expiresAt |-> now + Ttl]]
      /\ bytes' = SweptBytes + DocumentBytes(doc) - old

(* An operation that rewrites an idle conversation, or is refused.          *)
Rewrite(k, doc) ==
  IF Fits(k, doc) THEN Write(k, doc, FALSE) ELSE Touch(k)

-----------------------------------------------------------------------------
(* Operations of the management API.                                        *)

EntriesFit(o) ==
  /\ Cardinality(Live(Swept) \cap OwnerKeys(o)) < MaxCredentialEntries
  /\ Cardinality(Live(Swept)) < MaxEntries

Create(k, m, items) ==
  LET doc == [metadata |-> m, items |-> items]
  IN  /\ k[2] \notin issued
      /\ IF EntriesFit(k[1]) /\ Fits(k, doc)
           THEN Write(k, doc, FALSE) /\ issued' = issued \cup {k[2]}
           ELSE Sweep /\ UNCHANGED issued
      /\ UNCHANGED <<turns, now>>

(* retrieve() and items().                                                  *)
Read(k) ==
  /\ Touch(k)
  /\ UNCHANGED <<issued, turns, now>>

Update(k, m) ==
  /\ IF Idle(k) THEN Rewrite(k, [Swept[k].doc EXCEPT !.metadata = m])
                ELSE Touch(k)
  /\ UNCHANGED <<issued, turns, now>>

AppendItems(k, items) ==
  /\ IF Idle(k) THEN Rewrite(k, [Swept[k].doc EXCEPT !.items = @ \o items])
                ELSE Touch(k)
  /\ UNCHANGED <<issued, turns, now>>

Without(items, n) ==
  SubSeq(items, 1, n - 1) \o SubSeq(items, n + 1, Len(items))

DeleteItem(k, i) ==
  /\ IF Idle(k) /\ \E n \in 1 .. Len(Swept[k].doc.items) :
                      Swept[k].doc.items[n] = i
       THEN \E n \in 1 .. Len(Swept[k].doc.items) :
              /\ Swept[k].doc.items[n] = i
              /\ Rewrite(k, [Swept[k].doc EXCEPT !.items = Without(@, n)])
       ELSE Touch(k)
  /\ UNCHANGED <<issued, turns, now>>

Delete(k) ==
  /\ IF Idle(k)
       THEN /\ entries' = [Swept EXCEPT ![k] = NoEntry]
            /\ bytes' = SweptBytes - Swept[k].bytes
       ELSE Touch(k)
  /\ UNCHANGED <<issued, turns, now>>

-----------------------------------------------------------------------------
(* Turns.  A turn object that was released is garbage its slot may reuse;   *)
(* until then its holder can still call it.                                 *)

Open(t) == turns[t] # NoTurn /\ ~turns[t].closed

(* The map still holds the entry the turn leased: ids are never reissued,   *)
(* so an entry under the turn's key is the object begin() saw.              *)
Attached(t) == entries[turns[t].key] # NoEntry

(* Mutant of Active: the map is not asked whether it still holds the entry. *)
ActiveThoughDetached(t) == Open(t) /\ ~turns[t].committed

(* assertActive()                                                           *)
Active(t) == Open(t) /\ Attached(t) /\ ~turns[t].committed

Begin(t, k) ==
  /\ ~Open(t)
  /\ IF Idle(k)
       THEN /\ entries' = [Swept EXCEPT ![k].busy = TRUE,
                                        ![k].expiresAt = now + Ttl]
            /\ bytes' = SweptBytes
            /\ turns' = [turns EXCEPT ![t] =
                           [key |-> k, base |-> Swept[k].doc, pending |-> <<>>,
                            committed |-> FALSE, closed |-> FALSE]]
       ELSE Touch(k) /\ UNCHANGED turns
  /\ UNCHANGED <<issued, now>>

(* The pending input is set before the size check, so a stage() that throws *)
(* leaves it set: what the check decides is only whether the caller goes on *)
Stage(t, input) ==
  /\ Active(t)
  /\ Sweep
  /\ turns' = [turns EXCEPT ![t].pending = input]
  /\ UNCHANGED <<issued, now>>

(* Mutant of Commit: stage() checked the size, so commit() does not again.  *)
CommitUnchecked(t, output) ==
  LET k == turns[t].key
      doc == [turns[t].base EXCEPT !.items = @ \o turns[t].pending \o output]
  IN  /\ Active(t)
      /\ Write(k, doc, TRUE)
      /\ turns' = [turns EXCEPT ![t].committed = TRUE]
      /\ UNCHANGED <<issued, now>>

(* The document written is the one begin() captured with the turn's items   *)
(* behind it.  A commit that does not fit writes nothing and may be retried *)
Commit(t, output) ==
  LET k == turns[t].key
      doc == [turns[t].base EXCEPT !.items = @ \o turns[t].pending \o output]
  IN  /\ Active(t)
      /\ IF Fits(k, doc)
           THEN /\ Write(k, doc, TRUE)
                /\ turns' = [turns EXCEPT ![t].committed = TRUE]
           ELSE Sweep /\ UNCHANGED turns
      /\ UNCHANGED <<issued, now>>

(* Mutant of Release: a second call frees the entry again.                  *)
ReleaseAgain(t) ==
  /\ turns[t] # NoTurn
  /\ turns' = [turns EXCEPT ![t].closed = TRUE]
  /\ entries' = IF Attached(t)
                  THEN [entries EXCEPT ![turns[t].key].busy = FALSE,
                                       ![turns[t].key].expiresAt = now + Ttl]
                  ELSE entries
  /\ UNCHANGED <<bytes, issued, now>>

(* On a detached entry the two writes reach an object nobody can find.      *)
Release(t) ==
  /\ Open(t)
  /\ turns' = [turns EXCEPT ![t].closed = TRUE]
  /\ entries' = IF Attached(t)
                  THEN [entries EXCEPT ![turns[t].key].busy = FALSE,
                                       ![turns[t].key].expiresAt = now + Ttl]
                  ELSE entries
  /\ UNCHANGED <<bytes, issued, now>>

-----------------------------------------------------------------------------
(* The cleanup timer, shutdown and the clock.                               *)

Prune ==
  /\ Sweep
  /\ UNCHANGED <<issued, turns, now>>

Clear ==
  /\ entries' = [k \in Keys |-> NoEntry]
  /\ bytes' = 0
  /\ UNCHANGED <<issued, turns, now>>

Tick ==
  /\ now < MaxNow
  /\ now' = now + 1
  /\ UNCHANGED <<entries, bytes, issued, turns>>

Init ==
  /\ entries = [k \in Keys |-> NoEntry]
  /\ bytes = 0
  /\ issued = {}
  /\ turns = [t \in Turns |-> NoTurn]
  /\ now = 0

Manage(k) ==
  \/ Read(k)
  \/ Delete(k)
  \/ \E m \in Metadata : Update(k, m) \/ \E items \in Batches : Create(k, m, items)
  \/ \E items \in Batches : AppendItems(k, items)
  \/ \E i \in Items : DeleteItem(k, i)

Hold(t) ==
  \/ \E k \in Keys : Begin(t, k)
  \/ \E items \in Batches : Stage(t, items) \/ Commit(t, items)
  \/ Release(t)

Next ==
  \/ \E k \in Keys : Manage(k)
  \/ \E t \in Turns : Hold(t)
  \/ Prune
  \/ Clear
  \/ Tick

Spec == Init /\ [][Next]_vars

-----------------------------------------------------------------------------
(* Every variable has its type; entries and turns hold whole records.       *)
TypeOK ==
  /\ entries \in [Keys -> Entry \cup {NoEntry}]
  /\ bytes \in Nat
  /\ issued \subseteq Ids
  /\ turns \in [Turns -> Turn \cup {NoTurn}]
  /\ now \in Nat

(* The running counter #bytes is the sum of the sizes of the entries held,  *)
(* through every write, sweep, deletion and refusal (conversation-store.ts  *)
(* changes it incrementally in #write and #remove only).                    *)
CounterIsExact == bytes = Total(entries, Keys)

(* The budgets of the global map, of each credential and of each entry.     *)
Affordable(es) ==
  /\ Total(es, Keys) <= MaxBytes
  /\ Cardinality(Live(es)) <= MaxEntries
  /\ \A o \in Owners :
       /\ Total(es, OwnerKeys(o)) <= MaxCredentialBytes
       /\ Cardinality(Live(es) \cap OwnerKeys(o)) <= MaxCredentialEntries
  /\ \A k \in Live(es) :
       /\ es[k].bytes = DocumentBytes(es[k].doc)
       /\ es[k].bytes <= MaxConversationBytes
       /\ Len(es[k].doc.items) <= MaxItems
       /\ UniqueIds(es[k].doc.items)

(* No credential and no conversation exceeds its budget, the process does   *)
(* not exceed the global ones, and what is stored is what a caller may      *)
(* store: nothing reaches the map without passing #serialize and the entry  *)
(* limits of create, although a turn commits long after it was checked; and *)
(* the counter those checks rely on never drifts.                           *)
WithinBudgets == CounterIsExact /\ Affordable(entries)

(* A conversation is leased exactly while one turn on it is open, and its   *)
(* document is then the one that turn captured: so the commit that rewrites *)
(* it from the captured copy loses nobody's update, whatever other requests *)
(* did between begin and commit, and a second release of a turn cannot free *)
(* a lease that has passed to another.                                      *)
LeaseIsExclusive ==
  /\ \A t, u \in Turns :
       Open(t) /\ Open(u) /\ turns[t].key = turns[u].key => t = u
  /\ \A k \in Live(entries) :
       entries[k].busy <=> \E t \in Turns : Open(t) /\ turns[t].key = k
  /\ \A t \in Turns : Active(t) => entries[turns[t].key].doc = turns[t].base

(* The store implements the promises of module Conversations.  A turn holds *)
(* its conversation from begin to release, whatever the lease flag says.    *)
HolderOf(k) == {t \in Turns : k \in Live(entries) /\ Open(t) /\ turns[t].key = k}

PromisedDoc == [k \in Keys |-> IF k \in Live(entries) THEN entries[k].doc ELSE NoEntry]

Holding(ts) == IF ts = {} THEN NoEntry ELSE CHOOSE t \in ts : TRUE

Holder == [k \in Keys |-> Holding(HolderOf(k))]

Spent == [k \in Keys |-> \E t \in HolderOf(k) : turns[t].committed]

UsedAt == [k \in Keys |-> IF k \in Live(entries) THEN entries[k].expiresAt - Ttl ELSE 0]

Promise == INSTANCE Conversations WITH
  None <- NoEntry, doc <- PromisedDoc, holder <- Holder, spent <- Spent, usedAt <- UsedAt

(* Every step of the store is a step the promises allow, or no step of      *)
(* theirs: the leased, atomic, append-once turn; no id that comes back; no  *)
(* unheld conversation forgotten within Ttl of its last use.                *)
KeepsPromise == Promise!Spec
=============================================================================
