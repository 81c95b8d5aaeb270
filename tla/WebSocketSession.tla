-------------------------- MODULE WebSocketSession --------------------------
(***************************************************************************)
(* One WebSocket connection of GET /v1/responses                            *)
(* (src/src/http/responses-websocket.ts): requests arrive as messages, are  *)
(* chained to the end of their lane's promise, and each lane works them off *)
(* one at a time while other lanes go on.  The connection keeps the latest  *)
(* completed response of each lane for continuations, counts what is        *)
(* pending, and holds one slot of the gateway's RequestDrain                *)
(* (src/src/http/request-drain.ts) for every request it has accepted.       *)
(*                                                                         *)
(* A step is a callback of the event loop together with the microtasks it   *)
(* leaves behind: a message, a timer, the completion of a write, the next   *)
(* event of the upstream.  What an upstream answers, and when the peer      *)
(* reads or goes away, is arbitrary.  A request that generates nothing      *)
(* (generate: false) behaves like one whose upstream completes at once.     *)
(***************************************************************************)
EXTENDS Ledgers, Sequences, FiniteSetsExt

CONSTANTS
  Streams,              \* values of stream_id
  Default,              \* the lane of a request without stream_id
  Conversations,
  None,                 \* null, undefined
  MaxStreams,           \* named streams a connection may use, 32 in the code
  MaxPendingRequests, BodyLimitBytes,
  HistoryLimitBytes,
  MessageBytes,         \* sizes of messages
  HistoryBytes,         \* sizes of serialized histories
  MaxRequests           \* bound of the accepted requests, for model checking

ASSUME SessionAssumption ==
  /\ Default \notin Streams
  /\ None \notin Streams \cup {Default} \cup Conversations \cup Nat
  /\ {MaxStreams, MaxPendingRequests, BodyLimitBytes, HistoryLimitBytes} \subseteq Nat \ {0}
  /\ MessageBytes \subseteq Nat \ {0} /\ HistoryBytes \subseteq Nat \ {0}
  /\ MaxRequests \in Nat

VARIABLES
  aborted,              \* #controller.signal.aborted
  named,                \* #namedStreams
  tasks,                \* every request accepted, in order; its index is its id
  tail,                 \* #lanes: the last task of each lane that has one
  history,              \* #history
  historyBytes,         \* #historyBytes
  pendingRequests, pendingBytes,
  draining, active,     \* of the RequestDrain
  lease                 \* who generates in each conversation

vars == <<aborted, named, tasks, tail, history, historyBytes,
          pendingRequests, pendingBytes, draining, active, lease>>

counters == <<pendingRequests, pendingBytes, draining, active>>
remembered == <<history, historyBytes>>

Lanes == Streams \cup {Default}

(* queued:    behind the lane's earlier requests                            *)
(* streaming: awaits the upstream                                           *)
(* writing:   awaits the write of a frame, and is not done after it         *)
(* ending:    awaits the write of its last frame                            *)
(* reporting: failed, awaits the write of its error                         *)
Stages == {"queued", "streaming", "writing", "ending", "reporting", "settled"}

(* prior is the promise the task was chained to, previous the response it   *)
(* continues, which is named by the task that produced it.  cut says that   *)
(* the request's own timer has fired, completed that completedId is set.    *)
(* failed is not in the code: the request ended in its catch clause.        *)
Task == [lane : Lanes, bytes : MessageBytes, previous : Nat \cup {None},
         conversation : Conversations \cup {None}, prior : Nat \cup {None},
         stage : Stages, cut : BOOLEAN, completed : BOOLEAN, failed : BOOLEAN]

(* at tells the order of the map: how many responses were completed before. *)
Parent == [lane : Lanes, id : Nat \ {0}, bytes : HistoryBytes, at : Nat]

Ids == DOMAIN tasks

In(stages) == {t \in Ids : tasks[t].stage \in stages}

Running(t) == t \in In({"streaming", "writing", "ending", "reporting"})

Move(t, stage) == tasks' = [tasks EXCEPT ![t].stage = stage]

Held(es) == Total([e \in es |-> e.bytes], es)

CachedId(lane) ==
  IF \E e \in history : e.lane = lane
    THEN (CHOOSE e \in history : e.lane = lane).id
    ELSE None

-----------------------------------------------------------------------------
(* The history of the connection.                                           *)

Without(lane) == {e \in history : e.lane # lane}

WithoutBytes(lane) == historyBytes - Held(history \ Without(lane))

(* #forget()                                                                *)
Forget(lane) ==
  /\ history' = Without(lane)
  /\ historyBytes' = WithoutBytes(lane)

(* #remember(): the lane's earlier response goes first, whether or not the  *)
(* new one is small enough to be kept.                                      *)
Remember(t, bytes) ==
  LET lane == tasks[t].lane
      left == Without(lane)
      held == WithoutBytes(lane)
      First(n) == Oldest([e \in left |-> {f \in left : f.at < e.at}], left, n)
      need == {n \in 0 .. Cardinality(left) :
                 n = Cardinality(left) \/ held - Held(First(n)) + bytes <= HistoryLimitBytes}
      gone == First(Min(need))
      completed == {u \in Ids : tasks[u].completed}
  IN IF bytes > HistoryLimitBytes
       THEN Forget(lane)
       ELSE /\ history' = (left \ gone) \cup
                 {[lane |-> lane, id |-> t, bytes |-> bytes, at |-> Cardinality(completed)]}
            /\ historyBytes' = held - Held(gone) + bytes

(* abort()                                                                  *)
Abort == /\ aborted' = TRUE /\ history' = {} /\ historyBytes' = 0

-----------------------------------------------------------------------------
(* #receive()                                                               *)

Full(bytes) ==
  \/ pendingRequests >= MaxPendingRequests
  \/ pendingBytes + bytes > BodyLimitBytes

(* A stream that is known, or one more within the limit.                    *)
Named(lane) == \/ lane \in named \cup {Default}
               \/ Cardinality(named) < MaxStreams

(* Mutant of Refuse: the drain slot is taken before the queue is checked.   *)
RefuseEntered(lane, bytes) ==
  /\ ~aborted /\ Named(lane)
  /\ Full(bytes) \/ draining
  /\ named' = named \cup ({lane} \ {Default})
  /\ active' = IF draining THEN active ELSE active + 1
  /\ UNCHANGED <<aborted, tasks, tail, remembered, pendingRequests, pendingBytes,
                 draining, lease>>

(* A request that is turned away keeps the name of its stream taken.  Its   *)
(* error is written beside the lanes.                                       *)
Refuse(lane, bytes) ==
  /\ ~aborted /\ Named(lane)
  /\ Full(bytes) \/ draining
  /\ named' = named \cup ({lane} \ {Default})
  /\ UNCHANGED <<aborted, tasks, tail, remembered, counters, lease>>

Accept(lane, bytes, previous, conversation) ==
  /\ ~aborted /\ Named(lane)
  /\ ~Full(bytes) /\ ~draining
  /\ Len(tasks) < MaxRequests
  /\ named' = named \cup ({lane} \ {Default})
  /\ active' = active + 1
  /\ pendingRequests' = pendingRequests + 1
  /\ pendingBytes' = pendingBytes + bytes
  /\ tasks' = Append(tasks,
       [lane |-> lane, bytes |-> bytes, previous |-> previous,
        conversation |-> conversation, prior |-> tail[lane],
        stage |-> "queued", cut |-> FALSE, completed |-> FALSE, failed |-> FALSE])
  /\ tail' = [tail EXCEPT ![lane] = Len(tasks) + 1]
  /\ UNCHANGED <<aborted, remembered, draining, lease>>

-----------------------------------------------------------------------------
(* #run() and the promise chain around it.                                  *)

Ready(t) ==
  /\ tasks[t].stage = "queued"
  /\ tasks[t].prior # None => tasks[tasks[t].prior].stage = "settled"

(* Mutant of Leave: the lane is dropped although requests wait in it.       *)
LeaveLane(t) ==
  /\ active' = active - 1
  /\ pendingRequests' = pendingRequests - 1
  /\ pendingBytes' = pendingBytes - tasks[t].bytes
  /\ tail' = [tail EXCEPT ![tasks[t].lane] = None]
  /\ lease' = [c \in Conversations |-> IF lease[c] = t THEN None ELSE lease[c]]
  /\ UNCHANGED draining

(* Mutant of Leave: the turn is given back only if nothing failed.          *)
LeaveLeased(t) ==
  /\ active' = active - 1
  /\ pendingRequests' = pendingRequests - 1
  /\ pendingBytes' = pendingBytes - tasks[t].bytes
  /\ tail' = [tail EXCEPT ![tasks[t].lane] = IF @ = t THEN None ELSE @]
  /\ lease' = [c \in Conversations |->
                 IF lease[c] = t /\ tasks[t].completed THEN None ELSE lease[c]]
  /\ UNCHANGED draining

(* The finally clauses: the conversation's turn, the drain slot, the place  *)
(* in the queue, and the lane if nothing was chained after the request.     *)
Leave(t) ==
  /\ active' = active - 1
  /\ pendingRequests' = pendingRequests - 1
  /\ pendingBytes' = pendingBytes - tasks[t].bytes
  /\ tail' = [tail EXCEPT ![tasks[t].lane] = IF @ = t THEN None ELSE @]
  /\ lease' = [c \in Conversations |-> IF lease[c] = t THEN None ELSE lease[c]]
  /\ UNCHANGED draining

(* Mutant of Catch: only the parent is compared with what is cached.        *)
CatchParent(t) ==
  LET lane == tasks[t].lane
  IN  /\ IF CachedId(lane) = tasks[t].previous
           THEN Forget(lane) ELSE UNCHANGED remembered
      /\ tasks' = [tasks EXCEPT ![t].failed = TRUE,
                                ![t].stage = IF aborted THEN "settled" ELSE "reporting"]
      /\ IF aborted THEN Leave(t) ELSE UNCHANGED <<tail, counters, lease>>
      /\ UNCHANGED <<aborted, named>>

(* Mutant of Catch: the parent is forgotten wherever it is.                 *)
CatchEverywhere(t) ==
  LET kept == {e \in history : e.id \notin {tasks[t].previous, t}}
  IN  /\ history' = kept /\ historyBytes' = Held(kept)
      /\ tasks' = [tasks EXCEPT ![t].failed = TRUE,
                                ![t].stage = IF aborted THEN "settled" ELSE "reporting"]
      /\ IF aborted THEN Leave(t) ELSE UNCHANGED <<tail, counters, lease>>
      /\ UNCHANGED <<aborted, named>>

(* The catch clause: the lane forgets the response the request continued or *)
(* had itself completed, and the error is sent while the connection lasts.  *)
Catch(t) ==
  LET lane == tasks[t].lane
  IN  /\ IF CachedId(lane) = tasks[t].previous
              \/ (tasks[t].completed /\ CachedId(lane) = t)
           THEN Forget(lane) ELSE UNCHANGED remembered
      /\ tasks' = [tasks EXCEPT ![t].failed = TRUE,
                                ![t].stage = IF aborted THEN "settled" ELSE "reporting"]
      /\ IF aborted THEN Leave(t) ELSE UNCHANGED <<tail, counters, lease>>
      /\ UNCHANGED <<aborted, named>>

(* A request whose turn comes after the connection was aborted.             *)
Skip(t) ==
  /\ Ready(t) /\ aborted
  /\ Move(t, "settled") /\ Leave(t)
  /\ UNCHANGED <<aborted, named, remembered>>

Start(t) ==
  /\ Ready(t) /\ ~aborted
  /\ tasks[t].previous # None =>
       /\ tasks[t].conversation = None
       /\ \E e \in history : e.id = tasks[t].previous
  /\ IF tasks[t].conversation = None THEN UNCHANGED lease
     ELSE /\ lease[tasks[t].conversation] = None
          /\ lease' = [lease EXCEPT ![tasks[t].conversation] = t]
  /\ Move(t, "streaming")
  /\ UNCHANGED <<aborted, named, tail, remembered, counters>>

(* The request is not valid, its parent is gone or of another model, or its *)
(* conversation is busy or unknown.                                         *)
Decline(t) == Ready(t) /\ ~aborted /\ Catch(t)

(* A frame that is neither terminal nor an error.                           *)
Frame(t) ==
  /\ tasks[t].stage = "streaming" /\ ~tasks[t].cut /\ ~aborted
  /\ Move(t, "writing")
  /\ UNCHANGED <<aborted, named, tail, remembered, counters, lease>>

(* The terminal frame was held back until the upstream's stream had ended;  *)
(* the response is remembered before its frame is sent.                     *)
Complete(t, bytes) ==
  /\ tasks[t].stage = "streaming" /\ ~tasks[t].cut /\ ~aborted
  /\ Remember(t, bytes)
  /\ tasks' = [tasks EXCEPT ![t].stage = "ending", ![t].completed = TRUE]
  /\ UNCHANGED <<aborted, named, tail, counters, lease>>

Incomplete(t) ==
  /\ tasks[t].stage = "streaming" /\ ~tasks[t].cut /\ ~aborted
  /\ Move(t, "ending")
  /\ UNCHANGED <<aborted, named, tail, remembered, counters, lease>>

(* An error frame of the upstream's stream ends the request without an      *)
(* exception, and the lane's response is forgotten whichever it is.         *)
ErrorFrame(t) ==
  /\ tasks[t].stage = "streaming" /\ ~tasks[t].cut /\ ~aborted
  /\ Forget(tasks[t].lane)
  /\ tasks' = [tasks EXCEPT ![t].stage = "ending", ![t].failed = TRUE]
  /\ UNCHANGED <<aborted, named, tail, counters, lease>>

(* The callback of socket.send().                                           *)
Written(t) ==
  /\ ~tasks[t].cut /\ ~aborted
  /\ \/ /\ tasks[t].stage = "writing" /\ Move(t, "streaming")
        /\ UNCHANGED <<tail, counters, lease>>
     \/ tasks[t].stage = "ending" /\ Move(t, "settled") /\ Leave(t)
  /\ UNCHANGED <<aborted, named, remembered>>

(* Mutant of Cut: the timer does not reach a write that is blocked.         *)
CutStreaming(t) ==
  /\ tasks[t].stage = "streaming" /\ ~tasks[t].cut /\ ~aborted
  /\ tasks' = [tasks EXCEPT ![t].cut = TRUE]
  /\ UNCHANGED <<aborted, named, tail, remembered, counters, lease>>

(* The timer of the request.  A write that is blocked then takes the whole  *)
(* connection with it if bytes are still buffered.                          *)
Cut(t) ==
  /\ tasks[t].stage \in {"streaming", "writing", "ending"} /\ ~tasks[t].cut /\ ~aborted
  /\ tasks' = [tasks EXCEPT ![t].cut = TRUE]
  /\ \/ UNCHANGED <<aborted, remembered>>
     \/ tasks[t].stage # "streaming" /\ Abort
  /\ UNCHANGED <<named, tail, counters, lease>>

(* The upstream or the write failed, or the signal of either was aborted.   *)
Fail(t) ==
  /\ tasks[t].stage \in {"streaming", "writing", "ending"}
  /\ Catch(t)

(* The error was written; or it was not within its five seconds, or failed, *)
(* and the connection is aborted.                                           *)
Report(t) ==
  /\ tasks[t].stage = "reporting"
  /\ Move(t, "settled") /\ Leave(t)
  /\ \/ UNCHANGED <<aborted, remembered>>
     \/ ~aborted /\ Abort
  /\ UNCHANGED named

(* The peer or the server closes, a ping is not answered, the lifetime ends *)
(* or the send buffer is full.                                              *)
Close ==
  /\ ~aborted /\ Abort
  /\ UNCHANGED <<named, tasks, tail, counters, lease>>

Drain ==
  /\ draining' = ~draining
  /\ UNCHANGED <<aborted, named, tasks, tail, remembered, pendingRequests,
                 pendingBytes, active, lease>>

Init ==
  /\ aborted = FALSE /\ named = {} /\ tasks = <<>> /\ tail = [l \in Lanes |-> None]
  /\ history = {} /\ historyBytes = 0
  /\ pendingRequests = 0 /\ pendingBytes = 0
  /\ draining = FALSE /\ active = 0
  /\ lease = [c \in Conversations |-> None]

Run(t) ==
  \/ Skip(t) \/ Start(t) \/ Decline(t)
  \/ Frame(t) \/ Incomplete(t) \/ ErrorFrame(t)
  \/ \E bytes \in HistoryBytes : Complete(t, bytes)
  \/ Written(t) \/ Cut(t) \/ Fail(t) \/ Report(t)

Next ==
  \/ \E lane \in Lanes, bytes \in MessageBytes : Refuse(lane, bytes)
  \/ \E lane \in Lanes, bytes \in MessageBytes, previous \in Ids \cup {None},
        conversation \in Conversations \cup {None} :
       Accept(lane, bytes, previous, conversation)
  \/ \E t \in Ids : Run(t)
  \/ Close
  \/ Drain

Spec == Init /\ [][Next]_vars

(* Timers fire, a signal that is aborted ends what waits for it, and a      *)
(* promise that is settled runs what was chained to it.  Nothing is assumed *)
(* of the upstream or of the peer.                                          *)
Fairness ==
  \A t \in 1 .. MaxRequests :
    /\ WF_vars(t \in Ids /\ (Skip(t) \/ Start(t) \/ Decline(t)))
    /\ WF_vars(t \in Ids /\ Cut(t))
    /\ WF_vars(t \in Ids /\ (aborted \/ tasks[t].cut) /\ Fail(t))
    /\ WF_vars(t \in Ids /\ Report(t))

FairSpec == Spec /\ Fairness

-----------------------------------------------------------------------------
(* Every accepted request, queued ones included, holds one drain slot and   *)
(* its share of the queue until it is over, however it ends, and a request  *)
(* that was turned away holds nothing: an updater that sees no active       *)
(* requests interrupts none, and the queue never fills up for good.         *)
SlotsExact ==
  LET open == In(Stages \ {"settled"})
  IN  /\ pendingRequests = Cardinality(open) /\ pendingRequests <= MaxPendingRequests
      /\ pendingBytes = Total([t \in Ids |-> tasks[t].bytes], open)
      /\ pendingBytes <= BodyLimitBytes
      /\ active = pendingRequests

(* The history is within its limit by its own count, has one response for   *)
(* each lane, and does not outlive the connection.                          *)
HistoryExact ==
  /\ historyBytes = Held(history) /\ historyBytes <= HistoryLimitBytes
  /\ \A e, f \in history : e.lane = f.lane => e = f
  /\ aborted => history = {}

(* All that the connection counts it counts exactly, from the first request *)
(* to the last one's end.                                                   *)
CountersExact == SlotsExact /\ HistoryExact

(* A lane works on one request at a time, in the order of arrival, although *)
(* its entry in the map comes and goes.                                     *)
LanesInOrder ==
  \A t \in Ids : tasks[t].stage # "queued" =>
    \A u \in 1 .. t - 1 : tasks[u].lane = tasks[t].lane => tasks[u].stage = "settled"

(* What a lane can be continued from is the last response completed in it,  *)
(* whose last frame reached the socket or may still do so, and no request   *)
(* of the lane has failed to continue it (docs/compatibility.md:210-211).   *)
HistoryIsCurrent ==
  \A e \in history :
    /\ tasks[e.id].lane = e.lane
    /\ tasks[e.id].completed /\ ~tasks[e.id].failed
    /\ \A t \in Ids : tasks[t].lane = e.lane =>
         /\ t > e.id => ~tasks[t].completed
         /\ tasks[t].previous = e.id => ~tasks[t].failed

(* A conversation is taken exactly while a request that generates in it     *)
(* runs: two lanes never generate in one conversation, and no way out of a  *)
(* request leaves its conversation busy.                                    *)
LeasesFollowRequests ==
  /\ \A c \in Conversations : lease[c] # None =>
       Running(lease[c]) /\ tasks[lease[c]].conversation = c
  /\ \A t \in In({"streaming", "writing", "ending"}) :
       tasks[t].conversation # None => lease[tasks[t].conversation] = t

(* A request that fails takes at most its own lane's response with it: the  *)
(* parent it was forked from in another lane stays.                         *)
FailureStaysInLane ==
  [][ \A t \in Ids : (~tasks[t].failed /\ tasks'[t].failed /\ ~aborted') =>
        \A e \in history : e.lane # tasks[t].lane => e \in history'
    ]_vars

(* Every accepted request is over at last and returns its slot, even if the *)
(* upstream never answers and the peer never reads, so that draining ends.  *)
EverySlotReturns ==
  \A t \in 1 .. MaxRequests :
    t \in Ids ~> (t \in Ids /\ tasks[t].stage = "settled")
=============================================================================
