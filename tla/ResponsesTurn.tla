---------------------------- MODULE ResponsesTurn ----------------------------
(***************************************************************************)
(* One turn of the Responses API from preparation to its last frame, many   *)
(* turns at a time, over the conversations and the two replay caches they   *)
(* share.  POST /v1/responses answers as JSON or as a stream of events      *)
(* (src/src/app.ts); a WebSocket request runs the same streaming function   *)
(* with a send() of its own (src/src/http/responses-websocket.ts).          *)
(*                                                                         *)
(* What is said in a turn, its input and output items, is one token: the    *)
(* request.  A document, a history and the input sent upstream are then     *)
(* sequences of requests.  The stores appear with what a turn can tell of   *)
(* them: entries may be forgotten at any time, a commit may be refused, a   *)
(* lease is exclusive.  The modules of the stores say when.                 *)
(***************************************************************************)
EXTENDS Integers, Sequences, FiniteSets, SequencesExt, Functions

CONSTANTS
  Requests, Conversations,
  Transports,           \* "json", "sse" and "ws"
  Native,               \* UPSTREAM_PROTOCOL=responses
  None,                 \* undefined
  MaxLive               \* bound: turns under way at a time

ASSUME TurnAssumption ==
  /\ Transports \subseteq {"json", "sse", "ws"}
  /\ Native \in BOOLEAN
  /\ MaxLive \in Nat \ {0}
  /\ None \notin Requests \cup Conversations \cup Seq(Requests)

VARIABLES
  turns,                \* the handler of each request, None before it begins
  documents,            \* the conversations, None once deleted or expired
  lease,                \* the request that has begun a turn of each
  references,           \* requests whose output items can be referred to
  histories             \* the histories kept under the response of a request

vars == <<turns, documents, lease, references, histories>>

(* waiting:   awaits the upstream                                           *)
(* writing:   awaits the write of a frame                                   *)
(* ending:    awaits the write of its last frame                            *)
(* reporting: awaits the write of its error                                 *)
Stages == {"waiting", "writing", "ending", "reporting", "done"}

Ends == {"none", "completed", "incomplete", "error"}

(* input is what preparation found of earlier turns, terminal the last      *)
(* frame held back, gone says that the connection to the client is lost.    *)
(* Not in the code: context, everything said before; told, how the answer   *)
(* ended for the client; kept, where the turn has been written.             *)
Turn == [via : Transports, conversation : Conversations \cup {None},
         input : Seq(Requests), context : Seq(Requests),
         historyComplete : BOOLEAN, stage : Stages, terminal : Ends,
         aborted : BOOLEAN, gone : BOOLEAN, told : Ends,
         kept : SUBSET {"conversation", "references", "history"}]

ASSUME NoneAssumption == None \notin Turn

Begun == {r \in Requests : turns[r] # None}

Live == {r \in Begun : turns[r].stage # "done"}

(* What a client may continue: it was not told of an error, but perhaps of  *)
(* no end at all.                                                           *)
Answered ==
  {r \in Begun : turns[r].stage \in {"ending", "done"} /\ turns[r].told # "error"}

(* The handler has returned and its locals are gone.                        *)
Done(turn, told) ==
  [turn EXCEPT !.stage = "done", !.told = told, !.input = <<>>, !.terminal = "none",
               !.aborted = FALSE, !.gone = FALSE]

Released(r) == [c \in Conversations |-> IF lease[c] = r THEN None ELSE lease[c]]

-----------------------------------------------------------------------------
(* prepareResponsesRequest()                                                *)

New(via, c, input, context, complete, stage, told) ==
  [via |-> via, conversation |-> c, input |-> input, context |-> context,
   historyComplete |-> complete, stage |-> stage, terminal |-> "none",
   aborted |-> FALSE, gone |-> FALSE, told |-> told, kept |-> {}]

(* The turn of a conversation, or the continuation p of a response.  A      *)
(* history that is not held is left to an upstream that may know it; a      *)
(* WebSocket looks for p on its own connection and has it in its input.     *)
Begin(r, via, c, p) ==
  LET held  == p # None /\ histories[p] # None
      input == IF c # None THEN documents[c] ELSE IF held THEN histories[p] ELSE <<>>
      context == IF p = None THEN input ELSE Append(turns[p].context, p)
  IN  /\ turns[r] = None
      /\ c # None => p = None /\ lease[c] = None /\ documents[c] # None
      /\ p # None => via # "ws" /\ (held \/ Native)
      /\ turns' = [turns EXCEPT ![r] =
                     New(via, c, input, context, p = None \/ held, "waiting", "none")]
      /\ lease' = [d \in Conversations |-> IF d = c THEN r ELSE lease[d]]
      /\ UNCHANGED <<documents, references, histories>>

(* Mutant of Refuse: the lease taken before the error is not given back.    *)
RefuseLeased(r, via, c) ==
  /\ turns[r] = None
  /\ turns' = [turns EXCEPT ![r] = New(via, c, <<>>, <<>>, TRUE, "done", "error")]
  /\ lease' = [d \in Conversations |-> IF d = c /\ lease[d] = None THEN r ELSE lease[d]]
  /\ UNCHANGED <<documents, references, histories>>

(* The request is not valid, or too large once expanded, its conversation   *)
(* is busy or unknown, a history or an item it refers to is not held, or    *)
(* web search is not available.                                             *)
Refuse(r, via, c) ==
  /\ turns[r] = None
  /\ turns' = [turns EXCEPT ![r] = New(via, c, <<>>, <<>>, TRUE, "done", "error")]
  /\ UNCHANGED <<documents, lease, references, histories>>

-----------------------------------------------------------------------------
(* The catch and finally clauses.                                           *)

(* A turn that failed becomes this: an error remains to be written, unless  *)
(* the connection is lost or the reply can still be a plain one, which is   *)
(* not waited for.                                                          *)
Failed(turn, plain) ==
  IF turn.gone THEN Done(turn, "none")
  ELSE IF plain THEN Done(turn, "error")
  ELSE [turn EXCEPT !.aborted = TRUE, !.stage = "reporting"]

(* A stream's reply is plain as long as neither a frame nor a heartbeat has *)
(* sent the headers.                                                        *)
Catch(r, turn) ==
  \E plain \in BOOLEAN :
    /\ turn.via = "json" => plain
    /\ turn.via = "ws" => ~plain
    /\ turns' = [turns EXCEPT ![r] = Failed(turn, plain)]
    /\ lease' = IF Failed(turn, plain).stage = "done" THEN Released(r) ELSE lease

(* Events of the upstream that are passed on as they come.                  *)
Frame(r) ==
  /\ turns[r].stage = "waiting" /\ ~turns[r].aborted /\ turns[r].via # "json"
  /\ turns' = [turns EXCEPT ![r].stage = "writing"]
  /\ UNCHANGED <<documents, lease, references, histories>>

(* The terminal event is held back: the stream may still turn out broken.   *)
Terminal(r, kind) ==
  /\ turns[r].stage = "waiting" /\ ~turns[r].aborted /\ turns[r].via # "json"
  /\ turns[r].terminal = "none"
  /\ turns' = [turns EXCEPT ![r].terminal = kind]
  /\ UNCHANGED <<documents, lease, references, histories>>

(* An error event of the upstream is passed on and ends the turn.           *)
ErrorEvent(r) ==
  /\ turns[r].stage = "waiting" /\ ~turns[r].aborted /\ turns[r].via # "json"
  /\ turns' = [turns EXCEPT ![r].stage = "ending", ![r].terminal = "error"]
  /\ UNCHANGED <<documents, lease, references, histories>>

-----------------------------------------------------------------------------
(* The end of the upstream's answer.                                        *)

(* Mutant of Due: a history is kept although its beginning is unknown.      *)
DueAlways(turn) ==
  {"references"}
    \cup (IF turn.conversation # None THEN {"conversation"} ELSE {})
    \cup (IF turn.via # "ws" THEN {"history"} ELSE {})

(* Where a completed turn belongs.                                          *)
Due(turn) ==
  {"references"}
    \cup (IF turn.conversation # None THEN {"conversation"} ELSE {})
    \cup (IF turn.via # "ws" /\ turn.historyComplete THEN {"history"} ELSE {})

(* rememberResponse(): the conversation first, for its commit may fail.     *)
Keep(r, turn) ==
  /\ documents' = IF turn.conversation = None THEN documents
                  ELSE [documents EXCEPT ![turn.conversation] = Append(turn.input, r)]
  /\ references' = references \cup {r}
  /\ histories' = IF "history" \in Due(turn)
                    THEN [histories EXCEPT ![r] = Append(turn.input, r)] ELSE histories

(* Mutant of Overflow: the items are remembered before the commit is tried. *)
OverflowLate(r) ==
  LET turn == turns[r]
  IN  /\ turn.conversation # None
      /\ references' = references \cup {r}
      /\ Catch(r, [turn EXCEPT !.kept = {"references"}])
      /\ UNCHANGED <<documents, histories>>

(* The commit is refused.  Over WebSocket it is part of sending the last    *)
(* frame, which comes after the output items were remembered.               *)
Overflow(r) ==
  LET turn == turns[r]
      kept == IF turn.via = "ws" THEN {"references"} ELSE {}
  IN  /\ turn.conversation # None
      /\ references' = IF turn.via = "ws" THEN references \cup {r} ELSE references
      /\ Catch(r, [turn EXCEPT !.kept = kept])
      /\ UNCHANGED <<documents, histories>>

(* The turn once its last frame, or its reply, is on the way.               *)
Concluded(turn, kind) ==
  LET kept == IF kind = "completed" THEN Due(turn) ELSE {}
  IN IF turn.via = "json"
       THEN Done([turn EXCEPT !.kept = kept], kind)
       ELSE [turn EXCEPT !.stage = "ending", !.kept = kept]

(* The upstream's stream has ended, or its JSON answer has come, and the    *)
(* signal is looked at for the last time.                                   *)
Finish(r, kind) ==
  LET turn == turns[r]
  IN  /\ turn.stage = "waiting" /\ ~turn.aborted
      /\ turn.via # "json" => turn.terminal = kind
      /\ \/ /\ turns' = [turns EXCEPT ![r] = Concluded(turn, kind)]
            /\ IF kind = "completed" THEN Keep(r, turn)
               ELSE UNCHANGED <<documents, references, histories>>
            /\ lease' = IF turn.via = "json" THEN Released(r) ELSE lease
         \/ kind = "completed" /\ Overflow(r)

-----------------------------------------------------------------------------
(* Writes, aborts and errors.                                               *)

(* A frame was written; the last one ends the turn.                         *)
Written(r) ==
  /\ turns[r].stage \in {"writing", "ending"} /\ ~turns[r].aborted
  /\ IF turns[r].stage = "writing"
       THEN turns' = [turns EXCEPT ![r].stage = "waiting"] /\ UNCHANGED lease
       ELSE /\ turns' = [turns EXCEPT ![r] = Done(@, @.terminal)]
            /\ lease' = Released(r)
  /\ UNCHANGED <<documents, references, histories>>

(* Mutant of Abort: a write that is blocked is left alone.                  *)
AbortSoftly(r) ==
  /\ r \in Live /\ ~turns[r].aborted
  /\ \E gone \in BOOLEAN :
       turns' = [turns EXCEPT ![r].aborted = TRUE, ![r].gone = gone]
  /\ UNCHANGED <<documents, lease, references, histories>>

(* The client disconnects, a timer fires or the server shuts down.  While a *)
(* write is pending its bytes are still buffered, and either transport then *)
(* destroys the connection rather than wait for the peer.                   *)
Abort(r) ==
  /\ r \in Live /\ ~turns[r].aborted
  /\ \E gone \in BOOLEAN :
       /\ turns[r].stage \in {"writing", "ending"} => gone
       /\ turns' = [turns EXCEPT ![r].aborted = TRUE, ![r].gone = gone]
  /\ UNCHANGED <<documents, lease, references, histories>>

(* The upstream failed, its stream was broken or had no end, the signal was *)
(* aborted, or the connection was lost under a write.                       *)
Fail(r) ==
  /\ turns[r].stage = "waiting" \/ (turns[r].stage \in {"writing", "ending"} /\ turns[r].gone)
  /\ Catch(r, turns[r])
  /\ UNCHANGED <<documents, references, histories>>

(* The error was written, or the connection was lost over it.               *)
Report(r) ==
  /\ turns[r].stage = "reporting"
  /\ \E told \in {"error", "none"} :
       turns' = [turns EXCEPT ![r] = Done(@, told)]
  /\ lease' = Released(r)
  /\ UNCHANGED <<documents, references, histories>>

(* Expiry, eviction and deletion.                                           *)
Forget ==
  /\ \/ /\ \E r \in references : references' = references \ {r}
        /\ UNCHANGED <<documents, histories>>
     \/ /\ \E r \in Requests : histories[r] # None /\ histories' = [histories EXCEPT ![r] = None]
        /\ UNCHANGED <<documents, references>>
     \/ /\ \E c \in Conversations : /\ documents[c] # None /\ lease[c] = None
                                    /\ documents' = [documents EXCEPT ![c] = None]
        /\ UNCHANGED <<references, histories>>
  /\ UNCHANGED <<turns, lease>>

Init ==
  /\ turns = [r \in Requests |-> None]
  /\ documents = [c \in Conversations |-> <<>>] /\ lease = [c \in Conversations |-> None]
  /\ references = {} /\ histories = [r \in Requests |-> None]

Open(r) ==
  /\ Cardinality(Live) < MaxLive
  /\ \E via \in Transports, c \in Conversations \cup {None} :
       \/ Refuse(r, via, c)
       \/ \E p \in Answered \cup {None} : Begin(r, via, c, p)

Run(r) ==
  \/ Frame(r) \/ ErrorEvent(r) \/ Written(r) \/ Abort(r) \/ Fail(r) \/ Report(r)
  \/ \E kind \in {"completed", "incomplete"} : Terminal(r, kind) \/ Finish(r, kind)

Next ==
  \/ \E r \in Requests : Open(r)
  \/ \E r \in Live : Run(r)
  \/ Forget

Spec == Init /\ [][Next]_vars

(* The request's timer fires, an aborted signal or a destroyed connection   *)
(* ends what waits for it, and an error is written or given up.             *)
Fairness ==
  \A r \in Requests :
    /\ WF_vars(r \in Live /\ Abort(r))
    /\ WF_vars(r \in Live /\ turns[r].aborted /\ Fail(r))
    /\ WF_vars(r \in Live /\ Report(r))

FairSpec == Spec /\ Fairness

-----------------------------------------------------------------------------
(* Every variable has its type.                                             *)
TypeOK ==
  /\ turns \in [Requests -> Turn \cup {None}]
  /\ documents \in [Conversations -> Seq(Requests) \cup {None}]
  /\ lease \in [Conversations -> Requests \cup {None}]
  /\ references \subseteq Requests
  /\ histories \in [Requests -> Seq(Requests) \cup {None}]

(* What is kept under a response is the whole of what was said up to it,    *)
(* from the first turn on, however many continuations and lost histories    *)
(* lie between: a history whose beginning only the upstream knows is never  *)
(* kept, nor that of a response continued from it.                          *)
HistoryWhole ==
  \A r \in Requests : histories[r] # None => histories[r] = Append(turns[r].context, r)

(* A turn that ended in an error is in no conversation and in no history,   *)
(* and over HTTP nothing can refer to its items either.                     *)
FailureLeavesNoTrace ==
  \A r \in Begun : turns[r].told = "error" =>
    /\ \A c \in Conversations : documents[c] # None => r \notin Range(documents[c])
    /\ histories[r] = None
    /\ turns[r].via # "ws" => r \notin references

(* A turn the client saw completed has been written everywhere it belongs,  *)
(* one it saw incomplete nowhere; over HTTP no turn is written in one place *)
(* and not in another; and one that failed leaves no trace.                 *)
WholeOrNothing ==
  /\ \A r \in Begun :
       /\ turns[r].told = "completed" => turns[r].kept = Due(turns[r])
       /\ turns[r].told = "incomplete" => turns[r].kept = {}
       /\ turns[r].via # "ws" => turns[r].kept \in {{}, Due(turns[r])}
  /\ FailureLeavesNoTrace

(* A conversation is taken exactly while a turn of it is under way, and     *)
(* holds what that turn began with until the turn itself is written.        *)
LeaseFollowsTurn ==
  \A c \in Conversations :
    LET holders == {r \in Live : turns[r].conversation = c}
    IN  /\ \A r \in Requests : lease[c] = r <=> r \in holders
        /\ \A r \in holders :
             documents[c] = IF "conversation" \in turns[r].kept
                              THEN Append(turns[r].input, r) ELSE turns[r].input

(* The output items of a response are remembered for references only if the *)
(* response succeeded: one that failed is not written                       *)
(* (docs/compatibility.md:123).                                             *)
ReferencesOfSuccesses == \A r \in references : turns[r].told # "error"

(* Every turn that has begun comes to its end, whatever the upstream and    *)
(* the client do or fail to do.                                             *)
EveryTurnEnds ==
  \A r \in Requests : r \in Begun ~> (r \in Begun /\ turns[r].stage = "done")
=============================================================================
