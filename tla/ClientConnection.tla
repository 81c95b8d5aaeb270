--------------------------- MODULE ClientConnection ---------------------------
(***************************************************************************)
(* The connection to a streaming client: ClientSseSender                    *)
(* (src/src/http/sse.ts) writes frames, heartbeats and the error, the abort *)
(* scope of the request (src/src/http/abort.ts) cancels it together with    *)
(* the upstream's round (UpstreamConnection), and for a Messages client     *)
(* PingedIterator (src/src/stream/ping.ts) puts pings between slow events.  *)
(* The upstream may stay silent for ever, and the client may never read     *)
(* again.                                                                   *)
(*                                                                         *)
(* A step runs up to the next await or timer.  An event is a number and one *)
(* frame.                                                                   *)
(***************************************************************************)
EXTENDS UpstreamConnection, Ledgers

VARIABLES
  pinged,               \* events pass through PingedIterator
  conn,                 \* the client's connection and the sender on it
  handler,              \* what it awaits, and the frame it has in hand
  written               \* the events written to the client

vars == <<upstream, reader, pinged, conn, handler, written>>

(* The phases of the handler:                                               *)
(* next:    is about to ask for an event                                    *)
(* taking:  awaits an event                                                 *)
(* sending: has a frame to send                                             *)
(* writing: awaits the client's reading of it                               *)
(* failing: has caught an error                                             *)
(* reporting: awaits the client's reading of the error                      *)

(* The frame that is not an event.                                          *)
Ping == 0

(* buffer is what the socket has not got rid of: a write into it waits for  *)
(* drain.  heartbeat says that the timer of the sender runs.                *)
NewConnection ==
  [open |-> TRUE, buffer |-> <<>>, headers |-> FALSE, aborted |-> FALSE,
   disposed |-> FALSE, heartbeat |-> TRUE]

Blocked(c) == c.buffer # <<>>

(* A write that goes out at once or stays in the buffer.                    *)
Writes(c, what) ==
  {[c EXCEPT !.headers = TRUE, !.buffer = Append(@, what)]}
    \cup IF Blocked(c) THEN {} ELSE {[c EXCEPT !.headers = TRUE]}

(* #resetHeartbeat()                                                        *)
ResetHeartbeat(c) == [c EXCEPT !.heartbeat = ~c.disposed /\ ~c.aborted]

(* dispose()                                                                *)
Dispose(c) == [c EXCEPT !.disposed = TRUE, !.heartbeat = FALSE]

(* #destroyConnection()                                                     *)
Destroy(c) == [Dispose(c) EXCEPT !.open = FALSE]

(* #onAbort(): a connection that is blocked is given up.                    *)
OnAbort(c, writing) ==
  IF c.disposed THEN c
  ELSE IF writing \/ Blocked(c) THEN Destroy(c) ELSE [c EXCEPT !.heartbeat = FALSE]

Abort(c, writing) == [(IF c.aborted THEN c ELSE OnAbort(c, writing)) EXCEPT !.aborted = TRUE]

(* The scope's signal reaches the connection and the round.                 *)
AbortRequest ==
  /\ conn' = Abort(conn, handler.phase = "writing")
  /\ upstream' = AbortRound(upstream)

(* The handler returns; what it leaves of the iterator is closed.           *)
Leave(c) ==
  /\ conn' = Dispose(c)
  /\ handler' = [phase |-> "over", frame |-> Ping]
  /\ reader' = [reader EXCEPT !.timer = FALSE]

-----------------------------------------------------------------------------
(* PingedIterator.                                                          *)

(* Mutant of StartRead: a read is started for every next().                 *)
StartReadAgain(r) == [r EXCEPT !.reads = @ + 1]

(* #startRead(): an event that is ready does not keep it from the next.     *)
StartRead(r) == IF r.reads > 0 THEN r ELSE [r EXCEPT !.reads = 1]

Available(r) == r.error \/ r.ready # <<>> \/ r.due

(* The loop of next(): an error, then an event, then a ping.                *)
TakeFrom(r) ==
  CASE r.error ->
         /\ handler' = [handler EXCEPT !.phase = "failing"]
         /\ reader' = r /\ UNCHANGED conn
    [] ~r.error /\ r.ready = <<End>> -> Leave(conn)
    [] ~r.error /\ r.ready \notin {<<>>, <<End>>} ->
         /\ handler' = [phase |-> "sending", frame |-> Head(r.ready)]
         /\ reader' = [r EXCEPT !.ready = <<>>] /\ UNCHANGED conn
    [] ~r.error /\ r.ready = <<>> /\ r.due ->
         /\ handler' = [phase |-> "sending", frame |-> Ping]
         /\ reader' = [r EXCEPT !.due = FALSE] /\ UNCHANGED conn

(* The handler asks for an event.  One that came while a ping was written   *)
(* is taken at once, and the next read has begun.                           *)
Ask ==
  /\ handler.phase = "next"
  /\ LET r == StartRead(reader)
     IN IF Available(r) THEN TakeFrom(r)
        ELSE /\ handler' = [handler EXCEPT !.phase = "taking"]
             /\ reader' = r /\ UNCHANGED conn
  /\ UNCHANGED <<upstream, pinged, written>>

Take ==
  /\ handler.phase = "taking" /\ Available(reader)
  /\ TakeFrom(reader)
  /\ UNCHANGED <<upstream, pinged, written>>

(* #resetTimer() runs out.                                                  *)
PingTimer ==
  /\ reader.timer
  /\ reader' = [reader EXCEPT !.timer = FALSE, !.due = reader.started]
  /\ UNCHANGED <<upstream, pinged, conn, handler, written>>

(* markClientWrite()                                                        *)
MarkClientWrite(r) ==
  IF pinged THEN [r EXCEPT !.started = TRUE, !.due = FALSE, !.timer = TRUE] ELSE r

-----------------------------------------------------------------------------
(* ClientSseSender.                                                         *)

(* A frame has been sent.  A ping does not count as data.                   *)
Sent(c) ==
  /\ conn' = IF handler.frame = Ping THEN c ELSE ResetHeartbeat(c)
  /\ handler' = [phase |-> "next", frame |-> Ping]
  /\ reader' = MarkClientWrite(reader)

(* send() and #sendFrame(), up to the wait for the client.                  *)
Send ==
  /\ handler.phase = "sending"
  /\ IF conn.aborted \/ ~conn.open
       THEN /\ handler' = [handler EXCEPT !.phase = "failing"]
            /\ UNCHANGED <<conn, reader, written>>
       ELSE /\ written' = IF handler.frame = Ping THEN written ELSE Append(written, handler.frame)
            /\ \E c \in Writes(conn, "frame") :
                 IF ~Blocked(c) THEN Sent(c)
                 ELSE /\ conn' = c
                      /\ handler' = [handler EXCEPT !.phase = "writing"]
                      /\ UNCHANGED reader
  /\ UNCHANGED <<upstream, pinged>>

(* The client reads all there is.                                           *)
Drain ==
  /\ conn.open /\ Blocked(conn)
  /\ LET drained == [conn EXCEPT !.buffer = <<>>]
     IN CASE handler.phase = "writing"   -> Sent(drained)
          [] handler.phase = "reporting" -> Leave(drained)
          [] OTHER -> conn' = drained /\ UNCHANGED <<handler, reader>>
  /\ UNCHANGED <<upstream, pinged, written>>

(* Mutant of MayBeat: a blocked connection gets heartbeats, too.            *)
MayBeatBlocked == handler.phase # "writing"

MayBeat == ~Blocked(conn) /\ handler.phase # "writing"

(* The timer of #resetHeartbeat() runs out.                                 *)
Heartbeat ==
  /\ conn.heartbeat
  /\ IF ~conn.open \/ conn.aborted THEN conn' = [conn EXCEPT !.heartbeat = FALSE]
     ELSE IF MayBeat THEN \E c \in Writes(conn, "heartbeat") : conn' = ResetHeartbeat(c)
     ELSE conn' = ResetHeartbeat(conn)
  /\ UNCHANGED <<upstream, pinged, handler, reader, written>>

(* A write that waits is released when the connection is given up.          *)
Release(c) ==
  handler' = IF handler.phase = "writing" /\ ~c.open
               THEN [handler EXCEPT !.phase = "failing"] ELSE handler

(* The request has taken too long, or the server shuts down.                *)
Timeout ==
  /\ handler.phase # "over" /\ ~conn.aborted
  /\ AbortRequest /\ Release(conn')
  /\ UNCHANGED <<pinged, reader, written>>

(* The client is gone.                                                      *)
Disconnect ==
  /\ handler.phase # "over" /\ conn.open
  /\ conn' = [Destroy(conn) EXCEPT !.aborted = TRUE]
  /\ upstream' = AbortRound(upstream)
  /\ Release(conn')
  /\ UNCHANGED <<pinged, reader, written>>

(* The upstream's timers: the client may be reading a ping.                 *)
StallRequest ==
  /\ Stall
  /\ conn' = Abort(conn, handler.phase = "writing")
  /\ Release(conn')
  /\ UNCHANGED <<pinged, written>>

(* Mutant of ErrorWritten: the error waits for the client like any frame.   *)
ErrorWrittenPatiently(c) ==
  IF Blocked(c)
    THEN conn' = c /\ handler' = [phase |-> "reporting", frame |-> Ping] /\ UNCHANGED reader
  ELSE Leave(c)

(* #sendFrame() of the error, when the request is aborted: nobody would end *)
(* a wait for the client.                                                   *)
ErrorWritten(c) == Leave(IF Blocked(c) THEN Destroy(c) ELSE c)

(* The handler's catch: the request is aborted.                             *)
(* The generators are told to return, which takes effect when they next     *)
(* stop.  The client is told by a reply, by the error frame of sendError(), *)
(* or by the connection's end.                                              *)
Fail ==
  LET c == Abort(conn, FALSE)
      u == IF reader.reads = 0 THEN Closed(upstream) ELSE upstream
  IN  /\ handler.phase = "failing"
      /\ IF ~c.headers \/ ~c.open THEN Leave(c)
         ELSE IF Blocked(c) THEN Leave(Destroy(c))
         ELSE \E d \in Writes([c EXCEPT !.heartbeat = FALSE], "error") : ErrorWritten(d)
      /\ upstream' = IF c.aborted THEN AbortRound(u) ELSE u
      /\ UNCHANGED <<pinged, written>>

-----------------------------------------------------------------------------
Init ==
  /\ pinged \in BOOLEAN
  /\ \E text \in Texts : upstream = NewUpstream(text)
  /\ reader = NewReader /\ conn = NewConnection
  /\ handler = [phase |-> "next", frame |-> Ping] /\ written = <<>>

Proceed == Ask \/ Take \/ Send \/ Fail

Round ==
  /\ Post \/ Respond \/ Receive \/ Parse \/ Done \/ Break \/ Exhausted
  /\ UNCHANGED <<pinged, conn, handler, written>>

Next ==
  \/ Proceed \/ Round \/ StallRequest \/ PingTimer \/ Drain \/ Heartbeat
  \/ Timeout \/ Disconnect

Spec == Init /\ [][Next]_vars

(* The handler goes on, the total timeout runs out, and so does what is     *)
(* left of an aborted round.  Nothing is asked of the client or the         *)
(* upstream.                                                                *)
FairSpec ==
  /\ Spec /\ WF_vars(Proceed) /\ WF_vars(Timeout)
  /\ WF_vars(upstream.aborted /\ Round)

-----------------------------------------------------------------------------
(* Nothing of the upstream's is lost, repeated or overtaken between the     *)
(* iterator and the client, whenever pings become due: what was produced is *)
(* written, in the handler's hand or ready, in this order.                  *)
NothingLost ==
  LET hand == IF handler.phase = "sending" /\ handler.frame # Ping THEN <<handler.frame>> ELSE <<>>
      ready == IF reader.ready = <<End>> THEN <<>> ELSE reader.ready
  IN handler.phase \notin {"failing", "over"} =>
       written \o hand \o ready = [i \in 1 .. Len(upstream.events) |-> i]

(* Heartbeats do not pile up: a client that has stopped reading holds up no *)
(* more than one frame, with one heartbeat before it.                       *)
HeartbeatBounded ==
  /\ Len(conn.buffer) <= 2
  /\ \A i \in DOMAIN conn.buffer : conn.buffer[i] = "heartbeat" => i = 1

(* However its bytes were cut into chunks, the events passed on are those   *)
(* of the upstream's text, in order, and all that are complete; a frame     *)
(* that is too large is none of them, and nothing is refused whose bytes,   *)
(* with what there is yet of the boundary after it, are within the limit.   *)
EventsAsSent ==
  LET events == ParsedUpTo[upstream.text][upstream.sent].events
      largest == ParsedUpTo[upstream.text][upstream.sent].largest
  IN  /\ IsPrefix(upstream.events, events)
      /\ upstream.phase = "reading" \/ upstream.ended => upstream.events = events
      /\ largest > MaxFrame => upstream.phase \in {"parsing", "over"}
      /\ upstream.refused => largest + Len(upstream.partial) > MaxFrame

(* What the first so many events say of an item.                            *)
TextOfItem(events, item, n) ==
  FlattenSeq([k \in 1 .. n |-> IF ItemOf(events[k]) = item THEN TextOf(events[k]) ELSE <<>>])

(* The bytes counted of each item and of the answer are those of the texts  *)
(* that were passed on, wherever surrogate pairs were cut and whatever item *)
(* came in between; they are within the limits, and only an answer that is  *)
(* not is refused.                                                          *)
LimitsExact ==
  LET events == ParsedUpTo[upstream.text][upstream.sent].events
      passed == Len(upstream.events)
      Length(item, n) == Utf8Length(TextOfItem(events, item, n))
      Fits(n) ==
        /\ \A item \in Items : Length(item, n) <= MaxItemBytes
        /\ Total([item \in Items |-> Length(item, n)], Items) <= MaxStreamBytes
  IN  /\ \A item \in Items : Counts(upstream.output, item, TextOfItem(events, item, passed))
      /\ upstream.output.stream = Total(upstream.output.bytes, Items)
      /\ Fits(passed)
      /\ upstream.overlong => ~Fits(passed + 1)

(* An answer ends well only if the upstream has closed its stream: that the *)
(* request was aborted, which ends the reading of it in just the same way,  *)
(* is never taken for the end of the answer.                                *)
EndIsTheUpstreams ==
  upstream.ended \/ (reader.ready = <<End>> /\ ~reader.error) => upstream.link = "eof"

(* Nothing is left of a request that is over or was aborted: no timer of    *)
(* its own and no connection to the upstream, wherever the generators stood *)
(* when it ended.                                                           *)
NothingLeftBehind ==
  /\ handler.phase = "over" => ~conn.heartbeat /\ ~reader.timer
  /\ conn.aborted => ~conn.heartbeat
  /\ handler.phase = "over" \/ conn.aborted => ~Linked

(* Every handler returns, whether the upstream answers and the client reads *)
(* or not (docs/compatibility.md:354): no write waits for ever for a client *)
(* that has stopped reading.                                                *)
HandlerReturns == <>(handler.phase = "over")
=============================================================================
