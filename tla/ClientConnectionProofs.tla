------------------------- MODULE ClientConnectionProofs -------------------------
(***************************************************************************)
(* Proofs that a streaming client is sent every event once and in order,    *)
(* that it is never told an end the upstream did not have, that heartbeats  *)
(* do not pile up and that nothing is left of a request that is over, for   *)
(* every text of an upstream and however its bytes, the timers, the client  *)
(* and the handler take turns; then, that the events are those of the text  *)
(* wherever its bytes were cut, and that their bytes are counted exactly.   *)
(***************************************************************************)
EXTENDS ClientConnection, LedgersProofs, SequenceTheorems, TLAPS

(* What the parser holds matters to none of it but that a round stays one:  *)
(* the record's other fields are those of NewUpstream().                    *)
Fields ==
  {"text", "sent", "link", "phase", "aborted", "buffer", "partial", "buffered", "events",
   "output", "ended", "refused", "overlong"}

IsRound(u) ==
  /\ u = [field \in Fields |-> u[field]]
  /\ u.link \in {"none", "asked", "open", "eof", "cut"}
  /\ u.phase \in {"new", "asking", "reading", "parsing", "over"}
  /\ u.aborted \in BOOLEAN /\ u.ended \in BOOLEAN
  /\ \E S : u.events \in Seq(S)

Ready == {<<>>} \cup {<<event>> : event \in Nat \cup {End}}

Readers ==
  reader \in [reads : {0, 1}, ready : Ready, error : BOOLEAN, started : BOOLEAN,
              due : BOOLEAN, timer : BOOLEAN]

(* What a client that does not read can hold up.                            *)
Waitings ==
  {<<>>, <<"heartbeat">>, <<"frame">>, <<"heartbeat", "frame">>, <<"error">>}

Senders ==
  /\ pinged \in BOOLEAN
  /\ conn \in [open : BOOLEAN, buffer : Waitings, headers : BOOLEAN, aborted : BOOLEAN,
               disposed : BOOLEAN, heartbeat : BOOLEAN]
  /\ handler \in [phase : {"next", "taking", "sending", "writing", "failing", "over"},
                  frame : Nat]
  /\ written \in Seq(Nat)

Types == IsRound(upstream) /\ Readers /\ Senders

(* The handler still serves the client.                                     *)
Serving == handler.phase \notin {"failing", "over"}

(* A frame is written only when the one before it has left the buffer, and  *)
(* heartbeats only into an empty one.                                       *)
Buffered == handler.phase \in {"next", "taking", "sending"} => conn.buffer \in {<<>>, <<"heartbeat">>}

(* The timers run only for a request that is not over.                      *)
Timers ==
  /\ conn.disposed \/ conn.aborted => ~conn.heartbeat
  /\ handler.phase = "over" => conn.disposed /\ ~reader.timer

(* A round that was given up has lost its connection, and a generator that  *)
(* is over has either seen the upstream's end or raised an error, unless    *)
(* nobody asks it any more.                                                 *)
GivenUp ==
  /\ conn.aborted => upstream.aborted
  /\ upstream.aborted => ~Linked
  /\ handler.phase = "over" => conn.aborted \/ upstream.ended

Ended ==
  /\ upstream.phase \in {"reading", "parsing"} /\ ~upstream.aborted => upstream.link = "open"
  /\ upstream.ended => upstream.phase = "over" /\ upstream.link = "eof"
  /\ upstream.phase = "over" =>
       \/ upstream.ended \/ reader.error
       \/ handler.phase = "over" /\ reader.reads = 0
  /\ reader.ready = <<End>> => upstream.ended \/ reader.error

(* Between the parser and the client there is room for one event that is    *)
(* ready and one in the handler's hand.                                     *)
InHand == IF handler.phase = "sending" /\ handler.frame # Ping THEN 1 ELSE 0

IsReady == IF reader.ready \in {<<>>, <<End>>} THEN 0 ELSE 1

Passed ==
  Serving =>
    /\ Len(upstream.events) = Len(written) + InHand + IsReady
    /\ \A i \in 1 .. Len(written) : written[i] = i
    /\ InHand = 1 => handler.frame = Len(written) + 1
    /\ IsReady = 1 => reader.ready = <<Len(upstream.events)>>

(* A read under way has not brought anything yet.                           *)
Reading == Serving /\ reader.reads > 0 => reader.ready = <<>> /\ ~reader.error

IInv == Types /\ Buffered /\ Timers /\ GivenUp /\ Ended /\ Passed /\ Reading

-----------------------------------------------------------------------------
(* The round.                                                               *)

LEMMA ClosedRound ==
  ASSUME NEW u, IsRound(u)
  PROVE  /\ IsRound(AbortRound(u)) /\ IsRound(Closed(u))
         /\ AbortRound(u).aborted /\ Closed(u).aborted
         /\ AbortRound(u).link = (IF u.link \in {"asked", "open"} THEN "cut" ELSE u.link)
         /\ Closed(u).link = AbortRound(u).link
         /\ AbortRound(u).phase = u.phase /\ Closed(u).phase = "over"
         /\ AbortRound(u).ended = u.ended /\ Closed(u).ended = u.ended
         /\ AbortRound(u).events = u.events /\ Closed(u).events = u.events
BY DEF IsRound, AbortRound, Closed, Fields

(* Some fields of a round that no property is about.                        *)
LEMMA SameRound ==
  ASSUME NEW u, IsRound(u), NEW v, v = [field \in Fields |-> v[field]],
         v.link = u.link, v.phase = u.phase, v.aborted = u.aborted, v.ended = u.ended,
         v.events = u.events
  PROVE  IsRound(v)
BY DEF IsRound

(* What ends the read under way.                                            *)
LEMMA RaisedRead ==
  ASSUME Readers, reader.reads > 0, Raises
  PROVE  /\ Readers' /\ reader'.reads = 0 /\ reader'.error
         /\ reader'.ready = reader.ready /\ reader'.timer = reader.timer
<1>1. reader.reads - 1 = 0
  BY DEF Readers
<1>2. reader' = [reader EXCEPT !.reads = 0, !.error = TRUE]
  BY <1>1, Zenon DEF Raises
<1> QED BY <1>2 DEF Readers

LEMMA YieldedRead ==
  ASSUME Readers, reader.reads > 0, NEW event \in Nat \cup {End}, Yields(event)
  PROVE  /\ Readers' /\ reader'.reads = 0 /\ reader'.error = reader.error
         /\ reader'.ready = <<event>> /\ reader'.timer = reader.timer
<1>1. reader.reads - 1 = 0
  BY DEF Readers
<1>2. reader' = [reader EXCEPT !.reads = 0, !.ready = <<event>>]
  BY <1>1, Zenon DEF Yields
<1>3. <<event>> \in Ready
  BY DEF Ready
<1> QED BY <1>2, <1>3 DEF Readers

LEMMA ThrowKeeps ==
  ASSUME IInv, reader.reads > 0, upstream.phase # "over",
         NEW u, IsRound(u), u.events = upstream.events, u.ended = upstream.ended, Throw(u),
         UNCHANGED <<pinged, conn, handler, written>>
  PROVE  IInv'
<1>1. /\ IsRound(upstream)' /\ upstream'.aborted /\ upstream'.phase = "over" /\ ~Linked'
      /\ ~upstream.ended /\ ~upstream'.ended /\ upstream'.events = upstream.events
  BY ClosedRound DEF Throw, IInv, Types, Ended, Linked
<1>2. /\ Readers' /\ reader'.reads = 0 /\ reader'.error
      /\ reader'.ready = reader.ready /\ reader'.timer = reader.timer
  BY RaisedRead DEF Throw, IInv, Types
<1>4. Types'
  BY <1>1, <1>2 DEF IInv, Types, Senders
<1>5. Buffered' /\ Timers' /\ GivenUp'
  BY <1>1, <1>2 DEF IInv, Buffered, Timers, GivenUp
<1>6. Ended' /\ Reading'
  BY <1>1, <1>2 DEF IInv, Ended, Reading
<1>7. Passed'
  BY <1>1, <1>2 DEF IInv, Passed, Serving, InHand, IsReady
<1> QED BY <1>4, <1>5, <1>6, <1>7 DEF IInv

(* The generators go on without an event for the handler.                   *)
LEMMA OnwardKeeps ==
  ASSUME IInv, IsRound(upstream'), UNCHANGED <<reader, pinged, conn, handler, written>>,
         upstream.phase # "over", upstream'.phase # "over", 
         upstream'.aborted = upstream.aborted, upstream'.ended = upstream.ended,
         upstream'.events = upstream.events,
         \/ upstream'.link = upstream.link
            /\ (upstream'.phase \in {"reading", "parsing"} => upstream.phase \in {"reading", "parsing"})
         \/ upstream.phase = "new" /\ upstream'.phase = "asking" /\ ~upstream.aborted
         \/ upstream.link = "asked" /\ upstream'.link = "open"
  PROVE  IInv'
<1>1. Types'
  BY DEF IInv, Types, Readers, Senders
<1>2. Buffered' /\ Timers' /\ Reading'
  BY DEF IInv, Buffered, Timers, Reading, Serving
<1>3. GivenUp'
  BY DEF IInv, GivenUp, Linked, Ended
<1>4. Ended'
  BY DEF IInv, Ended, GivenUp, Linked
<1>5. Passed'
  BY DEF IInv, Passed, Serving, InHand, IsReady
<1> QED BY <1>1, <1>2, <1>3, <1>4, <1>5 DEF IInv

LEMMA PostKeeps ==
  ASSUME IInv, Post, UNCHANGED <<pinged, conn, handler, written>>
  PROVE  IInv'
<1>1. reader.reads > 0 /\ upstream.phase = "new" /\ IsRound(upstream)
  BY DEF Post, Waiting, IInv, Types
<1>2. CASE upstream.aborted
  BY <1>1, <1>2, ThrowKeeps DEF Post
<1>3. CASE ~upstream.aborted
  <2>1. upstream' = [upstream EXCEPT !.phase = "asking", !.link = "asked"] /\ UNCHANGED reader
    BY <1>3 DEF Post
  <2>2. /\ IsRound(upstream') /\ upstream'.phase = "asking" /\ upstream'.aborted = upstream.aborted
        /\ upstream'.ended = upstream.ended /\ upstream'.events = upstream.events
    BY <1>1, <2>1 DEF IsRound, Fields
  <2> QED BY <1>1, <1>3, <2>1, <2>2, OnwardKeeps
<1> QED BY <1>2, <1>3

LEMMA RespondKeeps ==
  ASSUME IInv, Respond, UNCHANGED <<pinged, conn, handler, written>>
  PROVE  IInv'
<1>1. reader.reads > 0 /\ upstream.phase = "asking" /\ IsRound(upstream)
  BY DEF Respond, Waiting, IInv, Types
<1>2. CASE Throw(upstream)
  BY <1>1, <1>2, ThrowKeeps
<1>3. CASE /\ upstream.link = "asked" /\ UNCHANGED reader
           /\ upstream' = [upstream EXCEPT !.phase = "reading", !.link = "open"]
  <2>1. /\ IsRound(upstream') /\ upstream'.phase = "reading" /\ upstream'.aborted = upstream.aborted
        /\ upstream'.ended = upstream.ended /\ upstream'.events = upstream.events
        /\ upstream'.link = "open"
    BY <1>1, <1>3 DEF IsRound, Fields
  <2> QED BY <1>1, <1>3, <2>1, OnwardKeeps
<1> QED BY <1>2, <1>3 DEF Respond

LEMMA ReceiveKeeps ==
  ASSUME IInv, Receive, UNCHANGED <<pinged, conn, handler, written>>
  PROVE  IInv'
<1>1. /\ reader.reads > 0 /\ upstream.phase = "reading" /\ upstream.link = "open"
      /\ IsRound(upstream)
  BY DEF Receive, Waiting, IInv, Types
<1> DEFINE Received(sent, buffered) ==
             [upstream EXCEPT !.sent = sent, !.buffered = buffered]
<1>2. ASSUME NEW sent, NEW buffered, NEW partial, NEW buffer,
             \/ Throw(Received(sent, buffered))
             \/ /\ upstream' = [Received(sent, buffered) EXCEPT
                                  !.phase = "parsing", !.partial = partial, !.buffer = buffer]
                /\ UNCHANGED reader
      PROVE  IInv'
  <2>1. /\ IsRound(Received(sent, buffered))
        /\ Received(sent, buffered).events = upstream.events
        /\ Received(sent, buffered).ended = upstream.ended
        /\ Received(sent, buffered).link = upstream.link
        /\ Received(sent, buffered).aborted = upstream.aborted
    BY <1>1 DEF IsRound, Fields
  <2> HIDE DEF Received
  <2>2. CASE Throw(Received(sent, buffered))
    BY <1>1, <2>1, <2>2, ThrowKeeps
  <2>3. CASE /\ upstream' = [Received(sent, buffered) EXCEPT
                               !.phase = "parsing", !.partial = partial, !.buffer = buffer]
             /\ UNCHANGED reader
    <3>1. /\ IsRound(upstream') /\ upstream'.phase = "parsing"
          /\ upstream'.aborted = upstream.aborted /\ upstream'.ended = upstream.ended
          /\ upstream'.events = upstream.events /\ upstream'.link = upstream.link
      BY <2>1, <2>3 DEF IsRound, Fields
    <3> QED BY <1>1, <2>3, <3>1, OnwardKeeps
  <2> QED BY <1>2, <2>2, <2>3
<1>3. PICK sent \in upstream.sent + 1 .. Len(upstream.text) :
        LET chunk == SubSeq(upstream.text, upstream.sent + 1, sent)
            decoded == DecodeBytes(upstream.partial, chunk)
            received == Received(sent, upstream.buffered + Len(chunk))
        IN IF ~decoded.ok THEN Throw(received)
           ELSE /\ upstream' = [received EXCEPT !.phase = "parsing", !.partial = decoded.partial,
                                                !.buffer = received.buffer \o decoded.chars]
                /\ UNCHANGED reader
  BY DEF Receive
<1> HIDE DEF Received
<1> QED BY <1>2, <1>3

(* An event that the handler awaits.                                        *)
LEMMA EventKeeps ==
  ASSUME IInv, reader.reads > 0, upstream.phase = "parsing", ~upstream.aborted,
         IsRound(upstream'), upstream'.phase = upstream.phase,
         upstream'.aborted = upstream.aborted, upstream'.ended = upstream.ended,
         upstream'.link = upstream.link,
         Len(upstream'.events) = Len(upstream.events) + 1,
         Yields(Len(upstream.events) + 1), UNCHANGED <<pinged, conn, handler, written>>
  PROVE  IInv'
<1>1. Len(upstream.events) \in Nat
  BY DEF IInv, Types, IsRound
<1>2. /\ Readers' /\ reader'.reads = 0 /\ reader'.error = reader.error
      /\ reader'.ready = <<Len(upstream.events) + 1>> /\ reader'.timer = reader.timer
  BY <1>1, YieldedRead DEF IInv, Types
<1>3. reader'.ready \notin {<<>>, <<End>>} /\ IsReady' = 1
  BY <1>1, <1>2 DEF IsReady, End
<1>4. Types'
  BY <1>2 DEF IInv, Types, Senders
<1>5. Buffered' /\ Timers' /\ GivenUp' /\ Reading'
  BY <1>2 DEF IInv, Buffered, Timers, GivenUp, Reading, Linked
<1>6. Ended'
  BY <1>2, <1>3 DEF IInv, Ended
<1>7. Passed'
  <2>1. Serving => reader.ready = <<>> /\ IsReady = 0
    BY DEF IInv, Reading, Serving, IsReady
  <2>2. InHand' = InHand /\ InHand \in {0, 1} /\ (Serving' <=> Serving) /\ written' = written
    BY DEF InHand, Serving
  <2>3. Len(written) \in Nat
    BY DEF IInv, Types, Senders
  <2>4. Serving => /\ Len(upstream.events) = Len(written) + InHand
                   /\ \A i \in 1 .. Len(written) : written[i] = i
                   /\ InHand = 1 => handler.frame = Len(written) + 1
    BY <2>1, <2>2, <2>3 DEF IInv, Passed
  <2> QED BY <1>1, <1>2, <1>3, <2>2, <2>3, <2>4 DEF Passed
<1> QED BY <1>4, <1>5, <1>6, <1>7 DEF IInv

LEMMA ParseKeeps ==
  ASSUME IInv, Parse, UNCHANGED <<pinged, conn, handler, written>>
  PROVE  IInv'
<1>1. reader.reads > 0 /\ upstream.phase = "parsing" /\ IsRound(upstream)
  BY DEF Parse, Waiting, IInv, Types
<1>2. CASE Refuse
  <2> DEFINE u == [upstream EXCEPT !.refused = TRUE]
  <2>1. IsRound(u) /\ u.events = upstream.events /\ u.ended = upstream.ended /\ Throw(u)
    BY <1>1, <1>2 DEF IsRound, Fields, Refuse
  <2> HIDE DEF u
  <2> QED BY <1>1, <2>1, ThrowKeeps
<1>3. CASE upstream' = [upstream EXCEPT !.phase = "reading"] /\ UNCHANGED reader
  <2>1. /\ IsRound(upstream') /\ upstream'.phase = "reading"
        /\ upstream'.aborted = upstream.aborted /\ upstream'.ended = upstream.ended
        /\ upstream'.events = upstream.events /\ upstream'.link = upstream.link
    BY <1>1, <1>3 DEF IsRound, Fields
  <2> QED BY <1>1, <1>3, <2>1, OnwardKeeps
<1>4. ASSUME NEW length, NEW event, NEW output,
             LET rest == Consumed(upstream, length)
             IN \/ upstream' = rest /\ UNCHANGED reader
                \/ Throw(rest)
                \/ Throw([rest EXCEPT !.overlong = TRUE])
                \/ /\ ~upstream.aborted
                   /\ upstream' = [rest EXCEPT !.events = Append(@, event), !.output = output]
                   /\ Yields(Len(upstream.events) + 1)
      PROVE  IInv'
  <2> DEFINE rest == Consumed(upstream, length)
             long == [rest EXCEPT !.overlong = TRUE]
  <2>1. /\ IsRound(rest) /\ rest.events = upstream.events /\ rest.ended = upstream.ended
        /\ rest.link = upstream.link /\ rest.aborted = upstream.aborted
        /\ rest.phase = upstream.phase
    BY <1>1 DEF IsRound, Fields, Consumed
  <2> HIDE DEF rest
  <2>2. /\ IsRound(long) /\ long.events = upstream.events /\ long.ended = upstream.ended
    BY <2>1 DEF IsRound, Fields
  <2>3. CASE upstream' = rest /\ UNCHANGED reader
    BY <1>1, <2>1, <2>3, OnwardKeeps
  <2>4. CASE Throw(rest)
    BY <1>1, <2>1, <2>4, ThrowKeeps
  <2>5. CASE Throw(long)
    <3> HIDE DEF long
    <3> QED BY <1>1, <2>2, <2>5, ThrowKeeps
  <2>6. CASE /\ ~upstream.aborted
             /\ upstream' = [rest EXCEPT !.events = Append(@, event), !.output = output]
             /\ Yields(Len(upstream.events) + 1)
    <3>1. PICK S : upstream.events \in Seq(S)
      BY <1>1 DEF IsRound
    <3>2. /\ Append(upstream.events, event) \in Seq(S \cup {event})
          /\ Len(Append(upstream.events, event)) = Len(upstream.events) + 1
      <4>1. upstream.events \in Seq(S \cup {event}) /\ event \in S \cup {event}
        BY <3>1
      <4> QED BY <4>1
    <3>3. /\ upstream'.events = Append(upstream.events, event)
          /\ upstream' = [field \in Fields |-> upstream'[field]]
          /\ upstream'.phase = upstream.phase /\ upstream'.aborted = upstream.aborted
          /\ upstream'.ended = upstream.ended /\ upstream'.link = upstream.link
      BY <2>1, <2>6 DEF IsRound, Fields
    <3>4. IsRound(upstream')
      BY <1>1, <3>2, <3>3 DEF IsRound
    <3> QED BY <1>1, <2>6, <3>2, <3>3, <3>4, EventKeeps
  <2> QED BY <1>4, <2>3, <2>4, <2>5, <2>6 DEF rest
<1> QED BY <1>2, <1>3, <1>4 DEF Parse

(* The end of the round for the handler.                                    *)
LEMMA EndKeeps ==
  ASSUME IInv, reader.reads > 0, Yields(End), IsRound(upstream'),
         upstream'.phase = "over", upstream'.events = upstream.events,
         upstream'.ended => upstream'.link = "eof",
         upstream'.ended \/ (upstream.phase = "over" /\ UNCHANGED upstream),
         upstream.ended => upstream'.ended,
         upstream.aborted => upstream'.aborted, upstream'.aborted => ~Linked',
         UNCHANGED <<pinged, conn, handler, written>>
  PROVE  IInv'
<1>1. /\ Readers' /\ reader'.reads = 0 /\ reader'.error = reader.error
      /\ reader'.ready = <<End>> /\ reader'.timer = reader.timer
  BY YieldedRead DEF IInv, Types
<1>2. Types'
  BY <1>1 DEF IInv, Types, Senders
<1>3. Buffered' /\ Timers' /\ GivenUp' /\ Reading'
  BY <1>1 DEF IInv, Buffered, Timers, GivenUp, Reading
<1>4. Ended'
  <2>1. upstream.phase = "over" => upstream.ended \/ reader.error
    BY DEF IInv, Ended
  <2> QED BY <1>1, <2>1 DEF IInv, Ended
<1>5. Passed'
  <2>1. Serving => IsReady = 0
    BY DEF IInv, Reading, Serving, IsReady
  <2>2. IsReady' = 0 /\ InHand' = InHand /\ (Serving' <=> Serving)
    BY <1>1 DEF IsReady, InHand, Serving
  <2> QED BY <1>1, <2>1, <2>2 DEF IInv, Passed
<1> QED BY <1>2, <1>3, <1>4, <1>5 DEF IInv

LEMMA DoneKeeps ==
  ASSUME IInv, Done, UNCHANGED <<pinged, conn, handler, written>>
  PROVE  IInv'
<1>1. reader.reads > 0 /\ upstream.phase = "reading" /\ IsRound(upstream)
  BY DEF Done, Waiting, IInv, Types
<1>2. PICK u : /\ u = IF upstream.link = "open" THEN [upstream EXCEPT !.link = "eof"] ELSE upstream
               /\ Throw(u) \/ Returns(u)
  BY DEF Done
<1>3. /\ IsRound(u) /\ u.events = upstream.events /\ u.ended = upstream.ended
      /\ u.aborted = upstream.aborted
      /\ ~upstream.aborted => u.link = "eof"
  BY <1>1, <1>2 DEF IsRound, Fields, IInv, Ended
<1>4. CASE Throw(u)
  BY <1>1, <1>3, <1>4, ThrowKeeps
<1>5. CASE ~u.aborted /\ upstream' = [Closed(u) EXCEPT !.ended = TRUE] /\ Yields(End)
  <2> DEFINE c == Closed(u)
  <2>1. /\ IsRound(c) /\ c.link = "eof" /\ c.phase = "over" /\ c.aborted
        /\ c.events = upstream.events
    BY <1>3, <1>5, ClosedRound
  <2> HIDE DEF c
  <2>2. /\ IsRound(upstream') /\ upstream'.phase = "over" /\ upstream'.link = "eof"
        /\ upstream'.ended /\ upstream'.aborted /\ upstream'.events = upstream.events
    BY <1>5, <2>1 DEF IsRound, Fields, c
  <2> QED BY <1>1, <1>5, <2>2, EndKeeps DEF Linked
<1> QED BY <1>2, <1>4, <1>5 DEF Returns

LEMMA ExhaustedKeeps ==
  ASSUME IInv, Exhausted, UNCHANGED <<pinged, conn, handler, written>>
  PROVE  IInv'
<1>1. /\ reader.reads > 0 /\ upstream.phase = "over" /\ IsRound(upstream) /\ UNCHANGED upstream
      /\ Yields(End) /\ Linked' = Linked
  BY DEF Exhausted, Waiting, IInv, Types, Linked
<1>2. (upstream.ended => upstream.link = "eof") /\ (upstream.aborted => ~Linked)
  BY DEF IInv, Ended, GivenUp
<1> QED BY <1>1, <1>2, EndKeeps

LEMMA RoundKeeps ==
  ASSUME IInv, Round
  PROVE  IInv'
<1>1. CASE Break /\ UNCHANGED <<pinged, conn, handler, written>>
  BY <1>1, ThrowKeeps DEF Break, Waiting, IInv, Types
<1> QED
  BY <1>1, PostKeeps, RespondKeeps, ReceiveKeeps, ParseKeeps, DoneKeeps, ExhaustedKeeps DEF Round

-----------------------------------------------------------------------------
(* The client's connection.                                                 *)

IsConn(c) ==
  c \in [open : BOOLEAN, buffer : Waitings, headers : BOOLEAN, aborted : BOOLEAN,
         disposed : BOOLEAN, heartbeat : BOOLEAN]

Still(c) == c.disposed \/ c.aborted => ~c.heartbeat

LEMMA HelpersKeep ==
  ASSUME NEW c, IsConn(c), Still(c)
  PROVE  /\ IsConn(Dispose(c)) /\ Still(Dispose(c)) /\ Dispose(c).disposed
         /\ Dispose(c).buffer = c.buffer /\ Dispose(c).aborted = c.aborted
         /\ IsConn(Destroy(c)) /\ Still(Destroy(c)) /\ Destroy(c).disposed /\ ~Destroy(c).open
         /\ Destroy(c).buffer = c.buffer /\ Destroy(c).aborted = c.aborted
         /\ IsConn(ResetHeartbeat(c)) /\ Still(ResetHeartbeat(c))
         /\ ResetHeartbeat(c).disposed = c.disposed /\ ResetHeartbeat(c).aborted = c.aborted
         /\ ResetHeartbeat(c).buffer = c.buffer
BY DEF IsConn, Still, Dispose, Destroy, ResetHeartbeat

LEMMA AbortKeeps ==
  ASSUME NEW c, IsConn(c), Still(c), NEW writing \in BOOLEAN
  PROVE  /\ IsConn(Abort(c, writing)) /\ Still(Abort(c, writing)) /\ Abort(c, writing).aborted
         /\ Abort(c, writing).buffer = c.buffer
         /\ c.disposed => Abort(c, writing).disposed
<1>1. PICK d : d = IF c.aborted THEN c ELSE OnAbort(c, writing)
  OBVIOUS
<1>2. /\ IsConn(d) /\ ~d.heartbeat /\ d.buffer = c.buffer /\ (c.disposed => d.disposed)
  BY <1>1, HelpersKeep DEF OnAbort, IsConn, Still
<1>3. Abort(c, writing) = [d EXCEPT !.aborted = TRUE]
  BY <1>1 DEF Abort
<1> QED BY <1>2, <1>3 DEF IsConn, Still

LEMMA AppendToOne ==
  ASSUME NEW x, NEW y
  PROVE  Append(<<x>>, y) = <<x, y>>
<1> DEFINE S == {x, y}
<1>1. <<x>> \in Seq(S) /\ y \in S /\ <<x, y>> \in Seq(S)
  OBVIOUS
<1>2. /\ Append(<<x>>, y) \in Seq(S) /\ Len(Append(<<x>>, y)) = 2
      /\ Append(<<x>>, y)[1] = x /\ Append(<<x>>, y)[2] = y
  <2> HIDE DEF S
  <2> QED BY <1>1, AppendProperties
<1>3. Len(<<x, y>>) = 2 /\ <<x, y>>[1] = x /\ <<x, y>>[2] = y
  OBVIOUS
<1>4. \A i \in 1 .. 2 : Append(<<x>>, y)[i] = <<x, y>>[i]
  BY <1>2, <1>3
<1> HIDE DEF S
<1> QED BY <1>1, <1>2, <1>3, <1>4, SeqEqual

LEMMA WritesKeep ==
  ASSUME NEW c, IsConn(c), Still(c), c.buffer \in {<<>>, <<"heartbeat">>},
         NEW what \in {"frame", "heartbeat", "error"}, what = "frame" \/ ~Blocked(c),
         NEW d \in Writes(c, what)
  PROVE  /\ IsConn(d) /\ Still(d) /\ d.aborted = c.aborted /\ d.disposed = c.disposed
         /\ d.open = c.open
         /\ d.buffer \in {<<>>, <<what>>, <<"heartbeat", "frame">>}
         /\ what # "frame" => d.buffer \in {<<>>, <<what>>}
<1>1. Append(c.buffer, what) = IF c.buffer = <<>> THEN <<what>> ELSE <<"heartbeat", what>>
  <2>1. CASE c.buffer = <<>>
    BY <2>1
  <2>2. CASE c.buffer = <<"heartbeat">>
    <3>1. Append(<<"heartbeat">>, what) = <<"heartbeat", what>>
      BY AppendToOne
    <3>2. <<"heartbeat">> # <<>>
      OBVIOUS
    <3> QED BY <2>2, <3>1, <3>2, Zenon
  <2> QED BY <2>1, <2>2
<1>2. what # "frame" => c.buffer = <<>>
  BY DEF Blocked
<1>3. Append(c.buffer, what) \in Waitings
  BY <1>1, <1>2 DEF Waitings
<1>4. \/ d = [c EXCEPT !.headers = TRUE, !.buffer = Append(c.buffer, what)]
      \/ d = [c EXCEPT !.headers = TRUE] /\ ~Blocked(c)
  BY DEF Writes
<1>5. CASE d = [c EXCEPT !.headers = TRUE, !.buffer = Append(c.buffer, what)]
  <2>1. /\ IsConn(d) /\ d.buffer = Append(c.buffer, what) /\ d.heartbeat = c.heartbeat
        /\ d.aborted = c.aborted /\ d.disposed = c.disposed /\ d.open = c.open
    BY <1>3, <1>5 DEF IsConn
  <2> QED BY <1>1, <1>2, <2>1 DEF Still
<1>6. CASE d = [c EXCEPT !.headers = TRUE] /\ ~Blocked(c)
  BY <1>6 DEF IsConn, Still, Blocked
<1> QED BY <1>4, <1>5, <1>6

-----------------------------------------------------------------------------
(* The handler.                                                             *)

(* It moves on without an event passing through its hand or being written.  *)
LEMMA HandlerKeeps ==
  ASSUME IInv, UNCHANGED <<pinged, written>>, IsRound(upstream'),
         upstream'.events = upstream.events, upstream'.ended = upstream.ended,
         upstream.aborted => upstream'.aborted, upstream'.aborted => ~Linked',
         upstream'.phase = upstream.phase \/ (upstream'.phase = "over" /\ upstream'.aborted),
         upstream'.aborted \/ upstream'.link = upstream.link,
         upstream.link = "eof" => upstream'.link = "eof",
         Readers', reader'.error = reader.error, reader'.ready = reader.ready,
         \/ reader'.reads = reader.reads
         \/ /\ handler.phase # "over" /\ handler'.phase # "over"
            /\ Serving' => reader.ready = <<>> /\ ~reader.error,
         IsConn(conn'), Still(conn'), conn'.aborted => upstream'.aborted,
         handler' \in [phase : {"next", "taking", "sending", "writing", "failing", "over"},
                       frame : Nat],
         Serving' => Serving /\ InHand' = InHand /\ (InHand = 1 => handler'.frame = handler.frame),
         handler'.phase \in {"next", "taking", "sending"} =>
           conn'.buffer \in {<<>>, <<"heartbeat">>},
         handler'.phase = "over" =>
           conn'.disposed /\ ~reader'.timer /\ (conn'.aborted \/ upstream'.ended),
         handler.phase = "over" => handler'.phase = "over",
         upstream'.phase = upstream.phase \/ (handler'.phase = "over" /\ reader'.reads = 0)
  PROVE  IInv'
<1>1. Types'
  BY DEF IInv, Types, Senders, IsConn
<1>2. Buffered' /\ Timers' /\ GivenUp'
  BY DEF Buffered, Timers, GivenUp, Still
<1>3. Reading'
  BY DEF IInv, Reading
<1>4. Passed'
  <2>1. IsReady' = IsReady
    BY DEF IsReady
  <2> QED BY <2>1 DEF IInv, Passed
<1>5. Ended'
  BY DEF IInv, Ended
<1> QED BY <1>1, <1>2, <1>3, <1>4, <1>5 DEF IInv

(* What the invariant says of the round and of the connection as they are.  *)
LEMMA Unmoved ==
  ASSUME IInv
  PROVE  /\ IsRound(upstream) /\ (upstream.aborted => ~Linked)
         /\ (conn.aborted => upstream.aborted)
         /\ IsConn(conn) /\ Still(conn) /\ Readers
         /\ handler \in [phase : {"next", "taking", "sending", "writing", "failing", "over"},
                         frame : Nat]
BY DEF IInv, Types, Senders, GivenUp, Timers, IsConn, Still

(* An event goes from the iterator to the handler.                          *)
LEMMA HandedKeeps ==
  ASSUME IInv, UNCHANGED <<upstream, pinged, conn, written>>, handler.phase \in {"next", "taking"},
         ~reader.error, reader.ready \notin {<<>>, <<End>>},
         handler' = [phase |-> "sending", frame |-> Head(reader.ready)],
         Readers', reader'.ready = <<>>, reader'.error = reader.error
  PROVE  IInv'
<1>1. PICK event \in Nat : reader.ready = <<event>> /\ Head(reader.ready) = event
  BY DEF IInv, Types, Readers, Ready
<1>2. Types'
  BY <1>1, Unmoved DEF IInv, Types, Senders
<1>3. Buffered' /\ Timers' /\ GivenUp' /\ Reading'
  BY DEF IInv, Buffered, Timers, GivenUp, Reading, Linked
<1>4. Ended'
  BY DEF IInv, Ended
<1>5. Passed'
  <2>1. Serving /\ InHand = 0 /\ IsReady = 1
    BY DEF Serving, InHand, IsReady
  <2>2. Len(upstream.events) = event /\ event = Len(written) + 1 /\ Len(written) \in Nat
    BY <1>1, <2>1 DEF IInv, Passed, Types, Senders
  <2>3. Serving' /\ InHand' = 1 /\ IsReady' = 0 /\ handler'.frame = event
    BY <1>1, <2>2 DEF Serving, InHand, IsReady, Ping
  <2> QED BY <2>1, <2>2, <2>3 DEF IInv, Passed
<1> QED BY <1>2, <1>3, <1>4, <1>5 DEF IInv

(* The handler is given an error, an event, a ping or the end.              *)
LEMMA TakeFromKeeps ==
  ASSUME IInv, handler.phase \in {"next", "taking"},
         NEW r, r \in {reader, [reader EXCEPT !.reads = 1]}, Available(r), TakeFrom(r),
         UNCHANGED <<upstream, pinged, written>>
  PROVE  IInv'
<1>1. /\ r \in [reads : {0, 1}, ready : Ready, error : BOOLEAN, started : BOOLEAN,
                due : BOOLEAN, timer : BOOLEAN]
      /\ r.error = reader.error /\ r.ready = reader.ready /\ r.due = reader.due
  BY Unmoved DEF Readers
<1>2. CASE r.error
  <2>1. handler' = [handler EXCEPT !.phase = "failing"] /\ reader' = r /\ UNCHANGED conn
    BY <1>2 DEF TakeFrom
  <2>2. handler'.phase = "failing" /\ handler'.frame \in Nat
    BY <2>1, Unmoved
  <2>3. /\ Readers' /\ ~Serving'
        /\ handler' \in [phase : {"next", "taking", "sending", "writing", "failing", "over"},
                         frame : Nat]
    BY <1>1, <2>1, <2>2, Unmoved DEF Readers, Serving
  <2> QED BY <1>1, <2>1, <2>2, <2>3, Unmoved, HandlerKeeps DEF Linked
<1>3. CASE ~r.error /\ r.ready = <<End>>
  <2>1. Leave(conn)
    BY <1>3 DEF TakeFrom
  <2>2. /\ Readers' /\ ~reader'.timer /\ reader'.reads = reader.reads
        /\ reader'.error = reader.error /\ reader'.ready = reader.ready
    BY <2>1, Unmoved DEF Leave, Readers
  <2>3. /\ conn' = Dispose(conn) /\ handler' = [phase |-> "over", frame |-> Ping]
        /\ handler'.phase = "over" /\ ~Serving'
    BY <2>1 DEF Leave, Serving
  <2>4. upstream.ended
    BY <1>1, <1>3 DEF IInv, Ended
  <2>5. IsConn(conn') /\ Still(conn') /\ conn'.disposed /\ conn'.aborted = conn.aborted
    BY <2>3, Unmoved, HelpersKeep
  <2>6. handler' \in [phase : {"next", "taking", "sending", "writing", "failing", "over"},
                      frame : Nat]
    BY <2>3 DEF Ping
  <2> QED BY <2>2, <2>3, <2>4, <2>5, <2>6, Unmoved, HandlerKeeps DEF Linked
<1>4. CASE ~r.error /\ r.ready \notin {<<>>, <<End>>}
  <2>1. /\ handler' = [phase |-> "sending", frame |-> Head(r.ready)]
        /\ reader' = [r EXCEPT !.ready = <<>>] /\ UNCHANGED conn
    BY <1>4 DEF TakeFrom
  <2>2. Readers' /\ reader'.ready = <<>> /\ reader'.error = reader.error
    BY <1>1, <2>1 DEF Readers, Ready
  <2> QED BY <1>1, <1>4, <2>1, <2>2, HandedKeeps
<1>5. CASE ~r.error /\ r.ready = <<>> /\ r.due
  <2>1. /\ handler' = [phase |-> "sending", frame |-> Ping]
        /\ reader' = [r EXCEPT !.due = FALSE] /\ UNCHANGED conn
    <3>1. <<>> # <<End>>
      OBVIOUS
    <3> QED BY <1>5, <3>1 DEF TakeFrom
  <2>2. /\ Readers' /\ reader'.ready = reader.ready /\ reader'.error = reader.error
    BY <1>1, <2>1 DEF Readers
  <2>3. Serving /\ InHand = 0 /\ InHand' = 0 /\ handler'.phase = "sending"
    BY <2>1 DEF Serving, InHand
  <2>4. handler' \in [phase : {"next", "taking", "sending", "writing", "failing", "over"},
                      frame : Nat]
    BY <2>1 DEF Ping
  <2>5. conn.buffer \in {<<>>, <<"heartbeat">>}
    BY DEF IInv, Buffered
  <2> QED BY <1>1, <1>5, <2>1, <2>2, <2>3, <2>4, <2>5, Unmoved, HandlerKeeps DEF Linked
<1> QED BY <1>2, <1>3, <1>4, <1>5 DEF Available

LEMMA AskKeeps ==
  ASSUME IInv, Ask
  PROVE  IInv'
<1> DEFINE r == StartRead(reader)
<1>1. /\ handler.phase = "next" /\ UNCHANGED <<upstream, pinged, written>>
      /\ r \in {reader, [reader EXCEPT !.reads = 1]}
  BY DEF Ask, StartRead
<1>2. CASE Available(r)
  BY <1>1, <1>2, TakeFromKeeps DEF Ask
<1>3. CASE ~Available(r)
  <2>1. /\ handler' = [handler EXCEPT !.phase = "taking"] /\ reader' = r /\ UNCHANGED conn
    BY <1>3 DEF Ask
  <2> HIDE DEF r
  <2>2. /\ Readers' /\ r.error = reader.error /\ r.ready = reader.ready
        /\ reader'.error = reader.error /\ reader'.ready = reader.ready
    BY <1>1, <2>1, Unmoved DEF Readers
  <2>3. reader.ready = <<>> /\ ~reader.error
    BY <1>3, <2>2 DEF Available
  <2>4. /\ handler'.phase = "taking" /\ InHand = 0 /\ InHand' = 0 /\ Serving
        /\ handler' \in [phase : {"next", "taking", "sending", "writing", "failing", "over"},
                         frame : Nat]
    BY <1>1, <2>1, Unmoved DEF InHand, Serving
  <2>5. conn.buffer \in {<<>>, <<"heartbeat">>}
    BY <1>1 DEF IInv, Buffered
  <2> QED BY <1>1, <2>1, <2>2, <2>3, <2>4, <2>5, Unmoved, HandlerKeeps DEF Linked
<1> QED BY <1>2, <1>3

LEMMA TakeKeeps ==
  ASSUME IInv, Take
  PROVE  IInv'
BY TakeFromKeeps DEF Take

LEMMA PingTimerKeeps ==
  ASSUME IInv, PingTimer
  PROVE  IInv'
<1>1. /\ Readers' /\ reader'.ready = reader.ready /\ reader'.error = reader.error
      /\ reader'.reads = reader.reads /\ ~reader'.timer
  BY Unmoved DEF PingTimer, Readers
<1>2. InHand' = InHand /\ (Serving' <=> Serving)
  BY DEF PingTimer, InHand, Serving
<1>3. /\ handler.phase \in {"next", "taking", "sending"} => conn.buffer \in {<<>>, <<"heartbeat">>}
      /\ handler.phase = "over" => conn.disposed /\ (conn.aborted \/ upstream.ended)
  BY DEF IInv, Buffered, Timers, GivenUp
<1> QED BY <1>1, <1>2, <1>3, Unmoved, HandlerKeeps DEF PingTimer, Linked

(* A frame has left the handler's hand.                                     *)
LEMMA MarkedRead ==
  ASSUME Readers
  PROVE  /\ MarkClientWrite(reader) \in [reads : {0, 1}, ready : Ready, error : BOOLEAN,
                                         started : BOOLEAN, due : BOOLEAN, timer : BOOLEAN]
         /\ MarkClientWrite(reader).ready = reader.ready
         /\ MarkClientWrite(reader).error = reader.error
         /\ MarkClientWrite(reader).reads = reader.reads
BY DEF MarkClientWrite, Readers

LEMMA SentFacts ==
  ASSUME IInv, NEW c, IsConn(c), Still(c), Sent(c)
  PROVE  /\ IsConn(conn') /\ Still(conn') /\ conn'.buffer = c.buffer
         /\ conn'.aborted = c.aborted
         /\ Readers' /\ reader'.ready = reader.ready /\ reader'.error = reader.error
         /\ reader'.reads = reader.reads
         /\ handler' = [phase |-> "next", frame |-> Ping]
<1>1. /\ IsConn(conn') /\ Still(conn') /\ conn'.buffer = c.buffer
      /\ conn'.aborted = c.aborted
  BY HelpersKeep DEF Sent
<1>2. reader' = MarkClientWrite(reader) /\ handler' = [phase |-> "next", frame |-> Ping]
  BY DEF Sent
<1> QED BY <1>1, <1>2, MarkedRead, Unmoved DEF Readers

LEMMA DrainKeeps ==
  ASSUME IInv, Drain
  PROVE  IInv'
<1> DEFINE drained == [conn EXCEPT !.buffer = <<>>]
<1>1. /\ IsConn(drained) /\ Still(drained) /\ drained.buffer = <<>>
      /\ drained.aborted = conn.aborted /\ drained.disposed = conn.disposed
  BY Unmoved DEF IsConn, Still, Waitings
<1> HIDE DEF drained
<1>2. CASE handler.phase = "writing"
  <2>1. Sent(drained) /\ UNCHANGED <<upstream, pinged, written>>
    BY <1>2 DEF Drain, drained
  <2>2. /\ handler'.phase = "next" /\ InHand' = 0 /\ InHand = 0 /\ Serving
        /\ handler' \in [phase : {"next", "taking", "sending", "writing", "failing", "over"},
                         frame : Nat]
    BY <1>1, <1>2, <2>1, SentFacts DEF InHand, Serving, Ping
  <2> QED BY <1>1, <1>2, <2>1, <2>2, SentFacts, Unmoved, HandlerKeeps DEF Linked
<1>3. CASE handler.phase # "writing"
  <2>1. conn' = drained /\ UNCHANGED <<handler, reader, upstream, pinged, written>>
    BY <1>3, Unmoved DEF Drain, drained
  <2>2. InHand' = InHand /\ (Serving' <=> Serving) /\ Readers'
    BY <2>1, Unmoved DEF InHand, Serving, Readers
  <2>3. handler.phase = "over" => conn.disposed /\ ~reader.timer /\ (conn.aborted \/ upstream.ended)
    BY DEF IInv, Timers, GivenUp
  <2> QED BY <1>1, <2>1, <2>2, <2>3, Unmoved, HandlerKeeps DEF Linked
<1> QED BY <1>2, <1>3

LEMMA HeartbeatKeeps ==
  ASSUME IInv, Heartbeat
  PROVE  IInv'
<1>1. conn.heartbeat /\ UNCHANGED <<upstream, pinged, handler, reader, written>>
  BY DEF Heartbeat
<1>2. handler.phase # "over" /\ InHand' = InHand /\ (Serving' <=> Serving) /\ Readers'
  BY <1>1, Unmoved DEF IInv, Timers, InHand, Serving, Readers
<1>3. /\ IsConn(conn') /\ Still(conn') /\ conn'.aborted = conn.aborted
      /\ conn'.buffer \in {conn.buffer, <<>>, <<"heartbeat">>}
  <2>1. CASE conn' = [conn EXCEPT !.heartbeat = FALSE]
    BY <2>1, Unmoved DEF IsConn, Still
  <2>2. CASE conn' = ResetHeartbeat(conn)
    BY <2>2, Unmoved, HelpersKeep
  <2>3. ASSUME NEW c \in Writes(conn, "heartbeat"), MayBeat, conn' = ResetHeartbeat(c)
        PROVE  /\ IsConn(conn') /\ Still(conn') /\ conn'.aborted = conn.aborted
               /\ conn'.buffer \in {conn.buffer, <<>>, <<"heartbeat">>}
    <3>1. conn.buffer = <<>> /\ ~Blocked(conn)
      BY <2>3 DEF MayBeat, Blocked
    <3>2. IsConn(c) /\ Still(c) /\ c.aborted = conn.aborted /\ c.buffer \in {<<>>, <<"heartbeat">>}
      BY <3>1, Unmoved, WritesKeep
    <3> QED BY <2>3, <3>2, HelpersKeep
  <2> QED BY <2>1, <2>2, <2>3 DEF Heartbeat
<1>4. handler.phase \in {"next", "taking", "sending"} => conn.buffer \in {<<>>, <<"heartbeat">>}
  BY DEF IInv, Buffered
<1> QED BY <1>1, <1>2, <1>3, <1>4, Unmoved, HandlerKeeps DEF Linked

(* An event goes from the handler to the client.                            *)
LEMMA WrittenKeeps ==
  ASSUME IInv, UNCHANGED <<upstream, pinged>>, handler.phase = "sending", handler.frame # Ping,
         written' = Append(written, handler.frame),
         Readers', reader'.ready = reader.ready, reader'.error = reader.error,
         reader'.reads = reader.reads,
         IsConn(conn'), Still(conn'), conn'.aborted = conn.aborted,
         handler' \in [phase : {"next", "writing"}, frame : Nat],
         handler'.phase = "next" => conn'.buffer \in {<<>>, <<"heartbeat">>}
  PROVE  IInv'
<1>1. /\ written \in Seq(Nat) /\ handler.frame \in Nat
      /\ Linked' = Linked /\ IsReady' = IsReady /\ InHand = 1 /\ InHand' = 0 /\ Serving /\ Serving'
  BY DEF IInv, Types, Senders, Linked, IsReady, InHand, Serving
<1>2. /\ written' \in Seq(Nat) /\ Len(written') = Len(written) + 1 /\ Len(written) \in Nat
      /\ \A i \in 1 .. Len(written) : written'[i] = written[i]
      /\ written'[Len(written) + 1] = handler.frame
  BY <1>1, AppendProperties
<1>3. Types'
  BY <1>2 DEF IInv, Types, Senders, IsConn
<1>4. Buffered' /\ Timers' /\ GivenUp' /\ Ended' /\ Reading'
  BY <1>1 DEF IInv, Buffered, Timers, Still, GivenUp, Ended, Reading
<1>5. Passed'
  <2>1. /\ Len(upstream.events) = Len(written) + 1 + IsReady
        /\ \A i \in 1 .. Len(written) : written[i] = i
        /\ handler.frame = Len(written) + 1
        /\ IsReady = 1 => reader.ready = <<Len(upstream.events)>>
    BY <1>1 DEF IInv, Passed
  <2>2. IsReady \in {0, 1}
    BY DEF IsReady
  <2>3. \A i \in 1 .. Len(written') : written'[i] = i
    BY <1>2, <2>1
  <2> QED BY <1>1, <1>2, <2>1, <2>2, <2>3 DEF Passed
<1> QED BY <1>3, <1>4, <1>5 DEF IInv

LEMMA SendKeeps ==
  ASSUME IInv, Send
  PROVE  IInv'
<1>1. handler.phase = "sending" /\ UNCHANGED <<upstream, pinged>> /\ handler.frame \in Nat
  BY Unmoved DEF Send
<1>2. conn.buffer \in {<<>>, <<"heartbeat">>}
  BY <1>1 DEF IInv, Buffered
<1>3. CASE conn.aborted \/ ~conn.open
  <2>1. handler' = [handler EXCEPT !.phase = "failing"] /\ UNCHANGED <<conn, reader, written>>
    BY <1>3 DEF Send
  <2>2. /\ handler'.phase = "failing" /\ ~Serving' /\ Readers'
        /\ handler' \in [phase : {"next", "taking", "sending", "writing", "failing", "over"},
                         frame : Nat]
    BY <2>1, Unmoved DEF Serving, Readers
  <2> QED BY <1>1, <2>1, <2>2, Unmoved, HandlerKeeps DEF Linked
<1>4. CASE ~(conn.aborted \/ ~conn.open)
  <2>1. PICK c \in Writes(conn, "frame") :
          IF ~Blocked(c) THEN Sent(c)
          ELSE /\ conn' = c
               /\ handler' = [handler EXCEPT !.phase = "writing"]
               /\ UNCHANGED reader
    BY <1>4 DEF Send
  <2>2. IsConn(c) /\ Still(c) /\ c.aborted = conn.aborted
    BY <1>2, <2>1, Unmoved, WritesKeep
  <2>3. /\ IsConn(conn') /\ Still(conn') /\ conn'.aborted = conn.aborted
        /\ Readers' /\ reader'.ready = reader.ready /\ reader'.error = reader.error
        /\ reader'.reads = reader.reads
        /\ handler' \in [phase : {"next", "writing"}, frame : Nat]
        /\ handler'.phase = "next" => conn'.buffer \in {<<>>, <<"heartbeat">>}
    <3>1. CASE ~Blocked(c)
      BY <2>1, <2>2, <3>1, SentFacts DEF Blocked, Ping
    <3>2. CASE Blocked(c)
      BY <2>1, <2>2, <3>2, Unmoved DEF Readers
    <3> QED BY <3>1, <3>2
  <2>4. CASE handler.frame = Ping
    <3>1. written' = written
      BY <1>4, <2>4 DEF Send
    <3>2. InHand = 0 /\ InHand' = 0 /\ Serving
      BY <1>1, <2>3, <2>4 DEF InHand, Serving
    <3> QED BY <1>1, <2>3, <3>1, <3>2, Unmoved, HandlerKeeps DEF Linked
  <2>5. CASE handler.frame # Ping
    <3>1. written' = Append(written, handler.frame)
      BY <1>4, <2>5 DEF Send
    <3> QED BY <1>1, <2>3, <2>5, <3>1, WrittenKeeps
  <2> QED BY <2>4, <2>5
<1> QED BY <1>3, <1>4

(* A wait for the client that is released.                                  *)
LEMMA Released ==
  ASSUME IInv, NEW c, Release(c), handler.phase # "over"
  PROVE  /\ handler' \in [phase : {"next", "taking", "sending", "writing", "failing", "over"},
                          frame : Nat]
         /\ handler'.phase # "over"
         /\ Serving' => handler' = handler
         /\ Serving' => Serving /\ InHand' = InHand
         /\ handler'.phase \in {"next", "taking", "sending"} => handler' = handler
BY Unmoved DEF Release, Serving, InHand

LEMMA TimeoutKeeps ==
  ASSUME IInv, Timeout
  PROVE  IInv'
<1>1. /\ handler.phase # "over" /\ UNCHANGED <<pinged, reader, written>>
      /\ conn' = Abort(conn, handler.phase = "writing")
      /\ upstream' = AbortRound(upstream) /\ Release(conn') /\ Readers'
  BY Unmoved DEF Timeout, AbortRequest, Readers
<1>2. /\ IsConn(conn') /\ Still(conn') /\ conn'.aborted /\ conn'.buffer = conn.buffer
  BY <1>1, Unmoved, AbortKeeps
<1>3. conn'.buffer \in {<<>>, <<"heartbeat">>} \/ handler.phase \notin {"next", "taking", "sending"}
  BY <1>2 DEF IInv, Buffered
<1>4. upstream'.link = "eof" \/ upstream.link # "eof"
  BY <1>1, Unmoved, ClosedRound
<1> QED BY <1>1, <1>2, <1>3, <1>4, Unmoved, ClosedRound, Released, HandlerKeeps DEF Linked

LEMMA DisconnectKeeps ==
  ASSUME IInv, Disconnect
  PROVE  IInv'
<1>1. /\ handler.phase # "over" /\ UNCHANGED <<pinged, reader, written>>
      /\ conn' = [Destroy(conn) EXCEPT !.aborted = TRUE]
      /\ upstream' = AbortRound(upstream) /\ Release(conn') /\ Readers'
  BY Unmoved DEF Disconnect, Readers
<1>2. /\ IsConn(conn') /\ Still(conn') /\ conn'.aborted /\ conn'.buffer = conn.buffer
  <2> DEFINE d == Destroy(conn)
  <2>1. IsConn(d) /\ Still(d) /\ d.disposed /\ d.buffer = conn.buffer
    BY Unmoved, HelpersKeep
  <2> HIDE DEF d
  <2> QED BY <1>1, <2>1 DEF d, IsConn, Still
<1>3. conn'.buffer \in {<<>>, <<"heartbeat">>} \/ handler.phase \notin {"next", "taking", "sending"}
  BY <1>2 DEF IInv, Buffered
<1>4. upstream'.link = "eof" \/ upstream.link # "eof"
  BY <1>1, Unmoved, ClosedRound
<1> QED BY <1>1, <1>2, <1>3, <1>4, Unmoved, ClosedRound, Released, HandlerKeeps DEF Linked

LEMMA StallKeeps ==
  ASSUME IInv, StallRequest
  PROVE  IInv'
<1>1. /\ Linked /\ reader.reads > 0 /\ upstream.phase # "over" /\ Throw(upstream)
      /\ conn' = Abort(conn, handler.phase = "writing") /\ Release(conn')
      /\ UNCHANGED <<pinged, written>>
  BY DEF StallRequest, Stall, Waiting
<1>2. handler.phase # "over"
  BY <1>1, Unmoved DEF IInv, GivenUp, Ended, Linked
<1>3. /\ IsConn(conn') /\ Still(conn') /\ conn'.aborted /\ conn'.buffer = conn.buffer
  BY <1>1, Unmoved, AbortKeeps
<1>4. /\ IsRound(upstream') /\ upstream'.aborted /\ upstream'.phase = "over" /\ ~Linked'
      /\ ~upstream'.ended /\ upstream'.events = upstream.events
  BY <1>1, Unmoved, ClosedRound DEF Throw, IInv, Ended, Linked
<1>5. /\ Readers' /\ reader'.reads = 0 /\ reader'.error
      /\ reader'.ready = reader.ready /\ reader'.timer = reader.timer
  BY <1>1, Unmoved, RaisedRead DEF Throw
<1>6. Types'
  BY <1>1, <1>2, <1>3, <1>4, <1>5, Released DEF IInv, Types, Senders, IsConn
<1>7. Buffered' /\ Timers' /\ GivenUp'
  BY <1>1, <1>2, <1>3, <1>4, <1>5, Released DEF IInv, Buffered, Timers, GivenUp, Still
<1>8. Ended' /\ Reading'
  BY <1>4, <1>5 DEF IInv, Ended, Reading
<1>9. Passed'
  BY <1>1, <1>2, <1>4, <1>5, Released DEF IInv, Passed, IsReady
<1> QED BY <1>6, <1>7, <1>8, <1>9 DEF IInv

(* The handler's catch: it is over whatever becomes of the error frame.     *)
LEMMA FailKeeps ==
  ASSUME IInv, Fail
  PROVE  IInv'
<1> DEFINE c == Abort(conn, FALSE)
           u == IF reader.reads = 0 THEN Closed(upstream) ELSE upstream
<1>1. /\ handler.phase = "failing" /\ UNCHANGED <<pinged, written>>
      /\ IsConn(c) /\ Still(c) /\ c.aborted
      /\ upstream' = AbortRound(u)
  BY Unmoved, AbortKeeps DEF Fail
<1>2. PICK d : Leave(d) /\ IsConn(d) /\ Still(d) /\ d.aborted
  <2>1. CASE Leave(c)
    BY <1>1, <2>1
  <2>2. CASE Leave(Destroy(c))
    BY <1>1, <2>2, HelpersKeep
  <2>3. ASSUME ~Blocked(c), NEW d \in Writes([c EXCEPT !.heartbeat = FALSE], "error"), ErrorWritten(d)
        PROVE  \E e : Leave(e) /\ IsConn(e) /\ Still(e) /\ e.aborted
    <3> DEFINE q == [c EXCEPT !.heartbeat = FALSE]
    <3>1. IsConn(q) /\ Still(q) /\ q.aborted /\ q.buffer = <<>> /\ ~Blocked(q)
      <4> HIDE DEF c
      <4> QED BY <1>1, <2>3 DEF IsConn, Still, Blocked
    <3> HIDE DEF q
    <3>2. IsConn(d) /\ Still(d) /\ d.aborted
      BY <2>3, <3>1, WritesKeep DEF q
    <3> QED BY <2>3, <3>2, HelpersKeep DEF ErrorWritten
  <2> QED BY <2>1, <2>2, <2>3 DEF Fail
<1> HIDE DEF c
<1>3. /\ IsRound(upstream') /\ upstream'.aborted /\ ~Linked'
      /\ upstream'.events = upstream.events /\ upstream'.ended = upstream.ended
      /\ upstream.link = "eof" => upstream'.link = "eof"
      /\ upstream'.phase = upstream.phase \/ (upstream'.phase = "over" /\ reader.reads = 0)
  <2>1. /\ IsRound(u) /\ u.events = upstream.events /\ u.ended = upstream.ended
        /\ upstream.link = "eof" => u.link = "eof"
        /\ u.phase = upstream.phase \/ (u.phase = "over" /\ reader.reads = 0)
    BY Unmoved, ClosedRound
  <2> HIDE DEF u
  <2> QED BY <1>1, <2>1, ClosedRound DEF Linked
<1>4. /\ IsConn(conn') /\ Still(conn') /\ conn'.disposed /\ conn'.aborted
  BY <1>2, HelpersKeep DEF Leave
<1>5. /\ Readers' /\ ~reader'.timer /\ reader'.reads = reader.reads
      /\ reader'.error = reader.error /\ reader'.ready = reader.ready
  BY <1>2, Unmoved DEF Leave, Readers
<1>6. /\ handler'.phase = "over" /\ ~Serving'
      /\ handler' \in [phase : {"next", "taking", "sending", "writing", "failing", "over"},
                       frame : Nat]
  BY <1>2 DEF Leave, Serving, Ping
<1> QED BY <1>1, <1>3, <1>4, <1>5, <1>6, HandlerKeeps

-----------------------------------------------------------------------------
(* The theorems.                                                            *)

LEMMA InitKeeps == Init => IInv
<1> SUFFICES ASSUME Init PROVE IInv
  OBVIOUS
<1>1. PICK text \in Texts : upstream = NewUpstream(text)
  BY DEF Init
<1>2. <<>> \in Seq({})
  OBVIOUS
<1>3. /\ IsRound(upstream) /\ upstream.events = <<>> /\ upstream.phase = "new"
      /\ ~upstream.aborted /\ ~upstream.ended
  BY <1>1, <1>2 DEF NewUpstream, IsRound, Fields
<1>4. Readers /\ reader.ready = <<>> /\ ~reader.error
  BY DEF Init, NewReader, Readers, Ready
<1>5. Senders /\ conn.buffer = <<>> /\ ~conn.disposed /\ ~conn.aborted
  BY DEF Init, NewConnection, Senders, Waitings, Ping
<1>6. Buffered /\ Timers /\ GivenUp
  BY <1>3, <1>5 DEF Init, Buffered, Timers, GivenUp
<1>7. Ended
  <2>1. <<>> # <<End>>
    OBVIOUS
  <2> QED BY <1>3, <1>4, <2>1 DEF Ended
<1>8. Passed
  <2>1. InHand = 0 /\ IsReady = 0 /\ Len(<<>>) = 0 /\ written = <<>>
    BY <1>4 DEF Init, InHand, IsReady
  <2> QED BY <1>3, <2>1 DEF Passed
<1>9. Reading
  BY <1>4 DEF Reading
<1> QED BY <1>3, <1>4, <1>5, <1>6, <1>7, <1>8, <1>9 DEF IInv, Types

LEMMA StutterKeeps ==
  ASSUME IInv, UNCHANGED vars
  PROVE  IInv'
<1>1. Types'
  BY DEF IInv, Types, Readers, Senders, vars
<1>2. Buffered' /\ Timers' /\ GivenUp' /\ Ended' /\ Reading'
  BY DEF IInv, Buffered, Timers, GivenUp, Linked, Ended, Reading, Serving, vars
<1>3. Passed'
  BY DEF IInv, Passed, Serving, InHand, IsReady, vars
<1> QED BY <1>1, <1>2, <1>3 DEF IInv

(* Whatever the upstream sends and however the timers, the client and the   *)
(* handler take turns, between the parser and the client is at most one     *)
(* event that is ready and one in hand, and a generator that is over has    *)
(* ended or raised.                                                         *)
THEOREM ConnectionInvariance == Spec => []IInv
<1>1. Init => IInv
  BY InitKeeps
<1>2. IInv /\ [Next]_vars => IInv'
  <2> SUFFICES ASSUME IInv, [Next]_vars PROVE IInv'
    OBVIOUS
  <2>1. CASE Proceed
    BY <2>1, AskKeeps, TakeKeeps, SendKeeps, FailKeeps DEF Proceed
  <2>2. CASE Round
    BY <2>2, RoundKeeps
  <2>3. CASE StallRequest
    BY <2>3, StallKeeps
  <2>4. CASE PingTimer
    BY <2>4, PingTimerKeeps
  <2>5. CASE Drain
    BY <2>5, DrainKeeps
  <2>6. CASE Heartbeat
    BY <2>6, HeartbeatKeeps
  <2>7. CASE Timeout
    BY <2>7, TimeoutKeeps
  <2>8. CASE Disconnect
    BY <2>8, DisconnectKeeps
  <2>9. CASE UNCHANGED vars
    BY <2>9, StutterKeeps
  <2> QED BY <2>1, <2>2, <2>3, <2>4, <2>5, <2>6, <2>7, <2>8, <2>9 DEF Next
<1> QED BY <1>1, <1>2, PTL DEF Spec

LEMMA OneNumber ==
  ASSUME NEW x \in Nat
  PROVE  <<x>> \in Seq(Nat) /\ Len(<<x>>) = 1 /\ <<x>>[1] = x
OBVIOUS

LEMMA NothingIsLost == IInv => NothingLost
<1> DEFINE hand == IF handler.phase = "sending" /\ handler.frame # Ping
                     THEN <<handler.frame>> ELSE <<>>
           ready == IF reader.ready = <<End>> THEN <<>> ELSE reader.ready
           n == Len(upstream.events)
           numbers == [i \in 1 .. n |-> i]
<1> SUFFICES ASSUME IInv, Serving PROVE written \o hand \o ready = numbers
  BY DEF NothingLost, Serving
<1>1. n \in Nat /\ written \in Seq(Nat) /\ Len(written) \in Nat /\ handler.frame \in Nat
  BY DEF IInv, Types, IsRound, Senders
<1>2. /\ hand \in Seq(Nat) /\ Len(hand) = InHand /\ InHand \in {0, 1}
      /\ InHand = 1 => hand = <<Len(written) + 1>>
  <2>1. CASE InHand = 1
    <3>1. handler.frame = Len(written) + 1 /\ hand = <<handler.frame>>
      BY <2>1 DEF IInv, Passed, InHand
    <3> HIDE DEF hand
    <3>2. hand = <<Len(written) + 1>> /\ Len(written) + 1 \in Nat
      BY <1>1, <3>1
    <3> QED BY <2>1, <3>2, OneNumber
  <2>2. CASE InHand # 1
    BY <2>2 DEF InHand
  <2> QED BY <2>1, <2>2
<1>3. /\ ready \in Seq(Nat) /\ Len(ready) = IsReady /\ IsReady \in {0, 1}
      /\ IsReady = 1 => ready = <<n>>
  <2>1. CASE reader.ready \in {<<>>, <<End>>}
    <3>1. ready = <<>> /\ IsReady = 0
      BY <2>1 DEF IsReady
    <3> HIDE DEF ready, n
    <3> QED BY <3>1
  <2>2. CASE reader.ready \notin {<<>>, <<End>>}
    <3>1. IsReady = 1
      BY <2>2 DEF IsReady
    <3>2. reader.ready = <<n>>
      BY <3>1 DEF IInv, Passed
    <3>3. ready = <<n>>
      BY <2>2, <3>2
    <3> HIDE DEF ready, n
    <3> QED BY <1>1, <3>1, <3>3, OneNumber
  <2> QED BY <2>1, <2>2
<1>4. n = Len(written) + InHand + IsReady /\ \A i \in 1 .. Len(written) : written[i] = i
  BY DEF IInv, Passed
<1>5. numbers \in Seq(Nat) /\ Len(numbers) = n /\ \A i \in 1 .. n : numbers[i] = i
  BY <1>1
<1> HIDE DEF hand, ready, n, numbers
<1>6. /\ written \o hand \in Seq(Nat) /\ Len(written \o hand) = Len(written) + InHand
      /\ \A i \in 1 .. Len(written) + InHand : (written \o hand)[i] = i
  <2>1. /\ written \o hand \in Seq(Nat) /\ Len(written \o hand) = Len(written) + Len(hand)
        /\ \A i \in 1 .. Len(written) + Len(hand) :
             (written \o hand)[i] = IF i <= Len(written) THEN written[i] ELSE hand[i - Len(written)]
    BY <1>1, <1>2, ConcatProperties
  <2>2. InHand = 1 => hand[1] = Len(written) + 1
    BY <1>2
  <2> QED BY <1>1, <1>2, <1>4, <2>1, <2>2
<1>7. /\ written \o hand \o ready \in Seq(Nat) /\ Len(written \o hand \o ready) = n
      /\ \A i \in 1 .. n : (written \o hand \o ready)[i] = i
  <2> DEFINE before == written \o hand
  <2> HIDE DEF before
  <2>1. before \in Seq(Nat) /\ Len(before) \in Nat /\ n = Len(before) + IsReady
        /\ \A i \in 1 .. Len(before) : before[i] = i
    BY <1>1, <1>2, <1>4, <1>6 DEF before
  <2>2. /\ before \o ready \in Seq(Nat) /\ Len(before \o ready) = Len(before) + Len(ready)
        /\ \A i \in 1 .. Len(before) + Len(ready) :
             (before \o ready)[i] = IF i <= Len(before) THEN before[i] ELSE ready[i - Len(before)]
    BY <1>3, <2>1, ConcatProperties
  <2>3. IsReady = 1 => ready[1] = n
    BY <1>3
  <2>4. \A i \in 1 .. n : (before \o ready)[i] = i
    BY <1>3, <2>1, <2>2, <2>3
  <2> QED BY <1>3, <2>1, <2>2, <2>4 DEF before
<1> QED BY <1>5, <1>7, SeqEqual

(* Pings, heartbeats and slow reads cost the client no event, and it gets   *)
(* none twice or early.                                                     *)
THEOREM EventsReachTheClient == Spec => []NothingLost
BY ConnectionInvariance, NothingIsLost, PTL

(* A client that does not read any more holds up one heartbeat at most.     *)
THEOREM HeartbeatsDoNotPileUp == Spec => []HeartbeatBounded
<1>1. IInv => HeartbeatBounded
  <2> SUFFICES ASSUME IInv PROVE HeartbeatBounded
    OBVIOUS
  <2>1. conn.buffer \in Waitings
    BY DEF IInv, Types, Senders
  <2>2. conn.buffer = <<>> => HeartbeatBounded
    BY DEF HeartbeatBounded
  <2>3. conn.buffer = <<"heartbeat">> => HeartbeatBounded
    BY DEF HeartbeatBounded
  <2>4. conn.buffer = <<"frame">> => HeartbeatBounded
    BY DEF HeartbeatBounded
  <2>5. conn.buffer = <<"heartbeat", "frame">> => HeartbeatBounded
    BY DEF HeartbeatBounded
  <2>6. conn.buffer = <<"error">> => HeartbeatBounded
    BY DEF HeartbeatBounded
  <2> QED BY <2>1, <2>2, <2>3, <2>4, <2>5, <2>6 DEF Waitings
<1> QED BY <1>1, ConnectionInvariance, PTL

(* An abort is not mistaken for the end of the answer, whenever it comes.   *)
THEOREM AbortIsNoEnd == Spec => []EndIsTheUpstreams
<1>1. IInv => EndIsTheUpstreams
  BY DEF IInv, Ended, EndIsTheUpstreams
<1> QED BY <1>1, ConnectionInvariance, PTL

(* A request that is over or aborted has no timer and no connection left.   *)
THEOREM RequestIsCleared == Spec => []NothingLeftBehind
<1>1. IInv => NothingLeftBehind
  BY DEF IInv, Timers, GivenUp, Ended, Linked, NothingLeftBehind
<1> QED BY <1>1, ConnectionInvariance, PTL

-----------------------------------------------------------------------------
(* From here on, what the parser makes of the text.  A chunk is decoded as  *)
(* part of the whole (DecodeInTwo), the first boundary stays where it is    *)
(* whatever comes behind it (BoundaryStays), so what was passed on and what *)
(* is in the buffer follow from the text whatever is still to come          *)
(* (Follows); a parser reads on only when its buffer has no frame.          *)

Characters == (Bytes \ {"half", "rest", "bad"}) \cup {"wide"}

Partials == {<<>>, <<"half">>}

Decodings == [ok : BOOLEAN, chars : Seq(Characters), partial : Partials]

(* Induction over the numbers up to N, of a set.                            *)
LEMMA UpToN ==
  ASSUME NEW N \in Nat, NEW S,
         \A n \in 0 .. N : (\A m \in 0 .. n - 1 : m \in S) => n \in S
  PROVE  0 .. N \subseteq S
<1> SUFFICES ASSUME (0 .. N) \ S # {} PROVE FALSE
  OBVIOUS
<1> DEFINE T == (0 .. N) \ S
<1>1. T \subseteq Nat
  OBVIOUS
<1>2. PICK n \in T : \A m \in T : n <= m
  <2> HIDE DEF T
  <2>1. T # {}
    BY DEF T
  <2> QED BY <1>1, <2>1, SmallestOf
<1>3. \A m \in 0 .. n - 1 : m \in S
  <2> SUFFICES ASSUME NEW m \in 0 .. n - 1, m \notin S PROVE FALSE
    OBVIOUS
  <2>1. m \in 0 .. N /\ m < n
    OBVIOUS
  <2> QED BY <1>2, <2>1
<1> QED BY <1>2, <1>3

-----------------------------------------------------------------------------
(* Decoding.                                                                *)

LEMMA DecodeByteType ==
  ASSUME NEW decoded \in Decodings, NEW byte \in Bytes
  PROVE  DecodeByte(decoded, byte) \in Decodings
<1>1. CASE byte = "half" /\ decoded.partial = <<>>
  BY <1>1 DEF DecodeByte, Decodings, Partials
<1>2. CASE byte = "rest" /\ decoded.partial # <<>>
  <2>1. Append(decoded.chars, "wide") \in Seq(Characters)
    BY DEF Decodings, Characters
  <2>2. DecodeByte(decoded, byte) = [decoded EXCEPT !.partial = <<>>, !.chars = Append(@, "wide")]
    BY <1>2 DEF DecodeByte
  <2> QED BY <2>1, <2>2 DEF Decodings, Partials
<1>3. CASE byte \notin {"half", "rest", "bad"} /\ decoded.partial = <<>>
  <2>1. Append(decoded.chars, byte) \in Seq(Characters)
    BY <1>3 DEF Decodings, Characters
  <2>2. DecodeByte(decoded, byte) = [decoded EXCEPT !.chars = Append(@, byte)]
    BY <1>3 DEF DecodeByte
  <2> QED BY <2>1, <2>2 DEF Decodings, Partials
<1>4. CASE /\ ~ (byte = "half" /\ decoded.partial = <<>>)
           /\ ~ (byte = "rest" /\ decoded.partial # <<>>)
           /\ ~ (byte \notin {"half", "rest", "bad"} /\ decoded.partial = <<>>)
  <2>1. DecodeByte(decoded, byte) = [decoded EXCEPT !.ok = FALSE]
    BY <1>4 DEF DecodeByte
  <2> QED BY <2>1 DEF Decodings
<1> QED BY <1>1, <1>2, <1>3, <1>4

(* f[n] is what the first n bytes come to.                                  *)
DecodesAs(f, partial, bytes) ==
  /\ f[0] = [ok |-> TRUE, chars |-> <<>>, partial |-> partial]
  /\ \A n \in 1 .. Len(bytes) : f[n] = DecodeByte(f[n - 1], bytes[n])

(* The recursive function of DecodeBytes() exists.                          *)
LEMMA ByteByByte ==
  ASSUME NEW partial, NEW bytes, Len(bytes) \in Nat
  PROVE  \E f : DecodesAs(f, partial, bytes) /\ DecodeBytes(partial, bytes) = f[Len(bytes)]
<1> DEFINE N == Len(bytes)
           first == [ok |-> TRUE, chars |-> <<>>, partial |-> partial]
           after[n \in 0 .. N] == IF n = 0 THEN first ELSE DecodeByte(after[n - 1], bytes[n])
<1>1. DecodeBytes(partial, bytes) = after[N]
  BY DEF DecodeBytes
<1> HIDE DEF first, N
<1>2. N \in Nat
  BY DEF N
<1> DEFINE Fits(g, m) == g = [n \in 0 .. m |-> IF n = 0 THEN first ELSE DecodeByte(g[n - 1], bytes[n])]
           S == {m \in 0 .. N : \E g : Fits(g, m)}
<1>3. \E f : f = [n \in 0 .. N |-> IF n = 0 THEN first ELSE DecodeByte(f[n - 1], bytes[n])]
  <2>1. ASSUME NEW m \in 0 .. N, \A k \in 0 .. m - 1 : k \in S
        PROVE  \E g : Fits(g, m)
    <3>1. CASE m = 0
      <4> DEFINE g == [n \in 0 .. 0 |-> first]
      <4>1. Fits(g, 0)
        OBVIOUS
      <4> QED BY <3>1, <4>1
    <3>2. CASE m > 0
      <4>1. m - 1 \in S
        <5>1. m - 1 \in 0 .. m - 1
          BY <3>2
        <5> HIDE DEF S
        <5> QED BY <2>1, <5>1
      <4>2. PICK h : Fits(h, m - 1)
        BY <4>1
      <4> DEFINE g == [n \in 0 .. m |-> IF n = m THEN DecodeByte(h[m - 1], bytes[m]) ELSE h[n]]
      <4>3. ASSUME NEW n \in 0 .. m
            PROVE  g[n] = IF n = 0 THEN first ELSE DecodeByte(g[n - 1], bytes[n])
        <5>1. CASE n = m
          <6>1. g[n - 1] = h[m - 1]
            BY <5>1, <3>2
          <6> QED BY <5>1, <6>1, <3>2
        <5>2. CASE n < m /\ n > 0
          <6>1. g[n] = h[n] /\ g[n - 1] = h[n - 1]
            BY <5>2
          <6>2. n \in 0 .. m - 1 /\ n # 0
            BY <5>2
          <6>3. h[n] = DecodeByte(h[n - 1], bytes[n])
            BY <4>2, <6>2
          <6> QED BY <5>2, <6>1, <6>3
        <5>3. CASE n = 0
          <6>1. g[0] = h[0] /\ 0 \in 0 .. m - 1
            BY <5>3, <3>2
          <6>2. h[0] = first
            BY <4>2, <6>1
          <6> QED BY <5>3, <6>1, <6>2
        <5> QED BY <5>1, <5>2, <5>3
      <4>4. Fits(g, m)
        <5> DEFINE G(n) == IF n = 0 THEN first ELSE DecodeByte(g[n - 1], bytes[n])
        <5>1. g = [n \in 0 .. m |-> g[n]]
          OBVIOUS
        <5>2. \A n \in 0 .. m : g[n] = G(n)
          BY <4>3
        <5> HIDE DEF g
        <5> QED BY <5>1, <5>2
      <4> QED BY <4>4
    <3> QED BY <3>1, <3>2
  <2>2. \A m \in 0 .. N : (\A k \in 0 .. m - 1 : k \in S) => m \in S
    BY <2>1
  <2> HIDE DEF S
  <2>3. N \in S
    BY <1>2, <2>2, UpToN, SMTT(30)
  <2> QED BY <2>3 DEF S
<1>4. after = [n \in 0 .. N |-> IF n = 0 THEN first ELSE DecodeByte(after[n - 1], bytes[n])]
  BY <1>3
<1> HIDE DEF after
<1>5. after[0] = first /\ \A n \in 1 .. N : after[n] = DecodeByte(after[n - 1], bytes[n])
  BY <1>2, <1>4
<1>6. DecodesAs(after, partial, bytes)
  BY <1>5 DEF DecodesAs, first, N
<1> QED BY <1>1, <1>6 DEF N

LEMMA DecodingsType ==
  ASSUME NEW partial \in Partials, NEW bytes \in Seq(Bytes), NEW f, DecodesAs(f, partial, bytes)
  PROVE  \A n \in 0 .. Len(bytes) : f[n] \in Decodings
<1> DEFINE N == Len(bytes)
           S == {n \in 0 .. N : f[n] \in Decodings}
<1>1. ASSUME NEW n \in 0 .. N, \A m \in 0 .. n - 1 : m \in S
      PROVE  f[n] \in Decodings
  <2>1. CASE n = 0
    <3>1. <<>> \in Seq(Characters)
      OBVIOUS
    <3>2. [ok |-> TRUE, chars |-> <<>>, partial |-> partial] \in Decodings
      BY <3>1 DEF Decodings
    <3> QED BY <2>1, <3>2 DEF DecodesAs
  <2>2. CASE n > 0
    <3>1. n - 1 \in S
      <4>1. n - 1 \in 0 .. n - 1
        BY <2>2
      <4> HIDE DEF S
      <4> QED BY <1>1, <4>1
    <3>2. n \in 1 .. N /\ bytes[n] \in Bytes
      BY <2>2
    <3>3. f[n] = DecodeByte(f[n - 1], bytes[n])
      BY <3>2 DEF DecodesAs
    <3> QED BY <3>1, <3>2, <3>3, DecodeByteType
  <2> QED BY <2>1, <2>2
<1>2. \A n \in 0 .. N : (\A m \in 0 .. n - 1 : m \in S) => n \in S
  BY <1>1
<1>3. N \in Nat
  OBVIOUS
<1> HIDE DEF S
<1>4. 0 .. N \subseteq S
  BY <1>2, <1>3, UpToN
<1> QED BY <1>4 DEF S

LEMMA DecodeType ==
  ASSUME NEW partial \in Partials, NEW bytes \in Seq(Bytes)
  PROVE  DecodeBytes(partial, bytes) \in Decodings
<1>1. Len(bytes) \in Nat
  OBVIOUS
<1>2. PICK f : DecodesAs(f, partial, bytes) /\ DecodeBytes(partial, bytes) = f[Len(bytes)]
  BY <1>1, ByteByByte
<1> QED BY <1>1, <1>2, DecodingsType

(* What comes to these characters after those.                              *)
After(chars, decoded) ==
  [ok |-> decoded.ok, chars |-> chars \o decoded.chars, partial |-> decoded.partial]

LEMMA AfterFields ==
  ASSUME NEW chars, NEW decoded
  PROVE  /\ After(chars, decoded).chars = chars \o decoded.chars
         /\ After(chars, decoded).partial = decoded.partial
         /\ After(chars, decoded).ok = decoded.ok
BY DEF After

LEMMA DecodeByteAfter ==
  ASSUME NEW chars \in Seq(Characters), NEW decoded \in Decodings, NEW byte \in Bytes
  PROVE  DecodeByte(After(chars, decoded), byte) = After(chars, DecodeByte(decoded, byte))
<1>1. decoded.chars \in Seq(Characters)
  BY DEF Decodings
<1>2. /\ After(chars, decoded).partial = decoded.partial /\ After(chars, decoded).ok = decoded.ok
      /\ After(chars, decoded).chars = chars \o decoded.chars
  BY DEF After
<1>3. CASE byte = "half" /\ decoded.partial = <<>>
  BY <1>2, <1>3 DEF DecodeByte, Decodings, After
<1>4. ASSUME NEW char \in Characters
      PROVE  Append(chars \o decoded.chars, char) = chars \o Append(decoded.chars, char)
  <2> DEFINE said == decoded.chars
             one == <<char>>
  <2>1. said \in Seq(Characters) /\ one \in Seq(Characters) /\ chars \o said \in Seq(Characters)
    BY <1>1
  <2> HIDE DEF said
  <2>2. Append(said, char) = said \o one /\ Append(chars \o said, char) = (chars \o said) \o one
    BY <2>1, AppendIsConcat
  <2> HIDE DEF one
  <2>3. (chars \o said) \o one = chars \o (said \o one)
    BY <2>1, ConcatAssociative
  <2> QED BY <2>2, <2>3 DEF said
<1>5. CASE byte = "rest" /\ decoded.partial # <<>>
  <2>1. Append(chars \o decoded.chars, "wide") = chars \o Append(decoded.chars, "wide")
    BY <1>4 DEF Characters
  <2> QED BY <1>2, <1>5, <2>1 DEF DecodeByte, Decodings, After
<1>6. CASE byte \notin {"half", "rest", "bad"} /\ decoded.partial = <<>>
  <2>1. Append(chars \o decoded.chars, byte) = chars \o Append(decoded.chars, byte)
    BY <1>4, <1>6 DEF Characters
  <2> QED BY <1>2, <1>6, <2>1 DEF DecodeByte, Decodings, After
<1>7. CASE /\ ~ (byte = "half" /\ decoded.partial = <<>>)
           /\ ~ (byte = "rest" /\ decoded.partial # <<>>)
           /\ ~ (byte \notin {"half", "rest", "bad"} /\ decoded.partial = <<>>)
  <2>1. /\ DecodeByte(decoded, byte) = [decoded EXCEPT !.ok = FALSE]
        /\ DecodeByte(After(chars, decoded), byte) = [After(chars, decoded) EXCEPT !.ok = FALSE]
    BY <1>2, <1>7 DEF DecodeByte
  <2>2. DecodeByte(decoded, byte) = [ok |-> FALSE, chars |-> decoded.chars, partial |-> decoded.partial]
    BY <2>1 DEF Decodings
  <2>3. DecodeByte(After(chars, decoded), byte) =
          [ok |-> FALSE, chars |-> chars \o decoded.chars, partial |-> decoded.partial]
    BY <2>1 DEF After
  <2> QED BY <2>2, <2>3 DEF After
<1> QED BY <1>3, <1>5, <1>6, <1>7

(* Bytes that come in two chunks are decoded like those that come in one.   *)
LEMMA DecodeInTwo ==
  ASSUME NEW partial \in Partials, NEW before \in Seq(Bytes), NEW after \in Seq(Bytes),
         DecodeBytes(partial, before).ok
  PROVE  LET first  == DecodeBytes(partial, before)
             second == DecodeBytes(first.partial, after)
         IN DecodeBytes(partial, before \o after) = After(first.chars, second)
<1> DEFINE first == DecodeBytes(partial, before)
           B == Len(before)
           N == Len(after)
           whole == before \o after
<1>1. /\ B \in Nat /\ N \in Nat /\ whole \in Seq(Bytes) /\ Len(whole) = B + N
      /\ \A n \in 1 .. B : whole[n] = before[n] /\ \A m \in 1 .. N : whole[B + m] = after[m]
  OBVIOUS
<1>2. first \in Decodings /\ first.partial \in Partials /\ first.chars \in Seq(Characters)
  BY DecodeType DEF Decodings
<1>3. PICK f : DecodesAs(f, partial, before) /\ first = f[B]
  BY <1>1, ByteByByte
<1>4. PICK g : DecodesAs(g, first.partial, after) /\ DecodeBytes(first.partial, after) = g[N]
  BY <1>1, ByteByByte
<1>5. PICK h : DecodesAs(h, partial, whole) /\ DecodeBytes(partial, whole) = h[B + N]
  <2> HIDE DEF whole
  <2>1. Len(whole) \in Nat
    BY <1>1
  <2>2. PICK h : DecodesAs(h, partial, whole) /\ DecodeBytes(partial, whole) = h[Len(whole)]
    BY <2>1, ByteByByte
  <2>3. Len(whole) = B + N
    BY <1>1
  <2> QED BY <2>2, <2>3
<1>6. \A n \in 0 .. N : g[n] \in Decodings
  BY <1>2, <1>4, DecodingsType
<1> HIDE DEF first
<1>7. h[B] = first
  <2> DEFINE S == {n \in 0 .. B : h[n] = f[n]}
  <2>1. ASSUME NEW n \in 0 .. B, \A m \in 0 .. n - 1 : m \in S
        PROVE  h[n] = f[n]
    <3>1. CASE n = 0
      BY <1>3, <1>5, <3>1 DEF DecodesAs
    <3>2. CASE n > 0
      <4>1. n - 1 \in S
        <5>1. n - 1 \in 0 .. n - 1
          BY <3>2
        <5> HIDE DEF S
        <5> QED BY <2>1, <5>1
      <4>2. n \in 1 .. B /\ n \in 1 .. B + N /\ whole[n] = before[n]
        BY <1>1, <3>2
      <4> HIDE DEF whole
      <4> QED BY <1>1, <1>3, <1>5, <4>1, <4>2 DEF DecodesAs
    <3> QED BY <3>1, <3>2
  <2>2. \A n \in 0 .. B : (\A m \in 0 .. n - 1 : m \in S) => n \in S
    BY <2>1
  <2> HIDE DEF S
  <2>3. 0 .. B \subseteq S
    BY <1>1, <2>2, UpToN
  <2> QED BY <1>1, <1>3, <2>3 DEF S
<1>8. h[B + N] = After(first.chars, g[N])
  <2> DEFINE S == {n \in 0 .. N : h[B + n] = After(first.chars, g[n])}
  <2>1. ASSUME NEW n \in 0 .. N, \A m \in 0 .. n - 1 : m \in S
        PROVE  h[B + n] = After(first.chars, g[n])
    <3>1. CASE n = 0
      <4>1. g[0] = [ok |-> TRUE, chars |-> <<>>, partial |-> first.partial]
        BY <1>4 DEF DecodesAs
      <4>2. first.chars \o <<>> = first.chars
        BY <1>2
      <4>3. first = [ok |-> TRUE, chars |-> first.chars, partial |-> first.partial]
        <5>1. first.ok
          BY DEF first
        <5> QED BY <1>2, <5>1 DEF Decodings
      <4>4. After(first.chars, g[0]) = first
        <5>1. g[0].ok = TRUE /\ g[0].chars = <<>> /\ g[0].partial = first.partial
          BY <4>1
        <5> QED BY <4>2, <4>3, <5>1 DEF After
      <4>5. B + n = B
        BY <1>1, <3>1
      <4> QED BY <1>7, <3>1, <4>4, <4>5
    <3>2. CASE n > 0
      <4>1. n - 1 \in S
        <5>1. n - 1 \in 0 .. n - 1
          BY <3>2
        <5> HIDE DEF S
        <5> QED BY <2>1, <5>1
      <4>2. h[B + n - 1] = After(first.chars, g[n - 1])
        <5>1. B + (n - 1) = B + n - 1
          BY <1>1
        <5> QED BY <4>1, <5>1
      <4>3. n \in 1 .. N /\ B + n \in 1 .. B + N /\ whole[B + n] = after[n] /\ after[n] \in Bytes
        BY <1>1, <3>2
      <4>4. h[B + n] = DecodeByte(h[B + n - 1], after[n])
        <5> HIDE DEF whole
        <5> QED BY <1>1, <1>5, <4>3 DEF DecodesAs
      <4>5. g[n] = DecodeByte(g[n - 1], after[n])
        BY <1>4, <4>3 DEF DecodesAs
      <4>6. g[n - 1] \in Decodings
        <5>1. n - 1 \in 0 .. N
          BY <3>2
        <5> QED BY <1>6, <5>1
      <4> QED BY <1>2, <4>2, <4>3, <4>4, <4>5, <4>6, DecodeByteAfter, SMTT(30)
    <3> QED BY <3>1, <3>2
  <2>2. \A n \in 0 .. N : (\A m \in 0 .. n - 1 : m \in S) => n \in S
    BY <2>1
  <2> HIDE DEF S
  <2>3. 0 .. N \subseteq S
    BY <1>1, <2>2, UpToN
  <2> QED BY <1>1, <2>3 DEF S
<1> QED BY <1>4, <1>5, <1>8 DEF first

-----------------------------------------------------------------------------
(* Bytes.                                                                   *)

LEMMA ShiftedSet ==
  ASSUME NEW T, T \subseteq Nat, IsFiniteSet(T), NEW k \in Nat
  PROVE  /\ IsFiniteSet({k + i : i \in T})
         /\ Cardinality({k + i : i \in T}) = Cardinality(T)
<1> DEFINE U == {k + i : i \in T}
           f == [i \in T |-> k + i]
<1>1. f \in [T -> U] /\ \A i \in T : f[i] = k + i
  OBVIOUS
<1>2. \A u \in U : \E i \in T : f[i] = u
  OBVIOUS
<1>3. \A i, j \in T : f[i] = f[j] => i = j
  OBVIOUS
<1> HIDE DEF f, U
<1>4. f \in Surjection(T, U) /\ f \in Injection(T, U)
  BY <1>1, <1>2, <1>3 DEF Surjection, Injection, IsInjective
<1> QED BY <1>4, FS_Surjection DEF U

LEMMA PositionsFinite ==
  ASSUME NEW S, NEW text \in Seq(S), NEW unit
  PROVE  /\ IsFiniteSet(Positions(text, unit)) /\ Positions(text, unit) \subseteq 1 .. Len(text)
         /\ Cardinality(Positions(text, unit)) \in Nat
<1>1. Positions(text, unit) \subseteq 1 .. Len(text)
  BY DEF Positions
<1>2. IsFiniteSet(1 .. Len(text))
  BY FS_Interval
<1> QED BY <1>1, <1>2, FS_Subset, FS_CardinalityType

LEMMA PositionsInTwo ==
  ASSUME NEW S, NEW before \in Seq(S), NEW after \in Seq(S), NEW unit
  PROVE  Cardinality(Positions(before \o after, unit)) =
           Cardinality(Positions(before, unit)) + Cardinality(Positions(after, unit))
<1> DEFINE A == Positions(before, unit)
           B == Positions(after, unit)
           C == {Len(before) + i : i \in B}
<1>1. /\ A \subseteq 1 .. Len(before) /\ IsFiniteSet(A) /\ Cardinality(A) \in Nat
      /\ B \subseteq 1 .. Len(after) /\ IsFiniteSet(B) /\ Cardinality(B) \in Nat
  BY PositionsFinite
<1>2. Positions(before \o after, unit) = A \cup C
  BY DEF Positions
<1>3. A \cap C = {}
  BY <1>1
<1>4. IsFiniteSet(C) /\ Cardinality(C) = Cardinality(B)
  <2>1. B \subseteq Nat /\ Len(before) \in Nat
    BY <1>1
  <2> HIDE DEF A, B
  <2> QED BY <1>1, <2>1, ShiftedSet
<1> HIDE DEF A, B, C
<1>5. Cardinality(A \cup C) = Cardinality(A) + Cardinality(C) - Cardinality(A \cap C)
  BY <1>1, <1>4, FS_Union
<1>6. Cardinality(A \cap C) = 0
  BY <1>3, FS_EmptySet
<1> QED BY <1>1, <1>2, <1>4, <1>5, <1>6 DEF A, B

LEMMA ByteLengthOfTwo ==
  ASSUME NEW before \in Seq(Characters), NEW after \in Seq(Characters)
  PROVE  /\ ByteLength(before \o after) = ByteLength(before) + ByteLength(after)
         /\ ByteLength(before) \in Nat /\ ByteLength(after) \in Nat
<1>1. Cardinality(Positions(before \o after, "wide")) =
        Cardinality(Positions(before, "wide")) + Cardinality(Positions(after, "wide"))
  BY PositionsInTwo
<1>2. Cardinality(Positions(before, "wide")) \in Nat /\ Cardinality(Positions(after, "wide")) \in Nat
  BY PositionsFinite
<1>3. Len(before \o after) = Len(before) + Len(after) /\ Len(before) \in Nat /\ Len(after) \in Nat
  OBVIOUS
<1> QED BY <1>1, <1>2, <1>3 DEF ByteLength

LEMMA ByteLengthType ==
  ASSUME NEW chars \in Seq(Characters)
  PROVE  ByteLength(chars) \in Nat
<1>1. Cardinality(Positions(chars, "wide")) \in Nat
  BY PositionsFinite
<1> QED BY <1>1 DEF ByteLength

LEMMA ByteLengthOfNone == ByteLength(<<>>) = 0
<1>1. Positions(<<>>, "wide") = {}
  BY DEF Positions
<1>2. Cardinality(Positions(<<>>, "wide")) = 0
  BY <1>1, FS_EmptySet
<1> QED BY <1>2 DEF ByteLength

LEMMA ByteLengthOfOneMore ==
  ASSUME NEW chars \in Seq(Characters), NEW char \in Characters
  PROVE  /\ ByteLength(Append(chars, char)) = ByteLength(chars) + (IF char = "wide" THEN 2 ELSE 1)
         /\ ByteLength(chars) \in Nat
<1> DEFINE A == Positions(chars, "wide")
           B == Positions(Append(chars, char), "wide")
<1>1. IsFiniteSet(A) /\ A \subseteq 1 .. Len(chars) /\ Cardinality(A) \in Nat
  BY PositionsFinite
<1>2. B = IF char = "wide" THEN A \cup {Len(chars) + 1} ELSE A
  BY DEF Positions
<1>3. Len(Append(chars, char)) = Len(chars) + 1 /\ Len(chars) \in Nat /\ Len(chars) + 1 \notin A
  BY <1>1
<1> HIDE DEF A, B
<1>4. Cardinality(A \cup {Len(chars) + 1}) = Cardinality(A) + 1
  BY <1>1, <1>3, FS_AddElement
<1>5. Cardinality(B) = Cardinality(A) + (IF char = "wide" THEN 1 ELSE 0)
  BY <1>1, <1>2, <1>4
<1> QED BY <1>1, <1>3, <1>5 DEF A, B, ByteLength

(* A byte is in the characters or waits for the rest of its character.      *)
HeldBytes(decoded) == ByteLength(decoded.chars) + Len(decoded.partial)

LEMMA DecodedByteHeld ==
  ASSUME NEW decoded \in Decodings, NEW byte \in Bytes, DecodeByte(decoded, byte).ok
  PROVE  /\ HeldBytes(DecodeByte(decoded, byte)) = HeldBytes(decoded) + 1
         /\ decoded.ok
<1>1. decoded.chars \in Seq(Characters) /\ decoded.partial \in Partials /\ decoded.ok \in BOOLEAN
  BY DEF Decodings
<1>2. Len(<<>>) = 0 /\ Len(<<"half">>) = 1 /\ <<"half">> # <<>>
  OBVIOUS
<1>3. CASE byte = "half" /\ decoded.partial = <<>>
  <2>1. /\ DecodeByte(decoded, byte).chars = decoded.chars
        /\ DecodeByte(decoded, byte).partial = <<"half">>
        /\ DecodeByte(decoded, byte).ok = decoded.ok
    BY <1>3 DEF DecodeByte, Decodings
  <2>2. ByteLength(decoded.chars) \in Nat
    BY <1>1, ByteLengthType
  <2>3. decoded.ok
    BY <2>1
  <2>4. Len(DecodeByte(decoded, byte).partial) = 1
    BY <2>1
  <2>5. Len(decoded.partial) = 0
    BY <1>3
  <2>6. ByteLength(DecodeByte(decoded, byte).chars) = ByteLength(decoded.chars)
    BY <2>1
  <2> QED BY <2>2, <2>3, <2>4, <2>5, <2>6 DEF HeldBytes
<1>4. CASE byte = "rest" /\ decoded.partial # <<>>
  <2>1. /\ DecodeByte(decoded, byte).chars = Append(decoded.chars, "wide")
        /\ DecodeByte(decoded, byte).partial = <<>>
        /\ DecodeByte(decoded, byte).ok = decoded.ok
    BY <1>4 DEF DecodeByte, Decodings
  <2>2. /\ ByteLength(Append(decoded.chars, "wide")) = ByteLength(decoded.chars) + 2
        /\ ByteLength(decoded.chars) \in Nat
    BY <1>1, ByteLengthOfOneMore DEF Characters
  <2>3. decoded.partial = <<"half">>
    BY <1>1, <1>4 DEF Partials
  <2> QED BY <1>1, <1>2, <2>1, <2>2, <2>3 DEF HeldBytes
<1>5. CASE byte \notin {"half", "rest", "bad"} /\ decoded.partial = <<>>
  <2>1. /\ DecodeByte(decoded, byte).chars = Append(decoded.chars, byte)
        /\ DecodeByte(decoded, byte).partial = decoded.partial
        /\ DecodeByte(decoded, byte).ok = decoded.ok
    BY <1>5 DEF DecodeByte, Decodings
  <2>2. /\ ByteLength(Append(decoded.chars, byte)) = ByteLength(decoded.chars) + 1
        /\ ByteLength(decoded.chars) \in Nat
    <3>1. byte \in Characters /\ byte # "wide"
      BY <1>5 DEF Characters, Bytes
    <3> QED BY <1>1, <3>1, ByteLengthOfOneMore
  <2> QED BY <1>1, <1>2, <1>5, <2>1, <2>2 DEF HeldBytes
<1>6. CASE /\ ~ (byte = "half" /\ decoded.partial = <<>>)
           /\ ~ (byte = "rest" /\ decoded.partial # <<>>)
           /\ ~ (byte \notin {"half", "rest", "bad"} /\ decoded.partial = <<>>)
  BY <1>6 DEF DecodeByte, Decodings
<1> QED BY <1>3, <1>4, <1>5, <1>6

LEMMA DecodedHeld ==
  ASSUME NEW partial \in Partials, NEW bytes \in Seq(Bytes), DecodeBytes(partial, bytes).ok
  PROVE  HeldBytes(DecodeBytes(partial, bytes)) = Len(partial) + Len(bytes)
<1> DEFINE N == Len(bytes)
<1>1. N \in Nat
  OBVIOUS
<1>2. PICK f : DecodesAs(f, partial, bytes) /\ DecodeBytes(partial, bytes) = f[N]
  BY <1>1, ByteByByte
<1>3. \A n \in 0 .. N : f[n] \in Decodings
  BY <1>2, DecodingsType
<1> DEFINE S == {n \in 0 .. N : f[n].ok => HeldBytes(f[n]) = Len(partial) + n}
<1>4. ASSUME NEW n \in 0 .. N, \A m \in 0 .. n - 1 : m \in S, f[n].ok
      PROVE  HeldBytes(f[n]) = Len(partial) + n
  <2>1. CASE n = 0
    <3>1. f[0].chars = <<>> /\ f[0].partial = partial
      BY <1>2 DEF DecodesAs
    <3>2. Len(partial) \in Nat
      BY DEF Partials
    <3> QED BY <2>1, <3>1, <3>2, ByteLengthOfNone DEF HeldBytes
  <2>2. CASE n > 0
    <3>1. n - 1 \in S
      <4>1. n - 1 \in 0 .. n - 1
        BY <2>2
      <4> HIDE DEF S
      <4> QED BY <1>4, <4>1
    <3>2. n \in 1 .. N /\ bytes[n] \in Bytes /\ n - 1 \in 0 .. N
      BY <2>2
    <3>3. f[n] = DecodeByte(f[n - 1], bytes[n]) /\ f[n - 1] \in Decodings
      BY <1>2, <1>3, <3>2 DEF DecodesAs
    <3>4. HeldBytes(f[n]) = HeldBytes(f[n - 1]) + 1 /\ f[n - 1].ok
      BY <1>4, <3>2, <3>3, DecodedByteHeld
    <3>5. HeldBytes(f[n - 1]) = Len(partial) + (n - 1)
      BY <3>1, <3>4
    <3>6. Len(partial) \in Nat
      BY DEF Partials
    <3> QED BY <3>4, <3>5, <3>6
  <2> QED BY <2>1, <2>2
<1>5. \A n \in 0 .. N : (\A m \in 0 .. n - 1 : m \in S) => n \in S
  BY <1>4
<1> HIDE DEF S
<1>6. 0 .. N \subseteq S
  BY <1>1, <1>5, UpToN
<1> QED BY <1>1, <1>2, <1>6 DEF S

-----------------------------------------------------------------------------
(* Boundaries.                                                              *)

SecondEnd(chars, i) == IF i + 1 \in Positions(chars, "cr") THEN i + 2 ELSE i + 1

(* The line ends that another one follows.                                  *)
Ends(chars) ==
  {i \in Positions(chars, "lf") : SecondEnd(chars, i) \in Positions(chars, "lf")}

BoundaryAt(chars, i) ==
  LET start == IF i - 1 \in Positions(chars, "cr") THEN i - 1 ELSE i
  IN <<start, SecondEnd(chars, i) - start + 1>>

LEMMA FoundBoundary ==
  ASSUME NEW chars \in Seq(Characters)
  PROVE  /\ Ends(chars) \subseteq 1 .. Len(chars)
         /\ FindBoundary(chars) = <<>> <=> Ends(chars) = {}
         /\ \A i \in Ends(chars) :
              (\A j \in Ends(chars) : i <= j) => FindBoundary(chars) = BoundaryAt(chars, i)
         /\ Ends(chars) # {} => \E i \in Ends(chars) : \A j \in Ends(chars) : i <= j
<1>1. Ends(chars) \subseteq 1 .. Len(chars)
  BY DEF Ends, Positions
<1>2. FindBoundary(chars) =
        IF Ends(chars) = {} THEN <<>> ELSE BoundaryAt(chars, Min(Ends(chars)))
  BY DEF FindBoundary, Ends, BoundaryAt, SecondEnd
<1>3. \A i : BoundaryAt(chars, i) # <<>>
  BY DEF BoundaryAt
<1>4. Ends(chars) # {} =>
        /\ Min(Ends(chars)) \in Ends(chars)
        /\ \A j \in Ends(chars) : Min(Ends(chars)) <= j
  <2>1. Ends(chars) \subseteq Nat
    BY <1>1
  <2> QED BY <2>1, SmallestOf
<1>5. ASSUME NEW i \in Ends(chars), \A j \in Ends(chars) : i <= j
      PROVE  FindBoundary(chars) = BoundaryAt(chars, i)
  <2>1. i = Min(Ends(chars))
    BY <1>1, <1>4, <1>5
  <2> QED BY <1>2, <2>1
<1>6. FindBoundary(chars) = <<>> <=> Ends(chars) = {}
  BY <1>2, <1>3
<1> QED BY <1>1, <1>4, <1>5, <1>6

LEMMA BoundaryStays ==
  ASSUME NEW chars \in Seq(Characters), FindBoundary(chars) # <<>>,
         NEW more \in Seq(Characters)
  PROVE  /\ FindBoundary(chars \o more) = FindBoundary(chars)
         /\ FindBoundary(chars)[1] \in 1 .. Len(chars)
         /\ FrameTakes(chars) \in 1 .. Len(chars)
         /\ FindBoundary(chars)[1] <= FrameTakes(chars)
<1> DEFINE whole == chars \o more
           N == Len(chars)
<1>1. PICK i \in Ends(chars) : \A j \in Ends(chars) : i <= j
  BY FoundBoundary
<1>2. FindBoundary(chars) = BoundaryAt(chars, i)
  BY <1>1, FoundBoundary
<1>3. /\ whole \in Seq(Characters) /\ N \in Nat /\ N <= Len(whole)
      /\ \A k \in 1 .. N : whole[k] = chars[k]
  OBVIOUS
<1> HIDE DEF whole
<1>4. \A unit : \A k \in 1 .. N : k \in Positions(whole, unit) <=> k \in Positions(chars, unit)
  BY <1>3 DEF Positions
<1>5. \A unit : Positions(chars, unit) \subseteq 1 .. N
  BY DEF Positions
<1>6. i \in 1 .. N /\ SecondEnd(chars, i) \in 1 .. N /\ SecondEnd(chars, i) \in {i + 1, i + 2}
  BY <1>1, <1>5 DEF Ends, SecondEnd
<1>7. \A k \in 1 .. N - 1 : SecondEnd(whole, k) = SecondEnd(chars, k)
  BY <1>4 DEF SecondEnd
<1>8. i \in Ends(whole)
  BY <1>1, <1>4, <1>6, <1>7 DEF Ends
<1>9. ASSUME NEW j \in Ends(whole) PROVE i <= j
  <2>1. j \in Nat /\ SecondEnd(whole, j) \in Positions(whole, "lf") /\ j \in Positions(whole, "lf")
        /\ SecondEnd(whole, j) \in {j + 1, j + 2}
    BY <1>3 DEF Ends, Positions, SecondEnd
  <2>2. SUFFICES ASSUME j < i PROVE FALSE
    BY <1>6, <2>1
  <2>3. j \in 1 .. N - 1 /\ SecondEnd(whole, j) \in 1 .. N
    <3>1. j >= 1
      BY <1>3, <2>1 DEF Positions
    <3> QED BY <1>6, <2>1, <2>2, <3>1
  <2>4. j \in Ends(chars)
    BY <1>4, <1>7, <2>1, <2>3 DEF Ends
  <2> QED BY <1>1, <1>6, <2>2, <2>4
<1>10. BoundaryAt(whole, i) = BoundaryAt(chars, i)
  <2>1. i - 1 \in Positions(whole, "cr") <=> i - 1 \in Positions(chars, "cr")
    <3>1. CASE i - 1 \in 1 .. N
      BY <1>4, <3>1
    <3>2. CASE i - 1 = 0
      BY <3>2, <1>3 DEF Positions
    <3> QED BY <1>6, <3>1, <3>2
  <2>2. SecondEnd(whole, i) = SecondEnd(chars, i)
    BY <1>6, <1>7
  <2> QED BY <2>1, <2>2 DEF BoundaryAt
<1>11. FindBoundary(whole) = FindBoundary(chars)
  BY <1>2, <1>3, <1>8, <1>9, <1>10, FoundBoundary
<1>12. /\ FindBoundary(chars)[1] \in {i - 1, i} /\ FindBoundary(chars)[1] \in 1 .. N
       /\ FrameTakes(chars) = SecondEnd(chars, i)
  <2> DEFINE start == IF i - 1 \in Positions(chars, "cr") THEN i - 1 ELSE i
  <2>1. start \in 1 .. N /\ start \in {i - 1, i}
    BY <1>5, <1>6
  <2> HIDE DEF start
  <2>2. FindBoundary(chars) = <<start, SecondEnd(chars, i) - start + 1>>
    BY <1>2 DEF BoundaryAt, start
  <2> QED BY <1>6, <2>1, <2>2 DEF FrameTakes
<1> QED BY <1>6, <1>11, <1>12 DEF whole

-----------------------------------------------------------------------------
(* Parsing.                                                                 *)

LEMMA SuffixFacts ==
  ASSUME NEW chars \in Seq(Characters), NEW n \in 0 .. Len(chars)
  PROVE  /\ Suffix(chars, n) \in Seq(Characters) /\ Len(Suffix(chars, n)) = n
         /\ \A m \in 0 .. n : Suffix(Suffix(chars, n), m) = Suffix(chars, m)
<1> DEFINE rest == Suffix(chars, n)
           N == Len(chars)
<1>1. N \in Nat
  OBVIOUS
<1>2. rest \in Seq(Characters) /\ Len(rest) = n /\ \A i \in 1 .. n : rest[i] = chars[N - n + i]
  BY DEF Suffix
<1> HIDE DEF rest
<1>3. ASSUME NEW m \in 0 .. n PROVE Suffix(rest, m) = Suffix(chars, m)
  <2> DEFINE a == Suffix(rest, m)
             b == Suffix(chars, m)
  <2>1. a \in Seq(Characters) /\ Len(a) = m /\ \A i \in 1 .. m : a[i] = rest[n - m + i]
    BY <1>2 DEF Suffix
  <2>2. b \in Seq(Characters) /\ Len(b) = m /\ \A i \in 1 .. m : b[i] = chars[N - m + i]
    BY DEF Suffix
  <2>3. \A i \in 1 .. m : rest[n - m + i] = chars[N - m + i]
    <3> SUFFICES ASSUME NEW i \in 1 .. m PROVE rest[n - m + i] = chars[N - m + i]
      OBVIOUS
    <3>1. n - m + i \in 1 .. n /\ N - n + (n - m + i) = N - m + i
      BY <1>1
    <3> QED BY <1>2, <3>1
  <2> HIDE DEF a, b
  <2>4. a = b
    BY <2>1, <2>2, <2>3, SeqEqual
  <2> QED BY <2>4 DEF a, b
<1> QED BY <1>2, <1>3 DEF rest

LEMMA WholeSuffix ==
  ASSUME NEW chars \in Seq(Characters)
  PROVE  Suffix(chars, Len(chars)) = chars
<1>1. Len(chars) - Len(chars) + 1 = 1
  OBVIOUS
<1>2. SubSeq(chars, 1, Len(chars)) = chars
  OBVIOUS
<1> QED BY <1>1, <1>2 DEF Suffix

(* A frame takes something, and what there is without one does not depend   *)
(* on what comes next.                                                      *)
LEMMA FrameTaken ==
  ASSUME NEW chars \in Seq(Characters)
  PROVE  \/ /\ FindBoundary(chars) = <<>>
            /\ \A next : ReadFrame(chars, next) = [events |-> <<>>, largest |-> ByteLength(chars)]
         \/ /\ FindBoundary(chars) # <<>>
            /\ FrameTakes(chars) \in 1 .. Len(chars)
<1>1. CASE FindBoundary(chars) = <<>>
  BY <1>1, Zenon DEF ReadFrame
<1>2. CASE FindBoundary(chars) # <<>>
  <2>1. <<>> \in Seq(Characters)
    OBVIOUS
  <2> QED BY <1>2, <2>1, BoundaryStays
<1> QED BY <1>1, <1>2

(* f[n] is what the last n characters come to.                              *)
ReadNext(f, chars, n) == ReadFrame(Suffix(chars, n), f[n - FrameTakes(Suffix(chars, n))])

ParsesAs(f, chars) == \A n \in 0 .. Len(chars) : f[n] = ReadNext(f, chars, n)

(* Only what f is of fewer characters matters.                              *)
LEMMA SameNext ==
  ASSUME NEW chars \in Seq(Characters), NEW n \in 0 .. Len(chars), NEW f, NEW g,
         \A m \in 0 .. n - 1 : f[m] = g[m]
  PROVE  ReadNext(f, chars, n) = ReadNext(g, chars, n)
<1> DEFINE rest == Suffix(chars, n)
           takes == FrameTakes(rest)
<1>1. rest \in Seq(Characters) /\ Len(rest) = n
  BY SuffixFacts
<1> HIDE DEF rest
<1>2. CASE FindBoundary(rest) = <<>>
  BY <1>1, <1>2, FrameTaken DEF ReadNext, rest
<1>3. CASE FindBoundary(rest) # <<>>
  <2>1. n - takes \in 0 .. n - 1
    BY <1>1, <1>3, FrameTaken
  <2>2. f[n - takes] = g[n - takes]
    BY <2>1
  <2> QED BY <2>2 DEF ReadNext, rest
<1> QED BY <1>2, <1>3

LEMMA FrameByFrame ==
  ASSUME NEW chars \in Seq(Characters)
  PROVE  \E f : ParsesAs(f, chars) /\ Parsed(chars) = f[Len(chars)]
<1> DEFINE N == Len(chars)
           Of[n \in 0 .. N] == ReadFrame(Suffix(chars, n), Of[n - FrameTakes(Suffix(chars, n))])
<1>1. Parsed(chars) = Of[N]
  BY DEF Parsed
<1>2. N \in Nat
  OBVIOUS
<1> HIDE DEF N
<1> DEFINE Fits(g, m) == g = [n \in 0 .. m |-> ReadNext(g, chars, n)]
           S == {m \in 0 .. N : \E g : Fits(g, m)}
<1>3. \E f : Fits(f, N)
  <2>1. ASSUME NEW m \in 0 .. N, \A k \in 0 .. m - 1 : k \in S
        PROVE  \E g : Fits(g, m)
    <3>1. PICK h : \A n \in 0 .. m - 1 : h[n] = ReadNext(h, chars, n)
      <4>1. CASE m = 0
        BY <4>1
      <4>2. CASE m > 0
        <5>1. m - 1 \in S
          <6>1. m - 1 \in 0 .. m - 1
            BY <4>2
          <6> HIDE DEF S
          <6> QED BY <2>1, <6>1
        <5>2. PICK h : Fits(h, m - 1)
          BY <5>1
        <5> QED BY <5>2
      <4> QED BY <4>1, <4>2
    <3> DEFINE g == [n \in 0 .. m |-> IF n = m THEN ReadNext(h, chars, m) ELSE h[n]]
    <3>2. \A n \in 0 .. m - 1 : g[n] = h[n]
      OBVIOUS
    <3>3. g[m] = ReadNext(h, chars, m)
      OBVIOUS
    <3>4. g = [n \in 0 .. m |-> g[n]]
      OBVIOUS
    <3> HIDE DEF g
    <3>5. \A n \in 0 .. m : g[n] = ReadNext(g, chars, n)
      <4> SUFFICES ASSUME NEW n \in 0 .. m PROVE g[n] = ReadNext(g, chars, n)
        OBVIOUS
      <4>1. n \in 0 .. Len(chars) /\ \A k \in 0 .. n - 1 : h[k] = g[k]
        BY <3>2 DEF N
      <4>2. ReadNext(h, chars, n) = ReadNext(g, chars, n)
        BY <4>1, SameNext
      <4>3. g[n] = ReadNext(h, chars, n)
        <5>1. CASE n = m
          BY <3>3, <5>1
        <5>2. CASE n # m
          <6>1. n \in 0 .. m - 1
            BY <5>2
          <6> QED BY <3>1, <3>2, <6>1
        <5> QED BY <5>1, <5>2
      <4> QED BY <4>2, <4>3
    <3>6. Fits(g, m)
      <4> DEFINE G(n) == ReadNext(g, chars, n)
      <4>1. \A n \in 0 .. m : g[n] = G(n)
        BY <3>5
      <4> HIDE DEF G
      <4>2. g = [n \in 0 .. m |-> G(n)]
        BY <3>4, <4>1
      <4> QED BY <4>2 DEF G
    <3> QED BY <3>6
  <2>2. \A m \in 0 .. N : (\A k \in 0 .. m - 1 : k \in S) => m \in S
    BY <2>1
  <2> HIDE DEF S
  <2>3. N \in S
    <3>1. 0 .. N \subseteq S
      BY <1>2, <2>2, UpToN
    <3> QED BY <1>2, <3>1
  <2> QED BY <2>3 DEF S
<1>4. Of = [n \in 0 .. N |-> ReadFrame(Suffix(chars, n), Of[n - FrameTakes(Suffix(chars, n))])]
  BY <1>3 DEF ReadNext
<1> HIDE DEF Of
<1>5. ParsesAs(Of, chars)
  BY <1>4 DEF ParsesAs, ReadNext, N
<1> QED BY <1>1, <1>5 DEF N

LEMMA ParsedSuffix ==
  ASSUME NEW chars \in Seq(Characters), NEW f, ParsesAs(f, chars), NEW k \in 0 .. Len(chars)
  PROVE  Parsed(Suffix(chars, k)) = f[k]
<1> DEFINE rest == Suffix(chars, k)
<1>1. /\ rest \in Seq(Characters) /\ Len(rest) = k
      /\ \A m \in 0 .. k : Suffix(rest, m) = Suffix(chars, m)
  BY SuffixFacts
<1> HIDE DEF rest
<1>2. PICK g : ParsesAs(g, rest) /\ Parsed(rest) = g[k]
  BY <1>1, FrameByFrame
<1> DEFINE S == {n \in 0 .. k : f[n] = g[n]}
<1>3. ASSUME NEW n \in 0 .. k, \A m \in 0 .. n - 1 : m \in S
      PROVE  f[n] = g[n]
  <2>1. n \in 0 .. Len(chars) /\ \A m \in 0 .. n - 1 : f[m] = g[m]
    BY <1>3
  <2>2. f[n] = ReadNext(f, chars, n)
    BY <2>1 DEF ParsesAs
  <2>3. ReadNext(f, chars, n) = ReadNext(g, chars, n)
    BY <2>1, SameNext
  <2>4. g[n] = ReadNext(g, rest, n)
    BY <1>1, <1>2 DEF ParsesAs
  <2>5. ReadNext(g, rest, n) = ReadNext(g, chars, n)
    BY <1>1 DEF ReadNext
  <2> QED BY <2>2, <2>3, <2>4, <2>5
<1>4. \A n \in 0 .. k : (\A m \in 0 .. n - 1 : m \in S) => n \in S
  BY <1>3
<1> HIDE DEF S
<1>5. k \in S
  <2>1. k \in Nat
    OBVIOUS
  <2>2. 0 .. k \subseteq S
    BY <1>4, <2>1, UpToN
  <2> QED BY <2>1, <2>2
<1> QED BY <1>2, <1>5 DEF S, rest

(* What is behind the first frame and its boundary.                         *)
Rest(chars) == SubSeq(chars, FrameTakes(chars) + 1, Len(chars))

(* A text is parsed frame by frame.                                         *)
LEMMA ParsedStep ==
  ASSUME NEW chars \in Seq(Characters)
  PROVE  Parsed(chars) = ReadFrame(chars, Parsed(Rest(chars)))
<1> DEFINE N == Len(chars)
           takes == FrameTakes(chars)
<1>1. PICK f : ParsesAs(f, chars) /\ Parsed(chars) = f[N]
  BY FrameByFrame
<1>2. N \in Nat /\ Suffix(chars, N) = chars
  BY WholeSuffix
<1>3. Parsed(chars) = ReadFrame(chars, f[N - takes])
  <2>1. f[N] = ReadNext(f, chars, N)
    BY <1>1, <1>2 DEF ParsesAs
  <2> QED BY <1>1, <1>2, <2>1 DEF ReadNext
<1>4. CASE FindBoundary(chars) = <<>>
  BY <1>3, <1>4, FrameTaken
<1>5. CASE FindBoundary(chars) # <<>>
  <2>1. takes \in 1 .. N
    BY <1>5, FrameTaken
  <2>2. N - takes \in 0 .. N /\ N - (N - takes) + 1 = takes + 1
    BY <1>2, <2>1
  <2>3. Suffix(chars, N - takes) = Rest(chars)
    BY <2>2 DEF Suffix, Rest
  <2> HIDE DEF N, takes
  <2>4. Parsed(Rest(chars)) = f[N - takes]
    BY <1>1, <2>2, <2>3, ParsedSuffix DEF N
  <2> QED BY <1>3, <2>4
<1> QED BY <1>4, <1>5

-----------------------------------------------------------------------------
(* Events.                                                                  *)

AllEvents == {ParseFrame(frame) : frame \in Seq(Characters)}

LEMMA LargerOf ==
  ASSUME NEW a \in Nat, NEW b \in Nat
  PROVE  /\ Max({a, b}) \in Nat /\ Max({a, b}) >= a /\ Max({a, b}) >= b
         /\ Max({a, b}) = a \/ Max({a, b}) = b
<1>1. \E x \in {a, b} : \A y \in {a, b} : x >= y
  OBVIOUS
<1>2. Max({a, b}) \in {a, b} /\ \A y \in {a, b} : Max({a, b}) >= y
  BY <1>1 DEF Max
<1> QED BY <1>2

(* What a frame adds to the events.                                         *)
EventOf(chars) ==
  LET event == ParseFrame(FirstFrame(chars)) IN IF event = <<>> THEN <<>> ELSE <<event>>

LEMMA FrameAndRest ==
  ASSUME NEW chars \in Seq(Characters), FindBoundary(chars) # <<>>
  PROVE  /\ FirstFrame(chars) \in Seq(Characters) /\ Rest(chars) \in Seq(Characters)
         /\ ParseFrame(FirstFrame(chars)) \in AllEvents /\ EventOf(chars) \in Seq(AllEvents)
         /\ Len(Rest(chars)) < Len(chars)
         /\ ByteLength(FirstFrame(chars)) \in Nat
         /\ \A more \in Seq(Characters) :
              /\ FirstFrame(chars \o more) = FirstFrame(chars)
              /\ Rest(chars \o more) = Rest(chars) \o more
              /\ FindBoundary(chars \o more) # <<>>
<1> DEFINE N == Len(chars)
           start == FindBoundary(chars)[1]
           takes == FrameTakes(chars)
<1>1. <<>> \in Seq(Characters)
  OBVIOUS
<1>2. start \in 1 .. N /\ takes \in 1 .. N /\ start <= takes /\ N \in Nat
  BY <1>1, BoundaryStays
<1>3. FirstFrame(chars) = SubSeq(chars, 1, start - 1) /\ Rest(chars) = SubSeq(chars, takes + 1, N)
  BY DEF FirstFrame, Rest
<1> HIDE DEF start, takes
<1>4. /\ FirstFrame(chars) \in Seq(Characters) /\ Rest(chars) \in Seq(Characters)
      /\ Len(Rest(chars)) = N - takes
  BY <1>2, <1>3
<1>5. ParseFrame(FirstFrame(chars)) \in AllEvents /\ EventOf(chars) \in Seq(AllEvents)
  <2> DEFINE event == ParseFrame(FirstFrame(chars))
  <2>1. event \in AllEvents
    BY <1>4 DEF AllEvents
  <2> HIDE DEF event
  <2>2. <<>> \in Seq(AllEvents) /\ <<event>> \in Seq(AllEvents)
    BY <2>1
  <2> QED BY <2>1, <2>2, Zenon DEF EventOf, event
<1>6. ByteLength(FirstFrame(chars)) \in Nat
  BY <1>4, ByteLengthType
<1>7. ASSUME NEW more \in Seq(Characters)
      PROVE  /\ FirstFrame(chars \o more) = FirstFrame(chars)
             /\ Rest(chars \o more) = Rest(chars) \o more
             /\ FindBoundary(chars \o more) # <<>>
  <2> DEFINE whole == chars \o more
  <2>1. FindBoundary(whole) = FindBoundary(chars)
    BY BoundaryStays
  <2>2. FrameTakes(whole) = takes /\ FindBoundary(whole)[1] = start
    BY <2>1 DEF FrameTakes, takes, start
  <2>3. whole \in Seq(Characters) /\ Len(whole) = N + Len(more) /\ Len(more) \in Nat
    OBVIOUS
  <2>4. SubSeq(whole, 1, start - 1) = SubSeq(chars, 1, start - 1)
    BY <1>2
  <2>5. SubSeq(whole, takes + 1, N + Len(more)) = SubSeq(chars, takes + 1, N) \o more
    <3> DEFINE a == SubSeq(whole, takes + 1, N + Len(more))
               b == SubSeq(chars, takes + 1, N) \o more
    <3>1. a \in Seq(Characters) /\ b \in Seq(Characters) /\ Len(a) = Len(b)
      BY <1>2
    <3>2. \A i \in 1 .. Len(a) : a[i] = b[i]
      BY <1>2, SMTT(30)
    <3> HIDE DEF a, b
    <3>3. a = b
      BY <3>1, <3>2, SeqEqual
    <3> QED BY <3>3 DEF a, b
  <2> HIDE DEF whole
  <2> QED BY <1>3, <2>1, <2>2, <2>3, <2>4, <2>5 DEF FirstFrame, Rest, whole
<1> QED BY <1>2, <1>4, <1>5, <1>6, <1>7, SMTT(30)

LEMMA ParsedFields ==
  ASSUME NEW chars \in Seq(Characters)
  PROVE  /\ FindBoundary(chars) = <<>> =>
              Parsed(chars).events = <<>> /\ Parsed(chars).largest = ByteLength(chars)
         /\ FindBoundary(chars) # <<>> =>
              /\ Parsed(chars).events = EventOf(chars) \o Parsed(Rest(chars)).events
              /\ Parsed(chars).largest =
                   Max({ByteLength(FirstFrame(chars)), Parsed(Rest(chars)).largest})
<1>1. Parsed(chars) = ReadFrame(chars, Parsed(Rest(chars)))
  BY ParsedStep
<1>2. CASE FindBoundary(chars) = <<>>
  <2>1. Parsed(chars) = [events |-> <<>>, largest |-> ByteLength(chars)]
    BY <1>1, <1>2, Zenon DEF ReadFrame
  <2> QED BY <1>2, <2>1
<1>3. CASE FindBoundary(chars) # <<>>
  <2>1. Parsed(chars) =
          [events |-> EventOf(chars) \o Parsed(Rest(chars)).events,
           largest |-> Max({ByteLength(FirstFrame(chars)), Parsed(Rest(chars)).largest})]
    BY <1>1, <1>3, Zenon DEF ReadFrame, EventOf
  <2> QED BY <1>3, <2>1
<1> QED BY <1>2, <1>3

IsParsed(p) == p.events \in Seq(AllEvents) /\ p.largest \in Nat

LEMMA ParsedType ==
  ASSUME NEW chars \in Seq(Characters)
  PROVE  IsParsed(Parsed(chars))
<1> DEFINE N == Len(chars)
           S == {n \in 0 .. N : \A c \in Seq(Characters) : Len(c) = n => IsParsed(Parsed(c))}
<1>1. ASSUME NEW n \in 0 .. N, \A m \in 0 .. n - 1 : m \in S,
             NEW c \in Seq(Characters), Len(c) = n
      PROVE  IsParsed(Parsed(c))
  <2>1. CASE FindBoundary(c) = <<>>
    <3>1. Parsed(c).events = <<>> /\ Parsed(c).largest = ByteLength(c)
      BY <2>1, ParsedFields
    <3>2. ByteLength(c) \in Nat
      BY ByteLengthType
    <3>3. <<>> \in Seq(AllEvents)
      OBVIOUS
    <3> QED BY <3>1, <3>2, <3>3 DEF IsParsed
  <2>2. CASE FindBoundary(c) # <<>>
    <3> DEFINE rest == Rest(c)
    <3>1. /\ rest \in Seq(Characters) /\ Len(rest) < n
          /\ EventOf(c) \in Seq(AllEvents) /\ ByteLength(FirstFrame(c)) \in Nat
      BY <1>1, <2>2, FrameAndRest
    <3>2. /\ Parsed(c).events = EventOf(c) \o Parsed(rest).events
          /\ Parsed(c).largest = Max({ByteLength(FirstFrame(c)), Parsed(rest).largest})
      BY <2>2, ParsedFields
    <3> HIDE DEF rest
    <3>3. Len(rest) \in 0 .. n - 1
      BY <3>1
    <3>4. Len(rest) \in S
      <4> HIDE DEF S
      <4> QED BY <1>1, <3>3
    <3>5. IsParsed(Parsed(rest))
      BY <3>1, <3>4
    <3>6. EventOf(c) \o Parsed(rest).events \in Seq(AllEvents)
      BY <3>1, <3>5 DEF IsParsed
    <3>7. Max({ByteLength(FirstFrame(c)), Parsed(rest).largest}) \in Nat
      BY <3>1, <3>5, LargerOf DEF IsParsed
    <3> QED BY <3>2, <3>6, <3>7 DEF IsParsed
  <2> QED BY <2>1, <2>2
<1>2. \A n \in 0 .. N : (\A m \in 0 .. n - 1 : m \in S) => n \in S
  BY <1>1
<1>3. N \in Nat
  OBVIOUS
<1> HIDE DEF S
<1>4. 0 .. N \subseteq S
  BY <1>2, <1>3, UpToN
<1>5. N \in S
  BY <1>3, <1>4
<1> QED BY <1>5 DEF S

-----------------------------------------------------------------------------
(* The parser and the text.                                                 *)

(* Whatever comes, all of the text amounts to the events that have been     *)
(* passed on and those of what is left in the buffer, and a frame that is   *)
(* too large is still there.                                                *)
Follows(chars, events, buffer) ==
  \A more \in Seq(Characters) :
    LET whole == Parsed(chars \o more)
        left  == Parsed(buffer \o more)
    IN  /\ whole.events = events \o left.events
        /\ left.largest <= whole.largest
        /\ whole.largest > MaxFrame => left.largest > MaxFrame

LEMMA InARow ==
  ASSUME NEW S, NEW s \in Seq(S), NEW t \in Seq(S), NEW u \in Seq(S)
  PROVE  (s \o t) \o u = s \o (t \o u)
BY ConcatAssociative

LEMMA FollowsFromTheStart == Follows(<<>>, <<>>, <<>>)
<1> SUFFICES ASSUME NEW more \in Seq(Characters)
             PROVE  LET whole == Parsed(<<>> \o more)
                    IN  /\ whole.events = <<>> \o whole.events
                        /\ whole.largest <= whole.largest
  BY Zenon DEF Follows
<1>1. <<>> \o more \in Seq(Characters)
  OBVIOUS
<1> DEFINE p == Parsed(<<>> \o more)
<1>2. p.events \in Seq(AllEvents) /\ p.largest \in Nat
  BY <1>1, ParsedType DEF IsParsed
<1> HIDE DEF p
<1>3. p.events = <<>> \o p.events /\ p.largest <= p.largest
  BY <1>2
<1> QED BY <1>3 DEF p

LEMMA FollowsMore ==
  ASSUME NEW chars \in Seq(Characters), NEW events, NEW buffer \in Seq(Characters),
         Follows(chars, events, buffer), NEW more \in Seq(Characters)
  PROVE  Follows(chars \o more, events, buffer \o more)
<1> SUFFICES ASSUME NEW later \in Seq(Characters)
             PROVE  LET whole == Parsed((chars \o more) \o later)
                        left  == Parsed((buffer \o more) \o later)
                    IN  /\ whole.events = events \o left.events
                        /\ left.largest <= whole.largest
                        /\ whole.largest > MaxFrame => left.largest > MaxFrame
  BY DEF Follows
<1>1. /\ (chars \o more) \o later = chars \o (more \o later)
      /\ (buffer \o more) \o later = buffer \o (more \o later)
      /\ more \o later \in Seq(Characters)
  <2>1. more \o later \in Seq(Characters)
    OBVIOUS
  <2>2. (chars \o more) \o later = chars \o (more \o later)
    BY InARow, SMTT(30)
  <2>3. (buffer \o more) \o later = buffer \o (more \o later)
    BY InARow, SMTT(30)
  <2> QED BY <2>1, <2>2, <2>3
<1> QED BY <1>1 DEF Follows

LEMMA FollowsFrame ==
  ASSUME NEW chars \in Seq(Characters), NEW events \in Seq(AllEvents),
         NEW buffer \in Seq(Characters), Follows(chars, events, buffer),
         FindBoundary(buffer) # <<>>, ByteLength(FirstFrame(buffer)) <= MaxFrame
  PROVE  Follows(chars, events \o EventOf(buffer), Rest(buffer))
<1> SUFFICES ASSUME NEW more \in Seq(Characters)
             PROVE  LET whole == Parsed(chars \o more)
                        left  == Parsed(Rest(buffer) \o more)
                    IN  /\ whole.events = (events \o EventOf(buffer)) \o left.events
                        /\ left.largest <= whole.largest
                        /\ whole.largest > MaxFrame => left.largest > MaxFrame
  BY DEF Follows
<1> DEFINE whole  == Parsed(chars \o more)
           before == Parsed(buffer \o more)
           left   == Parsed(Rest(buffer) \o more)
           size   == ByteLength(FirstFrame(buffer))
<1>1. /\ whole.events = events \o before.events
      /\ before.largest <= whole.largest
      /\ whole.largest > MaxFrame => before.largest > MaxFrame
  BY DEF Follows
<1>2. /\ FirstFrame(buffer \o more) = FirstFrame(buffer)
      /\ Rest(buffer \o more) = Rest(buffer) \o more
      /\ FindBoundary(buffer \o more) # <<>>
      /\ EventOf(buffer) \in Seq(AllEvents) /\ size \in Nat
      /\ Rest(buffer) \in Seq(Characters)
  BY FrameAndRest
<1>3. EventOf(buffer \o more) = EventOf(buffer)
  BY <1>2 DEF EventOf
<1>4. /\ buffer \o more \in Seq(Characters) /\ chars \o more \in Seq(Characters)
      /\ Rest(buffer) \o more \in Seq(Characters)
  BY <1>2
<1>5. /\ left.events \in Seq(AllEvents) /\ left.largest \in Nat /\ whole.largest \in Nat
  BY <1>4, ParsedType DEF IsParsed
<1>6. /\ before.events = EventOf(buffer) \o left.events
      /\ before.largest = Max({size, left.largest})
  BY <1>2, <1>3, <1>4, ParsedFields
<1>7. MaxFrame \in Nat
  BY FrameAssumption
<1> HIDE DEF whole, before, left, size
<1>8. whole.events = (events \o EventOf(buffer)) \o left.events
  <2>1. (events \o EventOf(buffer)) \o left.events = events \o (EventOf(buffer) \o left.events)
    <3> DEFINE b == EventOf(buffer)
               c == left.events
    <3>1. b \in Seq(AllEvents) /\ c \in Seq(AllEvents)
      BY <1>2, <1>5
    <3> HIDE DEF b, c
    <3>2. (events \o b) \o c = events \o (b \o c)
      BY <3>1, InARow, SMTT(30)
    <3> QED BY <3>2 DEF b, c
  <2> QED BY <1>1, <1>6, <2>1
<1>9. left.largest <= whole.largest /\ (whole.largest > MaxFrame => left.largest > MaxFrame)
  <2>1. size <= MaxFrame
    BY DEF size
  <2>2. /\ before.largest \in Nat /\ before.largest >= left.largest
        /\ before.largest = size \/ before.largest = left.largest
    BY <1>2, <1>5, <1>6, LargerOf
  <2> QED BY <1>1, <1>2, <1>5, <1>7, <2>1, <2>2, SMTT(30)
<1> QED BY <1>8, <1>9 DEF whole, left

-----------------------------------------------------------------------------
(* The round.                                                               *)

(* What was sent, as characters, and what it comes to.                      *)
Said(u) == DecodeBytes(<<>>, SubSeq(u.text, 1, u.sent))

AllParsed(u) == Parsed(Said(u).chars)

(* EventsAsSent, of a round.                                                *)
AsSent(u) ==
  /\ IsPrefix(u.events, AllParsed(u).events)
  /\ u.phase = "reading" \/ u.ended => u.events = AllParsed(u).events
  /\ AllParsed(u).largest > MaxFrame => u.phase \in {"parsing", "over"}
  /\ u.refused => AllParsed(u).largest + Len(u.partial) > MaxFrame

Holds(u) ==
  /\ u.text \in Texts /\ u.sent \in 0 .. Len(u.text)
  /\ u.buffer \in Seq(Characters) /\ u.partial \in Partials /\ u.events \in Seq(AllEvents)

(* Until it is over, a round has all that was sent but what it has passed   *)
(* on, and it reads on only when there is no frame in its buffer.           *)
Parses(u) ==
  /\ ~u.refused /\ Said(u).ok /\ u.partial = Said(u).partial
  /\ Follows(Said(u).chars, u.events, u.buffer)
  /\ u.buffered = ByteLength(u.buffer) + Len(u.partial)
  /\ u.phase # "parsing" => FindBoundary(u.buffer) = <<>> /\ u.buffered <= MaxFrame

TextOK(u) == Holds(u) /\ IF u.phase = "over" THEN AsSent(u) ELSE Parses(u)

LEMMA SaidType ==
  ASSUME NEW u, Holds(u)
  PROVE  /\ SubSeq(u.text, 1, u.sent) \in Seq(Bytes) /\ Len(SubSeq(u.text, 1, u.sent)) = u.sent
         /\ Said(u) \in Decodings /\ Said(u).chars \in Seq(Characters)
         /\ IsParsed(AllParsed(u))
<1>1. u.text \in Seq(Bytes) /\ u.sent \in 0 .. Len(u.text)
  BY TextsAssumption DEF Holds
<1>2. SubSeq(u.text, 1, u.sent) \in Seq(Bytes) /\ Len(SubSeq(u.text, 1, u.sent)) = u.sent
  BY <1>1
<1>3. <<>> \in Partials
  BY DEF Partials
<1>4. Said(u) \in Decodings
  BY <1>2, <1>3, DecodeType DEF Said
<1>5. Said(u).chars \in Seq(Characters)
  BY <1>4 DEF Decodings
<1> QED BY <1>2, <1>4, <1>5, ParsedType DEF AllParsed

LEMMA PrefixOfTwo ==
  ASSUME NEW S, NEW s \in Seq(S), NEW t \in Seq(S)
  PROVE  IsPrefix(s, s \o t)
<1>1. Len(s) <= Len(s \o t)
  OBVIOUS
<1> DEFINE a == SubSeq(s, 1, Len(s))
           b == SubSeq(s \o t, 1, Len(s))
<1>2. a \in Seq(S) /\ b \in Seq(S) /\ Len(a) = Len(b) /\ \A i \in 1 .. Len(a) : a[i] = b[i]
  OBVIOUS
<1> HIDE DEF a, b
<1>3. a = b
  BY <1>2, SeqEqual
<1> QED BY <1>1, <1>3 DEF IsPrefix, a, b

LEMMA ParsedSoFar ==
  ASSUME NEW u, Holds(u), Parses(u)
  PROVE  /\ IsPrefix(u.events, AllParsed(u).events)
         /\ FindBoundary(u.buffer) = <<>> =>
              /\ u.events = AllParsed(u).events
              /\ AllParsed(u).largest >= ByteLength(u.buffer)
              /\ AllParsed(u).largest > MaxFrame => ByteLength(u.buffer) > MaxFrame
         /\ FindBoundary(u.buffer) # <<>> =>
              AllParsed(u).largest >= ByteLength(FirstFrame(u.buffer))
<1> DEFINE chars == Said(u).chars
           whole == AllParsed(u)
           left  == Parsed(u.buffer)
<1>1. /\ chars \in Seq(Characters) /\ u.buffer \in Seq(Characters) /\ u.events \in Seq(AllEvents)
      /\ IsParsed(whole) /\ IsParsed(left)
  BY SaidType, ParsedType DEF Holds
<1>2. /\ whole.events = u.events \o left.events
      /\ left.largest <= whole.largest
      /\ whole.largest > MaxFrame => left.largest > MaxFrame
  <2>1. <<>> \in Seq(Characters) /\ chars \o <<>> = chars /\ u.buffer \o <<>> = u.buffer
    BY <1>1
  <2> HIDE DEF chars
  <2>2. LET p == Parsed(chars \o <<>>)
            q == Parsed(u.buffer \o <<>>)
        IN  /\ p.events = u.events \o q.events
            /\ q.largest <= p.largest
            /\ p.largest > MaxFrame => q.largest > MaxFrame
    BY <2>1 DEF Parses, Follows, chars
  <2> QED BY <2>1, <2>2 DEF AllParsed, chars
<1>3. IsPrefix(u.events, whole.events)
  <2> DEFINE t == left.events
  <2>1. t \in Seq(AllEvents)
    BY <1>1 DEF IsParsed
  <2> HIDE DEF t
  <2>2. IsPrefix(u.events, u.events \o t)
    BY <1>1, <2>1, PrefixOfTwo
  <2> QED BY <1>2, <2>2 DEF t
<1>4. ASSUME FindBoundary(u.buffer) = <<>>
      PROVE  /\ u.events = whole.events
             /\ whole.largest >= ByteLength(u.buffer)
             /\ whole.largest > MaxFrame => ByteLength(u.buffer) > MaxFrame
  <2>1. left.events = <<>> /\ left.largest = ByteLength(u.buffer)
    BY <1>1, <1>4, ParsedFields
  <2>2. u.events \o <<>> = u.events
    BY <1>1
  <2> QED BY <1>1, <1>2, <2>1, <2>2 DEF IsParsed
<1>5. ASSUME FindBoundary(u.buffer) # <<>>
      PROVE  whole.largest >= ByteLength(FirstFrame(u.buffer))
  <2> DEFINE rest == Parsed(Rest(u.buffer))
  <2>1. ByteLength(FirstFrame(u.buffer)) \in Nat /\ Rest(u.buffer) \in Seq(Characters)
    BY <1>1, <1>5, FrameAndRest
  <2>2. IsParsed(rest)
    BY <2>1, ParsedType
  <2>3. left.largest = Max({ByteLength(FirstFrame(u.buffer)), rest.largest})
    BY <1>1, <1>5, ParsedFields
  <2>4. left.largest >= ByteLength(FirstFrame(u.buffer))
    BY <2>1, <2>2, <2>3, LargerOf DEF IsParsed
  <2> QED BY <1>1, <1>2, <2>1, <2>4 DEF IsParsed
<1> QED BY <1>3, <1>4, <1>5

-----------------------------------------------------------------------------
(* A round whose parser has not moved.                                      *)

SameParser(u, v) ==
  /\ v.text = u.text /\ v.sent = u.sent /\ v.buffer = u.buffer /\ v.partial = u.partial
  /\ v.buffered = u.buffered /\ v.events = u.events

LEMMA SameParserKeeps ==
  ASSUME NEW u, NEW v, TextOK(u), SameParser(u, v), v.refused = u.refused, v.ended = u.ended,
         \/ v.phase = u.phase
         \/ u.phase \notin {"parsing", "over"} /\ v.phase \notin {"parsing", "over"}
  PROVE  TextOK(v)
<1>1. Holds(v) /\ Said(v) = Said(u) /\ AllParsed(v) = AllParsed(u)
  BY DEF TextOK, SameParser, Holds, Said, AllParsed
<1>2. CASE u.phase = "over"
  BY <1>1, <1>2 DEF TextOK, SameParser, AsSent
<1>3. CASE u.phase # "over"
  BY <1>1, <1>3 DEF TextOK, SameParser, Parses
<1> QED BY <1>2, <1>3

(* A round that is over now.                                                *)
LEMMA OverKeeps ==
  ASSUME NEW u, NEW v, TextOK(u), u.phase # "over", v.phase = "over",
         v.text = u.text, v.sent = u.sent, v.partial = u.partial, v.events = u.events,
         v.buffer \in Seq(Characters),
         v.ended => FindBoundary(u.buffer) = <<>>,
         v.refused => AllParsed(u).largest + Len(u.partial) > MaxFrame
  PROVE  TextOK(v)
<1>1. Holds(v) /\ AllParsed(v) = AllParsed(u)
  BY DEF TextOK, Holds, Said, AllParsed
<1>2. Holds(u) /\ Parses(u)
  BY DEF TextOK
<1> QED BY <1>1, <1>2, ParsedSoFar DEF TextOK, AsSent

LEMMA FollowsPrefix ==
  ASSUME NEW chars \in Seq(Characters), NEW events \in Seq(AllEvents),
         NEW buffer \in Seq(Characters), Follows(chars, events, buffer)
  PROVE  IsPrefix(events, Parsed(chars).events)
<1> DEFINE t == Parsed(buffer).events
<1>1. <<>> \in Seq(Characters) /\ chars \o <<>> = chars /\ buffer \o <<>> = buffer
  OBVIOUS
<1>2. Parsed(chars \o <<>>).events = events \o Parsed(buffer \o <<>>).events
  BY <1>1 DEF Follows
<1>3. t \in Seq(AllEvents)
  BY ParsedType DEF IsParsed
<1>4. Parsed(chars).events = events \o t
  BY <1>1, <1>2
<1> HIDE DEF t
<1>5. IsPrefix(events, events \o t)
  BY <1>3, PrefixOfTwo
<1> QED BY <1>4, <1>5

LEMMA CutInTwo ==
  ASSUME NEW S, NEW seq \in Seq(S), NEW m \in 0 .. Len(seq), NEW k \in m .. Len(seq)
  PROVE  SubSeq(seq, 1, m) \o SubSeq(seq, m + 1, k) = SubSeq(seq, 1, k)
<1> DEFINE front == SubSeq(seq, 1, m)
           back  == SubSeq(seq, m + 1, k)
           both  == SubSeq(seq, 1, k)
<1>1. m \in Nat /\ k \in Nat /\ m <= k /\ k <= Len(seq) /\ Len(seq) \in Nat
  OBVIOUS
<1>2. front \in Seq(S) /\ Len(front) = m /\ \A i \in 1 .. m : front[i] = seq[i]
  BY <1>1
<1>3. back \in Seq(S) /\ Len(back) = k - m /\ \A i \in 1 .. k - m : back[i] = seq[m + i]
  <2> DEFINE from == m + 1
  <2>1. from \in Nat /\ \A i \in from .. k : seq[i] \in S
    BY <1>1
  <2>2. k - from + 1 = k - m /\ (~(from <= k) => k - m = 0) /\ \A i \in 1 .. k - m : from + i - 1 = m + i
    BY <1>1
  <2>3. back = SubSeq(seq, from, k)
    OBVIOUS
  <2> HIDE DEF from, back
  <2>4. /\ back \in Seq(S) /\ Len(back) = IF from <= k THEN k - from + 1 ELSE 0
        /\ \A i \in 1 .. k - from + 1 : back[i] = seq[from + i - 1]
    BY <1>1, <2>1, <2>3, SubSeqProperties
  <2>5. Len(back) = k - m
    BY <2>2, <2>4
  <2>6. ASSUME NEW i \in 1 .. k - m PROVE back[i] = seq[m + i]
    BY <2>2, <2>4
  <2> QED BY <2>4, <2>5, <2>6
<1>4. both \in Seq(S) /\ Len(both) = k /\ \A i \in 1 .. k : both[i] = seq[i]
  BY <1>1
<1> HIDE DEF front, back, both
<1>5. /\ front \o back \in Seq(S) /\ Len(front \o back) = m + (k - m)
      /\ \A i \in 1 .. m + (k - m) :
           (front \o back)[i] = IF i <= m THEN front[i] ELSE back[i - m]
  <2>1. /\ front \o back \in Seq(S)
        /\ Len(front \o back) = Len(front) + Len(back)
        /\ \A i \in 1 .. Len(front) + Len(back) :
             (front \o back)[i] = IF i <= Len(front) THEN front[i] ELSE back[i - Len(front)]
    <3>1. front \in Seq(S) /\ back \in Seq(S)
      BY <1>2, <1>3
    <3> QED BY <3>1, ConcatProperties
  <2>2. Len(front) = m /\ Len(back) = k - m
    BY <1>2, <1>3
  <2> QED BY <2>1, <2>2, Zenon
<1>6. ASSUME NEW i \in 1 .. k PROVE (front \o back)[i] = both[i]
  <2>1. CASE i <= m
    <3>1. i \in 1 .. m /\ i \in 1 .. m + (k - m)
      BY <1>1, <2>1
    <3>2. (front \o back)[i] = IF i <= m THEN front[i] ELSE back[i - m]
      BY <1>5, <3>1
    <3>3. (front \o back)[i] = front[i]
      BY <2>1, <3>2
    <3> QED BY <1>2, <1>4, <3>1, <3>3
  <2>2. CASE i > m
    <3>1. i - m \in 1 .. k - m /\ m + (i - m) = i /\ i \in 1 .. m + (k - m) /\ ~ (i <= m)
      BY <1>1, <2>2
    <3>2. (front \o back)[i] = IF i <= m THEN front[i] ELSE back[i - m]
      BY <1>5, <3>1
    <3>3. (front \o back)[i] = back[i - m]
      BY <3>1, <3>2
    <3> QED BY <1>3, <1>4, <3>1, <3>3
  <2>3. i <= m \/ i > m
    BY <1>1
  <2> QED BY <2>1, <2>2, <2>3, Zenon
<1>7. front \o back = both
  <2>1. Len(front \o back) = k
    BY <1>1, <1>5
  <2> QED BY <1>4, <1>5, <1>6, <2>1, SeqEqual
<1> QED BY <1>7 DEF front, back, both

(* A chunk.                                                                 *)
LEMMA SaidMore ==
  ASSUME NEW u, TextOK(u), u.phase # "over",
         NEW sent \in u.sent + 1 .. Len(u.text), NEW v, v.text = u.text, v.sent = sent
  PROVE  LET chunk   == SubSeq(u.text, u.sent + 1, sent)
             decoded == DecodeBytes(u.partial, chunk)
         IN  /\ chunk \in Seq(Bytes) /\ Len(chunk) = sent - u.sent /\ decoded \in Decodings
             /\ Said(v) = After(Said(u).chars, decoded)
             /\ Follows(Said(v).chars, u.events, u.buffer \o decoded.chars)
             /\ Said(v).chars \in Seq(Characters) /\ u.buffer \o decoded.chars \in Seq(Characters)
             /\ decoded.ok => u.buffered + Len(chunk) =
                                ByteLength(u.buffer \o decoded.chars) + Len(decoded.partial)
<1> DEFINE before  == SubSeq(u.text, 1, u.sent)
           chunk   == SubSeq(u.text, u.sent + 1, sent)
           decoded == DecodeBytes(u.partial, chunk)
<1>1. Holds(u) /\ Parses(u)
  BY DEF TextOK
<1>2. /\ u.text \in Seq(Bytes) /\ u.sent \in 0 .. Len(u.text) /\ u.partial \in Partials
      /\ u.buffer \in Seq(Characters)
  BY <1>1, TextsAssumption DEF Holds
<1>3. /\ before \in Seq(Bytes) /\ chunk \in Seq(Bytes) /\ Len(chunk) = sent - u.sent
  BY <1>2, SMTT(30)
<1>4. before \o chunk = SubSeq(v.text, 1, v.sent)
  <2>1. u.sent \in 0 .. Len(u.text) /\ sent \in u.sent .. Len(u.text)
    BY <1>2
  <2> QED BY <1>2, <2>1, CutInTwo
<1>5. Said(u) = DecodeBytes(<<>>, before) /\ Said(u).ok /\ Said(u).partial = u.partial
      /\ Said(u).chars \in Seq(Characters)
  BY <1>1, SaidType DEF Parses, Said
<1> HIDE DEF before, chunk
<1>6. decoded \in Decodings /\ decoded.chars \in Seq(Characters)
  <2>1. decoded \in Decodings
    BY <1>2, <1>3, DecodeType
  <2> HIDE DEF decoded
  <2> QED BY <2>1 DEF Decodings
<1>7. Said(v) = After(Said(u).chars, decoded)
  <2>1. <<>> \in Partials
    BY DEF Partials
  <2>2. DecodeBytes(<<>>, before).ok
    BY <1>5
  <2>3. DecodeBytes(<<>>, before \o chunk) =
          After(DecodeBytes(<<>>, before).chars,
                DecodeBytes(DecodeBytes(<<>>, before).partial, chunk))
    BY <1>3, <2>1, <2>2, DecodeInTwo
  <2> QED BY <1>4, <1>5, <2>3 DEF Said
<1> HIDE DEF decoded
<1>8. Said(v).chars = Said(u).chars \o decoded.chars
  <2> DEFINE chars == Said(u).chars
  <2>1. Said(v) = After(chars, decoded)
    BY <1>7
  <2> HIDE DEF chars
  <2>2. After(chars, decoded).chars = chars \o decoded.chars
    BY DEF After
  <2>3. Said(v).chars = chars \o decoded.chars
    BY <2>1, <2>2, Zenon
  <2> QED BY <2>3 DEF chars
<1>9. Follows(Said(v).chars, u.events, u.buffer \o decoded.chars)
  BY <1>1, <1>2, <1>5, <1>6, <1>8, FollowsMore DEF Parses
<1>10. Said(v).chars \in Seq(Characters) /\ u.buffer \o decoded.chars \in Seq(Characters)
  BY <1>2, <1>5, <1>6, <1>8
<1>11. ASSUME decoded.ok
       PROVE  u.buffered + Len(chunk) =
                ByteLength(u.buffer \o decoded.chars) + Len(decoded.partial)
  <2>1. HeldBytes(decoded) = Len(u.partial) + Len(chunk)
    BY <1>2, <1>3, <1>11, DecodedHeld DEF decoded
  <2>2. /\ ByteLength(u.buffer \o decoded.chars) = ByteLength(u.buffer) + ByteLength(decoded.chars)
        /\ ByteLength(u.buffer) \in Nat /\ ByteLength(decoded.chars) \in Nat
    BY <1>2, <1>6, ByteLengthOfTwo
  <2>3. Len(u.partial) \in Nat /\ Len(decoded.partial) \in Nat /\ Len(chunk) \in Nat
    BY <1>2, <1>3, <1>6 DEF Partials, Decodings
  <2>4. u.buffered = ByteLength(u.buffer) + Len(u.partial)
    BY <1>1 DEF Parses
  <2>5. ByteLength(decoded.chars) + Len(decoded.partial) = Len(u.partial) + Len(chunk)
    BY <2>1 DEF HeldBytes
  <2> DEFINE whole == ByteLength(u.buffer \o decoded.chars)
             size  == Len(chunk)
             old   == Len(u.partial)
             new   == Len(decoded.partial)
             held  == ByteLength(u.buffer)
             more  == ByteLength(decoded.chars)
  <2>6. whole = held + more /\ held \in Nat /\ more \in Nat
    BY <2>2
  <2>7. old \in Nat /\ new \in Nat /\ size \in Nat
    BY <2>3
  <2>8. u.buffered = held + old
    BY <2>4
  <2>9. more + new = old + size
    BY <2>5
  <2> HIDE DEF whole, size, old, new, held, more
  <2>10. u.buffered + size = whole + new
    BY <2>6, <2>7, <2>8, <2>9
  <2> QED BY <2>10 DEF whole, size, new
<1> QED BY <1>3, <1>6, <1>7, <1>9, <1>10, <1>11 DEF chunk, decoded

(* A frame that is not too large.                                           *)
LEMMA FrameKeeps ==
  ASSUME NEW u, TextOK(u), u.phase = "parsing", FindBoundary(u.buffer) # <<>>,
         ~TooLarge(ByteLength(FirstFrame(u.buffer))),
         NEW v, v.text = u.text, v.sent = u.sent, v.partial = u.partial, v.refused = u.refused,
         v.phase = "parsing", v.buffer = Rest(u.buffer),
         v.buffered = u.buffered - ByteLength(SubSeq(u.buffer, 1, FrameTakes(u.buffer))),
         v.events = u.events \o EventOf(u.buffer)
  PROVE  TextOK(v)
<1> DEFINE buffer == u.buffer
           takes  == FrameTakes(buffer)
           taken  == SubSeq(buffer, 1, takes)
<1>1. Holds(u) /\ Parses(u)
  BY DEF TextOK
<1>2. buffer \in Seq(Characters) /\ u.partial \in Partials /\ u.events \in Seq(AllEvents)
  BY <1>1 DEF Holds
<1> HIDE DEF buffer
<1>3. Rest(buffer) \in Seq(Characters) /\ EventOf(buffer) \in Seq(AllEvents)
  BY <1>2, FrameAndRest DEF buffer
<1>4. u.events \o EventOf(buffer) \in Seq(AllEvents)
  BY <1>2, <1>3
<1>5. ByteLength(FirstFrame(buffer)) \in Nat /\ MaxFrame \in Nat
  BY <1>2, FrameAndRest, FrameAssumption DEF buffer
<1>6. ByteLength(FirstFrame(buffer)) <= MaxFrame
  BY <1>5 DEF TooLarge, buffer
<1>7. Said(v) = Said(u) /\ Said(u).chars \in Seq(Characters)
  BY <1>1, SaidType DEF Said
<1>8. Follows(Said(v).chars, v.events, v.buffer)
  BY <1>1, <1>2, <1>6, <1>7, FollowsFrame DEF Parses, buffer
<1>9. takes \in 0 .. Len(buffer) /\ Len(buffer) \in Nat
  BY <1>2, FrameTaken DEF buffer
<1> HIDE DEF takes
<1>10. taken \in Seq(Characters) /\ taken \o Rest(buffer) = buffer
  <2>1. Len(buffer) \in takes .. Len(buffer)
    BY <1>9
  <2>2. taken \o SubSeq(buffer, takes + 1, Len(buffer)) = SubSeq(buffer, 1, Len(buffer))
    BY <1>2, <1>9, <2>1, CutInTwo
  <2>3. SubSeq(buffer, 1, Len(buffer)) = buffer
    BY <1>2
  <2>4. taken \in Seq(Characters)
    BY <1>2, <1>9
  <2> QED BY <2>2, <2>3, <2>4 DEF Rest, takes
<1> HIDE DEF taken
<1>11. /\ ByteLength(buffer) = ByteLength(taken) + ByteLength(Rest(buffer))
       /\ ByteLength(taken) \in Nat /\ ByteLength(Rest(buffer)) \in Nat
  <2>1. ByteLength(taken \o Rest(buffer)) = ByteLength(taken) + ByteLength(Rest(buffer))
    BY <1>3, <1>10, ByteLengthOfTwo
  <2> QED BY <1>3, <1>10, <2>1, ByteLengthType
<1>12. v.buffered = ByteLength(v.buffer) + Len(v.partial)
  <2>1. v.buffered = u.buffered - ByteLength(taken) /\ v.buffer = Rest(buffer)
    BY DEF taken, takes, buffer
  <2>2. u.buffered = ByteLength(buffer) + Len(v.partial)
    BY <1>1 DEF Parses, buffer
  <2>3. Len(v.partial) \in Nat
    BY <1>2 DEF Partials
  <2> QED BY <1>11, <2>1, <2>2, <2>3
<1>13. Holds(v)
  BY <1>1, <1>3, <1>4 DEF Holds, buffer
<1> QED BY <1>1, <1>7, <1>8, <1>12, <1>13 DEF TextOK, Parses

-----------------------------------------------------------------------------
(* The steps of the round.                                                  *)

LEMMA ClosedFields ==
  ASSUME NEW u, IsRound(u)
  PROVE  /\ SameParser(u, Closed(u)) /\ SameParser(u, AbortRound(u))
         /\ Closed(u).refused = u.refused /\ AbortRound(u).refused = u.refused
BY DEF IsRound, AbortRound, Closed, Fields, SameParser

(* A round that is given up, or refuses a frame.                            *)
LEMMA ThrownText ==
  ASSUME NEW u, TextOK(u), u.phase # "over", ~u.ended,
         NEW v, IsRound(v), v.text = u.text, v.sent = u.sent, v.partial = u.partial,
         v.events = u.events, v.ended = u.ended, v.buffer \in Seq(Characters),
         v.refused => AllParsed(u).largest + Len(u.partial) > MaxFrame,
         Throw(v)
  PROVE  TextOK(upstream')
<1>1. /\ upstream'.text = u.text /\ upstream'.sent = u.sent /\ upstream'.partial = u.partial
      /\ upstream'.events = u.events /\ ~upstream'.ended /\ upstream'.phase = "over"
      /\ upstream'.buffer \in Seq(Characters) /\ upstream'.refused = v.refused
  BY ClosedRound, ClosedFields DEF Throw, SameParser
<1> QED BY <1>1, OverKeeps

LEMMA PostText ==
  ASSUME IInv, TextOK(upstream), Post
  PROVE  TextOK(upstream')
<1>1. upstream.phase = "new" /\ IsRound(upstream) /\ ~upstream.ended
  BY DEF Post, Waiting, IInv, Types, Ended
<1>2. Holds(upstream) /\ ~upstream.refused
  BY <1>1 DEF TextOK, Parses
<1>3. CASE upstream.aborted
  <2>1. Throw(upstream)
    BY <1>3 DEF Post
  <2> QED BY <1>1, <1>2, <2>1, ThrownText DEF Holds
<1>4. CASE ~upstream.aborted
  <2>1. upstream' = [upstream EXCEPT !.phase = "asking", !.link = "asked"]
    BY <1>4 DEF Post
  <2>2. /\ SameParser(upstream, upstream') /\ upstream'.refused = upstream.refused
        /\ upstream'.ended = upstream.ended /\ upstream'.phase = "asking"
    BY <1>1, <2>1 DEF IsRound, Fields, SameParser
  <2> QED BY <1>1, <2>2, SameParserKeeps
<1> QED BY <1>3, <1>4

LEMMA RespondText ==
  ASSUME IInv, TextOK(upstream), Respond
  PROVE  TextOK(upstream')
<1>1. upstream.phase = "asking" /\ IsRound(upstream) /\ ~upstream.ended
  BY DEF Respond, Waiting, IInv, Types, Ended
<1>2. Holds(upstream) /\ ~upstream.refused
  BY <1>1 DEF TextOK, Parses
<1>3. CASE Throw(upstream)
  BY <1>1, <1>2, <1>3, ThrownText DEF Holds
<1>4. CASE upstream' = [upstream EXCEPT !.phase = "reading", !.link = "open"]
  <2>1. /\ SameParser(upstream, upstream') /\ upstream'.refused = upstream.refused
        /\ upstream'.ended = upstream.ended /\ upstream'.phase = "reading"
    BY <1>1, <1>4 DEF IsRound, Fields, SameParser
  <2> QED BY <1>1, <2>1, SameParserKeeps
<1> QED BY <1>3, <1>4 DEF Respond

LEMMA ReceiveText ==
  ASSUME IInv, TextOK(upstream), Receive
  PROVE  TextOK(upstream')
<1>1. upstream.phase = "reading" /\ IsRound(upstream) /\ ~upstream.ended
  BY DEF Receive, Waiting, IInv, Types, Ended
<1>2. Holds(upstream) /\ Parses(upstream)
  BY <1>1, SMTT(30) DEF TextOK
<1> DEFINE Chunk(sent) == SubSeq(upstream.text, upstream.sent + 1, sent)
           Decoded(sent) == DecodeBytes(upstream.partial, Chunk(sent))
           Received(sent) ==
             [upstream EXCEPT !.sent = sent, !.buffered = @ + Len(Chunk(sent))]
<1>3. PICK sent \in upstream.sent + 1 .. Len(upstream.text) :
        IF ~Decoded(sent).ok THEN Throw(Received(sent))
        ELSE upstream' = [Received(sent) EXCEPT !.phase = "parsing", !.partial = Decoded(sent).partial,
                                                !.buffer = @ \o Decoded(sent).chars]
  BY DEF Receive
<1> DEFINE u == Received(sent)
           chunk == Chunk(sent)
           decoded == Decoded(sent)
<1>4. /\ IsRound(u) /\ u.text = upstream.text /\ u.sent = sent /\ u.ended = upstream.ended
      /\ u.buffered = upstream.buffered + Len(chunk) /\ u.partial = upstream.partial
      /\ u.buffer = upstream.buffer /\ u.events = upstream.events /\ u.refused = upstream.refused
  <2> DEFINE buffered == upstream.buffered + Len(chunk)
  <2>1. u = [upstream EXCEPT !.sent = sent, !.buffered = buffered]
    OBVIOUS
  <2> HIDE DEF u, buffered
  <2>2. /\ IsRound(u) /\ u.text = upstream.text /\ u.sent = sent /\ u.ended = upstream.ended
        /\ u.buffered = buffered /\ u.partial = upstream.partial
        /\ u.buffer = upstream.buffer /\ u.events = upstream.events /\ u.refused = upstream.refused
    BY <1>1, <2>1 DEF IsRound, Fields
  <2> QED BY <2>2 DEF buffered
<1>5. sent \in 0 .. Len(upstream.text)
  BY <1>2, TextsAssumption DEF Holds
<1>6. ASSUME NEW v, v.text = upstream.text, v.sent = sent
      PROVE  /\ decoded \in Decodings /\ Said(v).ok = decoded.ok /\ Said(v).partial = decoded.partial
             /\ Follows(Said(v).chars, upstream.events, upstream.buffer \o decoded.chars)
             /\ Said(v).chars \in Seq(Characters)
             /\ upstream.buffer \o decoded.chars \in Seq(Characters)
             /\ decoded.ok => u.buffered = ByteLength(upstream.buffer \o decoded.chars)
                                             + Len(decoded.partial)
  <2>1. /\ decoded \in Decodings /\ Said(v) = After(Said(upstream).chars, decoded)
        /\ Follows(Said(v).chars, upstream.events, upstream.buffer \o decoded.chars)
        /\ Said(v).chars \in Seq(Characters)
        /\ upstream.buffer \o decoded.chars \in Seq(Characters)
        /\ decoded.ok => upstream.buffered + Len(chunk) =
                           ByteLength(upstream.buffer \o decoded.chars) + Len(decoded.partial)
    BY <1>1, <1>6, SaidMore
  <2> HIDE DEF decoded, u, chunk
  <2>2. Said(v).ok = decoded.ok /\ Said(v).partial = decoded.partial
    BY <2>1, AfterFields, Zenon
  <2> QED BY <1>4, <2>1, <2>2
<1> HIDE DEF Chunk, Decoded, Received
<1>7. CASE ~decoded.ok
  <2>1. Throw(u)
    BY <1>3, <1>7
  <2> HIDE DEF u, decoded
  <2>2. /\ upstream'.text = upstream.text /\ upstream'.sent = sent /\ ~upstream'.ended
        /\ upstream'.events = upstream.events /\ upstream'.phase = "over"
        /\ ~upstream'.refused /\ upstream'.partial = upstream.partial
        /\ upstream'.buffer = upstream.buffer
    BY <1>1, <1>2, <1>4, <2>1, ClosedRound, ClosedFields DEF Throw, SameParser, Parses
  <2>3. Holds(upstream')
    BY <1>2, <1>5, <2>2 DEF Holds
  <2>4. IsPrefix(upstream.events, AllParsed(upstream').events)
    BY <1>2, <1>6, <2>2, FollowsPrefix DEF AllParsed, Holds
  <2> QED BY <2>2, <2>3, <2>4 DEF TextOK, AsSent
<1>8. CASE decoded.ok
  <2> HIDE DEF u, decoded
  <2>1. upstream' = [u EXCEPT !.phase = "parsing", !.partial = decoded.partial,
                              !.buffer = u.buffer \o decoded.chars]
    BY <1>3, <1>8 DEF u, decoded
  <2>2. /\ upstream'.text = upstream.text /\ upstream'.sent = sent
        /\ upstream'.events = upstream.events /\ upstream'.phase = "parsing"
        /\ ~upstream'.refused /\ upstream'.partial = decoded.partial
        /\ upstream'.buffer = upstream.buffer \o decoded.chars
        /\ upstream'.buffered = u.buffered
    BY <1>2, <1>4, <2>1 DEF IsRound, Fields, Parses
  <2>3. decoded.partial \in Partials
    BY <1>6, <2>2 DEF Decodings
  <2>4. Holds(upstream')
    BY <1>2, <1>5, <1>6, <2>2, <2>3 DEF Holds
  <2> QED BY <1>6, <1>8, <2>2, <2>4 DEF TextOK, Parses
<1> QED BY <1>7, <1>8

LEMMA RefuseText ==
  ASSUME IInv, TextOK(upstream), upstream.phase = "parsing", Refuse,
         \/ FindBoundary(upstream.buffer) = <<>> /\ TooLarge(upstream.buffered)
         \/ /\ FindBoundary(upstream.buffer) # <<>>
            /\ TooLarge(ByteLength(FirstFrame(upstream.buffer)))
  PROVE  TextOK(upstream')
<1> DEFINE v == [upstream EXCEPT !.refused = TRUE]
<1>1. IsRound(upstream) /\ ~upstream.ended /\ Holds(upstream) /\ Parses(upstream)
  BY DEF IInv, Types, Ended, TextOK
<1>2. /\ IsRound(v) /\ v.text = upstream.text /\ v.sent = upstream.sent
      /\ v.partial = upstream.partial /\ v.events = upstream.events /\ v.ended = upstream.ended
      /\ v.buffer = upstream.buffer
  BY <1>1 DEF IsRound, Fields
<1>3. Throw(v)
  BY DEF Refuse
<1> HIDE DEF v
<1>4. AllParsed(upstream).largest + Len(upstream.partial) > MaxFrame
  <2> DEFINE largest == AllParsed(upstream).largest
             waits   == Len(upstream.partial)
  <2>1. largest \in Nat /\ waits \in Nat /\ MaxFrame \in Nat
    BY <1>1, SaidType, FrameAssumption DEF IsParsed, Holds, Partials
  <2>2. CASE FindBoundary(upstream.buffer) = <<>> /\ TooLarge(upstream.buffered)
    <3> DEFINE held == ByteLength(upstream.buffer)
    <3>1. held \in Nat /\ largest >= held
      BY <1>1, <2>2, ParsedSoFar, ByteLengthType DEF Holds
    <3>2. held + waits > MaxFrame
      BY <1>1, <2>2 DEF Parses, TooLarge
    <3> HIDE DEF held, largest, waits
    <3>3. largest + waits > MaxFrame
      BY <2>1, <3>1, <3>2
    <3> QED BY <3>3 DEF largest, waits
  <2>3. CASE /\ FindBoundary(upstream.buffer) # <<>>
             /\ TooLarge(ByteLength(FirstFrame(upstream.buffer)))
    <3> DEFINE size == ByteLength(FirstFrame(upstream.buffer))
    <3>1. upstream.buffer \in Seq(Characters)
      BY <1>1 DEF Holds
    <3>2. size \in Nat
      BY <2>3, <3>1, FrameAndRest
    <3>3. largest >= size
      BY <1>1, <2>3, ParsedSoFar
    <3>4. size > MaxFrame
      BY <2>3 DEF TooLarge
    <3> HIDE DEF size, largest, waits
    <3>5. largest + waits > MaxFrame
      BY <2>1, <3>2, <3>3, <3>4
    <3> QED BY <3>5 DEF largest, waits
  <2> QED BY <2>2, <2>3
<1> QED BY <1>1, <1>2, <1>3, <1>4, ThrownText DEF Holds

LEMMA ParseText ==
  ASSUME IInv, TextOK(upstream), Parse
  PROVE  TextOK(upstream')
<1> DEFINE buffer == upstream.buffer
           event  == ParseFrame(FirstFrame(buffer))
           rest   == Consumed(upstream, FrameTakes(buffer))
<1>1. /\ upstream.phase = "parsing" /\ IsRound(upstream) /\ ~upstream.ended
      /\ Holds(upstream) /\ Parses(upstream) /\ buffer \in Seq(Characters)
  BY DEF Parse, Waiting, IInv, Types, Ended, TextOK, Holds
<1>2. IF FindBoundary(buffer) = <<>>
        THEN IF TooLarge(upstream.buffered) THEN Refuse
             ELSE upstream' = [upstream EXCEPT !.phase = "reading"]
      ELSE IF TooLarge(ByteLength(FirstFrame(buffer))) THEN Refuse
      ELSE IF event = <<>> THEN upstream' = rest
      ELSE \/ Throw(rest)
           \/ Throw([rest EXCEPT !.overlong = TRUE])
           \/ \E output : upstream' = [rest EXCEPT !.events = Append(@, event), !.output = output]
  BY Zenon DEF Parse, FirstFrame, FrameTakes
<1>3. CASE FindBoundary(buffer) = <<>>
  <2>1. CASE TooLarge(upstream.buffered)
    BY <1>1, <1>2, <1>3, <2>1, RefuseText
  <2>2. CASE ~TooLarge(upstream.buffered)
    <3>1. upstream' = [upstream EXCEPT !.phase = "reading"]
      BY <1>2, <1>3, <2>2
    <3>2. /\ SameParser(upstream, upstream') /\ upstream'.refused = upstream.refused
          /\ upstream'.phase = "reading"
      BY <1>1, <3>1 DEF IsRound, Fields, SameParser
    <3>3. upstream.buffered <= MaxFrame
      <4>1. upstream.buffered \in Nat /\ MaxFrame \in Nat
        <5>1. ByteLength(buffer) \in Nat /\ Len(upstream.partial) \in Nat
          BY <1>1, ByteLengthType DEF Holds, Partials
        <5> HIDE DEF buffer
        <5> QED BY <1>1, <5>1, FrameAssumption DEF Parses, buffer
      <4> QED BY <2>2, <4>1 DEF TooLarge
    <3>4. Holds(upstream') /\ Said(upstream') = Said(upstream)
      BY <1>1, <3>2 DEF Holds, SameParser, Said
    <3> QED BY <1>1, <1>3, <3>2, <3>3, <3>4 DEF TextOK, Parses, SameParser
  <2> QED BY <2>1, <2>2
<1>4. CASE FindBoundary(buffer) # <<>> /\ TooLarge(ByteLength(FirstFrame(buffer)))
  BY <1>1, <1>2, <1>4, RefuseText
<1>5. CASE FindBoundary(buffer) # <<>> /\ ~TooLarge(ByteLength(FirstFrame(buffer)))
  <2>1. /\ IsRound(rest) /\ rest.text = upstream.text /\ rest.sent = upstream.sent
        /\ rest.partial = upstream.partial /\ rest.events = upstream.events
        /\ rest.ended = upstream.ended /\ rest.refused = upstream.refused
        /\ rest.phase = "parsing" /\ rest.buffer = Rest(buffer)
        /\ rest.buffered = upstream.buffered - ByteLength(SubSeq(buffer, 1, FrameTakes(buffer)))
    BY <1>1 DEF Consumed, IsRound, Fields, Rest
  <2>2. Rest(buffer) \in Seq(Characters) /\ event \in AllEvents
    BY <1>1, <1>5, FrameAndRest
  <2> HIDE DEF rest, event, buffer
  <2>3. ASSUME event = <<>>, upstream' = rest
        PROVE  TextOK(upstream')
    <3>1. EventOf(buffer) = <<>>
      BY <2>3 DEF EventOf, event
    <3>2. upstream.events \o <<>> = upstream.events
      BY <1>1 DEF Holds
    <3> QED BY <1>1, <1>5, <2>1, <2>3, <3>1, <3>2, FrameKeeps DEF buffer
  <2>4. ASSUME NEW v, IsRound(v), v.text = upstream.text, v.sent = upstream.sent,
               v.partial = upstream.partial, v.events = upstream.events,
               v.ended = upstream.ended, v.refused = upstream.refused, v.buffer = Rest(buffer),
               Throw(v)
        PROVE  TextOK(upstream')
    <3>1. ~v.refused /\ v.buffer \in Seq(Characters)
      BY <1>1, <2>2, <2>4 DEF Parses
    <3> QED BY <1>1, <2>4, <3>1, ThrownText
  <2>5. CASE Throw(rest)
    BY <2>1, <2>4, <2>5
  <2>6. CASE Throw([rest EXCEPT !.overlong = TRUE])
    <3> DEFINE v == [rest EXCEPT !.overlong = TRUE]
    <3>1. /\ IsRound(v) /\ v.text = rest.text /\ v.sent = rest.sent
          /\ v.partial = rest.partial /\ v.events = rest.events
          /\ v.ended = rest.ended /\ v.refused = rest.refused /\ v.buffer = rest.buffer
      BY <2>1 DEF IsRound, Fields
    <3>2. Throw(v)
      BY <2>6
    <3> HIDE DEF v
    <3> QED BY <2>1, <2>4, <3>1, <3>2
  <2>7. ASSUME event # <<>>, NEW output,
               upstream' = [rest EXCEPT !.events = Append(@, event), !.output = output]
        PROVE  TextOK(upstream')
    <3> DEFINE events == Append(rest.events, event)
    <3>1. upstream' = [rest EXCEPT !.events = events, !.output = output]
      BY <2>7
    <3>2. events = upstream.events \o EventOf(buffer)
      <4>1. EventOf(buffer) = <<event>>
        BY <2>7 DEF EventOf, event
      <4>2. Append(upstream.events, event) = upstream.events \o <<event>>
        BY <1>1, <2>2, SMTT(30) DEF Holds
      <4> QED BY <2>1, <4>1, <4>2
    <3> HIDE DEF events
    <3>3. /\ upstream'.text = rest.text /\ upstream'.sent = rest.sent
          /\ upstream'.partial = rest.partial /\ upstream'.events = events
          /\ upstream'.refused = rest.refused /\ upstream'.phase = "parsing"
          /\ upstream'.buffer = rest.buffer /\ upstream'.buffered = rest.buffered
      BY <2>1, <3>1 DEF IsRound, Fields
    <3> QED BY <1>1, <1>5, <2>1, <3>2, <3>3, FrameKeeps DEF buffer
  <2> QED BY <1>2, <1>5, <2>3, <2>5, <2>6, <2>7
<1> QED BY <1>3, <1>4, <1>5

LEMMA DoneText ==
  ASSUME IInv, TextOK(upstream), Done
  PROVE  TextOK(upstream')
<1>1. upstream.phase = "reading" /\ IsRound(upstream) /\ ~upstream.ended
  BY DEF Done, Waiting, IInv, Types, Ended
<1>2. Holds(upstream) /\ Parses(upstream) /\ FindBoundary(upstream.buffer) = <<>>
  BY <1>1 DEF TextOK, Parses
<1> DEFINE u == IF upstream.link = "open" THEN [upstream EXCEPT !.link = "eof"] ELSE upstream
<1>3. /\ IsRound(u) /\ SameParser(upstream, u) /\ u.ended = upstream.ended
      /\ u.refused = upstream.refused
  BY <1>1 DEF IsRound, Fields, SameParser
<1>4. Throw(u) \/ upstream' = [Closed(u) EXCEPT !.ended = TRUE]
  BY Zenon DEF Done, Returns
<1> HIDE DEF u
<1>5. CASE Throw(u)
  BY <1>1, <1>2, <1>3, <1>5, ThrownText DEF SameParser, Holds, Parses
<1>6. CASE upstream' = [Closed(u) EXCEPT !.ended = TRUE]
  <2>1. /\ SameParser(upstream, Closed(u)) /\ Closed(u).refused = upstream.refused
        /\ IsRound(Closed(u)) /\ Closed(u).phase = "over"
    BY <1>3, ClosedRound, ClosedFields DEF SameParser
  <2>2. SameParser(upstream, upstream') /\ ~upstream'.refused /\ upstream'.phase = "over"
    BY <1>2, <1>6, <2>1 DEF IsRound, Fields, SameParser, Parses
  <2> QED BY <1>1, <1>2, <2>2, OverKeeps DEF SameParser, Holds
<1> QED BY <1>4, <1>5, <1>6

LEMMA AbortedText ==
  ASSUME NEW u, TextOK(u), IsRound(u), ~u.ended \/ u.phase = "over"
  PROVE  TextOK(AbortRound(u)) /\ TextOK(Closed(u))
<1>1. /\ SameParser(u, AbortRound(u)) /\ AbortRound(u).refused = u.refused
      /\ AbortRound(u).ended = u.ended /\ AbortRound(u).phase = u.phase
      /\ SameParser(u, Closed(u)) /\ Closed(u).refused = u.refused
      /\ Closed(u).ended = u.ended /\ Closed(u).phase = "over"
  BY ClosedRound, ClosedFields
<1>2. TextOK(AbortRound(u))
  BY <1>1, SameParserKeeps
<1>3. TextOK(Closed(u))
  <2>1. CASE u.phase = "over"
    BY <1>1, <2>1, SameParserKeeps
  <2>2. CASE u.phase # "over"
    BY <1>1, <2>2, OverKeeps DEF SameParser, TextOK, Holds, Parses
  <2> QED BY <2>1, <2>2
<1> QED BY <1>2, <1>3

LEMMA FailText ==
  ASSUME IInv, TextOK(upstream), Fail
  PROVE  TextOK(upstream')
<1> DEFINE c == Abort(conn, FALSE)
           u == IF reader.reads = 0 THEN Closed(upstream) ELSE upstream
<1>1. upstream' = IF c.aborted THEN AbortRound(u) ELSE u
  BY DEF Fail
<1>2. IsRound(upstream) /\ (~upstream.ended \/ upstream.phase = "over")
  BY DEF IInv, Types, Ended
<1>3. /\ TextOK(u) /\ IsRound(u)
      /\ ~u.ended \/ u.phase = "over"
  BY <1>2, AbortedText, ClosedRound
<1> HIDE DEF u
<1> QED BY <1>1, <1>3, AbortedText

LEMMA NextText ==
  ASSUME IInv, TextOK(upstream), [Next]_vars
  PROVE  TextOK(upstream')
<1>1. IsRound(upstream) /\ (~upstream.ended \/ upstream.phase = "over")
  BY DEF IInv, Types, Ended
<1>2. CASE UNCHANGED upstream
  BY <1>2
<1>3. CASE upstream' = AbortRound(upstream)
  BY <1>1, <1>3, AbortedText
<1>4. CASE Throw(upstream)
  BY <1>1, <1>4, AbortedText DEF Throw
<1>5. CASE Proceed
  BY <1>2, <1>5, FailText DEF Proceed, Ask, Take, Send
<1>6. CASE Round
  BY <1>2, <1>4, <1>6, PostText, RespondText, ReceiveText, ParseText, DoneText
     DEF Round, Break, Exhausted
<1>7. CASE StallRequest
  BY <1>4, <1>7 DEF StallRequest, Stall
<1>8. CASE PingTimer \/ Drain \/ Heartbeat
  BY <1>2, <1>8 DEF PingTimer, Drain, Heartbeat
<1>9. CASE Timeout \/ Disconnect
  BY <1>3, <1>9 DEF Timeout, AbortRequest, Disconnect
<1>10. CASE UNCHANGED vars
  BY <1>2, <1>10 DEF vars
<1> QED BY <1>5, <1>6, <1>7, <1>8, <1>9, <1>10 DEF Next

LEMMA InitText == Init => TextOK(upstream)
<1> SUFFICES ASSUME Init PROVE TextOK(upstream)
  OBVIOUS
<1>1. PICK text \in Texts : upstream = NewUpstream(text)
  BY DEF Init
<1>2. /\ upstream.text = text /\ upstream.sent = 0 /\ upstream.buffer = <<>>
      /\ upstream.partial = <<>> /\ upstream.buffered = 0 /\ upstream.events = <<>>
      /\ ~upstream.refused /\ upstream.phase = "new"
  BY <1>1 DEF NewUpstream
<1>3. Holds(upstream)
  <2>1. text \in Seq(Bytes)
    BY TextsAssumption
  <2>2. 0 \in 0 .. Len(text) /\ <<>> \in Seq(Characters) /\ <<>> \in Seq(AllEvents)
    BY <2>1
  <2> QED BY <1>2, <2>2 DEF Holds, Partials
<1>4. Said(upstream) = [ok |-> TRUE, chars |-> <<>>, partial |-> <<>>]
  <2>1. SubSeq(upstream.text, 1, upstream.sent) = <<>>
    BY <1>2
  <2>2. Len(<<>>) \in Nat /\ Len(<<>>) = 0
    OBVIOUS
  <2>3. PICK f : DecodesAs(f, <<>>, <<>>) /\ DecodeBytes(<<>>, <<>>) = f[Len(<<>>)]
    BY <2>2, ByteByByte
  <2>4. f[0] = [ok |-> TRUE, chars |-> <<>>, partial |-> <<>>]
    BY <2>3, Zenon DEF DecodesAs
  <2> QED BY <2>1, <2>2, <2>3, <2>4 DEF Said
<1>5. Ends(<<>>) = {}
  BY DEF Ends, Positions
<1>6. FindBoundary(<<>>) = <<>>
  <2>1. <<>> \in Seq(Characters)
    OBVIOUS
  <2> QED BY <1>5, <2>1, FoundBoundary
<1>7. Follows(Said(upstream).chars, upstream.events, upstream.buffer)
  BY <1>2, <1>4, FollowsFromTheStart
<1>8. 0 <= MaxFrame /\ Len(<<>>) = 0
  BY FrameAssumption
<1> QED BY <1>2, <1>3, <1>4, <1>6, <1>7, <1>8, ByteLengthOfNone DEF TextOK, Parses

LEMMA EventsShown == IInv /\ TextOK(upstream) => EventsAsSent
<1> SUFFICES ASSUME IInv, TextOK(upstream) PROVE EventsAsSent
  OBVIOUS
<1>1. /\ Holds(upstream) /\ upstream.text \in Texts /\ upstream.sent \in 0 .. Len(upstream.text)
      /\ upstream.ended => upstream.phase = "over"
  BY DEF TextOK, Holds, IInv, Ended
<1>2. ParsedUpTo[upstream.text][upstream.sent] = AllParsed(upstream)
  BY <1>1 DEF ParsedUpTo, AllParsed, Said
<1>3. AsSent(upstream)
  <2>1. CASE upstream.phase = "over"
    BY <2>1 DEF TextOK
  <2>2. CASE upstream.phase # "over"
    <3>1. Parses(upstream)
      BY <2>2 DEF TextOK
    <3> DEFINE largest == AllParsed(upstream).largest
               held    == ByteLength(upstream.buffer)
               waits   == Len(upstream.partial)
    <3>2. upstream.phase # "parsing" =>
            /\ FindBoundary(upstream.buffer) = <<>>
            /\ held + waits <= MaxFrame
      BY <3>1 DEF Parses
    <3>3. held \in Nat /\ waits \in Nat /\ MaxFrame \in Nat
      BY <1>1, ByteLengthType, FrameAssumption DEF Holds, Partials
    <3>4. FindBoundary(upstream.buffer) = <<>> /\ largest > MaxFrame => held > MaxFrame
      BY <1>1, <3>1, ParsedSoFar
    <3> HIDE DEF largest, held, waits
    <3>5. largest > MaxFrame => upstream.phase = "parsing"
      BY <3>2, <3>3, <3>4
    <3> QED BY <1>1, <2>2, <3>1, <3>2, <3>5, ParsedSoFar DEF AsSent, Parses, largest
  <2> QED BY <2>1, <2>2
<1> QED BY <1>2, <1>3 DEF EventsAsSent, AsSent

LEMMA TextInvariance == Spec => []TextOK(upstream)
<1>1. Init => TextOK(upstream)
  BY InitText
<1>2. IInv /\ TextOK(upstream) /\ [Next]_vars => TextOK(upstream)'
  BY NextText
<1> QED BY <1>1, <1>2, ConnectionInvariance, PTL DEF Spec

(* Wherever the network cuts a character, a line end or a boundary, the     *)
(* parser passes on the events of the text, all that are complete whenever  *)
(* it reads on or ends, and it refuses a frame only if it is too large.     *)
THEOREM EventsAreAsSent == Spec => []EventsAsSent
BY EventsShown, ConnectionInvariance, TextInvariance, PTL

-----------------------------------------------------------------------------
(* From here on, what the limiter counts.  The bytes of two texts in a row  *)
(* are those of each but for a pair that they have between them             *)
(* (Utf8LengthOfTwo), which is what a limiter corrects, so it has the bytes *)
(* of what the events said of each item (Tallies).                          *)

-----------------------------------------------------------------------------
(* Sequences in a row.                                                      *)

(* f[n] is the first n of them.                                             *)
FlattensAs(f, seqs) ==
  f[1] = seqs[1] /\ \A n \in 2 .. Len(seqs) : f[n] = f[n - 1] \o seqs[n]

(* The recursive function of FlattenSeq() exists.                           *)
LEMMA SeqBySeq ==
  ASSUME NEW seqs, Len(seqs) \in Nat, Len(seqs) # 0
  PROVE  \E f : FlattensAs(f, seqs) /\ FlattenSeq(seqs) = f[Len(seqs)]
<1> DEFINE N == Len(seqs)
           flatten[i \in 1 .. N] == IF i = 1 THEN seqs[i] ELSE flatten[i - 1] \o seqs[i]
<1>1. FlattenSeq(seqs) = flatten[N]
  BY DEF FlattenSeq
<1> HIDE DEF N
<1>2. N \in Nat /\ N # 0
  BY DEF N
<1> DEFINE Fits(g, m) ==
             g = [i \in 1 .. m |-> IF i = 1 THEN seqs[i] ELSE g[i - 1] \o seqs[i]]
           S == {m \in 0 .. N : \E g : Fits(g, m)}
<1>3. \E f : f = [i \in 1 .. N |-> IF i = 1 THEN seqs[i] ELSE f[i - 1] \o seqs[i]]
  <2>1. ASSUME NEW m \in 0 .. N, \A k \in 0 .. m - 1 : k \in S
        PROVE  \E g : Fits(g, m)
    <3>1. CASE m = 0
      <4> DEFINE g == [i \in 1 .. 0 |-> seqs[i]]
      <4>1. Fits(g, 0)
        OBVIOUS
      <4> QED BY <3>1, <4>1
    <3>2. CASE m > 0
      <4>1. m - 1 \in S
        <5>1. m - 1 \in 0 .. m - 1
          BY <3>2
        <5> HIDE DEF S
        <5> QED BY <2>1, <5>1
      <4>2. PICK h : Fits(h, m - 1)
        BY <4>1
      <4> DEFINE G(g, i) == IF i = 1 THEN seqs[i] ELSE g[i - 1] \o seqs[i]
                 g == [i \in 1 .. m |-> IF i = m THEN G(h, i) ELSE h[i]]
      <4>3. ASSUME NEW i \in 1 .. m
            PROVE  g[i] = G(g, i)
        <5>1. CASE i = m
          <6>1. i # 1 => g[i - 1] = h[i - 1]
            BY <5>1
          <6> QED BY <5>1, <6>1
        <5>2. CASE i < m
          <6>1. g[i] = h[i] /\ (i # 1 => g[i - 1] = h[i - 1])
            BY <5>2
          <6>2. i \in 1 .. m - 1
            BY <5>2
          <6>3. h[i] = G(h, i)
            BY <4>2, <6>2
          <6> QED BY <6>1, <6>3
        <5> QED BY <5>1, <5>2
      <4>4. Fits(g, m)
        <5>1. g = [i \in 1 .. m |-> g[i]]
          OBVIOUS
        <5>2. \A i \in 1 .. m : g[i] = G(g, i)
          BY <4>3
        <5> HIDE DEF g
        <5> QED BY <5>1, <5>2
      <4> QED BY <4>4
    <3>3. m = 0 \/ m > 0
      BY <1>2
    <3> HIDE DEF Fits
    <3> QED BY <3>1, <3>2, <3>3
  <2>2. \A m \in 0 .. N : (\A k \in 0 .. m - 1 : k \in S) => m \in S
    BY <2>1
  <2> HIDE DEF S
  <2>3. N \in S
    <3>1. 0 .. N \subseteq S
      BY <1>2, <2>2, UpToN, SMTT(30)
    <3> QED BY <1>2, <3>1
  <2> QED BY <2>3 DEF S
<1>4. flatten = [i \in 1 .. N |-> IF i = 1 THEN seqs[i] ELSE flatten[i - 1] \o seqs[i]]
  BY <1>3
<1> HIDE DEF flatten
<1>5. flatten[1] = seqs[1] /\ \A n \in 2 .. N : flatten[n] = flatten[n - 1] \o seqs[n]
  <2>1. 1 \in 1 .. N /\ \A n \in 2 .. N : n \in 1 .. N /\ n # 1
    BY <1>2
  <2>2. \A n \in 1 .. N : flatten[n] = IF n = 1 THEN seqs[n] ELSE flatten[n - 1] \o seqs[n]
    BY <1>4, Zenon
  <2> QED BY <2>1, <2>2, Zenon
<1>6. FlattensAs(flatten, seqs)
  BY <1>5 DEF FlattensAs, N
<1> QED BY <1>1, <1>6 DEF N

LEMMA FlattenNone == FlattenSeq(<<>>) = <<>>
BY DEF FlattenSeq

LEMMA FlattenType ==
  ASSUME NEW S, NEW seqs \in Seq(Seq(S))
  PROVE  FlattenSeq(seqs) \in Seq(S)
<1> DEFINE T == Seq(S)
           N == Len(seqs)
<1>1. seqs \in Seq(T) /\ N \in Nat
  OBVIOUS
<1>2. \A s, t \in T : s \o t \in T
  OBVIOUS
<1>3. CASE N = 0
  <2>1. seqs = <<>> /\ <<>> \in Seq(S)
    BY <1>3
  <2> QED BY <2>1, FlattenNone
<1>4. CASE N # 0
  <2>1. PICK f : FlattensAs(f, seqs) /\ FlattenSeq(seqs) = f[N]
    BY <1>1, <1>4, SeqBySeq
  <2> HIDE DEF T
  <2>2. \A n \in 1 .. N : seqs[n] \in T
    BY <1>1
  <2> DEFINE R == {n \in 0 .. N : n = 0 \/ f[n] \in T}
  <2>3. ASSUME NEW n \in 0 .. N, \A m \in 0 .. n - 1 : m \in R
        PROVE  n = 0 \/ f[n] \in T
    <3>1. CASE n = 1
      BY <2>1, <2>2, <3>1 DEF FlattensAs
    <3>2. CASE n > 1
      <4>1. n - 1 \in R
        <5>1. n - 1 \in 0 .. n - 1
          BY <3>2
        <5> HIDE DEF R
        <5> QED BY <2>3, <5>1
      <4>2. f[n - 1] \in T /\ seqs[n] \in T
        BY <2>2, <3>2, <4>1
      <4>3. n \in 2 .. Len(seqs)
        BY <3>2
      <4>4. f[n] = f[n - 1] \o seqs[n]
        BY <2>1, <4>3, Zenon DEF FlattensAs
      <4> QED BY <1>2, <4>2, <4>4
    <3> QED BY <3>1, <3>2
  <2>4. \A n \in 0 .. N : (\A m \in 0 .. n - 1 : m \in R) => n \in R
    BY <2>3
  <2> HIDE DEF R
  <2>5. 0 .. N \subseteq R
    BY <1>1, <2>4, UpToN
  <2>6. f[N] \in T
    <3>1. N \in R
      BY <1>1, <2>5
    <3> QED BY <1>4, <3>1 DEF R
  <2> QED BY <2>1, <2>6 DEF T
<1> QED BY <1>3, <1>4

LEMMA FlattenMore ==
  ASSUME NEW S, NEW seqs \in Seq(Seq(S)), NEW s \in Seq(S)
  PROVE  FlattenSeq(Append(seqs, s)) = FlattenSeq(seqs) \o s
<1> DEFINE N == Len(seqs)
           more == Append(seqs, s)
<1>1. N \in Nat /\ Len(more) = N + 1 /\ more[N + 1] = s /\ \A n \in 1 .. N : more[n] = seqs[n]
  OBVIOUS
<1> HIDE DEF more
<1>2. PICK f : FlattensAs(f, more) /\ FlattenSeq(more) = f[N + 1]
  <2>1. Len(more) \in Nat /\ Len(more) # 0
    BY <1>1
  <2>2. PICK f : FlattensAs(f, more) /\ FlattenSeq(more) = f[Len(more)]
    BY <2>1, SeqBySeq
  <2> QED BY <1>1, <2>2
<1>3. CASE N = 0
  <2>1. f[1] = s
    BY <1>1, <1>2, <1>3 DEF FlattensAs
  <2>2. seqs = <<>> /\ <<>> \o s = s
    BY <1>3
  <2> QED BY <1>2, <1>3, <2>1, <2>2, FlattenNone DEF more
<1>4. CASE N # 0
  <2>1. PICK g : FlattensAs(g, seqs) /\ FlattenSeq(seqs) = g[N]
    BY <1>1, <1>4, SeqBySeq
  <2> DEFINE R == {n \in 0 .. N : n = 0 \/ f[n] = g[n]}
  <2>2. ASSUME NEW n \in 0 .. N, \A m \in 0 .. n - 1 : m \in R
        PROVE  n = 0 \/ f[n] = g[n]
    <3>1. CASE n = 1
      BY <1>1, <1>2, <2>1, <3>1 DEF FlattensAs
    <3>2. CASE n > 1
      <4>1. n - 1 \in R
        <5>1. n - 1 \in 0 .. n - 1
          BY <3>2
        <5> HIDE DEF R
        <5> QED BY <2>2, <5>1
      <4>2. f[n - 1] = g[n - 1] /\ more[n] = seqs[n]
        BY <1>1, <3>2, <4>1
      <4>3. n \in 2 .. Len(seqs) /\ n \in 2 .. Len(more)
        BY <1>1, <3>2
      <4>4. f[n] = f[n - 1] \o more[n] /\ g[n] = g[n - 1] \o seqs[n]
        BY <1>2, <2>1, <4>3, Zenon DEF FlattensAs
      <4> QED BY <4>2, <4>4
    <3> QED BY <3>1, <3>2
  <2>3. \A n \in 0 .. N : (\A m \in 0 .. n - 1 : m \in R) => n \in R
    BY <2>2
  <2> HIDE DEF R
  <2>4. 0 .. N \subseteq R
    BY <1>1, <2>3, UpToN
  <2>5. f[N] = g[N]
    <3>1. N \in R
      BY <1>1, <2>4
    <3> QED BY <1>4, <3>1 DEF R
  <2>6. f[N + 1] = f[N] \o s
    <3>1. N + 1 \in 2 .. Len(more) /\ (N + 1) - 1 = N
      BY <1>1, <1>4
    <3>2. f[N + 1] = f[(N + 1) - 1] \o more[N + 1]
      BY <1>2, <3>1, Zenon DEF FlattensAs
    <3> QED BY <1>1, <3>1, <3>2
  <2> QED BY <1>2, <2>1, <2>5, <2>6 DEF more
<1> QED BY <1>3, <1>4

-----------------------------------------------------------------------------
(* What an event says.                                                      *)

LEMMA ValueType ==
  ASSUME NEW frame \in Seq(Characters), NEW start \in 1 .. Len(frame)
  PROVE  Value(frame, start) \in Seq(Characters)
<1> DEFINE lasts == {i \in start .. Len(frame) : i = Len(frame) \/ frame[i + 1] = "lf"}
           last == Min(lasts)
           end == IF last < Len(frame) /\ frame[last] = "cr" THEN last - 1 ELSE last
<1>1. lasts \subseteq Nat /\ Len(frame) \in lasts
  OBVIOUS
<1>2. last \in lasts
  <2> HIDE DEF lasts
  <2> QED BY <1>1, SmallestOf
<1>3. last \in start .. Len(frame)
  BY <1>2
<1> HIDE DEF last
<1>4. end \in Int /\ end <= Len(frame) /\ Len(frame) \in Nat /\ start + 1 \in Nat \ {0}
  BY <1>3
<1> HIDE DEF end
<1>5. SubSeq(frame, start + 1, end) \in Seq(Characters)
  BY <1>4
<1> QED BY <1>5 DEF Value, last, end

LEMMA EventType ==
  ASSUME NEW event \in AllEvents
  PROVE  event \in Seq(Seq(Characters)) /\ TextOf(event) \in Seq(Characters)
<1>1. PICK frame \in Seq(Characters) : event = ParseFrame(frame)
  BY DEF AllEvents
<1> DEFINE Values == Seq(Characters)
           N == Len(frame)
           v == [i \in 1 .. N |-> IF IsData(frame, i) THEN <<Value(frame, i)>> ELSE <<>>]
<1>2. N \in Nat /\ DOMAIN frame = 1 .. N
  BY <1>1
<1>3. \A i \in 1 .. N : Value(frame, i) \in Values
  BY <1>1, ValueType
<1>4. event = FlattenSeq(v)
  BY <1>1, <1>2 DEF ParseFrame
<1> HIDE DEF Values, N
<1>5. v \in Seq(Seq(Values))
  <2>1. ASSUME NEW i \in 1 .. N
        PROVE  (IF IsData(frame, i) THEN <<Value(frame, i)>> ELSE <<>>) \in Seq(Values)
    BY <1>3
  <2> DEFINE V == Seq(Values)
  <2> HIDE DEF V
  <2>2. v \in Seq(V)
    BY <1>2, <2>1 DEF V
  <2> QED BY <2>2 DEF V
<1> HIDE DEF v
<1>6. event \in Seq(Values)
  BY <1>4, <1>5, FlattenType
<1>7. TextOf(event) \in Seq(Characters)
  BY <1>6, FlattenType DEF TextOf, Values
<1> QED BY <1>6, <1>7 DEF Values

-----------------------------------------------------------------------------
(* Bytes of UTF-8.                                                          *)

LEMMA PairsFinite ==
  ASSUME NEW S, NEW text \in Seq(S)
  PROVE  /\ IsFiniteSet(Pairs(text)) /\ Pairs(text) \subseteq 1 .. Len(text)
         /\ Cardinality(Pairs(text)) \in Nat
         /\ Cardinality(Pairs(text)) <= Cardinality(Positions(text, "high"))
<1>1. Pairs(text) \subseteq Positions(text, "high")
  BY DEF Pairs
<1> QED BY <1>1, PositionsFinite, FS_Subset, FS_CardinalityType

(* A pair that was cut in two is one again.                                 *)
LEMMA PairsInTwo ==
  ASSUME NEW S, NEW before \in Seq(S), NEW after \in Seq(S)
  PROVE  Cardinality(Pairs(before \o after)) =
           Cardinality(Pairs(before)) + Cardinality(Pairs(after))
             + (IF EndsHigh(before) /\ StartsLow(after) THEN 1 ELSE 0)
<1> DEFINE A == Pairs(before)
           B == Pairs(after)
           W == Pairs(before \o after)
           m == Len(before)
           n == Len(after)
           whole == before \o after
           cut == EndsHigh(before) /\ StartsLow(after)
           C == {m + i : i \in B}
           D == IF cut THEN {m} ELSE {}
<1>1. /\ A \subseteq 1 .. m /\ IsFiniteSet(A) /\ Cardinality(A) \in Nat
      /\ B \subseteq 1 .. n /\ IsFiniteSet(B) /\ Cardinality(B) \in Nat
  BY PairsFinite
<1>2. m \in Nat /\ n \in Nat
  OBVIOUS
<1>3. /\ \A i \in 1 .. m : whole[i] = before[i]
      /\ \A i \in 1 .. n : whole[m + i] = after[i]
  OBVIOUS
<1>4. DOMAIN whole = 1 .. m + n /\ DOMAIN before = 1 .. m /\ DOMAIN after = 1 .. n
  OBVIOUS
<1>5. cut <=> m # 0 /\ n # 0 /\ before[m] = "high" /\ after[1] = "low"
  BY DEF EndsHigh, StartsLow
<1> HIDE DEF m, n, whole, cut
<1>6. \A i : i \in A <=> /\ i \in 1 .. m /\ i + 1 \in 1 .. m
                         /\ before[i] = "high" /\ before[i + 1] = "low"
  BY <1>4 DEF Pairs, Positions
<1>7. \A i : i \in B <=> /\ i \in 1 .. n /\ i + 1 \in 1 .. n
                         /\ after[i] = "high" /\ after[i + 1] = "low"
  BY <1>4 DEF Pairs, Positions
<1>8. \A i : i \in W <=> /\ i \in 1 .. m + n /\ i + 1 \in 1 .. m + n
                         /\ whole[i] = "high" /\ whole[i + 1] = "low"
  BY <1>4 DEF Pairs, Positions, whole
<1> HIDE DEF A, B, W
<1>9. W = (A \cup C) \cup D
  <2>1. ASSUME NEW i \in 1 .. m, i # m
        PROVE  i \in W <=> i \in (A \cup C) \cup D
    <3>1. i + 1 \in 1 .. m /\ i \in 1 .. m + n /\ i + 1 \in 1 .. m + n
      BY <1>2, <2>1
    <3>2. i \in W <=> i \in A
      BY <1>3, <1>6, <1>8, <3>1
    <3>3. i \notin C /\ i \notin D
      BY <1>1, <1>2, <2>1
    <3> QED BY <3>2, <3>3
  <2>2. m \in W <=> m \in (A \cup C) \cup D
    <3>1. m \notin C /\ m \notin A
      BY <1>1, <1>2, <1>6
    <3>2. m \in W <=> cut
      <4>1. CASE m = 0 \/ n = 0
        <5>1. ~ (m \in 1 .. m + n /\ m + 1 \in 1 .. m + n)
          BY <1>2, <4>1
        <5> QED BY <1>5, <1>8, <4>1, <5>1
      <4>2. CASE m # 0 /\ n # 0
        <5>1. m \in 1 .. m /\ 1 \in 1 .. n /\ m \in 1 .. m + n /\ m + 1 \in 1 .. m + n
          BY <1>2, <4>2
        <5>2. whole[m] = before[m] /\ whole[m + 1] = after[1]
          BY <1>3, <5>1
        <5> QED BY <1>5, <1>8, <4>2, <5>1, <5>2
      <4> QED BY <4>1, <4>2
    <3> QED BY <3>1, <3>2
  <2>3. ASSUME NEW j \in 1 .. n
        PROVE  m + j \in W <=> m + j \in (A \cup C) \cup D
    <3>1. m + j \notin A /\ m + j \notin D
      BY <1>1, <1>2
    <3>2. m + j \in C <=> j \in B
      BY <1>1, <1>2
    <3>3. m + j \in W <=> j \in B
      <4>1. m + j \in 1 .. m + n /\ (m + j) + 1 = m + (j + 1)
        BY <1>2
      <4>2. m + (j + 1) \in 1 .. m + n <=> j + 1 \in 1 .. n
        BY <1>2
      <4>3. whole[m + j] = after[j] /\ (j + 1 \in 1 .. n => whole[m + (j + 1)] = after[j + 1])
        BY <1>3
      <4> QED BY <1>7, <1>8, <4>1, <4>2, <4>3
    <3> QED BY <3>1, <3>2, <3>3
  <2>4. /\ W \subseteq 1 .. m + n /\ A \subseteq 1 .. m + n /\ C \subseteq 1 .. m + n
        /\ D \subseteq {m}
    <3>1. \A i \in B : m + i \in 1 .. m + n
      BY <1>1, <1>2
    <3>2. A \subseteq 1 .. m + n
      BY <1>1, <1>2
    <3> QED BY <1>8, <3>1, <3>2
  <2>5. ASSUME NEW i \in 1 .. m + n, ~ (i \in 1 .. m /\ i # m), i # m
        PROVE  \E j \in 1 .. n : i = m + j
    <3>1. i - m \in 1 .. n /\ i = m + (i - m)
      BY <1>2, <2>5
    <3> QED BY <3>1
  <2> HIDE DEF C, D
  <2>6. \A i \in (1 .. m + n) \cup {m} : i \in W <=> i \in (A \cup C) \cup D
    BY <2>1, <2>2, <2>3, <2>5
  <2> QED BY <2>4, <2>6
<1>10. IsFiniteSet(C) /\ Cardinality(C) = Cardinality(B)
  <2>1. B \subseteq Nat
    BY <1>1
  <2> QED BY <1>1, <1>2, <2>1, ShiftedSet
<1>11. IsFiniteSet(D) /\ Cardinality(D) = IF cut THEN 1 ELSE 0
  BY FS_Singleton, FS_EmptySet
<1>12. A \cap C = {} /\ (A \cup C) \cap D = {}
  <2>1. A \cap C = {}
    BY <1>1, <1>2
  <2>2. m \notin A /\ m \notin C
    BY <1>1, <1>2, <1>6
  <2> QED BY <2>1, <2>2
<1> HIDE DEF C, D
<1>13. IsFiniteSet(A \cup C) /\ Cardinality(A \cup C) = Cardinality(A) + Cardinality(C) - 0
  BY <1>1, <1>10, <1>12, FS_Union, FS_EmptySet, SMTT(30)
<1>14. Cardinality((A \cup C) \cup D) = Cardinality(A \cup C) + Cardinality(D) - 0
  <2>1. Cardinality((A \cup C) \cap D) = 0
    BY <1>12, FS_EmptySet
  <2>2. IsFiniteSet(A \cup C) /\ IsFiniteSet(D)
    BY <1>11, <1>13
  <2> QED BY <2>1, <2>2, FS_Union
<1>15. Cardinality(W) = Cardinality(A) + Cardinality(B) + IF cut THEN 1 ELSE 0
  BY <1>1, <1>9, <1>10, <1>11, <1>13, <1>14
<1> QED BY <1>15 DEF A, B, W, cut

LEMMA Utf8LengthType ==
  ASSUME NEW text \in Seq(Characters)
  PROVE  Utf8Length(text) \in Nat
<1> DEFINE wide == Cardinality(Positions(text, "wide"))
           high == Cardinality(Positions(text, "high"))
           low  == Cardinality(Positions(text, "low"))
           pair == Cardinality(Pairs(text))
<1>1. wide \in Nat /\ high \in Nat /\ low \in Nat
  BY PositionsFinite
<1>2. pair \in Nat /\ pair <= high
  BY PairsFinite
<1> DEFINE size == Len(text)
           bytes == Utf8Length(text)
<1>3. size \in Nat /\ bytes = size + wide + 2 * (high + low) - 2 * pair
  BY DEF Utf8Length
<1> HIDE DEF wide, high, low, pair, size, bytes
<1>4. bytes \in Nat
  BY <1>1, <1>2, <1>3
<1> QED BY <1>4 DEF bytes

LEMMA Utf8LengthOfNone == Utf8Length(<<>>) = 0
<1>1. \A unit : Positions(<<>>, unit) = {}
  BY DEF Positions
<1>2. Pairs(<<>>) = {}
  BY <1>1 DEF Pairs
<1>3. Cardinality({}) = 0 /\ Len(<<>>) = 0
  BY FS_EmptySet
<1>4. Utf8Length(<<>>) = 0 + 0 + 2 * (0 + 0) - 2 * 0
  BY <1>1, <1>2, <1>3, Zenon DEF Utf8Length
<1> QED BY <1>4

(* The correction of a half that follows its other half.                    *)
LEMMA Utf8LengthOfTwo ==
  ASSUME NEW before \in Seq(Characters), NEW after \in Seq(Characters)
  PROVE  Utf8Length(before \o after) =
           Utf8Length(before) + Utf8Length(after)
             - (IF EndsHigh(before) /\ StartsLow(after) THEN 2 ELSE 0)
<1> DEFINE whole == before \o after
           N(text, unit) == Cardinality(Positions(text, unit))
           cut == IF EndsHigh(before) /\ StartsLow(after) THEN 1 ELSE 0
           a1 == N(before, "wide")  b1 == N(after, "wide")  w1 == N(whole, "wide")
           a2 == N(before, "high")  b2 == N(after, "high")  w2 == N(whole, "high")
           a3 == N(before, "low")   b3 == N(after, "low")   w3 == N(whole, "low")
           a4 == Cardinality(Pairs(before))
           b4 == Cardinality(Pairs(after))
           w4 == Cardinality(Pairs(whole))
           a0 == Len(before)  b0 == Len(after)  w0 == Len(whole)
<1>1. w1 = a1 + b1 /\ w2 = a2 + b2 /\ w3 = a3 + b3
  BY PositionsInTwo
<1>2. w4 = a4 + b4 + cut
  BY PairsInTwo
<1>3. w0 = a0 + b0 /\ a0 \in Nat /\ b0 \in Nat
  OBVIOUS
<1>4. /\ a1 \in Nat /\ a2 \in Nat /\ a3 \in Nat /\ a4 \in Nat
      /\ b1 \in Nat /\ b2 \in Nat /\ b3 \in Nat /\ b4 \in Nat
  BY PositionsFinite, PairsFinite
<1>5. /\ Utf8Length(before) = a0 + a1 + 2 * (a2 + a3) - 2 * a4
      /\ Utf8Length(after) = b0 + b1 + 2 * (b2 + b3) - 2 * b4
      /\ Utf8Length(whole) = w0 + w1 + 2 * (w2 + w3) - 2 * w4
  BY DEF Utf8Length
<1>6. cut \in {0, 1} /\ 2 * cut = IF EndsHigh(before) /\ StartsLow(after) THEN 2 ELSE 0
  OBVIOUS
<1> HIDE DEF N, cut, a0, a1, a2, a3, a4, b0, b1, b2, b3, b4, w0, w1, w2, w3, w4
<1>7. Utf8Length(whole) = Utf8Length(before) + Utf8Length(after) - 2 * cut
  BY <1>1, <1>2, <1>3, <1>4, <1>5, <1>6
<1> QED BY <1>6, <1>7 DEF whole

LEMMA EndsHighOfTwo ==
  ASSUME NEW before \in Seq(Characters), NEW after \in Seq(Characters)
  PROVE  EndsHigh(before \o after) = IF after = <<>> THEN EndsHigh(before) ELSE EndsHigh(after)
<1>1. CASE after = <<>>
  <2>1. before \o after = before
    BY <1>1
  <2> QED BY <1>1, <2>1
<1>2. CASE after # <<>>
  <2>1. Len(after) # 0 /\ Len(after) \in Nat /\ Len(before) \in Nat
    BY <1>2
  <2>2. /\ before \o after # <<>> /\ Len(before \o after) = Len(before) + Len(after)
        /\ (before \o after)[Len(before) + Len(after)] = after[Len(after)]
    BY <2>1
  <2> HIDE DEF EndsHigh
  <2>3. EndsHigh(before \o after) <=> EndsHigh(after)
    BY <1>2, <2>2 DEF EndsHigh
  <2>4. EndsHigh(before \o after) \in BOOLEAN /\ EndsHigh(after) \in BOOLEAN
    BY Zenon DEF EndsHigh
  <2> QED BY <1>2, <2>3, <2>4
<1> QED BY <1>1, <1>2

-----------------------------------------------------------------------------
(* The limiter.                                                             *)

Limiters == [bytes : [Items -> Nat], high : [Items -> BOOLEAN], stream : Nat]

(* What a limiter has counted is what the items say.                        *)
Tallies(output, says) ==
  /\ output \in Limiters
  /\ \A item \in Items : Counts(output, item, says[item])
  /\ output.stream = Total(output.bytes, Items)

LEMMA SumOfItems ==
  ASSUME NEW bytes \in [Items -> Nat]
  PROVE  Total(bytes, Items) \in Nat
BY ItemsAssumption, LedgerFinite

(* Another text for one item.                                               *)
LEMMA SumOfOthers ==
  ASSUME NEW bytes \in [Items -> Nat], NEW item \in Items, NEW n \in Nat
  PROVE  LET other == [bytes EXCEPT ![item] = n]
         IN  /\ other \in [Items -> Nat]
             /\ Total(other, Items) = Total(bytes, Items) + n - bytes[item]
<1> DEFINE other == [bytes EXCEPT ![item] = n]
           Rests == Items \ {item}
<1>1. IsFiniteSet(Items) /\ IsFiniteSet(Rests) /\ item \notin Rests /\ Rests \cup {item} = Items
  BY ItemsAssumption, FS_Subset
<1>2. other \in [Items -> Nat] /\ other[item] = n /\ \A x \in Rests : other[x] = bytes[x]
  OBVIOUS
<1> HIDE DEF other, Rests
<1>3. Total(other, Rests) = Total(bytes, Rests)
  BY <1>2, TotalSame
<1>4. /\ Total(other, Items) = Total(other, Rests) + other[item]
      /\ Total(bytes, Items) = Total(bytes, Rests) + bytes[item]
  <2>1. \A y \in Rests \cup {item} : other[y] \in Nat /\ bytes[y] \in Nat
    BY <1>1, <1>2
  <2>2. Total(other, Rests \cup {item}) = Total(other, Rests) + other[item]
    BY <1>1, <2>1, TotalMore
  <2>3. Total(bytes, Rests \cup {item}) = Total(bytes, Rests) + bytes[item]
    BY <1>1, <2>1, TotalMore
  <2> QED BY <1>1, <2>2, <2>3
<1>5. Total(bytes, Rests) \in Nat
  <2>1. \A y \in Rests : bytes[y] \in Nat
    BY <1>1
  <2> QED BY <1>1, <2>1, LedgerFinite
<1>6. bytes[item] \in Nat
  OBVIOUS
<1>7. Total(other, Items) = Total(bytes, Items) + n - bytes[item]
  BY <1>2, <1>3, <1>4, <1>5, <1>6
<1> QED BY <1>2, <1>7 DEF other

(* A delta is counted as what it adds to the text of its item, and it is    *)
(* too much if that text or the answer then is.                             *)
LEMMA TalliesMore ==
  ASSUME NEW output, NEW says \in [Items -> Seq(Characters)], Tallies(output, says),
         NEW item \in Items, NEW delta \in Seq(Characters)
  PROVE  LET more == Add(output, item, delta)
         IN  /\ Tallies(more, [says EXCEPT ![item] = says[item] \o delta])
             /\ Exceeds(output, item, delta) <=>
                  more.bytes[item] > MaxItemBytes \/ more.stream > MaxStreamBytes
             /\ \A other \in Items \ {item} : more.bytes[other] = output.bytes[other]
<1> DEFINE text == says[item]
           additional == Additional(output, item, delta)
           size == Utf8Length(text \o delta)
           more == Add(output, item, delta)
           bytes == [output.bytes EXCEPT ![item] = size]
           high == [output.high EXCEPT ![item] = EndsHigh(text \o delta)]
           then == [says EXCEPT ![item] = text \o delta]
<1>1. /\ output.bytes \in [Items -> Nat] /\ output.high \in [Items -> BOOLEAN]
      /\ output.stream \in Nat /\ output.stream = Total(output.bytes, Items)
      /\ text \in Seq(Characters) /\ text \o delta \in Seq(Characters)
  BY DEF Tallies, Limiters
<1>2. output.bytes[item] = Utf8Length(text) /\ output.high[item] = EndsHigh(text)
  BY DEF Tallies, Counts
<1>3. /\ Utf8Length(text) \in Nat /\ Utf8Length(delta) \in Nat /\ size \in Nat
      /\ EndsHigh(text \o delta) \in BOOLEAN
  BY <1>1, Utf8LengthType, Zenon DEF EndsHigh
<1>4. additional \in Int /\ output.bytes[item] + additional = size
  <2>1. size = Utf8Length(text) + Utf8Length(delta)
                 - (IF EndsHigh(text) /\ StartsLow(delta) THEN 2 ELSE 0)
    BY <1>1, Utf8LengthOfTwo
  <2>2. additional = Utf8Length(delta) - (IF EndsHigh(text) /\ StartsLow(delta) THEN 2 ELSE 0)
    BY <1>2 DEF Additional, Correction
  <2> HIDE DEF size, additional, text
  <2> QED BY <1>2, <1>3, <2>1, <2>2
<1>5. more.bytes = bytes /\ more.stream = output.stream + additional
  BY <1>4 DEF Add
<1>6. more.high = high
  <2>1. EndsHigh(text \o delta) = IF delta = <<>> THEN EndsHigh(text) ELSE EndsHigh(delta)
    BY <1>1, EndsHighOfTwo
  <2>2. EndsHigh(text \o delta) = IF delta = <<>> THEN output.high[item] ELSE EndsHigh(delta)
    BY <1>2, <2>1
  <2> QED BY <2>2, Zenon DEF Add
<1> HIDE DEF additional, size, text
<1>7. /\ bytes \in [Items -> Nat] /\ high \in [Items -> BOOLEAN]
      /\ bytes[item] = size /\ high[item] = EndsHigh(text \o delta) /\ then[item] = text \o delta
      /\ \A other \in Items \ {item} :
           bytes[other] = output.bytes[other] /\ high[other] = output.high[other]
             /\ then[other] = says[other]
  BY <1>1, <1>3
<1>8. Total(bytes, Items) = output.stream + additional
  <2>1. Total(bytes, Items) = Total(output.bytes, Items) + size - output.bytes[item]
    BY <1>1, <1>3, SumOfOthers
  <2>2. output.bytes[item] \in Nat
    BY <1>1
  <2> QED BY <1>1, <1>3, <1>4, <2>1, <2>2
<1>9. Total(bytes, Items) \in Nat
  BY <1>7, SumOfItems
<1> HIDE DEF bytes, high, then
<1>10. more = [bytes |-> bytes, high |-> high, stream |-> output.stream + additional]
  BY <1>5, <1>6 DEF Add
<1>11. more \in Limiters
  BY <1>7, <1>8, <1>9, <1>10 DEF Limiters
<1>12. ASSUME NEW other \in Items PROVE Counts(more, other, then[other])
  <2>1. CASE other = item
    BY <1>5, <1>6, <1>7, <2>1 DEF Counts, size
  <2>2. CASE other # item
    <3>1. Counts(output, other, says[other])
      BY DEF Tallies
    <3> QED BY <1>5, <1>6, <1>7, <2>2, <3>1 DEF Counts
  <2> QED BY <2>1, <2>2
<1>13. Tallies(more, then)
  BY <1>5, <1>8, <1>11, <1>12 DEF Tallies
<1>14. Exceeds(output, item, delta) <=>
         more.bytes[item] > MaxItemBytes \/ more.stream > MaxStreamBytes
  BY <1>4, <1>5, <1>7 DEF Exceeds, additional
<1> HIDE DEF more
<1> QED BY <1>5, <1>7, <1>13, <1>14 DEF then, more, text

-----------------------------------------------------------------------------
(* What the events say of an item.                                          *)

(* A delta of another item says nothing of this one.                        *)
DeltaOf(event, item) == IF ItemOf(event) = item THEN TextOf(event) ELSE <<>>

LEMMA TextOfItemType ==
  ASSUME NEW events \in Seq(AllEvents), NEW item, NEW n \in 0 .. Len(events)
  PROVE  /\ TextOfItem(events, item, n) \in Seq(Characters)
         /\ n < Len(events) =>
              TextOfItem(events, item, n + 1) =
                TextOfItem(events, item, n) \o DeltaOf(events[n + 1], item)
<1> DEFINE Deltas(m) == [k \in 1 .. m |-> DeltaOf(events[k], item)]
           T == Seq(Characters)
<1>1. \A m : TextOfItem(events, item, m) = FlattenSeq(Deltas(m))
  BY DEF TextOfItem, DeltaOf
<1>2. \A k \in 1 .. Len(events) : DeltaOf(events[k], item) \in T
  <2> SUFFICES ASSUME NEW k \in 1 .. Len(events) PROVE DeltaOf(events[k], item) \in T
    OBVIOUS
  <2>1. events[k] \in AllEvents /\ <<>> \in Seq(Characters)
    OBVIOUS
  <2>2. TextOf(events[k]) \in Seq(Characters)
    BY <2>1, EventType
  <2> QED BY <2>1, <2>2 DEF DeltaOf
<1>3. Len(events) \in Nat
  OBVIOUS
<1> HIDE DEF T
<1>4. ASSUME NEW m \in 0 .. Len(events)
      PROVE  Deltas(m) \in Seq(T)
  <2>1. \A k \in 1 .. m : DeltaOf(events[k], item) \in T
    BY <1>2, <1>3
  <2> QED BY <1>3, <2>1
<1>5. TextOfItem(events, item, n) \in Seq(Characters)
  BY <1>1, <1>4, FlattenType DEF T
<1>6. ASSUME n < Len(events)
      PROVE  TextOfItem(events, item, n + 1) =
               TextOfItem(events, item, n) \o DeltaOf(events[n + 1], item)
  <2> DEFINE delta == DeltaOf(events[n + 1], item)
  <2>1. delta \in T
    BY <1>2, <1>3, <1>6
  <2>2. Deltas(n + 1) = Append(Deltas(n), delta)
    <3> DEFINE s == Deltas(n)
               more == Deltas(n + 1)
    <3>1. /\ s \in Seq(T) /\ Len(s) = n /\ \A k \in 1 .. n : s[k] = DeltaOf(events[k], item)
          /\ more \in Seq(T) /\ Len(more) = n + 1
          /\ \A k \in 1 .. n + 1 : more[k] = DeltaOf(events[k], item)
      BY <1>3, <1>4, <1>6
    <3> HIDE DEF s, more
    <3>2. Append(s, delta) \in Seq(T) /\ Len(Append(s, delta)) = n + 1
      BY <2>1, <3>1
    <3>3. \A k \in 1 .. n + 1 : more[k] = Append(s, delta)[k]
      BY <1>3, <2>1, <3>1
    <3>4. more = Append(s, delta)
      BY <3>1, <3>2, <3>3, SeqEqual
    <3> QED BY <3>4 DEF s, more
  <2>3. FlattenSeq(Append(Deltas(n), delta)) = FlattenSeq(Deltas(n)) \o delta
    <3>1. Deltas(n) \in Seq(Seq(Characters)) /\ delta \in Seq(Characters)
      BY <1>4, <2>1 DEF T
    <3> HIDE DEF Deltas, delta
    <3> QED BY <3>1, FlattenMore
  <2> QED BY <1>1, <2>2, <2>3
<1> QED BY <1>5, <1>6

LEMMA PrefixSays ==
  ASSUME NEW S, NEW s \in Seq(S), NEW t \in Seq(S), IsPrefix(s, t), NEW item, NEW n \in 0 .. Len(s)
  PROVE  /\ Len(s) <= Len(t) /\ \A k \in 1 .. Len(s) : s[k] = t[k]
         /\ TextOfItem(s, item, n) = TextOfItem(t, item, n)
<1>1. Len(s) \in Nat /\ Len(t) \in Nat /\ Len(s) <= Len(t)
  BY DEF IsPrefix
<1>2. ASSUME NEW k \in 1 .. Len(s) PROVE s[k] = t[k]
  <2>1. SubSeq(s, 1, Len(s))[k] = s[k] /\ SubSeq(t, 1, Len(s))[k] = t[k]
    BY <1>1
  <2> QED BY <2>1 DEF IsPrefix
<1>3. \A k \in 1 .. n : s[k] = t[k]
  BY <1>1, <1>2
<1> QED BY <1>1, <1>2, <1>3 DEF TextOfItem

(* What the events say of each item.                                        *)
Saying(events) == [item \in Items |-> TextOfItem(events, item, Len(events))]

LEMMA SayingType ==
  ASSUME NEW events \in Seq(AllEvents)
  PROVE  Saying(events) \in [Items -> Seq(Characters)]
<1>1. Len(events) \in 0 .. Len(events)
  OBVIOUS
<1> QED BY <1>1, TextOfItemType DEF Saying

LEMMA SayingMore ==
  ASSUME NEW events \in Seq(AllEvents), NEW event \in AllEvents, ItemOf(event) \in Items
  PROVE  LET item == ItemOf(event)
         IN Saying(Append(events, event)) =
              [Saying(events) EXCEPT ![item] = Saying(events)[item] \o TextOf(event)]
<1> DEFINE item == ItemOf(event)
           more == Append(events, event)
           n == Len(events)
<1>1. n \in Nat /\ more \in Seq(AllEvents) /\ Len(more) = n + 1 /\ more[n + 1] = event
  OBVIOUS
<1>2. IsPrefix(events, more)
  <2>1. <<event>> \in Seq(AllEvents) /\ more = events \o <<event>>
    OBVIOUS
  <2> QED BY <2>1, PrefixOfTwo
<1> HIDE DEF more, n, item
<1>3. ASSUME NEW other \in Items
      PROVE  TextOfItem(more, other, n + 1) = TextOfItem(events, other, n) \o DeltaOf(event, other)
  <2>1. TextOfItem(more, other, n + 1) = TextOfItem(more, other, n) \o DeltaOf(more[n + 1], other)
    <3>1. n \in 0 .. Len(more) /\ n < Len(more)
      BY <1>1
    <3> QED BY <1>1, <3>1, TextOfItemType
  <2>2. TextOfItem(more, other, n) = TextOfItem(events, other, n)
    <3>1. n \in 0 .. Len(events)
      BY <1>1 DEF n
    <3> QED BY <1>1, <1>2, <3>1, PrefixSays
  <2> QED BY <1>1, <2>1, <2>2
<1>4. ASSUME NEW other \in Items, other # item
      PROVE  TextOfItem(more, other, n + 1) = TextOfItem(events, other, n)
  <2>1. DeltaOf(event, other) = <<>>
    BY <1>4 DEF DeltaOf, item
  <2>2. TextOfItem(events, other, n) \in Seq(Characters)
    <3>1. n \in 0 .. Len(events)
      BY <1>1 DEF n
    <3> QED BY <3>1, TextOfItemType
  <2> QED BY <1>3, <2>1, <2>2
<1>5. item \in Items /\ DeltaOf(event, item) = TextOf(event)
  BY DEF DeltaOf, item
<1>6. Saying(more) = [other \in Items |-> TextOfItem(more, other, n + 1)]
  BY <1>1 DEF Saying
<1>7. Saying(events) = [other \in Items |-> TextOfItem(events, other, n)]
  BY DEF Saying, n
<1>8. Saying(more) = [Saying(events) EXCEPT ![item] = Saying(events)[item] \o TextOf(event)]
  <2> DEFINE New(other) == TextOfItem(more, other, n + 1)
             Old(other) == TextOfItem(events, other, n)
             text == TextOf(event)
  <2>1. New(item) = Old(item) \o text /\ \A other \in Items : other # item => New(other) = Old(other)
    BY <1>3, <1>4, <1>5
  <2> HIDE DEF New, Old, text
  <2>2. [other \in Items |-> New(other)] =
          [[other \in Items |-> Old(other)] EXCEPT ![item] = Old(item) \o text]
    BY <1>5, <2>1
  <2> QED BY <1>5, <1>6, <1>7, <2>2 DEF New, Old, text
<1> QED BY <1>8 DEF more, item

-----------------------------------------------------------------------------
(* The limits of a round.                                                   *)

InLimits(output) ==
  /\ \A item \in Items : output.bytes[item] <= MaxItemBytes
  /\ output.stream <= MaxStreamBytes

(* The event that would make the answer too long.                           *)
OneTooMany(u) ==
  \E event \in AllEvents :
    /\ IsPrefix(Append(u.events, event), AllParsed(u).events)
    /\ Exceeds(u.output, ItemOf(event), TextOf(event))

LimitsOK(u) ==
  /\ Tallies(u.output, Saying(u.events)) /\ InLimits(u.output)
  /\ u.overlong => u.phase = "over" /\ OneTooMany(u)

(* Every item is known.                                                     *)
LEMMA ItemKnown ==
  ASSUME NEW u, Holds(u), NEW event \in AllEvents,
         IsPrefix(Append(u.events, event), AllParsed(u).events)
  PROVE  ItemOf(event) \in Items
<1> DEFINE more == Append(u.events, event)
           events == AllParsed(u).events
           n == Len(more)
<1>1. /\ more \in Seq(AllEvents) /\ n \in 1 .. n /\ n \in 0 .. n /\ more[n] = event
      /\ events \in Seq(AllEvents)
  BY SaidType DEF Holds, IsParsed
<1> HIDE DEF more, events
<1>2. n <= Len(events) /\ events[n] = event
  <2>1. IsPrefix(more, events)
    BY DEF more, events
  <2> QED BY <1>1, <2>1, PrefixSays
<1>3. n \in 1 .. Len(events)
  BY <1>1, <1>2
<1>4. u.text \in Texts /\ u.sent \in 0 .. Len(u.text)
  BY DEF Holds
<1>5. ParsedUpTo[u.text][u.sent].events = events
  BY <1>4 DEF ParsedUpTo, AllParsed, Said, events
<1>6. \A k \in 1 .. Len(events) : ItemOf(events[k]) \in Items
  BY <1>4, <1>5, ItemsAssumption
<1> QED BY <1>2, <1>3, <1>6

(* The next event of the text is that of the frame in the buffer.           *)
LEMMA NextEvent ==
  ASSUME NEW u, Holds(u), Parses(u), FindBoundary(u.buffer) # <<>>,
         ParseFrame(FirstFrame(u.buffer)) # <<>>
  PROVE  LET event == ParseFrame(FirstFrame(u.buffer))
         IN  /\ event \in AllEvents /\ TextOf(event) \in Seq(Characters)
             /\ IsPrefix(Append(u.events, event), AllParsed(u).events)
             /\ ItemOf(event) \in Items
<1> DEFINE event == ParseFrame(FirstFrame(u.buffer))
           chars == Said(u).chars
           left == Parsed(u.buffer)
           rest == Parsed(Rest(u.buffer)).events
<1>1. /\ chars \in Seq(Characters) /\ u.buffer \in Seq(Characters) /\ u.events \in Seq(AllEvents)
  BY SaidType DEF Holds
<1>2. event \in AllEvents /\ EventOf(u.buffer) = <<event>> /\ Rest(u.buffer) \in Seq(Characters)
  BY <1>1, FrameAndRest DEF EventOf
<1>3. rest \in Seq(AllEvents)
  BY <1>2, ParsedType DEF IsParsed
<1>4. AllParsed(u).events = u.events \o left.events
  <2>1. <<>> \in Seq(Characters) /\ chars \o <<>> = chars /\ u.buffer \o <<>> = u.buffer
    BY <1>1
  <2> HIDE DEF chars
  <2>2. Parsed(chars \o <<>>).events = u.events \o Parsed(u.buffer \o <<>>).events
    BY <2>1 DEF Parses, Follows, chars
  <2> QED BY <2>1, <2>2 DEF AllParsed, chars
<1>5. left.events = <<event>> \o rest
  BY <1>1, <1>2, ParsedFields
<1> HIDE DEF event, rest
<1>6. /\ Append(u.events, event) \in Seq(AllEvents)
      /\ Append(u.events, event) \o rest = u.events \o (<<event>> \o rest)
  <2> DEFINE one == <<event>>
             all == u.events
  <2>1. one \in Seq(AllEvents) /\ Append(u.events, event) = all \o one /\ all \in Seq(AllEvents)
    BY <1>1, <1>2
  <2> HIDE DEF one, all
  <2>2. (all \o one) \o rest = all \o (one \o rest)
    BY <1>3, <2>1, InARow, SMTT(30)
  <2>3. Append(u.events, event) \in Seq(AllEvents)
    BY <1>1, <1>2
  <2> QED BY <2>1, <2>2, <2>3 DEF one, all
<1>7. IsPrefix(Append(u.events, event), AllParsed(u).events)
  BY <1>3, <1>4, <1>5, <1>6, PrefixOfTwo
<1>8. ItemOf(event) \in Items
  BY <1>2, <1>7, ItemKnown
<1>9. TextOf(event) \in Seq(Characters)
  BY <1>2, EventType
<1> QED BY <1>2, <1>7, <1>8, <1>9 DEF event

(* A delta within the limits.                                               *)
LEMMA WithinMore ==
  ASSUME NEW output, NEW says \in [Items -> Seq(Characters)], Tallies(output, says),
         InLimits(output), NEW item \in Items, NEW delta \in Seq(Characters),
         ~Exceeds(output, item, delta)
  PROVE  LET more == Add(output, item, delta)
         IN  Tallies(more, [says EXCEPT ![item] = says[item] \o delta]) /\ InLimits(more)
<1> DEFINE more == Add(output, item, delta)
<1>1. /\ Tallies(more, [says EXCEPT ![item] = says[item] \o delta])
      /\ more.bytes[item] <= MaxItemBytes /\ more.stream <= MaxStreamBytes
      /\ \A other \in Items \ {item} : more.bytes[other] = output.bytes[other]
  <2>1. /\ Tallies(more, [says EXCEPT ![item] = says[item] \o delta])
        /\ ~ (more.bytes[item] > MaxItemBytes \/ more.stream > MaxStreamBytes)
        /\ \A other \in Items \ {item} : more.bytes[other] = output.bytes[other]
    BY TalliesMore
  <2> HIDE DEF more
  <2>2. more.bytes[item] \in Nat /\ more.stream \in Nat
    BY <2>1 DEF Tallies, Limiters
  <2> QED BY <2>1, <2>2, LimitsAssumption
<1> HIDE DEF more
<1>2. InLimits(more)
  BY <1>1 DEF InLimits
<1> QED BY <1>1, <1>2 DEF more

LEMMA AddedKeeps ==
  ASSUME NEW u, Holds(u), Tallies(u.output, Saying(u.events)), InLimits(u.output),
         NEW event \in AllEvents, ItemOf(event) \in Items,
         ~Exceeds(u.output, ItemOf(event), TextOf(event))
  PROVE  LET output == Add(u.output, ItemOf(event), TextOf(event))
         IN Tallies(output, Saying(Append(u.events, event))) /\ InLimits(output)
<1> DEFINE item == ItemOf(event)
           text == TextOf(event)
           says == Saying(u.events)
<1>1. says \in [Items -> Seq(Characters)] /\ text \in Seq(Characters) /\ item \in Items
  BY SayingType, EventType DEF Holds
<1>2. Saying(Append(u.events, event)) = [says EXCEPT ![item] = says[item] \o text]
  BY SayingMore DEF Holds
<1>3. Tallies(u.output, says) /\ ~Exceeds(u.output, item, text)
  OBVIOUS
<1> HIDE DEF item, text, says
<1>4. LET output == Add(u.output, item, text)
      IN  Tallies(output, [says EXCEPT ![item] = says[item] \o text]) /\ InLimits(output)
  BY <1>1, <1>3, WithinMore
<1> QED BY <1>2, <1>4 DEF item, text

(* Nothing has changed that the limits are about.                           *)
LEMMA SameLimits ==
  ASSUME NEW u, NEW v, LimitsOK(u), v.output = u.output, v.events = u.events,
         v.overlong = u.overlong,
         u.overlong => v.phase = "over" /\ v.text = u.text /\ v.sent = u.sent
  PROVE  LimitsOK(v)
<1>1. u.overlong => AllParsed(v) = AllParsed(u)
  BY DEF AllParsed, Said
<1> QED BY <1>1 DEF LimitsOK, OneTooMany

SameAnswer(u, v) == v.output = u.output /\ v.events = u.events /\ v.overlong = u.overlong

LEMMA ClosedAnswer ==
  ASSUME NEW u, IsRound(u)
  PROVE  SameAnswer(u, Closed(u)) /\ SameAnswer(u, AbortRound(u))
BY DEF IsRound, AbortRound, Closed, Fields, SameAnswer

LEMMA ThrownAnswer ==
  ASSUME NEW u, NEW v, IsRound(v), SameAnswer(u, v), Throw(v)
  PROVE  SameAnswer(u, upstream')
BY ClosedAnswer DEF Throw, SameAnswer

(* The generators go on or give up without an event.                        *)
LEMMA QuietLimits ==
  ASSUME IInv, LimitsOK(upstream), upstream.phase # "over",
         Post \/ Respond \/ Receive \/ Done \/ Refuse \/ Throw(upstream)
  PROVE  LimitsOK(upstream')
<1>1. IsRound(upstream) /\ SameAnswer(upstream, upstream) /\ ~upstream.overlong
  BY DEF IInv, Types, SameAnswer, LimitsOK
<1>2. CASE Throw(upstream)
  BY <1>1, <1>2, ThrownAnswer, SameLimits DEF SameAnswer
<1>3. CASE upstream' = [upstream EXCEPT !.phase = "asking", !.link = "asked"]
  <2>1. SameAnswer(upstream, upstream')
    BY <1>1, <1>3 DEF IsRound, Fields, SameAnswer
  <2> QED BY <1>1, <2>1, SameLimits DEF SameAnswer
<1>4. CASE upstream' = [upstream EXCEPT !.phase = "reading", !.link = "open"]
  <2>1. SameAnswer(upstream, upstream')
    BY <1>1, <1>4 DEF IsRound, Fields, SameAnswer
  <2> QED BY <1>1, <2>1, SameLimits DEF SameAnswer
<1>5. CASE Refuse
  <2> DEFINE v == [upstream EXCEPT !.refused = TRUE]
  <2>1. IsRound(v) /\ SameAnswer(upstream, v)
    BY <1>1 DEF IsRound, Fields, SameAnswer
  <2>2. Throw(v)
    BY <1>5 DEF Refuse
  <2> HIDE DEF v
  <2> QED BY <1>1, <2>1, <2>2, ThrownAnswer, SameLimits DEF SameAnswer
<1>6. CASE Receive
  <2> DEFINE Chunk(sent) == SubSeq(upstream.text, upstream.sent + 1, sent)
             Decoded(sent) == DecodeBytes(upstream.partial, Chunk(sent))
             Received(sent) ==
               [upstream EXCEPT !.sent = sent, !.buffered = upstream.buffered + Len(Chunk(sent))]
  <2>1. PICK sent \in upstream.sent + 1 .. Len(upstream.text) :
          \/ Throw(Received(sent))
          \/ upstream' = [Received(sent) EXCEPT !.phase = "parsing",
                                                !.partial = Decoded(sent).partial,
                                                !.buffer = @ \o Decoded(sent).chars]
    BY <1>6 DEF Receive
  <2> DEFINE u == Received(sent)
             partial == Decoded(sent).partial
             buffer == u.buffer \o Decoded(sent).chars
             buffered == upstream.buffered + Len(Chunk(sent))
  <2>2. \/ Throw(u)
        \/ upstream' = [u EXCEPT !.phase = "parsing", !.partial = partial, !.buffer = buffer]
    BY <2>1
  <2>3. u = [upstream EXCEPT !.sent = sent, !.buffered = buffered]
    OBVIOUS
  <2> HIDE DEF u, partial, buffer, buffered
  <2>4. IsRound(u) /\ SameAnswer(upstream, u)
    BY <1>1, <2>3 DEF IsRound, Fields, SameAnswer
  <2>5. CASE Throw(u)
    BY <1>1, <2>4, <2>5, ThrownAnswer, SameLimits DEF SameAnswer
  <2>6. CASE upstream' = [u EXCEPT !.phase = "parsing", !.partial = partial, !.buffer = buffer]
    <3>1. SameAnswer(upstream, upstream')
      BY <2>4, <2>6 DEF IsRound, Fields, SameAnswer
    <3> QED BY <1>1, <3>1, SameLimits DEF SameAnswer
  <2> QED BY <2>2, <2>5, <2>6
<1>7. CASE Done
  <2> DEFINE u == IF upstream.link = "open" THEN [upstream EXCEPT !.link = "eof"] ELSE upstream
  <2>1. IsRound(u) /\ SameAnswer(upstream, u)
    BY <1>1 DEF IsRound, Fields, SameAnswer
  <2>2. Throw(u) \/ upstream' = [Closed(u) EXCEPT !.ended = TRUE]
    BY <1>7, Zenon DEF Done, Returns
  <2> HIDE DEF u
  <2>3. CASE Throw(u)
    BY <1>1, <2>1, <2>3, ThrownAnswer, SameLimits DEF SameAnswer
  <2>4. CASE upstream' = [Closed(u) EXCEPT !.ended = TRUE]
    <3>1. IsRound(Closed(u)) /\ SameAnswer(u, Closed(u))
      BY <2>1, ClosedRound, ClosedAnswer
    <3>2. SameAnswer(upstream, upstream')
      BY <2>1, <2>4, <3>1 DEF IsRound, Fields, SameAnswer
    <3> QED BY <1>1, <3>2, SameLimits DEF SameAnswer
  <2> QED BY <2>2, <2>3, <2>4
<1>8. Post => Throw(upstream) \/ upstream' = [upstream EXCEPT !.phase = "asking", !.link = "asked"]
  BY DEF Post
<1>9. Respond => Throw(upstream) \/ upstream' = [upstream EXCEPT !.phase = "reading", !.link = "open"]
  BY DEF Respond
<1> QED BY <1>2, <1>3, <1>4, <1>5, <1>6, <1>7, <1>8, <1>9

LEMMA ParseLimits ==
  ASSUME IInv, TextOK(upstream), LimitsOK(upstream), Parse
  PROVE  LimitsOK(upstream')
<1> DEFINE buffer == upstream.buffer
           event  == ParseFrame(FirstFrame(buffer))
           item   == ItemOf(event)
           text   == TextOf(event)
           rest   == Consumed(upstream, FrameTakes(buffer))
<1>1. /\ upstream.phase = "parsing" /\ IsRound(upstream) /\ ~upstream.overlong
      /\ Holds(upstream) /\ Parses(upstream)
  BY DEF Parse, Waiting, IInv, Types, TextOK, LimitsOK
<1>2. \/ Refuse
      \/ upstream' = [upstream EXCEPT !.phase = "reading"]
      \/ upstream' = rest
      \/ Throw(rest)
      \/ /\ FindBoundary(buffer) # <<>> /\ event # <<>>
         /\ \/ Exceeds(upstream.output, item, text) /\ Throw([rest EXCEPT !.overlong = TRUE])
            \/ /\ ~Exceeds(upstream.output, item, text)
               /\ upstream' = [rest EXCEPT !.events = Append(@, event), !.output = Add(@, item, text)]
  BY Zenon DEF Parse, FirstFrame, FrameTakes
<1>3. IsRound(rest) /\ SameAnswer(upstream, rest) /\ rest.text = upstream.text /\ rest.sent = upstream.sent
  BY <1>1 DEF Consumed, IsRound, Fields, SameAnswer
<1> HIDE DEF rest
<1>4. CASE Refuse
  BY <1>1, <1>4, QuietLimits
<1>5. CASE upstream' = [upstream EXCEPT !.phase = "reading"]
  <2>1. SameAnswer(upstream, upstream')
    BY <1>1, <1>5 DEF IsRound, Fields, SameAnswer
  <2> QED BY <1>1, <2>1, SameLimits DEF SameAnswer
<1>6. CASE upstream' = rest
  BY <1>1, <1>3, <1>6, SameLimits DEF SameAnswer
<1>7. CASE Throw(rest)
  BY <1>1, <1>3, <1>7, ThrownAnswer, SameLimits DEF SameAnswer
<1>8. ASSUME FindBoundary(buffer) # <<>>, event # <<>>
      PROVE  /\ event \in AllEvents /\ item \in Items
             /\ IsPrefix(Append(upstream.events, event), AllParsed(upstream).events)
  BY <1>1, <1>8, NextEvent
<1> HIDE DEF event
<1>9. ASSUME FindBoundary(buffer) # <<>>, event # <<>>,
             Exceeds(upstream.output, item, text), Throw([rest EXCEPT !.overlong = TRUE])
      PROVE  LimitsOK(upstream')
  <2> DEFINE v == [rest EXCEPT !.overlong = TRUE]
  <2>1. /\ IsRound(v) /\ v.output = upstream.output /\ v.events = upstream.events /\ v.overlong
        /\ v.text = upstream.text /\ v.sent = upstream.sent
    BY <1>3 DEF IsRound, Fields, SameAnswer
  <2>2. upstream' = Closed(v)
    BY <1>9 DEF Throw
  <2> HIDE DEF v
  <2>3. /\ upstream'.output = upstream.output /\ upstream'.events = upstream.events
        /\ upstream'.text = upstream.text /\ upstream'.sent = upstream.sent
        /\ upstream'.phase = "over"
    BY <2>1, <2>2, ClosedRound, ClosedFields, ClosedAnswer DEF SameAnswer, SameParser
  <2>4. AllParsed(upstream') = AllParsed(upstream)
    BY <2>3 DEF AllParsed, Said
  <2>5. OneTooMany(upstream')
    BY <1>8, <1>9, <2>3, <2>4 DEF OneTooMany, item, text
  <2> QED BY <2>3, <2>5 DEF LimitsOK
<1>10. ASSUME FindBoundary(buffer) # <<>>, event # <<>>, ~Exceeds(upstream.output, item, text),
              upstream' = [rest EXCEPT !.events = Append(@, event), !.output = Add(@, item, text)]
       PROVE  LimitsOK(upstream')
  <2> DEFINE events == Append(upstream.events, event)
             output == Add(upstream.output, item, text)
  <2>1. upstream' = [rest EXCEPT !.events = events, !.output = output]
    BY <1>3, <1>10 DEF SameAnswer
  <2>2. Tallies(output, Saying(events)) /\ InLimits(output)
    BY <1>1, <1>8, <1>10, AddedKeeps DEF LimitsOK
  <2> HIDE DEF events, output
  <2>3. upstream'.events = events /\ upstream'.output = output /\ ~upstream'.overlong
    BY <1>1, <1>3, <2>1 DEF IsRound, Fields, SameAnswer
  <2> QED BY <2>2, <2>3 DEF LimitsOK
<1> QED BY <1>2, <1>4, <1>5, <1>6, <1>7, <1>9, <1>10

LEMMA AbortedLimits ==
  ASSUME NEW u, LimitsOK(u), IsRound(u)
  PROVE  LimitsOK(AbortRound(u)) /\ LimitsOK(Closed(u))
<1>1. /\ SameParser(u, AbortRound(u)) /\ SameAnswer(u, AbortRound(u))
      /\ AbortRound(u).phase = u.phase
      /\ SameParser(u, Closed(u)) /\ SameAnswer(u, Closed(u)) /\ Closed(u).phase = "over"
  BY ClosedRound, ClosedFields, ClosedAnswer
<1>2. u.overlong => u.phase = "over"
  BY DEF LimitsOK
<1>3. LimitsOK(AbortRound(u))
  BY <1>1, <1>2, SameLimits DEF SameParser, SameAnswer
<1>4. LimitsOK(Closed(u))
  BY <1>1, <1>2, SameLimits DEF SameParser, SameAnswer
<1> QED BY <1>3, <1>4

LEMMA NextLimits ==
  ASSUME IInv, TextOK(upstream), LimitsOK(upstream), [Next]_vars
  PROVE  LimitsOK(upstream')
<1>1. IsRound(upstream)
  BY DEF IInv, Types
<1>2. CASE UNCHANGED upstream
  BY <1>2
<1>3. CASE upstream' = AbortRound(upstream)
  BY <1>1, <1>3, AbortedLimits
<1>4. CASE Throw(upstream)
  BY <1>1, <1>4, AbortedLimits DEF Throw
<1>5. CASE Fail
  <2> DEFINE c == Abort(conn, FALSE)
             u == IF reader.reads = 0 THEN Closed(upstream) ELSE upstream
  <2>1. upstream' = IF c.aborted THEN AbortRound(u) ELSE u
    BY <1>5 DEF Fail
  <2>2. LimitsOK(u) /\ IsRound(u)
    BY <1>1, AbortedLimits, ClosedRound
  <2> HIDE DEF u
  <2> QED BY <2>1, <2>2, AbortedLimits
<1>6. CASE Proceed
  BY <1>2, <1>5, <1>6 DEF Proceed, Ask, Take, Send
<1>7. CASE Round
  <2>1. CASE Parse
    BY <2>1, ParseLimits
  <2>2. CASE Post \/ Respond \/ Receive \/ Done
    <3>1. upstream.phase # "over"
      BY <2>2 DEF Post, Respond, Receive, Done, Waiting
    <3> QED BY <2>2, <3>1, QuietLimits, SMTT(30)
  <2> QED BY <1>2, <1>4, <1>7, <2>1, <2>2 DEF Round, Break, Exhausted
<1>8. CASE StallRequest
  BY <1>4, <1>8 DEF StallRequest, Stall
<1>9. CASE PingTimer \/ Drain \/ Heartbeat
  BY <1>2, <1>9 DEF PingTimer, Drain, Heartbeat
<1>10. CASE Timeout \/ Disconnect
  BY <1>3, <1>10 DEF Timeout, AbortRequest, Disconnect
<1>11. CASE UNCHANGED vars
  BY <1>2, <1>11 DEF vars
<1> QED BY <1>6, <1>7, <1>8, <1>9, <1>10, <1>11 DEF Next

LEMMA InitLimits == Init => LimitsOK(upstream)
<1> SUFFICES ASSUME Init PROVE LimitsOK(upstream)
  OBVIOUS
<1>1. upstream.output = NewLimiter /\ upstream.events = <<>> /\ ~upstream.overlong
  BY DEF Init, NewUpstream
<1>2. ASSUME NEW item PROVE TextOfItem(<<>>, item, Len(<<>>)) = <<>>
  <2>1. Len(<<>>) = 0 /\ 1 .. 0 = {}
    OBVIOUS
  <2> DEFINE none == [k \in 1 .. Len(<<>>) |-> DeltaOf(<<>>[k], item)]
  <2>2. TextOfItem(<<>>, item, Len(<<>>)) = FlattenSeq(none)
    BY DEF TextOfItem, DeltaOf
  <2>3. none = <<>>
    BY <2>1
  <2> QED BY <2>2, <2>3, FlattenNone
<1>3. \A item \in Items : Saying(<<>>)[item] = <<>>
  BY <1>2 DEF Saying
<1>4. /\ NewLimiter.bytes \in [Items -> Nat] /\ NewLimiter.stream = 0
      /\ NewLimiter \in Limiters
      /\ \A item \in Items : NewLimiter.bytes[item] = 0 /\ NewLimiter.high[item] = FALSE
  BY DEF NewLimiter, Limiters
<1>5. EndsHigh(<<>>) = FALSE
  BY Zenon DEF EndsHigh
<1>6. \A item \in Items : Counts(NewLimiter, item, Saying(<<>>)[item])
  BY <1>3, <1>4, <1>5, Utf8LengthOfNone DEF Counts
<1>7. Total(NewLimiter.bytes, Items) = 0
  <2>1. Ledger(NewLimiter.bytes, Items) = {}
    BY <1>4 DEF Ledger
  <2> QED BY <2>1, FS_EmptySet DEF Total
<1>8. 0 <= MaxItemBytes /\ 0 <= MaxStreamBytes
  BY LimitsAssumption
<1>9. InLimits(NewLimiter)
  BY <1>4, <1>8 DEF InLimits
<1> QED BY <1>1, <1>4, <1>6, <1>7, <1>9 DEF LimitsOK, Tallies

(* The lengths of the texts that the limiter has counted.                   *)
LEMMA Tallied ==
  ASSUME NEW output, NEW says, Tallies(output, says), NEW events, NEW n,
         \A item \in Items : TextOfItem(events, item, n) = says[item]
  PROVE  LET Length(item) == Utf8Length(TextOfItem(events, item, n))
         IN  /\ \A item \in Items : Length(item) = output.bytes[item]
             /\ Total([item \in Items |-> Length(item)], Items) = output.stream
<1> DEFINE Length(item) == Utf8Length(TextOfItem(events, item, n))
           lengths == [item \in Items |-> Length(item)]
           bytes == output.bytes
<1>1. \A item \in Items : Length(item) = bytes[item]
  BY DEF Tallies, Counts
<1>2. \A item \in Items : lengths[item] = bytes[item]
  BY <1>1
<1> HIDE DEF lengths, bytes
<1>3. Total(lengths, Items) = Total(bytes, Items)
  BY <1>2, TotalSame
<1> QED BY <1>1, <1>3 DEF Tallies, lengths, bytes

LEMMA LimitsShown == IInv /\ TextOK(upstream) /\ LimitsOK(upstream) => LimitsExact
<1> SUFFICES ASSUME IInv, TextOK(upstream), LimitsOK(upstream) PROVE LimitsExact
  OBVIOUS
<1> DEFINE u == upstream
           output == u.output
           events == AllParsed(u).events
           passed == Len(u.events)
           Length(item, n) == Utf8Length(TextOfItem(events, item, n))
           InAll(n) == Total([item \in Items |-> Length(item, n)], Items)
           Fits(n) ==
             /\ \A item \in Items : Length(item, n) <= MaxItemBytes
             /\ InAll(n) <= MaxStreamBytes
<1>1. /\ Holds(u) /\ u.events \in Seq(AllEvents) /\ events \in Seq(AllEvents)
      /\ passed \in 0 .. passed /\ passed \in Nat
  BY SaidType DEF TextOK, Holds, IsParsed
<1>2. ParsedUpTo[u.text][u.sent].events = events
  BY <1>1 DEF ParsedUpTo, AllParsed, Said, Holds
<1>3. IsPrefix(u.events, events)
  BY <1>2, EventsShown DEF EventsAsSent
<1>4. Tallies(output, Saying(u.events)) /\ InLimits(output)
  BY DEF LimitsOK
<1>5. \A item \in Items : TextOfItem(events, item, passed) = Saying(u.events)[item]
  <2> SUFFICES ASSUME NEW item \in Items
               PROVE  TextOfItem(events, item, passed) = Saying(u.events)[item]
    OBVIOUS
  <2> HIDE DEF events
  <2>1. TextOfItem(u.events, item, passed) = TextOfItem(events, item, passed)
    BY <1>1, <1>3, PrefixSays
  <2> QED BY <2>1 DEF Saying
<1> HIDE DEF events, passed
<1>6. (\A item \in Items : Length(item, passed) = output.bytes[item]) /\ InAll(passed) = output.stream
  BY <1>4, <1>5, Tallied
<1>7. Fits(passed)
  BY <1>4, <1>6 DEF InLimits
<1>8. \A item \in Items : Counts(output, item, TextOfItem(events, item, passed))
  BY <1>4, <1>5 DEF Tallies
<1>9. ASSUME u.overlong PROVE ~Fits(passed + 1)
  <2>1. PICK event \in AllEvents :
          /\ IsPrefix(Append(u.events, event), events)
          /\ Exceeds(output, ItemOf(event), TextOf(event))
    BY <1>9 DEF LimitsOK, OneTooMany, events
  <2> DEFINE item == ItemOf(event)
             text == TextOf(event)
             all == Append(u.events, event)
             more == Add(output, item, text)
  <2>2. item \in Items
    BY <1>1, <2>1, ItemKnown DEF events
  <2>3. all \in Seq(AllEvents) /\ Len(all) = passed + 1 /\ passed + 1 \in 0 .. Len(all)
    BY <1>1 DEF passed
  <2>4. Tallies(more, Saying(all)) /\ (more.bytes[item] > MaxItemBytes \/ more.stream > MaxStreamBytes)
    <3> DEFINE says == Saying(u.events)
    <3>1. says \in [Items -> Seq(Characters)] /\ text \in Seq(Characters)
      BY <1>1, SayingType, EventType
    <3>2. Saying(all) = [says EXCEPT ![item] = says[item] \o text]
      BY <1>1, <2>2, SayingMore
    <3>3. Tallies(output, says) /\ Exceeds(output, item, text)
      BY <1>4, <2>1
    <3> HIDE DEF says, text, item, output, all, more
    <3>4. LET then == Add(output, item, text)
          IN  /\ Tallies(then, [says EXCEPT ![item] = says[item] \o text])
              /\ then.bytes[item] > MaxItemBytes \/ then.stream > MaxStreamBytes
      BY <2>2, <3>1, <3>3, TalliesMore
    <3> QED BY <3>2, <3>4 DEF more
  <2> HIDE DEF all, item, text, more
  <2>5. \A other \in Items : TextOfItem(events, other, passed + 1) = Saying(all)[other]
    <3> SUFFICES ASSUME NEW other \in Items
                 PROVE  TextOfItem(events, other, passed + 1) = Saying(all)[other]
      OBVIOUS
    <3>1. IsPrefix(all, events)
      BY <2>1 DEF all
    <3>2. TextOfItem(all, other, passed + 1) = TextOfItem(events, other, passed + 1)
      BY <1>1, <2>3, <3>1, PrefixSays
    <3> QED BY <2>3, <3>2 DEF Saying
  <2>6. (\A other \in Items : Length(other, passed + 1) = more.bytes[other]) /\ InAll(passed + 1) = more.stream
    BY <2>4, <2>5, Tallied
  <2>7. more.bytes[item] \in Nat /\ more.stream \in Nat
    BY <2>2, <2>4 DEF Tallies, Limiters
  <2> HIDE DEF Length, InAll
  <2> QED BY <2>2, <2>4, <2>6, <2>7, LimitsAssumption
<1>10. output.stream = Total(output.bytes, Items)
  BY <1>4 DEF Tallies
<1> HIDE DEF output
<1> QED BY <1>2, <1>7, <1>8, <1>9, <1>10 DEF LimitsExact, events, passed, output

(* Surrogate pairs may be cut anywhere and items be told in turns: what is  *)
(* counted of an item is the length of its text, no text that is passed on  *)
(* is too long, and an answer is refused only if its next event makes it or *)
(* an item of it too long.                                                  *)
THEOREM LimitsAreExact == Spec => []LimitsExact
<1>1. Init => LimitsOK(upstream)
  BY InitLimits
<1>2. IInv /\ TextOK(upstream) /\ LimitsOK(upstream) /\ [Next]_vars => LimitsOK(upstream)'
  BY NextLimits
<1>3. IInv /\ TextOK(upstream) /\ LimitsOK(upstream) => LimitsExact
  BY LimitsShown
<1> QED BY <1>1, <1>2, <1>3, ConnectionInvariance, TextInvariance, PTL DEF Spec
=============================================================================
