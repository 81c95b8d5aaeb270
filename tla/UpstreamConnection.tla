-------------------------- MODULE UpstreamConnection --------------------------
(***************************************************************************)
(* The connection to a streaming upstream: decodeRound()                    *)
(* (src/src/upstream/completion-stream.ts) asks, parseSseStream()           *)
(* (src/src/stream/sse-parser.ts) turns the bytes that come, cut anywhere,  *)
(* into events, and PingedIterator (src/src/stream/ping.ts) asks for one    *)
(* event after the other.  The upstream may fall silent, break off, or be   *)
(* given up at any time.  What the decoder of the round does with an event  *)
(* is left to StreamedAnswer, but that it counts its bytes (OutputLimits).  *)
(*                                                                         *)
(* These are generators: they run only while somebody waits for an event.   *)
(* One event of the stream is one event for the client here.                *)
(***************************************************************************)
EXTENDS OutputLimits, SequencesExt, FiniteSetsExt

CONSTANTS
  Texts,                \* what an upstream may have to say, as bytes
  MaxFrame              \* bytes of a frame; 8 MB in the code

ASSUME FrameAssumption == MaxFrame \in Nat \ {0}

VARIABLES
  upstream,             \* the round: upstream, connection and parser
  reader                \* PingedIterator

(* A byte is "data" or "colon", which begin a line that is data or a        *)
(* comment, or are part of it; "cr", "lf"; "half" and "rest" of a character *)
(* of two bytes; or one that is never right.  "high" and "low" stand for    *)
(* the escape sequence of one half of a surrogate pair.                     *)
Bytes == {"data", "colon", "high", "low", "cr", "lf", "half", "rest", "bad"}

ASSUME TextsAssumption == Texts \subseteq Seq(Bytes)

(* sent is how much of its text the upstream has sent.  link: no request    *)
(* yet, the request was "asked", the response is "open", "eof" if the       *)
(* upstream has closed it, "cut" if anything else ended it.  phase is that  *)
(* of the generators; ended says that they returned, refused that a frame   *)
(* was too large, overlong that the answer was.                             *)
NewUpstream(text) ==
  [text |-> text, sent |-> 0, link |-> "none", phase |-> "new", aborted |-> FALSE,
   buffer |-> <<>>, partial |-> <<>>, buffered |-> 0, events |-> <<>>,
   output |-> NewLimiter, ended |-> FALSE, refused |-> FALSE, overlong |-> FALSE]

(* reads are the outstanding calls of next(), ready what they have brought, *)
(* started, due and timer the state of the pings.                           *)
NewReader ==
  [reads |-> 0, ready |-> <<>>, error |-> FALSE, started |-> FALSE, due |-> FALSE,
   timer |-> FALSE]

End == -1

Linked == upstream.link \in {"asked", "open"}

(* The request's signal, and that of the round: a response is cancelled.    *)
AbortRound(u) ==
  [u EXCEPT !.aborted = TRUE, !.link = IF @ \in {"asked", "open"} THEN "cut" ELSE @]

-----------------------------------------------------------------------------
(* From bytes to events.                                                    *)

(* A character of several bytes waits for its rest (TextDecoder, fatal).    *)
DecodeByte(decoded, byte) ==
  CASE byte = "half" /\ decoded.partial = <<>> -> [decoded EXCEPT !.partial = <<byte>>]
    [] byte = "rest" /\ decoded.partial # <<>> ->
         [decoded EXCEPT !.partial = <<>>, !.chars = Append(@, "wide")]
    [] byte \notin {"half", "rest", "bad"} /\ decoded.partial = <<>> ->
         [decoded EXCEPT !.chars = Append(@, byte)]
    [] OTHER -> [decoded EXCEPT !.ok = FALSE]

DecodeBytes(partial, bytes) ==
  LET after[n \in 0 .. Len(bytes)] ==
        IF n = 0 THEN [ok |-> TRUE, chars |-> <<>>, partial |-> partial]
        ELSE DecodeByte(after[n - 1], bytes[n])
  IN after[Len(bytes)]

(* Buffer.byteLength() of what is still JSON.                               *)
ByteLength(chars) == Len(chars) + Cardinality(Positions(chars, "wide"))

(* findBoundary(): two line ends, each lf or cr lf; where, and their length. *)
FindBoundary(chars) ==
  LET Second(i) == IF i + 1 \in Positions(chars, "cr") THEN i + 2 ELSE i + 1
      firsts == {i \in Positions(chars, "lf") : Second(i) \in Positions(chars, "lf")}
      first == Min(firsts)
      start == IF first - 1 \in Positions(chars, "cr") THEN first - 1 ELSE first
  IN IF firsts = {} THEN <<>> ELSE <<start, Second(first) - start + 1>>

(* A data line begins here.                                                 *)
IsData(frame, i) == frame[i] = "data" /\ (i = 1 \/ frame[i - 1] = "lf")

(* What a line says behind the name of its field; it ends at lf or cr lf.   *)
Value(frame, start) ==
  LET last == Min({i \in start .. Len(frame) : i = Len(frame) \/ frame[i + 1] = "lf"})
      end == IF last < Len(frame) /\ frame[last] = "cr" THEN last - 1 ELSE last
  IN SubSeq(frame, start + 1, end)

(* parseFrame(): the data of a frame, none if it is just a comment.         *)
ParseFrame(frame) ==
  FlattenSeq([i \in DOMAIN frame |-> IF IsData(frame, i) THEN <<Value(frame, i)>> ELSE <<>>])

(* An event is a delta of an item; how many lines it has tells of which.    *)
ItemOf(event) == Len(event)
TextOf(event) == FlattenSeq(event)

-----------------------------------------------------------------------------
(* What a call of next() brings.                                            *)

Yields(event) == reader' = [reader EXCEPT !.reads = @ - 1, !.ready = <<event>>]

Raises == reader' = [reader EXCEPT !.reads = @ - 1, !.error = TRUE]

(* Mutant of Closed: the response is left to itself.                        *)
ClosedOnly(u) == [u EXCEPT !.phase = "over"]

(* The finally clauses: the response is cancelled, the round is over.       *)
Closed(u) == [AbortRound(u) EXCEPT !.phase = "over"]

Throw(u) == upstream' = Closed(u) /\ Raises

(* Mutant of Returns: an aborted round returns like any other.              *)
ReturnsAborted(u) ==
  \/ upstream' = [Closed(u) EXCEPT !.ended = TRUE] /\ Yields(End)
  \/ Throw(u)

(* The end of the stream, after which the decoder may find the answer       *)
(* incomplete.  A response that was cancelled ends in the same way.         *)
Returns(u) ==
  \/ ~u.aborted /\ upstream' = [Closed(u) EXCEPT !.ended = TRUE] /\ Yields(End)
  \/ Throw(u)

Waiting(phase) == reader.reads > 0 /\ upstream.phase = phase

(* decodeRound() begins.                                                    *)
Post ==
  /\ Waiting("new")
  /\ IF upstream.aborted THEN Throw(upstream)
     ELSE /\ upstream' = [upstream EXCEPT !.phase = "asking", !.link = "asked"]
          /\ UNCHANGED reader

(* The upstream answers, refuses, or the request fails.                     *)
Respond ==
  /\ Waiting("asking")
  /\ \/ /\ upstream.link = "asked"
        /\ upstream' = [upstream EXCEPT !.phase = "reading", !.link = "open"]
        /\ UNCHANGED reader
     \/ Throw(upstream)

(* A chunk of some bytes is received.                                       *)
Receive ==
  /\ Waiting("reading") /\ upstream.link = "open"
  /\ \E sent \in upstream.sent + 1 .. Len(upstream.text) :
       LET chunk == SubSeq(upstream.text, upstream.sent + 1, sent)
           decoded == DecodeBytes(upstream.partial, chunk)
           received == [upstream EXCEPT !.sent = sent, !.buffered = @ + Len(chunk)]
       IN IF ~decoded.ok THEN Throw(received)
          ELSE /\ upstream' = [received EXCEPT !.phase = "parsing", !.partial = decoded.partial,
                                               !.buffer = @ \o decoded.chars]
               /\ UNCHANGED reader

(* assertFrameLimit()                                                       *)
TooLarge(bytes) == bytes > MaxFrame

Refuse == Throw([upstream EXCEPT !.refused = TRUE])

(* Mutant of Consumed: bytes are counted as characters.                     *)
ConsumedChars(u, length) ==
  [u EXCEPT !.buffer = SubSeq(@, length + 1, Len(@)), !.buffered = @ - length]

Consumed(u, length) ==
  [u EXCEPT !.buffer = SubSeq(@, length + 1, Len(@)),
            !.buffered = @ - ByteLength(SubSeq(u.buffer, 1, length))]

(* The frames in the buffer, one after the other; an event is passed on     *)
(* unless the round was aborted meanwhile or the answer has grown too long. *)
Parse ==
  /\ Waiting("parsing")
  /\ LET boundary == FindBoundary(upstream.buffer)
         frame == SubSeq(upstream.buffer, 1, boundary[1] - 1)
         event == ParseFrame(frame)
         rest == Consumed(upstream, boundary[1] + boundary[2] - 1)
     IN IF boundary = <<>>
          THEN IF TooLarge(upstream.buffered) THEN Refuse
               ELSE upstream' = [upstream EXCEPT !.phase = "reading"] /\ UNCHANGED reader
        ELSE IF TooLarge(ByteLength(frame)) THEN Refuse
        ELSE IF event = <<>> THEN upstream' = rest /\ UNCHANGED reader
        ELSE IF upstream.aborted THEN Throw(rest)
        ELSE IF Exceeds(upstream.output, ItemOf(event), TextOf(event))
          THEN Throw([rest EXCEPT !.overlong = TRUE])
        ELSE /\ upstream' = [rest EXCEPT !.events = Append(@, event),
                                         !.output = Add(@, ItemOf(event), TextOf(event))]
             /\ Yields(Len(upstream.events) + 1)

(* read() is done: the upstream has closed the stream, or it was cancelled. *)
Done ==
  /\ Waiting("reading")
  /\ LET u == IF upstream.link = "open" THEN [upstream EXCEPT !.link = "eof"] ELSE upstream
     IN IF u.partial # <<>> THEN Throw(u) ELSE Returns(u)

(* read() fails.                                                            *)
Break == Waiting("reading") /\ Throw(upstream)

(* The timers for the first byte and between bytes: the round fails, and    *)
(* its handler has the request aborted.                                     *)
Stall ==
  /\ Linked /\ (Waiting("asking") \/ Waiting("reading"))
  /\ Throw(upstream)

(* A generator that is over has no more to bring.                           *)
Exhausted == Waiting("over") /\ Yields(End) /\ UNCHANGED upstream

-----------------------------------------------------------------------------
(* What all of a text comes to, were it received at once: the first frame,  *)
(* how many characters it takes with its boundary, and so on with the rest. *)
FirstFrame(chars) == SubSeq(chars, 1, FindBoundary(chars)[1] - 1)

FrameTakes(chars) == FindBoundary(chars)[1] + FindBoundary(chars)[2] - 1

Suffix(chars, n) == SubSeq(chars, Len(chars) - n + 1, Len(chars))

(* The largest frame counts when it is complete, and with what there is yet *)
(* of it and its boundary.                                                  *)
ReadFrame(chars, next) ==
  LET event == ParseFrame(FirstFrame(chars))
  IN IF FindBoundary(chars) = <<>> THEN [events |-> <<>>, largest |-> ByteLength(chars)]
     ELSE [events |-> (IF event = <<>> THEN <<>> ELSE <<event>>) \o next.events,
           largest |-> Max({ByteLength(FirstFrame(chars)), next.largest})]

Parsed(chars) ==
  LET Of[n \in 0 .. Len(chars)] ==
        ReadFrame(Suffix(chars, n), Of[n - FrameTakes(Suffix(chars, n))])
  IN Of[Len(chars)]

(* For whatever has been sent of a text.                                    *)
ParsedUpTo ==
  [text \in Texts |->
     [n \in 0 .. Len(text) |-> Parsed(DecodeBytes(<<>>, SubSeq(text, 1, n)).chars)]]

ASSUME ItemsAssumption ==
  /\ IsFiniteSet(Items)
  /\ \A text \in Texts : \A n \in 0 .. Len(text) :
       LET events == ParsedUpTo[text][n].events
       IN \A k \in 1 .. Len(events) : ItemOf(events[k]) \in Items
=============================================================================
