-------------------------- MODULE ResponsesTurnProofs --------------------------
(***************************************************************************)
(* Proofs that what the turns of the Responses API leave behind is whole,   *)
(* written everywhere or nowhere, and that conversations are leased to      *)
(* turns under way, for any number of turns, conversations and transports.  *)
(***************************************************************************)
EXTENDS ResponsesTurn, TLAPS

(* What a turn knows of itself, by its stage: until the upstream's stream   *)
(* has ended it is written nowhere, afterwards where its last frame says.   *)
Consistent(turn) ==
  /\ turn.stage # "done" => turn.told = "none"
  /\ turn.stage # "done" /\ turn.historyComplete => turn.input = turn.context
  /\ turn.via = "json" => turn.stage \in {"waiting", "done"}
  /\ turn.stage \in {"waiting", "writing"} => turn.kept = {} /\ turn.terminal # "error"
  /\ turn.stage = "ending" => \/ turn.terminal = "completed" /\ turn.kept = Due(turn)
                              \/ turn.terminal \in {"incomplete", "error"} /\ turn.kept = {}
  /\ turn.stage = "reporting" \/ turn.told = "error" =>
       turn.kept = {} \/ (turn.via = "ws" /\ turn.kept = {"references"})
  /\ turn.told = "completed" => turn.kept = Due(turn)
  /\ turn.told = "incomplete" => turn.kept = {}
  /\ turn.via # "ws" => turn.kept \in {{}, Due(turn)}

(* What the stores hold of a turn, the turn was written to.                 *)
Stored ==
  /\ \A c \in Conversations : documents[c] # None =>
       \A i \in DOMAIN documents[c] :
         documents[c][i] \in Begun /\ "conversation" \in turns[documents[c][i]].kept
  /\ \A r \in Requests : histories[r] # None => r \in Begun /\ "history" \in turns[r].kept
  /\ \A r \in references : r \in Begun /\ "references" \in turns[r].kept

IInv ==
  /\ TypeOK
  /\ \A r \in Begun : Consistent(turns[r])
  /\ Stored
  /\ HistoryWhole
  /\ LeaseFollowsTurn

-----------------------------------------------------------------------------
(* A turn under way goes on or ends without being written anywhere.         *)
LEMMA MovesKeep ==
  ASSUME IInv, NEW r \in Live, NEW new \in Turn,
         turns' = [turns EXCEPT ![r] = new],
         Consistent(new),
         new.kept = turns[r].kept, new.context = turns[r].context,
         new.conversation = turns[r].conversation,
         \/ new.stage # "done" /\ new.input = turns[r].input /\ lease' = lease
         \/ new.stage = "done" /\ lease' = Released(r),
         UNCHANGED <<documents, references, histories>>
  PROVE  IInv'
<1>1. /\ r \in Requests /\ turns[r] \in Turn /\ new # None
      /\ turns' \in [Requests -> Turn \cup {None}]
      /\ turns'[r] = new /\ \A s \in Requests \ {r} : turns'[s] = turns[s]
  BY NoneAssumption DEF IInv, TypeOK, Live, Begun
<1>2. Begun' = Begun
  BY <1>1 DEF Begun, Live
<1>3. TypeOK'
  BY <1>1 DEF IInv, TypeOK, Released
<1>4. \A s \in Begun' : Consistent(turns'[s])
  BY <1>1, <1>2 DEF IInv, Begun
<1>5. Stored'
  BY <1>1, <1>2 DEF IInv, Stored
<1>6. HistoryWhole'
  BY <1>1 DEF IInv, HistoryWhole
<1>7. LeaseFollowsTurn'
  BY <1>1, <1>2, TurnAssumption DEF IInv, LeaseFollowsTurn, Live, Released, TypeOK
<1> QED BY <1>3, <1>4, <1>5, <1>6, <1>7 DEF IInv

(* Frames, the terminal event held back, an error event, an abort.          *)
LEMMA StreamKeeps ==
  ASSUME IInv, NEW r \in Live,
         \/ Frame(r) \/ ErrorEvent(r) \/ Abort(r)
         \/ \E kind \in {"completed", "incomplete"} : Terminal(r, kind)
  PROVE  IInv'
<1>1. turns[r] \in Turn /\ Consistent(turns[r]) /\ turns[r].stage # "done"
  BY DEF IInv, TypeOK, Live, Begun
<1>2. CASE Frame(r)
  <2> DEFINE new == [turns[r] EXCEPT !.stage = "writing"]
  <2>1. new \in Turn /\ Consistent(new)
    BY <1>1, <1>2 DEF Turn, Stages, Consistent, Due, Frame
  <2>2. turns' = [turns EXCEPT ![r] = new] /\ UNCHANGED <<documents, lease, references, histories>>
    BY <1>2 DEF Frame
  <2> QED BY <1>1, <2>1, <2>2, MovesKeep DEF Turn
<1>3. CASE ErrorEvent(r)
  <2> DEFINE new == [turns[r] EXCEPT !.stage = "ending", !.terminal = "error"]
  <2>1. new \in Turn /\ Consistent(new)
    BY <1>1, <1>3 DEF Turn, Stages, Ends, Consistent, Due, ErrorEvent
  <2>2. turns' = [turns EXCEPT ![r] = new] /\ UNCHANGED <<documents, lease, references, histories>>
    BY <1>1, <1>3 DEF ErrorEvent, Turn
  <2> QED BY <1>1, <2>1, <2>2, MovesKeep DEF Turn
<1>4. CASE Abort(r)
  <2>1. PICK gone \in BOOLEAN :
          turns' = [turns EXCEPT ![r].aborted = TRUE, ![r].gone = gone]
    BY <1>4 DEF Abort
  <2> DEFINE new == [turns[r] EXCEPT !.aborted = TRUE, !.gone = gone]
  <2>2. new \in Turn /\ Consistent(new)
    BY <1>1 DEF Turn, Consistent, Due
  <2>3. turns' = [turns EXCEPT ![r] = new] /\ UNCHANGED <<documents, lease, references, histories>>
    BY <1>1, <1>4, <2>1 DEF Abort, Turn
  <2> QED BY <1>1, <2>2, <2>3, MovesKeep DEF Turn
<1>5. ASSUME NEW kind \in {"completed", "incomplete"}, Terminal(r, kind) PROVE IInv'
  <2> DEFINE new == [turns[r] EXCEPT !.terminal = kind]
  <2>1. new \in Turn /\ Consistent(new)
    BY <1>1, <1>5 DEF Turn, Ends, Consistent, Due, Terminal
  <2>2. turns' = [turns EXCEPT ![r] = new] /\ UNCHANGED <<documents, lease, references, histories>>
    BY <1>5 DEF Terminal
  <2> QED BY <1>1, <2>1, <2>2, MovesKeep DEF Turn
<1> QED BY <1>2, <1>3, <1>4, <1>5

(* A turn that is over has the type of one, whatever its client was told.   *)
LEMMA DoneTurn ==
  ASSUME NEW turn \in Turn, NEW told \in Ends
  PROVE  /\ Done(turn, told) \in Turn
         /\ Done(turn, told).stage = "done" /\ Done(turn, told).told = told
         /\ Done(turn, told).kept = turn.kept /\ Done(turn, told).via = turn.via
         /\ Done(turn, told).context = turn.context
         /\ Done(turn, told).conversation = turn.conversation
         /\ Due(Done(turn, told)) = Due(turn)
<1> DEFINE done == Done(turn, told)
<1>1. /\ done.stage = "done" /\ done.told = told /\ done.input = <<>>
      /\ done.terminal = "none" /\ done.aborted = FALSE /\ done.gone = FALSE
      /\ done.kept = turn.kept /\ done.via = turn.via /\ done.context = turn.context
      /\ done.conversation = turn.conversation
      /\ done.historyComplete = turn.historyComplete
  BY DEF Done, Turn
<1>2. /\ "done" \in Stages /\ "none" \in Ends /\ <<>> \in Seq(Requests)
      /\ {turn.aborted, turn.gone} \subseteq BOOLEAN /\ turn.kept \in SUBSET {"conversation", "references", "history"}
  BY DEF Turn, Stages, Ends
<1>3. done \in Turn
  BY <1>2 DEF Done, Turn
<1> QED BY <1>1, <1>3 DEF Due

(* A turn that fails having been written nowhere, or over a WebSocket to    *)
(* the references only, is consistent again.                                *)
LEMMA FailedConsistent ==
  ASSUME NEW turn \in Turn, NEW plain \in BOOLEAN,
         turn.stage # "done", turn.told = "none",
         turn.historyComplete => turn.input = turn.context,
         turn.via = "json" => plain, turn.via = "ws" => ~plain,
         \/ turn.kept = {}
         \/ turn.via = "ws" /\ turn.kept = {"references"}
         \/ turn.gone /\ turn.kept = Due(turn)
  PROVE  LET new == Failed(turn, plain)
         IN  /\ new \in Turn /\ Consistent(new)
             /\ new.kept = turn.kept /\ new.context = turn.context
             /\ new.conversation = turn.conversation
             /\ new.stage # "done" => new.input = turn.input
<1>1. CASE turn.gone
  BY <1>1, DoneTurn DEF Failed, Consistent, Ends
<1>2. CASE ~turn.gone /\ plain
  BY <1>2, DoneTurn DEF Failed, Consistent, Ends
<1>3. CASE ~turn.gone /\ ~plain
  BY <1>3 DEF Failed, Consistent, Turn, Stages, Due
<1> QED BY <1>1, <1>2, <1>3 DEF Turn

(* Failures and the ends of writes.                                         *)
LEMMA EndsKeep ==
  ASSUME IInv, NEW r \in Live, Written(r) \/ Fail(r) \/ Report(r)
  PROVE  IInv'
<1>1. turns[r] \in Turn /\ Consistent(turns[r]) /\ turns[r].stage # "done"
  BY DEF IInv, TypeOK, Live, Begun
<1>2. CASE Written(r) /\ turns[r].stage = "writing"
  <2> DEFINE new == [turns[r] EXCEPT !.stage = "waiting"]
  <2>1. new \in Turn /\ Consistent(new)
    BY <1>1, <1>2 DEF Turn, Stages, Consistent, Due
  <2>2. turns' = [turns EXCEPT ![r] = new] /\ UNCHANGED <<documents, lease, references, histories>>
    BY <1>2 DEF Written
  <2> QED BY <1>1, <2>1, <2>2, MovesKeep DEF Turn
<1>3. CASE Written(r) /\ turns[r].stage = "ending"
  <2> DEFINE new == Done(turns[r], turns[r].terminal)
  <2>1. turns[r].terminal \in Ends
    BY <1>1 DEF Turn
  <2>2. new \in Turn /\ Consistent(new)
    BY <1>1, <1>3, <2>1, DoneTurn DEF Consistent
  <2>3. turns' = [turns EXCEPT ![r] = new] /\ lease' = Released(r)
        /\ UNCHANGED <<documents, references, histories>>
    BY <1>3 DEF Written
  <2> QED BY <1>1, <2>1, <2>2, <2>3, DoneTurn, MovesKeep
<1>4. CASE Fail(r)
  <2>1. PICK plain \in BOOLEAN :
          /\ turns[r].via = "json" => plain
          /\ turns[r].via = "ws" => ~plain
          /\ turns' = [turns EXCEPT ![r] = Failed(turns[r], plain)]
          /\ lease' = IF Failed(turns[r], plain).stage = "done" THEN Released(r) ELSE lease
    BY <1>4 DEF Fail, Catch
  <2> DEFINE new == Failed(turns[r], plain)
  <2>2. turns[r].kept = {} \/ (turns[r].gone /\ turns[r].kept = Due(turns[r]))
    BY <1>1, <1>4 DEF Fail, Consistent
  <2>3. /\ new \in Turn /\ Consistent(new)
        /\ new.kept = turns[r].kept /\ new.context = turns[r].context
        /\ new.conversation = turns[r].conversation
        /\ new.stage # "done" => new.input = turns[r].input
    BY <1>1, <2>1, <2>2, FailedConsistent DEF Consistent
  <2>4. UNCHANGED <<documents, references, histories>>
    BY <1>4 DEF Fail
  <2> HIDE DEF new
  <2> QED BY <2>1, <2>3, <2>4, MovesKeep DEF new
<1>5. CASE Report(r)
  <2>1. PICK told \in {"error", "none"} : turns' = [turns EXCEPT ![r] = Done(turns[r], told)]
    BY <1>5 DEF Report
  <2> DEFINE new == Done(turns[r], told)
  <2>2. new \in Turn /\ Consistent(new)
    BY <1>1, <1>5, DoneTurn DEF Consistent, Report, Ends
  <2>3. lease' = Released(r) /\ UNCHANGED <<documents, references, histories>>
    BY <1>5 DEF Report
  <2> QED BY <1>1, <2>1, <2>2, <2>3, DoneTurn, MovesKeep, ZenonT(60) DEF Ends
<1> QED BY <1>2, <1>3, <1>4, <1>5 DEF Written

-----------------------------------------------------------------------------
(* A turn begins.                                                           *)

(* One that has begun nothing yet is nowhere in the stores.                 *)
LEMMA RefuseKeeps ==
  ASSUME IInv, NEW r \in Requests, NEW via \in Transports,
         NEW c \in Conversations \cup {None}, Refuse(r, via, c)
  PROVE  IInv'
<1> DEFINE new == New(via, c, <<>>, <<>>, TRUE, "done", "error")
<1>1. new \in Turn /\ Consistent(new) /\ new.stage = "done"
  BY DEF New, Turn, Stages, Ends, Consistent
<1>2. /\ turns[r] = None /\ new # None
      /\ turns' = [turns EXCEPT ![r] = new]
      /\ UNCHANGED <<documents, lease, references, histories>>
  BY <1>1, NoneAssumption DEF Refuse
<1> HIDE DEF new
<1>3. /\ turns' \in [Requests -> Turn \cup {None}]
      /\ turns'[r] = new /\ \A s \in Requests \ {r} : turns'[s] = turns[s]
      /\ Begun' = Begun \cup {r} /\ r \notin Begun /\ Live' = Live
  BY <1>1, <1>2 DEF IInv, TypeOK, Begun, Live
<1>4. TypeOK'
  BY <1>2, <1>3 DEF IInv, TypeOK
<1>5. \A s \in Begun' : Consistent(turns'[s])
  BY <1>1, <1>3 DEF IInv, Begun
<1>6. Stored'
  BY <1>2, <1>3 DEF IInv, Stored, Begun
<1>7. HistoryWhole'
  BY <1>2, <1>3 DEF IInv, HistoryWhole, Stored, Begun
<1>8. LeaseFollowsTurn'
  BY <1>2, <1>3 DEF IInv, LeaseFollowsTurn, Live, Begun
<1> QED BY <1>4, <1>5, <1>6, <1>7, <1>8 DEF IInv

(* A history that is held is all that was said up to it, so that a turn     *)
(* that begins knows whether its input is.                                  *)
LEMMA BeginKeeps ==
  ASSUME IInv, NEW r \in Requests, NEW via \in Transports,
         NEW c \in Conversations \cup {None}, NEW p \in Answered \cup {None},
         Begin(r, via, c, p)
  PROVE  IInv'
<1> DEFINE held  == p # None /\ histories[p] # None
           input == IF c # None THEN documents[c] ELSE IF held THEN histories[p] ELSE <<>>
           context == IF p = None THEN input ELSE Append(turns[p].context, p)
           new == New(via, c, input, context, p = None \/ held, "waiting", "none")
<1>1. /\ turns[r] = None /\ turns' = [turns EXCEPT ![r] = new]
      /\ c # None => p = None /\ lease[c] = None /\ documents[c] # None
      /\ lease' = [d \in Conversations |-> IF d = c THEN r ELSE lease[d]]
      /\ UNCHANGED <<documents, references, histories>>
  BY DEF Begin
<1>2. p # None => p \in Requests /\ turns[p] \in Turn
  BY DEF Answered, Begun, IInv, TypeOK
<1>3. input \in Seq(Requests)
  BY <1>1, <1>2 DEF IInv, TypeOK
<1>4. context \in Seq(Requests)
  BY <1>2, <1>3 DEF Turn
<1>5. p = None \/ held => input = context
  BY <1>1, <1>2 DEF IInv, HistoryWhole
<1> HIDE DEF input, context
<1>6. new \in Turn /\ new # None
  <2>1. "waiting" \in Stages /\ "none" \in Ends /\ (p = None \/ held) \in BOOLEAN
    BY DEF Stages, Ends
  <2>2. new \in Turn
    BY <1>3, <1>4, <2>1 DEF New, Turn
  <2> QED BY <2>2, NoneAssumption
<1>7. /\ Consistent(new) /\ new.stage = "waiting" /\ new.kept = {}
      /\ new.conversation = c /\ new.input = input
  BY <1>5 DEF New, Consistent
<1> HIDE DEF new
<1>8. /\ turns' \in [Requests -> Turn \cup {None}]
      /\ turns'[r] = new /\ \A s \in Requests \ {r} : turns'[s] = turns[s]
      /\ Begun' = Begun \cup {r} /\ r \notin Begun
      /\ Live' = Live \cup {r}
  BY <1>1, <1>6, <1>7 DEF IInv, TypeOK, Begun, Live
<1>9. TypeOK'
  BY <1>1, <1>8 DEF IInv, TypeOK
<1>10. \A s \in Begun' : Consistent(turns'[s])
  BY <1>7, <1>8 DEF IInv, Begun
<1>11. Stored'
  BY <1>1, <1>8 DEF IInv, Stored, Begun
<1>12. HistoryWhole'
  BY <1>1, <1>8 DEF IInv, HistoryWhole, Stored, Begun
<1>13. LeaseFollowsTurn'
  <2> SUFFICES ASSUME NEW d \in Conversations
               PROVE  /\ \A s \in Requests : lease'[d] = s <=> s \in Live' /\ turns'[s].conversation = d
                      /\ \A s \in Live' : turns'[s].conversation = d =>
                           documents'[d] = IF "conversation" \in turns'[s].kept
                                             THEN Append(turns'[s].input, s) ELSE turns'[s].input
    BY DEF LeaseFollowsTurn
  <2>1. /\ \A s \in Requests : lease[d] = s <=> s \in Live /\ turns[s].conversation = d
        /\ \A s \in Live : turns[s].conversation = d =>
             documents[d] = IF "conversation" \in turns[s].kept
                              THEN Append(turns[s].input, s) ELSE turns[s].input
    BY DEF IInv, LeaseFollowsTurn
  <2>2. r \notin Live /\ Live \subseteq Requests /\ lease'[d] = IF d = c THEN r ELSE lease[d]
    BY <1>1, <1>8 DEF Live, Begun
  <2>3. CASE d = c
    <3>1. c # None /\ lease[d] = None /\ input = documents[d]
      BY <1>1, <2>3, TurnAssumption DEF input
    <3>2. \A s \in Live : turns[s].conversation # d
      BY <2>1, <2>2, <3>1, TurnAssumption
    <3> QED BY <1>1, <1>7, <1>8, <2>2, <2>3, <3>1, <3>2
  <2>4. CASE d # c
    BY <1>1, <1>7, <1>8, <2>1, <2>2, <2>4
  <2> QED BY <2>3, <2>4
<1> QED BY <1>9, <1>10, <1>11, <1>12, <1>13 DEF IInv

-----------------------------------------------------------------------------
(* The upstream's answer ends.                                              *)

LEMMA ConcludedConsistent ==
  ASSUME NEW turn \in Turn, Consistent(turn), turn.stage = "waiting",
         NEW kind \in {"completed", "incomplete"}, turn.via # "json" => turn.terminal = kind
  PROVE  LET new == Concluded(turn, kind)
         IN  /\ new \in Turn /\ Consistent(new)
             /\ new.kept = IF kind = "completed" THEN Due(turn) ELSE {}
             /\ new.context = turn.context /\ new.conversation = turn.conversation
             /\ IF turn.via = "json" THEN new.stage = "done"
                ELSE new.stage = "ending" /\ new.input = turn.input
<1> DEFINE kept == IF kind = "completed" THEN Due(turn) ELSE {}
           written == [turn EXCEPT !.kept = kept]
<1>1. kept \in SUBSET {"conversation", "references", "history"}
  BY DEF Due
<1>2. /\ written \in Turn /\ written.kept = kept /\ written.via = turn.via
      /\ written.context = turn.context /\ written.conversation = turn.conversation
      /\ Due(written) = Due(turn)
  BY <1>1 DEF Turn, Due
<1>3. CASE turn.via = "json"
  <2>1. Concluded(turn, kind) = Done(written, kind)
    BY <1>3 DEF Concluded
  <2> HIDE DEF written
  <2> QED BY <1>2, <1>3, <2>1, DoneTurn DEF Consistent, Ends
<1>4. CASE turn.via # "json"
  <2>1. Concluded(turn, kind) = [turn EXCEPT !.stage = "ending", !.kept = kept]
    BY <1>4 DEF Concluded
  <2>2. Concluded(turn, kind) \in Turn
    BY <1>1, <2>1 DEF Turn, Stages
  <2>3. Due(Concluded(turn, kind)) = Due(turn)
    BY <2>1 DEF Due, Turn
  <2> QED BY <1>1, <1>4, <2>1, <2>2, <2>3 DEF Consistent, Turn
<1> QED BY <1>3, <1>4

(* A completed turn is kept: what is written is its input and itself, and   *)
(* its input is all that was said before wherever a history is due.         *)
LEMMA KeptKeeps ==
  ASSUME IInv, NEW r \in Live, turns[r].stage = "waiting",
         turns[r].via # "json" => turns[r].terminal = "completed",
         turns' = [turns EXCEPT ![r] = Concluded(turns[r], "completed")],
         Keep(r, turns[r]),
         lease' = IF turns[r].via = "json" THEN Released(r) ELSE lease
  PROVE  IInv'
<1> DEFINE turn == turns[r]
           new == Concluded(turn, "completed")
<1>1. r \in Requests /\ turn \in Turn /\ Consistent(turn) /\ turn.kept = {}
  BY DEF IInv, TypeOK, Live, Begun, Consistent
<1>2. /\ new \in Turn /\ Consistent(new) /\ new.kept = Due(turn)
      /\ new.context = turn.context /\ new.conversation = turn.conversation
      /\ IF turn.via = "json" THEN new.stage = "done"
         ELSE new.stage = "ending" /\ new.input = turn.input
  BY <1>1, ConcludedConsistent
<1> HIDE DEF new
<1>3. /\ new # None /\ turns' \in [Requests -> Turn \cup {None}]
      /\ turns'[r] = new /\ \A s \in Requests \ {r} : turns'[s] = turns[s]
      /\ Begun' = Begun
      /\ Live' = IF turn.via = "json" THEN Live \ {r} ELSE Live
  BY <1>1, <1>2, NoneAssumption DEF IInv, TypeOK, Begun, Live, new
<1>4. /\ turn.input \in Seq(Requests) /\ Append(turn.input, r) \in Seq(Requests)
      /\ Append(turn.input, r) # None
  <2>1. turn.input \in Seq(Requests)
    BY <1>1 DEF Turn
  <2> HIDE DEF turn
  <2>2. Append(turn.input, r) \in Seq(Requests)
    BY <1>1, <2>1
  <2> QED BY <2>1, <2>2, TurnAssumption
<1>5. /\ documents' = IF turn.conversation = None THEN documents
                      ELSE [documents EXCEPT ![turn.conversation] = Append(turn.input, r)]
      /\ references' = references \cup {r}
      /\ histories' = IF "history" \in Due(turn)
                        THEN [histories EXCEPT ![r] = Append(turn.input, r)] ELSE histories
  BY DEF Keep
<1>6. turn.conversation \in Conversations \cup {None}
  BY <1>1 DEF Turn
<1>7. TypeOK'
  BY <1>1, <1>3, <1>4, <1>5, <1>6 DEF IInv, TypeOK, Released
<1>8. \A s \in Begun' : Consistent(turns'[s])
  BY <1>2, <1>3 DEF IInv, Begun
<1>9. turn.conversation # None => documents[turn.conversation] = turn.input
  BY <1>1, <1>6 DEF IInv, LeaseFollowsTurn
<1>10. Stored'
  <2>1. ASSUME NEW c \in Conversations, documents'[c] # None, NEW i \in DOMAIN documents'[c]
        PROVE  documents'[c][i] \in Begun' /\ "conversation" \in turns'[documents'[c][i]].kept
    <3>1. CASE c = turn.conversation
      <4>1. c # None /\ documents'[c] = Append(turn.input, r) /\ documents[c] = turn.input /\ documents[c] # None
        BY <1>4, <1>5, <1>9, <2>1, <3>1, TurnAssumption DEF IInv, TypeOK
      <4>2. "conversation" \in new.kept
        BY <1>2, <3>1, <4>1 DEF Due
      <4>3. \A j \in DOMAIN turn.input :
              turn.input[j] \in Begun /\ "conversation" \in turns[turn.input[j]].kept
        BY <4>1 DEF IInv, Stored
      <4>4. documents'[c][i] = r \/ (i \in DOMAIN turn.input /\ documents'[c][i] = turn.input[i])
        BY <1>4, <2>1, <4>1
      <4> QED BY <1>3, <4>2, <4>3, <4>4 DEF Live, Begun
    <3>2. CASE c # turn.conversation
      <4>1. documents'[c] = documents[c]
        BY <1>5, <1>6, <3>2 DEF IInv, TypeOK
      <4>2. documents[c][i] \in Begun /\ "conversation" \in turns[documents[c][i]].kept
        BY <2>1, <4>1 DEF IInv, Stored
      <4>3. documents[c][i] # r
        BY <1>1, <4>2
      <4> QED BY <1>3, <4>1, <4>2, <4>3 DEF Begun
    <3> QED BY <3>1, <3>2
  <2>2. \A s \in Requests : histories'[s] # None => s \in Begun' /\ "history" \in turns'[s].kept
    BY <1>1, <1>2, <1>3, <1>5 DEF IInv, Stored, TypeOK, Live
  <2>3. \A s \in references' : s \in Begun' /\ "references" \in turns'[s].kept
    BY <1>1, <1>2, <1>3, <1>5 DEF IInv, Stored, Due, Live, Begun
  <2> QED BY <2>1, <2>2, <2>3 DEF Stored
<1>11. HistoryWhole'
  <2>1. "history" \in Due(turn) => turn.input = turn.context
    BY <1>1 DEF Due, Consistent
  <2> QED BY <1>1, <1>2, <1>3, <1>5, <2>1 DEF IInv, HistoryWhole, Stored, TypeOK
<1>12. LeaseFollowsTurn'
  <2> SUFFICES ASSUME NEW d \in Conversations
               PROVE  /\ \A s \in Requests : lease'[d] = s <=> s \in Live' /\ turns'[s].conversation = d
                      /\ \A s \in Live' : turns'[s].conversation = d =>
                           documents'[d] = IF "conversation" \in turns'[s].kept
                                             THEN Append(turns'[s].input, s) ELSE turns'[s].input
    BY DEF LeaseFollowsTurn
  <2>1. /\ \A s \in Requests : lease[d] = s <=> s \in Live /\ turns[s].conversation = d
        /\ \A s \in Live : turns[s].conversation = d =>
             documents[d] = IF "conversation" \in turns[s].kept
                              THEN Append(turns[s].input, s) ELSE turns[s].input
    BY DEF IInv, LeaseFollowsTurn
  <2>2. Live \subseteq Requests /\ d # None /\ None \notin Requests
    BY TurnAssumption DEF Live, Begun
  <2>3. \A s \in Requests : lease'[d] = s <=> s \in Live' /\ turns'[s].conversation = d
    BY <1>1, <1>2, <1>3, <2>1, <2>2 DEF Released
  <2>4. ASSUME NEW s \in Live', turns'[s].conversation = d
        PROVE  documents'[d] = IF "conversation" \in turns'[s].kept
                                 THEN Append(turns'[s].input, s) ELSE turns'[s].input
    <3>1. CASE s = r
      <4>1. turns'[s] = new /\ new.input = turn.input /\ turn.conversation = d
        BY <1>1, <1>2, <1>3, <2>4, <3>1
      <4>2. "conversation" \in new.kept
        BY <1>2, <2>2, <4>1 DEF Due
      <4>3. documents'[d] = Append(turn.input, r)
        BY <1>5, <2>2, <4>1 DEF IInv, TypeOK
      <4> QED BY <3>1, <4>1, <4>2, <4>3
    <3>2. CASE s # r
      <4>1. s \in Live /\ turns'[s] = turns[s]
        BY <1>3, <2>2, <2>4, <3>2
      <4>2. turn.conversation # d
        BY <1>1, <2>1, <2>2, <2>4, <3>2, <4>1
      <4>3. documents'[d] = documents[d]
        BY <1>5, <1>6, <4>2 DEF IInv, TypeOK
      <4> QED BY <2>1, <2>4, <4>1, <4>3
    <3> QED BY <3>1, <3>2
  <2> QED BY <2>3, <2>4
<1> QED BY <1>7, <1>8, <1>10, <1>11, <1>12 DEF IInv

(* A completed turn whose commit is refused has failed; over a WebSocket    *)
(* its items were remembered before the commit was tried.                   *)
LEMMA OverflowKeeps ==
  ASSUME IInv, NEW r \in Live, turns[r].stage = "waiting", Overflow(r)
  PROVE  IInv'
<1> DEFINE turn == turns[r]
           kept == IF turn.via = "ws" THEN {"references"} ELSE {}
           written == [turn EXCEPT !.kept = kept]
<1>1. r \in Requests /\ turn \in Turn /\ Consistent(turn) /\ turn.kept = {}
  BY DEF IInv, TypeOK, Live, Begun, Consistent
<1>2. /\ written \in Turn /\ written.kept = kept /\ written.via = turn.via
      /\ written.context = turn.context /\ written.conversation = turn.conversation
      /\ written.input = turn.input /\ written.historyComplete = turn.historyComplete
      /\ written.stage = "waiting" /\ written.told = turn.told
  BY <1>1 DEF Turn
<1>3. /\ references' = IF turn.via = "ws" THEN references \cup {r} ELSE references
      /\ UNCHANGED <<documents, histories>>
      /\ Catch(r, written)
  BY DEF Overflow
<1> HIDE DEF written
<1>4. PICK plain \in BOOLEAN :
        /\ written.via = "json" => plain
        /\ written.via = "ws" => ~plain
        /\ turns' = [turns EXCEPT ![r] = Failed(written, plain)]
        /\ lease' = IF Failed(written, plain).stage = "done" THEN Released(r) ELSE lease
  BY <1>3 DEF Catch
<1> DEFINE new == Failed(written, plain)
<1>5. /\ new \in Turn /\ Consistent(new)
      /\ new.kept = kept /\ new.context = turn.context
      /\ new.conversation = turn.conversation
      /\ new.stage # "done" => new.input = turn.input
  BY <1>1, <1>2, <1>4, FailedConsistent DEF Consistent
<1> HIDE DEF new
<1>6. /\ new # None /\ turns' \in [Requests -> Turn \cup {None}]
      /\ turns'[r] = new /\ \A s \in Requests \ {r} : turns'[s] = turns[s]
      /\ Begun' = Begun
      /\ Live' = IF new.stage = "done" THEN Live \ {r} ELSE Live
  <2>1. new # None /\ turns' = [turns EXCEPT ![r] = new]
    BY <1>4, <1>5, NoneAssumption DEF new
  <2>2. /\ turns' \in [Requests -> Turn \cup {None}]
        /\ turns'[r] = new /\ \A s \in Requests \ {r} : turns'[s] = turns[s]
    BY <1>1, <1>5, <2>1 DEF IInv, TypeOK
  <2>3. Begun' = Begun
    BY <2>1, <2>2 DEF Live, Begun
  <2> QED BY <2>1, <2>2, <2>3 DEF Live
<1>7. /\ lease' = IF new.stage = "done" THEN Released(r) ELSE lease
      /\ lease' \in [Conversations -> Requests \cup {None}]
  BY <1>4 DEF new, IInv, TypeOK, Released
<1>8. TypeOK'
  BY <1>1, <1>3, <1>6, <1>7 DEF IInv, TypeOK
<1>9. \A s \in Begun' : Consistent(turns'[s])
  BY <1>5, <1>6 DEF IInv, Begun
<1>10. Stored'
  <2>1. "conversation" \notin turns[r].kept /\ "history" \notin turns[r].kept
        /\ r \notin references
    BY <1>1 DEF IInv, Stored
  <2>2. \A s \in Begun' : s # r => turns'[s] = turns[s]
    BY <1>6 DEF Begun
  <2>3. \A c \in Conversations : documents'[c] # None =>
          \A i \in DOMAIN documents'[c] :
            documents'[c][i] \in Begun' /\ "conversation" \in turns'[documents'[c][i]].kept
    BY <1>3, <1>6, <2>1, <2>2 DEF IInv, Stored
  <2>4. \A s \in Requests : histories'[s] # None => s \in Begun' /\ "history" \in turns'[s].kept
    BY <1>3, <1>6, <2>1, <2>2 DEF IInv, Stored
  <2>5. \A s \in references' : s \in Begun' /\ "references" \in turns'[s].kept
    BY <1>1, <1>3, <1>5, <1>6, <2>2 DEF IInv, Stored, Live
  <2> QED BY <2>3, <2>4, <2>5 DEF Stored
<1>11. HistoryWhole'
  BY <1>1, <1>3, <1>5, <1>6 DEF IInv, HistoryWhole
<1>12. LeaseFollowsTurn'
  <2> SUFFICES ASSUME NEW d \in Conversations
               PROVE  /\ \A s \in Requests : lease'[d] = s <=> s \in Live' /\ turns'[s].conversation = d
                      /\ \A s \in Live' : turns'[s].conversation = d =>
                           documents'[d] = IF "conversation" \in turns'[s].kept
                                             THEN Append(turns'[s].input, s) ELSE turns'[s].input
    BY DEF LeaseFollowsTurn
  <2>1. /\ \A s \in Requests : lease[d] = s <=> s \in Live /\ turns[s].conversation = d
        /\ \A s \in Live : turns[s].conversation = d =>
             documents[d] = IF "conversation" \in turns[s].kept
                              THEN Append(turns[s].input, s) ELSE turns[s].input
    BY DEF IInv, LeaseFollowsTurn
  <2>2. Live \subseteq Requests /\ None \notin Requests
    BY TurnAssumption DEF Live, Begun
  <2>3. \A s \in Requests : lease'[d] = s <=> s \in Live' /\ turns'[s].conversation = d
    BY <1>1, <1>5, <1>6, <1>7, <2>1, <2>2 DEF Released
  <2>4. ASSUME NEW s \in Live', turns'[s].conversation = d
        PROVE  documents'[d] = IF "conversation" \in turns'[s].kept
                                 THEN Append(turns'[s].input, s) ELSE turns'[s].input
    <3>1. s \in Live /\ turns[s].conversation = d
      BY <1>5, <1>6, <2>2, <2>4
    <3>2. CASE s = r
      <4>1. "conversation" \notin turn.kept /\ "conversation" \notin new.kept
        BY <1>1, <1>5
      <4>2. turns'[s] = new /\ new.stage # "done"
        BY <1>6, <2>4, <3>2
      <4> QED BY <1>3, <1>5, <2>1, <3>1, <3>2, <4>1, <4>2
    <3>3. CASE s # r
      BY <1>3, <1>6, <2>1, <2>2, <3>1, <3>3
    <3> QED BY <3>2, <3>3
  <2> QED BY <2>3, <2>4
<1> QED BY <1>8, <1>9, <1>10, <1>11, <1>12 DEF IInv

(* The end of the upstream's answer, whatever comes of it.                  *)
LEMMA FinishKeeps ==
  ASSUME IInv, NEW r \in Live, NEW kind \in {"completed", "incomplete"}, Finish(r, kind)
  PROVE  IInv'
<1>1. turns[r] \in Turn /\ Consistent(turns[r])
  BY DEF IInv, TypeOK, Live, Begun
<1>2. /\ turns[r].stage = "waiting"
      /\ turns[r].via # "json" => turns[r].terminal = kind
      /\ turns[r].kept = {}
  BY <1>1 DEF Finish, Consistent
<1>3. CASE kind = "completed" /\ Overflow(r)
  BY <1>2, <1>3, OverflowKeeps
<1>4. CASE /\ turns' = [turns EXCEPT ![r] = Concluded(turns[r], kind)]
           /\ IF kind = "completed" THEN Keep(r, turns[r])
              ELSE UNCHANGED <<documents, references, histories>>
           /\ lease' = IF turns[r].via = "json" THEN Released(r) ELSE lease
  <2>1. CASE kind = "completed"
    BY <1>2, <1>4, <2>1, KeptKeeps
  <2>2. CASE kind = "incomplete"
    <3> DEFINE new == Concluded(turns[r], kind)
    <3>1. /\ new \in Turn /\ Consistent(new) /\ new.kept = {}
          /\ new.context = turns[r].context /\ new.conversation = turns[r].conversation
          /\ IF turns[r].via = "json" THEN new.stage = "done"
             ELSE new.stage = "ending" /\ new.input = turns[r].input
      BY <1>1, <1>2, <2>2, ConcludedConsistent
    <3>2. turns' = [turns EXCEPT ![r] = new] /\ UNCHANGED <<documents, references, histories>>
      BY <1>4, <2>2
    <3>3. \/ new.stage # "done" /\ new.input = turns[r].input /\ lease' = lease
          \/ new.stage = "done" /\ lease' = Released(r)
      BY <1>4, <3>1
    <3> HIDE DEF new
    <3> QED BY <1>2, <3>1, <3>2, <3>3, MovesKeep
  <2> QED BY <2>1, <2>2
<1> QED BY <1>3, <1>4 DEF Finish

-----------------------------------------------------------------------------
(* The invariant.                                                           *)

(* What is forgotten is no longer there, and a conversation that is taken   *)
(* is not forgotten.                                                        *)
LEMMA ForgetKeeps ==
  ASSUME IInv, Forget
  PROVE  IInv'
<1>1. turns' = turns /\ lease' = lease /\ Begun' = Begun /\ Live' = Live
  BY DEF Forget, Begun, Live
<1>2. /\ references' \subseteq references
      /\ \A r \in Requests : histories'[r] \in {histories[r], None}
      /\ \A c \in Conversations :
           documents'[c] = documents[c] \/ (documents'[c] = None /\ lease[c] = None)
      /\ histories' \in [Requests -> Seq(Requests) \cup {None}]
      /\ documents' \in [Conversations -> Seq(Requests) \cup {None}]
  BY DEF IInv, TypeOK, Forget
<1>3. TypeOK'
  BY <1>1, <1>2 DEF IInv, TypeOK
<1>4. \A r \in Begun' : Consistent(turns'[r])
  BY <1>1 DEF IInv
<1>5. Stored'
  BY <1>1, <1>2 DEF IInv, Stored
<1>6. HistoryWhole'
  BY <1>1, <1>2 DEF IInv, HistoryWhole
<1>7. LeaseFollowsTurn'
  <2> SUFFICES ASSUME NEW d \in Conversations
               PROVE  /\ \A s \in Requests : lease'[d] = s <=> s \in Live' /\ turns'[s].conversation = d
                      /\ \A s \in Live' : turns'[s].conversation = d =>
                           documents'[d] = IF "conversation" \in turns'[s].kept
                                             THEN Append(turns'[s].input, s) ELSE turns'[s].input
    BY DEF LeaseFollowsTurn
  <2>1. /\ \A s \in Requests : lease[d] = s <=> s \in Live /\ turns[s].conversation = d
        /\ \A s \in Live : turns[s].conversation = d =>
             documents[d] = IF "conversation" \in turns[s].kept
                              THEN Append(turns[s].input, s) ELSE turns[s].input
    BY DEF IInv, LeaseFollowsTurn
  <2>2. Live \subseteq Requests /\ None \notin Requests
    BY TurnAssumption DEF Live, Begun
  <2>3. \A s \in Live : turns[s].conversation = d => documents'[d] = documents[d]
    BY <1>2, <2>1, <2>2
  <2> QED BY <1>1, <2>1, <2>3
<1> QED BY <1>3, <1>4, <1>5, <1>6, <1>7 DEF IInv

LEMMA InvInit == Init => IInv
<1> SUFFICES ASSUME Init PROVE IInv
  OBVIOUS
<1>1. TypeOK /\ Begun = {}
  BY DEF Init, TypeOK, Begun
<1>2. Stored
  BY <1>1 DEF Init, Stored
<1>3. HistoryWhole
  BY DEF Init, HistoryWhole
<1>4. LeaseFollowsTurn
  BY <1>1, TurnAssumption DEF Init, LeaseFollowsTurn, Live
<1> QED BY <1>1, <1>2, <1>3, <1>4 DEF IInv

LEMMA InvNext == IInv /\ [Next]_vars => IInv'
<1> SUFFICES ASSUME IInv, [Next]_vars PROVE IInv'
  OBVIOUS
<1>1. ASSUME NEW r \in Requests, Open(r) PROVE IInv'
  BY <1>1, RefuseKeeps, BeginKeeps DEF Open
<1>2. ASSUME NEW r \in Live, Run(r) PROVE IInv'
  BY <1>2, StreamKeeps, EndsKeep, FinishKeeps DEF Run
<1>3. CASE Forget
  BY <1>3, ForgetKeeps
<1>4. CASE UNCHANGED vars
  BY <1>4 DEF vars, IInv, TypeOK, Stored, HistoryWhole, LeaseFollowsTurn, Begun, Live,
              Consistent, Due
<1> QED BY <1>1, <1>2, <1>3, <1>4 DEF Next

-----------------------------------------------------------------------------
(* What holds of every state of every instance.                             *)

(* The inductive invariant.                                                 *)
THEOREM TurnInvariance == Spec => []IInv
BY InvInit, InvNext, PTL DEF Spec

(* Every variable has its type.                                             *)
THEOREM TurnTypeCorrect == Spec => []TypeOK
<1>1. IInv => TypeOK
  BY DEF IInv
<1> QED BY <1>1, TurnInvariance, PTL

(* What is kept under a response is the whole of what was said up to it,    *)
(* however its turns were continued, refused or forgotten.                  *)
THEOREM HistoriesAlwaysWhole == Spec => []HistoryWhole
<1>1. IInv => HistoryWhole
  BY DEF IInv
<1> QED BY <1>1, TurnInvariance, PTL

(* A conversation is taken exactly while a turn of it is under way, and     *)
(* changes under no turn but its own.                                       *)
THEOREM LeasesAlwaysFollow == Spec => []LeaseFollowsTurn
<1>1. IInv => LeaseFollowsTurn
  BY DEF IInv
<1> QED BY <1>1, TurnInvariance, PTL

(* A turn the client saw completed is written everywhere it belongs, one it *)
(* saw incomplete or failed nowhere: what the stores hold of a turn it was  *)
(* written to, and an error leaves at most references over a WebSocket.     *)
THEOREM AlwaysWholeOrNothing == Spec => []WholeOrNothing
<1>1. IInv => WholeOrNothing
  <2> SUFFICES ASSUME IInv PROVE WholeOrNothing
    OBVIOUS
  <2>1. FailureLeavesNoTrace
    <3> SUFFICES ASSUME NEW r \in Begun, turns[r].told = "error"
                 PROVE  /\ \A c \in Conversations : documents[c] # None => r \notin Range(documents[c])
                        /\ histories[r] = None
                        /\ turns[r].via # "ws" => r \notin references
      BY DEF FailureLeavesNoTrace
    <3>1. /\ "conversation" \notin turns[r].kept /\ "history" \notin turns[r].kept
          /\ turns[r].via # "ws" => "references" \notin turns[r].kept
      BY DEF IInv, Consistent
    <3> QED BY <3>1 DEF IInv, Stored, Range, Begun
  <2> QED BY <2>1 DEF IInv, Consistent, WholeOrNothing
<1> QED BY <1>1, TurnInvariance, PTL
=============================================================================
