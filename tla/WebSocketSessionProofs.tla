------------------------ MODULE WebSocketSessionProofs ------------------------
(***************************************************************************)
(* Proofs that a WebSocket connection works each of its lanes off in order, *)
(* leases a conversation exactly while a request generates in it, and holds *)
(* a drain slot for exactly the requests that are not over, for any number  *)
(* of lanes, conversations and requests, however they end.                  *)
(***************************************************************************)
EXTENDS WebSocketSession, LedgersProofs

Open == In(Stages \ {"settled"})

Types ==
  /\ tasks \in Seq(Task)
  /\ tail \in [Lanes -> Nat \cup {None}]
  /\ lease \in [Conversations -> Nat \cup {None}]
  /\ pendingRequests \in Nat /\ active \in Nat

(* A request was chained to the one before it in its lane, or to none if    *)
(* all before it were over; the map has the last request of a lane, or      *)
(* nothing if all are over.                                                 *)
Chained ==
  /\ \A t \in Ids :
       /\ tasks[t].prior # None =>
            tasks[t].prior \in 1 .. t - 1 /\ tasks[tasks[t].prior].lane = tasks[t].lane
       /\ \A u \in 1 .. t - 1 : tasks[u].lane = tasks[t].lane =>
            IF tasks[t].prior = None THEN tasks[u].stage = "settled" ELSE u <= tasks[t].prior
  /\ \A l \in Lanes :
       /\ tail[l] # None => tail[l] \in Ids /\ tasks[tail[l]].lane = l
       /\ \A u \in Ids : tasks[u].lane = l =>
            IF tail[l] = None THEN tasks[u].stage = "settled" ELSE u <= tail[l]

(* Slots and places in the queue are those of the requests not over.        *)
Counted ==
  /\ active = pendingRequests
  /\ pendingRequests = Cardinality(Open) /\ pendingRequests <= MaxPendingRequests

IInv == Types /\ Chained /\ LanesInOrder /\ LeasesFollowRequests /\ Counted

-----------------------------------------------------------------------------
(* What a step of one request leaves of the others.                         *)

LEMMA OpenFinite ==
  ASSUME Types
  PROVE  Ids = 1 .. Len(tasks) /\ Len(tasks) \in Nat /\ IsFiniteSet(Ids) /\ IsFiniteSet(Open)
<1>1. Ids = 1 .. Len(tasks) /\ Len(tasks) \in Nat
  BY DEF Types, Ids
<1>2. IsFiniteSet(1 .. Len(tasks))
  BY <1>1, FS_Interval
<1>3. Open \subseteq Ids
  BY DEF Open, In
<1> QED BY <1>1, <1>2, <1>3, FS_Subset

(* A request that is not over and whose turn it is goes on: its lane stays  *)
(* in order, and the promises stay chained.                                 *)
LEMMA Advances ==
  ASSUME IInv, NEW t \in Ids, NEW new \in Task,
         tasks[t].stage # "settled", tasks[t].stage = "queued" => Ready(t),
         tasks' = [tasks EXCEPT ![t] = new],
         new.lane = tasks[t].lane, new.prior = tasks[t].prior, new.stage # "queued"
  PROVE  /\ tasks' \in Seq(Task) /\ Ids' = Ids /\ tasks'[t] = new
         /\ \A u \in Ids : u # t => tasks'[u] = tasks[u]
         /\ LanesInOrder'
         /\ \A s \in Ids' :
              /\ tasks'[s].prior # None =>
                   tasks'[s].prior \in 1 .. s - 1 /\ tasks'[tasks'[s].prior].lane = tasks'[s].lane
              /\ \A u \in 1 .. s - 1 : tasks'[u].lane = tasks'[s].lane =>
                   IF tasks'[s].prior = None THEN tasks'[u].stage = "settled"
                   ELSE u <= tasks'[s].prior
<1>1. Ids = 1 .. Len(tasks) /\ Len(tasks) \in Nat
  BY OpenFinite DEF IInv
<1>2. /\ tasks' \in Seq(Task) /\ Ids' = Ids /\ tasks'[t] = new
      /\ \A u \in Ids : u # t => tasks'[u] = tasks[u]
  BY DEF IInv, Types, Ids
<1>3. \A s \in Ids : tasks'[s].lane = tasks[s].lane /\ tasks'[s].prior = tasks[s].prior
  BY <1>2
<1>4. \A u \in 1 .. t - 1 : tasks[u].lane = tasks[t].lane => tasks[u].stage = "settled"
  <2> SUFFICES ASSUME NEW u \in 1 .. t - 1, tasks[u].lane = tasks[t].lane
               PROVE  tasks[u].stage = "settled"
    OBVIOUS
  <2>1. CASE tasks[t].stage # "queued"
    BY <2>1 DEF IInv, LanesInOrder
  <2>2. CASE tasks[t].stage = "queued" /\ tasks[t].prior = None
    BY <2>2 DEF IInv, Chained
  <2>3. CASE tasks[t].stage = "queued" /\ tasks[t].prior # None
    <3> DEFINE p == tasks[t].prior
    <3>1. /\ p \in 1 .. t - 1 /\ tasks[p].lane = tasks[t].lane /\ u <= p
          /\ tasks[p].stage = "settled"
      BY <2>3 DEF IInv, Chained, Ready
    <3>2. p \in Ids
      BY <1>1, <3>1
    <3>3. u = p \/ u \in 1 .. p - 1
      BY <1>1, <3>1
    <3> HIDE DEF p
    <3> QED BY <3>1, <3>2, <3>3 DEF IInv, LanesInOrder
  <2> QED BY <2>1, <2>2, <2>3
<1>5. LanesInOrder'
  <2> SUFFICES ASSUME NEW s \in Ids, tasks'[s].stage # "queued",
                      NEW u \in 1 .. s - 1, tasks'[u].lane = tasks'[s].lane
               PROVE  tasks'[u].stage = "settled"
    BY <1>2 DEF LanesInOrder
  <2>1. u \in Ids /\ tasks[u].lane = tasks[s].lane /\ u # s
    BY <1>1, <1>3
  <2>2. CASE s = t
    BY <1>2, <1>4, <2>1, <2>2
  <2>3. CASE s # t
    BY <1>2, <2>1, <2>3 DEF IInv, LanesInOrder
  <2> QED BY <2>2, <2>3
<1>6. ASSUME NEW s \in Ids
      PROVE  /\ tasks'[s].prior # None =>
                  tasks'[s].prior \in 1 .. s - 1 /\ tasks'[tasks'[s].prior].lane = tasks'[s].lane
             /\ \A u \in 1 .. s - 1 : tasks'[u].lane = tasks'[s].lane =>
                  IF tasks'[s].prior = None THEN tasks'[u].stage = "settled"
                  ELSE u <= tasks'[s].prior
  <2>1. 1 .. s - 1 \subseteq Ids
    BY <1>1
  <2>2. \A u \in 1 .. s - 1 : tasks[u].stage = "settled" => tasks'[u].stage = "settled"
    BY <1>2, <2>1
  <2> QED BY <1>3, <2>1, <2>2 DEF IInv, Chained
<1> QED BY <1>2, <1>5, <1>6

(* A request goes on and is not over.                                       *)
LEMMA GoesOnKeeps ==
  ASSUME IInv, NEW t \in Ids, NEW new \in Task,
         tasks[t].stage # "settled", tasks[t].stage = "queued" => Ready(t),
         tasks' = [tasks EXCEPT ![t] = new],
         new.lane = tasks[t].lane, new.prior = tasks[t].prior,
         new.conversation = tasks[t].conversation,
         \/ new.stage = "reporting"
         \/ /\ new.stage \in {"streaming", "writing", "ending"}
            /\ tasks[t].stage \in {"streaming", "writing", "ending"},
         UNCHANGED <<tail, lease, pendingRequests, active>>
  PROVE  IInv'
<1>1. /\ tasks' \in Seq(Task) /\ Ids' = Ids /\ tasks'[t] = new
      /\ \A u \in Ids : u # t => tasks'[u] = tasks[u]
      /\ LanesInOrder'
      /\ \A s \in Ids' :
           /\ tasks'[s].prior # None =>
                tasks'[s].prior \in 1 .. s - 1 /\ tasks'[tasks'[s].prior].lane = tasks'[s].lane
           /\ \A u \in 1 .. s - 1 : tasks'[u].lane = tasks'[s].lane =>
                IF tasks'[s].prior = None THEN tasks'[u].stage = "settled"
                ELSE u <= tasks'[s].prior
  BY Advances
<1>2. tasks[t] \in Task /\ new.stage # "settled"
  BY DEF IInv, Types, Ids
<1>3. Types'
  BY <1>1 DEF IInv, Types
<1>4. Chained'
  BY <1>1, <1>2 DEF IInv, Chained
<1>5. LeasesFollowRequests'
  BY <1>1, <1>2 DEF IInv, LeasesFollowRequests, Running, In
<1>6. Open' = Open
  BY <1>1, <1>2 DEF Open, In, Task
<1>7. Counted'
  BY <1>6 DEF IInv, Counted
<1> QED BY <1>1, <1>3, <1>4, <1>5, <1>7 DEF IInv

(* A request is over and leaves everything it held.                         *)
LEMMA LeavesKeeps ==
  ASSUME IInv, NEW t \in Ids, NEW new \in Task,
         tasks[t].stage # "settled", tasks[t].stage = "queued" => Ready(t),
         tasks' = [tasks EXCEPT ![t] = new],
         new.lane = tasks[t].lane, new.prior = tasks[t].prior, new.stage = "settled",
         Leave(t)
  PROVE  IInv'
<1>1. /\ tasks' \in Seq(Task) /\ Ids' = Ids /\ tasks'[t] = new
      /\ \A u \in Ids : u # t => tasks'[u] = tasks[u]
      /\ LanesInOrder'
      /\ \A s \in Ids' :
           /\ tasks'[s].prior # None =>
                tasks'[s].prior \in 1 .. s - 1 /\ tasks'[tasks'[s].prior].lane = tasks'[s].lane
           /\ \A u \in 1 .. s - 1 : tasks'[u].lane = tasks'[s].lane =>
                IF tasks'[s].prior = None THEN tasks'[u].stage = "settled"
                ELSE u <= tasks'[s].prior
  BY Advances
<1>2. /\ Ids = 1 .. Len(tasks) /\ Len(tasks) \in Nat /\ IsFiniteSet(Open)
      /\ tasks[t] \in Task /\ t \in Open
  <2>1. tasks[t] \in Task
    BY DEF IInv, Types, Ids
  <2>2. tasks[t].stage \in Stages
    BY <2>1 DEF Task
  <2> QED BY <2>1, <2>2, OpenFinite DEF IInv, Open, In
<1>3. /\ active' = active - 1 /\ pendingRequests' = pendingRequests - 1
      /\ tail' = [tail EXCEPT ![tasks[t].lane] = IF @ = t THEN None ELSE @]
      /\ lease' = [c \in Conversations |-> IF lease[c] = t THEN None ELSE lease[c]]
  BY DEF Leave
<1>4. Counted' /\ pendingRequests' \in Nat
  <2>1. Open' = Open \ {t}
    BY <1>1, <1>2 DEF Open, In
  <2>2. Cardinality(Open \ {t}) = Cardinality(Open) - 1 /\ Cardinality(Open \ {t}) \in Nat
    BY <1>2, FS_RemoveElement, FS_CardinalityType, FS_Subset
  <2>3. pendingRequests' = Cardinality(Open')
    BY <1>3, <2>1, <2>2 DEF IInv, Counted
  <2> QED BY <1>3, <2>1, <2>2, <2>3, SessionAssumption DEF IInv, Counted, Types
<1>5. Types'
  BY <1>1, <1>3, <1>4 DEF IInv, Types, Counted
<1>6. Chained'
  <2>1. ASSUME NEW l \in Lanes
        PROVE  /\ tail'[l] # None => tail'[l] \in Ids /\ tasks'[tail'[l]].lane = l
               /\ \A u \in Ids : tasks'[u].lane = l =>
                    IF tail'[l] = None THEN tasks'[u].stage = "settled" ELSE u <= tail'[l]
    <3>1. tail'[l] = IF l = tasks[t].lane /\ tail[l] = t THEN None ELSE tail[l]
      BY <1>3 DEF IInv, Types
    <3>2. \A u \in Ids : tasks'[u].lane = tasks[u].lane
      BY <1>1
    <3>3. CASE l = tasks[t].lane /\ tail[l] = t
      <4>1. \A u \in Ids : tasks[u].lane = l => u = t \/ u \in 1 .. t - 1
        BY <1>2, <3>3, SessionAssumption DEF IInv, Chained
      <4>2. \A u \in 1 .. t - 1 : tasks'[u].lane = tasks'[t].lane => tasks'[u].stage = "settled"
        BY <1>1 DEF LanesInOrder
      <4> QED BY <1>1, <3>1, <3>2, <3>3, <4>1, <4>2
    <3>4. CASE ~(l = tasks[t].lane /\ tail[l] = t)
      BY <1>1, <3>1, <3>2, <3>4 DEF IInv, Chained
    <3> QED BY <3>3, <3>4
  <2> QED BY <1>1, <2>1 DEF Chained
<1>7. LeasesFollowRequests'
  <2>1. ASSUME NEW c \in Conversations, lease'[c] # None
        PROVE  Running(lease[c])' /\ tasks'[lease'[c]].conversation = c
    <3>1. lease'[c] = lease[c] /\ lease[c] # t /\ lease[c] # None
      BY <1>3, <2>1
    <3>2. Running(lease[c]) /\ tasks[lease[c]].conversation = c
      BY <3>1 DEF IInv, LeasesFollowRequests
    <3> QED BY <1>1, <3>1, <3>2 DEF Running, In
  <2>2. ASSUME NEW s \in Ids, tasks'[s].stage \in {"streaming", "writing", "ending"},
               tasks'[s].conversation # None
        PROVE  lease'[tasks'[s].conversation] = s
    <3>1. s # t /\ tasks'[s] = tasks[s] /\ tasks[s] \in Task
      BY <1>1, <2>2 DEF IInv, Types, Ids
    <3>2. tasks[s].conversation \in Conversations
      BY <2>2, <3>1 DEF Task
    <3>3. lease[tasks[s].conversation] = s
      BY <2>2, <3>1 DEF IInv, LeasesFollowRequests, In
    <3> QED BY <1>3, <3>1, <3>2, <3>3
  <2> QED BY <1>1, <2>1, <2>2 DEF LeasesFollowRequests, In
<1> QED BY <1>1, <1>4, <1>5, <1>6, <1>7 DEF IInv

-----------------------------------------------------------------------------
(* A request arrives, and its turn comes.                                   *)

LEMMA AcceptKeeps ==
  ASSUME IInv, NEW lane \in Lanes, NEW bytes \in MessageBytes,
         NEW previous \in Ids \cup {None}, NEW conversation \in Conversations \cup {None},
         Accept(lane, bytes, previous, conversation)
  PROVE  IInv'
<1> DEFINE n == Len(tasks) + 1
           new == [lane |-> lane, bytes |-> bytes, previous |-> previous,
                   conversation |-> conversation, prior |-> tail[lane],
                   stage |-> "queued", cut |-> FALSE, completed |-> FALSE, failed |-> FALSE]
<1>1. /\ Ids = 1 .. Len(tasks) /\ Len(tasks) \in Nat /\ IsFiniteSet(Open) /\ Open \subseteq Ids
  BY OpenFinite DEF IInv, Open, In
<1>2. new \in Task
  BY <1>1 DEF IInv, Types, Task, Stages
<1>3. /\ tasks' = Append(tasks, new) /\ tail' = [tail EXCEPT ![lane] = n]
      /\ active' = active + 1 /\ pendingRequests' = pendingRequests + 1
      /\ pendingRequests < MaxPendingRequests /\ lease' = lease
  BY SessionAssumption DEF Accept, Full, IInv, Types
<1>4. /\ new.lane = lane /\ new.prior = tail[lane] /\ new.stage = "queued"
  OBVIOUS
<1> HIDE DEF new
<1>5. /\ tasks' \in Seq(Task) /\ Len(tasks') = n /\ Ids' = Ids \cup {n} /\ n \notin Ids
      /\ tasks'[n] = new /\ \A u \in Ids : tasks'[u] = tasks[u]
  BY <1>1, <1>2, <1>3 DEF IInv, Types, Ids
<1>6. Types'
  BY <1>1, <1>3, <1>5 DEF IInv, Types
<1>7. LanesInOrder'
  <2> SUFFICES ASSUME NEW s \in Ids', tasks'[s].stage # "queued",
                      NEW u \in 1 .. s - 1, tasks'[u].lane = tasks'[s].lane
               PROVE  tasks'[u].stage = "settled"
    BY DEF LanesInOrder
  <2>1. s \in Ids /\ u \in Ids
    BY <1>1, <1>4, <1>5
  <2> QED BY <1>5, <2>1 DEF IInv, LanesInOrder
<1>8. Chained'
  <2>1. ASSUME NEW s \in Ids'
        PROVE  /\ tasks'[s].prior # None =>
                    tasks'[s].prior \in 1 .. s - 1 /\ tasks'[tasks'[s].prior].lane = tasks'[s].lane
               /\ \A u \in 1 .. s - 1 : tasks'[u].lane = tasks'[s].lane =>
                    IF tasks'[s].prior = None THEN tasks'[u].stage = "settled"
                    ELSE u <= tasks'[s].prior
    <3>1. CASE s = n
      <4>1. 1 .. n - 1 = Ids
        BY <1>1
      <4> QED BY <1>4, <1>5, <3>1, <4>1 DEF IInv, Chained
    <3>2. CASE s \in Ids
      <4>1. 1 .. s - 1 \subseteq Ids
        BY <1>1, <3>2
      <4> QED BY <1>5, <3>2, <4>1 DEF IInv, Chained
    <3> QED BY <1>5, <3>1, <3>2
  <2>2. ASSUME NEW l \in Lanes
        PROVE  /\ tail'[l] # None => tail'[l] \in Ids' /\ tasks'[tail'[l]].lane = l
               /\ \A u \in Ids' : tasks'[u].lane = l =>
                    IF tail'[l] = None THEN tasks'[u].stage = "settled" ELSE u <= tail'[l]
    <3>1. CASE l = lane
      <4>1. tail'[l] = n /\ n # None /\ \A u \in Ids' : u <= n
        BY <1>1, <1>3, <1>5, <3>1, SessionAssumption DEF IInv, Types
      <4> QED BY <1>4, <1>5, <3>1, <4>1
    <3>2. CASE l # lane
      <4>1. tail'[l] = tail[l]
        BY <1>3, <3>2 DEF IInv, Types
      <4> QED BY <1>4, <1>5, <3>2, <4>1 DEF IInv, Chained
    <3> QED BY <3>1, <3>2
  <2> QED BY <2>1, <2>2 DEF Chained
<1>9. LeasesFollowRequests'
  <2>1. ASSUME NEW c \in Conversations, lease'[c] # None
        PROVE  Running(lease[c])' /\ tasks'[lease'[c]].conversation = c
    BY <1>3, <1>5, <2>1 DEF IInv, LeasesFollowRequests, Running, In
  <2>2. ASSUME NEW s \in Ids', tasks'[s].stage \in {"streaming", "writing", "ending"},
               tasks'[s].conversation # None
        PROVE  lease'[tasks'[s].conversation] = s
    <3>1. s \in Ids /\ tasks'[s] = tasks[s]
      BY <1>4, <1>5, <2>2
    <3> QED BY <1>3, <2>2, <3>1 DEF IInv, LeasesFollowRequests, In
  <2> QED BY <2>1, <2>2 DEF LeasesFollowRequests, In
<1>10. Counted'
  <2>1. Open' = Open \cup {n} /\ n \notin Open
    BY <1>1, <1>4, <1>5 DEF Open, In, Stages
  <2>2. Cardinality(Open \cup {n}) = Cardinality(Open) + 1
    BY <1>1, <2>1, FS_AddElement
  <2> QED BY <1>3, <2>1, <2>2, SessionAssumption DEF IInv, Counted, Types
<1> QED BY <1>6, <1>7, <1>8, <1>9, <1>10 DEF IInv

LEMMA StartKeeps ==
  ASSUME IInv, NEW t \in Ids, Start(t)
  PROVE  IInv'
<1> DEFINE new == [tasks[t] EXCEPT !.stage = "streaming"]
<1>1. tasks[t] \in Task /\ tasks[t].stage = "queued"
  BY DEF IInv, Types, Ids, Start, Ready
<1>2. /\ new \in Task /\ new.stage = "streaming" /\ new.lane = tasks[t].lane
      /\ new.prior = tasks[t].prior /\ new.conversation = tasks[t].conversation
  BY <1>1 DEF Task, Stages
<1>3. /\ tasks' = [tasks EXCEPT ![t] = new] /\ Ready(t)
      /\ UNCHANGED <<tail, pendingRequests, active>>
      /\ IF tasks[t].conversation = None THEN lease' = lease
         ELSE /\ lease[tasks[t].conversation] = None
              /\ lease' = [lease EXCEPT ![tasks[t].conversation] = t]
  BY DEF Start, Move, counters
<1> HIDE DEF new
<1>4. /\ tasks' \in Seq(Task) /\ Ids' = Ids /\ tasks'[t] = new
      /\ \A u \in Ids : u # t => tasks'[u] = tasks[u]
      /\ LanesInOrder'
      /\ \A s \in Ids' :
           /\ tasks'[s].prior # None =>
                tasks'[s].prior \in 1 .. s - 1 /\ tasks'[tasks'[s].prior].lane = tasks'[s].lane
           /\ \A u \in 1 .. s - 1 : tasks'[u].lane = tasks'[s].lane =>
                IF tasks'[s].prior = None THEN tasks'[u].stage = "settled"
                ELSE u <= tasks'[s].prior
  BY <1>1, <1>2, <1>3, Advances
<1>5. tasks[t].conversation \in Conversations \cup {None} /\ t \in Nat
  BY <1>1, OpenFinite DEF Task, IInv
<1>6. Types'
  BY <1>3, <1>4, <1>5 DEF IInv, Types
<1>7. Chained'
  BY <1>1, <1>2, <1>3, <1>4 DEF IInv, Chained
<1>8. LeasesFollowRequests'
  <2>1. ASSUME NEW c \in Conversations, lease'[c] # None
        PROVE  lease'[c] \in Ids
               /\ tasks'[lease'[c]].stage \in {"streaming", "writing", "ending", "reporting"}
               /\ tasks'[lease'[c]].conversation = c
    <3>1. CASE c = tasks[t].conversation
      <4>1. lease'[c] = t
        BY <1>3, <2>1, <3>1, SessionAssumption DEF IInv, Types
      <4> QED BY <1>2, <1>4, <3>1, <4>1
    <3>2. CASE c # tasks[t].conversation
      <4>1. lease'[c] = lease[c]
        BY <1>3, <3>2 DEF IInv, Types
      <4>2. /\ lease[c] \in Ids /\ tasks[lease[c]].conversation = c
            /\ tasks[lease[c]].stage \in {"streaming", "writing", "ending", "reporting"}
        BY <2>1, <4>1 DEF IInv, LeasesFollowRequests, Running, In
      <4> QED BY <1>1, <1>4, <4>1, <4>2
    <3> QED BY <3>1, <3>2
  <2>2. ASSUME NEW s \in Ids, tasks'[s].stage \in {"streaming", "writing", "ending"},
               tasks'[s].conversation # None
        PROVE  lease'[tasks'[s].conversation] = s
    <3>1. CASE s = t
      BY <1>2, <1>3, <1>4, <1>5, <2>2, <3>1 DEF IInv, Types
    <3>2. CASE s # t
      <4>1. tasks'[s] = tasks[s] /\ tasks[s] \in Task
        BY <1>4, <3>2 DEF IInv, Types, Ids
      <4>2. tasks[s].conversation \in Conversations
        BY <2>2, <4>1 DEF Task
      <4>3. lease[tasks[s].conversation] = s
        BY <2>2, <4>1 DEF IInv, LeasesFollowRequests, In
      <4>4. s # None
        BY OpenFinite, SessionAssumption DEF IInv
      <4> QED BY <1>3, <4>1, <4>2, <4>3, <4>4 DEF IInv, Types
    <3> QED BY <3>1, <3>2
  <2> QED BY <1>4, <2>1, <2>2 DEF LeasesFollowRequests, Running, In
<1>9. Counted'
  <2>1. Open' = Open
    BY <1>1, <1>2, <1>4 DEF Open, In, Stages
  <2> QED BY <1>3, <2>1 DEF IInv, Counted
<1> QED BY <1>4, <1>6, <1>7, <1>8, <1>9 DEF IInv
-----------------------------------------------------------------------------
(* The steps of a request under way.                                        *)

(* The catch clause reports the error or, on an aborted connection, leaves. *)
LEMMA CatchKeeps ==
  ASSUME IInv, NEW t \in Ids, Catch(t),
         \/ Ready(t)
         \/ tasks[t].stage \in {"streaming", "writing", "ending"}
  PROVE  IInv'
<1> DEFINE new == [tasks[t] EXCEPT !.failed = TRUE,
                                   !.stage = IF aborted THEN "settled" ELSE "reporting"]
<1>1. /\ tasks[t] \in Task /\ tasks[t].stage # "settled"
      /\ tasks[t].stage = "queued" => Ready(t)
  BY DEF IInv, Types, Ids, Ready
<1>2. /\ new \in Task /\ new.stage = IF aborted THEN "settled" ELSE "reporting"
      /\ new.lane = tasks[t].lane /\ new.prior = tasks[t].prior
      /\ new.conversation = tasks[t].conversation
  BY <1>1 DEF Task, Stages
<1>3. tasks' = [tasks EXCEPT ![t] = new]
  BY <1>1 DEF Catch, Task
<1>4. IF aborted THEN Leave(t) ELSE UNCHANGED <<tail, lease, pendingRequests, active>>
  BY DEF Catch, counters
<1> HIDE DEF new
<1>5. CASE aborted
  BY <1>1, <1>2, <1>3, <1>4, <1>5, LeavesKeeps
<1>6. CASE ~aborted
  BY <1>1, <1>2, <1>3, <1>4, <1>6, GoesOnKeeps
<1> QED BY <1>5, <1>6

(* Frames and terminal frames are on the way to the peer.                   *)
LEMMA StreamKeeps ==
  ASSUME IInv, NEW t \in Ids,
         \/ Frame(t) \/ Incomplete(t) \/ ErrorFrame(t)
         \/ \E bytes \in HistoryBytes : Complete(t, bytes)
  PROVE  IInv'
<1>1. \E stage \in {"writing", "ending"}, completed \in BOOLEAN, failed \in BOOLEAN :
        tasks' = [tasks EXCEPT ![t] = [tasks[t] EXCEPT !.stage = stage, !.completed = completed,
                                                       !.failed = failed]]
  <2>1. tasks[t] \in Task
    BY DEF IInv, Types, Ids
  <2>2. /\ tasks[t].completed \in BOOLEAN /\ tasks[t].failed \in BOOLEAN
        /\ \A stage \in {"writing", "ending"} :
             [tasks[t] EXCEPT !.stage = stage] =
               [tasks[t] EXCEPT !.stage = stage, !.completed = tasks[t].completed,
                                !.failed = tasks[t].failed]
    BY <2>1 DEF Task
  <2>3. CASE Frame(t)
    <3>1. tasks' = [tasks EXCEPT ![t] = [tasks[t] EXCEPT !.stage = "writing"]]
      BY <2>3 DEF Frame, Move
    <3> QED BY <2>2, <3>1
  <2>4. CASE Incomplete(t)
    <3>1. tasks' = [tasks EXCEPT ![t] = [tasks[t] EXCEPT !.stage = "ending"]]
      BY <2>4 DEF Incomplete, Move
    <3> QED BY <2>2, <3>1
  <2>5. CASE ErrorFrame(t)
    <3>1. tasks' = [tasks EXCEPT ![t] = [tasks[t] EXCEPT !.stage = "ending", !.failed = TRUE]]
      BY <2>1, <2>5 DEF ErrorFrame, Task
    <3>2. [tasks[t] EXCEPT !.stage = "ending", !.failed = TRUE] =
            [tasks[t] EXCEPT !.stage = "ending", !.completed = tasks[t].completed, !.failed = TRUE]
      BY <2>1 DEF Task
    <3> QED BY <2>2, <3>1, <3>2
  <2>6. ASSUME NEW bytes \in HistoryBytes, Complete(t, bytes)
        PROVE  tasks' = [tasks EXCEPT ![t] = [tasks[t] EXCEPT !.stage = "ending",
                           !.completed = TRUE, !.failed = tasks[t].failed]]
    <3>1. tasks' = [tasks EXCEPT ![t] = [tasks[t] EXCEPT !.stage = "ending", !.completed = TRUE]]
      BY <2>1, <2>6 DEF Complete, Task
    <3>2. [tasks[t] EXCEPT !.stage = "ending", !.completed = TRUE] =
            [tasks[t] EXCEPT !.stage = "ending", !.completed = TRUE, !.failed = tasks[t].failed]
      BY <2>1 DEF Task
    <3> QED BY <3>1, <3>2
  <2> QED BY <2>2, <2>3, <2>4, <2>5, <2>6
<1>2. PICK stage \in {"writing", "ending"}, completed \in BOOLEAN, failed \in BOOLEAN :
        tasks' = [tasks EXCEPT ![t] = [tasks[t] EXCEPT !.stage = stage, !.completed = completed,
                                                       !.failed = failed]]
  BY <1>1
<1> DEFINE new == [tasks[t] EXCEPT !.stage = stage, !.completed = completed, !.failed = failed]
<1>3. tasks[t] \in Task /\ tasks[t].stage = "streaming"
  BY DEF IInv, Types, Ids, Frame, Incomplete, ErrorFrame, Complete
<1>4. /\ new \in Task /\ new.stage = stage /\ new.lane = tasks[t].lane
      /\ new.prior = tasks[t].prior /\ new.conversation = tasks[t].conversation
  BY <1>3 DEF Task, Stages
<1>5. UNCHANGED <<tail, lease, pendingRequests, active>>
  BY DEF Frame, Incomplete, ErrorFrame, Complete, counters
<1> HIDE DEF new
<1> QED BY <1>2, <1>3, <1>4, <1>5, GoesOnKeeps DEF new

(* A write completes, a timer fires, a turn is skipped, an error is out.    *)
LEMMA EndsKeep ==
  ASSUME IInv, NEW t \in Ids, Skip(t) \/ Written(t) \/ Cut(t) \/ Report(t)
  PROVE  IInv'
<1> DEFINE settled == [tasks[t] EXCEPT !.stage = "settled"]
<1>1. tasks[t] \in Task
  BY DEF IInv, Types, Ids
<1>2. /\ settled \in Task /\ settled.stage = "settled" /\ settled.lane = tasks[t].lane
      /\ settled.prior = tasks[t].prior
  BY <1>1 DEF Task, Stages
<1>3. CASE Skip(t) \/ Report(t) \/ (tasks[t].stage = "ending" /\ Written(t))
  <2>1. /\ tasks' = [tasks EXCEPT ![t] = settled] /\ Leave(t)
        /\ tasks[t].stage # "settled" /\ (tasks[t].stage = "queued" => Ready(t))
    BY <1>3 DEF Skip, Report, Written, Move, Ready
  <2> HIDE DEF settled
  <2> QED BY <1>2, <2>1, LeavesKeeps
<1>4. CASE tasks[t].stage = "writing" /\ Written(t)
  <2> DEFINE new == [tasks[t] EXCEPT !.stage = "streaming"]
  <2>1. /\ new \in Task /\ new.stage = "streaming" /\ new.lane = tasks[t].lane
        /\ new.prior = tasks[t].prior /\ new.conversation = tasks[t].conversation
    BY <1>1 DEF Task, Stages
  <2>2. /\ tasks' = [tasks EXCEPT ![t] = new]
        /\ UNCHANGED <<tail, lease, pendingRequests, active>>
    BY <1>4 DEF Written, Move, counters
  <2> HIDE DEF new
  <2> QED BY <1>4, <2>1, <2>2, GoesOnKeeps
<1>5. CASE Cut(t)
  <2> DEFINE new == [tasks[t] EXCEPT !.cut = TRUE]
  <2>1. /\ new \in Task /\ new.stage = tasks[t].stage /\ new.lane = tasks[t].lane
        /\ new.prior = tasks[t].prior /\ new.conversation = tasks[t].conversation
    BY <1>1 DEF Task
  <2>2. /\ tasks' = [tasks EXCEPT ![t] = new]
        /\ tasks[t].stage \in {"streaming", "writing", "ending"}
        /\ UNCHANGED <<tail, lease, pendingRequests, active>>
    BY <1>5 DEF Cut, counters
  <2> HIDE DEF new
  <2> QED BY <2>1, <2>2, GoesOnKeeps
<1> QED BY <1>3, <1>4, <1>5 DEF Written

-----------------------------------------------------------------------------
(* The invariant.                                                           *)

LEMMA InvInit == Init => IInv
<1> SUFFICES ASSUME Init PROVE IInv
  OBVIOUS
<1>1. Ids = {} /\ Open = {}
  BY DEF Init, Ids, Open, In
<1>2. Types
  BY DEF Init, Types
<1>3. Chained /\ LanesInOrder
  BY <1>1 DEF Init, Chained, LanesInOrder
<1>4. LeasesFollowRequests
  BY <1>1 DEF Init, LeasesFollowRequests, In
<1>5. Counted
  BY <1>1, FS_EmptySet, SessionAssumption DEF Init, Counted
<1> QED BY <1>2, <1>3, <1>4, <1>5 DEF IInv

LEMMA InvNext == IInv /\ [Next]_vars => IInv'
<1> SUFFICES ASSUME IInv, [Next]_vars PROVE IInv'
  OBVIOUS
<1>1. ASSUME UNCHANGED <<tasks, tail, lease, pendingRequests, active>> PROVE IInv'
  BY <1>1 DEF IInv, Types, Chained, LanesInOrder, LeasesFollowRequests, Counted, Ids, Open,
              In, Running
<1>2. ASSUME NEW lane \in Lanes, NEW bytes \in MessageBytes, Refuse(lane, bytes) PROVE IInv'
  BY <1>1, <1>2 DEF Refuse, counters
<1>3. ASSUME NEW t \in Ids, Run(t) PROVE IInv'
  <2>1. CASE Start(t)
    BY <2>1, StartKeeps
  <2>2. CASE Decline(t) \/ Fail(t)
    BY <2>2, CatchKeeps DEF Decline, Fail
  <2>3. CASE \/ Frame(t) \/ Incomplete(t) \/ ErrorFrame(t)
             \/ \E bytes \in HistoryBytes : Complete(t, bytes)
    BY <2>3, StreamKeeps
  <2>4. CASE Skip(t) \/ Written(t) \/ Cut(t) \/ Report(t)
    BY <2>4, EndsKeep
  <2> QED BY <1>3, <2>1, <2>2, <2>3, <2>4 DEF Run
<1>4. CASE Close \/ Drain
  BY <1>1, <1>4 DEF Close, Drain, counters
<1>5. CASE UNCHANGED vars
  BY <1>1, <1>5 DEF vars
<1> QED BY <1>2, <1>3, <1>4, <1>5, AcceptKeeps DEF Next

-----------------------------------------------------------------------------
(* What holds of every state of every instance.                             *)

(* The inductive invariant.                                                 *)
THEOREM SessionInvariance == Spec => []IInv
BY InvInit, InvNext, PTL DEF Spec

(* However many requests a lane chains, and whether its entry in the map    *)
(* was dropped in between, it works on one at a time, in order of arrival.  *)
THEOREM LanesAlwaysInOrder == Spec => []LanesInOrder
<1>1. IInv => LanesInOrder
  BY DEF IInv
<1> QED BY <1>1, SessionInvariance, PTL

(* Two lanes never generate in one conversation, and no way out of a        *)
(* request leaves its conversation busy.                                    *)
THEOREM LeasesAlwaysFollowRequests == Spec => []LeasesFollowRequests
<1>1. IInv => LeasesFollowRequests
  BY DEF IInv
<1> QED BY <1>1, SessionInvariance, PTL

(* The drain counts exactly the requests that are not over, so that it is   *)
(* zero only when none is cut off, and the queue has them within its limit. *)
THEOREM SlotsAlwaysCounted ==
  Spec => [](/\ active = Cardinality(In(Stages \ {"settled"}))
             /\ pendingRequests = active /\ pendingRequests <= MaxPendingRequests)
<1>1. IInv => /\ active = Cardinality(In(Stages \ {"settled"}))
              /\ pendingRequests = active /\ pendingRequests <= MaxPendingRequests
  BY DEF IInv, Counted, Open
<1> QED BY <1>1, SessionInvariance, PTL

-----------------------------------------------------------------------------
(* The history of the connection and the bytes of the queue.                *)

Parents ==
  /\ history \in SUBSET Parent /\ IsFiniteSet(history) /\ historyBytes \in Nat
  /\ \A e \in history : e.id \in Ids

(* A request is marked when it is at its end; it continues an earlier one.  *)
Marked ==
  \A t \in Ids :
    /\ tasks[t].stage \in {"queued", "streaming", "writing"} => ~tasks[t].completed /\ ~tasks[t].failed
    /\ tasks[t].previous # None => tasks[t].previous \in 1 .. t - 1

Weighed ==
  /\ pendingBytes = Total([t \in Ids |-> tasks[t].bytes], Open)
  /\ pendingBytes <= BodyLimitBytes

HInv == Parents /\ Marked /\ Weighed /\ HistoryExact /\ HistoryIsCurrent

(* What a step of a request does to the request, the queue and the history. *)
Forgets(t) == Forget(tasks[t].lane)

Spares(t) ==
  /\ UNCHANGED <<history, historyBytes>>
  /\ CachedId(tasks[t].lane) # tasks[t].previous
  /\ ~(tasks[t].completed /\ CachedId(tasks[t].lane) = t)

StepOf(t, new) ==
  /\ new \in Task /\ tasks' = [tasks EXCEPT ![t] = new]
  /\ new.lane = tasks[t].lane /\ new.bytes = tasks[t].bytes /\ new.previous = tasks[t].previous
  /\ tasks[t].stage # "settled"
  /\ IF new.stage = "settled" THEN pendingBytes' = pendingBytes - tasks[t].bytes
     ELSE UNCHANGED pendingBytes
  /\ new.stage \in {"queued", "streaming", "writing"} =>
       /\ tasks[t].stage \in {"queued", "streaming", "writing"}
       /\ new.completed = tasks[t].completed /\ new.failed = tasks[t].failed
  /\ \/ /\ new.completed = tasks[t].completed /\ new.failed = tasks[t].failed
        /\ UNCHANGED <<aborted, history, historyBytes>> \/ Abort
     \/ /\ new.completed = tasks[t].completed /\ new.failed
        /\ Forgets(t) \/ Spares(t)
        /\ UNCHANGED aborted
     \/ /\ tasks[t].stage = "streaming" /\ new.completed /\ new.failed = tasks[t].failed
        /\ ~aborted /\ UNCHANGED aborted
        /\ \E bytes \in HistoryBytes : Remember(t, bytes)

LEMMA RunIsAStep ==
  ASSUME IInv, NEW t \in Ids, Run(t)
  PROVE  \E new : StepOf(t, new)
<1>1. tasks[t] \in Task
  BY DEF IInv, Types, Ids
<1> DEFINE At(stage) == [tasks[t] EXCEPT !.stage = stage]
<1>2. ASSUME NEW stage \in Stages
      PROVE  /\ At(stage) \in Task /\ At(stage).stage = stage
             /\ At(stage).lane = tasks[t].lane /\ At(stage).bytes = tasks[t].bytes
             /\ At(stage).previous = tasks[t].previous
             /\ At(stage).completed = tasks[t].completed /\ At(stage).failed = tasks[t].failed
  BY <1>1 DEF Task
<1>3. CASE Skip(t) \/ Report(t) \/ (tasks[t].stage = "ending" /\ Written(t))
  <2>1. /\ tasks' = [tasks EXCEPT ![t] = At("settled")] /\ tasks[t].stage # "settled"
        /\ pendingBytes' = pendingBytes - tasks[t].bytes
        /\ UNCHANGED <<aborted, history, historyBytes>> \/ Abort
    BY <1>3 DEF Skip, Report, Written, Move, Ready, Leave, remembered
  <2>2. "settled" \in Stages
    BY DEF Stages
  <2> QED BY <1>2, <2>1, <2>2 DEF StepOf
<1>4. CASE Start(t) \/ Frame(t) \/ (tasks[t].stage = "writing" /\ Written(t))
  <2>1. PICK stage \in {"streaming", "writing"} :
          /\ tasks' = [tasks EXCEPT ![t] = At(stage)]
          /\ tasks[t].stage \in {"queued", "streaming", "writing"}
          /\ UNCHANGED <<aborted, history, historyBytes, pendingBytes>>
    BY <1>4 DEF Start, Frame, Written, Move, Ready, counters, remembered
  <2>2. stage \in Stages
    BY DEF Stages
  <2> DEFINE new == At(stage)
  <2>3. /\ tasks' = [tasks EXCEPT ![t] = new] /\ new \in Task /\ new.stage = stage
        /\ new.lane = tasks[t].lane /\ new.bytes = tasks[t].bytes
        /\ new.previous = tasks[t].previous
        /\ new.completed = tasks[t].completed /\ new.failed = tasks[t].failed
    BY <1>2, <2>1, <2>2
  <2>4. /\ tasks[t].stage \in {"queued", "streaming", "writing"} /\ stage # "settled"
        /\ UNCHANGED <<aborted, history, historyBytes, pendingBytes>>
    BY <2>1
  <2> HIDE DEF new
  <2>5. StepOf(t, new)
    BY <2>3, <2>4 DEF StepOf
  <2> QED BY <2>5
<1>5. CASE Incomplete(t)
  <2>1. /\ tasks' = [tasks EXCEPT ![t] = At("ending")] /\ tasks[t].stage = "streaming"
        /\ UNCHANGED <<aborted, history, historyBytes, pendingBytes>>
    BY <1>5 DEF Incomplete, Move, counters, remembered
  <2>2. "ending" \in Stages
    BY DEF Stages
  <2> DEFINE new == At("ending")
  <2>3. /\ tasks' = [tasks EXCEPT ![t] = new] /\ new \in Task /\ new.stage = "ending"
        /\ new.lane = tasks[t].lane /\ new.bytes = tasks[t].bytes
        /\ new.previous = tasks[t].previous
        /\ new.completed = tasks[t].completed /\ new.failed = tasks[t].failed
    BY <1>2, <2>1, <2>2
  <2>4. tasks[t].stage = "streaming" /\ UNCHANGED <<aborted, history, historyBytes, pendingBytes>>
    BY <2>1
  <2> HIDE DEF new
  <2> QED BY <2>3, <2>4 DEF StepOf
<1>6. CASE Cut(t)
  <2> DEFINE new == [tasks[t] EXCEPT !.cut = TRUE]
  <2>1. /\ tasks' = [tasks EXCEPT ![t] = new] /\ tasks[t].stage # "settled"
        /\ UNCHANGED pendingBytes
        /\ UNCHANGED <<aborted, history, historyBytes>> \/ Abort
    BY <1>6 DEF Cut, counters, remembered
  <2>2. /\ new \in Task /\ new.stage = tasks[t].stage
        /\ new.lane = tasks[t].lane /\ new.bytes = tasks[t].bytes
        /\ new.previous = tasks[t].previous
        /\ new.completed = tasks[t].completed /\ new.failed = tasks[t].failed
    BY <1>1 DEF Task
  <2> HIDE DEF new
  <2> QED BY <2>1, <2>2 DEF StepOf
<1>7. CASE Decline(t) \/ Fail(t)
  <2> DEFINE stage == IF aborted THEN "settled" ELSE "reporting"
             new == [tasks[t] EXCEPT !.failed = TRUE, !.stage = stage]
  <2>1. Catch(t) /\ tasks[t].stage # "settled"
    BY <1>7 DEF Decline, Fail, Ready
  <2>2. /\ tasks' = [tasks EXCEPT ![t] = new]
        /\ IF aborted THEN pendingBytes' = pendingBytes - tasks[t].bytes ELSE UNCHANGED pendingBytes
        /\ Forgets(t) \/ Spares(t)
        /\ UNCHANGED aborted
    <3>1. tasks' = [tasks EXCEPT ![t] = new]
      BY <1>1, <2>1 DEF Catch, Task
    <3>2. IF aborted THEN pendingBytes' = pendingBytes - tasks[t].bytes ELSE UNCHANGED pendingBytes
      BY <2>1 DEF Catch, Leave, counters
    <3>3. (Forgets(t) \/ Spares(t)) /\ UNCHANGED aborted
      BY <2>1 DEF Catch, remembered, Forgets, Spares
    <3> QED BY <3>1, <3>2, <3>3
  <2>3. /\ new \in Task /\ new.stage = stage /\ new.failed
        /\ new.lane = tasks[t].lane /\ new.bytes = tasks[t].bytes
        /\ new.previous = tasks[t].previous /\ new.completed = tasks[t].completed
    BY <1>1 DEF Task, Stages
  <2>4. stage \in {"settled", "reporting"} /\ (stage = "settled" <=> aborted)
    OBVIOUS
  <2> HIDE DEF new, stage
  <2> QED BY <2>1, <2>2, <2>3, <2>4 DEF StepOf
<1>8. CASE ErrorFrame(t)
  <2> DEFINE new == [tasks[t] EXCEPT !.stage = "ending", !.failed = TRUE]
  <2>1. /\ tasks' = [tasks EXCEPT ![t] = new] /\ tasks[t].stage = "streaming"
        /\ Forgets(t) /\ UNCHANGED <<aborted, pendingBytes>>
    BY <1>1, <1>8 DEF ErrorFrame, counters, Forgets, Task
  <2>2. /\ new \in Task /\ new.stage = "ending" /\ new.failed
        /\ new.lane = tasks[t].lane /\ new.bytes = tasks[t].bytes
        /\ new.previous = tasks[t].previous /\ new.completed = tasks[t].completed
    BY <1>1 DEF Task, Stages
  <2> HIDE DEF new
  <2> QED BY <2>1, <2>2 DEF StepOf
<1>9. ASSUME NEW bytes \in HistoryBytes, Complete(t, bytes) PROVE \E new : StepOf(t, new)
  <2> DEFINE new == [tasks[t] EXCEPT !.stage = "ending", !.completed = TRUE]
  <2>1. /\ tasks' = [tasks EXCEPT ![t] = new] /\ tasks[t].stage = "streaming"
        /\ Remember(t, bytes) /\ ~aborted /\ UNCHANGED <<aborted, pendingBytes>>
    BY <1>1, <1>9 DEF Complete, counters, Task
  <2>2. /\ new \in Task /\ new.stage = "ending" /\ new.completed
        /\ new.lane = tasks[t].lane /\ new.bytes = tasks[t].bytes
        /\ new.previous = tasks[t].previous /\ new.failed = tasks[t].failed
    BY <1>1 DEF Task, Stages
  <2> HIDE DEF new
  <2> QED BY <2>1, <2>2 DEF StepOf
<1> QED BY <1>3, <1>4, <1>5, <1>6, <1>7, <1>8, <1>9 DEF Run, Written

LEMMA HeldLess ==
  ASSUME NEW es \in SUBSET Parent, IsFiniteSet(es), NEW T \in SUBSET es
  PROVE  /\ IsFiniteSet(T) /\ IsFiniteSet(es \ T)
         /\ Held(es) \in Nat /\ Held(T) \in Nat /\ Held(es \ T) \in Nat
         /\ Held(es \ T) = Held(es) - Held(T)
<1> DEFINE size == [e \in Parent |-> e.bytes]
<1>1. \A e \in Parent : size[e] = e.bytes /\ size[e] \in Nat
  BY SessionAssumption DEF Parent
<1>2. ASSUME NEW S \in SUBSET Parent PROVE Held(S) = Total(size, S)
  <2> DEFINE own == [e \in S |-> e.bytes]
  <2>1. \A e \in S : own[e] = size[e]
    BY <1>1
  <2>2. Held(S) = Total(own, S)
    BY DEF Held
  <2> HIDE DEF own, size
  <2> QED BY <2>1, <2>2, TotalSame
<1> HIDE DEF size
<1>3. \A e \in es : size[e] \in Nat
  BY <1>1
<1>4. /\ IsFiniteSet(T) /\ IsFiniteSet(es \ T)
      /\ Total(size, es \ T) = Total(size, es) - Total(size, T)
      /\ Total(size, es) \in Nat /\ Total(size, T) \in Nat /\ Total(size, es \ T) \in Nat
  BY <1>3, TotalLess
<1>5. T \in SUBSET Parent /\ es \ T \in SUBSET Parent
  OBVIOUS
<1>6. Held(es) = Total(size, es) /\ Held(T) = Total(size, T) /\ Held(es \ T) = Total(size, es \ T)
  BY <1>2, <1>5
<1> QED BY <1>4, <1>6

LEMMA HeldMore ==
  ASSUME NEW es \in SUBSET Parent, IsFiniteSet(es), NEW e \in Parent, e \notin es
  PROVE  /\ IsFiniteSet(es \cup {e}) /\ Held(es \cup {e}) = Held(es) + e.bytes
         /\ Held(es) \in Nat
<1> DEFINE all == es \cup {e}
           size == [f \in all |-> f.bytes]
           own == [f \in es |-> f.bytes]
<1>1. IsFiniteSet(all) /\ \A f \in all : size[f] = f.bytes /\ size[f] \in Nat
  BY FS_AddElement, SessionAssumption DEF Parent
<1>2. \A f \in es : own[f] = size[f]
  OBVIOUS
<1>3. Held(all) = Total(size, all) /\ Held(es) = Total(own, es) /\ e.bytes = size[e]
  BY DEF Held
<1> HIDE DEF size, own
<1>4. Total(own, es) = Total(size, es)
  BY <1>2, TotalSame
<1>5. Total(size, all) = Total(size, es) + size[e]
  BY <1>1, TotalMore
<1>6. Total(size, es) \in Nat
  BY <1>1, LedgerFinite
<1> QED BY <1>1, <1>3, <1>4, <1>5, <1>6

(* Forgetting keeps the count exact.                                        *)
LEMMA ForgetKeeps ==
  ASSUME Parents, HistoryExact, NEW lane, Forget(lane), UNCHANGED aborted
  PROVE  /\ history' = {e \in history : e.lane # lane} /\ IsFiniteSet(history')
         /\ historyBytes' \in Nat /\ HistoryExact'
<1> DEFINE gone == history \ Without(lane)
<1>1. gone \in SUBSET history /\ history' = history \ gone /\ history' = Without(lane)
  BY DEF Forget, Without
<1>2. historyBytes' = Held(history) - Held(gone)
  BY DEF Forget, WithoutBytes, HistoryExact
<1> HIDE DEF gone
<1>3. /\ IsFiniteSet(history') /\ Held(history') = historyBytes' /\ Held(history') \in Nat
      /\ Held(history') = Held(history) - Held(gone) /\ Held(gone) \in Nat /\ Held(history) \in Nat
  BY <1>1, <1>2, HeldLess DEF Parents
<1>4. historyBytes' <= HistoryLimitBytes
  BY <1>2, <1>3, SessionAssumption DEF HistoryExact
<1>5. HistoryExact'
  BY <1>1, <1>3, <1>4 DEF HistoryExact, Without
<1> QED BY <1>1, <1>3, <1>5 DEF Without

(* Remembering, too, and it stays within the limit.                         *)
LEMMA RememberKeeps ==
  ASSUME IInv, Parents, HistoryExact, NEW t \in Ids, NEW bytes \in HistoryBytes,
         Remember(t, bytes), ~aborted, UNCHANGED aborted
  PROVE  /\ history' \in SUBSET Parent /\ IsFiniteSet(history')
         /\ historyBytes' \in Nat /\ HistoryExact'
         /\ \A e \in history' :
              \/ e \in history /\ e.lane # tasks[t].lane
              \/ e.lane = tasks[t].lane /\ e.id = t
<1> DEFINE lane == tasks[t].lane
<1>1. CASE bytes > HistoryLimitBytes
  <2>1. Forget(lane)
    BY <1>1 DEF Remember
  <2>2. /\ history' = {e \in history : e.lane # lane} /\ IsFiniteSet(history')
        /\ historyBytes' \in Nat /\ HistoryExact'
    BY <2>1, ForgetKeeps
  <2> QED BY <2>2 DEF Parents
<1>2. CASE ~(bytes > HistoryLimitBytes)
  <2> DEFINE left == Without(lane)
             held == WithoutBytes(lane)
             older == [e \in left |-> {f \in left : f.at < e.at}]
             First(n) == Oldest(older, left, n)
             size == Cardinality(left)
             need == {n \in 0 .. size :
                        n = size \/ held - Held(First(n)) + bytes <= HistoryLimitBytes}
             gone == First(Min(need))
             completed == {u \in Ids : tasks[u].completed}
             new == [lane |-> lane, id |-> t, bytes |-> bytes, at |-> Cardinality(completed)]
  <2>1. /\ history' = (left \ gone) \cup {new}
        /\ historyBytes' = held - Held(gone) + bytes
    BY <1>2 DEF Remember
  <2>2. /\ left \in SUBSET Parent /\ IsFiniteSet(left) /\ held = Held(left) /\ held \in Nat
        /\ left \subseteq history
    <3> DEFINE out == history \ left
    <3>1. left \subseteq history /\ out \in SUBSET history /\ left = history \ out
      BY DEF Without
    <3>2. held = Held(history) - Held(out)
      BY DEF WithoutBytes, HistoryExact
    <3> HIDE DEF left, out, held
    <3> QED BY <3>1, <3>2, HeldLess DEF Parents
  <2>3. new \in Parent
    <3>1. IsFiniteSet(completed)
      BY OpenFinite, FS_Subset DEF IInv
    <3>2. Cardinality(completed) \in Nat
      BY <3>1, FS_CardinalityType
    <3>3. tasks[t] \in Task /\ t \in Nat \ {0}
      BY OpenFinite DEF IInv, Types, Ids
    <3> HIDE DEF completed
    <3> QED BY <3>2, <3>3 DEF Parent, Task
  <2>4. new.lane = lane /\ new.id = t /\ new.bytes = bytes /\ new \notin left
    BY DEF Without
  <2>5. First(size) = left
    <3>1. \A e \in left : e \notin older[e]
      BY <2>2 DEF Parent
    <3> HIDE DEF left, older
    <3> QED BY <2>2, <3>1, AllOldest
  <2> HIDE DEF new, completed, left, held
  <2>6. Min(need) \in need
    <3>1. size \in Nat
      BY <2>2, FS_CardinalityType
    <3>2. size \in need /\ need \subseteq Nat
      BY <3>1
    <3> HIDE DEF need
    <3> QED BY <3>2, SmallestOf
  <2>7. gone \in SUBSET left
    BY DEF Oldest
  <2>8. gone = left \/ held - Held(gone) + bytes <= HistoryLimitBytes
    BY <2>5, <2>6
  <2> HIDE DEF First, need, gone
  <2>9. /\ IsFiniteSet(left \ gone) /\ Held(left \ gone) = held - Held(gone)
        /\ Held(left \ gone) \in Nat /\ Held(gone) \in Nat
    BY <2>2, <2>7, HeldLess
  <2>10. bytes \in Nat /\ HistoryLimitBytes \in Nat /\ bytes <= HistoryLimitBytes
    BY <1>2, SessionAssumption
  <2>11. /\ IsFiniteSet(history') /\ Held(history') = Held(left \ gone) + bytes
         /\ history' \in SUBSET Parent
    <3>1. left \ gone \in SUBSET Parent /\ new \notin left \ gone
      BY <2>2, <2>4
    <3> QED BY <2>1, <2>3, <2>4, <2>9, <3>1, HeldMore
  <2>12. historyBytes' = Held(history') /\ historyBytes' \in Nat
    BY <2>1, <2>9, <2>10, <2>11
  <2>13. historyBytes' <= HistoryLimitBytes
    <3>1. CASE gone = left
      BY <2>1, <2>2, <2>10, <3>1
    <3>2. CASE held - Held(gone) + bytes <= HistoryLimitBytes
      BY <2>1, <3>2
    <3> QED BY <2>8, <3>1, <3>2
  <2>14. \A e \in left : e \in history /\ e.lane # lane
    BY DEF left, Without
  <2>15. \A e, f \in history' : e.lane = f.lane => e = f
    BY <2>1, <2>4, <2>14 DEF HistoryExact
  <2>16. HistoryExact'
    BY <2>12, <2>13, <2>15 DEF HistoryExact
  <2> QED BY <2>1, <2>4, <2>11, <2>12, <2>14, <2>16
<1> QED BY <1>1, <1>2

(* A step of a request changes it alone.                                    *)
LEMMA StepFacts ==
  ASSUME IInv, NEW t \in Ids, NEW new, StepOf(t, new)
  PROVE  /\ Ids' = Ids /\ tasks'[t] = new
         /\ \A u \in Ids : u # t => tasks'[u] = tasks[u]
         /\ \A u \in Ids : /\ tasks'[u].lane = tasks[u].lane /\ tasks'[u].bytes = tasks[u].bytes
                           /\ tasks'[u].previous = tasks[u].previous
         /\ tasks[t] \in Task
<1>1. /\ tasks' = [tasks EXCEPT ![t] = new] /\ new \in Task /\ tasks[t] \in Task
      /\ new.lane = tasks[t].lane /\ new.bytes = tasks[t].bytes /\ new.previous = tasks[t].previous
  BY DEF StepOf, IInv, Types, Ids
<1> QED BY <1>1 DEF IInv, Types, Ids

LEMMA CachedOne ==
  ASSUME Parents, HistoryExact, NEW e \in history
  PROVE  CachedId(e.lane) = e.id
<1>1. \A f \in history : f.lane = e.lane => f = e
  BY DEF HistoryExact
<1> QED BY <1>1 DEF CachedId

LEMMA StepParents ==
  ASSUME IInv, HInv, NEW t \in Ids, NEW new, StepOf(t, new)
  PROVE  Parents' /\ HistoryExact'
<1>1. Ids' = Ids
  BY StepFacts
<1>2. CASE Forgets(t) /\ UNCHANGED aborted
  BY <1>1, <1>2, ForgetKeeps DEF Forgets, HInv, Parents
<1>3. CASE UNCHANGED <<aborted, history, historyBytes>>
  BY <1>1, <1>3 DEF HInv, Parents, HistoryExact
<1>4. CASE Abort
  <2>1. history' = {} /\ historyBytes' = 0 /\ IsFiniteSet({})
    BY <1>4, FS_EmptySet DEF Abort
  <2>2. Held({}) = 0
    BY TotalEmpty DEF Held
  <2>3. Parents'
    BY <2>1 DEF Parents
  <2>4. HistoryExact'
    BY <2>1, <2>2, SessionAssumption DEF HistoryExact
  <2> QED BY <2>3, <2>4
<1>5. ASSUME NEW bytes \in HistoryBytes, Remember(t, bytes), ~aborted, UNCHANGED aborted
      PROVE  Parents' /\ HistoryExact'
  <2>1. /\ history' \in SUBSET Parent /\ IsFiniteSet(history')
        /\ historyBytes' \in Nat /\ HistoryExact'
        /\ \A e \in history' : e \in history \/ e.id = t
    BY <1>5, RememberKeeps DEF HInv
  <2> QED BY <1>1, <2>1 DEF HInv, Parents
<1> QED BY <1>2, <1>3, <1>4, <1>5 DEF StepOf, Spares

LEMMA StepMarked ==
  ASSUME IInv, HInv, NEW t \in Ids, NEW new, StepOf(t, new)
  PROVE  Marked'
<1>1. /\ new.stage \in {"queued", "streaming", "writing"} =>
           /\ tasks[t].stage \in {"queued", "streaming", "writing"}
           /\ new.completed = tasks[t].completed /\ new.failed = tasks[t].failed
  BY DEF StepOf
<1> QED BY <1>1, StepFacts DEF HInv, Marked

LEMMA StepWeighed ==
  ASSUME IInv, HInv, NEW t \in Ids, NEW new, StepOf(t, new)
  PROVE  Weighed'
<1> DEFINE size == [u \in Ids |-> tasks[u].bytes]
<1>1. /\ size' = size /\ IsFiniteSet(Open) /\ Open \subseteq Ids /\ t \in Open
      /\ \A u \in Ids : size[u] \in Nat /\ size[t] = tasks[t].bytes
  <2>1. /\ Ids' = Ids /\ \A u \in Ids : tasks'[u].bytes = tasks[u].bytes
        /\ tasks[t] \in Task /\ tasks[t].stage # "settled"
    BY StepFacts DEF StepOf
  <2>2. t \in Open /\ Open \subseteq Ids /\ IsFiniteSet(Open)
    BY <2>1, OpenFinite DEF IInv, Open, In, Task
  <2>3. ASSUME NEW u \in Ids PROVE tasks[u].bytes \in Nat
    <3>1. tasks[u] \in Task
      BY DEF IInv, Types, Ids
    <3> QED BY <3>1, SessionAssumption DEF Task
  <2> QED BY <2>1, <2>2, <2>3
<1>2. Open' = IF new.stage = "settled" THEN Open \ {t} ELSE Open
  <2>1. new \in Task
    BY DEF StepOf
  <2>2. new.stage \in Stages
    BY <2>1 DEF Task
  <2>3. /\ Ids' = Ids /\ tasks'[t] = new /\ \A u \in Ids : u # t => tasks'[u] = tasks[u]
    BY StepFacts
  <2> QED BY <1>1, <2>2, <2>3 DEF Open, In
<1>3. pendingBytes = Total(size, Open) /\ pendingBytes <= BodyLimitBytes
  BY DEF HInv, Weighed
<1> HIDE DEF size
<1>4. CASE new.stage = "settled"
  <2>1. pendingBytes' = pendingBytes - size[t]
    BY <1>1, <1>4 DEF StepOf
  <2>2. {t} \in SUBSET Open /\ \A u \in Open : size[u] \in Nat
    BY <1>1
  <2>3. /\ Total(size, Open \ {t}) = Total(size, Open) - Total(size, {t})
        /\ Total(size, Open) \in Nat /\ Total(size, {t}) \in Nat
    BY <1>1, <2>2, TotalLess
  <2>4. Total(size, {t}) = size[t]
    BY <1>1, TotalOne
  <2>5. pendingBytes' = Total(size', Open') /\ pendingBytes' <= BodyLimitBytes
    BY <1>1, <1>2, <1>3, <1>4, <2>1, <2>3, <2>4, SessionAssumption
  <2> QED BY <2>5 DEF Weighed, size
<1>5. CASE new.stage # "settled"
  <2>1. pendingBytes' = pendingBytes
    BY <1>5 DEF StepOf
  <2>2. pendingBytes' = Total(size', Open') /\ pendingBytes' <= BodyLimitBytes
    BY <1>1, <1>2, <1>3, <1>5, <2>1
  <2> QED BY <2>2 DEF Weighed, size
<1> QED BY <1>4, <1>5

(* What is continued from is what it says: the lane's order and the marks   *)
(* of its requests.                                                         *)
LEMMA StepCurrent ==
  ASSUME IInv, HInv, NEW t \in Ids, NEW new, StepOf(t, new)
  PROVE  HistoryIsCurrent'
<1>1. /\ Ids' = Ids /\ tasks'[t] = new
      /\ \A u \in Ids : u # t => tasks'[u] = tasks[u]
      /\ \A u \in Ids : tasks'[u].lane = tasks[u].lane /\ tasks'[u].previous = tasks[u].previous
  BY StepFacts
<1>2. ASSUME NEW e \in history, new.completed = tasks[t].completed,
             \/ new.failed = tasks[t].failed
             \/ e.lane # tasks[t].lane
             \/ e.id # tasks[t].previous /\ ~(tasks[t].completed /\ e.id = t)
      PROVE  /\ tasks'[e.id].lane = e.lane
             /\ tasks'[e.id].completed /\ ~tasks'[e.id].failed
             /\ \A u \in Ids : tasks'[u].lane = e.lane =>
                  /\ u > e.id => ~tasks'[u].completed
                  /\ tasks'[u].previous = e.id => ~tasks'[u].failed
  <2>1. /\ e.id \in Ids /\ tasks[e.id].lane = e.lane /\ tasks[e.id].completed
        /\ ~tasks[e.id].failed
        /\ \A u \in Ids : tasks[u].lane = e.lane =>
             /\ u > e.id => ~tasks[u].completed
             /\ tasks[u].previous = e.id => ~tasks[u].failed
    BY DEF HInv, Parents, HistoryIsCurrent
  <2> QED BY <1>1, <1>2, <2>1
<1>3. CASE /\ new.completed = tasks[t].completed /\ new.failed = tasks[t].failed
           /\ UNCHANGED <<aborted, history, historyBytes>> \/ Abort
  BY <1>1, <1>2, <1>3 DEF Abort, HistoryIsCurrent
<1>4. CASE /\ new.completed = tasks[t].completed /\ Forgets(t)
  <2>1. \A e \in history' : e \in history /\ e.lane # tasks[t].lane
    BY <1>4 DEF Forgets, Forget, Without
  <2> QED BY <1>1, <1>2, <1>4, <2>1 DEF HistoryIsCurrent
<1>5. CASE new.completed = tasks[t].completed /\ Spares(t)
  <2>1. ASSUME NEW e \in history, e.lane = tasks[t].lane
        PROVE  e.id # tasks[t].previous /\ ~(tasks[t].completed /\ e.id = t)
    BY <1>5, <2>1, CachedOne DEF Spares, HInv
  <2> QED BY <1>1, <1>2, <1>5, <2>1 DEF HistoryIsCurrent, Spares
<1>6. ASSUME NEW bytes \in HistoryBytes, Remember(t, bytes), ~aborted, UNCHANGED aborted,
             tasks[t].stage = "streaming", new.completed, new.failed = tasks[t].failed
      PROVE  HistoryIsCurrent'
  <2>1. \A e \in history' :
           \/ e \in history /\ e.lane # tasks[t].lane
           \/ e.lane = tasks[t].lane /\ e.id = t
    BY <1>6, RememberKeeps DEF HInv
  <2>2. ASSUME NEW e \in history, e.lane # tasks[t].lane
        PROVE  /\ tasks'[e.id].lane = e.lane
               /\ tasks'[e.id].completed /\ ~tasks'[e.id].failed
               /\ \A u \in Ids : tasks'[u].lane = e.lane =>
                    /\ u > e.id => ~tasks'[u].completed
                    /\ tasks'[u].previous = e.id => ~tasks'[u].failed
    <3>1. /\ e.id \in Ids /\ tasks[e.id].lane = e.lane /\ tasks[e.id].completed
          /\ ~tasks[e.id].failed
          /\ \A u \in Ids : tasks[u].lane = e.lane =>
               /\ u > e.id => ~tasks[u].completed
               /\ tasks[u].previous = e.id => ~tasks[u].failed
      BY DEF HInv, Parents, HistoryIsCurrent
    <3> QED BY <1>1, <2>2, <3>1
  <2>3. /\ ~new.failed /\ Ids \subseteq Nat
        /\ \A u \in Ids : u > t /\ tasks[u].lane = tasks[t].lane => tasks[u].stage = "queued"
    <3>1. Ids = 1 .. Len(tasks) /\ Len(tasks) \in Nat
      BY OpenFinite DEF IInv
    <3>2. ASSUME NEW u \in Ids, u > t, tasks[u].lane = tasks[t].lane, tasks[u].stage # "queued"
          PROVE  FALSE
      <4>1. t \in 1 .. u - 1
        BY <3>1, <3>2
      <4> QED BY <1>6, <3>2, <4>1 DEF IInv, LanesInOrder
    <3> QED BY <1>6, <3>1, <3>2 DEF HInv, Marked
  <2>4. ASSUME NEW u \in Ids, tasks[u].lane = tasks[t].lane
        PROVE  /\ u > t => ~tasks'[u].completed
               /\ tasks[u].previous = t => ~tasks'[u].failed
    <3>1. CASE u > t
      BY <1>1, <2>3, <2>4, <3>1 DEF HInv, Marked
    <3>2. CASE ~(u > t)
      <4>1. t # None /\ t \notin 1 .. u - 1
        BY <2>3, <3>2, SessionAssumption
      <4> QED BY <3>2, <4>1 DEF HInv, Marked
    <3> QED BY <3>1, <3>2
  <2> QED BY <1>1, <1>6, <2>1, <2>2, <2>3, <2>4 DEF HistoryIsCurrent
<1> QED BY <1>3, <1>4, <1>5, <1>6 DEF StepOf

(* A request that arrives is light enough and has no mark.                  *)
LEMMA AcceptHistory ==
  ASSUME IInv, HInv, NEW lane \in Lanes, NEW bytes \in MessageBytes,
         NEW previous \in Ids \cup {None}, NEW conversation \in Conversations \cup {None},
         Accept(lane, bytes, previous, conversation)
  PROVE  HInv'
<1> DEFINE n == Len(tasks) + 1
           new == [lane |-> lane, bytes |-> bytes, previous |-> previous,
                   conversation |-> conversation, prior |-> tail[lane],
                   stage |-> "queued", cut |-> FALSE, completed |-> FALSE, failed |-> FALSE]
<1>1. Ids = 1 .. Len(tasks) /\ Len(tasks) \in Nat /\ IsFiniteSet(Open) /\ Open \subseteq Ids
  BY OpenFinite DEF IInv, Open, In
<1>2. new \in Task
  BY <1>1 DEF IInv, Types, Task, Stages
<1>3. /\ tasks' = Append(tasks, new) /\ UNCHANGED <<aborted, history, historyBytes>>
      /\ pendingBytes' = pendingBytes + bytes /\ ~(pendingBytes + bytes > BodyLimitBytes)
  BY DEF Accept, Full, remembered
<1>4. /\ new.lane = lane /\ new.stage = "queued" /\ new.bytes = bytes /\ new.previous = previous
      /\ ~new.completed /\ ~new.failed
  OBVIOUS
<1> HIDE DEF new
<1>5. /\ tasks' \in Seq(Task) /\ Ids' = Ids \cup {n} /\ n \notin Ids
      /\ tasks'[n] = new /\ \A u \in Ids : tasks'[u] = tasks[u]
  BY <1>1, <1>2, <1>3 DEF IInv, Types, Ids
<1>6. Parents' /\ HistoryExact'
  BY <1>3, <1>5 DEF HInv, Parents, HistoryExact
<1>7. Marked'
  <2>1. previous # None => previous \in 1 .. n - 1
    BY <1>1
  <2> QED BY <1>4, <1>5, <2>1 DEF HInv, Marked
<1>8. HistoryIsCurrent'
  <2> SUFFICES ASSUME NEW e \in history
               PROVE  /\ tasks'[e.id].lane = e.lane
                      /\ tasks'[e.id].completed /\ ~tasks'[e.id].failed
                      /\ \A u \in Ids' : tasks'[u].lane = e.lane =>
                           /\ u > e.id => ~tasks'[u].completed
                           /\ tasks'[u].previous = e.id => ~tasks'[u].failed
    BY <1>3 DEF HistoryIsCurrent
  <2>1. /\ e.id \in Ids /\ tasks[e.id].lane = e.lane /\ tasks[e.id].completed
        /\ ~tasks[e.id].failed
        /\ \A u \in Ids : tasks[u].lane = e.lane =>
             /\ u > e.id => ~tasks[u].completed
             /\ tasks[u].previous = e.id => ~tasks[u].failed
    BY DEF HInv, Parents, HistoryIsCurrent
  <2> QED BY <1>4, <1>5, <2>1
<1>9. Weighed'
  <2> DEFINE size == [u \in Ids |-> tasks[u].bytes]
             more == [u \in Ids \cup {n} |-> tasks'[u].bytes]
  <2>1. Open' = Open \cup {n} /\ n \notin Open
    BY <1>1, <1>4, <1>5 DEF Open, In, Stages
  <2>2. /\ \A u \in Open : size[u] = more[u]
        /\ \A u \in Open \cup {n} : more[u] \in Nat
        /\ more[n] = bytes /\ bytes \in Nat
    <3>1. ASSUME NEW u \in Ids PROVE tasks[u].bytes \in Nat
      <4>1. tasks[u] \in Task
        BY DEF IInv, Types, Ids
      <4> QED BY <4>1, SessionAssumption DEF Task
    <3>2. bytes \in Nat
      BY SessionAssumption
    <3> QED BY <1>1, <1>4, <1>5, <3>1, <3>2
  <2>3. pendingBytes = Total(size, Open) /\ pendingBytes <= BodyLimitBytes
    BY DEF HInv, Weighed
  <2> HIDE DEF size, more
  <2>4. /\ Total(more, Open \cup {n}) = Total(more, Open) + more[n]
        /\ Total(size, Open) = Total(more, Open)
    BY <1>1, <2>1, <2>2, TotalMore, TotalSame
  <2>5. Total(more, Open) \in Nat
    BY <1>1, <2>2, LedgerFinite
  <2>6. pendingBytes' = Total(more, Open') /\ pendingBytes' <= BodyLimitBytes
    BY <1>3, <2>1, <2>2, <2>3, <2>4, <2>5, SessionAssumption
  <2> QED BY <1>5, <2>6 DEF Weighed, more
<1> QED BY <1>6, <1>7, <1>8, <1>9 DEF HInv

LEMMA HistoryInit == Init => HInv
<1> SUFFICES ASSUME Init PROVE HInv
  OBVIOUS
<1>1. Ids = {} /\ Open = {} /\ history = {} /\ historyBytes = 0 /\ pendingBytes = 0
  BY DEF Init, Ids, Open, In
<1>2. IsFiniteSet({}) /\ Held({}) = 0
  BY FS_EmptySet, TotalEmpty DEF Held
<1>3. Total([t \in Ids |-> tasks[t].bytes], {}) = 0
  BY TotalEmpty
<1>4. Parents /\ Marked /\ HistoryIsCurrent
  BY <1>1, <1>2 DEF Parents, Marked, HistoryIsCurrent
<1>5. HistoryExact
  BY <1>1, <1>2, SessionAssumption DEF HistoryExact
<1>6. Weighed
  BY <1>1, <1>3, SessionAssumption DEF Weighed
<1> QED BY <1>4, <1>5, <1>6 DEF HInv

LEMMA HistoryNext == IInv /\ HInv /\ [Next]_vars => HInv'
<1> SUFFICES ASSUME IInv, HInv, [Next]_vars PROVE HInv'
  OBVIOUS
<1>1. ASSUME UNCHANGED <<tasks, history, historyBytes, aborted, pendingBytes>> PROVE HInv'
  BY <1>1 DEF HInv, Parents, Marked, Weighed, HistoryExact, HistoryIsCurrent, Ids, Open, In
<1>2. ASSUME NEW lane \in Lanes, NEW bytes \in MessageBytes, Refuse(lane, bytes) PROVE HInv'
  BY <1>1, <1>2 DEF Refuse, counters, remembered
<1>3. ASSUME NEW t \in Ids, Run(t) PROVE HInv'
  <2>1. PICK new : StepOf(t, new)
    BY <1>3, RunIsAStep
  <2> QED BY <2>1, StepParents, StepMarked, StepWeighed, StepCurrent DEF HInv
<1>4. CASE Close
  <2>1. /\ UNCHANGED <<tasks, pendingBytes>> /\ history' = {} /\ historyBytes' = 0
    BY <1>4 DEF Close, Abort, counters
  <2>2. IsFiniteSet({}) /\ Held({}) = 0
    BY FS_EmptySet, TotalEmpty DEF Held
  <2>3. Marked' /\ Weighed'
    BY <2>1 DEF HInv, Marked, Weighed, Ids, Open, In
  <2>4. Parents' /\ HistoryIsCurrent'
    BY <2>1, <2>2 DEF Parents, HistoryIsCurrent
  <2>5. HistoryExact'
    BY <2>1, <2>2, SessionAssumption DEF HistoryExact
  <2> QED BY <2>3, <2>4, <2>5 DEF HInv
<1>5. CASE Drain
  BY <1>1, <1>5 DEF Drain, remembered
<1>6. CASE UNCHANGED vars
  BY <1>1, <1>6 DEF vars
<1> QED BY <1>2, <1>3, <1>4, <1>5, <1>6, AcceptHistory DEF Next

(* What a lane can be continued from is its last completed response, and    *)
(* nothing that a request has failed to continue.                           *)
THEOREM HistoryInvariance == Spec => [](IInv /\ HInv)
<1>1. Init => IInv /\ HInv
  BY InvInit, HistoryInit
<1>2. IInv /\ HInv /\ [Next]_vars => (IInv /\ HInv)'
  BY InvNext, HistoryNext
<1> QED BY <1>1, <1>2, PTL DEF Spec

(* Whatever fails, a lane is never continued from a response that was       *)
(* superseded, broken off, or failed to be continued.                       *)
THEOREM HistoryAlwaysCurrent == Spec => []HistoryIsCurrent
<1>1. HInv => HistoryIsCurrent
  BY DEF HInv
<1> QED BY <1>1, HistoryInvariance, PTL

(* The queue's two counters, the drain's and the history's are exact and    *)
(* within their limits.                                                     *)
THEOREM CountersAlwaysExact == Spec => []CountersExact
<1>1. IInv /\ HInv => CountersExact
  BY DEF IInv, HInv, Counted, Weighed, Open, CountersExact, SlotsExact
<1> QED BY <1>1, HistoryInvariance, PTL

(* A failed request takes at most its own lane's response with it: it never *)
(* reaches the parent it was forked from in another lane.                   *)
THEOREM FailuresStayInTheirLanes == Spec => FailureStaysInLane
<1> DEFINE Kept ==
      \A t \in Ids : (~tasks[t].failed /\ tasks'[t].failed /\ ~aborted') =>
        \A e \in history : e.lane # tasks[t].lane => e \in history'
<1>1. IInv /\ [Next]_vars => [Kept]_vars
  <2> SUFFICES ASSUME IInv, Next, NEW t \in Ids, ~tasks[t].failed, tasks'[t].failed, ~aborted',
                      NEW e \in history, e.lane # tasks[t].lane
               PROVE  e \in history'
    OBVIOUS
  <2>1. ASSUME UNCHANGED tasks PROVE FALSE
    BY <2>1
  <2>2. ASSUME NEW lane \in Lanes, NEW bytes \in MessageBytes, NEW previous \in Ids \cup {None},
               NEW conversation \in Conversations \cup {None},
               Accept(lane, bytes, previous, conversation)
        PROVE  e \in history'
    BY <2>2 DEF Accept, remembered
  <2>3. ASSUME NEW u \in Ids, Run(u) PROVE e \in history'
    <3>1. PICK new : StepOf(u, new)
      BY <2>3, RunIsAStep
    <3>2. tasks'[u] = new /\ \A v \in Ids : v # u => tasks'[v] = tasks[v]
      BY <3>1, StepFacts
    <3>3. t = u /\ new.failed # tasks[t].failed
      BY <3>2
    <3>4. Forgets(t) \/ Spares(t)
      BY <3>1, <3>3 DEF StepOf
    <3> QED BY <3>4 DEF Forgets, Forget, Without, Spares
  <2> QED BY <2>1, <2>2, <2>3 DEF Next, Refuse, Close, Drain
<1> QED BY <1>1, SessionInvariance, PTL DEF Spec, FailureStaysInLane
=============================================================================
