-------------------------- MODULE GatewayUpdateProofs --------------------------
(***************************************************************************)
(* Proofs that an update or a rollback, interrupted, failing or killed       *)
(* anywhere, cuts off no request, and that its exit status tells the truth  *)
(* about the service it leaves, for any number of requests and containers.  *)
(***************************************************************************)
EXTENDS GatewayUpdate, FiniteSetTheorems, TLAPS

Phases == {"idle", "build", "drain", "await", "poll", "swap", "up", "created", "stopped",
           "waiting", "verify", "commit", "clear", "restore", "resume", "resuming",
           "ended", "killed"}

Script == [mode : {"update", "restore", "rollback"}, phase : Phases,
           target : Nat \cup {None}, drained : Nat \cup {None},
           rollback : BOOLEAN, backup : BOOLEAN, status : {0, 1, 2}]

Gateway == [image : {"before", "after"},
            state : {"created", "running", "exited", "removed"},
            sound : BOOLEAN, healthy : BOOLEAN, draining : BOOLEAN, active : Int]

Request == [at : Nat \cup {None}, events : SUBSET Events]

ControlCall == [op : {"drain", "resume"}, at : Nat \cup {None}]

Fleet == /\ \E n \in Nat \ {0} : containers \in [1 .. n -> Gateway]
         /\ requests \in [Requests -> Request]
         /\ \A r \in Requests : IF requests[r].at = None THEN requests[r].events = {}
                                 ELSE requests[r].at \in DOMAIN containers

(* A gateway counts the requests under way from its creation until it stops.*)
Counted ==
  \A c \in DOMAIN containers : containers[c].state \in {"created", "running"} =>
    containers[c].active = Cardinality(Ongoing(c))

(* The script replaces what runs only once that is idle: it looks at one     *)
(* gateway, which is all there is, and nothing resumes it any more.          *)
Careful ==
  /\ script.phase \in {"build", "drain", "await", "poll"} => Running \subseteq {script.target}
  /\ script.phase \in {"swap", "up", "created"} => \A c \in Running : Idle(c)
  /\ script.phase \in {"created", "stopped"} => containers[Newest].state = "created"

(* A call to resume is the last thing a run does, and the only one of its   *)
(* kind.                                                                    *)
ResumesLast ==
  \A call \in calls : call.op = "resume" =>
    /\ script.phase \in {"resuming", "ended", "killed"}
    /\ \A other \in calls : other.op = "resume" => other = call

Controls == script \in Script /\ calls \subseteq ControlCall /\ ResumesLast

IInv == Fleet /\ Counted /\ Careful /\ Controls

-----------------------------------------------------------------------------
(* The containers.                                                          *)

LEMMA FleetFacts ==
  ASSUME Fleet
  PROVE  /\ Newest \in Nat \ {0} /\ DOMAIN containers = 1 .. Newest
         /\ containers \in [1 .. Newest -> Gateway]
         /\ IsFiniteSet(Present) /\ Running \subseteq Present
<1>1. PICK n \in Nat \ {0} : containers \in [1 .. n -> Gateway]
  BY DEF Fleet
<1>2. DOMAIN containers = 1 .. n
  BY <1>1
<1>3. IsFiniteSet(1 .. n) /\ Cardinality(1 .. n) = n
  BY FS_Interval
<1>4. Newest = n
  BY <1>2, <1>3 DEF Newest
<1>5. IsFiniteSet(Present)
  BY <1>2, <1>3, FS_Subset DEF Present
<1> QED BY <1>1, <1>2, <1>4, <1>5 DEF Running

LEMMA OngoingFinite == \A c : IsFiniteSet(Ongoing(c)) /\ Ongoing(c) \subseteq Requests
<1> TAKE c
<1>1. Ongoing(c) \subseteq Requests
  BY DEF Ongoing
<1> QED BY <1>1, UpdateAssumption, FS_Subset

(* A gateway that is idle has no request under way.                         *)
LEMMA IdleHasNone ==
  ASSUME Counted, NEW c \in Running, Idle(c)
  PROVE  Ongoing(c) = {}
<1>1. c \in DOMAIN containers /\ containers[c].state = "running"
  BY DEF Running, Present
<1>2. Cardinality(Ongoing(c)) = 0
  BY <1>1 DEF Counted, Idle
<1> QED BY <1>2, OngoingFinite, FS_EmptySet

-----------------------------------------------------------------------------
(* The gateway's steps.                                                     *)

LEMMA EnterKeeps ==
  ASSUME IInv, NEW r \in Requests, Enter(r)
  PROVE  IInv' /\ Running' = Running
<1>1. PICK c \in Running :
        /\ ~containers[c].draining /\ requests[r].at = None
        /\ requests' = [requests EXCEPT ![r].at = c]
        /\ containers' = [containers EXCEPT ![c].active = @ + 1]
  BY DEF Enter
<1>2. UNCHANGED <<script, calls>>
  BY DEF Enter
<1>3. /\ containers \in [1 .. Newest -> Gateway] /\ Newest \in Nat \ {0}
      /\ c \in 1 .. Newest /\ containers[c].state = "running"
      /\ requests \in [Requests -> Request] /\ None \notin Nat
  BY FleetFacts, UpdateAssumption DEF IInv, Fleet, Running, Present
<1>4. /\ containers' \in [1 .. Newest -> Gateway] /\ DOMAIN containers' = DOMAIN containers
      /\ containers'[c].active = containers[c].active + 1
      /\ \A d \in DOMAIN containers :
           /\ containers'[d].state = containers[d].state
           /\ containers'[d].draining = containers[d].draining
           /\ d # c => containers'[d] = containers[d]
  BY <1>1, <1>3 DEF Gateway
<1>5. /\ requests' \in [Requests -> Request]
      /\ requests'[r].at = c /\ requests'[r].events = requests[r].events
      /\ \A q \in Requests \ {r} : requests'[q] = requests[q]
  BY <1>1, <1>3 DEF Request
<1>6. requests[r].events = {} /\ requests'[r].events = {} /\ c # None
  BY <1>1, <1>3, <1>5 DEF IInv, Fleet
<1>7. Fleet'
  <2>1. \E n \in Nat \ {0} : containers' \in [1 .. n -> Gateway]
    BY <1>3, <1>4
  <2>2. ASSUME NEW q \in Requests
        PROVE  IF requests'[q].at = None THEN requests'[q].events = {}
               ELSE requests'[q].at \in DOMAIN containers'
    BY <1>3, <1>4, <1>5, <1>6 DEF IInv, Fleet
  <2> QED BY <1>5, <2>1, <2>2 DEF Fleet
<1>8. Ongoing(c)' = Ongoing(c) \cup {r} /\ r \notin Ongoing(c)
  BY <1>1, <1>5, <1>6 DEF Ongoing
<1>9. \A d : d # c /\ d # None => Ongoing(d)' = Ongoing(d)
  BY <1>1, <1>5 DEF Ongoing
<1>10. Counted'
  <2>1. Cardinality(Ongoing(c) \cup {r}) = Cardinality(Ongoing(c)) + 1
    BY <1>8, OngoingFinite, FS_AddElement
  <2>2. containers'[c].active = Cardinality(Ongoing(c)')
    BY <1>3, <1>4, <1>8, <2>1 DEF IInv, Counted
  <2>3. \A d \in DOMAIN containers : d # None
    BY <1>3
  <2>4. ASSUME NEW d \in DOMAIN containers, d # c,
               containers'[d].state \in {"created", "running"}
        PROVE  containers'[d].active = Cardinality(Ongoing(d)')
    BY <1>4, <1>9, <2>3, <2>4 DEF IInv, Counted
  <2> QED BY <1>4, <2>2, <2>4 DEF Counted
<1>11. Running' = Running /\ Newest' = Newest
  BY <1>4 DEF Running, Present, Newest
<1>12. Careful'
  <2>1. \A d \in Running : Idle(d) => d # c
    BY <1>1 DEF Idle
  <2>2. \A d \in Running : Idle(d) => Idle(d)'
    BY <1>4, <2>1 DEF Idle, Running, Present
  <2>3. containers'[Newest].state = containers[Newest].state
    BY <1>3, <1>4
  <2> QED BY <1>2, <1>11, <2>2, <2>3 DEF IInv, Careful
<1>13. Controls'
  BY <1>2 DEF IInv, Controls, ResumesLast
<1> QED BY <1>7, <1>10, <1>11, <1>12, <1>13 DEF IInv

LEMMA DoneKeeps ==
  ASSUME IInv, NEW r \in Requests, NEW event \in Events, Done(r, event)
  PROVE  IInv' /\ Running' = Running
<1> DEFINE c == requests[r].at
           new == [requests[r] EXCEPT !.events = @ \cup {event}]
<1>1. /\ c \in Running /\ UNCHANGED <<script, calls>>
      /\ requests' = [requests EXCEPT ![r] = new]
      /\ containers' = IF Released(requests[r]) THEN containers
                       ELSE [containers EXCEPT ![c].active = @ - 1]
  BY DEF Done
<1>2. /\ containers \in [1 .. Newest -> Gateway] /\ Newest \in Nat \ {0}
      /\ c \in 1 .. Newest /\ containers[c].state = "running"
      /\ requests \in [Requests -> Request] /\ None \notin Nat
  BY <1>1, FleetFacts, UpdateAssumption DEF IInv, Fleet, Running, Present
<1>3. new \in Request /\ new.at = c /\ new.events # {}
  BY <1>2 DEF Request
<1> HIDE DEF new
<1>4. /\ requests' \in [Requests -> Request] /\ requests'[r] = new
      /\ \A q \in Requests \ {r} : requests'[q] = requests[q]
  BY <1>1, <1>2, <1>3
<1>5. PICK k \in 1 .. Newest : k = c
  BY <1>2
<1> HIDE DEF c
<1>6. /\ containers' \in [1 .. Newest -> Gateway] /\ DOMAIN containers' = DOMAIN containers
      /\ containers'[k].active = IF Released(requests[r]) THEN containers[k].active
                                 ELSE containers[k].active - 1
      /\ \A d \in DOMAIN containers :
           /\ containers'[d].state = containers[d].state
           /\ containers'[d].draining = containers[d].draining
           /\ d # k => containers'[d] = containers[d]
  <2>1. containers' = IF Released(requests[r]) THEN containers
                      ELSE [containers EXCEPT ![k].active = @ - 1]
    BY <1>1, <1>5
  <2> DEFINE less == [containers[k] EXCEPT !.active = @ - 1]
  <2>2. CASE Released(requests[r])
    BY <1>2, <2>1, <2>2
  <2>3. CASE ~Released(requests[r])
    <3>1. /\ less \in Gateway /\ less.active = containers[k].active - 1
          /\ less.state = containers[k].state /\ less.draining = containers[k].draining
      BY <1>2 DEF Gateway
    <3>2. containers' = [containers EXCEPT ![k] = less]
      BY <2>1, <2>3
    <3> HIDE DEF less
    <3> QED BY <1>2, <2>3, <3>1, <3>2
  <2> QED BY <2>2, <2>3
<1>7. Fleet'
  <2>1. \E n \in Nat \ {0} : containers' \in [1 .. n -> Gateway]
    BY <1>2, <1>6
  <2>2. ASSUME NEW q \in Requests
        PROVE  IF requests'[q].at = None THEN requests'[q].events = {}
               ELSE requests'[q].at \in DOMAIN containers'
    BY <1>2, <1>3, <1>4, <1>5, <1>6 DEF IInv, Fleet
  <2> QED BY <1>4, <2>1, <2>2 DEF Fleet
<1>8. Ongoing(k)' = Ongoing(k) \ {r} /\ (r \in Ongoing(k) <=> ~Released(requests[r]))
  BY <1>3, <1>4, <1>5 DEF Ongoing, Released, c
<1>9. \A d : d # k => Ongoing(d)' = Ongoing(d)
  BY <1>3, <1>4, <1>5 DEF Ongoing, c
<1>10. Counted'
  <2>1. containers'[k].active = Cardinality(Ongoing(k)')
    <3>1. containers[k].active = Cardinality(Ongoing(k))
      BY <1>2, <1>5 DEF IInv, Counted
    <3>2. CASE Released(requests[r])
      <4>1. Ongoing(k)' = Ongoing(k)
        BY <1>8, <3>2
      <4> QED BY <1>6, <3>1, <3>2, <4>1
    <3>3. CASE ~Released(requests[r])
      <4>1. Cardinality(Ongoing(k) \ {r}) = Cardinality(Ongoing(k)) - 1
        BY <1>8, <3>3, OngoingFinite, FS_RemoveElement
      <4> QED BY <1>6, <1>8, <3>1, <3>3, <4>1
    <3> QED BY <3>2, <3>3
  <2>2. ASSUME NEW d \in DOMAIN containers, d # k,
               containers'[d].state \in {"created", "running"}
        PROVE  containers'[d].active = Cardinality(Ongoing(d)')
    BY <1>6, <1>9, <2>2 DEF IInv, Counted
  <2> QED BY <1>6, <2>1, <2>2 DEF Counted
<1>11. Running' = Running /\ Newest' = Newest
  BY <1>6 DEF Running, Present, Newest
<1>12. Careful'
  <2>1. \A d \in Running : Idle(d) => d # k \/ Released(requests[r])
    <3>1. \A d \in Running : Idle(d) => Ongoing(d) = {}
      BY IdleHasNone DEF IInv
    <3> QED BY <1>8, <3>1
  <2>2. \A d \in Running : Idle(d) => Idle(d)'
    BY <1>6, <2>1 DEF Idle, Running, Present
  <2>3. containers'[Newest].state = containers[Newest].state
    BY <1>2, <1>6
  <2> QED BY <1>1, <1>11, <2>2, <2>3 DEF IInv, Careful
<1>13. Controls'
  BY <1>1 DEF IInv, Controls, ResumesLast
<1> QED BY <1>7, <1>10, <1>11, <1>12, <1>13 DEF IInv

(* A step that leaves what runs, what is counted and what is drained.       *)
LEMMA StandingKeeps ==
  ASSUME IInv, NEW c \in DOMAIN containers, NEW new \in Gateway,
         containers' = [containers EXCEPT ![c] = new],
         new.state \in {containers[c].state, "exited"},
         new.active = containers[c].active,
         c \in Running,
         containers[c].draining /\ script.phase \in {"swap", "up", "created"} => new.draining,
         UNCHANGED requests
  PROVE  /\ Fleet' /\ Counted' /\ Newest' = Newest
         /\ Running' \subseteq Running
         /\ new.state = containers[c].state => Running' = Running
         /\ script.phase \in {"swap", "up", "created"} => \A d \in Running' : Idle(d)'
         /\ script.phase \in {"created", "stopped"} => containers'[Newest].state = "created"
<1>1. /\ containers \in [1 .. Newest -> Gateway] /\ Newest \in Nat \ {0}
      /\ c \in 1 .. Newest /\ containers[c].state = "running"
  BY FleetFacts DEF IInv, Running, Present
<1>2. /\ containers' \in [1 .. Newest -> Gateway] /\ DOMAIN containers' = DOMAIN containers
      /\ containers'[c] = new
      /\ \A d \in DOMAIN containers : d # c => containers'[d] = containers[d]
  BY <1>1
<1>3. Fleet'
  <2>1. \E n \in Nat \ {0} : containers' \in [1 .. n -> Gateway]
    BY <1>1, <1>2
  <2> QED BY <1>2, <2>1 DEF IInv, Fleet
<1>4. \A d : Ongoing(d)' = Ongoing(d)
  BY DEF Ongoing
<1>5. Counted'
  BY <1>1, <1>2, <1>4 DEF IInv, Counted
<1>6. Newest' = Newest /\ Running' \subseteq Running
  BY <1>1, <1>2 DEF Newest, Running, Present
<1>7. new.state = containers[c].state => Running' = Running
  BY <1>1, <1>2 DEF Running, Present
<1>8. script.phase \in {"swap", "up", "created"} => \A d \in Running' : Idle(d)'
  <2> SUFFICES ASSUME script.phase \in {"swap", "up", "created"}, NEW d \in Running'
               PROVE  Idle(d)'
    OBVIOUS
  <2>1. d \in Running /\ Idle(d) /\ d \in DOMAIN containers
    BY <1>6 DEF IInv, Careful, Running, Present
  <2> QED BY <1>2, <2>1 DEF Idle
<1>9. script.phase \in {"created", "stopped"} => containers'[Newest].state = "created"
  <2> SUFFICES ASSUME script.phase \in {"created", "stopped"}
               PROVE  containers'[Newest].state = "created"
    OBVIOUS
  <2>1. containers[Newest].state = "created" /\ Newest \in DOMAIN containers
    BY <1>1 DEF IInv, Careful
  <2> QED BY <1>1, <1>2, <2>1
<1> QED BY <1>3, <1>5, <1>6, <1>7, <1>8, <1>9

LEMMA ProbeKeeps ==
  ASSUME IInv, NEW c \in DOMAIN containers, Probe(c)
  PROVE  IInv' /\ Running' = Running
<1> DEFINE new == [containers[c] EXCEPT !.healthy = containers[c].sound /\ ~containers[c].draining]
<1>1. /\ c \in Running /\ containers' = [containers EXCEPT ![c] = new]
      /\ UNCHANGED <<requests, script, calls>> /\ containers[c] \in Gateway
  BY FleetFacts DEF Probe, IInv
<1>2. /\ new \in Gateway /\ new.state = containers[c].state
      /\ new.active = containers[c].active /\ new.draining = containers[c].draining
  BY <1>1 DEF Gateway
<1> HIDE DEF new
<1>3. /\ Fleet' /\ Counted' /\ Newest' = Newest /\ Running' = Running
      /\ script.phase \in {"swap", "up", "created"} => \A d \in Running' : Idle(d)'
      /\ script.phase \in {"created", "stopped"} => containers'[Newest].state = "created"
  BY <1>1, <1>2, StandingKeeps
<1>4. Careful'
  BY <1>1, <1>3 DEF IInv, Careful
<1>5. Controls'
  BY <1>1 DEF IInv, Controls, ResumesLast
<1> QED BY <1>3, <1>4, <1>5 DEF IInv

LEMMA CrashKeeps ==
  ASSUME IInv, NEW c \in DOMAIN containers, Crash(c)
  PROVE  /\ IInv'
         /\ \A d \in Running : containers[d].sound => d \in Running'
<1> DEFINE new == [containers[c] EXCEPT !.state = "exited", !.healthy = FALSE]
<1>1. /\ c \in Running /\ containers' = [containers EXCEPT ![c] = new]
      /\ UNCHANGED <<requests, script>> /\ containers[c] \in Gateway /\ calls' \subseteq calls
      /\ ~containers[c].sound
  BY FleetFacts DEF Crash, IInv
<1>2. /\ new \in Gateway /\ new.state = "exited"
      /\ new.active = containers[c].active /\ new.draining = containers[c].draining
  BY <1>1 DEF Gateway
<1> HIDE DEF new
<1>3. /\ Fleet' /\ Counted' /\ Newest' = Newest /\ Running' \subseteq Running
      /\ script.phase \in {"swap", "up", "created"} => \A d \in Running' : Idle(d)'
      /\ script.phase \in {"created", "stopped"} => containers'[Newest].state = "created"
  BY <1>1, <1>2, StandingKeeps
<1>4. Careful'
  BY <1>1, <1>3 DEF IInv, Careful
<1>5. Controls'
  BY <1>1 DEF IInv, Controls, ResumesLast
<1>6. \A d \in Running : containers[d].sound => d \in Running'
  BY <1>1 DEF Running, Present
<1> QED BY <1>3, <1>4, <1>5, <1>6 DEF IInv

LEMMA ServeKeeps ==
  ASSUME IInv, NEW call \in calls, Serve(call)
  PROVE  IInv' /\ Running' = Running
<1> DEFINE c == call.at
           new == [containers[c] EXCEPT !.draining = call.op = "drain"]
<1>1. /\ c \in Running /\ containers' = [containers EXCEPT ![c] = new]
      /\ UNCHANGED requests /\ containers[c] \in Gateway /\ calls' = calls \ {call}
      /\ IF Awaited(call) THEN Goto(Replied(call)) ELSE UNCHANGED script
      /\ c \in DOMAIN containers
  BY FleetFacts DEF Serve, IInv, Running, Present
<1>2. /\ new \in Gateway /\ new.state = containers[c].state
      /\ new.active = containers[c].active /\ new.draining = (call.op = "drain")
  BY <1>1 DEF Gateway
<1>3. call.op \in {"drain", "resume"}
  BY DEF IInv, Controls, ControlCall
<1>4. script.phase \in {"swap", "up", "created"} => new.draining
  BY <1>2, <1>3 DEF IInv, Controls, ResumesLast
<1>5. /\ Fleet' /\ Counted' /\ Newest' = Newest /\ Running' = Running
      /\ script.phase \in {"swap", "up", "created"} => \A d \in Running' : Idle(d)'
      /\ script.phase \in {"created", "stopped"} => containers'[Newest].state = "created"
  <2> HIDE DEF new, c
  <2> QED BY <1>1, <1>2, <1>4, StandingKeeps
<1>6. CASE ~Awaited(call)
  <2>1. UNCHANGED script
    BY <1>1, <1>6
  <2>2. Careful'
    BY <1>5, <2>1 DEF IInv, Careful
  <2>3. Controls'
    BY <1>1, <2>1 DEF IInv, Controls, ResumesLast
  <2> QED BY <1>5, <2>2, <2>3 DEF IInv
<1>7. CASE Awaited(call) /\ call.op = "resume"
  <2>1. script' = [script EXCEPT !.phase = "ended"]
    BY <1>1, <1>7 DEF Goto, Replied
  <2>2. script' \in Script /\ script'.phase = "ended"
    BY <2>1 DEF IInv, Controls, Script, Phases
  <2>3. Controls'
    BY <1>1, <1>7, <2>2 DEF IInv, Controls, ResumesLast
  <2>4. Careful'
    BY <2>2 DEF Careful
  <2> QED BY <1>5, <2>3, <2>4 DEF IInv
<1>8. CASE Awaited(call) /\ call.op = "drain"
  <2>1. /\ script.phase = "await" /\ c = script.target
        /\ script' = [script EXCEPT !.phase = IF containers[c].active = 0 THEN "swap" ELSE "poll"]
    BY <1>1, <1>8 DEF Awaited, Goto, Replied
  <2>2. /\ script' \in Script /\ script'.target = script.target
        /\ script'.phase = IF containers[c].active = 0 THEN "swap" ELSE "poll"
    BY <2>1 DEF IInv, Controls, Script, Phases
  <2>3. \A other \in calls : other.op = "drain"
    BY <2>1 DEF IInv, Controls, ResumesLast, ControlCall
  <2>4. Controls'
    BY <1>1, <2>2, <2>3 DEF IInv, Controls, ResumesLast
  <2>5. Running \subseteq {c}
    BY <2>1 DEF IInv, Careful
  <2>6. containers[c].active = 0 => Idle(c)'
    BY <1>1, <1>2, <1>8 DEF Idle
  <2>7. Careful'
    BY <1>5, <2>1, <2>2, <2>5, <2>6 DEF Careful
  <2> QED BY <1>5, <2>4, <2>7 DEF IInv
<1> QED BY <1>3, <1>5, <1>6, <1>7, <1>8

-----------------------------------------------------------------------------
(* Compose's steps.                                                         *)

LEMMA CreateKeeps ==
  ASSUME IInv, Create
  PROVE  IInv' /\ Running' = Running
<1>1. PICK sound \in BOOLEAN, image \in {"before", "after"} :
        containers' = [c \in 1 .. Newest + 1 |->
          IF c \in DOMAIN containers THEN containers[c] ELSE Container(image, "created", sound)]
  BY DEF Create
<1>2. /\ script.phase = "up" /\ script' = [script EXCEPT !.phase = "created"]
      /\ UNCHANGED <<requests, calls>>
  BY DEF Create, Goto
<1> DEFINE new == Container(image, "created", sound)
<1>3. /\ Newest \in Nat \ {0} /\ DOMAIN containers = 1 .. Newest
      /\ containers \in [1 .. Newest -> Gateway]
      /\ new \in Gateway /\ new.state = "created" /\ new.active = 0
  BY FleetFacts DEF IInv, Container, Gateway
<1> HIDE DEF new
<1> PICK n \in Nat \ {0} : n = Newest + 1
  BY <1>3
<1>4. /\ DOMAIN containers' = 1 .. n /\ containers' \in [1 .. n -> Gateway]
      /\ containers'[n] = new /\ \A c \in 1 .. Newest : containers'[c] = containers[c]
      /\ n \in Nat \ {0}
  BY <1>1, <1>3 DEF new
<1>5. Newest' = n
  <2>1. Cardinality(1 .. n) = n
    BY <1>4, FS_Interval
  <2> QED BY <1>4, <2>1 DEF Newest
<1>6. DOMAIN containers' = DOMAIN containers \cup {n} /\ n \notin DOMAIN containers
  BY <1>3, <1>4
<1>7. Fleet'
  <2>1. \E m \in Nat \ {0} : containers' \in [1 .. m -> Gateway]
    BY <1>4
  <2> QED BY <1>2, <1>6, <2>1 DEF IInv, Fleet
<1>8. Ongoing(n)' = {} /\ \A c : Ongoing(c)' = Ongoing(c)
  <2>1. \A r \in Requests : requests[r].at # n
    BY <1>4, <1>6, UpdateAssumption DEF IInv, Fleet
  <2> QED BY <1>2, <2>1 DEF Ongoing
<1>9. Counted'
  <2>1. containers'[n].active = Cardinality(Ongoing(n)')
    BY <1>3, <1>4, <1>8, FS_EmptySet
  <2>2. ASSUME NEW c \in DOMAIN containers, containers'[c].state \in {"created", "running"}
        PROVE  containers'[c].active = Cardinality(Ongoing(c)')
    BY <1>3, <1>4, <1>8, <2>2 DEF IInv, Counted
  <2> QED BY <1>6, <2>1, <2>2 DEF Counted
<1>10. Running' = Running
  BY <1>3, <1>4, <1>6 DEF Running, Present
<1>11. script' \in Script /\ script'.phase = "created"
  BY <1>2 DEF IInv, Controls, Script, Phases
<1>12. Careful'
  <2>1. ASSUME NEW c \in Running PROVE Idle(c)'
    <3>1. c \in DOMAIN containers /\ Idle(c)
      BY <1>2 DEF IInv, Careful, Running, Present
    <3> QED BY <1>3, <1>4, <3>1 DEF Idle
  <2>2. containers'[Newest'].state = "created"
    BY <1>3, <1>4, <1>5
  <2> QED BY <1>10, <1>11, <2>1, <2>2 DEF Careful
<1>13. Controls'
  BY <1>2, <1>11 DEF IInv, Controls, ResumesLast
<1> QED BY <1>7, <1>9, <1>10, <1>12, <1>13 DEF IInv

(* Compose stops what runs, and all of that is idle.                        *)
LEMMA StopKeeps ==
  ASSUME IInv, Stop
  PROVE  IInv' /\ \A c \in Running : Ongoing(c) = {}
<1>1. /\ script.phase = "created" /\ script' = [script EXCEPT !.phase = "stopped"]
      /\ calls' = {} /\ UNCHANGED requests
      /\ containers' = [c \in DOMAIN containers |-> IF c = Newest THEN containers[c] ELSE Gone(c)]
  BY DEF Stop, Goto
<1>2. /\ Newest \in Nat \ {0} /\ DOMAIN containers = 1 .. Newest
      /\ containers \in [1 .. Newest -> Gateway]
  BY FleetFacts DEF IInv
<1>3. \A c \in DOMAIN containers :
        Gone(c) \in Gateway /\ Gone(c).state = "removed"
  BY <1>2, ZenonT(60) DEF Gone, Gateway
<1>4. /\ DOMAIN containers' = DOMAIN containers /\ containers' \in [1 .. Newest -> Gateway]
      /\ containers'[Newest] = containers[Newest]
      /\ \A c \in DOMAIN containers : c # Newest => containers'[c].state = "removed"
  BY <1>1, <1>2, <1>3
<1>5. Newest' = Newest
  BY <1>4 DEF Newest
<1>6. Fleet'
  <2>1. \E m \in Nat \ {0} : containers' \in [1 .. m -> Gateway]
    BY <1>2, <1>4
  <2> QED BY <1>1, <1>4, <2>1 DEF IInv, Fleet
<1>7. \A c : Ongoing(c)' = Ongoing(c)
  BY <1>1 DEF Ongoing
<1>8. Counted'
  BY <1>4, <1>7 DEF IInv, Counted
<1>9. script' \in Script /\ script'.phase = "stopped"
  BY <1>1 DEF IInv, Controls, Script, Phases
<1>10. Careful'
  BY <1>1, <1>4, <1>5, <1>9 DEF IInv, Careful
<1>11. Controls'
  BY <1>1, <1>9 DEF Controls, ResumesLast
<1>12. \A c \in Running : Ongoing(c) = {}
  BY <1>1, IdleHasNone DEF IInv, Careful
<1> QED BY <1>6, <1>8, <1>10, <1>11, <1>12 DEF IInv

LEMMA StartNewKeeps ==
  ASSUME IInv, StartNew
  PROVE  IInv' /\ Running \subseteq Running'
<1> DEFINE new == [containers[Newest] EXCEPT !.state = "running"]
<1>1. /\ script.phase = "stopped" /\ script' = [script EXCEPT !.phase = "waiting"]
      /\ UNCHANGED <<requests, calls>>
      /\ containers' = [containers EXCEPT ![Newest] = new]
  BY DEF StartNew, Goto
<1>2. /\ Newest \in Nat \ {0} /\ DOMAIN containers = 1 .. Newest
      /\ containers \in [1 .. Newest -> Gateway] /\ containers[Newest].state = "created"
      /\ Newest \in DOMAIN containers
  BY <1>1, FleetFacts DEF IInv, Careful
<1>3. new \in Gateway /\ new.state = "running" /\ new.active = containers[Newest].active
  BY <1>2 DEF Gateway
<1> HIDE DEF new
<1>4. /\ DOMAIN containers' = DOMAIN containers /\ containers' \in [1 .. Newest -> Gateway]
      /\ containers'[Newest] = new
      /\ \A c \in DOMAIN containers : c # Newest => containers'[c] = containers[c]
  BY <1>1, <1>2, <1>3
<1>5. Fleet'
  <2>1. \E m \in Nat \ {0} : containers' \in [1 .. m -> Gateway]
    BY <1>2, <1>4
  <2> QED BY <1>1, <1>4, <2>1 DEF IInv, Fleet
<1>6. \A c : Ongoing(c)' = Ongoing(c)
  BY <1>1 DEF Ongoing
<1>7. Counted'
  BY <1>2, <1>3, <1>4, <1>6 DEF IInv, Counted
<1>8. script' \in Script /\ script'.phase = "waiting"
  BY <1>1 DEF IInv, Controls, Script, Phases
<1>9. Careful'
  BY <1>8 DEF Careful
<1>10. Controls'
  BY <1>1, <1>8 DEF IInv, Controls, ResumesLast
<1>11. Running \subseteq Running'
  BY <1>2, <1>3, <1>4 DEF Running, Present
<1> QED BY <1>5, <1>7, <1>9, <1>10, <1>11 DEF IInv

-----------------------------------------------------------------------------
(* The script's own steps.                                                  *)

LEMMA Standing ==
  ASSUME IInv, UNCHANGED <<containers, requests>>
  PROVE  Fleet' /\ Counted' /\ Running' = Running /\ Newest' = Newest
         /\ \A c : Idle(c)' = Idle(c)
<1>1. Fleet'
  BY DEF IInv, Fleet
<1>2. \A c : Ongoing(c)' = Ongoing(c) /\ Idle(c)' = Idle(c)
  BY DEF Ongoing, Idle
<1>3. Running' = Running /\ Newest' = Newest
  BY DEF Running, Present, Newest
<1>4. Counted'
  BY <1>2 DEF IInv, Counted
<1> QED BY <1>1, <1>2, <1>3, <1>4

(* A failure or an interrupt leads the script to the restore or the end.    *)
LEMMA Leads ==
  ASSUME NEW s \in Script, NEW status \in {0, 1, 2}
  PROVE  /\ Exit(s, status) \in Script /\ Exit(s, status).phase \in {"restore", "resume"}
         /\ Failed(s) \in Script /\ Failed(s).phase \in {"restore", "resume"}
<1>1. ASSUME NEW st \in {0, 1, 2}
      PROVE  Exit(s, st) \in Script /\ Exit(s, st).phase \in {"restore", "resume"}
  <2> DEFINE e(mode, phase) == [s EXCEPT !.status = st, !.mode = mode, !.phase = phase]
  <2>1. \A mode \in {"update", "restore", "rollback"} : \A phase \in {"restore", "resume"} :
          e(mode, phase) \in Script /\ e(mode, phase).phase = phase
    BY DEF Script, Phases
  <2>2. s.mode \in {"update", "restore", "rollback"}
    BY DEF Script
  <2>3. Exit(s, st) = e(IF s.rollback THEN "restore" ELSE s.mode,
                        IF s.rollback THEN "restore" ELSE "resume")
    BY DEF Exit
  <2> HIDE DEF e
  <2> QED BY <2>1, <2>2, <2>3
<1>2. [s EXCEPT !.status = 2, !.phase = "resume"] \in Script
      /\ [s EXCEPT !.status = 2, !.phase = "resume"].phase = "resume"
  BY DEF Script, Phases
<1>3. Exit(s, status) \in Script /\ Exit(s, status).phase \in {"restore", "resume"}
  BY <1>1
<1>4. Exit(s, 1) \in Script /\ Exit(s, 1).phase \in {"restore", "resume"}
  <2>1. 1 \in {0, 1, 2}
    OBVIOUS
  <2> QED BY <1>1, <2>1
<1>5. Failed(s) = Exit(s, 1) \/ Failed(s) = [s EXCEPT !.status = 2, !.phase = "resume"]
  BY DEF Failed
<1> QED BY <1>2, <1>3, <1>4, <1>5

(* The phases in which the script may find anything.                        *)
LEMMA EasyStep ==
  ASSUME IInv, UNCHANGED <<containers, requests>>, script' \in Script,
         script'.phase \notin {"build", "drain", "await", "poll", "swap", "up", "created",
                               "stopped"},
         calls' \subseteq calls, ResumesLast'
  PROVE  IInv' /\ Running' = Running
<1>1. Careful'
  BY DEF Careful
<1>2. Controls'
  BY DEF IInv, Controls
<1> QED BY <1>1, <1>2, Standing DEF IInv

LEMMA FailKeeps ==
  ASSUME IInv, UNCHANGED <<containers, requests>>, Fail, calls' \subseteq calls,
         script.phase \notin {"resuming", "ended", "killed"}
  PROVE  IInv' /\ Running' = Running
<1>1. script' \in Script /\ script'.phase \in {"restore", "resume"}
  BY Leads DEF Fail, IInv, Controls
<1>2. ResumesLast'
  BY DEF IInv, Controls, ResumesLast
<1> QED BY <1>1, <1>2, EasyStep

(* The script goes on to another phase and changes nothing else.            *)
LEMMA GoneTo ==
  ASSUME IInv, NEW phase \in Phases, Goto(phase)
  PROVE  /\ script' \in Script /\ script'.phase = phase /\ script'.mode = script.mode
         /\ script'.target = script.target /\ script'.drained = script.drained
         /\ script'.rollback = script.rollback
<1>1. script \in Script
  BY DEF IInv, Controls
<1> QED BY <1>1 DEF Goto, Script

LEMMA SteadyResumes ==
  ASSUME IInv, calls' \subseteq calls, script.phase \notin {"resuming", "ended", "killed"}
  PROVE  ResumesLast' /\ calls' \subseteq ControlCall
BY DEF IInv, Controls, ResumesLast

LEMMA StartKeeps ==
  ASSUME IInv, Start
  PROVE  IInv' /\ Running' = Running
<1>1. PICK c \in Running :
        /\ script.phase = "idle" /\ Present = {c}
        /\ script' = [script EXCEPT !.phase = "build", !.target = c, !.backup = TRUE]
        /\ UNCHANGED <<containers, requests, calls>>
  BY DEF Start
<1>2. c \in Nat
  BY FleetFacts DEF IInv, Running, Present
<1>3. script' \in Script /\ script'.phase = "build" /\ script'.target = c
  BY <1>1, <1>2 DEF IInv, Controls, Script, Phases
<1>4. Running \subseteq {c}
  BY <1>1 DEF Running
<1>5. Controls'
  BY <1>1, <1>3, SteadyResumes DEF Controls
<1>6. Fleet' /\ Counted' /\ Running' = Running
  BY <1>1, Standing
<1>7. Careful'
  BY <1>3, <1>4, <1>6 DEF Careful
<1> QED BY <1>5, <1>6, <1>7 DEF IInv

LEMMA BuildKeeps ==
  ASSUME IInv, Build
  PROVE  IInv' /\ Running' = Running
<1>1. script.phase = "build" /\ UNCHANGED <<containers, requests, calls>>
  BY DEF Build
<1>2. CASE Fail
  BY <1>1, <1>2, FailKeeps
<1>3. CASE Goto("drain")
  <2>1. "drain" \in Phases
    BY DEF Phases
  <2>2. script' \in Script /\ script'.phase = "drain" /\ script'.target = script.target
    BY <1>3, <2>1, GoneTo
  <2>3. Careful'
    BY <1>1, <2>2, Standing DEF IInv, Careful
  <2>4. Controls'
    BY <1>1, <2>2, SteadyResumes DEF Controls
  <2> QED BY <1>1, <2>3, <2>4, Standing DEF IInv
<1> QED BY <1>2, <1>3 DEF Build

LEMMA DrainKeeps ==
  ASSUME IInv, Drain
  PROVE  IInv' /\ Running' = Running
<1>1. /\ script.phase = "drain" /\ UNCHANGED <<containers, requests>>
      /\ calls' = calls \cup {[op |-> "drain", at |-> script.target]}
      /\ script' = [script EXCEPT !.phase = "await", !.drained = script.target]
  BY DEF Drain, Call
<1>2. script' \in Script /\ script'.phase = "await" /\ script'.target = script.target
  BY <1>1 DEF IInv, Controls, Script, Phases
<1>3. [op |-> "drain", at |-> script.target] \in ControlCall
  BY DEF IInv, Controls, Script, ControlCall
<1>4. \A call \in calls' : call.op # "resume"
  BY <1>1 DEF IInv, Controls, ResumesLast
<1>5. Controls'
  BY <1>1, <1>2, <1>3, <1>4 DEF IInv, Controls, ResumesLast
<1>6. Careful'
  BY <1>1, <1>2, Standing DEF IInv, Careful
<1> QED BY <1>1, <1>5, <1>6, Standing DEF IInv

LEMMA LoseKeeps ==
  ASSUME IInv, Lose
  PROVE  IInv' /\ Running' = Running
<1>1. UNCHANGED <<containers, requests>> /\ calls' \subseteq calls
  BY DEF Lose
<1>2. CASE script.phase = "await" /\ Fail
  BY <1>1, <1>2, FailKeeps
<1>3. CASE script.phase = "resuming" /\ script' = [script EXCEPT !.phase = "ended", !.status = 2]
  <2>1. script' \in Script /\ script'.phase = "ended"
    BY <1>3 DEF IInv, Controls, Script, Phases
  <2>2. ResumesLast'
    BY <1>1, <1>3, <2>1 DEF IInv, Controls, ResumesLast
  <2> QED BY <1>1, <2>1, <2>2, EasyStep
<1> QED BY <1>2, <1>3 DEF Lose

LEMMA PollKeeps ==
  ASSUME IInv, Poll
  PROVE  IInv' /\ Running' = Running
<1>1. script.phase = "poll" /\ UNCHANGED <<containers, requests, calls>>
  BY DEF Poll
<1>2. CASE Fail
  BY <1>1, <1>2, FailKeeps
<1>3. CASE script.target \in Running /\ Idle(script.target) /\ Goto("swap")
  <2>1. "swap" \in Phases
    BY DEF Phases
  <2>2. script' \in Script /\ script'.phase = "swap"
    BY <1>3, <2>1, GoneTo
  <2>3. \A c \in Running : Idle(c)
    BY <1>1, <1>3 DEF IInv, Careful
  <2>4. Careful'
    BY <1>1, <2>2, <2>3, Standing DEF Careful
  <2>5. Controls'
    BY <1>1, <2>2, SteadyResumes DEF Controls
  <2> QED BY <1>1, <2>4, <2>5, Standing DEF IInv
<1> QED BY <1>2, <1>3 DEF Poll

LEMMA SwapKeeps ==
  ASSUME IInv, Swap
  PROVE  IInv' /\ Running' = Running
<1>1. /\ script.phase = "swap" /\ UNCHANGED <<containers, requests, calls>>
      /\ script' = [script EXCEPT !.phase = "up", !.rollback = @ \/ script.mode = "update"]
  BY DEF Swap
<1>2. script' \in Script /\ script'.phase = "up"
  BY <1>1 DEF IInv, Controls, Script, Phases
<1>3. Careful'
  BY <1>1, <1>2, Standing DEF IInv, Careful
<1>4. Controls'
  BY <1>1, <1>2, SteadyResumes DEF Controls
<1> QED BY <1>1, <1>3, <1>4, Standing DEF IInv

(* What is in the way is drained, unless nothing runs.                      *)
LEMMA RestoreKeeps ==
  ASSUME IInv, Restore
  PROVE  IInv' /\ Running' = Running
<1>1. script.phase = "restore" /\ UNCHANGED <<containers, requests, calls>>
  BY DEF Restore
<1>2. CASE Fail
  BY <1>1, <1>2, FailKeeps
<1>3. CASE Cardinality(Present) <= 1 /\ Running = {} /\ script' = [script EXCEPT !.phase = "up"]
  <2>1. script' \in Script /\ script'.phase = "up"
    BY <1>3 DEF IInv, Controls, Script, Phases
  <2>2. Careful'
    BY <1>1, <1>3, <2>1, Standing DEF Careful
  <2>3. Controls'
    BY <1>1, <2>1, SteadyResumes DEF Controls
  <2> QED BY <1>1, <2>2, <2>3, Standing DEF IInv
<1>4. ASSUME Cardinality(Present) <= 1, NEW c \in Running,
             script' = [script EXCEPT !.phase = "drain", !.target = c]
      PROVE  IInv'
  <2>1. c \in Nat /\ IsFiniteSet(Present) /\ c \in Present
    BY FleetFacts DEF IInv, Running, Present
  <2>2. Present = {c}
    BY <1>4, <2>1, FS_Singleton, FS_CardinalityType, FS_EmptySet
  <2>3. Running \subseteq {c}
    BY <2>2 DEF Running
  <2>4. script' \in Script /\ script'.phase = "drain" /\ script'.target = c
    BY <1>4, <2>1 DEF IInv, Controls, Script, Phases
  <2>5. Careful'
    BY <1>1, <2>3, <2>4, Standing DEF Careful
  <2>6. Controls'
    BY <1>1, <2>4, SteadyResumes DEF Controls
  <2> QED BY <1>1, <2>5, <2>6, Standing DEF IInv
<1>5. Running' = Running
  BY <1>1, Standing
<1> QED BY <1>2, <1>3, <1>4, <1>5 DEF Restore

LEMMA ResumeKeeps ==
  ASSUME IInv, Resume
  PROVE  IInv' /\ Running' = Running
<1>1. script.phase = "resume" /\ UNCHANGED <<containers, requests>>
  BY DEF Resume
<1>2. CASE script.drained \in Running
  <2>1. calls' = calls \cup {[op |-> "resume", at |-> script.drained]} /\ Goto("resuming")
    BY <1>2 DEF Resume
  <2>2. "resuming" \in Phases
    BY DEF Phases
  <2>3. script' \in Script /\ script'.phase = "resuming"
    BY <2>1, <2>2, GoneTo
  <2>4. \A call \in calls : call.op # "resume"
    BY <1>1 DEF IInv, Controls, ResumesLast
  <2>5. [op |-> "resume", at |-> script.drained] \in ControlCall
    BY DEF IInv, Controls, Script, ControlCall
  <2>6. Controls'
    BY <2>1, <2>3, <2>4, <2>5 DEF IInv, Controls, ResumesLast
  <2>7. Careful'
    BY <2>3 DEF Careful
  <2> QED BY <1>1, <2>6, <2>7, Standing DEF IInv
<1>3. CASE script.drained \notin Running
  <2>1. /\ script' = [script EXCEPT !.phase = "ended",
                        !.status = IF script.drained \in Present THEN 2 ELSE @]
        /\ UNCHANGED calls
    BY <1>3 DEF Resume
  <2>2. script' \in Script /\ script'.phase = "ended"
    <3>1. script \in Script
      BY DEF IInv, Controls
    <3>2. CASE script.drained \in Present
      BY <2>1, <3>1, <3>2 DEF Script, Phases
    <3>3. CASE script.drained \notin Present
      BY <2>1, <3>1, <3>3 DEF Script, Phases
    <3> QED BY <3>2, <3>3
  <2>3. ResumesLast'
    BY <1>1, <2>1, SteadyResumes
  <2> QED BY <1>1, <2>1, <2>2, <2>3, EasyStep
<1> QED BY <1>2, <1>3

LEMMA VerifyKeeps ==
  ASSUME IInv, Verify
  PROVE  IInv' /\ Running' = Running
<1>1. script.phase = "verify" /\ UNCHANGED <<containers, requests, calls>> /\ script \in Script
  BY DEF Verify, IInv, Controls
<1>2. CASE Fail
  BY <1>1, <1>2, FailKeeps
<1>3. CASE script' = [script EXCEPT !.phase = "commit", !.rollback = FALSE]
  <2>1. script' \in Script /\ script'.phase = "commit"
    BY <1>1, <1>3 DEF Script, Phases
  <2> QED BY <1>1, <2>1, SteadyResumes, EasyStep
<1>4. ASSUME NEW st \in {0, 1},
             script' = [script EXCEPT !.phase = "resume", !.drained = None, !.status = st]
      PROVE  IInv' /\ Running' = Running
  <2>1. script' \in Script /\ script'.phase = "resume"
    BY <1>1, <1>4 DEF Script, Phases
  <2> QED BY <1>1, <2>1, SteadyResumes, EasyStep
<1>5. \/ Fail
      \/ script' = [script EXCEPT !.phase = "commit", !.rollback = FALSE]
      \/ script' = [script EXCEPT !.phase = "resume", !.drained = None, !.status = 1]
      \/ script' = [script EXCEPT !.phase = "resume", !.drained = None, !.status = 0]
  BY DEF Verify
<1>6. 0 \in {0, 1} /\ 1 \in {0, 1}
  OBVIOUS
<1> QED BY <1>2, <1>3, <1>4, <1>5, <1>6

(* The steps that lead where nothing has to be known.                       *)
LEMMA RestKeeps ==
  ASSUME IInv, Ready \/ UpFails \/ Commit \/ Clear \/ Interrupt \/ Kill \/ Rollback
  PROVE  IInv' /\ Running' = Running
<1>1. UNCHANGED <<containers, requests, calls>> /\ script \in Script
  BY DEF Ready, UpFails, Commit, Clear, Interrupt, Kill, Rollback, IInv, Controls
<1>2. CASE Ready
  <2>1. "verify" \in Phases /\ script.phase = "waiting"
    BY <1>2 DEF Ready, Phases
  <2>2. script' \in Script /\ script'.phase = "verify"
    BY <1>2, <2>1, GoneTo DEF Ready
  <2> QED BY <1>1, <2>1, <2>2, SteadyResumes, EasyStep
<1>3. CASE UpFails
  BY <1>1, <1>3, FailKeeps DEF UpFails
<1>4. CASE Commit
  <2>1. script' \in Script /\ script'.phase = "clear" /\ script.phase = "commit"
    BY <1>1, <1>4 DEF Commit, Script, Phases
  <2> QED BY <1>1, <2>1, SteadyResumes, EasyStep
<1>5. CASE Clear
  <2>1. 0 \in {0, 1, 2}
    OBVIOUS
  <2>2. script' \in Script /\ script'.phase \in {"restore", "resume"} /\ script.phase = "clear"
    BY <1>1, <1>5, <2>1, Leads DEF Clear
  <2> QED BY <1>1, <2>2, SteadyResumes, EasyStep
<1>6. CASE Interrupt
  <2>1. 1 \in {0, 1, 2}
    OBVIOUS
  <2>2. script' \in Script /\ script'.phase \in {"restore", "resume"}
    BY <1>1, <1>6, <2>1, Leads DEF Interrupt
  <2>3. script.phase \notin {"resuming", "ended", "killed"}
    BY <1>6 DEF Interrupt, Over, Trapped
  <2> QED BY <1>1, <2>2, <2>3, SteadyResumes, EasyStep
<1>7. CASE Kill
  <2>1. "killed" \in Phases
    BY DEF Phases
  <2>2. script' \in Script /\ script'.phase = "killed"
    BY <1>7, <2>1, GoneTo DEF Kill
  <2>3. ResumesLast'
    BY <1>1, <2>2 DEF IInv, Controls, ResumesLast
  <2> QED BY <1>1, <2>2, <2>3, EasyStep
<1>8. CASE Rollback
  <2>1. calls' = {} /\ script' = [NewScript EXCEPT !.mode = "rollback", !.phase = "restore"]
    BY <1>1, <1>8 DEF Rollback
  <2>2. script' \in Script /\ script'.phase = "restore"
    BY <2>1 DEF NewScript, Script, Phases
  <2>3. ResumesLast'
    BY <2>1 DEF ResumesLast
  <2> QED BY <1>1, <2>2, <2>3, EasyStep
<1> QED BY <1>2, <1>3, <1>4, <1>5, <1>6, <1>7, <1>8

-----------------------------------------------------------------------------
(* The invariant, and what it means for the requests under way.             *)

LEMMA InvInit == Init => IInv
<1> SUFFICES ASSUME Init PROVE IInv
  OBVIOUS
<1> DEFINE first == [Container("before", "running", TRUE) EXCEPT !.healthy = TRUE]
<1>1. first \in Gateway /\ first.active = 0 /\ first.state = "running"
  <2>1. Container("before", "running", TRUE) \in Gateway
    BY DEF Container, Gateway
  <2>2. /\ Container("before", "running", TRUE).active = 0
        /\ Container("before", "running", TRUE).state = "running"
    BY DEF Container
  <2> QED BY <2>1, <2>2 DEF Gateway
<1> HIDE DEF first
<1>2. /\ DOMAIN containers = {1} /\ containers[1] = first
      /\ requests = [r \in Requests |-> [at |-> None, events |-> {}]]
      /\ script = NewScript /\ calls = {}
  BY DEF Init, first
<1>3. {1} = 1 .. 1 /\ 1 \in Nat \ {0}
  OBVIOUS
<1>4. containers \in [1 .. 1 -> Gateway]
  <2>1. containers = [c \in {1} |-> first]
    BY DEF Init, first
  <2> QED BY <1>1, <1>3, <2>1
<1>5. Fleet
  <2>1. \E n \in Nat \ {0} : containers \in [1 .. n -> Gateway]
    BY <1>3, <1>4
  <2>2. requests \in [Requests -> Request]
    BY <1>2 DEF Request
  <2> QED BY <1>2, <2>1, <2>2 DEF Fleet
<1>6. Counted
  <2>1. Ongoing(1) = {}
    BY <1>2, UpdateAssumption DEF Ongoing
  <2>2. Cardinality(Ongoing(1)) = 0
    BY <2>1, FS_EmptySet
  <2> QED BY <1>1, <1>2, <2>2 DEF Counted
<1>7. Controls /\ Careful
  BY <1>2 DEF Controls, ResumesLast, Careful, NewScript, Script, Phases
<1> QED BY <1>5, <1>6, <1>7 DEF IInv

(* No step stops a gateway that works while it has requests under way.      *)
LEMMA StepKeeps ==
  ASSUME IInv, [Next]_vars
  PROVE  /\ IInv'
         /\ \A c \in Running : containers[c].sound /\ Ongoing(c) # {} => c \in Running'
<1>1. ASSUME NEW r \in Requests, Enter(r) PROVE IInv' /\ Running' = Running
  BY <1>1, EnterKeeps
<1>2. ASSUME NEW r \in Requests, NEW event \in Events, Done(r, event)
      PROVE  IInv' /\ Running' = Running
  BY <1>2, DoneKeeps
<1>3. ASSUME NEW c \in DOMAIN containers, Probe(c) PROVE IInv' /\ Running' = Running
  BY <1>3, ProbeKeeps
<1>4. ASSUME NEW call \in calls, Serve(call) PROVE IInv' /\ Running' = Running
  BY <1>4, ServeKeeps
<1>5. ASSUME NEW c \in DOMAIN containers, Crash(c)
      PROVE  IInv' /\ \A d \in Running : containers[d].sound => d \in Running'
  BY <1>5, CrashKeeps
<1>6. ASSUME Start \/ Build \/ Drain \/ Lose \/ Poll \/ Swap \/ Create
      PROVE  IInv' /\ Running' = Running
  BY <1>6, StartKeeps, BuildKeeps, DrainKeeps, LoseKeeps, PollKeeps, SwapKeeps, CreateKeeps
<1>7. ASSUME Verify \/ Restore \/ Resume \/ Ready \/ UpFails \/ Commit \/ Clear
               \/ Interrupt \/ Kill \/ Rollback
      PROVE  IInv' /\ Running' = Running
  BY <1>7, VerifyKeeps, RestoreKeeps, ResumeKeeps, RestKeeps
<1>8. ASSUME Stop PROVE IInv' /\ \A c \in Running : Ongoing(c) = {}
  BY <1>8, StopKeeps
<1>9. ASSUME StartNew PROVE IInv' /\ Running \subseteq Running'
  BY <1>9, StartNewKeeps
<1>10. CASE UNCHANGED vars
  <2>1. UNCHANGED <<containers, requests, script, calls>>
    BY <1>10 DEF vars
  <2>2. Careful' /\ Controls'
    BY <2>1, Standing DEF IInv, Careful, Controls, ResumesLast
  <2> QED BY <2>1, <2>2, Standing DEF IInv
<1>11. CASE Next
  BY <1>1, <1>2, <1>3, <1>4, <1>5, <1>6, <1>7, <1>8, <1>9, <1>11 DEF Next
<1> QED BY <1>10, <1>11

(* docker-update.sh, request-drain.ts: the inductive invariant holds of     *)
(* every reachable state.                                                   *)
THEOREM UpdateInvariance == Spec => []IInv
<1>1. IInv /\ [Next]_vars => IInv'
  BY StepKeeps
<1> QED BY <1>1, InvInit, PTL DEF Spec

(* request-drain.ts enter, done: the counter of a gateway is the number of  *)
(* its requests under way, for any number of them.                          *)
THEOREM AlwaysCountsOngoing == Spec => []CountsOngoing
<1>1. IInv => CountsOngoing
  BY DEF IInv, Counted, CountsOngoing, Running, Present
<1> QED BY <1>1, UpdateInvariance, PTL

(* docker-update.sh drain_and_wait, restore: wherever an update or rollback *)
(* fails, is interrupted or killed, it stops no working gateway that has    *)
(* requests under way.                                                      *)
THEOREM NothingIsCut == Spec => NothingCut
<1>1. IInv /\ [Next]_vars =>
        [\A c \in Running : containers[c].sound /\ Ongoing(c) # {} => c \in Running']_vars
  BY StepKeeps
<1> QED BY <1>1, UpdateInvariance, PTL DEF Spec, NothingCut

-----------------------------------------------------------------------------
(* The exit status of an update or a rollback tells the truth about the      *)
(* service it leaves behind.                                                *)

Image(mode) == IF mode = "update" THEN "after" ELSE "before"

Serves(c) == Present = {c} /\ c \in Running /\ containers[c].sound

Accepting(c) == ~containers[c].draining /\ calls = {}

AsTold(c) == script.status = 0 => containers[c].image = Image(script.mode)

Promised == script.status # 2 /\ ~(script.mode = "rollback" /\ script.status = 1)

(* What Docker saw healthy works and runs.                                  *)
Seen ==
  \A c \in DOMAIN containers :
    containers[c].healthy => containers[c].sound /\ containers[c].state = "running"

Named == {script.target, script.drained} \subseteq DOMAIN containers \cup {None}

(* What the script has to undo, by where it is.                             *)
Modes ==
  /\ script.mode = "rollback" => ~script.rollback
  /\ script.mode = "update" => script.phase # "restore"
  /\ script.mode = "update" /\ script.phase \in {"up", "created", "stopped", "waiting", "verify"}
       => script.rollback
  /\ script.phase \in {"commit", "clear"} => script.mode = "update" /\ ~script.rollback
  /\ script.phase = "idle" => script = NewScript /\ calls = {}

(* Until an update replaces the gateway that one serves, and from the drain  *)
(* on the script remembers to resume it.                                    *)
Before ==
  script.mode = "update" /\ script.phase \in {"build", "drain", "await", "poll", "swap"} =>
    /\ Serves(script.target) /\ ~script.rollback
    /\ script.phase \in {"build", "drain"} => script.drained = None /\ Accepting(script.target)
    /\ script.phase \notin {"build", "drain"} => script.drained = script.target

(* The container created has the image that was asked for, and no call from *)
(* before can reach it.                                                     *)
After ==
  /\ script.phase \in {"created", "stopped", "waiting", "verify", "commit", "clear"} =>
       /\ script.drained # Newest
       /\ containers[Newest].image = Image(script.mode) /\ ~containers[Newest].draining
  /\ script.phase \in {"stopped", "waiting", "verify", "commit", "clear"} =>
       Present = {Newest} /\ calls = {}
  /\ script.phase \in {"commit", "clear"} => Serves(Newest)

(* At the end a gateway serves; it is the one to be resumed or accepts.     *)
Leaving ==
  /\ script.phase = "resume" /\ Promised =>
       \E c \in Running : /\ Serves(c) /\ AsTold(c)
                          /\ script.drained # c => script.drained \notin Present /\ Accepting(c)
  /\ script.phase = "resuming" =>
       /\ \A call \in calls : call.op = "resume" => call.at = script.drained
       /\ Promised => Serves(script.drained) /\ AsTold(script.drained)
  /\ script.phase = "ended" /\ Promised =>
       \E c \in Running : /\ Serves(c) /\ AsTold(c)
                          /\ containers[c].draining => overtaken

Told == Seen /\ Named /\ Modes /\ Before /\ After /\ Leaving

-----------------------------------------------------------------------------
(* The gateway's steps.                                                     *)

(* A step that changes of the gateways only what they count and how they    *)
(* were seen.                                                               *)
LEMMA GatewayTold ==
  ASSUME Told, DOMAIN containers' = DOMAIN containers,
         \A c \in DOMAIN containers :
           /\ containers'[c].state = containers[c].state
           /\ containers'[c].sound = containers[c].sound
           /\ containers'[c].image = containers[c].image
           /\ containers'[c].draining = containers[c].draining,
         Seen', UNCHANGED <<script, calls, overtaken>>, Newest \in DOMAIN containers
  PROVE  Told'
<1>1. Present' = Present /\ Running' = Running /\ Newest' = Newest
  BY DEF Present, Running, Newest
<1>2. Running \subseteq DOMAIN containers
  BY DEF Running, Present
<1>3. \A c : Serves(c)' <=> Serves(c)
  BY <1>1, <1>2 DEF Serves
<1>4. \A c \in DOMAIN containers : (AsTold(c)' <=> AsTold(c)) /\ (Accepting(c)' <=> Accepting(c))
  BY DEF AsTold, Accepting
<1>5. \A c : Serves(c) => c \in DOMAIN containers
  BY <1>2 DEF Serves
<1>6. Promised' <=> Promised
  BY DEF Promised
<1>7. Named' /\ Modes'
  BY DEF Told, Named, Modes
<1>8. Before'
  BY <1>3, <1>4, <1>5 DEF Told, Before
<1>9. After'
  BY <1>1, <1>3 DEF Told, After
<1>10. Leaving'
  <2>1. script.phase = "resume" /\ Promised =>
          \E c \in Running : /\ Serves(c)' /\ AsTold(c)'
                             /\ script.drained # c => script.drained \notin Present /\ Accepting(c)'
    BY <1>2, <1>3, <1>4 DEF Told, Leaving
  <2>2. script.phase = "resuming" =>
          /\ \A call \in calls : call.op = "resume" => call.at = script.drained
          /\ Promised => Serves(script.drained)' /\ AsTold(script.drained)'
    BY <1>3, <1>4, <1>5 DEF Told, Leaving
  <2>3. script.phase = "ended" /\ Promised =>
          \E c \in Running : /\ Serves(c)' /\ AsTold(c)'
                             /\ containers'[c].draining => overtaken
    BY <1>2, <1>3, <1>4 DEF Told, Leaving
  <2> QED BY <1>1, <1>6, <2>1, <2>2, <2>3 DEF Leaving
<1> QED BY <1>7, <1>8, <1>9, <1>10 DEF Told

LEMMA NewestThere == IInv => Newest \in DOMAIN containers
BY FleetFacts DEF IInv

LEMMA EnterTold ==
  ASSUME IInv, Told, NEW r \in Requests, Enter(r)
  PROVE  Told'
<1>1. PICK c \in Running : containers' = [containers EXCEPT ![c].active = @ + 1]
  BY DEF Enter
<1>2. containers \in [1 .. Newest -> Gateway]
  BY FleetFacts DEF IInv
<1>3. /\ DOMAIN containers' = DOMAIN containers
      /\ \A d \in DOMAIN containers :
           /\ containers'[d].state = containers[d].state
           /\ containers'[d].sound = containers[d].sound
           /\ containers'[d].image = containers[d].image
           /\ containers'[d].draining = containers[d].draining
           /\ containers'[d].healthy = containers[d].healthy
  BY <1>1, <1>2 DEF Gateway
<1>4. Seen'
  BY <1>3 DEF Told, Seen
<1>5. UNCHANGED <<script, calls, overtaken>>
  BY DEF Enter
<1> QED BY <1>3, <1>4, <1>5, GatewayTold, NewestThere

LEMMA DoneTold ==
  ASSUME IInv, Told, NEW r \in Requests, NEW event \in Events, Done(r, event)
  PROVE  Told'
<1>1. PICK c \in Running : c = requests[r].at
  BY DEF Done
<1>2. \/ containers' = containers
      \/ containers' = [containers EXCEPT ![c].active = @ - 1]
  BY <1>1 DEF Done
<1>3. containers \in [1 .. Newest -> Gateway]
  BY FleetFacts DEF IInv
<1>4. /\ DOMAIN containers' = DOMAIN containers
      /\ \A d \in DOMAIN containers :
           /\ containers'[d].state = containers[d].state
           /\ containers'[d].sound = containers[d].sound
           /\ containers'[d].image = containers[d].image
           /\ containers'[d].draining = containers[d].draining
           /\ containers'[d].healthy = containers[d].healthy
  <2>1. CASE containers' = containers
    BY <2>1
  <2>2. CASE containers' = [containers EXCEPT ![c].active = @ - 1]
    BY <1>3, <2>2 DEF Gateway
  <2> QED BY <1>2, <2>1, <2>2
<1>5. Seen'
  BY <1>4 DEF Told, Seen
<1>6. UNCHANGED <<script, calls, overtaken>>
  BY DEF Done
<1> QED BY <1>4, <1>5, <1>6, GatewayTold, NewestThere

LEMMA ProbeTold ==
  ASSUME IInv, Told, NEW c \in DOMAIN containers, Probe(c)
  PROVE  Told'
<1> DEFINE new == [containers[c] EXCEPT !.healthy = containers[c].sound /\ ~containers[c].draining]
<1>1. /\ c \in Running /\ containers' = [containers EXCEPT ![c] = new]
      /\ UNCHANGED <<script, calls, overtaken>> /\ containers[c] \in Gateway
      /\ containers[c].state = "running"
  BY FleetFacts DEF Probe, IInv, Running, Present
<1>2. /\ new.state = containers[c].state /\ new.sound = containers[c].sound
      /\ new.image = containers[c].image /\ new.draining = containers[c].draining
      /\ new.healthy => containers[c].sound
  BY <1>1 DEF Gateway
<1> HIDE DEF new
<1>3. /\ DOMAIN containers' = DOMAIN containers /\ containers'[c] = new
      /\ \A d \in DOMAIN containers \ {c} : containers'[d] = containers[d]
  BY <1>1
<1>4. Seen'
  BY <1>1, <1>2, <1>3 DEF Told, Seen
<1> QED BY <1>1, <1>2, <1>3, <1>4, GatewayTold, NewestThere

(* Only what does not work breaks down, and that serves nobody.             *)
LEMMA CrashTold ==
  ASSUME IInv, Told, NEW c \in DOMAIN containers, Crash(c)
  PROVE  Told'
<1> DEFINE new == [containers[c] EXCEPT !.state = "exited", !.healthy = FALSE]
<1>1. /\ c \in Running /\ containers' = [containers EXCEPT ![c] = new]
      /\ UNCHANGED <<script, overtaken>> /\ containers[c] \in Gateway
      /\ ~containers[c].sound /\ containers[c].state = "running"
      /\ calls' \subseteq calls
  BY FleetFacts DEF Crash, IInv, Running, Present
<1>2. /\ new.state = "exited" /\ new.sound = containers[c].sound /\ ~new.healthy
      /\ new.image = containers[c].image /\ new.draining = containers[c].draining
  BY <1>1 DEF Gateway
<1> HIDE DEF new
<1>3. /\ DOMAIN containers' = DOMAIN containers /\ containers'[c] = new
      /\ \A d \in DOMAIN containers \ {c} : containers'[d] = containers[d]
      /\ \A d \in DOMAIN containers : /\ containers'[d].image = containers[d].image
                                      /\ containers'[d].draining = containers[d].draining
                                      /\ containers'[d].sound = containers[d].sound
  BY <1>1, <1>2
<1>4. Present' = Present /\ Newest' = Newest /\ Running' = Running \ {c}
  BY <1>1, <1>2, <1>3 DEF Present, Running, Newest
<1>5. Seen'
  BY <1>2, <1>3 DEF Told, Seen
<1>6. \A d : Serves(d) => Serves(d)' /\ d \in Running' /\ d \in DOMAIN containers
  BY <1>1, <1>3, <1>4 DEF Serves, Running, Present
<1>7. \A d \in DOMAIN containers : /\ AsTold(d) => AsTold(d)'
                                   /\ Accepting(d) => Accepting(d)'
  BY <1>1, <1>3 DEF AsTold, Accepting
<1>8. Promised' <=> Promised
  BY <1>1 DEF Promised
<1>9. Named' /\ Modes'
  BY <1>1, <1>3 DEF Told, Named, Modes
<1>10. Before'
  BY <1>1, <1>6, <1>7 DEF Told, Before
<1>11. After'
  BY <1>1, <1>3, <1>4, <1>6, NewestThere DEF Told, After
<1>12. Leaving'
  BY <1>1, <1>3, <1>4, <1>6, <1>7, <1>8 DEF Told, Leaving
<1> QED BY <1>5, <1>9, <1>10, <1>11, <1>12 DEF Told

(* A gateway that accepts what the script drains again was overtaken.       *)
LEMMA ServeTold ==
  ASSUME IInv, Told, NEW call \in calls, Serve(call)
  PROVE  Told'
<1> DEFINE c == call.at
           new == [containers[c] EXCEPT !.draining = call.op = "drain"]
<1>1. /\ c \in Running /\ containers' = [containers EXCEPT ![c] = new]
      /\ containers[c] \in Gateway /\ calls' = calls \ {call} /\ c \in DOMAIN containers
      /\ overtaken' = (overtaken \/ (call.op = "drain" /\ script.phase = "ended"))
      /\ IF Awaited(call) THEN Goto(Replied(call)) ELSE UNCHANGED script
  BY FleetFacts DEF Serve, IInv, Running, Present
<1>2. /\ new.state = containers[c].state /\ new.sound = containers[c].sound
      /\ new.image = containers[c].image /\ new.draining = (call.op = "drain")
      /\ new.healthy = containers[c].healthy
  BY <1>1 DEF Gateway
<1> HIDE DEF new
<1>3. /\ DOMAIN containers' = DOMAIN containers /\ containers'[c] = new
      /\ \A d \in DOMAIN containers \ {c} : containers'[d] = containers[d]
      /\ \A d \in DOMAIN containers : /\ containers'[d].image = containers[d].image
                                      /\ containers'[d].sound = containers[d].sound
                                      /\ containers'[d].state = containers[d].state
                                      /\ containers'[d].healthy = containers[d].healthy
  BY <1>1, <1>2
<1>4. Present' = Present /\ Newest' = Newest /\ Running' = Running
  BY <1>3 DEF Present, Running, Newest
<1>5. Seen'
  BY <1>3 DEF Told, Seen
<1>6. \A d : Serves(d)' <=> Serves(d)
  BY <1>3, <1>4 DEF Serves, Running, Present
<1>7. call.op \in {"drain", "resume"} /\ script \in Script
  BY DEF IInv, Controls, ControlCall
<1>8. script.phase \notin {"idle", "stopped", "waiting", "verify", "commit", "clear"}
  BY DEF Told, Modes, After
<1>9. script.phase \in {"build", "drain"} => script.mode # "update"
  BY DEF Told, Before, Accepting
<1>10. CASE ~Awaited(call)
  <2>1. UNCHANGED script
    BY <1>1, <1>10
  <2>2. \A d \in DOMAIN containers : AsTold(d)' <=> AsTold(d)
    BY <1>3, <2>1 DEF AsTold
  <2>3. Named' /\ Modes'
    BY <1>3, <1>8, <2>1 DEF Told, Named, Modes
  <2>4. Before'
    BY <1>6, <1>9, <2>1 DEF Told, Before
  <2>5. After'
    <3>1. script.phase = "created" => c # Newest
      BY <1>1 DEF IInv, Careful, Running
    <3> QED BY <1>3, <1>4, <1>8, <2>1, <3>1, NewestThere DEF Told, After
  <2>6. Leaving'
    <3>1. ASSUME script.phase = "resume", Promised
          PROVE  \E d \in Running : /\ Serves(d)' /\ AsTold(d)' /\ script.drained = d
      <4>1. PICK d \in Running : /\ Serves(d) /\ AsTold(d)
                                 /\ script.drained # d => Accepting(d)
        BY <3>1 DEF Told, Leaving
      <4>2. script.drained = d /\ d \in DOMAIN containers
        BY <4>1 DEF Accepting, Running, Present
      <4> QED BY <1>6, <2>2, <4>1, <4>2
    <3>2. ASSUME script.phase = "resuming"
          PROVE  /\ \A other \in calls' : other.op = "resume" => other.at = script.drained
                 /\ Promised => Serves(script.drained)' /\ AsTold(script.drained)'
      <4>1. \A other \in calls' : other.op = "resume" => other.at = script.drained
        BY <1>1, <3>2 DEF Told, Leaving
      <4>2. ASSUME Promised PROVE Serves(script.drained)' /\ AsTold(script.drained)'
        <5>1. PICK d \in Running : d = script.drained /\ Serves(d) /\ AsTold(d)
          BY <3>2, <4>2 DEF Told, Leaving, Serves
        <5>2. d \in DOMAIN containers
          BY DEF Running, Present
        <5>3. Serves(d)' /\ AsTold(d)'
          BY <1>6, <2>2, <5>1, <5>2
        <5> QED BY <2>1, <5>1, <5>3
      <4> QED BY <4>1, <4>2
    <3>3. ASSUME script.phase = "ended", Promised
          PROVE  \E d \in Running : /\ Serves(d)' /\ AsTold(d)'
                                    /\ containers'[d].draining => overtaken'
      <4>1. PICK d \in Running : /\ Serves(d) /\ AsTold(d)
                                 /\ containers[d].draining => overtaken
        BY <3>3 DEF Told, Leaving
      <4>2. d \in DOMAIN containers
        BY DEF Running, Present
      <4>3. Serves(d)' /\ AsTold(d)'
        BY <1>6, <2>2, <4>1, <4>2
      <4>4. overtaken' = (overtaken \/ call.op = "drain")
        BY <3>3 DEF Serve
      <4>5. containers'[d].draining => overtaken'
        <5>1. CASE d = c
          BY <1>2, <1>3, <4>4, <5>1
        <5>2. CASE d # c
          BY <1>3, <4>1, <4>2, <4>4, <5>2
        <5> QED BY <5>1, <5>2
      <4> QED BY <4>3, <4>5
    <3>4. Promised' <=> Promised
      BY <2>1 DEF Promised
    <3> QED BY <1>4, <2>1, <3>1, <3>2, <3>3, <3>4 DEF Leaving
  <2> QED BY <1>5, <2>3, <2>4, <2>5, <2>6 DEF Told
<1>11. CASE Awaited(call) /\ call.op = "drain"
  <2>1. PICK phase \in {"swap", "poll"} :
          script.phase = "await" /\ script' = [script EXCEPT !.phase = phase]
    BY <1>1, <1>11 DEF Awaited, Goto, Replied
  <2>2. /\ script'.phase = phase /\ script'.mode = script.mode
        /\ script'.target = script.target /\ script'.drained = script.drained
        /\ script'.rollback = script.rollback
    BY <1>7, <2>1 DEF Script
  <2>3. Named' /\ Modes'
    BY <1>3, <2>1, <2>2 DEF Told, Named, Modes
  <2>4. Before'
    BY <1>6, <2>1, <2>2 DEF Told, Before
  <2>5. After' /\ Leaving'
    BY <2>2 DEF After, Leaving
  <2> QED BY <1>5, <2>3, <2>4, <2>5 DEF Told
<1>12. CASE Awaited(call) /\ call.op = "resume"
  <2>1. script.phase = "resuming" /\ script' = [script EXCEPT !.phase = "ended"]
    BY <1>1, <1>12 DEF Awaited, Goto, Replied
  <2>2. /\ script'.phase = "ended" /\ script'.mode = script.mode
        /\ script'.target = script.target /\ script'.drained = script.drained
        /\ script'.rollback = script.rollback /\ script'.status = script.status
    BY <1>7, <2>1 DEF Script
  <2>3. Named' /\ Modes'
    BY <1>3, <2>2 DEF Told, Named, Modes
  <2>4. Before' /\ After'
    BY <2>2 DEF Before, After
  <2>5. c = script.drained
    BY <1>12, <2>1 DEF Told, Leaving
  <2>6. Leaving'
    <3>1. ASSUME Promised
          PROVE  Serves(c)' /\ AsTold(c)' /\ ~containers'[c].draining
      <4>1. Serves(c) /\ AsTold(c)
        BY <2>1, <2>5, <3>1 DEF Told, Leaving
      <4> QED BY <1>1, <1>2, <1>3, <1>6, <1>12, <2>2, <4>1 DEF AsTold
    <3>2. Promised' <=> Promised
      BY <2>2 DEF Promised
    <3> QED BY <1>1, <1>4, <2>2, <3>1, <3>2 DEF Leaving
  <2> QED BY <1>5, <2>3, <2>4, <2>6 DEF Told
<1> QED BY <1>7, <1>10, <1>11, <1>12

-----------------------------------------------------------------------------
(* Compose's steps.                                                         *)

LEMMA CreateTold ==
  ASSUME IInv, Told, Create
  PROVE  Told'
<1>1. PICK sound \in BOOLEAN :
        containers' = [c \in 1 .. Newest + 1 |->
          IF c \in DOMAIN containers THEN containers[c]
          ELSE Container(Image(script.mode), "created", sound)]
  BY DEF Create, Image
<1>2. /\ script.phase = "up" /\ script' = [script EXCEPT !.phase = "created"]
      /\ UNCHANGED calls /\ script \in Script
  BY DEF Create, Goto, IInv, Controls
<1> PICK n \in Nat \ {0} : n = Newest + 1
  BY FleetFacts DEF IInv
<1>3. /\ Newest \in Nat \ {0} /\ DOMAIN containers = 1 .. Newest
  BY FleetFacts DEF IInv
<1>4. /\ DOMAIN containers' = DOMAIN containers \cup {n} /\ n \notin DOMAIN containers
      /\ \A c \in DOMAIN containers : containers'[c] = containers[c]
      /\ containers'[n] = Container(Image(script.mode), "created", sound)
      /\ DOMAIN containers' = 1 .. n
  BY <1>1, <1>3
<1>5. Newest' = n
  BY <1>4, FS_Interval DEF Newest
<1>6. /\ script'.phase = "created" /\ script'.mode = script.mode
      /\ script'.target = script.target /\ script'.drained = script.drained
      /\ script'.rollback = script.rollback
  BY <1>2 DEF Script
<1>7. ~containers'[n].healthy /\ ~containers'[n].draining
      /\ containers'[n].image = Image(script.mode)
  BY <1>4 DEF Container
<1>8. Seen'
  BY <1>4, <1>7 DEF Told, Seen
<1>9. Named' /\ Modes'
  BY <1>2, <1>4, <1>6 DEF Told, Named, Modes
<1>10. script'.drained # n
  BY <1>4, <1>6, UpdateAssumption DEF Told, Named
<1>11. Before' /\ After' /\ Leaving'
  BY <1>5, <1>6, <1>7, <1>10 DEF Before, After, Leaving, Image
<1> QED BY <1>8, <1>9, <1>11 DEF Told

LEMMA StopTold ==
  ASSUME IInv, Told, Stop
  PROVE  Told'
<1>1. /\ script.phase = "created" /\ script' = [script EXCEPT !.phase = "stopped"]
      /\ calls' = {} /\ script \in Script
      /\ containers' = [c \in DOMAIN containers |-> IF c = Newest THEN containers[c] ELSE Gone(c)]
  BY DEF Stop, Goto, IInv, Controls
<1>2. containers \in [1 .. Newest -> Gateway] /\ Newest \in DOMAIN containers
  BY FleetFacts DEF IInv
<1>3. /\ DOMAIN containers' = DOMAIN containers /\ containers'[Newest] = containers[Newest]
      /\ \A c \in DOMAIN containers \ {Newest} :
           containers'[c].state = "removed" /\ ~containers'[c].healthy
  BY <1>1, <1>2 DEF Gone, Gateway
<1>4. Newest' = Newest /\ Present' = {Newest}
  BY <1>1, <1>2, <1>3 DEF IInv, Careful, Newest, Present
<1>5. /\ script'.phase = "stopped" /\ script'.mode = script.mode
      /\ script'.target = script.target /\ script'.drained = script.drained
      /\ script'.rollback = script.rollback
  BY <1>1 DEF Script
<1>6. Seen'
  BY <1>3 DEF Told, Seen
<1>7. Named' /\ Modes'
  BY <1>1, <1>3, <1>5 DEF Told, Named, Modes
<1>8. Before' /\ Leaving'
  BY <1>5 DEF Before, Leaving
<1>9. After'
  BY <1>1, <1>3, <1>4, <1>5 DEF Told, After, Image
<1> QED BY <1>6, <1>7, <1>8, <1>9 DEF Told

LEMMA StartNewTold ==
  ASSUME IInv, Told, StartNew
  PROVE  Told'
<1> DEFINE new == [containers[Newest] EXCEPT !.state = "running"]
<1>1. /\ script.phase = "stopped" /\ script' = [script EXCEPT !.phase = "waiting"]
      /\ UNCHANGED calls /\ script \in Script
      /\ containers' = [containers EXCEPT ![Newest] = new]
  BY DEF StartNew, Goto, IInv, Controls
<1>2. /\ containers \in [1 .. Newest -> Gateway] /\ Newest \in DOMAIN containers
      /\ containers[Newest].state = "created"
  BY <1>1, FleetFacts DEF IInv, Careful
<1>3. /\ new.state = "running" /\ new.image = containers[Newest].image
      /\ new.draining = containers[Newest].draining /\ new.healthy = containers[Newest].healthy
  BY <1>2 DEF Gateway
<1> HIDE DEF new
<1>4. /\ DOMAIN containers' = DOMAIN containers /\ containers'[Newest] = new
      /\ \A c \in DOMAIN containers \ {Newest} : containers'[c] = containers[c]
  BY <1>1, <1>2
<1>5. Newest' = Newest /\ Present' = Present
  BY <1>2, <1>3, <1>4 DEF Newest, Present
<1>6. /\ script'.phase = "waiting" /\ script'.mode = script.mode
      /\ script'.target = script.target /\ script'.drained = script.drained
      /\ script'.rollback = script.rollback
  BY <1>1 DEF Script
<1>7. Seen'
  <2>1. ~containers[Newest].healthy
    BY <1>2 DEF Told, Seen
  <2> QED BY <1>3, <1>4, <2>1 DEF Told, Seen
<1>8. Named' /\ Modes'
  BY <1>1, <1>4, <1>6 DEF Told, Named, Modes
<1>9. Before' /\ Leaving'
  BY <1>6 DEF Before, Leaving
<1>10. After'
  BY <1>1, <1>3, <1>4, <1>5, <1>6 DEF Told, After, Image
<1> QED BY <1>7, <1>8, <1>9, <1>10 DEF Told

-----------------------------------------------------------------------------
(* The script's own steps.                                                  *)

LEMMA SameService ==
  ASSUME UNCHANGED containers
  PROVE  /\ Present' = Present /\ Running' = Running /\ Newest' = Newest
         /\ \A c : Serves(c)' <=> Serves(c)
         /\ \A c \in Running : c \in DOMAIN containers
BY DEF Present, Running, Newest, Serves

(* An exit with status 1 out of the update.                                 *)
LEMMA ExitTold ==
  ASSUME IInv, Told, UNCHANGED containers, calls' \subseteq calls,
         script.phase \notin {"idle", "resume", "resuming", "ended", "killed"},
         script.mode # "restore", script' = Exit(script, 1)
  PROVE  Told'
<1>1. /\ script \in Script
      /\ script'.target = script.target /\ script'.drained = script.drained
      /\ script'.rollback = script.rollback /\ script'.status = 1
      /\ script'.mode = IF script.rollback THEN "restore" ELSE script.mode
      /\ script'.phase = IF script.rollback THEN "restore" ELSE "resume"
  <2>1. script \in Script
    BY DEF IInv, Controls
  <2> QED BY <2>1 DEF Exit, Script
<1>2. Seen' /\ Named'
  BY <1>1 DEF Told, Seen, Named
<1>3. Modes'
  BY <1>1 DEF Told, Modes
<1>4. CASE script.rollback
  <2>1. script'.phase = "restore"
    BY <1>1, <1>4
  <2> QED BY <1>2, <1>3, <2>1 DEF Told, Before, After, Leaving
<1>5. CASE ~script.rollback /\ script.mode = "rollback"
  <2>1. script'.phase = "resume" /\ ~Promised'
    BY <1>1, <1>5 DEF Promised
  <2> QED BY <1>2, <1>3, <2>1 DEF Told, Before, After, Leaving
<1>6. CASE ~script.rollback /\ script.mode = "update"
  <2>1. script.phase \in {"build", "drain", "await", "poll", "swap", "commit", "clear"}
    BY <1>1, <1>6 DEF Told, Modes, Script, Phases
  <2>2. \A c : AsTold(c)'
    BY <1>1 DEF AsTold
  <2>3. Before' /\ After'
    BY <1>1, <1>6 DEF Before, After
  <2>4. \E c \in Running : /\ Serves(c)
                           /\ script.drained # c => script.drained \notin Present /\ Accepting(c)
    <3>1. CASE script.phase \in {"build", "drain"}
      <4>1. Serves(script.target) /\ script.drained = None /\ Accepting(script.target)
        BY <1>6, <3>1 DEF Told, Before
      <4>2. None \notin Present
        BY FleetFacts, UpdateAssumption DEF IInv, Present
      <4> QED BY <4>1, <4>2 DEF Serves
    <3>2. CASE script.phase \in {"await", "poll", "swap"}
      BY <1>6, <3>2 DEF Told, Before, Serves
    <3>3. CASE script.phase \in {"commit", "clear"}
      BY <3>3 DEF Told, After, Serves, Accepting
    <3> QED BY <2>1, <3>1, <3>2, <3>3
  <2>5. PICK c \in Running : /\ Serves(c)
                             /\ script.drained # c => script.drained \notin Present /\ Accepting(c)
    BY <2>4
  <2>6. Accepting(c) => Accepting(c)'
    BY DEF Accepting
  <2>7. Leaving'
    BY <1>1, <1>6, <2>2, <2>5, <2>6, SameService DEF Leaving
  <2> QED BY <1>2, <1>3, <2>3, <2>7 DEF Told
<1> QED BY <1>1, <1>4, <1>5, <1>6 DEF Script

LEMMA FailTold ==
  ASSUME IInv, Told, UNCHANGED containers, calls' \subseteq calls,
         script.phase \notin {"idle", "resume", "resuming", "ended", "killed"}, Fail
  PROVE  Told'
<1>1. CASE script.mode = "update"
  BY <1>1, ExitTold DEF Fail, Failed
<1>2. CASE script.mode # "update"
  <2>1. /\ script \in Script /\ script' = [script EXCEPT !.status = 2, !.phase = "resume"]
    BY <1>2 DEF Fail, Failed, IInv, Controls
  <2>2. /\ script'.target = script.target /\ script'.drained = script.drained
        /\ script'.rollback = script.rollback /\ script'.status = 2
        /\ script'.mode = script.mode /\ script'.phase = "resume"
    BY <2>1 DEF Script
  <2>3. Seen' /\ Named' /\ Modes'
    BY <2>2 DEF Told, Seen, Named, Modes
  <2>4. Before' /\ After' /\ Leaving'
    BY <2>2 DEF Before, After, Leaving, Promised
  <2> QED BY <2>3, <2>4 DEF Told
<1> QED BY <1>1, <1>2

(* The script goes on and keeps everything it knows.                        *)
LEMMA GoesOn ==
  ASSUME IInv, NEW phase \in Phases, Goto(phase)
  PROVE  /\ script'.phase = phase /\ script'.mode = script.mode
         /\ script'.target = script.target /\ script'.drained = script.drained
         /\ script'.rollback = script.rollback /\ script'.status = script.status
<1>1. script \in Script
  BY DEF IInv, Controls
<1> QED BY <1>1 DEF Goto, Script

LEMMA StartTold ==
  ASSUME IInv, Told, Start
  PROVE  Told'
<1>1. PICK c \in Running :
        /\ script.phase = "idle" /\ Present = {c}
        /\ containers[c].healthy /\ ~containers[c].draining
        /\ script' = [script EXCEPT !.phase = "build", !.target = c, !.backup = TRUE]
        /\ UNCHANGED <<containers, calls>>
  BY DEF Start
<1>2. /\ script = NewScript /\ calls = {} /\ c \in DOMAIN containers
  BY <1>1 DEF Told, Modes, Running, Present
<1>3. /\ script'.phase = "build" /\ script'.mode = "update" /\ script'.target = c
      /\ script'.drained = None /\ script'.rollback = FALSE
  BY <1>1, <1>2 DEF NewScript
<1>4. Serves(c)'
  <2>1. Serves(c)
    BY <1>1, <1>2 DEF Told, Seen, Serves
  <2> QED BY <1>1, <2>1, SameService
<1>5. Accepting(c)'
  BY <1>1, <1>2 DEF Accepting
<1>6. Seen' /\ Named' /\ Modes'
  BY <1>1, <1>2, <1>3 DEF Told, Seen, Named, Modes
<1>7. Before'
  BY <1>3, <1>4, <1>5 DEF Before
<1>8. After' /\ Leaving'
  BY <1>3 DEF After, Leaving
<1> QED BY <1>6, <1>7, <1>8 DEF Told

LEMMA BuildTold ==
  ASSUME IInv, Told, Build
  PROVE  Told'
<1>1. script.phase = "build" /\ UNCHANGED <<containers, calls>>
  BY DEF Build
<1>2. CASE Fail
  BY <1>1, <1>2, FailTold
<1>3. CASE Goto("drain")
  <2>1. "drain" \in Phases
    BY DEF Phases
  <2>2. /\ script'.phase = "drain" /\ script'.mode = script.mode
        /\ script'.target = script.target /\ script'.drained = script.drained
        /\ script'.rollback = script.rollback
    BY <1>3, <2>1, GoesOn
  <2>3. Seen' /\ Named' /\ Modes'
    BY <1>1, <2>2 DEF Told, Seen, Named, Modes
  <2>4. \A c : Accepting(c)' <=> Accepting(c)
    BY <1>1 DEF Accepting
  <2>5. Before'
    BY <1>1, <2>2, <2>4, SameService DEF Told, Before
  <2>6. After' /\ Leaving'
    BY <2>2 DEF After, Leaving
  <2> QED BY <2>3, <2>5, <2>6 DEF Told
<1> QED BY <1>2, <1>3 DEF Build

LEMMA DrainTold ==
  ASSUME IInv, Told, Drain
  PROVE  Told'
<1>1. /\ script.phase = "drain" /\ UNCHANGED containers /\ script \in Script
      /\ script' = [script EXCEPT !.phase = "await", !.drained = script.target]
  BY DEF Drain, IInv, Controls
<1>2. /\ script'.phase = "await" /\ script'.mode = script.mode
      /\ script'.target = script.target /\ script'.drained = script.target
      /\ script'.rollback = script.rollback
  BY <1>1 DEF Script
<1>3. Seen' /\ Named' /\ Modes'
  BY <1>1, <1>2 DEF Told, Seen, Named, Modes
<1>4. Before'
  BY <1>1, <1>2, SameService DEF Told, Before
<1>5. After' /\ Leaving'
  BY <1>2 DEF After, Leaving
<1> QED BY <1>3, <1>4, <1>5 DEF Told

LEMMA LoseTold ==
  ASSUME IInv, Told, Lose
  PROVE  Told'
<1>1. UNCHANGED containers /\ calls' \subseteq calls
  BY DEF Lose
<1>2. CASE script.phase = "await" /\ Fail
  BY <1>1, <1>2, FailTold
<1>3. CASE script.phase = "resuming" /\ script' = [script EXCEPT !.phase = "ended", !.status = 2]
  <2>1. /\ script'.target = script.target /\ script'.drained = script.drained
        /\ script'.rollback = script.rollback /\ script'.status = 2
        /\ script'.mode = script.mode /\ script'.phase = "ended"
    BY <1>3 DEF IInv, Controls, Script
  <2>2. Seen' /\ Named' /\ Modes'
    BY <1>1, <2>1 DEF Told, Seen, Named, Modes
  <2>3. Before' /\ After' /\ Leaving'
    BY <2>1 DEF Before, After, Leaving, Promised
  <2> QED BY <2>2, <2>3 DEF Told
<1> QED BY <1>2, <1>3 DEF Lose

LEMMA PollTold ==
  ASSUME IInv, Told, Poll
  PROVE  Told'
<1>1. script.phase = "poll" /\ UNCHANGED <<containers, calls>>
  BY DEF Poll
<1>2. CASE Fail
  BY <1>1, <1>2, FailTold
<1>3. CASE Goto("swap")
  <2>1. "swap" \in Phases
    BY DEF Phases
  <2>2. /\ script'.phase = "swap" /\ script'.mode = script.mode
        /\ script'.target = script.target /\ script'.drained = script.drained
        /\ script'.rollback = script.rollback
    BY <1>3, <2>1, GoesOn
  <2>3. Seen' /\ Named' /\ Modes'
    BY <1>1, <2>2 DEF Told, Seen, Named, Modes
  <2>4. Before'
    BY <1>1, <2>2, SameService DEF Told, Before
  <2>5. After' /\ Leaving'
    BY <2>2 DEF After, Leaving
  <2> QED BY <2>3, <2>4, <2>5 DEF Told
<1> QED BY <1>2, <1>3 DEF Poll

LEMMA SwapTold ==
  ASSUME IInv, Told, Swap
  PROVE  Told'
<1>1. /\ script.phase = "swap" /\ UNCHANGED containers /\ script \in Script
      /\ script' = [script EXCEPT !.phase = "up", !.rollback = @ \/ script.mode = "update"]
  BY DEF Swap, IInv, Controls
<1>2. /\ script'.phase = "up" /\ script'.mode = script.mode
      /\ script'.target = script.target /\ script'.drained = script.drained
      /\ script'.rollback = (script.rollback \/ script.mode = "update")
  BY <1>1 DEF Script
<1>3. Seen' /\ Named' /\ Modes'
  BY <1>1, <1>2 DEF Told, Seen, Named, Modes
<1>4. Before' /\ After' /\ Leaving'
  BY <1>2 DEF Before, After, Leaving
<1> QED BY <1>3, <1>4 DEF Told

LEMMA ReadyTold ==
  ASSUME IInv, Told, Ready
  PROVE  Told'
<1>1. script.phase = "waiting" /\ UNCHANGED <<containers, calls>> /\ Goto("verify")
  BY DEF Ready
<1>2. "verify" \in Phases
  BY DEF Phases
<1>3. /\ script'.phase = "verify" /\ script'.mode = script.mode
      /\ script'.target = script.target /\ script'.drained = script.drained
      /\ script'.rollback = script.rollback
  BY <1>1, <1>2, GoesOn
<1>4. Seen' /\ Named' /\ Modes'
  BY <1>1, <1>3 DEF Told, Seen, Named, Modes
<1>5. After'
  BY <1>1, <1>3, SameService DEF Told, After
<1>6. Before' /\ Leaving'
  BY <1>3 DEF Before, Leaving
<1> QED BY <1>4, <1>5, <1>6 DEF Told

(* What was found healthy once more serves.                                 *)
LEMMA VerifyTold ==
  ASSUME IInv, Told, Verify
  PROVE  Told'
<1>1. script.phase = "verify" /\ UNCHANGED <<containers, calls>> /\ script \in Script
  BY DEF Verify, IInv, Controls
<1>2. CASE Fail
  BY <1>1, <1>2, FailTold
<1>3. CASE ~Fail
  <2>1. containers[Newest].healthy /\ Newest \in DOMAIN containers
    BY <1>3, NewestThere DEF Verify
  <2>2. Serves(Newest) /\ Newest \in Running
    BY <1>1, <2>1 DEF Told, Seen, After, Serves, Running, Present
  <2>3. CASE script.mode = "update"
    <3>1. script' = [script EXCEPT !.phase = "commit", !.rollback = FALSE]
      BY <1>3, <2>3 DEF Verify
    <3>2. /\ script'.target = script.target /\ script'.drained = script.drained
          /\ script'.rollback = FALSE /\ script'.mode = "update" /\ script'.phase = "commit"
      BY <1>1, <2>3, <3>1 DEF Script
    <3>3. Seen' /\ Named' /\ Modes'
      BY <1>1, <3>2 DEF Told, Seen, Named, Modes
    <3>4. After'
      BY <1>1, <2>2, <2>3, <3>2, SameService DEF Told, After
    <3>5. Before' /\ Leaving'
      BY <3>2 DEF Before, Leaving
    <3> QED BY <3>3, <3>4, <3>5 DEF Told
  <2>4. CASE script.mode # "update"
    <3>1. script' = [script EXCEPT !.phase = "resume", !.drained = None,
                                   !.status = IF script.mode = "restore" THEN 1 ELSE 0]
      BY <1>3, <2>4 DEF Verify
    <3>2. /\ script'.target = script.target /\ script'.drained = None
          /\ script'.rollback = script.rollback /\ script'.mode = script.mode
          /\ script'.phase = "resume"
      BY <1>1, <3>1 DEF Script
    <3>3. Seen' /\ Named' /\ Modes'
      BY <1>1, <2>4, <3>2 DEF Told, Seen, Named, Modes
    <3>4. PICK c \in Running : c = Newest
      BY <2>2
    <3>5. Serves(c)' /\ AsTold(c)' /\ Accepting(c)' /\ c \in Running'
      <4>1. containers[c].image = Image(script.mode) /\ Accepting(c)
        BY <1>1, <3>4 DEF Told, After, Accepting
      <4>2. Serves(c)' /\ c \in Running'
        BY <1>1, <2>2, <3>4, SameService
      <4> QED BY <1>1, <3>2, <4>1, <4>2 DEF AsTold, Accepting
    <3>6. None \notin Present'
      BY <1>1, FleetFacts, UpdateAssumption, SameService DEF IInv, Present
    <3>7. Before' /\ After'
      BY <3>2 DEF Before, After
    <3>8. Leaving'
      BY <3>2, <3>5, <3>6 DEF Leaving
    <3> QED BY <3>3, <3>7, <3>8 DEF Told
  <2> QED BY <2>3, <2>4
<1> QED BY <1>2, <1>3

LEMMA CommitTold ==
  ASSUME IInv, Told, Commit
  PROVE  Told'
<1>1. /\ script.phase = "commit" /\ UNCHANGED <<containers, calls>> /\ script \in Script
      /\ script' = [script EXCEPT !.phase = "clear", !.drained = None]
  BY DEF Commit, IInv, Controls
<1>2. /\ script'.target = script.target /\ script'.drained = None
      /\ script'.rollback = script.rollback /\ script'.mode = script.mode
      /\ script'.phase = "clear"
  BY <1>1 DEF Script
<1>3. Seen' /\ Named' /\ Modes'
  BY <1>1, <1>2 DEF Told, Seen, Named, Modes
<1>4. None # Newest
  BY FleetFacts, UpdateAssumption DEF IInv
<1>5. After'
  BY <1>1, <1>2, <1>4, SameService DEF Told, After
<1>6. Before' /\ Leaving'
  BY <1>2 DEF Before, Leaving
<1> QED BY <1>3, <1>5, <1>6 DEF Told

LEMMA ClearTold ==
  ASSUME IInv, Told, Clear
  PROVE  Told'
<1>1. /\ script.phase = "clear" /\ UNCHANGED <<containers, calls>> /\ script \in Script
      /\ script' = Exit(script, 0) /\ ~script.rollback /\ script.mode = "update"
  BY DEF Clear, IInv, Controls, Told, Modes
<1>2. /\ script'.target = script.target /\ script'.drained = script.drained
      /\ script'.rollback = script.rollback /\ script'.mode = "update"
      /\ script'.phase = "resume"
  BY <1>1 DEF Exit, Script
<1>3. Seen' /\ Named' /\ Modes'
  BY <1>1, <1>2 DEF Told, Seen, Named, Modes
<1>4. PICK c \in Running : /\ c = Newest /\ Serves(c) /\ Accepting(c) /\ Present = {c}
                           /\ script.drained # c /\ containers[c].image = "after"
  BY <1>1 DEF Told, After, Serves, Accepting, Image
<1>5. Serves(c)' /\ AsTold(c)' /\ Accepting(c)'
  BY <1>1, <1>2, <1>4, SameService DEF AsTold, Accepting, Image
<1>6. Before' /\ After'
  BY <1>2 DEF Before, After
<1>7. Leaving'
  BY <1>1, <1>2, <1>4, <1>5, SameService DEF Leaving
<1> QED BY <1>3, <1>6, <1>7 DEF Told

LEMMA RestoreTold ==
  ASSUME IInv, Told, Restore
  PROVE  Told'
<1>1. /\ script.phase = "restore" /\ UNCHANGED <<containers, calls>> /\ script \in Script
      /\ script.mode # "update"
  BY DEF Restore, IInv, Controls, Told, Modes
<1>2. CASE Fail
  BY <1>1, <1>2, FailTold
<1>3. ASSUME NEW phase \in {"up", "drain"}, NEW c \in Running \cup {script.target},
             script' = [script EXCEPT !.phase = phase, !.target = c]
      PROVE  Told'
  <2>1. /\ script'.target = c /\ script'.drained = script.drained
        /\ script'.rollback = script.rollback /\ script'.mode = script.mode
        /\ script'.phase = phase
    BY <1>1, <1>3 DEF Script
  <2>2. Seen' /\ Named' /\ Modes'
    BY <1>1, <2>1, SameService DEF Told, Seen, Named, Modes
  <2>3. Before' /\ After' /\ Leaving'
    BY <1>1, <2>1 DEF Before, After, Leaving
  <2> QED BY <2>2, <2>3 DEF Told
<1>4. CASE Running = {} /\ script' = [script EXCEPT !.phase = "up"]
  <2>1. script' = [script EXCEPT !.phase = "up", !.target = script.target]
    BY <1>1, <1>4 DEF Script
  <2> QED BY <1>3, <2>1
<1>5. CASE /\ Running # {}
           /\ script' = [script EXCEPT !.phase = "drain", !.target = CHOOSE c \in Running : TRUE]
  BY <1>3, <1>5
<1> QED BY <1>2, <1>4, <1>5 DEF Restore

(* The end of the script.                                                   *)
LEMMA ResumeTold ==
  ASSUME IInv, Told, Resume
  PROVE  Told'
<1>1. script.phase = "resume" /\ UNCHANGED containers /\ script \in Script
  BY DEF Resume, IInv, Controls
<1>2. CASE script.drained \in Running
  <2>1. calls' = calls \cup {[op |-> "resume", at |-> script.drained]} /\ Goto("resuming")
    BY <1>2 DEF Resume
  <2>2. "resuming" \in Phases
    BY DEF Phases
  <2>3. /\ script'.phase = "resuming" /\ script'.mode = script.mode
        /\ script'.target = script.target /\ script'.drained = script.drained
        /\ script'.rollback = script.rollback /\ script'.status = script.status
    BY <2>1, <2>2, GoesOn
  <2>4. Seen' /\ Named' /\ Modes'
    BY <1>1, <2>3 DEF Told, Seen, Named, Modes
  <2>5. Before' /\ After'
    BY <2>3 DEF Before, After
  <2>6. \A call \in calls' : call.op = "resume" => call.at = script.drained
    BY <1>1, <2>1 DEF IInv, Controls, ResumesLast
  <2>7. ASSUME Promised
        PROVE  \E c \in Running' : c = script'.drained /\ Serves(c)' /\ AsTold(c)'
    <3>1. PICK c \in Running : c = script.drained /\ Serves(c) /\ AsTold(c)
      BY <1>1, <1>2, <2>7 DEF Told, Leaving, Running
    <3>2. Serves(c)' /\ AsTold(c)'
      BY <1>1, <2>3, <3>1, SameService DEF AsTold
    <3>3. c = script'.drained /\ c \in Running'
      BY <1>1, <2>3, <3>1 DEF Running, Present
    <3> QED BY <3>2, <3>3
  <2>8. Promised' <=> Promised
    BY <2>3 DEF Promised
  <2>9. Leaving'
    BY <2>3, <2>6, <2>7, <2>8 DEF Leaving
  <2> QED BY <2>4, <2>5, <2>9 DEF Told
<1>3. CASE script.drained \notin Running
  <2>1. /\ script' = [script EXCEPT !.phase = "ended",
                        !.status = IF script.drained \in Present THEN 2 ELSE @]
        /\ UNCHANGED calls
    BY <1>3 DEF Resume
  <2>2. /\ script'.target = script.target /\ script'.drained = script.drained
        /\ script'.rollback = script.rollback /\ script'.mode = script.mode
        /\ script'.phase = "ended"
        /\ script'.status = IF script.drained \in Present THEN 2 ELSE script.status
    BY <1>1, <2>1 DEF Script
  <2>3. Seen' /\ Named' /\ Modes'
    BY <1>1, <2>2 DEF Told, Seen, Named, Modes
  <2>4. Before' /\ After'
    BY <2>2 DEF Before, After
  <2>5. ASSUME Promised'
        PROVE  \E c \in Running' : Serves(c)' /\ AsTold(c)' /\ ~containers'[c].draining
    <3>1. Promised /\ script'.status = script.status
      BY <2>2, <2>5 DEF Promised
    <3>2. PICK c \in Running : Serves(c) /\ AsTold(c) /\ Accepting(c)
      BY <1>1, <1>3, <3>1 DEF Told, Leaving
    <3> QED BY <1>1, <2>2, <3>1, <3>2, SameService DEF AsTold, Accepting
  <2>6. Leaving'
    BY <2>2, <2>5 DEF Leaving
  <2> QED BY <2>3, <2>4, <2>6 DEF Told
<1> QED BY <1>2, <1>3

LEMMA InterruptTold ==
  ASSUME IInv, Told, Interrupt
  PROVE  Told'
<1>1. UNCHANGED <<containers, calls>> /\ script' = Exit(script, 1)
  BY DEF Interrupt
<1>2. /\ script.mode # "restore"
      /\ script.phase \notin {"idle", "resume", "resuming", "ended", "killed"}
  BY DEF Interrupt, Over, Trapped
<1> QED BY <1>1, <1>2, ExitTold

LEMMA KillTold ==
  ASSUME IInv, Told, Kill
  PROVE  Told'
<1>1. "killed" \in Phases
  BY DEF Phases
<1>2. /\ script'.phase = "killed" /\ script'.mode = script.mode
      /\ script'.target = script.target /\ script'.drained = script.drained
      /\ script'.rollback = script.rollback
  BY <1>1, GoesOn DEF Kill
<1>3. Seen' /\ Named' /\ Modes'
  BY <1>2 DEF Kill, Told, Seen, Named, Modes
<1>4. Before' /\ After' /\ Leaving'
  BY <1>2 DEF Before, After, Leaving
<1> QED BY <1>3, <1>4 DEF Told

LEMMA RollbackTold ==
  ASSUME IInv, Told, Rollback
  PROVE  Told'
<1>1. /\ script'.phase = "restore" /\ script'.mode = "rollback"
      /\ script'.target = None /\ script'.drained = None /\ ~script'.rollback
  BY DEF Rollback, NewScript
<1>2. Seen' /\ Named' /\ Modes'
  BY <1>1 DEF Rollback, Told, Seen, Named, Modes
<1>3. Before' /\ After' /\ Leaving'
  BY <1>1 DEF Before, After, Leaving
<1> QED BY <1>2, <1>3 DEF Told

LEMMA UpFailsTold ==
  ASSUME IInv, Told, UpFails
  PROVE  Told'
BY FailTold DEF UpFails

-----------------------------------------------------------------------------
(* The invariant, and what it means for who called the script.              *)

LEMMA InitTold == Init => Told
<1> SUFFICES ASSUME Init PROVE Told
  OBVIOUS
<1>1. /\ DOMAIN containers = {1} /\ containers[1].state = "running" /\ containers[1].sound
      /\ script = NewScript /\ calls = {}
  BY DEF Init, Container
<1>2. /\ script.phase = "idle" /\ script.mode = "update"
      /\ script.target = None /\ script.drained = None
  BY <1>1 DEF NewScript
<1>3. Seen /\ Named /\ Modes
  BY <1>1, <1>2 DEF Seen, Named, Modes
<1>4. Before /\ After /\ Leaving
  BY <1>2 DEF Before, After, Leaving
<1> QED BY <1>3, <1>4 DEF Told

LEMMA StepTold == IInv /\ Told /\ [Next]_vars => Told'
<1> SUFFICES ASSUME IInv, Told, [Next]_vars PROVE Told'
  OBVIOUS
<1>1. ASSUME NEW r \in Requests, Enter(r) PROVE Told'
  BY <1>1, EnterTold
<1>2. ASSUME NEW r \in Requests, NEW event \in Events, Done(r, event) PROVE Told'
  BY <1>2, DoneTold
<1>3. ASSUME NEW c \in DOMAIN containers, Probe(c) \/ Crash(c) PROVE Told'
  BY <1>3, ProbeTold, CrashTold
<1>4. ASSUME NEW call \in calls, Serve(call) PROVE Told'
  BY <1>4, ServeTold
<1>5. CASE Start \/ Build \/ Drain \/ Lose \/ Poll \/ Swap
  BY <1>5, StartTold, BuildTold, DrainTold, LoseTold, PollTold, SwapTold
<1>6. CASE Create \/ Stop \/ StartNew \/ Ready \/ UpFails
  BY <1>6, CreateTold, StopTold, StartNewTold, ReadyTold, UpFailsTold
<1>7. CASE Verify \/ Commit \/ Clear \/ Restore \/ Resume
  BY <1>7, VerifyTold, CommitTold, ClearTold, RestoreTold, ResumeTold
<1>8. CASE Interrupt \/ Kill \/ Rollback
  BY <1>8, InterruptTold, KillTold, RollbackTold
<1>9. CASE UNCHANGED vars
  <2>1. UNCHANGED <<containers, script, calls, overtaken>>
    BY <1>9 DEF vars
  <2>2. \A c : (AsTold(c)' <=> AsTold(c)) /\ (Accepting(c)' <=> Accepting(c))
    BY <2>1 DEF AsTold, Accepting
  <2>3. Promised' <=> Promised
    BY <2>1 DEF Promised
  <2>4. Seen' /\ Named' /\ Modes'
    BY <2>1 DEF Told, Seen, Named, Modes
  <2>5. Before' /\ After' /\ Leaving'
    BY <2>1, <2>2, <2>3, SameService DEF Told, Before, After, Leaving
  <2> QED BY <2>4, <2>5 DEF Told
<1> QED BY <1>1, <1>2, <1>3, <1>4, <1>5, <1>6, <1>7, <1>8, <1>9 DEF Next

(* docker-update.sh finish, restore, main: what the exit status says of the  *)
(* service is so, for any number of requests and of containers, wherever a   *)
(* run fails or is interrupted.                                              *)
THEOREM ServiceAlwaysAsTold == Spec => []ServiceAsTold
<1>1. Told => ServiceAsTold
  BY DEF Told, Leaving, Promised, Serves, AsTold, Image, ServiceAsTold
<1>2. IInv /\ Told /\ [Next]_vars => Told'
  BY StepTold
<1> QED BY <1>1, <1>2, InitTold, UpdateInvariance, PTL DEF Spec
=============================================================================
