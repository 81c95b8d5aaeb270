---------------------------- MODULE GatewayUpdate ----------------------------
(***************************************************************************)
(* Replacing a running gateway without cutting off a request:               *)
(* src/scripts/docker-update.sh drains the container's gateway over its     *)
(* control socket (src/src/ops/), waits until RequestDrain                  *)
(* (src/src/http/request-drain.ts) counts no request, has Docker Compose    *)
(* replace the container, and goes back to the former image if that fails.  *)
(* A second run may be a rollback by hand.                                  *)
(*                                                                         *)
(* One script runs at a time (it holds a lock), and nobody else deploys.    *)
(***************************************************************************)
EXTENDS Integers, FiniteSets

CONSTANTS
  Requests,             \* business requests
  None,                 \* no container
  MaxContainers         \* bound: containers ever created

ASSUME UpdateAssumption ==
  /\ IsFiniteSet(Requests)
  /\ MaxContainers \in Nat \ {0, 1}
  /\ None \notin Nat

VARIABLES
  containers,           \* by their number, with the gateway in each
  requests,
  script,
  calls,                \* control-cli.js processes that have not been served
  overtaken             \* a drain was served behind the resume; not in the code

vars == <<containers, requests, script, calls, overtaken>>

(* sound is whether the image works here, healthy what Docker last saw;     *)
(* draining and active are RequestDrain's.                                  *)
Container(image, state, sound) ==
  [image |-> image, state |-> state, sound |-> sound, healthy |-> FALSE,
   draining |-> FALSE, active |-> 0]

Present == {c \in DOMAIN containers : containers[c].state # "removed"}

Running == {c \in Present : containers[c].state = "running"}

(* The events that may end a request: its response is finished, the         *)
(* connection closed, or upgraded to a WebSocket.                           *)
Events == {"finish", "close", "upgrade"}

Ongoing(c) == {r \in Requests : requests[r].at = c /\ requests[r].events = {}}

-----------------------------------------------------------------------------
(* The gateway.                                                             *)

(* The onRequest hook and enter(); a draining gateway answers 503.          *)
Enter(r) ==
  /\ requests[r].at = None
  /\ \E c \in Running :
       /\ ~containers[c].draining
       /\ requests' = [requests EXCEPT ![r].at = c]
       /\ containers' = [containers EXCEPT ![c].active = @ + 1]
  /\ UNCHANGED <<script, calls, overtaken>>

(* Mutant of Released: each event gives the slot back.                      *)
ReleasedNever(request) == FALSE

(* done() has taken its listeners off.                                      *)
Released(request) == request.events # {}

(* done()                                                                   *)
Done(r, event) ==
  LET c == requests[r].at
  IN  /\ c \in Running /\ event \notin requests[r].events
      /\ event # "upgrade" \/ requests[r].events = {}
      /\ requests' = [requests EXCEPT ![r].events = @ \cup {event}]
      /\ containers' = IF Released(requests[r]) THEN containers
                       ELSE [containers EXCEPT ![c].active = @ - 1]
      /\ UNCHANGED <<script, calls, overtaken>>

(* Docker asks GET /health/ready, which a draining gateway denies.          *)
Probe(c) ==
  /\ c \in Running
  /\ containers' = [containers EXCEPT ![c].healthy = containers[c].sound /\ ~containers[c].draining]
  /\ UNCHANGED <<requests, script, calls, overtaken>>

-----------------------------------------------------------------------------
(* The script.  rollback is rollback_needed, drained drained_container; in   *)
(* mode "restore" the exit trap calls restore(), in mode "rollback" main()  *)
(* does.  status is 0, 2 if the gateway needs a look, or 1 for any other.   *)
NewScript ==
  [mode |-> "update", phase |-> "idle", target |-> None, drained |-> None,
   rollback |-> FALSE, backup |-> FALSE, status |-> 0]

(* finish(), the exit trap, begins.                                         *)
Exit(s, status) ==
  [s EXCEPT !.status = status,
            !.mode = IF s.rollback THEN "restore" ELSE @,
            !.phase = IF s.rollback THEN "restore" ELSE "resume"]

(* A command fails: in main() that ends the script, in restore() the        *)
(* rollback.                                                                *)
Failed(s) == IF s.mode = "update" THEN Exit(s, 1)
             ELSE [s EXCEPT !.status = 2, !.phase = "resume"]

Goto(phase) == script' = [script EXCEPT !.phase = phase]

Fail == script' = Failed(script)

(* The existing gateway is healthy and not draining, and saved.             *)
Start ==
  /\ script.phase = "idle"
  /\ \E c \in Running :
       /\ Present = {c} /\ containers[c].healthy /\ ~containers[c].draining
       /\ script' = [script EXCEPT !.phase = "build", !.target = c, !.backup = TRUE]
  /\ UNCHANGED <<containers, requests, calls, overtaken>>

Build ==
  /\ script.phase = "build"
  /\ \/ containers[script.target].healthy /\ Goto("drain")
     \/ Fail
  /\ UNCHANGED <<containers, requests, calls, overtaken>>

Call(op) == calls' = calls \cup {[op |-> op, at |-> script.target]}

(* Mutant of Drain: the container is recorded when the reply is there.      *)
DrainUnrecorded ==
  /\ script.phase = "drain" /\ Call("drain")
  /\ script' = [script EXCEPT !.phase = "await"]
  /\ UNCHANGED <<containers, requests, overtaken>>

(* drain_and_wait() records the container before it asks for anything.      *)
Drain ==
  /\ script.phase = "drain" /\ Call("drain")
  /\ script' = [script EXCEPT !.phase = "await", !.drained = script.target]
  /\ UNCHANGED <<containers, requests, overtaken>>

Awaited(call) ==
  \/ call.op = "drain" /\ script.phase = "await" /\ call.at = script.target
  \/ call.op = "resume" /\ script.phase = "resuming"

Replied(call) ==
  CASE call.op = "resume" -> "ended"
    [] call.op = "drain" -> IF containers[call.at].active = 0 THEN "swap" ELSE "poll"

(* The gateway serves a request of its control socket, whether or not the   *)
(* script is still there to hear of it.                                     *)
Serve(call) ==
  /\ call.at \in Running
  /\ containers' = [containers EXCEPT ![call.at].draining = call.op = "drain"]
  /\ calls' = calls \ {call}
  /\ IF Awaited(call) THEN Goto(Replied(call)) ELSE UNCHANGED script
  /\ overtaken' = (overtaken \/ (call.op = "drain" /\ script.phase = "ended"))
  /\ UNCHANGED requests

(* control-cli.js fails or takes more than 3 s.  Its request is never        *)
(* served, or the gateway serves it without the script hearing of it.       *)
Lose ==
  /\ \/ script.phase = "await" /\ Fail
     \/ script.phase = "resuming"
        /\ script' = [script EXCEPT !.phase = "ended", !.status = 2]
  /\ \E call \in {call \in calls : Awaited(call)} :
       calls' \in {calls, calls \ {call}}
  /\ UNCHANGED <<containers, requests, overtaken>>

Idle(c) == containers[c].draining /\ containers[c].active = 0

(* GET /status every 2 s, up to the deadline.                               *)
Poll ==
  /\ script.phase = "poll"
  /\ \/ script.target \in Running /\ Idle(script.target) /\ Goto("swap")
     \/ Fail
  /\ UNCHANGED <<containers, requests, calls, overtaken>>

Swap ==
  /\ script.phase = "swap"
  /\ script' = [script EXCEPT !.phase = "up", !.rollback = @ \/ script.mode = "update"]
  /\ UNCHANGED <<containers, requests, calls, overtaken>>

-----------------------------------------------------------------------------
(* docker compose up --force-recreate --wait: a new container is created,   *)
(* the old one stopped and removed, the new one started.                    *)

Newest == Cardinality(DOMAIN containers)

Create ==
  /\ script.phase = "up" /\ Newest < MaxContainers
  /\ \E sound \in BOOLEAN :
       LET image == IF script.mode = "update" THEN "after" ELSE "before"
       IN containers' = [c \in 1 .. Newest + 1 |->
            IF c \in DOMAIN containers THEN containers[c]
            ELSE Container(image, "created", sound)]
  /\ Goto("created")
  /\ UNCHANGED <<requests, calls, overtaken>>

Gone(c) == [containers[c] EXCEPT !.state = "removed", !.healthy = FALSE]

Stop ==
  /\ script.phase = "created" /\ Goto("stopped")
  /\ containers' = [c \in DOMAIN containers |-> IF c = Newest THEN containers[c] ELSE Gone(c)]
  /\ calls' = {}
  /\ UNCHANGED <<requests, overtaken>>

StartNew ==
  /\ script.phase = "stopped" /\ Goto("waiting")
  /\ containers' = [containers EXCEPT ![Newest].state = "running"]
  /\ UNCHANGED <<requests, calls, overtaken>>

Ready ==
  /\ script.phase = "waiting" /\ containers[Newest].healthy /\ Goto("verify")
  /\ UNCHANGED <<containers, requests, calls, overtaken>>

UpFails ==
  /\ script.phase \in {"up", "created", "stopped", "waiting"} /\ Fail
  /\ UNCHANGED <<containers, requests, calls, overtaken>>

-----------------------------------------------------------------------------
(* healthy() once more; restore() is done then.                             *)
Verify ==
  /\ script.phase = "verify"
  /\ \/ /\ containers[Newest].healthy
        /\ script' = IF script.mode = "update"
             THEN [script EXCEPT !.phase = "commit", !.rollback = FALSE]
             ELSE [script EXCEPT !.phase = "resume", !.drained = None,
                                 !.status = IF script.mode = "restore" THEN 1 ELSE 0]
     \/ ~containers[Newest].healthy /\ Fail
  /\ UNCHANGED <<containers, requests, calls, overtaken>>

Commit ==
  /\ script.phase = "commit"
  /\ script' = [script EXCEPT !.phase = "clear", !.drained = None]
  /\ UNCHANGED <<containers, requests, calls, overtaken>>

Clear ==
  /\ script.phase = "clear" /\ script' = Exit(script, 0)
  /\ UNCHANGED <<containers, requests, calls, overtaken>>

(* Mutant of Restore: the gateway in the way is just replaced.              *)
RestoreUndrained ==
  /\ script.phase = "restore"
  /\ \/ Cardinality(Present) <= 1 /\ Goto("up")
     \/ Fail
  /\ UNCHANGED <<containers, requests, calls, overtaken>>

(* restore(): the backup is there and there is at most one container; a     *)
(* gateway that runs is drained first.                                      *)
Restore ==
  /\ script.phase = "restore"
  /\ \/ /\ Cardinality(Present) <= 1
        /\ script' = IF Running = {} THEN [script EXCEPT !.phase = "up"]
             ELSE [script EXCEPT !.phase = "drain", !.target = CHOOSE c \in Running : TRUE]
     \/ Fail
  /\ UNCHANGED <<containers, requests, calls, overtaken>>

(* The end of finish(): a drained gateway that is still there is resumed.   *)
Resume ==
  /\ script.phase = "resume"
  /\ IF script.drained \in Running
       THEN calls' = calls \cup {[op |-> "resume", at |-> script.drained]} /\ Goto("resuming")
       ELSE /\ script' = [script EXCEPT !.phase = "ended",
                 !.status = IF script.drained \in Present THEN 2 ELSE @]
            /\ UNCHANGED calls
  /\ UNCHANGED <<containers, requests, overtaken>>

-----------------------------------------------------------------------------
Trapped == script.mode = "restore" \/ script.phase \in {"resume", "resuming"}

Over == script.phase \in {"idle", "ended", "killed"}

(* INT, TERM or HUP ends the script and its child, but not what that has    *)
(* started in a container.                                                  *)
Interrupt ==
  /\ ~Over /\ ~Trapped /\ script' = Exit(script, 1)
  /\ UNCHANGED <<containers, requests, calls, overtaken>>

(* The script is killed.                                                    *)
Kill ==
  /\ ~Over /\ Goto("killed")
  /\ UNCHANGED <<containers, requests, calls, overtaken>>

(* docker-update.sh --rollback, once, and not before the processes of the   *)
(* earlier run are gone.                                                    *)
Rollback ==
  /\ script.phase \in {"ended", "killed"} /\ script.backup /\ calls = {}
  /\ script' = [NewScript EXCEPT !.mode = "rollback", !.phase = "restore"]
  /\ overtaken' = FALSE
  /\ UNCHANGED <<containers, requests, calls>>

(* A gateway that does not work may stop.                                   *)
Crash(c) ==
  /\ c \in Running /\ ~containers[c].sound
  /\ containers' = [containers EXCEPT ![c].state = "exited", ![c].healthy = FALSE]
  /\ calls' = {call \in calls : call.at # c}
  /\ UNCHANGED <<requests, script, overtaken>>

Init ==
  /\ containers = [c \in {1} |-> [Container("before", "running", TRUE) EXCEPT !.healthy = TRUE]]
  /\ requests = [r \in Requests |-> [at |-> None, events |-> {}]]
  /\ script = NewScript /\ calls = {} /\ overtaken = FALSE

Next ==
  \/ \E r \in Requests : Enter(r) \/ \E event \in Events : Done(r, event)
  \/ \E c \in DOMAIN containers : Probe(c) \/ Crash(c)
  \/ \E call \in calls : Serve(call)
  \/ Start \/ Build \/ Drain \/ Lose \/ Poll \/ Swap
  \/ Create \/ Stop \/ StartNew \/ Ready \/ UpFails
  \/ Verify \/ Commit \/ Clear \/ Restore \/ Resume
  \/ Interrupt \/ Kill \/ Rollback

Spec == Init /\ [][Next]_vars

-----------------------------------------------------------------------------
(* RequestDrain counts the requests that are under way, each of them once,  *)
(* in whatever order the events that end it come.                           *)
CountsOngoing ==
  \A c \in Running : containers[c].active = Cardinality(Ongoing(c))

(* No request that a gateway has accepted is cut off by its replacement,    *)
(* nor by the rollback of that: its container runs until the request has    *)
(* ended, unless the gateway itself breaks down.                            *)
NothingCut ==
  [][\A c \in Running : containers[c].sound /\ Ongoing(c) # {} => c \in Running']_vars

(* What the script's exit status says is so: after 0 the new image (or,     *)
(* after a rollback, the old one) serves, and after a failure other than 2  *)
(* some gateway that was found healthy does, and accepts requests: it was   *)
(* resumed, however the script ended.  This takes a control process that    *)
(* was interrupted to be no slower than the resume after it, and a rollback *)
(* by hand not to be interrupted.                                           *)
ServiceAsTold ==
  script.phase = "ended" /\ script.status # 2 /\ ~(script.mode = "rollback" /\ script.status = 1) =>
    \E c \in Running :
      /\ Present = {c} /\ containers[c].draining => overtaken
      /\ script.status = 0 =>
           containers[c].image = IF script.mode = "update" THEN "after" ELSE "before"
=============================================================================
