------------------------- MODULE MCWebSocketSession -------------------------
(* The instances: WebSocketHistory.cfg lets three requests on two lanes     *)
(* leave histories that fit together, evict each other or are too large;    *)
(* WebSocketTermination.cfg has two requests compete for a conversation and *)
(* for the last named stream, under fairness.                               *)
EXTENDS WebSocketSession, TLC

(* Of a request that is over only these can still be read: what it waited   *)
(* for, its size and its timer concern nobody, nor what it continued unless *)
(* it failed.                                                               *)
Visible ==
  <<aborted, named, tail, history, historyBytes, pendingRequests, pendingBytes,
    draining, active, lease,
    [t \in Ids |->
       IF tasks[t].stage # "settled" THEN <<tasks[t]>>
       ELSE IF tasks[t].failed THEN <<tasks[t].lane, tasks[t].completed, tasks[t].previous>>
       ELSE <<tasks[t].lane, tasks[t].completed>>]>>
=============================================================================
