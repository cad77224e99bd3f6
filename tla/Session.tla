-------------------------------- MODULE Session --------------------------------
(***************************************************************************)
(* The WebSocket sessions of the server (server/src/Ogmios/App/Server/     *)
(* WebSocket.hs): the life of a session, from newWebSocketApp down to its  *)
(* connections with the node, the worker that routes what the client sends *)
(* to the queues of the mini-protocol clients (routeMessage), and what     *)
(* sessions share, the metrics (recordSession, server/src/Ogmios/App/      *)
(* Metrics.hs).                                                            *)
(*                                                                         *)
(* A session is a thread.  Its worker is another, linked to it: an         *)
(* exception of the worker comes to the session whenever, and what becomes *)
(* of it depends on which handlers the session then is inside of.  The     *)
(* clients that read the queues are ChainSync, StateQuery, TxSubmission    *)
(* and TxMonitor; here a queue is all that was ever written to it.         *)
(***************************************************************************)
EXTENDS Naturals, FiniteSets, Sequences

CONSTANTS
  Sessions,     \* the connections that clients make, one session each
  Messages,     \* byte strings that clients send
  MaxMessages   \* bound of the model: messages that each client sends

VARIABLES
  phase,       \* where each session's thread is,
  node,        \* its two connections with the node,
  worker,      \* where its worker is,
  thrown,      \* and the exception of the worker it was not thrown yet
  cache,       \* routeMessage's argument: message and what to do again
  queues,      \* all that was written to each queue
  client,      \* is the client there, gone, or not understood any more?
  sent,        \* what it sent
  routed,      \* how many of these the worker routed
  totalConnections, activeConnections, sessionDurations,  \* sensors: counter,
  totalMessages, totalUnrouted                            \* gauge, samples

threadVars == <<phase, node, thrown>>
workerVars  == <<worker, cache, queues, routed>>
peerVars  == <<client, sent>>
sensorVars  == <<totalConnections, activeConnections, sessionDurations>>
countVars   == <<totalMessages, totalUnrouted>>
sessionVars == <<threadVars, workerVars, peerVars, sensorVars, countVars>>

(* The methods that handlers decode, and the queue each handler pushes to.  *)
ChainSyncMethods    == {"nextBlock", "findIntersection"}
TxSubmissionMethods == {"submitTransaction", "evaluateTransaction"}
StateQueryMethods   == {"acquireLedgerState", "releaseLedgerState", "queryLedgerState"}
TxMonitorMethods    == {"acquireMempool", "nextTransaction", "hasTransaction",
                        "sizeOfMempool", "releaseMempool"}

Queues == {"chainSync", "txSubmission", "stateQuery", "txMonitor"}

Route(m) ==
  CASE m.method \in ChainSyncMethods    -> "chainSync"
    [] m.method \in TxSubmissionMethods -> "txSubmission"
    [] m.method \in StateQueryMethods   -> "stateQuery"
    [] m.method \in TxMonitorMethods    -> "txMonitor"
    [] OTHER                            -> "unmatched"

ASSUME SessionAssumption ==
  /\ IsFiniteSet(Sessions)
  /\ \A m \in Messages : m.method \in STRING
  /\ MaxMessages \in [Sessions -> Nat]

-----------------------------------------------------------------------------
(* An operator ...Faulty is a wrong version of the next one.                *)

(* Phases: in acceptRequest and everything inside it, the worker alive; in  *)
(* all that onExceptions handles; between the two calls on the gauge.       *)
Serving    == {"open", "unwinding"}
Handled    == {"accepting"} \cup Serving
Registered == Handled \cup {"leaving", "recorded"}

Alive(s) == phase[s] \in Serving

(* The message being routed.                                                *)
Current(s) == sent[s][routed[s] + 1]

(* The cached message, when these bytes are its bytes.                      *)
IsAgainFaulty(s) == cache[s] # <<>> /\ Head(cache[s]).method = Current(s).method
IsAgain(s) == cache[s] = <<Current(s)>>

RememberedFaulty(m) == <<m>>
Remembered(m) == IF Route(m) = "unmatched" THEN <<>> ELSE <<m>>

Pushed(s, m) == [queues EXCEPT ![s][Route(m)] = Append(@, m)]

(* What the handlers around a session make of an exception of its worker:   *)
(* a client that left is the end of a session; other exceptions of the      *)
(* connection are thrown again, by the outermost handler.                   *)
AfterWorkerExceptionFaulty(s) == "escaped"
AfterWorkerException(s) ==
  IF phase[s] \in Handled /\ thrown[s] # "broken" THEN "leaving" ELSE "escaped"

Incremented(gauge) == gauge + 1

(* concurrently_ cancels the one connection when the other fails, and both  *)
(* when the session is thrown an exception.                                 *)
CancelledFaulty(s) == node[s]
Cancelled(s) == IF node[s] = "up" THEN "closed" ELSE node[s]

(* withAsync cancels the worker on the way out.                             *)
CancelWorker(s) ==
  /\ worker' = [worker EXCEPT ![s] = "cancelled"]
  /\ cache' = [cache EXCEPT ![s] = <<>>]
  /\ UNCHANGED <<queues, routed>>

SessionInit ==
  /\ phase  = [s \in Sessions |-> "pending"]
  /\ node   = [s \in Sessions |-> "none"]
  /\ worker = [s \in Sessions |-> "none"]
  /\ thrown = [s \in Sessions |-> "nothing"]
  /\ cache  = [s \in Sessions |-> <<>>]
  /\ queues = [s \in Sessions |-> [q \in Queues |-> <<>>]]
  /\ client = [s \in Sessions |-> "there"]
  /\ sent   = [s \in Sessions |-> <<>>]
  /\ routed = [s \in Sessions |-> 0]
  /\ totalConnections = 0
  /\ activeConnections = 0
  /\ sessionDurations = 0
  /\ totalMessages = 0
  /\ totalUnrouted = 0

-----------------------------------------------------------------------------
(* recordSession, up to the session proper.                                 *)
RegisterSession(s) ==
  /\ phase[s] = "pending"
  /\ phase' = [phase EXCEPT ![s] = "accepting"]
  /\ totalConnections' = totalConnections + 1
  /\ activeConnections' = Incremented(activeConnections)
  /\ UNCHANGED <<node, thrown, workerVars, peerVars, sessionDurations, countVars>>

(* The handshake, the queues, the worker with its link, and on to connect.  *)
Accept(s) ==
  /\ phase[s] = "accepting"
  /\ phase'  = [phase EXCEPT ![s] = "open"]
  /\ worker' = [worker EXCEPT ![s] = "count"]
  /\ node'   = [node EXCEPT ![s] = "up"]
  /\ UNCHANGED <<thrown, cache, queues, routed, peerVars, sensorVars, countVars>>

(* A failed handshake ends in onExceptions.                                 *)
AcceptFails(s) ==
  /\ phase[s] = "accepting"
  /\ phase' = [phase EXCEPT ![s] = "leaving"]
  /\ UNCHANGED <<node, thrown, workerVars, peerVars, sensorVars, countVars>>

-----------------------------------------------------------------------------
(* One of the two connections with the node fails, or cannot be made.       *)
ConnectionFails(s) ==
  /\ node[s] = "up"
  /\ node' = [node EXCEPT ![s] = "failed"]
  /\ UNCHANGED <<phase, thrown, workerVars, peerVars, sensorVars, countVars>>

(* The handlers next to it close with a message, or pass the exception on   *)
(* to those of onExceptions; either way the session is unwound.             *)
OnConnectionFailure(s) ==
  /\ phase[s] = "open"
  /\ node[s] = "failed"
  /\ phase' = [phase EXCEPT ![s] = "unwinding"]
  /\ UNCHANGED <<node, thrown, workerVars, peerVars, sensorVars, countVars>>

(* The handlers of onExceptions are behind.                                 *)
Unwind(s) ==
  /\ phase[s] = "unwinding"
  /\ phase' = [phase EXCEPT ![s] = "leaving"]
  /\ CancelWorker(s)
  /\ UNCHANGED <<node, thrown, peerVars, sensorVars, countVars>>

(* The session is thrown ExceptionInLinkedThread: whatever it was doing is  *)
(* undone, and the handlers it is inside of see it.                         *)
OnWorkerException(s) ==
  /\ thrown[s] # "nothing"
  /\ phase[s] \in Registered
  /\ phase'  = [phase EXCEPT ![s] = AfterWorkerException(s)]
  /\ node'   = [node EXCEPT ![s] = Cancelled(s)]
  /\ thrown' = [thrown EXCEPT ![s] = "nothing"]
  /\ CancelWorker(s)
  /\ UNCHANGED <<peerVars, sensorVars, countVars>>

(* recordSession, after the session proper; then the server closes.         *)
RecordDuration(s) ==
  /\ phase[s] = "leaving"
  /\ phase' = [phase EXCEPT ![s] = "recorded"]
  /\ sessionDurations' = sessionDurations + 1
  /\ UNCHANGED <<node, thrown, workerVars, peerVars, totalConnections,
                 activeConnections, countVars>>

DecrementGauge(s) ==
  /\ phase[s] = "recorded"
  /\ phase'  = [phase EXCEPT ![s] = "done"]
  /\ node'   = [node EXCEPT ![s] = "none"]
  /\ thrown' = [thrown EXCEPT ![s] = "nothing"]
  /\ client' = [client EXCEPT ![s] = "gone"]
  /\ activeConnections' = activeConnections - 1
  /\ UNCHANGED <<workerVars, sent, totalConnections, sessionDurations, countVars>>

-----------------------------------------------------------------------------
(* routeMessage: a message is counted, then awaited,                        *)
CountMessage(s) ==
  /\ Alive(s)
  /\ worker[s] = "count"
  /\ worker' = [worker EXCEPT ![s] = "receive"]
  /\ totalMessages' = totalMessages + 1
  /\ UNCHANGED <<threadVars, cache, queues, routed, peerVars, sensorVars,
                 totalUnrouted>>

Receive(s) ==
  /\ Alive(s)
  /\ worker[s] = "receive"
  /\ routed[s] < Len(sent[s])
  /\ worker' = [worker EXCEPT ![s] = "route"]
  /\ UNCHANGED <<threadVars, cache, queues, routed, peerVars, sensorVars, countVars>>

Loop(s) ==
  /\ worker' = [worker EXCEPT ![s] = "count"]
  /\ routed' = [routed EXCEPT ![s] = @ + 1]

(* and pushed again if it is the message of before,                         *)
RouteAgain(s) ==
  /\ Alive(s)
  /\ worker[s] = "route"
  /\ IsAgain(s)
  /\ queues' = Pushed(s, Head(cache[s]))
  /\ Loop(s)
  /\ UNCHANGED <<threadVars, cache, peerVars, sensorVars, countVars>>

(* or else decoded,                                                         *)
RouteMatched(s) ==
  /\ Alive(s)
  /\ worker[s] = "route"
  /\ ~IsAgain(s)
  /\ Route(Current(s)) # "unmatched"
  /\ queues' = Pushed(s, Current(s))
  /\ cache' = [cache EXCEPT ![s] = Remembered(Current(s))]
  /\ Loop(s)
  /\ UNCHANGED <<threadVars, peerVars, sensorVars, countVars>>

(* or refused, with an answer that fails if there is nobody to take it.     *)
Fail(s) ==
  /\ worker' = [worker EXCEPT ![s] = "failed"]
  /\ thrown' = [thrown EXCEPT ![s] = client[s]]

RouteUnmatched(s) ==
  /\ Alive(s)
  /\ worker[s] = "route"
  /\ ~IsAgain(s)
  /\ Route(Current(s)) = "unmatched"
  /\ totalUnrouted' = totalUnrouted + 1
  /\ \/ /\ Loop(s)
        /\ cache' = [cache EXCEPT ![s] = Remembered(Current(s))]
        /\ UNCHANGED thrown
     \/ /\ client[s] = "gone"
        /\ Fail(s)
        /\ routed' = [routed EXCEPT ![s] = @ + 1]
        /\ UNCHANGED cache
  /\ UNCHANGED <<phase, node, queues, peerVars, sensorVars, totalMessages>>

(* Receiving fails once the client is not there.                            *)
ReceiveFails(s) ==
  /\ Alive(s)
  /\ worker[s] = "receive"
  /\ client[s] # "there"
  /\ Fail(s)
  /\ UNCHANGED <<phase, node, cache, queues, routed, peerVars, sensorVars, countVars>>

-----------------------------------------------------------------------------
(* The client (external): it sends, it leaves, or a frame of it cannot be   *)
(* parsed.                                                                  *)
Send(s) ==
  /\ phase[s] = "open"
  /\ client[s] = "there"
  /\ Len(sent[s]) < MaxMessages[s]
  /\ \E m \in Messages : sent' = [sent EXCEPT ![s] = Append(@, m)]
  /\ UNCHANGED <<threadVars, workerVars, client, sensorVars, countVars>>

Leave(s) ==
  /\ Alive(s)
  /\ client[s] = "there"
  /\ client' = [client EXCEPT ![s] = "gone"]
  /\ UNCHANGED <<threadVars, workerVars, sent, sensorVars, countVars>>

Break(s) ==
  /\ Alive(s)
  /\ client[s] = "there"
  /\ client' = [client EXCEPT ![s] = "broken"]
  /\ UNCHANGED <<threadVars, workerVars, sent, sensorVars, countVars>>

Thread(s) ==
  \/ RegisterSession(s)
  \/ Accept(s)
  \/ AcceptFails(s)
  \/ OnConnectionFailure(s)
  \/ Unwind(s)
  \/ RecordDuration(s)
  \/ DecrementGauge(s)
  \/ OnWorkerException(s)

Worker(s) ==
  \/ CountMessage(s)
  \/ Receive(s)
  \/ RouteAgain(s)
  \/ RouteMatched(s)
  \/ RouteUnmatched(s)
  \/ ReceiveFails(s)

Peer(s) == Send(s) \/ Leave(s) \/ Break(s)

SessionNext ==
  \E s \in Sessions :
    \/ Thread(s)
    \/ ConnectionFails(s)
    \/ Worker(s)
    \/ Peer(s)

(* Threads are not starved; a worker that keeps receiving gets to the end.  *)
SessionSpec     == SessionInit /\ [][SessionNext]_sessionVars
SessionFairSpec ==
  /\ SessionSpec
  /\ \A s \in Sessions :
       /\ WF_sessionVars(Thread(s))
       /\ WF_sessionVars(Worker(s))
-----------------------------------------------------------------------------
(* Type invariant.                                                          *)
SessionTypeOK ==
  /\ phase \in [Sessions -> Registered \cup {"pending", "done", "escaped"}]
  /\ node \in [Sessions -> {"none", "up", "failed", "closed"}]
  /\ worker \in [Sessions -> {"none", "count", "receive", "route", "failed", "cancelled"}]
  /\ thrown \in [Sessions -> {"nothing", "gone", "broken"}]
  /\ cache \in [Sessions -> {<<>>} \cup {<<m>> : m \in Messages}]
  /\ queues \in [Sessions -> [Queues -> Seq(Messages)]]
  /\ client \in [Sessions -> {"there", "gone", "broken"}]
  /\ sent \in [Sessions -> Seq(Messages)]
  /\ routed \in [Sessions -> Nat]
  /\ \A s \in Sessions : routed[s] <= Len(sent[s])
  /\ {totalConnections, activeConnections, sessionDurations,
      totalMessages, totalUnrouted} \subseteq Nat

(* Each message that was received is written once, in the order of the      *)
(* client, to the queue of its method and to no other, whichever messages   *)
(* the worker replayed without decoding them: a queue is as long as there   *)
(* are messages of it among those routed, and the k-th of these is its k-th.*)
OfQueue(messages, q, n) == {j \in 1 .. n : Route(messages[j]) = q}
Rank(messages, q, n)    == Cardinality(OfQueue(messages, q, n))

RoutedInOrder ==
  \A s \in Sessions, q \in Queues :
    /\ Len(queues[s][q]) = Rank(sent[s], q, routed[s])
    /\ \A i \in OfQueue(sent[s], q, routed[s]) :
         queues[s][q][Rank(sent[s], q, i)] = sent[s][i]

(* "Number of WebSocket connections currently established with the server" *)
(* (docs/content/getting-started/monitoring.md:70): sessions are registered *)
(* until recordSession takes them off the gauge.                            *)
GaugeIsLive ==
  activeConnections = Cardinality({s \in Sessions : phase[s] \in Registered})

(* It is until a session ended by an exception recordSession does not see,  *)
(* which takes a connection that could not be parsed, or a client that left *)
(* while the connection with the node was failing.                          *)
Escaped == {s \in Sessions : phase[s] = "escaped"}

GaugeUntilEscaped ==
  /\ Escaped = {} => GaugeIsLive
  /\ \A s \in Escaped : client[s] = "broken" \/ node[s] = "failed"

(* Every unmatched message is counted as such, once each time it comes,     *)
(* whatever messages the worker replays without matching them.              *)
RoutedMessages == UNION {{s} \X (1 .. routed[s]) : s \in Sessions}
Unmatched == {r \in RoutedMessages : Route(sent[r[1]][r[2]]) = "unmatched"}

UnroutedAccounted == totalUnrouted = Cardinality(Unmatched)

(* When the client is not there, or the connection with the node failed,    *)
(* the session ends, and leaves neither a connection with the node nor a    *)
(* worker behind.                                                           *)
Ended(s) ==
  /\ phase[s] \in {"done", "escaped"}
  /\ node[s] # "up"

SessionEnds ==
  \A s \in Sessions :
    (Alive(s) /\ (client[s] # "there" \/ node[s] = "failed")) ~> Ended(s)
=============================================================================
