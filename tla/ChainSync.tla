------------------------------ MODULE ChainSync ------------------------------
(***************************************************************************)
(* The chain-synchronisation mini-protocol of one WebSocket connection     *)
(* (server/src/Ogmios/App/Protocol/ChainSync.hs), between the queue the    *)
(* routing worker fills and the node.                                      *)
(*                                                                         *)
(* The client of the WebSocket may send as many requests as it likes; the  *)
(* node protocol only allows a bounded pipeline and no 'findIntersection'  *)
(* while 'nextBlock' requests are being served.  The mini-protocol client  *)
(* reconciles the two: it pipelines 'nextBlock' requests, remembers in     *)
(* `buffer' to whom each answer is owed, and collects answers in between.  *)
(*                                                                         *)
(* A request is [id, kind]: the id stands for the request's JSON-RPC id    *)
(* and for the `toResponse' closure the code carries along with it.        *)
(***************************************************************************)
EXTENDS Naturals, Sequences

CONSTANTS
  MaxInFlight,   \* --max-in-flight
  MaxRequests    \* bound of the model: requests sent over the connection

ASSUME ChainSyncAssumption ==
  /\ MaxInFlight \in Nat
  /\ MaxRequests \in Nat

VARIABLES
  issued,       \* requests received so far; also the last id handed out
  queue,        \* chainSyncQ
  pc,           \* which continuation of the client runs next
  inFlight,     \* the type-level n of clientStIdle
  buffer,       \* requests waiting for an answer to a pipelined RequestNext
  intersecting, \* the request clientStIntersect answers: a sequence of <= 1
  toNode,       \* messages sent to the node and not served yet
  fromNode,     \* answers of the node that the client has not collected yet
  served,       \* RequestNext the node has answered
  rewound,      \* whether the node's read-pointer was just repositioned
  responses     \* what was yielded to the WebSocket, in order

clientVars == <<pc, inFlight, buffer, intersecting, responses>>
nodeVars   == <<served, rewound>>
vars == <<issued, queue, pc, inFlight, buffer, intersecting,
          toNode, fromNode, served, rewound, responses>>

Kind     == {"nextBlock", "findIntersection"}
Request  == [id : Nat, kind : Kind]
Rolls    == {"RollForward", "RollBackward"}
Verdicts == {"IntersectionFound", "IntersectionNotFound"}
Answer   == [tag : Rolls \cup Verdicts, serial : Nat]
Response == [to : Request,
             tag : Rolls \cup Verdicts \cup {"IntersectionInterleaved"},
             serial : Nat]

-----------------------------------------------------------------------------
(* The decisions the client takes.  An operator ...Faulty is a wrong        *)
(* version of the next one, that some property below must tell apart.       *)

(* A response carries the request it answers (`toResponse' reflects its id).*)
Reply(request, answer) ==
  [to |-> request, tag |-> answer.tag, serial |-> answer.serial]

(* writeTQueue.                                                             *)
Enqueue(q, request) == Append(q, request)

(* buffer |> toResponse, and the pattern toResponse :<| buffer.             *)
RememberFaulty(b, request) == b
Remember(b, request) == Append(b, request)
OwedFaulty(b) == b[Len(b)]
Owed(b) == Head(b)
StillOwed(b) == Tail(b)

(* Whether 'findIntersection' may be sent with n requests in flight.        *)
MayIntersect(n) == n = 0

(* What may follow a message pipelined with n in flight before it: with     *)
(* room left in the pipeline the client looks whether an answer is already  *)
(* there and otherwise goes back to its queue; without, it blocks until     *)
(* there is one.  What clientStIdle does when its queue is empty.           *)
AfterPipeliningFaulty(n) == "tryCollect"
AfterPipelining(n) == IF n = 0 \/ n < MaxInFlight THEN "tryCollect" ELSE "collect"
WhenQuietFaulty == "idle"
WhenQuiet == "collect"

Init ==
  /\ issued = 0
  /\ queue = <<>>
  /\ pc = "idle"
  /\ inFlight = 0
  /\ buffer = <<>>
  /\ intersecting = <<>>
  /\ toNode = <<>>
  /\ fromNode = <<>>
  /\ served = 0
  /\ rewound = FALSE
  /\ responses = <<>>

-----------------------------------------------------------------------------
(* The routing worker decoded a chain-sync request and pushes it.           *)
Push ==
  /\ issued < MaxRequests
  /\ issued' = issued + 1
  /\ \E kind \in Kind :
       queue' = Enqueue(queue, [id |-> issued + 1, kind |-> kind])
  /\ UNCHANGED <<clientVars, nodeVars, toNode, fromNode>>

(* clientStIdle on 'nextBlock': pipelined whatever the number in flight.    *)
PipelineNextBlock ==
  /\ pc = "idle"
  /\ queue # <<>>
  /\ Head(queue).kind = "nextBlock"
  /\ queue' = Tail(queue)
  /\ buffer' = Remember(buffer, Head(queue))
  /\ inFlight' = inFlight + 1
  /\ toNode' = Append(toNode, "MsgRequestNext")
  /\ pc' = AfterPipelining(inFlight)
  /\ UNCHANGED <<issued, intersecting, fromNode, nodeVars, responses>>

(* clientStIdle Zero on 'findIntersection'.                                 *)
SendFindIntersect ==
  /\ pc = "idle"
  /\ MayIntersect(inFlight)
  /\ queue # <<>>
  /\ Head(queue).kind = "findIntersection"
  /\ queue' = Tail(queue)
  /\ intersecting' = <<Head(queue)>>
  /\ toNode' = Append(toNode, "MsgFindIntersect")
  /\ pc' = "intersect"
  /\ UNCHANGED <<issued, inFlight, buffer, fromNode, nodeVars, responses>>

(* clientStIdle (Succ prev) on 'findIntersection': an error, at once.       *)
RejectInterleaved ==
  /\ pc = "idle"
  /\ ~MayIntersect(inFlight)
  /\ queue # <<>>
  /\ Head(queue).kind = "findIntersection"
  /\ queue' = Tail(queue)
  /\ responses' = Append(responses, Reply(Head(queue),
                    [tag |-> "IntersectionInterleaved", serial |-> 0]))
  /\ UNCHANGED <<issued, pc, inFlight, buffer, intersecting, toNode, fromNode,
                 nodeVars>>

(* clientStIdle (Succ prev) with nothing in the queue: wait for an answer.  *)
AwaitAnswer ==
  /\ pc = "idle"
  /\ inFlight > 0
  /\ queue = <<>>
  /\ pc' = WhenQuiet
  /\ UNCHANGED <<issued, queue, inFlight, buffer, intersecting, toNode,
                 fromNode, nodeVars, responses>>

(* CollectResponse with an alternative, and no answer has arrived.          *)
KeepPipelining ==
  /\ pc = "tryCollect"
  /\ fromNode = <<>>
  /\ pc' = "idle"
  /\ UNCHANGED <<issued, queue, inFlight, buffer, intersecting, toNode,
                 fromNode, nodeVars, responses>>

(* clientStNext: the oldest buffered request gets the oldest answer.  With  *)
(* an empty buffer the code calls `error'.                                  *)
CollectNext ==
  /\ pc \in {"collect", "tryCollect"}
  /\ fromNode # <<>>
  /\ Head(fromNode).tag \in Rolls
  /\ IF buffer = <<>>
       THEN /\ pc' = "error"
            /\ UNCHANGED <<inFlight, buffer, fromNode, responses>>
       ELSE /\ responses' = Append(responses, Reply(Owed(buffer), Head(fromNode)))
            /\ buffer' = StillOwed(buffer)
            /\ fromNode' = Tail(fromNode)
            /\ inFlight' = inFlight - 1
            /\ pc' = "idle"
  /\ UNCHANGED <<issued, queue, intersecting, toNode, nodeVars>>

(* clientStIntersect.                                                       *)
CollectIntersection ==
  /\ pc = "intersect"
  /\ fromNode # <<>>
  /\ Head(fromNode).tag \in Verdicts
  /\ responses' = Append(responses, Reply(Head(intersecting), Head(fromNode)))
  /\ intersecting' = <<>>
  /\ fromNode' = Tail(fromNode)
  /\ inFlight' = 0
  /\ buffer' = <<>>
  /\ pc' = "idle"
  /\ UNCHANGED <<issued, queue, toNode, nodeVars>>

-----------------------------------------------------------------------------
(* The node (external): it serves messages in order.  The first answer      *)
(* after its read-pointer was repositioned is a rollback to that position;  *)
(* later ones follow its chain, which may also switch to a fork.            *)
ServeNext ==
  /\ toNode # <<>>
  /\ Head(toNode) = "MsgRequestNext"
  /\ toNode' = Tail(toNode)
  /\ \E tag \in (IF rewound THEN {"RollBackward"} ELSE Rolls) :
       fromNode' = Append(fromNode, [tag |-> tag, serial |-> served + 1])
  /\ served' = served + 1
  /\ rewound' = FALSE
  /\ UNCHANGED <<issued, queue, clientVars>>

ServeIntersect ==
  /\ toNode # <<>>
  /\ Head(toNode) = "MsgFindIntersect"
  /\ toNode' = Tail(toNode)
  /\ \E tag \in Verdicts :
       /\ fromNode' = Append(fromNode, [tag |-> tag, serial |-> 0])
       /\ rewound' = (rewound \/ tag = "IntersectionFound")
  /\ UNCHANGED <<issued, queue, clientVars, served>>

-----------------------------------------------------------------------------
Client ==
  \/ PipelineNextBlock
  \/ SendFindIntersect
  \/ RejectInterleaved
  \/ AwaitAnswer
  \/ KeepPipelining
  \/ CollectNext
  \/ CollectIntersection

Node == ServeNext \/ ServeIntersect

Next == Push \/ Client \/ Node

(* The mini-protocol thread is never starved by the runtime.  The node owes *)
(* an answer to every message: at the tip, it gives it with the next block. *)
Fairness == WF_vars(Client) /\ WF_vars(Node)

Spec     == Init /\ [][Next]_vars
FairSpec == Spec /\ Fairness
-----------------------------------------------------------------------------
(* Type invariant.                                                          *)
TypeOK ==
  /\ issued \in Nat
  /\ queue \in Seq(Request)
  /\ pc \in {"idle", "tryCollect", "collect", "intersect", "error"}
  /\ inFlight \in Nat
  /\ buffer \in Seq(Request)
  /\ intersecting \in Seq(Request)
  /\ toNode \in Seq({"MsgRequestNext", "MsgFindIntersect"})
  /\ fromNode \in Seq(Answer)
  /\ served \in Nat
  /\ rewound \in BOOLEAN
  /\ responses \in Seq(Response)

(* Every RequestNext the client has in flight, and nothing else, is at the  *)
(* node or on its way back, and somebody in the buffer waits for it.        *)
PipelineAccounted ==
  pc # "intersect" =>
    /\ Len(buffer) = inFlight
    /\ Len(toNode) + Len(fromNode) = inFlight
    /\ intersecting = <<>>
    /\ \A i \in DOMAIN toNode : toNode[i] = "MsgRequestNext"
    /\ \A i \in DOMAIN fromNode : fromNode[i].tag \in Rolls
    /\ pc \in {"collect", "tryCollect"} => inFlight > 0

(* The node protocol's agency: an intersection is only ever sought when the *)
(* node owes nothing else, and then it owes exactly that.                   *)
IntersectAlone ==
  pc = "intersect" =>
    /\ Len(intersecting) = 1
    /\ Len(toNode) + Len(fromNode) = 1
    /\ inFlight = 0
    /\ buffer = <<>>
    /\ \A i \in DOMAIN toNode : toNode[i] = "MsgFindIntersect"
    /\ \A i \in DOMAIN fromNode : fromNode[i].tag \in Verdicts

(* The `error "invariant violation: empty buffer on clientStNext"' of the   *)
(* code is never evaluated.                                                 *)
NeverErrors == pc # "error"

(* The pipeline is bounded, by one more than --max-in-flight: the test that *)
(* stops it (natToInt n < maxInFlight) is made once the message is sent.    *)
PipelineBounded ==
  inFlight <= 1 + (IF MaxInFlight = 0 THEN 1 ELSE MaxInFlight)

(* maxInFlightOption, as the command-line's help has it: --max-in-flight is *)
(* the "Max number of ChainSync requests which can be pipelined at once".   *)
InFlightLimited == inFlight <= MaxInFlight

(* Requests that have no response yet, oldest first.                        *)
Pending == buffer \o intersecting \o queue

(* Every request is eventually answered.                                    *)
EveryRequestAnswered ==
  \A id \in 1 .. MaxRequests :
    issued >= id ~> \E j \in DOMAIN responses : responses[j].to.id = id

(* Seen from the WebSocket, the pipeline does not exist.                    *)
Service == INSTANCE ChainSyncService WITH
  pending   <- Pending,
  delivered <- IF pc = "intersect" THEN served ELSE served - Len(fromNode)

ImplementsService == Service!Spec
=============================================================================
