------------------------------ MODULE TxMonitor ------------------------------
(***************************************************************************)
(* The local-tx-monitor mini-protocol of one WebSocket connection          *)
(* (server/src/Ogmios/App/Protocol/TxMonitor.hs), between the queue the    *)
(* routing worker fills and the node, whose mempool is LocalNode's.        *)
(*                                                                         *)
(* The client of the WebSocket acquires a snapshot of the mempool, pulls   *)
(* its transactions one by one, asks whether it has a transaction or how   *)
(* many there are, and acquires again, which waits for a change.           *)
(*                                                                         *)
(* The node only finds a transaction by an id wrapped in the era of its    *)
(* mempool; the client, which does not know it, tries the eras in turn.    *)
(***************************************************************************)
EXTENDS LocalNode, Integers

CONSTANT MaxRequests   \* bound of the model: requests sent over the connection

ASSUME TxMonitorAssumption == MaxRequests \in Nat

VARIABLES
  issued,      \* requests received so far; also the last id handed out
  queue,       \* txMonitorQ
  client,      \* continuation of the client that runs next
  current,     \* the request it is serving: a sequence of <= 1
  eras,        \* eras left to try a transaction's id in
  acquired,    \* the state of the mempool acquired at the node, or none
  cursor,      \* transactions the node gave since
  responses    \* what was yielded to the WebSocket, in order

vars == <<mempools, issued, queue, client, current, eras, acquired, cursor, responses>>

None == 0
Mary == 3

(* Requests, by what they ask; `tx' is for hasTransaction alone.            *)
Asks     == {"acquire", "next", "has", "size", "release"}
Request  == [id : Nat, ask : Asks, tx : Nat]

(* `snapshot' is the state of the mempool a response is about.              *)
Response == [to : Nat, ask : Asks, snapshot : Nat, value : Nat \cup {-1}]

NoTx            == 0    \* the response to nextTransaction after the last one
MustAcquireFirst == -1   \* what every request but the first kind gets when idle

-----------------------------------------------------------------------------
(* inMultipleEras: the most probable first.                                 *)
InMultipleErasFaulty == <<Conway, Babbage, Alonzo, Mary>>
InMultipleEras == <<Conway, Babbage, Alonzo, Mary, Dijkstra>>

(* What acquiring asks of the node when there is a snapshot already:        *)
(* SendMsgAwaitAcquire.                                                     *)
ReacquireFaulty == TRUE
Reacquire == acquired # Now

(* Where the client goes once it has answered.                              *)
BackFaulty == "idle"
Back == "acquired"

Dequeued == Tail(queue)

Served == <<>>

(* The eras that are left to try.                                           *)
UntriedFaulty == eras
Untried == Tail(eras)

IdsOf(snapshot)      == mempools[snapshot].ids
InSnapshot(tx, snap) == \E i \in DOMAIN IdsOf(snap) : IdsOf(snap)[i] = tx

Init ==
  /\ NodeInit
  /\ issued = 0
  /\ queue = <<>>
  /\ client = "idle"
  /\ current = <<>>
  /\ eras = <<>>
  /\ acquired = None
  /\ cursor = 0
  /\ responses = <<>>

-----------------------------------------------------------------------------
Respond(request, value, snapshot) ==
  responses' = Append(responses, [to |-> request.id, ask |-> request.ask,
                                  snapshot |-> snapshot, value |-> value])

Answer(value, snapshot) ==
  /\ Respond(current[1], value, snapshot)
  /\ current' = Served

(* The routing worker decoded a request and pushes it.                      *)
Push ==
  /\ issued < MaxRequests
  /\ issued' = issued + 1
  /\ \E ask \in Asks :
       queue' = Append(queue, [id |-> issued + 1, ask |-> ask, tx |-> 1])
  /\ UNCHANGED <<mempools, client, current, eras, acquired, cursor, responses>>

(* clientStIdle on anything but AcquireMempool.                             *)
RefuseIdle ==
  /\ client = "idle"
  /\ queue # <<>>
  /\ Head(queue).ask # "acquire"
  /\ queue' = Dequeued
  /\ Respond(Head(queue), MustAcquireFirst, None)
  /\ UNCHANGED <<mempools, issued, client, current, eras, acquired, cursor>>

(* clientStIdle and clientStAcquired: the message that goes to the node.    *)
Serve ==
  /\ client \in {"idle", "acquired"}
  /\ queue # <<>>
  /\ client = "idle" => Head(queue).ask = "acquire"
  /\ queue' = Dequeued
  /\ current' = <<Head(queue)>>
  /\ client' = Head(queue).ask
  /\ eras' = IF Head(queue).ask = "has" THEN InMultipleEras ELSE <<>>
  /\ UNCHANGED <<mempools, issued, acquired, cursor, responses>>

(* Answers of the node, and the continuations they run.                     *)
OnAcquired ==
  /\ client = "acquire"
  /\ acquired = None \/ Reacquire
  /\ acquired' = Now
  /\ cursor' = 0
  /\ Answer(Now, Now)
  /\ client' = Back
  /\ UNCHANGED <<mempools, issued, queue, eras>>

OnNextTx ==
  /\ client = "next"
  /\ IF cursor < Len(IdsOf(acquired))
       THEN cursor' = cursor + 1 /\ Answer(IdsOf(acquired)[cursor + 1], acquired)
       ELSE cursor' = cursor /\ Answer(NoTx, acquired)
  /\ client' = Back
  /\ UNCHANGED <<mempools, issued, queue, eras, acquired>>

(* HasTransaction's loop: an id in one era after the other, until found.    *)
HasIt == InSnapshot(current[1].tx, acquired) /\ mempools[acquired].era = Head(eras)

OnHasTx ==
  /\ client = "has"
  /\ eras # <<>>
  /\ IF HasIt
       THEN /\ Answer(1, acquired)
            /\ eras' = <<>>
            /\ client' = Back
       ELSE /\ eras' = Untried
            /\ UNCHANGED <<client, current, responses>>
  /\ UNCHANGED <<mempools, issued, queue, acquired, cursor>>

HasNoMore ==
  /\ client = "has"
  /\ eras = <<>>
  /\ Answer(0, acquired)
  /\ client' = Back
  /\ UNCHANGED <<mempools, issued, queue, eras, acquired, cursor>>

OnSizes ==
  /\ client = "size"
  /\ Answer(Len(IdsOf(acquired)), acquired)
  /\ client' = Back
  /\ UNCHANGED <<mempools, issued, queue, eras, acquired, cursor>>

OnReleased ==
  /\ client = "release"
  /\ acquired' = None
  /\ cursor' = 0
  /\ Answer(0, None)
  /\ client' = "idle"
  /\ UNCHANGED <<mempools, issued, queue, eras>>

(* The node (external): a transaction enters the mempool, or a block is     *)
(* adopted.                                                                 *)
NodeChanges ==
  /\ Accept(Now) \/ AdoptBlock
  /\ UNCHANGED <<issued, queue, client, current, eras, acquired, cursor, responses>>

-----------------------------------------------------------------------------
Client ==
  \/ RefuseIdle
  \/ Serve
  \/ OnAcquired
  \/ OnNextTx
  \/ OnHasTx
  \/ HasNoMore
  \/ OnSizes
  \/ OnReleased

Next == Push \/ Client \/ NodeChanges

(* The mini-protocol thread is not starved, the node answers, and while a   *)
(* snapshot is awaited its mempool or tip changes: blocks keep coming.      *)
Awaited == client = "acquire" /\ acquired = Now

Spec     == Init /\ [][Next]_vars
FairSpec == Spec /\ WF_vars(Client) /\ WF_vars(NodeChanges /\ Awaited)
-----------------------------------------------------------------------------
(* Type invariant.                                                          *)
TypeOK ==
  /\ mempools \in Seq(Mempool)
  /\ issued \in Nat
  /\ queue \in Seq(Request)
  /\ client \in Asks \cup {"idle", "acquired"}
  /\ Len(current) = IF client \in Asks THEN 1 ELSE 0
  /\ eras \in Seq(Eras)
  /\ acquired \in 0 .. Now
  /\ cursor \in Nat
  /\ responses \in Seq(Response)

(* Nothing but the first acquisition goes to the node without a snapshot,   *)
(* as its protocol demands, and requests are answered in order, once each.  *)
AnsweredInOrder ==
  /\ client \notin {"idle", "acquire"} => acquired # None
  /\ client = "idle" => acquired = None
  /\ \A i \in DOMAIN responses : responses[i].to = i
  /\ \A i \in DOMAIN current : current[i].id = Len(responses) + 1
  /\ Len(responses) + Len(current) + Len(queue) = issued

(* "Once acquired, queries are guaranteed to be consistent. In particular,  *)
(* nextTransaction will never yield twice the same transaction for the same *)
(* snapshot and sizeOfMempool will remain constant."                        *)
(* (docs/content/mini-protocols/local-tx-monitor.md:35): what is said of a  *)
(* snapshot, however the mempool and its era change meanwhile, is what it   *)
(* was when it was acquired.                                                *)
SameSnapshot(i, j) ==
  \A k \in i .. j : responses[k].snapshot = responses[i].snapshot

ConsistentWhileAcquired ==
  \A i, j \in DOMAIN responses :
    LET x == responses[i]
        y == responses[j]
    IN  (i < j /\ x.snapshot # None /\ SameSnapshot(i, j)) =>
          /\ x.ask = "next" /\ y.ask = "next" => x.value # y.value \/ y.value = NoTx
          /\ x.ask = y.ask /\ y.ask # "next"  => x.ask # "acquire" /\ x.value = y.value
          /\ x.ask = "has"  /\ y.ask = "next" => (y.value = 1 => x.value = 1)
          /\ x.ask = "size" /\ y.ask = "next" => (y.value # NoTx => x.value > 0)

(* Acquiring again waits for a snapshot that is new: it is never from a     *)
(* state of the mempool the client has acquired before.                     *)
NewSnapshots ==
  \A i, j \in DOMAIN responses :
    (/\ i < j
     /\ responses[i].ask = "acquire"
     /\ responses[j].ask = "acquire"
     /\ \A k \in i .. j : responses[k].ask # "release")
    => responses[i].snapshot < responses[j].snapshot

(* Every request is eventually answered: also those behind an acquisition   *)
(* that waits, unless the model's node made its last change.                *)
EveryRequestAnswered ==
  \A id \in 1 .. MaxRequests :
    issued >= id ~> Len(responses) >= id \/ (Awaited /\ ~MoreChanges)

(* The bookkeeping of client, node and program is in step.                  *)
InStep == TypeOK /\ AnsweredInOrder
=============================================================================
