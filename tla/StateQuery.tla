------------------------------ MODULE StateQuery ------------------------------
(***************************************************************************)
(* The local-state-query mini-protocol of one WebSocket connection         *)
(* (server/src/Ogmios/App/Protocol/StateQuery.hs), between the queue the   *)
(* routing worker fills and the node.                                      *)
(*                                                                         *)
(* The client of the WebSocket may acquire a ledger state, query it any    *)
(* number of times and release it; a query made with no state acquired     *)
(* acquires the tip for itself.  Every query first asks for the era of the *)
(* state, and is then made of zero (the genesis configurations, read from  *)
(* disk), one, two or three queries of the node, each built from the       *)
(* results of those before.                                                *)
(*                                                                         *)
(* Ledger states are numbered along the chain; a result of the node is     *)
(* abstracted to the state it is read from.                                *)
(***************************************************************************)
EXTENDS Naturals, Sequences

CONSTANTS
  Payloads,     \* what requests are about
  HardFork,     \* the first ledger state of the second era
  Window,       \* how many of the last states the node can still acquire
  MaxState,     \* bound of the model: ledger states
  MaxRequests   \* bound of the model: requests sent over the connection

Eras == {1, 2}

(* `parts' and `eras' are for queries: how many queries of the node they    *)
(* take, and the eras they are available in.  `point' is for acquisitions.  *)
ASSUME StateQueryAssumption ==
  /\ Payloads \subseteq [op : {"acquire", "release", "query"}, point : Nat,
                         parts : 0 .. 3, eras : SUBSET Eras]
  /\ HardFork \in Nat
  /\ Window \in Nat
  /\ MaxState \in Nat \ {0}
  /\ MaxRequests \in Nat

VARIABLES
  issued,      \* requests received so far; also the last id handed out
  queue,       \* stateQueryQ
  client,      \* continuation of the client that runs next
  current,     \* the request it is serving: a sequence of <= 1
  oneOff,      \* whether a query acquired the tip for itself
  collected,   \* results of the node for the query being served
  responses,   \* what was yielded to the WebSocket, in order
  lastState,   \* the node's ledger: its last state,
  held         \* and the one acquired by this client, or none

vars == <<issued, queue, client, current, oneOff, collected, responses, lastState, held>>

NoState == 0
EraOf(state)      == IF state < HardFork THEN 1 ELSE 2
Acquirable(point) == point # NoState /\ point <= lastState /\ point + Window > lastState

QueryTags == {"QueryResponse", "QueryUnavailableInCurrentEra",
              "QueryEraMismatch", "QueryAcquireFailure",
              "QueryInvalidGenesisConfiguration"}
(* Responses after which another state, or none, is acquired.               *)
SessionTags == {"AcquireSuccess", "AcquireFailure", "Released"}

(* `from' is the states the results, or the acquisition, are from.          *)
Response == [to : Nat, tag : QueryTags \cup SessionTags, from : Seq(Nat)]

-----------------------------------------------------------------------------
(* An operator ...Faulty is a wrong version of the next one.                *)

(* Where a query leaves the client: a state it acquired for itself is       *)
(* released, one acquired by the client of the WebSocket is kept.           *)
AfterQueryFaulty == "idle"
AfterQuery == IF oneOff THEN "idle" ELSE "acquired"

(* A genesis configuration always leaves it idle.                           *)
AfterGenesis == "idle"

(* What the node holds, once the client is there: SendMsgRelease.           *)
HeldAtFaulty(continuation) == held
HeldAt(continuation) == IF continuation = "idle" THEN NoState ELSE held

(* Where a query with no state acquired goes first.                         *)
ForQuery == "acquiringTip"

(* Whether the query is available in the era of the state.                  *)
AvailableFaulty(query) == EraOf(lastState) \in query.eras
Available(query) == EraOf(held) \in query.eras

(* A failed acquisition leaves the client idle: the node does not hold the  *)
(* state it held before a re-acquisition either.                            *)
AfterFailure == "idle"

(* The results the next query of a compound one is built from.              *)
Gathered == Append(collected, held)

Dequeued == Tail(queue)

Served == <<>>

Init ==
  /\ issued = 0
  /\ queue = <<>>
  /\ client = "idle"
  /\ current = <<>>
  /\ oneOff = FALSE
  /\ collected = <<>>
  /\ responses = <<>>
  /\ lastState = 1
  /\ held = NoState

-----------------------------------------------------------------------------
RespondFaulty(request, tag, from) ==
  IF tag = "AcquireFailure" THEN UNCHANGED responses
  ELSE responses' = Append(responses, [to |-> request.id, tag |-> tag, from |-> from])
Respond(request, tag, from) ==
  responses' = Append(responses, [to |-> request.id, tag |-> tag, from |-> from])

(* The response to the request being served, and where the client goes.     *)
Answer(tag, from, continuation) ==
  /\ Respond(current[1], tag, from)
  /\ current' = Served
  /\ collected' = <<>>
  /\ client' = continuation

(* The routing worker decoded a request and pushes it.                      *)
Push ==
  /\ issued < MaxRequests
  /\ issued' = issued + 1
  /\ \E p \in Payloads : queue' = Append(queue,
       [id |-> issued + 1, op |-> p.op, point |-> p.point,
        parts |-> p.parts, eras |-> p.eras])
  /\ UNCHANGED <<client, current, oneOff, collected, responses, lastState, held>>

Await(op) ==
  /\ client \in {"idle", "acquired"}
  /\ queue # <<>>
  /\ Head(queue).op = op
  /\ queue' = Dequeued
  /\ UNCHANGED <<issued, collected, lastState>>

(* MsgAcquireLedgerState, idle (SendMsgAcquire) or not (SendMsgReAcquire).  *)
ServeAcquire ==
  /\ Await("acquire")
  /\ current' = <<Head(queue)>>
  /\ client' = "acquiring"
  /\ UNCHANGED <<oneOff, responses, held>>

(* MsgReleaseLedgerState: answered at once, idle or not.                    *)
ServeRelease ==
  /\ Await("release")
  /\ Respond(Head(queue), "Released", <<>>)
  /\ client' = "idle"
  /\ held' = HeldAt("idle")
  /\ UNCHANGED <<current, oneOff>>

(* MsgQueryLedgerState.                                                     *)
ServeQuery ==
  /\ Await("query")
  /\ current' = <<Head(queue)>>
  /\ oneOff' = (client = "idle")
  /\ client' = IF client = "idle" THEN ForQuery ELSE "era"
  /\ UNCHANGED <<responses, held>>

(* clientStAcquiring.                                                       *)
OnAcquired ==
  /\ client = "acquiring"
  /\ Acquirable(current[1].point)
  /\ held' = current[1].point
  /\ Answer("AcquireSuccess", <<current[1].point>>, "acquired")
  /\ UNCHANGED <<issued, queue, oneOff, lastState>>

OnAcquireFailure ==
  /\ client = "acquiring"
  /\ ~Acquirable(current[1].point)
  /\ Answer("AcquireFailure", <<>>, AfterFailure)
  /\ held' = NoState
  /\ UNCHANGED <<issued, queue, oneOff, lastState>>

(* clientStAcquiringTip.                                                    *)
OnTipAcquired ==
  /\ client = "acquiringTip"
  /\ held' = lastState
  /\ client' = "era"
  /\ UNCHANGED <<issued, queue, current, oneOff, collected, responses, lastState>>

OnTipAcquireFailure ==
  /\ client = "acquiringTip"
  /\ Answer("QueryAcquireFailure", <<>>, "idle")
  /\ UNCHANGED <<issued, queue, oneOff, lastState, held>>

(* withCurrentEra: the query does not exist in the era of the state.        *)
OnEraUnavailable ==
  /\ client = "era"
  /\ ~Available(current[1])
  /\ Answer("QueryUnavailableInCurrentEra", <<>>, AfterQuery)
  /\ held' = HeldAt(client')
  /\ UNCHANGED <<issued, queue, oneOff, lastState>>

(* SomeStandardQuery, SomeEffectfullQuery and the compound queries.         *)
OnEraAvailable ==
  /\ client = "era"
  /\ Available(current[1])
  /\ current[1].parts > 0
  /\ client' = "querying"
  /\ UNCHANGED <<issued, queue, current, oneOff, collected, responses, lastState, held>>

(* SomeAdHocQuery: a genesis configuration; Conway's may turn out invalid.  *)
OnEraGenesis ==
  /\ client = "era"
  /\ Available(current[1])
  /\ current[1].parts = 0
  /\ \E tag \in {"QueryResponse", "QueryInvalidGenesisConfiguration"} :
       Answer(tag, <<>>, AfterGenesis)
  /\ held' = HeldAt(client')
  /\ UNCHANGED <<issued, queue, oneOff, lastState>>

(* The configuration cannot be read: reading it throws where nothing turns  *)
(* an exception into a response, and the mini-protocol ends.                *)
OnEraGenesisUnreadable ==
  /\ client = "era"
  /\ Available(current[1])
  /\ current[1].parts = 0
  /\ client' = "raised"
  /\ UNCHANGED <<issued, queue, current, oneOff, collected, responses, lastState, held>>

(* A result, and the next query if there is one.                            *)
OnPartialResult ==
  /\ client = "querying"
  /\ Len(collected) + 1 < current[1].parts
  /\ collected' = Gathered
  /\ UNCHANGED <<issued, queue, client, current, oneOff, responses, lastState, held>>

OnResult ==
  /\ client = "querying"
  /\ Len(collected) + 1 = current[1].parts
  /\ Answer("QueryResponse", Gathered, AfterQuery)
  /\ held' = HeldAt(client')
  /\ UNCHANGED <<issued, queue, oneOff, lastState>>

(* Any of the queries may be refused for the era it is made in.             *)
OnEraMismatch ==
  /\ client = "querying"
  /\ Answer("QueryEraMismatch", <<>>, AfterQuery)
  /\ held' = HeldAt(client')
  /\ UNCHANGED <<issued, queue, oneOff, lastState>>

(* The node (external) adopts a block.                                      *)
ExtendLedger ==
  /\ lastState < MaxState
  /\ lastState' = lastState + 1
  /\ UNCHANGED <<issued, queue, client, current, oneOff, collected, responses, held>>

-----------------------------------------------------------------------------
Client ==
  \/ ServeAcquire
  \/ ServeRelease
  \/ ServeQuery
  \/ OnAcquired
  \/ OnAcquireFailure
  \/ OnTipAcquired
  \/ OnTipAcquireFailure
  \/ OnEraUnavailable
  \/ OnEraAvailable
  \/ OnEraGenesis
  \/ OnEraGenesisUnreadable
  \/ OnPartialResult
  \/ OnResult
  \/ OnEraMismatch

Next == Push \/ Client \/ ExtendLedger

(* The mini-protocol thread is not starved, and the node answers.           *)
Spec     == Init /\ [][Next]_vars
FairSpec == Spec /\ WF_vars(Client)
-----------------------------------------------------------------------------
(* Type invariant.                                                          *)
TypeOK ==
  /\ issued \in Nat
  /\ queue \in Seq([id : Nat, op : {"acquire", "release", "query"},
                    point : Nat, parts : 0 .. 3, eras : SUBSET Eras])
  /\ client \in {"idle", "acquiring", "acquiringTip", "era", "querying",
                 "acquired", "raised"}
  /\ Len(current) = IF client \in {"idle", "acquired"} THEN 0 ELSE 1
  /\ oneOff \in BOOLEAN
  /\ collected \in Seq(Nat)
  /\ responses \in Seq(Response)
  /\ lastState \in 1 .. MaxState
  /\ held \in 0 .. lastState

(* Client and node agree on whether a state is acquired: no query is sent   *)
(* without one, which the protocol does not allow, and none is held for a   *)
(* client that does not know.                                               *)
SessionsAgree ==
  /\ client \in {"era", "querying", "acquired"} => held # NoState
  /\ client \in {"idle", "acquiringTip"} => held = NoState

(* Requests are answered once each and in order, whichever way they end.    *)
AnsweredInOrder ==
  /\ \A i \in DOMAIN responses : responses[i].to = i
  /\ \A i \in DOMAIN current : current[i].id = Len(responses) + 1
  /\ Len(responses) + Len(current) + Len(queue) = issued

(* The results a response is made of are from one ledger state, which was   *)
(* of an era the query exists in: also when the tip moves, to the next era  *)
(* even, while its queries are made.                                        *)
OneLedgerState ==
  client = "querying" =>
    /\ EraOf(held) \in current[1].eras
    /\ \A i \in DOMAIN collected : collected[i] = held

(* Whether the i-th response is made while the state the j-th one acquired  *)
(* is in force, if responses with a tag in `ends' end that.                 *)
InForce(i, j, Ends(_)) ==
  /\ j < i
  /\ responses[j].tag = "AcquireSuccess"
  /\ \A k \in j + 1 .. i - 1 : ~Ends(responses[k])

FromAcquired(Ends(_)) ==
  \A i, j \in DOMAIN responses :
    responses[i].tag = "QueryResponse" /\ InForce(i, j, Ends) =>
      \A n \in DOMAIN responses[i].from : responses[i].from[n] = responses[j].from[1]

(* Queries are answered from the state acquired last, until it is released, *)
(* or acquiring another one fails, or a genesis configuration is queried.   *)
QueriesFromAcquired ==
  LET Ends(r) == \/ r.tag \in SessionTags \cup {"QueryInvalidGenesisConfiguration"}
                 \/ r.tag = "QueryResponse" /\ r.from = <<>>
  IN  FromAcquired(Ends)

(* "if you need to chain multiple queries together it is **highly           *)
(* recommended** to acquire a state first to preserve data-consistency      *)
(* between queries!" (docs/content/mini-protocols/local-state-query.md:69,  *)
(* whose diagram leaves Acquired by releaseLedgerState alone).              *)
QueriesFromAcquiredUntilRelease ==
  LET Ends(r) == r.tag \in SessionTags IN FromAcquired(Ends)

(* Every request is eventually answered, unless a configuration could not   *)
(* be read and the connection ended.                                        *)
EveryRequestAnswered ==
  \A id \in 1 .. MaxRequests :
    issued >= id ~> Len(responses) >= id \/ client = "raised"

(* The bookkeeping of client, node and program is in step.                  *)
InStep == TypeOK /\ SessionsAgree /\ AnsweredInOrder
=============================================================================
