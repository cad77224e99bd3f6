---------------------------- MODULE ClientRequests ----------------------------
(***************************************************************************)
(* What programs ask of a server through the TypeScript client             *)
(* (clients/TypeScript/packages/client/src), and how each call takes its   *)
(* response.                                                               *)
(*                                                                         *)
(* A call comes in two kinds.  One made with Connection.Method tags its    *)
(* request with an identifier of its own and waits for the response that   *)
(* mirrors it.  One made on the mempool or the transaction client takes    *)
(* the next response of a stream: an event generator (EventGenerator)      *)
(* fed with the messages that match.                                       *)
(***************************************************************************)
EXTENDS EventGenerator

(* The mini-protocols of the server that answer, one queue each.            *)
Protocols == {"stateQuery", "txMonitor", "txSubmission"}

(* The event generators of the clients, or "none" for Connection.Method.    *)
Streams == {"mempool", "submit", "evaluate"}

(* params: whether it has any, so that they can be ill-formed;              *)
(* fails: whether the schema has an error for it;                           *)
(* checks: whether its handler insists on a result.                         *)
Operation(method, protocol, stream, params, fails, checks) ==
  [method |-> method, protocol |-> protocol, stream |-> stream,
   params |-> params, fails |-> fails, checks |-> checks]

Query(method, params)   == Operation(method, "stateQuery", "none", params, TRUE, FALSE)
Network(method)         == Operation(method, "stateQuery", "none", FALSE, FALSE, FALSE)

Constitution            == Query("queryLedgerState/constitution", FALSE)
Epoch                   == Query("queryLedgerState/epoch", FALSE)
EraStart                == Query("queryLedgerState/eraStart", FALSE)
EraSummaries            == Query("queryLedgerState/eraSummaries", FALSE)
GovernanceProposals     == Query("queryLedgerState/governanceProposals", TRUE)
LedgerTip               == Query("queryLedgerState/tip", FALSE)
LiveStakeDistribution   == Query("queryLedgerState/liveStakeDistribution", FALSE)
ProjectedRewards        == Query("queryLedgerState/projectedRewards", TRUE)
ProtocolParameters      == Query("queryLedgerState/protocolParameters", FALSE)
RewardAccountSummaries  == Query("queryLedgerState/rewardAccountSummaries", TRUE)
StakePools              == Query("queryLedgerState/stakePools", TRUE)
StakePoolsPerformances  == Query("queryLedgerState/stakePoolsPerformances", FALSE)
QueryUtxo               == Query("queryLedgerState/utxo", TRUE)
NetworkBlockHeight      == Network("queryNetwork/blockHeight")
NetworkTip              == Network("queryNetwork/tip")
NetworkStartTime        ==
  Operation("queryNetwork/startTime", "stateQuery", "none", FALSE, FALSE, TRUE)
GenesisConfiguration    ==
  Operation("queryNetwork/genesisConfiguration", "stateQuery", "none", TRUE, TRUE, TRUE)

AcquireLedgerState == Operation("acquireLedgerState", "stateQuery", "none", TRUE, TRUE, TRUE)
ReleaseLedgerState == Operation("releaseLedgerState", "stateQuery", "none", FALSE, FALSE, TRUE)

LedgerStateQueryClient ==
  {AcquireLedgerState, ReleaseLedgerState,
   Constitution, Epoch, EraStart, EraSummaries, GenesisConfiguration,
   GovernanceProposals, LedgerTip, LiveStakeDistribution, NetworkBlockHeight,
   NetworkStartTime, NetworkTip, ProjectedRewards, ProtocolParameters,
   RewardAccountSummaries, StakePools, StakePoolsPerformances, QueryUtxo}

(* These exist on their own and on a client.                                *)
AcquireMempool(stream)  == Operation("acquireMempool", "txMonitor", stream, FALSE, FALSE, TRUE)
HasTransaction(stream)  == Operation("hasTransaction", "txMonitor", stream, TRUE, TRUE, TRUE)
NextTransaction(stream) == Operation("nextTransaction", "txMonitor", stream, TRUE, TRUE, TRUE)
SizeOfMempool(stream)   == Operation("sizeOfMempool", "txMonitor", stream, FALSE, TRUE, TRUE)
ReleaseMempool(stream)  == Operation("releaseMempool", "txMonitor", stream, FALSE, TRUE, TRUE)

MempoolMonitoringClient ==
  {AcquireMempool("mempool"), HasTransaction("mempool"), NextTransaction("mempool"),
   SizeOfMempool("mempool"), ReleaseMempool("mempool")}

SubmitTransaction(stream) ==
  Operation("submitTransaction", "txSubmission", stream, TRUE, TRUE, TRUE)
EvaluateTransaction(stream) ==
  Operation("evaluateTransaction", "txSubmission", stream, TRUE, TRUE, TRUE)

TransactionSubmissionClient ==
  {SubmitTransaction("submit"), EvaluateTransaction("evaluate")}

(* The shell of the repl offers them on their own, without any client.      *)
ReplOperations ==
  (LedgerStateQueryClient \ {AcquireLedgerState, ReleaseLedgerState})
    \cup {AcquireMempool("none"), HasTransaction("none"), NextTransaction("none"),
          SizeOfMempool("none"), ReleaseMempool("none"),
          SubmitTransaction("none"), EvaluateTransaction("none")}

Operations ==
  LedgerStateQueryClient \cup MempoolMonitoringClient
    \cup TransactionSubmissionClient \cup ReplOperations

-----------------------------------------------------------------------------
(* A request, by the call that makes it: the identifier it carries is the   *)
(* call's own, the method's, or none at all.                                *)
Identifier(call, op) ==
  CASE op.stream = "none"    -> <<"requestId", call>>
    [] op.stream = "mempool" -> <<"method", op.method>>
    [] OTHER                 -> <<>>

Request(call, op, wellFormed) ==
  [call |-> call, op |-> op, id |-> Identifier(call, op), wellFormed |-> wellFormed]

(* Responses: a result or a failure of the operation, either of which names *)
(* the method, or an RpcError, which does not: the routing worker's answer  *)
(* to an ill-formed request, or the internal error of a handler or of an    *)
(* encoder that raises (defaultWithInternalError).  `to' is the call that   *)
(* is answered; programs cannot see it.                                     *)
NoMethod == "none"
Response(request, method, outcome) ==
  [to |-> request.call, id |-> request.id, method |-> method, outcome |-> outcome]

RpcError(request) == Response(request, NoMethod, "error")
Answers(request)  ==
  {Response(request, request.op.method, outcome) :
     outcome \in IF request.op.fails THEN {"result", "error"} ELSE {"result"}}
    \cup {RpcError(request)}

(* matchAny                                                                 *)
MatchAny(response) ==
  response.id # <<>> /\ response.id[1] = "method"

(* matchSubmitTransaction and matchEvaluateTransaction                      *)
MatchSubmitTransaction(response)   == response.method = "submitTransaction"
MatchEvaluateTransaction(response) == response.method = "evaluateTransaction"

Matches(stream, response) ==
  CASE stream = "mempool"  -> MatchAny(response)
    [] stream = "submit"   -> MatchSubmitTransaction(response)
    [] stream = "evaluate" -> MatchEvaluateTransaction(response)

(* The listener of Connection.Method.                                       *)
IsOwnFaulty(call, response) == response.id # <<>> /\ response.id[1] = "requestId"
IsOwn(call, response) == response.id = <<"requestId", call>>

(* What the handlers make of a response: the default one, of                *)
(* Connection.Method, only looks at the method; the others want a result.   *)
Accepts(op, response) ==
  /\ response.method = op.method
  /\ op.checks => response.outcome = "result"

Settled(call, response) ==
  [call EXCEPT
     !.state = IF Accepts(call.op, response) THEN "resolved" ELSE "rejected",
     !.by    = response.to,
     !.value = IF Accepts(call.op, response) /\ response.outcome # "result"
                 THEN "undefined" ELSE response.outcome]
=============================================================================
