------------------------------ MODULE Evaluator ------------------------------
(***************************************************************************)
(* The local-state-query client that serves transaction evaluation:        *)
(* `localStateQueryClient' of newExecutionUnitsEvaluator, the two TMVars   *)
(* it is driven through, and the translation of the arguments to the era   *)
(* of the network (server/src/Ogmios/App/Protocol/TxSubmission.hs).        *)
(*                                                                         *)
(* One evaluation at a time goes through the TMVar `request'; the client   *)
(* acquires the tip of the ledger, asks for its era, the parameters, the   *)
(* time and the UTxO, puts the result in `response' and starts again.  The *)
(* protocol is synchronous: an action is an answer of the node and the     *)
(* handler that runs on it.                                                *)
(*                                                                         *)
(* The arguments of an evaluation are abstracted to their era, and to what *)
(* properties need: the WebSocket request they belong to, the snapshot     *)
(* `key' and the state `source' of the mempool their UTxO is from, which of*)
(* the two UTxOs it is merged from are still in it, and the state `since'  *)
(* the node was in when they were put together.                            *)
(***************************************************************************)
EXTENDS LocalNode

VARIABLES
  request,     \* TMVar evaluateExecutionUnitsRequest
  response,    \* TMVar evaluateExecutionUnitsResponse
  lsq,         \* continuation of the client that runs next
  args,        \* SomeEvaluationInAnyEra: a sequence of <= 1
  ledger       \* the ledger state acquired: of which state of the node

evaluatorVars == <<request, response, lsq, args, ledger>>

Origins   == {"mempool", "additional"}
Arguments == [id : Nat, era : Eras, key : Nat, source : Nat, since : Nat,
              utxo : SUBSET Origins]
Result    == [args : Arguments, ledger : Nat, tag : {"Evaluated", "NodeTipTooOld"}]

-----------------------------------------------------------------------------
(* translateToNetworkEra: arguments in the network's era, or translated     *)
(* from Babbage to Conway or from Conway to Dijkstra.                       *)
Translatable(argsEra, networkEra) ==
  \/ argsEra = networkEra
  \/ argsEra = Babbage /\ networkEra = Conway
  \/ argsEra = Conway /\ networkEra = Dijkstra

(* What follows the request: acquire the tip again.                         *)
OnRequest == "acquiring"

(* What follows when the ledger is not in the era that was told.            *)
OnMismatchFaulty == "acquiringFirst"
OnMismatch == "acquiring"

(* takeTMVar, for `response'.                                               *)
EmptiedFaulty(tmvar) == tmvar
Emptied(tmvar) == <<>>

(* reply.                                                                   *)
Replied(tag) == <<[args |-> args[1], ledger |-> ledger, tag |-> tag]>>

EvaluatorInit ==
  /\ request = <<>>
  /\ response = <<>>
  /\ lsq = "acquiringFirst"
  /\ args = <<>>
  /\ ledger = 0

-----------------------------------------------------------------------------
(* clientStIdle: the tip is acquired once before any request is read.       *)
AcquireFirst ==
  /\ lsq = "acquiringFirst"
  /\ ledger' = Now
  /\ lsq' = "waiting"
  /\ UNCHANGED <<request, response, args>>

TakeRequest ==
  /\ lsq = "waiting"
  /\ request # <<>>
  /\ args' = request
  /\ request' = <<>>
  /\ lsq' = OnRequest
  /\ UNCHANGED <<response, ledger>>

(* clientStAcquiring: acquired.                                             *)
Acquire ==
  /\ lsq = "acquiring"
  /\ ledger' = Now
  /\ lsq' = "era"
  /\ UNCHANGED <<request, response, args>>

(* A failed acquisition is tried again with the same arguments.             *)
RetryAcquire ==
  /\ lsq \in {"acquiringFirst", "acquiring"}
  /\ UNCHANGED evaluatorVars

(* selectEra.                                                               *)
SelectEra ==
  /\ lsq = "era"
  /\ IF mempools[ledger].era < Babbage
       THEN /\ response = <<>>
            /\ response' = Replied("NodeTipTooOld")
            /\ args' = <<>>
            /\ lsq' = "acquiringFirst"
       ELSE /\ lsq' = "pparams"
            /\ UNCHANGED <<response, args>>
  /\ UNCHANGED <<request, ledger>>

(* clientStAcquired0.                                                       *)
QueryPParams ==
  /\ lsq = "pparams"
  /\ lsq' = "time"
  /\ UNCHANGED <<request, response, args, ledger>>

(* clientStAcquired0 and 3, Left: the era is not the one that was told.     *)
EraMismatch ==
  /\ lsq \in {"pparams", "utxo"}
  /\ lsq' = OnMismatch
  /\ UNCHANGED <<request, response, args, ledger>>

(* clientStAcquired1 and 2: two queries without alternatives.               *)
QueryTime ==
  /\ lsq = "time"
  /\ lsq' = "utxo"
  /\ UNCHANGED <<request, response, args, ledger>>

(* clientStAcquired3: newEvaluateTransactionResponse is evaluated before    *)
(* the reply.                                                               *)
QueryUtxo ==
  /\ lsq = "utxo"
  /\ Translatable(args[1].era, mempools[ledger].era)
  /\ response = <<>>
  /\ response' = Replied("Evaluated")
  /\ args' = <<>>
  /\ lsq' = "acquiringFirst"
  /\ UNCHANGED <<request, ledger>>

(* clientStAcquired3: `error "impossible"', or a transaction that does not  *)
(* decode in the network's era (`upgrade' then calls `error').  Either ends *)
(* the mini-protocol, and with it the connection.                           *)
Raise ==
  /\ lsq = "utxo"
  /\ args[1].era # mempools[ledger].era
  /\ lsq' = IF Translatable(args[1].era, mempools[ledger].era)
              THEN "upgradeFailed" ELSE "impossible"
  /\ UNCHANGED <<request, response, args, ledger>>

Evaluator ==
  \/ AcquireFirst
  \/ TakeRequest
  \/ Acquire
  \/ RetryAcquire
  \/ SelectEra
  \/ QueryPParams
  \/ EraMismatch
  \/ QueryTime
  \/ QueryUtxo
  \/ Raise

-----------------------------------------------------------------------------
Crashed == lsq \in {"impossible", "upgradeFailed"}

EvaluatorTypeOK ==
  /\ request \in Seq(Arguments)
  /\ response \in Seq(Result)
  /\ lsq \in {"acquiringFirst", "waiting", "acquiring", "era", "pparams",
              "time", "utxo", "impossible", "upgradeFailed"}
  /\ args \in Seq(Arguments)
  /\ ledger \in 0 .. Now

(* At most one evaluation is under way, at one place: a TMVar that must be  *)
(* filled is empty.                                                         *)
OneEvaluation == Len(request) + Len(args) + Len(response) <= 1
=============================================================================
