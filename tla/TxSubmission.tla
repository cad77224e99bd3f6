----------------------------- MODULE TxSubmission -----------------------------
(***************************************************************************)
(* Transaction submission and evaluation on one connection: the            *)
(* local-tx-submission client (mkTxSubmissionClient), composed with the    *)
(* mempool cache and the evaluator it shares memory with                   *)
(* (server/src/Ogmios/App/Protocol/TxSubmission.hs).  Four threads: the    *)
(* routing worker, the submission client, the evaluator's local-state-     *)
(* query client and the mempool monitoring client.                         *)
(*                                                                         *)
(* A transaction is abstracted to its era and, in the mempool, to the id   *)
(* of the request that submitted it (0: somebody else's).  The UTxO of an  *)
(* evaluation is abstracted to its era and origin.                         *)
(***************************************************************************)
EXTENDS MempoolCache, Evaluator

Undecodable == Dijkstra + 1   \* in place of an era

CONSTANTS
  Payloads,      \* what requests are about
  MaxRequests    \* bound of the model: requests sent over the connection

(* `era' is the one the transaction decodes in, which is never the latest,  *)
(* and `utxo' the one of the additional UTxO of an evaluation.              *)
ASSUME TxSubmissionAssumption ==
  /\ Payloads \subseteq [kind : {"submit", "evaluate"},
                        era  : (0 .. Conway) \cup {Undecodable},
                        utxo : {Babbage, Conway}]
  /\ MaxRequests \in Nat

VARIABLES
  issued,     \* requests received so far; also the last id handed out
  queue,      \* txSubmissionQ
  client,     \* continuation of the submission client that runs next
  current,    \* the request it is serving: a sequence of <= 1
  attempt,    \* the era of the transaction sent to the node
  verdict,    \* the node's answer to MsgSubmitTx: a sequence of <= 1
  responses   \* what was yielded to the WebSocket, in order

clientVars == <<issued, queue, client, current, attempt, verdict, responses>>
vars == <<mempools, cacheVars, evaluatorVars, clientVars>>

(* SubmitResult, with the ledger's era in an ApplyTxErrWrongEra.            *)
Verdict == [tag : {"SubmitSuccess", "SubmitFail", "WrongEra"}, era : Eras]

SubmitTags   == {"SubmitSuccess", "SubmitFail", "WrongEra", "FailedToUpgrade"}
EvaluateTags == {"Evaluated", "NodeTipTooOld", "IncompatibleEra"}
OtherTags    == {"DeserialisationFailure", "InternalError"}

(* `result' is the result an evaluation returned and `seen' the snapshot    *)
(* there was when a submission succeeded; neither is part of the message.   *)
Response == [to : Nat, tag : SubmitTags \cup EvaluateTags \cup OtherTags,
             result : Seq(Result), seen : Nat]

-----------------------------------------------------------------------------
Newer(a, b) == IF a > b THEN a ELSE b

(* utxoFromMempool: its era only.                                           *)
MempoolUtxoEra(cached) == IF cached.ids = <<>> THEN Babbage ELSE cached.era

(* mergeUtxo: one in the latest era only goes with another in that era.     *)
MergedUtxo(cached, req) ==
  LET eras   == [mempool |-> MempoolUtxoEra(cached), additional |-> req.utxo]
      latest == {origin \in Origins : eras[origin] = Dijkstra}
  IN IF latest = {} THEN Origins ELSE latest

(* evaluateExecutionUnitsM: UTxO and transaction go to the newer era.       *)
ArgumentsEra(cached, req) ==
  Newer(req.era, Newer(MempoolUtxoEra(cached), req.utxo))

(* ApplyTxErrWrongEra with the ledger in the most recent era there is.      *)
MustUpgrade(v) == v.tag = "WrongEra" /\ v.era = Dijkstra

(* upgradeGenTx, to the latest era it knows.                                *)
Upgradable(era) == era \in {Alonzo, Babbage, Conway}

(* clearMempoolOnSuccess.                                                   *)
ClearMempoolOnSuccessFaulty(v) == mempoolSnapshotOnLastSubmit
ClearMempoolOnSuccess(v) ==
  IF v.tag = "SubmitSuccess" THEN Cleared ELSE mempoolSnapshotOnLastSubmit

(* The response to the request being served; encoding it may fail and is    *)
(* then reported as an internal error.                                      *)
Yielded(tags, result) ==
  {[to |-> current[1].id, tag |-> tag, result |-> result,
    seen |-> IF tag = "SubmitSuccess" THEN mempoolSnapshot ELSE Nothing] : tag \in tags \cup {"InternalError"}}

(* readTQueue.                                                              *)
Dequeued == Tail(queue)

(* The request being served, once it is answered.                           *)
Served == <<>>

Init ==
  /\ CacheInit
  /\ EvaluatorInit
  /\ issued = 0
  /\ queue = <<>>
  /\ client = "idle"
  /\ current = <<>>
  /\ attempt = 0
  /\ verdict = <<>>
  /\ responses = <<>>

-----------------------------------------------------------------------------
Respond(tags, result) ==
  /\ \E r \in Yielded(tags, result) : responses' = Append(responses, r)
  /\ current' = Served
  /\ client' = "idle"

(* The routing worker decoded a request and pushes it.                      *)
Push ==
  /\ issued < MaxRequests
  /\ issued' = issued + 1
  /\ \E p \in Payloads : queue' = Append(queue,
       [id |-> issued + 1, kind |-> p.kind, era |-> p.era, utxo |-> p.utxo])
  /\ UNCHANGED <<mempools, cacheVars, evaluatorVars, client, current, attempt,
                 verdict, responses>>

Serve(kind) ==
  /\ client = "idle"
  /\ queue # <<>>
  /\ Head(queue).kind = kind
  /\ queue' = Dequeued
  /\ current' = <<Head(queue)>>

(* clientStIdle: MultiEraDecoderErrors, in either request.                  *)
AnswerUndecodable ==
  /\ client = "deserialising"
  /\ Respond({"DeserialisationFailure"}, <<>>)
  /\ UNCHANGED <<mempools, cacheVars, evaluatorVars, issued, queue, attempt,
                 verdict>>

(* clientStIdle on MsgSubmitTransaction.                                    *)
ServeSubmit ==
  /\ Serve("submit")
  /\ IF Head(queue).era = Undecodable
       THEN client' = "deserialising" /\ UNCHANGED attempt
       ELSE client' = "submitting" /\ attempt' = Head(queue).era
  /\ UNCHANGED <<mempools, cacheVars, evaluatorVars, issued, verdict, responses>>

(* The callback of the first SendMsgSubmitTx.                               *)
OnSubmitted ==
  /\ client = "submitting"
  /\ verdict # <<>>
  /\ verdict' = <<>>
  /\ \/ /\ MustUpgrade(verdict[1])
        /\ ~Upgradable(attempt)
        /\ Respond({"FailedToUpgrade"}, <<>>)
        /\ UNCHANGED <<attempt, mempoolSnapshotOnLastSubmit>>
     \/ /\ MustUpgrade(verdict[1])
        /\ Upgradable(attempt)
        /\ client' = "resubmitting"
        /\ attempt' = Conway
        /\ UNCHANGED <<current, responses, mempoolSnapshotOnLastSubmit>>
     \/ /\ ~MustUpgrade(verdict[1])
        /\ mempoolSnapshotOnLastSubmit' = ClearMempoolOnSuccess(verdict[1])
        /\ Respond({verdict[1].tag}, <<>>)
        /\ UNCHANGED attempt
  /\ UNCHANGED <<mempools, monitorVars, mempool, mempoolSnapshot,
                 evaluatorVars, issued, queue>>

(* The callback of the second one: no further upgrade.                      *)
OnResubmitted ==
  /\ client = "resubmitting"
  /\ verdict # <<>>
  /\ verdict' = <<>>
  /\ mempoolSnapshotOnLastSubmit' = ClearMempoolOnSuccess(verdict[1])
  /\ Respond({verdict[1].tag}, <<>>)
  /\ UNCHANGED <<mempools, monitorVars, mempool, mempoolSnapshot,
                 evaluatorVars, issued, queue, attempt>>

(* clientStIdle on MsgEvaluateTransaction.                                  *)
ServeEvaluate ==
  /\ Serve("evaluate")
  /\ client' = IF Head(queue).era = Undecodable THEN "deserialising" ELSE "reading"
  /\ UNCHANGED <<mempools, cacheVars, evaluatorVars, issued, attempt, verdict,
                 responses>>

(* readMempoolM, and evaluateExecutionUnitsM up to putTMVar: old            *)
(* transactions are refused at once; `utxoFromMempool' raises on old        *)
(* mempools and `upgrade' on what does not translate.                       *)
ReadMempool ==
  /\ client = "reading"
  /\ Readable
  /\ LET cached == mempool[1]
         era    == ArgumentsEra(cached, current[1])
     IN  \/ /\ current[1].era < Babbage
            /\ Respond({"IncompatibleEra"}, <<>>)
            /\ UNCHANGED request
         \/ /\ current[1].era >= Babbage
            /\ MempoolUtxoEra(cached) < Babbage \/ current[1].era # era
            /\ Respond({}, <<>>)
            /\ UNCHANGED request
         \/ /\ current[1].era >= Babbage
            /\ MempoolUtxoEra(cached) >= Babbage
            /\ request = <<>>
            /\ request' = <<[id |-> current[1].id, era |-> era,
                             key |-> mempoolSnapshot, source |-> cached.source,
                             since |-> Now, utxo |-> MergedUtxo(cached, current[1])]>>
            /\ client' = "waiting"
            /\ UNCHANGED <<current, responses>>
  /\ UNCHANGED <<mempools, cacheVars, response, lsq, args, ledger, issued,
                 queue, attempt, verdict>>

(* evaluateExecutionUnitsM: takeTMVar, and the response.                    *)
OnEvaluated ==
  /\ client = "waiting"
  /\ response # <<>>
  /\ response' = Emptied(response)
  /\ Respond({response[1].tag}, response)
  /\ UNCHANGED <<mempools, cacheVars, request, lsq, args, ledger, issued, queue,
                 attempt, verdict>>

-----------------------------------------------------------------------------
(* The node (external) judges a transaction before the client hears of it.  *)
NodeSubmits ==
  /\ client \in {"submitting", "resubmitting"}
  /\ verdict = <<>>
  /\ \/ /\ attempt <= LedgerEra
        /\ Accept(current[1].id)
        /\ verdict' = <<[tag |-> "SubmitSuccess", era |-> LedgerEra]>>
     \/ /\ verdict' = <<[tag |-> "SubmitFail", era |-> LedgerEra]>>
        /\ UNCHANGED mempools
     \/ /\ attempt # LedgerEra
        /\ verdict' = <<[tag |-> "WrongEra", era |-> LedgerEra]>>
        /\ UNCHANGED mempools
  /\ UNCHANGED <<cacheVars, evaluatorVars, issued, queue, client, current,
                 attempt, responses>>

NodeChanges ==
  /\ AdoptBlock \/ Accept(0)
  /\ UNCHANGED <<cacheVars, evaluatorVars, clientVars>>

Submission ==
  \/ AnswerUndecodable
  \/ ServeSubmit
  \/ OnSubmitted
  \/ OnResubmitted
  \/ ServeEvaluate
  \/ ReadMempool
  \/ OnEvaluated

MonitorStep   == Monitor /\ UNCHANGED <<evaluatorVars, clientVars>>
EvaluatorStep == Evaluator /\ UNCHANGED <<mempools, cacheVars, clientVars>>

(* When a mini-protocol raises, the connection ends; its other threads go   *)
(* on for as long as they are not cancelled.                                *)
Next ==
  \/ Push
  \/ Submission
  \/ MonitorStep
  \/ EvaluatorStep
  \/ NodeSubmits
  \/ NodeChanges

(* Threads of the program are not starved.  The node judges transactions,   *)
(* serves the monitoring client and does not contradict for ever the era it *)
(* told; and while a reader waits for its mempool or tip to change, it      *)
(* changes: blocks keep coming.                                             *)
Waited == client = "reading" /\ ~Readable

Fairness ==
  /\ WF_vars(Submission)
  /\ WF_vars(MonitorStep)
  /\ WF_vars(EvaluatorStep)
  /\ SF_vars(EvaluatorStep /\ QueryPParams)
  /\ SF_vars(EvaluatorStep /\ (QueryUtxo \/ Raise))
  /\ WF_vars(NodeSubmits)
  /\ WF_vars(NodeChanges /\ Waited)

Spec     == Init /\ [][Next]_vars
FairSpec == Spec /\ Fairness
-----------------------------------------------------------------------------
(* Type invariant.                                                          *)
TypeOK ==
  /\ mempools \in Seq(Mempool)
  /\ CacheTypeOK
  /\ EvaluatorTypeOK
  /\ issued \in Nat
  /\ queue \in Seq([id : Nat, kind : {"submit", "evaluate"},
                    era : Eras \cup {Undecodable}, utxo : Eras])
  /\ client \in {"idle", "deserialising", "submitting", "resubmitting",
                 "reading", "waiting"}
  /\ Len(current) = IF client = "idle" THEN 0 ELSE 1
  /\ attempt \in Eras
  /\ verdict \in Seq(Verdict)
  /\ responses \in Seq(Response)

(* Every request has its one response, in the order of the requests, or is  *)
(* still waited for: whatever the evaluation and the node did meanwhile.    *)
AnsweredInOrder ==
  /\ \A i \in DOMAIN responses : responses[i].to = i
  /\ \A i \in DOMAIN current : current[i].id = Len(responses) + 1
  /\ Len(responses) + Len(current) + Len(queue) = issued

(* The result that crossed over from the evaluator's thread is the one of   *)
(* the request that is being answered.                                      *)
OwnResult ==
  \A i \in DOMAIN responses : \A k \in DOMAIN responses[i].result :
    responses[i].result[k].args.id = responses[i].to

(* An evaluation runs on a ledger state acquired once its arguments were    *)
(* put together, and not on the one that was acquired while waiting for it, *)
(* however long ago.                                                        *)
FreshLedger ==
  \A i \in DOMAIN responses : \A k \in DOMAIN responses[i].result :
    responses[i].result[k].ledger >= responses[i].result[k].args.since

(* What the code makes sure of after a successful submission: evaluations   *)
(* requested later use another snapshot than the one there was, if any.     *)
NewSnapshotAfterSubmit ==
  \A i, j \in DOMAIN responses : \A k \in DOMAIN responses[j].result :
    /\ i < j
    /\ responses[i].seen # Nothing
    => responses[j].result[k].args.key > responses[i].seen

(* "It will still try to resolve inputs that are known, but will use the    *)
(* provided UTXO set as a complement" (docs/content/mini-protocols/         *)
(* local-tx-submission.md:113): an evaluation is made with the additional   *)
(* UTxO of the request, as with the mempool's.                              *)
AdditionalUtxoUsed ==
  \A i \in DOMAIN responses : \A k \in DOMAIN responses[i].result :
    responses[i].result[k].args.utxo = Origins

(* After a successful submission evaluations wait for the mempool to change *)
(* again, but no longer than that: if it changed since the monitoring       *)
(* client acquired it, the evaluation goes on.                              *)
OneChangeSuffices ==
  client = "reading" /\ (monitor # "awaiting" \/ acquired # Now) ~> client # "reading"

(* Every request is eventually answered, unless an evaluation raised and    *)
(* ended the connection, or the model's node made its last change.          *)
EveryRequestAnswered ==
  \A id \in 1 .. MaxRequests :
    issued >= id ~> Len(responses) >= id \/ Crashed \/ ~MoreChanges

(* Submission client and evaluator are in step: across their two threads,   *)
(* every request is answered once, in order and with its own result.        *)
InStep == TypeOK /\ OneEvaluation /\ AnsweredInOrder /\ OwnResult

(* The mempool cache can be relied on: it is whole, and always given back.  *)
CacheIsSound == CacheIsASnapshot /\ MonitorNeverBlocks

(* Evaluations are of what the node knows by then, not of what was acquired *)
(* before they were asked for or before the last submission.                *)
UpToDate == FreshLedger /\ NewSnapshotAfterSubmit
=============================================================================
