-------------------------- MODULE TxSubmissionProofs --------------------------
(***************************************************************************)
(* Theorems about TxSubmission, with the mempool cache and the evaluator   *)
(* that it is composed of: for any payloads, any eras of the node, and any *)
(* number of requests and of states of its mempool.                        *)
(***************************************************************************)
EXTENDS TxSubmission, RequestOrder

Request == [id : Nat, kind : {"submit", "evaluate"},
            era : Eras \cup {Undecodable}, utxo : {Babbage, Conway}]

(* TypeOK; there always is a mempool; only what decodes is evaluated.       *)
Typed ==
  /\ TypeOK
  /\ mempools # <<>>
  /\ queue \in Seq(Request)
  /\ current \in Seq(Request)
  /\ client \in {"reading", "waiting"} => current[1].era \in Eras

Ordered == InOrder(issued, queue, current, responses)

-----------------------------------------------------------------------------
(* What a step does to the requests that are queued, served and answered.   *)
Received ==
  \E r \in Request :
    /\ r.id = issued + 1
    /\ issued' = issued + 1
    /\ queue' = Append(queue, r)
    /\ UNCHANGED <<client, current, responses>>

Begun ==
  /\ queue # <<>> /\ current = <<>> /\ client = "idle"
  /\ queue' = Tail(queue)
  /\ current' = <<Head(queue)>>
  /\ client' \in {"deserialising", "submitting", "reading"}
  /\ client' = "reading" => Head(queue).era \in Eras
  /\ UNCHANGED <<issued, responses>>

Answered ==
  /\ current # <<>> /\ Len(current) = 1 /\ client # "idle"
  /\ current' = <<>>
  /\ client' = "idle"
  /\ \E r \in Response :
       /\ r.to = current[1].id
       /\ r.result = <<>> \/ (client = "waiting" /\ r.result = response)
       /\ \/ r.seen = Nothing
          \/ r.seen = mempoolSnapshot /\ mempoolSnapshotOnLastSubmit' = mempoolSnapshot
       /\ responses' = Append(responses, r)
  /\ UNCHANGED <<issued, queue>>

Silent ==
  /\ UNCHANGED <<issued, queue, current, responses>>
  /\ \/ client' = client
     \/ client = "submitting" /\ client' = "resubmitting"
     \/ client = "reading" /\ client' = "waiting"

Shape == Received \/ Begun \/ Answered \/ Silent

LEMMA Serving ==
  ASSUME Typed
  PROVE  /\ client = "idle" => current = <<>>
         /\ client # "idle" => current # <<>> /\ Len(current) = 1 /\ current[1] \in Request
<1>1. Len(current) = (IF client = "idle" THEN 0 ELSE 1) /\ current \in Seq(Request)
  BY DEF Typed, TypeOK
<1>2. CASE client = "idle"
  BY <1>1, <1>2, EmptySeq
<1>3. CASE client # "idle"
  <2>1. Len(current) = 1 /\ Len(<<>>) = 0
    BY <1>1, <1>3
  <2> QED
    BY <1>1, <1>3, <2>1, Popped
<1> QED
  BY <1>2, <1>3

LEMMA RespondShape ==
  ASSUME Typed, client # "idle",
         NEW tags \in SUBSET (SubmitTags \cup EvaluateTags \cup OtherTags),
         NEW result \in Seq(Result), Respond(tags, result),
         result = <<>> \/ (client = "waiting" /\ result = response),
         "SubmitSuccess" \in tags => mempoolSnapshotOnLastSubmit' = mempoolSnapshot,
         UNCHANGED <<issued, queue>>
  PROVE  Answered
<1>1. current # <<>> /\ Len(current) = 1 /\ current[1].id \in Nat
  BY Serving DEF Request
<1>2. mempoolSnapshot \in Nat /\ Nothing \in Nat
  BY DEF Typed, TypeOK, CacheTypeOK, Nothing
<1>3. PICK tag \in tags \cup {"InternalError"} :
        responses' = Append(responses,
          [to |-> current[1].id, tag |-> tag, result |-> result,
           seen |-> IF tag = "SubmitSuccess" THEN mempoolSnapshot ELSE Nothing])
  BY DEF Respond, Yielded
<1> DEFINE r == [to |-> current[1].id, tag |-> tag, result |-> result,
                 seen |-> IF tag = "SubmitSuccess" THEN mempoolSnapshot ELSE Nothing]
<1>4. r \in Response
  BY <1>1, <1>2, <1>3 DEF Response, OtherTags
<1>5. /\ r.to = current[1].id /\ r.result = result
      /\ r.seen = Nothing
           \/ (r.seen = mempoolSnapshot /\ mempoolSnapshotOnLastSubmit' = mempoolSnapshot)
  BY <1>3
<1>6. current' = <<>> /\ client' = "idle"
  BY DEF Respond, Served
<1> QED
  BY <1>1, <1>3, <1>4, <1>5, <1>6 DEF Answered

LEMMA StepShape ==
  ASSUME Typed, [Next]_vars
  PROVE  Shape
<1> USE DEF Shape
<1>1. CASE Push
  <2>1. PICK p \in Payloads : queue' = Append(queue,
          [id |-> issued + 1, kind |-> p.kind, era |-> p.era, utxo |-> p.utxo])
    BY <1>1 DEF Push
  <2>2. /\ p.kind \in {"submit", "evaluate"} /\ p.utxo \in {Babbage, Conway}
        /\ p.era \in Eras \cup {Undecodable}
    BY TxSubmissionAssumption DEF Eras, Conway, Dijkstra
  <2>3. [id |-> issued + 1, kind |-> p.kind, era |-> p.era, utxo |-> p.utxo] \in Request
    BY <2>2 DEF Request, Typed, TypeOK
  <2> QED
    BY <1>1, <2>1, <2>3 DEF Push, Received, clientVars
<1>2. CASE ServeSubmit
  BY <1>2, Serving DEF ServeSubmit, Serve, Begun, Dequeued
<1>3. CASE ServeEvaluate
  <2>1. queue \in Seq(Request) /\ queue # <<>>
    BY <1>3 DEF ServeEvaluate, Serve, Typed
  <2>2. Head(queue) \in Request
    BY <2>1, Popped
  <2>3. Head(queue).era # Undecodable => Head(queue).era \in Eras
    BY <2>2 DEF Request
  <2> QED
    BY <1>3, <2>3, Serving DEF ServeEvaluate, Serve, Begun, Dequeued
<1>4. CASE AnswerUndecodable
  <2>1. {"DeserialisationFailure"} \in SUBSET (SubmitTags \cup EvaluateTags \cup OtherTags)
    BY DEF OtherTags
  <2> QED
    BY <1>4, <2>1, EmptySeq, RespondShape DEF AnswerUndecodable
<1>5. ASSUME OnSubmitted \/ OnResubmitted, ~Silent
      PROVE  Answered
  <2>1. verdict[1].tag \in {"SubmitSuccess", "SubmitFail", "WrongEra"}
    <3>1. verdict \in Seq(Verdict) /\ verdict # <<>>
      BY <1>5 DEF OnSubmitted, OnResubmitted, Typed, TypeOK
    <3>2. verdict[1] \in Verdict
      BY <3>1, Popped
    <3> QED
      BY <3>2 DEF Verdict
  <2>2. /\ {verdict[1].tag} \in SUBSET (SubmitTags \cup EvaluateTags \cup OtherTags)
        /\ {"FailedToUpgrade"} \in SUBSET (SubmitTags \cup EvaluateTags \cup OtherTags)
    BY <2>1 DEF SubmitTags
  <2>3. client # "idle" /\ UNCHANGED <<issued, queue>>
    BY <1>5 DEF OnSubmitted, OnResubmitted
  <2>4. \/ Respond({"FailedToUpgrade"}, <<>>)
        \/ /\ Respond({verdict[1].tag}, <<>>)
           /\ verdict[1].tag = "SubmitSuccess" =>
                mempoolSnapshotOnLastSubmit' = mempoolSnapshot
    BY <1>5 DEF OnSubmitted, OnResubmitted, ClearMempoolOnSuccess, Cleared, Silent
  <2> QED
    BY <2>2, <2>3, <2>4, EmptySeq, RespondShape
<1>6. CASE ReadMempool
  <2>1. /\ {"IncompatibleEra"} \in SUBSET (SubmitTags \cup EvaluateTags \cup OtherTags)
        /\ {} \in SUBSET (SubmitTags \cup EvaluateTags \cup OtherTags)
    BY DEF EvaluateTags
  <2>2. client # "idle" /\ UNCHANGED <<issued, queue>>
    BY <1>6 DEF ReadMempool
  <2>3. \/ Respond({"IncompatibleEra"}, <<>>)
        \/ Respond({}, <<>>)
        \/ client = "reading" /\ client' = "waiting" /\ UNCHANGED <<current, responses>>
    BY <1>6 DEF ReadMempool
  <2>4. CASE Respond({"IncompatibleEra"}, <<>>) \/ Respond({}, <<>>)
    BY <2>1, <2>2, <2>4, EmptySeq, RespondShape
  <2> QED
    BY <2>2, <2>3, <2>4 DEF Silent
<1>7. CASE OnEvaluated
  <2>1. response \in Seq(Result) /\ response # <<>>
    BY <1>7 DEF OnEvaluated, Typed, TypeOK, EvaluatorTypeOK
  <2>2. response[1] \in Result
    BY <2>1, Popped
  <2>3. {response[1].tag} \in SUBSET (SubmitTags \cup EvaluateTags \cup OtherTags)
        /\ response[1].tag # "SubmitSuccess"
    BY <2>2 DEF Result, EvaluateTags
  <2> QED
    BY <1>7, <2>1, <2>3, RespondShape DEF OnEvaluated
<1>8. CASE MonitorStep \/ EvaluatorStep \/ NodeSubmits \/ NodeChanges \/ UNCHANGED vars
  BY <1>8 DEF MonitorStep, EvaluatorStep, NodeSubmits, NodeChanges, vars, clientVars, Silent
<1> QED
  BY <1>1, <1>2, <1>3, <1>4, <1>5, <1>6, <1>7, <1>8 DEF Next, Submission

(* Requests are answered in the order of their ids.                         *)
LEMMA OrderStep ==
  ASSUME Typed, Ordered, Shape
  PROVE  Ordered'
<1> USE DEF Ordered
<1>1. /\ queue \in Seq(Request) /\ current \in Seq(Request) /\ responses \in Seq(Response)
      /\ issued \in Nat
  BY DEF Typed, TypeOK
<1>2. CASE Received
  BY <1>1, <1>2, OrderedByPush DEF Received
<1>3. CASE Begun
  BY <1>1, <1>3, OrderedByServe DEF Begun
<1>4. CASE Answered
  BY <1>1, <1>4, OrderedByAnswer DEF Answered
<1>5. CASE Silent
  BY <1>5 DEF Silent
<1> QED
  BY <1>2, <1>3, <1>4, <1>5 DEF Shape

-----------------------------------------------------------------------------
(* States of the node's mempool are never forgotten, nor changed.           *)
Kept ==
  /\ Now \in Nat \ {0} /\ Now' \in Nat \ {0} /\ Now <= Now'
  /\ DOMAIN mempools = 1 .. Now /\ DOMAIN mempools' = 1 .. Now'
  /\ \A s \in DOMAIN mempools : s \in DOMAIN mempools' /\ mempools'[s] = mempools[s]

LEMMA Snapshots ==
  ASSUME Typed
  PROVE  /\ mempools \in Seq(Mempool)
         /\ Now \in Nat \ {0} /\ DOMAIN mempools = 1 .. Now
         /\ \A s \in DOMAIN mempools :
              /\ mempools[s] = [era |-> mempools[s].era, ids |-> mempools[s].ids]
              /\ mempools[s].era \in Eras /\ mempools[s].ids \in Seq(Nat)
<1>1. mempools \in Seq(Mempool) /\ mempools # <<>>
  BY DEF Typed, TypeOK
<1>2. Len(mempools) \in Nat \ {0} /\ DOMAIN mempools = 1 .. Len(mempools)
  BY <1>1, EmptySeq, LenProperties
<1>3. \A s \in DOMAIN mempools : mempools[s] \in Mempool
  BY <1>1, <1>2, ElementOfSeq
<1> QED
  BY <1>1, <1>2, <1>3 DEF Now, Mempool

LEMMA NodeAccepts ==
  ASSUME Typed, NEW id \in Nat, Accept(id)
  PROVE  \E m \in Mempool : mempools' = Append(mempools, m) /\ m.era = LedgerEra
<1> DEFINE old == mempools[Now]
           ids == Append(old.ids, id)
<1>1. Now \in DOMAIN mempools
  BY Snapshots
<1>2. old = [era |-> old.era, ids |-> old.ids] /\ old.era \in Eras /\ old.ids \in Seq(Nat)
  BY <1>1, Snapshots
<1>3. ids \in Seq(Nat)
  BY <1>2, Appended
<1> HIDE DEF ids
<1>4. [old EXCEPT !.ids = ids] \in Mempool /\ [old EXCEPT !.ids = ids].era = LedgerEra
  BY <1>2, <1>3 DEF Mempool, LedgerEra
<1> QED
  BY <1>4 DEF Accept, ids

LEMMA NodeAdopts ==
  ASSUME Typed, AdoptBlock
  PROVE  \E m \in Mempool : mempools' = Append(mempools, m) /\ m.era <= Newest
<1> DEFINE old == mempools[Now]
<1>1. Now \in DOMAIN mempools
  BY Snapshots
<1>2. old.era \in Eras /\ old.ids \in Seq(Nat)
  BY <1>1, Snapshots
<1>3. PICK left \in 0 .. Len(old.ids), era \in {old.era, old.era + 1} :
        /\ era <= Newest
        /\ mempools' = Append(mempools,
             [era |-> era, ids |-> SubSeq(old.ids, left + 1, Len(old.ids))])
  BY DEF AdoptBlock, LedgerEra
<1> HIDE DEF old
<1>4. Len(old.ids) \in Nat /\ left \in Nat
  BY <1>2, LenProperties
<1>5. \A i \in left + 1 .. Len(old.ids) : old.ids[i] \in Nat
  BY <1>2, <1>4, ElementOfSeq
<1>6. SubSeq(old.ids, left + 1, Len(old.ids)) \in Seq(Nat)
  BY <1>2, <1>4, <1>5
<1>7. era \in Eras
  BY <1>2, <1>3, NodeAssumption DEF Eras, Dijkstra
<1> DEFINE rest == SubSeq(old.ids, left + 1, Len(old.ids))
           m    == [era |-> era, ids |-> rest]
<1> HIDE DEF rest
<1>8. m \in Mempool /\ m.era <= Newest
  BY <1>3, <1>6, <1>7 DEF Mempool, rest
<1>9. mempools' = Append(mempools, m)
  BY <1>3 DEF rest
<1> HIDE DEF m
<1> QED
  BY <1>8, <1>9

(* Mempools are added one at a time, in the era there is or one that may be.*)
LEMMA NewMempool ==
  ASSUME Typed, [Next]_vars
  PROVE  \/ UNCHANGED mempools
         \/ \E m \in Mempool : /\ mempools' = Append(mempools, m)
                               /\ m.era = LedgerEra \/ m.era <= Newest
<1>1. CASE NodeChanges
  BY <1>1, NodeAccepts, NodeAdopts DEF NodeChanges
<1>2. CASE NodeSubmits
  <2>1. current[1].id \in Nat
    BY <1>2, Serving DEF NodeSubmits, Request
  <2> QED
    BY <1>2, <2>1, NodeAccepts DEF NodeSubmits
<1>3. CASE Push \/ Submission \/ EvaluatorStep \/ MonitorStep \/ UNCHANGED vars
  BY <1>3
     DEF Push, Submission, AnswerUndecodable, ServeSubmit, OnSubmitted, OnResubmitted,
         ServeEvaluate, ReadMempool, OnEvaluated, EvaluatorStep, MonitorStep, Monitor,
         NodeAcquires, StartDrain, DrainNext, Publish, vars
<1> QED
  BY <1>1, <1>2, <1>3 DEF Next

LEMMA MempoolStep ==
  ASSUME Typed, [Next]_vars
  PROVE  mempools' \in Seq(Mempool) /\ mempools' # <<>> /\ Kept
<1>1. mempools \in Seq(Mempool) /\ Now \in Nat \ {0} /\ DOMAIN mempools = 1 .. Now
  BY Snapshots
<1>2. CASE UNCHANGED mempools
  BY <1>1, <1>2 DEF Typed, Kept, Now
<1>3. ASSUME NEW m \in Mempool, mempools' = Append(mempools, m)
      PROVE  mempools' \in Seq(Mempool) /\ mempools' # <<>> /\ Kept
  <2>1. /\ mempools' \in Seq(Mempool)
        /\ Len(mempools') = Now + 1
        /\ DOMAIN mempools' = 1 .. Now + 1
        /\ \A s \in DOMAIN mempools : s \in DOMAIN mempools' /\ mempools'[s] = mempools[s]
    BY <1>1, <1>3, Appended DEF Now
  <2>2. mempools' # <<>>
    BY <1>1, <2>1, EmptySeq
  <2> QED
    BY <1>1, <2>1, <2>2 DEF Kept, Now
<1>4. UNCHANGED mempools \/ \E m \in Mempool : mempools' = Append(mempools, m)
  BY NewMempool
<1> QED
  BY <1>2, <1>3, <1>4

-----------------------------------------------------------------------------
(* Which thread a step is of: only the monitoring client touches what it    *)
(* shares with readers of the mempool, but for the mark of the last         *)
(* submission; and the evaluator has what the submission client gave it.    *)
LEMMA CacheSteps ==
  ASSUME [Next]_vars
  PROVE  \/ Monitor /\ UNCHANGED <<evaluatorVars, clientVars>>
         \/ UNCHANGED <<monitorVars, mempool, mempoolSnapshot>>
BY DEF Next, Push, Submission, AnswerUndecodable, ServeSubmit, OnSubmitted, OnResubmitted,
       ServeEvaluate, ReadMempool, OnEvaluated, EvaluatorStep, MonitorStep, NodeSubmits,
       NodeChanges, vars, cacheVars

LEMMA MarkSteps ==
  ASSUME [Next]_vars
  PROVE  mempoolSnapshotOnLastSubmit' \in {mempoolSnapshotOnLastSubmit, mempoolSnapshot}
BY DEF Next, Push, Submission, AnswerUndecodable, ServeSubmit, OnSubmitted, OnResubmitted,
       ServeEvaluate, ReadMempool, OnEvaluated, EvaluatorStep, MonitorStep, NodeSubmits,
       NodeChanges, vars, cacheVars, Monitor, NodeAcquires, StartDrain, DrainNext, Publish,
       ClearMempoolOnSuccess, Cleared

Requested ==
  /\ client = "reading" /\ client' = "waiting" /\ Readable
  /\ request = <<>>
  /\ \E a \in Arguments :
       /\ request' = <<a>>
       /\ a.id = current[1].id /\ a.key = mempoolSnapshot /\ a.since = Now
       /\ a.source = mempool[1].source
       /\ a.utxo = MergedUtxo(mempool[1], current[1])
  /\ UNCHANGED <<mempools, cacheVars, response, lsq, args, ledger, current, responses>>

LEMMA ReadMempoolRequests ==
  ASSUME Typed, ReadMempool
  PROVE  Requested \/ (client' = "idle" /\ UNCHANGED evaluatorVars)
<1>1. /\ current[1].id \in Nat /\ current[1].era \in Eras
      /\ current[1].utxo \in {Babbage, Conway}
  BY Serving DEF ReadMempool, Typed, Request
<1>2. mempool \in Seq(Cached) /\ mempool # <<>> /\ mempoolSnapshot \in Nat /\ Now \in Nat
  BY Snapshots DEF ReadMempool, Readable, Typed, TypeOK, CacheTypeOK
<1>3. mempool[1] \in Cached
  BY <1>2, Popped
<1>4. mempool[1].source \in Nat /\ mempool[1].era \in Eras
  BY <1>3 DEF Cached
<1>5. ArgumentsEra(mempool[1], current[1]) \in Eras
  BY <1>1, <1>4 DEF ArgumentsEra, Newer, MempoolUtxoEra, Eras, Babbage, Conway, Dijkstra
<1>6. MergedUtxo(mempool[1], current[1]) \in SUBSET Origins
  BY DEF MergedUtxo
<1> DEFINE a == [id |-> current[1].id, era |-> ArgumentsEra(mempool[1], current[1]),
                 key |-> mempoolSnapshot, source |-> mempool[1].source, since |-> Now,
                 utxo |-> MergedUtxo(mempool[1], current[1])]
<1>7. a \in Arguments
  BY <1>1, <1>2, <1>4, <1>5, <1>6 DEF Arguments
<1>8. CASE UNCHANGED request
  BY <1>8 DEF ReadMempool, Respond, evaluatorVars
<1>9. CASE ~UNCHANGED request
  <2>1. request' = <<a>> /\ request = <<>> /\ client' = "waiting"
        /\ UNCHANGED <<current, responses>>
    BY <1>9 DEF ReadMempool
  <2> QED
    BY <1>7, <2>1 DEF ReadMempool, Requested
<1> QED
  BY <1>8, <1>9

LEMMA EvaluatorSteps ==
  ASSUME Typed, [Next]_vars
  PROVE  \/ Evaluator /\ UNCHANGED <<mempools, cacheVars, clientVars>>
         \/ Requested
         \/ /\ client = "waiting" /\ client' = "idle" /\ response # <<>> /\ response' = <<>>
            /\ UNCHANGED <<request, lsq, args, ledger>>
         \/ /\ client' = "waiting" <=> client = "waiting"
            /\ UNCHANGED evaluatorVars
<1>1. CASE ReadMempool
  BY <1>1, ReadMempoolRequests DEF ReadMempool
<1>2. CASE OnEvaluated
  BY <1>2 DEF OnEvaluated, Respond, Emptied
<1>3. CASE EvaluatorStep
  BY <1>3 DEF EvaluatorStep
<1> QED
  BY <1>1, <1>2, <1>3
     DEF Next, Push, Submission, AnswerUndecodable, ServeSubmit, OnSubmitted, OnResubmitted,
         ServeEvaluate, Serve, Respond, MonitorStep, NodeSubmits, NodeChanges, vars, clientVars

-----------------------------------------------------------------------------
(* Every variable keeps its type.                                           *)
LEMMA CacheTyped ==
  ASSUME Typed, monitor # "acquiring" => acquired \in DOMAIN mempools, [Next]_vars
  PROVE  /\ CacheTypeOK'
         /\ monitor' # "acquiring" => acquired' \in DOMAIN mempools'
<1>1. /\ Now \in Nat \ {0} /\ Now' \in Nat /\ Now <= Now' /\ DOMAIN mempools = 1 .. Now
      /\ DOMAIN mempools' = 1 .. Now'
  BY MempoolStep DEF Kept
<1>2. CacheTypeOK
  BY DEF Typed, TypeOK
<1>3. mempoolSnapshotOnLastSubmit' \in Nat
  BY <1>2, MarkSteps DEF CacheTypeOK
<1>4. CASE UNCHANGED <<monitorVars, mempool, mempoolSnapshot>>
  BY <1>1, <1>2, <1>3, <1>4 DEF CacheTypeOK, monitorVars
<1>5. CASE NodeAcquires
  BY <1>1, <1>2, <1>3, <1>5 DEF CacheTypeOK, NodeAcquires
<1>6. CASE StartDrain
  BY <1>1, <1>2, <1>3, <1>6, EmptySeq DEF CacheTypeOK, StartDrain, Stamp, Taken
<1>7. CASE DrainNext
  <2> DEFINE ids == mempools[acquired].ids
  <2>1. ids \in Seq(Nat) /\ drained \in Seq(Nat) /\ Len(drained) < Len(ids)
    BY <1>2, <1>7, Snapshots DEF DrainNext, CacheTypeOK
  <2> HIDE DEF ids
  <2>2. Len(drained) + 1 \in 1 .. Len(ids)
    BY <2>1, LenProperties
  <2>3. <<ids[Len(drained) + 1]>> \in Seq(Nat)
    BY <2>1, <2>2, ElementOfSeq
  <2>4. drained' \in Seq(Nat)
    BY <1>7, <2>1, <2>3, ConcatProperties DEF DrainNext, ids
  <2> QED
    BY <1>1, <1>2, <1>3, <1>7, <2>4 DEF CacheTypeOK, DrainNext
<1>8. CASE Publish
  <2> DEFINE c == [source |-> acquired, era |-> mempools[acquired].era,
                   ids |-> Reversed(drained)]
  <2>1. drained \in Seq(Nat) /\ Len(drained) \in Nat /\ DOMAIN drained = 1 .. Len(drained)
    BY <1>2, LenProperties DEF CacheTypeOK
  <2>2. \A i \in 1 .. Len(drained) : drained[Len(drained) + 1 - i] \in Nat
    <3> TAKE i \in 1 .. Len(drained)
    <3>1. Len(drained) + 1 - i \in 1 .. Len(drained)
      BY <2>1
    <3> QED
      BY <2>1, <3>1, ElementOfSeq
  <2>3. Reversed(drained) \in Seq(Nat)
    BY <2>1, <2>2 DEF Reversed
  <2>4. acquired \in Nat /\ mempools[acquired].era \in Eras
    BY <1>1, <1>8, Snapshots DEF Publish
  <2>5. c \in Cached
    BY <2>3, <2>4 DEF Cached
  <2>6. mempool' \in Seq(Cached)
    BY <1>8, <2>5 DEF Publish
  <2> QED
    BY <1>1, <1>2, <1>3, <1>8, <2>6 DEF CacheTypeOK, Publish
<1> QED
  BY <1>4, <1>5, <1>6, <1>7, <1>8, CacheSteps DEF Monitor

-----------------------------------------------------------------------------
(* There is an evaluation under way exactly when the submission client      *)
(* waits for one, and it is at one place: in a TMVar, or in the evaluator,  *)
(* whose continuation then needs it.                                        *)
Running == {"acquiring", "era", "pparams", "time", "utxo", "impossible", "upgradeFailed"}

Evaluating ==
  /\ Len(request) + Len(args) + Len(response) = IF client = "waiting" THEN 1 ELSE 0
  /\ args # <<>> <=> lsq \in Running

LEMMA OneOfThree ==
  ASSUME NEW a \in Nat, NEW b \in Nat, NEW c \in Nat, a + b + c \in {0, 1}
  PROVE  /\ a # 0 => a = 1 /\ b = 0 /\ c = 0
         /\ b # 0 => b = 1 /\ a = 0 /\ c = 0
         /\ c # 0 => c = 1 /\ a = 0 /\ b = 0
OBVIOUS

LEMMA AtOnePlace ==
  ASSUME Typed, Evaluating
  PROVE  /\ client # "waiting" => request = <<>> /\ args = <<>> /\ response = <<>>
         /\ request # <<>> =>
              /\ Len(request) = 1 /\ args = <<>> /\ response = <<>> /\ client = "waiting"
              /\ request[1] \in Arguments
         /\ args # <<>> =>
              /\ Len(args) = 1 /\ request = <<>> /\ response = <<>> /\ client = "waiting"
              /\ args[1] \in Arguments
         /\ response # <<>> =>
              /\ Len(response) = 1 /\ request = <<>> /\ args = <<>> /\ client = "waiting"
              /\ response[1] \in Result
<1>1. request \in Seq(Arguments) /\ args \in Seq(Arguments) /\ response \in Seq(Result)
  BY DEF Typed, TypeOK, EvaluatorTypeOK
<1>2. Len(request) \in Nat /\ Len(args) \in Nat /\ Len(response) \in Nat
  BY <1>1, LenProperties
<1>3. /\ Len(request) = 0 <=> request = <<>>
      /\ Len(args) = 0 <=> args = <<>>
      /\ Len(response) = 0 <=> response = <<>>
  BY <1>1, EmptySeq
<1>4. /\ request # <<>> => request[1] \in Arguments
      /\ args # <<>> => args[1] \in Arguments
      /\ response # <<>> => response[1] \in Result
  BY <1>1, Popped
<1>5. /\ client # "waiting" => Len(request) = 0 /\ Len(args) = 0 /\ Len(response) = 0
      /\ client = "waiting" => Len(request) + Len(args) + Len(response) = 1
  BY <1>2 DEF Evaluating
<1>6. /\ Len(request) # 0 => Len(request) = 1 /\ Len(args) = 0 /\ Len(response) = 0
      /\ Len(args) # 0 => Len(args) = 1 /\ Len(request) = 0 /\ Len(response) = 0
      /\ Len(response) # 0 => Len(response) = 1 /\ Len(request) = 0 /\ Len(args) = 0
  <2>1. Len(request) + Len(args) + Len(response) \in {0, 1}
    BY DEF Evaluating
  <2> QED
    BY <1>2, <2>1, OneOfThree
<1> QED
  BY <1>3, <1>4, <1>5, <1>6, Zenon

(* How the evaluation moves from place to place.                            *)
TakenOver == request # <<>> /\ request' = <<>> /\ args' = request /\ UNCHANGED response

RepliedAs(tag) ==
  /\ args # <<>> /\ args' = <<>>
  /\ response' = <<[args |-> args[1], ledger |-> ledger, tag |-> tag]>>
  /\ UNCHANGED request

EvaluatorMoves ==
  \/ TakenOver /\ lsq = "waiting" /\ lsq' = "acquiring" /\ UNCHANGED ledger
  \/ /\ RepliedAs("NodeTipTooOld") /\ lsq = "era" /\ lsq' = "acquiringFirst"
     /\ mempools[ledger].era < Babbage /\ UNCHANGED ledger
  \/ /\ RepliedAs("Evaluated") /\ lsq = "utxo" /\ lsq' = "acquiringFirst"
     /\ Translatable(args[1].era, mempools[ledger].era) /\ UNCHANGED ledger
  \/ /\ UNCHANGED <<request, response, args>>
     /\ \/ lsq = "acquiringFirst" /\ lsq' = "waiting" /\ ledger' = Now
        \/ lsq = "acquiring" /\ lsq' = "era" /\ ledger' = Now
        \/ /\ lsq = "era" /\ lsq' = "pparams" /\ UNCHANGED ledger
           /\ ~(mempools[ledger].era < Babbage)
        \/ lsq = "pparams" /\ lsq' = "time" /\ UNCHANGED ledger
        \/ lsq = "time" /\ lsq' = "utxo" /\ UNCHANGED ledger
        \/ lsq \in {"pparams", "utxo"} /\ lsq' = "acquiring" /\ UNCHANGED ledger
        \/ lsq = "utxo" /\ lsq' \in {"impossible", "upgradeFailed"} /\ UNCHANGED ledger
        \/ UNCHANGED <<lsq, ledger>>

LEMMA EvaluatorShape ==
  ASSUME Evaluating, Evaluator
  PROVE  EvaluatorMoves
<1>1. lsq \in {"era", "utxo"} => args # <<>>
  BY DEF Evaluating, Running
<1> QED
  BY <1>1
     DEF Evaluator, EvaluatorMoves, AcquireFirst, TakeRequest, Acquire, RetryAcquire,
         SelectEra, QueryPParams, EraMismatch, QueryTime, QueryUtxo, Raise, TakenOver, RepliedAs,
         Replied, OnRequest, OnMismatch, evaluatorVars

LEMMA EvaluatorTyped ==
  ASSUME Typed, Evaluating, [Next]_vars
  PROVE  EvaluatorTypeOK' /\ Evaluating'
<1>1. /\ Now \in Nat \ {0} /\ Now' \in Nat /\ Now <= Now'
  BY MempoolStep DEF Kept
<1>2. EvaluatorTypeOK
  BY DEF Typed, TypeOK
<1>3. ledger \in Nat /\ ledger <= Now
  BY <1>1, <1>2 DEF EvaluatorTypeOK
<1>4. CASE Evaluator /\ UNCHANGED <<mempools, cacheVars, clientVars>>
  <2>1. UNCHANGED client /\ EvaluatorMoves
    BY <1>4, EvaluatorShape DEF clientVars
  <2>2. ledger' \in 0 .. Now'
    BY <1>1, <1>3, <2>1 DEF EvaluatorMoves
  <2>3. CASE UNCHANGED <<request, response, args>>
    BY <1>2, <2>1, <2>2, <2>3
       DEF EvaluatorTypeOK, EvaluatorMoves, Evaluating, Running, TakenOver, RepliedAs
  <2>4. CASE TakenOver /\ lsq = "waiting" /\ lsq' = "acquiring"
    <3>1. /\ Len(request') = 0 /\ Len(args') = 1 /\ Len(response') = 0 /\ args' # <<>>
          /\ client = "waiting"
      BY <2>4, AtOnePlace, EmptySeq DEF TakenOver
    <3>2. Evaluating'
      BY <2>1, <2>4, <3>1 DEF Evaluating, Running
    <3> QED
      BY <1>2, <2>2, <2>4, <3>2, EmptySeq DEF EvaluatorTypeOK, TakenOver
  <2>5. ASSUME NEW tag \in {"Evaluated", "NodeTipTooOld"}, RepliedAs(tag),
               lsq' = "acquiringFirst"
        PROVE  EvaluatorTypeOK' /\ Evaluating'
    <3> DEFINE x == [args |-> args[1], ledger |-> ledger, tag |-> tag]
    <3>1. args[1] \in Arguments /\ client = "waiting" /\ request = <<>>
      BY <2>5, AtOnePlace DEF RepliedAs
    <3>2. x \in Result
      BY <1>3, <3>1 DEF Result
    <3>3. response' = <<x>> /\ request' = <<>> /\ args' = <<>>
      BY <2>5, <3>1 DEF RepliedAs
    <3> HIDE DEF x
    <3>4. /\ response' \in Seq(Result) /\ Len(response') = 1
          /\ Len(request') = 0 /\ Len(args') = 0
      BY <3>2, <3>3, EmptySeq
    <3>5. Evaluating'
      BY <2>1, <2>5, <3>1, <3>3, <3>4 DEF Evaluating, Running
    <3> QED
      BY <1>2, <2>2, <2>5, <3>3, <3>4, <3>5, EmptySeq DEF EvaluatorTypeOK
  <2> QED
    BY <2>1, <2>3, <2>4, <2>5 DEF EvaluatorMoves
<1>5. CASE Requested
  <2>1. PICK a \in Arguments : request' = <<a>>
    BY <1>5 DEF Requested
  <2>2. /\ client' = "waiting" /\ args = <<>> /\ response = <<>>
        /\ UNCHANGED <<response, lsq, args, ledger>>
    BY <1>5, AtOnePlace DEF Requested
  <2>3. request' \in Seq(Arguments) /\ Len(request') = 1 /\ Len(args') = 0 /\ Len(response') = 0
    BY <2>1, <2>2
  <2>4. Evaluating'
    BY <2>2, <2>3 DEF Evaluating
  <2> QED
    BY <1>1, <1>2, <1>3, <2>2, <2>3, <2>4 DEF EvaluatorTypeOK
<1>6. CASE /\ client = "waiting" /\ client' = "idle" /\ response # <<>> /\ response' = <<>>
           /\ UNCHANGED <<request, lsq, args, ledger>>
  <2>1. request' = <<>> /\ args' = <<>> /\ response' = <<>>
    BY <1>6, AtOnePlace
  <2>2. Evaluating'
    BY <1>6, <2>1, EmptySeq DEF Evaluating
  <2> QED
    BY <1>1, <1>2, <1>3, <1>6, <2>1, <2>2, EmptySeq DEF EvaluatorTypeOK
<1>7. CASE (client' = "waiting" <=> client = "waiting") /\ UNCHANGED evaluatorVars
  BY <1>1, <1>2, <1>3, <1>7 DEF EvaluatorTypeOK, Evaluating, evaluatorVars
<1> QED
  BY <1>4, <1>5, <1>6, <1>7, EvaluatorSteps

LEMMA ClientTyped ==
  ASSUME Typed, Shape
  PROVE  /\ client' \in {"idle", "deserialising", "submitting", "resubmitting",
                         "reading", "waiting"}
         /\ Len(current') = IF client' = "idle" THEN 0 ELSE 1
         /\ client' \in {"reading", "waiting"} => current'[1].era \in Eras
         /\ issued' \in Nat
         /\ queue' \in Seq(Request) /\ current' \in Seq(Request)
         /\ responses' \in Seq(Response)
<1>1. /\ queue \in Seq(Request) /\ current \in Seq(Request) /\ responses \in Seq(Response)
      /\ issued \in Nat
      /\ client \in {"idle", "deserialising", "submitting", "resubmitting", "reading",
                     "waiting"}
      /\ Len(current) = IF client = "idle" THEN 0 ELSE 1
      /\ client \in {"reading", "waiting"} => current[1].era \in Eras
  BY DEF Typed, TypeOK
<1>2. CASE Received
  BY <1>1, <1>2, Appended DEF Received
<1>3. CASE Begun
  <2>1. Head(queue) \in Request /\ Tail(queue) \in Seq(Request)
    BY <1>1, <1>3, Popped DEF Begun
  <2>2. current' \in Seq(Request) /\ Len(current') = 1 /\ current'[1] = Head(queue)
    BY <1>3, <2>1 DEF Begun
  <2> QED
    BY <1>1, <1>3, <2>1, <2>2 DEF Begun
<1>4. CASE Answered
  <2>1. responses' \in Seq(Response)
    BY <1>1, <1>4, Appended DEF Answered
  <2>2. current' = <<>> /\ Len(<<>>) = 0 /\ <<>> \in Seq(Request) /\ client' = "idle"
        /\ UNCHANGED <<issued, queue>>
    BY <1>4 DEF Answered
  <2> QED
    BY <1>1, <2>1, <2>2
<1>5. CASE Silent
  BY <1>1, <1>5 DEF Silent
<1> QED
  BY <1>2, <1>3, <1>4, <1>5 DEF Shape

(* What is under way at the node: the era sent and the verdict.             *)
LEMMA NodeTyped ==
  ASSUME Typed, [Next]_vars
  PROVE  attempt' \in Eras /\ verdict' \in Seq(Verdict)
<1>1. attempt \in Eras /\ verdict \in Seq(Verdict)
  BY DEF Typed, TypeOK
<1>2. CASE ServeSubmit
  <2>1. queue \in Seq(Request) /\ queue # <<>>
    BY <1>2 DEF ServeSubmit, Serve, Typed
  <2>2. Head(queue) \in Request
    BY <2>1, Popped
  <2> QED
    BY <1>1, <1>2, <2>2 DEF ServeSubmit, Request
<1>3. CASE OnSubmitted \/ OnResubmitted
  <2>1. attempt' \in {attempt, Conway} /\ verdict' = <<>>
    BY <1>3 DEF OnSubmitted, OnResubmitted
  <2>2. Conway \in Eras /\ <<>> \in Seq(Verdict)
    BY DEF Eras, Conway, Dijkstra
  <2> QED
    BY <1>1, <2>1, <2>2
<1>4. CASE NodeSubmits
  <2>1. LedgerEra \in Eras
    BY Snapshots DEF LedgerEra
  <2>2. \A tag \in {"SubmitSuccess", "SubmitFail", "WrongEra"} :
          [tag |-> tag, era |-> LedgerEra] \in Verdict
    BY <2>1 DEF Verdict
  <2>3. PICK tag \in {"SubmitSuccess", "SubmitFail", "WrongEra"} :
          verdict' = <<[tag |-> tag, era |-> LedgerEra]>>
    BY <1>4 DEF NodeSubmits
  <2>4. verdict' \in Seq(Verdict)
    BY <2>2, <2>3
  <2> QED
    BY <1>1, <1>4, <2>4 DEF NodeSubmits
<1>5. CASE UNCHANGED <<attempt, verdict>>
  BY <1>1, <1>5
<1> QED
  BY <1>2, <1>3, <1>4, <1>5
     DEF Next, Push, Submission, AnswerUndecodable, ServeEvaluate, ReadMempool, OnEvaluated,
         MonitorStep, EvaluatorStep, NodeChanges, vars, clientVars

LEMMA TypeStep ==
  ASSUME Typed, Evaluating, monitor # "acquiring" => acquired \in DOMAIN mempools,
         [Next]_vars
  PROVE  Typed' /\ Evaluating'
<1> DEFINE Requests == [id : Nat, kind : {"submit", "evaluate"},
                        era : Eras \cup {Undecodable}, utxo : Eras]
<1>1. Request \subseteq Requests
  BY DEF Request, Eras, Babbage, Conway, Dijkstra
<1> HIDE DEF Requests
<1>2. queue' \in Seq(Request)
  BY ClientTyped, StepShape
<1>3. queue' \in Seq(Requests)
  BY <1>1, <1>2, SeqMonotonic
<1> QED
  BY <1>3, StepShape, MempoolStep, CacheTyped, EvaluatorTyped, ClientTyped, NodeTyped
     DEF Typed, TypeOK, Requests

-----------------------------------------------------------------------------
(* The mempool cache.  Whatever is drained so far is what the snapshot has  *)
(* first, backwards.                                                        *)
DrainedSoFar ==
  LET ids == mempools[acquired].ids
  IN  /\ Len(drained) <= Len(ids)
      /\ \A p \in DOMAIN drained : drained[p] = ids[Len(drained) + 1 - p]

(* The first value in the TMVar is of no snapshot, and has no transaction.  *)
Whole(c) ==
  IF c.source = 0
    THEN c.ids = <<>>
    ELSE /\ c.source \in DOMAIN mempools
         /\ c.ids = mempools[c.source].ids
         /\ c.era = mempools[c.source].era

CacheKept ==
  /\ MonitorNeverBlocks
  /\ monitor # "acquiring" => acquired \in DOMAIN mempools
  /\ monitor = "draining" => DrainedSoFar
  /\ \A i \in DOMAIN mempool : Whole(mempool[i])

(* A sequence with one more element in front.                               *)
LEMMA Prepended ==
  ASSUME NEW S, NEW s \in Seq(S), NEW e \in S
  PROVE  /\ <<e>> \o s \in Seq(S)
         /\ Len(<<e>> \o s) = 1 + Len(s)
         /\ \A p \in 1 .. 1 + Len(s) : (<<e>> \o s)[p] = IF p <= 1 THEN e ELSE s[p - 1]
<1> DEFINE one == <<e>>
<1>1. one \in Seq(S) /\ Len(one) = 1 /\ one[1] = e
  OBVIOUS
<1> HIDE DEF one
<1>2. /\ one \o s \in Seq(S)
      /\ Len(one \o s) = Len(one) + Len(s)
      /\ \A p \in 1 .. Len(one) + Len(s) :
           (one \o s)[p] = IF p <= Len(one) THEN one[p] ELSE s[p - Len(one)]
  BY <1>1, ConcatProperties
<1>3. /\ Len(one \o s) = 1 + Len(s)
      /\ \A p \in 1 .. 1 + Len(s) : (one \o s)[p] = IF p <= 1 THEN one[p] ELSE s[p - 1]
  BY <1>1, <1>2
<1>4. \A p \in 1 .. 1 + Len(s) : p <= 1 => p = 1
  BY LenProperties
<1>5. \A p \in 1 .. 1 + Len(s) : (one \o s)[p] = IF p <= 1 THEN e ELSE s[p - 1]
  BY <1>1, <1>3, <1>4
<1> QED
  BY <1>2, <1>3, <1>5 DEF one

(* One more transaction of the snapshot is put before those drained.        *)
LEMMA DrainsOneMore ==
  ASSUME NEW ids \in Seq(Nat), NEW txs \in Seq(Nat), Len(txs) < Len(ids),
         \A p \in DOMAIN txs : txs[p] = ids[Len(txs) + 1 - p]
  PROVE  LET more == <<ids[Len(txs) + 1]>> \o txs
         IN  /\ Len(more) <= Len(ids)
             /\ \A p \in DOMAIN more : more[p] = ids[Len(more) + 1 - p]
<1> DEFINE n    == Len(txs)
           more == <<ids[n + 1]>> \o txs
<1>1. n \in Nat /\ Len(ids) \in Nat /\ n + 1 \in 1 .. Len(ids) /\ DOMAIN txs = 1 .. n
  BY LenProperties
<1>2. ids[n + 1] \in Nat
  BY <1>1, ElementOfSeq
<1>3. /\ more \in Seq(Nat) /\ Len(more) = 1 + n
      /\ \A p \in 1 .. 1 + n : more[p] = IF p <= 1 THEN ids[n + 1] ELSE txs[p - 1]
  BY <1>2, Prepended
<1>4. DOMAIN more = 1 .. 1 + n
  BY <1>3, LenProperties
<1>5. Len(more) <= Len(ids)
  BY <1>1, <1>3
<1> HIDE DEF more, n
<1>6. ASSUME NEW p \in DOMAIN more
      PROVE  more[p] = ids[Len(more) + 1 - p]
  <2>1. CASE p = 1
    <3>1. more[p] = ids[n + 1] /\ Len(more) + 1 - p = n + 1
      BY <1>1, <1>2, <1>3, <2>1
    <3> QED
      BY <3>1
  <2>2. CASE p # 1
    <3>1. p - 1 \in DOMAIN txs /\ more[p] = txs[p - 1]
      <4>1. p \in 1 .. 1 + n /\ ~(p <= 1) /\ p - 1 \in 1 .. n
        BY <1>1, <1>4, <2>2
      <4> QED
        BY <1>1, <1>3, <4>1
    <3>2. n + 1 - (p - 1) = Len(more) + 1 - p
      BY <1>1, <1>3, <1>4
    <3> QED
      BY <3>1, <3>2 DEF n
  <2> QED
    BY <2>1, <2>2
<1> QED
  BY <1>5, <1>6 DEF more, n

(* When they are all there, they are those of the snapshot once reversed.   *)
LEMMA ReversedInOrder ==
  ASSUME NEW ids \in Seq(Nat), NEW txs \in Seq(Nat), Len(txs) = Len(ids),
         \A p \in DOMAIN txs : txs[p] = ids[Len(txs) + 1 - p]
  PROVE  Reversed(txs) = ids
<1>1. /\ Len(ids) \in Nat /\ DOMAIN txs = 1 .. Len(ids) /\ DOMAIN ids = 1 .. Len(ids)
  BY LenProperties
<1>2. DOMAIN Reversed(txs) = 1 .. Len(ids)
  BY <1>1 DEF Reversed
<1>3. ASSUME NEW i \in 1 .. Len(ids)
      PROVE  Reversed(txs)[i] = ids[i]
  <2>1. Len(ids) + 1 - i \in DOMAIN txs /\ Len(ids) + 1 - (Len(ids) + 1 - i) = i
    BY <1>1
  <2>2. Reversed(txs)[i] = txs[Len(ids) + 1 - i]
    BY <1>1 DEF Reversed
  <2> QED
    BY <2>1, <2>2
<1>4. Reversed(txs) = [i \in 1 .. Len(ids) |-> Reversed(txs)[i]]
  BY <1>1 DEF Reversed
<1>5. ids = [i \in 1 .. Len(ids) |-> ids[i]]
  BY <1>1
<1> QED
  BY <1>3, <1>4, <1>5

LEMMA CacheStep ==
  ASSUME Typed, CacheKept, [Next]_vars
  PROVE  CacheKept'
<1>1. /\ Now \in Nat \ {0} /\ Now \in DOMAIN mempools /\ DOMAIN mempools = 1 .. Now
      /\ \A s \in DOMAIN mempools : s \in DOMAIN mempools' /\ mempools'[s] = mempools[s]
  BY MempoolStep DEF Kept
<1>2. mempool \in Seq(Cached) /\ starts \in Nat /\ mempoolSnapshot \in Nat
      /\ drained \in Seq(Nat)
  BY DEF Typed, TypeOK, CacheTypeOK
<1>3. monitor' # "acquiring" => acquired' \in DOMAIN mempools'
  BY CacheTyped DEF CacheKept
<1>4. ASSUME UNCHANGED mempool
      PROVE  \A i \in DOMAIN mempool' : Whole(mempool[i])'
  BY <1>1, <1>4 DEF CacheKept, Whole
<1>5. ASSUME UNCHANGED <<acquired, drained>>, monitor = "draining"
      PROVE  DrainedSoFar'
  <2>1. acquired \in DOMAIN mempools /\ DrainedSoFar
    BY <1>5 DEF CacheKept
  <2>2. mempools'[acquired'] = mempools[acquired]
    BY <1>1, <1>5, <2>1
  <2> QED
    BY <1>5, <2>1, <2>2 DEF DrainedSoFar
<1>6. CASE UNCHANGED <<monitorVars, mempool, mempoolSnapshot>>
  BY <1>3, <1>4, <1>5, <1>6 DEF CacheKept, MonitorNeverBlocks, monitorVars
<1>7. CASE NodeAcquires
  BY <1>3, <1>4, <1>7 DEF CacheKept, MonitorNeverBlocks, NodeAcquires
<1>8. CASE StartDrain
  <2>1. MonitorNeverBlocks'
    BY <1>2, <1>8 DEF CacheKept, MonitorNeverBlocks, StartDrain, Stamp, Taken
  <2>2. DrainedSoFar'
    <3>1. acquired \in DOMAIN mempools /\ UNCHANGED <<mempools, acquired>> /\ drained' = <<>>
      BY <1>8 DEF CacheKept, StartDrain
    <3>2. Len(mempools[acquired].ids) \in Nat
      BY <3>1, Snapshots, LenProperties
    <3> QED
      BY <3>1, <3>2 DEF DrainedSoFar
  <2>3. \A i \in DOMAIN mempool' : Whole(mempool[i])'
    BY <1>8 DEF StartDrain, Taken
  <2> QED
    BY <1>3, <2>1, <2>2, <2>3 DEF CacheKept
<1>9. CASE DrainNext
  <2> DEFINE ids == mempools[acquired].ids
  <2>1. acquired \in DOMAIN mempools /\ UNCHANGED <<mempools, acquired, monitor, mempool,
                                                     mempoolSnapshot, starts>>
    BY <1>9 DEF CacheKept, DrainNext
  <2>2. ids \in Seq(Nat)
    BY <2>1, Snapshots
  <2>3. /\ Len(drained) < Len(ids)
        /\ drained' = <<ids[Len(drained) + 1]>> \o drained
        /\ \A p \in DOMAIN drained : drained[p] = ids[Len(drained) + 1 - p]
    BY <1>9 DEF DrainNext, CacheKept, DrainedSoFar
  <2>4. ids' = ids
    BY <2>1
  <2> HIDE DEF ids
  <2>5. /\ Len(drained') <= Len(ids)
        /\ \A p \in DOMAIN drained' : drained'[p] = ids[Len(drained') + 1 - p]
    BY <1>2, <2>2, <2>3, DrainsOneMore
  <2>6. DrainedSoFar'
    BY <2>4, <2>5 DEF DrainedSoFar, ids
  <2> QED
    BY <1>3, <1>4, <2>1, <2>6 DEF CacheKept, MonitorNeverBlocks
<1>10. CASE Publish
  <2> DEFINE ids == mempools[acquired].ids
  <2>1. /\ acquired \in DOMAIN mempools /\ acquired # 0 /\ UNCHANGED <<mempools, acquired, starts>>
        /\ ids \in Seq(Nat)
    BY <1>1, <1>10, Snapshots DEF CacheKept, Publish
  <2>2. Reversed(drained) = ids
    <3>1. /\ Len(drained) = Len(ids)
          /\ \A p \in DOMAIN drained : drained[p] = ids[Len(drained) + 1 - p]
      BY <1>10 DEF Publish, CacheKept, DrainedSoFar
    <3> HIDE DEF ids
    <3> QED
      BY <1>2, <2>1, <3>1, ReversedInOrder
  <2> DEFINE c == [source |-> acquired, era |-> mempools[acquired].era, ids |-> ids]
  <2>3. mempool' = <<c>> /\ mempoolSnapshot' = starts /\ monitor' = "awaiting"
    BY <1>10, <2>2 DEF Publish
  <2>4. Len(mempool') = 1 /\ DOMAIN mempool' = {1} /\ mempool'[1] = c
    BY <2>3
  <2>5. Whole(mempool[1])'
    BY <2>1, <2>4 DEF Whole
  <2>6. MonitorNeverBlocks'
    BY <2>1, <2>3, <2>4 DEF MonitorNeverBlocks
  <2> QED
    BY <1>3, <2>3, <2>4, <2>5, <2>6 DEF CacheKept
<1> QED
  BY <1>6, <1>7, <1>8, <1>9, <1>10, CacheSteps DEF Monitor

-----------------------------------------------------------------------------
(* What an evaluation carries from its request to its result.               *)
Carried ==
  {request[k] : k \in DOMAIN request} \cup {args[k] : k \in DOMAIN args}
    \cup {response[k].args : k \in DOMAIN response}

(* The UTxO of the mempool is that of the snapshot; nothing is lost of the  *)
(* two unless the mempool has a transaction of the latest era.              *)
Merged(a) ==
  \/ a.utxo = Origins
  \/ /\ a.utxo = {"mempool"}
     /\ a.source \in DOMAIN mempools
     /\ mempools[a.source].ids # <<>> /\ mempools[a.source].era = Dijkstra

(* They are those of the request being served, put together by now, from a  *)
(* snapshot later than those that had been submitted to.                    *)
AsAsked(a) ==
  /\ a.id = current[1].id
  /\ a.since \in 0 .. Now
  /\ \A i \in DOMAIN responses : responses[i].seen # Nothing => a.key > responses[i].seen
  /\ Merged(a)

InFlight == \A a \in Carried : AsAsked(a)

(* Submissions mark snapshots that have been published.                     *)
Marked ==
  /\ mempoolSnapshotOnLastSubmit <= mempoolSnapshot
  /\ \A i \in DOMAIN responses : responses[i].seen <= mempoolSnapshotOnLastSubmit

LEMMA Carries ==
  ASSUME Typed, Evaluating
  PROVE  /\ client # "waiting" => Carried = {}
         /\ args # <<>> => args[1] \in Carried
         /\ \A k \in DOMAIN response : response[k].args \in Carried
<1>1. args # <<>> => 1 \in DOMAIN args
  BY Popped DEF Typed, TypeOK, EvaluatorTypeOK
<1> QED
  BY <1>1, AtOnePlace DEF Carried

LEMMA NoneCarried == Typed /\ Evaluating => (client # "waiting" => Carried = {})
BY Carries

LEMMA CarriedStep ==
  ASSUME Typed, Evaluating, [Next]_vars
  PROVE  \/ Requested /\ Carried' = {request'[1]}
         \/ Carried' \subseteq Carried
<1>1. CASE Evaluator
  <2>1. CASE UNCHANGED <<request, response, args>>
    BY <2>1 DEF Carried
  <2>2. CASE TakenOver
    BY <2>2, AtOnePlace DEF TakenOver, Carried
  <2>3. ASSUME NEW tag, RepliedAs(tag)
        PROVE  Carried' \subseteq Carried
    <3>1. /\ args # <<>> /\ request' = <<>> /\ args' = <<>>
          /\ response' = <<[args |-> args[1], ledger |-> ledger, tag |-> tag]>>
      BY <2>3, AtOnePlace DEF RepliedAs
    <3>2. Carried' = {args[1]}
      BY <3>1 DEF Carried
    <3> QED
      BY <3>1, <3>2, Carries
  <2> QED
    BY <1>1, <2>1, <2>2, <2>3, EvaluatorShape DEF EvaluatorMoves
<1>2. CASE Requested
  <2>1. PICK a \in Arguments : request' = <<a>>
    BY <1>2 DEF Requested
  <2>2. args' = <<>> /\ response' = <<>>
    BY <1>2, AtOnePlace DEF Requested
  <2>3. Carried' = {a}
    BY <2>1, <2>2 DEF Carried
  <2> QED
    BY <1>2, <2>1, <2>3
<1>3. CASE response' = <<>> /\ UNCHANGED <<request, args>>
  BY <1>3 DEF Carried
<1>4. CASE UNCHANGED evaluatorVars
  BY <1>4 DEF Carried, evaluatorVars
<1> QED
  BY <1>1, <1>2, <1>3, <1>4, EvaluatorSteps

LEMMA MergesMempool ==
  ASSUME Typed, CacheKept, mempool # <<>>, current[1] \in Request,
         NEW a, a.source = mempool[1].source,
         a.utxo = MergedUtxo(mempool[1], current[1])
  PROVE  Merged(a)
<1> DEFINE cached == mempool[1]
           eras   == [mempool |-> MempoolUtxoEra(cached), additional |-> current[1].utxo]
           latest == {origin \in Origins : eras[origin] = Dijkstra}
<1>1. a.utxo = IF latest = {} THEN Origins ELSE latest
  BY DEF MergedUtxo
<1>2. "additional" \notin latest
  BY DEF Request, Babbage, Conway, Dijkstra
<1>3. CASE latest = {}
  BY <1>1, <1>3 DEF Merged
<1>4. CASE latest # {}
  <2>1. latest = {"mempool"} /\ a.utxo = {"mempool"}
    BY <1>1, <1>2, <1>4 DEF Origins
  <2>2. MempoolUtxoEra(cached) = Dijkstra
    BY <2>1
  <2>3. cached.ids # <<>> /\ cached.era = Dijkstra
    BY <2>2 DEF MempoolUtxoEra, Babbage, Dijkstra
  <2>4. 1 \in DOMAIN mempool
    BY Popped DEF Typed, TypeOK, CacheTypeOK
  <2>5. Whole(cached)
    BY <2>4 DEF CacheKept
  <2> QED
    BY <2>1, <2>3, <2>5 DEF Whole, Merged
<1> QED
  BY <1>3, <1>4

(* A snapshot that may be read was published after the last submission.     *)
LEMMA ReadsLater ==
  ASSUME Typed, Marked, Readable, NEW i \in DOMAIN responses, responses[i].seen # Nothing
  PROVE  mempoolSnapshot > responses[i].seen
<1>1. /\ responses \in Seq(Response)
      /\ mempoolSnapshot \in Nat /\ mempoolSnapshotOnLastSubmit \in Nat
  BY DEF Typed, TypeOK, CacheTypeOK
<1>2. responses[i] \in Response
  BY <1>1, ElementOfSeq, LenProperties
<1>3. responses[i].seen \in Nat
  BY <1>2 DEF Response
<1>4. /\ mempoolSnapshotOnLastSubmit <= mempoolSnapshot
      /\ responses[i].seen <= mempoolSnapshotOnLastSubmit
  BY DEF Marked
<1>5. mempoolSnapshotOnLastSubmit # Nothing => mempoolSnapshot # mempoolSnapshotOnLastSubmit
  BY DEF Readable
<1> QED
  BY <1>1, <1>3, <1>4, <1>5 DEF Nothing

LEMMA InFlightStep ==
  ASSUME Typed, Evaluating, CacheKept, Marked, InFlight, [Next]_vars
  PROVE  InFlight'
<1>1. Kept /\ Evaluating' /\ Typed'
  BY MempoolStep, TypeStep DEF CacheKept
<1>2. ASSUME NEW a, Merged(a)
      PROVE  Merged(a)'
  BY <1>1, <1>2 DEF Kept, Merged
<1> SUFFICES ASSUME NEW a \in Carried'
             PROVE  AsAsked(a)'
  BY DEF InFlight
<1>3. CASE Requested
  <2>1. request'[1] = a /\ request' # <<>>
    BY <1>3, CarriedStep, Carries DEF Requested
  <2>2. /\ a.id = current[1].id /\ a.key = mempoolSnapshot /\ a.since = Now
        /\ a.source = mempool[1].source
        /\ a.utxo = MergedUtxo(mempool[1], current[1])
        /\ Readable /\ client = "reading" /\ UNCHANGED <<current, responses>>
    BY <1>3, <2>1 DEF Requested
  <2>3. Merged(a)
    BY <2>2, Serving, MergesMempool DEF Readable
  <2>4. \A i \in DOMAIN responses : responses[i].seen # Nothing => a.key > responses[i].seen
    BY <2>2, ReadsLater
  <2>5. a.since \in 0 .. Now'
    BY <1>1, <2>2 DEF Kept
  <2> QED
    BY <1>2, <2>2, <2>3, <2>4, <2>5 DEF AsAsked
<1>4. CASE Carried' \subseteq Carried
  <2>1. AsAsked(a)
    BY <1>4 DEF InFlight
  <2>2. client = "waiting"
    BY <1>4, Carries
  <2>3. client' = "waiting"
    <3>1. (Typed /\ Evaluating)' => (client # "waiting" => Carried = {})'
      BY NoneCarried, PTL
    <3> QED
      BY <1>1, <3>1
  <2>4. UNCHANGED <<current, responses>>
    BY <2>2, <2>3, StepShape DEF Shape, Received, Begun, Answered, Silent
  <2>5. a.since \in 0 .. Now'
    BY <1>1, <2>1 DEF Kept, AsAsked
  <2> QED
    BY <1>2, <2>1, <2>4, <2>5 DEF AsAsked
<1> QED
  BY <1>3, <1>4, CarriedStep

-----------------------------------------------------------------------------
(* The evaluator's ledger is one that the node has had, acquired after the  *)
(* arguments it has were put together, and in an era that it evaluates in   *)
(* once the era was told.                                                   *)
OnLedger ==
  /\ lsq # "acquiringFirst" => ledger \in DOMAIN mempools
  /\ lsq \in {"era", "pparams", "time", "utxo"} => args[1].since <= ledger

LEMMA OnLedgerStep ==
  ASSUME Typed, Evaluating, InFlight, OnLedger, [Next]_vars
  PROVE  OnLedger'
<1>1. /\ Now \in Nat \ {0} /\ Now \in DOMAIN mempools
      /\ \A s \in DOMAIN mempools : s \in DOMAIN mempools' /\ mempools'[s] = mempools[s]
  BY MempoolStep DEF Kept
<1>2. CASE UNCHANGED <<lsq, args, ledger>>
  BY <1>1, <1>2 DEF OnLedger
<1>3. CASE Evaluator /\ UNCHANGED <<mempools, cacheVars, clientVars>>
  <2>1. EvaluatorMoves /\ UNCHANGED mempools
    BY <1>3, EvaluatorShape
  <2>2. CASE lsq = "acquiring" /\ lsq' = "era" /\ ledger' = Now /\ UNCHANGED args
    <3>1. args[1] \in Carried
      BY <2>2, Carries DEF Evaluating, Running
    <3>2. args[1].since \in 0 .. Now
      BY <3>1 DEF InFlight, AsAsked
    <3> QED
      BY <1>1, <2>1, <2>2, <3>2 DEF OnLedger
  <2>3. CASE lsq = "acquiringFirst" /\ lsq' = "waiting" /\ ledger' = Now
    BY <1>1, <2>1, <2>3 DEF OnLedger
  <2>4. CASE /\ lsq = "era" /\ lsq' = "pparams" /\ UNCHANGED <<ledger, args>>
             /\ ~(mempools[ledger].era < Babbage)
    <3>1. mempools[ledger].era \in Nat /\ Babbage \in Nat
      BY <2>4, Snapshots DEF OnLedger, Eras, Babbage
    <3>2. mempools[ledger].era >= Babbage
      BY <2>4, <3>1
    <3> QED
      BY <2>1, <2>4, <3>2 DEF OnLedger
  <2>5. CASE lsq' = "acquiringFirst"
    BY <2>5 DEF OnLedger
  <2>6. CASE /\ lsq # "acquiringFirst" /\ UNCHANGED ledger
             /\ lsq' \in {"acquiring", "impossible", "upgradeFailed"}
    BY <2>1, <2>6 DEF OnLedger
  <2>7. CASE /\ lsq \in {"pparams", "time"} /\ lsq' \in {"time", "utxo"}
             /\ UNCHANGED <<ledger, args>>
    BY <2>1, <2>7 DEF OnLedger
  <2> QED
    BY <1>2, <2>1, <2>2, <2>3, <2>4, <2>5, <2>6, <2>7 DEF EvaluatorMoves
<1> QED
  BY <1>2, <1>3, EvaluatorSteps DEF Requested, evaluatorVars

-----------------------------------------------------------------------------
(* A result is of a ledger acquired since the request, and of both UTxOs    *)
(* or of the mempool's.                                                     *)
Sound(x) ==
  /\ x.ledger \in DOMAIN mempools
  /\ x.ledger >= x.args.since
  /\ Merged(x.args)

Concluded ==
  /\ \A k \in DOMAIN response : Sound(response[k])
  /\ \A i \in DOMAIN responses : \A k \in DOMAIN responses[i].result :
       Sound(responses[i].result[k])

LEMMA Concludes ==
  ASSUME Typed, Evaluating, InFlight, OnLedger,
         NEW tag \in {"Evaluated", "NodeTipTooOld"}, RepliedAs(tag),
         lsq \in {"era", "utxo"}
  PROVE  Sound([args |-> args[1], ledger |-> ledger, tag |-> tag])
<1>1. AsAsked(args[1]) /\ args[1] \in Arguments
  BY Carries, AtOnePlace DEF RepliedAs, InFlight
<1>2. ledger \in DOMAIN mempools /\ args[1].since <= ledger
  BY DEF OnLedger
<1>3. ledger \in Nat /\ args[1].since \in Nat
  BY <1>1, <1>2, Snapshots DEF Arguments
<1>4. Merged(args[1]) /\ ledger >= args[1].since
  BY <1>1, <1>2, <1>3 DEF AsAsked
<1> QED
  BY <1>2, <1>4 DEF Sound

LEMMA ConcludedStep ==
  ASSUME Typed, Evaluating, InFlight, OnLedger, Concluded, [Next]_vars
  PROVE  Concluded'
<1>1. \A s \in DOMAIN mempools : s \in DOMAIN mempools' /\ mempools'[s] = mempools[s]
  BY MempoolStep DEF Kept
<1>2. \A k \in DOMAIN response' : Sound(response'[k])
  <2>1. CASE UNCHANGED response \/ response' = <<>>
    BY <2>1 DEF Concluded
  <2>2. CASE Evaluator
    <3>1. EvaluatorMoves
      BY <2>2, EvaluatorShape
    <3>2. ASSUME NEW tag \in {"Evaluated", "NodeTipTooOld"}, RepliedAs(tag),
                 lsq \in {"era", "utxo"}
          PROVE  \A k \in DOMAIN response' : Sound(response'[k])
      <4> DEFINE x == [args |-> args[1], ledger |-> ledger, tag |-> tag]
      <4>1. Sound(x)
        BY <3>2, Concludes
      <4>2. response' = <<x>>
        BY <3>2 DEF RepliedAs
      <4> HIDE DEF x
      <4> QED
        BY <4>1, <4>2
    <3> QED
      BY <2>1, <3>1, <3>2 DEF EvaluatorMoves, TakenOver
  <2> QED
    BY <2>1, <2>2, EvaluatorSteps DEF Requested, evaluatorVars
<1>3. ASSUME NEW k \in DOMAIN response'
      PROVE  Sound(response[k])'
  <2>1. Sound(response'[k])
    BY <1>2
  <2> QED
    BY <1>1, <2>1 DEF Sound, Merged
<1>4. ASSUME NEW i \in DOMAIN responses', NEW k \in DOMAIN responses'[i].result
      PROVE  Sound(responses[i].result[k])'
  <2>1. Sound(responses'[i].result[k])
    <3>1. CASE UNCHANGED responses
      BY <1>4, <3>1 DEF Concluded
    <3>2. CASE Answered
      <4>1. PICK r \in Response :
              /\ r.result = <<>> \/ r.result = response
              /\ responses' = Append(responses, r)
        BY <3>2 DEF Answered
      <4>2. responses \in Seq(Response)
        BY DEF Typed, TypeOK
      <4>3. (i \in DOMAIN responses /\ responses'[i] = responses[i]) \/ responses'[i] = r
        BY <4>1, <4>2, Appended
      <4> QED
        BY <1>4, <4>1, <4>3 DEF Concluded
    <3> QED
      BY <3>1, <3>2, StepShape DEF Shape, Received, Begun, Silent
  <2> QED
    BY <1>1, <2>1 DEF Sound, Merged
<1> QED
  BY <1>3, <1>4 DEF Concluded

-----------------------------------------------------------------------------
(* What a response says of the submission and the evaluation it is about.   *)
LEMMA MarkedStep ==
  ASSUME Typed, CacheKept, Marked, [Next]_vars
  PROVE  Marked'
<1>1. /\ mempoolSnapshot \in Nat /\ mempoolSnapshotOnLastSubmit \in Nat /\ starts \in Nat
      /\ responses \in Seq(Response)
  BY DEF Typed, TypeOK, CacheTypeOK
<1>2. mempoolSnapshot' \in Nat /\ mempoolSnapshot <= mempoolSnapshot'
  <2>1. mempoolSnapshot <= starts
    BY <1>1 DEF CacheKept, MonitorNeverBlocks
  <2> QED
    BY <1>1, <2>1, CacheSteps DEF Monitor, NodeAcquires, StartDrain, DrainNext, Publish
<1>3. /\ mempoolSnapshotOnLastSubmit' \in Nat
      /\ mempoolSnapshotOnLastSubmit <= mempoolSnapshotOnLastSubmit'
      /\ mempoolSnapshotOnLastSubmit' <= mempoolSnapshot'
  BY <1>1, <1>2, MarkSteps DEF Marked
<1>4. ASSUME NEW i \in DOMAIN responses
      PROVE  responses[i].seen <= mempoolSnapshotOnLastSubmit'
  <2>1. responses[i] \in Response
    BY <1>1, ElementOfSeq, LenProperties
  <2>2. responses[i].seen \in Nat /\ responses[i].seen <= mempoolSnapshotOnLastSubmit
    BY <2>1 DEF Response, Marked
  <2> QED
    BY <1>1, <1>3, <2>2
<1>5. ASSUME NEW i \in DOMAIN responses'
      PROVE  responses'[i].seen <= mempoolSnapshotOnLastSubmit'
  <2>1. CASE UNCHANGED responses
    BY <1>4, <1>5, <2>1
  <2>2. CASE Answered
    <3>1. PICK r \in Response :
            /\ \/ r.seen = Nothing
               \/ r.seen = mempoolSnapshot /\ mempoolSnapshotOnLastSubmit' = mempoolSnapshot
            /\ responses' = Append(responses, r)
      BY <2>2 DEF Answered
    <3>2. (i \in DOMAIN responses /\ responses'[i] = responses[i]) \/ responses'[i] = r
      BY <1>1, <1>5, <3>1, Appended
    <3>3. r.seen <= mempoolSnapshotOnLastSubmit'
      BY <1>1, <1>3, <3>1 DEF Nothing
    <3> QED
      BY <1>4, <3>2, <3>3
  <2> QED
    BY <2>1, <2>2, StepShape DEF Shape, Received, Begun, Silent
<1> QED
  BY <1>3, <1>5 DEF Marked

LEMMA ResultStep ==
  ASSUME Typed, Evaluating, InFlight, OwnResult, NewSnapshotAfterSubmit, [Next]_vars
  PROVE  OwnResult' /\ NewSnapshotAfterSubmit'
<1>1. responses \in Seq(Response)
  BY DEF Typed, TypeOK
<1>2. CASE UNCHANGED responses
  BY <1>2 DEF OwnResult, NewSnapshotAfterSubmit
<1>3. CASE Answered
  <2>1. PICK r \in Response :
          /\ r.to = current[1].id
          /\ r.result = <<>> \/ r.result = response
          /\ responses' = Append(responses, r)
    BY <1>3 DEF Answered
  <2> DEFINE n == Len(responses)
  <2>2. /\ n \in Nat /\ DOMAIN responses = 1 .. n /\ DOMAIN responses' = 1 .. n + 1
        /\ \A i \in DOMAIN responses : responses'[i] = responses[i]
        /\ responses'[n + 1] = r
    BY <1>1, <2>1, Appended
  <2> HIDE DEF n
  <2>3. \A k \in DOMAIN r.result : AsAsked(r.result[k].args)
    BY <2>1, Carries DEF InFlight
  <2>4. ASSUME NEW i \in DOMAIN responses', NEW k \in DOMAIN responses'[i].result
        PROVE  responses'[i].result[k].args.id = responses'[i].to
    <3>1. CASE i \in 1 .. n
      BY <2>2, <2>4, <3>1 DEF OwnResult
    <3>2. CASE i = n + 1
      BY <2>1, <2>2, <2>3, <2>4, <3>2 DEF AsAsked
    <3> QED
      BY <2>2, <3>1, <3>2
  <2>5. ASSUME NEW i \in DOMAIN responses', NEW j \in DOMAIN responses', i < j,
               responses'[i].seen # Nothing, NEW k \in DOMAIN responses'[j].result
        PROVE  responses'[j].result[k].args.key > responses'[i].seen
    <3>1. i \in 1 .. n /\ responses'[i] = responses[i]
      BY <2>2, <2>5
    <3>2. CASE j \in 1 .. n
      BY <2>2, <2>5, <3>1, <3>2 DEF NewSnapshotAfterSubmit
    <3>3. CASE j = n + 1
      BY <2>2, <2>3, <2>5, <3>1, <3>3 DEF AsAsked
    <3> QED
      BY <2>2, <3>2, <3>3
  <2> QED
    BY <2>4, <2>5 DEF OwnResult, NewSnapshotAfterSubmit
<1> QED
  BY <1>2, <1>3, StepShape DEF Shape, Received, Begun, Silent

-----------------------------------------------------------------------------
Inv ==
  /\ Typed
  /\ Ordered
  /\ CacheKept
  /\ Evaluating
  /\ InFlight
  /\ OnLedger
  /\ Concluded
  /\ Marked
  /\ OwnResult
  /\ NewSnapshotAfterSubmit

LEMMA InitInv == Init => Inv
<1> SUFFICES ASSUME Init PROVE Inv
  OBVIOUS
<1> USE DEF Init, CacheInit, EvaluatorInit, Nothing
<1>1. mempools \in Seq(Mempool) /\ mempools # <<>> /\ Now = 1
  <2>1. PICK era \in Oldest .. Newest : mempools = <<[era |-> era, ids |-> <<>>]>>
    BY DEF NodeInit
  <2>2. [era |-> era, ids |-> <<>>] \in Mempool
    BY NodeAssumption DEF Mempool, Eras, Dijkstra
  <2> QED
    BY <2>1, <2>2 DEF Now
<1>2. Typed
  <2>1. mempool \in Seq(Cached)
    <3>1. [source |-> 0, era |-> Babbage, ids |-> <<>>] \in Cached
      BY DEF Cached, Eras, Babbage, Dijkstra
    <3> QED
      BY <3>1
  <2>2. CacheTypeOK
    BY <1>1, <2>1 DEF CacheTypeOK
  <2>3. EvaluatorTypeOK
    BY <1>1 DEF EvaluatorTypeOK
  <2> QED
    BY <1>1, <2>2, <2>3 DEF Typed, TypeOK, Eras, Dijkstra
<1>3. Ordered
  BY DEF Ordered, InOrder
<1>4. CacheKept
  BY DEF CacheKept, MonitorNeverBlocks, Whole
<1>5. Evaluating /\ OnLedger
  BY DEF Evaluating, OnLedger, Running
<1>6. InFlight
  BY DEF InFlight, Carried
<1>7. Concluded /\ Marked /\ OwnResult /\ NewSnapshotAfterSubmit
  BY DEF Concluded, Marked, OwnResult, NewSnapshotAfterSubmit
<1> QED
  BY <1>2, <1>3, <1>4, <1>5, <1>6, <1>7 DEF Inv

(* The invariant above holds initially, and all threads keep it.            *)
LEMMA InvHolds == Spec => []Inv
<1>1. Inv /\ [Next]_vars => Inv'
  <2> SUFFICES ASSUME Inv, [Next]_vars PROVE Inv'
    OBVIOUS
  <2> USE DEF Inv
  <2>1. Typed' /\ Evaluating'
    BY TypeStep DEF CacheKept
  <2>2. Ordered'
    BY OrderStep, StepShape
  <2> QED
    BY <2>1, <2>2, CacheStep, InFlightStep, OnLedgerStep, ConcludedStep, MarkedStep, ResultStep
<1> QED
  BY <1>1, InitInv, PTL DEF Spec

(* Submission client, evaluator and the two TMVars between them are in      *)
(* step: an evaluation is under way at one place at most, so that no        *)
(* putTMVar finds a value already there; requests are answered once, in     *)
(* order, and an evaluation with the result of its own request.             *)
THEOREM InStepCorrect == Spec => []InStep
<1>1. Inv => InStep
  <2> SUFFICES ASSUME Inv PROVE InStep
    OBVIOUS
  <2>1. OneEvaluation
    BY DEF Inv, Evaluating, OneEvaluation
  <2> QED
    BY <2>1 DEF Inv, InStep, Typed, Ordered, InOrder, AnsweredInOrder
<1> QED
  BY <1>1, InvHolds, PTL

(* Readers of the mempool's cache get one snapshot of the node, whole and   *)
(* in order, and the monitoring client never blocks on the TMVar.           *)
THEOREM CacheIsSoundAlways == Spec => []CacheIsSound
<1>1. Inv => CacheIsSound
  BY DEF Inv, CacheKept, Whole, CacheIsSound, CacheIsASnapshot
<1> QED
  BY <1>1, InvHolds, PTL

(* An evaluation runs on a ledger acquired after it was asked for, and      *)
(* after a submission on a later snapshot of the mempool than the one that  *)
(* there was: however the four threads interleave.                          *)
THEOREM EvaluationsAreUpToDate == Spec => []UpToDate
<1>1. Inv => UpToDate
  BY DEF Inv, Concluded, Sound, UpToDate, FreshLedger
<1> QED
  BY <1>1, InvHolds, PTL

(* As long as no node knows of the latest era, evaluations are made with    *)
(* the additional UTxO as with the mempool's.                               *)
THEOREM AdditionalUtxoUsedBefore ==
  ASSUME Newest < Dijkstra
  PROVE  Spec => []AdditionalUtxoUsed
<1> DEFINE InEras == \A s \in DOMAIN mempools : mempools[s].era <= Newest
<1>1. Init => InEras
  <2> SUFFICES ASSUME Init PROVE InEras
    OBVIOUS
  <2>1. PICK era \in Oldest .. Newest : mempools = <<[era |-> era, ids |-> <<>>]>>
    BY DEF Init, CacheInit, NodeInit
  <2> QED
    BY <2>1, NodeAssumption DEF Eras, Dijkstra
<1>2. Inv /\ InEras /\ [Next]_vars => InEras'
  <2> SUFFICES ASSUME Inv, InEras, [Next]_vars PROVE InEras'
    OBVIOUS
  <2>1. CASE UNCHANGED mempools
    BY <2>1
  <2>2. ASSUME NEW m \in Mempool, mempools' = Append(mempools, m),
               m.era = LedgerEra \/ m.era <= Newest
        PROVE  InEras'
    <3>1. mempools \in Seq(Mempool) /\ Now \in DOMAIN mempools
      BY Snapshots DEF Inv
    <3>2. LedgerEra <= Newest
      BY <3>1 DEF LedgerEra
    <3>3. ASSUME NEW s \in DOMAIN mempools'
          PROVE  (s \in DOMAIN mempools /\ mempools'[s] = mempools[s]) \/ mempools'[s] = m
      BY <2>2, <3>1, <3>3, Appended
    <3> QED
      BY <2>2, <3>2, <3>3
  <2>3. \/ UNCHANGED mempools
        \/ \E m \in Mempool : /\ mempools' = Append(mempools, m)
                              /\ m.era = LedgerEra \/ m.era <= Newest
    BY NewMempool DEF Inv
  <2> QED
    BY <2>1, <2>2, <2>3
<1>3. Inv /\ InEras => AdditionalUtxoUsed
  <2> SUFFICES ASSUME Inv, InEras,
                      NEW i \in DOMAIN responses, NEW k \in DOMAIN responses[i].result
               PROVE  responses[i].result[k].args.utxo = Origins
    BY DEF AdditionalUtxoUsed
  <2> DEFINE a == responses[i].result[k].args
  <2>1. Merged(a)
    BY DEF Inv, Concluded, Sound
  <2>2. a.source \in DOMAIN mempools => mempools[a.source].era # Dijkstra
    BY NodeAssumption DEF Eras, Dijkstra
  <2> QED
    BY <2>1, <2>2 DEF Merged
<1> QED
  BY <1>1, <1>2, <1>3, InitInv, InvHolds, PTL DEF Spec
=============================================================================
