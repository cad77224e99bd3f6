--------------------------- MODULE StateQueryProofs ---------------------------
(***************************************************************************)
(* Theorems about StateQuery: for any requests, any hard fork, any window  *)
(* of states the node can acquire, and any number of requests.             *)
(***************************************************************************)
EXTENDS StateQuery, RequestOrder

Request == [id : Nat, op : {"acquire", "release", "query"}, point : Nat,
            parts : 0 .. 3, eras : SUBSET Eras]

(* TypeOK, and the type of the request being served.                        *)
Typed ==
  /\ TypeOK
  /\ current \in Seq(Request)

(* AnsweredInOrder made inductive: the ids in the queue go on from there.   *)
Ordered == InOrder(issued, queue, current, responses)

-----------------------------------------------------------------------------
(* What a step does to the requests that are queued, served and answered.   *)

Received ==
  \E r \in Request :
    /\ r.id = issued + 1
    /\ issued' = issued + 1
    /\ queue' = Append(queue, r)
    /\ UNCHANGED <<client, current, oneOff, collected, responses, lastState, held>>

Begun ==
  /\ queue # <<>> /\ current = <<>>
  /\ queue' = Tail(queue)
  /\ current' = <<Head(queue)>>
  /\ UNCHANGED <<issued, responses>>

(* The results in a response, if any, are those that were gathered.         *)
Sourced(r) ==
  r.tag = "QueryResponse" /\ r.from # <<>> => client = "querying" /\ r.from = Gathered

AnsweredAtOnce ==
  /\ queue # <<>> /\ current = <<>>
  /\ queue' = Tail(queue)
  /\ \E r \in Response :
       /\ r.to = Head(queue).id /\ Sourced(r)
       /\ responses' = Append(responses, r)
  /\ UNCHANGED <<issued, current>>

Answered ==
  /\ current # <<>>
  /\ current' = <<>>
  /\ \E r \in Response :
       /\ r.to = current[1].id /\ Sourced(r)
       /\ responses' = Append(responses, r)
  /\ UNCHANGED <<issued, queue>>

Silent == UNCHANGED <<issued, queue, current, responses>>

Shape == Received \/ Begun \/ AnsweredAtOnce \/ Answered \/ Silent

(* A client that awaits a request serves none; any other serves one.        *)
LEMMA Serving ==
  ASSUME Typed
  PROVE  /\ client \in {"idle", "acquired"} => current = <<>>
         /\ client \notin {"idle", "acquired"} =>
              current # <<>> /\ Len(current) = 1 /\ current[1] \in Request
<1> Len(current) = (IF client \in {"idle", "acquired"} THEN 0 ELSE 1) /\ current \in Seq(Request)
  BY DEF Typed, TypeOK
<1> QED
  BY EmptySeq

(* An answer of Answer is a response, made of natural numbers.              *)
LEMMA AnswerShape ==
  ASSUME Typed, client \notin {"idle", "acquired"},
         NEW tag \in QueryTags \cup SessionTags, NEW from \in Seq(Nat),
         NEW c, Answer(tag, from, c), UNCHANGED <<issued, queue>>,
         tag = "QueryResponse" /\ from # <<>> => client = "querying" /\ from = Gathered
  PROVE  Answered
<1>1. current[1] \in Request /\ current # <<>>
  BY Serving
<1>2. [to |-> current[1].id, tag |-> tag, from |-> from] \in Response
  BY <1>1 DEF Request, Response
<1> QED
  BY <1>1, <1>2 DEF Answer, Respond, Served, Answered, Sourced

LEMMA Gathering ==
  ASSUME Typed
  PROVE  Gathered \in Seq(Nat)
<1>1. held \in Nat /\ collected \in Seq(Nat)
  BY DEF Typed, TypeOK
<1> QED
  BY <1>1, AppendProperties DEF Gathered

LEMMA StepShape ==
  ASSUME Typed, [Next]_vars
  PROVE  Shape
<1> USE StateQueryAssumption DEF Shape
<1>1. CASE Push
  <2>1. PICK p \in Payloads : queue' = Append(queue,
          [id |-> issued + 1, op |-> p.op, point |-> p.point,
           parts |-> p.parts, eras |-> p.eras])
    BY <1>1 DEF Push
  <2>2. [id |-> issued + 1, op |-> p.op, point |-> p.point,
         parts |-> p.parts, eras |-> p.eras] \in Request
    BY DEF Request, Typed, TypeOK
  <2> QED
    BY <1>1, <2>1, <2>2 DEF Push, Received
<1>2. CASE ServeAcquire \/ ServeQuery
  BY <1>2, Serving DEF ServeAcquire, ServeQuery, Await, Dequeued, Begun
<1>3. CASE ServeRelease
  <2>1. queue # <<>> /\ queue \in Seq(Request)
    BY <1>3 DEF ServeRelease, Await, Typed, TypeOK, Request
  <2>2. Head(queue) \in Request
    BY <2>1, HeadTailProperties
  <2>3. [to |-> Head(queue).id, tag |-> "Released", from |-> <<>>] \in Response
    BY <2>2 DEF Request, Response, SessionTags
  <2> QED
    BY <1>3, <2>1, <2>3, Serving
       DEF ServeRelease, Await, Dequeued, Respond, AnsweredAtOnce, Sourced
<1>4. CASE OnAcquired
  <2>1. current[1].point \in Nat
    BY <1>4, Serving DEF OnAcquired, Request
  <2>2. <<current[1].point>> \in Seq(Nat) /\ "AcquireSuccess" \in QueryTags \cup SessionTags
        /\ "AcquireSuccess" # "QueryResponse"
    BY <2>1 DEF SessionTags
  <2> QED
    BY <1>4, <2>2, AnswerShape DEF OnAcquired
<1>5. CASE OnAcquireFailure \/ OnTipAcquireFailure \/ OnEraUnavailable \/ OnEraMismatch
           \/ OnEraGenesis
  <2>1. \E tag \in QueryTags \cup SessionTags : \E c : Answer(tag, <<>>, c)
    BY <1>5 DEF OnAcquireFailure, OnTipAcquireFailure, OnEraUnavailable, OnEraMismatch,
                OnEraGenesis, QueryTags, SessionTags
  <2>2. client \notin {"idle", "acquired"} /\ UNCHANGED <<issued, queue>>
    BY <1>5 DEF OnAcquireFailure, OnTipAcquireFailure, OnEraUnavailable, OnEraMismatch,
                OnEraGenesis
  <2> QED
    BY <2>1, <2>2, EmptySeq, AnswerShape
<1>6. CASE OnResult
  BY <1>6, Gathering, AnswerShape DEF OnResult, QueryTags
<1>7. CASE OnTipAcquired \/ OnEraAvailable \/ OnEraGenesisUnreadable \/ OnPartialResult
           \/ ExtendLedger \/ UNCHANGED vars
  BY <1>7 DEF OnTipAcquired, OnEraAvailable, OnEraGenesisUnreadable, OnPartialResult,
              ExtendLedger, vars, Silent
<1> QED
  BY <1>1, <1>2, <1>3, <1>4, <1>5, <1>6, <1>7 DEF Next, Client

-----------------------------------------------------------------------------
(* Requests are answered in the order of their ids.                         *)
LEMMA OrderStep ==
  ASSUME Typed, Ordered, Shape
  PROVE  Ordered'
<1> USE DEF Ordered
<1>1. /\ queue \in Seq(Request) /\ current \in Seq(Request) /\ responses \in Seq(Response)
      /\ issued \in Nat
  BY DEF Typed, TypeOK, Request
<1>2. CASE Received
  BY <1>1, <1>2, OrderedByPush DEF Received
<1>3. CASE Begun
  BY <1>1, <1>3, OrderedByServe DEF Begun
<1>4. CASE AnsweredAtOnce
  BY <1>1, <1>4, OrderedByRefusal DEF AnsweredAtOnce
<1>5. CASE Answered
  <2>1. Len(current) = 1
    BY <1>1, <1>5, EmptySeq DEF Answered, Typed, TypeOK
  <2> QED
    BY <1>1, <1>5, <2>1, OrderedByAnswer DEF Answered
<1>6. CASE Silent
  BY <1>6 DEF Silent
<1> QED
  BY <1>2, <1>3, <1>4, <1>5, <1>6 DEF Shape

-----------------------------------------------------------------------------
(* The types of the requests and responses follow from the shape of a step, *)
(* those of client, results and ledger from its action.                     *)
LEMMA ShapeTypes ==
  ASSUME Typed, Shape
  PROVE  /\ issued' \in Nat
         /\ queue' \in Seq(Request)
         /\ current' \in Seq(Request)
         /\ responses' \in Seq(Response)
<1> /\ queue \in Seq(Request) /\ current \in Seq(Request) /\ responses \in Seq(Response)
    /\ issued \in Nat
  BY DEF Typed, TypeOK, Request
<1>1. CASE Received
  BY <1>1, AppendProperties DEF Received
<1>2. CASE Begun
  <2>1. Head(queue) \in Request /\ queue' \in Seq(Request)
    BY <1>2, HeadTailProperties DEF Begun
  <2> QED
    BY <1>2, <2>1 DEF Begun
<1>3. CASE AnsweredAtOnce
  BY <1>3, HeadTailProperties, AppendProperties DEF AnsweredAtOnce
<1>4. CASE Answered
  BY <1>4, AppendProperties, EmptySeq DEF Answered
<1>5. CASE Silent
  BY <1>5 DEF Silent
<1> QED
  BY <1>1, <1>2, <1>3, <1>4, <1>5 DEF Shape

LEMMA TypeStep ==
  ASSUME Typed, SessionsAgree, [Next]_vars
  PROVE  Typed'
<1> USE StateQueryAssumption
<1>0. /\ issued' \in Nat /\ queue' \in Seq(Request)
      /\ current' \in Seq(Request) /\ responses' \in Seq(Response)
  BY StepShape, ShapeTypes
<1> DEFINE
  Rest(c, cur, o, col, t, h) ==
    /\ c \in {"idle", "acquiring", "acquiringTip", "era", "querying", "acquired", "raised"}
    /\ Len(cur) = IF c \in {"idle", "acquired"} THEN 0 ELSE 1
    /\ o \in BOOLEAN
    /\ col \in Seq(Nat)
    /\ t \in 1 .. MaxState
    /\ h \in 0 .. t
<1>a. Rest(client, current, oneOff, collected, lastState, held) /\ MaxState \in Nat
  BY DEF Typed, TypeOK
<1>b. <<>> \in Seq(Nat) /\ Len(<<>>) = 0
  BY EmptySeq
<1>r. SUFFICES Rest(client', current', oneOff', collected', lastState', held')
  BY <1>0 DEF Typed, TypeOK, Request
<1>1. CASE Push \/ UNCHANGED vars
  BY <1>1, <1>a DEF Push, vars
<1>2. CASE ExtendLedger
  BY <1>2, <1>a DEF ExtendLedger
<1>3. CASE ServeAcquire \/ ServeQuery
  <2>1. Len(current') = 1
    BY <1>3 DEF ServeAcquire, ServeQuery
  <2> QED
    BY <1>3, <1>a, <2>1 DEF ServeAcquire, ServeQuery, Await, ForQuery
<1>4. CASE ServeRelease
  BY <1>4, <1>a DEF ServeRelease, Await, HeldAt, NoState
<1>5. CASE OnAcquired
  <2>1. current[1].point \in 0 .. lastState
    BY <1>5, <1>a, Serving DEF OnAcquired, Acquirable, Request
  <2> QED
    BY <1>5, <1>a, <1>b, <2>1 DEF OnAcquired, Answer, Served
<1>6. CASE OnAcquireFailure \/ OnTipAcquireFailure
  <2>1. /\ client' = "idle" /\ current' = <<>> /\ collected' = <<>>
        /\ oneOff' = oneOff /\ lastState' = lastState /\ held' \in {0, held}
    BY <1>6 DEF OnAcquireFailure, OnTipAcquireFailure, Answer, Served, AfterFailure, NoState
  <2> QED
    BY <1>a, <1>b, <2>1
<1>7. CASE OnTipAcquired \/ OnEraAvailable \/ OnEraGenesisUnreadable
  BY <1>7, <1>a DEF OnTipAcquired, OnEraAvailable, OnEraGenesisUnreadable
<1>8. CASE OnEraUnavailable \/ OnEraGenesis \/ OnResult \/ OnEraMismatch
  <2>1. /\ client' \in {"idle", "acquired"} /\ current' = <<>> /\ collected' = <<>>
        /\ oneOff' = oneOff /\ lastState' = lastState /\ held' \in {0, held}
    BY <1>8 DEF OnEraUnavailable, OnEraGenesis, OnResult, OnEraMismatch, Answer, Served,
                AfterQuery, AfterGenesis, HeldAt, NoState
  <2> QED
    BY <1>a, <1>b, <2>1
<1>9. CASE OnPartialResult
  BY <1>9, <1>a, Gathering DEF OnPartialResult
<1> QED
  BY <1>1, <1>2, <1>3, <1>4, <1>5, <1>6, <1>7, <1>8, <1>9 DEF Next, Client

-----------------------------------------------------------------------------
(* Client and node agree on what is acquired.                               *)
LEMMA SessionStep ==
  ASSUME Typed, SessionsAgree, [Next]_vars
  PROVE  SessionsAgree'
<1> USE DEF SessionsAgree, NoState
<1>0. lastState \in 1 .. MaxState /\ MaxState \in Nat
  BY StateQueryAssumption DEF Typed, TypeOK
<1>1. CASE Push \/ ExtendLedger \/ UNCHANGED vars
  BY <1>1 DEF Push, ExtendLedger, vars
<1>2. CASE ServeAcquire \/ ServeQuery \/ ServeRelease
  BY <1>2 DEF ServeAcquire, ServeQuery, ServeRelease, Await, ForQuery, HeldAt
<1>3. CASE OnAcquired \/ OnAcquireFailure \/ OnTipAcquired \/ OnTipAcquireFailure
  BY <1>3, <1>0 DEF OnAcquired, OnAcquireFailure, OnTipAcquired, OnTipAcquireFailure,
                    Answer, Acquirable, AfterFailure
<1>4. CASE OnEraUnavailable \/ OnEraGenesis \/ OnResult \/ OnEraMismatch
  BY <1>4 DEF OnEraUnavailable, OnEraGenesis, OnResult, OnEraMismatch, Answer,
              AfterQuery, AfterGenesis, HeldAt
<1>5. CASE OnEraAvailable \/ OnEraGenesisUnreadable \/ OnPartialResult
  BY <1>5 DEF OnEraAvailable, OnEraGenesisUnreadable, OnPartialResult
<1> QED
  BY <1>1, <1>2, <1>3, <1>4, <1>5 DEF Next, Client

-----------------------------------------------------------------------------
(* Results are only collected while a query is made, and all from the state *)
(* that is held.                                                            *)
Collecting ==
  /\ client # "querying" => collected = <<>>
  /\ OneLedgerState

LEMMA CollectStep ==
  ASSUME Typed, Collecting, [Next]_vars
  PROVE  Collecting'
<1> USE DEF Collecting, OneLedgerState
<1>1. CASE Push \/ ExtendLedger \/ UNCHANGED vars
  BY <1>1 DEF Push, ExtendLedger, vars, EraOf
<1>2. CASE ServeAcquire \/ ServeQuery \/ ServeRelease
  BY <1>2 DEF ServeAcquire, ServeQuery, ServeRelease, Await, ForQuery
<1>3. CASE OnAcquired \/ OnAcquireFailure \/ OnTipAcquireFailure
  BY <1>3 DEF OnAcquired, OnAcquireFailure, OnTipAcquireFailure, Answer, AfterFailure
<1>4. CASE OnEraUnavailable \/ OnEraGenesis \/ OnResult \/ OnEraMismatch
  BY <1>4 DEF OnEraUnavailable, OnEraGenesis, OnResult, OnEraMismatch, Answer,
              AfterQuery, AfterGenesis
<1>5. CASE OnEraAvailable
  BY <1>5 DEF OnEraAvailable, Available
<1>6. CASE OnTipAcquired \/ OnEraGenesisUnreadable
  BY <1>6 DEF OnTipAcquired, OnEraGenesisUnreadable
<1>7. CASE OnPartialResult
  <2>1. collected \in Seq(Nat) /\ held \in Nat
    BY DEF Typed, TypeOK
  <2>2. \A i \in DOMAIN collected' : collected'[i] = held
    <3>1. collected' = Append(collected, held) /\ \A i \in DOMAIN collected : collected[i] = held
      BY <1>7 DEF OnPartialResult, Gathered
    <3> QED
      BY <2>1, <3>1, Appended
  <2> QED
    BY <1>7, <2>2 DEF OnPartialResult, EraOf
<1> QED
  BY <1>1, <1>2, <1>3, <1>4, <1>5, <1>6, <1>7 DEF Next, Client

-----------------------------------------------------------------------------
(* The state acquired last, as long as nothing ended that, is the one held, *)
(* and a query that is being made is not one-off.                           *)
EndsSession(r) ==
  \/ r.tag \in SessionTags \cup {"QueryInvalidGenesisConfiguration"}
  \/ r.tag = "QueryResponse" /\ r.from = <<>>

InForceNow(j) ==
  /\ responses[j].tag = "AcquireSuccess"
  /\ \A k \in j + 1 .. Len(responses) : ~EndsSession(responses[k])

InForceIsHeld ==
  \A j \in DOMAIN responses : InForceNow(j) =>
    /\ responses[j].from[1] = held
    /\ client \notin {"idle", "acquiringTip"}
    /\ client \in {"era", "querying"} => ~oneOff

(* QueriesFromAcquired, with its operators expanded.                        *)
FromTheAcquired ==
  \A i, j \in DOMAIN responses :
    /\ responses[i].tag = "QueryResponse"
    /\ j < i
    /\ responses[j].tag = "AcquireSuccess"
    /\ \A k \in j + 1 .. i - 1 : ~EndsSession(responses[k])
    => \A n \in DOMAIN responses[i].from : responses[i].from[n] = responses[j].from[1]

LEMMA FromTheAcquiredMeans == FromTheAcquired <=> QueriesFromAcquired
BY DEF FromTheAcquired, QueriesFromAcquired, FromAcquired, InForce, EndsSession

(* Only the new response can end what was in force.                         *)
LEMMA InForceBefore ==
  ASSUME Typed, NEW r \in Response, responses' = Append(responses, r),
         NEW j \in DOMAIN responses', InForceNow(j)'
  PROVE  \/ j = Len(responses) + 1 /\ responses'[j] = r /\ r.tag = "AcquireSuccess"
         \/ /\ j \in DOMAIN responses /\ InForceNow(j)
            /\ responses'[j] = responses[j] /\ ~EndsSession(r)
<1>1. /\ Len(responses) \in Nat /\ Len(responses') = Len(responses) + 1
      /\ DOMAIN responses = 1 .. Len(responses)
      /\ DOMAIN responses' = 1 .. Len(responses) + 1
      /\ \A i \in DOMAIN responses : responses'[i] = responses[i]
      /\ responses'[Len(responses) + 1] = r
  BY Appended DEF Typed, TypeOK
<1>2. CASE j = Len(responses) + 1
  BY <1>1, <1>2 DEF InForceNow
<1>3. CASE j \in DOMAIN responses
  <2>1. \A k \in j + 1 .. Len(responses) : responses'[k] = responses[k]
    BY <1>1, <1>3
  <2>2. Len(responses) + 1 \in j + 1 .. Len(responses')
    BY <1>1, <1>3
  <2> QED
    BY <1>1, <1>3, <2>1, <2>2 DEF InForceNow
<1> QED
  BY <1>1, <1>2, <1>3

LEMMA ForceStep ==
  ASSUME Typed, InForceIsHeld, [Next]_vars
  PROVE  InForceIsHeld'
<1> SUFFICES ASSUME NEW j \in DOMAIN responses', InForceNow(j)'
             PROVE  /\ responses'[j].from[1] = held'
                    /\ client' \notin {"idle", "acquiringTip"}
                    /\ client' \in {"era", "querying"} => ~oneOff'
  BY DEF InForceIsHeld
<1>a. ASSUME responses' = responses
      PROVE  /\ responses'[j].from[1] = held
             /\ client \notin {"idle", "acquiringTip"}
             /\ client \in {"era", "querying"} => ~oneOff
  BY <1>a DEF InForceIsHeld, InForceNow
<1>b. ASSUME NEW tag \in QueryTags \cup SessionTags, NEW from \in Seq(Nat), NEW request \in Request,
             Respond(request, tag, from)
      PROVE  \/ tag = "AcquireSuccess" /\ responses'[j].from = from
             \/ /\ tag \notin SessionTags \cup {"QueryInvalidGenesisConfiguration"}
                /\ ~(tag = "QueryResponse" /\ from = <<>>)
                /\ responses'[j].from[1] = held
                /\ client \notin {"idle", "acquiringTip"}
                /\ client \in {"era", "querying"} => ~oneOff
  <2> DEFINE r == [to |-> request.id, tag |-> tag, from |-> from]
  <2>1. r \in Response /\ responses' = Append(responses, r)
    BY <1>b DEF Response, Request, Respond
  <2>2. r.tag = tag /\ r.from = from
    OBVIOUS
  <2> HIDE DEF r
  <2> QED
    BY <2>1, <2>2, InForceBefore DEF InForceIsHeld, EndsSession
<1>c. /\ client \notin {"idle", "acquired"} => current[1] \in Request
      /\ <<>> \in Seq(Nat)
  BY Serving, EmptySeq
<1>1. CASE Push \/ ExtendLedger \/ UNCHANGED vars
  BY <1>1, <1>a DEF Push, ExtendLedger, vars
<1>6. CASE ServeAcquire \/ ServeQuery
  BY <1>6, <1>a DEF ServeAcquire, ServeQuery, Await, ForQuery
<1>7. CASE OnTipAcquired \/ OnEraAvailable \/ OnEraGenesisUnreadable \/ OnPartialResult
  BY <1>7, <1>a DEF OnTipAcquired, OnEraAvailable, OnEraGenesisUnreadable, OnPartialResult
<1>2. CASE ServeRelease
  <2>1. queue # <<>> /\ queue \in Seq(Request) /\ Respond(Head(queue), "Released", <<>>)
    BY <1>2 DEF ServeRelease, Await, Typed, TypeOK, Request
  <2>2. Head(queue) \in Request
    BY <2>1, HeadTailProperties
  <2> QED
    BY <1>b, <1>c, <2>1, <2>2 DEF SessionTags
<1>3. CASE OnAcquired
  <2>1. current[1] \in Request /\ <<current[1].point>> \in Seq(Nat)
    BY <1>3, <1>c DEF OnAcquired, Request
  <2>2. /\ Respond(current[1], "AcquireSuccess", <<current[1].point>>)
        /\ held' = current[1].point /\ client' = "acquired"
    BY <1>3 DEF OnAcquired, Answer
  <2>3. responses'[j].from = <<current[1].point>>
    BY <1>b, <2>1, <2>2 DEF SessionTags
  <2> QED
    BY <2>2, <2>3
<1>4. CASE OnAcquireFailure \/ OnTipAcquireFailure \/ OnEraGenesis
  BY <1>4, <1>b, <1>c DEF OnAcquireFailure, OnTipAcquireFailure, OnEraGenesis, Answer,
                          SessionTags, QueryTags
<1>5. CASE OnEraUnavailable \/ OnEraMismatch \/ OnResult
  <2>1. \E tag \in QueryTags, from \in Seq(Nat) : Answer(tag, from, AfterQuery)
    BY <1>5, <1>c, Gathering DEF OnEraUnavailable, OnEraMismatch, OnResult, QueryTags
  <2>2. client \in {"era", "querying"} /\ held' = HeldAt(client') /\ oneOff' = oneOff
    BY <1>5 DEF OnEraUnavailable, OnEraMismatch, OnResult
  <2> QED
    BY <1>b, <1>c, <2>1, <2>2 DEF Answer, AfterQuery, HeldAt, QueryTags
<1> QED
  BY <1>1, <1>2, <1>3, <1>4, <1>5, <1>6, <1>7 DEF Next, Client

(* The results of a new response, if it has any, are from the state held.   *)
LEMMA NewResponse ==
  ASSUME Typed, Collecting, [Next]_vars
  PROVE  \/ UNCHANGED responses
         \/ \E r \in Response :
              /\ responses' = Append(responses, r)
              /\ r.tag = "QueryResponse" => \A n \in DOMAIN r.from : r.from[n] = held
<1>1. Shape
  BY StepShape
<1>2. CASE Received \/ Begun \/ Silent
  BY <1>2 DEF Received, Begun, Silent
<1>3. CASE AnsweredAtOnce \/ Answered
  <2>1. PICK r \in Response : responses' = Append(responses, r) /\ Sourced(r)
    BY <1>3 DEF AnsweredAtOnce, Answered
  <2>2. CASE r.tag = "QueryResponse" /\ r.from # <<>>
    <3>1. /\ r.from = Append(collected, held) /\ collected \in Seq(Nat) /\ held \in Nat
          /\ \A n \in DOMAIN collected : collected[n] = held
      BY <2>1, <2>2 DEF Sourced, Gathered, Typed, TypeOK, Collecting, OneLedgerState
    <3>2. \A n \in DOMAIN r.from : r.from[n] = held
      BY <3>1, Appended
    <3> QED
      BY <2>1, <3>2
  <2> QED
    BY <2>1, <2>2
<1> QED
  BY <1>1, <1>2, <1>3 DEF Shape

LEMMA FromStep ==
  ASSUME Typed, Collecting, InForceIsHeld, FromTheAcquired, [Next]_vars
  PROVE  FromTheAcquired'
<1>1. CASE UNCHANGED responses
  BY <1>1 DEF FromTheAcquired
<1>2. ASSUME NEW r \in Response, responses' = Append(responses, r),
             r.tag = "QueryResponse" => \A n \in DOMAIN r.from : r.from[n] = held
      PROVE  FromTheAcquired'
  <2>1. /\ Len(responses) \in Nat
        /\ DOMAIN responses = 1 .. Len(responses)
        /\ DOMAIN responses' = 1 .. Len(responses) + 1
        /\ \A i \in DOMAIN responses : responses'[i] = responses[i]
        /\ responses'[Len(responses) + 1] = r
    BY <1>2, Appended DEF Typed, TypeOK
  <2> SUFFICES ASSUME NEW i \in DOMAIN responses', NEW j \in DOMAIN responses',
                      responses'[i].tag = "QueryResponse", j < i,
                      responses'[j].tag = "AcquireSuccess",
                      \A k \in j + 1 .. i - 1 : ~EndsSession(responses'[k]),
                      NEW n \in DOMAIN responses'[i].from
               PROVE  responses'[i].from[n] = responses'[j].from[1]
    BY DEF FromTheAcquired
  <2>2. j \in DOMAIN responses /\ responses'[j] = responses[j]
    BY <2>1
  <2>3. \A k \in j + 1 .. i - 1 : responses'[k] = responses[k]
    BY <2>1, <2>2
  <2>4. CASE i = Len(responses) + 1
    <3>1. InForceNow(j)
      BY <2>1, <2>2, <2>3, <2>4 DEF InForceNow
    <3> QED
      BY <1>2, <2>1, <2>2, <2>4, <3>1 DEF InForceIsHeld
  <2>5. CASE i \in DOMAIN responses
    BY <2>1, <2>2, <2>3, <2>5 DEF FromTheAcquired
  <2> QED
    BY <2>1, <2>4, <2>5
<1> QED
  BY <1>1, <1>2, NewResponse

-----------------------------------------------------------------------------
(* The inductive invariant.                                                 *)
Inv ==
  /\ Typed
  /\ Ordered
  /\ SessionsAgree
  /\ Collecting
  /\ InForceIsHeld
  /\ FromTheAcquired

LEMMA Invariant == Spec => []Inv
<1>1. ASSUME Init PROVE Inv
  <2> USE <1>1 DEF Init
  <2>1. Typed
    <3>1. lastState \in 1 .. MaxState /\ held \in 0 .. lastState
      BY StateQueryAssumption DEF NoState
    <3>2. oneOff \in BOOLEAN
      OBVIOUS
    <3>3. \A S : <<>> \in Seq(S) /\ Len(<<>>) = 0
      BY EmptySeq
    <3> QED
      BY <3>1, <3>2, <3>3 DEF Typed, TypeOK
  <2>2. Ordered
    BY EmptySeq DEF Ordered, InOrder
  <2> QED
    BY <2>1, <2>2 DEF Inv, SessionsAgree, Collecting, OneLedgerState, InForceIsHeld,
                      FromTheAcquired
<1>2. ASSUME Inv, [Next]_vars PROVE Inv'
  BY <1>2, StepShape, TypeStep, OrderStep, SessionStep, CollectStep, ForceStep, FromStep
     DEF Inv
<1> QED
  BY <1>1, <1>2, PTL DEF Spec

-----------------------------------------------------------------------------
(* The bookkeeping of client, node and program is in step: requests are     *)
(* answered once each and in order, and no query is ever sent to the node   *)
(* without a state acquired, nor one left acquired by an idle client.       *)
THEOREM InStepCorrect == Spec => []InStep
<1>1. Inv => InStep
  BY DEF Inv, Typed, Ordered, InOrder, InStep, AnsweredInOrder
<1> QED
  BY <1>1, Invariant, PTL

(* The results of the queries that a compound query is made of are from one *)
(* ledger state, of an era the query exists in, whatever the tip does.      *)
THEOREM OneLedgerStateCorrect == Spec => []OneLedgerState
<1>1. Inv => OneLedgerState
  BY DEF Inv, Collecting
<1> QED
  BY <1>1, Invariant, PTL

(* Until it is released, another is sought, or a genesis configuration is   *)
(* queried, the state acquired last is the one all queries are answered     *)
(* from.                                                                    *)
THEOREM AcquiredStateServes == Spec => []QueriesFromAcquired
<1>1. Inv => QueriesFromAcquired
  BY FromTheAcquiredMeans DEF Inv
<1> QED
  BY <1>1, Invariant, PTL
=============================================================================
