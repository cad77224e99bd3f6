--------------------------- MODULE ChainSyncProofs ---------------------------
(***************************************************************************)
(* Theorems about ChainSync, for every pipeline size and number of         *)
(* requests.                                                               *)
(***************************************************************************)
EXTENDS ChainSync, SequenceTheorems, TLAPS

(* What bounds the pipeline before a message is sent.                       *)
Limit == IF MaxInFlight = 0 THEN 1 ELSE MaxInFlight

(* PipelineBounded made inductive: only the client that can but collect has *)
(* one more request in flight than the limit.                               *)
PipelineLimited ==
  /\ inFlight <= Limit + 1
  /\ pc # "collect" => inFlight <= Limit

PipelineInv ==
  /\ TypeOK
  /\ PipelineAccounted
  /\ IntersectAlone
  /\ NeverErrors
  /\ PipelineLimited

-----------------------------------------------------------------------------
(* Facts about the first and the last element of a sequence.                *)

LEMMA PopFront ==
  ASSUME NEW S, NEW s \in Seq(S), s # <<>>
  PROVE  /\ Head(s) \in S
         /\ Head(s) = s[1]
         /\ 1 \in DOMAIN s
         /\ Tail(s) \in Seq(S)
         /\ Len(Tail(s)) = Len(s) - 1
         /\ Len(s) > 0
         /\ \A i \in DOMAIN Tail(s) : i + 1 \in DOMAIN s /\ Tail(s)[i] = s[i + 1]
OBVIOUS

LEMMA PushBack ==
  ASSUME NEW S, NEW s \in Seq(S), NEW e \in S, NEW t, t = Append(s, e)
  PROVE  /\ t \in Seq(S)
         /\ Len(t) = Len(s) + 1
         /\ \A i \in DOMAIN t : t[i] = e \/ (i \in DOMAIN s /\ t[i] = s[i])
OBVIOUS

(* An answer to a request is a response.                                    *)
LEMMA ReplyType ==
  ASSUME NEW r \in Request, NEW a, a.tag \in Rolls \cup Verdicts \cup {"IntersectionInterleaved"},
         a.serial \in Nat
  PROVE  Reply(r, a) \in Response
BY DEF Reply, Response

-----------------------------------------------------------------------------
(* The type invariant is inductive.                                         *)

LEMMA TypeStep == PipelineInv /\ [Next]_vars => TypeOK'
<1> SUFFICES ASSUME PipelineInv, [Next]_vars PROVE TypeOK'
  OBVIOUS
<1> TypeOK
  BY DEF PipelineInv
<1> USE ChainSyncAssumption
        DEF Enqueue, Remember, Owed, StillOwed, MayIntersect, WhenQuiet
<1>1. CASE Push
  <2>1. PICK kind \in Kind : queue' = Append(queue, [id |-> issued + 1, kind |-> kind])
    BY <1>1 DEF Push
  <2>2. [id |-> issued + 1, kind |-> kind] \in Request
    BY DEF Request, TypeOK
  <2>3. queue' \in Seq(Request)
    BY <2>1, <2>2, PushBack DEF TypeOK
  <2> QED
    BY <1>1, <2>3 DEF Push, TypeOK, clientVars, nodeVars
<1>2. CASE PipelineNextBlock
  <2>1. Head(queue) \in Request /\ queue' \in Seq(Request)
    BY <1>2, PopFront DEF PipelineNextBlock, TypeOK
  <2>2. buffer' \in Seq(Request)
    BY <1>2, <2>1, PushBack DEF PipelineNextBlock, TypeOK
  <2>3. toNode' \in Seq({"MsgRequestNext", "MsgFindIntersect"})
    BY <1>2, PushBack DEF PipelineNextBlock, TypeOK
  <2> QED
    BY <1>2, <2>1, <2>2, <2>3
       DEF PipelineNextBlock, AfterPipelining, TypeOK, nodeVars
<1>3. CASE SendFindIntersect
  <2>1. Head(queue) \in Request /\ queue' \in Seq(Request)
    BY <1>3, PopFront DEF SendFindIntersect, TypeOK
  <2>2. intersecting' \in Seq(Request)
    BY <1>3, <2>1 DEF SendFindIntersect
  <2>3. toNode' \in Seq({"MsgRequestNext", "MsgFindIntersect"})
    BY <1>3, PushBack DEF SendFindIntersect, TypeOK
  <2> QED
    BY <1>3, <2>1, <2>2, <2>3 DEF SendFindIntersect, TypeOK, nodeVars
<1>4. CASE RejectInterleaved
  <2>1. Head(queue) \in Request /\ queue' \in Seq(Request)
    BY <1>4, PopFront DEF RejectInterleaved, TypeOK
  <2>2. responses' \in Seq(Response)
    BY <1>4, <2>1, ReplyType, PushBack DEF RejectInterleaved, TypeOK
  <2> QED
    BY <1>4, <2>1, <2>2 DEF RejectInterleaved, TypeOK, nodeVars
<1>5. CASE AwaitAnswer
  BY <1>5 DEF AwaitAnswer, TypeOK, nodeVars
<1>6. CASE KeepPipelining
  BY <1>6 DEF KeepPipelining, TypeOK, nodeVars
<1>7. CASE CollectNext
  <2>1. CASE buffer = <<>>
    BY <1>7, <2>1 DEF CollectNext, TypeOK, nodeVars
  <2>2. CASE buffer # <<>>
    <3>1. Head(buffer) \in Request /\ buffer' \in Seq(Request)
      BY <1>7, <2>2, PopFront DEF CollectNext, TypeOK
    <3>2. Head(fromNode) \in Answer /\ fromNode' \in Seq(Answer)
      BY <1>7, <2>2, PopFront DEF CollectNext, TypeOK
    <3>3. responses' \in Seq(Response)
      <4>1. Reply(Owed(buffer), Head(fromNode)) \in Response
        BY <3>1, <3>2, ReplyType DEF Answer
      <4>2. responses' = Append(responses, Reply(Owed(buffer), Head(fromNode)))
        BY <1>7, <2>2 DEF CollectNext
      <4> QED
        BY <4>1, <4>2, PushBack DEF TypeOK
    <3>4. inFlight' \in Nat
      BY <1>7, <2>2 DEF CollectNext, TypeOK, PipelineInv, PipelineAccounted
    <3> QED
      BY <1>7, <2>2, <3>1, <3>2, <3>3, <3>4 DEF CollectNext, TypeOK, nodeVars
  <2> QED
    BY <2>1, <2>2
<1>8. CASE CollectIntersection
  <2>1. Head(fromNode) \in Answer /\ fromNode' \in Seq(Answer)
    BY <1>8, PopFront DEF CollectIntersection, TypeOK
  <2>2. Head(intersecting) \in Request
    BY <1>8, PopFront DEF CollectIntersection, TypeOK, PipelineInv, IntersectAlone
  <2>3. responses' \in Seq(Response)
    <3>1. Reply(Head(intersecting), Head(fromNode)) \in Response
      BY <2>1, <2>2, ReplyType DEF Answer
    <3> QED
      BY <1>8, <3>1, PushBack DEF CollectIntersection, TypeOK
  <2> QED
    BY <1>8, <2>1, <2>3 DEF CollectIntersection, TypeOK, nodeVars
<1>9. CASE ServeNext
  <2>1. toNode' \in Seq({"MsgRequestNext", "MsgFindIntersect"})
    BY <1>9, PopFront DEF ServeNext, TypeOK
  <2>2. fromNode' \in Seq(Answer)
    <3>1. PICK tag \in Rolls :
            fromNode' = Append(fromNode, [tag |-> tag, serial |-> served + 1])
      BY <1>9 DEF ServeNext, Rolls
    <3>2. [tag |-> tag, serial |-> served + 1] \in Answer
      BY DEF Answer, TypeOK
    <3> QED
      BY <3>1, <3>2, PushBack DEF TypeOK
  <2>3. served' = served + 1 /\ rewound' = FALSE
    BY <1>9 DEF ServeNext
  <2>4. served' \in Nat
    BY <2>3 DEF TypeOK
  <2>5. rewound' \in BOOLEAN
    BY <2>3
  <2> QED
    BY <1>9, <2>1, <2>2, <2>4, <2>5 DEF ServeNext, TypeOK, clientVars
<1>10. CASE ServeIntersect
  <2>1. toNode' \in Seq({"MsgRequestNext", "MsgFindIntersect"})
    BY <1>10, PopFront DEF ServeIntersect, TypeOK
  <2>2. PICK tag \in Verdicts :
          /\ fromNode' = Append(fromNode, [tag |-> tag, serial |-> 0])
          /\ rewound' = (rewound \/ tag = "IntersectionFound")
    BY <1>10 DEF ServeIntersect
  <2>3. [tag |-> tag, serial |-> 0] \in Answer
    BY DEF Answer
  <2>4. fromNode' \in Seq(Answer)
    BY <2>2, <2>3, PushBack DEF TypeOK
  <2>5. rewound' \in BOOLEAN
    BY <2>2
  <2> QED
    BY <1>10, <2>1, <2>4, <2>5 DEF ServeIntersect, TypeOK, clientVars
<1>11. CASE UNCHANGED vars
  BY <1>11 DEF vars, TypeOK
<1> QED
  BY <1>1, <1>2, <1>3, <1>4, <1>5, <1>6, <1>7, <1>8, <1>9, <1>10, <1>11
     DEF Next, Client, Node

-----------------------------------------------------------------------------
(* The pipeline: who waits for what.                                        *)

LEMMA PipelineStep ==
  PipelineInv /\ [Next]_vars
    => PipelineAccounted' /\ IntersectAlone' /\ NeverErrors' /\ PipelineLimited'
<1> SUFFICES ASSUME PipelineInv, [Next]_vars
             PROVE  PipelineAccounted' /\ IntersectAlone' /\ NeverErrors' /\ PipelineLimited'
  OBVIOUS
<1> USE ChainSyncAssumption
        DEF Enqueue, Remember, Owed, StillOwed, MayIntersect, WhenQuiet
<1> TypeOK /\ TypeOK'
  BY TypeStep DEF PipelineInv
<1>1. CASE Push
  BY <1>1 DEF Push, PipelineInv, PipelineAccounted, IntersectAlone, NeverErrors,
              PipelineLimited, clientVars, nodeVars
<1>2. CASE PipelineNextBlock
  <2>1. Len(buffer') = Len(buffer) + 1
    BY <1>2, PopFront, PushBack DEF PipelineNextBlock, TypeOK
  <2>2. /\ Len(toNode') = Len(toNode) + 1
        /\ \A i \in DOMAIN toNode' :
             toNode'[i] = "MsgRequestNext" \/ (i \in DOMAIN toNode /\ toNode'[i] = toNode[i])
    <3>1. toNode' = Append(toNode, "MsgRequestNext")
      BY <1>2 DEF PipelineNextBlock
    <3>2. "MsgRequestNext" \in {"MsgRequestNext", "MsgFindIntersect"}
      OBVIOUS
    <3>3. toNode \in Seq({"MsgRequestNext", "MsgFindIntersect"})
      BY DEF TypeOK
    <3> QED
      BY <3>1, <3>2, <3>3, PushBack
  <2>3. pc' = AfterPipelining(inFlight) /\ inFlight' = inFlight + 1 /\ pc = "idle"
        /\ UNCHANGED <<intersecting, fromNode>>
    BY <1>2 DEF PipelineNextBlock
  <2>4. PipelineAccounted'
    <3>1. /\ Len(buffer) = inFlight /\ Len(toNode) + Len(fromNode) = inFlight
          /\ intersecting = <<>>
          /\ \A i \in DOMAIN toNode : toNode[i] = "MsgRequestNext"
          /\ \A i \in DOMAIN fromNode : fromNode[i].tag \in Rolls
      BY <2>3 DEF PipelineInv, PipelineAccounted
    <3>2. Len(toNode') + Len(fromNode') = inFlight'
      <4>1. fromNode' = fromNode /\ Len(fromNode) \in Nat /\ Len(toNode) \in Nat
        BY <2>3 DEF TypeOK
      <4> QED
        BY <4>1, <3>1, <2>2, <2>3
    <3>4. inFlight' > 0 /\ pc' # "intersect"
      BY <2>3 DEF TypeOK, AfterPipelining
    <3>3. \A i \in DOMAIN toNode' : toNode'[i] = "MsgRequestNext"
      BY <3>1, <2>2
    <3> QED
      BY <3>1, <3>2, <3>3, <3>4, <2>1, <2>3 DEF PipelineAccounted
  <2>5. IntersectAlone' /\ NeverErrors'
    BY <2>3 DEF IntersectAlone, NeverErrors, AfterPipelining
  <2>6. PipelineLimited'
    BY <2>3 DEF PipelineInv, PipelineLimited, Limit, AfterPipelining, TypeOK
  <2> QED
    BY <2>4, <2>5, <2>6
<1>3. CASE SendFindIntersect
  <2>1. /\ pc = "idle" /\ inFlight = 0 /\ pc' = "intersect"
        /\ intersecting' = <<Head(queue)>>
        /\ toNode' = Append(toNode, "MsgFindIntersect")
        /\ UNCHANGED <<inFlight, buffer, fromNode>>
    BY <1>3 DEF SendFindIntersect
  <2>2. toNode = <<>> /\ fromNode = <<>> /\ buffer = <<>>
    BY <2>1 DEF PipelineInv, PipelineAccounted, TypeOK
  <2>3. Len(intersecting') = 1 /\ Len(toNode') + Len(fromNode') = 1
    BY <2>1, <2>2
  <2>4. \A i \in DOMAIN toNode' : toNode'[i] = "MsgFindIntersect"
    BY <2>1, <2>2
  <2>5. \A i \in DOMAIN fromNode' : fromNode'[i].tag \in Verdicts
    BY <2>1, <2>2
  <2> QED
    BY <2>1, <2>2, <2>3, <2>4, <2>5
       DEF PipelineInv, PipelineAccounted, IntersectAlone, NeverErrors, PipelineLimited
<1>4. CASE RejectInterleaved
  BY <1>4 DEF RejectInterleaved, PipelineInv, PipelineAccounted, IntersectAlone,
              NeverErrors, PipelineLimited
<1>5. CASE AwaitAnswer
  BY <1>5 DEF AwaitAnswer, PipelineInv, PipelineAccounted, IntersectAlone,
              NeverErrors, PipelineLimited, TypeOK
<1>6. CASE KeepPipelining
  BY <1>6 DEF KeepPipelining, PipelineInv, PipelineAccounted, IntersectAlone,
              NeverErrors, PipelineLimited, TypeOK
<1>7. CASE CollectNext
  <2>1. pc \in {"collect", "tryCollect"} /\ fromNode # <<>> /\ UNCHANGED <<intersecting, toNode>>
    BY <1>7 DEF CollectNext
  <2>2. inFlight > 0 /\ buffer # <<>>
    BY <2>1 DEF PipelineInv, PipelineAccounted, TypeOK
  <2>3. /\ buffer' = Tail(buffer) /\ fromNode' = Tail(fromNode)
        /\ inFlight' = inFlight - 1 /\ pc' = "idle"
    BY <1>7, <2>2 DEF CollectNext
  <2>4. /\ Len(buffer') = Len(buffer) - 1
        /\ Len(fromNode') = Len(fromNode) - 1
        /\ \A i \in DOMAIN fromNode' : i + 1 \in DOMAIN fromNode /\ fromNode'[i] = fromNode[i + 1]
    BY <2>1, <2>2, <2>3, PopFront DEF TypeOK
  <2>5. PipelineAccounted'
    <3>1. /\ Len(buffer) = inFlight /\ Len(toNode) + Len(fromNode) = inFlight
          /\ intersecting = <<>>
          /\ \A i \in DOMAIN toNode : toNode[i] = "MsgRequestNext"
          /\ \A i \in DOMAIN fromNode : fromNode[i].tag \in Rolls
      BY <2>1 DEF PipelineInv, PipelineAccounted
    <3>2. /\ Len(buffer') = inFlight'
          /\ Len(toNode') + Len(fromNode') = inFlight'
      BY <3>1, <2>1, <2>3, <2>4 DEF TypeOK
    <3>3. \A i \in DOMAIN fromNode' : fromNode'[i].tag \in Rolls
      BY <3>1, <2>4
    <3> QED
      BY <3>1, <3>2, <3>3, <2>1, <2>3 DEF PipelineAccounted
  <2>6. IntersectAlone' /\ NeverErrors'
    BY <2>3 DEF IntersectAlone, NeverErrors
  <2>7. PipelineLimited'
    BY <2>2, <2>3 DEF PipelineInv, PipelineLimited, Limit, TypeOK
  <2> QED
    BY <2>5, <2>6, <2>7
<1>8. CASE CollectIntersection
  <2>1. /\ pc = "intersect" /\ pc' = "idle" /\ inFlight' = 0 /\ buffer' = <<>>
        /\ intersecting' = <<>> /\ toNode' = toNode /\ fromNode # <<>>
        /\ fromNode' = Tail(fromNode)
    BY <1>8 DEF CollectIntersection
  <2>2. Len(fromNode) > 0 /\ Len(toNode) + Len(fromNode) = 1
    BY <2>1, PopFront DEF PipelineInv, IntersectAlone, TypeOK
  <2>3. toNode' = <<>> /\ fromNode' = <<>>
    BY <2>1, <2>2, PopFront DEF TypeOK
  <2> QED
    BY <2>1, <2>3 DEF PipelineAccounted, IntersectAlone, NeverErrors, PipelineLimited, Limit
<1>9. CASE ServeNext
  <2>1. PICK tag \in Rolls :
          fromNode' = Append(fromNode, [tag |-> tag, serial |-> served + 1])
    BY <1>9 DEF ServeNext, Rolls
  <2>2. /\ toNode # <<>> /\ Head(toNode) = "MsgRequestNext" /\ toNode' = Tail(toNode)
        /\ UNCHANGED <<pc, inFlight, buffer, intersecting>>
    BY <1>9 DEF ServeNext, clientVars
  <2>3. /\ Len(toNode') = Len(toNode) - 1 /\ Len(toNode) > 0
        /\ 1 \in DOMAIN toNode /\ toNode[1] = "MsgRequestNext"
        /\ \A i \in DOMAIN toNode' : i + 1 \in DOMAIN toNode /\ toNode'[i] = toNode[i + 1]
    BY <2>2, PopFront DEF TypeOK
  <2>4. PICK answer \in Answer :
          answer.tag \in Rolls /\ fromNode' = Append(fromNode, answer)
    <3>1. [tag |-> tag, serial |-> served + 1] \in Answer
      BY DEF Answer, TypeOK
    <3> QED
      BY <2>1, <3>1
  <2>5. /\ Len(fromNode') = Len(fromNode) + 1
        /\ \A i \in DOMAIN fromNode' :
             fromNode'[i].tag \in Rolls \/ (i \in DOMAIN fromNode /\ fromNode'[i] = fromNode[i])
    <3>1. fromNode \in Seq(Answer)
      BY DEF TypeOK
    <3> QED
      BY <2>4, <3>1, PushBack
  <2>6. pc # "intersect"
    BY <2>3 DEF PipelineInv, IntersectAlone
  <2>7. PipelineAccounted'
    <3>1. /\ Len(buffer) = inFlight /\ Len(toNode) + Len(fromNode) = inFlight
          /\ intersecting = <<>> /\ (pc \in {"collect", "tryCollect"} => inFlight > 0)
          /\ \A i \in DOMAIN toNode : toNode[i] = "MsgRequestNext"
          /\ \A i \in DOMAIN fromNode : fromNode[i].tag \in Rolls
      BY <2>6 DEF PipelineInv, PipelineAccounted
    <3>2. Len(toNode') + Len(fromNode') = inFlight
      <4>1. Len(toNode) \in Nat /\ Len(fromNode) \in Nat
        BY DEF TypeOK
      <4>2. Len(toNode') = Len(toNode) - 1 /\ Len(fromNode') = Len(fromNode) + 1
        BY <2>3, <2>5
      <4> QED
        BY <3>1, <4>1, <4>2
    <3>3. \A i \in DOMAIN toNode' : toNode'[i] = "MsgRequestNext"
      BY <3>1, <2>3
    <3>4. \A i \in DOMAIN fromNode' : fromNode'[i].tag \in Rolls
      BY <3>1, <2>5
    <3> QED
      BY <3>1, <3>2, <3>3, <3>4, <2>2 DEF PipelineAccounted
  <2> QED
    BY <2>2, <2>6, <2>7 DEF PipelineInv, IntersectAlone, NeverErrors, PipelineLimited
<1>10. CASE ServeIntersect
  <2>1. PICK tag \in Verdicts :
          fromNode' = Append(fromNode, [tag |-> tag, serial |-> 0])
    BY <1>10 DEF ServeIntersect
  <2>2. /\ toNode # <<>> /\ Head(toNode) = "MsgFindIntersect" /\ toNode' = Tail(toNode)
        /\ UNCHANGED <<pc, inFlight, buffer, intersecting>>
    BY <1>10 DEF ServeIntersect, clientVars
  <2>3. /\ Len(toNode') = Len(toNode) - 1 /\ Len(toNode) > 0
        /\ 1 \in DOMAIN toNode /\ toNode[1] = "MsgFindIntersect"
        /\ \A i \in DOMAIN toNode' : i + 1 \in DOMAIN toNode /\ toNode'[i] = toNode[i + 1]
    BY <2>2, PopFront DEF TypeOK
  <2>4. PICK answer \in Answer :
          answer.tag \in Verdicts /\ fromNode' = Append(fromNode, answer)
    BY <2>1 DEF Answer
  <2>5. /\ Len(fromNode') = Len(fromNode) + 1
        /\ \A i \in DOMAIN fromNode' :
             fromNode'[i].tag \in Verdicts \/ (i \in DOMAIN fromNode /\ fromNode'[i] = fromNode[i])
    <3>1. fromNode \in Seq(Answer)
      BY DEF TypeOK
    <3> QED
      BY <2>4, <3>1, PushBack
  <2>6. pc = "intersect"
    BY <2>3 DEF PipelineInv, PipelineAccounted
  <2>7. IntersectAlone'
    BY <2>2, <2>3, <2>5, <2>6 DEF PipelineInv, IntersectAlone, TypeOK
  <2> QED
    BY <2>2, <2>6, <2>7 DEF PipelineInv, PipelineAccounted, NeverErrors, PipelineLimited
<1>11. CASE UNCHANGED vars
  BY <1>11 DEF vars, PipelineInv, PipelineAccounted, IntersectAlone, NeverErrors,
               PipelineLimited
<1> QED
  BY <1>1, <1>2, <1>3, <1>4, <1>5, <1>6, <1>7, <1>8, <1>9, <1>10, <1>11
     DEF Next, Client, Node

LEMMA PipelineInit == Init => PipelineInv
<1> SUFFICES ASSUME Init PROVE PipelineInv
  OBVIOUS
<1> USE ChainSyncAssumption DEF Init
<1>1. TypeOK
  <2>1. rewound \in BOOLEAN
    OBVIOUS
  <2> QED
    BY <2>1 DEF TypeOK
<1>2. PipelineAccounted /\ IntersectAlone /\ NeverErrors
  BY DEF PipelineAccounted, IntersectAlone, NeverErrors
<1>3. PipelineLimited
  BY DEF PipelineLimited, Limit
<1> QED
  BY <1>1, <1>2, <1>3 DEF PipelineInv

LEMMA PipelineInvariant == Spec => []PipelineInv
<1>1. PipelineInv /\ [Next]_vars => PipelineInv'
  BY TypeStep, PipelineStep DEF PipelineInv
<1> QED
  BY <1>1, PipelineInit, PTL DEF Spec

-----------------------------------------------------------------------------
(* The state of the mini-protocol stays well-typed.                         *)
THEOREM TypeCorrect == Spec => []TypeOK
<1>1. PipelineInv => TypeOK
  BY DEF PipelineInv
<1> QED
  BY <1>1, PipelineInvariant, PTL

(* The requests in flight are those the node owes an answer to, and each    *)
(* of them has a response waiting to be built in the buffer: the client     *)
(* never collects an answer nobody asked for.                               *)
THEOREM PipelineCorrect ==
  Spec => [](PipelineAccounted /\ IntersectAlone /\ NeverErrors)
<1>1. PipelineInv => PipelineAccounted /\ IntersectAlone /\ NeverErrors
  BY DEF PipelineInv
<1> QED
  BY <1>1, PipelineInvariant, PTL

(* Whatever --max-in-flight is, the pipeline exceeds it by one at most.     *)
THEOREM PipelineIsBounded == Spec => []PipelineBounded
<1>1. PipelineInv => PipelineBounded
  BY ChainSyncAssumption DEF PipelineInv, PipelineLimited, PipelineBounded, Limit, TypeOK
<1> QED
  BY <1>1, PipelineInvariant, PTL

-----------------------------------------------------------------------------
(* Facts about the requests that have no response: those of the buffer,     *)
(* then those of the queue.                                                 *)

LEMMA AppendToConcat ==
  ASSUME NEW S, NEW a \in Seq(S), NEW b \in Seq(S), NEW e \in S,
         NEW c, c = Append(b, e)
  PROVE  Append(a \o b, e) = a \o c
<1>1. a \o b \in Seq(S) /\ c = b \o <<e>> /\ <<e>> \in Seq(S)
  BY ConcatProperties, AppendIsConcat
<1>2. Append(a \o b, e) = (a \o b) \o <<e>>
  BY <1>1, AppendIsConcat
<1>3. (a \o b) \o <<e>> = a \o (b \o <<e>>)
  <2>1. PICK d : d = <<e>>
    OBVIOUS
  <2>2. d \in Seq(S)
    BY <1>1, <2>1
  <2>3. (a \o b) \o d = a \o (b \o d)
    BY <2>2, ConcatAssociative
  <2> QED
    BY <2>1, <2>3
<1> QED
  BY <1>1, <1>2, <1>3

(* The front of a concatenation is the front of its first part.             *)
LEMMA FrontOfConcat ==
  ASSUME NEW S, NEW a \in Seq(S), NEW b \in Seq(S), a # <<>>
  PROVE  /\ a \o b # <<>>
         /\ Head(a \o b) = Head(a)
         /\ Tail(a \o b) = Tail(a) \o b
<1> DEFINE s == a \o b
           t == Tail(a) \o b
<1>1. /\ s \in Seq(S) /\ Len(s) = Len(a) + Len(b)
      /\ \A i \in 1 .. Len(a) + Len(b) : s[i] = IF i <= Len(a) THEN a[i] ELSE b[i - Len(a)]
  BY ConcatProperties
<1>2. /\ Tail(a) \in Seq(S) /\ Len(Tail(a)) = Len(a) - 1
      /\ \A i \in 1 .. Len(a) - 1 : Tail(a)[i] = a[i + 1]
  BY HeadTailProperties
<1>3. /\ t \in Seq(S) /\ Len(t) = Len(Tail(a)) + Len(b)
      /\ \A i \in 1 .. Len(Tail(a)) + Len(b) :
           t[i] = IF i <= Len(Tail(a)) THEN Tail(a)[i] ELSE b[i - Len(Tail(a))]
  BY <1>2, ConcatProperties
<1>4. Len(a) \in Nat /\ Len(a) > 0 /\ Len(b) \in Nat
  BY LenProperties, EmptySeq
<1> HIDE DEF s, t
<1>5. s # <<>>
  BY <1>1, <1>4, EmptySeq
<1>6. Head(s) = Head(a)
  <2>1. Head(s) = s[1] /\ Head(a) = a[1]
    BY <1>1, <1>5, PopFront
  <2> QED
    BY <1>1, <1>4, <2>1
<1>7. Tail(s) = t
  <2>1. /\ Tail(s) \in Seq(S) /\ Len(Tail(s)) = Len(s) - 1
        /\ \A i \in 1 .. Len(s) - 1 : Tail(s)[i] = s[i + 1]
    BY <1>1, <1>5, HeadTailProperties
  <2>2. Len(Tail(s)) = Len(t) /\ Len(t) = Len(a) + Len(b) - 1
    BY <1>1, <1>2, <1>3, <1>4, <2>1
  <2>3. ASSUME NEW i \in 1 .. Len(Tail(s)) PROVE Tail(s)[i] = t[i]
    <3>1. i \in 1 .. Len(a) + Len(b) - 1 /\ Tail(s)[i] = s[i + 1]
      BY <1>1, <1>4, <2>1
    <3>2. CASE i <= Len(a) - 1
      <4>1. s[i + 1] = a[i + 1]
        BY <1>1, <1>4, <3>1, <3>2
      <4>2. t[i] = a[i + 1]
        BY <1>2, <1>3, <1>4, <3>1, <3>2
      <4> QED
        BY <3>1, <4>1, <4>2
    <3>3. CASE ~(i <= Len(a) - 1)
      <4>1. s[i + 1] = b[i + 1 - Len(a)]
        BY <1>1, <1>4, <3>1, <3>3
      <4>2. t[i] = b[i - (Len(a) - 1)]
        BY <1>2, <1>3, <1>4, <3>1, <3>3
      <4>3. i + 1 - Len(a) = i - (Len(a) - 1)
        BY <1>4, <3>1
      <4> QED
        BY <3>1, <4>1, <4>2, <4>3
    <3> QED
      BY <3>2, <3>3
  <2> QED
    BY <1>3, <2>1, <2>2, <2>3, SeqEqual
<1> QED
  BY <1>5, <1>6, <1>7 DEF s, t

(* A request moves from the front of the queue to the end of the buffer.    *)
LEMMA MoveFront ==
  ASSUME NEW S, NEW a \in Seq(S), NEW b \in Seq(S), b # <<>>
  PROVE  Append(a, Head(b)) \o Tail(b) = a \o b
<1>1. Head(b) \in S /\ Tail(b) \in Seq(S) /\ <<Head(b)>> \in Seq(S)
  BY HeadTailProperties
<1>2. <<Head(b)>> \o Tail(b) = b
  <2> DEFINE t == <<Head(b)>> \o Tail(b)
  <2>1. /\ t \in Seq(S) /\ Len(t) = 1 + Len(Tail(b))
        /\ \A i \in 1 .. 1 + Len(Tail(b)) :
             t[i] = IF i <= 1 THEN <<Head(b)>>[i] ELSE Tail(b)[i - 1]
    BY <1>1, ConcatProperties
  <2>2. /\ Len(b) \in Nat /\ Len(Tail(b)) = Len(b) - 1 /\ Head(b) = b[1]
        /\ \A i \in 1 .. Len(Tail(b)) : Tail(b)[i] = b[i + 1]
    BY HeadTailProperties, PopFront, LenProperties
  <2> HIDE DEF t
  <2>3. ASSUME NEW i \in 1 .. Len(t) PROVE t[i] = b[i]
    <3>1. CASE i = 1
      BY <2>1, <2>2, <3>1
    <3>2. CASE i # 1
      <4>1. i - 1 \in 1 .. Len(Tail(b)) /\ t[i] = Tail(b)[i - 1]
        BY <2>1, <2>2, <3>2
      <4>2. Tail(b)[i - 1] = b[(i - 1) + 1]
        BY <2>2, <4>1
      <4> QED
        BY <4>1, <4>2
    <3> QED
      BY <3>1, <3>2
  <2> QED
    BY <2>1, <2>2, <2>3, SeqEqual DEF t
<1>3. Append(a, Head(b)) = a \o <<Head(b)>>
  BY <1>1, AppendIsConcat
<1> QED
  BY <1>1, <1>2, <1>3, ConcatAssociative

(* A request leaves the front of the queue, past those of the buffer.       *)
LEMMA JumpTheLine ==
  ASSUME NEW S, NEW a \in Seq(S), NEW b \in Seq(S), b # <<>>,
         NEW i, i = Len(a) + 1, NEW s, s = a \o b,
         NEW before, before = SubSeq(s, 1, i - 1),
         NEW after, after = SubSeq(s, i + 1, Len(s))
  PROVE  /\ i \in DOMAIN s
         /\ s[i] = Head(b)
         /\ \A j \in 1 .. i - 1 : s[j] = a[j]
         /\ before = a /\ after = Tail(b)
<1>1. Len(a) \in Nat /\ Len(b) \in Nat /\ Len(b) > 0
  BY LenProperties, EmptySeq
<1>2. /\ s \in Seq(S) /\ Len(s) = Len(a) + Len(b) /\ DOMAIN s = 1 .. Len(s)
      /\ \A j \in 1 .. Len(a) + Len(b) : s[j] = IF j <= Len(a) THEN a[j] ELSE b[j - Len(a)]
  BY ConcatProperties, LenProperties
<1>3. i \in DOMAIN s /\ \A j \in 1 .. i - 1 : s[j] = a[j]
  BY <1>1, <1>2
<1>4. s[i] = Head(b)
  <2>1. s[i] = b[i - Len(a)] /\ i - Len(a) = 1
    BY <1>1, <1>2
  <2> QED
    BY <2>1, PopFront
<1>5. SubSeq(s, 1, i - 1) = a
  <2>1. \A j \in 1 .. Len(a) : s[j] \in S /\ s[j] = a[j]
    BY <1>1, <1>2, ElementOfSeq
  <2>2. /\ SubSeq(s, 1, Len(a)) \in Seq(S)
        /\ Len(SubSeq(s, 1, Len(a))) = IF 1 <= Len(a) THEN Len(a) - 1 + 1 ELSE 0
        /\ \A j \in 1 .. Len(a) - 1 + 1 : SubSeq(s, 1, Len(a))[j] = s[1 + j - 1]
    BY <1>1, <2>1, SubSeqProperties
  <2>3. Len(SubSeq(s, 1, Len(a))) = Len(a)
    BY <1>1, <2>2
  <2>4. \A j \in 1 .. Len(a) : SubSeq(s, 1, Len(a))[j] = a[j]
    BY <1>1, <2>1, <2>2
  <2>5. SubSeq(s, 1, Len(a)) = a
    BY <2>2, <2>3, <2>4, SeqEqual
  <2> QED
    BY <1>1, <2>5
<1>6. SubSeq(s, i + 1, Len(s)) = Tail(b)
  <2> DEFINE m == i + 1
             n == Len(s)
             t == SubSeq(s, m, n)
  <2>1. m = Len(a) + 2 /\ n = Len(a) + Len(b) /\ m \in Int /\ n \in Int
    BY <1>1, <1>2
  <2> HIDE DEF m, n
  <2>2. \A j \in m .. n : s[j] \in S
    BY <1>1, <1>2, <2>1, ElementOfSeq
  <2>3. /\ t \in Seq(S) /\ Len(t) = IF m <= n THEN n - m + 1 ELSE 0
        /\ \A j \in 1 .. n - m + 1 : t[j] = s[m + j - 1]
    BY <2>1, <2>2, SubSeqProperties
  <2> HIDE DEF t
  <2>4. /\ Tail(b) \in Seq(S) /\ Len(Tail(b)) = Len(b) - 1
        /\ \A j \in 1 .. Len(b) - 1 : Tail(b)[j] = b[j + 1]
    BY HeadTailProperties
  <2>5. Len(t) = Len(b) - 1 /\ n - m + 1 = Len(b) - 1
    <3>1. n - m + 1 = Len(b) - 1
      BY <1>1, <2>1
    <3>2. CASE m <= n
      BY <2>3, <3>1, <3>2
    <3>3. CASE ~(m <= n)
      <4>1. Len(t) = 0
        BY <2>3, <3>3
      <4>2. ~(Len(a) + 2 <= Len(a) + Len(b))
        BY <2>1, <3>3
      <4>3. \A x, y \in Nat : y > 0 /\ ~(x + 2 <= x + y) => y = 1
        OBVIOUS
      <4>4. Len(b) = 1
        BY <1>1, <4>2, <4>3
      <4> QED
        BY <3>1, <4>1, <4>4
    <3> QED
      BY <3>2, <3>3
  <2>6. ASSUME NEW j \in 1 .. Len(t) PROVE t[j] = Tail(b)[j]
    <3>1. t[j] = s[m + j - 1] /\ j \in 1 .. Len(b) - 1
      BY <2>3, <2>5
    <3>2. m + j - 1 = Len(a) + j + 1 /\ (Len(a) + j + 1) - Len(a) = j + 1
      BY <1>1, <2>1, <3>1
    <3>3. s[Len(a) + j + 1] = b[(Len(a) + j + 1) - Len(a)]
      BY <1>1, <1>2, <3>1
    <3> QED
      BY <2>4, <3>1, <3>2, <3>3
  <2>7. t = Tail(b)
    BY <2>3, <2>4, <2>5, <2>6, SeqEqual
  <2> QED
    BY <2>7 DEF t, m, n
<1> QED
  BY <1>3, <1>4, <1>5, <1>6

-----------------------------------------------------------------------------
(* The abstract service.  What relates its state to the pipeline, beyond    *)
(* the accounts above: of which kind a request is that has been taken from  *)
(* the queue, which of the node's answers are on their way, and where the   *)
(* rollback is that the node owes after an intersection was found.          *)

KindsApart ==
  /\ \A i \in DOMAIN buffer : buffer[i].kind = "nextBlock"
  /\ \A i \in DOMAIN intersecting : intersecting[i].kind = "findIntersection"

Numbered ==
  \A i \in DOMAIN fromNode :
    fromNode[i].serial = IF pc = "intersect" THEN 0 ELSE served - Len(fromNode) + i

(* An intersection was found and no roll was delivered since.               *)
RollbackDue(s) ==
  \E i \in DOMAIN s :
    /\ s[i].tag = "IntersectionFound"
    /\ \A j \in DOMAIN s : j > i => s[j].tag \notin Rolls

(* The node remembers to roll back until it does, and the rollback is then  *)
(* the next answer to collect.                                              *)
RollbackKept ==
  /\ RollbackDue(responses) =>
       IF pc = "intersect" \/ fromNode = <<>>
         THEN rewound
         ELSE fromNode[1].tag = "RollBackward"
  /\ \A i \in DOMAIN fromNode : fromNode[i].tag = "IntersectionFound" => rewound

ServiceInv == PipelineInv /\ KindsApart /\ Numbered /\ RollbackKept

(* A response can only make a rollback due by announcing an intersection,   *)
(* and a roll settles it.                                                   *)
LEMMA DueAfter ==
  ASSUME NEW s \in Seq(Response), NEW e \in Response, NEW t, t = Append(s, e),
         RollbackDue(t)
  PROVE  e.tag \notin Rolls /\ (RollbackDue(s) \/ e.tag = "IntersectionFound")
<1>1. /\ Len(s) \in Nat /\ DOMAIN s = 1 .. Len(s) /\ DOMAIN t = 1 .. Len(s) + 1
      /\ \A i \in DOMAIN s : t[i] = s[i]
      /\ t[Len(s) + 1] = e
  <2>1. t \in Seq(Response) /\ Len(t) = Len(s) + 1
    BY AppendProperties
  <2> QED
    BY <2>1, AppendProperties, LenProperties
<1>2. PICK i \in DOMAIN t :
        /\ t[i].tag = "IntersectionFound"
        /\ \A j \in DOMAIN t : j > i => t[j].tag \notin Rolls
  BY DEF RollbackDue
<1>3. CASE i = Len(s) + 1
  BY <1>1, <1>2, <1>3 DEF Rolls
<1>4. CASE i # Len(s) + 1
  <2>1. i \in DOMAIN s /\ Len(s) + 1 > i /\ Len(s) + 1 \in DOMAIN t
    BY <1>1, <1>4
  <2>2. e.tag \notin Rolls
    BY <1>1, <1>2, <2>1
  <2>3. s[i].tag = "IntersectionFound"
    BY <1>1, <1>2, <2>1
  <2>4. \A j \in DOMAIN s : j > i => s[j].tag \notin Rolls
    <3> TAKE j \in DOMAIN s
    <3>1. j \in DOMAIN t /\ t[j] = s[j]
      BY <1>1
    <3> QED
      BY <1>2, <3>1
  <2> QED
    BY <2>1, <2>2, <2>3, <2>4 DEF RollbackDue
<1> QED
  BY <1>3, <1>4

(* What a step of the node adds to the answers.                             *)
LEMMA NodeAnswers ==
  ASSUME TypeOK, NEW answer \in Answer, fromNode' = Append(fromNode, answer)
  PROVE  /\ Len(fromNode) \in Nat /\ Len(fromNode') = Len(fromNode) + 1
         /\ fromNode' # <<>>
         /\ DOMAIN fromNode = 1 .. Len(fromNode)
         /\ DOMAIN fromNode' = 1 .. Len(fromNode) + 1
         /\ \A i \in DOMAIN fromNode : fromNode'[i] = fromNode[i]
         /\ fromNode'[Len(fromNode) + 1] = answer
         /\ \A i \in DOMAIN fromNode' : i \in DOMAIN fromNode \/ i = Len(fromNode) + 1
<1>1. fromNode \in Seq(Answer)
  BY DEF TypeOK
<1>2. /\ fromNode' \in Seq(Answer) /\ fromNode' # <<>> /\ Len(fromNode) \in Nat
      /\ Len(fromNode') = Len(fromNode) + 1
      /\ fromNode'[Len(fromNode) + 1] = answer
      /\ \A i \in 1 .. Len(fromNode) : fromNode'[i] = fromNode[i]
  BY <1>1, AppendProperties, LenProperties
<1>3. DOMAIN fromNode = 1 .. Len(fromNode) /\ DOMAIN fromNode' = 1 .. Len(fromNode) + 1
  BY <1>1, <1>2, LenProperties
<1> QED
  BY <1>2, <1>3

(* Whose turn it is.  The node answers the kind of message the client sent, *)
(* and the client acts on answers and requests that are there.              *)
LEMMA Agency ==
  ASSUME PipelineInv
  PROVE  /\ ServeNext => pc # "intersect"
         /\ ServeIntersect => pc = "intersect"
         /\ SendFindIntersect => fromNode = <<>> /\ buffer = <<>> /\ intersecting = <<>>
         /\ CollectNext => fromNode # <<>> /\ buffer # <<>> /\ intersecting = <<>>
         /\ CollectIntersection =>
              /\ fromNode # <<>> /\ fromNode' = <<>> /\ buffer = <<>>
              /\ intersecting # <<>> /\ Tail(intersecting) = <<>>
<1> TypeOK /\ PipelineAccounted /\ IntersectAlone
  BY DEF PipelineInv
<1>1. ASSUME ServeNext PROVE pc # "intersect"
  <2>1. 1 \in DOMAIN toNode /\ toNode[1] = "MsgRequestNext"
    BY <1>1, PopFront DEF ServeNext, TypeOK
  <2> QED
    BY <2>1 DEF IntersectAlone
<1>2. ASSUME ServeIntersect PROVE pc = "intersect"
  <2>1. 1 \in DOMAIN toNode /\ toNode[1] = "MsgFindIntersect"
    BY <1>2, PopFront DEF ServeIntersect, TypeOK
  <2> QED
    BY <2>1 DEF PipelineAccounted
<1>3. ASSUME SendFindIntersect PROVE fromNode = <<>> /\ buffer = <<>> /\ intersecting = <<>>
  BY <1>3, EmptySeq, LenProperties DEF SendFindIntersect, MayIntersect, PipelineAccounted, TypeOK
<1>4. ASSUME CollectNext PROVE fromNode # <<>> /\ buffer # <<>> /\ intersecting = <<>>
  BY <1>4, EmptySeq DEF CollectNext, PipelineAccounted, TypeOK
<1>5. ASSUME CollectIntersection
      PROVE  /\ fromNode # <<>> /\ fromNode' = <<>> /\ buffer = <<>>
             /\ intersecting # <<>> /\ Tail(intersecting) = <<>>
  <2>1. /\ fromNode # <<>> /\ fromNode' = Tail(fromNode) /\ buffer = <<>>
        /\ Len(toNode) + Len(fromNode) = 1 /\ Len(intersecting) = 1
    BY <1>5 DEF CollectIntersection, IntersectAlone
  <2>2. /\ Len(toNode) \in Nat /\ Len(fromNode) \in Nat /\ fromNode' \in Seq(Answer)
        /\ Len(fromNode') = Len(fromNode) - 1 /\ Len(fromNode') \in Nat
    BY <2>1, PopFront, LenProperties DEF TypeOK
  <2>3. Len(fromNode') = 0
    BY <2>1, <2>2
  <2>4. fromNode' = <<>>
    BY <2>2, <2>3, EmptySeq
  <2>5. intersecting # <<>>
    BY <2>1, EmptySeq
  <2>6. Tail(intersecting) \in Seq(Request) /\ Len(Tail(intersecting)) = 0
    BY <2>1, <2>5, HeadTailProperties DEF TypeOK
  <2>7. Tail(intersecting) = <<>>
    BY <2>6, EmptySeq
  <2> QED
    BY <2>1, <2>4, <2>5, <2>7
<1> QED
  BY <1>1, <1>2, <1>3, <1>4, <1>5

LEMMA KindsStep == ServiceInv /\ [Next]_vars => KindsApart'
<1> SUFFICES ASSUME ServiceInv, [Next]_vars PROVE KindsApart'
  OBVIOUS
<1> TypeOK /\ KindsApart
  BY DEF ServiceInv, PipelineInv
<1>1. CASE PipelineNextBlock
  <2>1. /\ queue # <<>> /\ Head(queue).kind = "nextBlock"
        /\ buffer' = Append(buffer, Head(queue)) /\ intersecting' = intersecting
    BY <1>1 DEF PipelineNextBlock, Remember
  <2>2. Head(queue) \in Request
    BY <2>1, PopFront DEF TypeOK
  <2>3. \A i \in DOMAIN buffer' :
          buffer'[i] = Head(queue) \/ (i \in DOMAIN buffer /\ buffer'[i] = buffer[i])
    <3>1. buffer \in Seq(Request)
      BY DEF TypeOK
    <3> QED
      BY <2>1, <2>2, <3>1, PushBack
  <2> QED
    BY <2>1, <2>3 DEF KindsApart
<1>2. CASE SendFindIntersect
  <2>1. /\ Head(queue).kind = "findIntersection" /\ buffer' = buffer
        /\ intersecting' = <<Head(queue)>>
    BY <1>2 DEF SendFindIntersect
  <2> QED
    BY <2>1 DEF KindsApart
<1>3. CASE CollectNext
  <2>1. buffer # <<>>
    BY <1>3, Agency DEF ServiceInv
  <2>2. buffer' = Tail(buffer) /\ intersecting' = intersecting
    BY <1>3, <2>1 DEF CollectNext, StillOwed
  <2>3. \A i \in DOMAIN buffer' : i + 1 \in DOMAIN buffer /\ buffer'[i] = buffer[i + 1]
    BY <2>1, <2>2, PopFront DEF TypeOK
  <2> QED
    BY <2>2, <2>3 DEF KindsApart
<1>4. CASE CollectIntersection
  BY <1>4 DEF CollectIntersection, KindsApart
<1>5. CASE UNCHANGED <<buffer, intersecting>>
  BY <1>5 DEF KindsApart
<1> QED
  BY <1>1, <1>2, <1>3, <1>4, <1>5
     DEF Next, Client, Node, Push, RejectInterleaved, AwaitAnswer, KeepPipelining,
         ServeNext, ServeIntersect, clientVars, vars

LEMMA NumberedStep == ServiceInv /\ [Next]_vars => Numbered'
<1> SUFFICES ASSUME ServiceInv, [Next]_vars PROVE Numbered'
  OBVIOUS
<1> TypeOK /\ Numbered
  BY DEF ServiceInv, PipelineInv
<1>1. CASE SendFindIntersect
  <2>1. fromNode' = fromNode /\ fromNode = <<>>
    BY <1>1, Agency DEF SendFindIntersect, ServiceInv
  <2> QED
    BY <2>1 DEF Numbered
<1>2. CASE CollectNext
  <2>1. pc # "intersect" /\ fromNode # <<>>
    BY <1>2 DEF CollectNext
  <2>2. CASE UNCHANGED fromNode
    BY <1>2, <2>1, <2>2 DEF CollectNext, Numbered, nodeVars
  <2>3. CASE fromNode' = Tail(fromNode) /\ pc' = "idle"
    <3>1. /\ Len(fromNode') = Len(fromNode) - 1 /\ fromNode' \in Seq(Answer)
          /\ \A i \in DOMAIN fromNode' : i + 1 \in DOMAIN fromNode /\ fromNode'[i] = fromNode[i + 1]
      BY <2>1, <2>3, PopFront DEF TypeOK
    <3>2. ASSUME NEW i \in DOMAIN fromNode'
          PROVE  fromNode'[i].serial = served - Len(fromNode') + i
      <4>1. i \in Nat /\ Len(fromNode) \in Nat /\ served \in Nat
        BY <3>1, LenProperties DEF TypeOK
      <4>2. fromNode'[i].serial = served - Len(fromNode) + (i + 1)
        BY <2>1, <3>1 DEF Numbered
      <4> QED
        BY <3>1, <4>1, <4>2
    <3>3. served' = served
      BY <1>2 DEF CollectNext, nodeVars
    <3> QED
      BY <2>3, <3>2, <3>3 DEF Numbered
  <2> QED
    BY <1>2, <2>2, <2>3 DEF CollectNext
<1>3. CASE CollectIntersection
  <2>1. fromNode' = <<>>
    BY <1>3, Agency DEF ServiceInv
  <2> QED
    BY <2>1 DEF Numbered
<1>4. CASE ServeNext
  <2>1. PICK tag \in Rolls :
          fromNode' = Append(fromNode, [tag |-> tag, serial |-> served + 1])
    BY <1>4 DEF ServeNext, Rolls
  <2>2. served' = served + 1 /\ pc' = pc
    BY <1>4 DEF ServeNext, clientVars
  <2>3. pc # "intersect"
    BY <1>4, Agency DEF ServiceInv
  <2> DEFINE answer == [tag |-> tag, serial |-> served + 1]
  <2>4. answer \in Answer /\ answer.serial = served + 1 /\ served \in Nat
    BY DEF Answer, TypeOK
  <2> HIDE DEF answer
  <2>5. fromNode' = Append(fromNode, answer)
    BY <2>1 DEF answer
  <2>6. ASSUME NEW i \in DOMAIN fromNode'
        PROVE  fromNode'[i].serial = served' - Len(fromNode') + i
    <3>1. CASE i \in DOMAIN fromNode
      <4>1. /\ i \in Nat /\ Len(fromNode) \in Nat /\ Len(fromNode') = Len(fromNode) + 1
            /\ fromNode'[i] = fromNode[i]
        BY <2>4, <2>5, <3>1, NodeAnswers
      <4>2. fromNode[i].serial = served - Len(fromNode) + i
        BY <2>3, <3>1 DEF Numbered
      <4> QED
        BY <2>2, <2>4, <4>1, <4>2
    <3>2. CASE i = Len(fromNode) + 1
      <4>1. /\ Len(fromNode) \in Nat /\ Len(fromNode') = Len(fromNode) + 1
            /\ fromNode'[i] = answer
        BY <2>4, <2>5, <3>2, NodeAnswers
      <4> QED
        BY <2>2, <2>4, <3>2, <4>1
    <3> QED
      BY <2>4, <2>5, <3>1, <3>2, NodeAnswers
  <2> QED
    BY <2>2, <2>3, <2>6 DEF Numbered
<1>5. CASE ServeIntersect
  <2>1. PICK tag \in Verdicts : fromNode' = Append(fromNode, [tag |-> tag, serial |-> 0])
    BY <1>5 DEF ServeIntersect
  <2>2. pc' = pc
    BY <1>5 DEF ServeIntersect, clientVars
  <2>3. pc = "intersect"
    BY <1>5, Agency DEF ServiceInv
  <2> DEFINE answer == [tag |-> tag, serial |-> 0]
  <2>4. answer \in Answer /\ answer.serial = 0 /\ fromNode' = Append(fromNode, answer)
    BY <2>1 DEF Answer
  <2> HIDE DEF answer
  <2>5. \A i \in DOMAIN fromNode' : fromNode'[i].serial = 0
    BY <2>3, <2>4, NodeAnswers DEF Numbered
  <2> QED
    BY <2>2, <2>3, <2>5 DEF Numbered
<1>6. CASE UNCHANGED <<fromNode, served>> /\ (pc' = "intersect" <=> pc = "intersect")
  BY <1>6 DEF Numbered
<1>7. CASE PipelineNextBlock
  <2>1. UNCHANGED <<fromNode, served>> /\ pc = "idle" /\ pc' # "intersect"
    BY <1>7 DEF PipelineNextBlock, AfterPipelining, nodeVars
  <2> QED
    BY <1>6, <2>1
<1>8. CASE Push \/ RejectInterleaved \/ AwaitAnswer \/ KeepPipelining \/ UNCHANGED vars
  BY <1>6, <1>8 DEF Push, RejectInterleaved, AwaitAnswer, KeepPipelining, WhenQuiet,
                    vars, clientVars, nodeVars
<1> QED
  BY <1>1, <1>2, <1>3, <1>4, <1>5, <1>7, <1>8 DEF Next, Client, Node

(* The client appends a reply to its responses.                             *)
LEMMA Replied ==
  ASSUME TypeOK, NEW r \in Request, NEW a,
         a.tag \in Rolls \cup Verdicts \cup {"IntersectionInterleaved"},
         a.serial \in Nat,
         responses' = Append(responses, Reply(r, a)),
         RollbackDue(responses')
  PROVE  a.tag \notin Rolls /\ (RollbackDue(responses) \/ a.tag = "IntersectionFound")
<1> DEFINE e == Reply(r, a)
<1>1. e \in Response
  BY ReplyType
<1>2. e.tag = a.tag
  BY DEF Reply
<1>3. responses \in Seq(Response)
  BY DEF TypeOK
<1> HIDE DEF e
<1>4. e.tag \notin Rolls /\ (RollbackDue(responses) \/ e.tag = "IntersectionFound")
  BY <1>1, <1>3, DueAfter DEF e
<1> QED
  BY <1>2, <1>4

LEMMA RollbackStep == ServiceInv /\ [Next]_vars => RollbackKept'
<1> SUFFICES ASSUME ServiceInv, [Next]_vars PROVE RollbackKept'
  OBVIOUS
<1> TypeOK /\ RollbackKept /\ PipelineAccounted /\ PipelineInv
  BY DEF ServiceInv, PipelineInv
<1>1. CASE SendFindIntersect
  <2>1. UNCHANGED <<fromNode, responses, rewound>> /\ fromNode = <<>>
    BY <1>1, Agency DEF SendFindIntersect, nodeVars
  <2> QED
    BY <2>1 DEF RollbackKept
<1>2. CASE RejectInterleaved
  <2> DEFINE a == [tag |-> "IntersectionInterleaved", serial |-> 0]
  <2>1. /\ UNCHANGED <<pc, fromNode, rewound>>
        /\ queue # <<>> /\ responses' = Append(responses, Reply(Head(queue), a))
    BY <1>2 DEF RejectInterleaved, nodeVars
  <2>2. Head(queue) \in Request
    BY <2>1, PopFront DEF TypeOK
  <2>3. a.tag = "IntersectionInterleaved" /\ a.serial \in Nat
    OBVIOUS
  <2> HIDE DEF a
  <2>4. RollbackDue(responses') => RollbackDue(responses)
    BY <2>1, <2>2, <2>3, Replied
  <2> QED
    BY <2>1, <2>4 DEF RollbackKept
<1>3. CASE CollectNext
  <2>1. /\ fromNode # <<>> /\ Head(fromNode).tag \in Rolls /\ rewound' = rewound
        /\ buffer # <<>> /\ fromNode' = Tail(fromNode)
        /\ responses' = Append(responses, Reply(Head(buffer), Head(fromNode)))
    BY <1>3, Agency DEF CollectNext, Owed, nodeVars
  <2>2. Head(buffer) \in Request /\ Head(fromNode) \in Answer
    BY <2>1, PopFront DEF TypeOK
  <2>3. Head(fromNode).serial \in Nat
    BY <2>2 DEF Answer
  <2>4. ~RollbackDue(responses')
    BY <2>1, <2>2, <2>3, Replied
  <2>5. \A i \in DOMAIN fromNode' : i + 1 \in DOMAIN fromNode /\ fromNode'[i] = fromNode[i + 1]
    BY <2>1, PopFront DEF TypeOK
  <2> QED
    BY <2>1, <2>4, <2>5 DEF RollbackKept
<1>4. CASE CollectIntersection
  <2>1. /\ pc = "intersect" /\ fromNode # <<>> /\ Head(fromNode).tag \in Verdicts
        /\ fromNode' = <<>> /\ rewound' = rewound /\ intersecting # <<>>
        /\ responses' = Append(responses, Reply(Head(intersecting), Head(fromNode)))
    BY <1>4, Agency DEF CollectIntersection, nodeVars
  <2>2. Head(intersecting) \in Request /\ Head(fromNode) \in Answer
    BY <2>1, PopFront DEF TypeOK
  <2>3. Head(fromNode).serial \in Nat
    BY <2>2 DEF Answer
  <2>4. Head(fromNode).tag = "IntersectionFound" => rewound
    <3>1. 1 \in DOMAIN fromNode /\ Head(fromNode) = fromNode[1]
      BY <2>1, PopFront DEF TypeOK
    <3> QED
      BY <3>1 DEF RollbackKept
  <2>5. RollbackDue(responses') => rewound
    <3>1. RollbackDue(responses') =>
            RollbackDue(responses) \/ Head(fromNode).tag = "IntersectionFound"
      BY <2>1, <2>2, <2>3, Replied
    <3> QED
      BY <2>1, <2>4, <3>1 DEF RollbackKept
  <2> QED
    BY <2>1, <2>5 DEF RollbackKept
<1>5. CASE ServeNext
  <2>1. PICK tag \in (IF rewound THEN {"RollBackward"} ELSE Rolls) :
          fromNode' = Append(fromNode, [tag |-> tag, serial |-> served + 1])
    BY <1>5 DEF ServeNext
  <2>2. UNCHANGED <<pc, responses>> /\ pc # "intersect"
    BY <1>5, Agency DEF ServeNext, clientVars
  <2> DEFINE answer == [tag |-> tag, serial |-> served + 1]
  <2>3. tag \in Rolls /\ (rewound => tag = "RollBackward")
    BY <2>1 DEF Rolls
  <2>4. answer \in Answer /\ answer.tag = tag
    BY <2>3 DEF Answer, TypeOK
  <2>5. fromNode' = Append(fromNode, answer)
    BY <2>1
  <2> HIDE DEF answer
  <2>6. /\ \A i \in DOMAIN fromNode : fromNode'[i] = fromNode[i]
        /\ fromNode'[Len(fromNode) + 1] = answer /\ fromNode' # <<>>
        /\ \A i \in DOMAIN fromNode' : i \in DOMAIN fromNode \/ i = Len(fromNode) + 1
    BY <2>4, <2>5, NodeAnswers
  <2>7. \A i \in DOMAIN fromNode' : fromNode'[i].tag \in Rolls
    BY <2>2, <2>3, <2>4, <2>6 DEF PipelineAccounted
  <2>8. ASSUME RollbackDue(responses') PROVE fromNode'[1].tag = "RollBackward"
    <3>1. CASE fromNode = <<>>
      <4>1. rewound /\ fromNode'[1] = answer
        BY <2>2, <2>6, <2>8, <3>1, EmptySeq DEF RollbackKept
      <4> QED
        BY <2>3, <2>4, <4>1
    <3>2. CASE fromNode # <<>>
      <4>1. 1 \in DOMAIN fromNode
        BY <3>2, PopFront DEF TypeOK
      <4> QED
        BY <2>2, <2>6, <2>8, <3>2, <4>1 DEF RollbackKept
    <3> QED
      BY <3>1, <3>2
  <2>9. \A i \in DOMAIN fromNode' : fromNode'[i].tag # "IntersectionFound"
    BY <2>7 DEF Rolls
  <2> QED
    BY <2>2, <2>6, <2>8, <2>9 DEF RollbackKept
<1>6. CASE ServeIntersect
  <2>1. PICK tag \in Verdicts :
          /\ fromNode' = Append(fromNode, [tag |-> tag, serial |-> 0])
          /\ rewound' = (rewound \/ tag = "IntersectionFound")
    BY <1>6 DEF ServeIntersect
  <2>2. UNCHANGED <<pc, responses>> /\ pc = "intersect"
    BY <1>6, Agency DEF ServeIntersect, clientVars
  <2> DEFINE answer == [tag |-> tag, serial |-> 0]
  <2>3. answer \in Answer /\ answer.tag = tag /\ fromNode' = Append(fromNode, answer)
    BY <2>1 DEF Answer
  <2> HIDE DEF answer
  <2>4. /\ \A i \in DOMAIN fromNode : fromNode'[i] = fromNode[i]
        /\ fromNode'[Len(fromNode) + 1] = answer
        /\ \A i \in DOMAIN fromNode' : i \in DOMAIN fromNode \/ i = Len(fromNode) + 1
    BY <2>3, NodeAnswers
  <2>5. RollbackDue(responses') => rewound'
    BY <2>1, <2>2 DEF RollbackKept
  <2>6. ASSUME NEW i \in DOMAIN fromNode', fromNode'[i].tag = "IntersectionFound"
        PROVE  rewound'
    <3>1. CASE i \in DOMAIN fromNode
      BY <2>1, <2>4, <2>6, <3>1 DEF RollbackKept
    <3>2. CASE i = Len(fromNode) + 1
      BY <2>1, <2>3, <2>4, <2>6, <3>2
    <3> QED
      BY <2>4, <3>1, <3>2
  <2> QED
    BY <2>2, <2>5, <2>6 DEF RollbackKept
<1>7. CASE /\ UNCHANGED <<fromNode, responses, rewound>>
           /\ pc' = "intersect" <=> pc = "intersect"
  BY <1>7 DEF RollbackKept
<1>8. CASE PipelineNextBlock
  <2>1. /\ UNCHANGED <<fromNode, responses, rewound>>
        /\ pc = "idle" /\ pc' # "intersect"
    BY <1>8 DEF PipelineNextBlock, AfterPipelining, nodeVars
  <2> QED
    BY <1>7, <2>1
<1>9. CASE Push \/ AwaitAnswer \/ KeepPipelining \/ UNCHANGED vars
  BY <1>7, <1>9 DEF Push, AwaitAnswer, KeepPipelining, WhenQuiet, vars, clientVars, nodeVars
<1> QED
  BY <1>1, <1>2, <1>3, <1>4, <1>5, <1>6, <1>8, <1>9 DEF Next, Client, Node

LEMMA ServiceInvariant == Spec => []ServiceInv
<1>1. Init => ServiceInv
  <2> SUFFICES ASSUME Init PROVE ServiceInv
    OBVIOUS
  <2>1. KindsApart /\ Numbered
    BY DEF Init, KindsApart, Numbered
  <2>2. RollbackKept
    BY DEF Init, RollbackKept, RollbackDue
  <2> QED
    BY <2>1, <2>2, PipelineInit DEF ServiceInv
<1>2. ServiceInv /\ [Next]_vars => ServiceInv'
  BY TypeStep, PipelineStep, KindsStep, NumberedStep, RollbackStep DEF ServiceInv, PipelineInv
<1> QED
  BY <1>1, <1>2, PTL DEF Spec

-----------------------------------------------------------------------------
(* Each step of the pipeline is a step of the service, or changes nothing   *)
(* the service shows.                                                       *)

Delivered == IF pc = "intersect" THEN served ELSE served - Len(fromNode)

LEMMA RepositionedIsDue == Service!Repositioned => RollbackDue(responses)
BY DEF Service!Repositioned, RollbackDue, Rolls

(* Who is pending, and in which sequences.                                  *)
LEMMA PendingParts ==
  ASSUME TypeOK
  PROVE  /\ intersecting = <<>> => Pending = buffer \o queue
         /\ buffer = <<>> => Pending = intersecting \o queue
         /\ buffer \in Seq(Request) /\ intersecting \in Seq(Request) /\ queue \in Seq(Request)
BY ConcatEmptySeq DEF TypeOK, Pending

LEMMA ServicePush ==
  ASSUME ServiceInv, Push
  PROVE  Service!Next
<1> TypeOK
  BY DEF ServiceInv, PipelineInv
<1>1. PICK kind \in Kind : queue' = Append(queue, [id |-> issued + 1, kind |-> kind])
  BY DEF Push, Enqueue
<1> DEFINE request == [id |-> issued + 1, kind |-> kind]
<1>2. request \in Request
  BY DEF Request, TypeOK
<1>3. queue' = Append(queue, request)
  BY <1>1
<1> HIDE DEF request
<1>4. Pending' = Append(Pending, request)
  <2> DEFINE front == buffer \o intersecting
  <2>1. front \in Seq(Request) /\ queue \in Seq(Request)
    BY PendingParts, ConcatProperties
  <2> HIDE DEF front
  <2>2. Append(front \o queue, request) = front \o queue'
    BY <1>2, <1>3, <2>1, AppendToConcat, ZenonT(40)
  <2> QED
    BY <2>2 DEF Push, clientVars, Pending, front
<1>5. Service!Ask(kind)
  BY <1>4 DEF Service!Ask, Push, clientVars, nodeVars, request
<1> QED
  BY <1>5 DEF Service!Next, Kind

LEMMA ServiceRefuse ==
  ASSUME ServiceInv, RejectInterleaved
  PROVE  Service!Next
<1> TypeOK /\ PipelineAccounted /\ KindsApart
  BY DEF ServiceInv, PipelineInv
<1> DEFINE i == Len(buffer) + 1
           p == Pending
<1>1. /\ pc = "idle" /\ pc' = pc /\ inFlight # 0 /\ queue # <<>>
      /\ Head(queue).kind = "findIntersection" /\ queue' = Tail(queue)
      /\ responses' = Append(responses,
           [to |-> Head(queue), tag |-> "IntersectionInterleaved", serial |-> 0])
      /\ UNCHANGED <<issued, buffer, intersecting, fromNode, served>>
  BY DEF RejectInterleaved, MayIntersect, Reply, nodeVars
<1>2. intersecting = <<>> /\ Len(buffer) = inFlight /\ Len(buffer) \in Nat
  BY <1>1 DEF PipelineAccounted, TypeOK
<1>3. p = buffer \o queue
  BY <1>2, PendingParts
<1>4. Pending' = buffer \o Tail(queue)
  BY <1>1, <1>2, PendingParts, ConcatEmptySeq DEF Pending
<1>5. /\ i \in DOMAIN p
      /\ p[i] = Head(queue)
      /\ \A j \in 1 .. i - 1 : p[j] = buffer[j]
      /\ SubSeq(p, 1, i - 1) \o SubSeq(p, i + 1, Len(p)) = buffer \o Tail(queue)
  <2>1. buffer \in Seq(Request) /\ queue \in Seq(Request) /\ queue # <<>>
    BY <1>1, PendingParts
  <2> DEFINE before == SubSeq(p, 1, i - 1)
             after  == SubSeq(p, i + 1, Len(p))
  <2>2. i = Len(buffer) + 1 /\ before = SubSeq(p, 1, i - 1) /\ after = SubSeq(p, i + 1, Len(p))
    OBVIOUS
  <2> HIDE DEF i, p, before, after
  <2>3. /\ i \in DOMAIN p
        /\ p[i] = Head(queue)
        /\ \A j \in 1 .. i - 1 : p[j] = buffer[j]
        /\ before = buffer /\ after = Tail(queue)
    BY <1>3, <2>1, <2>2, JumpTheLine
  <2> QED
    BY <2>3 DEF before, after
<1>6. i > 1
  BY <1>1, <1>2
<1>7. \A j \in 1 .. i - 1 : p[j].kind = "nextBlock"
  <2>1. \A j \in 1 .. i - 1 : j \in DOMAIN buffer
    BY <1>2, LenProperties DEF TypeOK
  <2> QED
    BY <1>5, <2>1 DEF KindsApart
<1>8. Delivered' = Delivered
  BY <1>1 DEF Delivered
<1>9. Service!Refuse(i)
  <2> HIDE DEF i
  <2> QED
    BY <1>1, <1>4, <1>5, <1>6, <1>7, <1>8 DEF Service!Refuse, Delivered
<1> QED
  BY <1>5, <1>9 DEF Service!Next, Service!Answer

LEMMA ServiceNextBlock ==
  ASSUME ServiceInv, CollectNext
  PROVE  Service!Next
<1> TypeOK /\ KindsApart /\ Numbered /\ RollbackKept
  BY DEF ServiceInv, PipelineInv
<1> DEFINE tag == Head(fromNode).tag
<1>1. /\ fromNode # <<>> /\ buffer # <<>> /\ intersecting = <<>>
      /\ pc # "intersect" /\ pc' # "intersect" /\ tag \in Rolls
      /\ responses' = Append(responses,
           [to |-> Head(buffer), tag |-> tag, serial |-> Head(fromNode).serial])
      /\ buffer' = Tail(buffer) /\ fromNode' = Tail(fromNode)
      /\ UNCHANGED <<issued, queue, intersecting, served>>
  BY Agency DEF ServiceInv, CollectNext, Owed, StillOwed, Reply, nodeVars
<1>2. /\ Pending # <<>> /\ Head(Pending) = Head(buffer)
      /\ Pending' = Tail(Pending)
  <2>1. Pending = buffer \o queue
    BY <1>1, PendingParts
  <2>2. Pending' = Tail(buffer) \o queue
    <3>1. Tail(buffer) \in Seq(Request)
      BY <1>1, PendingParts, HeadTailProperties
    <3> QED
      BY <1>1, <3>1, ConcatEmptySeq DEF Pending
  <2> QED
    BY <1>1, <2>1, <2>2, PendingParts, FrontOfConcat
<1>3. Head(buffer).kind = "nextBlock"
  BY <1>1, PopFront DEF KindsApart, TypeOK
<1>4. 1 \in DOMAIN fromNode /\ Head(fromNode) = fromNode[1] /\ Len(fromNode') = Len(fromNode) - 1
      /\ Len(fromNode) \in Nat
  BY <1>1, PopFront, LenProperties DEF TypeOK
<1>5. Service!Repositioned => tag = "RollBackward"
  BY <1>1, <1>4, RepositionedIsDue DEF RollbackKept
<1>6. Delivered = served - Len(fromNode) /\ Delivered' = served - Len(fromNode')
  BY <1>1 DEF Delivered
<1>7. Head(fromNode).serial = Delivered + 1
  BY <1>1, <1>4, <1>6 DEF Numbered
<1>8. Delivered' = Delivered + 1
  BY <1>4, <1>6 DEF TypeOK
<1> HIDE DEF tag
<1>9. Service!AnswerNextBlock(tag)
  BY <1>1, <1>2, <1>3, <1>5, <1>7, <1>8 DEF Service!AnswerNextBlock, Delivered
<1> QED
  BY <1>1, <1>9 DEF Service!Next, Service!Answer, Rolls

LEMMA ServiceFindIntersection ==
  ASSUME ServiceInv, CollectIntersection
  PROVE  Service!Next
<1> TypeOK /\ KindsApart /\ Numbered
  BY DEF ServiceInv, PipelineInv
<1> DEFINE tag == Head(fromNode).tag
<1>1. /\ fromNode # <<>> /\ fromNode' = <<>> /\ buffer = <<>>
      /\ intersecting # <<>> /\ Tail(intersecting) = <<>>
      /\ pc = "intersect" /\ pc' = "idle" /\ tag \in Verdicts
      /\ responses' = Append(responses,
           [to |-> Head(intersecting), tag |-> tag, serial |-> Head(fromNode).serial])
      /\ buffer' = <<>> /\ intersecting' = <<>>
      /\ UNCHANGED <<issued, queue, served>>
  BY Agency DEF ServiceInv, CollectIntersection, Reply, nodeVars
<1>2. /\ Pending # <<>> /\ Head(Pending) = Head(intersecting)
      /\ Pending' = Tail(Pending)
  <2>1. Pending = intersecting \o queue
    BY <1>1, PendingParts
  <2>2. Pending' = Tail(intersecting) \o queue
    BY <1>1, PendingParts, ConcatEmptySeq, EmptySeq DEF Pending
  <2> QED
    BY <1>1, <2>1, <2>2, PendingParts, FrontOfConcat
<1>3. Head(intersecting).kind = "findIntersection"
  BY <1>1, PopFront DEF KindsApart, TypeOK
<1>4. Head(fromNode).serial = 0
  BY <1>1, PopFront DEF Numbered, TypeOK
<1>5. Delivered' = Delivered
  BY <1>1, EmptySeq DEF Delivered, TypeOK
<1> HIDE DEF tag
<1>6. Service!AnswerFindIntersection(tag)
  BY <1>1, <1>2, <1>3, <1>4, <1>5 DEF Service!AnswerFindIntersection, Delivered
<1> QED
  BY <1>1, <1>6 DEF Service!Next, Service!Answer, Verdicts

(* The steps the service does not show.                                     *)
LEMMA ServiceStutter ==
  ASSUME ServiceInv,
         \/ PipelineNextBlock \/ SendFindIntersect \/ AwaitAnswer \/ KeepPipelining
         \/ ServeNext \/ ServeIntersect \/ UNCHANGED vars
  PROVE  UNCHANGED <<issued, Pending, Delivered, responses>>
<1> TypeOK /\ PipelineAccounted /\ PipelineInv
  BY DEF ServiceInv, PipelineInv
<1>1. CASE PipelineNextBlock
  <2>1. /\ pc = "idle" /\ pc' # "intersect" /\ queue # <<>> /\ intersecting = <<>>
        /\ buffer' = Append(buffer, Head(queue)) /\ queue' = Tail(queue)
        /\ UNCHANGED <<issued, intersecting, fromNode, served, responses>>
    BY <1>1 DEF PipelineNextBlock, PipelineAccounted, AfterPipelining, Remember, nodeVars
  <2>2. Pending = buffer \o queue
    BY <2>1, PendingParts
  <2>3. Pending' = Append(buffer, Head(queue)) \o Tail(queue)
    <3>1. Append(buffer, Head(queue)) \in Seq(Request)
      BY <2>1, PendingParts, HeadTailProperties, AppendProperties
    <3> QED
      BY <2>1, <3>1, ConcatEmptySeq DEF Pending
  <2>4. Pending' = Pending
    BY <2>1, <2>2, <2>3, PendingParts, MoveFront
  <2> QED
    BY <2>1, <2>4 DEF Delivered
<1>2. CASE SendFindIntersect
  <2>1. /\ pc # "intersect" /\ pc' = "intersect" /\ queue # <<>>
        /\ intersecting = <<>> /\ buffer = <<>> /\ fromNode = <<>>
        /\ intersecting' = <<Head(queue)>> /\ queue' = Tail(queue)
        /\ UNCHANGED <<issued, buffer, fromNode, served, responses>>
    BY <1>2, Agency DEF SendFindIntersect, nodeVars
  <2>2. Pending = <<>> \o queue
    BY <2>1, PendingParts
  <2>3. Pending' = Append(<<>>, Head(queue)) \o Tail(queue)
    <3>1. <<Head(queue)>> \in Seq(Request) /\ Append(<<>>, Head(queue)) = <<Head(queue)>>
      BY <2>1, PendingParts, HeadTailProperties
    <3> QED
      BY <2>1, <3>1, ConcatEmptySeq DEF Pending
  <2>4. Pending' = Pending
    BY <2>1, <2>2, <2>3, PendingParts, MoveFront, EmptySeq
  <2>5. Delivered' = Delivered
    BY <2>1, EmptySeq DEF Delivered, TypeOK
  <2> QED
    BY <2>1, <2>4, <2>5
<1>3. CASE ServeNext
  <2>1. /\ pc # "intersect" /\ pc' = pc /\ served' = served + 1
        /\ UNCHANGED <<issued, queue, buffer, intersecting, responses>>
    BY <1>3, Agency DEF ServeNext, clientVars
  <2>2. Len(fromNode) \in Nat /\ Len(fromNode') = Len(fromNode) + 1
    <3>1. PICK tag \in Rolls :
            fromNode' = Append(fromNode, [tag |-> tag, serial |-> served + 1])
      BY <1>3 DEF ServeNext, Rolls
    <3>2. [tag |-> tag, serial |-> served + 1] \in Answer
      BY DEF Answer, TypeOK
    <3> QED
      BY <3>1, <3>2, NodeAnswers
  <2>3. Delivered' = Delivered
    BY <2>1, <2>2 DEF Delivered, TypeOK
  <2> QED
    BY <2>1, <2>3 DEF Pending
<1>4. CASE ServeIntersect
  BY <1>4, Agency DEF ServeIntersect, Pending, Delivered, clientVars
<1>5. CASE AwaitAnswer \/ KeepPipelining \/ UNCHANGED vars
  BY <1>5 DEF AwaitAnswer, KeepPipelining, WhenQuiet, vars, nodeVars, Pending, Delivered
<1> QED
  BY <1>1, <1>2, <1>3, <1>4, <1>5

(* The pipelined client implements the service that answers requests one at *)
(* a time: whatever the client of the WebSocket can observe, it could       *)
(* observe of a server without a pipeline.                                  *)
THEOREM PipelineImplementsService == Spec => ImplementsService
<1>1. Init => Service!Init
  <2> SUFFICES ASSUME Init PROVE Service!Init
    OBVIOUS
  <2>1. <<>> \in Seq(Request) /\ Len(<<>>) = 0
    BY EmptySeq
  <2>2. Pending = <<>>
    BY <2>1, ConcatEmptySeq DEF Init, Pending
  <2>3. Delivered = 0
    <3>1. served = 0 /\ fromNode = <<>> /\ pc # "intersect"
      BY DEF Init
    <3>2. Delivered = 0 - 0
      BY <2>1, <3>1 DEF Delivered
    <3> QED
      BY <3>2
  <2> QED
    BY <2>2, <2>3 DEF Init, Service!Init, Delivered
<1>2. ServiceInv /\ [Next]_vars => [Service!Next]_(Service!vars)
  <2> SUFFICES ASSUME ServiceInv, [Next]_vars
               PROVE  Service!Next \/ UNCHANGED <<issued, Pending, Delivered, responses>>
    BY DEF Service!vars, Delivered
  <2> QED
    BY ServicePush, ServiceRefuse, ServiceNextBlock, ServiceFindIntersection, ServiceStutter
       DEF Next, Client, Node
<1> QED
  BY <1>1, <1>2, ServiceInvariant, PTL DEF Spec, Service!Spec, ImplementsService
=============================================================================
