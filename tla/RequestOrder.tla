----------------------------- MODULE RequestOrder -----------------------------
(***************************************************************************)
(* What the mini-protocol clients of the server have in common: requests   *)
(* are numbered as they come (`issued'), wait in a queue, are served one   *)
(* at a time (`current', a sequence of at most one) and answered.  Each    *)
(* lemma below is about one way a client has to move a request on: none    *)
(* disturbs the order of the responses.                                    *)
(***************************************************************************)
EXTENDS Naturals, Sequences, SequenceTheorems, TLAPS

(* Responses are to the requests 1, 2, ...; the next one is being served,   *)
(* if any, and those in the queue follow, up to the last one issued.        *)
InOrder(issued, queue, current, responses) ==
  /\ \A i \in DOMAIN responses : responses[i].to = i
  /\ \A i \in DOMAIN current : current[i].id = Len(responses) + 1
  /\ \A i \in DOMAIN queue : queue[i].id = Len(responses) + Len(current) + i
  /\ Len(responses) + Len(current) + Len(queue) = issued

-----------------------------------------------------------------------------
(* A sequence and one more element; a sequence without its first element.   *)
LEMMA Appended ==
  ASSUME NEW S, NEW s \in Seq(S), NEW e \in S
  PROVE  /\ Append(s, e) \in Seq(S)
         /\ Len(s) \in Nat
         /\ Len(Append(s, e)) = Len(s) + 1
         /\ DOMAIN s = 1 .. Len(s)
         /\ DOMAIN Append(s, e) = 1 .. Len(s) + 1
         /\ \A i \in DOMAIN s : i \in DOMAIN Append(s, e) /\ Append(s, e)[i] = s[i]
         /\ Append(s, e)[Len(s) + 1] = e
<1>1. Append(s, e) \in Seq(S) /\ Len(Append(s, e)) = Len(s) + 1 /\ Len(s) \in Nat
  BY AppendProperties, LenProperties
<1>2. DOMAIN s = 1 .. Len(s) /\ DOMAIN Append(s, e) = 1 .. Len(s) + 1
  BY <1>1, LenProperties
<1>3. \A i \in 1 .. Len(s) : Append(s, e)[i] = s[i]
  BY AppendProperties
<1>4. Append(s, e)[Len(s) + 1] = e
  BY AppendProperties
<1> QED
  BY <1>1, <1>2, <1>3, <1>4

LEMMA Popped ==
  ASSUME NEW S, NEW s \in Seq(S), s # <<>>
  PROVE  /\ Head(s) \in S
         /\ Head(s) = s[1]
         /\ 1 \in DOMAIN s
         /\ Tail(s) \in Seq(S)
         /\ Len(s) \in Nat
         /\ Len(Tail(s)) = Len(s) - 1
         /\ \A i \in DOMAIN Tail(s) : i \in Nat /\ i + 1 \in DOMAIN s /\ Tail(s)[i] = s[i + 1]
BY HeadTailProperties, LenProperties, EmptySeq

-----------------------------------------------------------------------------
(* A request is received.                                                   *)
LEMMA OrderedByPush ==
  ASSUME NEW Q, NEW R, NEW issued \in Nat, NEW queue \in Seq(Q),
         NEW current \in Seq(Q), NEW responses \in Seq(R),
         InOrder(issued, queue, current, responses),
         NEW r \in Q, r.id = issued + 1
  PROVE  InOrder(issued + 1, Append(queue, r), current, responses)
<1> DEFINE longer == Append(queue, r)
<1>1. Len(current) \in Nat /\ Len(responses) \in Nat /\ Len(queue) \in Nat
  BY LenProperties
<1>2. Len(longer) = Len(queue) + 1
  BY Appended
<1>3. /\ DOMAIN queue = 1 .. Len(queue) /\ DOMAIN longer = 1 .. Len(queue) + 1
      /\ \A i \in DOMAIN queue : longer[i] = queue[i]
      /\ longer[Len(queue) + 1] = r
  BY Appended
<1> HIDE DEF longer
<1>4. Len(responses) + Len(current) + Len(queue) = issued
  BY DEF InOrder
<1>5. Len(responses) + Len(current) + Len(longer) = issued + 1
  BY <1>1, <1>2, <1>4
<1>6. \A i \in DOMAIN longer : longer[i].id = Len(responses) + Len(current) + i
  <2> TAKE i \in DOMAIN longer
  <2>1. CASE i = Len(queue) + 1
    <3>1. longer[i].id = issued + 1
      BY <1>3, <2>1
    <3> QED
      BY <1>1, <1>4, <2>1, <3>1
  <2>2. CASE i # Len(queue) + 1
    <3>1. i \in DOMAIN queue
      BY <1>1, <1>3, <2>2
    <3> QED
      BY <1>3, <3>1 DEF InOrder
  <2> QED
    BY <2>1, <2>2
<1> QED
  BY <1>5, <1>6 DEF InOrder, longer

(* The first request of the queue is the one that is to be answered next,   *)
(* when none is being served; the others move up.                           *)
LEMMA FirstInLine ==
  ASSUME NEW Q, NEW R, NEW issued \in Nat, NEW queue \in Seq(Q),
         NEW current, NEW responses \in Seq(R),
         InOrder(issued, queue, current, responses),
         queue # <<>>, current = <<>>
  PROVE  /\ Head(queue).id = Len(responses) + 1
         /\ \A i \in DOMAIN Tail(queue) : Tail(queue)[i].id = Len(responses) + 1 + i
         /\ Len(responses) + 1 + Len(Tail(queue)) = issued
<1>1. Len(current) = 0 /\ Len(responses) \in Nat
  BY LenProperties, EmptySeq
<1>2. Len(responses) + Len(queue) = issued
  BY <1>1, Popped DEF InOrder
<1>3. \A i \in DOMAIN queue : queue[i].id = Len(responses) + 0 + i
  BY <1>1 DEF InOrder
<1>4. Head(queue).id = Len(responses) + 1
  BY <1>1, <1>3, Popped
<1>5. ASSUME NEW i \in DOMAIN Tail(queue)
      PROVE  Tail(queue)[i].id = Len(responses) + 1 + i
  <2>1. i \in Nat /\ i + 1 \in DOMAIN queue /\ Tail(queue)[i] = queue[i + 1]
    BY Popped
  <2> QED
    BY <1>1, <1>3, <2>1
<1>6. Len(responses) + 1 + Len(Tail(queue)) = issued
  BY <1>1, <1>2, Popped
<1> QED
  BY <1>4, <1>5, <1>6

(* It is taken from the queue to be served.                                 *)
LEMMA OrderedByServe ==
  ASSUME NEW Q, NEW R, NEW issued \in Nat, NEW queue \in Seq(Q),
         NEW current, NEW responses \in Seq(R),
         InOrder(issued, queue, current, responses),
         queue # <<>>, current = <<>>
  PROVE  InOrder(issued, Tail(queue), <<Head(queue)>>, responses)
<1> DEFINE served == <<Head(queue)>>
<1>1. Len(served) = 1 /\ \A i \in DOMAIN served : served[i] = Head(queue)
  OBVIOUS
<1> HIDE DEF served
<1>2. /\ Head(queue).id = Len(responses) + 1
      /\ \A i \in DOMAIN Tail(queue) : Tail(queue)[i].id = Len(responses) + Len(served) + i
      /\ Len(responses) + Len(served) + Len(Tail(queue)) = issued
  BY <1>1, FirstInLine
<1>3. InOrder(issued, Tail(queue), served, responses)
  BY <1>1, <1>2 DEF InOrder
<1> QED
  BY <1>3 DEF served

(* One more response, to the first request that has none.                   *)
LEMMA OneMore ==
  ASSUME NEW R, NEW responses \in Seq(R), NEW r \in R, r.to = Len(responses) + 1,
         \A i \in DOMAIN responses : responses[i].to = i
  PROVE  \A i \in DOMAIN Append(responses, r) : Append(responses, r)[i].to = i
BY Appended

(* It is taken from the queue and answered at once.                         *)
LEMMA OrderedByRefusal ==
  ASSUME NEW Q, NEW R, NEW issued \in Nat, NEW queue \in Seq(Q),
         NEW current, NEW responses \in Seq(R),
         InOrder(issued, queue, current, responses),
         queue # <<>>, current = <<>>,
         NEW r \in R, r.to = Head(queue).id
  PROVE  InOrder(issued, Tail(queue), current, Append(responses, r))
<1>1. Len(current) = 0 /\ DOMAIN current = {} /\ Len(responses) \in Nat
  BY LenProperties, EmptySeq
<1>2. Len(Append(responses, r)) = Len(responses) + 1
  BY Appended
<1>3. \A i \in DOMAIN Append(responses, r) : Append(responses, r)[i].to = i
  BY OneMore, FirstInLine DEF InOrder
<1>4. \A i \in DOMAIN Tail(queue) :
        Tail(queue)[i].id = Len(Append(responses, r)) + Len(current) + i
  <2> TAKE i \in DOMAIN Tail(queue)
  <2>1. i \in Nat /\ Tail(queue)[i].id = Len(responses) + 1 + i
    BY FirstInLine, Popped
  <2> QED
    BY <1>1, <1>2, <2>1
<1>5. Len(Append(responses, r)) + Len(current) + Len(Tail(queue)) = issued
  BY <1>1, <1>2, FirstInLine
<1> QED
  BY <1>1, <1>3, <1>4, <1>5 DEF InOrder

(* The request that is being served is answered.                            *)
LEMMA OrderedByAnswer ==
  ASSUME NEW Q, NEW R, NEW issued \in Nat, NEW queue \in Seq(Q),
         NEW current \in Seq(Q), NEW responses \in Seq(R),
         InOrder(issued, queue, current, responses),
         Len(current) = 1, NEW r \in R, r.to = current[1].id
  PROVE  InOrder(issued, queue, <<>>, Append(responses, r))
<1>1. /\ Len(responses) \in Nat /\ Len(queue) \in Nat /\ 1 \in DOMAIN current
      /\ \A i \in DOMAIN queue : i \in Nat
  BY LenProperties
<1>2. Len(Append(responses, r)) = Len(responses) + 1
  BY Appended
<1>3. \A i \in DOMAIN Append(responses, r) : Append(responses, r)[i].to = i
  BY <1>1, OneMore DEF InOrder
<1>4. \A i \in DOMAIN queue : queue[i].id = Len(Append(responses, r)) + Len(<<>>) + i
  BY <1>1, <1>2, EmptySeq DEF InOrder
<1>5. Len(Append(responses, r)) + Len(<<>>) + Len(queue) = issued
  BY <1>1, <1>2, EmptySeq DEF InOrder
<1> QED
  BY <1>3, <1>4, <1>5 DEF InOrder
=============================================================================
