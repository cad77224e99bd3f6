--------------------------- MODULE TxMonitorProofs ---------------------------
(***************************************************************************)
(* Theorems about TxMonitor: for any number of requests, any history of    *)
(* the node's mempool, and any eras of it (but where a theorem says what   *)
(* it needs of them).                                                      *)
(***************************************************************************)
EXTENDS TxMonitor, RequestOrder

(* Requests are about one transaction, the first that the node accepted.    *)
Requests == [id : Nat, ask : Asks, tx : {1}]

(* TypeOK; there always is a mempool; the client waits for the answer to    *)
(* what it asks, and holds a snapshot but for the first acquisition.        *)
Typed ==
  /\ TypeOK
  /\ mempools # <<>>
  /\ queue \in Seq(Requests)
  /\ current \in Seq(Requests)
  /\ client \in Asks => current[1].ask = client
  /\ client \notin {"idle", "acquire"} => acquired # None
  /\ client = "idle" => acquired = None

Ordered == InOrder(issued, queue, current, responses)

-----------------------------------------------------------------------------
(* What a step does to the requests that are queued, served and answered.   *)
Received ==
  \E r \in Requests :
    /\ r.id = issued + 1
    /\ issued' = issued + 1
    /\ queue' = Append(queue, r)
    /\ UNCHANGED <<mempools, client, current, eras, acquired, cursor, responses>>

Begun ==
  /\ queue # <<>> /\ current = <<>>
  /\ queue' = Tail(queue)
  /\ current' = <<Head(queue)>>
  /\ UNCHANGED <<issued, responses, mempools, acquired, cursor>>

Refused ==
  /\ queue # <<>> /\ current = <<>> /\ client = "idle"
  /\ queue' = Tail(queue)
  /\ \E r \in Response :
       /\ r.to = Head(queue).id /\ r.snapshot = None /\ r.ask # "acquire"
       /\ responses' = Append(responses, r)
  /\ UNCHANGED <<issued, mempools, client, current, eras, acquired, cursor>>

Answered ==
  /\ client \in Asks
  /\ current' = <<>>
  /\ client' = IF client = "release" THEN "idle" ELSE "acquired"
  /\ \E r \in Response :
       /\ r.to = current[1].id /\ r.ask = client /\ r.snapshot = acquired'
       /\ responses' = Append(responses, r)
  /\ UNCHANGED <<issued, queue, mempools>>

Silent == UNCHANGED <<issued, queue, current, responses>>

Shape == Received \/ Begun \/ Refused \/ Answered \/ Silent

LEMMA Serving ==
  ASSUME Typed
  PROVE  /\ client \notin Asks => current = <<>>
         /\ client \in Asks =>
              /\ current # <<>> /\ Len(current) = 1
              /\ current[1] \in Requests /\ current[1].ask = client
<1> Len(current) = (IF client \in Asks THEN 1 ELSE 0) /\ current \in Seq(Requests)
  BY DEF Typed, TypeOK
<1> QED
  BY EmptySeq DEF Typed

(* The node's mempool has a state, and so has the snapshot that is held.    *)
LEMMA Snapshots ==
  ASSUME Typed
  PROVE  /\ Now \in Nat \ {0} /\ DOMAIN mempools = 1 .. Now
         /\ acquired # None => acquired \in DOMAIN mempools
         /\ \A s \in DOMAIN mempools : mempools[s] \in Mempool /\ IdsOf(s) \in Seq(Nat)
<1>1. mempools \in Seq(Mempool) /\ mempools # <<>> /\ acquired \in 0 .. Len(mempools)
  BY DEF Typed, TypeOK, Now
<1>2. Len(mempools) \in Nat \ {0} /\ DOMAIN mempools = 1 .. Len(mempools)
  BY <1>1, EmptySeq, LenProperties
<1>3. acquired # None => acquired \in DOMAIN mempools
  BY <1>1, <1>2 DEF None
<1>4. \A s \in DOMAIN mempools : mempools[s] \in Mempool
  BY <1>1, <1>2, ElementOfSeq
<1>5. \A s \in DOMAIN mempools : IdsOf(s) \in Seq(Nat)
  BY <1>4 DEF Mempool, IdsOf
<1> QED
  BY <1>2, <1>3, <1>4, <1>5 DEF Now

(* An answer of Answer, with a value that can be one.                       *)
LEMMA AnswerShape ==
  ASSUME Typed, client \in Asks, NEW value \in Nat \cup {-1}, NEW s \in Nat,
         Answer(value, s), s = acquired',
         client' = IF client = "release" THEN "idle" ELSE "acquired",
         UNCHANGED <<issued, queue, mempools>>
  PROVE  Answered
<1>1. current[1] \in Requests /\ current[1].ask = client
  BY Serving
<1>2. [to |-> current[1].id, ask |-> current[1].ask, snapshot |-> s, value |-> value] \in Response
  BY <1>1 DEF Requests, Response
<1> QED
  BY <1>1, <1>2 DEF Answer, Respond, Served, Answered

LEMMA StepShape ==
  ASSUME Typed, [Next]_vars
  PROVE  Shape
<1> USE TxMonitorAssumption DEF Shape
<1>0. /\ Now \in Nat /\ acquired \in Nat /\ {0, 1} \subseteq Nat
      /\ acquired # None => IdsOf(acquired) \in Seq(Nat) /\ Len(IdsOf(acquired)) \in Nat
  BY Snapshots, LenProperties DEF Typed, TypeOK
<1>1. CASE Push
  <2>1. PICK ask \in Asks :
          queue' = Append(queue, [id |-> issued + 1, ask |-> ask, tx |-> 1])
    BY <1>1 DEF Push
  <2>2. [id |-> issued + 1, ask |-> ask, tx |-> 1] \in Requests
    BY DEF Requests, Typed, TypeOK
  <2> QED
    BY <1>1, <2>1, <2>2 DEF Push, Received
<1>2. CASE RefuseIdle
  <2>1. Head(queue) \in Requests
    BY <1>2, Popped DEF RefuseIdle, Typed
  <2>2. [to |-> Head(queue).id, ask |-> Head(queue).ask, snapshot |-> None,
         value |-> MustAcquireFirst] \in Response
    BY <2>1 DEF Requests, Response, None, MustAcquireFirst
  <2>3. "idle" \notin Asks
    BY DEF Asks
  <2> QED
    BY <1>2, <2>1, <2>2, <2>3, Serving DEF RefuseIdle, Respond, Refused, Dequeued
<1>3. CASE Serve
  <2>1. "idle" \notin Asks /\ "acquired" \notin Asks
    BY DEF Asks
  <2> QED
    BY <1>3, <2>1, Serving DEF Serve, Begun, Dequeued
<1>4. CASE OnAcquired
  BY <1>4, <1>0, AnswerShape DEF OnAcquired, Asks, Back
<1>5. CASE OnNextTx
  <2>1. acquired # None /\ cursor \in Nat
    BY <1>5 DEF OnNextTx, Typed, TypeOK
  <2>2. CASE cursor < Len(IdsOf(acquired))
    <3>1. cursor + 1 \in 1 .. Len(IdsOf(acquired))
      BY <1>0, <2>1, <2>2
    <3>2. IdsOf(acquired)[cursor + 1] \in Nat
      BY <1>0, <2>1, <3>1, ElementOfSeq
    <3> QED
      BY <1>5, <1>0, <2>2, <3>2, AnswerShape DEF OnNextTx, Asks, Back
  <2>3. CASE ~(cursor < Len(IdsOf(acquired)))
    BY <1>5, <1>0, <2>3, AnswerShape DEF OnNextTx, Asks, Back, NoTx
  <2> QED
    BY <2>2, <2>3
<1>6. CASE OnHasTx
  <2>1. CASE HasIt
    BY <1>6, <1>0, <2>1, AnswerShape DEF OnHasTx, Asks, Back
  <2>2. CASE ~HasIt
    BY <1>6, <2>2 DEF OnHasTx, Silent
  <2> QED
    BY <2>1, <2>2
<1>7. CASE HasNoMore
  BY <1>7, <1>0, AnswerShape DEF HasNoMore, Asks, Back
<1>8. CASE OnSizes
  BY <1>8, <1>0, AnswerShape DEF OnSizes, Asks, Back, Typed
<1>9. CASE OnReleased
  BY <1>9, <1>0, AnswerShape DEF OnReleased, Asks, None
<1>10. CASE NodeChanges \/ UNCHANGED vars
  BY <1>10 DEF NodeChanges, vars, Silent
<1> QED
  BY <1>1, <1>2, <1>3, <1>4, <1>5, <1>6, <1>7, <1>8, <1>9, <1>10 DEF Next, Client

-----------------------------------------------------------------------------
(* Requests are answered in the order of their ids.                         *)
LEMMA OrderStep ==
  ASSUME Typed, Ordered, Shape
  PROVE  Ordered'
<1> USE DEF Ordered
<1>1. /\ queue \in Seq(Requests) /\ current \in Seq(Requests) /\ responses \in Seq(Response)
      /\ issued \in Nat
  BY DEF Typed, TypeOK
<1>2. CASE Received
  BY <1>1, <1>2, OrderedByPush DEF Received
<1>3. CASE Begun
  BY <1>1, <1>3, OrderedByServe DEF Begun
<1>4. CASE Refused
  BY <1>1, <1>4, OrderedByRefusal DEF Refused
<1>5. CASE Answered
  BY <1>1, <1>5, Serving, OrderedByAnswer, ZenonT(40) DEF Answered
<1>6. CASE Silent
  BY <1>6 DEF Silent
<1> QED
  BY <1>2, <1>3, <1>4, <1>5, <1>6 DEF Shape

-----------------------------------------------------------------------------
(* A state of the mempool, the s'th: of an era that the node can be in, and *)
(* with different transactions, of those the node has accepted so far.      *)
Possible(m, s) ==
  /\ m.era \in Oldest .. Newest
  /\ \A p \in DOMAIN m.ids : m.ids[p] \in 1 .. s - 1
  /\ \A p, q \in DOMAIN m.ids : m.ids[p] = m.ids[q] => p = q

AllPossible == \A s \in DOMAIN mempools : Possible(mempools[s], s)

LEMMA NodeAccepts ==
  ASSUME Typed, AllPossible, Accept(Now)
  PROVE  \E m \in Mempool : Possible(m, Now + 1) /\ mempools' = Append(mempools, m)
<1> DEFINE old == mempools[Now]
           ids == Append(old.ids, Now)
           m   == [old EXCEPT !.ids = ids]
<1>1. /\ Now \in Nat \ {0} /\ Now \in DOMAIN mempools
      /\ old \in Mempool /\ Possible(old, Now)
  BY Snapshots DEF AllPossible
<1>2. mempools' = Append(mempools, m)
  BY DEF Accept
<1>3. old.ids \in Seq(Nat) /\ old = [era |-> old.era, ids |-> old.ids] /\ old.era \in Eras
  BY <1>1 DEF Mempool
<1>4. /\ ids \in Seq(Nat) /\ Len(old.ids) \in Nat
      /\ DOMAIN old.ids = 1 .. Len(old.ids) /\ DOMAIN ids = 1 .. Len(old.ids) + 1
      /\ \A p \in DOMAIN old.ids : ids[p] = old.ids[p]
      /\ ids[Len(old.ids) + 1] = Now
  BY <1>1, <1>3, Appended
<1> HIDE DEF ids
<1>5. m.era = old.era /\ m.ids = ids /\ m \in Mempool
  BY <1>3, <1>4 DEF Mempool
<1> HIDE DEF m, old
<1>6. \A p \in DOMAIN ids : p \in DOMAIN old.ids \/ p = Len(old.ids) + 1
  BY <1>4
<1>7. \A p \in DOMAIN old.ids : ids[p] \in 1 .. Now - 1
  BY <1>1, <1>4 DEF Possible
<1>8. \A p \in DOMAIN ids : ids[p] \in 1 .. Now + 1 - 1
  <2> TAKE p \in DOMAIN ids
  <2>1. ids[p] \in 1 .. Now - 1 \/ ids[p] = Now
    BY <1>4, <1>6, <1>7
  <2> QED
    BY <1>1, <2>1
<1>9. \A p, q \in DOMAIN ids : ids[p] = ids[q] => p = q
  <2> SUFFICES ASSUME NEW p \in DOMAIN ids, NEW q \in DOMAIN ids, ids[p] = ids[q]
               PROVE  p = q
    OBVIOUS
  <2>1. Now \notin 1 .. Now - 1
    BY <1>1
  <2>2. CASE p \in DOMAIN old.ids /\ q \in DOMAIN old.ids
    BY <1>1, <1>4, <2>2 DEF Possible
  <2>3. CASE ~(p \in DOMAIN old.ids /\ q \in DOMAIN old.ids)
    BY <1>4, <1>6, <1>7, <2>1, <2>3
  <2> QED
    BY <2>2, <2>3
<1>10. Possible(m, Now + 1)
  BY <1>1, <1>5, <1>8, <1>9 DEF Possible
<1> QED
  BY <1>2, <1>5, <1>10

LEMMA NodeAdopts ==
  ASSUME Typed, AllPossible, AdoptBlock
  PROVE  \E m \in Mempool : Possible(m, Now + 1) /\ mempools' = Append(mempools, m)
<1> DEFINE old == mempools[Now]
<1>1. /\ Now \in Nat \ {0} /\ Now \in DOMAIN mempools
      /\ old \in Mempool /\ Possible(old, Now)
  BY Snapshots DEF AllPossible
<1>2. old.ids \in Seq(Nat) /\ old.era \in Eras
  BY <1>1 DEF Mempool
<1>3. PICK left \in 0 .. Len(old.ids), era \in {old.era, old.era + 1} :
        /\ era <= Newest
        /\ mempools' = Append(mempools,
             [era |-> era, ids |-> SubSeq(old.ids, left + 1, Len(old.ids))])
  BY DEF AdoptBlock, LedgerEra
<1> DEFINE ids == SubSeq(old.ids, left + 1, Len(old.ids))
           m   == [era |-> era, ids |-> ids]
<1> HIDE DEF old
<1>4. Len(old.ids) \in Nat /\ left \in Nat /\ DOMAIN old.ids = 1 .. Len(old.ids)
  BY <1>2, LenProperties
<1>5. \A i \in left + 1 .. Len(old.ids) : old.ids[i] \in Nat
  BY <1>2, <1>4, ElementOfSeq
<1>6. /\ ids \in Seq(Nat)
      /\ Len(ids) = Len(old.ids) - left
      /\ \A p \in 1 .. Len(old.ids) - left : ids[p] = old.ids[left + p]
  BY <1>2, <1>4, <1>5
<1>7. DOMAIN ids = 1 .. Len(old.ids) - left
  BY <1>6, LenProperties
<1> HIDE DEF ids
<1>8. \A p \in DOMAIN ids : p \in Nat /\ left + p \in DOMAIN old.ids /\ ids[p] = old.ids[left + p]
  BY <1>4, <1>6, <1>7, SMTT(30)
<1>9. era \in Oldest .. Newest /\ era \in Eras
  <2>1. Oldest \in 0 .. 7 /\ Newest \in 0 .. 7 /\ Eras = 0 .. 7
    BY NodeAssumption DEF Eras, Dijkstra
  <2>2. old.era \in Oldest .. Newest
    BY <1>1 DEF Possible
  <2>3. (era = old.era \/ era = old.era + 1) /\ era <= Newest
    BY <1>3
  <2> QED
    BY <2>1, <2>2, <2>3, SMTT(30)
<1>10. \A p \in DOMAIN ids : ids[p] \in 1 .. Now + 1 - 1
  <2> TAKE p \in DOMAIN ids
  <2>1. ids[p] \in 1 .. Now - 1
    BY <1>1, <1>8 DEF Possible
  <2> QED
    BY <1>1, <2>1
<1>11. \A p, q \in DOMAIN ids : ids[p] = ids[q] => p = q
  <2> SUFFICES ASSUME NEW p \in DOMAIN ids, NEW q \in DOMAIN ids, ids[p] = ids[q]
               PROVE  p = q
    OBVIOUS
  <2>1. left + p = left + q
    BY <1>1, <1>8 DEF Possible
  <2> QED
    BY <1>4, <1>8, <2>1
<1>12. m \in Mempool /\ m.era = era /\ m.ids = ids
  BY <1>6, <1>9 DEF Mempool
<1> HIDE DEF m
<1>13. Possible(m, Now + 1)
  BY <1>1, <1>9, <1>10, <1>11, <1>12 DEF Possible
<1> QED
  BY <1>3, <1>12, <1>13 DEF ids, m

(* States of the mempool are never forgotten, nor changed.                  *)
Kept ==
  /\ Len(mempools) \in Nat /\ Len(mempools') \in Nat /\ Len(mempools) <= Len(mempools')
  /\ \A s \in DOMAIN mempools : s \in DOMAIN mempools' /\ mempools'[s] = mempools[s]

LEMMA MempoolStep ==
  ASSUME Typed, AllPossible, [Next]_vars
  PROVE  /\ mempools' \in Seq(Mempool) /\ mempools' # <<>>
         /\ AllPossible'
         /\ Kept
<1>1. mempools \in Seq(Mempool) /\ Now \in Nat \ {0} /\ DOMAIN mempools = 1 .. Now
  BY Snapshots DEF Typed, TypeOK
<1>2. CASE UNCHANGED mempools
  BY <1>1, <1>2 DEF Typed, AllPossible, Kept, Possible, Now
<1>3. CASE NodeChanges
  <2>1. PICK m \in Mempool : Possible(m, Now + 1) /\ mempools' = Append(mempools, m)
    BY <1>3, NodeAccepts, NodeAdopts DEF NodeChanges
  <2>2. /\ mempools' \in Seq(Mempool)
        /\ Len(mempools') = Now + 1
        /\ DOMAIN mempools' = 1 .. Now + 1
        /\ \A s \in DOMAIN mempools : s \in DOMAIN mempools' /\ mempools'[s] = mempools[s]
        /\ mempools'[Now + 1] = m
    BY <1>1, <2>1, Appended DEF Now
  <2>3. mempools' # <<>>
    BY <1>1, <2>2, EmptySeq
  <2>4. \A s \in DOMAIN mempools' : s \in DOMAIN mempools \/ s = Now + 1
    BY <1>1, <2>2
  <2>5. AllPossible'
    BY <2>1, <2>2, <2>4 DEF AllPossible, Possible
  <2> QED
    BY <1>1, <2>2, <2>3, <2>5 DEF Kept, Now
<1> QED
  BY <1>2, <1>3 DEF Next, Push, Client, RefuseIdle, Serve, OnAcquired, OnNextTx, OnHasTx,
                    HasNoMore, OnSizes, OnReleased, vars

-----------------------------------------------------------------------------
(* Every variable keeps its type.                                           *)
LEMMA ClientTyped ==
  ASSUME Typed, AllPossible, [Next]_vars
  PROVE  /\ client' \in Asks \cup {"idle", "acquired"}
         /\ client' \in Asks => current' # <<>> /\ current'[1].ask = client'
         /\ client' \notin Asks => current' = <<>>
         /\ client' \notin {"idle", "acquire"} => acquired' # None
         /\ client' = "idle" => acquired' = None
         /\ acquired' \in 0 .. Now'
         /\ cursor' \in Nat
<1> USE DEF None
<1>0. /\ Now \in Nat \ {0} /\ cursor \in Nat /\ acquired \in 0 .. Now
      /\ client \in Asks \cup {"idle", "acquired"}
      /\ client \notin {"idle", "acquire"} => acquired # None
      /\ client = "idle" => acquired = None
      /\ Now <= Now' /\ Now' \in Nat
  BY Snapshots, MempoolStep DEF Typed, TypeOK, Kept, Now
<1>1. acquired' \in 0 .. Now' /\ cursor' \in Nat
  BY <1>0 DEF Next, Client, vars, Push, RefuseIdle, Serve, OnAcquired, OnNextTx, OnHasTx,
              HasNoMore, OnSizes, OnReleased, NodeChanges, Now
<1>2. CASE UNCHANGED <<client, current, acquired>>
  BY <1>0, <1>1, <1>2, Serving
<1>3. CASE Serve
  <2>1. queue \in Seq(Requests) /\ queue # <<>>
    BY <1>3 DEF Serve, Typed
  <2>2. Head(queue) \in Requests
    BY <2>1, Popped
  <2>3. /\ client \in {"idle", "acquired"}
        /\ client = "idle" => Head(queue).ask = "acquire"
        /\ current' = <<Head(queue)>> /\ client' = Head(queue).ask /\ acquired' = acquired
    BY <1>3 DEF Serve
  <2>4. current'[1] = Head(queue) /\ current' # <<>>
    BY <2>3
  <2>5. client' \in Asks /\ client' # "idle" /\ client' # "acquired"
    BY <2>2, <2>3 DEF Requests, Asks
  <2>6. client' # "acquire" => acquired' # None
    BY <1>0, <2>3
  <2> QED
    BY <1>1, <2>3, <2>4, <2>5, <2>6
<1>4. CASE OnAcquired \/ OnNextTx \/ (OnHasTx /\ HasIt) \/ HasNoMore \/ OnSizes
  <2>1. client' = "acquired" /\ current' = <<>>
    BY <1>4 DEF OnAcquired, OnNextTx, OnHasTx, HasNoMore, OnSizes, Answer, Back, Served
  <2>2. acquired' # None
    BY <1>0, <1>4 DEF OnAcquired, OnNextTx, OnHasTx, HasNoMore, OnSizes
  <2>3. client' \notin Asks
    BY <2>1 DEF Asks
  <2> QED
    BY <1>1, <2>1, <2>2, <2>3
<1>5. CASE OnReleased
  <2>1. client' = "idle" /\ current' = <<>> /\ acquired' = None
    BY <1>5 DEF OnReleased, Answer, Served
  <2> QED
    BY <1>1, <2>1 DEF Asks
<1> QED
  BY <1>2, <1>3, <1>4, <1>5 DEF Next, Client, vars, Push, RefuseIdle, OnHasTx, NodeChanges

LEMMA TypeStep ==
  ASSUME Typed, AllPossible, [Next]_vars
  PROVE  Typed'
<1>1. /\ queue \in Seq(Requests) /\ current \in Seq(Requests) /\ responses \in Seq(Response)
      /\ issued \in Nat /\ eras \in Seq(Eras)
  BY DEF Typed, TypeOK
<1>2. /\ queue' \in Seq(Requests) /\ current' \in Seq(Requests)
      /\ responses' \in Seq(Response) /\ issued' \in Nat
  <2>1. CASE Received
    BY <1>1, <2>1, Appended DEF Received
  <2>2. CASE Begun
    BY <1>1, <2>2, Popped DEF Begun
  <2>3. CASE Refused
    BY <1>1, <2>3, Popped, Appended DEF Refused
  <2>4. CASE Answered
    BY <1>1, <2>4, Appended DEF Answered
  <2>5. CASE Silent
    BY <1>1, <2>5 DEF Silent
  <2> QED
    BY <2>1, <2>2, <2>3, <2>4, <2>5, StepShape DEF Shape
<1>3. eras' \in Seq(Eras)
  <2>1. InMultipleEras \in Seq(Eras) /\ <<>> \in Seq(Eras)
    BY DEF InMultipleEras, Eras, Conway, Babbage, Alonzo, Mary, Dijkstra
  <2>2. CASE OnHasTx
    BY <1>1, <2>1, <2>2, Popped DEF OnHasTx, Untried
  <2>3. CASE Serve
    BY <2>1, <2>3 DEF Serve
  <2>4. CASE UNCHANGED eras
    BY <1>1, <2>4
  <2> QED
    BY <2>2, <2>3, <2>4 DEF Next, Client, vars, Push, RefuseIdle, OnAcquired, OnNextTx,
                            HasNoMore, OnSizes, OnReleased, NodeChanges
<1>4. Len(current') = IF client' \in Asks THEN 1 ELSE 0
  <2>1. Len(current') <= 1
    <3>1. Len(current) <= 1
      BY DEF Typed, TypeOK
    <3>2. current' \in {current, <<>>} \/ \E x : current' = <<x>>
      BY StepShape DEF Shape, Received, Begun, Refused, Answered, Silent
    <3> QED
      BY <3>1, <3>2, EmptySeq
  <2>2. Len(current') \in Nat /\ (Len(current') = 0 <=> current' = <<>>)
    BY <1>2, EmptySeq, LenProperties
  <2> QED
    <3>1. CASE client' \in Asks
      BY <2>1, <2>2, <3>1, ClientTyped
    <3>2. CASE client' \notin Asks
      BY <2>2, <3>2, ClientTyped
    <3> QED
      BY <3>1, <3>2
<1>5. queue' \in Seq(Request)
  <2>1. Requests \subseteq Request
    BY DEF Requests, Request
  <2> QED
    BY <1>2, <2>1
<1> QED
  BY <1>2, <1>3, <1>4, <1>5, ClientTyped, MempoolStep DEF Typed, TypeOK

Held == Typed /\ AllPossible

LEMMA InitHeld == Init => Held
<1> SUFFICES ASSUME Init PROVE Held
  OBVIOUS
<1>1. PICK era \in Oldest .. Newest : mempools = <<[era |-> era, ids |-> <<>>]>>
  BY DEF Init, NodeInit
<1> DEFINE m == [era |-> era, ids |-> <<>>]
<1>2. m \in Mempool /\ Possible(m, 1)
  BY NodeAssumption DEF Mempool, Possible, Eras, Dijkstra
<1> HIDE DEF m
<1>3. mempools = <<m>>
  BY <1>1 DEF m
<1>4. mempools \in Seq(Mempool) /\ Len(mempools) = 1 /\ DOMAIN mempools = {1}
      /\ mempools[1] = m /\ mempools # <<>>
  BY <1>2, <1>3
<1>5. AllPossible
  BY <1>2, <1>4 DEF AllPossible
<1>6. Typed
  BY <1>4 DEF Init, Typed, TypeOK, Now, None, Asks
<1> QED
  BY <1>5, <1>6 DEF Held

(* Client, node and program agree on what is going on: a request that needs *)
(* a snapshot goes to the node only when one is held, and every request is  *)
(* answered once, in the order in which they came.                          *)
THEOREM InStepCorrect == Spec => []InStep
<1>1. Init => Held /\ Ordered
  BY InitHeld DEF Init, Ordered, InOrder
<1>2. Held /\ Ordered /\ [Next]_vars => (Held /\ Ordered)'
  BY TypeStep, OrderStep, StepShape, MempoolStep DEF Held
<1>3. Held /\ Ordered => InStep
  BY DEF InStep, Held, Typed, Ordered, AnsweredInOrder, InOrder
<1> QED
  BY <1>1, <1>2, <1>3, PTL DEF Spec

-----------------------------------------------------------------------------
(* What is said to the client of the WebSocket.                             *)

(* hasTransaction finds a transaction of the era Mary, or a later one.      *)
Found(s) == InSnapshot(1, s) /\ mempools[s].era >= Mary

Declined(r) ==
  /\ r.snapshot = None /\ r.ask # "acquire"
  /\ acquired = None /\ UNCHANGED <<acquired, cursor>>

Acquires(r) ==
  /\ r.ask = "acquire" /\ r.snapshot = Now
  /\ acquired' = Now /\ cursor' = 0 /\ acquired # Now

Releases(r) == r.ask = "release" /\ r.snapshot = None /\ acquired' = None

Pulls(r) ==
  /\ r.ask = "next" /\ r.snapshot = acquired /\ acquired' = acquired /\ acquired # None
  /\ \/ r.value = NoTx /\ cursor' = cursor
     \/ /\ cursor + 1 \in DOMAIN IdsOf(acquired)
        /\ r.value = IdsOf(acquired)[cursor + 1]
        /\ cursor' = cursor + 1

Looks(r) ==
  /\ r.ask \in {"has", "size"} /\ client = r.ask
  /\ r.snapshot = acquired /\ acquired # None /\ UNCHANGED <<acquired, cursor>>
  /\ r.ask = "size" => r.value = Len(IdsOf(acquired))
  /\ r.ask = "has" =>
       \/ r.value = 1 /\ InSnapshot(1, acquired) /\ mempools[acquired].era = eras[1]
                      /\ eras # <<>>
       \/ r.value = 0 /\ eras = <<>>

Says(r) == Declined(r) \/ Acquires(r) \/ Releases(r) \/ Pulls(r) \/ Looks(r)

LEMMA AnswerIs ==
  ASSUME Typed, client \in Asks, NEW value \in Nat \cup {-1}, NEW s \in Nat,
         Answer(value, s)
  PROVE  \E r \in Response : /\ responses' = Append(responses, r)
                             /\ r.ask = client /\ r.value = value /\ r.snapshot = s
<1> DEFINE r == [to |-> current[1].id, ask |-> current[1].ask, snapshot |-> s, value |-> value]
<1>1. current[1] \in Requests /\ current[1].ask = client
  BY Serving
<1>2. r \in Response /\ r.ask = client /\ r.value = value /\ r.snapshot = s
  BY <1>1 DEF Requests, Response
<1>3. responses' = Append(responses, r)
  BY DEF Answer, Respond
<1> QED
  BY <1>2, <1>3

LEMMA Spoken ==
  ASSUME Typed, [Next]_vars
  PROVE  \/ UNCHANGED <<responses, acquired, cursor>>
         \/ \E r \in Response : responses' = Append(responses, r) /\ Says(r)
<1> USE DEF Says
<1>0. /\ Now \in Nat /\ acquired \in Nat /\ cursor \in Nat
      /\ client \notin {"idle", "acquire"} => acquired # None
      /\ client = "idle" => acquired = None
      /\ acquired # None => IdsOf(acquired) \in Seq(Nat) /\ Len(IdsOf(acquired)) \in Nat
                            /\ DOMAIN IdsOf(acquired) = 1 .. Len(IdsOf(acquired))
  BY Snapshots, LenProperties DEF Typed, TypeOK
<1>1. CASE RefuseIdle
  <2>1. PICK r \in Response :
          /\ r.snapshot = None /\ r.ask # "acquire" /\ responses' = Append(responses, r)
    <3>1. Head(queue) \in Requests
      BY <1>1, Popped DEF RefuseIdle, Typed
    <3>2. [to |-> Head(queue).id, ask |-> Head(queue).ask, snapshot |-> None,
           value |-> MustAcquireFirst] \in Response
      BY <3>1 DEF Requests, Response, None, MustAcquireFirst
    <3> QED
      BY <1>1, <3>2 DEF RefuseIdle, Respond
  <2>2. Declined(r)
    BY <1>0, <1>1, <2>1 DEF RefuseIdle, Declined
  <2> QED
    BY <2>1, <2>2
<1>2. CASE OnAcquired
  <2>1. client \in Asks /\ Answer(Now, Now) /\ client = "acquire"
    BY <1>2 DEF OnAcquired, Asks
  <2>2. PICK r \in Response : /\ responses' = Append(responses, r)
                              /\ r.ask = client /\ r.value = Now /\ r.snapshot = Now
    BY <1>0, <2>1, AnswerIs
  <2>3. acquired # Now
    BY <1>2, Snapshots DEF OnAcquired, Reacquire, None
  <2>4. Acquires(r)
    BY <1>2, <2>1, <2>2, <2>3 DEF OnAcquired, Acquires
  <2> QED
    BY <2>2, <2>4
<1>3. CASE OnNextTx
  <2>1. client = "next" /\ client \in Asks /\ acquired # None /\ acquired' = acquired
    BY <1>0, <1>3 DEF OnNextTx, Asks
  <2>2. CASE cursor < Len(IdsOf(acquired))
    <3>1. cursor + 1 \in DOMAIN IdsOf(acquired)
      BY <1>0, <2>1, <2>2
    <3>2. IdsOf(acquired)[cursor + 1] \in Nat
      BY <1>0, <2>1, <3>1, ElementOfSeq
    <3>3. cursor' = cursor + 1 /\ Answer(IdsOf(acquired)[cursor + 1], acquired)
      BY <1>3, <2>2 DEF OnNextTx
    <3>4. PICK r \in Response :
            /\ responses' = Append(responses, r)
            /\ r.ask = client /\ r.value = IdsOf(acquired)[cursor + 1]
            /\ r.snapshot = acquired
      BY <1>0, <2>1, <3>2, <3>3, AnswerIs
    <3>5. Pulls(r)
      BY <2>1, <3>1, <3>3, <3>4 DEF Pulls
    <3> QED
      BY <3>4, <3>5
  <2>3. CASE ~(cursor < Len(IdsOf(acquired)))
    <3>1. cursor' = cursor /\ Answer(NoTx, acquired) /\ NoTx \in Nat
      BY <1>3, <2>3 DEF OnNextTx, NoTx
    <3>2. PICK r \in Response :
            /\ responses' = Append(responses, r)
            /\ r.ask = client /\ r.value = NoTx /\ r.snapshot = acquired
      BY <1>0, <2>1, <3>1, AnswerIs
    <3>3. Pulls(r)
      BY <2>1, <3>1, <3>2 DEF Pulls
    <3> QED
      BY <3>2, <3>3
  <2> QED
    BY <2>2, <2>3
<1>4. CASE OnHasTx /\ HasIt
  <2>1. client = "has" /\ client \in Asks /\ acquired # None /\ UNCHANGED <<acquired, cursor>>
    BY <1>0, <1>4 DEF OnHasTx, Asks
  <2>2. PICK r \in Response : /\ responses' = Append(responses, r)
                              /\ r.ask = client /\ r.value = 1 /\ r.snapshot = acquired
    BY <1>0, <1>4, <2>1, AnswerIs DEF OnHasTx
  <2>3. current[1].tx = 1
    BY <2>1, Serving DEF Requests
  <2>4. eras # <<>> /\ Head(eras) = eras[1] /\ mempools[acquired].era = Head(eras)
        /\ InSnapshot(1, acquired)
    BY <1>4, <2>3, Popped DEF OnHasTx, HasIt, Typed, TypeOK
  <2>5. Looks(r)
    BY <2>1, <2>2, <2>4 DEF Looks
  <2> QED
    BY <2>2, <2>5
<1>5. CASE HasNoMore
  <2>1. client = "has" /\ client \in Asks /\ acquired # None /\ UNCHANGED <<acquired, cursor>>
    BY <1>0, <1>5 DEF HasNoMore, Asks
  <2>2. PICK r \in Response : /\ responses' = Append(responses, r)
                              /\ r.ask = client /\ r.value = 0 /\ r.snapshot = acquired
    BY <1>0, <1>5, <2>1, AnswerIs DEF HasNoMore
  <2>3. Looks(r)
    BY <1>5, <2>1, <2>2 DEF Looks, HasNoMore
  <2> QED
    BY <2>2, <2>3
<1>6. CASE OnSizes
  <2>1. client = "size" /\ client \in Asks /\ acquired # None /\ UNCHANGED <<acquired, cursor>>
    BY <1>0, <1>6 DEF OnSizes, Asks
  <2>2. PICK r \in Response : /\ responses' = Append(responses, r)
                              /\ r.ask = client /\ r.value = Len(IdsOf(acquired))
                              /\ r.snapshot = acquired
    BY <1>0, <1>6, <2>1, AnswerIs DEF OnSizes
  <2>3. Looks(r)
    BY <2>1, <2>2 DEF Looks
  <2> QED
    BY <2>2, <2>3
<1>7. CASE OnReleased
  <2>1. client = "release" /\ client \in Asks /\ acquired' = None /\ Answer(0, None)
        /\ None \in Nat
    BY <1>7 DEF OnReleased, Asks, None
  <2>2. PICK r \in Response : /\ responses' = Append(responses, r)
                              /\ r.ask = client /\ r.value = 0 /\ r.snapshot = None
    BY <2>1, AnswerIs
  <2>3. Releases(r)
    BY <2>1, <2>2 DEF Releases
  <2> QED
    BY <2>2, <2>3
<1> QED
  BY <1>1, <1>2, <1>3, <1>4, <1>5, <1>6, <1>7
     DEF Next, Client, vars, Push, Serve, OnHasTx, NodeChanges

(* The search of hasTransaction ends at the era of the snapshot, if that    *)
(* is one of those it goes through.                                         *)
Searching ==
  client = "has" =>
    /\ \A k \in DOMAIN eras : eras[k] >= Mary
    /\ Found(acquired) => \E k \in DOMAIN eras : eras[k] = mempools[acquired].era

LEMMA SearchStep ==
  ASSUME Typed, AllPossible, Searching, [Next]_vars
  PROVE  Searching'
<1> SUFFICES ASSUME client' = "has"
             PROVE  /\ \A k \in DOMAIN eras' : eras'[k] >= Mary
                    /\ Found(acquired)' =>
                         \E k \in DOMAIN eras' : eras'[k] = mempools'[acquired'].era
  BY DEF Searching
<1>1. CASE Serve
  <2>1. UNCHANGED <<mempools, acquired>> /\ eras' = InMultipleEras
    BY <1>1 DEF Serve
  <2>2. acquired # None /\ mempools[acquired].era \in Eras
    BY <1>1, <2>1, Snapshots, ClientTyped DEF Mempool
  <2>3. DOMAIN InMultipleEras = 1 .. 5
    BY DEF InMultipleEras
  <2>4. \A k \in 1 .. 5 : InMultipleEras[k] >= Mary
    BY DEF InMultipleEras, Mary, Alonzo, Babbage, Conway, Dijkstra
  <2>5. \A era \in Eras : era >= Mary => \E k \in 1 .. 5 : InMultipleEras[k] = era
    <3> SUFFICES ASSUME NEW era \in Eras, era >= Mary
                 PROVE  \E k \in 1 .. 5 : InMultipleEras[k] = era
      OBVIOUS
    <3>1. era \in {3, 4, 5, 6, 7}
      BY DEF Eras, Dijkstra, Mary
    <3>2. /\ InMultipleEras[1] = 6 /\ InMultipleEras[2] = 5 /\ InMultipleEras[3] = 4
          /\ InMultipleEras[4] = 3 /\ InMultipleEras[5] = 7
      BY DEF InMultipleEras, Mary, Alonzo, Babbage, Conway, Dijkstra
    <3> QED
      BY <3>1, <3>2
  <2>6. Found(acquired)' => mempools[acquired].era >= Mary
    BY <2>1 DEF Found
  <2> QED
    BY <2>1, <2>2, <2>3, <2>4, <2>5, <2>6
<1>2. CASE OnHasTx
  <2>1. client = "has" /\ eras # <<>> /\ ~HasIt /\ eras' = Tail(eras)
        /\ UNCHANGED <<mempools, acquired>>
    BY <1>2 DEF OnHasTx, Back, Untried
  <2>2. eras \in Seq(Eras) /\ current[1].tx = 1
    BY <2>1, Serving DEF Typed, TypeOK, Requests, Asks
  <2>3. /\ Head(eras) = eras[1]
        /\ Len(eras) \in Nat /\ Len(Tail(eras)) = Len(eras) - 1 /\ Tail(eras) \in Seq(Eras)
        /\ \A k \in DOMAIN Tail(eras) :
             k \in Nat /\ k + 1 \in DOMAIN eras /\ Tail(eras)[k] = eras[k + 1]
    BY <2>1, <2>2, Popped
  <2>4. DOMAIN eras = 1 .. Len(eras) /\ DOMAIN Tail(eras) = 1 .. Len(eras) - 1
    BY <2>2, <2>3, LenProperties
  <2>5. \A k \in DOMAIN eras' : eras'[k] >= Mary
    BY <2>1, <2>3 DEF Searching
  <2>6. ASSUME Found(acquired)'
        PROVE  \E k \in DOMAIN eras' : eras'[k] = mempools'[acquired'].era
    <3>1. Found(acquired)
      BY <2>1, <2>6 DEF Found, InSnapshot, IdsOf
    <3>2. PICK k \in DOMAIN eras : eras[k] = mempools[acquired].era
      BY <2>1, <3>1 DEF Searching
    <3>3. k # 1
      BY <2>1, <2>2, <2>3, <3>1, <3>2 DEF HasIt, Found
    <3>4. k - 1 \in DOMAIN Tail(eras) /\ k - 1 + 1 = k
      BY <2>3, <2>4, <3>3
    <3>5. Tail(eras)[k - 1] = mempools[acquired].era
      BY <2>3, <3>2, <3>4
    <3> QED
      BY <2>1, <3>4, <3>5
  <2> QED
    BY <2>5, <2>6
<1>3. CASE UNCHANGED <<client, eras, acquired>>
  <2>1. client = "has" /\ acquired \in DOMAIN mempools
    BY <1>3, Snapshots DEF Typed
  <2>2. mempools'[acquired'] = mempools[acquired]
    BY <1>3, <2>1, MempoolStep DEF Kept
  <2>3. Found(acquired)' => Found(acquired)
    BY <1>3, <2>2 DEF Found, InSnapshot, IdsOf
  <2> QED
    BY <1>3, <2>1, <2>2, <2>3 DEF Searching
<1> QED
  BY <1>1, <1>2, <1>3
     DEF Next, Client, vars, Push, RefuseIdle, OnAcquired, OnNextTx, HasNoMore, OnSizes,
         OnReleased, NodeChanges, Back

-----------------------------------------------------------------------------
(* A response about a snapshot, but the one that says which it is, tells    *)
(* what the mempool was when it was taken.                                  *)
Truth(r) ==
  /\ r.snapshot \in DOMAIN mempools
  /\ r.ask # "release"
  /\ r.ask = "size" => r.value = Len(IdsOf(r.snapshot))
  /\ r.ask = "has"  => r.value = IF Found(r.snapshot) THEN 1 ELSE 0
  /\ r.ask = "next" => r.value = NoTx \/ InSnapshot(r.value, r.snapshot)

Truthful ==
  \A i \in DOMAIN responses : responses[i].snapshot # None => Truth(responses[i])

(* The last response is about the snapshot that is held.                    *)
LastIsHeld ==
  responses # <<>> => responses[Len(responses)].snapshot = acquired

LEMMA SaysTruth ==
  ASSUME Typed, Searching, NEW r \in Response, Says(r), r.snapshot # None
  PROVE  Truth(r)
<1>1. /\ Now \in DOMAIN mempools
      /\ acquired # None => acquired \in DOMAIN mempools
  BY Snapshots
<1>2. CASE Acquires(r)
  BY <1>1, <1>2 DEF Acquires, Truth
<1>3. CASE Pulls(r)
  BY <1>1, <1>3 DEF Pulls, Truth, InSnapshot
<1>4. CASE Looks(r)
  <2>1. r.ask \in {"has", "size"} /\ r.snapshot = acquired /\ acquired \in DOMAIN mempools
    BY <1>1, <1>4 DEF Looks
  <2>2. CASE r.ask = "size"
    BY <1>4, <2>1, <2>2 DEF Looks, Truth
  <2>3. CASE r.ask = "has" /\ eras = <<>>
    <3>1. ~Found(acquired) \/ client # "has"
      BY <2>3, EmptySeq DEF Searching
    <3>2. r.value = 0 /\ client = "has"
      BY <1>4, <2>3 DEF Looks
    <3> QED
      BY <2>1, <2>3, <3>1, <3>2 DEF Truth
  <2>4. CASE r.ask = "has" /\ eras # <<>>
    <3>1. /\ r.value = 1 /\ InSnapshot(1, acquired) /\ mempools[acquired].era = eras[1]
          /\ client = "has"
      BY <1>4, <2>4 DEF Looks
    <3>2. 1 \in DOMAIN eras
      BY <2>4, Popped DEF Typed, TypeOK
    <3>3. Found(acquired)
      BY <3>1, <3>2 DEF Searching, Found
    <3> QED
      BY <2>1, <2>4, <3>1, <3>3 DEF Truth
  <2> QED
    BY <2>1, <2>2, <2>3, <2>4
<1> QED
  BY <1>2, <1>3, <1>4 DEF Says, Declined, Releases

LEMMA TruthStep ==
  ASSUME Typed, AllPossible, Searching, Truthful, LastIsHeld, [Next]_vars
  PROVE  Truthful' /\ LastIsHeld'
<1>1. responses \in Seq(Response) /\ Kept
  BY MempoolStep DEF Typed, TypeOK
<1>2. \A s \in DOMAIN mempools :
        /\ s \in DOMAIN mempools' /\ IdsOf(s)' = IdsOf(s)
        /\ Found(s)' = Found(s)
        /\ \A v : InSnapshot(v, s)' = InSnapshot(v, s)
  BY <1>1 DEF Kept, Found, InSnapshot, IdsOf
<1>3. ASSUME NEW i \in DOMAIN responses, responses'[i] = responses[i],
             responses'[i].snapshot # None
      PROVE  Truth(responses[i])'
  <2>1. Truth(responses[i])
    BY <1>3 DEF Truthful
  <2> QED
    BY <1>2, <1>3, <2>1 DEF Truth
<1>4. CASE UNCHANGED <<responses, acquired, cursor>>
  BY <1>3, <1>4 DEF Truthful, LastIsHeld
<1>5. ASSUME NEW r \in Response, responses' = Append(responses, r), Says(r)
      PROVE  Truthful' /\ LastIsHeld'
  <2>1. /\ DOMAIN responses' = 1 .. Len(responses) + 1 /\ DOMAIN responses = 1 .. Len(responses)
        /\ Len(responses') = Len(responses) + 1 /\ Len(responses) \in Nat
        /\ \A i \in DOMAIN responses : responses'[i] = responses[i]
        /\ responses'[Len(responses) + 1] = r
    BY <1>1, <1>5, Appended
  <2>2. LastIsHeld'
    <3>1. r.snapshot = acquired'
      BY <1>5 DEF Says, Declined, Acquires, Releases, Pulls, Looks
    <3> QED
      BY <2>1, <3>1 DEF LastIsHeld
  <2>3. ASSUME NEW i \in DOMAIN responses', responses'[i].snapshot # None
        PROVE  Truth(responses[i])'
    <3>1. CASE i \in DOMAIN responses
      BY <1>3, <2>1, <2>3, <3>1
    <3>2. CASE i = Len(responses) + 1
      <4>1. responses'[i] = r /\ Truth(r)
        BY <1>5, <2>1, <2>3, <3>2, SaysTruth
      <4> QED
        BY <1>2, <4>1 DEF Truth
    <3> QED
      BY <2>1, <3>1, <3>2
  <2> QED
    BY <2>2, <2>3 DEF Truthful
<1> QED
  BY <1>4, <1>5, Spoken

-----------------------------------------------------------------------------
(* Of two responses about one snapshot: it was acquired once, and a         *)
(* transaction is pulled once; what was pulled is behind the cursor.        *)
Apart(x, y) ==
  /\ ~(x.ask = "acquire" /\ y.ask = "acquire")
  /\ x.ask = "next" /\ y.ask = "next" => x.value # y.value \/ y.value = NoTx

PairsApart ==
  \A i, j \in DOMAIN responses :
    i < j /\ responses[i].snapshot # None /\ SameSnapshot(i, j)
      => Apart(responses[i], responses[j])

Behind(v) ==
  v = NoTx \/ \E p \in DOMAIN IdsOf(acquired) : p <= cursor /\ IdsOf(acquired)[p] = v

Pulled ==
  acquired # None =>
    \A i \in DOMAIN responses :
      responses[i].ask = "next" /\ responses[i].snapshot = acquired
        /\ SameSnapshot(i, Len(responses)) => Behind(responses[i].value)

(* An id that is pulled is another than those pulled before.                *)
LEMMA PullsAnother ==
  ASSUME Typed, AllPossible, acquired # None, NEW v, Behind(v),
         cursor + 1 \in DOMAIN IdsOf(acquired)
  PROVE  v # IdsOf(acquired)[cursor + 1]
<1>1. acquired \in DOMAIN mempools /\ IdsOf(acquired) \in Seq(Nat)
  BY Snapshots
<1>2. Possible(mempools[acquired], acquired) /\ IdsOf(acquired) = mempools[acquired].ids
  BY <1>1 DEF AllPossible, IdsOf
<1>3. IdsOf(acquired)[cursor + 1] # NoTx
  BY <1>2 DEF Possible, NoTx
<1>4. ASSUME NEW p \in DOMAIN IdsOf(acquired), p <= cursor, IdsOf(acquired)[p] = v
      PROVE  v # IdsOf(acquired)[cursor + 1]
  <2>1. p # cursor + 1
    BY <1>1, <1>4, LenProperties DEF Typed, TypeOK
  <2> QED
    BY <1>2, <1>4, <2>1 DEF Possible
<1> QED
  BY <1>3, <1>4 DEF Behind

LEMMA PulledStep ==
  ASSUME Typed, AllPossible, LastIsHeld, Pulled, PairsApart, [Next]_vars
  PROVE  Pulled' /\ PairsApart'
<1>1. responses \in Seq(Response) /\ Kept /\ cursor \in Nat
  BY MempoolStep DEF Typed, TypeOK
<1>2. acquired # None /\ acquired' = acquired => IdsOf(acquired)' = IdsOf(acquired)
  BY <1>1, Snapshots DEF Kept, IdsOf
<1>3. CASE UNCHANGED <<responses, acquired, cursor>>
  <2>1. acquired # None => IdsOf(acquired)' = IdsOf(acquired)
    BY <1>2, <1>3
  <2> QED
    BY <1>3, <2>1 DEF Pulled, PairsApart, Apart, SameSnapshot, Behind
<1>4. ASSUME NEW r \in Response, responses' = Append(responses, r), Says(r)
      PROVE  Pulled' /\ PairsApart'
  <2> DEFINE n == Len(responses)
  <2>1. /\ DOMAIN responses' = 1 .. n + 1 /\ DOMAIN responses = 1 .. n
        /\ Len(responses') = n + 1 /\ n \in Nat
        /\ \A i \in DOMAIN responses : responses'[i] = responses[i]
        /\ responses'[n + 1] = r
    BY <1>1, <1>4, Appended
  <2> HIDE DEF n
  <2>2. r.snapshot = acquired'
    BY <1>4 DEF Says, Declined, Acquires, Releases, Pulls, Looks
  (* A response about the snapshot that r is about: the same was held.      *)
  <2>3. ASSUME NEW i \in 1 .. n, responses[i].snapshot # None,
               \A k \in i .. n + 1 : responses'[k].snapshot = responses'[i].snapshot
        PROVE  /\ SameSnapshot(i, n) /\ n \in DOMAIN responses
               /\ responses[i].snapshot = acquired /\ acquired' = acquired
               /\ ~Acquires(r)
    <3>1. i \in i .. n + 1 /\ n \in i .. n + 1 /\ n + 1 \in i .. n + 1 /\ n \in 1 .. n
      BY <2>1
    <3>2. \A k \in i .. n : k \in i .. n + 1 /\ k \in DOMAIN responses
      BY <2>1
    <3>3. SameSnapshot(i, n)
      BY <2>1, <2>3, <3>2 DEF SameSnapshot
    <3>4. responses[n].snapshot = responses[i].snapshot /\ r.snapshot = responses[i].snapshot
      BY <2>1, <2>3, <3>1
    <3>5. responses[n].snapshot = acquired
      BY <2>1, <3>1, EmptySeq DEF LastIsHeld, n
    <3> QED
      BY <2>1, <2>2, <3>1, <3>3, <3>4, <3>5 DEF Acquires
  <2>4. ASSUME NEW i \in DOMAIN responses', acquired' # None,
               responses'[i].ask = "next", responses'[i].snapshot = acquired',
               SameSnapshot(i, Len(responses))'
        PROVE  Behind(responses[i].value)'
    <3>1. CASE i = n + 1
      <4>1. Pulls(r)
        BY <1>4, <2>1, <2>4, <3>1 DEF Says, Declined, Acquires, Releases, Looks, None
      <4>2. acquired' = acquired /\ acquired # None /\ IdsOf(acquired)' = IdsOf(acquired)
        BY <1>2, <4>1 DEF Pulls
      <4> QED
        BY <1>1, <2>1, <3>1, <4>1, <4>2 DEF Pulls, Behind
    <3>2. CASE i \in 1 .. n
      <4>1. /\ SameSnapshot(i, n) /\ responses[i].snapshot = acquired /\ acquired' = acquired
            /\ responses'[i] = responses[i] /\ ~Acquires(r)
        BY <2>1, <2>3, <2>4, <3>2 DEF SameSnapshot
      <4>2. Behind(responses[i].value)
        BY <2>1, <2>4, <3>2, <4>1 DEF Pulled, n
      <4>3. IdsOf(acquired)' = IdsOf(acquired) /\ cursor <= cursor' /\ cursor' \in Nat
        BY <1>1, <1>2, <1>4, <2>4, <4>1 DEF Says, Declined, Releases, Pulls, Looks
      <4>4. IdsOf(acquired) \in Seq(Nat)
        BY <2>4, <4>1, Snapshots
      <4>5. \A p \in DOMAIN IdsOf(acquired) : p <= cursor => p <= cursor'
        BY <1>1, <4>3, <4>4, LenProperties
      <4> QED
        BY <4>1, <4>2, <4>3, <4>5 DEF Behind
    <3> QED
      BY <2>1, <3>1, <3>2
  <2>5. ASSUME NEW i \in DOMAIN responses', NEW j \in DOMAIN responses', i < j,
               responses'[i].snapshot # None, SameSnapshot(i, j)'
        PROVE  Apart(responses[i], responses[j])'
    <3>1. CASE j \in 1 .. n
      <4>1. i \in 1 .. n /\ \A k \in i .. j : k \in 1 .. n
        BY <2>1, <2>5, <3>1
      <4>2. SameSnapshot(i, j)
        BY <2>1, <2>5, <4>1 DEF SameSnapshot
      <4> QED
        BY <2>1, <2>5, <3>1, <4>1, <4>2 DEF PairsApart, Apart
    <3>2. CASE j = n + 1
      <4>1. i \in 1 .. n /\ responses'[i] = responses[i] /\ responses'[j] = r
        BY <2>1, <2>5, <3>2
      <4>2. /\ SameSnapshot(i, n) /\ responses[i].snapshot = acquired /\ acquired' = acquired
            /\ ~Acquires(r)
        BY <2>3, <2>5, <3>2, <4>1 DEF SameSnapshot
      <4>3. r.ask # "acquire"
        BY <1>4, <4>2 DEF Says, Declined, Releases, Pulls, Looks
      <4>4. ASSUME responses[i].ask = "next", r.ask = "next"
            PROVE  responses[i].value # r.value \/ r.value = NoTx
        <5>1. acquired # None /\ Behind(responses[i].value)
          BY <2>1, <2>5, <4>1, <4>2, <4>4 DEF Pulled, n
        <5>2. Pulls(r)
          BY <1>4, <4>4, <5>1 DEF Says, Declined, Acquires, Releases, Looks
        <5> QED
          BY <5>1, <5>2, PullsAnother DEF Pulls
      <4> QED
        BY <4>1, <4>3, <4>4 DEF Apart
    <3> QED
      BY <2>1, <3>1, <3>2
  <2> QED
    BY <2>4, <2>5 DEF Pulled, PairsApart
<1> QED
  BY <1>3, <1>4, Spoken

-----------------------------------------------------------------------------
(* A snapshot acquired since the last release is not newer than the one     *)
(* that is held.                                                            *)
Unreleased(i, j) == \A k \in i .. j : responses[k].ask # "release"

Newer ==
  \A i \in DOMAIN responses :
    responses[i].ask = "acquire" /\ Unreleased(i, Len(responses))
      => responses[i].snapshot <= acquired

LEMMA NewerStep ==
  ASSUME Typed, AllPossible, Newer, NewSnapshots, [Next]_vars
  PROVE  Newer' /\ NewSnapshots'
<1>1. responses \in Seq(Response) /\ acquired \in 0 .. Now /\ Now \in Nat \ {0}
  BY Snapshots DEF Typed, TypeOK
<1>2. CASE UNCHANGED <<responses, acquired, cursor>>
  BY <1>2 DEF Newer, NewSnapshots, Unreleased
<1>3. ASSUME NEW r \in Response, responses' = Append(responses, r), Says(r)
      PROVE  Newer' /\ NewSnapshots'
  <2> DEFINE n == Len(responses)
  <2>1. /\ DOMAIN responses' = 1 .. n + 1 /\ DOMAIN responses = 1 .. n
        /\ Len(responses') = n + 1 /\ n \in Nat
        /\ \A i \in DOMAIN responses : responses'[i] = responses[i]
        /\ responses'[n + 1] = r
    BY <1>1, <1>3, Appended
  <2>2. \A i \in 1 .. n : responses[i].snapshot \in Nat
    <3>1. \A i \in 1 .. n : responses[i] \in Response
      BY <1>1, <2>1, ElementOfSeq
    <3> QED
      BY <3>1 DEF Response
  <2> HIDE DEF n
  (* r is no release, and what was acquired before it is no newer than what *)
  (* is held.                                                               *)
  <2>3. ASSUME NEW i \in 1 .. n, responses[i].ask = "acquire",
               \A k \in i .. n + 1 : responses'[k].ask # "release"
        PROVE  r.ask # "release" /\ responses[i].snapshot <= acquired
    <3>1. \A k \in i .. n : k \in i .. n + 1 /\ k \in DOMAIN responses
      BY <2>1
    <3>2. Unreleased(i, Len(responses))
      BY <2>1, <2>3, <3>1 DEF Unreleased, n
    <3>3. n + 1 \in i .. n + 1
      BY <2>1
    <3> QED
      BY <2>1, <2>3, <3>2, <3>3 DEF Newer
  <2>4. ASSUME r.ask # "release"
        PROVE  /\ acquired <= acquired' /\ acquired' \in Nat
               /\ r.ask = "acquire" => r.snapshot = acquired' /\ acquired < acquired'
    BY <1>1, <1>3, <2>4 DEF Says, Declined, Acquires, Releases, Pulls, Looks
  <2>5. ASSUME NEW i \in DOMAIN responses', responses'[i].ask = "acquire",
               Unreleased(i, Len(responses))'
        PROVE  responses'[i].snapshot <= acquired'
    <3>1. \A k \in i .. n + 1 : responses'[k].ask # "release"
      BY <2>1, <2>5 DEF Unreleased
    <3>2. CASE i = n + 1
      BY <2>1, <2>4, <2>5, <3>2
    <3>3. CASE i \in 1 .. n
      <4>1. responses'[i] = responses[i] /\ responses[i].snapshot \in Nat
        BY <2>1, <2>2, <3>3
      <4>2. r.ask # "release" /\ responses[i].snapshot <= acquired
        BY <2>3, <2>5, <3>1, <3>3, <4>1
      <4> QED
        BY <1>1, <2>4, <4>1, <4>2
    <3> QED
      BY <2>1, <3>2, <3>3
  <2>6. ASSUME NEW i \in DOMAIN responses', NEW j \in DOMAIN responses', i < j,
               responses'[i].ask = "acquire", responses'[j].ask = "acquire",
               \A k \in i .. j : responses'[k].ask # "release"
        PROVE  responses'[i].snapshot < responses'[j].snapshot
    <3>1. CASE j \in 1 .. n
      <4>1. i \in 1 .. n /\ \A k \in i .. j : k \in 1 .. n
        BY <2>1, <2>6, <3>1
      <4>2. \A k \in i .. j : responses[k].ask # "release"
        BY <2>1, <2>6, <4>1
      <4> QED
        BY <2>1, <2>6, <3>1, <4>1, <4>2 DEF NewSnapshots
    <3>2. CASE j = n + 1
      <4>1. i \in 1 .. n /\ responses'[i] = responses[i] /\ responses'[j] = r
            /\ responses[i].snapshot \in Nat
        BY <2>1, <2>2, <2>6, <3>2
      <4>2. r.ask # "release" /\ responses[i].snapshot <= acquired
        BY <2>3, <2>6, <3>2, <4>1
      <4> QED
        BY <1>1, <2>4, <2>6, <4>1, <4>2
    <3> QED
      BY <2>1, <3>1, <3>2
  <2> QED
    BY <2>5, <2>6 DEF Newer, NewSnapshots
<1> QED
  BY <1>2, <1>3, Spoken

-----------------------------------------------------------------------------
Told == Searching /\ Truthful /\ LastIsHeld /\ Pulled /\ PairsApart /\ Newer /\ NewSnapshots

(* Bookkeeping and truthfulness together are inductive, from the start on.  *)
LEMMA ToldHolds == Spec => [](Held /\ Told)
<1>1. Init => Held /\ Told
  BY InitHeld, EmptySeq DEF Init, Held, Told, Searching, Truthful, LastIsHeld, Pulled,
       PairsApart, Newer, NewSnapshots
<1>2. Held /\ Told /\ [Next]_vars => (Held /\ Told)'
  BY TypeStep, MempoolStep, SearchStep, TruthStep, PulledStep, NewerStep DEF Held, Told
<1> QED
  BY <1>1, <1>2, PTL DEF Spec

(* An acquisition that follows another waits for a newer state of the       *)
(* mempool: `SendMsgAwaitAcquire' is only answered when it has changed.     *)
THEOREM SnapshotsAreNew == Spec => []NewSnapshots
<1>1. Held /\ Told => NewSnapshots
  BY DEF Told
<1> QED
  BY <1>1, ToldHolds, PTL

(* What is said of a snapshot is true of the state it was taken from, so    *)
(* responses about one snapshot agree: no transaction is pulled twice, a    *)
(* size and an answer to hasTransaction stay what they were, and agree with *)
(* the transactions pulled.  Provided that the node is in Mary or a later   *)
(* era: hasTransaction looks for a transaction in no earlier one, and       *)
(* answers `false' for those that nextTransaction lists.                    *)
THEOREM SnapshotsAreConsistent ==
  ASSUME Oldest >= Mary
  PROVE  Spec => []ConsistentWhileAcquired
<1>1. Held /\ Told => ConsistentWhileAcquired
  <2> SUFFICES ASSUME Held, Told, NEW i \in DOMAIN responses, NEW j \in DOMAIN responses,
                      i < j, responses[i].snapshot # None, SameSnapshot(i, j)
               PROVE  LET x == responses[i]
                          y == responses[j]
                      IN  /\ x.ask = "next" /\ y.ask = "next" =>
                               x.value # y.value \/ y.value = NoTx
                          /\ x.ask = y.ask /\ y.ask # "next" =>
                               x.ask # "acquire" /\ x.value = y.value
                          /\ x.ask = "has"  /\ y.ask = "next" => (y.value = 1 => x.value = 1)
                          /\ x.ask = "size" /\ y.ask = "next" => (y.value # NoTx => x.value > 0)
    BY DEF ConsistentWhileAcquired
  <2> DEFINE x == responses[i]
             y == responses[j]
             s == x.snapshot
  <2>1. j \in i .. j /\ y.snapshot = s
    BY DEF SameSnapshot, Held, Typed, TypeOK
  <2>2. Apart(x, y)
    BY DEF Told, PairsApart
  <2>3. Truth(x) /\ Truth(y) /\ s \in DOMAIN mempools
    BY <2>1 DEF Told, Truthful, Truth
  <2>4. IdsOf(s) \in Seq(Nat) /\ mempools[s].era >= Mary
    BY <2>3, NodeAssumption, Snapshots DEF Held, AllPossible, Possible, Eras, Dijkstra, Mary
  <2>5. x \in Response /\ y \in Response
    BY ElementOfSeq DEF Held, Typed, TypeOK
  <2> HIDE DEF x, y, s
  <2>6. x.ask = "next" /\ y.ask = "next" => x.value # y.value \/ y.value = NoTx
    BY <2>2 DEF Apart
  <2>7. ASSUME x.ask = y.ask, y.ask # "next"
        PROVE  x.ask # "acquire" /\ x.value = y.value
    <3>1. x.ask \in {"size", "has"}
      BY <2>2, <2>3, <2>5, <2>7 DEF Apart, Truth, Response, Asks
    <3>2. x.value = y.value
      BY <2>1, <2>3, <2>7, <3>1 DEF Truth, s
    <3> QED
      BY <3>1, <3>2
  <2>8. ASSUME x.ask = "has", y.ask = "next"
        PROVE  y.value = 1 => x.value = 1
    BY <2>1, <2>3, <2>4, <2>8 DEF Truth, Found, NoTx, s
  <2>9. ASSUME x.ask = "size", y.ask = "next", y.value # NoTx
        PROVE  x.value > 0
    <3>1. DOMAIN IdsOf(s) # {}
      BY <2>1, <2>3, <2>9 DEF Truth, InSnapshot, s
    <3> QED
      BY <2>3, <2>4, <2>9, <3>1, LenProperties DEF Truth, s
  <2> QED
    BY <2>6, <2>7, <2>8, <2>9 DEF x, y
<1> QED
  BY <1>1, ToldHolds, PTL
=============================================================================
