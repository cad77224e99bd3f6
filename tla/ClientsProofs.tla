----------------------------- MODULE ClientsProofs -----------------------------
(***************************************************************************)
(* Proofs about the clients of the TypeScript package, for every program   *)
(* and on both platforms.                                                  *)
(***************************************************************************)
EXTENDS Clients, EventGeneratorHistory, RequestOrder, FiniteSetTheorems

Requests == {Request(c, op, w) : c \in Nat, op \in Operations, w \in BOOLEAN}
Methods  == {op.method : op \in Operations} \cup {NoMethod}
Replies  == {Response(r, m, o) : r \in Requests, m \in Methods, o \in {"result", "error"}}
Values   == {"none", "undefined", "result", "error", "Connection closed"}
Calls    == [op : Operations \cup {Shutdown}, wellFormed : BOOLEAN, sent : BOOLEAN,
             state : {"pending", "resolved", "rejected"}, by : Nat, value : Values]
Callbacks == [event : {"error", "close", "open", "message"},
              fn : Streams \cup {"onInitialError", "onInitialClose", "onOpen", "errorHandler",
                                 "closeHandler", "onUnexpectedClose", "onShutdown", "listener"},
              call : Nat]
Reports   == {"error", "uncaught", "close"}

Typed ==
  /\ platform \in {"node", "browser"}
  /\ context \in Contexts
  /\ readyState \in ReadyStates
  /\ listeners \in Seq(Callbacks)
  /\ calls \in Seq(Calls)
  /\ reported \in Seq(Reports)
  /\ workload \in Seq(Operations \cup {Shutdown})
  /\ clients \subseteq Streams
  /\ generators \in [Streams -> Generators(Replies, Nat)]
  /\ toServer \in Seq(Requests)
  /\ queues \in [Protocols -> Seq(Requests)]
  /\ toClient \in Seq(Replies)

(* The calls are those of the program; those made before the WebSocket was  *)
(* left are sent, and those after it are not; those of a stream are of a    *)
(* client that was made.                                                    *)
Programmed ==
  /\ Len(calls) <= Len(workload)
  /\ \A c \in DOMAIN calls :
       calls[c].op = workload[c] /\ (Streamed(c) => calls[c].op.stream \in clients)
  /\ \A c, d \in DOMAIN calls : c < d /\ calls[d].sent => calls[c].sent
  /\ readyState = "OPEN" => \A c \in DOMAIN calls : calls[c].sent /\ calls[c].op # Shutdown

-----------------------------------------------------------------------------
(* The context.                                                             *)
Has(event, fn, c) == Contains(listeners, Listener(event, fn, c))
Connected  == readyState \in {"OPEN", "CLOSING"}

Staged ==
  /\ context = "fetching" => readyState = "NONE"
  /\ context = "connecting" =>
       /\ readyState = "CONNECTING"
       /\ listeners = <<Listener("error", "onInitialError", None),
                        Listener("close", "onInitialClose", None),
                        Listener("open", "onOpen", None)>>
  /\ context \in {"fetching", "failed"} => listeners = <<>>
  /\ context # "ready" => clients = {} /\ calls = <<>>
  /\ context = "ready" =>
       /\ readyState \in {"OPEN", "CLOSING", "CLOSED"}
       /\ \A l \in Range(listeners) :
            l.fn # "onInitialError" /\ (l.fn = "onInitialClose" => l.event = "close")

(* The callbacks of calls, each registered once, and of streams.            *)
Once(s, e) == \A i, j \in DOMAIN s : s[i] = e /\ s[j] = e => i = j

Registered ==
  /\ \A l \in Range(listeners) :
       l.call <= Len(calls) /\ (l.call # None => Once(listeners, l))
  /\ Connected => \A s \in clients : Contains(listeners, ListensTo(s))
  /\ Connected => \A c \in DOMAIN calls : calls[c].sent /\ Pending(c) =>
       Has("close", IF calls[c].op = Shutdown THEN "onShutdown" ELSE "onUnexpectedClose", c)
  /\ readyState = "OPEN" => \A c \in DOMAIN calls :
       /\ Has("close", "onUnexpectedClose", c) => Pending(c)
       /\ Has("message", "listener", c) <=> Pending(c) /\ ~Streamed(c)

(* The close is told once.                                                  *)
Told ==
  /\ readyState # "CLOSED" => \A i \in DOMAIN reported : reported[i] # "close"
  /\ context = "ready" /\ Connected => Has("close", "closeHandler", None)
  /\ CloseReported

-----------------------------------------------------------------------------
(* What is on its way is of a call whose request was sent.                  *)
Asking(c) == c \in DOMAIN calls /\ calls[c].sent /\ calls[c].op # Shutdown

RequestFits(r) ==
  /\ Asking(r.call)
  /\ r = Request(r.call, calls[r.call].op, calls[r.call].wellFormed)

ReplyFits(m) ==
  /\ Asking(m.to)
  /\ m.id = Identifier(m.to, calls[m.to].op)
  /\ m.method \in {calls[m.to].op.method, NoMethod}
  /\ calls[m.to].wellFormed /\ m.to \notin unnamed => m.method # NoMethod

Fitting ==
  /\ \A r \in Range(toServer) : RequestFits(r)
  /\ \A p \in Protocols : \A r \in Range(queues[p]) :
       RequestFits(r) /\ r.wellFormed /\ r.op.protocol = p
  /\ \A m \in Range(toClient) : ReplyFits(m)
  /\ \A s \in Streams :
       \A m \in Range(generators[s].events) \cup Range(generators[s].given) : ReplyFits(m)

(* Where the request of a call, or its response, is.                        *)
Sending(c)  == \E i \in DOMAIN toServer : toServer[i].call = c
Queued(c)   == \E i \in DOMAIN queues[calls[c].op.protocol] :
                 queues[calls[c].op.protocol][i].call = c
Arriving(c) == \E i \in DOMAIN toClient : toClient[i].to = c
Kept(g, c)  == \E i \in DOMAIN g.events : g.events[i].to = c
Given(g, c) == \E i \in DOMAIN g.given : g.given[i].to = c
OnItsWay(c) == Sending(c) \/ Queued(c) \/ Arriving(c)

(* The server and the WebSocket keep the order of the requests of a lane: a *)
(* mini-protocol, or the routing worker, which answers the ill-formed ones. *)
Lane(c) == IF calls[c].wellFormed THEN calls[c].op.protocol ELSE "illFormed"
SameLane(c, d) == Lane(c) = Lane(d)

Ascending(requests) ==
  \A i, j \in DOMAIN requests : i < j => requests[i].call < requests[j].call
LaneAscending(replies) ==
  \A i, j \in DOMAIN replies :
    i < j /\ SameLane(replies[i].to, replies[j].to) => replies[i].to < replies[j].to

(* What comes after a reply in its lane: a request, or another reply.       *)
Answered(c) ==
  /\ \A j \in DOMAIN toServer : c < toServer[j].call
  /\ \A p \in Protocols : Lane(c) = p => \A j \in DOMAIN queues[p] : c < queues[p][j].call
BeforeAll(c, replies) == \A j \in DOMAIN replies : SameLane(c, replies[j].to) => c < replies[j].to

Ordered ==
  /\ Ascending(toServer)
  /\ \A p \in Protocols :
       /\ Ascending(queues[p])
       /\ \A i \in DOMAIN queues[p] : \A j \in DOMAIN toServer :
            queues[p][i].call < toServer[j].call
  /\ LaneAscending(toClient)
  /\ \A c \in DOMAIN calls : Arriving(c) => Answered(c)

OrderedStream(g) ==
  /\ LaneAscending(g.events)
  /\ \A i \in DOMAIN g.events :
       Answered(g.events[i].to) /\ BeforeAll(g.events[i].to, toClient)
  /\ \A i \in DOMAIN g.given :
       /\ Answered(g.given[i].to)
       /\ BeforeAll(g.given[i].to, toClient)
       /\ BeforeAll(g.given[i].to, g.events)

OrderedStreams == \A s \in Streams : OrderedStream(generators[s])

-----------------------------------------------------------------------------
(* The generators: calls wait in the order they were made.                  *)
Waits(s, c) == \E i \in DOMAIN generators[s].callers : generators[s].callers[i] = c

Waiting ==
  \A s \in Streams :
    /\ OneServed(generators[s])
    /\ \A i \in DOMAIN generators[s].callers :
         LET c == generators[s].callers[i] IN c \in DOMAIN calls /\ calls[c].op.stream = s
    /\ \A i, j \in DOMAIN generators[s].callers :
         i < j => generators[s].callers[i] < generators[s].callers[j]
    /\ readyState = "OPEN" => \A c \in DOMAIN calls :
         calls[c].op.stream = s => (Pending(c) <=> Waits(s, c))

(* Nobody disturbs a stream: see Undisturbed.                               *)
MethodOf(s) == IF s = "submit" THEN "submitTransaction" ELSE "evaluateTransaction"
Peaceful(s) ==
  \A d \in DOMAIN calls :
    /\ calls[d].op.stream = s =>
         calls[d].wellFormed /\ (s \in {"submit", "evaluate"} => d \notin unnamed)
    /\ s \in {"submit", "evaluate"} /\ calls[d].op.stream = "none"
         => calls[d].op.method # MethodOf(s)

(* Then its generator has its responses only, and the calls that wait are   *)
(* those whose request or response is somewhere.                            *)
OwnStream(s) ==
  LET g == generators[s]
  IN /\ \A i \in DOMAIN g.events : calls[g.events[i].to].op.stream = s
     /\ \A i \in DOMAIN g.given : calls[g.given[i].to].op.stream = s
     /\ \A c \in DOMAIN calls : calls[c].op.stream = s /\ calls[c].sent =>
          (Waits(s, c) <=> OnItsWay(c) \/ Kept(g, c) \/ Given(g, c))

Accounted ==
  /\ \A s \in Streams : Peaceful(s) => OwnStream(s)
  /\ readyState = "OPEN" => \A c \in DOMAIN calls :
       calls[c].op.stream = "none" /\ calls[c].op # Shutdown => (Pending(c) <=> OnItsWay(c))

Inv ==
  /\ Typed
  /\ Programmed
  /\ Staged
  /\ Registered
  /\ Told
  /\ Fitting
  /\ Ordered
  /\ OrderedStreams
  /\ Waiting
  /\ Accounted
  /\ OwnResponse

-----------------------------------------------------------------------------
(* What the operations of the package have in common.                       *)
ProtocolOf(s) == IF s = "mempool" THEN "txMonitor" ELSE "txSubmission"

IsOperation(op) ==
  /\ op.stream \in Streams \cup {"none"}
  /\ op.protocol \in Protocols
  /\ op.params \in BOOLEAN
  /\ op # Shutdown
  /\ op.method # NoMethod
  /\ op.stream \in Streams => op.protocol = ProtocolOf(op.stream)
  /\ op.stream \in {"submit", "evaluate"} => op.method = MethodOf(op.stream)
  /\ op.stream = "mempool" =>
       op.method \notin {MethodOf("submit"), MethodOf("evaluate")}

LEMMA OperationFacts == \A op \in Operations : IsOperation(op)
<1>1. \A m, p, s, f, k : \A a \in BOOLEAN :
        LET op == Operation(m, p, s, a, f, k)
        IN  op.method = m /\ op.protocol = p /\ op.stream = s /\ op.params \in BOOLEAN
  BY DEF Operation
<1>2. Shutdown.method = "shutdown"
  BY DEF Shutdown, Operation
<1>3. \A m, p, s, f, k : \A a \in BOOLEAN :
        /\ s \in Streams \cup {"none"}
        /\ p \in Protocols
        /\ m # "shutdown"
        /\ m # NoMethod
        /\ s \in Streams => p = ProtocolOf(s)
        /\ s \in {"submit", "evaluate"} => m = MethodOf(s)
        /\ s = "mempool" => m \notin {MethodOf("submit"), MethodOf("evaluate")}
        => IsOperation(Operation(m, p, s, a, f, k))
  BY <1>1, <1>2 DEF IsOperation
<1> USE DEF ProtocolOf, MethodOf, Streams, Protocols, NoMethod
<1>4. \A op \in LedgerStateQueryClient : IsOperation(op)
  BY <1>3 DEF LedgerStateQueryClient, Query, Network, AcquireLedgerState, ReleaseLedgerState,
         Constitution, Epoch, EraStart, EraSummaries, GenesisConfiguration,
         GovernanceProposals, LedgerTip, LiveStakeDistribution, NetworkBlockHeight,
         NetworkStartTime, NetworkTip, ProjectedRewards, ProtocolParameters,
         RewardAccountSummaries, StakePools, StakePoolsPerformances, QueryUtxo
<1>5. \A op \in MempoolMonitoringClient : IsOperation(op)
  BY <1>3 DEF MempoolMonitoringClient, AcquireMempool, HasTransaction, NextTransaction,
         SizeOfMempool, ReleaseMempool
<1>6. \A op \in TransactionSubmissionClient : IsOperation(op)
  BY <1>3 DEF TransactionSubmissionClient, SubmitTransaction, EvaluateTransaction
<1>7. \A op \in ReplOperations : IsOperation(op)
  BY <1>3, <1>4 DEF ReplOperations, AcquireMempool, HasTransaction, NextTransaction,
         SizeOfMempool, ReleaseMempool, SubmitTransaction, EvaluateTransaction
<1> QED
  BY <1>4, <1>5, <1>6, <1>7 DEF Operations
-----------------------------------------------------------------------------
(* Turn serves the first caller with the first event kept, if any.          *)
LEMMA TurnServes ==
  ASSUME NEW E, NEW C, NEW g \in Generators(E, C), g.callers # <<>>,
         g.given = <<>>, ~g.listens
  PROVE  /\ Turn(g) \in Generators(E, C)
         /\ OneServed(Turn(g))
         /\ Turn(g).callers = g.callers
         /\ g.events # <<>> =>
              /\ Turn(g).given = <<Head(g.events)>>
              /\ Turn(g).events = Tail(g.events)
         /\ g.events = <<>> => Turn(g).given = <<>> /\ Turn(g).events = <<>>
<1>0. /\ g.events \in Seq(E)
      /\ g.callers \in Seq(C)
  BY DEF Generators
<1>1. CASE g.events # <<>>
  <2>1. Turn(g) = [g EXCEPT !.given = <<Head(g.events)>>, !.events = Tail(g.events)]
    BY <1>1 DEF Turn, Taken
  <2>2. /\ <<Head(g.events)>> \in Seq(E)
        /\ Len(<<Head(g.events)>>) = 1
        /\ <<Head(g.events)>> # <<>>
        /\ Tail(g.events) \in Seq(E)
    BY <1>0, <1>1
  <2>3. /\ Turn(g).given = <<Head(g.events)>>
        /\ Turn(g).events = Tail(g.events)
        /\ Turn(g).callers = g.callers
        /\ Turn(g).listens = g.listens
    BY <2>1 DEF Generators
  <2>4. Turn(g) \in Generators(E, C)
    BY <2>1, <2>2 DEF Generators
  <2> QED
    BY <1>1, <2>2, <2>3, <2>4 DEF OneServed
<1>2. CASE g.events = <<>>
  <2>1. Turn(g) = [g EXCEPT !.listens = TRUE]
    BY <1>2 DEF Turn
  <2>2. /\ Turn(g).given = g.given
        /\ Turn(g).events = g.events
        /\ Turn(g).callers = g.callers
        /\ Turn(g).listens
        /\ Turn(g) \in Generators(E, C)
    BY <2>1 DEF Generators
  <2> QED
    BY <1>2, <2>2 DEF OneServed
<1> QED
  BY <1>1, <1>2

(* An event goes to the promise that listens, or is kept.                   *)
LEMMA MatchedServes ==
  ASSUME NEW E, NEW C, NEW g \in Generators(E, C), OneServed(g), NEW event \in E,
         NEW h, h = Matched(g, event)
  PROVE  /\ h \in Generators(E, C)
         /\ OneServed(h)
         /\ h.callers = g.callers
         /\ g.listens => h.given = <<event>> /\ h.events = g.events
         /\ ~g.listens => h.given = g.given /\ h.events = Append(g.events, event)
<1>0. /\ g.events \in Seq(E)
      /\ g.given \in Seq(E)
      /\ g.callers \in Seq(C)
      /\ g.listens \in BOOLEAN
  BY DEF Generators
<1>1. CASE g.listens
  <2>1. h = [g EXCEPT !.given = <<event>>, !.listens = FALSE]
    BY <1>1 DEF Matched
  <2>2. <<event>> \in Seq(E) /\ Len(<<event>>) = 1 /\ <<event>> # <<>>
    OBVIOUS
  <2>3. /\ h.given = <<event>>
        /\ h.events = g.events
        /\ h.callers = g.callers
        /\ ~h.listens
        /\ h \in Generators(E, C)
    BY <2>1, <2>2 DEF Generators
  <2> QED
    BY <1>1, <2>2, <2>3 DEF OneServed
<1>2. CASE ~g.listens
  <2>1. h = [g EXCEPT !.events = Append(g.events, event)]
    BY <1>2 DEF Matched
  <2>2. Append(g.events, event) \in Seq(E)
    BY <1>0
  <2>3. /\ h.given = g.given
        /\ h.events = Append(g.events, event)
        /\ h.callers = g.callers
        /\ h.listens = g.listens
        /\ h \in Generators(E, C)
    BY <2>1, <2>2 DEF Generators
  <2> QED
    BY <1>2, <2>3 DEF OneServed
<1> QED
  BY <1>1, <1>2

(* A call waits for its turn, or has it at once.                            *)
LEMMA AskedServes ==
  ASSUME NEW E, NEW C, NEW g \in Generators(E, C), OneServed(g), NEW caller \in C,
         NEW h, h = Asked(g, caller)
  PROVE  /\ h \in Generators(E, C)
         /\ OneServed(h)
         /\ h.callers = Append(g.callers, caller)
         /\ \/ h.given = g.given /\ h.events = g.events
            \/ /\ g.given = <<>> /\ g.events # <<>>
               /\ h.given = <<Head(g.events)>> /\ h.events = Tail(g.events)
<1> DEFINE w == [g EXCEPT !.callers = Append(g.callers, caller)]
<1>0. /\ g.events \in Seq(E)
      /\ g.given \in Seq(E)
      /\ g.callers \in Seq(C)
      /\ g.listens \in BOOLEAN
  BY DEF Generators
<1>1. Append(g.callers, caller) \in Seq(C) /\ Append(g.callers, caller) # <<>>
  BY <1>0, AppendProperties, EmptySeq
<1>2. /\ w.given = g.given
      /\ w.events = g.events
      /\ w.callers = Append(g.callers, caller)
      /\ w.listens = g.listens
      /\ w \in Generators(E, C)
  BY <1>1 DEF Generators
<1>3. CASE g.callers = <<>>
  <2>1. h = Turn(w)
    BY <1>3 DEF Asked
  <2>2. w.given = <<>> /\ ~w.listens
    BY <1>2, <1>3 DEF OneServed
  <2> HIDE DEF w
  <2> QED
    BY <1>1, <1>2, <2>1, <2>2, TurnServes
<1>4. CASE g.callers # <<>>
  <2>1. h = w
    BY <1>4 DEF Asked
  <2> HIDE DEF w
  <2> QED
    BY <1>1, <1>2, <1>4, <2>1 DEF OneServed
<1> QED
  BY <1>3, <1>4

(* A call is over, and the body runs for the one after it.                  *)
LEMMA ResumedServes ==
  ASSUME NEW E, NEW C, NEW g \in Generators(E, C), OneServed(g), Resumable(g),
         NEW h, h = Resumed(g)
  PROVE  /\ h \in Generators(E, C)
         /\ OneServed(h)
         /\ g.callers # <<>> /\ Len(g.given) = 1
         /\ h.callers = Tail(g.callers)
         /\ \/ h.given = <<>> /\ h.events = g.events
            \/ /\ g.events # <<>>
               /\ h.given = <<Head(g.events)>> /\ h.events = Tail(g.events)
<1> DEFINE w == [g EXCEPT !.given = <<>>, !.callers = Tail(g.callers)]
<1>0. /\ g.events \in Seq(E)
      /\ g.given \in Seq(E)
      /\ g.callers \in Seq(C)
      /\ g.listens \in BOOLEAN
  BY DEF Generators
<1>1. g.given # <<>> /\ ~g.listens /\ g.callers # <<>> /\ Len(g.given) = 1
  <2>1. g.given # <<>> /\ Len(g.given) <= 1
    BY DEF OneServed, Resumable
  <2>2. Len(g.given) = 1
    <3>1. g.given \in Seq(E)
      BY <1>0
    <3>2. Len(g.given) \in Nat \ {0}
      BY <2>1, <3>1, EmptySeq, Zenon
    <3> DEFINE n == Len(g.given)
    <3>3. n \in Nat \ {0} /\ n <= 1
      BY <2>1, <3>2
    <3> HIDE DEF n
    <3>4. n = 1
      BY <3>3
    <3> QED
      BY <3>4 DEF n
  <2> QED
    BY <2>1, <2>2 DEF OneServed
<1>2. Tail(g.callers) \in Seq(C) /\ <<>> \in Seq(E)
  BY <1>0, <1>1
<1>3. /\ w.given = <<>>
      /\ w.events = g.events
      /\ w.callers = Tail(g.callers)
      /\ w.listens = g.listens
      /\ w \in Generators(E, C)
  BY <1>2 DEF Generators
<1>4. h = Turn(w)
  BY DEF Resumed
<1>5. CASE Tail(g.callers) = <<>>
  <2>1. Turn(w) = w
    BY <1>3, <1>5 DEF Turn
  <2>2. /\ h.given = <<>>
        /\ h.events = g.events
        /\ h.callers = <<>>
        /\ ~h.listens
        /\ h \in Generators(E, C)
    BY <1>1, <1>3, <1>4, <1>5, <2>1
  <2>3. Len(h.given) <= 1
    BY <2>2
  <2>4. OneServed(h)
    BY <2>2, <2>3 DEF OneServed
  <2> QED
    BY <1>1, <1>5, <2>2, <2>4
<1>6. CASE Tail(g.callers) # <<>>
  <2> HIDE DEF w
  <2>1. w \in Generators(E, C) /\ w.callers # <<>> /\ w.given = <<>> /\ ~w.listens
    BY <1>1, <1>3, <1>6
  <2>2. /\ h \in Generators(E, C)
        /\ OneServed(h)
        /\ h.callers = w.callers
        /\ w.events # <<>> => h.given = <<Head(w.events)>> /\ h.events = Tail(w.events)
        /\ w.events = <<>> => h.given = <<>> /\ h.events = <<>>
    BY <1>4, <2>1, TurnServes
  <2> QED
    BY <1>1, <1>3, <2>2
<1> QED
  BY <1>5, <1>6

(* A sequence is its head and its tail, and one of length 1 is its head.    *)
LEMMA HeadAndTail ==
  ASSUME NEW S, NEW s \in Seq(S), s # <<>>
  PROVE  /\ Head(s) \in S /\ Tail(s) \in Seq(S)
         /\ <<Head(s)>> \in Seq(S)
         /\ <<Head(s)>> \o Tail(s) = s
         /\ Len(s) = 1 => <<Head(s)>> = s
<1> DEFINE h == <<Head(s)>>
           t == Tail(s)
<1>1. /\ Head(s) \in S /\ Head(s) = s[1]
      /\ t \in Seq(S) /\ Len(t) = Len(s) - 1
      /\ \A i \in 1 .. Len(t) : t[i] = s[i + 1]
  BY HeadTailProperties
<1>2. Len(s) \in Nat \ {0}
  BY EmptySeq
<1>3. h \in Seq(S) /\ Len(h) = 1 /\ h[1] = s[1]
  BY <1>1
<1>4. t \in Seq(S)
  BY <1>1
<1>5. Len(t) = Len(s) - 1 /\ \A i \in 1 .. Len(t) : t[i] = s[i + 1]
  BY <1>1
<1>6. /\ h \o t \in Seq(S)
      /\ Len(h \o t) = Len(h) + Len(t)
      /\ \A i \in 1 .. Len(h) + Len(t) :
           (h \o t)[i] = IF i <= Len(h) THEN h[i] ELSE t[i - Len(h)]
  <2> HIDE DEF h, t
  <2> QED
    BY <1>3, <1>4, ConcatProperties
<1>7. h \o t = s
  <2> DEFINE c == h \o t
  <2> HIDE DEF h, t
  <2>1. c \in Seq(S) /\ Len(c) = Len(s)
    BY <1>2, <1>3, <1>5, <1>6
  <2>2. \A i \in 1 .. Len(s) : c[i] = s[i]
    BY <1>2, <1>3, <1>5, <1>6
  <2> HIDE DEF c
  <2>3. c = s
    BY <2>1, <2>2, SeqEqual
  <2> QED
    BY <2>3 DEF c
<1>8. ASSUME Len(s) = 1
      PROVE  h = s
  <2> HIDE DEF h
  <2> QED
    BY <1>3, <1>8, SeqEqual
<1> QED
  BY <1>1, <1>3, <1>4, <1>7, <1>8

-----------------------------------------------------------------------------
(* The callbacks: what RemoveListener leaves.  A callback that is removed   *)
(* is registered once.                                                      *)
LEMMA ContainsDomain ==
  ASSUME NEW S, NEW s \in Seq(S), NEW e
  PROVE  /\ Contains(s, e) <=> \E i \in DOMAIN s : s[i] = e
         /\ Contains(s, e) <=> e \in Range(s)
         /\ Contains(s, e) => e \in S
BY LenProperties, ElementOfSeq DEF Contains, Range

LEMMA RemovedAt ==
  ASSUME NEW S, NEW s \in Seq(S), NEW k \in 1 .. Len(s), NEW t, t = RemoveAt(s, k)
  PROVE  /\ t \in Seq(S)
         /\ Len(t) = Len(s) - 1
         /\ \A i \in 1 .. Len(s) - 1 :
              (i < k => t[i] = s[i]) /\ (i >= k => t[i] = s[i + 1])
<1> DEFINE n == Len(s)
           a == SubSeq(s, 1, k - 1)
           b == SubSeq(s, k + 1, n)
<1>1. n \in Nat /\ k \in Nat /\ 1 <= k /\ k <= n /\ \A i \in 1 .. n : s[i] \in S
  BY LenProperties, ElementOfSeq
<1>2. t = a \o b
  BY DEF RemoveAt
<1>3. /\ a \in Seq(S) /\ Len(a) = k - 1
      /\ \A i \in 1 .. k - 1 : a[i] = s[i]
  <2>1. \A i \in 1 .. k - 1 : s[i] \in S
    BY <1>1
  <2>2. /\ a \in Seq(S)
        /\ Len(a) = IF 1 <= k - 1 THEN k - 1 - 1 + 1 ELSE 0
        /\ \A i \in 1 .. k - 1 - 1 + 1 : a[i] = s[1 + i - 1]
    BY <1>1, <2>1, SubSeqProperties
  <2> QED
    BY <1>1, <2>2
<1>4. /\ b \in Seq(S) /\ Len(b) = n - k
      /\ \A i \in 1 .. n - k : b[i] = s[k + i]
  <2>1. \A i \in k + 1 .. n : s[i] \in S
    BY <1>1
  <2>2. /\ b \in Seq(S)
        /\ Len(b) = IF k + 1 <= n THEN n - (k + 1) + 1 ELSE 0
        /\ \A i \in 1 .. n - (k + 1) + 1 : b[i] = s[k + 1 + i - 1]
    BY <1>1, <2>1, SubSeqProperties
  <2> QED
    BY <1>1, <2>2
<1> HIDE DEF a, b, n
<1>5. /\ t \in Seq(S) /\ Len(t) = Len(a) + Len(b)
      /\ \A i \in 1 .. Len(a) + Len(b) :
           t[i] = IF i <= Len(a) THEN a[i] ELSE b[i - Len(a)]
  BY <1>2, <1>3, <1>4, ConcatProperties
<1>6. Len(t) = n - 1
  BY <1>1, <1>3, <1>4, <1>5
<1>7. ASSUME NEW i \in 1 .. n - 1
      PROVE  (i < k => t[i] = s[i]) /\ (i >= k => t[i] = s[i + 1])
  <2>1. i \in 1 .. Len(a) + Len(b)
    BY <1>1, <1>3, <1>4
  <2>2. CASE i < k
    <3>1. i \in 1 .. k - 1 /\ i <= Len(a)
      BY <1>1, <1>3, <2>2
    <3>2. t[i] = a[i]
      BY <1>5, <2>1, <3>1
    <3> QED
      BY <1>3, <2>2, <3>1, <3>2
  <2>3. CASE i >= k
    <3>1. t[i] = b[i - (k - 1)] /\ i - (k - 1) \in 1 .. n - k
      BY <1>1, <1>3, <1>5, <2>1, <2>3
    <3>2. b[i - (k - 1)] = s[k + (i - (k - 1))]
      BY <1>4, <3>1
    <3>3. k + (i - (k - 1)) = i + 1
      BY <1>1
    <3> QED
      BY <2>3, <3>1, <3>2, <3>3
  <2> QED
    BY <1>1, <2>2, <2>3
<1> QED
  BY <1>5, <1>6, <1>7 DEF n

LEMMA RemovedOne ==
  ASSUME NEW S, NEW s \in Seq(S), NEW e, Once(s, e), NEW t, t = RemoveFirst(s, e)
  PROVE  /\ t \in Seq(S)
         /\ \A x : Contains(t, x) <=> Contains(s, x) /\ x # e
         /\ \A x : Once(s, x) => Once(t, x)
<1>0. DOMAIN s = 1 .. Len(s) /\ Len(s) \in Nat
  BY LenProperties
<1>1. CASE ~ \E i \in 1 .. Len(s) : s[i] = e
  <2>1. t = s
    BY <1>1 DEF RemoveFirst
  <2> QED
    BY <1>1, <2>1 DEF Contains
<1>2. ASSUME NEW k \in 1 .. Len(s), s[k] = e
      PROVE  /\ t \in Seq(S)
             /\ \A x : Contains(t, x) <=> Contains(s, x) /\ x # e
             /\ \A x : Once(s, x) => Once(t, x)
  <2>1. \A i \in 1 .. Len(s) : s[i] = e => i = k
    BY <1>0, <1>2 DEF Once
  <2>2. {i \in 1 .. Len(s) : s[i] = e} = {k}
    BY <1>2, <2>1
  <2>3. Min({k}) = k
    BY DEF Min
  <2>4. SelectInSeq(s, LAMBDA v : v = e) = k
    BY <2>2, <2>3 DEF SelectInSeq
  <2>5. t = RemoveAt(s, k)
    BY <1>2, <2>4 DEF RemoveFirst
  <2>6. /\ t \in Seq(S)
        /\ Len(t) = Len(s) - 1
        /\ \A i \in 1 .. Len(s) - 1 :
             (i < k => t[i] = s[i]) /\ (i >= k => t[i] = s[i + 1])
    <3> DEFINE u == RemoveAt(s, k)
    <3>1. /\ u \in Seq(S)
          /\ Len(u) = Len(s) - 1
          /\ \A i \in 1 .. Len(s) - 1 :
               (i < k => u[i] = s[i]) /\ (i >= k => u[i] = s[i + 1])
      BY RemovedAt
    <3> QED
      BY <2>5, <3>1
  <2>7. DOMAIN t = 1 .. Len(s) - 1
    BY <2>6, LenProperties
  <2> DEFINE was(i) == IF i < k THEN i ELSE i + 1
  <2>8. \A i \in 1 .. Len(s) - 1 : was(i) \in 1 .. Len(s) /\ was(i) # k /\ t[i] = s[was(i)]
    BY <1>0, <2>6
  <2>9. \A i, j \in 1 .. Len(s) - 1 : was(i) = was(j) => i = j
    BY <1>0
  <2>10. \A j \in 1 .. Len(s) : j # k => \E i \in 1 .. Len(s) - 1 : was(i) = j
    <3> TAKE j \in 1 .. Len(s)
    <3>1. CASE j < k
      <4>1. j \in 1 .. Len(s) - 1 /\ was(j) = j
        BY <1>0, <3>1
      <4> QED
        BY <4>1
    <3>2. CASE j > k
      <4>1. j - 1 \in 1 .. Len(s) - 1 /\ was(j - 1) = j
        BY <1>0, <3>2
      <4> QED
        BY <4>1
    <3> QED
      BY <1>0, <3>1, <3>2
  <2> HIDE DEF was
  <2>11. ASSUME NEW x
         PROVE  Contains(t, x) <=> Contains(s, x) /\ x # e
    <3>1. Contains(t, x) <=> \E i \in 1 .. Len(s) - 1 : s[was(i)] = x
      BY <2>6, <2>8 DEF Contains
    <3>2. Contains(s, x) /\ x # e <=> \E j \in 1 .. Len(s) : j # k /\ s[j] = x
      BY <1>2, <2>1 DEF Contains
    <3> QED
      BY <2>8, <2>10, <3>1, <3>2
  <2>12. ASSUME NEW x, Once(s, x), NEW i \in DOMAIN t, NEW j \in DOMAIN t, t[i] = x, t[j] = x
         PROVE  i = j
    <3>1. s[was(i)] = x /\ s[was(j)] = x /\ was(i) \in DOMAIN s /\ was(j) \in DOMAIN s
      BY <1>0, <2>7, <2>8, <2>12
    <3>2. was(i) = was(j)
      BY <2>12, <3>1 DEF Once
    <3> QED
      BY <2>7, <2>9, <3>2
  <2> QED
    BY <2>6, <2>11, <2>12 DEF Once
<1> QED
  BY <1>1, <1>2

-----------------------------------------------------------------------------
(* Requests, responses and calls are records.                               *)
LEMMA RequestFields ==
  ASSUME NEW r \in Requests
  PROVE  /\ r.call \in Nat /\ r.op \in Operations /\ r.wellFormed \in BOOLEAN
         /\ r = Request(r.call, r.op, r.wellFormed)
         /\ r.id = Identifier(r.call, r.op)
         /\ IsOperation(r.op)
BY OperationFacts DEF Requests, Request

LEMMA RequestMade ==
  ASSUME NEW c \in Nat, NEW op \in Operations, NEW w \in BOOLEAN, NEW r, r = Request(c, op, w)
  PROVE  r \in Requests /\ r.call = c /\ r.op = op /\ r.wellFormed = w
BY DEF Requests, Request

LEMMA ReplyFields ==
  ASSUME NEW m \in Replies
  PROVE  m.to \in Nat /\ m.method \in Methods /\ m.outcome \in {"result", "error"}
BY RequestFields DEF Replies, Response

LEMMA ReplyMade ==
  ASSUME NEW r \in Requests, NEW method \in Methods, NEW o \in {"result", "error"},
         NEW m, m = Response(r, method, o)
  PROVE  m \in Replies /\ m.to = r.call /\ m.id = r.id /\ m.method = method
BY DEF Replies, Response

LEMMA ErrorMade ==
  ASSUME NEW r \in Requests, NEW m, m = RpcError(r)
  PROVE  m \in Replies /\ m.to = r.call /\ m.id = r.id /\ m.method = NoMethod
<1>1. NoMethod \in Methods
  BY DEF Methods
<1> QED
  BY <1>1, ReplyMade DEF RpcError

(* The server answers with the method that was asked, or with an error that *)
(* names none.                                                              *)
LEMMA AnswerMade ==
  ASSUME NEW r \in Requests, NEW m, m \in Answers(r)
  PROVE  m \in Replies /\ m.to = r.call /\ m.id = r.id /\ m.method \in {r.op.method, NoMethod}
<1>1. r.op.method \in Methods
  BY RequestFields DEF Methods
<1>2. CASE m = RpcError(r)
  BY <1>2, ErrorMade
<1>3. CASE \E o \in {"result", "error"} : m = Response(r, r.op.method, o)
  BY <1>1, <1>3, ReplyMade
<1> QED
  BY <1>2, <1>3 DEF Answers

LEMMA CallMade ==
  ASSUME NEW op \in Operations \cup {Shutdown}, NEW w \in BOOLEAN,
         NEW st \in {"pending", "rejected"}, NEW e, e = Call(op, w, st)
  PROVE  /\ e \in Calls
         /\ e.op = op /\ e.wellFormed = w /\ (e.sent <=> readyState = "OPEN")
         /\ e.state = st /\ e.by = None
<1>1. None \in Nat /\ (readyState = "OPEN") \in BOOLEAN
  BY DEF None
<1> DEFINE sent == readyState = "OPEN"
<1>2. e = [op |-> op, wellFormed |-> w, sent |-> sent, state |-> st, by |-> None,
           value |-> "none"]
  BY Zenon DEF Call
<1>3. sent \in BOOLEAN
  BY <1>1
<1> HIDE DEF sent
<1>4. /\ e \in Calls
      /\ e.op = op /\ e.wellFormed = w /\ e.sent = sent /\ e.state = st /\ e.by = None
  BY <1>1, <1>2, <1>3 DEF Calls, Values
<1> QED
  BY <1>4 DEF sent

LEMMA SettledCall ==
  ASSUME NEW call \in Calls, NEW m \in Replies, NEW e, e = Settled(call, m)
  PROVE  /\ e \in Calls
         /\ e.op = call.op /\ e.wellFormed = call.wellFormed /\ e.sent = call.sent
         /\ e.state # "pending" /\ e.by = m.to
<1>1. m.to \in Nat /\ m.outcome \in Values
  BY ReplyFields DEF Values
<1> DEFINE st == IF Accepts(call.op, m) THEN "resolved" ELSE "rejected"
           v  == IF Accepts(call.op, m) /\ m.outcome # "result" THEN "undefined" ELSE m.outcome
<1>2. st \in {"resolved", "rejected"} /\ v \in Values
  BY <1>1 DEF Values
<1>3. e = [call EXCEPT !.state = st, !.by = m.to, !.value = v]
  BY DEF Settled
<1> HIDE DEF st, v
<1> QED
  BY <1>1, <1>2, <1>3 DEF Calls

LEMMA Sequences ==
  ASSUME Typed
  PROVE  /\ Len(calls) \in Nat /\ DOMAIN calls = 1 .. Len(calls)
         /\ \A c \in DOMAIN calls : c \in Nat /\ c # None /\ calls[c] \in Calls
         /\ \A i \in DOMAIN toServer : i \in Nat /\ toServer[i] \in Requests
         /\ \A p \in Protocols : queues[p] \in Seq(Requests)
         /\ \A p \in Protocols : \A i \in DOMAIN queues[p] : i \in Nat /\ queues[p][i] \in Requests
         /\ \A i \in DOMAIN toClient : i \in Nat /\ toClient[i] \in Replies
         /\ \A s \in Streams : generators[s] \in Generators(Replies, Nat)
<1>1. \A S : \A q \in Seq(S) : \A i \in DOMAIN q : i \in Nat /\ i # 0 /\ q[i] \in S
  BY LenProperties, ElementOfSeq
<1>2. \A p \in Protocols : queues[p] \in Seq(Requests)
  BY DEF Typed
<1>3. \A s \in Streams : generators[s] \in Generators(Replies, Nat)
  BY DEF Typed
<1>4. Len(calls) \in Nat /\ DOMAIN calls = 1 .. Len(calls)
  BY LenProperties DEF Typed
<1> QED
  BY <1>1, <1>2, <1>3, <1>4 DEF Typed, None

LEMMA GeneratorSequences ==
  ASSUME NEW g \in Generators(Replies, Nat)
  PROVE  /\ g.events \in Seq(Replies) /\ g.given \in Seq(Replies) /\ g.callers \in Seq(Nat)
         /\ \A i \in DOMAIN g.events : i \in Nat /\ g.events[i] \in Replies
         /\ \A i \in DOMAIN g.given : i \in Nat /\ g.given[i] \in Replies
         /\ \A i \in DOMAIN g.callers : i \in Nat /\ g.callers[i] \in Nat
<1>1. \A S : \A q \in Seq(S) : \A i \in DOMAIN q : i \in Nat /\ q[i] \in S
  BY LenProperties, ElementOfSeq
<1>2. g.events \in Seq(Replies) /\ g.given \in Seq(Replies) /\ g.callers \in Seq(Nat)
  BY DEF Generators
<1> QED
  BY <1>1, <1>2

LEMMA SettledCalls ==
  ASSUME NEW cs \in Seq(Calls), NEW c \in DOMAIN cs, NEW m \in Replies,
         NEW new, new = [cs EXCEPT ![c] = Settled(@, m)]
  PROVE  /\ new \in Seq(Calls) /\ DOMAIN new = DOMAIN cs /\ Len(new) = Len(cs)
         /\ \A d \in DOMAIN cs : d # c => new[d] = cs[d]
         /\ new[c].state # "pending" /\ new[c].by = m.to
         /\ \A d \in DOMAIN cs : /\ new[d].op = cs[d].op
                                 /\ new[d].wellFormed = cs[d].wellFormed
                                 /\ new[d].sent = cs[d].sent
<1>1. DOMAIN cs = 1 .. Len(cs) /\ Len(cs) \in Nat /\ \A d \in DOMAIN cs : cs[d] \in Calls
  BY LenProperties, ElementOfSeq
<1> DEFINE e == Settled(cs[c], m)
<1>2. /\ e \in Calls
      /\ e.op = cs[c].op /\ e.wellFormed = cs[c].wellFormed /\ e.sent = cs[c].sent
      /\ e.state # "pending" /\ e.by = m.to
  BY <1>1, SettledCall
<1>3. new = [cs EXCEPT ![c] = e]
  OBVIOUS
<1> HIDE DEF e
<1>4. /\ DOMAIN new = DOMAIN cs /\ new[c] = e
      /\ \A d \in DOMAIN cs : d # c => new[d] = cs[d]
  BY <1>3
<1>5. new \in Seq(Calls) /\ Len(new) = Len(cs)
  <2>1. new \in [1 .. Len(cs) -> Calls]
    BY <1>1, <1>2, <1>3
  <2> QED
    BY <1>1, <2>1, SeqDef, LenProperties
<1> QED
  BY <1>2, <1>4, <1>5

-----------------------------------------------------------------------------
(* A call keeps its operation, how it was made, whether it was sent and     *)
(* whether its answer came without a method.                                *)
CallsStay ==
  /\ \A c \in DOMAIN calls :
       /\ c \in DOMAIN calls'
       /\ calls'[c].op = calls[c].op
       /\ calls'[c].wellFormed = calls[c].wellFormed
       /\ calls'[c].sent = calls[c].sent
  /\ unnamed \subseteq unnamed'

(* Then what was on its way still fits, in the same lanes, and a stream     *)
(* that nobody disturbs was not disturbed before.                           *)
LEMMA FitsStay ==
  ASSUME CallsStay
  PROVE  /\ \A r : RequestFits(r) => RequestFits(r)'
         /\ \A m : ReplyFits(m) => ReplyFits(m)'
         /\ \A c \in DOMAIN calls : Asking(c) => Asking(c)'
<1>1. \A c : Asking(c) => /\ Asking(c)' /\ calls'[c].op = calls[c].op
                          /\ calls'[c].wellFormed = calls[c].wellFormed
  BY DEF CallsStay, Asking
<1>2. ASSUME NEW r, RequestFits(r)
      PROVE  RequestFits(r)'
  BY <1>1, <1>2 DEF RequestFits
<1>3. ASSUME NEW m, ReplyFits(m)
      PROVE  ReplyFits(m)'
  <2>1. m.to \in unnamed => m.to \in unnamed'
    BY DEF CallsStay
  <2> QED
    BY <1>1, <1>3, <2>1 DEF ReplyFits
<1> QED
  BY <1>1, <1>2, <1>3

LEMMA LanesStay ==
  ASSUME CallsStay
  PROVE  /\ \A c \in DOMAIN calls : Lane(c)' = Lane(c)
         /\ \A c, d \in DOMAIN calls : SameLane(c, d)' <=> SameLane(c, d)
<1>1. \A c \in DOMAIN calls : Lane(c)' = Lane(c)
  BY DEF CallsStay, Lane
<1> QED
  BY <1>1 DEF SameLane

LEMMA PeaceStays ==
  ASSUME CallsStay
  PROVE  /\ \A s : Peaceful(s)' => Peaceful(s)
         /\ \A c \in DOMAIN calls : Streamed(c)' <=> Streamed(c)
         /\ \A c \in DOMAIN calls : Undisturbed(c)' => Undisturbed(c)
<1>1. ASSUME NEW s, Peaceful(s)'
      PROVE  Peaceful(s)
  BY <1>1 DEF Peaceful, CallsStay
<1>2. \A c \in DOMAIN calls : Streamed(c)' <=> Streamed(c)
  BY DEF Streamed, CallsStay
<1>3. ASSUME NEW c \in DOMAIN calls, Undisturbed(c)'
      PROVE  Undisturbed(c)
  BY <1>3 DEF Undisturbed, ByMethod, CallsStay
<1> QED
  BY <1>1, <1>2, <1>3

LEMMA SettledStay ==
  ASSUME Typed, NEW c \in DOMAIN calls, NEW m \in Replies,
         calls' = IF Pending(c) THEN [calls EXCEPT ![c] = Settled(@, m)] ELSE calls,
         UNCHANGED unnamed
  PROVE  /\ CallsStay
         /\ calls' \in Seq(Calls) /\ DOMAIN calls' = DOMAIN calls /\ Len(calls') = Len(calls)
         /\ \A d \in DOMAIN calls : d # c => calls'[d] = calls[d]
         /\ ~Pending(c)'
         /\ calls'[c].by = IF Pending(c) THEN m.to ELSE calls[c].by
<1>1. calls \in Seq(Calls)
  BY DEF Typed
<1>2. CASE Pending(c)
  <2>1. calls' = [calls EXCEPT ![c] = Settled(@, m)]
    BY <1>2
  <2>2. /\ calls' \in Seq(Calls) /\ DOMAIN calls' = DOMAIN calls /\ Len(calls') = Len(calls)
        /\ \A d \in DOMAIN calls : d # c => calls'[d] = calls[d]
        /\ calls'[c].state # "pending" /\ calls'[c].by = m.to
        /\ \A d \in DOMAIN calls : /\ calls'[d].op = calls[d].op
                                   /\ calls'[d].wellFormed = calls[d].wellFormed
                                   /\ calls'[d].sent = calls[d].sent
    BY <1>1, <2>1, SettledCalls
  <2> QED
    BY <1>2, <2>2 DEF CallsStay, Pending
<1>3. CASE ~Pending(c)
  BY <1>1, <1>3 DEF CallsStay, Pending
<1> QED
  BY <1>2, <1>3

(* A call is made: the one after the last.                                  *)
LEMMA MadeStay ==
  ASSUME Typed, NEW e \in Calls, calls' = Append(calls, e), UNCHANGED unnamed
  PROVE  /\ CallsStay
         /\ calls' \in Seq(Calls) /\ Len(calls') = Len(calls) + 1
         /\ DOMAIN calls' = 1 .. Len(calls) + 1
         /\ calls'[Len(calls) + 1] = e
         /\ \A d \in DOMAIN calls : calls'[d] = calls[d]
         /\ \A d \in DOMAIN calls' : d \in DOMAIN calls \/ d = Len(calls) + 1
         /\ \A d \in DOMAIN calls : d < Len(calls) + 1
<1>1. calls \in Seq(Calls)
  BY DEF Typed
<1>2. /\ Append(calls, e) \in Seq(Calls)
      /\ Len(calls) \in Nat
      /\ Len(Append(calls, e)) = Len(calls) + 1
      /\ DOMAIN calls = 1 .. Len(calls)
      /\ DOMAIN Append(calls, e) = 1 .. Len(calls) + 1
      /\ \A i \in DOMAIN calls : i \in DOMAIN Append(calls, e) /\ Append(calls, e)[i] = calls[i]
      /\ Append(calls, e)[Len(calls) + 1] = e
  BY <1>1, Appended
<1> QED
  BY <1>2 DEF CallsStay

(* MakeCall, by the kind of the operation.                                  *)
LEMMA MakeCases ==
  ASSUME Typed, MakeCall, NEW n, n = Len(calls) + 1, NEW op, op = workload[n]
  PROVE  /\ context = "ready" /\ n \in Nat /\ Len(calls) < Len(workload)
         /\ UNCHANGED <<platform, context, reported, workload, clients, queues, toClient, unnamed>>
         /\ \/ /\ op \in Operations
               /\ \E w \in BOOLEAN :
                    \/ CallMethod(n, op, w)
                    \/ op.stream \in Streams /\ AwaitNext(n, op, w)
            \/ op = Shutdown /\ ShutdownClient(op)
<1>1. /\ context = "ready" /\ Len(calls) < Len(workload)
      /\ UNCHANGED <<platform, context, reported, workload, clients, queues, toClient, unnamed>>
      /\ \/ \E w \in {TRUE, ~op.params} :
              \/ CallMethod(n, op, w)
              \/ CallMempoolClient(n, op, w)
              \/ CallTransactionClient(n, op, w)
         \/ ShutdownClient(op)
  BY DEF MakeCall
<1>2. Len(calls) \in Nat /\ Len(workload) \in Nat /\ DOMAIN workload = 1 .. Len(workload)
  BY LenProperties DEF Typed
<1>3. n \in Nat /\ n \in DOMAIN workload
  BY <1>1, <1>2
<1>4. op \in Operations \cup {Shutdown}
  BY <1>3, ElementOfSeq DEF Typed
<1>5. Shutdown.stream = "none"
  BY DEF Shutdown, Operation
<1>6. CASE ShutdownClient(op)
  BY <1>1, <1>3, <1>6 DEF ShutdownClient
<1>7. ASSUME NEW w \in {TRUE, ~op.params},
             \/ CallMethod(n, op, w)
             \/ CallMempoolClient(n, op, w)
             \/ CallTransactionClient(n, op, w)
      PROVE  /\ op \in Operations /\ w \in BOOLEAN
             /\ CallMethod(n, op, w) \/ (op.stream \in Streams /\ AwaitNext(n, op, w))
  <2>1. op # Shutdown
    BY <1>5, <1>7 DEF CallMethod, CallMempoolClient, CallTransactionClient
  <2>2. op \in Operations /\ op.params \in BOOLEAN
    BY <1>4, <2>1, OperationFacts DEF IsOperation
  <2>3. w \in BOOLEAN
    BY <2>2
  <2>4. CallMethod(n, op, w) \/ (op.stream \in Streams /\ AwaitNext(n, op, w))
    BY <1>7 DEF CallMempoolClient, CallTransactionClient, Streams
  <2> QED
    BY <2>2, <2>3, <2>4
<1> QED
  BY <1>1, <1>3, <1>6, <1>7

-----------------------------------------------------------------------------
(* The first of a sequence and the others; the last and the others.         *)
LEMMA FirstAndRest ==
  ASSUME NEW S, NEW s \in Seq(S), s # <<>>, NEW t, t = Tail(s)
  PROVE  /\ t \in Seq(S) /\ Head(s) = s[1] /\ Head(s) \in S /\ 1 \in DOMAIN s
         /\ \A i \in DOMAIN t : i \in Nat /\ i >= 1 /\ i + 1 \in DOMAIN s /\ t[i] = s[i + 1]
         /\ \A j \in DOMAIN s : j \in Nat /\ (j = 1 \/ (j - 1 \in DOMAIN t /\ t[j - 1] = s[j]))
         /\ \A j \in DOMAIN s : j >= 1
<1>1. /\ Head(s) \in S /\ Head(s) = s[1] /\ 1 \in DOMAIN s /\ t \in Seq(S)
      /\ Len(s) \in Nat /\ Len(t) = Len(s) - 1
      /\ \A i \in DOMAIN t : i \in Nat /\ i + 1 \in DOMAIN s /\ t[i] = s[i + 1]
  BY Popped
<1>2. DOMAIN s = 1 .. Len(s) /\ DOMAIN t = 1 .. Len(s) - 1
  BY <1>1, LenProperties
<1>3. \A j \in 1 .. Len(s) : j # 1 => j - 1 \in 1 .. Len(s) - 1 /\ (j - 1) + 1 = j
  BY <1>1
<1> QED
  BY <1>1, <1>2, <1>3

LEMMA LastAndOthers ==
  ASSUME NEW S, NEW s \in Seq(S), NEW e \in S, NEW t, t = Append(s, e)
  PROVE  /\ t \in Seq(S) /\ t # <<>>
         /\ \A i \in DOMAIN s : i \in DOMAIN t /\ t[i] = s[i] /\ i < Len(s) + 1
         /\ Len(s) + 1 \in DOMAIN t /\ t[Len(s) + 1] = e
         /\ \A j \in DOMAIN t : j \in Nat /\ (j = Len(s) + 1 \/ j \in DOMAIN s)
<1>1. /\ t \in Seq(S) /\ Len(s) \in Nat
      /\ DOMAIN s = 1 .. Len(s)
      /\ DOMAIN t = 1 .. Len(s) + 1
      /\ \A i \in DOMAIN s : i \in DOMAIN t /\ t[i] = s[i]
      /\ t[Len(s) + 1] = e
  BY Appended
<1>2. t # <<>>
  BY AppendProperties
<1> QED
  BY <1>1, <1>2

LEMMA OnlyOne ==
  ASSUME NEW e, NEW t, t = <<e>>
  PROVE  DOMAIN t = {1} /\ t[1] = e
OBVIOUS

(* What a generator does with its replies when a call comes or ends.        *)
Moved(g, h) ==
  \/ h.given = g.given /\ h.events = g.events
  \/ h.given = <<>> /\ h.events = g.events
  \/ g.events # <<>> /\ h.given = <<Head(g.events)>> /\ h.events = Tail(g.events)

LEMMA OrderMoved ==
  ASSUME NEW g \in Generators(Replies, Nat), NEW h \in Generators(Replies, Nat),
         Moved(g, h), OrderedStream(g)
  PROVE  OrderedStream(h)
<1>0. g.events \in Seq(Replies) /\ g.given \in Seq(Replies)
  BY GeneratorSequences
<1>1. CASE h.given = g.given /\ h.events = g.events
  BY <1>1 DEF OrderedStream
<1>2. CASE h.given = <<>> /\ h.events = g.events
  BY <1>2 DEF OrderedStream
<1>3. CASE g.events # <<>> /\ h.given = <<Head(g.events)>> /\ h.events = Tail(g.events)
  <2> DEFINE s == g.events
             t == h.events
  <2>1. /\ Head(s) = s[1] /\ 1 \in DOMAIN s
        /\ \A i \in DOMAIN t : i \in Nat /\ i >= 1 /\ i + 1 \in DOMAIN s /\ t[i] = s[i + 1]
        /\ \A j \in DOMAIN s : j >= 1
    BY <1>0, <1>3, FirstAndRest
  <2>2. DOMAIN h.given = {1} /\ h.given[1] = s[1]
    BY <1>3, <2>1, OnlyOne
  <2>3. /\ LaneAscending(s)
        /\ \A i \in DOMAIN s : Answered(s[i].to) /\ BeforeAll(s[i].to, toClient)
    BY DEF OrderedStream
  <2> HIDE DEF s, t
  <2>4. \A i, j \in DOMAIN t : i < j => i + 1 < j + 1
    BY <2>1
  <2>5. LaneAscending(t)
    BY <2>1, <2>3, <2>4 DEF LaneAscending
  <2>6. BeforeAll(s[1].to, t)
    <3>1. \A i \in DOMAIN t : 1 < i + 1
      BY <2>1
    <3> QED
      BY <2>1, <2>3, <3>1 DEF LaneAscending, BeforeAll
  <2>7. \A i \in DOMAIN t : Answered(t[i].to) /\ BeforeAll(t[i].to, toClient)
    BY <2>1, <2>3
  <2> QED
    BY <2>1, <2>2, <2>3, <2>5, <2>6, <2>7 DEF OrderedStream, t
<1> QED
  BY <1>1, <1>2, <1>3 DEF Moved

(* An order that holds of a generator's replies is kept, as long as what is *)
(* on its way stays behind what was answered.                               *)
AnsweredStay ==
  \A c \in DOMAIN calls :
    /\ Answered(c) => Answered(c)'
    /\ Answered(c) /\ BeforeAll(c, toClient) => BeforeAll(c, toClient)'

LEMMA OrderCarried ==
  ASSUME CallsStay, AnsweredStay, NEW h, OrderedStream(h),
         \A i \in DOMAIN h.events : h.events[i].to \in DOMAIN calls,
         \A i \in DOMAIN h.given : h.given[i].to \in DOMAIN calls
  PROVE  OrderedStream(h)'
<1>1. \A c, d \in DOMAIN calls : SameLane(c, d)' <=> SameLane(c, d)
  BY LanesStay
<1>2. LaneAscending(h.events)'
  BY <1>1 DEF OrderedStream, LaneAscending
<1>3. \A i \in DOMAIN h.events :
        Answered(h.events[i].to)' /\ BeforeAll(h.events[i].to, toClient)'
  BY DEF OrderedStream, AnsweredStay
<1>4. \A i \in DOMAIN h.given :
        Answered(h.given[i].to)' /\ BeforeAll(h.given[i].to, toClient)'
  BY DEF OrderedStream, AnsweredStay
<1>5. \A i \in DOMAIN h.given : BeforeAll(h.given[i].to, h.events)'
  BY <1>1 DEF OrderedStream, BeforeAll
<1> QED
  BY <1>2, <1>3, <1>4, <1>5 DEF OrderedStream

(* Which replies a generator has.                                           *)
LEMMA RepliesMoved ==
  ASSUME NEW g \in Generators(Replies, Nat), NEW h \in Generators(Replies, Nat),
         \/ h.given = g.given /\ h.events = g.events
         \/ /\ g.given = <<>> /\ g.events # <<>>
            /\ h.given = <<Head(g.events)>> /\ h.events = Tail(g.events)
  PROVE  \A c : Kept(h, c) \/ Given(h, c) <=> Kept(g, c) \/ Given(g, c)
<1>0. g.events \in Seq(Replies) /\ g.given \in Seq(Replies)
  BY GeneratorSequences
<1>1. CASE h.given = g.given /\ h.events = g.events
  BY <1>1 DEF Kept, Given
<1>2. CASE /\ g.given = <<>> /\ g.events # <<>>
           /\ h.given = <<Head(g.events)>> /\ h.events = Tail(g.events)
  <2>1. /\ Head(g.events) = g.events[1] /\ 1 \in DOMAIN g.events
        /\ \A i \in DOMAIN h.events : i + 1 \in DOMAIN g.events /\ h.events[i] = g.events[i + 1]
        /\ \A j \in DOMAIN g.events :
             j = 1 \/ (j - 1 \in DOMAIN h.events /\ h.events[j - 1] = g.events[j])
    BY <1>0, <1>2, FirstAndRest
  <2>2. DOMAIN h.given = {1} /\ h.given[1] = g.events[1] /\ DOMAIN g.given = {}
    BY <1>2, <2>1, OnlyOne
  <2> QED
    BY <2>1, <2>2 DEF Kept, Given
<1> QED
  BY <1>1, <1>2

(* And where they come from.                                                *)
LEMMA RepliesFrom ==
  ASSUME NEW g \in Generators(Replies, Nat), NEW h \in Generators(Replies, Nat), Moved(g, h)
  PROVE  /\ \A i \in DOMAIN h.events : \E j \in DOMAIN g.events : h.events[i] = g.events[j]
         /\ \A i \in DOMAIN h.given :
              \/ \E j \in DOMAIN g.events : h.given[i] = g.events[j]
              \/ i \in DOMAIN g.given /\ h.given[i] = g.given[i]
<1>0. g.events \in Seq(Replies) /\ g.given \in Seq(Replies)
  BY GeneratorSequences
<1>1. CASE h.given = g.given /\ h.events = g.events
  BY <1>1
<1>2. CASE h.given = <<>> /\ h.events = g.events
  BY <1>2
<1>3. CASE g.events # <<>> /\ h.given = <<Head(g.events)>> /\ h.events = Tail(g.events)
  <2>1. /\ Head(g.events) = g.events[1] /\ 1 \in DOMAIN g.events
        /\ \A i \in DOMAIN h.events : i + 1 \in DOMAIN g.events /\ h.events[i] = g.events[i + 1]
    BY <1>0, <1>3, FirstAndRest
  <2>2. DOMAIN h.given = {1} /\ h.given[1] = g.events[1]
    BY <1>3, <2>1, OnlyOne
  <2> QED
    BY <2>1, <2>2
<1> QED
  BY <1>1, <1>2, <1>3 DEF Moved

-----------------------------------------------------------------------------
(* What a client has and what is on its way, when neither is touched: the   *)
(* callbacks of the context, and the creation of clients.                   *)
Quiet ==
  /\ UNCHANGED <<generators, toServer, queues, toClient>>
  /\ CallsStay
  /\ DOMAIN calls' = DOMAIN calls
  /\ \A c \in DOMAIN calls : calls'[c].by = calls[c].by
  /\ readyState' = "OPEN" =>
       (readyState = "OPEN" /\ calls' = calls) \/ DOMAIN calls = {}

LEMMA FitsKnown ==
  ASSUME Typed, Fitting
  PROVE  /\ \A i \in DOMAIN toServer : toServer[i].call \in DOMAIN calls
         /\ \A p \in Protocols : \A i \in DOMAIN queues[p] : queues[p][i].call \in DOMAIN calls
         /\ \A i \in DOMAIN toClient : toClient[i].to \in DOMAIN calls
         /\ \A i \in DOMAIN toServer : RequestFits(toServer[i])
         /\ \A p \in Protocols : \A i \in DOMAIN queues[p] :
              RequestFits(queues[p][i]) /\ queues[p][i].wellFormed /\ queues[p][i].op.protocol = p
         /\ \A i \in DOMAIN toClient : ReplyFits(toClient[i])
         /\ \A s \in Streams :
              /\ \A i \in DOMAIN generators[s].events : generators[s].events[i].to \in DOMAIN calls
              /\ \A i \in DOMAIN generators[s].given : generators[s].given[i].to \in DOMAIN calls
<1>1. /\ \A r : RequestFits(r) => r.call \in DOMAIN calls
      /\ \A m : ReplyFits(m) => m.to \in DOMAIN calls
  BY DEF RequestFits, ReplyFits, Asking
<1>2. /\ \A i \in DOMAIN toServer : RequestFits(toServer[i])
      /\ \A p \in Protocols : \A i \in DOMAIN queues[p] :
           RequestFits(queues[p][i]) /\ queues[p][i].wellFormed /\ queues[p][i].op.protocol = p
      /\ \A i \in DOMAIN toClient : ReplyFits(toClient[i])
  BY DEF Fitting, Range
<1>3. ASSUME NEW s \in Streams
      PROVE  /\ \A i \in DOMAIN generators[s].events : ReplyFits(generators[s].events[i])
             /\ \A i \in DOMAIN generators[s].given : ReplyFits(generators[s].given[i])
  BY DEF Fitting, Range
<1> QED
  BY <1>1, <1>2, <1>3

(* The responses to come are in order, given that those of each lane were.  *)
LEMMA LaneAscendingStays ==
  ASSUME CallsStay, NEW q, LaneAscending(q), \A i \in DOMAIN q : q[i].to \in DOMAIN calls
  PROVE  LaneAscending(q)'
BY LanesStay DEF LaneAscending

LEMMA AnsweredStayQuiet ==
  ASSUME Typed, Fitting, CallsStay, UNCHANGED <<toServer, queues, toClient>>
  PROVE  AnsweredStay
<1>1. ASSUME NEW c \in DOMAIN calls, Answered(c)
      PROVE  Answered(c)'
  BY <1>1, LanesStay DEF Answered
<1>2. ASSUME NEW c \in DOMAIN calls, BeforeAll(c, toClient)
      PROVE  BeforeAll(c, toClient)'
  BY <1>2, LanesStay, FitsKnown DEF BeforeAll
<1> QED
  BY <1>1, <1>2 DEF AnsweredStay

LEMMA StreamIs ==
  ASSUME NEW s, NEW h, generators'[s] = h, OrderedStream(h)'
  PROVE  OrderedStream(generators[s])'
BY DEF OrderedStream, LaneAscending, BeforeAll, Answered, SameLane, Lane

LEMMA QuietStep ==
  ASSUME Inv, Quiet
  PROVE  Fitting' /\ Ordered' /\ OrderedStreams' /\ Waiting' /\ Accounted' /\ OwnResponse'
<1>0. Typed /\ Fitting /\ Ordered /\ OrderedStreams /\ Waiting /\ Accounted /\ OwnResponse
  BY DEF Inv
<1>1. /\ UNCHANGED <<generators, toServer, queues, toClient>>
      /\ CallsStay /\ DOMAIN calls' = DOMAIN calls
  BY DEF Quiet
<1>2. Fitting'
  BY <1>0, <1>1, FitsStay DEF Fitting
<1>3. AnsweredStay
  BY <1>0, <1>1, AnsweredStayQuiet
<1>4. Ordered'
  <2>1. LaneAscending(toClient)'
    <3>1. \A i \in DOMAIN toClient : toClient[i].to \in DOMAIN calls
      BY <1>0, FitsKnown
    <3> QED
      BY <1>0, <1>1, <3>1, LanesStay DEF Ordered, LaneAscending
  <2>2. \A c \in DOMAIN calls' : Arriving(c)' => Answered(c)'
    BY <1>0, <1>1, <1>3 DEF Ordered, AnsweredStay, Arriving
  <2> QED
    BY <1>0, <1>1, <2>1, <2>2 DEF Ordered, Ascending
<1>5. OrderedStreams'
  <2> SUFFICES ASSUME NEW s \in Streams
               PROVE  OrderedStream(generators[s])'
    BY DEF OrderedStreams
  <2>1. PICK h : h = generators[s]
    OBVIOUS
  <2>2. /\ OrderedStream(h)
        /\ \A i \in DOMAIN h.events : h.events[i].to \in DOMAIN calls
        /\ \A i \in DOMAIN h.given : h.given[i].to \in DOMAIN calls
    BY <1>0, <2>1, FitsKnown DEF OrderedStreams
  <2>3. OrderedStream(h)'
    BY <1>1, <1>3, <2>2, OrderCarried
  <2> QED
    BY <1>1, <2>1, <2>3, StreamIs
<1>6. Waiting'
  <2> SUFFICES ASSUME NEW s \in Streams
               PROVE  /\ OneServed(generators[s])'
                      /\ \A i \in DOMAIN generators[s]'.callers :
                           LET c == generators[s]'.callers[i]
                           IN  c \in DOMAIN calls' /\ calls'[c].op.stream = s
                      /\ \A i, j \in DOMAIN generators[s]'.callers :
                           i < j => generators[s]'.callers[i] < generators[s]'.callers[j]
                      /\ readyState' = "OPEN" => \A c \in DOMAIN calls' :
                           calls'[c].op.stream = s => (Pending(c)' <=> Waits(s, c)')
    BY DEF Waiting
  <2>1. OneServed(generators[s])'
    BY <1>0, <1>1 DEF Waiting, OneServed
  <2>2. /\ \A i \in DOMAIN generators[s].callers :
             LET c == generators[s].callers[i]
             IN  c \in DOMAIN calls /\ calls[c].op.stream = s
        /\ \A i, j \in DOMAIN generators[s].callers :
             i < j => generators[s].callers[i] < generators[s].callers[j]
    BY <1>0 DEF Waiting
  <2>3. /\ \A i \in DOMAIN generators[s]'.callers :
             LET c == generators[s]'.callers[i]
             IN  c \in DOMAIN calls' /\ calls'[c].op.stream = s
        /\ \A i, j \in DOMAIN generators[s]'.callers :
             i < j => generators[s]'.callers[i] < generators[s]'.callers[j]
    BY <1>1, <2>2 DEF CallsStay
  <2>4. ASSUME readyState' = "OPEN", NEW c \in DOMAIN calls', calls'[c].op.stream = s
        PROVE  Pending(c)' <=> Waits(s, c)'
    <3>1. readyState = "OPEN" /\ calls' = calls
      BY <1>1, <2>4 DEF Quiet
    <3> QED
      BY <1>0, <1>1, <2>4, <3>1 DEF Waiting, Pending, Waits
  <2> QED
    BY <2>1, <2>3, <2>4
<1>7. Accounted'
  <2>1. \A c \in DOMAIN calls : OnItsWay(c)' <=> OnItsWay(c)
    BY <1>1 DEF OnItsWay, Sending, Queued, Arriving, CallsStay
  <2>2. ASSUME NEW s \in Streams, Peaceful(s)'
        PROVE  OwnStream(s)'
    <3>1. OwnStream(s)
      BY <1>0, <1>1, <2>2, PeaceStays DEF Accounted
    <3>2. /\ \A i \in DOMAIN generators[s].events : generators[s].events[i].to \in DOMAIN calls
          /\ \A i \in DOMAIN generators[s].given : generators[s].given[i].to \in DOMAIN calls
      BY <1>0, FitsKnown
    <3>3. \A c : /\ Waits(s, c)' <=> Waits(s, c)
                 /\ Kept(generators[s], c)' <=> Kept(generators[s], c)
                 /\ Given(generators[s], c)' <=> Given(generators[s], c)
      BY <1>1 DEF Waits, Kept, Given
    <3> QED
      BY <1>1, <2>1, <3>1, <3>2, <3>3 DEF OwnStream, CallsStay
  <2>3. ASSUME readyState' = "OPEN", NEW c \in DOMAIN calls',
               calls'[c].op.stream = "none", calls'[c].op # Shutdown
        PROVE  Pending(c)' <=> OnItsWay(c)'
    <3>1. readyState = "OPEN" /\ calls' = calls
      BY <1>1, <2>3 DEF Quiet
    <3> QED
      BY <1>0, <1>1, <2>1, <2>3, <3>1 DEF Accounted, Pending
  <2> QED
    BY <2>2, <2>3 DEF Accounted
<1>8. OwnResponse'
  <2> SUFFICES ASSUME NEW c \in DOMAIN calls', calls'[c].by # None,
                      Streamed(c)' => Undisturbed(c)'
               PROVE  calls'[c].by = c
    BY DEF OwnResponse
  <2>1. calls[c].by # None /\ (Streamed(c) => Undisturbed(c))
    BY <1>1, PeaceStays DEF Quiet
  <2> QED
    BY <1>0, <1>1, <2>1 DEF OwnResponse, Quiet
<1> QED
  BY <1>2, <1>4, <1>5, <1>6, <1>7, <1>8

-----------------------------------------------------------------------------
(* The server takes requests and makes responses; it touches nothing else.  *)
LEMMA ServerStep ==
  ASSUME Inv, UNCHANGED <<connection, workload, clients, generators>>,
         unnamed \subseteq unnamed',
         toServer' \in Seq(Requests), queues' \in [Protocols -> Seq(Requests)],
         toClient' \in Seq(Replies),
         Fitting', Ordered', AnsweredStay,
         \A c \in DOMAIN calls : calls[c].op # Shutdown => (OnItsWay(c)' <=> OnItsWay(c))
  PROVE  Inv'
<1> USE DEF connection
<1>0. UNCHANGED <<platform, context, readyState, listeners, calls, reported>>
  OBVIOUS
<1>1. CallsStay
  BY <1>0 DEF CallsStay
<1>2. Typed'
  BY <1>0 DEF Inv, Typed
<1>3. Programmed'
  <2>1. \A c : Streamed(c)' <=> Streamed(c)
    BY <1>0 DEF Streamed
  <2> QED
    BY <1>0, <2>1 DEF Inv, Programmed
<1>4. Staged'
  BY <1>0 DEF Inv, Staged
<1>5. Registered'
  BY <1>0 DEF Inv, Registered, Connected, Has, Pending, Streamed, ListensTo, Listener
<1>6. Told'
  BY <1>0 DEF Inv, Told, CloseReported, Connected, Has, Pending, Listener
<1>7. OrderedStreams'
  <2> SUFFICES ASSUME NEW s \in Streams
               PROVE  OrderedStream(generators[s])'
    BY DEF OrderedStreams
  <2>1. PICK h : h = generators[s]
    OBVIOUS
  <2>2. /\ OrderedStream(h)
        /\ \A i \in DOMAIN h.events : h.events[i].to \in DOMAIN calls
        /\ \A i \in DOMAIN h.given : h.given[i].to \in DOMAIN calls
    BY <2>1, FitsKnown DEF Inv, OrderedStreams
  <2>3. OrderedStream(h)'
    BY <1>1, <2>2, OrderCarried
  <2> QED
    BY <2>1, <2>3, StreamIs
<1>8. Waiting'
  BY <1>0 DEF Inv, Waiting, OneServed, Waits, Pending
<1>9. Accounted'
  <2>1. \A s \in Streams : Peaceful(s)' => Peaceful(s)
    BY <1>1, PeaceStays
  <2>2. \A s \in Streams : \A c : /\ Waits(s, c)' <=> Waits(s, c)
                                  /\ Kept(generators[s], c)' <=> Kept(generators[s], c)
                                  /\ Given(generators[s], c)' <=> Given(generators[s], c)
    BY DEF Waits, Kept, Given
  <2>3. ASSUME NEW s \in Streams, OwnStream(s)
        PROVE  OwnStream(s)'
    <3>1. \A c \in DOMAIN calls : calls[c].op.stream = s => calls[c].op # Shutdown
      BY DEF Shutdown, Operation, Streams
    <3> QED
      BY <1>0, <2>2, <2>3, <3>1 DEF OwnStream
  <2> QED
    BY <1>0, <2>1, <2>3 DEF Inv, Accounted, Pending
<1>10. OwnResponse'
  BY <1>0, <1>1, PeaceStays DEF Inv, OwnResponse
<1> QED
  BY <1>2, <1>3, <1>4, <1>5, <1>6, <1>7, <1>8, <1>9, <1>10 DEF Inv

(* Routing a request: what is known of the first one on its way.            *)
FirstToRoute(r, rest) ==
  /\ r \in Requests /\ rest \in Seq(Requests)
  /\ RequestFits(r) /\ r.call \in DOMAIN calls
  /\ r.op = calls[r.call].op /\ r.wellFormed = calls[r.call].wellFormed
  /\ r.op.protocol \in Protocols
  /\ \A i \in DOMAIN rest : i + 1 \in DOMAIN toServer /\ rest[i] = toServer[i + 1]
  /\ \A j \in DOMAIN rest : r.call < rest[j].call
  /\ Ascending(rest)
  /\ \A c : Sending(c) <=> c = r.call \/ \E i \in DOMAIN rest : rest[i].call = c
  /\ \A c : Answered(c) => c < r.call /\ \A i \in DOMAIN rest : c < rest[i].call
  /\ \A p \in Protocols : \A i \in DOMAIN queues[p] :
       queues[p][i].call < r.call /\ \A j \in DOMAIN rest : queues[p][i].call < rest[j].call

LEMMA RouteFirst ==
  ASSUME Inv, toServer # <<>>, NEW r, r = Head(toServer), NEW rest, rest = Tail(toServer)
  PROVE  FirstToRoute(r, rest)
<1>0. toServer \in Seq(Requests) /\ Fitting /\ Ordered /\ Ascending(toServer)
  BY DEF Inv, Typed, Ordered
<1>1. /\ rest \in Seq(Requests) /\ r = toServer[1] /\ r \in Requests /\ 1 \in DOMAIN toServer
      /\ \A i \in DOMAIN rest :
           i \in Nat /\ i >= 1 /\ i + 1 \in DOMAIN toServer /\ rest[i] = toServer[i + 1]
      /\ \A j \in DOMAIN toServer :
           j \in Nat /\ (j = 1 \/ (j - 1 \in DOMAIN rest /\ rest[j - 1] = toServer[j]))
  BY <1>0, FirstAndRest
<1>2. RequestFits(r)
  BY <1>0, <1>1, FitsKnown DEF Inv
<1>3. /\ r.call \in DOMAIN calls
      /\ r.op = calls[r.call].op /\ r.wellFormed = calls[r.call].wellFormed
  <2>1. r.call \in DOMAIN calls /\ r = Request(r.call, calls[r.call].op, calls[r.call].wellFormed)
    BY <1>2 DEF RequestFits, Asking
  <2> QED
    BY <2>1 DEF Request
<1>4. r.op.protocol \in Protocols
  BY <1>1, RequestFields DEF IsOperation
<1>5. \A i \in DOMAIN rest : 1 < i + 1
  BY <1>1
<1>6. \A i, j \in DOMAIN rest : i < j => i + 1 < j + 1
  BY <1>1
<1>7. Ascending(rest)
  BY <1>0, <1>1, <1>6 DEF Ascending
<1>8. \A j \in DOMAIN rest : r.call < rest[j].call
  BY <1>0, <1>1, <1>5 DEF Ascending
<1>9. \A c : Sending(c) <=> c = r.call \/ \E i \in DOMAIN rest : rest[i].call = c
  <2> TAKE c
  <2>1. ASSUME NEW j \in DOMAIN toServer, toServer[j].call = c
        PROVE  c = r.call \/ \E i \in DOMAIN rest : rest[i].call = c
    <3>1. j = 1 \/ (j - 1 \in DOMAIN rest /\ rest[j - 1] = toServer[j])
      BY <1>1
    <3> QED
      BY <1>1, <2>1, <3>1
  <2>2. ASSUME c = r.call \/ \E i \in DOMAIN rest : rest[i].call = c
        PROVE  Sending(c)
    BY <1>1, <2>2 DEF Sending
  <2> QED
    BY <2>1, <2>2 DEF Sending
<1>10. \A c : Answered(c) => c < r.call /\ \A i \in DOMAIN rest : c < rest[i].call
  BY <1>1 DEF Answered
<1>11. \A p \in Protocols : \A i \in DOMAIN queues[p] :
         queues[p][i].call < r.call /\ \A j \in DOMAIN rest : queues[p][i].call < rest[j].call
  BY <1>0, <1>1 DEF Ordered
<1> QED
  BY <1>1, <1>2, <1>3, <1>4, <1>7, <1>8, <1>9, <1>10, <1>11 DEF FirstToRoute

LEMMA RouteToProtocol ==
  ASSUME Inv, Route, Head(toServer).wellFormed
  PROVE  Inv'
<1> DEFINE r == Head(toServer)
           p0 == r.op.protocol
           rest == Tail(toServer)
           q == queues[p0]
           q2 == Append(q, r)
<1>0. Typed /\ Fitting /\ Ordered
  BY DEF Inv
<1>1. /\ toServer # <<>> /\ toServer' = rest
      /\ queues' = [queues EXCEPT ![p0] = q2]
      /\ toClient' = toClient
      /\ UNCHANGED <<connection, workload, clients, generators, unnamed>>
  BY DEF Route
<1>2. /\ r \in Requests /\ rest \in Seq(Requests)
      /\ RequestFits(r) /\ r.call \in DOMAIN calls
      /\ r.op = calls[r.call].op /\ r.wellFormed = calls[r.call].wellFormed
      /\ p0 \in Protocols
      /\ \A i \in DOMAIN rest : i + 1 \in DOMAIN toServer /\ rest[i] = toServer[i + 1]
      /\ \A j \in DOMAIN rest : r.call < rest[j].call
      /\ Ascending(rest)
      /\ \A c : Sending(c) <=> c = r.call \/ \E i \in DOMAIN rest : rest[i].call = c
      /\ \A c : Answered(c) => c < r.call /\ \A i \in DOMAIN rest : c < rest[i].call
      /\ \A p \in Protocols : \A i \in DOMAIN queues[p] :
           queues[p][i].call < r.call /\ \A j \in DOMAIN rest : queues[p][i].call < rest[j].call
  <2>1. FirstToRoute(r, rest)
    BY <1>1, RouteFirst
  <2> QED
    BY <2>1 DEF FirstToRoute
<1>3. /\ q \in Seq(Requests) /\ queues \in [Protocols -> Seq(Requests)]
      /\ Len(q) \in Nat
      /\ \A i \in DOMAIN q : i \in Nat /\ q[i].call \in Nat
  <2>1. q \in Seq(Requests) /\ queues \in [Protocols -> Seq(Requests)]
    BY <1>0, <1>2, Sequences DEF Typed
  <2>2. /\ Len(q) \in Nat
        /\ \A i \in DOMAIN q : i \in Nat /\ q[i] \in Requests
    BY <2>1, LenProperties, ElementOfSeq
  <2> QED
    BY <2>1, <2>2, RequestFields
<1>4. /\ q2 \in Seq(Requests)
      /\ \A i \in DOMAIN q : i \in DOMAIN q2 /\ q2[i] = q[i] /\ i < Len(q) + 1
      /\ Len(q) + 1 \in DOMAIN q2 /\ q2[Len(q) + 1] = r
      /\ \A j \in DOMAIN q2 : j \in Nat /\ (j = Len(q) + 1 \/ j \in DOMAIN q)
  BY <1>2, <1>3, LastAndOthers, SMTT(30)
<1>5. r.wellFormed /\ r.op.protocol = p0
  OBVIOUS
<1>6. \A j \in DOMAIN toServer : toServer[j].call \in Nat
  BY <1>0, Sequences, RequestFields
<1> HIDE DEF r, p0, rest, q2
<1>7. /\ queues' \in [Protocols -> Seq(Requests)]
      /\ queues'[p0] = q2
      /\ \A p \in Protocols : p # p0 => queues'[p] = queues[p]
  BY <1>1, <1>2, <1>3, <1>4
<1>8. UNCHANGED <<platform, context, readyState, listeners, calls, reported>>
  BY <1>1 DEF connection
<1>9. CallsStay
  BY <1>1, <1>8 DEF CallsStay
<1>10. /\ \A x : RequestFits(x) => RequestFits(x)'
       /\ \A m : ReplyFits(m) => ReplyFits(m)'
  BY <1>9, FitsStay
<1>11. Fitting'
  <2>1. \A x \in Range(rest) : RequestFits(x)
    BY <1>0, <1>2 DEF Fitting, Range
  <2>2. \A p \in Protocols : \A x \in Range(queues'[p]) :
          RequestFits(x) /\ x.wellFormed /\ x.op.protocol = p
    <3>1. \A x \in Range(q2) : x = r \/ x \in Range(q)
      BY <1>4 DEF Range
    <3>2. \A x \in Range(q2) : RequestFits(x) /\ x.wellFormed /\ x.op.protocol = p0
      BY <1>0, <1>2, <1>5, <3>1 DEF Fitting
    <3> QED
      BY <1>0, <1>7, <3>2 DEF Fitting
  <2>3. \A p \in Protocols : \A x \in Range(queues'[p]) :
          RequestFits(x)' /\ x.wellFormed /\ x.op.protocol = p
    BY <1>10, <2>2
  <2>4. \A x \in Range(toServer') : RequestFits(x)'
    BY <1>1, <1>10, <2>1
  <2> QED
    BY <1>0, <1>1, <1>10, <2>3, <2>4 DEF Fitting
<1>12. AnsweredStay
  <2>1. ASSUME NEW c \in DOMAIN calls, Answered(c)
        PROVE  Answered(c)'
    <3>1. Lane(c)' = Lane(c)
      BY <1>9, LanesStay
    <3>2. \A p \in Protocols : Lane(c) = p => \A j \in DOMAIN queues'[p] : c < queues'[p][j].call
      <4>1. \A j \in DOMAIN queues'[p0] : Lane(c) = p0 => c < queues'[p0][j].call
        BY <1>2, <1>4, <1>7, <2>1 DEF Answered
      <4> QED
        BY <1>7, <2>1, <4>1 DEF Answered
    <3> QED
      BY <1>1, <1>2, <2>1, <3>1, <3>2 DEF Answered
  <2>2. ASSUME NEW c \in DOMAIN calls, BeforeAll(c, toClient)
        PROVE  BeforeAll(c, toClient)'
    BY <1>1, <1>8, <2>2 DEF BeforeAll, SameLane, Lane
  <2> QED
    BY <2>1, <2>2 DEF AnsweredStay
<1>13. Ordered'
  <2>1. Ascending(toServer)'
    BY <1>1, <1>2 DEF Ascending
  <2>2. Ascending(q2)
    <3>1. \A i, j \in DOMAIN q : i < j => q[i].call < q[j].call
      BY <1>0, <1>2 DEF Ordered, Ascending
    <3>2. \A i \in DOMAIN q : q[i].call < r.call
      BY <1>2
    <3> HIDE DEF q
    <3> QED
      BY <1>3, <1>4, <3>1, <3>2 DEF Ascending
  <2>3. \A p \in Protocols : Ascending(queues'[p])
    BY <1>0, <1>7, <2>2 DEF Ordered
  <2>4. \A p \in Protocols : \A i \in DOMAIN queues'[p] : \A j \in DOMAIN rest :
          queues'[p][i].call < rest[j].call
    <3>1. \A i \in DOMAIN q2 : \A j \in DOMAIN rest : q2[i].call < rest[j].call
      BY <1>2, <1>4
    <3> QED
      BY <1>2, <1>7, <3>1
  <2>5. LaneAscending(toClient)'
    BY <1>0, <1>1, <1>8 DEF Ordered, LaneAscending, SameLane, Lane
  <2>6. \A c \in DOMAIN calls' : Arriving(c)' => Answered(c)'
    BY <1>0, <1>1, <1>8, <1>12 DEF Ordered, AnsweredStay, Arriving
  <2> QED
    BY <1>1, <2>1, <2>3, <2>4, <2>5, <2>6 DEF Ordered, Ascending
<1>14. ASSUME NEW c \in DOMAIN calls, calls[c].op # Shutdown
       PROVE  OnItsWay(c)' <=> OnItsWay(c)
  <2> DEFINE p == calls[c].op.protocol
  <2>1. Sending(c)' <=> \E i \in DOMAIN rest : rest[i].call = c
    BY <1>1 DEF Sending
  <2>2. Arriving(c)' <=> Arriving(c)
    BY <1>1 DEF Arriving
  <2>3. c = r.call => p = p0
    BY <1>2 DEF p0
  <2>4. p \in Protocols
    <3>1. calls[c].op \in Operations
      BY <1>0, <1>14, Sequences DEF Calls
    <3> QED
      BY <3>1, OperationFacts DEF IsOperation
  <2>5. Queued(c)' <=> \E i \in DOMAIN queues'[p] : queues'[p][i].call = c
    BY <1>8 DEF Queued
  <2>6. Queued(c)' <=> Queued(c) \/ c = r.call
    <3>1. CASE p = p0
      <4>1. Queued(c)' <=> \E i \in DOMAIN q2 : q2[i].call = c
        BY <1>7, <2>5, <3>1
      <4>2. Queued(c) <=> \E i \in DOMAIN q : q[i].call = c
        BY <3>1 DEF Queued
      <4> HIDE DEF q
      <4> QED
        BY <1>4, <4>1, <4>2
    <3>2. CASE p # p0
      BY <1>7, <2>3, <2>4, <2>5, <3>2 DEF Queued
    <3> QED
      BY <3>1, <3>2
  <2> QED
    BY <1>2, <2>1, <2>2, <2>6 DEF OnItsWay
<1> QED
  BY <1>0, <1>1, <1>2, <1>7, <1>11, <1>12, <1>13, <1>14, ServerStep DEF Typed

(* A response leaves: it is the last of its lane.                           *)
LEMMA ReplyLeaves ==
  ASSUME Inv, UNCHANGED <<connection, workload, clients, generators>>,
         unnamed \subseteq unnamed',
         toServer' \in Seq(Requests), queues' \in [Protocols -> Seq(Requests)],
         NEW m \in Replies, ReplyFits(m)', toClient' = Append(toClient, m),
         \A r \in Range(toServer') : RequestFits(r),
         \A p \in Protocols : \A r \in Range(queues'[p]) :
           RequestFits(r) /\ r.wellFormed /\ r.op.protocol = p,
         Ascending(toServer'),
         \A p \in Protocols :
           /\ Ascending(queues'[p])
           /\ \A i \in DOMAIN queues'[p] : \A j \in DOMAIN toServer' :
                queues'[p][i].call < toServer'[j].call,
         \A c \in DOMAIN calls : Answered(c) =>
           Answered(c)' /\ (SameLane(c, m.to) => c < m.to),
         Answered(m.to)',
         \A c \in DOMAIN calls : calls[c].op # Shutdown =>
           (Sending(c)' \/ Queued(c)' \/ c = m.to <=> Sending(c) \/ Queued(c))
  PROVE  Inv'
<1>0. Typed /\ Fitting /\ Ordered
  BY DEF Inv
<1>1. UNCHANGED <<platform, context, readyState, listeners, calls, reported>>
  BY DEF connection
<1>2. CallsStay
  BY <1>1 DEF CallsStay
<1>3. /\ \A x : RequestFits(x) => RequestFits(x)'
      /\ \A x : ReplyFits(x) => ReplyFits(x)'
  BY <1>2, FitsStay
<1>4. toClient \in Seq(Replies)
  BY <1>0 DEF Typed
<1> DEFINE t == Append(toClient, m)
           n == Len(toClient) + 1
<1>5. /\ t \in Seq(Replies)
      /\ \A i \in DOMAIN toClient : i \in DOMAIN t /\ t[i] = toClient[i] /\ i < n
      /\ n \in DOMAIN t /\ t[n] = m
      /\ \A j \in DOMAIN t : j \in Nat /\ (j = n \/ j \in DOMAIN toClient)
  BY <1>4, LastAndOthers
<1>6. toClient' = t
  OBVIOUS
<1>7. Len(toClient) \in Nat
  BY <1>4, LenProperties
<1> HIDE DEF t, n
<1>8. Fitting'
  <2>1. \A x \in Range(t) : x = m \/ x \in Range(toClient)
    BY <1>5 DEF Range
  <2>2. \A x \in Range(t) : x = m \/ ReplyFits(x)
    BY <1>0, <2>1 DEF Fitting
  <2>3. \A x \in Range(toClient') : ReplyFits(x)'
    BY <1>3, <1>6, <2>2
  <2>4. /\ \A x \in Range(toServer') : RequestFits(x)'
        /\ \A p \in Protocols : \A x \in Range(queues'[p]) :
             RequestFits(x)' /\ x.wellFormed /\ x.op.protocol = p
    BY <1>3
  <2> QED
    BY <1>0, <1>3, <2>3, <2>4 DEF Fitting
<1>9. m.to \in DOMAIN calls
  BY <1>1 DEF ReplyFits, Asking
<1>11. AnsweredStay
  <2>1. ASSUME NEW c \in DOMAIN calls, Answered(c), BeforeAll(c, toClient)
        PROVE  BeforeAll(c, toClient)'
    <3>1. \A j \in DOMAIN t : SameLane(c, t[j].to) => c < t[j].to
      BY <1>5, <2>1 DEF BeforeAll
    <3> QED
      BY <1>1, <1>6, <3>1 DEF BeforeAll, SameLane, Lane
  <2> QED
    BY <2>1 DEF AnsweredStay
<1>12. Ordered'
  <2>1. LaneAscending(t)
    <3>1. \A i \in DOMAIN toClient : Answered(toClient[i].to) /\ toClient[i].to \in DOMAIN calls
      BY <1>0, FitsKnown DEF Ordered, Arriving
    <3>2. \A i \in DOMAIN toClient : SameLane(toClient[i].to, m.to) => toClient[i].to < m.to
      BY <3>1
    <3>3. \A i, j \in DOMAIN toClient :
            i < j /\ SameLane(toClient[i].to, toClient[j].to) => toClient[i].to < toClient[j].to
      BY <1>0 DEF Ordered, LaneAscending
    <3>4. \A i \in DOMAIN t : ~(n < i)
      BY <1>5, <1>7 DEF n
    <3> QED
      BY <1>5, <3>2, <3>3, <3>4 DEF LaneAscending
  <2>2. LaneAscending(toClient)'
    BY <1>1, <1>6, <2>1 DEF LaneAscending, SameLane, Lane
  <2>3. ASSUME NEW c \in DOMAIN calls', Arriving(c)'
        PROVE  Answered(c)'
    <3>1. c = m.to \/ Arriving(c)
      BY <1>5, <1>6, <2>3 DEF Arriving
    <3> QED
      BY <1>0, <1>1, <1>11, <3>1 DEF Ordered, AnsweredStay
  <2> QED
    BY <2>2, <2>3 DEF Ordered, Ascending
<1>13. ASSUME NEW c \in DOMAIN calls, calls[c].op # Shutdown
       PROVE  OnItsWay(c)' <=> OnItsWay(c)
  <2>1. Arriving(c)' <=> Arriving(c) \/ c = m.to
    BY <1>5, <1>6 DEF Arriving
  <2> QED
    BY <1>13, <2>1 DEF OnItsWay
<1> QED
  BY <1>5, <1>6, <1>8, <1>11, <1>12, <1>13, ServerStep

LEMMA RouteToClient ==
  ASSUME Inv, Route, NEW r, r = Head(toServer), ~r.wellFormed, NEW m, m = RpcError(r),
         NEW rest, rest = Tail(toServer)
  PROVE  Inv'
<1>0. Typed /\ Fitting /\ Ordered
  BY DEF Inv
<1>1. /\ toServer # <<>> /\ toServer' = rest
      /\ queues' = queues
      /\ toClient' = Append(toClient, m)
      /\ UNCHANGED <<connection, workload, clients, generators, unnamed>>
  BY DEF Route
<1>2. /\ r \in Requests /\ rest \in Seq(Requests)
      /\ RequestFits(r) /\ r.call \in DOMAIN calls
      /\ r.op = calls[r.call].op /\ r.wellFormed = calls[r.call].wellFormed
      /\ r.op.protocol \in Protocols
      /\ \A i \in DOMAIN rest : i + 1 \in DOMAIN toServer /\ rest[i] = toServer[i + 1]
      /\ \A j \in DOMAIN rest : r.call < rest[j].call
      /\ Ascending(rest)
      /\ \A c : Sending(c) <=> c = r.call \/ \E i \in DOMAIN rest : rest[i].call = c
      /\ \A c : Answered(c) => c < r.call /\ \A i \in DOMAIN rest : c < rest[i].call
      /\ \A p \in Protocols : \A i \in DOMAIN queues[p] :
           queues[p][i].call < r.call /\ \A j \in DOMAIN rest : queues[p][i].call < rest[j].call
  <2>1. FirstToRoute(r, rest)
    BY <1>1, RouteFirst
  <2> QED
    BY <2>1 DEF FirstToRoute
<1>3. m \in Replies /\ m.to = r.call /\ m.id = r.id /\ m.method = NoMethod
  BY <1>2, ErrorMade
<1>4. ~r.wellFormed
  OBVIOUS
<1>5. UNCHANGED <<platform, context, readyState, listeners, calls, reported>>
  BY <1>1 DEF connection
<1>6. ReplyFits(m)'
  <2>1. r.id = Identifier(r.call, r.op)
    BY <1>2, RequestFields
  <2>2. ReplyFits(m)
    BY <1>2, <1>3, <1>4, <2>1 DEF ReplyFits, RequestFits
  <2>3. CallsStay
    BY <1>1, <1>5 DEF CallsStay
  <2> QED
    BY <2>2, <2>3, FitsStay
<1>7. \A x \in Range(rest) : RequestFits(x)
  BY <1>0, <1>2 DEF Fitting, Range
<1>8. \A c \in DOMAIN calls : Answered(c) => Answered(c)' /\ c < m.to
  <2> SUFFICES ASSUME NEW c \in DOMAIN calls, Answered(c)
               PROVE  Answered(c)' /\ c < m.to
    OBVIOUS
  <2>1. /\ \A j \in DOMAIN toServer : c < toServer[j].call
        /\ \A p \in Protocols : Lane(c) = p => \A j \in DOMAIN queues[p] : c < queues[p][j].call
    BY DEF Answered
  <2>2. Lane(c)' = Lane(c)
    BY <1>5 DEF Lane
  <2>3. \A j \in DOMAIN toServer' : c < toServer'[j].call
    BY <1>1, <1>2, <1>3, <1>5, <2>1
  <2>4. c < m.to
    BY <1>1, <1>2, <1>3, <1>5, <2>1
  <2> QED
    BY <1>1, <1>2, <2>1, <2>2, <2>3, <2>4 DEF Answered
<1>9. Answered(m.to)'
  <2>1. Lane(r.call)' = "illFormed"
    BY <1>2, <1>4, <1>5 DEF Lane
  <2>2. Answered(r.call)'
    BY <1>1, <1>2, <2>1 DEF Answered, Protocols
  <2> QED
    BY <1>3, <2>2
<1>10. \A c \in DOMAIN calls : Sending(c)' \/ Queued(c)' \/ c = m.to <=> Sending(c) \/ Queued(c)
  <2>1. \A c \in DOMAIN calls : Queued(c)' <=> Queued(c)
    BY <1>1, <1>5 DEF Queued
  <2>2. \A c \in DOMAIN calls : Sending(c)' \/ c = m.to <=> Sending(c)
    BY <1>1, <1>2, <1>3 DEF Sending
  <2> QED
    BY <2>1, <2>2
<1> QED
  BY <1>0, <1>1, <1>2, <1>3, <1>6, <1>7, <1>8, <1>9, <1>10, ReplyLeaves
     DEF Typed, Fitting, Ordered

LEMMA AnswerStep ==
  ASSUME Inv, NEW p0 \in Protocols, Answer(p0)
  PROVE  Inv'
<1> DEFINE q == queues[p0]
           r == Head(q)
           rest == Tail(q)
<1>0. Typed /\ Fitting /\ Ordered
  BY DEF Inv
<1>1. /\ q # <<>> /\ queues' = [queues EXCEPT ![p0] = rest]
      /\ UNCHANGED <<connection, workload, clients, generators, toServer>>
  BY DEF Answer
<1>2. PICK m \in Answers(r) :
        /\ toClient' = Append(toClient, m)
        /\ unnamed' = IF m.method = NoMethod THEN unnamed \cup {m.to} ELSE unnamed
  BY DEF Answer
<1>3. q \in Seq(Requests) /\ queues \in [Protocols -> Seq(Requests)]
  BY <1>0, Sequences DEF Typed
<1>4. /\ rest \in Seq(Requests) /\ r = q[1] /\ r \in Requests /\ 1 \in DOMAIN q
      /\ \A i \in DOMAIN rest :
           i \in Nat /\ i >= 1 /\ i + 1 \in DOMAIN q /\ rest[i] = q[i + 1]
      /\ \A j \in DOMAIN q :
           j \in Nat /\ (j = 1 \/ (j - 1 \in DOMAIN rest /\ rest[j - 1] = q[j]))
  BY <1>1, <1>3, FirstAndRest
<1>5. m \in Replies /\ m.to = r.call /\ m.id = r.id /\ m.method \in {r.op.method, NoMethod}
  BY <1>2, <1>4, AnswerMade
<1>6. RequestFits(r) /\ r.wellFormed /\ r.op.protocol = p0
  BY <1>0, <1>4, FitsKnown
<1>7. UNCHANGED <<platform, context, readyState, listeners, calls, reported>>
  BY <1>1 DEF connection
<1>8. /\ queues' \in [Protocols -> Seq(Requests)]
      /\ queues'[p0] = rest
      /\ \A p \in Protocols : p # p0 => queues'[p] = queues[p]
  BY <1>1, <1>3, <1>4
<1>9. /\ r.call \in DOMAIN calls
      /\ r.op = calls[r.call].op /\ r.wellFormed = calls[r.call].wellFormed
      /\ r.id = Identifier(r.call, r.op)
  <2>1. r.call \in DOMAIN calls /\ r = Request(r.call, calls[r.call].op, calls[r.call].wellFormed)
    BY <1>6 DEF RequestFits, Asking
  <2> QED
    BY <1>4, <2>1, RequestFields DEF Request
<1> HIDE DEF r, rest, q
<1>10. unnamed \subseteq unnamed' /\ ReplyFits(m)'
  <2>1. unnamed \subseteq unnamed' /\ (m.method = NoMethod => m.to \in unnamed')
    BY <1>2
  <2>2. Asking(m.to)'
    BY <1>5, <1>6, <1>7 DEF RequestFits, Asking
  <2> QED
    BY <1>5, <1>7, <1>9, <2>1, <2>2 DEF ReplyFits
<1>11. \A p \in Protocols : \A x \in Range(queues'[p]) :
         RequestFits(x) /\ x.wellFormed /\ x.op.protocol = p
  <2>1. \A x \in Range(rest) : x \in Range(q)
    BY <1>4 DEF Range
  <2> QED
    BY <1>0, <1>8, <2>1 DEF Fitting, q
<1>12. /\ Ascending(q)
       /\ \A i \in DOMAIN q : \A j \in DOMAIN toServer : q[i].call < toServer[j].call
  BY <1>0 DEF Ordered, q
<1>13. Ascending(rest) /\ \A j \in DOMAIN rest : r.call < rest[j].call
  <2>1. \A i, j \in DOMAIN rest : i < j => i + 1 < j + 1
    BY <1>4
  <2>2. \A j \in DOMAIN rest : 1 < j + 1
    BY <1>4
  <2> QED
    BY <1>4, <1>12, <2>1, <2>2 DEF Ascending
<1>14. \A p \in Protocols :
         /\ Ascending(queues'[p])
         /\ \A i \in DOMAIN queues'[p] : \A j \in DOMAIN toServer' :
              queues'[p][i].call < toServer'[j].call
  <2>1. \A i \in DOMAIN rest : \A j \in DOMAIN toServer : rest[i].call < toServer[j].call
    BY <1>4, <1>12
  <2> QED
    BY <1>0, <1>1, <1>8, <1>13, <2>1 DEF Ordered
<1>15. Lane(r.call) = p0
  BY <1>6, <1>9 DEF Lane
<1>16. \A c \in DOMAIN calls : Answered(c) =>
         Answered(c)' /\ (SameLane(c, m.to) => c < m.to)
  <2> SUFFICES ASSUME NEW c \in DOMAIN calls, Answered(c)
               PROVE  Answered(c)' /\ (SameLane(c, m.to) => c < m.to)
    OBVIOUS
  <2>1. \A j \in DOMAIN toServer : c < toServer[j].call
    BY DEF Answered
  <2>2. \A p \in Protocols : Lane(c) = p => \A j \in DOMAIN queues[p] : c < queues[p][j].call
    BY DEF Answered
  <2>3. Lane(c)' = Lane(c)
    BY <1>7 DEF Lane
  <2>4. \A j \in DOMAIN rest : Lane(c) = p0 => c < rest[j].call
    BY <1>4, <2>2 DEF q
  <2>5. Answered(c)'
    BY <1>1, <1>8, <2>1, <2>2, <2>3, <2>4 DEF Answered
  <2>6. SameLane(c, m.to) => c < m.to
    BY <1>4, <1>5, <1>15, <2>2 DEF SameLane, q
  <2> QED
    BY <2>5, <2>6
<1>17. Answered(m.to)'
  <2>1. Lane(m.to)' = p0
    BY <1>5, <1>7, <1>15 DEF Lane
  <2>2. \A j \in DOMAIN toServer : m.to < toServer[j].call
    BY <1>4, <1>5, <1>12
  <2>3. \A j \in DOMAIN rest : m.to < rest[j].call
    BY <1>5, <1>13
  <2> QED
    BY <1>1, <1>8, <2>1, <2>2, <2>3 DEF Answered
<1>18. ASSUME NEW c \in DOMAIN calls, calls[c].op # Shutdown
       PROVE  Sending(c)' \/ Queued(c)' \/ c = m.to <=> Sending(c) \/ Queued(c)
  <2> DEFINE p == calls[c].op.protocol
  <2>1. Sending(c)' <=> Sending(c)
    BY <1>1 DEF Sending
  <2>2. p \in Protocols
    <3>1. calls[c].op \in Operations
      BY <1>0, <1>18, Sequences DEF Calls
    <3> QED
      BY <3>1, OperationFacts DEF IsOperation
  <2>3. Queued(c)' <=> \E i \in DOMAIN queues'[p] : queues'[p][i].call = c
    BY <1>7 DEF Queued
  <2>4. c = r.call => p = p0
    BY <1>6, <1>9
  <2>5. Queued(c)' \/ c = m.to <=> Queued(c)
    <3>1. CASE p = p0
      <4>1. Queued(c)' <=> \E i \in DOMAIN rest : rest[i].call = c
        BY <1>8, <2>3, <3>1
      <4>2. Queued(c) <=> \E i \in DOMAIN q : q[i].call = c
        BY <3>1 DEF Queued, q
      <4>3. ASSUME NEW j \in DOMAIN q, q[j].call = c
            PROVE  c = r.call \/ \E i \in DOMAIN rest : rest[i].call = c
        <5>1. j = 1 \/ (j - 1 \in DOMAIN rest /\ rest[j - 1] = q[j])
          BY <1>4
        <5> QED
          BY <1>4, <4>3, <5>1
      <4> QED
        BY <1>4, <1>5, <4>1, <4>2, <4>3
    <3>2. CASE p # p0
      BY <1>5, <1>8, <2>2, <2>3, <2>4, <3>2 DEF Queued
    <3> QED
      BY <3>1, <3>2
  <2> QED
    BY <2>1, <2>5
<1> QED
  BY <1>0, <1>1, <1>2, <1>5, <1>8, <1>10, <1>11, <1>14, <1>16, <1>17, <1>18, ReplyLeaves
     DEF Typed, Fitting, Ordered

LEMMA RouteStep ==
  ASSUME Inv, Route
  PROVE  Inv'
<1>1. PICK r, m, rest : r = Head(toServer) /\ m = RpcError(r) /\ rest = Tail(toServer)
  OBVIOUS
<1> QED
  BY <1>1, RouteToProtocol, RouteToClient

-----------------------------------------------------------------------------
(* A finite set in sequence, and a sequence after another.                  *)
LEMMA ListedOnce ==
  ASSUME NEW S, IsFiniteSet(S), NEW q, q = SetToSeq(S)
  PROVE  /\ q \in Seq(S)
         /\ \A x : Contains(q, x) <=> x \in S
<1> DEFINE n == Cardinality(S)
<1>1. n \in Nat /\ ExistsBijection(1 .. n, S)
  BY FS_CardinalityType
<1>2. q \in [1 .. n -> S] /\ IsInjective(q)
  <2>1. \E f \in [1 .. n -> S] : IsInjective(f)
    BY <1>1 DEF ExistsBijection, Bijection, Injection
  <2>2. q = CHOOSE f \in [1 .. n -> S] : IsInjective(f)
    BY DEF SetToSeq
  <2> HIDE DEF n
  <2> QED
    BY <2>1, <2>2, Zenon
<1> HIDE DEF n
<1>3. q \in Injection(1 .. n, S)
  BY <1>2 DEF Injection
<1>4. Cardinality(1 .. n) = n
  BY <1>1, FS_Interval
<1>5. q \in Surjection(1 .. n, S)
  BY <1>3, <1>4, FS_Injection DEF n
<1>6. q \in Seq(S) /\ Len(q) = n
  <2>1. q \in Seq(S)
    BY <1>1, <1>2, SeqDef
  <2>2. DOMAIN q = 1 .. n /\ DOMAIN q = 1 .. Len(q) /\ Len(q) \in Nat
    BY <1>2, <2>1, LenProperties
  <2> QED
    BY <1>1, <2>1, <2>2, LenProperties
<1>7. \A x : Contains(q, x) <=> x \in S
  BY <1>2, <1>5, <1>6 DEF Contains, Surjection
<1> QED
  BY <1>6, <1>7

LEMMA BothContain ==
  ASSUME NEW S, NEW s \in Seq(S), NEW t \in Seq(S), NEW u, u = s \o t
  PROVE  /\ u \in Seq(S)
         /\ \A x : Contains(u, x) <=> Contains(s, x) \/ Contains(t, x)
         /\ \A x : Once(s, x) /\ ~Contains(t, x) => Once(u, x)
<1>1. /\ u \in Seq(S) /\ Len(u) = Len(s) + Len(t)
      /\ \A i \in 1 .. Len(s) + Len(t) : u[i] = IF i <= Len(s) THEN s[i] ELSE t[i - Len(s)]
  BY ConcatProperties
<1>2. /\ Len(s) \in Nat /\ Len(t) \in Nat
      /\ DOMAIN s = 1 .. Len(s) /\ DOMAIN u = 1 .. Len(s) + Len(t)
  BY <1>1, LenProperties
<1>3. \A i \in 1 .. Len(s) : i \in 1 .. Len(s) + Len(t) /\ u[i] = s[i]
  BY <1>1, <1>2
<1>4. \A j \in 1 .. Len(t) : Len(s) + j \in 1 .. Len(s) + Len(t) /\ u[Len(s) + j] = t[j]
  <2> TAKE j \in 1 .. Len(t)
  <2>1. Len(s) + j \in 1 .. Len(s) + Len(t) /\ ~(Len(s) + j <= Len(s)) /\ (Len(s) + j) - Len(s) = j
    BY <1>2
  <2> QED
    BY <1>1, <2>1
<1>5. \A i \in 1 .. Len(s) + Len(t) :
        \/ i \in 1 .. Len(s) /\ u[i] = s[i]
        \/ i - Len(s) \in 1 .. Len(t) /\ u[i] = t[i - Len(s)]
  <2> TAKE i \in 1 .. Len(s) + Len(t)
  <2>1. CASE i <= Len(s)
    BY <1>1, <1>2, <2>1
  <2>2. CASE ~(i <= Len(s))
    <3>1. i - Len(s) \in 1 .. Len(t)
      BY <1>2, <2>2
    <3> QED
      BY <1>1, <2>2, <3>1
  <2> QED
    BY <2>1, <2>2
<1>6. ASSUME NEW x
      PROVE  Contains(u, x) <=> Contains(s, x) \/ Contains(t, x)
  <2>1. Contains(u, x) => Contains(s, x) \/ Contains(t, x)
    BY <1>1, <1>5 DEF Contains
  <2>2. Contains(s, x) => Contains(u, x)
    BY <1>1, <1>3 DEF Contains
  <2>3. Contains(t, x) => Contains(u, x)
    BY <1>1, <1>4 DEF Contains
  <2> QED
    BY <2>1, <2>2, <2>3
<1>7. ASSUME NEW x, Once(s, x), ~Contains(t, x)
      PROVE  Once(u, x)
  <2>1. \A i \in DOMAIN u : u[i] = x => i \in DOMAIN s /\ s[i] = x
    BY <1>2, <1>5, <1>7 DEF Contains
  <2> QED
    BY <1>7, <2>1 DEF Once
<1> QED
  BY <1>1, <1>6, <1>7

LEMMA OneMoreContains ==
  ASSUME NEW S, NEW s \in Seq(S), NEW e \in S, NEW u, u = Append(s, e)
  PROVE  /\ u \in Seq(S)
         /\ \A x : Contains(u, x) <=> Contains(s, x) \/ x = e
         /\ \A x : x # e /\ Once(s, x) => Once(u, x)
         /\ ~Contains(s, e) => Once(u, e)
<1>1. /\ u \in Seq(S)
      /\ \A i \in DOMAIN s : i \in DOMAIN u /\ u[i] = s[i]
      /\ Len(s) + 1 \in DOMAIN u /\ u[Len(s) + 1] = e
      /\ \A j \in DOMAIN u : j = Len(s) + 1 \/ j \in DOMAIN s
  BY LastAndOthers
<1>2. /\ \A x : Contains(s, x) <=> \E i \in DOMAIN s : s[i] = x
      /\ \A x : Contains(u, x) <=> \E i \in DOMAIN u : u[i] = x
  <2>1. DOMAIN s = 1 .. Len(s) /\ DOMAIN u = 1 .. Len(u)
    BY <1>1, LenProperties
  <2> QED
    BY <2>1 DEF Contains
<1>3. \A x : Contains(u, x) <=> Contains(s, x) \/ x = e
  BY <1>1, <1>2
<1>4. \A x : x # e /\ Once(s, x) => Once(u, x)
  BY <1>1 DEF Once
<1>5. ~Contains(s, e) => Once(u, e)
  BY <1>1, <1>2 DEF Once
<1> QED
  BY <1>1, <1>3, <1>4, <1>5

-----------------------------------------------------------------------------
(* The callbacks of the context.                                            *)
LEMMA ListenerMade ==
  ASSUME NEW event, NEW fn, NEW c, NEW l, l = Listener(event, fn, c)
  PROVE  l.event = event /\ l.fn = fn /\ l.call = c
BY DEF Listener

LEMMA NobodyYet ==
  ASSUME Inv, context # "ready"
  PROVE  clients = {} /\ calls = <<>> /\ DOMAIN calls = {} /\ Len(calls) = 0
BY DEF Inv, Staged

LEMMA NotReadyStep ==
  ASSUME Inv, NotReady, UNCHANGED <<workload, clients, generators, server>>
  PROVE  Inv'
<1>1. /\ context = "fetching" /\ context' = "failed"
      /\ UNCHANGED <<platform, readyState, listeners, calls, reported>>
      /\ UNCHANGED <<workload, clients, generators, toServer, queues, toClient, unnamed>>
  BY DEF NotReady, server
<1>2. clients = {} /\ calls = <<>> /\ DOMAIN calls = {}
  BY <1>1, NobodyYet
<1>3. Typed'
  BY <1>1 DEF Inv, Typed, Contexts
<1>4. Programmed'
  BY <1>1, <1>2 DEF Inv, Programmed
<1>5. Staged'
  BY <1>1, <1>2 DEF Inv, Staged
<1>6. Registered'
  BY <1>1, <1>2 DEF Inv, Registered, Connected
<1>7. Told'
  BY <1>1 DEF Inv, Told, CloseReported
<1>8. Quiet
  BY <1>1, <1>2 DEF Quiet, CallsStay
<1> QED
  BY <1>3, <1>4, <1>5, <1>6, <1>7, <1>8, QuietStep DEF Inv

LEMMA ConnectStep ==
  ASSUME Inv, Connect, UNCHANGED <<workload, clients, generators, server>>
  PROVE  Inv'
<1> DEFINE l1 == Listener("error", "onInitialError", None)
           l2 == Listener("close", "onInitialClose", None)
           l3 == Listener("open", "onOpen", None)
<1>1. /\ context = "fetching" /\ context' = "connecting" /\ readyState' = "CONNECTING"
      /\ listeners' = <<l1, l2, l3>>
      /\ UNCHANGED <<platform, calls, reported>>
      /\ UNCHANGED <<workload, clients, generators, toServer, queues, toClient, unnamed>>
  BY DEF Connect, server
<1>2. clients = {} /\ calls = <<>> /\ DOMAIN calls = {} /\ Len(calls) = 0
  BY <1>1, NobodyYet
<1>3. Typed'
  <2>1. l1 \in Callbacks /\ l2 \in Callbacks /\ l3 \in Callbacks
    BY DEF Listener, Callbacks, None
  <2> HIDE DEF l1, l2, l3
  <2>2. listeners' \in Seq(Callbacks)
    BY <1>1, <2>1
  <2> QED
    BY <1>1, <2>2 DEF Inv, Typed, Contexts, ReadyStates
<1>4. Programmed'
  BY <1>1, <1>2 DEF Inv, Programmed
<1>5. Staged'
  BY <1>1, <1>2 DEF Inv, Staged
<1>6. Registered'
  <2>1. l1.call = 0 /\ l2.call = 0 /\ l3.call = 0
    BY DEF Listener, None
  <2> HIDE DEF l1, l2, l3
  <2>2. \A l \in Range(listeners') : l.call = 0
    BY <1>1, <2>1 DEF Range
  <2> QED
    BY <1>1, <1>2, <2>2 DEF Registered, Connected, None
<1>7. Told'
  <2>1. readyState # "CLOSED"
    BY <1>1 DEF Inv, Staged
  <2> QED
    BY <1>1, <2>1 DEF Inv, Told, CloseReported, Connected
<1>8. Quiet
  BY <1>1, <1>2 DEF Quiet, CallsStay
<1> QED
  BY <1>3, <1>4, <1>5, <1>6, <1>7, <1>8, QuietStep DEF Inv

LEMMA ConnectWithoutOptionsStep ==
  ASSUME Inv, ConnectWithoutOptions, UNCHANGED <<workload, clients, generators, server>>
  PROVE  Inv'
<1>1. /\ context = "fetching" /\ context' = "failed" /\ readyState' = "CONNECTING"
      /\ UNCHANGED <<platform, listeners, calls, reported>>
      /\ UNCHANGED <<workload, clients, generators, toServer, queues, toClient, unnamed>>
  BY DEF ConnectWithoutOptions, server
<1>2. clients = {} /\ calls = <<>> /\ DOMAIN calls = {}
  BY <1>1, NobodyYet
<1>3. Typed'
  BY <1>1 DEF Inv, Typed, Contexts, ReadyStates
<1>4. Programmed'
  BY <1>1, <1>2 DEF Inv, Programmed
<1>5. Staged'
  BY <1>1, <1>2 DEF Inv, Staged
<1>6. Registered'
  BY <1>1, <1>2 DEF Inv, Registered, Connected
<1>7. Told'
  <2>1. readyState # "CLOSED"
    BY <1>1 DEF Inv, Staged
  <2> QED
    BY <1>1, <2>1 DEF Inv, Told, CloseReported
<1>8. Quiet
  BY <1>1, <1>2 DEF Quiet, CallsStay
<1> QED
  BY <1>3, <1>4, <1>5, <1>6, <1>7, <1>8, QuietStep DEF Inv

LEMMA OnOpenStep ==
  ASSUME Inv, OnOpen, UNCHANGED <<workload, clients, generators, server>>
  PROVE  Inv'
<1> DEFINE l1 == Listener("error", "onInitialError", None)
           l2 == Listener("close", "onInitialClose", None)
           l3 == Listener("open", "onOpen", None)
           e  == Listener("error", "errorHandler", None)
           k  == Listener("close", "closeHandler", None)
           R  == RemoveFirst(listeners, l1)
           A  == Append(R, e)
<1>1. /\ readyState = "CONNECTING" /\ readyState' = "OPEN"
      /\ UNCHANGED <<platform, calls, reported>>
      /\ UNCHANGED <<workload, clients, generators, toServer, queues, toClient, unnamed>>
      /\ IF Runs("open", "onOpen", None)
           THEN context' = "ready" /\ listeners' = Append(A, k)
           ELSE UNCHANGED <<context, listeners>>
  BY DEF OnOpen, server, Add, RemoveListener
<1>2. context \in {"connecting", "failed"}
  BY <1>1 DEF Inv, Typed, Contexts, Staged
<1>3. clients = {} /\ calls = <<>> /\ DOMAIN calls = {} /\ Len(calls) = 0
  BY <1>2, NobodyYet
<1>4. Quiet
  BY <1>1, <1>3 DEF Quiet, CallsStay
<1>5. Programmed'
  BY <1>1, <1>3 DEF Inv, Programmed
<1>6. \A i \in DOMAIN reported : reported[i] # "close"
  BY <1>1 DEF Inv, Told
<1>7. CASE context = "failed"
  <2>1. listeners = <<>> /\ ~Runs("open", "onOpen", None)
    BY <1>7 DEF Inv, Staged, Runs
  <2>2. UNCHANGED <<context, listeners>>
    BY <1>1, <2>1
  <2>3. Typed'
    BY <1>1, <2>2 DEF Inv, Typed, ReadyStates
  <2>4. Staged'
    BY <1>1, <1>3, <1>7, <2>2 DEF Inv, Staged
  <2>5. Registered'
    BY <1>1, <1>3, <2>2 DEF Inv, Registered, Connected
  <2>6. Told'
    BY <1>1, <1>6, <1>7, <2>2 DEF Told, CloseReported
  <2> QED
    BY <1>4, <1>5, <2>3, <2>4, <2>5, <2>6, QuietStep DEF Inv
<1>8. CASE context = "connecting"
  <2>1. listeners = <<l1, l2, l3>>
    BY <1>8 DEF Inv, Staged
  <2>2. l1.fn = "onInitialError" /\ l2.event = "close" /\ l1.event = "error"
        /\ l2.fn = "onInitialClose" /\ l3.fn = "onOpen" /\ e.fn = "errorHandler"
        /\ k.fn = "closeHandler" /\ \A l \in {l1, l2, l3, e, k} : l.call = 0
    BY DEF Listener, None
  <2>3. \A l \in {l1, l2, l3, e, k} : l \in Callbacks
    BY DEF Listener, Callbacks, None
  <2>4. DOMAIN listeners = {1, 2, 3} /\ listeners[1] = l1 /\ listeners[2] = l2 /\ listeners[3] = l3
    BY <2>1
  <2>5. Runs("open", "onOpen", None)
    <3>1. \A j \in 1 .. 3 - 1 : j = 1 \/ j = 2
      OBVIOUS
    <3> QED
      BY <2>2, <2>4, <3>1 DEF Runs, Removes
  <2> HIDE DEF l1, l2, l3, e, k, R, A
  <2>6. context' = "ready" /\ listeners' = Append(A, k)
    BY <1>1, <2>5
  <2>7. Once(listeners, l1)
    BY <2>2, <2>4 DEF Once
  <2>8. /\ R \in Seq(Callbacks)
        /\ \A x : Contains(R, x) <=> Contains(listeners, x) /\ x # l1
    <3>1. listeners \in Seq(Callbacks)
      BY DEF Inv, Typed
    <3> QED
      BY <2>7, <3>1, RemovedOne DEF R
  <2>9. /\ A \in Seq(Callbacks)
        /\ \A x : Contains(A, x) <=> Contains(R, x) \/ x = e
    <3>1. R \in Seq(Callbacks) /\ e \in Callbacks /\ A = Append(R, e)
      BY <2>3, <2>8 DEF A
    <3> QED
      BY <3>1, OneMoreContains, ZenonT(40)
  <2>10. /\ listeners' \in Seq(Callbacks)
         /\ \A x : Contains(listeners', x) <=> Contains(A, x) \/ x = k
    <3>1. A \in Seq(Callbacks) /\ k \in Callbacks /\ listeners' = Append(A, k)
      BY <2>3, <2>6, <2>9
    <3>2. PICK u : u = Append(A, k)
      OBVIOUS
    <3>3. u \in Seq(Callbacks) /\ \A x : Contains(u, x) <=> Contains(A, x) \/ x = k
      BY <3>1, <3>2, OneMoreContains, ZenonT(40)
    <3> QED
      BY <3>1, <3>2, <3>3
  <2>11. \A x : Contains(listeners, x) => x \in {l1, l2, l3}
    <3>1. listeners \in Seq(Callbacks)
      BY DEF Inv, Typed
    <3> QED
      BY <2>4, <3>1, ContainsDomain
  <2>12. \A l \in Range(listeners') : l \in {l2, l3, e, k}
    BY <2>8, <2>9, <2>10, <2>11, ContainsDomain
  <2>13. Contains(listeners', k)
    BY <2>10
  <2>14. Typed'
    BY <1>1, <2>6, <2>10 DEF Inv, Typed, ReadyStates, Contexts
  <2>15. Staged'
    BY <1>1, <2>2, <2>6, <2>12 DEF Staged
  <2>16. Registered'
    BY <1>1, <1>3, <2>2, <2>12 DEF Registered, Connected, None
  <2>17. Told'
    BY <1>1, <1>6, <2>13 DEF Told, CloseReported, Connected, Has, k, Listener
  <2> QED
    BY <1>4, <1>5, <2>14, <2>15, <2>16, <2>17, QuietStep DEF Inv
<1> QED
  BY <1>2, <1>7, <1>8

-----------------------------------------------------------------------------
(* A value that is not there is not there after another is appended.        *)
LEMMA StillNot ==
  ASSUME NEW S, NEW q \in Seq(S), NEW x, NEW e \in S, e # x, \A i \in DOMAIN q : q[i] # x,
         NEW t, t = Append(q, e)
  PROVE  t \in Seq(S) /\ \A i \in DOMAIN t : t[i] # x
<1>1. /\ t \in Seq(S)
      /\ \A i \in DOMAIN q : t[i] = q[i]
      /\ t[Len(q) + 1] = e
      /\ \A j \in DOMAIN t : j = Len(q) + 1 \/ j \in DOMAIN q
  BY LastAndOthers
<1> QED
  BY <1>1

LEMMA JustOne ==
  ASSUME NEW S, NEW q \in Seq(S), NEW e \in S, \A i \in DOMAIN q : q[i] # e
  PROVE  Cardinality({i \in DOMAIN Append(q, e) : Append(q, e)[i] = e}) = 1
<1>1. PICK t : t = Append(q, e)
  OBVIOUS
<1>2. /\ \A i \in DOMAIN q : t[i] = q[i]
      /\ Len(q) + 1 \in DOMAIN t /\ t[Len(q) + 1] = e
      /\ \A j \in DOMAIN t : j = Len(q) + 1 \/ j \in DOMAIN q
  BY <1>1, LastAndOthers
<1>3. {i \in DOMAIN t : t[i] = e} = {Len(q) + 1}
  BY <1>2
<1> QED
  BY <1>1, <1>3, FS_Singleton

(* Once the context is ready, an error takes no callback away.              *)
LEMMA ErrorRemovesNone ==
  ASSUME Inv, context = "ready"
  PROVE  ~Runs("error", "onInitialError", None) /\ Remaining("error") = listeners
<1>1. \A l \in Range(listeners) :
        l.fn # "onInitialError" /\ (l.fn = "onInitialClose" => l.event = "close")
  BY DEF Inv, Staged
<1>2. ~Runs("error", "onInitialError", None) /\ ~Runs("error", "onInitialClose", None)
  BY <1>1 DEF Runs, Range, Listener
<1> QED
  BY <1>2 DEF Remaining, RemovesAll

LEMMA OnErrorStep ==
  ASSUME Inv, OnError, UNCHANGED <<workload, clients, generators, server>>
  PROVE  Inv'
<1>1. /\ readyState \in {"CONNECTING", "OPEN"} /\ readyState' = "CLOSING"
      /\ context' = IF Runs("error", "onInitialError", None) THEN "failed" ELSE context
      /\ listeners' = Remaining("error")
      /\ UNCHANGED <<platform, calls>>
      /\ UNCHANGED <<workload, clients, generators, toServer, queues, toClient, unnamed>>
  BY DEF OnError, server
<1>2. \/ reported' = reported
      \/ reported' = Append(reported, "error")
      \/ reported' = Append(reported, "uncaught")
  BY DEF OnError
<1>3. reported \in Seq(Reports) /\ \A i \in DOMAIN reported : reported[i] # "close"
  BY <1>1 DEF Inv, Typed, Told
<1>4. reported' \in Seq(Reports) /\ \A i \in DOMAIN reported' : reported'[i] # "close"
  <2>1. "error" \in Reports /\ "uncaught" \in Reports
    BY DEF Reports
  <2>2. ASSUME NEW e \in {"error", "uncaught"}, NEW t, t = Append(reported, e)
        PROVE  t \in Seq(Reports) /\ \A i \in DOMAIN t : t[i] # "close"
    <3>1. e \in Reports /\ e # "close"
      BY <2>1
    <3> QED
      BY <1>3, <2>2, <3>1, StillNot
  <2> QED
    BY <1>2, <1>3, <2>2
<1>5. listeners' = <<>> \/ listeners' = listeners
  BY <1>1 DEF Remaining
<1>6. Quiet
  BY <1>1 DEF Quiet, CallsStay
<1>7. Programmed'
  BY <1>1 DEF Inv, Programmed, Streamed
<1>8. Typed'
  <2>1. listeners' \in Seq(Callbacks)
    BY <1>5, EmptySeq DEF Inv, Typed
  <2> QED
    BY <1>1, <1>4, <2>1 DEF Inv, Typed, Contexts, ReadyStates
<1>9. CASE context = "ready"
  <2>1. context' = "ready" /\ listeners' = listeners
    BY <1>1, <1>9, ErrorRemovesNone
  <2>2. Connected
    BY <1>1, <1>9 DEF Inv, Staged, Connected
  <2>3. Staged'
    BY <1>1, <1>9, <2>1 DEF Inv, Staged
  <2>4. Registered'
    BY <1>1, <2>1, <2>2 DEF Inv, Registered, Connected, Has, Pending
  <2>5. Told'
    BY <1>1, <1>4, <1>9, <2>1, <2>2 DEF Inv, Told, CloseReported, Has
  <2> QED
    BY <1>6, <1>7, <1>8, <2>3, <2>4, <2>5, QuietStep DEF Inv
<1>10. CASE context \in {"connecting", "failed"}
  <2>1. clients = {} /\ calls = <<>> /\ DOMAIN calls = {}
    BY <1>10, NobodyYet
  <2>2. context' = "failed" /\ listeners' = <<>>
    <3>1. CASE context = "failed"
      BY <1>1, <1>5, <3>1 DEF Inv, Staged
    <3>2. CASE context = "connecting"
      <4>1. DOMAIN listeners = {1, 2, 3}
            /\ listeners[1] = Listener("error", "onInitialError", None)
        BY <3>2 DEF Inv, Staged
      <4>2. Runs("error", "onInitialError", None)
        BY <4>1 DEF Runs
      <4> QED
        BY <1>1, <4>2 DEF Remaining, RemovesAll
    <3> QED
      BY <1>10, <3>1, <3>2
  <2>3. Staged'
    BY <1>1, <2>1, <2>2 DEF Staged
  <2>4. Registered'
    BY <1>1, <2>1, <2>2 DEF Registered, Range
  <2>5. Told'
    BY <1>1, <1>4, <2>2 DEF Told, CloseReported
  <2> QED
    BY <1>6, <1>7, <1>8, <2>3, <2>4, <2>5, QuietStep DEF Inv
<1> QED
  BY <1>1, <1>9, <1>10 DEF Inv, Typed, Contexts, Staged

(* The close settles the calls whose callback on it runs.                   *)
LEMMA CallAfterwards ==
  ASSUME Typed, NEW c \in DOMAIN calls, NEW e, e = Afterwards(c)
  PROVE  /\ e \in Calls
         /\ e.op = calls[c].op /\ e.wellFormed = calls[c].wellFormed
         /\ e.sent = calls[c].sent /\ e.by = calls[c].by
         /\ e.state = "pending" => /\ Pending(c)
                                   /\ ~Runs("close", "onUnexpectedClose", c)
                                   /\ ~Runs("close", "onShutdown", c)
<1>1. calls[c] \in Calls
  BY Sequences
<1>2. \/ e = [calls[c] EXCEPT !.state = "rejected", !.value = "Connection closed"]
      \/ e = [calls[c] EXCEPT !.state = "resolved"]
      \/ /\ e = calls[c]
         /\ Pending(c) => /\ ~Runs("close", "onUnexpectedClose", c)
                          /\ ~Runs("close", "onShutdown", c)
  BY DEF Afterwards
<1> QED
  BY <1>1, <1>2 DEF Calls, Values, Pending

LEMMA OnCloseStep ==
  ASSUME Inv, OnClose, UNCHANGED <<workload, clients, generators, server>>
  PROVE  Inv'
<1>1. /\ readyState \in {"OPEN", "CLOSING"} /\ readyState' = "CLOSED"
      /\ calls' = [c \in DOMAIN calls |-> Afterwards(c)]
      /\ reported' = IF Runs("close", "closeHandler", None)
                       THEN Append(reported, "close") ELSE reported
      /\ listeners' = Remaining("close")
      /\ UNCHANGED <<platform, context>>
      /\ UNCHANGED <<workload, clients, generators, toServer, queues, toClient, unnamed>>
  BY DEF OnClose, server
<1>2. Typed
  BY DEF Inv
<1>3. \A c \in DOMAIN calls :
        /\ calls'[c] \in Calls
        /\ calls'[c].op = calls[c].op /\ calls'[c].wellFormed = calls[c].wellFormed
        /\ calls'[c].sent = calls[c].sent /\ calls'[c].by = calls[c].by
        /\ calls'[c].state = "pending" => /\ Pending(c)
                                          /\ ~Runs("close", "onUnexpectedClose", c)
                                          /\ ~Runs("close", "onShutdown", c)
  <2> SUFFICES ASSUME NEW c \in DOMAIN calls
               PROVE  /\ calls'[c] \in Calls
                      /\ calls'[c].op = calls[c].op
                      /\ calls'[c].wellFormed = calls[c].wellFormed
                      /\ calls'[c].sent = calls[c].sent /\ calls'[c].by = calls[c].by
                      /\ calls'[c].state = "pending" =>
                           /\ Pending(c)
                           /\ ~Runs("close", "onUnexpectedClose", c)
                           /\ ~Runs("close", "onShutdown", c)
    OBVIOUS
  <2>1. PICK e : e = Afterwards(c)
    OBVIOUS
  <2>2. calls'[c] = e
    BY <1>1, <2>1
  <2> QED
    BY <1>2, <2>1, <2>2, CallAfterwards
<1>4. /\ DOMAIN calls' = DOMAIN calls
      /\ calls' \in Seq(Calls) /\ Len(calls') = Len(calls)
  <2>1. DOMAIN calls' = DOMAIN calls /\ DOMAIN calls = 1 .. Len(calls) /\ Len(calls) \in Nat
    BY <1>1, <1>2, Sequences
  <2>2. calls' \in [1 .. Len(calls) -> Calls]
    BY <1>1, <1>3, <2>1
  <2>3. calls' \in Seq(Calls)
    BY <2>1, <2>2, SeqDef
  <2> QED
    BY <2>1, <2>3, LenProperties
<1>5. listeners' = <<>> \/ listeners' = listeners
  BY <1>1 DEF Remaining
<1>6. Quiet
  BY <1>1, <1>3, <1>4 DEF Quiet, CallsStay
<1>7. /\ reported \in Seq(Reports) /\ \A i \in DOMAIN reported : reported[i] # "close"
      /\ "close" \in Reports
  BY <1>1 DEF Inv, Typed, Told, Reports
<1>8. Typed'
  <2>1. listeners' \in Seq(Callbacks)
    BY <1>5, EmptySeq DEF Inv, Typed
  <2>2. reported' \in Seq(Reports)
    BY <1>1, <1>7
  <2> QED
    BY <1>1, <1>4, <2>1, <2>2 DEF Inv, Typed, ReadyStates
<1>9. Programmed'
  BY <1>1, <1>3, <1>4 DEF Inv, Programmed, Streamed
<1>10. context \in {"ready", "failed"}
  BY <1>1 DEF Inv, Typed, Contexts, Staged
<1>11. Staged'
  <2>1. CASE context = "failed"
    <3>1. listeners = <<>> /\ clients = {} /\ calls = <<>>
      BY <2>1 DEF Inv, Staged
    <3>2. listeners' = <<>> /\ calls' = <<>>
      BY <1>4, <1>5, <3>1, EmptySeq
    <3> QED
      BY <1>1, <2>1, <3>1, <3>2 DEF Staged
  <2>2. CASE context = "ready"
    BY <1>1, <1>5, <2>2 DEF Inv, Staged, Range
  <2> QED
    BY <1>10, <2>1, <2>2
<1>12. Registered'
  BY <1>1, <1>4, <1>5 DEF Inv, Registered, Connected, Range
<1>13. CloseReported'
  <2> SUFFICES ASSUME platform = "node", context = "ready"
               PROVE  /\ Cardinality({i \in DOMAIN reported' : reported'[i] = "close"}) = 1
                      /\ \A c \in DOMAIN calls' : calls'[c].sent => ~Pending(c)'
    BY <1>1 DEF CloseReported
  <2>1. Connected
    BY <1>1 DEF Connected
  <2>2. \A fn, c : Has("close", fn, c) => Runs("close", fn, c)
    <3>1. DOMAIN listeners = 1 .. Len(listeners)
      BY LenProperties DEF Inv, Typed
    <3> QED
      BY <3>1 DEF Has, Contains, Runs
  <2>3. Runs("close", "closeHandler", None)
    BY <2>1, <2>2 DEF Inv, Told
  <2>4. Cardinality({i \in DOMAIN reported' : reported'[i] = "close"}) = 1
    <3>1. Cardinality({i \in DOMAIN Append(reported, "close") :
                         Append(reported, "close")[i] = "close"}) = 1
      BY <1>7, JustOne
    <3> QED
      BY <1>1, <2>3, <3>1
  <2>5. ASSUME NEW c \in DOMAIN calls', calls'[c].sent, Pending(c)'
        PROVE  FALSE
    <3>1. /\ c \in DOMAIN calls /\ calls[c].sent /\ Pending(c)
          /\ ~Runs("close", "onUnexpectedClose", c) /\ ~Runs("close", "onShutdown", c)
      BY <1>3, <1>4, <2>5 DEF Pending
    <3>2. Has("close", "onUnexpectedClose", c) \/ Has("close", "onShutdown", c)
      BY <2>1, <3>1 DEF Inv, Registered
    <3> QED
      BY <2>2, <3>1, <3>2
  <2> QED
    BY <2>4, <2>5
<1>14. Told'
  BY <1>1, <1>13 DEF Told, Connected
<1> QED
  BY <1>6, <1>8, <1>9, <1>11, <1>12, <1>14, QuietStep DEF Inv

-----------------------------------------------------------------------------
(* A client is made: its generators listen.                                 *)
LEMMA CreateStep ==
  ASSUME Inv, NEW streams \in {{"mempool"}, {"submit", "evaluate"}}, Create(streams)
  PROVE  Inv'
<1> DEFINE L == {ListensTo(s) : s \in streams}
<1>1. /\ context = "ready"
      /\ clients' = clients \cup streams
      /\ UNCHANGED <<platform, context, readyState, calls, reported, workload>>
      /\ UNCHANGED <<generators, toServer, queues, toClient, unnamed>>
  BY DEF Create, server
<1>2. PICK q : q = SetToSeq(L)
  OBVIOUS
<1>3. listeners' = listeners \o q
  BY <1>2 DEF Create
<1>4. streams \subseteq Streams
  BY DEF Streams
<1>5. \A s \in Streams : /\ ListensTo(s) \in Callbacks
                         /\ ListensTo(s).fn \in Streams /\ ListensTo(s).call = None
  BY DEF ListensTo, Listener, Callbacks, None
<1>6. L \subseteq Callbacks /\ \A l \in L : l.fn \in Streams /\ l.call = None
  BY <1>4, <1>5
<1>7. IsFiniteSet(L)
  <2>1. CASE streams = {"mempool"}
    <3>1. L = {ListensTo("mempool")}
      BY <2>1
    <3> QED
      BY <3>1, FS_Singleton
  <2>2. CASE streams = {"submit", "evaluate"}
    <3>1. \E a, b : L = {a} \cup {b}
      <4>1. L = {ListensTo("submit")} \cup {ListensTo("evaluate")}
        BY <2>2
      <4> QED
        BY <4>1
    <3>2. ASSUME NEW a, NEW b
          PROVE  IsFiniteSet({a} \cup {b})
      <4>1. IsFiniteSet({a})
        BY FS_Singleton
      <4> QED
        BY <4>1, FS_AddElement
    <3>3. PICK a, b : L = {a} \cup {b}
      BY <3>1
    <3> HIDE DEF L
    <3> QED
      BY <3>2, <3>3
  <2> QED
    BY <2>1, <2>2
<1>8. \A s \in streams : ListensTo(s) \in L
  OBVIOUS
<1> HIDE DEF L
<1>9. /\ q \in Seq(L)
      /\ \A x : Contains(q, x) <=> x \in L
  BY <1>2, <1>7, ListedOnce
<1>10. listeners \in Seq(Callbacks) /\ q \in Seq(Callbacks)
  <2>1. \A S, T : S \subseteq T => Seq(S) \subseteq Seq(T)
    OBVIOUS
  <2> QED
    BY <1>6, <1>9, <2>1 DEF Inv, Typed
<1>11. PICK u : u = listeners \o q
  OBVIOUS
<1>12. /\ u \in Seq(Callbacks)
       /\ \A x : Contains(u, x) <=> Contains(listeners, x) \/ Contains(q, x)
       /\ \A x : Once(listeners, x) /\ ~Contains(q, x) => Once(u, x)
  BY <1>10, <1>11, BothContain
<1>13. \A l \in Range(u) : l \in Range(listeners) \/ l \in L
  BY <1>9, <1>10, <1>12, ContainsDomain
<1>14. listeners' = u
  BY <1>3, <1>11
<1>15. \A event, fn, c : fn \notin Streams => (Has(event, fn, c)' <=> Has(event, fn, c))
  BY <1>6, <1>9, <1>12, <1>14 DEF Has, Listener
<1>16. Typed'
  BY <1>1, <1>4, <1>12, <1>14 DEF Inv, Typed
<1>17. Programmed'
  BY <1>1 DEF Inv, Programmed, Streamed
<1>18. Staged'
  <2>1. \A l \in Range(listeners') :
          l.fn # "onInitialError" /\ (l.fn = "onInitialClose" => l.event = "close")
    BY <1>1, <1>6, <1>13, <1>14 DEF Inv, Staged, Streams
  <2> QED
    BY <1>1, <2>1 DEF Inv, Staged
<1>19. Registered'
  <2>1. \A l \in Range(u) : l.call <= Len(calls) /\ (l.call # None => Once(u, l))
    <3> SUFFICES ASSUME NEW l \in Range(u)
                 PROVE  l.call <= Len(calls) /\ (l.call # None => Once(u, l))
      OBVIOUS
    <3>1. CASE l \in L
      <4>1. l.call = 0 /\ Len(calls) \in Nat
        BY <1>6, <3>1, Sequences DEF Inv, None
      <4> QED
        BY <4>1 DEF None
    <3>2. CASE l \notin L
      <4>1. l \in Range(listeners) /\ ~Contains(q, l)
        BY <1>9, <1>13, <3>2
      <4>2. l.call <= Len(calls) /\ (l.call # None => Once(listeners, l))
        BY <4>1 DEF Inv, Registered
      <4> QED
        BY <1>12, <4>1, <4>2
    <3> QED
      BY <3>1, <3>2
  <2>2. Connected => \A s \in clients \cup streams : Contains(u, ListensTo(s))
    BY <1>8, <1>9, <1>12 DEF Inv, Registered
  <2>3. {"onShutdown", "onUnexpectedClose", "listener"} \cap Streams = {}
    BY DEF Streams
  <2>4. \A c : /\ Has("close", "onShutdown", c)' <=> Has("close", "onShutdown", c)
               /\ Has("close", "onUnexpectedClose", c)' <=> Has("close", "onUnexpectedClose", c)
               /\ Has("message", "listener", c)' <=> Has("message", "listener", c)
    BY <1>15, <2>3
  <2>5. (Connected => \A c \in DOMAIN calls : calls[c].sent /\ Pending(c) =>
           Has("close", IF calls[c].op = Shutdown THEN "onShutdown" ELSE "onUnexpectedClose", c))'
    BY <1>1, <2>4 DEF Inv, Registered, Connected, Pending
  <2>6. (readyState = "OPEN" => \A c \in DOMAIN calls :
           /\ Has("close", "onUnexpectedClose", c) => Pending(c)
           /\ Has("message", "listener", c) <=> Pending(c) /\ ~Streamed(c))'
    BY <1>1, <2>4 DEF Inv, Registered, Pending, Streamed
  <2> QED
    BY <1>1, <1>14, <2>1, <2>2, <2>5, <2>6 DEF Registered, Connected
<1>20. Told'
  BY <1>1, <1>15 DEF Inv, Told, CloseReported, Connected, Streams, Pending
<1>21. Quiet
  BY <1>1 DEF Quiet, CallsStay
<1> QED
  BY <1>16, <1>17, <1>18, <1>19, <1>20, <1>21, QuietStep DEF Inv

-----------------------------------------------------------------------------
(* A call is made: the n-th, e, with the request r.                         *)
Making(n, e, r) ==
  /\ n = Len(calls) + 1 /\ n <= Len(workload)
  /\ e \in Calls /\ calls' = Append(calls, e)
  /\ e.op = workload[n] /\ e.by = None /\ (e.sent <=> readyState = "OPEN")
  /\ e.op.stream \in Streams => e.op.stream \in clients
  /\ context = "ready"
  /\ UNCHANGED <<platform, context, reported, workload, clients, queues, toClient, unnamed>>
  /\ \/ /\ e.op # Shutdown /\ e.sent
        /\ r \in Requests /\ r.call = n /\ r = Request(n, e.op, e.wellFormed)
        /\ toServer' = Append(toServer, r)
     \/ (~e.sent \/ e.op = Shutdown) /\ UNCHANGED toServer
  /\ readyState' = IF e.op = Shutdown /\ readyState = "OPEN" THEN "CLOSING" ELSE readyState
  /\ readyState' = "OPEN" => e.state = "pending"

(* It comes after the others.                                               *)
MadeLast(n, e) ==
  /\ CallsStay
  /\ n \in Nat /\ n # None /\ Len(calls) < n /\ n \notin DOMAIN calls
  /\ calls' \in Seq(Calls) /\ Len(calls') = n
  /\ n \in DOMAIN calls' /\ calls'[n] = e
  /\ \A d \in DOMAIN calls : d \in DOMAIN calls' /\ calls'[d] = calls[d] /\ d < n
  /\ \A d \in DOMAIN calls' : d \in DOMAIN calls \/ d = n

LEMMA MakingLast ==
  ASSUME Inv, NEW n, NEW e, NEW r, Making(n, e, r)
  PROVE  MadeLast(n, e)
<1>1. /\ Typed /\ e \in Calls /\ calls' = Append(calls, e) /\ n = Len(calls) + 1
      /\ UNCHANGED unnamed
  BY DEF Inv, Making
<1>2. Len(calls) \in Nat /\ DOMAIN calls = 1 .. Len(calls)
  BY <1>1, Sequences
<1>3. n \in Nat /\ n # None /\ Len(calls) < n /\ n \notin DOMAIN calls /\ n \in 1 .. Len(calls) + 1
  BY <1>1, <1>2 DEF None
<1> QED
  BY <1>1, <1>3, MadeStay DEF MadeLast

(* What was on its way stays as it is, before the new request.              *)
RequestSent(n, e) ==
  /\ toServer' \in Seq(Requests)
  /\ AnsweredStay
  /\ Ordered'
  /\ \A x \in Range(toServer') : RequestFits(x)'
  /\ \A c \in DOMAIN calls : OnItsWay(c)' <=> OnItsWay(c)
  /\ e.sent /\ e.op # Shutdown => OnItsWay(n)'

LEMMA MakingSends ==
  ASSUME Inv, NEW n, NEW e, NEW r, Making(n, e, r)
  PROVE  RequestSent(n, e)
<1>1. MadeLast(n, e)
  BY MakingLast
<1>2. Typed /\ Fitting /\ Ordered
  BY DEF Inv
<1>3. UNCHANGED <<queues, toClient>>
  BY DEF Making
<1>4. toServer \in Seq(Requests)
  BY <1>2 DEF Typed
<1>5. CallsStay /\ \A d \in DOMAIN calls : d < n
  BY <1>1 DEF MadeLast
<1>6. \A i \in DOMAIN toServer : toServer[i].call \in DOMAIN calls /\ toServer[i].call < n
  BY <1>2, <1>5, FitsKnown
<1>7. \A p \in Protocols : \A i \in DOMAIN queues[p] : queues[p][i].call < n
  BY <1>2, <1>5, FitsKnown
<1>8. \A i \in DOMAIN toClient : toClient[i].to \in DOMAIN calls
  BY <1>2, FitsKnown
<1>9. /\ toServer' \in Seq(Requests)
      /\ \A x \in Range(toServer) : x \in Range(toServer')
      /\ \A i \in DOMAIN toServer' : i \in Nat /\
           \/ i \in DOMAIN toServer /\ toServer'[i] = toServer[i]
           \/ /\ toServer'[i] = r /\ r.call = n /\ r = Request(n, e.op, e.wellFormed)
              /\ e.sent /\ e.op # Shutdown
              /\ \A j \in DOMAIN toServer : j < i
              /\ \A j \in DOMAIN toServer' : j # i => j \in DOMAIN toServer
      /\ e.sent /\ e.op # Shutdown => \E i \in DOMAIN toServer' : toServer'[i].call = n
  <2>1. CASE UNCHANGED toServer /\ (~e.sent \/ e.op = Shutdown)
    <3>1. \A i \in DOMAIN toServer : i \in Nat
      BY <1>2, Sequences
    <3> QED
      BY <1>4, <2>1, <3>1
  <2>2. CASE /\ e.op # Shutdown /\ e.sent
             /\ r \in Requests /\ r.call = n /\ r = Request(n, e.op, e.wellFormed)
             /\ toServer' = Append(toServer, r)
    <3>1. /\ toServer' \in Seq(Requests)
          /\ \A i \in DOMAIN toServer :
               i \in DOMAIN toServer' /\ toServer'[i] = toServer[i] /\ i < Len(toServer) + 1
          /\ Len(toServer) + 1 \in DOMAIN toServer' /\ toServer'[Len(toServer) + 1] = r
          /\ \A j \in DOMAIN toServer' :
               j \in Nat /\ (j = Len(toServer) + 1 \/ j \in DOMAIN toServer)
      <4>1. PICK t : t = Append(toServer, r)
        OBVIOUS
      <4>2. /\ t \in Seq(Requests)
            /\ \A i \in DOMAIN toServer :
                 i \in DOMAIN t /\ t[i] = toServer[i] /\ i < Len(toServer) + 1
            /\ Len(toServer) + 1 \in DOMAIN t /\ t[Len(toServer) + 1] = r
            /\ \A j \in DOMAIN t : j \in Nat /\ (j = Len(toServer) + 1 \/ j \in DOMAIN toServer)
        BY <1>4, <2>2, <4>1, LastAndOthers
      <4> QED
        BY <2>2, <4>1, <4>2
    <3> QED
      BY <2>2, <3>1 DEF Range
  <2> QED
    BY <2>1, <2>2 DEF Making
<1>10. AnsweredStay
  <2>1. ASSUME NEW c \in DOMAIN calls, Answered(c)
        PROVE  Answered(c)'
    <3>1. \A j \in DOMAIN toServer' : c < toServer'[j].call
      BY <1>5, <1>9, <2>1 DEF Answered
    <3> QED
      BY <1>3, <1>5, <2>1, <3>1, LanesStay DEF Answered
  <2>2. ASSUME NEW c \in DOMAIN calls, BeforeAll(c, toClient)
        PROVE  BeforeAll(c, toClient)'
    BY <1>3, <1>5, <1>8, <2>2, LanesStay DEF BeforeAll
  <2> QED
    BY <2>1, <2>2 DEF AnsweredStay
<1>11. Ordered'
  <2>1. Ascending(toServer)'
    <3> SUFFICES ASSUME NEW i \in DOMAIN toServer', NEW j \in DOMAIN toServer', i < j
                 PROVE  toServer'[i].call < toServer'[j].call
      BY DEF Ascending
    <3>1. i \in Nat /\ j \in Nat /\ i # j
      BY <1>9
    <3>2. i \in DOMAIN toServer /\ toServer'[i] = toServer[i]
      <4>1. ASSUME i \notin DOMAIN toServer
            PROVE  FALSE
        <5>1. j \in DOMAIN toServer /\ j < i
          BY <1>9, <3>1, <4>1
        <5> QED
          BY <3>1, <5>1
      <4> QED
        BY <1>9, <4>1
    <3> QED
      BY <1>2, <1>6, <1>9, <3>2 DEF Ordered, Ascending
  <2>2. \A p \in Protocols :
          /\ Ascending(queues[p])'
          /\ \A i \in DOMAIN queues'[p] : \A j \in DOMAIN toServer' :
               queues'[p][i].call < toServer'[j].call
    BY <1>2, <1>3, <1>7, <1>9 DEF Ordered, Ascending
  <2>3. LaneAscending(toClient)'
    BY <1>2, <1>3, <1>5, <1>8, LanesStay DEF Ordered, LaneAscending
  <2>4. ASSUME NEW c \in DOMAIN calls', Arriving(c)'
        PROVE  Answered(c)'
    <3>1. c \in DOMAIN calls /\ Arriving(c)
      BY <1>3, <1>8, <2>4 DEF Arriving
    <3> QED
      BY <1>2, <1>10, <3>1 DEF Ordered, AnsweredStay
  <2> QED
    BY <2>1, <2>2, <2>3, <2>4 DEF Ordered
<1>12. ASSUME NEW x \in Range(toServer')
       PROVE  RequestFits(x)'
  <2>1. CASE x \in Range(toServer)
    BY <1>2, <1>5, <2>1, FitsStay DEF Fitting
  <2>2. CASE x = r /\ r.call = n /\ r = Request(n, e.op, e.wellFormed) /\ e.sent
             /\ e.op # Shutdown
    BY <1>1, <2>2 DEF MadeLast, RequestFits, Asking
  <2> QED
    BY <1>9, <2>1, <2>2 DEF Range
<1>13. ASSUME NEW c \in DOMAIN calls
       PROVE  OnItsWay(c)' <=> OnItsWay(c)
  <2>1. c # n
    BY <1>1 DEF MadeLast
  <2>2. Sending(c)' <=> Sending(c)
    <3>1. ASSUME NEW i \in DOMAIN toServer, toServer[i].call = c
          PROVE  \E j \in DOMAIN toServer' : toServer'[j].call = c
      <4>1. toServer[i] \in Range(toServer')
        BY <1>9 DEF Range
      <4> QED
        BY <3>1, <4>1 DEF Range
    <3>2. ASSUME NEW j \in DOMAIN toServer', toServer'[j].call = c
          PROVE  \E i \in DOMAIN toServer : toServer[i].call = c
      BY <1>9, <2>1, <3>2
    <3> QED
      BY <3>1, <3>2 DEF Sending
  <2>3. Queued(c)' <=> Queued(c)
    BY <1>3, <1>5 DEF Queued, CallsStay
  <2>4. Arriving(c)' <=> Arriving(c)
    BY <1>3 DEF Arriving
  <2> QED
    BY <2>2, <2>3, <2>4 DEF OnItsWay
<1>14. e.sent /\ e.op # Shutdown => OnItsWay(n)'
  BY <1>9 DEF OnItsWay, Sending
<1> QED
  BY <1>9, <1>10, <1>11, <1>12, <1>13, <1>14 DEF RequestSent

-----------------------------------------------------------------------------
(* The callbacks of the calls up to the n-th, each registered once.         *)
Listed(ls, n) == \A l \in Range(ls) : l.call <= n /\ (l.call # None => Once(ls, l))

LEMMA ListedMore ==
  ASSUME NEW ls \in Seq(Callbacks), NEW m \in Nat, NEW n \in Nat, m <= n, Listed(ls, m),
         NEW e \in Callbacks, e.call = n, ~Contains(ls, e), NEW t, t = Append(ls, e)
  PROVE  /\ t \in Seq(Callbacks) /\ Listed(t, n)
         /\ \A x : Contains(t, x) <=> Contains(ls, x) \/ x = e
<1>1. /\ t \in Seq(Callbacks)
      /\ \A x : Contains(t, x) <=> Contains(ls, x) \/ x = e
      /\ \A x : x # e /\ Once(ls, x) => Once(t, x)
      /\ Once(t, e)
  BY OneMoreContains
<1>2. \A x : /\ Contains(t, x) <=> x \in Range(t)
             /\ Contains(ls, x) <=> x \in Range(ls)
             /\ Contains(ls, x) => x \in Callbacks
  <2>1. \A x : Contains(t, x) <=> x \in Range(t)
    BY <1>1, ContainsDomain
  <2>2. \A x : Contains(ls, x) <=> x \in Range(ls)
    BY ContainsDomain
  <2>3. \A x : Contains(ls, x) => x \in Callbacks
    BY ContainsDomain
  <2> QED
    BY <2>1, <2>2, <2>3
<1>3. ASSUME NEW l \in Range(t)
      PROVE  l.call <= n /\ (l.call # None => Once(t, l))
  <2>1. CASE l = e
    BY <1>1, <2>1
  <2>2. CASE l # e
    <3>1. l \in Range(ls) /\ l \in Callbacks
      BY <1>1, <1>2, <2>2
    <3>2. l.call \in Nat /\ l.call <= m /\ (l.call # None => Once(ls, l))
      BY <3>1 DEF Listed, Callbacks
    <3> QED
      BY <1>1, <2>2, <3>2
  <2> QED
    BY <2>1, <2>2
<1> QED
  BY <1>1, <1>3 DEF Listed

(* The callbacks of a call that is made.                                    *)
CloseOf(n)    == Listener("close", "onUnexpectedClose", n)
MessageOf(n)  == Listener("message", "listener", n)
ShutdownOf(n) == Listener("close", "onShutdown", n)

LEMMA CallbacksOf ==
  ASSUME NEW n \in Nat
  PROVE  /\ CloseOf(n) \in Callbacks /\ MessageOf(n) \in Callbacks /\ ShutdownOf(n) \in Callbacks
         /\ CloseOf(n).call = n /\ MessageOf(n).call = n /\ ShutdownOf(n).call = n
         /\ CloseOf(n).fn = "onUnexpectedClose" /\ MessageOf(n).fn = "listener"
         /\ ShutdownOf(n).fn = "onShutdown"
         /\ CloseOf(n) # MessageOf(n) /\ CloseOf(n) # ShutdownOf(n)
         /\ MessageOf(n) # ShutdownOf(n)
BY DEF CloseOf, MessageOf, ShutdownOf, Listener, Callbacks

(* X are the callbacks the n-th call registers.                             *)
Registering(n, X) ==
  /\ listeners' \in Seq(Callbacks)
  /\ Listed(listeners', n)
  /\ X \subseteq {CloseOf(n), MessageOf(n), ShutdownOf(n)}
  /\ \A x : Contains(listeners', x) <=> Contains(listeners, x) \/ x \in X

LEMMA OneRegistered ==
  ASSUME Inv, NEW n, n = Len(calls) + 1, NEW l, l \in {CloseOf(n), MessageOf(n), ShutdownOf(n)},
         listeners' = Append(listeners, l)
  PROVE  Registering(n, {l})
<1>1. /\ Len(calls) \in Nat /\ n \in Nat /\ Len(calls) <= n /\ n # None /\ ~(n <= Len(calls))
  BY Sequences DEF Inv, None
<1>2. listeners \in Seq(Callbacks) /\ Listed(listeners, Len(calls))
  BY DEF Inv, Typed, Registered, Listed
<1>3. l \in Callbacks /\ l.call = n
  BY <1>1, CallbacksOf
<1>4. ~Contains(listeners, l)
  <2>1. ASSUME Contains(listeners, l)
        PROVE  l \in Range(listeners)
    BY <1>2, <2>1, ContainsDomain
  <2> QED
    BY <1>1, <1>2, <1>3, <2>1 DEF Listed
<1>5. PICK t : t = Append(listeners, l)
  OBVIOUS
<1>6. /\ t \in Seq(Callbacks) /\ Listed(t, n)
      /\ \A x : Contains(t, x) <=> Contains(listeners, x) \/ x = l
  <2>1. PICK m \in Nat : m = Len(calls)
    BY <1>1
  <2> QED
    BY <1>1, <1>2, <1>3, <1>4, <1>5, <2>1, ListedMore
<1> QED
  BY <1>5, <1>6 DEF Registering

LEMMA NoneRegistered ==
  ASSUME Inv, NEW n, n = Len(calls) + 1, UNCHANGED listeners
  PROVE  Registering(n, {})
<1>1. /\ Len(calls) \in Nat /\ n \in Nat /\ Len(calls) <= n
  BY Sequences DEF Inv
<1>2. listeners \in Seq(Callbacks) /\ Listed(listeners, Len(calls))
  BY DEF Inv, Typed, Registered, Listed
<1>3. \A l \in Range(listeners) : l.call \in Nat
  <2>1. \A x : Contains(listeners, x) <=> x \in Range(listeners)
    BY <1>2, ContainsDomain
  <2>2. \A x : Contains(listeners, x) => x \in Callbacks
    BY <1>2, ContainsDomain
  <2> QED
    BY <2>1, <2>2 DEF Callbacks
<1>4. Listed(listeners, n)
  BY <1>1, <1>2, <1>3 DEF Listed
<1> QED
  BY <1>2, <1>4 DEF Registering

LEMMA TwoRegistered ==
  ASSUME Inv, NEW n, n = Len(calls) + 1,
         listeners' = Append(Append(listeners, CloseOf(n)), MessageOf(n))
  PROVE  Registering(n, {CloseOf(n), MessageOf(n)})
<1>1. /\ Len(calls) \in Nat /\ n \in Nat /\ Len(calls) <= n /\ n # None /\ ~(n <= Len(calls))
      /\ n <= n
  BY Sequences DEF Inv, None
<1>2. listeners \in Seq(Callbacks) /\ Listed(listeners, Len(calls))
  BY DEF Inv, Typed, Registered, Listed
<1>3. PICK a, b : a = CloseOf(n) /\ b = MessageOf(n)
  OBVIOUS
<1>4. a \in Callbacks /\ b \in Callbacks /\ a.call = n /\ b.call = n /\ a # b
  BY <1>1, <1>3, CallbacksOf
<1>5. ASSUME NEW l, l.call = n
      PROVE  ~Contains(listeners, l)
  <2>1. ASSUME Contains(listeners, l)
        PROVE  l \in Range(listeners)
    BY <1>2, <2>1, ContainsDomain
  <2> QED
    BY <1>1, <1>2, <1>5, <2>1 DEF Listed
<1>6. PICK t : t = Append(listeners, a)
  OBVIOUS
<1>7. /\ t \in Seq(Callbacks) /\ Listed(t, n)
      /\ \A x : Contains(t, x) <=> Contains(listeners, x) \/ x = a
  <2>1. /\ listeners \in Seq(Callbacks) /\ Listed(listeners, Len(calls))
        /\ a \in Callbacks /\ a.call = n /\ ~Contains(listeners, a)
    BY <1>2, <1>4, <1>5
  <2> QED
    BY <1>1, <1>6, <2>1, ListedMore
<1>8. PICK u : u = Append(t, b)
  OBVIOUS
<1>9. /\ u \in Seq(Callbacks) /\ Listed(u, n)
      /\ \A x : Contains(u, x) <=> Contains(t, x) \/ x = b
  <2>1. ~Contains(t, b)
    BY <1>4, <1>5, <1>7
  <2> QED
    <3>1. t \in Seq(Callbacks) /\ Listed(t, n) /\ b \in Callbacks /\ b.call = n
      BY <1>4, <1>7
    <3> QED
      BY <1>1, <1>8, <2>1, <3>1, ListedMore
<1>10. listeners' = u
  BY <1>3, <1>6, <1>8
<1> QED
  BY <1>3, <1>7, <1>9, <1>10 DEF Registering

(* The context, when a call is made.                                        *)
Guarding(e, n, X) ==
  /\ e.sent /\ e.state = "pending" =>
       IF e.op = Shutdown THEN ShutdownOf(n) \in X ELSE CloseOf(n) \in X
  /\ readyState' = "OPEN" => (MessageOf(n) \in X <=> e.op.stream \notin Streams)

LEMMA MakingContext ==
  ASSUME Inv, NEW n, NEW e, NEW r, Making(n, e, r), NEW X, Registering(n, X), Guarding(e, n, X)
  PROVE  Programmed' /\ Staged' /\ Registered' /\ Told'
<1>1. MadeLast(n, e)
  BY MakingLast
<1>2. /\ UNCHANGED <<platform, context, reported, workload, clients>>
      /\ context = "ready"
      /\ e.op = workload[n] /\ n <= Len(workload) /\ (e.sent <=> readyState = "OPEN")
      /\ e.op.stream \in Streams => e.op.stream \in clients
      /\ readyState' = IF e.op = Shutdown /\ readyState = "OPEN" THEN "CLOSING" ELSE readyState
      /\ readyState' = "OPEN" => e.state = "pending"
  BY DEF Making
<1>3. /\ n \in Nat /\ n # None /\ Len(calls) < n /\ n \notin DOMAIN calls /\ Len(calls') = n
      /\ calls'[n] = e
      /\ \A d \in DOMAIN calls : d \in DOMAIN calls' /\ calls'[d] = calls[d] /\ d < n
      /\ \A d \in DOMAIN calls' : d \in DOMAIN calls \/ d = n
  BY <1>1 DEF MadeLast
<1>4. /\ listeners' \in Seq(Callbacks) /\ listeners \in Seq(Callbacks)
      /\ Listed(listeners', n)
      /\ X \subseteq {CloseOf(n), MessageOf(n), ShutdownOf(n)}
      /\ \A x : Contains(listeners', x) <=> Contains(listeners, x) \/ x \in X
  BY DEF Registering, Inv, Typed
<1>5. \A x \in X : x.call = n /\ x.fn \in {"onUnexpectedClose", "listener", "onShutdown"}
  BY <1>3, <1>4, CallbacksOf
<1>6. /\ \A x : Contains(listeners', x) <=> x \in Range(listeners')
      /\ \A x : Contains(listeners, x) <=> x \in Range(listeners)
  <2>1. \A x : Contains(listeners', x) <=> x \in Range(listeners')
    BY <1>4, ContainsDomain
  <2>2. \A x : Contains(listeners, x) <=> x \in Range(listeners)
    BY <1>4, ContainsDomain
  <2> QED
    BY <2>1, <2>2
<1>7. \A event, fn, c : c # n => (Has(event, fn, c)' <=> Has(event, fn, c))
  BY <1>4, <1>5 DEF Has, Listener
<1>8. /\ Has("close", "onUnexpectedClose", n)' <=> CloseOf(n) \in X
      /\ Has("message", "listener", n)' <=> MessageOf(n) \in X
      /\ Has("close", "onShutdown", n)' <=> ShutdownOf(n) \in X
  <2>1. ASSUME NEW l, l.call = n, Contains(listeners, l)
        PROVE  FALSE
    <3>1. l.call <= Len(calls) /\ Len(calls) \in Nat
      BY <1>6, <2>1, Sequences DEF Inv, Registered
    <3> QED
      BY <1>3, <2>1, <3>1
  <2>2. /\ ~Contains(listeners, CloseOf(n)) /\ ~Contains(listeners, MessageOf(n))
        /\ ~Contains(listeners, ShutdownOf(n))
    BY <1>3, <2>1, CallbacksOf
  <2> QED
    BY <1>4, <2>2 DEF Has, CloseOf, MessageOf, ShutdownOf
<1>9. Programmed'
  <2>1. Programmed
    BY DEF Inv
  <2>2. Len(calls') <= Len(workload')
    BY <1>2, <1>3
  <2>3. \A c \in DOMAIN calls' :
          calls'[c].op = workload'[c] /\ (Streamed(c)' => calls'[c].op.stream \in clients')
    BY <1>2, <1>3, <2>1 DEF Programmed, Streamed
  <2>4. ASSUME NEW c \in DOMAIN calls', NEW d \in DOMAIN calls', c < d, calls'[d].sent
        PROVE  calls'[c].sent
    <3>1. c \in Nat /\ d \in Nat
      <4>1. \A i \in DOMAIN calls : i \in Nat
        BY Sequences DEF Inv
      <4> QED
        BY <1>3, <4>1
    <3>2. c \in DOMAIN calls
      <4>1. ASSUME c = n
            PROVE  FALSE
        BY <1>3, <2>4, <3>1, <4>1
      <4> QED
        BY <1>3, <4>1
    <3>3. CASE d = n
      BY <1>2, <1>3, <2>1, <2>4, <3>2, <3>3 DEF Programmed
    <3>4. CASE d # n
      BY <1>3, <2>1, <2>4, <3>2, <3>4 DEF Programmed
    <3> QED
      BY <3>3, <3>4
  <2>5. readyState' = "OPEN" => \A c \in DOMAIN calls' : calls'[c].sent /\ calls'[c].op # Shutdown
    BY <1>2, <1>3, <2>1 DEF Programmed
  <2> QED
    BY <2>2, <2>3, <2>4, <2>5 DEF Programmed
<1>10. Staged'
  <2>1. readyState' \in {"OPEN", "CLOSING", "CLOSED"}
    BY <1>2 DEF Inv, Staged
  <2>2. \A l \in Range(listeners') :
          l.fn # "onInitialError" /\ (l.fn = "onInitialClose" => l.event = "close")
    BY <1>2, <1>4, <1>5, <1>6 DEF Inv, Staged
  <2> QED
    BY <1>2, <2>1, <2>2 DEF Staged
<1>11. Registered'
  <2>1. Registered
    BY DEF Inv
  <2>2. Connected' => Connected
    BY <1>2 DEF Connected
  <2>3. \A l \in Range(listeners') : l.call <= Len(calls') /\ (l.call # None => Once(listeners', l))
    BY <1>3, <1>4 DEF Listed
  <2>4. Connected' => \A s \in clients' : Contains(listeners', ListensTo(s))
    BY <1>2, <1>4, <2>1, <2>2 DEF Registered
  <2>5. ASSUME Connected', NEW c \in DOMAIN calls', calls'[c].sent, Pending(c)'
        PROVE  Has("close", IF calls[c].op = Shutdown THEN "onShutdown" ELSE "onUnexpectedClose", c)'
    <3>1. CASE c = n
      <4>1. e.sent /\ e.state = "pending"
        BY <1>3, <2>5, <3>1 DEF Pending
      <4>2. IF e.op = Shutdown THEN ShutdownOf(n) \in X ELSE CloseOf(n) \in X
        BY <4>1 DEF Guarding
      <4> QED
        BY <1>3, <1>8, <3>1, <4>2
    <3>2. CASE c # n
      <4>1. c \in DOMAIN calls /\ calls[c].sent /\ Pending(c) /\ calls'[c].op = calls[c].op
        BY <1>3, <2>5, <3>2 DEF Pending
      <4>2. Has("close", IF calls[c].op = Shutdown THEN "onShutdown" ELSE "onUnexpectedClose", c)
        BY <2>1, <2>2, <2>5, <4>1 DEF Registered
      <4>3. /\ Has("close", "onShutdown", c)' <=> Has("close", "onShutdown", c)
            /\ Has("close", "onUnexpectedClose", c)' <=> Has("close", "onUnexpectedClose", c)
        BY <1>7, <3>2
      <4> QED
        BY <4>1, <4>2, <4>3
    <3> QED
      BY <3>1, <3>2
  <2>6. ASSUME readyState' = "OPEN", NEW c \in DOMAIN calls'
        PROVE  /\ Has("close", "onUnexpectedClose", c)' => Pending(c)'
               /\ Has("message", "listener", c)' <=> Pending(c)' /\ ~Streamed(c)'
    <3>1. CASE c = n
      <4>1. Pending(c)' /\ (MessageOf(n) \in X <=> e.op.stream \notin Streams)
        BY <1>2, <1>3, <2>6, <3>1 DEF Pending, Guarding
      <4> QED
        BY <1>3, <1>8, <3>1, <4>1 DEF Streamed
    <3>2. CASE c # n
      <4>1. c \in DOMAIN calls /\ calls'[c] = calls[c] /\ readyState = "OPEN"
        BY <1>2, <1>3, <2>6, <3>2
      <4>2. /\ Has("close", "onUnexpectedClose", c) => Pending(c)
            /\ Has("message", "listener", c) <=> Pending(c) /\ ~Streamed(c)
        BY <2>1, <4>1 DEF Registered
      <4>3. /\ Has("close", "onUnexpectedClose", c)' <=> Has("close", "onUnexpectedClose", c)
            /\ Has("message", "listener", c)' <=> Has("message", "listener", c)
        BY <1>7, <3>2
      <4> QED
        BY <4>1, <4>2, <4>3 DEF Pending, Streamed
    <3> QED
      BY <3>1, <3>2
  <2> QED
    BY <2>3, <2>4, <2>5, <2>6 DEF Registered
<1>12. Told'
  <2>1. Told
    BY DEF Inv
  <2>2. readyState' # "CLOSED" => readyState # "CLOSED"
    BY <1>2
  <2>3. Has("close", "closeHandler", None)' <=> Has("close", "closeHandler", None)
    BY <1>3, <1>7
  <2>4. readyState' = "CLOSED" => readyState = "CLOSED" /\ ~e.sent
    BY <1>2
  <2>5. CloseReported'
    BY <1>2, <1>3, <2>1, <2>4 DEF Told, CloseReported, Pending
  <2> QED
    BY <1>2, <2>1, <2>2, <2>3, <2>5 DEF Told, Connected
<1> QED
  BY <1>9, <1>10, <1>11, <1>12

-----------------------------------------------------------------------------
(* The generators, when a call is made: it waits, behind the others.        *)
Following(n, e) ==
  /\ generators' \in [Streams -> Generators(Replies, Nat)]
  /\ \A s \in Streams :
       LET g == generators[s]
           h == generators'[s]
       IN /\ OneServed(h)
          /\ h.callers = IF e.op.stream = s THEN Append(g.callers, n) ELSE g.callers
          /\ \/ h.given = g.given /\ h.events = g.events
             \/ /\ g.given = <<>> /\ g.events # <<>>
                /\ h.given = <<Head(g.events)>> /\ h.events = Tail(g.events)

(* One of them.                                                             *)
Followed(s, n, e) ==
  /\ generators'[s] \in Generators(Replies, Nat)
  /\ OneServed(generators[s])'
  /\ \A c : Waits(s, c)' <=> Waits(s, c) \/ (c = n /\ e.op.stream = s)
  /\ \A i \in DOMAIN generators'[s].callers :
       \/ i \in DOMAIN generators[s].callers /\ generators'[s].callers[i] = generators[s].callers[i]
       \/ /\ generators'[s].callers[i] = n /\ e.op.stream = s
          /\ \A j \in DOMAIN generators[s].callers : j < i
  /\ \A c : Kept(generators[s], c)' \/ Given(generators[s], c)'
              <=> Kept(generators[s], c) \/ Given(generators[s], c)
  /\ \A x \in Range(generators'[s].events) \cup Range(generators'[s].given) :
       x \in Range(generators[s].events) \cup Range(generators[s].given)
  /\ \A i \in DOMAIN generators'[s].events : ReplyFits(generators'[s].events[i])
  /\ \A i \in DOMAIN generators'[s].given : ReplyFits(generators'[s].given[i])
  /\ OrderedStream(generators[s])'

LEMMA EachFollows ==
  ASSUME Inv, NEW n, NEW e, NEW r, Making(n, e, r), Following(n, e), NEW s \in Streams
  PROVE  Followed(s, n, e)
<1>0. Typed /\ Fitting /\ OrderedStreams
  BY DEF Inv
<1>1. PICK g, h : g = generators[s] /\ h = generators'[s]
  OBVIOUS
<1>2. /\ OneServed(h)
      /\ h.callers = IF e.op.stream = s THEN Append(g.callers, n) ELSE g.callers
      /\ \/ h.given = g.given /\ h.events = g.events
         \/ /\ g.given = <<>> /\ g.events # <<>>
            /\ h.given = <<Head(g.events)>> /\ h.events = Tail(g.events)
  BY <1>1 DEF Following
<1>3. g \in Generators(Replies, Nat) /\ h \in Generators(Replies, Nat)
  BY <1>0, <1>1 DEF Typed, Following
<1>4. n \in Nat /\ CallsStay /\ AnsweredStay
  BY MakingLast, MakingSends DEF MadeLast, RequestSent
<1>5. Moved(g, h)
  BY <1>2 DEF Moved
<1>6. \A c : Kept(h, c) \/ Given(h, c) <=> Kept(g, c) \/ Given(g, c)
  BY <1>2, <1>3, RepliesMoved
<1>7. /\ \A i \in DOMAIN h.events : \E j \in DOMAIN g.events : h.events[i] = g.events[j]
      /\ \A i \in DOMAIN h.given :
           \/ \E j \in DOMAIN g.events : h.given[i] = g.events[j]
           \/ i \in DOMAIN g.given /\ h.given[i] = g.given[i]
  BY <1>3, <1>5, RepliesFrom
<1>8. /\ \A i \in DOMAIN g.events : ReplyFits(g.events[i])
      /\ \A i \in DOMAIN g.given : ReplyFits(g.given[i])
  BY <1>0, <1>1 DEF Fitting, Range
<1>9. /\ \A i \in DOMAIN h.events : ReplyFits(h.events[i])
      /\ \A i \in DOMAIN h.given : ReplyFits(h.given[i])
  BY <1>7, <1>8
<1>10. /\ \A i \in DOMAIN h.events : h.events[i].to \in DOMAIN calls
       /\ \A i \in DOMAIN h.given : h.given[i].to \in DOMAIN calls
  BY <1>9 DEF ReplyFits, Asking
<1>11. OrderedStream(generators[s])'
  <2>1. OrderedStream(h)
    BY <1>0, <1>1, <1>3, <1>5, OrderMoved DEF OrderedStreams
  <2>2. OrderedStream(h)'
    BY <1>4, <1>10, <2>1, OrderCarried
  <2> QED
    BY <1>1, <2>2, StreamIs
<1>12. /\ \A i \in DOMAIN h.callers :
            \/ i \in DOMAIN g.callers /\ h.callers[i] = g.callers[i]
            \/ h.callers[i] = n /\ e.op.stream = s /\ \A j \in DOMAIN g.callers : j < i
       /\ \A j \in DOMAIN g.callers : j \in DOMAIN h.callers /\ h.callers[j] = g.callers[j]
       /\ e.op.stream = s => \E i \in DOMAIN h.callers : h.callers[i] = n
  <2>1. g.callers \in Seq(Nat)
    BY <1>3, GeneratorSequences
  <2>2. CASE e.op.stream = s
    <3>1. PICK t : t = Append(g.callers, n)
      OBVIOUS
    <3>2. /\ \A i \in DOMAIN g.callers :
               i \in DOMAIN t /\ t[i] = g.callers[i] /\ i < Len(g.callers) + 1
          /\ Len(g.callers) + 1 \in DOMAIN t /\ t[Len(g.callers) + 1] = n
          /\ \A j \in DOMAIN t : j \in Nat /\ (j = Len(g.callers) + 1 \/ j \in DOMAIN g.callers)
      BY <1>4, <2>1, <3>1, LastAndOthers
    <3>3. h.callers = t
      BY <1>2, <2>2, <3>1
    <3> QED
      BY <2>2, <3>2, <3>3
  <2>3. CASE e.op.stream # s
    BY <1>2, <2>3
  <2> QED
    BY <2>2, <2>3
<1>13. \A c : Waits(s, c)' <=> Waits(s, c) \/ (c = n /\ e.op.stream = s)
  BY <1>1, <1>12 DEF Waits
<1>14. \A x \in Range(h.events) \cup Range(h.given) : x \in Range(g.events) \cup Range(g.given)
  BY <1>7 DEF Range
<1>15. \A c : Kept(generators[s], c)' \/ Given(generators[s], c)'
                <=> Kept(generators[s], c) \/ Given(generators[s], c)
  BY <1>1, <1>6 DEF Kept, Given
<1>16. OneServed(generators[s])'
  BY <1>1, <1>2 DEF OneServed
<1> QED
  BY <1>1, <1>3, <1>9, <1>11, <1>12, <1>13, <1>14, <1>15, <1>16 DEF Followed

LEMMA MakingFollows ==
  ASSUME Inv, NEW n, NEW e, NEW r, Making(n, e, r), Following(n, e)
  PROVE  Fitting' /\ OrderedStreams' /\ Waiting' /\ Accounted' /\ OwnResponse'
<1>1. MadeLast(n, e) /\ RequestSent(n, e)
  BY MakingLast, MakingSends
<1>2. \A s \in Streams : Followed(s, n, e)
  BY EachFollows
<1>3. /\ CallsStay
      /\ n \in Nat /\ n # None /\ n \notin DOMAIN calls
      /\ n \in DOMAIN calls' /\ calls'[n] = e
      /\ \A d \in DOMAIN calls : d \in DOMAIN calls' /\ calls'[d] = calls[d] /\ d < n
      /\ \A d \in DOMAIN calls' : d \in DOMAIN calls \/ d = n
  BY <1>1 DEF MadeLast
<1>4. /\ e.by = None /\ (e.sent <=> readyState = "OPEN") /\ UNCHANGED <<queues, toClient>>
      /\ readyState' = "OPEN" => readyState = "OPEN" /\ e.state = "pending"
  BY DEF Making
<1>5. Typed /\ Fitting /\ OrderedStreams /\ Waiting /\ Accounted /\ OwnResponse
  BY DEF Inv
<1>6. Shutdown.stream = "none" /\ "none" \notin Streams
  BY DEF Shutdown, Operation, Streams
<1>7. Fitting'
  <2>1. \A s \in Streams :
          \A m \in Range(generators'[s].events) \cup Range(generators'[s].given) : ReplyFits(m)'
    <3> SUFFICES ASSUME NEW s \in Streams,
                        NEW m \in Range(generators'[s].events) \cup Range(generators'[s].given)
                 PROVE  ReplyFits(m)'
      OBVIOUS
    <3>1. m \in Range(generators[s].events) \cup Range(generators[s].given)
      BY <1>2 DEF Followed
    <3>2. ReplyFits(m)
      BY <1>5, <3>1 DEF Fitting
    <3> QED
      BY <1>3, <3>2, FitsStay
  <2>2. \A m \in Range(toClient) : ReplyFits(m)'
    BY <1>3, <1>5, FitsStay DEF Fitting
  <2>3. \A p \in Protocols : \A x \in Range(queues[p]) :
          RequestFits(x)' /\ x.wellFormed /\ x.op.protocol = p
    BY <1>3, <1>5, FitsStay DEF Fitting
  <2>4. \A x \in Range(toServer') : RequestFits(x)'
    BY <1>1 DEF RequestSent
  <2> QED
    BY <1>4, <2>1, <2>2, <2>3, <2>4 DEF Fitting
<1>8. OrderedStreams'
  BY <1>2 DEF Followed, OrderedStreams
<1>9. Waiting'
  <2> SUFFICES ASSUME NEW s \in Streams
               PROVE  /\ OneServed(generators[s])'
                      /\ \A i \in DOMAIN generators[s]'.callers :
                           LET c == generators[s]'.callers[i]
                           IN  c \in DOMAIN calls' /\ calls'[c].op.stream = s
                      /\ \A i, j \in DOMAIN generators[s]'.callers :
                           i < j => generators[s]'.callers[i] < generators[s]'.callers[j]
                      /\ readyState' = "OPEN" => \A c \in DOMAIN calls' :
                           calls'[c].op.stream = s => (Pending(c)' <=> Waits(s, c)')
    BY DEF Waiting
  <2>1. /\ OneServed(generators[s])'
        /\ \A c : Waits(s, c)' <=> Waits(s, c) \/ (c = n /\ e.op.stream = s)
        /\ generators'[s] \in Generators(Replies, Nat)
        /\ \A i \in DOMAIN generators'[s].callers :
             \/ /\ i \in DOMAIN generators[s].callers
                /\ generators'[s].callers[i] = generators[s].callers[i]
             \/ /\ generators'[s].callers[i] = n /\ e.op.stream = s
                /\ \A j \in DOMAIN generators[s].callers : j < i
    BY <1>2 DEF Followed
  <2>2. /\ \A i \in DOMAIN generators[s].callers :
             LET c == generators[s].callers[i]
             IN  c \in DOMAIN calls /\ calls[c].op.stream = s
        /\ \A i, j \in DOMAIN generators[s].callers :
             i < j => generators[s].callers[i] < generators[s].callers[j]
        /\ readyState = "OPEN" => \A c \in DOMAIN calls :
             calls[c].op.stream = s => (Pending(c) <=> Waits(s, c))
    BY <1>5 DEF Waiting
  <2>3. \A i \in DOMAIN generators[s]'.callers :
          LET c == generators[s]'.callers[i]
          IN  c \in DOMAIN calls' /\ calls'[c].op.stream = s
    BY <1>3, <2>1, <2>2
  <2>4. ASSUME NEW i \in DOMAIN generators'[s].callers, NEW j \in DOMAIN generators'[s].callers,
               i < j
        PROVE  generators'[s].callers[i] < generators'[s].callers[j]
    <3>1. i \in Nat /\ j \in Nat
      <4>1. \A g \in Generators(Replies, Nat) : \A k \in DOMAIN g.callers : k \in Nat
        BY GeneratorSequences
      <4> QED
        BY <2>1, <4>1
    <3>2. i \in DOMAIN generators[s].callers
      <4>1. ASSUME i \notin DOMAIN generators[s].callers
            PROVE  FALSE
        <5>1. \A k \in DOMAIN generators[s].callers : k < i
          BY <2>1, <4>1
        <5>2. j \notin DOMAIN generators[s].callers
          BY <2>4, <3>1, <5>1
        <5>3. e.op.stream = s /\ generators'[s].callers = Append(generators[s].callers, n)
          BY <2>1, <4>1 DEF Following
        <5>4. /\ generators[s].callers \in Seq(Nat) /\ n \in Nat
          BY <1>3, <1>5, Sequences, GeneratorSequences
        <5>5. DOMAIN Append(generators[s].callers, n) = 1 .. Len(generators[s].callers) + 1
              /\ DOMAIN generators[s].callers = 1 .. Len(generators[s].callers)
              /\ Len(generators[s].callers) \in Nat
          BY <5>4, Appended
        <5> QED
          BY <2>4, <4>1, <5>2, <5>3, <5>5
      <4> QED
        BY <4>1
    <3>3. generators'[s].callers[i] = generators[s].callers[i]
          /\ generators[s].callers[i] < n
      <4>1. generators'[s].callers[i] = generators[s].callers[i]
        <5>1. ~ \A k \in DOMAIN generators[s].callers : k < i
          BY <3>1, <3>2
        <5> QED
          BY <2>1, <5>1
      <4> QED
        BY <1>3, <2>2, <3>2, <4>1
    <3> QED
      BY <2>1, <2>2, <2>4, <3>2, <3>3
  <2>5. ASSUME readyState' = "OPEN", NEW c \in DOMAIN calls', calls'[c].op.stream = s
        PROVE  Pending(c)' <=> Waits(s, c)'
    <3>1. CASE c = n
      BY <1>3, <1>4, <2>1, <2>5, <3>1 DEF Pending
    <3>2. CASE c # n
      BY <1>3, <1>4, <2>1, <2>2, <2>5, <3>2 DEF Pending
    <3> QED
      BY <3>1, <3>2
  <2> QED
    BY <2>1, <2>3, <2>4, <2>5
<1>10. Accounted'
  <2>1. ASSUME NEW s \in Streams, Peaceful(s)'
        PROVE  OwnStream(s)'
    <3>1. OwnStream(s)
      BY <1>3, <1>5, <2>1, PeaceStays DEF Accounted
    <3>2. Followed(s, n, e)
      BY <1>2
    <3>3. \A m \in Range(generators[s].events) \cup Range(generators[s].given) :
            calls[m.to].op.stream = s /\ m.to \in DOMAIN calls
      BY <1>5, <3>1 DEF OwnStream, Range, Fitting, ReplyFits, Asking
    <3>4. \A m \in Range(generators'[s].events) \cup Range(generators'[s].given) :
            calls'[m.to].op.stream = s
      BY <1>3, <3>2, <3>3 DEF Followed
    <3>5. ASSUME NEW c \in DOMAIN calls', calls'[c].op.stream = s, calls'[c].sent
          PROVE  Waits(s, c)' <=>
                   OnItsWay(c)' \/ Kept(generators[s], c)' \/ Given(generators[s], c)'
      <4>1. CASE c = n
        <5>1. Waits(s, c)'
          BY <1>3, <3>2, <3>5, <4>1 DEF Followed
        <5>2. OnItsWay(c)'
          BY <1>1, <1>3, <1>6, <3>5, <4>1 DEF RequestSent
        <5> QED
          BY <5>1, <5>2
      <4>2. CASE c # n
        <5>1. c \in DOMAIN calls /\ calls'[c] = calls[c]
          BY <1>3, <4>2
        <5>2. Waits(s, c) <=>
                OnItsWay(c) \/ Kept(generators[s], c) \/ Given(generators[s], c)
          BY <3>1, <3>5, <5>1 DEF OwnStream
        <5>3. /\ Waits(s, c)' <=> Waits(s, c)
              /\ Kept(generators[s], c)' \/ Given(generators[s], c)'
                   <=> Kept(generators[s], c) \/ Given(generators[s], c)
          BY <3>2, <4>2 DEF Followed
        <5>4. OnItsWay(c)' <=> OnItsWay(c)
          BY <1>1, <5>1 DEF RequestSent
        <5> QED
          BY <5>2, <5>3, <5>4
      <4> QED
        BY <4>1, <4>2
    <3> QED
      BY <3>4, <3>5 DEF OwnStream, Range
  <2>2. ASSUME readyState' = "OPEN", NEW c \in DOMAIN calls',
               calls'[c].op.stream = "none", calls'[c].op # Shutdown
        PROVE  Pending(c)' <=> OnItsWay(c)'
    <3>1. CASE c = n
      <4>1. Pending(c)'
        BY <1>3, <1>4, <2>2, <3>1 DEF Pending
      <4>2. OnItsWay(c)'
        BY <1>1, <1>3, <1>4, <2>2, <3>1 DEF RequestSent
      <4> QED
        BY <4>1, <4>2
    <3>2. CASE c # n
      <4>1. c \in DOMAIN calls /\ calls'[c] = calls[c] /\ readyState = "OPEN"
        BY <1>3, <1>4, <2>2, <3>2
      <4>2. Pending(c) <=> OnItsWay(c)
        BY <1>5, <2>2, <4>1 DEF Accounted
      <4>3. OnItsWay(c)' <=> OnItsWay(c)
        BY <1>1, <4>1 DEF RequestSent
      <4> QED
        BY <4>1, <4>2, <4>3 DEF Pending
    <3> QED
      BY <3>1, <3>2
  <2> QED
    BY <2>1, <2>2 DEF Accounted
<1>11. OwnResponse'
  <2> SUFFICES ASSUME NEW c \in DOMAIN calls', calls'[c].by # None,
                      Streamed(c)' => Undisturbed(c)'
               PROVE  calls'[c].by = c
    BY DEF OwnResponse
  <2>1. c \in DOMAIN calls /\ calls'[c] = calls[c]
    BY <1>3, <1>4
  <2>2. Streamed(c) => Undisturbed(c)
    BY <1>3, <2>1, PeaceStays
  <2> QED
    BY <1>5, <2>1, <2>2 DEF OwnResponse
<1> QED
  BY <1>7, <1>8, <1>9, <1>10, <1>11

-----------------------------------------------------------------------------
LEMMA MakingStep ==
  ASSUME Inv, NEW n, NEW e, NEW r, Making(n, e, r),
         NEW X, Registering(n, X), Guarding(e, n, X), Following(n, e)
  PROVE  Inv'
<1>1. Typed'
  <2>1. calls' \in Seq(Calls)
    BY MakingLast DEF MadeLast
  <2>2. toServer' \in Seq(Requests)
    BY MakingSends DEF RequestSent
  <2>3. readyState' \in ReadyStates
    BY DEF Making, Inv, Typed, ReadyStates
  <2> QED
    BY <2>1, <2>2, <2>3 DEF Making, Registering, Following, Inv, Typed
<1>2. Ordered'
  BY MakingSends DEF RequestSent
<1> QED
  BY <1>1, <1>2, MakingContext, MakingFollows DEF Inv

(* What a call is, from how it is made.                                     *)
LEMMA MadeWith ==
  ASSUME Inv, NEW n, n = Len(calls) + 1, n <= Len(workload), context = "ready",
         UNCHANGED <<platform, context, reported, workload, clients, queues, toClient, unnamed>>,
         NEW op \in Operations \cup {Shutdown}, op = workload[n],
         op.stream \in Streams => op.stream \in clients,
         NEW w \in BOOLEAN, NEW st \in {"pending", "rejected"},
         NEW e, e = Call(op, w, st), calls' = Append(calls, e),
         readyState = "OPEN" => st = "pending",
         NEW r, r = Request(n, op, w),
         toServer' = IF op # Shutdown /\ readyState = "OPEN"
                       THEN Append(toServer, r) ELSE toServer,
         readyState' = IF op = Shutdown /\ readyState = "OPEN" THEN "CLOSING" ELSE readyState
  PROVE  /\ Making(n, e, r)
         /\ e.op = op /\ e.state = st /\ (e.sent <=> readyState = "OPEN")
<1>1. /\ e \in Calls
      /\ e.op = op /\ e.wellFormed = w /\ (e.sent <=> readyState = "OPEN")
      /\ e.state = st /\ e.by = None
  <2>1. \A o \in Operations \cup {Shutdown} : \A v \in BOOLEAN :
          \A z \in {"pending", "rejected"} : \A x : x = Call(o, v, z) =>
            /\ x \in Calls
            /\ x.op = o /\ x.wellFormed = v /\ (x.sent <=> readyState = "OPEN")
            /\ x.state = z /\ x.by = None
    BY CallMade
  <2>2. \A v \in BOOLEAN : \A z \in {"pending", "rejected"} : \A x : x = Call(op, v, z) =>
          /\ x \in Calls
          /\ x.op = op /\ x.wellFormed = v /\ (x.sent <=> readyState = "OPEN")
          /\ x.state = z /\ x.by = None
    BY <2>1
  <2>3. \A x : x = Call(op, w, st) =>
          /\ x \in Calls
          /\ x.op = op /\ x.wellFormed = w /\ (x.sent <=> readyState = "OPEN")
          /\ x.state = st /\ x.by = None
    BY <2>2
  <2> QED
    BY <2>3
<1>2. n \in Nat
  BY Sequences DEF Inv
<1>3. op # Shutdown => r \in Requests /\ r.call = n
  BY <1>2, RequestMade
<1> QED
  BY <1>1, <1>3 DEF Making

LEMMA NothingAsked ==
  ASSUME Inv, NEW n, NEW e, e.op.stream = "none", UNCHANGED generators
  PROVE  Following(n, e)
<1>1. "none" \notin Streams
  BY DEF Streams
<1> QED
  BY <1>1 DEF Following, Inv, Typed, Waiting

LEMMA SomethingAsked ==
  ASSUME Inv, NEW n \in Nat, NEW e, e.op.stream \in Streams,
         generators' = [generators EXCEPT ![e.op.stream] = Asked(@, n)]
  PROVE  Following(n, e)
<1>1. PICK s : s = e.op.stream
  OBVIOUS
<1>2. PICK g : g = generators[s]
  OBVIOUS
<1>3. PICK h : h = Asked(g, n)
  OBVIOUS
<1>4. g \in Generators(Replies, Nat) /\ OneServed(g) /\ s \in Streams
  BY <1>1, <1>2, Sequences DEF Inv, Waiting
<1>5. /\ h \in Generators(Replies, Nat)
      /\ OneServed(h)
      /\ h.callers = Append(g.callers, n)
      /\ \/ h.given = g.given /\ h.events = g.events
         \/ /\ g.given = <<>> /\ g.events # <<>>
            /\ h.given = <<Head(g.events)>> /\ h.events = Tail(g.events)
  BY <1>3, <1>4, AskedServes
<1>6. /\ generators' = [generators EXCEPT ![s] = h]
      /\ generators \in [Streams -> Generators(Replies, Nat)]
  BY <1>1, <1>2, <1>3 DEF Inv, Typed
<1>7. /\ generators' \in [Streams -> Generators(Replies, Nat)]
      /\ generators'[s] = h
      /\ \A z \in Streams : z # s => generators'[z] = generators[z]
  BY <1>4, <1>5, <1>6
<1>8. \A z \in Streams : OneServed(generators[z])
  BY DEF Inv, Waiting
<1> QED
  BY <1>1, <1>2, <1>5, <1>7, <1>8 DEF Following

LEMMA MakeCallStep ==
  ASSUME Inv, MakeCall
  PROVE  Inv'
<1>1. PICK n : n = Len(calls) + 1
  OBVIOUS
<1>2. PICK op : op = workload[n]
  OBVIOUS
<1>3. /\ context = "ready" /\ n \in Nat /\ Len(calls) < Len(workload)
      /\ UNCHANGED <<platform, context, reported, workload, clients, queues, toClient, unnamed>>
      /\ \/ /\ op \in Operations
            /\ \E w \in BOOLEAN :
                 \/ CallMethod(n, op, w)
                 \/ op.stream \in Streams /\ AwaitNext(n, op, w)
         \/ op = Shutdown /\ ShutdownClient(op)
  BY <1>1, <1>2, MakeCases DEF Inv
<1>4. n <= Len(workload)
  <2>1. Len(calls) \in Nat /\ Len(workload) \in Nat
    BY LenProperties DEF Inv, Typed
  <2> QED
    BY <1>1, <1>3, <2>1
<1>5. Shutdown.stream = "none" /\ "none" \notin Streams
  BY DEF Shutdown, Operation, Streams
<1>6. ASSUME op \in Operations, NEW w \in BOOLEAN, CallMethod(n, op, w)
      PROVE  Inv'
  <2>1. /\ op.stream = "none" /\ op # Shutdown
        /\ UNCHANGED <<readyState, generators>>
        /\ toServer' = IF readyState = "OPEN" THEN Append(toServer, Request(n, op, w)) ELSE toServer
    BY <1>6 DEF CallMethod, Send
  <2>2. PICK r : r = Request(n, op, w)
    OBVIOUS
  <2>3. CASE readyState = "OPEN"
    <3>1. /\ listeners' = Append(Append(listeners, CloseOf(n)), MessageOf(n))
          /\ calls' = Append(calls, Call(op, w, "pending"))
      BY <1>6, <2>3
         DEF CallMethod, EnsureSocketIsOpen, Awaiting, Guarded, Add, CloseOf, MessageOf
    <3>2. PICK e : e = Call(op, w, "pending")
      OBVIOUS
    <3>3. /\ Making(n, e, r)
          /\ e.op = op /\ e.state = "pending" /\ (e.sent <=> readyState = "OPEN")
      <4>1. /\ op \in Operations \cup {Shutdown} /\ op.stream \notin Streams
            /\ calls' = Append(calls, e)
            /\ toServer' = IF op # Shutdown /\ readyState = "OPEN"
                             THEN Append(toServer, r) ELSE toServer
            /\ readyState' = IF op = Shutdown /\ readyState = "OPEN"
                               THEN "CLOSING" ELSE readyState
        BY <1>5, <1>6, <2>1, <2>2, <3>1, <3>2
      <4> QED
        BY <1>1, <1>2, <1>3, <1>4, <1>6, <2>2, <3>2, <4>1, MadeWith
    <3>4. Registering(n, {CloseOf(n), MessageOf(n)})
      BY <1>1, <3>1, TwoRegistered
    <3>5. Guarding(e, n, {CloseOf(n), MessageOf(n)})
      BY <1>5, <2>1, <3>3 DEF Guarding
    <3>6. Following(n, e)
      BY <2>1, <3>3, NothingAsked
    <3> QED
      BY <3>3, <3>4, <3>5, <3>6, MakingStep
  <2>4. CASE readyState # "OPEN"
    <3>1. /\ listeners' = Append(listeners, MessageOf(n))
          /\ calls' = Append(calls, Call(op, w, "rejected"))
      BY <1>6, <2>4 DEF CallMethod, EnsureSocketIsOpen, Awaiting, Add, MessageOf
    <3>2. PICK e : e = Call(op, w, "rejected")
      OBVIOUS
    <3>3. /\ Making(n, e, r)
          /\ e.op = op /\ e.state = "rejected" /\ (e.sent <=> readyState = "OPEN")
      BY <1>1, <1>2, <1>3, <1>4, <1>5, <1>6, <2>1, <2>2, <2>4, <3>1, <3>2, MadeWith
    <3>4. Registering(n, {MessageOf(n)})
      BY <1>1, <3>1, OneRegistered
    <3>5. Guarding(e, n, {MessageOf(n)})
      BY <2>1, <2>4, <3>3 DEF Guarding
    <3>6. Following(n, e)
      BY <2>1, <3>3, NothingAsked
    <3> QED
      BY <3>3, <3>4, <3>5, <3>6, MakingStep
  <2> QED
    BY <2>3, <2>4
<1>7. ASSUME op \in Operations, NEW w \in BOOLEAN, op.stream \in Streams, AwaitNext(n, op, w)
      PROVE  Inv'
  <2>1. /\ op.stream \in clients
        /\ listeners' = Append(listeners, CloseOf(n))
        /\ calls' = Append(calls, Call(op, w, "pending"))
        /\ toServer' = IF readyState = "OPEN" THEN Append(toServer, Request(n, op, w)) ELSE toServer
        /\ generators' = [generators EXCEPT ![op.stream] = Asked(@, n)]
        /\ UNCHANGED readyState
    BY <1>7 DEF AwaitNext, Send, Guarded, Add, CloseOf
  <2>2. PICK r : r = Request(n, op, w)
    OBVIOUS
  <2>3. PICK e : e = Call(op, w, "pending")
    OBVIOUS
  <2>4. op # Shutdown
    BY <1>5, <1>7
  <2>5. /\ Making(n, e, r)
        /\ e.op = op /\ e.state = "pending" /\ (e.sent <=> readyState = "OPEN")
    BY <1>1, <1>2, <1>3, <1>4, <1>7, <2>1, <2>2, <2>3, <2>4, MadeWith
  <2>6. Registering(n, {CloseOf(n)})
    BY <1>1, <2>1, OneRegistered
  <2>7. Guarding(e, n, {CloseOf(n)})
    <3>1. MessageOf(n) # CloseOf(n)
      BY <1>3, CallbacksOf
    <3> QED
      BY <1>7, <2>4, <2>5, <3>1 DEF Guarding
  <2>8. Following(n, e)
    BY <1>3, <1>7, <2>1, <2>5, SomethingAsked
  <2> QED
    BY <2>5, <2>6, <2>7, <2>8, MakingStep
<1>8. ASSUME op = Shutdown, ShutdownClient(op)
      PROVE  Inv'
  <2>1. CallShutdown /\ UNCHANGED <<generators, toServer>>
    BY <1>8 DEF ShutdownClient
  <2>2. PICK w \in BOOLEAN : w = TRUE
    OBVIOUS
  <2>5. PICK r : r = Request(n, op, w)
    OBVIOUS
  <2>3. CASE readyState = "OPEN"
    <3>1. /\ calls' = Append(calls, Call(op, w, "pending"))
          /\ listeners' = Append(listeners, ShutdownOf(n))
          /\ readyState' = "CLOSING"
      BY <1>1, <1>8, <2>1, <2>2, <2>3 DEF CallShutdown, EnsureSocketIsOpen, Add, ShutdownOf
    <3>2. PICK e : e = Call(op, w, "pending")
      OBVIOUS
    <3>3. /\ Making(n, e, r)
          /\ e.op = op /\ e.state = "pending" /\ (e.sent <=> readyState = "OPEN")
      <4>1. /\ op \in Operations \cup {Shutdown} /\ op.stream \notin Streams
            /\ calls' = Append(calls, e)
            /\ readyState = "OPEN" => "pending" = "pending"
            /\ toServer' = IF op # Shutdown /\ readyState = "OPEN"
                             THEN Append(toServer, r) ELSE toServer
            /\ readyState' = IF op = Shutdown /\ readyState = "OPEN"
                               THEN "CLOSING" ELSE readyState
        BY <1>5, <1>8, <2>1, <2>3, <3>1, <3>2
      <4> QED
        BY <1>1, <1>2, <1>3, <1>4, <2>5, <3>2, <4>1, MadeWith
    <3>4. Registering(n, {ShutdownOf(n)})
      BY <1>1, <3>1, OneRegistered
    <3>5. Guarding(e, n, {ShutdownOf(n)})
      BY <1>8, <3>1, <3>3 DEF Guarding
    <3>6. Following(n, e)
      BY <1>5, <1>8, <2>1, <3>3, NothingAsked
    <3> QED
      BY <3>3, <3>4, <3>5, <3>6, MakingStep
  <2>4. CASE readyState # "OPEN"
    <3>1. /\ calls' = Append(calls, Call(op, w, "rejected"))
          /\ UNCHANGED <<listeners, readyState>>
      BY <1>8, <2>1, <2>2, <2>4 DEF CallShutdown, EnsureSocketIsOpen
    <3>2. PICK e : e = Call(op, w, "rejected")
      OBVIOUS
    <3>3. /\ Making(n, e, r)
          /\ e.op = op /\ e.state = "rejected" /\ (e.sent <=> readyState = "OPEN")
      <4>1. /\ op \in Operations \cup {Shutdown} /\ op.stream \notin Streams
            /\ calls' = Append(calls, e)
            /\ readyState = "OPEN" => "rejected" = "pending"
            /\ toServer' = IF op # Shutdown /\ readyState = "OPEN"
                             THEN Append(toServer, r) ELSE toServer
            /\ readyState' = IF op = Shutdown /\ readyState = "OPEN"
                               THEN "CLOSING" ELSE readyState
        BY <1>5, <1>8, <2>1, <2>4, <3>1, <3>2
      <4> QED
        BY <1>1, <1>2, <1>3, <1>4, <2>5, <3>2, <4>1, MadeWith
    <3>4. Registering(n, {})
      BY <1>1, <3>1, NoneRegistered
    <3>5. Guarding(e, n, {})
      BY <2>4, <3>1, <3>3 DEF Guarding
    <3>6. Following(n, e)
      BY <1>5, <1>8, <2>1, <3>3, NothingAsked
    <3> QED
      BY <3>3, <3>4, <3>5, <3>6, MakingStep
  <2> QED
    BY <2>3, <2>4
<1> QED
  BY <1>3, <1>6, <1>7, <1>8

-----------------------------------------------------------------------------
(* A call is settled with the reply m, if it still waits, and X of its      *)
(* callbacks are taken away.                                                *)
Settling(c, m, X) ==
  /\ c \in DOMAIN calls /\ m \in Replies
  /\ calls' = IF Pending(c) THEN [calls EXCEPT ![c] = Settled(@, m)] ELSE calls
  /\ X \subseteq {CloseOf(c), MessageOf(c)} /\ CloseOf(c) \in X
  /\ Streamed(c) \/ MessageOf(c) \in X
  /\ listeners' \in Seq(Callbacks)
  /\ \A l : Contains(listeners', l) <=> Contains(listeners, l) /\ l \notin X
  /\ \A l : l.call # None /\ Once(listeners, l) => Once(listeners', l)
  /\ UNCHANGED <<platform, context, readyState, reported, workload, clients, unnamed>>

(* Only that call changes.                                                  *)
OthersStay(c, m) ==
  /\ CallsStay
  /\ calls' \in Seq(Calls) /\ DOMAIN calls' = DOMAIN calls /\ Len(calls') = Len(calls)
  /\ \A d \in DOMAIN calls : d # c => calls'[d] = calls[d]
  /\ ~Pending(c)'
  /\ calls'[c].by = IF Pending(c) THEN m.to ELSE calls[c].by
  /\ \A d \in DOMAIN calls : d # c => (Pending(d)' <=> Pending(d))
  /\ \A d \in DOMAIN calls : Pending(d)' => Pending(d)

LEMMA SettlingOne ==
  ASSUME Inv, NEW c, NEW m, NEW X, Settling(c, m, X)
  PROVE  OthersStay(c, m)
<1>1. /\ CallsStay
      /\ calls' \in Seq(Calls) /\ DOMAIN calls' = DOMAIN calls /\ Len(calls') = Len(calls)
      /\ \A d \in DOMAIN calls : d # c => calls'[d] = calls[d]
      /\ ~Pending(c)'
      /\ calls'[c].by = IF Pending(c) THEN m.to ELSE calls[c].by
  BY SettledStay DEF Settling, Inv
<1> QED
  BY <1>1 DEF OthersStay, Pending

(* The callbacks of a call that is not over are its own.                    *)
LEMMA OwnCallbacks ==
  ASSUME Inv, NEW c \in DOMAIN calls, NEW l \in {CloseOf(c), MessageOf(c)}
  PROVE  l.call # None /\ Once(listeners, l)
<1>1. c \in Nat /\ c # None
  BY Sequences DEF Inv
<1>2. l.call = c
  BY <1>1, CallbacksOf
<1>3. CASE Contains(listeners, l)
  <2>1. l \in Range(listeners)
    BY <1>3, ContainsDomain DEF Inv, Typed
  <2> QED
    BY <1>1, <1>2, <2>1 DEF Inv, Registered
<1>4. CASE ~Contains(listeners, l)
  <2>1. \A i \in DOMAIN listeners : listeners[i] # l
    BY <1>4, ContainsDomain DEF Inv, Typed
  <2> QED
    BY <1>1, <1>2, <2>1 DEF Once
<1> QED
  BY <1>3, <1>4

LEMMA SettlingContext ==
  ASSUME Inv, NEW c, NEW m, NEW X, Settling(c, m, X)
  PROVE  Programmed' /\ Staged' /\ Registered' /\ Told'
<1>1. OthersStay(c, m)
  BY SettlingOne
<1>2. /\ UNCHANGED <<platform, context, readyState, reported, workload, clients>>
      /\ c \in DOMAIN calls
      /\ X \subseteq {CloseOf(c), MessageOf(c)} /\ CloseOf(c) \in X
      /\ Streamed(c) \/ MessageOf(c) \in X
      /\ listeners' \in Seq(Callbacks) /\ listeners \in Seq(Callbacks)
      /\ \A l : Contains(listeners', l) <=> Contains(listeners, l) /\ l \notin X
      /\ \A l : l.call # None /\ Once(listeners, l) => Once(listeners', l)
  BY DEF Settling, Inv, Typed
<1>3. /\ CallsStay
      /\ DOMAIN calls' = DOMAIN calls /\ Len(calls') = Len(calls)
      /\ \A d \in DOMAIN calls : d # c => calls'[d] = calls[d]
      /\ ~Pending(c)'
      /\ \A d \in DOMAIN calls : Pending(d)' => Pending(d)
      /\ \A d \in DOMAIN calls : d # c => (Pending(d)' <=> Pending(d))
  BY <1>1 DEF OthersStay
<1>4. c \in Nat /\ c # None
  BY <1>2, Sequences DEF Inv
<1>5. \A l \in X : l.call = c /\ l.fn \in {"onUnexpectedClose", "listener"}
  BY <1>2, <1>4, CallbacksOf
<1>6. context = "ready"
  BY <1>2 DEF Inv, Staged
<1>7. /\ \A l : Contains(listeners', l) <=> l \in Range(listeners')
      /\ \A l : Contains(listeners, l) <=> l \in Range(listeners)
  <2>1. \A l : Contains(listeners', l) <=> l \in Range(listeners')
    BY <1>2, ContainsDomain
  <2>2. \A l : Contains(listeners, l) <=> l \in Range(listeners)
    BY <1>2, ContainsDomain
  <2> QED
    BY <2>1, <2>2
<1>8. \A event, fn, d : d # c \/ fn \notin {"onUnexpectedClose", "listener"} =>
        (Has(event, fn, d)' <=> Has(event, fn, d))
  BY <1>2, <1>5 DEF Has, Listener
<1>9. ~Has("close", "onUnexpectedClose", c)' /\ (Streamed(c) \/ ~Has("message", "listener", c)')
  BY <1>2 DEF Has, CloseOf, MessageOf
<1>10. Programmed'
  BY <1>2, <1>3 DEF Inv, Programmed, CallsStay, Streamed
<1>11. Staged'
  <2>1. \A l \in Range(listeners') :
          l.fn # "onInitialError" /\ (l.fn = "onInitialClose" => l.event = "close")
    BY <1>2, <1>6, <1>7 DEF Inv, Staged
  <2> QED
    BY <1>2, <1>6, <2>1 DEF Inv, Staged
<1>12. Registered'
  <2>1. Registered
    BY DEF Inv
  <2>2. \A l \in Range(listeners') : l.call <= Len(calls') /\ (l.call # None => Once(listeners', l))
    BY <1>2, <1>3, <1>7, <2>1 DEF Registered
  <2>3. Connected' => \A s \in clients' : Contains(listeners', ListensTo(s))
    <3>1. \A s \in Streams : ListensTo(s).fn \notin {"onUnexpectedClose", "listener"}
      BY DEF ListensTo, Listener, Streams
    <3>2. clients \subseteq Streams
      BY DEF Inv, Typed
    <3> QED
      BY <1>2, <1>5, <2>1, <3>1, <3>2 DEF Registered, Connected, ListensTo, Listener
  <2>4. ASSUME Connected', NEW d \in DOMAIN calls', calls'[d].sent, Pending(d)'
        PROVE  Has("close", IF calls[d].op = Shutdown THEN "onShutdown" ELSE "onUnexpectedClose", d)'
    <3>1. d # c /\ d \in DOMAIN calls /\ calls'[d] = calls[d] /\ Pending(d)
      BY <1>3, <2>4
    <3>2. Has("close", IF calls[d].op = Shutdown THEN "onShutdown" ELSE "onUnexpectedClose", d)
      BY <1>2, <2>1, <2>4, <3>1 DEF Registered, Connected
    <3> QED
      BY <1>8, <3>1, <3>2
  <2>5. ASSUME readyState' = "OPEN", NEW d \in DOMAIN calls'
        PROVE  /\ Has("close", "onUnexpectedClose", d)' => Pending(d)'
               /\ Has("message", "listener", d)' <=> Pending(d)' /\ ~Streamed(d)'
    <3>1. /\ d \in DOMAIN calls
          /\ Has("close", "onUnexpectedClose", d) => Pending(d)
          /\ Has("message", "listener", d) <=> Pending(d) /\ ~Streamed(d)
      BY <1>2, <1>3, <2>1, <2>5 DEF Registered
    <3>2. Streamed(d)' <=> Streamed(d)
      BY <1>3, <3>1, PeaceStays
    <3>3. CASE d # c
      <4>1. /\ Has("close", "onUnexpectedClose", d)' <=> Has("close", "onUnexpectedClose", d)
            /\ Has("message", "listener", d)' <=> Has("message", "listener", d)
        BY <1>8, <3>3
      <4> QED
        BY <1>3, <3>1, <3>2, <3>3, <4>1
    <3>4. CASE d = c
      <4>1. Has("message", "listener", c)' => Has("message", "listener", c)
        BY <1>2 DEF Has, Listener
      <4> QED
        BY <1>3, <1>9, <3>1, <3>4, <4>1
    <3> QED
      BY <3>3, <3>4
  <2> QED
    BY <2>2, <2>3, <2>4, <2>5 DEF Registered
<1>13. Told'
  <2>1. Has("close", "closeHandler", None)' <=> Has("close", "closeHandler", None)
    BY <1>4, <1>8
  <2>2. CloseReported'
    BY <1>2, <1>3 DEF Inv, Told, CloseReported, CallsStay
  <2> QED
    BY <1>2, <2>1, <2>2 DEF Inv, Told, Connected
<1> QED
  BY <1>10, <1>11, <1>12, <1>13

-----------------------------------------------------------------------------
(* A response is delivered: m, the first on its way, to the call t; rest    *)
(* are the others.                                                          *)
Delivered(m, t, rest) ==
  /\ m \in Replies /\ rest \in Seq(Replies) /\ t = m.to
  /\ ReplyFits(m) /\ t \in DOMAIN calls /\ calls[t].sent /\ calls[t].op # Shutdown
  /\ m.id = Identifier(t, calls[t].op)
  /\ IsOperation(calls[t].op)
  /\ OnItsWay(t)
  /\ Answered(t) /\ BeforeAll(t, rest)
  /\ \A c : BeforeAll(c, toClient) =>
       BeforeAll(c, rest) /\ (SameLane(c, t) => c < t)
  /\ LaneAscending(rest)
  /\ \A x \in Range(rest) : x \in Range(toClient)
  /\ \A i \in DOMAIN rest : rest[i].to \in DOMAIN calls /\ rest[i].to # t
  /\ \A c : Arriving(c) <=> c = t \/ \E i \in DOMAIN rest : rest[i].to = c
  /\ ~Sending(t) /\ ~Queued(t)

LEMMA FirstDelivered ==
  ASSUME Inv, toClient # <<>>, NEW m, m = Head(toClient), NEW t, t = m.to,
         NEW rest, rest = Tail(toClient)
  PROVE  Delivered(m, t, rest)
<1>0. Typed /\ Fitting /\ Ordered /\ toClient \in Seq(Replies)
  BY DEF Inv, Typed
<1>1. /\ rest \in Seq(Replies) /\ m = toClient[1] /\ m \in Replies /\ 1 \in DOMAIN toClient
      /\ \A i \in DOMAIN rest :
           i \in Nat /\ i >= 1 /\ i + 1 \in DOMAIN toClient /\ rest[i] = toClient[i + 1]
      /\ \A j \in DOMAIN toClient :
           j \in Nat /\ (j = 1 \/ (j - 1 \in DOMAIN rest /\ rest[j - 1] = toClient[j]))
  BY <1>0, FirstAndRest
<1>2. /\ ReplyFits(m) /\ t \in DOMAIN calls /\ calls[t].sent /\ calls[t].op # Shutdown
      /\ m.id = Identifier(t, calls[t].op)
  BY <1>0, <1>1, FitsKnown DEF ReplyFits, Asking
<1>3. calls[t] \in Calls /\ calls[t].op \in Operations /\ t \in Nat
  BY <1>0, <1>2, Sequences DEF Calls
<1>4. IsOperation(calls[t].op)
  BY <1>3, OperationFacts
<1>5. Arriving(t) /\ OnItsWay(t) /\ Answered(t)
  BY <1>0, <1>1, <1>2 DEF Arriving, OnItsWay, Ordered
<1>6. /\ \A i \in DOMAIN rest : 1 < i + 1
      /\ \A i, j \in DOMAIN rest : i < j => i + 1 < j + 1
  BY <1>1
<1>7. LaneAscending(toClient)
  BY <1>0 DEF Ordered
<1>8. LaneAscending(rest)
  BY <1>1, <1>6, <1>7 DEF LaneAscending
<1>9. BeforeAll(t, rest)
  BY <1>1, <1>6, <1>7 DEF LaneAscending, BeforeAll
<1>10. \A i \in DOMAIN rest : rest[i].to \in DOMAIN calls
  BY <1>0, <1>1, FitsKnown
<1>11. \A i \in DOMAIN rest : rest[i].to # t
  <2>1. SameLane(t, t) /\ ~(t < t)
    BY <1>3 DEF SameLane
  <2> QED
    BY <1>9, <2>1 DEF BeforeAll
<1>12. \A c : BeforeAll(c, toClient) =>
         BeforeAll(c, rest) /\ (SameLane(c, t) => c < t)
  BY <1>1 DEF BeforeAll
<1>13. \A x \in Range(rest) : x \in Range(toClient)
  BY <1>1 DEF Range
<1>14. \A c : Arriving(c) <=> c = t \/ \E i \in DOMAIN rest : rest[i].to = c
  <2> TAKE c
  <2>1. ASSUME NEW j \in DOMAIN toClient, toClient[j].to = c
        PROVE  c = t \/ \E i \in DOMAIN rest : rest[i].to = c
    <3>1. j = 1 \/ (j - 1 \in DOMAIN rest /\ rest[j - 1] = toClient[j])
      BY <1>1
    <3> QED
      BY <1>1, <2>1, <3>1
  <2>2. ASSUME c = t \/ \E i \in DOMAIN rest : rest[i].to = c
        PROVE  Arriving(c)
    BY <1>1, <2>2 DEF Arriving
  <2> QED
    BY <2>1, <2>2 DEF Arriving
<1>15. ~Sending(t) /\ ~Queued(t)
  <2>1. ~(t < t)
    BY <1>3
  <2>2. ~Sending(t)
    BY <1>5, <2>1 DEF Answered, Sending
  <2>3. ASSUME NEW i \in DOMAIN queues[calls[t].op.protocol],
               queues[calls[t].op.protocol][i].call = t
        PROVE  FALSE
    <3>1. calls[t].op.protocol \in Protocols
      BY <1>4 DEF IsOperation
    <3>2. PICK r : r = queues[calls[t].op.protocol][i]
      OBVIOUS
    <3>3. RequestFits(r) /\ r.wellFormed /\ r.call = t
      BY <1>0, <2>3, <3>1, <3>2, FitsKnown
    <3>4. calls[t].wellFormed
      <4>1. r = Request(t, calls[t].op, calls[t].wellFormed)
        BY <3>3 DEF RequestFits
      <4> QED
        BY <3>3, <4>1 DEF Request
    <3>5. Lane(t) = calls[t].op.protocol
      BY <3>4 DEF Lane
    <3> QED
      BY <1>5, <2>1, <2>3, <3>1, <3>5 DEF Answered
  <2> QED
    BY <2>2, <2>3 DEF Queued
<1> QED
  BY <1>1, <1>2, <1>4, <1>5, <1>8, <1>9, <1>10, <1>11, <1>12, <1>13, <1>14, <1>15 DEF Delivered

(* The call over Method that owns a response is the one that is answered.   *)
LEMMA OwnsItsOwn ==
  ASSUME NEW m, NEW t, NEW rest, Delivered(m, t, rest)
  PROVE  /\ \A c : IsOwn(c, m) => c = t /\ calls[t].op.stream = "none"
         /\ calls[t].op.stream = "none" => IsOwn(t, m)
<1>1. m.id = Identifier(t, calls[t].op) /\ calls[t].op.stream \in Streams \cup {"none"}
  BY DEF Delivered, IsOperation
<1>2. CASE calls[t].op.stream = "none"
  BY <1>1, <1>2 DEF IsOwn, Identifier
<1>3. CASE calls[t].op.stream = "mempool"
  BY <1>1, <1>3 DEF IsOwn, Identifier
<1>4. CASE calls[t].op.stream \in {"submit", "evaluate"}
  <2>1. m.id = <<>>
    BY <1>1, <1>4 DEF Identifier
  <2>2. \A c : <<>> # <<"requestId", c>>
    OBVIOUS
  <2> QED
    BY <1>4, <2>1, <2>2 DEF IsOwn
<1> QED
  BY <1>1, <1>2, <1>3, <1>4 DEF Streams

(* A stream that nobody disturbs matches the responses to its own requests. *)
LEMMA MatchesItsOwn ==
  ASSUME NEW m, NEW t, NEW rest, Delivered(m, t, rest), NEW s \in Streams, Peaceful(s)
  PROVE  Matches(s, m) <=> calls[t].op.stream = s
<1> DEFINE op == calls[t].op
<1>1. /\ m.id = Identifier(t, op) /\ IsOperation(op) /\ t \in DOMAIN calls
      /\ m.method \in {op.method, NoMethod}
      /\ calls[t].wellFormed /\ t \notin unnamed => m.method # NoMethod
  BY DEF Delivered, ReplyFits
<1>2. op.stream \in {"none", "mempool", "submit", "evaluate"}
  BY <1>1 DEF IsOperation, Streams
<1>3. CASE s = "mempool"
  <2>1. Matches(s, m) <=> m.id # <<>> /\ m.id[1] = "method"
    BY <1>3 DEF Matches, MatchAny
  <2>2. CASE op.stream = "none"
    BY <1>1, <1>3, <2>1, <2>2 DEF Identifier
  <2>3. CASE op.stream = "mempool"
    <3>1. \A x : <<"method", x>> # <<>> /\ <<"method", x>>[1] = "method"
      OBVIOUS
    <3> QED
      BY <1>1, <1>3, <2>1, <2>3, <3>1 DEF Identifier
  <2>4. CASE op.stream \in {"submit", "evaluate"}
    BY <1>1, <1>3, <2>1, <2>4 DEF Identifier
  <2> QED
    BY <1>2, <2>2, <2>3, <2>4
<1>4. CASE s \in {"submit", "evaluate"}
  <2>1. Matches(s, m) <=> m.method = MethodOf(s)
    BY <1>4 DEF Matches, MatchSubmitTransaction, MatchEvaluateTransaction, MethodOf
  <2>2. MethodOf("submit") # MethodOf("evaluate") /\ NoMethod # MethodOf(s)
    BY <1>4 DEF MethodOf, NoMethod
  <2>3. ASSUME op.stream = s
        PROVE  m.method = MethodOf(s)
    <3>1. calls[t].wellFormed /\ t \notin unnamed
      BY <1>1, <1>4, <2>3 DEF Peaceful
    <3> QED
      BY <1>1, <1>4, <2>3, <3>1 DEF IsOperation
  <2>4. ASSUME m.method = MethodOf(s)
        PROVE  op.stream = s
    <3>1. op.method = MethodOf(s)
      BY <1>1, <2>2, <2>4
    <3>2. op.stream # "none"
      BY <1>1, <1>4, <3>1 DEF Peaceful
    <3>3. op.stream # "mempool"
      BY <1>1, <1>4, <3>1 DEF IsOperation
    <3> QED
      BY <1>1, <1>2, <1>4, <2>2, <3>1, <3>2, <3>3 DEF IsOperation
  <2> QED
    BY <2>1, <2>3, <2>4
<1> QED
  BY <1>3, <1>4 DEF Streams

-----------------------------------------------------------------------------
(* A generator, when m is delivered.                                        *)
Fed(s, m, t) ==
  /\ generators'[s] \in Generators(Replies, Nat)
  /\ OneServed(generators[s])'
  /\ generators'[s].callers = generators[s].callers
  /\ \A c : Kept(generators[s], c)' \/ Given(generators[s], c)'
              <=> Kept(generators[s], c) \/ Given(generators[s], c) \/ (c = t /\ Heard(s, m))
  /\ \A x \in Range(generators'[s].events) \cup Range(generators'[s].given) :
       \/ x \in Range(generators[s].events) \cup Range(generators[s].given)
       \/ x = m /\ Heard(s, m)
  /\ OrderedStream(generators[s])'

(* Answered(c) is about what is still to be answered.                       *)
LEMMA AnsweredStaysDelivered ==
  ASSUME CallsStay, UNCHANGED <<toServer, queues>>,
         NEW m, NEW t, NEW rest, Delivered(m, t, rest), toClient' = rest
  PROVE  /\ \A c \in DOMAIN calls : Answered(c) => Answered(c)'
         /\ \A c \in DOMAIN calls : BeforeAll(c, rest) => BeforeAll(c, toClient)'
<1>1. ASSUME NEW c \in DOMAIN calls, Answered(c)
      PROVE  Answered(c)'
  BY <1>1, LanesStay DEF Answered
<1>2. \A i \in DOMAIN rest : rest[i].to \in DOMAIN calls
  BY DEF Delivered
<1>3. ASSUME NEW c \in DOMAIN calls, BeforeAll(c, rest)
      PROVE  BeforeAll(c, toClient)'
  BY <1>2, <1>3, LanesStay DEF BeforeAll
<1> QED
  BY <1>1, <1>3

LEMMA GeneratorFed ==
  ASSUME Inv, CallsStay, UNCHANGED <<toServer, queues>>,
         NEW m, NEW t, NEW rest, Delivered(m, t, rest), toClient' = rest,
         NEW s \in Streams,
         generators'[s] = IF Heard(s, m) THEN Matched(generators[s], m) ELSE generators[s]
  PROVE  Fed(s, m, t)
<1>0. Typed /\ Fitting /\ OrderedStreams /\ Waiting
  BY DEF Inv
<1>1. PICK g, h : g = generators[s] /\ h = generators'[s]
  OBVIOUS
<1>2. /\ g \in Generators(Replies, Nat) /\ OneServed(g) /\ OrderedStream(g)
  BY <1>0, <1>1, Sequences DEF Waiting, OrderedStreams
<1>3. /\ g.events \in Seq(Replies) /\ g.given \in Seq(Replies)
      /\ \A i \in DOMAIN g.events : i \in Nat
  BY <1>2, GeneratorSequences
<1>4. /\ m \in Replies /\ m.to = t /\ t \in DOMAIN calls
      /\ Answered(t) /\ BeforeAll(t, rest)
      /\ \A c : BeforeAll(c, toClient) => BeforeAll(c, rest) /\ (SameLane(c, t) => c < t)
  BY DEF Delivered
<1>5. /\ \A i \in DOMAIN g.events : g.events[i].to \in DOMAIN calls
      /\ \A i \in DOMAIN g.given : g.given[i].to \in DOMAIN calls
  BY <1>0, <1>1, FitsKnown
<1>6. /\ \A c \in DOMAIN calls : Answered(c) => Answered(c)'
      /\ \A c \in DOMAIN calls : BeforeAll(c, rest) => BeforeAll(c, toClient)'
  BY AnsweredStaysDelivered
<1>7. \A c, d \in DOMAIN calls : SameLane(c, d)' <=> SameLane(c, d)
  BY LanesStay
<1>8. /\ LaneAscending(g.events)
      /\ \A i \in DOMAIN g.events : Answered(g.events[i].to) /\ BeforeAll(g.events[i].to, toClient)
      /\ \A i \in DOMAIN g.given :
           /\ Answered(g.given[i].to)
           /\ BeforeAll(g.given[i].to, toClient)
           /\ BeforeAll(g.given[i].to, g.events)
  BY <1>2 DEF OrderedStream
<1>9. \A c : /\ Kept(generators[s], c)' <=> Kept(h, c)
             /\ Given(generators[s], c)' <=> Given(h, c)
  BY <1>1 DEF Kept, Given
<1>10. OneServed(h) => OneServed(generators[s])'
  BY <1>1 DEF OneServed
<1>11. ASSUME ~Heard(s, m)
      PROVE  Fed(s, m, t)
  <2>1. h = g
    BY <1>1, <1>11
  <2>2. OrderedStream(h)'
    BY <1>4, <1>5, <1>6, <1>7, <1>8, <2>1 DEF OrderedStream, LaneAscending, BeforeAll
  <2>3. OrderedStream(generators[s])'
    BY <1>1, <2>2, StreamIs
  <2> QED
    BY <1>1, <1>2, <1>11, <1>9, <1>10, <2>1, <2>3 DEF Fed
<1>12. ASSUME Heard(s, m), g.listens
       PROVE  Fed(s, m, t)
  <2>1. /\ h \in Generators(Replies, Nat) /\ OneServed(h) /\ h.callers = g.callers
        /\ h.given = <<m>> /\ h.events = g.events
    BY <1>1, <1>2, <1>4, <1>12, MatchedServes
  <2>2. g.events = <<>> /\ g.given = <<>>
    BY <1>2, <1>12 DEF OneServed
  <2>3. DOMAIN g.events = {} /\ DOMAIN g.given = {} /\ DOMAIN h.events = {}
    BY <2>1, <2>2
  <2>4. DOMAIN h.given = {1} /\ h.given[1] = m
    BY <2>1, OnlyOne
  <2>5. OrderedStream(h)'
    <3>1. LaneAscending(h.events)'
      BY <2>3 DEF LaneAscending
    <3>2. BeforeAll(t, h.events)'
      BY <2>3 DEF BeforeAll
    <3>3. Answered(t)' /\ BeforeAll(t, toClient)'
      BY <1>4, <1>6
    <3> QED
      BY <1>4, <2>3, <2>4, <3>1, <3>2, <3>3 DEF OrderedStream
  <2>6. OrderedStream(generators[s])'
    BY <1>1, <2>5, StreamIs
  <2>7. \A c : Kept(h, c) \/ Given(h, c) <=> c = t
    BY <1>4, <2>3, <2>4 DEF Kept, Given
  <2>8. \A c : ~Kept(g, c) /\ ~Given(g, c)
    BY <2>3 DEF Kept, Given
  <2>9. \A x \in Range(h.events) \cup Range(h.given) : x = m
    BY <2>3, <2>4 DEF Range
  <2> QED
    BY <1>1, <1>12, <1>9, <1>10, <2>1, <2>6, <2>7, <2>8, <2>9 DEF Fed
<1>13. ASSUME Heard(s, m), ~g.listens
       PROVE  Fed(s, m, t)
  <2>1. /\ h \in Generators(Replies, Nat) /\ OneServed(h) /\ h.callers = g.callers
        /\ h.given = g.given /\ h.events = Append(g.events, m)
    BY <1>1, <1>2, <1>4, <1>13, MatchedServes
  <2>2. /\ \A i \in DOMAIN g.events :
             i \in DOMAIN h.events /\ h.events[i] = g.events[i] /\ i < Len(g.events) + 1
        /\ Len(g.events) + 1 \in DOMAIN h.events /\ h.events[Len(g.events) + 1] = m
        /\ \A j \in DOMAIN h.events :
             j \in Nat /\ (j = Len(g.events) + 1 \/ j \in DOMAIN g.events)
    <3>1. PICK u : u = Append(g.events, m)
      OBVIOUS
    <3>2. /\ \A i \in DOMAIN g.events :
               i \in DOMAIN u /\ u[i] = g.events[i] /\ i < Len(g.events) + 1
          /\ Len(g.events) + 1 \in DOMAIN u /\ u[Len(g.events) + 1] = m
          /\ \A j \in DOMAIN u : j \in Nat /\ (j = Len(g.events) + 1 \/ j \in DOMAIN g.events)
      BY <1>3, <1>4, <3>1, LastAndOthers
    <3> QED
      BY <2>1, <3>1, <3>2
  <2>3. \A i \in DOMAIN g.events : SameLane(g.events[i].to, t) => g.events[i].to < t
    BY <1>4, <1>8
  <2>4. LaneAscending(h.events)
    <3> SUFFICES ASSUME NEW i \in DOMAIN h.events, NEW j \in DOMAIN h.events, i < j,
                        SameLane(h.events[i].to, h.events[j].to)
                 PROVE  h.events[i].to < h.events[j].to
      BY DEF LaneAscending
    <3>1. i \in DOMAIN g.events
      <4>1. ASSUME i \notin DOMAIN g.events
            PROVE  FALSE
        <5>1. i = Len(g.events) + 1 /\ i \in Nat /\ j \in Nat
          BY <2>2, <4>1
        <5>2. CASE j \in DOMAIN g.events
          BY <2>2, <5>1, <5>2
        <5>3. CASE j = Len(g.events) + 1
          BY <5>1, <5>3
        <5> QED
          BY <2>2, <5>2, <5>3
      <4> QED
        BY <4>1
    <3>2. CASE j \in DOMAIN g.events
      BY <1>8, <2>2, <3>1, <3>2 DEF LaneAscending
    <3>3. CASE j = Len(g.events) + 1
      BY <1>4, <2>2, <2>3, <3>1, <3>3
    <3> QED
      BY <2>2, <3>2, <3>3
  <2>5. \A i \in DOMAIN h.events :
          /\ h.events[i].to \in DOMAIN calls
          /\ Answered(h.events[i].to) /\ BeforeAll(h.events[i].to, rest)
    BY <1>4, <1>5, <1>8, <2>2
  <2>6. \A i \in DOMAIN g.given : BeforeAll(g.given[i].to, h.events)
    BY <1>4, <1>8, <2>2 DEF BeforeAll
  <2>7. OrderedStream(h)'
    <3>1. LaneAscending(h.events)'
      BY <1>7, <2>4, <2>5 DEF LaneAscending
    <3>2. \A i \in DOMAIN h.events : Answered(h.events[i].to)' /\ BeforeAll(h.events[i].to, toClient)'
      BY <1>6, <2>5
    <3>3. \A i \in DOMAIN h.given : /\ Answered(h.given[i].to)' /\ BeforeAll(h.given[i].to, toClient)'
      BY <1>4, <1>5, <1>6, <1>8, <2>1
    <3>4. \A i \in DOMAIN h.given : BeforeAll(h.given[i].to, h.events)'
      BY <1>5, <1>7, <2>1, <2>5, <2>6 DEF BeforeAll
    <3> QED
      BY <3>1, <3>2, <3>3, <3>4 DEF OrderedStream
  <2>8. OrderedStream(generators[s])'
    BY <1>1, <2>7, StreamIs
  <2>9. \A c : Kept(h, c) <=> Kept(g, c) \/ c = t
    BY <1>4, <2>2 DEF Kept
  <2>10. \A c : Given(h, c) <=> Given(g, c)
    BY <2>1 DEF Given
  <2>11. \A x \in Range(h.events) \cup Range(h.given) :
           x \in Range(g.events) \cup Range(g.given) \/ x = m
    BY <2>1, <2>2 DEF Range
  <2> QED
    BY <1>1, <1>13, <1>9, <1>10, <2>1, <2>8, <2>9, <2>10, <2>11 DEF Fed
<1> QED
  BY <1>11, <1>12, <1>13

-----------------------------------------------------------------------------
(* What a message does to the calls and the context: only the call that is  *)
(* answered changes, if it is one over Method, and then it is over.         *)
TookOne(m, t) ==
  /\ CallsStay
  /\ calls' \in Seq(Calls) /\ DOMAIN calls' = DOMAIN calls
  /\ \A d \in DOMAIN calls : d # t \/ calls[t].op.stream # "none" => calls'[d] = calls[d]
  /\ calls'[t].by = calls[t].by \/ calls'[t].by = t
  /\ readyState = "OPEN" /\ calls[t].op.stream = "none" => ~Pending(t)'
  /\ listeners' \in Seq(Callbacks)
  /\ Programmed' /\ Staged' /\ Registered' /\ Told'

LEMMA BothRemoved ==
  ASSUME Inv, NEW t \in DOMAIN calls, NEW u, u = Released(Forgotten(listeners, t), t)
  PROVE  /\ u \in Seq(Callbacks)
         /\ \A l : Contains(u, l) <=> Contains(listeners, l) /\ l \notin {CloseOf(t), MessageOf(t)}
         /\ \A l : Once(listeners, l) => Once(u, l)
<1>1. PICK a, b : a = MessageOf(t) /\ b = CloseOf(t)
  OBVIOUS
<1>2. listeners \in Seq(Callbacks) /\ Once(listeners, a) /\ Once(listeners, b)
  BY <1>1, OwnCallbacks DEF Inv, Typed
<1>3. PICK v : v = RemoveFirst(listeners, a)
  OBVIOUS
<1>4. /\ v \in Seq(Callbacks)
      /\ \A l : Contains(v, l) <=> Contains(listeners, l) /\ l # a
      /\ \A l : Once(listeners, l) => Once(v, l)
  BY <1>2, <1>3, RemovedOne
<1>5. u = RemoveFirst(v, b)
  BY <1>1, <1>3 DEF Released, Forgotten, RemoveListener, CloseOf, MessageOf
<1>6. Once(v, b)
  BY <1>2, <1>4
<1>7. /\ u \in Seq(Callbacks)
      /\ \A l : Contains(u, l) <=> Contains(v, l) /\ l # b
      /\ \A l : Once(v, l) => Once(u, l)
  BY <1>4, <1>5, <1>6, RemovedOne
<1> QED
  BY <1>1, <1>4, <1>7

LEMMA MessageTaken ==
  ASSUME Inv, OnMessage, NEW m, m = Head(toClient), NEW t, NEW rest, Delivered(m, t, rest)
  PROVE  TookOne(m, t)
<1>1. /\ m \in Replies /\ t = m.to /\ t \in DOMAIN calls /\ calls[t].op # Shutdown
      /\ OnItsWay(t)
  BY DEF Delivered
<1>2. /\ UNCHANGED <<platform, context, readyState, reported, workload, clients, unnamed>>
      /\ \/ \E c \in DOMAIN calls :
              /\ Owns(c, m)
              /\ calls' = IF Pending(c) THEN [calls EXCEPT ![c] = Settled(@, m)] ELSE calls
              /\ listeners' = Released(Forgotten(listeners, c), c)
         \/ (\A c \in DOMAIN calls : ~Owns(c, m)) /\ UNCHANGED <<calls, listeners>>
  BY DEF OnMessage
<1>3. CASE \E c \in DOMAIN calls :
             /\ Owns(c, m)
             /\ calls' = IF Pending(c) THEN [calls EXCEPT ![c] = Settled(@, m)] ELSE calls
             /\ listeners' = Released(Forgotten(listeners, c), c)
  <2>1. /\ calls' = IF Pending(t) THEN [calls EXCEPT ![t] = Settled(@, m)] ELSE calls
        /\ listeners' = Released(Forgotten(listeners, t), t)
        /\ calls[t].op.stream = "none"
    <3>1. PICK c \in DOMAIN calls :
            /\ Owns(c, m)
            /\ calls' = IF Pending(c) THEN [calls EXCEPT ![c] = Settled(@, m)] ELSE calls
            /\ listeners' = Released(Forgotten(listeners, c), c)
      BY <1>3
    <3>2. c = t /\ calls[t].op.stream = "none"
      BY <3>1, OwnsItsOwn DEF Owns
    <3> QED
      BY <3>1, <3>2
  <2>2. PICK u : u = Released(Forgotten(listeners, t), t)
    OBVIOUS
  <2>3. /\ u \in Seq(Callbacks)
        /\ \A l : Contains(u, l) <=> Contains(listeners, l) /\ l \notin {CloseOf(t), MessageOf(t)}
        /\ \A l : Once(listeners, l) => Once(u, l)
    BY <1>1, <2>2, BothRemoved
  <2>4. Settling(t, m, {CloseOf(t), MessageOf(t)})
    BY <1>1, <1>2, <2>1, <2>2, <2>3 DEF Settling
  <2>5. OthersStay(t, m)
    BY <2>4, SettlingOne
  <2>6. Programmed' /\ Staged' /\ Registered' /\ Told'
    BY <2>4, SettlingContext
  <2> QED
    BY <1>1, <2>1, <2>2, <2>3, <2>5, <2>6 DEF TookOne, OthersStay
<1>4. CASE (\A c \in DOMAIN calls : ~Owns(c, m)) /\ UNCHANGED <<calls, listeners>>
  <2>1. CallsStay
    BY <1>2, <1>4 DEF CallsStay
  <2>2. Programmed'
    <3>1. \A c : Streamed(c)' <=> Streamed(c)
      BY <1>4 DEF Streamed
    <3> QED
      BY <1>2, <1>4, <3>1 DEF Inv, Programmed
  <2>3. Staged'
    BY <1>2, <1>4 DEF Inv, Staged
  <2>4. Registered'
    BY <1>2, <1>4 DEF Inv, Registered, Connected, Has, Pending, Streamed, ListensTo, Listener
  <2>5. Told'
    BY <1>2, <1>4 DEF Inv, Told, CloseReported, Connected, Has, Pending, Listener
  <2>6. ASSUME readyState = "OPEN", calls[t].op.stream = "none"
        PROVE  ~Pending(t)'
    <3>1. ~Has("message", "listener", t)
      BY <1>1, <1>4, <2>6, OwnsItsOwn DEF Owns, Has
    <3>2. ~Streamed(t)
      BY <2>6 DEF Streamed, Streams
    <3>3. ~Pending(t)
      BY <1>1, <2>6, <3>1, <3>2 DEF Inv, Registered
    <3> QED
      BY <1>4, <3>3 DEF Pending
  <2>7. calls \in Seq(Calls) /\ listeners \in Seq(Callbacks)
    BY DEF Inv, Typed
  <2> QED
    BY <1>4, <2>1, <2>2, <2>3, <2>4, <2>5, <2>6, <2>7 DEF TookOne
<1> QED
  BY <1>2, <1>3, <1>4

LEMMA OnMessageStep ==
  ASSUME Inv, OnMessage
  PROVE  Inv'
<1>1. PICK m : m = Head(toClient)
  OBVIOUS
<1>2. PICK rest : rest = Tail(toClient)
  OBVIOUS
<1>3. PICK t : t = m.to
  OBVIOUS
<1>4. /\ toClient # <<>> /\ readyState \in {"OPEN", "CLOSING"}
      /\ UNCHANGED <<platform, context, readyState, reported, workload, clients, toServer, queues>>
      /\ toClient' = rest
      /\ generators' = [s \in Streams |-> IF Heard(s, m) THEN Matched(generators[s], m)
                                                        ELSE generators[s]]
  BY <1>1, <1>2 DEF OnMessage
<1>5. Delivered(m, t, rest)
  BY <1>1, <1>2, <1>3, <1>4, FirstDelivered
<1>6. TookOne(m, t)
  BY <1>1, <1>5, MessageTaken
<1>7. /\ CallsStay
      /\ calls' \in Seq(Calls) /\ DOMAIN calls' = DOMAIN calls
      /\ \A d \in DOMAIN calls : d # t \/ calls[t].op.stream # "none" => calls'[d] = calls[d]
      /\ readyState = "OPEN" /\ calls[t].op.stream = "none" => ~Pending(t)'
  BY <1>6 DEF TookOne
<1>8. ASSUME NEW s \in Streams
      PROVE  Fed(s, m, t)
  <2>1. generators'[s] = IF Heard(s, m) THEN Matched(generators[s], m) ELSE generators[s]
    BY <1>4
  <2> QED
    BY <1>4, <1>5, <1>7, <2>1, GeneratorFed
<1>9. /\ m \in Replies /\ rest \in Seq(Replies) /\ ReplyFits(m)
      /\ t \in DOMAIN calls /\ calls[t].op # Shutdown /\ OnItsWay(t)
      /\ \A c : BeforeAll(c, toClient) => BeforeAll(c, rest) /\ (SameLane(c, t) => c < t)
      /\ LaneAscending(rest)
      /\ \A x \in Range(rest) : x \in Range(toClient)
      /\ \A i \in DOMAIN rest : rest[i].to \in DOMAIN calls /\ rest[i].to # t
      /\ \A c : Arriving(c) <=> c = t \/ \E i \in DOMAIN rest : rest[i].to = c
      /\ ~Sending(t) /\ ~Queued(t) /\ t = m.to
  BY <1>5 DEF Delivered
<1>10. Typed /\ Fitting /\ Ordered /\ Waiting /\ Accounted /\ OwnResponse /\ Programmed
       /\ Registered
  BY DEF Inv
<1>11. Typed'
  <2>1. generators' \in [Streams -> Generators(Replies, Nat)]
    BY <1>4, <1>8 DEF Fed
  <2>2. listeners' \in Seq(Callbacks)
    BY <1>6 DEF TookOne
  <2> QED
    BY <1>4, <1>7, <1>9, <1>10, <2>1, <2>2 DEF Typed
<1>12. Fitting'
  <2>1. \A s \in Streams :
          \A x \in Range(generators'[s].events) \cup Range(generators'[s].given) : ReplyFits(x)'
    <3> SUFFICES ASSUME NEW s \in Streams,
                        NEW x \in Range(generators'[s].events) \cup Range(generators'[s].given)
                 PROVE  ReplyFits(x)'
      OBVIOUS
    <3>1. x \in Range(generators[s].events) \cup Range(generators[s].given) \/ x = m
      BY <1>8 DEF Fed
    <3>2. ReplyFits(x)
      BY <1>9, <1>10, <3>1 DEF Fitting
    <3> QED
      BY <1>7, <3>2, FitsStay
  <2>2. \A x \in Range(rest) : ReplyFits(x)'
    BY <1>7, <1>9, <1>10, FitsStay DEF Fitting
  <2>3. /\ \A x \in Range(toServer) : RequestFits(x)'
        /\ \A p \in Protocols : \A x \in Range(queues[p]) :
             RequestFits(x)' /\ x.wellFormed /\ x.op.protocol = p
    BY <1>7, <1>10, FitsStay DEF Fitting
  <2> QED
    BY <1>4, <2>1, <2>2, <2>3 DEF Fitting
<1>13. Ordered'
  <2>1. \A c \in DOMAIN calls : Answered(c) => Answered(c)'
    BY <1>4, <1>5, <1>7, AnsweredStaysDelivered
  <2>2. LaneAscending(toClient)'
    BY <1>4, <1>7, <1>9, LanesStay DEF LaneAscending
  <2>3. \A c \in DOMAIN calls' : Arriving(c)' => Answered(c)'
    BY <1>4, <1>7, <1>9, <1>10, <2>1 DEF Ordered, Arriving
  <2> QED
    BY <1>4, <1>10, <2>2, <2>3 DEF Ordered, Ascending
<1>14. OrderedStreams'
  BY <1>8 DEF Fed, OrderedStreams
<1>15. \A d \in DOMAIN calls : calls[d].op.stream \in Streams => calls'[d] = calls[d]
  BY <1>7 DEF Streams
<1>16. Waiting'
  <2> SUFFICES ASSUME NEW s \in Streams
               PROVE  /\ OneServed(generators[s])'
                      /\ \A i \in DOMAIN generators[s]'.callers :
                           LET c == generators[s]'.callers[i]
                           IN  c \in DOMAIN calls' /\ calls'[c].op.stream = s
                      /\ \A i, j \in DOMAIN generators[s]'.callers :
                           i < j => generators[s]'.callers[i] < generators[s]'.callers[j]
                      /\ readyState' = "OPEN" => \A c \in DOMAIN calls' :
                           calls'[c].op.stream = s => (Pending(c)' <=> Waits(s, c)')
    BY DEF Waiting
  <2>1. OneServed(generators[s])' /\ generators'[s].callers = generators[s].callers
    BY <1>8 DEF Fed
  <2>2. /\ \A i \in DOMAIN generators[s].callers :
             LET c == generators[s].callers[i]
             IN  c \in DOMAIN calls /\ calls[c].op.stream = s
        /\ \A i, j \in DOMAIN generators[s].callers :
             i < j => generators[s].callers[i] < generators[s].callers[j]
        /\ readyState = "OPEN" => \A c \in DOMAIN calls :
             calls[c].op.stream = s => (Pending(c) <=> Waits(s, c))
    BY <1>10 DEF Waiting
  <2>3. \A i \in DOMAIN generators[s]'.callers :
          LET c == generators[s]'.callers[i]
          IN  c \in DOMAIN calls' /\ calls'[c].op.stream = s
    BY <1>7, <2>1, <2>2 DEF CallsStay
  <2>4. ASSUME readyState' = "OPEN", NEW c \in DOMAIN calls', calls'[c].op.stream = s
        PROVE  Pending(c)' <=> Waits(s, c)'
    <3>1. c \in DOMAIN calls /\ calls[c].op.stream = s
      BY <1>7, <2>4 DEF CallsStay
    <3> QED
      BY <1>4, <1>15, <2>1, <2>2, <2>4, <3>1 DEF Pending, Waits
  <2> QED
    BY <2>1, <2>2, <2>3, <2>4
<1>17. /\ ~OnItsWay(t)'
       /\ \A c \in DOMAIN calls : c # t => (OnItsWay(c)' <=> OnItsWay(c))
  <2>1. \A c \in DOMAIN calls : (Sending(c)' <=> Sending(c)) /\ (Queued(c)' <=> Queued(c))
    BY <1>4, <1>7 DEF Sending, Queued, CallsStay
  <2>2. ~Arriving(t)' /\ \A c \in DOMAIN calls : c # t => (Arriving(c)' <=> Arriving(c))
    BY <1>4, <1>9 DEF Arriving
  <2> QED
    BY <1>9, <2>1, <2>2 DEF OnItsWay
<1>18. Accounted'
  <2>1. ASSUME NEW s \in Streams, Peaceful(s)'
        PROVE  OwnStream(s)'
    <3>1. Peaceful(s) /\ OwnStream(s)
      BY <1>7, <1>10, <2>1, PeaceStays DEF Accounted
    <3>2. Fed(s, m, t)
      BY <1>8
    <3>3. Matches(s, m) <=> calls[t].op.stream = s
      BY <1>5, <3>1, MatchesItsOwn
    <3>4. Heard(s, m) <=> calls[t].op.stream = s
      <4>1. ASSUME calls[t].op.stream = s
            PROVE  Contains(listeners, ListensTo(s))
        <5>1. s \in clients
          BY <1>9, <1>10, <4>1 DEF Programmed, Streamed
        <5> QED
          BY <1>4, <1>10, <5>1 DEF Registered, Connected
      <4> QED
        BY <3>3, <4>1 DEF Heard
    <3>5. \A x \in Range(generators[s].events) \cup Range(generators[s].given) :
            calls[x.to].op.stream = s /\ x.to \in DOMAIN calls
      BY <1>10, <3>1 DEF OwnStream, Range, Fitting, ReplyFits, Asking
    <3>6. \A x \in Range(generators'[s].events) \cup Range(generators'[s].given) :
            calls'[x.to].op.stream = s
      <4> SUFFICES ASSUME NEW x \in Range(generators'[s].events) \cup Range(generators'[s].given)
                   PROVE  calls'[x.to].op.stream = s
        OBVIOUS
      <4>1. \/ x \in Range(generators[s].events) \cup Range(generators[s].given)
            \/ x = m /\ Heard(s, m)
        BY <3>2 DEF Fed
      <4>2. calls[x.to].op.stream = s /\ x.to \in DOMAIN calls
        BY <1>9, <3>4, <3>5, <4>1
      <4> QED
        BY <1>7, <4>2 DEF CallsStay
    <3>7. ASSUME NEW c \in DOMAIN calls', calls'[c].op.stream = s, calls'[c].sent
          PROVE  Waits(s, c)' <=>
                   OnItsWay(c)' \/ Kept(generators[s], c)' \/ Given(generators[s], c)'
      <4>1. c \in DOMAIN calls /\ calls[c].op.stream = s /\ calls[c].sent
        BY <1>7, <3>7 DEF CallsStay
      <4>2. Waits(s, c) <=>
              OnItsWay(c) \/ Kept(generators[s], c) \/ Given(generators[s], c)
        BY <3>1, <4>1 DEF OwnStream
      <4>3. Waits(s, c)' <=> Waits(s, c)
        BY <3>2 DEF Fed, Waits
      <4>4. Kept(generators[s], c)' \/ Given(generators[s], c)'
              <=> Kept(generators[s], c) \/ Given(generators[s], c) \/ (c = t /\ Heard(s, m))
        BY <3>2 DEF Fed
      <4>5. CASE c = t
        BY <1>9, <3>4, <4>1, <4>2, <4>3, <4>4, <4>5
      <4>6. CASE c # t
        BY <1>17, <4>1, <4>2, <4>3, <4>4, <4>6
      <4> QED
        BY <4>5, <4>6
    <3> QED
      BY <3>6, <3>7 DEF OwnStream, Range
  <2>2. ASSUME readyState' = "OPEN", NEW c \in DOMAIN calls',
               calls'[c].op.stream = "none", calls'[c].op # Shutdown
        PROVE  Pending(c)' <=> OnItsWay(c)'
    <3>1. c \in DOMAIN calls /\ calls[c].op = calls'[c].op /\ readyState = "OPEN"
      BY <1>4, <1>7, <2>2 DEF CallsStay
    <3>2. CASE c = t
      BY <1>7, <1>17, <2>2, <3>1, <3>2
    <3>3. CASE c # t
      <4>1. Pending(c) <=> OnItsWay(c)
        BY <1>10, <2>2, <3>1 DEF Accounted
      <4>2. calls'[c] = calls[c]
        BY <1>7, <3>1, <3>3
      <4> QED
        BY <1>17, <3>1, <3>3, <4>1, <4>2 DEF Pending
    <3> QED
      BY <3>2, <3>3
  <2> QED
    BY <2>1, <2>2 DEF Accounted
<1>19. OwnResponse'
  <2> SUFFICES ASSUME NEW c \in DOMAIN calls', calls'[c].by # None,
                      Streamed(c)' => Undisturbed(c)'
               PROVE  calls'[c].by = c
    BY DEF OwnResponse
  <2>1. c \in DOMAIN calls /\ (Streamed(c) => Undisturbed(c))
    BY <1>7, PeaceStays
  <2>2. calls'[c].by = calls[c].by \/ (c = t /\ calls'[c].by = t)
    BY <1>6, <2>1 DEF TookOne
  <2> QED
    BY <1>10, <2>1, <2>2 DEF OwnResponse
<1>20. Programmed' /\ Staged' /\ Registered' /\ Told'
  BY <1>6 DEF TookOne
<1> QED
  BY <1>11, <1>12, <1>13, <1>14, <1>16, <1>18, <1>19, <1>20 DEF Inv

-----------------------------------------------------------------------------
(* The microtask of a generator: c is the call that is over, x what it got. *)
Resuming(s, c, x) ==
  /\ generators[s] \in Generators(Replies, Nat) /\ generators'[s] \in Generators(Replies, Nat)
  /\ OneServed(generators[s])' /\ Moved(generators[s], generators'[s])
  /\ x \in Replies /\ ReplyFits(x) /\ x.to \in DOMAIN calls
  /\ Given(generators[s], x.to) /\ \A d : Given(generators[s], d) => d = x.to
  /\ Waits(s, c) /\ c \in DOMAIN calls /\ calls[c].op.stream = s
  /\ \A d : Waits(s, d) => c <= d
  /\ \A d : Waits(s, d)' <=> Waits(s, d) /\ d # c
  /\ \A i \in DOMAIN generators'[s].callers :
       /\ i \in Nat /\ i + 1 \in DOMAIN generators[s].callers
       /\ generators'[s].callers[i] = generators[s].callers[i + 1]
  /\ \A d : Kept(generators[s], d)' \/ Given(generators[s], d)' <=> Kept(generators[s], d)

LEMMA ResumingFirst ==
  ASSUME Inv, NEW s \in Streams, Resumable(generators[s]),
         generators'[s] = Resumed(generators[s]),
         NEW c, c = Head(generators[s].callers), NEW x, x = generators[s].given[1]
  PROVE  Resuming(s, c, x)
<1>0. Typed /\ Fitting /\ Waiting /\ OrderedStreams
  BY DEF Inv
<1>1. PICK g, h : g = generators[s] /\ h = generators'[s]
  OBVIOUS
<1>2. g \in Generators(Replies, Nat) /\ OneServed(g) /\ Resumable(g) /\ h = Resumed(g)
  BY <1>0, <1>1, Sequences DEF Waiting
<1>3. /\ h \in Generators(Replies, Nat)
      /\ OneServed(h)
      /\ g.callers # <<>> /\ Len(g.given) = 1
      /\ h.callers = Tail(g.callers)
      /\ \/ h.given = <<>> /\ h.events = g.events
         \/ /\ g.events # <<>>
            /\ h.given = <<Head(g.events)>> /\ h.events = Tail(g.events)
  BY <1>2, ResumedServes
<1>4. Moved(g, h)
  BY <1>3 DEF Moved
<1>5. g.events \in Seq(Replies) /\ g.given \in Seq(Replies) /\ g.callers \in Seq(Nat)
  BY <1>2, GeneratorSequences
<1>6. DOMAIN g.given = {1} /\ x = g.given[1] /\ x \in Replies
  <2>1. DOMAIN g.given = 1 .. Len(g.given)
    BY <1>5, LenProperties
  <2>2. DOMAIN g.given = {1}
    BY <1>3, <2>1
  <2> QED
    BY <1>1, <1>5, <2>2, ElementOfSeq, <1>3
<1>7. ReplyFits(x) /\ x.to \in DOMAIN calls
  <2>1. x \in Range(g.given)
    BY <1>6 DEF Range
  <2> QED
    BY <1>0, <1>1, <2>1 DEF Fitting, ReplyFits, Asking
<1>8. Given(g, x.to) /\ \A d : Given(g, d) => d = x.to
  BY <1>6 DEF Given
<1>9. PICK rest : rest = Tail(g.callers)
  OBVIOUS
<1>10. /\ c = g.callers[1] /\ c \in Nat /\ 1 \in DOMAIN g.callers
       /\ \A i \in DOMAIN rest :
            i \in Nat /\ i >= 1 /\ i + 1 \in DOMAIN g.callers /\ rest[i] = g.callers[i + 1]
       /\ \A j \in DOMAIN g.callers :
            j \in Nat /\ (j = 1 \/ (j - 1 \in DOMAIN rest /\ rest[j - 1] = g.callers[j]))
       /\ \A j \in DOMAIN g.callers : j >= 1
  <2>1. PICK q : q = g.callers
    OBVIOUS
  <2>2. q \in Seq(Nat) /\ q # <<>> /\ rest = Tail(q) /\ c = Head(q)
    BY <1>1, <1>3, <1>5, <1>9, <2>1
  <2>3. /\ Head(q) = q[1] /\ Head(q) \in Nat /\ 1 \in DOMAIN q
        /\ \A i \in DOMAIN rest :
             i \in Nat /\ i >= 1 /\ i + 1 \in DOMAIN q /\ rest[i] = q[i + 1]
        /\ \A j \in DOMAIN q :
             j \in Nat /\ (j = 1 \/ (j - 1 \in DOMAIN rest /\ rest[j - 1] = q[j]))
        /\ \A j \in DOMAIN q : j >= 1
    BY <2>2, FirstAndRest
  <2> QED
    BY <2>1, <2>2, <2>3
<1>11. /\ \A i \in DOMAIN g.callers :
            LET d == g.callers[i] IN d \in DOMAIN calls /\ calls[d].op.stream = s
       /\ \A i, j \in DOMAIN g.callers : i < j => g.callers[i] < g.callers[j]
  BY <1>0, <1>1 DEF Waiting
<1>12. \A d : Waits(s, d) <=> \E i \in DOMAIN g.callers : g.callers[i] = d
  BY <1>1 DEF Waits
<1>13. \A d : Waits(s, d)' <=> \E i \in DOMAIN rest : rest[i] = d
  BY <1>1, <1>3, <1>9 DEF Waits
<1>14. \A j \in DOMAIN rest : c < rest[j]
  <2>1. \A j \in DOMAIN rest : 1 < j + 1
    BY <1>10
  <2> QED
    BY <1>10, <1>11, <2>1
<1>15. \A d : Waits(s, d) => c <= d
  <2> SUFFICES ASSUME NEW j \in DOMAIN g.callers
               PROVE  c <= g.callers[j]
    BY <1>12
  <2>1. g.callers[j] \in Nat
    BY <1>2, GeneratorSequences
  <2>2. CASE j = 1
    BY <1>10, <2>2
  <2>3. CASE j # 1
    <3>1. 1 < j
      BY <1>10, <2>3
    <3> QED
      BY <1>10, <1>11, <2>1, <3>1
  <2> QED
    BY <2>2, <2>3
<1>16. \A d : Waits(s, d)' <=> Waits(s, d) /\ d # c
  <2> TAKE d
  <2>1. ASSUME NEW i \in DOMAIN rest, rest[i] = d
        PROVE  Waits(s, d) /\ d # c
    <3>1. c < d /\ ~(c < c)
      BY <1>10, <1>14, <2>1
    <3> QED
      BY <1>10, <1>12, <2>1, <3>1
  <2>2. ASSUME NEW j \in DOMAIN g.callers, g.callers[j] = d, d # c
        PROVE  \E i \in DOMAIN rest : rest[i] = d
    <3>1. j - 1 \in DOMAIN rest /\ rest[j - 1] = g.callers[j]
      BY <1>10, <2>2
    <3> QED
      BY <2>2, <3>1
  <2> QED
    BY <1>12, <1>13, <2>1, <2>2
<1>17. Waits(s, c) /\ c \in DOMAIN calls /\ calls[c].op.stream = s
  BY <1>10, <1>11, <1>12
<1>18. \A d : Kept(g, d) <=> Kept(h, d) \/ Given(h, d)
  <2>1. CASE h.given = <<>> /\ h.events = g.events
    BY <2>1 DEF Kept, Given
  <2>2. CASE /\ g.events # <<>>
             /\ h.given = <<Head(g.events)>> /\ h.events = Tail(g.events)
    <3>1. /\ Head(g.events) = g.events[1] /\ 1 \in DOMAIN g.events
          /\ \A i \in DOMAIN h.events : i + 1 \in DOMAIN g.events /\ h.events[i] = g.events[i + 1]
          /\ \A j \in DOMAIN g.events :
               j = 1 \/ (j - 1 \in DOMAIN h.events /\ h.events[j - 1] = g.events[j])
      BY <1>5, <2>2, FirstAndRest
    <3>2. DOMAIN h.given = {1} /\ h.given[1] = g.events[1]
      BY <2>2, <3>1, OnlyOne
    <3> QED
      BY <3>1, <3>2 DEF Kept, Given
  <2> QED
    BY <1>3, <2>1, <2>2
<1>19. \A d : /\ Kept(generators[s], d)' <=> Kept(h, d)
              /\ Given(generators[s], d)' <=> Given(h, d)
  BY <1>1 DEF Kept, Given
<1>20. OneServed(generators[s])'
  BY <1>1, <1>3 DEF OneServed
<1>21. \A i \in DOMAIN h.callers :
         i \in Nat /\ i + 1 \in DOMAIN g.callers /\ h.callers[i] = g.callers[i + 1]
  BY <1>3, <1>9, <1>10
<1> QED
  BY <1>1, <1>2, <1>3, <1>4, <1>6, <1>7, <1>8, <1>15, <1>16, <1>17, <1>18, <1>19, <1>20, <1>21
     DEF Resuming

-----------------------------------------------------------------------------
(* On a stream that nobody disturbs, what was given is the response to the  *)
(* call that waited longest, and nothing of that call is left elsewhere.    *)
LEMMA FirstGiven ==
  ASSUME Inv, NEW s \in Streams, Peaceful(s), NEW c, NEW x, Resuming(s, c, x)
  PROVE  x.to = c /\ ~OnItsWay(c) /\ ~Kept(generators[s], c)
<1>0. OwnStream(s) /\ OrderedStream(generators[s]) /\ Programmed /\ Typed
  BY DEF Inv, Accounted, OrderedStreams
<1>1. PICK y : y = x.to
  OBVIOUS
<1>2. /\ ReplyFits(x) /\ y \in DOMAIN calls /\ Given(generators[s], y)
      /\ \A d : Given(generators[s], d) => d = y
      /\ Waits(s, c) /\ c \in DOMAIN calls /\ calls[c].op.stream = s
      /\ \A d : Waits(s, d) => c <= d
  BY <1>1 DEF Resuming
<1>3. calls[y].sent /\ calls[y].op.stream = s
  BY <1>0, <1>1, <1>2 DEF ReplyFits, Asking, OwnStream, Given
<1>4. /\ Answered(y) /\ BeforeAll(y, toClient) /\ BeforeAll(y, generators[s].events)
  BY <1>0, <1>2 DEF OrderedStream, Given
<1>5. c \in Nat /\ y \in Nat /\ c <= y
  <2>1. Waits(s, y)
    BY <1>0, <1>2, <1>3 DEF OwnStream
  <2> QED
    BY <1>0, <1>2, <2>1, Sequences
<1>6. calls[c].sent
  BY <1>0, <1>2, <1>3, <1>5 DEF Programmed
<1>7. \A d \in DOMAIN calls : calls[d].op.stream = s =>
        /\ calls[d].wellFormed /\ calls[d].op.protocol = ProtocolOf(s)
        /\ calls[d].op.protocol \in Protocols
  <2> SUFFICES ASSUME NEW d \in DOMAIN calls, calls[d].op.stream = s
               PROVE  /\ calls[d].wellFormed /\ calls[d].op.protocol = ProtocolOf(s)
                      /\ calls[d].op.protocol \in Protocols
    OBVIOUS
  <2>1. calls[d].op # Shutdown
    BY DEF Shutdown, Operation, Streams
  <2>2. calls[d].op \in Operations
    BY <1>0, <2>1, Sequences DEF Calls
  <2>3. IsOperation(calls[d].op)
    BY <2>2, OperationFacts
  <2> QED
    BY <2>3 DEF IsOperation, Peaceful
<1>8. SameLane(y, c) /\ Lane(y) = calls[c].op.protocol /\ calls[c].op.protocol \in Protocols
  BY <1>2, <1>3, <1>7 DEF SameLane, Lane
<1>9. ~(y < c)
  BY <1>5
<1>10. ~OnItsWay(c)
  <2>1. ~Sending(c)
    BY <1>4, <1>9 DEF Sending, Answered
  <2>2. ~Queued(c)
    BY <1>4, <1>8, <1>9 DEF Queued, Answered
  <2>3. ~Arriving(c)
    BY <1>4, <1>8, <1>9 DEF Arriving, BeforeAll
  <2> QED
    BY <2>1, <2>2, <2>3 DEF OnItsWay
<1>11. ~Kept(generators[s], c)
  BY <1>4, <1>8, <1>9 DEF Kept, BeforeAll
<1>12. Given(generators[s], c)
  BY <1>0, <1>2, <1>6, <1>10, <1>11 DEF OwnStream
<1> QED
  BY <1>1, <1>2, <1>10, <1>11, <1>12

LEMMA UndisturbedPeaceful ==
  ASSUME Inv, NEW c \in DOMAIN calls, NEW s \in Streams, calls[c].op.stream = s, Undisturbed(c)
  PROVE  Peaceful(s)
<1>1. calls[c].op # Shutdown
  BY DEF Shutdown, Operation, Streams
<1>2. calls[c].op \in Operations
  BY <1>1, Sequences DEF Inv, Calls
<1>3. IsOperation(calls[c].op)
  BY <1>2, OperationFacts
<1> QED
  BY <1>3 DEF Undisturbed, ByMethod, Peaceful, IsOperation

LEMMA ResumeStep ==
  ASSUME Inv, NEW s \in Streams, Resume(s)
  PROVE  Inv'
<1>1. PICK c : c = Head(generators[s].callers)
  OBVIOUS
<1>2. PICK x : x = generators[s].given[1]
  OBVIOUS
<1>3. /\ Resumable(generators[s])
      /\ generators' = [generators EXCEPT ![s] = Resumed(@)]
      /\ calls' = IF Pending(c) THEN [calls EXCEPT ![c] = Settled(@, x)] ELSE calls
      /\ listeners' = Released(listeners, c)
      /\ UNCHANGED <<platform, context, readyState, reported, workload, clients>>
      /\ UNCHANGED <<toServer, queues, toClient, unnamed>>
  BY <1>1, <1>2 DEF Resume, server
<1>4. Typed /\ Fitting /\ Ordered /\ OrderedStreams /\ Waiting /\ Accounted /\ OwnResponse
  BY DEF Inv
<1>5. /\ generators'[s] = Resumed(generators[s])
      /\ \A z \in Streams : z # s => generators'[z] = generators[z]
      /\ DOMAIN generators' = Streams
  BY <1>3, <1>4 DEF Typed
<1>6. Resuming(s, c, x)
  BY <1>1, <1>2, <1>3, <1>5, ResumingFirst
<1>7. /\ generators'[s] \in Generators(Replies, Nat)
      /\ OneServed(generators[s])' /\ Moved(generators[s], generators'[s])
      /\ x \in Replies /\ ReplyFits(x) /\ x.to \in DOMAIN calls
      /\ Given(generators[s], x.to) /\ \A d : Given(generators[s], d) => d = x.to
      /\ Waits(s, c) /\ c \in DOMAIN calls /\ calls[c].op.stream = s
      /\ \A d : Waits(s, d)' <=> Waits(s, d) /\ d # c
      /\ \A i \in DOMAIN generators'[s].callers :
           /\ i \in Nat /\ i + 1 \in DOMAIN generators[s].callers
           /\ generators'[s].callers[i] = generators[s].callers[i + 1]
      /\ \A d : Kept(generators[s], d)' \/ Given(generators[s], d)' <=> Kept(generators[s], d)
  BY <1>6 DEF Resuming
<1>8. Settling(c, x, {CloseOf(c)})
  <2>1. PICK l : l = CloseOf(c)
    OBVIOUS
  <2>2. PICK u : u = RemoveFirst(listeners, l)
    OBVIOUS
  <2>3. listeners \in Seq(Callbacks) /\ Once(listeners, l)
    BY <1>4, <1>7, <2>1, OwnCallbacks DEF Typed
  <2>4. /\ u \in Seq(Callbacks)
        /\ \A y : Contains(u, y) <=> Contains(listeners, y) /\ y # l
        /\ \A y : Once(listeners, y) => Once(u, y)
    BY <2>2, <2>3, RemovedOne
  <2>5. listeners' = u
    BY <1>3, <2>1, <2>2 DEF Released, RemoveListener, CloseOf
  <2> QED
    BY <1>3, <1>7, <2>1, <2>4, <2>5 DEF Settling, Streamed
<1>9. OthersStay(c, x)
  BY <1>8, SettlingOne
<1>10. /\ CallsStay
       /\ calls' \in Seq(Calls) /\ DOMAIN calls' = DOMAIN calls
       /\ \A d \in DOMAIN calls : d # c => calls'[d] = calls[d]
       /\ ~Pending(c)'
       /\ calls'[c].by = IF Pending(c) THEN x.to ELSE calls[c].by
  BY <1>9 DEF OthersStay
<1>11. Programmed' /\ Staged' /\ Registered' /\ Told'
  BY <1>8, SettlingContext
<1>12. Typed'
  <2>1. generators' \in [Streams -> Generators(Replies, Nat)]
    BY <1>3, <1>4, <1>5, <1>7 DEF Typed
  <2>2. listeners' \in Seq(Callbacks)
    BY <1>8 DEF Settling
  <2> QED
    BY <1>3, <1>4, <1>10, <2>1, <2>2 DEF Typed
<1>13. AnsweredStay
  BY <1>3, <1>4, <1>10, AnsweredStayQuiet
<1>14. /\ \A z \in Streams : \A m \in Range(generators[z].events) \cup Range(generators[z].given) :
            ReplyFits(m)
       /\ \A z \in Streams : \A m \in Range(generators'[z].events) \cup Range(generators'[z].given) :
            m \in Range(generators[z].events) \cup Range(generators[z].given)
  <2>1. ASSUME NEW m \in Range(generators'[s].events) \cup Range(generators'[s].given)
        PROVE  m \in Range(generators[s].events) \cup Range(generators[s].given)
    <3>1. PICK g, h : g = generators[s] /\ h = generators'[s]
      OBVIOUS
    <3>2. g \in Generators(Replies, Nat) /\ h \in Generators(Replies, Nat) /\ Moved(g, h)
      BY <1>4, <1>7, <3>1, Sequences
    <3>3. /\ \A i \in DOMAIN h.events : \E j \in DOMAIN g.events : h.events[i] = g.events[j]
          /\ \A i \in DOMAIN h.given :
               \/ \E j \in DOMAIN g.events : h.given[i] = g.events[j]
               \/ i \in DOMAIN g.given /\ h.given[i] = g.given[i]
      BY <3>2, RepliesFrom
    <3> QED
      BY <2>1, <3>1, <3>3 DEF Range
  <2> QED
    BY <1>4, <1>5, <2>1 DEF Fitting
<1>15. Fitting'
  <2>1. \A z \in Streams :
          \A m \in Range(generators'[z].events) \cup Range(generators'[z].given) : ReplyFits(m)'
    BY <1>10, <1>14, FitsStay
  <2>2. /\ \A m \in Range(toClient) : ReplyFits(m)'
        /\ \A r \in Range(toServer) : RequestFits(r)'
        /\ \A p \in Protocols : \A r \in Range(queues[p]) :
             RequestFits(r)' /\ r.wellFormed /\ r.op.protocol = p
    BY <1>4, <1>10, FitsStay DEF Fitting
  <2> QED
    BY <1>3, <2>1, <2>2 DEF Fitting
<1>16. Ordered'
  <2>1. LaneAscending(toClient)'
    <3>1. \A i \in DOMAIN toClient : toClient[i].to \in DOMAIN calls
      BY <1>4, FitsKnown
    <3> QED
      BY <1>3, <1>4, <1>10, <3>1, LanesStay DEF Ordered, LaneAscending
  <2>2. \A d \in DOMAIN calls' : Arriving(d)' => Answered(d)'
    BY <1>3, <1>4, <1>10, <1>13 DEF Ordered, AnsweredStay, Arriving
  <2> QED
    BY <1>3, <1>4, <2>1, <2>2 DEF Ordered, Ascending
<1>17. OrderedStreams'
  <2> SUFFICES ASSUME NEW z \in Streams
               PROVE  OrderedStream(generators[z])'
    BY DEF OrderedStreams
  <2>1. PICK g, h : g = generators[z] /\ h = generators'[z]
    OBVIOUS
  <2>2. g \in Generators(Replies, Nat) /\ h \in Generators(Replies, Nat)
    BY <1>4, <1>5, <1>7, <2>1, Sequences
  <2>3. Moved(g, h)
    BY <1>5, <1>7, <2>1 DEF Moved
  <2>4. OrderedStream(h)
    BY <1>4, <2>1, <2>2, <2>3, OrderMoved DEF OrderedStreams
  <2>5. /\ \A i \in DOMAIN h.events : h.events[i].to \in DOMAIN calls
        /\ \A i \in DOMAIN h.given : h.given[i].to \in DOMAIN calls
    <3>1. \A m \in Range(h.events) \cup Range(h.given) : m.to \in DOMAIN calls
      BY <1>14, <2>1 DEF ReplyFits, Asking
    <3> QED
      BY <3>1 DEF Range
  <2>6. OrderedStream(h)'
    BY <1>10, <1>13, <2>4, <2>5, OrderCarried
  <2> QED
    BY <2>1, <2>6, StreamIs
<1>18. Waiting'
  <2> SUFFICES ASSUME NEW z \in Streams
               PROVE  /\ OneServed(generators[z])'
                      /\ \A i \in DOMAIN generators[z]'.callers :
                           LET d == generators[z]'.callers[i]
                           IN  d \in DOMAIN calls' /\ calls'[d].op.stream = z
                      /\ \A i, j \in DOMAIN generators[z]'.callers :
                           i < j => generators[z]'.callers[i] < generators[z]'.callers[j]
                      /\ readyState' = "OPEN" => \A d \in DOMAIN calls' :
                           calls'[d].op.stream = z => (Pending(d)' <=> Waits(z, d)')
    BY DEF Waiting
  <2>1. /\ OneServed(generators[z])
        /\ \A i \in DOMAIN generators[z].callers :
             LET d == generators[z].callers[i]
             IN  d \in DOMAIN calls /\ calls[d].op.stream = z
        /\ \A i, j \in DOMAIN generators[z].callers :
             i < j => generators[z].callers[i] < generators[z].callers[j]
        /\ readyState = "OPEN" => \A d \in DOMAIN calls :
             calls[d].op.stream = z => (Pending(d) <=> Waits(z, d))
    BY <1>4 DEF Waiting
  <2>2. CASE z # s
    <3>1. generators'[z] = generators[z]
      BY <1>5, <2>2
    <3>2. OneServed(generators[z])'
      BY <2>1, <3>1 DEF OneServed
    <3>3. \A i \in DOMAIN generators[z]'.callers :
            LET d == generators[z]'.callers[i]
            IN  d \in DOMAIN calls' /\ calls'[d].op.stream = z
      BY <1>10, <2>1, <3>1 DEF CallsStay
    <3>4. ASSUME readyState' = "OPEN", NEW d \in DOMAIN calls', calls'[d].op.stream = z
          PROVE  Pending(d)' <=> Waits(z, d)'
      <4>1. d \in DOMAIN calls /\ calls[d].op.stream = z
        BY <1>10, <3>4 DEF CallsStay
      <4>2. d # c
        BY <1>7, <2>2, <4>1
      <4> QED
        BY <1>3, <1>10, <2>1, <3>1, <3>4, <4>1, <4>2 DEF Pending, Waits
    <3> QED
      BY <2>1, <3>1, <3>2, <3>3, <3>4
  <2>3. CASE z = s
    <3>1. \A i \in DOMAIN generators[z]'.callers :
            LET d == generators[z]'.callers[i]
            IN  d \in DOMAIN calls' /\ calls'[d].op.stream = z
      <4>1. \A i \in DOMAIN generators'[s].callers :
              \E j \in DOMAIN generators[s].callers :
                generators'[s].callers[i] = generators[s].callers[j]
        BY <1>7
      <4> QED
        BY <1>10, <2>1, <2>3, <4>1 DEF CallsStay
    <3>2. \A i, j \in DOMAIN generators[z]'.callers :
            i < j => generators[z]'.callers[i] < generators[z]'.callers[j]
      <4>1. \A i, j \in DOMAIN generators'[s].callers : i < j => i + 1 < j + 1
        BY <1>7
      <4> QED
        BY <1>7, <2>1, <2>3, <4>1
    <3>3. ASSUME readyState' = "OPEN", NEW d \in DOMAIN calls', calls'[d].op.stream = z
          PROVE  Pending(d)' <=> Waits(z, d)'
      <4>1. d \in DOMAIN calls /\ calls[d].op.stream = z
        BY <1>10, <3>3 DEF CallsStay
      <4>2. Pending(d) <=> Waits(z, d)
        BY <1>3, <2>1, <3>3, <4>1
      <4>3. CASE d = c
        BY <1>7, <1>10, <2>3, <4>3
      <4>4. CASE d # c
        <5>1. Pending(d)' <=> Pending(d)
          BY <1>10, <4>1, <4>4 DEF Pending
        <5> QED
          BY <1>7, <2>3, <4>2, <4>4, <5>1
      <4> QED
        BY <4>3, <4>4
    <3> QED
      BY <1>7, <2>3, <3>1, <3>2, <3>3
  <2> QED
    BY <2>2, <2>3
<1>19. \A d \in DOMAIN calls : OnItsWay(d)' <=> OnItsWay(d)
  BY <1>3, <1>10 DEF OnItsWay, Sending, Queued, Arriving, CallsStay
<1>20. Accounted'
  <2>1. ASSUME NEW z \in Streams, Peaceful(z)'
        PROVE  OwnStream(z)'
    <3>1. Peaceful(z) /\ OwnStream(z)
      BY <1>4, <1>10, <2>1, PeaceStays DEF Accounted
    <3>2. \A m \in Range(generators'[z].events) \cup Range(generators'[z].given) :
            calls'[m.to].op.stream = z
      <4> SUFFICES ASSUME NEW m \in Range(generators'[z].events) \cup Range(generators'[z].given)
                   PROVE  calls'[m.to].op.stream = z
        OBVIOUS
      <4>1. m \in Range(generators[z].events) \cup Range(generators[z].given)
        BY <1>14
      <4>2. calls[m.to].op.stream = z /\ m.to \in DOMAIN calls
        BY <1>14, <3>1, <4>1 DEF OwnStream, Range, ReplyFits, Asking
      <4> QED
        BY <1>10, <4>2 DEF CallsStay
    <3>3. ASSUME NEW d \in DOMAIN calls', calls'[d].op.stream = z, calls'[d].sent
          PROVE  Waits(z, d)' <=>
                   OnItsWay(d)' \/ Kept(generators[z], d)' \/ Given(generators[z], d)'
      <4>1. d \in DOMAIN calls /\ calls[d].op.stream = z /\ calls[d].sent
        BY <1>10, <3>3 DEF CallsStay
      <4>2. Waits(z, d) <=>
              OnItsWay(d) \/ Kept(generators[z], d) \/ Given(generators[z], d)
        BY <3>1, <4>1 DEF OwnStream
      <4>3. OnItsWay(d)' <=> OnItsWay(d)
        BY <1>19, <4>1
      <4>4. CASE z # s
        <5>1. generators'[z] = generators[z]
          BY <1>5, <4>4
        <5>2. /\ Waits(z, d)' <=> Waits(z, d)
              /\ Kept(generators[z], d)' <=> Kept(generators[z], d)
              /\ Given(generators[z], d)' <=> Given(generators[z], d)
          BY <5>1 DEF Waits, Kept, Given
        <5> QED
          BY <4>2, <4>3, <5>2
      <4>5. CASE z = s
        <5>1. x.to = c /\ ~OnItsWay(c) /\ ~Kept(generators[s], c)
          BY <1>6, <3>1, <4>5, FirstGiven
        <5>2. CASE d = c
          BY <1>7, <4>3, <4>5, <5>1, <5>2
        <5>3. CASE d # c
          BY <1>7, <4>2, <4>3, <4>5, <5>1, <5>3
        <5> QED
          BY <5>2, <5>3
      <4> QED
        BY <4>4, <4>5
    <3> QED
      BY <3>2, <3>3 DEF OwnStream, Range
  <2>2. ASSUME readyState' = "OPEN", NEW d \in DOMAIN calls',
               calls'[d].op.stream = "none", calls'[d].op # Shutdown
        PROVE  Pending(d)' <=> OnItsWay(d)'
    <3>1. d \in DOMAIN calls /\ calls[d].op = calls'[d].op /\ readyState = "OPEN"
      BY <1>3, <1>10, <2>2 DEF CallsStay
    <3>2. d # c
      BY <1>7, <2>2, <3>1 DEF Streams
    <3>3. Pending(d) <=> OnItsWay(d)
      BY <1>4, <2>2, <3>1 DEF Accounted
    <3> QED
      BY <1>10, <1>19, <3>1, <3>2, <3>3 DEF Pending
  <2> QED
    BY <2>1, <2>2 DEF Accounted
<1>21. OwnResponse'
  <2> SUFFICES ASSUME NEW d \in DOMAIN calls', calls'[d].by # None,
                      Streamed(d)' => Undisturbed(d)'
               PROVE  calls'[d].by = d
    BY DEF OwnResponse
  <2>1. d \in DOMAIN calls /\ (Streamed(d) => Undisturbed(d))
    BY <1>10, PeaceStays
  <2>2. CASE d # c \/ ~Pending(c)
    <3>1. calls'[d].by = calls[d].by
      BY <1>10, <2>1, <2>2
    <3> QED
      BY <1>4, <2>1, <3>1 DEF OwnResponse
  <2>3. CASE d = c /\ Pending(c)
    <3>1. Undisturbed(c)
      BY <1>7, <2>1, <2>3 DEF Streamed
    <3>2. Peaceful(s)
      BY <1>7, <3>1, UndisturbedPeaceful
    <3>3. x.to = c
      BY <1>6, <3>2, FirstGiven
    <3> QED
      BY <1>10, <2>3, <3>3
  <2> QED
    BY <2>2, <2>3
<1> QED
  BY <1>11, <1>12, <1>15, <1>16, <1>17, <1>18, <1>20, <1>21 DEF Inv

-----------------------------------------------------------------------------
LEMMA InitInv ==
  ASSUME Init
  PROVE  Inv
<1>1. /\ platform \in {"node", "browser"} /\ context = "fetching" /\ readyState = "NONE"
      /\ listeners = <<>> /\ calls = <<>> /\ reported = <<>>
      /\ workload \in Workloads /\ clients = {}
      /\ generators = [s \in Streams |-> NewGenerator]
      /\ toServer = <<>> /\ queues = [p \in Protocols |-> <<>>] /\ toClient = <<>>
  BY DEF Init, ConnectionInit
<1>2. /\ DOMAIN calls = {} /\ Len(calls) = 0
      /\ DOMAIN listeners = {} /\ DOMAIN reported = {}
      /\ DOMAIN toServer = {} /\ DOMAIN toClient = {}
      /\ \A p \in Protocols : queues[p] = <<>> /\ DOMAIN queues[p] = {}
  BY <1>1
<1>3. \A s \in Streams :
        /\ generators[s] = NewGenerator
        /\ DOMAIN generators[s].events = {} /\ DOMAIN generators[s].given = {}
        /\ DOMAIN generators[s].callers = {}
  BY <1>1 DEF NewGenerator
<1>4. Typed
  <2>1. workload \in Seq(Operations \cup {Shutdown})
    BY <1>1, ClientsAssumption
  <2>2. \A S : <<>> \in Seq(S)
    BY EmptySeq
  <2>3. NewGenerator \in Generators(Replies, Nat)
    BY <2>2 DEF NewGenerator, Generators
  <2>4. generators \in [Streams -> Generators(Replies, Nat)]
    BY <1>1, <2>3
  <2>5. queues \in [Protocols -> Seq(Requests)]
    BY <1>1, <2>2
  <2> QED
    BY <1>1, <2>1, <2>2, <2>4, <2>5 DEF Typed, Contexts, ReadyStates
<1>5. Programmed
  <2>1. Len(workload) \in Nat
    BY <1>4, LenProperties DEF Typed
  <2> QED
    BY <1>2, <2>1 DEF Programmed
<1>6. Staged
  BY <1>1 DEF Staged
<1>7. Registered
  BY <1>1, <1>2 DEF Registered, Range, Connected
<1>8. Told
  BY <1>1, <1>2 DEF Told, CloseReported
<1>9. Fitting
  BY <1>2, <1>3 DEF Fitting, Range
<1>10. Ordered
  BY <1>2 DEF Ordered, Ascending, LaneAscending
<1>11. OrderedStreams
  BY <1>3 DEF OrderedStreams, OrderedStream, LaneAscending
<1>12. Waiting
  <2>1. OneServed(NewGenerator)
    BY DEF OneServed, NewGenerator
  <2> QED
    BY <1>1, <1>3, <2>1 DEF Waiting
<1>13. Accounted
  BY <1>1, <1>2, <1>3 DEF Accounted, OwnStream
<1>14. OwnResponse
  BY <1>2 DEF OwnResponse
<1> QED
  BY <1>4, <1>5, <1>6, <1>7, <1>8, <1>9, <1>10, <1>11, <1>12, <1>13, <1>14 DEF Inv

LEMMA StutterStep ==
  ASSUME Inv, UNCHANGED vars
  PROVE  Inv'
<1>1. UNCHANGED <<platform, context, readyState, listeners, calls, reported, workload,
                  clients, generators, toServer, queues, toClient, unnamed>>
  BY DEF vars, connection, server
<1>2. Quiet
  BY <1>1 DEF Quiet, CallsStay
<1>3. Typed'
  BY <1>1 DEF Inv, Typed
<1>4. Programmed'
  BY <1>1 DEF Inv, Programmed, Streamed
<1>5. Staged'
  BY <1>1 DEF Inv, Staged
<1>6. Registered'
  BY <1>1 DEF Inv, Registered, Connected, Has, Pending, Streamed
<1>7. Told'
  BY <1>1 DEF Inv, Told, CloseReported, Connected, Has, Pending
<1> QED
  BY <1>2, <1>3, <1>4, <1>5, <1>6, <1>7, QuietStep DEF Inv

LEMMA EventStep ==
  ASSUME Inv, Event
  PROVE  Inv'
BY NotReadyStep, ConnectStep, ConnectWithoutOptionsStep, OnOpenStep, OnErrorStep, OnCloseStep
   DEF Event

LEMMA NextStep ==
  ASSUME Inv, [Next]_vars
  PROVE  Inv'
<1>1. CASE Event
  BY <1>1, EventStep
<1>2. CASE CreateMempoolMonitoringClient
  BY <1>2, CreateStep DEF CreateMempoolMonitoringClient
<1>3. CASE CreateTransactionSubmissionClient
  BY <1>3, CreateStep DEF CreateTransactionSubmissionClient
<1>4. CASE MakeCall
  BY <1>4, MakeCallStep
<1>5. CASE Route
  BY <1>5, RouteStep
<1>6. ASSUME NEW p \in Protocols, Answer(p)
      PROVE  Inv'
  BY <1>6, AnswerStep
<1>7. CASE OnMessage
  BY <1>7, OnMessageStep
<1>8. ASSUME NEW s \in Streams, Resume(s)
      PROVE  Inv'
  BY <1>8, ResumeStep
<1>9. CASE UNCHANGED vars
  BY <1>9, StutterStep
<1> QED
  BY <1>1, <1>2, <1>3, <1>4, <1>5, <1>6, <1>7, <1>8, <1>9 DEF Next

(* The inductive invariant: how callbacks, calls, generators and messages   *)
(* on their way relate (Connection.ts, util.ts and the clients).            *)
THEOREM ClientsInvariant == Spec => []Inv
<1>1. Init => Inv
  BY InitInv
<1>2. Inv /\ [Next]_vars => Inv'
  BY NextStep
<1> QED
  BY <1>1, <1>2, PTL DEF Spec

(* A call over Method is only ever settled by the response to its own       *)
(* request, whatever the other calls, the clients and the server do, and a  *)
(* call on a client too while nobody disturbs its stream: the calls of next *)
(* and the responses of its mini-protocol are in the same order             *)
(* (Connection.ts, Method; util.ts, eventEmitterToGenerator).               *)
THEOREM ResponsesAreOwn == Spec => []OwnResponse
<1>1. Inv => OwnResponse
  BY DEF Inv
<1> QED
  BY <1>1, ClientsInvariant, PTL

(* On Node.js, once the WebSocket of a context is closed, closeHandler ran  *)
(* once and every call whose request was sent is settled, though the        *)
(* callbacks remove each other while the close is emitted (Connection.ts,   *)
(* createInteractionContext and send).                                      *)
THEOREM CloseIsReported == Spec => []CloseReported
<1>1. Inv => CloseReported
  BY DEF Inv, Told
<1> QED
  BY <1>1, ClientsInvariant, PTL

-----------------------------------------------------------------------------
(* Counting what is there once.                                             *)
LEMMA CountedOnce ==
  ASSUME NEW I, \A i, j \in I : i = j
  PROVE  Cardinality(I) = IF I = {} THEN 0 ELSE 1
<1>1. CASE I = {}
  BY <1>1, FS_EmptySet
<1>2. CASE I # {}
  <2>1. PICK i : I = {i}
    BY <1>2
  <2> QED
    BY <1>2, <2>1, FS_Singleton
<1> QED
  BY <1>1, <1>2

(* While the WebSocket is open, the callbacks of calls are those of the     *)
(* pending ones, each there once; and a generator serves one call at a time *)
(* (Connection.ts, send and Method; util.ts, eventEmitterToGenerator).      *)
THEOREM BookkeepingInStep == Spec => []InStep
<1>1. ASSUME Inv
      PROVE  TypeOK
  <2>1. \A s \in Streams :
          /\ Len(generators[s].given) <= 1
          /\ generators[s].listens =>
               generators[s].given = <<>> /\ generators[s].events = <<>>
          /\ generators[s].callers # <<>> <=> generators[s].listens \/ Resumable(generators[s])
    BY <1>1 DEF Inv, Waiting, OneServed, Resumable
  <2> QED
    BY <1>1, <2>1 DEF Inv, Typed, Programmed, TypeOK
<1>2. ASSUME Inv, readyState = "OPEN", NEW c \in DOMAIN calls
      PROVE  /\ Cardinality({i \in DOMAIN listeners : listeners[i] = CloseOf(c)})
                  = IF Pending(c) THEN 1 ELSE 0
             /\ Cardinality({i \in DOMAIN listeners : listeners[i] = MessageOf(c)})
                  = IF Pending(c) /\ ~Streamed(c) THEN 1 ELSE 0
  <2>0. listeners \in Seq(Callbacks) /\ Registered /\ Programmed
    BY <1>2 DEF Inv, Typed
  <2>1. ASSUME NEW l \in {CloseOf(c), MessageOf(c)}
        PROVE  Cardinality({i \in DOMAIN listeners : listeners[i] = l})
                 = IF Contains(listeners, l) THEN 1 ELSE 0
    <3> DEFINE I == {i \in DOMAIN listeners : listeners[i] = l}
    <3>1. \A i, j \in I : i = j
      BY <1>2, OwnCallbacks DEF Once
    <3>2. I = {} <=> ~Contains(listeners, l)
      BY <2>0, ContainsDomain
    <3> HIDE DEF I
    <3>3. Cardinality(I) = IF Contains(listeners, l) THEN 1 ELSE 0
      BY <3>1, <3>2, CountedOnce
    <3> QED
      BY <3>3 DEF I
  <2>2. Contains(listeners, CloseOf(c)) <=> Pending(c)
    <3>1. calls[c].sent /\ calls[c].op # Shutdown
      BY <1>2, <2>0 DEF Programmed
    <3> QED
      BY <1>2, <2>0, <3>1 DEF Registered, Connected, Has, CloseOf
  <2>3. Contains(listeners, MessageOf(c)) <=> Pending(c) /\ ~Streamed(c)
    BY <1>2, <2>0 DEF Registered, Has, MessageOf
  <2> QED
    BY <2>1, <2>2, <2>3
<1>3. ASSUME Inv
      PROVE  ListenersAccounted
  BY <1>2, <1>3 DEF ListenersAccounted, CloseOf, MessageOf
<1>4. Inv => InStep
  BY <1>1, <1>3 DEF InStep
<1> QED
  BY <1>4, ClientsInvariant, PTL

(* What is on its way of a call is in one place.                            *)
LEMMA InOnePlace ==
  ASSUME Inv, NEW c \in DOMAIN calls, calls[c].op.protocol \in Protocols
  PROVE  /\ ~(Sending(c) /\ Queued(c))
         /\ ~(Sending(c) /\ Arriving(c))
         /\ ~(Queued(c) /\ Arriving(c))
         /\ \A s \in Streams :
              /\ ~(Kept(generators[s], c) /\ OnItsWay(c))
              /\ ~(Given(generators[s], c) /\ OnItsWay(c))
              /\ ~(Given(generators[s], c) /\ Kept(generators[s], c))
<1>0. Typed /\ Ordered /\ OrderedStreams /\ Fitting
  BY DEF Inv
<1>1. ~(c < c) /\ SameLane(c, c)
  BY <1>0, Sequences DEF SameLane
<1>2. Queued(c) => Lane(c) = calls[c].op.protocol
  <2> SUFFICES ASSUME NEW i \in DOMAIN queues[calls[c].op.protocol],
                      queues[calls[c].op.protocol][i].call = c
               PROVE  Lane(c) = calls[c].op.protocol
    BY DEF Queued
  <2>1. PICK r : r = queues[calls[c].op.protocol][i]
    OBVIOUS
  <2>2. RequestFits(r) /\ r.wellFormed /\ r.call = c
    BY <1>0, <2>1, FitsKnown
  <2>3. r = Request(c, calls[c].op, calls[c].wellFormed)
    BY <2>2 DEF RequestFits
  <2>4. \A op, w : Request(c, op, w).wellFormed = w
    BY DEF Request
  <2>5. r.wellFormed = calls[c].wellFormed
    BY <2>3, <2>4
  <2> QED
    BY <2>2, <2>5 DEF Lane
<1>3. Answered(c) => ~Sending(c) /\ ~Queued(c)
  BY <1>1, <1>2 DEF Answered, Sending, Queued
<1>4. ~(Sending(c) /\ Queued(c))
  BY <1>0, <1>1 DEF Ordered, Sending, Queued
<1>5. Arriving(c) => Answered(c)
  BY <1>0 DEF Ordered
<1>6. ASSUME NEW s \in Streams
      PROVE  /\ Kept(generators[s], c) => Answered(c) /\ BeforeAll(c, toClient)
             /\ Given(generators[s], c) => /\ Answered(c) /\ BeforeAll(c, toClient)
                                           /\ BeforeAll(c, generators[s].events)
  BY <1>0 DEF OrderedStreams, OrderedStream, Kept, Given
<1>7. BeforeAll(c, toClient) => ~Arriving(c)
  BY <1>1 DEF BeforeAll, Arriving
<1>8. \A s \in Streams : BeforeAll(c, generators[s].events) => ~Kept(generators[s], c)
  BY <1>1 DEF BeforeAll, Kept
<1> QED
  BY <1>3, <1>4, <1>5, <1>6, <1>7, <1>8 DEF OnItsWay

(* And there once.                                                          *)
LEMMA RequestCounted ==
  ASSUME NEW c \in Nat, NEW q \in Seq(Requests), Ascending(q)
  PROVE  Cardinality({i \in DOMAIN q : q[i].call = c})
           = IF \E i \in DOMAIN q : q[i].call = c THEN 1 ELSE 0
<1> DEFINE I == {i \in DOMAIN q : q[i].call = c}
<1>1. \A i \in DOMAIN q : i \in Nat
  BY LenProperties
<1>2. \A i, j \in I : i = j
  <2>1. \A i, j \in I : ~(i < j)
    BY DEF Ascending
  <2> QED
    BY <1>1, <2>1
<1> HIDE DEF I
<1>3. Cardinality(I) = IF I = {} THEN 0 ELSE 1
  BY <1>2, CountedOnce
<1> QED
  BY <1>3 DEF I

LEMMA ReplyCounted ==
  ASSUME NEW c \in Nat, NEW q \in Seq(Replies), LaneAscending(q)
  PROVE  Cardinality({i \in DOMAIN q : q[i].to = c})
           = IF \E i \in DOMAIN q : q[i].to = c THEN 1 ELSE 0
<1> DEFINE I == {i \in DOMAIN q : q[i].to = c}
<1>1. \A i \in DOMAIN q : i \in Nat
  BY LenProperties
<1>2. \A i, j \in I : i = j
  <2>1. \A i, j \in I : ~(i < j)
    BY DEF LaneAscending, SameLane
  <2> QED
    BY <1>1, <2>1
<1> HIDE DEF I
<1>3. Cardinality(I) = IF I = {} THEN 0 ELSE 1
  BY <1>2, CountedOnce
<1> QED
  BY <1>3 DEF I

LEMMA GivenCounted ==
  ASSUME NEW c \in Nat, NEW q \in Seq(Replies), Len(q) <= 1
  PROVE  Cardinality({i \in DOMAIN q : q[i].to = c})
           = IF \E i \in DOMAIN q : q[i].to = c THEN 1 ELSE 0
<1>1. \A i, j \in DOMAIN q : ~(i < j)
  BY LenProperties
<1>2. LaneAscending(q)
  BY <1>1 DEF LaneAscending
<1> QED
  BY <1>2, ReplyCounted

(* As long as nobody disturbs its stream, what a pending call waits for is  *)
(* in one place: a request that is sent or queued, a response on its way,   *)
(* or an event of the generator.  Nothing is lost, or answered twice        *)
(* (Connection.ts, util.ts and the server's mini-protocols).                *)
THEOREM InFlightIsAccounted == Spec => []InFlightAccounted
<1>1. ASSUME Inv, readyState = "OPEN", NEW c \in DOMAIN calls,
             calls[c].sent, Requested(c), Streamed(c) => Undisturbed(c)
      PROVE  Cardinality({i \in DOMAIN toServer : toServer[i].call = c})
               + Cardinality({i \in DOMAIN toClient : toClient[i].to = c})
               + Cardinality({i \in DOMAIN queues[calls[c].op.protocol] :
                                queues[calls[c].op.protocol][i].call = c})
               + (IF Streamed(c)
                    THEN Cardinality({i \in DOMAIN generators[calls[c].op.stream].events :
                                        generators[calls[c].op.stream].events[i].to = c})
                           + Cardinality({i \in DOMAIN generators[calls[c].op.stream].given :
                                            generators[calls[c].op.stream].given[i].to = c})
                    ELSE 0)
             = IF Pending(c) THEN 1 ELSE 0
  <2>0. Typed /\ Ordered /\ OrderedStreams /\ Waiting /\ Accounted
    BY <1>1 DEF Inv
  <2>1. c \in Nat /\ calls[c].op # Shutdown /\ IsOperation(calls[c].op)
    <3>1. c \in Nat /\ calls[c] \in Calls /\ calls[c].op # Shutdown
      BY <1>1, <2>0, Sequences DEF Requested
    <3>2. calls[c].op \in Operations
      BY <3>1 DEF Calls
    <3> QED
      BY <3>1, <3>2, OperationFacts
  <2>2. PICK sending : sending = Cardinality({i \in DOMAIN toServer : toServer[i].call = c})
    OBVIOUS
  <2>3. PICK arriving : arriving = Cardinality({i \in DOMAIN toClient : toClient[i].to = c})
    OBVIOUS
  <2>4. PICK queued :
          queued = Cardinality({i \in DOMAIN queues[calls[c].op.protocol] :
                                  queues[calls[c].op.protocol][i].call = c})
    OBVIOUS
  <2>5. calls[c].op.protocol \in Protocols /\ (~Streamed(c) => calls[c].op.stream = "none")
    BY <2>1 DEF IsOperation, Streamed
  <2>6. sending = IF Sending(c) THEN 1 ELSE 0
    BY <2>2, <2>0, <2>1, RequestCounted DEF Typed, Ordered, Sending
  <2>7. arriving = IF Arriving(c) THEN 1 ELSE 0
    BY <2>3, <2>0, <2>1, ReplyCounted DEF Typed, Ordered, Arriving
  <2>8. queued = IF Queued(c) THEN 1 ELSE 0
    <3>1. PICK q : q = queues[calls[c].op.protocol]
      OBVIOUS
    <3>2. q \in Seq(Requests) /\ Ascending(q)
      BY <2>0, <2>5, <3>1, Sequences DEF Ordered
    <3> QED
      BY <2>4, <2>1, <3>1, <3>2, RequestCounted DEF Queued
  <2>9. /\ ~(Sending(c) /\ Queued(c)) /\ ~(Sending(c) /\ Arriving(c))
        /\ ~(Queued(c) /\ Arriving(c))
    BY <1>1, <2>5, InOnePlace
  <2>10. sending + arriving + queued = IF OnItsWay(c) THEN 1 ELSE 0
    BY <2>6, <2>7, <2>8, <2>9 DEF OnItsWay
  <2>11. CASE ~Streamed(c)
    <3>1. Pending(c) <=> OnItsWay(c)
      BY <1>1, <2>0, <2>1, <2>5, <2>11 DEF Accounted
    <3> QED
      <4>1. sending + arriving + queued + 0 = IF Pending(c) THEN 1 ELSE 0
        BY <2>6, <2>7, <2>8, <2>10, <3>1
      <4> QED
        BY <2>2, <2>3, <2>4, <2>11, <4>1, SMTT(60)
  <2>12. CASE Streamed(c)
    <3>1. PICK s \in Streams : s = calls[c].op.stream
      BY <2>12 DEF Streamed
    <3>2. PICK g : g = generators[s]
      OBVIOUS
    <3>3. PICK kept :
            kept = Cardinality({i \in DOMAIN g.events : g.events[i].to = c})
      OBVIOUS
    <3>4. PICK given :
            given = Cardinality({i \in DOMAIN g.given : g.given[i].to = c})
      OBVIOUS
    <3>5. g \in Generators(Replies, Nat) /\ OrderedStream(g) /\ OneServed(g)
      BY <2>0, <3>2, Sequences DEF OrderedStreams, Waiting
    <3>6. g.events \in Seq(Replies) /\ LaneAscending(g.events)
          /\ g.given \in Seq(Replies) /\ Len(g.given) <= 1
      BY <3>5, GeneratorSequences DEF OrderedStream, OneServed
    <3>7. kept = IF Kept(g, c) THEN 1 ELSE 0
      BY <2>1, <3>3, <3>6, ReplyCounted DEF Kept
    <3>8. given = IF Given(g, c) THEN 1 ELSE 0
      BY <2>1, <3>4, <3>6, GivenCounted DEF Given
    <3>9. /\ ~(Kept(g, c) /\ OnItsWay(c)) /\ ~(Given(g, c) /\ OnItsWay(c))
          /\ ~(Given(g, c) /\ Kept(g, c))
      BY <1>1, <2>5, <3>2, InOnePlace
    <3>10. Pending(c) <=> OnItsWay(c) \/ Kept(g, c) \/ Given(g, c)
      <4>1. Peaceful(s)
        BY <1>1, <2>12, <3>1, UndisturbedPeaceful
      <4>2. Waits(s, c) <=> OnItsWay(c) \/ Kept(g, c) \/ Given(g, c)
        BY <1>1, <2>0, <3>1, <3>2, <4>1 DEF Accounted, OwnStream
      <4>3. Pending(c) <=> Waits(s, c)
        BY <1>1, <2>0, <3>1 DEF Waiting
      <4> QED
        BY <4>2, <4>3
    <3>11. sending + arriving + queued + (kept + given) = IF Pending(c) THEN 1 ELSE 0
      BY <2>10, <3>7, <3>8, <3>9, <3>10
    <3> QED
      BY <2>2, <2>3, <2>4, <2>12, <3>1, <3>2, <3>3, <3>4, <3>11
  <2> QED
    BY <2>11, <2>12
<1>2. Inv => InFlightAccounted
  BY <1>1 DEF InFlightAccounted
<1> QED
  BY <1>2, ClientsInvariant, PTL

-----------------------------------------------------------------------------
(* eventEmitterToGenerator with its history.                                *)
(* The sequences of the state.                                              *)
LEMMA Shapes ==
  ASSUME HistoryTyped
  PROVE  /\ generator.events \in Seq(Events)
         /\ generator.given \in Seq(Events)
         /\ generator.callers \in Seq(Callers)
         /\ matched \in Seq(Events) /\ yielded \in Seq(Events)
         /\ asked \in Seq(Callers) /\ callers \in Seq(Callers)
         /\ generator.given \o generator.events \in Seq(Events)
<1>1. generator.events \in Seq(Events) /\ generator.given \in Seq(Events)
  BY DEF HistoryTyped, Generators
<1> QED
  BY <1>1, ConcatProperties DEF HistoryTyped, Generators

LEMMA MatchStep ==
  ASSUME HistoryInv, NEW event \in Events, Match(event)
  PROVE  HistoryInv'
<1> DEFINE Y == yielded
           G == generator.given
           E == generator.events
<1>0. HistoryTyped /\ OneServed(generator) /\ CallersInOrder /\ EventsInOrder
  BY DEF HistoryInv
<1>1. /\ generator' \in Generators(Events, Callers)
      /\ OneServed(generator')
      /\ generator'.callers = generator.callers
      /\ generator.listens =>
           generator'.given = <<event>> /\ generator'.events = E
      /\ ~generator.listens =>
           generator'.given = G /\ generator'.events = Append(E, event)
  <2>1. PICK g, h : g = generator /\ h = generator'
    OBVIOUS
  <2>2. g \in Generators(Events, Callers) /\ OneServed(g) /\ h = Matched(g, event)
    BY <1>0, <2>1 DEF Match, HistoryTyped
  <2>3. /\ h \in Generators(Events, Callers) /\ OneServed(h) /\ h.callers = g.callers
        /\ g.listens => h.given = <<event>> /\ h.events = g.events
        /\ ~g.listens => h.given = g.given /\ h.events = Append(g.events, event)
    BY <2>2, MatchedServes
  <2> QED
    BY <2>1, <2>3
<1>2. matched' = Append(matched, event) /\ UNCHANGED <<asked, callers, yielded>>
  BY DEF Match
<1>3. HistoryTyped'
  BY <1>0, <1>1, <1>2, AppendProperties DEF HistoryTyped
<1>4. CallersInOrder'
  BY <1>0, <1>1, <1>2 DEF CallersInOrder
<1>5. /\ Y \in Seq(Events) /\ G \in Seq(Events) /\ E \in Seq(Events)
      /\ G \o E \in Seq(Events) /\ <<event>> \in Seq(Events)
      /\ matched \in Seq(Events) /\ matched = Y \o (G \o E)
  BY <1>0, Shapes DEF EventsInOrder
<1>6. matched' = (Y \o (G \o E)) \o <<event>>
  BY <1>2, <1>5, AppendIsConcat, Zenon
<1>7. matched' = Y \o (generator'.given \o generator'.events)
  <2>1. CASE generator.listens
    <3>1. G = <<>> /\ E = <<>>
      BY <1>0, <2>1 DEF OneServed
    <3>2. generator'.given = <<event>> /\ generator'.events = <<>>
      BY <1>1, <2>1, <3>1
    <3> HIDE DEF Y, G, E
    <3>3. Y \o (G \o E) = Y
      BY <1>5, <3>1, ConcatEmptySeq
    <3>4. <<event>> \o <<>> = <<event>>
      BY <1>5, ConcatEmptySeq, Zenon
    <3> QED
      BY <1>6, <3>2, <3>3, <3>4, Zenon
  <2>2. CASE ~generator.listens
    <3>1. generator'.given = G /\ generator'.events = Append(E, event)
      BY <1>1, <2>2
    <3> HIDE DEF Y, G, E
    <3>2. Append(E, event) = E \o <<event>>
      BY <1>5, AppendIsConcat, Zenon
    <3>3. (Y \o (G \o E)) \o <<event>> = Y \o ((G \o E) \o <<event>>)
      <4>1. Y \in Seq(Events) /\ <<event>> \in Seq(Events) /\ G \o E \in Seq(Events)
        BY <1>5, Zenon
      <4> DEFINE k == G \o E
      <4>2. k \in Seq(Events)
        BY <4>1, Zenon
      <4> HIDE DEF k
      <4>3. (Y \o k) \o <<event>> = Y \o (k \o <<event>>)
        BY <4>1, <4>2, ConcatAssociative, SMTT(30)
      <4> QED
        BY <4>3, Zenon DEF k
    <3>4. (G \o E) \o <<event>> = G \o (E \o <<event>>)
      BY <1>5, ConcatAssociative, SMTT(30)
    <3> QED
      BY <1>6, <3>1, <3>2, <3>3, <3>4, Zenon
  <2> QED
    BY <2>1, <2>2
<1>8. EventsInOrder'
  BY <1>2, <1>7 DEF EventsInOrder
<1> QED
  BY <1>0, <1>1, <1>2, <1>3, <1>4, <1>8 DEF HistoryInv

LEMMA AskStep ==
  ASSUME HistoryInv, NEW caller \in Callers, Ask(caller)
  PROVE  HistoryInv'
<1> DEFINE G == generator.given
           E == generator.events
           W == generator.callers
<1>0. HistoryTyped /\ OneServed(generator) /\ CallersInOrder /\ EventsInOrder
  BY DEF HistoryInv
<1>1. /\ generator' \in Generators(Events, Callers)
      /\ OneServed(generator')
      /\ generator'.callers = Append(W, caller)
      /\ \/ generator'.given = G /\ generator'.events = E
         \/ /\ G = <<>> /\ E # <<>>
            /\ generator'.given = <<Head(E)>> /\ generator'.events = Tail(E)
  BY <1>0, AskedServes DEF Ask, HistoryTyped
<1>2. asked' = Append(asked, caller) /\ UNCHANGED <<matched, callers, yielded>>
  BY DEF Ask
<1>3. HistoryTyped'
  BY <1>0, <1>1, <1>2, AppendProperties DEF HistoryTyped
<1>4. /\ E \in Seq(Events) /\ W \in Seq(Callers) /\ asked \in Seq(Callers)
      /\ callers \in Seq(Callers) /\ <<caller>> \in Seq(Callers)
      /\ asked = callers \o W
  BY <1>0, Shapes DEF CallersInOrder
<1>5. asked' = callers \o Append(W, caller)
  <2> HIDE DEF W
  <2>1. asked' = (callers \o W) \o <<caller>>
    BY <1>2, <1>4, AppendIsConcat, Zenon
  <2>2. (callers \o W) \o <<caller>> = callers \o (W \o <<caller>>)
    BY <1>4, ConcatAssociative, SMTT(30)
  <2>3. W \o <<caller>> = Append(W, caller)
    BY <1>4, AppendIsConcat, Zenon
  <2> QED
    BY <2>1, <2>2, <2>3, Zenon
<1>6. CallersInOrder'
  BY <1>1, <1>2, <1>5 DEF CallersInOrder
<1>7. generator'.given \o generator'.events = G \o E
  <2>1. CASE G = <<>> /\ E # <<>>
             /\ generator'.given = <<Head(E)>> /\ generator'.events = Tail(E)
    <3> HIDE DEF G, E
    <3>1. <<Head(E)>> \o Tail(E) = E
      BY <1>4, <2>1, HeadAndTail, Zenon
    <3>2. <<>> \o E = E
      BY <1>4, ConcatEmptySeq, Zenon
    <3> QED
      BY <2>1, <3>1, <3>2, Zenon
  <2> QED
    BY <1>1, <2>1
<1>8. EventsInOrder'
  BY <1>0, <1>2, <1>7 DEF EventsInOrder
<1> QED
  BY <1>0, <1>1, <1>2, <1>3, <1>6, <1>8 DEF HistoryInv

LEMMA YieldStep ==
  ASSUME HistoryInv, Yield
  PROVE  HistoryInv'
<1> DEFINE Y == yielded
           G == generator.given
           E == generator.events
           W == generator.callers
<1>0. HistoryTyped /\ OneServed(generator) /\ CallersInOrder /\ EventsInOrder
  BY DEF HistoryInv
<1>1. /\ generator' \in Generators(Events, Callers)
      /\ OneServed(generator')
      /\ W # <<>> /\ Len(G) = 1
      /\ generator'.callers = Tail(W)
      /\ \/ generator'.given = <<>> /\ generator'.events = E
         \/ /\ E # <<>>
            /\ generator'.given = <<Head(E)>> /\ generator'.events = Tail(E)
  BY <1>0, ResumedServes DEF Yield, HistoryTyped
<1>2. /\ callers' = Append(callers, Head(W))
      /\ yielded' = Append(Y, Head(G))
      /\ UNCHANGED <<matched, asked>>
      /\ G # <<>>
  BY DEF Yield, Resumable
<1>3. /\ Y \in Seq(Events) /\ G \in Seq(Events) /\ E \in Seq(Events)
      /\ W \in Seq(Callers) /\ callers \in Seq(Callers)
      /\ matched = Y \o (G \o E) /\ asked = callers \o W
  BY <1>0, Shapes DEF CallersInOrder, EventsInOrder
<1>4. /\ Head(W) \in Callers /\ Tail(W) \in Seq(Callers)
      /\ <<Head(W)>> \in Seq(Callers) /\ <<Head(W)>> \o Tail(W) = W
  <2> HIDE DEF W
  <2> QED
    BY <1>1, <1>3, HeadAndTail, Zenon
<1>5. Head(G) \in Events /\ <<Head(G)>> = G
  <2> HIDE DEF G
  <2> QED
    BY <1>1, <1>2, <1>3, HeadAndTail, Zenon
<1>6. HistoryTyped'
  BY <1>0, <1>1, <1>2, <1>4, <1>5, AppendProperties DEF HistoryTyped
<1>7. asked = callers' \o Tail(W)
  <2> HIDE DEF W
  <2>1. callers' = callers \o <<Head(W)>>
    BY <1>2, <1>3, <1>4, AppendIsConcat, Zenon
  <2>2. (callers \o <<Head(W)>>) \o Tail(W) = callers \o (<<Head(W)>> \o Tail(W))
    BY <1>3, <1>4, ConcatAssociative, SMTT(30)
  <2> QED
    BY <1>3, <1>4, <2>1, <2>2, Zenon
<1>8. CallersInOrder'
  BY <1>1, <1>2, <1>7 DEF CallersInOrder
<1>9. generator'.given \o generator'.events = E
  <2>1. CASE generator'.given = <<>> /\ generator'.events = E
    <3> HIDE DEF E
    <3> QED
      BY <1>3, <2>1, ConcatEmptySeq, Zenon
  <2>2. CASE /\ E # <<>>
             /\ generator'.given = <<Head(E)>> /\ generator'.events = Tail(E)
    <3> HIDE DEF E
    <3> QED
      BY <1>3, <2>2, HeadAndTail, Zenon
  <2> QED
    BY <1>1, <2>1, <2>2
<1>10. matched = yielded' \o E
  <2> HIDE DEF Y, G, E
  <2>1. yielded' = Y \o G
    BY <1>2, <1>3, <1>5, AppendIsConcat, Zenon
  <2>2. (Y \o G) \o E = Y \o (G \o E)
    BY <1>3, ConcatAssociative, SMTT(30)
  <2> QED
    BY <1>3, <2>1, <2>2, Zenon
<1>11. EventsInOrder'
  BY <1>2, <1>9, <1>10 DEF EventsInOrder
<1>12. Len(callers') = Len(yielded')
  <2>1. Len(callers) = Len(yielded)
    BY DEF HistoryInv
  <2>2. Len(callers') = Len(callers) + 1 /\ Len(yielded') = Len(yielded) + 1
    BY <1>2, <1>3, <1>4, <1>5, AppendProperties
  <2> QED
    BY <2>1, <2>2
<1> QED
  BY <1>1, <1>6, <1>8, <1>11, <1>12 DEF HistoryInv
LEMMA HistoryInvariant ==
  HistorySpec => []HistoryInv
<1>1. ASSUME HistoryInit
      PROVE  HistoryInv
  <2>1. /\ generator.events = <<>> /\ generator.given = <<>>
        /\ generator.callers = <<>> /\ ~generator.listens
        /\ generator \in Generators(Events, Callers)
    BY <1>1 DEF HistoryInit, NewGenerator, Generators
  <2>2. Len(<<>>) = 0
    OBVIOUS
  <2>3. <<>> \o <<>> = <<>>
    BY ConcatEmptySeq, EmptySeq
  <2>4. HistoryTyped
    BY <1>1, <2>1 DEF HistoryInit, HistoryTyped
  <2>5. OneServed(generator)
    BY <2>1, <2>2 DEF OneServed
  <2>6. CallersInOrder /\ EventsInOrder
    BY <1>1, <2>1, <2>3, Zenon DEF HistoryInit, CallersInOrder, EventsInOrder
  <2> QED
    BY <1>1, <2>4, <2>5, <2>6 DEF HistoryInit, HistoryInv
<1>2. ASSUME HistoryInv, [HistoryNext]_historyVars
      PROVE  HistoryInv'
  <2>1. CASE HistoryNext
    BY <1>2, <2>1, MatchStep, AskStep, YieldStep DEF HistoryNext
  <2>2. CASE UNCHANGED historyVars
    BY <1>2, <2>2
       DEF historyVars, HistoryInv, HistoryTyped, OneServed, CallersInOrder, EventsInOrder
  <2> QED
    BY <1>2, <2>1, <2>2
<1> QED
  BY <1>1, <1>2, PTL DEF HistorySpec

(* What is yielded is a prefix of what matched, and what is over of what    *)
(* was asked.                                                               *)
LEMMA PrefixOf ==
  ASSUME NEW S, NEW whole, NEW s \in Seq(S), NEW t \in Seq(S), whole = s \o t
  PROVE  /\ Len(whole) = Len(s) + Len(t)
         /\ Len(s) <= Len(whole)
         /\ \A k \in 1 .. Len(s) : s[k] = whole[k]
<1>1. /\ Len(whole) = Len(s) + Len(t)
      /\ \A k \in 1 .. Len(s) + Len(t) :
           whole[k] = IF k <= Len(s) THEN s[k] ELSE t[k - Len(s)]
  BY ConcatProperties
<1>2. Len(s) \in Nat /\ Len(t) \in Nat
  BY LenProperties
<1> QED
  BY <1>1, <1>2
-----------------------------------------------------------------------------
(* Whatever the order of events, of calls of next() and of microtasks, the  *)
(* calls of next() are over in the order they were made, and the k-th one   *)
(* with the k-th event that matched (util.ts, eventEmitterToGenerator).     *)
THEOREM EventsYieldedInOrder == HistorySpec => []YieldedInOrder
<1>1. ASSUME HistoryInv
      PROVE  YieldedInOrder
  <2>1. HistoryTyped /\ CallersInOrder /\ EventsInOrder /\ Len(callers) = Len(yielded)
    BY <1>1 DEF HistoryInv
  <2>2. /\ Len(callers) <= Len(asked)
        /\ \A k \in 1 .. Len(callers) : callers[k] = asked[k]
    BY <2>1, Shapes, PrefixOf DEF CallersInOrder
  <2>3. /\ Len(yielded) <= Len(matched)
        /\ \A k \in 1 .. Len(yielded) : yielded[k] = matched[k]
    <3> DEFINE rest == generator.given \o generator.events
    <3>1. rest \in Seq(Events) /\ yielded \in Seq(Events) /\ matched = yielded \o rest
      BY <2>1, Shapes DEF EventsInOrder
    <3> HIDE DEF rest
    <3> QED
      BY <3>1, PrefixOf
  <2> QED
    BY <2>1, <2>2, <2>3 DEF YieldedInOrder
<1> QED
  BY <1>1, HistoryInvariant, PTL

(* A call of next() that is not over, and an event that nobody got, mean    *)
(* that a promise is resolved and its microtask due: the generator never    *)
(* keeps an event from a caller (util.ts, the turn of the loop that looks   *)
(* into the kept events before it listens).                                 *)
THEOREM NoCallerStarves == HistorySpec => []NobodyStarves
<1>1. ASSUME HistoryInv, Len(callers) < Len(asked), Len(yielded) < Len(matched),
             generator.given = <<>>
      PROVE  FALSE
  <2>1. HistoryTyped /\ OneServed(generator) /\ CallersInOrder /\ EventsInOrder
    BY <1>1 DEF HistoryInv
  <2>2. generator.callers # <<>>
    <3>1. Len(asked) = Len(callers) + Len(generator.callers)
      BY <2>1, Shapes, PrefixOf DEF CallersInOrder
    <3> QED
      BY <1>1, <2>1, <3>1, Shapes, EmptySeq
  <2>3. generator.events = <<>>
    BY <1>1, <2>1, <2>2 DEF OneServed
  <2>4. matched = yielded \o <<>>
    BY <1>1, <2>1, <2>3, ConcatEmptySeq, EmptySeq DEF EventsInOrder
  <2>5. matched = yielded
    BY <2>1, <2>4, Shapes, ConcatEmptySeq
  <2> QED
    BY <1>1, <2>1, <2>5, Shapes, LenProperties
<1>2. HistoryInv => NobodyStarves
  BY <1>1 DEF NobodyStarves, Resumable
<1> QED
  BY <1>2, HistoryInvariant, PTL
=============================================================================
