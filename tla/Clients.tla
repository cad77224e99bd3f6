------------------------------- MODULE Clients -------------------------------
(***************************************************************************)
(* A program that uses the ledger-state, mempool and transaction clients   *)
(* of the TypeScript package over one interaction context, and the server  *)
(* at the other end, as the clients see it: ill-formed requests are        *)
(* answered by the routing worker at once, the others by their             *)
(* mini-protocol, one after the other, if only with an internal error.     *)
(*                                                                         *)
(* JavaScript runs one callback at a time.  An action is a callback, with  *)
(* the microtasks that follow it, but for those of the generators: Node.js *)
(* may emit several messages before it runs any.                           *)
(***************************************************************************)
EXTENDS Connection

CONSTANT Workloads   \* bound of the model: sequences of calls programs make

ASSUME ClientsAssumption == Workloads \subseteq Seq(Operations \cup {Shutdown})

VARIABLES
  workload,    \* the calls of this program
  clients,     \* the streams of the clients it made
  generators,  \* the event generators, by stream
  toServer,    \* requests on their way
  queues,      \* requests the server routed, by mini-protocol
  toClient,    \* responses on their way
  unnamed      \* history: calls answered with an internal error, without a method

server == <<toServer, queues, toClient, unnamed>>
vars   == <<connection, workload, clients, generators, server>>

Init ==
  /\ ConnectionInit
  /\ workload \in Workloads
  /\ clients = {}
  /\ generators = [s \in Streams |-> NewGenerator]
  /\ toServer = <<>>
  /\ queues = [p \in Protocols |-> <<>>]
  /\ toClient = <<>>
  /\ unnamed = {}

-----------------------------------------------------------------------------
(* createMempoolMonitoringClient, createTransactionSubmissionClient: the    *)
(* generators listen to messages from the creation on.                      *)
ListensTo(s) == Listener("message", s, None)
Create(streams) ==
  /\ context = "ready"
  /\ \E i \in DOMAIN workload : workload[i].stream \in streams
  /\ clients \cap streams = {}
  /\ clients' = clients \cup streams
  /\ listeners' = listeners \o SetToSeq({ListensTo(s) : s \in streams})
  /\ UNCHANGED <<platform, context, readyState, calls, reported, workload, generators, server>>

CreateMempoolMonitoringClient     == Create({"mempool"})
CreateTransactionSubmissionClient == Create({"submit", "evaluate"})

(* A WebSocket that is not open drops what it is asked to send.             *)
Send(c, op, wellFormed) ==
  toServer' = IF readyState = "OPEN"
                THEN Append(toServer, Request(c, op, wellFormed)) ELSE toServer

(* Connection.Method                                                        *)
CallMethod(c, op, wellFormed) ==
  /\ op.stream = "none"
  /\ op # Shutdown
  /\ IF EnsureSocketIsOpen
       THEN /\ listeners' = Awaiting(Guarded(listeners, c), c)
            /\ calls' = Append(calls, Call(op, wellFormed, "pending"))
       ELSE /\ listeners' = Awaiting(listeners, c)
            /\ calls' = Append(calls, Call(op, wellFormed, "rejected"))
  /\ Send(c, op, wellFormed)
  /\ UNCHANGED <<readyState, generators>>

(* The methods of the mempool and the transaction client, which await the   *)
(* next event of their generator.                                           *)
AwaitNext(c, op, wellFormed) ==
  /\ op.stream \in clients
  /\ listeners' = Guarded(listeners, c)
  /\ calls' = Append(calls, Call(op, wellFormed, "pending"))
  /\ Send(c, op, wellFormed)
  /\ generators' = [generators EXCEPT ![op.stream] = Asked(@, c)]
  /\ UNCHANGED readyState

CallMempoolClient(c, op, wellFormed) ==
  op.stream = "mempool" /\ AwaitNext(c, op, wellFormed)
CallTransactionClient(c, op, wellFormed) ==
  op.stream \in {"submit", "evaluate"} /\ AwaitNext(c, op, wellFormed)

ShutdownClient(op) ==
  /\ op = Shutdown
  /\ CallShutdown
  /\ UNCHANGED <<generators, toServer>>

MakeCall ==
  /\ context = "ready"
  /\ Len(calls) < Len(workload)
  /\ LET c  == Len(calls) + 1
         op == workload[c]
     IN \/ \E wellFormed \in {TRUE, ~op.params} :
             \/ CallMethod(c, op, wellFormed)
             \/ CallMempoolClient(c, op, wellFormed)
             \/ CallTransactionClient(c, op, wellFormed)
        \/ ShutdownClient(op)
  /\ UNCHANGED <<platform, context, reported, workload, clients, queues, toClient, unnamed>>

-----------------------------------------------------------------------------
(* The server                                                               *)
Route ==
  /\ toServer # <<>>
  /\ toServer' = Tail(toServer)
  /\ LET request == Head(toServer)
     IN IF request.wellFormed
          THEN /\ queues' = [queues EXCEPT ![request.op.protocol] = Append(@, request)]
               /\ UNCHANGED toClient
          ELSE /\ toClient' = Append(toClient, RpcError(request))
               /\ UNCHANGED queues
  /\ UNCHANGED <<connection, workload, clients, generators, unnamed>>

Answer(p) ==
  /\ queues[p] # <<>>
  /\ queues' = [queues EXCEPT ![p] = Tail(@)]
  /\ \E response \in Answers(Head(queues[p])) :
       /\ toClient' = Append(toClient, response)
       /\ unnamed' = IF response.method = NoMethod THEN unnamed \cup {response.to}
                                                  ELSE unnamed
  /\ UNCHANGED <<connection, workload, clients, generators, toServer>>

-----------------------------------------------------------------------------
NoMicrotask == \A s \in Streams : ~Resumable(generators[s])

(* A message: to the generators, and to the one call whose identifier it    *)
(* mirrors.                                                                 *)
Heard(s, response) == Contains(listeners, ListensTo(s)) /\ Matches(s, response)
Owns(c, response)  ==
  Contains(listeners, Listener("message", "listener", c)) /\ IsOwn(c, response)

OnMessage ==
  /\ toClient # <<>>
  /\ readyState \in {"OPEN", "CLOSING"}
  /\ platform = "browser" => NoMicrotask
  /\ toClient' = Tail(toClient)
  /\ LET response == Head(toClient)
         owners   == {c \in DOMAIN calls : Owns(c, response)}
     IN /\ generators' = [s \in Streams |->
             IF Heard(s, response) THEN Matched(generators[s], response)
                                   ELSE generators[s]]
        /\ \/ \E c \in owners :
                /\ calls' = IF Pending(c)
                              THEN [calls EXCEPT ![c] = Settled(@, response)] ELSE calls
                /\ listeners' = Released(Forgotten(listeners, c), c)
           \/ /\ owners = {}
              /\ UNCHANGED <<calls, listeners>>
  /\ UNCHANGED <<platform, context, readyState, reported, workload, clients,
                 toServer, queues, unnamed>>

(* The microtask of a generator: the call that waited longest goes on.      *)
Resume(s) ==
  /\ Resumable(generators[s])
  /\ generators' = [generators EXCEPT ![s] = Resumed(@)]
  /\ LET c == Head(generators[s].callers)
     IN /\ calls' = IF Pending(c)
                      THEN [calls EXCEPT ![c] = Settled(@, generators[s].given[1])]
                      ELSE calls
        /\ listeners' = Released(listeners, c)
  /\ UNCHANGED <<platform, context, readyState, reported, workload, clients, server>>

(* The callbacks of the context.                                            *)
Event ==
  /\ NoMicrotask
  /\ NotReady \/ Connect \/ ConnectWithoutOptions \/ OnOpen \/ OnError \/ OnClose
  /\ UNCHANGED <<workload, clients, generators, server>>

Next ==
  \/ Event
  \/ CreateMempoolMonitoringClient
  \/ CreateTransactionSubmissionClient
  \/ MakeCall
  \/ Route
  \/ \E p \in Protocols : Answer(p)
  \/ OnMessage
  \/ \E s \in Streams : Resume(s)

Spec == Init /\ [][Next]_vars

(* The server answers what reaches it, messages are delivered, JavaScript   *)
(* runs its microtasks, and a WebSocket that closes is closed in the end.   *)
(* Nothing is owed by the program, or about an open WebSocket staying open. *)
FairSpec ==
  /\ Spec
  /\ WF_vars(Route)
  /\ \A p \in Protocols : WF_vars(Answer(p))
  /\ WF_vars(OnMessage)
  /\ \A s \in Streams : WF_vars(Resume(s))
  /\ WF_vars(Event /\ readyState = "CLOSING")

-----------------------------------------------------------------------------
Requested(c) == calls[c].op # Shutdown
Streamed(c)  == calls[c].op.stream \in Streams

(* The streams of the transaction client match on the method.               *)
ByMethod(s) == s \in {"submit", "evaluate"}

(* Nothing made the stream of a call go wrong: every request of the stream  *)
(* is well-formed, no response the stream matches on its method came        *)
(* without one, and no other call has the responses it matches.             *)
Undisturbed(c) ==
  \A d \in DOMAIN calls :
    /\ calls[d].op.stream = calls[c].op.stream =>
         /\ calls[d].wellFormed
         /\ ByMethod(calls[c].op.stream) => d \notin unnamed
    /\ ByMethod(calls[c].op.stream) /\ calls[d].op.stream = "none"
         => calls[d].op.method # calls[c].op.method

(* A response of the stream of a call came without the method it is matched *)
(* by, so that a call on it waits for a response too many.                  *)
ResponseLost(c) ==
  /\ ByMethod(calls[c].op.stream)
  /\ \E d \in DOMAIN calls :
       /\ calls[d].op.stream = calls[c].op.stream
       /\ ~calls[d].wellFormed \/ d \in unnamed

(* The state has its shape, and calls are those of the program.             *)
TypeOK ==
  /\ context \in Contexts
  /\ readyState \in ReadyStates
  /\ \A s \in Streams :
       /\ Len(generators[s].given) <= 1
       /\ generators[s].listens =>
            generators[s].given = <<>> /\ generators[s].events = <<>>
       /\ generators[s].callers # <<>> <=> generators[s].listens \/ Resumable(generators[s])
  /\ Len(calls) <= Len(workload)
  /\ \A c \in DOMAIN calls : calls[c].op = workload[c]

(* Connection.Method and eventEmitterToGenerator: a call over Method is only *)
(* ever settled by the response to its own request, whatever else goes on   *)
(* over the WebSocket; a call on a client too, as long as its stream is     *)
(* undisturbed.  One internal error on a stream of the transaction client   *)
(* is enough for every later call on it to take its predecessor's response. *)
OwnResponse ==
  \A c \in DOMAIN calls :
    calls[c].by # None /\ (Streamed(c) => Undisturbed(c)) => calls[c].by = c

(* send and Method: while the WebSocket is open, the callbacks of calls are *)
(* those of the pending ones: one on the close each, and one on messages    *)
(* for the ones over Method.  Nothing accumulates over a long session.      *)
ListenersAccounted ==
  readyState = "OPEN" =>
    \A c \in DOMAIN calls :
      LET Count(l) == Cardinality({i \in DOMAIN listeners : listeners[i] = l})
          one(p)   == IF p THEN 1 ELSE 0
      IN /\ Count(Listener("close", "onUnexpectedClose", c)) = one(Pending(c))
         /\ Count(Listener("message", "listener", c)) = one(Pending(c) /\ ~Streamed(c))

(* eventEmitterToGenerator: as long as nobody disturbs its stream, what a   *)
(* pending call waits for is in one place and one only: a request or a      *)
(* response on its way, or an event of the generator.                       *)
InFlightAccounted ==
  readyState = "OPEN" =>
    \A c \in DOMAIN calls :
      LET Requests(q)  == Cardinality({i \in DOMAIN q : q[i].call = c})
          Responses(q) == Cardinality({i \in DOMAIN q : q[i].to = c})
      IN calls[c].sent /\ Requested(c) /\ (Streamed(c) => Undisturbed(c)) =>
           Requests(toServer) + Responses(toClient)
             + Requests(queues[calls[c].op.protocol])
             + (IF Streamed(c)
                  THEN Responses(generators[calls[c].op.stream].events)
                         + Responses(generators[calls[c].op.stream].given)
                  ELSE 0)
           = IF Pending(c) THEN 1 ELSE 0

(* createInteractionContext, send and shutdown: on Node.js, once the        *)
(* WebSocket of a context is closed, the user was told once and no call     *)
(* made before the close is left pending.                                   *)
CloseReported ==
  platform = "node" /\ context = "ready" /\ readyState = "CLOSED" =>
    /\ Cardinality({i \in DOMAIN reported : reported[i] = "close"}) = 1
    /\ \A c \in DOMAIN calls : calls[c].sent => ~Pending(c)

(* Every call whose request was sent is settled in the end: by a response,  *)
(* or by the close.  Two exceptions: in a browser the close settles         *)
(* nothing, because the callback of createInteractionContext takes the      *)
(* others away before they run; and an error without a method, about an     *)
(* ill-formed request or an internal one, is lost on the transaction        *)
(* client, where a call of its stream then waits until the close.           *)
Made(c) == c \in DOMAIN calls
CallsSettle ==
  \A c \in UNION {DOMAIN program : program \in Workloads} :
    Made(c) /\ calls[c].sent /\ Pending(c) ~>
      /\ Made(c)
      /\ \/ ~Pending(c)
         \/ platform = "browser" /\ readyState = "CLOSED"
         \/ ResponseLost(c)

(* The bookkeeping of callbacks, generators and calls is in step.           *)
InStep == TypeOK /\ ListenersAccounted
=============================================================================
