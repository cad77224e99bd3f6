------------------------------ MODULE Connection ------------------------------
(***************************************************************************)
(* The interaction context of the TypeScript client                        *)
(* (clients/TypeScript/packages/client/src/Connection.ts and               *)
(* IsomorphicWebSocket.ts): one WebSocket with the callbacks registered on *)
(* it, from its creation to its close, and the promises of the calls made  *)
(* over it.                                                                *)
(*                                                                         *)
(* A callback may remove others of the event being emitted.  Node.js       *)
(* emits to a copy of the list and runs them still; a browser skips the    *)
(* ones that are gone.  The code claims to be indifferent to the platform. *)
(***************************************************************************)
EXTENDS ClientRequests, SequencesExt

VARIABLES
  platform,    \* "node" or "browser"
  context,     \* the promise of createInteractionContext
  readyState,  \* of the WebSocket
  listeners,   \* callbacks on the WebSocket, in order of registration
  calls,       \* calls over the context, in the order they are made
  reported     \* callbacks of the user that ran: errorHandler, closeHandler

connection == <<platform, context, readyState, listeners, calls, reported>>

Contexts    == {"fetching", "connecting", "ready", "failed"}
ReadyStates == {"NONE", "CONNECTING", "OPEN", "CLOSING", "CLOSED"}

(* A call is settled by a response, of which `by' is the request, or by     *)
(* something else, and `by' is 0.                                           *)
None == 0
Call(op, wellFormed, state) ==
  [op |-> op, wellFormed |-> wellFormed, sent |-> readyState = "OPEN",
   state |-> state, by |-> None, value |-> "none"]

Shutdown == Operation("shutdown", "none", "none", FALSE, FALSE, FALSE)

(* A callback is a function of the code; of the same function, there is one *)
(* for each call.                                                           *)
Listener(event, fn, call) == [event |-> event, fn |-> fn, call |-> call]

Add(ls, event, fn, call) == Append(ls, Listener(event, fn, call))

RemoveListener(ls, event, fn, call) == RemoveFirst(ls, Listener(event, fn, call))

ConnectionInit ==
  /\ platform \in {"node", "browser"}
  /\ context = "fetching"
  /\ readyState = "NONE"
  /\ listeners = <<>>
  /\ calls = <<>>
  /\ reported = <<>>

-----------------------------------------------------------------------------
(* Whether an event runs a callback: in a browser, unless one before it     *)
(* removes it.                                                              *)
RemovesAll == {"onInitialError", "onInitialClose"}

Removes(l, event) == l.event = event /\ l.fn \in RemovesAll

Runs(event, fn, call) ==
  \E i \in DOMAIN listeners :
    /\ listeners[i] = Listener(event, fn, call)
    /\ platform = "browser" => \A j \in 1 .. i - 1 : ~Removes(listeners[j], event)

Listening(event) == \E i \in DOMAIN listeners : listeners[i].event = event

(* removeAllListeners                                                       *)
Remaining(event) ==
  IF \E fn \in RemovesAll : Runs(event, fn, None) THEN <<>> ELSE listeners

Pending(c) == calls[c].state = "pending"

-----------------------------------------------------------------------------
(* getServerHealth, then the constructor of the WebSocket.                  *)
NotReady ==
  /\ context = "fetching"
  /\ context' = "failed"
  /\ UNCHANGED <<platform, readyState, listeners, calls, reported>>

Connect ==
  /\ context = "fetching"
  /\ context' = "connecting"
  /\ readyState' = "CONNECTING"
  /\ listeners' = <<Listener("error", "onInitialError", None),
                    Listener("close", "onInitialClose", None),
                    Listener("open", "onOpen", None)>>
  /\ UNCHANGED <<platform, calls, reported>>

(* Without options, reading maxEventListeners fails after the WebSocket is  *)
(* made and before anything is registered on it.                            *)
ConnectWithoutOptions ==
  /\ context = "fetching"
  /\ context' = "failed"
  /\ readyState' = "CONNECTING"
  /\ UNCHANGED <<platform, listeners, calls, reported>>

OnOpen ==
  /\ readyState = "CONNECTING"
  /\ readyState' = "OPEN"
  /\ IF Runs("open", "onOpen", None)
       THEN /\ context' = "ready"
            /\ listeners' =
                 Add(Add(RemoveListener(listeners, "error", "onInitialError", None),
                         "error", "errorHandler", None),
                     "close", "closeHandler", None)
       ELSE UNCHANGED <<context, listeners>>
  /\ UNCHANGED <<platform, calls, reported>>

(* An error: the close follows.  Node.js throws an error nobody listens to. *)
OnError ==
  /\ readyState \in {"CONNECTING", "OPEN"}
  /\ readyState' = "CLOSING"
  /\ context' = IF Runs("error", "onInitialError", None) THEN "failed" ELSE context
  /\ listeners' = Remaining("error")
  /\ reported' = CASE Runs("error", "errorHandler", None) -> Append(reported, "error")
                   [] platform = "node" /\ ~Listening("error") ->
                        Append(reported, "uncaught")
                   [] OTHER -> reported
  /\ UNCHANGED <<platform, calls>>

(* The close of the peer, the end of a shutdown or of an error.             *)
Afterwards(c) ==
  CASE Pending(c) /\ Runs("close", "onUnexpectedClose", c) ->
         [calls[c] EXCEPT !.state = "rejected", !.value = "Connection closed"]
    [] Pending(c) /\ Runs("close", "onShutdown", c) ->
         [calls[c] EXCEPT !.state = "resolved"]
    [] OTHER -> calls[c]

OnClose ==
  /\ readyState \in {"OPEN", "CLOSING"}
  /\ readyState' = "CLOSED"
  /\ calls' = [c \in DOMAIN calls |-> Afterwards(c)]
  /\ reported' = IF Runs("close", "closeHandler", None)
                   THEN Append(reported, "close") ELSE reported
  /\ listeners' = Remaining("close")
  /\ UNCHANGED <<platform, context>>

-----------------------------------------------------------------------------
(* send: the callback each call has on the close while it is pending.       *)
GuardedFaulty(ls, c) == ls
Guarded(ls, c) == Add(ls, "close", "onUnexpectedClose", c)

Released(ls, c) == RemoveListener(ls, "close", "onUnexpectedClose", c)

(* Method: the callback on messages, which removes itself.                  *)
Awaiting(ls, c) == Add(ls, "message", "listener", c)

ForgottenFaulty(ls, c) == ls
Forgotten(ls, c) == RemoveListener(ls, "message", "listener", c)

(* ensureSocketIsOpen throws                                                *)
EnsureSocketIsOpen == readyState = "OPEN"

(* shutdown, of any of the clients                                          *)
CallShutdown ==
  IF EnsureSocketIsOpen
    THEN /\ calls' = Append(calls, Call(Shutdown, TRUE, "pending"))
         /\ listeners' = Add(listeners, "close", "onShutdown", Len(calls) + 1)
         /\ readyState' = "CLOSING"
    ELSE /\ calls' = Append(calls, Call(Shutdown, TRUE, "rejected"))
         /\ UNCHANGED <<listeners, readyState>>
=============================================================================
