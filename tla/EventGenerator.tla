---------------------------- MODULE EventGenerator ----------------------------
(***************************************************************************)
(* eventEmitterToGenerator (clients/TypeScript/packages/client/src/util.ts):*)
(* the bridge from a callback on an event emitter to an asynchronous       *)
(* generator, whose next() is called once for every expected event.        *)
(*                                                                         *)
(* The JavaScript engine runs one body of the generator at a time: calls   *)
(* of next() wait for their turn, and a call is over one microtask after   *)
(* the promise the body awaits is resolved.  Until then more events may    *)
(* come, which are kept.                                                   *)
(***************************************************************************)
EXTENDS Sequences, Naturals

Generators(Event, Caller) ==
  [events  : Seq(Event),    \* matched while nobody listened
   listens : BOOLEAN,       \* listeners, of which one body makes at most one
   given   : Seq(Event),    \* what its promise is resolved with: at most one
   callers : Seq(Caller)]   \* the calls of next() that are not over

NewGenerator == [events |-> <<>>, listens |-> FALSE, given |-> <<>>, callers |-> <<>>]

(* One turn of the loop, for the first caller.                              *)
TakenFaulty(events) == events
Taken(events) == Tail(events)

Turn(g) ==
  IF g.callers = <<>> THEN g
  ELSE IF g.events # <<>>
    THEN [g EXCEPT !.given = <<Head(g.events)>>, !.events = Taken(g.events)]
    ELSE [g EXCEPT !.listens = TRUE]

(* The callback on the emitter, on an event that matched.                   *)
Matched(g, event) ==
  IF g.listens
    THEN [g EXCEPT !.given = <<event>>, !.listens = FALSE]
    ELSE [g EXCEPT !.events = Append(g.events, event)]

(* A call of next(): it runs the body at once if nobody else waits.         *)
Asked(g, caller) ==
  LET waiting == [g EXCEPT !.callers = Append(g.callers, caller)]
  IN IF g.callers = <<>> THEN Turn(waiting) ELSE waiting

(* The microtask: the first call is over, with Head(g.given), and the body  *)
(* runs for the one after it.                                               *)
Resumable(g) == g.given # <<>>
ResumedFaulty(g) == [g EXCEPT !.given = <<>>, !.callers = Tail(g.callers)]
Resumed(g) == Turn([g EXCEPT !.given = <<>>, !.callers = Tail(g.callers)])
=============================================================================
