------------------------- MODULE EventGeneratorHistory -------------------------
(***************************************************************************)
(* A generator of eventEmitterToGenerator with the history of what happened*)
(* to it: whatever the order of events, calls of next() and microtasks, the*)
(* k-th call is over with the k-th matched event, nothing is lost on the   *)
(* way, and no call waits while an event for it is there.                  *)
(***************************************************************************)
EXTENDS EventGenerator

CONSTANTS Events, Callers

VARIABLES
  generator,
  matched,   \* every event that matched, in order
  asked,     \* every caller of next(), in order
  callers,   \* the callers whose calls are over, in order,
  yielded    \* and what they got

historyVars == <<generator, matched, asked, callers, yielded>>

HistoryInit ==
  /\ generator = NewGenerator
  /\ matched = <<>>
  /\ asked = <<>>
  /\ callers = <<>>
  /\ yielded = <<>>

Match(event) ==
  /\ generator' = Matched(generator, event)
  /\ matched' = Append(matched, event)
  /\ UNCHANGED <<asked, callers, yielded>>

Ask(caller) ==
  /\ generator' = Asked(generator, caller)
  /\ asked' = Append(asked, caller)
  /\ UNCHANGED <<matched, callers, yielded>>

Yield ==
  /\ Resumable(generator)
  /\ generator' = Resumed(generator)
  /\ callers' = Append(callers, Head(generator.callers))
  /\ yielded' = Append(yielded, Head(generator.given))
  /\ UNCHANGED <<matched, asked>>

HistoryNext ==
  \/ \E event \in Events : Match(event)
  \/ \E caller \in Callers : Ask(caller)
  \/ Yield

HistorySpec == HistoryInit /\ [][HistoryNext]_historyVars

-----------------------------------------------------------------------------
(* eventEmitterToGenerator: the k-th call of next() is over with the k-th   *)
(* event that matched.                                                      *)
YieldedInOrder ==
  /\ Len(yielded) = Len(callers)
  /\ Len(callers) <= Len(asked)
  /\ Len(yielded) <= Len(matched)
  /\ \A k \in 1 .. Len(callers) : callers[k] = asked[k]
  /\ \A k \in 1 .. Len(yielded) : yielded[k] = matched[k]

(* No call waits for a turn of the loop while there is an event for it.     *)
NobodyStarves ==
  Len(callers) < Len(asked) /\ Len(yielded) < Len(matched) => Resumable(generator)

(* Where everything is.                                                     *)
HistoryTyped ==
  /\ generator \in Generators(Events, Callers)
  /\ matched \in Seq(Events)
  /\ asked \in Seq(Callers)
  /\ callers \in Seq(Callers)
  /\ yielded \in Seq(Events)

(* One call at a time is being served: its promise is resolved, or it       *)
(* listens, which it only does when nothing was kept.                       *)
OneServed(g) ==
  /\ Len(g.given) <= 1
  /\ g.listens => g.given = <<>> /\ g.events = <<>>
  /\ g.callers # <<>> <=> g.listens \/ g.given # <<>>

(* Calls are over, or wait, in the order they were made.                    *)
CallersInOrder == asked = callers \o generator.callers

(* Events were yielded, are given, or are kept, in the order they came.     *)
EventsInOrder == matched = yielded \o (generator.given \o generator.events)

HistoryInv ==
  /\ HistoryTyped
  /\ OneServed(generator)
  /\ Len(callers) = Len(yielded)
  /\ CallersInOrder
  /\ EventsInOrder
=============================================================================
