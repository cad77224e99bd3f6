--------------------------- MODULE ChainSyncClient ---------------------------
(***************************************************************************)
(* The chain-synchronization client of the TypeScript package              *)
(* (clients/TypeScript/packages/client/src/ChainSynchronization), between  *)
(* the server, as ChainSyncService has it, and the program's handlers.     *)
(*                                                                         *)
(* resume() finds an intersection, then requests a window of blocks ahead; *)
(* every handler requests one more, so that the window stays full.  By     *)
(* default a queue (fastq, of concurrency 1) runs one handler at a time;   *)
(* with the option `sequential' off, they overlap.                         *)
(***************************************************************************)
EXTENDS Integers, SequencesExt

CONSTANTS
  DefaultInFlight,   \* 100 in the code
  Settings,          \* platforms, and whether handlers are queued
  MaxBlocks,         \* bound of the model: blocks the node ever adopts
  MaxRollback,       \* bound of the model: blocks a fork of the node drops
  InFlights,         \* bound of the model: argument of each call of resume()
  MaxFailures        \* bound of the model: handlers that fail

ASSUME ChainSyncClientAssumption ==
  /\ DefaultInFlight \in Nat \ {0}
  /\ Settings \subseteq {"node", "browser"} \X BOOLEAN
  /\ InFlights \in Seq(Nat)
  /\ {MaxBlocks, MaxRollback, MaxFailures} \subseteq Nat

VARIABLES
  platform,    \* "node" or "browser"
  sequential,  \* the option of the client
  open,        \* the WebSocket
  chain,       \* the node's chain, from the origin
  minted,      \* blocks that ever were on it
  follower,    \* the node's idea of the client's chain
  rewound,     \* an intersection was found and no block served since
  requests,    \* requests sent and not answered, in order
  messages,    \* responses on their way
  resumes,     \* calls of resume()
  tasks,       \* of fastq: messages no handler has had
  running,     \* handlers, in the order they started
  applied,     \* the program's chain, which its handlers build
  failed,      \* handlers that failed before they requested the next block
  expected     \* the intersection the next block starts from: at most one

node     == <<chain, minted, follower, rewound>>
program  == <<tasks, running, applied, failed>>
settings == <<platform, sequential>>
vars     == <<settings, open, node, requests, messages, resumes, program, expected>>

Origin == 0
Block(id, ancestor) == [id |-> id, ancestor |-> ancestor]

Knows(c, point) == \E i \in DOMAIN c : c[i].id = point
UpTo(c, point)  == SubSeq(c, 1, CHOOSE i \in DOMAIN c : c[i].id = point)
TipOf(c)        == Last(c).id

(* Requests: the call of resume() that makes a findIntersection is 0 for a  *)
(* nextBlock.                                                               *)
NextBlock == [method |-> "nextBlock", resume |-> 0, point |-> Origin]
FindIntersection(r, point) ==
  [method |-> "findIntersection", resume |-> r, point |-> point]

(* Responses: an intersection or an error, or a roll.  The first roll after *)
(* an intersection is to a point of which the program has the chain already,*)
(* from an earlier run; it is `base', which is empty for other rolls.       *)
Intersection(r, found, tip) ==
  [method |-> "findIntersection", resume |-> r, found |-> found, tip |-> tip]
RollForward(block) ==
  [method |-> "nextBlock", direction |-> "forward", block |-> block, base |-> <<>>]
RollBackward(to, first) ==
  [method |-> "nextBlock", direction |-> "backward", block |-> Last(to),
   base |-> IF first THEN to ELSE <<>>]

(* inFlight || 100                                                          *)
WindowFaulty(inFlight) == inFlight
Window(inFlight) == IF inFlight = 0 THEN DefaultInFlight ELSE inFlight

Init ==
  /\ \E s \in Settings : platform = s[1] /\ sequential = s[2]
  /\ open = TRUE
  /\ chain = <<Block(Origin, Origin)>>
  /\ minted = 0
  /\ follower = <<Block(Origin, Origin)>>
  /\ rewound = FALSE
  /\ requests = <<>>
  /\ messages = <<>>
  /\ resumes = <<>>
  /\ tasks = <<>>
  /\ running = <<>>
  /\ applied = <<>>
  /\ failed = 0
  /\ expected = <<>>

-----------------------------------------------------------------------------
(* The node (external): its chain grows, or it switches to a fork that is   *)
(* at least as long.                                                        *)
Adopt(dropped) ==
  LET new == minted + (IF dropped = 0 THEN 1 ELSE dropped)
  IN /\ new <= MaxBlocks
     /\ dropped < Len(chain)
     /\ minted' = new
     /\ chain' = SubSeq(chain, 1, Len(chain) - dropped) \o
          [i \in 1 .. new - minted |->
             Block(minted + i,
                   IF i = 1 THEN chain[Len(chain) - dropped].id ELSE minted + i - 1)]
     /\ UNCHANGED <<settings, open, follower, rewound, requests, messages, resumes, program, expected>>

(* The server and the node: the first request is answered.                  *)
FindsIntersection ==
  /\ requests # <<>>
  /\ Head(requests).method = "findIntersection"
  /\ requests' = Tail(requests)
  /\ LET found == Knows(chain, Head(requests).point)
     IN /\ messages' = Append(messages,
             Intersection(Head(requests).resume, found, TipOf(chain)))
        /\ follower' = IF found THEN UpTo(chain, Head(requests).point) ELSE follower
        /\ rewound' = (rewound \/ found)
  /\ UNCHANGED <<settings, open, chain, minted, resumes, program, expected>>

ServesBlock ==
  /\ requests # <<>>
  /\ Head(requests).method = "nextBlock"
  /\ requests' = Tail(requests)
  /\ LET shared == LongestCommonPrefix({chain, follower})
         next   == chain[Len(follower) + 1]
     IN \/ /\ rewound \/ shared # follower
           /\ messages' = Append(messages, RollBackward(shared, rewound))
           /\ follower' = shared
        \/ /\ ~rewound
           /\ shared = follower
           /\ Len(chain) > Len(follower)
           /\ messages' = Append(messages, RollForward(next))
           /\ follower' = Append(follower, next)
  /\ rewound' = FALSE
  /\ UNCHANGED <<settings, open, chain, minted, resumes, program, expected>>

(* IntersectionInterleaved: ChainSyncService!Refuse                         *)
RefusesIntersection(i) ==
  /\ i > 1
  /\ requests[i].method = "findIntersection"
  /\ \A j \in 1 .. i - 1 : requests[j].method = "nextBlock"
  /\ requests' = RemoveAt(requests, i)
  /\ messages' = Append(messages, Intersection(requests[i].resume, FALSE, TipOf(chain)))
  /\ UNCHANGED <<settings, open, node, resumes, program, expected>>

-----------------------------------------------------------------------------
(* createPointFromCurrentTip                                                *)
PointFromTipFaulty(tip) == Origin
PointFromTip(tip) == tip

(* resume(): a point of the program's, or none and the tip of the node.     *)
Awaited == {r \in DOMAIN resumes : resumes[r].state \in {"tip", "point"}}

Resume ==
  /\ Len(resumes) < Len(InFlights)
  /\ LET r == Len(resumes) + 1
         Called(state, point) ==
           /\ resumes' = Append(resumes,
                [state |-> IF open THEN state ELSE "rejected",
                 window |-> Window(InFlights[r]), point |-> point])
           /\ requests' = IF open THEN Append(requests, FindIntersection(r, point))
                                  ELSE requests
     IN Called("tip", Origin) \/ \E point \in 0 .. minted : Called("point", point)
  /\ expected' = <<>>
  /\ UNCHANGED <<settings, open, node, messages, program>>

(* A response to findIntersection, and what resume() does then.             *)
OnIntersection ==
  /\ open
  /\ messages # <<>>
  /\ Head(messages).method = "findIntersection"
  /\ messages' = Tail(messages)
  /\ LET message == Head(messages)
         r       == message.resume
         call    == resumes[r]
         Becomes(state) == resumes' = [resumes EXCEPT ![r].state = state]
     IN \/ /\ ~message.found \/ (call.state = "tip" /\ message.tip = Origin)
           /\ Becomes("rejected")
           /\ UNCHANGED <<requests, expected>>
        \/ /\ message.found /\ call.state = "tip" /\ message.tip # Origin
           /\ resumes' = [resumes EXCEPT ![r].state = "point", ![r].point = message.tip]
           /\ requests' = Append(requests, FindIntersection(r, PointFromTip(message.tip)))
           /\ UNCHANGED expected
        \/ /\ message.found /\ call.state = "point"
           /\ Becomes("resolved")
           /\ requests' = requests \o [n \in 1 .. call.window |-> NextBlock]
           /\ expected' = IF Awaited = {r} THEN <<call.point>> ELSE <<>>
  /\ UNCHANGED <<settings, open, node, program>>

-----------------------------------------------------------------------------
(* fastq: how many handlers may run.                                        *)
ConcurrencyFaulty == 2
Concurrency == 1

Handler(message) == [message |-> message, asked |-> FALSE]

(* The callback on messages.  (Those that are no blocks are pushed as well, *)
(* and their handler does nothing.)                                         *)
OnBlock ==
  /\ open
  /\ messages # <<>>
  /\ Head(messages).method = "nextBlock"
  /\ messages' = Tail(messages)
  /\ IF sequential /\ Len(running) >= Concurrency
       THEN /\ tasks' = Append(tasks, Head(messages))
            /\ UNCHANGED running
       ELSE /\ running' = Append(running, Handler(Head(messages)))
            /\ UNCHANGED tasks
  /\ expected' = <<>>
  /\ UNCHANGED <<settings, open, node, requests, resumes, applied, failed>>

(* A handler is over: the queue gives the next message its own.             *)
PulledFaulty == <<>>
Pulled == IF tasks = <<>> THEN <<>> ELSE <<Handler(Head(tasks))>>

Over(i) ==
  /\ running' = RemoveAt(running, i) \o Pulled
  /\ tasks' = IF tasks = <<>> THEN <<>> ELSE Tail(tasks)

(* nextBlock(socket), which a closed WebSocket drops.                       *)
Asks(i) ==
  /\ ~running[i].asked
  /\ running' = [running EXCEPT ![i].asked = TRUE]
  /\ requests' = IF open THEN Append(requests, NextBlock) ELSE requests
  /\ UNCHANGED <<settings, open, node, messages, resumes, tasks, applied, failed, expected>>

(* What the handlers of a program do with a roll; a rollback to a block it  *)
(* has not got is news only after an intersection.                          *)
Applying(message) ==
  CASE message.direction = "forward" -> Append(applied, message.block)
    [] message.direction = "backward" /\ Knows(applied, message.block.id) ->
         UpTo(applied, message.block.id)
    [] message.direction = "backward" /\ ~Knows(applied, message.block.id) ->
         IF message.base # <<>> THEN message.base ELSE Append(applied, message.block)

Finishes(i) ==
  /\ running[i].asked
  /\ applied' = Applying(running[i].message)
  /\ Over(i)
  /\ UNCHANGED <<settings, open, node, requests, messages, resumes, failed, expected>>

Fails(i) ==
  /\ failed < MaxFailures
  /\ ~running[i].asked
  /\ failed' = failed + 1
  /\ Over(i)
  /\ UNCHANGED <<settings, open, node, requests, messages, resumes, applied, expected>>

(* shutdown(), or the peer closes.  The calls over Method are rejected, but *)
(* in a browser, where the callback of createInteractionContext, which runs *)
(* first, takes theirs away.                                                *)
ClosedFaulty(call) == call
Closed(call) ==
  IF platform = "node" THEN [call EXCEPT !.state = "rejected"] ELSE call

Close ==
  /\ open
  /\ open' = FALSE
  /\ resumes' = [r \in DOMAIN resumes |->
                   IF r \in Awaited THEN Closed(resumes[r]) ELSE resumes[r]]
  /\ UNCHANGED <<settings, node, requests, messages, program, expected>>

Server == FindsIntersection \/ ServesBlock \/ \E i \in DOMAIN requests : RefusesIntersection(i)
Deliver == OnIntersection \/ OnBlock
Handle == \E i \in DOMAIN running : Asks(i) \/ Finishes(i)

Next ==
  \/ \E dropped \in 0 .. MaxRollback : Adopt(dropped)
  \/ Server
  \/ Resume
  \/ Deliver
  \/ Handle
  \/ \E i \in DOMAIN running : Fails(i)
  \/ Close

Spec == Init /\ [][Next]_vars

(* The server answers what it can, responses are delivered, and handlers    *)
(* that do not fail come to an end.  The node owes no block, nor the        *)
(* program a call.                                                          *)
FairSpec == Spec /\ WF_vars(Server) /\ WF_vars(Deliver) /\ WF_vars(Handle)

-----------------------------------------------------------------------------
(* The state has its shape; with `sequential', one handler runs at a time,  *)
(* and messages wait only while one does.                                   *)
TypeOK ==
  /\ minted <= MaxBlocks
  /\ \A c \in {chain, follower} : c # <<>> /\ c[1] = Block(Origin, Origin)
  /\ \A r \in DOMAIN resumes :
       resumes[r].state \in {"tip", "point", "resolved", "rejected"}
  /\ \A i \in DOMAIN messages : messages[i].method \in {"nextBlock", "findIntersection"}
  /\ tasks # <<>> => sequential /\ running # <<>>
  /\ sequential => Len(running) <= 1

(* fastq with the option `sequential', which is the default: whatever the   *)
(* window, and whenever the handlers end, the program builds a chain, where *)
(* each block is followed by one of which it is the ancestor.               *)
AppliedIsAChain ==
  sequential /\ failed = 0 =>
    \A i \in 1 .. Len(applied) - 1 :
      /\ applied[i + 1].id > applied[i].id
      /\ applied[i + 1].ancestor = applied[i].id

(* The requests for blocks ahead, as many for each call as its window.      *)
Windows ==
  UNION {{r} \X (1 .. resumes[r].window) :
           r \in {s \in DOMAIN resumes : resumes[s].state = "resolved"}}

(* resume and the handlers' callback: the blocks requested and not yet      *)
(* given to a handler, with the handlers that have yet to request one, are  *)
(* the windows of the calls of resume() that succeeded; a handler that      *)
(* fails takes one away for ever.                                           *)
WindowKept ==
  open =>
    LET Blocks(q) == Cardinality({i \in DOMAIN q : q[i].method = "nextBlock"})
        unasked   == Cardinality({i \in DOMAIN running : ~running[i].asked})
    IN Blocks(requests) + Blocks(messages) + Len(tasks) + unasked + failed
         = Cardinality(Windows)

(* resume: as long as no other call of it is under way, what comes first    *)
(* after it resolves is a rollback to the intersection it resolved with, or *)
(* before it when the node left that block meanwhile.                       *)
ResumesAtIntersection ==
  \A i \in DOMAIN messages :
    /\ expected # <<>>
    /\ messages[i].method = "nextBlock"
    /\ \A j \in 1 .. i - 1 : messages[j].method # "nextBlock"
    => /\ messages[i].direction = "backward"
       /\ messages[i].block.id = expected[1] \/ ~Knows(chain, expected[1])

(* A program whose handlers request a block each, and never fail, reaches   *)
(* the tip of the node and stays there, once a resume() succeeded; others   *)
(* may fail, and take it back to the origin, meanwhile.                     *)
CaughtUp  == applied # <<>> /\ TipOf(applied) = TipOf(chain)
Resolved  == \E r \in DOMAIN resumes : resumes[r].state = "resolved"
CatchesUp == [](sequential /\ Resolved => <>[](CaughtUp \/ ~open \/ failed > 0))

(* resume: every call is settled, by the server or, on Node.js, by the      *)
(* close; in a browser a call that waits when the WebSocket is closed waits *)
(* for ever.                                                                *)
ResumeSettles ==
  \A r \in DOMAIN InFlights :
    (r \in DOMAIN resumes) ~>
      /\ r \in DOMAIN resumes
      /\ r \notin Awaited \/ (platform = "browser" /\ ~open)

(* The bookkeeping of requests, handlers and calls of resume() is in step.  *)
InStep == TypeOK /\ WindowKept
=============================================================================
