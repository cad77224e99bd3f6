-------------------------- MODULE ChainSyncService ---------------------------
(***************************************************************************)
(* What chain-synchronisation promises a WebSocket client, without the     *)
(* pipeline: requests are answered one by one from the front of a list,    *)
(* and the successive 'nextBlock' responses carry the node's successive    *)
(* answers.  The only response that may jump the line is the refusal of a  *)
(* 'findIntersection' sent behind 'nextBlock' requests still unanswered.   *)
(***************************************************************************)
EXTENDS Naturals, Sequences

CONSTANT MaxRequests

VARIABLES
  issued,     \* requests received so far
  pending,    \* requests not answered yet, oldest first
  delivered,  \* how many of the node's answers have been passed on
  responses   \* responses given, in order

vars == <<issued, pending, delivered, responses>>

Init ==
  /\ issued = 0
  /\ pending = <<>>
  /\ delivered = 0
  /\ responses = <<>>

Ask(kind) ==
  /\ issued < MaxRequests
  /\ issued' = issued + 1
  /\ pending' = Append(pending, [id |-> issued + 1, kind |-> kind])
  /\ UNCHANGED <<delivered, responses>>

(* An intersection was found and no roll was delivered since.               *)
Repositioned ==
  \E i \in DOMAIN responses :
    /\ responses[i].tag = "IntersectionFound"
    /\ \A j \in DOMAIN responses :
         j > i => responses[j].tag \notin {"RollForward", "RollBackward"}

AnswerNextBlock(tag) ==
  /\ pending # <<>>
  /\ Head(pending).kind = "nextBlock"
  /\ Repositioned => tag = "RollBackward"
  /\ pending' = Tail(pending)
  /\ delivered' = delivered + 1
  /\ responses' = Append(responses,
       [to |-> Head(pending), tag |-> tag, serial |-> delivered + 1])
  /\ UNCHANGED issued

AnswerFindIntersection(tag) ==
  /\ pending # <<>>
  /\ Head(pending).kind = "findIntersection"
  /\ pending' = Tail(pending)
  /\ responses' = Append(responses,
       [to |-> Head(pending), tag |-> tag, serial |-> 0])
  /\ UNCHANGED <<issued, delivered>>

(* Only 'nextBlock' requests, and at least one, are ahead of request i.     *)
Refuse(i) ==
  /\ i > 1
  /\ pending[i].kind = "findIntersection"
  /\ \A j \in 1 .. i - 1 : pending[j].kind = "nextBlock"
  /\ pending' = SubSeq(pending, 1, i - 1) \o SubSeq(pending, i + 1, Len(pending))
  /\ responses' = Append(responses,
       [to |-> pending[i], tag |-> "IntersectionInterleaved", serial |-> 0])
  /\ UNCHANGED <<issued, delivered>>

Answer ==
  \/ \E tag \in {"RollForward", "RollBackward"} : AnswerNextBlock(tag)
  \/ \E tag \in {"IntersectionFound", "IntersectionNotFound"} :
       AnswerFindIntersection(tag)
  \/ \E i \in DOMAIN pending : Refuse(i)

Next ==
  \/ \E kind \in {"nextBlock", "findIntersection"} : Ask(kind)
  \/ Answer

Spec     == Init /\ [][Next]_vars
FairSpec == Spec /\ WF_vars(Answer)
=============================================================================
