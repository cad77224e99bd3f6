------------------------------- MODULE MCSession -------------------------------
EXTENDS Session, TLC

CONSTANTS s1, s2

Message(method, id) == [method |-> method, id |-> id]

(* Two of one method, one of another queue, and one of no method.           *)
SomeMessages ==
  {Message("nextBlock", 1), Message("nextBlock", 2), Message("queryLedgerState", 1),
   Message("unknown", 1)}

(* What a client sends is its own session's business: one that sends beside *)
(* one that comes and goes is enough for what sessions share.               *)
OneSends == s1 :> 2 @@ s2 :> 0
=============================================================================
