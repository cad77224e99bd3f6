---------------------------- MODULE MCTxSubmission ----------------------------
EXTENDS TxSubmission

Submit(era)         == [kind |-> "submit", era |-> era, utxo |-> Babbage]
Evaluate(era, utxo) == [kind |-> "evaluate", era |-> era, utxo |-> utxo]

(* A transaction to submit and one to evaluate.                             *)
OneEra == {Submit(Conway), Evaluate(Conway, Babbage)}

(* Before and since Babbage, where evaluation starts; before Alonzo, where  *)
(* upgrades do; and what does not decode.                                   *)
AllEras ==
  {Submit(era) : era \in (Alonzo - 1 .. Conway) \cup {Undecodable}}
    \cup {Evaluate(era, utxo) : era \in Alonzo .. Conway, utxo \in {Babbage, Conway}}
    \cup {Evaluate(Undecodable, Babbage)}

-----------------------------------------------------------------------------
(* A behaviour is either of several requests, all in the era of the node,   *)
(* or of one request in any era with a node in any era, that may cross to   *)
(* the next with its first change.  One request alone never waits for the   *)
(* mempool to change, which this leaves to the other kind of behaviours.    *)
VARIABLE several

OfOneEra(r) == [kind |-> r.kind, era |-> r.era, utxo |-> r.utxo] \in OneEra

InScope ==
  IF several
    THEN /\ LedgerEra = Conway
         /\ \A i \in DOMAIN queue : OfOneEra(queue[i])
    ELSE issued <= 1 /\ Now <= 2

MCInit == Init /\ several \in BOOLEAN /\ InScope
MCNext == Next /\ UNCHANGED several /\ InScope'
MCSpec == MCInit /\ [][MCNext]_<<vars, several>> /\ Fairness
=============================================================================
