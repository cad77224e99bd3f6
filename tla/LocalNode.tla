------------------------------ MODULE LocalNode ------------------------------
(***************************************************************************)
(* What the transaction clients of Ogmios can tell of the cardano-node     *)
(* they talk to: the successive states of its mempool, each in the ledger  *)
(* era of the node's tip at that time.  External: modelled from how the    *)
(* mini-protocol clients of server/src/Ogmios/App/Protocol use the node.   *)
(*                                                                         *)
(* Keeping every state lets a property speak of how old a snapshot is.     *)
(***************************************************************************)
EXTENDS Naturals, Sequences

CONSTANTS
  Oldest,       \* the node's tip is in one of the eras from this one
  Newest,       \* to this one, and may cross to the next
  MaxMempools   \* bound of the model: number of states of the mempool

Alonzo   == 4   \* eras are numbered as in `selectEra'
Babbage  == 5
Conway   == 6
Dijkstra == 7
Eras     == 0 .. Dijkstra

ASSUME NodeAssumption ==
  /\ Oldest \in Eras
  /\ Newest \in Eras
  /\ MaxMempools \in Nat \ {0}

VARIABLE mempools   \* the last one is the current one

Mempool == [era : Eras, ids : Seq(Nat)]

Now         == Len(mempools)
LedgerEra   == mempools[Now].era
MoreChanges == Now < MaxMempools

NodeInit == \E era \in Oldest .. Newest : mempools = <<[era |-> era, ids |-> <<>>]>>

(* The node accepted a transaction, of this connection or of anybody.       *)
Accept(id) ==
  /\ MoreChanges
  /\ mempools' =
       Append(mempools, [mempools[Now] EXCEPT !.ids = Append(@, id)])

(* The node adopted a block: transactions leave the mempool with it, and    *)
(* the block may be the first of the next era.                              *)
AdoptBlock ==
  /\ MoreChanges
  /\ \E left \in 0 .. Len(mempools[Now].ids),
        era \in {LedgerEra, LedgerEra + 1} :
       /\ era <= Newest
       /\ mempools' = Append(mempools,
            [era |-> era,
             ids |-> SubSeq(mempools[Now].ids, left + 1, Len(mempools[Now].ids))])
=============================================================================
