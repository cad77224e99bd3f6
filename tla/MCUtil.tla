-------------------------------- MODULE MCUtil --------------------------------
EXTENDS Util

(* Around each of the boundaries of CBOR heads.                             *)
Lengths    == {0, 1, 11, 12, 23, 24, 127, 128, 255, 256, 32767, 32768, 65535, 65536}
Quantities == {Quantity(n) : n \in Lengths \cup {65537, 2147483647}} \cup {Huge}

(* Around the 24 elements of a collection.                                  *)
SomeAssets ==
  {<<>>} \cup {Policies(p, a, name, Quantity(n)) :
                 p \in {1, 2, 23, 24}, a \in {1, 23, 24}, name \in {0, 23, 24, 32},
                 n \in {1, 24}}
    \cup {Policies(1, 1, 1, q) : q \in Quantities}

Plain == [address |-> 29, lovelace |-> Quantity(0), assets |-> <<>>, datum |-> {},
          datumHash |-> FALSE, script |-> {}]

MCOutputs ==
  {[Plain EXCEPT !.address = n, !.lovelace = q] : n \in {29, 57}, q \in Quantities}
    \cup {[Plain EXCEPT !.assets = a, !.datumHash = h] : a \in SomeAssets, h \in BOOLEAN}
    \cup {[Plain EXCEPT !.datum = {n}, !.assets = a] :
            n \in Lengths, a \in {<<>>, Policies(1, 1, 0, Quantity(1))}}
    \cup {[Plain EXCEPT !.script = {[native |-> native, bytes |-> n]}, !.datum = d] :
            native \in BOOLEAN, n \in Lengths, d \in {{}, {24}}}

MCDocuments ==
  {NextBlockResponse(Transaction(TransactionOutput(value, script), mint, Metadata(datum))) :
     value \in {ValueAdaOnly, Value}, script \in Scripts, mint \in {Assets},
     datum \in {Number(TRUE)}}
    \cup {NextBlockResponse(Transaction(TransactionOutput(Value, ClauseSignature),
                                        Assets, Metadata(datum))) : datum \in Metadata2}
    \cup {Value, ValueAdaOnly}
=============================================================================
