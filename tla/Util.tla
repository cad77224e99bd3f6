--------------------------------- MODULE Util ---------------------------------
(***************************************************************************)
(* The pure helpers of the TypeScript client, one input each: an output of *)
(* which the size is asked for, or a document that is parsed.              *)
(***************************************************************************)
EXTENDS UtxoSize, SafeJSON

CONSTANTS
  OutputInputs,      \* bound of the model: outputs
  Documents,         \* bound of the model: documents
  CoinsPerUtxoByte   \* the protocol parameter

VARIABLES helper, input, result

utilVars == <<helper, input, result>>

NoResult == [is |-> "none"]

UtilInit ==
  /\ result = NoResult
  /\ \/ helper = "utxoSize" /\ input \in OutputInputs
     \/ helper = "parse" /\ input \in Documents

Compute ==
  /\ result = NoResult
  /\ result' = IF helper = "utxoSize" THEN [is |-> "size", size |-> Size(input)]
                                      ELSE Parsed(input)
  /\ UNCHANGED <<helper, input>>

-----------------------------------------------------------------------------
Computed(h) == helper = h /\ result # NoResult

(* "Calculate the size of an output, as seen by the ledger, without actually*)
(* serializing it", "of the output with minimum value itself": it is, to the*)
(* byte, the size of the encoding of the output with the overhead, on both  *)
(* sides of each boundary of a CBOR head, where a lovelace below 2^16 is    *)
(* taken for the least that takes five bytes.  Outputs with an inline datum *)
(* are not: utxoSize takes the head of the datum for that of its characters,*)
(* of which there are two for a byte.                                       *)
SizeAsLedger ==
  Computed("utxoSize") /\ input.datum = {} =>
    LET atLeast == IF input.lovelace.hi = 0 THEN Quantity(65536) ELSE input.lovelace
    IN result.size = LedgerSize([input EXCEPT !.lovelace = atLeast])

(* "one can get the minimum value to set by simply calculating              *)
(* minLovelaceValue = utxoSize(output) * coinsPerUtxoByte": once is enough, *)
(* with an inline datum as without, even though the value set changes the   *)
(* size of the output.                                                      *)
OneRound ==
  Computed("utxoSize") =>
    LET minimum == result.size * CoinsPerUtxoByte
        funded  == [input EXCEPT !.lovelace = Quantity(minimum)]
    IN LedgerSize(funded) * CoinsPerUtxoByte <= minimum

(* safeJSON.parse: in transactions, blocks and values, every lovelace, asset*)
(* quantity, metadatum integer and number of signatures is a BigInt, however*)
(* deep it is, and slots, epochs and indices are not.                       *)
SanitizedAsTyped == Computed("parse") => Typed(result)
=============================================================================
