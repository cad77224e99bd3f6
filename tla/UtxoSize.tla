------------------------------- MODULE UtxoSize -------------------------------
(***************************************************************************)
(* utxoSize (clients/TypeScript/packages/client/src/util.ts): the size the *)
(* ledger charges for a transaction output, computed from its JSON, without*)
(* serializing it.  Encoding is the reference: the CBOR the comments and   *)
(* the test vectors of the code show.                                      *)
(***************************************************************************)
EXTENDS Integers, SequencesExt

(* Quantities are up to 64-bit wide: n is (hi * 2^16 + lo).                 *)
Quantity(n) == [hi |-> n \div 65536, lo |-> n % 65536]
Huge        == [hi |-> 65536, lo |-> 0]   \* 2^32

(* Outputs, of which only sizes matter: an address, a datum and a script by *)
(* their bytes; an asset by its number, the bytes of its name, and its      *)
(* quantity; an optional part as a set of at most one.                      *)
Outputs(Bytes, Lovelaces, Assets) ==
  [address : 29 .. 57, lovelace : Lovelaces, assets : Assets,
   datum : {{}} \cup {{n} : n \in Bytes}, datumHash : BOOLEAN,
   script : {{}} \cup {{[native |-> native, bytes |-> n]} :
                          native \in BOOLEAN, n \in Bytes}]

(* Policies, each with its assets.                                          *)
Policies(policies, assets, name, quantity) ==
  [p \in 1 .. policies |-> [a \in 1 .. assets |-> [name |-> name, quantity |-> quantity]]]

CONSTANT_OUTPUT_SERIALIZATION_OVERHEAD == 160
POLICY_ID_SIZE == 28

-----------------------------------------------------------------------------
SizeOfInteger(q) ==
  CASE q.hi = 0 /\ q.lo < 24                  -> 1
    [] q.hi = 0 /\ q.lo >= 24 /\ q.lo < 256   -> 2
    [] q.hi = 0 /\ q.lo >= 256                -> 3
    [] q.hi > 0 /\ q.hi < 65536               -> 5
    [] q.hi >= 65536                          -> 9

SizeOfBytesDef(n) == SizeOfInteger(Quantity(n))

SizeOfArrayDefFaulty(n) == 1
SizeOfArrayDef(n) == IF n < 24 THEN 1 ELSE 2

SizeOfAddress(bytes) == 3 + bytes

(* The minimum is never below 2^16, so that the size of the quantity in the *)
(* output, which is often 0 when it is asked for, does not matter.          *)
SizeOfLovelaceFaulty(lovelace) == SizeOfInteger(lovelace)
SizeOfLovelace(lovelace) == IF lovelace.hi >= 65536 THEN 9 ELSE 5

SizeOfAsset(asset) ==
  asset.name + SizeOfBytesDef(asset.name) + SizeOfInteger(asset.quantity)

SizeOfPolicy(policy) ==
  2 + POLICY_ID_SIZE + SizeOfArrayDef(Len(policy))
    + MapThenSumSet(LAMBDA a : SizeOfAsset(policy[a]), DOMAIN policy)

SizeOfValue(lovelace, assets) ==
  1 + SizeOfLovelace(lovelace)
    + (IF assets = <<>> THEN 0
       ELSE 1 + SizeOfArrayDef(Len(assets))
              + MapThenSumSet(LAMBDA p : SizeOfPolicy(assets[p]), DOMAIN assets))

(* The overhead is that of the characters, of which a byte has two.         *)
SizeOfInlineDatum(datum) ==
  MapThenSumSet(LAMBDA n : 5 + SizeOfBytesDef(2 * n) + n, datum)

SizeOfDatumHash(datumHash) == IF datumHash THEN 5 + 32 ELSE 0

SizeOfScript(script) ==
  LET Tagged(s) == 2 + s.bytes + (IF s.native THEN 0 ELSE SizeOfBytesDef(s.bytes))
  IN MapThenSumSet(LAMBDA s : 3 + SizeOfBytesDef(Tagged(s)) + Tagged(s), script)

Size(output) ==
  CONSTANT_OUTPUT_SERIALIZATION_OVERHEAD
    + SizeOfArrayDef(1)
    + SizeOfAddress(output.address)
    + SizeOfValue(output.lovelace, output.assets)
    + SizeOfInlineDatum(output.datum)
    + SizeOfDatumHash(output.datumHash)
    + SizeOfScript(output.script)

-----------------------------------------------------------------------------
(* The reference: CBOR, byte by byte, with payloads of zeros.               *)
Two(n)     == <<n \div 256, n % 256>>
Zeros(n)   == [i \in 1 .. n |-> 0]

Head1(major, q) ==
  CASE q.hi = 0 /\ q.lo < 24                -> <<32 * major + q.lo>>
    [] q.hi = 0 /\ q.lo \in 24 .. 255       -> <<32 * major + 24, q.lo>>
    [] q.hi = 0 /\ q.lo \in 256 .. 65535    -> <<32 * major + 25>> \o Two(q.lo)
    [] q.hi \in 1 .. 65535                  -> <<32 * major + 26>> \o Two(q.hi) \o Two(q.lo)
    [] OTHER -> <<32 * major + 27, 0, 0>> \o Two(q.hi \div 65536)
                  \o Two(q.hi % 65536) \o Two(q.lo)

CborInteger(q) == Head1(0, q)
CborBytes(n)   == Head1(2, Quantity(n)) \o Zeros(n)
CborTag24(n)   == Head1(6, Quantity(24)) \o CborBytes(n)

(* Collections of 24 elements and more are of indefinite length.            *)
Collection(major, items) ==
  IF Len(items) < 24
    THEN Head1(major, Quantity(Len(items))) \o FlattenSeq(items)
    ELSE <<32 * major + 31>> \o FlattenSeq(items) \o <<255>>
CborArray(items) == Collection(4, items)
CborMap(items)   == Collection(5, items)

Field(key, encoding) == CborInteger(Quantity(key)) \o encoding

CborAssets(assets) ==
  CborMap([p \in DOMAIN assets |->
    CborBytes(POLICY_ID_SIZE) \o
    CborMap([a \in DOMAIN assets[p] |->
      CborBytes(assets[p][a].name) \o CborInteger(assets[p][a].quantity)])])

CborValue(output) ==
  IF output.assets = <<>> THEN CborInteger(output.lovelace)
  ELSE CborArray(<<CborInteger(output.lovelace), CborAssets(output.assets)>>)

Optional(set, Encode(_)) == IF set = {} THEN <<>> ELSE <<Encode(CHOOSE x \in set : TRUE)>>

Encoding(output) ==
  CborMap(
    <<Field(0, CborBytes(output.address)), Field(1, CborValue(output))>>
    \o Optional(output.datum, LAMBDA n :
         Field(2, CborArray(<<CborInteger(Quantity(1)), CborTag24(n)>>)))
    \o Optional({32} \cap (IF output.datumHash THEN {32} ELSE {}), LAMBDA n :
         Field(2, CborArray(<<CborInteger(Quantity(0)), CborBytes(n)>>)))
    \o Optional(output.script, LAMBDA s :
         Field(3, CborTag24(2 + IF s.native THEN s.bytes ELSE Len(CborBytes(s.bytes))))))

(* What the ledger charges for an output, per byte.                         *)
LedgerSize(output) == CONSTANT_OUTPUT_SERIALIZATION_OVERHEAD + Len(Encoding(output))
=============================================================================
