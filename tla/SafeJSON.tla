------------------------------- MODULE SafeJSON -------------------------------
(***************************************************************************)
(* safeJSON (clients/TypeScript/packages/client/src/util.ts): the parser of*)
(* every message the TypeScript client gets.  A JSON number becomes a      *)
(* JavaScript number, unless it has too many digits; sanitize goes through *)
(* the whole document once more and turns into BigInt those the schema     *)
(* types so, which it recognises by the names around them.                 *)
(***************************************************************************)
EXTENDS Integers, SequencesExt

(* Documents: a number with the type the schema gives it                    *)
(* (clients/TypeScript/packages/schema/src/index.ts) and the one it has; a  *)
(* string; an object, or an array, by its keys.                             *)
Number(bigint) == [is |-> "number", typed |-> bigint, big |-> FALSE]
Text           == [is |-> "string"]
Object(fields) == [is |-> "object", fields |-> fields]
Array(items)   == Object([i \in {ToString(n) : n \in DOMAIN items} |->
                            items[CHOOSE n \in DOMAIN items : ToString(n) = i]])

Keys(json)     == DOMAIN json.fields
IsObject(json) == json.is = "object"

(* v => typeof v === 'number' ? BigInt(v) : v                               *)
Big(json) == IF json.is = "number" THEN [json EXCEPT !.big = TRUE] ELSE json

(* The objects sanitize recognises.                                         *)
IsLovelace(json) == "lovelace" \in Keys(json)
IsAssetsFaulty(json, parentKey) == "ada" \in Keys(json)
IsAssets(json, parentKey) == "ada" \in Keys(json) \/ parentKey \in {"mint", "value"}
IsScript(json) == {"clause", "atLeast"} \subseteq Keys(json)

RECURSIVE Sanitize(_, _), SanitizeMetadatum(_)

SanitizeFields(json, fields) ==
  [json EXCEPT !.fields =
     [k \in Keys(json) |-> IF k \in fields THEN Big(json.fields[k])
                                           ELSE Sanitize(json.fields[k], k)]]

SanitizeAdditionalFields(json) ==
  [json EXCEPT !.fields =
     [k \in Keys(json) |->
        IF IsObject(json.fields[k])
          THEN [json.fields[k] EXCEPT !.fields =
                  [l \in Keys(json.fields[k]) |-> Big(json.fields[k].fields[l])]]
          ELSE json.fields[k]]]

SanitizeMetadatum(json) ==
  IF IsObject(json)
    THEN [json EXCEPT !.fields =
            [k \in Keys(json) |-> SanitizeMetadatum(Big(json.fields[k]))]]
    ELSE json

Sanitize(json, parentKey) ==
  CASE ~IsObject(json) -> json
    [] IsObject(json) ->
       CASE IsLovelace(json)          -> SanitizeFields(json, {"lovelace"})
         [] ~IsLovelace(json) /\ IsAssets(json, parentKey) -> SanitizeAdditionalFields(json)
         [] ~IsLovelace(json) /\ ~IsAssets(json, parentKey) /\ IsScript(json) ->
              SanitizeFields(json, {"atLeast"})
         [] OTHER ->
              IF parentKey = "labels" THEN SanitizeMetadatum(json)
              ELSE SanitizeFields(json, {})

Parsed(json) == Sanitize(json, "")

-----------------------------------------------------------------------------
(* Documents of the schema.                                                 *)
Lovelace     == Object([lovelace |-> Number(TRUE)])
ValueAdaOnly == Object([ada |-> Lovelace])
Assets       == Object([policy |-> Object([asset |-> Number(TRUE), other |-> Number(TRUE)])])
Value        == Object([ada |-> Lovelace, policy |-> Object([asset |-> Number(TRUE)])])

ClauseSignature == Object([clause |-> Text, from |-> Text])
ClauseAfter     == Object([clause |-> Text, slot |-> Number(FALSE)])
ClauseAll(s)    == Object([clause |-> Text, from |-> Array(s)])
ClauseSome(s)   == Object([clause |-> Text, atLeast |-> Number(TRUE), from |-> Array(s)])

Clauses(S) ==
  LET Lists == {<<>>} \cup {<<s>> : s \in S} \cup {<<s, ClauseAfter>> : s \in S}
  IN {ClauseSignature, ClauseAfter} \cup {ClauseAll(l) : l \in Lists}
       \cup {ClauseSome(l) : l \in Lists}
Scripts == Clauses(Clauses({ClauseSignature, ClauseAfter}))
Native(script) == Object([language |-> Text, json |-> script, cbor |-> Text])

Metadata1 ==
  {Number(TRUE), Text, Object([int |-> Number(TRUE)])}
Metadata2 ==
  Metadata1 \cup {Array(<<a, b>>) : a \in Metadata1, b \in Metadata1}
    \cup {Object([lovelace |-> m, ada |-> n]) : m \in Metadata1, n \in Metadata1}
    \cup {Object([map |-> Array(<<Object([k |-> m, v |-> n])>>)]) : m, n \in Metadata1}
Metadata(datum) ==
  Object([hash |-> Text, labels |-> Object("674" :> Object([json |-> datum]))])

TransactionOutput(value, script) ==
  Object([address |-> Text, value |-> value, script |-> Native(script)])

(* A transaction within a block of a response, which has numbers of both    *)
(* types on every level.                                                    *)
Transaction(output, mint, metadata) ==
  Object([id |-> Text, fee |-> ValueAdaOnly, outputs |-> Array(<<output>>),
          withdrawals |-> Object([account |-> ValueAdaOnly]),
          validityInterval |-> Object([invalidAfter |-> Number(FALSE)]),
          mint |-> mint, metadata |-> metadata])
NextBlockResponse(transaction) ==
  Object([method |-> Text,
          result |-> Object([block |-> Object([slot |-> Number(FALSE),
                                               transactions |-> Array(<<transaction>>)])])])

(* Whether every number has the type the schema gives it.                   *)
RECURSIVE Typed(_)
Typed(json) ==
  CASE json.is = "number" -> json.big = json.typed
    [] json.is = "string" -> TRUE
    [] json.is = "object" -> \A k \in Keys(json) : Typed(json.fields[k])
=============================================================================
