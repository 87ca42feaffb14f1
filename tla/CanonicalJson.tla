------------------------------ MODULE CanonicalJson ------------------------------
(***************************************************************************)
(* RFC 8785 canonical JSON of the API and the SDK, and the hash of KYC     *)
(* data over it.  Two sides build an object each, key by key, in an order  *)
(* and with a history of their own, as the client and the server do.       *)
(*                                                                         *)
(* A text is the tree it parses into: strings are quoted and escaped so    *)
(* that different ones stay different.  A digest is its preimage.          *)
(***************************************************************************)
EXTENDS Integers, Sequences, SequencesExt, OrderedNames

CONSTANTS
    Sides,          \* who builds an object
    Keys,           \* the property names used, strings
    KeyOrder,       \* all property names, by UTF-16 code units
    Values,         \* values, with those of their elements and properties
    Assigned,       \* the values that a side assigns; the others are inside these
    MaxDepth,       \* of arrays and objects in one another
    MaxEdits        \* assignments and deletions, in one behaviour

ASSUME KeysAreOrdered ==
    /\ Keys \subseteq ToSet(KeyOrder)
    /\ KeyOrder \in Seq(ToSet(KeyOrder)) /\ IsInjective(KeyOrder)

PropertyNames == ToSet(KeyOrder)

\* An array is a sequence of values; an object one of <<key, value>> pairs, as inserted.
ASSUME ValuesAreJson ==
    \A v \in Values :
        /\ v.type \in {"null", "boolean", "number", "string", "bigint", "undefined", "function",
                      "symbol", "date", "array", "object"}
        /\ v.type = "array" => v.of \in Seq(Values)
        /\ v.type = "object" => v.of \in Seq(PropertyNames \X Values)

\* The values in a value: the elements of an array, the properties' values of an object.
PartsOf(v) ==
    CASE v.type = "array"  -> {v.of[n] : n \in DOMAIN v.of}
      [] v.type = "object" -> {v.of[n][2] : n \in DOMAIN v.of}
      [] OTHER             -> {}

\* A value is a finite tree: one that holds itself cannot be serialized.
ASSUME ValuesAreFinite ==
    \E depth \in [Values -> 0..MaxDepth] :
        \A v \in Values : \A part \in PartsOf(v) : depth[part] < depth[v]

ASSUME AssignedAreValues == Assigned \subseteq Values

ASSUME BoundsAreNumbers == MaxDepth \in Nat /\ MaxEdits \in Nat

\* BigInt, NaN and Infinity (a TypeError) and an invalid date (a RangeError) have no text.
Thrown == [token |-> "thrown"]

HASH_VERSION == 1

KYC_HASH_FIELDS_V1 ==
    <<"addressCity", "addressCountry", "addressLine1", "dateOfBirth",
      "fullName", "governmentIdHash", "governmentIdType", "nationality">>

VARIABLES
    object,         \* object[s]: <<key, value>> pairs, in the order of insertion
    edits

jsonVars == <<object, edits>>

JsonInit == object = [s \in Sides |-> <<>>] /\ edits = 0
-----------------------------------------------------------------------------
(* serializeCanonical.                                                     *)

SerializeString(s) == [token |-> "string", text |-> s]

OrThrown(parts, text) == IF Thrown \in ToSet(parts) THEN Thrown ELSE text

\* The text of a value that is no array and no object.
ScalarText(v) ==
    CASE v.type \in {"null", "undefined", "function", "symbol"} -> [token |-> "null"]
      [] v.type = "boolean" -> [token |-> "boolean", text |-> v.of]
      [] v.type = "number"  -> IF v.of = "NaN" THEN Thrown
                               ELSE [token |-> "number", text |-> v.of]
      [] v.type = "bigint"  -> Thrown
      [] v.type = "string"  -> SerializeString(v.of)
      [] v.type = "date"    -> IF v.of = "invalid" THEN Thrown ELSE SerializeString(v.of)

ArrayText(items) == OrThrown(items, [token |-> "array", items |-> items])

PositionOf(pairs, key) == CHOOSE n \in DOMAIN pairs : pairs[n][1] = key

KeysOf(pairs) == {pairs[n][1] : n \in DOMAIN pairs}

ValueOf(pairs, key) == pairs[PositionOf(pairs, key)][2]

\* A mutant of SortedKeys: inside an object the order of insertion is kept.
KeysSortedAtTheTop(pairs) ==
    IF pairs \in {v.of : v \in {u \in Values : u.type = "object"}}
    THEN [n \in DOMAIN pairs |-> pairs[n][1]]
    ELSE InOrder(KeyOrder, KeysOf(pairs))

SortedKeys(pairs) == InOrder(KeyOrder, KeysOf(pairs))

\* The keys that an object's text has.
SerializedKeys(pairs) ==
    {key \in KeysOf(pairs) : ValueOf(pairs, key).type \notin {"undefined", "function", "symbol"}}

\* The text of an object, of those of its properties' values: sorted by key.
ObjectText(pairs, text) ==
    LET keys  == InOrder(SortedKeys(pairs), SerializedKeys(pairs))
        items == [n \in DOMAIN keys |-> text[keys[n]]]
    IN  OrThrown(items, [token |-> "object",
                         pairs |-> [n \in DOMAIN keys |-> <<SerializeString(keys[n]), items[n]>>]])

\* The text of a value; the nested arrays and objects are serialized by the same rules.
Serialize[v \in Values] ==
    IF v.type = "array" THEN ArrayText([n \in DOMAIN v.of |-> Serialize[v.of[n]]])
    ELSE IF v.type = "object"
    THEN ObjectText(v.of, [key \in KeysOf(v.of) |-> Serialize[ValueOf(v.of, key)]])
    ELSE ScalarText(v)

\* The text of the object itself.
SerializeObject(pairs) ==
    ObjectText(pairs, [key \in KeysOf(pairs) |-> Serialize[ValueOf(pairs, key)]])

CanonicalHash(pairs) ==
    LET text == SerializeObject(pairs)
    IN  IF text = Thrown THEN Thrown ELSE [token |-> "sha256", text |-> text]

DefinedKeys(pairs) == {key \in KeysOf(pairs) : ValueOf(pairs, key).type # "undefined"}

\* Only the KYC fields, under a version tag; an undefined field is no field.
HashKycCanonical(pairs) ==
    LET fields    == InOrder(KYC_HASH_FIELDS_V1, DefinedKeys(pairs))
        extracted == [n \in DOMAIN fields |-> pairs[PositionOf(pairs, fields[n])]]
        data      == SerializeObject(extracted)
    IN  IF data = Thrown THEN Thrown
        ELSE [token |-> "sha256", text |-> <<HASH_VERSION, data>>]
-----------------------------------------------------------------------------
(* An assignment keeps the place of a key that is there; a deletion and an *)
(* assignment put it last.                                                 *)

Assign(s, key, v) ==
    LET pairs == object[s]
    IN  /\ edits < MaxEdits
        /\ object' = [object EXCEPT ![s] =
              IF key \in KeysOf(pairs) THEN [pairs EXCEPT ![PositionOf(pairs, key)] = <<key, v>>]
              ELSE Append(pairs, <<key, v>>)]
        /\ edits' = edits + 1

Delete(s, key) ==
    /\ edits < MaxEdits
    /\ key \in KeysOf(object[s])
    /\ object' = [object EXCEPT ![s] = RemoveAt(@, PositionOf(@, key))]
    /\ edits' = edits + 1

JsonNext ==
    \E s \in Sides, key \in Keys : Delete(s, key) \/ \E v \in Assigned : Assign(s, key, v)

JsonSpec == JsonInit /\ [][JsonNext]_jsonVars
-----------------------------------------------------------------------------
\* What JSON says of a value: a date is its string, an object its keys' values in no order,
\* and what JSON has no word for is null in an array and no property in an object.
Meaning[v \in Values] ==
    IF v.type = "array" THEN <<"array", [n \in DOMAIN v.of |-> Meaning[v.of[n]]]>>
    ELSE IF v.type = "object"
    THEN <<"object", [key \in SerializedKeys(v.of) |-> Meaning[ValueOf(v.of, key)]]>>
    ELSE IF v.type \in {"null", "undefined", "function", "symbol"} THEN <<"null">>
    ELSE IF v.type \in {"string", "date"} THEN <<"string", v.of>>
    ELSE <<v.type, v.of>>

\* What an object says of the keys given, whatever their order: key |-> meaning.
Content(pairs, keys) ==
    [key \in keys \cap SerializedKeys(pairs) |-> Meaning[ValueOf(pairs, key)]]

(* Whatever the two sides did to their objects, and in whatever order the  *)
(* keys came, here and in the objects nested in them: a hash that both get *)
(* is the same exactly when the objects say the same, and the KYC hash     *)
(* exactly when they say the same of the KYC fields.                       *)
HashNamesContent ==
    \A s, t \in Sides :
        LET a == object[s]
            b == object[t]
            all == PropertyNames
            kyc == PropertyNames \cap ToSet(KYC_HASH_FIELDS_V1)
        IN  /\ CanonicalHash(a) # Thrown /\ CanonicalHash(b) # Thrown =>
                  (CanonicalHash(a) = CanonicalHash(b) <=> Content(a, all) = Content(b, all))
            /\ HashKycCanonical(a) # Thrown /\ HashKycCanonical(b) # Thrown =>
                  (HashKycCanonical(a) = HashKycCanonical(b) <=> Content(a, kyc) = Content(b, kyc))
=============================================================================
