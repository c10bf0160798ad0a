----------------------------- MODULE ValueCodec -----------------------------
(***************************************************************************)
(* The values of the Rust key-value store (rust_kvs/kvs_value.rs), their   *)
(* conversion from and to native types (kvs_serialize.rs), and the tagged  *)
(* JSON they are stored in (json_backend.rs).                              *)
(*                                                                         *)
(* A value is a pair of its variant and its payload; an object is a        *)
(* function on Names, with None for the keys it does not have.  The ranges *)
(* of the integer types and the casts to floats are parameters.  A float   *)
(* is an integer, or one of Infinity and NaN, which are integers outside   *)
(* every type.                                                             *)
(*                                                                         *)
(* The conversions recurse on the members of arrays and objects: what is   *)
(* written with UpTo is the conversion of values that nest at most n deep. *)
(***************************************************************************)
EXTENDS Integers, Sequences

CONSTANTS
    Lowest, Highest,    \* MIN and MAX of every integer type
    RoundTo64(_),       \* an integer as f64
    RoundTo32(_),       \* an f64 as f32
    Infinity, NaN,
    Strings,            \* the texts values may hold
    Names,              \* the keys objects may have
    Depth               \* bound: how deep values nest

Signed == {"i8", "i16", "i32", "i64", "isize"}
Unsigned == {"u8", "u16", "u32", "u64", "usize"}
IntTypes == Signed \cup Unsigned
IsFinite(x) == x \notin {Infinity, NaN}

\* Faulty variant: the highest integer does not fit.
FitsBelow(T, n) == Lowest[T] <= n /\ n < Highest[T]

Fits(T, n) == Lowest[T] <= n /\ n <= Highest[T]

ASSUME RangeAssumption ==
    /\ Lowest \in [IntTypes -> Int] /\ Highest \in [IntTypes -> Int]
    /\ \A T \in IntTypes : Fits(T, 0)
    /\ \A T \in {"i8", "i16"} : Fits("i32", Lowest[T]) /\ Fits("i32", Highest[T])
    /\ \A T \in {"u8", "u16"} : Fits("u32", Lowest[T]) /\ Fits("u32", Highest[T])
    /\ Infinity \in Int /\ NaN \in Int
    /\ \A T \in IntTypes : Infinity > Highest[T] /\ NaN > Highest[T]

\* An f64 holds every 32-bit integer, and the least 64-bit ones; what it makes of
\* another one is between what it makes of the least and the greatest, and does
\* not change again.
ASSUME RoundingAssumption ==
    /\ \A T \in {"i32", "u32"} : \A n \in Lowest[T] .. Highest[T] : RoundTo64(n) = n
    /\ \A T \in {"i64", "u64"} : \A n \in Lowest[T] .. Highest[T] :
          /\ RoundTo64(n) \in Int /\ IsFinite(RoundTo64(n))
          /\ Lowest[T] <= RoundTo64(n) /\ RoundTo64(n) <= RoundTo64(Highest[T])
          /\ RoundTo64(n) <= Highest[T] => RoundTo64(RoundTo64(n)) = RoundTo64(n)

ASSUME DepthAssumption == Depth \in Nat

\* Faulty variant: the cast keeps the low bits.
CastToIntWrap(T, x) ==
    IF ~IsFinite(x) THEN 0
    ELSE Lowest[T] + ((x - Lowest[T]) % (Highest[T] - Lowest[T] + 1))

\* `as` from a float to an integer type: saturating, and 0 for NaN.
CastToInt(T, x) ==
    IF x = NaN THEN 0
    ELSE IF x > Highest[T] THEN Highest[T] ELSE IF x < Lowest[T] THEN Lowest[T] ELSE x

-----------------------------------------------------------------------------
(* KvsValue *)

Null == <<"Null", "unit">>
Err(code) == <<"Err", code>>
IsErr(r) == r[1] = "Err"

\* The types KvsValue has a variant for: From, TryFrom and get::<T> agree on it.
Variant == [i32 |-> "I32", u32 |-> "U32", i64 |-> "I64", u64 |-> "U64", f64 |-> "F64",
            bool |-> "Boolean", String |-> "String", unit |-> "Null", Vec |-> "Array",
            KvsMap |-> "Object"]
KvsTypes == DOMAIN Variant

\* From<T> for KvsValue.
From(T, x) == <<Variant[T], x>>

\* TryFrom<&KvsValue> for T, and KvsValue::get::<T> with None for the error.
TryFrom(T, v) == IF v[1] = Variant[T] THEN <<"Ok", v[2]>> ELSE Err("ConversionFailed")

\* The types that are stored as another type: by a cast that always fits or by
\* a checked one.
Stored == [i8 |-> "i32", i16 |-> "i32", u8 |-> "u32", u16 |-> "u32", f32 |-> "f64",
           isize |-> "i64", usize |-> "u64"]
StoredAs(T) == IF T \in DOMAIN Stored THEN Stored[T] ELSE T
NativeTypes == KvsTypes \cup DOMAIN Stored

\* KvsSerialize::to_kvs.
ToKvs(T, x) ==
    IF T \in {"isize", "usize"} /\ ~Fits(Stored[T], x) THEN Err("SerializationFailed")
    ELSE From(StoredAs(T), x)

\* Faulty variant: integers are cast with `as`.
FromKvsUnchecked(T, v) ==
    LET r == TryFrom(StoredAs(T), v)
    IN  IF IsErr(r) THEN Err("DeserializationFailed")
        ELSE IF T = "f32" THEN <<"Ok", RoundTo32(r[2])>>
        ELSE IF T \in IntTypes THEN <<"Ok", CastToInt(T, r[2])>>
        ELSE r

\* KvsDeserialize::from_kvs; f32 has no checked cast.
FromKvs(T, v) ==
    LET r == TryFrom(StoredAs(T), v)
    IN  IF IsErr(r) \/ (T \in IntTypes /\ ~Fits(T, r[2])) THEN Err("DeserializationFailed")
        ELSE IF T = "f32" THEN <<"Ok", RoundTo32(r[2])>>
        ELSE r

-----------------------------------------------------------------------------
(* The values there are, and the JSON texts *)

ASSUME NamesAssumption == {"t", "v"} \subseteq Names

\* There is nothing under this key.
None == <<"None", "unit">>
KeysOf(obj) == {k \in Names : obj[k] # None}

\* The object that has the given members.
Object(members) == [k \in Names |-> IF k \in DOMAIN members THEN members[k] ELSE None]

Objects(V) == [Names -> V \cup {None}]
Nested(V) == ({"Array"} \X Seq(V)) \cup ({"Object"} \X Objects(V))
Plain == ({"Boolean"} \X BOOLEAN) \cup ({"String"} \X Strings) \cup {Null}
Ints(T) == Lowest[T] .. Highest[T]

ValuesUpTo[n \in Nat] ==
    Plain \cup ({"F64"} \X Int)
    \cup ({"I32"} \X Ints("i32")) \cup ({"U32"} \X Ints("u32"))
    \cup ({"I64"} \X Ints("i64")) \cup ({"U64"} \X Ints("u64"))
    \cup Nested(IF n = 0 THEN {} ELSE ValuesUpTo[n - 1])

\* What can be written as JSON text: no infinity and no NaN.
TextsUpTo[n \in Nat] ==
    Plain \cup ({"Number"} \X (Int \ {Infinity, NaN}))
    \cup Nested(IF n = 0 THEN {} ELSE TextsUpTo[n - 1])

Values == ValuesUpTo[Depth]

\* Every level of a map of values takes two levels of its text: the object of
\* tag and value, and the value.
TextDepth == 2 * (Depth + 1) + 1
Texts == TextsUpTo[TextDepth]

\* The conversion of every member of an array or object.
Each(convert, members) ==
    [i \in DOMAIN members |-> IF members[i] = None THEN None ELSE convert[members[i]]]

-----------------------------------------------------------------------------
(* Tagged JSON *)

Tag == [I32 |-> "i32", U32 |-> "u32", I64 |-> "i64", U64 |-> "u64", F64 |-> "f64",
        Boolean |-> "bool", String |-> "str", Null |-> "null", Array |-> "arr",
        Object |-> "obj"]
ASSUME TagAssumption == \A v \in DOMAIN Tag : Tag[v] \in Strings
IntVariants == {"I32", "U32", "I64", "U64"}

\* From<KvsValue> for JsonValue.
JsonNode(val, convert) ==
    LET x == val[2]
        v == CASE val[1] \in IntVariants -> <<"Number", RoundTo64(x)>>
               [] val[1] = "F64" -> <<"Number", x>>
               [] val[1] \in {"Boolean", "String", "Null"} -> val
               [] val[1] \in {"Array", "Object"} -> <<val[1], Each(convert, x)>>
    IN  <<"Object", Object([t |-> <<"String", Tag[val[1]]>>, v |-> v])>>

JsonUpTo[n \in Nat] ==
    [val \in ValuesUpTo[n] |-> JsonNode(val, IF n = 0 THEN <<>> ELSE JsonUpTo[n - 1])]

\* The JSON variant of what a tag announces.
Announced == [i32 |-> "Number", u32 |-> "Number", i64 |-> "Number", u64 |-> "Number",
              f64 |-> "Number", bool |-> "Boolean", str |-> "String", null |-> "Null",
              arr |-> "Array", obj |-> "Object"]

\* From<JsonValue> for KvsValue.  "t" and "v" are taken out of an object before
\* it is known whether they are a tag and a value.
KvsNode(json, convert) ==
    LET obj == json[2]
        tagged == obj["t"][1] = "String" /\ obj["v"] # None
        type == obj["t"][2]
        v == obj["v"]
    IN  CASE json[1] # "Object" -> Null
          [] json[1] = "Object" /\ ~tagged ->
                <<"Object", Each(convert, [obj EXCEPT !["t"] = None, !["v"] = None])>>
          [] json[1] = "Object" /\ tagged ->
                IF type \notin DOMAIN Announced \/ v[1] # Announced[type] THEN Null
                ELSE CASE type \in {"i32", "u32", "i64", "u64"} ->
                            <<Variant[type], CastToInt(type, v[2])>>
                       [] type = "f64" -> <<"F64", v[2]>>
                       [] type \in {"bool", "str", "null"} -> v
                       [] type \in {"arr", "obj"} -> <<v[1], Each(convert, v[2])>>

KvsUpTo[n \in Nat] ==
    [json \in TextsUpTo[n] |-> KvsNode(json, IF n = 0 THEN <<>> ELSE KvsUpTo[n - 1])]

\* The outcome of stringify: a number JSON cannot express is an error.
Stringify(json) == IF json \in Texts THEN json ELSE Err("JsonGeneratorError")

\* Faulty variant: the map is written as a plain object of tagged values.
SaveUntagged(map) == Stringify(<<"Object", Each(JsonUpTo[Depth], map)>>)

\* The content JsonBackend::save writes.
Save(map) == Stringify(JsonUpTo[Depth + 1][<<"Object", map>>])

\* The outcome of JsonBackend::load: a map.
Load(json) ==
    LET value == KvsUpTo[TextDepth][json]
    IN  IF value[1] = "Object" THEN <<"Ok", value[2]>> ELSE Err("JsonParserError")

-----------------------------------------------------------------------------
(* kvs_tool *)

\* from_tinyjson: the value of a payload, which has no tags.
TinyNode(json, convert) ==
    LET x == json[2]
    IN  CASE json[1] = "Number" -> <<"F64", x>>
          [] json[1] \in {"Boolean", "String", "Null"} -> json
          [] json[1] \in {"Array", "Object"} -> <<json[1], Each(convert, x)>>

TinyUpTo[n \in Nat] ==
    [json \in TextsUpTo[n] |-> TinyNode(json, IF n = 0 THEN <<>> ELSE TinyUpTo[n - 1])]

FromTinyjson(payload) == TinyUpTo[Depth][payload]
=============================================================================
