----------------------------- MODULE CustomTypes -----------------------------
(***************************************************************************)
(* Serialization of user types (rust_kvs/examples/custom_types.rs): a      *)
(* struct is an object of its fields, an external type goes through its    *)
(* text.  A struct is a function on its fields; the native values of the   *)
(* other types are those of ValueCodec.                                    *)
(***************************************************************************)
EXTENDS ValueCodec

CONSTANT AddressText    \* to_string of every IpAddr: a function from addresses to texts

ASSUME AddressTextAssumption ==
    \A a, b \in DOMAIN AddressText : AddressText[a] = AddressText[b] => a = b

\* What to_kvs of a struct writes and from_kvs needs: each field with its type.
PointFields == [x |-> "f64", y |-> "f64"]
ExampleFields == [
    i32 |-> "i32", u32 |-> "u32", i64 |-> "i64", u64 |-> "u64", f64 |-> "f64",
    bool |-> "bool", string |-> "String", vec |-> "Vec", object |-> "KvsMap",
    u8 |-> "u8", nested |-> "Point", ip |-> "IpAddr"]

ASSUME FieldsAssumption == DOMAIN PointFields \cup DOMAIN ExampleFields \subseteq Names

\* IpAddrWrapper: to its text, and back if the text is that of an address.
AddressToKvs(a) == From("String", AddressText[a])
AddressFromKvs(v) ==
    LET text == FromKvs("String", v)
    IN  IF ~IsErr(text) /\ \E a \in DOMAIN AddressText : AddressText[a] = text[2]
        THEN <<"Ok", CHOOSE a \in DOMAIN AddressText : AddressText[a] = text[2]>>
        ELSE Err("DeserializationFailed")

\* to_kvs of a struct gives up at the first field that cannot be serialized.
StructToKvs(fields) ==
    IF \E f \in DOMAIN fields : IsErr(fields[f]) THEN Err("SerializationFailed")
    ELSE From("KvsMap", Object(fields))
PointToKvs(p) == StructToKvs([f \in DOMAIN PointFields |-> ToKvs(PointFields[f], p[f])])
FieldToKvs(T, x) ==
    IF T = "Point" THEN PointToKvs(x) ELSE IF T = "IpAddr" THEN AddressToKvs(x) ELSE ToKvs(T, x)
ExampleToKvs(e) ==
    StructToKvs([f \in DOMAIN ExampleFields |-> FieldToKvs(ExampleFields[f], e[f])])
Serialize(T, x) == IF T = "Example" THEN ExampleToKvs(x) ELSE FieldToKvs(T, x)

\* from_kvs of a struct needs an object with every field, and ignores others.
Member(v, f) == FromKvs("KvsMap", v)[2][f]
StructFromKvs(v, names, fields) ==
    IF IsErr(FromKvs("KvsMap", v)) \/ ~(names \subseteq KeysOf(FromKvs("KvsMap", v)[2]))
       \/ \E f \in names : IsErr(fields[f])
    THEN Err("DeserializationFailed")
    ELSE <<"Ok", [f \in names |-> fields[f][2]]>>
PointFromKvs(v) ==
    StructFromKvs(v, DOMAIN PointFields,
                  [f \in DOMAIN PointFields |-> FromKvs(PointFields[f], Member(v, f))])
FieldFromKvs(T, v) ==
    IF T = "Point" THEN PointFromKvs(v)
    ELSE IF T = "IpAddr" THEN AddressFromKvs(v) ELSE FromKvs(T, v)
ExampleFromKvs(v) ==
    StructFromKvs(v, DOMAIN ExampleFields,
                  [f \in DOMAIN ExampleFields |-> FieldFromKvs(ExampleFields[f], Member(v, f))])
Deserialize(T, v) == IF T = "Example" THEN ExampleFromKvs(v) ELSE FieldFromKvs(T, v)
=============================================================================
