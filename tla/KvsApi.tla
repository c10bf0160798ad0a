-------------------------------- MODULE KvsApi --------------------------------
(***************************************************************************)
(* The calls of KvsApi (rust_kvs/kvs_api.rs) as an application sees them:  *)
(* native values go in and come out, through flush, the end of the process *)
(* and build, with kvs_tool at work in between (rust_kvs/kvs.rs,           *)
(* json_backend.rs, kvs_tool.rs).  A MockKvs is given the same calls.      *)
(*                                                                         *)
(* One thread, no failing disk, and slot 0 only: threads, failures and     *)
(* snapshots are in Kvs and JsonBackend.                                   *)
(***************************************************************************)
EXTENDS MockKvs

CONSTANTS
    Keys,
    Natives,        \* what applications set each key to: types and values of them
    NewInts,        \* what a field of a stored struct is changed to
    Payloads,       \* what kvs_tool sets: untagged JSON
    DefaultsFiles,  \* what the defaults file may hold: JSON, or Missing
    Missing

\* x is a value of the native type T.
IsNative(T, x) ==
    /\ T \in IntTypes => x \in Ints(T)
    /\ T = "f32" => RoundTo32(x) = x
    /\ T = "Point" => x \in [DOMAIN PointFields -> Int]
    /\ T = "IpAddr" => x \in DOMAIN AddressText

ASSUME NativesAssumption ==
    \A k \in Keys : \A n \in Natives[k] :
        /\ n[1] \in NativeTypes \cup {"Point", "IpAddr", "Example"}
        /\ IsNative(n[1], n[2])
        /\ n[1] = "Example" =>
              /\ n[2] = [f \in DOMAIN ExampleFields |-> n[2][f]]
              /\ \A f \in DOMAIN ExampleFields : IsNative(ExampleFields[f], n[2][f])
        /\ IsErr(Serialize(n[1], n[2])) \/ Serialize(n[1], n[2]) \in Values
ASSUME NewIntsAssumption == NewInts \subseteq Ints("i32")
ASSUME FilesAssumption ==
    /\ Missing \notin Texts
    /\ Payloads \subseteq TextsUpTo[Depth]
    /\ DefaultsFiles \subseteq Texts \cup {Missing}
    /\ Keys \subseteq Names

VARIABLES
    open,       \* the application has the store open
    map,        \* KvsData.kvs_map
    defaults,   \* KvsData.defaults_map
    file,       \* the JSON of slot 0, or Missing
    mock,       \* MockKvs.map
    fail,       \* MockKvs.fail
    source,     \* what each key was last set from
    saved,      \* source at the last flush
    loaded,     \* keys whose value came from a file
    synced      \* mock was given the data of the store, and every call since
                \* is one the mock answers like the store

data == <<map, source, loaded>>
vars == <<open, map, defaults, file, mock, fail, source, saved, loaded, synced>>

Init ==
    /\ open = FALSE
    /\ map = Empty /\ defaults = Empty
    /\ file = Missing
    /\ mock = Empty /\ fail = FALSE
    /\ source = Empty /\ saved = Empty
    /\ loaded = {}
    /\ synced = FALSE

-----------------------------------------------------------------------------
(* The calls that read *)

GetAllKeys == <<"Ok", KeysOf(map)>>
KeyExists(k) == <<"Ok", Has(map, k)>>
GetValue(k) ==
    IF Has(map, k) THEN <<"Ok", map[k]>>
    ELSE IF Has(defaults, k) THEN <<"Ok", defaults[k]>>
    ELSE Err("KeyNotFound")

\* A stored value of another type is an error, also when the default would do.
GetValueAs(k, T) ==
    IF Has(map, k) THEN TryFrom(T, map[k])
    ELSE IF Has(defaults, k) THEN TryFrom(T, defaults[k])
    ELSE Err("KeyNotFound")
GetDefaultValue(k) ==
    IF Has(defaults, k) THEN <<"Ok", defaults[k]>> ELSE Err("KeyNotFound")
IsValueDefault(k) ==
    IF Has(map, k) THEN <<"Ok", FALSE>>
    ELSE IF Has(defaults, k) THEN <<"Ok", TRUE>> ELSE Err("KeyNotFound")

-----------------------------------------------------------------------------
(* The calls that change the data *)

\* The defaults file the examples write for a map: without a slot of its own,
\* but otherwise like a flushed map.
CreateDefaultsFile(m) == Save(m)

Loaded(json) == IF json = Missing THEN <<"Ok", Empty>> ELSE Load(json)

\* build: Optional for the defaults, here in the file d, and for the store.  The
\* mock is made of the same data, to fail or not.
Open(d) ==
    /\ ~open
    /\ ~IsErr(Loaded(file)) /\ ~IsErr(Loaded(d))
    /\ open' = TRUE
    /\ map' = Loaded(file)[2] /\ mock' = map'
    /\ defaults' = Loaded(d)[2]
    /\ source' = saved
    /\ loaded' = KeysOf(map')
    /\ fail' \in BOOLEAN
    /\ synced' = (d = Missing /\ ~fail')
    /\ UNCHANGED <<file, saved>>

Close ==
    /\ open
    /\ open' = FALSE
    /\ map' = Empty /\ defaults' = Empty /\ mock' = Empty
    /\ source' = Empty /\ loaded' = {}
    /\ fail' = FALSE /\ synced' = FALSE
    /\ UNCHANGED <<file, saved>>

\* x of type T is serialized and set.
SetValue(k, T, x) ==
    LET v == Serialize(T, x)
    IN  /\ open
        /\ ~IsErr(v)
        /\ map' = With(map, k, v)
        /\ mock' = MockSetValue(mock, fail, k, v)
        /\ source' = With(source, k, <<T, x>>)
        /\ loaded' = loaded \ {k}
        /\ UNCHANGED <<open, defaults, file, fail, saved, synced>>

\* One field of a struct is changed in the object it was serialized to, and the
\* object is set again (main of the example).
ModifyExample(k, n) ==
    LET v == From("KvsMap", With(map[k][2], "i32", From("i32", n)))
    IN  /\ open
        /\ Has(map, k)
        /\ source[k][1] = "Example"
        /\ map' = With(map, k, v)
        /\ mock' = MockSetValue(mock, fail, k, v)
        /\ source' = With(source, k, <<"Example", [source[k][2] EXCEPT !["i32"] = n]>>)
        /\ UNCHANGED <<open, defaults, file, fail, saved, loaded, synced>>

\* k is no longer in the map.
Drop(k) ==
    /\ map' = Without(map, k)
    /\ source' = Without(source, k)
    /\ loaded' = loaded \ {k}

RemoveKey(k) ==
    /\ open
    /\ Has(map, k)
    /\ Drop(k)
    /\ mock' = MockRemoveKey(mock, fail, k)
    /\ UNCHANGED <<open, defaults, file, fail, saved, synced>>

Reset ==
    /\ open
    /\ map' = Empty /\ source' = Empty /\ loaded' = {}
    /\ mock' = MockReset(mock, fail)
    /\ UNCHANGED <<open, defaults, file, fail, saved, synced>>

\* Only a key with a default can be reset; the mock resets any key it has.
ResetKey(k) ==
    /\ open
    /\ IF Has(defaults, k) THEN Drop(k) ELSE UNCHANGED data
    /\ mock' = MockResetKey(mock, fail, k)
    /\ synced' = (synced /\ ~Has(map, k))
    /\ UNCHANGED <<open, defaults, file, fail, saved>>

\* flush of the map m, which was set from src.  The previous file is rotated
\* away before it is known whether the new one can be written; it stays only
\* when snapshot_max_count is 1 and there is nothing to rotate.
Write(m, src) ==
    \/ IsErr(Save(m)) /\ file' = Missing /\ saved' = Empty
    \/ IsErr(Save(m)) /\ UNCHANGED <<file, saved>>
    \/ ~IsErr(Save(m)) /\ file' = Save(m) /\ saved' = src

Flush ==
    /\ open
    /\ Write(map, source)
    /\ UNCHANGED <<open, data, defaults, mock, fail, synced>>

\* kvs_tool setkey: the store is opened, changed, flushed and closed.
ToolSet(k, payload) ==
    /\ ~open
    /\ ~IsErr(Loaded(file))
    /\ Write(With(Loaded(file)[2], k, FromTinyjson(payload)),
             With(saved, k, <<"payload", payload>>))
    /\ UNCHANGED <<open, data, defaults, mock, fail, synced>>

Next ==
    \/ \E d \in DefaultsFiles : Open(d)
    \/ Close
    \/ \E k \in Keys : \E n \in Natives[k] : SetValue(k, n[1], n[2])
    \/ \E k \in Keys, n \in NewInts : ModifyExample(k, n)
    \/ \E k \in Keys : RemoveKey(k) \/ ResetKey(k)
    \/ Reset \/ Flush
    \/ \E k \in Keys, payload \in Payloads : ToolSet(k, payload)

Spec == Init /\ [][Next]_vars

-----------------------------------------------------------------------------
(* Properties *)

\* Whatever was read from a file, every integer is in the range of its type,
\* however deep it is in the value.
DataTypeOK ==
    /\ map \in Objects(Values)
    /\ defaults \in Objects(ValuesUpTo[TextDepth])
    /\ KeysOf(source) = KeysOf(map) /\ loaded \subseteq KeysOf(map)

\* The value that was set for a key.
Original(s) == IF s[1] = "payload" THEN FromTinyjson(s[2]) ELSE Serialize(s[1], s[2])

\* What an f64 makes of the 64-bit integers of a value: the nearest float, or
\* the end of the range when that is nearer than any float in it.
RoundedNode(v, convert) ==
    LET top == Highest[Tag[v[1]]]
        x == v[2]
    IN  CASE v[1] \in {"I64", "U64"} ->
                <<v[1], IF RoundTo64(x) > top THEN top ELSE RoundTo64(x)>>
          [] v[1] \in {"Array", "Object"} -> <<v[1], Each(convert, x)>>
          [] v[1] \notin {"I64", "U64", "Array", "Object"} -> v

RoundedUpTo[n \in Nat] ==
    [v \in ValuesUpTo[n] |-> RoundedNode(v, IF n = 0 THEN <<>> ELSE RoundedUpTo[n - 1])]

Rounded(v) == RoundedUpTo[Depth][v]

\* However often the store is saved and loaded, by the application or by the
\* tool, a value comes back as it was set: same variant, same keys, also when it
\* looks like a tagged value itself.  Only 64-bit integers may change, to the
\* nearest f64, and not again after that.
ReadBack ==
    \A k \in KeysOf(map) :
        map[k] = IF k \in loaded THEN Rounded(Original(source[k])) ELSE Original(source[k])

\* A native value, a struct with everything in it included, is read back as it
\* was set when its 64-bit integers are exact in an f64.
TypedReadBack ==
    \A k \in KeysOf(map) :
        LET T == source[k][1]
        IN  T # "payload" /\ Rounded(Original(source[k])) = Original(source[k])
              => Deserialize(T, map[k]) = <<"Ok", source[k][2]>>

\* A stored number read as another type of number is that number or an error:
\* no integer is cut down to fit.  (A float read as f32 may be.)
NoSilentNarrowing ==
    \A k \in KeysOf(map), T \in NativeTypes \ {"f32"} :
        LET r == Deserialize(T, map[k])
        IN  ~IsErr(r) => ToKvs(T, r[2]) = map[k]

\* As long as the calls are ones the mock supports, code that was tested with
\* the mock reads the same from the store, errors included.
MockAgrees ==
    synced =>
        /\ GetAllKeys = MockGetAllKeys(mock, fail)
        /\ \A k \in Keys :
              /\ KeyExists(k) = MockKeyExists(mock, fail, k)
              /\ GetValue(k) = MockGetValue(mock, fail, k)
              /\ GetDefaultValue(k) = MockGetDefaultValue(fail)
              /\ Has(map, k) => IsValueDefault(k) = MockIsValueDefault(fail)
              /\ \A T \in KvsTypes : GetValueAs(k, T) = MockGetValueAs(mock, fail, k, T)
=============================================================================
