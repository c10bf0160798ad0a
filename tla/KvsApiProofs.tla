---------------------------- MODULE KvsApiProofs ----------------------------
(***************************************************************************)
(* Theorems about the values of the store, for values of every depth and   *)
(* every width of numbers: what is saved is loaded again, and what is set  *)
(* is read back.                                                           *)
(***************************************************************************)
EXTENDS KvsApi, SequenceTheorems, TLAPS

-----------------------------------------------------------------------------
(* The recursive functions are what their definitions say *)

ValuesBelow(n) == IF n = 0 THEN {} ELSE ValuesUpTo[n - 1]
TextsBelow(n) == IF n = 0 THEN {} ELSE TextsUpTo[n - 1]
JsonBelow(n) == IF n = 0 THEN <<>> ELSE JsonUpTo[n - 1]
KvsBelow(n) == IF n = 0 THEN <<>> ELSE KvsUpTo[n - 1]
RoundedBelow(n) == IF n = 0 THEN <<>> ELSE RoundedUpTo[n - 1]
TinyBelow(n) == IF n = 0 THEN <<>> ELSE TinyUpTo[n - 1]

ValuesStep(n, below) ==
    Plain \cup ({"F64"} \X Int)
    \cup ({"I32"} \X Ints("i32")) \cup ({"U32"} \X Ints("u32"))
    \cup ({"I64"} \X Ints("i64")) \cup ({"U64"} \X Ints("u64"))
    \cup Nested(below)
TextsStep(n, below) ==
    Plain \cup ({"Number"} \X (Int \ {Infinity, NaN})) \cup Nested(below)
JsonStep(n, below) == [val \in ValuesUpTo[n] |-> JsonNode(val, below)]
KvsStep(n, below) == [json \in TextsUpTo[n] |-> KvsNode(json, below)]
RoundedStep(n, below) == [v \in ValuesUpTo[n] |-> RoundedNode(v, below)]
TinyStep(n, below) == [json \in TextsUpTo[n] |-> TinyNode(json, below)]

ValuesRec == INSTANCE NatRecursion WITH First <- {}, Step <- ValuesStep
TextsRec == INSTANCE NatRecursion WITH First <- {}, Step <- TextsStep
JsonRec == INSTANCE NatRecursion WITH First <- <<>>, Step <- JsonStep
KvsRec == INSTANCE NatRecursion WITH First <- <<>>, Step <- KvsStep
RoundedRec == INSTANCE NatRecursion WITH First <- <<>>, Step <- RoundedStep
TinyRec == INSTANCE NatRecursion WITH First <- <<>>, Step <- TinyStep

LEMMA ValuesAre == \A n \in Nat : ValuesUpTo[n] = ValuesStep(n, ValuesBelow(n))
<1>1. ValuesUpTo = ValuesRec!f BY DEF ValuesUpTo, ValuesRec!f, ValuesStep
<1>2. ValuesUpTo = [n \in Nat |-> ValuesStep(n, IF n = 0 THEN {} ELSE ValuesUpTo[n - 1])]
      BY <1>1, ValuesRec!Recursion
<1>3. QED BY <1>2 DEF ValuesBelow

LEMMA TextsAre == \A n \in Nat : TextsUpTo[n] = TextsStep(n, TextsBelow(n))
<1>1. TextsUpTo = TextsRec!f BY DEF TextsUpTo, TextsRec!f, TextsStep
<1>2. TextsUpTo = [n \in Nat |-> TextsStep(n, IF n = 0 THEN {} ELSE TextsUpTo[n - 1])]
      BY <1>1, TextsRec!Recursion
<1>3. QED BY <1>2 DEF TextsBelow

LEMMA JsonIs == \A n \in Nat : JsonUpTo[n] = JsonStep(n, JsonBelow(n))
<1>1. JsonUpTo = JsonRec!f BY DEF JsonUpTo, JsonRec!f, JsonStep
<1>2. JsonUpTo = [n \in Nat |-> JsonStep(n, IF n = 0 THEN <<>> ELSE JsonUpTo[n - 1])]
      BY <1>1, JsonRec!Recursion
<1>3. QED BY <1>2 DEF JsonBelow

LEMMA KvsIs == \A n \in Nat : KvsUpTo[n] = KvsStep(n, KvsBelow(n))
<1>1. KvsUpTo = KvsRec!f BY DEF KvsUpTo, KvsRec!f, KvsStep
<1>2. KvsUpTo = [n \in Nat |-> KvsStep(n, IF n = 0 THEN <<>> ELSE KvsUpTo[n - 1])]
      BY <1>1, KvsRec!Recursion
<1>3. QED BY <1>2 DEF KvsBelow

LEMMA RoundedIs == \A n \in Nat : RoundedUpTo[n] = RoundedStep(n, RoundedBelow(n))
<1>1. RoundedUpTo = RoundedRec!f BY DEF RoundedUpTo, RoundedRec!f, RoundedStep
<1>2. RoundedUpTo = [n \in Nat |-> RoundedStep(n, IF n = 0 THEN <<>> ELSE RoundedUpTo[n - 1])]
      BY <1>1, RoundedRec!Recursion
<1>3. QED BY <1>2 DEF RoundedBelow

LEMMA TinyIs == \A n \in Nat : TinyUpTo[n] = TinyStep(n, TinyBelow(n))
<1>1. TinyUpTo = TinyRec!f BY DEF TinyUpTo, TinyRec!f, TinyStep
<1>2. TinyUpTo = [n \in Nat |-> TinyStep(n, IF n = 0 THEN <<>> ELSE TinyUpTo[n - 1])]
      BY <1>1, TinyRec!Recursion
<1>3. QED BY <1>2 DEF TinyBelow

-----------------------------------------------------------------------------
(* What values and texts are made of *)

\* A value, with what is below it in V.
IsValueOf(v, V) ==
    /\ v = <<v[1], v[2]>>
    /\ \/ v[1] = "Boolean" /\ v[2] \in BOOLEAN
       \/ v[1] = "String" /\ v[2] \in Strings
       \/ v[1] = "Null" /\ v[2] = "unit"
       \/ v[1] = "F64" /\ v[2] \in Int
       \/ v[1] = "I32" /\ v[2] \in Ints("i32")
       \/ v[1] = "U32" /\ v[2] \in Ints("u32")
       \/ v[1] = "I64" /\ v[2] \in Ints("i64")
       \/ v[1] = "U64" /\ v[2] \in Ints("u64")
       \/ v[1] = "Array" /\ v[2] \in Seq(V)
       \/ v[1] = "Object" /\ v[2] \in Objects(V)

\* A text, with what is below it in J.
IsTextOf(j, J) ==
    /\ j = <<j[1], j[2]>>
    /\ \/ j[1] = "Boolean" /\ j[2] \in BOOLEAN
       \/ j[1] = "String" /\ j[2] \in Strings
       \/ j[1] = "Null" /\ j[2] = "unit"
       \/ j[1] = "Number" /\ j[2] \in Int \ {Infinity, NaN}
       \/ j[1] = "Array" /\ j[2] \in Seq(J)
       \/ j[1] = "Object" /\ j[2] \in Objects(J)

LEMMA ValueCases ==
    \A n \in Nat : \A v : v \in ValuesUpTo[n] <=> IsValueOf(v, ValuesBelow(n))
<1>1. SUFFICES ASSUME NEW n \in Nat, NEW v
               PROVE  v \in ValuesStep(n, ValuesBelow(n)) <=> IsValueOf(v, ValuesBelow(n))
      BY ValuesAre
<1>2. QED BY DEF ValuesStep, Plain, Nested, Null, IsValueOf

LEMMA TextCases ==
    \A n \in Nat : \A j : j \in TextsUpTo[n] <=> IsTextOf(j, TextsBelow(n))
<1>1. SUFFICES ASSUME NEW n \in Nat, NEW j
               PROVE  j \in TextsStep(n, TextsBelow(n)) <=> IsTextOf(j, TextsBelow(n))
      BY TextsAre
<1>2. QED BY DEF TextsStep, Plain, Nested, Null, IsTextOf

LEMMA NoneIsNothing ==
    \A n \in Nat : /\ None \notin ValuesUpTo[n] /\ None \notin ValuesBelow(n)
                   /\ None \notin TextsUpTo[n] /\ None \notin TextsBelow(n)
<1>1. \A n \in Nat : None \notin ValuesUpTo[n] BY ValueCases DEF IsValueOf, None
<1>2. \A n \in Nat : None \notin TextsUpTo[n] BY TextCases DEF IsTextOf, None
<1>3. QED BY <1>1, <1>2 DEF ValuesBelow, TextsBelow

-----------------------------------------------------------------------------
(* Conversions of all members *)

\* A function is an array of V if it is one on 1 .. k.
LEMMA Arrays == \A V, s : s \in Seq(V) <=> \E k \in Nat : s \in [1 .. k -> V]
  BY SeqDef

LEMMA EachTyped ==
    ASSUME NEW V, NEW W, NEW f, NEW s, None \notin V,
           \A i \in DOMAIN s : s[i] # None => f[s[i]] \in W
    PROVE  /\ s \in Seq(V) => Each(f, s) \in Seq(W)
           /\ s \in Objects(V) => Each(f, s) \in Objects(W)
<1>1. ASSUME s \in Seq(V) PROVE Each(f, s) \in Seq(W)
  <2>1. PICK k \in Nat : s \in [1 .. k -> V] BY <1>1, Arrays
  <2>2. Each(f, s) \in [1 .. k -> W] BY <2>1 DEF Each
  <2>3. QED BY <2>2, Arrays
<1>2. ASSUME s \in Objects(V) PROVE Each(f, s) \in Objects(W)
      BY <1>2 DEF Each, Objects
<1>3. QED BY <1>1, <1>2

LEMMA EachEach ==
    ASSUME NEW f, NEW g, NEW h, NEW s,
           \A i \in DOMAIN s : s[i] # None => f[s[i]] # None /\ g[f[s[i]]] = h[s[i]]
    PROVE  Each(g, Each(f, s)) = Each(h, s)
  BY DEF Each

\* The members of an array or an object.
LEMMA Members ==
    ASSUME NEW V, NEW s, s \in Seq(V) \/ s \in Objects(V)
    PROVE  \A i \in DOMAIN s : s[i] # None => s[i] \in V
<1>1. CASE s \in Seq(V)
  <2>1. PICK k \in Nat : s \in [1 .. k -> V] BY <1>1, Arrays
  <2>2. QED BY <2>1
<1>2. CASE s \in Objects(V) BY <1>2 DEF Objects
<1>3. QED BY <1>1, <1>2

LEMMA NestedMono ==
    ASSUME NEW V, NEW W, V \subseteq W
    PROVE  /\ Seq(V) \subseteq Seq(W) /\ Objects(V) \subseteq Objects(W)
           /\ \A v : IsValueOf(v, V) => IsValueOf(v, W)
           /\ \A j : IsTextOf(j, V) => IsTextOf(j, W)
<1>1. Seq(V) \subseteq Seq(W)
  <2>1. ASSUME NEW s \in Seq(V) PROVE s \in Seq(W)
    <3>1. PICK k \in Nat : s \in [1 .. k -> V] BY Arrays
    <3>2. s \in [1 .. k -> W] BY <3>1
    <3>3. QED BY <3>2, Arrays
  <2>2. QED BY <2>1
<1>2. Objects(V) \subseteq Objects(W) BY DEF Objects
<1>3. QED BY <1>1, <1>2 DEF IsValueOf, IsTextOf

\* What nests less deep is a text as well.
LEMMA BelowIsText == \A m \in Nat : TextsBelow(m) \subseteq TextsUpTo[m]
<1> DEFINE S == {m \in Nat : TextsBelow(m) \subseteq TextsUpTo[m]}
<1>1. 0 \in S BY DEF TextsBelow
<1>2. ASSUME NEW m \in Nat, m \in S PROVE m + 1 \in S
  <2>1. TextsBelow(m + 1) = TextsUpTo[m] /\ m + 1 \in Nat BY DEF TextsBelow
  <2>2. TextsBelow(m) \subseteq TextsBelow(m + 1) BY <1>2, <2>1
  <2>3. \A j \in TextsUpTo[m] : IsTextOf(j, TextsBelow(m + 1))
        BY <2>2, TextCases, NestedMono
  <2>4. \A j \in TextsUpTo[m] : j \in TextsUpTo[m + 1] BY <2>1, <2>3, TextCases
  <2>5. QED BY <2>1, <2>4
<1>3. Nat \subseteq S
  <2> HIDE DEF S
  <2>1. QED BY <1>1, <1>2, TextsRec!SetInduction
<1>4. QED BY <1>3

LEMMA BelowCases ==
    \A m \in Nat : \A j \in TextsBelow(m) : IsTextOf(j, TextsBelow(m))
<1>1. SUFFICES ASSUME NEW m \in Nat, NEW j \in TextsBelow(m)
               PROVE  IsTextOf(j, TextsBelow(m))
      OBVIOUS
<1>2. m # 0 /\ m - 1 \in Nat /\ TextsBelow(m) = TextsUpTo[m - 1] BY DEF TextsBelow
<1>3. IsTextOf(j, TextsBelow(m - 1)) BY <1>2, TextCases
<1>4. TextsBelow(m - 1) \subseteq TextsBelow(m) BY <1>2, BelowIsText
<1>5. QED BY <1>3, <1>4, NestedMono

-----------------------------------------------------------------------------
(* What is read is typed *)

Wide == {"i32", "u32", "i64", "u64"}

LEMMA CastTyped == \A T \in Wide : \A x \in Int : CastToInt(T, x) \in Ints(T)
<1>1. SUFFICES ASSUME NEW T \in Wide, NEW x \in Int PROVE CastToInt(T, x) \in Ints(T)
      OBVIOUS
<1>2. T \in IntTypes BY DEF Wide, IntTypes, Signed, Unsigned
<1>3. /\ Lowest[T] \in Int /\ Highest[T] \in Int
      /\ Lowest[T] <= 0 /\ 0 <= Highest[T]
      BY <1>2, RangeAssumption DEF Fits
<1>4. QED BY <1>3 DEF CastToInt, Ints

LEMMA KvsStepTyped ==
    ASSUME NEW m \in Nat, NEW j \in TextsUpTo[m],
           \A i \in TextsBelow(m) : KvsBelow(m)[i] \in ValuesBelow(m)
    PROVE  KvsUpTo[m][j] \in ValuesUpTo[m]
<1> DEFINE V == ValuesBelow(m)
           J == TextsBelow(m)
           f == KvsBelow(m)
           obj == j[2]
           w == obj["v"]
           type == obj["t"][2]
<1>1. IsTextOf(j, J) BY TextCases
<1>2. KvsUpTo[m][j] = KvsNode(j, f) BY KvsIs DEF KvsStep
<1>3. None \notin J /\ None \notin V BY NoneIsNothing
<1>4. SUFFICES IsValueOf(KvsNode(j, f), V) BY <1>2, ValueCases
<1>5. IsValueOf(Null, V) BY DEF Null, IsValueOf
<1>6. CASE j[1] # "Object" BY <1>5, <1>6 DEF KvsNode
<1>7. CASE j[1] = "Object" /\ ~(obj["t"][1] = "String" /\ w # None)
  <2> DEFINE rest == [obj EXCEPT !["t"] = None, !["v"] = None]
  <2>1. obj \in Objects(J) BY <1>1, <1>7 DEF IsTextOf
  <2>2. rest \in Objects(J) BY <2>1 DEF Objects
  <2>3. \A i \in DOMAIN rest : rest[i] # None => rest[i] \in J BY <2>2, Members
  <2> HIDE DEF rest, f, J, V
  <2>4. Each(f, rest) \in Objects(V) BY <1>3, <2>2, <2>3, EachTyped DEF f, J, V
  <2>5. KvsNode(j, f) = <<"Object", Each(f, rest)>> BY <1>7 DEF KvsNode, rest
  <2>6. QED BY <2>4, <2>5 DEF IsValueOf
<1>8. CASE j[1] = "Object" /\ obj["t"][1] = "String" /\ w # None
  <2>1. obj \in Objects(J) BY <1>1, <1>8 DEF IsTextOf
  <2>2. w \in J BY <1>8, <2>1, NamesAssumption DEF Objects
  <2>3. IsTextOf(w, J) BY <2>2, BelowCases
  <2>4. CASE type \notin DOMAIN Announced \/ w[1] # Announced[type]
        BY <1>5, <1>8, <2>4 DEF KvsNode
  <2> HIDE DEF f, J, V, w, type
  <2>5. CASE type \in Wide /\ w[1] = Announced[type]
    <3>1. KvsNode(j, f) = <<Variant[type], CastToInt(type, w[2])>>
          BY <1>8, <2>5 DEF KvsNode, Announced, w, type, Wide
    <3>2. w[1] = "Number" BY <2>5 DEF Announced, Wide
    <3>3. w[2] \in Int BY <2>3, <3>2 DEF IsTextOf
    <3>4. CastToInt(type, w[2]) \in Ints(type) BY <2>5, <3>3, CastTyped
    <3>5. QED BY <2>5, <3>1, <3>4 DEF IsValueOf, Variant, Wide
  <2>6. CASE type = "f64" /\ w[1] = Announced[type]
    <3>1. KvsNode(j, f) = <<"F64", w[2]>>
          BY <1>8, <2>6 DEF KvsNode, Announced, w, type
    <3>2. w[1] = "Number" BY <2>6 DEF Announced
    <3>3. w[2] \in Int BY <2>3, <3>2 DEF IsTextOf
    <3>4. QED BY <3>1, <3>3 DEF IsValueOf
  <2>7. CASE type \in {"bool", "str", "null"} /\ w[1] = Announced[type]
    <3>1. KvsNode(j, f) = w
          BY <1>8, <2>7 DEF KvsNode, Announced, w, type
    <3>2. w[1] \in {"Boolean", "String", "Null"} BY <2>7 DEF Announced
    <3>3. QED BY <2>3, <3>1, <3>2 DEF IsValueOf, IsTextOf
  <2>8. CASE type \in {"arr", "obj"} /\ w[1] = Announced[type]
    <3>1. KvsNode(j, f) = <<w[1], Each(f, w[2])>>
          BY <1>8, <2>8 DEF KvsNode, Announced, w, type
    <3>2. \/ w[1] = "Array" /\ w[2] \in Seq(J)
          \/ w[1] = "Object" /\ w[2] \in Objects(J)
          BY <2>3, <2>8 DEF Announced, IsTextOf
    <3>3. \A i \in DOMAIN w[2] : w[2][i] # None => w[2][i] \in J BY <3>2, Members
    <3>4. \/ w[1] = "Array" /\ Each(f, w[2]) \in Seq(V)
          \/ w[1] = "Object" /\ Each(f, w[2]) \in Objects(V)
          BY <1>3, <3>2, <3>3, EachTyped DEF f, J, V
    <3>5. QED BY <3>1, <3>4 DEF IsValueOf
  <2>9. type \in DOMAIN Announced => type \in Wide \cup {"f64", "bool", "str", "null", "arr", "obj"}
        BY DEF Announced, Wide
  <2>10. QED BY <2>4, <2>5, <2>6, <2>7, <2>8, <2>9
<1>9. QED BY <1>6, <1>7, <1>8

\* Whatever the text, what is read from it is a value: every integer in it is in
\* the range of its type.
LEMMA KvsTyped == \A m \in Nat : \A j \in TextsUpTo[m] : KvsUpTo[m][j] \in ValuesUpTo[m]
<1> DEFINE S == {m \in Nat : \A j \in TextsUpTo[m] : KvsUpTo[m][j] \in ValuesUpTo[m]}
<1>1. 0 \in S
  <2>1. \A i \in TextsBelow(0) : KvsBelow(0)[i] \in ValuesBelow(0) BY DEF TextsBelow
  <2>2. QED BY <2>1, KvsStepTyped
<1>2. ASSUME NEW m \in Nat, m \in S PROVE m + 1 \in S
  <2>1. m + 1 \in Nat /\ m + 1 # 0 /\ (m + 1) - 1 = m OBVIOUS
  <2>2. \A i \in TextsBelow(m + 1) : KvsBelow(m + 1)[i] \in ValuesBelow(m + 1)
        BY <1>2, <2>1 DEF TextsBelow, KvsBelow, ValuesBelow
  <2>3. QED BY <2>1, <2>2, KvsStepTyped
<1>3. Nat \subseteq S
  <2> HIDE DEF S
  <2>1. QED BY <1>1, <1>2, TextsRec!SetInduction
<1>4. QED BY <1>3

\* The value of a payload.
LEMMA TinyStepTyped ==
    ASSUME NEW m \in Nat, NEW j \in TextsUpTo[m],
           \A i \in TextsBelow(m) : TinyBelow(m)[i] \in ValuesBelow(m)
    PROVE  TinyUpTo[m][j] \in ValuesUpTo[m]
<1> DEFINE V == ValuesBelow(m)
           J == TextsBelow(m)
           f == TinyBelow(m)
<1>1. IsTextOf(j, J) BY TextCases
<1>2. TinyUpTo[m][j] = TinyNode(j, f) BY TinyIs DEF TinyStep
<1>3. None \notin J BY NoneIsNothing
<1>4. SUFFICES IsValueOf(TinyNode(j, f), V) BY <1>2, ValueCases
<1> HIDE DEF f, J, V
<1>5. CASE j[1] = "Number" BY <1>1, <1>5 DEF TinyNode, IsTextOf, IsValueOf
<1>6. CASE j[1] \in {"Boolean", "String", "Null"}
      BY <1>1, <1>6 DEF TinyNode, IsTextOf, IsValueOf
<1>7. CASE j[1] \in {"Array", "Object"}
  <2>1. TinyNode(j, f) = <<j[1], Each(f, j[2])>> BY <1>7 DEF TinyNode
  <2>2. \/ j[1] = "Array" /\ j[2] \in Seq(J)
        \/ j[1] = "Object" /\ j[2] \in Objects(J)
        BY <1>1, <1>7 DEF IsTextOf
  <2>3. \A i \in DOMAIN j[2] : j[2][i] # None => j[2][i] \in J BY <2>2, Members
  <2>4. \/ j[1] = "Array" /\ Each(f, j[2]) \in Seq(V)
        \/ j[1] = "Object" /\ Each(f, j[2]) \in Objects(V)
        BY <1>3, <2>2, <2>3, EachTyped DEF f, J, V
  <2>5. QED BY <2>1, <2>4 DEF IsValueOf
<1>8. QED BY <1>1, <1>5, <1>6, <1>7 DEF IsTextOf

LEMMA TinyTyped == \A m \in Nat : \A j \in TextsUpTo[m] : TinyUpTo[m][j] \in ValuesUpTo[m]
<1> DEFINE S == {m \in Nat : \A j \in TextsUpTo[m] : TinyUpTo[m][j] \in ValuesUpTo[m]}
<1>1. 0 \in S
  <2>1. \A i \in TextsBelow(0) : TinyBelow(0)[i] \in ValuesBelow(0) BY DEF TextsBelow
  <2>2. QED BY <2>1, TinyStepTyped
<1>2. ASSUME NEW m \in Nat, m \in S PROVE m + 1 \in S
  <2>1. m + 1 \in Nat /\ m + 1 # 0 /\ (m + 1) - 1 = m OBVIOUS
  <2>2. \A i \in TextsBelow(m + 1) : TinyBelow(m + 1)[i] \in ValuesBelow(m + 1)
        BY <1>2, <2>1 DEF TextsBelow, TinyBelow, ValuesBelow
  <2>3. QED BY <2>1, <2>2, TinyStepTyped
<1>3. Nat \subseteq S
  <2> HIDE DEF S
  <2>1. QED BY <1>1, <1>2, TextsRec!SetInduction
<1>4. QED BY <1>3

-----------------------------------------------------------------------------
(* Rounding *)

\* The 64-bit integer T makes of n on its way through an f64.
Round64(T, n) == IF RoundTo64(n) > Highest[T] THEN Highest[T] ELSE RoundTo64(n)

LEMMA Round64Facts ==
    ASSUME NEW T \in {"i64", "u64"}, NEW n \in Ints(T)
    PROVE  /\ Round64(T, n) \in Ints(T)
           /\ Round64(T, Round64(T, n)) = Round64(T, n)
           /\ CastToInt(T, RoundTo64(n)) = Round64(T, n)
<1>1. T \in IntTypes BY DEF IntTypes, Signed, Unsigned
<1>2. Lowest[T] \in Int /\ Highest[T] \in Int /\ Lowest[T] <= Highest[T]
      BY <1>1, RangeAssumption DEF Fits
<1>3. \A m \in Lowest[T] .. Highest[T] :
          /\ RoundTo64(m) \in Int /\ RoundTo64(m) # NaN
          /\ Lowest[T] <= RoundTo64(m) /\ RoundTo64(m) <= RoundTo64(Highest[T])
          /\ RoundTo64(m) <= Highest[T] => RoundTo64(RoundTo64(m)) = RoundTo64(m)
      BY RoundingAssumption DEF IsFinite
<1>4. n \in Lowest[T] .. Highest[T] /\ Highest[T] \in Lowest[T] .. Highest[T]
      BY <1>2 DEF Ints
<1>5. Round64(T, n) \in Ints(T) BY <1>2, <1>3, <1>4 DEF Round64, Ints
<1>6. CASE RoundTo64(n) > Highest[T]
  <2>1. Round64(T, n) = Highest[T] BY <1>6 DEF Round64
  <2>2. RoundTo64(Highest[T]) > Highest[T] BY <1>2, <1>3, <1>4, <1>6
  <2>3. QED BY <1>3, <1>4, <1>5, <1>6, <2>1, <2>2 DEF Round64, CastToInt
<1>7. CASE ~(RoundTo64(n) > Highest[T])
  <2>1. Round64(T, n) = RoundTo64(n) BY <1>7 DEF Round64
  <2>2. RoundTo64(RoundTo64(n)) = RoundTo64(n) BY <1>2, <1>3, <1>4, <1>7
  <2>3. ~(RoundTo64(n) < Lowest[T]) /\ RoundTo64(n) # NaN BY <1>2, <1>3, <1>4
  <2>4. QED BY <1>5, <1>7, <2>1, <2>2, <2>3 DEF Round64, CastToInt
<1>8. QED BY <1>6, <1>7

\* An f64 holds the 32-bit integers.
LEMMA Exact32 ==
    ASSUME NEW T \in {"i32", "u32"}, NEW n \in Ints(T)
    PROVE  RoundTo64(n) = n /\ CastToInt(T, n) = n
<1>1. T \in IntTypes BY DEF IntTypes, Signed, Unsigned
<1>2. Lowest[T] \in Int /\ Highest[T] \in Int /\ NaN > Highest[T] /\ NaN \in Int
      BY <1>1, RangeAssumption
<1>3. RoundTo64(n) = n BY RoundingAssumption DEF Ints
<1>4. n \in Int /\ Lowest[T] <= n /\ n <= Highest[T] BY <1>2 DEF Ints
<1>5. CastToInt(T, n) = n BY <1>2, <1>4 DEF CastToInt
<1>6. QED BY <1>3, <1>5

LEMMA RoundedStepFacts ==
    ASSUME NEW n \in Nat, NEW v \in ValuesUpTo[n],
           \A i \in ValuesBelow(n) :
               /\ RoundedBelow(n)[i] \in ValuesBelow(n)
               /\ RoundedBelow(n)[RoundedBelow(n)[i]] = RoundedBelow(n)[i]
    PROVE  /\ RoundedUpTo[n][v] \in ValuesUpTo[n]
           /\ RoundedUpTo[n][RoundedUpTo[n][v]] = RoundedUpTo[n][v]
<1> DEFINE V == ValuesBelow(n)
           f == RoundedBelow(n)
           r == RoundedNode(v, f)
<1>1. IsValueOf(v, V) BY ValueCases
<1>2. \A u \in ValuesUpTo[n] : RoundedUpTo[n][u] = RoundedNode(u, f)
      BY RoundedIs DEF RoundedStep
<1>3. None \notin V BY NoneIsNothing
<1>4. SUFFICES IsValueOf(r, V) /\ RoundedNode(r, f) = r
  <2>1. RoundedUpTo[n][v] = r BY <1>2
  <2>2. r \in ValuesUpTo[n] BY <1>4, ValueCases
  <2>3. QED BY <1>2, <1>4, <2>1, <2>2
<1> HIDE DEF f, V
<1>5. CASE v[1] \in {"I64", "U64"}
  <2> DEFINE T == Tag[v[1]]
  <2>1. T \in {"i64", "u64"} /\ v[2] \in Ints(T) BY <1>1, <1>5 DEF IsValueOf, Tag
  <2>2. \A x : RoundedNode(<<v[1], x>>, f) = <<v[1], Round64(T, x)>>
        BY <1>5 DEF RoundedNode, Round64
  <2>3. v = <<v[1], v[2]>> BY <1>1 DEF IsValueOf
  <2> HIDE DEF T
  <2>4. r = <<v[1], Round64(T, v[2])>> BY <2>2, <2>3
  <2>5. RoundedNode(r, f) = <<v[1], Round64(T, Round64(T, v[2]))>> BY <2>2, <2>4
  <2>6. Round64(T, v[2]) \in Ints(T) /\ Round64(T, Round64(T, v[2])) = Round64(T, v[2])
        BY <2>1, Round64Facts
  <2>7. IsValueOf(r, V) BY <1>5, <2>4, <2>6 DEF IsValueOf, T, Tag
  <2>8. QED BY <2>4, <2>5, <2>6, <2>7
<1>6. CASE v[1] \in {"Array", "Object"}
  <2>1. \A x : RoundedNode(<<v[1], x>>, f) = <<v[1], Each(f, x)>>
        BY <1>6 DEF RoundedNode
  <2>2. v = <<v[1], v[2]>> BY <1>1 DEF IsValueOf
  <2>3. r = <<v[1], Each(f, v[2])>> BY <2>1, <2>2
  <2>4. RoundedNode(r, f) = <<v[1], Each(f, Each(f, v[2]))>> BY <2>1, <2>3
  <2>5. \/ v[1] = "Array" /\ v[2] \in Seq(V)
        \/ v[1] = "Object" /\ v[2] \in Objects(V)
        BY <1>1, <1>6 DEF IsValueOf
  <2>6. \A i \in DOMAIN v[2] : v[2][i] # None => v[2][i] \in V BY <2>5, Members
  <2>7. \A i \in DOMAIN v[2] : v[2][i] # None =>
            /\ f[v[2][i]] \in V /\ f[v[2][i]] # None
            /\ f[f[v[2][i]]] = f[v[2][i]]
        BY <1>3, <2>6 DEF f, V
  <2>8. \/ v[1] = "Array" /\ Each(f, v[2]) \in Seq(V)
        \/ v[1] = "Object" /\ Each(f, v[2]) \in Objects(V)
        BY <1>3, <2>5, <2>7, EachTyped
  <2>9. Each(f, Each(f, v[2])) = Each(f, v[2]) BY <2>7, EachEach
  <2>10. IsValueOf(r, V) BY <2>3, <2>8 DEF IsValueOf
  <2>11. QED BY <2>3, <2>4, <2>9, <2>10
<1>7. CASE v[1] \notin {"I64", "U64", "Array", "Object"}
  <2>1. r = v BY <1>7 DEF RoundedNode
  <2>2. QED BY <1>1, <2>1
<1>8. QED BY <1>5, <1>6, <1>7

\* Rounding a value gives a value, which rounding does not change again.
LEMMA RoundedFacts ==
    \A n \in Nat : \A v \in ValuesUpTo[n] :
        /\ RoundedUpTo[n][v] \in ValuesUpTo[n]
        /\ RoundedUpTo[n][RoundedUpTo[n][v]] = RoundedUpTo[n][v]
<1> DEFINE S == {n \in Nat : \A v \in ValuesUpTo[n] :
                     /\ RoundedUpTo[n][v] \in ValuesUpTo[n]
                     /\ RoundedUpTo[n][RoundedUpTo[n][v]] = RoundedUpTo[n][v]}
<1>1. 0 \in S
  <2>1. ValuesBelow(0) = {} BY DEF ValuesBelow
  <2>2. QED BY <2>1, RoundedStepFacts
<1>2. ASSUME NEW n \in Nat, n \in S PROVE n + 1 \in S
  <2>1. /\ n + 1 \in Nat
        /\ ValuesBelow(n + 1) = ValuesUpTo[n] /\ RoundedBelow(n + 1) = RoundedUpTo[n]
        BY DEF ValuesBelow, RoundedBelow
  <2>2. QED BY <1>2, <2>1, RoundedStepFacts
<1>3. Nat \subseteq S
  <2> HIDE DEF S
  <2>1. QED BY <1>1, <1>2, TextsRec!SetInduction
<1>4. QED BY <1>3

-----------------------------------------------------------------------------
(* What is saved is loaded again *)

\* The member "v" of the text of a value.
JsonValue(val, convert) ==
    CASE val[1] \in IntVariants -> <<"Number", RoundTo64(val[2])>>
      [] val[1] = "F64" -> <<"Number", val[2]>>
      [] val[1] \in {"Boolean", "String", "Null"} -> val
      [] val[1] \in {"Array", "Object"} -> <<val[1], Each(convert, val[2])>>

\* Every value is written as an object of its tag and what it holds.
LEMMA JsonShape ==
    ASSUME NEW V, NEW val, IsValueOf(val, V), NEW f
    PROVE  LET json == JsonNode(val, f)
           IN  /\ json = <<"Object", json[2]>>
               /\ json[2]["t"] = <<"String", Tag[val[1]]>>
               /\ json[2]["v"] = JsonValue(val, f)
               /\ JsonValue(val, f) # None /\ json # None
<1> DEFINE members == [t |-> <<"String", Tag[val[1]]>>, v |-> JsonValue(val, f)]
<1>1. JsonNode(val, f) = <<"Object", Object(members)>> BY DEF JsonNode, JsonValue
<1>2. Object(members)["t"] = members["t"] /\ Object(members)["v"] = members["v"]
      BY NamesAssumption DEF Object
<1>3. JsonValue(val, f) # None
      BY DEF IsValueOf, JsonValue, None, IntVariants
<1>4. <<"Object", Object(members)>> # None BY DEF None
<1> HIDE DEF JsonValue
<1>5. QED BY <1>1, <1>2, <1>3, <1>4

LEMMA RoundTripStep ==
    ASSUME NEW n \in Nat, NEW v \in ValuesUpTo[n], NEW m \in Nat,
           JsonUpTo[n][v] \in TextsUpTo[m],
           \A i \in ValuesBelow(n) : \A l \in Nat :
               /\ JsonBelow(n)[i] # None
               /\ JsonBelow(n)[i] \in TextsUpTo[l] =>
                      KvsUpTo[l][JsonBelow(n)[i]] = RoundedBelow(n)[i]
    PROVE  KvsUpTo[m][JsonUpTo[n][v]] = RoundedUpTo[n][v]
<1> DEFINE V == ValuesBelow(n)
           J == TextsBelow(m)
           f == JsonBelow(n)
           g == KvsBelow(m)
           h == RoundedBelow(n)
           json == JsonNode(v, f)
           w == JsonValue(v, f)
<1>1. IsValueOf(v, V) BY ValueCases
<1>2. JsonUpTo[n][v] = json BY JsonIs DEF JsonStep
<1>3. RoundedUpTo[n][v] = RoundedNode(v, h) BY RoundedIs DEF RoundedStep
<1>4. KvsUpTo[m][json] = KvsNode(json, g) BY <1>2, KvsIs DEF KvsStep
<1>5. IsTextOf(json, J) BY <1>2, TextCases
<1>6. /\ json[1] = "Object" /\ json[2]["t"] = <<"String", Tag[v[1]]>>
      /\ json[2]["v"] = w /\ w # None
      BY <1>1, JsonShape
<1>7. IsTextOf(w, J)
  <2>1. json[2] \in Objects(J) BY <1>5, <1>6 DEF IsTextOf
  <2>2. w \in J BY <1>6, <2>1, NamesAssumption DEF Objects
  <2>3. QED BY <2>2, BelowCases
<1>8. SUFFICES KvsNode(json, g) = RoundedNode(v, h) BY <1>2, <1>3, <1>4
<1>9. v = <<v[1], v[2]>> BY <1>1 DEF IsValueOf
<1> HIDE DEF json, w
<1>10. CASE v[1] \in IntVariants
  <2> DEFINE T == Tag[v[1]]
  <2>1. T \in Wide /\ v[2] \in Ints(T) /\ Variant[T] = v[1] /\ Announced[T] = "Number"
        BY <1>1, <1>10 DEF IsValueOf, IntVariants, Tag, Wide, Variant, Announced
  <2>2. w = <<"Number", RoundTo64(v[2])>> BY <1>10 DEF w, JsonValue, IntVariants
  <2> HIDE DEF T
  <2>3. KvsNode(json, g) = <<v[1], CastToInt(T, RoundTo64(v[2]))>>
    <3>1. json[2]["t"] = <<"String", T>> BY <1>6 DEF T
    <3>2. T \in DOMAIN Announced BY <2>1 DEF Wide, Announced
    <3>3. QED BY <1>6, <2>1, <2>2, <3>1, <3>2 DEF KvsNode, Wide
  <2>4. CASE T \in {"i32", "u32"}
    <3>1. RoundTo64(v[2]) = v[2] /\ CastToInt(T, v[2]) = v[2] BY <2>1, <2>4, Exact32
    <3>2. v[1] \in {"I32", "U32"} BY <1>10, <2>4 DEF T, Tag, IntVariants
    <3>3. RoundedNode(v, h) = v BY <3>2 DEF RoundedNode
    <3>4. QED BY <1>9, <2>3, <3>1, <3>3
  <2>5. CASE T \in {"i64", "u64"}
    <3>1. CastToInt(T, RoundTo64(v[2])) = Round64(T, v[2]) BY <2>1, <2>5, Round64Facts
    <3>2. v[1] \in {"I64", "U64"} BY <1>10, <2>5 DEF T, Tag, IntVariants
    <3>3. RoundedNode(v, h) = <<v[1], Round64(T, v[2])>>
          BY <3>2 DEF RoundedNode, Round64, T
    <3>4. QED BY <2>3, <3>1, <3>3
  <2>6. QED BY <2>1, <2>4, <2>5 DEF Wide
<1>11. CASE v[1] = "F64"
  <2>1. w = <<"Number", v[2]>> BY <1>11 DEF w, JsonValue, IntVariants
  <2>2. json[2]["t"] = <<"String", "f64">> BY <1>6, <1>11 DEF Tag
  <2>3. KvsNode(json, g) = <<"F64", v[2]>> BY <1>6, <2>1, <2>2 DEF KvsNode, Announced
  <2>4. RoundedNode(v, h) = v BY <1>11 DEF RoundedNode
  <2>5. QED BY <1>9, <1>11, <2>3, <2>4
<1>12. CASE v[1] \in {"Boolean", "String", "Null"}
  <2>1. w = v BY <1>12 DEF w, JsonValue, IntVariants
  <2> DEFINE T == Tag[v[1]]
  <2>2. T \in {"bool", "str", "null"} /\ Announced[T] = v[1]
        BY <1>12 DEF Tag, Announced
  <2>3. json[2]["t"] = <<"String", T>> BY <1>6
  <2> HIDE DEF T
  <2>4. T \in DOMAIN Announced BY <2>2 DEF Announced
  <2>5. KvsNode(json, g) = v BY <1>6, <2>1, <2>2, <2>3, <2>4 DEF KvsNode
  <2>6. RoundedNode(v, h) = v BY <1>12 DEF RoundedNode
  <2>7. QED BY <2>5, <2>6
<1>13. CASE v[1] \in {"Array", "Object"}
  <2> DEFINE T == Tag[v[1]]
             x == v[2]
  <2>1. w = <<v[1], Each(f, x)>> BY <1>13 DEF w, JsonValue, IntVariants
  <2>2. T \in {"arr", "obj"} /\ Announced[T] = v[1] BY <1>13 DEF Tag, Announced
  <2>3. json[2]["t"] = <<"String", T>> BY <1>6
  <2> HIDE DEF T
  <2>4. T \in DOMAIN Announced BY <2>2 DEF Announced
  <2>5. KvsNode(json, g) = <<v[1], Each(g, Each(f, x))>>
        BY <1>6, <2>1, <2>2, <2>3, <2>4 DEF KvsNode
  <2>6. RoundedNode(v, h) = <<v[1], Each(h, x)>> BY <1>13 DEF RoundedNode
  <2>7. x \in Seq(V) \/ x \in Objects(V) BY <1>1, <1>13 DEF IsValueOf
  <2>8. Each(f, x) \in Seq(J) \/ Each(f, x) \in Objects(J)
        BY <1>7, <1>13, <2>1 DEF IsTextOf
  <2>9. ASSUME NEW i \in DOMAIN x, x[i] # None
        PROVE  f[x[i]] # None /\ g[f[x[i]]] = h[x[i]]
    <3>1. x[i] \in V BY <2>7, <2>9, Members
    <3>2. f[x[i]] # None BY <3>1
    <3>3. i \in DOMAIN Each(f, x) /\ Each(f, x)[i] = f[x[i]] BY <2>9 DEF Each
    <3>4. f[x[i]] \in J BY <2>8, <3>2, <3>3, Members
    <3>5. m # 0 /\ m - 1 \in Nat /\ J = TextsUpTo[m - 1] /\ g = KvsUpTo[m - 1]
          BY <3>4 DEF TextsBelow, KvsBelow
    <3>6. QED BY <3>1, <3>2, <3>4, <3>5
  <2> HIDE DEF f, g, h, x
  <2>10. Each(g, Each(f, x)) = Each(h, x) BY <2>9, EachEach
  <2>11. QED BY <2>5, <2>6, <2>10
<1>14. QED BY <1>1, <1>10, <1>11, <1>12, <1>13 DEF IsValueOf, IntVariants

\* A value that can be written is read back, with its 64-bit integers rounded.
LEMMA RoundTrip ==
    \A n \in Nat : \A v \in ValuesUpTo[n] : \A m \in Nat :
        /\ JsonUpTo[n][v] # None
        /\ JsonUpTo[n][v] \in TextsUpTo[m] =>
               KvsUpTo[m][JsonUpTo[n][v]] = RoundedUpTo[n][v]
<1> DEFINE S == {n \in Nat : \A v \in ValuesUpTo[n] : \A m \in Nat :
                     /\ JsonUpTo[n][v] # None
                     /\ JsonUpTo[n][v] \in TextsUpTo[m] =>
                            KvsUpTo[m][JsonUpTo[n][v]] = RoundedUpTo[n][v]}
<1>1. \A n \in Nat : \A v \in ValuesUpTo[n] : JsonUpTo[n][v] # None
  <2>1. SUFFICES ASSUME NEW n \in Nat, NEW v \in ValuesUpTo[n]
                 PROVE  JsonUpTo[n][v] # None
        OBVIOUS
  <2>2. IsValueOf(v, ValuesBelow(n)) BY ValueCases
  <2>3. JsonUpTo[n][v] = JsonNode(v, JsonBelow(n)) BY JsonIs DEF JsonStep
  <2>4. QED BY <2>2, <2>3, JsonShape
<1>2. 0 \in S
  <2>1. ValuesBelow(0) = {} BY DEF ValuesBelow
  <2>2. QED BY <1>1, <2>1, RoundTripStep
<1>3. ASSUME NEW n \in Nat, n \in S PROVE n + 1 \in S
  <2>1. /\ n + 1 \in Nat /\ ValuesBelow(n + 1) = ValuesUpTo[n]
        /\ JsonBelow(n + 1) = JsonUpTo[n] /\ RoundedBelow(n + 1) = RoundedUpTo[n]
        BY DEF ValuesBelow, JsonBelow, RoundedBelow
  <2>2. QED BY <1>1, <1>3, <2>1, RoundTripStep
<1>4. Nat \subseteq S
  <2> HIDE DEF S
  <2>1. QED BY <1>2, <1>3, TextsRec!SetInduction
<1>5. QED BY <1>4

LEMMA BelowIsValue == \A n \in Nat : ValuesBelow(n) \subseteq ValuesUpTo[n]
<1> DEFINE S == {n \in Nat : ValuesBelow(n) \subseteq ValuesUpTo[n]}
<1>1. 0 \in S BY DEF ValuesBelow
<1>2. ASSUME NEW n \in Nat, n \in S PROVE n + 1 \in S
  <2>1. ValuesBelow(n + 1) = ValuesUpTo[n] /\ n + 1 \in Nat BY DEF ValuesBelow
  <2>2. ValuesBelow(n) \subseteq ValuesBelow(n + 1) BY <1>2, <2>1
  <2>3. \A v \in ValuesUpTo[n] : IsValueOf(v, ValuesBelow(n + 1))
        BY <2>2, ValueCases, NestedMono
  <2>4. \A v \in ValuesUpTo[n] : v \in ValuesUpTo[n + 1] BY <2>1, <2>3, ValueCases
  <2>5. QED BY <2>1, <2>4
<1>3. Nat \subseteq S
  <2> HIDE DEF S
  <2>1. QED BY <1>1, <1>2, TextsRec!SetInduction
<1>4. QED BY <1>3

LEMMA Depths ==
    /\ Depth \in Nat /\ Depth + 1 \in Nat /\ TextDepth \in Nat
    /\ ValuesBelow(Depth + 1) = Values /\ RoundedBelow(Depth + 1) = RoundedUpTo[Depth]
  BY DepthAssumption DEF TextDepth, ValuesBelow, RoundedBelow, Values

\* A map that can be saved is loaded as it was, with its 64-bit integers rounded.
LEMMA SaveLoads ==
    ASSUME NEW m \in Objects(Values), ~IsErr(Save(m))
    PROVE  Save(m) \in Texts /\ Load(Save(m)) = <<"Ok", Each(RoundedUpTo[Depth], m)>>
<1> DEFINE v == <<"Object", m>>
           json == JsonUpTo[Depth + 1][v]
<1>1. Save(m) = json /\ json \in Texts
      BY DEF Save, Stringify, IsErr, Err
<1>2. v \in ValuesUpTo[Depth + 1]
  <2>1. IsValueOf(v, ValuesBelow(Depth + 1)) BY Depths DEF IsValueOf
  <2>2. QED BY <2>1, Depths, ValueCases
<1>3. KvsUpTo[TextDepth][json] = RoundedUpTo[Depth + 1][v]
      BY <1>1, <1>2, Depths, RoundTrip DEF Texts
<1>4. RoundedUpTo[Depth + 1][v] = RoundedNode(v, RoundedUpTo[Depth])
  <2>1. RoundedUpTo[Depth + 1] = RoundedStep(Depth + 1, RoundedUpTo[Depth])
        BY Depths, RoundedIs
  <2>2. QED BY <1>2, <2>1 DEF RoundedStep
<1>5. RoundedNode(v, RoundedUpTo[Depth]) = <<"Object", Each(RoundedUpTo[Depth], m)>>
      BY DEF RoundedNode
<1> HIDE DEF v, json
<1>6. QED BY <1>1, <1>3, <1>4, <1>5 DEF Load

\* What is loaded is a map of values, whoever wrote the text.
LEMMA LoadTyped ==
    ASSUME NEW j \in Texts, ~IsErr(Load(j))
    PROVE  Load(j) = <<"Ok", Load(j)[2]>> /\ Load(j)[2] \in Objects(ValuesUpTo[TextDepth])
<1> DEFINE v == KvsUpTo[TextDepth][j]
<1>1. v \in ValuesUpTo[TextDepth] BY Depths, KvsTyped DEF Texts
<1>2. IsValueOf(v, ValuesBelow(TextDepth)) BY <1>1, Depths, ValueCases
<1> HIDE DEF v
<1>3. v[1] = "Object" /\ Load(j) = <<"Ok", v[2]>> BY DEF Load, v, IsErr, Err
<1>4. v[2] \in Objects(ValuesBelow(TextDepth)) BY <1>2, <1>3 DEF IsValueOf
<1>5. Objects(ValuesBelow(TextDepth)) \subseteq Objects(ValuesUpTo[TextDepth])
      BY Depths, BelowIsValue, NestedMono
<1>6. QED BY <1>3, <1>4, <1>5

LEMMA RoundedIsValue ==
    \A v \in Values : Rounded(v) \in Values /\ Rounded(Rounded(v)) = Rounded(v)
  BY Depths, RoundedFacts DEF Rounded, Values

LEMMA NoneIsNoValue == None \notin Values
  BY Depths, NoneIsNothing DEF Values

-----------------------------------------------------------------------------
(* What can be saved *)

\* The values without an infinity or NaN, however deep.
FiniteStep(n, below) == ValuesStep(n, below) \ ({"F64"} \X {Infinity, NaN})
FiniteUpTo[n \in Nat] == FiniteStep(n, IF n = 0 THEN {} ELSE FiniteUpTo[n - 1])
FiniteBelow(n) == IF n = 0 THEN {} ELSE FiniteUpTo[n - 1]

FiniteRec == INSTANCE NatRecursion WITH First <- {}, Step <- FiniteStep

LEMMA FiniteCases ==
    \A n \in Nat : \A v : v \in FiniteUpTo[n] =>
        IsValueOf(v, FiniteBelow(n)) /\ (v[1] = "F64" => IsFinite(v[2]))
<1>1. FiniteUpTo = FiniteRec!f BY DEF FiniteUpTo, FiniteRec!f
<1>2. FiniteUpTo = [n \in Nat |-> FiniteStep(n, IF n = 0 THEN {} ELSE FiniteUpTo[n - 1])]
      BY <1>1, FiniteRec!Recursion
<1>3. SUFFICES ASSUME NEW n \in Nat, NEW v \in FiniteUpTo[n]
               PROVE  IsValueOf(v, FiniteBelow(n)) /\ (v[1] = "F64" => IsFinite(v[2]))
      OBVIOUS
<1>4. v \in ValuesStep(n, FiniteBelow(n)) /\ v \notin {"F64"} \X {Infinity, NaN}
      BY <1>2 DEF FiniteBelow, FiniteStep
<1>5. IsValueOf(v, FiniteBelow(n))
      BY <1>4 DEF ValuesStep, Plain, Nested, Null, IsValueOf
<1>6. QED BY <1>4, <1>5 DEF IsValueOf, IsFinite

\* The number an integer is written as is finite.
LEMMA NumbersFinite ==
    \A T \in Wide : \A x \in Ints(T) : RoundTo64(x) \in Int \ {Infinity, NaN}
<1>1. SUFFICES ASSUME NEW T \in Wide, NEW x \in Ints(T)
               PROVE  RoundTo64(x) \in Int /\ RoundTo64(x) # Infinity /\ RoundTo64(x) # NaN
      OBVIOUS
<1>2. CASE T \in {"i64", "u64"}
      BY <1>2, RoundingAssumption DEF Ints, IsFinite
<1>3. CASE T \in {"i32", "u32"}
  <2>1. T \in IntTypes BY <1>3 DEF IntTypes, Signed, Unsigned
  <2>2. /\ Lowest[T] \in Int /\ Highest[T] \in Int /\ Infinity \in Int /\ NaN \in Int
        /\ Infinity > Highest[T] /\ NaN > Highest[T]
        BY <2>1, RangeAssumption
  <2>3. RoundTo64(x) = x BY <1>3, Exact32
  <2>4. x \in Int /\ x <= Highest[T] BY <2>2 DEF Ints
  <2>5. QED BY <2>2, <2>3, <2>4
<1>4. QED BY <1>2, <1>3 DEF Wide

LEMMA FiniteStepSaved ==
    ASSUME NEW n \in Nat, NEW v \in FiniteUpTo[n], FiniteBelow(n) \subseteq ValuesBelow(n),
           \A i \in FiniteBelow(n) : JsonBelow(n)[i] \in TextsBelow(2 * n)
    PROVE  v \in ValuesUpTo[n] /\ JsonUpTo[n][v] \in TextsUpTo[2 * n + 1]
<1> DEFINE V == FiniteBelow(n)
           J == TextsBelow(2 * n)
           f == JsonBelow(n)
           w == JsonValue(v, f)
           json == JsonNode(v, f)
<1>1. IsValueOf(v, V) /\ (v[1] = "F64" => IsFinite(v[2])) BY FiniteCases
<1>2. v \in ValuesUpTo[n]
  <2>1. IsValueOf(v, ValuesBelow(n)) BY <1>1, NestedMono
  <2>2. QED BY <2>1, ValueCases
<1>3. JsonUpTo[n][v] = json BY <1>2, JsonIs DEF JsonStep
<1>4. None \notin V BY NoneIsNothing
<1>5. 2 * n \in Nat /\ 2 * n + 1 \in Nat /\ TextsBelow(2 * n + 1) = TextsUpTo[2 * n]
      BY DEF TextsBelow
<1>6. IsTextOf(w, J)
  <2> HIDE DEF V, J, f
  <2>1. CASE v[1] \in IntVariants
    <3>1. w = <<"Number", RoundTo64(v[2])>> BY <2>1 DEF JsonValue, IntVariants
    <3>2. v[2] \in Ints(Tag[v[1]]) /\ Tag[v[1]] \in Wide
          BY <1>1, <2>1 DEF IsValueOf, IntVariants, Tag, Wide
    <3>3. RoundTo64(v[2]) \in Int \ {Infinity, NaN} BY <3>2, NumbersFinite
    <3>4. QED BY <3>1, <3>3 DEF IsTextOf
  <2>2. CASE v[1] = "F64"
    <3>1. w = <<"Number", v[2]>> BY <2>2 DEF JsonValue, IntVariants
    <3>2. v[2] \in Int \ {Infinity, NaN} BY <1>1, <2>2 DEF IsValueOf, IsFinite
    <3>3. QED BY <3>1, <3>2 DEF IsTextOf
  <2>3. CASE v[1] \in {"Boolean", "String", "Null"}
    <3>1. w = v BY <2>3 DEF JsonValue, IntVariants
    <3>2. QED BY <1>1, <2>3, <3>1 DEF IsValueOf, IsTextOf
  <2>4. CASE v[1] \in {"Array", "Object"}
    <3>1. w = <<v[1], Each(f, v[2])>> BY <2>4 DEF JsonValue, IntVariants
    <3>2. \/ v[1] = "Array" /\ v[2] \in Seq(V)
          \/ v[1] = "Object" /\ v[2] \in Objects(V)
          BY <1>1, <2>4 DEF IsValueOf
    <3>3. \A i \in DOMAIN v[2] : v[2][i] # None => v[2][i] \in V BY <3>2, Members
    <3>4. \A i \in DOMAIN v[2] : v[2][i] # None => f[v[2][i]] \in J
          BY <3>3 DEF V, J, f
    <3>5. \/ v[1] = "Array" /\ Each(f, v[2]) \in Seq(J)
          \/ v[1] = "Object" /\ Each(f, v[2]) \in Objects(J)
          BY <1>4, <3>2, <3>4, EachTyped
    <3>6. QED BY <3>1, <3>5 DEF IsTextOf
  <2>5. QED BY <1>1, <2>1, <2>2, <2>3, <2>4 DEF IsValueOf, IntVariants
<1>7. w \in TextsUpTo[2 * n] BY <1>5, <1>6, TextCases
<1>8. <<"String", Tag[v[1]]>> \in TextsUpTo[2 * n]
  <2>1. v[1] \in DOMAIN Tag BY <1>1 DEF IsValueOf, Tag
  <2>2. IsTextOf(<<"String", Tag[v[1]]>>, J) BY <2>1, TagAssumption DEF IsTextOf
  <2>3. QED BY <1>5, <2>2, TextCases
<1>9. json \in TextsUpTo[2 * n + 1]
  <2>1. json = <<"Object", Object([t |-> <<"String", Tag[v[1]]>>, v |-> w])>>
        BY DEF JsonNode, JsonValue
  <2> HIDE DEF w, json
  <2>2. Object([t |-> <<"String", Tag[v[1]]>>, v |-> w]) \in Objects(TextsUpTo[2 * n])
        BY <1>7, <1>8 DEF Object, Objects
  <2>3. IsTextOf(json, TextsBelow(2 * n + 1)) BY <1>5, <2>1, <2>2 DEF IsTextOf
  <2>4. QED BY <1>5, <2>3, TextCases
<1>10. QED BY <1>2, <1>3, <1>9

LEMMA FiniteIsSaved ==
    \A n \in Nat : \A v \in FiniteUpTo[n] :
        v \in ValuesUpTo[n] /\ JsonUpTo[n][v] \in TextsUpTo[2 * n + 1]
<1> DEFINE S == {n \in Nat : \A v \in FiniteUpTo[n] :
                     v \in ValuesUpTo[n] /\ JsonUpTo[n][v] \in TextsUpTo[2 * n + 1]}
<1>1. 0 \in S
  <2>1. FiniteBelow(0) = {} BY DEF FiniteBelow
  <2>2. QED BY <2>1, FiniteStepSaved
<1>2. ASSUME NEW n \in Nat, n \in S PROVE n + 1 \in S
  <2>1. /\ n + 1 \in Nat /\ FiniteBelow(n + 1) = FiniteUpTo[n]
        /\ ValuesBelow(n + 1) = ValuesUpTo[n] /\ JsonBelow(n + 1) = JsonUpTo[n]
        BY DEF FiniteBelow, ValuesBelow, JsonBelow
  <2>2. TextsBelow(2 * (n + 1)) = TextsUpTo[2 * n + 1]
    <3>1. 2 * (n + 1) # 0 /\ 2 * (n + 1) - 1 = 2 * n + 1 OBVIOUS
    <3>2. QED BY <3>1 DEF TextsBelow
  <2>3. QED BY <1>2, <2>1, <2>2, FiniteStepSaved
<1>3. Nat \subseteq S
  <2> HIDE DEF S
  <2>1. QED BY <1>1, <1>2, TextsRec!SetInduction
<1>4. QED BY <1>3

-----------------------------------------------------------------------------
(* What is serialized is deserialized again *)

LEMMA TypesOf ==
    /\ \A T \in NativeTypes : StoredAs(T) \in KvsTypes /\ T \notin {"Point", "IpAddr", "Example"}
    /\ \A T \in KvsTypes : Variant[T] \notin {"Err", "None"}
    /\ \A T \in {"isize", "usize"} : T \in IntTypes /\ T \in NativeTypes
  BY DEF NativeTypes, StoredAs, KvsTypes, Variant, Stored, IntTypes, Signed, Unsigned

LEMMA PlainRoundTrip ==
    ASSUME NEW T \in NativeTypes, NEW x, IsNative(T, x), ~IsErr(ToKvs(T, x))
    PROVE  /\ ToKvs(T, x) = <<Variant[StoredAs(T)], x>>
           /\ FromKvs(T, ToKvs(T, x)) = <<"Ok", x>>
<1>1. ToKvs(T, x) = <<Variant[StoredAs(T)], x>> BY DEF ToKvs, IsErr, Err, From
<1>2. TryFrom(StoredAs(T), <<Variant[StoredAs(T)], x>>) = <<"Ok", x>> BY DEF TryFrom
<1>3. ~IsErr(<<"Ok", x>>) BY DEF IsErr
<1>4. T \in IntTypes => Fits(T, x) BY RangeAssumption DEF IsNative, Ints, Fits
<1>5. T = "f32" => RoundTo32(x) = x BY DEF IsNative
<1>6. FromKvs(T, <<Variant[StoredAs(T)], x>>) = <<"Ok", x>>
      BY <1>2, <1>3, <1>4, <1>5 DEF FromKvs
<1>7. QED BY <1>1, <1>6

LEMMA AddressRoundTrip ==
    ASSUME NEW a \in DOMAIN AddressText
    PROVE  AddressFromKvs(AddressToKvs(a)) = <<"Ok", a>>
<1>1. FromKvs("String", AddressToKvs(a)) = <<"Ok", AddressText[a]>>
      BY DEF FromKvs, AddressToKvs, From, TryFrom, StoredAs, Stored, IsErr, IntTypes, Signed,
             Unsigned, Variant
<1> DEFINE text == FromKvs("String", AddressToKvs(a))
<1>2. ~IsErr(text) /\ text[2] = AddressText[a] BY <1>1 DEF IsErr
<1> HIDE DEF text
<1>3. (CHOOSE b \in DOMAIN AddressText : AddressText[b] = text[2]) = a
      BY <1>2, AddressTextAssumption
<1>4. \E b \in DOMAIN AddressText : AddressText[b] = text[2] BY <1>2
<1>5. QED BY <1>2, <1>3, <1>4 DEF AddressFromKvs, text

\* A struct comes back if each of its fields does.
LEMMA StructRoundTrip ==
    ASSUME NEW names \in SUBSET Names, NEW fields, NEW back, NEW x,
           DOMAIN fields = names, x = [f \in names |-> x[f]],
           ~IsErr(StructToKvs(fields)),
           \A f \in names : ~IsErr(fields[f]) => fields[f] # None,
           \A f \in names : ~IsErr(fields[f]) /\ Member(StructToKvs(fields), f) = fields[f]
                              => back[f] = <<"Ok", x[f]>>
    PROVE  /\ StructToKvs(fields) = <<"Object", Object(fields)>>
           /\ \A f \in names : ~IsErr(fields[f])
           /\ StructFromKvs(StructToKvs(fields), names, back) = <<"Ok", x>>
<1> DEFINE obj == Object(fields)
<1>1. /\ StructToKvs(fields) = <<"Object", obj>>
      /\ \A f \in names : ~IsErr(fields[f])
      BY DEF StructToKvs, IsErr, Err, From, Variant
<1>2. FromKvs("KvsMap", <<"Object", obj>>) = <<"Ok", obj>>
      BY DEF FromKvs, From, TryFrom, StoredAs, Stored, IsErr, IntTypes, Signed, Unsigned, Variant
<1>3. \A f \in names : obj[f] = fields[f] BY DEF Object
<1>4. names \subseteq KeysOf(obj) BY <1>1, <1>3 DEF KeysOf
<1> DEFINE v == <<"Object", obj>>
           r == FromKvs("KvsMap", v)
<1>5. ~IsErr(r) /\ r[2] = obj BY <1>2 DEF IsErr
<1>6. StructToKvs(fields) = v /\ v = <<"Object", Object(fields)>> BY <1>1
<1> HIDE DEF obj, v
<1>7. \A f \in names : Member(v, f) = fields[f] BY <1>3, <1>5 DEF Member
<1>8. \A f \in names : back[f] = <<"Ok", x[f]>> BY <1>1, <1>6, <1>7
<1>9. \A f \in names : ~IsErr(back[f]) /\ back[f][2] = x[f] BY <1>8 DEF IsErr
<1>10. [f \in names |-> back[f][2]] = x BY <1>9
<1>11. StructFromKvs(v, names, back) = <<"Ok", x>>
  <2>1. StructFromKvs(v, names, back) = <<"Ok", [f \in names |-> back[f][2]]>>
        BY <1>4, <1>5, <1>9, Zenon DEF StructFromKvs
  <2>2. QED BY <1>10, <2>1, Zenon
<1>12. QED BY <1>1, <1>6, <1>11, Zenon

LEMMA FieldTypes ==
    /\ DOMAIN PointFields = {"x", "y"} /\ DOMAIN PointFields \subseteq Names
    /\ \A f \in DOMAIN PointFields : PointFields[f] \in NativeTypes
    /\ DOMAIN ExampleFields \subseteq Names /\ "i32" \in DOMAIN ExampleFields
    /\ ExampleFields["i32"] = "i32"
    /\ \A f \in DOMAIN ExampleFields : ExampleFields[f] \in NativeTypes \cup {"Point", "IpAddr"}
<1>1. DOMAIN PointFields = {"x", "y"} BY DEF PointFields
<1>2. \A f \in {"x", "y"} : PointFields[f] = "f64" BY DEF PointFields
<1>3. "f64" \in NativeTypes BY DEF NativeTypes, KvsTypes, Variant
<1>4. "i32" \in DOMAIN ExampleFields /\ ExampleFields["i32"] = "i32" BY DEF ExampleFields
<1>5. \A f \in DOMAIN ExampleFields : ExampleFields[f] \in
          {"i32", "u32", "i64", "u64", "f64", "bool", "String", "Vec", "KvsMap", "u8", "Point",
           "IpAddr"}
      BY DEF ExampleFields
<1>6. {"i32", "u32", "i64", "u64", "f64", "bool", "String", "Vec", "KvsMap", "u8"}
          \subseteq NativeTypes
      BY DEF NativeTypes, KvsTypes, Variant, Stored
<1>7. QED BY <1>1, <1>2, <1>3, <1>4, <1>5, <1>6, FieldsAssumption

LEMMA PointRoundTrip ==
    ASSUME NEW p, IsNative("Point", p), ~IsErr(PointToKvs(p))
    PROVE  PointToKvs(p)[1] = "Object" /\ PointFromKvs(PointToKvs(p)) = <<"Ok", p>>
<1> DEFINE names == DOMAIN PointFields
           fields == [f \in names |-> ToKvs(PointFields[f], p[f])]
           back == [f \in names |-> FromKvs(PointFields[f], Member(PointToKvs(p), f))]
<1>1. PointToKvs(p) = StructToKvs(fields) BY DEF PointToKvs
<1>2. PointFromKvs(PointToKvs(p)) = StructFromKvs(PointToKvs(p), names, back)
      BY DEF PointFromKvs
<1>3. p = [f \in names |-> p[f]] BY DEF IsNative
<1>4. ASSUME NEW f \in names, ~IsErr(fields[f])
      PROVE  fields[f] # None /\ FromKvs(PointFields[f], fields[f]) = <<"Ok", p[f]>>
  <2>1. fields[f] = ToKvs("f64", p[f]) /\ PointFields[f] = "f64" BY FieldTypes DEF PointFields
  <2>2. IsNative("f64", p[f]) BY DEF IsNative, IntTypes, Signed, Unsigned
  <2>3. "f64" \in NativeTypes BY DEF NativeTypes, KvsTypes, Variant
  <2>4. /\ ToKvs("f64", p[f]) = <<Variant[StoredAs("f64")], p[f]>>
        /\ FromKvs("f64", ToKvs("f64", p[f])) = <<"Ok", p[f]>>
        BY <1>4, <2>1, <2>2, <2>3, PlainRoundTrip
  <2>5. Variant[StoredAs("f64")] # "None" BY <2>3, TypesOf
  <2>6. QED BY <2>1, <2>4, <2>5 DEF None
<1>5. \A f \in names : ~IsErr(fields[f]) /\ Member(StructToKvs(fields), f) = fields[f]
          => back[f] = <<"Ok", p[f]>>
      BY <1>1, <1>4
<1>6. DOMAIN fields = names /\ names \in SUBSET Names /\ ~IsErr(StructToKvs(fields))
      BY <1>1, FieldTypes
<1> HIDE DEF names, fields, back
<1>7. /\ StructToKvs(fields) = <<"Object", Object(fields)>>
      /\ StructFromKvs(StructToKvs(fields), names, back) = <<"Ok", p>>
      BY <1>3, <1>4, <1>5, <1>6, StructRoundTrip
<1>8. QED BY <1>1, <1>2, <1>7

LEMMA FieldRoundTrip ==
    ASSUME NEW T \in NativeTypes \cup {"Point", "IpAddr"}, NEW x, IsNative(T, x),
           ~IsErr(FieldToKvs(T, x))
    PROVE  FieldToKvs(T, x) # None /\ FieldFromKvs(T, FieldToKvs(T, x)) = <<"Ok", x>>
<1>1. CASE T = "Point"
  <2>1. FieldToKvs(T, x) = PointToKvs(x) BY <1>1 DEF FieldToKvs
  <2>2. PointToKvs(x)[1] = "Object" /\ PointFromKvs(PointToKvs(x)) = <<"Ok", x>>
        BY <1>1, <2>1, PointRoundTrip
  <2>3. QED BY <1>1, <2>1, <2>2 DEF FieldFromKvs, None
<1>2. CASE T = "IpAddr"
  <2>1. FieldToKvs(T, x) = AddressToKvs(x) BY <1>2 DEF FieldToKvs
  <2>2. x \in DOMAIN AddressText BY <1>2 DEF IsNative
  <2>3. AddressFromKvs(AddressToKvs(x)) = <<"Ok", x>> BY <2>2, AddressRoundTrip
  <2>4. AddressToKvs(x)[1] = "String" BY DEF AddressToKvs, From, Variant
  <2>5. QED BY <1>2, <2>1, <2>3, <2>4 DEF FieldFromKvs, None
<1>3. CASE T \in NativeTypes
  <2>1. T \notin {"Point", "IpAddr"} BY <1>3, TypesOf
  <2>2. FieldToKvs(T, x) = ToKvs(T, x) /\ FieldFromKvs(T, ToKvs(T, x)) = FromKvs(T, ToKvs(T, x))
        BY <2>1 DEF FieldToKvs, FieldFromKvs
  <2>3. /\ ToKvs(T, x) = <<Variant[StoredAs(T)], x>>
        /\ FromKvs(T, ToKvs(T, x)) = <<"Ok", x>>
        BY <1>3, <2>2, PlainRoundTrip
  <2>4. Variant[StoredAs(T)] # "None" BY <1>3, TypesOf
  <2>5. QED BY <2>2, <2>3, <2>4 DEF None
<1>4. QED BY <1>1, <1>2, <1>3

\* A native value of a type an application may set.
IsNativeValue(T, x) ==
    /\ T \in NativeTypes \cup {"Point", "IpAddr", "Example"}
    /\ IsNative(T, x)
    /\ T = "Example" =>
          /\ x = [f \in DOMAIN ExampleFields |-> x[f]]
          /\ \A f \in DOMAIN ExampleFields : IsNative(ExampleFields[f], x[f])

ExampleToFields(e) == [f \in DOMAIN ExampleFields |-> FieldToKvs(ExampleFields[f], e[f])]

LEMMA ExampleRoundTrip ==
    ASSUME NEW e, IsNativeValue("Example", e), ~IsErr(ExampleToKvs(e))
    PROVE  /\ ExampleToKvs(e) = <<"Object", Object(ExampleToFields(e))>>
           /\ \A f \in DOMAIN ExampleFields : ~IsErr(ExampleToFields(e)[f])
           /\ ExampleFromKvs(ExampleToKvs(e)) = <<"Ok", e>>
<1> DEFINE names == DOMAIN ExampleFields
           fields == ExampleToFields(e)
           back == [f \in names |-> FieldFromKvs(ExampleFields[f], Member(ExampleToKvs(e), f))]
<1>1. ExampleToKvs(e) = StructToKvs(fields) BY DEF ExampleToKvs, ExampleToFields
<1>2. ExampleFromKvs(ExampleToKvs(e)) = StructFromKvs(ExampleToKvs(e), names, back)
      BY DEF ExampleFromKvs
<1>3. e = [f \in names |-> e[f]] BY DEF IsNativeValue
<1>4. ASSUME NEW f \in names, ~IsErr(fields[f])
      PROVE  fields[f] # None /\ FieldFromKvs(ExampleFields[f], fields[f]) = <<"Ok", e[f]>>
  <2>1. fields[f] = FieldToKvs(ExampleFields[f], e[f]) BY DEF ExampleToFields
  <2>2. IsNative(ExampleFields[f], e[f]) BY DEF IsNativeValue
  <2>3. QED BY <1>4, <2>1, <2>2, FieldTypes, FieldRoundTrip
<1>5. \A f \in names : ~IsErr(fields[f]) /\ Member(StructToKvs(fields), f) = fields[f]
          => back[f] = <<"Ok", e[f]>>
      BY <1>1, <1>4
<1>6. DOMAIN fields = names /\ names \in SUBSET Names /\ ~IsErr(StructToKvs(fields))
      BY <1>1, FieldTypes DEF ExampleToFields
<1> HIDE DEF names, fields, back
<1>7. /\ StructToKvs(fields) = <<"Object", Object(fields)>>
      /\ \A f \in names : ~IsErr(fields[f])
      /\ StructFromKvs(StructToKvs(fields), names, back) = <<"Ok", e>>
      BY <1>3, <1>4, <1>5, <1>6, StructRoundTrip
<1>8. QED BY <1>1, <1>2, <1>7 DEF fields, names

\* Whatever is set is read back as it was set.
THEOREM Deserialized ==
    ASSUME NEW T, NEW x, IsNativeValue(T, x), ~IsErr(Serialize(T, x))
    PROVE  Deserialize(T, Serialize(T, x)) = <<"Ok", x>>
<1>1. CASE T = "Example"
      BY <1>1, ExampleRoundTrip DEF Serialize, Deserialize
<1>2. CASE T # "Example"
  <2>1. T \in NativeTypes \cup {"Point", "IpAddr"} /\ IsNative(T, x)
        BY <1>2 DEF IsNativeValue
  <2>2. Serialize(T, x) = FieldToKvs(T, x) BY <1>2 DEF Serialize
  <2>3. FieldFromKvs(T, FieldToKvs(T, x)) = <<"Ok", x>> BY <2>1, <2>2, FieldRoundTrip
  <2>4. QED BY <1>2, <2>2, <2>3 DEF Deserialize
<1>3. QED BY <1>1, <1>2

-----------------------------------------------------------------------------
(* The inductive invariant *)

\* What a key may have been set from.
SourceOK(s) ==
    \/ s[1] = "payload" /\ s[2] \in Payloads
    \/ IsNativeValue(s[1], s[2]) /\ Serialize(s[1], s[2]) \in Values
SourcesOK(src) ==
    /\ src = [k \in Names |-> src[k]]
    /\ \A k \in KeysOf(src) : SourceOK(src[k])

\* The map that is loaded when one that was set from src was saved.
AsSaved(src) ==
    [k \in Names |-> IF src[k] = None THEN None ELSE Rounded(Original(src[k]))]

\* The file is that of a map that was set from src.
FileIs(f, src) ==
    /\ SourcesOK(src)
    /\ \/ f = Missing /\ src = Empty
       \/ f \in Texts /\ Load(f) = <<"Ok", AsSaved(src)>>

\* m was set from src, the keys in from after they were saved and loaded.
MapIs(m, src, from) ==
    /\ m \in Objects(Values)
    /\ SourcesOK(src) /\ KeysOf(src) = KeysOf(m) /\ from \subseteq KeysOf(m)
    /\ \A k \in KeysOf(m) :
          m[k] = IF k \in from THEN Rounded(Original(src[k])) ELSE Original(src[k])

Mocked == synced => mock = map /\ defaults = Empty /\ ~fail

Inv ==
    /\ MapIs(map, source, loaded)
    /\ defaults \in Objects(ValuesUpTo[TextDepth])
    /\ FileIs(file, saved)
    /\ Mocked

LEMMA EmptyFacts ==
    /\ Empty = [k \in Names |-> None] /\ KeysOf(Empty) = {}
    /\ \A V : Empty \in Objects(V)
    /\ SourcesOK(Empty) /\ AsSaved(Empty) = Empty
<1>1. Empty = [k \in Names |-> None] BY DEF Empty, Object
<1>2. KeysOf(Empty) = {} BY <1>1 DEF KeysOf
<1>3. \A V : Empty \in Objects(V) BY <1>1 DEF Objects
<1>4. SourcesOK(Empty) BY <1>1, <1>2 DEF SourcesOK
<1>5. AsSaved(Empty) = Empty BY <1>1 DEF AsSaved
<1>6. QED BY <1>1, <1>2, <1>3, <1>4, <1>5

LEMMA OriginalIsValue ==
    ASSUME NEW s, SourceOK(s)
    PROVE  Original(s) \in Values /\ Original(s) # None /\ Rounded(Original(s)) # None
<1>1. Original(s) \in Values
  <2>1. CASE s[1] = "payload" /\ s[2] \in Payloads
    <3>1. Original(s) = TinyUpTo[Depth][s[2]] BY <2>1 DEF Original, FromTinyjson
    <3>2. s[2] \in TextsUpTo[Depth] BY <2>1, FilesAssumption
    <3>3. QED BY <3>1, <3>2, Depths, TinyTyped DEF Values
  <2>2. CASE IsNativeValue(s[1], s[2]) /\ Serialize(s[1], s[2]) \in Values
    <3>1. s[1] # "payload"
          BY <2>2 DEF IsNativeValue, NativeTypes, KvsTypes, Variant, Stored
    <3>2. QED BY <2>2, <3>1 DEF Original
  <2>3. QED BY <2>1, <2>2 DEF SourceOK
<1>2. QED BY <1>1, NoneIsNoValue, RoundedIsValue

LEMMA ValueIsNoError == \A v \in Values : ~IsErr(v)
<1>1. \A v \in Values : IsValueOf(v, ValuesBelow(Depth)) BY Depths, ValueCases DEF Values
<1>2. QED BY <1>1 DEF IsValueOf, IsErr

LEMMA AsSavedIs ==
    ASSUME NEW src, SourcesOK(src)
    PROVE  MapIs(AsSaved(src), src, KeysOf(src))
<1>1. \A k \in KeysOf(src) :
          /\ AsSaved(src)[k] = Rounded(Original(src[k]))
          /\ Rounded(Original(src[k])) \in Values /\ Rounded(Original(src[k])) # None
  <2>1. ASSUME NEW k \in KeysOf(src)
        PROVE  /\ AsSaved(src)[k] = Rounded(Original(src[k]))
               /\ Rounded(Original(src[k])) \in Values /\ Rounded(Original(src[k])) # None
    <3>1. SourceOK(src[k]) /\ k \in Names /\ src[k] # None BY DEF SourcesOK, KeysOf
    <3>2. QED BY <3>1, OriginalIsValue, RoundedIsValue DEF AsSaved
  <2>2. QED BY <2>1
<1>2. \A k \in Names : k \notin KeysOf(src) => AsSaved(src)[k] = None
      BY DEF KeysOf, AsSaved
<1>3. AsSaved(src) = [k \in Names |-> AsSaved(src)[k]] BY DEF AsSaved
<1>4. KeysOf(AsSaved(src)) = KeysOf(src) BY <1>1, <1>2 DEF KeysOf
<1>5. AsSaved(src) \in Objects(Values)
  <2>1. \A k \in Names : AsSaved(src)[k] \in Values \cup {None} BY <1>1, <1>2
  <2>2. QED BY <1>3, <2>1 DEF Objects
<1>6. QED BY <1>1, <1>4, <1>5 DEF MapIs

\* What is loaded from the file is what was saved.
LEMMA LoadedIs ==
    ASSUME NEW f, NEW src, FileIs(f, src)
    PROVE  Loaded(f) = <<"Ok", AsSaved(src)>>
  BY EmptyFacts, FilesAssumption DEF FileIs, Loaded

\* A flush of a map leaves a file of it, or none, or the one there was.
LEMMA WriteFacts ==
    ASSUME NEW m, NEW src, NEW from, MapIs(m, src, from), Write(m, src),
           FileIs(file, saved)
    PROVE  FileIs(file', saved')
<1>1. CASE IsErr(Save(m)) /\ file' = Missing /\ saved' = Empty
      BY <1>1, EmptyFacts DEF FileIs
<1>2. CASE ~IsErr(Save(m)) /\ file' = Save(m) /\ saved' = src
  <2>1. m \in Objects(Values) /\ SourcesOK(src) /\ KeysOf(src) = KeysOf(m) BY DEF MapIs
  <2>2. file' \in Texts /\ Load(file') = <<"Ok", Each(RoundedUpTo[Depth], m)>>
        BY <1>2, <2>1, SaveLoads
  <2>3. ASSUME NEW k \in Names
        PROVE  (IF m[k] = None THEN None ELSE RoundedUpTo[Depth][m[k]]) = AsSaved(src)[k]
    <3>1. CASE m[k] = None
      <4>1. src[k] = None BY <2>1, <3>1 DEF KeysOf
      <4>2. QED BY <3>1, <4>1 DEF AsSaved
    <3>2. CASE m[k] # None
      <4>1. src[k] # None /\ k \in KeysOf(m) BY <2>1, <3>2 DEF KeysOf
      <4>2. Original(src[k]) \in Values BY <2>1, <4>1, OriginalIsValue DEF SourcesOK
      <4>3. Rounded(m[k]) = Rounded(Original(src[k]))
            BY <4>1, <4>2, RoundedIsValue DEF MapIs
      <4>4. QED BY <3>2, <4>1, <4>3 DEF AsSaved, Rounded
    <3>3. QED BY <3>1, <3>2
  <2>4. DOMAIN m = Names BY <2>1 DEF Objects
  <2>5. Each(RoundedUpTo[Depth], m) = AsSaved(src)
    <3>1. AsSaved(src) = [k \in Names |-> AsSaved(src)[k]] BY DEF AsSaved
    <3>2. QED BY <2>3, <2>4, <3>1 DEF Each
  <2>6. QED BY <1>2, <2>1, <2>2, <2>5 DEF FileIs
<1>3. CASE IsErr(Save(m)) /\ UNCHANGED <<file, saved>>
      BY <1>3
<1>4. QED BY <1>1, <1>2, <1>3 DEF Write

\* A key is set.
LEMMA WithFacts ==
    ASSUME NEW m, NEW src, NEW from, MapIs(m, src, from), NEW k \in Keys,
           NEW s, SourceOK(s), NEW v, NEW from2,
           \/ v = Original(s) /\ from2 = from \ {k}
           \/ v = Rounded(Original(s)) /\ k \in from /\ from2 = from
           \/ v = Original(s) /\ k \notin from /\ from2 = from
    PROVE  MapIs(With(m, k, v), With(src, k, s), from2)
<1>1. k \in Names BY FilesAssumption
<1>2. v \in Values /\ v # None BY OriginalIsValue, RoundedIsValue
<1>3. s # None
      BY DEF SourceOK, None, IsNativeValue, NativeTypes, KvsTypes, Variant, Stored
<1>4. m \in [Names -> Values \cup {None}] /\ src = [i \in Names |-> src[i]]
      BY DEF MapIs, Objects, SourcesOK
<1>5. With(m, k, v) \in Objects(Values) BY <1>1, <1>2, <1>4 DEF With, Objects
<1>6. KeysOf(With(m, k, v)) = KeysOf(m) \cup {k} BY <1>1, <1>2, <1>4 DEF KeysOf, With
<1>7. KeysOf(With(src, k, s)) = KeysOf(src) \cup {k} BY <1>1, <1>3, <1>4 DEF KeysOf, With
<1>8. /\ With(m, k, v)[k] = v /\ With(src, k, s)[k] = s
      /\ \A i \in Names \ {k} : With(m, k, v)[i] = m[i] /\ With(src, k, s)[i] = src[i]
      BY <1>1, <1>4 DEF With
<1>9. SourcesOK(With(src, k, s))
  <2>1. With(src, k, s) = [i \in Names |-> With(src, k, s)[i]] BY <1>4 DEF With
  <2>2. \A i \in KeysOf(src) \cup {k} : SourceOK(With(src, k, s)[i])
        BY <1>8 DEF MapIs, SourcesOK, KeysOf
  <2>3. QED BY <1>7, <2>1, <2>2 DEF SourcesOK
<1>10. \A i \in KeysOf(m) \cup {k} :
          With(m, k, v)[i] = IF i \in from2 THEN Rounded(Original(With(src, k, s)[i]))
                             ELSE Original(With(src, k, s)[i])
  <2>1. ASSUME NEW i \in KeysOf(m), i # k
        PROVE  With(m, k, v)[i] = IF i \in from2 THEN Rounded(Original(With(src, k, s)[i]))
                                  ELSE Original(With(src, k, s)[i])
    <3>1. i \in Names BY DEF KeysOf
    <3>2. i \in from2 <=> i \in from BY <2>1
    <3>3. QED BY <1>8, <2>1, <3>1, <3>2 DEF MapIs
  <2>2. v = IF k \in from2 THEN Rounded(Original(s)) ELSE Original(s) OBVIOUS
  <2>3. QED BY <1>8, <2>1, <2>2
<1>11. QED BY <1>5, <1>6, <1>7, <1>9, <1>10 DEF MapIs

\* A key is dropped.
LEMMA WithoutFacts ==
    ASSUME NEW m, NEW src, NEW from, MapIs(m, src, from), NEW k \in Keys
    PROVE  MapIs(Without(m, k), Without(src, k), from \ {k})
<1>1. k \in Names BY FilesAssumption
<1>2. m \in [Names -> Values \cup {None}] /\ src = [i \in Names |-> src[i]]
      BY DEF MapIs, Objects, SourcesOK
<1>3. Without(m, k) \in Objects(Values) BY <1>1, <1>2 DEF Without, Objects
<1>4. /\ KeysOf(Without(m, k)) = KeysOf(m) \ {k}
      /\ KeysOf(Without(src, k)) = KeysOf(src) \ {k}
      BY <1>1, <1>2 DEF KeysOf, Without
<1>5. \A i \in Names \ {k} : Without(m, k)[i] = m[i] /\ Without(src, k)[i] = src[i]
      BY <1>1, <1>2 DEF Without
<1>6. SourcesOK(Without(src, k))
  <2>1. Without(src, k) = [i \in Names |-> Without(src, k)[i]] BY <1>2 DEF Without
  <2>2. \A i \in KeysOf(src) \ {k} : SourceOK(Without(src, k)[i])
        BY <1>5 DEF MapIs, SourcesOK, KeysOf
  <2>3. QED BY <1>4, <2>1, <2>2 DEF SourcesOK
<1>7. \A i \in KeysOf(m) \ {k} :
          Without(m, k)[i] = IF i \in from \ {k} THEN Rounded(Original(Without(src, k)[i]))
                             ELSE Original(Without(src, k)[i])
      BY <1>5 DEF MapIs, KeysOf
<1>8. QED BY <1>3, <1>4, <1>6, <1>7 DEF MapIs

\* Changing the field in the stored object is as good as changing the struct, also
\* when the object has been saved and loaded.
LEMMA ModifyOriginal ==
    ASSUME NEW s, SourceOK(s), s[1] = "Example", NEW n \in NewInts,
           NEW t, t = <<"Example", [s[2] EXCEPT !["i32"] = n]>>
    PROVE  /\ SourceOK(t)
           /\ <<"Object", With(Original(s)[2], "i32", <<"I32", n>>)>> = Original(t)
           /\ <<"Object", With(Rounded(Original(s))[2], "i32", <<"I32", n>>)>>
                  = Rounded(Original(t))
<1> DEFINE names == DOMAIN ExampleFields
           e == s[2]
           d == [e EXCEPT !["i32"] = n]
           x == <<"I32", n>>
           old == Object(ExampleToFields(e))
           R == RoundedBelow(Depth)
           V == ValuesBelow(Depth)
<1>1. IsNativeValue("Example", e) /\ Serialize("Example", e) \in Values BY DEF SourceOK
<1>2. /\ ExampleToKvs(e) = <<"Object", old>> /\ ExampleToKvs(e) \in Values
      /\ \A f \in names : ~IsErr(ExampleToFields(e)[f])
  <2>1. ExampleToKvs(e) \in Values BY <1>1 DEF Serialize
  <2>2. ~IsErr(ExampleToKvs(e)) BY <2>1, ValueIsNoError
  <2>3. QED BY <1>1, <2>1, <2>2, ExampleRoundTrip
<1>3. Original(s) = <<"Object", old>> BY <1>2 DEF Original, Serialize
<1>4. n \in Ints("i32") BY NewIntsAssumption
<1>5. e = [f \in names |-> e[f]] /\ "i32" \in names /\ "i32" \in Names
      /\ names \subseteq Names
      BY <1>1, FieldTypes DEF IsNativeValue
<1>6. /\ d = [f \in names |-> d[f]] /\ d["i32"] = n
      /\ \A f \in names \ {"i32"} : d[f] = e[f]
      BY <1>5
<1>7. IsNativeValue("Example", d)
  <2>1. IsNative("Example", d) BY DEF IsNative, IntTypes, Signed, Unsigned
  <2>2. IsNative(ExampleFields["i32"], d["i32"]) BY <1>4, <1>6, FieldTypes DEF IsNative
  <2>3. \A f \in names : IsNative(ExampleFields[f], d[f])
        BY <1>1, <1>6, <2>2 DEF IsNativeValue
  <2>4. QED BY <1>6, <2>1, <2>3 DEF IsNativeValue
<1>8. ExampleToFields(d) = [ExampleToFields(e) EXCEPT !["i32"] = x]
  <2>1. FieldToKvs(ExampleFields["i32"], n) = x
        BY FieldTypes DEF FieldToKvs, ToKvs, From, StoredAs, Stored, Variant
  <2>2. \A f \in names : FieldToKvs(ExampleFields[f], d[f])
            = IF f = "i32" THEN x ELSE FieldToKvs(ExampleFields[f], e[f])
        BY <1>6, <2>1
  <2> HIDE DEF d, x
  <2>3. QED BY <1>5, <2>2 DEF ExampleToFields
<1>9. ExampleToKvs(d) = <<"Object", With(old, "i32", x)>>
  <2>1. \A f \in names : ~IsErr(ExampleToFields(d)[f])
        BY <1>2, <1>5, <1>8 DEF IsErr, ExampleToFields
  <2>2. ExampleToKvs(d) = StructToKvs(ExampleToFields(d))
        BY DEF ExampleToKvs, ExampleToFields
  <2>3. DOMAIN ExampleToFields(d) = names BY DEF ExampleToFields
  <2>4. ExampleToKvs(d) = <<"Object", Object(ExampleToFields(d))>>
        BY <2>1, <2>2, <2>3 DEF StructToKvs, From, Variant
  <2>5. Object(ExampleToFields(d)) = With(old, "i32", x)
        BY <1>5, <1>8 DEF Object, With, ExampleToFields
  <2>6. QED BY <2>4, <2>5
<1>10. /\ Depth # 0 /\ old \in Objects(V) /\ x \in V /\ R[x] = x
  <2>1. IsValueOf(<<"Object", old>>, V) BY <1>2, Depths, ValueCases DEF Values
  <2>2. old \in Objects(V) BY <2>1 DEF IsValueOf
  <2>3. old["i32"] # None
    <3>1. IsNative("i32", e["i32"]) BY <1>1, <1>5, FieldTypes DEF IsNativeValue
    <3>2. old["i32"] = FieldToKvs("i32", e["i32"])
          BY <1>5, FieldTypes DEF Object, ExampleToFields
    <3>3. FieldToKvs("i32", e["i32"]) = <<"I32", e["i32"]>>
          BY DEF FieldToKvs, ToKvs, From, StoredAs, Stored, Variant
    <3>4. QED BY <3>2, <3>3 DEF None
  <2>4. old["i32"] \in V BY <1>5, <2>2, <2>3 DEF Objects
  <2>5. Depth # 0 /\ Depth - 1 \in Nat /\ V = ValuesUpTo[Depth - 1]
        /\ R = RoundedUpTo[Depth - 1]
        BY <2>4, Depths DEF ValuesBelow, RoundedBelow
  <2>6. IsValueOf(x, ValuesBelow(Depth - 1)) BY <1>4 DEF IsValueOf
  <2>7. x \in V BY <2>5, <2>6, ValueCases
  <2>8. R[x] = RoundedNode(x, RoundedBelow(Depth - 1))
    <3>1. R = RoundedStep(Depth - 1, RoundedBelow(Depth - 1)) BY <2>5, RoundedIs
    <3>2. QED BY <2>5, <2>7, <3>1 DEF RoundedStep
  <2>9. R[x] = x BY <2>8 DEF RoundedNode
  <2>10. QED BY <2>2, <2>5, <2>7, <2>9
<1>11. With(old, "i32", x) \in Objects(V) BY <1>5, <1>10 DEF With, Objects
<1>12. <<"Object", With(old, "i32", x)>> \in Values
  <2>1. IsValueOf(<<"Object", With(old, "i32", x)>>, V) BY <1>11 DEF IsValueOf
  <2>2. QED BY <2>1, Depths, ValueCases DEF Values
<1>13. \A u : <<"Object", u>> \in Values
           => Rounded(<<"Object", u>>) = <<"Object", Each(R, u)>>
  <2>1. \A v \in Values : Rounded(v) = RoundedNode(v, R)
    <3>1. RoundedUpTo[Depth] = RoundedStep(Depth, R) BY Depths, RoundedIs
    <3>2. QED BY <3>1 DEF Rounded, RoundedStep, Values
  <2>2. \A u : RoundedNode(<<"Object", u>>, R) = <<"Object", Each(R, u)>>
        BY DEF RoundedNode
  <2>3. QED BY <2>1, <2>2
<1>14. Each(R, With(old, "i32", x)) = With(Each(R, old), "i32", x)
  <2>1. x # None BY DEF None
  <2>2. DOMAIN old = Names BY <1>10 DEF Objects
  <2>3. QED BY <1>5, <1>10, <2>1, <2>2 DEF Each, With
<1>15. t = <<"Example", d>> OBVIOUS
<1> HIDE DEF d, e, x, old
<1>16. Original(t) = ExampleToKvs(d) BY <1>15 DEF Original, Serialize
<1>17. SourceOK(t) BY <1>7, <1>9, <1>12, <1>15 DEF SourceOK, Serialize
<1>18. Original(s)[2] = old BY <1>3
<1>19. Rounded(Original(s))[2] = Each(R, old) BY <1>2, <1>3, <1>13
<1>20. Rounded(Original(t)) = <<"Object", With(Each(R, old), "i32", x)>>
       BY <1>9, <1>12, <1>13, <1>14, <1>16
<1>21. QED BY <1>9, <1>16, <1>17, <1>18, <1>19, <1>20 DEF x

LEMMA InitInv == Init => Inv
<1>1. SUFFICES ASSUME Init PROVE Inv OBVIOUS
<1>2. MapIs(map, source, loaded) BY <1>1, EmptyFacts DEF Init, MapIs
<1>3. defaults \in Objects(ValuesUpTo[TextDepth]) BY <1>1, EmptyFacts DEF Init
<1>4. FileIs(file, saved) BY <1>1, EmptyFacts DEF Init, FileIs
<1>5. Mocked BY <1>1 DEF Init, Mocked
<1>6. QED BY <1>2, <1>3, <1>4, <1>5 DEF Inv

LEMMA OpenInv == ASSUME Inv, NEW d \in DefaultsFiles, Open(d) PROVE Inv'
<1>1. FileIs(file, saved) BY DEF Inv
<1>2. Loaded(file) = <<"Ok", AsSaved(saved)>> BY <1>1, LoadedIs
<1>3. map' = AsSaved(saved) /\ source' = saved /\ loaded' = KeysOf(map')
      BY <1>2 DEF Open
<1>4. MapIs(AsSaved(saved), saved, KeysOf(saved)) BY <1>1, AsSavedIs DEF FileIs
<1>5. MapIs(map', source', loaded')
  <2>1. loaded' = KeysOf(saved) BY <1>3, <1>4 DEF MapIs
  <2>2. QED BY <1>3, <1>4, <2>1
<1>6. defaults' = Loaded(d)[2] /\ ~IsErr(Loaded(d)) BY DEF Open
<1>7. d = Missing => defaults' = Empty BY <1>6 DEF Loaded
<1>8. defaults' \in Objects(ValuesUpTo[TextDepth])
  <2>1. CASE d = Missing BY <1>7, <2>1, EmptyFacts
  <2>2. CASE d # Missing
    <3>1. d \in Texts BY <2>2, FilesAssumption
    <3>2. Loaded(d) = Load(d) BY <2>2 DEF Loaded
    <3>3. QED BY <1>6, <3>1, <3>2, LoadTyped
  <2>3. QED BY <2>1, <2>2
<1>9. FileIs(file', saved') BY <1>1 DEF Open
<1>10. Mocked'
  <2>1. synced' => d = Missing /\ ~fail' BY DEF Open
  <2>2. mock' = map' BY DEF Open
  <2>3. QED BY <1>7, <2>1, <2>2 DEF Mocked
<1>11. QED BY <1>5, <1>8, <1>9, <1>10 DEF Inv

LEMMA CloseInv == ASSUME Inv, Close PROVE Inv'
<1>1. MapIs(map', source', loaded') BY EmptyFacts DEF Close, MapIs
<1>2. defaults' \in Objects(ValuesUpTo[TextDepth]) BY EmptyFacts DEF Close
<1>3. FileIs(file', saved') BY DEF Inv, Close
<1>4. Mocked' BY DEF Close, Mocked
<1>5. QED BY <1>1, <1>2, <1>3, <1>4 DEF Inv

\* A call that only changes the data of one key, in the mock too.
LEMMA SetInv ==
    ASSUME Inv, NEW k \in Keys, NEW v, NEW s, SourceOK(s),
           map' = With(map, k, v), mock' = MockSetValue(mock, fail, k, v),
           source' = With(source, k, s),
           \/ v = Original(s) /\ loaded' = loaded \ {k}
           \/ v = Rounded(Original(s)) /\ k \in loaded /\ loaded' = loaded
           \/ v = Original(s) /\ k \notin loaded /\ loaded' = loaded,
           UNCHANGED <<defaults, file, fail, saved, synced>>
    PROVE  Inv'
<1>1. MapIs(map, source, loaded) BY DEF Inv
<1>2. MapIs(map', source', loaded') BY <1>1, WithFacts
<1>3. defaults' \in Objects(ValuesUpTo[TextDepth]) /\ FileIs(file', saved')
      BY DEF Inv
<1>4. Mocked' BY DEF Inv, Mocked, MockSetValue, After
<1>5. QED BY <1>2, <1>3, <1>4 DEF Inv

LEMMA SetValueInv ==
    ASSUME Inv, NEW k \in Keys, NEW n \in Natives[k], SetValue(k, n[1], n[2]) PROVE Inv'
<1> DEFINE s == <<n[1], n[2]>>
           v == Serialize(n[1], n[2])
<1>1. ~IsErr(v) /\ IsNativeValue(n[1], n[2]) /\ v \in Values
      BY NativesAssumption DEF SetValue, IsNativeValue
<1>2. s[1] # "payload"
      BY <1>1 DEF IsNativeValue, NativeTypes, KvsTypes, Variant, Stored
<1>3. SourceOK(s) /\ v = Original(s) BY <1>1, <1>2 DEF SourceOK, Original
<1>4. /\ map' = With(map, k, v) /\ mock' = MockSetValue(mock, fail, k, v)
      /\ source' = With(source, k, s) /\ loaded' = loaded \ {k}
      /\ UNCHANGED <<defaults, file, fail, saved, synced>>
      BY DEF SetValue
<1> HIDE DEF s, v
<1>5. QED BY <1>3, <1>4, SetInv

LEMMA ModifyExampleInv ==
    ASSUME Inv, NEW k \in Keys, NEW n \in NewInts, ModifyExample(k, n) PROVE Inv'
<1> DEFINE s == source[k]
           t == <<"Example", [s[2] EXCEPT !["i32"] = n]>>
           v == <<"Object", With(map[k][2], "i32", <<"I32", n>>)>>
<1>1. /\ Has(map, k) /\ s[1] = "Example"
      /\ map' = With(map, k, v) /\ mock' = MockSetValue(mock, fail, k, v)
      /\ source' = With(source, k, t)
      /\ UNCHANGED <<defaults, file, fail, saved, loaded, synced>>
      BY DEF ModifyExample, From, Variant
<1>2. k \in KeysOf(map) BY <1>1, FilesAssumption DEF Has, KeysOf
<1>3. SourceOK(s) /\ map[k] = IF k \in loaded THEN Rounded(Original(s)) ELSE Original(s)
      BY <1>2 DEF Inv, MapIs, SourcesOK
<1> HIDE DEF s, t
<1>4. /\ SourceOK(t)
      /\ <<"Object", With(Original(s)[2], "i32", <<"I32", n>>)>> = Original(t)
      /\ <<"Object", With(Rounded(Original(s))[2], "i32", <<"I32", n>>)>>
             = Rounded(Original(t))
      BY <1>1, <1>3, ModifyOriginal DEF t
<1>5. v = IF k \in loaded THEN Rounded(Original(t)) ELSE Original(t)
      BY <1>3, <1>4
<1> HIDE DEF v
<1>6. QED BY <1>1, <1>4, <1>5, SetInv

LEMMA DropInv == ASSUME Inv, NEW k \in Keys, Drop(k) PROVE MapIs(map', source', loaded')
  BY WithoutFacts DEF Inv, Drop

LEMMA RemoveKeyInv == ASSUME Inv, NEW k \in Keys, RemoveKey(k) PROVE Inv'
<1>1. MapIs(map', source', loaded') BY DropInv DEF RemoveKey
<1>2. defaults' \in Objects(ValuesUpTo[TextDepth]) /\ FileIs(file', saved')
      BY DEF Inv, RemoveKey
<1>3. Mocked' BY DEF Inv, Mocked, RemoveKey, Drop, MockRemoveKey, After
<1>4. QED BY <1>1, <1>2, <1>3 DEF Inv

LEMMA ResetInv == ASSUME Inv, Reset PROVE Inv'
<1>1. MapIs(map', source', loaded') BY EmptyFacts DEF Reset, MapIs
<1>2. defaults' \in Objects(ValuesUpTo[TextDepth]) /\ FileIs(file', saved')
      BY DEF Inv, Reset
<1>3. Mocked' BY DEF Inv, Mocked, Reset, MockReset, After
<1>4. QED BY <1>1, <1>2, <1>3 DEF Inv

LEMMA ResetKeyInv == ASSUME Inv, NEW k \in Keys, ResetKey(k) PROVE Inv'
<1>1. MapIs(map', source', loaded')
  <2>1. CASE Has(defaults, k) BY <2>1, DropInv DEF ResetKey
  <2>2. CASE ~Has(defaults, k) BY <2>2 DEF ResetKey, data, Inv
  <2>3. QED BY <2>1, <2>2
<1>2. defaults' \in Objects(ValuesUpTo[TextDepth]) /\ FileIs(file', saved')
      BY DEF Inv, ResetKey
<1>3. Mocked'
  <2>1. SUFFICES ASSUME synced' PROVE mock' = map' /\ defaults' = Empty /\ ~fail'
        BY DEF Mocked
  <2>2. /\ synced /\ ~Has(map, k) /\ UNCHANGED <<defaults, fail>>
        /\ mock' = MockResetKey(mock, fail, k)
        BY <2>1 DEF ResetKey
  <2>3. mock = map /\ defaults = Empty /\ ~fail BY <2>2 DEF Inv, Mocked
  <2>4. ~Has(defaults, k)
    <3>1. k \in Names BY FilesAssumption
    <3>2. QED BY <2>3, <3>1, EmptyFacts DEF Has
  <2>5. map' = map BY <2>4 DEF ResetKey, data
  <2>6. Without(map, k) = map
    <3>1. map = [i \in Names |-> map[i]] BY DEF Inv, MapIs, Objects
    <3>2. QED BY <2>2, <3>1 DEF Has, Without
  <2>7. mock' = map BY <2>2, <2>3, <2>6 DEF MockResetKey, After
  <2>8. QED BY <2>2, <2>3, <2>5, <2>7
<1>4. QED BY <1>1, <1>2, <1>3 DEF Inv

LEMMA FlushInv == ASSUME Inv, Flush PROVE Inv'
<1>1. MapIs(map, source, loaded) /\ Write(map, source) /\ FileIs(file, saved)
      BY DEF Inv, Flush
<1>2. FileIs(file', saved') BY <1>1, WriteFacts
<1>3. /\ MapIs(map', source', loaded') /\ defaults' \in Objects(ValuesUpTo[TextDepth])
      /\ Mocked'
      BY DEF Inv, Flush, data, Mocked
<1>4. QED BY <1>2, <1>3 DEF Inv

LEMMA ToolSetInv ==
    ASSUME Inv, NEW k \in Keys, NEW payload \in Payloads, ToolSet(k, payload) PROVE Inv'
<1> DEFINE s == <<"payload", payload>>
           m == With(AsSaved(saved), k, FromTinyjson(payload))
<1>1. FileIs(file, saved) BY DEF Inv
<1>2. Loaded(file)[2] = AsSaved(saved) BY <1>1, LoadedIs
<1>3. Write(m, With(saved, k, s)) BY <1>2 DEF ToolSet
<1>4. MapIs(AsSaved(saved), saved, KeysOf(saved)) BY <1>1, AsSavedIs DEF FileIs
<1>5. SourceOK(s) /\ FromTinyjson(payload) = Original(s) BY DEF SourceOK, Original
<1> HIDE DEF s
<1>6. MapIs(m, With(saved, k, s), KeysOf(saved) \ {k}) BY <1>4, <1>5, WithFacts
<1> HIDE DEF m
<1>7. FileIs(file', saved') BY <1>1, <1>3, <1>6, WriteFacts
<1>8. /\ MapIs(map', source', loaded') /\ defaults' \in Objects(ValuesUpTo[TextDepth])
      /\ Mocked'
      BY DEF Inv, ToolSet, data, Mocked
<1>9. QED BY <1>7, <1>8 DEF Inv

LEMMA Invariance == Spec => []Inv
<1>1. Inv /\ [Next]_vars => Inv'
  <2>1. SUFFICES ASSUME Inv, [Next]_vars PROVE Inv' OBVIOUS
  <2>2. CASE \E d \in DefaultsFiles : Open(d) BY <2>1, <2>2, OpenInv
  <2>3. CASE Close BY <2>1, <2>3, CloseInv
  <2>4. CASE \E k \in Keys : \E n \in Natives[k] : SetValue(k, n[1], n[2])
        BY <2>1, <2>4, SetValueInv
  <2>5. CASE \E k \in Keys, n \in NewInts : ModifyExample(k, n)
        BY <2>1, <2>5, ModifyExampleInv
  <2>6. CASE \E k \in Keys : RemoveKey(k) \/ ResetKey(k)
        BY <2>1, <2>6, RemoveKeyInv, ResetKeyInv
  <2>7. CASE Reset BY <2>1, <2>7, ResetInv
  <2>8. CASE Flush BY <2>1, <2>8, FlushInv
  <2>9. CASE \E k \in Keys, payload \in Payloads : ToolSet(k, payload)
        BY <2>1, <2>9, ToolSetInv
  <2>10. CASE UNCHANGED vars BY <2>1, <2>10 DEF vars, Inv, Mocked
  <2>11. QED BY <2>1, <2>2, <2>3, <2>4, <2>5, <2>6, <2>7, <2>8, <2>9, <2>10 DEF Next
<1>2. QED BY <1>1, InitInv, PTL DEF Spec

-----------------------------------------------------------------------------
(* Theorems *)

\* DataTypeOK: whatever was read from a file, every integer in the maps is in the
\* range of its type (From<JsonValue> for KvsValue).
THEOREM TypeCorrect == Spec => []DataTypeOK
<1>1. Inv => DataTypeOK BY DEF Inv, MapIs, DataTypeOK
<1>2. QED BY <1>1, Invariance, PTL

\* ReadBack: saved and loaded as often as one likes, a value is what it was set to,
\* 64-bit integers rounded to the nearest f64 once.
THEOREM ValuesReadBack == Spec => []ReadBack
<1>1. Inv => ReadBack BY DEF Inv, MapIs, ReadBack
<1>2. QED BY <1>1, Invariance, PTL

\* TypedReadBack: a native value, or a struct of them, is read back as it was set
\* when its 64-bit integers are exact in an f64.
THEOREM NativesReadBack == Spec => []TypedReadBack
<1>1. Inv => TypedReadBack
  <2>1. SUFFICES ASSUME Inv, NEW k \in KeysOf(map), source[k][1] # "payload",
                        Rounded(Original(source[k])) = Original(source[k])
                 PROVE  Deserialize(source[k][1], map[k]) = <<"Ok", source[k][2]>>
        BY DEF TypedReadBack
  <2>2. SourceOK(source[k]) /\ map[k] = Original(source[k])
        BY <2>1 DEF Inv, MapIs, SourcesOK
  <2>3. /\ IsNativeValue(source[k][1], source[k][2])
        /\ Serialize(source[k][1], source[k][2]) \in Values
        /\ map[k] = Serialize(source[k][1], source[k][2])
        BY <2>1, <2>2 DEF SourceOK, Original
  <2>4. QED BY <2>3, ValueIsNoError, Deserialized
<1>2. QED BY <1>1, Invariance, PTL

\* NoSilentNarrowing: a value read as another type of number is that number or an
\* error (from_kvs of the integer types).
THEOREM NumbersAreNotCut == Spec => []NoSilentNarrowing
<1>1. ASSUME NEW v \in Values, NEW T \in NativeTypes \ {"f32"}, ~IsErr(Deserialize(T, v))
      PROVE  ToKvs(T, Deserialize(T, v)[2]) = v
  <2> DEFINE r == TryFrom(StoredAs(T), v)
  <2>1. T \notin {"Point", "IpAddr", "Example"} BY TypesOf
  <2>2. Deserialize(T, v) = FromKvs(T, v) BY <2>1 DEF Deserialize, FieldFromKvs
  <2>3. ~IsErr(r) /\ FromKvs(T, v) = r BY <1>1, <2>2 DEF FromKvs, IsErr, Err
  <2>4. v[1] = Variant[StoredAs(T)] /\ r = <<"Ok", v[2]>>
        BY <2>3 DEF TryFrom, IsErr, Err
  <2>5. IsValueOf(v, ValuesBelow(Depth)) BY Depths, ValueCases DEF Values
  <2>6. v = From(StoredAs(T), v[2]) BY <2>4, <2>5 DEF From, IsValueOf
  <2>7. T \in {"isize", "usize"} => Fits(Stored[T], v[2])
    <3>1. CASE T = "isize"
      <4>1. v[1] = "I64" /\ Stored[T] = "i64" BY <2>4, <3>1 DEF StoredAs, Stored, Variant
      <4>2. v[2] \in Ints("i64") BY <2>5, <4>1 DEF IsValueOf
      <4>3. QED BY <4>1, <4>2, RangeAssumption
            DEF Fits, Ints, IntTypes, Signed, Unsigned
    <3>2. CASE T = "usize"
      <4>1. v[1] = "U64" /\ Stored[T] = "u64" BY <2>4, <3>2 DEF StoredAs, Stored, Variant
      <4>2. v[2] \in Ints("u64") BY <2>5, <4>1 DEF IsValueOf
      <4>3. QED BY <4>1, <4>2, RangeAssumption
            DEF Fits, Ints, IntTypes, Signed, Unsigned
    <3>3. QED BY <3>1, <3>2
  <2>8. ToKvs(T, v[2]) = From(StoredAs(T), v[2]) BY <2>7 DEF ToKvs
  <2>9. QED BY <2>2, <2>3, <2>4, <2>6, <2>8
<1>2. Inv => NoSilentNarrowing
  <2>1. Inv => \A k \in KeysOf(map) : map[k] \in Values
        BY DEF Inv, MapIs, Objects, KeysOf
  <2>2. QED BY <1>1, <2>1 DEF NoSilentNarrowing
<1>3. QED BY <1>2, Invariance, PTL

\* MockAgrees: as long as the calls are ones MockKvs supports, it answers every call
\* that reads like the store.
THEOREM MockIsFaithful == Spec => []MockAgrees
<1>1. Inv => MockAgrees
  <2>1. SUFFICES ASSUME Inv, synced
                 PROVE  /\ GetAllKeys = MockGetAllKeys(mock, fail)
                        /\ \A k \in Keys :
                              /\ KeyExists(k) = MockKeyExists(mock, fail, k)
                              /\ GetValue(k) = MockGetValue(mock, fail, k)
                              /\ GetDefaultValue(k) = MockGetDefaultValue(fail)
                              /\ Has(map, k) => IsValueDefault(k) = MockIsValueDefault(fail)
                              /\ \A T \in KvsTypes :
                                    GetValueAs(k, T) = MockGetValueAs(mock, fail, k, T)
        BY DEF MockAgrees
  <2>2. mock = map /\ defaults = Empty /\ ~fail BY <2>1 DEF Inv, Mocked
  <2>3. \A k \in Keys : ~Has(defaults, k)
        BY <2>2, EmptyFacts, FilesAssumption DEF Has
  <2>4. \A ok : Answer(fail, ok) = ok BY <2>2 DEF Answer
  <2>5. GetAllKeys = MockGetAllKeys(mock, fail) BY <2>2, <2>4 DEF GetAllKeys, MockGetAllKeys
  <2>6. ASSUME NEW k \in Keys
        PROVE  /\ KeyExists(k) = MockKeyExists(mock, fail, k)
               /\ GetValue(k) = MockGetValue(mock, fail, k)
               /\ GetDefaultValue(k) = MockGetDefaultValue(fail)
               /\ Has(map, k) => IsValueDefault(k) = MockIsValueDefault(fail)
    <3>1. KeyExists(k) = MockKeyExists(mock, fail, k)
          BY <2>2, <2>4 DEF KeyExists, MockKeyExists
    <3>2. GetValue(k) = MockGetValue(mock, fail, k)
          BY <2>2, <2>3, <2>4 DEF GetValue, MockGetValue
    <3>3. GetDefaultValue(k) = MockGetDefaultValue(fail)
          BY <2>3, <2>4 DEF GetDefaultValue, MockGetDefaultValue
    <3>4. Has(map, k) => IsValueDefault(k) = MockIsValueDefault(fail)
          BY <2>4 DEF IsValueDefault, MockIsValueDefault
    <3>5. QED BY <3>1, <3>2, <3>3, <3>4
  <2>7. ASSUME NEW k \in Keys, NEW T \in KvsTypes
        PROVE  GetValueAs(k, T) = MockGetValueAs(mock, fail, k, T)
    <3>1. CASE Has(map, k)
      <4>1. MockGetValue(mock, fail, k) = <<"Ok", map[k]>>
            BY <2>2, <2>4, <3>1 DEF MockGetValue
      <4>2. QED BY <3>1, <4>1 DEF GetValueAs, MockGetValueAs, IsErr
    <3>2. CASE ~Has(map, k)
      <4>1. MockGetValue(mock, fail, k) = Err("KeyNotFound")
            BY <2>2, <2>4, <3>2 DEF MockGetValue
      <4>2. QED BY <2>3, <3>2, <4>1 DEF GetValueAs, MockGetValueAs, IsErr, Err
    <3>3. QED BY <3>1, <3>2
  <2>8. QED BY <2>5, <2>6, <2>7
<1>2. QED BY <1>1, Invariance, PTL

\* A map without an infinity or NaN is saved, whatever its values and however deep
\* (From<KvsValue> for JsonValue, stringify), and loaded with the same keys, types
\* and values, 64-bit integers rounded (From<JsonValue> for KvsValue).
THEOREM FiniteMapsAreSaved ==
    ASSUME NEW m \in Objects(FiniteUpTo[Depth])
    PROVE  ~IsErr(Save(m)) /\ Load(Save(m)) = <<"Ok", Each(RoundedUpTo[Depth], m)>>
<1> DEFINE v == <<"Object", m>>
<1>1. FiniteBelow(Depth + 1) = FiniteUpTo[Depth] BY Depths DEF FiniteBelow
<1>2. v \in FiniteUpTo[Depth + 1]
  <2>1. v \in {"Object"} \X Objects(FiniteUpTo[Depth]) OBVIOUS
  <2>2. v \in ValuesStep(Depth + 1, FiniteUpTo[Depth]) BY <2>1 DEF ValuesStep, Nested
  <2>3. v \in FiniteStep(Depth + 1, FiniteUpTo[Depth]) BY <2>2 DEF FiniteStep
  <2>4. FiniteUpTo = FiniteRec!f BY DEF FiniteUpTo, FiniteRec!f
  <2>5. FiniteUpTo[Depth + 1] = FiniteStep(Depth + 1, FiniteBelow(Depth + 1))
        BY <2>4, Depths, FiniteRec!Recursion DEF FiniteBelow
  <2>6. QED BY <1>1, <2>3, <2>5
<1>3. JsonUpTo[Depth + 1][v] \in Texts BY <1>2, Depths, FiniteIsSaved DEF Texts, TextDepth
<1>4. Save(m) = JsonUpTo[Depth + 1][v] BY <1>3 DEF Save, Stringify
<1>5. ~IsErr(Save(m))
  <2>1. IsTextOf(Save(m), TextsBelow(TextDepth)) BY <1>3, <1>4, Depths, TextCases DEF Texts
  <2>2. QED BY <2>1 DEF IsTextOf, IsErr
<1>6. m \in Objects(Values)
  <2>1. FiniteUpTo[Depth] \subseteq Values BY Depths, FiniteIsSaved DEF Values
  <2>2. QED BY <2>1, NestedMono
<1>7. QED BY <1>5, <1>6, SaveLoads
=============================================================================
