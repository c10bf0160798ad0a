------------------------------ MODULE MCKvsApi ------------------------------
(***************************************************************************)
(* KvsApi for TLC: two keys that are named like the members of a tagged    *)
(* value.  Numbers are scaled down: Bits gives the integer types fewer     *)
(* bits, Mantissa the floats; what is kept is their order,                 *)
(* 8 < 16 < f32 mantissa < 32 < f64 mantissa < 64.                         *)
(***************************************************************************)
EXTENDS KvsApi, TLC

Bits == [i8 |-> 2, i16 |-> 3, i32 |-> 5, i64 |-> 8, isize |-> 8,
         u8 |-> 2, u16 |-> 3, u32 |-> 5, u64 |-> 8, usize |-> 8]
Mantissa == [f32 |-> 4, f64 |-> 6]
Huge == 1024        \* an f64 above every integer and every f32
MCInfinity == 4096
MCNaN == 8192
MCLowest == [T \in IntTypes |-> IF T \in Signed THEN -(2 ^ (Bits[T] - 1)) ELSE 0]
MCHighest ==
    [T \in IntTypes |-> IF T \in Signed THEN 2 ^ (Bits[T] - 1) - 1 ELSE 2 ^ Bits[T] - 1]

Abs(n) == IF n < 0 THEN -n ELSE n

\* The float of type T nearest to n, the one with an even mantissa when two are.
RoundTo(T, n) ==
    LET step == CHOOSE s \in {2 ^ e : e \in 0 .. 10} :
                    /\ Abs(n) <= s * 2 ^ Mantissa[T]
                    /\ s = 1 \/ Abs(n) > s * 2 ^ (Mantissa[T] - 1)
        below == n - (n % step)
        up == 2 * (n % step) > step \/ (2 * (n % step) = step /\ (below \div step) % 2 = 1)
    IN  IF n \in {MCInfinity, MCNaN} THEN n ELSE IF up THEN below + step ELSE below
MCRoundTo64(n) == RoundTo("f64", n)

\* What no f32 can hold becomes infinite.
MCRoundTo32(x) ==
    IF x \notin {MCInfinity, MCNaN} /\ Abs(x) >= Huge THEN MCInfinity ELSE RoundTo("f32", x)

MCAddressText == (<<127, 0, 0, 1>> :> "127.0.0.1" @@ <<10, 0, 0, 1>> :> "10.0.0.1")
MCStrings == {Tag[v] : v \in DOMAIN Tag} \cup {MCAddressText[a] : a \in DOMAIN MCAddressText} \cup {"v"}
MCNames == {"t", "v"} \cup DOMAIN PointFields \cup DOMAIN ExampleFields

Lookalike == Object([t |-> <<"String", "i32">>, v |-> <<"F64", 5>>])
AnExample == [
    i32 |-> -16, u32 |-> 31, i64 |-> -64, u64 |-> 64, f64 |-> 1024, bool |-> TRUE,
    string |-> "null", vec |-> <<<<"String", "v">>, <<"U64", 3>>>>, object |-> Lookalike,
    u8 |-> 3, nested |-> [x |-> 5, y |-> -5], ip |-> <<127, 0, 0, 1>>]

\* Every kind of type, at the ends of its range and past the mantissa.
MCNatives == [
    t |-> {<<"i8", -2>>, <<"i64", 127>>, <<"u64", 193>>, <<"isize", 64>>, <<"f32", 15>>,
           <<"f64", Huge>>, <<"f64", MCInfinity>>, <<"unit", "unit">>,
           <<"Vec", <<<<"I64", -67>>, Null>>>>, <<"KvsMap", Lookalike>>,
           <<"IpAddr", <<10, 0, 0, 1>>>>, <<"Example", AnExample>>},
    v |-> {<<"u16", 7>>}]

MCPayloads == {
    <<"Number", 5>>,
    <<"Object", Object([t |-> <<"String", "i32">>,
                        v |-> <<"Array", <<<<"Boolean", TRUE>>, Null>>>>])>>}

\* No defaults, or defaults as flush writes a map.
MCDefaultsFiles == {Missing, CreateDefaultsFile(Object([v |-> <<"I32", 2>>]))}
=============================================================================
