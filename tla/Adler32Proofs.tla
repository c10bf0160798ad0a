---------------------------- MODULE Adler32Proofs ----------------------------
(***************************************************************************)
(* What is proved about the checksum of the C++ store: for every size of   *)
(* words, bytes and blocks that BlockAssumption allows, the sums that are  *)
(* reduced once per block are those of Adler-32, whatever the data, and    *)
(* the hash file tells them from those of other data.                      *)
(*                                                                         *)
(* Both follow from bounds on the sums in terms of the bytes of the block  *)
(* that were added: the modulus of the word then never takes effect.       *)
(***************************************************************************)
EXTENDS Adler32, TLAPS

-----------------------------------------------------------------------------
(* Arithmetic *)

LEMMA Division ==
    ASSUME NEW x \in Nat, NEW m \in Nat \ {0}
    PROVE  /\ x = m * (x \div m) + (x % m)
           /\ x % m \in 0 .. m - 1
           /\ x \div m \in Nat
OBVIOUS

LEMMA Products ==
    ASSUME NEW p \in Nat, NEW i \in Nat
    PROVE  p * i \in Nat /\ p * (i + 1) = p * i + p /\ p * i = i * p
OBVIOUS

LEMMA ProductsGrow ==
    ASSUME NEW p \in Nat, NEW i \in Nat, NEW k \in Nat, i <= k
    PROVE  p * i <= p * k
OBVIOUS

\* Quotient and remainder are unique.
LEMMA Quotient ==
    ASSUME NEW x \in Nat, NEW m \in Nat \ {0}, NEW q \in Nat, NEW r \in 0 .. m - 1,
           x = m * q + r
    PROVE  x % m = r /\ x \div m = q
<1> DEFINE d == x \div m
<1>1. x = m * d + (x % m) /\ x % m \in 0 .. m - 1 /\ d \in Nat
  BY Division
<1> HIDE DEF d
<1>2. ~(d + 1 <= q)
  <2>1. SUFFICES ASSUME d + 1 <= q PROVE FALSE
    OBVIOUS
  <2>2. m * (d + 1) <= m * q
    BY <1>1, <2>1, ProductsGrow
  <2>3. m * (d + 1) = m * d + m /\ m * d \in Nat /\ m * q \in Nat
    BY <1>1, Products
  <2> QED BY <1>1, <2>2, <2>3
<1>3. ~(q + 1 <= d)
  <2>1. SUFFICES ASSUME q + 1 <= d PROVE FALSE
    OBVIOUS
  <2>2. m * (q + 1) <= m * d
    BY <1>1, <2>1, ProductsGrow
  <2>3. m * (q + 1) = m * q + m /\ m * d \in Nat /\ m * q \in Nat
    BY <1>1, Products
  <2> QED BY <1>1, <2>2, <2>3
<1>4. d = q
  BY <1>1, <1>2, <1>3
<1>5. x % m = r
  BY <1>1, <1>4, Products
<1> QED BY <1>4, <1>5 DEF d

\* A summand may be reduced before it is added.
LEMMA ReduceFirst ==
    ASSUME NEW x \in Nat, NEW c \in Nat, NEW m \in Nat \ {0}
    PROVE  (x + c) % m = ((x % m) + c) % m
<1> DEFINE y == (x % m) + c
           u == y \div m
           t == x \div m
<1>1. x = m * t + (x % m) /\ x % m \in 0 .. m - 1 /\ t \in Nat
  BY Division
<1>2. y \in Nat
  BY <1>1
<1> HIDE DEF y, t
<1>3. y = m * u + (y % m) /\ y % m \in 0 .. m - 1 /\ u \in Nat
  BY <1>2, Division
<1> HIDE DEF u
<1>4. m * (t + u) = m * t + m * u
  BY <1>1, <1>3
<1>5. x + c = m * (t + u) + (y % m)
  <2>1. m * t \in Nat /\ m * u \in Nat
    BY <1>1, <1>3, Products
  <2> QED BY <1>1, <1>3, <1>4, <2>1 DEF y
<1>6. (x + c) % m = y % m
  <2>1. x + c \in Nat /\ t + u \in Nat
    BY <1>1, <1>3
  <2> DEFINE r == y % m
  <2>2. r \in 0 .. m - 1 /\ x + c = m * (t + u) + r
    BY <1>3, <1>5
  <2> HIDE DEF r
  <2>3. (x + c) % m = r
    BY <2>1, <2>2, Quotient
  <2> QED BY <2>3 DEF r
<1> QED BY <1>6 DEF y

LEMMA Small ==
    ASSUME NEW m \in Nat \ {0}, NEW x \in 0 .. m - 1
    PROVE  x % m = x
BY Quotient

-----------------------------------------------------------------------------
(* Bounds on the sums *)

Top == ByteSize - 1

\* Twice the largest second sum after i bytes of a block.
Most(i) == 2 * ((Base - 1) * (i + 1)) + Top * (i * (i + 1))

SumsInv ==
    /\ a \in Nat /\ b \in Nat /\ j \in 0 .. NMax /\ done \in BOOLEAN
    /\ refA \in 0 .. Base - 1 /\ refB \in 0 .. Base - 1
    /\ a <= (Base - 1) + Top * j
    /\ 2 * b <= Most(j)
    /\ done => j = 0
    /\ SumsExact

LEMMA Sizes ==
    /\ Base \in Nat \ {0} /\ Base - 1 \in Nat /\ 1 <= Base - 1
    /\ ByteSize \in Nat \ {0} /\ Top \in Nat
    /\ Half \in Nat \ {0} /\ Word \in Nat \ {0} /\ Base <= Half
    /\ NMax \in Nat \ {0}
<1>1. ByteSize # 0
  BY SizesAssumption DEF Half
<1>2. Half \in Nat \ {0}
  BY SizesAssumption DEF Half
<1>3. Word \in Nat \ {0}
  BY <1>2 DEF Word
<1> QED BY <1>1, <1>2, <1>3, SizesAssumption DEF Top

\* One more byte raises the bound by what it can add.
LEMMA MostGrows ==
    ASSUME NEW i \in Nat
    PROVE  /\ Most(i) \in Nat
           /\ Most(i + 1) = Most(i) + 2 * ((Base - 1) + Top * (i + 1))
<1>1. Base - 1 \in Nat /\ Top \in Nat
  BY Sizes
<1> DEFINE p == Base - 1
           s == Top
<1> HIDE DEF p, s
<1>2. p \in Nat /\ s \in Nat
  BY <1>1 DEF p, s
<1>3. i * (i + 1) \in Nat
  BY Products
<1>4. p * (i + 1) \in Nat /\ s * (i * (i + 1)) \in Nat
  BY <1>2, <1>3, Products
<1>5. p * ((i + 1) + 1) = p * (i + 1) + p
  BY <1>2, Products
<1>6. (i + 1) * ((i + 1) + 1) = i * (i + 1) + 2 * (i + 1)
  OBVIOUS
<1>7. s * ((i + 1) * ((i + 1) + 1)) = s * (i * (i + 1)) + 2 * (s * (i + 1))
  BY <1>2, <1>6
<1>8. s * (i + 1) \in Nat
  BY <1>2, Products
<1> QED BY <1>2, <1>4, <1>5, <1>7, <1>8 DEF Most, p, s

LEMMA MostFits ==
    ASSUME NEW i \in 0 .. NMax
    PROVE  Most(i) < 2 * Word
<1>1. Base - 1 \in Nat /\ Top \in Nat /\ NMax \in Nat
  BY Sizes
<1>2. (Base - 1) * (i + 1) <= (Base - 1) * (NMax + 1)
  BY <1>1, ProductsGrow
<1>3. i * (i + 1) <= NMax * (NMax + 1)
  <2>1. i * (i + 1) <= i * (NMax + 1)
    BY <1>1, ProductsGrow
  <2>2. (NMax + 1) * i <= (NMax + 1) * NMax
    BY <1>1, ProductsGrow
  <2>3. (NMax + 1) * i = i * (NMax + 1) /\ (NMax + 1) * NMax = NMax * (NMax + 1)
    BY <1>1, Products
  <2>4. i * (i + 1) \in Nat /\ i * (NMax + 1) \in Nat /\ NMax * (NMax + 1) \in Nat
    BY <1>1, Products
  <2> QED BY <2>1, <2>2, <2>3, <2>4
<1>4. i * (i + 1) \in Nat /\ NMax * (NMax + 1) \in Nat
  BY <1>1, Products
<1>5. Top * (i * (i + 1)) <= Top * (NMax * (NMax + 1))
  BY <1>1, <1>3, <1>4, ProductsGrow
<1>6. /\ (Base - 1) * (i + 1) \in Nat /\ (Base - 1) * (NMax + 1) \in Nat
      /\ Top * (i * (i + 1)) \in Nat /\ Top * (NMax * (NMax + 1)) \in Nat
  BY <1>1, <1>4, Products
<1>7. 2 * ((Base - 1) * (NMax + 1)) + Top * (NMax * (NMax + 1)) < 2 * Word
  BY BlockAssumption DEF Top
<1>8. Word \in Nat
  BY Sizes
<1> QED BY <1>2, <1>5, <1>6, <1>7, <1>8 DEF Most

-----------------------------------------------------------------------------
(* The sums *)

LEMMA SumsInit == Init => SumsInv
<1> SUFFICES ASSUME Init PROVE SumsInv
  OBVIOUS
<1>1. Base \in Nat \ {0} /\ 1 <= Base - 1 /\ Top \in Nat /\ NMax \in Nat
  BY Sizes
<1>2. a = 1 /\ b = 0 /\ j = 0 /\ done = FALSE /\ refA = 1 % Base /\ refB = 0
  BY DEF Init
<1>3. 1 % Base = 1 /\ 0 % Base = 0
  BY <1>1, Small
<1>4. Most(0) \in Nat
  BY MostGrows
<1>5. Top * 0 = 0
  BY <1>1
<1>6. a <= (Base - 1) + Top * j
  BY <1>1, <1>2, <1>5
<1>7. 2 * b <= Most(j)
  BY <1>2, <1>4
<1>8. SumsExact
  BY <1>2, <1>3 DEF SumsExact
<1>9. refA \in 0 .. Base - 1 /\ refB \in 0 .. Base - 1
  BY <1>1, <1>2, <1>3
<1>10. a \in Nat /\ b \in Nat /\ j \in 0 .. NMax
  BY <1>1, <1>2
<1>11. done \in BOOLEAN /\ (done => j = 0)
  BY <1>2
<1> QED BY <1>6, <1>7, <1>8, <1>9, <1>10, <1>11 DEF SumsInv

LEMMA SumsAdd ==
    ASSUME SumsInv, NEW c \in Byte, Add(c)
    PROVE  SumsInv'
<1>1. /\ Base \in Nat \ {0} /\ Base - 1 \in Nat /\ Top \in Nat
      /\ Word \in Nat \ {0} /\ NMax \in Nat
  BY Sizes
<1>2. c \in Nat /\ c <= Top
  BY Sizes DEF Byte, Top
<1>3. /\ a \in Nat /\ b \in Nat /\ j \in Nat /\ a <= (Base - 1) + Top * j
      /\ 2 * b <= Most(j) /\ ~done /\ j < NMax
      /\ a % Base = refA /\ b % Base = refB
  BY <1>1 DEF SumsInv, SumsExact, Add, BlockLength
<1>4. a + c <= (Base - 1) + Top * (j + 1)
  <2>1. Top * (j + 1) = Top * j + Top /\ Top * j \in Nat
    BY <1>1, <1>3, Products
  <2> QED BY <1>1, <1>2, <1>3, <2>1
<1>5. 2 * (b + (a + c)) <= Most(j + 1)
  <2>1. Most(j) \in Nat /\ Most(j + 1) = Most(j) + 2 * ((Base - 1) + Top * (j + 1))
    BY <1>3, MostGrows
  <2>2. Top * (j + 1) \in Nat
    BY <1>1, <1>3, Products
  <2> QED BY <1>1, <1>2, <1>3, <1>4, <2>1, <2>2
<1>6. b + (a + c) < Word /\ a + c < Word
  <2>1. j + 1 \in 0 .. NMax /\ Most(j + 1) \in Nat
    BY <1>1, <1>3, MostGrows
  <2>2. Most(j + 1) < 2 * Word
    BY <2>1, MostFits
  <2> QED BY <1>1, <1>2, <1>3, <1>5, <2>1, <2>2
<1>7. a' = a + c
  <2>1. a + c \in 0 .. Word - 1
    BY <1>1, <1>2, <1>3, <1>6
  <2>2. (a + c) % Word = a + c
    BY <1>1, <2>1, Small
  <2> QED BY <2>2 DEF Add
<1>8. b' = b + (a + c)
  <2>1. b + (a + c) \in 0 .. Word - 1
    BY <1>1, <1>2, <1>3, <1>6
  <2>2. (b + (a + c)) % Word = b + (a + c)
    BY <1>1, <2>1, Small
  <2> QED BY <1>7, <2>2 DEF Add
<1>9. a' % Base = refA' /\ refA' \in 0 .. Base - 1
  <2>1. (a + c) % Base = (refA + c) % Base
    BY <1>1, <1>2, <1>3, ReduceFirst
  <2>2. (a + c) % Base \in 0 .. Base - 1
    BY <1>1, <1>2, <1>3, Division
  <2> QED BY <1>7, <2>1, <2>2 DEF Add
<1>10. b' % Base = refB' /\ refB' \in 0 .. Base - 1
  <2>1. a' \in Nat /\ refA' \in Nat
    BY <1>2, <1>3, <1>7, <1>9, <1>1
  <2>2. (b + a') % Base = (refB + a') % Base
    BY <1>1, <1>3, <2>1, ReduceFirst
  <2>3. (a' + refB) % Base = (refA' + refB) % Base
    <3>1. refB \in Nat
      BY <1>1 DEF SumsInv
    <3> QED BY <1>1, <1>9, <2>1, <3>1, ReduceFirst
  <2>4. refB + a' = a' + refB /\ refB + refA' = refA' + refB
    BY <1>1, <2>1 DEF SumsInv
  <2>5. b' \in Nat
    BY <1>2, <1>3, <1>8
  <2>6. b' % Base \in 0 .. Base - 1
    BY <1>1, <2>5, Division
  <2>7. b' = b + a' /\ refB' = (refB + refA') % Base
    BY <1>7, <1>8 DEF Add
  <2> QED BY <2>2, <2>3, <2>4, <2>6, <2>7
<1>11. j' = j + 1 /\ j + 1 \in 0 .. NMax /\ done' = done
  BY <1>1, <1>3 DEF Add
<1>12. Most(j)' = Most(j + 1)
  BY <1>11 DEF Most, Top
<1>13. a' \in Nat /\ b' \in Nat
  BY <1>2, <1>3, <1>7, <1>8
<1>14. a' <= (Base - 1) + Top * j'
  BY <1>4, <1>7, <1>11
<1>15. 2 * b' <= Most(j)'
  BY <1>5, <1>8, <1>12
<1> QED
  BY <1>3, <1>9, <1>10, <1>11, <1>13, <1>14, <1>15 DEF SumsInv, SumsExact, Top

LEMMA SumsReduce ==
    ASSUME SumsInv, Reduce
    PROVE  SumsInv'
<1>1. Base \in Nat \ {0} /\ Base - 1 \in Nat /\ Top \in Nat /\ NMax \in Nat
  BY Sizes
<1>2. a \in Nat /\ b \in Nat /\ a % Base = refA /\ b % Base = refB
  BY DEF SumsInv, SumsExact
<1>3. a' = refA /\ b' = refB /\ refA' = refA /\ refB' = refB /\ j' = 0 /\ done' \in BOOLEAN
  BY <1>2 DEF Reduce
<1>4. refA \in 0 .. Base - 1 /\ refB \in 0 .. Base - 1
  BY DEF SumsInv
<1>5. refA % Base = refA /\ refB % Base = refB
  BY <1>1, <1>4, Small
<1>6. Most(0) = 2 * (Base - 1) /\ Top * 0 = 0
  BY <1>1 DEF Most
<1>7. Most(j)' = Most(0)
  BY <1>3 DEF Most, Top
<1>8. 2 * b' <= Most(j)' /\ a' <= (Base - 1) + Top * j'
  BY <1>1, <1>3, <1>4, <1>6, <1>7
<1>9. a' \in Nat /\ b' \in Nat
  BY <1>1, <1>3, <1>4
<1> QED BY <1>1, <1>3, <1>4, <1>5, <1>8, <1>9 DEF SumsInv, SumsExact, Top

LEMMA SumsInvariant == Spec => []SumsInv
<1>1. Init => SumsInv
  BY SumsInit
<1>2. SumsInv /\ [Next]_vars => SumsInv'
  <2> SUFFICES ASSUME SumsInv, [Next]_vars PROVE SumsInv'
    OBVIOUS
  <2>1. ASSUME NEW c \in Byte, Add(c) PROVE SumsInv'
    BY <2>1, SumsAdd
  <2>2. CASE Reduce
    BY <2>2, SumsReduce
  <2>3. CASE UNCHANGED vars
    BY <2>3 DEF vars, SumsInv, SumsExact, Most
  <2> QED BY <2>1, <2>2, <2>3 DEF Next
<1> QED BY <1>1, <1>2, PTL DEF Spec

\* calculate_hash_adler32 computes Adler-32: no block is long enough for a sum
\* to overflow before it is reduced, whatever the bytes and however many.
THEOREM SumsAreExact == Spec => []SumsExact
<1>1. SumsInv => SumsExact
  BY DEF SumsInv
<1> QED BY <1>1, SumsInvariant, PTL

-----------------------------------------------------------------------------
(* The hash file *)

LEMMA DivideTwice ==
    ASSUME NEW x \in Nat, NEW m \in Nat \ {0}, NEW n \in Nat \ {0}
    PROVE  m * n \in Nat \ {0} /\ (x \div m) \div n = x \div (m * n)
<1> DEFINE q == x \div m
           u == q \div n
           r == x % m
           t == q % n
<1>1. x = m * q + r /\ r \in 0 .. m - 1 /\ q \in Nat
  BY Division
<1> HIDE DEF q, r
<1>2. q = n * u + t /\ t \in 0 .. n - 1 /\ u \in Nat
  BY <1>1, Division
<1> HIDE DEF u, t
<1>3. m * n \in Nat \ {0}
  OBVIOUS
<1>4. x = (m * n) * u + (m * t + r)
  <2>1. m * (n * u + t) = (m * n) * u + m * t
    BY <1>2
  <2>2. (m * n) * u \in Nat /\ m * t \in Nat
    BY <1>2, <1>3, Products
  <2>3. m * q = (m * n) * u + m * t
    BY <1>2, <2>1
  <2> QED BY <1>1, <2>2, <2>3
<1>5. m * t + r \in 0 .. (m * n) - 1
  <2>1. m * (t + 1) <= m * n
    BY <1>2, ProductsGrow
  <2>2. m * (t + 1) = m * t + m /\ m * t \in Nat
    BY <1>2, Products
  <2> QED BY <1>1, <1>3, <2>1, <2>2
<1> DEFINE rest == m * t + r
<1> HIDE DEF rest
<1>6. rest \in 0 .. (m * n) - 1 /\ x = (m * n) * u + rest
  BY <1>4, <1>5 DEF rest
<1>7. x \div (m * n) = u
  <2> DEFINE mn == m * n
  <2> HIDE DEF mn
  <2>1. mn \in Nat \ {0} /\ rest \in 0 .. mn - 1 /\ x = mn * u + rest
    BY <1>3, <1>6 DEF mn
  <2>2. x \div mn = u
    BY <1>2, <2>1, Quotient
  <2> QED BY <2>2 DEF mn
<1> QED BY <1>3, <1>7 DEF q, u

\* The four bytes of a word, taken together again, are the word.
LEMMA ParseInverts ==
    ASSUME NEW h \in Nat, h < Word
    PROVE  Parse(HashBytes(h)) = h
<1> DEFINE n == ByteSize
           h1 == h \div n
           h2 == h \div Half
           h3 == h \div (Half * n)
           b0 == h % n
           b1 == h1 % n
           b2 == h2 % n
<1>1. n \in Nat \ {0} /\ Half \in Nat \ {0} /\ Half = n * n
  BY Sizes DEF Half
<1>2. Half * n \in Nat \ {0} /\ h1 \div n = h2 /\ h2 \div n = h3
  <2>1. h1 \div n = h \div (n * n)
    <3>1. n \in Nat \ {0}
      BY <1>1
    <3> HIDE DEF n
    <3> QED BY <3>1, DivideTwice
  <2>2. h2 \div n = h \div (Half * n) /\ Half * n \in Nat \ {0}
    BY <1>1, DivideTwice
  <2> QED BY <1>1, <2>1, <2>2
<1>3. h = n * h1 + b0 /\ h1 \in Nat /\ b0 \in 0 .. n - 1
  BY <1>1, Division
<1>4. h1 = n * h2 + b1 /\ h2 \in Nat /\ b1 \in 0 .. n - 1
  <2> HIDE DEF h1
  <2>1. h1 = n * (h1 \div n) + (h1 % n) /\ h1 % n \in 0 .. n - 1 /\ h1 \div n \in Nat
    BY <1>1, <1>3, Division
  <2> HIDE DEF h2
  <2> QED BY <1>2, <2>1
<1>5. h2 = n * h3 + b2 /\ h3 \in Nat /\ b2 \in 0 .. n - 1
  <2> HIDE DEF h2
  <2>1. h2 = n * (h2 \div n) + (h2 % n) /\ h2 % n \in 0 .. n - 1 /\ h2 \div n \in Nat
    BY <1>1, <1>4, Division
  <2> HIDE DEF h3
  <2> QED BY <1>2, <2>1
<1>6. Parse(HashBytes(h)) = b0 + n * b1 + Half * b2 + Half * n * (h3 % n)
  BY DEF Parse, HashBytes
<1> HIDE DEF n, h1, h2, h3, b0, b1, b2
<1>7. h = b0 + n * b1 + Half * b2 + Half * n * h3
  <2>1. n * h2 = n * (n * h3) + n * b2
    BY <1>1, <1>5
  <2>2. n * h1 = n * (n * h2) + n * b1
    BY <1>1, <1>4
  <2>3. n * (n * h2) = n * (n * (n * h3)) + n * (n * b2)
    BY <1>1, <1>5
  <2>4. n * (n * b2) = Half * b2 /\ n * (n * (n * h3)) = Half * n * h3
    BY <1>1, <1>5
  <2>5. n * b1 \in Nat /\ Half * b2 \in Nat /\ Half * n * h3 \in Nat
    BY <1>1, <1>2, <1>4, <1>5, Products
  <2> QED BY <1>3, <2>2, <2>3, <2>4, <2>5
<1>8. h3 < n
  <2> SUFFICES ASSUME n <= h3 PROVE FALSE
    BY <1>1, <1>5
  <2>1. (Half * n) * n <= (Half * n) * h3
    BY <1>1, <1>2, <1>5, ProductsGrow
  <2>2. (Half * n) * n = Half * Half
    BY <1>1
  <2>3. n * b1 \in Nat /\ Half * b2 \in Nat /\ (Half * n) * h3 \in Nat /\ Half * Half \in Nat
    BY <1>1, <1>2, <1>4, <1>5, Products
  <2>4. Half * Half <= h
    BY <1>3, <1>7, <2>1, <2>2, <2>3
  <2> QED BY <2>3, <2>4 DEF Word
<1>9. h3 % n = h3
  BY <1>1, <1>5, <1>8, Small
<1> QED BY <1>6, <1>7, <1>9

\* Two sums below Half are told apart by the word they make.
LEMMA WordOfSums ==
    ASSUME NEW x \in 0 .. Base - 1, NEW y \in 0 .. Base - 1
    PROVE  /\ y * Half + x \in Nat /\ y * Half + x < Word
           /\ (y * Half + x) % Half = x /\ (y * Half + x) \div Half = y
<1>1. Half \in Nat \ {0} /\ Base <= Half /\ Base \in Nat
  BY Sizes
<1>2. x \in 0 .. Half - 1 /\ y \in Nat /\ y + 1 <= Half
  BY <1>1
<1> DEFINE h == y * Half + x
<1>3. y * Half = Half * y /\ Half * y \in Nat
  BY <1>1, <1>2, Products
<1>4. h \in Nat /\ h = Half * y + x
  BY <1>2, <1>3
<1> HIDE DEF h
<1>5. h % Half = x /\ h \div Half = y
  BY <1>1, <1>2, <1>4, Quotient
<1>6. h < Word
  <2>1. Half * (y + 1) <= Half * Half
    BY <1>1, <1>2, ProductsGrow
  <2>2. Half * (y + 1) = Half * y + Half /\ Half * Half \in Nat
    BY <1>1, <1>2, Products
  <2> QED BY <1>1, <1>2, <1>3, <1>4, <2>1, <2>2 DEF Word
<1> QED BY <1>4, <1>5, <1>6 DEF h

\* Four bytes, taken together to a word, are the bytes of the word.
LEMMA BytesInvert ==
    ASSUME NEW buf \in [1 .. 4 -> Byte]
    PROVE  HashBytes(Parse(buf)) = buf
<1> DEFINE n == ByteSize
           x2 == n * buf[1] + buf[2]
           x1 == n * x2 + buf[3]
           x0 == n * x1 + buf[4]
<1>1. n \in Nat \ {0} /\ Half \in Nat \ {0} /\ Half = n * n
  BY Sizes DEF Half
<1>2. /\ buf[1] \in 0 .. n - 1 /\ buf[2] \in 0 .. n - 1
      /\ buf[3] \in 0 .. n - 1 /\ buf[4] \in 0 .. n - 1
  BY DEF Byte
<1>3. x2 \in Nat /\ x1 \in Nat /\ x0 \in Nat
  BY <1>1, <1>2, Products
<1>4. Parse(buf) = x0
  <2>1. n * x1 = n * (n * x2) + n * buf[3]
    BY <1>1, <1>2, <1>3
  <2>2. n * x2 = n * (n * buf[1]) + n * buf[2]
    BY <1>1, <1>2
  <2>3. n * (n * x2) = n * (n * (n * buf[1])) + n * (n * buf[2])
    BY <1>1, <1>2, <1>3, <2>2
  <2>4. n * (n * buf[2]) = Half * buf[2] /\ n * (n * (n * buf[1])) = Half * n * buf[1]
    BY <1>1, <1>2
  <2>5. n * buf[3] \in Nat /\ Half * buf[2] \in Nat /\ Half * n * buf[1] \in Nat
    BY <1>1, <1>2, Products
  <2>6. Parse(buf) = buf[4] + n * buf[3] + Half * buf[2] + Half * n * buf[1]
    BY DEF Parse
  <2> HIDE DEF x1, x2
  <2>7. x0 = (Half * n * buf[1] + Half * buf[2]) + n * buf[3] + buf[4]
    BY <2>1, <2>3, <2>4
  <2> HIDE DEF n, x0
  <2> QED BY <1>2, <2>5, <2>6, <2>7
<1> HIDE DEF x0
<1>5. x0 % n = buf[4] /\ x0 \div n = x1
  <2> HIDE DEF x1
  <2> QED BY <1>1, <1>2, <1>3, Quotient DEF x0
<1> HIDE DEF x1
<1>6. x1 % n = buf[3] /\ x1 \div n = x2
  <2> HIDE DEF x2
  <2> QED BY <1>1, <1>2, <1>3, Quotient DEF x1
<1> HIDE DEF x2
<1>7. x2 % n = buf[2] /\ x2 \div n = buf[1]
  BY <1>1, <1>2, <1>3, Quotient DEF x2
<1>8. buf[1] % n = buf[1]
  BY <1>1, <1>2, Small
<1>9. x0 \div Half = x2
  <2>1. (x0 \div n) \div n = x0 \div (n * n)
    <3>1. n \in Nat \ {0} /\ x0 \in Nat
      BY <1>1, <1>3
    <3> HIDE DEF n
    <3> QED BY <3>1, DivideTwice
  <2> QED BY <1>1, <1>5, <1>6, <2>1
<1>10. x0 \div (Half * n) = buf[1]
  <2>1. (x0 \div Half) \div n = x0 \div (Half * n)
    <3>1. n \in Nat \ {0} /\ Half \in Nat \ {0} /\ x0 \in Nat
      BY <1>1, <1>3
    <3> HIDE DEF n
    <3> QED BY <3>1, DivideTwice
  <2> QED BY <1>7, <1>9, <2>1
<1>11. HashBytes(x0) = <<buf[1], buf[2], buf[3], buf[4]>>
  BY <1>5, <1>6, <1>7, <1>8, <1>9, <1>10 DEF HashBytes
<1>12. <<buf[1], buf[2], buf[3], buf[4]>> = buf
  OBVIOUS
<1> QED BY <1>4, <1>11, <1>12

\* Whatever the hash file holds, four bytes are read.
LEMMA BufferTyped ==
    ASSUME NEW file \in HashFiles
    PROVE  Buffer(file) \in [1 .. 4 -> Byte]
<1>1. PICK n \in 0 .. 5 : file \in [1 .. n -> Byte]
  BY DEF HashFiles
<1>2. Len(file) = n
  BY <1>1
<1>3. 0 \in Byte
  BY Sizes DEF Byte
<1>4. \A i \in 1 .. 4 : (IF i <= Len(file) THEN file[i] ELSE 0) \in Byte
  BY <1>1, <1>2, <1>3
<1> QED BY <1>4 DEF Buffer

\* check_hash accepts a file exactly when what it reads of the hash file are
\* the four bytes get_hash_bytes makes of the Adler-32 of the data: a hash file
\* that is cut short passes only when the bytes it lacks are zeros.
THEOREM HashTellsSums == Spec => []FileHashChecks
<1>1. ASSUME SumsInv PROVE FileHashChecks
  <2>1. SUFFICES ASSUME done, NEW file \in HashFiles
                 PROVE  CheckHash(file) <=> Buffer(file) = HashBytes(refB * Half + refA)
    BY DEF FileHashChecks
  <2>2. /\ a \in Nat /\ b \in Nat /\ j = 0 /\ a <= (Base - 1) + Top * j
        /\ 2 * b <= Most(j) /\ a % Base = refA /\ b % Base = refB
        /\ refA \in 0 .. Base - 1 /\ refB \in 0 .. Base - 1
    BY <1>1, <2>1 DEF SumsInv, SumsExact
  <2>3. Base \in Nat \ {0} /\ Base - 1 \in Nat /\ Top \in Nat /\ Word \in Nat \ {0}
    BY Sizes
  <2>4. Top * 0 = 0 /\ Most(0) = 2 * (Base - 1)
    BY <2>3 DEF Most
  <2>5. a \in 0 .. Base - 1 /\ b \in 0 .. Base - 1
    BY <2>2, <2>3, <2>4
  <2>6. a = refA /\ b = refB
    BY <2>2, <2>3, <2>5, Small
  <2> DEFINE h == b * Half + a
  <2>7. h \in Nat /\ h < Word
    BY <2>5, WordOfSums
  <2>8. Hash = h % Word
    BY DEF Hash
  <2>9. h = refB * Half + refA
    BY <2>6
  <2> HIDE DEF h
  <2>10. h \in 0 .. Word - 1
    BY <2>3, <2>7
  <2>11. Hash = h
    BY <2>3, <2>8, <2>10, Small
  <2>12. CheckHash(file) <=> Parse(Buffer(file)) = h
    BY <2>11 DEF CheckHash
  <2>13. HashBytes(Parse(Buffer(file))) = Buffer(file)
    BY BufferTyped, BytesInvert
  <2>14. Parse(HashBytes(h)) = h
    BY <2>7, ParseInverts
  <2>15. CheckHash(file) <=> Buffer(file) = HashBytes(h)
    BY <2>12, <2>13, <2>14
  <2> QED BY <2>9, <2>15
<1> QED BY <1>1, SumsInvariant, PTL

=============================================================================
