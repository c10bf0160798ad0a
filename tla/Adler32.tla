------------------------------- MODULE Adler32 -------------------------------
(***************************************************************************)
(* The checksum of the C++ store (cpp/src/internal/kvs_helper.cpp): two    *)
(* sums in unsigned words that are reduced once per block of bytes, and    *)
(* the four bytes of the hash file.                                        *)
(*                                                                         *)
(* The sizes are parameters.  In the code Base is 65521, NMax 5552 and     *)
(* ByteSize 256; a word is four bytes.                                     *)
(***************************************************************************)
EXTENDS Naturals, Sequences

CONSTANTS
    Base,       \* ADLER32_BASE
    NMax,       \* ADLER32_NMAX, the longest block
    ByteSize    \* the number of values of a byte

Byte == 0 .. ByteSize - 1
Half == ByteSize * ByteSize
Word == Half * Half

ASSUME SizesAssumption ==
    /\ Base \in Nat /\ NMax \in Nat /\ ByteSize \in Nat
    /\ 1 < Base /\ Base <= Half /\ 0 < NMax

\* The sums after a block of the largest bytes fit in a word.  With the sizes
\* of the code the left side is 8589380400 and the right side 8589934592.
ASSUME BlockAssumption ==
    2 * ((Base - 1) * (NMax + 1)) + (ByteSize - 1) * (NMax * (NMax + 1)) < 2 * Word

VARIABLES
    a, b,           \* the sums
    j,              \* bytes of the block that were added
    done,           \* whether the data are at their end
    refA, refB      \* the sums by definition, reduced after every byte

vars == <<a, b, j, done, refA, refB>>

\* The data are any sequence of bytes: one more comes, or they end.
Init ==
    /\ a = 1 /\ b = 0
    /\ j = 0
    /\ done = FALSE
    /\ refA = 1 % Base /\ refB = 0

\* Faulty variant: a block is one byte longer.
BlockLengthLong == NMax + 1

BlockLength == NMax

Add(c) ==
    /\ ~done
    /\ j < BlockLength
    /\ a' = (a + c) % Word
    /\ b' = (b + a') % Word
    /\ j' = j + 1
    /\ refA' = (refA + c) % Base
    /\ refB' = (refB + refA') % Base
    /\ UNCHANGED done

\* The end of a block, which is full or the last one.
Reduce ==
    /\ ~done
    /\ done' \in BOOLEAN
    /\ j = BlockLength \/ done'
    /\ a' = a % Base
    /\ b' = b % Base
    /\ j' = 0
    /\ UNCHANGED <<refA, refB>>

Next == (\E c \in Byte : Add(c)) \/ Reduce

Spec == Init /\ [][Next]_vars

-----------------------------------------------------------------------------
(* The hash file *)

\* b << 16 | a
Hash == (b * Half + a) % Word

HashBytes(h) ==
    <<h \div (Half * ByteSize) % ByteSize, h \div Half % ByteSize,
      h \div ByteSize % ByteSize, h % ByteSize>>

\* Faulty variant: the first byte is taken for the lowest.
ParseReversed(buf) ==
    buf[1] + ByteSize * buf[2] + Half * buf[3] + Half * ByteSize * buf[4]

Parse(buf) ==
    buf[4] + ByteSize * buf[3] + Half * buf[2] + Half * ByteSize * buf[1]

\* What is read into four bytes that were zeroed: the file may be shorter,
\* and what is beyond the fourth byte is not read.
Buffer(file) == [i \in 1 .. 4 |-> IF i <= Len(file) THEN file[i] ELSE 0]

CheckHash(file) == Parse(Buffer(file)) = Hash

\* Hash files that are cut short, whole, or too long.
HashFiles == UNION {[1 .. n -> Byte] : n \in 0 .. 5}

-----------------------------------------------------------------------------
(* Properties *)

\* No sum overflows between two reductions: modulo Base they are the sums of
\* Adler-32 by definition, for every sequence of bytes.
SumsExact == a % Base = refA /\ b % Base = refB

\* check_hash accepts a file exactly when the four bytes it has of the hash
\* file, with zeros for those that are missing, are the bytes get_hash_bytes
\* makes of the Adler-32 of the data: no hash file that was cut off before a
\* byte other than zero is accepted, nor that of other data.
FileHashChecks ==
    done => \A file \in HashFiles :
               CheckHash(file) <=> Buffer(file) = HashBytes(refB * Half + refA)

=============================================================================
