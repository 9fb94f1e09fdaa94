------------------------------ MODULE Encoding ------------------------------
(***************************************************************************)
(* Byte and word order (smod/encoding.go).  Pure: no state.                *)
(*                                                                         *)
(* An unsigned integer is the sequence of its bytes, the most significant  *)
(* first; registers are sequences of bytes as they are on the wire, two of *)
(* them to a register.  A byte has Base values (256).  The 16-, 32- and    *)
(* 64-bit functions of the code are one operator each here, since they     *)
(* differ in the number of bytes only.                                     *)
(***************************************************************************)
EXTENDS Integers, SequencesExt

CONSTANT Base

ASSUME BaseAssumption == Base \in Nat /\ Base >= 2 /\ Base % 2 = 0

Byte == 0 .. Base - 1

Endianness == {"big", "little"}
WordOrder  == {"high", "low"}   \* HighWordFirst, LowWordFirst

-----------------------------------------------------------------------------
\* PutUintN, and UintN, of binary.BigEndian and binary.LittleEndian: each its own
\* inverse.
PutUint(endianness, bytes) ==
    IF endianness = "big" THEN bytes ELSE Reverse(bytes)

\* Mutant of SwapWords: the registers are exchanged, and the bytes in each of them.
SwapWordsAndBytes(bytes) == Reverse(bytes)

\* The registers in the opposite order, the bytes of each as they were.
SwapWords(bytes) ==
    LET n == Len(bytes) IN
    [i \in 1 .. n |-> bytes[IF i % 2 = 1 THEN n - i ELSE n + 2 - i]]

\* "Swap words if needed".
WordsSwapped(endianness, wordOrder) ==
    \/ endianness = "big" /\ wordOrder = "low"
    \/ endianness = "little" /\ wordOrder = "high"

\* uint16ToBytes, uint32ToBytes, uint64ToBytes
UintToBytes(endianness, wordOrder, int) ==
    LET out == PutUint(endianness, int) IN
    IF WordsSwapped(endianness, wordOrder) THEN SwapWords(out) ELSE out

BytesToUint(endianness, wordOrder, in) ==
    PutUint(endianness,
            IF WordsSwapped(endianness, wordOrder) THEN SwapWords(in) ELSE in)

\* Zero in width bytes.
Zeros(width) == [i \in 1 .. width |-> 0]

\* bytesToUint16s, bytesToUint32s, bytesToUint64s: a length that is no multiple of
\* the width is logged and answered by a zero.
BytesToUints(endianness, wordOrder, width, in) ==
    IF Len(in) % width # 0
    THEN <<Zeros(width)>>
    ELSE [k \in 1 .. Len(in) \div width |->
            BytesToUint(endianness, wordOrder,
                        SubSeq(in, width * (k - 1) + 1, width * k))]
-----------------------------------------------------------------------------
Power(b, n) ==
    LET upTo[i \in 0 .. n] == IF i = 0 THEN 1 ELSE upTo[i - 1] * b
    IN upTo[n]

\* The number that bytes stand for, and the bytes of a number.
Number(bytes) ==
    LET upTo[i \in 0 .. Len(bytes)] ==
          IF i = 0 THEN 0 ELSE upTo[i - 1] * Base + bytes[i]
    IN upTo[Len(bytes)]
Digits(width, n) == [i \in 1 .. width |-> (n \div Power(Base, width - i)) % Base]

\* int16(u), int32(u), int64(u): two's complement.
Signed(bytes) ==
    IF 2 * bytes[1] >= Base THEN Number(bytes) - Power(Base, Len(bytes)) ELSE Number(bytes)

\* bytesToMod10_u32: two registers of four decimal digits each.
BytesToMod10(endianness, wordOrder, in) ==
    LET word(k) == Number(PutUint(endianness, SubSeq(in, 2 * k - 1, 2 * k))) IN
    IF Len(in) % 4 # 0 THEN 0
    ELSE IF wordOrder = "high" THEN word(1) * 10000 + word(2)
                               ELSE word(2) * 10000 + word(1)
-----------------------------------------------------------------------------
\* The order that SetEncoding is given for a point's ObjectEncoding.
Orders(encoding) ==
    CASE encoding = "leb_bew" -> <<"little", "high">>
      [] encoding = "leb_lew" -> <<"little", "low">>
      [] encoding = "beb_bew" -> <<"big", "high">>
      [] OTHER                -> <<"big", "low">>

\* What schema/modbus.go:16 promises of the four encodings, for any number of
\* registers: which byte of the wire is the i-th of the number.
\*   beb_bew ABCD   leb_bew BADC   beb_lew CDAB   leb_lew DCBA
Documented(encoding, in) ==
    LET n == Len(in)
        pair(i) == IF i % 2 = 1 THEN i + 1 ELSE i - 1 IN
    CASE encoding = "beb_bew" -> in
      [] encoding = "leb_bew" -> [i \in 1 .. n |-> in[pair(i)]]
      [] encoding = "leb_lew" -> [i \in 1 .. n |-> in[n + 1 - i]]
      [] OTHER                -> [i \in 1 .. n |-> in[n + 1 - pair(i)]]
=============================================================================
