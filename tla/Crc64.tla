-------------------------------- MODULE Crc64 --------------------------------
(***************************************************************************)
(* The checksum of src/core/crc64.cpp, at its full width.  A word is the    *)
(* set of its bits that are set, 0 the lowest, so that exclusive or is the  *)
(* symmetric difference.                                                    *)
(***************************************************************************)
EXTENDS Integers, Sequences, FiniteSetsExt

\* 0x42F0E1EBA9EA3693, non-reflected; the term x^64 is implicit.
kPoly == {0, 1, 4, 7, 9, 10, 12, 13, 17, 19, 21, 22, 23, 24, 27, 29, 31, 32, 33, 35,
          37, 38, 39, 40, 45, 46, 47, 52, 53, 54, 55, 57, 62}

\* w << n in 64 bits; the top byte of w.
ShiftLeft(w, n) == {b + n : b \in {b \in w : b + n < 64}}
TopByte(w) == {b - 56 : b \in {b \in w : b >= 56}}

\* The bits of a byte, and back.
Bits(byte) == {b \in 0..7 : (byte \div 2^b) % 2 = 1}
Byte(bits) == MapThenSumSet(LAMBDA b : 2^b, bits)

\* One entry: the byte in the top position, divided bit by bit.
TableEntry(index) ==
    LET crc[bit \in 0..8] ==
            IF bit = 0 THEN ShiftLeft(Bits(index), 56)
            ELSE IF 63 \in crc[bit - 1] THEN SymDiff(ShiftLeft(crc[bit - 1], 1), kPoly)
            ELSE ShiftLeft(crc[bit - 1], 1)
    IN  crc[8]

Crc64Table == [index \in 0..255 |-> TableEntry(index)]

\* The checksum of a sequence of bytes, from 0 on.
crc64_ecma(bytes) ==
    LET crc[i \in 0..Len(bytes)] ==
            IF i = 0 THEN {}
            ELSE LET before == crc[i - 1]
                 IN  SymDiff(ShiftLeft(before, 8),
                             Crc64Table[Byte(SymDiff(TopByte(before), Bits(bytes[i])))])
    IN  crc[Len(bytes)]

\* The published check value of CRC-64/ECMA-182: "123456789" gives 0x6C40DF5F0B497347.
ASSUME CheckValue ==
    crc64_ecma(<<49, 50, 51, 52, 53, 54, 55, 56, 57>>)
        = {0, 1, 2, 6, 8, 9, 12, 13, 14, 16, 19, 22, 24, 25, 27, 32, 33, 34, 35, 36, 38,
           40, 41, 42, 43, 44, 46, 47, 54, 58, 59, 61, 62}
=============================================================================
