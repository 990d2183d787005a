----------------------------- MODULE WireFormat -----------------------------
(***************************************************************************)
(* Integers as bytes in network order (src/execution/ouch/                 *)
(* ouch_wire_utils.hpp, src/common/endian.hpp), and buffers that are read  *)
(* and written at offsets.                                                 *)
(*                                                                         *)
(* An integer field has as many bytes as in the code; a byte of it holds a *)
(* digit of base Base instead of 256, so that eight of them stay within    *)
(* TLC's integers.  Characters are bytes with their ASCII codes.           *)
(***************************************************************************)
EXTENDS Integers, Sequences, SequencesExt

CONSTANTS Base,      \* values of a byte of an integer
          Nothing    \* nullptr, std::nullopt: no message

ASSUME BaseAssumption == Base \in Nat \ {0, 1}

\* Characters that mean something in a message.
Char == [A |-> 65, B |-> 66, C |-> 67, D |-> 68, E |-> 69, J |-> 74, L |-> 76, N |-> 78,
         O |-> 79, R |-> 82, S |-> 83, U |-> 85, X |-> 88, Y |-> 89, Zero |-> 48, Space |-> 32]

\* writeUint16, writeUint32 and writeUint64: the most significant byte first,
\* what does not fit cut off.
writeUint(value, width) == [i \in 1 .. width |-> (value \div Base ^ (width - i)) % Base]

\* readUint16, readUint32 and readUint64; fromBigEndian of a field.
readUint(bytes) == FoldLeft(LAMBDA value, byte : value * Base + byte, 0, bytes)

\* width bytes at an offset, which counts from 0.
At(data, offset, width) == SubSeq(data, offset + 1, offset + width)

Uint(data, offset, width) == readUint(At(data, offset, width))

Byte(data, offset) == data[offset + 1]

\* A buffer of size bytes, filled, with each field <<offset, bytes>> written in turn.
Buffer(size, fill, fields) ==
    FoldLeft(LAMBDA buffer, field :
                 [i \in 1 .. size |-> IF i \in field[1] + 1 .. field[1] + Len(field[2])
                                      THEN field[2][i - field[1]] ELSE buffer[i]],
             [i \in 1 .. size |-> fill], fields)
=============================================================================
