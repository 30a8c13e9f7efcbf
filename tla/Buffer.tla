------------------------------- MODULE Buffer -------------------------------
(***************************************************************************)
(* Class Buffer of Buffer.cpp: bytes, and one index at which both writing  *)
(* and reading go on.  A write that does not fit makes the vector longer,  *)
(* but only once or twice; a read of an integer where too few bytes are    *)
(* left starts over at 0; a read of a string ends with the bytes.          *)
(*                                                                         *)
(* A read results in the value and in the buffer it leaves behind.  The    *)
(* overloads that no program calls are left out: 16 bits, and strings at   *)
(* an index.                                                               *)
(***************************************************************************)
EXTENDS Integers, Sequences

Byte == 0..255

\* n times the same byte
Fill(x, n) == [i \in 1..n |-> x]

New(size) == [data |-> Fill(0, size), at |-> 0]

At(b, index) == [b EXCEPT !.at = index]

Grow(b, n) == [b EXCEPT !.data = @ \o Fill(0, n)]

\* Bytes that do not fit are written behind the vector.
Put(b, bytes) ==
  [data |-> [i \in DOMAIN b.data |-> IF i \in (b.at + 1)..(b.at + Len(bytes))
                                     THEN bytes[i - b.at] ELSE b.data[i]],
   at |-> b.at + Len(bytes)]

\* Byte k of a value that is not negative, as left by value >> 8 * k
Shifted(v, k) == (v \div 256 ^ k) % 256

WriteInt32LE(b, v) ==
  LET Fitting(c) == IF Len(c.data) < c.at + 4 THEN Grow(c, 4) ELSE c
  IN  Put(Fitting(Fitting(b)), [k \in 1..4 |-> Shifted(v, k - 1)])

\* The overload with an index makes an empty vector longer, and then any other.
WriteInt32LEAt(b, index, v) ==
  LET c == IF Len(b.data) < 4 THEN Grow(b, 4) ELSE b
      d == IF Len(c.data) < index + 4 THEN Grow(c, 4) ELSE c
  IN  Put(At(d, index), [k \in 1..4 |-> Shifted(v, k - 1)])

\* Sizes are unsigned: the difference is large when the index is behind the end.
WriteString(b, s) ==
  LET left == Len(b.data) - b.at
  IN  Put(IF left \in 0..(Len(s) - 1) THEN Grow(b, Len(s)) ELSE b, s)

\* Likewise, such an index is left where it is.
Start(b) == IF Len(b.data) - b.at \in 0..3 THEN 0 ELSE b.at

\* The vector holds the bytes that a read takes; otherwise its value is undefined.
CanReadInt32(b) == Start(b) + 4 <= Len(b.data)

\* The highest byte has the sign.
ReadInt32LE(b) ==
  LET d == [k \in 1..4 |-> b.data[Start(b) + k]]
      high == IF d[4] > 127 THEN d[4] - 256 ELSE d[4]
  IN  [value |-> d[1] + 256 * d[2] + 256 ^ 2 * d[3] + 256 ^ 3 * high,
       buffer |-> At(b, Start(b) + 4)]

ReadInt32LEAt(b, index) == ReadInt32LE(At(b, index))

\* A negative size is a very large one.
ReadString(b, size) ==
  LET left == Len(b.data) - b.at
      n == IF size < 0 \/ size > left THEN left ELSE size
  IN  [value |-> SubSeq(b.data, b.at + 1, b.at + n), buffer |-> At(b, b.at + n)]

\* setBuffer() leaves the index where it is.
SetBuffer(b, bytes) == [b EXCEPT !.data = bytes]
=============================================================================
