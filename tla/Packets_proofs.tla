--------------------------- MODULE Packets_proofs ---------------------------
(***************************************************************************)
(* Theorems about the way of a request through the three programs, for     *)
(* whatever users type and whatever lies in memory that was not written:   *)
(* what the servers take from their arrays, how often, and what the        *)
(* clients print.                                                          *)
(***************************************************************************)
EXTENDS PacketProperties, TLAPS, SequenceTheorems

-----------------------------------------------------------------------------
(* Bytes of an integer *)

LEMMA Division ==
  ASSUME NEW w \in Int, NEW d \in Nat \ {0}
  PROVE  /\ w \div d \in Int /\ w % d \in Int
         /\ w = d * (w \div d) + (w % d) /\ 0 <= w % d /\ w % d < d
BY SMT

LEMMA DivisionUnique ==
  ASSUME NEW d \in Nat \ {0}, NEW q \in Int, NEW r \in Int, NEW w \in Int,
         w = d * q + r, 0 <= r, r < d
  PROVE  w \div d = q /\ w % d = r
<1> DEFINE p == w \div d
           s == w % d
<1>1. w = d * p + s /\ 0 <= s /\ s < d /\ s \in Int /\ p \in Int
  BY Division
<1> HIDE DEF p, s
<1>2. d * (p - q) = r - s
  BY <1>1
<1>3. p - q = 0
  <2>1. CASE p - q >= 1
    <3>1. d * (p - q) >= d
      BY <1>1, <2>1
    <3> QED
      BY <1>1, <1>2, <3>1
  <2>2. CASE p - q <= -1
    <3>1. d * (q - p) >= d
      BY <1>1, <2>2
    <3> QED
      BY <1>1, <1>2, <3>1
  <2> QED
    BY <1>1, <2>1, <2>2
<1> QED
  BY <1>1, <1>2, <1>3 DEF p, s

LEMMA Powers == 256 ^ 0 = 1 /\ 256 ^ 1 = 256 /\ 256 ^ 2 = 65536 /\ 256 ^ 3 = 16777216
BY SMT

LEMMA ByteIsInt == \A x \in Byte : x \in Int /\ 0 <= x /\ x < 256
BY DEF Byte

LEMMA ShiftedIsByte ==
  ASSUME NEW v \in Int, NEW k \in 0..3
  PROVE  Shifted(v, k) \in Byte
<1>1. 256 ^ k \in Nat \ {0}
  <2>1. CASE k = 0
    BY <2>1, Powers
  <2>2. CASE k = 1
    BY <2>2, Powers
  <2>3. CASE k = 2
    BY <2>3, Powers
  <2>4. CASE k = 3
    BY <2>4, Powers
  <2> QED
    BY <2>1, <2>2, <2>3, <2>4
<1> DEFINE w == v \div 256 ^ k
<1>2. w \in Int
  BY <1>1, Division
<1> HIDE DEF w
<1>3. w % 256 \in Int /\ 0 <= w % 256 /\ w % 256 < 256
  BY <1>2, Division
<1> QED
  BY <1>3 DEF Shifted, Byte, w

\* The bytes of a value of less than 16 bits
LEMMA SmallValue ==
  ASSUME NEW v \in Int, 0 <= v, v < 65536
  PROVE  /\ Shifted(v, 0) + 256 * Shifted(v, 1) = v
         /\ Shifted(v, 2) = 0 /\ Shifted(v, 3) = 0
<1> DEFINE q == v \div 256
           r == v % 256
<1>1. v = 256 * q + r /\ r \in Int /\ 0 <= r /\ r < 256 /\ q \in Int
  BY Division
<1>2. v \div 1 = v /\ v \div 65536 = 0 /\ v \div 16777216 = 0 /\ 0 % 256 = 0
  BY DivisionUnique
<1> HIDE DEF q, r
<1>3. 0 <= q
  BY <1>1
<1>4. q < 256
  BY <1>1
<1>5. q % 256 = q
  BY <1>1, <1>3, <1>4, DivisionUnique
<1>6. Shifted(v, 0) = r /\ Shifted(v, 1) = q /\ Shifted(v, 2) = 0 /\ Shifted(v, 3) = 0
  BY <1>2, <1>5, Powers DEF Shifted, q, r
<1> QED
  BY <1>1, <1>6

-----------------------------------------------------------------------------
(* Buffers *)

IsBuffer(b) == b \in [data : Seq(Byte), at : Nat]

\* The bytes of d from i on are those of the value v, or of the string s, or of the size
\* and the bytes of s.
HasInt(d, i, v) == i + 4 <= Len(d) /\ \A k \in 1..4 : d[i + k] = Shifted(v, k - 1)
HasString(d, i, s) == i + Len(s) <= Len(d) /\ \A k \in 1..Len(s) : d[i + k] = s[k]
HasText(d, i, s) == HasInt(d, i, Len(s)) /\ HasString(d, i + 4, s)

\* Only the bytes behind i up to j differ.
SameOutside(d, e, i, j) ==
  Len(d) = Len(e) /\ \A k \in 1..Len(d) : k <= i \/ k > j => d[k] = e[k]

LEMMA FillSeq ==
  ASSUME NEW x \in Byte, NEW n \in Nat
  PROVE  Fill(x, n) \in Seq(Byte) /\ Len(Fill(x, n)) = n /\ \A i \in 1..n : Fill(x, n)[i] = x
BY DEF Fill

LEMMA NewBuffer ==
  ASSUME NEW n \in Nat
  PROVE  /\ IsBuffer(New(n)) /\ Len(New(n).data) = n /\ New(n).at = 0
         /\ \A i \in 1..n : New(n).data[i] = 0
<1>1. 0 \in Byte
  BY DEF Byte
<1> QED
  BY <1>1, FillSeq DEF New, IsBuffer

LEMMA GrowBuffer ==
  ASSUME NEW b, IsBuffer(b), NEW n \in Nat
  PROVE  /\ IsBuffer(Grow(b, n)) /\ Grow(b, n).at = b.at
         /\ Len(Grow(b, n).data) = Len(b.data) + n
         /\ \A i \in 1..Len(b.data) : Grow(b, n).data[i] = b.data[i]
<1>1. b.data \in Seq(Byte) /\ b.at \in Nat /\ 0 \in Byte
  BY DEF IsBuffer, Byte
<1>2. Fill(0, n) \in Seq(Byte) /\ Len(Fill(0, n)) = n
  BY <1>1, FillSeq
<1> DEFINE d == b.data
           f == Fill(0, n)
           e == d \o f
<1>3. d \in Seq(Byte) /\ f \in Seq(Byte) /\ Len(f) = n
  BY <1>1, <1>2
<1>4. Grow(b, n) = [b EXCEPT !.data = e]
  BY DEF Grow
<1> HIDE DEF d, f
<1>5. /\ e \in Seq(Byte) /\ Len(e) = Len(d) + n /\ Len(d) \in Nat
      /\ \A i \in 1..Len(d) : e[i] = d[i]
  <2>1. /\ e \in Seq(Byte) /\ Len(e) = Len(d) + Len(f)
        /\ \A i \in 1..(Len(d) + Len(f)) : e[i] = IF i <= Len(d) THEN d[i] ELSE f[i - Len(d)]
    BY <1>3, ConcatProperties
  <2> HIDE DEF e
  <2>2. Len(d) \in Nat
    BY <1>3
  <2>3. \A i \in 1..Len(d) : i \in 1..(Len(d) + Len(f)) /\ i <= Len(d)
    BY <1>3, <2>2
  <2> QED
    BY <1>3, <2>1, <2>2, <2>3
<1> HIDE DEF e
<1>6. Grow(b, n) = [data |-> e, at |-> b.at]
  BY <1>4 DEF IsBuffer
<1> QED
  BY <1>1, <1>5, <1>6 DEF IsBuffer, d, e

LEMMA FunctionSeq ==
  ASSUME NEW n \in Nat, NEW e \in [1..n -> Byte]
  PROVE  e \in Seq(Byte) /\ Len(e) = n
OBVIOUS

LEMMA PutBytes ==
  ASSUME NEW b, IsBuffer(b), NEW s \in Seq(Byte), b.at + Len(s) <= Len(b.data)
  PROVE  /\ IsBuffer(Put(b, s)) /\ Put(b, s).at = b.at + Len(s)
         /\ HasString(Put(b, s).data, b.at, s)
         /\ SameOutside(Put(b, s).data, b.data, b.at, b.at + Len(s))
<1> DEFINE at == b.at
           d == b.data
           e == Put(b, s).data
<1>1. /\ at \in Nat /\ d \in Seq(Byte) /\ Len(d) \in Nat /\ Len(s) \in Nat /\ at + Len(s) \in Nat
      /\ DOMAIN d = 1..Len(d)
      /\ \A i \in 1..Len(d) : d[i] \in Byte
      /\ \A i \in 1..Len(s) : s[i] \in Byte
  BY LenProperties, ElementOfSeq DEF IsBuffer
<1>2. e = [i \in 1..Len(d) |-> IF i \in (at + 1)..(at + Len(s)) THEN s[i - at] ELSE d[i]]
      /\ Put(b, s).at = at + Len(s) /\ Put(b, s) = [data |-> e, at |-> at + Len(s)]
  BY <1>1 DEF Put
<1> HIDE DEF at, d, e
<1>3. e \in [1..Len(d) -> Byte]
  BY <1>1, <1>2
<1>4. e \in Seq(Byte) /\ Len(e) = Len(d)
  BY <1>1, <1>3, FunctionSeq
<1>5. \A k \in 1..Len(s) : e[at + k] = s[k]
  BY <1>1, <1>2 DEF at, d
<1>6. \A k \in 1..Len(d) : k <= at \/ k > at + Len(s) => e[k] = d[k]
  BY <1>1, <1>2
<1>7. IsBuffer(Put(b, s)) /\ Put(b, s).at = b.at + Len(s)
  <2>1. Put(b, s) \in [data : Seq(Byte), at : Nat]
    BY <1>1, <1>2, <1>4
  <2> QED
    BY <1>2, <2>1 DEF IsBuffer, at
<1>8. HasString(e, at, s) /\ SameOutside(e, d, at, at + Len(s))
  <2>1. at + Len(s) <= Len(e)
    BY <1>1, <1>4 DEF at, d
  <2> QED
    BY <1>4, <1>5, <1>6, <2>1 DEF HasString, SameOutside
<1> QED
  BY <1>7, <1>8 DEF at, d, e

LEMMA WriteInt ==
  ASSUME NEW b, IsBuffer(b), NEW v \in Int, b.at + 4 <= Len(b.data)
  PROVE  LET c == WriteInt32LE(b, v)
         IN  /\ IsBuffer(c) /\ c.at = b.at + 4
             /\ HasInt(c.data, b.at, v) /\ SameOutside(c.data, b.data, b.at, b.at + 4)
<1> DEFINE s == [k \in 1..4 |-> Shifted(v, k - 1)]
<1>1. s \in Seq(Byte) /\ Len(s) = 4
  <2>1. \A k \in 1..4 : Shifted(v, k - 1) \in Byte
    BY ShiftedIsByte
  <2> QED
    BY <2>1
<1>2. WriteInt32LE(b, v) = Put(b, s)
  BY DEF WriteInt32LE, IsBuffer
<1>3. \A k \in 1..4 : s[k] = Shifted(v, k - 1)
  OBVIOUS
<1> HIDE DEF s
<1>4. /\ IsBuffer(Put(b, s)) /\ Put(b, s).at = b.at + 4
      /\ HasString(Put(b, s).data, b.at, s)
      /\ SameOutside(Put(b, s).data, b.data, b.at, b.at + 4)
  BY <1>1, PutBytes
<1>5. HasInt(Put(b, s).data, b.at, v)
  BY <1>1, <1>3, <1>4 DEF HasInt, HasString
<1> QED
  BY <1>2, <1>4, <1>5

LEMMA WriteChars ==
  ASSUME NEW b, IsBuffer(b), NEW s \in Seq(Byte), b.at + Len(s) <= Len(b.data)
  PROVE  LET c == WriteString(b, s)
         IN  /\ IsBuffer(c) /\ c.at = b.at + Len(s)
             /\ HasString(c.data, b.at, s) /\ SameOutside(c.data, b.data, b.at, b.at + Len(s))
<1>1. Len(b.data) \in Nat /\ b.at \in Nat /\ Len(s) \in Nat
  BY DEF IsBuffer
<1>2. Len(b.data) - b.at \notin 0..(Len(s) - 1)
  BY <1>1
<1>3. WriteString(b, s) = Put(b, s)
  BY <1>2 DEF WriteString
<1> QED
  BY <1>3, PutBytes

\* What was written stays when something else is written behind or before it.
LEMMA IntKept ==
  ASSUME NEW d, NEW e, NEW i \in Nat, NEW j \in Nat, NEW at \in Nat, NEW v,
         HasInt(d, at, v), SameOutside(e, d, i, j), at + 4 <= i \/ at >= j, Len(d) \in Nat
  PROVE  HasInt(e, at, v)
<1> SUFFICES ASSUME NEW k \in 1..4 PROVE e[at + k] = Shifted(v, k - 1)
  BY DEF HasInt, SameOutside
<1>1. at + k \in 1..Len(e) /\ (at + k <= i \/ at + k > j)
  BY DEF HasInt, SameOutside
<1>2. e[at + k] = d[at + k]
  BY <1>1 DEF SameOutside
<1> QED
  BY <1>2 DEF HasInt

LEMMA StringKept ==
  ASSUME NEW d, NEW e, NEW i \in Nat, NEW j \in Nat, NEW at \in Nat, NEW s, Len(s) \in Nat,
         HasString(d, at, s), SameOutside(e, d, i, j), at + Len(s) <= i \/ at >= j, Len(d) \in Nat
  PROVE  HasString(e, at, s)
<1> SUFFICES ASSUME NEW k \in 1..Len(s) PROVE e[at + k] = s[k]
  BY DEF HasString, SameOutside
<1>1. at + k \in 1..Len(e) /\ (at + k <= i \/ at + k > j)
  BY DEF HasString, SameOutside
<1>2. e[at + k] = d[at + k]
  BY <1>1 DEF SameOutside
<1> QED
  BY <1>2 DEF HasString

LEMMA WritesText ==
  ASSUME NEW b, IsBuffer(b), NEW s \in Seq(Byte), b.at + 4 + Len(s) <= Len(b.data)
  PROVE  LET c == WriteText(b, s)
         IN  /\ IsBuffer(c) /\ c.at = b.at + 4 + Len(s)
             /\ HasText(c.data, b.at, s)
             /\ SameOutside(c.data, b.data, b.at, b.at + 4 + Len(s))
<1> DEFINE b1 == WriteInt32LE(b, Len(s))
           c == WriteString(b1, s)
<1>1. Len(b.data) \in Nat /\ b.at \in Nat /\ Len(s) \in Nat /\ Len(s) \in Int
  BY DEF IsBuffer
<1>2. /\ IsBuffer(b1) /\ b1.at = b.at + 4 /\ HasInt(b1.data, b.at, Len(s))
      /\ SameOutside(b1.data, b.data, b.at, b.at + 4)
  BY <1>1, WriteInt
<1>3. Len(b1.data) = Len(b.data)
  BY <1>2 DEF SameOutside
<1>4. /\ IsBuffer(c) /\ c.at = b.at + 4 + Len(s) /\ HasString(c.data, b.at + 4, s)
      /\ SameOutside(c.data, b1.data, b.at + 4, b.at + 4 + Len(s))
  <2> HIDE DEF b1
  <2> QED
    BY <1>1, <1>2, <1>3, WriteChars
<1>5. WriteText(b, s) = c
  BY DEF WriteText
<1> HIDE DEF b1, c
<1>6. HasInt(c.data, b.at, Len(s))
  BY <1>1, <1>2, <1>3, <1>4, IntKept
<1>7. SameOutside(c.data, b.data, b.at, b.at + 4 + Len(s))
  BY <1>1, <1>2, <1>3, <1>4 DEF SameOutside
<1> QED
  BY <1>4, <1>5, <1>6, <1>7 DEF HasText

\* A text that is written to an empty vector makes it as long as it must be.
LEMMA WritesToEmpty ==
  ASSUME NEW s \in Seq(Byte), Len(s) >= 1
  PROVE  LET c == WriteText([data |-> << >>, at |-> 0], s)
         IN  IsBuffer(c) /\ Len(c.data) = 4 + Len(s) /\ HasText(c.data, 0, s)
<1> DEFINE b == [data |-> << >>, at |-> 0]
           n == Len(s)
           g == Grow(b, 4)
           b1 == WriteInt32LE(b, n)
           g1 == Grow(b1, n)
           c == WriteString(b1, s)
<1>1. IsBuffer(b) /\ Len(b.data) = 0 /\ b.at = 0 /\ n \in Nat /\ n \in Int
  BY EmptySeq DEF IsBuffer
<1> HIDE DEF b, n
<1>2. IsBuffer(g) /\ g.at = 0 /\ Len(g.data) = 4
  <2>1. IsBuffer(g) /\ g.at = b.at /\ Len(g.data) = Len(b.data) + 4
    BY <1>1, GrowBuffer
  <2> HIDE DEF g
  <2> QED
    BY <1>1, <2>1
<1>3. b1 = WriteInt32LE(g, n)
  <2> DEFINE Fitting(x) == IF Len(x.data) < x.at + 4 THEN Grow(x, 4) ELSE x
             bytes == [k \in 1..4 |-> Shifted(n, k - 1)]
  <2>1. b1 = Put(Fitting(Fitting(b)), bytes) /\ WriteInt32LE(g, n) = Put(Fitting(Fitting(g)), bytes)
    BY DEF WriteInt32LE
  <2> HIDE DEF bytes, b1
  <2>2. Fitting(b) = g
    BY <1>1
  <2> HIDE DEF g
  <2>3. Fitting(g) = g
    BY <1>2
  <2> HIDE DEF Fitting
  <2> QED
    BY <2>1, <2>2, <2>3
<1>4. /\ IsBuffer(b1) /\ b1.at = 4 /\ HasInt(b1.data, 0, n) /\ Len(b1.data) = 4
  <2> HIDE DEF g, b1
  <2>1. IsBuffer(g) /\ g.at + 4 <= Len(g.data) /\ n \in Int
    BY <1>1, <1>2
  <2>2. /\ IsBuffer(b1) /\ b1.at = g.at + 4 /\ HasInt(b1.data, g.at, n)
        /\ SameOutside(b1.data, g.data, g.at, g.at + 4)
    BY <1>3, <2>1, WriteInt
  <2> QED
    BY <1>2, <2>2 DEF SameOutside
<1> HIDE DEF b1
<1>5. /\ IsBuffer(g1) /\ g1.at = 4 /\ Len(g1.data) = 4 + n
      /\ \A i \in 1..4 : g1.data[i] = b1.data[i]
  BY <1>1, <1>4, GrowBuffer
<1>6. n >= 1 /\ Len(b1.data) - b1.at \in 0..(n - 1) /\ Len(g1.data) - g1.at \notin 0..(n - 1)
  BY <1>1, <1>4, <1>5 DEF n
<1>7. c = WriteString(g1, s)
  BY <1>6 DEF WriteString, n
<1> HIDE DEF g1, c
<1>8. /\ IsBuffer(c) /\ HasString(c.data, 4, s) /\ SameOutside(c.data, g1.data, 4, 4 + n)
  BY <1>1, <1>5, <1>7, WriteChars DEF n
<1>9. HasInt(g1.data, 0, n)
  BY <1>1, <1>4, <1>5 DEF HasInt
<1>10. HasInt(c.data, 0, n) /\ Len(c.data) = 4 + n
  <2>1. Len(g1.data) \in Nat /\ 4 + n \in Nat
    BY <1>1, <1>5
  <2>2. HasInt(c.data, 0, n)
    BY <1>1, <1>8, <1>9, <2>1, IntKept
  <2> QED
    BY <1>5, <1>8, <2>2 DEF SameOutside
<1>11. WriteText(b, s) = c
  BY DEF WriteText, b1, c, n
<1> QED
  BY <1>8, <1>10, <1>11 DEF HasText, b, n

LEMMA AtBuffer ==
  ASSUME NEW b, IsBuffer(b), NEW i \in Nat
  PROVE  /\ At(b, i) = [data |-> b.data, at |-> i]
         /\ IsBuffer(At(b, i)) /\ At(b, i).data = b.data /\ At(b, i).at = i
<1>1. At(b, i) = [data |-> b.data, at |-> i] /\ b.data \in Seq(Byte)
  BY DEF At, IsBuffer
<1> QED
  BY <1>1 DEF IsBuffer

LEMMA PrefixOf ==
  ASSUME NEW S, NEW s \in Seq(S), NEW n \in Nat, n <= Len(s)
  PROVE  /\ SubSeq(s, 1, n) \in Seq(S) /\ Len(SubSeq(s, 1, n)) = n
         /\ \A k \in 1..n : SubSeq(s, 1, n)[k] = s[k]
<1>1. \A k \in 1..n : s[k] \in S
  BY ElementOfSeq
<1>2. /\ SubSeq(s, 1, n) \in Seq(S)
      /\ Len(SubSeq(s, 1, n)) = IF 1 <= n THEN n - 1 + 1 ELSE 0
      /\ \A k \in 1..(n - 1 + 1) : SubSeq(s, 1, n)[k] = s[1 + k - 1]
  BY <1>1, SubSeqProperties
<1>3. n - 1 + 1 = n /\ \A k \in 1..n : 1 + k - 1 = k
  OBVIOUS
<1> QED
  BY <1>2, <1>3

LEMMA SubSeqOf ==
  ASSUME NEW S, NEW s \in Seq(S), NEW i \in Nat, NEW n \in Nat, i + n <= Len(s)
  PROVE  /\ SubSeq(s, i + 1, i + n) \in Seq(S) /\ Len(SubSeq(s, i + 1, i + n)) = n
         /\ \A k \in 1..n : SubSeq(s, i + 1, i + n)[k] = s[i + k]
<1>1. \A k \in (i + 1)..(i + n) : s[k] \in S
  BY ElementOfSeq
<1>2. /\ SubSeq(s, i + 1, i + n) \in Seq(S)
      /\ Len(SubSeq(s, i + 1, i + n)) = IF i + 1 <= i + n THEN (i + n) - (i + 1) + 1 ELSE 0
      /\ \A k \in 1..((i + n) - (i + 1) + 1) : SubSeq(s, i + 1, i + n)[k] = s[(i + 1) + k - 1]
  BY <1>1, SubSeqProperties
<1>3. \A k \in 1..n : SubSeq(s, i + 1, i + n)[k] = s[i + k]
  <2> SUFFICES ASSUME NEW k \in 1..n PROVE SubSeq(s, i + 1, i + n)[k] = s[i + k]
    OBVIOUS
  <2>1. k \in 1..((i + n) - (i + 1) + 1) /\ (i + 1) + k - 1 = i + k
    OBVIOUS
  <2> QED
    BY <1>2, <2>1
<1> QED
  BY <1>2, <1>3

\* What ReadString() returns of c
LEMMA ReadChars ==
  ASSUME NEW c, IsBuffer(c), NEW size \in Int, c.at <= Len(c.data)
  PROVE  LET left == Len(c.data) - c.at
             n == IF size < 0 \/ size > left THEN left ELSE size
             r == ReadString(c, size)
         IN  /\ r.value \in Seq(Byte) /\ Len(r.value) = n /\ n \in 0..left
             /\ \A k \in 1..n : r.value[k] = c.data[c.at + k]
             /\ r.buffer = At(c, c.at + n)
<1> DEFINE left == Len(c.data) - c.at
           n == IF size < 0 \/ size > left THEN left ELSE size
           r == ReadString(c, size)
<1>1. c.at \in Nat /\ c.data \in Seq(Byte) /\ Len(c.data) \in Nat
  BY DEF IsBuffer
<1>2. r = [value |-> SubSeq(c.data, c.at + 1, c.at + n), buffer |-> At(c, c.at + n)]
  BY DEF ReadString
<1>3. n \in 0..left /\ n \in Nat /\ c.at + n <= Len(c.data)
  BY <1>1
<1> HIDE DEF n, r
<1>4. /\ SubSeq(c.data, c.at + 1, c.at + n) \in Seq(Byte)
      /\ Len(SubSeq(c.data, c.at + 1, c.at + n)) = n
      /\ \A k \in 1..n : SubSeq(c.data, c.at + 1, c.at + n)[k] = c.data[c.at + k]
  <2> DEFINE d == c.data
             i == c.at
  <2>1. d \in Seq(Byte) /\ i \in Nat /\ n \in Nat /\ i + n <= Len(d)
    BY <1>1, <1>3
  <2> HIDE DEF d, i
  <2>2. /\ SubSeq(d, i + 1, i + n) \in Seq(Byte) /\ Len(SubSeq(d, i + 1, i + n)) = n
        /\ \A k \in 1..n : SubSeq(d, i + 1, i + n)[k] = d[i + k]
    BY <2>1, SubSeqOf
  <2> QED
    BY <2>2 DEF d, i
<1>5. /\ r.value \in Seq(Byte) /\ Len(r.value) = n /\ n \in 0..left
      /\ \A k \in 1..n : r.value[k] = c.data[c.at + k]
      /\ r.buffer = At(c, c.at + n)
  BY <1>2, <1>3, <1>4
<1> QED
  BY <1>5 DEF n, r

LEMMA ReadInt ==
  ASSUME NEW b, IsBuffer(b), NEW v \in Int, 0 <= v, v < 65536, HasInt(b.data, b.at, v)
  PROVE  ReadInt32LE(b).value = v /\ ReadInt32LE(b).buffer = At(b, b.at + 4)
<1>1. Start(b) = b.at
  BY DEF Start, IsBuffer, HasInt
<1> DEFINE d == [k \in 1..4 |-> b.data[Start(b) + k]]
<1>2. d[1] = Shifted(v, 0) /\ d[2] = Shifted(v, 1) /\ d[3] = 0 /\ d[4] = 0
  BY <1>1, SmallValue DEF HasInt
<1>3. Shifted(v, 0) \in Int /\ Shifted(v, 1) \in Int
  BY ShiftedIsByte DEF Byte
<1>4. ReadInt32LE(b) = [value |-> d[1] + 256 * d[2] + 256 ^ 2 * d[3]
                                  + 256 ^ 3 * (IF d[4] > 127 THEN d[4] - 256 ELSE d[4]),
                        buffer |-> At(b, Start(b) + 4)]
  BY DEF ReadInt32LE
<1> HIDE DEF d
<1>5. d[1] + 256 * d[2] + 256 ^ 2 * d[3] + 256 ^ 3 * (IF d[4] > 127 THEN d[4] - 256 ELSE d[4]) = v
  BY <1>2, <1>3, SmallValue, Powers
<1> QED
  BY <1>1, <1>4, <1>5

LEMMA ReadsText ==
  ASSUME NEW b, IsBuffer(b), NEW s \in Seq(Byte), Len(s) < 65536, HasText(b.data, b.at, s)
  PROVE  ReadText(b).value = s /\ ReadText(b).buffer = At(b, b.at + 4 + Len(s))
<1> DEFINE c == At(b, b.at + 4)
           n == Len(s)
           r == ReadString(c, n)
<1>1. n \in Nat /\ b.at \in Nat /\ b.at + 4 \in Nat /\ b.data \in Seq(Byte) /\ Len(b.data) \in Nat
  BY DEF IsBuffer
<1>2. ReadInt32LE(b).value = n /\ ReadInt32LE(b).buffer = c
  BY <1>1, ReadInt DEF HasText
<1>3. IsBuffer(c) /\ c.data = b.data /\ c.at = b.at + 4
  BY <1>1, AtBuffer
<1>4. b.at + 4 + n <= Len(b.data) /\ \A k \in 1..n : b.data[b.at + 4 + k] = s[k]
  BY DEF HasText, HasString
<1>5. ReadText(b) = r
  BY <1>2 DEF ReadText
<1> HIDE DEF c, r
<1>6. c.at <= Len(c.data) /\ n \in Int /\ ~(n < 0 \/ n > Len(c.data) - c.at)
  BY <1>1, <1>3, <1>4
<1>7. /\ r.value \in Seq(Byte) /\ Len(r.value) = n
      /\ \A k \in 1..n : r.value[k] = c.data[c.at + k]
      /\ r.buffer = At(c, c.at + n)
  BY <1>3, <1>6, ReadChars DEF r
<1>8. r.value = s
  BY <1>3, <1>4, <1>7, SeqEqual DEF n
<1>9. At(c, c.at + n) = At(b, b.at + 4 + n)
  <2>1. b.at + 4 + n \in Nat
    BY <1>1
  <2> QED
    BY <1>3, <2>1, AtBuffer
<1> QED
  BY <1>5, <1>7, <1>8, <1>9 DEF n

\* What is read of any bytes
LEMMA ReadAnyInt ==
  ASSUME NEW b, IsBuffer(b), 4 <= Len(b.data), b.at <= Len(b.data)
  PROVE  /\ ReadInt32LE(b).value \in Int /\ ReadInt32LE(b).buffer = At(b, Start(b) + 4)
         /\ Start(b) \in Nat /\ Start(b) + 4 <= Len(b.data)
<1> DEFINE size == ReadInt32LE(b).value
           d == [k \in 1..4 |-> b.data[Start(b) + k]]
           high == IF d[4] > 127 THEN d[4] - 256 ELSE d[4]
<1>1. b.at \in Nat /\ b.data \in Seq(Byte) /\ Len(b.data) \in Nat
  BY DEF IsBuffer
<1>2. Start(b) \in Nat /\ Start(b) + 4 <= Len(b.data)
  BY <1>1 DEF Start
<1>3. \A k \in 1..4 : d[k] \in Int
  <2> SUFFICES ASSUME NEW k \in 1..4 PROVE d[k] \in Int
    OBVIOUS
  <2>1. Start(b) + k \in 1..Len(b.data)
    BY <1>1, <1>2
  <2>2. b.data[Start(b) + k] \in Byte
    BY <1>1, <2>1, ElementOfSeq
  <2>3. b.data[Start(b) + k] \in Int
    BY <2>2, ByteIsInt
  <2> QED
    BY <2>3
<1>4. /\ size = d[1] + 256 * d[2] + 256 ^ 2 * d[3] + 256 ^ 3 * high
      /\ ReadInt32LE(b).buffer = At(b, Start(b) + 4)
  BY DEF ReadInt32LE
<1> HIDE DEF d, size
<1>5. d[1] \in Int /\ d[2] \in Int /\ d[3] \in Int /\ high \in Int
  BY <1>3
<1> HIDE DEF high
<1>6. size \in Int
  BY <1>4, <1>5, Powers
<1> QED
  BY <1>2, <1>4, <1>6 DEF size

LEMMA ReadAny ==
  ASSUME NEW b, IsBuffer(b), 4 <= Len(b.data), b.at <= Len(b.data)
  PROVE  /\ ReadText(b).value \in Seq(Byte) /\ Len(ReadText(b).value) <= Len(b.data)
         /\ IsBuffer(ReadText(b).buffer) /\ ReadText(b).buffer.data = b.data
         /\ ReadText(b).buffer.at <= Len(b.data)
         /\ Len(b.data) = b.at + 4 => ReadText(b).value = << >>
<1> DEFINE size == ReadInt32LE(b).value
           c == At(b, Start(b) + 4)
           r == ReadString(c, size)
<1>1. b.at \in Nat /\ b.data \in Seq(Byte) /\ Len(b.data) \in Nat
  BY DEF IsBuffer
<1>2. /\ Start(b) \in Nat /\ Start(b) + 4 <= Len(b.data) /\ Start(b) + 4 \in Nat
      /\ size \in Int /\ ReadInt32LE(b).buffer = c
  BY <1>1, ReadAnyInt
<1>3. ReadText(b) = r
  BY <1>2 DEF ReadText
<1>4. IsBuffer(c) /\ c.data = b.data /\ c.at = Start(b) + 4
  BY <1>2, AtBuffer
<1>5. Len(b.data) = b.at + 4 => Start(b) = b.at
  BY <1>1 DEF Start
<1> HIDE DEF size, c, r
<1>6. c.at <= Len(c.data) /\ Len(c.data) \in Nat /\ c.at \in Nat
  BY <1>1, <1>2, <1>4
<1>7. /\ r.value \in Seq(Byte)
      /\ \E n \in 0..(Len(c.data) - c.at) : Len(r.value) = n /\ r.buffer = At(c, c.at + n)
  BY <1>2, <1>4, <1>6, ReadChars DEF r
<1>8. PICK n \in 0..(Len(c.data) - c.at) : Len(r.value) = n /\ r.buffer = At(c, c.at + n)
  BY <1>7
<1>9. c.at + n \in Nat /\ c.at + n <= Len(b.data) /\ n <= Len(b.data)
  BY <1>4, <1>6
<1>10. IsBuffer(r.buffer) /\ r.buffer.data = b.data /\ r.buffer.at <= Len(b.data)
  BY <1>4, <1>8, <1>9, AtBuffer
<1>11. ASSUME Len(b.data) = b.at + 4 PROVE r.value = << >>
  <2>1. n = 0
    BY <1>4, <1>5, <1>6, <1>11
  <2> QED
    BY <1>7, <1>8, <2>1, EmptySeq, SeqEqual
<1> QED
  BY <1>3, <1>7, <1>8, <1>9, <1>10, <1>11

-----------------------------------------------------------------------------
(* Bytes on their way *)

LEMMA SentBytes ==
  ASSUME NEW b, IsBuffer(b), NEW n \in Nat, beyond \in Byte
  PROVE  /\ Sent(b, n) \in Seq(Byte) /\ Len(Sent(b, n)) = n
         /\ \A i \in 1..n : Sent(b, n)[i] = IF i <= Len(b.data) THEN b.data[i] ELSE beyond
<1> DEFINE d == b.data
<1>1. d \in Seq(Byte) /\ Len(d) \in Nat /\ \A i \in 1..Len(d) : d[i] \in Byte
  BY ElementOfSeq DEF IsBuffer
<1>2. Sent(b, n) = [i \in 1..n |-> IF i <= Len(d) THEN d[i] ELSE beyond]
  BY DEF Sent
<1> HIDE DEF d
<1>3. Sent(b, n) \in [1..n -> Byte]
  BY <1>1, <1>2
<1>4. Sent(b, n) \in Seq(Byte) /\ Len(Sent(b, n)) = n
  BY <1>3
<1> QED
  BY <1>2, <1>4 DEF d

\* What is sent has the texts that were written.
LEMMA SentText ==
  ASSUME NEW b, IsBuffer(b), NEW n \in Nat, beyond \in Byte,
         NEW i \in Nat, NEW s \in Seq(Byte), HasText(b.data, i, s), i + 4 + Len(s) <= n
  PROVE  HasText(Sent(b, n), i, s)
<1> DEFINE e == Sent(b, n)
<1>1. Len(b.data) \in Nat /\ Len(s) \in Nat
  BY DEF IsBuffer
<1>2. i + 4 + Len(s) <= Len(b.data)
  BY DEF HasText, HasString
<1>3. Len(e) = n /\ \A k \in 1..n : e[k] = IF k <= Len(b.data) THEN b.data[k] ELSE beyond
  BY SentBytes
<1> HIDE DEF e
<1>6. \A k \in 1..(i + 4 + Len(s)) : e[k] = b.data[k]
  <2> SUFFICES ASSUME NEW k \in 1..(i + 4 + Len(s)) PROVE e[k] = b.data[k]
    OBVIOUS
  <2>1. k \in 1..n /\ k <= Len(b.data)
    BY <1>1, <1>2
  <2> QED
    BY <1>3, <2>1
<1>4. HasInt(e, i, Len(s))
  BY <1>1, <1>3, <1>6 DEF HasText, HasInt
<1>5. HasString(e, i + 4, s)
  BY <1>1, <1>3, <1>6 DEF HasText, HasString
<1> QED
  BY <1>4, <1>5 DEF HasText, e

LEMMA PieceOf ==
  ASSUME NEW q \in Seq(Byte)
  PROVE  /\ Piece(q) \in Seq(Byte) /\ Len(Piece(q)) = (IF Len(q) < 128 THEN Len(q) ELSE 128)
         /\ \A k \in 1..Len(Piece(q)) : Piece(q)[k] = q[k]
<1> DEFINE m == IF Len(q) < 128 THEN Len(q) ELSE 128
<1>1. m \in Nat /\ m <= Len(q)
  OBVIOUS
<1>2. Piece(q) = SubSeq(q, 1, m)
  BY DEF Piece, RecvLen
<1> HIDE DEF m
<1>3. /\ Piece(q) \in Seq(Byte) /\ Len(Piece(q)) = m
      /\ \A k \in 1..Len(Piece(q)) : Piece(q)[k] = q[k]
  BY <1>1, <1>2, PrefixOf
<1> QED
  BY <1>3 DEF m

LEMMA RestOf ==
  ASSUME NEW q \in Seq(Byte)
  PROVE  /\ Rest(q) \in Seq(Byte) /\ Len(Rest(q)) = (IF Len(q) < 128 THEN 0 ELSE Len(q) - 128)
         /\ \A k \in 1..Len(Rest(q)) : Rest(q)[k] = q[128 + k]
<1> DEFINE n == Len(q)
           r == SubSeq(q, 129, n)
<1>1. n \in Nat /\ Rest(q) = r
  BY DEF Rest, RecvLen
<1>2. \A k \in 129..n : q[k] \in Byte
  BY ElementOfSeq
<1>3. /\ r \in Seq(Byte) /\ Len(r) = IF 129 <= n THEN n - 129 + 1 ELSE 0
      /\ \A k \in 1..(n - 129 + 1) : r[k] = q[129 + k - 1]
  <2> HIDE DEF n
  <2> QED
    BY <1>1, <1>2, SubSeqProperties
<1> HIDE DEF n, r
<1>4. Len(r) = IF n < 128 THEN 0 ELSE n - 128
  BY <1>1, <1>3
<1>5. \A k \in 1..Len(r) : r[k] = q[128 + k]
  <2> SUFFICES ASSUME NEW k \in 1..Len(r) PROVE r[k] = q[128 + k]
    OBVIOUS
  <2>1. k \in 1..(n - 129 + 1) /\ 129 + k - 1 = 128 + k
    BY <1>1, <1>3
  <2> QED
    BY <1>3, <2>1
<1> QED
  BY <1>1, <1>3, <1>4, <1>5 DEF n

-----------------------------------------------------------------------------
(* Lines *)

\* The bytes of a line are one text, with four bytes behind it, or two.
EncodesAs(bytes, u, r) ==
  /\ Len(u) < 65536 /\ Len(r) < 65536
  /\ HasText(bytes, 0, u)
  /\ \/ HasText(bytes, 4 + Len(u), r)
     \/ r = << >> /\ Len(bytes) = 8 + Len(u)
Encodes(bytes, text) == \E u, r \in Seq(Byte) : text = u \o r /\ EncodesAs(bytes, u, r)

LineType == [text : Seq(Byte), bytes : Seq(Byte), size : Nat, printed : Seq(Seq(Byte))]

\* It was not received yet, or it was received in one piece and printed, or it is
\* received in several.
Unseen(line) ==
  /\ line.printed = << >> /\ Len(line.bytes) = line.size /\ line.size >= 4
  /\ Encodes(line.bytes, line.text)
Whole(line) == line.size <= 128 /\ line.bytes = << >> /\ line.printed = <<line.text>>
InPieces(line) ==
  /\ line.size > 128 /\ Len(line.printed) >= 1
  /\ line.bytes = << >> => Len(line.printed) >= 2
LineInv(line) == line \in LineType /\ (Unseen(line) \/ Whole(line) \/ InPieces(line))

LEMMA PrintsWhole ==
  ASSUME NEW bytes \in Seq(Byte), NEW text, Encodes(bytes, text)
  PROVE  LET b == SetBuffer(New(0), bytes)
             first == ReadText(b)
         IN  first.value \o ReadText(first.buffer).value = text
<1> DEFINE b == SetBuffer(New(0), bytes)
           first == ReadText(b)
           second == ReadText(first.buffer)
<1>1. IsBuffer(b) /\ b.data = bytes /\ b.at = 0
  BY DEF SetBuffer, New, IsBuffer
<1>2. PICK u \in Seq(Byte), r \in Seq(Byte) : text = u \o r /\ EncodesAs(bytes, u, r)
  BY DEF Encodes
<1> HIDE DEF b
<1>3. first.value = u /\ first.buffer = At(b, 4 + Len(u))
  <2>1. ReadText(b).value = u /\ ReadText(b).buffer = At(b, b.at + 4 + Len(u))
    BY <1>1, <1>2, ReadsText DEF EncodesAs
  <2> QED
    BY <1>1, <2>1
<1> DEFINE c == At(b, 4 + Len(u))
<1>4. Len(u) \in Nat /\ 4 + Len(u) \in Nat /\ Len(bytes) \in Nat
  OBVIOUS
<1>5. IsBuffer(c) /\ c.data = bytes /\ c.at = 4 + Len(u)
  BY <1>1, <1>4, AtBuffer
<1> HIDE DEF c
<1>6. ReadText(c).value = r
  <2>1. CASE HasText(bytes, 4 + Len(u), r)
    BY <1>2, <1>5, <2>1, ReadsText DEF EncodesAs
  <2>2. CASE r = << >> /\ Len(bytes) = 8 + Len(u)
    <3>1. 4 <= Len(c.data) /\ c.at <= Len(c.data) /\ Len(c.data) = c.at + 4
      BY <1>4, <1>5, <2>2
    <3> QED
      BY <1>5, <2>2, <3>1, ReadAny
  <2> QED
    BY <1>2, <2>1, <2>2 DEF EncodesAs
<1>7. second.value = r
  BY <1>3, <1>6 DEF c
<1>8. first.value \o second.value = text
  <2> HIDE DEF first, second
  <2> QED
    BY <1>2, <1>3, <1>7
<1> QED
  BY <1>8 DEF b

LEMMA ShortPiece ==
  ASSUME NEW q \in Seq(Byte), Len(q) <= 128
  PROVE  Piece(q) = q
<1>1. Piece(q) \in Seq(Byte) /\ \A k \in 1..Len(Piece(q)) : Piece(q)[k] = q[k]
  BY PieceOf
<1>2. Len(Piece(q)) = IF Len(q) < 128 THEN Len(q) ELSE 128
  BY PieceOf
<1>3. Len(q) \in Nat
  OBVIOUS
<1> DEFINE n == Len(q)
           m == Len(Piece(q))
<1>4. Len(Piece(q)) = Len(q)
  <2>1. n \in Nat /\ n <= 128 /\ m = IF n < 128 THEN n ELSE 128
    BY <1>2, <1>3
  <2> HIDE DEF n, m
  <2>2. m = n
    BY <2>1
  <2> QED
    BY <2>2 DEF n, m
<1> QED
  BY <1>1, <1>4, SeqEqual

\* What a piece adds to a line that was not printed yet, and to one that was.
LEMMA FirstPiece ==
  ASSUME NEW line, NEW new, LineInv(line), Unseen(line), new \in LineType,
         new.text = line.text, new.size = line.size, new.bytes = Rest(line.bytes),
         NEW print \in Seq(Byte), new.printed = <<print>>,
         line.size <= 128 => print = line.text
  PROVE  LineInv(new)
<1>1. line.bytes \in Seq(Byte) /\ line.size \in Nat /\ Len(line.bytes) = line.size
  BY DEF LineInv, LineType, Unseen
<1>2. /\ Rest(line.bytes) \in Seq(Byte)
      /\ Len(Rest(line.bytes)) = IF Len(line.bytes) < 128 THEN 0 ELSE Len(line.bytes) - 128
  BY <1>1, RestOf
<1>3. CASE line.size > 128
  <2>1. Len(new.bytes) = line.size - 128
    BY <1>1, <1>2, <1>3
  <2>2. new.bytes # << >>
    <3>1. Len(new.bytes) # 0
      BY <1>1, <1>3, <2>1
    <3> QED
      BY <3>1, EmptySeq
  <2>3. Len(new.printed) = 1
    OBVIOUS
  <2>4. InPieces(new)
    BY <1>3, <2>2, <2>3 DEF InPieces
  <2> QED
    BY <2>4 DEF LineInv
<1>4. CASE line.size <= 128
  <2>1. Len(Rest(line.bytes)) = 0
    BY <1>1, <1>2, <1>4
  <2>2. new.bytes = << >>
    BY <1>2, <2>1, EmptySeq
  <2>3. Whole(new)
    BY <1>4, <2>2 DEF Whole
  <2> QED
    BY <2>3 DEF LineInv
<1> QED
  BY <1>1, <1>3, <1>4

LEMMA LaterPiece ==
  ASSUME NEW line, NEW new, LineInv(line), InPieces(line), new \in LineType,
         new.size = line.size, NEW print \in Seq(Byte), new.printed = Append(line.printed, print)
  PROVE  LineInv(new)
<1>1. line.printed \in Seq(Seq(Byte)) /\ Len(line.printed) \in Nat /\ Len(line.printed) >= 1
  BY DEF LineInv, LineType, InPieces
<1>2. Len(new.printed) = Len(line.printed) + 1
  BY <1>1, AppendProperties
<1>3. Len(new.printed) >= 2
  BY <1>1, <1>2
<1>4. Len(new.printed) >= 1
  BY <1>1, <1>2
<1>5. InPieces(new)
  BY <1>3, <1>4 DEF InPieces
<1> QED
  BY <1>5 DEF LineInv

\* One piece of a line is received and printed.
LEMMA PrintedStep ==
  ASSUME NEW line, LineInv(line), line.bytes # << >>
  PROVE  LET b == SetBuffer(New(0), Piece(line.bytes))
             text == ReadText(b)
             print == text.value \o ReadText(text.buffer).value
         IN  IF CanReadInt32(b)
             THEN LineInv([line EXCEPT !.bytes = Rest(@), !.printed = Append(@, print)])
             ELSE LineInv([line EXCEPT !.bytes = << >>, !.printed = Append(@, << >>)])
<1> DEFINE q == line.bytes
           b == SetBuffer(New(0), Piece(q))
           text == ReadText(b)
           print == text.value \o ReadText(text.buffer).value
<1>1. /\ line \in LineType /\ q \in Seq(Byte) /\ Len(q) \in Nat /\ q # << >>
      /\ line.printed \in Seq(Seq(Byte)) /\ Len(line.printed) \in Nat
      /\ line.text \in Seq(Byte) /\ line.size \in Nat
  BY DEF LineInv, LineType
<1> HIDE DEF q
<1>2. /\ Piece(q) \in Seq(Byte) /\ Rest(q) \in Seq(Byte) /\ Len(Piece(q)) \in Nat
      /\ Len(Piece(q)) = IF Len(q) < 128 THEN Len(q) ELSE 128
      /\ Len(Rest(q)) = IF Len(q) < 128 THEN 0 ELSE Len(q) - 128
      /\ \A k \in 1..Len(Piece(q)) : Piece(q)[k] = q[k]
  <2>1. Piece(q) \in Seq(Byte) /\ Rest(q) \in Seq(Byte)
    BY <1>1, PieceOf, RestOf
  <2>2. Len(Piece(q)) = IF Len(q) < 128 THEN Len(q) ELSE 128
    BY <1>1, PieceOf
  <2>3. Len(Rest(q)) = IF Len(q) < 128 THEN 0 ELSE Len(q) - 128
    BY <1>1, RestOf
  <2>4. \A k \in 1..Len(Piece(q)) : Piece(q)[k] = q[k]
    BY <1>1, PieceOf
  <2> QED
    BY <2>1, <2>2, <2>3, <2>4
<1>3. IsBuffer(b) /\ b.data = Piece(q) /\ b.at = 0
  BY <1>2 DEF SetBuffer, New, IsBuffer
<1>4. CanReadInt32(b) <=> 4 <= Len(Piece(q))
  BY <1>2, <1>3 DEF CanReadInt32, Start
<1>5. CASE CanReadInt32(b)
  <2> DEFINE new == [line EXCEPT !.bytes = Rest(@), !.printed = Append(@, print)]
             t == text.value
             u == ReadText(text.buffer).value
  <2>1. print \in Seq(Byte)
    <3>1. t \in Seq(Byte) /\ IsBuffer(text.buffer) /\ text.buffer.data = Piece(q)
          /\ text.buffer.at <= Len(Piece(q))
      <4> HIDE DEF b
      <4>1. 4 <= Len(b.data) /\ b.at <= Len(b.data)
        BY <1>2, <1>3, <1>4, <1>5
      <4> QED
        BY <1>3, <4>1, ReadAny
    <3>2. u \in Seq(Byte)
      <4> HIDE DEF text
      <4> QED
        BY <1>4, <1>5, <3>1, ReadAny
    <3>3. t \in Seq(Byte)
      BY <3>1
    <3> HIDE DEF t, u
    <3>4. t \o u \in Seq(Byte)
      BY <3>2, <3>3, ConcatProperties
    <3> QED
      BY <3>4 DEF t, u
  <2>2. Unseen(line) /\ line.size <= 128 => print = line.text
    <3> SUFFICES ASSUME Unseen(line), line.size <= 128 PROVE print = line.text
      OBVIOUS
    <3>0. Encodes(q, line.text) /\ Len(q) <= 128
      BY DEF Unseen, q
    <3>1. Piece(q) = q
      BY <1>1, <3>0, ShortPiece
    <3> QED
      BY <1>1, <3>0, <3>1, PrintsWhole
  <2> HIDE DEF print
  <2> DEFINE all == Append(line.printed, print)
  <2>3. all \in Seq(Seq(Byte))
    BY <1>1, <2>1, AppendProperties
  <2>8. new = [line EXCEPT !.bytes = Rest(q), !.printed = all]
    BY DEF q
  <2> HIDE DEF new, all
  <2>4. /\ new \in LineType /\ new.text = line.text /\ new.bytes = Rest(q)
        /\ new.size = line.size /\ new.printed = all
    BY <1>1, <1>2, <2>3, <2>8 DEF LineType
  <2>5. ASSUME InPieces(line) PROVE LineInv(new)
    <3>1. new.printed = Append(line.printed, print)
      BY <2>4 DEF all
    <3> QED
      BY <2>1, <2>4, <2>5, <3>1, LaterPiece
  <2>6. ASSUME Unseen(line) PROVE LineInv(new)
    <3>1. new.printed = <<print>>
      BY <2>4, <2>6 DEF all, Unseen
    <3>2. new.bytes = Rest(line.bytes)
      BY <2>4 DEF q
    <3> QED
      BY <2>1, <2>2, <2>4, <2>6, <3>1, <3>2, FirstPiece
  <2>7. LineInv(new)
    <3>1. ~Whole(line)
      BY <1>1 DEF Whole, q
    <3> QED
      BY <2>5, <2>6, <3>1 DEF LineInv
  <2> QED
    BY <1>5, <2>7 DEF new, print, q
<1>6. CASE ~CanReadInt32(b)
  <2> DEFINE new == [line EXCEPT !.bytes = << >>, !.printed = Append(@, << >>)]
             all == Append(line.printed, << >>)
  <2>1. << >> \in Seq(Byte) /\ Len(q) < 4
    BY <1>1, <1>2, <1>4, <1>6, EmptySeq
  <2>2. all \in Seq(Seq(Byte))
    BY <1>1, <2>1, AppendProperties
  <2>3. InPieces(line)
    <3>1. ~Unseen(line)
      BY <1>1, <2>1 DEF Unseen, q
    <3>2. ~Whole(line)
      BY <1>1 DEF Whole, q
    <3> QED
      BY <3>1, <3>2 DEF LineInv
  <2>5. new = [line EXCEPT !.bytes = << >>, !.printed = all]
    OBVIOUS
  <2> HIDE DEF new, all
  <2>6. /\ new \in LineType /\ new.bytes = << >> /\ new.size = line.size /\ new.printed = all
    BY <1>1, <2>1, <2>2, <2>5 DEF LineType
  <2>4. LineInv(new)
    <3>1. new.printed = Append(line.printed, << >>)
      BY <2>6 DEF all
    <3> QED
      BY <2>1, <2>3, <2>6, <3>1, LaterPiece
  <2> QED
    BY <1>6, <2>4 DEF new, b, q
<1> QED
  BY <1>5, <1>6 DEF b, q, print, text

LEMMA EncodesBy ==
  ASSUME NEW bytes, NEW u \in Seq(Byte), NEW r \in Seq(Byte), EncodesAs(bytes, u, r)
  PROVE  Encodes(bytes, u \o r)
BY SMT DEF Encodes

\* The line of one text, or of two
LEMMA EncodesOne ==
  ASSUME NEW bytes, NEW u \in Seq(Byte), Len(u) < 65536, HasText(bytes, 0, u),
         Len(bytes) = 8 + Len(u)
  PROVE  Encodes(bytes, u)
<1>1. << >> \in Seq(Byte) /\ Len(<< >>) = 0 /\ u \o << >> = u
  BY EmptySeq, ConcatEmptySeq
<1>2. EncodesAs(bytes, u, << >>)
  BY <1>1 DEF EncodesAs
<1>3. \E x, y \in Seq(Byte) : u = x \o y /\ EncodesAs(bytes, x, y)
  <2> WITNESS u \in Seq(Byte), << >> \in Seq(Byte)
  <2> QED
    BY <1>1, <1>2
<1> QED
  BY <1>3 DEF Encodes

LEMMA EncodesTwo ==
  ASSUME NEW bytes, NEW u \in Seq(Byte), NEW r \in Seq(Byte), Len(u) < 65536, Len(r) < 65536,
         HasText(bytes, 0, u), HasText(bytes, 4 + Len(u), r)
  PROVE  Encodes(bytes, u \o r)
<1>1. EncodesAs(bytes, u, r)
  BY DEF EncodesAs
<1> QED
  BY <1>1, EncodesBy

\* NewLine makes a line that was not received yet.
LEMMA NewLineInv ==
  ASSUME beyond \in Byte, NEW b, IsBuffer(b), NEW text \in Seq(Byte), NEW n \in Nat, n >= 4,
         Encodes(Sent(b, n), text)
  PROVE  LineInv(NewLine(b, text, n))
<1> DEFINE line == NewLine(b, text, n)
           bytes == Sent(b, n)
<1>1. bytes \in Seq(Byte) /\ Len(bytes) = n
  BY SentBytes
<1>2. line = [text |-> text, bytes |-> bytes, size |-> n, printed |-> << >>]
  BY DEF NewLine
<1>3. << >> \in Seq(Seq(Byte))
  BY EmptySeq
<1>4. Encodes(bytes, text)
  OBVIOUS
<1> HIDE DEF line, bytes
<1>5. line.text = text /\ line.bytes = bytes /\ line.size = n /\ line.printed = << >>
  BY <1>2
<1>6. line \in LineType
  BY <1>1, <1>2, <1>3 DEF LineType
<1>7. Unseen(line)
  BY <1>1, <1>4, <1>5 DEF Unseen
<1>8. LineInv(line)
  BY <1>6, <1>7 DEF LineInv
<1> QED
  BY <1>8 DEF line

LEMMA LineOf ==
  ASSUME beyond \in Byte, NEW text \in Seq(Byte), Len(text) < 65000
  PROVE  LineInv(Line(text))
<1> DEFINE n == Len(text)
           m == 8 + n
           b == New(m)
           c == WriteText(b, text)
<1>1. n \in Nat /\ m \in Nat /\ m >= 4 /\ 4 + n <= m
  OBVIOUS
<1> HIDE DEF m
<1>2. IsBuffer(b) /\ Len(b.data) = m /\ b.at = 0
  BY <1>1, NewBuffer
<1> HIDE DEF b
<1>3. IsBuffer(c) /\ HasText(c.data, 0, text)
  <2>1. b.at + 4 + Len(text) <= Len(b.data)
    BY <1>1, <1>2
  <2>2. IsBuffer(c) /\ HasText(c.data, b.at, text)
    BY <1>2, <2>1, WritesText
  <2> QED
    BY <1>2, <2>2
<1>4. Line(text) = NewLine(c, text, m)
  BY DEF Line, LineLength, SizeT, c, b, m
<1> HIDE DEF c
<1>5. Len(Sent(c, m)) = m
  BY <1>1, <1>3, SentBytes
<1>6. HasText(Sent(c, m), 0, text)
  <2>1. 0 + 4 + Len(text) <= m /\ 0 \in Nat
    BY <1>1
  <2> QED
    BY <1>1, <1>3, <2>1, SentText
<1>7. Encodes(Sent(c, m), text)
  <2>1. Len(Sent(c, m)) = 8 + Len(text) /\ Len(text) < 65536
    BY <1>1, <1>5 DEF m
  <2> QED
    BY <1>6, <2>1, EncodesOne
<1>8. LineInv(NewLine(c, text, m))
  BY <1>1, <1>3, <1>7, NewLineInv
<1> QED
  BY <1>4, <1>8

\* The reply and the notice are written to one buffer.
LEMMA TwoLines ==
  ASSUME beyond \in Byte, NEW text \in Seq(Byte), NEW room \in Seq(Byte),
         NEW notice \in Seq(Byte), Len(text) < 65536, Len(room) < 65536,
         Len(notice) >= 1, Len(notice) < 65000
  PROVE  LET length == SizeT + Len(text) + SizeT + Len(room)
             reply == WriteText(WriteText(New(length), text), room)
             cleared == At(SetBuffer(reply, << >>), 0)
         IN  /\ LineInv(NewLine(reply, text \o room, length))
             /\ LineInv(NewLine(WriteText(cleared, notice), notice, LineLength(Len(notice))))
<1> DEFINE n == Len(text)
           m == Len(room)
           k == Len(notice)
           length == SizeT + Len(text) + SizeT + Len(room)
           b == New(length)
           c == WriteText(b, text)
           reply == WriteText(c, room)
           cleared == At(SetBuffer(reply, << >>), 0)
           d == WriteText(cleared, notice)
           last == LineLength(Len(notice))
<1>1. /\ n \in Nat /\ m \in Nat /\ k \in Nat /\ length = 16 + n + m /\ length \in Nat
      /\ last = 8 + k /\ last \in Nat
  BY DEF SizeT, LineLength
<1> HIDE DEF length, last
<1>2. IsBuffer(b) /\ Len(b.data) = length /\ b.at = 0
  BY <1>1, NewBuffer
<1> HIDE DEF b
<1>3. IsBuffer(c) /\ c.at = 4 + n /\ HasText(c.data, 0, text) /\ Len(c.data) = length
  <2>1. b.at + 4 + Len(text) <= Len(b.data)
    BY <1>1, <1>2
  <2>2. /\ IsBuffer(c) /\ c.at = b.at + 4 + Len(text) /\ HasText(c.data, b.at, text)
        /\ SameOutside(c.data, b.data, b.at, b.at + 4 + Len(text))
    BY <1>2, <2>1, WritesText
  <2>3. Len(c.data) = length
    BY <1>2, <2>2 DEF SameOutside
  <2> QED
    BY <1>1, <1>2, <2>2, <2>3
<1> HIDE DEF c
<1>4. /\ IsBuffer(reply) /\ HasText(reply.data, 4 + n, room)
      /\ SameOutside(reply.data, c.data, 4 + n, 8 + n + m)
  <2>1. c.at + 4 + Len(room) <= Len(c.data) /\ c.at + 4 + Len(room) = 8 + n + m
    BY <1>1, <1>3
  <2>2. /\ IsBuffer(reply) /\ HasText(reply.data, c.at, room)
        /\ SameOutside(reply.data, c.data, c.at, c.at + 4 + Len(room))
    BY <1>3, <2>1, WritesText
  <2> QED
    BY <1>3, <2>1, <2>2
<1>5. HasText(reply.data, 0, text)
  <2> DEFINE i == 4 + n
             j == 8 + n + m
  <2>1. i \in Nat /\ j \in Nat /\ 0 \in Nat /\ Len(c.data) \in Nat /\ n \in Nat
    BY <1>1, <1>3
  <2>2. 0 + 4 <= i /\ 4 + n <= i /\ 4 \in Nat
    BY <1>1
  <2>3. SameOutside(reply.data, c.data, i, j)
    BY <1>4
  <2>4. HasInt(c.data, 0, n) /\ HasString(c.data, 4, text)
    BY <1>3 DEF HasText
  <2> HIDE DEF i, j, reply
  <2>5. HasInt(reply.data, 0, n)
    BY <2>1, <2>2, <2>3, <2>4, IntKept
  <2>6. HasString(reply.data, 4, text)
    BY <2>1, <2>2, <2>3, <2>4, StringKept
  <2> QED
    BY <2>5, <2>6 DEF HasText
<1> HIDE DEF reply
<1>6. LineInv(NewLine(reply, text \o room, length))
  <2> DEFINE q == Sent(reply, length)
             i == 4 + n
  <2>1. HasText(q, 0, text)
    <3>1. 0 + 4 + Len(text) <= length /\ 0 \in Nat
      BY <1>1
    <3> QED
      BY <1>1, <1>4, <1>5, <3>1, SentText
  <2>2. HasText(q, 4 + Len(text), room)
    <3>1. i + 4 + Len(room) <= length /\ i \in Nat /\ HasText(reply.data, i, room)
      BY <1>1, <1>4
    <3> HIDE DEF i
    <3>2. HasText(q, i, room)
      BY <1>1, <1>4, <3>1, SentText
    <3> QED
      BY <3>2 DEF i, n
  <2>3. Encodes(q, text \o room)
    <3> HIDE DEF q
    <3> QED
      BY <2>1, <2>2, EncodesTwo
  <2> DEFINE whole == text \o room
  <2>4. whole \in Seq(Byte) /\ length >= 4
    BY <1>1, ConcatProperties
  <2>5. Encodes(Sent(reply, length), whole)
    BY <2>3
  <2> HIDE DEF whole
  <2>6. LineInv(NewLine(reply, whole, length))
    BY <1>1, <1>4, <2>4, <2>5, NewLineInv
  <2> QED
    BY <2>6 DEF whole
<1>7. cleared = [data |-> << >>, at |-> 0]
  <2>1. SetBuffer(reply, << >>) = [data |-> << >>, at |-> reply.at]
    <3>1. reply \in [data : Seq(Byte), at : Nat]
      BY <1>4 DEF IsBuffer
    <3>2. SetBuffer(reply, << >>) = [reply EXCEPT !.data = << >>]
      BY DEF SetBuffer
    <3> QED
      BY <3>1, <3>2
  <2> QED
    BY <2>1 DEF At
<1> HIDE DEF cleared
<1>8. IsBuffer(d) /\ HasText(d.data, 0, notice)
  BY <1>7, WritesToEmpty
<1> HIDE DEF d
<1>9. LineInv(NewLine(d, notice, last))
  <2> DEFINE q == Sent(d, last)
  <2>1. Len(q) = 8 + Len(notice)
    <3>1. Len(q) = last
      BY <1>1, <1>8, SentBytes
    <3> QED
      BY <1>1, <3>1
  <2>2. HasText(q, 0, notice)
    <3>1. 0 + 4 + Len(notice) <= last /\ 0 \in Nat
      BY <1>1
    <3> QED
      BY <1>1, <1>8, <3>1, SentText
  <2>3. Encodes(q, notice)
    <3> HIDE DEF q
    <3> QED
      BY <1>1, <2>1, <2>2, EncodesOne
  <2>4. last >= 4
    BY <1>1
  <2> QED
    BY <1>1, <1>8, <2>3, <2>4, NewLineInv
<1> QED
  BY <1>6, <1>9 DEF reply, c, b, length, cleared, d, last

-----------------------------------------------------------------------------
(* The chat server's lines *)

GoodLine == {line \in LineType : LineInv(line)}

LEMMA Numbers ==
  /\ 32 \in Byte /\ 58 \in Byte /\ 62 \in Byte
  /\ 100 \in Byte /\ 101 \in Byte /\ 103 \in Byte /\ 104 \in Byte /\ 105 \in Byte
BY DEF Byte

LEMMA RoomLinesGood ==
  ASSUME beyond \in Byte, named \in Seq(Byte), Len(named) <= 128,
         NEW room \in Seq(Byte), Len(room) <= 128, NEW id
  PROVE  RoomLines(id, room) \in Seq(GoodLine)
<1> DEFINE text == Fill(100, ReplySize(id))
           size == (IF id = "JOIN" THEN 28 ELSE 26) + Len(named) + Len(room)
           notice == Fill(101, size)
           length == SizeT + Len(text) + SizeT + Len(room)
           reply == WriteText(WriteText(New(length), text), room)
           cleared == At(SetBuffer(reply, << >>), 0)
           line1 == NewLine(reply, text \o room, length)
           line2 == NewLine(WriteText(cleared, notice), notice, LineLength(Len(notice)))
<1>1. ReplySize(id) \in {34, 32, 19}
  BY DEF ReplySize
<1>2. text \in Seq(Byte) /\ Len(text) < 65536
  <2> DEFINE n == ReplySize(id)
             x == 100
  <2>1. n \in Nat /\ n < 65536 /\ x \in Byte
    BY <1>1, Numbers
  <2> HIDE DEF n, x
  <2>2. Fill(x, n) \in Seq(Byte) /\ Len(Fill(x, n)) = n
    BY <2>1, FillSeq
  <2> QED
    BY <2>1, <2>2 DEF n, x
<1>3. size \in Nat /\ 1 <= size /\ size < 65000
  BY DEF size
<1> HIDE DEF size
<1>4. notice \in Seq(Byte) /\ Len(notice) >= 1 /\ Len(notice) < 65000
  <2> DEFINE x == 101
  <2>1. x \in Byte
    BY Numbers
  <2> HIDE DEF x
  <2>2. Fill(x, size) \in Seq(Byte) /\ Len(Fill(x, size)) = size
    BY <1>3, <2>1, FillSeq
  <2> QED
    BY <1>3, <2>2 DEF x
<1>5. RoomLines(id, room) = <<line1, line2>>
  BY DEF RoomLines, size
<1> HIDE DEF text, notice
<1>6. LineInv(line1) /\ LineInv(line2)
  BY <1>2, <1>4, TwoLines
<1> HIDE DEF line1, line2
<1>7. line1 \in GoodLine /\ line2 \in GoodLine
  BY <1>6 DEF GoodLine, LineInv
<1> QED
  BY <1>5, <1>7

LEMMA LineGood ==
  ASSUME beyond \in Byte, NEW text \in Seq(Byte), Len(text) < 65000
  PROVE  Line(text) \in GoodLine
<1>1. LineInv(Line(text))
  BY LineOf
<1> QED
  BY <1>1 DEF GoodLine, LineInv

LEMMA ChatLineGood ==
  ASSUME beyond \in Byte, named \in Seq(Byte), Len(named) <= 128,
         NEW room \in Seq(Byte), NEW message \in Seq(Byte), Len(room) <= 128, Len(message) <= 128
  PROVE  ChatLine(room, message) \in GoodLine
<1> DEFINE t1 == named \o <<32, 62, 32>>
           t2 == t1 \o room
           t3 == t2 \o <<58, 32>>
           t4 == t3 \o message
<1>1. <<32, 62, 32>> \in Seq(Byte) /\ <<58, 32>> \in Seq(Byte)
  BY Numbers
<1>2. t1 \in Seq(Byte) /\ Len(t1) = Len(named) + 3
  BY <1>1, ConcatProperties
<1> HIDE DEF t1
<1>3. t2 \in Seq(Byte) /\ Len(t2) = Len(t1) + Len(room)
  BY <1>2, ConcatProperties
<1> HIDE DEF t2
<1>4. t3 \in Seq(Byte) /\ Len(t3) = Len(t2) + 2
  BY <1>1, <1>3, ConcatProperties
<1> HIDE DEF t3
<1>5. t4 \in Seq(Byte) /\ Len(t4) = Len(t3) + Len(message)
  BY <1>4, ConcatProperties
<1> HIDE DEF t4
<1>6. Len(t4) < 65000
  <2>1. Len(named) \in Nat /\ Len(room) \in Nat /\ Len(message) \in Nat
    OBVIOUS
  <2> QED
    BY <1>2, <1>3, <1>4, <1>5, <2>1
<1>7. ChatLine(room, message) = Line(t4)
  BY DEF ChatLine, t1, t2, t3, t4
<1> QED
  BY <1>5, <1>6, <1>7, LineGood

LEMMA ToldGood ==
  ASSUME beyond \in Byte, NEW register, NEW success
  PROVE  Line(Told(register, success)) \in GoodLine
<1>1. PICK x \in {103, 104, 105}, n \in {46, 29, 76} : Told(register, success) = Fill(x, n)
  BY DEF Told
<1>2. Fill(x, n) \in Seq(Byte) /\ Len(Fill(x, n)) = n
  <2>1. x \in Byte /\ n \in Nat
    BY Numbers
  <2> QED
    BY <2>1, FillSeq
<1>3. Fill(x, n) \in Seq(Byte) /\ Len(Fill(x, n)) < 65000
  BY <1>2
<1> QED
  BY <1>1, <1>3, LineGood

-----------------------------------------------------------------------------
(* The name *)

NameBytes == Sent(WriteString(WriteInt32LE(New(4), 32), typed.user), 4 + Len(typed.user))

\* The vector is made longer by the length of the name, which then fits.
LEMMA NameSent ==
  ASSUME beyond \in Byte, typed.user \in Seq(Byte)
  PROVE  /\ NameBytes \in Seq(Byte) /\ Len(NameBytes) = 4 + Len(typed.user)
         /\ HasInt(NameBytes, 0, 32) /\ HasString(NameBytes, 4, typed.user)
<1> DEFINE s == typed.user
           n == Len(s)
           m == 4 + n
           b == New(4)
           c == WriteInt32LE(b, 32)
           d == Grow(c, n)
           e == IF n >= 1 THEN d ELSE c
           f == WriteString(e, s)
<1> HIDE DEF s
<1>1. s \in Seq(Byte) /\ n \in Nat /\ m \in Nat
  BY DEF s
<1> HIDE DEF n
<1>2. IsBuffer(b) /\ Len(b.data) = 4 /\ b.at = 0
  BY NewBuffer
<1> HIDE DEF b
<1>3. IsBuffer(c) /\ c.at = 4 /\ HasInt(c.data, 0, 32) /\ Len(c.data) = 4
  <2>1. b.at + 4 <= Len(b.data) /\ 32 \in Int
    BY <1>2
  <2>2. /\ IsBuffer(c) /\ c.at = b.at + 4 /\ HasInt(c.data, b.at, 32)
        /\ SameOutside(c.data, b.data, b.at, b.at + 4)
    BY <1>2, <2>1, WriteInt
  <2> HIDE DEF c
  <2> QED
    BY <1>2, <2>2 DEF SameOutside
<1> HIDE DEF c
<1>4. /\ IsBuffer(d) /\ d.at = 4 /\ Len(d.data) = 4 + n
      /\ \A i \in 1..4 : d.data[i] = c.data[i]
  BY <1>1, <1>3, GrowBuffer
<1> HIDE DEF d
<1>5. IsBuffer(e) /\ e.at = 4 /\ Len(e.data) = m /\ HasInt(e.data, 0, 32)
  <2>1. CASE n >= 1
    <3>1. HasInt(d.data, 0, 32)
      BY <1>1, <1>3, <1>4 DEF HasInt
    <3> QED
      BY <1>4, <2>1, <3>1
  <2>2. CASE n = 0
    BY <1>3, <2>2
  <2> QED
    BY <1>1, <2>1, <2>2
<1>6. WriteString(c, s) = f
  <2>1. CASE n >= 1
    <3>1. /\ Len(c.data) - c.at \in 0..(n - 1)
          /\ Len(d.data) - d.at \notin 0..(n - 1) /\ e = d
      BY <1>1, <1>3, <1>4, <2>1
    <3> QED
      BY <3>1 DEF WriteString, d, n
  <2>2. CASE n = 0
    BY <2>2
  <2> QED
    BY <1>1, <2>1, <2>2
<1> HIDE DEF e
<1>7. /\ IsBuffer(f) /\ HasString(f.data, 4, s) /\ SameOutside(f.data, e.data, 4, m)
  <2>1. e.at + Len(s) <= Len(e.data)
    BY <1>1, <1>5 DEF n
  <2>2. /\ IsBuffer(f) /\ HasString(f.data, e.at, s)
        /\ SameOutside(f.data, e.data, e.at, e.at + Len(s))
    BY <1>1, <1>5, <2>1, WriteChars
  <2> QED
    BY <1>5, <2>2 DEF n
<1> HIDE DEF f, m
<1>8. HasInt(f.data, 0, 32) /\ Len(f.data) = m
  <2>1. Len(e.data) \in Nat /\ 0 \in Nat /\ 4 \in Nat /\ 0 + 4 <= 4
    BY <1>1, <1>5
  <2>2. HasInt(f.data, 0, 32)
    BY <1>1, <1>5, <1>7, <2>1, IntKept
  <2> QED
    BY <1>5, <1>7, <2>2 DEF SameOutside
<1> DEFINE q == Sent(f, m)
<1>9. q \in Seq(Byte) /\ Len(q) = m /\ \A i \in 1..m : q[i] = f.data[i]
  <2>1. /\ q \in Seq(Byte) /\ Len(q) = m
        /\ \A i \in 1..m : q[i] = IF i <= Len(f.data) THEN f.data[i] ELSE beyond
    BY <1>1, <1>7, SentBytes
  <2> HIDE DEF q
  <2>2. \A i \in 1..m : i <= Len(f.data)
    BY <1>1, <1>8
  <2> QED
    BY <2>1, <2>2
<1> HIDE DEF q
<1>10. HasInt(q, 0, 32) /\ HasString(q, 4, s)
  <2>1. HasInt(q, 0, 32)
    BY <1>1, <1>8, <1>9 DEF HasInt, m
  <2>2. HasString(q, 4, s)
    BY <1>1, <1>7, <1>8, <1>9 DEF HasString, m
  <2> QED
    BY <2>1, <2>2
<1>11. NameBytes = q
  BY <1>6 DEF NameBytes, q, c, b, s, m, n
<1> QED
  BY <1>9, <1>10, <1>11 DEF m, n, s

\* No more than 32 characters are read of it.
LEMMA NameReceived ==
  ASSUME NEW q \in Seq(Byte), NEW s \in Seq(Byte), Len(q) = 4 + Len(s), Len(q) <= 128,
         HasInt(q, 0, 32), HasString(q, 4, s)
  PROVE  LET size == ReadInt32LEAt(SetBuffer(New(0), q), 0)
             name == ReadString(size.buffer, size.value).value
         IN  name \in Seq(Byte) /\ Len(name) <= 128 /\ (name = s <=> Len(s) <= 32)
<1> DEFINE b == At(SetBuffer(New(0), q), 0)
           size == ReadInt32LE(b)
           c == At(b, 4)
           r == ReadString(c, 32)
           n == Len(s)
<1>1. IsBuffer(b) /\ b.data = q /\ b.at = 0
  BY DEF SetBuffer, New, IsBuffer, At
<1> HIDE DEF b
<1>2. size.value = 32 /\ size.buffer = c
  <2> DEFINE v == 32
  <2>1. v \in Int /\ 0 <= v /\ v < 65536 /\ HasInt(b.data, b.at, v)
    BY <1>1
  <2> HIDE DEF v
  <2>2. ReadInt32LE(b).value = v /\ ReadInt32LE(b).buffer = At(b, b.at + 4)
    BY <1>1, <2>1, ReadInt
  <2> QED
    BY <1>1, <2>2 DEF v
<1>3. IsBuffer(c) /\ c.data = q /\ c.at = 4
  BY <1>1, AtBuffer
<1> HIDE DEF c
<1>4. n \in Nat /\ Len(c.data) = 4 + n /\ c.at <= Len(c.data) /\ 32 \in Int
  BY <1>3
<1>5. /\ r.value \in Seq(Byte)
      /\ Len(r.value) = (IF 32 > Len(c.data) - c.at THEN Len(c.data) - c.at ELSE 32)
      /\ \A k \in 1..Len(r.value) : r.value[k] = c.data[c.at + k]
  <2> DEFINE x == 32
             left == Len(c.data) - c.at
             m == IF x < 0 \/ x > left THEN left ELSE x
             t == ReadString(c, x)
  <2>1. x \in Int /\ x = 32
    OBVIOUS
  <2> HIDE DEF x
  <2>2. /\ t.value \in Seq(Byte) /\ Len(t.value) = m
        /\ \A k \in 1..m : t.value[k] = c.data[c.at + k]
    BY <1>3, <1>4, <2>1, ReadChars
  <2> HIDE DEF t
  <2>3. m = IF 32 > left THEN left ELSE 32
    BY <2>1
  <2> QED
    BY <2>2, <2>3 DEF t, x
<1> HIDE DEF r
<1>6. /\ Len(r.value) = (IF 32 > n THEN n ELSE 32)
      /\ \A k \in 1..Len(r.value) : r.value[k] = q[4 + k]
  BY <1>3, <1>4, <1>5
<1>7. \A k \in 1..n : q[4 + k] = s[k]
  BY DEF HasString
<1>8. n <= 32 => r.value = s
  <2> SUFFICES ASSUME n <= 32 PROVE r.value = s
    OBVIOUS
  <2>1. Len(r.value) = n
    <3> HIDE DEF n
    <3> QED
      BY <1>4, <1>6
  <2>2. \A k \in 1..n : r.value[k] = s[k]
    BY <1>6, <1>7, <2>1
  <2> QED
    BY <1>5, <2>1, <2>2, SeqEqual
<1>9. n > 32 => r.value # s
  BY <1>4, <1>6
<1>10. Len(r.value) <= 128
  BY <1>4, <1>6
<1>11. r.value = s <=> n <= 32
  BY <1>4, <1>8, <1>9
<1>12. ReadInt32LEAt(SetBuffer(New(0), q), 0) = size
  BY DEF ReadInt32LEAt, b
<1> HIDE DEF size
<1> QED
  BY <1>2, <1>5, <1>10, <1>11, <1>12 DEF r, n

-----------------------------------------------------------------------------
(* The request *)

TypedType == [id : DOMAIN Id, user : Seq(Byte), first : Seq(Byte), second : Seq(Byte),
              account : Seq(Byte)]
Length == RequestLength(typed.id, typed.first, typed.second)
RequestBytes ==
  Sent(WriteText(WriteText(WriteInt32LE(WriteInt32LE(New(Length), Length), Id[typed.id]),
                           typed.first), typed.second), Length)

\* The data of the request lie where Decode reads them.
Holds(q) ==
  /\ HasInt(q, 4, Id[typed.id])
  /\ HasText(q, 8, typed.first)
  /\ HasText(q, 12 + Len(typed.first), typed.second)

LEMMA TextKept ==
  ASSUME NEW d, NEW e, NEW i \in Nat, NEW j \in Nat, NEW at \in Nat, NEW s, Len(s) \in Nat,
         HasText(d, at, s), SameOutside(e, d, i, j), at + 4 + Len(s) <= i, Len(d) \in Nat
  PROVE  HasText(e, at, s)
<1> DEFINE l == at + 4
<1>1. HasInt(d, at, Len(s)) /\ HasString(d, l, s) /\ l \in Nat /\ at + 4 <= i /\ l + Len(s) <= i
  BY DEF HasText
<1>2. HasInt(e, at, Len(s))
  BY <1>1, IntKept
<1> HIDE DEF l
<1>3. HasString(e, l, s)
  BY <1>1, StringKept
<1> QED
  BY <1>2, <1>3 DEF HasText, l

LEMMA IdIsSmall == \A id \in DOMAIN Id : Id[id] \in 1..5
BY DEF Id

LEMMA LengthIs ==
  ASSUME typed \in TypedType
  PROVE  /\ Length \in Nat
         /\ Length = (IF typed.id \in {"JOIN", "LEAVE"} THEN 24 ELSE 48)
                       + Len(typed.first) + Len(typed.second)
BY DEF Length, RequestLength, HeaderSize, SizeT, SizeOfString, TypedType

LEMMA RequestSent ==
  ASSUME beyond \in Byte, typed \in TypedType
  PROVE  /\ RequestBytes \in Seq(Byte) /\ Len(RequestBytes) = Length /\ Holds(RequestBytes)
         /\ \A k \in (17 + Len(typed.first) + Len(typed.second))..Length : RequestBytes[k] = 0
<1> DEFINE s1 == typed.first
           s2 == typed.second
           f == Len(s1)
           s == Len(s2)
           L == Length
           v == Id[typed.id]
           b0 == New(L)
           b1 == WriteInt32LE(b0, L)
           b2 == WriteInt32LE(b1, v)
           b3 == WriteText(b2, s1)
           b4 == WriteText(b3, s2)
           q == Sent(b4, L)
           i3 == 12 + f
           i4 == 16 + f + s
<1>1. s1 \in Seq(Byte) /\ s2 \in Seq(Byte) /\ v \in Int
  BY IdIsSmall DEF TypedType
<1>2. L \in Nat /\ L >= 24 + f + s /\ f \in Nat /\ s \in Nat
  <2>1. f \in Nat /\ s \in Nat
    BY <1>1
  <2>2. L \in Nat /\ L = (IF typed.id \in {"JOIN", "LEAVE"} THEN 24 ELSE 48) + f + s
    BY LengthIs
  <2> HIDE DEF L, f, s
  <2> QED
    BY <2>1, <2>2
<1>20. RequestBytes = q
  BY DEF RequestBytes
<1>21. i3 = 12 + f /\ i4 = 16 + f + s /\ f = Len(s1) /\ s = Len(s2)
  OBVIOUS
<1>22. i3 \in Nat /\ i4 \in Nat /\ i3 <= L /\ i4 <= L
  <2> HIDE DEF L, f, s
  <2> QED
    BY <1>2
<1> HIDE DEF s1, s2, v, L, f, s, i3, i4
<1>3. IsBuffer(b0) /\ Len(b0.data) = L /\ b0.at = 0 /\ \A k \in 1..L : b0.data[k] = 0
  BY <1>2, NewBuffer
<1> HIDE DEF b0
<1>4. IsBuffer(b1) /\ b1.at = 4 /\ SameOutside(b1.data, b0.data, 0, 4)
  <2>1. b0.at + 4 <= Len(b0.data) /\ L \in Int
    BY <1>2, <1>3
  <2>2. IsBuffer(b1) /\ b1.at = b0.at + 4 /\ SameOutside(b1.data, b0.data, b0.at, b0.at + 4)
    BY <1>3, <2>1, WriteInt
  <2> HIDE DEF b1
  <2> QED
    BY <1>3, <2>2
<1> HIDE DEF b1
<1>5. Len(b1.data) = L
  BY <1>3, <1>4 DEF SameOutside
<1>6. IsBuffer(b2) /\ b2.at = 8 /\ SameOutside(b2.data, b1.data, 4, 8) /\ HasInt(b2.data, 4, v)
  <2>1. b1.at + 4 <= Len(b1.data)
    BY <1>2, <1>4, <1>5
  <2>2. /\ IsBuffer(b2) /\ b2.at = b1.at + 4 /\ SameOutside(b2.data, b1.data, b1.at, b1.at + 4)
        /\ HasInt(b2.data, b1.at, v)
    BY <1>1, <1>4, <2>1, WriteInt
  <2> HIDE DEF b2
  <2> QED
    BY <1>4, <2>2
<1> HIDE DEF b2
<1>7. Len(b2.data) = L
  BY <1>5, <1>6 DEF SameOutside
<1>8. IsBuffer(b3) /\ b3.at = i3 /\ SameOutside(b3.data, b2.data, 8, i3) /\ HasText(b3.data, 8, s1)
  <2>1. b2.at + 4 + Len(s1) <= Len(b2.data) /\ b2.at + 4 + Len(s1) = i3
    BY <1>2, <1>6, <1>7, <1>21
  <2>2. /\ IsBuffer(b3) /\ b3.at = b2.at + 4 + Len(s1) /\ HasText(b3.data, b2.at, s1)
        /\ SameOutside(b3.data, b2.data, b2.at, b2.at + 4 + Len(s1))
    BY <1>1, <1>6, <2>1, WritesText
  <2> HIDE DEF b3
  <2> QED
    BY <1>6, <2>1, <2>2
<1> HIDE DEF b3
<1>9. Len(b3.data) = L
  BY <1>7, <1>8 DEF SameOutside
<1>10. IsBuffer(b4) /\ SameOutside(b4.data, b3.data, i3, i4) /\ HasText(b4.data, i3, s2)
  <2>1. b3.at + 4 + Len(s2) <= Len(b3.data) /\ b3.at + 4 + Len(s2) = i4
    BY <1>2, <1>8, <1>9, <1>21
  <2>2. /\ IsBuffer(b4) /\ HasText(b4.data, b3.at, s2)
        /\ SameOutside(b4.data, b3.data, b3.at, b3.at + 4 + Len(s2))
    BY <1>1, <1>8, <2>1, WritesText
  <2> HIDE DEF b4
  <2> QED
    BY <1>8, <2>1, <2>2
<1> HIDE DEF b4
<1>11. Len(b4.data) = L
  BY <1>9, <1>10 DEF SameOutside
<1>12. HasInt(b4.data, 4, v)
  <2>1. 4 \in Nat /\ 8 \in Nat /\ 4 + 4 <= 8 /\ 4 + 4 <= i3
    BY <1>2, <1>21
  <2>2. HasInt(b3.data, 4, v)
    BY <1>2, <1>6, <1>7, <1>8, <1>22, <2>1, IntKept
  <2> QED
    BY <1>2, <1>9, <1>10, <1>22, <2>1, <2>2, IntKept
<1>13. HasText(b4.data, 8, s1)
  <2>1. 8 \in Nat /\ 8 + 4 + Len(s1) <= i3 /\ Len(s1) \in Nat
    BY <1>2, <1>21
  <2> QED
    BY <1>2, <1>8, <1>9, <1>10, <1>22, <2>1, TextKept
<1>14. \A k \in 1..L : k > i4 => b4.data[k] = 0
  <2> SUFFICES ASSUME NEW k \in 1..L, k > i4 PROVE b4.data[k] = 0
    OBVIOUS
  <2>1. k > i3 /\ k > 8 /\ k > 4
    BY <1>2, <1>21
  <2>2. b4.data[k] = b3.data[k]
    BY <1>10, <1>11, <2>1 DEF SameOutside
  <2>3. b3.data[k] = b2.data[k]
    BY <1>8, <1>9, <2>1 DEF SameOutside
  <2>4. b2.data[k] = b1.data[k]
    BY <1>6, <1>7, <2>1 DEF SameOutside
  <2>5. b1.data[k] = b0.data[k]
    BY <1>4, <1>5, <2>1 DEF SameOutside
  <2> QED
    BY <1>3, <2>2, <2>3, <2>4, <2>5
<1>15. q = b4.data
  <2>1. /\ q \in Seq(Byte) /\ Len(q) = L
        /\ \A k \in 1..L : q[k] = IF k <= Len(b4.data) THEN b4.data[k] ELSE beyond
    BY <1>2, <1>10, SentBytes
  <2> HIDE DEF q
  <2>2. \A k \in 1..L : q[k] = b4.data[k]
    BY <1>2, <1>11, <2>1
  <2>3. b4.data \in Seq(Byte)
    BY <1>10 DEF IsBuffer
  <2> QED
    BY <1>11, <2>1, <2>2, <2>3, SeqEqual
<1> HIDE DEF q
<1>16. q \in Seq(Byte) /\ Len(q) = L
  BY <1>10, <1>11, <1>15 DEF IsBuffer
<1>17. Holds(q)
  <2>1. HasInt(q, 4, v) /\ HasText(q, 8, s1) /\ HasText(q, 12 + f, s2)
    BY <1>10, <1>12, <1>13, <1>15, <1>21
  <2> QED
    BY <2>1 DEF Holds, v, s1, s2, f
<1>18. \A k \in (17 + f + s)..L : q[k] = 0
  <2> SUFFICES ASSUME NEW k \in (17 + f + s)..L PROVE q[k] = 0
    OBVIOUS
  <2>1. k \in 1..L /\ k > i4
    BY <1>2, <1>21
  <2> QED
    BY <1>14, <1>15, <2>1
<1> QED
  BY <1>16, <1>17, <1>18, <1>20 DEF L, f, s, s1, s2

-----------------------------------------------------------------------------
(* The array *)

IsArray(q) == q \in Seq(Byte) /\ Len(q) = 128

LEMMA OverlayOf ==
  ASSUME NEW old, IsArray(old), NEW p \in Seq(Byte), Len(p) <= 128
  PROVE  /\ IsArray(Overlay(old, p))
         /\ \A k \in 1..128 : Overlay(old, p)[k] = IF k <= Len(p) THEN p[k] ELSE old[k]
<1> DEFINE n == Len(p)
           m == 128 - n
           r == SubSeq(old, n + 1, n + m)
           e == p \o r
<1>1. n \in Nat /\ m \in Nat /\ n + m = 128 /\ old \in Seq(Byte) /\ Len(old) = 128
  BY DEF IsArray
<1>2. Overlay(old, p) = e
  BY <1>1 DEF Overlay, RecvLen
<1> HIDE DEF n, m
<1>3. r \in Seq(Byte) /\ Len(r) = m /\ \A k \in 1..m : r[k] = old[n + k]
  <2>1. n + m <= Len(old)
    BY <1>1
  <2>2. old \in Seq(Byte) /\ n \in Nat /\ m \in Nat
    BY <1>1
  <2>3. /\ SubSeq(old, n + 1, n + m) \in Seq(Byte) /\ Len(SubSeq(old, n + 1, n + m)) = m
        /\ \A k \in 1..m : SubSeq(old, n + 1, n + m)[k] = old[n + k]
    BY <2>1, <2>2, SubSeqOf
  <2> QED
    BY <2>3
<1> HIDE DEF r
<1>4. /\ e \in Seq(Byte) /\ Len(e) = n + m
      /\ \A k \in 1..(n + m) : e[k] = IF k <= n THEN p[k] ELSE r[k - n]
  BY <1>3, ConcatProperties DEF n
<1> HIDE DEF e
<1>5. \A k \in 1..128 : e[k] = IF k <= n THEN p[k] ELSE old[k]
  <2> SUFFICES ASSUME NEW k \in 1..128 PROVE e[k] = IF k <= n THEN p[k] ELSE old[k]
    OBVIOUS
  <2>1. e[k] = IF k <= n THEN p[k] ELSE r[k - n]
    BY <1>1, <1>4
  <2>2. CASE k <= n
    BY <2>1, <2>2
  <2>3. CASE k > n
    <3>1. k - n \in 1..m /\ n + (k - n) = k
      BY <1>1, <2>3
    <3>2. r[k - n] = old[k]
      BY <1>3, <3>1
    <3> QED
      BY <1>1, <2>1, <2>3, <3>2
  <2> QED
    BY <1>1, <2>2, <2>3
<1> QED
  BY <1>1, <1>2, <1>4, <1>5 DEF IsArray, n

LEMMA InArray ==
  ASSUME NEW b, IsArray(b.data), b.at <= 128
  PROVE  4 <= Len(b.data) /\ b.at <= Len(b.data)
BY DEF IsArray

LEMMA AtFour ==
  ASSUME NEW q \in Seq(Byte)
  PROVE  LET c == At(SetBuffer(New(0), q), 4)
         IN  IsBuffer(c) /\ c.data = q /\ c.at = 4
<1> DEFINE b == SetBuffer(New(0), q)
<1>1. b = [data |-> q, at |-> 0]
  BY DEF SetBuffer, New
<1> HIDE DEF b
<1>2. At(b, 4) = [data |-> q, at |-> 4]
  BY <1>1 DEF At
<1>3. [data |-> q, at |-> 4] \in [data : Seq(Byte), at : Nat]
  OBVIOUS
<1> QED
  BY <1>2, <1>3 DEF b, IsBuffer

LEMMA DecodeType ==
  ASSUME NEW q, IsArray(q)
  PROVE  /\ Decode(q).first \in Seq(Byte) /\ Len(Decode(q).first) <= 128
         /\ Decode(q).second \in Seq(Byte) /\ Len(Decode(q).second) <= 128
<1> DEFINE b == SetBuffer(New(0), q)
           c == At(b, 4)
           id == ReadInt32LE(c)
           first == ReadText(id.buffer)
           second == ReadText(first.buffer)
<1>1. q \in Seq(Byte) /\ Len(q) = 128
  BY DEF IsArray
<1>2. IsBuffer(c) /\ c.data = q /\ c.at = 4
  BY <1>1, AtFour
<1> HIDE DEF c
<1>3. IsBuffer(id.buffer) /\ id.buffer.data = q /\ id.buffer.at <= 128
  <2>1. 4 <= Len(c.data) /\ c.at <= Len(c.data)
    BY <1>2, InArray
  <2>2. id.buffer = At(c, Start(c) + 4) /\ Start(c) \in Nat /\ Start(c) + 4 <= 128
    <3>1. id.buffer = At(c, Start(c) + 4) /\ Start(c) \in Nat /\ Start(c) + 4 <= Len(c.data)
      BY <1>2, <2>1, ReadAnyInt
    <3> HIDE DEF id
    <3> QED
      BY <1>1, <1>2, <3>1
  <2>3. Start(c) + 4 \in Nat
    BY <2>2
  <2> HIDE DEF id
  <2> QED
    BY <1>2, <2>2, <2>3, AtBuffer
<1>4. /\ first.value \in Seq(Byte) /\ Len(first.value) <= 128
      /\ IsBuffer(first.buffer) /\ first.buffer.data = q /\ first.buffer.at <= 128
  <2> HIDE DEF id
  <2>1. 4 <= Len(id.buffer.data) /\ id.buffer.at <= Len(id.buffer.data)
    BY <1>3, InArray
  <2> QED
    BY <1>1, <1>3, <2>1, ReadAny
<1>5. second.value \in Seq(Byte) /\ Len(second.value) <= 128
  <2> HIDE DEF first
  <2>1. 4 <= Len(first.buffer.data) /\ first.buffer.at <= Len(first.buffer.data)
    BY <1>4, InArray
  <2> QED
    BY <1>1, <1>4, <2>1, ReadAny
<1>6. Decode(q).first = first.value /\ Decode(q).second = second.value
  BY DEF Decode, ReadInt32LEAt, c
<1> HIDE DEF first, second
<1> QED
  BY <1>4, <1>5, <1>6

LEMMA DecodeId ==
  ASSUME NEW q, IsArray(q), NEW v \in 0..5, HasInt(q, 4, v)
  PROVE  Decode(q).id = v
<1> DEFINE b == SetBuffer(New(0), q)
           c == At(b, 4)
<1>1. IsBuffer(c) /\ c.data = q /\ c.at = 4
  BY AtFour DEF IsArray
<1>2. Decode(q).id = ReadInt32LE(c).value
  BY DEF Decode, ReadInt32LEAt
<1> HIDE DEF c
<1>3. v \in Int /\ 0 <= v /\ v < 65536 /\ HasInt(c.data, c.at, v)
  BY <1>1
<1> QED
  BY <1>1, <1>2, <1>3, ReadInt

\* Wherever the array holds what was typed, it is taken as it was typed.
LEMMA DecodeHeld ==
  ASSUME NEW q, IsArray(q), typed \in TypedType, Holds(q),
         Len(typed.first) < 65536, Len(typed.second) < 65536
  PROVE  /\ Decode(q).id = Id[typed.id]
         /\ Decode(q).first = typed.first /\ Decode(q).second = typed.second
<1> DEFINE b == SetBuffer(New(0), q)
           c == At(b, 4)
           d == At(c, 8)
           s1 == typed.first
           s2 == typed.second
           v == Id[typed.id]
           i == 12 + Len(s1)
           e == At(d, i)
<1>1. s1 \in Seq(Byte) /\ s2 \in Seq(Byte) /\ v \in Int /\ 0 <= v /\ v < 65536
  BY IdIsSmall DEF TypedType
<1>2. HasInt(q, 4, v) /\ HasText(q, 8, s1) /\ HasText(q, i, s2)
  BY DEF Holds
<1>3. Len(s1) < 65536 /\ Len(s2) < 65536
  OBVIOUS
<1> HIDE DEF s1, s2, v
<1>4. i \in Nat
  BY <1>1
<1>5. IsBuffer(c) /\ c.data = q /\ c.at = 4
  BY AtFour DEF IsArray
<1>6. Decode(q) = [id |-> ReadInt32LE(c).value, first |-> ReadText(ReadInt32LE(c).buffer).value,
                   second |-> ReadText(ReadText(ReadInt32LE(c).buffer).buffer).value,
                   buffer |-> ReadText(ReadText(ReadInt32LE(c).buffer).buffer).buffer]
  BY DEF Decode, ReadInt32LEAt
<1> HIDE DEF c
<1>7. ReadInt32LE(c).value = v /\ ReadInt32LE(c).buffer = d
  <2>1. HasInt(c.data, c.at, v) /\ c.at + 4 = 8
    BY <1>2, <1>5
  <2>2. ReadInt32LE(c).value = v /\ ReadInt32LE(c).buffer = At(c, c.at + 4)
    BY <1>1, <1>5, <2>1, ReadInt
  <2> QED
    BY <2>1, <2>2
<1>8. IsBuffer(d) /\ d.data = q /\ d.at = 8
  BY <1>5, AtBuffer
<1> HIDE DEF d
<1>9. ReadText(d).value = s1 /\ ReadText(d).buffer = e
  <2>1. HasText(d.data, d.at, s1) /\ d.at + 4 + Len(s1) = i
    BY <1>1, <1>2, <1>8
  <2>2. ReadText(d).value = s1 /\ ReadText(d).buffer = At(d, d.at + 4 + Len(s1))
    BY <1>1, <1>3, <1>8, <2>1, ReadsText
  <2> QED
    BY <2>1, <2>2
<1> HIDE DEF i
<1>10. IsBuffer(e) /\ e.data = q /\ e.at = i
  BY <1>4, <1>8, AtBuffer
<1> HIDE DEF e
<1>11. ReadText(e).value = s2
  BY <1>1, <1>2, <1>3, <1>10, ReadsText
<1> QED
  BY <1>6, <1>7, <1>9, <1>11 DEF s1, s2, v

\* The bytes of the first piece are taken as they are.
LEMMA HoldsIn ==
  ASSUME NEW p \in Seq(Byte), NEW q, IsArray(q), typed \in TypedType, Holds(p), Fits,
         \A k \in 5..(16 + Len(typed.first) + Len(typed.second)) : q[k] = p[k]
  PROVE  Holds(q)
<1> DEFINE s1 == typed.first
           s2 == typed.second
           f == Len(s1)
           s == Len(s2)
           v == Id[typed.id]
           n == 16 + f + s
           i == 12 + f
<1>1. s1 \in Seq(Byte) /\ s2 \in Seq(Byte) /\ f \in Nat /\ s \in Nat
  BY DEF TypedType
<1>2. n <= 128 /\ \A k \in 5..n : q[k] = p[k]
  <2>1. HeaderSize + 4 + f + 4 + s <= RecvLen
    BY DEF Fits
  <2>2. \A k \in 5..n : q[k] = p[k]
    OBVIOUS
  <2> HIDE DEF f, s
  <2>3. n <= 128
    BY <1>1, <2>1 DEF HeaderSize, RecvLen
  <2> QED
    BY <2>2, <2>3
<1>3. HasInt(p, 4, v) /\ HasText(p, 8, s1) /\ HasText(p, i, s2)
  BY DEF Holds
<1>4. Len(q) = 128
  BY DEF IsArray
<1>5. f = Len(s1) /\ s = Len(s2) /\ n = 16 + f + s /\ i = 12 + f
  OBVIOUS
<1> HIDE DEF s1, s2, f, s, v, n, i
<1>6. HasInt(q, 4, v)
  <2>1. \A k \in 1..4 : 4 + k \in 5..n
    BY <1>1, <1>5
  <2> QED
    BY <1>2, <1>3, <1>4, <2>1 DEF HasInt
<1>7. ASSUME NEW at \in Nat, NEW t, Len(t) \in Nat, at >= 4, at + 4 + Len(t) <= n, HasText(p, at, t)
      PROVE  HasText(q, at, t)
  <2>1. HasInt(q, at, Len(t))
    <3>1. at + 4 <= Len(q)
      BY <1>2, <1>4, <1>1, <1>5, <1>7
    <3>2. \A k \in 1..4 : at + k \in 5..n
      BY <1>1, <1>5, <1>7
    <3>3. \A k \in 1..4 : p[at + k] = Shifted(Len(t), k - 1)
      BY <1>7 DEF HasText, HasInt
    <3> QED
      BY <1>2, <3>1, <3>2, <3>3 DEF HasInt
  <2>2. HasString(q, at + 4, t)
    <3>1. at + 4 + Len(t) <= Len(q)
      BY <1>2, <1>4, <1>1, <1>5, <1>7
    <3>2. \A k \in 1..Len(t) : at + 4 + k \in 5..n
      BY <1>1, <1>5, <1>7
    <3>3. \A k \in 1..Len(t) : p[at + 4 + k] = t[k]
      BY <1>7 DEF HasText, HasString
    <3> QED
      BY <1>2, <3>1, <3>2, <3>3 DEF HasString
  <2> QED
    BY <2>1, <2>2 DEF HasText
<1>8. HasText(q, 8, s1)
  <2>1. 8 \in Nat /\ Len(s1) \in Nat /\ 8 >= 4 /\ 8 + 4 + Len(s1) <= n
    BY <1>1, <1>5
  <2> QED
    BY <1>3, <1>7, <2>1
<1>9. HasText(q, i, s2)
  <2>1. i \in Nat /\ Len(s2) \in Nat /\ i >= 4 /\ i + 4 + Len(s2) <= n
    BY <1>1, <1>5
  <2> QED
    BY <1>3, <1>7, <2>1
<1> QED
  BY <1>6, <1>8, <1>9 DEF Holds, v, s1, s2, i, f

-----------------------------------------------------------------------------
(* The invariant *)

Known == named = typed.user <=> Len(typed.user) <= 32

\* What is typed, carried and remembered
Carried ==
  /\ typed \in TypedType /\ 4 + Len(typed.user) <= 128 /\ Len(typed.account) \in 1..5
  /\ beyond \in Byte
  /\ wire \in Seq(Byte) /\ named \in Seq(Byte) /\ Len(named) <= 128 /\ IsArray(array)
  /\ stage \in {"name", "request"} => handled = << >>
  /\ stage = "request" /\ wire # << >> => wire = NameBytes
  /\ stage = "name" \/ (stage = "request" /\ wire # << >>) \/ Known

LinesGood == lines \in Seq(GoodLine)

LEMMA CarriedInit == Init => Carried /\ LinesGood
<1> SUFFICES ASSUME Init PROVE Carried /\ LinesGood
  OBVIOUS
<1>1. typed \in TypedType /\ 4 + Len(typed.user) <= 128 /\ Len(typed.account) \in 1..5
  <2>1. typed \in TypedType /\ Len(typed.user) + 4 <= 128 /\ Len(typed.account) \in 1..5
    BY PacketsAssumption DEF Init, TypedType, RecvLen
  <2>2. Len(typed.user) \in Nat
    BY <2>1 DEF TypedType
  <2> QED
    BY <2>1, <2>2
<1>2. beyond \in Byte
  BY PacketsAssumption DEF Init
<1>3. IsArray(array)
  <2> DEFINE n == 128
  <2>1. n \in Nat
    OBVIOUS
  <2> HIDE DEF n
  <2>2. Fill(beyond, n) \in Seq(Byte) /\ Len(Fill(beyond, n)) = n
    BY <1>2, <2>1, FillSeq
  <2>3. array = Fill(beyond, n)
    BY DEF Init, RecvLen, n
  <2> QED
    BY <2>2, <2>3 DEF IsArray, n
<1>4. /\ wire \in Seq(Byte) /\ named \in Seq(Byte) /\ Len(named) <= 128
      /\ lines \in Seq(GoodLine)
  BY EmptySeq DEF Init
<1>5. handled = << >> /\ stage = "name"
  BY DEF Init
<1> QED
  BY <1>1, <1>2, <1>3, <1>4, <1>5 DEF Carried, LinesGood

\* The actions that leave the name, the wire and the array as they are
LEMMA CarriedKept ==
  Carried /\ UNCHANGED <<typed, beyond, wire, named, array, handled>>
    /\ (stage' = stage \/ (stage = "asked" /\ stage' = "serve")) => Carried'
<1> SUFFICES ASSUME Carried, UNCHANGED <<typed, beyond, wire, named, array, handled>>,
                    stage' = stage \/ (stage = "asked" /\ stage' = "serve")
             PROVE  Carried'
  OBVIOUS
<1>1. NameBytes' = NameBytes /\ (IsArray(array))' = IsArray(array) /\ Known' = Known
  BY DEF NameBytes, Sent, IsArray, Known
<1> QED
  BY <1>1 DEF Carried

LEMMA SendNameCarried == Carried /\ SendName => Carried'
<1> SUFFICES ASSUME Carried, SendName PROVE Carried'
  OBVIOUS
<1>1. /\ UNCHANGED <<typed, beyond, named, array, handled>> /\ stage = "name" /\ stage' = "request"
      /\ wire' = Sent(WriteString(WriteInt32LE(New(4), 32), typed.user), Len(typed.user) + 4)
  BY DEF SendName, SizeOfString
<1>2. typed.user \in Seq(Byte) /\ beyond \in Byte /\ Len(typed.user) \in Nat
  BY DEF Carried, TypedType
<1>3. Len(typed.user) + 4 = 4 + Len(typed.user)
  BY <1>2
<1>4. wire' = NameBytes /\ NameBytes' = NameBytes
  BY <1>1, <1>3 DEF NameBytes, Sent
<1>5. NameBytes \in Seq(Byte) /\ Len(NameBytes) = 4 + Len(typed.user)
  BY <1>2, NameSent
<1>6. NameBytes # << >>
  BY <1>2, <1>5, EmptySeq
<1>7. (IsArray(array))' = IsArray(array)
  BY <1>1 DEF IsArray
<1> QED
  BY <1>1, <1>4, <1>5, <1>6, <1>7 DEF Carried

LEMMA ReceiveNameCarried == Carried /\ ReceiveName => Carried'
<1> SUFFICES ASSUME Carried, ReceiveName PROVE Carried'
  OBVIOUS
<1> DEFINE size == ReadInt32LEAt(SetBuffer(New(0), NameBytes), 0)
           name == ReadString(size.buffer, size.value).value
<1>1. /\ UNCHANGED <<typed, beyond, stage, array, handled>> /\ stage = "request" /\ wire = NameBytes
      /\ wire' = Rest(NameBytes)
      /\ named' = ReadString(ReadInt32LEAt(SetBuffer(New(0), Piece(NameBytes)), 0).buffer,
                             ReadInt32LEAt(SetBuffer(New(0), Piece(NameBytes)), 0).value).value
  BY DEF ReceiveName, Carried
<1>2. typed.user \in Seq(Byte) /\ beyond \in Byte /\ 4 + Len(typed.user) <= 128
  BY DEF Carried, TypedType
<1>3. /\ NameBytes \in Seq(Byte) /\ Len(NameBytes) = 4 + Len(typed.user)
      /\ HasInt(NameBytes, 0, 32) /\ HasString(NameBytes, 4, typed.user)
  BY <1>2, NameSent
<1>4. Len(NameBytes) <= 128
  BY <1>2, <1>3
<1>5. Piece(NameBytes) = NameBytes
  BY <1>3, <1>4, ShortPiece
<1>6. name \in Seq(Byte) /\ Len(name) <= 128 /\ (name = typed.user <=> Len(typed.user) <= 32)
  BY <1>2, <1>3, <1>4, NameReceived
<1>7. named' = name
  BY <1>1, <1>5
<1> HIDE DEF name
<1>8. Rest(NameBytes) \in Seq(Byte) /\ Rest(NameBytes) = << >>
  <2> DEFINE q == NameBytes
             r == Rest(q)
             n == Len(q)
             m == Len(r)
  <2>1. r \in Seq(Byte) /\ m = (IF n < 128 THEN 0 ELSE n - 128) /\ n \in Nat /\ n <= 128
    BY <1>3, <1>4, RestOf
  <2> HIDE DEF n, m
  <2>2. m = 0
    BY <2>1
  <2> HIDE DEF r
  <2>3. r = << >>
    BY <2>1, <2>2, EmptySeq DEF m
  <2> QED
    BY <2>1, <2>3 DEF r
<1>9. (IsArray(array))' = IsArray(array)
  BY <1>1 DEF IsArray
<1>10. Known'
  BY <1>1, <1>6, <1>7 DEF Known
<1> QED
  BY <1>1, <1>6, <1>7, <1>8, <1>9, <1>10 DEF Carried

LEMMA SendRequestCarried ==
  Carried /\ SendRequest =>
    Carried' /\ wire' = RequestBytes /\ UNCHANGED <<typed, beyond, handled, lines>>
             /\ stage' = "serve" /\ handled = << >>
<1> SUFFICES ASSUME Carried, SendRequest
             PROVE  Carried' /\ wire' = RequestBytes /\ UNCHANGED <<typed, beyond, handled, lines>>
                             /\ stage' = "serve" /\ handled = << >>
  OBVIOUS
<1>1. /\ UNCHANGED <<typed, beyond, named, array, handled, lines>>
      /\ stage = "request" /\ wire = << >> /\ stage' = "serve" /\ wire' = RequestBytes
  BY DEF SendRequest, RequestBytes, Length
<1>2. RequestBytes \in Seq(Byte) /\ handled = << >> /\ Known
  BY <1>1, RequestSent DEF Carried
<1>3. (IsArray(array))' = IsArray(array) /\ Known' = Known
  BY <1>1 DEF IsArray, Known
<1> QED
  BY <1>1, <1>2, <1>3 DEF Carried

LEMMA ReceiveRequestCarried ==
  Carried /\ ReceiveRequest => Carried' /\ IsArray(array')
<1> SUFFICES ASSUME Carried, ReceiveRequest PROVE Carried' /\ IsArray(array')
  OBVIOUS
<1>1. /\ UNCHANGED <<typed, beyond, named>> /\ stage = "serve" /\ stage' \in {"serve", "asked"}
      /\ wire' = Rest(wire) /\ array' = Overlay(array, Piece(wire))
  BY DEF ReceiveRequest
<1>2. wire \in Seq(Byte) /\ IsArray(array) /\ Known
  BY <1>1 DEF Carried
<1>3. Rest(wire) \in Seq(Byte)
  BY <1>2, RestOf
<1>4. Piece(wire) \in Seq(Byte) /\ Len(Piece(wire)) <= 128
  <2> DEFINE n == Len(wire)
             m == Len(Piece(wire))
  <2>1. Piece(wire) \in Seq(Byte) /\ m = (IF n < 128 THEN n ELSE 128) /\ n \in Nat
    BY <1>2, PieceOf
  <2> HIDE DEF n, m
  <2>2. m <= 128
    BY <2>1
  <2> QED
    BY <2>1, <2>2 DEF m
<1>5. IsArray(array')
  BY <1>1, <1>2, <1>4, OverlayOf
<1>6. (IsArray(array))' /\ Known' = Known
  BY <1>1, <1>5 DEF IsArray, Known
<1> QED
  BY <1>1, <1>2, <1>3, <1>5, <1>6 DEF Carried

LEMMA CarriedStep == Carried /\ [Next]_vars => Carried'
<1> SUFFICES ASSUME Carried, [Next]_vars PROVE Carried'
  OBVIOUS
<1>1. ASSUME SendName PROVE Carried'
  BY <1>1, SendNameCarried
<1>2. ASSUME ReceiveName PROVE Carried'
  BY <1>2, ReceiveNameCarried
<1>3. ASSUME SendRequest PROVE Carried'
  BY <1>3, SendRequestCarried
<1>4. ASSUME ReceiveRequest PROVE Carried'
  BY <1>4, ReceiveRequestCarried
<1>5. ASSUME ReceiveForwarded PROVE Carried'
  BY <1>5, CarriedKept DEF ReceiveForwarded
<1>6. ASSUME ReceiveAnswer PROVE Carried'
  BY <1>6, CarriedKept DEF ReceiveAnswer
<1>7. ASSUME NEW i \in DOMAIN lines, PrintPiece(i) PROVE Carried'
  BY <1>7, CarriedKept DEF PrintPiece
<1>8. ASSUME UNCHANGED vars PROVE Carried'
  BY <1>8, CarriedKept DEF vars
<1> QED
  BY <1>1, <1>2, <1>3, <1>4, <1>5, <1>6, <1>7, <1>8 DEF Next, Rested

LEMMA ReceiveRequestLines == Carried /\ LinesGood /\ ReceiveRequest => LinesGood'
<1> SUFFICES ASSUME Carried, LinesGood, ReceiveRequest PROVE LinesGood'
  OBVIOUS
<1> DEFINE r == Decode(array')
           more == IF r.id = Id.JOIN THEN RoomLines("JOIN", r.second)
                   ELSE IF r.id = Id.LEAVE THEN RoomLines("LEAVE", r.second)
                   ELSE IF r.id = Id.SEND THEN <<ChatLine(r.first, r.second)>>
                   ELSE << >>
<1>1. lines' = lines \o more
  BY DEF ReceiveRequest
<1>2. IsArray(array')
  BY ReceiveRequestCarried
<1>3. /\ r.first \in Seq(Byte) /\ Len(r.first) <= 128
      /\ r.second \in Seq(Byte) /\ Len(r.second) <= 128
  BY <1>2, DecodeType
<1> HIDE DEF r
<1>4. beyond \in Byte /\ named \in Seq(Byte) /\ Len(named) <= 128
  BY DEF Carried
<1>5. RoomLines("JOIN", r.second) \in Seq(GoodLine) /\ RoomLines("LEAVE", r.second) \in Seq(GoodLine)
  BY <1>3, <1>4, RoomLinesGood
<1>6. <<ChatLine(r.first, r.second)>> \in Seq(GoodLine)
  <2>1. ChatLine(r.first, r.second) \in GoodLine
    BY <1>3, <1>4, ChatLineGood
  <2> QED
    BY <2>1
<1>7. << >> \in Seq(GoodLine)
  BY EmptySeq
<1>8. more \in Seq(GoodLine)
  BY <1>5, <1>6, <1>7
<1> HIDE DEF more
<1>9. lines \o more \in Seq(GoodLine)
  BY <1>8, ConcatProperties DEF LinesGood
<1> QED
  BY <1>1, <1>9 DEF LinesGood

LEMMA ReceiveAnswerLines == Carried /\ LinesGood /\ ReceiveAnswer => LinesGood'
<1> SUFFICES ASSUME Carried, LinesGood, ReceiveAnswer PROVE LinesGood'
  OBVIOUS
<1>1. PICK register \in BOOLEAN, success \in BOOLEAN :
        lines' \in {Append(lines, Line(Told(register, success))), lines}
  <2> DEFINE register == handled[Len(handled)].id = Id.CREATE
             success == ReadInt32LEAt(SetBuffer(New(0), Piece(back)), 0).value # 0
  <2>1. lines' \in {Append(lines, Line(Told(register, success))), lines}
    BY DEF ReceiveAnswer
  <2>2. register \in BOOLEAN /\ success \in BOOLEAN
    OBVIOUS
  <2> HIDE DEF register, success
  <2> QED
    BY <2>1, <2>2
<1>2. Line(Told(register, success)) \in GoodLine
  BY ToldGood DEF Carried
<1>3. Append(lines, Line(Told(register, success))) \in Seq(GoodLine)
  BY <1>2, AppendProperties DEF LinesGood
<1> QED
  BY <1>1, <1>3 DEF LinesGood

LEMMA PrintPieceLines ==
  ASSUME NEW i \in DOMAIN lines, LinesGood, PrintPiece(i)
  PROVE  LinesGood'
<1> DEFINE line == lines[i]
           b == SetBuffer(New(0), Piece(line.bytes))
           text == ReadText(b)
           print == text.value \o ReadText(text.buffer).value
           next1 == [line EXCEPT !.bytes = Rest(@), !.printed = Append(@, print)]
           next2 == [line EXCEPT !.bytes = << >>, !.printed = Append(@, << >>)]
<1>1. lines \in Seq(GoodLine) /\ i \in 1..Len(lines)
  BY DEF LinesGood
<1>2. line \in GoodLine
  BY <1>1, ElementOfSeq
<1>3. LineInv(line) /\ line.bytes # << >>
  BY <1>2 DEF GoodLine, PrintPiece
<1>4. IF CanReadInt32(b) THEN LineInv(next1) ELSE LineInv(next2)
  <2> HIDE DEF line
  <2> QED
    BY <1>3, PrintedStep
<1>5. IF CanReadInt32(b) THEN lines' = [lines EXCEPT ![i] = next1]
                         ELSE lines' = [lines EXCEPT ![i] = next2]
  BY DEF PrintPiece
<1> HIDE DEF next1, next2, b
<1>6. PICK new : LineInv(new) /\ lines' = [lines EXCEPT ![i] = new]
  BY <1>4, <1>5
<1>7. new \in GoodLine
  BY <1>6 DEF GoodLine, LineInv
<1>8. [lines EXCEPT ![i] = new] \in Seq(GoodLine)
  BY <1>1, <1>7
<1> QED
  BY <1>6, <1>8 DEF LinesGood

LEMMA LinesStep == Carried /\ LinesGood /\ [Next]_vars => LinesGood'
<1> SUFFICES ASSUME Carried, LinesGood, [Next]_vars PROVE LinesGood'
  OBVIOUS
<1>1. ASSUME SendName \/ ReceiveName \/ SendRequest \/ ReceiveForwarded \/ UNCHANGED vars
      PROVE  LinesGood'
  BY <1>1 DEF SendName, ReceiveName, SendRequest, ReceiveForwarded, vars, LinesGood
<1>2. ASSUME ReceiveRequest PROVE LinesGood'
  BY <1>2, ReceiveRequestLines
<1>3. ASSUME ReceiveAnswer PROVE LinesGood'
  BY <1>3, ReceiveAnswerLines
<1>4. ASSUME NEW i \in DOMAIN lines, PrintPiece(i) PROVE LinesGood'
  BY <1>4, PrintPieceLines
<1> QED
  BY <1>1, <1>2, <1>3, <1>4 DEF Next, Rested

\* A line that was received is printed whole or in several pieces, as its length says.
LEMMA LinesPrinted == LinesGood => PrintedOnce
<1> SUFFICES ASSUME LinesGood, NEW i \in DOMAIN lines, lines[i].bytes = << >>
             PROVE  lines[i].printed = <<lines[i].text>> <=> lines[i].size <= RecvLen
  BY DEF PrintedOnce
<1> DEFINE line == lines[i]
<1>1. i \in 1..Len(lines) /\ lines \in Seq(GoodLine)
  BY DEF LinesGood
<1>2. line \in GoodLine
  BY <1>1, ElementOfSeq
<1>3. line.bytes = << >>
  OBVIOUS
<1> HIDE DEF line
<1>4. LineInv(line) /\ line.size \in Nat /\ Len(line.bytes) = 0
  BY <1>2, <1>3, EmptySeq DEF GoodLine, LineType
<1>5. line.printed = <<line.text>> <=> line.size <= 128
  <2>1. ~Unseen(line)
    BY <1>4 DEF Unseen
  <2>2. CASE Whole(line)
    BY <2>2 DEF Whole
  <2>3. CASE InPieces(line)
    <3>1. Len(line.printed) >= 2 /\ line.size > 128
      BY <1>3, <2>3 DEF InPieces
    <3> DEFINE p == line.printed
               q == <<line.text>>
    <3>2. Len(p) >= 2 /\ Len(q) = 1
      BY <3>1
    <3> HIDE DEF p, q
    <3>4. ASSUME p = q PROVE FALSE
      <4>1. Len(p) = 1
        BY <3>2, <3>4
      <4> QED
        BY <3>2, <4>1
    <3>3. line.printed # <<line.text>>
      BY <3>4 DEF p, q
    <3> QED
      BY <1>4, <3>1, <3>3
  <2> QED
    BY <1>4, <2>1, <2>2, <2>3 DEF LineInv
<1> QED
  BY <1>5 DEF line, RecvLen

\* A client prints a line once and whole if and only if the line with its length has at
\* most 128 bytes, for every text, name and room that the chat server reads of its array,
\* whatever is left in it: the receive thread of a client, and the lines of main() of the
\* chat server.
THEOREM EveryLinePrinted == Spec => []PrintedOnce
<1>1. Init => Carried /\ LinesGood
  BY CarriedInit
<1>2. Carried /\ LinesGood /\ [Next]_vars => (Carried /\ LinesGood)'
  BY CarriedStep, LinesStep
<1> QED
  BY <1>1, <1>2, LinesPrinted, PTL DEF Spec

-----------------------------------------------------------------------------
(* The way of a request that fits *)

Entry == [id |-> Id[typed.id], first |-> typed.first, second |-> typed.second]
Padding == Rest(RequestBytes)

\* It was not sent yet; it was not received; its data were received; all of it was, and
\* its padding arrived by itself.
Way ==
  Fits =>
    \/ stage \in {"name", "request"}
    \/ stage = "serve" /\ wire = RequestBytes /\ handled = << >>
    \/ wire = Padding /\ handled = <<Entry>> /\ Holds(array)
    \/ /\ wire = << >> /\ Len(Padding) > 0
       /\ handled = IF Len(Padding) \in 1..4 THEN <<Entry, Entry>> ELSE <<Entry>>

LEMMA PaddingOf ==
  ASSUME Carried, Fits
  PROVE  /\ Padding \in Seq(Byte) /\ Len(Padding) \in Nat /\ Len(Padding) <= 128
         /\ Len(Padding) = IF Length < 128 THEN 0 ELSE Length - 128
         /\ \A k \in 1..Len(Padding) : Padding[k] = 0
         /\ 24 <= Length
         /\ 16 + Len(typed.first) + Len(typed.second) <= Length
         /\ 16 + Len(typed.first) + Len(typed.second) <= 128
<1> DEFINE f == Len(typed.first)
           s == Len(typed.second)
           L == Length
           q == RequestBytes
           p == Padding
           n == Len(p)
<1>1. /\ q \in Seq(Byte) /\ Len(q) = L /\ \A k \in (17 + f + s)..L : q[k] = 0
  BY RequestSent DEF Carried
<1>2. f \in Nat /\ s \in Nat
  BY DEF Carried, TypedType
<1>3. L \in Nat /\ L = (IF typed.id \in {"JOIN", "LEAVE"} THEN 24 ELSE 48) + f + s
  BY LengthIs DEF Carried
<1>4. HeaderSize + 4 + f + 4 + s <= RecvLen
  BY DEF Fits
<1> HIDE DEF f, s, L, q
<1>5. /\ p \in Seq(Byte) /\ n = (IF L < 128 THEN 0 ELSE L - 128)
      /\ \A k \in 1..n : p[k] = q[128 + k]
  <2>1. p = Rest(q)
    BY DEF Padding, q
  <2> HIDE DEF p
  <2> QED
    BY <1>1, <2>1, RestOf
<1> HIDE DEF p, n
<1>6. 16 + f + s <= 128 /\ 16 + f + s <= L /\ 24 <= L /\ L <= 160
  BY <1>2, <1>3, <1>4 DEF HeaderSize, RecvLen
<1>7. n \in Nat /\ n <= 128
  BY <1>3, <1>5, <1>6
<1>8. \A k \in 1..n : p[k] = 0
  <2> SUFFICES ASSUME NEW k \in 1..n PROVE p[k] = 0
    OBVIOUS
  <2>1. 128 + k \in (17 + f + s)..L
    BY <1>2, <1>3, <1>5, <1>6
  <2> QED
    BY <1>1, <1>5, <2>1
<1> QED
  BY <1>5, <1>6, <1>7, <1>8 DEF n, p, f, s, L

\* The array has what was typed, and the server takes it.
LEMMA TakesHeld ==
  ASSUME Carried, Fits, ReceiveRequest, Holds(array')
  PROVE  handled' = Append(handled, Entry)
<1> DEFINE r == Decode(array')
<1>1. IsArray(array')
  BY ReceiveRequestCarried
<1>2. typed \in TypedType
  BY DEF Carried
<1>3. Len(typed.first) < 65536 /\ Len(typed.second) < 65536
  <2>1. Len(typed.first) \in Nat /\ Len(typed.second) \in Nat
    BY <1>2 DEF TypedType
  <2>2. 16 + Len(typed.first) + Len(typed.second) <= 128
    BY PaddingOf
  <2> DEFINE f == Len(typed.first)
             s == Len(typed.second)
  <2>3. f \in Nat /\ s \in Nat /\ 16 + f + s <= 128
    BY <2>1, <2>2
  <2> HIDE DEF f, s
  <2>4. f < 65536 /\ s < 65536
    BY <2>3
  <2> QED
    BY <2>4 DEF f, s
<1>4. r.id = Id[typed.id] /\ r.first = typed.first /\ r.second = typed.second
  BY <1>1, <1>2, <1>3, DecodeHeld
<1>5. handled' = IF r.id \in 1..5
                 THEN Append(handled, [id |-> r.id, first |-> r.first, second |-> r.second])
                 ELSE handled
  BY DEF ReceiveRequest
<1> HIDE DEF r
<1>6. r.id \in 1..5
  BY <1>2, <1>4, IdIsSmall DEF TypedType
<1> QED
  BY <1>4, <1>5, <1>6 DEF Entry

LEMMA FirstWay ==
  ASSUME Carried, Fits, ReceiveRequest, wire = RequestBytes, handled = << >>
  PROVE  wire' = Padding /\ handled' = <<Entry>> /\ Holds(array')
<1> DEFINE f == Len(typed.first)
           s == Len(typed.second)
           n == 16 + f + s
           q == RequestBytes
           p == Piece(q)
           m == Len(p)
           new == array'
<1>1. typed \in TypedType /\ q \in Seq(Byte) /\ Len(q) = Length /\ Holds(q) /\ IsArray(array)
  BY RequestSent DEF Carried
<1>2. Length >= 24 /\ n <= Length /\ n <= 128 /\ Length \in Nat /\ n \in Nat
  BY <1>1, PaddingOf, LengthIs DEF TypedType
<1>3. wire' = Rest(q) /\ array' = Overlay(array, p)
  BY DEF ReceiveRequest
<1> HIDE DEF q, n
<1>4. /\ p \in Seq(Byte) /\ m = (IF Length < 128 THEN Length ELSE 128)
      /\ \A k \in 1..m : p[k] = q[k]
  BY <1>1, PieceOf
<1> HIDE DEF p
<1>5. m <= 128 /\ n <= m /\ m \in Nat
  <2> HIDE DEF m
  <2> QED
    BY <1>2, <1>4
<1>6. IsArray(new) /\ \A k \in 1..128 : new[k] = IF k <= m THEN p[k] ELSE array[k]
  BY <1>1, <1>3, <1>4, <1>5, OverlayOf
<1> HIDE DEF m, new
<1>7. \A k \in 5..n : new[k] = q[k]
  <2> SUFFICES ASSUME NEW k \in 5..n PROVE new[k] = q[k]
    OBVIOUS
  <2>1. k \in 1..128 /\ k \in 1..m /\ k <= m
    BY <1>2, <1>5
  <2> QED
    BY <1>4, <1>6, <2>1
<1>8. Holds(new)
  <2>1. \A k \in 5..(16 + Len(typed.first) + Len(typed.second)) : new[k] = q[k]
    BY <1>7 DEF n
  <2> QED
    BY <1>1, <1>6, <2>1, HoldsIn
<1>9. handled' = Append(handled, Entry)
  BY <1>8, TakesHeld DEF new
<1> QED
  BY <1>3, <1>8, <1>9 DEF Padding, q, new

LEMMA AppendTwice ==
  ASSUME NEW x
  PROVE  Append(<<x>>, x) = <<x, x>>
<1> DEFINE t == <<x>>
           S == {x}
<1>1. t \in Seq(S) /\ Len(t) = 1 /\ t[1] = x /\ <<x, x>> \in Seq(S) /\ Len(<<x, x>>) = 2
  OBVIOUS
<1>2. /\ Append(t, x) \in Seq(S) /\ Len(Append(t, x)) = 2
      /\ Append(t, x)[1] = x /\ Append(t, x)[2] = x
  BY <1>1, AppendProperties
<1>3. \A k \in 1..2 : Append(t, x)[k] = <<x, x>>[k]
  <2>1. <<x, x>>[1] = x /\ <<x, x>>[2] = x
    OBVIOUS
  <2>2. \A k \in 1..2 : k = 1 \/ k = 2
    OBVIOUS
  <2> QED
    BY <1>2, <2>1, <2>2
<1> QED
  BY <1>1, <1>2, <1>3, SeqEqual

LEMMA SecondWay ==
  ASSUME Carried, Fits, ReceiveRequest, wire = Padding, handled = <<Entry>>, Holds(array)
  PROVE  /\ wire' = << >> /\ Len(Padding) > 0
         /\ handled' = IF Len(Padding) \in 1..4 THEN <<Entry, Entry>> ELSE <<Entry>>
         /\ Len(Padding) \in 1..4 => Holds(array')
<1> DEFINE p == Padding
           m == Len(p)
           new == array'
           v == Id[typed.id]
           old == array
<1>1. /\ p \in Seq(Byte) /\ m \in Nat /\ m <= 128 /\ \A k \in 1..m : p[k] = 0
  BY PaddingOf
<1>2. /\ typed \in TypedType /\ IsArray(old) /\ old \in Seq(Byte) /\ wire = p /\ wire # << >>
      /\ wire' = Rest(wire) /\ new = Overlay(old, Piece(wire)) /\ Holds(old)
  BY DEF ReceiveRequest, Carried, IsArray
<1>3. 16 + Len(typed.first) + Len(typed.second) <= 128
  BY PaddingOf
<1> HIDE DEF p, new, old
<1>4. Piece(p) = p /\ m > 0
  <2>1. m # 0
    BY <1>1, <1>2, EmptySeq
  <2>2. Piece(p) = p
    BY <1>1, ShortPiece
  <2> QED
    BY <1>1, <2>1, <2>2
<1>5. Rest(p) = << >>
  <2> DEFINE r == Rest(p)
  <2>1. r \in Seq(Byte) /\ Len(r) = (IF m < 128 THEN 0 ELSE m - 128)
    BY <1>1, RestOf
  <2> HIDE DEF r, m
  <2>2. Len(r) = 0
    BY <1>1, <2>1
  <2> QED
    BY <2>1, <2>2, EmptySeq DEF r
<1>6. IsArray(new) /\ \A k \in 1..128 : new[k] = IF k <= m THEN p[k] ELSE old[k]
  <2>1. new = Overlay(old, p)
    BY <1>2, <1>4
  <2>2. Len(p) <= 128
    BY <1>1
  <2>3. /\ IsArray(Overlay(old, p))
        /\ \A k \in 1..128 : Overlay(old, p)[k] = IF k <= Len(p) THEN p[k] ELSE old[k]
    BY <1>1, <1>2, <2>2, OverlayOf
  <2> QED
    BY <2>1, <2>3
<1> HIDE DEF m
<1>7. CASE m \in 1..4
  <2>1. \A k \in 5..(16 + Len(typed.first) + Len(typed.second)) : new[k] = old[k]
    <3> DEFINE j == 16 + Len(typed.first) + Len(typed.second)
    <3>1. j \in Nat /\ j <= 128
      BY <1>2, <1>3 DEF TypedType
    <3> HIDE DEF j
    <3>2. \A k \in 5..j : new[k] = old[k]
      BY <1>6, <1>7, <3>1
    <3> QED
      BY <3>2 DEF j
  <2>2. Holds(new)
    BY <1>2, <1>6, <2>1, HoldsIn
  <2>3. handled' = Append(<<Entry>>, Entry)
    BY <2>2, TakesHeld DEF new
  <2>4. handled' = <<Entry, Entry>>
    BY <2>3, AppendTwice
  <2> QED
    BY <1>2, <1>4, <1>5, <1>7, <2>2, <2>4 DEF p, m, new
<1>8. CASE m \notin 1..4
  <2>1. m >= 5
    BY <1>1, <1>4, <1>8
  <2>2. HasInt(old, 4, v) /\ v \in 1..5
    BY <1>2, IdIsSmall DEF Holds, TypedType
  <2> HIDE DEF v
  <2>3. Shifted(v, 1) = 0 /\ Shifted(v, 2) = 0 /\ Shifted(v, 3) = 0
    <3>1. v \in Int /\ 0 <= v /\ v < 65536 /\ v < 256
      BY <2>2
    <3>2. Shifted(v, 0) + 256 * Shifted(v, 1) = v /\ Shifted(v, 2) = 0 /\ Shifted(v, 3) = 0
      BY <3>1, SmallValue
    <3>3. Shifted(v, 0) \in Byte /\ Shifted(v, 1) \in Byte
      BY <3>1, ShiftedIsByte
    <3>4. Shifted(v, 0) \in Int /\ Shifted(v, 0) >= 0 /\ Shifted(v, 1) \in Int /\ Shifted(v, 1) >= 0
      BY <3>3, ByteIsInt
    <3> QED
      BY <3>1, <3>2, <3>4
  <2>4. \A k \in 1..4 : Shifted(0, k - 1) = 0
    <3> DEFINE z == 0
    <3>1. z \in Int /\ 0 <= z /\ z < 65536 /\ z < 256 /\ z = 0
      OBVIOUS
    <3> HIDE DEF z
    <3>2. Shifted(z, 0) + 256 * Shifted(z, 1) = z /\ Shifted(z, 2) = 0 /\ Shifted(z, 3) = 0
      BY <3>1, SmallValue
    <3>3. Shifted(z, 0) \in Byte /\ Shifted(z, 1) \in Byte
      BY <3>1, ShiftedIsByte
    <3>4. Shifted(z, 0) \in Int /\ Shifted(z, 0) >= 0 /\ Shifted(z, 1) \in Int /\ Shifted(z, 1) >= 0
      BY <3>3, ByteIsInt
    <3>5. Shifted(z, 0) = 0 /\ Shifted(z, 1) = 0
      BY <3>1, <3>2, <3>4
    <3> QED
      BY <3>2, <3>5 DEF z
  <2>5. \A k \in 1..4 : old[4 + k] = Shifted(v, k - 1)
    BY <2>2 DEF HasInt
  <2>6. new[5] = 0 /\ new[6] = 0 /\ new[7] = 0 /\ new[8] = 0
    <3>1. old[6] = 0 /\ old[7] = 0 /\ old[8] = 0
      BY <2>3, <2>5
    <3>2. ASSUME NEW k \in 5..8 PROVE new[k] = IF k <= m THEN 0 ELSE old[k]
      <4>1. new[k] = IF k <= m THEN p[k] ELSE old[k]
        BY <1>6
      <4>2. CASE k <= m
        <5>1. k \in 1..m
          BY <1>1, <4>2
        <5> QED
          BY <1>1, <4>1, <4>2, <5>1 DEF m
      <4>3. CASE ~(k <= m)
        BY <4>1, <4>3
      <4> QED
        BY <4>2, <4>3
    <3> QED
      BY <1>1, <2>1, <3>1, <3>2
  <2>7. HasInt(new, 4, 0)
    <3>1. \A k \in 1..4 : new[4 + k] = 0
      BY <2>6
    <3>2. 4 + 4 <= Len(new)
      BY <1>6 DEF IsArray
    <3> QED
      BY <2>4, <3>1, <3>2 DEF HasInt
  <2>8. Decode(new).id = 0
    <3> DEFINE z == 0
    <3>1. z \in 0..5 /\ HasInt(new, 4, z)
      BY <2>7
    <3> HIDE DEF z
    <3>2. Decode(new).id = z
      BY <1>6, <3>1, DecodeId
    <3> QED
      BY <3>2 DEF z
  <2>9. handled' = handled
    <3>1. Decode(array').id = 0
      BY <2>8 DEF new
    <3>2. Decode(array').id \notin 1..5
      BY <3>1
    <3> QED
      BY <3>2 DEF ReceiveRequest
  <2> QED
    BY <1>2, <1>4, <1>5, <1>8, <2>9 DEF p, m
<1> QED
  BY <1>7, <1>8

LEMMA WayKept ==
  Way /\ UNCHANGED <<typed, beyond, wire, array, handled>>
    /\ (stage' = stage \/ (stage = "asked" /\ stage' = "serve")) => Way'
<1> SUFFICES ASSUME Way, UNCHANGED <<typed, beyond, wire, array, handled>>,
                    stage' = stage \/ (stage = "asked" /\ stage' = "serve")
             PROVE  Way'
  OBVIOUS
<1>1. /\ RequestBytes' = RequestBytes /\ Padding' = Padding /\ Entry' = Entry
      /\ (Holds(array))' = Holds(array) /\ Fits' = Fits
  BY DEF RequestBytes, Length, Padding, Entry, Holds, Fits, Sent
<1> QED
  BY <1>1 DEF Way

LEMMA WayStep == Carried /\ Way /\ [Next]_vars => Way'
<1> SUFFICES ASSUME Carried, Way, [Next]_vars PROVE Way'
  OBVIOUS
<1>1. ASSUME SendName \/ ReceiveName PROVE Way'
  BY <1>1 DEF SendName, ReceiveName, Way
<1>2. ASSUME SendRequest PROVE Way'
  <2>1. wire' = RequestBytes /\ typed' = typed /\ beyond' = beyond /\ stage' = "serve" /\ handled' = << >>
    BY <1>2, SendRequestCarried
  <2>2. RequestBytes' = RequestBytes
    BY <2>1 DEF RequestBytes, Length, Sent
  <2> QED
    BY <2>1, <2>2 DEF Way
<1>3. ASSUME ReceiveRequest PROVE Way'
  <2>1. typed' = typed /\ beyond' = beyond /\ stage = "serve" /\ wire # << >>
    BY <1>3 DEF ReceiveRequest
  <2>2. /\ RequestBytes' = RequestBytes /\ Padding' = Padding /\ Entry' = Entry
        /\ (Holds(array))' = Holds(array') /\ Fits' = Fits
    BY <2>1 DEF RequestBytes, Length, Padding, Entry, Holds, Fits, Sent
  <2> SUFFICES ASSUME Fits PROVE Way'
    BY <2>2 DEF Way
  <2>3. CASE wire = RequestBytes /\ handled = << >>
    <3>1. wire' = Padding /\ handled' = <<Entry>> /\ Holds(array')
      BY <1>3, <2>3, FirstWay
    <3> QED
      BY <2>2, <3>1 DEF Way
  <2>4. CASE wire = Padding /\ handled = <<Entry>> /\ Holds(array)
    <3>1. /\ wire' = << >> /\ Len(Padding) > 0
          /\ handled' = IF Len(Padding) \in 1..4 THEN <<Entry, Entry>> ELSE <<Entry>>
      BY <1>3, <2>4, SecondWay
    <3> QED
      BY <2>2, <3>1 DEF Way
  <2> QED
    BY <2>1, <2>3, <2>4 DEF Way
<1>4. ASSUME ReceiveForwarded PROVE Way'
  BY <1>4, WayKept DEF ReceiveForwarded
<1>5. ASSUME ReceiveAnswer PROVE Way'
  BY <1>5, WayKept DEF ReceiveAnswer
<1>6. ASSUME NEW i \in DOMAIN lines, PrintPiece(i) PROVE Way'
  BY <1>6, WayKept DEF PrintPiece
<1>7. ASSUME UNCHANGED vars PROVE Way'
  BY <1>7, WayKept DEF vars
<1> QED
  BY <1>1, <1>2, <1>3, <1>4, <1>5, <1>6, <1>7 DEF Next, Rested

LEMMA WayTaken == Carried /\ Way => TakenAsTyped
<1> SUFFICES ASSUME Carried, Way PROVE TakenAsTyped
  OBVIOUS
<1>1. ASSUME Fits, NEW i \in DOMAIN handled PROVE handled[i] = Entry
  <2>1. handled = << >> \/ handled = <<Entry>> \/ handled = <<Entry, Entry>>
    BY <1>1 DEF Carried, Way
  <2>2. CASE handled = << >>
    BY <1>1, <2>2
  <2>3. CASE handled = <<Entry>>
    BY <1>1, <2>3
  <2>4. CASE handled = <<Entry, Entry>>
    BY <1>1, <2>4
  <2> QED
    BY <2>1, <2>2, <2>3, <2>4
<1>2. handled # << >> => (named = typed.user <=> Len(typed.user) <= SizeOfString)
  BY DEF Carried, Known, SizeOfString
<1> QED
  BY <1>1, <1>2 DEF TakenAsTyped, Entry

LEMMA WayHandled == Carried /\ Way => HandledTwice
<1> SUFFICES ASSUME Carried, Way, AtRest, Fits, stage = "serve"
             PROVE  Len(handled) =
                      IF Fields \in IF typed.id \in {"JOIN", "LEAVE"} THEN 105..108 ELSE 81..84
                      THEN 2 ELSE 1
  BY DEF HandledTwice
<1> DEFINE L == Length
           n == Len(Padding)
           F == Fields
           join == typed.id \in {"JOIN", "LEAVE"}
<1>1. wire = << >>
  BY DEF AtRest
<1>2. n = (IF L < 128 THEN 0 ELSE L - 128) /\ 24 <= L /\ n \in Nat
  BY PaddingOf
<1>3. L \in Nat /\ L = (IF join THEN 24 ELSE 48) + F /\ F \in Nat
  <2> DEFINE f == Len(typed.first)
             s == Len(typed.second)
  <2>1. f \in Nat /\ s \in Nat /\ F = f + s
    BY DEF Carried, TypedType, Fields
  <2>2. L \in Nat /\ L = (IF join THEN 24 ELSE 48) + f + s
    BY LengthIs DEF Carried
  <2> HIDE DEF L, f, s, F
  <2> QED
    BY <2>1, <2>2
<1>4. RequestBytes # << >>
  <2>1. RequestBytes \in Seq(Byte) /\ Len(RequestBytes) = L
    BY RequestSent DEF Carried
  <2> QED
    BY <1>2, <1>3, <2>1, EmptySeq
<1> HIDE DEF L, F, n, join
<1>5. n \in 1..4 <=> F \in IF join THEN 105..108 ELSE 81..84
  BY <1>2, <1>3
<1>6. /\ handled = <<Entry>> \/ handled = <<Entry, Entry>>
      /\ handled = <<Entry, Entry>> <=> n \in 1..4
  <2> DEFINE one == <<Entry>>
             two == <<Entry, Entry>>
  <2>1. Len(one) = 1 /\ Len(two) = 2
    OBVIOUS
  <2>2. one # two
    BY <2>1
  <2>3. CASE wire = Padding /\ handled = one
    <3>1. n = 0
      BY <1>1, <2>3, EmptySeq DEF n
    <3> QED
      BY <2>2, <2>3, <3>1
  <2>4. CASE handled = IF n \in 1..4 THEN two ELSE one
    BY <2>2, <2>4
  <2> QED
    BY <1>1, <1>4, <2>3, <2>4 DEF Way, n
<1>7. Len(handled) = IF n \in 1..4 THEN 2 ELSE 1
  <2>1. CASE n \in 1..4
    BY <1>6, <2>1
  <2>2. CASE n \notin 1..4
    <3>1. handled = <<Entry>>
      BY <1>6, <2>2
    <3> QED
      BY <2>2, <3>1
  <2> QED
    BY <2>1, <2>2
<1> QED
  BY <1>5, <1>7 DEF F, join

LEMMA WayInit == Init => Way
BY DEF Init, Way

\* Every request whose data are within the first 128 bytes is taken as it was typed, each
\* time it is taken; and the server knows the user by the name that was typed if and only
\* if it has at most 32 characters: ReadMessages() and the name's recv() in main().
THEOREM EveryRequestTaken == Spec => []TakenAsTyped
<1>1. Init => Carried /\ Way
  BY CarriedInit, WayInit
<1>2. Carried /\ Way /\ [Next]_vars => (Carried /\ Way)'
  BY CarriedStep, WayStep
<1> QED
  BY <1>1, <1>2, WayTaken, PTL DEF Spec

\* Such a request is handled twice if and only if its padding arrives by itself and has at
\* most four bytes: exactly these lengths of the fields.
THEOREM HandledAsOften == Spec => []HandledTwice
<1>1. Init => Carried /\ Way
  BY CarriedInit, WayInit
<1>2. Carried /\ Way /\ [Next]_vars => (Carried /\ Way)'
  BY CarriedStep, WayStep
<1> QED
  BY <1>1, <1>2, WayHandled, PTL DEF Spec

-----------------------------------------------------------------------------
(* The way of an account request on to the authentication server *)

Number == Id[typed.id] - 3
Message == Serialized(Number, typed.first, typed.second)

\* The bytes that are sent on.  The vector is made longer for a message of more than 116
\* bytes; otherwise what is behind its 128 bytes is sent, too.
Forwarded(q) ==
  /\ q \in Seq(Byte) /\ Len(q) = 46 + Fields
  /\ HasInt(q, 0, 46 + Fields) /\ HasInt(q, 4, Number) /\ HasText(q, 8, Message)
  /\ Fields <= 110 => \A k \in 129..Len(q) : q[k] = beyond
  /\ Fields > 110 => \A k \in 133..136 : q[k] = 0

\* What does not fit in the first piece
Remain(q) ==
  /\ q \in Seq(Byte) /\ Fields > 82 /\ Len(q) = Fields - 82
  /\ \A k \in 1..Len(q) : q[k] = beyond

\* The authentication server's array has the message, or no message id.
HoldsOn(q) == HasInt(q, 4, Number) /\ HasText(q, 8, Message)
NoId(q) == ~HasInt(q, 4, 1) /\ ~HasInt(q, 4, 2)

Outcome == {"ok", "failed", "short"}
AskedType == [id : Int, email : Seq(Byte), password : Seq(Byte), outcome : Outcome]
AskedTyped ==
  \A i \in 1..Len(asked) :
    /\ asked[i].id = Number \/ Fields = 87
    /\ asked[i].email = typed.first /\ asked[i].password = typed.second

Unasked == link = << >> /\ asked = << >> /\ back = << >> /\ stage # "asked"
Answering == stage = "asked" => back # << >>
First == Len(handled) = 1 => stage = "asked" /\ back = << >>
Times == IF Fields \in 85..86 THEN 2 ELSE 1

\* A request is on its way, or its rest is, or nothing.
InOrder ==
  \/ Forwarded(link) /\ Len(asked) = Len(handled) - 1 /\ First
  \/ Remain(link) /\ HoldsOn(authArray) /\ Len(asked) = Len(handled) /\ Answering
  \/ link = << >> /\ (Fields # 87 => Len(asked) = Len(handled) * Times) /\ Answering

\* The rest of the first one may come in front of the second one, of which no message id
\* is seen then.
Mixed(q) == q \in Seq(Byte) /\ Len(q) = 2 * Fields - 36 /\ NoId(q)
Few(q) == q \in Seq(Byte) /\ Len(q) <= 4 /\ NoId(authArray)

\* Then what is left of the first answer is all that the second wait can end with.  More
\* than one piece is what every answer has but that to a short password.
LongAnswer == asked[1].outcome # "short"
Left == IF stage = "asked" THEN Len(back) > 128 <=> LongAnswer ELSE back # << >> <=> LongAnswer
Stuck == IF stage = "asked" THEN back # << >> <=> LongAnswer ELSE LongAnswer

\* As InOrder, with two rests, and then the first rest in front of the second request
FirstOn == Forwarded(link) /\ Len(asked) = 2 * (Len(handled) - 1) /\ First
SecondPiece ==
  /\ Remain(link) /\ HoldsOn(authArray) /\ Len(asked) = 2 * Len(handled) - 1
  /\ Answering /\ (Len(handled) = 1 => Left)
Together ==
  /\ Mixed(link) \/ Few(link) \/ link = << >>
  /\ Len(handled) = 2 /\ Len(asked) = 1 /\ Stuck
Through == link = << >> /\ Len(asked) = 2 * Len(handled) /\ Answering
Shifting == FirstOn \/ SecondPiece \/ Together \/ Through

\* Its message is cut, and does not parse.
Cut ==
  /\ stage = "asked" /\ asked = << >> /\ back = << >>
  /\ \/ Forwarded(link)
     \/ link \in Seq(Byte) /\ Len(link) = Fields - 82 /\ \A k \in 5..8 : link[k] = 0
     \/ link = << >>

AskedGood ==
  IsArray(authArray) /\ asked \in Seq(AskedType) /\ AskedTyped /\ back \in Seq(Byte)
Passing ==
  /\ handled = << >> => Unasked
  /\ handled # << >> => /\ Fields <= 110 /\ BothSplit => Shifting
                        /\ Fields <= 110 /\ ~BothSplit => InOrder
                        /\ Fields > 110 => Cut
Onward == Account /\ Fits => AskedGood /\ Passing

Elsewhere == Fits /\ ~Account => stage # "asked"

-----------------------------------------------------------------------------
(* What a buffer has when more is written to it *)

LEMMA GrownZeros ==
  ASSUME NEW b, IsBuffer(b), NEW n \in Nat
  PROVE  \A i \in (Len(b.data) + 1)..(Len(b.data) + n) : Grow(b, n).data[i] = 0
<1> DEFINE d == b.data
           f == Fill(0, n)
           e == d \o f
<1>1. d \in Seq(Byte) /\ 0 \in Byte
  BY DEF IsBuffer, Byte
<1>2. f \in Seq(Byte) /\ Len(f) = n /\ \A i \in 1..n : f[i] = 0
  BY <1>1, FillSeq
<1>3. Grow(b, n).data = e
  BY DEF Grow, IsBuffer
<1> HIDE DEF d, f
<1>4. \A i \in 1..(Len(d) + Len(f)) : e[i] = IF i <= Len(d) THEN d[i] ELSE f[i - Len(d)]
  BY <1>1, <1>2, ConcatProperties
<1> HIDE DEF e
<1>5. ASSUME NEW i \in (Len(d) + 1)..(Len(d) + n) PROVE e[i] = 0
  <2>1. i \in 1..(Len(d) + Len(f)) /\ ~(i <= Len(d)) /\ i - Len(d) \in 1..n
    BY <1>1, <1>2
  <2> QED
    BY <1>2, <1>4, <2>1
<1> QED
  BY <1>3, <1>5 DEF d

\* The bytes of a value, as they are put
LEMMA FourBytes ==
  ASSUME NEW v \in Int
  PROVE  LET s == [k \in 1..4 |-> Shifted(v, k - 1)]
         IN  s \in Seq(Byte) /\ Len(s) = 4 /\ \A k \in 1..4 : s[k] = Shifted(v, k - 1)
<1>1. \A k \in 1..4 : Shifted(v, k - 1) \in Byte
  BY ShiftedIsByte
<1> QED
  BY <1>1

\* Whatever is written, a buffer stays one.
LEMMA PutKeeps ==
  ASSUME NEW b, IsBuffer(b), NEW s \in Seq(Byte)
  PROVE  IsBuffer(Put(b, s))
<1> DEFINE at == b.at
           d == b.data
           e == Put(b, s).data
<1>1. /\ at \in Nat /\ d \in Seq(Byte) /\ Len(d) \in Nat /\ Len(s) \in Nat /\ at + Len(s) \in Nat
      /\ DOMAIN d = 1..Len(d)
      /\ \A i \in 1..Len(d) : d[i] \in Byte
      /\ \A i \in 1..Len(s) : s[i] \in Byte
  BY LenProperties, ElementOfSeq DEF IsBuffer
<1>2. e = [i \in 1..Len(d) |-> IF i \in (at + 1)..(at + Len(s)) THEN s[i - at] ELSE d[i]]
      /\ Put(b, s) = [data |-> e, at |-> at + Len(s)]
  BY <1>1 DEF Put
<1> HIDE DEF at, d, e
<1>3. e \in [1..Len(d) -> Byte]
  <2>1. \A i \in 1..Len(d) : i \in (at + 1)..(at + Len(s)) => i - at \in 1..Len(s)
    BY <1>1
  <2> QED
    BY <1>1, <1>2, <2>1
<1>4. e \in Seq(Byte)
  BY <1>1, <1>3
<1> QED
  BY <1>1, <1>2, <1>4 DEF IsBuffer

LEMMA WriteIntKeeps ==
  ASSUME NEW b, IsBuffer(b), NEW v \in Int
  PROVE  IsBuffer(WriteInt32LE(b, v))
<1> DEFINE Fitting(x) == IF Len(x.data) < x.at + 4 THEN Grow(x, 4) ELSE x
           s == [k \in 1..4 |-> Shifted(v, k - 1)]
           c == Fitting(Fitting(b))
<1>1. ASSUME NEW x, IsBuffer(x) PROVE IsBuffer(Fitting(x))
  BY <1>1, GrowBuffer
<1>2. WriteInt32LE(b, v) = Put(c, s)
  BY DEF WriteInt32LE
<1> HIDE DEF Fitting
<1>3. IsBuffer(c)
  BY <1>1
<1>4. s \in Seq(Byte)
  BY FourBytes
<1> HIDE DEF c, s
<1> QED
  BY <1>2, <1>3, <1>4, PutKeeps

LEMMA WriteTextKeeps ==
  ASSUME NEW b, IsBuffer(b), NEW s \in Seq(Byte)
  PROVE  IsBuffer(WriteText(b, s))
<1> DEFINE c == WriteInt32LE(b, Len(s))
           d == IF Len(c.data) - c.at \in 0..(Len(s) - 1) THEN Grow(c, Len(s)) ELSE c
<1>1. Len(s) \in Nat /\ Len(s) \in Int
  OBVIOUS
<1>2. IsBuffer(c)
  BY <1>1, WriteIntKeeps
<1>3. WriteText(b, s) = Put(d, s)
  BY DEF WriteText, WriteString
<1> HIDE DEF c
<1>4. IsBuffer(d)
  BY <1>1, <1>2, GrowBuffer
<1> HIDE DEF d
<1> QED
  BY <1>3, <1>4, PutKeeps

\* The integer at the beginning of a buffer that has one there
LEMMA WriteIntFirst ==
  ASSUME NEW b, IsBuffer(b), NEW v \in Int, 4 <= Len(b.data)
  PROVE  LET c == WriteInt32LEAt(b, 0, v)
         IN  IsBuffer(c) /\ c.at = 4 /\ HasInt(c.data, 0, v) /\ Len(c.data) = Len(b.data)
<1> DEFINE s == [k \in 1..4 |-> Shifted(v, k - 1)]
           a == At(b, 0)
           c == Put(a, s)
<1>1. IsBuffer(a) /\ a.data = b.data /\ a.at = 0
  BY AtBuffer
<1>2. s \in Seq(Byte) /\ Len(s) = 4 /\ \A k \in 1..4 : s[k] = Shifted(v, k - 1)
  BY FourBytes
<1>3. WriteInt32LEAt(b, 0, v) = c
  <2> DEFINE x == IF Len(b.data) < 4 THEN Grow(b, 4) ELSE b
             y == IF Len(x.data) < 0 + 4 THEN Grow(x, 4) ELSE x
  <2>1. Len(b.data) \in Nat
    BY DEF IsBuffer
  <2>2. WriteInt32LEAt(b, 0, v) = Put(At(y, 0), s)
    BY DEF WriteInt32LEAt
  <2> HIDE DEF s
  <2>3. x = b
    BY <2>1
  <2>4. y = x
    BY <2>1, <2>3
  <2> HIDE DEF x, y
  <2> QED
    BY <2>2, <2>3, <2>4
<1> HIDE DEF a, s
<1>4. a.at + Len(s) <= Len(a.data)
  BY <1>1, <1>2
<1>5. /\ IsBuffer(c) /\ c.at = a.at + Len(s) /\ HasString(c.data, a.at, s)
      /\ SameOutside(c.data, a.data, a.at, a.at + Len(s))
  BY <1>1, <1>2, <1>4, PutBytes
<1> HIDE DEF c
<1>6. HasInt(c.data, 0, v)
  BY <1>1, <1>2, <1>5 DEF HasInt, HasString
<1>7. c.at = 4 /\ Len(c.data) = Len(b.data)
  BY <1>1, <1>2, <1>5 DEF SameOutside
<1> QED
  BY <1>3, <1>5, <1>6, <1>7

\* A text whose size fits and whose bytes do not makes the vector longer by them.
LEMMA WritesLonger ==
  ASSUME NEW b, IsBuffer(b), NEW s \in Seq(Byte), b.at + 4 <= Len(b.data),
         Len(b.data) < b.at + 4 + Len(s)
  PROVE  LET c == WriteText(b, s)
         IN  /\ IsBuffer(c) /\ Len(c.data) = Len(b.data) + Len(s) /\ HasText(c.data, b.at, s)
             /\ \A k \in 1..b.at : c.data[k] = b.data[k]
             /\ \A k \in (b.at + 4 + Len(s) + 1)..Len(c.data) : c.data[k] = 0
<1> DEFINE n == Len(s)
           b1 == WriteInt32LE(b, n)
           g == Grow(b1, n)
           c == WriteString(g, s)
           at == b.at
           m == Len(b.data)
<1>1. n \in Nat /\ n \in Int /\ at \in Nat /\ m \in Nat /\ at + 4 <= m /\ m < at + 4 + n
  BY DEF IsBuffer
<1>2. /\ IsBuffer(b1) /\ b1.at = at + 4 /\ HasInt(b1.data, at, n)
      /\ SameOutside(b1.data, b.data, at, at + 4)
  BY <1>1, WriteInt
<1> HIDE DEF b1, n, at, m
<1>3. Len(b1.data) = m
  BY <1>2 DEF SameOutside, m
<1>4. /\ IsBuffer(g) /\ g.at = at + 4 /\ Len(g.data) = m + n
      /\ \A k \in 1..m : g.data[k] = b1.data[k]
  BY <1>1, <1>2, <1>3, GrowBuffer
<1>5. \A k \in (m + 1)..(m + n) : g.data[k] = 0
  BY <1>1, <1>2, <1>3, GrownZeros
<1>6. WriteText(b, s) = c
  <2>1. WriteText(b, s) = Put(IF Len(b1.data) - b1.at \in 0..(n - 1) THEN g ELSE b1, s)
    BY DEF WriteText, WriteString, b1, n
  <2>2. Len(b1.data) - b1.at \in 0..(n - 1)
    BY <1>1, <1>2, <1>3
  <2>3. c = Put(IF Len(g.data) - g.at \in 0..(n - 1) THEN Grow(g, n) ELSE g, s)
    BY DEF WriteString, n
  <2>4. Len(g.data) - g.at \notin 0..(n - 1)
    BY <1>1, <1>4
  <2> QED
    BY <2>1, <2>2, <2>3, <2>4
<1> HIDE DEF g
<1>7. /\ IsBuffer(c) /\ HasString(c.data, at + 4, s)
      /\ SameOutside(c.data, g.data, at + 4, at + 4 + n)
  <2>1. g.at + Len(s) <= Len(g.data)
    BY <1>1, <1>4 DEF n
  <2>2. /\ IsBuffer(c) /\ HasString(c.data, g.at, s)
        /\ SameOutside(c.data, g.data, g.at, g.at + Len(s))
    BY <1>4, <2>1, WriteChars
  <2> QED
    BY <1>4, <2>2 DEF n
<1> HIDE DEF c
<1>8. Len(c.data) = m + n
  BY <1>4, <1>7 DEF SameOutside
<1>9. HasInt(g.data, at, n)
  <2>1. at + 4 <= Len(g.data) /\ \A k \in 1..4 : at + k \in 1..m
    BY <1>1, <1>4
  <2>2. \A k \in 1..4 : b1.data[at + k] = Shifted(n, k - 1)
    BY <1>2 DEF HasInt
  <2> QED
    BY <1>4, <2>1, <2>2 DEF HasInt
<1>10. HasInt(c.data, at, n)
  <2>1. Len(g.data) \in Nat /\ at + 4 \in Nat /\ at + 4 + n \in Nat
    BY <1>1, <1>4
  <2> QED
    BY <1>1, <1>7, <1>9, <2>1, IntKept
<1>11. ASSUME NEW k \in 1..at PROVE c.data[k] = b.data[k]
  <2>1. k \in 1..m /\ k \in 1..(m + n) /\ k <= at + 4
    BY <1>1
  <2>2. c.data[k] = g.data[k]
    BY <1>7, <1>8, <2>1 DEF SameOutside
  <2>3. b1.data[k] = b.data[k]
    BY <1>2, <1>3, <2>1 DEF SameOutside
  <2> QED
    BY <1>4, <2>1, <2>2, <2>3
<1>12. ASSUME NEW k \in (at + 4 + n + 1)..(m + n) PROVE c.data[k] = 0
  <2>1. k \in 1..(m + n) /\ k > at + 4 + n /\ k \in (m + 1)..(m + n)
    BY <1>1
  <2>2. c.data[k] = g.data[k]
    BY <1>7, <1>8, <2>1 DEF SameOutside
  <2> QED
    BY <1>5, <2>1, <2>2
<1> QED
  BY <1>6, <1>7, <1>8, <1>10, <1>11, <1>12 DEF HasText, at, m, n

\* Where the parts of two concatenated sequences are
LEMMA ConcatParts ==
  ASSUME NEW s \in Seq(Byte), NEW t \in Seq(Byte)
  PROVE  /\ s \o t \in Seq(Byte) /\ Len(s \o t) = Len(s) + Len(t)
         /\ \A k \in 1..Len(s) : (s \o t)[k] = s[k]
         /\ \A k \in 1..Len(t) : (s \o t)[Len(s) + k] = t[k]
<1> DEFINE e == s \o t
<1>1. Len(s) \in Nat /\ Len(t) \in Nat
  OBVIOUS
<1>2. /\ e \in Seq(Byte) /\ Len(e) = Len(s) + Len(t)
      /\ \A k \in 1..(Len(s) + Len(t)) : e[k] = IF k <= Len(s) THEN s[k] ELSE t[k - Len(s)]
  BY ConcatProperties
<1> HIDE DEF e
<1>3. ASSUME NEW k \in 1..Len(s) PROVE e[k] = s[k]
  <2>1. k \in 1..(Len(s) + Len(t)) /\ k <= Len(s)
    BY <1>1
  <2> QED
    BY <1>2, <2>1
<1>4. ASSUME NEW k \in 1..Len(t) PROVE e[Len(s) + k] = t[k]
  <2>1. Len(s) + k \in 1..(Len(s) + Len(t)) /\ ~(Len(s) + k <= Len(s)) /\ (Len(s) + k) - Len(s) = k
    BY <1>1
  <2> QED
    BY <1>2, <2>1
<1> QED
  BY <1>2, <1>3, <1>4 DEF e

\* A part that has the elements of a sequence is that sequence.
LEMMA PartIs ==
  ASSUME NEW s \in Seq(Byte), NEW t \in Seq(Byte), NEW i \in Nat, i + Len(t) <= Len(s),
         \A k \in 1..Len(t) : s[i + k] = t[k]
  PROVE  SubSeq(s, i + 1, i + Len(t)) = t
<1> DEFINE n == Len(t)
           r == SubSeq(s, i + 1, i + n)
<1>1. n \in Nat /\ i + n <= Len(s)
  OBVIOUS
<1>2. \A k \in 1..n : s[i + k] = t[k]
  OBVIOUS
<1> HIDE DEF n
<1>3. r \in Seq(Byte) /\ Len(r) = n /\ \A k \in 1..n : r[k] = s[i + k]
  BY <1>1, SubSeqOf
<1> HIDE DEF r
<1>4. Len(r) = Len(t) /\ \A k \in 1..Len(r) : r[k] = t[k]
  BY <1>2, <1>3 DEF n
<1>5. r = t
  BY <1>3, <1>4, SeqEqual
<1> QED
  BY <1>5 DEF r, n

\* The protobuf message parses, and its fields are those that were typed.
LEMMA MessageIs ==
  ASSUME NEW n \in Byte, NEW email \in Seq(Byte), NEW password \in Seq(Byte),
         Len(email) \in Byte, Len(password) \in Byte
  PROVE  LET M == Serialized(n, email, password)
         IN  /\ M \in Seq(Byte) /\ Len(M) = 6 + Len(email) + Len(password)
             /\ M[4] = Len(email) /\ M[Len(email) + 6] = Len(password)
             /\ SubSeq(M, 5, 4 + M[4]) = email /\ SubSeq(M, 7 + M[4], Len(M)) = password
<1> DEFINE f == Len(email)
           p == Len(password)
           a == <<8, n, 18, f>>
           b == <<26, p>>
           u == a \o email
           w == u \o b
           M == w \o password
<1>1. f \in Nat /\ p \in Nat /\ f \in Byte /\ p \in Byte
  OBVIOUS
<1> HIDE DEF f, p
<1>2. a \in Seq(Byte) /\ Len(a) = 4 /\ a[4] = f
  <2>1. 8 \in Byte /\ 18 \in Byte
    BY DEF Byte
  <2> QED
    BY <1>1, <2>1
<1>3. b \in Seq(Byte) /\ Len(b) = 2 /\ b[2] = p
  <2>1. 26 \in Byte
    BY DEF Byte
  <2> QED
    BY <1>1, <2>1
<1>4. Serialized(n, email, password) = M
  BY DEF Serialized, f, p
<1> HIDE DEF a, b
<1>5. /\ u \in Seq(Byte) /\ Len(u) = 4 + f
      /\ \A k \in 1..4 : u[k] = a[k]
      /\ \A k \in 1..f : u[4 + k] = email[k]
  <2>1. /\ u \in Seq(Byte) /\ Len(u) = Len(a) + Len(email)
        /\ \A k \in 1..Len(a) : u[k] = a[k]
        /\ \A k \in 1..Len(email) : u[Len(a) + k] = email[k]
    BY <1>2, ConcatParts
  <2> HIDE DEF u
  <2> QED
    BY <1>2, <2>1 DEF f
<1> HIDE DEF u
<1>6. /\ w \in Seq(Byte) /\ Len(w) = 6 + f
      /\ \A k \in 1..(4 + f) : w[k] = u[k]
      /\ \A k \in 1..2 : w[4 + f + k] = b[k]
  <2>1. /\ w \in Seq(Byte) /\ Len(w) = Len(u) + Len(b)
        /\ \A k \in 1..Len(u) : w[k] = u[k]
        /\ \A k \in 1..Len(b) : w[Len(u) + k] = b[k]
    BY <1>3, <1>5, ConcatParts
  <2> HIDE DEF w
  <2>2. Len(u) + Len(b) = 6 + f
    BY <1>1, <1>3, <1>5
  <2> QED
    BY <1>3, <1>5, <2>1, <2>2
<1> HIDE DEF w
<1>7. /\ M \in Seq(Byte) /\ Len(M) = 6 + f + p
      /\ \A k \in 1..(6 + f) : M[k] = w[k]
      /\ \A k \in 1..p : M[6 + f + k] = password[k]
  BY <1>6, ConcatParts DEF p
<1> HIDE DEF M
<1>8. M[4] = f
  <2>1. 4 \in 1..(6 + f) /\ 4 \in 1..(4 + f) /\ 4 \in 1..4
    BY <1>1
  <2> QED
    BY <1>2, <1>5, <1>6, <1>7, <2>1
<1>9. M[f + 6] = p
  <2>1. f + 6 \in 1..(6 + f) /\ f + 6 = 4 + f + 2 /\ 2 \in 1..2
    BY <1>1
  <2> QED
    BY <1>3, <1>6, <1>7, <2>1
<1>10. SubSeq(M, 5, 4 + f) = email
  <2>1. 4 + f <= Len(M)
    BY <1>1, <1>7
  <2>2. ASSUME NEW k \in 1..f PROVE M[4 + k] = email[k]
    <3>1. 4 + k \in 1..(6 + f) /\ 4 + k \in 1..(4 + f)
      BY <1>1
    <3> QED
      BY <1>5, <1>6, <1>7, <3>1
  <2>3. SubSeq(M, 4 + 1, 4 + f) = email
    BY <1>7, <2>1, <2>2, PartIs DEF f
  <2> QED
    BY <2>3
<1>11. SubSeq(M, 7 + f, Len(M)) = password
  <2> DEFINE i == 6 + f
  <2>1. i \in Nat /\ i + p <= Len(M) /\ i + p = Len(M) /\ i + 1 = 7 + f
    BY <1>1, <1>7
  <2>2. \A k \in 1..p : M[i + k] = password[k]
    BY <1>7
  <2> HIDE DEF i
  <2>3. SubSeq(M, i + 1, i + p) = password
    BY <1>7, <2>1, <2>2, PartIs DEF p
  <2> QED
    BY <2>1, <2>3
<1> QED
  BY <1>4, <1>7, <1>8, <1>9, <1>10, <1>11 DEF f, p

-----------------------------------------------------------------------------
(* What is sent on *)

LEMMA DecodeBuffer ==
  ASSUME NEW q, IsArray(q)
  PROVE  IsBuffer(Decode(q).buffer) /\ Decode(q).buffer.data = q
<1> DEFINE b == SetBuffer(New(0), q)
           c == At(b, 4)
           id == ReadInt32LE(c)
           first == ReadText(id.buffer)
           second == ReadText(first.buffer)
<1>1. q \in Seq(Byte) /\ Len(q) = 128
  BY DEF IsArray
<1>2. IsBuffer(c) /\ c.data = q /\ c.at = 4
  BY <1>1, AtFour
<1>3. Decode(q).buffer = second.buffer
  BY DEF Decode, ReadInt32LEAt
<1> HIDE DEF c
<1>4. IsBuffer(id.buffer) /\ id.buffer.data = q /\ id.buffer.at <= 128
  <2>1. 4 <= Len(c.data) /\ c.at <= Len(c.data)
    BY <1>1, <1>2, InArray
  <2>2. id.buffer = At(c, Start(c) + 4) /\ Start(c) \in Nat /\ Start(c) + 4 <= 128
    <3>1. id.buffer = At(c, Start(c) + 4) /\ Start(c) \in Nat /\ Start(c) + 4 <= Len(c.data)
      BY <1>2, <2>1, ReadAnyInt
    <3> HIDE DEF id
    <3> QED
      BY <1>1, <1>2, <3>1
  <2> HIDE DEF id
  <2>3. Start(c) + 4 \in Nat
    BY <2>2
  <2> QED
    BY <1>2, <2>2, <2>3, AtBuffer
<1> HIDE DEF id
<1>5. IsBuffer(first.buffer) /\ first.buffer.data = q /\ first.buffer.at <= 128
  <2>1. 4 <= Len(id.buffer.data) /\ id.buffer.at <= Len(id.buffer.data)
    BY <1>1, <1>4, InArray
  <2> QED
    BY <1>1, <1>4, <2>1, ReadAny
<1> HIDE DEF first
<1>6. IsBuffer(second.buffer) /\ second.buffer.data = q
  <2>1. 4 <= Len(first.buffer.data) /\ first.buffer.at <= Len(first.buffer.data)
    BY <1>1, <1>5, InArray
  <2> QED
    BY <1>1, <1>5, <2>1, ReadAny
<1> HIDE DEF second
<1> QED
  BY <1>3, <1>6

LEMMA SentInt ==
  ASSUME NEW b, IsBuffer(b), NEW n \in Nat, beyond \in Byte,
         NEW i \in Nat, NEW v, HasInt(b.data, i, v), i + 4 <= n
  PROVE  HasInt(Sent(b, n), i, v)
<1> DEFINE e == Sent(b, n)
<1>1. Len(b.data) \in Nat /\ i + 4 <= Len(b.data)
  BY DEF IsBuffer, HasInt
<1>2. Len(e) = n /\ \A k \in 1..n : e[k] = IF k <= Len(b.data) THEN b.data[k] ELSE beyond
  BY SentBytes
<1> HIDE DEF e
<1>3. ASSUME NEW k \in 1..4 PROVE e[i + k] = Shifted(v, k - 1)
  <2>1. i + k \in 1..n /\ i + k <= Len(b.data)
    BY <1>1
  <2> QED
    BY <1>2, <2>1 DEF HasInt
<1> QED
  BY <1>2, <1>3 DEF HasInt, e

\* What is forwarded of a request that fits, and how long its message is
LEMMA FieldsOf ==
  ASSUME typed \in TypedType, Account, Fits
  PROVE  /\ Fields \in Nat /\ Fields <= 112
         /\ typed.first \in Seq(Byte) /\ typed.second \in Seq(Byte)
         /\ Len(typed.first) \in Byte /\ Len(typed.second) \in Byte
         /\ Fields = Len(typed.first) + Len(typed.second)
         /\ Number \in {1, 2} /\ Id[typed.id] \in {Id.CREATE, Id.AUTHENTICATE}
         /\ (typed.id = "CREATE" <=> Number = 1)
         /\ Message \in Seq(Byte) /\ Len(Message) = 6 + Fields
<1> DEFINE f == Len(typed.first)
           s == Len(typed.second)
<1>1. typed.first \in Seq(Byte) /\ typed.second \in Seq(Byte) /\ f \in Nat /\ s \in Nat
  BY DEF TypedType
<1>2. 8 + 4 + f + 4 + s <= 128 /\ Fields = f + s
  BY DEF Fits, HeaderSize, RecvLen, Fields
<1> HIDE DEF f, s
<1>3. Fields \in Nat /\ Fields <= 112 /\ f \in Byte /\ s \in Byte
  BY <1>1, <1>2 DEF Byte
<1>4. /\ Number \in {1, 2} /\ Id[typed.id] \in {Id.CREATE, Id.AUTHENTICATE}
      /\ (typed.id = "CREATE" <=> Number = 1)
  <2>1. CASE typed.id = "CREATE"
    BY <2>1 DEF Number, Id
  <2>2. CASE typed.id = "AUTHENTICATE"
    BY <2>2 DEF Number, Id
  <2> QED
    BY <2>1, <2>2 DEF Account
<1>5. Message \in Seq(Byte) /\ Len(Message) = 6 + f + s
  <2>1. Number \in Byte
    BY <1>4 DEF Byte
  <2> QED
    BY <1>1, <1>3, <2>1, MessageIs DEF Message, f, s
<1>6. Len(Message) = 6 + Fields
  BY <1>1, <1>2, <1>5
<1> QED
  BY <1>1, <1>2, <1>3, <1>4, <1>5, <1>6 DEF f, s

LEMMA MessageLength ==
  ASSUME typed \in TypedType, Account, Fits
  PROVE  /\ Message \in Seq(Byte) /\ Len(Message) = 6 + Fields /\ Len(Message) < 65536
         /\ Fields \in Nat /\ Fields <= 112
         /\ Number \in Int /\ 0 <= Number /\ Number < 65536 /\ Number \in {1, 2}
<1> DEFINE M == Message
           F == Fields
<1>1. M \in Seq(Byte) /\ Len(M) = 6 + F /\ F \in Nat /\ F <= 112
  BY FieldsOf
<1>2. Number \in {1, 2}
  BY FieldsOf
<1> HIDE DEF M, F
<1>3. Len(M) < 65536
  BY <1>1
<1>4. Number \in Int /\ 0 <= Number /\ Number < 65536
  BY <1>2
<1> QED
  BY <1>1, <1>2, <1>3, <1>4 DEF M, F

LEMMA ForwardIs ==
  ASSUME beyond \in Byte, typed \in TypedType, Account, Fits,
         NEW b, IsBuffer(b), Len(b.data) = 128
  PROVE  Forwarded(Forward(b, Number, typed.first, typed.second))
<1> DEFINE F == Fields
           M == Message
           L == 46 + F
           b1 == WriteInt32LEAt(b, 0, L)
           b2 == WriteInt32LE(b1, Number)
           c == WriteText(b2, M)
           X == Sent(c, L)
<1>1. F \in Nat /\ F <= 112 /\ M \in Seq(Byte) /\ Len(M) = 6 + F /\ Number \in Int
  <2>1. F \in Nat /\ F <= 112 /\ M \in Seq(Byte) /\ Len(M) = 6 + F /\ Number \in {1, 2}
    BY FieldsOf
  <2> QED
    BY <2>1
<1>2. Forward(b, Number, typed.first, typed.second) = X
  <2>1. Forward(b, Number, typed.first, typed.second) =
          Sent(WriteText(WriteInt32LE(WriteInt32LEAt(b, 0, ForwardLength(Len(M))), Number), M),
               ForwardLength(Len(M)))
    BY DEF Forward, Message
  <2>2. ForwardLength(Len(M)) = L
    <3> HIDE DEF F, M
    <3> QED
      BY <1>1 DEF ForwardLength, HeaderSize, SizeOfString
  <2> QED
    BY <2>1, <2>2
<1> HIDE DEF F, M
<1>3. L \in Nat /\ L \in Int
  BY <1>1
<1> HIDE DEF L
<1>4. IsBuffer(b1) /\ b1.at = 4 /\ HasInt(b1.data, 0, L) /\ Len(b1.data) = 128
  <2>1. 4 <= Len(b.data)
    OBVIOUS
  <2> QED
    <3>1. IsBuffer(b1) /\ b1.at = 4 /\ HasInt(b1.data, 0, L) /\ Len(b1.data) = Len(b.data)
      BY <1>3, <2>1, WriteIntFirst
    <3> QED
      BY <3>1
<1> HIDE DEF b1
<1>5. /\ IsBuffer(b2) /\ b2.at = 8 /\ HasInt(b2.data, 0, L) /\ HasInt(b2.data, 4, Number)
      /\ Len(b2.data) = 128
  <2>1. b1.at + 4 <= Len(b1.data)
    BY <1>4
  <2>2. /\ IsBuffer(b2) /\ b2.at = b1.at + 4 /\ HasInt(b2.data, b1.at, Number)
        /\ SameOutside(b2.data, b1.data, b1.at, b1.at + 4)
    BY <1>1, <1>4, <2>1, WriteInt
  <2> HIDE DEF b2
  <2>3. /\ b2.at = 8 /\ HasInt(b2.data, 4, Number) /\ SameOutside(b2.data, b1.data, 4, 8)
    BY <1>4, <2>2
  <2>4. Len(b2.data) = 128
    BY <1>4, <2>3 DEF SameOutside
  <2>5. HasInt(b2.data, 0, L)
    <3>1. 0 + 4 <= 4 /\ Len(b1.data) \in Nat /\ 0 \in Nat /\ 4 \in Nat /\ 8 \in Nat
      BY <1>4
    <3> QED
      BY <1>4, <2>3, <3>1, IntKept
  <2> QED
    BY <2>2, <2>3, <2>4, <2>5
<1> HIDE DEF b2
<1>6. /\ IsBuffer(c) /\ HasInt(c.data, 0, L) /\ HasInt(c.data, 4, Number) /\ HasText(c.data, 8, M)
      /\ F <= 110 => Len(c.data) = 128
      /\ F > 110 => \A k \in 133..136 : k <= Len(c.data) /\ c.data[k] = 0
  <2>1. CASE F <= 110
    <3>1. b2.at + 4 + Len(M) <= Len(b2.data)
      BY <1>1, <1>5, <2>1
    <3>2. /\ IsBuffer(c) /\ HasText(c.data, b2.at, M)
          /\ SameOutside(c.data, b2.data, b2.at, b2.at + 4 + Len(M))
      BY <1>1, <1>5, <3>1, WritesText
    <3> HIDE DEF c
    <3> DEFINE j == 8 + 4 + Len(M)
    <3>3. HasText(c.data, 8, M) /\ SameOutside(c.data, b2.data, 8, j) /\ j \in Nat
      BY <1>1, <1>5, <3>2
    <3> HIDE DEF j
    <3>4. Len(c.data) = 128
      BY <1>5, <3>3 DEF SameOutside
    <3>5. 8 \in Nat /\ 0 \in Nat /\ 4 \in Nat /\ 0 + 4 <= 8 /\ 4 + 4 <= 8 /\ Len(b2.data) \in Nat
      BY <1>5
    <3>6. HasInt(c.data, 0, L)
      BY <1>5, <3>3, <3>5, IntKept
    <3>7. HasInt(c.data, 4, Number)
      BY <1>5, <3>3, <3>5, IntKept
    <3>8. ~(F > 110)
      BY <1>1, <2>1
    <3> QED
      BY <3>2, <3>3, <3>4, <3>6, <3>7, <3>8
  <2>2. CASE F > 110
    <3>1. b2.at + 4 <= Len(b2.data) /\ Len(b2.data) < b2.at + 4 + Len(M)
      BY <1>1, <1>5, <2>2
    <3>2. /\ IsBuffer(c) /\ Len(c.data) = Len(b2.data) + Len(M) /\ HasText(c.data, b2.at, M)
          /\ \A k \in 1..b2.at : c.data[k] = b2.data[k]
          /\ \A k \in (b2.at + 4 + Len(M) + 1)..Len(c.data) : c.data[k] = 0
      <4>1. IsBuffer(b2) /\ M \in Seq(Byte)
        BY <1>1, <1>5
      <4> QED
        BY <3>1, <4>1, WritesLonger
    <3> HIDE DEF c
    <3>3. Len(c.data) = 134 + F /\ HasText(c.data, 8, M)
      BY <1>1, <1>5, <3>2
    <3>4. \A k \in 133..136 : k \in (b2.at + 4 + Len(M) + 1)..Len(c.data)
      BY <1>1, <1>5, <2>2, <3>3
    <3>5. \A k \in 1..8 : c.data[k] = b2.data[k]
      BY <1>5, <3>2
    <3>6. HasInt(c.data, 0, L)
      <4>1. 0 + 4 <= Len(c.data) /\ \A k \in 1..4 : 0 + k \in 1..8
        BY <1>1, <3>3
      <4> QED
        BY <1>5, <3>5, <4>1 DEF HasInt
    <3>7. HasInt(c.data, 4, Number)
      <4>1. 4 + 4 <= Len(c.data) /\ \A k \in 1..4 : 4 + k \in 1..8
        BY <1>1, <3>3
      <4> QED
        BY <1>5, <3>5, <4>1 DEF HasInt
    <3>8. \A k \in 133..136 : k <= Len(c.data) /\ c.data[k] = 0
      <4>1. \A k \in 133..136 : c.data[k] = 0
        BY <3>2, <3>4
      <4>2. \A k \in 133..136 : k <= Len(c.data)
        BY <1>1, <2>2, <3>3
      <4> QED
        BY <4>1, <4>2
    <3>9. ~(F <= 110)
      BY <1>1, <2>2
    <3> QED
      BY <3>2, <3>3, <3>6, <3>7, <3>8, <3>9
  <2> QED
    BY <1>1, <2>1, <2>2
<1> HIDE DEF c
<1>7. X \in Seq(Byte) /\ Len(X) = L
      /\ \A k \in 1..L : X[k] = IF k <= Len(c.data) THEN c.data[k] ELSE beyond
  BY <1>3, <1>6, SentBytes
<1>8. HasInt(X, 0, L) /\ HasInt(X, 4, Number) /\ HasText(X, 8, M)
  <2>1. 0 + 4 <= L /\ 4 + 4 <= L /\ 8 + 4 + Len(M) <= L
    BY <1>1 DEF L
  <2>2. HasInt(X, 0, L)
    BY <1>3, <1>6, <2>1, SentInt
  <2>3. HasInt(X, 4, Number)
    BY <1>3, <1>6, <2>1, SentInt
  <2>4. HasText(X, 8, M)
    BY <1>1, <1>3, <1>6, <2>1, SentText
  <2> QED
    BY <2>2, <2>3, <2>4
<1> HIDE DEF X
<1>9. F <= 110 => \A k \in 129..Len(X) : X[k] = beyond
  <2> SUFFICES ASSUME F <= 110, NEW k \in 129..Len(X) PROVE X[k] = beyond
    OBVIOUS
  <2>1. Len(c.data) = 128 /\ Len(X) = L
    BY <1>6, <1>7
  <2>2. k \in 1..L /\ ~(k <= 128)
    BY <1>3, <2>1
  <2> QED
    BY <1>7, <2>1, <2>2
<1>10. F > 110 => \A k \in 133..136 : X[k] = 0
  <2> SUFFICES ASSUME F > 110, NEW k \in 133..136 PROVE X[k] = 0
    OBVIOUS
  <2>1. k \in 1..L
    BY <1>1 DEF L
  <2>2. k <= Len(c.data) /\ c.data[k] = 0
    BY <1>6
  <2> QED
    BY <1>7, <2>1, <2>2
<1> QED
  BY <1>2, <1>7, <1>8, <1>9, <1>10 DEF Forwarded, F, M, L

-----------------------------------------------------------------------------
(* What the authentication server reads and takes *)

\* What the authentication server reads of its array
AuthId(q) == ReadInt32LEAt(SetBuffer(New(0), q), 4)
AuthText(q) == ReadText(AuthId(q).buffer).value

LEMMA ParsesMessage ==
  ASSUME typed \in TypedType, Account, Fits
  PROVE  /\ Parses(Message)
         /\ SubSeq(Message, 5, 4 + Message[4]) = typed.first
         /\ SubSeq(Message, 7 + Message[4], Len(Message)) = typed.second
         /\ Message[4] = Len(typed.first)
         /\ Message[Len(typed.first) + 6] = Len(typed.second)
<1> DEFINE M == Message
           f == Len(typed.first)
           s == Len(typed.second)
<1>1. /\ typed.first \in Seq(Byte) /\ typed.second \in Seq(Byte)
      /\ f \in Byte /\ s \in Byte /\ Number \in Byte
  <2>1. Number \in {1, 2}
    BY FieldsOf
  <2>2. Number \in Byte
    BY <2>1 DEF Byte
  <2> QED
    BY <2>2, FieldsOf
<1>2. /\ M \in Seq(Byte) /\ Len(M) = 6 + f + s /\ M[4] = f /\ M[f + 6] = s
      /\ SubSeq(M, 5, 4 + M[4]) = typed.first /\ SubSeq(M, 7 + M[4], Len(M)) = typed.second
  <2> DEFINE n == Number
             u == typed.first
             w == typed.second
  <2>1. n \in Byte /\ u \in Seq(Byte) /\ w \in Seq(Byte) /\ Len(u) \in Byte /\ Len(w) \in Byte
    BY <1>1
  <2>2. M = Serialized(n, u, w) /\ f = Len(u) /\ s = Len(w)
    BY DEF Message
  <2> HIDE DEF n, u, w, M, f, s
  <2>3. /\ M \in Seq(Byte) /\ Len(M) = 6 + Len(u) + Len(w)
        /\ M[4] = Len(u) /\ M[Len(u) + 6] = Len(w)
        /\ SubSeq(M, 5, 4 + M[4]) = u /\ SubSeq(M, 7 + M[4], Len(M)) = w
    <3> DEFINE R == Serialized(n, u, w)
    <3>1. /\ R \in Seq(Byte) /\ Len(R) = 6 + Len(u) + Len(w)
          /\ R[4] = Len(u) /\ R[Len(u) + 6] = Len(w)
          /\ SubSeq(R, 5, 4 + R[4]) = u /\ SubSeq(R, 7 + R[4], Len(R)) = w
      BY <2>1, MessageIs
    <3> HIDE DEF R
    <3>2. M = R
      BY <2>2 DEF R
    <3> QED
      BY <3>1, <3>2
  <2> QED
    BY <2>2, <2>3 DEF u, w
<1> HIDE DEF M, f, s
<1>3. f \in Nat /\ s \in Nat
  BY <1>1 DEF Byte
<1>4. Len(M) > 5 /\ M[4] + 6 <= Len(M) /\ Len(M) = M[4] + 6 + M[M[4] + 6]
  <2>1. M[M[4] + 6] = s
    BY <1>2
  <2> QED
    BY <1>2, <1>3, <2>1
<1>5. Parses(M)
  BY <1>4 DEF Parses
<1> QED
  BY <1>2, <1>5 DEF M, f, s

\* An array with a small message id, and behind it the bytes of d
LEMMA AuthIdIs ==
  ASSUME NEW q, IsArray(q), NEW v \in Int, 0 <= v, v < 65536, HasInt(q, 4, v)
  PROVE  /\ AuthId(q).value = v
         /\ IsBuffer(AuthId(q).buffer) /\ AuthId(q).buffer.data = q /\ AuthId(q).buffer.at = 8
<1> DEFINE c == At(SetBuffer(New(0), q), 4)
<1>1. IsBuffer(c) /\ c.data = q /\ c.at = 4
  BY AtFour DEF IsArray
<1>2. AuthId(q) = ReadInt32LE(c)
  BY DEF AuthId, ReadInt32LEAt
<1> HIDE DEF c
<1>3. HasInt(c.data, c.at, v)
  BY <1>1
<1>4. ReadInt32LE(c).value = v /\ ReadInt32LE(c).buffer = At(c, c.at + 4)
  BY <1>1, <1>3, ReadInt
<1>5. ReadInt32LE(c).buffer = At(c, 8)
  BY <1>1, <1>4
<1>6. IsBuffer(At(c, 8)) /\ At(c, 8).data = q /\ At(c, 8).at = 8
  BY <1>1, AtBuffer
<1> QED
  BY <1>2, <1>4, <1>5, <1>6

LEMMA AuthTextIs ==
  ASSUME NEW q, IsArray(q), NEW v \in Int, 0 <= v, v < 65536, HasInt(q, 4, v), NEW s \in Seq(Byte),
         Len(s) < 65536, HasText(q, 8, s)
  PROVE  AuthText(q) = s
<1> DEFINE b == AuthId(q).buffer
<1>1. IsBuffer(b) /\ b.data = q /\ b.at = 8
  BY AuthIdIs
<1>2. AuthText(q) = ReadText(b).value
  BY DEF AuthText
<1> HIDE DEF b
<1>3. HasText(b.data, b.at, s)
  BY <1>1
<1> QED
  BY <1>1, <1>2, <1>3, ReadsText

\* The bytes of one and two
LEMMA SmallBytes ==
  ASSUME NEW v \in 0..255
  PROVE  Shifted(v, 0) = v /\ Shifted(v, 1) = 0 /\ Shifted(v, 2) = 0 /\ Shifted(v, 3) = 0
<1>1. v \in Int /\ 0 <= v /\ v < 65536 /\ v < 256
  OBVIOUS
<1>2. Shifted(v, 0) + 256 * Shifted(v, 1) = v /\ Shifted(v, 2) = 0 /\ Shifted(v, 3) = 0
  BY <1>1, SmallValue
<1>3. Shifted(v, 0) \in Byte /\ Shifted(v, 1) \in Byte
  BY <1>1, ShiftedIsByte
<1>4. Shifted(v, 0) \in Int /\ Shifted(v, 0) >= 0 /\ Shifted(v, 1) \in Int /\ Shifted(v, 1) >= 0
      /\ Shifted(v, 0) < 256
  BY <1>3, ByteIsInt
<1>5. Shifted(v, 1) = 0
  BY <1>1, <1>2, <1>4
<1> QED
  BY <1>1, <1>2, <1>4, <1>5

LEMMA NoIdTaken ==
  ASSUME NEW q, IsArray(q), NoId(q)
  PROVE  AuthId(q).value \notin {1, 2}
<1> DEFINE c == At(SetBuffer(New(0), q), 4)
           a == q[5]
           b == q[6]
           d == q[7]
           e == q[8]
           high == IF e > 127 THEN e - 256 ELSE e
<1>1. IsBuffer(c) /\ c.data = q /\ c.at = 4 /\ q \in Seq(Byte) /\ Len(q) = 128
  BY AtFour DEF IsArray
<1>2. AuthId(q) = ReadInt32LE(c)
  BY DEF AuthId, ReadInt32LEAt
<1> HIDE DEF c
<1>3. Start(c) = 4
  BY <1>1 DEF Start
<1>4. a \in Byte /\ b \in Byte /\ d \in Byte /\ e \in Byte
  <2>1. \A k \in 5..8 : k \in 1..Len(q)
    BY <1>1
  <2>2. \A k \in 5..8 : q[k] \in Byte
    BY <1>1, <2>1, ElementOfSeq
  <2> QED
    BY <2>2
<1>5. AuthId(q).value = a + 256 * b + 65536 * d + 16777216 * high
  <2> DEFINE w == [k \in 1..4 |-> c.data[Start(c) + k]]
  <2>1. w[1] = a /\ w[2] = b /\ w[3] = d /\ w[4] = e
    BY <1>1, <1>3
  <2>2. ReadInt32LE(c).value =
          w[1] + 256 * w[2] + 256 ^ 2 * w[3] + 256 ^ 3 * (IF w[4] > 127 THEN w[4] - 256 ELSE w[4])
    BY DEF ReadInt32LE
  <2> HIDE DEF w
  <2> QED
    BY <1>2, <2>1, <2>2, Powers
<1> HIDE DEF a, b, d, e
<1>6. /\ a \in Int /\ 0 <= a /\ a < 256 /\ b \in Int /\ 0 <= b /\ b < 256
      /\ d \in Int /\ 0 <= d /\ d < 256 /\ e \in Int /\ 0 <= e /\ e < 256
  BY <1>4, ByteIsInt
<1>7. ASSUME NEW v \in {1, 2}, AuthId(q).value = v PROVE FALSE
  <2>1. a + 256 * b + 65536 * d + 16777216 * high = v /\ high \in Int /\ (high = 0 => e = 0)
    BY <1>5, <1>6, <1>7
  <2> HIDE DEF high
  <2>2. high = 0
    BY <1>6, <1>7, <2>1
  <2>3. a = v /\ b = 0 /\ d = 0 /\ e = 0
    BY <1>6, <1>7, <2>1, <2>2
  <2>4. q[4 + 1] = v /\ q[4 + 2] = 0 /\ q[4 + 3] = 0 /\ q[4 + 4] = 0
    BY <2>3 DEF a, b, d, e
  <2>5. v \in 0..255
    BY <1>7
  <2>6. \A k \in 1..4 : q[4 + k] = Shifted(v, k - 1)
    BY <2>4, <2>5, SmallBytes
  <2>7. HasInt(q, 4, v)
    BY <1>1, <2>6 DEF HasInt
  <2> QED
    BY <1>7, <2>7 DEF NoId
<1> QED
  BY <1>7

\* The first 128 bytes of a longer message do not parse.
BeginsOn(q) ==
  HasInt(q, 4, Number) /\ HasInt(q, 8, 6 + Fields) /\ \A k \in 1..116 : q[12 + k] = Message[k]

LEMMA CutText ==
  ASSUME typed \in TypedType, Account, Fits, Fields > 110, NEW q, IsArray(q), BeginsOn(q)
  PROVE  ~Parses(AuthText(q))
<1> DEFINE F == Fields
           M == Message
           f == Len(typed.first)
           s == Len(typed.second)
           b == AuthId(q).buffer
           size == ReadInt32LE(b)
           c == size.buffer
           t == AuthText(q)
<1>1. F \in Nat /\ F <= 112 /\ F = f + s
  BY FieldsOf
<1>0. Number \in Int /\ 0 <= Number /\ Number < 65536
  <2>1. Number \in {1, 2}
    BY FieldsOf
  <2> QED
    BY <2>1
<1>2. f \in Nat /\ s \in Nat
  <2> DEFINE u == typed.first
             w == typed.second
  <2>1. u \in Seq(Byte) /\ w \in Seq(Byte)
    BY FieldsOf
  <2>2. f = Len(u) /\ s = Len(w)
    OBVIOUS
  <2> HIDE DEF u, w, f, s
  <2> QED
    BY <2>1, <2>2
<1>3. M[4] = f /\ M[f + 6] = s
  BY ParsesMessage
<1>4. IsBuffer(b) /\ b.data = q /\ b.at = 8
  <2>1. HasInt(q, 4, Number)
    BY DEF BeginsOn
  <2> QED
    BY <1>0, <2>1, AuthIdIs
<1>5. t = ReadString(c, size.value).value
  BY DEF AuthText, ReadText
<1>6. HasInt(q, 8, 6 + F) /\ F > 110 /\ \A k \in 1..116 : q[12 + k] = M[k]
  BY DEF BeginsOn
<1> HIDE DEF F, M, f, s, b, t
<1>7. size.value = 6 + F /\ IsBuffer(c) /\ c.data = q /\ c.at = 12
  <2>1. 6 + F \in Int /\ 0 <= 6 + F /\ 6 + F < 65536 /\ HasInt(b.data, b.at, 6 + F)
    BY <1>1, <1>4, <1>6
  <2> DEFINE v == 6 + F
  <2> HIDE DEF v
  <2>2. v \in Int /\ 0 <= v /\ v < 65536 /\ HasInt(b.data, b.at, v)
    BY <2>1 DEF v
  <2>3. size.value = v /\ c = At(b, b.at + 4)
    BY <1>4, <2>2, ReadInt
  <2>4. c = At(b, 12)
    BY <1>4, <2>3
  <2> HIDE DEF size
  <2>5. IsBuffer(At(b, 12)) /\ At(b, 12).data = q /\ At(b, 12).at = 12
    BY <1>4, AtBuffer
  <2> QED
    BY <2>3, <2>4, <2>5 DEF v
<1> HIDE DEF size
<1>8. Len(q) = 128
  BY DEF IsArray
<1>9. Len(t) = 116 /\ \A k \in 1..116 : t[k] = M[k]
  <2> DEFINE r == ReadString(c, size.value)
             left == Len(c.data) - c.at
             n == IF size.value < 0 \/ size.value > left THEN left ELSE size.value
  <2>1. c.at <= Len(c.data) /\ size.value \in Int
    BY <1>1, <1>7, <1>8
  <2>2. Len(r.value) = n /\ \A k \in 1..n : r.value[k] = c.data[c.at + k]
    BY <1>7, <2>1, ReadChars
  <2>3. n = 116
    BY <1>1, <1>6, <1>7, <1>8
  <2> HIDE DEF n, r
  <2>4. Len(r.value) = 116 /\ \A k \in 1..116 : r.value[k] = q[12 + k]
    BY <1>7, <2>2, <2>3
  <2>5. t = r.value
    BY <1>5 DEF r
  <2> QED
    BY <1>6, <2>4, <2>5
<1>10. ASSUME Parses(t) PROVE FALSE
  <2>1. t[4] = f
    BY <1>3, <1>9
  <2>2. f + 6 <= 116 /\ 116 = f + 6 + t[f + 6]
    BY <1>9, <1>10, <2>1 DEF Parses
  <2>3. f + 6 \in 1..116
    BY <1>2, <2>2
  <2>4. t[f + 6] = s
    BY <1>3, <1>9, <2>3
  <2> QED
    BY <1>1, <1>2, <1>6, <2>2, <2>4
<1> QED
  BY <1>10 DEF t

\* The bytes behind i up to j of an array are those of q.
SameIn(a, q, i, j) == \A k \in (i + 1)..j : a[k] = q[k]

LEMMA IntIn ==
  ASSUME NEW a, IsArray(a), NEW q, NEW i \in Nat, NEW j \in Nat, NEW at \in Nat, NEW v,
         HasInt(q, at, v), SameIn(a, q, i, j), i <= at, at + 4 <= j, j <= 128
  PROVE  HasInt(a, at, v)
<1>1. at + 4 <= Len(a)
  BY DEF IsArray
<1>2. ASSUME NEW k \in 1..4 PROVE a[at + k] = Shifted(v, k - 1)
  <2>1. at + k \in (i + 1)..j
    OBVIOUS
  <2> QED
    BY <2>1 DEF SameIn, HasInt
<1> QED
  BY <1>1, <1>2 DEF HasInt

LEMMA TextIn ==
  ASSUME NEW a, IsArray(a), NEW q, NEW i \in Nat, NEW j \in Nat, NEW at \in Nat,
         NEW s, Len(s) \in Nat,
         HasText(q, at, s), SameIn(a, q, i, j), i <= at, at + 4 + Len(s) <= j, j <= 128
  PROVE  HasText(a, at, s)
<1> DEFINE n == Len(s)
<1>1. n \in Nat /\ at + 4 + n <= j /\ HasInt(q, at, n)
  BY DEF HasText
<1>2. \A k \in 1..n : q[at + 4 + k] = s[k]
  BY DEF HasText, HasString
<1>3. at + 4 + n <= Len(a)
  BY DEF IsArray
<1> HIDE DEF n
<1>4. HasInt(a, at, n)
  <2>1. at + 4 <= j
    BY <1>1
  <2> QED
    BY <1>1, <2>1, IntIn
<1>5. ASSUME NEW k \in 1..n PROVE a[at + 4 + k] = s[k]
  <2>1. at + 4 + k \in (i + 1)..j
    BY <1>1
  <2> QED
    BY <1>2, <2>1 DEF SameIn
<1> QED
  BY <1>3, <1>4, <1>5 DEF HasText, HasString, n

\* What recv() of the bytes of q leaves in an array
LEMMA Received ==
  ASSUME NEW old, IsArray(old), NEW q \in Seq(Byte)
  PROVE  /\ IsArray(Overlay(old, Piece(q)))
         /\ Len(q) >= 128 => SameIn(Overlay(old, Piece(q)), q, 0, 128)
         /\ Len(q) < 128 => /\ SameIn(Overlay(old, Piece(q)), q, 0, Len(q))
                            /\ SameIn(Overlay(old, Piece(q)), old, Len(q), 128)
         /\ Rest(q) \in Seq(Byte)
         /\ Len(q) <= 128 => Rest(q) = << >>
<1> DEFINE p == Piece(q)
           n == Len(q)
           m == Len(p)
           a == Overlay(old, p)
<1>1. n \in Nat /\ p \in Seq(Byte) /\ m = (IF n < 128 THEN n ELSE 128) /\ \A k \in 1..m : p[k] = q[k]
  BY PieceOf
<1> HIDE DEF p, n
<1>2. m <= 128 /\ m \in Nat
  BY <1>1
<1>3. IsArray(a) /\ \A k \in 1..128 : a[k] = IF k <= m THEN p[k] ELSE old[k]
  BY <1>1, <1>2, OverlayOf
<1> HIDE DEF m, a
<1>4. ASSUME NEW k \in 1..m PROVE a[k] = q[k]
  <2>1. k \in 1..128 /\ k <= m
    BY <1>2
  <2> QED
    BY <1>1, <1>3, <2>1
<1>5. ASSUME NEW k \in (m + 1)..128 PROVE a[k] = old[k]
  <2>1. k \in 1..128 /\ ~(k <= m)
    BY <1>2
  <2> QED
    BY <1>3, <2>1
<1>6. n >= 128 => SameIn(a, q, 0, 128)
  BY <1>1, <1>4 DEF SameIn
<1>7. n < 128 => SameIn(a, q, 0, n) /\ SameIn(a, old, n, 128)
  BY <1>1, <1>4, <1>5 DEF SameIn
<1>8. Rest(q) \in Seq(Byte)
  BY RestOf
<1>9. n <= 128 => Rest(q) = << >>
  <2>1. Len(Rest(q)) = (IF n < 128 THEN 0 ELSE n - 128)
    BY RestOf DEF n
  <2>2. n <= 128 => Len(Rest(q)) = 0
    BY <1>1, <2>1
  <2> QED
    BY <1>8, <2>2, EmptySeq
<1> QED
  BY <1>3, <1>6, <1>7, <1>8, <1>9 DEF a, n, p

\* The fields of a message that parses, and what is done with it
EmailIn(s) == SubSeq(s, 5, 4 + s[4])
PasswordIn(s) == SubSeq(s, 7 + s[4], Len(s))
Registers(id) == id = 1
Takes(id, s) ==
  \E outcome \in Outcomes(Registers(id), PasswordIn(s)) :
    /\ asked' = Append(asked, [id |-> id, email |-> EmailIn(s), password |-> PasswordIn(s),
                               outcome |-> outcome])
    /\ back' = back \o AnswerTo(Registers(id), outcome, s)

LEMMA WhatIsTaken ==
  ASSUME ReceiveForwarded, NEW id, NEW s,
         id = AuthId(authArray').value, s = AuthText(authArray')
  PROVE  /\ id \in {1, 2} /\ Parses(s) => Takes(id, s)
         /\ ~(id \in {1, 2} /\ Parses(s)) => UNCHANGED <<asked, back>>
<1>1. IF id \in {1, 2} /\ Parses(s)
      THEN \E outcome \in Outcomes(id = 1, SubSeq(s, 7 + s[4], Len(s))) :
             /\ asked' = Append(asked, [id |-> id, email |-> SubSeq(s, 5, 4 + s[4]),
                                        password |-> SubSeq(s, 7 + s[4], Len(s)),
                                        outcome |-> outcome])
             /\ back' = back \o AnswerTo(id = 1, outcome, s)
      ELSE UNCHANGED <<asked, back>>
  BY DEF ReceiveForwarded, AuthText, AuthId
<1> QED
  BY <1>1 DEF Takes, EmailIn, PasswordIn, Registers

\* The outcomes of a request and its answer
Asks(id) ==
  \E outcome \in Outcome :
    /\ asked' = Append(asked, [id |-> id, email |-> typed.first, password |-> typed.second,
                               outcome |-> outcome])
    /\ back' = back \o AnswerTo(Registers(id), outcome, Message)

LEMMA TakesMessage ==
  ASSUME typed \in TypedType, Account, Fits, ReceiveForwarded, IsArray(authArray'),
         NEW v \in Int, 0 <= v, v < 65536, HasInt(authArray', 4, v), HasText(authArray', 8, Message)
  PROVE  (v \in {1, 2} /\ Asks(v)) \/ (v \notin {1, 2} /\ UNCHANGED <<asked, back>>)
<1> DEFINE q == authArray'
           M == Message
<1>1. M \in Seq(Byte) /\ Len(M) < 65536
  BY MessageLength
<1>2. AuthId(q).value = v /\ AuthText(q) = M
  <2> HIDE DEF q, M
  <2>1. IsArray(q) /\ HasInt(q, 4, v) /\ HasText(q, 8, M)
    BY DEF q, M
  <2> QED
    BY <1>1, <2>1, AuthIdIs, AuthTextIs
<1>3. Parses(M) /\ EmailIn(M) = typed.first /\ PasswordIn(M) = typed.second
  BY ParsesMessage DEF EmailIn, PasswordIn
<1>4. /\ v \in {1, 2} /\ Parses(M) => Takes(v, M)
      /\ ~(v \in {1, 2} /\ Parses(M)) => UNCHANGED <<asked, back>>
  <2>1. v = AuthId(authArray').value /\ M = AuthText(authArray')
    BY <1>2
  <2> HIDE DEF M
  <2> QED
    BY <2>1, WhatIsTaken
<1>5. Takes(v, M) => Asks(v)
  <2>1. Outcomes(Registers(v), typed.second) \subseteq Outcome
    BY DEF Outcomes, Outcome
  <2> HIDE DEF M
  <2>2. ASSUME NEW outcome \in Outcomes(Registers(v), PasswordIn(M)),
               asked' = Append(asked, [id |-> v, email |-> EmailIn(M), password |-> PasswordIn(M),
                                       outcome |-> outcome]),
               back' = back \o AnswerTo(Registers(v), outcome, M)
        PROVE  Asks(v)
    <3>1. outcome \in Outcome
      BY <1>3, <2>1, <2>2
    <3>2. asked' = Append(asked, [id |-> v, email |-> typed.first, password |-> typed.second,
                                  outcome |-> outcome])
      BY <1>3, <2>2
    <3>3. back' = back \o AnswerTo(Registers(v), outcome, Message)
      BY <2>2 DEF M
    <3> QED
      BY <3>1, <3>2, <3>3 DEF Asks
  <2> QED
    BY <2>2 DEF Takes
<1> QED
  BY <1>3, <1>4, <1>5

LEMMA TakesNothing ==
  ASSUME ReceiveForwarded, AuthId(authArray').value \notin {1, 2} \/ ~Parses(AuthText(authArray'))
  PROVE  UNCHANGED <<asked, back>>
<1> DEFINE id == AuthId(authArray').value
           s == AuthText(authArray')
<1>1. id \notin {1, 2} \/ ~Parses(s)
  OBVIOUS
<1>2. id = AuthId(authArray').value /\ s = AuthText(authArray')
  OBVIOUS
<1> HIDE DEF id, s
<1> QED
  BY <1>1, <1>2, WhatIsTaken

LEMMA NoIdIn ==
  ASSUME NEW a, NEW q, NEW i \in Nat, NEW j \in Nat, SameIn(a, q, i, j), i <= 4, 8 <= j,
         8 <= Len(q), NoId(q)
  PROVE  NoId(a)
<1>1. ASSUME NEW v, HasInt(a, 4, v) PROVE HasInt(q, 4, v)
  <2>1. \A k \in 1..4 : 4 + k \in (i + 1)..j
    OBVIOUS
  <2>2. \A k \in 1..4 : q[4 + k] = Shifted(v, k - 1)
    BY <1>1, <2>1 DEF HasInt, SameIn
  <2> QED
    BY <2>2 DEF HasInt
<1> QED
  BY <1>1 DEF NoId

\* An id that is one or two has a lowest byte that is, and no other.
LEMMA IdBytes ==
  ASSUME NEW q, q[6] # 0 \/ q[7] # 0 \/ q[8] # 0
  PROVE  NoId(q)
<1>1. ASSUME NEW v \in {1, 2}, HasInt(q, 4, v) PROVE FALSE
  <2>1. v \in 0..255
    BY <1>1
  <2>2. Shifted(v, 1) = 0 /\ Shifted(v, 2) = 0 /\ Shifted(v, 3) = 0
    BY <2>1, SmallBytes
  <2>3. q[4 + 2] = Shifted(v, 2 - 1) /\ q[4 + 3] = Shifted(v, 3 - 1) /\ q[4 + 4] = Shifted(v, 4 - 1)
    BY <1>1 DEF HasInt
  <2> QED
    BY <2>2, <2>3
<1> QED
  BY <1>1 DEF NoId

\* The first piece of what is forwarded, and what is left of it
LEMMA FirstArrives ==
  ASSUME typed \in TypedType, Account, Fits, NEW old, IsArray(old), NEW q, Forwarded(q)
  PROVE  /\ IsArray(Overlay(old, Piece(q))) /\ Rest(q) \in Seq(Byte)
         /\ Fields <= 110 => HoldsOn(Overlay(old, Piece(q)))
         /\ Fields <= 82 => Rest(q) = << >>
         /\ Fields \in 83..110 => Remain(Rest(q))
         /\ Fields > 110 => /\ BeginsOn(Overlay(old, Piece(q)))
                            /\ Len(Rest(q)) = Fields - 82 /\ \A k \in 5..8 : Rest(q)[k] = 0
<1> DEFINE F == Fields
           M == Message
           a == Overlay(old, Piece(q))
           r == Rest(q)
           L == Len(q)
           n == Len(M)
<1>1. F \in Nat /\ F <= 112 /\ M \in Seq(Byte) /\ n = 6 + F
  BY MessageLength
<1>2. /\ q \in Seq(Byte) /\ L = 46 + F /\ HasInt(q, 4, Number) /\ HasText(q, 8, M)
      /\ F <= 110 => \A k \in 129..L : q[k] = beyond
      /\ F > 110 => \A k \in 133..136 : q[k] = 0
  BY DEF Forwarded
<1>3. /\ IsArray(a) /\ r \in Seq(Byte)
      /\ L >= 128 => SameIn(a, q, 0, 128)
      /\ L < 128 => SameIn(a, q, 0, L)
      /\ L <= 128 => r = << >>
  BY <1>2, Received
<1>4. Len(r) = (IF L < 128 THEN 0 ELSE L - 128) /\ \A k \in 1..Len(r) : r[k] = q[128 + k]
  BY <1>2, RestOf
<1> HIDE DEF F, M, a, r, L, n
<1>5. F <= 110 => HoldsOn(a)
  <2> SUFFICES ASSUME F <= 110 PROVE HoldsOn(a)
    OBVIOUS
  <2> DEFINE j == IF L >= 128 THEN 128 ELSE L
  <2>1. SameIn(a, q, 0, j) /\ j \in Nat /\ 0 \in Nat /\ 8 + 4 + n <= j /\ 4 + 4 <= j /\ j <= 128
        /\ 0 <= 4 /\ 0 <= 8 /\ 4 \in Nat /\ 8 \in Nat /\ n \in Nat
    BY <1>1, <1>2, <1>3
  <2> HIDE DEF j
  <2>2. HasInt(a, 4, Number)
    BY <1>2, <1>3, <2>1, IntIn
  <2>3. HasText(a, 8, M)
    BY <1>2, <1>3, <2>1, TextIn DEF n
  <2> QED
    BY <2>2, <2>3 DEF HoldsOn, M
<1>6. F <= 82 => r = << >>
  BY <1>1, <1>2, <1>3
<1>7. F \in 83..110 => Remain(r)
  <2> SUFFICES ASSUME F \in 83..110 PROVE Remain(r)
    OBVIOUS
  <2>1. F > 82 /\ Len(r) = F - 82
    BY <1>1, <1>2, <1>4
  <2>2. ASSUME NEW k \in 1..Len(r) PROVE r[k] = beyond
    <3>1. 128 + k \in 129..L
      BY <1>1, <1>2, <2>1
    <3> QED
      BY <1>2, <1>4, <3>1
  <2> QED
    BY <1>3, <2>1, <2>2 DEF Remain, F
<1>8. F > 110 => BeginsOn(a) /\ Len(r) = F - 82 /\ \A k \in 5..8 : r[k] = 0
  <2> SUFFICES ASSUME F > 110 PROVE BeginsOn(a) /\ Len(r) = F - 82 /\ \A k \in 5..8 : r[k] = 0
    OBVIOUS
  <2>1. L >= 128 /\ SameIn(a, q, 0, 128) /\ Len(r) = F - 82
    BY <1>1, <1>2, <1>3, <1>4
  <2>2. HasInt(q, 8, n) /\ \A k \in 1..n : q[12 + k] = M[k]
    <3>1. HasInt(q, 8, n) /\ \A k \in 1..n : q[8 + 4 + k] = M[k]
      BY <1>2 DEF HasText, HasString, n
    <3> QED
      BY <3>1
  <2>3. HasInt(a, 4, Number) /\ HasInt(a, 8, n)
    <3>1. 0 \in Nat /\ 128 \in Nat /\ 4 \in Nat /\ 8 \in Nat /\ 0 <= 4 /\ 0 <= 8 /\ 4 + 4 <= 128
          /\ 8 + 4 <= 128 /\ 128 <= 128
      OBVIOUS
    <3> QED
      BY <1>2, <1>3, <2>1, <2>2, <3>1, IntIn
  <2>4. ASSUME NEW k \in 1..116 PROVE a[12 + k] = M[k]
    <3>1. k \in 1..n /\ 12 + k \in (0 + 1)..128
      BY <1>1
    <3> QED
      BY <2>1, <2>2, <3>1 DEF SameIn
  <2>5. ASSUME NEW k \in 5..8 PROVE r[k] = 0
    <3>1. k \in 1..Len(r) /\ 128 + k \in 133..136
      BY <1>1, <2>1
    <3> QED
      BY <1>2, <1>4, <3>1
  <2>6. HasInt(a, 8, 6 + F)
    BY <1>1, <2>3
  <2> QED
    BY <2>1, <2>3, <2>4, <2>5, <2>6 DEF BeginsOn, F, M
<1> QED
  BY <1>3, <1>5, <1>6, <1>7, <1>8 DEF F, a, r

\* What is left arrives: one to four bytes change nothing that is read, the fifth is the
\* lowest byte of the message id, and the sixth makes it another one.
LEMMA RestArrives ==
  ASSUME typed \in TypedType, Account, Fits, beyond \in Byte, Fields <= 110,
         NEW old, IsArray(old), HoldsOn(old), NEW q, Remain(q)
  PROVE  /\ IsArray(Overlay(old, Piece(q))) /\ Rest(q) = << >>
         /\ Fields <= 86 => HoldsOn(Overlay(old, Piece(q)))
         /\ Fields = 87 => /\ HasInt(Overlay(old, Piece(q)), 4, beyond)
                           /\ HasText(Overlay(old, Piece(q)), 8, Message)
         /\ Fields > 87 => NoId(Overlay(old, Piece(q)))
<1> DEFINE F == Fields
           M == Message
           a == Overlay(old, Piece(q))
           L == Len(q)
           n == Len(M)
<1>1. F \in Nat /\ F <= 110 /\ M \in Seq(Byte) /\ n = 6 + F /\ n \in Nat
      /\ Number \in Int /\ 0 <= Number /\ Number \in {1, 2}
  <2>1. F \in Nat /\ M \in Seq(Byte) /\ n = 6 + F /\ Number \in Int /\ 0 <= Number /\ Number \in {1, 2}
    BY MessageLength
  <2> HIDE DEF M, n
  <2>2. n \in Nat
    BY <2>1
  <2> QED
    BY <2>1, <2>2
<1>2. q \in Seq(Byte) /\ F > 82 /\ L = F - 82 /\ \A k \in 1..L : q[k] = beyond
  BY DEF Remain
<1>3. HasInt(old, 4, Number) /\ HasText(old, 8, M)
  BY DEF HoldsOn
<1>4. L < 128
  <2> HIDE DEF F, L
  <2> QED
    BY <1>1, <1>2
<1>5. /\ IsArray(a) /\ Rest(q) = << >> /\ SameIn(a, q, 0, L) /\ SameIn(a, old, L, 128)
  <2>1. L <= 128
    BY <1>2, <1>4
  <2> QED
    BY <1>2, <1>4, <2>1, Received
<1> HIDE DEF F, M, a, L, n
<1>6. L \in Nat /\ 128 \in Nat /\ 4 \in Nat /\ 8 \in Nat /\ 4 + 4 <= 128 /\ 128 <= 128
      /\ 8 + 4 + n <= 128
  BY <1>1, <1>2
<1>7. L <= 8 => HasText(a, 8, M)
  BY <1>3, <1>5, <1>6, <1>1, TextIn DEF n
<1>8. F <= 86 => HoldsOn(a)
  <2> SUFFICES ASSUME F <= 86 PROVE HoldsOn(a)
    OBVIOUS
  <2>1. L <= 4 /\ L <= 8
    BY <1>1, <1>2
  <2>2. HasInt(a, 4, Number)
    BY <1>3, <1>5, <1>6, <2>1, IntIn
  <2> QED
    BY <1>7, <2>1, <2>2 DEF HoldsOn, M
<1>9. F = 87 => HasInt(a, 4, beyond) /\ HasText(a, 8, M)
  <2> SUFFICES ASSUME F = 87 PROVE HasInt(a, 4, beyond) /\ HasText(a, 8, M)
    OBVIOUS
  <2>1. L = 5 /\ L <= 8
    BY <1>2
  <2>2. a[5] = beyond
    <3>1. 5 \in 1..L /\ 5 \in (0 + 1)..L
      BY <2>1
    <3> QED
      BY <1>2, <1>5, <3>1 DEF SameIn
  <2>3. a[6] = old[6] /\ a[7] = old[7] /\ a[8] = old[8]
    BY <1>5, <2>1 DEF SameIn
  <2>4. old[6] = 0 /\ old[7] = 0 /\ old[8] = 0
    <3>1. Shifted(Number, 1) = 0 /\ Shifted(Number, 2) = 0 /\ Shifted(Number, 3) = 0
      <4>1. Number \in 0..255
        BY <1>1
      <4> QED
        BY <4>1, SmallBytes
    <3>2. /\ old[4 + 2] = Shifted(Number, 2 - 1) /\ old[4 + 3] = Shifted(Number, 3 - 1)
          /\ old[4 + 4] = Shifted(Number, 4 - 1)
      BY <1>3 DEF HasInt
    <3> QED
      BY <3>1, <3>2
  <2>5. Shifted(beyond, 0) = beyond /\ Shifted(beyond, 1) = 0 /\ Shifted(beyond, 2) = 0
        /\ Shifted(beyond, 3) = 0
    <3>1. beyond \in 0..255
      BY DEF Byte
    <3> QED
      BY <3>1, SmallBytes
  <2>6. \A k \in 1..4 : a[4 + k] = Shifted(beyond, k - 1)
    BY <2>2, <2>3, <2>4, <2>5
  <2>7. HasInt(a, 4, beyond)
    BY <1>5, <2>6 DEF HasInt, IsArray
  <2> QED
    BY <1>7, <2>1, <2>7
<1>10. F > 87 => NoId(a)
  <2> SUFFICES ASSUME F > 87 PROVE NoId(a)
    OBVIOUS
  <2>1. L >= 6
    BY <1>1, <1>2
  <2>2. 5 \in 1..L /\ 6 \in 1..L /\ 5 \in (0 + 1)..L /\ 6 \in (0 + 1)..L
    BY <1>6, <2>1
  <2>3. a[5] = beyond /\ a[6] = beyond
    BY <1>2, <1>5, <2>2 DEF SameIn
  <2>4. CASE beyond # 0
    BY <2>3, <2>4, IdBytes
  <2>5. CASE beyond = 0
    <3>1. ASSUME NEW v \in {1, 2}, HasInt(a, 4, v) PROVE FALSE
      <4>1. v \in 0..255 /\ v # 0
        BY <3>1
      <4>2. Shifted(v, 0) = v
        BY <4>1, SmallBytes
      <4>3. a[4 + 1] = Shifted(v, 1 - 1)
        BY <3>1 DEF HasInt
      <4> QED
        BY <2>3, <2>5, <4>1, <4>2, <4>3
    <3> QED
      BY <3>1 DEF NoId
  <2> QED
    BY <2>4, <2>5
<1> QED
  BY <1>5, <1>8, <1>9, <1>10 DEF F, M, a

-----------------------------------------------------------------------------
(* Its answers *)

LEMMA AnswerSent ==
  ASSUME beyond \in Byte, NEW success \in Int, NEW text \in Seq(Byte), NEW counted \in Seq(Byte),
         NEW s \in Seq(Byte)
  PROVE  /\ Answer(success, text, counted, s) \in Seq(Byte)
         /\ Len(Answer(success, text, counted, s)) = 20 + Len(text) + Len(counted)
<1> DEFINE L == 4 + SizeT + Len(text) + SizeT + Len(counted)
           b == New(L)
           b1 == WriteInt32LEAt(b, 0, success)
           b2 == WriteText(b1, text)
           b3 == WriteText(b2, s)
<1>1. L \in Nat /\ L = 20 + Len(text) + Len(counted) /\ 4 <= L
  BY DEF SizeT
<1>2. Answer(success, text, counted, s) = Sent(b3, L)
  BY DEF Answer
<1> HIDE DEF L
<1>3. IsBuffer(b) /\ Len(b.data) = L
  BY <1>1, NewBuffer
<1> HIDE DEF b
<1>4. IsBuffer(b1)
  <2>1. 4 <= Len(b.data)
    BY <1>1, <1>3
  <2> QED
    BY <1>3, <2>1, WriteIntFirst
<1> HIDE DEF b1
<1>5. IsBuffer(b2)
  BY <1>4, WriteTextKeeps
<1> HIDE DEF b2
<1>6. IsBuffer(b3)
  BY <1>5, WriteTextKeeps
<1> HIDE DEF b3
<1>7. Sent(b3, L) \in Seq(Byte) /\ Len(Sent(b3, L)) = L
  BY <1>1, <1>6, SentBytes
<1> QED
  BY <1>1, <1>2, <1>7

\* The texts and messages of the answers
LEMMA TextsOfAnswers ==
  ASSUME typed \in TypedType
  PROVE
  /\ Fill(106, 29) \in Seq(Byte) /\ Len(Fill(106, 29)) = 29
  /\ Fill(107, 26) \in Seq(Byte) /\ Len(Fill(107, 26)) = 26
  /\ Failure \in Seq(Byte) /\ Len(Failure) = 4
  /\ LoginSuccess \in Seq(Byte) /\ Len(LoginSuccess) = 24 + Len(typed.account)
<1>1. 8 \in Byte /\ 3 \in Byte /\ 16 \in Byte /\ 1 \in Byte /\ 4 \in Byte /\ 19 \in Byte
      /\ 26 \in Byte
  BY DEF Byte
<1>2. Fill(106, 29) \in Seq(Byte) /\ Len(Fill(106, 29)) = 29
  <2> DEFINE x == 106
             n == 29
  <2>1. x \in Byte /\ n \in Nat
    BY DEF Byte
  <2> HIDE DEF x, n
  <2>2. Fill(x, n) \in Seq(Byte) /\ Len(Fill(x, n)) = n
    BY <2>1, FillSeq
  <2> QED
    BY <2>2 DEF x, n
<1>3. Fill(107, 26) \in Seq(Byte) /\ Len(Fill(107, 26)) = 26
  <2> DEFINE x == 107
             n == 26
  <2>1. x \in Byte /\ n \in Nat
    BY DEF Byte
  <2> HIDE DEF x, n
  <2>2. Fill(x, n) \in Seq(Byte) /\ Len(Fill(x, n)) = n
    BY <2>1, FillSeq
  <2> QED
    BY <2>2 DEF x, n
<1>4. Failure \in Seq(Byte) /\ Len(Failure) = 4
  BY <1>1 DEF Failure
<1>5. LoginSuccess \in Seq(Byte) /\ Len(LoginSuccess) = 24 + Len(typed.account)
  <2> DEFINE a == <<8, 4, 16>>
             b == typed.account
             c == <<26, 19>>
             d == Fill(102, 19)
             ab == a \o b
             abc == ab \o c
             abcd == abc \o d
  <2>1. a \in Seq(Byte) /\ Len(a) = 3 /\ c \in Seq(Byte) /\ Len(c) = 2
    BY <1>1
  <2>2. d \in Seq(Byte) /\ Len(d) = 19
    <3> DEFINE x == 102
               n == 19
    <3>1. x \in Byte /\ n \in Nat
      BY DEF Byte
    <3> HIDE DEF x, n
    <3>2. Fill(x, n) \in Seq(Byte) /\ Len(Fill(x, n)) = n
      BY <3>1, FillSeq
    <3> QED
      BY <3>2 DEF x, n
  <2>3. b \in Seq(Byte) /\ Len(b) \in Nat
    BY DEF TypedType
  <2>4. LoginSuccess = abcd
    BY DEF LoginSuccess
  <2> HIDE DEF a, b, c, d, ab, abc, abcd
  <2>5. ab \in Seq(Byte) /\ Len(ab) = Len(a) + Len(b)
    BY <2>1, <2>3, ConcatParts DEF ab
  <2>6. abc \in Seq(Byte) /\ Len(abc) = Len(ab) + Len(c)
    BY <2>1, <2>5, ConcatParts DEF abc
  <2>7. abcd \in Seq(Byte) /\ Len(abcd) = Len(abc) + Len(d)
    BY <2>2, <2>6, ConcatParts DEF abcd
  <2>8. Len(abcd) = 24 + Len(b)
    BY <2>1, <2>2, <2>3, <2>5, <2>6, <2>7
  <2> QED
    BY <2>4, <2>7, <2>8 DEF b
<1> QED
  BY <1>2, <1>3, <1>4, <1>5

\* How long the answer to a request is
LEMMA AnswerLength ==
  ASSUME beyond \in Byte, typed \in TypedType, NEW register, NEW outcome \in Outcome,
         NEW s \in Seq(Byte)
  PROVE  /\ AnswerTo(register, outcome, s) \in Seq(Byte)
         /\ Len(AnswerTo(register, outcome, s)) >= 46
         /\ outcome = "ok" => Len(AnswerTo(register, outcome, s)) = 49 + Len(s)
         /\ outcome = "failed" => Len(AnswerTo(register, outcome, s)) = 46 + Len(s)
         /\ outcome = "short" => Len(AnswerTo(register, outcome, s)) = 50
<1> DEFINE good == Fill(106, 29)
           bad == Fill(107, 26)
           m == IF register THEN s ELSE LoginSuccess
           c == IF outcome = "short" THEN Failure ELSE s
           A == AnswerTo(register, outcome, s)
           one == 1
           zero == 0
<1>1. /\ good \in Seq(Byte) /\ Len(good) = 29 /\ bad \in Seq(Byte) /\ Len(bad) = 26
      /\ Failure \in Seq(Byte) /\ Len(Failure) = 4 /\ LoginSuccess \in Seq(Byte)
  BY TextsOfAnswers
<1>2. m \in Seq(Byte) /\ c \in Seq(Byte) /\ Len(c) \in Nat /\ Len(s) \in Nat
      /\ zero \in Int /\ one \in Int
      /\ (outcome = "short" => Len(c) = 4) /\ (outcome = "failed" => Len(c) = Len(s))
  BY <1>1
<1>3. A = IF outcome = "ok" THEN Answer(one, good, s, m) ELSE Answer(zero, bad, c, Failure)
  BY DEF AnswerTo
<1> HIDE DEF A, m, c, good, bad, one, zero
<1>8. /\ beyond \in Byte /\ good \in Seq(Byte) /\ bad \in Seq(Byte) /\ s \in Seq(Byte)
      /\ m \in Seq(Byte) /\ c \in Seq(Byte) /\ Failure \in Seq(Byte)
      /\ one \in Int /\ zero \in Int
  BY <1>1, <1>2
<1>4. Answer(one, good, s, m) \in Seq(Byte) /\ Len(Answer(one, good, s, m)) = 20 + Len(good) + Len(s)
  BY <1>8, AnswerSent
<1>5. /\ Answer(zero, bad, c, Failure) \in Seq(Byte)
      /\ Len(Answer(zero, bad, c, Failure)) = 20 + Len(bad) + Len(c)
  BY <1>8, AnswerSent
<1> DEFINE la == Len(A)
           ls == Len(s)
           lc == Len(c)
<1>6. outcome = "ok" => A \in Seq(Byte) /\ la = 49 + ls
  BY <1>1, <1>2, <1>3, <1>4
<1>7. outcome # "ok" => A \in Seq(Byte) /\ la = 46 + lc
  BY <1>1, <1>2, <1>3, <1>5
<1>9. /\ ls \in Nat /\ lc \in Nat
      /\ (outcome = "short" => lc = 4) /\ (outcome = "failed" => lc = ls)
  BY <1>2
<1> HIDE DEF la, ls, lc
<1>10. /\ A \in Seq(Byte) /\ la >= 46
       /\ outcome = "ok" => la = 49 + ls
       /\ outcome = "failed" => la = 46 + ls
       /\ outcome = "short" => la = 50
  BY <1>6, <1>7, <1>9
<1> QED
  BY <1>10 DEF la, ls, A

\* A request that is taken is one more of them, and its answer is behind the others.
LEMMA AsksOne ==
  ASSUME beyond \in Byte, typed \in TypedType, Account, Fits, UNCHANGED typed,
         asked \in Seq(AskedType), AskedTyped, back \in Seq(Byte),
         NEW v \in Int, v = Number \/ Fields = 87, Asks(v)
  PROVE  /\ asked' \in Seq(AskedType) /\ Len(asked') = Len(asked) + 1 /\ AskedTyped'
         /\ back' \in Seq(Byte) /\ back' # << >>
         /\ asked = << >> => asked' # << >> /\ asked'[1].outcome \in Outcome
         /\ asked = << >> /\ back = << >> =>
              back' = AnswerTo(Registers(v), asked'[1].outcome, Message)
<1>1. PICK outcome \in Outcome :
        /\ asked' = Append(asked, [id |-> v, email |-> typed.first, password |-> typed.second,
                                   outcome |-> outcome])
        /\ back' = back \o AnswerTo(Registers(v), outcome, Message)
  BY DEF Asks
<1> DEFINE x == [id |-> v, email |-> typed.first, password |-> typed.second, outcome |-> outcome]
           A == AnswerTo(Registers(v), outcome, Message)
           n == Len(asked)
<1>2. /\ x \in AskedType /\ x.id = v /\ x.email = typed.first /\ x.password = typed.second
      /\ x.outcome = outcome
  BY FieldsOf DEF AskedType
<1>3. A \in Seq(Byte) /\ Len(A) >= 46
  BY MessageLength, AnswerLength
<1>4. asked' = Append(asked, x) /\ back' = back \o A
  BY <1>1
<1> HIDE DEF x, A
<1>5. /\ asked' \in Seq(AskedType) /\ Len(asked') = n + 1 /\ n \in Nat
      /\ \A i \in 1..n : asked'[i] = asked[i]
      /\ asked'[n + 1] = x
  BY <1>2, <1>4, AppendProperties
<1> HIDE DEF n
<1>6. AskedTyped'
  <2>1. Number' = Number /\ Fields' = Fields /\ typed' = typed
    BY DEF Number, Fields
  <2> SUFFICES ASSUME NEW i \in 1..Len(asked')
               PROVE  /\ asked'[i].id = Number \/ Fields = 87
                      /\ asked'[i].email = typed.first /\ asked'[i].password = typed.second
    BY <2>1 DEF AskedTyped
  <2>2. CASE i = n + 1
    BY <1>2, <1>5, <2>2
  <2>3. CASE i # n + 1
    <3>1. i \in 1..n
      BY <1>5, <2>3
    <3> QED
      BY <1>5, <3>1 DEF AskedTyped, n
  <2> QED
    BY <2>2, <2>3
<1>7. back' \in Seq(Byte) /\ back' # << >>
  <2>1. back' \in Seq(Byte) /\ Len(back') = Len(back) + Len(A) /\ Len(back) \in Nat
    BY <1>3, <1>4, ConcatParts
  <2>2. Len(back') # 0
    BY <1>3, <2>1
  <2> QED
    BY <2>1, <2>2, EmptySeq
<1>8. asked = << >> => asked' # << >> /\ asked'[1] = x
  <2> SUFFICES ASSUME asked = << >> PROVE asked' # << >> /\ asked'[1] = x
    OBVIOUS
  <2>1. n = 0
    BY EmptySeq DEF n
  <2>2. Len(asked') # 0
    BY <1>5, <2>1
  <2>3. asked' # << >>
    BY <1>5, <2>2, EmptySeq
  <2>4. asked'[1] = x
    <3>1. n + 1 = 1
      BY <2>1
    <3> QED
      BY <1>5, <3>1
  <2> QED
    BY <2>3, <2>4
<1>9. asked = << >> /\ back = << >> => back' = AnswerTo(Registers(v), asked'[1].outcome, Message)
  <2> SUFFICES ASSUME asked = << >>, back = << >>
               PROVE  back' = AnswerTo(Registers(v), asked'[1].outcome, Message)
    OBVIOUS
  <2>1. back' = A
    BY <1>3, <1>4, ConcatEmptySeq
  <2>2. asked'[1].outcome = outcome
    BY <1>2, <1>8
  <2> QED
    BY <2>1, <2>2 DEF A
<1> QED
  BY <1>2, <1>5, <1>6, <1>7, <1>8, <1>9 DEF n

-----------------------------------------------------------------------------
(* The steps of an account request *)

\* A request that the array holds is sent on if it is an account request; the server then
\* waits for the answer.
LEMMA RequestSentOn ==
  ASSUME Carried, Fits, Account, ReceiveRequest, Holds(array')
  PROVE  stage' = "asked" /\ \E x : Forwarded(x) /\ link' = link \o x
<1> DEFINE r == Decode(array')
           x == Forward(r.buffer, Number, typed.first, typed.second)
<1>1. IsArray(array') /\ typed \in TypedType /\ beyond \in Byte
  BY ReceiveRequestCarried DEF Carried
<1>2. /\ r.id = Id[typed.id] /\ r.first = typed.first /\ r.second = typed.second
  <2>1. Len(typed.first) < 65536 /\ Len(typed.second) < 65536
    BY <1>1, FieldsOf, ByteIsInt
  <2> QED
    BY <1>1, <2>1, DecodeHeld
<1>3. IsBuffer(r.buffer) /\ Len(r.buffer.data) = 128
  BY <1>1, DecodeBuffer DEF IsArray
<1>4. r.id \in {Id.CREATE, Id.AUTHENTICATE} /\ r.id - 3 = Number
  BY <1>1, <1>2, FieldsOf DEF Number
<1>5. /\ stage' = IF r.id \in {Id.CREATE, Id.AUTHENTICATE} THEN "asked" ELSE "serve"
      /\ link' = IF r.id \in {Id.CREATE, Id.AUTHENTICATE}
                 THEN link \o Forward(r.buffer, r.id - 3, r.first, r.second) ELSE link
  BY DEF ReceiveRequest
<1> HIDE DEF r
<1>6. stage' = "asked" /\ link' = link \o x
  BY <1>2, <1>4, <1>5
<1>7. Forwarded(x)
  BY <1>1, <1>3, ForwardIs
<1> QED
  BY <1>6, <1>7

\* Another request is not, and neither is an array in which the server sees no request.
LEMMA RequestNotSentOn ==
  ASSUME ReceiveRequest, Decode(array').id \notin {4, 5}
  PROVE  stage' = "serve" /\ link' = link
<1> DEFINE r == Decode(array')
<1>1. /\ stage' = IF r.id \in {Id.CREATE, Id.AUTHENTICATE} THEN "asked" ELSE "serve"
      /\ link' = IF r.id \in {Id.CREATE, Id.AUTHENTICATE}
                 THEN link \o Forward(r.buffer, r.id - 3, r.first, r.second) ELSE link
  BY DEF ReceiveRequest
<1>2. r.id \notin {Id.CREATE, Id.AUTHENTICATE}
  BY DEF Id
<1> HIDE DEF r
<1> QED
  BY <1>1, <1>2

LEMMA OtherRequest ==
  ASSUME Carried, Fits, ~Account, ReceiveRequest, Holds(array')
  PROVE  stage' = "serve"
<1>1. IsArray(array') /\ typed \in TypedType
  BY ReceiveRequestCarried DEF Carried
<1>2. Decode(array').id = Id[typed.id]
  <2>1. Len(typed.first) < 65536 /\ Len(typed.second) < 65536
    <3> DEFINE f == Len(typed.first)
               s == Len(typed.second)
    <3>1. f \in Nat /\ s \in Nat /\ 16 + f + s <= 128
      BY <1>1, PaddingOf DEF TypedType
    <3> HIDE DEF f, s
    <3>2. f < 65536 /\ s < 65536
      BY <3>1
    <3> QED
      BY <3>2 DEF f, s
  <2> QED
    BY <1>1, <2>1, DecodeHeld
<1>3. Id[typed.id] \notin {4, 5}
  BY <1>1 DEF TypedType, Id, Account
<1> QED
  BY <1>2, <1>3, RequestNotSentOn

LEMMA NotHandled ==
  ASSUME ReceiveRequest, NEW S, handled \in Seq(S), handled' = handled
  PROVE  stage' = "serve" /\ link' = link
<1> DEFINE r == Decode(array')
<1>1. handled' = IF r.id \in 1..5
                 THEN Append(handled, [id |-> r.id, first |-> r.first, second |-> r.second])
                 ELSE handled
  BY DEF ReceiveRequest
<1>2. r.id \notin 1..5
  <2> HIDE DEF r
  <2> SUFFICES ASSUME r.id \in 1..5 PROVE FALSE
    OBVIOUS
  <2> DEFINE x == [id |-> r.id, first |-> r.first, second |-> r.second]
             T == S \cup {x}
  <2>1. handled' = Append(handled, x)
    BY <1>1
  <2>2. handled \in Seq(T) /\ x \in T /\ Len(handled) \in Nat
    <3>1. \A i \in 1..Len(handled) : handled[i] \in T
      BY ElementOfSeq
    <3> QED
      BY <3>1
  <2> HIDE DEF x, T
  <2>3. Len(Append(handled, x)) = Len(handled) + 1
    BY <2>2, AppendProperties
  <2> QED
    BY <2>1, <2>2, <2>3
<1> QED
  BY <1>2, RequestNotSentOn

\* How often a request was taken from the array, and when
LEMMA TimesTaken ==
  ASSUME Carried, Way, Fits
  PROVE  /\ handled \in Seq({Entry}) /\ Len(handled) \in Nat /\ Len(handled) <= 2
         /\ handled = << >> <=> Len(handled) = 0
         /\ Account /\ Fields >= 85 => Len(handled) <= 1
         /\ stage = "serve" /\ handled = << >> => wire = RequestBytes
<1> DEFINE one == <<Entry>>
           two == <<Entry, Entry>>
           n == Len(Padding)
<1>1. handled = << >> \/ handled = one \/ (handled = two /\ n \in 1..4)
  BY DEF Carried, Way
<1>2. one \in Seq({Entry}) /\ two \in Seq({Entry}) /\ Len(one) = 1 /\ Len(two) = 2
  OBVIOUS
<1>3. handled \in Seq({Entry}) /\ Len(handled) \in Nat /\ Len(handled) <= 2
  <2> HIDE DEF one, two
  <2>1. CASE handled = << >>
    BY <2>1, EmptySeq
  <2>2. CASE handled = one
    BY <1>2, <2>2
  <2>3. CASE handled = two
    <3>1. handled \in Seq({Entry}) /\ Len(handled) = 2
      BY <1>2, <2>3, Zenon
    <3> QED
      BY <3>1
  <2> QED
    BY <1>1, <2>1, <2>2, <2>3
<1>4. handled = << >> <=> Len(handled) = 0
  BY <1>3, EmptySeq
<1>5. ASSUME Account, Fields >= 85 PROVE Len(handled) <= 1
  <2> DEFINE L == Length
             f == Len(typed.first)
             s == Len(typed.second)
  <2>1. n = (IF L < 128 THEN 0 ELSE L - 128) /\ L = 48 + f + s /\ f \in Nat /\ s \in Nat
    <3>1. typed \in TypedType /\ f \in Nat /\ s \in Nat
      BY DEF Carried, TypedType
    <3>2. L = (IF typed.id \in {"JOIN", "LEAVE"} THEN 24 ELSE 48) + f + s
      BY <3>1, LengthIs
    <3> QED
      BY <1>5, <3>1, <3>2, PaddingOf DEF Account
  <2>2. f + s >= 85
    BY <1>5 DEF Fields
  <2> HIDE DEF L, f, s, n
  <2>3. n \notin 1..4
    BY <2>1, <2>2
  <2>4. handled = << >> \/ handled = one
    BY <1>1, <2>3
  <2> HIDE DEF one
  <2>5. CASE handled = << >>
    BY <1>4, <2>5
  <2>6. CASE handled = one
    <3>1. Len(handled) = 1
      BY <1>2, <2>6, Zenon
    <3> QED
      BY <3>1
  <2> QED
    BY <2>4, <2>5, <2>6
<1>6. ASSUME stage = "serve", handled = << >> PROVE wire = RequestBytes
  <2>1. one # << >> /\ two # << >>
    BY <1>2, EmptySeq
  <2> QED
    BY <1>6, <2>1 DEF Way
<1> QED
  BY <1>3, <1>4, <1>5, <1>6

\* What is said of bytes is said of them after a step, too.
LEMMA SaidAfter ==
  ASSUME UNCHANGED <<typed, beyond>>
  PROVE  /\ Number' = Number /\ Message' = Message /\ Fields' = Fields
         /\ Account' = Account /\ Fits' = Fits /\ BothSplit' = BothSplit /\ Times' = Times
         /\ Forwarded(link)' = Forwarded(link') /\ Remain(link)' = Remain(link')
         /\ HoldsOn(authArray)' = HoldsOn(authArray')
         /\ Mixed(link)' = Mixed(link')
         /\ IsArray(authArray)' = IsArray(authArray')
         /\ AnswerFits' = AnswerFits /\ LoginSuccess' = LoginSuccess
<1>1. Number' = Number /\ Message' = Message /\ Fields' = Fields
  BY DEF Number, Message, Fields
<1>2. Account' = Account /\ Fits' = Fits /\ BothSplit' = BothSplit /\ Times' = Times
  BY <1>1 DEF Account, Fits, BothSplit, Times
<1>3. Forwarded(link)' = Forwarded(link')
  BY <1>1 DEF Forwarded
<1>4. Remain(link)' = Remain(link')
  BY <1>1 DEF Remain
<1>5. HoldsOn(authArray)' = HoldsOn(authArray')
  BY <1>1 DEF HoldsOn
<1>6. Mixed(link)' = Mixed(link')
  BY <1>1 DEF Mixed
<1>7. IsArray(authArray)' = IsArray(authArray')
  BY DEF IsArray
<1>8. AnswerFits' = AnswerFits /\ LoginSuccess' = LoginSuccess
  BY <1>1 DEF AnswerFits, LoginSuccess
<1> QED
  BY <1>1, <1>2, <1>3, <1>4, <1>5, <1>6, <1>7, <1>8

LEMMA AskedTypedKept ==
  ASSUME UNCHANGED <<typed, asked>>, AskedTyped
  PROVE  AskedTyped'
<1>1. Number' = Number /\ Fields' = Fields
  BY DEF Number, Fields
<1> QED
  BY <1>1 DEF AskedTyped

LEMMA OnwardKept ==
  ASSUME Onward, UNCHANGED <<typed, beyond, stage, handled, link, authArray, asked, back>>
  PROVE  Onward'
<1>1. AskedGood => AskedGood'
  BY SaidAfter, AskedTypedKept DEF AskedGood
<1>2. Unasked' = Unasked /\ Answering' = Answering /\ First' = First
  BY DEF Unasked, Answering, First
<1>3. InOrder' = InOrder
  BY <1>2, SaidAfter DEF InOrder
<1>4. Few(link)' = Few(link)
  BY DEF Few
<1>5. Shifting' = Shifting
  <2>1. Left' = Left /\ Stuck' = Stuck
    BY DEF Left, Stuck, LongAnswer
  <2> QED
    BY <1>2, <1>4, <2>1, SaidAfter DEF Shifting, FirstOn, SecondPiece, Together, Through
<1>6. Cut' = Cut
  BY SaidAfter DEF Cut
<1>7. Passing' = Passing
  BY <1>2, <1>3, <1>5, <1>6, SaidAfter DEF Passing
<1> QED
  BY <1>1, <1>7, SaidAfter DEF Onward

\* The second forwarded request behind the rest of the first one
LEMMA RestInFront ==
  ASSUME typed \in TypedType, Account, Fits, BothSplit, NEW q, Remain(q), NEW x, Forwarded(x)
  PROVE  Mixed(q \o x)
<1> DEFINE F == Fields
           r == Len(q)
           y == q \o x
           n == Number
<1>1. q \in Seq(Byte) /\ r = F - 82 /\ x \in Seq(Byte) /\ Len(x) = 46 + F /\ HasInt(x, 4, n)
      /\ F \in 83..84
  BY DEF Remain, Forwarded, BothSplit
<1>2. /\ y \in Seq(Byte) /\ Len(y) = r + Len(x)
      /\ \A k \in 1..Len(x) : y[r + k] = x[k]
  BY <1>1, ConcatParts
<1>3. x[5] = n /\ n # 0
  <2>1. n \in 0..255 /\ n # 0
    BY FieldsOf
  <2>2. Shifted(n, 0) = n
    BY <2>1, SmallBytes
  <2>3. x[4 + 1] = Shifted(n, 1 - 1)
    BY <1>1 DEF HasInt
  <2> QED
    BY <2>1, <2>2, <2>3
<1> HIDE DEF F, n, y, r
<1>4. Len(y) = 2 * F - 36
  BY <1>1, <1>2
<1>5. r \in 1..2 /\ 5 \in 1..Len(x)
  BY <1>1
<1>6. y[r + 5] = n
  BY <1>2, <1>3, <1>5
<1>7. y[6] # 0 \/ y[7] # 0
  <2>1. r + 5 = 6 \/ r + 5 = 7
    BY <1>5
  <2> QED
    BY <1>3, <1>6, <2>1
<1>8. NoId(y)
  BY <1>7, IdBytes
<1> QED
  BY <1>2, <1>4, <1>8 DEF Mixed, y, F

\* Something that was forwarded is longer than a rest.
LEMMA NoSuchRest ==
  ASSUME typed \in TypedType, Account, Fits
  PROVE  /\ ~Forwarded(<< >>) /\ ~Remain(<< >>)
         /\ \A q : ~(Forwarded(q) /\ Remain(q))
<1> DEFINE F == Fields
           e == << >>
<1>1. F \in Nat
  BY FieldsOf
<1>2. Len(e) = 0
  BY EmptySeq
<1>3. \A q : (Forwarded(q) => Len(q) = 46 + F) /\ (Remain(q) => F > 82 /\ Len(q) = F - 82)
  BY DEF Forwarded, Remain
<1> HIDE DEF F, e
<1>4. ~Forwarded(e) /\ ~Remain(e)
  BY <1>1, <1>2, <1>3
<1>5. \A q : ~(Forwarded(q) /\ Remain(q))
  BY <1>1, <1>3
<1> QED
  BY <1>4, <1>5 DEF e

LEMMA FirstSentOn ==
  ASSUME Carried, Fits, Account, ReceiveRequest, Onward, handled = << >>, wire = RequestBytes
  PROVE  Onward'
<1>1. typed \in TypedType /\ UNCHANGED <<typed, beyond, authArray, asked, back>>
  BY DEF Carried, ReceiveRequest
<1>2. handled' = <<Entry>> /\ Holds(array')
  BY FirstWay
<1>3. /\ AskedGood
      /\ link = << >> /\ asked = << >> /\ back = << >>
  BY DEF Onward, Passing, Unasked
<1>4. link \in Seq(Byte)
  BY <1>3, EmptySeq
<1>5. PICK x : Forwarded(x) /\ link' = link \o x
  BY <1>2, RequestSentOn
<1>6. stage' = "asked"
  BY <1>2, RequestSentOn
<1>7. Forwarded(link')
  <2>1. x \in Seq(Byte)
    BY <1>5 DEF Forwarded
  <2>2. link' = x
    BY <1>3, <1>5, <2>1, ConcatEmptySeq
  <2> QED
    BY <1>5, <2>2
<1>8. Len(handled') = 1 /\ handled' # << >> /\ Len(asked') = 0
  <2>1. Len(<<Entry>>) = 1
    OBVIOUS
  <2> QED
    BY <1>1, <1>2, <1>3, <2>1, EmptySeq
<1>9. AskedGood'
  BY <1>1, <1>3, SaidAfter, AskedTypedKept DEF AskedGood
<1>10. First'
  BY <1>1, <1>3, <1>6 DEF First
<1>11. InOrder'
  BY <1>1, <1>7, <1>8, <1>10, SaidAfter DEF InOrder
<1>12. Shifting'
  BY <1>1, <1>7, <1>8, <1>10, SaidAfter DEF Shifting, FirstOn
<1>13. Cut'
  BY <1>1, <1>3, <1>6, <1>7, SaidAfter DEF Cut
<1> QED
  BY <1>8, <1>9, <1>11, <1>12, <1>13 DEF Onward, Passing

LEMMA SecondSentOn ==
  ASSUME Carried, Fits, Account, ReceiveRequest, Onward, handled = <<Entry>>, wire = Padding,
         Holds(array)
  PROVE  Onward'
<1>1. /\ typed \in TypedType /\ UNCHANGED <<typed, beyond, authArray, asked, back>>
      /\ stage = "serve"
  BY DEF Carried, ReceiveRequest
<1>2. /\ Len(Padding) > 0 /\ (Len(Padding) \in 1..4 => Holds(array'))
      /\ handled' = IF Len(Padding) \in 1..4 THEN <<Entry, Entry>> ELSE <<Entry>>
  BY SecondWay
<1>3. CASE Len(Padding) \notin 1..4
  <2>1. handled' = handled /\ handled \in Seq({Entry})
    BY <1>2, <1>3
  <2>2. stage' = stage /\ link' = link
    BY <1>1, <2>1, NotHandled
  <2> QED
    BY <1>1, <2>1, <2>2, OnwardKept
<1>4. CASE Len(Padding) \in 1..4
  <2>1. handled' = <<Entry, Entry>> /\ Holds(array')
    BY <1>2, <1>4
  <2>2. stage' = "asked"
    BY <2>1, RequestSentOn
  <2>3. PICK x : Forwarded(x) /\ link' = link \o x
    BY <2>1, RequestSentOn
  <2>4. Fields \in 81..84
    <3> DEFINE L == Length
               f == Len(typed.first)
               s == Len(typed.second)
               n == Len(Padding)
    <3>1. n = (IF L < 128 THEN 0 ELSE L - 128) /\ L = 48 + f + s /\ f \in Nat /\ s \in Nat
      <4>1. f \in Nat /\ s \in Nat
        BY <1>1 DEF TypedType
      <4>2. L = (IF typed.id \in {"JOIN", "LEAVE"} THEN 24 ELSE 48) + f + s
        BY <1>1, LengthIs
      <4> QED
        BY <4>1, <4>2, PaddingOf DEF Account
    <3>2. n \in 1..4
      BY <1>4
    <3> HIDE DEF L, f, s, n
    <3>3. f + s \in 81..84
      BY <3>1, <3>2
    <3> QED
      BY <3>3 DEF Fields, f, s
  <2>5. /\ Len(handled) = 1 /\ Len(handled') = 2 /\ handled # << >> /\ handled' # << >>
    <3> DEFINE one == <<Entry>>
               two == <<Entry, Entry>>
    <3>1. Len(one) = 1 /\ Len(two) = 2
      OBVIOUS
    <3>2. one # << >> /\ two # << >>
      BY <3>1, EmptySeq
    <3> QED
      BY <2>1, <3>1, <3>2
  <2>6. ~First
    BY <1>1, <2>5 DEF First
  <2>7. First'
    BY <2>5 DEF First
  <2>8. AskedGood /\ AskedGood'
    <3>1. AskedGood
      BY DEF Onward
    <3> QED
      BY <1>1, <3>1, SaidAfter, AskedTypedKept DEF AskedGood
  <2>9. ASSUME link = << >> PROVE Forwarded(link')
    <3>1. x \in Seq(Byte)
      BY <2>3 DEF Forwarded
    <3>2. link' = x
      BY <2>3, <2>9, <3>1, ConcatEmptySeq
    <3> QED
      BY <2>3, <3>2
  <2>10. CASE BothSplit
    <3>1. Shifting
      BY <2>4, <2>5, <2>10 DEF Onward, Passing, BothSplit
    <3>2. SecondPiece \/ Through
      BY <2>5, <2>6, <3>1 DEF Shifting, FirstOn, Together
    <3>3. ASSUME SecondPiece PROVE Shifting'
      <4>1. Remain(link) /\ Len(asked) = 1 /\ (back # << >> <=> LongAnswer)
        BY <1>1, <2>5, <3>3 DEF SecondPiece, Left
      <4>2. Mixed(link')
        BY <1>1, <2>3, <2>10, <4>1, RestInFront
      <4>3. Stuck'
        BY <1>1, <2>2, <4>1 DEF Stuck, LongAnswer
      <4>4. Together'
        BY <1>1, <2>5, <4>1, <4>2, <4>3, SaidAfter DEF Together
      <4> QED
        BY <4>4 DEF Shifting
    <3>4. ASSUME Through PROVE Shifting'
      <4>1. Forwarded(link') /\ Len(asked) = 2
        BY <2>5, <2>9, <3>4 DEF Through
      <4>2. FirstOn'
        BY <1>1, <2>5, <2>7, <4>1, SaidAfter DEF FirstOn
      <4> QED
        BY <4>2 DEF Shifting
    <3>5. Shifting'
      BY <3>2, <3>3, <3>4
    <3>6. BothSplit' /\ Fields' = Fields
      BY <1>1, <2>10, SaidAfter
    <3>7. Fields \in Int
      BY <2>4
    <3>8. Passing'
      BY <2>4, <2>5, <3>5, <3>6, <3>7 DEF Passing
    <3> QED
      BY <2>8, <3>8 DEF Onward
  <2>11. CASE ~BothSplit
    <3>1. InOrder
      BY <2>4, <2>5, <2>11 DEF Onward, Passing
    <3>2. Fields \in 81..82 /\ Times = 1
      BY <2>4, <2>11 DEF BothSplit, Times
    <3>3. ~Remain(link)
      BY <3>2 DEF Remain
    <3>4. link = << >> /\ Len(asked) = Len(handled) * Times
      BY <2>6, <3>1, <3>2, <3>3 DEF InOrder
    <3>5. Len(asked') = 1
      BY <1>1, <2>5, <3>2, <3>4
    <3>6. InOrder'
      <4>1. Forwarded(link') /\ Len(asked') = Len(handled') - 1
        BY <2>5, <2>9, <3>4, <3>5
      <4> QED
        BY <1>1, <2>7, <4>1, SaidAfter DEF InOrder
    <3>7. ~BothSplit' /\ Fields' = Fields
      BY <1>1, <2>11, SaidAfter
    <3>8. Passing'
      BY <2>4, <2>5, <3>6, <3>7 DEF Passing
    <3> QED
      BY <2>8, <3>8 DEF Onward
  <2> QED
    BY <2>10, <2>11
<1> QED
  BY <1>3, <1>4

\* What receiving what was forwarded does to the array and the link
LEMMA Arrives ==
  ASSUME ReceiveForwarded
  PROVE  /\ link # << >> /\ UNCHANGED <<typed, beyond, stage, handled>>
         /\ authArray' = Overlay(authArray, Piece(link)) /\ link' = Rest(link)
BY DEF ReceiveForwarded

\* The message of the array is taken under its own message id.
LEMMA TakesOwn ==
  ASSUME beyond \in Byte, typed \in TypedType, Account, Fits, ReceiveForwarded, AskedGood,
         IsArray(authArray'), HoldsOn(authArray')
  PROVE  /\ AskedGood' /\ Len(asked') = Len(asked) + 1 /\ asked' # << >> /\ back' # << >>
         /\ asked = << >> /\ back = << >> =>
              /\ asked'[1].outcome \in Outcome
              /\ back' = AnswerTo(Registers(Number), asked'[1].outcome, Message)
<1>1. /\ Number \in Int /\ 0 <= Number /\ Number < 65536 /\ Number \in {1, 2}
      /\ HasInt(authArray', 4, Number) /\ HasText(authArray', 8, Message)
  BY MessageLength DEF HoldsOn
<1>2. Asks(Number)
  BY <1>1, TakesMessage
<1>3. asked \in Seq(AskedType) /\ AskedTyped /\ back \in Seq(Byte) /\ UNCHANGED <<typed, beyond>>
  BY Arrives DEF AskedGood
<1>4. /\ asked' \in Seq(AskedType) /\ Len(asked') = Len(asked) + 1 /\ AskedTyped'
      /\ back' \in Seq(Byte) /\ back' # << >>
      /\ asked = << >> /\ back = << >> =>
           /\ asked'[1].outcome \in Outcome
           /\ back' = AnswerTo(Registers(Number), asked'[1].outcome, Message)
  BY <1>1, <1>2, <1>3, AsksOne
<1>5. asked' # << >>
  <2>1. Len(asked) \in Nat
    BY <1>3
  <2>2. Len(asked') # 0
    BY <1>4, <2>1
  <2> QED
    BY <2>2, EmptySeq
<1> QED
  BY <1>3, <1>4, <1>5, SaidAfter DEF AskedGood

LEMMA TakesNone ==
  ASSUME ReceiveForwarded, AskedGood, IsArray(authArray'), UNCHANGED <<asked, back>>
  PROVE  AskedGood'
BY Arrives, SaidAfter, AskedTypedKept DEF AskedGood

\* The first forwarded request is not followed by another, or each is by itself.
LEMMA ArrivesInOrder ==
  ASSUME Carried, Way, Fits, Account, ReceiveForwarded, AskedGood, InOrder,
         handled # << >>, Fields <= 110, ~BothSplit
  PROVE  AskedGood' /\ InOrder'
<1> DEFINE n == Len(handled)
           a == Len(asked)
<1>1. /\ typed \in TypedType /\ beyond \in Byte /\ IsArray(authArray)
      /\ UNCHANGED <<typed, beyond, stage, handled>> /\ link # << >>
      /\ authArray' = Overlay(authArray, Piece(link)) /\ link' = Rest(link)
  BY Arrives DEF Carried, AskedGood
<1>2. Fields \in Nat /\ Fields <= 110 /\ Fields \notin 83..84 /\ n \in Nat /\ a \in Nat
  <2>1. Fields \in Nat
    BY <1>1, FieldsOf
  <2>2. n \in Nat
    BY TimesTaken
  <2>3. a \in Nat
    BY DEF AskedGood
  <2> QED
    BY <2>1, <2>2, <2>3 DEF BothSplit
<1>3. CASE Forwarded(link) /\ Len(asked) = Len(handled) - 1 /\ First
  <2>1. IsArray(authArray') /\ HoldsOn(authArray')
    BY <1>1, <1>2, <1>3, FirstArrives
  <2>2. AskedGood' /\ Len(asked') = a + 1 /\ back' # << >>
    BY <1>1, <2>1, TakesOwn
  <2>3. Len(asked') = Len(handled') /\ Answering'
    <3> HIDE DEF a, n
    <3>1. a = n - 1
      BY <1>3 DEF a, n
    <3>2. Len(asked') = n
      BY <1>2, <2>2, <3>1
    <3> QED
      BY <1>1, <2>2, <3>2 DEF n, Answering
  <2>4. CASE Fields <= 82
    <3>1. link' = << >>
      BY <1>1, <1>3, <2>4, FirstArrives
    <3>2. Times = 1
      BY <1>2, <2>4 DEF Times
    <3>3. Len(asked') = Len(handled') * Times
      BY <1>1, <1>2, <2>3, <3>2
    <3> QED
      BY <1>1, <2>2, <2>3, <3>1, <3>3, SaidAfter DEF InOrder
  <2>5. CASE ~(Fields <= 82)
    <3>1. Fields \in 83..110
      BY <1>2, <2>5
    <3>2. Remain(link')
      BY <1>1, <1>3, <3>1, FirstArrives
    <3> QED
      BY <1>1, <2>1, <2>2, <2>3, <3>2, SaidAfter DEF InOrder
  <2> QED
    BY <2>4, <2>5
<1>4. CASE Remain(link) /\ HoldsOn(authArray) /\ Len(asked) = Len(handled) /\ Answering
  <2>1. IsArray(authArray') /\ link' = << >>
    BY <1>1, <1>2, <1>4, RestArrives
  <2>2. Fields >= 85 /\ n <= 1
    <3>1. Fields > 82
      BY <1>4 DEF Remain
    <3>2. Fields >= 85
      BY <1>2, <3>1
    <3> QED
      BY <3>2, TimesTaken
  <2>3. a = n
    BY <1>4
  <2>4. n = 1
    <3>1. n # 0
      BY TimesTaken
    <3> HIDE DEF n
    <3> QED
      BY <1>2, <2>2, <3>1
  <2>5. CASE Fields <= 86
    <3>1. HoldsOn(authArray')
      BY <1>1, <1>2, <1>4, <2>5, RestArrives
    <3>2. AskedGood' /\ Len(asked') = a + 1 /\ back' # << >>
      BY <1>1, <2>1, <3>1, TakesOwn
    <3>3. Times = 2
      BY <1>2, <2>2, <2>5 DEF Times
    <3>4. Len(asked') = Len(handled') * Times
      <4> HIDE DEF a, n
      <4>1. Len(asked') = n * 2
        BY <1>2, <2>3, <2>4, <3>2
      <4> QED
        BY <1>1, <3>3, <4>1 DEF n
    <3> QED
      BY <1>1, <2>1, <3>2, <3>4, SaidAfter DEF InOrder, Answering
  <2>6. CASE Fields = 87
    <3>1. HasInt(authArray', 4, beyond) /\ HasText(authArray', 8, Message)
      BY <1>1, <1>2, <1>4, <2>6, RestArrives
    <3>2. beyond \in Int /\ 0 <= beyond /\ beyond < 65536
      BY <1>1, ByteIsInt
    <3>3. Asks(beyond) \/ UNCHANGED <<asked, back>>
      BY <1>1, <2>1, <3>1, <3>2, TakesMessage
    <3>4. CASE Asks(beyond)
      <4>1. asked \in Seq(AskedType) /\ AskedTyped /\ back \in Seq(Byte)
        BY DEF AskedGood
      <4>2. /\ asked' \in Seq(AskedType) /\ AskedTyped'
            /\ back' \in Seq(Byte) /\ back' # << >>
        BY <1>1, <2>6, <3>2, <3>4, <4>1, AsksOne
      <4>3. AskedGood'
        BY <1>1, <2>1, <4>2, SaidAfter DEF AskedGood
      <4> QED
        BY <1>1, <2>1, <2>6, <4>2, <4>3, SaidAfter DEF InOrder, Answering
    <3>5. CASE UNCHANGED <<asked, back>>
      <4>1. AskedGood'
        BY <2>1, <3>5, TakesNone
      <4> QED
        BY <1>1, <1>4, <2>1, <2>6, <3>5, <4>1, SaidAfter DEF InOrder, Answering
    <3> QED
      BY <3>3, <3>4, <3>5
  <2>7. CASE Fields > 87
    <3>1. NoId(authArray')
      BY <1>1, <1>2, <1>4, <2>7, RestArrives
    <3>2. UNCHANGED <<asked, back>>
      BY <2>1, <3>1, NoIdTaken, TakesNothing
    <3>3. AskedGood'
      BY <2>1, <3>2, TakesNone
    <3>4. Times = 1
      BY <1>2, <2>7 DEF Times
    <3>5. Len(asked') = Len(handled') * Times
      <4> HIDE DEF a, n
      <4>1. Len(asked') = n * 1
        BY <1>2, <2>3, <3>2 DEF a
      <4> QED
        BY <1>1, <3>4, <4>1 DEF n
    <3> QED
      BY <1>1, <1>4, <2>1, <3>2, <3>3, <3>5, SaidAfter DEF InOrder, Answering
  <2> QED
    BY <1>2, <2>5, <2>6, <2>7
<1> QED
  BY <1>1, <1>3, <1>4 DEF InOrder

\* Only the answer to a short password fits in one piece.
LEMMA AnswerIsLong ==
  ASSUME beyond \in Byte, typed \in TypedType, Account, Fits, BothSplit, NEW outcome \in Outcome
  PROVE  Len(AnswerTo(Registers(Number), outcome, Message)) > 128 <=> outcome # "short"
<1> DEFINE F == Fields
           M == Message
           register == Registers(Number)
           n == Len(AnswerTo(register, outcome, M))
<1>1. M \in Seq(Byte) /\ Len(M) = 6 + F /\ F \in 83..84
  BY MessageLength DEF BothSplit
<1> HIDE DEF M, register
<1>2. /\ outcome = "ok" => n = 49 + Len(M)
      /\ outcome = "failed" => n = 46 + Len(M)
      /\ outcome = "short" => n = 50
  BY <1>1, AnswerLength
<1>3. outcome \in {"ok", "failed", "short"}
  BY DEF Outcome
<1> HIDE DEF n, F
<1>4. n > 128 <=> outcome # "short"
  BY <1>1, <1>2, <1>3
<1> QED
  BY <1>4 DEF n, M, register

\* The rest of the first forwarded request may come in front of the second one.
LEMMA ArrivesShifted ==
  ASSUME Carried, Way, Fits, Account, ReceiveForwarded, AskedGood, Shifting, BothSplit
  PROVE  AskedGood' /\ Shifting'
<1>1. /\ typed \in TypedType /\ beyond \in Byte /\ IsArray(authArray)
      /\ UNCHANGED <<typed, beyond, stage, handled>> /\ link # << >>
      /\ authArray' = Overlay(authArray, Piece(link)) /\ link' = Rest(link)
  BY Arrives DEF Carried, AskedGood
<1>2. Fields \in 83..84 /\ Fields <= 110 /\ Fields \in 83..110
  BY DEF BothSplit
<1>7. Len(handled) \in Nat /\ Len(asked) \in Nat /\ asked \in Seq(AskedType)
  BY TimesTaken DEF AskedGood
<1>3. CASE FirstOn
  <2>0. Forwarded(link) /\ First /\ Len(asked) = 2 * (Len(handled) - 1)
    BY <1>3 DEF FirstOn
  <2>1. IsArray(authArray') /\ HoldsOn(authArray') /\ Remain(link')
    BY <1>1, <1>2, <2>0, FirstArrives
  <2>2. /\ AskedGood' /\ Len(asked') = Len(asked) + 1 /\ back' # << >>
        /\ asked = << >> /\ back = << >> =>
             /\ asked'[1].outcome \in Outcome
             /\ back' = AnswerTo(Registers(Number), asked'[1].outcome, Message)
    BY <1>1, <2>1, TakesOwn
  <2>3. Len(asked') = 2 * Len(handled') - 1
    BY <1>1, <1>7, <2>0, <2>2
  <2>4. Answering'
    BY <2>2 DEF Answering
  <2>5. ASSUME Len(handled') = 1 PROVE Left'
    <3>1. stage = "asked" /\ back = << >>
      BY <1>1, <2>0, <2>5 DEF First
    <3>2. Len(asked) = 0
      BY <1>1, <2>0, <2>5
    <3>3. asked = << >>
      BY <1>7, <3>2, EmptySeq
    <3>4. Len(back') > 128 <=> asked'[1].outcome # "short"
      BY <1>1, <2>2, <3>1, <3>3, AnswerIsLong
    <3> QED
      BY <1>1, <3>1, <3>4 DEF Left, LongAnswer
  <2>6. SecondPiece'
    BY <1>1, <2>1, <2>3, <2>4, <2>5, SaidAfter DEF SecondPiece
  <2> QED
    BY <2>2, <2>6 DEF Shifting
<1>4. CASE SecondPiece
  <2>1. IsArray(authArray') /\ HoldsOn(authArray') /\ link' = << >>
    BY <1>1, <1>2, <1>4, RestArrives DEF SecondPiece
  <2>2. AskedGood' /\ Len(asked') = Len(asked) + 1 /\ back' # << >>
    BY <1>1, <2>1, TakesOwn
  <2>3. Len(asked') = 2 * Len(handled')
    BY <1>1, <1>4, <1>7, <2>2 DEF SecondPiece
  <2>4. Through'
    BY <2>1, <2>2, <2>3 DEF Through, Answering
  <2> QED
    BY <2>2, <2>4 DEF Shifting
<1>5. CASE Together /\ Mixed(link)
  <2>1. link \in Seq(Byte) /\ Len(link) = 2 * Fields - 36 /\ NoId(link)
    BY <1>5 DEF Mixed
  <2>2. Len(link) >= 128 /\ 8 <= Len(link)
    BY <1>2, <2>1
  <2>3. IsArray(authArray') /\ SameIn(authArray', link, 0, 128)
    BY <1>1, <2>1, <2>2, Received
  <2>4. NoId(authArray')
    <3> DEFINE i == 0
               j == 128
    <3>1. i \in Nat /\ j \in Nat /\ i <= 4 /\ 8 <= j /\ SameIn(authArray', link, i, j)
      BY <2>3
    <3> HIDE DEF i, j
    <3> QED
      BY <2>1, <2>2, <3>1, NoIdIn
  <2>5. UNCHANGED <<asked, back>>
    BY <2>3, <2>4, NoIdTaken, TakesNothing
  <2>6. AskedGood'
    BY <2>3, <2>5, TakesNone
  <2>7. link' \in Seq(Byte) /\ Len(link') <= 4
    <3> DEFINE m == Len(link')
               n == Len(link)
    <3>1. link' \in Seq(Byte) /\ m = (IF n < 128 THEN 0 ELSE n - 128)
      BY <1>1, <2>1, RestOf
    <3> HIDE DEF m, n
    <3>2. m <= 4
      BY <1>2, <2>1, <3>1 DEF n
    <3> QED
      BY <3>1, <3>2 DEF m
  <2>8. Stuck'
    BY <1>1, <1>5, <2>5 DEF Together, Stuck, LongAnswer
  <2>9. Few(link)'
    BY <2>4, <2>7 DEF Few, NoId
  <2>10. Together'
    BY <1>1, <1>5, <2>5, <2>8, <2>9 DEF Together
  <2> QED
    BY <2>6, <2>10 DEF Shifting
<1>6. CASE Together /\ Few(link)
  <2>1. link \in Seq(Byte) /\ Len(link) <= 4 /\ NoId(authArray) /\ Len(link) \in Nat
    BY <1>6 DEF Few
  <2>2. Len(link) < 128 /\ Len(link) <= 128
    BY <2>1
  <2>3. IsArray(authArray') /\ SameIn(authArray', authArray, Len(link), 128) /\ link' = << >>
    BY <1>1, <2>1, <2>2, Received
  <2>4. NoId(authArray')
    <3> DEFINE i == Len(link)
               j == 128
    <3>1. i \in Nat /\ j \in Nat /\ i <= 4 /\ 8 <= j /\ SameIn(authArray', authArray, i, j)
      BY <2>1, <2>3
    <3>2. 8 <= Len(authArray)
      BY <1>1 DEF IsArray
    <3> HIDE DEF i, j
    <3> QED
      BY <2>1, <3>1, <3>2, NoIdIn
  <2>5. UNCHANGED <<asked, back>>
    BY <2>3, <2>4, NoIdTaken, TakesNothing
  <2>6. AskedGood'
    BY <2>3, <2>5, TakesNone
  <2>7. Stuck'
    BY <1>1, <1>6, <2>5 DEF Together, Stuck, LongAnswer
  <2>8. Together'
    BY <1>1, <1>6, <2>3, <2>5, <2>7 DEF Together
  <2> QED
    BY <2>6, <2>8 DEF Shifting
<1> QED
  BY <1>1, <1>3, <1>4, <1>5, <1>6 DEF Shifting, Together, Through

\* A message that is cut is not taken, and neither is its rest.
LEMMA ArrivesCut ==
  ASSUME Carried, Fits, Account, ReceiveForwarded, AskedGood, Cut, Fields > 110
  PROVE  AskedGood' /\ Cut'
<1>1. /\ typed \in TypedType /\ IsArray(authArray)
      /\ UNCHANGED <<typed, beyond, stage, handled>> /\ link # << >>
      /\ authArray' = Overlay(authArray, Piece(link)) /\ link' = Rest(link)
  BY Arrives DEF Carried, AskedGood
<1>2. Fields \in Nat /\ Fields <= 112
  BY <1>1, FieldsOf
<1>3. CASE Forwarded(link)
  <2>1. /\ IsArray(authArray') /\ BeginsOn(authArray') /\ link' \in Seq(Byte)
        /\ Len(link') = Fields - 82 /\ \A k \in 5..8 : link'[k] = 0
    BY <1>1, <1>3, FirstArrives
  <2>2. UNCHANGED <<asked, back>>
    BY <1>1, <2>1, CutText, TakesNothing
  <2>3. AskedGood'
    BY <2>1, <2>2, TakesNone
  <2> QED
    BY <1>1, <2>1, <2>2, <2>3, SaidAfter DEF Cut
<1>4. CASE link \in Seq(Byte) /\ Len(link) = Fields - 82 /\ \A k \in 5..8 : link[k] = 0
  <2> DEFINE n == Len(link)
  <2>1. n \in Nat /\ 8 <= n /\ n < 128
    BY <1>2, <1>4
  <2>2. IsArray(authArray') /\ SameIn(authArray', link, 0, n) /\ link' = << >>
    BY <1>1, <1>4, <2>1, Received
  <2>3. NoId(link)
    <3>1. link[4 + 1] = 0
      BY <1>4
    <3>2. Shifted(1, 0) = 1 /\ Shifted(2, 0) = 2
      <4> DEFINE x == 1
                 y == 2
      <4>1. x \in 0..255 /\ y \in 0..255
        OBVIOUS
      <4> HIDE DEF x, y
      <4>2. Shifted(x, 0) = x /\ Shifted(y, 0) = y
        BY <4>1, SmallBytes
      <4> QED
        BY <4>2 DEF x, y
    <3>3. 1 \in 1..4 /\ 1 - 1 = 0
      OBVIOUS
    <3>4. ~HasInt(link, 4, 1)
      BY <3>1, <3>2, <3>3 DEF HasInt
    <3>5. ~HasInt(link, 4, 2)
      BY <3>1, <3>2, <3>3 DEF HasInt
    <3> QED
      BY <3>4, <3>5 DEF NoId
  <2>4. NoId(authArray')
    <3> DEFINE i == 0
    <3>1. i \in Nat /\ i <= 4 /\ SameIn(authArray', link, i, n)
      BY <2>2
    <3> HIDE DEF i
    <3> QED
      BY <2>1, <2>3, <3>1, NoIdIn
  <2>5. UNCHANGED <<asked, back>>
    BY <2>2, <2>4, NoIdTaken, TakesNothing
  <2>6. AskedGood'
    BY <2>2, <2>5, TakesNone
  <2> QED
    BY <1>1, <2>2, <2>5, <2>6 DEF Cut
<1> QED
  BY <1>1, <1>3, <1>4 DEF Cut

LEMMA ForwardedOnward ==
  ASSUME Carried, Way, Onward, ReceiveForwarded
  PROVE  Onward'
<1>1. UNCHANGED <<typed, beyond, stage, handled>> /\ link # << >>
  BY Arrives
<1> SUFFICES ASSUME Account, Fits PROVE AskedGood' /\ Passing'
  BY <1>1, SaidAfter DEF Onward
<1>2. AskedGood /\ handled # << >>
  BY <1>1 DEF Onward, Passing, Unasked
<1>3. Fields \in Nat /\ Fields' = Fields /\ BothSplit' = BothSplit
  BY <1>1, SaidAfter, FieldsOf DEF Carried
<1>4. CASE Fields <= 110 /\ BothSplit
  <2>1. Shifting
    BY <1>2, <1>4 DEF Onward, Passing
  <2>2. AskedGood' /\ Shifting'
    BY <1>2, <1>4, <2>1, ArrivesShifted
  <2> QED
    BY <1>1, <1>2, <1>3, <1>4, <2>2 DEF Passing
<1>5. CASE Fields <= 110 /\ ~BothSplit
  <2>1. InOrder
    BY <1>2, <1>5 DEF Onward, Passing
  <2>2. AskedGood' /\ InOrder'
    BY <1>2, <1>5, <2>1, ArrivesInOrder
  <2> QED
    BY <1>1, <1>2, <1>3, <1>5, <2>2 DEF Passing
<1>6. CASE Fields > 110
  <2>1. Cut
    BY <1>2, <1>6 DEF Onward, Passing
  <2>2. AskedGood' /\ Cut'
    BY <1>2, <1>6, <2>1, ArrivesCut
  <2> QED
    BY <1>1, <1>2, <1>3, <1>6, <2>2 DEF Passing
<1> QED
  BY <1>3, <1>4, <1>5, <1>6

LEMMA AnswerOnward ==
  ASSUME Carried, Way, Onward, ReceiveAnswer
  PROVE  Onward'
<1>1. /\ UNCHANGED <<typed, beyond, handled, link, authArray, asked>>
      /\ stage = "asked" /\ stage' = "serve" /\ back # << >> /\ back' = Rest(back)
  BY DEF ReceiveAnswer
<1> SUFFICES ASSUME Account, Fits PROVE AskedGood' /\ Passing'
  BY <1>1, SaidAfter DEF Onward
<1>2. AskedGood /\ handled # << >> /\ ~Cut
  BY <1>1 DEF Onward, Passing, Unasked, Cut
<1>3. Fields \in Nat /\ Fields' = Fields /\ BothSplit' = BothSplit
  BY <1>1, SaidAfter, FieldsOf DEF Carried
<1>4. AskedGood'
  <2>1. Rest(back) \in Seq(Byte)
    BY <1>2, RestOf DEF AskedGood
  <2> QED
    BY <1>1, <1>2, <2>1, SaidAfter, AskedTypedKept DEF AskedGood
<1>5. Answering' /\ (First => First')
  BY <1>1 DEF Answering, First
<1>6. Shifting => Shifting'
  <2>1. Few(link)' = Few(link)
    BY <1>1 DEF Few, NoId
  <2>2. back' # << >> <=> Len(back) > 128
    <3> DEFINE n == Len(back)
               m == Len(back')
    <3>1. /\ m = (IF n < 128 THEN 0 ELSE n - 128) /\ n \in Nat
          /\ (back' = << >> <=> m = 0)
      BY <1>1, <1>2, RestOf, EmptySeq DEF AskedGood
    <3> HIDE DEF n, m
    <3>2. m # 0 <=> n > 128
      BY <3>1
    <3> QED
      BY <3>1, <3>2 DEF n
  <2>3. Left => Left'
    BY <1>1, <2>2 DEF Left, LongAnswer
  <2>4. Stuck => Stuck'
    BY <1>1 DEF Stuck, LongAnswer
  <2>5. FirstOn => FirstOn'
    BY <1>1, <1>5, SaidAfter DEF FirstOn
  <2>6. SecondPiece => SecondPiece'
    BY <1>1, <1>5, <2>3, SaidAfter DEF SecondPiece
  <2>7. Together => Together'
    BY <1>1, <2>1, <2>4, SaidAfter DEF Together
  <2>8. Through => Through'
    BY <1>1, <1>5 DEF Through
  <2> QED
    BY <2>5, <2>6, <2>7, <2>8 DEF Shifting
<1>7. InOrder => InOrder'
  BY <1>1, <1>5, SaidAfter DEF InOrder
<1> QED
  BY <1>1, <1>2, <1>3, <1>4, <1>6, <1>7 DEF Onward, Passing

LEMMA RequestOnward ==
  ASSUME Carried, Way, Onward, ReceiveRequest
  PROVE  Onward'
<1>1. UNCHANGED <<typed, beyond>> /\ stage = "serve" /\ wire # << >>
  BY DEF ReceiveRequest
<1> SUFFICES ASSUME Account, Fits PROVE Onward'
  BY <1>1, SaidAfter DEF Onward
<1>2. \/ wire = RequestBytes /\ handled = << >>
      \/ wire = Padding /\ handled = <<Entry>> /\ Holds(array)
  BY <1>1 DEF Way
<1> QED
  BY <1>2, FirstSentOn, SecondSentOn

\* Before the request
LEMMA NotYetOnward ==
  ASSUME Carried, Onward, stage \in {"name", "request"}, stage' \in {"request", "serve"},
         UNCHANGED <<typed, beyond, handled, link, authArray, asked, back>>
  PROVE  Onward'
<1> SUFFICES ASSUME Account, Fits PROVE AskedGood' /\ Passing'
  BY SaidAfter DEF Onward
<1>1. handled = << >>
  BY DEF Carried
<1>2. AskedGood /\ Unasked
  BY <1>1 DEF Onward, Passing
<1>3. AskedGood'
  BY <1>2, SaidAfter, AskedTypedKept DEF AskedGood
<1>4. Unasked'
  BY <1>2 DEF Unasked
<1> QED
  BY <1>1, <1>3, <1>4 DEF Passing

LEMMA OnwardStep == Carried /\ Way /\ Onward /\ [Next]_vars => Onward'
<1> SUFFICES ASSUME Carried, Way, Onward, [Next]_vars PROVE Onward'
  OBVIOUS
<1>1. ASSUME SendName PROVE Onward'
  BY <1>1, NotYetOnward DEF SendName
<1>2. ASSUME ReceiveName PROVE Onward'
  BY <1>2, NotYetOnward, OnwardKept DEF ReceiveName
<1>3. ASSUME SendRequest PROVE Onward'
  BY <1>3, NotYetOnward DEF SendRequest
<1>4. ASSUME ReceiveRequest PROVE Onward'
  BY <1>4, RequestOnward
<1>5. ASSUME ReceiveForwarded PROVE Onward'
  BY <1>5, ForwardedOnward
<1>6. ASSUME ReceiveAnswer PROVE Onward'
  BY <1>6, AnswerOnward
<1>7. ASSUME NEW i \in DOMAIN lines, PrintPiece(i) PROVE Onward'
  BY <1>7, OnwardKept DEF PrintPiece
<1>8. ASSUME UNCHANGED vars PROVE Onward'
  BY <1>8, OnwardKept DEF vars
<1> QED
  BY <1>1, <1>2, <1>3, <1>4, <1>5, <1>6, <1>7, <1>8 DEF Next, Rested

LEMMA OnwardInit == Init => Onward /\ Elsewhere
<1> SUFFICES ASSUME Init PROVE Onward /\ Elsewhere
  OBVIOUS
<1>1. Unasked /\ handled = << >> /\ stage # "asked"
  BY DEF Init, Unasked
<1>2. IsArray(authArray)
  <2> DEFINE n == 128
  <2>1. beyond \in Byte /\ n \in Nat
    BY PacketsAssumption DEF Init
  <2> HIDE DEF n
  <2>2. Fill(beyond, n) \in Seq(Byte) /\ Len(Fill(beyond, n)) = n
    BY <2>1, FillSeq
  <2>3. authArray = Fill(beyond, n)
    BY DEF Init, RecvLen, n
  <2> QED
    BY <2>2, <2>3 DEF IsArray, n
<1>3. AskedGood
  <2>1. asked \in Seq(AskedType) /\ back \in Seq(Byte) /\ Len(asked) = 0
    BY <1>1, EmptySeq DEF Unasked
  <2>2. AskedTyped
    BY <2>1 DEF AskedTyped
  <2> QED
    BY <1>2, <2>1, <2>2 DEF AskedGood
<1> QED
  BY <1>1, <1>3 DEF Onward, Passing, Elsewhere

\* Only account requests are sent on.
LEMMA ElsewhereStep == Carried /\ Way /\ Elsewhere /\ [Next]_vars => Elsewhere'
<1> SUFFICES ASSUME Carried, Way, Elsewhere, [Next]_vars PROVE Elsewhere'
  OBVIOUS
<1>1. typed' = typed /\ Fits' = Fits /\ Account' = Account
  <2>1. typed' = typed
    BY DEF Next, SendName, ReceiveName, SendRequest, ReceiveRequest, ReceiveForwarded,
           ReceiveAnswer, PrintPiece, Rested, vars
  <2> QED
    BY <2>1 DEF Fits, Account
<1> SUFFICES ASSUME Fits, ~Account PROVE stage' # "asked"
  BY <1>1 DEF Elsewhere
<1>2. stage # "asked"
  BY DEF Elsewhere
<1>3. ASSUME ReceiveRequest PROVE stage' # "asked"
  <2>1. stage = "serve" /\ wire # << >>
    BY <1>3 DEF ReceiveRequest
  <2>2. CASE wire = RequestBytes /\ handled = << >>
    <3>1. Holds(array')
      BY <1>3, <2>2, FirstWay
    <3> QED
      BY <1>3, <3>1, OtherRequest
  <2>3. CASE wire = Padding /\ handled = <<Entry>> /\ Holds(array)
    <3>1. CASE Len(Padding) \in 1..4
      <4>1. Holds(array')
        BY <1>3, <2>3, <3>1, SecondWay
      <4> QED
        BY <1>3, <4>1, OtherRequest
    <3>2. CASE Len(Padding) \notin 1..4
      <4>1. handled' = handled /\ handled \in Seq({Entry})
        BY <1>3, <2>3, <3>2, SecondWay
      <4> QED
        BY <1>3, <4>1, NotHandled
    <3> QED
      BY <3>1, <3>2
  <2> QED
    BY <2>1, <2>2, <2>3 DEF Way
<1>4. ASSUME ~ReceiveRequest PROVE stage' # "asked"
  BY <1>2, <1>4 DEF Next, SendName, ReceiveName, SendRequest, ReceiveForwarded, ReceiveAnswer,
                    PrintPiece, Rested, vars
<1> QED
  BY <1>3, <1>4

\* At rest, both servers have been through, or the chat server has not an answer to wait for.
LEMMA ShiftedAtRest ==
  ASSUME Carried, Way, Onward, Account, Fits, BothSplit, AtRest, handled # << >>
  PROVE  /\ Together \/ Through
         /\ Len(handled) \in 1..2
<1>1. link = << >>
  BY DEF AtRest
<1>2. Fields <= 110
  BY DEF BothSplit
<1>3. Shifting
  BY <1>2 DEF Onward, Passing
<1>4. ~Forwarded(link) /\ ~Remain(link)
  BY <1>1, NoSuchRest DEF Carried
<1>5. Len(handled) \in Nat /\ Len(handled) <= 2 /\ Len(handled) # 0
  BY TimesTaken
<1>6. Together \/ Through
  BY <1>3, <1>4 DEF Shifting, FirstOn, SecondPiece
<1> DEFINE h == Len(handled)
<1>7. h \in Nat /\ h <= 2 /\ h # 0
  BY <1>5
<1> HIDE DEF h
<1>8. h \in 1..2
  BY <1>7
<1> QED
  BY <1>6, <1>8 DEF h

\* The request was received before all is at rest.
LEMMA HandledAtRest ==
  ASSUME Carried, Way, Onward, Account, Fits, AtRest
  PROVE  handled # << >>
<1> SUFFICES ASSUME handled = << >> PROVE FALSE
  OBVIOUS
<1>1. stage = "serve" /\ wire = << >>
  BY DEF AtRest, Onward, Passing, Unasked
<1>2. RequestBytes = << >>
  BY <1>1, TimesTaken
<1>3. Length \in Nat /\ 24 <= Length /\ Len(RequestBytes) = Length
  BY PaddingOf, LengthIs, RequestSent DEF Carried
<1>4. Length = 0
  BY <1>2, <1>3, EmptySeq
<1> QED
  BY <1>3, <1>4

LEMMA OnwardAsTyped == Carried /\ Way /\ Onward => ForwardedAsTyped
<1> SUFFICES ASSUME Carried, Way, Onward, Account, Fits
             PROVE  /\ \A i \in DOMAIN asked :
                         /\ asked[i].id = Id[typed.id] - 3 \/ Fields = 87
                         /\ asked[i].email = typed.first /\ asked[i].password = typed.second
                    /\ AtRest /\ Fields <= 110 /\ Fields # 87 =>
                         IF BothSplit THEN Len(asked) \in {1, 4}
                         ELSE Len(asked) = Len(handled) * (IF Fields \in 85..86 THEN 2 ELSE 1)
  BY DEF ForwardedAsTyped
<1>1. AskedGood /\ Passing
  BY DEF Onward
<1>2. asked \in Seq(AskedType) /\ DOMAIN asked = 1..Len(asked)
  BY <1>1 DEF AskedGood
<1>3. ASSUME NEW i \in DOMAIN asked
      PROVE  /\ asked[i].id = Id[typed.id] - 3 \/ Fields = 87
             /\ asked[i].email = typed.first /\ asked[i].password = typed.second
  BY <1>1, <1>2, <1>3 DEF AskedGood, AskedTyped, Number
<1>4. ASSUME AtRest, Fields <= 110, Fields # 87, ~BothSplit
      PROVE  Len(asked) = Len(handled) * (IF Fields \in 85..86 THEN 2 ELSE 1)
  <2>1. link = << >> /\ handled # << >>
    BY <1>4, HandledAtRest DEF AtRest
  <2>2. InOrder
    BY <1>1, <1>4, <2>1 DEF Passing
  <2>3. ~Forwarded(link) /\ ~Remain(link)
    BY <2>1, NoSuchRest DEF Carried
  <2>4. Len(asked) = Len(handled) * Times
    BY <1>4, <2>2, <2>3 DEF InOrder
  <2> QED
    BY <2>4 DEF Times
<1>5. ASSUME AtRest, BothSplit PROVE Len(asked) \in {1, 4}
  <2>1. (Together \/ Through) /\ Len(handled) \in 1..2
    BY <1>5, HandledAtRest, ShiftedAtRest
  <2>2. CASE Together
    BY <2>2 DEF Together
  <2>3. CASE Through
    <3>1. stage = "serve"
      BY <1>5, <2>3 DEF Through, Answering, AtRest
    <3>2. HandledTwice
      BY WayHandled
    <3>3. Len(handled) = 2
      BY <1>5, <3>1, <3>2 DEF HandledTwice, BothSplit, Account
    <3> QED
      BY <2>3, <3>3 DEF Through
  <2> QED
    BY <2>1, <2>2, <2>3
<1> QED
  BY <1>3, <1>4, <1>5

LEMMA OnwardWaits == Carried /\ Way /\ Onward /\ Elsewhere => WaitsForEver
<1> SUFFICES ASSUME Carried, Way, Onward, Elsewhere, AtRest, Fits
             PROVE  stage = "asked" <=> Account /\ (Fields > 110 \/ NothingLeft)
  BY DEF WaitsForEver
<1>1. /\ link = << >>
      /\ (stage = "serve" /\ wire = << >>) \/ (stage = "asked" /\ back = << >>)
  BY DEF AtRest
<1>2. stage = "asked" => Account
  BY DEF Elsewhere
<1> SUFFICES ASSUME Account PROVE stage = "asked" <=> Fields > 110 \/ NothingLeft
  BY <1>2
<1>3. Fields \in Nat /\ handled # << >>
  BY FieldsOf, HandledAtRest DEF Carried
<1>4. CASE Fields > 110
  BY <1>3, <1>4 DEF Onward, Passing, Cut
<1>5. CASE Fields <= 110 /\ ~BothSplit
  <2>1. InOrder
    BY <1>3, <1>5 DEF Onward, Passing
  <2>2. ~Forwarded(link) /\ ~Remain(link)
    BY <1>1, NoSuchRest DEF Carried
  <2>3. Answering
    BY <2>1, <2>2 DEF InOrder
  <2> QED
    BY <1>1, <1>3, <1>5, <2>3 DEF Answering, NothingLeft
<1>6. CASE BothSplit
  <2>1. Fields \in 83..84
    BY <1>6 DEF BothSplit
  <2>2. (Together \/ Through) /\ Len(handled) \in 1..2
    BY <1>3, <1>6, ShiftedAtRest
  <2>3. CASE Together
    <3>1. Len(asked) = 1 /\ (stage = "asked" <=> asked[1].outcome = "short")
      BY <1>1, <2>3 DEF Together, Stuck, LongAnswer
    <3> QED
      BY <1>6, <2>1, <3>1 DEF NothingLeft
  <2>4. CASE Through
    <3>1. stage # "asked"
      BY <1>1, <2>4 DEF Through, Answering
    <3>2. Len(asked) # 1
      BY <2>2, <2>4 DEF Through
    <3> QED
      BY <2>1, <3>1, <3>2 DEF NothingLeft
  <2> QED
    BY <2>2, <2>3, <2>4
<1> QED
  BY <1>3, <1>4, <1>5, <1>6

\* What the authentication server takes of a request that fits is what was typed, and it
\* takes it as often as it was sent on, or twice if one to four bytes of it arrive by
\* themselves, or with 83 or 84 characters four times or once: ReadMessages() in the chat
\* server's main() and its sendMessage(), and ReadMessages() of the authentication server.
THEOREM ForwardedAsOften == Spec => []ForwardedAsTyped
<1>1. Init => Carried /\ Way /\ Onward
  BY CarriedInit, WayInit, OnwardInit
<1>2. Carried /\ Way /\ Onward /\ [Next]_vars => (Carried /\ Way /\ Onward)'
  BY CarriedStep, WayStep, OnwardStep
<1>3. Carried /\ Way /\ Onward => ForwardedAsTyped
  BY OnwardAsTyped
<1> QED
  BY <1>1, <1>2, <1>3, PTL DEF Spec

\* The chat server waits in recvMessage() for an answer that never comes exactly for an
\* account request whose two fields have 111 or 112 characters, of which nothing that
\* arrives at the authentication server parses; and for one of 83 or 84 characters with a
\* short password that it handles a second time while the rest of what it has forwarded is
\* still unread, so that the second forwarding does not parse, and the first answer has left
\* nothing to take for the second.
THEOREM ServerWaits == Spec => []WaitsForEver
<1> DEFINE Inv == Carried /\ Way /\ Onward /\ Elsewhere
<1>1. Init => Inv
  BY CarriedInit, WayInit, OnwardInit
<1>2. Inv /\ [Next]_vars => Inv'
  BY CarriedStep, WayStep, OnwardStep, ElsewhereStep
<1>3. Inv => WaitsForEver
  BY OnwardWaits
<1> QED
  BY <1>1, <1>2, <1>3, PTL DEF Spec

-----------------------------------------------------------------------------
(* The way of the answer back *)

AnswerBytes(q, outcome) ==
  LET text == Fill(IF outcome = "ok" THEN 106 ELSE 107, IF outcome = "ok" THEN 29 ELSE 26)
      s == IF outcome # "ok" THEN Failure ELSE IF typed.id = "CREATE" THEN Message ELSE LoginSuccess
  IN  /\ q \in Seq(Byte) /\ Len(q) <= 128
      /\ HasInt(q, 0, IF outcome = "ok" THEN 1 ELSE 0)
      /\ HasText(q, 4, text) /\ HasText(q, 8 + Len(text), s)

\* The one answer is on its way, or its line was made.
AnswerTold ==
  /\ asked = << >> => lines = << >>
  /\ asked # << >> =>
       \/ stage = "asked" /\ lines = << >> /\ AnswerBytes(back, asked[1].outcome)
       \/ /\ stage = "serve" /\ back = << >> /\ Len(lines) = 1
          /\ lines[1].text = Told(typed.id = "CREATE", asked[1].outcome = "ok")

\* What is left of the answer to the only request, if it was taken once and succeeded
AnswerLeft ==
  Len(handled) = 1 /\ Len(asked) = 1 /\ asked[1].outcome = "ok" =>
    Len(back) = IF stage = "asked" THEN 55 + Fields ELSE IF Fields < 73 THEN 0 ELSE Fields - 73

Answered == Account /\ Fits => (AnswerFits => AnswerTold) /\ AnswerLeft

\* An answer has what was written to it if its length was computed by a message that is
\* at most eight bytes shorter than the one it has.
LEMMA AnswerHas ==
  ASSUME beyond \in Byte, NEW success \in Int, NEW text \in Seq(Byte), NEW counted \in Seq(Byte),
         NEW s \in Seq(Byte), Len(s) <= 8 + Len(counted)
  PROVE  /\ HasInt(Answer(success, text, counted, s), 0, success)
         /\ HasText(Answer(success, text, counted, s), 4, text)
         /\ HasText(Answer(success, text, counted, s), 8 + Len(text), s)
<1> DEFINE L == 4 + SizeT + Len(text) + SizeT + Len(counted)
           b == New(L)
           b1 == WriteInt32LEAt(b, 0, success)
           b2 == WriteText(b1, text)
           b3 == WriteText(b2, s)
           X == Sent(b3, L)
           n == Len(text)
           m == Len(s)
           at == 8 + n
           four == 4
           zero == 0
<1>1. /\ L \in Nat /\ L = 20 + n + Len(counted) /\ four <= L /\ n \in Nat /\ m \in Nat
      /\ at + 4 + m <= L /\ four + 4 + n <= L /\ at \in Nat /\ at = four + 4 + n
      /\ four \in Nat /\ zero \in Nat /\ zero + 4 <= four /\ zero + 4 <= at /\ zero + 4 <= L
  BY DEF SizeT
<1>2. Answer(success, text, counted, s) = X
  BY DEF Answer
<1> HIDE DEF L
<1>3. IsBuffer(b) /\ Len(b.data) = L
  BY <1>1, NewBuffer
<1> HIDE DEF b
<1>4. IsBuffer(b1) /\ b1.at = four /\ HasInt(b1.data, zero, success) /\ Len(b1.data) = L
  <2>1. 4 <= Len(b.data)
    BY <1>1, <1>3
  <2> QED
    BY <1>3, <2>1, WriteIntFirst
<1> HIDE DEF b1, n, m, at, four, zero
<1>5. /\ IsBuffer(b2) /\ b2.at = at /\ HasText(b2.data, four, text)
      /\ SameOutside(b2.data, b1.data, four, at) /\ Len(b2.data) = L
  <2>1. b1.at + 4 + Len(text) <= Len(b1.data) /\ b1.at + 4 + Len(text) = at
    BY <1>1, <1>4 DEF n
  <2>2. /\ IsBuffer(b2) /\ b2.at = b1.at + 4 + Len(text) /\ HasText(b2.data, b1.at, text)
        /\ SameOutside(b2.data, b1.data, b1.at, b1.at + 4 + Len(text))
    BY <1>4, <2>1, WritesText
  <2>3. Len(b2.data) = L
    BY <1>4, <2>2 DEF SameOutside
  <2> QED
    BY <1>4, <2>1, <2>2, <2>3
<1>6. HasInt(b2.data, zero, success)
  BY <1>1, <1>4, <1>5, IntKept
<1> HIDE DEF b2
<1>7. /\ IsBuffer(b3) /\ HasText(b3.data, at, s)
      /\ SameOutside(b3.data, b2.data, at, at + 4 + m)
  <2>1. b2.at + 4 + Len(s) <= Len(b2.data)
    BY <1>1, <1>5 DEF m
  <2>2. /\ IsBuffer(b3) /\ HasText(b3.data, b2.at, s)
        /\ SameOutside(b3.data, b2.data, b2.at, b2.at + 4 + Len(s))
    BY <1>5, <2>1, WritesText
  <2> QED
    BY <1>5, <2>2 DEF m
<1> HIDE DEF b3
<1>8. HasInt(b3.data, zero, success) /\ HasText(b3.data, four, text)
  <2>1. at + 4 + m \in Nat /\ Len(b2.data) \in Nat
    BY <1>1, <1>5
  <2>2. HasInt(b3.data, zero, success)
    BY <1>1, <1>6, <1>7, <2>1, IntKept
  <2>3. HasInt(b2.data, four, Len(text)) /\ HasString(b2.data, four + 4, text)
    BY <1>5 DEF HasText
  <2>4. HasInt(b3.data, four, Len(text))
    <3>1. four + 4 <= at
      BY <1>1
    <3> QED
      BY <1>1, <1>7, <2>1, <2>3, <3>1, IntKept
  <2>5. HasString(b3.data, four + 4, text)
    <3>1. four + 4 \in Nat /\ (four + 4) + Len(text) <= at /\ Len(text) \in Nat
      BY <1>1 DEF n
    <3> QED
      BY <1>1, <1>7, <2>1, <2>3, <3>1, StringKept
  <2> QED
    BY <2>2, <2>4, <2>5 DEF HasText
<1>9. HasInt(X, zero, success)
  BY <1>1, <1>7, <1>8, SentInt
<1>10. HasText(X, four, text)
  <2>1. four + 4 + Len(text) <= L
    BY <1>1 DEF n
  <2> QED
    BY <1>1, <1>7, <1>8, <2>1, SentText
<1>11. HasText(X, at, s)
  <2>1. at + 4 + Len(s) <= L
    BY <1>1 DEF m
  <2> QED
    BY <1>1, <1>7, <2>1, SentText
<1> QED
  BY <1>2, <1>9, <1>10, <1>11 DEF at, four, zero, n

\* What the chat server reads of such an answer
LEMMA AnswerRead ==
  ASSUME NEW q \in Seq(Byte), NEW v \in Int, 0 <= v, v < 65536, HasInt(q, 0, v),
         NEW text \in Seq(Byte), Len(text) < 65536, HasText(q, 4, text),
         NEW s \in Seq(Byte), Len(s) < 65536, HasText(q, 8 + Len(text), s)
  PROVE  LET success == ReadInt32LEAt(SetBuffer(New(0), q), 0)
         IN  success.value = v /\ ReadText(ReadText(success.buffer).buffer).value = s
<1> DEFINE c == At(SetBuffer(New(0), q), 0)
           success == ReadInt32LE(c)
           i == 8 + Len(text)
           d == At(c, 4)
           e == At(d, i)
<1>1. IsBuffer(c) /\ c.data = q /\ c.at = 0
  <2>1. c = [data |-> q, at |-> 0]
    <3> DEFINE b == SetBuffer(New(0), q)
    <3>1. b = [data |-> q, at |-> 0]
      BY DEF SetBuffer, New
    <3> HIDE DEF b
    <3> QED
      BY <3>1 DEF At, b
  <2> HIDE DEF c
  <2>2. [data |-> q, at |-> 0] \in [data : Seq(Byte), at : Nat]
    OBVIOUS
  <2> QED
    BY <2>1, <2>2 DEF IsBuffer
<1>2. ReadInt32LEAt(SetBuffer(New(0), q), 0) = success
  BY DEF ReadInt32LEAt
<1> HIDE DEF c
<1>3. success.value = v /\ success.buffer = d
  <2>1. HasInt(c.data, c.at, v) /\ c.at + 4 = 4
    BY <1>1
  <2>2. success.value = v /\ success.buffer = At(c, c.at + 4)
    BY <1>1, <2>1, ReadInt
  <2> QED
    BY <2>1, <2>2
<1> HIDE DEF success
<1>4. IsBuffer(d) /\ d.data = q /\ d.at = 4
  <2> DEFINE x == 4
  <2>1. x \in Nat
    OBVIOUS
  <2> HIDE DEF x
  <2>2. IsBuffer(At(c, x)) /\ At(c, x).data = c.data /\ At(c, x).at = x
    BY <1>1, <2>1, AtBuffer
  <2> QED
    BY <1>1, <2>2 DEF x
<1> HIDE DEF d
<1>5. ReadText(d).value = text /\ ReadText(d).buffer = e
  <2>1. HasText(d.data, d.at, text) /\ d.at + 4 + Len(text) = i
    BY <1>4
  <2>2. ReadText(d).value = text /\ ReadText(d).buffer = At(d, d.at + 4 + Len(text))
    BY <1>4, <2>1, ReadsText
  <2> QED
    BY <2>1, <2>2
<1>6. i \in Nat /\ HasText(q, i, s)
  OBVIOUS
<1> HIDE DEF i
<1>7. IsBuffer(e) /\ e.data = q /\ e.at = i
  BY <1>4, <1>6, AtBuffer
<1> HIDE DEF e
<1>8. ReadText(e).value = s
  BY <1>6, <1>7, ReadsText
<1> QED
  BY <1>2, <1>3, <1>5, <1>8

\* The answer to a request with eleven to 73 characters in its fields is one piece that
\* has what is meant.
LEMMA WholeAnswer ==
  ASSUME beyond \in Byte, typed \in TypedType, Len(typed.account) \in 1..5, Account, Fits, AnswerFits,
         NEW outcome \in Outcome
  PROVE  AnswerBytes(AnswerTo(Registers(Number), outcome, Message), outcome)
<1> DEFINE M == Message
           good == Fill(106, 29)
           bad == Fill(107, 26)
           m == IF Registers(Number) THEN M ELSE LoginSuccess
           c == IF outcome = "short" THEN Failure ELSE M
           F == Fields
           K == Len(typed.account)
           A == AnswerTo(Registers(Number), outcome, M)
           one == 1
           zero == 0
<1>1. /\ M \in Seq(Byte) /\ Len(M) = 6 + F /\ F \in Nat /\ 11 <= F /\ F <= 73
      /\ typed.id = "CREATE" <=> Registers(Number)
  <2>1. M \in Seq(Byte) /\ Len(M) = 6 + F /\ F \in Nat
    BY FieldsOf
  <2>2. F \in 11..73
    BY DEF AnswerFits
  <2>3. typed.id = "CREATE" <=> Registers(Number)
    BY FieldsOf DEF Registers
  <2> HIDE DEF F, M
  <2>4. 11 <= F /\ F <= 73
    BY <2>2
  <2> QED
    BY <2>1, <2>3, <2>4
<1>10. K \in 1..5 /\ (~Registers(Number) => 10 + K <= F)
  BY <1>1 DEF AnswerFits, Account
<1>2. /\ good \in Seq(Byte) /\ Len(good) = 29 /\ bad \in Seq(Byte) /\ Len(bad) = 26
      /\ Failure \in Seq(Byte) /\ Len(Failure) = 4
      /\ LoginSuccess \in Seq(Byte) /\ Len(LoginSuccess) = 24 + K
  BY TextsOfAnswers
<1>3. A = IF outcome = "ok" THEN Answer(one, good, M, m) ELSE Answer(zero, bad, c, Failure)
  BY DEF AnswerTo
<1>4. /\ AnswerBytes(A, outcome) <=>
           LET text == Fill(IF outcome = "ok" THEN 106 ELSE 107, IF outcome = "ok" THEN 29 ELSE 26)
               s == IF outcome # "ok" THEN Failure ELSE m
           IN  /\ A \in Seq(Byte) /\ Len(A) <= 128
               /\ HasInt(A, 0, IF outcome = "ok" THEN 1 ELSE 0)
               /\ HasText(A, 4, text) /\ HasText(A, 8 + Len(text), s)
  <2> HIDE DEF A
  <2> QED
    BY <1>1 DEF AnswerBytes
<1> HIDE DEF M, A
<1>5. /\ m \in Seq(Byte) /\ Len(m) <= 8 + Len(M)
      /\ c \in Seq(Byte) /\ Len(c) <= 79 /\ Len(Failure) <= 8 + Len(c)
  <2> HIDE DEF F, K
  <2>1. m = M \/ (m = LoginSuccess /\ 10 + K <= F)
    BY <1>10
  <2>2. c = Failure \/ c = M
    OBVIOUS
  <2> HIDE DEF m, c
  <2>3. m \in Seq(Byte) /\ c \in Seq(Byte)
    BY <1>1, <1>2, <2>1, <2>2
  <2>4. Len(m) = 6 + F \/ (Len(m) = 24 + K /\ 10 + K <= F)
    BY <1>1, <1>2, <2>1
  <2>5. Len(c) = 4 \/ Len(c) = 6 + F
    BY <1>1, <1>2, <2>2
  <2>6. Len(m) <= 8 + Len(M) /\ Len(c) <= 79
    <3> DEFINE x == Len(m)
               y == Len(M)
               z == Len(c)
    <3>1. x = 6 + F \/ (x = 24 + K /\ 10 + K <= F)
      BY <2>4
    <3>2. y = 6 + F /\ F \in Nat /\ 11 <= F /\ F <= 73
      BY <1>1
    <3>3. z = 4 \/ z = 6 + F
      BY <2>5
    <3> HIDE DEF x, y, z
    <3>4. x <= 8 + y /\ z <= 79
      BY <1>10, <3>1, <3>2, <3>3
    <3> QED
      BY <3>4 DEF x, y, z
  <2>8. Len(Failure) <= 8 + Len(c)
    BY <1>1, <1>2, <2>5
  <2> QED
    BY <2>3, <2>6, <2>8
<1>6. beyond \in Byte /\ one \in Int /\ zero \in Int
  OBVIOUS
<1> HIDE DEF good, bad, m, c, F, K, one, zero
<1>9. /\ beyond \in Byte /\ one \in Int /\ zero \in Int /\ good \in Seq(Byte) /\ bad \in Seq(Byte)
      /\ M \in Seq(Byte) /\ m \in Seq(Byte) /\ c \in Seq(Byte) /\ Failure \in Seq(Byte)
  BY <1>1, <1>2, <1>5, <1>6
<1>7. ASSUME outcome = "ok" PROVE AnswerBytes(A, outcome)
  <2> DEFINE B == Answer(one, good, M, m)
  <2>1. A = B
    BY <1>3, <1>7
  <2>2. B \in Seq(Byte) /\ Len(B) = 20 + Len(good) + Len(M)
    BY <1>9, AnswerSent
  <2>3. HasInt(B, 0, one) /\ HasText(B, 4, good) /\ HasText(B, 8 + Len(good), m)
    BY <1>1, <1>2, <1>5, <1>6, AnswerHas
  <2> HIDE DEF B
  <2>4. Len(B) <= 128
    BY <1>1, <1>2, <2>2
  <2> QED
    BY <1>4, <1>7, <2>1, <2>2, <2>3, <2>4 DEF good, one
<1>8. ASSUME outcome # "ok" PROVE AnswerBytes(A, outcome)
  <2> DEFINE B == Answer(zero, bad, c, Failure)
  <2>1. A = B
    BY <1>3, <1>8
  <2>2. B \in Seq(Byte) /\ Len(B) = 20 + Len(bad) + Len(c)
    BY <1>9, AnswerSent
  <2>3. HasInt(B, 0, zero) /\ HasText(B, 4, bad) /\ HasText(B, 8 + Len(bad), Failure)
    BY <1>2, <1>5, <1>6, AnswerHas
  <2> HIDE DEF B
  <2>4. Len(B) <= 128
    BY <1>2, <1>5, <2>2
  <2> QED
    BY <1>4, <1>8, <2>1, <2>2, <2>3, <2>4 DEF bad, zero
<1> QED
  BY <1>7, <1>8 DEF A, M

LEMMA AnsweredKept ==
  ASSUME Answered, UNCHANGED <<typed, stage, handled, asked, back, lines>>
  PROVE  Answered'
<1>1. /\ Fields' = Fields /\ Message' = Message /\ Account' = Account /\ Fits' = Fits
      /\ AnswerFits' = AnswerFits /\ LoginSuccess' = LoginSuccess
  BY DEF Fields, Message, Number, Account, Fits, AnswerFits, LoginSuccess
<1>2. AnswerTold => AnswerTold'
  BY <1>1 DEF AnswerTold, AnswerBytes
<1>3. AnswerLeft => AnswerLeft'
  BY <1>1 DEF AnswerLeft
<1> QED
  BY <1>1, <1>2, <1>3 DEF Answered

\* Before anything was taken by the authentication server
LEMMA NoneAnswered ==
  ASSUME asked' = << >>, Account' /\ Fits' /\ AnswerFits' => lines' = << >>
  PROVE  Answered'
<1>1. ~(Len(asked') = 1)
  BY EmptySeq
<1>2. AnswerLeft'
  BY <1>1 DEF AnswerLeft
<1>3. Account' /\ Fits' /\ AnswerFits' => AnswerTold'
  BY DEF AnswerTold
<1> QED
  BY <1>2, <1>3 DEF Answered

\* A request with at most 79 characters in its fields is received in one piece.
LEMMA OnePiece ==
  ASSUME Carried, Way, Fits, Account, Fields <= 79
  PROVE  Padding = << >> /\ (handled = << >> \/ handled = <<Entry>>)
<1> DEFINE L == Length
           f == Len(typed.first)
           s == Len(typed.second)
           n == Len(Padding)
<1>1. /\ n = (IF L < 128 THEN 0 ELSE L - 128) /\ L = 48 + f + s /\ f \in Nat /\ s \in Nat
      /\ f + s <= 79
  <2>1. typed \in TypedType /\ f \in Nat /\ s \in Nat
    BY DEF Carried, TypedType
  <2>2. L = (IF typed.id \in {"JOIN", "LEAVE"} THEN 24 ELSE 48) + f + s
    BY <2>1, LengthIs
  <2>3. f + s <= 79
    BY DEF Fields
  <2> QED
    BY <2>1, <2>2, <2>3, PaddingOf DEF Account
<1> HIDE DEF L, f, s, n
<1>2. n = 0
  BY <1>1
<1>3. Padding = << >>
  BY <1>2, PaddingOf, EmptySeq DEF n
<1>4. n \notin 1..4
  BY <1>2
<1>5. handled = << >> \/ handled = <<Entry>>
  BY <1>4 DEF Carried, Way, n
<1> QED
  BY <1>3, <1>5

\* A request that is sent on makes no line.
LEMMA NoLines ==
  ASSUME Carried, Fits, Account, ReceiveRequest, Holds(array')
  PROVE  lines' = lines
<1> DEFINE r == Decode(array')
<1>1. IsArray(array') /\ typed \in TypedType
  BY ReceiveRequestCarried DEF Carried
<1>2. r.id = Id[typed.id]
  <2>1. Len(typed.first) < 65536 /\ Len(typed.second) < 65536
    BY <1>1, FieldsOf, ByteIsInt
  <2> QED
    BY <1>1, <2>1, DecodeHeld
<1>3. r.id \notin {Id.JOIN, Id.LEAVE, Id.SEND}
  BY <1>2 DEF Account, Id
<1>4. lines' = lines \o (IF r.id = Id.JOIN THEN RoomLines("JOIN", r.second)
                         ELSE IF r.id = Id.LEAVE THEN RoomLines("LEAVE", r.second)
                         ELSE IF r.id = Id.SEND THEN <<ChatLine(r.first, r.second)>>
                         ELSE << >>)
  BY DEF ReceiveRequest
<1> HIDE DEF r
<1>5. lines' = lines \o << >>
  BY <1>3, <1>4
<1> QED
  BY <1>5

LEMMA RequestAnswered ==
  ASSUME Carried, Way, Onward, LinesGood, Answered, ReceiveRequest
  PROVE  Answered'
<1>1. UNCHANGED <<typed, beyond, asked, back>> /\ stage = "serve" /\ wire # << >>
  BY DEF ReceiveRequest
<1>2. Account' = Account /\ Fits' = Fits /\ Fields' = Fields /\ AnswerFits' = AnswerFits
  BY <1>1, SaidAfter
<1> SUFFICES ASSUME Account, Fits PROVE Answered'
  BY <1>2 DEF Answered
<1>3. CASE wire = RequestBytes /\ handled = << >>
  <2>1. asked = << >>
    BY <1>3 DEF Onward, Passing, Unasked
  <2>2. lines' = lines
    BY <1>3, FirstWay, NoLines
  <2>3. AnswerFits => lines = << >>
    BY <2>1 DEF Answered, AnswerTold
  <2> QED
    BY <1>1, <1>2, <2>1, <2>2, <2>3, NoneAnswered
<1>4. CASE wire = Padding /\ handled = <<Entry>> /\ Holds(array)
  <2>1. ~AnswerFits
    <3> SUFFICES ASSUME AnswerFits PROVE FALSE
      OBVIOUS
    <3>1. Fields <= 79
      BY DEF AnswerFits
    <3> QED
      BY <1>1, <1>4, <3>1, OnePiece
  <2>2. AnswerLeft'
    <3>1. CASE Len(Padding) \in 1..4
      <4>1. handled' = <<Entry, Entry>>
        BY <1>4, <3>1, SecondWay
      <4>2. Len(handled') = 2
        BY <4>1
      <4> QED
        BY <4>2 DEF AnswerLeft
    <3>2. CASE Len(Padding) \notin 1..4
      <4>1. handled' = handled /\ handled \in Seq({Entry})
        BY <1>4, <3>2, SecondWay
      <4>2. stage' = stage
        BY <1>1, <4>1, NotHandled
      <4>3. AnswerLeft
        BY DEF Answered
      <4> QED
        BY <1>1, <1>2, <4>1, <4>2, <4>3 DEF AnswerLeft
    <3> QED
      BY <3>1, <3>2
  <2> QED
    BY <1>2, <2>1, <2>2 DEF Answered
<1> QED
  BY <1>1, <1>3, <1>4 DEF Way

\* What was forwarded first is taken in time for its answer to be waited for.
LEMMA FirstTaken ==
  ASSUME Carried, Way, Onward, Account, Fits, Fields <= 110, ReceiveForwarded, asked = << >>
  PROVE  /\ stage = "asked" /\ back = << >> /\ Len(handled) = 1 /\ asked' # << >>
         /\ asked'[1].outcome \in Outcome
         /\ back' = AnswerTo(Registers(Number), asked'[1].outcome, Message)
<1>1. /\ typed \in TypedType /\ beyond \in Byte /\ IsArray(authArray)
      /\ UNCHANGED <<typed, beyond, stage, handled>> /\ link # << >> /\ AskedGood
      /\ authArray' = Overlay(authArray, Piece(link)) /\ link' = Rest(link)
  BY Arrives DEF Carried, Onward, AskedGood
<1>2. handled # << >> /\ Len(handled) \in Nat /\ Len(handled) # 0 /\ Len(asked) = 0
  <2>1. handled # << >>
    BY <1>1 DEF Onward, Passing, Unasked
  <2> QED
    BY <2>1, TimesTaken, EmptySeq
<1>3. Forwarded(link) /\ Len(handled) = 1 /\ First
  <2>1. CASE BothSplit
    <3>1. Shifting
      BY <1>2, <2>1 DEF Onward, Passing
    <3>2. FirstOn
      BY <1>1, <1>2, <3>1 DEF Shifting, SecondPiece, Together, Through
    <3>3. Len(handled) = 1
      <4> DEFINE h == Len(handled)
                 a == Len(asked)
      <4>1. h \in Nat /\ a = 0 /\ a = 2 * (h - 1)
        BY <1>2, <3>2 DEF FirstOn
      <4> HIDE DEF h, a
      <4>2. h = 1
        BY <4>1
      <4> QED
        BY <4>2 DEF h
    <3> QED
      BY <3>2, <3>3 DEF FirstOn
  <2>2. CASE ~BothSplit
    <3>1. InOrder
      BY <1>2, <2>2 DEF Onward, Passing
    <3>2. Forwarded(link) /\ Len(asked) = Len(handled) - 1 /\ First
      BY <1>1, <1>2, <3>1 DEF InOrder
    <3>3. Len(handled) = 1
      BY <1>2, <3>2
    <3> QED
      BY <3>2, <3>3
  <2> QED
    BY <2>1, <2>2
<1>4. stage = "asked" /\ back = << >>
  BY <1>3 DEF First
<1>5. IsArray(authArray') /\ HoldsOn(authArray')
  BY <1>1, <1>3, FirstArrives
<1>6. /\ Number \in Int /\ 0 <= Number /\ Number < 65536 /\ Number \in {1, 2}
      /\ HasInt(authArray', 4, Number) /\ HasText(authArray', 8, Message)
  BY <1>1, <1>5, MessageLength DEF HoldsOn
<1>7. Asks(Number)
  BY <1>1, <1>5, <1>6, TakesMessage
<1>8. asked \in Seq(AskedType) /\ AskedTyped /\ back \in Seq(Byte)
  BY <1>1 DEF AskedGood
<1>9. /\ asked' # << >> /\ asked'[1].outcome \in Outcome
      /\ back' = AnswerTo(Registers(Number), asked'[1].outcome, Message)
  BY <1>1, <1>4, <1>6, <1>7, <1>8, AsksOne
<1> QED
  BY <1>3, <1>4, <1>9

\* Something is taken once more, or nothing is.
LEMMA TakenOrNot ==
  ASSUME ReceiveForwarded, NEW S, asked \in Seq(S), asked # << >>
  PROVE  UNCHANGED <<asked, back>> \/ Len(asked') >= 2
<1> DEFINE id == AuthId(authArray').value
           s == AuthText(authArray')
<1> SUFFICES ASSUME ~UNCHANGED <<asked, back>> PROVE Len(asked') >= 2
  OBVIOUS
<1>1. id \in {1, 2} /\ Parses(s) => Takes(id, s)
  BY WhatIsTaken
<1>2. ~(id \in {1, 2} /\ Parses(s)) => UNCHANGED <<asked, back>>
  BY WhatIsTaken
<1>3. Takes(id, s)
  BY <1>1, <1>2
<1> HIDE DEF id, s
<1>4. \E x : asked' = Append(asked, x)
  BY <1>3 DEF Takes
<1>5. PICK x : asked' = Append(asked, x)
  BY <1>4
<1> DEFINE T == S \cup {x}
<1>6. asked \in Seq(T) /\ x \in T /\ Len(asked) \in Nat /\ Len(asked) # 0
  <2>1. \A i \in 1..Len(asked) : asked[i] \in T
    BY ElementOfSeq
  <2>2. Len(asked) # 0
    BY EmptySeq
  <2> QED
    BY <2>1, <2>2
<1> HIDE DEF T
<1>7. Len(asked') = Len(asked) + 1
  BY <1>5, <1>6, AppendProperties
<1> QED
  BY <1>6, <1>7

LEMMA ForwardedAnswered ==
  ASSUME Carried, Way, Onward, Onward', LinesGood, Answered, ReceiveForwarded
  PROVE  Answered'
<1>1. /\ typed \in TypedType /\ beyond \in Byte
      /\ UNCHANGED <<typed, beyond, stage, handled, lines>> /\ link # << >>
  BY Arrives DEF Carried, ReceiveForwarded
<1>2. /\ Account' = Account /\ Fits' = Fits /\ Fields' = Fields /\ Message' = Message
      /\ AnswerFits' = AnswerFits /\ LoginSuccess' = LoginSuccess
  BY <1>1, SaidAfter
<1> SUFFICES ASSUME Account, Fits PROVE Answered'
  BY <1>2 DEF Answered
<1>3. /\ AskedGood /\ handled # << >> /\ Fields \in Nat
  BY <1>1, FieldsOf DEF Onward, Passing, Unasked
<1>4. CASE Fields > 110
  <2>1. Cut'
    BY <1>1, <1>2, <1>3, <1>4 DEF Onward, Passing
  <2>2. asked' = << >> /\ ~AnswerFits'
    BY <1>2, <1>3, <1>4, <2>1 DEF Cut, AnswerFits
  <2> QED
    BY <2>2, NoneAnswered
<1>5. CASE Fields <= 110 /\ asked = << >>
  <2> DEFINE outcome == asked'[1].outcome
             A == AnswerTo(Registers(Number), outcome, Message)
  <2>1. /\ stage = "asked" /\ Len(handled) = 1 /\ asked' # << >> /\ outcome \in Outcome
        /\ back' = A
    BY <1>5, FirstTaken
  <2> HIDE DEF outcome
  <2>2. /\ Message \in Seq(Byte) /\ Len(Message) = 6 + Fields
    BY <1>1, MessageLength
  <2>3. outcome = "ok" => Len(A) = 49 + Len(Message)
    BY <1>1, <2>1, <2>2, AnswerLength
  <2>4. AnswerLeft'
    <3> HIDE DEF A
    <3>1. outcome = "ok" => Len(back') = 55 + Fields
      BY <1>3, <2>1, <2>2, <2>3
    <3> QED
      BY <1>1, <1>2, <2>1, <3>1 DEF AnswerLeft, outcome
  <2>5. ASSUME AnswerFits PROVE AnswerTold'
    <3>1. AnswerBytes(A, outcome)
      BY <1>1, <2>1, <2>5, WholeAnswer DEF Carried
    <3>2. lines = << >>
      BY <1>5, <2>5 DEF Answered, AnswerTold
    <3> HIDE DEF A
    <3>3. AnswerBytes(back', asked'[1].outcome)
      BY <2>1, <3>1 DEF outcome
    <3>4. (AnswerBytes(back, asked[1].outcome))'
      BY <1>1, <1>2, <3>3 DEF AnswerBytes
    <3>5. stage' = "asked" /\ lines' = << >> /\ asked' # << >>
      BY <1>1, <2>1, <3>2
    <3> QED
      BY <3>4, <3>5 DEF AnswerTold
  <2> QED
    BY <1>2, <2>4, <2>5 DEF Answered
<1>6. CASE Fields <= 110 /\ asked # << >>
  <2>1. UNCHANGED <<asked, back>> \/ Len(asked') >= 2
    BY <1>3, <1>6, TakenOrNot DEF AskedGood
  <2>2. CASE UNCHANGED <<asked, back>>
    BY <1>1, <2>2, AnsweredKept
  <2>3. CASE Len(asked') >= 2
    <3>1. AnswerLeft'
      BY <2>3 DEF AnswerLeft
    <3>2. ~AnswerFits
      <4> SUFFICES ASSUME AnswerFits PROVE FALSE
        OBVIOUS
      <4>1. handled = <<Entry>> /\ Fields <= 79
        BY <1>3, OnePiece DEF AnswerFits
      <4>2. Len(handled) = 1
        BY <4>1
      <4>3. ~BothSplit /\ ~(Fields > 82)
        BY DEF BothSplit, AnswerFits
      <4>4. InOrder
        BY <1>3, <1>6, <4>3 DEF Onward, Passing
      <4>5. Len(asked) = 0
        BY <1>1, <4>2, <4>3, <4>4 DEF InOrder, Remain
      <4> QED
        BY <1>3, <1>6, <4>5, EmptySeq DEF AskedGood
    <3> QED
      BY <1>2, <3>1, <3>2 DEF Answered
  <2> QED
    BY <2>1, <2>2, <2>3
<1> QED
  BY <1>3, <1>4, <1>5, <1>6

\* A line is told to the client whatever the outcome.
LEMMA AnswerLine ==
  ASSUME Carried, Way, Onward, Account, Fits, AnswerFits, ReceiveAnswer, asked # << >>,
         lines = << >>, AnswerBytes(back, asked[1].outcome)
  PROVE  /\ back' = << >> /\ Len(lines') = 1
         /\ lines'[1].text = Told(typed.id = "CREATE", asked[1].outcome = "ok")
<1> DEFINE outcome == asked[1].outcome
           ok == outcome = "ok"
           v == IF ok THEN 1 ELSE 0
           text == Fill(IF ok THEN 106 ELSE 107, IF ok THEN 29 ELSE 26)
           s == IF ~ok THEN Failure ELSE IF typed.id = "CREATE" THEN Message ELSE LoginSuccess
           success == ReadInt32LEAt(SetBuffer(New(0), back), 0)
           message == ReadText(ReadText(success.buffer).buffer).value
           register == handled[Len(handled)].id = Id.CREATE
           told == Line(Told(register, success.value # 0))
<1>1. /\ back \in Seq(Byte) /\ Len(back) <= 128 /\ HasInt(back, 0, v) /\ HasText(back, 4, text)
      /\ HasText(back, 8 + Len(text), s)
  BY DEF AnswerBytes
<1>2. v \in Int /\ 0 <= v /\ v < 65536 /\ (v = 0 <=> ~ok)
  OBVIOUS
<1>3. text \in Seq(Byte) /\ Len(text) < 65536
  <2>1. CASE ok
    <3>1. text = Fill(106, 29)
      BY <2>1
    <3> HIDE DEF text
    <3>2. text \in Seq(Byte) /\ Len(text) = 29
      BY <3>1, TextsOfAnswers DEF Carried
    <3> QED
      BY <3>2
  <2>2. CASE ~ok
    <3>1. text = Fill(107, 26)
      BY <2>2
    <3> HIDE DEF text
    <3>2. text \in Seq(Byte) /\ Len(text) = 26
      BY <3>1, TextsOfAnswers DEF Carried
    <3> QED
      BY <3>2
  <2> QED
    BY <2>1, <2>2
<1>4. s \in Seq(Byte) /\ Len(s) < 65536
  <2>1. s = Failure \/ s = Message \/ s = LoginSuccess
    OBVIOUS
  <2>2. Message \in Seq(Byte) /\ Len(Message) < 65536
    BY MessageLength DEF Carried
  <2> DEFINE k == Len(typed.account)
             f == Len(Failure)
             l == Len(LoginSuccess)
  <2>5. typed \in TypedType /\ k \in 1..5
    BY DEF Carried
  <2>6. /\ Failure \in Seq(Byte) /\ f = 4
        /\ LoginSuccess \in Seq(Byte) /\ l = 24 + k
    BY <2>5, TextsOfAnswers
  <2> HIDE DEF k, f, l
  <2>7. f < 65536 /\ l < 65536
    BY <2>5, <2>6
  <2>3. Failure \in Seq(Byte) /\ Len(Failure) < 65536
    BY <2>6, <2>7 DEF f
  <2>4. LoginSuccess \in Seq(Byte) /\ Len(LoginSuccess) < 65536
    BY <2>6, <2>7 DEF l
  <2> HIDE DEF s
  <2> QED
    BY <2>1, <2>2, <2>3, <2>4
<1>5. success.value = v /\ message = s
  <2> HIDE DEF v, text, s
  <2> QED
    BY <1>1, <1>2, <1>3, <1>4, AnswerRead
<1>6. Piece(back) = back /\ Rest(back) = << >>
  <2>1. Piece(back) = back
    BY <1>1, ShortPiece
  <2> DEFINE n == Len(back)
             m == Len(Rest(back))
  <2>2. Rest(back) \in Seq(Byte) /\ m = (IF n < 128 THEN 0 ELSE n - 128) /\ n \in Nat /\ n <= 128
    BY <1>1, RestOf
  <2> HIDE DEF n, m
  <2>3. m = 0
    BY <2>2
  <2> QED
    BY <2>1, <2>2, <2>3, EmptySeq DEF m
<1>7. register <=> typed.id = "CREATE"
  <2>1. Fields <= 79
    BY DEF AnswerFits
  <2>2. handled = << >> \/ handled = <<Entry>>
    BY <2>1, OnePiece
  <2>3. handled # << >>
    BY DEF Onward, Passing, Unasked
  <2>4. handled = <<Entry>>
    BY <2>2, <2>3
  <2>5. handled[Len(handled)] = Entry
    BY <2>4
  <2>6. Entry.id = Id[typed.id]
    BY DEF Entry
  <2> QED
    BY <2>5, <2>6 DEF Account, Id
<1>8. LET x == ReadInt32LEAt(SetBuffer(New(0), Piece(back)), 0)
          y == ReadText(ReadText(x.buffer).buffer).value
          z == handled[Len(handled)].id = Id.CREATE
          parses == \/ x.value = 0 /\ y = Failure
                    \/ x.value # 0 /\ (z \/ y = LoginSuccess)
      IN  lines' = IF parses THEN Append(lines, Line(Told(z, x.value # 0))) ELSE lines
  BY DEF ReceiveAnswer
<1>9. lines' = IF \/ success.value = 0 /\ message = Failure
                  \/ success.value # 0 /\ (register \/ message = LoginSuccess)
               THEN Append(lines, told) ELSE lines
  BY <1>6, <1>8
<1> HIDE DEF success, message, register, told
<1>10. \/ success.value = 0 /\ message = Failure
       \/ success.value # 0 /\ (register \/ message = LoginSuccess)
  <2>1. CASE ~ok
    BY <1>2, <1>5, <2>1
  <2>2. CASE ok
    BY <1>2, <1>5, <1>7, <2>2
  <2> QED
    BY <2>1, <2>2
<1>11. lines' = <<told>>
  BY <1>9, <1>10
<1>12. Len(lines') = 1 /\ lines'[1] = told
  BY <1>11
<1>13. told.text = Told(register, success.value # 0)
  BY DEF told, Line, NewLine
<1>14. Told(register, success.value # 0) = Told(typed.id = "CREATE", ok)
  BY <1>2, <1>5, <1>7 DEF Told
<1>15. back' = Rest(back)
  BY DEF ReceiveAnswer
<1> QED
  BY <1>6, <1>12, <1>13, <1>14, <1>15

LEMMA AnswerAnswered ==
  ASSUME Carried, Way, Onward, Answered, ReceiveAnswer
  PROVE  Answered'
<1>1. /\ UNCHANGED <<typed, beyond, handled, link, asked>>
      /\ stage = "asked" /\ stage' = "serve" /\ back # << >> /\ back' = Rest(back)
  BY DEF ReceiveAnswer
<1>2. Account' = Account /\ Fits' = Fits /\ Fields' = Fields /\ AnswerFits' = AnswerFits
  BY <1>1, SaidAfter DEF Account, Fits, Fields
<1> SUFFICES ASSUME Account, Fits PROVE Answered'
  BY <1>2 DEF Answered
<1>3. AskedGood /\ handled # << >> /\ Fields \in Nat
  BY <1>1, FieldsOf DEF Onward, Passing, Unasked, Carried
<1>4. AnswerLeft'
  <2> SUFFICES ASSUME Len(handled) = 1, Len(asked) = 1, asked[1].outcome = "ok"
               PROVE  Len(back') = IF Fields < 73 THEN 0 ELSE Fields - 73
    BY <1>1, <1>2 DEF AnswerLeft
  <2> DEFINE n == Len(back)
             m == Len(back')
             F == Fields
  <2>1. n = 55 + F
    BY <1>1 DEF Answered, AnswerLeft
  <2>2. m = IF n < 128 THEN 0 ELSE n - 128
    BY <1>1, <1>3, RestOf DEF AskedGood
  <2>3. F \in Nat
    BY <1>3
  <2> HIDE DEF n, m, F
  <2>4. m = IF F < 73 THEN 0 ELSE F - 73
    BY <2>1, <2>2, <2>3
  <2> QED
    BY <2>4 DEF m, F
<1>5. ASSUME AnswerFits PROVE AnswerTold'
  <2>1. handled = <<Entry>> /\ Fields <= 79
    BY <1>3, <1>5, OnePiece DEF AnswerFits
  <2>2. Len(handled) = 1
    BY <2>1
  <2>3. asked # << >>
    <3>1. ~BothSplit /\ ~(Fields > 82) /\ Fields # 87 /\ Fields <= 110 /\ Times = 1
      BY <1>5 DEF BothSplit, Times, AnswerFits
    <3>2. InOrder
      BY <1>3, <3>1 DEF Onward, Passing
    <3>3. ~First
      BY <1>1, <2>2 DEF First
    <3>4. Len(asked) = Len(handled) * Times
      BY <3>1, <3>2, <3>3 DEF InOrder, Remain
    <3>5. Len(asked) = 1
      BY <2>2, <3>1, <3>4
    <3> QED
      BY <3>5, EmptySeq
  <2>4. lines = << >> /\ AnswerBytes(back, asked[1].outcome)
    BY <1>1, <1>5, <2>3 DEF Answered, AnswerTold
  <2>5. /\ back' = << >> /\ Len(lines') = 1
        /\ lines'[1].text = Told(typed.id = "CREATE", asked[1].outcome = "ok")
    BY <1>5, <2>3, <2>4, AnswerLine
  <2> QED
    BY <1>1, <2>3, <2>5 DEF AnswerTold
<1> QED
  BY <1>2, <1>4, <1>5 DEF Answered

LEMMA PrintPieceAnswered ==
  ASSUME LinesGood, Answered, NEW i \in DOMAIN lines, PrintPiece(i)
  PROVE  Answered'
<1>1. UNCHANGED <<typed, beyond, stage, handled, asked, back>>
  BY DEF PrintPiece
<1>2. /\ Account' = Account /\ Fits' = Fits /\ Fields' = Fields /\ Message' = Message
      /\ AnswerFits' = AnswerFits /\ LoginSuccess' = LoginSuccess
  BY <1>1, SaidAfter
<1>3. lines \in Seq(GoodLine) /\ i \in 1..Len(lines)
  BY DEF LinesGood
<1>4. Len(lines') = Len(lines) /\ \A j \in 1..Len(lines) : lines'[j].text = lines[j].text
  <2>1. \E x, y : lines' = [lines EXCEPT ![i].bytes = x, ![i].printed = y]
    BY DEF PrintPiece
  <2>2. PICK x, y : lines' = [lines EXCEPT ![i].bytes = x, ![i].printed = y]
    BY <2>1
  <2> DEFINE new == [[lines[i] EXCEPT !.bytes = x] EXCEPT !.printed = y]
             T == GoodLine \cup {new}
  <2>3. lines[i] \in LineType
    BY <1>3, ElementOfSeq DEF GoodLine
  <2>4. lines' = [lines EXCEPT ![i] = new]
    BY <2>2
  <2>5. new.text = lines[i].text
    BY <2>3 DEF LineType
  <2> HIDE DEF new
  <2>6. lines \in Seq(T) /\ new \in T
    <3>1. \A j \in 1..Len(lines) : lines[j] \in T
      BY <1>3, ElementOfSeq
    <3> QED
      BY <1>3, <3>1
  <2> HIDE DEF T
  <2>7. /\ Len(lines') = Len(lines)
        /\ \A j \in 1..Len(lines) : lines'[j] = IF j = i THEN new ELSE lines[j]
    BY <1>3, <2>4, <2>6
  <2> QED
    BY <2>5, <2>7
<1>5. lines # << >>
  <2>1. Len(lines) # 0
    BY <1>3
  <2> QED
    BY <2>1, EmptySeq
<1>6. AnswerLeft => AnswerLeft'
  BY <1>1, <1>2 DEF AnswerLeft
<1>7. AnswerTold => AnswerTold'
  <2> SUFFICES ASSUME AnswerTold PROVE AnswerTold'
    OBVIOUS
  <2>1. /\ asked # << >> /\ stage = "serve" /\ back = << >> /\ Len(lines) = 1
        /\ lines[1].text = Told(typed.id = "CREATE", asked[1].outcome = "ok")
    BY <1>5 DEF AnswerTold
  <2>2. Len(lines') = 1 /\ lines'[1].text = lines[1].text
    BY <1>4, <2>1
  <2> QED
    BY <1>1, <2>1, <2>2 DEF AnswerTold
<1> QED
  BY <1>2, <1>6, <1>7 DEF Answered

\* Before the request
LEMMA NotYetAnswered ==
  ASSUME Carried, Onward, Answered, stage \in {"name", "request"},
         UNCHANGED <<typed, handled, asked, back, lines>>
  PROVE  Answered'
<1>1. Account' = Account /\ Fits' = Fits /\ Fields' = Fields /\ AnswerFits' = AnswerFits
  BY DEF Account, Fits, Fields, AnswerFits
<1> SUFFICES ASSUME Account, Fits PROVE Answered'
  BY <1>1 DEF Answered
<1>2. asked = << >>
  BY DEF Carried, Onward, Passing, Unasked
<1>3. AnswerFits => lines = << >>
  BY <1>2 DEF Answered, AnswerTold
<1> QED
  BY <1>1, <1>2, <1>3, NoneAnswered

LEMMA AnsweredStep ==
  Carried /\ LinesGood /\ Way /\ Onward /\ Answered /\ [Next]_vars => Answered'
<1> SUFFICES ASSUME Carried, LinesGood, Way, Onward, Answered, [Next]_vars PROVE Answered'
  OBVIOUS
<1>1. ASSUME SendName PROVE Answered'
  BY <1>1, NotYetAnswered DEF SendName
<1>2. ASSUME ReceiveName PROVE Answered'
  BY <1>2, AnsweredKept DEF ReceiveName
<1>3. ASSUME SendRequest PROVE Answered'
  BY <1>3, NotYetAnswered DEF SendRequest
<1>4. ASSUME ReceiveRequest PROVE Answered'
  BY <1>4, RequestAnswered
<1>5. ASSUME ReceiveForwarded PROVE Answered'
  BY <1>5, ForwardedOnward, ForwardedAnswered
<1>6. ASSUME ReceiveAnswer PROVE Answered'
  BY <1>6, AnswerAnswered
<1>7. ASSUME NEW i \in DOMAIN lines, PrintPiece(i) PROVE Answered'
  BY <1>7, PrintPieceAnswered
<1>8. ASSUME UNCHANGED vars PROVE Answered'
  BY <1>8, AnsweredKept DEF vars
<1> QED
  BY <1>1, <1>2, <1>3, <1>4, <1>5, <1>6, <1>7, <1>8 DEF Next, Rested

LEMMA AnsweredInit == Init => Answered
<1> SUFFICES ASSUME Init PROVE Answered
  OBVIOUS
<1>1. asked = << >> /\ lines = << >>
  BY DEF Init
<1>2. Len(asked) # 1
  BY <1>1, EmptySeq
<1> QED
  BY <1>1, <1>2 DEF Answered, AnswerTold, AnswerLeft

LEMMA AnsweredIsWhole == Carried /\ Way /\ Onward /\ Answered => AnsweredWhole
<1> SUFFICES ASSUME Carried, Way, Onward, Answered, Account, AtRest
             PROVE  /\ AnswerFits =>
                         /\ back = << >> /\ Len(asked) = 1 /\ Len(lines) = 1
                         /\ lines[1].text = Told(typed.id = "CREATE", asked[1].outcome = "ok")
                    /\ Fits /\ Len(handled) = 1 /\ Len(asked) = 1 /\ asked[1].outcome = "ok" =>
                         (back # << >> <=> Fields > 73)
  BY DEF AnsweredWhole
<1>1. /\ link = << >>
      /\ (stage = "serve" /\ wire = << >>) \/ (stage = "asked" /\ back = << >>)
  BY DEF AtRest
<1>2. ASSUME AnswerFits
      PROVE  /\ back = << >> /\ Len(asked) = 1 /\ Len(lines) = 1
             /\ lines[1].text = Told(typed.id = "CREATE", asked[1].outcome = "ok")
  <2>1. Fits
    <3> DEFINE f == Len(typed.first)
               s == Len(typed.second)
    <3>1. f \in Nat /\ s \in Nat /\ f + s \in 11..73
      BY <1>2 DEF Carried, TypedType, Fields, AnswerFits
    <3> HIDE DEF f, s
    <3>2. 8 + 4 + f + 4 + s <= 128
      BY <3>1
    <3> QED
      BY <3>2 DEF Fits, HeaderSize, RecvLen, f, s
  <2>2. /\ ~BothSplit /\ ~(Fields > 82) /\ Fields # 87 /\ Fields <= 110 /\ Fields <= 79
        /\ Times = 1
    BY <1>2 DEF BothSplit, Times, AnswerFits
  <2>3. handled # << >>
    <3> SUFFICES ASSUME handled = << >> PROVE FALSE
      OBVIOUS
    <3>1. stage = "serve" /\ wire = << >>
      BY <1>1, <2>1 DEF Onward, Passing, Unasked
    <3>2. RequestBytes = << >>
      BY <2>1, <3>1, TimesTaken
    <3>3. Length \in Nat /\ 24 <= Length /\ Len(RequestBytes) = Length
      BY <2>1, PaddingOf, LengthIs, RequestSent DEF Carried
    <3>4. Length = 0
      BY <3>2, <3>3, EmptySeq
    <3> QED
      BY <3>3, <3>4
  <2>4. Len(handled) = 1
    <3>1. handled = <<Entry>>
      BY <2>1, <2>2, <2>3, OnePiece
    <3> QED
      BY <3>1
  <2>5. InOrder
    BY <2>1, <2>2, <2>3 DEF Onward, Passing
  <2>6. ~Forwarded(link)
    BY <1>1, <2>1, NoSuchRest DEF Carried
  <2>7. Len(asked) = Len(handled) * Times /\ Answering
    BY <2>2, <2>5, <2>6 DEF InOrder, Remain
  <2>8. Len(asked) = 1 /\ asked # << >>
    <3>1. Len(asked) = 1
      BY <2>2, <2>4, <2>7
    <3> QED
      BY <3>1, EmptySeq
  <2>9. stage # "asked"
    BY <1>1, <2>7 DEF Answering
  <2> QED
    BY <1>2, <2>1, <2>8, <2>9 DEF Answered, AnswerTold
<1>3. ASSUME Fits, Len(handled) = 1, Len(asked) = 1, asked[1].outcome = "ok"
      PROVE  back # << >> <=> Fields > 73
  <2> DEFINE F == Fields
             n == Len(back)
  <2>1. n = IF stage = "asked" THEN 55 + F ELSE IF F < 73 THEN 0 ELSE F - 73
    BY <1>3 DEF Answered, AnswerLeft
  <2>2. F \in Nat
    BY <1>3, FieldsOf DEF Carried
  <2>3. n \in Nat /\ (back = << >> <=> n = 0)
    <3>1. back \in Seq(Byte)
      BY <1>3 DEF Onward, AskedGood
    <3> QED
      BY <3>1, EmptySeq
  <2> HIDE DEF F, n
  <2>4. stage # "asked"
    BY <1>1, <2>1, <2>2, <2>3
  <2>5. n # 0 <=> F > 73
    BY <2>1, <2>2, <2>4
  <2> QED
    BY <2>3, <2>5 DEF F
<1> QED
  BY <1>2, <1>3

\* An account request is answered with the one line that says what has become of it, and
\* nothing is left of the answer, for the lengths of the fields that are given: Answer() of the
\* authentication server, which counts the length of an answer by another message, the 128
\* bytes of recvMessage() in the chat server, and the reply that it makes of them.
THEOREM EveryAnswerTold == Spec => []AnsweredWhole
<1> DEFINE Inv == Carried /\ LinesGood /\ Way /\ Onward /\ Answered
<1>1. Init => Inv
  BY CarriedInit, WayInit, OnwardInit, AnsweredInit
<1>2. Inv /\ [Next]_vars => Inv'
  BY CarriedStep, LinesStep, WayStep, OnwardStep, AnsweredStep
<1>3. Inv => AnsweredWhole
  BY AnsweredIsWhole
<1> QED
  BY <1>1, <1>2, <1>3, PTL DEF Spec
=============================================================================
