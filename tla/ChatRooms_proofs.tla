-------------------------- MODULE ChatRooms_proofs --------------------------
(***************************************************************************)
(* The chat server implements the room service for users who keep to the   *)
(* rules, for every instance of ChatServer in which no connection is lost. *)
(***************************************************************************)
EXTENDS ChatRequests_proofs

-----------------------------------------------------------------------------
(* Picking elements of a sequence *)

\* The j-th smallest element of a set of indices is the one with j elements up to it.
LEMMA NthUnique ==
  ASSUME NEW n \in Nat, NEW S, S \subseteq 1..n, NEW i \in S
  PROVE  Nth(S, Cardinality(UpTo(S, i))) = i
<1> DEFINE count(k) == Cardinality(UpTo(S, k))
<1>1. \A a, b \in S : a < b => count(a) # count(b)
  <2> SUFFICES ASSUME NEW a \in S, NEW b \in S, a < b
               PROVE  count(a) # count(b)
    OBVIOUS
  <2>1. IsFiniteSet(UpTo(S, b)) /\ UpTo(S, a) \in SUBSET UpTo(S, b)
    <3>1. UpTo(S, b) \subseteq 1..n
      BY DEF UpTo
    <3>2. \A k \in S : k <= a => k <= b
      OBVIOUS
    <3> QED
      BY <3>1, <3>2, IndicesFinite DEF UpTo
  <2>2. b \in UpTo(S, b) /\ b \notin UpTo(S, a)
    BY DEF UpTo
  <2> QED
    BY <2>1, <2>2, FS_Subset
<1> HIDE DEF count
<1>2. \A a, b \in S : count(a) = count(b) => a = b
  <2>1. \A a, b \in S : a \in 1..n /\ b \in 1..n
    OBVIOUS
  <2> QED
    BY <1>1, <2>1
<1>3. (CHOOSE k \in S : count(k) = count(i)) = i
  BY <1>2
<1> QED
  BY <1>3 DEF Nth, count

LEMMA CountIsIndex ==
  ASSUME NEW n \in Nat, NEW S, S \subseteq 1..n, NEW i \in S
  PROVE  Cardinality(UpTo(S, i)) \in 1..Cardinality(S)
<1>1. UpTo(S, i) \in SUBSET S /\ IsFiniteSet(S) /\ Cardinality(S) \in Nat /\ i \in UpTo(S, i)
  <2>1. IsFiniteSet(S) /\ Cardinality(S) \in Nat
    BY IndicesFinite
  <2>2. i <= i
    OBVIOUS
  <2> QED
    BY <2>1, <2>2 DEF UpTo
<1>2. IsFiniteSet(UpTo(S, i)) /\ Cardinality(UpTo(S, i)) \in Nat
      /\ Cardinality(UpTo(S, i)) <= Cardinality(S)
  BY <1>1, FS_Subset, FS_CardinalityType
<1>3. Cardinality(UpTo(S, i)) # 0
  BY <1>1, <1>2, FS_EmptySet
<1> QED
  BY <1>1, <1>2, <1>3

\* The elements that are picked are those at the positions of K.
LEMMA PickRange ==
  ASSUME NEW S, NEW q \in Seq(S), NEW K, K \subseteq 1..Len(q)
  PROVE  Range(Pick(q, K)) = {q[i] : i \in K}
<1>1. Len(q) \in Nat
  BY LenProperties
<1>2. \A j \in 1..Cardinality(K) : Nth(K, j) \in K
  BY <1>1, NthExists
<1>3. \A i \in K : /\ Cardinality(UpTo(K, i)) \in 1..Cardinality(K)
                   /\ Nth(K, Cardinality(UpTo(K, i))) = i
  BY <1>1, CountIsIndex, NthUnique
<1> QED
  BY <1>2, <1>3 DEF Pick, Range

\* No element is picked twice from a sequence in which none is repeated.
LEMMA PickInjective ==
  ASSUME NEW S, NEW q \in Seq(S), NEW K, K \subseteq 1..Len(q),
         \A a, b \in 1..Len(q) : q[a] = q[b] => a = b
  PROVE  \A j, k \in 1..Len(Pick(q, K)) : Pick(q, K)[j] = Pick(q, K)[k] => j = k
<1>1. Len(q) \in Nat /\ Len(Pick(q, K)) = Cardinality(K)
  BY LenProperties, PickIsSeq
<1>2. \A j \in 1..Cardinality(K) : Nth(K, j) \in K /\ Cardinality(UpTo(K, Nth(K, j))) = j
  BY <1>1, NthExists
<1>3. SUFFICES ASSUME NEW j \in 1..Cardinality(K), NEW k \in 1..Cardinality(K),
                      q[Nth(K, j)] = q[Nth(K, k)]
               PROVE  j = k
  BY <1>1 DEF Pick
<1>4. Nth(K, j) = Nth(K, k)
  BY <1>2, <1>3
<1> QED
  BY <1>2, <1>4

\* An element that is added at the end is picked last, or not at all.
LEMMA PickAppend ==
  ASSUME NEW S, NEW q \in Seq(S), NEW e \in S, NEW K, K \subseteq 1..Len(q)
  PROVE  /\ Pick(Append(q, e), K) = Pick(q, K)
         /\ Pick(Append(q, e), K \cup {Len(q) + 1}) = Append(Pick(q, K), e)
<1> DEFINE n == Len(q)
           q2 == Append(q, e)
           K2 == K \cup {n + 1}
           card == Cardinality(K)
<1>1. /\ n \in Nat /\ q2 \in Seq(S) /\ Len(q2) = n + 1
      /\ q2[n + 1] = e /\ \A i \in 1..n : q2[i] = q[i]
  BY LenProperties, AppendProperties
<1>2. K \subseteq 1..n /\ K \subseteq 1..(n + 1) /\ K2 \subseteq 1..(n + 1)
  <2>1. 1..n \subseteq 1..(n + 1) /\ n + 1 \in 1..(n + 1)
    BY <1>1
  <2> QED
    BY <2>1
<1> HIDE DEF q2
<1>3. IsFiniteSet(K) /\ card \in Nat
  BY <1>1, <1>2, IndicesFinite
<1>4. Cardinality(K2) = card + 1
  <2>1. n + 1 \notin K
    BY <1>1, <1>2
  <2> QED
    BY <1>3, <2>1, FS_AddElement
<1>5. \A j \in 1..card : Nth(K, j) \in K /\ Cardinality(UpTo(K, Nth(K, j))) = j
  BY <1>1, <1>2, NthExists
<1>6. Pick(q2, K) = Pick(q, K)
  BY <1>1, <1>2, <1>5 DEF Pick
<1>7. \A i \in K : UpTo(K2, i) = UpTo(K, i)
  BY <1>1, <1>2 DEF UpTo
<1>8. \A j \in 1..card : Nth(K2, j) = Nth(K, j)
  <2> SUFFICES ASSUME NEW j \in 1..card PROVE Nth(K2, j) = Nth(K, j)
    OBVIOUS
  <2> DEFINE i == Nth(K, j)
  <2>1. i \in K /\ i \in K2 /\ Cardinality(UpTo(K2, i)) = j
    BY <1>5, <1>7
  <2>2. n + 1 \in Nat
    BY <1>1
  <2> HIDE DEF i, K2, n
  <2>3. Nth(K2, Cardinality(UpTo(K2, i))) = i
    BY <1>2, <2>1, <2>2, NthUnique
  <2> QED
    BY <2>1, <2>3 DEF i
<1>9. Nth(K2, card + 1) = n + 1
  <2>1. UpTo(K2, n + 1) = K2
    BY <1>1, <1>2 DEF UpTo
  <2>2. n + 1 \in K2 /\ n + 1 \in Nat
    BY <1>1
  <2>3. Nth(K2, Cardinality(UpTo(K2, n + 1))) = n + 1
    <3> HIDE DEF K2, n
    <3> QED
      BY <1>2, <2>2, NthUnique
  <2> QED
    BY <1>4, <2>1, <2>3
<1>10. Pick(q2, K2) = Append(Pick(q, K), e)
  <2> DEFINE s == Pick(q, K)
  <2>1. s \in Seq(S) /\ Len(s) = card /\ \A j \in 1..card : s[j] = q[Nth(K, j)]
    BY <1>2, PickIsSeq DEF Pick
  <2>2. /\ Pick(q2, K2) \in Seq(S) /\ Len(Pick(q2, K2)) = card + 1
        /\ \A j \in 1..(card + 1) : Pick(q2, K2)[j] = q2[Nth(K2, j)]
    BY <1>1, <1>2, <1>4, PickIsSeq DEF Pick
  <2> HIDE DEF s, K2, card, n
  <2>3. /\ Append(s, e) \in Seq(S) /\ Len(Append(s, e)) = card + 1
        /\ Append(s, e)[card + 1] = e /\ \A j \in 1..card : Append(s, e)[j] = s[j]
    BY <2>1, AppendProperties
  <2>4. \A j \in 1..(card + 1) : q2[Nth(K2, j)] = Append(s, e)[j]
    <3> SUFFICES ASSUME NEW j \in 1..(card + 1)
                 PROVE  q2[Nth(K2, j)] = Append(s, e)[j]
      OBVIOUS
    <3>1. CASE j = card + 1
      BY <1>1, <1>9, <2>3, <3>1
    <3>2. CASE j # card + 1
      <4>1. j \in 1..card
        BY <1>3, <3>2
      <4>2. Nth(K2, j) = Nth(K, j) /\ Nth(K, j) \in 1..n
        BY <1>2, <1>5, <1>8, <4>1
      <4>3. q2[Nth(K, j)] = q[Nth(K, j)]
        BY <1>1, <4>2
      <4> QED
        BY <2>1, <2>3, <4>1, <4>2, <4>3
    <3> QED
      BY <3>1, <3>2
  <2>5. Pick(q2, K2) = Append(s, e)
    BY <2>2, <2>3, <2>4, SeqEqual
  <2> QED
    BY <2>5 DEF s
<1> QED
  BY <1>6, <1>10 DEF q2

-----------------------------------------------------------------------------
(* The lists of rooms *)

NoneTwice(q) == \A a, b \in DOMAIN q : q[a] = q[b] => a = b

\* The marks of the loop of LEAVE exist: an induction over its steps.
LEMMA ErasedExist ==
  ASSUME NEW q, NEW r, NEW n \in Nat
  PROVE  \E e : e = [i \in 0..n |-> i > 0 /\ q[i] = r /\ ~e[i - 1]]
<1> DEFINE P(m) == \E e : e = [i \in 0..m |-> i > 0 /\ q[i] = r /\ ~e[i - 1]]
           S == {m \in 0..n : ~P(m)}
<1>1. P(0)
  <2> DEFINE e == [i \in 0..0 |-> FALSE]
  <2>1. \A i \in 0..0 : (i > 0 /\ q[i] = r /\ ~e[i - 1]) = FALSE
    OBVIOUS
  <2>2. e = [i \in 0..0 |-> i > 0 /\ q[i] = r /\ ~e[i - 1]]
    BY <2>1, Zenon
  <2> QED
    BY <2>2
<1> SUFFICES ASSUME ~P(n) PROVE FALSE
  OBVIOUS
<1> HIDE DEF P
<1>2. S \in SUBSET Nat /\ n \in S
  OBVIOUS
<1>3. PICK m \in S : \A k \in S : m <= k
  <2> HIDE DEF S
  <2> QED
    BY <1>2, LeastNat
<1>4. m \in 1..n /\ ~P(m) /\ P(m - 1)
  <2>1. m \in 0..n /\ ~P(m)
    OBVIOUS
  <2>2. m \in 1..n /\ m - 1 \in 0..n
    BY <1>1, <2>1
  <2>3. m - 1 \notin S
    BY <1>3, <2>2
  <2> QED
    BY <2>1, <2>2, <2>3
<1> USE DEF P
<1>5. PICK e : e = [i \in 0..(m - 1) |-> i > 0 /\ q[i] = r /\ ~e[i - 1]]
  BY <1>4
<1> DEFINE f == [i \in 0..m |-> IF i = m THEN q[m] = r /\ ~e[m - 1] ELSE e[i]]
<1>6. \A i \in 0..m : f[i] = (i > 0 /\ q[i] = r /\ ~f[i - 1])
  <2> SUFFICES ASSUME NEW i \in 0..m
               PROVE  f[i] = (i > 0 /\ q[i] = r /\ ~f[i - 1])
    OBVIOUS
  <2>1. CASE i = m
    <3>1. i > 0 /\ f[i] = (q[i] = r /\ ~e[i - 1])
      BY <1>4, <2>1
    <3>2. f[i - 1] = e[i - 1]
      BY <1>4, <2>1
    <3> QED
      BY <3>1, <3>2
  <2>2. CASE i # m
    <3>1. i \in 0..(m - 1) /\ f[i] = e[i]
      BY <1>4, <2>2
    <3>2. e[i] = (i > 0 /\ q[i] = r /\ ~e[i - 1])
      BY <1>5, <3>1
    <3>3. i > 0 => f[i - 1] = e[i - 1]
      BY <1>4, <3>1
    <3> QED
      BY <3>1, <3>2, <3>3
  <2> QED
    BY <2>1, <2>2
<1>7. f = [i \in 0..m |-> f[i]]
  OBVIOUS
<1> HIDE DEF f
<1>8. f = [i \in 0..m |-> i > 0 /\ q[i] = r /\ ~f[i - 1]]
  BY <1>6, <1>7
<1> QED
  BY <1>4, <1>8

\* The loop of LEAVE takes a room out of a list that has it once, and nothing else.
LEMMA EraseRoomOnce ==
  ASSUME NEW q \in Seq(Room), NoneTwice(q), NEW r
  PROVE  NoneTwice(EraseRoom(q, r)) /\ Range(EraseRoom(q, r)) = Range(q) \ {r}
<1> DEFINE n == Len(q)
           erased == CHOOSE e : e = [i \in 0..n |-> i > 0 /\ q[i] = r /\ ~e[i - 1]]
           kept == {i \in 1..n : ~erased[i]}
<1>1. n \in Nat /\ DOMAIN q = 1..n /\ EraseRoom(q, r) = Pick(q, kept)
  BY LenProperties DEF EraseRoom
<1> HIDE DEF n
<1>2. erased = [i \in 0..n |-> i > 0 /\ q[i] = r /\ ~erased[i - 1]]
  BY <1>1, ErasedExist
<1> HIDE DEF erased
<1>3. \A i \in 1..n : erased[i] <=> q[i] = r
  <2> SUFFICES ASSUME NEW i \in 1..n PROVE erased[i] <=> q[i] = r
    OBVIOUS
  <2>1. erased[i] = (q[i] = r /\ ~erased[i - 1])
    BY <1>1, <1>2
  <2>2. q[i] = r => ~erased[i - 1]
    <3>1. CASE i = 1
      BY <1>1, <1>2, <3>1
    <3>2. CASE i # 1
      <4>1. i - 1 \in 1..n /\ i - 1 # i
        BY <1>1, <3>2
      <4>2. q[i] = r => q[i - 1] # r
        BY <1>1, <4>1 DEF NoneTwice
      <4>3. i - 1 \in 0..n
        BY <1>1
      <4>4. erased[i - 1] => q[i - 1] = r
        BY <1>2, <4>3
      <4> QED
        BY <4>2, <4>4
    <3> QED
      BY <3>1, <3>2
  <2> QED
    BY <2>1, <2>2
<1>4. kept \subseteq 1..Len(q) /\ kept = {i \in 1..n : q[i] # r}
  BY <1>1, <1>3 DEF n
<1> HIDE DEF kept
<1>5. Range(Pick(q, kept)) = {q[i] : i \in kept}
  BY <1>4, PickRange
<1>6. Range(q) = {q[i] : i \in 1..n}
  BY <1>1 DEF Range
<1>7. {q[i] : i \in kept} = {q[i] : i \in 1..n} \ {r}
  BY <1>4
<1>8. Pick(q, kept) \in Seq(Room)
  BY <1>4, PickIsSeq
<1>9. \A j, k \in 1..Len(Pick(q, kept)) : Pick(q, kept)[j] = Pick(q, kept)[k] => j = k
  <2>1. \A a, b \in 1..Len(q) : q[a] = q[b] => a = b
    BY <1>1 DEF NoneTwice, n
  <2> QED
    BY <1>4, <2>1, PickInjective
<1>10. DOMAIN Pick(q, kept) = 1..Len(Pick(q, kept))
  BY <1>8, LenProperties
<1> QED
  BY <1>1, <1>5, <1>6, <1>7, <1>9, <1>10 DEF NoneTwice

LEMMA AppendOnce ==
  ASSUME NEW q \in Seq(Room), NoneTwice(q), NEW r \in Room, r \notin Range(q)
  PROVE  NoneTwice(Append(q, r)) /\ Range(Append(q, r)) = Range(q) \cup {r}
<1>1. /\ Len(q) \in Nat /\ DOMAIN q = 1..Len(q) /\ DOMAIN Append(q, r) = 1..(Len(q) + 1)
      /\ Append(q, r)[Len(q) + 1] = r /\ \A i \in 1..Len(q) : Append(q, r)[i] = q[i]
  BY LenProperties, AppendProperties
<1>2. \A i \in 1..(Len(q) + 1) : i \in 1..Len(q) \/ i = Len(q) + 1
  BY <1>1
<1>3. \A i \in 1..Len(q) : i \in 1..(Len(q) + 1) /\ q[i] # r
  BY <1>1 DEF Range
<1>4. Len(q) + 1 \in 1..(Len(q) + 1)
  BY <1>1
<1> HIDE DEF Range
<1>5. NoneTwice(Append(q, r))
  BY <1>1, <1>2, <1>3 DEF NoneTwice
<1>6. Range(Append(q, r)) = Range(q) \cup {r}
  BY <1>1, <1>2, <1>3, <1>4 DEF Range
<1> QED
  BY <1>5, <1>6

\* A list of rooms has a room once or not at all, so a line is sent once or not at all.
LEMMA CopiesOnce ==
  ASSUME NEW q \in Seq(Room), NoneTwice(q), NEW r, NEW x
  PROVE  Repeat(x, Copies(q, r)) = IF r \in Range(q) THEN <<x>> ELSE << >>
<1> DEFINE C == {i \in DOMAIN q : q[i] = r}
<1>1. CASE r \in Range(q)
  <2>1. PICK i \in DOMAIN q : q[i] = r
    BY <1>1 DEF Range
  <2>2. C = {i}
    BY <2>1 DEF NoneTwice
  <2>3. Copies(q, r) = 1
    BY <2>2, FS_Singleton DEF Copies
  <2>4. [j \in 1..1 |-> x] = <<x>>
    OBVIOUS
  <2> QED
    BY <1>1, <2>3, <2>4 DEF Repeat
<1>2. CASE r \notin Range(q)
  <2>1. C = {}
    BY <1>2 DEF Range
  <2>2. Copies(q, r) = 0
    BY <2>1, FS_EmptySet DEF Copies
  <2>3. [j \in 1..0 |-> x] = << >>
    OBVIOUS
  <2> QED
    BY <1>2, <2>2, <2>3 DEF Repeat
<1> QED
  BY <1>1, <1>2

-----------------------------------------------------------------------------
(* The lines a client was sent *)

LEMMA AppendToFunction ==
  ASSUME NEW n \in Nat, NEW f, f = [i \in 1..n |-> f[i]], NEW e
  PROVE  Append(f, e) = [i \in 1..(n + 1) |-> IF i = n + 1 THEN e ELSE f[i]]
<1> DEFINE S == {f[i] : i \in 1..n} \cup {e}
           g == [i \in 1..(n + 1) |-> IF i = n + 1 THEN e ELSE f[i]]
<1>1. f \in [1..n -> S] /\ e \in S
  OBVIOUS
<1>2. \A i \in 1..(n + 1) : i # n + 1 => i \in 1..n
  OBVIOUS
<1>3. g \in [1..(n + 1) -> S]
  BY <1>1, <1>2
<1> HIDE DEF S
<1>4. f \in Seq(S) /\ Len(f) = n
  BY <1>1, FunctionIsSeq
<1>5. g \in Seq(S) /\ Len(g) = n + 1
  <2>1. n + 1 \in Nat
    OBVIOUS
  <2> HIDE DEF g
  <2> QED
    BY <1>3, <2>1, FunctionIsSeq
<1>6. /\ Append(f, e) \in Seq(S) /\ Len(Append(f, e)) = n + 1
      /\ Append(f, e)[n + 1] = e /\ \A i \in 1..n : Append(f, e)[i] = f[i]
  BY <1>1, <1>4, AppendProperties
<1>7. \A i \in 1..(n + 1) : Append(f, e)[i] = g[i]
  BY <1>2, <1>6
<1> HIDE DEF g
<1>8. Append(f, e) = g
  BY <1>5, <1>6, <1>7, SeqEqual
<1> QED
  BY <1>8 DEF g

\* A line that is added is among the lines about rooms, or they are the same.
LEMMA RoomLinesAppend ==
  ASSUME NEW q \in Seq(LineType), NEW l \in LineType
  PROVE  RoomLines(Append(q, l)) =
           IF l.text \in News THEN Append(RoomLines(q), l) ELSE RoomLines(q)
<1> DEFINE n == Len(q)
           K == {i \in DOMAIN q : q[i].text \in News}
           K2 == {i \in DOMAIN Append(q, l) : Append(q, l)[i].text \in News}
<1>1. /\ n \in Nat /\ DOMAIN q = 1..n /\ DOMAIN Append(q, l) = 1..(n + 1)
      /\ Append(q, l)[n + 1] = l /\ \A i \in 1..n : Append(q, l)[i] = q[i]
  BY LenProperties, AppendProperties
<1>2. \A i \in 1..(n + 1) : i \in 1..n \/ i = n + 1
  BY <1>1
<1>3. n + 1 \in 1..(n + 1) /\ 1..n \subseteq 1..(n + 1)
  BY <1>1
<1>4. K2 = IF l.text \in News THEN K \cup {n + 1} ELSE K
  BY <1>1, <1>2, <1>3
<1>5. K \subseteq 1..Len(q)
  BY <1>1
<1> HIDE DEF K, K2
<1>6. RoomLines(Append(q, l)) = Pick(Append(q, l), K2) /\ RoomLines(q) = Pick(q, K)
  BY DEF RoomLines, K, K2
<1>7. /\ Pick(Append(q, l), K) = Pick(q, K)
      /\ Pick(Append(q, l), K \cup {n + 1}) = Append(Pick(q, K), l)
  BY <1>5, PickAppend
<1> QED
  BY <1>4, <1>6, <1>7

LEMMA RoomLinesFrom ==
  ASSUME NEW q \in Seq(LineType)
  PROVE  /\ RoomLines(q) \in Seq(LineType)
         /\ \A i \in DOMAIN RoomLines(q) : \E j \in 1..Len(q) : RoomLines(q)[i] = q[j]
<1> DEFINE K == {i \in DOMAIN q : q[i].text \in News}
<1>1. K \subseteq 1..Len(q)
  BY LenProperties
<1> HIDE DEF K
<1>2. RoomLines(q) = Pick(q, K)
  BY DEF RoomLines, K
<1>3. Pick(q, K) \in Seq(LineType) /\ Range(Pick(q, K)) = {q[i] : i \in K}
  BY <1>1, PickIsSeq, PickRange
<1>4. \A i \in DOMAIN Pick(q, K) : Pick(q, K)[i] \in {q[j] : j \in K}
  BY <1>3 DEF Range
<1> QED
  BY <1>1, <1>2, <1>3, <1>4

LinesNumbered == \A x \in Socket : \A i \in 1..Len(sent[x]) : sent[x][i].n \in 1..Len(log)

\* The feed is a function of the lines that were sent and of the log.
Said(entries, l) == [what |-> l.text, who |-> entries[l.n].by,
                     room |-> entries[l.n].p.room, request |-> entries[l.n].p.n]
FeedFrom(entries, q) == [i \in DOMAIN RoomLines(q) |-> Said(entries, RoomLines(q)[i])]

LEMMA FeedIsFrom ==
  /\ feed = [x \in Socket |-> FeedFrom(log, sent[x])]
  /\ feed' = [x \in Socket |-> FeedFrom(log', sent'[x])]
BY DEF feed, FeedOf, FeedFrom, About, Said

\* What was sent keeps its place in the feed, and says the same, when the log grows.
LEMMA OldFeed ==
  ASSUME NEW S, NEW before \in Seq(S), NEW after, NEW q \in Seq(LineType),
         \A i \in 1..Len(q) : q[i].n \in 1..Len(before),
         \A n \in 1..Len(before) : after[n] = before[n]
  PROVE  FeedFrom(after, q) = FeedFrom(before, q)
<1>1. ASSUME NEW i \in DOMAIN RoomLines(q)
      PROVE  Said(after, RoomLines(q)[i]) = Said(before, RoomLines(q)[i])
  <2>1. PICK j \in 1..Len(q) : RoomLines(q)[i] = q[j]
    BY RoomLinesFrom
  <2> QED
    BY <2>1 DEF Said
<1> QED
  BY <1>1 DEF FeedFrom

\* A line about a room is added to the feed, another line is not.
LEMMA FeedAppend ==
  ASSUME NEW entries, NEW q \in Seq(LineType), NEW l \in LineType
  PROVE  FeedFrom(entries, Append(q, l)) =
           IF l.text \in News THEN Append(FeedFrom(entries, q), Said(entries, l))
           ELSE FeedFrom(entries, q)
<1>1. CASE l.text \notin News
  BY <1>1, RoomLinesAppend DEF FeedFrom
<1>2. CASE l.text \in News
  <2> DEFINE r == RoomLines(q)
             n == Len(r)
             f == FeedFrom(entries, q)
             g == FeedFrom(entries, Append(q, l))
  <2>1. r \in Seq(LineType) /\ n \in Nat /\ DOMAIN r = 1..n
    BY RoomLinesFrom, LenProperties
  <2>2. RoomLines(Append(q, l)) = Append(r, l)
    BY <1>2, RoomLinesAppend
  <2>3. f = [i \in 1..n |-> Said(entries, r[i])]
    BY <2>1 DEF FeedFrom
  <2>4. f = [i \in 1..n |-> f[i]]
    BY <2>3
  <2>5. Append(f, Said(entries, l)) =
          [i \in 1..(n + 1) |-> IF i = n + 1 THEN Said(entries, l) ELSE f[i]]
    <3> HIDE DEF f, n
    <3> QED
      BY <2>1, <2>4, AppendToFunction
  <2> HIDE DEF r
  <2>6. /\ DOMAIN Append(r, l) = 1..(n + 1)
        /\ Append(r, l)[n + 1] = l /\ \A i \in 1..n : Append(r, l)[i] = r[i]
    BY <2>1, AppendProperties, LenProperties
  <2>7. g = [i \in 1..(n + 1) |-> Said(entries, Append(r, l)[i])]
    BY <2>2, <2>6 DEF FeedFrom
  <2> HIDE DEF f, g, n
  <2>8. \A i \in 1..(n + 1) : Said(entries, Append(r, l)[i]) =
          IF i = n + 1 THEN Said(entries, l) ELSE f[i]
    <3>1. \A i \in 1..(n + 1) : i = n + 1 \/ i \in 1..n
      BY <2>1
    <3> QED
      BY <2>3, <2>6, <3>1
  <2>9. g = Append(f, Said(entries, l))
    BY <2>5, <2>7, <2>8
  <2> QED
    BY <1>2, <2>9 DEF f, g
<1> QED
  BY <1>1, <1>2

-----------------------------------------------------------------------------
(* Requests about rooms *)

\* The lines that handling a request adds: at most one reply, and at most one line
\* for each client of an audience.
LEMMA LinesAdded ==
  ASSUME NEW q \in Seq(LineType), NEW a \in LineType, NEW b \in LineType
  PROVE  /\ q \o (<< >> \o << >>) = q
         /\ q \o (<<a>> \o << >>) = Append(q, a)
         /\ q \o (<< >> \o <<b>>) = Append(q, b)
         /\ q \o (<<a>> \o <<b>>) = Append(Append(q, a), b)
<1>1. <<a>> \in Seq(LineType) /\ <<b>> \in Seq(LineType) /\ Append(q, a) \in Seq(LineType)
  BY AppendProperties
<1>2. << >> \in Seq(LineType) /\ << >> \o << >> = << >>
  BY EmptySeq, ConcatEmptySeq
<1>3. <<a>> \o << >> = <<a>> /\ << >> \o <<b>> = <<b>> /\ q \o << >> = q
  BY <1>1, ConcatEmptySeq
<1>4. q \o <<a>> = Append(q, a) /\ q \o <<b>> = Append(q, b)
      /\ Append(q, a) \o <<b>> = Append(Append(q, a), b)
  BY <1>1, AppendIsConcat
<1>5. q \o (<<a>> \o <<b>>) = (q \o <<a>>) \o <<b>>
  BY <1>1, ConcatAssociative
<1> QED
  BY <1>2, <1>3, <1>4, <1>5

\* Handling a request sends reply to the client that made it and then line to audience.
Sends(s, reply, audience, line) ==
  \A x \in Socket : sent'[x] = sent[x] \o ((IF x = s THEN reply ELSE << >>)
                                     \o (IF x \in audience THEN <<line>> ELSE << >>))

LEMMA Published ==
  ASSUME TypeOK, LinesNumbered, NEW s \in Socket, NEW p \in Packet,
         log' = Append(log, [by |-> s, p |-> p]),
         NEW reply, reply = << >> \/ \E t \in Text \ News : reply = <<Line(t)>>,
         NEW audience, NEW text \in News,
         Sends(s, reply, audience, Line(text))
  PROVE  /\ Service!Publish(audience, [what |-> text, who |-> s, room |-> p.room, request |-> p.n])
         /\ LinesNumbered'
<1> DEFINE news == [what |-> text, who |-> s, room |-> p.room, request |-> p.n]
           entry == [by |-> s, p |-> p]
           n == Len(log)
<1>1. /\ log \in Seq([by : Socket, p : Packet]) /\ entry \in [by : Socket, p : Packet]
      /\ n \in Nat /\ DOMAIN log = 1..n
  BY LenProperties DEF TypeOK
<1>2. /\ Len(log') = n + 1 /\ log'[n + 1] = entry /\ \A i \in 1..n : log'[i] = log[i]
  BY <1>1, AppendProperties
<1>3. \A t \in Text : Line(t) \in LineType /\ Line(t).text = t /\ Line(t).n = n + 1
  BY <1>1 DEF Line, LineType
<1>4. text \in Text
  BY DEF News, Text
<1>5. ASSUME NEW x \in Socket
      PROVE  /\ FeedFrom(log', sent'[x]) =
                  IF x \in audience THEN Append(FeedFrom(log, sent[x]), news)
                  ELSE FeedFrom(log, sent[x])
             /\ \A i \in 1..Len(sent'[x]) : sent'[x][i].n \in 1..(n + 1)
  <2> DEFINE q == sent[x]
             b == Line(text)
  <2>1. q \in Seq(LineType) /\ \A i \in 1..Len(q) : q[i].n \in 1..n
    BY DEF TypeOK, LinesNumbered
  <2>2. PICK m \in Seq(LineType) :
          /\ sent'[x] = IF x \in audience THEN Append(m, b) ELSE m
          /\ FeedFrom(log', m) = FeedFrom(log', q)
          /\ \A i \in 1..Len(m) : m[i].n \in 1..(n + 1)
    <3>1. CASE x # s \/ reply = << >>
      <4>1. sent'[x] = IF x \in audience THEN Append(q, b) ELSE q
        <5>1. b \in LineType
          BY <1>3, <1>4
        <5>2. sent'[x] = q \o (<< >> \o (IF x \in audience THEN <<b>> ELSE << >>))
          BY <3>1 DEF Sends
        <5> HIDE DEF b, q
        <5> QED
          BY <2>1, <5>1, <5>2, LinesAdded
      <4>2. \A i \in 1..Len(q) : q[i].n \in 1..(n + 1)
        BY <1>1, <2>1
      <4> QED
        BY <2>1, <4>1, <4>2
    <3>2. CASE x = s /\ reply # << >>
      <4>1. PICK t \in Text \ News : reply = <<Line(t)>>
        BY <3>2
      <4> DEFINE a == Line(t)
                 m == Append(q, a)
      <4>2. a \in LineType /\ b \in LineType /\ a.text \notin News /\ a.n = n + 1
        BY <1>3, <1>4, <4>1
      <4>3. sent'[x] = q \o (<<a>> \o (IF x \in audience THEN <<b>> ELSE << >>))
        BY <3>2, <4>1 DEF Sends
      <4> HIDE DEF a, b, q
      <4>4. sent'[x] = IF x \in audience THEN Append(m, b) ELSE m
        BY <2>1, <4>2, <4>3, LinesAdded
      <4>5. FeedFrom(log', m) = FeedFrom(log', q)
        BY <2>1, <4>2, FeedAppend
      <4>6. /\ m \in Seq(LineType) /\ Len(m) = Len(q) + 1 /\ Len(q) \in Nat
            /\ m[Len(q) + 1] = a /\ \A i \in 1..Len(q) : m[i] = q[i]
        BY <2>1, <4>2, AppendProperties, LenProperties
      <4> HIDE DEF m
      <4>7. \A i \in 1..Len(m) : m[i].n \in 1..(n + 1)
        <5>1. \A i \in 1..Len(m) : i \in 1..Len(q) \/ i = Len(q) + 1
          BY <4>6
        <5>2. \A i \in 1..Len(q) : m[i].n \in 1..n
          BY <2>1, <4>6
        <5>3. m[Len(q) + 1].n = n + 1
          BY <4>2, <4>6
        <5>4. 1..n \subseteq 1..(n + 1) /\ n + 1 \in 1..(n + 1)
          BY <1>1
        <5> HIDE DEF n
        <5> QED
          BY <5>1, <5>2, <5>3, <5>4
      <4> QED
        BY <4>4, <4>5, <4>6, <4>7
    <3> QED
      BY <3>1, <3>2
  <2>3. b \in LineType /\ b.text \in News /\ b.n = n + 1 /\ Said(log', b) = news
    <3>1. b \in LineType /\ b.text = text /\ b.n = n + 1
      BY <1>3, <1>4
    <3> HIDE DEF b
    <3> QED
      BY <1>2, <3>1 DEF Said
  <2> HIDE DEF b, q
  <2>4. FeedFrom(log', q) = FeedFrom(log, q)
    BY <1>1, <1>2, <2>1, OldFeed
  <2>5. FeedFrom(log', sent'[x]) =
          IF x \in audience THEN Append(FeedFrom(log, q), news) ELSE FeedFrom(log, q)
    <3>1. x \in audience =>
            FeedFrom(log', Append(m, b)) = Append(FeedFrom(log', m), Said(log', b))
      BY <2>2, <2>3, FeedAppend
    <3> QED
      BY <2>2, <2>3, <2>4, <3>1
  <2>6. \A i \in 1..Len(sent'[x]) : sent'[x][i].n \in 1..(n + 1)
    <3>1. CASE x \in audience
      <4>1. /\ Len(Append(m, b)) = Len(m) + 1 /\ Len(m) \in Nat
            /\ Append(m, b)[Len(m) + 1] = b /\ \A i \in 1..Len(m) : Append(m, b)[i] = m[i]
        BY <2>3, AppendProperties, LenProperties
      <4>2. \A i \in 1..(Len(m) + 1) : i \in 1..Len(m) \/ i = Len(m) + 1
        BY <4>1
      <4>3. n + 1 \in 1..(n + 1)
        BY <1>1
      <4> HIDE DEF n
      <4> QED
        BY <2>2, <2>3, <3>1, <4>1, <4>2, <4>3
    <3>2. CASE x \notin audience
      BY <2>2, <3>2
    <3> QED
      BY <3>1, <3>2
  <2> QED
    BY <2>5, <2>6 DEF q
<1>6. Service!Publish(audience, news)
  BY <1>5, FeedIsFrom DEF Service!Publish
<1>7. LinesNumbered'
  BY <1>2, <1>5 DEF LinesNumbered
<1> QED
  BY <1>6, <1>7

\* The numbers of the requests about rooms that were handled for a client, and 0
NumbersOf(entries, x) ==
  {0} \cup {entries[i].p.n : i \in {j \in DOMAIN entries : entries[j].by = x /\ entries[j].p.id \in RoomMsg}}

LEMMA LastIsLargest ==
  /\ last = [x \in Socket |-> Largest(NumbersOf(log, x))]
  /\ last' = [x \in Socket |-> Largest(NumbersOf(log', x))]
BY DEF last, RoomRequestsOf, NumbersOf

LEMMA LargestOfBelow ==
  ASSUME NEW m \in Nat \ {0}, NEW N, N \subseteq 0..(m - 1), 0 \in N
  PROVE  Largest(N) < m /\ Largest(N \cup {m}) = m
<1>1. \E g \in N : \A k \in N : k <= g
  <2>1. CASE N = {0}
    BY <2>1
  <2>2. CASE N # {0}
    <3> DEFINE P == N \ {0}
    <3>1. P \subseteq 1..(m - 1) /\ m - 1 \in Nat /\ P # {}
      BY <2>2
    <3> HIDE DEF P
    <3>2. PICK g \in P : \A k \in P : k <= g
      BY <3>1, GreatestIndex
    <3>3. g \in N /\ g \in 1..(m - 1) /\ \A k \in N : k = 0 \/ k \in P
      BY <3>1 DEF P
    <3> QED
      BY <3>2, <3>3
  <2> QED
    BY <2>1, <2>2
<1>2. Largest(N) \in N
  BY <1>1 DEF Largest
<1>3. Largest(N) < m
  <2>1. \A k \in N : k < m
    OBVIOUS
  <2> QED
    BY <1>2, <2>1
<1>4. \A k \in N : k \in Nat /\ k < m
  OBVIOUS
<1>5. m \in N \cup {m} /\ \A k \in N \cup {m} : k <= m
  BY <1>4
<1>6. \A h \in N \cup {m} : (\A k \in N \cup {m} : k <= h) => h = m
  BY <1>4
<1>7. Largest(N \cup {m}) = m
  BY <1>5, <1>6 DEF Largest
<1> QED
  BY <1>3, <1>7

\* A request about a room takes effect as the last of its client, another does not.
LEMMA LastAfter ==
  ASSUME TypeOK, NEW s \in Socket, NEW p \in Packet, p.n > 0,
         log' = Append(log, [by |-> s, p |-> p]),
         \A j \in 1..Len(log) : log[j].by = s => log[j].p.n < p.n
  PROVE  /\ p.id \in RoomMsg => Service!TakesEffect(s, p.n)
         /\ p.id \notin RoomMsg => last' = last
<1> DEFINE entry == [by |-> s, p |-> p]
           n == Len(log)
<1>1. /\ log \in Seq([by : Socket, p : Packet]) /\ entry \in [by : Socket, p : Packet]
      /\ n \in Nat /\ DOMAIN log = 1..n /\ DOMAIN log' = 1..(n + 1)
  BY LenProperties, AppendProperties DEF TypeOK
<1>2. /\ log'[n + 1] = entry /\ \A i \in 1..n : log'[i] = log[i]
  BY <1>1, AppendProperties
<1>3. \A i \in 1..(n + 1) : i \in 1..n \/ i = n + 1
  BY <1>1
<1>4. n + 1 \in 1..(n + 1) /\ 1..n \subseteq 1..(n + 1) /\ p.n \in Nat \ {0}
  BY <1>1, Packets
<1>5. entry.by = s /\ entry.p = p
  OBVIOUS
<1> HIDE DEF entry, n
<1>6. ASSUME NEW x \in Socket
      PROVE  NumbersOf(log', x) =
               IF x = s /\ p.id \in RoomMsg THEN NumbersOf(log, x) \cup {p.n} ELSE NumbersOf(log, x)
  BY <1>1, <1>2, <1>3, <1>4, <1>5 DEF NumbersOf
<1>7. NumbersOf(log, s) \subseteq 0..(p.n - 1) /\ 0 \in NumbersOf(log, s)
  <2>1. ASSUME NEW i \in 1..n, log[i].by = s
        PROVE  log[i].p.n \in 0..(p.n - 1)
    <3>1. log[i] \in [by : Socket, p : Packet]
      BY <1>1, ElementOfSeq DEF n
    <3>2. log[i].p.n \in Nat /\ log[i].p.n < p.n
      BY <2>1, <3>1, Packets DEF n
    <3> QED
      BY <1>4, <3>2
  <2>2. 0 \in 0..(p.n - 1)
    BY <1>4
  <2> QED
    BY <1>1, <2>1, <2>2 DEF NumbersOf
<1>8. Largest(NumbersOf(log, s)) < p.n /\ Largest(NumbersOf(log, s) \cup {p.n}) = p.n
  BY <1>4, <1>7, LargestOfBelow
<1>9. p.id \in RoomMsg => Service!TakesEffect(s, p.n)
  <2> SUFFICES ASSUME p.id \in RoomMsg
               PROVE  p.n > last[s] /\ last' = [last EXCEPT ![s] = p.n]
    BY DEF Service!TakesEffect
  <2>1. last[s] = Largest(NumbersOf(log, s))
    BY LastIsLargest
  <2>2. p.n > last[s]
    BY <1>4, <1>8, <2>1
  <2>3. \A x \in Socket : Largest(NumbersOf(log', x)) =
                            IF x = s THEN p.n ELSE Largest(NumbersOf(log, x))
    BY <1>6, <1>8
  <2> QED
    BY <2>2, <2>3, LastIsLargest
<1>10. p.id \notin RoomMsg => last' = last
  BY <1>6, LastIsLargest
<1> QED
  BY <1>9, <1>10

-----------------------------------------------------------------------------
(* The invariant *)

\* Nothing is received with a name.
NamesWhole ==
  /\ \A x \in Socket \ Range(clients) : stream[x] = << >>
  /\ name = userName

\* A request to join or leave does what its user means.
OrderlyCell(x, i) ==
  LET p == stream[x][i].p
  IN  /\ p.n \in 1..MaxPackets
      /\ p.id = "JOIN" => p.room \notin Range(rooms[x])
      /\ p.id = "LEAVE" => p.room \in Range(rooms[x])
StreamsOrderly ==
  /\ \A x \in Socket : nsent[x] <= MaxPackets
  /\ \A x \in Socket : \A i \in 1..Len(stream[x]) : OrderlyCell(x, i)

ListsAreSets == \A x \in Socket : NoneTwice(rooms[x])

RoomInv == NamesWhole /\ StreamsOrderly /\ ListsAreSets /\ LinesNumbered

LEMMA RoomInit == Init => RoomInv
<1> SUFFICES ASSUME Init PROVE RoomInv
  OBVIOUS
<1>1. /\ Range(clients) = {}
      /\ \A x \in Socket : Len(stream[x]) = 0 /\ Len(sent[x]) = 0 /\ DOMAIN rooms[x] = {}
  BY DEF Init, Range
<1>2. NamesWhole
  BY <1>1 DEF Init, NamesWhole
<1>3. StreamsOrderly
  BY <1>1, ConstantsAssumption DEF Init, StreamsOrderly
<1>4. ListsAreSets /\ LinesNumbered
  BY <1>1 DEF ListsAreSets, NoneTwice, LinesNumbered
<1> QED
  BY <1>2, <1>3, <1>4 DEF RoomInv

-----------------------------------------------------------------------------
(* Each request does what the service promises *)

GoesTo(notices, audience, line) ==
  \A x \in Socket : notices[x] = IF x \in audience THEN <<line>> ELSE << >>

LEMMA TellSends ==
  ASSUME Unbroken, NEW s \in Socket, NEW reply, NEW notices, Tell(s, reply, notices),
         NEW audience, NEW line, GoesTo(notices, audience, line)
  PROVE  Sends(s, reply, audience, line)
<1>1. \A x \in Socket : ~Broken(x)
  BY DEF Unbroken, Broken
<1>2. \A x \in Socket : sent'[x] = sent[x] \o ((IF x = s THEN reply ELSE << >>) \o notices[x])
  BY <1>1 DEF Tell, Transmit
<1> QED
  BY <1>2 DEF GoesTo, Sends

\* The notices go to the other members of the room, once to each.
LEMMA NoticesOnce ==
  ASSUME TypeOK, ListsAreSets, name = userName, NEW s \in Socket, NEW p \in Packet,
         p.from = s, p.room \in Room, NEW text, NEW after,
         \A x \in Socket \ {s} : after[x] = rooms[x]
  PROVE  GoesTo(Notices(p, text, after), Service!Others(s, member[p.room]), Line(text))
<1> SUFFICES ASSUME NEW x \in Socket
             PROVE  Notices(p, text, after)[x] =
                      IF x \in Service!Others(s, member[p.room]) THEN <<Line(text)>> ELSE << >>
  BY DEF GoesTo
<1>1. x \in Service!Others(s, member[p.room]) <=>
        p.room \in Range(rooms[x]) /\ userName[x] # userName[s]
  BY DEF Service!Others, member
<1>2. CASE userName[x] = userName[s]
  BY <1>1, <1>2 DEF Notices
<1>3. CASE userName[x] # userName[s]
  <2>1. Notices(p, text, after)[x] = Repeat(Line(text), Copies(rooms[x], p.room))
    BY <1>3 DEF Notices
  <2>2. rooms[x] \in Seq(Room) /\ NoneTwice(rooms[x])
    BY DEF TypeOK, ListsAreSets
  <2> QED
    BY <1>1, <1>3, <2>1, <2>2, CopiesOnce
<1> QED
  BY <1>2, <1>3

\* What is known of a request that is handled.
Handled(s, p) ==
  /\ p \in Packet /\ p.from = s /\ p.n \in 1..MaxPackets
  /\ log' = Append(log, [by |-> s, p |-> p])
  /\ \A j \in 1..Len(log) : log[j].by = s => log[j].p.n < p.n

\* What the service does with it.
Served(s, p) ==
  /\ [Service!Next]_(Service!service)
  /\ LinesNumbered' /\ ListsAreSets'
  /\ \A x \in Socket \ {s} : rooms'[x] = rooms[x]

LEMMA HandledLast ==
  ASSUME TypeOK, NEW s \in Socket, NEW p, Handled(s, p)
  PROVE  /\ p \in Packet /\ p.n \in 1..MaxPackets
         /\ p.id \in RoomMsg => Service!TakesEffect(s, p.n) /\ p.room \in Room
         /\ p.id \notin RoomMsg => last' = last
<1>1. p \in Packet /\ p.n > 0
  BY DEF Handled
<1> QED
  BY <1>1, LastAfter, Packets DEF Handled

LEMMA JoinServes ==
  ASSUME RequestInv(Socket), RoomInv, NEW s \in Socket, NEW p, Handled(s, p), Join(s, p),
         p.room \notin Range(rooms[s])
  PROVE  Served(s, p)
<1> DEFINE r == p.room
           after == [rooms EXCEPT ![s] = Append(@, r)]
<1>1. /\ TypeOK /\ Unbroken /\ ListsAreSets /\ LinesNumbered /\ name = userName
      /\ rooms \in [Socket -> Seq(Room)]
  BY DEF RequestInv, StopInv, RoomInv, NamesWhole, TypeOK
<1>2. /\ p \in Packet /\ p.from = s /\ p.n \in 1..MaxPackets /\ r \in Room
      /\ Service!TakesEffect(s, p.n)
  BY <1>1, HandledLast DEF Join, RoomMsg, Handled
<1>3. /\ rooms' = after /\ Tell(s, <<Line("joined")>>, Notices(p, "userJoined", after))
  BY DEF Join
<1>4. /\ \A x \in Socket \ {s} : after[x] = rooms[x]
      /\ NoneTwice(after[s]) /\ Range(after[s]) = Range(rooms[s]) \cup {r}
  <2>1. rooms[s] \in Seq(Room) /\ NoneTwice(rooms[s])
    BY <1>1 DEF ListsAreSets
  <2> QED
    BY <1>1, <1>2, <2>1, AppendOnce
<1> HIDE DEF after
<1> DEFINE audience == Service!Others(s, member[r])
<1>5. Service!Publish(audience, [what |-> "userJoined", who |-> s, room |-> r, request |-> p.n])
      /\ LinesNumbered'
  <2>1. GoesTo(Notices(p, "userJoined", after), audience, Line("userJoined"))
    BY <1>1, <1>2, <1>4, NoticesOnce
  <2> HIDE DEF audience
  <2>2. Sends(s, <<Line("joined")>>, audience, Line("userJoined"))
    BY <1>1, <1>3, <2>1, TellSends
  <2>3. "userJoined" \in News /\ \E t \in Text \ News : <<Line("joined")>> = <<Line(t)>>
    BY DEF Text, News
  <2>4. log' = Append(log, [by |-> s, p |-> p])
    BY DEF Handled
  <2>5. TypeOK /\ LinesNumbered /\ p \in Packet
    BY <1>1, <1>2
  <2> QED
    BY <2>2, <2>3, <2>4, <2>5, Published
<1>6. s \notin member[r] /\ member' = [member EXCEPT ![r] = @ \cup {s}]
  <2>1. \A room \in Room, x \in Socket :
          room \in Range(rooms'[x]) <=> room \in Range(rooms[x]) \/ (x = s /\ room = r)
    BY <1>3, <1>4
  <2>2. \A room \in Room : member'[room] = IF room = r THEN member[r] \cup {s} ELSE member[room]
    BY <2>1 DEF member
  <2>3. s \notin member[r]
    BY <1>2 DEF member
  <2>4. member' = [room \in Room |-> member'[room]] /\ member = [room \in Room |-> member[room]]
    BY DEF member
  <2> QED
    BY <2>2, <2>3, <2>4
<1>7. Service!Enter(s, r, p.n)
  BY <1>2, <1>5, <1>6 DEF Service!Enter
<1>8. ListsAreSets'
  BY <1>1, <1>3, <1>4 DEF ListsAreSets
<1> QED
  BY <1>2, <1>3, <1>4, <1>5, <1>7, <1>8 DEF Served, Service!Next

LEMMA LeaveServes ==
  ASSUME RequestInv(Socket), RoomInv, NEW s \in Socket, NEW p, Handled(s, p), Leave(s, p),
         p.room \in Range(rooms[s])
  PROVE  Served(s, p)
<1> DEFINE r == p.room
           after == [rooms EXCEPT ![s] = EraseRoom(@, r)]
<1>1. /\ TypeOK /\ Unbroken /\ ListsAreSets /\ LinesNumbered /\ name = userName
      /\ rooms \in [Socket -> Seq(Room)]
  BY DEF RequestInv, StopInv, RoomInv, NamesWhole, TypeOK
<1>2. /\ p \in Packet /\ p.from = s /\ p.n \in 1..MaxPackets /\ r \in Room
      /\ Service!TakesEffect(s, p.n)
  BY <1>1, HandledLast DEF Leave, RoomMsg, Handled
<1>3. /\ rooms' = after /\ Tell(s, <<Line("left")>>, Notices(p, "userLeft", after))
  BY DEF Leave
<1>4. /\ \A x \in Socket \ {s} : after[x] = rooms[x]
      /\ NoneTwice(after[s]) /\ Range(after[s]) = Range(rooms[s]) \ {r}
  <2>1. rooms[s] \in Seq(Room) /\ NoneTwice(rooms[s])
    BY <1>1 DEF ListsAreSets
  <2> QED
    BY <1>1, <1>2, <2>1, EraseRoomOnce
<1> HIDE DEF after
<1> DEFINE audience == Service!Others(s, member[r])
<1>5. Service!Publish(audience, [what |-> "userLeft", who |-> s, room |-> r, request |-> p.n])
      /\ LinesNumbered'
  <2>1. GoesTo(Notices(p, "userLeft", after), audience, Line("userLeft"))
    BY <1>1, <1>2, <1>4, NoticesOnce
  <2> HIDE DEF audience
  <2>2. Sends(s, <<Line("left")>>, audience, Line("userLeft"))
    BY <1>1, <1>3, <2>1, TellSends
  <2>3. "userLeft" \in News /\ \E t \in Text \ News : <<Line("left")>> = <<Line(t)>>
    BY DEF Text, News
  <2>4. log' = Append(log, [by |-> s, p |-> p])
    BY DEF Handled
  <2>5. TypeOK /\ LinesNumbered /\ p \in Packet
    BY <1>1, <1>2
  <2> QED
    BY <2>2, <2>3, <2>4, <2>5, Published
<1>6. s \in member[r] /\ member' = [member EXCEPT ![r] = @ \ {s}]
  BY <1>2, <1>3, <1>4 DEF member
<1>7. Service!Quit(s, r, p.n)
  BY <1>2, <1>5, <1>6 DEF Service!Quit
<1>8. ListsAreSets'
  BY <1>1, <1>3, <1>4 DEF ListsAreSets
<1> QED
  BY <1>2, <1>3, <1>4, <1>5, <1>7, <1>8 DEF Served, Service!Next

LEMMA SendServes ==
  ASSUME RequestInv(Socket), RoomInv, NEW s \in Socket, NEW p, Handled(s, p), SendMessage(s, p)
  PROVE  Served(s, p)
<1> DEFINE r == p.room
           audience == member[r]
           copies == [x \in Socket |-> Repeat(Line("chat"), Copies(rooms[x], r))]
<1>1. /\ TypeOK /\ Unbroken /\ ListsAreSets /\ LinesNumbered
      /\ rooms \in [Socket -> Seq(Room)]
  BY DEF RequestInv, StopInv, RoomInv, TypeOK
<1>2. /\ p \in Packet /\ p.n \in 1..MaxPackets /\ r \in Room
      /\ Service!TakesEffect(s, p.n)
  BY <1>1, HandledLast DEF SendMessage, RoomMsg
<1>3. /\ rooms' = rooms
      /\ Tell(s, << >>, copies)
  BY DEF SendMessage
<1>4. Service!Publish(audience, [what |-> "chat", who |-> s, room |-> r, request |-> p.n])
      /\ LinesNumbered'
  <2>1. GoesTo(copies, audience, Line("chat"))
    <3> SUFFICES ASSUME NEW x \in Socket
                 PROVE  copies[x] =
                          IF x \in audience THEN <<Line("chat")>> ELSE << >>
      BY DEF GoesTo
    <3>1. rooms[x] \in Seq(Room) /\ NoneTwice(rooms[x])
      BY <1>1 DEF ListsAreSets
    <3>2. x \in audience <=> r \in Range(rooms[x])
      BY <1>2 DEF member
    <3> HIDE DEF audience
    <3> QED
      BY <3>1, <3>2, CopiesOnce
  <2> HIDE DEF audience, copies
  <2>2. Sends(s, << >>, audience, Line("chat"))
    BY <1>1, <1>3, <2>1, TellSends
  <2>3. "chat" \in News
    BY DEF News
  <2>4. log' = Append(log, [by |-> s, p |-> p])
    BY DEF Handled
  <2>5. TypeOK /\ LinesNumbered /\ p \in Packet
    BY <1>1, <1>2
  <2> QED
    BY <2>2, <2>3, <2>4, <2>5, Published
<1>5. Service!Post(s, r, p.n)
  BY <1>2, <1>3, <1>4 DEF Service!Post, member
<1>6. ListsAreSets'
  BY <1>1, <1>3 DEF ListsAreSets
<1> QED
  BY <1>2, <1>3, <1>4, <1>5, <1>6 DEF Served, Service!Next

LEMMA AccountServes ==
  ASSUME RequestInv(Socket), RoomInv, NEW s \in Socket, NEW p, Handled(s, p), RequestAccount(s, p)
  PROVE  Served(s, p)
<1>1. TypeOK /\ LinesNumbered /\ ListsAreSets /\ log \in Seq([by : Socket, p : Packet])
  BY DEF RequestInv, StopInv, RoomInv, TypeOK
<1>2. p \in Packet /\ last' = last /\ rooms' = rooms /\ sent' = sent
  BY <1>1, HandledLast DEF RequestAccount, RoomMsg, AccountMsg
<1>3. member' = member /\ ListsAreSets'
  BY <1>1, <1>2 DEF member, ListsAreSets
<1> DEFINE entry == [by |-> s, p |-> p]
<1>4. log' = Append(log, entry) /\ entry \in [by : Socket, p : Packet]
  BY <1>2 DEF Handled
<1> HIDE DEF entry
<1>5. Len(log') = Len(log) + 1 /\ Len(log) \in Nat /\ \A n \in 1..Len(log) : log'[n] = log[n]
  BY <1>1, <1>4, AppendProperties, LenProperties
<1>6. LinesNumbered'
  BY <1>1, <1>2, <1>5 DEF LinesNumbered
<1>7. \A x \in Socket : FeedFrom(log', sent[x]) = FeedFrom(log, sent[x])
  BY <1>1, <1>5, OldFeed DEF LinesNumbered, TypeOK
<1>8. feed' = feed
  BY <1>2, <1>7, FeedIsFrom
<1> QED
  BY <1>2, <1>3, <1>6, <1>8 DEF Served, Service!service

\* What is read from a stream does what its user means, and what is left is orderly.
LEMMA ReadServes ==
  ASSUME RequestInv(Socket), RoomInv, NEW s \in Socket, ReadPacket(s)
  PROVE  RoomInv' /\ [Service!Next]_(Service!service)
<1> DEFINE q == stream[s]
           p == Head(q).p
<1>1. /\ TypeOK /\ StreamsOrderly /\ NamesWhole /\ AcceptedOnce
      /\ StreamsAhead /\ OneRequest(Socket) /\ OnceInOrder(Socket)
      /\ stream \in [Socket -> Seq(Cell)]
  BY DEF RequestInv, SequenceInv, StopInv, RoomInv, TypeOK
<1>2. q \in Seq(Cell) /\ q # << >> /\ 1 \in 1..Len(q) /\ Head(q) = q[1]
  BY <1>1 DEF ReadPacket
<1>3. Head(q) \in Cell
  BY <1>2, HeadTailProperties
<1>4. p \in Packet /\ AheadCell(s, 1) /\ OrderlyCell(s, 1) /\ q[1].k = 1
  BY <1>1, <1>2, <1>3 DEF Cell, StreamsAhead, StreamsOrderly, OneRequest
<1>5. Handled(s, p)
  <2>1. \A j \in 1..Len(log) : log[j].by = s => log[j].p.from = s
    BY <1>1, LogTyped DEF OnceInOrder
  <2>2. \A j \in 1..Len(log) : log[j].by = s => log[j].p.n < p.n
    BY <1>2, <1>4, <2>1 DEF AheadCell
  <2>3. p.from = s /\ p.n \in 1..MaxPackets
    BY <1>2, <1>4 DEF AheadCell, OrderlyCell
  <2> QED
    BY <1>4, <2>2, <2>3 DEF ReadPacket, Handle, Handled
<1>6. /\ p.id = "JOIN" => p.room \notin Range(rooms[s])
      /\ p.id = "LEAVE" => p.room \in Range(rooms[s])
  BY <1>2, <1>4 DEF OrderlyCell
<1>7. /\ Join(s, p) \/ Leave(s, p) \/ SendMessage(s, p) \/ RequestAccount(s, p)
      /\ stream' = [stream EXCEPT ![s] = Rest(@)]
      /\ UNCHANGED <<clientVars, tableVars>>
      /\ Serving(s)
  BY DEF ReadPacket, Handle
<1> HIDE DEF p
<1>8. Served(s, p)
  <2>1. Join(s, p) => p.id = "JOIN"
    BY DEF Join
  <2>2. Leave(s, p) => p.id = "LEAVE"
    BY DEF Leave
  <2> QED
    BY <1>5, <1>6, <1>7, <2>1, <2>2, JoinServes, LeaveServes, SendServes, AccountServes
<1>9. NamesWhole'
  <2>1. s \in Range(clients)
    BY <1>1, <1>7, ServingIsClient
  <2> QED
    BY <1>1, <1>7, <2>1 DEF NamesWhole, tableVars
<1>10. StreamsOrderly'
  <2>1. nsent' = nsent
    BY <1>7 DEF clientVars
  <2>2. ASSUME NEW x \in Socket, NEW i \in 1..Len(stream'[x])
        PROVE  OrderlyCell(x, i)'
    <3>1. CASE x = s
      <4>1. stream'[s] = << >>
        BY <1>1, <1>7, NothingLeft
      <4> QED
        BY <2>2, <3>1, <4>1
    <3>2. CASE x # s
      <4>1. stream'[x] = stream[x] /\ rooms'[x] = rooms[x]
        BY <1>1, <1>7, <1>8, <3>2 DEF Served
      <4> QED
        BY <1>1, <2>2, <4>1 DEF StreamsOrderly, OrderlyCell
    <3> QED
      BY <3>1, <3>2
  <2> QED
    BY <1>1, <2>1, <2>2 DEF StreamsOrderly
<1> QED
  BY <1>8, <1>9, <1>10 DEF RoomInv, Served

-----------------------------------------------------------------------------
(* The other steps *)

ServiceQuiet == UNCHANGED <<member, feed, last>>

LEMMA SameService ==
  ASSUME UNCHANGED <<rooms, sent, log>>
  PROVE  ServiceQuiet
BY LastIsLargest, FeedIsFrom DEF member, ServiceQuiet

\* The answer to an account request is not about a room.
LEMMA AnswerServes ==
  ASSUME RequestInv(Socket), RoomInv, NEW s \in Socket, ReceiveAnswer(s)
  PROVE  RoomInv' /\ ServiceQuiet
<1> DEFINE line == [n |-> Len(log), text |-> "answer", of |-> Head(fromAuth).of]
           none == [x \in Socket |-> << >>]
<1>1. /\ TypeOK /\ Unbroken /\ LinesNumbered /\ Waiting
      /\ log \in Seq([by : Socket, p : Packet]) /\ fromAuth \in Seq([of : Nat, k : Nat])
      /\ \A x \in Socket : sent[x] \in Seq(LineType)
  BY DEF RequestInv, StopInv, RoomInv, TypeOK
<1>2. UNCHANGED <<rooms, log, clientVars, tableVars, stream>>
  BY DEF ReceiveAnswer
<1>3. sent' = sent \/ Tell(s, <<line>>, none)
  BY DEF ReceiveAnswer, NoAnswer, SendAnswer
<1>4. line \in LineType /\ line.text \notin News /\ line.n \in 1..Len(log)
  <2>1. log # << >> /\ Len(log) \in Nat
    BY <1>1, LenProperties DEF ReceiveAnswer, Waiting
  <2>2. Len(log) \in 1..Len(log)
    BY <1>1, <2>1
  <2>3. Head(fromAuth).of \in Nat
    <3>1. Head(fromAuth) \in [of : Nat, k : Nat]
      BY <1>1, HeadTailProperties DEF ReceiveAnswer
    <3> QED
      BY <3>1
  <2> QED
    BY <2>1, <2>2, <2>3 DEF LineType, Text, News
<1> HIDE DEF line
<1>5. \A x \in Socket : sent'[x] = sent[x] \/ sent'[x] = Append(sent[x], line)
  <2>1. CASE Tell(s, <<line>>, none)
    <3>1. GoesTo(none, {}, line)
      BY DEF GoesTo
    <3> HIDE DEF none
    <3>2. Sends(s, <<line>>, {}, line)
      BY <1>1, <2>1, <3>1, TellSends
    <3>3. \A x \in Socket : sent'[x] = sent[x] \o ((IF x = s THEN <<line>> ELSE << >>) \o << >>)
      BY <3>2 DEF Sends
    <3> QED
      BY <1>1, <1>4, <3>3, LinesAdded
  <2> QED
    BY <1>3, <2>1
<1>6. \A x \in Socket : FeedFrom(log, sent'[x]) = FeedFrom(log, sent[x])
  BY <1>1, <1>4, <1>5, FeedAppend
<1>7. ServiceQuiet
  BY <1>2, <1>6, LastIsLargest, FeedIsFrom DEF member, ServiceQuiet
<1>8. LinesNumbered'
  <2> SUFFICES ASSUME NEW x \in Socket, NEW i \in 1..Len(sent'[x])
               PROVE  sent'[x][i].n \in 1..Len(log)
    BY <1>2 DEF LinesNumbered
  <2>1. CASE sent'[x] = sent[x]
    BY <1>1, <2>1 DEF LinesNumbered
  <2>2. CASE sent'[x] = Append(sent[x], line)
    <3>1. /\ Len(sent'[x]) = Len(sent[x]) + 1 /\ Len(sent[x]) \in Nat
          /\ sent'[x][Len(sent[x]) + 1] = line
          /\ \A j \in 1..Len(sent[x]) : sent'[x][j] = sent[x][j]
      BY <1>1, <1>4, <2>2, AppendProperties, LenProperties
    <3>2. i = Len(sent[x]) + 1 \/ i \in 1..Len(sent[x])
      BY <3>1
    <3> QED
      BY <1>1, <1>4, <3>1, <3>2 DEF LinesNumbered
  <2> QED
    BY <1>5, <2>1, <2>2
<1>9. NamesWhole' /\ ListsAreSets' /\ StreamsOrderly'
  BY <1>2 DEF RoomInv, NamesWhole, ListsAreSets, StreamsOrderly, OrderlyCell,
              clientVars, tableVars
<1> QED
  BY <1>7, <1>8, <1>9 DEF RoomInv

LEMMA RegisterServes ==
  ASSUME RequestInv(Socket), RoomInv, NEW s \in Socket, Register(s)
  PROVE  RoomInv' /\ ServiceQuiet
<1>1. /\ TypeOK /\ AcceptedOnce /\ NamesWhole /\ stream \in [Socket -> Seq(Cell)]
      /\ name \in [Socket -> User \cup {Garbled}]
  BY DEF RequestInv, StopInv, RoomInv, TypeOK
<1>2. backlog # << >> /\ Head(backlog) = s /\ backlog' = Tail(backlog)
  BY <1>1 DEF Register
<1>3. s \notin Range(clients) /\ stream[s] = << >>
  BY <1>1, <1>2, BacklogTail DEF AcceptedOnce, NamesWhole
<1>4. stream' = stream /\ name' = name
  <2>1. << >> \in Seq(Cell) /\ Len(<< >>) = 0
    OBVIOUS
  <2>2. SubSeq(<< >>, BufLen, 0) = << >>
    BY <2>1, ConstantsAssumption
  <2>3. userName[s] = name[s]
    BY <1>1 DEF NamesWhole
  <2> QED
    BY <1>1, <1>3, <2>1, <2>2, <2>3 DEF Register
<1>5. UNCHANGED <<nsent, rooms, sent, log>> /\ clients' = Append(clients, s)
  BY DEF Register
<1>6. Range(clients') = Range(clients) \cup {s}
  BY <1>1, <1>5, TableGrows
<1>7. NamesWhole'
  BY <1>1, <1>4, <1>5, <1>6 DEF NamesWhole
<1>8. StreamsOrderly' /\ ListsAreSets' /\ LinesNumbered'
  BY <1>4, <1>5 DEF RoomInv, StreamsOrderly, OrderlyCell, ListsAreSets, LinesNumbered
<1> QED
  BY <1>5, <1>7, <1>8, SameService DEF RoomInv

\* A user who keeps to the rules adds a request that does what it should.
LEMMA SendKeepsRooms ==
  ASSUME RequestInv(Socket), RoomInv, NEW s \in Socket, NEW p \in Requests(s), ClientSend(s, p),
         OrderlyStep
  PROVE  RoomInv'
<1>1. /\ TypeOK /\ NamesWhole /\ StreamsOrderly /\ AcceptedOnce
      /\ stream \in [Socket -> Seq(Cell)] /\ nsent \in [Socket -> Nat]
  BY DEF RequestInv, StopInv, RoomInv, TypeOK
<1>2. p \in Packet /\ p.n = nsent[s] + 1 /\ p.n \in 1..MaxPackets
  <2>1. p \in Packet /\ p.n = nsent[s] + 1
    BY <1>1, RequestsArePackets, Packets
  <2>2. nsent[s] < MaxPackets /\ nsent[s] \in Nat
    BY <1>1 DEF ClientSend
  <2> QED
    BY <2>1, <2>2, ConstantsAssumption
<1>3. /\ nsent[s] < MaxPackets /\ nsent' = [nsent EXCEPT ![s] = @ + 1]
      /\ UNCHANGED <<clients, name, rooms, sent, log>>
  BY DEF ClientSend, serverVars, tableVars
<1>4. KeepsRules(s, p)
  <2>1. nsent'[s] # nsent[s] /\ NewRequest(s) = p
    BY <1>1, PacedSend
  <2>2. KeepsRules(s, NewRequest(s))
    BY <2>1 DEF OrderlyStep
  <2> QED
    BY <2>1, <2>2
<1>5. /\ stream' = [stream EXCEPT ![s] = Cells(p)]
      /\ \A k \in 1..Len(Cells(p)) : Cells(p)[k] = [p |-> p, k |-> k]
  BY <1>1, <1>4, PacedSend DEF KeepsRules, KeepsPace
<1>6. ASSUME NEW x \in Socket, NEW i \in 1..Len(stream'[x])
      PROVE  OrderlyCell(x, i)'
  <2>1. CASE x # s
    BY <1>1, <1>3, <1>5, <1>6, <2>1 DEF StreamsOrderly, OrderlyCell
  <2>2. CASE x = s
    <3>1. stream'[x][i] = [p |-> p, k |-> i]
      BY <1>1, <1>5, <1>6, <2>2
    <3>2. stream'[x][i].p = p
      BY <3>1
    <3> QED
      BY <1>2, <1>3, <1>4, <2>2, <3>2 DEF KeepsRules, OrderlyCell
  <2> QED
    BY <2>1, <2>2
<1>7. \A x \in Socket : nsent'[x] <= MaxPackets
  BY <1>1, <1>3, ConstantsAssumption DEF StreamsOrderly
<1>8. ListsAreSets' /\ LinesNumbered'
  BY <1>3 DEF RoomInv, ListsAreSets, LinesNumbered
<1>9. NamesWhole'
  <2>1. s \in Range(clients)
    BY <1>1, <1>4 DEF KeepsRules, KeepsPace, AcceptedOnce
  <2> QED
    BY <1>1, <1>3, <1>5, <2>1 DEF NamesWhole
<1> QED
  BY <1>6, <1>7, <1>8, <1>9 DEF RoomInv, StreamsOrderly

\* Who keeps to the rules keeps pace.
LEMMA OrderlyIsPaced == [Next /\ OrderlyStep]_vars => [Next /\ PacedStep(Socket)]_vars
BY DEF OrderlyStep, PacedStep, KeepsRules

LEMMA RoomStep ==
  ASSUME Faults \cap {"rst", "kill", "authloss"} = {},
         RequestInv(Socket), RoomInv, [Next /\ OrderlyStep]_vars
  PROVE  RoomInv' /\ [Service!Next]_(Service!service)
<1> DEFINE Goal == RoomInv' /\ [Service!Next]_(Service!service)
<1>1. TypeOK /\ Unbroken /\ StopInv
  BY DEF RequestInv, StopInv
<1>2. ServiceQuiet => [Service!Next]_(Service!service)
  BY DEF ServiceQuiet, Service!service
<1>3. ASSUME UNCHANGED <<nsent, stream, sent, clients, name, rooms, log>> PROVE Goal
  <2>1. NamesWhole' /\ ListsAreSets' /\ LinesNumbered' /\ StreamsOrderly'
    BY <1>3 DEF RoomInv, NamesWhole, ListsAreSets, LinesNumbered, StreamsOrderly, OrderlyCell
  <2> QED
    BY <1>2, <1>3, <2>1, SameService DEF RoomInv
<1>4. ASSUME UNCHANGED vars \/ Select \/ SelectFails \/ SelectTimeout PROVE Goal
  <2> HIDE DEF Goal
  <2> QED
    BY <1>3, <1>4 DEF vars, Select, SelectFails, SelectTimeout, clientVars, tableVars
<1>5. ASSUME NEW s \in Socket, AcceptFails(s) PROVE Goal
  BY <1>1, <1>5 DEF AcceptFails, Unbroken
<1>6. ASSUME NEW s \in Socket, Disconnect(s) \/ AnswerAborts(s) PROVE Goal
  <2> HIDE DEF Goal
  <2> QED
    BY <1>3, <1>6 DEF Disconnect, AnswerAborts, clientVars, tableVars, NoAnswer
<1>7. ASSUME NEW s \in Socket, ReceiveAnswer(s) PROVE Goal
  BY <1>2, <1>7, AnswerServes
<1>8. ASSUME NEW s \in Socket, Register(s) PROVE Goal
  BY <1>2, <1>8, RegisterServes
<1>9. ASSUME NEW s \in Socket, ReadPacket(s) PROVE Goal
  BY <1>9, ReadServes
<1>10. ASSUME NEW s \in Socket, ReadTail(s) PROVE Goal
  <2>1. stream[s] \in Seq(Cell) /\ stream[s] # << >>
    BY <1>1, <1>10 DEF ReadTail, TypeOK
  <2>2. Head(Chunk(stream[s])) = stream[s][1]
    BY <2>1, ConstantsAssumption DEF Chunk
  <2>3. stream[s][1].k = 1
    BY <2>1 DEF RequestInv, OneRequest
  <2> QED
    BY <1>10, <2>2, <2>3 DEF ReadTail
<1>11. ASSUME NEW s \in Socket, ReadError(s) \/ AnswerLost(s) PROVE Goal
  BY <1>1, <1>11 DEF ReadError, Broken, AnswerLost, Unbroken
<1>12. ASSUME NEW s \in Socket, ClientStep(s), OrderlyStep PROVE Goal
  <2>1. ASSUME SendName(s) \/ Exit(s) \/ Connect(s) PROVE Goal
    <3> HIDE DEF Goal
    <3> QED
      BY <1>3, <2>1 DEF SendName, Exit, Connect, serverVars, tableVars
  <2>2. ASSUME NEW p \in Requests(s), ClientSend(s, p) PROVE Goal
    BY <1>2, <1>12, <2>2, SendKeepsRooms, SameService DEF ClientSend, serverVars
  <2> HIDE DEF Goal
  <2>3. ~Kill(s) /\ ~ResetAfterClose(s)
    BY DEF Kill, ResetAfterClose
  <2> QED
    BY <1>12, <2>1, <2>2, <2>3 DEF ClientStep
<1>13. ASSUME AuthStep PROVE Goal
  <2> HIDE DEF Goal
  <2> QED
    BY <1>3, <1>13 DEF AuthStep, AuthAnswers, AuthRepeats, AuthSkipsRest, AuthIgnores,
                       clientVars, serverVars, tableVars
<1>14. ~AuthDies
  BY DEF AuthDies
<1> HIDE DEF Goal
<1>15. ASSUME UNCHANGED vars PROVE Goal
  BY <1>4, <1>15
<1>16. ASSUME Next, OrderlyStep PROVE Goal
  BY <1>4, <1>5, <1>6, <1>7, <1>8, <1>9, <1>10, <1>11, <1>12, <1>13, <1>14, <1>16
     DEF Next, ServerStep, Stopped
<1> QED
  BY <1>15, <1>16 DEF Goal

LEMMA ServiceInit == Init => Service!Init
<1> SUFFICES ASSUME Init PROVE Service!Init
  OBVIOUS
<1>1. /\ DOMAIN log = {} /\ \A x \in Socket : sent[x] = << >> /\ Range(rooms[x]) = {}
  BY DEF Init, Range
<1>2. member = [r \in Room |-> {}]
  BY <1>1 DEF member
<1>3. last = [x \in Socket |-> 0]
  <2>1. \A x \in Socket : NumbersOf(log, x) = {0}
    BY <1>1 DEF NumbersOf
  <2>2. Largest({0}) = 0
    BY DEF Largest
  <2> QED
    BY <2>1, <2>2, LastIsLargest
<1>4. feed = [x \in Socket |-> << >>]
  <2>1. << >> \in Seq(LineType) /\ Len(<< >>) = 0
    BY EmptySeq
  <2>2. \A i \in DOMAIN RoomLines(<< >>) : \E j \in 1..Len(<< >>) : RoomLines(<< >>)[i] = << >>[j]
    BY <2>1, RoomLinesFrom
  <2>3. DOMAIN RoomLines(<< >>) = {}
    BY <2>1, <2>2
  <2>4. FeedFrom(log, << >>) = << >>
    BY <2>3 DEF FeedFrom
  <2> QED
    BY <1>1, <2>4, FeedIsFrom
<1> QED
  BY <1>2, <1>3, <1>4 DEF Service!Init

\* The room service is what users get: as long as users keep to the rules and no
\* connection is lost, every step of the server that adds to a room, takes from it or
\* writes to it is a step of the room service, and all others leave its members, feeds
\* and numbers alone.  So the passes over the clients and the copies of a line made in the
\* handlers are not to be told from one list of members and one feed for each of them,
\* whatever the sizes of the requests that one recv() takes in are.
THEOREM RoomsRefined ==
  ASSUME Faults \cap {"rst", "kill", "authloss"} = {}
  PROVE  OrderlySpec => RefinesRoomService
<1>1. Init => RequestInv(Socket) /\ RoomInv /\ Service!Init
  BY RequestInit, RoomInit, ServiceInit
<1>2. /\ RequestInv(Socket) /\ RoomInv /\ [Next /\ OrderlyStep]_vars
      => RequestInv(Socket)' /\ RoomInv' /\ [Service!Next]_(Service!service)
  BY OrderlyIsPaced, RequestStep, RoomStep
<1> QED
  BY <1>1, <1>2, PTL DEF OrderlySpec, RefinesRoomService, Service!Spec
=============================================================================
