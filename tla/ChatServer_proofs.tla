-------------------------- MODULE ChatServer_proofs --------------------------
(***************************************************************************)
(* Theorems about the chat server, for every set of connections and rooms, *)
(* every size of requests, answers, recv() buffers and fd_sets, and every  *)
(* combination of faults the statements do not exclude.                    *)
(***************************************************************************)
EXTENDS ChatProperties, TLAPS, FiniteSetTheorems, SequenceTheorems,
        NaturalsInduction, WellFoundedInduction

-----------------------------------------------------------------------------
(* Counting *)

\* A non-empty set of natural numbers has a least element.
LEMMA LeastNat ==
  ASSUME NEW S \in SUBSET Nat, S # {}
  PROVE  \E m \in S : \A k \in S : m <= k
<1>1. PICK x \in S : \A y \in S : ~(<<y, x>> \in OpToRel(<, Nat))
  BY NatLessThanWellFounded, WFMin
<1>2. \A y \in S : ~(y < x)
  BY <1>1 DEF OpToRel
<1> QED
  BY <1>2

LEMMA IndicesFinite ==
  ASSUME NEW n \in Nat, NEW S, S \subseteq 1..n
  PROVE  IsFiniteSet(S) /\ Cardinality(S) \in Nat
<1>1. IsFiniteSet(1..n) /\ S \in SUBSET (1..n)
  BY FS_Interval
<1> QED
  BY <1>1, FS_Subset, FS_CardinalityType

\* UpTo(S, i) grows one element at a time.
LEMMA CountUpTo ==
  ASSUME NEW n \in Nat, NEW S, S \subseteq 1..n
  PROVE  /\ \A i \in 0..n : Cardinality(UpTo(S, i)) \in Nat
         /\ Cardinality(UpTo(S, 0)) = 0
         /\ \A i \in 1..n : i \in S =>
              Cardinality(UpTo(S, i)) = Cardinality(UpTo(S, i - 1)) + 1
         /\ \A i \in 1..n : i \notin S => UpTo(S, i) = UpTo(S, i - 1)
         /\ UpTo(S, n) = S
<1>1. IsFiniteSet(S)
  BY IndicesFinite
<1>2. \A i : UpTo(S, i) \in SUBSET S
  BY DEF UpTo
<1>3. \A i : IsFiniteSet(UpTo(S, i)) /\ Cardinality(UpTo(S, i)) \in Nat
  BY <1>1, <1>2, FS_Subset, FS_CardinalityType
<1>4. UpTo(S, 0) = {}
  <2> SUFFICES ASSUME NEW k \in S, k <= 0 PROVE FALSE
    BY DEF UpTo
  <2> QED
    OBVIOUS
<1>5. ASSUME NEW i \in 1..n, i \in S
      PROVE  Cardinality(UpTo(S, i)) = Cardinality(UpTo(S, i - 1)) + 1
  <2>1. \A k \in S : k <= i <=> (k <= i - 1 \/ k = i)
    OBVIOUS
  <2>2. UpTo(S, i) = UpTo(S, i - 1) \cup {i}
    BY <1>5, <2>1 DEF UpTo
  <2>3. i \notin UpTo(S, i - 1)
    BY DEF UpTo
  <2> QED
    BY <1>3, <2>2, <2>3, FS_AddElement
<1>6. ASSUME NEW i \in 1..n, i \notin S
      PROVE  UpTo(S, i) = UpTo(S, i - 1)
  <2>1. \A k \in S : k <= i <=> k <= i - 1
    BY <1>6
  <2> QED
    BY <2>1 DEF UpTo
<1>7. UpTo(S, n) = S
  <2>1. \A k \in S : k <= n
    OBVIOUS
  <2> QED
    BY <2>1 DEF UpTo
<1> QED
  BY <1>3, <1>4, <1>5, <1>6, <1>7, FS_EmptySet

\* A set of indices has a j-th smallest element for every j up to its cardinality.
LEMMA NthExists ==
  ASSUME NEW n \in Nat, NEW S, S \subseteq 1..n, NEW j \in 1..Cardinality(S)
  PROVE  Nth(S, j) \in S /\ Cardinality(UpTo(S, Nth(S, j))) = j
<1> DEFINE count(i) == Cardinality(UpTo(S, i))
           enough == {i \in 0..n : count(i) >= j}
<1>1. /\ \A i \in 0..n : count(i) \in Nat
      /\ count(0) = 0
      /\ \A i \in 1..n : i \in S => count(i) = count(i - 1) + 1
      /\ \A i \in 1..n : i \notin S => count(i) = count(i - 1)
      /\ count(n) = Cardinality(S)
  <2>1. /\ \A i \in 0..n : Cardinality(UpTo(S, i)) \in Nat
        /\ Cardinality(UpTo(S, 0)) = 0
        /\ \A i \in 1..n : i \in S =>
             Cardinality(UpTo(S, i)) = Cardinality(UpTo(S, i - 1)) + 1
        /\ \A i \in 1..n : i \notin S => UpTo(S, i) = UpTo(S, i - 1)
        /\ UpTo(S, n) = S
    BY CountUpTo, Zenon
  <2> QED
    BY <2>1
<1> HIDE DEF count
<1>2. n \in enough
  BY <1>1
<1>3. PICK m \in enough : \A k \in enough : m <= k
  <2>1. enough \subseteq Nat
    OBVIOUS
  <2> HIDE DEF enough
  <2> QED
    BY <1>2, <2>1, LeastNat
<1>4. m \in 1..n
  BY <1>1, <1>3
<1>5. m - 1 \in 0..n /\ count(m - 1) < j
  BY <1>1, <1>3, <1>4
<1>6. m \in S /\ count(m) = j
  BY <1>1, <1>3, <1>4, <1>5
<1> QED
  BY <1>6 DEF Nth, count

-----------------------------------------------------------------------------
(* The operators on sequences *)

LEMMA FunctionIsSeq ==
  ASSUME NEW S, NEW n \in Nat, NEW f \in [1..n -> S]
  PROVE  f \in Seq(S) /\ Len(f) = n
BY SeqDef

LEMMA RepeatIsSeq ==
  ASSUME NEW S, NEW x \in S, NEW k \in Nat
  PROVE  /\ Repeat(x, k) \in Seq(S)
         /\ \A i \in DOMAIN Repeat(x, k) : Repeat(x, k)[i] = x
<1>1. Repeat(x, k) \in [1..k -> S]
  BY DEF Repeat
<1> QED
  BY <1>1, FunctionIsSeq DEF Repeat

LEMMA CopiesIsNat ==
  ASSUME NEW S, NEW q \in Seq(S), NEW r
  PROVE  Copies(q, r) \in Nat
<1> DEFINE C == {i \in DOMAIN q : q[i] = r}
<1>1. C \subseteq 1..Len(q) /\ Len(q) \in Nat
  BY LenProperties
<1> HIDE DEF C
<1>2. Cardinality(C) \in Nat
  BY <1>1, IndicesFinite
<1> QED
  BY <1>2 DEF Copies, C

\* The elements at some positions are elements of the sequence.
LEMMA PickIsSeq ==
  ASSUME NEW S, NEW q \in Seq(S), NEW K, K \subseteq 1..Len(q)
  PROVE  Pick(q, K) \in Seq(S) /\ Len(Pick(q, K)) = Cardinality(K)
<1> DEFINE card == Cardinality(K)
           pick == [j \in 1..card |-> q[Nth(K, j)]]
<1>1. Len(q) \in Nat /\ \A i \in 1..Len(q) : q[i] \in S
  BY LenProperties, ElementOfSeq
<1>2. card \in Nat
  BY <1>1, IndicesFinite
<1>3. \A j \in 1..card : Nth(K, j) \in K
  BY <1>1, NthExists
<1>4. pick \in [1..card -> S]
  BY <1>1, <1>3
<1>5. Pick(q, K) = pick
  BY DEF Pick
<1> HIDE DEF pick, card
<1>6. pick \in Seq(S) /\ Len(pick) = card
  BY <1>2, <1>4, FunctionIsSeq
<1> QED
  BY <1>5, <1>6 DEF card

\* Erasing a room from a list leaves a list of rooms.
LEMMA EraseRoomIsSeq ==
  ASSUME NEW q \in Seq(Room), NEW r
  PROVE  EraseRoom(q, r) \in Seq(Room)
<1> DEFINE erased == CHOOSE e : e = [i \in 0..Len(q) |-> i > 0 /\ q[i] = r /\ ~e[i - 1]]
           kept == {i \in 1..Len(q) : ~erased[i]}
<1>1. EraseRoom(q, r) = Pick(q, kept)
  BY DEF EraseRoom
<1>2. kept \subseteq 1..Len(q)
  OBVIOUS
<1> HIDE DEF kept
<1> QED
  BY <1>1, <1>2, PickIsSeq

-----------------------------------------------------------------------------
(* What the handlers do *)

LinesOf(n, T) == {l \in LineType : l.n = n /\ l.text \in T}

\* Only lines of request n with a text in T are added to what clients were sent.
SentGrows(n, T) ==
  /\ sent' \in [Socket -> Seq(LineType)]
  /\ \A x \in Socket : \E q \in Seq(LinesOf(n, T)) : sent'[x] = sent[x] \o q

LEMMA SentUnchanged ==
  ASSUME TypeOK, sent' = sent, NEW n, NEW T
  PROVE  SentGrows(n, T)
<1> SUFFICES ASSUME NEW x \in Socket
             PROVE  \E q \in Seq(LinesOf(n, T)) : sent'[x] = sent[x] \o q
  BY DEF TypeOK, SentGrows
<1>1. << >> \in Seq(LinesOf(n, T))
  BY EmptySeq
<1>2. sent'[x] = sent[x] \o << >>
  BY ConcatEmptySeq DEF TypeOK
<1> QED
  BY <1>1, <1>2

LEMMA TellGrows ==
  ASSUME TypeOK, NEW s \in Socket, NEW n, NEW T,
         NEW reply \in Seq(LinesOf(n, T)),
         NEW notices \in [Socket -> Seq(LinesOf(n, T))],
         Tell(s, reply, notices)
  PROVE  SentGrows(n, T) /\ result' \in {"ok", "error"}
<1> DEFINE L == LinesOf(n, T)
           out == [x \in Socket |-> (IF x = s THEN reply ELSE << >>) \o notices[x]]
<1>1. sent' = [x \in Socket |-> IF Broken(x) THEN sent[x] ELSE sent[x] \o out[x]]
  BY DEF Tell, Transmit
<1>2. L \subseteq LineType
  BY DEF LinesOf
<1> HIDE DEF L
<1>3. ASSUME NEW x \in Socket
      PROVE  \E q \in Seq(L) : sent'[x] = sent[x] \o q
  <2>1. (IF x = s THEN reply ELSE << >>) \in Seq(L)
    BY EmptySeq DEF L
  <2>2. notices[x] \in Seq(L)
    BY DEF L
  <2>3. out[x] \in Seq(L)
    BY <2>1, <2>2, ConcatProperties
  <2>4. << >> \in Seq(L) /\ sent[x] = sent[x] \o << >>
    BY EmptySeq, ConcatEmptySeq DEF TypeOK
  <2> HIDE DEF out
  <2> QED
    BY <1>1, <2>3, <2>4
<1>4. ASSUME NEW x \in Socket
      PROVE  sent'[x] \in Seq(LineType)
  <2>1. PICK q \in Seq(L) : sent'[x] = sent[x] \o q
    BY <1>3
  <2>2. q \in Seq(LineType)
    BY <1>2, <2>1, SeqMonotonic
  <2> QED
    BY <2>1, <2>2, ConcatProperties DEF TypeOK
<1>5. sent' \in [Socket -> Seq(LineType)]
  BY <1>1, <1>4
<1>6. result' \in {"ok", "error"}
  BY DEF Tell, TypeOK
<1> QED
  BY <1>3, <1>5, <1>6 DEF SentGrows, L

LEMMA RoomLinesTyped ==
  ASSUME TypeOK, NEW text \in Text \ {"answer"},
         NEW membership \in [Socket -> Seq(Room)], NEW p
  PROVE  LET L == LinesOf(Len(log) + 1, Text \ {"answer"})
         IN  /\ <<Line(text)>> \in Seq(L)
             /\ Notices(p, text, membership) \in [Socket -> Seq(L)]
             /\ [x \in Socket |-> Repeat(Line(text), Copies(membership[x], p.room))]
                   \in [Socket -> Seq(L)]
<1> DEFINE L == LinesOf(Len(log) + 1, Text \ {"answer"})
<1>1. Line(text) \in L
  BY LenProperties DEF Line, LinesOf, LineType, TypeOK
<1> HIDE DEF L
<1>2. <<Line(text)>> \in Seq(L)
  BY <1>1
<1>3. \A x \in Socket : Repeat(Line(text), Copies(membership[x], p.room)) \in Seq(L)
  BY <1>1, CopiesIsNat, RepeatIsSeq
<1>4. << >> \in Seq(L)
  BY EmptySeq
<1> QED
  BY <1>2, <1>3, <1>4 DEF Notices, L

RoomText == Text \ {"answer"}

\* A request about a room ends the turn of the client; an account request is passed
\* on and makes the server wait.
Turn(s) ==
  \/ /\ pc' = Resume(ready \ {s}) /\ ready' = ready \ {s}
     /\ UNCHANGED <<toAuth, authLink, wsaRefs>>
  \/ /\ pc' = "auth" /\ UNCHANGED <<ready, rooms, sent, result>>
     /\ log'[Len(log')].p.id \in AccountMsg
     /\ \/ authLink = "up" /\ toAuth' = Append(toAuth, Len(log')) /\ UNCHANGED <<authLink, wsaRefs>>
        \/ authLink # "up" /\ CloseAuthSocket /\ UNCHANGED toAuth
        \/ authLink = "lost" /\ UNCHANGED <<toAuth, authLink, wsaRefs>>

\* What handling a request for s can do.
HandleEffect(s) ==
  /\ log' \in Seq([by : Socket, p : Packet])
  /\ Len(log') = Len(log) + 1
  /\ log'[Len(log')].by = s
  /\ SentGrows(Len(log'), RoomText)
  /\ result' \in {"ok", "error"}
  /\ rooms' \in [Socket -> Seq(Room)]
  /\ \A x \in Socket \ {s} : rooms'[x] = rooms[x]
  /\ Turn(s)

LEMMA Packets ==
  ASSUME NEW p \in Packet
  PROVE  /\ p.id \in RoomMsg => p.room \in Room
         /\ p.id \in MsgType /\ p.from \in Socket /\ p.n \in Nat
BY DEF Packet, RoomPacket, AccountPacket, RoomMsg, AccountMsg, MsgType

LEMMA HandleHasEffect ==
  ASSUME TypeOK, NEW s \in Socket, NEW p \in Packet, Handle(s, p)
  PROVE  HandleEffect(s)
<1> DEFINE n == Len(log) + 1
           entry == [by |-> s, p |-> p]
<1>1. /\ log' \in Seq([by : Socket, p : Packet])
      /\ Len(log') = n
      /\ log'[Len(log')] = entry
  <2>1. entry \in [by : Socket, p : Packet] /\ log \in Seq([by : Socket, p : Packet])
    BY DEF TypeOK
  <2>2. log' = Append(log, entry)
    BY DEF Handle
  <2> HIDE DEF entry
  <2> QED
    BY <2>1, <2>2, AppendProperties
<1>2. rooms \in [Socket -> Seq(Room)]
  BY DEF TypeOK
<1>3. CASE Join(s, p)
  <2> DEFINE after == [rooms EXCEPT ![s] = Append(@, p.room)]
  <2>1. p.room \in Room
    BY <1>3, Packets DEF Join, RoomMsg
  <2>2. Append(rooms[s], p.room) \in Seq(Room)
    BY <1>2, <2>1, AppendProperties
  <2>3. after \in [Socket -> Seq(Room)] /\ \A x \in Socket \ {s} : after[x] = rooms[x]
    BY <1>2, <2>2
  <2> HIDE DEF after
  <2>4. rooms' = after /\ Tell(s, <<Line("joined")>>, Notices(p, "userJoined", after))
    BY <1>3 DEF Join, after
  <2>5. SentGrows(n, RoomText) /\ result' \in {"ok", "error"}
    <3>1. "joined" \in RoomText /\ "userJoined" \in RoomText
      BY DEF RoomText, Text
    <3>2. <<Line("joined")>> \in Seq(LinesOf(n, RoomText))
      BY <1>2, <3>1, RoomLinesTyped DEF RoomText
    <3>3. Notices(p, "userJoined", after) \in [Socket -> Seq(LinesOf(n, RoomText))]
      BY <2>3, <3>1, RoomLinesTyped DEF RoomText
    <3> QED
      BY <2>4, <3>2, <3>3, TellGrows
  <2>6. Turn(s)
    BY <1>3 DEF Turn, Join, Done
  <2> QED
    BY <1>1, <2>3, <2>4, <2>5, <2>6 DEF HandleEffect
<1>4. CASE Leave(s, p)
  <2> DEFINE after == [rooms EXCEPT ![s] = EraseRoom(@, p.room)]
             text == IF p.room \in Range(rooms[s]) THEN "left" ELSE "notIn"
  <2>1. EraseRoom(rooms[s], p.room) \in Seq(Room)
    BY <1>2, EraseRoomIsSeq
  <2>2. after \in [Socket -> Seq(Room)] /\ \A x \in Socket \ {s} : after[x] = rooms[x]
    BY <1>2, <2>1
  <2> HIDE DEF after
  <2>3. text \in RoomText /\ "userLeft" \in RoomText
    BY DEF RoomText, Text
  <2>4. rooms' = after /\ Tell(s, <<Line(text)>>, Notices(p, "userLeft", after))
    BY <1>4 DEF Leave, after
  <2> HIDE DEF text
  <2>5. SentGrows(n, RoomText) /\ result' \in {"ok", "error"}
    <3>1. <<Line(text)>> \in Seq(LinesOf(n, RoomText))
      BY <1>2, <2>3, RoomLinesTyped DEF RoomText
    <3>2. Notices(p, "userLeft", after) \in [Socket -> Seq(LinesOf(n, RoomText))]
      BY <2>2, <2>3, RoomLinesTyped DEF RoomText
    <3> QED
      BY <2>4, <3>1, <3>2, TellGrows
  <2>6. Turn(s)
    BY <1>4 DEF Turn, Leave, Done
  <2> QED
    BY <1>1, <2>2, <2>4, <2>5, <2>6 DEF HandleEffect
<1>5. CASE SendMessage(s, p)
  <2> DEFINE copies == [x \in Socket |-> Repeat(Line("chat"), Copies(rooms[x], p.room))]
  <2>1. copies \in [Socket -> Seq(LinesOf(n, RoomText))]
    <3>1. "chat" \in RoomText
      BY DEF RoomText, Text
    <3> QED
      BY <1>2, <3>1, RoomLinesTyped DEF RoomText
  <2> HIDE DEF copies
  <2>2. Tell(s, << >>, copies)
    BY <1>5 DEF SendMessage, copies
  <2>3. SentGrows(n, RoomText) /\ result' \in {"ok", "error"}
    BY <2>1, <2>2, EmptySeq, TellGrows
  <2> QED
    BY <1>1, <1>2, <1>5, <2>3 DEF HandleEffect, Turn, SendMessage, Done
<1>6. CASE RequestAccount(s, p)
  <2>1. SentGrows(n, RoomText)
    BY <1>6, SentUnchanged DEF RequestAccount
  <2>2. result' \in {"ok", "error"} /\ rooms' = rooms
    BY <1>6 DEF RequestAccount, TypeOK
  <2>3. Turn(s)
    BY <1>1, <1>6 DEF RequestAccount, Turn
  <2> QED
    BY <1>1, <1>2, <2>1, <2>2, <2>3 DEF HandleEffect
<1> QED
  BY <1>3, <1>4, <1>5, <1>6 DEF Handle

LEMMA SendAnswerGrows ==
  ASSUME TypeOK, NEW s \in Socket, NEW request \in Nat, SendAnswer(s, request)
  PROVE  SentGrows(Len(log), {"answer"}) /\ result' \in {"ok", "error"}
<1> DEFINE L == LinesOf(Len(log), {"answer"})
           line == [n |-> Len(log), text |-> "answer", of |-> request]
<1>1. line \in L
  BY LenProperties DEF LinesOf, LineType, Text, TypeOK
<1> HIDE DEF L, line
<1>2. <<line>> \in Seq(L) /\ [x \in Socket |-> << >>] \in [Socket -> Seq(L)]
  BY <1>1, EmptySeq
<1>3. Tell(s, <<line>>, [x \in Socket |-> << >>])
  BY DEF SendAnswer, line
<1> QED
  BY <1>2, <1>3, TellGrows DEF L

LEMMA SuffixIsSeq ==
  ASSUME NEW S, NEW q \in Seq(S), NEW m \in Nat \ {0}
  PROVE  SubSeq(q, m, Len(q)) \in Seq(S)
<1>1. Len(q) \in Nat /\ \A i \in m..Len(q) : q[i] \in S
  BY LenProperties, ElementOfSeq
<1> QED
  BY <1>1, SubSeqProperties

\* What is left of the wire when its first request is read, with what came with it
LEMMA DroppedPart ==
  ASSUME NEW q \in Seq(Int), q # << >>, NEW r \in Dropped(q)
  PROVE  r \in Seq(Int) /\ Len(r) < Len(q)
<1>1. PICK i \in 2..(Len(q) + 1) : r = SubSeq(q, i, Len(q))
  BY DEF Dropped
<1>2. Len(q) \in Nat /\ Len(q) > 0 /\ \A j \in i..Len(q) : j \in 1..Len(q)
  BY <1>1, EmptySeq, LenProperties
<1>3. \A j \in i..Len(q) : q[j] \in Int
  BY <1>2, ElementOfSeq
<1>4. /\ SubSeq(q, i, Len(q)) \in Seq(Int)
      /\ Len(SubSeq(q, i, Len(q))) = IF i <= Len(q) THEN Len(q) - i + 1 ELSE 0
  BY <1>1, <1>2, <1>3, SubSeqProperties
<1> QED
  BY <1>1, <1>2, <1>4

LEMMA RestIsSeq ==
  ASSUME NEW S, NEW q \in Seq(S)
  PROVE  Rest(q) \in Seq(S)
BY SuffixIsSeq, ConstantsAssumption DEF Rest

LEMMA CellsAreSeq ==
  ASSUME NEW p \in Packet
  PROVE  Cells(p) \in Seq(Cell) /\ Len(Cells(p)) = Width[p.id]
<1>1. Width[p.id] \in Nat
  BY Packets, ConstantsAssumption
<1>2. Cells(p) \in [1..Width[p.id] -> Cell]
  BY <1>1 DEF Cells, Cell
<1> QED
  BY <1>1, <1>2, FunctionIsSeq

LEMMA RequestsArePackets ==
  ASSUME TypeOK, NEW s \in Socket, NEW p \in Requests(s)
  PROVE  p \in Packet /\ p.from = s /\ p.n = nsent[s] + 1
<1>1. nsent[s] + 1 \in Nat
  BY DEF TypeOK
<1>2. CASE \E t \in RoomMsg, r \in Room :
             p = [id |-> t, from |-> s, n |-> nsent[s] + 1, room |-> r]
  BY <1>1, <1>2 DEF Packet, RoomPacket
<1>3. CASE \E t \in AccountMsg : p = [id |-> t, from |-> s, n |-> nsent[s] + 1]
  BY <1>1, <1>3 DEF Packet, AccountPacket
<1> QED
  BY <1>2, <1>3 DEF Requests

-----------------------------------------------------------------------------
(* Type correctness *)

LEMMA TypeInit == Init => TypeOK
BY ConstantsAssumption, EmptySeq DEF Init, TypeOK

LEMMA CloseTyped ==
  ASSUME TypeOK, CloseAuthSocket
  PROVE  authLink' = "closed" /\ wsaRefs' \in 0..2
BY DEF TypeOK, CloseAuthSocket

LEMMA HandleTyped ==
  ASSUME TypeOK, NEW s \in Socket, HandleEffect(s)
  PROVE  /\ pc' \in {"select", "accept", "serve", "auth", "down"}
         /\ ready' \in SUBSET Socket
         /\ sent' \in [Socket -> Seq(LineType)]
         /\ result' \in {"ok", "error"}
         /\ rooms' \in [Socket -> Seq(Room)]
         /\ log' \in Seq([by : Socket, p : Packet])
         /\ toAuth' \in Seq(Int)
         /\ authLink' \in {"up", "lost", "closed"}
         /\ wsaRefs' \in 0..2
<1>1. Len(log') \in Nat
  BY LenProperties DEF HandleEffect
<1>2. Append(toAuth, Len(log')) \in Seq(Int)
  BY <1>1, AppendProperties DEF TypeOK
<1>3. /\ pc' \in {"select", "accept", "serve", "auth", "down"}
      /\ ready' \in SUBSET Socket
  BY DEF HandleEffect, Turn, Resume, TypeOK
<1>4. /\ toAuth' \in Seq(Int)
      /\ authLink' \in {"up", "lost", "closed"}
      /\ wsaRefs' \in 0..2
  <2>1. /\ toAuth \in Seq(Int)
        /\ authLink \in {"up", "lost", "closed"}
        /\ wsaRefs \in 0..2
    BY DEF TypeOK
  <2>2. Turn(s)
    BY DEF HandleEffect
  <2> QED
    BY <1>2, <2>1, <2>2, CloseTyped DEF Turn
<1> QED
  BY <1>3, <1>4 DEF HandleEffect, SentGrows

LEMMA TypeStep == TypeOK /\ [Next]_vars => TypeOK'
<1> SUFFICES ASSUME TypeOK, [Next]_vars
             PROVE  TypeOK'
  OBVIOUS
<1>1. CASE UNCHANGED vars
  BY <1>1 DEF vars, clientVars, tableVars, authVars, TypeOK
<1>2. CASE Select
  <2>1. ready' \subseteq Socket
    <3>1. Polled \subseteq connected
      BY DEF Polled
    <3> QED
      BY <1>2, <3>1 DEF Select, TypeOK
  <2> QED
    BY <1>2, <2>1 DEF Select, TypeOK, clientVars, tableVars, authVars
<1>3. CASE SelectFails \/ SelectTimeout
  BY <1>3 DEF SelectFails, SelectTimeout, TypeOK, clientVars, tableVars, authVars
<1>4. ASSUME NEW s \in Socket, Register(s)
      PROVE  TypeOK'
  <2>1. Tail(backlog) \in Seq(Socket) /\ Append(clients, s) \in Seq(Socket)
    BY <1>4, HeadTailProperties, AppendProperties DEF Register, TypeOK
  <2>2. SubSeq(stream[s], BufLen, Len(stream[s])) \in Seq(Cell)
    BY SuffixIsSeq, ConstantsAssumption DEF TypeOK
  <2>3. stream' \in [Socket -> Seq(Cell)]
    BY <1>4, <2>2 DEF Register, TypeOK
  <2>4. name' \in [Socket -> User \cup {Garbled}]
    BY <1>4, ConstantsAssumption DEF Register, TypeOK
  <2>5. pc' \in {"select", "serve"}
    BY <1>4 DEF Register, Resume
  <2>6. backlog' \in Seq(Socket) /\ clients' \in Seq(Socket)
    BY <1>4, <2>1 DEF Register
  <2> QED
    BY <1>4, <2>3, <2>4, <2>5, <2>6 DEF Register, TypeOK, authVars
<1>5. ASSUME NEW s \in Socket, AcceptFails(s)
      PROVE  TypeOK'
  <2>1. backlog' \in Seq(Socket)
    <3>1. backlog \in Seq(Socket) /\ backlog # << >>
      BY <1>5 DEF AcceptFails, TypeOK
    <3>2. Tail(backlog) \in Seq(Socket)
      BY <3>1, HeadTailProperties
    <3> QED
      BY <1>5, <3>1, <3>2 DEF AcceptFails
  <2> QED
    BY <1>5, <2>1 DEF AcceptFails, Resume, TypeOK, tableVars, authVars
<1>6. ASSUME NEW s \in Socket, Disconnect(s)
      PROVE  TypeOK'
  BY <1>6 DEF Disconnect, Done, Resume, TypeOK, clientVars, authVars
<1>7. ASSUME NEW s \in Socket, ReadPacket(s)
      PROVE  TypeOK'
  <2>1. Head(stream[s]).p \in Packet
    <3>1. stream[s] \in Seq(Cell) /\ stream[s] # << >>
      BY <1>7 DEF ReadPacket, TypeOK
    <3>2. Head(stream[s]) \in Cell
      BY <3>1, HeadTailProperties
    <3> QED
      BY <3>2 DEF Cell
  <2>2. stream' \in [Socket -> Seq(Cell)]
    BY <1>7, RestIsSeq DEF ReadPacket, TypeOK
  <2>3. HandleEffect(s)
    BY <1>7, <2>1, HandleHasEffect DEF ReadPacket
  <2> QED
    BY <1>7, <2>1, <2>2, <2>3, HandleTyped DEF ReadPacket, TypeOK, clientVars, tableVars
<1>8. ASSUME NEW s \in Socket, ReadTail(s)
      PROVE  TypeOK'
  <2>1. stream' \in [Socket -> Seq(Cell)]
    BY <1>8, RestIsSeq DEF ReadTail, TypeOK
  <2>2. CASE Ignore(s) /\ scratch' = NoPacket
    BY <1>8, <2>1, <2>2
       DEF ReadTail, Ignore, Done, Resume, TypeOK, clientVars, tableVars
  <2>3. CASE Reread(s)
    <3>1. HandleEffect(s) /\ scratch' = scratch
      BY <2>3, HandleHasEffect DEF Reread, TypeOK
    <3> QED
      BY <1>8, <2>1, <3>1, HandleTyped DEF ReadTail, TypeOK, clientVars, tableVars
  <2> QED
    BY <1>8, <2>2, <2>3 DEF ReadTail
<1>9. ASSUME NEW s \in Socket, ReadError(s)
      PROVE  TypeOK'
  <2>1. CASE Ignore(s) /\ UNCHANGED scratch
    BY <1>9, <2>1 DEF ReadError, Ignore, Done, Resume, TypeOK, clientVars, tableVars
  <2>2. CASE Reread(s)
    <3>1. HandleEffect(s) /\ scratch' = scratch
      BY <2>2, HandleHasEffect DEF Reread, TypeOK
    <3> QED
      BY <1>9, <3>1, HandleTyped DEF ReadError, TypeOK, clientVars, tableVars
  <2> QED
    BY <1>9, <2>1, <2>2 DEF ReadError
<1>10. ASSUME NEW s \in Socket, ReceiveAnswer(s)
       PROVE  TypeOK'
  <2>1. fromAuth' \in Seq([of : Nat, k : Nat])
    BY <1>10, RestIsSeq DEF ReceiveAnswer, TypeOK
  <2>2. Head(fromAuth).of \in Nat
    <3>1. fromAuth \in Seq([of : Nat, k : Nat]) /\ fromAuth # << >>
      BY <1>10 DEF ReceiveAnswer, TypeOK
    <3>2. Head(fromAuth) \in [of : Nat, k : Nat]
      BY <3>1, HeadTailProperties
    <3> QED
      BY <3>2
  <2>3. sent' \in [Socket -> Seq(LineType)] /\ result' \in {"ok", "error"}
    BY <1>10, <2>2, SendAnswerGrows DEF ReceiveAnswer, NoAnswer, SentGrows, TypeOK
  <2> QED
    BY <1>10, <2>1, <2>3
       DEF ReceiveAnswer, Done, Resume, TypeOK, clientVars, tableVars
<1>11. ASSUME NEW s \in Socket, AnswerLost(s)
       PROVE  TypeOK'
  <2>1. authLink' \in {"up", "lost", "closed"} /\ wsaRefs' \in 0..2
    BY <1>11, CloseTyped DEF AnswerLost, TypeOK
  <2>2. sent' \in [Socket -> Seq(LineType)] /\ result' \in {"ok", "error"}
    BY <1>11, SendAnswerGrows DEF AnswerLost, NoAnswer, SentGrows, TypeOK
  <2>3. pc' \in {"select", "serve", "down"} /\ ready' \subseteq Socket
    BY <1>11 DEF AnswerLost, Done, Resume, TypeOK
  <2> QED
    BY <1>11, <2>1, <2>2, <2>3 DEF AnswerLost, TypeOK, clientVars, tableVars
<1>12. ASSUME NEW s \in Socket, AnswerAborts(s)
       PROVE  TypeOK'
  <2>1. fromAuth' \in Seq([of : Nat, k : Nat])
    BY <1>12, RestIsSeq DEF AnswerAborts, TypeOK
  <2> QED
    BY <1>12, <2>1 DEF AnswerAborts, NoAnswer, TypeOK, clientVars, tableVars
<1>13. ASSUME NEW s \in Socket, ClientStep(s)
       PROVE  TypeOK'
  <2>1. CASE Connect(s)
    <3>1. backlog' \in Seq(Socket)
      BY <2>1, AppendProperties DEF Connect, TypeOK
    <3> QED
      BY <2>1, <3>1 DEF Connect, TypeOK, serverVars, tableVars, authVars
  <2>2. CASE SendName(s) \/ Exit(s)
    BY <2>2 DEF SendName, Exit, TypeOK, serverVars, tableVars, authVars
  <2>3. CASE Kill(s) \/ ResetAfterClose(s)
    <3>1. << >> \in Seq(Cell)
      BY EmptySeq
    <3>2. stream' = [stream EXCEPT ![s] = << >>] /\ peer' = [peer EXCEPT ![s] = "reset"]
      BY <2>3 DEF Kill, ResetAfterClose
    <3>3. stream' \in [Socket -> Seq(Cell)]
      BY <3>1, <3>2 DEF TypeOK
    <3>4. peer' \in [Socket -> {"idle", "dialed", "open", "closed", "reset"}]
      BY <3>2 DEF TypeOK
    <3> QED
      BY <2>3, <3>3, <3>4
         DEF Kill, ResetAfterClose, TypeOK, serverVars, tableVars, authVars
  <2>4. ASSUME NEW p \in Requests(s), ClientSend(s, p)
        PROVE  TypeOK'
    <3>1. stream[s] \o Cells(p) \in Seq(Cell)
      BY RequestsArePackets, CellsAreSeq, ConcatProperties DEF TypeOK
    <3>2. stream' \in [Socket -> Seq(Cell)] /\ nsent' \in [Socket -> Nat]
      BY <2>4, <3>1 DEF ClientSend, TypeOK
    <3> QED
      BY <2>4, <3>2 DEF ClientSend, TypeOK, serverVars, tableVars, authVars
  <2> QED
    BY <1>13, <2>1, <2>2, <2>3, <2>4 DEF ClientStep
<1>14. CASE AuthStep
  <2>1. toAuth \in Seq(Int) /\ toAuth # << >>
    BY <1>14 DEF AuthStep, AuthAnswers, AuthRepeats, AuthSkipsRest, AuthIgnores, TypeOK
  <2>2. Head(toAuth) \in Int /\ Tail(toAuth) \in Seq(Int) /\ << >> \in Seq(Int)
    BY <2>1, HeadTailProperties, EmptySeq
  <2>3. toAuth' \in Seq(Int)
    <3>1. -Head(toAuth) \in Int
      BY <2>2
    <3>2. <<-Head(toAuth)>> \o Tail(toAuth) \in Seq(Int)
      BY <2>2, <3>1, ConcatProperties
    <3>3. \A r \in Dropped(toAuth) : r \in Seq(Int)
      BY <2>1, DroppedPart
    <3> QED
      BY <1>14, <3>2, <3>3 DEF AuthStep, AuthAnswers, AuthRepeats, AuthSkipsRest, AuthIgnores
  <2>4. fromAuth' \in Seq([of : Nat, k : Nat])
    <3>1. Number(Head(toAuth)) \in Nat
      BY <2>2 DEF Number
    <3>2. AuthAnswer \in [1..AnswerWidth -> [of : Nat, k : Nat]]
      BY <3>1 DEF AuthAnswer
    <3>3. AuthAnswer \in Seq([of : Nat, k : Nat])
      BY <3>2, FunctionIsSeq, ConstantsAssumption
    <3>4. fromAuth \o AuthAnswer \in Seq([of : Nat, k : Nat])
      BY <3>3, ConcatProperties DEF TypeOK
    <3> QED
      BY <1>14, <3>4 DEF AuthStep, AuthAnswers, AuthRepeats, AuthSkipsRest, AuthIgnores, TypeOK
  <2> QED
    BY <1>14, <2>3, <2>4
       DEF AuthStep, AuthAnswers, AuthRepeats, AuthSkipsRest, AuthIgnores, TypeOK, clientVars,
           serverVars, tableVars
<1>15. CASE AuthDies
  BY <1>15, EmptySeq DEF AuthDies, TypeOK, clientVars, serverVars, tableVars
<1> QED
  BY <1>1, <1>2, <1>3, <1>4, <1>5, <1>6, <1>7, <1>8, <1>9, <1>10, <1>11, <1>12, <1>13,
     <1>14, <1>15 DEF Next, ServerStep, Stopped

\* Every state of the server has the types of TypeOK: in particular, whatever is read
\* from a stream or left in the stack buffer is a request some client built.
THEOREM TypeCorrect == Spec => []TypeOK
<1>1. Init => TypeOK
  BY TypeInit
<1>2. TypeOK /\ [Next]_vars => TypeOK'
  BY TypeStep
<1> QED
  BY <1>1, <1>2, PTL DEF Spec

-----------------------------------------------------------------------------
(* A disconnection is final *)

\* One step of DisconnectionIsFinal
FinalStep ==
  \A s \in Range(clients) \ connected' :
    /\ rooms'[s] = rooms[s]
    /\ log' # log => log'[Len(log')].by # s

LEMMA FinalHolds ==
  ASSUME TypeOK, [Next]_vars
  PROVE  FinalStep
<1>1. ASSUME rooms' = rooms, log' = log
      PROVE  FinalStep
  BY <1>1 DEF FinalStep
<1>2. ASSUME NEW s \in Socket, NEW p \in Packet, Handle(s, p), Serving(s),
             connected' = connected
      PROVE  FinalStep
  <2>1. s \in connected'
    BY <1>2 DEF Serving
  <2>2. log'[Len(log')].by = s /\ \A x \in Socket \ {s} : rooms'[x] = rooms[x]
    BY <1>2, HandleHasEffect DEF HandleEffect
  <2>3. Range(clients) \subseteq Socket
    BY RangeOfSeq DEF TypeOK
  <2> QED
    BY <2>1, <2>2, <2>3 DEF FinalStep
<1>3. ASSUME NEW s \in Socket, Reread(s), Serving(s), connected' = connected
      PROVE  FinalStep
  BY <1>2, <1>3 DEF Reread, TypeOK
<1>4. ASSUME NEW s \in Socket, Ignore(s)
      PROVE  FinalStep
  BY <1>1, <1>4 DEF Ignore
<1>5. ASSUME NEW s \in Socket, ReadPacket(s)
      PROVE  FinalStep
  <2>1. stream[s] \in Seq(Cell) /\ stream[s] # << >>
    BY <1>5 DEF ReadPacket, TypeOK
  <2>2. Head(stream[s]) \in Cell
    BY <2>1, HeadTailProperties
  <2> QED
    BY <1>2, <1>5, <2>2 DEF ReadPacket, Cell, tableVars
<1>6. ASSUME NEW s \in Socket, ReadTail(s) \/ ReadError(s)
      PROVE  FinalStep
  BY <1>3, <1>4, <1>6 DEF ReadTail, ReadError, tableVars
<1>7. ASSUME UNCHANGED vars \/ Select \/ SelectFails \/ SelectTimeout
      PROVE  FinalStep
  BY <1>1, <1>7 DEF vars, Select, SelectFails, SelectTimeout
<1>8. ASSUME NEW s \in Socket,
             \/ Register(s) \/ AcceptFails(s) \/ Disconnect(s)
             \/ ReceiveAnswer(s) \/ AnswerLost(s) \/ AnswerAborts(s)
      PROVE  FinalStep
  BY <1>1, <1>8
     DEF Register, AcceptFails, Disconnect, ReceiveAnswer, AnswerLost, AnswerAborts
<1>9. ASSUME NEW s \in Socket, ClientStep(s)
      PROVE  FinalStep
  BY <1>1, <1>9
     DEF ClientStep, Connect, SendName, Exit, Kill, ResetAfterClose, ClientSend, serverVars
<1>10. ASSUME AuthStep \/ AuthDies
       PROVE  FinalStep
  BY <1>1, <1>10 DEF AuthStep, AuthAnswers, AuthRepeats, AuthSkipsRest, AuthIgnores, AuthDies, serverVars
<1> QED
  BY <1>5, <1>6, <1>7, <1>8, <1>9, <1>10 DEF Next, ServerStep, Stopped

\* Once an exit has been noticed nothing is handled for that client and its rooms
\* never change, even if its socket reports errors and the buffer is stale.
THEOREM DisconnectionsFinal == Spec => DisconnectionIsFinal
<1>1. TypeOK /\ [Next]_vars => FinalStep
  BY FinalHolds
<1>2. [][FinalStep]_vars <=> DisconnectionIsFinal
  BY DEF FinalStep, DisconnectionIsFinal
<1> QED
  BY <1>1, <1>2, TypeCorrect, PTL DEF Spec

=============================================================================
