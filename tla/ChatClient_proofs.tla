-------------------------- MODULE ChatClient_proofs --------------------------
(***************************************************************************)
(* Theorems about the chat client, for every size of lines and of the      *)
(* recv() buffer, every set of rooms and every combination of faults: what *)
(* its user sees and what the chat server sees of it.                      *)
(***************************************************************************)
EXTENDS ClientProperties, TLAPS, SequenceTheorems, NaturalsInduction, WellFoundedInduction

-----------------------------------------------------------------------------
(* The end of the receive thread *)

\* Between its test of endThread and recv() the thread has not printed a late line.
LateInv ==
  /\ late \in 0..1
  /\ ~endThread \/ thread = "recv" => late = 0

\* Only these steps bring the thread to recv(), set endThread or count a line.
LEMMA LateSteps ==
  ASSUME Next
  PROVE  \/ Test \/ Receive
         \/ UNCHANGED late /\ (UNCHANGED endThread \/ endThread')
              /\ (UNCHANGED thread \/ thread' # "recv")
<1>1. CASE UserStep
  BY <1>1 DEF UserStep, JoinRoom, LeaveRoom, SendMessage, SendAccount, SendData, Crash, Exit,
              EnterLetter, history
<1>2. CASE MainStep
  BY <1>2 DEF MainStep, Connect, SendName, Shutdown, Close, history
<1>3. CASE ThreadStep
  BY <1>3 DEF ThreadStep, WouldBlock, ReceiveTooShort, ReceiveFails, CloseBroken, history
<1>4. CASE PressKey \/ Kill \/ SendLine \/ ServerEnds \/ Ended
  BY <1>4 DEF PressKey, Kill, SendLine, ServerEnds, Ended, vars, history
<1> QED
  BY <1>1, <1>2, <1>3, <1>4 DEF Next

LEMMA LateStep == LateInv /\ [Next]_vars => LateInv'
<1> SUFFICES ASSUME LateInv, [Next]_vars PROVE LateInv'
  OBVIOUS
<1>1. CASE Test
  BY <1>1 DEF Test, LateInv, history
<1>2. CASE Receive
  BY <1>2 DEF Receive, LateInv
<1>3. CASE UNCHANGED vars
  BY <1>3 DEF vars, history, LateInv
<1> QED
  BY <1>1, <1>2, <1>3, LateSteps DEF LateInv

\* The client prints at most one line after Exit has set endThread, though it sets it
\* without synchronisation and the thread may be anywhere.
THEOREM AtMostOneLateLine == Spec => []OneLateLine
<1>1. Init => LateInv
  BY DEF Init, LateInv
<1>2. LateInv => OneLateLine
  BY DEF LateInv, OneLateLine
<1> QED
  BY <1>1, <1>2, LateStep, PTL DEF Spec

-----------------------------------------------------------------------------
(* The lines that are printed *)

LinesTyped == inbox \in Seq(Cell) /\ nlines \in Nat /\ shown \in Seq(Nat)

\* A line that begins in the inbox is later than all cells in front of it and than all
\* lines printed.
LineInv ==
  /\ LinesTyped
  /\ \A i \in DOMAIN inbox : inbox[i].line \in 1..nlines
  /\ \A m \in DOMAIN shown : shown[m] <= nlines
  /\ \A i, j \in DOMAIN inbox : i < j /\ inbox[j].k = 1 => inbox[i].line < inbox[j].line
  /\ \A m \in DOMAIN shown, i \in DOMAIN inbox : inbox[i].k = 1 => shown[m] < inbox[i].line
  /\ ShownInOrder

LEMMA LineInit == Init => LineInv
BY DEF Init, LineInv, LinesTyped, ShownInOrder

\* Everything but recv() and a line from the server keeps the inbox or empties it.
LEMMA LineSteps ==
  ASSUME Next
  PROVE  \/ Receive \/ SendLine
         \/ UNCHANGED <<nlines, shown>> /\ inbox' \in {inbox, << >>}
<1>1. CASE UserStep
  BY <1>1 DEF UserStep, JoinRoom, LeaveRoom, SendMessage, SendAccount, SendData, Crash, Exit,
              EnterLetter, CloseSocket, Die, connection, history
<1>2. CASE MainStep
  BY <1>2 DEF MainStep, Connect, SendName, Shutdown, Close, CloseSocket, connection, history
<1>3. CASE ThreadStep
  BY <1>3 DEF ThreadStep, Test, WouldBlock, ReceiveTooShort, ReceiveFails, CloseBroken,
              CloseSocket, Die, connection, history
<1>4. CASE PressKey \/ Kill \/ ServerEnds \/ Ended
  BY <1>4 DEF PressKey, Kill, ServerEnds, Ended, Die, vars, connection, history
<1> QED
  BY <1>1, <1>2, <1>3, <1>4 DEF Next

LEMMA QuietLines ==
  ASSUME LineInv, UNCHANGED <<nlines, shown>>, inbox' \in {inbox, << >>}
  PROVE  LineInv'
<1>1. CASE inbox' = inbox
  BY <1>1 DEF LineInv, LinesTyped, ShownInOrder
<1>2. CASE inbox' = << >>
  <2>1. DOMAIN inbox' = {} /\ inbox' \in Seq(Cell)
    BY <1>2
  <2> QED
    BY <2>1 DEF LineInv, LinesTyped, ShownInOrder
<1> QED
  BY <1>1, <1>2

\* What recv() leaves are the last cells.
LEMMA RestOfInbox ==
  ASSUME NEW q \in Seq(Cell)
  PROVE  /\ Rest(q) \in Seq(Cell)
         /\ \A i \in DOMAIN Rest(q) : i + BufLen \in DOMAIN q /\ Rest(q)[i] = q[i + BufLen]
BY ConstantsAssumption DEF Rest

LEMMA ReceiveLines ==
  ASSUME LineInv, Receive
  PROVE  LineInv'
<1> DEFINE first == Head(Chunk(inbox))
           print == IF first.k = 1 THEN first.line ELSE 0
<1>1. /\ inbox \in Seq(Cell) /\ inbox # << >> /\ nlines \in Nat /\ shown \in Seq(Nat)
      /\ shown' = Append(shown, print) /\ inbox' = Rest(inbox) /\ nlines' = nlines
  BY DEF LineInv, LinesTyped, Receive
<1>2. first = inbox[1] /\ 1 \in DOMAIN inbox /\ inbox[1] \in Cell
  BY <1>1, ConstantsAssumption DEF Chunk
<1>3. print \in Nat /\ print <= nlines /\ (print # 0 => print = inbox[1].line /\ inbox[1].k = 1)
  BY <1>1, <1>2 DEF Cell, LineInv
<1> HIDE DEF print
<1>4. /\ inbox' \in Seq(Cell)
      /\ \A i \in DOMAIN inbox' : /\ i \in Nat /\ i + BufLen \in DOMAIN inbox
                                  /\ i + BufLen > 1 /\ inbox'[i] = inbox[i + BufLen]
  <2>1. \A i \in DOMAIN Rest(inbox) : i \in Nat /\ i + BufLen > 1
    BY <1>1, RestOfInbox, ConstantsAssumption
  <2> QED
    BY <1>1, <2>1, RestOfInbox
<1>5. /\ shown' \in Seq(Nat) /\ DOMAIN shown' = 1..(Len(shown) + 1) /\ DOMAIN shown = 1..Len(shown)
      /\ Len(shown) \in Nat
      /\ shown'[Len(shown) + 1] = print /\ \A m \in DOMAIN shown : shown'[m] = shown[m]
  BY <1>1, <1>3
<1>6. \A m \in DOMAIN shown' : m \in DOMAIN shown \/ m = Len(shown) + 1
  BY <1>5
<1>7. \A m \in DOMAIN shown' : shown'[m] <= nlines'
  BY <1>1, <1>3, <1>5, <1>6 DEF LineInv
<1>8. \A i, j \in DOMAIN inbox' : i < j /\ inbox'[j].k = 1 => inbox'[i].line < inbox'[j].line
  <2> SUFFICES ASSUME NEW i \in DOMAIN inbox', NEW j \in DOMAIN inbox', i < j, inbox'[j].k = 1
               PROVE  inbox'[i].line < inbox'[j].line
    OBVIOUS
  <2>1. /\ i + BufLen \in DOMAIN inbox /\ j + BufLen \in DOMAIN inbox
        /\ i + BufLen < j + BufLen /\ inbox[j + BufLen].k = 1
    BY <1>4, ConstantsAssumption
  <2>2. inbox[i + BufLen].line < inbox[j + BufLen].line
    BY <2>1 DEF LineInv
  <2> QED
    BY <1>4, <2>2
<1>9. \A m \in DOMAIN shown', i \in DOMAIN inbox' : inbox'[i].k = 1 => shown'[m] < inbox'[i].line
  <2> SUFFICES ASSUME NEW m \in DOMAIN shown', NEW i \in DOMAIN inbox', inbox'[i].k = 1
               PROVE  shown'[m] < inbox'[i].line
    OBVIOUS
  <2>1. /\ i + BufLen \in DOMAIN inbox /\ 1 < i + BufLen
        /\ inbox'[i] = inbox[i + BufLen] /\ inbox[i + BufLen].k = 1
    BY <1>4, ConstantsAssumption
  <2>2. CASE m \in DOMAIN shown
    BY <1>5, <2>1, <2>2 DEF LineInv
  <2>3. CASE m = Len(shown) + 1
    <3>1. inbox[1].line < inbox[i + BufLen].line /\ inbox[i + BufLen].line \in 1..nlines
      BY <1>2, <2>1 DEF LineInv
    <3> QED
      BY <1>1, <1>3, <1>5, <2>1, <2>3, <3>1
  <2> QED
    BY <1>6, <2>2, <2>3
<1>10. ShownInOrder'
  <2> SUFFICES ASSUME NEW i \in DOMAIN shown', NEW j \in DOMAIN shown',
                      i < j, shown'[i] # 0, shown'[j] # 0
               PROVE  shown'[i] < shown'[j]
    BY DEF ShownInOrder
  <2>1. i \in DOMAIN shown
    BY <1>5, <1>6
  <2>2. CASE j \in DOMAIN shown
    BY <1>5, <2>1, <2>2 DEF LineInv, ShownInOrder
  <2>3. CASE j = Len(shown) + 1
    BY <1>2, <1>3, <1>5, <2>1, <2>3 DEF LineInv
  <2> QED
    BY <1>6, <2>2, <2>3
<1>11. \A i \in DOMAIN inbox' : inbox'[i].line \in 1..nlines'
  BY <1>1, <1>4 DEF LineInv
<1> QED
  BY <1>1, <1>4, <1>5, <1>7, <1>8, <1>9, <1>10, <1>11 DEF LineInv, LinesTyped

LEMMA SendLineLines ==
  ASSUME LineInv, SendLine
  PROVE  LineInv'
<1>1. /\ inbox \in Seq(Cell) /\ nlines \in Nat /\ shown \in Seq(Nat) /\ shown' = shown
      /\ nlines' = nlines + 1 /\ DOMAIN shown \subseteq Nat
  BY DEF LineInv, LinesTyped, SendLine, history
<1>2. CASE inbox' = inbox
  <2>1. \A i \in DOMAIN inbox : inbox[i].line \in 1..nlines'
    BY <1>1 DEF LineInv
  <2>2. \A m \in DOMAIN shown : shown[m] \in Nat /\ shown[m] <= nlines'
    BY <1>1 DEF LineInv
  <2> QED
    BY <1>1, <1>2, <2>1, <2>2 DEF LineInv, LinesTyped, ShownInOrder
<1> DEFINE line == [k \in 1..LineWidth |-> [line |-> nlines + 1, k |-> k]]
<1>3. CASE inbox' = inbox \o line
  <2>1. line \in Seq(Cell) /\ Len(line) = LineWidth /\ LineWidth \in Nat
    BY <1>1, ConstantsAssumption DEF Cell
  <2>2. \A k \in 1..LineWidth : line[k].line = nlines + 1 /\ line[k].k = k
    OBVIOUS
  <2> HIDE DEF line
  <2> DEFINE n == Len(inbox)
  <2>3. /\ inbox \o line \in Seq(Cell) /\ Len(inbox \o line) = n + LineWidth
         /\ \A i \in 1..(n + LineWidth) : (inbox \o line)[i] = IF i <= n THEN inbox[i] ELSE line[i - n]
    BY <1>1, <2>1, ConcatProperties
  <2>4. /\ inbox' \in Seq(Cell) /\ n \in Nat
        /\ DOMAIN inbox = 1..n /\ DOMAIN inbox' = 1..(n + LineWidth)
        /\ \A i \in 1..n : inbox'[i] = inbox[i]
        /\ \A i \in (n + 1)..(n + LineWidth) : inbox'[i] = line[i - n]
    BY <1>1, <1>3, <2>1, <2>3
  <2> HIDE DEF n
  <2>5. \A i \in (n + 1)..(n + LineWidth) : inbox'[i].line = nlines + 1 /\ inbox'[i].k = i - n
    BY <2>1, <2>2, <2>4
  <2>6. \A i \in DOMAIN inbox' : i \in 1..n \/ i \in (n + 1)..(n + LineWidth)
    BY <2>1, <2>4
  <2>7. \A i \in 1..n : inbox'[i].line \in 1..nlines
    BY <2>4 DEF LineInv
  <2>8. \A i \in DOMAIN inbox' : inbox'[i].line \in 1..nlines'
    BY <1>1, <2>5, <2>6, <2>7
  <2>9. \A i, j \in DOMAIN inbox' : i < j /\ inbox'[j].k = 1 => inbox'[i].line < inbox'[j].line
    <3> SUFFICES ASSUME NEW i \in DOMAIN inbox', NEW j \in DOMAIN inbox', i < j, inbox'[j].k = 1
                 PROVE  inbox'[i].line < inbox'[j].line
      OBVIOUS
    <3>1. CASE j \in 1..n
      <4>1. i \in 1..n
        BY <2>4, <3>1
      <4> QED
        BY <2>4, <3>1, <4>1 DEF LineInv
    <3>2. CASE j \in (n + 1)..(n + LineWidth)
      <4>1. j = n + 1 /\ i \in 1..n
        BY <2>1, <2>4, <2>5, <3>2
      <4> QED
        BY <1>1, <2>5, <2>7, <3>2, <4>1
    <3> QED
      BY <2>6, <3>1, <3>2
  <2>10. \A m \in DOMAIN shown : shown[m] \in Nat /\ shown[m] < nlines + 1
    BY <1>1 DEF LineInv
  <2>11. \A m \in DOMAIN shown', i \in DOMAIN inbox' :
           inbox'[i].k = 1 => shown'[m] < inbox'[i].line
    <3> SUFFICES ASSUME NEW m \in DOMAIN shown, NEW i \in DOMAIN inbox', inbox'[i].k = 1
                 PROVE  shown[m] < inbox'[i].line
      BY <1>1
    <3>1. CASE i \in 1..n
      BY <2>4, <3>1 DEF LineInv
    <3>2. CASE i \in (n + 1)..(n + LineWidth)
      BY <2>5, <2>10, <3>2
    <3> QED
      BY <2>6, <3>1, <3>2
  <2>12. \A m \in DOMAIN shown' : shown'[m] <= nlines'
    BY <1>1, <2>10
  <2>13. ShownInOrder'
    BY <1>1 DEF LineInv, ShownInOrder
  <2> QED
    BY <1>1, <2>4, <2>8, <2>9, <2>11, <2>12, <2>13 DEF LineInv, LinesTyped
<1> QED
  BY <1>2, <1>3 DEF SendLine

LEMMA LineStep == LineInv /\ [Next]_vars => LineInv'
<1> SUFFICES ASSUME LineInv, [Next]_vars PROVE LineInv'
  OBVIOUS
<1>1. CASE UNCHANGED vars
  BY <1>1, QuietLines DEF vars, connection, history
<1> QED
  BY <1>1, LineSteps, QuietLines, ReceiveLines, SendLineLines

\* Whatever recv() cuts off or drops, and whether or not a line is longer than what it
\* takes: the lines that are printed from their beginning are in the order in which the
\* server sent them, and each is printed so once.
THEOREM LinesShownInOrder == Spec => []ShownInOrder
<1>1. LineInv => ShownInOrder
  BY DEF LineInv
<1> QED
  BY <1>1, LineInit, LineStep, PTL DEF Spec

-----------------------------------------------------------------------------
(* The chat server's view of the client *)

\* Nothing precedes the name, and requests follow it only while the socket is open at
\* both ends.
EndInv ==
  /\ conn \in {"idle", "dialed", "open", "closed", "reset"}
  /\ pc \in {"connect", "name"} => socket = "open" /\ thread = "none"
  /\ pc = "connect" => conn = "idle"
  /\ conn = "dialed" => pc = "name"
  /\ conn = "closed" => socket # "open"

LEMMA EndInit == Init => EndInv /\ End!Init
BY DEF Init, EndInv, End!Init

\* What a step of the client makes of its end of the connection
EndStep == EndInv' /\ [End!Next]_(End!end)

LEMMA SameEnd ==
  ASSUME EndInv, UNCHANGED <<conn, sent, socket>>, pc # "connect", pc' # "connect",
         pc' # "name", pc # "name"
  PROVE  EndStep
BY DEF EndStep, EndInv, End!end

\* closesocket() ends the stream or resets it.
LEMMA CloseSocketEnds ==
  ASSUME EndInv, CloseSocket, UNCHANGED sent, pc \notin {"connect", "name"},
         pc' \notin {"connect", "name"}
  PROVE  EndStep
<1>1. /\ conn' \in {"idle", "closed", "reset"} /\ socket' = "closed"
      /\ conn' # conn => \/ conn = "open" /\ conn' = "closed"
                         \/ conn \in {"open", "closed"} /\ conn' = "reset"
  BY DEF EndInv, CloseSocket
<1> QED
  BY <1>1 DEF EndStep, EndInv, End!end, End!Next, End!Exit, End!Reset

LEMMA DieEnds ==
  ASSUME EndInv, Die, UNCHANGED <<sent, thread>>
  PROVE  EndStep
<1>1. pc' = "ended" /\ socket' = "closed" /\ conn' \in {conn, "reset"}
  BY DEF Die
<1>2. CASE conn' = conn
  <2>1. conn # "dialed"
    BY <1>2 DEF EndInv, Die
  <2> QED
    BY <1>1, <1>2, <2>1 DEF EndStep, EndInv, End!end
<1>3. CASE conn' # conn
  <2>1. conn \in {"dialed", "open", "closed"} /\ conn' = "reset" /\ pc # "connect"
    BY <1>1, <1>3 DEF EndInv, Die
  <2> QED
    BY <1>1, <2>1 DEF EndStep, EndInv, End!end, End!Next, End!Reset
<1> QED
  BY <1>2, <1>3

LEMMA SendDataEnds ==
  ASSUME EndInv, NEW r \in Request, SendData(r), pc = "menu"
  PROVE  EndStep
<1>1. pc' = "menu"
  BY DEF SendData
<1>2. CASE ~Broken /\ socket = "open" /\ sent' = Append(sent, r) /\ UNCHANGED <<socket, conn>>
  <2>1. conn = "open"
    BY <1>2 DEF EndInv, Broken
  <2> QED
    BY <1>1, <1>2, <2>1 DEF EndStep, EndInv, End!end, End!Next, End!Send
<1>3. CASE CloseSocket /\ UNCHANGED sent
  BY <1>1, <1>3, CloseSocketEnds
<1> QED
  BY <1>2, <1>3 DEF SendData

LEMMA UserEnds ==
  ASSUME EndInv, UserStep
  PROVE  EndStep
<1>1. ASSUME NEW room \in Room, JoinRoom(room) \/ LeaveRoom(room) \/ SendMessage(room)
      PROVE  EndStep
  <2>1. [id |-> "JOIN", room |-> room] \in Request
    BY DEF Request, RoomRequest
  <2>2. [id |-> "LEAVE", room |-> room] \in Request
    BY DEF Request, RoomRequest
  <2>3. [id |-> "SEND", room |-> room] \in Request
    BY DEF Request, RoomRequest
  <2> QED
    BY <1>1, <2>1, <2>2, <2>3, SendDataEnds DEF JoinRoom, LeaveRoom, SendMessage
<1>2. ASSUME NEW id \in {"CREATE", "AUTHENTICATE"}, SendAccount(id)
      PROVE  EndStep
  <2>1. [id |-> id] \in Request
    BY DEF Request, AccountRequest
  <2> QED
    BY <1>2, <2>1, SendDataEnds DEF SendAccount
<1>3. CASE Crash
  BY <1>3, DieEnds DEF Crash, history
<1>4. CASE Exit \/ EnterLetter
  BY <1>4, SameEnd DEF Exit, EnterLetter, connection, history
<1> QED
  BY <1>1, <1>2, <1>3, <1>4 DEF UserStep

LEMMA MainEnds ==
  ASSUME EndInv, MainStep
  PROVE  EndStep
<1>1. CASE Connect
  BY <1>1 DEF Connect, history, EndStep, EndInv, End!end, End!Next, End!Connect
<1>2. CASE SendName
  BY <1>2 DEF SendName, history, EndStep, EndInv, End!end, End!Next, End!SendName
<1>3. CASE Shutdown
  <2>1. pc = "shutdown" /\ UNCHANGED sent /\ pc' \in {"close", "menu"}
    BY <1>3 DEF Shutdown, history
  <2>2. CASE ~Broken /\ socket' = "shut" /\ conn' = "closed"
    <3>1. conn \in {"open", "closed"}
      BY <2>1, <2>2 DEF EndInv, Broken
    <3> QED
      BY <2>1, <2>2, <3>1 DEF EndStep, EndInv, End!end, End!Next, End!Exit
  <2>3. CASE CloseSocket
    BY <2>1, <2>3, CloseSocketEnds
  <2> QED
    BY <1>3, <2>2, <2>3 DEF Shutdown
<1>4. CASE Close
  BY <1>4, CloseSocketEnds DEF Close, history
<1> QED
  BY <1>1, <1>2, <1>3, <1>4 DEF MainStep

LEMMA ThreadEnds ==
  ASSUME EndInv, ThreadStep \/ PressKey
  PROVE  EndStep
<1>1. UNCHANGED sent /\ pc \notin {"connect", "name"}
  BY DEF EndInv, ThreadStep, PressKey, Test, Receive, WouldBlock, ReceiveTooShort, ReceiveFails,
         CloseBroken, history
<1>2. CASE UNCHANGED <<pc, conn, socket>>
  BY <1>1, <1>2, SameEnd
<1>3. CASE ReceiveTooShort
  BY <1>1, <1>3, DieEnds DEF ReceiveTooShort
<1>4. CASE CloseBroken
  BY <1>1, <1>4, CloseSocketEnds DEF CloseBroken
<1> QED
  BY <1>2, <1>3, <1>4
     DEF ThreadStep, PressKey, Test, Receive, WouldBlock, ReceiveFails, connection

LEMMA EnvironmentEnds ==
  ASSUME EndInv, SendLine \/ ServerEnds
  PROVE  EndStep
<1>1. /\ UNCHANGED <<sent, pc, thread, socket>> /\ conn \in {"open", "closed"}
      /\ conn' \in {conn, "reset"} /\ pc # "connect"
  BY DEF EndInv, SendLine, ServerEnds, history
<1> QED
  BY <1>1 DEF EndStep, EndInv, End!end, End!Next, End!Reset

LEMMA NextEnds == EndInv /\ [Next]_vars => EndStep
<1> SUFFICES ASSUME EndInv, [Next]_vars PROVE EndStep
  OBVIOUS
<1>1. CASE UNCHANGED vars
  BY <1>1 DEF vars, connection, history, EndStep, EndInv, End!end
<1>2. CASE Kill
  BY <1>2, DieEnds DEF Kill, history
<1> QED
  BY <1>1, <1>2, UserEnds, MainEnds, ThreadEnds, EnvironmentEnds DEF Next, Ended

\* The chat server need expect nothing else of this client than a name, requests and an
\* end, in this order, though both threads may close the socket and the menu goes on
\* after exit.  (That the name is sent at once, under LiveSpec, is left to the run.)
THEOREM EndImplemented == Spec => End!Spec
<1>1. Init => EndInv /\ End!Init
  BY EndInit
<1>2. EndInv /\ [Next]_vars => EndInv' /\ [End!Next]_(End!end)
  BY NextEnds DEF EndStep
<1> QED
  BY <1>1, <1>2, PTL DEF Spec, End!Spec
-----------------------------------------------------------------------------
(* The list of rooms *)

\* A non-empty set of natural numbers has a least element.
LEMMA LeastNat ==
  ASSUME NEW S \in SUBSET Nat, S # {}
  PROVE  \E m \in S : \A k \in S : m <= k
<1>1. PICK x \in S : \A y \in S : ~(<<y, x>> \in OpToRel(<, Nat))
  BY NatLessThanWellFounded, WFMin
<1>2. \A y \in S : ~(y < x)
  BY <1>1 DEF OpToRel
<1> QED
  BY <1>2

LEMMA PrefixAndSuffix ==
  ASSUME NEW S, NEW q \in Seq(S), NEW k \in 1..Len(q)
  PROVE  SubSeq(q, 1, k - 1) \in Seq(S) /\ SubSeq(q, k + 1, Len(q)) \in Seq(S)
<1>1. Len(q) \in Nat /\ k \in Nat /\ k <= Len(q) /\ \A i \in 1..Len(q) : q[i] \in S
  BY LenProperties, ElementOfSeq
<1>2. /\ \A i \in 1..(k - 1) : q[i] \in S
      /\ \A i \in (k + 1)..Len(q) : q[i] \in S
  BY <1>1
<1>3. SubSeq(q, 1, k - 1) \in Seq(S)
  BY <1>1, <1>2, SubSeqProperties
<1>4. SubSeq(q, k + 1, Len(q)) \in Seq(S)
  BY <1>1, <1>2, SubSeqProperties
<1> QED
  BY <1>3, <1>4

LEMMA ForgetIsSeq ==
  ASSUME NEW l \in Seq(Room), NEW r, NEW i \in Nat \ {0}
  PROVE  Forget(l, r, i) \in Seq(Room)
<1>1. ASSUME NEW k \in 1..Len(l)
      PROVE  RemoveAt(l, k) \in Seq(Room)
  <2>1. SubSeq(l, 1, k - 1) \in Seq(Room) /\ SubSeq(l, k + 1, Len(l)) \in Seq(Room)
    BY PrefixAndSuffix
  <2> QED
    BY <2>1, ConcatProperties DEF RemoveAt
<1>2. CASE i > Len(l) \/ l[i] # r
  BY <1>2 DEF Forget
<1>3. CASE ~(i > Len(l) \/ l[i] # r)
  <2> DEFINE k == IF i = 1 THEN 1 ELSE i - 1
  <2>1. k \in 1..Len(l)
    BY <1>3
  <2>2. Forget(l, r, i) = RemoveAt(l, k)
    BY <1>3 DEF Forget
  <2> HIDE DEF k
  <2> QED
    BY <1>1, <2>1, <2>2
<1> QED
  BY <1>2, <1>3

\* The lists of the loop of menu entry 2 exist: this is an induction over its steps.
LEMMA ListsExist ==
  ASSUME NEW q, NEW r, NEW n \in Nat
  PROVE  \E f : f = [i \in 0..n |-> IF i = 0 THEN q ELSE Forget(f[i - 1], r, i)]
<1> DEFINE P(m) == \E f : f = [i \in 0..m |-> IF i = 0 THEN q ELSE Forget(f[i - 1], r, i)]
           S == {m \in 0..n : ~P(m)}
<1>1. P(0)
  <2> DEFINE e == [i \in 0..0 |-> q]
  <2>1. e = [i \in 0..0 |-> IF i = 0 THEN q ELSE Forget(e[i - 1], r, i)]
    OBVIOUS
  <2> QED
    BY <2>1
<1> SUFFICES ASSUME ~P(n) PROVE FALSE
  OBVIOUS
<1> HIDE DEF P
<1>2. S \in SUBSET Nat /\ n \in S
  OBVIOUS
<1>3. PICK m \in S : \A k \in S : m <= k
  <2> HIDE DEF S
  <2> QED
    BY <1>2, LeastNat
<1>4. m \in 1..n /\ ~P(m) /\ P(m - 1)
  <2>1. m \in 0..n /\ ~P(m)
    OBVIOUS
  <2>2. m \in 1..n /\ m - 1 \in 0..n
    BY <1>1, <2>1
  <2>3. m - 1 \notin S
    BY <1>3, <2>2
  <2> QED
    BY <2>1, <2>2, <2>3
<1> USE DEF P
<1>5. PICK f : f = [i \in 0..(m - 1) |-> IF i = 0 THEN q ELSE Forget(f[i - 1], r, i)]
  BY <1>4
<1> DEFINE g == [i \in 0..m |-> IF i = m THEN Forget(f[m - 1], r, m) ELSE f[i]]
<1>6. \A i \in 0..m : g[i] = IF i = 0 THEN q ELSE Forget(g[i - 1], r, i)
  <2> SUFFICES ASSUME NEW i \in 0..m
               PROVE  g[i] = IF i = 0 THEN q ELSE Forget(g[i - 1], r, i)
    OBVIOUS
  <2>1. CASE i = m
    <3>1. m - 1 \in 0..m /\ m - 1 # m /\ m # 0
      BY <1>4
    <3> QED
      BY <2>1, <3>1
  <2>2. CASE i # m
    <3>1. i \in 0..(m - 1) /\ (i # 0 => i - 1 \in 0..m /\ i - 1 # m)
      BY <1>4, <2>2
    <3> QED
      BY <1>5, <2>2, <3>1
  <2> QED
    BY <2>1, <2>2
<1>7. g = [i \in 0..m |-> g[i]]
  OBVIOUS
<1> HIDE DEF g
<1>8. g = [i \in 0..m |-> IF i = 0 THEN q ELSE Forget(g[i - 1], r, i)]
  BY <1>6, <1>7
<1> QED
  BY <1>4, <1>8

\* Whatever menu entry 2 erases, it leaves a list of rooms.
LEMMA ForgetRoomIsSeq ==
  ASSUME NEW q \in Seq(Room), NEW r
  PROVE  ForgetRoom(q, r) \in Seq(Room)
<1> DEFINE n == Len(q)
           list == CHOOSE f : f = [i \in 0..n |-> IF i = 0 THEN q ELSE Forget(f[i - 1], r, i)]
           S == {i \in 0..n : list[i] \notin Seq(Room)}
<1>1. n \in Nat /\ ForgetRoom(q, r) = list[n]
  BY DEF ForgetRoom
<1> HIDE DEF n
<1>2. list = [i \in 0..n |-> IF i = 0 THEN q ELSE Forget(list[i - 1], r, i)]
  BY <1>1, ListsExist
<1> HIDE DEF list
<1>3. S = {}
  <2> SUFFICES ASSUME S # {} PROVE FALSE
    OBVIOUS
  <2>1. S \in SUBSET Nat
    OBVIOUS
  <2>2. PICK m \in S : \A k \in S : m <= k
    <3> HIDE DEF S
    <3> QED
      BY <2>1, LeastNat
  <2>3. list[0] = q
    BY <1>1, <1>2
  <2>4. m \in 1..n /\ m \in Nat \ {0} /\ list[m - 1] \in Seq(Room)
    BY <1>1, <2>2, <2>3
  <2>5. list[m] = Forget(list[m - 1], r, m)
    BY <1>1, <1>2, <2>4
  <2> QED
    BY <2>2, <2>4, <2>5, ForgetIsSeq
<1> QED
  BY <1>1, <1>3

-----------------------------------------------------------------------------
(* Type correctness *)

\* The variables that LateInv, LineInv and EndInv say nothing of
RestTyped ==
  /\ pc \in {"connect", "name", "menu", "shutdown", "close", "spin", "ended"}
  /\ thread \in {"none", "test", "recv", "broken", "pause", "done"}
  /\ endThread \in BOOLEAN
  /\ socket \in {"open", "shut", "closed"}
  /\ rooms \in Seq(Room)
  /\ wsaRefs \in 0..1
  /\ server \in {"up", "closed"}
  /\ sent \in Seq(Request)

LEMMA SendDataTyped ==
  ASSUME RestTyped, pc = "menu", NEW r \in Request, SendData(r), rooms' \in Seq(Room)
  PROVE  RestTyped'
<1>1. Append(sent, r) \in Seq(Request)
  BY DEF RestTyped
<1>2. sent' \in Seq(Request)
  BY <1>1 DEF RestTyped, SendData
<1>3. socket' \in {"open", "shut", "closed"} /\ wsaRefs' \in 0..1
  BY DEF RestTyped, SendData, CloseSocket
<1>4. pc' = pc /\ thread' = thread /\ endThread' = endThread /\ server' = server
  BY DEF SendData
<1> QED
  BY <1>2, <1>3, <1>4 DEF RestTyped

LEMMA UserTyped ==
  ASSUME RestTyped, UserStep
  PROVE  RestTyped'
<1>1. ASSUME NEW room \in Room, JoinRoom(room) \/ LeaveRoom(room) \/ SendMessage(room)
      PROVE  RestTyped'
  <2>1. /\ [id |-> "JOIN", room |-> room] \in Request
        /\ [id |-> "LEAVE", room |-> room] \in Request
        /\ [id |-> "SEND", room |-> room] \in Request
    BY DEF Request, RoomRequest
  <2>2. /\ Append(rooms, room) \in Seq(Room)
        /\ ForgetRoom(rooms, room) \in Seq(Room)
        /\ rooms \in Seq(Room)
    BY ForgetRoomIsSeq DEF RestTyped
  <2> QED
    BY <1>1, <2>1, <2>2, SendDataTyped DEF JoinRoom, LeaveRoom, SendMessage
<1>2. ASSUME NEW id \in {"CREATE", "AUTHENTICATE"}, SendAccount(id)
      PROVE  RestTyped'
  <2>1. [id |-> id] \in Request
    BY DEF Request, AccountRequest
  <2> QED
    BY <1>2, <2>1, SendDataTyped DEF SendAccount, RestTyped
<1>3. CASE Crash
  BY <1>3 DEF Crash, Die, history, RestTyped
<1>4. CASE Exit \/ EnterLetter
  BY <1>4 DEF Exit, EnterLetter, history, connection, RestTyped
<1> QED
  BY <1>1, <1>2, <1>3, <1>4 DEF UserStep

LEMMA TypedStep == RestTyped /\ [Next]_vars => RestTyped'
<1> SUFFICES ASSUME RestTyped, [Next]_vars PROVE RestTyped'
  OBVIOUS
<1>1. CASE UNCHANGED vars \/ Ended
  BY <1>1 DEF Ended, vars, history, connection, RestTyped
<1>2. CASE MainStep
  BY <1>2 DEF MainStep, Connect, SendName, Shutdown, Close, CloseSocket, history, connection,
              RestTyped
<1>3. CASE Test \/ Receive \/ WouldBlock \/ ReceiveFails \/ PressKey
  BY <1>3 DEF Test, Receive, WouldBlock, ReceiveFails, PressKey, history, connection, RestTyped
<1>4. CASE ReceiveTooShort \/ CloseBroken \/ Kill
  BY <1>4 DEF ReceiveTooShort, CloseBroken, Kill, Die, CloseSocket, history, RestTyped
<1>5. CASE SendLine \/ ServerEnds
  BY <1>5 DEF SendLine, ServerEnds, history, RestTyped
<1> QED
  BY <1>1, <1>2, <1>3, <1>4, <1>5, UserTyped DEF Next, ThreadStep

\* Every state of the client has the types of TypeOK: in particular, its list of rooms
\* stays a list of rooms though menu entry 2 erases from it while it walks along it.
THEOREM ClientTypeCorrect == Spec => []TypeOK
<1>1. Init => RestTyped /\ LateInv
  <2>1. << >> \in Seq(Room) /\ << >> \in Seq(Request) /\ 1 \in 0..1 /\ 0 \in 0..1
    BY EmptySeq
  <2> HIDE DEF RestTyped
  <2>2. Init => RestTyped
    BY <2>1, Zenon DEF Init, RestTyped
  <2> QED
    BY <2>1, <2>2 DEF Init, LateInv
<1>2. RestTyped /\ LateInv /\ LineInv /\ EndInv => TypeOK
  BY DEF RestTyped, LateInv, LineInv, LinesTyped, EndInv, TypeOK
<1>3. EndInv /\ [Next]_vars => EndInv'
  BY NextEnds DEF EndStep
<1> QED
  BY <1>1, <1>2, <1>3, EndInit, LineInit, TypedStep, LateStep, LineStep, PTL DEF Spec
=============================================================================
