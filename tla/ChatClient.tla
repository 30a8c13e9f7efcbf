----------------------------- MODULE ChatClient -----------------------------
(***************************************************************************)
(* The chat client of ChatClient_HA: the main thread connects, sends the   *)
(* name and runs the menu; a second thread receives and prints lines.      *)
(* They share the socket, Winsock's reference count and the flag endThread *)
(* without any synchronisation.  Each call on shared state is a step.      *)
(*                                                                         *)
(* A line from the server is LineWidth cells, its zero padding included;   *)
(* recv() takes at most BufLen of them, and only the line that they begin  *)
(* with is printed, or as much of it as they have.                         *)
(*                                                                         *)
(* The user, the chat server and TCP are the environment.                  *)
(***************************************************************************)
EXTENDS Integers, Sequences, FiniteSets

CONSTANTS
  Room,      \* room names
  BufLen,    \* cells that one recv() of 128 bytes can return
  LineWidth, \* cells of a line of the server
  Faults,    \* what may go wrong around the client
  MaxSent,   \* bound: requests that send() takes
  MaxRooms,  \* bound: entries of the list of rooms
  MaxLines   \* bound: lines the server sends

FaultKind == {"refused", "malformed", "letter", "full", "serverEnd", "kill"}

ASSUME ConstantsAssumption ==
  /\ BufLen \in Nat \ {0}
  /\ LineWidth \in Nat \ {0}
  /\ Faults \subseteq FaultKind
  /\ MaxSent \in Nat /\ MaxRooms \in Nat /\ MaxLines \in Nat

VARIABLES
  \* the program
  pc,        \* main thread: connect, name, menu, shutdown, close, spin, ended
  thread,    \* none, test (of endThread), recv, broken (recv failed), pause, done
  endThread,
  socket,    \* open, shut (nothing more can be sent), closed
  rooms,     \* CLIENT.rooms
  wsaRefs,   \* WSAStartup calls not yet undone by a WSACleanup
  \* the connection
  conn,      \* as the server sees it: idle, dialed, open, closed, reset
  server,    \* the server's end: up, closed
  inbox,     \* cells the client has not received
  nlines,    \* number of lines the server has sent
  \* history
  sent,      \* the requests that send() took
  shown,     \* the lines printed, 0 for what is not the beginning of one
  late       \* number of lines printed since endThread was set

connection == <<conn, server, inbox, nlines>>
history == <<sent, shown, late>>
vars == <<pc, thread, endThread, socket, rooms, wsaRefs, connection, history>>

-----------------------------------------------------------------------------
RoomRequest == [id : {"JOIN", "LEAVE", "SEND"}, room : Room]
AccountRequest == [id : {"CREATE", "AUTHENTICATE"}]
Request == RoomRequest \cup AccountRequest
Cell == [line : Nat, k : Nat]

TypeOK ==
  /\ pc \in {"connect", "name", "menu", "shutdown", "close", "spin", "ended"}
  /\ thread \in {"none", "test", "recv", "broken", "pause", "done"}
  /\ endThread \in BOOLEAN
  /\ socket \in {"open", "shut", "closed"}
  /\ rooms \in Seq(Room)
  /\ wsaRefs \in 0..1
  /\ conn \in {"idle", "dialed", "open", "closed", "reset"}
  /\ server \in {"up", "closed"}
  /\ inbox \in Seq(Cell)
  /\ nlines \in Nat
  /\ sent \in Seq(Request)
  /\ shown \in Seq(Nat)
  /\ late \in Nat

Init ==
  /\ pc = "connect" /\ thread = "none"
  /\ endThread = FALSE
  /\ socket = "open"
  /\ rooms = << >>
  /\ wsaRefs = 1
  /\ conn = "idle" /\ server = "up" /\ inbox = << >> /\ nlines = 0
  /\ sent = << >> /\ shown = << >> /\ late = 0

-----------------------------------------------------------------------------
(* The socket *)

\* recv() and send() report an error.
Broken == socket = "closed" \/ wsaRefs = 0 \/ conn \in {"idle", "reset"}

\* closesocket() and WSACleanup(), which either thread may call once more.  TCP ends the
\* stream, or resets the connection if there is something unread.
CloseSocket ==
  /\ socket' = "closed"
  /\ wsaRefs' = IF wsaRefs = 0 THEN 0 ELSE wsaRefs - 1
  /\ conn' = IF conn \notin {"open", "closed"} THEN conn
             ELSE IF inbox # << >> THEN "reset" ELSE "closed"
  /\ inbox' = << >>

\* The process ends without a call of closesocket().
Die ==
  /\ pc' = "ended"
  /\ socket' = "closed"
  /\ conn' = IF socket = "closed" \/ conn = "idle" THEN conn ELSE "reset"
  /\ inbox' = << >>

-----------------------------------------------------------------------------
(* ClientHelper::Initialize *)

\* The result of connect() is not looked at.
Connect ==
  /\ pc = "connect"
  /\ pc' = "name"
  /\ conn' = "dialed" \/ ("refused" \in Faults /\ UNCHANGED conn)
  /\ UNCHANGED <<thread, endThread, socket, rooms, wsaRefs, server, inbox, nlines, history>>

MutantSendName ==
  /\ pc = "name"
  /\ pc' = "menu"
  /\ thread' = "test"
  /\ UNCHANGED <<endThread, socket, rooms, wsaRefs, connection, history>>

SendName ==
  /\ pc = "name"
  /\ pc' = "menu"
  /\ thread' = "test"
  /\ conn' = IF conn = "dialed" THEN "open" ELSE conn
  /\ UNCHANGED <<endThread, socket, rooms, wsaRefs, server, inbox, nlines, history>>

-----------------------------------------------------------------------------
(* The menu *)

\* sendData(): the socket does not block, so that send() fails, and the connection is
\* closed, also when the server does not receive and the buffers are full.
SendData(r) ==
  /\ Len(sent) < MaxSent
  /\ \/ /\ ~Broken /\ socket = "open"
        /\ sent' = Append(sent, r)
        /\ UNCHANGED <<socket, wsaRefs, conn, inbox>>
     \/ /\ Broken \/ socket # "open" \/ "full" \in Faults
        /\ CloseSocket
        /\ UNCHANGED sent
  /\ UNCHANGED <<pc, thread, endThread, server, nlines, shown, late>>

\* Menu entry 1.  The list grows whether or not send() succeeds.
JoinRoom(r) ==
  /\ pc = "menu"
  /\ Len(rooms) < MaxRooms
  /\ rooms' = Append(rooms, r)
  /\ SendData([id |-> "JOIN", room |-> r])

RemoveAt(q, i) == SubSeq(q, 1, i - 1) \o SubSeq(q, i + 1, Len(q))

\* Mutant: the name is cleared, the element stays.
MutantForget(l, r, i) ==
  IF i > Len(l) \/ l[i] # r THEN l ELSE [l EXCEPT ![i] = ""]

\* Step i of the loop of menu entry 2, on the list l: for a match it erases the element
\* before.  For a match at the beginning this is undefined: if the process survives it,
\* the first element is gone.
Forget(l, r, i) ==
  IF i > Len(l) \/ l[i] # r THEN l
  ELSE RemoveAt(l, IF i = 1 THEN 1 ELSE i - 1)

ForgetRoom(q, r) ==
  LET list[i \in 0..Len(q)] == IF i = 0 THEN q ELSE Forget(list[i - 1], r, i)
  IN  list[Len(q)]

LeaveRoom(r) ==
  /\ pc = "menu"
  /\ rooms' = ForgetRoom(rooms, r)
  /\ SendData([id |-> "LEAVE", room |-> r])

\* Undefined behaviour: the first room is left, or the input of an entry has no ':' and
\* the second part of it is read all the same.
Crash ==
  /\ pc = "menu"
  /\ rooms # << >> \/ "malformed" \in Faults
  /\ Die
  /\ UNCHANGED <<thread, endThread, rooms, wsaRefs, server, nlines, history>>

\* Entries 3, 4 and 5
SendMessage(r) ==
  /\ pc = "menu"
  /\ SendData([id |-> "SEND", room |-> r])
  /\ UNCHANGED rooms

SendAccount(id) ==
  /\ pc = "menu"
  /\ SendData([id |-> id])
  /\ UNCHANGED rooms

MutantExit ==
  /\ pc = "menu"
  /\ endThread' = TRUE
  /\ pc' = "menu"
  /\ UNCHANGED <<thread, socket, rooms, wsaRefs, connection, history>>

\* Entry 6.  It leaves the switch but not the loop: the menu goes on after Close.
Exit ==
  /\ pc = "menu"
  /\ endThread' = TRUE
  /\ pc' = "shutdown"
  /\ UNCHANGED <<thread, socket, rooms, wsaRefs, connection, history>>

\* ShutDown(): shutdown() of the sending side, and on an error closesocket() at once
Shutdown ==
  /\ pc = "shutdown"
  /\ \/ /\ ~Broken
        /\ socket' = "shut" /\ conn' = "closed"
        /\ pc' = "close"
        /\ UNCHANGED <<wsaRefs, inbox>>
     \/ /\ Broken
        /\ CloseSocket
        /\ pc' = "menu"
  /\ UNCHANGED <<thread, endThread, rooms, server, nlines, history>>

Close ==
  /\ pc = "close"
  /\ CloseSocket
  /\ pc' = "menu"
  /\ UNCHANGED <<thread, endThread, rooms, server, nlines, history>>

\* A letter where a number is expected: every later extraction fails, too, and the menu
\* is printed for ever.
EnterLetter ==
  /\ pc = "menu"
  /\ "letter" \in Faults
  /\ pc' = "spin"
  /\ UNCHANGED <<thread, endThread, socket, rooms, wsaRefs, connection, history>>

UserStep ==
  \/ \E r \in Room : JoinRoom(r) \/ LeaveRoom(r) \/ SendMessage(r)
  \/ \E id \in {"CREATE", "AUTHENTICATE"} : SendAccount(id)
  \/ Crash \/ Exit \/ EnterLetter

MainStep == Connect \/ SendName \/ Shutdown \/ Close

-----------------------------------------------------------------------------
(* The receive thread *)

Chunk(q) == SubSeq(q, 1, IF Len(q) < BufLen THEN Len(q) ELSE BufLen)

MutantRest(q) == q
Rest(q) == SubSeq(q, BufLen + 1, Len(q))

MutantTest ==
  /\ thread = "test"
  /\ thread' = "recv"
  /\ UNCHANGED <<pc, endThread, socket, rooms, wsaRefs, connection, history>>

Test ==
  /\ thread = "test"
  /\ thread' = IF endThread THEN "done" ELSE "recv"
  /\ UNCHANGED <<pc, endThread, socket, rooms, wsaRefs, connection, history>>

\* What follows the first line is dropped.
Receive ==
  /\ thread = "recv"
  /\ ~Broken /\ inbox # << >>
  /\ LET first == Head(Chunk(inbox))
     IN  shown' = Append(shown, IF first.k = 1 THEN first.line ELSE 0)
  /\ late' = IF endThread THEN late + 1 ELSE late
  /\ inbox' = Rest(inbox)
  /\ thread' = "test"
  /\ UNCHANGED <<pc, endThread, socket, rooms, wsaRefs, conn, server, nlines, sent>>

WouldBlock ==
  /\ thread = "recv"
  /\ ~Broken /\ inbox = << >> /\ server = "up"
  /\ thread' = "test"
  /\ UNCHANGED <<pc, endThread, socket, rooms, wsaRefs, connection, history>>

\* The server has closed its end: recv() returns 0, and four bytes are read from an
\* empty vector.  The last bytes of a line may be fewer than four, too.
ReceiveTooShort ==
  /\ thread = "recv"
  /\ ~Broken
  /\ \/ inbox = << >> /\ server = "closed"
     \/ inbox # << >> /\ Len(Chunk(inbox)) = 1 /\ Head(inbox).k # 1
  /\ Die
  /\ UNCHANGED <<thread, endThread, rooms, wsaRefs, server, nlines, history>>

ReceiveFails ==
  /\ thread = "recv"
  /\ Broken
  /\ thread' = "broken"
  /\ UNCHANGED <<pc, endThread, socket, rooms, wsaRefs, connection, history>>

\* recvMessage() closes the socket under the main thread, and waits for a key.
CloseBroken ==
  /\ thread = "broken"
  /\ CloseSocket
  /\ thread' = "pause"
  /\ UNCHANGED <<pc, endThread, rooms, server, nlines, history>>

PressKey ==
  /\ thread = "pause"
  /\ thread' = "test"
  /\ UNCHANGED <<pc, endThread, socket, rooms, wsaRefs, connection, history>>

ThreadStep == Test \/ Receive \/ WouldBlock \/ ReceiveTooShort \/ ReceiveFails \/ CloseBroken

-----------------------------------------------------------------------------
(* The environment *)

\* A line that arrives at a closed socket is answered with a reset.
SendLine ==
  /\ conn \in {"open", "closed"} /\ server = "up"
  /\ nlines < MaxLines
  /\ nlines' = nlines + 1
  /\ IF socket = "closed"
     THEN conn' = "reset" /\ UNCHANGED inbox
     ELSE /\ inbox' = inbox \o [k \in 1..LineWidth |-> [line |-> nlines + 1, k |-> k]]
          /\ UNCHANGED conn
  /\ UNCHANGED <<pc, thread, endThread, socket, rooms, wsaRefs, server, history>>

\* The server ends: its connections are closed, or reset.
ServerEnds ==
  /\ "serverEnd" \in Faults
  /\ conn \in {"open", "closed"}
  /\ \/ server = "up" /\ server' = "closed" /\ UNCHANGED <<conn, inbox>>
     \/ conn' = "reset" /\ inbox' = << >> /\ UNCHANGED server
  /\ UNCHANGED <<pc, thread, endThread, socket, rooms, wsaRefs, nlines, history>>

\* The user closes the window.
Kill ==
  /\ "kill" \in Faults
  /\ Die
  /\ UNCHANGED <<thread, endThread, rooms, wsaRefs, server, nlines, history>>

Ended == pc = "ended" /\ UNCHANGED vars

Next ==
  \/ pc # "ended" /\ (UserStep \/ MainStep \/ ThreadStep \/ PressKey \/ Kill)
  \/ SendLine \/ ServerEnds
  \/ Ended

Spec == Init /\ [][Next]_vars

\* Both threads keep running.  The user need not choose anything or press any key.
Fairness == WF_vars(pc # "ended" /\ MainStep) /\ WF_vars(pc # "ended" /\ ThreadStep)

LiveSpec == Spec /\ Fairness
=============================================================================
