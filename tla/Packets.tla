------------------------------- MODULE Packets -------------------------------
(***************************************************************************)
(* The way of one request through the three programs, byte by byte: the    *)
(* user's name and the request from the client to the chat server, an      *)
(* account request on to the authentication server, its answer back, and   *)
(* the lines to the clients.  All of them are made with class Buffer, and  *)
(* all are received in pieces of at most 128 bytes into arrays that keep   *)
(* what was in them.                                                       *)
(*                                                                         *)
(* A string is a sequence of equal bytes.  What lies behind the end of a   *)
(* vector or in an array that was never written is one byte, too, beyond.  *)
(* The programs are built for x64: a size_t has 8 bytes, a string 32.      *)
(***************************************************************************)
EXTENDS Buffer

CONSTANTS
  Typed,  \* what users type, their name and the two fields of a request; and the number
          \* of their account as it is serialized, 1 to 5 bytes of a varint
  Beyond  \* the bytes that may lie in memory that was not written

VARIABLES
  typed,    \* the request, one of Typed
  beyond,
  stage,    \* name, request, serve, asked (chat server waits for an answer)
  wire,     \* bytes from the client that the chat server has not received
  named,    \* the name in the chat server's table
  array,    \* the array in the chat server's serve loop
  handled,  \* the requests the chat server has taken from it
  link,     \* bytes to the authentication server
  authArray,\* the array in its serve loop
  asked,    \* the requests it has taken from it, and their outcomes
  back,     \* bytes from the authentication server
  lines     \* the lines to clients, what was received of them and what was printed

vars == <<typed, beyond, stage, wire, named, array, handled, link, authArray, asked, back,
          lines>>

RecvLen == 128
SizeT == 8
SizeOfString == 32
HeaderSize == 8

Id == [JOIN |-> 1, LEAVE |-> 2, SEND |-> 3, CREATE |-> 4, AUTHENTICATE |-> 5]

\* Names fit in the recv() that the chat server has for them: what would follow a longer
\* one, its rest read as the beginning of a request, is not in this module.
ASSUME PacketsAssumption ==
  /\ Typed \subseteq [id : DOMAIN Id, user : Seq(Byte), first : Seq(Byte), second : Seq(Byte),
                     account : Seq(Byte)]
  /\ \A t \in Typed : Len(t.user) + 4 <= RecvLen /\ Len(t.account) \in 1..5
  /\ Beyond \subseteq Byte

Init ==
  /\ typed \in Typed
  /\ beyond \in Beyond
  /\ stage = "name"
  /\ wire = << >> /\ link = << >> /\ back = << >>
  /\ named = << >>
  /\ array = Fill(beyond, RecvLen) /\ authArray = Fill(beyond, RecvLen)
  /\ handled = << >> /\ asked = << >> /\ lines = << >>

-----------------------------------------------------------------------------
(* Sending and receiving *)

\* send() of so many bytes from the beginning of a vector
Sent(b, length) ==
  [i \in 1..length |-> IF i <= Len(b.data) THEN b.data[i] ELSE beyond]

Piece(q) == SubSeq(q, 1, IF Len(q) < RecvLen THEN Len(q) ELSE RecvLen)
Rest(q) == SubSeq(q, RecvLen + 1, Len(q))

\* An array after recv() into it
Overlay(old, piece) == piece \o SubSeq(old, Len(piece) + 1, RecvLen)

\* WriteInt32LE() of the size and WriteString()
WriteText(b, s) == WriteString(WriteInt32LE(b, Len(s)), s)

\* ReadString(ReadInt32LE())
ReadText(b) == LET n == ReadInt32LE(b) IN ReadString(n.buffer, n.value)

-----------------------------------------------------------------------------
(* The client: its name, and menu entries 1 to 5 *)

\* The size in front of the name is that of a std::string, not of the name.
SendName ==
  /\ stage = "name"
  /\ stage' = "request"
  /\ wire' = Sent(WriteString(WriteInt32LE(New(4), SizeOfString), typed.user),
                  Len(typed.user) + 4)
  /\ UNCHANGED <<typed, beyond, named, array, handled, link, authArray, asked, back, lines>>

MutantRequestLength(id, first, second) == HeaderSize + 4 + Len(first) + 4 + Len(second)

\* Both sizes are counted with 8 or 32 bytes and written with 4.
RequestLength(id, first, second) ==
  HeaderSize + SizeT + Len(first)
    + (IF id \in {"JOIN", "LEAVE"} THEN SizeT ELSE SizeOfString) + Len(second)

SendRequest ==
  /\ stage = "request" /\ wire = << >>
  /\ stage' = "serve"
  /\ LET length == RequestLength(typed.id, typed.first, typed.second)
         header == WriteInt32LE(WriteInt32LE(New(length), length), Id[typed.id])
     IN  wire' = Sent(WriteText(WriteText(header, typed.first), typed.second), length)
  /\ UNCHANGED <<typed, beyond, named, array, handled, link, authArray, asked, back, lines>>

-----------------------------------------------------------------------------
(* The chat server *)

\* The vector has the bytes received, and no more.
ReceiveName ==
  /\ stage = "request" /\ wire # << >>
  /\ LET size == ReadInt32LEAt(SetBuffer(New(0), Piece(wire)), 0)
     IN  named' = ReadString(size.buffer, size.value).value
  /\ wire' = Rest(wire)
  /\ UNCHANGED <<typed, beyond, stage, array, handled, link, authArray, asked, back, lines>>

MutantLineLength(n) == 4 + n

\* The size of a line is counted with 8 bytes and written with 4.
LineLength(n) == SizeT + n

NewLine(b, text, length) ==
  [text |-> text, bytes |-> Sent(b, length), size |-> length, printed |-> << >>]

Line(text) ==
  NewLine(WriteText(New(LineLength(Len(text))), text), text, LineLength(Len(text)))

\* "You have successfully joined room ", "You have successfully left room " or, when
\* that was so already, "You aren't in room "
ReplySize(id) == IF id = "JOIN" THEN 34 ELSE IF handled = << >> THEN 32 ELSE 19

\* The reply with the name of the room, and "User ... has joined (left) the room!(...)",
\* which is written to the same buffer with an empty vector.
RoomLines(id, room) ==
  LET text == Fill(100, ReplySize(id))
      length == SizeT + Len(text) + SizeT + Len(room)
      reply == WriteText(WriteText(New(length), text), room)
      notice == Fill(101, (IF id = "JOIN" THEN 28 ELSE 26) + Len(named) + Len(room))
      cleared == At(SetBuffer(reply, << >>), 0)
  IN  <<NewLine(reply, text \o room, length),
        NewLine(WriteText(cleared, notice), notice, LineLength(Len(notice)))>>

\* "name > room: message"
ChatLine(room, message) == Line(named \o <<32, 62, 32>> \o room \o <<58, 32>> \o message)

\* The protobuf message of an account request
Serialized(number, email, password) ==
  <<8, number, 18, Len(email)>> \o email \o <<26, Len(password)>> \o password

MutantForwardLength(s) == HeaderSize + s

\* The size is counted as that of a std::string.
ForwardLength(s) == HeaderSize + SizeOfString + s

\* It is written over the request in the buffer it came in.
Forward(b, number, email, password) ==
  LET s == Serialized(number, email, password)
      length == ForwardLength(Len(s))
  IN  Sent(WriteText(WriteInt32LE(WriteInt32LEAt(b, 0, length), number), s), length)

MutantDecode(bytes) ==
  LET id == ReadInt32LEAt(SetBuffer(New(0), bytes), 4)
      first == ReadText(id.buffer)
  IN  [id |-> id.value, first |-> ReadText(first.buffer).value, second |-> first.value,
       buffer |-> ReadText(first.buffer).buffer]

\* The message id and the two fields, in their order in the array
Decode(bytes) ==
  LET id == ReadInt32LEAt(SetBuffer(New(0), bytes), 4)
      first == ReadText(id.buffer)
      second == ReadText(first.buffer)
  IN  [id |-> id.value, first |-> first.value, second |-> second.value,
       buffer |-> second.buffer]

\* The whole array is parsed, however much of it was received.
ReceiveRequest ==
  /\ stage = "serve" /\ wire # << >>
  /\ array' = Overlay(array, Piece(wire))
  /\ wire' = Rest(wire)
  /\ LET r == Decode(array')
         account == r.id \in {Id.CREATE, Id.AUTHENTICATE}
     IN  /\ handled' = IF r.id \in 1..5
                       THEN Append(handled, [id |-> r.id, first |-> r.first, second |-> r.second])
                       ELSE handled
         /\ lines' = lines \o (IF r.id = Id.JOIN THEN RoomLines("JOIN", r.second)
                               ELSE IF r.id = Id.LEAVE THEN RoomLines("LEAVE", r.second)
                               ELSE IF r.id = Id.SEND THEN <<ChatLine(r.first, r.second)>>
                               ELSE << >>)
         /\ link' = IF account THEN link \o Forward(r.buffer, r.id - 3, r.first, r.second)
                    ELSE link
         /\ stage' = IF account THEN "asked" ELSE "serve"
  /\ UNCHANGED <<typed, beyond, named, authArray, asked, back>>

Failure == <<8, 3, 16, 1>>
LoginSuccess == <<8, 4, 16>> \o typed.account \o <<26, 19>> \o Fill(102, 19)

\* What the client is told: "Account successfully created!", "Account authentication
\* successful, the creation date was ...", or one of the refusals
Told(register, success) ==
  IF ~success THEN Fill(103, 46)
  ELSE IF register THEN Fill(104, 29)
  ELSE Fill(105, 76)

\* recvMessage() and what follows.  A created account needs no message to be parsed.
ReceiveAnswer ==
  /\ stage = "asked" /\ back # << >>
  /\ LET success == ReadInt32LEAt(SetBuffer(New(0), Piece(back)), 0)
         message == ReadText(ReadText(success.buffer).buffer).value
         register == handled[Len(handled)].id = Id.CREATE
         parses == \/ success.value = 0 /\ message = Failure
                   \/ success.value # 0 /\ (register \/ message = LoginSuccess)
     IN  lines' = IF parses THEN Append(lines, Line(Told(register, success.value # 0)))
                  ELSE lines
  /\ back' = Rest(back)
  /\ stage' = "serve"
  /\ UNCHANGED <<typed, beyond, wire, named, array, handled, link, authArray, asked>>

-----------------------------------------------------------------------------
(* The authentication server *)

MutantParses(s) == Len(s) > 5

\* A message that was cut does not parse.
Parses(s) ==
  /\ Len(s) > 5 /\ s[4] + 6 <= Len(s)
  /\ Len(s) = s[4] + 6 + s[s[4] + 6]

MutantAnswer(success, text, counted, s) ==
  Sent(WriteText(WriteText(WriteInt32LEAt(New(0), 0, success), text), s),
       4 + SizeT + Len(text) + SizeT)

\* An answer; counted is the message by which its length is computed.
Answer(success, text, counted, s) ==
  LET length == 4 + SizeT + Len(text) + SizeT + Len(counted)
  IN  Sent(WriteText(WriteText(WriteInt32LEAt(New(length), 0, success), text), s), length)

\* "Account successfully created." and "Failure to create account."  Only where the
\* password is short is the length computed by the message that is sent; the success of
\* a registration repeats the request.
AnswerTo(register, outcome, request) ==
  IF outcome = "ok"
  THEN Answer(1, Fill(106, 29), request, IF register THEN request ELSE LoginSuccess)
  ELSE Answer(0, Fill(107, 26), IF outcome = "short" THEN Failure ELSE request, Failure)

\* A password of less than eight characters is not registered.
Outcomes(register, password) ==
  IF register /\ Len(password) < 8 THEN {"short"} ELSE {"ok", "failed"}

ReceiveForwarded ==
  /\ link # << >>
  /\ authArray' = Overlay(authArray, Piece(link))
  /\ link' = Rest(link)
  /\ LET id == ReadInt32LEAt(SetBuffer(New(0), authArray'), 4)
         s == ReadText(id.buffer).value
         email == SubSeq(s, 5, 4 + s[4])
         password == SubSeq(s, 7 + s[4], Len(s))
     IN  IF id.value \in {1, 2} /\ Parses(s)
         THEN \E outcome \in Outcomes(id.value = 1, password) :
                /\ asked' = Append(asked, [id |-> id.value, email |-> email,
                                           password |-> password, outcome |-> outcome])
                /\ back' = back \o AnswerTo(id.value = 1, outcome, s)
         ELSE UNCHANGED <<asked, back>>
  /\ UNCHANGED <<typed, beyond, stage, wire, named, array, handled, lines>>

-----------------------------------------------------------------------------
(* The receive thread of a client *)

\* One recv() for each piece of line i, which arrives by itself.  Where less than four
\* bytes were received, the read is undefined and the process may end.
PrintPiece(i) ==
  /\ lines[i].bytes # << >>
  /\ LET b == SetBuffer(New(0), Piece(lines[i].bytes))
         text == ReadText(b)
         print == text.value \o ReadText(text.buffer).value
     IN  lines' = IF CanReadInt32(b)
                  THEN [lines EXCEPT ![i].bytes = Rest(@), ![i].printed = Append(@, print)]
                  ELSE [lines EXCEPT ![i].bytes = << >>, ![i].printed = Append(@, << >>)]
  /\ UNCHANGED <<typed, beyond, stage, wire, named, array, handled, link, authArray, asked, back>>

-----------------------------------------------------------------------------
\* Nothing is on its way; the chat server may be waiting for an answer for ever.
AtRest ==
  /\ (stage = "serve" /\ wire = << >>) \/ (stage = "asked" /\ back = << >>)
  /\ link = << >>
  /\ \A i \in DOMAIN lines : lines[i].bytes = << >>

Rested == AtRest /\ UNCHANGED vars

Next ==
  \/ SendName \/ ReceiveName \/ SendRequest \/ ReceiveRequest \/ ReceiveForwarded
  \/ ReceiveAnswer \/ (\E i \in DOMAIN lines : PrintPiece(i)) \/ Rested

Spec == Init /\ [][Next]_vars
=============================================================================
