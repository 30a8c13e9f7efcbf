------------------------ MODULE ChatRequests_proofs ------------------------
(***************************************************************************)
(* What becomes of requests, for every instance of ChatServer: that        *)
(* nothing but a lost authentication server or a reset connection ends the *)
(* server, that every answer about an account goes to the client that      *)
(* asked, and that every request is handled at most once and in order.     *)
(***************************************************************************)
EXTENDS ChatServer_proofs

-----------------------------------------------------------------------------
(* Why the process ends *)

LEMMA GreatestIndex ==
  ASSUME NEW n \in Nat, NEW S, S \subseteq 1..n, S # {}
  PROVE  \E m \in S : \A k \in S : k <= m
<1> DEFINE bounds == {m \in 0..n : \A k \in S : k <= m}
<1>1. n \in bounds /\ bounds \subseteq Nat
  OBVIOUS
<1> HIDE DEF bounds
<1>2. PICK m \in bounds : \A k \in bounds : m <= k
  BY <1>1, LeastNat
<1> USE DEF bounds
<1>3. m \in S
  <2> SUFFICES ASSUME m \notin S PROVE FALSE
    OBVIOUS
  <2>1. \A k \in S : k <= m - 1
    BY <1>2
  <2>2. PICK x \in S : x \in 1..n /\ x <= m
    BY <1>2
  <2>3. m - 1 \in bounds
    BY <1>2, <2>1, <2>2
  <2> QED
    BY <1>2, <2>3
<1> QED
  BY <1>2, <1>3

LEMMA ServingIsClient ==
  ASSUME TypeOK, NEW s \in Socket, Serving(s)
  PROVE  s \in Range(clients)
BY DEF Serving, Range

\* At most one client is being served.
LEMMA ServingUnique ==
  ASSUME TypeOK, NEW s \in Socket, NEW t \in Socket, Serving(s), Serving(t)
  PROVE  s = t
<1>1. PICK i \in DOMAIN clients : clients[i] = s /\ \A j \in 1..(i - 1) : clients[j] \notin ready
  BY DEF Serving
<1>2. PICK k \in DOMAIN clients : clients[k] = t /\ \A j \in 1..(k - 1) : clients[j] \notin ready
  BY DEF Serving
<1>3. s \in ready /\ t \in ready
  BY DEF Serving
<1>4. DOMAIN clients = 1..Len(clients) /\ Len(clients) \in Nat
  BY LenProperties DEF TypeOK
<1>5. ~(i < k) /\ ~(k < i)
  BY <1>1, <1>2, <1>3, <1>4
<1> QED
  BY <1>1, <1>2, <1>4, <1>5

\* send() fails only for a client in the table whose socket is broken.
LEMMA TellFails ==
  ASSUME TypeOK, NEW s \in Range(clients), NEW reply, NEW notices,
         Tell(s, reply, notices), result' = "error"
  PROVE  result = "error" \/ \E x \in Range(clients) : Broken(x)
<1> DEFINE told == {i \in DOMAIN clients : notices[clients[i]] # << >>}
           lastTold == CHOOSE i \in told : \A j \in told : j <= i
<1>1. result' = IF told # {} THEN IF Broken(clients[lastTold]) THEN "error" ELSE "ok"
                ELSE IF reply = << >> THEN result
                ELSE IF Broken(s) THEN "error" ELSE "ok"
  BY DEF Tell
<1>2. told \subseteq DOMAIN clients
  OBVIOUS
<1>3. DOMAIN clients = 1..Len(clients) /\ Len(clients) \in Nat
  BY LenProperties DEF TypeOK
<1>4. ASSUME told # {}
      PROVE  lastTold \in told
  <2> HIDE DEF told
  <2>1. \E m \in told : \A k \in told : k <= m
    BY <1>2, <1>3, <1>4, GreatestIndex
  <2> QED
    BY <2>1
<1> HIDE DEF told, lastTold
<1>5. CASE told # {}
  <2>1. clients[lastTold] \in Range(clients)
    BY <1>2, <1>4, <1>5 DEF Range
  <2> QED
    BY <1>1, <1>5, <2>1
<1>6. CASE told = {}
  BY <1>1, <1>6
<1> QED
  BY <1>5, <1>6

LEMMA HandleFails ==
  ASSUME TypeOK, NEW s \in Range(clients), NEW p, Handle(s, p), result' = "error"
  PROVE  result = "error" \/ \E x \in Range(clients) : Broken(x)
<1>1. CASE Join(s, p)
  BY <1>1, TellFails DEF Join
<1>2. CASE Leave(s, p)
  BY <1>2, TellFails DEF Leave
<1>3. CASE SendMessage(s, p)
  BY <1>3, TellFails DEF SendMessage
<1>4. CASE RequestAccount(s, p)
  BY <1>4 DEF RequestAccount
<1> QED
  BY <1>1, <1>2, <1>3, <1>4 DEF Handle

-----------------------------------------------------------------------------
(* The invariant *)

\* While the server waits for an answer, the request handled last is an account
\* request and its client is the one being served.
Waiting ==
  pc = "auth" =>
    /\ log # << >> /\ log[Len(log)].p.id \in AccountMsg
    /\ Serving(log[Len(log)].by)

\* A WSACleanup was called only after the link to the authentication server broke.
CleanedUp == wsaRefs # 2 => authLink = "closed"

\* A line could not be sent only because a connection was reset or every socket closed.
SendFailed ==
  result = "error" => authLink = "closed" \/ \E s \in Range(clients) : peer[s] = "reset"

StopInv == TypeOK /\ Waiting /\ CleanedUp /\ SendFailed /\ StopsOnlyForCause

LEMMA StopInit == Init => StopInv
BY TypeInit DEF Init, StopInv, Waiting, CleanedUp, SendFailed, StopsOnlyForCause

\* The clients' steps only reset connections.
LEMMA ClientsReset ==
  ASSUME StopInv, NEW s \in Socket, ClientStep(s)
  PROVE  /\ UNCHANGED <<serverVars, authVars>>
         /\ pc # "down"
         /\ \A x \in Socket : peer[x] = "reset" => peer'[x] = "reset"
<1>1. peer \in [Socket -> {"idle", "dialed", "open", "closed", "reset"}]
  BY DEF StopInv, TypeOK
<1> QED
  BY <1>1
     DEF ClientStep, Connect, SendName, Exit, Kill, ResetAfterClose, ClientSend, Running

LEMMA HandleKeepsStopInv ==
  ASSUME StopInv, NEW s \in Socket, NEW p \in Packet, Handle(s, p), Serving(s),
         UNCHANGED <<clientVars, tableVars>>
  PROVE  Waiting' /\ CleanedUp' /\ SendFailed' /\ StopsOnlyForCause'
<1>1. TypeOK /\ s \in Range(clients)
  BY ServingIsClient DEF StopInv
<1>2. HandleEffect(s)
  BY <1>1, HandleHasEffect
<1>3. /\ Len(log') = Len(log) + 1 /\ Len(log) \in Nat
      /\ log' \in Seq([by : Socket, p : Packet])
      /\ log'[Len(log')].by = s
  BY <1>1, <1>2, LenProperties DEF HandleEffect, TypeOK
<1>4. log' # << >>
  BY <1>3, EmptySeq
<1>5. Turn(s)
  BY <1>2 DEF HandleEffect
<1>6. pc' # "down"
  BY <1>5 DEF Turn, Resume
<1>7. authLink = "closed" => authLink' = "closed"
  BY <1>5 DEF Turn, CloseAuthSocket
<1>8. Waiting'
  <2>1. pc' = "auth" => ready' = ready /\ log'[Len(log')].p.id \in AccountMsg
    BY <1>5 DEF Turn, Resume
  <2>2. pc' = "auth" => Serving(s)'
    BY <2>1 DEF Serving, tableVars
  <2> QED
    BY <1>3, <1>4, <2>1, <2>2 DEF Waiting
<1>9. CleanedUp'
  BY <1>5 DEF Turn, CloseAuthSocket, StopInv, CleanedUp
<1>10. SendFailed'
  <2> SUFFICES ASSUME result' = "error"
               PROVE  authLink' = "closed" \/ \E x \in Range(clients) : peer[x] = "reset"
    BY DEF SendFailed, clientVars, tableVars
  <2>1. result = "error" \/ \E x \in Range(clients) : Broken(x)
    BY <1>1, HandleFails
  <2> QED
    BY <1>7, <2>1 DEF Broken, StopInv, CleanedUp, SendFailed
<1> QED
  BY <1>6, <1>8, <1>9, <1>10 DEF StopsOnlyForCause

LEMMA IgnoreKeepsStopInv ==
  ASSUME StopInv, NEW s \in Socket, Ignore(s), UNCHANGED <<clientVars, tableVars>>
  PROVE  Waiting' /\ CleanedUp' /\ SendFailed' /\ StopsOnlyForCause'
BY DEF Ignore, Done, Resume, clientVars, tableVars, StopInv, Waiting, CleanedUp,
       SendFailed, StopsOnlyForCause

LEMMA StopStep == StopInv /\ [Next]_vars => StopInv'
<1> SUFFICES ASSUME StopInv, [Next]_vars PROVE StopInv'
  OBVIOUS
<1> DEFINE Goal == Waiting' /\ CleanedUp' /\ SendFailed' /\ StopsOnlyForCause'
<1>1. TypeOK /\ TypeOK'
  BY TypeStep DEF StopInv
<1> USE DEF clientVars, tableVars, authVars
<1>2. ASSUME UNCHANGED vars PROVE Goal
  BY <1>2 DEF vars, StopInv, Waiting, CleanedUp, SendFailed, StopsOnlyForCause, Serving
<1>3. ASSUME Select \/ SelectTimeout PROVE Goal
  BY <1>3 DEF Select, SelectTimeout, StopInv, Waiting, CleanedUp, SendFailed,
              StopsOnlyForCause
<1>4. ASSUME SelectFails PROVE Goal
  BY <1>4 DEF SelectFails, StopInv, Waiting, CleanedUp, SendFailed, StopsOnlyForCause
<1>5. ASSUME NEW s \in Socket, Register(s) PROVE Goal
  <2>1. clients \in Seq(Socket) /\ clients' = Append(clients, s)
    BY <1>1, <1>5 DEF Register, TypeOK
  <2>2. Range(clients) \subseteq Range(clients')
    BY <2>1, AppendProperties, LenProperties DEF Range
  <2>3. pc' # "auth" /\ pc' # "down"
    BY <1>5 DEF Register, Resume
  <2> QED
    BY <1>5, <2>2, <2>3
       DEF Register, StopInv, Waiting, CleanedUp, SendFailed, StopsOnlyForCause
<1>6. ASSUME NEW s \in Socket, AcceptFails(s) PROVE Goal
  BY <1>6 DEF AcceptFails, Resume, StopInv, Waiting, CleanedUp, SendFailed,
              StopsOnlyForCause
<1>7. ASSUME NEW s \in Socket, Disconnect(s) PROVE Goal
  BY <1>7 DEF Disconnect, Done, Resume, StopInv, Waiting, CleanedUp, SendFailed,
              StopsOnlyForCause
<1>8. ASSUME NEW s \in Socket, Reread(s), Serving(s), UNCHANGED <<clientVars, tableVars>>
      PROVE  Goal
  <2>1. scratch \in Packet
    BY <1>1, <1>8 DEF Reread, TypeOK
  <2> QED
    BY <1>8, <2>1, HandleKeepsStopInv DEF Reread
<1>9. ASSUME NEW s \in Socket, ReadPacket(s) PROVE Goal
  <2>1. stream[s] \in Seq(Cell) /\ stream[s] # << >>
    BY <1>1, <1>9 DEF ReadPacket, TypeOK
  <2>2. Head(stream[s]) \in Cell
    BY <2>1, HeadTailProperties
  <2>3. Head(stream[s]).p \in Packet
    BY <2>2 DEF Cell
  <2> QED
    BY <1>9, <2>3, HandleKeepsStopInv DEF ReadPacket
<1>10. ASSUME NEW s \in Socket, ReadTail(s) \/ ReadError(s) PROVE Goal
  <2>1. Serving(s) /\ UNCHANGED <<clientVars, tableVars>> /\ (Ignore(s) \/ Reread(s))
    BY <1>10 DEF ReadTail, ReadError
  <2> QED
    BY <1>8, <2>1, IgnoreKeepsStopInv
<1>11. ASSUME NEW s \in Socket, ReceiveAnswer(s) PROVE Goal
  <2>1. pc' # "auth" /\ pc' # "down"
    BY <1>11 DEF ReceiveAnswer, Done, Resume
  <2>2. ASSUME result' = "error"
        PROVE  \E x \in Range(clients) : Broken(x)
    <3>1. result = "ok" /\ s \in Range(clients)
      BY <1>1, <1>11, ServingIsClient DEF ReceiveAnswer
    <3>2. NoAnswer \/ SendAnswer(s, Head(fromAuth).of)
      BY <1>11 DEF ReceiveAnswer
    <3> QED
      BY <1>1, <2>2, <3>1, <3>2, TellFails DEF NoAnswer, SendAnswer
  <2> QED
    BY <1>11, <2>1, <2>2
       DEF ReceiveAnswer, Broken, StopInv, Waiting, CleanedUp, SendFailed, StopsOnlyForCause
<1>12. ASSUME NEW s \in Socket, AnswerLost(s) PROVE Goal
  <2>1. authLink' # "up" /\ (authLink = "closed" => authLink' = "closed")
    BY <1>12 DEF AnswerLost, CloseAuthSocket
  <2>2. pc' # "auth"
    BY <1>12 DEF AnswerLost, Done, Resume
  <2>3. ASSUME result' = "error"
        PROVE  result = "error" \/ \E x \in Range(clients) : Broken(x)
    <3>1. s \in Range(clients)
      BY <1>1, <1>12, ServingIsClient DEF AnswerLost
    <3>2. NoAnswer \/ SendAnswer(s, 0)
      BY <1>12 DEF AnswerLost
    <3> QED
      BY <1>1, <2>3, <3>1, <3>2, TellFails DEF NoAnswer, SendAnswer
  <2>4. CleanedUp'
    BY <1>12 DEF AnswerLost, CloseAuthSocket, StopInv, CleanedUp
  <2>5. SendFailed'
    BY <1>12, <2>1, <2>3 DEF AnswerLost, Broken, StopInv, CleanedUp, SendFailed
  <2> QED
    BY <2>1, <2>2, <2>4, <2>5 DEF Waiting, StopsOnlyForCause
<1>13. ASSUME NEW s \in Socket, AnswerAborts(s) PROVE Goal
  BY <1>13 DEF AnswerAborts, NoAnswer, StopInv, Waiting, CleanedUp, SendFailed,
               StopsOnlyForCause
<1>14. ASSUME NEW s \in Socket, ClientStep(s) PROVE Goal
  <2>1. /\ UNCHANGED <<serverVars, authVars>> /\ pc # "down"
        /\ \A x \in Socket : peer[x] = "reset" => peer'[x] = "reset"
    BY <1>14, ClientsReset
  <2>2. Range(clients) \subseteq Socket
    BY <1>1, RangeOfSeq DEF TypeOK
  <2> QED
    BY <2>1, <2>2
       DEF serverVars, StopInv, Waiting, Serving, CleanedUp, SendFailed, StopsOnlyForCause
<1>15. ASSUME AuthStep \/ AuthDies PROVE Goal
  BY <1>15 DEF AuthStep, AuthAnswers, AuthRepeats, AuthSkipsRest, AuthIgnores, AuthDies, Running, serverVars, StopInv,
               Waiting, Serving, CleanedUp, SendFailed, StopsOnlyForCause
<1> HIDE DEF Goal
<1>16. Goal
  BY <1>2, <1>3, <1>4, <1>5, <1>6, <1>7, <1>9, <1>10, <1>11, <1>12, <1>13, <1>14, <1>15
     DEF Next, ServerStep, Stopped
<1> QED
  BY <1>1, <1>16 DEF StopInv, Goal

\* The process ends only if the authentication server is lost, a client dies before
\* its name has arrived, or a line for a reset client fails in the pass of an account
\* request: users who come, talk, log in and exit never end it, in any order.
THEOREM StopsForCause == Spec => []StopsOnlyForCause
<1>1. Init => StopInv
  BY StopInit
<1>2. StopInv /\ [Next]_vars => StopInv'
  BY StopStep
<1>3. StopInv => StopsOnlyForCause
  BY DEF StopInv
<1> QED
  BY <1>1, <1>2, <1>3, PTL DEF Spec

-----------------------------------------------------------------------------
(* Answers go to the client that asked *)

\* The wire between the two servers carries request n or its answer, or nothing if
\* the request was not answered.
Outstanding(n) ==
  \/ toAuth = <<n>> /\ fromAuth = << >>
  \/ toAuth = << >> /\ fromAuth = << >>
  \/ /\ toAuth = << >>
     /\ Len(fromAuth) = AnswerWidth
     /\ \A i \in 1..AnswerWidth : fromAuth[i] = [of |-> n, k |-> i]

\* Between two account requests the wire is empty: the chat server waits for each
\* answer and takes all of it.
WireInv ==
  /\ authLink = "up"
  /\ pc \in {"select", "accept", "serve"} => toAuth = << >> /\ fromAuth = << >>
  /\ pc = "auth" => Outstanding(Len(log))

\* AnswersAreOwn, for requests in the log
OwnInv ==
  \A x \in Socket : \A i \in 1..Len(sent[x]) :
    sent[x][i].text = "answer" =>
      /\ sent[x][i].n \in 1..Len(log)
      /\ sent[x][i].of = sent[x][i].n
      /\ log[sent[x][i].n].by = x

AnswerInv == StopInv /\ WireInv /\ OwnInv

LEMMA AnswerInit ==
  ASSUME Faults \cap {"authloss", "repeat"} = {}
  PROVE  Init => AnswerInv
<1> SUFFICES ASSUME Init PROVE AnswerInv
  OBVIOUS
<1>1. StopInv
  BY StopInit
<1>2. WireInv
  BY DEF Init, WireInv
<1>3. \A x \in Socket : Len(sent[x]) = 0
  BY EmptySeq DEF Init
<1> QED
  BY <1>1, <1>2, <1>3 DEF AnswerInv, OwnInv

\* Lines about rooms and a longer log leave OwnInv true.
LEMMA OwnGrows ==
  ASSUME TypeOK, OwnInv, NEW n, SentGrows(n, RoomText),
         Len(log) <= Len(log'), Len(log') \in Nat,
         \A k \in 1..Len(log) : log'[k] = log[k]
  PROVE  OwnInv'
<1> SUFFICES ASSUME NEW x \in Socket, NEW i \in 1..Len(sent'[x]),
                    sent'[x][i].text = "answer"
             PROVE  /\ sent'[x][i].n \in 1..Len(log')
                    /\ sent'[x][i].of = sent'[x][i].n
                    /\ log'[sent'[x][i].n].by = x
  BY DEF OwnInv
<1> DEFINE L == LinesOf(n, RoomText)
<1>1. PICK q \in Seq(L) : sent'[x] = sent[x] \o q
  BY DEF SentGrows
<1>2. q \in Seq(LineType) /\ sent[x] \in Seq(LineType)
  <2>1. L \subseteq LineType
    BY DEF LinesOf
  <2> QED
    BY <1>1, <2>1, SeqMonotonic DEF TypeOK
<1>3. /\ Len(sent[x]) \in Nat /\ Len(q) \in Nat
      /\ Len(sent'[x]) = Len(sent[x]) + Len(q)
      /\ sent'[x][i] = IF i <= Len(sent[x]) THEN sent[x][i] ELSE q[i - Len(sent[x])]
  BY <1>1, <1>2, ConcatProperties, LenProperties
<1>4. i <= Len(sent[x])
  <2> SUFFICES ASSUME i > Len(sent[x]) PROVE FALSE
    BY <1>3
  <2>1. i - Len(sent[x]) \in 1..Len(q)
    BY <1>3
  <2>2. q[i - Len(sent[x])] \in L
    BY <1>1, <2>1, ElementOfSeq
  <2> QED
    BY <1>3, <2>2 DEF LinesOf, RoomText
<1>5. i \in 1..Len(sent[x]) /\ sent'[x][i] = sent[x][i]
  BY <1>3, <1>4
<1>6. Len(log) \in Nat
  BY LenProperties DEF TypeOK
<1> QED
  BY <1>5, <1>6 DEF OwnInv

LEMMA OwnUnchanged ==
  ASSUME OwnInv, sent' = sent, log' = log
  PROVE  OwnInv'
BY DEF OwnInv

LEMMA HandleKeepsAnswerInv ==
  ASSUME AnswerInv, pc = "serve", NEW s \in Socket, NEW p \in Packet, Handle(s, p),
         fromAuth' = fromAuth
  PROVE  WireInv' /\ OwnInv'
<1>1. TypeOK /\ toAuth = << >> /\ fromAuth = << >> /\ authLink = "up"
  BY DEF AnswerInv, StopInv, WireInv
<1>2. HandleEffect(s)
  BY <1>1, HandleHasEffect
<1>3. WireInv'
  <2>1. \/ pc' \in {"select", "serve"} /\ UNCHANGED <<toAuth, authLink>>
        \/ pc' = "auth" /\ toAuth' = Append(toAuth, Len(log')) /\ authLink' = "up"
    BY <1>1, <1>2 DEF HandleEffect, Turn, Resume
  <2>2. Append(<< >>, Len(log')) = <<Len(log')>>
    OBVIOUS
  <2> QED
    BY <1>1, <2>1, <2>2 DEF WireInv, Outstanding
<1>4. OwnInv'
  <2> DEFINE entry == [by |-> s, p |-> p]
  <2>1. log' = Append(log, entry) /\ entry \in [by : Socket, p : Packet]
    BY DEF Handle
  <2> HIDE DEF entry
  <2>2. \A k \in 1..Len(log) : log'[k] = log[k]
    BY <1>1, <2>1, AppendProperties DEF TypeOK
  <2>3. Len(log') = Len(log) + 1 /\ Len(log) \in Nat
    BY <1>1, <1>2, LenProperties DEF HandleEffect, TypeOK
  <2>4. SentGrows(Len(log'), RoomText)
    BY <1>2 DEF HandleEffect
  <2> QED
    BY <1>1, <2>2, <2>3, <2>4, OwnGrows DEF AnswerInv
<1> QED
  BY <1>3, <1>4

\* The answer that is received is that of the request that waits for it.
LEMMA ReceiveKeepsAnswerInv ==
  ASSUME AnswerInv, AnswerWidth <= BufLen, NEW s \in Socket, ReceiveAnswer(s)
  PROVE  WireInv' /\ OwnInv'
<1>1. TypeOK /\ pc = "auth" /\ fromAuth # << >> /\ authLink' = authLink
  BY DEF AnswerInv, StopInv, ReceiveAnswer
<1>2. /\ toAuth = << >> /\ Len(fromAuth) = AnswerWidth
      /\ fromAuth[1] = [of |-> Len(log), k |-> 1]
  BY <1>1, ConstantsAssumption DEF AnswerInv, WireInv, Outstanding
<1>3. Head(fromAuth) = [of |-> Len(log), k |-> 1]
  BY <1>1, <1>2 DEF TypeOK
<1>4. fromAuth' = << >>
  <2>1. fromAuth' = SubSeq(fromAuth, BufLen + 1, Len(fromAuth))
    BY DEF ReceiveAnswer, Rest
  <2> QED
    BY <1>2, <2>1, SubSeqEmpty, ConstantsAssumption
<1>5. WireInv'
  BY <1>1, <1>2, <1>4 DEF ReceiveAnswer, Done, Resume, AnswerInv, WireInv
<1>6. SendAnswer(s, Len(log)) \/ NoAnswer
  BY <1>3 DEF ReceiveAnswer
<1>7. log # << >> /\ Len(log) \in Nat /\ Len(log) \in 1..Len(log) /\ log[Len(log)].by = s
  <2>1. log # << >> /\ Serving(log[Len(log)].by) /\ Serving(s)
    BY <1>1 DEF AnswerInv, StopInv, Waiting, ReceiveAnswer
  <2>2. Len(log) \in Nat \ {0}
    BY <1>1, <2>1, EmptySeq DEF TypeOK
  <2>3. log[Len(log)].by \in Socket
    <3>1. log \in Seq([by : Socket, p : Packet]) /\ Len(log) \in 1..Len(log)
      BY <1>1, <2>2 DEF TypeOK
    <3>2. log[Len(log)] \in [by : Socket, p : Packet]
      BY <3>1, ElementOfSeq
    <3> QED
      BY <3>2
  <2> QED
    BY <1>1, <2>1, <2>2, <2>3, ServingUnique
<1>8. OwnInv'
  <2> DEFINE line == [n |-> Len(log), text |-> "answer", of |-> Len(log)]
  <2>1. \A x \in Socket :
          sent'[x] = sent[x] \/ (x = s /\ sent'[x] = sent[x] \o (<<line>> \o << >>))
             \/ (x # s /\ sent'[x] = sent[x] \o (<< >> \o << >>))
    BY <1>6 DEF SendAnswer, NoAnswer, Tell, Transmit
  <2>3. line \in LineType
    BY <1>7 DEF LineType, Text
  <2> HIDE DEF line
  <2>2. \A x \in Socket :
          sent'[x] = sent[x] \/ (x = s /\ sent'[x] = Append(sent[x], line))
    <3>1. \A x \in Socket : /\ sent[x] \o << >> = sent[x]
                           /\ sent[x] \o <<line>> = Append(sent[x], line)
      BY <1>1, <2>3, ConcatEmptySeq, AppendIsConcat DEF TypeOK
    <3>2. <<line>> \in Seq(LineType) /\ << >> \in Seq(LineType)
      BY <2>3
    <3>3. <<line>> \o << >> = <<line>> /\ << >> \o << >> = << >>
      BY <3>2, ConcatEmptySeq
    <3> QED
      BY <2>1, <3>1, <3>3
  <2> USE DEF line
  <2> SUFFICES ASSUME NEW x \in Socket, NEW i \in 1..Len(sent'[x]),
                      sent'[x][i].text = "answer"
               PROVE  /\ sent'[x][i].n \in 1..Len(log)
                      /\ sent'[x][i].of = sent'[x][i].n
                      /\ log[sent'[x][i].n].by = x
    BY DEF OwnInv, ReceiveAnswer
  <2>4. CASE sent'[x] = sent[x]
    BY <2>4 DEF AnswerInv, OwnInv
  <2>5. CASE x = s /\ sent'[x] = Append(sent[x], line)
    <3>1. sent[x] \in Seq(LineType) /\ Len(sent[x]) \in Nat
      BY <1>1, LenProperties DEF TypeOK
    <3>2. Len(sent'[x]) = Len(sent[x]) + 1
      BY <2>3, <2>5, <3>1, AppendProperties
    <3>3. CASE i = Len(sent[x]) + 1
      <4>1. sent'[x][i] = line
        BY <2>3, <2>5, <3>1, <3>3, AppendProperties
      <4> QED
        BY <1>7, <2>5, <4>1
    <3>4. CASE i # Len(sent[x]) + 1
      <4>1. i \in 1..Len(sent[x])
        BY <3>1, <3>2, <3>4
      <4>2. sent'[x][i] = sent[x][i]
        BY <2>3, <2>5, <3>1, <4>1, AppendProperties
      <4> QED
        BY <4>1, <4>2 DEF AnswerInv, OwnInv
    <3> QED
      BY <3>3, <3>4
  <2> QED
    BY <2>2, <2>4, <2>5
<1> QED
  BY <1>5, <1>8

LEMMA AuthStepKeepsAnswerInv ==
  ASSUME AnswerInv, AuthStep, "repeat" \notin Faults
  PROVE  WireInv' /\ OwnInv'
<1>1. TypeOK /\ UNCHANGED <<sent, log, pc, authLink>>
  BY DEF AnswerInv, StopInv, AuthStep, AuthAnswers, AuthRepeats, AuthSkipsRest, AuthIgnores, serverVars
<1>2. toAuth # << >> /\ pc # "down"
  BY DEF AuthStep, AuthAnswers, AuthRepeats, AuthSkipsRest, AuthIgnores, Running
<1>3. pc = "auth" /\ toAuth = <<Len(log)>> /\ fromAuth = << >>
  BY <1>1, <1>2 DEF AnswerInv, WireInv, Outstanding, TypeOK
<1>4. Len(log) \in Nat
  BY <1>1, LenProperties DEF TypeOK
<1>5. Head(toAuth) = Len(log) /\ Number(Head(toAuth)) = Len(log) /\ Tail(toAuth) = << >>
  BY <1>3, <1>4 DEF Number
<1>6. toAuth' = << >>
  <2>1. toAuth \in Seq(Int) /\ Len(toAuth) = 1
    BY <1>1, <1>3 DEF TypeOK
  <2>2. \A r \in Dropped(toAuth) : r = << >>
    BY <1>2, <2>1, DroppedPart, EmptySeq, LenProperties
  <2> QED
    BY <1>5, <2>2 DEF AuthStep, AuthAnswers, AuthRepeats, AuthSkipsRest, AuthIgnores
<1>7. Outstanding(Len(log))'
  <2>1. CASE AuthAnswers
    <3>2. AnswerWidth \in Nat
      BY ConstantsAssumption
    <3>3. AuthAnswer \in [1..AnswerWidth -> [of : Nat, k : Nat]]
      BY <1>4, <1>5 DEF AuthAnswer
    <3>4. \A i \in 1..AnswerWidth : AuthAnswer[i] = [of |-> Len(log), k |-> i]
      BY <1>5 DEF AuthAnswer
    <3>5. AuthAnswer \in Seq([of : Nat, k : Nat]) /\ Len(AuthAnswer) = AnswerWidth
      BY <3>2, <3>3, FunctionIsSeq
    <3>6. fromAuth' = AuthAnswer
      BY <1>3, <2>1, <3>5, ConcatEmptySeq DEF AuthAnswers
    <3> QED
      BY <1>1, <1>6, <3>4, <3>5, <3>6 DEF Outstanding
  <2>2. CASE AuthIgnores
    BY <1>3, <1>6, <2>2 DEF AuthIgnores, Outstanding
  <2> QED
    BY <2>1, <2>2 DEF AuthStep, AuthRepeats, AuthSkipsRest
<1> QED
  BY <1>1, <1>3, <1>7, OwnUnchanged DEF AnswerInv, WireInv

LEMMA AnswerStep ==
  ASSUME AnswerWidth <= BufLen, Faults \cap {"authloss", "repeat"} = {}
  PROVE  AnswerInv /\ [Next]_vars => AnswerInv'
<1> SUFFICES ASSUME AnswerInv, [Next]_vars PROVE AnswerInv'
  OBVIOUS
<1> DEFINE Goal == WireInv' /\ OwnInv'
<1>1. TypeOK /\ StopInv /\ StopInv'
  BY StopStep DEF AnswerInv, StopInv
<1>2. ASSUME UNCHANGED <<sent, log, toAuth, fromAuth, authLink>>, pc' # "auth",
             pc \in {"select", "accept", "serve"}
      PROVE  Goal
  BY <1>2, OwnUnchanged DEF AnswerInv, WireInv
<1>3. ASSUME UNCHANGED vars PROVE Goal
  BY <1>3, OwnUnchanged DEF vars, authVars, AnswerInv, WireInv, Outstanding
<1>4. ASSUME Select \/ SelectFails \/ SelectTimeout PROVE Goal
  BY <1>2, <1>4 DEF Select, SelectFails, SelectTimeout, authVars
<1>5. ASSUME NEW s \in Socket, Register(s) \/ AcceptFails(s) \/ Disconnect(s) PROVE Goal
  BY <1>2, <1>5 DEF Register, AcceptFails, Disconnect, Done, Resume, authVars
<1>6. ASSUME NEW s \in Socket, Reread(s), pc = "serve", fromAuth' = fromAuth PROVE Goal
  BY <1>1, <1>6, HandleKeepsAnswerInv DEF Reread, TypeOK
<1>7. ASSUME NEW s \in Socket, Ignore(s), pc = "serve", fromAuth' = fromAuth PROVE Goal
  BY <1>2, <1>7 DEF Ignore, Done, Resume
<1>8. ASSUME NEW s \in Socket, ReadPacket(s) PROVE Goal
  <2>1. stream[s] \in Seq(Cell) /\ stream[s] # << >>
    BY <1>1, <1>8 DEF ReadPacket, TypeOK
  <2>2. Head(stream[s]) \in Cell
    BY <2>1, HeadTailProperties
  <2>3. Head(stream[s]).p \in Packet
    BY <2>2 DEF Cell
  <2> QED
    BY <1>8, <2>3, HandleKeepsAnswerInv DEF ReadPacket
<1>9. ASSUME NEW s \in Socket, ReadTail(s) \/ ReadError(s) PROVE Goal
  BY <1>6, <1>7, <1>9 DEF ReadTail, ReadError
<1>10. ASSUME NEW s \in Socket, ReceiveAnswer(s) PROVE Goal
  BY <1>10, ReceiveKeepsAnswerInv
<1>11. ASSUME NEW s \in Socket, AnswerLost(s) PROVE Goal
  BY <1>11 DEF AnswerLost, AnswerInv, WireInv
<1>12. ASSUME NEW s \in Socket, AnswerAborts(s) PROVE Goal
  BY <1>12, OwnUnchanged DEF AnswerAborts, NoAnswer, AnswerInv, WireInv
<1>13. ASSUME NEW s \in Socket, ClientStep(s) PROVE Goal
  <2>1. UNCHANGED <<sent, log, pc, toAuth, fromAuth, authLink>>
    BY <1>13, ClientsReset DEF AnswerInv, serverVars, authVars
  <2> QED
    BY <2>1, OwnUnchanged DEF AnswerInv, WireInv, Outstanding
<1>14. ASSUME AuthStep PROVE Goal
  BY <1>14, AuthStepKeepsAnswerInv
<1>15. ASSUME AuthDies PROVE Goal
  BY <1>15 DEF AuthDies
<1> HIDE DEF Goal
<1>16. Goal
  BY <1>3, <1>4, <1>5, <1>8, <1>9, <1>10, <1>11, <1>12, <1>13, <1>14, <1>15
     DEF Next, ServerStep, Stopped
<1> QED
  BY <1>1, <1>16 DEF AnswerInv, Goal

\* If every answer fits in one recv() and the link holds, the answer sent to a client
\* is that to its own request, however many clients log in and exit at once and even
\* if the authentication server leaves requests unanswered.
THEOREM AnswersGoHome ==
  ASSUME AnswerWidth <= BufLen, Faults \cap {"authloss", "repeat"} = {}
  PROVE  Spec => []AnswersAreOwn
<1>1. Init => AnswerInv
  BY AnswerInit
<1>2. AnswerInv /\ [Next]_vars => AnswerInv'
  BY AnswerStep
<1>3. AnswerInv => AnswersAreOwn
  <2> SUFFICES ASSUME AnswerInv, NEW x \in Socket, NEW i \in DOMAIN sent[x],
                      sent[x][i].text = "answer"
               PROVE  sent[x][i].of = sent[x][i].n /\ log[sent[x][i].n].by = x
    BY DEF AnswersAreOwn
  <2>1. DOMAIN sent[x] = 1..Len(sent[x])
    BY LenProperties DEF AnswerInv, StopInv, TypeOK
  <2> QED
    BY <2>1 DEF AnswerInv, OwnInv
<1> QED
  BY <1>1, <1>2, <1>3, PTL DEF Spec

-----------------------------------------------------------------------------
(* No older request comes back *)

\* A cell in a stream is of a request of its client.  One that begins a request has a
\* larger number than the cells in front of it, and than all requests of its client that
\* were handled.
AheadCell(s, i) ==
  LET c == stream[s][i]
  IN  /\ c.p.from = s /\ c.p.n <= nsent[s]
      /\ c.k = 1 =>
           /\ \A j \in 1..(i - 1) : stream[s][j].p.n < c.p.n
           /\ \A j \in 1..Len(log) : log[j].p.from = s => log[j].p.n < c.p.n
StreamsAhead == \A s \in Socket : \A i \in 1..Len(stream[s]) : AheadCell(s, i)

LogBounded == \A j \in 1..Len(log) : log[j].p.n <= nsent[log[j].p.from]

\* What is in the stack buffer was handled last.
ScratchIsLast == scratch = NoPacket \/ (log # << >> /\ scratch = log[Len(log)].p)

SequenceInv == TypeOK /\ StreamsAhead /\ LogBounded /\ ScratchIsLast /\ RequestsInOrder

LEMMA SequenceInit == Init => SequenceInv
<1> SUFFICES ASSUME Init PROVE SequenceInv
  OBVIOUS
<1>1. TypeOK
  BY TypeInit
<1>2. Len(log) = 0 /\ DOMAIN log = {} /\ \A s \in Socket : Len(stream[s]) = 0
  BY DEF Init
<1> QED
  BY <1>1, <1>2 DEF Init, SequenceInv, StreamsAhead, LogBounded, ScratchIsLast, RequestsInOrder

LEMMA LogTyped ==
  ASSUME TypeOK
  PROVE  /\ Len(log) \in Nat /\ DOMAIN log = 1..Len(log)
         /\ \A j \in 1..Len(log) : /\ log[j] \in [by : Socket, p : Packet]
                                   /\ log[j].by \in Socket /\ log[j].p \in Packet
                                   /\ log[j].p.n \in Nat /\ log[j].p.from \in Socket
<1>1. log \in Seq([by : Socket, p : Packet])
  BY DEF TypeOK
<1>2. \A j \in 1..Len(log) : log[j] \in [by : Socket, p : Packet]
  BY <1>1, ElementOfSeq
<1> QED
  BY <1>1, <1>2, Packets, LenProperties

\* Every request that the log has after a step, it has had before.
OldRequests == \A j \in 1..Len(log') : \E k \in 1..Len(log) : log'[j].p = log[k].p

\* What a sequence that loses its first d elements is left with.
LEMMA WithoutFirst ==
  ASSUME NEW S, NEW q \in Seq(S), NEW d \in Nat, NEW r, r = SubSeq(q, d + 1, Len(q))
  PROVE  /\ Len(r) = (IF d + 1 <= Len(q) THEN Len(q) - d ELSE 0)
         /\ \A j \in 1..Len(r) : r[j] = q[j + d]
<1> DEFINE m == d + 1
           l == Len(q)
<1>1. m \in Int /\ l \in Nat /\ m = d + 1
  OBVIOUS
<1>2. \A j \in m..l : q[j] \in S
  BY <1>1, ElementOfSeq
<1> HIDE DEF m, l
<1>3. /\ Len(SubSeq(q, m, l)) = IF m <= l THEN l - m + 1 ELSE 0
      /\ \A j \in 1..(l - m + 1) : SubSeq(q, m, l)[j] = q[m + j - 1]
  BY <1>1, <1>2, SubSeqProperties
<1>4. r = SubSeq(q, m, l)
  BY DEF m, l
<1>5. /\ Len(r) = IF d + 1 <= l THEN l - d ELSE 0
      /\ \A j \in 1..(l - d) : r[j] = q[j + d]
  <2>1. l - m + 1 = l - d /\ \A j \in 1..(l - d) : m + j - 1 = j + d
    BY <1>1
  <2> QED
    BY <1>1, <1>3, <1>4, <2>1
<1>6. 1..Len(r) \subseteq 1..(l - d)
  BY <1>1, <1>5
<1> QED
  BY <1>5, <1>6 DEF l

\* A stream that loses cells in front stays ahead, as long as no new request is handled.
LEMMA SuffixStaysAhead ==
  ASSUME TypeOK, StreamsAhead, NEW s \in Socket, NEW m \in Nat \ {0},
         stream' = [stream EXCEPT ![s] = SubSeq(@, m, Len(@))], nsent' = nsent, OldRequests
  PROVE  StreamsAhead'
<1>1. stream \in [Socket -> Seq(Cell)]
  BY DEF TypeOK
<1>2. SUFFICES ASSUME NEW x \in Socket, NEW i \in 1..Len(stream'[x])
               PROVE  AheadCell(x, i)'
  BY DEF StreamsAhead
<1>3. CASE x # s
  <2>1. stream'[x] = stream[x] /\ AheadCell(x, i)
    BY <1>1, <1>2, <1>3 DEF StreamsAhead
  <2>2. nsent'[x] = nsent[x]
    OBVIOUS
  <2> QED
    BY <2>1, <2>2 DEF AheadCell, OldRequests
<1>4. CASE x = s
  <2> DEFINE q == stream[s]
             d == m - 1
  <2>1. q \in Seq(Cell) /\ Len(q) \in Nat /\ d \in Nat
    BY <1>1
  <2>2. stream'[s] = SubSeq(q, m, Len(q))
    BY <1>1
  <2>3. m = d + 1
    OBVIOUS
  <2> HIDE DEF d
  <2>4. Len(stream'[s]) = (IF m <= Len(q) THEN Len(q) - d ELSE 0)
        /\ \A j \in 1..Len(stream'[s]) : stream'[s][j] = q[j + d]
    <3> DEFINE r == stream'[s]
    <3>1. q \in Seq(Cell) /\ d \in Nat /\ r = SubSeq(q, d + 1, Len(q)) /\ m = d + 1
      BY <2>1, <2>2, <2>3
    <3> HIDE DEF q, r
    <3>2. /\ Len(r) = (IF m <= Len(q) THEN Len(q) - d ELSE 0)
          /\ \A j \in 1..Len(r) : r[j] = q[j + d]
      BY ONLY <3>1, WithoutFirst
    <3> QED
      BY <3>2 DEF r
  <2>5. i + d \in 1..Len(q) /\ \A j \in 1..(i - 1) : j + d \in 1..(i + d - 1) /\ j \in 1..Len(stream'[s])
    BY <1>2, <1>4, <2>1, <2>4
  <2> DEFINE e == i + d
  <2>6. AheadCell(s, e)
    BY <2>5 DEF StreamsAhead
  <2>7. stream'[s][i] = q[e] /\ \A j \in 1..(i - 1) : stream'[s][j] = q[j + d] /\ j + d \in 1..(e - 1)
    BY <1>2, <1>4, <2>1, <2>4, <2>5
  <2> HIDE DEF e
  <2>8. q[e].k = 1 => \A j \in 1..(i - 1) : stream'[s][j].p.n < stream'[s][i].p.n
    BY <2>6, <2>7 DEF AheadCell
  <2>9. q[e].k = 1 => \A j \in 1..Len(log') : log'[j].p.from = s => log'[j].p.n < q[e].p.n
    BY <2>6 DEF AheadCell, OldRequests
  <2> QED
    BY <1>4, <2>6, <2>7, <2>8, <2>9 DEF AheadCell
<1> QED
  BY <1>3, <1>4

\* Sending a request adds cells with the number after those of all the client has sent.
LEMMA SendStaysAhead ==
  ASSUME SequenceInv, NEW s \in Socket, NEW p \in Requests(s), ClientSend(s, p)
  PROVE  StreamsAhead' /\ LogBounded'
<1>1. /\ TypeOK /\ StreamsAhead /\ LogBounded
      /\ stream \in [Socket -> Seq(Cell)] /\ nsent \in [Socket -> Nat]
  BY DEF SequenceInv, TypeOK
<1>2. p \in Packet /\ p.from = s /\ p.n = nsent[s] + 1 /\ p.id \in MsgType
  BY <1>1, RequestsArePackets, Packets
<1>3. /\ stream' = [stream EXCEPT ![s] = @ \o Cells(p)]
      /\ nsent' = [nsent EXCEPT ![s] = @ + 1]
      /\ log' = log
  BY DEF ClientSend, serverVars
<1>4. \A j \in 1..Len(log) : log[j].p.from \in Socket /\ log[j].p.n \in Nat
  BY <1>1, LogTyped
<1>5. \A x \in Socket : nsent[x] \in Nat /\ nsent'[x] \in Nat /\ nsent[x] <= nsent'[x]
  BY <1>1, <1>3
<1>6. LogBounded'
  BY <1>1, <1>3, <1>4, <1>5 DEF LogBounded
<1>7. ASSUME NEW x \in Socket, NEW i \in 1..Len(stream'[x])
      PROVE  AheadCell(x, i)'
  <2>1. CASE x # s
    BY <1>1, <1>3, <1>7, <2>1 DEF StreamsAhead, AheadCell
  <2>2. CASE x = s
    <3> DEFINE q == stream[s]
               w == Width[p.id]
    <3>1. /\ q \in Seq(Cell) /\ Len(q) \in Nat /\ w \in Nat \ {0}
          /\ Cells(p) \in Seq(Cell) /\ Len(Cells(p)) = w
          /\ \A k \in 1..w : Cells(p)[k] = [p |-> p, k |-> k]
      <4>1. w \in Nat \ {0}
        BY <1>2, ConstantsAssumption
      <4> QED
        BY <1>1, <1>2, <4>1, CellsAreSeq, LenProperties DEF Cells
    <3> HIDE DEF w
    <3>2. /\ stream'[s] = q \o Cells(p) /\ Len(stream'[s]) = Len(q) + w
          /\ \A j \in 1..Len(q) : stream'[s][j] = q[j]
          /\ \A j \in 1..(Len(q) + w) : j > Len(q) =>
               j - Len(q) \in 1..w /\ stream'[s][j] = Cells(p)[j - Len(q)]
      <4> DEFINE r == Cells(p)
      <4>1. r \in Seq(Cell) /\ Len(r) = w /\ stream'[s] = q \o r
        BY <1>1, <1>3, <3>1
      <4> HIDE DEF r, q
      <4>2. /\ Len(q \o r) = Len(q) + w
            /\ \A j \in 1..(Len(q) + Len(r)) : (q \o r)[j] = IF j <= Len(q) THEN q[j] ELSE r[j - Len(q)]
        BY <3>1, <4>1, ConcatProperties
      <4>3. /\ \A j \in 1..Len(q) : j \in 1..(Len(q) + w) /\ j <= Len(q)
            /\ \A j \in 1..(Len(q) + w) : j > Len(q) => j - Len(q) \in 1..w /\ ~(j <= Len(q))
        BY <3>1
      <4> QED
        BY <4>1, <4>2, <4>3 DEF r
    <3>3. \A j \in 1..Len(q) : AheadCell(s, j) /\ q[j].p.n \in Nat
      <4>1. \A j \in 1..Len(q) : q[j] \in Cell
        BY <3>1, ElementOfSeq
      <4> QED
        BY <1>1, <4>1, Packets DEF StreamsAhead, Cell
    <3>4. nsent[s] \in Nat /\ nsent'[s] = nsent[s] + 1
      BY <1>1, <1>3
    <3>5. CASE i > Len(q)
      <4> DEFINE k == i - Len(q)
      <4>1. k \in 1..w /\ stream'[s][i] = [p |-> p, k |-> k]
        BY <1>7, <2>2, <3>1, <3>2, <3>5
      <4>2. k = 1 => \A j \in 1..(i - 1) : j \in 1..Len(q)
        BY <1>7, <2>2, <3>1, <3>2, <3>5
      <4> HIDE DEF k
      <4>3. stream'[s][i].p = p /\ stream'[s][i].k = k
        BY <4>1
      <4>4. k = 1 => \A j \in 1..(i - 1) : stream'[s][j].p.n < p.n
        <5> SUFFICES ASSUME k = 1, NEW j \in 1..(i - 1) PROVE stream'[s][j].p.n < p.n
          OBVIOUS
        <5>1. stream'[s][j] = q[j] /\ j \in 1..Len(q)
          BY <3>2, <4>2
        <5>2. q[j].p.n <= nsent[s] /\ q[j].p.n \in Nat
          BY <3>3, <5>1 DEF AheadCell, q
        <5> QED
          BY <1>2, <3>4, <5>1, <5>2
      <4>5. \A j \in 1..Len(log) : log[j].p.from = s => log[j].p.n < p.n
        BY <1>1, <1>2, <1>4, <3>4 DEF LogBounded
      <4>6. p.n <= nsent'[s]
        BY <1>2, <3>4
      <4> QED
        BY <1>2, <1>3, <2>2, <4>3, <4>4, <4>5, <4>6 DEF AheadCell
    <3>6. CASE ~(i > Len(q))
      <4>1. i \in 1..Len(q) /\ \A j \in 1..(i - 1) : j \in 1..Len(q)
        BY <1>7, <2>2, <3>1, <3>2, <3>6
      <4>2. AheadCell(s, i) /\ q[i].p.n \in Nat
        BY <3>3, <4>1
      <4>3. stream'[s][i] = q[i] /\ \A j \in 1..(i - 1) : stream'[s][j] = q[j]
        BY <3>2, <4>1
      <4>4. q[i].p.n <= nsent'[s]
        BY <3>4, <4>2 DEF AheadCell
      <4> QED
        BY <1>3, <2>2, <4>2, <4>3, <4>4 DEF AheadCell
    <3> QED
      BY <3>5, <3>6
  <2> QED
    BY <2>1, <2>2
<1> QED
  BY <1>6, <1>7 DEF StreamsAhead

\* What the log is after a request was handled
LEMMA LogAppended ==
  ASSUME TypeOK, NEW s \in Socket, NEW p \in Packet, log' = Append(log, [by |-> s, p |-> p])
  PROVE  /\ Len(log') = Len(log) + 1 /\ DOMAIN log' = 1..(Len(log) + 1) /\ log' # << >>
         /\ log'[Len(log) + 1].by = s /\ log'[Len(log) + 1].p = p
         /\ \A j \in 1..Len(log) : log'[j] = log[j]
<1> DEFINE entry == [by |-> s, p |-> p]
<1>1. log \in Seq([by : Socket, p : Packet]) /\ entry \in [by : Socket, p : Packet]
      /\ entry.by = s /\ entry.p = p
  BY DEF TypeOK
<1> HIDE DEF entry
<1>2. log' = Append(log, entry)
  BY DEF entry
<1> QED
  BY <1>1, <1>2, AppendProperties, LenProperties, EmptySeq

\* Handling the stale request again adds nothing new.
LEMMA RereadRepeats ==
  ASSUME SequenceInv, NEW s \in Socket, Reread(s), nsent' = nsent
  PROVE  OldRequests /\ LogBounded' /\ ScratchIsLast' /\ RequestsInOrder'
<1> DEFINE n == Len(log)
<1>1. /\ TypeOK /\ scratch' = scratch /\ log # << >> /\ scratch = log[n].p
      /\ log' = Append(log, [by |-> s, p |-> scratch])
  BY DEF SequenceInv, ScratchIsLast, Reread, Handle
<1>2. n \in Nat \ {0} /\ DOMAIN log = 1..n /\ n \in 1..n /\ scratch \in Packet
  <2>1. n \in Nat /\ n # 0
    BY <1>1, LogTyped, EmptySeq DEF TypeOK
  <2> QED
    BY <1>1, <2>1, LogTyped
<1>3. /\ Len(log') = n + 1 /\ DOMAIN log' = 1..(n + 1) /\ log' # << >>
      /\ log'[n + 1].by = s /\ log'[n + 1].p = log[n].p
      /\ \A j \in 1..n : log'[j] = log[j]
  BY <1>1, <1>2, LogAppended
<1> HIDE DEF n
<1>4. \A j \in 1..(n + 1) : j \in 1..n \/ j = n + 1
  BY <1>2
<1>5. OldRequests
  BY <1>2, <1>3, <1>4 DEF OldRequests, n
<1>6. LogBounded'
  <2>1. \A j \in 1..(n + 1) : \E k \in 1..n : log'[j].p = log[k].p
    BY <1>2, <1>3, <1>4
  <2>2. \A k \in 1..n : log[k].p.n <= nsent[log[k].p.from]
    BY DEF SequenceInv, LogBounded, n
  <2> QED
    BY <1>3, <2>1, <2>2 DEF LogBounded
<1>7. ScratchIsLast'
  BY <1>1, <1>2, <1>3 DEF ScratchIsLast
<1>8. RequestsInOrder'
  <2>1. \A j \in 1..n : \/ j > 1 /\ log[j].p = log[j - 1].p
                        \/ /\ log[j].p.from = log[j].by
                           /\ \A i \in 1..(j - 1) : log[i].p.from = log[j].by => log[i].p.n < log[j].p.n
    BY <1>2 DEF SequenceInv, RequestsInOrder
  <2>2. \A j \in 1..n : \A i \in 1..(j - 1) : i \in 1..n
    BY <1>2
  <2>3. \A j \in 1..n : j > 1 => j - 1 \in 1..n
    BY <1>2
  <2>4. (n + 1) - 1 = n /\ n + 1 > 1
    BY <1>2
  <2>5. \A j \in 1..n : \/ j > 1 /\ log'[j].p = log'[j - 1].p
                        \/ /\ log'[j].p.from = log'[j].by
                           /\ \A i \in 1..(j - 1) : log'[i].p.from = log'[j].by => log'[i].p.n < log'[j].p.n
    BY <1>3, <2>1, <2>2, <2>3
  <2>6. log'[n + 1].p = log'[(n + 1) - 1].p
    BY <1>2, <1>3, <2>4
  <2> QED
    BY <1>3, <1>4, <2>4, <2>5, <2>6 DEF RequestsInOrder
<1> QED
  BY <1>5, <1>6, <1>7, <1>8

\* A request that is read is new, and the requests behind it are newer.
LEMMA ReadStaysAhead ==
  ASSUME SequenceInv, NEW s \in Socket, ReadPacket(s)
  PROVE  StreamsAhead' /\ LogBounded' /\ ScratchIsLast' /\ RequestsInOrder'
<1> DEFINE q == stream[s]
           p == Head(q).p
           n == Len(log)
<1>1. /\ TypeOK /\ StreamsAhead /\ LogBounded /\ RequestsInOrder
      /\ stream \in [Socket -> Seq(Cell)] /\ nsent \in [Socket -> Nat]
  BY DEF SequenceInv, TypeOK
<1>2. q \in Seq(Cell) /\ q # << >> /\ Len(q) \in Nat /\ 1 \in 1..Len(q) /\ Head(q) = q[1]
  BY <1>1 DEF ReadPacket
<1>3. Head(Chunk(q)) = q[1]
  BY <1>2, ConstantsAssumption DEF Chunk
<1>4. p \in Packet /\ AheadCell(s, 1) /\ q[1].k = 1
  <2>1. Head(q) \in Cell
    BY <1>2, HeadTailProperties
  <2> QED
    BY <1>1, <1>2, <1>3, <2>1 DEF Cell, StreamsAhead, ReadPacket
<1>5. /\ log' = Append(log, [by |-> s, p |-> p]) /\ scratch' = p
      /\ stream' = [stream EXCEPT ![s] = SubSeq(@, BufLen + 1, Len(@))]
      /\ nsent' = nsent
  BY DEF ReadPacket, Handle, Rest, clientVars
<1>6. p.from = s /\ p.n <= nsent[s] /\ \A j \in 1..n : log[j].p.from = s => log[j].p.n < p.n
  BY <1>2, <1>4 DEF AheadCell
<1>7. /\ Len(log') = n + 1 /\ n \in Nat /\ DOMAIN log = 1..n /\ DOMAIN log' = 1..(n + 1) /\ log' # << >>
      /\ log'[n + 1].by = s /\ log'[n + 1].p = p
      /\ \A j \in 1..n : log'[j] = log[j]
  BY <1>1, <1>4, <1>5, LogAppended, LogTyped
<1>8. \A j \in 1..(n + 1) : j \in 1..n \/ j = n + 1
  BY <1>7
<1>9. p.n \in Nat
  BY <1>4, Packets
<1>10. LogBounded'
  BY <1>1, <1>5, <1>6, <1>7, <1>8 DEF LogBounded
<1>11. ScratchIsLast'
  BY <1>5, <1>7 DEF ScratchIsLast
<1> HIDE DEF p, n
<1>12. RequestsInOrder'
  <2>1. \A j \in 1..n : \/ j > 1 /\ log[j].p = log[j - 1].p
                        \/ /\ log[j].p.from = log[j].by
                           /\ \A i \in 1..(j - 1) : log[i].p.from = log[j].by => log[i].p.n < log[j].p.n
    BY <1>1, <1>7 DEF RequestsInOrder
  <2>2. \A j \in 1..n : (\A i \in 1..(j - 1) : i \in 1..n) /\ (j > 1 => j - 1 \in 1..n)
    BY <1>7
  <2>3. \A j \in 1..n : \/ j > 1 /\ log'[j].p = log'[j - 1].p
                        \/ /\ log'[j].p.from = log'[j].by
                           /\ \A i \in 1..(j - 1) : log'[i].p.from = log'[j].by => log'[i].p.n < log'[j].p.n
    BY <1>7, <2>1, <2>2
  <2>4. (n + 1) - 1 = n
    BY <1>7
  <2>5. /\ log'[n + 1].p.from = log'[n + 1].by
        /\ \A i \in 1..((n + 1) - 1) : log'[i].p.from = log'[n + 1].by => log'[i].p.n < log'[n + 1].p.n
    BY <1>6, <1>7, <2>4 DEF n
  <2> QED
    BY <1>7, <1>8, <2>3, <2>5 DEF RequestsInOrder
<1>13. StreamsAhead'
  <2> SUFFICES ASSUME NEW x \in Socket, NEW i \in 1..Len(stream'[x])
               PROVE  AheadCell(x, i)'
    BY DEF StreamsAhead
  <2>1. CASE x # s
    <3>1. stream'[x] = stream[x] /\ AheadCell(x, i)
      BY <1>1, <1>5, <2>1 DEF StreamsAhead
    <3>2. \A j \in 1..Len(log') : log'[j].p.from = x => j \in 1..Len(log) /\ log'[j] = log[j]
      BY <1>6, <1>7, <1>8, <2>1 DEF n
    <3> QED
      BY <1>5, <3>1, <3>2 DEF AheadCell
  <2>2. CASE x = s
    <3>1. BufLen \in Nat \ {0} /\ stream'[s] = SubSeq(q, BufLen + 1, Len(q))
      BY <1>1, <1>5, ConstantsAssumption
    <3>2. Len(stream'[s]) = (IF BufLen + 1 <= Len(q) THEN Len(q) - BufLen ELSE 0)
          /\ \A j \in 1..Len(stream'[s]) : stream'[s][j] = q[j + BufLen]
      <4> DEFINE r == stream'[s]
      <4>1. q \in Seq(Cell) /\ BufLen \in Nat /\ r = SubSeq(q, BufLen + 1, Len(q))
        BY <1>2, <3>1
      <4> HIDE DEF q, r
      <4>2. /\ Len(r) = (IF BufLen + 1 <= Len(q) THEN Len(q) - BufLen ELSE 0)
            /\ \A j \in 1..Len(r) : r[j] = q[j + BufLen]
        BY ONLY <4>1, WithoutFirst
      <4> QED
        BY <4>2 DEF r
    <3> DEFINE e == i + BufLen
    <3>3. /\ e \in 1..Len(q) /\ 1 \in 1..(e - 1) /\ stream'[s][i] = q[e]
          /\ \A j \in 1..(i - 1) : j + BufLen \in 1..(e - 1) /\ stream'[s][j] = q[j + BufLen]
      <4> DEFINE l == Len(q)
                 r == stream'[s]
      <4>1. /\ l \in Nat /\ BufLen \in Nat \ {0} /\ i \in 1..Len(r) /\ e = i + BufLen
            /\ Len(r) = IF BufLen + 1 <= l THEN l - BufLen ELSE 0
        BY <1>2, <2>2, <3>1, <3>2
      <4>2. \A j \in 1..Len(r) : r[j] = q[j + BufLen]
        BY <3>2
      <4> HIDE DEF e, l, r, q
      <4>3. e \in 1..l /\ 1 \in 1..(e - 1)
        BY <4>1
      <4>4. \A j \in 1..(i - 1) : j \in 1..Len(r) /\ j + BufLen \in 1..(e - 1)
        BY <4>1
      <4>5. r[i] = q[e]
        BY <4>1, <4>2
      <4> QED
        BY <4>2, <4>3, <4>4, <4>5 DEF l, r
    <3> HIDE DEF e
    <3>4. AheadCell(s, e)
      BY <1>1, <3>3 DEF StreamsAhead
    <3>5. /\ q[e].p.from = s /\ q[e].p.n <= nsent[s]
          /\ q[e].k = 1 => /\ \A j \in 1..(e - 1) : q[j].p.n < q[e].p.n
                           /\ \A j \in 1..Len(log) : log[j].p.from = s => log[j].p.n < q[e].p.n
      BY <3>4 DEF AheadCell
    <3>6. q[e].k = 1 => p.n < q[e].p.n
      BY <1>2, <3>3, <3>5 DEF p
    <3>7. q[e].k = 1 => \A j \in 1..Len(log') : log'[j].p.from = s => log'[j].p.n < q[e].p.n
      BY <1>7, <1>8, <3>5, <3>6 DEF n
    <3>8. q[e].k = 1 => \A j \in 1..(i - 1) : stream'[s][j].p.n < stream'[s][i].p.n
      BY <3>3, <3>5
    <3> QED
      BY <1>5, <2>2, <3>3, <3>5, <3>7, <3>8 DEF AheadCell
  <2> QED
    BY <2>1, <2>2
<1> QED
  BY <1>10, <1>11, <1>12, <1>13

LEMMA SequenceStep == SequenceInv /\ [Next]_vars => SequenceInv'
<1> SUFFICES ASSUME SequenceInv, [Next]_vars PROVE SequenceInv'
  OBVIOUS
<1> DEFINE Goal == StreamsAhead' /\ LogBounded' /\ ScratchIsLast' /\ RequestsInOrder'
<1>1. TypeOK /\ TypeOK' /\ StreamsAhead
  BY TypeStep DEF SequenceInv
<1>2. ASSUME UNCHANGED <<nsent, stream, scratch, log>> PROVE Goal
  BY <1>2 DEF SequenceInv, StreamsAhead, AheadCell, LogBounded, ScratchIsLast, RequestsInOrder
<1>3. log' = log => OldRequests
  BY DEF OldRequests
<1>4. ASSUME UNCHANGED vars \/ Select \/ SelectFails \/ SelectTimeout PROVE Goal
  BY <1>2, <1>4 DEF vars, Select, SelectFails, SelectTimeout, clientVars
<1>5. ASSUME NEW s \in Socket, AcceptFails(s) \/ Disconnect(s) \/ ReceiveAnswer(s) \/ AnswerLost(s)
                                \/ AnswerAborts(s)
      PROVE  Goal
  BY <1>2, <1>5 DEF AcceptFails, Disconnect, ReceiveAnswer, AnswerLost, AnswerAborts, clientVars
<1>6. ASSUME NEW s \in Socket, Register(s) PROVE Goal
  <2>1. /\ stream' = [stream EXCEPT ![s] = SubSeq(@, BufLen, Len(@))]
        /\ UNCHANGED <<nsent, log>> /\ scratch' \in {scratch, NoPacket}
    BY <1>6 DEF Register
  <2>2. StreamsAhead'
    BY <1>1, <1>3, <2>1, SuffixStaysAhead, ConstantsAssumption
  <2> QED
    BY <2>1, <2>2 DEF SequenceInv, LogBounded, ScratchIsLast, RequestsInOrder
<1>7. ASSUME NEW s \in Socket, ReadPacket(s) PROVE Goal
  BY <1>7, ReadStaysAhead
<1>8. ASSUME NEW s \in Socket, ReadTail(s) PROVE Goal
  <2>1. /\ stream' = [stream EXCEPT ![s] = SubSeq(@, BufLen + 1, Len(@))]
        /\ nsent' = nsent /\ ((Ignore(s) /\ scratch' = NoPacket) \/ Reread(s))
    BY <1>8 DEF ReadTail, Rest, clientVars
  <2>2. BufLen + 1 \in Nat \ {0}
    BY ConstantsAssumption
  <2>3. CASE Ignore(s) /\ scratch' = NoPacket
    <3>1. log' = log
      BY <2>3 DEF Ignore
    <3>2. StreamsAhead'
      BY <1>1, <1>3, <2>1, <2>2, <3>1, SuffixStaysAhead
    <3> QED
      BY <2>1, <2>3, <3>1, <3>2 DEF SequenceInv, LogBounded, ScratchIsLast, RequestsInOrder
  <2>4. CASE Reread(s)
    <3>1. OldRequests /\ LogBounded' /\ ScratchIsLast' /\ RequestsInOrder'
      BY <2>1, <2>4, RereadRepeats
    <3>2. StreamsAhead'
      BY <1>1, <2>1, <2>2, <3>1, SuffixStaysAhead
    <3> QED
      BY <3>1, <3>2
  <2> QED
    BY <2>1, <2>3, <2>4
<1>9. ASSUME NEW s \in Socket, ReadError(s) PROVE Goal
  <2>1. UNCHANGED <<nsent, stream>> /\ ((Ignore(s) /\ UNCHANGED scratch) \/ Reread(s))
    BY <1>9 DEF ReadError, clientVars
  <2>2. CASE Ignore(s) /\ UNCHANGED scratch
    BY <1>2, <2>1, <2>2 DEF Ignore
  <2>3. CASE Reread(s)
    <3>1. OldRequests /\ LogBounded' /\ ScratchIsLast' /\ RequestsInOrder'
      BY <2>1, <2>3, RereadRepeats
    <3>2. StreamsAhead'
      BY <1>1, <2>1, <3>1 DEF StreamsAhead, AheadCell, OldRequests
    <3> QED
      BY <3>1, <3>2
  <2> QED
    BY <2>1, <2>2, <2>3
<1>10. ASSUME NEW s \in Socket, ClientStep(s) PROVE Goal
  <2>1. UNCHANGED <<scratch, log>>
    BY <1>10 DEF ClientStep, Connect, SendName, Exit, Kill, ResetAfterClose, ClientSend, serverVars
  <2>2. ASSUME UNCHANGED <<nsent, stream>> PROVE Goal
    BY <1>2, <2>1, <2>2
  <2>3. ASSUME Kill(s) \/ ResetAfterClose(s) PROVE Goal
    <3>1. stream' = [stream EXCEPT ![s] = << >>] /\ nsent' = nsent
      BY <2>3 DEF Kill, ResetAfterClose
    <3>2. \A x \in Socket : stream'[x] = stream[x] \/ Len(stream'[x]) = 0
      BY <1>1, <3>1 DEF TypeOK
    <3>3. StreamsAhead'
      BY <1>1, <2>1, <3>1, <3>2 DEF StreamsAhead, AheadCell
    <3> QED
      BY <2>1, <3>1, <3>3 DEF SequenceInv, LogBounded, ScratchIsLast, RequestsInOrder
  <2>4. ASSUME NEW p \in Requests(s), ClientSend(s, p) PROVE Goal
    BY <2>1, <2>4, SendStaysAhead DEF SequenceInv, ScratchIsLast, RequestsInOrder
  <2> HIDE DEF Goal
  <2> QED
    BY <1>10, <2>2, <2>3, <2>4 DEF ClientStep, Connect, SendName, Exit
<1>11. ASSUME AuthStep \/ AuthDies PROVE Goal
  BY <1>2, <1>11 DEF AuthStep, AuthAnswers, AuthRepeats, AuthSkipsRest, AuthIgnores, AuthDies, clientVars,
                     serverVars
<1> HIDE DEF Goal
<1>12. Goal
  BY <1>4, <1>5, <1>6, <1>7, <1>8, <1>9, <1>10, <1>11 DEF Next, ServerStep, Stopped
<1> QED
  BY <1>1, <1>12 DEF SequenceInv, Goal

\* However the streams are cut into pieces, whatever fails and whatever is stale, a request
\* that is handled is the last one again or one its client sent after all that were handled.
THEOREM NoRequestReturns == Spec => []RequestsInOrder
<1>1. SequenceInv => RequestsInOrder
  BY DEF SequenceInv
<1> QED
  BY <1>1, SequenceInit, SequenceStep, PTL DEF Spec

-----------------------------------------------------------------------------
(* Connections are accepted once *)

AcceptedOnce ==
  /\ connected \subseteq Range(clients)
  /\ \A x \in Socket : peer[x] = "idle" => x \notin Range(backlog) \cup Range(clients)
  /\ \A i \in 1..Len(backlog) : backlog[i] \notin Range(clients)
  /\ \A i, j \in 1..Len(backlog) : backlog[i] = backlog[j] => i = j

LEMMA AcceptedInit == Init => AcceptedOnce
<1> SUFFICES ASSUME Init PROVE AcceptedOnce
  OBVIOUS
<1>1. Len(backlog) = 0 /\ Range(backlog) = {} /\ Range(clients) = {} /\ connected = {}
  BY DEF Init, Range
<1> QED
  BY <1>1 DEF AcceptedOnce

\* What is known of the backlog when its first connection is taken out
LEMMA BacklogTail ==
  ASSUME TypeOK, backlog # << >>, backlog' = Tail(backlog)
  PROVE  /\ 1 \in 1..Len(backlog) /\ Head(backlog) = backlog[1] /\ Range(backlog') \subseteq Range(backlog)
         /\ \A i \in 1..Len(backlog') : /\ i + 1 \in 1..Len(backlog) /\ i + 1 # 1 /\ i \in Int
                                        /\ backlog'[i] = backlog[i + 1]
<1>1. backlog \in Seq(Socket)
  BY DEF TypeOK
<1>2. /\ backlog' \in Seq(Socket) /\ Len(backlog') = Len(backlog) - 1 /\ Len(backlog) \in Nat
      /\ \A i \in 1..Len(backlog') : backlog'[i] = backlog[i + 1]
  BY <1>1, HeadTailProperties
<1>3. DOMAIN backlog = 1..Len(backlog) /\ DOMAIN backlog' = 1..Len(backlog')
  BY <1>1, <1>2, LenProperties
<1>4. 1 \in 1..Len(backlog) /\ Head(backlog) = backlog[1]
  BY <1>1
<1>5. \A i \in 1..Len(backlog') : i + 1 \in 1..Len(backlog) /\ i + 1 # 1 /\ i \in Int
  BY <1>2
<1>6. Range(backlog') \subseteq Range(backlog)
  BY <1>2, <1>3, <1>5 DEF Range
<1> QED
  BY <1>2, <1>4, <1>5, <1>6

\* The table gains the new client and loses nobody.
LEMMA TableGrows ==
  ASSUME TypeOK, NEW s \in Socket, clients' = Append(clients, s)
  PROVE  Range(clients') = Range(clients) \cup {s}
<1>1. clients \in Seq(Socket)
  BY DEF TypeOK
<1>2. /\ Len(clients) \in Nat /\ DOMAIN clients = 1..Len(clients)
      /\ DOMAIN clients' = 1..(Len(clients) + 1) /\ clients'[Len(clients) + 1] = s
      /\ \A i \in 1..Len(clients) : clients'[i] = clients[i]
  BY <1>1, AppendProperties, LenProperties
<1>3. \A i \in 1..(Len(clients) + 1) : i \in 1..Len(clients) \/ i = Len(clients) + 1
  BY <1>2
<1>4. 1..Len(clients) \subseteq 1..(Len(clients) + 1) /\ Len(clients) + 1 \in 1..(Len(clients) + 1)
  BY <1>2
<1> QED
  BY <1>2, <1>3, <1>4 DEF Range

LEMMA AcceptedStep == TypeOK /\ AcceptedOnce /\ [Next]_vars => AcceptedOnce'
<1> SUFFICES ASSUME TypeOK, AcceptedOnce, [Next]_vars PROVE AcceptedOnce'
  OBVIOUS
<1>1. /\ clients \in Seq(Socket) /\ backlog \in Seq(Socket)
      /\ peer \in [Socket -> {"idle", "dialed", "open", "closed", "reset"}]
  BY DEF TypeOK
<1>2. ASSUME UNCHANGED <<backlog, clients>>, connected' \subseteq connected,
             \A x \in Socket : peer'[x] = "idle" => peer[x] = "idle"
      PROVE  AcceptedOnce'
  BY <1>2 DEF AcceptedOnce
<1>3. ASSUME UNCHANGED vars \/ Select \/ SelectFails \/ SelectTimeout \/ AuthStep \/ AuthDies
      PROVE  AcceptedOnce'
  BY <1>2, <1>3 DEF vars, Select, SelectFails, SelectTimeout, AuthStep, AuthAnswers, AuthRepeats,
                    AuthSkipsRest, AuthIgnores, AuthDies, clientVars, serverVars, tableVars
<1>4. ASSUME NEW s \in Socket, Disconnect(s) \/ ReadPacket(s) \/ ReadTail(s) \/ ReadError(s) \/ ReceiveAnswer(s)
                                \/ AnswerLost(s) \/ AnswerAborts(s)
      PROVE  AcceptedOnce'
  BY <1>2, <1>4 DEF Disconnect, ReadPacket, ReadTail, ReadError, ReceiveAnswer, AnswerLost, AnswerAborts,
                    clientVars, tableVars
<1>5. ASSUME NEW s \in Socket, AcceptFails(s) PROVE AcceptedOnce'
  <2>1. /\ UNCHANGED <<peer, clients, connected>>
        /\ backlog # << >> /\ (backlog' = Tail(backlog) \/ backlog' = backlog)
    BY <1>5 DEF AcceptFails, tableVars
  <2>2. CASE backlog' = backlog
    BY <1>2, <2>1, <2>2
  <2>3. CASE backlog' = Tail(backlog)
    BY <2>1, <2>3, BacklogTail DEF AcceptedOnce
  <2> QED
    BY <2>1, <2>2, <2>3
<1>6. ASSUME NEW s \in Socket, Register(s) PROVE AcceptedOnce'
  <2>1. /\ peer' = peer /\ clients' = Append(clients, s) /\ connected' = connected \cup {s}
        /\ backlog # << >> /\ Head(backlog) = s /\ backlog' = Tail(backlog)
        /\ peer[s] # "idle"
    BY <1>6 DEF Register
  <2>2. /\ 1 \in 1..Len(backlog) /\ backlog[1] = s /\ Range(backlog') \subseteq Range(backlog)
        /\ \A i \in 1..Len(backlog') : /\ i + 1 \in 1..Len(backlog) /\ i + 1 # 1 /\ i \in Int
                                       /\ backlog'[i] = backlog[i + 1]
    BY <2>1, BacklogTail
  <2>3. Range(clients') = Range(clients) \cup {s}
    BY <2>1, TableGrows
  <2>4. \A x \in Socket : peer'[x] = "idle" => x \notin Range(backlog') \cup Range(clients')
    BY <2>1, <2>2, <2>3 DEF AcceptedOnce
  <2>5. \A i \in 1..Len(backlog') : backlog'[i] \notin Range(clients')
    BY <2>2, <2>3 DEF AcceptedOnce
  <2>6. ASSUME NEW i \in 1..Len(backlog'), NEW j \in 1..Len(backlog'), backlog'[i] = backlog'[j]
        PROVE  i = j
    <3>1. i + 1 = j + 1
      BY <2>2, <2>6 DEF AcceptedOnce
    <3> QED
      BY <2>2, <3>1
  <2> QED
    BY <2>1, <2>3, <2>4, <2>5, <2>6 DEF AcceptedOnce
<1>7. ASSUME NEW s \in Socket, Connect(s) PROVE AcceptedOnce'
  <2>1. /\ peer[s] = "idle" /\ peer' = [peer EXCEPT ![s] = "dialed"]
        /\ backlog' = Append(backlog, s) /\ UNCHANGED <<clients, connected>>
    BY <1>7 DEF Connect, serverVars, tableVars
  <2>2. s \notin Range(backlog) \cup Range(clients)
    BY <2>1 DEF AcceptedOnce
  <2>3. /\ Len(backlog) \in Nat /\ DOMAIN backlog = 1..Len(backlog)
        /\ Len(backlog') = Len(backlog) + 1 /\ DOMAIN backlog' = 1..Len(backlog')
        /\ backlog'[Len(backlog) + 1] = s
        /\ \A i \in 1..Len(backlog) : backlog'[i] = backlog[i]
    BY <1>1, <2>1, AppendProperties, LenProperties
  <2>4. \A i \in 1..Len(backlog') : i \in 1..Len(backlog) \/ i = Len(backlog) + 1
    BY <2>3
  <2>5. \A i \in 1..Len(backlog) : backlog[i] # s
    BY <2>2, <2>3 DEF Range
  <2>6. Range(backlog') \subseteq Range(backlog) \cup {s}
    BY <2>3, <2>4 DEF Range
  <2>7. \A x \in Socket : peer'[x] = "idle" => x \notin Range(backlog') \cup Range(clients')
    BY <1>1, <2>1, <2>6 DEF AcceptedOnce
  <2>8. \A i \in 1..Len(backlog') : backlog'[i] \notin Range(clients')
    BY <2>1, <2>2, <2>3, <2>4 DEF AcceptedOnce
  <2>9. \A i, j \in 1..Len(backlog') : backlog'[i] = backlog'[j] => i = j
    BY <2>3, <2>4, <2>5 DEF AcceptedOnce
  <2> QED
    BY <2>1, <2>7, <2>8, <2>9 DEF AcceptedOnce
<1>8. ASSUME NEW s \in Socket, ClientStep(s) PROVE AcceptedOnce'
  <2>1. ASSUME UNCHANGED <<backlog, serverVars>>,
               peer' = peer \/ \E state \in {"open", "closed", "reset"} : peer' = [peer EXCEPT ![s] = state]
        PROVE  AcceptedOnce'
    <3>1. \A x \in Socket : peer'[x] = "idle" => peer[x] = "idle"
      BY <1>1, <2>1
    <3> QED
      BY <1>2, <2>1, <3>1 DEF serverVars, tableVars
  <2>2. ASSUME SendName(s) \/ Exit(s) \/ Kill(s) \/ ResetAfterClose(s) PROVE AcceptedOnce'
    BY <2>1, <2>2 DEF SendName, Exit, Kill, ResetAfterClose
  <2>3. ASSUME NEW p \in Requests(s), ClientSend(s, p) PROVE AcceptedOnce'
    BY <2>1, <2>3 DEF ClientSend
  <2> QED
    BY <1>7, <1>8, <2>2, <2>3 DEF ClientStep
<1> QED
  BY <1>3, <1>4, <1>5, <1>6, <1>8 DEF Next, ServerStep, Stopped

-----------------------------------------------------------------------------
(* Clients that keep pace *)

\* Neither a client's connection nor that of the authentication server is lost, so no
\* recv() or send() reports an error.
Unbroken ==
  /\ wsaRefs = 2 /\ authLink = "up"
  /\ \A s \in Socket : peer[s] # "reset"

\* What a client of S has in its stream is one request, which a recv() returns whole and
\* the recv() of its name has not seen.
OneRequest(S) ==
  \A s \in S : stream[s] # << >> =>
    s \in Range(clients) /\ stream[s][1].k = 1 /\ Len(stream[s]) <= BufLen

RequestInv(S) ==
  StopInv /\ SequenceInv /\ AcceptedOnce /\ Unbroken /\ OneRequest(S) /\ OnceInOrder(S)

LEMMA RequestInit ==
  ASSUME "authloss" \notin Faults, NEW S \in SUBSET Socket
  PROVE  Init => RequestInv(S)
<1> SUFFICES ASSUME Init PROVE RequestInv(S)
  OBVIOUS
<1>1. StopInv /\ Unbroken /\ SequenceInv /\ AcceptedOnce
  BY StopInit, SequenceInit, AcceptedInit DEF Init, Unbroken
<1>2. DOMAIN log = {} /\ \A s \in S : stream[s] = << >>
  BY DEF Init
<1> QED
  BY <1>1, <1>2 DEF RequestInv, OneRequest, OnceInOrder

\* After a recv() nothing is left of the stream.
LEMMA NothingLeft ==
  ASSUME TypeOK, NEW S \in SUBSET Socket, OneRequest(S), NEW s \in S
  PROVE  Rest(stream[s]) = << >>
<1>1. /\ stream[s] \in Seq(Cell) /\ Len(stream[s]) \in Nat /\ BufLen \in Nat \ {0}
      /\ stream[s] = << >> => Len(stream[s]) = 0
  BY ConstantsAssumption DEF TypeOK
<1>2. Len(stream[s]) < BufLen + 1
  BY <1>1 DEF OneRequest
<1> QED
  BY <1>1, <1>2 DEF Rest

\* A client that keeps pace has the request it sends in its stream, and nothing else.
LEMMA PacedSend ==
  ASSUME TypeOK, NEW S \in SUBSET Socket, NEW s \in S, NEW p \in Requests(s), ClientSend(s, p)
  PROVE  /\ nsent'[s] # nsent[s]
         /\ stream[s] = << >> => /\ NewRequest(s) = p
                                 /\ stream' = [stream EXCEPT ![s] = Cells(p)]
         /\ NewRequest(s) = p
         /\ Len(Cells(p)) = Width[p.id] /\ Width[p.id] \in Nat \ {0}
         /\ \A k \in 1..Len(Cells(p)) : Cells(p)[k] = [p |-> p, k |-> k]
<1>1. stream \in [Socket -> Seq(Cell)] /\ nsent \in [Socket -> Nat] /\ s \in Socket
  BY DEF TypeOK
<1>2. p \in Packet /\ p.id \in MsgType
  BY <1>1, RequestsArePackets, Packets
<1>3. Width[p.id] \in Nat \ {0}
  BY <1>2, ConstantsAssumption
<1>4. /\ Cells(p) \in Seq(Cell) /\ Len(Cells(p)) = Width[p.id]
      /\ \A k \in 1..Len(Cells(p)) : Cells(p)[k] = [p |-> p, k |-> k]
  BY <1>2, <1>3, CellsAreSeq, LenProperties DEF Cells
<1>5. stream' = [stream EXCEPT ![s] = @ \o Cells(p)] /\ nsent' = [nsent EXCEPT ![s] = @ + 1]
  BY DEF ClientSend
<1>6. stream'[s] = stream[s] \o Cells(p) /\ nsent'[s] # nsent[s]
  BY <1>1, <1>5
<1>7. NewRequest(s) = p
  <2>1. stream[s] \in Seq(Cell) /\ Len(stream[s]) \in Nat
    BY <1>1, LenProperties
  <2>2. 1 \in 1..Len(Cells(p)) /\ Cells(p)[1].p = p
    <3>1. 1 \in 1..Len(Cells(p))
      BY <1>3, <1>4
    <3>2. Cells(p)[1] = [p |-> p, k |-> 1]
      BY <1>4, <3>1
    <3> QED
      BY <3>1, <3>2
  <2>3. stream'[s][Len(stream[s]) + 1] = Cells(p)[1]
    BY <1>4, <1>6, <2>1, <2>2, ConcatProperties
  <2> QED
    BY <2>2, <2>3 DEF NewRequest
<1>8. ASSUME stream[s] = << >> PROVE stream' = [stream EXCEPT ![s] = Cells(p)]
  <2>1. << >> \o Cells(p) = Cells(p)
    BY <1>4, ConcatEmptySeq
  <2> QED
    BY <1>1, <1>5, <1>8, <2>1
<1> QED
  BY <1>3, <1>4, <1>6, <1>7, <1>8

LEMMA RequestStep ==
  ASSUME Faults \cap {"rst", "kill", "authloss"} = {}, NEW S \in SUBSET Socket
  PROVE  RequestInv(S) /\ [Next /\ PacedStep(S)]_vars => RequestInv(S)'
<1> SUFFICES ASSUME RequestInv(S), [Next /\ PacedStep(S)]_vars PROVE RequestInv(S)'
  OBVIOUS
<1> DEFINE Goal == Unbroken' /\ OneRequest(S)' /\ OnceInOrder(S)'
<1>1. /\ StopInv /\ TypeOK /\ StopInv' /\ SequenceInv /\ SequenceInv' /\ AcceptedOnce /\ AcceptedOnce'
      /\ OneRequest(S) /\ OnceInOrder(S) /\ Unbroken
  BY StopStep, SequenceStep, AcceptedStep DEF RequestInv, StopInv
<1>2. ASSUME UNCHANGED <<peer, stream, clients, log, authLink, wsaRefs>> PROVE Goal
  BY <1>1, <1>2 DEF Unbroken, OneRequest, OnceInOrder
<1>3. ASSUME UNCHANGED vars \/ Select \/ SelectFails \/ SelectTimeout PROVE Goal
  BY <1>2, <1>3 DEF vars, Select, SelectFails, SelectTimeout, clientVars, tableVars, authVars
<1>4. ASSUME NEW s \in Socket, AcceptFails(s) \/ Disconnect(s) PROVE Goal
  BY <1>2, <1>4 DEF AcceptFails, Disconnect, clientVars, tableVars, authVars
<1>5. ASSUME NEW s \in Socket, ReceiveAnswer(s) \/ AnswerAborts(s) PROVE Goal
  BY <1>2, <1>5 DEF ReceiveAnswer, AnswerAborts, clientVars, tableVars
<1>6. ASSUME NEW s \in Socket, AnswerLost(s) PROVE Goal
  BY <1>1, <1>6 DEF AnswerLost, Unbroken
<1>7. ASSUME NEW s \in Socket, Register(s) PROVE Goal
  <2>1. /\ stream' = [stream EXCEPT ![s] = SubSeq(@, BufLen, Len(@))]
        /\ UNCHANGED <<peer, log, authLink, wsaRefs>> /\ clients' = Append(clients, s)
        /\ backlog # << >> /\ Head(backlog) = s /\ backlog' = Tail(backlog)
    BY <1>7 DEF Register, authVars
  <2>2. s \notin Range(clients)
    BY <1>1, <2>1, BacklogTail DEF AcceptedOnce
  <2>3. s \in S => stream'[s] = << >>
    <3>1. ASSUME s \in S PROVE stream[s] = << >>
      BY <1>1, <2>2, <3>1 DEF OneRequest
    <3>2. SubSeq(<< >>, BufLen, 0) = << >>
      <4>1. << >> \in Seq(Cell) /\ Len(<< >>) = 0
        OBVIOUS
      <4> QED
        BY <4>1, ConstantsAssumption
    <3> QED
      BY <1>1, <2>1, <3>1, <3>2 DEF TypeOK
  <2>4. \A x \in Socket : x # s => stream'[x] = stream[x]
    BY <1>1, <2>1 DEF TypeOK
  <2>5. Range(clients) \subseteq Range(clients')
    BY <1>1, <2>1, TableGrows
  <2>6. OneRequest(S)'
    BY <1>1, <2>3, <2>4, <2>5 DEF OneRequest
  <2> QED
    BY <1>1, <2>1, <2>6 DEF Unbroken, OnceInOrder
<1>8. ASSUME NEW s \in Socket, NEW p \in Packet, log' = Append(log, [by |-> s, p |-> p]),
             s \in S => /\ p.from = s
                        /\ \A j \in 1..Len(log) : log[j].p.from = s => log[j].p.n < p.n
      PROVE  OnceInOrder(S)'
  <2> DEFINE n == Len(log)
  <2>1. /\ n \in Nat /\ DOMAIN log = 1..n /\ DOMAIN log' = 1..(n + 1)
        /\ log'[n + 1].by = s /\ log'[n + 1].p = p
        /\ \A j \in 1..n : log'[j] = log[j]
    BY <1>1, <1>8, LogAppended, LogTyped
  <2>6. s \in S => /\ p.from = s
                   /\ \A j \in 1..n : log[j].p.from = s => log[j].p.n < p.n
    BY <1>8
  <2> HIDE DEF n
  <2>2. \A j \in 1..(n + 1) : j \in 1..n \/ j = n + 1
    BY <2>1
  <2> SUFFICES ASSUME NEW i \in 1..(n + 1), NEW j \in 1..(n + 1), log'[i].by \in S
               PROVE  /\ log'[i].p.from = log'[i].by
                      /\ i < j /\ log'[i].by = log'[j].by => log'[i].p.n < log'[j].p.n
    BY <2>1 DEF OnceInOrder
  <2>3. \A k \in 1..n : log[k].by \in S => log[k].p.from = log[k].by
    BY <1>1, <2>1 DEF OnceInOrder
  <2>4. log'[i].p.from = log'[i].by
    BY <2>1, <2>2, <2>3, <2>6
  <2>5. ASSUME i < j, log'[i].by = log'[j].by PROVE log'[i].p.n < log'[j].p.n
    <3>1. i \in 1..n /\ log'[i] = log[i]
      BY <2>1, <2>5
    <3>2. CASE j = n + 1
      BY <2>1, <2>3, <2>5, <2>6, <3>1, <3>2
    <3>3. CASE j \in 1..n
      BY <1>1, <2>1, <2>5, <3>1, <3>3 DEF OnceInOrder
    <3> QED
      BY <2>2, <3>2, <3>3
  <2> QED
    BY <2>4, <2>5
<1>9. ASSUME NEW s \in Socket, stream' = [stream EXCEPT ![s] = Rest(@)], clients' = clients
      PROVE  OneRequest(S)'
  <2>1. \A x \in S : stream'[x] = stream[x] \/ stream'[x] = << >>
    BY <1>1, <1>9, NothingLeft DEF TypeOK
  <2> QED
    BY <1>1, <1>9, <2>1 DEF OneRequest
<1>10. ASSUME NEW s \in Socket, ReadPacket(s) PROVE Goal
  <2> DEFINE p == Head(stream[s]).p
  <2>1. /\ UNCHANGED <<peer, clients, authLink, wsaRefs>>
        /\ log' = Append(log, [by |-> s, p |-> p])
        /\ stream' = [stream EXCEPT ![s] = Rest(@)]
    BY <1>1, <1>10 DEF ReadPacket, Handle, Join, Leave, SendMessage, RequestAccount, clientVars, tableVars,
                       Unbroken
  <2>2. /\ stream[s] \in Seq(Cell) /\ stream[s] # << >> /\ 1 \in 1..Len(stream[s])
        /\ Head(stream[s]) = stream[s][1] /\ Head(Chunk(stream[s])) = stream[s][1]
        /\ Head(stream[s]) \in Cell
    <3>1. stream[s] \in Seq(Cell) /\ stream[s] # << >> /\ 1 \in 1..Len(stream[s])
      BY <1>1, <1>10 DEF ReadPacket, TypeOK
    <3> QED
      BY <3>1, HeadTailProperties, ConstantsAssumption DEF Chunk
  <2>3. stream[s][1].k = 1 /\ AheadCell(s, 1) /\ p \in Packet
    BY <1>1, <1>10, <2>2 DEF ReadPacket, SequenceInv, StreamsAhead, Cell
  <2>4. p.from = s /\ \A j \in 1..Len(log) : log[j].p.from = s => log[j].p.n < p.n
    BY <2>2, <2>3 DEF AheadCell
  <2> HIDE DEF p
  <2>5. OnceInOrder(S)' /\ OneRequest(S)'
    BY <1>8, <1>9, <2>1, <2>3, <2>4
  <2> QED
    BY <1>1, <2>1, <2>5 DEF Unbroken
<1>11. ASSUME NEW s \in Socket, ReadTail(s) PROVE Goal
  <2>1. stream[s] \in Seq(Cell) /\ stream[s] # << >>
    BY <1>1, <1>11 DEF ReadTail, TypeOK
  <2>2. Head(Chunk(stream[s])) = stream[s][1]
    BY <2>1, ConstantsAssumption DEF Chunk
  <2>3. s \notin S
    BY <1>1, <1>11, <2>1, <2>2 DEF ReadTail, OneRequest
  <2>4. UNCHANGED <<peer, clients>> /\ stream' = [stream EXCEPT ![s] = Rest(@)]
    BY <1>11 DEF ReadTail, clientVars, tableVars
  <2>5. CASE Ignore(s) /\ scratch' = NoPacket
    <3>1. UNCHANGED <<log, authLink, wsaRefs>>
      BY <2>5 DEF Ignore
    <3> QED
      BY <1>1, <1>9, <2>4, <3>1 DEF Unbroken, OnceInOrder
  <2>6. CASE Reread(s)
    <3>1. /\ scratch \in Packet /\ log' = Append(log, [by |-> s, p |-> scratch])
          /\ UNCHANGED <<authLink, wsaRefs>>
      BY <1>1, <2>6 DEF Reread, Handle, Join, Leave, SendMessage, RequestAccount, Unbroken, TypeOK
    <3>2. OnceInOrder(S)'
      BY <1>8, <2>3, <3>1
    <3> QED
      BY <1>1, <1>9, <2>4, <3>1, <3>2 DEF Unbroken
  <2> QED
    BY <1>11, <2>5, <2>6 DEF ReadTail
<1>12. ASSUME NEW s \in Socket, ReadError(s) PROVE Goal
  BY <1>1, <1>12 DEF ReadError, Broken, Unbroken
<1>13. ASSUME NEW s \in Socket, ClientStep(s), PacedStep(S) PROVE Goal
  <2>1. UNCHANGED <<clients, log, authLink, wsaRefs>>
    BY <1>1, <1>13, ClientsReset DEF Unbroken, serverVars, authVars, tableVars
  <2>2. Unbroken'
    BY <1>1, <1>13, <2>1 DEF Unbroken, TypeOK, ClientStep, Connect, SendName, Exit, Kill, ResetAfterClose,
                             ClientSend
  <2>3. CASE stream' = stream
    BY <1>1, <2>1, <2>2, <2>3 DEF OneRequest, OnceInOrder
  <2>4. ASSUME NEW p \in Requests(s), ClientSend(s, p) PROVE Goal
    <3>1. CASE s \notin S
      <4>1. \A x \in S : stream'[x] = stream[x]
        BY <1>1, <2>4, <3>1 DEF ClientSend, TypeOK
      <4> QED
        BY <1>1, <2>1, <2>2, <4>1 DEF OneRequest, OnceInOrder
    <3>2. CASE s \in S
      <4>1. KeepsPace(s, p)
        <5>1. nsent'[s] # nsent[s] /\ NewRequest(s) = p
          BY <1>1, <2>4, <3>2, PacedSend
        <5>2. KeepsPace(s, NewRequest(s))
          BY <1>13, <3>2, <5>1 DEF PacedStep
        <5> QED
          BY <5>1, <5>2
      <4>2. /\ stream' = [stream EXCEPT ![s] = Cells(p)]
            /\ Len(Cells(p)) = Width[p.id] /\ Width[p.id] \in Nat \ {0}
            /\ \A k \in 1..Len(Cells(p)) : Cells(p)[k] = [p |-> p, k |-> k]
        BY <1>1, <2>4, <3>2, <4>1, PacedSend DEF KeepsPace
      <4>3. stream'[s] = Cells(p) /\ \A x \in S : x # s => stream'[x] = stream[x]
        BY <1>1, <4>2 DEF TypeOK
      <4>4. 1 \in 1..Len(Cells(p)) /\ Len(Cells(p)) <= BufLen
        BY <4>1, <4>2, ConstantsAssumption DEF KeepsPace
      <4>5. s \in Range(clients)
        BY <1>1, <4>1 DEF KeepsPace, AcceptedOnce
      <4>6. stream'[s][1].k = 1
        <5>1. stream'[s][1] = [p |-> p, k |-> 1]
          BY <4>2, <4>3, <4>4
        <5> QED
          BY <5>1
      <4>7. OneRequest(S)'
        BY <1>1, <2>1, <4>3, <4>4, <4>5, <4>6 DEF OneRequest
      <4> QED
        BY <1>1, <2>1, <2>2, <4>7 DEF OnceInOrder
    <3> QED
      BY <3>1, <3>2
  <2> HIDE DEF Goal
  <2>5. ~Kill(s) /\ ~ResetAfterClose(s)
    BY DEF Kill, ResetAfterClose
  <2> QED
    BY <1>13, <2>3, <2>4, <2>5 DEF ClientStep, Connect, SendName, Exit
<1>14. ASSUME AuthStep PROVE Goal
  BY <1>2, <1>14 DEF AuthStep, AuthAnswers, AuthRepeats, AuthSkipsRest, AuthIgnores, clientVars, serverVars,
                     tableVars
<1>15. ASSUME AuthDies PROVE Goal
  BY <1>15 DEF AuthDies
<1> HIDE DEF Goal
<1>16. Goal
  BY <1>3, <1>4, <1>5, <1>6, <1>7, <1>10, <1>11, <1>12, <1>13, <1>14, <1>15 DEF Next, ServerStep, Stopped
<1> QED
  BY <1>1, <1>16 DEF RequestInv, Goal

\* If no connection is lost, then for clients that keep pace no request is handled twice,
\* for another of them or before an earlier one, whatever the sizes of requests are and
\* however the other clients' streams are cut into pieces.
THEOREM RequestsHandledOnce ==
  ASSUME Faults \cap {"rst", "kill", "authloss"} = {}
  PROVE  PacedSpec => []RequestsOnceInOrder
<1>1. Init => RequestInv(Careful)
  BY RequestInit, CarefulAssumption
<1>2. RequestInv(Careful) /\ [Next /\ PacedStep(Careful)]_vars => RequestInv(Careful)'
  BY RequestStep, CarefulAssumption
<1>3. RequestInv(Careful) => RequestsOnceInOrder
  BY DEF RequestInv, RequestsOnceInOrder
<1> QED
  BY <1>1, <1>2, <1>3, PTL DEF PacedSpec
=============================================================================
