------------------------- MODULE ChatSystem_proofs -------------------------
(***************************************************************************)
(* Theorems about the two servers together, for every instance of          *)
(* ChatSystem: the chat server sends the authentication server only what   *)
(* that server's own module allows, so that what is proved of each module  *)
(* holds here, and what a client is told is what became of its request.    *)
(***************************************************************************)
EXTENDS SystemProperties, ChatRequests_proofs

\* What is proved of the authentication server
A == INSTANCE AuthAnswers_proofs WITH
  Conn <- {ChatEnd}, Width <- AuthWidth, Faults <- AuthFaults,
  peer <- aPeer, nsent <- aNsent, backlog <- aBacklog, stream <- aStream,
  clients <- aClients, connected <- aConnected, pc <- aPc, ready <- aReady,
  scratch <- aScratch, link <- dbLink

LEMMA AuthAssumption == A!ConstantsAssumption
BY SystemAssumption, ConstantsAssumption
   DEF A!ConstantsAssumption, A!FaultKind, Auth!FaultKind, A!Request, Auth!Request,
       A!Row, Auth!Row

-----------------------------------------------------------------------------
(* Its actions are those of ChatSystem *)

LEMMA SameCardinality ==
  \A S : Auth!Cardinality(S) = Cardinality(S) /\ A!Cardinality(S) = Cardinality(S)
BY DEF Auth!Cardinality, A!Cardinality, Cardinality

LEMMA SameInit == Auth!Init => A!Init
BY DEF Auth!Init, A!Init, Auth!NoJob, A!NoJob, Auth!Connected, A!Connected

LEMMA SameExecute == Auth!Execute => A!Execute
<1> USE DEF Auth!Executed, A!Executed, Auth!Thrown, A!Thrown, Auth!AnswerLost, A!AnswerLost,
            Auth!Undefined, A!Undefined, Auth!Failure, A!Failure, Auth!Finish, A!Finish,
            Auth!Goto, A!Goto, Auth!Abort, A!Abort, Auth!dbVars, A!dbVars,
            Auth!faultVars, A!faultVars
<1>1. Auth!InsertUser => A!InsertUser
  BY DEF Auth!InsertUser, A!InsertUser, Auth!AddUser, A!AddUser
<1>2. Auth!LastUser => A!LastUser
  BY DEF Auth!LastUser, A!LastUser
<1>3. Auth!InsertAuth => A!InsertAuth
  BY DEF Auth!InsertAuth, A!InsertAuth
<1>4. Auth!DeleteUser => A!DeleteUser
  BY DEF Auth!DeleteUser, A!DeleteUser
<1>5. Auth!FindAuth => A!FindAuth
  BY DEF Auth!FindAuth, A!FindAuth, Auth!Found, A!Found
<1>6. Auth!UpdateUser => A!UpdateUser
  BY DEF Auth!UpdateUser, A!UpdateUser
<1>7. Auth!FindUser => A!FindUser
  BY DEF Auth!FindUser, A!FindUser
<1> QED
  BY <1>1, <1>2, <1>3, <1>4, <1>5, <1>6, <1>7
     DEF Auth!Execute, A!Execute, Auth!peerVars, A!peerVars, Auth!tableVars, A!tableVars

LEMMA SameServerStep == Auth!ServerStep => A!ServerStep
<1> USE DEF Auth!dbVars, A!dbVars, Auth!faultVars, A!faultVars, Auth!peerVars, A!peerVars,
            Auth!tableVars, A!tableVars, Auth!Done, A!Done, Auth!Resume, A!Resume
<1>1. Auth!Select => A!Select
  BY DEF Auth!Select, A!Select, Auth!Polled, A!Polled, Auth!Readable, A!Readable
<1>2. ASSUME NEW c \in {ChatEnd} PROVE Auth!Serving(c) => A!Serving(c)
  BY DEF Auth!Serving, A!Serving
<1>3. ASSUME NEW c \in {ChatEnd} PROVE Auth!Ignore(c) => A!Ignore(c)
  BY DEF Auth!Ignore, A!Ignore, Auth!NoJob, A!NoJob
<1>4. ASSUME NEW c \in {ChatEnd}, NEW r PROVE Auth!Handle(c, r) => A!Handle(c, r)
  BY DEF Auth!Handle, A!Handle, Auth!NoJob, A!NoJob
<1>5. ASSUME NEW c \in {ChatEnd} PROVE Auth!Register(c) => A!Register(c)
  BY DEF Auth!Register, A!Register
<1>6. ASSUME NEW c \in {ChatEnd} PROVE Auth!AcceptFails(c) => A!AcceptFails(c)
  BY DEF Auth!AcceptFails, A!AcceptFails
<1>7. ASSUME NEW c \in {ChatEnd} PROVE Auth!Disconnect(c) => A!Disconnect(c)
  BY <1>2 DEF Auth!Disconnect, A!Disconnect
<1>8. ASSUME NEW c \in {ChatEnd} PROVE Auth!ReadRequest(c) => A!ReadRequest(c)
  BY <1>2, <1>4 DEF Auth!ReadRequest, A!ReadRequest, Auth!Rest, A!Rest
<1>9. ASSUME NEW c \in {ChatEnd} PROVE Auth!ReadTail(c) => A!ReadTail(c)
  BY <1>2, <1>3, <1>4
     DEF Auth!ReadTail, A!ReadTail, Auth!Reread, A!Reread, Auth!Chunk, A!Chunk, Auth!Rest, A!Rest
<1>10. ASSUME NEW c \in {ChatEnd} PROVE Auth!ReadError(c) => A!ReadError(c)
  BY <1>2, <1>3, <1>4
     DEF Auth!ReadError, A!ReadError, Auth!Reread, A!Reread, Auth!Broken, A!Broken
<1>11. ASSUME NEW c \in {ChatEnd} PROVE Auth!Reply(c) => A!Reply(c)
  BY <1>2 DEF Auth!Reply, A!Reply, Auth!NoJob, A!NoJob, Auth!Broken, A!Broken
<1> QED
  BY <1>1, <1>5, <1>6, <1>7, <1>8, <1>9, <1>10, <1>11, SameExecute
     DEF Auth!ServerStep, A!ServerStep

LEMMA SameNext ==
  Auth!ServerStep \/ Auth!SelectTimeout \/ Auth!ClientStep(ChatEnd) \/ Auth!Crash \/ Auth!Start
    => A!Next
<1> USE DEF Auth!dbVars, A!dbVars, Auth!faultVars, A!faultVars, Auth!peerVars, A!peerVars,
            Auth!tableVars, A!tableVars,
            Auth!serverVars, A!serverVars, Auth!vars, A!vars
<1>1. Auth!SelectTimeout => A!SelectTimeout
  BY DEF Auth!SelectTimeout, A!SelectTimeout, Auth!Polled, A!Polled, Auth!Readable, A!Readable
<1>2. Auth!Crash => A!Crash
  BY DEF Auth!Crash, A!Crash, Auth!Failure, A!Failure
<1>3. Auth!Start => A!Start
  BY DEF Auth!Start, A!Start, Auth!NoJob, A!NoJob, Auth!Connected, A!Connected
<1>4. Auth!ClientStep(ChatEnd) => A!ClientStep(ChatEnd)
  <2>1. Auth!Sent = A!Sent /\ Auth!Request = A!Request
    BY DEF Auth!Sent, A!Sent, Auth!Request, A!Request
  <2>2. ASSUME NEW r PROVE Auth!SendRequest(ChatEnd, r) => A!SendRequest(ChatEnd, r)
    BY <2>1, SameCardinality DEF Auth!SendRequest, A!SendRequest
  <2>3. Auth!Connect(ChatEnd) => A!Connect(ChatEnd)
    BY DEF Auth!Connect, A!Connect
  <2>4. Auth!SendName(ChatEnd) => A!SendName(ChatEnd)
    BY DEF Auth!SendName, A!SendName
  <2>5. Auth!Leave(ChatEnd) => A!Leave(ChatEnd)
    BY DEF Auth!Leave, A!Leave
  <2> QED
    BY <2>1, <2>2, <2>3, <2>4, <2>5 DEF Auth!ClientStep, A!ClientStep
<1> QED
  BY <1>1, <1>2, <1>3, <1>4, SameServerStep DEF A!Next

LEMMA SameStep ==
  ASSUME \/ Auth!ServerStep \/ Auth!SelectTimeout \/ Auth!ClientStep(ChatEnd)
         \/ Auth!Crash \/ Auth!Start \/ UNCHANGED Auth!vars
  PROVE  [Auth!Next]_Auth!vars /\ [A!Next]_A!vars
<1>1. CASE UNCHANGED Auth!vars
  BY <1>1 DEF Auth!vars, A!vars, Auth!dbVars, A!dbVars, Auth!faultVars, A!faultVars,
              Auth!peerVars, A!peerVars, Auth!tableVars, A!tableVars
<1>2. CASE ~ UNCHANGED Auth!vars
  <2>1. A!Next
    BY <1>2, SameNext
  <2>2. Auth!Next
    BY <1>2 DEF Auth!Next
  <2> QED
    BY <2>1, <2>2
<1> QED
  BY <1>1, <1>2

-----------------------------------------------------------------------------
(* The invariant *)

Answer == [request : A!Request, outcome : A!Outcome]

\* As long as the chat server runs and the link holds, the authentication server has run
\* since the chat server connected to it, and the connection is open.
Linked == authLink = "up" /\ Running
LinkInv ==
  Linked =>
    /\ aPeer[ChatEnd] \in {"idle", "dialed", "open"}
    /\ aPc = "down" => aPeer[ChatEnd] = "idle"

\* Every request that was sent is that of an entry of the log, and the last one is that
\* of the handler that waits.
AskedInv ==
  /\ asked \in Seq(Nat) /\ Len(asked) = aNsent[ChatEnd]
  /\ \A i \in 1..Len(asked) : asked[i] \in 1..Len(log)
  /\ authLink = "up" /\ pc = "auth" => asked # << >> /\ asked[Len(asked)] = Len(log)

\* The chat server asks no more than it is answered: there is an answer for every request
\* but the one that waits, and one more for every answer, or rest of one, that is unread.
Due == IF pc = "auth" THEN 1 ELSE 0
Waited(m) ==
  /\ Len(fromAuth) <= m * AnswerWidth
  /\ m + Len(asked) <= Len(answers[ChatEnd]) + Due
WaitInv ==
  /\ authLink = "up" => \E m \in Nat : Waited(m)
  /\ Len(asked) <= Len(answers[ChatEnd]) + 1

SystemInv ==
  StopInv /\ A!AuthInv /\ A!NumbersInv /\ LinkInv /\ AskedInv /\ WaitInv

\* What of SystemInv says which values the variables have
LEMMA Lengths ==
  ASSUME SystemInv
  PROVE  /\ Len(asked) \in Nat /\ Len(answers[ChatEnd]) \in Nat /\ Len(fromAuth) \in Nat
         /\ Len(log) \in Nat /\ Due \in {0, 1} /\ AnswerWidth \in Nat \ {0}
         /\ answers \in [{ChatEnd} -> Seq(Answer)]
         /\ aPeer \in [{ChatEnd} -> {"idle", "dialed", "open", "closed", "reset"}]
         /\ aNsent \in [{ChatEnd} -> 0..MaxRequests]
<1>1. A!TypeOK /\ TypeOK /\ asked \in Seq(Nat)
  BY DEF SystemInv, A!AuthInv, StopInv, AskedInv
<1>2. answers \in [{ChatEnd} -> Seq(Answer)]
  BY <1>1 DEF A!TypeOK, Answer
<1> QED
  BY <1>1, <1>2, ConstantsAssumption, LenProperties DEF A!TypeOK, TypeOK, Due

LEMMA SystemInitially == SystemInit => SystemInv
<1> SUFFICES ASSUME SystemInit PROVE SystemInv
  OBVIOUS
<1>1. A!AuthInv /\ A!NumbersInv
  <2>1. A!Init
    BY SameInit DEF SystemInit
  <2> QED
    BY <2>1, AuthAssumption, A!AuthInit, A!NumbersInit
<1>2. StopInv
  BY StopInit DEF SystemInit
<1>3. /\ aPeer[ChatEnd] = "idle" /\ aNsent[ChatEnd] = 0 /\ asked = << >> /\ Len(asked) = 0
      /\ answers[ChatEnd] = << >> /\ fromAuth = << >> /\ Len(fromAuth) = 0 /\ pc = "select"
  BY DEF SystemInit, Auth!Init, Init
<1>4. LinkInv /\ AskedInv
  BY <1>3 DEF LinkInv, AskedInv
<1>5. WaitInv
  <2>1. AnswerWidth \in Nat /\ Len(answers[ChatEnd]) = 0 /\ Due = 0
    BY <1>3, ConstantsAssumption DEF Due
  <2>2. Waited(0)
    BY <1>3, <2>1 DEF Waited
  <2> QED
    BY <1>3, <2>1, <2>2 DEF WaitInv
<1> QED
  BY <1>1, <1>2, <1>4, <1>5 DEF SystemInv

\* A request that the authentication server knows is one that was sent.
LEMMA KnownAsked ==
  ASSUME A!AuthInv, A!NumbersInv, AskedInv, NEW r \in A!Known
  PROVE  /\ r \in A!Request /\ r.n \in 1..Len(asked)
         /\ asked[r.n] \in Nat /\ asked[r.n] \in 1..Len(log)
<1>1. r \in A!Request
  BY DEF A!Known, A!Streamed, A!Told, A!Stored
<1>2. r.from = ChatEnd /\ r.n \in 1..MaxRequests
  BY <1>1 DEF A!Request
<1>3. r.n <= aNsent[ChatEnd]
  BY <1>2 DEF A!NumbersInv
<1>4. Len(asked) = aNsent[ChatEnd] /\ asked \in Seq(Nat) /\ Len(asked) \in Nat
  BY LenProperties DEF AskedInv
<1>5. r.n \in 1..Len(asked)
  BY <1>2, <1>3, <1>4, SystemAssumption
<1> QED
  BY <1>1, <1>4, <1>5, ElementOfSeq DEF AskedInv

\* What the chat server sees of the authentication server is a sequence of numbers.
LEMMA WireTyped ==
  A!AuthInv /\ A!NumbersInv /\ AskedInv => OnWire \in Seq(Int)
<1> SUFFICES ASSUME A!AuthInv, A!NumbersInv, AskedInv PROVE OnWire \in Seq(Int)
  OBVIOUS
<1>1. A!TypeOK
  BY DEF A!AuthInv
<1>2. \A r \in A!Known : asked[r.n] \in Int /\ -asked[r.n] \in Int
  BY KnownAsked
<1>3. InHand \in Seq(Int)
  <2>1. CASE job.request = NoRequest
    BY <2>1, EmptySeq DEF InHand
  <2>2. CASE job.request # NoRequest
    <3>1. job.request \in A!Known
      BY <1>1, <2>2 DEF A!TypeOK, A!Known
    <3> QED
      BY <1>2, <2>2, <3>1 DEF InHand
  <2> QED
    BY <2>1, <2>2
<1> DEFINE q == aStream[ChatEnd]
           first == IF q # << >> /\ q[1].k # 1 /\ job.request # q[1].r /\ Answered(q[1].r)
                    THEN <<-asked[q[1].r.n]>> ELSE << >>
           heads == {i \in DOMAIN q : q[i].k = 1}
           whole == Pick(q, heads)
           numbers == [i \in DOMAIN whole |-> asked[whole[i].r.n]]
<1>4. q \in Seq(A!Cell) /\ Len(q) \in Nat /\ DOMAIN q = 1..Len(q)
  <2>1. q \in Seq(A!Cell)
    BY <1>1 DEF A!TypeOK
  <2> QED
    BY <2>1, LenProperties
<1>5. \A i \in DOMAIN q : q[i].r \in A!Known
  <2>1. \A i \in DOMAIN q : q[i] \in A!Cell
    BY <1>4, ElementOfSeq
  <2> QED
    BY <1>4, <2>1 DEF A!Cell, A!Known, A!Streamed
<1>6. first \in Seq(Int)
  <2>1. CASE first = << >>
    BY <2>1, EmptySeq
  <2>2. CASE q # << >> /\ first = <<-asked[q[1].r.n]>>
    <3>1. 1 \in DOMAIN q
      BY <1>4, <2>2, EmptySeq
    <3> QED
      BY <1>2, <1>5, <2>2, <3>1
  <2> QED
    BY <2>1, <2>2
<1>7. numbers \in Seq(Int)
  <2> DEFINE known == {c \in A!Cell : c.r \in A!Known}
  <2>1. q \in Seq(known)
    <3>1. \A i \in 1..Len(q) : q[i] \in known
      BY <1>4, <1>5, ElementOfSeq
    <3> HIDE DEF known, q
    <3> QED
      BY <1>4, <3>1, FunctionIsSeq
  <2>2. heads \subseteq 1..Len(q)
    BY <1>4
  <2> HIDE DEF known, q, heads
  <2>3. whole \in Seq(known)
    BY <2>1, <2>2, PickIsSeq
  <2> HIDE DEF whole
  <2>4. DOMAIN whole = 1..Len(whole) /\ Len(whole) \in Nat /\ \A i \in 1..Len(whole) : whole[i] \in known
    BY <2>3, LenProperties, ElementOfSeq
  <2>5. numbers \in [1..Len(whole) -> Int]
    BY <1>2, <2>4 DEF known
  <2> HIDE DEF numbers
  <2> QED
    BY <2>4, <2>5, FunctionIsSeq
<1>8. OnWire = InHand \o (first \o numbers)
  BY DEF OnWire, InStream
<1> HIDE DEF first, numbers
<1>9. first \o numbers \in Seq(Int)
  BY <1>6, <1>7, ConcatProperties
<1> QED
  BY <1>3, <1>8, <1>9, ConcatProperties

-----------------------------------------------------------------------------
(* Steps of the authentication server *)

\* Answers are only added, one at a time, and about the request that is handled.
AnswersGrow ==
  \/ answers' = answers
  \/ \E a \in Answer :
       /\ answers' = [answers EXCEPT ![ChatEnd] = Append(@, a)]
       /\ a.request = job.request /\ job.request \in A!Known

LEMMA AuthEffect ==
  ASSUME A!AuthInv, Auth!ServerStep \/ Auth!Crash \/ Auth!Start
  PROVE  /\ aNsent' = aNsent /\ AnswersGrow
         /\ \/ aPeer'[ChatEnd] = aPeer[ChatEnd]
            \/ aPc = "down" /\ aPeer[ChatEnd] # "idle"
         /\ aPc = "down" => answers' = answers
<1>1. A!TypeOK
  BY DEF A!AuthInv
<1>2. CASE Auth!Crash
  BY <1>2 DEF Auth!Crash, Auth!peerVars, AnswersGrow
<1>3. CASE Auth!Start
  BY <1>1, <1>3 DEF Auth!Start, A!TypeOK, AnswersGrow
<1>4. CASE Auth!Reply(ChatEnd)
  <2>1. /\ aPc = "reply" /\ UNCHANGED <<aPeer, aNsent>>
        /\ job.request \in A!Request /\ job.outcome \in A!Outcome
    BY <1>1, <1>4 DEF Auth!Reply, Auth!peerVars, A!AuthInv, A!JobInv, A!Handling, A!TypeOK
  <2> DEFINE a == [request |-> job.request, outcome |-> job.outcome]
  <2>2. a \in Answer /\ a.request = job.request
    BY <2>1 DEF Answer
  <2>3. answers' = answers \/ answers' = [answers EXCEPT ![ChatEnd] = Append(@, a)]
    BY <1>4 DEF Auth!Reply
  <2> HIDE DEF a
  <2>4. AnswersGrow
    BY <2>1, <2>2, <2>3 DEF AnswersGrow, A!Known
  <2> QED
    BY <2>1, <2>4
<1>5. CASE /\ Auth!ServerStep /\ ~Auth!Reply(ChatEnd)
  <2>1. UNCHANGED <<aPeer, aNsent, answers>>
    BY <1>5 DEF Auth!ServerStep, Auth!Select, Auth!Execute, Auth!Register, Auth!AcceptFails,
                Auth!Disconnect, Auth!ReadRequest, Auth!ReadTail, Auth!ReadError, Auth!peerVars
  <2> QED
    BY <2>1 DEF AnswersGrow
<1> QED
  BY <1>2, <1>3, <1>4, <1>5

\* The length of what was answered
LEMMA GrowsByOne ==
  ASSUME SystemInv, AnswersGrow
  PROVE  \/ answers' = answers
         \/ /\ Len(answers'[ChatEnd]) = Len(answers[ChatEnd]) + 1
            /\ answers'[ChatEnd][Len(answers'[ChatEnd])].request = job.request
            /\ job.request \in A!Known
            /\ \A i \in 1..Len(answers[ChatEnd]) : answers'[ChatEnd][i] = answers[ChatEnd][i]
<1>1. answers \in [{ChatEnd} -> Seq(Answer)] /\ answers[ChatEnd] \in Seq(Answer)
  BY Lengths
<1>2. ASSUME NEW a \in Answer, answers' = [answers EXCEPT ![ChatEnd] = Append(@, a)],
             a.request = job.request, job.request \in A!Known
      PROVE  /\ Len(answers'[ChatEnd]) = Len(answers[ChatEnd]) + 1
             /\ answers'[ChatEnd][Len(answers'[ChatEnd])].request = job.request
             /\ \A i \in 1..Len(answers[ChatEnd]) : answers'[ChatEnd][i] = answers[ChatEnd][i]
  <2>1. answers'[ChatEnd] = Append(answers[ChatEnd], a)
    BY <1>1, <1>2
  <2> QED
    BY <1>1, <1>2, <2>1, AppendProperties
<1> QED
  BY <1>2 DEF AnswersGrow

LEMMA AuthMovesStep ==
  ASSUME SystemInv, Auth!ServerStep \/ Auth!Crash \/ Auth!Start, AuthMoves
  PROVE  SystemInv'
<1>1. StopInv /\ A!AuthInv /\ A!NumbersInv /\ LinkInv /\ AskedInv /\ WaitInv /\ TypeOK
  BY DEF SystemInv, StopInv
<1>2. A!AuthInv' /\ A!NumbersInv'
  BY <1>1, SameStep, AuthAssumption, A!AuthStep, A!NumbersStep
<1>3. /\ aNsent' = aNsent /\ AnswersGrow
      /\ aPeer'[ChatEnd] = aPeer[ChatEnd] \/ (aPc = "down" /\ aPeer[ChatEnd] # "idle")
      /\ aPc = "down" => answers' = answers
  BY <1>1, AuthEffect
<1>4. /\ UNCHANGED <<peer, nsent, backlog, stream, sent, clients, connected, name, rooms, pc,
                     ready, scratch, result, log, wsaRefs, asked, verdicts>>
  BY DEF AuthMoves, clientVars, serverVars, tableVars, historyVars
<1>5. authLink' = authLink \/ (authLink = "up" /\ authLink' = "lost")
  BY DEF AuthMoves
<1>6. Linked' =>
        /\ Linked /\ (aPc' = "down" => aPeer[ChatEnd] = "idle")
        /\ toAuth' = OnWire'
        /\ fromAuth' = IF answers' = answers THEN fromAuth
             ELSE fromAuth \o [k \in 1..AnswerWidth |-> [of |-> asked[job.request.n], k |-> k]]
  BY <1>4 DEF AuthMoves, Linked, Running
<1>7. AskedInv'
  BY <1>1, <1>3, <1>4, <1>5 DEF AskedInv
<1>8. LinkInv'
  BY <1>1, <1>3, <1>6 DEF LinkInv
<1> DEFINE cells == [k \in 1..AnswerWidth |-> [of |-> asked[job.request.n], k |-> k]]
<1>9. job.request \in A!Known =>
        cells \in Seq([of : Nat, k : Nat]) /\ Len(cells) = AnswerWidth
  <2> SUFFICES ASSUME job.request \in A!Known
               PROVE  cells \in Seq([of : Nat, k : Nat]) /\ Len(cells) = AnswerWidth
    OBVIOUS
  <2>1. asked[job.request.n] \in Nat /\ AnswerWidth \in Nat
    BY <1>1, KnownAsked, ConstantsAssumption
  <2>2. cells \in [1..AnswerWidth -> [of : Nat, k : Nat]]
    BY <2>1
  <2> HIDE DEF cells
  <2> QED
    BY <2>1, <2>2, FunctionIsSeq
<1>10. authLink' = "up" =>
         \/ fromAuth' = fromAuth
         \/ fromAuth' = fromAuth \o cells /\ job.request \in A!Known /\ answers' # answers
  BY <1>3, <1>4 DEF AuthMoves, AnswersGrow
<1> HIDE DEF cells
<1>11. job.request \in A!Known =>
         /\ fromAuth \o cells \in Seq([of : Nat, k : Nat])
         /\ Len(fromAuth \o cells) = Len(fromAuth) + AnswerWidth
  <2>1. fromAuth \in Seq([of : Nat, k : Nat])
    BY <1>1 DEF TypeOK
  <2> QED
    BY <1>9, <2>1, ConcatProperties
<1>12. TypeOK'
  <2>1. OnWire' \in Seq(Int)
    <3>1. (A!AuthInv /\ A!NumbersInv /\ AskedInv => OnWire \in Seq(Int))'
      BY WireTyped, PTL
    <3> QED
      BY <1>2, <1>7, <3>1
  <2>2. toAuth' \in Seq(Int)
    <3>1. toAuth' \in {toAuth, << >>, OnWire'}
      BY DEF AuthMoves
    <3> QED
      BY <1>1, <2>1, <3>1, EmptySeq DEF TypeOK
  <2>3. fromAuth' \in Seq([of : Nat, k : Nat])
    <3>1. CASE authLink' = "up"
      BY <1>1, <1>10, <1>11, <3>1 DEF TypeOK
    <3>2. CASE authLink' # "up"
      <4>1. fromAuth' \in {fromAuth, << >>}
        BY <3>2 DEF AuthMoves
      <4> QED
        BY <1>1, <4>1, EmptySeq DEF TypeOK
    <3> QED
      BY <3>1, <3>2
  <2> QED
    BY <1>1, <1>4, <1>5, <2>2, <2>3 DEF TypeOK
<1>13. StopInv'
  BY <1>1, <1>4, <1>5, <1>12
     DEF StopInv, Waiting, Serving, CleanedUp, SendFailed, StopsOnlyForCause
<1>14. WaitInv'
  <2>1. Len(asked) \in Nat /\ Len(answers[ChatEnd]) \in Nat /\ Len(fromAuth) \in Nat
        /\ Due \in {0, 1} /\ Due' = Due /\ AnswerWidth \in Nat /\ asked' = asked
    BY <1>4, Lengths DEF Due
  <2>2. answers' = answers \/ Len(answers'[ChatEnd]) = Len(answers[ChatEnd]) + 1
    BY <1>3, GrowsByOne
  <2>3. ASSUME authLink' = "up" PROVE \E m \in Nat : Waited(m)'
    <3>1. PICK m \in Nat : Waited(m)
      BY <1>1, <1>5, <2>3 DEF WaitInv
    <3>2. CASE fromAuth' = fromAuth
      <4>1. Len(fromAuth') <= m * AnswerWidth
        BY <3>1, <3>2 DEF Waited
      <4>2. m + Len(asked') <= Len(answers'[ChatEnd]) + Due'
        BY <2>1, <2>2, <3>1 DEF Waited
      <4> QED
        BY <4>1, <4>2 DEF Waited
    <3>3. CASE fromAuth' = fromAuth \o cells /\ job.request \in A!Known /\ answers' # answers
      <4>1. Len(fromAuth') = Len(fromAuth) + AnswerWidth
        BY <1>11, <3>3
      <4>2. (m + 1) * AnswerWidth = m * AnswerWidth + AnswerWidth /\ m * AnswerWidth \in Nat
        BY <2>1
      <4>3. Len(answers'[ChatEnd]) = Len(answers[ChatEnd]) + 1
        BY <2>2, <3>3
      <4>4. Waited(m + 1)'
        <5>1. Len(fromAuth') <= (m + 1) * AnswerWidth
          BY <2>1, <3>1, <4>1, <4>2 DEF Waited
        <5>2. (m + 1) + Len(asked') <= Len(answers'[ChatEnd]) + Due'
          BY <2>1, <3>1, <4>3 DEF Waited
        <5> QED
          BY <5>1, <5>2 DEF Waited
      <4> QED
        BY <4>4
    <3> QED
      BY <1>10, <2>3, <3>2, <3>3
  <2>4. Len(asked') <= Len(answers'[ChatEnd]) + 1
    BY <1>1, <2>1, <2>2 DEF WaitInv
  <2> QED
    BY <2>3, <2>4 DEF WaitInv
<1> QED
  BY <1>2, <1>7, <1>8, <1>13, <1>14 DEF SystemInv

-----------------------------------------------------------------------------
(* Steps of the chat server *)

ChatStep == ServerStep \/ (\E s \in Socket : ClientStep(s)) \/ SelectTimeout

\* What such a step does to the connection of the two servers: a handler asks and begins
\* to wait, it takes what was received, or neither.
Asks ==
  /\ pc # "auth" /\ pc' = "auth"
  /\ \/ authLink = "up" /\ toAuth' = Append(toAuth, Len(log')) /\ Len(log') = Len(log) + 1
     \/ authLink # "up" /\ UNCHANGED toAuth
  /\ UNCHANGED fromAuth
Takes ==
  /\ pc = "auth" /\ pc' # "auth" /\ UNCHANGED toAuth
  /\ authLink = "up" => fromAuth # << >> /\ fromAuth' = Rest(fromAuth)
Neither == UNCHANGED <<toAuth, fromAuth>> /\ (pc' = "auth" <=> pc = "auth")

LogGrows ==
  \/ log' = log
  \/ \E e \in [by : Socket, p : Packet] : log' = Append(log, e) /\ pc # "auth"

\* An answer is sent only by the handler that receives one, and without the link a line
\* only by CREATE.
AnswerSent(s) == ReceiveAnswer(s) /\ authLink = "up"
LostSent(s) ==
  /\ pc = "auth" /\ Serving(s) /\ authLink' # "up" /\ log' = log
  /\ log[Len(log)].p.id = "CREATE"

LEMMA ChatRuns == ChatStep => Running
BY DEF ChatStep, ServerStep, Select, SelectFails, SelectTimeout, Register, AcceptFails,
       Disconnect, ReadPacket, ReadTail, ReadError, ReceiveAnswer, AnswerLost, AnswerAborts,
       ClientStep, Connect, SendName, Exit, Kill, ResetAfterClose, ClientSend, Running

LEMMA LinesNotAnswers ==
  ASSUME TypeOK, NEW n, SentGrows(n, RoomText), NEW x \in Socket
  PROVE  ~IsAnswered(x)
<1> SUFFICES ASSUME IsAnswered(x) PROVE FALSE
  OBVIOUS
<1> DEFINE L == LinesOf(n, RoomText)
<1>1. PICK q \in Seq(L) : sent'[x] = sent[x] \o q
  BY DEF SentGrows
<1>2. q \in Seq(LineType) /\ sent[x] \in Seq(LineType)
  <2>1. L \subseteq LineType
    BY DEF LinesOf
  <2> QED
    BY <1>1, <2>1, SeqMonotonic DEF TypeOK
<1>3. Len(sent[x]) \in Nat /\ Len(q) \in Nat /\ Len(sent'[x]) = Len(sent[x]) + Len(q)
      /\ \A i \in 1..(Len(sent[x]) + Len(q)) :
           sent'[x][i] = IF i <= Len(sent[x]) THEN sent[x][i] ELSE q[i - Len(sent[x])]
  BY <1>1, <1>2, ConcatProperties, LenProperties
<1>4. Len(q) \in 1..Len(q) /\ sent'[x][Len(sent'[x])] = q[Len(q)]
  BY <1>3 DEF IsAnswered
<1>5. q[Len(q)] \in L
  BY <1>1, <1>4, ElementOfSeq
<1> QED
  BY <1>4, <1>5 DEF IsAnswered, LinesOf, RoomText

LEMMA QuietNotAnswers ==
  ASSUME sent' = sent, TypeOK, NEW x \in Socket
  PROVE  ~IsAnswered(x)
BY LenProperties DEF IsAnswered, TypeOK

Effect ==
  /\ Asks \/ Takes \/ Neither
  /\ LogGrows
  /\ authLink' = "up" => authLink = "up"
  /\ \A x \in Socket : IsAnswered(x) /\ authLink = "up" => AnswerSent(x)
  /\ \A x \in Socket : IsAnswered(x) /\ authLink # "up" => LostSent(x)

LEMMA HandleAsks ==
  ASSUME TypeOK, pc # "auth", NEW s \in Socket, NEW p \in Packet, Handle(s, p), fromAuth' = fromAuth
  PROVE  Effect
<1>1. HandleEffect(s)
  BY HandleHasEffect
<1>2. LogGrows
  BY DEF Handle, LogGrows
<1>3. \A x \in Socket : ~IsAnswered(x)
  BY <1>1, LinesNotAnswers DEF HandleEffect
<1>4. Asks \/ Neither
  BY <1>1 DEF HandleEffect, Turn, Resume, CloseAuthSocket, Asks, Neither
<1>5. authLink' = "up" => authLink = "up"
  BY <1>1 DEF HandleEffect, Turn, CloseAuthSocket
<1> QED
  BY <1>2, <1>3, <1>4, <1>5 DEF Effect

LEMMA QuietEffect ==
  ASSUME TypeOK, UNCHANGED <<sent, log, toAuth, fromAuth, authLink>>, pc' = "auth" <=> pc = "auth"
  PROVE  Effect
BY QuietNotAnswers DEF Effect, LogGrows, Neither

LEMMA AnswerChanges ==
  ASSUME TypeOK, NEW s \in Socket, NEW request, SendAnswer(s, request), NEW x \in Socket,
         IsAnswered(x)
  PROVE  x = s
<1>1. sent' = [y \in Socket |->
                 IF Broken(y) THEN sent[y]
                 ELSE sent[y] \o
                      ((IF y = s THEN <<[n |-> Len(log), text |-> "answer", of |-> request]>>
                        ELSE << >>) \o [z \in Socket |-> << >>][y])]
  BY DEF SendAnswer, Tell, Transmit
<1>2. x # s => sent'[x] = sent[x]
  <2> SUFFICES ASSUME x # s PROVE sent'[x] = sent[x]
    OBVIOUS
  <2>1. sent[x] \in Seq(LineType) /\ << >> \in Seq(LineType)
    BY EmptySeq DEF TypeOK
  <2>2. sent'[x] = sent[x] \/ sent'[x] = sent[x] \o (<< >> \o << >>)
    BY <1>1
  <2> QED
    BY <2>1, <2>2, ConcatEmptySeq
<1> QED
  BY <1>2, LenProperties DEF IsAnswered, TypeOK

LEMMA ChatEffect ==
  ASSUME StopInv, ChatStep
  PROVE  Effect
<1>1. TypeOK
  BY DEF StopInv
<1>2. CASE Select \/ SelectTimeout \/ SelectFails
  BY <1>1, <1>2, QuietEffect DEF Select, SelectTimeout, SelectFails, authVars
<1>3. ASSUME NEW s \in Socket, Register(s) \/ AcceptFails(s) \/ Disconnect(s) PROVE Effect
  BY <1>1, <1>3, QuietEffect DEF Register, AcceptFails, Disconnect, Done, Resume, authVars
<1>4. ASSUME NEW s \in Socket, Reread(s), pc = "serve", fromAuth' = fromAuth PROVE Effect
  BY <1>1, <1>4, HandleAsks DEF Reread, TypeOK
<1>5. ASSUME NEW s \in Socket, Ignore(s), pc = "serve", fromAuth' = fromAuth PROVE Effect
  BY <1>1, <1>5, QuietEffect DEF Ignore, Done, Resume
<1>6. ASSUME NEW s \in Socket, ReadPacket(s) PROVE Effect
  <2>1. stream[s] \in Seq(Cell) /\ stream[s] # << >>
    BY <1>1, <1>6 DEF ReadPacket, TypeOK
  <2>2. Head(stream[s]) \in Cell
    BY <2>1, HeadTailProperties
  <2>3. Head(stream[s]).p \in Packet
    BY <2>2 DEF Cell
  <2> QED
    BY <1>1, <1>6, <2>3, HandleAsks DEF ReadPacket
<1>7. ASSUME NEW s \in Socket, ReadTail(s) \/ ReadError(s) PROVE Effect
  BY <1>4, <1>5, <1>7 DEF ReadTail, ReadError
<1>8. ASSUME NEW s \in Socket, ReceiveAnswer(s) PROVE Effect
  <2>1. Takes /\ LogGrows /\ authLink' = authLink
    BY <1>8 DEF ReceiveAnswer, Done, Resume, Takes, LogGrows
  <2>2. ASSUME NEW x \in Socket, IsAnswered(x) PROVE AnswerSent(x)
    <3>1. sent' = sent \/ \E request : SendAnswer(s, request)
      BY <1>8 DEF ReceiveAnswer, NoAnswer
    <3>2. x = s
      BY <1>1, <2>2, <3>1, AnswerChanges, QuietNotAnswers
    <3> QED
      BY <1>8, <3>2 DEF AnswerSent, ReceiveAnswer
  <2>3. authLink = "up"
    BY <1>8 DEF ReceiveAnswer
  <2> QED
    BY <2>1, <2>2, <2>3 DEF Effect
<1>9. ASSUME NEW s \in Socket, AnswerLost(s) PROVE Effect
  <2>1. Takes /\ LogGrows /\ authLink # "up" /\ authLink' # "up"
    BY <1>9 DEF AnswerLost, CloseAuthSocket, Done, Resume, Takes, LogGrows
  <2>2. ASSUME NEW x \in Socket, IsAnswered(x) PROVE LostSent(x)
    <3>1. sent' = sent \/ (log[Len(log)].p.id = "CREATE" /\ SendAnswer(s, 0))
      BY <1>9 DEF AnswerLost, NoAnswer
    <3>2. log[Len(log)].p.id = "CREATE" /\ x = s
      BY <1>1, <2>2, <3>1, AnswerChanges, QuietNotAnswers
    <3> QED
      BY <1>9, <2>1, <3>2 DEF LostSent, AnswerLost
  <2> QED
    BY <2>1, <2>2 DEF Effect
<1>10. ASSUME NEW s \in Socket, AnswerAborts(s) PROVE Effect
  <2>1. Takes /\ LogGrows /\ authLink' = authLink /\ sent' = sent
    BY <1>10 DEF AnswerAborts, NoAnswer, Takes, LogGrows
  <2> QED
    BY <1>1, <2>1, QuietNotAnswers DEF Effect
<1>11. ASSUME NEW s \in Socket, ClientStep(s) PROVE Effect
  BY <1>1, <1>11, ClientsReset, QuietEffect DEF serverVars, authVars
<1> QED
  BY <1>2, <1>3, <1>6, <1>7, <1>8, <1>9, <1>10, <1>11 DEF ChatStep, ServerStep

\* The bound on requests is not reached yet.
LEMMA SentBelowBound ==
  ASSUME SystemInv, Len(asked) < MaxRequests
  PROVE  Auth!Cardinality(Auth!Sent) < MaxRequests
<1>1. aNsent[ChatEnd] = Len(asked) /\ Len(asked) \in Nat /\ MaxRequests \in Nat
  BY Lengths, SystemAssumption DEF SystemInv, AskedInv
<1> DEFINE numbers == 1..MaxRequests
           all == {ChatEnd} \X numbers
<1>2. IsFiniteSet(numbers) /\ Cardinality(numbers) = MaxRequests
  BY <1>1, FS_Interval
<1>3. IsFiniteSet({ChatEnd}) /\ Cardinality({ChatEnd}) = 1
  BY FS_Singleton
<1>4. IsFiniteSet(all) /\ Cardinality(all) = MaxRequests
  <2> HIDE DEF numbers
  <2>1. IsFiniteSet(all) /\ Cardinality(all) = 1 * MaxRequests
    BY <1>2, <1>3, FS_Product
  <2> QED
    BY <1>1, <2>1
<1>5. Auth!Sent \in SUBSET all
  BY DEF Auth!Sent
<1>6. <<ChatEnd, MaxRequests>> \in all \ Auth!Sent
  <2>1. MaxRequests \in numbers
    BY <1>1
  <2> QED
    BY <1>1, <2>1 DEF Auth!Sent
<1> HIDE DEF all
<1>7. /\ Cardinality(Auth!Sent) <= Cardinality(all) /\ Cardinality(Auth!Sent) \in Nat
      /\ Cardinality(Auth!Sent) = Cardinality(all) => Auth!Sent = all
  BY <1>4, <1>5, FS_Subset, FS_CardinalityType
<1>8. Cardinality(Auth!Sent) < MaxRequests
  BY <1>1, <1>4, <1>6, <1>7
<1> QED
  BY <1>8, SameCardinality

\* A request of the chat server is one that the authentication server's module allows.
LEMMA ForwardIsSend ==
  ASSUME SystemInv, Started, Linked, pc # "auth", Forward
  PROVE  Auth!ClientStep(ChatEnd)
<1>1. PICK email \in Email, password \in Password :
        LET r == [id |-> IF log'[Len(log')].p.id = "CREATE" THEN "REGISTER" ELSE "LOGIN",
                  email |-> email, password |-> password,
                  from |-> ChatEnd, n |-> aNsent[ChatEnd] + 1]
        IN  aStream' = [aStream EXCEPT ![ChatEnd] =
                          @ \o [k \in 1..AuthWidth |-> [r |-> r, k |-> k]]]
  BY DEF Forward
<1> DEFINE r == [id |-> IF log'[Len(log')].p.id = "CREATE" THEN "REGISTER" ELSE "LOGIN",
                 email |-> email, password |-> password,
                 from |-> ChatEnd, n |-> aNsent[ChatEnd] + 1]
<1>2. /\ aNsent[ChatEnd] = Len(asked) /\ Len(asked) \in Nat /\ MaxRequests \in Nat
      /\ Len(asked) < MaxRequests
  BY Lengths, SystemAssumption DEF SystemInv, AskedInv, Forward
<1>3. r \in Auth!Request /\ r.from = ChatEnd /\ r.n = aNsent[ChatEnd] + 1
  BY <1>2 DEF Auth!Request
<1>4. aStream' = [aStream EXCEPT ![ChatEnd] = @ \o [k \in 1..AuthWidth |-> [r |-> r, k |-> k]]]
  BY <1>1
<1> HIDE DEF r
<1>5. aPeer[ChatEnd] = "open"
  BY DEF SystemInv, LinkInv, Started
<1>6. aNsent[ChatEnd] <= Len(answers[ChatEnd])
  <2>1. PICK m \in Nat : Waited(m)
    BY DEF SystemInv, WaitInv, Linked
  <2>2. Due = 0 /\ Len(answers[ChatEnd]) \in Nat
    BY Lengths DEF Due
  <2> QED
    BY <1>2, <2>1, <2>2 DEF Waited
<1>7. /\ aNsent' = [aNsent EXCEPT ![ChatEnd] = @ + 1]
      /\ UNCHANGED <<aPeer, aBacklog, Auth!serverVars>>
  BY DEF Forward, Auth!serverVars, Auth!tableVars, Auth!dbVars, Auth!faultVars
<1>8. Auth!Cardinality(Auth!Sent) < MaxRequests
  BY <1>2, SentBelowBound
<1>9. Auth!SendRequest(ChatEnd, r)
  BY <1>3, <1>4, <1>5, <1>6, <1>7, <1>8 DEF Auth!SendRequest
<1> QED
  BY <1>3, <1>9 DEF Auth!ClientStep

\* What it sends is what its handler has put on the connection.
LEMMA ForwardsWhatItAsks ==
  ASSUME SystemInv, ChatStep, ChatMoves
  PROVE  /\ Effect
         /\ \/ Asks /\ authLink = "up" /\ Forward /\ Len(log') = Len(log) + 1
            \/ Asks /\ authLink # "up" /\ UNCHANGED <<authServerVars, asked>>
            \/ ~Asks /\ UNCHANGED <<authServerVars, asked>>
<1>1. Effect
  BY ChatEffect DEF SystemInv
<1>2. toAuth \in Seq(Int)
  BY DEF SystemInv, StopInv, TypeOK
<1>3. toAuth' = Append(toAuth, Len(log')) => toAuth' # toAuth
  BY <1>2, Lengths, LenProperties
<1>4. IF toAuth' # toAuth THEN Forward ELSE UNCHANGED <<authServerVars, asked>>
  BY DEF ChatMoves
<1>5. ~Asks => toAuth' = toAuth
  BY <1>1 DEF Effect, Takes, Neither
<1> QED
  BY <1>1, <1>3, <1>4, <1>5 DEF Asks

LEMMA ChatMovesStep ==
  ASSUME SystemInv, AnswerWidth <= BufLen, ChatStep, ChatMoves
  PROVE  SystemInv' /\ [Auth!Next]_Auth!vars /\ [A!Next]_A!vars
<1>1. StopInv /\ A!AuthInv /\ A!NumbersInv /\ LinkInv /\ AskedInv /\ WaitInv /\ TypeOK
  BY DEF SystemInv, StopInv
<1>2. /\ Effect
      /\ \/ Asks /\ authLink = "up" /\ Forward /\ Len(log') = Len(log) + 1
         \/ Asks /\ authLink # "up" /\ UNCHANGED <<authServerVars, asked>>
         \/ ~Asks /\ UNCHANGED <<authServerVars, asked>>
  BY ForwardsWhatItAsks
<1>3. [Auth!Next]_Auth!vars /\ [A!Next]_A!vars
  <2>1. CASE UNCHANGED authServerVars
    <3>1. UNCHANGED Auth!vars
      BY <2>1 DEF authServerVars, Auth!vars, Auth!peerVars, Auth!tableVars, Auth!dbVars,
                  Auth!faultVars
    <3> QED
      BY <3>1, SameStep
  <2>2. CASE Asks /\ authLink = "up" /\ Forward
    <3>1. Auth!ClientStep(ChatEnd)
      BY <2>2, ChatRuns, ForwardIsSend DEF ChatMoves, Asks, Linked
    <3> QED
      BY <3>1, SameStep
  <2> QED
    BY <1>2, <2>1, <2>2
<1>4. A!AuthInv' /\ A!NumbersInv'
  BY <1>1, <1>3, AuthAssumption, A!AuthStep, A!NumbersStep
<1>5. StopInv'
  <2>1. Next
    BY DEF ChatStep, Next
  <2> QED
    BY <1>1, <2>1, StopStep
<1>6. LinkInv'
  <2>1. UNCHANGED <<aPeer, aPc>>
    BY <1>2 DEF Forward, authServerVars
  <2> QED
    BY <1>1, <1>2, <2>1, ChatRuns DEF LinkInv, Linked, Effect
<1>7. Len(log) \in Nat /\ Len(log') \in Nat /\ Len(log) <= Len(log') /\ (log' = log \/ pc # "auth")
  <2>1. log \in Seq([by : Socket, p : Packet])
    BY <1>1 DEF TypeOK
  <2> QED
    BY <1>2, <2>1, AppendProperties, LenProperties DEF Effect, LogGrows
<1>8. Len(asked) \in Nat /\ asked \in Seq(Nat) /\ answers' = answers
  BY <1>1, <1>2, LenProperties DEF AskedInv, Forward, authServerVars
<1>9. CASE Asks /\ authLink = "up" /\ Forward /\ Len(log') = Len(log) + 1
  <2>1. /\ asked' \in Seq(Nat) /\ Len(asked') = Len(asked) + 1 /\ asked'[Len(asked) + 1] = Len(log')
        /\ \A i \in 1..Len(asked) : asked'[i] = asked[i]
    <3>1. asked' = Append(asked, Len(log'))
      BY <1>9 DEF Forward
    <3> QED
      BY <1>7, <1>8, <3>1, AppendProperties
  <2>2. aNsent'[ChatEnd] = aNsent[ChatEnd] + 1
    BY <1>9, Lengths DEF Forward
  <2>3. AskedInv'
    <3>1. \A i \in 1..Len(asked') : asked'[i] \in 1..Len(log')
      <4> SUFFICES ASSUME NEW i \in 1..Len(asked') PROVE asked'[i] \in 1..Len(log')
        OBVIOUS
      <4>1. CASE i \in 1..Len(asked)
        <5>1. asked[i] \in 1..Len(log) /\ asked'[i] = asked[i]
          BY <1>1, <2>1, <4>1 DEF AskedInv
        <5> QED
          BY <1>7, <5>1
      <4>2. CASE i = Len(asked) + 1
        BY <1>7, <1>9, <2>1, <4>2
      <4> QED
        BY <1>8, <2>1, <4>1, <4>2
    <3>2. asked' # << >>
      BY <1>8, <2>1, EmptySeq
    <3> QED
      BY <1>1, <2>1, <2>2, <3>1, <3>2 DEF AskedInv
  <2>4. WaitInv'
    <3>1. PICK m \in Nat : Waited(m)
      BY <1>1, <1>9 DEF WaitInv
    <3>2. Due = 0 /\ Due' = 1 /\ fromAuth' = fromAuth
      BY <1>9 DEF Asks, Due
    <3>3. Len(answers[ChatEnd]) \in Nat
      BY Lengths
    <3>4. Waited(m)'
      BY <1>8, <2>1, <3>1, <3>2, <3>3 DEF Waited
    <3>5. Len(asked') <= Len(answers'[ChatEnd]) + 1
      BY <1>8, <2>1, <3>1, <3>2, <3>3 DEF Waited
    <3> QED
      BY <3>4, <3>5 DEF WaitInv
  <2> QED
    BY <1>3, <1>4, <1>5, <1>6, <2>3, <2>4 DEF SystemInv
<1>10. CASE UNCHANGED <<authServerVars, asked>> /\ (Asks => authLink # "up")
  <2>1. AskedInv'
    <3>1. \A i \in 1..Len(asked) : asked[i] \in 1..Len(log')
      BY <1>1, <1>7 DEF AskedInv
    <3>2. authLink' = "up" /\ pc' = "auth" => authLink = "up" /\ pc = "auth" /\ log' = log
      BY <1>2, <1>7, <1>10 DEF Effect, Asks, Takes, Neither
    <3> QED
      BY <1>1, <1>10, <3>1, <3>2 DEF AskedInv, authServerVars
  <2>2. ASSUME authLink' = "up" PROVE \E m \in Nat : Waited(m)'
    <3>1. authLink = "up"
      BY <1>2, <2>2 DEF Effect
    <3>2. PICK m \in Nat : Waited(m)
      BY <1>1, <3>1 DEF WaitInv
    <3>3. CASE Neither
      BY <1>8, <1>10, <3>2, <3>3 DEF Neither, Waited, Due
    <3>4. CASE Takes
      <4>1. fromAuth # << >> /\ fromAuth' = SubSeq(fromAuth, BufLen + 1, Len(fromAuth))
            /\ Due = 1 /\ Due' = 0
        BY <3>1, <3>4 DEF Takes, Rest, Due
      <4>2. fromAuth \in Seq([of : Nat, k : Nat]) /\ Len(fromAuth) \in Nat \ {0}
        BY <1>1, <4>1, EmptySeq, LenProperties DEF TypeOK
      <4>3. Len(fromAuth') \in Nat /\ (Len(fromAuth') = 0 \/ Len(fromAuth') = Len(fromAuth) - BufLen)
        BY <4>1, <4>2, SubSeqProperties, ElementOfSeq, ConstantsAssumption
      <4>4. AnswerWidth \in Nat \ {0} /\ BufLen \in Nat \ {0} /\ Len(answers[ChatEnd]) \in Nat
        BY Lengths, ConstantsAssumption
      <4>5. m # 0
        BY <3>2, <4>2, <4>4 DEF Waited
      <4>6. m - 1 \in Nat /\ (m - 1) * AnswerWidth = m * AnswerWidth - AnswerWidth
            /\ (m - 1) * AnswerWidth \in Nat /\ m * AnswerWidth \in Nat
        BY <4>4, <4>5
      <4>7. Len(fromAuth') <= (m - 1) * AnswerWidth
        BY <3>2, <4>2, <4>3, <4>4, <4>6 DEF Waited
      <4>8. (m - 1) + Len(asked') <= Len(answers'[ChatEnd]) + Due'
        BY <1>8, <1>10, <3>2, <4>1, <4>4 DEF Waited
      <4> QED
        BY <4>6, <4>7, <4>8 DEF Waited
    <3> QED
      BY <1>2, <1>10, <3>1, <3>3, <3>4 DEF Effect
  <2>3. WaitInv'
    BY <1>1, <1>8, <1>10, <2>2 DEF WaitInv
  <2> QED
    BY <1>3, <1>4, <1>5, <1>6, <2>1, <2>3 DEF SystemInv
<1> QED
  BY <1>2, <1>3, <1>9, <1>10

-----------------------------------------------------------------------------
(* The chat server implements the authentication server's environment *)

\* The other steps: the chat server starts, or nothing happens.
LEMMA OtherStep ==
  ASSUME SystemInv, UNCHANGED <<vars, historyVars>>,
         StartChatServer \/ Auth!SelectTimeout \/ UNCHANGED authServerVars
  PROVE  SystemInv' /\ [Auth!Next]_Auth!vars /\ [A!Next]_A!vars
<1>1. StopInv /\ A!AuthInv /\ A!NumbersInv /\ LinkInv /\ AskedInv /\ WaitInv
  BY DEF SystemInv
<1>2. [Auth!Next]_Auth!vars /\ [A!Next]_A!vars
  <2>1. UNCHANGED authServerVars => UNCHANGED Auth!vars
    BY DEF authServerVars, Auth!vars, Auth!peerVars, Auth!tableVars, Auth!dbVars, Auth!faultVars
  <2> QED
    BY <2>1, SameStep DEF StartChatServer, Auth!ClientStep
<1>3. A!AuthInv' /\ A!NumbersInv'
  BY <1>1, <1>2, AuthAssumption, A!AuthStep, A!NumbersStep
<1>4. StopInv'
  BY <1>1, StopStep
<1>5. /\ UNCHANGED <<pc, log, fromAuth, authLink, asked, aNsent, answers, aPc>>
      /\ \/ aPeer' = aPeer
         \/ aPc # "down" /\ aPeer' = [aPeer EXCEPT ![ChatEnd] = "dialed"]
         \/ aPeer[ChatEnd] = "dialed" /\ aPeer' = [aPeer EXCEPT ![ChatEnd] = "open"]
  <2>1. UNCHANGED <<pc, log, fromAuth, authLink, asked>>
    BY DEF vars, authVars, historyVars
  <2>2. CASE UNCHANGED authServerVars
    BY <2>1, <2>2 DEF authServerVars
  <2>3. CASE Auth!SelectTimeout
    BY <2>1, <2>3 DEF Auth!SelectTimeout, Auth!vars, Auth!peerVars
  <2>4. CASE StartChatServer
    BY <2>1, <2>4 DEF StartChatServer, Auth!Connect, Auth!SendName, Auth!serverVars
  <2> QED
    BY <2>2, <2>3, <2>4
<1>6. LinkInv'
  BY <1>1, <1>5, Lengths DEF LinkInv, Linked, Running
<1>7. AskedInv' /\ WaitInv'
  BY <1>1, <1>5 DEF AskedInv, WaitInv, Waited, Due
<1> QED
  BY <1>2, <1>3, <1>4, <1>6, <1>7 DEF SystemInv

LEMMA SystemStep ==
  ASSUME AnswerWidth <= BufLen
  PROVE  SystemInv /\ [SystemNext]_systemVars
           => SystemInv' /\ [Auth!Next]_Auth!vars /\ [A!Next]_A!vars
<1> SUFFICES ASSUME SystemInv, [SystemNext]_systemVars
             PROVE  SystemInv' /\ [Auth!Next]_Auth!vars /\ [A!Next]_A!vars
  OBVIOUS
<1>1. CASE ChatServerStep \/ UsersStep
  BY <1>1, ChatMovesStep DEF ChatServerStep, UsersStep, ChatStep
<1>2. CASE AuthServerStep \/ AuthServerFails
  <2>1. (Auth!ServerStep \/ Auth!Crash \/ Auth!Start) /\ AuthMoves
    BY <1>2 DEF AuthServerStep, AuthServerFails
  <2> QED
    BY <2>1, AuthMovesStep, SameStep
<1>3. CASE /\ UNCHANGED <<vars, historyVars>>
           /\ StartChatServer \/ Auth!SelectTimeout \/ UNCHANGED authServerVars
  BY <1>3, OtherStep
<1>4. StartChatServer => UNCHANGED <<vars, historyVars>>
  BY DEF StartChatServer
<1>5. Stopped => UNCHANGED vars
  BY DEF Stopped
<1>6. UNCHANGED systemVars => UNCHANGED <<vars, historyVars>> /\ UNCHANGED authServerVars
  BY DEF systemVars
<1> QED
  BY <1>1, <1>2, <1>3, <1>4, <1>5, <1>6 DEF SystemNext

\* If an answer fits in one recv(), the chat server is the client that the authentication
\* server's module assumes: it sends its name and then one request after the other, the
\* next one only when the one before was answered.  So whatever is proved of that module
\* holds of the two servers together.
THEOREM ChatServerIsItsClient ==
  ASSUME AnswerWidth <= BufLen
  PROVE  SystemSpec => ImplementsAuthServer
<1>1. SystemInit => SystemInv
  BY SystemInitially
<1>2. SystemInv /\ [SystemNext]_systemVars => SystemInv' /\ [Auth!Next]_Auth!vars
  BY SystemStep
<1>3. SystemInit => Auth!Init
  BY DEF SystemInit
<1> QED
  BY <1>1, <1>2, <1>3, PTL DEF SystemSpec, ImplementsAuthServer, Auth!Spec

-----------------------------------------------------------------------------
(* Clients are told the truth *)

\* If no request was answered twice, the answers are those of the requests in their order.
OrderInv ==
  AnsweredOnce => \A i \in 1..Len(answers[ChatEnd]) : answers[ChatEnd][i].request.n = i

\* What a client was told is an answer, and to a request of its own.
ToldIn(given, requests, lines, s, v) ==
  /\ \E j \in 1..Len(given) : v = given[j]
  /\ lines[requests[v.request.n]].by = s
ToldOf(s, v) == ToldIn(answers[ChatEnd], asked, log, s, v)
VerdictInv ==
  AnsweredOnce =>
    /\ verdicts \in [Socket -> Seq(Answer)]
    /\ \A s \in Socket : \A i \in 1..Len(verdicts[s]) : ToldOf(s, verdicts[s][i])

\* What a client was told without the link
UnfoundedInv ==
  \A s \in Socket : \A n \in unfounded[s] :
    n \in 1..Len(log) /\ authLink # "up" /\ log[n].by = s /\ log[n].p.id = "CREATE"

TruthInv == OrderInv /\ VerdictInv /\ UnfoundedInv /\ A!TruthInv

LEMMA TruthInitially ==
  ASSUME "dbfail" \notin AuthFaults
  PROVE  SystemInit => TruthInv
<1> SUFFICES ASSUME SystemInit PROVE TruthInv
  OBVIOUS
<1>1. A!TruthInv
  <2>1. A!Init /\ A!Orderly
    BY SameInit DEF SystemInit, A!Orderly
  <2> QED
    BY <2>1, AuthAssumption, A!TruthInit
<1>2. Len(answers[ChatEnd]) = 0
  BY DEF SystemInit, Auth!Init
<1>3. verdicts = [s \in Socket |-> << >>]
  BY DEF SystemInit
<1>4. verdicts \in [Socket -> Seq(Answer)] /\ \A s \in Socket : Len(verdicts[s]) = 0
  BY <1>3, EmptySeq
<1>5. UnfoundedInv
  BY DEF SystemInit, UnfoundedInv
<1> QED
  BY <1>1, <1>2, <1>4, <1>5 DEF TruthInv, OrderInv, VerdictInv

\* Answers that are the same were the same before.
LEMMA OnceBefore ==
  ASSUME SystemInv, AnswersGrow
  PROVE  AnsweredOnce' => AnsweredOnce
<1> SUFFICES ASSUME AnsweredOnce',
                    NEW i \in DOMAIN answers[ChatEnd], NEW j \in DOMAIN answers[ChatEnd], i # j
             PROVE  answers[ChatEnd][i].request # answers[ChatEnd][j].request
  BY DEF AnsweredOnce
<1>1. answers[ChatEnd] \in Seq(Answer) /\ DOMAIN answers[ChatEnd] = 1..Len(answers[ChatEnd])
      /\ Len(answers[ChatEnd]) \in Nat
  BY Lengths, LenProperties
<1>2. CASE answers' = answers
  BY <1>2 DEF AnsweredOnce
<1>3. ASSUME NEW a \in Answer, answers' = [answers EXCEPT ![ChatEnd] = Append(@, a)]
      PROVE  answers[ChatEnd][i].request # answers[ChatEnd][j].request
  <2>1. answers'[ChatEnd] = Append(answers[ChatEnd], a)
    BY <1>3, Lengths
  <2>2. /\ DOMAIN answers'[ChatEnd] = 1..(Len(answers[ChatEnd]) + 1)
        /\ \A k \in 1..Len(answers[ChatEnd]) : answers'[ChatEnd][k] = answers[ChatEnd][k]
    BY <1>1, <2>1, AppendProperties
  <2>3. /\ i \in DOMAIN answers'[ChatEnd] /\ answers'[ChatEnd][i] = answers[ChatEnd][i]
        /\ j \in DOMAIN answers'[ChatEnd] /\ answers'[ChatEnd][j] = answers[ChatEnd][j]
    BY <1>1, <2>2
  <2> QED
    BY <2>3 DEF AnsweredOnce
<1> QED
  BY <1>2, <1>3 DEF AnswersGrow

LEMMA AnswersKnown ==
  ASSUME SystemInv, NEW i \in 1..Len(answers[ChatEnd])
  PROVE  /\ answers[ChatEnd][i] \in Answer
         /\ answers[ChatEnd][i].request \in A!Known
         /\ answers[ChatEnd][i].request.from = ChatEnd
<1>1. answers[ChatEnd] \in Seq(Answer)
  BY Lengths
<1>2. answers[ChatEnd][i] \in Answer
  BY <1>1, ElementOfSeq
<1> QED
  BY <1>2 DEF Answer, A!Known, A!Told, A!Request

\* The request that is answered next is the only one that was not: a request with a
\* smaller number has been answered.
LEMMA OrderStep ==
  ASSUME SystemInv, OrderInv, AnswersGrow
  PROVE  OrderInv'
<1> DEFINE old == answers[ChatEnd]
           new == answers'[ChatEnd]
<1> SUFFICES ASSUME AnsweredOnce', NEW i \in 1..Len(new) PROVE new[i].request.n = i
  BY DEF OrderInv
<1>1. AnsweredOnce /\ \A k \in 1..Len(old) : old[k].request.n = k
  BY OnceBefore DEF OrderInv
<1>2. CASE answers' = answers
  BY <1>1, <1>2
<1>3. CASE /\ Len(new) = Len(old) + 1 /\ new[Len(new)].request = job.request
           /\ job.request \in A!Known /\ \A k \in 1..Len(old) : new[k] = old[k]
  <2>1. Len(old) \in Nat /\ Len(asked) \in Nat /\ Len(asked) <= Len(old) + 1
    BY Lengths DEF SystemInv, WaitInv
  <2>2. job.request.n \in 1..Len(asked) /\ job.request \in A!Request
    BY <1>3, KnownAsked DEF SystemInv
  <2>3. job.request.n \notin 1..Len(old)
    <3> DEFINE k == job.request.n
    <3> SUFFICES ASSUME k \in 1..Len(old) PROVE FALSE
      OBVIOUS
    <3>1. old[k].request.n = k /\ old[k].request \in A!Known /\ old[k].request.from = ChatEnd
      BY <1>1, AnswersKnown
    <3>2. job.request.from = ChatEnd
      BY <2>2 DEF A!Request
    <3>3. old[k].request = job.request
      BY <1>3, <3>1, <3>2 DEF SystemInv, A!NumbersInv
    <3>4. DOMAIN new = 1..Len(new)
      <4>1. new \in Seq(Answer)
        <5>1. new = old \/ \E a \in Answer : new = Append(old, a)
          BY Lengths DEF AnswersGrow
        <5>2. old \in Seq(Answer)
          BY Lengths
        <5> HIDE DEF new, old
        <5> QED
          BY <5>1, <5>2, AppendProperties
      <4> QED
        BY <4>1, LenProperties
    <3>5. k \in DOMAIN new /\ Len(new) \in DOMAIN new /\ k # Len(new)
      BY <1>3, <2>1, <3>4
    <3>6. new[k].request = new[Len(new)].request
      BY <1>3, <3>3
    <3> QED
      BY <3>5, <3>6 DEF AnsweredOnce
  <2>4. job.request.n = Len(old) + 1
    BY <2>1, <2>2, <2>3
  <2>5. i \in 1..Len(old) \/ i = Len(new)
    BY <1>3, <2>1
  <2> QED
    BY <1>1, <1>3, <2>4, <2>5
<1> QED
  BY <1>2, <1>3, GrowsByOne

\* What was told stays told as long as log, requests and answers only grow.
LEMMA ToldKept ==
  ASSUME SystemInv, NEW s, NEW v, ToldOf(s, v),
         Len(answers[ChatEnd]) <= Len(answers'[ChatEnd]), Len(answers'[ChatEnd]) \in Nat,
         \A i \in 1..Len(answers[ChatEnd]) : answers'[ChatEnd][i] = answers[ChatEnd][i],
         \A i \in 1..Len(asked) : asked'[i] = asked[i],
         \A i \in 1..Len(log) : log'[i] = log[i]
  PROVE  ToldIn(answers'[ChatEnd], asked', log', s, v)
<1>1. PICK j \in 1..Len(answers[ChatEnd]) : v = answers[ChatEnd][j]
  BY DEF ToldOf, ToldIn
<1>2. j \in 1..Len(answers'[ChatEnd]) /\ v = answers'[ChatEnd][j]
  BY <1>1, Lengths
<1>3. v.request \in A!Known
  BY <1>1, AnswersKnown
<1>4. v.request.n \in 1..Len(asked) /\ asked[v.request.n] \in 1..Len(log)
  BY <1>3, KnownAsked DEF SystemInv
<1>5. log'[asked'[v.request.n]] = log[asked[v.request.n]]
  BY <1>4
<1> QED
  BY <1>2, <1>5 DEF ToldOf, ToldIn

LEMMA VerdictsKept ==
  ASSUME SystemInv, OrderInv, VerdictInv, AnswersGrow, UNCHANGED <<verdicts, asked, log>>
  PROVE  VerdictInv'
<1> SUFFICES ASSUME AnsweredOnce'
             PROVE  /\ verdicts \in [Socket -> Seq(Answer)]
                    /\ \A s \in Socket : \A i \in 1..Len(verdicts[s]) :
                         ToldIn(answers'[ChatEnd], asked', log', s, verdicts[s][i])
  BY DEF VerdictInv, ToldOf
<1>1. AnsweredOnce
  BY OnceBefore
<1>2. /\ Len(answers[ChatEnd]) <= Len(answers'[ChatEnd]) /\ Len(answers'[ChatEnd]) \in Nat
      /\ \A i \in 1..Len(answers[ChatEnd]) : answers'[ChatEnd][i] = answers[ChatEnd][i]
  BY GrowsByOne, Lengths
<1> QED
  BY <1>1, <1>2, ToldKept DEF VerdictInv

\* If no request was answered twice, the handler that receives an answer receives the
\* last one, which is that to its request.
LEMMA AnswerReceived ==
  ASSUME SystemInv, OrderInv, AnsweredOnce, NEW s \in Socket, AnswerSent(s)
  PROVE  ToldOf(s, NextAnswer) /\ NextAnswer \in Answer
<1> DEFINE given == Len(answers[ChatEnd])
<1>1. /\ pc = "auth" /\ authLink = "up" /\ fromAuth # << >> /\ Serving(s)
  BY DEF AnswerSent, ReceiveAnswer
<1>2. /\ given \in Nat /\ Len(asked) \in Nat /\ Len(fromAuth) \in Nat \ {0} /\ Len(log) \in Nat
      /\ AnswerWidth \in Nat \ {0} /\ Due = 1
  <2>1. Len(fromAuth) # 0
    BY <1>1, EmptySeq DEF SystemInv, StopInv, TypeOK
  <2> QED
    BY <1>1, <2>1, Lengths DEF Due
<1>3. asked # << >> /\ asked[Len(asked)] = Len(log) /\ asked \in Seq(Nat)
  BY <1>1 DEF SystemInv, AskedInv
<1>4. Len(asked) \in 1..Len(asked) /\ Len(log) \in 1..Len(log)
  <2>1. Len(asked) # 0
    BY <1>3, EmptySeq
  <2>2. Len(asked) \in 1..Len(asked)
    BY <1>2, <2>1
  <2> QED
    BY <1>3, <2>2 DEF SystemInv, AskedInv
<1>5. given <= Len(asked)
  <2> SUFFICES ASSUME given # 0 PROVE given <= Len(asked)
    BY <1>2
  <2>1. given \in 1..given
    BY <1>2
  <2>2. answers[ChatEnd][given].request.n = given /\ answers[ChatEnd][given].request \in A!Known
    BY <2>1, AnswersKnown DEF OrderInv
  <2>3. answers[ChatEnd][given].request.n \in 1..Len(asked)
    BY <2>2, KnownAsked DEF SystemInv
  <2> QED
    BY <1>2, <2>2, <2>3
<1>6. PICK m \in Nat : Waited(m)
  BY <1>1 DEF SystemInv, WaitInv
<1>7. m <= 1
  BY <1>2, <1>5, <1>6 DEF Waited
<1>8. m # 0
  BY <1>2, <1>6 DEF Waited
<1>9. m = 1
  BY <1>7, <1>8
<1>10. Len(fromAuth) \in 1..AnswerWidth /\ given = Len(asked)
  BY <1>2, <1>5, <1>6, <1>9 DEF Waited
<1>11. Unread = 1
  <2> DEFINE n == Len(fromAuth)
  <2>1. n \in 1..AnswerWidth
    BY <1>10
  <2> HIDE DEF n
  <2>2. (n + AnswerWidth - 1) \div AnswerWidth = 1
    BY <1>2, <2>1
  <2> QED
    BY <2>2 DEF Unread, n
<1>12. NextAnswer = answers[ChatEnd][given] /\ given \in 1..given
  BY <1>2, <1>4, <1>10, <1>11 DEF NextAnswer
<1>13. NextAnswer.request.n = Len(asked) /\ NextAnswer \in Answer
  BY <1>10, <1>12, AnswersKnown DEF OrderInv
<1>14. log[Len(log)].by = s
  <2>1. Serving(log[Len(log)].by)
    BY <1>1 DEF SystemInv, StopInv, Waiting
  <2>2. TypeOK /\ log[Len(log)] \in [by : Socket, p : Packet]
    BY <1>4, ElementOfSeq DEF SystemInv, StopInv, TypeOK
  <2> QED
    BY <1>1, <2>1, <2>2, ServingUnique
<1> QED
  BY <1>3, <1>12, <1>13, <1>14 DEF ToldOf, ToldIn

LEMMA VerdictsStep ==
  ASSUME SystemInv, OrderInv, VerdictInv, ChatStep, ChatMoves
  PROVE  OrderInv' /\ VerdictInv'
<1>1. /\ Effect
      /\ \/ Asks /\ authLink = "up" /\ Forward /\ Len(log') = Len(log) + 1
         \/ Asks /\ authLink # "up" /\ UNCHANGED <<authServerVars, asked>>
         \/ ~Asks /\ UNCHANGED <<authServerVars, asked>>
  BY ForwardsWhatItAsks
<1>2. answers' = answers /\ AnswersGrow
  BY <1>1 DEF Forward, authServerVars, AnswersGrow
<1>3. OrderInv'
  BY <1>2, OrderStep
<1>4. /\ \A i \in 1..Len(asked) : asked'[i] = asked[i]
      /\ \A i \in 1..Len(log) : log'[i] = log[i]
  <2>1. asked \in Seq(Nat) /\ log \in Seq([by : Socket, p : Packet]) /\ Len(log) \in Nat
    BY Lengths DEF SystemInv, AskedInv, StopInv, TypeOK
  <2>2. asked' = asked \/ (Len(log') \in Nat /\ asked' = Append(asked, Len(log')))
    BY <1>1, <2>1 DEF Forward
  <2>3. log' = log \/ \E e \in [by : Socket, p : Packet] : log' = Append(log, e)
    BY <1>1 DEF Effect, LogGrows
  <2> QED
    BY <2>1, <2>2, <2>3, AppendProperties
<1>5. ASSUME NEW s, NEW v, ToldOf(s, v)
      PROVE  ToldIn(answers'[ChatEnd], asked', log', s, v)
  <2>1. Len(answers[ChatEnd]) \in Nat
    BY Lengths
  <2> QED
    BY <1>2, <1>4, <1>5, <2>1, ToldKept
<1> SUFFICES ASSUME AnsweredOnce'
             PROVE  /\ verdicts' \in [Socket -> Seq(Answer)]
                    /\ \A s \in Socket : \A i \in 1..Len(verdicts'[s]) :
                         ToldIn(answers'[ChatEnd], asked', log', s, verdicts'[s][i])
  BY <1>3 DEF VerdictInv, ToldOf
<1>6. AnsweredOnce
  BY <1>2, OnceBefore
<1>7. /\ verdicts \in [Socket -> Seq(Answer)]
      /\ \A s \in Socket : \A i \in 1..Len(verdicts[s]) : ToldOf(s, verdicts[s][i])
  BY <1>6 DEF VerdictInv
<1>8. verdicts' = [s \in Socket |-> IF IsAnswered(s) /\ authLink = "up"
                                    THEN Append(verdicts[s], NextAnswer) ELSE verdicts[s]]
  BY DEF ChatMoves
<1>9. ASSUME NEW s \in Socket
      PROVE  /\ verdicts'[s] \in Seq(Answer)
             /\ \A i \in 1..Len(verdicts'[s]) :
                  ToldIn(answers'[ChatEnd], asked', log', s, verdicts'[s][i])
  <2>1. CASE verdicts'[s] = verdicts[s]
    BY <1>5, <1>7, <2>1
  <2>2. CASE IsAnswered(s) /\ authLink = "up" /\ verdicts'[s] = Append(verdicts[s], NextAnswer)
    <3>1. ToldOf(s, NextAnswer) /\ NextAnswer \in Answer
      BY <1>1, <1>6, <2>2, AnswerReceived DEF Effect
    <3> DEFINE v == NextAnswer
               told == verdicts[s]
    <3>2. v \in Answer /\ told \in Seq(Answer) /\ verdicts'[s] = Append(told, v)
      BY <1>7, <2>2, <3>1
    <3>3. /\ ToldIn(answers'[ChatEnd], asked', log', s, v)
          /\ \A i \in 1..Len(told) : ToldIn(answers'[ChatEnd], asked', log', s, told[i])
      BY <1>5, <1>7, <3>1
    <3> HIDE DEF v, told
    <3>4. /\ verdicts'[s] \in Seq(Answer) /\ Len(verdicts'[s]) = Len(told) + 1 /\ Len(told) \in Nat
          /\ verdicts'[s][Len(told) + 1] = v /\ \A i \in 1..Len(told) : verdicts'[s][i] = told[i]
      BY <3>2, AppendProperties, LenProperties
    <3>5. ASSUME NEW i \in 1..Len(verdicts'[s]) 
          PROVE  ToldIn(answers'[ChatEnd], asked', log', s, verdicts'[s][i])
      <4>1. i \in 1..Len(told) \/ i = Len(told) + 1
        BY <3>4
      <4> QED
        BY <3>3, <3>4, <4>1
    <3> QED
      BY <3>4, <3>5
  <2> QED
    BY <1>8, <2>1, <2>2
<1> QED
  BY <1>8, <1>9

\* A line without an answer behind it is about the request that is handled.
LEMMA UnfoundedStep ==
  ASSUME SystemInv, UnfoundedInv, ChatStep, ChatMoves
  PROVE  UnfoundedInv'
<1>1. Effect
  BY ForwardsWhatItAsks
<1>2. /\ log \in Seq([by : Socket, p : Packet]) /\ Len(log) \in Nat
      /\ log' = log \/ \E e \in [by : Socket, p : Packet] : log' = Append(log, e)
  BY <1>1, Lengths DEF SystemInv, StopInv, TypeOK, Effect, LogGrows
<1>3. \A n \in 1..Len(log) : n \in 1..Len(log') /\ log'[n] = log[n]
  BY <1>2, AppendProperties
<1>4. SUFFICES ASSUME NEW s \in Socket, NEW n \in unfounded'[s]
               PROVE  /\ n \in 1..Len(log') /\ authLink' # "up"
                      /\ log'[n].by = s /\ log'[n].p.id = "CREATE"
  BY DEF UnfoundedInv
<1>5. CASE n \in unfounded[s]
  BY <1>1, <1>3, <1>5 DEF UnfoundedInv, Effect
<1>6. CASE IsAnswered(s) /\ authLink # "up" /\ n = Len(log)
  <2>1. LostSent(s)
    BY <1>1, <1>6 DEF Effect
  <2>2. Len(log) # 0
    BY <2>1 DEF LostSent, SystemInv, StopInv, Waiting
  <2>3. n \in 1..Len(log)
    BY <1>2, <1>6, <2>2
  <2>4. log[n].by \in Socket /\ Serving(log[n].by)
    <3>1. log[n] \in [by : Socket, p : Packet]
      BY <1>2, <2>3, ElementOfSeq
    <3> QED
      BY <1>6, <2>1, <3>1 DEF LostSent, SystemInv, StopInv, Waiting
  <2>5. log[n].by = s
    BY <2>1, <2>4, ServingUnique DEF LostSent, SystemInv, StopInv
  <2> QED
    BY <1>3, <1>6, <2>1, <2>3, <2>5 DEF LostSent
<1>7. unfounded'[s] = unfounded[s] \/ (IsAnswered(s) /\ authLink # "up"
                                       /\ unfounded'[s] = unfounded[s] \cup {Len(log)})
  BY DEF ChatMoves
<1> QED
  BY <1>4, <1>5, <1>6, <1>7

LEMMA UnfoundedKept ==
  ASSUME UnfoundedInv, UNCHANGED <<unfounded, log>>, authLink' = "up" => authLink = "up"
  PROVE  UnfoundedInv'
BY DEF UnfoundedInv

LEMMA SystemTruthStep ==
  ASSUME AnswerWidth <= BufLen, "dbfail" \notin AuthFaults
  PROVE  SystemInv /\ TruthInv /\ [SystemNext]_systemVars => TruthInv'
<1> SUFFICES ASSUME SystemInv, TruthInv, [SystemNext]_systemVars PROVE TruthInv'
  OBVIOUS
<1>1. OrderInv /\ VerdictInv /\ UnfoundedInv /\ A!TruthInv
  BY DEF TruthInv
<1>2. A!TruthInv'
  <2>1. A!Orderly
    BY DEF A!Orderly
  <2>2. A!AuthInv /\ A!NumbersInv
    BY DEF SystemInv
  <2>3. [A!Next]_A!vars
    BY SystemStep
  <2> QED
    BY <1>1, <2>1, <2>2, <2>3, AuthAssumption, A!TruthStep
<1>3. ASSUME AnswersGrow, UNCHANGED <<verdicts, unfounded, asked, log>>,
             authLink' = "up" => authLink = "up"
      PROVE  OrderInv' /\ VerdictInv' /\ UnfoundedInv'
  BY <1>1, <1>3, OrderStep, VerdictsKept, UnfoundedKept
<1>4. CASE ChatServerStep \/ UsersStep
  <2>1. OrderInv' /\ VerdictInv' /\ UnfoundedInv'
    BY <1>1, <1>4, VerdictsStep, UnfoundedStep DEF ChatServerStep, UsersStep, ChatStep
  <2> QED
    BY <1>2, <2>1 DEF TruthInv
<1>5. CASE AuthServerStep \/ AuthServerFails
  <2>1. (Auth!ServerStep \/ Auth!Crash \/ Auth!Start) /\ AuthMoves
    BY <1>5 DEF AuthServerStep, AuthServerFails
  <2>2. AnswersGrow
    BY <2>1, AuthEffect DEF SystemInv
  <2>3. UNCHANGED <<verdicts, unfounded, asked, log>>
    BY <2>1 DEF AuthMoves, serverVars, historyVars
  <2>4. authLink' = "up" => authLink = "up"
    BY <2>1 DEF AuthMoves
  <2>5. OrderInv' /\ VerdictInv' /\ UnfoundedInv'
    BY <1>3, <2>2, <2>3, <2>4
  <2> QED
    BY <1>2, <2>5 DEF TruthInv
<1>6. CASE /\ UNCHANGED <<vars, historyVars>>
           /\ StartChatServer \/ Auth!SelectTimeout \/ UNCHANGED authServerVars
  <2>1. answers' = answers
    BY <1>6 DEF StartChatServer, Auth!Connect, Auth!SendName, Auth!SelectTimeout, authServerVars,
                Auth!vars, Auth!serverVars, Auth!peerVars
  <2>2. UNCHANGED <<verdicts, unfounded, asked, log, authLink>>
    BY <1>6 DEF vars, serverVars, authVars, historyVars
  <2>3. OrderInv' /\ VerdictInv' /\ UnfoundedInv'
    BY <1>3, <2>1, <2>2 DEF AnswersGrow
  <2> QED
    BY <1>2, <2>3 DEF TruthInv
<1>7. StartChatServer => UNCHANGED <<vars, historyVars>>
  BY DEF StartChatServer
<1>8. Stopped => UNCHANGED vars
  BY DEF Stopped
<1>9. UNCHANGED systemVars => UNCHANGED <<vars, historyVars>> /\ UNCHANGED authServerVars
  BY DEF systemVars
<1> QED
  BY <1>4, <1>5, <1>6, <1>7, <1>8, <1>9 DEF SystemNext

\* A verdict is an answer to a request of the same client, and the answers are true.
LEMMA TruthIsTold ==
  SystemInv /\ TruthInv => ToldTheTruth
<1>0. TruthInv => OnlyFalseLine
  BY DEF TruthInv, UnfoundedInv, OnlyFalseLine
<1> SUFFICES ASSUME SystemInv, TruthInv, AnsweredOnce, NEW s \in Socket, NEW i \in DOMAIN verdicts[s]
             PROVE  LET v == verdicts[s][i]
                        row == webAuth[v.request.email]
                        Mine == row # NoAccount /\ row.by = v.request
                    IN  /\ log[asked[v.request.n]].by = s
                        /\ v.request.id = "REGISTER" => (v.outcome = "ok" <=> Mine)
                        /\ v.request.id = "LOGIN" /\ v.request.email \notin OddEmail /\ v.outcome = "ok" =>
                             row # NoAccount /\ row.by.password = v.request.password
  BY <1>0 DEF ToldTheTruth, FoundedTruth
<1> DEFINE v == verdicts[s][i]
<1>1. verdicts[s] \in Seq(Answer) /\ \A k \in 1..Len(verdicts[s]) : ToldOf(s, verdicts[s][k])
  BY DEF TruthInv, VerdictInv
<1>2. i \in 1..Len(verdicts[s])
  BY <1>1, LenProperties
<1>3. ToldOf(s, v)
  BY <1>1, <1>2
<1>4. PICK j \in 1..Len(answers[ChatEnd]) : v = answers[ChatEnd][j]
  BY <1>3 DEF ToldOf, ToldIn
<1>5. log[asked[v.request.n]].by = s
  BY <1>3 DEF ToldOf, ToldIn
<1>6. A!AnswerTrue(ChatEnd, j)
  BY <1>4 DEF TruthInv, A!TruthInv, A!AnswersTrue
<1>7. /\ v.outcome = "ok" /\ v.request.id = "LOGIN" /\ v.request.email \notin OddEmail =>
           A!Matches(v.request)
      /\ v.outcome = "ok" /\ v.request.id = "REGISTER" => A!MadeBy(v.request)
  BY <1>4, <1>6 DEF A!AnswerTrue, A!Plain
<1>8. ASSUME v.outcome # "ok", v.request.id = "REGISTER" PROVE ~A!MadeBy(v.request)
  <2> SUFFICES ASSUME A!MadeBy(v.request) PROVE FALSE
    OBVIOUS
  <2>1. PICK k \in 1..Len(answers[ChatEnd]) :
          k # j /\ answers[ChatEnd][k].request = v.request
    BY <1>4, <1>6, <1>8 DEF A!AnswerTrue
  <2>2. DOMAIN answers[ChatEnd] = 1..Len(answers[ChatEnd])
    BY Lengths, LenProperties
  <2> QED
    BY <1>4, <2>1, <2>2 DEF AnsweredOnce
<1> QED
  BY <1>5, <1>7, <1>8 DEF A!Matches, A!MadeBy

\* As long as no statement of the database fails, a client is told the truth.  Unless some
\* request was answered twice, each answer it was sent is one to a request of its own: a
\* registration is confirmed if and only if the account is the one it made, and a login
\* with an address that is plain text to SQL only if the account is there with this
\* password.  What is sent to a client with no answer behind it, the link being lost, is
\* only ever the confirmation of an account, in reply to its own request for one.
THEOREM ClientsAreToldTheTruth ==
  ASSUME AnswerWidth <= BufLen, "dbfail" \notin AuthFaults
  PROVE  SystemSpec => []ToldTheTruth
<1>1. SystemInit => SystemInv /\ TruthInv
  BY SystemInitially, TruthInitially
<1>2. SystemInv /\ TruthInv /\ [SystemNext]_systemVars => SystemInv' /\ TruthInv'
  BY SystemStep, SystemTruthStep
<1>3. SystemInv /\ TruthInv => ToldTheTruth
  BY TruthIsTold
<1> QED
  BY <1>1, <1>2, <1>3, PTL DEF SystemSpec

-----------------------------------------------------------------------------
(* The stream of requests *)

\* The cells of a stream are those of consecutive requests, in their order, up to the end
\* of the latest request that was sent, request number latest.
InOrder(q) ==
  \A i, j \in 1..Len(q) : i < j =>
    \/ q[i].r.n < q[j].r.n
    \/ q[i].r = q[j].r /\ q[j].k - q[i].k = j - i
UpToCell(c, n, k) == c.r.n < n \/ (c.r.n = n /\ c.k <= k)
Complete(q, latest) ==
  \A i \in 1..Len(q) : \A n \in 1..latest, k \in 1..AuthWidth :
    UpToCell(q[i], n, k) => \E j \in 1..Len(q) : q[j].r.n = n /\ q[j].k = k
InSequence(q, latest) ==
  /\ q \in Seq(A!Cell)
  /\ \A i \in 1..Len(q) : q[i].r.n <= latest
  /\ InOrder(q) /\ Complete(q, latest)

\* The first of its requests that is still whole, and the cells of one that is not
FirstWhole(q, latest) ==
  IF q = << >> THEN latest + 1 ELSE IF q[1].k = 1 THEN q[1].r.n ELSE q[1].r.n + 1
Inside(q) == q # << >> /\ q[1].k # 1

LEMMA CellFacts ==
  ASSUME NEW q \in Seq(A!Cell)
  PROVE  /\ Len(q) \in Nat /\ DOMAIN q = 1..Len(q) /\ AuthWidth \in Nat \ {0}
         /\ q # << >> <=> Len(q) >= 1
         /\ \A i \in 1..Len(q) : /\ q[i] \in A!Cell /\ q[i].r \in A!Request
                                 /\ q[i].r.n \in Nat \ {0} /\ q[i].k \in 1..AuthWidth
<1>1. Len(q) \in Nat /\ DOMAIN q = 1..Len(q) /\ \A i \in 1..Len(q) : q[i] \in A!Cell
  BY LenProperties, ElementOfSeq
<1>2. q # << >> <=> Len(q) >= 1
  BY <1>1, EmptySeq
<1>3. \A c \in A!Cell : c.r \in A!Request /\ c.k \in 1..AuthWidth
  BY DEF A!Cell
<1>4. \A r \in A!Request : r.n \in Nat \ {0}
  BY SystemAssumption DEF A!Request
<1> QED
  BY <1>1, <1>2, <1>3, <1>4, SystemAssumption

LEMMA CompleteAt ==
  ASSUME NEW latest, NEW q, Complete(q, latest), NEW i \in 1..Len(q), NEW n \in 1..latest,
         NEW k \in 1..AuthWidth, UpToCell(q[i], n, k)
  PROVE  \E j \in 1..Len(q) : q[j].r.n = n /\ q[j].k = k
BY DEF Complete

LEMMA FirstWholeBounds ==
  ASSUME NEW latest \in Nat, NEW q, InSequence(q, latest)
  PROVE  FirstWhole(q, latest) \in 1..(latest + 1)
<1>1. q \in Seq(A!Cell) /\ \A i \in 1..Len(q) : q[i].r.n <= latest
  BY DEF InSequence
<1>2. CASE q = << >>
  BY <1>2 DEF FirstWhole
<1>3. CASE q # << >>
  <2>1. 1 \in 1..Len(q)
    BY <1>1, <1>3, CellFacts
  <2>2. q[1].r.n \in 1..latest
    BY <1>1, <2>1, CellFacts
  <2> QED
    BY <1>3, <2>2 DEF FirstWhole
<1> QED
  BY <1>2, <1>3

\* A set of indices that are numbered a, ..., b has b - a + 1 elements.
Numbers(h, S, a, b) ==
  /\ h \in [S -> a..b]
  /\ \A i, j \in S : h[i] = h[j] => i = j
  /\ \A c \in a..b : \E i \in S : h[i] = c

LEMMA NumberedSet ==
  ASSUME NEW m \in Nat, NEW S, S \subseteq 1..m, NEW a \in Int, NEW b \in Int,
         NEW h, Numbers(h, S, a, b)
  PROVE  Cardinality(S) = IF a > b THEN 0 ELSE b - a + 1
<1>1. IsFiniteSet(S)
  BY IndicesFinite
<1>2. h \in Bijection(S, a..b)
  BY DEF Numbers, Bijection, Injection, Surjection, IsInjective
<1>3. ExistsBijection(S, a..b)
  BY <1>2 DEF ExistsBijection
<1>4. Cardinality(a..b) = Cardinality(S)
  BY <1>1, <1>3, FS_Bijection
<1> QED
  BY <1>4, FS_Interval

\* The whole requests of a stream are numbered one after the other.
LEMMA HeadsNumbered ==
  ASSUME NEW latest \in Nat, NEW q, InSequence(q, latest),
         NEW heads, heads = {i \in 1..Len(q) : q[i].k = 1}
  PROVE  /\ Cardinality(heads) = latest - FirstWhole(q, latest) + 1
         /\ \A i \in heads : Cardinality(UpTo(heads, i)) = q[i].r.n - FirstWhole(q, latest) + 1
<1> DEFINE f == FirstWhole(q, latest)
<1>1. /\ q \in Seq(A!Cell) /\ InOrder(q) /\ Complete(q, latest)
      /\ \A i \in 1..Len(q) : q[i].r.n <= latest
  BY DEF InSequence
<1>2. /\ Len(q) \in Nat /\ AuthWidth \in Nat \ {0}
      /\ \A i \in 1..Len(q) : q[i].r.n \in Nat /\ q[i].k \in 1..AuthWidth
  BY <1>1, CellFacts
<1>3. f \in 1..(latest + 1)
  BY FirstWholeBounds
<1>4. \A i \in heads : i \in 1..Len(q) /\ q[i].k = 1
  OBVIOUS
<1>5. \A i \in heads : q[i].r.n \in f..latest
  <2> SUFFICES ASSUME NEW i \in heads PROVE q[i].r.n >= f
    BY <1>1, <1>2, <1>3, <1>4
  <2>1. q # << >> /\ 1 \in 1..Len(q)
    BY <1>1, <1>2, <1>4, CellFacts
  <2>2. CASE i = 1
    BY <1>2, <1>4, <2>1, <2>2 DEF FirstWhole
  <2>3. CASE i # 1
    <3>1. q[1].r.n < q[i].r.n \/ (q[1].r.n = q[i].r.n /\ q[i].k - q[1].k = i - 1)
      <4>1. 1 < i /\ i \in 1..Len(q)
        BY <1>2, <1>4, <2>3
      <4> QED
        BY <1>1, <2>1, <4>1 DEF InOrder
    <3>2. q[1].r.n < q[i].r.n
      BY <1>2, <1>4, <2>1, <2>3, <3>1
    <3> QED
      BY <1>2, <1>4, <2>1, <3>2 DEF FirstWhole
  <2> QED
    BY <2>2, <2>3
<1>6. \A i, j \in heads : i < j => q[i].r.n < q[j].r.n
  <2> SUFFICES ASSUME NEW i \in heads, NEW j \in heads, i < j PROVE q[i].r.n < q[j].r.n
    OBVIOUS
  <2>1. q[i].r.n < q[j].r.n \/ (q[i].r.n = q[j].r.n /\ q[j].k - q[i].k = j - i)
    BY <1>1, <1>4 DEF InOrder
  <2> QED
    BY <1>2, <1>4, <2>1
<1>7. \A n \in f..latest : \E i \in heads : q[i].r.n = n
  <2> SUFFICES ASSUME NEW n \in f..latest PROVE \E i \in heads : q[i].r.n = n
    OBVIOUS
  <2>1. q # << >> /\ 1 \in 1..Len(q)
    <3>1. q # << >>
      BY <1>3 DEF FirstWhole
    <3> QED
      BY <1>1, <3>1, CellFacts
  <2>2. UpToCell(q[1], n, 1)
    BY <1>2, <2>1 DEF FirstWhole, UpToCell
  <2>3. n \in 1..latest /\ 1 \in 1..AuthWidth
    BY <1>2, <1>3
  <2>4. \E j \in 1..Len(q) : q[j].r.n = n /\ q[j].k = 1
    BY <1>1, <2>1, <2>2, <2>3, CompleteAt
  <2> QED
    BY <2>4
<1> HIDE DEF f
<1>8. Cardinality(heads) = IF f > latest THEN 0 ELSE latest - f + 1
  <2> DEFINE h == [i \in heads |-> q[i].r.n]
  <2>1. h \in [heads -> f..latest] /\ \A i \in heads : h[i] = q[i].r.n
    BY <1>5
  <2> HIDE DEF h
  <2>2. \A i, j \in heads : h[i] = h[j] => i = j
    BY <1>2, <1>4, <1>6, <2>1
  <2>3. \A c \in f..latest : \E i \in heads : h[i] = c
    BY <1>7, <2>1
  <2>4. heads \subseteq 1..Len(q)
    BY <1>4
  <2>5. Len(q) \in Nat /\ f \in Int /\ latest \in Int
    BY <1>2, <1>3
  <2>6. Numbers(h, heads, f, latest)
    BY <2>1, <2>2, <2>3 DEF Numbers
  <2> QED
    BY <2>4, <2>5, <2>6, NumberedSet
<1>9. ASSUME NEW i \in heads PROVE Cardinality(UpTo(heads, i)) = q[i].r.n - f + 1
  <2> DEFINE S == UpTo(heads, i)
             b == q[i].r.n
             h == [j \in S |-> q[j].r.n]
  <2>1. b \in f..latest /\ i \in 1..Len(q)
    BY <1>4, <1>5
  <2>2. \A j \in S : j \in heads /\ j <= i
    BY DEF UpTo
  <2>3. \A j \in S : q[j].r.n \in f..b
    <3> SUFFICES ASSUME NEW j \in S PROVE q[j].r.n \in f..b
      OBVIOUS
    <3>1. j = i \/ j < i
      BY <1>2, <1>4, <2>1, <2>2
    <3>2. q[j].r.n <= b
      BY <1>2, <1>4, <1>6, <2>2, <3>1
    <3> QED
      BY <1>3, <1>5, <2>1, <2>2, <3>2
  <2>4. h \in [S -> f..b] /\ \A j \in S : h[j] = q[j].r.n
    BY <2>3
  <2>5. \A c \in f..b : \E j \in S : h[j] = c
    <3> SUFFICES ASSUME NEW c \in f..b PROVE \E j \in S : q[j].r.n = c
      BY <2>4
    <3>1. PICK j \in heads : q[j].r.n = c
      BY <1>3, <1>7, <2>1
    <3>2. j <= i
      BY <1>2, <1>4, <1>6, <2>1, <3>1
    <3> QED
      BY <3>1, <3>2 DEF UpTo
  <2>6. S \subseteq 1..Len(q)
    BY <1>4, <2>2
  <2> HIDE DEF S, b, h
  <2>7. \A j, k \in S : h[j] = h[k] => j = k
    BY <1>2, <1>4, <1>6, <2>2, <2>4
  <2>8. Cardinality(S) = IF f > b THEN 0 ELSE b - f + 1
    <3>1. Len(q) \in Nat /\ f \in Int /\ b \in Int
      BY <1>2, <1>3, <2>1
    <3>2. Numbers(h, S, f, b)
      BY <2>4, <2>5, <2>7 DEF Numbers
    <3> QED
      BY <2>6, <3>1, <3>2, NumberedSet
  <2> QED
    BY <1>3, <2>1, <2>8 DEF S, b
<1> QED
  BY <1>3, <1>8, <1>9 DEF f

\* They are the last of those that were asked.
LEMMA WholeNumbers ==
  ASSUME NEW asks \in Seq(Nat), NEW q, InSequence(q, Len(asks)),
         NEW whole, whole = Pick(q, {i \in DOMAIN q : q[i].k = 1})
  PROVE  [i \in DOMAIN whole |-> asks[whole[i].r.n]]
           = SubSeq(asks, FirstWhole(q, Len(asks)), Len(asks))
<1> DEFINE latest == Len(asks)
           f == FirstWhole(q, latest)
           heads == {i \in 1..Len(q) : q[i].k = 1}
           count == Cardinality(heads)
           numbers == [i \in DOMAIN whole |-> asks[whole[i].r.n]]
<1>1. latest \in Nat /\ \A i \in 1..latest : asks[i] \in Nat
  BY LenProperties, ElementOfSeq
<1>2. q \in Seq(A!Cell)
  BY DEF InSequence
<1>3. Len(q) \in Nat /\ DOMAIN q = 1..Len(q) /\ \A i \in 1..Len(q) : q[i].r.n \in Nat
  BY <1>2, CellFacts
<1>4. whole = [j \in 1..count |-> q[Nth(heads, j)]]
  BY <1>3 DEF Pick
<1> HIDE DEF heads
<1>5. f \in 1..(latest + 1) /\ count = latest - f + 1
      /\ \A i \in heads : Cardinality(UpTo(heads, i)) = q[i].r.n - f + 1
  BY <1>1, FirstWholeBounds, HeadsNumbered DEF heads
<1>6. count \in Nat
  BY <1>1, <1>5
<1>7. \A j \in 1..count : whole[j].r.n = f + j - 1
  <2> SUFFICES ASSUME NEW j \in 1..count PROVE whole[j].r.n = f + j - 1
    OBVIOUS
  <2>1. heads \subseteq 1..Len(q)
    BY DEF heads
  <2>2. Nth(heads, j) \in heads /\ Cardinality(UpTo(heads, Nth(heads, j))) = j
    BY <1>3, <2>1, NthExists
  <2>3. whole[j] = q[Nth(heads, j)]
    BY <1>4
  <2> DEFINE i == Nth(heads, j)
  <2>4. i \in heads /\ Cardinality(UpTo(heads, i)) = j /\ whole[j] = q[i]
    BY <2>2, <2>3
  <2> HIDE DEF i, f
  <2>5. f \in Nat /\ q[i].r.n \in Nat /\ q[i].r.n - f + 1 = j
    BY <1>1, <1>3, <1>5, <2>1, <2>4
  <2> QED
    BY <1>6, <2>4, <2>5
<1>8. DOMAIN whole = 1..count
  BY <1>4
<1> HIDE DEF latest, f, count
<1>9. numbers \in [1..count -> Nat] /\ \A j \in 1..count : numbers[j] = asks[f + j - 1]
  <2>1. \A j \in 1..count : f + j - 1 \in 1..latest
    BY <1>1, <1>5, <1>6
  <2> QED
    BY <1>1, <1>7, <1>8, <2>1
<1> HIDE DEF numbers
<1>10. numbers \in Seq(Nat) /\ Len(numbers) = count
  BY <1>6, <1>9, FunctionIsSeq
<1>11. /\ SubSeq(asks, f, latest) \in Seq(Nat)
       /\ Len(SubSeq(asks, f, latest)) = count
       /\ \A i \in 1..count : SubSeq(asks, f, latest)[i] = asks[f + i - 1]
  <2>1. f \in Int /\ latest \in Int /\ \A i \in f..latest : asks[i] \in Nat
    BY <1>1, <1>5
  <2>2. count = latest - f + 1 /\ (f > latest => count = 0)
    BY <1>1, <1>5, <1>6
  <2>3. /\ SubSeq(asks, f, latest) \in Seq(Nat)
        /\ Len(SubSeq(asks, f, latest)) = IF f <= latest THEN latest - f + 1 ELSE 0
        /\ \A i \in 1..(latest - f + 1) : SubSeq(asks, f, latest)[i] = asks[f + i - 1]
    BY <2>1, SubSeqProperties
  <2> QED
    BY <1>1, <1>5, <2>2, <2>3
<1>12. numbers = SubSeq(asks, f, latest)
  BY <1>9, <1>10, <1>11, SeqEqual
<1> QED
  BY <1>12 DEF numbers, f, latest

\* What is left when b cells are taken from its front
After(q, b) == SubSeq(q, b + 1, Len(q))

LEMMA RestInSequence ==
  ASSUME NEW latest \in Nat, NEW q, InSequence(q, latest), NEW b \in Nat
  PROVE  /\ InSequence(After(q, b), latest)
         /\ FirstWhole(q, latest) <= FirstWhole(After(q, b), latest)
         /\ Len(After(q, b)) = IF b < Len(q) THEN Len(q) - b ELSE 0
         /\ \A i \in 1..Len(After(q, b)) : b + i \in 1..Len(q) /\ After(q, b)[i] = q[b + i]
         /\ After(q, b) # << >> =>
              /\ q # << >> /\ q[1].r.n <= After(q, b)[1].r.n
              /\ q[1].r.n = After(q, b)[1].r.n => q[1].r = After(q, b)[1].r
<1> DEFINE rest == After(q, b)
<1> HIDE DEF rest
<1>1. /\ q \in Seq(A!Cell) /\ InOrder(q) /\ Complete(q, latest)
      /\ \A i \in 1..Len(q) : q[i].r.n <= latest
  BY DEF InSequence
<1>2. /\ Len(q) \in Nat /\ AuthWidth \in Nat
      /\ \A i \in 1..Len(q) : q[i].r.n \in Nat /\ q[i].k \in 1..AuthWidth
  BY <1>1, CellFacts
<1>3. /\ rest \in Seq(A!Cell) /\ Len(rest) \in Nat
      /\ Len(rest) = IF b < Len(q) THEN Len(q) - b ELSE 0
      /\ \A i \in 1..Len(rest) : rest[i] = q[b + i]
  <2>1. /\ SubSeq(q, b + 1, Len(q)) \in Seq(A!Cell)
        /\ Len(SubSeq(q, b + 1, Len(q))) = IF b + 1 <= Len(q) THEN Len(q) - (b + 1) + 1 ELSE 0
        /\ \A i \in 1..Len(q) - (b + 1) + 1 : SubSeq(q, b + 1, Len(q))[i] = q[(b + 1) + i - 1]
    <3>1. b + 1 \in Int /\ Len(q) \in Int /\ \A i \in (b + 1)..Len(q) : q[i] \in A!Cell
      BY <1>1, <1>2, CellFacts
    <3> QED
      BY <3>1, SubSeqProperties
  <2>2. /\ rest \in Seq(A!Cell) /\ Len(rest) \in Nat
        /\ Len(rest) = IF b < Len(q) THEN Len(q) - b ELSE 0
    BY <1>2, <2>1, LenProperties DEF rest, After
  <2>3. \A i \in 1..Len(rest) : i \in 1..(Len(q) - (b + 1) + 1) /\ (b + 1) + i - 1 = b + i
    BY <1>2, <2>2
  <2> QED
    BY <2>1, <2>2, <2>3 DEF rest, After
<1>4. \A i \in 1..Len(rest) : b + i \in 1..Len(q) /\ rest[i] = q[b + i]
  BY <1>2, <1>3
<1>5. \A i \in 1..Len(rest) : i \in Nat /\ b + i \in Nat
  OBVIOUS
<1>6. InOrder(rest)
  <2> SUFFICES ASSUME NEW i \in 1..Len(rest), NEW j \in 1..Len(rest), i < j
               PROVE  \/ rest[i].r.n < rest[j].r.n
                      \/ rest[i].r = rest[j].r /\ rest[j].k - rest[i].k = j - i
    BY DEF InOrder
  <2>1. b + i < b + j /\ (b + j) - (b + i) = j - i
    OBVIOUS
  <2>2. \/ q[b + i].r.n < q[b + j].r.n
        \/ q[b + i].r = q[b + j].r /\ q[b + j].k - q[b + i].k = (b + j) - (b + i)
    BY <1>1, <1>4, <2>1 DEF InOrder
  <2> QED
    BY <1>4, <2>1, <2>2
<1>7. Complete(rest, latest)
  <2> SUFFICES ASSUME NEW i \in 1..Len(rest), NEW n \in 1..latest, NEW k \in 1..AuthWidth,
                      UpToCell(rest[i], n, k)
               PROVE  \E j \in 1..Len(rest) : rest[j].r.n = n /\ rest[j].k = k
    BY DEF Complete
  <2>5. /\ b + i \in 1..Len(q)
        /\ UpToCell(q[b + i], n, k)
    BY <1>4
  <2>1. PICK j \in 1..Len(q) : q[j].r.n = n /\ q[j].k = k
    <3> DEFINE d == b + i
    <3>1. d \in 1..Len(q) /\ UpToCell(q[d], n, k)
      BY <2>5
    <3> HIDE DEF d
    <3> QED
      BY <1>1, <3>1, CompleteAt
  <2>2. j >= b + i
    <3> SUFFICES ASSUME j < b + i PROVE FALSE
      BY <1>4
    <3>1. \/ q[j].r.n < q[b + i].r.n
          \/ q[j].r.n = q[b + i].r.n /\ q[b + i].k - q[j].k = (b + i) - j
      BY <1>1, <1>4 DEF InOrder
    <3> QED
      BY <1>2, <2>5, <2>1, <3>1 DEF UpToCell
  <2>3. j - b \in 1..Len(rest) /\ b + (j - b) = j
    BY <1>2, <1>3, <2>2
  <2>4. rest[j - b] = q[j]
    BY <1>4, <2>3
  <2> QED
    BY <2>1, <2>3, <2>4
<1>8. InSequence(rest, latest)
  BY <1>1, <1>3, <1>4, <1>6, <1>7 DEF InSequence
<1>9. rest # << >> <=> Len(rest) >= 1
  BY <1>3, CellFacts
<1>10. rest # << >> => q # << >> /\ 1 \in 1..Len(q) /\ 1 \in 1..Len(rest)
                       /\ b + 1 \in 1..Len(q) /\ rest[1] = q[b + 1]
  <2>1. rest # << >> => 1 \in 1..Len(rest)
    BY <1>3, <1>9
  <2>2. 1 \in 1..Len(rest) => b + 1 \in 1..Len(q) /\ rest[1] = q[b + 1]
    BY <1>4
  <2>3. b + 1 \in 1..Len(q) => 1 \in 1..Len(q) /\ q # << >>
    BY <1>1, <1>2, CellFacts
  <2> QED
    BY <2>1, <2>2, <2>3
<1>11. rest # << >> /\ b # 0 =>
         q[1].r.n < q[b + 1].r.n \/ (q[1].r = q[b + 1].r /\ q[b + 1].k - q[1].k = b)
  <2> SUFFICES ASSUME rest # << >>, b # 0
               PROVE  q[1].r.n < q[b + 1].r.n
                        \/ (q[1].r = q[b + 1].r /\ q[b + 1].k - q[1].k = b)
    OBVIOUS
  <2>1. 1 < b + 1 /\ (b + 1) - 1 = b
    OBVIOUS
  <2>2. \/ q[1].r.n < q[b + 1].r.n
        \/ q[1].r = q[b + 1].r /\ q[b + 1].k - q[1].k = (b + 1) - 1
    BY <1>1, <1>10, <2>1 DEF InOrder
  <2> QED
    BY <2>1, <2>2
<1>12. rest # << >> =>
         q[1].r.n <= rest[1].r.n /\ (q[1].r.n = rest[1].r.n => q[1].r = rest[1].r)
  <2>1. CASE b = 0
    <3>1. b + 1 = 1
      BY <2>1
    <3>2. rest # << >> => rest[1] = q[1] /\ q[1].r.n \in Nat
      BY <1>2, <1>10, <3>1
    <3> QED
      BY <3>2
  <2>2. CASE b # 0
    BY <1>2, <1>10, <1>11, <2>2
  <2> QED
    BY <2>1, <2>2
<1>13. FirstWhole(q, latest) <= FirstWhole(rest, latest)
  <2>1. CASE rest = << >>
    BY <2>1, FirstWholeBounds DEF FirstWhole
  <2>2. CASE rest # << >>
    <3>1. q[1].r.n = rest[1].r.n => q[1].k <= rest[1].k
      BY <1>2, <1>10, <1>11, <2>2
    <3>2. q[1].r.n \in Nat /\ rest[1].r.n \in Nat /\ q[1].k \in Nat /\ rest[1].k \in Nat
          /\ q[1].k >= 1 /\ rest[1].k >= 1
      BY <1>2, <1>10, <2>2
    <3> QED
      BY <1>10, <1>12, <2>2, <3>1, <3>2 DEF FirstWhole
  <2> QED
    BY <2>1, <2>2
<1> QED
  BY <1>3, <1>4, <1>8, <1>10, <1>12, <1>13 DEF rest

\* When recv() returns the front of a whole request and the request is longer than that,
\* the rest of it is now in front; if it is the last one and not longer, nothing is left.
LEMMA AfterHead ==
  ASSUME NEW latest \in Nat, NEW q, InSequence(q, latest), NEW b \in Nat \ {0},
         q # << >>, q[1].k = 1
  PROVE  /\ b < AuthWidth =>
              /\ After(q, b) # << >> /\ After(q, b)[1].k = b + 1
              /\ After(q, b)[1].r = q[1].r
              /\ FirstWhole(After(q, b), latest) = q[1].r.n + 1
         /\ AuthWidth <= b /\ q[1].r.n = latest => After(q, b) = << >>
         /\ FirstWhole(q, latest) = q[1].r.n /\ FirstWhole(After(q, b), latest) > q[1].r.n
<1> DEFINE rest == After(q, b)
<1> HIDE DEF rest
<1>1. /\ InSequence(rest, latest) /\ rest \in Seq(A!Cell)
      /\ Len(rest) = IF b < Len(q) THEN Len(q) - b ELSE 0
      /\ \A i \in 1..Len(rest) : b + i \in 1..Len(q) /\ rest[i] = q[b + i]
  BY RestInSequence DEF rest, InSequence
<1>2. /\ q \in Seq(A!Cell) /\ InOrder(q) /\ Complete(q, latest)
      /\ \A i \in 1..Len(q) : q[i].r.n <= latest
  BY DEF InSequence
<1>3. /\ Len(q) \in Nat /\ Len(rest) \in Nat /\ AuthWidth \in Nat /\ 1 \in 1..Len(q)
      /\ \A i \in 1..Len(q) : q[i].r.n \in Nat \ {0} /\ q[i].k \in 1..AuthWidth
  BY <1>1, <1>2, CellFacts
<1>4. rest # << >> <=> Len(rest) >= 1
  BY <1>1, CellFacts
<1>5. \A i \in 1..Len(q) : 1 < i =>
        q[1].r.n < q[i].r.n \/ (q[1].r = q[i].r /\ q[i].k = i)
  <2> SUFFICES ASSUME NEW i \in 1..Len(q), 1 < i
               PROVE  q[1].r.n < q[i].r.n \/ (q[1].r = q[i].r /\ q[i].k = i)
    OBVIOUS
  <2>1. q[1].r.n < q[i].r.n \/ (q[1].r = q[i].r /\ q[i].k - q[1].k = i - 1)
    BY <1>2, <1>3 DEF InOrder
  <2> QED
    BY <1>3, <2>1
<1>6. rest # << >> => 1 \in 1..Len(rest) /\ b + 1 \in 1..Len(q) /\ 1 < b + 1 /\ rest[1] = q[b + 1]
  <2>1. rest # << >> => 1 \in 1..Len(rest)
    BY <1>3, <1>4
  <2>2. 1 \in 1..Len(rest) => b + 1 \in 1..Len(q) /\ rest[1] = q[b + 1]
    BY <1>1
  <2> QED
    BY <2>1, <2>2
<1>7. ASSUME b < AuthWidth
      PROVE  /\ rest # << >> /\ rest[1].k = b + 1 /\ rest[1].r = q[1].r
             /\ FirstWhole(rest, latest) = q[1].r.n + 1
  <2>1. q[1].r.n \in 1..latest /\ b + 1 \in 1..AuthWidth /\ q[1].k <= b + 1
    BY <1>2, <1>3, <1>7
  <2>2. PICK j \in 1..Len(q) : q[j].r.n = q[1].r.n /\ q[j].k = b + 1
    <3> DEFINE n == q[1].r.n
               k == b + 1
    <3>1. n \in 1..latest /\ k \in 1..AuthWidth /\ 1 \in 1..Len(q)
      BY <1>3, <2>1
    <3>2. UpToCell(q[1], n, k)
      BY <2>1 DEF UpToCell
    <3> HIDE DEF n, k
    <3>3. \E j \in 1..Len(q) : q[j].r.n = n /\ q[j].k = k
      BY <1>2, <3>1, <3>2, CompleteAt
    <3> QED
      BY <3>3 DEF n, k
  <2>3. j # 1
    BY <2>2
  <2>4. j = b + 1 /\ q[j].r = q[1].r
    <3>1. 1 < j
      BY <2>3
    <3>2. q[1].r.n < q[j].r.n \/ (q[1].r = q[j].r /\ q[j].k = j)
      BY <1>5, <3>1
    <3> QED
      BY <1>3, <2>2, <3>2
  <2>5. Len(rest) >= 1
    BY <1>1, <1>3, <2>4
  <2>6. rest # << >> /\ rest[1] = q[j]
    BY <1>4, <1>6, <2>4, <2>5
  <2>7. rest[1].k # 1
    BY <2>2, <2>6
  <2>8. rest[1].k = b + 1 /\ rest[1].r = q[1].r
    BY <2>2, <2>4, <2>6
  <2>9. FirstWhole(rest, latest) = rest[1].r.n + 1
    BY <2>6, <2>7 DEF FirstWhole
  <2> QED
    BY <2>6, <2>8, <2>9
<1>8. ASSUME AuthWidth <= b, q[1].r.n = latest
      PROVE  rest = << >>
  <2> SUFFICES ASSUME rest # << >> PROVE FALSE
    OBVIOUS
  <2>1. q[b + 1].k <= AuthWidth /\ q[b + 1].r.n <= latest
    BY <1>2, <1>3, <1>6
  <2>2. q[1].r.n < q[b + 1].r.n \/ q[b + 1].k = b + 1
    BY <1>5, <1>6
  <2> QED
    BY <1>3, <1>6, <1>8, <2>1, <2>2
<1>9. FirstWhole(q, latest) = q[1].r.n
  BY <1>3, <1>4 DEF FirstWhole
<1>10. FirstWhole(rest, latest) > q[1].r.n
  <2>1. CASE rest = << >>
    BY <1>2, <1>3, <2>1 DEF FirstWhole
  <2>2. CASE rest # << >>
    <3>1. /\ rest[1].r.n \in Nat /\ q[1].r.n \in Nat
          /\ q[1].r.n < rest[1].r.n \/ (q[1].r.n = rest[1].r.n /\ rest[1].k = b + 1)
      BY <1>3, <1>5, <1>6, <2>2
    <3>2. rest[1].k = b + 1 => rest[1].k # 1
      OBVIOUS
    <3> QED
      BY <2>2, <3>1, <3>2 DEF FirstWhole
  <2> QED
    BY <2>1, <2>2
<1> QED
  BY <1>7, <1>8, <1>9, <1>10 DEF rest

\* The rest of a request can be read by itself as one cell only when it is one: the next
\* request, if there is one, is whole.
LEMMA AfterShortTail ==
  ASSUME NEW latest \in Nat, NEW q, InSequence(q, latest), NEW b \in Nat \ {0},
         Inside(q), Len(q) = 1 \/ b = 1, b # 1 \/ AuthWidth <= 2
  PROVE  /\ ~Inside(After(q, b))
         /\ FirstWhole(After(q, b), latest) = FirstWhole(q, latest)
<1> DEFINE rest == After(q, b)
<1> HIDE DEF rest
<1>1. /\ InSequence(rest, latest) /\ rest \in Seq(A!Cell)
      /\ Len(rest) = IF b < Len(q) THEN Len(q) - b ELSE 0
      /\ \A i \in 1..Len(rest) : b + i \in 1..Len(q) /\ rest[i] = q[b + i]
  BY RestInSequence DEF rest, InSequence
<1>2. /\ q \in Seq(A!Cell) /\ InOrder(q) /\ Complete(q, latest)
      /\ \A i \in 1..Len(q) : q[i].r.n <= latest
  BY DEF InSequence
<1>3. /\ Len(q) \in Nat /\ Len(rest) \in Nat /\ AuthWidth \in Nat \ {0} /\ 1 \in 1..Len(q)
      /\ \A i \in 1..Len(q) : q[i].r.n \in Nat \ {0} /\ q[i].k \in 1..AuthWidth
  BY <1>1, <1>2, CellFacts DEF Inside
<1>4. /\ rest # << >> <=> Len(rest) >= 1
      /\ q # << >> /\ q[1].k # 1
  BY <1>1, CellFacts DEF Inside
<1> DEFINE f == q[1].r.n + 1
<1>5. FirstWhole(q, latest) = f /\ f \in Nat
  BY <1>3, <1>4 DEF FirstWhole
<1>6. f > latest \/ \E j \in 1..Len(q) : 1 < j /\ q[j].r.n = f /\ q[j].k = 1
  <2> SUFFICES ASSUME f <= latest PROVE \E j \in 1..Len(q) : 1 < j /\ q[j].r.n = f /\ q[j].k = 1
    BY <1>3, <1>5
  <2>1. f \in 1..latest /\ 1 \in 1..AuthWidth /\ q[1].r.n < f
    BY <1>3, <1>5
  <2>4. UpToCell(q[1], f, 1)
    BY <2>1 DEF UpToCell
  <2>2. PICK j \in 1..Len(q) : q[j].r.n = f /\ q[j].k = 1
    <3> HIDE DEF f
    <3> QED
      BY <1>2, <1>3, <2>1, <2>4, CompleteAt
  <2>3. j # 1
    BY <1>4, <2>2
  <2> QED
    BY <2>2, <2>3
<1>7. \A i \in 1..Len(q) : 1 < i =>
        q[1].r.n < q[i].r.n \/ (q[1].r.n = q[i].r.n /\ q[i].k - q[1].k = i - 1)
  BY <1>2, <1>3 DEF InOrder
<1>8. CASE Len(q) = 1
  <2>1. Len(rest) = 0 /\ rest = << >>
    BY <1>1, <1>3, <1>4, <1>8
  <2>2. f > latest
    BY <1>6, <1>8
  <2>3. f = latest + 1
    BY <1>2, <1>3, <1>5, <2>2
  <2> QED
    BY <1>5, <2>1, <2>3 DEF Inside, FirstWhole, rest
<1>9. CASE Len(q) # 1
  <2>1. b = 1 /\ AuthWidth <= 2 /\ q[1].k = 2 /\ Len(q) >= 2 /\ AuthWidth = 2
    <3>1. b = 1 /\ AuthWidth <= 2
      BY <1>9
    <3> DEFINE k == q[1].k
    <3>2. k \in 1..AuthWidth /\ k # 1
      BY <1>3, <1>4
    <3>5. Len(q) \in Nat /\ 1 \in 1..Len(q)
      BY <1>3
    <3>3. Len(q) >= 2
      <4> DEFINE n == Len(q)
      <4>1. n \in Nat /\ n >= 1 /\ n # 1
        BY <1>9, <3>5
      <4> HIDE DEF n
      <4>2. n >= 2
        BY <4>1
      <4> QED
        BY <4>2 DEF n
    <3> HIDE DEF k
    <3>4. k = 2 /\ AuthWidth = 2
      BY <1>3, <3>1, <3>2
    <3> QED
      BY <3>1, <3>3, <3>4 DEF k
  <2>2. Len(rest) = Len(q) - 1 /\ rest # << >> /\ 1 \in 1..Len(rest)
    BY <1>1, <1>3, <1>4, <2>1
  <2>3. rest[1] = q[2] /\ 2 \in 1..Len(q)
    <3>1. rest[1] = q[b + 1] /\ b + 1 \in 1..Len(q)
      BY <1>1, <2>2
    <3> QED
      BY <2>1, <3>1
  <2>4. q[2].r.n > q[1].r.n
    <3>1. q[1].r.n < q[2].r.n \/ q[2].k - q[1].k = 2 - 1
      BY <1>7, <2>3
    <3> QED
      BY <1>3, <2>1, <2>3, <3>1
  <2>5. PICK j \in 1..Len(q) : 1 < j /\ q[j].r.n = f /\ q[j].k = 1
    BY <1>2, <1>3, <1>5, <1>6, <2>3, <2>4
  <2>6. j = 2
    <3> SUFFICES ASSUME 2 < j PROVE FALSE
      BY <2>5
    <3>1. q[2].r.n < q[j].r.n \/ (q[2].r.n = q[j].r.n /\ q[j].k - q[2].k = j - 2)
      BY <1>2, <2>3 DEF InOrder
    <3> QED
      BY <1>3, <1>5, <2>3, <2>4, <2>5, <3>1
  <2> QED
    BY <1>5, <2>2, <2>3, <2>5, <2>6 DEF Inside, FirstWhole, rest
<1> QED
  BY <1>8, <1>9

\* A request is added at the end.
CellsOf(r) == [k \in 1..AuthWidth |-> [r |-> r, k |-> k]]

LEMMA CellsOfRequest ==
  ASSUME NEW r \in A!Request
  PROVE  /\ CellsOf(r) \in Seq(A!Cell) /\ Len(CellsOf(r)) = AuthWidth
         /\ \A k \in 1..AuthWidth : CellsOf(r)[k].r = r /\ CellsOf(r)[k].k = k
<1>1. CellsOf(r) \in [1..AuthWidth -> A!Cell]
      /\ \A k \in 1..AuthWidth : CellsOf(r)[k].r = r /\ CellsOf(r)[k].k = k
  BY DEF CellsOf, A!Cell
<1>2. AuthWidth \in Nat
  BY SystemAssumption
<1> QED
  BY <1>1, <1>2, FunctionIsSeq

LEMMA OneMore ==
  ASSUME NEW latest \in Nat, NEW q, InSequence(q, latest), NEW r \in A!Request, r.n = latest + 1
  PROVE  /\ InSequence(q \o CellsOf(r), latest + 1)
         /\ FirstWhole(q \o CellsOf(r), latest + 1) = FirstWhole(q, latest)
         /\ Inside(q \o CellsOf(r)) <=> Inside(q)
         /\ q # << >> => q \o CellsOf(r) # << >> /\ (q \o CellsOf(r))[1] = q[1]
<1> DEFINE new == CellsOf(r)
           more == q \o new
<1> HIDE DEF new, more
<1>1. /\ q \in Seq(A!Cell) /\ InOrder(q) /\ Complete(q, latest)
      /\ \A i \in 1..Len(q) : q[i].r.n <= latest
  BY DEF InSequence
<1>2. /\ Len(q) \in Nat /\ AuthWidth \in Nat \ {0}
      /\ q # << >> <=> Len(q) >= 1
      /\ \A i \in 1..Len(q) : q[i].r.n \in Nat \ {0} /\ q[i].k \in 1..AuthWidth
  BY <1>1, CellFacts
<1>3. /\ new \in Seq(A!Cell) /\ Len(new) = AuthWidth
      /\ \A k \in 1..AuthWidth : new[k].r = r /\ new[k].k = k
  BY CellsOfRequest DEF new
<1>5. /\ more \in Seq(A!Cell) /\ Len(more) = Len(q) + AuthWidth
      /\ \A i \in 1..Len(q) + AuthWidth : more[i] = IF i <= Len(q) THEN q[i] ELSE new[i - Len(q)]
  BY <1>1, <1>3, ConcatProperties DEF more
<1>6. \A i \in 1..Len(q) : i \in 1..Len(more) /\ more[i] = q[i]
  BY <1>2, <1>5
<1>7. \A k \in 1..AuthWidth : Len(q) + k \in 1..Len(more)
                              /\ more[Len(q) + k].r = r /\ more[Len(q) + k].k = k
                              /\ more[Len(q) + k].r.n = latest + 1
  <2> SUFFICES ASSUME NEW k \in 1..AuthWidth
               PROVE  Len(q) + k \in 1..Len(more)
                      /\ more[Len(q) + k].r = r /\ more[Len(q) + k].k = k
                      /\ more[Len(q) + k].r.n = latest + 1
    OBVIOUS
  <2>1. Len(q) + k \in 1..Len(q) + AuthWidth /\ ~(Len(q) + k <= Len(q)) /\ (Len(q) + k) - Len(q) = k
    BY <1>2
  <2>2. more[Len(q) + k] = new[k]
    BY <1>5, <2>1
  <2> QED
    BY <1>3, <1>5, <2>1, <2>2
<1>8. \A i \in 1..Len(more) : i \in 1..Len(q) \/ \E k \in 1..AuthWidth : i = Len(q) + k
  <2> SUFFICES ASSUME NEW i \in 1..Len(more), i \notin 1..Len(q)
               PROVE  \E k \in 1..AuthWidth : i = Len(q) + k
    OBVIOUS
  <2>1. i - Len(q) \in 1..AuthWidth /\ i = Len(q) + (i - Len(q))
    BY <1>2, <1>5
  <2> QED
    BY <2>1
<1>9. \A i \in 1..Len(more) : more[i].r.n <= latest + 1
  <2> SUFFICES ASSUME NEW i \in 1..Len(more) PROVE more[i].r.n <= latest + 1
    OBVIOUS
  <2>1. CASE i \in 1..Len(q)
    <3>1. more[i] = q[i] /\ q[i].r.n \in Nat /\ q[i].r.n <= latest
      BY <1>1, <1>2, <1>6, <2>1
    <3> QED
      BY <3>1
  <2>2. CASE \E k \in 1..AuthWidth : i = Len(q) + k
    BY <1>7, <2>2
  <2> QED
    BY <1>8, <2>1, <2>2
<1>10. InOrder(more)
  <2> SUFFICES ASSUME NEW i \in 1..Len(more), NEW j \in 1..Len(more), i < j
               PROVE  \/ more[i].r.n < more[j].r.n
                      \/ more[i].r = more[j].r /\ more[j].k - more[i].k = j - i
    BY DEF InOrder
  <2>1. CASE i \in 1..Len(q) /\ j \in 1..Len(q)
    BY <1>1, <1>6, <2>1 DEF InOrder
  <2>2. CASE i \in 1..Len(q) /\ \E k \in 1..AuthWidth : j = Len(q) + k
    <3>1. more[i] = q[i] /\ q[i].r.n \in Nat /\ q[i].r.n <= latest /\ more[j].r.n = latest + 1
      BY <1>1, <1>2, <1>6, <1>7, <2>2
    <3> QED
      BY <3>1
  <2>3. CASE \E k \in 1..AuthWidth : i = Len(q) + k
    <3>1. PICK k \in 1..AuthWidth : i = Len(q) + k
      BY <2>3
    <3>2. j \notin 1..Len(q)
      BY <1>2, <3>1
    <3>3. PICK l \in 1..AuthWidth : j = Len(q) + l
      BY <1>8, <3>2
    <3>4. more[i].r = r /\ more[j].r = r /\ more[i].k = k /\ more[j].k = l
      BY <1>7, <3>1, <3>3
    <3>5. l - k = j - i
      BY <1>2, <3>1, <3>3
    <3> QED
      BY <3>4, <3>5
  <2> QED
    BY <1>2, <1>8, <2>1, <2>2, <2>3
<1>11. Complete(more, latest + 1)
  <2> SUFFICES ASSUME NEW i \in 1..Len(more), NEW n \in 1..(latest + 1), NEW k \in 1..AuthWidth,
                      UpToCell(more[i], n, k)
               PROVE  \E j \in 1..Len(more) : more[j].r.n = n /\ more[j].k = k
    BY DEF Complete
  <2>1. CASE n = latest + 1
    BY <1>7, <2>1
  <2>2. CASE n # latest + 1
    <3>1. n \in 1..latest
      BY <2>2
    <3>2. i \in 1..Len(q)
      <4> SUFFICES ASSUME NEW l \in 1..AuthWidth, i = Len(q) + l PROVE FALSE
        BY <1>8
      <4>1. more[i].r.n = latest + 1
        BY <1>7
      <4> QED
        BY <3>1, <4>1 DEF UpToCell
    <3>3. UpToCell(q[i], n, k)
      BY <1>6, <3>2
    <3>4. PICK j \in 1..Len(q) : q[j].r.n = n /\ q[j].k = k
      BY <1>1, <3>1, <3>2, <3>3, CompleteAt
    <3> QED
      BY <1>6, <3>4
  <2> QED
    BY <2>1, <2>2
<1>12. InSequence(more, latest + 1)
  BY <1>5, <1>9, <1>10, <1>11 DEF InSequence
<1>13. more # << >> /\ Len(more) >= 1
  <2>1. Len(more) >= 1
    BY <1>2, <1>5
  <2> QED
    BY <1>5, <2>1, CellFacts
<1>14. CASE q = << >>
  <2>1. Len(q) = 0
    BY <1>2, <1>14
  <2>2. more[1].r.n = latest + 1 /\ more[1].k = 1
    <3>1. 1 \in 1..AuthWidth /\ Len(q) + 1 = 1
      BY <1>2, <2>1
    <3> QED
      BY <1>7, <3>1
  <2>3. FirstWhole(more, latest + 1) = latest + 1 /\ ~Inside(more)
    BY <1>13, <2>2 DEF FirstWhole, Inside
  <2>4. FirstWhole(q, latest) = latest + 1 /\ ~Inside(q)
    BY <1>14 DEF FirstWhole, Inside
  <2> QED
    BY <1>12, <1>14, <2>3, <2>4 DEF more, new
<1>15. CASE q # << >>
  <2>1. 1 \in 1..Len(q)
    BY <1>2, <1>15
  <2>2. more[1] = q[1]
    BY <1>6, <2>1
  <2>3. FirstWhole(more, latest + 1) = FirstWhole(q, latest)
    BY <1>13, <1>15, <2>2 DEF FirstWhole
  <2>4. Inside(more) <=> Inside(q)
    BY <1>13, <1>15, <2>2 DEF Inside
  <2> QED
    BY <1>12, <1>13, <2>2, <2>3, <2>4 DEF more, new
<1> QED
  BY <1>14, <1>15

\* What is left of the numbers of the requests from the g-th one on, when x was in front of
\* the f-th
LEMMA DroppedRest ==
  ASSUME NEW asks \in Seq(Nat), NEW f \in 1..(Len(asks) + 1), NEW g \in f..(Len(asks) + 1),
         NEW front \in Seq(Int), Len(front) <= 1, Len(front) + (g - f) # 0
  PROVE  SubSeq(asks, g, Len(asks)) \in Dropped(front \o SubSeq(asks, f, Len(asks)))
<1> DEFINE latest == Len(asks)
           back == SubSeq(asks, f, latest)
           w == front \o back
           after == SubSeq(asks, g, latest)
           c == Len(front)
           i == c + (g - f) + 1
<1>1. latest \in Nat /\ \A j \in 1..latest : asks[j] \in Nat
  BY LenProperties, ElementOfSeq
<1>2. c \in Nat /\ c <= 1 /\ f \in Nat /\ g \in Nat /\ f >= 1 /\ f <= g /\ g <= latest + 1
      /\ c + (g - f) # 0
  BY <1>1, LenProperties
<1> HIDE DEF latest, c
<1>3. /\ back \in Seq(Int) /\ Len(back) = latest - f + 1
      /\ \A j \in 1..(latest - f + 1) : back[j] = asks[f + j - 1]
  <2>1. \A j \in f..latest : asks[j] \in Int
    BY <1>1, <1>2
  <2>2. /\ back \in Seq(Int) /\ Len(back) = IF f <= latest THEN latest - f + 1 ELSE 0
        /\ \A j \in 1..(latest - f + 1) : back[j] = asks[f + j - 1]
    BY <1>1, <1>2, <2>1, SubSeqProperties
  <2> QED
    BY <1>1, <1>2, <2>2
<1>4. /\ after \in Seq(Int) /\ Len(after) = latest - g + 1
      /\ \A j \in 1..(latest - g + 1) : after[j] = asks[g + j - 1]
  <2>1. \A j \in g..latest : asks[j] \in Int
    BY <1>1, <1>2
  <2>2. /\ after \in Seq(Int) /\ Len(after) = IF g <= latest THEN latest - g + 1 ELSE 0
        /\ \A j \in 1..(latest - g + 1) : after[j] = asks[g + j - 1]
    BY <1>1, <1>2, <2>1, SubSeqProperties
  <2> QED
    BY <1>1, <1>2, <2>2
<1> HIDE DEF back, after
<1>5. /\ w \in Seq(Int) /\ Len(w) = c + (latest - f + 1)
      /\ \A j \in 1..(c + (latest - f + 1)) : w[j] = IF j <= c THEN front[j] ELSE back[j - c]
  BY <1>3, ConcatProperties DEF c
<1> HIDE DEF w, i
<1>6. i \in 2..(Len(w) + 1) /\ i = c + (g - f) + 1
  BY <1>1, <1>2, <1>5 DEF i
<1>7. /\ SubSeq(w, i, Len(w)) \in Seq(Int) /\ Len(SubSeq(w, i, Len(w))) = latest - g + 1
      /\ \A j \in 1..(latest - g + 1) : SubSeq(w, i, Len(w))[j] = w[i + j - 1]
  <2> DEFINE n == Len(w)
  <2>1. n = c + (latest - f + 1) /\ n \in Nat
    BY <1>1, <1>2, <1>5
  <2>2. i \in Nat /\ i = c + (g - f) + 1 /\ i <= n + 1 /\ i >= 1
    BY <1>2, <1>6, <2>1
  <2>3. \A j \in i..n : w[j] \in Int
    <3>1. \A j \in 1..n : w[j] \in Int
      BY <1>5, ElementOfSeq
    <3> HIDE DEF n
    <3> QED
      BY <2>1, <2>2, <3>1
  <2> HIDE DEF n
  <2>4. n - i + 1 = latest - g + 1 /\ (~(i <= n) => latest - g + 1 = 0)
    BY <1>1, <1>2, <2>1, <2>2
  <2>5. /\ SubSeq(w, i, n) \in Seq(Int)
        /\ Len(SubSeq(w, i, n)) = IF i <= n THEN n - i + 1 ELSE 0
        /\ \A j \in 1..(n - i + 1) : SubSeq(w, i, n)[j] = w[i + j - 1]
    BY <2>1, <2>2, <2>3, SubSeqProperties
  <2>6. Len(SubSeq(w, i, n)) = latest - g + 1
    BY <2>4, <2>5
  <2>7. \A j \in 1..(latest - g + 1) : SubSeq(w, i, n)[j] = w[i + j - 1]
    BY <2>4, <2>5
  <2> QED
    BY <2>5, <2>6, <2>7 DEF n
<1>8. \A j \in 1..(latest - g + 1) : w[i + j - 1] = after[j]
  <2> SUFFICES ASSUME NEW j \in 1..(latest - g + 1) PROVE w[i + j - 1] = after[j]
    OBVIOUS
  <2> DEFINE l == i + j - 1
  <2>1. l \in 1..(c + (latest - f + 1)) /\ ~(l <= c) /\ l - c = (g - f) + j
    BY <1>1, <1>2, <1>6
  <2>2. w[l] = back[l - c]
    <3> HIDE DEF l
    <3> QED
      BY <1>5, <2>1
  <2>3. (g - f) + j \in 1..(latest - f + 1) /\ f + ((g - f) + j) - 1 = g + j - 1
    BY <1>1, <1>2
  <2>4. back[(g - f) + j] = asks[f + ((g - f) + j) - 1]
    BY <1>3, <2>3
  <2>5. w[l] = asks[g + j - 1]
    BY <2>1, <2>2, <2>3, <2>4
  <2> QED
    BY <1>4, <2>5
<1>9. after = SubSeq(w, i, Len(w))
  <2> DEFINE v == SubSeq(w, i, Len(w))
  <2>1. v \in Seq(Int) /\ Len(v) = Len(after) /\ after \in Seq(Int)
    BY <1>4, <1>7
  <2>2. \A j \in 1..Len(after) : after[j] = v[j]
    BY <1>4, <1>7, <1>8
  <2> HIDE DEF v
  <2>3. after = v
    BY <2>1, <2>2, SeqEqual
  <2> QED
    BY <2>3 DEF v
<1>10. after \in Dropped(w)
  BY <1>6, <1>9 DEF Dropped
<1> QED
  BY <1>10 DEF after, w, back, latest

-----------------------------------------------------------------------------
(* What the authentication server has read *)

AnsweredIn(given, r) == \E i \in DOMAIN given : given[i].request = r

\* Of the requests up to number latest it has read all but the whole ones in its stream q.  It
\* handles one of them, has the bytes of one, old, in its buffer, and has given answers to
\* some.  While it has read only a part of a request, that is the one.  If a recv() takes a
\* whole request, it reads a request only when it has answered, or dropped, the one before.
HasRead(q, latest, given, request, old) ==
  LET first == FirstWhole(q, latest)
  IN  /\ InSequence(q, latest)
      /\ \A i \in 1..Len(given) : given[i].request.n < first
      /\ request # NoRequest => request.n < first
      /\ old # NoRequest => old.n < first
      /\ Inside(q) =>
           /\ old \in {NoRequest, q[1].r} /\ request \in {NoRequest, q[1].r}
           /\ old # NoRequest /\ old.email \notin LongEmail =>
                AnsweredIn(given, old) \/ request = old
           /\ AuthWidth <= BufLen => old = NoRequest
           /\ request # NoRequest => ~AnsweredIn(given, request)
      /\ AuthWidth <= BufLen =>
           Len(given) + (IF request = NoRequest THEN 0 ELSE 1) < first

\* What the chat server sees of that: the request that is handled or the rest of one that
\* was answered, and the requests behind it
Front(q, asks, given, request) ==
  IF request # NoRequest
  THEN <<IF AnsweredIn(given, request) THEN -asks[request.n] ELSE asks[request.n]>>
  ELSE IF Inside(q) /\ AnsweredIn(given, q[1].r) THEN <<-asks[q[1].r.n]>> ELSE << >>
Back(q, asks) == SubSeq(asks, FirstWhole(q, Len(asks)), Len(asks))
Wire(q, asks, given, request) == Front(q, asks, given, request) \o Back(q, asks)

MaybeRequest == A!Request \cup {NoRequest}

LEMMA AskedAt ==
  ASSUME NEW asks \in Seq(Nat), NEW r \in A!Request, r.n <= Len(asks)
  PROVE  r.n \in 1..Len(asks) /\ asks[r.n] \in Nat
<1>1. r.n \in Nat \ {0} /\ Len(asks) \in Nat
  BY SystemAssumption, LenProperties DEF A!Request
<1>2. r.n \in 1..Len(asks)
  BY <1>1
<1> QED
  BY <1>2, ElementOfSeq

LEMMA FrontTyped ==
  ASSUME NEW asks \in Seq(Nat), NEW q, NEW given \in Seq(Answer), NEW request \in MaybeRequest,
         NEW old, HasRead(q, Len(asks), given, request, old)
  PROVE  /\ Front(q, asks, given, request) \in Seq(Int)
         /\ \/ Front(q, asks, given, request) = << >>
            \/ \E x \in Int : Front(q, asks, given, request) = <<x>>
<1> DEFINE front == Front(q, asks, given, request)
           latest == Len(asks)
           first == FirstWhole(q, latest)
<1>1. /\ InSequence(q, latest) /\ q \in Seq(A!Cell) /\ latest \in Nat
      /\ request # NoRequest => request.n < first
      /\ \A i \in 1..Len(q) : q[i].r.n <= latest
  BY LenProperties DEF HasRead, InSequence
<1>2. first \in 1..(latest + 1)
  BY <1>1, FirstWholeBounds
<1>3. \A r \in A!Request : r.n <= latest => asks[r.n] \in Int /\ -asks[r.n] \in Int
  BY AskedAt
<1>7. \A x \in Int : <<x>> \in Seq(Int)
  OBVIOUS
<1> SUFFICES front \in Seq(Int) /\ (front = << >> \/ \E x \in Int : front = <<x>>)
  OBVIOUS
<1> HIDE DEF front
<1>8. \A x \in Int : front = <<x>> => front \in Seq(Int) /\ \E y \in Int : front = <<y>>
  BY <1>7
<1>4. CASE request # NoRequest
  <2>1. request \in A!Request
    BY <1>4 DEF MaybeRequest
  <2>2. request.n \in Nat
    BY <2>1 DEF A!Request
  <2>3. request.n <= latest
    <3> HIDE DEF first, latest
    <3> QED
      BY <1>1, <1>2, <1>4, <2>2
  <2>4. asks[request.n] \in Int /\ -asks[request.n] \in Int
    BY <1>3, <2>1, <2>3
  <2>5. front = <<asks[request.n]>> \/ front = <<-asks[request.n]>>
    BY <1>4 DEF Front, front
  <2> QED
    BY <1>8, <2>4, <2>5
<1>5. CASE request = NoRequest /\ Inside(q)
  <2>1. 1 \in 1..Len(q)
    BY <1>1, <1>5, CellFacts DEF Inside
  <2>2. q[1].r \in A!Request /\ q[1].r.n <= latest
    BY <1>1, <2>1, CellFacts
  <2>3. -asks[q[1].r.n] \in Int
    BY <1>3, <2>2
  <2>4. front = << >> \/ front = <<-asks[q[1].r.n]>>
    BY <1>5 DEF Front, front
  <2> QED
    BY <1>8, <2>3, <2>4, EmptySeq
<1>6. CASE request = NoRequest /\ ~Inside(q)
  <2>1. front = << >>
    BY <1>6 DEF Front, front
  <2> QED
    BY <2>1, EmptySeq
<1> QED
  BY <1>4, <1>5, <1>6

\* recv() takes b cells and nothing is handled: what was behind them, if anything, is dropped.
LEMMA SkipSeen ==
  ASSUME NEW asks \in Seq(Nat), NEW q, NEW given \in Seq(Answer), NEW old,
         HasRead(q, Len(asks), given, NoRequest, old), NEW b \in Nat
  PROVE  \/ Wire(After(q, b), asks, given, NoRequest) = Wire(q, asks, given, NoRequest)
         \/ Wire(After(q, b), asks, given, NoRequest) \in Dropped(Wire(q, asks, given, NoRequest))
<1> DEFINE rest == After(q, b)
           latest == Len(asks)
           f == FirstWhole(q, latest)
           g == FirstWhole(rest, latest)
           front == Front(q, asks, given, NoRequest)
           shown == Front(rest, asks, given, NoRequest)
<1>1. /\ InSequence(q, latest) /\ q \in Seq(A!Cell) /\ latest \in Nat
      /\ \A i \in 1..Len(given) : given[i].request.n < f
  BY LenProperties DEF HasRead, InSequence
<1>2. /\ InSequence(rest, latest) /\ f <= g
      /\ rest # << >> =>
           /\ q # << >> /\ q[1].r.n <= rest[1].r.n
           /\ q[1].r.n = rest[1].r.n => q[1].r = rest[1].r
  BY <1>1, RestInSequence
<1>3. f \in 1..(latest + 1) /\ g \in 1..(latest + 1)
  BY <1>1, <1>2, FirstWholeBounds
<1>4. front \in Seq(Int) /\ (front = << >> \/ \E x \in Int : front = <<x>>)
  <2>1. NoRequest \in MaybeRequest
    BY DEF MaybeRequest
  <2> QED
    BY <2>1, FrontTyped
<1>5. DOMAIN given = 1..Len(given)
  BY LenProperties
<1>6. rest # << >> => 1 \in 1..Len(rest) /\ rest[1].r.n \in Nat /\ q[1].r.n \in Nat /\ 1 \in 1..Len(q)
  <2>1. rest # << >> => 1 \in 1..Len(rest) /\ 1 \in 1..Len(q)
    BY <1>1, <1>2, CellFacts DEF InSequence
  <2>2. rest \in Seq(A!Cell)
    BY <1>2 DEF InSequence
  <2> QED
    BY <1>1, <2>1, <2>2, CellFacts
<1> HIDE DEF rest, latest, f, g
<1>7. CASE Inside(rest) /\ AnsweredIn(given, rest[1].r)
  <2>1. rest[1].r.n < f /\ rest # << >>
    BY <1>1, <1>5, <1>7 DEF AnsweredIn, Inside
  <2>2. f = IF q[1].k = 1 THEN q[1].r.n ELSE q[1].r.n + 1
    BY <1>2, <2>1 DEF f, FirstWhole
  <2>3. q[1].k # 1 /\ q[1].r.n = rest[1].r.n
    <3>1. q[1].r.n <= rest[1].r.n /\ rest[1].r.n \in Nat /\ q[1].r.n \in Nat
      BY <1>2, <1>6, <2>1
    <3>2. q[1].k # 1
      <4> SUFFICES ASSUME q[1].k = 1 PROVE FALSE
        OBVIOUS
      <4>1. f = q[1].r.n
        BY <2>2
      <4> QED
        BY <1>3, <2>1, <3>1, <4>1
    <3>3. f = q[1].r.n + 1
      BY <2>2, <3>2
    <3> QED
      BY <2>1, <3>1, <3>2, <3>3
  <2>4. q[1].r = rest[1].r /\ Inside(q)
    BY <1>2, <2>1, <2>3 DEF Inside
  <2>5. shown = front
    BY <1>7, <2>4 DEF Front
  <2>6. g = f
    <3>1. g = rest[1].r.n + 1
      BY <1>7 DEF g, FirstWhole, Inside
    <3> QED
      BY <2>2, <2>3, <3>1
  <2>7. Back(rest, asks) = Back(q, asks)
    BY <2>6 DEF Back, f, g, latest
  <2> HIDE DEF front, shown
  <2>8. Wire(rest, asks, given, NoRequest) = Wire(q, asks, given, NoRequest)
    BY <2>5, <2>7 DEF Wire, front, shown
  <2> QED
    BY <2>8 DEF rest
<1>8. CASE ~(Inside(rest) /\ AnsweredIn(given, rest[1].r))
  <2>1. shown = << >>
    BY <1>8 DEF Front
  <2>2. Back(q, asks) = SubSeq(asks, f, Len(asks)) /\ Back(rest, asks) = SubSeq(asks, g, Len(asks))
    BY DEF Back, f, g, latest
  <2>3. SubSeq(asks, g, Len(asks)) \in Seq(Int)
    <3>1. g \in Nat /\ g >= 1 /\ Len(asks) \in Nat
      BY <1>1, <1>3 DEF latest
    <3>2. \A j \in 1..Len(asks) : asks[j] \in Int
      BY ElementOfSeq
    <3>3. \A j \in g..Len(asks) : asks[j] \in Int
      BY <3>1, <3>2
    <3> QED
      BY <3>1, <3>3, SubSeqProperties
  <2>4. Wire(rest, asks, given, NoRequest) = SubSeq(asks, g, Len(asks))
    BY <2>1, <2>2, <2>3, ConcatEmptySeq DEF Wire
  <2>5. Wire(q, asks, given, NoRequest) = front \o SubSeq(asks, f, Len(asks))
    BY <2>2 DEF Wire
  <2> HIDE DEF front
  <2>6. Len(front) \in {0, 1} /\ (front = << >> <=> Len(front) = 0)
    BY <1>4, EmptySeq
  <2>7. CASE Len(front) + (g - f) = 0
    <3>1. Len(front) = 0 /\ g = f
      BY <1>2, <1>3, <2>6, <2>7
    <3>2. front = << >> /\ front \o SubSeq(asks, f, Len(asks)) = SubSeq(asks, f, Len(asks))
      BY <2>3, <2>6, <3>1, ConcatEmptySeq
    <3> QED
      BY <2>4, <2>5, <3>1, <3>2 DEF rest
  <2>8. CASE Len(front) + (g - f) # 0
    <3>1. f \in 1..(Len(asks) + 1) /\ g \in f..(Len(asks) + 1) /\ Len(front) <= 1
      <4>1. latest \in Nat /\ f \in 1..(latest + 1) /\ g \in f..(latest + 1)
        BY <1>1, <1>2, <1>3
      <4>2. Len(front) <= 1
        <5> DEFINE n == Len(front)
        <5>1. n \in {0, 1}
          BY <2>6
        <5> HIDE DEF n
        <5>2. n <= 1
          BY <5>1
        <5> QED
          BY <5>2 DEF n
      <4> QED
        BY <4>1, <4>2 DEF latest
    <3>2. SubSeq(asks, g, Len(asks)) \in Dropped(front \o SubSeq(asks, f, Len(asks)))
      BY <1>4, <2>8, <3>1, DroppedRest
    <3> QED
      BY <2>4, <2>5, <3>2 DEF rest
  <2> QED
    BY <2>7, <2>8
<1> QED
  BY <1>7, <1>8

LEMMA ReadFacts ==
  ASSUME NEW latest \in Nat, NEW q, NEW given \in Seq(Answer), NEW request, NEW old,
         HasRead(q, latest, given, request, old), NEW b \in Nat
  PROVE  /\ InSequence(q, latest) /\ q \in Seq(A!Cell)
         /\ InSequence(After(q, b), latest)
         /\ FirstWhole(q, latest) \in 1..(latest + 1) /\ FirstWhole(After(q, b), latest) \in 1..(latest + 1)
         /\ FirstWhole(q, latest) <= FirstWhole(After(q, b), latest)
         /\ Len(given) \in Nat /\ \A i \in 1..Len(given) : given[i].request.n \in Nat
         /\ q # << >> => 1 \in 1..Len(q) /\ q[1].r \in A!Request /\ q[1].r.n \in 1..latest
                         /\ q[1].r # NoRequest
<1>1. InSequence(q, latest) /\ q \in Seq(A!Cell) /\ \A i \in 1..Len(q) : q[i].r.n <= latest
  BY DEF HasRead, InSequence
<1>2. InSequence(After(q, b), latest) /\ FirstWhole(q, latest) <= FirstWhole(After(q, b), latest)
  BY <1>1, RestInSequence
<1>3. FirstWhole(q, latest) \in 1..(latest + 1) /\ FirstWhole(After(q, b), latest) \in 1..(latest + 1)
  BY <1>1, <1>2, FirstWholeBounds
<1>4. Len(given) \in Nat /\ \A i \in 1..Len(given) : given[i] \in Answer
  BY LenProperties, ElementOfSeq
<1>5. \A a \in Answer : a.request.n \in Nat
  BY DEF Answer, A!Request
<1>6. q # << >> => 1 \in 1..Len(q)
  BY <1>1, CellFacts
<1>7. \A i \in 1..Len(q) : q[i].r \in A!Request /\ q[i].r.n \in Nat \ {0}
  BY <1>1, CellFacts
<1>8. NoRequest \notin A!Request
  BY SystemAssumption DEF A!Request, Auth!Request
<1>9. q # << >> => q[1].r.n \in 1..latest
  BY <1>1, <1>6, <1>7
<1> QED
  BY <1>1, <1>2, <1>3, <1>4, <1>5, <1>6, <1>7, <1>8, <1>9

\* Cells are dropped, and what was in the buffer is gone.
LEMMA SkipRead ==
  ASSUME NEW latest \in Nat, NEW q, NEW given \in Seq(Answer), NEW old,
         HasRead(q, latest, given, NoRequest, old), NEW b \in Nat
  PROVE  HasRead(After(q, b), latest, given, NoRequest, NoRequest)
<1> DEFINE f == FirstWhole(q, latest)
           g == FirstWhole(After(q, b), latest)
<1>1. /\ InSequence(After(q, b), latest) /\ f \in 1..(latest + 1) /\ g \in 1..(latest + 1) /\ f <= g
      /\ Len(given) \in Nat /\ \A i \in 1..Len(given) : given[i].request.n \in Nat
  BY ReadFacts
<1>2. (\A i \in 1..Len(given) : given[i].request.n < f) /\ (AuthWidth <= BufLen => Len(given) + 0 < f)
  BY DEF HasRead
<1> HIDE DEF f, g
<1>3. \A i \in 1..Len(given) : given[i].request.n < g
  BY <1>1, <1>2
<1>4. AuthWidth <= BufLen => Len(given) + 0 < g
  BY <1>1, <1>2
<1> QED
  BY <1>1, <1>3, <1>4 DEF HasRead, g

\* A request is taken: it is handled, or does not fit in the buffer.
LEMMA TakeRead ==
  ASSUME NEW latest \in Nat, NEW q, NEW given \in Seq(Answer), NEW old,
         HasRead(q, latest, given, NoRequest, old), latest <= Len(given) + 1,
         q # << >>, q[1].k = 1, NEW request \in {NoRequest, q[1].r},
         request = NoRequest => q[1].r.email \in LongEmail
  PROVE  /\ HasRead(After(q, BufLen), latest, given, request, q[1].r)
         /\ FirstWhole(q, latest) = q[1].r.n /\ FirstWhole(After(q, BufLen), latest) = q[1].r.n + 1
         /\ ~AnsweredIn(given, q[1].r)
<1> DEFINE rest == After(q, BufLen)
           f == FirstWhole(q, latest)
           g == FirstWhole(rest, latest)
           r == q[1].r
<1>1. /\ InSequence(q, latest) /\ InSequence(rest, latest) /\ f \in 1..(latest + 1) /\ g \in 1..(latest + 1)
      /\ f <= g /\ Len(given) \in Nat /\ \A i \in 1..Len(given) : given[i].request.n \in Nat
      /\ r.n \in 1..latest /\ r # NoRequest
  BY ReadFacts, ConstantsAssumption
<1>2. /\ \A i \in 1..Len(given) : given[i].request.n < f
      /\ AuthWidth <= BufLen => Len(given) + 0 < f
  BY DEF HasRead
<1>3. BufLen \in Nat \ {0} /\ AuthWidth \in Nat
  BY ConstantsAssumption, SystemAssumption
<1>4. /\ BufLen < AuthWidth => rest # << >> /\ rest[1].r = r /\ g = r.n + 1
      /\ AuthWidth <= BufLen /\ r.n = latest => rest = << >>
      /\ f = r.n /\ g > r.n
  BY <1>1, <1>3, AfterHead
<1>5. ~AnsweredIn(given, r)
  <2> SUFFICES ASSUME NEW i \in DOMAIN given, given[i].request = r PROVE FALSE
    BY DEF AnsweredIn
  <2>1. i \in 1..Len(given)
    BY LenProperties
  <2> HIDE DEF f, r
  <2> QED
    BY <1>1, <1>2, <1>4, <2>1
<1>6. AuthWidth <= BufLen => r.n = latest /\ rest = << >> /\ g = r.n + 1
  <2> SUFFICES ASSUME AuthWidth <= BufLen PROVE r.n = latest /\ rest = << >> /\ g = latest + 1
    OBVIOUS
  <2>1. r.n = latest
    <3> HIDE DEF f, r
    <3> QED
      BY <1>1, <1>2, <1>4
  <2> QED
    BY <1>4, <2>1 DEF FirstWhole
<1> HIDE DEF rest, f, g, r
<1>7. g = r.n + 1
  BY <1>3, <1>4, <1>6
<1>8. \A i \in 1..Len(given) : given[i].request.n < g
  BY <1>1, <1>2, <1>4
<1>9. (request # NoRequest => request.n < g) /\ r.n < g
  BY <1>1, <1>4 DEF r
<1>10. Inside(rest) =>
         /\ r \in {NoRequest, rest[1].r} /\ request \in {NoRequest, rest[1].r}
         /\ r # NoRequest /\ r.email \notin LongEmail => AnsweredIn(given, r) \/ request = r
         /\ AuthWidth <= BufLen => r = NoRequest
         /\ request # NoRequest => ~AnsweredIn(given, request)
  <2> SUFFICES ASSUME Inside(rest)
               PROVE  /\ r \in {NoRequest, rest[1].r} /\ request \in {NoRequest, rest[1].r}
                      /\ r # NoRequest /\ r.email \notin LongEmail => AnsweredIn(given, r) \/ request = r
                      /\ AuthWidth <= BufLen => r = NoRequest
                      /\ request # NoRequest => ~AnsweredIn(given, request)
    OBVIOUS
  <2>1. ~(AuthWidth <= BufLen)
    BY <1>6 DEF Inside
  <2>2. rest[1].r = r
    BY <1>3, <1>4, <2>1
  <2> QED
    BY <1>5, <2>1, <2>2 DEF r
<1>11. AuthWidth <= BufLen => Len(given) + (IF request = NoRequest THEN 0 ELSE 1) < g
  <2> SUFFICES ASSUME AuthWidth <= BufLen PROVE Len(given) + 1 < g
    BY <1>1
  <2> QED
    BY <1>1, <1>2, <1>4, <1>7
<1>12. HasRead(rest, latest, given, request, r)
  BY <1>1, <1>8, <1>9, <1>10, <1>11 DEF HasRead, g
<1> QED
  BY <1>4, <1>5, <1>7, <1>12 DEF rest, f, g, r

\* The end of a request is taken for a request, the one that is in the buffer.
LEMMA AgainRead ==
  ASSUME NEW latest \in Nat, NEW q, NEW given \in Seq(Answer), NEW old,
         HasRead(q, latest, given, NoRequest, old), Inside(q), Len(q) = 1 \/ BufLen = 1,
         BufLen # 1 \/ AuthWidth <= 2,
         old # NoRequest, NEW request \in {NoRequest, old}
  PROVE  /\ HasRead(After(q, BufLen), latest, given, request, old)
         /\ FirstWhole(After(q, BufLen), latest) = FirstWhole(q, latest)
         /\ old = q[1].r
         /\ old.email \notin LongEmail => AnsweredIn(given, old)
<1> DEFINE rest == After(q, BufLen)
           f == FirstWhole(q, latest)
<1>1. /\ InSequence(q, latest) /\ InSequence(rest, latest)
  BY ReadFacts, ConstantsAssumption
<1>2. ~Inside(rest) /\ FirstWhole(rest, latest) = f
  BY <1>1, ConstantsAssumption, AfterShortTail
<1>3. /\ \A i \in 1..Len(given) : given[i].request.n < f
      /\ old.n < f /\ old = q[1].r
      /\ old.email \notin LongEmail => AnsweredIn(given, old)
      /\ ~(AuthWidth <= BufLen)
  BY DEF HasRead
<1> HIDE DEF rest, f
<1>4. HasRead(rest, latest, given, request, old)
  BY <1>1, <1>2, <1>3 DEF HasRead
<1> QED
  BY <1>2, <1>3, <1>4 DEF rest, f

\* The request that was handled is answered.
LEMMA ReplyRead ==
  ASSUME NEW latest \in Nat, NEW q, NEW given \in Seq(Answer), NEW r \in A!Request, NEW old,
         HasRead(q, latest, given, r, old), NEW a \in Answer, a.request = r
  PROVE  /\ HasRead(q, latest, Append(given, a), NoRequest, old)
         /\ r.n < FirstWhole(q, latest)
         /\ \A x : AnsweredIn(Append(given, a), x) <=> AnsweredIn(given, x) \/ x = r
         /\ Inside(q) => ~AnsweredIn(given, r) /\ r = q[1].r
<1> DEFINE f == FirstWhole(q, latest)
           more == Append(given, a)
<1>1. r # NoRequest
  BY SystemAssumption DEF A!Request, Auth!Request
<1>2. /\ InSequence(q, latest)
      /\ \A i \in 1..Len(given) : given[i].request.n < f
      /\ r.n < f
      /\ old # NoRequest => old.n < f
      /\ Inside(q) =>
           /\ old \in {NoRequest, q[1].r} /\ r = q[1].r
           /\ old # NoRequest /\ old.email \notin LongEmail => AnsweredIn(given, old) \/ r = old
           /\ AuthWidth <= BufLen => old = NoRequest
           /\ ~AnsweredIn(given, r)
      /\ AuthWidth <= BufLen => Len(given) + 1 < f
  BY <1>1 DEF HasRead
<1>3. /\ Len(given) \in Nat /\ Len(more) = Len(given) + 1
      /\ DOMAIN given = 1..Len(given) /\ DOMAIN more = 1..(Len(given) + 1)
      /\ more[Len(given) + 1] = a /\ \A i \in 1..Len(given) : more[i] = given[i]
  BY LenProperties, AppendProperties
<1> HIDE DEF f, more
<1>4. \A x : AnsweredIn(more, x) <=> AnsweredIn(given, x) \/ x = r
  <2> SUFFICES ASSUME NEW x PROVE AnsweredIn(more, x) <=> AnsweredIn(given, x) \/ x = r
    OBVIOUS
  <2>1. AnsweredIn(more, x) => AnsweredIn(given, x) \/ x = r
    <3> SUFFICES ASSUME NEW i \in DOMAIN more, more[i].request = x
                 PROVE  AnsweredIn(given, x) \/ x = r
      BY DEF AnsweredIn
    <3>1. i \in 1..Len(given) \/ i = Len(given) + 1
      BY <1>3
    <3> QED
      BY <1>3, <3>1 DEF AnsweredIn
  <2>2. AnsweredIn(given, x) => AnsweredIn(more, x)
    <3> SUFFICES ASSUME NEW i \in DOMAIN given, given[i].request = x PROVE AnsweredIn(more, x)
      BY DEF AnsweredIn
    <3>1. i \in DOMAIN more /\ more[i] = given[i]
      BY <1>3
    <3> QED
      BY <3>1 DEF AnsweredIn
  <2>3. AnsweredIn(more, r)
    <3>1. Len(given) + 1 \in DOMAIN more
      BY <1>3
    <3> QED
      BY <1>3, <3>1 DEF AnsweredIn
  <2> QED
    BY <2>1, <2>2, <2>3
<1>5. \A i \in 1..Len(more) : more[i].request.n < f
  <2> SUFFICES ASSUME NEW i \in 1..Len(more) PROVE more[i].request.n < f
    OBVIOUS
  <2>1. i \in 1..Len(given) \/ i = Len(given) + 1
    BY <1>3
  <2> QED
    BY <1>2, <1>3, <2>1
<1>6. AuthWidth <= BufLen => Len(more) + (IF NoRequest = NoRequest THEN 0 ELSE 1) < f
  <2> SUFFICES ASSUME AuthWidth <= BufLen PROVE Len(more) + 0 < f
    OBVIOUS
  <2>1. Len(more) + 0 = Len(given) + 1
    BY <1>3
  <2> QED
    BY <1>2, <2>1
<1>7. HasRead(q, latest, more, NoRequest, old)
  BY <1>2, <1>4, <1>5, <1>6 DEF HasRead, f
<1> QED
  BY <1>2, <1>4, <1>7 DEF f, more

\* Another request is sent.
LEMMA MoreRead ==
  ASSUME NEW latest \in Nat, NEW q, NEW given \in Seq(Answer), NEW request, NEW old,
         HasRead(q, latest, given, request, old), NEW r \in A!Request, r.n = latest + 1
  PROVE  HasRead(q \o CellsOf(r), latest + 1, given, request, old)
<1> DEFINE more == q \o CellsOf(r)
           f == FirstWhole(q, latest)
<1>1. InSequence(q, latest)
  BY DEF HasRead
<1>2. /\ InSequence(more, latest + 1) /\ FirstWhole(more, latest + 1) = f
      /\ Inside(more) <=> Inside(q)
      /\ q # << >> => more[1] = q[1]
  BY <1>1, OneMore
<1>3. Inside(more) => Inside(q) /\ more[1] = q[1]
  BY <1>2 DEF Inside
<1> HIDE DEF more
<1>4. HasRead(more, latest + 1, given, request, old)
  <2>1. /\ \A i \in 1..Len(given) : given[i].request.n < f
        /\ request # NoRequest => request.n < f
        /\ old # NoRequest => old.n < f
        /\ AuthWidth <= BufLen => Len(given) + (IF request = NoRequest THEN 0 ELSE 1) < f
    BY DEF HasRead
  <2>2. Inside(more) =>
          /\ old \in {NoRequest, more[1].r} /\ request \in {NoRequest, more[1].r}
          /\ old # NoRequest /\ old.email \notin LongEmail => AnsweredIn(given, old) \/ request = old
          /\ AuthWidth <= BufLen => old = NoRequest
          /\ request # NoRequest => ~AnsweredIn(given, request)
    BY <1>3 DEF HasRead
  <2> HIDE DEF f
  <2> QED
    BY <1>2, <2>1, <2>2 DEF HasRead
<1> QED
  BY <1>4 DEF more

LEMMA BackTyped ==
  ASSUME NEW asks \in Seq(Nat), NEW f \in 1..(Len(asks) + 1)
  PROVE  /\ SubSeq(asks, f, Len(asks)) \in Seq(Int)
         /\ Len(SubSeq(asks, f, Len(asks))) = Len(asks) - f + 1
         /\ \A j \in 1..(Len(asks) - f + 1) : SubSeq(asks, f, Len(asks))[j] = asks[f + j - 1]
<1> DEFINE latest == Len(asks)
<1>1. latest \in Nat /\ \A j \in 1..latest : asks[j] \in Int
  BY LenProperties, ElementOfSeq
<1> HIDE DEF latest
<1>2. f \in Nat /\ f >= 1 /\ f <= latest + 1
  BY <1>1 DEF latest
<1>3. \A j \in f..latest : asks[j] \in Int
  BY <1>1, <1>2
<1>4. /\ SubSeq(asks, f, latest) \in Seq(Int)
      /\ Len(SubSeq(asks, f, latest)) = IF f <= latest THEN latest - f + 1 ELSE 0
      /\ \A j \in 1..(latest - f + 1) : SubSeq(asks, f, latest)[j] = asks[f + j - 1]
  BY <1>1, <1>2, <1>3, SubSeqProperties
<1>5. Len(SubSeq(asks, f, latest)) = latest - f + 1
  BY <1>1, <1>2, <1>4
<1> QED
  BY <1>4, <1>5 DEF latest

LEMMA BackSplit ==
  ASSUME NEW asks \in Seq(Nat), NEW n \in 1..Len(asks)
  PROVE  SubSeq(asks, n, Len(asks)) = <<asks[n]>> \o SubSeq(asks, n + 1, Len(asks))
<1> DEFINE latest == Len(asks)
           whole == SubSeq(asks, n, latest)
           tail == SubSeq(asks, n + 1, latest)
           one == <<asks[n]>>
<1>1. latest \in Nat /\ n \in 1..latest /\ n \in 1..(latest + 1) /\ n + 1 \in 1..(latest + 1)
  BY LenProperties
<1>2. /\ whole \in Seq(Int) /\ Len(whole) = latest - n + 1
      /\ \A j \in 1..(latest - n + 1) : whole[j] = asks[n + j - 1]
  BY <1>1, BackTyped
<1>3. /\ tail \in Seq(Int) /\ Len(tail) = latest - (n + 1) + 1
      /\ \A j \in 1..(latest - (n + 1) + 1) : tail[j] = asks[(n + 1) + j - 1]
  BY <1>1, BackTyped
<1>4. asks[n] \in Int
  BY ElementOfSeq
<1>5. one \in Seq(Int) /\ Len(one) = 1 /\ one[1] = asks[n]
  BY <1>4
<1> HIDE DEF latest, whole, tail, one
<1> DEFINE both == one \o tail
<1>6. /\ both \in Seq(Int) /\ Len(both) = 1 + Len(tail)
      /\ \A i \in 1..(1 + Len(tail)) : both[i] = IF i <= 1 THEN one[i] ELSE tail[i - 1]
  <2>1. /\ both \in Seq(Int) /\ Len(both) = Len(one) + Len(tail)
        /\ \A i \in 1..(Len(one) + Len(tail)) :
             both[i] = IF i <= Len(one) THEN one[i] ELSE tail[i - Len(one)]
    BY <1>3, <1>5, ConcatProperties
  <2> HIDE DEF both
  <2> QED
    BY <1>5, <2>1
<1> HIDE DEF both
<1>7. Len(both) = Len(whole) /\ Len(whole) \in Nat
  BY <1>1, <1>2, <1>3, <1>6
<1>8. \A i \in 1..Len(whole) : whole[i] = both[i]
  <2> SUFFICES ASSUME NEW i \in 1..Len(whole) PROVE whole[i] = both[i]
    OBVIOUS
  <2>1. whole[i] = asks[n + i - 1] /\ i \in 1..(1 + Len(tail))
    BY <1>1, <1>2, <1>3
  <2>2. CASE i = 1
    <3>1. both[1] = one[1]
      BY <1>6, <2>1, <2>2
    <3>2. n + 1 - 1 = n
      BY <1>1
    <3> QED
      BY <1>5, <2>1, <2>2, <3>1, <3>2
  <2>3. CASE i # 1
    <3>1. ~(i <= 1) /\ i - 1 \in 1..(latest - (n + 1) + 1) /\ (n + 1) + (i - 1) - 1 = n + i - 1
      BY <1>1, <1>2, <2>3
    <3>2. both[i] = tail[i - 1]
      BY <1>6, <2>1, <3>1
    <3>3. tail[i - 1] = asks[(n + 1) + (i - 1) - 1]
      BY <1>3, <3>1
    <3> QED
      BY <2>1, <3>1, <3>2, <3>3
  <2> QED
    BY <2>2, <2>3
<1>9. whole = both
  BY <1>2, <1>6, <1>7, <1>8, SeqEqual
<1> QED
  BY <1>9 DEF whole, both, one, tail, latest

\* A request that is handled is still seen as the first one.
LEMMA TakeSeen ==
  ASSUME NEW asks \in Seq(Nat), NEW q, NEW given \in Seq(Answer), NEW old,
         HasRead(q, Len(asks), given, NoRequest, old), Len(asks) <= Len(given) + 1,
         q # << >>, q[1].k = 1, q[1].r.email \notin LongEmail
  PROVE  Wire(After(q, BufLen), asks, given, q[1].r) = Wire(q, asks, given, NoRequest)
<1> DEFINE rest == After(q, BufLen)
           latest == Len(asks)
           r == q[1].r
           n == r.n
<1>1. latest \in Nat
  BY LenProperties
<1>2. r # NoRequest /\ n \in 1..latest
  BY <1>1, ReadFacts, ConstantsAssumption
<1>3. /\ FirstWhole(q, latest) = n /\ FirstWhole(rest, latest) = n + 1
      /\ ~AnsweredIn(given, r)
  <2>1. q[1].r \in {NoRequest, q[1].r} /\ (q[1].r = NoRequest => q[1].r.email \in LongEmail)
    BY <1>2
  <2> QED
    BY <1>1, <2>1, TakeRead
<1>4. Front(rest, asks, given, r) = <<asks[n]>> /\ Front(q, asks, given, NoRequest) = << >>
  BY <1>2, <1>3 DEF Front, Inside
<1>5. Back(rest, asks) = SubSeq(asks, n + 1, latest) /\ Back(q, asks) = SubSeq(asks, n, latest)
  BY <1>3 DEF Back
<1>6. SubSeq(asks, n, latest) = <<asks[n]>> \o SubSeq(asks, n + 1, latest)
  BY <1>2, BackSplit
<1>7. << >> \o SubSeq(asks, n, latest) = SubSeq(asks, n, latest)
  <2>1. n \in 1..(latest + 1)
    BY <1>1, <1>2
  <2>2. SubSeq(asks, n, latest) \in Seq(Int)
    BY <2>1, BackTyped
  <2> QED
    BY <2>2, ConcatEmptySeq
<1> HIDE DEF rest, r, n, latest
<1>8. Wire(rest, asks, given, r) = Wire(q, asks, given, NoRequest)
  BY <1>4, <1>5, <1>6, <1>7 DEF Wire
<1> QED
  BY <1>8 DEF rest, r

\* So is the rest of one that is handled again.
LEMMA AgainSeen ==
  ASSUME NEW asks \in Seq(Nat), NEW q, NEW given \in Seq(Answer), NEW old,
         HasRead(q, Len(asks), given, NoRequest, old), Inside(q), Len(q) = 1 \/ BufLen = 1,
         BufLen # 1 \/ AuthWidth <= 2,
         old # NoRequest, old.email \notin LongEmail
  PROVE  Wire(After(q, BufLen), asks, given, old) = Wire(q, asks, given, NoRequest)
<1>1. /\ FirstWhole(After(q, BufLen), Len(asks)) = FirstWhole(q, Len(asks))
      /\ old = q[1].r /\ AnsweredIn(given, old)
  BY LenProperties, AgainRead
<1>2. Front(After(q, BufLen), asks, given, old) = Front(q, asks, given, NoRequest)
  BY <1>1 DEF Front
<1>3. Back(After(q, BufLen), asks) = Back(q, asks)
  BY <1>1 DEF Back
<1> QED
  BY <1>2, <1>3 DEF Wire

\* It is gone when it was answered, or its rest is seen in its place.
LEMMA ReplySeen ==
  ASSUME NEW asks \in Seq(Nat), NEW q, NEW given \in Seq(Answer), NEW r \in A!Request, NEW old,
         HasRead(q, Len(asks), given, r, old), NEW a \in Answer, a.request = r
  PROVE  LET x == IF AnsweredIn(given, r) THEN -asks[r.n] ELSE asks[r.n]
             now == Wire(q, asks, Append(given, a), NoRequest)
         IN  /\ Wire(q, asks, given, r) = <<x>> \o Back(q, asks)
             /\ now = << >> \o Back(q, asks) \/ (x = asks[r.n] /\ now = <<-x>> \o Back(q, asks))
<1>1. r # NoRequest
  BY SystemAssumption DEF A!Request, Auth!Request
<1>2. /\ \A y : AnsweredIn(Append(given, a), y) <=> AnsweredIn(given, y) \/ y = r
      /\ Inside(q) => ~AnsweredIn(given, r) /\ r = q[1].r
  BY LenProperties, ReplyRead
<1>3. CASE Inside(q)
  <2>1. Front(q, asks, given, r) = <<asks[r.n]>> /\ ~AnsweredIn(given, r)
    BY <1>1, <1>2, <1>3 DEF Front
  <2>2. Front(q, asks, Append(given, a), NoRequest) = <<-asks[r.n]>>
    BY <1>2, <1>3 DEF Front
  <2> QED
    BY <2>1, <2>2 DEF Wire
<1>4. CASE ~Inside(q)
  <2>1. Front(q, asks, given, r) = <<IF AnsweredIn(given, r) THEN -asks[r.n] ELSE asks[r.n]>>
    BY <1>1 DEF Front
  <2>2. Front(q, asks, Append(given, a), NoRequest) = << >>
    BY <1>4 DEF Front
  <2> QED
    BY <2>1, <2>2 DEF Wire
<1> QED
  BY <1>3, <1>4

LEMMA AppendBehind ==
  ASSUME NEW s \in Seq(Int), NEW t \in Seq(Int), NEW x \in Int
  PROVE  s \o Append(t, x) = Append(s \o t, x)
<1> DEFINE u == s \o Append(t, x)
           v == Append(s \o t, x)
<1>1. /\ Append(t, x) \in Seq(Int) /\ Len(Append(t, x)) = Len(t) + 1 /\ Append(t, x)[Len(t) + 1] = x
      /\ \A i \in 1..Len(t) : Append(t, x)[i] = t[i]
  BY AppendProperties
<1>2. /\ s \o t \in Seq(Int) /\ Len(s \o t) = Len(s) + Len(t)
      /\ \A i \in 1..(Len(s) + Len(t)) : (s \o t)[i] = IF i <= Len(s) THEN s[i] ELSE t[i - Len(s)]
  BY ConcatProperties
<1>3. Len(s) \in Nat /\ Len(t) \in Nat
  BY LenProperties
<1>4. /\ u \in Seq(Int) /\ Len(u) = Len(s) + (Len(t) + 1)
      /\ \A i \in 1..(Len(s) + (Len(t) + 1)) :
           u[i] = IF i <= Len(s) THEN s[i] ELSE Append(t, x)[i - Len(s)]
  <2> DEFINE w == Append(t, x)
  <2> HIDE DEF w
  <2>1. w \in Seq(Int) /\ Len(w) = Len(t) + 1
    BY <1>1 DEF w
  <2>2. /\ s \o w \in Seq(Int) /\ Len(s \o w) = Len(s) + Len(w)
        /\ \A i \in 1..(Len(s) + Len(w)) : (s \o w)[i] = IF i <= Len(s) THEN s[i] ELSE w[i - Len(s)]
    BY <2>1, ConcatProperties
  <2> QED
    BY <2>1, <2>2 DEF w
<1>5. /\ v \in Seq(Int) /\ Len(v) = (Len(s) + Len(t)) + 1 /\ v[(Len(s) + Len(t)) + 1] = x
      /\ \A i \in 1..(Len(s) + Len(t)) : v[i] = (s \o t)[i]
  BY <1>2, AppendProperties
<1> HIDE DEF u, v
<1>6. \A i \in 1..Len(u) : u[i] = v[i]
  <2> SUFFICES ASSUME NEW i \in 1..Len(u) PROVE u[i] = v[i]
    OBVIOUS
  <2>1. CASE i <= Len(s)
    <3>1. i \in 1..(Len(s) + Len(t)) /\ i \in 1..(Len(s) + (Len(t) + 1))
      BY <1>3, <1>4, <2>1
    <3>2. u[i] = s[i]
      BY <1>4, <2>1, <3>1
    <3>3. v[i] = s[i]
      BY <1>2, <1>5, <2>1, <3>1
    <3> QED
      BY <3>2, <3>3
  <2>2. CASE Len(s) < i /\ i <= Len(s) + Len(t)
    <3>1. i - Len(s) \in 1..Len(t) /\ i \in 1..(Len(s) + Len(t)) /\ ~(i <= Len(s))
      BY <1>3, <1>4, <2>2
    <3>2. u[i] = Append(t, x)[i - Len(s)]
      BY <1>4, <3>1
    <3>3. v[i] = t[i - Len(s)]
      BY <1>2, <1>5, <3>1
    <3> QED
      BY <1>1, <3>1, <3>2, <3>3
  <2>3. CASE i = Len(s) + Len(t) + 1
    <3>1. i - Len(s) = Len(t) + 1 /\ ~(i <= Len(s))
      BY <1>3, <2>3
    <3> QED
      BY <1>1, <1>4, <1>5, <2>3, <3>1
  <2>4. i \in 1..(Len(s) + (Len(t) + 1)) /\ Len(s) \in Nat /\ Len(t) \in Nat
    BY <1>3, <1>4
  <2>5. i <= Len(s) \/ (Len(s) < i /\ i <= Len(s) + Len(t)) \/ i = Len(s) + Len(t) + 1
    <3> DEFINE m == Len(s)
               k == Len(t)
    <3>1. m \in Nat /\ k \in Nat /\ i \in 1..(m + (k + 1))
      BY <2>4
    <3> HIDE DEF m, k
    <3>2. i <= m \/ (m < i /\ i <= m + k) \/ i = m + k + 1
      BY <3>1
    <3> QED
      BY <3>2 DEF m, k
  <2> QED
    BY <2>1, <2>2, <2>3, <2>5
<1>7. Len(u) = Len(v)
  BY <1>3, <1>4, <1>5
<1>8. u = v
  BY <1>4, <1>5, <1>6, <1>7, SeqEqual
<1> QED
  BY <1>8 DEF u, v

LEMMA BackMore ==
  ASSUME NEW asks \in Seq(Nat), NEW f \in 1..(Len(asks) + 1), NEW x \in Nat
  PROVE  SubSeq(Append(asks, x), f, Len(asks) + 1) = Append(SubSeq(asks, f, Len(asks)), x)
<1> DEFINE latest == Len(asks)
           more == Append(asks, x)
           back == SubSeq(asks, f, latest)
           u == SubSeq(more, f, latest + 1)
           v == Append(back, x)
<1>1. latest \in Nat /\ f \in 1..(latest + 1) /\ f \in 1..((latest + 1) + 1)
  BY LenProperties
<1>2. /\ more \in Seq(Nat) /\ Len(more) = latest + 1 /\ more[latest + 1] = x
      /\ \A i \in 1..latest : more[i] = asks[i]
  BY AppendProperties
<1>3. /\ back \in Seq(Int) /\ Len(back) = latest - f + 1
      /\ \A j \in 1..(latest - f + 1) : back[j] = asks[f + j - 1]
  BY <1>1, BackTyped
<1> HIDE DEF more, latest, back
<1>4. /\ u \in Seq(Int) /\ Len(u) = (latest + 1) - f + 1
      /\ \A j \in 1..((latest + 1) - f + 1) : u[j] = more[f + j - 1]
  <2>1. f \in 1..(Len(more) + 1)
    BY <1>1, <1>2
  <2>2. /\ SubSeq(more, f, Len(more)) \in Seq(Int) /\ Len(SubSeq(more, f, Len(more))) = Len(more) - f + 1
        /\ \A j \in 1..(Len(more) - f + 1) : SubSeq(more, f, Len(more))[j] = more[f + j - 1]
    BY <1>2, <2>1, BackTyped
  <2> QED
    BY <1>2, <2>2
<1>5. /\ v \in Seq(Int) /\ Len(v) = (latest - f + 1) + 1 /\ v[(latest - f + 1) + 1] = x
      /\ \A j \in 1..(latest - f + 1) : v[j] = back[j]
  BY <1>3, AppendProperties
<1> HIDE DEF u, v
<1>6. Len(u) = Len(v) /\ Len(u) \in Nat
  BY <1>1, <1>4, <1>5
<1>7. \A j \in 1..Len(u) : u[j] = v[j]
  <2> SUFFICES ASSUME NEW j \in 1..Len(u) PROVE u[j] = v[j]
    OBVIOUS
  <2>1. u[j] = more[f + j - 1]
    BY <1>4
  <2>2. CASE j \in 1..(latest - f + 1)
    <3>1. f + j - 1 \in 1..latest
      BY <1>1, <2>2
    <3> QED
      BY <1>2, <1>3, <1>5, <2>1, <2>2, <3>1
  <2>3. CASE j = (latest - f + 1) + 1
    <3>1. f + j - 1 = latest + 1
      BY <1>1, <2>3
    <3> QED
      BY <1>2, <1>5, <2>1, <2>3, <3>1
  <2> QED
    BY <1>1, <1>4, <2>2, <2>3
<1>8. u = v
  BY <1>4, <1>5, <1>6, <1>7, SeqEqual
<1> QED
  BY <1>8 DEF u, v, more, back, latest

\* A request that is sent is seen behind the others.
Behind(w, x) == Append(w, x)
LEMMA MoreSeen ==
  ASSUME NEW asks \in Seq(Nat), NEW q, NEW given \in Seq(Answer), NEW request \in MaybeRequest,
         NEW old, HasRead(q, Len(asks), given, request, old),
         NEW r \in A!Request, r.n = Len(asks) + 1, NEW x \in Nat
  PROVE  Wire(q \o CellsOf(r), Behind(asks, x), given, request)
           = Behind(Wire(q, asks, given, request), x)
<1> DEFINE latest == Len(asks)
           longer == Append(asks, x)
           more == q \o CellsOf(r)
           f == FirstWhole(q, latest)
           front == Front(q, asks, given, request)
<1>1. /\ InSequence(q, latest) /\ latest \in Nat /\ f \in 1..(latest + 1)
      /\ q # << >> => q[1].r \in A!Request /\ q[1].r.n \in 1..latest
  BY ReadFacts, LenProperties
<1>2. /\ FirstWhole(more, latest + 1) = f
      /\ Inside(more) <=> Inside(q)
      /\ q # << >> => more[1] = q[1]
  BY <1>1, OneMore
<1>3. /\ longer \in Seq(Nat) /\ Len(longer) = latest + 1
      /\ \A i \in 1..latest : longer[i] = asks[i]
  BY AppendProperties
<1>4. request # NoRequest => request.n \in 1..latest
  <2> SUFFICES ASSUME request # NoRequest PROVE request.n \in 1..latest
    OBVIOUS
  <2>1. request.n < f
    BY DEF HasRead
  <2>2. request.n \in Nat \ {0}
    BY SystemAssumption DEF MaybeRequest, A!Request
  <2> HIDE DEF f, latest
  <2> QED
    BY <1>1, <2>1, <2>2
<1> HIDE DEF longer, more, latest
<1>5. Front(more, longer, given, request) = front
  <2>1. CASE request # NoRequest
    BY <1>3, <1>4, <2>1 DEF Front
  <2>2. CASE request = NoRequest /\ Inside(q)
    <3>1. Inside(more) /\ more[1] = q[1] /\ longer[q[1].r.n] = asks[q[1].r.n]
      BY <1>1, <1>2, <1>3, <2>2 DEF Inside
    <3> QED
      BY <2>2, <3>1 DEF Front
  <2>3. CASE request = NoRequest /\ ~Inside(q)
    BY <1>2, <2>3 DEF Front
  <2> QED
    BY <2>1, <2>2, <2>3
<1>6. Back(more, longer) = Append(Back(q, asks), x)
  <2>1. Back(more, longer) = SubSeq(longer, f, latest + 1)
    BY <1>2, <1>3 DEF Back
  <2>2. Back(q, asks) = SubSeq(asks, f, latest)
    BY DEF Back, latest
  <2>3. SubSeq(longer, f, latest + 1) = Append(SubSeq(asks, f, latest), x)
    BY <1>1, BackMore DEF longer, latest
  <2> QED
    BY <2>1, <2>2, <2>3
<1>7. front \in Seq(Int)
  BY FrontTyped
<1>8. Back(q, asks) \in Seq(Int)
  BY <1>1, BackTyped DEF Back, latest
<1> HIDE DEF front
<1>9. front \o Append(Back(q, asks), x) = Append(front \o Back(q, asks), x)
  BY <1>7, <1>8, AppendBehind
<1> QED
  BY <1>5, <1>6, <1>9 DEF Wire, Behind, front, longer, more

-----------------------------------------------------------------------------
(* The invariant of the two servers *)

ReadSoFar == HasRead(aStream[ChatEnd], Len(asked), answers[ChatEnd], job.request, aScratch)

\* Nothing was read before the connection was accepted, and between two passes over the
\* clients no request is being handled.
PassInv ==
  /\ ChatEnd \notin aConnected => aScratch = NoRequest
  /\ aBacklog = << >> \/ (ChatEnd \notin aConnected /\ aBacklog = <<ChatEnd>>)
  /\ aPeer[ChatEnd] = "idle" => aBacklog = << >> /\ ChatEnd \notin aConnected
  /\ aPc \in {"select", "accept", "serve"} => job.request = NoRequest

EndsInv == Linked => ReadSoFar /\ PassInv /\ toAuth = OnWire

\* What the chat server sees is what was defined above.
LEMMA WireIs ==
  SystemInv /\ ReadSoFar => OnWire = Wire(aStream[ChatEnd], asked, answers[ChatEnd], job.request)
<1> SUFFICES ASSUME SystemInv, ReadSoFar
             PROVE  OnWire = Wire(aStream[ChatEnd], asked, answers[ChatEnd], job.request)
  OBVIOUS
<1> DEFINE q == aStream[ChatEnd]
           given == answers[ChatEnd]
           first == IF q # << >> /\ q[1].k # 1 /\ job.request # q[1].r /\ Answered(q[1].r)
                    THEN <<-asked[q[1].r.n]>> ELSE << >>
           whole == Pick(q, {i \in DOMAIN q : q[i].k = 1})
           numbers == [i \in DOMAIN whole |-> asked[whole[i].r.n]]
<1>1. A!TypeOK /\ asked \in Seq(Nat) /\ given \in Seq(Answer)
  BY Lengths DEF SystemInv, A!AuthInv, AskedInv
<1>2. InSequence(q, Len(asked)) /\ \A r : Answered(r) <=> AnsweredIn(given, r)
  BY DEF ReadSoFar, HasRead, Answered, AnsweredIn
<1>3. job.request \in MaybeRequest /\ NoRequest \notin A!Request
  BY <1>1, SystemAssumption DEF A!TypeOK, MaybeRequest, A!Request, Auth!Request
<1>4. numbers = Back(q, asked)
  BY <1>1, <1>2, WholeNumbers DEF Back
<1>5. OnWire = InHand \o (first \o numbers)
  BY DEF OnWire, InStream
<1>6. Back(q, asked) \in Seq(Int)
  <2>1. FirstWhole(q, Len(asked)) \in 1..(Len(asked) + 1)
    BY <1>1, <1>2, LenProperties, FirstWholeBounds
  <2> QED
    BY <1>1, <2>1, BackTyped DEF Back
<1>7. CASE job.request # NoRequest
  <2>1. first = << >>
    <3>1. q # << >> /\ q[1].k # 1 => job.request = q[1].r
      BY <1>7 DEF ReadSoFar, HasRead, Inside
    <3> QED
      BY <3>1
  <2>2. InHand = Front(q, asked, given, job.request)
    BY <1>2, <1>7 DEF InHand, Front
  <2> HIDE DEF first, numbers
  <2>3. << >> \o Back(q, asked) = Back(q, asked)
    BY <1>6, ConcatEmptySeq
  <2> QED
    BY <1>4, <1>5, <2>1, <2>2, <2>3 DEF Wire
<1>8. CASE job.request = NoRequest
  <2>1. first = Front(q, asked, given, job.request)
    <3>1. CASE Inside(q)
      <4>1. q # << >> /\ q[1].k # 1
        BY <3>1 DEF Inside
      <4>2. job.request # q[1].r
        <5>1. q[1].r \in A!Request
          BY <1>1, <4>1, LenProperties, ReadFacts DEF ReadSoFar
        <5> QED
          BY <1>3, <1>8, <5>1
      <4> QED
        BY <1>2, <1>8, <3>1, <4>1, <4>2 DEF Front
    <3>2. CASE ~Inside(q)
      BY <1>8, <3>2 DEF Front, Inside
    <3> QED
      BY <3>1, <3>2
  <2>2. InHand = << >>
    BY <1>8 DEF InHand
  <2>3. Front(q, asked, given, job.request) \in Seq(Int)
    BY <1>1, <1>3, FrontTyped DEF ReadSoFar
  <2> HIDE DEF first, numbers, q, given
  <2>4. Front(q, asked, given, job.request) \o Back(q, asked) \in Seq(Int)
    BY <1>6, <2>3, ConcatProperties
  <2>5. << >> \o (Front(q, asked, given, job.request) \o Back(q, asked))
          = Front(q, asked, given, job.request) \o Back(q, asked)
    BY <2>4, ConcatEmptySeq
  <2> QED
    BY <1>4, <1>5, <2>1, <2>2, <2>5 DEF Wire, q, given
<1> QED
  BY <1>7, <1>8

LEMMA WireIsNext ==
  ASSUME SystemInv', ReadSoFar'
  PROVE  OnWire' = Wire(aStream'[ChatEnd], asked', answers'[ChatEnd], job'.request)
<1>1. (SystemInv /\ ReadSoFar => OnWire = Wire(aStream[ChatEnd], asked, answers[ChatEnd], job.request))'
  BY WireIs, PTL
<1> QED
  BY <1>1

-----------------------------------------------------------------------------
(* Steps of the authentication server, as the chat server sees them *)

Unseen == answers' = answers /\ OnWire' = OnWire
Drops == answers' = answers /\ OnWire' \in Dropped(OnWire)
Gives ==
  /\ answers' # answers
  /\ OnWire # << >> /\ Number(Head(OnWire)) = asked[job.request.n]
  /\ \/ OnWire' \in Dropped(OnWire)
     \/ Head(OnWire) > 0 /\ OnWire' = <<-Head(OnWire)>> \o Tail(OnWire)
Seen == Unseen \/ Drops \/ Gives

LEMMA ReadTyped ==
  ASSUME SystemInv
  PROVE  /\ asked \in Seq(Nat) /\ Len(asked) \in Nat /\ Len(asked) <= Len(answers[ChatEnd]) + 1
         /\ answers[ChatEnd] \in Seq(Answer) /\ answers \in [{ChatEnd} -> Seq(Answer)]
         /\ job.request \in MaybeRequest /\ NoRequest \notin A!Request
         /\ aStream \in [{ChatEnd} -> Seq(A!Cell)]
         /\ aPc \in A!Handling => job.request \in A!Request
<1>1. A!TypeOK /\ A!JobInv /\ asked \in Seq(Nat) /\ Len(asked) <= Len(answers[ChatEnd]) + 1
  BY DEF SystemInv, A!AuthInv, AskedInv, WaitInv
<1>2. NoRequest \notin A!Request
  BY SystemAssumption DEF A!Request, Auth!Request
<1>3. job.request \in MaybeRequest /\ aStream \in [{ChatEnd} -> Seq(A!Cell)]
  BY <1>1 DEF A!TypeOK, MaybeRequest
<1>4. aPc \in A!Handling => job.request \in A!Request
  BY <1>1 DEF A!JobInv
<1> QED
  BY <1>1, <1>2, <1>3, <1>4, Lengths

\* Before the chat server has sent its name, it has sent no request.
LEMMA NothingYet ==
  ASSUME SystemInv, aPeer[ChatEnd] \in {"idle", "dialed"}
  PROVE  aStream[ChatEnd] = << >> /\ job.request = NoRequest
<1>1. A!NumbersInv /\ aNsent[ChatEnd] = 0
  BY DEF SystemInv, A!NumbersInv
<1>2. A!Known = {}
  <2> SUFFICES ASSUME NEW r \in A!Known PROVE FALSE
    OBVIOUS
  <2>1. r \in A!Request
    BY DEF A!Known, A!Streamed, A!Told, A!Stored
  <2>2. r.from = ChatEnd /\ r.n \in 1..MaxRequests
    BY <2>1 DEF A!Request
  <2>3. r.n <= 0
    BY <1>1, <2>2 DEF A!NumbersInv
  <2> QED
    BY <2>2, <2>3, SystemAssumption
<1>3. job.request = NoRequest
  BY <1>2, ReadTyped DEF MaybeRequest, A!Known
<1>4. aStream[ChatEnd] = << >>
  <2> SUFFICES ASSUME aStream[ChatEnd] # << >> PROVE FALSE
    OBVIOUS
  <2>1. aStream[ChatEnd] \in Seq(A!Cell)
    BY ReadTyped
  <2>2. 1 \in 1..Len(aStream[ChatEnd]) /\ aStream[ChatEnd][1].r \in A!Request
    BY <2>1, CellFacts
  <2>3. aStream[ChatEnd][1].r \in A!Known
    BY <2>2 DEF A!Known, A!Streamed
  <2> QED
    BY <1>2, <2>3
<1> QED
  BY <1>3, <1>4

\* Nothing is read, and at most what is in the buffer is forgotten.
LEMMA QuietSeen ==
  ASSUME SystemInv, SystemInv', ReadSoFar, UNCHANGED <<asked, aStream, answers>>,
         job'.request = job.request, aScratch' \in {aScratch, NoRequest}
  PROVE  ReadSoFar' /\ Seen
<1>1. ReadSoFar'
  BY DEF ReadSoFar, HasRead
<1>2. OnWire' = OnWire
  BY <1>1, WireIs, WireIsNext
<1> QED
  BY <1>1, <1>2 DEF Seen, Unseen

\* Something is received, and the handling of a request begins or not.
LEMMA ReceiveSeen ==
  ASSUME SystemInv, SystemInv', ReadSoFar, UNCHANGED <<asked, answers>>,
         job.request = NoRequest,
         BufLen > 1 \/ AuthWidth <= 2,
         LET q == aStream[ChatEnd]
             rest == After(q, BufLen)
         IN  /\ aStream'[ChatEnd] = rest /\ q # << >>
             /\ \/ job'.request = NoRequest /\ aScratch' = NoRequest
                \/ /\ q[1].k = 1 /\ aScratch' = q[1].r
                   /\ IF q[1].r.email \in LongEmail THEN job'.request = NoRequest
                      ELSE job'.request = q[1].r
                \/ /\ q[1].k # 1 /\ (Len(q) = 1 \/ BufLen = 1)
                   /\ aScratch # NoRequest /\ aScratch' = aScratch
                   /\ IF aScratch.email \in LongEmail THEN job'.request = NoRequest
                      ELSE job'.request = aScratch
  PROVE  ReadSoFar' /\ Seen
<1> DEFINE q == aStream[ChatEnd]
           rest == After(q, BufLen)
           given == answers[ChatEnd]
           latest == Len(asked)
<1>1. /\ asked \in Seq(Nat) /\ latest \in Nat /\ latest <= Len(given) + 1 /\ given \in Seq(Answer)
      /\ HasRead(q, latest, given, NoRequest, aScratch)
      /\ BufLen \in Nat /\ (BufLen # 1 \/ AuthWidth <= 2)
  BY ReadTyped, ConstantsAssumption DEF ReadSoFar
<1>2. /\ aStream'[ChatEnd] = rest /\ q # << >> /\ answers'[ChatEnd] = given /\ asked' = asked
      /\ answers' = answers
  OBVIOUS
<1>3. OnWire = Wire(q, asked, given, NoRequest)
  BY WireIs
<1>4. ReadSoFar' => OnWire' = Wire(rest, asked, given, job'.request)
  BY <1>2, WireIsNext
<1>5. ASSUME ReadSoFar', job'.request = NoRequest PROVE ReadSoFar' /\ Seen
  <2>1. OnWire' = OnWire \/ OnWire' \in Dropped(OnWire)
    BY <1>1, <1>3, <1>4, <1>5, SkipSeen
  <2> QED
    BY <1>2, <1>5, <2>1 DEF Seen, Unseen, Drops
<1>6. CASE job'.request = NoRequest /\ aScratch' = NoRequest
  <2>1. HasRead(rest, latest, given, NoRequest, NoRequest)
    BY <1>1, SkipRead
  <2>2. ReadSoFar'
    BY <1>2, <1>6, <2>1 DEF ReadSoFar
  <2> QED
    BY <1>5, <1>6, <2>2
<1>7. CASE /\ q[1].k = 1 /\ aScratch' = q[1].r
           /\ IF q[1].r.email \in LongEmail THEN job'.request = NoRequest
              ELSE job'.request = q[1].r
  <2>1. q[1].r # NoRequest
    BY <1>1, <1>2, ReadFacts
  <2>2. /\ job'.request \in {NoRequest, q[1].r}
        /\ job'.request = NoRequest => q[1].r.email \in LongEmail
    BY <1>7, <2>1
  <2>3. HasRead(rest, latest, given, job'.request, q[1].r)
    BY <1>1, <1>2, <1>7, <2>2, TakeRead
  <2>4. ReadSoFar'
    BY <1>2, <1>7, <2>3 DEF ReadSoFar
  <2>5. CASE q[1].r.email \in LongEmail
    BY <1>5, <1>7, <2>4, <2>5
  <2>6. CASE q[1].r.email \notin LongEmail
    <3>1. Wire(rest, asked, given, q[1].r) = Wire(q, asked, given, NoRequest)
      BY <1>1, <1>2, <1>7, <2>6, TakeSeen
    <3>2. OnWire' = OnWire
      BY <1>3, <1>4, <1>7, <2>4, <2>6, <3>1
    <3> QED
      BY <1>2, <2>4, <3>2 DEF Seen, Unseen
  <2> QED
    BY <2>5, <2>6
<1>8. CASE /\ q[1].k # 1 /\ (Len(q) = 1 \/ BufLen = 1)
           /\ aScratch # NoRequest /\ aScratch' = aScratch
           /\ IF aScratch.email \in LongEmail THEN job'.request = NoRequest
              ELSE job'.request = aScratch
  <2>1. Inside(q) /\ job'.request \in {NoRequest, aScratch}
    BY <1>2, <1>8 DEF Inside
  <2>2. HasRead(rest, latest, given, job'.request, aScratch)
    BY <1>1, <1>8, <2>1, AgainRead
  <2>3. ReadSoFar'
    BY <1>2, <1>8, <2>2 DEF ReadSoFar
  <2>4. CASE aScratch.email \in LongEmail
    BY <1>5, <1>8, <2>3, <2>4
  <2>5. CASE aScratch.email \notin LongEmail
    <3>1. Wire(rest, asked, given, aScratch) = Wire(q, asked, given, NoRequest)
      BY <1>1, <1>8, <2>1, <2>5, AgainSeen
    <3>2. OnWire' = OnWire
      BY <1>3, <1>4, <1>8, <2>3, <2>5, <3>1
    <3> QED
      BY <1>2, <2>3, <3>2 DEF Seen, Unseen
  <2> QED
    BY <2>4, <2>5
<1> QED
  BY <1>6, <1>7, <1>8

\* What is behind the first element
LEMMA BehindFirst ==
  ASSUME NEW x \in Int, NEW t \in Seq(Int)
  PROVE  /\ <<x>> \o t # << >> /\ Head(<<x>> \o t) = x /\ Tail(<<x>> \o t) = t
         /\ t \in Dropped(<<x>> \o t)
<1> DEFINE w == <<x>> \o t
           v == SubSeq(w, 2, Len(w))
<1>1. /\ w \in Seq(Int) /\ Len(w) = 1 + Len(t)
      /\ \A i \in 1..(1 + Len(t)) : w[i] = IF i <= 1 THEN x ELSE t[i - 1]
  <2> DEFINE one == <<x>>
  <2>1. one \in Seq(Int) /\ Len(one) = 1 /\ one[1] = x
    OBVIOUS
  <2> HIDE DEF one
  <2>2. /\ one \o t \in Seq(Int) /\ Len(one \o t) = Len(one) + Len(t)
        /\ \A i \in 1..(Len(one) + Len(t)) :
             (one \o t)[i] = IF i <= Len(one) THEN one[i] ELSE t[i - Len(one)]
    BY <2>1, ConcatProperties
  <2>3. \A i \in 1..(1 + Len(t)) : (one \o t)[i] = IF i <= 1 THEN x ELSE t[i - 1]
    <3> SUFFICES ASSUME NEW i \in 1..(1 + Len(t))
                 PROVE  (one \o t)[i] = IF i <= 1 THEN x ELSE t[i - 1]
      OBVIOUS
    <3>1. i <= 1 => i = 1
      BY LenProperties
    <3> QED
      BY <2>1, <2>2, <3>1
  <2> QED
    BY <2>1, <2>2, <2>3 DEF one
<1>2. Len(t) \in Nat
  BY LenProperties
<1> HIDE DEF w
<1>3. w # << >>
  BY <1>1, <1>2, EmptySeq
<1>4. w[1] = x
  BY <1>1, <1>2
<1>5. Head(w) = x
  BY <1>1, <1>3, <1>4
<1>6. /\ v \in Seq(Int) /\ Len(v) = Len(t)
      /\ \A j \in 1..Len(t) : v[j] = t[j]
  <2> DEFINE n == Len(w)
  <2>1. n = 1 + Len(t) /\ n \in Nat
    BY <1>1, <1>2
  <2>2. \A j \in 2..n : w[j] \in Int
    <3>1. \A j \in 1..n : w[j] \in Int
      BY <1>1, ElementOfSeq
    <3> HIDE DEF n
    <3> QED
      BY <2>1, <3>1
  <2> HIDE DEF n
  <2>3. /\ SubSeq(w, 2, n) \in Seq(Int)
        /\ Len(SubSeq(w, 2, n)) = IF 2 <= n THEN n - 2 + 1 ELSE 0
        /\ \A j \in 1..(n - 2 + 1) : SubSeq(w, 2, n)[j] = w[2 + j - 1]
    BY <2>1, <2>2, SubSeqProperties
  <2>4. n - 2 + 1 = Len(t) /\ (~(2 <= n) => Len(t) = 0)
    BY <1>2, <2>1
  <2>5. \A j \in 1..Len(t) : w[2 + j - 1] = t[j]
    <3> SUFFICES ASSUME NEW j \in 1..Len(t) PROVE w[2 + j - 1] = t[j]
      OBVIOUS
    <3>1. j + 1 \in 1..(1 + Len(t)) /\ ~(j + 1 <= 1) /\ (j + 1) - 1 = j /\ 2 + j - 1 = j + 1
      BY <1>2
    <3>2. w[j + 1] = t[(j + 1) - 1]
      BY <1>1, <3>1
    <3> QED
      BY <3>1, <3>2
  <2>6. Len(SubSeq(w, 2, n)) = Len(t)
    BY <2>3, <2>4
  <2>7. \A j \in 1..Len(t) : SubSeq(w, 2, n)[j] = t[j]
    BY <2>3, <2>4, <2>5
  <2> QED
    BY <2>3, <2>6, <2>7 DEF n
<1>7. v = t
  <2> HIDE DEF v
  <2>1. \A j \in 1..Len(v) : v[j] = t[j]
    BY <1>6
  <2> QED
    BY <1>6, <2>1, SeqEqual
<1>8. Tail(w) = t
  <2> DEFINE u == Tail(w)
  <2>1. u \in Seq(Int) /\ Len(u) = Len(w) - 1 /\ \A i \in 1..Len(u) : u[i] = w[i + 1]
    BY <1>1, <1>3, HeadTailProperties
  <2> HIDE DEF u
  <2>2. Len(u) = Len(t)
    BY <1>1, <1>2, <2>1
  <2>3. \A i \in 1..Len(u) : u[i] = t[i]
    <3> SUFFICES ASSUME NEW i \in 1..Len(u) PROVE u[i] = t[i]
      OBVIOUS
    <3>1. i + 1 \in 1..(1 + Len(t)) /\ ~(i + 1 <= 1) /\ (i + 1) - 1 = i
      BY <1>2, <2>2
    <3> QED
      BY <1>1, <2>1, <3>1
  <2>4. u = t
    BY <2>1, <2>2, <2>3, SeqEqual
  <2> QED
    BY <2>4 DEF u
<1>9. t \in Dropped(w)
  <2>1. 2 \in 2..(Len(w) + 1)
    BY <1>1, <1>2
  <2> QED
    BY <1>7, <2>1 DEF Dropped, v
<1> QED
  BY <1>3, <1>5, <1>8, <1>9 DEF w

\* The connection is accepted: cells behind the name may be lost with it.
LEMMA RegisterSeen ==
  ASSUME SystemInv, SystemInv', ReadSoFar, PassInv, asked' = asked, A!Register(ChatEnd)
  PROVE  ReadSoFar' /\ Seen /\ PassInv'
<1> DEFINE q == aStream[ChatEnd]
           b == BufLen - 1
           given == answers[ChatEnd]
<1>1. /\ aPc = "accept" /\ aBacklog # << >> /\ aPeer[ChatEnd] \in {"open", "closed"}
      /\ aBacklog' = Tail(aBacklog) /\ aConnected' = aConnected \cup {ChatEnd}
      /\ aScratch' \in {aScratch, NoRequest} /\ aPc' \in {"select", "serve"}
      /\ aStream' = [aStream EXCEPT ![ChatEnd] = SubSeq(@, BufLen, Len(@))]
      /\ UNCHANGED <<aPeer, answers, job>>
  BY DEF A!Register, A!Resume, A!peerVars
<1>2. aBacklog = <<ChatEnd>> /\ ChatEnd \notin aConnected /\ aScratch = NoRequest
      /\ job.request = NoRequest
  BY <1>1 DEF PassInv
<1>3. b \in Nat /\ b + 1 = BufLen
  BY ConstantsAssumption
<1>4. aStream'[ChatEnd] = After(q, b)
  BY <1>1, <1>3, ReadTyped DEF After
<1> HIDE DEF b
<1>5. /\ asked \in Seq(Nat) /\ Len(asked) \in Nat /\ given \in Seq(Answer)
      /\ HasRead(q, Len(asked), given, NoRequest, NoRequest)
  BY <1>2, ReadTyped DEF ReadSoFar
<1>6. HasRead(After(q, b), Len(asked), given, NoRequest, NoRequest)
  BY <1>3, <1>5, SkipRead
<1>7. ReadSoFar'
  BY <1>1, <1>2, <1>4, <1>6 DEF ReadSoFar
<1>8. /\ OnWire = Wire(q, asked, given, NoRequest)
      /\ OnWire' = Wire(After(q, b), asked, given, NoRequest)
  BY <1>1, <1>2, <1>4, <1>7, WireIs, WireIsNext
<1>9. OnWire' = OnWire \/ OnWire' \in Dropped(OnWire)
  BY <1>3, <1>5, <1>8, SkipSeen
<1>10. aBacklog' = << >> /\ ChatEnd \in aConnected'
  BY <1>1, <1>2
<1>11. PassInv'
  BY <1>1, <1>2, <1>10 DEF PassInv
<1> QED
  BY <1>1, <1>7, <1>9, <1>11 DEF Seen, Unseen, Drops

\* Data is received.
LEMMA ReadSeen ==
  ASSUME SystemInv, SystemInv', ReadSoFar, PassInv, asked' = asked,
         BufLen > 1 \/ AuthWidth <= 2, A!ReadRequest(ChatEnd) \/ A!ReadTail(ChatEnd)
  PROVE  ReadSoFar' /\ Seen /\ PassInv'
<1> DEFINE q == aStream[ChatEnd]
           rest == After(q, BufLen)
<1>1. /\ aPc = "serve" /\ q # << >> /\ ChatEnd \in aConnected
      /\ aStream' = [aStream EXCEPT ![ChatEnd] = A!Rest(@)]
      /\ UNCHANGED <<aPeer, aBacklog, answers, aConnected>>
  BY DEF A!ReadRequest, A!ReadTail, A!Serving, A!peerVars, A!tableVars
<1>2. job.request = NoRequest
  BY <1>1 DEF PassInv
<1>3. q \in Seq(A!Cell) /\ Head(q) = q[1] /\ Len(q) \in Nat \ {0} /\ BufLen \in Nat \ {0}
  <2>1. q \in Seq(A!Cell)
    BY ReadTyped
  <2> HIDE DEF q
  <2> QED
    BY <1>1, <2>1, CellFacts, ConstantsAssumption
<1>4. aStream'[ChatEnd] = rest
  BY <1>1, ReadTyped DEF After, A!Rest
<1>5. ASSUME NEW r, A!Handle(ChatEnd, r)
      PROVE  /\ IF r.email \in LongEmail THEN job'.request = NoRequest ELSE job'.request = r
             /\ aPc' \in {"select", "accept", "serve"} => job'.request = NoRequest
  BY <1>5 DEF A!Handle, A!Done, A!Resume, A!NoJob
<1>6. ASSUME A!Ignore(ChatEnd)
      PROVE  job'.request = NoRequest
  BY <1>6 DEF A!Ignore, A!NoJob
<1>7. Len(A!Chunk(q)) = 1 => Len(q) = 1 \/ BufLen = 1
  <2> DEFINE n == Len(q)
             m == IF n < BufLen THEN n ELSE BufLen
  <2>1. n \in Nat \ {0} /\ \A j \in 1..n : q[j] \in A!Cell
    BY <1>3, ElementOfSeq
  <2> HIDE DEF n
  <2>2. m \in 1..n /\ (m = 1 => n = 1 \/ BufLen = 1)
    BY <1>3, <2>1
  <2>3. \A j \in 1..m : q[j] \in A!Cell
    BY <2>1, <2>2
  <2> HIDE DEF m
  <2>4. Len(SubSeq(q, 1, m)) = IF 1 <= m THEN m - 1 + 1 ELSE 0
    BY <2>1, <2>2, <2>3, SubSeqProperties
  <2>5. Len(SubSeq(q, 1, m)) = m
    BY <2>1, <2>2, <2>4
  <2>6. A!Chunk(q) = SubSeq(q, 1, m)
    BY DEF A!Chunk, m, n
  <2> QED
    BY <2>2, <2>5, <2>6 DEF n
<1>8. CASE A!ReadRequest(ChatEnd)
  <2>1. q[1].k = 1 /\ aScratch' = q[1].r /\ A!Handle(ChatEnd, q[1].r)
    BY <1>3, <1>8 DEF A!ReadRequest
  <2>2. /\ IF q[1].r.email \in LongEmail THEN job'.request = NoRequest ELSE job'.request = q[1].r
        /\ aPc' \in {"select", "accept", "serve"} => job'.request = NoRequest
    BY <1>5, <2>1
  <2>3. ReadSoFar' /\ Seen
    BY <1>1, <1>2, <1>4, <2>1, <2>2, ReceiveSeen
  <2> QED
    BY <1>1, <2>2, <2>3 DEF PassInv
<1>9. CASE A!ReadTail(ChatEnd)
  <2>1. q[1].k # 1
    BY <1>3, <1>9 DEF A!ReadTail
  <2>2. CASE A!Ignore(ChatEnd) /\ aScratch' = NoRequest
    <3>1. job'.request = NoRequest
      BY <1>6, <2>2
    <3>2. ReadSoFar' /\ Seen
      BY <1>1, <1>2, <1>4, <2>2, <3>1, ReceiveSeen
    <3> QED
      BY <1>1, <3>1, <3>2 DEF PassInv
  <2>3. CASE Len(A!Chunk(q)) = 1 /\ A!Reread(ChatEnd) /\ UNCHANGED aScratch
    <3>1. aScratch # NoRequest /\ A!Handle(ChatEnd, aScratch)
      BY <2>3 DEF A!Reread
    <3>2. /\ IF aScratch.email \in LongEmail THEN job'.request = NoRequest
             ELSE job'.request = aScratch
          /\ aPc' \in {"select", "accept", "serve"} => job'.request = NoRequest
      BY <1>5, <3>1
    <3>3. ReadSoFar' /\ Seen
      BY <1>1, <1>2, <1>4, <1>7, <2>1, <2>3, <3>1, <3>2, ReceiveSeen
    <3> QED
      BY <1>1, <3>2, <3>3 DEF PassInv
  <2> QED
    BY <1>9, <2>2, <2>3 DEF A!ReadTail
<1> QED
  BY <1>8, <1>9

\* An answer is given.
LEMMA AnswerSeen ==
  ASSUME SystemInv, SystemInv', ReadSoFar, PassInv, asked' = asked,
         aPeer[ChatEnd] # "reset", A!Reply(ChatEnd)
  PROVE  ReadSoFar' /\ Seen /\ PassInv'
<1> DEFINE q == aStream[ChatEnd]
           given == answers[ChatEnd]
           r == job.request
           a == [request |-> job.request, outcome |-> job.outcome]
           n == r.n
           back == Back(q, asked)
<1>1. /\ aPc = "reply" /\ ChatEnd \in aConnected
      /\ answers' = [answers EXCEPT ![ChatEnd] = Append(@, a)]
      /\ job' = A!NoJob /\ aPc' \in {"select", "serve"}
      /\ UNCHANGED <<aPeer, aBacklog, aStream, aConnected, aScratch>>
  BY DEF A!Reply, A!Broken, A!Serving, A!Done, A!Resume, A!peerVars, A!tableVars
<1>2. r \in A!Request /\ job'.request = NoRequest
  BY <1>1, ReadTyped DEF A!Handling, A!NoJob
<1>3. a \in Answer /\ a.request = r
  <2>1. job.outcome \in A!Outcome
    BY DEF SystemInv, A!AuthInv, A!TypeOK
  <2> QED
    BY <1>2, <2>1 DEF Answer
<1>4. /\ asked \in Seq(Nat) /\ Len(asked) \in Nat /\ given \in Seq(Answer)
      /\ HasRead(q, Len(asked), given, r, aScratch)
      /\ answers \in [{ChatEnd} -> Seq(Answer)] /\ r \in MaybeRequest
  BY ReadTyped DEF ReadSoFar
<1> HIDE DEF a
<1>5. answers'[ChatEnd] = Append(given, a) /\ answers' # answers
  <2>1. answers'[ChatEnd] = Append(given, a)
    BY <1>1, <1>4
  <2>2. Len(Append(given, a)) = Len(given) + 1 /\ Len(given) \in Nat
    BY <1>3, <1>4, AppendProperties, LenProperties
  <2> QED
    BY <2>1, <2>2
<1> HIDE DEF r
<1>6. HasRead(q, Len(asked), Append(given, a), NoRequest, aScratch)
  BY <1>2, <1>3, <1>4, ReplyRead
<1>7. ReadSoFar'
  BY <1>1, <1>2, <1>5, <1>6 DEF ReadSoFar
<1>8. /\ OnWire = Wire(q, asked, given, r)
      /\ OnWire' = Wire(q, asked, Append(given, a), NoRequest)
  BY <1>1, <1>2, <1>5, <1>7, WireIs, WireIsNext DEF r
<1> DEFINE x == IF AnsweredIn(given, r) THEN -asked[n] ELSE asked[n]
<1>9. /\ OnWire = <<x>> \o back
      /\ OnWire' = << >> \o back \/ (x = asked[n] /\ OnWire' = <<-x>> \o back)
  <2>1. LET y == IF AnsweredIn(given, r) THEN -asked[r.n] ELSE asked[r.n]
            now == Wire(q, asked, Append(given, a), NoRequest)
        IN  /\ Wire(q, asked, given, r) = <<y>> \o Back(q, asked)
            /\ now = << >> \o Back(q, asked) \/ (y = asked[r.n] /\ now = <<-y>> \o Back(q, asked))
    BY <1>2, <1>3, <1>4, ReplySeen
  <2> QED
    BY <1>8, <2>1
<1>10. n \in 1..Len(asked) /\ asked[n] \in Nat /\ asked[n] >= 1
  <2>1. job.request \in A!Known
    BY <1>2 DEF A!Known, r
  <2>2. job.request.n \in 1..Len(asked)
    BY <2>1, KnownAsked DEF SystemInv
  <2>3. asked[job.request.n] \in 1..Len(log) /\ asked[job.request.n] \in Nat
    BY <2>1, <2>2, KnownAsked DEF SystemInv
  <2>4. Len(log) \in Nat
    BY Lengths
  <2> QED
    BY <2>2, <2>3, <2>4 DEF r
<1>11. back \in Seq(Int)
  <2>1. FirstWhole(q, Len(asked)) \in 1..(Len(asked) + 1)
    BY <1>4, ReadFacts
  <2> QED
    BY <1>4, <2>1, BackTyped DEF Back
<1>12. x \in Int /\ Number(x) = asked[n] /\ (x = asked[n] => x > 0)
  BY <1>10 DEF Number
<1> HIDE DEF x, back, n
<1>13. /\ OnWire # << >> /\ Head(OnWire) = x /\ Tail(OnWire) = back
       /\ back \in Dropped(OnWire)
  BY <1>9, <1>11, <1>12, BehindFirst
<1>14. << >> \o back = back
  BY <1>11, ConcatEmptySeq
<1>15. OnWire' \in Dropped(OnWire) \/ (Head(OnWire) > 0 /\ OnWire' = <<-Head(OnWire)>> \o Tail(OnWire))
  BY <1>9, <1>12, <1>13, <1>14
<1>16. Gives
  BY <1>5, <1>12, <1>13, <1>15 DEF Gives, n, r
<1>17. PassInv'
  BY <1>1, <1>2 DEF PassInv
<1> QED
  BY <1>7, <1>16, <1>17 DEF Seen

\* Every step of the server's loop
LEMMA ServerSeen ==
  ASSUME SystemInv, SystemInv', ReadSoFar, PassInv, asked' = asked,
         BufLen > 1 \/ AuthWidth <= 2, A!ServerStep,
         aPeer[ChatEnd] \in {"idle", "dialed", "open"}
  PROVE  ReadSoFar' /\ Seen /\ PassInv'
<1>1. CASE A!Select
  <2>1. /\ aPc = "select" /\ UNCHANGED <<aPeer, aBacklog, aStream, answers, aConnected, aScratch, job>>
    BY <1>1 DEF A!Select, A!peerVars, A!tableVars
  <2>2. ReadSoFar' /\ Seen
    BY <2>1, QuietSeen
  <2> QED
    BY <2>1, <2>2 DEF PassInv
<1>2. CASE A!Execute
  <2>1. /\ UNCHANGED <<aPeer, aBacklog, aStream, answers, aConnected, aScratch>>
        /\ aPc' \notin {"select", "accept", "serve"}
    BY <1>2 DEF A!Execute, A!InsertUser, A!LastUser, A!InsertAuth, A!DeleteUser, A!FindAuth, A!Found,
                A!UpdateUser, A!FindUser, A!Finish, A!Goto, A!Abort, A!peerVars, A!tableVars
  <2>2. job'.request = job.request
    <3>1. job \in [request : A!Request \cup {NoRequest}, id : Nat, outcome : A!Outcome]
      BY DEF SystemInv, A!AuthInv, A!TypeOK
    <3> QED
      BY <1>2, <3>1
      DEF A!Execute, A!InsertUser, A!LastUser, A!InsertAuth, A!DeleteUser, A!FindAuth, A!Found,
          A!UpdateUser, A!FindUser, A!Finish, A!Goto, A!Abort
  <2>3. ReadSoFar' /\ Seen
    BY <2>1, <2>2, QuietSeen
  <2> QED
    BY <2>1, <2>3 DEF PassInv
<1>3. CASE A!Register(ChatEnd)
  BY <1>3, RegisterSeen
<1>4. CASE A!ReadRequest(ChatEnd) \/ A!ReadTail(ChatEnd)
  BY <1>4, ReadSeen
<1>5. CASE A!Reply(ChatEnd)
  BY <1>5, AnswerSeen
<1>6. ~A!AcceptFails(ChatEnd) /\ ~A!Disconnect(ChatEnd) /\ ~A!ReadError(ChatEnd)
  BY DEF A!AcceptFails, A!Disconnect, A!ReadError, A!Broken
<1> QED
  BY <1>1, <1>2, <1>3, <1>4, <1>5, <1>6 DEF A!ServerStep

\* The steps of the authentication server's process
LEMMA AuthSeen ==
  ASSUME SystemInv, SystemInv', EndsInv, BufLen > 1 \/ AuthWidth <= 2,
         Auth!ServerStep \/ Auth!Crash \/ Auth!Start, AuthMoves
  PROVE  EndsInv' /\ (Linked' => Linked /\ Seen /\ toAuth' = OnWire')
<1> SUFFICES ASSUME Linked'
             PROVE  /\ ReadSoFar' /\ PassInv' /\ toAuth' = OnWire'
                    /\ Linked /\ Seen
  BY DEF EndsInv
<1>1. /\ Linked /\ toAuth' = OnWire' /\ asked' = asked
      /\ aPc' = "down" => aPeer[ChatEnd] = "idle"
  BY DEF AuthMoves, Linked, Running, serverVars, historyVars
<1>2. /\ ReadSoFar /\ PassInv
      /\ aPeer[ChatEnd] \in {"idle", "dialed", "open"}
      /\ aPc = "down" => aPeer[ChatEnd] = "idle"
  BY <1>1 DEF EndsInv, SystemInv, LinkInv
<1>3. CASE Auth!ServerStep
  <2>1. A!ServerStep
    BY <1>3, SameServerStep
  <2>2. ReadSoFar' /\ Seen /\ PassInv'
    BY <1>1, <1>2, <2>1, ServerSeen
  <2> QED
    BY <1>1, <2>2
<1>4. CASE Auth!Crash
  <2>1. /\ UNCHANGED <<aPeer, aBacklog, aStream, answers, aConnected, aScratch, job>>
        /\ aPc' = "down"
    BY <1>4 DEF Auth!Crash, Auth!peerVars, Auth!tableVars
  <2>2. ReadSoFar' /\ Seen
    BY <1>1, <1>2, <2>1, QuietSeen
  <2>3. PassInv'
    BY <1>2, <2>1 DEF PassInv
  <2> QED
    BY <1>1, <2>2, <2>3
<1>5. CASE Auth!Start
  <2>1. /\ aPc = "down" /\ answers' = answers /\ aStream' = [c \in {ChatEnd} |-> << >>]
        /\ aBacklog' = << >> /\ aConnected' = {} /\ aScratch' = NoRequest
        /\ job'.request = NoRequest
    BY <1>5 DEF Auth!Start, Auth!NoJob
  <2>2. aStream[ChatEnd] = << >> /\ job.request = NoRequest
    BY <1>2, <2>1, NothingYet
  <2>3. aStream' = aStream
    BY <2>1, <2>2, ReadTyped
  <2>4. ReadSoFar' /\ Seen
    BY <1>1, <1>2, <2>1, <2>2, <2>3, QuietSeen
  <2>5. PassInv'
    BY <2>1 DEF PassInv
  <2> QED
    BY <1>1, <2>4, <2>5
<1> QED
  BY <1>3, <1>4, <1>5

LEMMA NothingDropped == Dropped(<< >>) = {}
<1>1. Len(<< >>) = 0
  BY EmptySeq
<1>2. 2..(0 + 1) = {}
  OBVIOUS
<1> QED
  BY <1>1, <1>2 DEF Dropped

\* They are steps of the environment that ChatServer.tla assumes.
LEMMA AuthMapped ==
  ASSUME SystemInv, SystemInv', EndsInv, BufLen > 1 \/ AuthWidth <= 2,
         {"unparsed", "repeat", "authloss"} \subseteq Faults,
         Auth!ServerStep \/ Auth!Crash \/ Auth!Start, AuthMoves
  PROVE  [Next]_vars
<1>1. UNCHANGED <<clientVars, stream, serverVars, wsaRefs>>
  BY DEF AuthMoves
<1>2. CASE authLink # "up" \/ ~Running
  BY <1>1, <1>2 DEF AuthMoves, vars, serverVars, authVars
<1>3. CASE Linked /\ aPc' = "down" /\ aPeer[ChatEnd] # "idle"
  <2>1. AuthDies
    BY <1>1, <1>3 DEF AuthMoves, AuthDies, Linked
  <2> QED
    BY <2>1 DEF Next
<1>4. CASE Linked /\ ~(aPc' = "down" /\ aPeer[ChatEnd] # "idle")
  <2>1. /\ toAuth' = OnWire' /\ authLink' = authLink /\ authLink = "up" /\ Running
        /\ fromAuth' =
             IF answers' = answers THEN fromAuth
             ELSE fromAuth \o [k \in 1..AnswerWidth |-> [of |-> asked[job.request.n], k |-> k]]
    BY <1>4 DEF AuthMoves, Linked
  <2>2. Linked'
    BY <1>1, <2>1 DEF Linked, Running, serverVars
  <2>3. Seen /\ toAuth = OnWire
    BY <1>4, <2>2, AuthSeen DEF EndsInv
  <2>4. CASE Unseen
    BY <1>1, <2>1, <2>3, <2>4 DEF Unseen, vars, serverVars, authVars
  <2>5. CASE Drops
    <3>1. toAuth # << >> /\ toAuth' \in Dropped(toAuth) /\ fromAuth' = fromAuth
      BY <2>1, <2>3, <2>5, NothingDropped DEF Drops
    <3>2. AuthIgnores
      BY <1>1, <2>1, <3>1 DEF AuthIgnores
    <3> QED
      BY <3>2 DEF Next, AuthStep
  <2>6. CASE Gives
    <3>1. /\ toAuth # << >> /\ Number(Head(toAuth)) = asked[job.request.n]
          /\ \/ toAuth' \in Dropped(toAuth)
             \/ Head(toAuth) > 0 /\ toAuth' = <<-Head(toAuth)>> \o Tail(toAuth)
      BY <2>1, <2>3, <2>6 DEF Gives
    <3>2. fromAuth' = fromAuth \o AuthAnswer
      BY <2>1, <2>6, <3>1 DEF Gives, AuthAnswer
    <3>3. AuthAnswers \/ AuthRepeats
      BY <1>1, <2>1, <3>1, <3>2 DEF AuthAnswers, AuthRepeats
    <3> QED
      BY <3>3 DEF Next, AuthStep
  <2> QED
    BY <2>3, <2>4, <2>5, <2>6 DEF Seen
<1> QED
  BY <1>2, <1>3, <1>4 DEF Linked

\* The steps of the chat server and of its users
LEMMA ChatSeen ==
  ASSUME SystemInv, SystemInv', EndsInv, ChatStep, ChatMoves
  PROVE  EndsInv'
<1> SUFFICES ASSUME Linked'
             PROVE  ReadSoFar' /\ PassInv' /\ toAuth' = OnWire'
  BY DEF EndsInv
<1>1. /\ Effect
      /\ \/ Asks /\ authLink = "up" /\ Forward /\ Len(log') = Len(log) + 1
         \/ Asks /\ authLink # "up" /\ UNCHANGED <<authServerVars, asked>>
         \/ ~Asks /\ UNCHANGED <<authServerVars, asked>>
  BY ForwardsWhatItAsks
<1>2. Linked
  BY <1>1, ChatRuns DEF Linked, Effect
<1>3. ReadSoFar /\ PassInv /\ toAuth = OnWire
  BY <1>2 DEF EndsInv
<1> DEFINE q == aStream[ChatEnd]
           given == answers[ChatEnd]
<1>4. /\ asked \in Seq(Nat) /\ Len(asked) \in Nat /\ given \in Seq(Answer)
      /\ job.request \in MaybeRequest
      /\ HasRead(q, Len(asked), given, job.request, aScratch)
      /\ OnWire = Wire(q, asked, given, job.request)
      /\ aStream \in [{ChatEnd} -> Seq(A!Cell)]
  BY <1>3, ReadTyped, WireIs DEF ReadSoFar
<1>5. CASE Asks /\ authLink = "up" /\ Forward /\ Len(log') = Len(log) + 1
  <2>1. PICK email \in Email, password \in Password :
          LET r == [id |-> IF log'[Len(log')].p.id = "CREATE" THEN "REGISTER" ELSE "LOGIN",
                    email |-> email, password |-> password,
                    from |-> ChatEnd, n |-> aNsent[ChatEnd] + 1]
          IN  aStream' = [aStream EXCEPT ![ChatEnd] =
                            @ \o [k \in 1..AuthWidth |-> [r |-> r, k |-> k]]]
    BY <1>5 DEF Forward
  <2> DEFINE r == [id |-> IF log'[Len(log')].p.id = "CREATE" THEN "REGISTER" ELSE "LOGIN",
                   email |-> email, password |-> password,
                   from |-> ChatEnd, n |-> aNsent[ChatEnd] + 1]
             x == Len(log')
  <2>2. /\ aNsent[ChatEnd] = Len(asked) /\ MaxRequests \in Nat /\ Len(asked) < MaxRequests
    BY <1>5, SystemAssumption DEF SystemInv, AskedInv, Forward
  <2>3. r \in A!Request /\ r.n = Len(asked) + 1
    BY <1>4, <2>2 DEF A!Request
  <2>4. aStream' = [aStream EXCEPT ![ChatEnd] = @ \o [k \in 1..AuthWidth |-> [r |-> r, k |-> k]]]
    BY <2>1
  <2> HIDE DEF r
  <2>5. aStream'[ChatEnd] = q \o CellsOf(r)
    BY <1>4, <2>4 DEF CellsOf
  <2>6. /\ asked' = Append(asked, x) /\ toAuth' = Append(toAuth, x)
        /\ UNCHANGED <<aPeer, aBacklog, answers, aConnected, aPc, aScratch, job>>
    BY <1>5 DEF Forward, Asks
  <2>7. x \in Nat
    <3>1. Len(log) \in Nat
      BY Lengths
    <3> QED
      BY <1>5, <3>1
  <2> HIDE DEF x
  <2>8. Len(asked') = Len(asked) + 1
    BY <1>4, <2>6, <2>7, AppendProperties
  <2>9. HasRead(q \o CellsOf(r), Len(asked) + 1, given, job.request, aScratch)
    BY <1>4, <2>3, MoreRead
  <2>10. ReadSoFar'
    BY <2>5, <2>6, <2>8, <2>9 DEF ReadSoFar
  <2>11. OnWire' = Wire(q \o CellsOf(r), Append(asked, x), given, job.request)
    BY <2>5, <2>6, <2>10, WireIsNext
  <2>12. OnWire' = Append(OnWire, x)
    <3>1. Wire(q \o CellsOf(r), Behind(asked, x), given, job.request)
            = Behind(Wire(q, asked, given, job.request), x)
      <4> HIDE DEF q, given
      <4> QED
        BY <1>4, <2>3, <2>7, MoreSeen
    <3> QED
      BY <1>4, <2>11, <3>1 DEF Behind
  <2>13. PassInv'
    BY <1>3, <2>6 DEF PassInv
  <2> QED
    BY <1>3, <2>6, <2>10, <2>12, <2>13
<1>6. CASE ~Asks /\ UNCHANGED <<authServerVars, asked>>
  <2>1. /\ UNCHANGED <<aPeer, aBacklog, aStream, answers, aConnected, aPc, aScratch, job>>
        /\ asked' = asked
    BY <1>6 DEF authServerVars
  <2>2. toAuth' = toAuth
    BY <1>1, <1>6 DEF Effect, Takes, Neither
  <2>3. ReadSoFar' /\ PassInv'
    BY <1>3, <2>1 DEF ReadSoFar, PassInv
  <2>4. OnWire' = OnWire
    BY <1>4, <2>1, <2>3, WireIsNext
  <2> QED
    BY <1>3, <2>2, <2>3, <2>4
<1> QED
  BY <1>1, <1>2, <1>5, <1>6 DEF Linked

\* The others
LEMMA OtherSeen ==
  ASSUME SystemInv, SystemInv', EndsInv, UNCHANGED <<vars, historyVars>>,
         StartChatServer \/ Auth!SelectTimeout \/ UNCHANGED authServerVars
  PROVE  EndsInv'
<1>1. UNCHANGED <<authLink, pc, toAuth, asked>>
  BY DEF vars, authVars, historyVars
<1> SUFFICES ASSUME Linked'
             PROVE  ReadSoFar' /\ PassInv' /\ toAuth' = OnWire'
  BY DEF EndsInv
<1>2. ReadSoFar /\ PassInv /\ toAuth = OnWire
  BY <1>1 DEF EndsInv, Linked, Running
<1>3. /\ UNCHANGED <<aStream, answers, aConnected, aPc, aScratch, job>>
      /\ \/ UNCHANGED <<aPeer, aBacklog>>
         \/ /\ aPeer[ChatEnd] = "idle" /\ aBacklog' = Append(aBacklog, ChatEnd)
            /\ aPeer' = [aPeer EXCEPT ![ChatEnd] = "dialed"]
         \/ /\ aPeer[ChatEnd] = "dialed" /\ aBacklog' = aBacklog
            /\ aPeer' = [aPeer EXCEPT ![ChatEnd] = "open"]
  <2>1. CASE UNCHANGED authServerVars
    BY <2>1 DEF authServerVars
  <2>2. CASE Auth!SelectTimeout
    BY <2>2 DEF Auth!SelectTimeout, Auth!vars, Auth!peerVars, Auth!tableVars
  <2>3. CASE StartChatServer
    BY <2>3 DEF StartChatServer, Auth!Connect, Auth!SendName, Auth!serverVars, Auth!tableVars
  <2> QED
    BY <2>1, <2>2, <2>3
<1>4. ReadSoFar'
  BY <1>1, <1>2, <1>3 DEF ReadSoFar
<1>5. OnWire' = OnWire
  BY <1>1, <1>2, <1>3, <1>4, WireIs, WireIsNext
<1>6. PassInv'
  <2>1. CASE UNCHANGED <<aPeer, aBacklog>>
    BY <1>2, <1>3, <2>1 DEF PassInv
  <2>2. CASE /\ aPeer[ChatEnd] = "idle" /\ aBacklog' = Append(aBacklog, ChatEnd)
             /\ aPeer' = [aPeer EXCEPT ![ChatEnd] = "dialed"]
    <3>1. aBacklog = << >> /\ ChatEnd \notin aConnected
      BY <1>2, <2>2 DEF PassInv
    <3>2. aBacklog' = <<ChatEnd>>
      BY <2>2, <3>1
    <3>3. aPeer'[ChatEnd] = "dialed"
      BY <2>2, Lengths
    <3> QED
      BY <1>2, <1>3, <3>1, <3>2, <3>3 DEF PassInv
  <2>3. CASE /\ aPeer[ChatEnd] = "dialed" /\ aBacklog' = aBacklog
             /\ aPeer' = [aPeer EXCEPT ![ChatEnd] = "open"]
    <3>1. aPeer'[ChatEnd] = "open"
      BY <2>3, Lengths
    <3> QED
      BY <1>2, <1>3, <2>3, <3>1 DEF PassInv
  <2> QED
    BY <1>3, <2>1, <2>2, <2>3
<1> QED
  BY <1>1, <1>2, <1>4, <1>5, <1>6

LEMMA EndsInitially == SystemInit => EndsInv
<1> SUFFICES ASSUME SystemInit PROVE ReadSoFar /\ PassInv /\ toAuth = OnWire
  BY DEF EndsInv
<1>1. /\ aStream[ChatEnd] = << >> /\ answers[ChatEnd] = << >> /\ job.request = NoRequest
      /\ aScratch = NoRequest /\ asked = << >> /\ toAuth = << >>
      /\ aBacklog = << >> /\ aConnected = {}
  BY DEF SystemInit, Init, Auth!Init, Auth!NoJob
<1>2. Len(<< >>) = 0 /\ << >> \in Seq(A!Cell) /\ << >> \in Seq(Int)
  BY EmptySeq
<1>3. InSequence(<< >>, 0)
  <2>1. 1..0 = {}
    OBVIOUS
  <2> QED
    BY <1>2, <2>1 DEF InSequence, InOrder, Complete
<1>4. FirstWhole(<< >>, 0) = 1 /\ ~Inside(<< >>)
  BY DEF FirstWhole, Inside
<1>5. HasRead(<< >>, 0, << >>, NoRequest, NoRequest)
  BY <1>2, <1>3, <1>4 DEF HasRead
<1>6. ReadSoFar
  BY <1>1, <1>2, <1>5 DEF ReadSoFar
<1>7. OnWire = Wire(<< >>, << >>, << >>, NoRequest)
  BY <1>1, <1>6, SystemInitially, WireIs
<1>8. Front(<< >>, << >>, << >>, NoRequest) = << >>
  BY <1>4 DEF Front
<1>9. Back(<< >>, << >>) = << >>
  <2>1. << >> \in Seq(Nat) /\ 1 \in 1..(Len(<< >>) + 1)
    BY EmptySeq
  <2> DEFINE e == << >>
  <2> HIDE DEF e
  <2>2. /\ SubSeq(e, 1, Len(e)) \in Seq(Int) /\ Len(SubSeq(e, 1, Len(e))) = Len(e) - 1 + 1
    BY <2>1, BackTyped DEF e
  <2>3. SubSeq(e, 1, Len(e)) = << >>
    BY <1>2, <2>2, EmptySeq DEF e
  <2> QED
    BY <1>2, <1>4, <2>3 DEF Back, e
<1>10. OnWire = << >>
  BY <1>2, <1>7, <1>8, <1>9, ConcatEmptySeq DEF Wire
<1> QED
  BY <1>1, <1>6, <1>10 DEF PassInv

LEMMA WireStep ==
  ASSUME AnswerWidth <= BufLen, BufLen > 1 \/ AuthWidth <= 2,
         {"unparsed", "repeat", "authloss"} \subseteq Faults
  PROVE  SystemInv /\ EndsInv /\ [SystemNext]_systemVars => EndsInv' /\ [Next]_vars
<1> SUFFICES ASSUME SystemInv, EndsInv, [SystemNext]_systemVars
             PROVE  EndsInv' /\ [Next]_vars
  OBVIOUS
<1>1. SystemInv'
  BY SystemStep
<1>2. CASE ChatServerStep \/ UsersStep
  <2>1. ChatStep /\ ChatMoves
    BY <1>2 DEF ChatServerStep, UsersStep, ChatStep
  <2> QED
    BY <1>1, <2>1, ChatSeen DEF ChatStep, Next
<1>3. CASE AuthServerStep \/ AuthServerFails
  <2>1. (Auth!ServerStep \/ Auth!Crash \/ Auth!Start) /\ AuthMoves
    BY <1>3 DEF AuthServerStep, AuthServerFails
  <2> QED
    BY <1>1, <2>1, AuthSeen, AuthMapped
<1>4. CASE /\ UNCHANGED <<vars, historyVars>>
           /\ StartChatServer \/ Auth!SelectTimeout \/ UNCHANGED authServerVars
  BY <1>1, <1>4, OtherSeen
<1>5. StartChatServer => UNCHANGED <<vars, historyVars>>
  BY DEF StartChatServer
<1>6. Stopped => UNCHANGED vars
  BY DEF Stopped
<1>7. UNCHANGED systemVars => UNCHANGED <<vars, historyVars>> /\ UNCHANGED authServerVars
  BY DEF systemVars
<1> QED
  BY <1>2, <1>3, <1>4, <1>5, <1>6, <1>7 DEF SystemNext

\* If an answer fits in one recv(), and a recv() of a single cell never meets a request of
\* three or more (whose inner cells fill the buffer, and would count as the last few bytes),
\* the authentication server with its process, database and buffer is an environment that
\* ChatServer.tla allows, once the three faults such a server can be for it are among those
\* assumed.  So whatever is proved of that module holds of the two servers together.
THEOREM AuthServerIsItsEnvironment ==
  ASSUME AnswerWidth <= BufLen, BufLen > 1 \/ AuthWidth <= 2,
         {"unparsed", "repeat", "authloss"} \subseteq Faults
  PROVE  SystemSpec => ImplementsChatServer
<1>1. SystemInit => SystemInv /\ EndsInv
  BY SystemInitially, EndsInitially
<1>2. SystemInv /\ EndsInv /\ [SystemNext]_systemVars => SystemInv' /\ EndsInv' /\ [Next]_vars
  BY SystemStep, WireStep
<1>3. SystemInit => Init
  BY DEF SystemInit
<1> QED
  BY <1>1, <1>2, <1>3, PTL DEF SystemSpec, ImplementsChatServer, Spec
=============================================================================
