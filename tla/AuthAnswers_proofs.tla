------------------------- MODULE AuthAnswers_proofs -------------------------
(***************************************************************************)
(* What the answers of the authentication server say, for every instance   *)
(* of AuthServer: which request an answer is about, and that it is true.   *)
(***************************************************************************)
EXTENDS AuthServer_proofs

-----------------------------------------------------------------------------
(* A request is known by its number *)

\* The requests that are in a stream, were answered, or have made an account
Streamed == {r \in Request : \E c \in Conn : \E i \in 1..Len(stream[c]) : stream[c][i].r = r}
Told == {r \in Request : \E c \in Conn : \E i \in 1..Len(answers[c]) : answers[c][i].request = r}
Stored == {r \in Request : \E e \in Email : webAuth[e] # NoAccount /\ webAuth[e].by = r}

Known == Streamed \cup Told \cup Stored \cup ({scratch, job.request} \cap Request)

\* A chat server numbers its requests, and what the server knows of them is what it sent.
NumbersInv ==
  /\ \A c \in Conn : peer[c] \in {"idle", "dialed"} => nsent[c] = 0
  /\ \A r \in Known : r.n <= nsent[r.from]
  /\ \A q, r \in Known : q.from = r.from /\ q.n = r.n => q = r

LEMMA NumbersInit == Init => NumbersInv
<1> SUFFICES ASSUME Init PROVE NumbersInv
  OBVIOUS
<1>1. /\ \A c \in Conn : Len(stream[c]) = 0 /\ Len(answers[c]) = 0 /\ nsent[c] = 0
      /\ scratch = NoRequest /\ job.request = NoRequest
      /\ \A e \in Email : webAuth[e] = NoAccount
  BY DEF Init, NoJob
<1>2. Known = {}
  BY <1>1, ConstantsAssumption DEF Known, Streamed, Told, Stored
<1> QED
  BY <1>1, <1>2 DEF NumbersInv

LEMMA NumbersKept ==
  ASSUME NumbersInv, Known' \subseteq Known, nsent' = nsent,
         \A c \in Conn : peer'[c] \in {"idle", "dialed"} => peer[c] \in {"idle", "dialed"}
  PROVE  NumbersInv'
BY DEF NumbersInv

\* A stream that loses cells in front
LEMMA CellsOfRest ==
  ASSUME NEW q \in Seq(Cell), NEW m \in Nat \ {0}
  PROVE  \A i \in 1..Len(SubSeq(q, m, Len(q))) :
           \E j \in 1..Len(q) : SubSeq(q, m, Len(q))[i] = q[j]
<1> DEFINE d == m - 1
           rest == SubSeq(q, m, Len(q))
<1>1. Len(q) \in Nat /\ d \in Nat /\ m = d + 1
  OBVIOUS
<1>2. Len(rest) = (IF m <= Len(q) THEN Len(q) - d ELSE 0)
      /\ \A i \in 1..Len(rest) : rest[i] = q[i + d]
  <2>1. \A j \in m..Len(q) : q[j] \in Cell
    BY ElementOfSeq
  <2> QED
    BY <2>1, SubSeqProperties
<1> HIDE DEF rest, d
<1>3. \A i \in 1..Len(rest) : i + d \in 1..Len(q)
  BY <1>1, <1>2
<1> QED
  BY <1>2, <1>3 DEF rest

LEMMA StreamedRest ==
  ASSUME RestTyped, NEW c \in Conn, NEW m \in Nat \ {0},
         stream' = [stream EXCEPT ![c] = SubSeq(@, m, Len(@))]
  PROVE  Streamed' \subseteq Streamed
<1>1. stream \in [Conn -> Seq(Cell)]
  BY DEF RestTyped
<1>2. ASSUME NEW d \in Conn, NEW i \in 1..Len(stream'[d])
      PROVE  \E j \in 1..Len(stream[d]) : stream'[d][i] = stream[d][j]
  <2>1. CASE d = c
    <3>1. stream'[c] = SubSeq(stream[c], m, Len(stream[c])) /\ stream[c] \in Seq(Cell)
      BY <1>1
    <3> QED
      BY <1>2, <2>1, <3>1, CellsOfRest
  <2>2. CASE d # c
    BY <1>1, <1>2, <2>2
  <2> QED
    BY <2>1, <2>2
<1> QED
  BY <1>2 DEF Streamed

\* Statements leave the request that is handled, and an account is made by it.
LEMMA ExecuteKnown ==
  ASSUME AuthInv, Execute
  PROVE  NumbersInv => NumbersInv'
<1>1. /\ job \in JobType /\ webAuth \in [Email -> Row \cup {NoAccount}]
      /\ job.request \in Request /\ job.request.email \in Email
  <2>1. pc \in Handling
    BY DEF Execute, InsertUser, LastUser, InsertAuth, DeleteUser, FindAuth, UpdateUser,
           FindUser, Handling, Statement
  <2> QED
    BY <2>1 DEF AuthInv, TypeOK, JobInv, JobType, Request
<1>2. job'.request = job.request
  BY <1>1 DEF Execute, InsertUser, LastUser, InsertAuth, DeleteUser, FindAuth, UpdateUser,
              FindUser, Found, Finish, Goto, Abort, JobType
<1>3. UNCHANGED <<peer, nsent, stream, answers, scratch>>
  BY DEF Execute, peerVars
<1>4. webAuth' = webAuth \/ \E row : row.by = job.request /\ webAuth' = [webAuth EXCEPT ![job.request.email] = row]
  <2>1. CASE InsertAuth
    <3> DEFINE row == [by |-> job.request, userId |-> job.id]
    <3>1. row.by = job.request
      OBVIOUS
    <3>2. webAuth' = webAuth \/ webAuth' = [webAuth EXCEPT ![job.request.email] = row]
      BY <2>1 DEF InsertAuth
    <3> HIDE DEF row
    <3> QED
      BY <3>1, <3>2
  <2> QED
    BY <2>1 DEF Execute, InsertUser, LastUser, DeleteUser, FindAuth, UpdateUser, FindUser, dbVars
<1>5. Stored' \subseteq Stored \cup {job.request}
  BY <1>1, <1>4 DEF Stored
<1>6. Streamed' = Streamed /\ Told' = Told
  BY <1>3 DEF Streamed, Told
<1>7. Known' \subseteq Known
  BY <1>1, <1>2, <1>3, <1>5, <1>6 DEF Known
<1> QED
  BY <1>3, <1>7, NumbersKept

LEMMA ReplyKnown ==
  ASSUME AuthInv, NEW c \in Conn, Reply(c)
  PROVE  NumbersInv => NumbersInv'
<1>1. /\ answers \in [Conn -> Seq([request : Request, outcome : Outcome])]
      /\ job.request \in Request /\ job \in JobType
  BY DEF AuthInv, TypeOK, JobInv, JobType, Reply, Handling
<1>2. UNCHANGED <<peer, nsent, stream, scratch, webAuth>> /\ job' = NoJob
  BY DEF Reply, peerVars, dbVars
<1>3. Told' \subseteq Told \cup {job.request}
  <2> DEFINE a == [request |-> job.request, outcome |-> job.outcome]
  <2>1. a \in [request : Request, outcome : Outcome] /\ a.request = job.request
    BY <1>1 DEF JobType
  <2>2. answers' = answers \/ answers' = [answers EXCEPT ![c] = Append(@, a)]
    BY DEF Reply
  <2> HIDE DEF a
  <2>3. ASSUME NEW d \in Conn, NEW i \in 1..Len(answers'[d])
        PROVE  \/ answers'[d][i].request = job.request
               \/ \E j \in 1..Len(answers[d]) : answers'[d][i] = answers[d][j]
    <3>1. CASE answers'[d] = answers[d]
      BY <2>3, <3>1
    <3>2. CASE answers'[d] = Append(answers[d], a)
      <4>1. /\ Len(answers'[d]) = Len(answers[d]) + 1 /\ Len(answers[d]) \in Nat
            /\ answers'[d][Len(answers[d]) + 1] = a
            /\ \A j \in 1..Len(answers[d]) : answers'[d][j] = answers[d][j]
        BY <1>1, <2>1, <3>2, AppendProperties, LenProperties
      <4>2. i = Len(answers[d]) + 1 \/ i \in 1..Len(answers[d])
        BY <2>3, <4>1
      <4> QED
        BY <2>1, <4>1, <4>2
    <3> QED
      BY <1>1, <2>2, <3>1, <3>2
  <2> QED
    BY <2>3 DEF Told
<1>4. Streamed' = Streamed /\ Stored' = Stored
  BY <1>2 DEF Streamed, Stored
<1>5. Known' \subseteq Known
  BY <1>1, <1>2, <1>3, <1>4, ConstantsAssumption DEF Known, NoJob
<1> QED
  BY <1>2, <1>5, NumbersKept

\* The steps of a pass: what was in a stream may come to be in the buffer, and what was
\* in the buffer may be handled.
LEMMA PassKnown ==
  ASSUME AuthInv, NEW c \in Conn,
         Register(c) \/ AcceptFails(c) \/ Disconnect(c) \/ ReadRequest(c) \/ ReadTail(c) \/ ReadError(c)
  PROVE  NumbersInv => NumbersInv'
<1>1. RestTyped /\ stream[c] \in Seq(Cell)
  BY InvParts DEF RestTyped
<1>2. UNCHANGED <<peer, nsent, answers, webAuth>>
  BY DEF Register, AcceptFails, Disconnect, ReadRequest, ReadTail, ReadError, peerVars, dbVars
<1>3. Told' = Told /\ Stored' = Stored
  BY <1>2 DEF Told, Stored
<1>4. Streamed' \subseteq Streamed
  <2>1. CASE UNCHANGED stream
    BY <2>1 DEF Streamed
  <2>2. CASE stream' = [stream EXCEPT ![c] = SubSeq(@, BufLen, Len(@))]
    BY <1>1, <2>2, StreamedRest, ConstantsAssumption
  <2>3. CASE stream' = [stream EXCEPT ![c] = SubSeq(@, BufLen + 1, Len(@))]
    <3>1. BufLen + 1 \in Nat \ {0}
      BY ConstantsAssumption
    <3> QED
      BY <1>1, <2>3, <3>1, StreamedRest
  <2> QED
    BY <2>1, <2>2, <2>3 DEF Register, AcceptFails, Disconnect, ReadRequest, ReadTail, ReadError, Rest
<1>5. \/ scratch' \in {scratch, NoRequest}
      \/ stream[c] # << >> /\ scratch' = Head(stream[c]).r
  BY DEF Register, AcceptFails, Disconnect, ReadRequest, ReadTail, ReadError
<1>6. \/ job' = job \/ job'.request = NoRequest
      \/ scratch' = scratch /\ job'.request = scratch
      \/ job'.request = scratch'
  <2>1. NoJob.request = NoRequest
    BY DEF NoJob
  <2>2. CASE Register(c) \/ AcceptFails(c) \/ Disconnect(c)
    BY <2>2 DEF Register, AcceptFails, Disconnect
  <2>3. ASSUME NEW r, Handle(c, r) PROVE job'.request \in {r, NoRequest}
    BY <2>1, <2>3 DEF Handle
  <2>4. Ignore(c) => job'.request = NoRequest
    BY <2>1 DEF Ignore
  <2>5. CASE ReadRequest(c)
    BY <2>3, <2>5 DEF ReadRequest
  <2>6. CASE ReadTail(c) \/ ReadError(c)
    BY <2>3, <2>4, <2>6 DEF ReadTail, ReadError, Reread
  <2> QED
    BY <2>2, <2>5, <2>6
<1>7. stream[c] # << >> => Head(stream[c]).r \in Streamed
  <2> SUFFICES ASSUME stream[c] # << >> PROVE Head(stream[c]).r \in Streamed
    OBVIOUS
  <2>1. 1 \in 1..Len(stream[c]) /\ Head(stream[c]) = stream[c][1] /\ Head(stream[c]) \in Cell
    BY <1>1, HeadTailProperties
  <2> QED
    BY <2>1 DEF Streamed, Cell
<1>8. Known' \subseteq Known
  BY <1>3, <1>4, <1>5, <1>6, <1>7, ConstantsAssumption DEF Known
<1> QED
  BY <1>2, <1>8, NumbersKept

\* A request that is sent has a new number.
LEMMA SendKnown ==
  ASSUME AuthInv, NEW c \in Conn, NEW r \in Request, SendRequest(c, r)
  PROVE  NumbersInv => NumbersInv'
<1> SUFFICES ASSUME NumbersInv PROVE NumbersInv'
  OBVIOUS
<1>1. RestTyped /\ stream \in [Conn -> Seq(Cell)] /\ nsent \in [Conn -> 0..MaxRequests]
  BY InvParts DEF RestTyped
<1>2. /\ peer[c] = "open" /\ r.from = c /\ r.n = nsent[c] + 1
      /\ nsent' = [nsent EXCEPT ![c] = @ + 1]
      /\ UNCHANGED <<peer, answers, scratch, job, webAuth>>
  BY DEF SendRequest, serverVars, dbVars
<1> DEFINE cells == [k \in 1..Width |-> [r |-> r, k |-> k]]
<1>3. stream' = [stream EXCEPT ![c] = @ \o cells]
  BY DEF SendRequest
<1>4. cells \in Seq(Cell) /\ Len(cells) \in Nat /\ \A k \in 1..Len(cells) : cells[k].r = r
  <2>1. Width \in Nat
    BY ConstantsAssumption
  <2>2. cells \in Seq(Cell)
    BY RequestCells
  <2>3. Len(cells) = Width
    BY <2>1, <2>2, LenProperties
  <2> QED
    BY <2>1, <2>2, <2>3
<1> HIDE DEF cells
<1>5. Streamed' \subseteq Streamed \cup {r}
  <2>1. ASSUME NEW d \in Conn, NEW i \in 1..Len(stream'[d])
        PROVE  stream'[d][i].r = r \/ \E j \in 1..Len(stream[d]) : stream'[d][i] = stream[d][j]
    <3>1. CASE d # c
      BY <1>1, <1>3, <2>1, <3>1
    <3>2. CASE d = c
      <4>1. stream'[c] = stream[c] \o cells /\ stream[c] \in Seq(Cell)
        BY <1>1, <1>3
      <4>2. /\ Len(stream'[c]) = Len(stream[c]) + Len(cells) /\ Len(stream[c]) \in Nat
            /\ \A j \in 1..(Len(stream[c]) + Len(cells)) :
                 stream'[c][j] = IF j <= Len(stream[c]) THEN stream[c][j] ELSE cells[j - Len(stream[c])]
        BY <1>4, <4>1, ConcatProperties, LenProperties
      <4>3. CASE i <= Len(stream[c])
        BY <2>1, <3>2, <4>2, <4>3
      <4>4. CASE ~(i <= Len(stream[c]))
        <5>1. i - Len(stream[c]) \in 1..Len(cells) /\ stream'[c][i] = cells[i - Len(stream[c])]
          BY <1>4, <2>1, <3>2, <4>2, <4>4
        <5> QED
          BY <1>4, <3>2, <5>1
      <4> QED
        BY <4>3, <4>4
    <3> QED
      BY <3>1, <3>2
  <2> QED
    BY <2>1 DEF Streamed
<1>6. Known' \subseteq Known \cup {r}
  BY <1>2, <1>5 DEF Known, Told, Stored
<1>7. \A q \in Known : q.from \in Conn /\ q.n \in Nat /\ q.n <= nsent[q.from]
  <2>1. Known \subseteq Request
    BY DEF Known, Streamed, Told, Stored
  <2> QED
    BY <2>1 DEF NumbersInv, Request
<1>8. \A d \in Conn : nsent[d] \in Nat /\ nsent'[d] = IF d = c THEN nsent[d] + 1 ELSE nsent[d]
  BY <1>1, <1>2, ConstantsAssumption
<1>9. \A q \in Known' : q.n <= nsent'[q.from]
  BY <1>2, <1>6, <1>7, <1>8
<1>10. \A q \in Known : q.from = c => q.n # r.n
  BY <1>2, <1>7, <1>8
<1>11. \A q, s \in Known' : q.from = s.from /\ q.n = s.n => q = s
  BY <1>2, <1>6, <1>10 DEF NumbersInv
<1>12. \A d \in Conn : peer'[d] \in {"idle", "dialed"} => nsent'[d] = 0
  BY <1>2, <1>8 DEF NumbersInv
<1> QED
  BY <1>9, <1>11, <1>12 DEF NumbersInv

LEMMA NumbersStep == AuthInv /\ NumbersInv /\ [Next]_vars => NumbersInv'
<1> SUFFICES ASSUME AuthInv, NumbersInv, [Next]_vars PROVE NumbersInv'
  OBVIOUS
<1>1. RestTyped
  BY InvParts
<1>2. CASE UNCHANGED <<nsent, stream, answers, scratch, job, webAuth>>
           /\ \A c \in Conn : peer'[c] \in {"idle", "dialed"} => peer[c] \in {"idle", "dialed"}
  BY <1>2, NumbersKept DEF Known, Streamed, Told, Stored
<1>3. CASE UNCHANGED vars \/ Select \/ SelectTimeout \/ Crash
  BY <1>2, <1>3 DEF vars, Select, SelectTimeout, Crash, peerVars, dbVars
<1>4. ASSUME NEW c \in Conn, Connect(c) \/ SendName(c) \/ Leave(c) PROVE NumbersInv'
  <2>1. CASE Connect(c) \/ SendName(c)
    BY <1>1, <1>2, <1>4, <2>1 DEF Connect, SendName, serverVars, dbVars, RestTyped
  <2>2. CASE Leave(c)
    <3>1. /\ UNCHANGED <<nsent, answers, scratch, job, webAuth>>
          /\ \A d \in Conn : peer'[d] \in {"idle", "dialed"} => peer[d] \in {"idle", "dialed"}
      BY <1>1, <2>2 DEF Leave, serverVars, dbVars, RestTyped
    <3>2. Streamed' \subseteq Streamed
      <4>1. stream' = stream \/ stream' = [stream EXCEPT ![c] = << >>]
        BY <2>2 DEF Leave
      <4>2. Len(<< >>) = 0
        OBVIOUS
      <4> QED
        BY <1>1, <4>1, <4>2 DEF Streamed, RestTyped
    <3> QED
      BY <3>1, <3>2, NumbersKept DEF Known, Told, Stored
  <2> QED
    BY <1>4, <2>1, <2>2
<1>5. CASE Start
  <2>1. /\ UNCHANGED <<nsent, answers, webAuth>>
        /\ \A c \in Conn : /\ Len(stream'[c]) = 0
                           /\ peer'[c] \in {"idle", "dialed"} => peer[c] \in {"idle", "dialed"}
        /\ scratch' = NoRequest /\ job'.request = NoRequest
    BY <1>5 DEF Start, dbVars, NoJob
  <2>2. Known' \subseteq Known
    BY <2>1, ConstantsAssumption DEF Known, Streamed, Told, Stored
  <2> QED
    BY <2>1, <2>2, NumbersKept
<1> QED
  BY <1>3, <1>4, <1>5, ExecuteKnown, ReplyKnown, PassKnown, SendKnown DEF Next, ServerStep, ClientStep

-----------------------------------------------------------------------------
(* Answers are true *)

\* The answers of a server with one chat server, as long as no statement fails.
Orderly == "dbfail" \notin Faults /\ \A c, d \in Conn : c = d

\* What the server does may still be answered.
Alive == pc # "down" /\ \A c \in Conn : peer[c] # "reset"

MadeBy(r) == webAuth[r.email] # NoAccount /\ webAuth[r.email].by = r
JustMade(r) == pc = "reply" /\ job.request = r /\ job.outcome = "ok"

\* An account was made by a request whose answer has been given, or is due.
RowTrue(e) ==
  webAuth[e] # NoAccount =>
    LET r == webAuth[e].by
    IN  /\ r.email = e /\ r.password \notin ShortPassword
        /\ Alive => r \in Told \/ JustMade(r)

\* A registration fails for a short password or because the address has an account, which
\* is that of this same request only if it was handled and answered before.
Denied(r) == r.password \in ShortPassword \/ webAuth[r.email] # NoAccount
AnswerTrue(c, i) ==
  LET a == answers[c][i]
      r == a.request
  IN  /\ a.outcome = "ok" /\ r.id = "LOGIN" /\ Plain(r) => Matches(r)
      /\ a.outcome = "ok" /\ r.id = "REGISTER" => MadeBy(r)
      /\ a.outcome # "ok" /\ r.id = "REGISTER" =>
           /\ Denied(r)
           /\ MadeBy(r) => \E j \in 1..Len(answers[c]) : j # i /\ answers[c][j].request = r

\* The same of a registration that is failing, and is not answered yet
Failing == pc = "deleteUser" \/ (pc = "reply" /\ job.outcome # "ok" /\ job.request.id = "REGISTER")
JobTrue ==
  /\ pc \in {"insertUser", "lastUser", "insertAuth", "deleteUser"} =>
       job.request.password \notin ShortPassword
  /\ Failing => /\ Denied(job.request)
                /\ Alive /\ MadeBy(job.request) => job.request \in Told

RowsTrue == \A e \in Email : RowTrue(e)
AnswersTrue == \A c \in Conn : \A i \in 1..Len(answers[c]) : AnswerTrue(c, i)
TruthInv == link = "up" /\ RowsTrue /\ AnswersTrue /\ JobTrue

LEMMA TruthInit ==
  ASSUME Orderly
  PROVE  Init => TruthInv
<1> SUFFICES ASSUME Init PROVE TruthInv
  OBVIOUS
<1>1. /\ \A c \in Conn : Len(answers[c]) = 0
      /\ pc = "select" /\ \A e \in Email : webAuth[e] = NoAccount
  BY DEF Init
<1>2. link = "up"
  BY DEF Init, Connected, Orderly
<1> QED
  BY <1>1, <1>2 DEF TruthInv, RowsTrue, RowTrue, AnswersTrue, JobTrue, Failing

\* Steps that neither insert an account nor give an answer, in a place where none is due
LEMMA QuietKeepsTruth ==
  ASSUME TruthInv, UNCHANGED <<webAuth, answers, link>>,
         Alive' => Alive /\ (pc # "reply" \/ UNCHANGED <<pc, job>>), JobTrue'
  PROVE  TruthInv'
<1>1. Told' = Told
  BY DEF Told
<1>2. RowsTrue'
  BY <1>1 DEF TruthInv, RowsTrue, RowTrue, JustMade
<1>3. AnswersTrue'
  BY DEF TruthInv, AnswersTrue, AnswerTrue, Matches, MadeBy, Denied
<1> QED
  BY <1>2, <1>3 DEF TruthInv

LEMMA SameKeepsTruth ==
  ASSUME TruthInv, UNCHANGED <<webAuth, answers, link, pc, job>>, Alive' => Alive
  PROVE  TruthInv'
<1>1. Told' = Told
  BY DEF Told
<1>2. JobTrue'
  BY <1>1 DEF TruthInv, JobTrue, Failing, Denied, MadeBy
<1> QED
  BY <1>2, QuietKeepsTruth

\* Without failures, a statement is executed.
LEMMA StatementsExecuted ==
  ASSUME Orderly, link = "up"
  PROVE  /\ ~Thrown /\ ~AnswerLost /\ ~Undefined
         /\ Executed => link' = link
BY DEF Orderly, Thrown, AnswerLost, Undefined, Executed, faultVars

LEMMA InsertTruth ==
  ASSUME Orderly, AuthInv, TruthInv, InsertAuth, UNCHANGED <<answers, peer>>
  PROVE  TruthInv'
<1> DEFINE r == job.request
           row == [by |-> r, userId |-> job.id]
<1>1. /\ pc = "insertAuth" /\ job \in JobType /\ link = "up"
      /\ webAuth \in [Email -> Row \cup {NoAccount}]
      /\ RowsTrue /\ AnswersTrue /\ JobTrue
  BY DEF InsertAuth, AuthInv, TypeOK, JobType, TruthInv
<1>2. r \in Request /\ r.email \in Email /\ r.id = "REGISTER" /\ r.password \notin ShortPassword
  BY <1>1 DEF AuthInv, JobInv, OutcomeInv, Handling, Statement, Request, JobTrue
<1>3. Executed /\ link' = "up"
  BY <1>1, StatementsExecuted DEF InsertAuth
<1>4. Told' = Told
  BY DEF Told
<1>5. CASE /\ webAuth[r.email] = NoAccount
           /\ webAuth' = [webAuth EXCEPT ![r.email] = row] /\ Finish("ok")
  <2>1. /\ pc' = "reply" /\ job'.request = r /\ job'.outcome = "ok"
        /\ row # NoAccount /\ row.by = r
    <3>1. row \in Row /\ row.by = r
      BY <1>1, <1>2 DEF Row, JobType
    <3> HIDE DEF row
    <3> QED
      BY <1>1, <1>5, <3>1, ConstantsAssumption DEF Finish, JobType
  <2> HIDE DEF row
  <2>2. webAuth'[r.email] = row /\ \A e \in Email \ {r.email} : webAuth'[e] = webAuth[e]
    BY <1>1, <1>2, <1>5
  <2>3. \A e \in Email : webAuth[e] # NoAccount => webAuth'[e] = webAuth[e] /\ e # r.email
    BY <1>5, <2>2
  <2>4. Alive' => Alive
    BY <1>1 DEF Alive
  <2>5. RowsTrue'
    <3> SUFFICES ASSUME NEW e \in Email PROVE RowTrue(e)'
      BY DEF RowsTrue
    <3>1. CASE e = r.email
      BY <1>2, <2>1, <2>2, <3>1 DEF RowTrue, JustMade
    <3>2. CASE e # r.email
      <4>1. RowTrue(e) /\ webAuth'[e] = webAuth[e]
        BY <1>1, <2>2, <3>2 DEF RowsTrue
      <4>2. \A q : ~JustMade(q)
        BY <1>1 DEF JustMade
      <4> QED
        BY <1>4, <2>4, <4>1, <4>2 DEF RowTrue
    <3> QED
      BY <3>1, <3>2
  <2>6. AnswersTrue'
    <3> SUFFICES ASSUME NEW c \in Conn, NEW i \in 1..Len(answers[c]) PROVE AnswerTrue(c, i)'
      BY DEF AnswersTrue
    <3> DEFINE q == answers[c][i].request
    <3>1. q \in Request /\ q.email \in Email
      <4>1. answers[c] \in Seq([request : Request, outcome : Outcome])
        BY DEF AuthInv, TypeOK
      <4>2. answers[c][i] \in [request : Request, outcome : Outcome]
        BY <4>1, ElementOfSeq
      <4> QED
        BY <4>2 DEF Request
    <3>2. AnswerTrue(c, i) /\ answers' = answers
      BY <1>1 DEF AnswersTrue
    <3>3. CASE webAuth[q.email] # NoAccount
      <4>1. webAuth'[q.email] = webAuth[q.email]
        BY <2>3, <3>1, <3>3
      <4> QED
        BY <3>2, <3>3, <4>1 DEF AnswerTrue, Matches, MadeBy, Denied
    <3>4. CASE webAuth[q.email] = NoAccount
      <4>1. /\ answers[c][i].outcome = "ok" => ~(q.id = "LOGIN" /\ Plain(q)) /\ q.id # "REGISTER"
            /\ q.id = "REGISTER" => q.password \in ShortPassword
        BY <3>2, <3>4 DEF AnswerTrue, Matches, MadeBy, Denied
      <4>2. webAuth'[q.email] = NoAccount \/ webAuth'[q.email].by = r
        BY <2>1, <2>2, <3>1, <3>4
      <4>3. q.id = "REGISTER" => ~(webAuth'[q.email] # NoAccount /\ webAuth'[q.email].by = q)
        BY <1>2, <4>1, <4>2
      <4> QED
        BY <3>2, <4>1, <4>3 DEF AnswerTrue, MadeBy, Denied
    <3> QED
      BY <3>3, <3>4
  <2>7. JobTrue'
    BY <2>1 DEF JobTrue, Failing
  <2> QED
    BY <1>3, <2>5, <2>6, <2>7 DEF TruthInv
<1>6. CASE webAuth[r.email] # NoAccount /\ UNCHANGED webAuth /\ Goto("deleteUser")
  <2>1. Alive' => Alive
    BY <1>1 DEF Alive
  <2>2. MadeBy(r) /\ Alive => r \in Told
    BY <1>1, <1>2 DEF RowsTrue, RowTrue, MadeBy, JustMade
  <2>3. JobTrue'
    BY <1>1, <1>2, <1>4, <1>6, <2>1, <2>2 DEF Goto, JobTrue, Failing, Denied, MadeBy
  <2> QED
    BY <1>1, <1>3, <1>6, <2>1, <2>3, QuietKeepsTruth DEF TruthInv
<1> QED
  BY <1>1, <1>5, <1>6, StatementsExecuted DEF InsertAuth

LEMMA ExecuteTruth ==
  ASSUME Orderly, AuthInv, TruthInv, Execute
  PROVE  TruthInv'
<1>1. UNCHANGED <<answers, peer>> /\ link = "up" /\ JobTrue /\ job \in JobType
  BY DEF Execute, peerVars, TruthInv, AuthInv, TypeOK, JobType
<1>2. Told' = Told
  BY <1>1 DEF Told
<1>3. CASE InsertAuth
  BY <1>1, <1>3, InsertTruth
<1>4. ASSUME ~InsertAuth PROVE TruthInv'
  <2>1. Executed /\ link' = link /\ UNCHANGED webAuth /\ pc \in Statement
    BY <1>1, <1>4, StatementsExecuted
       DEF Execute, InsertUser, LastUser, DeleteUser, FindAuth, UpdateUser, FindUser,
           Statement, dbVars
  <2>2. Alive' => Alive /\ pc # "reply"
    BY <1>1, <2>1 DEF Alive, Statement
  <2>3. JobTrue'
    <3>1. CASE InsertUser \/ LastUser
      <4>1. /\ pc' \in {"lastUser", "insertAuth"} /\ job'.request = job.request
            /\ pc \in {"insertUser", "lastUser"}
        BY <1>1, <3>1, StatementsExecuted DEF InsertUser, LastUser, Goto, JobType
      <4> QED
        BY <1>1, <4>1 DEF JobTrue, Failing
    <3>2. CASE DeleteUser
      <4>1. pc = "deleteUser" /\ pc' = "reply" /\ job'.request = job.request
        BY <1>1, <3>2 DEF DeleteUser, Finish, JobType
      <4> QED
        BY <1>1, <1>2, <2>1, <2>2, <4>1 DEF JobTrue, Failing, Denied, MadeBy
    <3>3. CASE FindAuth \/ UpdateUser \/ FindUser
      <4>1. /\ pc' \in {"updateUser", "findUser", "reply", "down"}
            /\ job'.request = job.request
        BY <1>1, <3>3, StatementsExecuted DEF FindAuth, UpdateUser, FindUser, Found, Finish, Goto, Abort,
                                                 JobType
      <4>2. job.request.id = "LOGIN"
        BY <3>3 DEF FindAuth, UpdateUser, FindUser, AuthInv, OutcomeInv
      <4> QED
        BY <4>1, <4>2 DEF JobTrue, Failing
    <3> QED
      BY <1>4, <3>1, <3>2, <3>3 DEF Execute
  <2> QED
    BY <1>1, <2>1, <2>2, <2>3, QuietKeepsTruth
<1> QED
  BY <1>3, <1>4

\* The answer that is sent is true, and the account it is about has been answered for.
LEMMA ReplyTruth ==
  ASSUME Orderly, AuthInv, TruthInv, NEW c \in Conn, Reply(c)
  PROVE  TruthInv'
<1> DEFINE r == job.request
           a == [request |-> r, outcome |-> job.outcome]
<1>1. /\ pc = "reply" /\ pc' \in {"select", "serve"} /\ r \in Request /\ r.email \in Email
      /\ a \in [request : Request, outcome : Outcome] /\ a.request = r /\ a.outcome = job.outcome
      /\ UNCHANGED <<webAuth, link, peer>>
      /\ answers' = (IF Broken(c) THEN answers ELSE [answers EXCEPT ![c] = Append(@, a)])
      /\ answers \in [Conn -> Seq([request : Request, outcome : Outcome])]
      /\ \A d \in Conn : d = c
      /\ TruthInv
  BY DEF Reply, Done, Resume, AuthInv, TypeOK, JobInv, Handling, JobType, dbVars, faultVars,
         peerVars, Request, Orderly
<1>2. JobTrue'
  BY <1>1 DEF JobTrue, Failing
<1>3. CASE Broken(c)
  BY <1>1, <1>2, <1>3, QuietKeepsTruth DEF Broken, Alive
<1>4. CASE ~Broken(c)
  <2>1. Alive
    BY <1>1, <1>4 DEF Alive, Broken
  <2>2. Failing => Denied(r) /\ (MadeBy(r) => r \in Told)
    BY <1>1, <2>1 DEF TruthInv, JobTrue
  <2>3. /\ a.outcome = "ok" /\ r.id = "LOGIN" /\ Plain(r) => Matches(r)
        /\ a.outcome = "ok" /\ r.id = "REGISTER" => MadeBy(r)
        /\ a.outcome # "ok" /\ r.id = "REGISTER" => Denied(r) /\ (MadeBy(r) => r \in Told)
    BY <1>1, <2>2 DEF AuthInv, OutcomeInv, Failing, MadeBy, Matches, Request
  <2> HIDE DEF a
  <2>4. /\ Len(answers[c]) \in Nat /\ Len(answers'[c]) = Len(answers[c]) + 1
        /\ answers'[c][Len(answers[c]) + 1] = a
        /\ \A j \in 1..Len(answers[c]) : answers'[c][j] = answers[c][j]
    <3>1. answers'[c] = Append(answers[c], a) /\ answers[c] \in Seq([request : Request, outcome : Outcome])
      BY <1>1, <1>4
    <3> QED
      BY <1>1, <3>1, AppendProperties, LenProperties
  <2>5. /\ r \in Told'
        /\ \A q \in Told : q \in Told' /\ \E j \in 1..Len(answers[c]) : answers'[c][j].request = q
    BY <1>1, <2>4 DEF Told
  <2>6. RowsTrue'
    <3> SUFFICES ASSUME NEW e \in Email PROVE RowTrue(e)'
      BY DEF RowsTrue
    <3>1. RowTrue(e)
      BY <1>1 DEF TruthInv, RowsTrue
    <3>2. \A q : JustMade(q) => q = r
      BY DEF JustMade
    <3> QED
      BY <1>1, <2>1, <2>5, <3>1, <3>2 DEF RowTrue
  <2>7. AnswersTrue'
    <3> SUFFICES ASSUME NEW d \in Conn, NEW i \in 1..Len(answers'[d]) PROVE AnswerTrue(d, i)'
      BY DEF AnswersTrue
    <3>1. d = c /\ (i = Len(answers[c]) + 1 \/ i \in 1..Len(answers[c]))
      BY <1>1, <2>4
    <3>2. CASE i \in 1..Len(answers[c])
      <4>1. AnswerTrue(c, i) /\ answers'[c][i] = answers[c][i]
        BY <1>1, <2>4, <3>2 DEF TruthInv, AnswersTrue
      <4>2. \A j \in 1..Len(answers[c]) : j \in 1..Len(answers'[c]) /\ answers'[c][j] = answers[c][j]
        BY <2>4
      <4> QED
        BY <1>1, <3>1, <4>1, <4>2 DEF AnswerTrue, Matches, MadeBy, Denied
    <3>3. CASE i = Len(answers[c]) + 1
      <4>1. answers'[c][i] = a
        BY <2>4, <3>3
      <4>2. \A j \in 1..Len(answers[c]) : j \in 1..Len(answers'[c]) /\ j # i
        BY <2>4, <3>3
      <4> QED
        BY <1>1, <2>3, <2>5, <3>1, <4>1, <4>2 DEF AnswerTrue, Matches, MadeBy, Denied
    <3> QED
      BY <3>1, <3>2, <3>3
  <2> QED
    BY <1>1, <1>2, <2>6, <2>7 DEF TruthInv
<1> QED
  BY <1>3, <1>4

\* A short password is refused at once, and has made no account.
LEMMA HandleTruth ==
  ASSUME TruthInv, UNCHANGED <<webAuth, answers>>, NEW c \in Conn, NEW r \in Request, Handle(c, r)
  PROVE  JobTrue'
<1>1. CASE Done(c)
  BY <1>1 DEF Done, Resume, JobTrue, Failing
<1>2. CASE /\ job' = [request |-> r, id |-> 0, outcome |-> "failed"]
           /\ pc' = IF r.id = "LOGIN" THEN "findAuth"
                    ELSE IF r.password \in ShortPassword THEN "reply" ELSE "insertUser"
  <2>1. job'.request = r /\ r.email \in Email /\ r.id \in {"REGISTER", "LOGIN"}
    BY <1>2 DEF Request
  <2>2. r.password \in ShortPassword => ~MadeBy(r)
    BY <2>1 DEF TruthInv, RowsTrue, RowTrue, MadeBy
  <2> QED
    BY <1>2, <2>1, <2>2 DEF JobTrue, Failing, Denied, MadeBy
<1> QED
  BY <1>1, <1>2 DEF Handle

LEMMA PassTruth ==
  ASSUME AuthInv, TruthInv, NEW c \in Conn,
         Register(c) \/ AcceptFails(c) \/ Disconnect(c) \/ ReadRequest(c) \/ ReadTail(c) \/ ReadError(c)
  PROVE  TruthInv'
<1>1. UNCHANGED <<peer, answers, webAuth, link>> /\ pc \in {"accept", "serve"}
  BY DEF Register, AcceptFails, Disconnect, ReadRequest, ReadTail, ReadError, peerVars, dbVars,
         faultVars
<1>2. Alive' => Alive /\ pc # "reply"
  BY <1>1 DEF Alive
<1>3. Ignore(c) \/ (\E r \in Request : Handle(c, r)) \/ pc' \in {"select", "serve", "down"}
  <2>1. RestTyped /\ stream[c] \in Seq(Cell)
    BY InvParts DEF RestTyped
  <2>2. stream[c] # << >> => Head(stream[c]).r \in Request
    <3>1. stream[c] # << >> => Head(stream[c]) \in Cell
      BY <2>1, HeadTailProperties
    <3> QED
      BY <3>1 DEF Cell
  <2>3. scratch # NoRequest => scratch \in Request
    BY <2>1 DEF RestTyped
  <2> QED
    BY <2>2, <2>3 DEF Register, AcceptFails, Disconnect, Done, Resume, ReadRequest, ReadTail,
                      ReadError, Reread
<1>4. JobTrue'
  <2>1. CASE pc' \in {"select", "serve", "down"}
    BY <2>1 DEF JobTrue, Failing
  <2>2. CASE Ignore(c)
    BY <2>1, <2>2 DEF Ignore, Done, Resume
  <2> QED
    BY <1>1, <1>3, <2>1, <2>2, HandleTruth
<1> QED
  BY <1>1, <1>2, <1>4, QuietKeepsTruth

\* The server is started again: its chat server is gone, or there never was one.
LEMMA StartTruth ==
  ASSUME Orderly, AuthInv, NumbersInv, TruthInv, Start
  PROVE  TruthInv'
<1>1. /\ UNCHANGED <<answers, webAuth>> /\ pc = "down" /\ pc' = "select" /\ link' = "up"
      /\ peer' = [c \in Conn |-> IF peer[c] = "idle" THEN "idle" ELSE "reset"]
  BY DEF Start, dbVars, Connected, Orderly
<1>2. JobTrue'
  BY <1>1 DEF JobTrue, Failing
<1>3. AnswersTrue'
  BY <1>1 DEF TruthInv, AnswersTrue, AnswerTrue, Matches, MadeBy, Denied
<1>4. Alive' => \A e \in Email : webAuth[e] = NoAccount
  <2> SUFFICES ASSUME Alive', NEW e \in Email, webAuth[e] # NoAccount PROVE FALSE
    OBVIOUS
  <2>1. \A c \in Conn : nsent[c] = 0
    BY <1>1 DEF Alive, NumbersInv
  <2>2. webAuth[e].by \in Request
    BY DEF AuthInv, TypeOK, Row
  <2>3. webAuth[e].by \in Known
    BY <2>2 DEF Known, Stored
  <2>4. webAuth[e].by.n \in Nat \ {0} /\ webAuth[e].by.from \in Conn
    BY <2>2, ConstantsAssumption DEF Request
  <2> QED
    BY <2>1, <2>3, <2>4 DEF NumbersInv
<1>5. RowsTrue'
  BY <1>1, <1>4 DEF TruthInv, RowsTrue, RowTrue
<1> QED
  BY <1>1, <1>2, <1>3, <1>5 DEF TruthInv

LEMMA TruthStep ==
  ASSUME Orderly
  PROVE  AuthInv /\ NumbersInv /\ TruthInv /\ [Next]_vars => TruthInv'
<1> SUFFICES ASSUME AuthInv, NumbersInv, TruthInv, [Next]_vars PROVE TruthInv'
  OBVIOUS
<1>1. CASE UNCHANGED vars \/ SelectTimeout
  BY <1>1, SameKeepsTruth DEF vars, SelectTimeout, peerVars, dbVars, faultVars, Alive
<1>2. CASE Select
  <2>1. /\ UNCHANGED <<webAuth, answers, link, peer>> /\ pc = "select" /\ pc' \in {"accept", "serve"}
    BY <1>2 DEF Select, peerVars, dbVars, faultVars
  <2>2. JobTrue' /\ (Alive' => Alive)
    BY <2>1 DEF JobTrue, Failing, Alive
  <2> QED
    BY <2>1, <2>2, QuietKeepsTruth
<1>3. ASSUME NEW c \in Conn, ClientStep(c) PROVE TruthInv'
  <2>1. UNCHANGED <<webAuth, answers, link, pc, job>>
    BY <1>3 DEF ClientStep, Connect, SendName, Leave, SendRequest, serverVars, dbVars, faultVars
  <2>2. Alive' => Alive
    <3>1. peer \in [Conn -> {"idle", "dialed", "open", "closed", "reset"}]
      BY DEF AuthInv, TypeOK
    <3>2. \A d \in Conn : peer[d] = "reset" => peer'[d] = "reset"
      BY <1>3, <3>1 DEF ClientStep, Connect, SendName, Leave, SendRequest
    <3> QED
      BY <2>1, <3>2 DEF Alive
  <2> QED
    BY <2>1, <2>2, SameKeepsTruth
<1>4. CASE Crash
  <2>1. UNCHANGED <<webAuth, answers, link, peer>> /\ pc' = "down"
    BY <1>4 DEF Crash, dbVars, peerVars
  <2>2. JobTrue' /\ ~Alive'
    BY <2>1 DEF JobTrue, Failing, Alive
  <2> QED
    BY <2>1, <2>2, QuietKeepsTruth
<1> QED
  BY <1>1, <1>2, <1>3, <1>4, ExecuteTruth, ReplyTruth, PassTruth, StartTruth DEF Next, ServerStep

\* In every state after an answer was given, a success still means that the address has an
\* account: that which this very request has made if it was a registration, and one with
\* the password of the request if it was a login, unless its address was taken for a part
\* of the statement.  A registration that failed had a short password, or the address an
\* account, and that account is the request's own only if it was answered twice.
THEOREM AnswersStayTrue ==
  ASSUME Orderly
  PROVE  Spec => []AnswersTrue
<1> DEFINE Inv == AuthInv /\ NumbersInv /\ TruthInv
<1>1. Init => Inv
  BY AuthInit, NumbersInit, TruthInit
<1>2. Inv /\ [Next]_vars => Inv'
  BY AuthStep, NumbersStep, TruthStep
<1>3. Inv => AnswersTrue
  BY DEF TruthInv
<1> QED
  BY <1>1, <1>2, <1>3, PTL DEF Spec
=============================================================================
