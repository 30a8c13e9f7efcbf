-------------------------- MODULE AuthServer_proofs --------------------------
(***************************************************************************)
(* Theorems about the authentication server, for every set of connections, *)
(* addresses and passwords, every size of requests and recv() buffers, and *)
(* every combination and number of failures: its two tables stay           *)
(* consistent, and it implements the account store.                        *)
(***************************************************************************)
EXTENDS AuthProperties, TLAPS, SequenceTheorems, FiniteSetTheorems

-----------------------------------------------------------------------------
(* The inductive invariant *)

\* No account has the user u.
Free(u) == \A e \in Email : webAuth[e] # NoAccount => webAuth[e].userId # u

\* The last user inserted is there, and free.
NewestFree == nextId - 1 \in users /\ Free(nextId - 1)

\* What is known of the request that is handled, between two statements: the user
\* inserted last is the newest and free until the account is inserted.  Its account may
\* have been inserted by a statement that threw, but then the connection is lost, and
\* the DELETE that follows is not executed.
JobInv ==
  /\ pc \in Handling => job.request \in Request
  /\ pc = "lastUser" => NewestFree
  /\ pc = "insertAuth" => job.id \in users /\ Free(job.id)
  /\ pc = "deleteUser" /\ link = "up" => Free(job.id)

\* What is known of the outcome, and of the account that a login has found by an address
\* which is looked up as it is
Plain(r) == r.email \notin OddEmail
Matches(r) == webAuth[r.email] # NoAccount /\ webAuth[r.email].by.password = r.password
OutcomeInv ==
  /\ pc \in {"insertUser", "lastUser", "insertAuth", "deleteUser"} =>
       job.request.id = "REGISTER"
  /\ pc = "findAuth" => job.request.id = "LOGIN"
  /\ pc \in {"updateUser", "findUser"} =>
       /\ job.request.id = "LOGIN"
       /\ Plain(job.request) =>
            Matches(job.request) /\ job.id = webAuth[job.request.email].userId
  /\ pc = "reply" =>
       /\ job.outcome = "ok" /\ job.request.id = "REGISTER" =>
            /\ webAuth[job.request.email] # NoAccount
            /\ webAuth[job.request.email].by = job.request
       /\ job.outcome = "ok" /\ job.request.id = "LOGIN" /\ Plain(job.request) =>
            Matches(job.request)
       /\ job.outcome = "refused" =>
            job.request.id = "LOGIN" /\ (Plain(job.request) => ~Matches(job.request))

AuthInv == TypeOK /\ JobInv /\ UsersLinked /\ OutcomeInv

JobType == [request : Request \cup {NoRequest}, id : Nat, outcome : Outcome]

\* Everything but the conjuncts of TypeOK about the database and the job
RestTyped ==
  /\ peer \in [Conn -> {"idle", "dialed", "open", "closed", "reset"}]
  /\ nsent \in [Conn -> 0..MaxRequests]
  /\ backlog \in Seq(Conn)
  /\ stream \in [Conn -> Seq(Cell)]
  /\ answers \in [Conn -> Seq([request : Request, outcome : Outcome])]
  /\ clients \in Seq(Conn)
  /\ connected \subseteq Conn
  /\ ready \subseteq Conn
  /\ scratch \in Request \cup {NoRequest}
  /\ handled \in Nat

DbTyped ==
  /\ users \subseteq 1..(nextId - 1)
  /\ nextId \in Nat \ {0}
  /\ webAuth \in [Email -> Row \cup {NoAccount}]

Control == {"select", "accept", "serve", "down"} \cup Handling

LEMMA TypeParts ==
  /\ TypeOK <=> RestTyped /\ DbTyped /\ pc \in Control /\ job \in JobType
                  /\ link \in {"up", "lost", "none"} /\ failures \in Nat
  /\ TypeOK' <=> RestTyped' /\ DbTyped' /\ pc' \in Control /\ job' \in JobType
                  /\ link' \in {"up", "lost", "none"} /\ failures' \in Nat
BY DEF TypeOK, RestTyped, DbTyped, Control, JobType

LEMMA AuthInit == Init => AuthInv
<1> SUFFICES ASSUME Init PROVE AuthInv
  OBVIOUS
<1>1. TypeOK
  BY ConstantsAssumption, EmptySeq
     DEF Init, TypeOK, NoJob, Connected, Outcome, Handling, Statement, Row
<1> QED
  BY <1>1 DEF Init, AuthInv, JobInv, OutcomeInv, UsersLinked, Accounts, Handling, Statement

-----------------------------------------------------------------------------
(* The database *)

\* What a step must leave of the database and the request that is handled
DbInv == DbTyped /\ job \in JobType /\ UsersLinked /\ JobInv /\ OutcomeInv
FaultsTyped == link \in {"up", "lost", "none"} /\ failures \in Nat

LEMMA InvParts ==
  /\ AuthInv <=> RestTyped /\ DbInv /\ FaultsTyped /\ pc \in Control
  /\ AuthInv' <=> RestTyped' /\ DbInv' /\ FaultsTyped' /\ pc' \in Control
BY TypeParts DEF AuthInv, DbInv, FaultsTyped

\* Outside of a handler there is nothing to know of the job.
LEMMA IdleKeepsDbInv ==
  ASSUME DbInv, UNCHANGED dbVars, job' \in JobType,
         pc' \in {"select", "accept", "serve", "down"}
  PROVE  DbInv'
BY DEF DbInv, DbTyped, dbVars, UsersLinked, Accounts, JobInv, OutcomeInv, Handling, Statement

\* Nor does a step change it that leaves database, place and job alone.
LEMMA SameKeepsDbInv ==
  ASSUME DbInv, UNCHANGED <<dbVars, pc, job, link>>
  PROVE  DbInv'
BY DEF DbInv, DbTyped, dbVars, UsersLinked, Accounts, JobInv, OutcomeInv, Free,
       NewestFree, Matches

\* A statement that only reads the database and fails keeps the request.
LEMMA FailKeepsDbInv ==
  ASSUME DbInv, UNCHANGED dbVars, pc \in Handling, Finish("failed")
  PROVE  DbInv' /\ pc' \in Control
<1>1. job \in JobType /\ job.request \in Request
  BY DEF DbInv, JobInv
<1>2. job' \in JobType /\ job'.request = job.request /\ job'.outcome = "failed"
  BY <1>1 DEF Finish, JobType, Outcome
<1> QED
  BY <1>1, <1>2 DEF Finish, DbInv, DbTyped, dbVars, UsersLinked, Accounts, JobInv, OutcomeInv,
                    Control, Handling

LEMMA FaultStep ==
  ASSUME FaultsTyped, Executed \/ Thrown \/ AnswerLost \/ Undefined
  PROVE  FaultsTyped'
BY DEF FaultsTyped, Executed, Thrown, AnswerLost, Undefined, Failure, faultVars

\* A new user is free: every account has a user, and all users have smaller ids.
LEMMA AddKeepsDb ==
  ASSUME DbTyped, UsersLinked, AddUser, UNCHANGED webAuth
  PROVE  DbTyped' /\ UsersLinked' /\ NewestFree'
<1>1. users' = users \cup {nextId} /\ nextId' = nextId + 1 /\ nextId \in Nat \ {0}
  BY DEF AddUser, DbTyped
<1>2. nextId \notin users /\ nextId' - 1 = nextId
  BY <1>1 DEF DbTyped
<1>3. DbTyped'
  BY <1>1 DEF DbTyped
<1>4. UsersLinked'
  BY <1>1 DEF UsersLinked, Accounts
<1>5. Free(nextId)
  BY <1>2 DEF UsersLinked, Accounts, Free
<1> QED
  BY <1>1, <1>2, <1>3, <1>4, <1>5 DEF Free, NewestFree

LEMMA InsertUserStep ==
  ASSUME DbInv, InsertUser
  PROVE  DbInv' /\ pc' \in Control
<1>1. /\ pc = "insertUser" /\ DbTyped /\ UsersLinked /\ UNCHANGED webAuth
      /\ job \in JobType /\ job.request \in Request /\ job.request.id = "REGISTER"
  BY DEF InsertUser, DbInv, JobInv, OutcomeInv, Handling, Statement
<1>2. CASE AddUser /\ Goto("lastUser")
  <2>1. DbTyped' /\ UsersLinked' /\ NewestFree'
    BY <1>1, <1>2, AddKeepsDb
  <2> QED
    BY <1>1, <1>2, <2>1
       DEF Goto, DbInv, JobInv, OutcomeInv, Control, Handling, Statement
<1>3. CASE AddUser /\ Finish("failed")
  <2>1. DbTyped' /\ UsersLinked'
    BY <1>1, <1>3, AddKeepsDb
  <2>2. job' \in JobType /\ job'.request = job.request /\ job'.outcome = "failed"
    BY <1>1, <1>3 DEF Finish, JobType, Outcome
  <2> QED
    BY <1>1, <1>3, <2>1, <2>2
       DEF Finish, DbInv, JobInv, OutcomeInv, Control, Handling
<1>4. CASE UNCHANGED <<users, nextId>> /\ Finish("failed")
  BY <1>1, <1>4, FailKeepsDbInv DEF dbVars, Handling, Statement
<1>5. CASE UNCHANGED <<users, nextId>> /\ Abort
  BY <1>1, <1>5, IdleKeepsDbInv DEF dbVars, Abort, Control
<1> QED
  BY <1>2, <1>3, <1>4, <1>5 DEF InsertUser

LEMMA LastUserStep ==
  ASSUME DbInv, LastUser
  PROVE  DbInv' /\ pc' \in Control
<1>1. /\ pc = "lastUser" /\ UNCHANGED dbVars /\ DbTyped /\ UsersLinked
      /\ job \in JobType /\ job.request \in Request /\ job.request.id = "REGISTER"
      /\ nextId - 1 \in users /\ Free(nextId - 1)
  BY DEF LastUser, DbInv, JobInv, NewestFree, OutcomeInv, Handling, Statement
<1> DEFINE last == CHOOSE u \in users : \A v \in users : v <= u
<1>2. CASE pc' = "insertAuth" /\ job' = [job EXCEPT !.id = last]
  <2>1. users \subseteq 1..(nextId - 1) /\ nextId \in Nat \ {0}
    BY <1>1 DEF DbTyped
  <2>2. \A v \in users : v <= nextId - 1
    BY <2>1
  <2>3. last \in users /\ \A v \in users : v <= last
    BY <1>1, <2>2
  <2> HIDE DEF last
  <2>4. last = nextId - 1
    BY <1>1, <2>1, <2>2, <2>3
  <2>5. job' \in JobType /\ job'.request = job.request /\ job'.id = nextId - 1
    BY <1>1, <1>2, <2>1, <2>4 DEF JobType
  <2> QED
    BY <1>1, <1>2, <2>5
       DEF DbInv, DbTyped, dbVars, UsersLinked, Accounts, Free, JobInv, OutcomeInv,
           Control, Handling, Statement
<1>3. CASE Finish("failed")
  BY <1>1, <1>3, FailKeepsDbInv DEF Handling, Statement
<1> QED
  BY <1>2, <1>3 DEF LastUser

\* The account of a user that is there and free
LEMMA RowKeepsDb ==
  ASSUME DbTyped, UsersLinked, NEW r \in Request, NEW u \in users, Free(u),
         webAuth[r.email] = NoAccount, UNCHANGED <<users, nextId>>,
         webAuth' = [webAuth EXCEPT ![r.email] = [by |-> r, userId |-> u]]
  PROVE  /\ DbTyped' /\ UsersLinked'
         /\ webAuth'[r.email] # NoAccount /\ webAuth'[r.email].by = r
<1>1. u \in Nat /\ r.email \in Email
  BY DEF DbTyped, Request
<1> DEFINE row == [by |-> r, userId |-> u]
<1>2. row \in Row /\ row # NoAccount /\ row.by = r /\ row.userId = u
  BY <1>1, ConstantsAssumption DEF Row
<1> HIDE DEF row
<1>3. /\ webAuth \in [Email -> Row \cup {NoAccount}]
      /\ webAuth' = [webAuth EXCEPT ![r.email] = row]
  BY DEF DbTyped, row
<1>4. webAuth'[r.email] = row /\ \A e \in Email \ {r.email} : webAuth'[e] = webAuth[e]
  BY <1>1, <1>3
<1>5. DbTyped'
  <2>1. webAuth' \in [Email -> Row \cup {NoAccount}]
    BY <1>2, <1>3
  <2>2. users' \subseteq 1..(nextId' - 1) /\ nextId' \in Nat \ {0}
    BY DEF DbTyped
  <2> QED
    BY <2>1, <2>2 DEF DbTyped
<1>6. UsersLinked'
  <2>1. \A e \in Accounts' : e = r.email \/ e \in Accounts
    BY <1>4 DEF Accounts
  <2>2. \A e \in Accounts : webAuth[e].userId \in users /\ webAuth[e].userId # u
    BY DEF UsersLinked, Accounts, Free
  <2> QED
    BY <1>2, <1>4, <2>1, <2>2 DEF UsersLinked, Accounts
<1> QED
  BY <1>2, <1>4, <1>5, <1>6

LEMMA InsertAuthStep ==
  ASSUME DbInv, InsertAuth
  PROVE  DbInv' /\ pc' \in Control
<1> DEFINE r == job.request
<1>1. /\ pc = "insertAuth" /\ UNCHANGED <<users, nextId>> /\ DbTyped /\ UsersLinked
      /\ job \in JobType /\ r \in Request /\ r.id = "REGISTER"
      /\ job.id \in users /\ Free(job.id)
  BY DEF InsertAuth, DbInv, JobInv, OutcomeInv, Handling, Statement
<1> DEFINE Insert == /\ webAuth[r.email] = NoAccount
                     /\ webAuth' = [webAuth EXCEPT ![r.email] = [by |-> r, userId |-> job.id]]
<1>2. CASE Insert /\ Finish("ok")
  <2>1. /\ DbTyped' /\ UsersLinked'
        /\ webAuth'[r.email] # NoAccount /\ webAuth'[r.email].by = r
    BY <1>1, <1>2, RowKeepsDb
  <2>2. job' \in JobType /\ job'.request = r /\ job'.outcome = "ok"
    BY <1>1, <1>2 DEF Finish, JobType, Outcome
  <2> QED
    BY <1>1, <1>2, <2>1, <2>2
       DEF Finish, DbInv, JobInv, OutcomeInv, Control, Handling
<1>3. CASE Insert /\ AnswerLost /\ Goto("deleteUser")
  <2>1. DbTyped' /\ UsersLinked' /\ link' = "lost"
    BY <1>1, <1>3, RowKeepsDb DEF AnswerLost
  <2> QED
    BY <1>1, <1>3, <2>1
       DEF Goto, DbInv, JobInv, OutcomeInv, Control, Handling, Statement
<1>4. CASE UNCHANGED webAuth /\ Goto("deleteUser")
  BY <1>1, <1>4 DEF Goto, DbInv, DbTyped, UsersLinked, Accounts, Free, JobInv, OutcomeInv,
                    Control, Handling, Statement
<1>5. CASE UNCHANGED webAuth /\ Finish("failed")
  BY <1>1, <1>5, FailKeepsDbInv DEF dbVars, Handling, Statement
<1> QED
  BY <1>2, <1>3, <1>4, <1>5 DEF InsertAuth

LEMMA DeleteUserStep ==
  ASSUME DbInv, DeleteUser
  PROVE  DbInv' /\ pc' \in Control
<1>1. /\ pc = "deleteUser" /\ UNCHANGED <<nextId, webAuth>> /\ DbTyped /\ UsersLinked
      /\ Finish("failed")
      /\ job \in JobType /\ job.request \in Request /\ job.request.id = "REGISTER"
      /\ link = "up" => Free(job.id)
  BY DEF DeleteUser, DbInv, JobInv, OutcomeInv, Handling, Statement
<1>2. CASE link = "up" /\ users' = users \ {job.id}
  <2>1. DbTyped'
    BY <1>1, <1>2 DEF DbTyped
  <2>2. UsersLinked'
    BY <1>1, <1>2 DEF UsersLinked, Accounts, Free
  <2>3. job' \in JobType /\ job'.request = job.request /\ job'.outcome = "failed"
    BY <1>1 DEF Finish, JobType, Outcome
  <2> QED
    BY <1>1, <2>1, <2>2, <2>3 DEF Finish, DbInv, JobInv, OutcomeInv, Control, Handling
<1>3. CASE UNCHANGED users
  BY <1>1, <1>3, FailKeepsDbInv DEF dbVars, Handling, Statement
<1> QED
  BY <1>2, <1>3 DEF DeleteUser, Executed, AnswerLost

LEMMA LoginStep ==
  ASSUME DbInv, FindAuth \/ UpdateUser \/ FindUser
  PROVE  DbInv' /\ pc' \in Control
<1> DEFINE r == job.request
<1>1. /\ UNCHANGED dbVars /\ DbTyped /\ UsersLinked /\ pc \in Handling
      /\ job \in JobType /\ r \in Request /\ r.id = "LOGIN"
  BY DEF FindAuth, UpdateUser, FindUser, DbInv, JobInv, OutcomeInv, Handling, Statement
<1>2. CASE Finish("failed")
  BY <1>1, <1>2, FailKeepsDbInv
<1>3. CASE Abort
  BY <1>1, <1>3, IdleKeepsDbInv DEF Abort, Control
<1>4. ASSUME NEW outcome \in Outcome, Finish(outcome),
             Plain(r) => (outcome = "ok" => Matches(r)) /\ (outcome = "refused" => ~Matches(r))
      PROVE  DbInv' /\ pc' \in Control
  <2>1. job' \in JobType /\ job'.request = r /\ job'.outcome = outcome
    BY <1>1, <1>4 DEF Finish, JobType
  <2>2. Matches(r)' <=> Matches(r)
    BY <1>1, <2>1 DEF Matches, dbVars
  <2> QED
    BY <1>1, <1>4, <2>1, <2>2
       DEF Finish, DbInv, DbTyped, dbVars, UsersLinked, Accounts, JobInv, OutcomeInv,
           Control, Handling, Matches
<1>5. ASSUME Plain(r) => Matches(r) /\ job'.id = webAuth[r.email].userId,
             pc' \in {"updateUser", "findUser"}, job' \in JobType, job'.request = r
      PROVE  DbInv' /\ pc' \in Control
  <2>1. (Matches(r)' <=> Matches(r)) /\ webAuth' = webAuth
    BY <1>1, <1>5 DEF Matches, dbVars
  <2> QED
    BY <1>1, <1>5, <2>1
       DEF DbInv, DbTyped, dbVars, UsersLinked, Accounts, JobInv, OutcomeInv,
           Control, Handling, Statement, Matches
<1>6. CASE FindAuth
  <2> DEFINE row == webAuth[r.email]
  <2>1. ASSUME NEW id \in Nat, Found(id), Plain(r) => Matches(r) /\ id = row.userId
        PROVE  DbInv' /\ pc' \in Control
    <3>1. job' \in JobType /\ job'.request = r /\ job'.id = id /\ pc' = "updateUser"
      BY <1>1, <2>1 DEF JobType, Found
    <3> QED
      BY <1>5, <2>1, <3>1
  <2>2. CASE Plain(r) /\ Matches(r) /\ Found(row.userId)
    <3>1. row.userId \in Nat
      BY <1>1, <2>2 DEF Matches, DbTyped, Request, Row
    <3> QED
      BY <2>1, <2>2, <3>1
  <2>3. CASE ~Plain(r) /\ \E id \in users \cup {0} : Found(id)
    <3>1. \A id \in users \cup {0} : id \in Nat
      BY <1>1 DEF DbTyped
    <3> QED
      BY <2>1, <2>3, <3>1
  <2>4. CASE (Plain(r) => ~Matches(r)) /\ Finish("refused")
    BY <1>4, <2>4 DEF Outcome
  <2> QED
    BY <1>2, <1>3, <1>6, <2>2, <2>3, <2>4 DEF FindAuth, Matches, Plain
<1>7. CASE UpdateUser
  <2>1. Plain(r) => Matches(r) /\ job.id = webAuth[r.email].userId
    BY <1>7 DEF UpdateUser, DbInv, OutcomeInv
  <2>2. CASE Goto("findUser")
    BY <1>1, <1>5, <2>1, <2>2 DEF Goto
  <2> QED
    BY <1>3, <1>7, <2>2 DEF UpdateUser
<1>8. CASE FindUser
  <2>1. Plain(r) => Matches(r)
    BY <1>8 DEF FindUser, DbInv, OutcomeInv
  <2>2. CASE Finish("ok")
    BY <1>4, <2>1, <2>2 DEF Outcome
  <2> QED
    BY <1>2, <1>3, <1>8, <2>2 DEF FindUser
<1> QED
  BY <1>6, <1>7, <1>8

LEMMA ExecuteStep ==
  ASSUME AuthInv, Execute
  PROVE  AuthInv'
<1>1. RestTyped /\ DbInv /\ FaultsTyped
  BY InvParts
<1>2. DbInv' /\ pc' \in Control
  BY <1>1, InsertUserStep, LastUserStep, InsertAuthStep, DeleteUserStep, LoginStep DEF Execute
<1>3. FaultsTyped'
  <2>1. Executed \/ Thrown \/ AnswerLost \/ Undefined
    BY DEF Execute, InsertUser, LastUser, InsertAuth, DeleteUser, FindAuth, UpdateUser, FindUser
  <2> QED
    BY <1>1, <2>1, FaultStep
<1>4. RestTyped'
  BY <1>1 DEF Execute, RestTyped, peerVars, tableVars
<1> QED
  BY <1>2, <1>3, <1>4, InvParts

-----------------------------------------------------------------------------
(* The server loop *)

LEMMA TailOfStream ==
  ASSUME NEW q \in Seq(Cell), NEW m \in Nat \ {0}
  PROVE  SubSeq(q, m, Len(q)) \in Seq(Cell)
BY SubSeqProperties, LenProperties

LEMMA RestIsSeq ==
  ASSUME NEW q \in Seq(Cell)
  PROVE  Rest(q) \in Seq(Cell)
<1>1. BufLen + 1 \in Nat \ {0}
  BY ConstantsAssumption
<1> QED
  BY <1>1, TailOfStream DEF Rest

\* The end of a client's turn
LEMMA DoneStep ==
  ASSUME NEW c \in Conn, RestTyped, Done(c)
  PROVE  ready' \subseteq Conn /\ pc' \in {"select", "serve"}
BY DEF Done, Resume, RestTyped

LEMMA NoJobTyped == NoJob \in JobType
BY DEF NoJob, JobType, Outcome

\* A request begins to be handled.
LEMMA HandleStep ==
  ASSUME AuthInv, NEW c \in Conn, NEW r \in Request, Handle(c, r), UNCHANGED dbVars
  PROVE  DbInv' /\ pc' \in Control /\ ready' \subseteq Conn /\ handled' \in Nat
<1>1. RestTyped /\ DbInv
  BY InvParts
<1>2. handled' \in Nat
  BY <1>1 DEF Handle, RestTyped
<1>3. CASE Done(c) /\ job' = NoJob
  BY <1>1, <1>2, <1>3, DoneStep, NoJobTyped, IdleKeepsDbInv DEF Control
<1>4. CASE /\ UNCHANGED ready
           /\ job' = [request |-> r, id |-> 0, outcome |-> "failed"]
           /\ pc' = IF r.id = "LOGIN" THEN "findAuth"
                    ELSE IF r.password \in ShortPassword THEN "reply" ELSE "insertUser"
  <2>1. job' \in JobType /\ job'.request = r /\ job'.outcome = "failed"
    BY <1>4 DEF JobType, Outcome
  <2>2. r.id \in {"REGISTER", "LOGIN"}
    BY DEF Request
  <2>3. ready' \subseteq Conn
    BY <1>1, <1>4 DEF RestTyped
  <2> QED
    BY <1>1, <1>2, <1>4, <2>1, <2>2, <2>3
       DEF DbInv, DbTyped, dbVars, UsersLinked, Accounts, JobInv, OutcomeInv, Control,
           Handling, Statement
<1> QED
  BY <1>2, <1>3, <1>4 DEF Handle

LEMMA IgnoreStep ==
  ASSUME AuthInv, NEW c \in Conn, Ignore(c), UNCHANGED dbVars
  PROVE  DbInv' /\ pc' \in Control /\ ready' \subseteq Conn /\ handled' \in Nat
<1>1. RestTyped /\ DbInv
  BY InvParts
<1>2. Done(c) /\ job' = NoJob /\ handled' = handled
  BY DEF Ignore
<1> QED
  BY <1>1, <1>2, DoneStep, NoJobTyped, IdleKeepsDbInv DEF Control, RestTyped

\* The stale buffer holds a request, if it holds anything.
LEMMA RereadStep ==
  ASSUME AuthInv, NEW c \in Conn, Reread(c), UNCHANGED dbVars
  PROVE  DbInv' /\ pc' \in Control /\ ready' \subseteq Conn /\ handled' \in Nat
<1>1. scratch \in Request
  BY InvParts DEF Reread, RestTyped
<1> QED
  BY <1>1, HandleStep DEF Reread

LEMMA ReadStep ==
  ASSUME AuthInv, NEW c \in Conn, ReadRequest(c) \/ ReadTail(c) \/ ReadError(c)
  PROVE  AuthInv'
<1>1. RestTyped /\ FaultsTyped
  BY InvParts
<1>2. UNCHANGED <<peerVars, backlog, answers, tableVars, dbVars, faultVars>>
  BY DEF ReadRequest, ReadTail, ReadError
<1>3. FaultsTyped'
  BY <1>1, <1>2 DEF FaultsTyped, faultVars
<1>4. stream' \in [Conn -> Seq(Cell)]
  <2>1. stream' = stream \/ stream' = [stream EXCEPT ![c] = Rest(@)]
    BY DEF ReadRequest, ReadTail, ReadError
  <2>2. Rest(stream[c]) \in Seq(Cell)
    BY <1>1, RestIsSeq DEF RestTyped
  <2> QED
    BY <1>1, <2>1, <2>2 DEF RestTyped
<1>5. /\ DbInv' /\ pc' \in Control /\ ready' \subseteq Conn /\ handled' \in Nat
      /\ scratch' \in Request \cup {NoRequest}
  <2>1. CASE ReadRequest(c)
    <3>1. stream[c] \in Seq(Cell) /\ stream[c] # << >>
      BY <1>1, <2>1 DEF ReadRequest, RestTyped
    <3>2. Head(stream[c]) \in Cell
      BY <3>1, HeadTailProperties
    <3>3. Head(stream[c]).r \in Request
      BY <3>2 DEF Cell
    <3> QED
      BY <1>2, <2>1, <3>3, HandleStep DEF ReadRequest
  <2>2. CASE ReadTail(c)
    BY <1>1, <1>2, <2>2, IgnoreStep, RereadStep DEF ReadTail, RestTyped
  <2>3. CASE ReadError(c)
    BY <1>1, <1>2, <2>3, IgnoreStep, RereadStep DEF ReadError, RestTyped
  <2> QED
    BY <2>1, <2>2, <2>3
<1>6. RestTyped'
  BY <1>1, <1>2, <1>4, <1>5 DEF RestTyped, peerVars, tableVars
<1> QED
  BY <1>3, <1>5, <1>6, InvParts

LEMMA ReplyStep ==
  ASSUME AuthInv, NEW c \in Conn, Reply(c)
  PROVE  AuthInv'
<1>1. RestTyped /\ FaultsTyped /\ DbInv
  BY InvParts
<1>2. job \in JobType /\ job.request \in Request
  BY <1>1 DEF Reply, DbInv, JobInv, Handling
<1> DEFINE answer == [request |-> job.request, outcome |-> job.outcome]
<1>3. answer \in [request : Request, outcome : Outcome]
  BY <1>2 DEF JobType
<1> HIDE DEF answer
<1>4. answers' \in [Conn -> Seq([request : Request, outcome : Outcome])]
  <2>1. answers' = answers \/ answers' = [answers EXCEPT ![c] = Append(@, answer)]
    BY DEF Reply, answer
  <2>2. Append(answers[c], answer) \in Seq([request : Request, outcome : Outcome])
    BY <1>1, <1>3, AppendProperties DEF RestTyped
  <2> QED
    BY <1>1, <2>1, <2>2 DEF RestTyped
<1>5. ready' \subseteq Conn /\ pc' \in {"select", "serve"}
  BY <1>1, DoneStep DEF Reply
<1>6. DbInv' /\ pc' \in Control
  BY <1>1, <1>5, NoJobTyped, IdleKeepsDbInv DEF Reply, Control
<1>7. RestTyped' /\ FaultsTyped'
  BY <1>1, <1>4, <1>5 DEF Reply, RestTyped, FaultsTyped, peerVars, tableVars, faultVars
<1> QED
  BY <1>6, <1>7, InvParts

LEMMA PassStep ==
  ASSUME AuthInv, Select \/ \E c \in Conn : Register(c) \/ AcceptFails(c) \/ Disconnect(c)
  PROVE  AuthInv'
<1>1. RestTyped /\ FaultsTyped /\ DbInv
  BY InvParts
<1>2. CASE Select
  <2>1. ready' \subseteq Conn /\ pc' \in {"accept", "serve"}
    BY <1>1, <1>2 DEF Select, Polled, RestTyped
  <2>2. RestTyped' /\ FaultsTyped'
    BY <1>1, <1>2, <2>1 DEF Select, RestTyped, FaultsTyped, peerVars, tableVars, faultVars
  <2> QED
    BY <1>1, <1>2, <2>1, <2>2, InvParts, IdleKeepsDbInv DEF Select, Control, DbInv
<1>3. ASSUME NEW c \in Conn, Register(c)
      PROVE  AuthInv'
  <2>1. pc' \in {"select", "serve"}
    BY <1>3 DEF Register, Resume
  <2>2. backlog' \in Seq(Conn) /\ clients' \in Seq(Conn) /\ connected' \subseteq Conn
    BY <1>1, <1>3, HeadTailProperties, AppendProperties DEF Register, RestTyped
  <2>3. SubSeq(stream[c], BufLen, Len(stream[c])) \in Seq(Cell)
    BY <1>1, TailOfStream, ConstantsAssumption DEF RestTyped
  <2>4. stream' \in [Conn -> Seq(Cell)]
    BY <1>1, <1>3, <2>3 DEF Register, RestTyped
  <2>5. RestTyped' /\ FaultsTyped'
    BY <1>1, <1>3, <2>2, <2>4 DEF Register, RestTyped, FaultsTyped, peerVars, faultVars
  <2> QED
    BY <1>1, <1>3, <2>1, <2>5, InvParts, IdleKeepsDbInv DEF Register, Control, DbInv
<1>4. ASSUME NEW c \in Conn, AcceptFails(c)
      PROVE  AuthInv'
  <2>1. pc' \in {"select", "serve", "down"}
    BY <1>4 DEF AcceptFails, Resume
  <2>2. backlog' \in Seq(Conn)
    <3>1. backlog \in Seq(Conn) /\ backlog # << >>
      BY <1>1, <1>4 DEF AcceptFails, RestTyped
    <3>2. Tail(backlog) \in Seq(Conn)
      BY <3>1, HeadTailProperties
    <3> QED
      BY <1>4, <3>1, <3>2 DEF AcceptFails
  <2>3. RestTyped' /\ FaultsTyped'
    BY <1>1, <1>4, <2>2 DEF AcceptFails, RestTyped, FaultsTyped, peerVars, tableVars, faultVars
  <2> QED
    BY <1>1, <1>4, <2>1, <2>3, InvParts, IdleKeepsDbInv DEF AcceptFails, Control, DbInv
<1>5. ASSUME NEW c \in Conn, Disconnect(c)
      PROVE  AuthInv'
  <2>1. ready' \subseteq Conn /\ pc' \in {"select", "serve"}
    BY <1>1, <1>5, DoneStep DEF Disconnect
  <2>2. RestTyped' /\ FaultsTyped'
    BY <1>1, <1>5, <2>1 DEF Disconnect, RestTyped, FaultsTyped, peerVars, faultVars
  <2> QED
    BY <1>1, <1>5, <2>1, <2>2, InvParts, IdleKeepsDbInv DEF Disconnect, Control, DbInv
<1> QED
  BY <1>2, <1>3, <1>4, <1>5

-----------------------------------------------------------------------------
(* The environment *)

LEMMA RequestCells ==
  ASSUME NEW r \in Request
  PROVE  [k \in 1..Width |-> [r |-> r, k |-> k]] \in Seq(Cell)
<1>1. [k \in 1..Width |-> [r |-> r, k |-> k]] \in [1..Width -> Cell]
  BY DEF Cell
<1>2. Width \in Nat
  BY ConstantsAssumption
<1> QED
  BY <1>1, <1>2, SeqDef

LEMMA ClientTyped ==
  ASSUME AuthInv, NEW c \in Conn, ClientStep(c)
  PROVE  RestTyped' /\ UNCHANGED serverVars
<1>1. RestTyped
  BY InvParts
<1> USE DEF serverVars, tableVars
<1>2. CASE Connect(c)
  <2>1. backlog' \in Seq(Conn)
    BY <1>1, <1>2, AppendProperties DEF Connect, RestTyped
  <2> QED
    BY <1>1, <1>2, <2>1 DEF Connect, RestTyped
<1>3. CASE SendName(c)
  BY <1>1, <1>3 DEF SendName, RestTyped
<1>4. CASE Leave(c)
  <2>1. << >> \in Seq(Cell)
    BY EmptySeq
  <2>2. stream' = stream \/ stream' = [stream EXCEPT ![c] = << >>]
    BY <1>4 DEF Leave
  <2>3. stream' \in [Conn -> Seq(Cell)]
    BY <1>1, <2>1, <2>2 DEF RestTyped
  <2>4. peer' \in [Conn -> {"idle", "dialed", "open", "closed", "reset"}]
    BY <1>1, <1>4 DEF Leave, RestTyped
  <2> QED
    BY <1>1, <1>4, <2>3, <2>4 DEF Leave, RestTyped
<1>5. ASSUME NEW r \in Request, SendRequest(c, r)
      PROVE  RestTyped' /\ UNCHANGED serverVars
  <2>1. r.n \in 1..MaxRequests /\ r.n = nsent[c] + 1 /\ MaxRequests \in Nat
    BY <1>5, ConstantsAssumption DEF SendRequest, Request
  <2>2. nsent' \in [Conn -> 0..MaxRequests]
    BY <1>1, <1>5, <2>1 DEF SendRequest, RestTyped
  <2>3. stream[c] \o [k \in 1..Width |-> [r |-> r, k |-> k]] \in Seq(Cell)
    BY <1>1, RequestCells, ConcatProperties DEF RestTyped
  <2>4. stream' \in [Conn -> Seq(Cell)]
    BY <1>1, <1>5, <2>3 DEF SendRequest, RestTyped
  <2> QED
    BY <1>1, <1>5, <2>2, <2>4 DEF SendRequest, RestTyped
<1> QED
  BY <1>2, <1>3, <1>4, <1>5 DEF ClientStep

LEMMA CrashStep ==
  ASSUME AuthInv, Crash
  PROVE  AuthInv'
<1>1. RestTyped /\ FaultsTyped /\ DbInv
  BY InvParts
<1>2. RestTyped'
  BY <1>1 DEF Crash, RestTyped, peerVars, tableVars
<1>3. FaultsTyped'
  BY <1>1 DEF Crash, Failure, FaultsTyped
<1> QED
  BY <1>1, <1>2, <1>3, InvParts, IdleKeepsDbInv DEF Crash, Control, DbInv

LEMMA StartStep ==
  ASSUME AuthInv, Start
  PROVE  AuthInv'
<1>1. RestTyped /\ FaultsTyped /\ DbInv
  BY InvParts
<1>2. << >> \in Seq(Cell) /\ << >> \in Seq(Conn)
  BY EmptySeq
<1>3. RestTyped'
  BY <1>1, <1>2 DEF Start, RestTyped
<1>4. FaultsTyped'
  BY <1>1 DEF Start, Connected, FaultsTyped
<1> QED
  BY <1>1, <1>3, <1>4, InvParts, IdleKeepsDbInv, NoJobTyped DEF Start, Control

LEMMA AuthStep == AuthInv /\ [Next]_vars => AuthInv'
<1> SUFFICES ASSUME AuthInv, [Next]_vars PROVE AuthInv'
  OBVIOUS
<1>1. RestTyped /\ FaultsTyped /\ DbInv /\ pc \in Control
  BY InvParts
<1>2. CASE UNCHANGED vars
  BY <1>1, <1>2, InvParts, SameKeepsDbInv
     DEF vars, RestTyped, FaultsTyped, peerVars, tableVars, faultVars
<1>3. CASE SelectTimeout
  BY <1>2, <1>3 DEF SelectTimeout
<1>4. CASE ServerStep
  BY <1>4, ExecuteStep, ReadStep, ReplyStep, PassStep DEF ServerStep
<1>5. ASSUME NEW c \in Conn, ClientStep(c) PROVE AuthInv'
  <2>1. RestTyped' /\ UNCHANGED serverVars
    BY <1>5, ClientTyped
  <2> QED
    BY <1>1, <2>1, InvParts, SameKeepsDbInv DEF serverVars, faultVars, FaultsTyped
<1> QED
  BY <1>2, <1>3, <1>4, <1>5, CrashStep, StartStep DEF Next

LEMMA AuthInvariant == Spec => []AuthInv
<1>1. Init => AuthInv
  BY AuthInit
<1>2. AuthInv /\ [Next]_vars => AuthInv'
  BY AuthStep
<1> QED
  BY <1>1, <1>2, PTL DEF Spec

-----------------------------------------------------------------------------
(* The theorems *)

\* Every state of the server has the types of TypeOK: the id a registration reads is
\* always that of a user, and only requests are handled.
THEOREM AuthTypeCorrect == Spec => []TypeOK
<1>1. AuthInv => TypeOK
  BY DEF AuthInv
<1> QED
  BY <1>1, AuthInvariant, PTL

\* CreateAccount() without a transaction: each account has a user of its own, wherever
\* the process and the connection to the database may have ended.
THEOREM AccountsLinked == Spec => []UsersLinked
<1>1. AuthInv => UsersLinked
  BY DEF AuthInv
<1> QED
  BY <1>1, AuthInvariant, PTL

LEMMA StoreInit == Init => Store!Init
BY DEF Init, Store!Init

\* Only two kinds of step are visible in the store: the INSERT of an account, and an
\* answer.

\* The rest of the server does not touch the accounts or the answers.
LEMMA QuietSteps ==
  ASSUME [Next]_vars
  PROVE  \/ UNCHANGED <<webAuth, answers>>
         \/ InsertAuth /\ UNCHANGED answers
         \/ \E c \in Conn : Reply(c)
<1>1. CASE UNCHANGED vars \/ SelectTimeout \/ Crash \/ Start
  BY <1>1 DEF vars, SelectTimeout, Crash, Start, dbVars
<1>2. CASE Execute
  BY <1>2 DEF Execute, InsertUser, LastUser, DeleteUser, FindAuth, UpdateUser, FindUser, dbVars
<1>3. CASE Select \/ \E c \in Conn : \/ Register(c) \/ AcceptFails(c) \/ Disconnect(c)
                                     \/ ReadRequest(c) \/ ReadTail(c) \/ ReadError(c)
  BY <1>3 DEF Select, Register, AcceptFails, Disconnect, ReadRequest, ReadTail, ReadError, dbVars
<1>4. CASE \E c \in Conn : ClientStep(c)
  BY <1>4 DEF ClientStep, Connect, SendName, Leave, SendRequest, serverVars, dbVars
<1> QED
  BY <1>1, <1>2, <1>3, <1>4 DEF Next, ServerStep

LEMMA InsertRegisters ==
  ASSUME AuthInv, InsertAuth, UNCHANGED answers
  PROVE  Store!Next \/ UNCHANGED <<webAuth, answers>>
<1> DEFINE r == job.request
           row == [by |-> r, userId |-> job.id]
<1>1. /\ r \in Request /\ r.email \in Email /\ r.id = "REGISTER" /\ job.id \in Nat
      /\ webAuth \in [Email -> Row \cup {NoAccount}]
  BY DEF AuthInv, TypeOK, JobInv, OutcomeInv, InsertAuth, Handling, Statement, Request
<1>2. CASE webAuth[r.email] = NoAccount /\ webAuth' = [webAuth EXCEPT ![r.email] = row]
  <2>1. row \in Row /\ row # NoAccount /\ row.by = r
    BY <1>1, ConstantsAssumption DEF Row
  <2> HIDE DEF row
  <2>2. webAuth'[r.email] = row /\ \A e \in Email \ {r.email} : webAuth'[e] = webAuth[e]
    BY <1>1, <1>2
  <2>3. Store!RegisterAddress(r)
    BY <1>1, <1>2, <2>1, <2>2 DEF Store!RegisterAddress
  <2>4. \E q \in Request : Store!RegisterAddress(q)
    BY <1>1, <2>3 DEF Store!RegisterAddress
  <2> QED
    BY <2>4 DEF Store!Next
<1>3. CASE UNCHANGED webAuth
  BY <1>3
<1> QED
  BY <1>2, <1>3 DEF InsertAuth

LEMMA ReplyTells ==
  ASSUME AuthInv, NEW c \in Conn, Reply(c)
  PROVE  Store!Next \/ UNCHANGED <<webAuth, answers>>
<1> DEFINE r == job.request
           o == job.outcome
           account(e) == IF webAuth[e] = NoAccount THEN NoAccount ELSE webAuth[e].by
<1>1. /\ r \in Request /\ r.email \in Email /\ r.id \in {"REGISTER", "LOGIN"} /\ o \in Outcome
      /\ webAuth \in [Email -> Row \cup {NoAccount}] /\ UNCHANGED webAuth
      /\ pc = "reply"
  BY DEF AuthInv, TypeOK, JobInv, Reply, Handling, Request, dbVars
<1>2. CASE answers' = answers
  BY <1>1, <1>2
<1>3. CASE answers' = [answers EXCEPT ![c] = Append(@, [request |-> r, outcome |-> o])]
  <2>1. webAuth[r.email] # NoAccount => webAuth[r.email].by # NoAccount
    BY <1>1, ConstantsAssumption DEF Row
  <2>2. Store!Matches(r) <=> Matches(r)
    BY <1>1, <2>1 DEF Store!Matches, Matches
  <2>3. /\ o = "ok" /\ r.id = "REGISTER" => account(r.email) = r
        /\ o = "refused" => r.id = "LOGIN"
        /\ r.id = "LOGIN" /\ r.email \notin OddEmail =>
             (o = "ok" => Matches(r)) /\ (o = "refused" => ~Matches(r))
    BY <1>1 DEF AuthInv, OutcomeInv, Plain
  <2>4. Store!Tell(c, r, o)
    BY <1>1, <1>3, <2>2, <2>3 DEF Store!Tell
  <2> QED
    BY <1>1, <2>4 DEF Store!Next, Outcome
<1> QED
  BY <1>2, <1>3 DEF Reply

\* Only two kinds of step are visible in the store: the INSERT of an account, and an
\* answer.
LEMMA StoreStep == AuthInv /\ [Next]_vars => [Store!Next]_(Store!store)
<1> SUFFICES ASSUME AuthInv, [Next]_vars PROVE [Store!Next]_(Store!store)
  OBVIOUS
<1>1. Store!Next \/ UNCHANGED <<webAuth, answers>>
  BY QuietSteps, InsertRegisters, ReplyTells
<1>2. UNCHANGED <<webAuth, answers>> => UNCHANGED Store!store
  BY DEF Store!store
<1> QED
  BY <1>1, <1>2

\* The authentication server implements the account store, whatever fails: an address
\* keeps the password it was registered with, logins with odd addresses included, and no
\* success is answered that is none, except to those.
THEOREM StoreImplemented == Spec => RefinesAccountStore
<1>1. Init => Store!Init
  BY StoreInit
<1>2. AuthInv /\ [Next]_vars => [Store!Next]_(Store!store)
  BY StoreStep
<1> QED
  BY <1>1, <1>2, AuthInvariant, PTL DEF Spec, RefinesAccountStore, Store!Spec

-----------------------------------------------------------------------------
(* What ends the process *)

\* A statement that throws where nothing is caught, or a user that is not there
LEMMA StatementEnds ==
  ASSUME AuthInv, Execute, pc' = "down"
  PROVE  \/ failures' # failures \/ link # "up"
         \/ job.request # NoRequest /\ job.request.email \in OddEmail
<1>1. /\ pc \in Statement /\ failures \in Nat /\ job.request \in Request
  BY DEF AuthInv, TypeOK, JobInv, Execute, InsertUser, LastUser, InsertAuth, DeleteUser, FindAuth,
         UpdateUser, FindUser, Handling, Statement
<1>2. job.request # NoRequest
  BY <1>1, ConstantsAssumption
<1>3. Thrown \/ AnswerLost \/ Undefined => failures' # failures \/ link # "up"
  BY <1>1 DEF Thrown, AnswerLost, Undefined, Failure
<1>4. CASE LastUser \/ InsertAuth \/ DeleteUser
  BY <1>4 DEF LastUser, InsertAuth, DeleteUser, Finish, Goto
<1>5. CASE InsertUser \/ FindAuth \/ UpdateUser
  BY <1>3, <1>5 DEF InsertUser, FindAuth, UpdateUser, Finish, Goto, Found
<1>6. CASE FindUser
  <2>1. pc = "findUser" /\ (Plain(job.request) =>
                              Matches(job.request) /\ job.id = webAuth[job.request.email].userId)
    BY <1>6 DEF FindUser, AuthInv, OutcomeInv
  <2>2. Plain(job.request) => job.id \in users
    BY <1>1, <2>1 DEF AuthInv, UsersLinked, Accounts, Matches, Request
  <2> QED
    BY <1>2, <1>3, <1>6, <2>2 DEF FindUser, Finish, Plain
<1> QED
  BY <1>4, <1>5, <1>6 DEF Execute

LEMMA EndStep ==
  ASSUME AuthInv, [Next]_vars, pc # "down", pc' = "down"
  PROVE  \/ failures' # failures \/ link # "up"
         \/ backlog # << >> /\ peer[Head(backlog)] = "reset"
         \/ job.request # NoRequest /\ job.request.email \in OddEmail
<1>1. CASE UNCHANGED vars \/ SelectTimeout \/ Start
  BY <1>1 DEF vars, SelectTimeout, Start
<1>2. CASE Crash
  <2>1. failures \in Nat
    BY DEF AuthInv, TypeOK
  <2> QED
    BY <1>2, <2>1 DEF Crash, Failure
<1>3. CASE Execute
  BY <1>3, StatementEnds
<1>4. CASE \E c \in Conn : AcceptFails(c)
  BY <1>4 DEF AcceptFails
<1>5. CASE Select \/ \E c \in Conn : \/ Register(c) \/ Disconnect(c) \/ Reply(c)
                                     \/ ReadRequest(c) \/ ReadTail(c) \/ ReadError(c)
  BY <1>5 DEF Select, Register, Disconnect, Reply, ReadRequest, ReadTail, ReadError, Handle, Reread,
              Ignore, Done, Resume
<1>6. CASE \E c \in Conn : ClientStep(c)
  BY <1>6 DEF ClientStep, Connect, SendName, Leave, SendRequest, serverVars
<1> QED
  BY <1>1, <1>2, <1>3, <1>4, <1>5, <1>6 DEF Next, ServerStep

\* The two statements of a login in which nothing is caught do not end the process for
\* want of a row: whatever failed before, the account that a plain address has found has
\* a user.  So the process ends only at a failure of its surroundings, or at an odd one.
THEOREM EndsHaveCauses == Spec => EndsOnlyForCause
<1>1. AuthInv /\ [Next]_vars =>
        [pc # "down" /\ pc' = "down" =>
           \/ failures' # failures \/ link # "up"
           \/ backlog # << >> /\ peer[Head(backlog)] = "reset"
           \/ job.request # NoRequest /\ job.request.email \in OddEmail]_vars
  BY EndStep
<1> QED
  BY <1>1, AuthInvariant, PTL DEF Spec, EndsOnlyForCause

-----------------------------------------------------------------------------
(* User rows without an account *)

\* The new user's row is there, and its account is not yet.
Registering == {"lastUser", "insertAuth", "deleteUser"}

\* There are at most so many users without an account or a failure to account for them.
Unaccounted(n) == Cardinality(users) <= Cardinality(Accounts) + failures + n

TablesFinite == IsFiniteSet(users) /\ IsFiniteSet(Accounts) /\ failures \in Nat

\* A registration goes on only as long as the connection is up.  When the DELETE is due,
\* either it is, and then the row is there, or the failure has been counted already.
OrphanInv ==
  /\ TablesFinite
  /\ Unaccounted(IF pc \in Registering THEN 1 ELSE 0)
  /\ pc \in {"lastUser", "insertAuth"} => link = "up"
  /\ pc = "deleteUser" => (link = "up" /\ job.id \in users) \/ Unaccounted(0)

LEMMA OrphanInit == Init => OrphanInv
<1> SUFFICES ASSUME Init PROVE OrphanInv
  OBVIOUS
<1>1. users = {} /\ Accounts = {} /\ failures = 0 /\ pc = "select"
  BY DEF Init, Accounts
<1> QED
  BY <1>1, FS_EmptySet DEF OrphanInv, TablesFinite, Unaccounted, Registering

-----------------------------------------------------------------------------
(* The steps *)

\* A step that leaves both tables alone, and leaves a registration only by a failure
LEMMA OutsideKeepsOrphans ==
  ASSUME OrphanInv, UNCHANGED <<users, webAuth>>, failures' \in Nat, failures <= failures',
         pc' \notin Registering, pc \in Registering => failures < failures' \/ Unaccounted(0)
  PROVE  OrphanInv'
<1>1. Cardinality(users) \in Nat /\ Cardinality(Accounts) \in Nat /\ failures \in Nat
  BY FS_CardinalityType DEF OrphanInv, TablesFinite
<1>2. users' = users /\ Accounts' = Accounts
  BY DEF Accounts
<1> QED
  BY <1>1, <1>2 DEF OrphanInv, TablesFinite, Unaccounted, Registering

LEMMA SameKeepsOrphans ==
  ASSUME OrphanInv, UNCHANGED <<users, webAuth, failures, link, pc, job>>
  PROVE  OrphanInv'
<1>1. users' = users /\ Accounts' = Accounts
  BY DEF Accounts
<1> QED
  BY <1>1 DEF OrphanInv, TablesFinite, Unaccounted, Registering

\* What a statement does to the number of failures and the connection
LEMMA FailuresGrow ==
  ASSUME failures \in Nat, Executed \/ Thrown \/ AnswerLost \/ Undefined
  PROVE  /\ failures' \in Nat /\ failures <= failures'
         /\ Executed => link = "up" /\ link' = "up" /\ failures' = failures
         /\ Thrown => link' = link /\ (link = "up" => failures' = failures + 1)
         /\ AnswerLost => link = "up" /\ link' = "lost" /\ failures' = failures + 1
         /\ Undefined => link = "none" /\ failures' = failures
BY DEF Executed, Thrown, AnswerLost, Undefined, Failure, faultVars

LEMMA InsertUserOrphans ==
  ASSUME OrphanInv, InsertUser
  PROVE  OrphanInv'
<1>1. /\ pc = "insertUser" /\ UNCHANGED webAuth /\ TablesFinite /\ Unaccounted(0)
      /\ Cardinality(users) \in Nat /\ Cardinality(Accounts) \in Nat /\ failures \in Nat
  BY FS_CardinalityType DEF InsertUser, OrphanInv, TablesFinite, Registering
<1>2. CASE UNCHANGED users /\ (Thrown \/ Undefined) /\ pc' \in {"reply", "down"}
  BY <1>1, <1>2, OutsideKeepsOrphans, FailuresGrow DEF Registering
<1>3. CASE AddUser
  <2>1. users' = users \cup {nextId} /\ Accounts' = Accounts
    BY <1>1, <1>3 DEF AddUser, Accounts
  <2>2. /\ IsFiniteSet(users \cup {nextId})
        /\ Cardinality(users \cup {nextId}) =
             IF nextId \in users THEN Cardinality(users) ELSE Cardinality(users) + 1
    BY <1>1, FS_AddElement DEF TablesFinite
  <2>3. IsFiniteSet(users') /\ Cardinality(users') \in Nat
    BY <2>1, <2>2, FS_CardinalityType
  <2>4. Cardinality(users') <= Cardinality(users) + 1
    BY <1>1, <2>1, <2>2
  <2>5. CASE Executed /\ Goto("lastUser")
    BY <1>1, <2>1, <2>3, <2>4, <2>5, FailuresGrow
       DEF Goto, OrphanInv, TablesFinite, Unaccounted, Registering
  <2>6. CASE AnswerLost /\ Finish("failed")
    BY <1>1, <2>1, <2>3, <2>4, <2>6, FailuresGrow
       DEF Finish, OrphanInv, TablesFinite, Unaccounted, Registering
  <2> QED
    BY <1>2, <2>5, <2>6 DEF InsertUser, Finish, Abort
<1> QED
  BY <1>2, <1>3 DEF InsertUser, Finish, Abort

LEMMA LastUserOrphans ==
  ASSUME OrphanInv, LastUser
  PROVE  OrphanInv'
<1>1. /\ pc = "lastUser" /\ UNCHANGED dbVars /\ link = "up" /\ failures \in Nat
      /\ TablesFinite /\ Unaccounted(1)
  BY DEF LastUser, OrphanInv, TablesFinite, Registering
<1>2. CASE Executed /\ pc' = "insertAuth"
  <2>1. users' = users /\ Accounts' = Accounts
    BY <1>1 DEF dbVars, Accounts
  <2> QED
    BY <1>1, <1>2, <2>1, FailuresGrow
       DEF OrphanInv, TablesFinite, Unaccounted, Registering
<1>3. CASE (Thrown \/ AnswerLost) /\ Finish("failed")
  BY <1>1, <1>3, OutsideKeepsOrphans, FailuresGrow DEF dbVars, Finish, Registering
<1> QED
  BY <1>2, <1>3 DEF LastUser

LEMMA InsertAuthOrphans ==
  ASSUME AuthInv, OrphanInv, InsertAuth
  PROVE  OrphanInv'
<1> DEFINE r == job.request
<1>1. /\ pc = "insertAuth" /\ UNCHANGED users /\ link = "up"
      /\ TablesFinite /\ Unaccounted(1) /\ r \in Request /\ job.id \in users
      /\ Cardinality(users) \in Nat /\ Cardinality(Accounts) \in Nat /\ failures \in Nat
  BY FS_CardinalityType
     DEF InsertAuth, OrphanInv, TablesFinite, Registering, AuthInv, JobInv, Handling, Statement
<1> DEFINE Insert == /\ webAuth[r.email] = NoAccount
                     /\ webAuth' = [webAuth EXCEPT ![r.email] = [by |-> r, userId |-> job.id]]
<1>2. ASSUME Insert
      PROVE  IsFiniteSet(Accounts') /\ Cardinality(Accounts') = Cardinality(Accounts) + 1
  <2>1. r.email \in Email /\ r.email \notin Accounts
    BY <1>1, <1>2 DEF Request, Accounts
  <2>2. job.id \in Nat /\ webAuth \in [Email -> Row \cup {NoAccount}]
    BY DEF AuthInv, TypeOK
  <2> DEFINE row == [by |-> r, userId |-> job.id]
  <2>3. row # NoAccount
    BY <1>1, <2>2, ConstantsAssumption DEF Row
  <2> HIDE DEF row
  <2>4. webAuth' = [webAuth EXCEPT ![r.email] = row]
    BY <1>2 DEF row
  <2>5. webAuth'[r.email] # NoAccount /\ \A e \in Email \ {r.email} : webAuth'[e] = webAuth[e]
    BY <2>1, <2>2, <2>3, <2>4
  <2>6. Accounts' = Accounts \cup {r.email}
    BY <2>1, <2>5 DEF Accounts
  <2> QED
    BY <1>1, <2>1, <2>6, FS_AddElement DEF TablesFinite
<1>3. UNCHANGED webAuth => Accounts' = Accounts
  BY DEF Accounts
<1>4. CASE Executed /\ Insert /\ Finish("ok")
  BY <1>1, <1>2, <1>4, FailuresGrow
     DEF Finish, OrphanInv, TablesFinite, Unaccounted, Registering
<1>5. CASE AnswerLost /\ Insert /\ Goto("deleteUser")
  BY <1>1, <1>2, <1>5, FailuresGrow
     DEF Goto, OrphanInv, TablesFinite, Unaccounted, Registering
<1>6. CASE (Executed \/ Thrown) /\ UNCHANGED webAuth /\ Goto("deleteUser")
  <2>1. link' = "up" /\ failures' \in Nat /\ failures <= failures'
    BY <1>1, <1>6, FailuresGrow
  <2> QED
    BY <1>1, <1>3, <1>6, <2>1
       DEF Goto, OrphanInv, TablesFinite, Unaccounted, Registering
<1>7. CASE Thrown /\ UNCHANGED webAuth /\ Finish("failed")
  BY <1>1, <1>7, OutsideKeepsOrphans, FailuresGrow DEF Finish, Registering
<1> QED
  BY <1>4, <1>5, <1>6, <1>7 DEF InsertAuth

\* The row is deleted, or a failure counted now or earlier stands for it.
LEMMA DeleteUserOrphans ==
  ASSUME OrphanInv, DeleteUser
  PROVE  OrphanInv'
<1>1. /\ pc = "deleteUser" /\ UNCHANGED webAuth /\ Finish("failed")
      /\ TablesFinite /\ Unaccounted(1)
      /\ (link = "up" /\ job.id \in users) \/ Unaccounted(0)
      /\ Cardinality(users) \in Nat /\ Cardinality(Accounts) \in Nat /\ failures \in Nat
  BY FS_CardinalityType DEF DeleteUser, OrphanInv, TablesFinite, Registering
<1>2. CASE (Executed \/ AnswerLost) /\ users' = users \ {job.id}
  <2>1. failures' \in Nat /\ failures <= failures'
    BY <1>1, <1>2, FailuresGrow
  <2>2. /\ IsFiniteSet(users')
        /\ Cardinality(users') = IF job.id \in users THEN Cardinality(users) - 1
                                 ELSE Cardinality(users)
    BY <1>1, <1>2, FS_RemoveElement DEF TablesFinite
  <2>3. Accounts' = Accounts
    BY <1>1 DEF Accounts
  <2> QED
    BY <1>1, <2>1, <2>2, <2>3
       DEF Finish, OrphanInv, TablesFinite, Unaccounted, Registering
<1>3. CASE Thrown /\ UNCHANGED users
  BY <1>1, <1>3, OutsideKeepsOrphans, FailuresGrow DEF Finish, Registering
<1> QED
  BY <1>2, <1>3 DEF DeleteUser

\* No other step of the program or of its environment touches the tables.
LEMMA OrphanStep == AuthInv /\ OrphanInv /\ [Next]_vars => OrphanInv'
<1> SUFFICES ASSUME AuthInv, OrphanInv, [Next]_vars PROVE OrphanInv'
  OBVIOUS
<1>1. failures \in Nat
  BY DEF AuthInv, TypeOK
<1>2. CASE UNCHANGED vars \/ SelectTimeout
  BY <1>2, SameKeepsOrphans DEF vars, SelectTimeout, dbVars, faultVars
<1>3. CASE Execute
  <2>1. CASE FindAuth \/ UpdateUser \/ FindUser
    BY <1>1, <2>1, OutsideKeepsOrphans, FailuresGrow
       DEF FindAuth, UpdateUser, FindUser, dbVars, Finish, Abort, Goto, Found, Registering
  <2> QED
    BY <1>3, <2>1, InsertUserOrphans, LastUserOrphans, InsertAuthOrphans, DeleteUserOrphans
       DEF Execute
<1>4. ASSUME UNCHANGED <<users, webAuth, failures>>, pc \notin Registering, pc' \notin Registering
      PROVE  OrphanInv'
  BY <1>1, <1>4, OutsideKeepsOrphans
<1>5. CASE Select \/ \E c \in Conn : Register(c) \/ AcceptFails(c) \/ Disconnect(c) \/ Reply(c)
  BY <1>4, <1>5 DEF Select, Register, AcceptFails, Disconnect, Reply, Done, Resume, dbVars,
                    faultVars, Registering
<1>6. CASE \E c \in Conn : ReadRequest(c) \/ ReadTail(c) \/ ReadError(c)
  BY <1>4, <1>6 DEF ReadRequest, ReadTail, ReadError, Handle, Reread, Ignore, Done, Resume,
                    dbVars, faultVars, Registering
<1>7. CASE \E c \in Conn : ClientStep(c)
  BY <1>7, SameKeepsOrphans
     DEF ClientStep, Connect, SendName, Leave, SendRequest, serverVars, dbVars, faultVars
<1>8. CASE Crash
  BY <1>1, <1>8, OutsideKeepsOrphans DEF Crash, Failure, dbVars, Registering
<1>9. CASE Start
  BY <1>4, <1>9 DEF Start, dbVars, Registering
<1> QED
  BY <1>2, <1>3, <1>5, <1>6, <1>7, <1>8, <1>9 DEF Next, ServerStep

-----------------------------------------------------------------------------
\* CreateAccount() without a transaction: the user rows that have no account are those
\* left behind by a failure, at most one for each, and the one of the registration that
\* is going on.
THEOREM OrphansBounded == Spec => []OrphansCounted
<1>1. Init => OrphanInv
  BY OrphanInit
<1>2. AuthInv /\ OrphanInv /\ [Next]_vars => OrphanInv'
  BY OrphanStep
<1>3. OrphanInv => OrphansCounted
  BY DEF OrphanInv, Unaccounted, OrphansCounted, Registering
<1> QED
  BY <1>1, <1>2, <1>3, AuthInvariant, PTL DEF Spec
=============================================================================
