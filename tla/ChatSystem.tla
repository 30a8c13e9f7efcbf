----------------------------- MODULE ChatSystem -----------------------------
(***************************************************************************)
(* The chat server and the authentication server together.  Each takes the *)
(* place of the environment that the other's module assumes: a request     *)
(* leaves a handler of ChatServer.tla and enters the stream of             *)
(* AuthServer.tla, and an answer goes the other way.  What the chat server *)
(* sees of it, toAuth, is computed from the authentication server's state. *)
(*                                                                         *)
(* Users, their connections, the database and the end of the               *)
(* authentication server's process remain the environment.                 *)
(***************************************************************************)
EXTENDS ChatProperties

CONSTANTS
  ChatEnd,   \* the chat server's connection
  Email, LongEmail, OddEmail, Password, ShortPassword,
  NoRequest, NoAccount,
  AuthWidth, \* cells of a request to the authentication server
  AuthFaults,
  MaxRequests, \* bound: requests to the authentication server
  MaxHandled, MaxFailures

VARIABLES
  aPeer, aNsent, aBacklog, aStream, answers, aClients, aConnected, aPc, aReady, aScratch,
  job, handled, users, nextId, webAuth, dbLink, failures,
  asked,   \* history: the entry of the log behind each request that was sent
  verdicts,  \* history: the answers behind the lines that a client was sent
  unfounded  \* history: the entries of the log that it was sent a line about
             \* though there was no answer

Auth == INSTANCE AuthServer WITH
  Conn <- {ChatEnd}, Width <- AuthWidth, Faults <- AuthFaults,
  peer <- aPeer, nsent <- aNsent, backlog <- aBacklog, stream <- aStream,
  clients <- aClients, connected <- aConnected, pc <- aPc, ready <- aReady,
  scratch <- aScratch, link <- dbLink

\* ConstantsAssumption of AuthServer.tla
ASSUME SystemAssumption ==
  /\ LongEmail \subseteq Email /\ OddEmail \subseteq Email
  /\ ShortPassword \subseteq Password
  /\ AuthWidth \in Nat \ {0}
  /\ AuthFaults \subseteq Auth!FaultKind
  /\ NoRequest \notin Auth!Request
  /\ NoAccount \notin Auth!Request \cup Auth!Row
  /\ MaxRequests \in Nat /\ MaxHandled \in Nat /\ MaxFailures \in Nat

authServerVars == <<aPeer, aNsent, aBacklog, aStream, answers, aClients, aConnected, aPc,
                    aReady, aScratch, job, handled, users, nextId, webAuth, dbLink, failures>>
historyVars == <<asked, verdicts, unfounded>>
systemVars == <<vars, authServerVars, historyVars>>

-----------------------------------------------------------------------------
(* What is on the wire, as the chat server knows it *)

Answered(r) == \E i \in DOMAIN answers[ChatEnd] : answers[ChatEnd][i].request = r

\* The request that is handled; -n if it is handled again.
InHand ==
  IF job.request = NoRequest THEN << >>
  ELSE <<IF Answered(job.request) THEN -asked[job.request.n] ELSE asked[job.request.n]>>

\* The requests in the stream, and first of all the rest of one that was answered
InStream ==
  LET q == aStream[ChatEnd]
      first == IF q # << >> /\ q[1].k # 1 /\ job.request # q[1].r /\ Answered(q[1].r)
               THEN <<-asked[q[1].r.n]>> ELSE << >>
      whole == Pick(q, {i \in DOMAIN q : q[i].k = 1})
  IN  first \o [i \in DOMAIN whole |-> asked[whole[i].r.n]]

OnWire == InHand \o InStream

-----------------------------------------------------------------------------
SystemInit ==
  /\ Init /\ authLink = "up"
  /\ Auth!Init
  /\ asked = << >>
  /\ verdicts = [s \in Socket |-> << >>]
  /\ unfounded = [s \in Socket |-> {}]

\* The authentication server is started first.  The chat server connects to it and sends
\* its name before its own loop begins.
StartChatServer ==
  /\ Auth!Connect(ChatEnd) \/ Auth!SendName(ChatEnd)
  /\ UNCHANGED <<vars, historyVars>>

Started == aPeer[ChatEnd] \notin {"idle", "dialed"}

\* Mutant: the request is sent again.
MutantForward ==
  /\ Len(asked) < MaxRequests
  /\ asked' = Append(asked, Len(log'))
  /\ aNsent' = [aNsent EXCEPT ![ChatEnd] = @ + 1]
  /\ \E email \in Email, password \in Password :
       LET r == [id |-> IF log'[Len(log')].p.id = "CREATE" THEN "REGISTER" ELSE "LOGIN",
                 email |-> email, password |-> password,
                 from |-> ChatEnd, n |-> aNsent[ChatEnd] + 1]
       IN  aStream' = [aStream EXCEPT ![ChatEnd] =
                         @ \o [k \in 1..(2 * AuthWidth) |->
                               [r |-> r, k |-> ((k - 1) % AuthWidth) + 1]]]
  /\ UNCHANGED <<aPeer, aBacklog, answers, aClients, aConnected, aPc, aReady, aScratch,
                 job, handled, users, nextId, webAuth, dbLink, failures>>

\* The request that the last entry of the log makes the chat server send; the e-mail
\* address and the password are what the user has typed.
Forward ==
  /\ Len(asked) < MaxRequests
  /\ asked' = Append(asked, Len(log'))
  /\ aNsent' = [aNsent EXCEPT ![ChatEnd] = @ + 1]
  /\ \E email \in Email, password \in Password :
       LET r == [id |-> IF log'[Len(log')].p.id = "CREATE" THEN "REGISTER" ELSE "LOGIN",
                 email |-> email, password |-> password,
                 from |-> ChatEnd, n |-> aNsent[ChatEnd] + 1]
       IN  aStream' = [aStream EXCEPT ![ChatEnd] =
                         @ \o [k \in 1..AuthWidth |-> [r |-> r, k |-> k]]]
  /\ UNCHANGED <<aPeer, aBacklog, answers, aClients, aConnected, aPc, aReady, aScratch,
                 job, handled, users, nextId, webAuth, dbLink, failures>>

\* The answer in front of fromAuth, of which cells may have been received before
Unread == (Len(fromAuth) + AnswerWidth - 1) \div AnswerWidth
NextAnswer == answers[ChatEnd][Len(answers[ChatEnd]) - Unread + 1]

IsAnswered(s) ==
  /\ Len(sent'[s]) > Len(sent[s])
  /\ sent'[s][Len(sent'[s])].text = "answer"

\* What the chat server sends, and what the lines "Account successfully created!",
\* "Authentication successful..." and the like that it sends to a client were about: an
\* answer, or, without the link, nothing that was received.
ChatMoves ==
  /\ Started
  /\ IF toAuth' # toAuth THEN Forward ELSE UNCHANGED <<authServerVars, asked>>
  /\ verdicts' = [s \in Socket |-> IF IsAnswered(s) /\ authLink = "up"
                                   THEN Append(verdicts[s], NextAnswer) ELSE verdicts[s]]
  /\ unfounded' = [s \in Socket |-> IF IsAnswered(s) /\ authLink # "up"
                                    THEN unfounded[s] \cup {Len(log)} ELSE unfounded[s]]

ChatServerStep == ServerStep /\ ChatMoves

UsersStep == ((\E s \in Socket : ClientStep(s)) \/ SelectTimeout) /\ ChatMoves

\* A step of the authentication server changes what is on the wire.  If its process ends
\* and is started again before the chat server has connected, nothing is lost.  Once the chat
\* server has ended it sees nothing more.
AuthMoves ==
  /\ UNCHANGED <<clientVars, stream, serverVars, wsaRefs, historyVars>>
  /\ IF authLink # "up" \/ ~Running THEN UNCHANGED <<toAuth, fromAuth, authLink>>
     ELSE IF aPc' = "down" /\ aPeer[ChatEnd] # "idle"
     THEN authLink' = "lost" /\ toAuth' = << >> /\ fromAuth' = << >>
     ELSE /\ toAuth' = OnWire'
          /\ fromAuth' =
               IF answers' = answers THEN fromAuth
               ELSE fromAuth \o [k \in 1..AnswerWidth |-> [of |-> asked[job.request.n], k |-> k]]
          /\ UNCHANGED authLink

AuthServerStep == Auth!ServerStep /\ AuthMoves
AuthServerFails == (Auth!Crash \/ Auth!Start) /\ AuthMoves

SystemNext ==
  \/ StartChatServer \/ ChatServerStep \/ UsersStep \/ AuthServerStep \/ AuthServerFails
  \/ Auth!SelectTimeout /\ UNCHANGED <<vars, historyVars>>
  \/ Stopped /\ UNCHANGED <<authServerVars, historyVars>>

SystemSpec == SystemInit /\ [][SystemNext]_systemVars

\* Both servers' threads keep running.
SystemFairness == WF_systemVars(ChatServerStep) /\ WF_systemVars(AuthServerStep)

SystemLiveSpec == SystemSpec /\ SystemFairness
=============================================================================
