--------------------------- MODULE ChatProperties ---------------------------
(***************************************************************************)
(* What can be said about the chat server of ChatServer.tla: the safety    *)
(* and liveness properties, the room service it implements for users who   *)
(* keep to the rules, and a promise of its messages that the code does not *)
(* keep.                                                                   *)
(***************************************************************************)
EXTENDS ChatServer

CONSTANT Careful \* the clients that PacedSpec obliges to keep pace with the server

ASSUME CarefulAssumption == Careful \subseteq Socket

-----------------------------------------------------------------------------
(* Clients that keep pace *)

\* A client keeps pace if it is registered before it sends, sends a request only when
\* the server has received all of the one before, and none that recv() has to take in
\* two pieces.  Then every recv() from it returns one request and leaves nothing.
KeepsPace(s, p) == s \in connected /\ stream[s] = << >> /\ Width[p.id] <= BufLen

\* The request that a step of its client adds to a stream
NewRequest(s) == stream'[s][Len(stream[s]) + 1].p

PacedStep(S) == \A s \in S : nsent'[s] # nsent[s] => KeepsPace(s, NewRequest(s))

PacedSpec == Init /\ [][Next /\ PacedStep(Careful)]_vars

-----------------------------------------------------------------------------
(* Safety *)

\* What is handled is a request that its client has sent after all of its requests
\* that were handled before, or else the request handled last, once more: of one whose
\* last bytes are received by themselves, of stale bytes behind a reset, for whichever
\* client the server reads then.  No older request ever comes back, however the
\* streams are cut into pieces and whatever is lost.
RequestsInOrder ==
  \A j \in DOMAIN log :
    \/ j > 1 /\ log[j].p = log[j - 1].p
    \/ /\ log[j].p.from = log[j].by
       /\ \A i \in 1..(j - 1) : log[i].p.from = log[j].by => log[i].p.n < log[j].p.n

\* Under PacedSpec: for a client that keeps pace nothing is handled but its own requests,
\* each once and in order, whatever the others send, in pieces or faster than the server
\* reads.  (Its request may be handled once more from stale bytes, but for one of them.)
OnceInOrder(S) ==
  \A i, j \in DOMAIN log : log[i].by \in S =>
    /\ log[i].p.from = log[i].by
    /\ i < j /\ log[i].by = log[j].by => log[i].p.n < log[j].p.n

RequestsOnceInOrder == OnceInOrder(Careful)

\* The answer a client is sent is the authentication server's answer to that
\* client's own request, whoever else logs in before or after it.
AnswersAreOwn ==
  \A x \in Socket : \A i \in DOMAIN sent[x] :
    LET line == sent[x][i]
    IN  line.text = "answer" => line.of = line.n /\ log[line.n].by = x

\* The process ends only if the authentication server was lost, if a client died
\* between connect() and the server's recv() of its name, or if the server could not
\* send a line to a client that was reset and then, in the same pass, answered an
\* account request.  Clients that come, talk, log in and exit in any order do not
\* end it.
StopsOnlyForCause ==
  pc = "down" =>
    \/ authLink # "up"
    \/ backlog # << >> /\ peer[Head(backlog)] = "reset"
    \/ /\ result = "error"
       /\ \E s \in Range(clients) : peer[s] = "reset"
       /\ log # << >> /\ log[Len(log)].p.id \in AccountMsg

\* From the step that notices a client's exit on, nothing is handled for it and its
\* rooms stay as they are, whatever becomes of its socket and of the stale buffer.
DisconnectionIsFinal ==
  [][\A s \in Range(clients) \ connected' :
       /\ rooms'[s] = rooms[s]
       /\ log' # log => log'[Len(log')].by # s]_vars

-----------------------------------------------------------------------------
(* Liveness, under LiveSpec *)

Stop == pc = "down"

\* A client that connects is added to the table, even if others keep the server busy
\* or leave it a socket that select() reports as readable for ever.
NewcomersRegistered ==
  \A s \in Socket :
    peer[s] = "dialed" ~> s \in Range(clients) \/ peer[s] = "reset" \/ Stop

\* What a client sends is taken from its stream, however much the others send.
PacketsRead == \A s \in Socket : stream[s] # << >> ~> stream[s] = << >> \/ Stop

\* The server does not wait for ever inside an account request.
RequestsAnswered == pc = "auth" ~> pc # "auth"

\* An exit is noticed, and the socket is polled no more.
DeparturesNoticed ==
  \A s \in Socket :
    peer[s] = "closed" ~> s \in Range(clients) \ connected \/ peer[s] = "reset" \/ Stop

-----------------------------------------------------------------------------
(* The room service *)

\* Users who keep to the rules keep pace, join only rooms they are not in and leave only
\* rooms they are in.
KeepsRules(s, p) ==
  /\ KeepsPace(s, p)
  /\ p.id = "JOIN" => p.room \notin Range(rooms[s])
  /\ p.id = "LEAVE" => p.room \in Range(rooms[s])

OrderlyStep == \A s \in Socket : nsent'[s] # nsent[s] => KeepsRules(s, NewRequest(s))

OrderlySpec == Init /\ [][Next /\ OrderlyStep]_vars

\* The users in each room, as the lists of the server have them
member == [r \in Room |-> {s \in Socket : r \in Range(rooms[s])}]

\* The lines about rooms among those a client was sent, with the request each is about
News == {"userJoined", "userLeft", "chat"}
RoomLines(q) == Pick(q, {i \in DOMAIN q : q[i].text \in News})
About(line) == [what |-> line.text, who |-> log[line.n].by,
                room |-> log[line.n].p.room, request |-> log[line.n].p.n]
FeedOf(q) == [i \in DOMAIN RoomLines(q) |-> About(RoomLines(q)[i])]
feed == [x \in Socket |-> FeedOf(sent[x])]

\* The number of the last request about rooms that was handled for each client
Largest(S) == CHOOSE m \in S : \A k \in S : k <= m
RoomRequestsOf(s) == {j \in DOMAIN log : log[j].by = s /\ log[j].p.id \in RoomMsg}
last == [s \in Socket |-> Largest({0} \cup {log[i].p.n : i \in RoomRequestsOf(s)})]

Service == INSTANCE RoomService WITH Conn <- Socket, called <- userName, Request <- 1..MaxPackets

\* For users who keep to the rules and connections that are not reset, the server's
\* lists, streams and passes implement the room service.
RefinesRoomService == Service!Spec

-----------------------------------------------------------------------------
(* A promise the code does not keep *)

\* LEAVE: "You have successfully left room".  A client told so is in that room no more.
LeftMeansOut ==
  [][\A s \in Socket :
       Len(sent'[s]) > Len(sent[s]) /\ sent'[s][Len(sent[s]) + 1].text = "left"
         => log'[Len(log')].p.room \notin Range(rooms'[s])]_vars
=============================================================================
