# A verification of ChatProgram_HA in TLA+

ChatProgram_HA is three Windows programs in C++ over TCP: a chat client, a chat
server and an authentication server with a MySQL database. There are no tests in
the repository. This directory holds TLA+ specifications translated from the
code, the TLC configurations that check them on small instances, and theorems
that TLAPS proves for every value of the constants.

```
ChatClient_HA ×n --5555--> ChatServer_HA --5556--> AuthenticationServer_HA --3306--> MySQL
```

## 1. Inventory

### Chat server (`ChatServer_HA/main.cpp`)

*State.* `SERVER.clients` (socket, flag `connected`, name, list of rooms), the
`fd_set` of the pass, and four things that survive by accident: the stack buffer
`buf` of the serve loop, which is never cleared; the variable `result`, which
holds the value of the last `select()` or `send()` and is used as a size at line
303; the stream of the authentication server; Winsock's reference count.

*Operations.* One thread. A pass is `select()`, at most one `accept()` with a
blocking `recv()` of the name, then one `recv()` and one request for each
readable client in the order in which they connected: JOIN, LEAVE, SEND, CREATE,
AUTHENTICATE. The last two send a request to the authentication server and spin
in `recvMessage` until its answer arrives.

*Hard.* 128 bytes are read without regard to the length in the header, so
requests are split, joined and lost. `recv()` returning -1 is not a
disconnection (line 106): stale bytes are parsed for a client that is gone. An
answer is matched with a request by arrival only. While the thread waits for an
answer, nobody is served. Sockets are never closed.

*Correct means.* Requests are handled once, in order, for their sender; the
members of a room see the same lines in the same order; an answer goes to the
client that asked; disconnected clients are left alone; nobody is starved; the
process ends only for a cause.

### Connection to the authentication server (`ChatServer_HA/ClientHelper.cpp`)

`Initialize` does not look at the result of `connect()`. `sendData` and
`recvMessage` close the socket and call `WSACleanup` on an error and go on; the
second such call takes the sockets of all clients with it. It is modelled
inside the chat server (`authLink`, `wsaRefs`).

### Authentication server (`AuthenticationServer_HA/main.cpp`, `AuthDB.cpp`)

*State.* A client table and a stack buffer as in the chat server; a connection to
the database, whose failure is not looked at; tables `user` and `web_auth`.

*Operations.* REGISTER: INSERT into `user`, SELECT the largest id, INSERT into
`web_auth`, and DELETE the user again if that throws. LOGIN: SELECT the account,
compare, UPDATE the last login, SELECT the user. Each ends with one answer, except
that a request that does not parse gets none.

*Hard.* No transaction: the process or the connection may end between any two
statements, or after a statement was executed and before it was answered.
A request may be handled twice. The UPDATE is outside of any `try`.

*Correct means.* Each account has a user row of its own; an address keeps its first
password; no success is reported that is none; leftovers are bounded by
failures; each request is answered.

### Chat client (`ChatClient_HA`)

*State.* `CLIENT` (socket, name, list of rooms), the flag `endThread`, Winsock's
reference count.

*Operations.* `Initialize` connects and sends the name. The menu: JOIN, LEAVE, SEND,
CREATE, AUTHENTICATE, exit. A second thread receives and prints lines until
`endThread` is set.

*Hard.* The two threads share everything without synchronisation, and both close the
socket. The result of `connect()` is not looked at. Leaving a room erases the element
before it (line 114). Exit leaves the `switch` but not the loop. A `recv()` that returns 0
is read from all the same.

*Correct means.* The server sees a name, then requests, then an end; lines are printed in
order and once; exit ends the receive thread and the connection; the list of rooms is
the user's.

### Byte buffer and packets (`Buffer`, and its use in all three programs)

*State.* A vector of bytes and one index at which it is both written and read; the
`char[128]` arrays around it, which are never cleared.

*Operations.* Write and read 32-bit integers and strings, at an index or at the
current one. A packet is written with 4-byte sizes and its length is computed with
8-byte ones, or with `sizeof(std::string)`.

*Hard.* Nothing is checked against the length announced. Every packet is longer than its
data, the receivers read 128 bytes, and what is read beyond the data depends on how
long the user's input was.

*Correct means.* What a program takes out of a packet is what another put in, once.

### What is modelled only in part, or not

See section 5.

## 2. Modules

| Module | Models |
|---|---|
| `ChatServer` | the chat server's loop, its handlers, its connection to the authentication server; clients, TCP and the authentication server as environment |
| `RoomService` | abstract: what JOIN, LEAVE and SEND promise |
| `ChatProperties`, `MCChatServer` | properties of the chat server, refinement of `RoomService`; its instances for TLC |
| `AuthServer` | the authentication server's loop, REGISTER, LOGIN and the database statements, crashes and restarts |
| `AccountStore` | abstract: what REGISTER and LOGIN promise |
| `AuthProperties`, `MCAuthServer` | properties of the authentication server, its instances for TLC |
| `ChatSystem` | `ChatServer` and `AuthServer` composed, each in place of the other's environment |
| `SystemProperties`, `MCChatSystem` | properties of the two together, its instance for TLC |
| `ChatClient` | the two threads of the client, call by call on what they share |
| `ClientEnd` | abstract: what `ChatServer` assumes of a client |
| `ClientProperties`, `MCChatClient` | properties of the client, its instances for TLC |
| `Buffer` | class `Buffer` as operators on bytes and an index |
| `Packets` | one request's way through all three programs, byte by byte |
| `PacketProperties`, `MCPackets` | the lengths at which its treatment changes; its instance for TLC |
| `ChatServer_proofs`, `ChatRequests_proofs` | theorems about the chat server: types, why it ends, what becomes of requests and answers |
| `ChatRooms_proofs` | the chat server implements `RoomService` |
| `AuthServer_proofs`, `AuthAnswers_proofs` | theorems about the authentication server: its tables, and what its answers say |
| `ChatClient_proofs` | theorems about the client |
| `ChatSystem_proofs` | theorems about the two servers together |
| `Packets_proofs` | theorems about the bytes of a request, of its forwarding, of the answer and of a line, for every length and content |

The modules stand in this relation: `Packets` shows which byte lengths lead to which kind
of chunk; `ChatServer`, `AuthServer` and `ChatClient` have packets as a few cells, with
widths that make each of these kinds happen; `ClientEnd` and `ChatSystem` show that what
one module assumes of its environment is what another module does.

### Servers

**Streams.** A TCP stream is a sequence of *cells*. A packet is `Width` cells
that carry the packet and a position; `recv()` takes up to `BufLen` cells and
the handler sees the first packet only (`Chunk`, `Rest`). This keeps what the
properties need of the 128-byte reads: a chunk may hold several requests, end
inside one, or begin inside one (`ReadTail`). The fields of a packet are assumed
to lie in its first cell; the padding (`sizeof(std::string)` is counted for each
string) fills the others. A single cell read at the end stands for at most four
bytes, which overwrite the length of the request still in `buf` and leave its id:
the request is handled again (`Reread`). `Packets` derives these cases from the bytes.
A chunk also ends inside a request if two that fit arrive together: of two SENDs of 66 bytes
a `recv()` takes the first and 62 bytes of the second, and the 4 bytes that are left make the
first be handled again. With `Width` 2 and `BufLen` 3 the runs reach this, so what they say
of users who keep to the rules is said of users who do not send ahead (`KeepsPace`).

**Control.** `pc` is the place of the only thread: `select`, `accept`, `serve`,
`auth` (chat server: waiting in `recvMessage`), a database statement (authentication
server), `down`. `ready` is what is left of the pass. One action is one
uninterrupted piece of a pass: `Select`, `Register`, `Disconnect`, `ReadPacket`
with the whole handler, `ReceiveAnswer`, and so on. Nothing but the environment can
act in between, and only through the sockets, so a handler in one step is not
coarser than the code. In the authentication server each database statement is a
step, because a crash or a lost connection may fall between any two.

**Handlers.** `Join`, `Leave`, `SendMessage` change `rooms` and send all lines of
the handler at once (`Tell`), per client in the order of the code. `EraseRoom` is
the erase loop of LEAVE, with the element it steps over; `Join` appends without a
test, because the search of line 141 assigns to its own copy. `result` is kept as
`ok` or `error`, as left by the last `send()`. `log` (requests handled) and `sent`
(lines accepted by `send()`) are history variables; nothing in the code reads them.

**Environment.** `Faults` names what may go wrong:

| Fault | Meaning |
|---|---|
| `exit` | a client exits |
| `rst` | a line sent to a closed socket resets the connection |
| `kill` | a client dies |
| `authloss` | the authentication server ends, or was never there |
| `unparsed` | it does not answer a request |
| `repeat` | it handles a request twice |
| `gone` | (authentication server) the chat server ends |
| `crash` | the authentication server ends at any point; it is started again by hand |
| `dbfail` | the database cannot be reached, a statement throws, or is executed without an answer |

A user's fields fit with the header in 128 bytes, as with fields of ordinary length.
The SELECT of a login is put together as text, with the address in it (AuthDB.cpp:148). For the
addresses of `OddEmail`, which have a quote or a backslash, that is another statement:
it throws, finds no row that matches, or finds one of any user (`FindAuth`). The other
statements are prepared or have numbers only.
`AuthAnswers` answers one request and may drop any number that arrived with it
(`Dropped`). `AuthRepeats` answers a request a second time, and `AuthSkipsRest` drops the
rest of one, with requests that arrived behind it.

**How the two servers meet.** `ChatSystem` contains all variables of both modules. A
handler of `ChatServer` that sends a request appends its cells to the stream of
`AuthServer` (`Forward`); the queue `toAuth` that `ChatServer` has for requests on their way
is computed from the authentication server's state (`OnWire`): the job in hand, the
rest of a request already answered, and the requests in the stream. The actions of the
two modules are used as they are; the environment actions that a module has for the other
server are not. `ImplementsChatServer` and `ImplementsAuthServer` then say that each
module's environment was chosen large enough, including an authentication server that
repeats, skips, ignores, crashes and is restarted. An authentication server that ends and is
started again before the chat server has called `connect()` goes unnoticed (`AuthMoves`),
and nothing it does is seen once the chat server has ended.

### Client

`pc` is the main thread and `thread` the receive thread; every call that touches the
socket, the reference count or `endThread` is a step. `conn` is the connection as the
server sees it. The non-blocking `recv()` that has nothing to read is `WouldBlock`; a
`send()` that fails, because the connection is gone, the sending side was shut down or
the buffers are full, closes the socket (`CloseSocket`), which either thread may do
while the other one uses it. Undefined behaviour is a choice: erasing before the beginning
of the list either ends the process (`Crash`) or erases the first element
(`ForgetRoom`). Menu input that is not a number makes the menu spin (`EnterLetter`).

| Fault | Meaning |
|---|---|
| `refused` | `connect()` fails, and the program goes on |
| `malformed` | the input of a menu entry has no `:` |
| `letter` | the number of a menu entry is none |
| `full` | `send()` would block |
| `serverEnd` | the server closes or resets the connection |
| `kill` | the user closes the window |

### Bytes

`Packets` starts with what a user has typed and ends when nothing moves. Bytes
that were never written are a choice (`Beyond`). `Buffer` grows at most once or twice
per write, reads at index 0 when fewer than four bytes are left, and cuts strings at the
end, as its code does. A name that is longer than the 124 bytes which its `recv()` leaves for it
is left out. Strings are repeated letters: the code looks at no letter except
for the parse of a protobuf message, which is modelled by its tags and lengths.

These are the lengths that `PacketProperties` establishes, the sum of the two fields of a
request (name or room, and message, room or password):

| Length | Effect |
|---|---|
| name over 32 characters | it is cut in the server's table, and the user is told of its own arrivals |
| account request, 11 to 73 | one answer, received whole; for a login at least 10 more than its account's number has bytes as a varint, 11 up to account 127, 12 up to 16383, with less the success is cut and does not parse |
| account request over 73 | the answer to a success is longer than 128 bytes, and its end is taken for the next answer |
| account request or SEND, 81 to 84 | the chat server reads one to four bytes by themselves and handles the request twice |
| room request (JOIN, LEAVE), 105 to 108 | the same |
| account request, 85 to 86 | the authentication server handles it twice, for the same reason |
| account request, 83 to 84 | both do: the authentication server takes it four times, or once if the rest of the first forwarding arrives with the second one; and if the answer was then that the password is short, the chat server waits for ever |
| account request, 87 | whether it is handled again depends on a byte never written |
| account request over 110 | the forwarded message is cut, does not parse, is not answered, and the chat server waits for ever |
| line over 120 characters | the clients print it cut, or in two pieces |

## 3. Runs

| Run | Instance | Shows |
|---|---|---|
| `MCRooms` | 2 clients, 2 rooms, requests of 2 cells and 3 taken at once, exits | for users who keep to the rules the server implements `RoomService` |
| `MCAudience` | 3 clients, two of one name, 1 room | the same with bystanders who see one order, and with namesakes, from whom notices are withheld |
| `MCRequests` | 2 clients, 3 requests each of 2 cells, answers of 2 cells, 3 taken at once; one client keeps pace, the other need not | `RequestsOnceInOrder`, `AnswersAreOwn` |
| `MCFaults` | 2 clients, requests of 2 cells, 3 taken at once, all faults | `TypeOK`, `StopsOnlyForCause`, `RequestsInOrder`, `DisconnectionIsFinal` |
| `MCLive` | 2 clients, exits, resets, deaths | `NewcomersRegistered`, `PacketsRead`, `RequestsAnswered`, `DeparturesNoticed` |
| `MCAccounts` | 2 chat servers in turn, 2 requests, 2 addresses, one of them odd, 1 failure, all faults | `TypeOK`, `UsersLinked`, `OrphansCounted`, `RefinesAccountStore`, `EndsOnlyForCause` |
| `MCAnswers` | 2 chat servers in turn, resets, crash, long and short data | `RequestsAnswered` of the authentication server |
| `MCSystem` | both servers, 2 clients with one account request each, 3 addresses, one of them long and one odd, 2 passwords, one of them short, a crash | `ImplementsChatServer`, `ImplementsAuthServer`, `ToldTheTruth`, `WaitEnds` |
| `MCClient` | 1 client, 2 requests, 3 lines of 2 cells, all faults | `TypeOK`, `ShownInOrder`, `OneLateLine`, `RefinesClientEnd`, `ExitTakesEffect` |
| `MCPackets` | all five requests, every length at which something changes and its neighbours, account numbers 1 and 128 | the six properties of `PacketProperties` |

Two runs end in a counterexample; each is a disagreement of the code with what it
prints.

| Run | Counterexample |
|---|---|
| `MCLeave` | JOIN twice, LEAVE: "You have successfully left room", and the user is still in it (main.cpp:205 steps over the neighbour) |
| `MCClientRooms` | "Rooms you are in: " lists a room that was left, because leaving erases the room before it (client's main.cpp:114) |

`ToldTheTruth` is the property that spans the programs. Its part `FoundedTruth` is about the
lines that an answer is behind: they say what became of the client's own request, across a
crash between any two database statements. The condition `AnsweredOnce` excludes only the
lengths at which a request is handled twice; `PacketProperties` says which. Its part
`OnlyFalseLine` is about the others. After the link is lost, `recvMessage` fails, and the
handler of CREATE takes what it finds behind an empty answer for a success (`AnswerLost`,
main.cpp:301-331): "Account successfully created!" may then be sent although there is no
account. The run reaches such lines, and the property says that they are all that can be
untrue: confirmations of an account, to the client that asked for it, after the loss.

`RequestsInOrder` is what holds of every client under every fault: what is handled again is the
last request only, however the streams are cut. `RequestsOnceInOrder` says the rest
for the clients in `Careful`, while others send ahead, so that their requests are cut,
lost and handled again, for them.

Every property of a passing run has a mutant, an operator next to the definition
it mutates (`MutantLeave`, `MutantLastUser`, ...): a bug of the kind that code
might have, with which TLC finds the property violated.

**Rules of the room service.** `KeepsRules`: be registered before sending; send only
when the server has received what was sent before, and only what one `recv()` takes in with its
padding (`KeepsPace`); join only rooms one is not in and leave only rooms one is in.
Without the rules the refinement fails in ways the code shows plainly: a second JOIN is
accepted (line 141), a LEAVE of a room one is not in is announced to its members (line
227), a request that arrives with the name becomes part of it (line 84), and a message of
81 to 84 characters, or one with another behind it, may be broadcast twice (line 104).

**Bounds.** `MaxPackets`, `MaxRequests`, `MaxSent`: requests; `MaxLines`: lines to a client;
`MaxRooms`: its list of rooms; `MaxLog`, `MaxHandled`: a stale
buffer is handled again only below this number of handled requests (fresh requests are
not held back); `MaxFailures`: crashes and database failures. Each hazard needs few
steps: a request, the beginning of a second one in the same chunk, and the tail of that (2 cells
each, `BufLen` 3), with a third behind them (`MaxPackets` 3); a registration, a failure, and a
second request after the restart. One failure (`MaxFailures`) falls at every point of
the first or of the second of the two requests that are handled (`MaxHandled`), and two addresses are
enough for two accounts that might share a user. The clients act independently, so two
show each interleaving of a pair; `MCAudience` has the third for one order seen by
two bystanders. In `MCSystem` each of two clients sends one account request, so that the
second may be forwarded while the first one's rest, repetition or answer is still on its
way (`MaxRequests` 2); one crash suffices for it to fall at every point of the first or of the
second.
In `MCClient` three lines of two cells and a buffer of three give
every split: a line whole, with the beginning of the next, and a rest.

*Symmetry.* `MCRooms` and `MCFaults` permute the clients, whose names differ, and
`MCAudience` the two of one name; `MCAccounts` the chat servers and the passwords. They check safety only; runs
with liveness use no symmetry. `FdSetSize` is 64 as in Winsock and never reached by the
instances; the socket that is not polled beyond it is visible in `Polled` and needs 64
clients. `CHECK_DEADLOCK` is on in every passing run: a program that has stopped
stutters explicitly (`Stopped`, `Ended`, `Rested`) or is started again (`Start`).

**Fairness.** Weak fairness of the steps of each program's threads, because they are
scheduled, and of nothing that a user, an operator or the network decides.
`ChatServer!LiveSpec`: the server's steps, each client's `SendName`, the statement after
`connect()`, and the authentication server's steps, in the runs where it neither dies
nor ignores requests. `AuthServer!LiveSpec`: the server's steps. `SystemLiveSpec`: the
steps of the two servers, and nothing assumed of answers, for which the chat server now
depends on the other program. `ChatClient!LiveSpec`: its two threads; the user need not
choose anything or press the key that `system("pause")` waits for. `RefinesClientEnd` shows
that this is enough for the fairness that `ChatServer` assumes of `SendName`. A reset
socket is readable for ever, so fairness of `ServerStep` as a whole is the weakest
choice: that others are served follows from the order of the pass (`ready`), not from
fairness between actions.

## 4. Proofs

All for arbitrary constants that satisfy `ConstantsAssumption`: the sizes are positive,
and the markers for "nothing" (`Garbled`, `NoRequest`, `NoAccount`) are not among the
values they stand beside. The theorems about `Packets` hold for every set of inputs and every
byte in memory that was not written; `PacketsAssumption` says that the inputs are strings of
bytes, that a name fits in the `recv()` for it, and that the number of an account has one to five
bytes. `OddEmail` is any set of addresses, and lines may be longer than what the client receives
at once.

| Theorem | Statement | Further assumptions |
|---|---|---|
| `TypeCorrect` | `Spec => []TypeOK` | none |
| `DisconnectionsFinal` | `Spec => DisconnectionIsFinal` | none |
| `StopsForCause` | `Spec => []StopsOnlyForCause` | none |
| `AnswersGoHome` | `Spec => []AnswersAreOwn` | an answer fits in the buffer; no `authloss`, no `repeat` |
| `NoRequestReturns` | `Spec => []RequestsInOrder` | none |
| `RequestsHandledOnce` | `PacedSpec => []RequestsOnceInOrder` | no `rst`, `kill`, `authloss` |
| `AuthTypeCorrect` | `Spec => []TypeOK` of `AuthServer` | none |
| `AccountsLinked` | `Spec => []UsersLinked` | none |
| `StoreImplemented` | `Spec => RefinesAccountStore` | none |
| `EndsHaveCauses` | `Spec => EndsOnlyForCause` | none |
| `OrphansBounded` | `Spec => []OrphansCounted` | none |
| `AtMostOneLateLine` | `Spec => []OneLateLine` of `ChatClient` | none |
| `LinesShownInOrder` | `Spec => []ShownInOrder` | none |
| `EndImplemented` | `Spec => End!Spec`, the safety part of `RefinesClientEnd` | none |
| `ClientTypeCorrect` | `Spec => []TypeOK` of `ChatClient` | none |
| `RoomsRefined` | `OrderlySpec => RefinesRoomService` | no `rst`, `kill`, `authloss` |
| `AnswersStayTrue` | `Spec => []AnswersTrue` of `AuthAnswers_proofs` | one chat server; no `dbfail` |
| `ChatServerIsItsClient` | `SystemSpec => ImplementsAuthServer` | an answer fits in the buffer |
| `ClientsAreToldTheTruth` | `SystemSpec => []ToldTheTruth` | an answer fits in the buffer; no `dbfail` |
| `AuthServerIsItsEnvironment` | `SystemSpec => ImplementsChatServer` | an answer fits in the buffer; `authloss`, `unparsed` and `repeat` are in `Faults`; not a buffer of one cell with requests of three or more |
| `EveryRequestTaken` | `Spec => []TakenAsTyped` of `Packets` | a name has at most 124 characters |
| `HandledAsOften` | `Spec => []HandledTwice` | a name has at most 124 characters |
| `ForwardedAsOften` | `Spec => []ForwardedAsTyped` | a name has at most 124 characters |
| `ServerWaits` | `Spec => []WaitsForEver` | a name has at most 124 characters |
| `EveryAnswerTold` | `Spec => []AnsweredWhole` | a name has at most 124 characters |
| `EveryLinePrinted` | `Spec => []PrintedOnce` | a name has at most 124 characters |

*TypeCorrect* goes through one lemma for each action; the lemmas on `Chunk`, `Rest`,
`EraseRoom` and `Tell` give the types of what the handlers compute. The type of
`result` needs `Tell`'s case split; the type of `wsaRefs` needs the test for 0 in
`CloseAuthSocket`.

*StopsForCause.* `StopsOnlyForCause` is not inductive: that the process ends in
`AnswerAborts` says nothing about why `result` is an error. `StopInv` adds `Waiting`
(in `auth` the last entry of `log` is the account request that is served),
`CleanedUp` (a `WSACleanup` was called only after the connection broke) and
`SendFailed` (`result` is an error only if a client was reset or all sockets were
closed).

*AnswersGoHome.* `AnswerInv` adds that on the whole wire, the queue of requests and
the stream of answers together, there is at most one request or answer while the
server waits, and it is that of the last entry of `log`; and nothing while it does
not wait. This is what the assumptions buy: without them
a long answer (`AnsweredWhole`) and the fault `repeat` leave something behind.

*NoRequestReturns.* `SequenceInv` adds that a stream has only requests of its owner, each
beginning later than all cells in front of it and than all that were handled of that
client (`StreamsAhead`), that no number in `log` exceeds what the client has sent
(`LogBounded`), and that the stale buffer holds the last entry of `log` or nothing that
parses (`ScratchIsLast`). The last is the reason why no older request can come back: the
bytes of a tail replace what is in the buffer, or leave it as it was.

*RequestsHandledOnce.* `RequestInv(S)` adds for the clients of `S` that the stream has nothing but one
request, which starts at its first cell and which one `recv()` takes in (`OneRequest`), and that no connection is broken. So no tail of
theirs is ever read, and the stale buffer is handled only for others: what remains is
`RequestsInOrder`, without its first case. `RequestsHandledOnce` takes `Careful` for `S`,
and `RoomsRefined` all clients.

*DisconnectionsFinal* follows from `TypeOK` and the guard of `Serving`: every action
that handles a request needs its client in `connected`, and none puts one back,
because a socket is accepted once.

*AccountsLinked.* That each account has a user row of its own is not inductive: the
INSERT into `web_auth` uses an id that was read two statements earlier, and the DELETE
that follows a failure may hit a row whose account was inserted after all. `JobInv` says
what is known in between: after the INSERT into `user` the newest id is there and free
(no account has it), so that the SELECT by descending id finds exactly it, and it
stays free until the account is inserted; and where the INSERT may have been executed
before it threw, the connection is lost, so that the DELETE is not executed. The last
clause is the only thing that protects the account. The proof
also covers requests handled twice and any number of crashes. `AuthTypeCorrect` needs the
same invariant, for the id that is read.

*StoreImplemented* adds `OutcomeInv`: which statement belongs to which kind of request,
that a login that is past the comparison still matches its account, and what an
outcome says about the table when it is about to be answered. `QuietSteps` shows that only
the INSERT of an account and the answer are visible through the refinement mapping. A login with
an odd address may be told a success whatever the table has, and the store says so (`Tell`); that
such a login changes no account is part of what is proved.

*EndsHaveCauses.* Two statements of a login end the process if what they look for is not there, or
throws. `OutcomeInv` and `UsersLinked` give that the id which a plain address has found is that of
a user, and that no statement between finding and reading it takes it away.

*OrphansBounded.* The count does not carry over by itself: the DELETE lowers it only if
its row is there, and is skipped if the connection is lost. `OrphanInv` adds that between
the two INSERTs the connection is up, and that when the DELETE is due either it is up and
the row is there, or a failure that was already counted stands for the row (its account was
inserted by a statement that threw). Each action then changes the two cardinalities and
the number of failures by at most one, by the theorems on finite sets.

*AtMostOneLateLine.* `LateInv`: a thread that is past its test and at `recv()` has printed
nothing late, because only a test that found `endThread` unset brings it there.

*LinesShownInOrder.* `LineInv` orders the inbox: a cell that begins a line belongs to a later
line than every cell in front of it and than every line printed. Dropping the first `BufLen`
cells and appending a line keep that.

*EndImplemented.* `EndInv` rules out what would be visible to the server: a request before
the name (`conn` is `dialed` only while the main thread is about to send it) and one after the
end (`conn` is `closed` only if the socket is not open).

*ClientTypeCorrect.* All of it is inductive; the one hard fact is that the erase loop, which
changes the list while an index runs over it, returns a list of rooms. `Forget` is one step
of it, and `ForgetRoom` iterates them in a recursive function. That such a function exists, and
that its values are lists of rooms, follows by considering the smallest index at which it fails.

*RoomsRefined.* The mapping takes `member` from the lists of rooms, `feed` from the lines a
client was sent, as the requests they are about, and `last` from `log`. `RoomInv` adds to `RequestInv`
what the rules for users give, whatever the sizes of requests are: `StreamsOrderly` (a request to join or leave is the first of its
stream, and its user is still outside or inside of the room when it is handled), `ListsAreSets`
(no room is twice in a list, so that `EraseRoom` erases it and every notice is sent once),
`AcceptedOnce` (a client is in the table once), `NamesWhole` (the names that notices go by are
the users') and `LinesNumbered` (a line is about a request that was handled). For JOIN, LEAVE and SEND, `Tell` sends each client at most one line
about rooms, and the proofs compute the feeds from it; all other actions leave the three
mapped variables alone. `FeedOf` picks elements of a sequence, and the lemmas on `Pick` say what
it makes of an appended line.

*AnswersStayTrue.* `NumbersInv`: two requests of one connection with the same number are the
same, wherever they are (stream, `buf`, job, answers, tables). `TruthInv` adds to the truth
of each answer that a row's registration was answered, or is just about to be, or its answer can no longer
be given (`RowsTrue`), and that a registration that is failing found an account there
(`JobTrue`). The second handling of a request that made an account fails on that account: its
first answer was given, which is why the statement speaks of another answer to the same
request. Of logins with an odd address nothing is claimed.

*ChatServerIsItsClient.* The environment of `AuthServer` sends a request only if the one
before was answered. In `ChatSystem` that rests on the chat server's wait: `WaitInv` says
that the answers given are as many as the requests but the one waited for, and
one more for each answer (or rest of one) that is still unread, and `AskedInv` and `LinkInv`
connect the two servers' views of the connection. The proof shows for each action of `ChatServer` what it does
to the wire (`Effect`): it asks and begins to wait, takes a chunk and ends its wait, or neither. The assumption
is needed: an answer of which a part stays in the stream ends the wait for the next one.
Every theorem about `AuthServer` therefore holds in `ChatSystem`, and the two that follow use it.

*ClientsAreToldTheTruth.* `OrderInv`: as long as none was answered twice, the answers are those to requests
1, 2, ... in order. Then the answer that a handler receives is the last one given, and the request it belongs to is the one
this handler has sent (`AnswerReceived`), for the client it serves; `VerdictInv` keeps this for all
that a client was told. That the verdicts are true is `AnswersStayTrue` of the instance of
`AuthServer`. A crash between any two statements is covered. `UnfoundedInv` is about the lines
with no answer behind them: `AnswerLost` is the only action that sends one (`UnfoundedStep`), and
a link that is lost is never up again.

*AuthServerIsItsEnvironment.* The other direction: the authentication server, with its process,
its database and its buffer, does nothing to the chat server that `AuthAnswers`, `AuthRepeats`,
`AuthSkipsRest`, `AuthIgnores` and `AuthDies` do not. The mapping is `OnWire`, so the proof
is about what every `recv()` leaves of a stream of requests. `InSequence` says that
the stream holds the cells of consecutive requests up to the last one sent (`InOrder`, `Complete`), so
that what `OnWire` picks out of it is an interval of `asked` (`WholeNumbers`): `Wire` is that interval
with what is in front of it, the request in hand or the rest of one that was answered.
`HasRead` connects stream, buffer and job: everything in the buffer or answered was received before
the first whole request of the stream, and while the stream starts inside of a request it is that
one which is handled or lies in the buffer. `SkipSeen`, `TakeSeen`, `AgainSeen`,
`ReplySeen` and `MoreSeen` are the five things that can happen to `Wire`: a prefix is dropped, a request is
taken into hand, the rest of one is handled again, it is answered, one more is sent.
`PassInv` has what the order of the server's loop adds. The attempt to prove it for any number of
requests found that the environment of `ChatServer` had promised too much: a `recv()` that takes the
tail of one request may take several whole ones behind it, and the model had let it drop none or
all (`Dropped` is the correction; four requests of three cells show the difference, more than
any instance had). The assumption on sizes excludes what the code does not have: in a buffer of one cell
every cell would be the "at most four bytes" that leave the request before them in place.

*EveryRequestTaken, HandledAsOften.* `MCPackets` has strings of equal letters at chosen
lengths; the theorems have all strings of all lengths. The lemmas on `Buffer` say what a write leaves in
the vector (`HasInt`, `HasText`, and `SameOutside` for what it does not touch) and that a read of it
gives the value back (`ReadInt` for values below 65536, as every length of a field that fits is;
`ReadsText`). `RequestSent` composes them: in the bytes of a request `Decode` finds what was
typed (`Holds`), and behind the fields there are only zeros. `Way` has the four states of a request
that fits: not sent, not received, its data received, all of it received. The zeros are
what the second part is about: one to four of them overwrite only the length in the array, so that
the array still `Holds` the request and it is handled again (`SecondWay`); five or more
overwrite the lowest byte of the message id, the only one that is not 0, and nothing is
handled. `Carried` has what this rests on: the name that is in the table, and that the array has 128 bytes.

*ForwardedAsOften, ServerWaits.* An account request goes on over a second wire into a second
array, and how often it is taken there depends on what is still in `link`, which in turn depends on
how often it was forwarded. `Onward` says what `link`, `authArray`, `asked` and `back`
have between them; its part `Passing` has a case for each of three ranges of lengths.

- *In order* (up to 110 characters, without 83 and 84): the request is on its way (`Forwarded`), or the
  `Fields - 82` bytes of it that the second array had no room for are (`Remain`), or nothing is, and
  `asked` and `handled` differ by the one on its way. Of these lengths, what is handled
  twice leaves no rest and what leaves a rest is handled once, so nothing else is in `link`. With 85 or 86
  the rest has three or four bytes and overwrites only the length (`HoldsOn`), so that the
  request is taken again (`Times`).
- *Shifting* (83 and 84): it is handled twice and leaves a rest of one or two bytes. If each rest is
  received by itself (`FirstOn`, `SecondPiece`, `Through`), the request is taken four times. If the
  first one is received in front of the second forwarding (`Together`), no message id is seen
  (`NoId`, by comparing bytes), and it is taken once. Then the second wait ends only with what the first
  answer has left (`Stuck`), and every answer but that to a short password has more than 128
  bytes at these lengths (`AnswerLength`). What is taken is still what was typed.
- *Cut* (111 and 112): the protobuf message ends behind the 128th byte and does not parse, and
  the rest of it puts a 0 in place of the message id. Nothing is ever in `asked` or
  `back`, so the chat server stays in `asked`.

With 87 characters the rest has exactly five bytes. They come from behind the chat server's
vector, and the fifth, whatever it is, becomes the message id; with more than five the same
byte is there twice, which is no message id. This is why the property excepts 87.
`Elsewhere` says that no other request waits for an answer. `Onward`, `Elsewhere` and
`Answered` were checked with TLC on `MCPackets`' instance before they were proved.

*EveryAnswerTold.* `AnswerHas` shows that the answer in `back` has what was written to it, although its
vector's length is counted with another message, if that one is at most eight bytes shorter
than the one it has: a login's message has 24 bytes and the account's number, and the request
`6 + Fields`, hence the bound of 10 more than the bytes of that number (`AnswerFits`).
`WholeAnswer` says that up to 73 characters the answer has at most 128 bytes,
`AnswerRead` what the chat server then reads. `AnswerTold` has the one answer on its way or its
line made; `AnswerLeft` follows the length of what is in `back`, which is `55 + Fields` before
it is received and what exceeds 128 afterwards. The bound of 73 is about requests that fit
(`Fits` in `AnsweredWhole`): of a longer one the chat server takes other strings than were typed, and
it is their lengths that count then.

*EveryLinePrinted.* A line is sent as its length and text, with room for a length of eight
bytes, so that four bytes that were never written follow; in a reply there is a second text.
`NewLineInv`, `TwoLines` and `LineOf` say that each line the chat server makes `Encodes` its
text, however long the texts are that it reads of its array (`DecodeType`), and `PrintsWhole` that
a client that receives all of it prints that text and nothing of the four bytes.
`LineInv` tells lines that were not received, were printed whole, or are received in
pieces, and then at least two pieces are printed.

*Only model-checked:* everything that rests on fairness (the four liveness properties of the chat
server, `RequestsAnswered` of the authentication server, `WaitEnds`, `ExitTakesEffect`,
the fairness in `RefinesClientEnd`), which is out of the prover's reach. Every invariant that a
run checks is also a theorem.

## 5. Not modelled

*Within the modelled parts.* Content of messages, names and accounts beyond equality;
partial `send()`s (lines are short and the servers' sockets blocking); more than one chat
server at a time; changes to the database by others. Reading `*error` when it was never
written (AuthDB.cpp:122) may give a message that does not parse: `ReceiveAnswer` has it as
`NoAnswer`. Calling through a connection that was never made ends the authentication
server (`Undefined`). A client that connects and sends no name, or sends a request with it
before the server has read it, is in `ChatServer`; in the client itself the two
statements follow one another.

*Listening sockets, the authentication server's sockets, salts and hashes* (partly).
`Initialize` of both servers precedes the models: it runs once, before there is anyone
to interact with, and on an error the program ends. `ShutDown` of the servers stands behind an endless loop or is not called. A
salt and a hash are functions of their input: a stored account is one password, and
comparing hashes is comparing passwords.

*Protobuf messages* (partly). `authentication.pb.cc` is generated; its encoding of the
four messages is in `Packets`, as tags, lengths and the condition under which parsing
fails.

*Buffer* (partly). The overloads for 16 bits and for strings at an index have no caller.

*Vendored headers and libraries.* `include/` holds the headers and tests of protobuf and the
MySQL connector, `libraries/` their binaries. No line of them is this program's; they make up
nearly all the lines of the repository, which is why the map covers a small share of it.
What the programs call of them (`prepareStatement`, `executeUpdate`, `ParseFromString`)
is modelled where it is called, with its failures.

## 6. Plan

What could be added:

1. `ChatSystem` with `ChatClient` in place of `ClientStep`. `RefinesClientEnd` says that
   its behaviours on the wire are among those of `ClientStep`, so it would add no
   behaviour of the servers.
