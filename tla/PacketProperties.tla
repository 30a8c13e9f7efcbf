-------------------------- MODULE PacketProperties --------------------------
(***************************************************************************)
(* How long a user's input may be for Packets.tla to treat it as it is     *)
(* meant, and exactly what happens above these lengths.  ChatServer.tla,   *)
(* AuthServer.tla and ChatClient.tla have packets as a few cells; these    *)
(* are the lengths behind their constants.                                 *)
(***************************************************************************)
EXTENDS Packets

\* The data of the request is in the first piece.
Fits == HeaderSize + 4 + Len(typed.first) + 4 + Len(typed.second) <= RecvLen

Account == typed.id \in {"CREATE", "AUTHENTICATE"}
Fields == Len(typed.first) + Len(typed.second)

\* A request that fits is taken for what was typed each time it is taken from the
\* array, also when its padding arrives by itself; and the user's name is known to the
\* server, which withholds the user's own notices by it, if it has 32 characters or
\* less.
TakenAsTyped ==
  /\ Fits => \A i \in DOMAIN handled :
       handled[i] = [id |-> Id[typed.id], first |-> typed.first, second |-> typed.second]
  /\ handled # << >> => (named = typed.user <=> Len(typed.user) <= SizeOfString)

\* A request of any kind is handled twice if one to four bytes are left of it, and once
\* otherwise, unless the server waits for ever before.  These are the lengths for which
\* that is so.
HandledTwice ==
  AtRest /\ Fits /\ stage = "serve" =>
    Len(handled) = IF Fields \in IF typed.id \in {"JOIN", "LEAVE"} THEN 105..108 ELSE 81..84
                   THEN 2 ELSE 1

\* Both servers read a rest of one to four bytes by itself: what is left of the first
\* forwarded request may come together with the second one.
BothSplit == Fields \in 83..84

\* What the authentication server takes from its array is what was typed; and it takes
\* it once for every time it was forwarded, or twice if one to four bytes of it are left.
\* Where both rests are read by themselves, it takes the request four times, or once if
\* what is left of the first forwarding comes together with the second one, which then
\* does not parse.  With five bytes left the message id depends on a byte of memory that
\* was not written.
ForwardedAsTyped ==
  Account /\ Fits =>
    /\ \A i \in DOMAIN asked :
         /\ asked[i].id = Id[typed.id] - 3 \/ Fields = 87
         /\ asked[i].email = typed.first /\ asked[i].password = typed.second
    /\ AtRest /\ Fields <= 110 /\ Fields # 87 =>
         IF BothSplit THEN Len(asked) \in {1, 4}
         ELSE Len(asked) = Len(handled) * (IF Fields \in 85..86 THEN 2 ELSE 1)

\* A request that was handled twice was taken once, and not answered a second time; and
\* the first answer, that to a short password, fitted in one piece, so that nothing is left
\* of it for the second wait.
NothingLeft == BothSplit /\ Len(asked) = 1 /\ asked[1].outcome = "short"

\* The chat server waits for ever if and only if the e-mail address and the password
\* have more than 110 characters together, or have 83 or 84, the password less than
\* eight of them, and the rests of both programs' requests were read as is said above.
WaitsForEver ==
  AtRest /\ Fits => (stage = "asked" <=> Account /\ (Fields > 110 \/ NothingLeft))

\* The answer is as long as the request makes it: long enough for the success of a login,
\* which has the number of the account in it, and short enough to be received at once
AnswerFits ==
  /\ Fields \in 11..73
  /\ typed.id = "AUTHENTICATE" => 10 + Len(typed.account) <= Fields

\* An account request is answered with one line that says what has become of it, and
\* nothing of the answer is left for the next request, if address and password have 11 to
\* 73 characters together, and for a login 10 more than the number of the account has
\* bytes as a varint: 11 up to account 127, 12 up to 16383.  With more than 73 that still
\* fit, something is left of each success.
AnsweredWhole ==
  Account /\ AtRest =>
    /\ AnswerFits =>
         /\ back = << >> /\ Len(asked) = 1 /\ Len(lines) = 1
         /\ lines[1].text = Told(typed.id = "CREATE", asked[1].outcome = "ok")
    /\ Fits /\ Len(handled) = 1 /\ Len(asked) = 1 /\ asked[1].outcome = "ok" =>
         (back # << >> <=> Fields > 73)

\* A client prints a line once and whole if it has at most 120 characters, with the
\* length of its own in front of a room's name; otherwise it prints it cut or twice.
PrintedOnce ==
  \A i \in DOMAIN lines :
    lines[i].bytes = << >> => (lines[i].printed = <<lines[i].text>> <=> lines[i].size <= RecvLen)
=============================================================================
