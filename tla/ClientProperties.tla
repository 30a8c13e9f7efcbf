-------------------------- MODULE ClientProperties --------------------------
(***************************************************************************)
(* What can be said about the chat client of ChatClient.tla: what the chat *)
(* server sees of it, what its user sees, and how its two threads end.     *)
(***************************************************************************)
EXTENDS ChatClient

End == INSTANCE ClientEnd WITH peer <- IF pc = "connect" THEN "idle" ELSE conn

\* The client is what ChatServer.tla assumes of one, though its menu goes on after Exit
\* and its threads close the socket under each other: it sends its name at once, then
\* requests, and nothing after the end of its stream.  Under LiveSpec.
RefinesClientEnd == End!LiveSpec

\* Lines that are received together are lost, except for the first, a line may be longer
\* than what is received at once, and one may be garbled when the one before it was cut:
\* but those that the user sees, or sees the beginning of, come in their order, and each
\* once.
ShownInOrder ==
  \A i, j \in DOMAIN shown : i < j /\ shown[i] # 0 /\ shown[j] # 0 => shown[i] < shown[j]

\* The receive thread may be past its test of endThread when Exit sets it, and print one
\* more line, but not two, whatever the main thread does to the socket meanwhile.
OneLateLine == late <= 1

\* Exit, at whatever point of the receive thread, closes the connection and stops the
\* thread, or leaves it waiting for a key.  Under LiveSpec.
ExitTakesEffect ==
  endThread ~> pc = "ended" \/ (socket = "closed" /\ thread \in {"done", "pause"})

-----------------------------------------------------------------------------
\* The rooms that the user has joined and has not left since, as the server was told
Joined ==
  {r \in Room : \E i \in DOMAIN sent :
     /\ sent[i] = [id |-> "JOIN", room |-> r]
     /\ \A j \in (i + 1)..Len(sent) : sent[j] # [id |-> "LEAVE", room |-> r]}

JoinedOnce ==
  \A i, j \in DOMAIN sent : i # j /\ sent[i] = sent[j] => sent[i].id # "JOIN"

\* "Rooms you are in: " is followed by these rooms, for a user who joins each room once
\* and as long as the client is connected.
ListsRooms ==
  JoinedOnce /\ pc = "menu" /\ conn = "open" => {rooms[i] : i \in DOMAIN rooms} = Joined
=============================================================================
