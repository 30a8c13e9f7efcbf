----------------------------- MODULE ClientEnd -----------------------------
(***************************************************************************)
(* What the chat server relies on at the other end of a connection: the    *)
(* name comes first and comes at once, requests follow, and after the end  *)
(* of the stream nothing does.  These are the steps that ChatServer.tla    *)
(* lets a client take.                                                     *)
(***************************************************************************)
EXTENDS Sequences

CONSTANT Request

VARIABLES
  peer, \* idle, dialed (connect done), open (name sent), closed, reset
  sent  \* the requests that send() took

end == <<peer, sent>>

Init == peer = "idle" /\ sent = << >>

Connect == peer = "idle" /\ peer' = "dialed" /\ UNCHANGED sent

SendName == peer = "dialed" /\ peer' = "open" /\ UNCHANGED sent

Send(r) == peer = "open" /\ sent' = Append(sent, r) /\ UNCHANGED peer

\* The stream ends.
Exit == peer = "open" /\ peer' = "closed" /\ UNCHANGED sent

\* The connection is reset, also after the end of the stream.
Reset == peer \in {"dialed", "open", "closed"} /\ peer' = "reset" /\ UNCHANGED sent

Next == Connect \/ SendName \/ Exit \/ Reset \/ \E r \in Request : Send(r)

Spec == Init /\ [][Next]_end

LiveSpec == Spec /\ WF_end(SendName)
=============================================================================
