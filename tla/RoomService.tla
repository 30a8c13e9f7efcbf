---------------------------- MODULE RoomService ----------------------------
(***************************************************************************)
(* What the chat server promises to users who are in a room at most once   *)
(* and leave only rooms they are in: a room is a set of users, and every   *)
(* line posted to it appears once in the feed of each of its members, in   *)
(* the same order for all.  Lines about a user's arrival and departure go  *)
(* to the others only, where two users of one name are the same: neither   *)
(* is told of the other.                                                   *)
(*                                                                         *)
(* A user's requests are numbered.  They take effect in that order, at     *)
(* most once each; a request may also be lost.                             *)
(***************************************************************************)
EXTENDS Naturals, Sequences

CONSTANTS
  Conn,    \* the users' connections
  Room,
  called,  \* the name each user goes by
  Request  \* the numbers a request can have, a subset of Nat

VARIABLES
  member, \* the users in each room
  feed,   \* the lines each user was sent about rooms
  last    \* the number of the last request of each user that took effect

service == <<member, feed, last>>

Init ==
  /\ member = [r \in Room |-> {}]
  /\ feed = [c \in Conn |-> << >>]
  /\ last = [c \in Conn |-> 0]

TakesEffect(c, k) == k > last[c] /\ last' = [last EXCEPT ![c] = k]

Publish(audience, line) ==
  feed' = [x \in Conn |-> IF x \in audience THEN Append(feed[x], line) ELSE feed[x]]

Others(c, audience) == {x \in audience : called[x] # called[c]}

Enter(c, r, k) ==
  /\ c \notin member[r]
  /\ TakesEffect(c, k)
  /\ member' = [member EXCEPT ![r] = @ \cup {c}]
  /\ Publish(Others(c, member[r]), [what |-> "userJoined", who |-> c, room |-> r, request |-> k])

Quit(c, r, k) ==
  /\ c \in member[r]
  /\ TakesEffect(c, k)
  /\ member' = [member EXCEPT ![r] = @ \ {c}]
  /\ Publish(Others(c, member[r]), [what |-> "userLeft", who |-> c, room |-> r, request |-> k])

\* Anyone may write to a room.
Post(c, r, k) ==
  /\ TakesEffect(c, k)
  /\ Publish(member[r], [what |-> "chat", who |-> c, room |-> r, request |-> k])
  /\ UNCHANGED member

Next == \E c \in Conn, r \in Room, k \in Request :
          Enter(c, r, k) \/ Quit(c, r, k) \/ Post(c, r, k)

Spec == Init /\ [][Next]_service
=============================================================================
