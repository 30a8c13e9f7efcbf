----------------------------- MODULE MCPackets -----------------------------
(***************************************************************************)
(* Instances of PacketProperties.tla for TLC.                              *)
(***************************************************************************)
EXTENDS PacketProperties, TLC

Input(id, user, first, second, account) ==
  [id |-> id, user |-> Fill(97, user), first |-> Fill(98, first), second |-> Fill(99, second),
   account |-> account]

\* Accounts number 1 and number 128
First == <<1>>
Later == <<128, 1>>

\* Below and above each length at which something changes
Sums == {10, 11, 12, 73, 74, 75, 76, 77, 78} \cup 79..90 \cup 104..113

RoomTyped ==
  {Input(id, user, user, sum - user, First) :
     id \in {"JOIN", "LEAVE"}, user \in {4, 31, 32, 33}, sum \in {s \in Sums : s > 34}}

MessageTyped ==
  {Input("SEND", user, 6, sum - 6, First) : user \in {4, 32, 33}, sum \in Sums}

AccountTyped ==
  {Input(id, 4, sum - password, password, account) :
     id \in {"CREATE", "AUTHENTICATE"}, password \in {7, 8}, sum \in Sums,
     account \in {First, Later}}

MCTyped == RoomTyped \cup MessageTyped \cup AccountTyped
=============================================================================
