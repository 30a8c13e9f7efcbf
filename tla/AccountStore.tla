---------------------------- MODULE AccountStore ----------------------------
(***************************************************************************)
(* What the authentication server promises: an e-mail address is           *)
(* registered once and keeps the password it was registered with; a        *)
(* success is reported to the request that registered it, and to logins    *)
(* with that password; a login is refused only if it does not match.  For  *)
(* logins with an odd address nothing is promised but that they change     *)
(* nothing.  Every request may fail, and may have its effect without an    *)
(* answer.                                                                 *)
(***************************************************************************)
EXTENDS Sequences

CONSTANTS
  Asker,    \* those who send requests
  Request,  \* records with an id, an email and a password
  Email,
  OddEmail, \* addresses that are not looked up as they are
  Nobody    \* what an address that is not registered maps to

VARIABLES
  account, \* the request that registered each address
  told     \* the answers each asker was sent

store == <<account, told>>

Init ==
  /\ account = [e \in Email |-> Nobody]
  /\ told = [c \in Asker |-> << >>]

RegisterAddress(r) ==
  /\ r.id = "REGISTER"
  /\ account[r.email] = Nobody
  /\ account' = [account EXCEPT ![r.email] = r]
  /\ UNCHANGED told

Matches(r) == account[r.email] # Nobody /\ account[r.email].password = r.password

Tell(c, r, outcome) ==
  /\ outcome = "ok" /\ r.id = "REGISTER" => account[r.email] = r
  /\ outcome = "refused" => r.id = "LOGIN"
  /\ r.id = "LOGIN" /\ r.email \notin OddEmail =>
       (outcome = "ok" => Matches(r)) /\ (outcome = "refused" => ~Matches(r))
  /\ told' = [told EXCEPT ![c] = Append(@, [request |-> r, outcome |-> outcome])]
  /\ UNCHANGED account

Next ==
  \/ \E r \in Request : RegisterAddress(r)
  \/ \E c \in Asker, r \in Request, outcome \in {"ok", "refused", "failed"} : Tell(c, r, outcome)

Spec == Init /\ [][Next]_store
=============================================================================
