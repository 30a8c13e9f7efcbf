--------------------------- MODULE AuthProperties ---------------------------
(***************************************************************************)
(* What can be said about the authentication server of AuthServer.tla: the *)
(* relation between its two tables, the account store it implements        *)
(* whatever fails, and the answers it owes.                                *)
(***************************************************************************)
EXTENDS AuthServer

Accounts == {e \in Email : webAuth[e] # NoAccount}

\* CreateAccount() writes two tables without a transaction and finds the new user by
\* its id being the last.  Still each account has a user row, and no two have the
\* same, so that a login always finds one.
UsersLinked ==
  /\ \A e \in Accounts : webAuth[e].userId \in users
  /\ \A e, f \in Accounts : e # f => webAuth[e].userId # webAuth[f].userId

\* A user row without an account is one that is being registered, or the remainder
\* of a failure: a registration that is merely refused leaves none.
OrphansCounted ==
  LET registering == pc \in {"lastUser", "insertAuth", "deleteUser"}
  IN  Cardinality(users) <= Cardinality(Accounts) + failures + (IF registering THEN 1 ELSE 0)

Store == INSTANCE AccountStore WITH
  Asker <- Conn,
  Nobody <- NoAccount,
  account <- [e \in Email |-> IF webAuth[e] = NoAccount THEN NoAccount ELSE webAuth[e].by],
  told <- answers

\* Crashes, lost connections, requests that are handled twice and logins with an address
\* that is taken for a part of the statement leave the account store what it is: no
\* address changes hands, and no success is reported that is none, but to such logins.
RefinesAccountStore == Store!Spec

\* The process ends only where it is killed, where accept() or the recv() of a name fails,
\* where the database cannot be reached or throws, or in a login with an address that is
\* taken for a part of the statement.  So UpdateUser and FindUser, where nothing is caught,
\* are reached by no other login whose account has lost its user.
EndsOnlyForCause ==
  [][pc # "down" /\ pc' = "down" =>
       \/ failures' # failures \/ link # "up"
       \/ backlog # << >> /\ peer[Head(backlog)] = "reset"
       \/ job.request # NoRequest /\ job.request.email \in OddEmail]_vars

\* Under LiveSpec: a request that is at the front of a connection the server polls is
\* answered, whatever the connections of earlier chat servers are like, unless it does
\* not fit in the buffer, or its chat server or the process ends.
RequestsAnswered ==
  \A c \in Conn :
    c \in connected /\ stream[c] # << >> /\ Head(stream[c]).k = 1
      ~> \/ Len(answers[c]) >= nsent[c]
         \/ scratch \in {r \in Request : r.email \in LongEmail /\ r.from = c}
         \/ peer[c] # "open"
         \/ pc = "down"
=============================================================================
