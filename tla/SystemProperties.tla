-------------------------- MODULE SystemProperties --------------------------
(***************************************************************************)
(* What can be said about the two servers of ChatSystem.tla together.      *)
(***************************************************************************)
EXTENDS ChatSystem

\* The authentication server and its database are an environment that ChatServer.tla
\* allows: they answer in order, at most twice, never, or go away.
ImplementsChatServer == Spec

\* The chat server is an environment that AuthServer.tla allows: it sends its name and
\* then one request after the other, each when the one before was answered.
ImplementsAuthServer == Auth!Spec

\* No request was answered twice.
AnsweredOnce ==
  \A i, j \in DOMAIN answers[ChatEnd] :
    i # j => answers[ChatEnd][i].request # answers[ChatEnd][j].request

\* A line that a client is sent about an answer is about that to a request of its own.  It
\* is told that an account was created if and only if that request has made the account,
\* and that it is logged in only if there is the account with this password.  (A request
\* that is handled twice makes this untrue, for its own client and for those after it; of
\* an address that is not plain text to SQL only the registrations are claimed.  Why a
\* login is refused is not claimed: it may have met a row half written.)
FoundedTruth ==
  \A s \in Socket : \A i \in DOMAIN verdicts[s] :
    LET v == verdicts[s][i]
        row == webAuth[v.request.email]
        Mine == row # NoAccount /\ row.by = v.request
    IN  /\ log[asked[v.request.n]].by = s
        /\ v.request.id = "REGISTER" => (v.outcome = "ok" <=> Mine)
        /\ v.request.id = "LOGIN" /\ v.request.email \notin OddEmail /\ v.outcome = "ok" =>
             row # NoAccount /\ row.by.password = v.request.password

\* A line that no answer is behind need not be true.  Only one is sent so, the confirmation
\* of an account, to the client that asked for it, after the link was lost: nobody is
\* told that it is logged in, or refused, by a server that is gone.
OnlyFalseLine ==
  \A s \in Socket : \A n \in unfounded[s] :
    authLink # "up" /\ log[n].by = s /\ log[n].p.id = "CREATE"

\* What a client is told is true, unless the request was handled twice or the link to the
\* authentication server is gone; and then the one untrue line is the confirmation of
\* an account that may not have been created.
ToldTheTruth == (AnsweredOnce => FoundedTruth) /\ OnlyFalseLine

\* A client that waits is sent its answer, or nothing, and the chat server goes on, once
\* the request is in front of the stream that the authentication server polls; unless it
\* does not fit in the buffer, or the authentication server ends.
RequestInFront ==
  \E i \in DOMAIN aStream[ChatEnd] :
    i = 1 /\ aStream[ChatEnd][i].k = 1 /\ aStream[ChatEnd][i].r.email \notin LongEmail

WaitEnds ==
  pc = "auth" /\ ChatEnd \in aConnected /\ RequestInFront ~> pc # "auth" \/ authLink # "up"
=============================================================================
