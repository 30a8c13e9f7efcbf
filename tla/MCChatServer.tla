---------------------------- MODULE MCChatServer ----------------------------
(***************************************************************************)
(* Instances of ChatProperties.tla for TLC.                                *)
(***************************************************************************)
EXTENDS ChatProperties, TLC

\* Every connection is that of a user of its own name.
MCUser == Socket
MCUserName == [s \in Socket |-> s]

\* All but one of the connections are those of users of one name.
Single == CHOOSE s \in Socket : TRUE
Namesakes == Socket \ {Single}
SharedUser == {"single", "shared"}
SharedName == [s \in Socket |-> IF s = Single THEN "single" ELSE "shared"]

\* A request of two cells is received whole if BufLen is at least 2.  If BufLen is 3, a
\* recv() that starts with it may take the beginning of the request behind it, too.
TwoCells == [t \in MsgType |-> 2]

\* Connections differ only by their names, which are permuted with them, if all of them
\* or none are careful.
Symmetry == Permutations(Socket)
NamesakeSymmetry == Permutations(Namesakes)
=============================================================================
