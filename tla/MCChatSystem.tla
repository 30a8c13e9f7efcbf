---------------------------- MODULE MCChatSystem ----------------------------
(***************************************************************************)
(* Instances of SystemProperties.tla for TLC.                              *)
(***************************************************************************)
EXTENDS SystemProperties, TLC

\* Every connection is that of a user of its own name.
MCUser == Socket
MCUserName == [s \in Socket |-> s]

\* A client of this instance makes one request: there is none behind it to be cut.
OneCell == [t \in MsgType |-> 1]
=============================================================================
