---------------------------- MODULE MCChatClient ----------------------------
(***************************************************************************)
(* Instances of ClientProperties.tla for TLC.                              *)
(***************************************************************************)
EXTENDS ClientProperties, TLC
=============================================================================
