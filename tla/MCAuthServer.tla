---------------------------- MODULE MCAuthServer ----------------------------
(***************************************************************************)
(* Instances of AuthProperties.tla for TLC.                                *)
(***************************************************************************)
EXTENDS AuthProperties, TLC

\* Connections differ only by their names, and so do passwords, if none is short.
Symmetry == Permutations(Conn) \cup Permutations(Password)
=============================================================================
