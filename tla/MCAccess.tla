------------------------------ MODULE MCAccess ------------------------------
(***************************************************************************)
(* A small instance of module Access for TLC.                              *)
(***************************************************************************)
EXTENDS Access, TLC

\* Whatever the two variables are set to.
AnyEnv == [client : BOOLEAN, secret : BOOLEAN]

Symmetry == Permutations(Request) \cup Permutations(Key) \cup Permutations(Id)
=============================================================================
