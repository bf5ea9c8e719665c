---------------------------- MODULE MCSessionStore ----------------------------
(***************************************************************************)
(* SessionStore for TLC: the calls of SaveSession are interchangeable.     *)
(***************************************************************************)
EXTENDS SessionStore, TLC

SaverSymmetry == Permutations(Savers)
=============================================================================
