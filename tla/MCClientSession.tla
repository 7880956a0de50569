---------------------------- MODULE MCClientSession ----------------------------
(***************************************************************************)
(* Instance of ClientSession for TLC: the four clients, an account that    *)
(* may use a dashboard and one that may not, a few tasks.                  *)
(***************************************************************************)
EXTENDS ClientSession, TLC

CONSTANTS t1, t2, t3, t4, ann, bob

TaskSymmetry == Permutations(Tasks)
=============================================================================
