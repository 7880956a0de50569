-------------------------------- MODULE MCDesk --------------------------------
(***************************************************************************)
(* Instance of Desk for TLC: two rows, two versions of each, a few         *)
(* requests, every page.                                                   *)
(***************************************************************************)
EXTENDS Desk, TLC

CONSTANTS q1, q2, q3, e1, e2, new, old

Alike == Permutations(Slots) \cup Permutations(Entries) \cup Permutations(Vals)
=============================================================================
