------------------------------ MODULE MCFrontDoor -----------------------------
(***************************************************************************)
(* Instance of FrontDoor for TLC: two addresses, two requests under way at *)
(* once, every client; a Home page seen for a little over two rotations.   *)
(***************************************************************************)
EXTENDS FrontDoor, TLC

CONSTANTS q1, q2, e1, e2, points, stamps

Alike == Permutations(Slots) \cup Permutations(Programmes)
=============================================================================
