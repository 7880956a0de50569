------------------------------- MODULE MCListings -------------------------------
(***************************************************************************)
(* Instance of Listings for TLC: two kinds of entries, pages of two, up to *)
(* four entries and three requests, every screen.                          *)
(***************************************************************************)
EXTENDS Listings, TLC

CONSTANTS q1, q2, q3, earn, redeem

Alike == Permutations(Reads) \cup Permutations(Kinds)
=============================================================================
