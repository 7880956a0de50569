---------------------------- MODULE MCAccountBooks ----------------------------
(***************************************************************************)
(* Instance of Reports for TLC: four request slots, two customers and two  *)
(* merchants; one customer is a member of both, the other of one.  Four    *)
(* plans bound a behaviour: three requests of every kind, three scans of   *)
(* one book with stamps in it, a reader with three writers, and three      *)
(* requests by place while somebody enrols.                                *)
(***************************************************************************)
EXTENDS Reports, TLC

CONSTANTS r1, r2, r3, r4, m1, m2, c1, c2, k1, k2, w1, w2

RequestSymmetry == Permutations(Requests)

MCMembers == <<<<m1, c1>>, <<m1, c2>>, <<m2, c1>>>>

For(w, op, m, c, n, k) ==
    [op |-> op, merchant |-> m, cust |-> c, amount |-> n, key |-> k, reward |-> w]
Ask(op, m, c, n, k) == For("points", op, m, c, n, k)

\* Postings and adjustments by both services, a reversal, a deletion and a
\* switch of membership.
MixedIntents ==
    {For(w1, "post", m1, c1, 2, k1), Ask("post", m2, c2, 1, k1), For(w1, "post", m1, c1, -1, k2),
     Ask("simulate", m1, c1, -1, k2), Ask("manual", m1, c1, -1, k1), Ask("reverse", m1, c1, 0, k1),
     Ask("adjust", m1, c1, -1, k1),
     Ask("delete", m1, c1, 0, k1), Ask("disable", m1, c1, 0, k1), Ask("enable", m1, c1, 0, k1)}

\* Purchases with and without stamps, and redemptions of either kind of reward.
StampIntents ==
    {For(w1, "post", m1, c1, 2, k1), Ask("post", m1, c1, 1, k2),
     Ask("post", m1, c1, -1, k1), For(w1, "post", m1, c1, -1, k2),
     For(w2, "post", m1, c1, -1, k2)}

\* A customer who reads while staff add entries, which are dated before they are saved.
ReaderIntents == {Ask("adjust", m1, c1, 1, k1), Ask("history", m1, c1, 0, k1)}

\* Staff who adjust by place while another customer enrols.
PlaceIntents ==
    {Ask("post", m2, c2, 1, k2), Ask("post", m1, c1, 1, k1),
     Ask("simulate", m2, c1, 1, k1), Ask("adjust", m2, c1, 1, k1)}

BookIntents == MixedIntents \cup StampIntents \cup ReaderIntents \cup PlaceIntents
BookPlans ==
    {[most |-> 3, of |-> MixedIntents], [most |-> 3, of |-> StampIntents],
     [most |-> 4, of |-> ReaderIntents], [most |-> 3, of |-> PlaceIntents]}
=============================================================================
