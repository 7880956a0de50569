--------------------------- MODULE MCLoyaltyLedger ---------------------------
(***************************************************************************)
(* Instances of LoyaltyLedger for TLC: four request slots, one customer    *)
(* with an account and one without, and small sets of intents.  A slot     *)
(* that starts with the intent of another slot is a retry.                 *)
(***************************************************************************)
EXTENDS LoyaltyLedger, TLC

CONSTANTS r1, r2, r3, r4, c1, c2, k1, k2, k3, rp, rs, rx

RequestSymmetry == Permutations(Requests)

Issue(k, c, n, scan) ==
    [op |-> "ISSUE", cust |-> c, key |-> k, amount |-> n, reward |-> rp, scan |-> scan]
Redeem(k, w) ==
    [op |-> "REDEEM", cust |-> c1, key |-> k, amount |-> 0, reward |-> w, scan |-> "none"]
Adjustment(n) ==
    [op |-> "ADJUSTMENT", cust |-> c1, key |-> k1, amount |-> n, reward |-> rp, scan |-> "none"]

\* A points reward of 2, a stamp reward of 1, one no longer offered.
MCCatalogue == (rp :> [stamps |-> FALSE, cost |-> 2, active |-> TRUE])
            @@ (rs :> [stamps |-> TRUE, cost |-> 1, active |-> TRUE])
            @@ (rx :> [stamps |-> TRUE, cost |-> 1, active |-> FALSE])

\* Points: an issue, two redemptions with keys of their own, a debit by staff.
PointsIntents == {Issue(k1, c1, 2, "none"), Redeem(k2, rp), Redeem(k3, rp), Adjustment(-1)}

\* Stamps beside points, a debit by staff, and requests the handlers refuse.
StampIntents == {Issue(k1, c1, 1, "stamps"), Issue(k2, c1, 2, "points"),
                 Redeem(k1, rs), Redeem(k2, rp), Adjustment(-1)}
RefusedIntents == {Issue(k3, c2, 1, "none"), Issue(k3, c1, 0, "none"), Redeem(k3, rx)}
MixedIntents == StampIntents \cup RefusedIntents
=============================================================================
