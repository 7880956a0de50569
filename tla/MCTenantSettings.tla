--------------------------- MODULE MCTenantSettings ---------------------------
(***************************************************************************)
(* Instance of TenantSettings for TLC: a merchant with one stamp reward.   *)
(***************************************************************************)
EXTENDS TenantSettings, TLC

CONSTANTS r1, r2, r3, shop, home, away, tel, x, w

RequestSymmetry == Permutations(Requests)

Want(op, value) == [op |-> op, value |-> value]

MCIntents ==
    {Want("settings", away), Want("settings", home), Want("settings", Nothing),
     Want("merge", tel), Want("merge", away), Want("merge", "points"),
     Want("signup", x), Want("invite", x), Want("accept", Nothing),
     Want("configure", "stamps"), Want("configure", "points"),
     Want("complete", Nothing), Want("purchase", Nothing),
     Want("editReward", "points"), Want("deleteReward", Nothing), Want("redeem", Nothing)}
=============================================================================
