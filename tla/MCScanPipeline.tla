---------------------------- MODULE MCScanPipeline ----------------------------
(***************************************************************************)
(* Instances of ScanPipeline for TLC: one customer with two codes and two  *)
(* merchants.                                                              *)
(***************************************************************************)
EXTENDS ScanPipeline, TLC

CONSTANTS r1, r2, r3, t1, t2, c1, q1, q2, k1, k2, k3

RequestSymmetry == Permutations(Requests)

\* The first scan with t1 enrols; t2 is joined already.
MCMembership == (<<t1, c1>> :> "none") @@ (<<t2, c1>> :> "ACTIVE")
MCOwner == (q1 :> c1) @@ (q2 :> c1)

Scan(p, t, k, q) == [purpose |-> p, tenant |-> t, key |-> k, code |-> q]

\* Check-ins with two merchants, the second with a code of its own, and a
\* redemption with the code of the first.
MixedIntents == {Scan("CHECKIN", t1, k1, q1), Scan("CHECKIN", t2, k2, q2),
                 Scan("REDEEM", t1, k3, q1)}
=============================================================================
