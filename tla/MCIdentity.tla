------------------------------ MODULE MCIdentity ------------------------------
(***************************************************************************)
(* Instance of Identity for TLC: the owner of one merchant and a customer   *)
(* who has been sent a code; one address is free.                          *)
(***************************************************************************)
EXTENDS Identity, TLC

CONSTANTS r1, r2, r3, owner, cust, code, alice, m1, o, x, f, p, q

RequestSymmetry == Permutations(Requests)

Seed(id, tenant, email, role, customer, otp) ==
    [id |-> id, tenant |-> tenant, email |-> email, password |-> p, role |-> role,
     customer |-> customer, active |-> TRUE, otp |-> otp, purpose |-> "login", tries |-> 0,
     link |-> Nothing]

MCSeeds ==
    {Seed(owner, m1, o, "MERCHANT_ADMIN", Nothing, Nothing),
     Seed(cust, Platform, x, "CUSTOMER", alice, code)}

Ask(op, email, tenant, password, to, role) ==
    [op |-> op, email |-> email, tenant |-> tenant, password |-> password,
     purpose |-> IF op = "signup" THEN "signup" ELSE "login", to |-> to, role |-> role]

MCIntents ==
    {Ask(op, x, Anywhere, p, x, "STAFF") :
        op \in {"loginOtp", "verify", "refresh", "forgot"}}
    \cup {Ask("reset", x, Anywhere, q, x, "STAFF"),
          Ask("register", f, Platform, p, f, "STAFF"), Ask("signup", f, Platform, p, f, "STAFF"),
          Ask("create", f, m1, p, f, "MANAGER"), Ask("update", o, m1, p, f, "MANAGER"),
          [Ask("verify", f, Anywhere, p, f, "STAFF") EXCEPT !.purpose = "signup"]}
    \cup {Ask(op, o, m1, p, o, "STAFF") :
        op \in {"login", "disable", "enable", "closeTenant", "openTenant"}}
=============================================================================
