---------------------------- MODULE LedgerPromise ----------------------------
(***************************************************************************)
(* What the loyalty backend promises its clients: a posting takes effect   *)
(* at one instant, at most once per idempotency key, together with the     *)
(* reward it pays for and the event that announces it; and a client is     *)
(* told of a posting only after it took effect.                            *)
(***************************************************************************)
EXTENDS Integers

CONSTANT Postings   \* every posting [op, key, cust, amount] a client may ask for

VARIABLES
    posted,     \* the postings that took effect
    granted,    \* keys of the redemptions handed out
    announced,  \* the postings other services are told of
    told        \* <<op, key>> of the requests that were answered with success

promise == <<posted, granted, announced, told>>

SameKey(p, q) == p.op = q.op /\ p.key = q.key

Init == posted = {} /\ granted = {} /\ announced = {} /\ told = {}

\* An issue or a redemption: announced, and a redemption grants its reward.
Post(p) ==
    /\ p.op \in {"ISSUE", "REDEEM"}
    /\ \A q \in posted : ~SameKey(p, q)
    /\ posted' = posted \cup {p}
    /\ announced' = announced \cup {p}
    /\ granted' = IF p.op = "REDEEM" THEN granted \cup {p.key} ELSE granted
    /\ UNCHANGED told

\* A staff adjustment is not announced; its request is answered at once.
Adjust(p) ==
    /\ p.op = "ADJUSTMENT"
    /\ \A q \in posted : ~SameKey(p, q)
    /\ posted' = posted \cup {p}
    /\ told' = told \cup {<<p.op, p.key>>}
    /\ UNCHANGED <<granted, announced>>

Tell(p) ==
    /\ p \in posted
    /\ told' = told \cup {<<p.op, p.key>>}
    /\ UNCHANGED <<posted, granted, announced>>

Next == (\E p \in Postings : Post(p) \/ Adjust(p)) \/ (\E p \in posted : Tell(p))

Spec == Init /\ [][Next]_promise
=============================================================================
