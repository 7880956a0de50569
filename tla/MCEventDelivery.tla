---------------------------- MODULE MCEventDelivery ----------------------------
(***************************************************************************)
(* Instances of EventDelivery for TLC: two issues of points to a customer, *)
(* with every fault and one poll, or with fair scheduling and two polls    *)
(* that overlap.                                                           *)
(***************************************************************************)
EXTENDS EventDelivery

CONSTANTS t1, c1, rw

Event(kind, balance) ==
    [tenant |-> t1, cust |-> c1, kind |-> kind, reward |-> rw, balanceAfter |-> balance]

TwoIssues == <<Event("issued", 1), Event("issued", 2)>>

MarkFaults == {"mark"}
DispatcherFaults == {"nats", "flush", "mark", "retry", "stop"}
ConsumerFaults == {"nats", "late", "handler", "leave"}
AllFaults == DispatcherFaults \cup ConsumerFaults
=============================================================================
