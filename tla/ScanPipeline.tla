----------------------------- MODULE ScanPipeline -----------------------------
(***************************************************************************)
(* ScanService.apply: a member of staff scans the QR code a customer       *)
(* shows, to check in, to record a purchase or to redeem a reward.  A code *)
(* names its customer and a random jti; it is valid for the time window    *)
(* it was made in and the next, and the unique index of used_qr_tokens     *)
(* lets one request claim it.  A TTL index deletes the claim when the code *)
(* has expired.                                                            *)
(*                                                                         *)
(* Points are posted through issuePoints and redeemPoints, which are       *)
(* LedgerPromise here: a posting takes effect at one instant, once per     *)
(* key.  Membership is what it is when the scans begin, save that a first  *)
(* scan enrols.  Time is counted in ticks.                                 *)
(***************************************************************************)
EXTENDS Integers

CONSTANTS
    Requests,   \* names of the HTTP requests that may be made
    Tenants, Customers, Keys,
    Codes,      \* jtis of the codes that may be shown
    Owner,      \* the customer of each code
    Membership, \* the accounts at the start
    Intents,    \* what a request may ask for (see Intent)
    Interval,   \* rotationIntervalSec of the customers
    Throttle,   \* CHECKIN_THROTTLE_SEC
    MaxTime,    \* bound on the clock
    Never       \* not a time

Purposes == {"CHECKIN", "PURCHASE", "REDEEM"}

\* A client that retries sends the body and the Idempotency-Key it sent before.
Intent == [purpose: Purposes, tenant: Tenants, key: Keys, code: Codes]

ASSUME OwnerAssumption == Owner \in [Codes -> Customers]
ASSUME MembershipAssumption ==
    Membership \in [Tenants \X Customers -> {"none", "ACTIVE", "DISABLED"}]
ASSUME ScanIntentsAssumption ==
    /\ Intents \subseteq Intent /\ Intents # {}
    /\ \A i, j \in Intents : i.key = j.key => i = j
ASSUME TimeAssumption ==
    /\ Interval \in Nat \ {0} /\ Throttle \in Nat /\ MaxTime \in Nat
    /\ Never \notin Int

VARIABLES
    now,        \* the clock
    bucket,     \* the time window each code was made in, or Never
    used,       \* used_qr_tokens: codes that are claimed
    accounts,   \* membershipStatus of <<tenant, customer>>, or "none"
    events,     \* scan_events
    posted, granted, announced, told, \* the ledger, see LedgerPromise
    pc, req,    \* where each request is, and its body
    again,      \* history: requests that repeat one which was answered
    claimed,    \* history: when each request claimed its code, or Never
    looked      \* history: the check-ins each request saw when it looked

ledgerVars == <<posted, granted, announced, told>>
codeVars == <<bucket, used, claimed>>
vars == <<now, codeVars, accounts, events, ledgerVars, pc, req, again, looked>>

-----------------------------------------------------------------------------
CustomerOf(r) == Owner[req[r].code]
Account(r) == <<req[r].tenant, CustomerOf(r)>>

\* expiresAt of a code that has been made.
Expiry(c) == (bucket[c] + 2) * Interval

\* verifyQrPayload: the window of the code may differ by one from the current.
Valid(c) ==
    LET current == now \div Interval IN
    bucket[c] \in current - 1 .. current + 1 /\ now <= Expiry(c)

\* The event with the tenant and key of a request: the key is unique.
EventOf(r) == {e \in events : e.tenant = req[r].tenant /\ e.key = req[r].key}

CheckinsOf(r) == {e \in events : e.purpose = "CHECKIN" /\ e.cust = CustomerOf(r)}

Operation(purpose) == IF purpose = "PURCHASE" THEN "ISSUE" ELSE "REDEEM"

\* The posting a purchase or a redemption asks for.
PostingOf(i) ==
    [op |-> Operation(i.purpose), key |-> <<i.tenant, i.key>>, cust |-> Owner[i.code],
     amount |-> IF i.purpose = "PURCHASE" THEN 1 ELSE -1]

Ledger == INSTANCE LedgerPromise WITH Postings <- {PostingOf(i) : i \in Intents}

Goto(r, l) == pc' = [pc EXCEPT ![r] = l]

Init ==
    /\ now = 0
    /\ bucket = [c \in Codes |-> Never]
    /\ used = {}
    /\ accounts = Membership
    /\ events = {}
    /\ Ledger!Init
    /\ pc = [r \in Requests |-> "idle"]
    /\ req = [r \in Requests |-> CHOOSE i \in Intents : TRUE]
    /\ again = {}
    /\ claimed = [r \in Requests |-> Never]
    /\ looked = [r \in Requests |-> {}]

-----------------------------------------------------------------------------
Tick ==
    /\ now < MaxTime
    /\ now' = now + 1
    /\ UNCHANGED <<codeVars, accounts, events, ledgerVars, pc, req, again, looked>>

\* getQrToken makes a code with a fresh jti.
MakeCode(c) ==
    /\ bucket[c] = Never
    /\ bucket' = [bucket EXCEPT ![c] = now \div Interval]
    /\ UNCHANGED <<now, used, claimed, accounts, events, ledgerVars, pc, req, again, looked>>

\* Slip: the claim is deleted when the window of the code ends.
ForgetClaim_Early(c) ==
    /\ c \in used /\ now >= (bucket[c] + 1) * Interval
    /\ used' = used \ {c}
    /\ UNCHANGED <<now, bucket, claimed, accounts, events, ledgerVars, pc, req, again, looked>>

\* MongoDB deletes the claim of a code some time after expiresAt.
ForgetClaim(c) ==
    /\ c \in used /\ now >= Expiry(c)
    /\ used' = used \ {c}
    /\ UNCHANGED <<now, bucket, claimed, accounts, events, ledgerVars, pc, req, again, looked>>

Arrive(r) ==
    /\ pc[r] = "idle"
    /\ \E i \in Intents :
          /\ bucket[i.code] # Never
          /\ req' = [req EXCEPT ![r] = i]
          /\ again' = IF \E s \in Requests : pc[s] = "done" /\ req[s] = i
                      THEN again \cup {r} ELSE again
    /\ Goto(r, "account")
    /\ UNCHANGED <<now, codeVars, accounts, events, ledgerVars, looked>>

FindAccount(r) ==
    /\ pc[r] = "account"
    /\ Goto(r, CASE accounts[Account(r)] = "none"     -> "enrol"
                 [] accounts[Account(r)] = "ACTIVE"   -> "verify"
                 [] accounts[Account(r)] = "DISABLED" -> "failed")
    /\ UNCHANGED <<now, codeVars, accounts, events, ledgerVars, req, again, looked>>

\* A first scan enrols the customer; the unique index refuses a second insert,
\* which is a failure of the request.
Enrol(r) ==
    /\ pc[r] = "enrol"
    /\ IF accounts[Account(r)] = "none"
       THEN Goto(r, "verify") /\ accounts' = [accounts EXCEPT ![Account(r)] = "ACTIVE"]
       ELSE Goto(r, "failed") /\ UNCHANGED accounts
    /\ UNCHANGED <<now, codeVars, events, ledgerVars, req, again, looked>>

\* Slip: a check-in claims its code before it looks for itself.
Verify_NoLookup(r) ==
    /\ pc[r] = "verify"
    /\ Goto(r, IF Valid(req[r].code) THEN "claim" ELSE "failed")
    /\ UNCHANGED <<now, codeVars, accounts, events, ledgerVars, req, again, looked>>

Verify(r) ==
    /\ pc[r] = "verify"
    /\ Goto(r, IF ~Valid(req[r].code) THEN "failed"
               ELSE IF req[r].purpose = "CHECKIN" THEN "lookup" ELSE "claim")
    /\ UNCHANGED <<now, codeVars, accounts, events, ledgerVars, req, again, looked>>

\* CHECKIN only: "allows network retries of the same request".
Lookup(r) ==
    /\ pc[r] = "lookup"
    /\ Goto(r, IF EventOf(r) # {} THEN "done" ELSE "claim")
    /\ UNCHANGED <<now, codeVars, accounts, events, ledgerVars, req, again, looked>>

\* consumeJti
Claim(r) ==
    /\ pc[r] = "claim"
    /\ IF req[r].code \in used
       THEN Goto(r, "used") /\ UNCHANGED <<used, claimed>>
       ELSE /\ used' = used \cup {req[r].code}
            /\ claimed' = [claimed EXCEPT ![r] = now]
            /\ Goto(r, IF req[r].purpose = "CHECKIN" THEN "throttle" ELSE "post")
    /\ UNCHANGED <<now, bucket, accounts, events, ledgerVars, req, again, looked>>

\* Slip: only check-ins with this merchant count.
CheckThrottle_ThisTenant(r) ==
    /\ pc[r] = "throttle"
    /\ LET recent == {e \in CheckinsOf(r) : e.at >= now - Throttle /\ e.tenant = req[r].tenant}
       IN  Goto(r, IF recent # {} THEN "throttled" ELSE "record")
    /\ looked' = [looked EXCEPT ![r] = CheckinsOf(r)]
    /\ UNCHANGED <<now, codeVars, accounts, events, ledgerVars, req, again>>

\* CHECKIN only: a check-in of the customer with any merchant counts.
CheckThrottle(r) ==
    /\ pc[r] = "throttle"
    /\ LET recent == {e \in CheckinsOf(r) : e.at >= now - Throttle}
       IN  Goto(r, IF recent # {} THEN "throttled" ELSE "record")
    /\ looked' = [looked EXCEPT ![r] = CheckinsOf(r)]
    /\ UNCHANGED <<now, codeVars, accounts, events, ledgerVars, req, again>>

\* issuePoints or redeemPoints: a new posting, or the one that has the key.
Post(r) ==
    /\ pc[r] = "post"
    /\ LET p == PostingOf(req[r]) IN
       \/ Ledger!Post(p)
       \/ (\E q \in posted : Ledger!SameKey(p, q)) /\ UNCHANGED ledgerVars
    /\ Goto(r, "mark")
    /\ UNCHANGED <<now, codeVars, accounts, events, req, again, looked>>

\* Its answer arrives; the metadata of its transaction is overwritten.
Mark(r) ==
    /\ pc[r] = "mark"
    /\ Ledger!Tell(PostingOf(req[r]))
    /\ Goto(r, "record")
    /\ UNCHANGED <<now, codeVars, accounts, events, req, again, looked>>

\* Slip: whatever keeps the event from being saved is swallowed.
Record_SwallowsAll(r) ==
    /\ pc[r] = "record"
    /\ \/ /\ EventOf(r) = {}
          /\ events' = events \cup
                {[tenant |-> req[r].tenant, key |-> req[r].key, purpose |-> req[r].purpose,
                  cust |-> CustomerOf(r), at |-> now, by |-> r]}
          /\ Goto(r, "audit")
       \/ Goto(r, "done") /\ UNCHANGED events
    /\ UNCHANGED <<now, codeVars, accounts, ledgerVars, req, again, looked>>

\* The scan event is saved.  That its key is taken is swallowed by a purchase
\* or a redemption, and a failure of a check-in.
Record(r) ==
    /\ pc[r] = "record"
    /\ IF EventOf(r) = {}
       THEN /\ events' = events \cup
                {[tenant |-> req[r].tenant, key |-> req[r].key, purpose |-> req[r].purpose,
                  cust |-> CustomerOf(r), at |-> now, by |-> r]}
            /\ Goto(r, "audit")
       ELSE /\ Goto(r, IF req[r].purpose = "CHECKIN" THEN "failed" ELSE "done")
            /\ UNCHANGED events
    /\ UNCHANGED <<now, codeVars, accounts, ledgerVars, req, again, looked>>

\* The audit log, and the answer.
Audit(r) ==
    /\ pc[r] = "audit"
    /\ Goto(r, "done")
    /\ UNCHANGED <<now, codeVars, accounts, events, ledgerVars, req, again, looked>>

Ended == {"done", "failed", "used", "throttled"}

\* A call rejects, the amount or the reward is refused, the process restarts or
\* the answer is lost: what has been written stays, the claim of the code too.
Fail(r) ==
    /\ pc[r] \notin Ended \cup {"idle"}
    /\ Goto(r, "failed")
    /\ UNCHANGED <<now, codeVars, accounts, events, ledgerVars, req, again, looked>>

Step(r) ==
    \/ Arrive(r) \/ FindAccount(r) \/ Enrol(r) \/ Verify(r) \/ Lookup(r) \/ Claim(r)
    \/ CheckThrottle(r) \/ Post(r) \/ Mark(r) \/ Record(r) \/ Audit(r) \/ Fail(r)

Next ==
    \/ Tick
    \/ \E c \in Codes : MakeCode(c) \/ ForgetClaim(c)
    \/ \E r \in Requests : Step(r)

Spec == Init /\ [][Next]_vars

-----------------------------------------------------------------------------
(* Properties *)

Labels == {"idle", "account", "enrol", "verify", "lookup", "claim", "throttle", "post",
           "mark", "record", "audit"} \cup Ended

EventDoc == [tenant: Tenants, key: Keys, purpose: Purposes, cust: Customers,
             at: 0 .. MaxTime, by: Requests]

TypeOK ==
    /\ now \in 0 .. MaxTime
    /\ bucket \in [Codes -> 0 .. MaxTime \cup {Never}]
    /\ used \subseteq {c \in Codes : bucket[c] # Never}
    /\ accounts \in [Tenants \X Customers -> {"none", "ACTIVE", "DISABLED"}]
    /\ events \subseteq EventDoc
    /\ posted \subseteq {PostingOf(i) : i \in Intents}
    /\ pc \in [Requests -> Labels] /\ req \in [Requests -> Intents]
    /\ again \subseteq Requests
    /\ claimed \in [Requests -> 0 .. MaxTime \cup {Never}]
    /\ looked \in [Requests -> SUBSET events]

\* "Once a jti is consumed, all future attempts with the same jti are rejected":
\* of the requests that claim a code before it expires, one succeeds.  A request
\* that verified its code in time but claims it only after the claim of another
\* was deleted is not covered.
UsedOnce ==
    \A r, s \in Requests :
        /\ claimed[r] # Never /\ claimed[s] # Never
        /\ req[r].code = req[s].code
        /\ claimed[r] < Expiry(req[r].code) /\ claimed[s] < Expiry(req[s].code)
        => r = s

\* Two check-ins of a customer, with whichever merchants, are nearer to each
\* other than the throttle allows only if neither saw the other when it looked.
ThrottledUnlessRaced ==
    \A e, f \in events :
        e.purpose = "CHECKIN" /\ f.purpose = "CHECKIN" /\ e \in looked[f.by]
        => f.at - e.at > Throttle

\* "Allows network retries of the same request": a check-in that is sent again
\* after it was answered is never refused as used or throttled.
CheckinRetryIsAnswered ==
    \A r \in again : req[r].purpose = "CHECKIN" => pc[r] \notin {"used", "throttled"}

\* What a client was told is there: the scan event of its key, for its purpose,
\* and the posting, however often the request was sent and wherever it failed.
AnsweredIsRecorded ==
    \A r \in Requests : pc[r] = "done" =>
        /\ \E e \in EventOf(r) : e.purpose = req[r].purpose /\ e.cust = CustomerOf(r)
        /\ req[r].purpose # "CHECKIN" => PostingOf(req[r]) \in posted

(* The inductive invariant *)

\* A request has a code that was made from its arrival on, claims it after
\* "claim", and has posted after "post".
RequestsInOrder ==
    \A r \in Requests :
        /\ pc[r] # "idle" => bucket[req[r].code] # Never
        /\ pc[r] \in {"idle", "account", "enrol", "verify", "lookup", "claim"} =>
              claimed[r] = Never
        /\ pc[r] \in {"lookup", "throttle", "throttled"} => req[r].purpose = "CHECKIN"
        /\ pc[r] \in {"post", "mark"} => req[r].purpose # "CHECKIN"
        /\ pc[r] \in {"mark", "record", "audit"} /\ req[r].purpose # "CHECKIN" =>
              PostingOf(req[r]) \in posted

\* A claim lasts until the code expires.
ClaimsLast ==
    \A r \in Requests : claimed[r] # Never =>
        /\ pc[r] # "idle"
        /\ claimed[r] <= now
        /\ now < Expiry(req[r].code) => req[r].code \in used

\* An event says what the request says that saved it, and a request saves it last.
EventsMatch ==
    \A e \in events :
        /\ pc[e.by] \in {"audit", "done", "failed"}
        /\ e.tenant = req[e.by].tenant /\ e.key = req[e.by].key
        /\ e.purpose = req[e.by].purpose /\ e.cust = CustomerOf(e.by)
        /\ e.at <= now

\* Between its look and its save, a check-in knows of old check-ins only.
LooksAreOld ==
    \A r \in Requests : pc[r] = "record" /\ req[r].purpose = "CHECKIN" =>
        \A e \in looked[r] : e.at < now - Throttle

AuditedIsRecorded ==
    \A r \in Requests : pc[r] = "audit" =>
        \E e \in EventOf(r) : e.purpose = req[r].purpose /\ e.cust = CustomerOf(r)

\* A request that repeats an answered one finds the event of that one.
RetriesFindTheirEvent ==
    \A r \in again :
        /\ pc[r] # "idle"
        /\ EventOf(r) # {}
        /\ req[r].purpose = "CHECKIN" =>
              pc[r] \in {"account", "enrol", "verify", "lookup", "done", "failed"}

ScanInv ==
    /\ TypeOK /\ RequestsInOrder /\ ClaimsLast /\ EventsMatch /\ LooksAreOld
    /\ UsedOnce /\ ThrottledUnlessRaced /\ AnsweredIsRecorded /\ AuditedIsRecorded
    /\ RetriesFindTheirEvent
=============================================================================
