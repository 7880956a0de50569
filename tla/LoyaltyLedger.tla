---------------------------- MODULE LoyaltyLedger ----------------------------
(***************************************************************************)
(* The transaction core of the backend: TransactionsService.issuePoints    *)
(* and redeemPoints, LedgerService.appendEntry and getBalance,             *)
(* OutboxService.writeEvent and CustomersService.adjustBalance, for one    *)
(* tenant.  A request is one HTTP call served by one API process; every    *)
(* `await` on MongoDB is a point where other requests run.                 *)
(*                                                                         *)
(* The collections are sets of documents.  A request writes at most one    *)
(* document to each, so the request's name stands for the uuidv4() ids     *)
(* its documents get.  The unique index of transactions on (tenantId,      *)
(* idempotencyKey) is on <<op, key>> here: issue uses the client's key K,  *)
(* redeem uses `K-tx`, an adjustment a fresh uuid.                         *)
(***************************************************************************)
EXTENDS Integers, FiniteSetsExt

CONSTANTS
    Requests,    \* names of the HTTP requests that may be made
    Customers,   \* customer ids a request may carry
    Keys,        \* Idempotency-Key values the clients generate
    Rewards,     \* reward ids
    Intents,     \* what a request may ask for (see Intent)
    Catalogue,   \* the reward documents at the start
    Enrolled,    \* the customers that have an account at the start
    ReplicaSet,  \* is MongoDB a replica set (or mongos)?
    HelloFails,  \* may `hello` throw, or promise transactions that are then refused?
    NoRequest    \* the id of no document

Ops == {"ISSUE", "REDEEM", "ADJUSTMENT"}

\* amount: points asked for (ISSUE) or signed delta (ADJUSTMENT); reward: REDEEM
\* only; scan: the scan purchase the ISSUE is part of ("none": /transactions/issue).
Intent == [op: Ops, cust: Customers, key: Keys, amount: Int,
           reward: Rewards, scan: {"none", "points", "stamps"}]

RewardDoc == [stamps: BOOLEAN, cost: Int, active: BOOLEAN]

ASSUME IntentsAssumption == Intents \subseteq Intent /\ Intents # {}
ASSUME CatalogueAssumption == Catalogue \in [Rewards -> RewardDoc]
ASSUME EnrolledAssumption == Enrolled \subseteq Customers
ASSUME DeploymentAssumption == ReplicaSet \in BOOLEAN /\ HelloFails \in BOOLEAN
ASSUME IdsAssumption == NoRequest \notin Requests /\ Requests \intersect Keys = {}

VARIABLES
    transactions, ledger, redemptions, outbox, \* the collections
    stamped,     \* ids of the transactions with metadata.stampIssued = true
    rewards,     \* reward documents, by id
    customers,   \* customers that exist and have an account with the tenant
    txnSupport,  \* transactionsSupportedCache of the API process
    pc,          \* where each request is
    req,         \* the body of each request
    amt,         \* signed amount it will post
    seen,        \* the balance (or stamp count) it read last
    base,        \* the sum of the ledger entries it read in appendEntry
    result       \* id of the document its answer names

collections == <<transactions, ledger, redemptions, outbox, stamped>>
environment == <<rewards, customers>>
locals == <<req, amt, seen, base, result>>
vars == <<collections, environment, txnSupport, pc, locals>>

-----------------------------------------------------------------------------
(* Reads *)

\* LedgerService.getBalance: the sum of the customer's ledger entries.
Balance(c) ==
    MapThenSumSet(LAMBDA e : e.amount, {e \in ledger : e.cust = c})

\* computeStampCount: stamps issued minus stamps spent on rewards that are
\* stamp rewards NOW, never negative.
StampCount(c) ==
    LET issued == {t \in transactions : t.cust = c /\ t.op = "ISSUE" /\ t.id \in stamped}
        spent  == {d \in redemptions : d.cust = c /\ rewards[d.reward].stamps}
        net    == MapThenSumSet(LAMBDA t : t.amount, issued)
                    - MapThenSumSet(LAMBDA d : d.cost, spent)
    IN  IF net > 0 THEN net ELSE 0

\* The idempotency key of the transaction r writes.
KeyOf(r) == IF req[r].op = "ADJUSTMENT" THEN r ELSE req[r].key

TransactionOf(r) ==
    [id |-> r, op |-> req[r].op, cust |-> req[r].cust, amount |-> amt[r], key |-> KeyOf(r)]

RedemptionOf(r) ==
    [id |-> r, cust |-> req[r].cust, reward |-> req[r].reward,
     cost |-> -amt[r], key |-> req[r].key]

EntryOf(r) ==
    [tx |-> r, op |-> req[r].op, cust |-> req[r].cust, amount |-> amt[r],
     key |-> KeyOf(r), balanceAfter |-> base[r] + amt[r]]

\* Slip: the event carries the points without their sign.
EventOf_Unsigned(r) ==
    [tx |-> r, op |-> req[r].op, cust |-> req[r].cust,
     amount |-> IF amt[r] < 0 THEN -amt[r] ELSE amt[r],
     key |-> req[r].key, balanceAfter |-> base[r] + amt[r]]

EventOf(r) ==
    [tx |-> r, op |-> req[r].op, cust |-> req[r].cust, amount |-> amt[r],
     key |-> req[r].key, balanceAfter |-> base[r] + amt[r]]

\* r's key is in the unique index of transactions already.
TransactionTaken(r) ==
    \E t \in transactions : t.op = req[r].op /\ t.key = KeyOf(r)

RedemptionTaken(r) == \E d \in redemptions : d.key = req[r].key

\* Another request has inserted r's key in a transaction that is still open.
WriteConflict(r) ==
    \E s \in Requests \ {r} :
        pc[s] = "commit" /\ req[s].op = req[r].op /\ KeyOf(s) = KeyOf(r)

\* Slip: keys claimed by transactions still open are not looked at.
KeyUnavailable_CommittedOnly(r) ==
    TransactionTaken(r) \/ (req[r].op = "REDEEM" /\ RedemptionTaken(r))

\* Why a save inside a session throws.
KeyUnavailable(r) ==
    \/ TransactionTaken(r)
    \/ WriteConflict(r)
    \/ req[r].op = "REDEEM" /\ RedemptionTaken(r)

-----------------------------------------------------------------------------
(* Control *)

Resting == {"idle", "done", "failed"}

Goto(r, label) == pc' = [pc EXCEPT ![r] = label]

\* What follows issuePoints: the scan pipeline updates the transaction's
\* metadata, the other endpoint answers.
AfterIssue(r) == IF req[r].scan = "none" THEN "done" ELSE "mark"

Init ==
    /\ transactions = {} /\ ledger = {} /\ redemptions = {} /\ outbox = {}
    /\ stamped = {}
    /\ rewards = Catalogue
    /\ customers = Enrolled
    /\ txnSupport = "unknown"
    /\ pc = [r \in Requests |-> "idle"]
    /\ req = [r \in Requests |-> CHOOSE i \in Intents : TRUE]
    /\ amt = [r \in Requests |-> 0]
    /\ seen = [r \in Requests |-> 0]
    /\ base = [r \in Requests |-> 0]
    /\ result = [r \in Requests |-> NoRequest]

\* A client sends a request: a new one, or the retry of one sent before.
Start(r) ==
    /\ pc[r] = "idle"
    /\ \E i \in Intents : req' = [req EXCEPT ![r] = i]
    /\ Goto(r, "lookup")
    /\ UNCHANGED <<collections, environment, txnSupport, amt, seen, base, result>>

\* The handler answers with an error: nothing it has saved is undone.
Refuse(r) == Goto(r, "failed") /\ UNCHANGED <<collections, environment, txnSupport, locals>>

\* issuePoints: an amount that is not positive is refused; a transaction that
\* has the key already is the answer; an unknown customer is refused.
IssueLookup(r) ==
    /\ pc[r] = "lookup" /\ req[r].op = "ISSUE"
    /\ \/ /\ req[r].amount <= 0
          /\ Refuse(r)
       \/ /\ req[r].amount > 0
          /\ \E t \in transactions :
                /\ t.op = "ISSUE" /\ t.key = req[r].key
                /\ result' = [result EXCEPT ![r] = t.id]
          /\ Goto(r, AfterIssue(r))
          /\ UNCHANGED <<collections, environment, txnSupport, req, amt, seen, base>>
       \/ /\ req[r].amount > 0 /\ ~TransactionTaken(r)
          /\ req[r].cust \notin customers
          /\ Refuse(r)
       \/ /\ req[r].amount > 0 /\ ~TransactionTaken(r)
          /\ req[r].cust \in customers
          /\ amt' = [amt EXCEPT ![r] = req[r].amount]
          /\ Goto(r, "mode")
          /\ UNCHANGED <<collections, environment, txnSupport, req, seen, base, result>>

\* redeemPoints: a completed redemption that has the key is the answer.
RedeemLookup(r) ==
    /\ pc[r] = "lookup" /\ req[r].op = "REDEEM"
    /\ \/ /\ \E d \in redemptions :
                d.key = req[r].key /\ result' = [result EXCEPT ![r] = d.id]
          /\ Goto(r, "done")
          /\ UNCHANGED <<collections, environment, txnSupport, req, amt, seen, base>>
       \/ /\ ~RedemptionTaken(r)
          /\ Goto(r, "reward")
          /\ UNCHANGED <<collections, environment, txnSupport, locals>>

\* The reward document is read once; its cost is what will be deducted.
RedeemReward(r) ==
    /\ pc[r] = "reward"
    /\ LET reward == rewards[req[r].reward] IN
       \/ ~(reward.active /\ reward.cost > 0) /\ Refuse(r)
       \/ /\ reward.active /\ reward.cost > 0
          /\ amt' = [amt EXCEPT ![r] = -reward.cost]
          /\ Goto(r, IF reward.stamps THEN "stamps" ELSE "points")
          /\ UNCHANGED <<collections, environment, txnSupport, req, seen, base, result>>

\* Pre-flight check of a stamp reward: only the stamp count matters.
StampPreflight(r) ==
    /\ pc[r] = "stamps"
    /\ \/ StampCount(req[r].cust) + amt[r] < 0 /\ Refuse(r)
       \/ /\ StampCount(req[r].cust) + amt[r] >= 0
          /\ Goto(r, "mode")
          /\ UNCHANGED <<collections, environment, txnSupport, locals>>

\* Pre-flight check of a points reward: computeStampCount and getBalance are
\* two reads, and other requests run between them.
ReadStamps(r) ==
    /\ pc[r] = "points"
    /\ seen' = [seen EXCEPT ![r] = StampCount(req[r].cust)]
    /\ Goto(r, "balance")
    /\ UNCHANGED <<collections, environment, txnSupport, req, amt, base, result>>

PointsPreflight(r) ==
    /\ pc[r] = "balance"
    /\ LET net    == Balance(req[r].cust) - seen[r]
           points == IF net > 0 THEN net ELSE 0
       IN  \/ points + amt[r] < 0 /\ Refuse(r)
           \/ /\ points + amt[r] >= 0
              /\ Goto(r, "mode")
              /\ UNCHANGED <<collections, environment, txnSupport, locals>>

\* Slip: the session is not passed to the saves.
Route_NoSession(r, support) ==
    IF req[r].op = "REDEEM" THEN "recheckPlain" ELSE "saveTransaction"

\* Slip: the variant without a session forgets the redemption document.
Route_NoRedemption(r, support) ==
    CASE support = "yes" -> IF req[r].op = "REDEEM" THEN "recheck" ELSE "open"
      [] support = "no"  -> "saveTransaction"

\* Where the two variants of a handler go on: with a session or without.
Route(r, support) ==
    CASE support = "yes" -> IF req[r].op = "REDEEM" THEN "recheck" ELSE "open"
      [] support = "no"  -> IF req[r].op = "REDEEM" THEN "recheckPlain" ELSE "saveTransaction"

\* supportsTransactions: the cached answer, or a `hello` command.
SupportsTransactions(r) ==
    /\ pc[r] = "mode"
    /\ Goto(r, IF txnSupport = "unknown" THEN "hello" ELSE Route(r, txnSupport))
    /\ UNCHANGED <<collections, environment, txnSupport, locals>>

\* The answer to `hello` is cached; a command that throws is cached as "no".
HelloReply(r) ==
    /\ pc[r] = "hello"
    /\ \E answer \in (IF ReplicaSet THEN {"yes"} ELSE {"no"})
                        \cup (IF HelloFails THEN {"no"} ELSE {}) :
          txnSupport' = answer /\ Goto(r, Route(r, answer))
    /\ UNCHANGED <<collections, environment, locals>>

\* Slip: the safety net is dropped, since the pre-flight check has passed.
Recheck_NoNet(r) ==
    /\ pc[r] \in {"recheck", "recheckPlain"}
    /\ seen' = [seen EXCEPT ![r] = Balance(req[r].cust)]
    /\ Goto(r, IF pc[r] = "recheck" THEN "open" ELSE "saveRedemption")
    /\ UNCHANGED <<collections, environment, txnSupport, req, amt, base, result>>

\* redeemPoints' safety net.  getBalance takes no session: even when a
\* transaction has been started, the read is outside it.
Recheck(r) ==
    /\ pc[r] \in {"recheck", "recheckPlain"}
    /\ LET balance == Balance(req[r].cust) IN
       \/ balance + amt[r] < 0 /\ Refuse(r)
       \/ /\ balance + amt[r] >= 0
          /\ seen' = [seen EXCEPT ![r] = balance]
          /\ Goto(r, IF pc[r] = "recheck" THEN "open" ELSE "saveRedemption")
          /\ UNCHANGED <<collections, environment, txnSupport, req, amt, base, result>>

-----------------------------------------------------------------------------
(* With a session.  Nothing is visible before the commit.                  *)

\* Slip: a duplicate key is swallowed and answered as a success.
OpenTransaction_SwallowsDuplicate(r) ==
    /\ pc[r] = "open"
    /\ \/ /\ KeyUnavailable(r)
          /\ Goto(r, "done")
          /\ UNCHANGED <<collections, environment, txnSupport, locals>>
       \/ /\ ~KeyUnavailable(r)
          /\ base' = [base EXCEPT ![r] = Balance(req[r].cust)]
          /\ Goto(r, "commit")
          /\ UNCHANGED <<collections, environment, txnSupport, req, amt, seen, result>>

\* The first save of the session fixes its snapshot and claims the request's
\* unique keys; a key that is taken, or claimed by an open transaction, makes
\* the save throw, and the handler aborts.  appendEntry reads the snapshot.
OpenTransaction(r) ==
    /\ pc[r] = "open"
    /\ \/ KeyUnavailable(r) /\ Refuse(r)
       \/ /\ ~KeyUnavailable(r)
          /\ base' = [base EXCEPT ![r] = Balance(req[r].cust)]
          /\ Goto(r, "commit")
          /\ UNCHANGED <<collections, environment, txnSupport, req, amt, seen, result>>

\* commitTransaction publishes every document of the session at once.
CommitTransaction(r) ==
    /\ pc[r] = "commit"
    /\ transactions' = transactions \cup {TransactionOf(r)}
    /\ ledger' = ledger \cup {EntryOf(r)}
    /\ outbox' = outbox \cup {EventOf(r)}
    /\ redemptions' = IF req[r].op = "REDEEM" THEN redemptions \cup {RedemptionOf(r)}
                                              ELSE redemptions
    /\ result' = [result EXCEPT ![r] = r]
    /\ Goto(r, "track")
    /\ UNCHANGED <<stamped, environment, txnSupport, req, amt, seen, base>>

\* A session's save is refused because the server knows no transactions after
\* all: the handler aborts, caches "no" and starts over without a session.
FallBack(r) ==
    /\ HelloFails /\ pc[r] \in {"open", "commit"}
    /\ txnSupport' = "no"
    /\ Goto(r, Route(r, "no"))
    /\ UNCHANGED <<collections, environment, locals>>

-----------------------------------------------------------------------------
(* Without a session: each save is visible at once, and waits for an open  *)
(* transaction that has claimed the same key.                              *)

SaveRedemption(r) ==
    /\ pc[r] = "saveRedemption" /\ ~WriteConflict(r)
    /\ \/ RedemptionTaken(r) /\ Refuse(r)
       \/ /\ ~RedemptionTaken(r)
          /\ redemptions' = redemptions \cup {RedemptionOf(r)}
          /\ Goto(r, "saveTransaction")
          /\ UNCHANGED <<transactions, ledger, outbox, stamped, environment, txnSupport, locals>>

SaveTransaction(r) ==
    /\ pc[r] = "saveTransaction" /\ ~WriteConflict(r)
    /\ \/ TransactionTaken(r) /\ Refuse(r)
       \/ /\ ~TransactionTaken(r)
          /\ transactions' = transactions \cup {TransactionOf(r)}
          /\ Goto(r, "append")
          /\ UNCHANGED <<ledger, redemptions, outbox, stamped, environment, txnSupport, locals>>

\* appendEntry reads the customer's entries, then inserts.  Its two look-ups
\* of an entry with the same key find none: the unique key of the transaction
\* the caller has just saved precedes it.
AppendRead(r) ==
    /\ pc[r] = "append"
    /\ base' = [base EXCEPT ![r] = Balance(req[r].cust)]
    /\ Goto(r, "insert")
    /\ UNCHANGED <<collections, environment, txnSupport, req, amt, seen, result>>

\* An adjustment answers here; it writes no outbox event.
AppendInsert(r) ==
    /\ pc[r] = "insert"
    /\ ledger' = ledger \cup {EntryOf(r)}
    /\ result' = [result EXCEPT ![r] = r]
    /\ Goto(r, IF req[r].op = "ADJUSTMENT" THEN "done" ELSE "event")
    /\ UNCHANGED <<transactions, redemptions, outbox, stamped, environment, txnSupport,
                   req, amt, seen, base>>

WriteEvent(r) ==
    /\ pc[r] = "event"
    /\ outbox' = outbox \cup {EventOf(r)}
    /\ Goto(r, "track")
    /\ UNCHANGED <<transactions, ledger, redemptions, stamped, environment, txnSupport, locals>>

-----------------------------------------------------------------------------
(* After the writes *)

\* Fraud audit and onboarding milestone, then the answer.
Track(r) ==
    /\ pc[r] = "track"
    /\ Goto(r, IF req[r].op = "ISSUE" THEN AfterIssue(r) ELSE "done")
    /\ UNCHANGED <<collections, environment, txnSupport, locals>>

\* scan.apply overwrites the metadata of the transaction issuePoints named:
\* only now is it a stamp, and a points purchase drops the flag.
MarkPurchase(r) ==
    /\ pc[r] = "mark"
    /\ stamped' = IF req[r].scan = "stamps" THEN stamped \cup {result[r]}
                                            ELSE stamped \ {result[r]}
    /\ Goto(r, "done")
    /\ UNCHANGED <<transactions, ledger, redemptions, outbox, environment, txnSupport, locals>>

\* adjustBalance: account, then balance check for a debit, a fresh key; never a
\* session.
AdjustLookup(r) ==
    /\ pc[r] = "lookup" /\ req[r].op = "ADJUSTMENT"
    /\ LET delta   == req[r].amount
           balance == Balance(req[r].cust)
           allowed == /\ delta # 0
                      /\ req[r].cust \in customers
                      /\ delta < 0 => balance + delta >= 0
       IN  \/ ~allowed /\ Refuse(r)
           \/ /\ allowed
              /\ amt' = [amt EXCEPT ![r] = delta]
              /\ seen' = [seen EXCEPT ![r] = balance]
              /\ Goto(r, "saveTransaction")
              /\ UNCHANGED <<collections, environment, txnSupport, req, base, result>>

\* A database call of r throws, or its answer is lost: the client sees an
\* error.  An open transaction aborts; what was saved or committed stays.
Fail(r) == pc[r] \notin Resting /\ Refuse(r)

\* The API process restarts: every request in flight dies with it, and so does
\* the cached answer to `hello`.
Restart ==
    /\ txnSupport # "unknown"
    /\ txnSupport' = "unknown"
    /\ pc' = [r \in Requests |-> IF pc[r] \in Resting THEN pc[r] ELSE "failed"]
    /\ UNCHANGED <<collections, environment, locals>>

Serve(r) ==
    \/ IssueLookup(r) \/ RedeemLookup(r) \/ RedeemReward(r)
    \/ StampPreflight(r) \/ ReadStamps(r) \/ PointsPreflight(r)
    \/ SupportsTransactions(r) \/ HelloReply(r) \/ Recheck(r)
    \/ OpenTransaction(r) \/ CommitTransaction(r) \/ FallBack(r)
    \/ SaveRedemption(r) \/ SaveTransaction(r) \/ AppendRead(r) \/ AppendInsert(r)
    \/ WriteEvent(r) \/ Track(r) \/ MarkPurchase(r) \/ AdjustLookup(r)

Next == Restart \/ \E r \in Requests : Start(r) \/ Serve(r) \/ Fail(r)

Spec == Init /\ [][Next]_vars

-----------------------------------------------------------------------------
(* Properties *)

Labels == Resting \cup
    {"lookup", "reward", "stamps", "points", "balance", "mode", "hello", "recheck",
     "recheckPlain", "open", "commit", "saveRedemption", "saveTransaction", "append",
     "insert", "event", "track", "mark"}

Ids(S) == {x.id : x \in S}
Sources(S) == {x.tx : x \in S}

\* Every variable holds what the code can put there.  (Sums over the ledger -
\* seen, base, balanceAfter - are integers by construction and left out.)
TypeOK ==
    /\ pc \in [Requests -> Labels]
    /\ req \in [Requests -> Intents]
    /\ amt \in [Requests -> Int]
    /\ DOMAIN seen = Requests /\ DOMAIN base = Requests
    /\ result \in [Requests -> Requests \cup {NoRequest}]
    /\ txnSupport \in {"unknown", "yes", "no"}
    /\ rewards \in [Rewards -> RewardDoc] /\ customers \subseteq Customers
    /\ stamped \subseteq Ids(transactions)
    /\ Ids(transactions) \cup Ids(redemptions) \subseteq Requests
    /\ Sources(ledger) \cup Sources(outbox) \subseteq Requests

Customary(S) == {x \in S : x.op # "ADJUSTMENT"}

\* Without sessions the saves still come in one order: no event without its
\* ledger entry, no ledger entry without its transaction, no debit of a reward
\* without its redemption.
WritesInOrder ==
    /\ Sources(outbox) \subseteq Sources(ledger)
    /\ Sources(ledger) \subseteq Ids(transactions)
    /\ \A t \in transactions : t.op = "REDEEM" => t.id \in Ids(redemptions)

\* A transaction of an issue or a redemption, its ledger entry, its outbox event
\* and (for a redemption) its redemption document exist together or not at all.
\* Claimed for every deployment whose handlers find transaction support.
AllOrNothing ==
    /\ Sources(Customary(ledger)) = Ids(Customary(transactions))
    /\ Sources(outbox) = Ids(Customary(transactions))
    /\ Ids(redemptions) = {t.id : t \in {u \in transactions : u.op = "REDEEM"}}

\* An idempotency key moves points at most once, whatever retries overlap.
OneEffectPerKey ==
    /\ \A e, f \in ledger : e.op = f.op /\ e.key = f.key => e = f
    /\ \A d, f \in redemptions : d.key = f.key => d = f

\* A client that is told "done" - by the first request or by a retry - has its
\* points posted under its key, by the transaction or redemption it was told.
AnsweredIsPosted ==
    \A r \in Requests : pc[r] = "done" =>
        \E e \in ledger : e.tx = result[r] /\ e.op = req[r].op /\ e.key = KeyOf(r)

\* A write takes a balance below zero only if another request has debited the
\* customer since this one checked it: alone, no debit overdraws.
OverdraftOnlyByRace ==
    [][\A c \in Customers :
          Balance(c)' < 0 /\ Balance(c)' < Balance(c) =>
            \E r \in Requests :
                /\ pc[r] \in {"commit", "insert"} /\ pc'[r] # pc[r]
                /\ req[r].cust = c
                /\ Balance(c) < seen[r]]_ledger

\* What LedgerPromise sees of a state.
Amounts == {i.amount : i \in Intents} \cup {-Catalogue[w].cost : w \in Rewards}
Posting(e) == [op |-> e.op, key |-> e.key, cust |-> e.cust, amount |-> e.amount]
Posted == {Posting(e) : e \in ledger}
Granted == {d.key : d \in redemptions}
Announced == {Posting(m) : m \in outbox}
Told == {<<req[r].op, KeyOf(r)>> : r \in {s \in Requests : pc[s] = "done"}}

Promise == INSTANCE LedgerPromise WITH
    Postings <- [op : Ops, key : Keys \cup Requests, cust : Customers, amount : Amounts],
    posted <- Posted, granted <- Granted, announced <- Announced, told <- Told

\* Every step of the handlers is a step of the promise or none at all.
KeepsPromise == Promise!Spec

\* The inductive invariant.  The documents of a request say what the request
\* says, and appear in the order of its labels: one that has not come to a save
\* has no document there ...
BeforeWrites ==
    {"idle", "lookup", "reward", "stamps", "points", "balance", "mode", "hello",
     "recheck", "recheckPlain", "open", "commit", "saveRedemption"}

DocumentsMatch ==
    /\ \A t \in transactions : t = TransactionOf(t.id)
    /\ \A d \in redemptions : d = RedemptionOf(d.id)
    /\ \A e \in ledger : e = EntryOf(e.tx)
    /\ \A m \in outbox : m = EventOf(m.tx)

NothingEarly ==
    \A r \in Requests :
        /\ pc[r] \in BeforeWrites => r \notin Ids(redemptions)
        /\ pc[r] \in BeforeWrites \cup {"saveTransaction"} => r \notin Ids(transactions)
        /\ pc[r] \in BeforeWrites \cup {"saveTransaction", "append", "insert"} =>
              r \notin Sources(ledger)
        /\ pc[r] \in BeforeWrites \cup {"saveTransaction", "append", "insert", "event"} =>
              r \notin Sources(outbox)

\* ... and one that has passed a save has left it behind.
NothingSkipped ==
    \A r \in Requests :
        /\ pc[r] \in {"reward", "stamps", "points", "balance", "recheck", "recheckPlain",
                      "saveRedemption"} => req[r].op = "REDEEM"
        /\ pc[r] \in {"event", "mode", "hello", "open", "commit"} => req[r].op # "ADJUSTMENT"
        /\ pc[r] = "saveTransaction" /\ req[r].op = "REDEEM" => r \in Ids(redemptions)
        /\ pc[r] \in {"append", "insert"} => r \in Ids(transactions)
        /\ pc[r] = "event" => r \in Sources(ledger)
        /\ pc[r] \in {"event", "track", "mark"} => result[r] \in Ids(transactions)

\* Unique indexes hold, and an open transaction's key stays free until it commits.
KeysUnique ==
    /\ \A t, u \in transactions : t.op = u.op /\ t.key = u.key => t = u
    /\ \A d, f \in redemptions : d.key = f.key => d = f

ClaimsHold ==
    \A r \in Requests : pc[r] = "commit" => ~KeyUnavailable(r)

IInv ==
    /\ TypeOK /\ DocumentsMatch
    /\ NothingEarly /\ NothingSkipped /\ WritesInOrder
    /\ KeysUnique /\ ClaimsHold

\* Where every `hello` finds a replica set, issues and redemptions use sessions
\* only, and the writes of an answered request are there before its answer.
SessionsOnly ==
    /\ txnSupport # "no"
    /\ \A r \in Requests :
        /\ pc[r] \notin {"recheckPlain", "saveRedemption", "event"}
        /\ pc[r] \in {"saveTransaction", "append", "insert"} => req[r].op = "ADJUSTMENT"

PostedBeforeAnswer ==
    \A r \in Requests : pc[r] \in {"track", "mark", "done"} =>
        \E e \in ledger : e.tx = result[r] /\ e.op = req[r].op /\ e.key = KeyOf(r)

SessionInv == SessionsOnly /\ AllOrNothing /\ PostedBeforeAnswer

\* What a request posts is what it was asked for, or the cost of its reward.
AmountsAsked ==
    /\ rewards = Catalogue
    /\ \A r \in Requests :
          pc[r] \notin Resting \cup {"lookup", "reward", "mark"} => amt[r] \in Amounts
=============================================================================
