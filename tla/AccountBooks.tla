----------------------------- MODULE AccountBooks -----------------------------
(***************************************************************************)
(* The books of customers at merchants, and everybody who writes in them:  *)
(* scans that enrol and post, the two kinds of adjustment                  *)
(* (OperatorToolsService.manualAdjustment and                              *)
(* CustomersService.adjustBalance), reversals, membership switches and the *)
(* deletion of a customer's account, beside a customer who reads the       *)
(* ledger page by page.                                                    *)
(*                                                                         *)
(* A request writes at most one transaction, so its name is the id of the  *)
(* transaction, of the ledger entry and of the fresh uuids it makes.  Time *)
(* (createdAt) is a counter.  Bodies are sent once; retries and the        *)
(* variants without a session are the subject of LoyaltyLedger.            *)
(***************************************************************************)
EXTENDS Integers, FiniteSetsExt

CONSTANTS
    Requests,   \* names of the HTTP requests that may be made
    Merchants, Customers, Keys,
    StampRewards, \* the rewards that cost stamps; "points" stands for the others
    Intents,    \* what a request may ask for (see Intent)
    Plans,      \* bound: the requests of one behaviour (see Plan)
    Members,    \* <<merchant, customer>> of the accounts at the start, in order, each once
    PageSize,   \* entries per page of the wallet history
    NoOne       \* no request, customer or document

Posts == {"post", "simulate"}            \* through issuePoints and redeemPoints
Writers == Posts \cup {"manual", "reverse", "adjust"}
Ops == Writers \cup {"disable", "enable", "delete", "history"}

Rewards == StampRewards \cup {"points"}

\* amount: signed points of a post, simulate, manual or adjust; posts and manual
\* adjustments carry the client's Idempotency-Key.  reward: what a purchase gives
\* stamps for (stampRewardId), or what is redeemed.
Intent == [op: Ops, merchant: Merchants, cust: Customers, amount: Int, key: Keys,
           reward: Rewards]
\* No more than so many requests, of these kinds.
Plan == [most: Nat, of: SUBSET Intents]

ASSUME BookIntentsAssumption == Intents \subseteq Intent /\ Intents # {}
ASSUME BookIdsAssumption ==
    /\ NoOne \notin Requests \cup Customers /\ Requests \intersect Keys = {}
    /\ PageSize \in Nat \ {0}
ASSUME StampRewardsAssumption == StampRewards \cap {"none", "points"} = {}
ASSUME PlansAssumption == Plans \subseteq Plan
ASSUME MembersAssumption ==
    /\ IsFiniteSet(DOMAIN Members)
    /\ Members \in [1 .. Cardinality(DOMAIN Members) -> Merchants \X Customers]
    /\ \A i, j \in DOMAIN Members : Members[i] = Members[j] => i = j

VARIABLES
    transactions, entries, accounts, redemptions, \* the collections
    customers, users, \* customer documents, and the logins linked to them
    now,        \* the clock that stamps documents
    pc, req,    \* where each request is, and its body
    who,        \* the customer it works on
    copy,       \* the transaction reverseTransaction read
    amt,        \* signed amount it will post
    base, at,   \* the ledger sum it read in appendEntry, and when
    page, got,  \* the place in a list or page it asks for, entries received
    meant,      \* history: the customer staff saw at the place they adjust
    rivals,     \* history: requests that were appending to the same book meanwhile
    first,      \* history: entries that existed at the first page
    crossed,    \* history: customers with a writer under way while being deleted
    beside      \* history: redemptions beside another scan of their book

collections == <<transactions, entries, accounts, redemptions, customers, users, now>>
locals == <<who, copy, amt, base, at, page, got>>
history == <<meant, rivals, first, crossed>>
vars == <<collections, pc, req, locals, history, beside>>

-----------------------------------------------------------------------------
(* Documents and reads *)

Abs(n) == IF n < 0 THEN -n ELSE n

\* Entries of one customer at one merchant.
Book(m, c) == {e \in entries : e.merchant = m /\ e.cust = c}
\* Slip: the sum is not limited to the merchant.
Balance_AllMerchants(m, c) ==
    MapThenSumSet(LAMBDA e : e.amount, {e \in entries : e.cust = c})

Balance(m, c) == MapThenSumSet(LAMBDA e : e.amount, Book(m, c))

\* A purchase whose metadata says that it issued stamps.
Stamped(t) == t.type = "ISSUE" /\ t.scan \in StampRewards

StampsIssued(m, c) ==
    MapThenSumSet(LAMBDA t : t.amount,
                  {t \in transactions : t.merchant = m /\ t.cust = c /\ Stamped(t)})
StampsRedeemed(m, c) ==
    MapThenSumSet(LAMBDA d : d.amount,
                  {d \in redemptions : d.merchant = m /\ d.cust = c /\ d.reward \in StampRewards})
NotNegative(n) == IF n < 0 THEN 0 ELSE n
StampCount(m, c) == NotNegative(StampsIssued(m, c) - StampsRedeemed(m, c))

AccountsOf(m, c) == {a \in accounts : a.merchant = m /\ a.cust = c}

\* The short id of a customer is the place of the account in the merchant's
\* list, sorted by createdAt.
PlaceOf(a) == Cardinality({b \in accounts : b.merchant = a.merchant /\ b.at <= a.at})
PlaceHolder(m, n) == {a \in accounts : a.merchant = m /\ PlaceOf(a) = n}

\* A post and adjustBalance store the signed amount, manualAdjustment its size.
StoredAmount(op, n) == IF op \in {"manual", "reverse"} THEN Abs(n) ELSE n

\* The key a transaction is saved with: the client's, with a suffix for a
\* redemption, or a fresh one.
ClientKey(r) ==
    IF req[r].op \in Posts /\ amt[r] < 0 THEN <<req[r].key, "tx">>
    ELSE IF req[r].op \in Posts \cup {"manual"} THEN req[r].key ELSE r

TransactionOf(r) ==
    [id |-> r, merchant |-> req[r].merchant, cust |-> who[r],
     type |-> IF amt[r] > 0 THEN "ISSUE" ELSE "REDEEM",
     amount |-> StoredAmount(req[r].op, amt[r]),
     key |-> ClientKey(r), reversal |-> NoOne, scan |-> "none",
     at |-> IF req[r].op = "adjust" THEN now ELSE at[r]]

\* Slip: the statement trusts the sign that is stored.
SignedPoints_Stored(t) == t.amount

\* The points a merchant's transaction list shows.
SignedPoints(t) == IF t.type = "ISSUE" THEN Abs(t.amount) ELSE -Abs(t.amount)

EntryOf(r) ==
    [tx |-> r, merchant |-> req[r].merchant, cust |-> who[r], amount |-> amt[r],
     after |-> base[r] + amt[r], at |-> at[r]]

KeyTaken(r) ==
    \/ \E t \in transactions : t.merchant = req[r].merchant /\ t.key = ClientKey(r)
    \/ \E d \in redemptions : d.merchant = req[r].merchant /\ ClientKey(d.id) = ClientKey(r)

\* A session of another request has inserted the key and is still open.
KeyClaimed(r) ==
    \E s \in Requests \ {r} :
        /\ pc[s] = "commit" /\ req[s].merchant = req[r].merchant
        /\ ClientKey(s) = ClientKey(r)

-----------------------------------------------------------------------------
(* Control *)

Resting == {"idle", "done", "failed"}
Goto(r, l) == pc' = [pc EXCEPT ![r] = l]
Refuse(r) == Goto(r, "failed") /\ UNCHANGED <<collections, req, locals, history>>

\* Where a request begins.
Entrance(op) ==
    CASE op = "post" -> "enrol"
      [] op = "manual" -> "account"
      [] op = "reverse" -> "findTx"
      [] op \in {"adjust", "simulate"} -> "resolve"
      [] op = "delete" -> "user"
      [] op = "history" -> "page"
      [] OTHER -> "membership"

\* A scan between the checks of its posting and the metadata of its transaction.
AtWork(r) ==
    req[r].op \in Posts /\ pc[r] \in {"check", "open", "commit", "markRead", "mark"}

\* Some request is between its read of the book and its append to it.
Appending(r) == pc[r] \in {"commit", "insert"}
SameBook(r, s) == req[r].merchant = req[s].merchant /\ who[r] = who[s]

\* A deletion of c has begun and not ended.
BeingDeleted(c) ==
    \E s \in Requests :
        who[s] = c /\ pc[s] \in {"delTransactions", "delAccounts", "delCustomer", "delUser"}

Init ==
    /\ transactions = {} /\ entries = {} /\ redemptions = {}
    /\ accounts = {[merchant |-> Members[i][1], cust |-> Members[i][2],
                    status |-> "ACTIVE", at |-> i] : i \in DOMAIN Members}
    /\ customers = Customers /\ users = Customers
    /\ now = Cardinality(DOMAIN Members) + 1
    /\ pc = [r \in Requests |-> "idle"]
    /\ req = [r \in Requests |-> CHOOSE i \in Intents : TRUE]
    /\ who = [r \in Requests |-> NoOne]
    /\ copy = [r \in Requests |-> NoOne]
    /\ amt = [r \in Requests |-> 0]
    /\ base = [r \in Requests |-> 0] /\ at = [r \in Requests |-> 0]
    /\ page = [r \in Requests |-> 1]
    /\ got = [r \in Requests |-> {}]
    /\ meant = [r \in Requests |-> NoOne]
    /\ rivals = [r \in Requests |-> {}]
    /\ first = [r \in Requests |-> {}]
    /\ crossed = {} /\ beside = {}

Begun == {r \in Requests : pc[r] # "idle"}
Planned(i) ==
    \E p \in Plans :
        i \in p.of /\ Cardinality(Begun) < p.most /\ \A s \in Begun : req[s] \in p.of

\* A client sends a request.  Staff reverse a transaction they see (copy), and
\* adjust, or simulate the scan of, the customer at a place of the list they see
\* (page).
Start(r) ==
    /\ pc[r] = "idle"
    /\ \E i \in Intents :
        /\ Planned(i)
        /\ req' = [req EXCEPT ![r] = i]
        /\ Goto(r, Entrance(i.op))
        /\ amt' = [amt EXCEPT ![r] = i.amount]
        /\ crossed' = IF i.op \in Writers
                      THEN crossed \cup {c \in Customers : BeingDeleted(c)} ELSE crossed
        /\ CASE i.op = "reverse" ->
                  /\ \E t \in transactions :
                        t.merchant = i.merchant /\ copy' = [copy EXCEPT ![r] = t]
                  /\ UNCHANGED <<who, page, meant>>
             [] i.op \in {"adjust", "simulate"} ->
                  /\ \E a \in AccountsOf(i.merchant, i.cust) :
                        /\ page' = [page EXCEPT ![r] = PlaceOf(a)]
                        /\ meant' = [meant EXCEPT ![r] = a.cust]
                  /\ UNCHANGED <<who, copy>>
             [] OTHER ->
                  /\ who' = [who EXCEPT ![r] = i.cust]
                  /\ UNCHANGED <<copy, page, meant>>
    /\ UNCHANGED <<collections, base, at, got, rivals, first>>

-----------------------------------------------------------------------------
(* Postings by scan *)

\* The scan finds the customer, and enrols one without an account.
Enrol(r) ==
    /\ pc[r] = "enrol"
    /\ \/ /\ who[r] \notin customers
             \/ \E a \in AccountsOf(req[r].merchant, who[r]) : a.status = "DISABLED"
          /\ Refuse(r)
       \/ /\ who[r] \in customers /\ AccountsOf(req[r].merchant, who[r]) = {}
          /\ accounts' = accounts \cup {[merchant |-> req[r].merchant, cust |-> who[r],
                                         status |-> "ACTIVE", at |-> now]}
          /\ now' = now + 1
          /\ Goto(r, "check")
          /\ UNCHANGED <<redemptions, transactions, entries, customers, users, req, locals, history>>
       \/ /\ who[r] \in customers
          /\ \E a \in AccountsOf(req[r].merchant, who[r]) : a.status = "ACTIVE"
          /\ Goto(r, "check")
          /\ UNCHANGED <<collections, req, locals, history>>

\* Slip: the whole balance will do for a reward that costs points.
Affords_Balance(m, c, w, cost) ==
    cost <= IF w \in StampRewards THEN StampCount(m, c) ELSE Balance(m, c)

\* What redeemPoints asks of a customer before its session: stamps for a reward
\* that costs stamps, and for another what the balance holds beside the stamps.
Affords(m, c, w, cost) ==
    cost <= IF w \in StampRewards THEN StampCount(m, c)
            ELSE NotNegative(Balance(m, c) - StampCount(m, c))
Covers(r) == Affords(req[r].merchant, who[r], req[r].reward, -amt[r])

\* What the scan, or the simulated scan, does after the posting.
AfterPosting(r) == IF amt[r] < 0 THEN "markRead" ELSE "mark"

\* issuePoints and redeemPoints up to their session: the key, the customer or
\* the balance.
Check(r) ==
    /\ pc[r] = "check"
    /\ \/ /\ KeyTaken(r)
          /\ Goto(r, AfterPosting(r))
          /\ UNCHANGED <<collections, req, locals, history>>
       \/ /\ ~KeyTaken(r)
          /\ IF amt[r] > 0 THEN who[r] \notin customers
                           ELSE ~Covers(r)
          /\ Refuse(r)
       \/ /\ ~KeyTaken(r)
          /\ IF amt[r] > 0 THEN who[r] \in customers
                           ELSE Covers(r)
          /\ Goto(r, "open")
          /\ UNCHANGED <<collections, req, locals, history>>

\* appendEntry sums the entries of the book and stamps its own.
ReadBook(r) ==
    LET others == {s \in Requests \ {r} : Appending(s) /\ SameBook(r, s)} IN
    /\ base' = [base EXCEPT ![r] = Balance(req[r].merchant, who[r])]
    /\ at' = [at EXCEPT ![r] = now]
    /\ now' = now + 1
    /\ rivals' = [s \in Requests |-> CASE s = r -> others
                                        [] s \in others -> rivals[s] \cup {r}
                                        [] OTHER -> rivals[s]]
    /\ UNCHANGED <<transactions, entries, accounts, redemptions, customers, users,
                   req, who, copy, amt, page, got, meant, first, crossed>>

\* In its session redeemPoints checks the balance again.
Overdraws(r) == req[r].op \in Posts /\ amt[r] < 0 /\ Balance(req[r].merchant, who[r]) + amt[r] < 0

\* A session: the key is claimed and the book is read in one snapshot.  A key
\* that exists throws.  withTransaction of manualAdjustment tries again while
\* the key is claimed; issuePoints and redeemPoints throw.
Open(r) ==
    /\ pc[r] = "open"
    /\ \/ (KeyTaken(r) \/ Overdraws(r)) /\ Refuse(r)
       \/ ~KeyTaken(r) /\ KeyClaimed(r) /\ req[r].op \in Posts /\ Refuse(r)
       \/ /\ ~KeyTaken(r) /\ ~KeyClaimed(r) /\ ~Overdraws(r)
          /\ ReadBook(r)
          /\ Goto(r, "commit")

\* What is published when the session commits.
Publish(r) ==
    /\ transactions' = transactions \cup {TransactionOf(r)}
    /\ entries' = entries \cup {EntryOf(r)}
    /\ redemptions' = IF req[r].op \in Posts /\ amt[r] < 0
                      THEN redemptions \cup {[id |-> r, merchant |-> req[r].merchant,
                                              cust |-> who[r], amount |-> -amt[r],
                                              reward |-> req[r].reward]}
                      ELSE redemptions
    /\ UNCHANGED <<accounts, customers, users, now>>

Commit(r) ==
    /\ pc[r] = "commit"
    /\ Publish(r)
    /\ Goto(r, IF req[r].op \in Posts THEN AfterPosting(r) ELSE "reread")
    /\ UNCHANGED <<req, locals, history>>

\* The transaction the posting has answered with: its own, or the one of a
\* request with the same key.
Posted(r) == {t \in transactions : t.merchant = req[r].merchant /\ t.key = ClientKey(r)}

\* After a redemption the scan reads the transaction, whose metadata it extends.
MarkRead(r) ==
    LET mine == {t \in Posted(r) : t.cust = who[r]} IN
    /\ pc[r] = "markRead"
    /\ IF mine = {} THEN Goto(r, "done") /\ UNCHANGED copy
       ELSE /\ \E t \in mine : copy' = [copy EXCEPT ![r] = t]
            /\ Goto(r, "mark")
    /\ UNCHANGED <<collections, req, who, amt, base, at, page, got, history>>

\* A purchase has the metadata of its transaction replaced, a redemption what
\* was read with more in it.  Only the real scan gives stamps, when it is told
\* for which reward.
Mark(r) ==
    /\ pc[r] = "mark"
    /\ transactions' =
          {IF amt[r] > 0 /\ t \in Posted(r)
             THEN [t EXCEPT !.scan = IF req[r].op = "post" THEN req[r].reward ELSE "points",
                            !.reversal = NoOne]
           ELSE IF amt[r] < 0 /\ t.id = copy[r].id
             THEN [t EXCEPT !.scan = "points", !.reversal = copy[r].reversal]
           ELSE t : t \in transactions}
    /\ Goto(r, "done")
    /\ UNCHANGED <<redemptions, entries, accounts, customers, users, now, req, locals, history>>

-----------------------------------------------------------------------------
(* The simulated scan: a customer of the list, no code and no enrolment *)

\* The place is turned into the customer again.
SimulateResolve(r) ==
    /\ pc[r] = "resolve" /\ req[r].op = "simulate"
    /\ \/ PlaceHolder(req[r].merchant, page[r]) = {} /\ Refuse(r)
       \/ /\ \E a \in PlaceHolder(req[r].merchant, page[r]) :
                who' = [who EXCEPT ![r] = a.cust]
          /\ Goto(r, "simFind")
          /\ UNCHANGED <<collections, req, copy, amt, base, at, page, got, history>>

\* The account and the customer must exist; an amount that earns no points is
\* refused, so amt is never zero here.
SimulateFind(r) ==
    /\ pc[r] = "simFind"
    /\ IF AccountsOf(req[r].merchant, who[r]) = {} \/ who[r] \notin customers THEN Refuse(r)
       ELSE Goto(r, "check") /\ UNCHANGED <<collections, req, locals, history>>

-----------------------------------------------------------------------------
(* Adjustments by an operator, and reversals *)

\* reverseTransaction reads the transaction and negates the amount it stores.
FindTransaction(r) ==
    /\ pc[r] = "findTx"
    /\ \/ /\ ~\E t \in transactions : t.id = copy[r].id
          /\ Refuse(r)
       \/ /\ \E t \in transactions :
                /\ t.id = copy[r].id
                /\ copy' = [copy EXCEPT ![r] = t]
                /\ who' = [who EXCEPT ![r] = t.cust]
                /\ amt' = [amt EXCEPT ![r] = -t.amount]
          /\ Goto(r, "account")
          /\ UNCHANGED <<collections, req, base, at, page, got, history>>

\* manualAdjustment and adjustBalance look for the account, disabled or not.
FindAccount(r) ==
    /\ pc[r] = "account"
    /\ IF AccountsOf(req[r].merchant, who[r]) = {} THEN Refuse(r)
       ELSE /\ Goto(r, IF req[r].op # "adjust" THEN "open"
                       ELSE IF amt[r] < 0 THEN "balance" ELSE "save")
            /\ UNCHANGED <<collections, req, locals, history>>

\* manualAdjustment reads the balance it answers with.
Reread(r) ==
    /\ pc[r] = "reread"
    /\ Goto(r, IF req[r].op = "reverse" THEN "note" ELSE "done")
    /\ UNCHANGED <<collections, req, locals, history>>

\* Slip: the metadata is written back as it was read.
NoteReversal_Unnamed(r) ==
    /\ pc[r] = "note"
    /\ transactions' = {IF t.id = copy[r].id THEN copy[r] ELSE t : t \in transactions}
    /\ Goto(r, "done")
    /\ UNCHANGED <<redemptions, entries, accounts, customers, users, now, req, locals, history>>

\* The metadata read at the start, with the reversal added, replaces what is there.
NoteReversal(r) ==
    /\ pc[r] = "note"
    /\ transactions' = {IF t.id = copy[r].id
                        THEN [t EXCEPT !.reversal = r, !.scan = copy[r].scan]
                        ELSE t : t \in transactions}
    /\ Goto(r, "done")
    /\ UNCHANGED <<redemptions, entries, accounts, customers, users, now, req, locals, history>>

-----------------------------------------------------------------------------
(* Adjustments by staff, without a session *)

\* The place of a customer in the list is turned into the customer again.
ResolvePlace(r) ==
    /\ pc[r] = "resolve" /\ req[r].op = "adjust"
    /\ \/ (amt[r] = 0 \/ PlaceHolder(req[r].merchant, page[r]) = {}) /\ Refuse(r)
       \/ /\ amt[r] # 0
          /\ \E a \in PlaceHolder(req[r].merchant, page[r]) :
                who' = [who EXCEPT ![r] = a.cust]
          /\ Goto(r, "account")
          /\ UNCHANGED <<collections, req, copy, amt, base, at, page, got, history>>

CheckBalance(r) ==
    /\ pc[r] = "balance"
    /\ IF Balance(req[r].merchant, who[r]) + amt[r] < 0 THEN Refuse(r)
       ELSE Goto(r, "save") /\ UNCHANGED <<collections, req, locals, history>>

SaveTransaction(r) ==
    /\ pc[r] = "save"
    /\ transactions' = transactions \cup {TransactionOf(r)}
    /\ Goto(r, "append")
    /\ UNCHANGED <<redemptions, entries, accounts, customers, users, now, req, locals, history>>

\* appendEntry outside a session: the book is read, then the entry is saved.
AppendRead(r) ==
    /\ pc[r] = "append"
    /\ ReadBook(r)
    /\ Goto(r, "insert")

AppendInsert(r) ==
    /\ pc[r] = "insert"
    /\ entries' = entries \cup {EntryOf(r)}
    /\ Goto(r, "done")
    /\ UNCHANGED <<redemptions, transactions, accounts, customers, users, now, req, locals, history>>

-----------------------------------------------------------------------------
(* Membership, deletion *)

\* disableCustomer and enableCustomer look for the account, then switch it.
FindMembership(r) ==
    /\ pc[r] = "membership"
    /\ IF AccountsOf(req[r].merchant, who[r]) = {} THEN Refuse(r)
       ELSE Goto(r, "switch") /\ UNCHANGED <<collections, req, locals, history>>

SwitchMembership(r) ==
    /\ pc[r] = "switch"
    /\ accounts' = {IF a \in AccountsOf(req[r].merchant, who[r])
                    THEN [a EXCEPT !.status = IF req[r].op = "disable" THEN "DISABLED" ELSE "ACTIVE"]
                    ELSE a : a \in accounts}
    /\ Goto(r, "done")
    /\ UNCHANGED <<redemptions, transactions, entries, customers, users, now, req, locals, history>>

\* deleteCustomerAccount finds the login: without one there is nothing to do.
FindUser(r) ==
    /\ pc[r] = "user"
    /\ Goto(r, IF who[r] \in users THEN "delLedger" ELSE "done")
    /\ UNCHANGED <<collections, req, locals, history>>

WriterUnderWay == \E s \in Requests : req[s].op \in Writers /\ pc[s] \notin Resting

DeleteLedger(r) ==
    /\ pc[r] = "delLedger"
    /\ entries' = {e \in entries : e.cust # who[r]}
    /\ crossed' = IF WriterUnderWay THEN crossed \cup {who[r]} ELSE crossed
    /\ Goto(r, "delTransactions")
    /\ UNCHANGED <<redemptions, transactions, accounts, customers, users, now, req, locals, meant, rivals, first>>

DeleteTransactions(r) ==
    /\ pc[r] = "delTransactions"
    /\ transactions' = {t \in transactions : t.cust # who[r]}
    /\ Goto(r, "delAccounts")
    /\ UNCHANGED <<redemptions, entries, accounts, customers, users, now, req, locals, history>>

\* Slip: only the accounts at the merchant the customer signed up with go.
DeleteAccounts_OwnMerchant(r) ==
    /\ pc[r] = "delAccounts"
    /\ accounts' = accounts \ AccountsOf(req[r].merchant, who[r])
    /\ Goto(r, "delCustomer")
    /\ UNCHANGED <<redemptions, transactions, entries, customers, users, now, req, locals, history>>

DeleteAccounts(r) ==
    /\ pc[r] = "delAccounts"
    /\ accounts' = {a \in accounts : a.cust # who[r]}
    /\ Goto(r, "delCustomer")
    /\ UNCHANGED <<redemptions, transactions, entries, customers, users, now, req, locals, history>>

DeleteCustomer(r) ==
    /\ pc[r] = "delCustomer"
    /\ customers' = customers \ {who[r]}
    /\ Goto(r, "delUser")
    /\ UNCHANGED <<redemptions, transactions, entries, accounts, users, now, req, locals, history>>

\* The login goes last, so that a deletion that failed can be asked for again.
DeleteUser(r) ==
    /\ pc[r] = "delUser"
    /\ users' = users \ {who[r]}
    /\ Goto(r, "done")
    /\ UNCHANGED <<redemptions, transactions, entries, accounts, customers, now, req, locals, history>>

-----------------------------------------------------------------------------
(* The customer's wallet history, over all merchants *)

EntriesOf(c) == {e \in entries : e.cust = c}

\* The place of an entry, newest first.
Depth(e) == Cardinality({f \in EntriesOf(e.cust) : f.at >= e.at})

PageOf(c, n) == {e \in EntriesOf(c) : (n - 1) * PageSize < Depth(e) /\ Depth(e) <= n * PageSize}

\* Slip: the client stops at the number of entries the first page told.
ReadPage_FirstTotal(r) ==
    /\ pc[r] = "page"
    /\ got' = [got EXCEPT ![r] = @ \cup {e.tx : e \in PageOf(who[r], page[r])}]
    /\ first' = IF page[r] = 1
                THEN [first EXCEPT ![r] = {e.tx : e \in EntriesOf(who[r])}] ELSE first
    /\ IF page[r] * PageSize < Cardinality(first'[r])
       THEN page' = [page EXCEPT ![r] = @ + 1] /\ UNCHANGED pc
       ELSE Goto(r, "done") /\ UNCHANGED page
    /\ UNCHANGED <<collections, req, who, copy, amt, base, at, meant, rivals, crossed>>

\* getLedgerHistory answers with a page and with the number of entries; the
\* client asks for the next page while there is one.
ReadPage(r) ==
    /\ pc[r] = "page"
    /\ got' = [got EXCEPT ![r] = @ \cup {e.tx : e \in PageOf(who[r], page[r])}]
    /\ first' = IF page[r] = 1
                THEN [first EXCEPT ![r] = {e.tx : e \in EntriesOf(who[r])}] ELSE first
    /\ IF page[r] * PageSize < Cardinality(EntriesOf(who[r]))
       THEN page' = [page EXCEPT ![r] = @ + 1] /\ UNCHANGED pc
       ELSE Goto(r, "done") /\ UNCHANGED page
    /\ UNCHANGED <<collections, req, who, copy, amt, base, at, meant, rivals, crossed>>

-----------------------------------------------------------------------------
\* A database call throws, the answer is lost, or the process is restarted.
Fail(r) == pc[r] \notin Resting /\ Refuse(r)

PostStep(r) == Enrol(r) \/ Check(r) \/ Open(r) \/ Commit(r) \/ MarkRead(r) \/ Mark(r)
SimulateStep(r) == SimulateResolve(r) \/ SimulateFind(r)
OperatorStep(r) == FindTransaction(r) \/ FindAccount(r) \/ Reread(r) \/ NoteReversal(r)
AdjustStep(r) ==
    ResolvePlace(r) \/ CheckBalance(r) \/ SaveTransaction(r) \/ AppendRead(r) \/ AppendInsert(r)
DeleteStep(r) ==
    FindUser(r) \/ DeleteLedger(r) \/ DeleteTransactions(r) \/ DeleteAccounts(r)
      \/ DeleteCustomer(r) \/ DeleteUser(r)

Step(r) ==
    \/ Start(r) \/ Fail(r)
    \/ PostStep(r) \/ SimulateStep(r) \/ OperatorStep(r) \/ AdjustStep(r)
    \/ FindMembership(r) \/ SwitchMembership(r)
    \/ DeleteStep(r) \/ ReadPage(r)

\* The redemptions that find another scan of their book at work.
Crowded == {r \in Requests : AtWork(r) /\ amt[r] < 0
                               /\ \E s \in Requests \ {r} : AtWork(s) /\ SameBook(r, s)}

Next == (\E r \in Requests : Step(r)) /\ beside' = beside \cup Crowded'

Spec == Init /\ [][Next]_vars

-----------------------------------------------------------------------------
(* Properties *)

TransactionDoc ==
    [id: Requests, merchant: Merchants, cust: Customers, type: {"ISSUE", "REDEEM"},
     amount: Int, key: Keys \cup (Keys \X {"tx"}) \cup Requests,
     reversal: Requests \cup {NoOne}, scan: {"none"} \cup Rewards, at: Nat]
AccountDoc ==
    [merchant: Merchants, cust: Customers, status: {"ACTIVE", "DISABLED"}, at: Nat]

Labels == Resting \cup
    {"enrol", "check", "open", "commit", "markRead", "mark", "simFind",
     "findTx", "account", "reread", "note", "resolve", "balance", "save", "append", "insert",
     "membership", "switch", "user", "delLedger", "delTransactions", "delAccounts",
     "delCustomer", "delUser", "page"}

BooksTyped ==
    /\ transactions \subseteq TransactionDoc /\ accounts \subseteq AccountDoc
    /\ \A e \in entries : e.tx \in Requests /\ e.cust \in Customers /\ e.at \in Nat
    /\ customers \subseteq Customers /\ users \subseteq Customers /\ now \in Nat
    /\ pc \in [Requests -> Labels] /\ req \in [Requests -> Intents]
    /\ who \in [Requests -> Customers \cup {NoOne}]
    /\ copy \in [Requests -> TransactionDoc \cup {NoOne}]
    /\ amt \in [Requests -> Int] /\ at \in [Requests -> Nat]

TypeOK ==
    /\ BooksTyped
    /\ redemptions \subseteq [id: Requests, merchant: Merchants, cust: Customers, amount: Nat,
                               reward: Rewards]
    /\ base \in [Requests -> Int] /\ (\A e \in entries : e.after \in Int)
    /\ page \in [Requests -> Nat]
    /\ got \in [Requests -> SUBSET Requests] /\ meant \in [Requests -> Customers \cup {NoOne}]
    /\ rivals \in [Requests -> SUBSET Requests] /\ first \in [Requests -> SUBSET Requests]
    /\ crossed \subseteq Customers /\ beside \subseteq Requests

\* A deletion of c has been asked for and has looked at the login.
Erased(c) ==
    \E s \in Requests : req[s].op = "delete" /\ who[s] = c /\ pc[s] \notin {"idle", "user"}

\* adjustBalance has saved the transaction and not the entry: it is between the
\* two or stopped there.
HalfAdjusted(r) == req[r].op = "adjust" /\ pc[r] \in {"append", "insert", "failed"}

\* The transaction list and the ledger tell the same story, entry by entry,
\* whoever wrote it and however its amount is stored.  Only an adjustBalance
\* that stopped between its two saves leaves a transaction that moved nothing.
StatementMatchesLedger ==
    \A c \in Customers : ~Erased(c) =>
        /\ \A e \in EntriesOf(c) :
              \E t \in transactions :
                 /\ t.id = e.tx /\ t.merchant = e.merchant /\ t.cust = c
                 /\ SignedPoints(t) = e.amount
        /\ \A t \in transactions :
              t.cust = c => HalfAdjusted(t.id) \/ \E e \in EntriesOf(c) : e.tx = t.id

\* balanceAfter is the balance after the entry, unless another request was
\* between its read of the book and its append at the same time.
BalanceAfterUnlessRaced ==
    \A e \in entries :
        \/ Erased(e.cust) \/ rivals[e.tx] # {}
        \/ e.after = MapThenSumSet(LAMBDA f : f.amount,
                                   {f \in Book(e.merchant, e.cust) : f.at <= e.at})

\* When the login of a customer is gone so is everything the deletion covers,
\* after whatever failures and repetitions, unless a writer was under way then.
NothingLeftBehind ==
    \A c \in Customers :
        c \notin users /\ c \notin crossed =>
            /\ EntriesOf(c) = {} /\ c \notin customers
            /\ \A t \in transactions : t.cust # c
            /\ \A a \in accounts : a.cust # c

\* An adjustment or simulated scan by place in the list reaches the customer
\* staff saw there, whoever enrols meanwhile; only a deletion moves the places.
PlacesStay ==
    \A r \in Requests :
        req[r].op \in {"adjust", "simulate"} /\ who[r] # NoOne =>
            who[r] = meant[r] \/ \E c \in Customers : Erased(c)

\* Reading the history page by page, while entries are added, misses none of
\* those that were there at the start.
PagesMissNothing ==
    \A r \in Requests :
        req[r].op = "history" /\ pc[r] = "done" =>
            first[r] \subseteq got[r] \/ Erased(who[r])

\* What is read by position stays true while others write.
ListsAreSteady == PlacesStay /\ PagesMissNothing

\* A scan was asked for with the key of a transaction another request made.
Repeated(t) ==
    \E s \in Requests \ {t.id} :
        req[s].op \in Posts /\ pc[s] # "idle" /\ req[s].merchant = t.merchant /\ ClientKey(s) = t.key

\* A transaction that was reversed says so and names the reversal, unless the
\* scan that made it had not written its metadata when the reversal read it, or
\* was repeated.
ReversalRecorded ==
    \A r \in Requests : req[r].op = "reverse" /\ pc[r] = "done" =>
        \A t \in transactions : t.id = copy[r].id =>
            \/ \E u \in transactions : u.id = t.reversal
            \/ Erased(t.cust)
            \/ t.scan # "none" /\ copy[r].scan = "none"
            \/ Repeated(t)
=============================================================================
