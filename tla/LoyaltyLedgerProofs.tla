------------------------- MODULE LoyaltyLedgerProofs -------------------------
(***************************************************************************)
(* Proofs about LoyaltyLedger for every set of requests, customers, keys,  *)
(* rewards and intents, and for every deployment.  IInv is inductive: one  *)
(* lemma per action shows that the action preserves it.  What only holds   *)
(* with sessions comes after it.  Then the way of the events a posting     *)
(* writes, EventDelivery, for every feed, any number of polls and          *)
(* consumers and every configuration: the dispatcher's side under any      *)
(* faults, and what consumers count, if none of them comes late, leaves or *)
(* fails a message.  The two share no name.                                *)
(***************************************************************************)
EXTENDS LoyaltyLedger, EventDelivery, Sums, FiniteSetTheorems, TLAPS

\* Adding a document adds its id.
LEMMA IdsAdd == ASSUME NEW S, NEW x PROVE Ids(S \cup {x}) = Ids(S) \cup {x.id}
  BY DEF Ids

\* Adding a ledger entry or an event adds the transaction it belongs to.
LEMMA SourcesAdd == ASSUME NEW S, NEW x PROVE Sources(S \cup {x}) = Sources(S) \cup {x.tx}
  BY DEF Sources

\* A document of a collection has its id among the collection's ids.
LEMMA IdOfMember == \A S, x : x \in S => x.id \in Ids(S) /\ x.tx \in Sources(S)
  BY DEF Ids, Sources

\* The documents a request writes carry its name.
LEMMA NameOfDocument ==
  \A r : /\ TransactionOf(r).id = r /\ RedemptionOf(r).id = r
         /\ EntryOf(r).tx = r /\ EventOf(r).tx = r
  BY DEF TransactionOf, RedemptionOf, EntryOf, EventOf

\* IInv holds in the initial states.
LEMMA InitInvariant == Init => IInv
<1>. SUFFICES ASSUME Init PROVE IInv
  OBVIOUS
<1>1. TypeOK
  BY IntentsAssumption, CatalogueAssumption, EnrolledAssumption
  DEF Init, TypeOK, Labels, Resting, Ids, Sources
<1>2. NothingEarly /\ NothingSkipped
  BY DEF Init, NothingEarly, NothingSkipped, Ids, Sources
<1>3. DocumentsMatch /\ WritesInOrder /\ KeysUnique /\ ClaimsHold
  BY DEF Init, DocumentsMatch, WritesInOrder, KeysUnique, ClaimsHold, Ids, Sources
<1>. QED
  BY <1>1, <1>2, <1>3 DEF IInv

-----------------------------------------------------------------------------
(* Steps that save nothing *)

\* A step of r that saves no document, and that changes what r will write only
\* before r has written anything, keeps what IInv says of the documents.
LEMMA NothingSaved ==
  ASSUME IInv, NEW r \in Requests,
         UNCHANGED <<transactions, ledger, redemptions, outbox>>,
         \A s \in Requests \ {r} : /\ req'[s] = req[s]
                                   /\ amt'[s] = amt[s]
                                   /\ base'[s] = base[s],
         \/ pc[r] \in BeforeWrites
         \/ UNCHANGED <<req, amt>> /\ pc[r] = "append"
         \/ UNCHANGED <<req, amt, base>>
  PROVE  DocumentsMatch' /\ WritesInOrder' /\ KeysUnique'
<1>1. TypeOK /\ DocumentsMatch /\ NothingEarly /\ WritesInOrder /\ KeysUnique
  BY DEF IInv
<1>2. \A s \in Ids(transactions) \cup Ids(redemptions) :
        s \in Requests /\ req'[s] = req[s] /\ amt'[s] = amt[s]
  BY <1>1 DEF TypeOK, NothingEarly
<1>3. \A s \in Sources(ledger) \cup Sources(outbox) :
        s \in Requests /\ req'[s] = req[s] /\ amt'[s] = amt[s] /\ base'[s] = base[s]
  BY <1>1 DEF TypeOK, NothingEarly
<1>4. DocumentsMatch'
  BY <1>1, <1>2, <1>3, IdOfMember
  DEF DocumentsMatch, TransactionOf, RedemptionOf, EntryOf, EventOf, KeyOf
<1>5. WritesInOrder' /\ KeysUnique'
  BY <1>1 DEF WritesInOrder, KeysUnique
<1>. QED
  BY <1>4, <1>5

\* A request starts: IInv is preserved.
LEMMA StartStep ==
  ASSUME IInv, NEW r \in Requests, Start(r)
  PROVE  IInv'
<1>. USE DEF Start, Refuse, Goto, collections, environment, locals
<1>1. TypeOK /\ DocumentsMatch /\ NothingEarly /\ NothingSkipped /\ ClaimsHold
  BY DEF IInv
<1>2. TypeOK'
  BY <1>1, IntentsAssumption, IdOfMember DEF TypeOK, NothingSkipped, Labels, Resting, Intent, RewardDoc
<1>3. DocumentsMatch' /\ WritesInOrder' /\ KeysUnique'
  BY <1>1, NothingSaved DEF TypeOK, BeforeWrites
<1>4. NothingEarly'
  BY <1>1 DEF TypeOK, NothingEarly, BeforeWrites
<1>5. NothingSkipped'
  BY <1>1, IdOfMember DEF TypeOK, NothingSkipped, DocumentsMatch, Resting
<1>6. ClaimsHold'
  BY <1>1 DEF TypeOK, ClaimsHold, KeyUnavailable, WriteConflict, TransactionTaken, RedemptionTaken, KeyOf, Resting
<1>. QED
  BY <1>2, <1>3, <1>4, <1>5, <1>6 DEF IInv

\* The look-ups of issuePoints: IInv is preserved.
LEMMA IssueLookupStep ==
  ASSUME IInv, NEW r \in Requests, IssueLookup(r)
  PROVE  IInv'
<1>. USE DEF IssueLookup, Refuse, Goto, collections, environment, locals, AfterIssue
<1>1. TypeOK /\ DocumentsMatch /\ NothingEarly /\ NothingSkipped /\ ClaimsHold
  BY DEF IInv
<1>2. TypeOK'
  <2>1. \A t \in transactions : t.id \in Requests
    BY <1>1, IdOfMember DEF TypeOK
  <2>2. result' \in [Requests -> Requests \cup {NoRequest}]
    BY <1>1, <2>1 DEF TypeOK
  <2>3. pc' \in [Requests -> Labels] /\ amt' \in [Requests -> Int]
    BY <1>1, IntentsAssumption DEF TypeOK, Labels, Resting, Intent
  <2>. QED
    BY <1>1, <2>2, <2>3 DEF TypeOK
<1>3. DocumentsMatch' /\ WritesInOrder' /\ KeysUnique'
  BY <1>1, NothingSaved DEF TypeOK, BeforeWrites
<1>4. NothingEarly'
  BY <1>1 DEF TypeOK, NothingEarly, BeforeWrites
<1>5. NothingSkipped'
  BY <1>1, IdOfMember DEF TypeOK, NothingSkipped, DocumentsMatch, Resting
<1>6. ClaimsHold'
  BY <1>1 DEF TypeOK, ClaimsHold, KeyUnavailable, WriteConflict, TransactionTaken, RedemptionTaken, KeyOf, Resting
<1>. QED
  BY <1>2, <1>3, <1>4, <1>5, <1>6 DEF IInv

\* The idempotency look-up of redeemPoints: IInv is preserved.
LEMMA RedeemLookupStep ==
  ASSUME IInv, NEW r \in Requests, RedeemLookup(r)
  PROVE  IInv'
<1>. USE DEF RedeemLookup, Refuse, Goto, collections, environment, locals
<1>1. TypeOK /\ DocumentsMatch /\ NothingEarly /\ NothingSkipped /\ ClaimsHold
  BY DEF IInv
<1>2. TypeOK'
  <2>1. \A d \in redemptions : d.id \in Requests
    BY <1>1, IdOfMember DEF TypeOK
  <2>2. result' \in [Requests -> Requests \cup {NoRequest}]
    BY <1>1, <2>1 DEF TypeOK
  <2>3. pc' \in [Requests -> Labels]
    BY <1>1 DEF TypeOK, Labels, Resting
  <2>. QED
    BY <1>1, <2>2, <2>3 DEF TypeOK
<1>3. DocumentsMatch' /\ WritesInOrder' /\ KeysUnique'
  BY <1>1, NothingSaved DEF TypeOK, BeforeWrites
<1>4. NothingEarly'
  BY <1>1 DEF TypeOK, NothingEarly, BeforeWrites
<1>5. NothingSkipped'
  BY <1>1, IdOfMember DEF TypeOK, NothingSkipped, DocumentsMatch, Resting
<1>6. ClaimsHold'
  BY <1>1 DEF TypeOK, ClaimsHold, KeyUnavailable, WriteConflict, TransactionTaken, RedemptionTaken, KeyOf, Resting
<1>. QED
  BY <1>2, <1>3, <1>4, <1>5, <1>6 DEF IInv

\* The reward look-up: IInv is preserved.
LEMMA RedeemRewardStep ==
  ASSUME IInv, NEW r \in Requests, RedeemReward(r)
  PROVE  IInv'
<1>. USE DEF RedeemReward, Refuse, Goto, collections, environment, locals
<1>1. TypeOK /\ DocumentsMatch /\ NothingEarly /\ NothingSkipped /\ ClaimsHold
  BY DEF IInv
<1>2. TypeOK'
  BY <1>1, IntentsAssumption, IdOfMember DEF TypeOK, NothingSkipped, Labels, Resting, Intent, RewardDoc
<1>3. DocumentsMatch' /\ WritesInOrder' /\ KeysUnique'
  BY <1>1, NothingSaved DEF TypeOK, BeforeWrites
<1>4. NothingEarly'
  BY <1>1 DEF TypeOK, NothingEarly, BeforeWrites
<1>5. NothingSkipped'
  BY <1>1, IdOfMember DEF TypeOK, NothingSkipped, DocumentsMatch, Resting
<1>6. ClaimsHold'
  BY <1>1 DEF TypeOK, ClaimsHold, KeyUnavailable, WriteConflict, TransactionTaken, RedemptionTaken, KeyOf, Resting
<1>. QED
  BY <1>2, <1>3, <1>4, <1>5, <1>6 DEF IInv

\* The pre-flight check of a stamp reward: IInv is preserved.
LEMMA StampPreflightStep ==
  ASSUME IInv, NEW r \in Requests, StampPreflight(r)
  PROVE  IInv'
<1>. USE DEF StampPreflight, Refuse, Goto, collections, environment, locals
<1>1. TypeOK /\ DocumentsMatch /\ NothingEarly /\ NothingSkipped /\ ClaimsHold
  BY DEF IInv
<1>2. TypeOK'
  BY <1>1, IntentsAssumption, IdOfMember DEF TypeOK, NothingSkipped, Labels, Resting, Intent, RewardDoc
<1>3. DocumentsMatch' /\ WritesInOrder' /\ KeysUnique'
  BY <1>1, NothingSaved DEF TypeOK, BeforeWrites
<1>4. NothingEarly'
  BY <1>1 DEF TypeOK, NothingEarly, BeforeWrites
<1>5. NothingSkipped'
  BY <1>1, IdOfMember DEF TypeOK, NothingSkipped, DocumentsMatch, Resting
<1>6. ClaimsHold'
  BY <1>1 DEF TypeOK, ClaimsHold, KeyUnavailable, WriteConflict, TransactionTaken, RedemptionTaken, KeyOf, Resting
<1>. QED
  BY <1>2, <1>3, <1>4, <1>5, <1>6 DEF IInv

\* The stamp count of a points reward: IInv is preserved.
LEMMA ReadStampsStep ==
  ASSUME IInv, NEW r \in Requests, ReadStamps(r)
  PROVE  IInv'
<1>. USE DEF ReadStamps, Refuse, Goto, collections, environment, locals
<1>1. TypeOK /\ DocumentsMatch /\ NothingEarly /\ NothingSkipped /\ ClaimsHold
  BY DEF IInv
<1>2. TypeOK'
  BY <1>1, IntentsAssumption, IdOfMember DEF TypeOK, NothingSkipped, Labels, Resting, Intent, RewardDoc
<1>3. DocumentsMatch' /\ WritesInOrder' /\ KeysUnique'
  BY <1>1, NothingSaved DEF TypeOK, BeforeWrites
<1>4. NothingEarly'
  BY <1>1 DEF TypeOK, NothingEarly, BeforeWrites
<1>5. NothingSkipped'
  BY <1>1, IdOfMember DEF TypeOK, NothingSkipped, DocumentsMatch, Resting
<1>6. ClaimsHold'
  BY <1>1 DEF TypeOK, ClaimsHold, KeyUnavailable, WriteConflict, TransactionTaken, RedemptionTaken, KeyOf, Resting
<1>. QED
  BY <1>2, <1>3, <1>4, <1>5, <1>6 DEF IInv

\* The pre-flight check of a points reward: IInv is preserved.
LEMMA PointsPreflightStep ==
  ASSUME IInv, NEW r \in Requests, PointsPreflight(r)
  PROVE  IInv'
<1>. USE DEF PointsPreflight, Refuse, Goto, collections, environment, locals
<1>1. TypeOK /\ DocumentsMatch /\ NothingEarly /\ NothingSkipped /\ ClaimsHold
  BY DEF IInv
<1>2. TypeOK'
  BY <1>1, IntentsAssumption, IdOfMember DEF TypeOK, NothingSkipped, Labels, Resting, Intent, RewardDoc
<1>3. DocumentsMatch' /\ WritesInOrder' /\ KeysUnique'
  BY <1>1, NothingSaved DEF TypeOK, BeforeWrites
<1>4. NothingEarly'
  BY <1>1 DEF TypeOK, NothingEarly, BeforeWrites
<1>5. NothingSkipped'
  BY <1>1, IdOfMember DEF TypeOK, NothingSkipped, DocumentsMatch, Resting
<1>6. ClaimsHold'
  BY <1>1 DEF TypeOK, ClaimsHold, KeyUnavailable, WriteConflict, TransactionTaken, RedemptionTaken, KeyOf, Resting
<1>. QED
  BY <1>2, <1>3, <1>4, <1>5, <1>6 DEF IInv

\* The cached answer to hello: IInv is preserved.
LEMMA SupportsTransactionsStep ==
  ASSUME IInv, NEW r \in Requests, SupportsTransactions(r)
  PROVE  IInv'
<1>. USE DEF SupportsTransactions, Refuse, Goto, collections, environment, locals, Route
<1>1. TypeOK /\ DocumentsMatch /\ NothingEarly /\ NothingSkipped /\ ClaimsHold
  BY DEF IInv
<1>2. TypeOK'
  BY <1>1, IntentsAssumption, IdOfMember DEF TypeOK, NothingSkipped, Labels, Resting, Intent, RewardDoc
<1>3. DocumentsMatch' /\ WritesInOrder' /\ KeysUnique'
  BY <1>1, NothingSaved DEF TypeOK, BeforeWrites
<1>4. NothingEarly'
  BY <1>1 DEF TypeOK, NothingEarly, BeforeWrites
<1>5. NothingSkipped'
  BY <1>1, IdOfMember DEF TypeOK, NothingSkipped, DocumentsMatch, Resting
<1>6. ClaimsHold'
  BY <1>1 DEF TypeOK, ClaimsHold, KeyUnavailable, WriteConflict, TransactionTaken, RedemptionTaken, KeyOf, Resting
<1>. QED
  BY <1>2, <1>3, <1>4, <1>5, <1>6 DEF IInv

\* The answer to hello: IInv is preserved.
LEMMA HelloReplyStep ==
  ASSUME IInv, NEW r \in Requests, HelloReply(r)
  PROVE  IInv'
<1>. USE DEF HelloReply, Refuse, Goto, collections, environment, locals, Route
<1>1. TypeOK /\ DocumentsMatch /\ NothingEarly /\ NothingSkipped /\ ClaimsHold
  BY DEF IInv
<1>2. TypeOK'
  BY <1>1, IntentsAssumption, IdOfMember DEF TypeOK, NothingSkipped, Labels, Resting, Intent, RewardDoc
<1>3. DocumentsMatch' /\ WritesInOrder' /\ KeysUnique'
  BY <1>1, NothingSaved DEF TypeOK, BeforeWrites
<1>4. NothingEarly'
  BY <1>1 DEF TypeOK, NothingEarly, BeforeWrites
<1>5. NothingSkipped'
  BY <1>1, IdOfMember DEF TypeOK, NothingSkipped, DocumentsMatch, Resting
<1>6. ClaimsHold'
  BY <1>1 DEF TypeOK, ClaimsHold, KeyUnavailable, WriteConflict, TransactionTaken, RedemptionTaken, KeyOf, Resting
<1>. QED
  BY <1>2, <1>3, <1>4, <1>5, <1>6 DEF IInv

\* A session the server refuses: IInv is preserved.
LEMMA FallBackStep ==
  ASSUME IInv, NEW r \in Requests, FallBack(r)
  PROVE  IInv'
<1>. USE DEF FallBack, Refuse, Goto, collections, environment, locals, Route
<1>1. TypeOK /\ DocumentsMatch /\ NothingEarly /\ NothingSkipped /\ ClaimsHold
  BY DEF IInv
<1>2. TypeOK'
  BY <1>1, IntentsAssumption, IdOfMember DEF TypeOK, NothingSkipped, Labels, Resting, Intent, RewardDoc
<1>3. DocumentsMatch' /\ WritesInOrder' /\ KeysUnique'
  BY <1>1, NothingSaved DEF TypeOK, BeforeWrites
<1>4. NothingEarly'
  BY <1>1 DEF TypeOK, NothingEarly, BeforeWrites
<1>5. NothingSkipped'
  BY <1>1, IdOfMember DEF TypeOK, NothingSkipped, DocumentsMatch, Resting
<1>6. ClaimsHold'
  BY <1>1 DEF TypeOK, ClaimsHold, KeyUnavailable, WriteConflict, TransactionTaken, RedemptionTaken, KeyOf, Resting
<1>. QED
  BY <1>2, <1>3, <1>4, <1>5, <1>6 DEF IInv

\* The safety net: IInv is preserved.
LEMMA RecheckStep ==
  ASSUME IInv, NEW r \in Requests, Recheck(r)
  PROVE  IInv'
<1>. USE DEF Recheck, Refuse, Goto, collections, environment, locals
<1>1. TypeOK /\ DocumentsMatch /\ NothingEarly /\ NothingSkipped /\ ClaimsHold
  BY DEF IInv
<1>2. TypeOK'
  BY <1>1, IntentsAssumption, IdOfMember DEF TypeOK, NothingSkipped, Labels, Resting, Intent, RewardDoc
<1>3. DocumentsMatch' /\ WritesInOrder' /\ KeysUnique'
  BY <1>1, NothingSaved DEF TypeOK, BeforeWrites
<1>4. NothingEarly'
  BY <1>1 DEF TypeOK, NothingEarly, BeforeWrites
<1>5. NothingSkipped'
  BY <1>1, IdOfMember DEF TypeOK, NothingSkipped, DocumentsMatch, Resting
<1>6. ClaimsHold'
  BY <1>1 DEF TypeOK, ClaimsHold, KeyUnavailable, WriteConflict, TransactionTaken, RedemptionTaken, KeyOf, Resting
<1>. QED
  BY <1>2, <1>3, <1>4, <1>5, <1>6 DEF IInv

\* A session's first save: IInv is preserved.
LEMMA OpenTransactionStep ==
  ASSUME IInv, NEW r \in Requests, OpenTransaction(r)
  PROVE  IInv'
<1>. USE DEF OpenTransaction, Refuse, Goto, collections, environment, locals
<1>1. TypeOK /\ DocumentsMatch /\ NothingEarly /\ NothingSkipped /\ ClaimsHold
  BY DEF IInv
<1>2. TypeOK'
  BY <1>1, IntentsAssumption, IdOfMember DEF TypeOK, NothingSkipped, Labels, Resting, Intent, RewardDoc
<1>3. DocumentsMatch' /\ WritesInOrder' /\ KeysUnique'
  BY <1>1, NothingSaved DEF TypeOK, BeforeWrites
<1>4. NothingEarly'
  BY <1>1 DEF TypeOK, NothingEarly, BeforeWrites
<1>5. NothingSkipped'
  BY <1>1, IdOfMember DEF TypeOK, NothingSkipped, DocumentsMatch, Resting
<1>6. ClaimsHold'
  BY <1>1 DEF TypeOK, ClaimsHold, KeyUnavailable, WriteConflict, TransactionTaken, RedemptionTaken, KeyOf, Resting
<1>. QED
  BY <1>2, <1>3, <1>4, <1>5, <1>6 DEF IInv

\* appendEntry reads: IInv is preserved.
LEMMA AppendReadStep ==
  ASSUME IInv, NEW r \in Requests, AppendRead(r)
  PROVE  IInv'
<1>. USE DEF AppendRead, Refuse, Goto, collections, environment, locals
<1>1. TypeOK /\ DocumentsMatch /\ NothingEarly /\ NothingSkipped /\ ClaimsHold
  BY DEF IInv
<1>2. TypeOK'
  BY <1>1, IntentsAssumption, IdOfMember DEF TypeOK, NothingSkipped, Labels, Resting, Intent, RewardDoc
<1>3. DocumentsMatch' /\ WritesInOrder' /\ KeysUnique'
  BY <1>1, NothingSaved DEF TypeOK, BeforeWrites
<1>4. NothingEarly'
  BY <1>1 DEF TypeOK, NothingEarly, BeforeWrites
<1>5. NothingSkipped'
  BY <1>1, IdOfMember DEF TypeOK, NothingSkipped, DocumentsMatch, Resting
<1>6. ClaimsHold'
  BY <1>1 DEF TypeOK, ClaimsHold, KeyUnavailable, WriteConflict, TransactionTaken, RedemptionTaken, KeyOf, Resting
<1>. QED
  BY <1>2, <1>3, <1>4, <1>5, <1>6 DEF IInv

\* Fraud signals and milestones: IInv is preserved.
LEMMA TrackStep ==
  ASSUME IInv, NEW r \in Requests, Track(r)
  PROVE  IInv'
<1>. USE DEF Track, Refuse, Goto, collections, environment, locals, AfterIssue
<1>1. TypeOK /\ DocumentsMatch /\ NothingEarly /\ NothingSkipped /\ ClaimsHold
  BY DEF IInv
<1>2. TypeOK'
  BY <1>1, IntentsAssumption, IdOfMember DEF TypeOK, NothingSkipped, Labels, Resting, Intent, RewardDoc
<1>3. DocumentsMatch' /\ WritesInOrder' /\ KeysUnique'
  BY <1>1, NothingSaved DEF TypeOK, BeforeWrites
<1>4. NothingEarly'
  BY <1>1 DEF TypeOK, NothingEarly, BeforeWrites
<1>5. NothingSkipped'
  BY <1>1, IdOfMember DEF TypeOK, NothingSkipped, DocumentsMatch, Resting
<1>6. ClaimsHold'
  BY <1>1 DEF TypeOK, ClaimsHold, KeyUnavailable, WriteConflict, TransactionTaken, RedemptionTaken, KeyOf, Resting
<1>. QED
  BY <1>2, <1>3, <1>4, <1>5, <1>6 DEF IInv

\* The checks of adjustBalance: IInv is preserved.
LEMMA AdjustLookupStep ==
  ASSUME IInv, NEW r \in Requests, AdjustLookup(r)
  PROVE  IInv'
<1>. USE DEF AdjustLookup, Refuse, Goto, collections, environment, locals
<1>1. TypeOK /\ DocumentsMatch /\ NothingEarly /\ NothingSkipped /\ ClaimsHold
  BY DEF IInv
<1>2. TypeOK'
  BY <1>1, IntentsAssumption, IdOfMember DEF TypeOK, NothingSkipped, Labels, Resting, Intent, RewardDoc
<1>3. DocumentsMatch' /\ WritesInOrder' /\ KeysUnique'
  BY <1>1, NothingSaved DEF TypeOK, BeforeWrites
<1>4. NothingEarly'
  BY <1>1 DEF TypeOK, NothingEarly, BeforeWrites
<1>5. NothingSkipped'
  BY <1>1, IdOfMember DEF TypeOK, NothingSkipped, DocumentsMatch, Resting
<1>6. ClaimsHold'
  BY <1>1 DEF TypeOK, ClaimsHold, KeyUnavailable, WriteConflict, TransactionTaken, RedemptionTaken, KeyOf, Resting
<1>. QED
  BY <1>2, <1>3, <1>4, <1>5, <1>6 DEF IInv

\* The scan pipeline flags a stamp: IInv is preserved.
LEMMA MarkPurchaseStep ==
  ASSUME IInv, NEW r \in Requests, MarkPurchase(r)
  PROVE  IInv'
<1>. USE DEF MarkPurchase, Refuse, Goto, collections, environment, locals
<1>1. TypeOK /\ DocumentsMatch /\ NothingEarly /\ NothingSkipped /\ ClaimsHold
  BY DEF IInv
<1>2. TypeOK'
  BY <1>1, IntentsAssumption, IdOfMember DEF TypeOK, NothingSkipped, Labels, Resting, Intent, RewardDoc
<1>3. DocumentsMatch' /\ WritesInOrder' /\ KeysUnique'
  BY <1>1, NothingSaved DEF TypeOK, BeforeWrites
<1>4. NothingEarly'
  BY <1>1 DEF TypeOK, NothingEarly, BeforeWrites
<1>5. NothingSkipped'
  BY <1>1, IdOfMember DEF TypeOK, NothingSkipped, DocumentsMatch, Resting
<1>6. ClaimsHold'
  BY <1>1 DEF TypeOK, ClaimsHold, KeyUnavailable, WriteConflict, TransactionTaken, RedemptionTaken, KeyOf, Resting
<1>. QED
  BY <1>2, <1>3, <1>4, <1>5, <1>6 DEF IInv

\* A handler fails: IInv is preserved.
LEMMA FailStep ==
  ASSUME IInv, NEW r \in Requests, Fail(r)
  PROVE  IInv'
<1>. USE DEF Fail, Refuse, Goto, collections, environment, locals
<1>1. TypeOK /\ DocumentsMatch /\ NothingEarly /\ NothingSkipped /\ ClaimsHold
  BY DEF IInv
<1>2. TypeOK'
  BY <1>1, IntentsAssumption, IdOfMember DEF TypeOK, NothingSkipped, Labels, Resting, Intent, RewardDoc
<1>3. DocumentsMatch' /\ WritesInOrder' /\ KeysUnique'
  BY <1>1, NothingSaved DEF TypeOK, BeforeWrites
<1>4. NothingEarly'
  BY <1>1 DEF TypeOK, NothingEarly, BeforeWrites
<1>5. NothingSkipped'
  BY <1>1, IdOfMember DEF TypeOK, NothingSkipped, DocumentsMatch, Resting
<1>6. ClaimsHold'
  BY <1>1 DEF TypeOK, ClaimsHold, KeyUnavailable, WriteConflict, TransactionTaken, RedemptionTaken, KeyOf, Resting
<1>. QED
  BY <1>2, <1>3, <1>4, <1>5, <1>6 DEF IInv
-----------------------------------------------------------------------------
(* Steps that save documents *)

\* A commit publishes every document of a session: IInv is preserved.
LEMMA CommitTransactionStep ==
  ASSUME IInv, NEW r \in Requests, CommitTransaction(r)
  PROVE  IInv'
<1>. USE DEF CommitTransaction, Refuse, Goto, collections, environment, locals
<1>1. /\ TypeOK /\ DocumentsMatch /\ NothingEarly /\ NothingSkipped
      /\ WritesInOrder /\ KeysUnique /\ ClaimsHold
  BY DEF IInv
<1>2. TypeOK'
  <2>1. /\ pc' \in [Requests -> Labels]
        /\ result' \in [Requests -> Requests \cup {NoRequest}]
    BY <1>1 DEF TypeOK, Labels, Resting
  <2>2. /\ Ids(transactions') \cup Ids(redemptions') \subseteq Requests
        /\ Sources(ledger') \cup Sources(outbox') \subseteq Requests
        /\ Ids(transactions) \subseteq Ids(transactions')
    BY <1>1, IdsAdd, SourcesAdd, NameOfDocument DEF TypeOK
  <2>. QED
    BY <1>1, <2>1, <2>2 DEF TypeOK, Ids, Sources
<1>3. DocumentsMatch'
  BY <1>1, NameOfDocument, IdOfMember
  DEF TypeOK, DocumentsMatch, NothingEarly, BeforeWrites, TransactionOf, RedemptionOf, EntryOf, EventOf, KeyOf
<1>4. NothingEarly'
  BY <1>1, IdsAdd, SourcesAdd, NameOfDocument DEF TypeOK, NothingEarly, BeforeWrites
<1>5. NothingSkipped'
  BY <1>1, IdsAdd, SourcesAdd, NameOfDocument DEF TypeOK, NothingSkipped
<1>6. WritesInOrder'
  <2>1. /\ Sources(outbox') \subseteq Sources(ledger')
        /\ Sources(ledger') \subseteq Ids(transactions')
    <3>1. /\ Sources(outbox') = Sources(outbox) \cup {r}
          /\ Sources(ledger') = Sources(ledger) \cup {r}
      BY SourcesAdd, NameOfDocument
    <3>2. Ids(transactions') = Ids(transactions) \cup {r}
      BY IdsAdd, NameOfDocument
    <3>. QED
      BY <1>1, <3>1, <3>2 DEF WritesInOrder
  <2>2. /\ Ids(redemptions) \subseteq Ids(redemptions')
        /\ req[r].op = "REDEEM" => r \in Ids(redemptions')
    BY <1>1, IdsAdd, NameOfDocument DEF NothingSkipped
  <2>3. ASSUME NEW t \in transactions', t.op = "REDEEM"
        PROVE  t.id \in Ids(redemptions')
    <3>1. CASE t \in transactions
      BY <1>1, <2>2, <2>3, <3>1 DEF WritesInOrder
    <3>2. CASE t = TransactionOf(r)
      BY <2>2, <2>3, <3>2 DEF TransactionOf
    <3>. QED
      BY <3>1, <3>2
  <2>. QED
    BY <2>1, <2>3 DEF WritesInOrder, Ids, Sources
<1>7. KeysUnique'
  BY <1>1 DEF TypeOK, KeysUnique, ClaimsHold, KeyUnavailable, TransactionTaken, RedemptionTaken, TransactionOf, RedemptionOf, KeyOf
<1>8. ClaimsHold'
  BY <1>1 DEF TypeOK, ClaimsHold, NothingSkipped, KeyUnavailable, WriteConflict, TransactionTaken, RedemptionTaken, TransactionOf, RedemptionOf, KeyOf
<1>. QED
  BY <1>2, <1>3, <1>4, <1>5, <1>6, <1>7, <1>8 DEF IInv

\* A redemption is saved outside a session: IInv is preserved.
LEMMA SaveRedemptionStep ==
  ASSUME IInv, NEW r \in Requests, SaveRedemption(r)
  PROVE  IInv'
<1>. USE DEF SaveRedemption, Refuse, Goto, collections, environment, locals
<1>1. /\ TypeOK /\ DocumentsMatch /\ NothingEarly /\ NothingSkipped
      /\ WritesInOrder /\ KeysUnique /\ ClaimsHold
  BY DEF IInv
<1>2. TypeOK'
  <2>1. /\ pc' \in [Requests -> Labels]
        /\ result' \in [Requests -> Requests \cup {NoRequest}]
    BY <1>1 DEF TypeOK, Labels, Resting
  <2>2. /\ Ids(transactions') \cup Ids(redemptions') \subseteq Requests
        /\ Sources(ledger') \cup Sources(outbox') \subseteq Requests
        /\ Ids(transactions) \subseteq Ids(transactions')
    BY <1>1, IdsAdd, SourcesAdd, NameOfDocument DEF TypeOK
  <2>. QED
    BY <1>1, <2>1, <2>2 DEF TypeOK, Ids, Sources
<1>3. DocumentsMatch'
  BY <1>1, NameOfDocument, IdOfMember
  DEF TypeOK, DocumentsMatch, NothingEarly, BeforeWrites, TransactionOf, RedemptionOf, EntryOf, EventOf, KeyOf
<1>4. NothingEarly'
  BY <1>1, IdsAdd, SourcesAdd, NameOfDocument DEF TypeOK, NothingEarly, BeforeWrites
<1>5. NothingSkipped'
  BY <1>1, IdsAdd, SourcesAdd, NameOfDocument DEF TypeOK, NothingSkipped
<1>6. WritesInOrder'
  BY <1>1, IdsAdd, SourcesAdd, NameOfDocument DEF TypeOK, WritesInOrder, NothingSkipped, TransactionOf
<1>7. KeysUnique'
  BY <1>1 DEF TypeOK, KeysUnique, ClaimsHold, KeyUnavailable, TransactionTaken, RedemptionTaken, TransactionOf, RedemptionOf, KeyOf
<1>8. ClaimsHold'
  BY <1>1 DEF TypeOK, ClaimsHold, NothingSkipped, KeyUnavailable, WriteConflict, TransactionTaken, RedemptionTaken, TransactionOf, RedemptionOf, KeyOf
<1>. QED
  BY <1>2, <1>3, <1>4, <1>5, <1>6, <1>7, <1>8 DEF IInv

\* A transaction is saved outside a session: IInv is preserved.
LEMMA SaveTransactionStep ==
  ASSUME IInv, NEW r \in Requests, SaveTransaction(r)
  PROVE  IInv'
<1>. USE DEF SaveTransaction, Refuse, Goto, collections, environment, locals
<1>1. /\ TypeOK /\ DocumentsMatch /\ NothingEarly /\ NothingSkipped
      /\ WritesInOrder /\ KeysUnique /\ ClaimsHold
  BY DEF IInv
<1>2. TypeOK'
  <2>1. /\ pc' \in [Requests -> Labels]
        /\ result' \in [Requests -> Requests \cup {NoRequest}]
    BY <1>1 DEF TypeOK, Labels, Resting
  <2>2. /\ Ids(transactions') \cup Ids(redemptions') \subseteq Requests
        /\ Sources(ledger') \cup Sources(outbox') \subseteq Requests
        /\ Ids(transactions) \subseteq Ids(transactions')
    BY <1>1, IdsAdd, SourcesAdd, NameOfDocument DEF TypeOK
  <2>. QED
    BY <1>1, <2>1, <2>2 DEF TypeOK, Ids, Sources
<1>3. DocumentsMatch'
  BY <1>1, NameOfDocument, IdOfMember
  DEF TypeOK, DocumentsMatch, NothingEarly, BeforeWrites, TransactionOf, RedemptionOf, EntryOf, EventOf, KeyOf
<1>4. NothingEarly'
  BY <1>1, IdsAdd, SourcesAdd, NameOfDocument DEF TypeOK, NothingEarly, BeforeWrites
<1>5. NothingSkipped'
  BY <1>1, IdsAdd, SourcesAdd, NameOfDocument DEF TypeOK, NothingSkipped
<1>6. WritesInOrder'
  <2>1. /\ Sources(outbox') \subseteq Sources(ledger')
        /\ Sources(ledger') \subseteq Ids(transactions')
    BY <1>1, IdsAdd, SourcesAdd, NameOfDocument DEF WritesInOrder
  <2>2. /\ Ids(redemptions) \subseteq Ids(redemptions')
        /\ req[r].op = "REDEEM" => r \in Ids(redemptions')
    BY <1>1, IdsAdd, NameOfDocument DEF NothingSkipped
  <2>3. ASSUME NEW t \in transactions', t.op = "REDEEM"
        PROVE  t.id \in Ids(redemptions')
    <3>1. CASE t \in transactions
      BY <1>1, <2>2, <2>3, <3>1 DEF WritesInOrder
    <3>2. CASE t = TransactionOf(r)
      BY <2>2, <2>3, <3>2 DEF TransactionOf
    <3>. QED
      BY <3>1, <3>2
  <2>. QED
    BY <2>1, <2>3 DEF WritesInOrder, Ids, Sources
<1>7. KeysUnique'
  BY <1>1 DEF TypeOK, KeysUnique, ClaimsHold, KeyUnavailable, TransactionTaken, RedemptionTaken, TransactionOf, RedemptionOf, KeyOf
<1>8. ClaimsHold'
  BY <1>1 DEF TypeOK, ClaimsHold, NothingSkipped, KeyUnavailable, WriteConflict, TransactionTaken, RedemptionTaken, TransactionOf, RedemptionOf, KeyOf
<1>. QED
  BY <1>2, <1>3, <1>4, <1>5, <1>6, <1>7, <1>8 DEF IInv

\* A ledger entry is inserted outside a session: IInv is preserved.
LEMMA AppendInsertStep ==
  ASSUME IInv, NEW r \in Requests, AppendInsert(r)
  PROVE  IInv'
<1>. USE DEF AppendInsert, Refuse, Goto, collections, environment, locals
<1>1. /\ TypeOK /\ DocumentsMatch /\ NothingEarly /\ NothingSkipped
      /\ WritesInOrder /\ KeysUnique /\ ClaimsHold
  BY DEF IInv
<1>2. TypeOK'
  <2>1. /\ pc' \in [Requests -> Labels]
        /\ result' \in [Requests -> Requests \cup {NoRequest}]
    BY <1>1 DEF TypeOK, Labels, Resting
  <2>2. /\ Ids(transactions') \cup Ids(redemptions') \subseteq Requests
        /\ Sources(ledger') \cup Sources(outbox') \subseteq Requests
        /\ Ids(transactions) \subseteq Ids(transactions')
    BY <1>1, IdsAdd, SourcesAdd, NameOfDocument DEF TypeOK
  <2>. QED
    BY <1>1, <2>1, <2>2 DEF TypeOK, Ids, Sources
<1>3. DocumentsMatch'
  BY <1>1, NameOfDocument, IdOfMember
  DEF TypeOK, DocumentsMatch, NothingEarly, BeforeWrites, TransactionOf, RedemptionOf, EntryOf, EventOf, KeyOf
<1>4. NothingEarly'
  BY <1>1, IdsAdd, SourcesAdd, NameOfDocument DEF TypeOK, NothingEarly, BeforeWrites
<1>5. NothingSkipped'
  BY <1>1, IdsAdd, SourcesAdd, NameOfDocument DEF TypeOK, NothingSkipped
<1>6. WritesInOrder'
  BY <1>1, IdsAdd, SourcesAdd, NameOfDocument DEF TypeOK, WritesInOrder, NothingSkipped, TransactionOf
<1>7. KeysUnique'
  BY <1>1 DEF TypeOK, KeysUnique, ClaimsHold, KeyUnavailable, TransactionTaken, RedemptionTaken, TransactionOf, RedemptionOf, KeyOf
<1>8. ClaimsHold'
  BY <1>1 DEF TypeOK, ClaimsHold, NothingSkipped, KeyUnavailable, WriteConflict, TransactionTaken, RedemptionTaken, TransactionOf, RedemptionOf, KeyOf
<1>. QED
  BY <1>2, <1>3, <1>4, <1>5, <1>6, <1>7, <1>8 DEF IInv

\* An event is written outside a session: IInv is preserved.
LEMMA WriteEventStep ==
  ASSUME IInv, NEW r \in Requests, WriteEvent(r)
  PROVE  IInv'
<1>. USE DEF WriteEvent, Refuse, Goto, collections, environment, locals
<1>1. /\ TypeOK /\ DocumentsMatch /\ NothingEarly /\ NothingSkipped
      /\ WritesInOrder /\ KeysUnique /\ ClaimsHold
  BY DEF IInv
<1>2. TypeOK'
  <2>1. /\ pc' \in [Requests -> Labels]
        /\ result' \in [Requests -> Requests \cup {NoRequest}]
    BY <1>1 DEF TypeOK, Labels, Resting
  <2>2. /\ Ids(transactions') \cup Ids(redemptions') \subseteq Requests
        /\ Sources(ledger') \cup Sources(outbox') \subseteq Requests
        /\ Ids(transactions) \subseteq Ids(transactions')
    BY <1>1, IdsAdd, SourcesAdd, NameOfDocument DEF TypeOK
  <2>. QED
    BY <1>1, <2>1, <2>2 DEF TypeOK, Ids, Sources
<1>3. DocumentsMatch'
  BY <1>1, NameOfDocument, IdOfMember
  DEF TypeOK, DocumentsMatch, NothingEarly, BeforeWrites, TransactionOf, RedemptionOf, EntryOf, EventOf, KeyOf
<1>4. NothingEarly'
  BY <1>1, IdsAdd, SourcesAdd, NameOfDocument DEF TypeOK, NothingEarly, BeforeWrites
<1>5. NothingSkipped'
  BY <1>1, IdsAdd, SourcesAdd, NameOfDocument DEF TypeOK, NothingSkipped
<1>6. WritesInOrder'
  BY <1>1, IdsAdd, SourcesAdd, NameOfDocument DEF TypeOK, WritesInOrder, NothingSkipped, TransactionOf
<1>7. KeysUnique'
  BY <1>1 DEF TypeOK, KeysUnique, ClaimsHold, KeyUnavailable, TransactionTaken, RedemptionTaken, TransactionOf, RedemptionOf, KeyOf
<1>8. ClaimsHold'
  BY <1>1 DEF TypeOK, ClaimsHold, NothingSkipped, KeyUnavailable, WriteConflict, TransactionTaken, RedemptionTaken, TransactionOf, RedemptionOf, KeyOf
<1>. QED
  BY <1>2, <1>3, <1>4, <1>5, <1>6, <1>7, <1>8 DEF IInv

-----------------------------------------------------------------------------
(* The invariant, and what follows from it *)

\* A restart only fails the requests in flight.
LEMMA RestartStep ==
  ASSUME IInv, Restart
  PROVE  IInv'
<1>. USE DEF Restart, collections, environment, locals
<1>1. /\ TypeOK /\ DocumentsMatch /\ NothingEarly /\ NothingSkipped
      /\ WritesInOrder /\ KeysUnique /\ ClaimsHold
  BY DEF IInv
<1>2. TypeOK'
  BY <1>1 DEF TypeOK, Labels, Resting
<1>3. DocumentsMatch' /\ WritesInOrder' /\ KeysUnique'
  BY <1>1 DEF DocumentsMatch, WritesInOrder, KeysUnique, TransactionOf, RedemptionOf, EntryOf, EventOf, KeyOf
<1>4. NothingEarly' /\ NothingSkipped' /\ ClaimsHold'
  BY <1>1 DEF TypeOK, NothingEarly, NothingSkipped, ClaimsHold, BeforeWrites, Resting
<1>. QED
  BY <1>2, <1>3, <1>4 DEF IInv

\* IInv is inductive: every step of the system preserves it.
LEMMA NextInvariant == IInv /\ [Next]_vars => IInv'
<1>. SUFFICES ASSUME IInv, [Next]_vars PROVE IInv'
  OBVIOUS
<1>1. CASE Restart
  BY <1>1, RestartStep
<1>2. ASSUME NEW r \in Requests, Start(r) \/ Serve(r) \/ Fail(r)
      PROVE  IInv'
  BY <1>2, StartStep, IssueLookupStep, RedeemLookupStep, RedeemRewardStep,
     StampPreflightStep, ReadStampsStep, PointsPreflightStep, SupportsTransactionsStep,
     HelloReplyStep, RecheckStep, OpenTransactionStep, CommitTransactionStep, FallBackStep,
     SaveRedemptionStep, SaveTransactionStep, AppendReadStep, AppendInsertStep,
     WriteEventStep, TrackStep, MarkPurchaseStep, AdjustLookupStep, FailStep
  DEF Serve
<1>3. CASE UNCHANGED vars
  BY <1>3 DEF vars, collections, environment, locals, IInv, TypeOK, DocumentsMatch,
     NothingEarly, NothingSkipped, WritesInOrder, KeysUnique, ClaimsHold,
     KeyUnavailable, TransactionTaken, WriteConflict, RedemptionTaken,
     TransactionOf, RedemptionOf, EntryOf, EventOf, KeyOf
<1>. QED
  BY <1>1, <1>2, <1>3 DEF Next

\* The inductive invariant holds in every reachable state.
THEOREM Invariance == Spec => []IInv
  BY InitInvariant, NextInvariant, PTL DEF Spec

\* The collections and the request bookkeeping keep their types.
THEOREM TypeCorrect == Spec => []TypeOK
<1>1. IInv => TypeOK
  BY DEF IInv
<1>. QED
  BY <1>1, Invariance, PTL

\* With sessions, without, or with some of each: the saves of a handler appear
\* in the handler's order.
THEOREM SavesInOrder == Spec => []WritesInOrder
<1>1. IInv => WritesInOrder
  BY DEF IInv
<1>. QED
  BY <1>1, Invariance, PTL

\* In every deployment, and however retries, failures and restarts overlap, an
\* idempotency key has at most one ledger entry and one redemption.
THEOREM OneEffect == Spec => []OneEffectPerKey
<1>1. IInv => OneEffectPerKey
  <2>. SUFFICES ASSUME IInv PROVE OneEffectPerKey
    OBVIOUS
  <2>1. TypeOK /\ DocumentsMatch /\ WritesInOrder /\ KeysUnique
    BY DEF IInv
  <2>2. ASSUME NEW e \in ledger
        PROVE  \E t \in transactions : t.id = e.tx /\ t.op = e.op /\ t.key = e.key
    <3>1. e.tx \in Ids(transactions)
      BY <2>1, IdOfMember DEF WritesInOrder
    <3>2. PICK t \in transactions : t.id = e.tx
      BY <3>1 DEF Ids
    <3>. QED
      BY <2>1, <3>2 DEF DocumentsMatch, TransactionOf, EntryOf
  <2>3. ASSUME NEW e \in ledger, NEW f \in ledger, e.op = f.op, e.key = f.key
        PROVE  e = f
    <3>1. e.tx = f.tx
      BY <2>1, <2>2, <2>3 DEF KeysUnique
    <3>. QED
      BY <2>1, <3>1 DEF DocumentsMatch
  <2>. QED
    BY <2>1, <2>3 DEF OneEffectPerKey, KeysUnique
<1>. QED
  BY <1>1, Invariance, PTL

-----------------------------------------------------------------------------
(* What sessions add: where MongoDB is a replica set and no `hello' command *)
(* fails, SessionInv is inductive relative to IInv, and with it atomicity   *)
(* and "an answered request is posted" hold, and the handlers implement     *)
(* LedgerPromise step by step.                                              *)

Sessions == ReplicaSet /\ ~HelloFails

\* SessionInv holds in the initial states.
LEMMA InitSession == Init => SessionInv
  BY DEF Init, SessionInv, SessionsOnly, AllOrNothing, PostedBeforeAnswer, Ids, Sources, Customary

\* Adding a document of an issue or a redemption adds it to those documents.
LEMMA CustomaryAdd ==
  ASSUME NEW S, NEW x, x.op # "ADJUSTMENT"
  PROVE  Customary(S \cup {x}) = Customary(S) \cup {x}
  BY DEF Customary

\* Documents carry the operation of their request.
LEMMA OpOfDocument == \A r : EntryOf(r).op = req[r].op /\ TransactionOf(r).op = req[r].op
  BY DEF EntryOf, TransactionOf

\* A request that is answered by somebody else's transaction finds that
\* transaction's ledger entry, under its own operation and key.
LEMMA ReplayIsPosted ==
  ASSUME IInv, AllOrNothing, NEW t \in transactions, t.op # "ADJUSTMENT"
  PROVE  \E e \in ledger : e.tx = t.id /\ e.op = t.op /\ e.key = t.key
<1>1. TypeOK /\ DocumentsMatch
  BY DEF IInv
<1>2. t.id \in Sources(Customary(ledger))
  BY DEF AllOrNothing, Ids, Customary
<1>3. PICK e \in ledger : e.tx = t.id
  BY <1>2 DEF Sources, Customary
<1>. QED
  BY <1>1, <1>3 DEF DocumentsMatch, TransactionOf, EntryOf

\* The steps that save nothing and answer nobody anew keep SessionInv.
LEMMA QuietSession ==
  ASSUME Sessions, IInv, SessionInv, NEW r \in Requests,
         \/ Start(r) \/ RedeemReward(r) \/ StampPreflight(r) \/ ReadStamps(r)
         \/ PointsPreflight(r) \/ SupportsTransactions(r) \/ HelloReply(r) \/ FallBack(r)
         \/ Recheck(r) \/ OpenTransaction(r) \/ AppendRead(r) \/ Track(r) \/ AdjustLookup(r)
         \/ MarkPurchase(r) \/ Fail(r)
  PROVE  SessionInv'
<1>. USE DEF Refuse, Goto, collections, environment, locals
<1>1. /\ TypeOK /\ NothingSkipped
      /\ SessionsOnly /\ AllOrNothing /\ PostedBeforeAnswer
  BY DEF IInv, SessionInv
<1>2. UNCHANGED <<transactions, ledger, redemptions, outbox, result>>
  BY DEF Start, RedeemReward, StampPreflight, ReadStamps, PointsPreflight,
         SupportsTransactions, HelloReply, FallBack, Recheck, OpenTransaction, AppendRead, Track,
         AdjustLookup, MarkPurchase, Fail
<1>3. AllOrNothing'
  BY <1>1, <1>2 DEF AllOrNothing
<1>4. SessionsOnly' /\ PostedBeforeAnswer'
  <2>1. CASE Start(r)
    BY <1>1, <1>2, <2>1
    DEF Start, TypeOK, NothingSkipped, SessionsOnly, PostedBeforeAnswer,
        KeyOf, Resting
  <2>2. CASE RedeemReward(r)
    BY <1>1, <1>2, <2>2
    DEF RedeemReward, TypeOK, NothingSkipped, SessionsOnly, PostedBeforeAnswer,
        KeyOf, Resting
  <2>3. CASE StampPreflight(r)
    BY <1>1, <1>2, <2>3
    DEF StampPreflight, TypeOK, NothingSkipped, SessionsOnly, PostedBeforeAnswer,
        KeyOf, Resting
  <2>4. CASE ReadStamps(r)
    BY <1>1, <1>2, <2>4
    DEF ReadStamps, TypeOK, NothingSkipped, SessionsOnly, PostedBeforeAnswer,
        KeyOf, Resting
  <2>5. CASE PointsPreflight(r)
    BY <1>1, <1>2, <2>5
    DEF PointsPreflight, TypeOK, NothingSkipped, SessionsOnly, PostedBeforeAnswer,
        KeyOf, Resting
  <2>6. CASE SupportsTransactions(r)
    BY <1>1, <1>2, <2>6
    DEF SupportsTransactions, Route, TypeOK, NothingSkipped, SessionsOnly, PostedBeforeAnswer,
        KeyOf, Resting
  <2>7. CASE HelloReply(r)
    BY <1>1, <1>2, <2>7
    DEF HelloReply, Route, Sessions, TypeOK, NothingSkipped, SessionsOnly, PostedBeforeAnswer,
        KeyOf, Resting
  <2>8. CASE Recheck(r)
    BY <1>1, <1>2, <2>8
    DEF Recheck, TypeOK, NothingSkipped, SessionsOnly, PostedBeforeAnswer,
        KeyOf, Resting
  <2>9. CASE OpenTransaction(r)
    BY <1>1, <1>2, <2>9
    DEF OpenTransaction, TypeOK, NothingSkipped, SessionsOnly, PostedBeforeAnswer,
        KeyOf, Resting
  <2>10. CASE AppendRead(r)
    BY <1>1, <1>2, <2>10
    DEF AppendRead, TypeOK, NothingSkipped, SessionsOnly, PostedBeforeAnswer,
        KeyOf, Resting
  <2>11. CASE Track(r)
    BY <1>1, <1>2, <2>11
    DEF Track, AfterIssue, TypeOK, NothingSkipped, SessionsOnly, PostedBeforeAnswer,
        KeyOf, Resting
  <2>12. CASE AdjustLookup(r)
    BY <1>1, <1>2, <2>12
    DEF AdjustLookup, TypeOK, NothingSkipped, SessionsOnly, PostedBeforeAnswer,
        KeyOf, Resting
  <2>13. CASE MarkPurchase(r)
    BY <1>1, <1>2, <2>13
    DEF MarkPurchase, TypeOK, NothingSkipped, SessionsOnly, PostedBeforeAnswer,
        KeyOf, Resting
  <2>14. CASE Fail(r)
    BY <1>1, <1>2, <2>14
    DEF Fail, TypeOK, NothingSkipped, SessionsOnly, PostedBeforeAnswer,
        KeyOf, Resting
  <2>15. CASE FallBack(r)
    BY <2>15 DEF FallBack, Sessions
  <2>. QED
    BY <2>1, <2>2, <2>3, <2>4, <2>5, <2>6, <2>7, <2>8, <2>9, <2>10, <2>11, <2>12, <2>13, <2>14, <2>15
<1>. QED
  BY <1>3, <1>4 DEF SessionInv

\* A replay of an issue or a redemption keeps SessionInv.
LEMMA ReplaySession ==
  ASSUME IInv, SessionInv, NEW r \in Requests, IssueLookup(r) \/ RedeemLookup(r)
  PROVE  SessionInv'
<1>. USE DEF Refuse, Goto, collections, environment, locals
<1>1. /\ TypeOK /\ DocumentsMatch
      /\ SessionsOnly /\ AllOrNothing /\ PostedBeforeAnswer
  BY DEF IInv, SessionInv
<1>2. /\ UNCHANGED <<transactions, ledger, redemptions, outbox, txnSupport, req>>
      /\ \A s \in Requests \ {r} : pc'[s] = pc[s] /\ result'[s] = result[s]
      /\ pc'[r] \in {"failed", "done", "mark", "mode", "reward"}
  BY <1>1 DEF IssueLookup, RedeemLookup, AfterIssue, TypeOK
<1>3. SessionsOnly' /\ AllOrNothing'
  BY <1>1, <1>2 DEF SessionsOnly, AllOrNothing
<1>4. pc'[r] \in {"done", "mark"} =>
        \E e \in ledger : e.tx = result'[r] /\ e.op = req[r].op /\ e.key = KeyOf(r)
  <2>1. CASE IssueLookup(r)
    <3>1. SUFFICES ASSUME NEW t \in transactions, t.op = "ISSUE", t.key = req[r].key,
                          result' = [result EXCEPT ![r] = t.id], req[r].op = "ISSUE"
                   PROVE  \E e \in ledger :
                            e.tx = result'[r] /\ e.op = req[r].op /\ e.key = KeyOf(r)
      BY <1>1, <2>1 DEF IssueLookup, TypeOK
    <3>. QED
      BY <1>1, <3>1, ReplayIsPosted DEF TypeOK, KeyOf
  <2>2. CASE RedeemLookup(r)
    <3>1. SUFFICES ASSUME NEW d \in redemptions, d.key = req[r].key,
                          result' = [result EXCEPT ![r] = d.id], req[r].op = "REDEEM"
                   PROVE  \E e \in ledger :
                            e.tx = result'[r] /\ e.op = req[r].op /\ e.key = KeyOf(r)
      BY <1>1, <2>2 DEF RedeemLookup, TypeOK
    <3>2. PICK t \in transactions : t.op = "REDEEM" /\ t.id = d.id
      BY <1>1 DEF AllOrNothing, Ids
    <3>3. t.key = d.key
      BY <1>1, <3>2 DEF DocumentsMatch, TransactionOf, RedemptionOf, KeyOf
    <3>. QED
      BY <1>1, <3>1, <3>2, <3>3, ReplayIsPosted DEF TypeOK, KeyOf
  <2>. QED
    BY <2>1, <2>2
<1>5. PostedBeforeAnswer'
  BY <1>1, <1>2, <1>4 DEF PostedBeforeAnswer, KeyOf
<1>. QED
  BY <1>3, <1>5 DEF SessionInv

\* A commit publishes all documents of a request at once.
LEMMA CommitSession ==
  ASSUME IInv, SessionInv, NEW r \in Requests, CommitTransaction(r)
  PROVE  SessionInv'
<1>. USE DEF CommitTransaction, Goto, environment
<1>1. /\ TypeOK /\ NothingSkipped
      /\ SessionsOnly /\ AllOrNothing /\ PostedBeforeAnswer
  BY DEF IInv, SessionInv
<1>2. req[r].op # "ADJUSTMENT"
  BY <1>1 DEF NothingSkipped
<1>3. AllOrNothing'
  <2>1. Sources(Customary(ledger')) = Sources(Customary(ledger)) \cup {r}
    BY <1>2, CustomaryAdd, SourcesAdd, OpOfDocument, NameOfDocument
  <2>2. Sources(outbox') = Sources(outbox) \cup {r}
    BY SourcesAdd, NameOfDocument
  <2>3. Ids(Customary(transactions')) = Ids(Customary(transactions)) \cup {r}
    BY <1>2, CustomaryAdd, IdsAdd, OpOfDocument, NameOfDocument
  <2>4. Ids(redemptions') = {t.id : t \in {u \in transactions' : u.op = "REDEEM"}}
    <3> DEFINE Debits(S) == {u \in S : u.op = "REDEEM"}
    <3>1. CASE req[r].op = "REDEEM"
      <4>1. Debits(transactions') = Debits(transactions) \cup {TransactionOf(r)}
        BY <3>1, OpOfDocument
      <4>2. Ids(Debits(transactions')) = Ids(Debits(transactions)) \cup {r}
        BY <4>1, IdsAdd, NameOfDocument
      <4>3. Ids(redemptions') = Ids(redemptions) \cup {r}
        BY <3>1, IdsAdd, NameOfDocument
      <4>. QED
        BY <1>1, <4>2, <4>3 DEF AllOrNothing, Ids
    <3>2. CASE req[r].op # "REDEEM"
      <4>1. Debits(transactions') = Debits(transactions) /\ redemptions' = redemptions
        BY <3>2, OpOfDocument
      <4>. QED
        BY <1>1, <4>1 DEF AllOrNothing
    <3>. QED
      BY <3>1, <3>2
  <2>. QED
    BY <1>1, <2>1, <2>2, <2>3, <2>4 DEF AllOrNothing
<1>4. SessionsOnly'
  BY <1>1 DEF TypeOK, SessionsOnly
<1>5. PostedBeforeAnswer'
  <2>1. EntryOf(r).tx = r /\ EntryOf(r).op = req[r].op /\ EntryOf(r).key = KeyOf(r)
    BY DEF EntryOf
  <2>2. EntryOf(r) \in ledger' /\ ledger \subseteq ledger'
    OBVIOUS
  <2>. QED
    BY <1>1, <2>1, <2>2 DEF TypeOK, PostedBeforeAnswer, KeyOf
<1>. QED
  BY <1>3, <1>4, <1>5 DEF SessionInv

\* Where every handler has a session, only adjustments save one by one.
LEMMA PlainSession ==
  ASSUME IInv, SessionInv, NEW r \in Requests,
         SaveRedemption(r) \/ SaveTransaction(r) \/ AppendInsert(r) \/ WriteEvent(r)
  PROVE  SessionInv'
<1>. USE DEF Refuse, Goto, collections, environment, locals
<1>1. TypeOK /\ SessionsOnly /\ AllOrNothing /\ PostedBeforeAnswer
  BY DEF IInv, SessionInv
<1>2. ~SaveRedemption(r) /\ ~WriteEvent(r)
  BY <1>1 DEF SessionsOnly, SaveRedemption, WriteEvent
<1>3. CASE SaveTransaction(r)
  <2>1. req[r].op = "ADJUSTMENT"
    BY <1>1, <1>3 DEF SaveTransaction, SessionsOnly
  <2>2. /\ Ids(Customary(transactions')) = Ids(Customary(transactions))
        /\ {t \in transactions' : t.op = "REDEEM"} = {t \in transactions : t.op = "REDEEM"}
        /\ UNCHANGED <<ledger, redemptions, outbox>>
    BY <1>3, <2>1 DEF SaveTransaction, Ids, Customary, TransactionOf
  <2>3. AllOrNothing'
    BY <1>1, <2>2 DEF AllOrNothing
  <2>4. SessionsOnly' /\ PostedBeforeAnswer'
    BY <1>1, <1>3, <2>1 DEF SaveTransaction, TypeOK, SessionsOnly, PostedBeforeAnswer, KeyOf
  <2>. QED
    BY <2>3, <2>4 DEF SessionInv
<1>4. CASE AppendInsert(r)
  <2>1. req[r].op = "ADJUSTMENT"
    BY <1>1, <1>4 DEF AppendInsert, SessionsOnly
  <2>2. /\ Sources(Customary(ledger')) = Sources(Customary(ledger))
        /\ UNCHANGED <<transactions, redemptions, outbox>>
    BY <1>4, <2>1 DEF AppendInsert, Sources, Customary, EntryOf
  <2>3. AllOrNothing'
    BY <1>1, <2>2 DEF AllOrNothing
  <2>4. SessionsOnly'
    BY <1>1, <1>4, <2>1 DEF AppendInsert, TypeOK, SessionsOnly
  <2>5. PostedBeforeAnswer'
    <3>1. EntryOf(r).tx = r /\ EntryOf(r).op = req[r].op /\ EntryOf(r).key = KeyOf(r)
      BY DEF EntryOf
    <3>2. EntryOf(r) \in ledger' /\ ledger \subseteq ledger'
      BY <1>4 DEF AppendInsert
    <3>. QED
      BY <1>1, <1>4, <3>1, <3>2 DEF AppendInsert, TypeOK, PostedBeforeAnswer, KeyOf
  <2>. QED
    BY <2>3, <2>4, <2>5 DEF SessionInv
<1>. QED
  BY <1>2, <1>3, <1>4

\* SessionInv is inductive relative to IInv.
LEMMA NextSession ==
  ASSUME Sessions
  PROVE  IInv /\ SessionInv /\ [Next]_vars => SessionInv'
<1>. SUFFICES ASSUME IInv, SessionInv, [Next]_vars PROVE SessionInv'
  OBVIOUS
<1>1. CASE Restart
  BY <1>1 DEF Restart, Resting, collections, environment, locals, IInv, TypeOK,
     SessionInv, SessionsOnly, AllOrNothing, PostedBeforeAnswer, KeyOf
<1>2. ASSUME NEW r \in Requests, Start(r) \/ Serve(r) \/ Fail(r)
      PROVE  SessionInv'
  BY <1>2, QuietSession, ReplaySession, CommitSession, PlainSession DEF Serve
<1>3. CASE UNCHANGED vars
  BY <1>3 DEF vars, collections, environment, locals, SessionInv, SessionsOnly,
     AllOrNothing, PostedBeforeAnswer, KeyOf
<1>. QED
  BY <1>1, <1>2, <1>3 DEF Next

\* With sessions, a transaction, its ledger entry, its outbox event and its
\* redemption exist together or not at all, for any number of requests.
THEOREM Atomicity ==
  ASSUME Sessions
  PROVE  Spec => []AllOrNothing
<1>1. SessionInv => AllOrNothing
  BY DEF SessionInv
<1>. QED
  BY <1>1, InitSession, NextSession, Invariance, PTL DEF Spec

\* With sessions, a success that a client was told of - by the first request or
\* by a retry - is in the ledger.
THEOREM Answered ==
  ASSUME Sessions
  PROVE  Spec => []AnsweredIsPosted
<1>1. SessionInv => AnsweredIsPosted
  BY DEF SessionInv, PostedBeforeAnswer, AnsweredIsPosted
<1>. QED
  BY <1>1, InitSession, NextSession, Invariance, PTL DEF Spec

-----------------------------------------------------------------------------
(* The promise.  A commit, and the entry of an adjustment, post; an answer  *)
(* tells of what is posted; nothing else is seen of the handlers.           *)

\* Amounts come from the request or from the catalogue, which stays as it is.
LEMMA AmountsInit == Init => AmountsAsked
  BY DEF Init, AmountsAsked, Resting

\* Every step posts the amount it was asked for.
LEMMA AmountsNext == IInv /\ AmountsAsked /\ [Next]_vars => AmountsAsked'
<1>. SUFFICES ASSUME IInv, AmountsAsked, [Next]_vars PROVE AmountsAsked'
  OBVIOUS
<1>. USE DEF AmountsAsked, Refuse, Goto, collections, environment, locals, Resting
<1>1. TypeOK
  BY DEF IInv
<1>2. CASE Restart
  BY <1>2 DEF Restart
<1>3. ASSUME NEW r \in Requests, Start(r) \/ Fail(r)
      PROVE  AmountsAsked'
  BY <1>1, <1>3 DEF Start, Fail, TypeOK
<1>4. ASSUME NEW r \in Requests, Serve(r)
      PROVE  AmountsAsked'
  <2>1. CASE IssueLookup(r)
    BY <1>1, <2>1 DEF IssueLookup, AfterIssue, TypeOK, Amounts
  <2>2. CASE RedeemLookup(r)
    BY <1>1, <2>2 DEF RedeemLookup, TypeOK
  <2>3. CASE RedeemReward(r)
    <3>1. req[r].reward \in Rewards
      BY <1>1, IntentsAssumption DEF TypeOK, Intent
    <3>. QED
      BY <1>1, <2>3, <3>1 DEF RedeemReward, TypeOK, Amounts
  <2>4. CASE AdjustLookup(r)
    BY <1>1, <2>4 DEF AdjustLookup, TypeOK, Amounts
  <2>5. CASE \/ StampPreflight(r) \/ ReadStamps(r) \/ PointsPreflight(r)
             \/ SupportsTransactions(r) \/ HelloReply(r) \/ FallBack(r) \/ Recheck(r)
    BY <1>1, <2>5 DEF StampPreflight, ReadStamps, PointsPreflight, SupportsTransactions,
                      HelloReply, FallBack, Route, Recheck, TypeOK
  <2>6. CASE \/ OpenTransaction(r) \/ CommitTransaction(r) \/ SaveRedemption(r)
             \/ SaveTransaction(r) \/ AppendRead(r) \/ AppendInsert(r) \/ WriteEvent(r)
    BY <1>1, <2>6 DEF OpenTransaction, CommitTransaction, SaveRedemption, SaveTransaction,
                      AppendRead, AppendInsert, WriteEvent, TypeOK
  <2>7. CASE Track(r) \/ MarkPurchase(r)
    BY <1>1, <2>7 DEF Track, AfterIssue, MarkPurchase, TypeOK
  <2>. QED
    BY <1>4, <2>1, <2>2, <2>3, <2>4, <2>5, <2>6, <2>7 DEF Serve
<1>5. CASE UNCHANGED vars
  BY <1>5 DEF vars
<1>. QED
  BY <1>2, <1>3, <1>4, <1>5 DEF Next

\* What r posts is a posting clients may ask for, whose key nobody has posted.
LEMMA FreshPosting ==
  ASSUME IInv, AmountsAsked, NEW r \in Requests,
         pc[r] = "commit" \/ (pc[r] = "insert" /\ req[r].op = "ADJUSTMENT"),
         NEW p, p = Posting(EntryOf(r))
  PROVE  /\ p \in [op : Ops, key : Keys \cup Requests, cust : Customers, amount : Amounts]
         /\ p.op = req[r].op /\ p.key = KeyOf(r)
         /\ \A q \in Posted : ~Promise!SameKey(p, q)
<1>1. /\ TypeOK /\ DocumentsMatch /\ NothingEarly /\ WritesInOrder /\ ClaimsHold
      /\ amt[r] \in Amounts
  BY DEF IInv, AmountsAsked, Resting
<1>2. p = [op |-> req[r].op, key |-> KeyOf(r), cust |-> req[r].cust, amount |-> amt[r]]
  BY DEF Posting, EntryOf
<1>3. p \in [op : Ops, key : Keys \cup Requests, cust : Customers, amount : Amounts]
  BY <1>1, <1>2, IntentsAssumption DEF TypeOK, Intent, KeyOf
<1>4. ASSUME NEW q \in Posted, q.op = p.op, q.key = p.key
      PROVE  FALSE
  <2>1. PICK e \in ledger : q = Posting(e)
    BY DEF Posted
  <2>2. e.op = req[r].op /\ e.key = KeyOf(r) /\ e.tx \in Requests
    BY <1>1, <1>2, <1>4, <2>1 DEF Posting, TypeOK, Sources
  <2>3. e.op = req[e.tx].op /\ e.key = KeyOf(e.tx)
    BY <1>1 DEF DocumentsMatch, EntryOf
  <2>4. PICK t \in transactions : t.id = e.tx
    BY <1>1 DEF WritesInOrder, Sources, Ids
  <2>5. t.op = req[r].op /\ t.key = KeyOf(r)
    BY <1>1, <2>2, <2>3, <2>4 DEF DocumentsMatch, TransactionOf
  <2>6. CASE pc[r] = "commit"
    BY <1>1, <2>5, <2>6 DEF ClaimsHold, KeyUnavailable, TransactionTaken
  <2>7. CASE pc[r] = "insert" /\ req[r].op = "ADJUSTMENT"
    <3>1. e.tx = r
      BY <2>2, <2>3, <2>7 DEF KeyOf
    <3>. QED
      BY <1>1, <2>7, <3>1 DEF NothingEarly, Sources
  <2>. QED
    BY <2>6, <2>7
<1>. QED
  BY <1>2, <1>3, <1>4 DEF Promise!SameKey

\* A step that writes none of the three collections tells of a posting that is
\* there, or is not seen.
LEMMA TellOrStutter ==
  ASSUME NEW r \in Requests, PostedBeforeAnswer', UNCHANGED <<ledger, redemptions, outbox>>,
         \A s \in Requests \ {r} : pc'[s] = pc[s] /\ req'[s] = req[s],
         pc[r] # "done"
  PROVE  [Promise!Next]_(Promise!promise)
<1>1. Posted' = Posted /\ Granted' = Granted /\ Announced' = Announced
  BY DEF Posted, Granted, Announced
<1>2. \A s \in Requests \ {r} : KeyOf(s)' = KeyOf(s)
  BY DEF KeyOf
<1>3. CASE pc'[r] # "done"
  <2>1. Told' = Told
    BY <1>2, <1>3 DEF Told
  <2>. QED
    BY <1>1, <2>1 DEF Promise!promise
<1>4. CASE pc'[r] = "done"
  <2>1. PICK e \in ledger : e.op = req'[r].op /\ e.key = KeyOf(r)'
    BY <1>4 DEF PostedBeforeAnswer
  <2>2. Told' = Told \cup {<<e.op, e.key>>}
    BY <1>2, <1>4, <2>1 DEF Told
  <2>3. PICK p : p = Posting(e)
    OBVIOUS
  <2>4. p \in Posted /\ p.op = e.op /\ p.key = e.key
    BY <2>3 DEF Posted, Posting
  <2>5. Promise!Tell(p)
    BY <1>1, <2>2, <2>4 DEF Promise!Tell
  <2>. QED
    BY <2>4, <2>5 DEF Promise!Next
<1>. QED
  BY <1>3, <1>4

\* A commit posts, announces and grants at one instant.
LEMMA CommitPosts ==
  ASSUME IInv, AmountsAsked, NEW r \in Requests, CommitTransaction(r)
  PROVE  Promise!Next
<1>1. TypeOK /\ NothingSkipped /\ pc[r] = "commit" /\ req[r].op # "ADJUSTMENT"
  BY DEF IInv, CommitTransaction, NothingSkipped
<1>2. PICK p : p = Posting(EntryOf(r))
  OBVIOUS
<1>3. /\ p \in [op : Ops, key : Keys \cup Requests, cust : Customers, amount : Amounts]
      /\ p.op = req[r].op /\ p.key = KeyOf(r)
      /\ \A q \in Posted : ~Promise!SameKey(p, q)
  BY <1>1, <1>2, FreshPosting
<1>4. Posting(EventOf(r)) = p
  BY <1>1, <1>2 DEF Posting, EntryOf, EventOf, KeyOf
<1>5. Posted' = Posted \cup {p} /\ Announced' = Announced \cup {p}
  BY <1>2, <1>4 DEF CommitTransaction, Posted, Announced
<1>6. Granted' = IF p.op = "REDEEM" THEN Granted \cup {p.key} ELSE Granted
  <2>1. PICK d : d = RedemptionOf(r)
    OBVIOUS
  <2>2. d.key = req[r].key
    BY <2>1 DEF RedemptionOf
  <2>3. redemptions' = IF req[r].op = "REDEEM" THEN redemptions \cup {d} ELSE redemptions
    BY <2>1 DEF CommitTransaction
  <2>. QED
    BY <1>3, <2>2, <2>3 DEF Granted, KeyOf
<1>7. Told' = Told
  BY <1>1 DEF CommitTransaction, Goto, environment, Told, KeyOf, TypeOK
<1>8. p.op \in {"ISSUE", "REDEEM"}
  BY <1>1, <1>3 DEF Ops
<1>9. Promise!Post(p)
  BY <1>3, <1>5, <1>6, <1>7, <1>8 DEF Promise!Post
<1>. QED
  BY <1>3, <1>9 DEF Promise!Next

\* The entry of an adjustment posts it, and its request is answered.
LEMMA InsertAdjusts ==
  ASSUME IInv, AmountsAsked, NEW r \in Requests, AppendInsert(r), req[r].op = "ADJUSTMENT"
  PROVE  Promise!Next
<1>1. TypeOK /\ pc[r] = "insert"
  BY DEF IInv, AppendInsert
<1>2. PICK p : p = Posting(EntryOf(r))
  OBVIOUS
<1>3. /\ p \in [op : Ops, key : Keys \cup Requests, cust : Customers, amount : Amounts]
      /\ p.op = req[r].op /\ p.key = KeyOf(r)
      /\ \A q \in Posted : ~Promise!SameKey(p, q)
  BY <1>1, <1>2, FreshPosting
<1>4. Posted' = Posted \cup {p} /\ Announced' = Announced /\ Granted' = Granted
  BY <1>2 DEF AppendInsert, Posted, Announced, Granted
<1>5. Told' = Told \cup {<<p.op, p.key>>}
  <2>1. pc' = [pc EXCEPT ![r] = "done"] /\ req' = req
    BY DEF AppendInsert, Goto
  <2>2. \A s \in Requests : KeyOf(s)' = KeyOf(s)
    BY <2>1 DEF KeyOf
  <2>3. pc \in [Requests -> Labels]
    BY <1>1 DEF TypeOK
  <2>. QED
    BY <1>3, <2>1, <2>2, <2>3 DEF Told
<1>6. Promise!Adjust(p)
  BY <1>3, <1>4, <1>5 DEF Promise!Adjust
<1>. QED
  BY <1>3, <1>6 DEF Promise!Next

\* Every step of the handlers is a step of the promise, or is not seen.
LEMMA NextKeepsPromise ==
  ASSUME Sessions, IInv, SessionInv, AmountsAsked, [Next]_vars
  PROVE  [Promise!Next]_(Promise!promise)
<1>1. SessionInv' /\ PostedBeforeAnswer'
  BY NextSession DEF SessionInv
<1>2. TypeOK /\ SessionsOnly
  BY DEF IInv, SessionInv
<1>. USE DEF Refuse, Goto, collections, environment, locals, Resting
<1>3. ASSUME NEW r \in Requests, CommitTransaction(r)
      PROVE  [Promise!Next]_(Promise!promise)
  BY <1>3, CommitPosts
<1>4. ASSUME NEW r \in Requests, AppendInsert(r)
      PROVE  [Promise!Next]_(Promise!promise)
  BY <1>2, <1>4, InsertAdjusts DEF AppendInsert, SessionsOnly
<1>5. ASSUME NEW r \in Requests,
             \/ Start(r) \/ Fail(r) \/ IssueLookup(r) \/ RedeemLookup(r) \/ RedeemReward(r)
             \/ StampPreflight(r) \/ ReadStamps(r) \/ PointsPreflight(r)
             \/ SupportsTransactions(r) \/ HelloReply(r) \/ FallBack(r) \/ Recheck(r)
             \/ OpenTransaction(r) \/ SaveTransaction(r) \/ AppendRead(r) \/ Track(r) \/ MarkPurchase(r) \/ AdjustLookup(r)
      PROVE  [Promise!Next]_(Promise!promise)
  <2>1. UNCHANGED <<ledger, redemptions, outbox>>
    BY <1>5 DEF Start, Fail, IssueLookup, RedeemLookup, RedeemReward, StampPreflight, ReadStamps,
       PointsPreflight, SupportsTransactions, HelloReply, FallBack, Recheck, OpenTransaction, SaveTransaction,
       AppendRead, Track, MarkPurchase, AdjustLookup
  <2>2. /\ pc[r] # "done"
        /\ \E l : pc' = [pc EXCEPT ![r] = l]
        /\ req' = req \/ \E i : req' = [req EXCEPT ![r] = i]
    BY <1>5 DEF Start, Fail, IssueLookup, RedeemLookup, RedeemReward, StampPreflight, ReadStamps,
       PointsPreflight, SupportsTransactions, HelloReply, FallBack, Recheck, OpenTransaction, SaveTransaction,
       AppendRead, Track, MarkPurchase, AdjustLookup
  <2>. QED
    BY <1>1, <1>2, <2>1, <2>2, TellOrStutter DEF TypeOK
<1>6. ASSUME NEW r \in Requests, SaveRedemption(r) \/ WriteEvent(r)
      PROVE  FALSE
  BY <1>2, <1>6 DEF SessionsOnly, SaveRedemption, WriteEvent
<1>7. ASSUME Restart \/ UNCHANGED vars
      PROVE  [Promise!Next]_(Promise!promise)
  <2>1. /\ UNCHANGED <<ledger, redemptions, outbox, req>>
        /\ \A r \in Requests : pc'[r] = "done" <=> pc[r] = "done"
    BY <1>7 DEF Restart, vars
  <2>2. UNCHANGED <<Posted, Granted, Announced, Told>>
    BY <2>1 DEF Posted, Granted, Announced, Told, KeyOf
  <2>. QED
    BY <2>2 DEF Promise!promise
<1>. QED
  BY <1>3, <1>4, <1>5, <1>6, <1>7 DEF Next, Serve

\* Where MongoDB is a replica set and no hello fails, the handlers keep the
\* promise: to its clients each posting takes effect at one instant, at most once
\* per key, with its reward and its event, and before any of them is told of it.
THEOREM Promised ==
  ASSUME Sessions
  PROVE  Spec => KeepsPromise
<1>1. Init => Promise!Init
  BY DEF Init, Promise!Init, Posted, Granted, Announced, Told
<1>2. IInv /\ SessionInv /\ AmountsAsked /\ [Next]_vars => [Promise!Next]_(Promise!promise)
  BY NextKeepsPromise
<1>3. Spec => []SessionInv
  BY InitSession, NextSession, Invariance, PTL DEF Spec
<1>4. Spec => []AmountsAsked
  BY AmountsInit, AmountsNext, Invariance, PTL DEF Spec
<1>. QED
  BY <1>1, <1>2, <1>3, <1>4, Invariance, PTL DEF Spec, KeepsPromise, Promise!Spec

-----------------------------------------------------------------------------
(* Balances.  A debit is appended only after the request has seen a balance *)
(* that covers it, so a balance it takes below zero was lower than that.    *)

Cleared == {"open", "commit", "saveRedemption", "saveTransaction", "append", "insert"}

DebitsChecked ==
    /\ IsFiniteSet(ledger)
    /\ \A r \in Requests :
          /\ pc[r] \in {"mode", "hello"} /\ req[r].op = "ISSUE" => amt[r] > 0
          /\ pc[r] \in Cleared => amt[r] > 0 \/ (seen[r] \in Int /\ seen[r] + amt[r] >= 0)

EntriesOf(c) == {e \in ledger : e.cust = c}

LEMMA BalanceIs ==
    ASSUME NEW c
    PROVE  Balance(c) = AmountsOf(EntriesOf(c))
BY DEF Balance, EntriesOf, AmountsOf, MapThenSumSet, MapThenFoldSet

\* Balances are numbers, where there are finitely many entries.
LEMMA LedgerAddsUp ==
    ASSUME IInv, IsFiniteSet(ledger), NEW c
    PROVE  IsFiniteSet(EntriesOf(c)) /\ InInt(EntriesOf(c)) /\ Balance(c) \in Int
<1>1. IsFiniteSet(EntriesOf(c))
  BY FS_Subset DEF EntriesOf
<1>2. \A e \in ledger : e.amount \in Int
  BY DEF IInv, TypeOK, DocumentsMatch, EntryOf, Sources
<1>3. InInt(EntriesOf(c))
  BY <1>2 DEF InInt, EntriesOf
<1>. QED
  BY <1>1, <1>3, BalanceIs, AmountsType

\* Who writes to the ledger writes one entry, of its own.
LEMMA EntryAdds ==
    ASSUME IInv, IsFiniteSet(ledger), NEW r \in Requests, CommitTransaction(r) \/ AppendInsert(r)
    PROVE  /\ pc[r] \in {"commit", "insert"} /\ pc'[r] # pc[r]
           /\ IsFiniteSet(ledger')
           /\ Balance(req[r].cust)' = Balance(req[r].cust) + amt[r]
           /\ \A c : c # req[r].cust => Balance(c)' = Balance(c)
<1>1. pc[r] \in {"commit", "insert"} /\ pc'[r] # pc[r]
  BY DEF CommitTransaction, AppendInsert, Goto, IInv, TypeOK
<1>2. \A e \in ledger : e.tx # r
  BY <1>1 DEF IInv, NothingEarly, BeforeWrites, Sources
<1>3. PICK d : d = EntryOf(r)
  OBVIOUS
<1>4. ledger' = ledger \cup {d} /\ d.tx = r /\ d.cust = req[r].cust /\ d.amount = amt[r]
  BY <1>3 DEF CommitTransaction, AppendInsert, EntryOf
<1>5. IsFiniteSet(ledger')
  BY <1>4, FS_AddElement
<1>6. PICK c, S : c = req[r].cust /\ S = EntriesOf(c)
  OBVIOUS
<1>7. req' = req
  BY DEF CommitTransaction, AppendInsert
<1>8. EntriesOf(c)' = S \cup {d}
  BY <1>4, <1>6 DEF EntriesOf
<1>9. IsFiniteSet(S) /\ InInt(S) /\ d \notin S /\ d.amount \in Int
  <2>1. amt[r] \in Int
    BY DEF IInv, TypeOK
  <2>2. d \notin S
    BY <1>2, <1>4, <1>6 DEF EntriesOf
  <2>. QED
    BY <1>4, <1>6, <2>1, <2>2, LedgerAddsUp
<1>10. AmountsOf(S \cup {d}) = AmountsOf(S) + amt[r]
  BY <1>4, <1>9, AmountsAdd
<1>11. Balance(c)' = AmountsOf(S \cup {d})
  BY <1>8 DEF Balance, EntriesOf, AmountsOf, MapThenSumSet, MapThenFoldSet
<1>12. Balance(c) = AmountsOf(S)
  BY <1>6, BalanceIs
<1>13. Balance(req[r].cust)' = Balance(c)'
  BY <1>6, <1>7 DEF Balance, MapThenSumSet, MapThenFoldSet
<1>14. Balance(req[r].cust) = Balance(c)
  BY <1>6
<1>15. ASSUME NEW b, b # req[r].cust
       PROVE  Balance(b)' = Balance(b)
  <2>1. {e \in ledger' : e.cust = b} = {e \in ledger : e.cust = b}
    BY <1>4, <1>15
  <2>. QED
    BY <2>1 DEF Balance, MapThenSumSet, MapThenFoldSet
<1>. QED
  BY <1>1, <1>5, <1>10, <1>11, <1>12, <1>13, <1>14, <1>15

\* The others leave the ledger alone.
LEMMA LedgerStays ==
    ASSUME NEW r \in Requests, Start(r) \/ Serve(r) \/ Fail(r),
           ~CommitTransaction(r), ~AppendInsert(r)
    PROVE  ledger' = ledger
BY DEF Serve, Start, Fail, Refuse, IssueLookup, RedeemLookup, RedeemReward, StampPreflight,
       ReadStamps, PointsPreflight, SupportsTransactions, HelloReply, FallBack, Recheck, OpenTransaction,
       SaveRedemption, SaveTransaction, AppendRead, WriteEvent, Track, MarkPurchase, AdjustLookup,
       collections, environment, locals

\* What a request does to its own check of the balance.
LEMMA CheckOfOthers ==
    ASSUME IInv, NEW r \in Requests, Start(r) \/ Serve(r) \/ Fail(r)
    PROVE  \A s \in Requests \ {r} :
              pc'[s] = pc[s] /\ req'[s] = req[s] /\ amt'[s] = amt[s] /\ seen'[s] = seen[s]
<1>1. /\ pc \in [Requests -> Labels] /\ amt \in [Requests -> Int] /\ DOMAIN seen = Requests
      /\ req \in [Requests -> Intents]
  BY DEF IInv, TypeOK
<1>. QED
  BY <1>1
  DEF Serve, Start, Fail, Refuse, Goto, IssueLookup, RedeemLookup, RedeemReward, StampPreflight,
      ReadStamps, PointsPreflight, SupportsTransactions, HelloReply, FallBack, Recheck, OpenTransaction,
      CommitTransaction, AppendInsert,
      SaveRedemption, SaveTransaction, AppendRead, WriteEvent, Track, MarkPurchase, AdjustLookup,
      collections, environment, locals

\* A request comes to its writes only past a check, or to add points.
LEMMA CheckOfOne ==
    ASSUME IInv, DebitsChecked, NEW r \in Requests, Start(r) \/ Serve(r) \/ Fail(r)
    PROVE  /\ pc'[r] \in {"mode", "hello"} /\ req'[r].op = "ISSUE" => amt'[r] > 0
           /\ pc'[r] \in Cleared => amt'[r] > 0 \/ (seen'[r] \in Int /\ seen'[r] + amt'[r] >= 0)
<1>1. /\ pc \in [Requests -> Labels] /\ amt \in [Requests -> Int] /\ DOMAIN seen = Requests
      /\ req \in [Requests -> Intents] /\ txnSupport \in {"unknown", "yes", "no"}
      /\ rewards \in [Rewards -> RewardDoc] /\ Intents \subseteq Intent
  BY IntentsAssumption DEF IInv, TypeOK
<1>2. \A c : Balance(c) \in Int
  BY LedgerAddsUp DEF DebitsChecked
<1>3. NothingSkipped
  BY DEF IInv
<1>4. /\ pc[r] \in {"mode", "hello"} /\ req[r].op = "ISSUE" => amt[r] > 0
      /\ pc[r] \in Cleared => amt[r] > 0 \/ (seen[r] \in Int /\ seen[r] + amt[r] >= 0)
  BY DEF DebitsChecked
<1>5. req[r] \in Intent
  BY <1>1
<1>. USE DEF Goto, Refuse, locals, collections, environment, Cleared
<1>6. CASE Start(r) \/ Fail(r)
  BY <1>1, <1>6 DEF Start, Fail
<1>7. CASE IssueLookup(r)
  BY <1>1, <1>5, <1>7 DEF IssueLookup, AfterIssue, Intent
<1>8. CASE RedeemLookup(r) \/ ReadStamps(r) \/ Track(r) \/ MarkPurchase(r) \/ WriteEvent(r)
  BY <1>1, <1>8 DEF RedeemLookup, ReadStamps, Track, MarkPurchase, WriteEvent, AfterIssue
<1>9. CASE RedeemReward(r) \/ StampPreflight(r) \/ PointsPreflight(r)
  BY <1>1, <1>3, <1>9 DEF RedeemReward, StampPreflight, PointsPreflight, NothingSkipped
<1>10. CASE SupportsTransactions(r)
  BY <1>1, <1>3, <1>4, <1>5, <1>10 DEF SupportsTransactions, Route, NothingSkipped, Intent, Ops
<1>11. CASE HelloReply(r) \/ FallBack(r)
  BY <1>1, <1>3, <1>4, <1>5, <1>11 DEF HelloReply, FallBack, Route, NothingSkipped, Intent, Ops
<1>12. CASE Recheck(r)
  BY <1>1, <1>2, <1>12 DEF Recheck
<1>13. CASE AdjustLookup(r)
  BY <1>1, <1>2, <1>5, <1>13 DEF AdjustLookup, Intent
<1>14. CASE OpenTransaction(r) \/ CommitTransaction(r) \/ SaveRedemption(r) \/ SaveTransaction(r)
            \/ AppendRead(r) \/ AppendInsert(r)
  BY <1>1, <1>4, <1>14
  DEF OpenTransaction, CommitTransaction, SaveRedemption, SaveTransaction, AppendRead, AppendInsert
<1>. QED
  BY <1>6, <1>7, <1>8, <1>9, <1>10, <1>11, <1>12, <1>13, <1>14 DEF Serve

LEMMA ChecksInit == Init => DebitsChecked
  BY FS_EmptySet DEF Init, DebitsChecked, Cleared

LEMMA ChecksNext == IInv /\ DebitsChecked /\ [Next]_vars => DebitsChecked'
<1>. SUFFICES ASSUME IInv, DebitsChecked, [Next]_vars PROVE DebitsChecked'
  OBVIOUS
<1>1. CASE Restart
  BY <1>1 DEF Restart, DebitsChecked, Cleared, Resting, collections, environment, locals, IInv, TypeOK
<1>2. CASE UNCHANGED vars
  BY <1>2 DEF vars, collections, locals, DebitsChecked
<1>3. ASSUME NEW r \in Requests, Start(r) \/ Serve(r) \/ Fail(r)
      PROVE  DebitsChecked'
  <2>1. IsFiniteSet(ledger')
    BY <1>3, EntryAdds, LedgerStays DEF DebitsChecked
  <2>2. ASSUME NEW s \in Requests
        PROVE  /\ pc'[s] \in {"mode", "hello"} /\ req'[s].op = "ISSUE" => amt'[s] > 0
               /\ pc'[s] \in Cleared =>
                     amt'[s] > 0 \/ (seen'[s] \in Int /\ seen'[s] + amt'[s] >= 0)
    <3>1. CASE s = r
      BY <1>3, <3>1, CheckOfOne
    <3>2. CASE s # r
      BY <1>3, <3>2, CheckOfOthers DEF DebitsChecked
    <3>. QED
      BY <3>1, <3>2
  <2>. QED
    BY <2>1, <2>2 DEF DebitsChecked
<1>. QED
  BY <1>1, <1>2, <1>3 DEF Next

\* No debit alone overdraws: whoever takes a balance below zero had checked one
\* that covered it, and the balance has fallen between its check and its write.
THEOREM NoDebitAloneOverdraws == Spec => OverdraftOnlyByRace
<1>1. ASSUME IInv, DebitsChecked, [Next]_vars, NEW c \in Customers,
             Balance(c)' < 0, Balance(c)' < Balance(c)
      PROVE  \/ UNCHANGED ledger
             \/ \E r \in Requests :
                   /\ pc[r] \in {"commit", "insert"} /\ pc'[r] # pc[r]
                   /\ req[r].cust = c /\ Balance(c) < seen[r]
  <2>1. CASE Restart \/ UNCHANGED vars
    BY <2>1 DEF Restart, vars, collections
  <2>2. ASSUME NEW r \in Requests, Start(r) \/ Serve(r) \/ Fail(r), ledger' # ledger
        PROVE  /\ pc[r] \in {"commit", "insert"} /\ pc'[r] # pc[r]
               /\ req[r].cust = c /\ Balance(c) < seen[r]
    <3>1. CommitTransaction(r) \/ AppendInsert(r)
      BY <2>2, LedgerStays
    <3>2. /\ pc[r] \in {"commit", "insert"} /\ pc'[r] # pc[r]
          /\ Balance(req[r].cust)' = Balance(req[r].cust) + amt[r]
          /\ \A b : b # req[r].cust => Balance(b)' = Balance(b)
      BY <1>1, <3>1, EntryAdds DEF DebitsChecked
    <3>3. Balance(c) \in Int /\ amt[r] \in Int
      BY <1>1, LedgerAddsUp DEF DebitsChecked, IInv, TypeOK
    <3>4. req[r].cust = c
      <4>1. CASE req[r].cust # c
        <5>1. Balance(c)' = Balance(c)
          BY <3>2, <4>1
        <5>. QED
          BY <1>1, <3>3, <5>1
      <4>. QED
        BY <4>1
    <3>5. Balance(req[r].cust)' = Balance(c)'
      <4>1. req' = req
        BY <3>1 DEF CommitTransaction, AppendInsert
      <4>. QED
        BY <3>4, <4>1 DEF Balance, MapThenSumSet, MapThenFoldSet
    <3>6. Balance(c)' = Balance(c) + amt[r]
      BY <3>2, <3>4, <3>5
    <3>7. amt[r] > 0 \/ (seen[r] \in Int /\ seen[r] + amt[r] >= 0)
      BY <1>1, <3>2 DEF DebitsChecked, Cleared
    <3>. QED
      BY <1>1, <3>2, <3>3, <3>4, <3>6, <3>7
  <2>. QED
    BY <1>1, <2>1, <2>2 DEF Next
<1>2. IInv /\ DebitsChecked /\ [Next]_vars =>
         [\A c \in Customers :
             Balance(c)' < 0 /\ Balance(c)' < Balance(c) =>
               \E r \in Requests :
                   /\ pc[r] \in {"commit", "insert"} /\ pc'[r] # pc[r]
                   /\ req[r].cust = c
                   /\ Balance(c) < seen[r]]_ledger
  BY <1>1
<1>. QED
  BY <1>2, ChecksInit, ChecksNext, Invariance, PTL DEF Spec, OverdraftOnlyByRace

-----------------------------------------------------------------------------
(* EventDelivery: the dispatcher                                            *)

\* Loops, inboxes and read models do not matter to the invariant.
dispatchVars == <<visible, status, retryCount, dispatcher, at, batch, sent, failures>>

\* Events are numbers.
LEMMA EventsAreNumbers == Events \subseteq Int
BY FeedAssumption DEF Events

\* Nothing has been written or published at the start.
LEMMA InitInv == DeliveryInit => DispatchInv
BY LimitsAssumption
DEF DeliveryInit, DispatchInv, DispatcherTypeOK, PublishedWasSent, GivenUpAfterRetries,
    CountsAreEarned, Current

\* What leaves the dispatcher alone keeps its invariant.
LEMMA OthersKeepInv == DispatchInv /\ UNCHANGED dispatchVars => DispatchInv'
BY DEF DispatchInv, DispatcherTypeOK, PublishedWasSent, GivenUpAfterRetries, CountsAreEarned,
       Current, dispatchVars

\* A new event is pending, after all that were written before.
LEMMA WriteEventInv ==
    ASSUME DispatchInv, NEW e \in Events, OutboxWrite(e)
    PROVE  DispatchInv'
BY DEF DispatchInv, DispatcherTypeOK, PublishedWasSent, GivenUpAfterRetries, CountsAreEarned,
       Current, OutboxWrite, pollVars, history

\* A dispatcher that starts has read nothing.
LEMMA StartInv == DispatchInv /\ StartDispatcher => DispatchInv'
BY DEF DispatchInv, DispatcherTypeOK, PublishedWasSent, GivenUpAfterRetries, CountsAreEarned,
       Current, StartDispatcher, outboxVars, history

\* A crash forgets the batch and nothing that is stored.
LEMMA CrashInv == DispatchInv /\ CrashDispatcher => DispatchInv'
BY DEF DispatchInv, DispatcherTypeOK, PublishedWasSent, GivenUpAfterRetries, CountsAreEarned,
       Current, CrashDispatcher, outboxVars, history

\* A poll loads pending events only, and those have attempts left.
LEMMA LoadBatchInv ==
    ASSUME DispatchInv, NEW p \in Polls, LoadBatch(p)
    PROVE  DispatchInv'
<1> USE DEF DispatchInv
<1>1. PICK S \in (SUBSET {e \in visible : status[e] = "PENDING"}) \ {{}} :
         batch' = [batch EXCEPT ![p] = [e \in S |-> retryCount[e]]]
  BY DEF LoadBatch
<1>2. /\ at' = [at EXCEPT ![p] = "publish"]
      /\ UNCHANGED <<visible, status, retryCount, dispatcher, sent, failures>>
  BY DEF LoadBatch, outboxVars, history
<1>3. \A e \in S : /\ e \in visible /\ e \in Events
                   /\ retryCount[e] \in 0 .. MaxRetries - 1
                   /\ retryCount[e] <= failures[e]
  BY <1>1, LimitsAssumption DEF DispatcherTypeOK, CountsAreEarned
<1>4. /\ batch'[p] = [e \in S |-> retryCount[e]] /\ at'[p] = "publish" /\ S # {}
      /\ \A q \in Polls \ {p} : batch'[q] = batch[q] /\ at'[q] = at[q]
      /\ DOMAIN batch' = Polls /\ at' \in [Polls -> {"off", "publish", "mark", "retry"}]
  <2>1. DOMAIN batch = Polls /\ at \in [Polls -> {"off", "publish", "mark", "retry"}]
    BY DEF DispatcherTypeOK
  <2> QED BY <1>1, <1>2, <2>1
<1>5. DispatcherTypeOK'
  <2>1. ASSUME NEW q \in Polls
        PROVE  /\ DOMAIN batch'[q] \subseteq visible
               /\ \A e \in DOMAIN batch'[q] : batch'[q][e] \in 0 .. MaxRetries - 1
               /\ at'[q] = "off" <=> DOMAIN batch'[q] = {}
    <3>1. CASE q = p
      BY <1>3, <1>4, <3>1
    <3>2. CASE q # p
      BY <1>4, <3>2 DEF DispatcherTypeOK
    <3> QED BY <3>1, <3>2
  <2> QED BY <1>2, <1>4, <2>1 DEF DispatcherTypeOK
<1>6. CountsAreEarned'
  BY <1>2, <1>3, <1>4 DEF DispatcherTypeOK, CountsAreEarned, Current
<1>7. (PublishedWasSent /\ GivenUpAfterRetries)'
  BY <1>2 DEF PublishedWasSent, GivenUpAfterRetries
<1> QED BY <1>5, <1>6, <1>7

\* What an attempt that is caught leaves: one more failure on record.
LEMMA CaughtInv ==
    ASSUME DispatchInv, NEW p \in Polls, NEW e \in DOMAIN batch[p], Current(p, e),
           at[p] \in {"publish", "mark"}, Caught(p, e), sent \subseteq sent', sent' \subseteq visible,
           UNCHANGED <<visible, status, retryCount, dispatcher, batch>>
    PROVE  DispatchInv'
<1> USE DEF DispatchInv
<1>1. /\ at' = [at EXCEPT ![p] = "retry"]
      /\ failures' = [failures EXCEPT ![e] = IF @ < MaxRetries THEN @ + 1 ELSE @]
  BY DEF Caught
<1>2. e \in Events /\ e \in visible
  BY DEF DispatcherTypeOK
<1>3. /\ failures' \in [Events -> 0 .. MaxRetries]
      /\ \A f \in Events : failures[f] <= failures'[f]
  BY <1>1, <1>2, LimitsAssumption DEF DispatcherTypeOK
<1>4. batch[p][e] < failures'[e]
  BY <1>1, <1>2, LimitsAssumption DEF DispatcherTypeOK, CountsAreEarned
<1>5. DispatcherTypeOK'
  BY <1>1, <1>3 DEF DispatcherTypeOK
<1>6. PublishedWasSent'
  BY DEF PublishedWasSent
<1>7. GivenUpAfterRetries'
  BY <1>3, LimitsAssumption DEF GivenUpAfterRetries, DispatcherTypeOK
<1>8. CountsAreEarned'
  <2>1. \A f \in Events : retryCount[f] <= failures'[f]
    BY <1>3 DEF CountsAreEarned, DispatcherTypeOK
  <2>2. ASSUME NEW q \in Polls, NEW f \in DOMAIN batch[q]
        PROVE  /\ batch[q][f] <= failures'[f]
               /\ at'[q] = "retry" /\ Current(q, f) => batch[q][f] < failures'[f]
               /\ at'[q] = "mark" /\ Current(q, f) => f \in sent'
    <3>1. f \in Events /\ batch[q][f] \in Int /\ failures[f] \in Int /\ failures'[f] \in Int
      BY <1>3, LimitsAssumption DEF DispatcherTypeOK
    <3>2. batch[q][f] <= failures'[f]
      BY <1>3, <3>1 DEF CountsAreEarned
    <3>3. CASE q = p
      <4>1. Current(q, f) => f = e
        BY <3>1, <1>2, <3>3, EventsAreNumbers DEF Current
      <4> QED BY <3>2, <3>3, <4>1, <1>1, <1>4 DEF DispatcherTypeOK
    <3>4. CASE q # p
      BY <1>1, <1>3, <3>1, <3>2, <3>4 DEF DispatcherTypeOK, CountsAreEarned
    <3> QED BY <3>3, <3>4
  <2>3. (\A f \in Events : status[f] = "PENDING" => retryCount[f] < MaxRetries)
    BY DEF CountsAreEarned
  <2> QED BY <2>1, <2>2, <2>3 DEF CountsAreEarned, Current
<1> QED BY <1>5, <1>6, <1>7, <1>8

\* What is published is the next of the batch.
LEMMA PublishInv ==
    ASSUME DispatchInv, NEW p \in Polls, NEW e \in DOMAIN batch[p], Publish(p, e)
    PROVE  DispatchInv'
<1>1. /\ Current(p, e) /\ at[p] = "publish" /\ e \in visible
      /\ UNCHANGED <<visible, status, retryCount, dispatcher, batch>>
  BY DEF Publish, outboxVars, DispatchInv, DispatcherTypeOK
<1>2. sent \subseteq sent' /\ sent' \subseteq visible
  BY <1>1 DEF Publish, Deliver, Lose, DispatchInv, DispatcherTypeOK
<1>3. CASE Caught(p, e)
  BY <1>1, <1>2, <1>3, CaughtInv
<1>4. CASE Deliver(e) /\ at' = [at EXCEPT ![p] = "mark"] /\ UNCHANGED failures
  <2> USE DEF DispatchInv
  <2>1. e \in sent' /\ e \in Events
    BY <1>1, <1>4 DEF Deliver, DispatcherTypeOK
  <2>2. DispatcherTypeOK'
    BY <1>1, <1>2, <1>4 DEF DispatcherTypeOK
  <2>3. (PublishedWasSent /\ GivenUpAfterRetries)'
    BY <1>1, <1>2, <1>4 DEF PublishedWasSent, GivenUpAfterRetries
  <2>4. \A f \in DOMAIN batch[p] : Current(p, f) => f = e
    <3>1. \A f \in DOMAIN batch[p] : f \in Int
      BY EventsAreNumbers DEF DispatcherTypeOK
    <3> QED BY <1>1, <3>1 DEF Current
  <2>5. CountsAreEarned'
    BY <1>1, <1>2, <1>4, <2>1, <2>4 DEF DispatcherTypeOK, CountsAreEarned, Current
  <2> QED BY <2>2, <2>3, <2>5
<1> QED BY <1>3, <1>4 DEF Publish

\* The rest of a batch, taken up again or left.
LEMMA AdvanceInv ==
    ASSUME DispatchInv, NEW p \in Polls, NEW e \in DOMAIN batch[p], at[p] # "off", Advance(p, e),
           UNCHANGED <<visible, dispatcher, sent, failures>>,
           status' \in [Events -> {"PENDING", "PUBLISHED", "FAILED"}],
           retryCount' \in [Events -> 0 .. MaxRetries],
           PublishedWasSent', GivenUpAfterRetries',
           \A f \in Events : /\ retryCount'[f] <= failures[f]
                             /\ status'[f] = "PENDING" => retryCount'[f] < MaxRetries
    PROVE  DispatchInv'
<1> USE DEF DispatchInv
<1> DEFINE rest == DOMAIN batch[p] \ {e}
<1>1. /\ batch' = [batch EXCEPT ![p] = [f \in rest |-> batch[p][f]]]
      /\ at' = [at EXCEPT ![p] = IF rest = {} THEN "off" ELSE "publish"]
  BY DEF Advance
<1>2. /\ DOMAIN batch'[p] = rest
      /\ \A f \in rest : batch'[p][f] = batch[p][f]
      /\ at'[p] \in {"off", "publish"} /\ (at'[p] = "off" <=> rest = {})
      /\ \A q \in Polls \ {p} : batch'[q] = batch[q] /\ at'[q] = at[q]
  BY <1>1 DEF DispatcherTypeOK
<1>3. DispatcherTypeOK'
  BY <1>1, <1>2 DEF DispatcherTypeOK
<1>4. CountsAreEarned'
  BY <1>2 DEF CountsAreEarned, Current
<1> QED BY <1>3, <1>4

\* What is marked was published.
LEMMA MarkInv ==
    ASSUME DispatchInv, NEW p \in Polls, NEW e \in DOMAIN batch[p], MarkPublished(p, e)
    PROVE  DispatchInv'
<1>1. /\ at[p] = "mark" /\ Current(p, e) /\ e \in Events
      /\ UNCHANGED <<visible, retryCount, dispatcher, sent>>
  BY DEF MarkPublished, DispatchInv, DispatcherTypeOK
<1>2. CASE Caught(p, e) /\ UNCHANGED <<status, batch>>
  BY <1>1, <1>2, CaughtInv DEF DispatchInv, DispatcherTypeOK
<1>3. CASE /\ status' = [status EXCEPT ![e] = "PUBLISHED"]
           /\ Advance(p, e) /\ UNCHANGED failures
  <2>1. e \in sent
    BY <1>1 DEF DispatchInv, CountsAreEarned
  <2>2. status' \in [Events -> {"PENDING", "PUBLISHED", "FAILED"}]
    BY <1>3 DEF DispatchInv, DispatcherTypeOK
  <2>3. (PublishedWasSent /\ GivenUpAfterRetries)'
    BY <1>1, <1>3, <2>1 DEF DispatchInv, DispatcherTypeOK, PublishedWasSent, GivenUpAfterRetries
  <2>4. \A f \in Events : /\ retryCount'[f] <= failures[f]
                          /\ status'[f] = "PENDING" => retryCount'[f] < MaxRetries
    BY <1>1, <1>3 DEF DispatchInv, DispatcherTypeOK, CountsAreEarned
  <2>5. retryCount' \in [Events -> 0 .. MaxRetries]
    BY <1>1 DEF DispatchInv, DispatcherTypeOK
  <2> QED BY <1>1, <1>3, <2>2, <2>3, <2>4, <2>5, AdvanceInv
<1> QED BY <1>2, <1>3 DEF MarkPublished

\* A last retry is recorded only by a poll whose own count says so, and that
\* count is covered by failures.
LEMMA RetryInv ==
    ASSUME DispatchInv, NEW p \in Polls, NEW e \in DOMAIN batch[p], RecordRetry(p, e)
    PROVE  DispatchInv'
<1> DEFINE n == batch[p][e] + 1
<1>1. /\ at[p] = "retry" /\ Current(p, e) /\ e \in Events
      /\ UNCHANGED <<visible, dispatcher, sent, failures>>
  BY DEF RecordRetry, history, DispatchInv, DispatcherTypeOK
<1>2. n \in 1 .. MaxRetries /\ n <= failures[e] /\ failures[e] \in 0 .. MaxRetries
  BY <1>1, LimitsAssumption DEF DispatchInv, DispatcherTypeOK, CountsAreEarned
<1>3. CASE /\ retryCount' = [retryCount EXCEPT ![e] = n]
           /\ status' = [status EXCEPT ![e] = IF n >= MaxRetries THEN "FAILED" ELSE @]
           /\ Advance(p, e)
  <2>1. /\ status' \in [Events -> {"PENDING", "PUBLISHED", "FAILED"}]
        /\ retryCount' \in [Events -> 0 .. MaxRetries]
    BY <1>2, <1>3, LimitsAssumption DEF DispatchInv, DispatcherTypeOK
  <2>2. PublishedWasSent'
    BY <1>1, <1>3 DEF DispatchInv, DispatcherTypeOK, PublishedWasSent
  <2>3. GivenUpAfterRetries'
    BY <1>1, <1>2, <1>3, LimitsAssumption DEF DispatchInv, DispatcherTypeOK, GivenUpAfterRetries
  <2>4. \A f \in Events : /\ retryCount'[f] <= failures[f]
                          /\ status'[f] = "PENDING" => retryCount'[f] < MaxRetries
    BY <1>1, <1>2, <1>3, LimitsAssumption DEF DispatchInv, DispatcherTypeOK, CountsAreEarned
  <2> QED BY <1>1, <1>3, <2>1, <2>2, <2>3, <2>4, AdvanceInv
<1>4. CASE /\ at' = [at EXCEPT ![p] = "off"]
           /\ batch' = [batch EXCEPT ![p] = <<>>]
           /\ UNCHANGED <<status, retryCount>>
  BY <1>1, <1>4
  DEF DispatchInv, DispatcherTypeOK, PublishedWasSent, GivenUpAfterRetries, CountsAreEarned, Current
<1> QED BY <1>3, <1>4 DEF RecordRetry

\* The invariant is inductive: one case per action of DeliveryNext.
LEMMA NextInv == DispatchInv /\ [DeliveryNext]_deliveryVars => DispatchInv'
<1> SUFFICES ASSUME DispatchInv, [DeliveryNext]_deliveryVars
             PROVE  DispatchInv'
  OBVIOUS
<1>1. ASSUME NEW e \in Events, OutboxWrite(e) PROVE DispatchInv'
  BY <1>1, WriteEventInv
<1>2. CASE StartDispatcher
  BY <1>2, StartInv
<1>3. CASE CrashDispatcher
  BY <1>3, CrashInv
<1>4. ASSUME NEW p \in Polls, PollStep(p) PROVE DispatchInv'
  BY <1>4, LoadBatchInv, PublishInv, MarkInv, RetryInv DEF PollStep
<1>5. ASSUME NEW k \in Consumers, Subscribe(k) \/ CrashConsumer(k) PROVE DispatchInv'
  BY <1>5, OthersKeepInv
  DEF Subscribe, CrashConsumer, dispatchVars, outboxVars, pollVars, history
<1>6. ASSUME NEW k \in Consumers, NEW kind \in Kinds,
             Take(k, kind) \/ Handle(k, kind) \/ DropMessage(k, kind)
      PROVE  DispatchInv'
  <2>1. UNCHANGED <<outboxVars, pollVars, history>>
    BY <1>6 DEF Take, Handle, SetBalance, Summarise, FindCounter, Count, DropMessage
  <2> QED BY <2>1, OthersKeepInv DEF dispatchVars, outboxVars, pollVars, history
<1>7. CASE UNCHANGED deliveryVars
  BY <1>7, OthersKeepInv DEF deliveryVars, dispatchVars, outboxVars, pollVars, history
<1> QED BY <1>1, <1>2, <1>3, <1>4, <1>5, <1>6, <1>7 DEF DeliveryNext

\* The dispatcher's bookkeeping holds in every reachable state, however many
\* polls of processOutboxEvents overlap and whatever calls fail.
THEOREM DispatchInvariance == DeliverySpec => []DispatchInv
BY InitInv, NextInv, PTL DEF DeliverySpec

\* Polls and the documents they work on always hold what they can hold.
THEOREM DispatcherTypeCorrect == DeliverySpec => []DispatcherTypeOK
<1>1. DispatchInv => DispatcherTypeOK
  BY DEF DispatchInv
<1> QED BY <1>1, DispatchInvariance, PTL

\* Nothing is marked as published that NATS has not been given.
THEOREM PublishedIsSent == DeliverySpec => []PublishedWasSent
<1>1. DispatchInv => PublishedWasSent
  BY DEF DispatchInv
<1> QED BY <1>1, DispatchInvariance, PTL

\* Nothing is given up before its retries have been used.
THEOREM NeverGivenUpEarly == DeliverySpec => []GivenUpAfterRetries
<1>1. DispatchInv => GivenUpAfterRetries
  BY DEF DispatchInv
<1> QED BY <1>1, DispatchInvariance, PTL

-----------------------------------------------------------------------------
(* The consumers' side.  For every process, the issues to a customer that   *)
(* reached NATS and are neither in its inbox nor in the hands of its loop   *)
(* have been counted: no more of them than the customer's activity says.    *)

\* Consumers are there when messages come, stay, and handle them to the end.
Reliable == {"late", "handler", "leave"} \intersect Faults = {}

Daily == <<<<"daily">>>>
Busy == {"balance", "summary", "find", "count"}
LoopDoc ==
    [step : Busy \cup {"down", "dead", "wait"}, event : Events \cup {0},
     left : {<<>>, Daily} \cup {CountersOf(e) : e \in Events}, found : BOOLEAN]

ConsumersTyped ==
    /\ inbox \in [Consumers -> [Kinds -> Seq(Events)]]
    /\ loop \in [Consumers -> [Kinds -> LoopDoc]]
    /\ counters \in [CounterNames -> Missing .. (Len(Feed) + 1)]

\* Messages come to the loop of their kind, which has their counters to go
\* through, or the last of them.
MessagesFit ==
    \A k \in Consumers, kind \in Kinds :
        /\ \A i \in DOMAIN inbox[k][kind] : Feed[inbox[k][kind][i]].kind = kind
        /\ loop[k][kind].step \in Busy =>
              /\ loop[k][kind].event \in Events /\ Feed[loop[k][kind].event].kind = kind
              /\ loop[k][kind].left \in {CountersOf(loop[k][kind].event), Daily}

\* Nobody polls before all listen.
Ready ==
    /\ \A p \in Polls : at[p] # "off" => dispatcher = "polling"
    /\ dispatcher = "polling" => \A k \in Consumers : Listening(k)

\* k has still to count e in the activity of its customer.
Waits(k, e) ==
    \/ \E i \in DOMAIN inbox[k]["issued"] : inbox[k]["issued"][i] = e
    \/ /\ loop[k]["issued"].step \in Busy /\ loop[k]["issued"].event = e
       /\ loop[k]["issued"].left = CountersOf(e)

IssuesTo(c) == {e \in sent : Feed[e].kind = "issued" /\ Feed[e].cust = c}
Counted(k, c) == {e \in IssuesTo(c) : ~Waits(k, e)}

\* k is about to count an issue to c.
Counting(k, c) ==
    /\ loop[k]["issued"].step = "count"
    /\ loop[k]["issued"].left = CountersOf(loop[k]["issued"].event)
    /\ Feed[loop[k]["issued"].event].cust = c

Tallied ==
    \A k \in Consumers, c \in CustomerIds :
        /\ counters[<<"activity", c>>] # 0
        /\ Counted(k, c) # {} => Cardinality(Counted(k, c)) <= counters[<<"activity", c>>]
        /\ Counting(k, c) =>
              IF loop[k]["issued"].found THEN counters[<<"activity", c>>] # Missing
                                         ELSE Counted(k, c) = {}

ActivityInv == ConsumersTyped /\ MessagesFit /\ Ready /\ Tallied

\* What is counted for a message.
LEMMA CountersFit ==
    ASSUME NEW e \in Events
    PROVE  /\ Feed[e] \in EventDoc
           /\ CountersOf(e) # Daily /\ CountersOf(e) # <<>> /\ Head(CountersOf(e)) \in CounterNames
           /\ Tail(CountersOf(e)) = Daily
           /\ Feed[e].kind = "issued" => Head(CountersOf(e)) = <<"activity", Feed[e].cust>>
           /\ Feed[e].kind = "redeemed" => \A c : Head(CountersOf(e)) # <<"activity", c>>
           /\ Head(Daily) = <<"daily">> /\ Tail(Daily) = <<>> /\ Daily # <<>>
           /\ \A c : <<"daily">> # <<"activity", c>>
<1>1. Feed[e] \in EventDoc
  BY FeedAssumption DEF Events
<1>2. Feed[e].kind \in Kinds /\ Feed[e].cust \in CustomerIds /\ Feed[e].reward \in RewardIds
  BY <1>1 DEF EventDoc
<1>3. CASE Feed[e].kind = "issued"
  <2>1. CountersOf(e) = <<<<"activity", Feed[e].cust>>, <<"daily">>>>
    BY <1>3 DEF CountersOf
  <2> QED BY <1>1, <1>2, <1>3, <2>1 DEF Daily, CounterNames
<1>4. CASE Feed[e].kind = "redeemed"
  <2>1. CountersOf(e) = <<<<"usage", Feed[e].reward>>, <<"daily">>>>
    BY <1>4 DEF CountersOf
  <2> QED BY <1>1, <1>2, <1>4, <2>1 DEF Daily, CounterNames
<1> QED BY <1>2, <1>3, <1>4 DEF Kinds

\* There are at most as many issues to a customer as events.
LEMMA IssuesAreFinite ==
    ASSUME sent \subseteq Events, NEW c, NEW S, S \subseteq IssuesTo(c)
    PROVE  /\ IsFiniteSet(S) /\ Cardinality(S) \in Nat /\ Cardinality(S) <= Len(Feed)
           /\ \A T \in SUBSET S : IsFiniteSet(T) /\ Cardinality(T) <= Cardinality(S)
<1>1. Len(Feed) \in Nat /\ Events = 1 .. Len(Feed)
  BY FeedAssumption DEF Events
<1>2. IsFiniteSet(Events) /\ Cardinality(Events) = Len(Feed)
  <2>1. 1 \in Int /\ Len(Feed) \in Int
    BY <1>1
  <2>2. /\ IsFiniteSet(1 .. Len(Feed))
        /\ Cardinality(1 .. Len(Feed)) = IF 1 > Len(Feed) THEN 0 ELSE Len(Feed) - 1 + 1
    BY <2>1, FS_Interval
  <2> QED BY <1>1, <2>2
<1>3. S \subseteq Events
  BY DEF IssuesTo
<1>4. IsFiniteSet(S) /\ Cardinality(S) <= Len(Feed)
  BY <1>2, <1>3, FS_Subset
<1> QED BY <1>4, FS_Subset, FS_CardinalityType

\* Nothing is counted or to be counted at the start.
LEMMA ActivityInit == DeliveryInit => ActivityInv
<1> SUFFICES ASSUME DeliveryInit
             PROVE  ActivityInv
  OBVIOUS
<1>1. ConsumersTyped
  <2>1. Down \in LoopDoc
    BY DEF Down, Waiting, LoopDoc
  <2>2. Missing \in Missing .. (Len(Feed) + 1)
    BY FeedAssumption DEF Missing
  <2>3. <<>> \in Seq(Events)
    OBVIOUS
  <2> QED BY <2>1, <2>2, <2>3 DEF DeliveryInit, ConsumersTyped
<1>2. Down.step = "down"
  BY DEF Down, Waiting
<1>3. MessagesFit /\ Ready
  BY <1>2 DEF DeliveryInit, MessagesFit, Ready, Busy
<1>4. Tallied
  <2>1. \A k, c : Counted(k, c) = {}
    BY DEF DeliveryInit, Counted, IssuesTo
  <2>2. \A k \in Consumers : loop[k]["issued"].step = "down"
    BY <1>2 DEF DeliveryInit, Kinds
  <2>3. \A c \in CustomerIds : counters[<<"activity", c>>] # 0
    BY DEF DeliveryInit, CounterNames, Missing
  <2> QED BY <2>1, <2>2, <2>3 DEF Tallied, Counting
<1> QED BY <1>1, <1>3, <1>4 DEF ActivityInv

\* Where nothing is counted and nothing but what waits is sent, all stays
\* tallied.
LEMMA TallyKept ==
    ASSUME ActivityInv, sent \subseteq Events, sent' \subseteq Events, counters' = counters,
           \A k \in Consumers : \A e \in sent : Feed[e].kind = "issued" /\ Waits(k, e) => Waits(k, e)',
           \A k \in Consumers : \A e \in sent' \ sent : Feed[e].kind = "issued" => Waits(k, e)',
           \A k \in Consumers, c \in CustomerIds : Counting(k, c)' =>
              \/ Counting(k, c) /\ loop'[k]["issued"].found = loop[k]["issued"].found
              \/ loop'[k]["issued"].found = (counters[<<"activity", c>>] # Missing)
    PROVE  Tallied'
<1> SUFFICES ASSUME NEW k \in Consumers, NEW c \in CustomerIds
             PROVE  (/\ counters[<<"activity", c>>] # 0
                     /\ Counted(k, c) # {} => Cardinality(Counted(k, c)) <= counters[<<"activity", c>>]
                     /\ Counting(k, c) =>
                           IF loop[k]["issued"].found THEN counters[<<"activity", c>>] # Missing
                                                      ELSE Counted(k, c) = {})'
  BY DEF Tallied
<1>1. PICK S : S = Counted(k, c)
  OBVIOUS
<1>2. PICK T : T = Counted(k, c)'
  OBVIOUS
<1>3. T \subseteq S
  BY <1>1, <1>2 DEF Counted, IssuesTo
<1>4. S \subseteq IssuesTo(c)
  BY <1>1 DEF Counted
<1>5. Cardinality(S) \in Nat /\ Cardinality(T) \in Nat /\ Cardinality(T) <= Cardinality(S)
  BY <1>3, <1>4, IssuesAreFinite
<1>6. <<"activity", c>> \in CounterNames
  BY DEF CounterNames
<1>7. counters[<<"activity", c>>] \in Int /\ Missing \in Int /\ Missing < 0
  BY <1>6, FeedAssumption DEF ActivityInv, ConsumersTyped, Missing
<1>8. S # {} => Cardinality(S) <= counters[<<"activity", c>>]
  BY <1>1 DEF ActivityInv, Tallied
<1>9. Counting(k, c)' =>
         IF loop'[k]["issued"].found THEN counters[<<"activity", c>>] # Missing ELSE T = {}
  <2>1. CASE Counting(k, c) /\ loop'[k]["issued"].found = loop[k]["issued"].found
    BY <1>1, <1>3, <2>1 DEF ActivityInv, Tallied
  <2>2. CASE loop'[k]["issued"].found = (counters[<<"activity", c>>] # Missing)
    <3>1. CASE counters[<<"activity", c>>] = Missing
      <4>1. S = {}
        BY <1>5, <1>7, <1>8, <3>1
      <4> QED BY <1>3, <2>2, <3>1, <4>1
    <3>2. CASE counters[<<"activity", c>>] # Missing
      BY <2>2, <3>2
    <3> QED BY <3>1, <3>2
  <2> QED BY <2>1, <2>2
<1>10. T # {} => Cardinality(T) <= counters[<<"activity", c>>]
  BY <1>3, <1>5, <1>7, <1>8
<1>11. counters[<<"activity", c>>] # 0
  BY DEF ActivityInv, Tallied
<1> QED BY <1>2, <1>9, <1>10, <1>11

\* What leaves consumers, counters and NATS alone keeps all tallied.
LEMMA QuietKeepsTally ==
    ASSUME ActivityInv, Ready', UNCHANGED <<inbox, loop, counters, sent>>
    PROVE  ActivityInv'
<1>1. /\ \A k : \A e : Waits(k, e) <=> Waits(k, e)'
      /\ \A k : \A c : Counting(k, c) <=> Counting(k, c)'
  BY DEF Waits, Counting
<1>2. \A k : \A c : Counted(k, c)' = Counted(k, c)
  BY <1>1 DEF Counted, IssuesTo
<1>3. Tallied'
  BY <1>1, <1>2 DEF ActivityInv, Tallied
<1>4. ConsumersTyped' /\ MessagesFit'
  BY DEF ActivityInv, ConsumersTyped, MessagesFit
<1> QED BY <1>3, <1>4 DEF ActivityInv

\* The dispatcher starts when all listen, and stops with its polls.
LEMMA DispatcherKeepsTally ==
    ASSUME Reliable, ActivityInv, \/ \E e \in Events : OutboxWrite(e)
                                  \/ StartDispatcher \/ CrashDispatcher
    PROVE  ActivityInv'
<1>1. UNCHANGED <<inbox, loop, counters, sent>>
  BY DEF OutboxWrite, StartDispatcher, CrashDispatcher, consumerVars, readModels, history
<1>2. CASE \E e \in Events : OutboxWrite(e)
  BY <1>1, <1>2, QuietKeepsTally DEF OutboxWrite, pollVars, ActivityInv, Ready, Listening
<1>3. CASE StartDispatcher
  <2>1. \A k \in Consumers : Listening(k)'
    BY <1>1, <1>3 DEF StartDispatcher, Reliable, Listening
  <2>2. \A p \in Polls : at[p] = "off" /\ at'[p] = at[p]
    BY <1>3 DEF StartDispatcher, ActivityInv, Ready
  <2> QED BY <1>1, <2>1, <2>2, QuietKeepsTally DEF Ready
<1>4. CASE CrashDispatcher
  BY <1>1, <1>4, QuietKeepsTally DEF CrashDispatcher, Ready
<1> QED BY <1>2, <1>3, <1>4

\* A message that goes out waits at every consumer.
LEMMA DeliverKeepsTally ==
    ASSUME ActivityInv, sent \subseteq Events, NEW e \in Events, Deliver(e), Ready',
           \A k \in Consumers : Listening(k), UNCHANGED <<loop, counters>>
    PROVE  ActivityInv'
<1>1. /\ Feed[e].kind \in Kinds
      /\ sent' = sent \cup {e} /\ sent' \subseteq Events
  BY CountersFit DEF EventDoc, Deliver
<1>2. inbox' = [k \in Consumers |-> [inbox[k] EXCEPT ![Feed[e].kind] = Append(@, e)]]
  BY DEF Deliver
<1>3. ASSUME NEW k \in Consumers, NEW kind \in Kinds
      PROVE  /\ inbox[k][kind] \in Seq(Events) /\ inbox'[k][kind] \in Seq(Events)
             /\ kind # Feed[e].kind => inbox'[k][kind] = inbox[k][kind]
             /\ kind = Feed[e].kind => inbox'[k][kind] = Append(inbox[k][kind], e)
  <2>1. inbox[k] \in [Kinds -> Seq(Events)]
    BY DEF ActivityInv, ConsumersTyped
  <2>2. inbox'[k] = [inbox[k] EXCEPT ![Feed[e].kind] = Append(@, e)]
    BY <1>2
  <2> QED BY <1>1, <2>1, <2>2
<1>4. inbox' \in [Consumers -> [Kinds -> Seq(Events)]]
  <2>1. ASSUME NEW k \in Consumers
        PROVE  inbox'[k] \in [Kinds -> Seq(Events)]
    <3>1. inbox[k] \in [Kinds -> Seq(Events)]
      BY DEF ActivityInv, ConsumersTyped
    <3> QED BY <1>1, <1>2, <1>3, <3>1
  <2> QED BY <1>2, <2>1
<1>5. ConsumersTyped'
  BY <1>4 DEF ActivityInv, ConsumersTyped
<1>6. MessagesFit'
  <2>1. ASSUME NEW k \in Consumers, NEW kind \in Kinds, NEW i \in DOMAIN inbox'[k][kind]
        PROVE  Feed[inbox'[k][kind][i]].kind = kind
    <3>1. \A j \in DOMAIN inbox[k][kind] : Feed[inbox[k][kind][j]].kind = kind
      BY DEF ActivityInv, MessagesFit
    <3>2. CASE kind # Feed[e].kind
      BY <1>3, <2>1, <3>1, <3>2
    <3>3. CASE kind = Feed[e].kind
      <4>1. PICK s \in Seq(Events) : s = inbox[k][kind]
        BY <1>3
      <4>2. inbox'[k][kind] = Append(s, e)
        BY <1>3, <3>3, <4>1
      <4>3. inbox'[k][kind][i] = e \/ (i \in DOMAIN s /\ inbox'[k][kind][i] = s[i])
        BY <4>2, <2>1
      <4> QED BY <3>1, <3>3, <4>1, <4>3
    <3> QED BY <3>2, <3>3
  <2> QED BY <2>1 DEF ActivityInv, MessagesFit
<1>7. Tallied'
  <2>1. ASSUME NEW k \in Consumers, NEW f \in sent, Feed[f].kind = "issued", Waits(k, f)
        PROVE  Waits(k, f)'
    <3>1. "issued" \in Kinds
      BY DEF Kinds
    <3>2. \A i \in DOMAIN inbox[k]["issued"] :
             i \in DOMAIN inbox'[k]["issued"] /\ inbox'[k]["issued"][i] = inbox[k]["issued"][i]
      <4>1. CASE Feed[e].kind = "issued"
        BY <1>3, <3>1, <4>1
      <4>2. CASE Feed[e].kind # "issued"
        BY <1>3, <3>1, <4>2
      <4> QED BY <4>1, <4>2
    <3> QED BY <2>1, <3>2 DEF Waits
  <2>2. ASSUME NEW k \in Consumers, NEW f \in sent' \ sent, Feed[f].kind = "issued"
        PROVE  Waits(k, f)'
    <3>1. f = e /\ "issued" \in Kinds
      BY <1>1 DEF Kinds
    <3>2. inbox'[k]["issued"] = Append(inbox[k]["issued"], e) /\ inbox[k]["issued"] \in Seq(Events)
      BY <1>3, <2>2, <3>1
    <3>3. /\ Len(inbox[k]["issued"]) + 1 \in DOMAIN inbox'[k]["issued"]
          /\ inbox'[k]["issued"][Len(inbox[k]["issued"]) + 1] = e
      BY <3>2
    <3> QED BY <3>1, <3>3 DEF Waits
  <2>3. \A k \in Consumers, c \in CustomerIds : Counting(k, c)' =>
           Counting(k, c) /\ loop'[k]["issued"].found = loop[k]["issued"].found
    BY DEF Counting
  <2> QED BY <1>1, <2>1, <2>2, <2>3, TallyKept
<1> QED BY <1>5, <1>6, <1>7 DEF ActivityInv

\* A poll sends while all listen, and changes nothing else here.
LEMMA PollKeepsTally ==
    ASSUME DispatchInv, ActivityInv, NEW p \in Polls, PollStep(p)
    PROVE  ActivityInv'
<1>1. at \in [Polls -> {"off", "publish", "mark", "retry"}] /\ sent \subseteq Events
  BY DEF DispatchInv, DispatcherTypeOK
<1>2. dispatcher = "polling"
  BY <1>1 DEF PollStep, LoadBatch, Publish, MarkPublished, RecordRetry, ActivityInv, Ready
<1>3. /\ \A k \in Consumers : Listening(k)
      /\ UNCHANGED <<dispatcher, loop, counters>>
  BY <1>2
  DEF ActivityInv, Ready, PollStep, LoadBatch, Publish, MarkPublished, RecordRetry,
      outboxVars, consumerVars, readModels, history
<1>4. Ready'
  BY <1>2, <1>3 DEF Ready, Listening
<1>5. CASE \E e \in Events : Deliver(e)
  BY <1>1, <1>3, <1>4, <1>5, DeliverKeepsTally
<1>6. CASE UNCHANGED <<inbox, sent>>
  BY <1>3, <1>4, <1>6, QuietKeepsTally
<1>7. (\E e \in Events : Deliver(e)) \/ UNCHANGED <<inbox, sent>>
  <2>1. \A e \in DOMAIN batch[p] : e \in Events
    BY DEF DispatchInv, DispatcherTypeOK
  <2> QED BY <2>1
    DEF PollStep, LoadBatch, Publish, Lose, MarkPublished, RecordRetry, consumerVars, history
<1> QED BY <1>5, <1>6, <1>7

\* A process that subscribes has no messages yet, and nobody polls.
LEMMA SubscribeKeepsTally ==
    ASSUME ActivityInv, sent \subseteq Events, NEW k \in Consumers, Subscribe(k)
    PROVE  ActivityInv'
<1>1. PICK l \in {Waiting, [Waiting EXCEPT !.step = "dead"]} :
         loop' = [loop EXCEPT ![k] = [kind \in Kinds |-> l]]
  BY DEF Subscribe
<1>2. /\ \A kind \in Kinds : loop[k][kind].step = "down"
      /\ UNCHANGED <<at, dispatcher, inbox, counters, sent>>
  BY DEF Subscribe, pollVars, readModels, history
<1>3. l \in LoopDoc /\ l.step \notin Busy /\ l.step # "count"
  <2>1. PICK t \in {"wait", "dead"} : l = [step |-> t, event |-> 0, left |-> <<>>, found |-> FALSE]
    BY <1>1 DEF Waiting
  <2>2. l \in LoopDoc
    BY <2>1 DEF LoopDoc
  <2>3. l.step = t
    BY <2>1
  <2> QED BY <2>2, <2>3 DEF Busy
<1>4. /\ \A kind \in Kinds : loop'[k][kind] = l
      /\ \A j \in Consumers \ {k} : loop'[j] = loop[j]
      /\ loop' \in [Consumers -> [Kinds -> LoopDoc]]
  BY <1>1, <1>3 DEF ActivityInv, ConsumersTyped
<1>5. "issued" \in Kinds
  BY DEF Kinds
<1>6. ConsumersTyped'
  BY <1>2, <1>4 DEF ActivityInv, ConsumersTyped
<1>7. MessagesFit'
  BY <1>2, <1>3, <1>4 DEF ActivityInv, MessagesFit
<1>8. Ready'
  <2>1. dispatcher # "polling"
    BY <1>2, <1>5 DEF ActivityInv, Ready, Listening
  <2> QED BY <1>2, <2>1 DEF ActivityInv, Ready
<1>9. Tallied'
  <2>1. ASSUME NEW j \in Consumers, NEW e, Waits(j, e)
        PROVE  Waits(j, e)'
    <3>1. CASE j = k
      BY <1>2, <1>5, <2>1, <3>1 DEF Waits, Busy
    <3>2. CASE j # k
      BY <1>2, <1>4, <2>1, <3>2 DEF Waits
    <3> QED BY <3>1, <3>2
  <2>2. ASSUME NEW j \in Consumers, NEW c \in CustomerIds, Counting(j, c)'
        PROVE  Counting(j, c) /\ loop'[j]["issued"].found = loop[j]["issued"].found
    <3>1. j # k
      BY <1>3, <1>4, <1>5, <2>2 DEF Counting
    <3> QED BY <1>4, <2>2, <3>1 DEF Counting
  <2> QED BY <1>2, <2>1, <2>2, TallyKept
<1> QED BY <1>6, <1>7, <1>8, <1>9 DEF ActivityInv

\* A loop that moves: what every step of a loop leaves as it was.
LEMMA LoopMoves ==
    ASSUME ActivityInv, NEW k \in Consumers, NEW kind \in Kinds, NEW l \in LoopDoc,
           MoveLoop(k, kind, l), l.step \notin {"down", "dead"},
           loop[k][kind].step \notin {"down", "dead"}, UNCHANGED <<at, dispatcher>>
    PROVE  /\ loop' \in [Consumers -> [Kinds -> LoopDoc]] /\ Ready'
           /\ loop'[k][kind] = l
           /\ \A j \in Consumers, q \in Kinds : j # k \/ q # kind => loop'[j][q] = loop[j][q]
<1>1. /\ loop \in [Consumers -> [Kinds -> LoopDoc]]
      /\ loop' = [loop EXCEPT ![k][kind] = l]
  BY DEF ActivityInv, ConsumersTyped, MoveLoop
<1>2. loop[k] \in [Kinds -> LoopDoc]
  BY <1>1
<1>3. loop'[k] = [loop[k] EXCEPT ![kind] = l] /\ \A j \in Consumers \ {k} : loop'[j] = loop[j]
  BY <1>1
<1>4. /\ loop'[k][kind] = l
      /\ \A j \in Consumers, q \in Kinds : j # k \/ q # kind => loop'[j][q] = loop[j][q]
  BY <1>2, <1>3
<1>5. loop' \in [Consumers -> [Kinds -> LoopDoc]]
  <2>1. loop'[k] \in [Kinds -> LoopDoc]
    BY <1>2, <1>3
  <2>2. ASSUME NEW j \in Consumers
        PROVE  loop'[j] \in [Kinds -> LoopDoc]
    BY <1>1, <1>3, <2>1
  <2> QED BY <1>1, <2>2
<1>6. Ready'
  <2>1. \A j \in Consumers : Listening(j) => Listening(j)'
    BY <1>4 DEF Listening
  <2> QED BY <2>1 DEF ActivityInv, Ready
<1> QED BY <1>4, <1>5, <1>6

\* A step within a message that leaves the counters alone.
LEMMA StepKeepsTally ==
    ASSUME ActivityInv, sent \subseteq Events, NEW k \in Consumers, NEW kind \in Kinds,
           \/ SetBalance(k, kind) \/ Summarise(k, kind) \/ FindCounter(k, kind)
    PROVE  ActivityInv'
<1>1. PICK m : m = loop[k][kind]
  OBVIOUS
<1>2. m \in LoopDoc
  BY <1>1 DEF ActivityInv, ConsumersTyped
<1>3. PICK s \in {"summary", "find", "count"}, b \in BOOLEAN :
         /\ MoveLoop(k, kind, [m EXCEPT !.step = s, !.found = b])
         /\ s = "count" => b = (counters[Head(m.left)] # Missing)
  <2>1. CASE SetBalance(k, kind)
    <3>1. [m EXCEPT !.step = "summary"] = [m EXCEPT !.step = "summary", !.found = m.found]
      BY <1>2 DEF LoopDoc
    <3> QED BY <1>1, <1>2, <2>1, <3>1 DEF SetBalance, LoopDoc
  <2>2. CASE Summarise(k, kind)
    <3>1. [m EXCEPT !.step = "find"] = [m EXCEPT !.step = "find", !.found = m.found]
      BY <1>2 DEF LoopDoc
    <3> QED BY <1>1, <1>2, <2>2, <3>1 DEF Summarise, LoopDoc
  <2>3. CASE FindCounter(k, kind)
    BY <1>1, <2>3 DEF FindCounter
  <2> QED BY <2>1, <2>2, <2>3
<1>4. PICK l : l = [m EXCEPT !.step = s, !.found = b]
  OBVIOUS
<1>5. /\ l \in LoopDoc /\ l.step = s /\ l.found = b /\ l.event = m.event /\ l.left = m.left
      /\ l.step \in Busy
  BY <1>2, <1>4 DEF LoopDoc, Busy
<1>6. m.step \in {"balance", "summary", "find"} /\ UNCHANGED <<inbox, counters, sent, at, dispatcher>>
  BY <1>1 DEF SetBalance, Summarise, FindCounter, pollVars, history, readModels
<1>7. /\ loop' \in [Consumers -> [Kinds -> LoopDoc]] /\ Ready' /\ loop'[k][kind] = l
      /\ \A j \in Consumers, q \in Kinds : j # k \/ q # kind => loop'[j][q] = loop[j][q]
  <2>1. MoveLoop(k, kind, l)
    BY <1>3, <1>4
  <2>2. l.step \notin {"down", "dead"} /\ loop[k][kind].step \notin {"down", "dead"}
    BY <1>1, <1>5, <1>6
  <2> QED BY <1>5, <1>6, <2>1, <2>2, LoopMoves
<1>8. m.step \in Busy
  BY <1>6 DEF Busy
<1>9. ConsumersTyped'
  BY <1>6, <1>7 DEF ActivityInv, ConsumersTyped
<1>10. MessagesFit'
  <2>1. ASSUME NEW j \in Consumers, NEW q \in Kinds, loop'[j][q].step \in Busy
        PROVE  /\ loop'[j][q].event \in Events /\ Feed[loop'[j][q].event].kind = q
               /\ loop'[j][q].left \in {CountersOf(loop'[j][q].event), Daily}
    <3>1. loop'[j][q].event = loop[j][q].event /\ loop'[j][q].left = loop[j][q].left
      BY <1>1, <1>5, <1>7
    <3>2. loop[j][q].step \in Busy
      BY <1>1, <1>7, <1>8, <2>1
    <3> QED BY <3>1, <3>2 DEF ActivityInv, MessagesFit
  <2> QED BY <1>6, <2>1 DEF ActivityInv, MessagesFit
<1>11. Tallied'
  <2>1. "issued" \in Kinds
    BY DEF Kinds
  <2>2. ASSUME NEW j \in Consumers, NEW e, Waits(j, e)
        PROVE  Waits(j, e)'
    <3>1. loop'[j]["issued"].event = loop[j]["issued"].event /\ loop'[j]["issued"].left = loop[j]["issued"].left
      BY <1>1, <1>5, <1>7, <2>1
    <3>2. loop[j]["issued"].step \in Busy => loop'[j]["issued"].step \in Busy
      BY <1>1, <1>5, <1>7, <2>1
    <3> QED BY <1>6, <2>2, <3>1, <3>2 DEF Waits
  <2>3. ASSUME NEW j \in Consumers, NEW c \in CustomerIds, Counting(j, c)'
        PROVE  \/ Counting(j, c) /\ loop'[j]["issued"].found = loop[j]["issued"].found
               \/ loop'[j]["issued"].found = (counters[<<"activity", c>>] # Missing)
    <3>1. CASE j = k /\ kind = "issued"
      <4>1. l.step = "count" /\ l.left = CountersOf(l.event) /\ Feed[l.event].cust = c
        BY <1>7, <2>3, <3>1 DEF Counting
      <4>2. l.event \in Events /\ Feed[l.event].kind = "issued"
        BY <1>1, <1>5, <1>8, <3>1, <2>1 DEF ActivityInv, MessagesFit
      <4>3. Head(m.left) = <<"activity", c>>
        BY <1>5, <4>1, <4>2, CountersFit
      <4> QED BY <1>3, <1>5, <1>7, <3>1, <4>1, <4>3
    <3>2. CASE j # k \/ kind # "issued"
      BY <1>7, <2>1, <2>3, <3>2 DEF Counting
    <3> QED BY <3>1, <3>2
  <2> QED BY <1>6, <2>2, <2>3, TallyKept
<1> QED BY <1>7, <1>9, <1>10, <1>11 DEF ActivityInv

\* A message taken out of the inbox waits in the loop.
LEMMA TakeKeepsTally ==
    ASSUME ActivityInv, sent \subseteq Events, NEW k \in Consumers, NEW kind \in Kinds, Take(k, kind)
    PROVE  ActivityInv'
<1>1. PICK s \in Seq(Events) : s = inbox[k][kind]
  BY DEF ActivityInv, ConsumersTyped
<1>2. /\ s # <<>> /\ loop[k][kind].step = "wait"
      /\ inbox' = [inbox EXCEPT ![k][kind] = Tail(@)]
      /\ UNCHANGED <<counters, sent, at, dispatcher>>
  BY <1>1 DEF Take, pollVars, readModels, history
<1>3. PICK e \in Events : e = Head(s)
  BY <1>1, <1>2
<1>4. Feed[e].kind = kind /\ e = s[1] /\ 1 \in DOMAIN s
  <2>1. e = s[1] /\ 1 \in DOMAIN s
    BY <1>1, <1>2, <1>3
  <2> QED BY <1>1, <2>1 DEF ActivityInv, MessagesFit
<1>5. PICK l : l = [step |-> "balance", event |-> e, left |-> CountersOf(e), found |-> FALSE]
  OBVIOUS
<1>6. l \in LoopDoc /\ l.step = "balance" /\ l.event = e /\ l.left = CountersOf(e)
  BY <1>5 DEF LoopDoc, Busy
<1>7. MoveLoop(k, kind, l)
  BY <1>1, <1>3, <1>5 DEF Take
<1>8. /\ loop' \in [Consumers -> [Kinds -> LoopDoc]] /\ Ready' /\ loop'[k][kind] = l
      /\ \A j \in Consumers, q \in Kinds : j # k \/ q # kind => loop'[j][q] = loop[j][q]
  BY <1>2, <1>6, <1>7, LoopMoves
<1>9. /\ inbox' \in [Consumers -> [Kinds -> Seq(Events)]]
      /\ inbox'[k][kind] = Tail(s)
      /\ \A j \in Consumers, q \in Kinds : j # k \/ q # kind => inbox'[j][q] = inbox[j][q]
  <2>1. inbox \in [Consumers -> [Kinds -> Seq(Events)]] /\ Tail(s) \in Seq(Events)
    BY <1>1, <1>2 DEF ActivityInv, ConsumersTyped
  <2>2. inbox[k] \in [Kinds -> Seq(Events)]
    BY <2>1
  <2>3. inbox'[k] = [inbox[k] EXCEPT ![kind] = Tail(s)] /\ \A j \in Consumers \ {k} : inbox'[j] = inbox[j]
    BY <1>1, <1>2, <2>1
  <2>4. inbox'[k] \in [Kinds -> Seq(Events)]
    BY <2>1, <2>2, <2>3
  <2>5. \A j \in Consumers : inbox'[j] \in [Kinds -> Seq(Events)]
    BY <2>1, <2>3, <2>4
  <2> QED BY <1>2, <2>1, <2>2, <2>3, <2>5
<1>10. \A i \in DOMAIN Tail(s) : i + 1 \in DOMAIN s /\ Tail(s)[i] = s[i + 1]
  BY <1>1, <1>2
<1>11. \A i \in DOMAIN s : i = 1 \/ (i - 1 \in DOMAIN Tail(s) /\ Tail(s)[i - 1] = s[i])
  BY <1>1, <1>2
<1>12. ConsumersTyped'
  BY <1>2, <1>8, <1>9 DEF ActivityInv, ConsumersTyped
<1>13. MessagesFit'
  <2>1. ASSUME NEW j \in Consumers, NEW q \in Kinds, NEW i \in DOMAIN inbox'[j][q]
        PROVE  Feed[inbox'[j][q][i]].kind = q
    <3>1. CASE j = k /\ q = kind
      <4>1. i + 1 \in DOMAIN s /\ inbox'[j][q][i] = s[i + 1]
        BY <1>9, <1>10, <2>1, <3>1
      <4> QED BY <1>1, <3>1, <4>1 DEF ActivityInv, MessagesFit
    <3>2. CASE j # k \/ q # kind
      <4>1. inbox'[j][q] = inbox[j][q]
        BY <1>9, <3>2
      <4> QED BY <2>1, <4>1 DEF ActivityInv, MessagesFit
    <3> QED BY <3>1, <3>2
  <2>2. ASSUME NEW j \in Consumers, NEW q \in Kinds, loop'[j][q].step \in Busy
        PROVE  /\ loop'[j][q].event \in Events /\ Feed[loop'[j][q].event].kind = q
               /\ loop'[j][q].left \in {CountersOf(loop'[j][q].event), Daily}
    <3>1. CASE j = k /\ q = kind
      BY <1>4, <1>6, <1>8, <3>1
    <3>2. CASE j # k \/ q # kind
      BY <1>8, <2>2, <3>2 DEF ActivityInv, MessagesFit
    <3> QED BY <3>1, <3>2
  <2> QED BY <2>1, <2>2 DEF MessagesFit
<1>14. Tallied'
  <2>1. "issued" \in Kinds
    BY DEF Kinds
  <2>2. ASSUME NEW j \in Consumers, NEW f, Waits(j, f)
        PROVE  Waits(j, f)'
    <3>1. CASE j = k /\ kind = "issued"
      <4>1. PICK i \in DOMAIN s : s[i] = f
        BY <1>1, <1>2, <2>2, <3>1 DEF Waits, Busy
      <4>2. CASE i = 1
        BY <1>4, <1>6, <1>8, <3>1, <4>1, <4>2 DEF Waits, Busy
      <4>3. CASE i # 1
        BY <1>9, <1>11, <3>1, <4>1, <4>3 DEF Waits
      <4> QED BY <4>2, <4>3
    <3>2. CASE j # k \/ kind # "issued"
      BY <1>8, <1>9, <2>1, <2>2, <3>2 DEF Waits
    <3> QED BY <3>1, <3>2
  <2>3. ASSUME NEW j \in Consumers, NEW c \in CustomerIds, Counting(j, c)'
        PROVE  Counting(j, c) /\ loop'[j]["issued"].found = loop[j]["issued"].found
    <3>1. j # k \/ kind # "issued"
      BY <1>6, <1>8, <2>3 DEF Counting
    <3> QED BY <1>8, <2>1, <2>3, <3>1 DEF Counting
  <2> QED BY <1>2, <2>2, <2>3, TallyKept
<1> QED BY <1>8, <1>12, <1>13, <1>14 DEF ActivityInv

\* One more than a count is not less than it, and enough for one more event.
LEMMA BoundedCounts ==
    ASSUME NEW n \in Missing .. (Len(Feed) + 1)
    PROVE  /\ Bounded(n + 1) \in Missing .. (Len(Feed) + 1) /\ n <= Bounded(n + 1)
           /\ \A m \in 0 .. Len(Feed) : m <= n + 1 => m <= Bounded(n + 1)
<1>1. Len(Feed) \in Nat
  BY FeedAssumption
<1> QED BY <1>1 DEF Bounded, Missing

\* What counting does to the counters: none of them falls.
LEMMA CountersGrow ==
    ASSUME ActivityInv, NEW k \in Consumers, NEW kind \in Kinds, Count(k, kind),
           NEW name, name = Head(loop[k][kind].left), NEW found, found = loop[k][kind].found
    PROVE  /\ name \in CounterNames /\ found \in BOOLEAN
           /\ counters' \in [CounterNames -> Missing .. (Len(Feed) + 1)]
           /\ \A x \in CounterNames : counters[x] <= counters'[x]
           /\ \A x \in CounterNames \ {name} : counters'[x] = counters[x]
           /\ counters'[name] = IF found THEN Bounded(counters[name] + 1)
                                ELSE IF counters[name] = Missing THEN 1 ELSE counters[name]
<1>1. counters \in [CounterNames -> Missing .. (Len(Feed) + 1)] /\ Len(Feed) \in Nat
  BY FeedAssumption DEF ActivityInv, ConsumersTyped
<1>2. name \in CounterNames
  <2>1. loop[k][kind].step \in Busy
    BY DEF Count, Busy
  <2>2. loop[k][kind].left \in {CountersOf(loop[k][kind].event), Daily} /\ loop[k][kind].event \in Events
    BY <2>1 DEF ActivityInv, MessagesFit
  <2>3. <<"daily">> \in CounterNames
    BY DEF CounterNames
  <2> QED BY <2>2, <2>3, CountersFit
<1>3. loop[k][kind] \in LoopDoc
  BY DEF ActivityInv, ConsumersTyped
<1>4. found \in BOOLEAN
  BY <1>3 DEF LoopDoc
<1>5. PICK n : n = counters[name]
  OBVIOUS
<1>6. PICK n1 : n1 = IF found THEN Bounded(n + 1) ELSE IF n = Missing THEN 1 ELSE n
  OBVIOUS
<1>7. counters' = [counters EXCEPT ![name] = n1]
  BY <1>5, <1>6 DEF Count
<1>8. n1 \in Missing .. (Len(Feed) + 1) /\ n <= n1
  <2>1. n \in Missing .. (Len(Feed) + 1)
    BY <1>1, <1>2, <1>5
  <2>2. CASE found
    BY <1>6, <2>1, <2>2, BoundedCounts
  <2>3. CASE ~found
    BY <1>1, <1>6, <2>1, <2>3 DEF Missing
  <2> QED BY <2>2, <2>3
<1>9. counters'[name] = n1 /\ \A x \in CounterNames \ {name} : counters'[x] = counters[x]
  BY <1>1, <1>2, <1>7
<1>10. counters' \in [CounterNames -> Missing .. (Len(Feed) + 1)]
  BY <1>1, <1>7, <1>8
<1>11. \A x \in CounterNames : counters[x] <= counters'[x]
  <2>1. ASSUME NEW x \in CounterNames
        PROVE  counters[x] <= counters'[x]
    <3>1. counters[x] \in Int
      BY <1>1 DEF Missing
    <3>2. CASE x = name
      BY <1>5, <1>8, <1>9, <3>2
    <3>3. CASE x # name
      BY <1>9, <3>1, <3>3
    <3> QED BY <3>2, <3>3
  <2> QED BY <2>1
<1> QED BY <1>2, <1>4, <1>5, <1>6, <1>9, <1>10, <1>11

\* A counter that is written goes to the next, or ends the message.
LEMMA CountMoves ==
    ASSUME ActivityInv, NEW k \in Consumers, NEW kind \in Kinds, Count(k, kind),
           NEW m, m = loop[k][kind]
    PROVE  /\ m \in LoopDoc /\ m.step = "count" /\ m.event \in Events /\ Feed[m.event].kind = kind
           /\ m.left \in {CountersOf(m.event), Daily}
           /\ UNCHANGED <<inbox, sent, at, dispatcher>>
           /\ loop' \in [Consumers -> [Kinds -> LoopDoc]] /\ Ready'
           /\ loop'[k][kind].step \in {"wait", "find"}
           /\ loop'[k][kind].step = "find" =>
                 loop'[k][kind].event = m.event /\ loop'[k][kind].left = Daily
           /\ \A j \in Consumers, q \in Kinds : j # k \/ q # kind => loop'[j][q] = loop[j][q]
<1>1. m \in LoopDoc /\ m.step = "count" /\ UNCHANGED <<inbox, sent, at, dispatcher>>
  BY DEF ActivityInv, ConsumersTyped, Count, pollVars, history
<1>2. m.event \in Events /\ Feed[m.event].kind = kind /\ m.left \in {CountersOf(m.event), Daily}
  BY <1>1 DEF ActivityInv, MessagesFit, Busy
<1>3. PICK rest \in {<<>>, Daily} : rest = Tail(m.left)
  BY <1>2, CountersFit
<1>4. PICK l : l = IF rest = <<>> THEN Waiting
                   ELSE [m EXCEPT !.step = "find", !.left = rest, !.found = FALSE]
  OBVIOUS
<1>5. MoveLoop(k, kind, l)
  BY <1>3, <1>4 DEF Count
<1>6. /\ l \in LoopDoc /\ l.step \in {"wait", "find"}
      /\ l.step = "find" => l.event = m.event /\ l.left = Daily
  <2>1. CASE rest = <<>>
    BY <1>4, <2>1 DEF Waiting, LoopDoc
  <2>2. CASE rest # <<>>
    <3>1. l = [m EXCEPT !.step = "find", !.left = Daily, !.found = FALSE]
      BY <1>3, <1>4, <2>2
    <3> QED BY <1>1, <3>1 DEF LoopDoc, Busy
  <2> QED BY <2>1, <2>2
<1>7. l.step \notin {"down", "dead"} /\ loop[k][kind].step \notin {"down", "dead"}
  BY <1>1, <1>6
<1>8. /\ loop' \in [Consumers -> [Kinds -> LoopDoc]] /\ Ready' /\ loop'[k][kind] = l
      /\ \A j \in Consumers, q \in Kinds : j # k \/ q # kind => loop'[j][q] = loop[j][q]
  BY <1>1, <1>5, <1>6, <1>7, LoopMoves
<1> QED BY <1>1, <1>2, <1>6, <1>8

\* Only the count of the customer's own activity adds an issue to those that
\* are counted.
LEMMA CountAddsOne ==
    ASSUME ActivityInv, sent \subseteq Events, NEW k \in Consumers, NEW kind \in Kinds, Count(k, kind),
           NEW m, m = loop[k][kind], NEW j \in Consumers, NEW c \in CustomerIds
    PROVE  \/ Counted(j, c)' \subseteq Counted(j, c)
           \/ /\ j = k /\ kind = "issued" /\ m.left = CountersOf(m.event) /\ Counting(k, c)
              /\ Counted(j, c)' \subseteq Counted(j, c) \cup {m.event}
<1>1. /\ m.step = "count" /\ m.event \in Events /\ Feed[m.event].kind = kind
      /\ m.left \in {CountersOf(m.event), Daily} /\ UNCHANGED <<inbox, sent>>
      /\ \A i \in Consumers, q \in Kinds : i # k \/ q # kind => loop'[i][q] = loop[i][q]
  BY CountMoves
<1>2. "issued" \in Kinds
  BY DEF Kinds
<1>3. CASE j # k \/ kind # "issued"
  <2>1. \A e : Waits(j, e) => Waits(j, e)'
    BY <1>1, <1>2, <1>3 DEF Waits
  <2> QED BY <1>1, <2>1 DEF Counted, IssuesTo
<1>4. CASE j = k /\ kind = "issued"
  <2>1. \A e \in sent : Waits(k, e) =>
           Waits(k, e)' \/ (e = m.event /\ m.left = CountersOf(m.event))
    BY <1>1, <1>4 DEF Waits
  <2>2. CASE m.left = CountersOf(m.event) /\ Feed[m.event].cust = c
    <3>1. Counting(k, c)
      BY <1>1, <1>4, <2>2 DEF Counting
    <3> QED BY <1>1, <1>4, <2>1, <2>2, <3>1 DEF Counted, IssuesTo
  <2>3. CASE m.left # CountersOf(m.event) \/ Feed[m.event].cust # c
    BY <1>1, <1>4, <2>1, <2>3 DEF Counted, IssuesTo
  <2> QED BY <2>2, <2>3
<1> QED BY <1>3, <1>4

\* A count keeps all tallied: its customer's counter rises with what is
\* counted, unless it has not been there when it was looked for, and then
\* nothing was.
LEMMA CountKeepsTally ==
    ASSUME ActivityInv, sent \subseteq Events, NEW k \in Consumers, NEW kind \in Kinds, Count(k, kind)
    PROVE  ActivityInv'
<1>1. PICK m : m = loop[k][kind]
  OBVIOUS
<1>2. /\ m \in LoopDoc /\ m.step = "count" /\ m.event \in Events /\ Feed[m.event].kind = kind
      /\ m.left \in {CountersOf(m.event), Daily}
      /\ UNCHANGED <<inbox, sent, at, dispatcher>>
      /\ loop' \in [Consumers -> [Kinds -> LoopDoc]] /\ Ready'
      /\ loop'[k][kind].step \in {"wait", "find"}
      /\ loop'[k][kind].step = "find" =>
            loop'[k][kind].event = m.event /\ loop'[k][kind].left = Daily
      /\ \A j \in Consumers, q \in Kinds : j # k \/ q # kind => loop'[j][q] = loop[j][q]
  BY <1>1, CountMoves
<1>3. PICK name : name = Head(m.left)
  OBVIOUS
<1>4. /\ name \in CounterNames /\ m.found \in BOOLEAN
      /\ counters' \in [CounterNames -> Missing .. (Len(Feed) + 1)]
      /\ \A x \in CounterNames : counters[x] <= counters'[x]
      /\ \A x \in CounterNames \ {name} : counters'[x] = counters[x]
      /\ counters'[name] = IF m.found THEN Bounded(counters[name] + 1)
                           ELSE IF counters[name] = Missing THEN 1 ELSE counters[name]
  BY <1>1, <1>3, CountersGrow
<1>5. ConsumersTyped'
  BY <1>2, <1>4 DEF ActivityInv, ConsumersTyped
<1>6. MessagesFit'
  <2>1. ASSUME NEW j \in Consumers, NEW q \in Kinds, loop'[j][q].step \in Busy
        PROVE  /\ loop'[j][q].event \in Events /\ Feed[loop'[j][q].event].kind = q
               /\ loop'[j][q].left \in {CountersOf(loop'[j][q].event), Daily}
    <3>1. CASE j = k /\ q = kind
      BY <1>2, <2>1, <3>1 DEF Busy
    <3>2. CASE j # k \/ q # kind
      BY <1>2, <2>1, <3>2 DEF ActivityInv, MessagesFit
    <3> QED BY <3>1, <3>2
  <2> QED BY <1>2, <2>1 DEF ActivityInv, MessagesFit
<1>7. ASSUME NEW j \in Consumers, NEW c \in CustomerIds
      PROVE  (/\ counters[<<"activity", c>>] # 0
              /\ Counted(j, c) # {} => Cardinality(Counted(j, c)) <= counters[<<"activity", c>>]
              /\ Counting(j, c) =>
                    IF loop[j]["issued"].found THEN counters[<<"activity", c>>] # Missing
                                               ELSE Counted(j, c) = {})'
  <2>1. PICK S : S = Counted(j, c)
    OBVIOUS
  <2>2. PICK T : T = Counted(j, c)'
    OBVIOUS
  <2>3. PICK x : x = <<"activity", c>>
    OBVIOUS
  <2>4. x \in CounterNames /\ "issued" \in Kinds
    BY <2>3 DEF CounterNames, Kinds
  <2>5. PICK n : n = counters[x]
    OBVIOUS
  <2>6. PICK n1 : n1 = counters'[x]
    OBVIOUS
  <2>7. n \in Missing .. (Len(Feed) + 1) /\ n1 \in Missing .. (Len(Feed) + 1) /\ n <= n1 /\ n # 0
    BY <1>4, <2>3, <2>4, <2>5, <2>6 DEF ActivityInv, ConsumersTyped, Tallied
  <2>8. /\ IsFiniteSet(S) /\ Cardinality(S) \in Nat
        /\ IsFiniteSet(T) /\ Cardinality(T) \in Nat /\ Cardinality(T) <= Len(Feed)
    <3>1. S \subseteq IssuesTo(c) /\ T \subseteq IssuesTo(c)
      BY <1>2, <2>1, <2>2 DEF Counted, IssuesTo
    <3> QED BY <3>1, IssuesAreFinite
  <2>9. /\ S # {} => Cardinality(S) <= n
        /\ Counting(j, c) => IF loop[j]["issued"].found THEN n # Missing ELSE S = {}
    BY <2>1, <2>3, <2>5 DEF ActivityInv, Tallied
  <2>10. S = {} => Cardinality(S) = 0
    BY FS_EmptySet
  <2>11. Len(Feed) \in Nat
    BY FeedAssumption
  <2>12. x = name => kind = "issued" /\ m.left = CountersOf(m.event) /\ Counting(k, c)
    <3>1. ASSUME x = name
          PROVE  kind = "issued" /\ m.left = CountersOf(m.event) /\ Counting(k, c)
      <4>1. m.left = CountersOf(m.event)
        BY <1>2, <1>3, <2>3, <3>1, CountersFit
      <4>2. kind = "issued"
        BY <1>2, <1>3, <2>3, <3>1, <4>1, CountersFit DEF Kinds
      <4>3. Feed[m.event].cust = c
        BY <1>2, <1>3, <2>3, <3>1, <4>1, <4>2, CountersFit
      <4> QED BY <1>1, <1>2, <4>1, <4>2, <4>3 DEF Counting
    <3> QED BY <3>1
  <2>13. x = name => /\ m.found => n # Missing
                     /\ ~m.found => \A i \in Consumers : i = k => Counted(i, c) = {}
    BY <1>1, <2>3, <2>5, <2>12 DEF ActivityInv, Tallied
  <2>14. x = name => n1 = IF m.found THEN Bounded(n + 1) ELSE IF n = Missing THEN 1 ELSE n
    BY <1>4, <2>5, <2>6
  <2>15. n1 # 0
    <3>1. CASE x # name
      BY <1>4, <2>4, <2>5, <2>6, <2>7, <3>1
    <3>2. CASE x = name /\ m.found
      BY <2>7, <2>13, <3>2 DEF Missing
    <3>3. CASE x = name /\ ~m.found
      BY <2>7, <2>14, <3>3
    <3> QED BY <3>1, <3>2, <3>3
  <2>16. T # {} => Cardinality(T) <= n1
    <3>1. CASE T \subseteq S
      <4>1. Cardinality(T) <= Cardinality(S)
        BY <2>8, <3>1, FS_Subset
      <4> QED BY <2>7, <2>8, <2>9, <3>1, <4>1 DEF Missing
    <3>2. CASE /\ j = k /\ kind = "issued" /\ m.left = CountersOf(m.event) /\ Counting(k, c)
               /\ T \subseteq S \cup {m.event}
      <4>1. Cardinality(T) <= Cardinality(S) + 1
        <5>1. /\ IsFiniteSet(S \cup {m.event})
              /\ Cardinality(S \cup {m.event}) = IF m.event \in S THEN Cardinality(S)
                                                                ELSE Cardinality(S) + 1
          BY <2>8, FS_AddElement
        <5>2. Cardinality(T) <= Cardinality(S \cup {m.event})
          BY <3>2, <5>1, FS_Subset
        <5> QED BY <2>8, <5>1, <5>2
      <4>2. x = name
        <5>1. Feed[m.event].cust = c
          BY <1>1, <3>2 DEF Counting
        <5> QED BY <1>2, <1>3, <2>3, <3>2, <5>1, CountersFit
      <4>3. CASE m.found
        <5>1. Cardinality(T) <= n + 1
          BY <2>7, <2>8, <2>9, <2>10, <2>13, <4>1, <4>2, <4>3 DEF Missing
        <5> QED BY <2>7, <2>8, <2>11, <2>14, <4>2, <4>3, <5>1, BoundedCounts
      <4>4. CASE ~m.found
        <5>1. S = {}
          BY <2>1, <2>13, <3>2, <4>2, <4>4
        <5>2. Cardinality(T) <= 1
          BY <2>8, <2>10, <4>1, <5>1
        <5>3. n1 >= 1
          BY <2>7, <2>14, <4>2, <4>4 DEF Missing
        <5> QED BY <2>7, <2>8, <5>2, <5>3 DEF Missing
      <4> QED BY <1>4, <4>3, <4>4
    <3> QED BY <1>1, <1>2, <2>1, <2>2, <3>1, <3>2, CountAddsOne
  <2>17. Counting(j, c)' => IF loop'[j]["issued"].found THEN n1 # Missing ELSE T = {}
    <3> SUFFICES ASSUME Counting(j, c)'
                 PROVE  IF loop'[j]["issued"].found THEN n1 # Missing ELSE T = {}
      OBVIOUS
    <3>1. j # k \/ kind # "issued"
      BY <1>2 DEF Counting
    <3>2. Counting(j, c) /\ loop'[j]["issued"] = loop[j]["issued"]
      BY <1>2, <2>4, <3>1 DEF Counting
    <3>3. T \subseteq S
      BY <1>1, <1>2, <2>1, <2>2, <3>1, CountAddsOne
    <3> QED BY <2>7, <2>9, <3>2, <3>3 DEF Missing
  <2> QED BY <2>2, <2>3, <2>6, <2>15, <2>16, <2>17
<1> QED BY <1>2, <1>5, <1>6, <1>7 DEF ActivityInv, Tallied

\* Reliable consumers keep all tallied, whatever the dispatcher meets with.
LEMMA NextKeepsTally ==
    ASSUME Reliable, DispatchInv, ActivityInv, [DeliveryNext]_deliveryVars
    PROVE  ActivityInv'
<1>1. sent \subseteq Events
  BY DEF DispatchInv, DispatcherTypeOK
<1>2. CASE (\E e \in Events : OutboxWrite(e)) \/ StartDispatcher \/ CrashDispatcher
  BY <1>2, DispatcherKeepsTally
<1>3. ASSUME NEW p \in Polls, PollStep(p) PROVE ActivityInv'
  BY <1>3, PollKeepsTally
<1>4. ASSUME NEW k \in Consumers, Subscribe(k) \/ CrashConsumer(k) PROVE ActivityInv'
  BY <1>1, <1>4, SubscribeKeepsTally DEF CrashConsumer, Reliable
<1>5. ASSUME NEW k \in Consumers, NEW kind \in Kinds,
             Take(k, kind) \/ Handle(k, kind) \/ DropMessage(k, kind)
      PROVE  ActivityInv'
  BY <1>1, <1>5, TakeKeepsTally, StepKeepsTally, CountKeepsTally DEF Handle, DropMessage, Reliable
<1>6. CASE UNCHANGED deliveryVars
  <2>1. UNCHANGED <<inbox, loop, counters, sent, at, dispatcher>>
    BY <1>6 DEF deliveryVars, pollVars, consumerVars, readModels, history
  <2> QED BY <2>1, QuietKeepsTally DEF ActivityInv, Ready, Listening
<1> QED BY <1>2, <1>3, <1>4, <1>5, <1>6 DEF DeliveryNext

\* Where all is at rest nothing waits, and what is published has been counted.
LEMMA TalliedAtRest ==
    ASSUME Consumers # {}, DispatchInv, ActivityInv
    PROVE  ActivityIsComplete
<1> SUFFICES ASSUME AtRest, NEW c \in CustomerIds,
                    {e \in IssuedTo(c) : status[e] = "PUBLISHED"} # {}
             PROVE  counters[<<"activity", c>>] >=
                       Cardinality({e \in IssuedTo(c) : status[e] = "PUBLISHED"})
  BY DEF ActivityIsComplete
<1>1. PICK k \in Consumers : TRUE
  OBVIOUS
<1>2. PICK P : P = {e \in IssuedTo(c) : status[e] = "PUBLISHED"}
  OBVIOUS
<1>3. PICK S : S = Counted(k, c)
  OBVIOUS
<1>4. P \subseteq S
  <2>1. "issued" \in Kinds
    BY DEF Kinds
  <2>2. inbox[k]["issued"] = <<>> /\ loop[k]["issued"].step = "wait"
    BY <2>1 DEF AtRest, Waiting
  <2>3. \A e : ~Waits(k, e)
    BY <2>2 DEF Waits, Busy
  <2>4. P \subseteq IssuesTo(c)
    BY <1>2 DEF IssuesTo, IssuedTo, DispatchInv, DispatcherTypeOK, PublishedWasSent
  <2> QED BY <1>3, <2>3, <2>4 DEF Counted
<1>5. S \subseteq IssuesTo(c) /\ sent \subseteq Events
  BY <1>3 DEF Counted, DispatchInv, DispatcherTypeOK
<1>6. Cardinality(P) <= Cardinality(S) /\ Cardinality(S) \in Nat /\ Cardinality(P) \in Nat
  BY <1>4, <1>5, IssuesAreFinite
<1>7. Cardinality(S) <= counters[<<"activity", c>>]
  BY <1>2, <1>3, <1>4 DEF ActivityInv, Tallied
<1>8. counters[<<"activity", c>>] \in Int
  BY DEF ActivityInv, ConsumersTyped, CounterNames, Missing
<1> QED BY <1>2, <1>6, <1>7, <1>8

\* Wherever consumers are reliable and there is one, a customer's activity
\* counts every issue that was published, once all is done: however polls and
\* loops interleave, however often a message is sent, whatever fails on the
\* dispatcher's side, and however the consumers race for one counter.
THEOREM ActivityCounted ==
    ASSUME Reliable, Consumers # {}
    PROVE  DeliverySpec => []ActivityIsComplete
<1>1. DispatchInv /\ ActivityInv /\ [DeliveryNext]_deliveryVars => ActivityInv'
  BY NextKeepsTally
<1>2. DispatchInv /\ ActivityInv => ActivityIsComplete
  BY TalliedAtRest
<1> QED BY <1>1, <1>2, ActivityInit, DispatchInvariance, PTL DEF DeliverySpec
=============================================================================
