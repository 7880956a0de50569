----------------------------- MODULE EventDelivery -----------------------------
(***************************************************************************)
(* The way of an event from the outbox to the read models: the polls of    *)
(* OutboxDispatcherService, core NATS, and the two loops of every          *)
(* ReadmodelsConsumer with the read models and pilot counters they update. *)
(*                                                                         *)
(* An event is its place in Feed, the order of createdAt.  Poll slots are  *)
(* runs of processOutboxEvents: the timer starts one every five seconds,   *)
(* whether the last has ended or not.  Faults are named, so that a run     *)
(* says which of them can happen:                                          *)
(*   nats    a process does not reach NATS when it starts                  *)
(*   late    polls start before the consumers have subscribed              *)
(*   flush   flush() rejects, the message lost or not                      *)
(*   mark    the update to PUBLISHED rejects                               *)
(*   retry   the update of retryCount rejects                              *)
(*   handler a step of a consumer's handler rejects                        *)
(*   stop    the process of the dispatcher restarts                        *)
(*   leave   the process of a consumer restarts                            *)
(***************************************************************************)
EXTENDS Integers, FiniteSetsExt, Sequences

CONSTANTS
    Feed,       \* the events to come, a sequence of EventDoc
    Tenants, CustomerIds, RewardIds,
    NoTenant,   \* what a field that is undefined is matched as
    Polls,      \* slots for polls that overlap
    Consumers,  \* API processes, each with consumer loops of its own
    BatchSize, MaxRetries,  \* configuration of the dispatcher
    MaxInbox,   \* bound on the messages that wait in one subscription
    Faults      \* which of the faults above can happen

Kinds == {"issued", "redeemed"}
EventDoc == [tenant: Tenants, cust: CustomerIds, kind: Kinds, reward: RewardIds,
             balanceAfter: Int]
Events == DOMAIN Feed

ASSUME FeedAssumption == Feed \in Seq(EventDoc)
ASSUME LimitsAssumption ==
    BatchSize \in Nat \ {0} /\ MaxRetries \in Nat \ {0} /\ MaxInbox \in Nat \ {0}
ASSUME TenantAssumption == NoTenant \notin Tenants

VARIABLES
    visible,     \* events whose transaction has committed
    status, retryCount, \* fields of the outbox documents
    dispatcher,  \* "down", "polling", or "dead": started without NATS
    at, batch,   \* per poll: its next step, the events it has left to send
                 \* with the retryCount it has read
    inbox, loop, \* per consumer and kind: messages, and where the loop is
    balances,    \* customer_balances: <<tenant, customer>> -> balance
    summaries,   \* transaction_summaries
    counters,    \* pilot metrics documents -> count (Missing: no document)
    sent,        \* history: events that reached NATS
    failures     \* history: failed attempts of each event, up to MaxRetries

outboxVars == <<visible, status, retryCount>>
pollVars == <<dispatcher, at, batch>>
consumerVars == <<inbox, loop>>
readModels == <<balances, summaries, counters>>
history == <<sent, failures>>
deliveryVars == <<outboxVars, pollVars, consumerVars, readModels, history>>

Missing == -1

-----------------------------------------------------------------------------
(* What a message says *)

\* writeEvent is given a payload without tenantId, and only the payload is sent.
TenantOf(e) == NoTenant

BalanceKey(e) == <<TenantOf(e), Feed[e].cust>>

\* The pilot metrics a message counts in: trackCustomerActivity or
\* trackRewardUsage, then the day's metrics.
CountersOf(e) ==
    IF Feed[e].kind = "issued" THEN <<<<"activity", Feed[e].cust>>, <<"daily">>>>
                               ELSE <<<<"usage", Feed[e].reward>>, <<"daily">>>>

CounterNames == {<<"activity", c>> : c \in CustomerIds}
            \cup {<<"usage", w>> : w \in RewardIds} \cup {<<"daily">>}

\* Counts are not followed beyond what tells too many from enough.
Bounded(n) == IF n > Len(Feed) + 1 THEN Len(Feed) + 1 ELSE n

Waiting == [step |-> "wait", event |-> 0, left |-> <<>>, found |-> FALSE]
Down == [Waiting EXCEPT !.step = "down"]

DeliveryInit ==
    /\ visible = {}
    /\ status = [e \in Events |-> "PENDING"]
    /\ retryCount = [e \in Events |-> 0]
    /\ dispatcher = "down"
    /\ at = [p \in Polls |-> "off"]
    /\ batch = [p \in Polls |-> <<>>]
    /\ inbox = [k \in Consumers |-> [kind \in Kinds |-> <<>>]]
    /\ loop = [k \in Consumers |-> [kind \in Kinds |-> Down]]
    /\ balances = [key \in (Tenants \cup {NoTenant}) \X CustomerIds |-> Missing]
    /\ summaries = {}
    /\ counters = [name \in CounterNames |-> Missing]
    /\ sent = {}
    /\ failures = [e \in Events |-> 0]

-----------------------------------------------------------------------------
(* The outbox and its dispatcher *)

\* A posting commits, or its event is saved without a session: documents may
\* appear out of the order of their createdAt.
OutboxWrite(e) ==
    /\ e \notin visible
    /\ visible' = visible \cup {e}
    /\ UNCHANGED <<status, retryCount, pollVars, consumerVars, readModels, history>>

Listening(k) == \A kind \in Kinds : loop[k][kind].step \notin {"down", "dead"}

\* onModuleInit: the timer is set only if NATS answers now.
StartDispatcher ==
    /\ dispatcher = "down"
    /\ "late" \in Faults \/ \A k \in Consumers : Listening(k)
    /\ dispatcher' \in {"polling"} \cup (IF "nats" \in Faults THEN {"dead"} ELSE {})
    /\ UNCHANGED <<outboxVars, at, batch, consumerVars, readModels, history>>

\* find: the oldest pending events, at most BatchSize of them.
LoadBatch(p) ==
    /\ dispatcher = "polling" /\ at[p] = "off"
    /\ LET pending == {e \in visible : status[e] = "PENDING"} IN
       \E S \in (SUBSET pending) \ {{}} :
          /\ Cardinality(S) = BatchSize \/ (Cardinality(S) < BatchSize /\ S = pending)
          /\ \A e \in S, f \in pending \ S : e < f
          /\ batch' = [batch EXCEPT ![p] = [e \in S |-> retryCount[e]]]
    /\ at' = [at EXCEPT ![p] = "publish"]
    /\ UNCHANGED <<outboxVars, dispatcher, consumerVars, readModels, history>>

\* A poll goes through its batch in the order of createdAt.
Current(p, e) == e \in DOMAIN batch[p] /\ \A f \in DOMAIN batch[p] : e <= f

\* The end of one pass of the loop: on to the next event, or out.
Advance(p, e) ==
    LET rest == DOMAIN batch[p] \ {e} IN
    /\ batch' = [batch EXCEPT ![p] = [f \in rest |-> batch[p][f]]]
    /\ at' = [at EXCEPT ![p] = IF rest = {} THEN "off" ELSE "publish"]

\* Core NATS: the message goes to whoever has subscribed now, and to no one later.
Deliver(e) ==
    /\ \A k \in Consumers : Len(inbox[k][Feed[e].kind]) < MaxInbox
    /\ inbox' = [k \in Consumers |->
                    IF Listening(k) THEN [inbox[k] EXCEPT ![Feed[e].kind] = Append(@, e)]
                                    ELSE inbox[k]]
    /\ sent' = sent \cup {e}

Lose == "flush" \in Faults /\ UNCHANGED <<inbox, sent>>

\* The attempt is over, by an exception.
Caught(p, e) ==
    /\ at' = [at EXCEPT ![p] = "retry"]
    /\ failures' = [failures EXCEPT ![e] = IF @ < MaxRetries THEN @ + 1 ELSE @]

\* Slip: the outcome of flush is not waited for.
Publish_NoFlush(p, e) ==
    /\ at[p] = "publish" /\ Current(p, e)
    /\ Deliver(e) \/ Lose
    /\ at' = [at EXCEPT ![p] = "mark"]
    /\ UNCHANGED <<outboxVars, dispatcher, batch, loop, readModels, failures>>

\* publish and flush.  When flush rejects, the message may have gone out or not.
Publish(p, e) ==
    /\ at[p] = "publish" /\ Current(p, e)
    /\ \/ Deliver(e) /\ at' = [at EXCEPT ![p] = "mark"] /\ UNCHANGED failures
       \/ "flush" \in Faults /\ (Deliver(e) \/ Lose) /\ Caught(p, e)
    /\ UNCHANGED <<outboxVars, dispatcher, batch, loop, readModels>>

\* The update to PUBLISHED; a rejection is handled like one of flush.
MarkPublished(p, e) ==
    /\ at[p] = "mark" /\ Current(p, e)
    /\ \/ /\ status' = [status EXCEPT ![e] = "PUBLISHED"]
          /\ Advance(p, e)
          /\ UNCHANGED failures
       \/ /\ "mark" \in Faults
          /\ Caught(p, e)
          /\ UNCHANGED <<status, batch>>
    /\ UNCHANGED <<visible, retryCount, dispatcher, consumerVars, readModels, sent>>

\* Slip: the event is given up one attempt too early.
RecordRetry_OneLess(p, e) ==
    /\ at[p] = "retry" /\ Current(p, e)
    /\ retryCount' = [retryCount EXCEPT ![e] = batch[p][e] + 1]
    /\ status' = [status EXCEPT ![e] = IF batch[p][e] + 2 >= MaxRetries THEN "FAILED" ELSE @]
    /\ Advance(p, e)
    /\ UNCHANGED <<visible, dispatcher, consumerVars, readModels, history>>

\* Slip: the number of attempts is kept in memory only.
RecordRetry_Forgets(p, e) ==
    /\ at[p] = "retry" /\ Current(p, e)
    /\ status' = [status EXCEPT ![e] = IF batch[p][e] + 1 >= MaxRetries THEN "FAILED" ELSE @]
    /\ Advance(p, e)
    /\ UNCHANGED <<visible, retryCount, dispatcher, consumerVars, readModels, history>>

\* The catch block counts from the retryCount the poll has read; with the last
\* retry the event is FAILED.  If this update rejects, the poll ends.
RecordRetry(p, e) ==
    /\ at[p] = "retry" /\ Current(p, e)
    /\ LET n == batch[p][e] + 1 IN
       \/ /\ retryCount' = [retryCount EXCEPT ![e] = n]
          /\ status' = [status EXCEPT ![e] = IF n >= MaxRetries THEN "FAILED" ELSE @]
          /\ Advance(p, e)
       \/ /\ "retry" \in Faults
          /\ at' = [at EXCEPT ![p] = "off"]
          /\ batch' = [batch EXCEPT ![p] = <<>>]
          /\ UNCHANGED <<status, retryCount>>
    /\ UNCHANGED <<visible, dispatcher, consumerVars, readModels, history>>

\* The process of the dispatcher restarts: its polls are gone.
CrashDispatcher ==
    /\ "stop" \in Faults /\ dispatcher # "down"
    /\ dispatcher' = "down"
    /\ at' = [p \in Polls |-> "off"]
    /\ batch' = [p \in Polls |-> <<>>]
    /\ UNCHANGED <<outboxVars, consumerVars, readModels, history>>

-----------------------------------------------------------------------------
(* The consumers *)

MoveLoop(k, kind, to) == loop' = [loop EXCEPT ![k][kind] = to]

\* Slip: only points.redeemed is subscribed to.
Subscribe_RedeemedOnly(k) ==
    /\ \A kind \in Kinds : loop[k][kind].step = "down"
    /\ loop' = [loop EXCEPT ![k] = [kind \in Kinds |-> IF kind = "redeemed" THEN Waiting
                                       ELSE [Waiting EXCEPT !.step = "deaf"]]]
    /\ UNCHANGED <<outboxVars, pollVars, inbox, readModels, history>>

\* onModuleInit: both subscriptions, or none if NATS does not answer now.
Subscribe(k) ==
    /\ \A kind \in Kinds : loop[k][kind].step = "down"
    /\ \/ loop' = [loop EXCEPT ![k] = [kind \in Kinds |-> Waiting]]
       \/ /\ "nats" \in Faults
          /\ loop' = [loop EXCEPT ![k] = [kind \in Kinds |-> [Waiting EXCEPT !.step = "dead"]]]
    /\ UNCHANGED <<outboxVars, pollVars, inbox, readModels, history>>

Take(k, kind) ==
    /\ loop[k][kind].step = "wait" /\ inbox[k][kind] # <<>>
    /\ LET e == Head(inbox[k][kind]) IN
       MoveLoop(k, kind, [step |-> "balance", event |-> e, left |-> CountersOf(e), found |-> FALSE])
    /\ inbox' = [inbox EXCEPT ![k][kind] = Tail(@)]
    /\ UNCHANGED <<outboxVars, pollVars, readModels, history>>

\* updateCustomerBalance: the balance the event carries replaces what is there.
SetBalance(k, kind) ==
    LET l == loop[k][kind] IN
    /\ l.step = "balance"
    /\ balances' = [balances EXCEPT ![BalanceKey(l.event)] = Feed[l.event].balanceAfter]
    /\ MoveLoop(k, kind, [l EXCEPT !.step = "summary"])
    /\ UNCHANGED <<outboxVars, pollVars, inbox, summaries, counters, history>>

\* createTransactionSummary: an upsert by transactionId.
Summarise(k, kind) ==
    LET l == loop[k][kind] IN
    /\ l.step = "summary"
    /\ summaries' = summaries \cup {l.event}
    /\ MoveLoop(k, kind, [l EXCEPT !.step = "find"])
    /\ UNCHANGED <<outboxVars, pollVars, inbox, balances, counters, history>>

\* Each of the track functions looks for its document ...
FindCounter(k, kind) ==
    LET l == loop[k][kind] IN
    /\ l.step = "find"
    /\ MoveLoop(k, kind, [l EXCEPT !.step = "count", !.found = counters[Head(l.left)] # Missing])
    /\ UNCHANGED <<outboxVars, pollVars, inbox, readModels, history>>

\* Slip: the document is written with a count of one, found or not.
Count_Overwrites(k, kind) ==
    LET l == loop[k][kind]
        rest == Tail(l.left)
    IN
    /\ l.step = "count"
    /\ counters' = [counters EXCEPT ![Head(l.left)] = 1]
    /\ MoveLoop(k, kind, IF rest = <<>> THEN Waiting
                     ELSE [l EXCEPT !.step = "find", !.left = rest, !.found = FALSE])
    /\ UNCHANGED <<outboxVars, pollVars, inbox, balances, summaries, history>>

\* ... and then increments it, or creates it with a count of one unless it has
\* come to exist since.
Count(k, kind) ==
    LET l == loop[k][kind]
        name == Head(l.left)
        rest == Tail(l.left)
    IN
    /\ l.step = "count"
    /\ counters' = [counters EXCEPT ![name] =
                       IF l.found THEN Bounded(@ + 1) ELSE IF @ = Missing THEN 1 ELSE @]
    /\ MoveLoop(k, kind, IF rest = <<>> THEN Waiting
                     ELSE [l EXCEPT !.step = "find", !.left = rest, !.found = FALSE])
    /\ UNCHANGED <<outboxVars, pollVars, inbox, balances, summaries, history>>

\* A step rejects: the handler logs it and goes on with the next message.
DropMessage(k, kind) ==
    /\ "handler" \in Faults
    /\ loop[k][kind].step \in {"balance", "summary", "find", "count"}
    /\ MoveLoop(k, kind, Waiting)
    /\ UNCHANGED <<outboxVars, pollVars, inbox, readModels, history>>

\* The process of a consumer restarts: its subscriptions and messages are gone.
CrashConsumer(k) ==
    /\ "leave" \in Faults /\ \E kind \in Kinds : loop[k][kind] # Down
    /\ loop' = [loop EXCEPT ![k] = [kind \in Kinds |-> Down]]
    /\ inbox' = [inbox EXCEPT ![k] = [kind \in Kinds |-> <<>>]]
    /\ UNCHANGED <<outboxVars, pollVars, readModels, history>>

Handle(k, kind) ==
    \/ SetBalance(k, kind) \/ Summarise(k, kind)
    \/ FindCounter(k, kind) \/ Count(k, kind)

PollStep(p) ==
    \/ LoadBatch(p)
    \/ \E e \in DOMAIN batch[p] : Publish(p, e) \/ MarkPublished(p, e) \/ RecordRetry(p, e)

DeliveryNext ==
    \/ \E e \in Events : OutboxWrite(e)
    \/ StartDispatcher \/ CrashDispatcher
    \/ \E p \in Polls : PollStep(p)
    \/ \E k \in Consumers : Subscribe(k) \/ CrashConsumer(k)
    \/ \E k \in Consumers, kind \in Kinds :
          Take(k, kind) \/ Handle(k, kind) \/ DropMessage(k, kind)

\* The timer fires again and again, an awaited call ends in the end, and a
\* subscription that has messages is served.
Fairness ==
    /\ WF_deliveryVars(StartDispatcher)
    /\ \A p \in Polls : WF_deliveryVars(PollStep(p))
    /\ \A k \in Consumers : WF_deliveryVars(Subscribe(k))
    /\ \A k \in Consumers, kind \in Kinds :
          WF_deliveryVars(Take(k, kind)) /\ WF_deliveryVars(Handle(k, kind))

DeliverySpec == DeliveryInit /\ [][DeliveryNext]_deliveryVars
FairSpec == DeliverySpec /\ Fairness

-----------------------------------------------------------------------------
(* Properties *)

\* Every variable holds what the code can put there: a poll that is off has no
\* batch, one that is not has an event to work on and has read it while it was
\* pending; a loop works on messages of its kind.
DispatcherTypeOK ==
    /\ visible \subseteq Events
    /\ status \in [Events -> {"PENDING", "PUBLISHED", "FAILED"}]
    /\ retryCount \in [Events -> 0 .. MaxRetries]
    /\ dispatcher \in {"down", "polling", "dead"}
    /\ at \in [Polls -> {"off", "publish", "mark", "retry"}]
    /\ DOMAIN batch = Polls
    /\ \A p \in Polls :
          /\ DOMAIN batch[p] \subseteq visible
          /\ \A e \in DOMAIN batch[p] : batch[p][e] \in 0 .. MaxRetries - 1
          /\ at[p] = "off" <=> DOMAIN batch[p] = {}
    /\ sent \subseteq visible
    /\ failures \in [Events -> 0 .. MaxRetries]

ConsumerTypeOK ==
    \A k \in Consumers, kind \in Kinds :
        LET l == loop[k][kind] IN
        /\ l.step \in {"down", "dead", "wait", "balance", "summary", "find", "count"}
        /\ Len(inbox[k][kind]) <= MaxInbox
        /\ l.step \in {"balance", "summary", "find", "count"} =>
              l.event \in sent /\ Feed[l.event].kind = kind /\ Len(l.left) \in 1 .. 2

DeliveryTypeOK == DispatcherTypeOK /\ ConsumerTypeOK

\* An event that is marked as published has reached NATS, whichever polls worked
\* on it and whatever failed.
PublishedWasSent == \A e \in Events : status[e] = "PUBLISHED" => e \in sent

\* No event is given up before MaxRetries attempts have failed, although polls
\* that overlap count from numbers they have read earlier.
GivenUpAfterRetries == \A e \in Events : status[e] = "FAILED" => failures[e] >= MaxRetries

\* The inductive invariant of the two: retry counts, stored or read, never run
\* ahead of the failed attempts, and what is about to be marked has been sent.
CountsAreEarned ==
    /\ \A e \in Events :
          /\ retryCount[e] <= failures[e]
          /\ status[e] = "PENDING" => retryCount[e] < MaxRetries
    /\ \A p \in Polls : \A e \in DOMAIN batch[p] :
          /\ batch[p][e] <= failures[e]
          /\ at[p] = "retry" /\ Current(p, e) => batch[p][e] < failures[e]
          /\ at[p] = "mark" /\ Current(p, e) => e \in sent

DispatchInv == DispatcherTypeOK /\ PublishedWasSent /\ GivenUpAfterRetries /\ CountsAreEarned

\* An event in the outbox does not stay pending for ever: it is published or
\* given up, however polls overwrite each other's retry counts.
Settles == \A e \in Events : e \in visible ~> status[e] # "PENDING"

\* An event in the outbox reaches the read models, or the dispatcher gives it up.
ReachesReadModels ==
    \A e \in Events : e \in visible ~> e \in summaries \/ status[e] = "FAILED"

IssuedTo(c) == {e \in visible : Feed[e].kind = "issued" /\ Feed[e].cust = c}

AtRest ==
    /\ visible = Events
    /\ \A e \in Events : status[e] # "PENDING"
    /\ \A p \in Polls : at[p] = "off"
    /\ \A k \in Consumers, kind \in Kinds : loop[k][kind] = Waiting /\ inbox[k][kind] = <<>>

\* When all is done, a customer's activity counts every issue that was published.
ActivityIsComplete ==
    AtRest => \A c \in CustomerIds :
        LET published == {e \in IssuedTo(c) : status[e] = "PUBLISHED"}
        IN  published # {} => counters[<<"activity", c>>] >= Cardinality(published)
=============================================================================
