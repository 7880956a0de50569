-------------------------- MODULE ScanPipelineProofs --------------------------
(***************************************************************************)
(* ScanInv is inductive, for any requests, codes, merchants, customers and *)
(* intents and any length of the windows.  Most steps only move a request  *)
(* from one label to another: what such a move needs is lemma MoveKeeps.   *)
(***************************************************************************)
EXTENDS ScanPipeline, TLAPS

NotYetClaimed == {"idle", "account", "enrol", "verify", "lookup", "claim"}

\* What a move of r to a label must respect.
MayMove(r, to) ==
    /\ pc[r] # "idle" /\ to \in Labels \ {"idle"}
    /\ to \in NotYetClaimed => pc[r] \in NotYetClaimed
    /\ to \in {"lookup", "throttle", "throttled"} => req[r].purpose = "CHECKIN"
    /\ to \in {"post", "mark"} => req[r].purpose # "CHECKIN"
    /\ to \in {"mark", "record", "audit"} /\ req[r].purpose # "CHECKIN" =>
          PostingOf(req[r]) \in posted
    /\ pc[r] \in {"audit", "done", "failed"} => to \in {"audit", "done", "failed"}
    /\ to = "record" => req[r].purpose # "CHECKIN"
    /\ to \in {"audit", "done"} =>
          \E e \in EventOf(r) : e.purpose = req[r].purpose /\ e.cust = CustomerOf(r)
    /\ to = "done" /\ req[r].purpose # "CHECKIN" => PostingOf(req[r]) \in posted
    /\ r \in again /\ req[r].purpose = "CHECKIN" =>
          to \in {"account", "enrol", "verify", "lookup", "done", "failed"}

database == <<now, codeVars, events, posted>>
locals == <<req, again, looked>>

-----------------------------------------------------------------------------
(* Expressions that do not depend on a label *)

\* A step that leaves req and events alone leaves what is said in them alone.
LEMMA SameViews ==
    ASSUME req' = req
    PROVE  /\ \A r \in Requests : CustomerOf(r)' = CustomerOf(r)
           /\ \A r \in Requests : PostingOf(req[r])' = PostingOf(req[r])
           /\ events' = events => \A r \in Requests : EventOf(r)' = EventOf(r)
BY DEF CustomerOf, EventOf, PostingOf, Operation

\* The expiry of a code that has been made is a time.
LEMMA ExpiryType ==
    ASSUME NEW c \in Codes, bucket[c] \in Int
    PROVE  Expiry(c) \in Int
BY TimeAssumption DEF Expiry

\* A code that has been made keeps its expiry.
LEMMA ExpirySame ==
    ASSUME NEW c \in Codes, bucket'[c] = bucket[c]
    PROVE  Expiry(c)' = Expiry(c)
BY DEF Expiry

\* Two intents with one key are one intent.
LEMMA KeysNameIntents ==
    ASSUME NEW i \in Intents, NEW j \in Intents, i.key = j.key
    PROVE  i = j
BY ScanIntentsAssumption

-----------------------------------------------------------------------------
(* Steps that move a request and write nothing but, perhaps, its account *)

\* A step that moves one request and writes what its label allows keeps the
\* invariant.
LEMMA MoveKeeps ==
    ASSUME ScanInv, NEW r \in Requests, NEW to, MayMove(r, to), Goto(r, to),
           UNCHANGED <<database, locals>>,
           accounts' \in [Tenants \X Customers -> {"none", "ACTIVE", "DISABLED"}]
    PROVE  ScanInv'
<1> USE DEF Goto, database, locals, codeVars, ledgerVars
<1>0. pc \in [Requests -> Labels] /\ pc' \in [Requests -> Labels]
  BY DEF ScanInv, TypeOK, MayMove
<1>1. TypeOK'
  BY <1>0 DEF ScanInv, TypeOK, MayMove, EventDoc, PostingOf, Operation
<1>2. RequestsInOrder'
  BY <1>0, SameViews DEF ScanInv, RequestsInOrder, MayMove, NotYetClaimed
<1>3. ClaimsLast'
  BY <1>0 DEF ScanInv, ClaimsLast, MayMove, Expiry
<1>4. EventsMatch'
  BY <1>0, SameViews DEF ScanInv, TypeOK, EventDoc, EventsMatch, MayMove
<1>5. LooksAreOld'
  BY <1>0 DEF ScanInv, LooksAreOld, MayMove
<1>6. UsedOnce'
  BY DEF ScanInv, UsedOnce, Expiry
<1>7. ThrottledUnlessRaced'
  BY DEF ScanInv, ThrottledUnlessRaced
<1>8. AnsweredIsRecorded' /\ AuditedIsRecorded'
  BY <1>0, SameViews DEF ScanInv, AnsweredIsRecorded, AuditedIsRecorded, MayMove
<1>9. RetriesFindTheirEvent'
  BY <1>0, SameViews DEF ScanInv, RetriesFindTheirEvent, MayMove, TypeOK
<1> QED BY <1>1, <1>2, <1>3, <1>4, <1>5, <1>6, <1>7, <1>8, <1>9 DEF ScanInv

\* The steps of a request that are moves.
LEMMA MovesKeep ==
    ASSUME ScanInv, NEW r \in Requests,
           \/ FindAccount(r) \/ Enrol(r) \/ Verify(r) \/ Lookup(r)
           \/ Mark(r) \/ Audit(r) \/ Fail(r)
    PROVE  ScanInv'
<1> USE DEF Goto, database, locals, ledgerVars
<1>0. /\ pc[r] \in Labels
      /\ accounts \in [Tenants \X Customers -> {"none", "ACTIVE", "DISABLED"}]
  BY DEF ScanInv, TypeOK
<1>a. req[r] \in Intents /\ req[r].purpose \in Purposes /\ CustomerOf(r) \in Customers
      /\ Account(r) \in Tenants \X Customers
  BY OwnerAssumption, ScanIntentsAssumption DEF ScanInv, TypeOK, Intent, CustomerOf, Account
<1>1. CASE FindAccount(r)
  <2>1. PICK to \in {"enrol", "verify", "failed"} : Goto(r, to)
    BY <1>0, <1>a, <1>1 DEF FindAccount
  <2>2. MayMove(r, to)
    BY <1>1, <2>1 DEF FindAccount, MayMove, Labels, Ended, NotYetClaimed
  <2> QED BY <1>0, <1>1, <2>1, <2>2, MoveKeeps DEF FindAccount
<1>2. CASE Enrol(r)
  <2>1. PICK to \in {"verify", "failed"} : Goto(r, to)
    BY <1>2 DEF Enrol
  <2>2. MayMove(r, to)
    BY <1>2, <2>1 DEF Enrol, MayMove, Labels, Ended, NotYetClaimed
  <2>3. accounts' \in [Tenants \X Customers -> {"none", "ACTIVE", "DISABLED"}]
    BY <1>0, <1>a, <1>2 DEF Enrol
  <2> QED BY <1>2, <2>1, <2>2, <2>3, MoveKeeps DEF Enrol
<1>3. CASE Verify(r)
  <2>1. PICK to \in {"failed", "lookup", "claim"} : Goto(r, to)
          /\ (to = "lookup" <=> Valid(req[r].code) /\ req[r].purpose = "CHECKIN")
          /\ (to = "claim" <=> Valid(req[r].code) /\ req[r].purpose # "CHECKIN")
    BY <1>3 DEF Verify
  <2>2. MayMove(r, to)
    BY <1>3, <2>1 DEF Verify, MayMove, Labels, Ended, NotYetClaimed
  <2> QED BY <1>0, <1>3, <2>1, <2>2, MoveKeeps DEF Verify
<1>4. CASE Lookup(r)
  <2>1. req[r].purpose = "CHECKIN"
    BY <1>4 DEF Lookup, ScanInv, RequestsInOrder
  <2>2. PICK to \in {"done", "claim"} : Goto(r, to) /\ (to = "done" <=> EventOf(r) # {})
    BY <1>4 DEF Lookup
  <2>3. ASSUME NEW e \in EventOf(r)
        PROVE  e.purpose = req[r].purpose /\ e.cust = CustomerOf(r)
    <3>1. e \in events /\ e.by \in Requests /\ req[e.by] \in Intents
      BY DEF EventOf, ScanInv, TypeOK, EventDoc
    <3>2. req[e.by].key = req[r].key
      BY <3>1 DEF EventOf, ScanInv, EventsMatch
    <3> QED BY <1>a, <3>1, <3>2, KeysNameIntents DEF ScanInv, EventsMatch, CustomerOf
  <2>4. MayMove(r, to)
    BY <1>4, <2>1, <2>2, <2>3
    DEF Lookup, MayMove, Labels, Ended, NotYetClaimed, ScanInv, RetriesFindTheirEvent
  <2> QED BY <1>0, <1>4, <2>2, <2>4, MoveKeeps DEF Lookup
<1>5. CASE Audit(r)
  <2>1. MayMove(r, "done")
    BY <1>a, <1>5 DEF Audit, MayMove, Labels, Ended, NotYetClaimed, ScanInv,
       AuditedIsRecorded, RequestsInOrder
  <2> QED BY <1>0, <1>5, <2>1, MoveKeeps DEF Audit
<1>6. CASE Fail(r)
  <2>1. MayMove(r, "failed")
    BY <1>6 DEF Fail, MayMove, Labels, Ended, NotYetClaimed
  <2> QED BY <1>0, <1>6, <2>1, MoveKeeps DEF Fail
<1>7. CASE Mark(r)
  <2>1. MayMove(r, "record")
    BY <1>a, <1>7 DEF Mark, MayMove, Labels, Ended, NotYetClaimed, ScanInv,
       RequestsInOrder, RetriesFindTheirEvent
  <2> QED BY <1>0, <1>7, <2>1, MoveKeeps DEF Mark, Ledger!Tell
<1> QED BY <1>1, <1>2, <1>3, <1>4, <1>5, <1>6, <1>7

-----------------------------------------------------------------------------
(* Steps of no request *)

\* Time that passes makes codes older, and nothing else.
LEMMA TickKeeps == ASSUME ScanInv, Tick PROVE ScanInv'
<1> USE DEF Tick, codeVars, ledgerVars
<1>0. /\ now \in Int /\ now' = now + 1 /\ now' \in 0 .. MaxTime
      /\ \A e \in events : e.at \in Int
      /\ \A r \in Requests : looked[r] \subseteq events
      /\ \A r \in Requests : claimed[r] # Never => claimed[r] \in Int
  BY TimeAssumption DEF ScanInv, TypeOK, EventDoc
<1>1. TypeOK'
  BY <1>0 DEF ScanInv, TypeOK, EventDoc, PostingOf, Operation
<1>2. RequestsInOrder'
  BY SameViews DEF ScanInv, RequestsInOrder
<1>3. ClaimsLast'
  <2> SUFFICES ASSUME NEW r \in Requests, claimed[r] # Never
               PROVE  /\ claimed[r] <= now'
                      /\ now' < Expiry(req[r].code)' => req[r].code \in used
    BY DEF ClaimsLast, ScanInv
  <2>1. req[r].code \in Codes /\ pc[r] # "idle" /\ bucket[req[r].code] # Never
    BY ScanIntentsAssumption DEF ScanInv, TypeOK, Intent, ClaimsLast, RequestsInOrder
  <2>2. Expiry(req[r].code)' = Expiry(req[r].code) /\ Expiry(req[r].code) \in Int
    BY <2>1, ExpirySame, ExpiryType DEF ScanInv, TypeOK
  <2> QED BY <1>0, <2>2 DEF ScanInv, ClaimsLast
<1>4. EventsMatch'
  BY <1>0, SameViews DEF ScanInv, TypeOK, EventDoc, EventsMatch
<1>5. LooksAreOld'
  BY <1>0, TimeAssumption DEF ScanInv, LooksAreOld
<1>6. UsedOnce' /\ ThrottledUnlessRaced'
  BY DEF ScanInv, UsedOnce, ThrottledUnlessRaced, Expiry
<1>7. AnsweredIsRecorded' /\ AuditedIsRecorded' /\ RetriesFindTheirEvent'
  BY SameViews DEF ScanInv, TypeOK, AnsweredIsRecorded, AuditedIsRecorded, RetriesFindTheirEvent
<1> QED BY <1>1, <1>2, <1>3, <1>4, <1>5, <1>6, <1>7 DEF ScanInv

\* The window of a time is no later than the time.
LEMMA WindowBound ==
    ASSUME NEW n \in Nat, NEW k \in Nat \ {0}
    PROVE  n \div k \in 0 .. n
<1>1. n \div k \in Nat
  BY SMTT(20)
<1>2. k > 0 /\ n \div k <= n
  BY Z3T(20)
<1> QED BY <1>1, <1>2

\* Making a code gives no request a claim of it: those with a claim have a code
\* that was made before.
LEMMA MakeCodeKeeps == ASSUME ScanInv, NEW c \in Codes, MakeCode(c) PROVE ScanInv'
<1> USE DEF MakeCode, ledgerVars
<1>0. \A r \in Requests : req[r].code \in Codes
  BY ScanIntentsAssumption DEF ScanInv, TypeOK, Intent
<1>a. now \div Interval \in 0 .. MaxTime
  <2>1. now \in Nat /\ MaxTime \in Nat /\ now <= MaxTime
    BY TimeAssumption DEF ScanInv, TypeOK
  <2>2. now \div Interval \in 0 .. now
    BY <2>1, TimeAssumption, WindowBound
  <2> QED BY <2>1, <2>2
<1>1. TypeOK'
  <2>1. bucket' \in [Codes -> 0 .. MaxTime \cup {Never}]
    BY <1>a DEF ScanInv, TypeOK
  <2>2. \A d \in Codes : bucket[d] # Never => bucket'[d] # Never
    BY DEF ScanInv, TypeOK
  <2> QED BY <2>1, <2>2 DEF ScanInv, TypeOK, EventDoc, PostingOf, Operation
<1>2. \A r \in Requests : bucket[req[r].code] # Never =>
          bucket'[req[r].code] # Never /\ Expiry(req[r].code)' = Expiry(req[r].code)
  BY <1>0, ExpirySame DEF ScanInv, TypeOK
<1>3. RequestsInOrder'
  BY <1>2, SameViews DEF ScanInv, RequestsInOrder
<1>4. ClaimsLast' /\ UsedOnce'
  BY <1>2 DEF ScanInv, RequestsInOrder, ClaimsLast, UsedOnce
<1>5. EventsMatch'
  BY SameViews DEF ScanInv, TypeOK, EventDoc, EventsMatch
<1>6. LooksAreOld' /\ ThrottledUnlessRaced'
  BY DEF ScanInv, LooksAreOld, ThrottledUnlessRaced
<1>7. AnsweredIsRecorded' /\ AuditedIsRecorded' /\ RetriesFindTheirEvent'
  BY SameViews DEF ScanInv, TypeOK, AnsweredIsRecorded, AuditedIsRecorded, RetriesFindTheirEvent
<1> QED BY <1>1, <1>3, <1>4, <1>5, <1>6, <1>7 DEF ScanInv

\* A claim that is forgotten was of a code too old to be shown again.
LEMMA ForgetClaimKeeps == ASSUME ScanInv, NEW c \in Codes, ForgetClaim(c) PROVE ScanInv'
<1> USE DEF ForgetClaim, ledgerVars
<1>1. TypeOK'
  BY DEF ScanInv, TypeOK, EventDoc, PostingOf, Operation
<1>2. RequestsInOrder'
  BY SameViews DEF ScanInv, RequestsInOrder
<1>3. ClaimsLast'
  <2> SUFFICES ASSUME NEW r \in Requests, claimed[r] # Never, now < Expiry(req[r].code)'
               PROVE  req[r].code \in used'
    BY DEF ScanInv, ClaimsLast
  <2>1. req[r].code \in Codes /\ c \in Codes /\ bucket[req[r].code] \in Int
    BY ScanIntentsAssumption
    DEF ScanInv, TypeOK, Intent, ClaimsLast, RequestsInOrder
  <2>2. Expiry(req[r].code)' = Expiry(req[r].code) /\ Expiry(req[r].code) \in Int
    BY <2>1, ExpirySame, ExpiryType
  <2>3. req[r].code # c
    BY <2>2 DEF ScanInv, TypeOK
  <2> QED BY <2>2, <2>3 DEF ScanInv, ClaimsLast
<1>4. UsedOnce'
  BY DEF ScanInv, UsedOnce, Expiry
<1>5. EventsMatch'
  BY SameViews DEF ScanInv, TypeOK, EventDoc, EventsMatch
<1>6. LooksAreOld' /\ ThrottledUnlessRaced'
  BY DEF ScanInv, LooksAreOld, ThrottledUnlessRaced
<1>7. AnsweredIsRecorded' /\ AuditedIsRecorded' /\ RetriesFindTheirEvent'
  BY SameViews DEF ScanInv, TypeOK, AnsweredIsRecorded, AuditedIsRecorded, RetriesFindTheirEvent
<1> QED BY <1>1, <1>2, <1>3, <1>4, <1>5, <1>6, <1>7 DEF ScanInv

-----------------------------------------------------------------------------
(* Steps of a request that write *)

\* An arrival: what is known of the other requests stays, and the new one has
\* neither claim nor event nor look.
LEMMA ArriveKeeps == ASSUME ScanInv, NEW r \in Requests, Arrive(r) PROVE ScanInv'
<1> USE DEF Arrive, Goto, codeVars, ledgerVars
<1>0. PICK i \in Intents :
          /\ bucket[i.code] # Never
          /\ req' = [req EXCEPT ![r] = i]
          /\ again' = IF \E s \in Requests : pc[s] = "done" /\ req[s] = i
                      THEN again \cup {r} ELSE again
  OBVIOUS
<1>a. /\ req \in [Requests -> Intents] /\ pc \in [Requests -> Labels]
      /\ req'[r] = i /\ pc'[r] = "account" /\ r \notin again /\ claimed[r] = Never
      /\ \A s \in Requests \ {r} : req'[s] = req[s] /\ pc'[s] = pc[s]
      /\ \A e \in events : e.by \in Requests \ {r}
  BY <1>0 DEF ScanInv, TypeOK, RequestsInOrder, RetriesFindTheirEvent, EventsMatch, EventDoc
<1>b. \A s \in Requests \ {r} : /\ CustomerOf(s)' = CustomerOf(s) /\ EventOf(s)' = EventOf(s)
                                /\ Expiry(req[s].code)' = Expiry(req[s].code)
                                /\ PostingOf(req[s])' = PostingOf(req[s])
  BY <1>0, <1>a DEF CustomerOf, EventOf, Expiry, PostingOf, Operation
<1>1. TypeOK'
  <2>1. "account" \in Labels
    BY DEF Labels
  <2> QED BY <1>0, <1>a, <2>1 DEF ScanInv, TypeOK, EventDoc, PostingOf, Operation
<1>2. RequestsInOrder'
  BY <1>0, <1>a DEF ScanInv, RequestsInOrder, PostingOf, Operation
<1>3. ClaimsLast'
  BY <1>a, <1>b DEF ScanInv, ClaimsLast
<1>4. EventsMatch'
  BY <1>a, <1>b DEF ScanInv, EventsMatch
<1>5. LooksAreOld' /\ ThrottledUnlessRaced'
  BY <1>a DEF ScanInv, LooksAreOld, ThrottledUnlessRaced
<1>6. UsedOnce'
  BY <1>a, <1>b DEF ScanInv, UsedOnce
<1>7. AnsweredIsRecorded'
  <2>1. pc'[r] # "done"
    BY <1>a
  <2> QED BY <1>a, <1>b, <2>1 DEF ScanInv, AnsweredIsRecorded
<1>9. AuditedIsRecorded'
  <2>1. pc'[r] # "audit"
    BY <1>a
  <2> QED BY <1>a, <1>b, <2>1 DEF ScanInv, AuditedIsRecorded
<1>8. RetriesFindTheirEvent'
  <2>1. CASE r \in again'
    <3>1. PICK s \in Requests : pc[s] = "done" /\ req[s] = i
      BY <1>0, <1>a, <2>1
    <3>2. EventOf(r)' # {}
      BY <1>a, <3>1 DEF ScanInv, AnsweredIsRecorded, EventOf
    <3> QED BY <1>0, <1>a, <1>b, <3>2 DEF ScanInv, TypeOK, RetriesFindTheirEvent
  <2>2. CASE r \notin again'
    BY <1>0, <1>a, <1>b, <2>2 DEF ScanInv, TypeOK, RetriesFindTheirEvent
  <2> QED BY <2>1, <2>2
<1> QED BY <1>1, <1>2, <1>3, <1>4, <1>5, <1>6, <1>7, <1>8, <1>9 DEF ScanInv

\* A claim: no other request has a claim of the code that has not expired, for
\* the code would be in use.
LEMMA ClaimKeeps == ASSUME ScanInv, NEW r \in Requests, Claim(r) PROVE ScanInv'
<1> USE DEF Claim, Goto, ledgerVars
<1>0. /\ req[r] \in Intents /\ req[r].code \in Codes /\ req[r].purpose \in Purposes
      /\ pc \in [Requests -> Labels] /\ claimed[r] = Never /\ now \in Int /\ Never \notin Int
      /\ bucket[req[r].code] # Never /\ now \in 0 .. MaxTime
  BY ScanIntentsAssumption, TimeAssumption DEF ScanInv, TypeOK, Intent, RequestsInOrder
<1>1. CASE req[r].code \in used
  <2>1. r \in again => req[r].purpose # "CHECKIN"
    BY <1>1 DEF ScanInv, RetriesFindTheirEvent
  <2>2. MayMove(r, "used")
    BY <1>1, <2>1 DEF MayMove, Labels, Ended, NotYetClaimed
  <2> QED BY <1>1, <2>2, MoveKeeps DEF database, locals, codeVars, ScanInv, TypeOK
<1>2. CASE req[r].code \notin used
  <2>0. PICK to \in {"throttle", "post"} :
            /\ pc' = [pc EXCEPT ![r] = to]
            /\ used' = used \cup {req[r].code}
            /\ claimed' = [claimed EXCEPT ![r] = now]
            /\ to = "throttle" <=> req[r].purpose = "CHECKIN"
            /\ UNCHANGED <<now, bucket, accounts, events, ledgerVars, req, again, looked>>
    BY <1>2
  <2>a. /\ pc'[r] = to /\ claimed'[r] = now
        /\ \A s \in Requests \ {r} : pc'[s] = pc[s] /\ claimed'[s] = claimed[s]
        /\ \A s \in Requests : Expiry(req[s].code)' = Expiry(req[s].code)
    BY <1>0, <2>0 DEF ScanInv, TypeOK, Expiry
  <2>1. TypeOK'
    <3>1. pc' \in [Requests -> Labels] /\ claimed' \in [Requests -> 0 .. MaxTime \cup {Never}]
      BY <1>0, <2>0 DEF ScanInv, TypeOK, Labels
    <3> QED BY <1>0, <2>0, <3>1 DEF ScanInv, TypeOK, EventDoc, PostingOf, Operation
  <2>2. RequestsInOrder'
    BY <2>0, <2>a, SameViews DEF ScanInv, RequestsInOrder
  <2>3. ClaimsLast'
    BY <1>0, <2>0, <2>a DEF ScanInv, ClaimsLast
  <2>4. EventsMatch'
    BY <2>0, <2>a, SameViews DEF ScanInv, TypeOK, EventDoc, EventsMatch
  <2>5. LooksAreOld' /\ ThrottledUnlessRaced'
    BY <2>0, <2>a DEF ScanInv, LooksAreOld, ThrottledUnlessRaced
  <2>6. UsedOnce'
    <3>1. ASSUME NEW s \in Requests \ {r}, claimed[s] # Never, req[s].code = req[r].code,
                 now < Expiry(req[r].code)
          PROVE  FALSE
      BY <1>2, <3>1 DEF ScanInv, ClaimsLast
    <3> QED BY <2>0, <2>a, <3>1 DEF ScanInv, UsedOnce
  <2>7. AnsweredIsRecorded' /\ AuditedIsRecorded'
    BY <2>0, <2>a, SameViews DEF ScanInv, AnsweredIsRecorded, AuditedIsRecorded
  <2>8. RetriesFindTheirEvent'
    BY <2>0, <2>a, SameViews DEF ScanInv, TypeOK, RetriesFindTheirEvent
  <2> QED BY <2>1, <2>2, <2>3, <2>4, <2>5, <2>6, <2>7, <2>8 DEF ScanInv
<1> QED BY <1>1, <1>2

\* A look: what it sees has been saved, and is old if the request goes on.
LEMMA ThrottleKeeps == ASSUME ScanInv, NEW r \in Requests, CheckThrottle(r) PROVE ScanInv'
<1> USE DEF CheckThrottle, Goto, codeVars, ledgerVars
<1>0. PICK to \in {"throttled", "record"} :
          /\ pc' = [pc EXCEPT ![r] = to]
          /\ to = "record" => \A e \in CheckinsOf(r) : ~(e.at >= now - Throttle)
          /\ looked' = [looked EXCEPT ![r] = CheckinsOf(r)]
  BY DEF CheckThrottle
<1>a. /\ pc'[r] = to /\ looked'[r] = CheckinsOf(r) /\ CheckinsOf(r) \subseteq events
      /\ \A s \in Requests \ {r} : pc'[s] = pc[s] /\ looked'[s] = looked[s]
      /\ \A e \in events : e.by \in Requests \ {r} /\ e.at \in Int
      /\ req[r].purpose = "CHECKIN" /\ r \notin again
  BY <1>0 DEF ScanInv, TypeOK, EventDoc, EventsMatch, RequestsInOrder, CheckinsOf,
     RetriesFindTheirEvent
<1>1. TypeOK'
  <2>1. pc' \in [Requests -> Labels] /\ looked' \in [Requests -> SUBSET events]
    BY <1>0, <1>a DEF ScanInv, TypeOK, Labels, Ended
  <2> QED BY <1>0, <2>1 DEF ScanInv, TypeOK, EventDoc, PostingOf, Operation
<1>2. RequestsInOrder'
  BY <1>0, <1>a, SameViews DEF ScanInv, RequestsInOrder
<1>3. ClaimsLast' /\ UsedOnce'
  BY <1>0, <1>a DEF ScanInv, ClaimsLast, UsedOnce, Expiry
<1>4. EventsMatch'
  BY <1>a, SameViews DEF ScanInv, EventsMatch
<1>5. LooksAreOld'
  <2>1. \A e \in looked'[r] : to = "record" => e.at < now - Throttle
    BY <1>0, <1>a, TimeAssumption DEF ScanInv, TypeOK
  <2> QED BY <1>a, <2>1 DEF ScanInv, LooksAreOld
<1>6. ThrottledUnlessRaced'
  BY <1>a DEF ScanInv, ThrottledUnlessRaced
<1>7. AnsweredIsRecorded' /\ AuditedIsRecorded'
  BY <1>0, <1>a, SameViews DEF ScanInv, AnsweredIsRecorded, AuditedIsRecorded
<1>8. RetriesFindTheirEvent'
  BY <1>0, <1>a, SameViews DEF ScanInv, TypeOK, RetriesFindTheirEvent
<1> QED BY <1>1, <1>2, <1>3, <1>4, <1>5, <1>6, <1>7, <1>8 DEF ScanInv

\* Postings with the key of a request are the posting of the request.
LEMMA PostKeeps == ASSUME ScanInv, NEW r \in Requests, Post(r) PROVE ScanInv'
<1> USE DEF Goto, codeVars
<1>0. /\ req[r] \in Intents /\ pc \in [Requests -> Labels] /\ pc[r] = "post"
      /\ pc' = [pc EXCEPT ![r] = "mark"]
      /\ UNCHANGED <<now, codeVars, accounts, events, req, again, looked>>
  BY DEF Post, ScanInv, TypeOK
<1>1. posted \subseteq posted' /\ PostingOf(req[r]) \in posted'
      /\ posted' \subseteq {PostingOf(i) : i \in Intents}
  <2>1. CASE Ledger!Post(PostingOf(req[r]))
    BY <1>0, <2>1 DEF Ledger!Post, ScanInv, TypeOK
  <2>2. CASE /\ \E q \in posted : Ledger!SameKey(PostingOf(req[r]), q)
             /\ UNCHANGED ledgerVars
    <3>1. PICK i \in Intents : PostingOf(i) \in posted
                               /\ Ledger!SameKey(PostingOf(req[r]), PostingOf(i))
      BY <2>2 DEF ScanInv, TypeOK
    <3>2. i = req[r]
      BY <1>0, <3>1, KeysNameIntents DEF PostingOf, Ledger!SameKey
    <3> QED BY <2>2, <3>1, <3>2 DEF ScanInv, TypeOK, ledgerVars
  <2> QED BY <2>1, <2>2 DEF Post
<1>2. TypeOK'
  <2>1. {PostingOf(i) : i \in Intents}' = {PostingOf(i) : i \in Intents}
    BY DEF PostingOf, Operation
  <2>2. "mark" \in Labels
    BY DEF Labels
  <2> QED BY <1>0, <1>1, <2>1, <2>2 DEF ScanInv, TypeOK, EventDoc
<1>3. RequestsInOrder'
  BY <1>0, <1>1, SameViews DEF ScanInv, RequestsInOrder
<1>4. ClaimsLast' /\ UsedOnce'
  BY <1>0 DEF ScanInv, ClaimsLast, UsedOnce, Expiry
<1>5. EventsMatch'
  BY <1>0, SameViews DEF ScanInv, TypeOK, EventDoc, EventsMatch
<1>6. LooksAreOld' /\ ThrottledUnlessRaced'
  BY <1>0 DEF ScanInv, LooksAreOld, ThrottledUnlessRaced
<1>7. AnsweredIsRecorded' /\ AuditedIsRecorded'
  BY <1>0, <1>1, SameViews DEF ScanInv, AnsweredIsRecorded, AuditedIsRecorded
<1>8. RetriesFindTheirEvent'
  BY <1>0, SameViews DEF ScanInv, TypeOK, RequestsInOrder, RetriesFindTheirEvent
<1> QED BY <1>2, <1>3, <1>4, <1>5, <1>6, <1>7, <1>8 DEF ScanInv

\* The event of r: none that is there has been saved by r, and a check-in has
\* only old ones in its look.
LEMMA RecordKeeps == ASSUME ScanInv, NEW r \in Requests, Record(r) PROVE ScanInv'
<1> USE DEF Record, Goto, codeVars, ledgerVars
<1>0. /\ req[r] \in Intents /\ pc \in [Requests -> Labels] /\ pc[r] = "record"
      /\ req[r].purpose \in Purposes /\ req[r].tenant \in Tenants /\ req[r].key \in Keys
      /\ CustomerOf(r) \in Customers /\ now \in 0 .. MaxTime /\ now \in Int
  BY OwnerAssumption, ScanIntentsAssumption DEF ScanInv, TypeOK, Intent, CustomerOf
<1>a. req[r].purpose # "CHECKIN" => PostingOf(req[r]) \in posted
  BY <1>0 DEF ScanInv, RequestsInOrder
<1>b. r \in again => req[r].purpose # "CHECKIN"
  BY <1>0 DEF ScanInv, RetriesFindTheirEvent
<1>1. CASE EventOf(r) # {}
  <2>1. \A e \in EventOf(r) : e.purpose = req[r].purpose /\ e.cust = CustomerOf(r)
    <3>1. TAKE e \in EventOf(r)
    <3>2. e \in events /\ e.by \in Requests /\ req[e.by] \in Intents
      BY DEF EventOf, ScanInv, TypeOK, EventDoc
    <3>3. req[e.by].key = req[r].key
      BY <3>2 DEF EventOf, ScanInv, EventsMatch
    <3> QED BY <1>0, <3>2, <3>3, KeysNameIntents DEF ScanInv, EventsMatch, CustomerOf
  <2>2. PICK to \in {"done", "failed"} : Goto(r, to)
          /\ (to = "done" => req[r].purpose # "CHECKIN") /\ UNCHANGED events
    BY <1>1
  <2>3. MayMove(r, to)
    BY <1>0, <1>1, <1>a, <1>b, <2>1, <2>2 DEF MayMove, Labels, Ended, NotYetClaimed
  <2> QED BY <1>1, <2>2, <2>3, MoveKeeps DEF database, locals, ScanInv, TypeOK
<1>2. CASE EventOf(r) = {}
  <2> DEFINE new == [tenant |-> req[r].tenant, key |-> req[r].key, purpose |-> req[r].purpose,
                     cust |-> CustomerOf(r), at |-> now, by |-> r]
  <2>0. events' = events \cup {new} /\ pc' = [pc EXCEPT ![r] = "audit"]
    BY <1>2
  <2>a. /\ pc'[r] = "audit" /\ \A s \in Requests \ {r} : pc'[s] = pc[s]
        /\ \A e \in events : e.by \in Requests \ {r} /\ e.at \in Int
        /\ \A s \in Requests : EventOf(s) \subseteq EventOf(s)'
        /\ new \in EventOf(r)'
        /\ \A s \in Requests : CustomerOf(s)' = CustomerOf(s)
    BY <1>0, <2>0 DEF ScanInv, TypeOK, EventDoc, EventsMatch, EventOf, CustomerOf
  <2> HIDE DEF new
  <2>b. /\ new.tenant = req[r].tenant /\ new.key = req[r].key /\ new.purpose = req[r].purpose
        /\ new.cust = CustomerOf(r) /\ new.at = now /\ new.by = r /\ new \in EventDoc
    BY <1>0 DEF new, EventDoc
  <2>1. TypeOK'
    <3>1. pc' \in [Requests -> Labels]
      BY <1>0, <2>0 DEF Labels
    <3>2. events' \subseteq EventDoc
      BY <2>0, <2>b DEF ScanInv, TypeOK
    <3> QED BY <2>0, <3>1, <3>2 DEF ScanInv, TypeOK, EventDoc, PostingOf, Operation
  <2>2. RequestsInOrder'
    BY <2>0, <2>a, <1>a, SameViews DEF ScanInv, RequestsInOrder
  <2>3. ClaimsLast' /\ UsedOnce'
    BY <2>0, <2>a DEF ScanInv, ClaimsLast, UsedOnce, Expiry
  <2>4. EventsMatch'
    BY <1>0, <2>0, <2>a, <2>b DEF ScanInv, EventsMatch
  <2>5. LooksAreOld'
    BY <2>0, <2>a DEF ScanInv, LooksAreOld
  <2>6. ThrottledUnlessRaced'
    <3>1. ASSUME NEW e \in events, new.purpose = "CHECKIN", e \in looked[r]
          PROVE  now - e.at > Throttle
      <4>1. e.at < now - Throttle
        BY <1>0, <2>b, <3>1 DEF ScanInv, LooksAreOld
      <4>2. e.at \in Int /\ now \in Int /\ Throttle \in Int
        BY <1>0, <2>a, TimeAssumption
      <4> QED BY <4>1, <4>2
    <3>2. \A s \in Requests : looked[s] \subseteq events
      BY DEF ScanInv, TypeOK
    <3>3. new \notin events
      BY <2>a, <2>b
    <3> QED BY <2>0, <2>a, <2>b, <3>1, <3>2, <3>3 DEF ScanInv, ThrottledUnlessRaced
  <2>7. AnsweredIsRecorded' /\ AuditedIsRecorded'
    BY <2>0, <2>a, <2>b, SameViews DEF ScanInv, AnsweredIsRecorded, AuditedIsRecorded
  <2>8. RetriesFindTheirEvent'
    BY <1>b, <2>0, <2>a DEF ScanInv, TypeOK, RetriesFindTheirEvent
  <2> QED BY <2>1, <2>2, <2>3, <2>4, <2>5, <2>6, <2>7, <2>8 DEF ScanInv
<1> QED BY <1>1, <1>2

-----------------------------------------------------------------------------
(* The invariant *)

\* Nothing has been scanned at the start.
LEMMA InitInv == Init => ScanInv
<1> SUFFICES ASSUME Init PROVE ScanInv
  OBVIOUS
<1>1. (CHOOSE i \in Intents : TRUE) \in Intents
  BY ScanIntentsAssumption
<1>2. TypeOK
  BY <1>1, MembershipAssumption, TimeAssumption DEF Init, Ledger!Init, TypeOK, Labels
<1>3. \A r \in Requests : pc[r] = "idle" /\ claimed[r] = Never /\ looked[r] = {}
  BY DEF Init
<1> QED
  BY <1>2, <1>3 DEF Init, ScanInv, RequestsInOrder, ClaimsLast, EventsMatch, LooksAreOld,
     UsedOnce, ThrottledUnlessRaced, AnsweredIsRecorded, AuditedIsRecorded,
     RetriesFindTheirEvent

\* The invariant speaks of the variables only.
LEMMA StutterKeeps == ASSUME ScanInv, UNCHANGED vars PROVE ScanInv'
<1> USE DEF vars, codeVars, ledgerVars
<1>1. TypeOK'
  BY DEF ScanInv, TypeOK, EventDoc, PostingOf, Operation
<1>2. RequestsInOrder' /\ EventsMatch'
  BY SameViews DEF ScanInv, TypeOK, EventDoc, RequestsInOrder, EventsMatch
<1>3. ClaimsLast' /\ UsedOnce' /\ LooksAreOld' /\ ThrottledUnlessRaced'
  BY DEF ScanInv, ClaimsLast, UsedOnce, LooksAreOld, ThrottledUnlessRaced, Expiry
<1>4. AnsweredIsRecorded' /\ AuditedIsRecorded' /\ RetriesFindTheirEvent'
  BY SameViews DEF ScanInv, TypeOK, AnsweredIsRecorded, AuditedIsRecorded, RetriesFindTheirEvent
<1> QED BY <1>1, <1>2, <1>3, <1>4 DEF ScanInv

\* The invariant is inductive: one case per action of Next.
LEMMA NextInv == ScanInv /\ [Next]_vars => ScanInv'
<1> SUFFICES ASSUME ScanInv, [Next]_vars PROVE ScanInv'
  OBVIOUS
<1>1. CASE Tick
  BY <1>1, TickKeeps
<1>2. ASSUME NEW c \in Codes, MakeCode(c) \/ ForgetClaim(c) PROVE ScanInv'
  BY <1>2, MakeCodeKeeps, ForgetClaimKeeps
<1>3. ASSUME NEW r \in Requests, Step(r) PROVE ScanInv'
  BY <1>3, ArriveKeeps, MovesKeep, ClaimKeeps, ThrottleKeeps, PostKeeps, RecordKeeps DEF Step
<1>4. CASE UNCHANGED vars
  BY <1>4, StutterKeeps
<1> QED BY <1>1, <1>2, <1>3, <1>4 DEF Next

\* The inductive invariant holds in every reachable state.
THEOREM ScanInvariance == Spec => []ScanInv
BY InitInv, NextInv, PTL DEF Spec

\* consumeJti: of the requests that claim a code before it expires, one succeeds.
THEOREM SingleUse == Spec => []UsedOnce
<1>1. ScanInv => UsedOnce
  BY DEF ScanInv
<1> QED BY <1>1, ScanInvariance, PTL

\* The throttle lets two check-ins pass too close to each other only if neither
\* saw the other.
THEOREM ThrottleHolds == Spec => []ThrottledUnlessRaced
<1>1. ScanInv => ThrottledUnlessRaced
  BY DEF ScanInv
<1> QED BY <1>1, ScanInvariance, PTL

\* A retry of an answered check-in is not refused as used or throttled.
THEOREM CheckinRetries == Spec => []CheckinRetryIsAnswered
<1>1. ScanInv => CheckinRetryIsAnswered
  BY DEF ScanInv, RetriesFindTheirEvent, CheckinRetryIsAnswered
<1> QED BY <1>1, ScanInvariance, PTL

\* A scan that was answered with success has its event, and its posting.
THEOREM Recorded == Spec => []AnsweredIsRecorded
<1>1. ScanInv => AnsweredIsRecorded
  BY DEF ScanInv
<1> QED BY <1>1, ScanInvariance, PTL
=============================================================================
