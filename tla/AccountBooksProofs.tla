-------------------------- MODULE AccountBooksProofs --------------------------
(***************************************************************************)
(* BooksInv is inductive, for any requests, merchants, customers and       *)
(* intents.  Beside the types and where requests are it has three parts:   *)
(* what is written is what its request says, and statement and ledger are  *)
(* written together (BooksMatch); a deletion leaves nothing and nobody     *)
(* writes for whom it has finished with (DeletionsClear); and what says    *)
(* that a transaction was reversed stays (NotesHold).  A step is described *)
(* by what it does to the row of its request (Moves) and to each of the    *)
(* collections, and every part of the invariant is shown once to survive   *)
(* such a change.                                                          *)
(* SteadyInv adds what is needed of whatever is read by position,          *)
(* BalancesInv of the balances that entries name, and CardsInv and         *)
(* VolumesInv of what Reports computes from several collections.           *)
(***************************************************************************)
EXTENDS Reports, Sums, FiniteSetTheorems, TLAPS

\* Requests for op come to the label l.
Fits(op, l) ==
    /\ l = "enrol" => op = "post"
    /\ l \in {"check", "markRead", "mark"} => op \in Posts
    /\ l \in {"open", "commit"} => op \in Posts \cup {"manual", "reverse"}
    /\ l = "simFind" => op = "simulate"
    /\ l \in {"findTx", "note"} => op = "reverse"
    /\ l = "reread" => op \in {"manual", "reverse"}
    /\ l = "account" => op \in {"manual", "reverse", "adjust"}
    /\ l = "resolve" => op \in {"adjust", "simulate"}
    /\ l \in {"balance", "save", "append", "insert"} => op = "adjust"
    /\ l \in {"membership", "switch"} => op \in {"disable", "enable"}
    /\ l \in {"user", "delLedger", "delTransactions", "delAccounts", "delCustomer", "delUser"} =>
          op = "delete"
    /\ l = "page" => op = "history"

\* Labels at which a request does not know its customer.
Unknown == {"idle", "resolve", "findTx"}

\* Labels of a request that has saved a transaction, if it ever will.
Late == {"append", "insert", "reread", "note", "markRead", "mark", "done", "failed"}

\* A request holds a transaction it has read.
HoldsCopy(r) ==
    \/ req[r].op = "reverse" /\ pc[r] # "idle"
    \/ pc[r] = "mark" /\ amt[r] < 0

Ordered(r) ==
    /\ Fits(req[r].op, pc[r])
    /\ pc[r] \in Unknown => who[r] = NoOne
    /\ pc[r] \notin Unknown \cup {"failed"} => who[r] \in Customers
    /\ HoldsCopy(r) => copy[r] \in TransactionDoc
    /\ req[r].op = "reverse" /\ pc[r] \notin {"idle", "findTx", "failed"} => who[r] = copy[r].cust
    /\ pc[r] = "mark" /\ amt[r] < 0 =>
          copy[r].merchant = req[r].merchant /\ copy[r].key = ClientKey(r)

InOrder == \A r \in Requests : Ordered(r)

Written(r) == req[r].op \in Writers /\ pc[r] \in Late

\* A transaction says what its request says.
RowFits(d) ==
    /\ Written(d.id) /\ d.merchant = req[d.id].merchant /\ d.cust = who[d.id]
    /\ d.key = ClientKey(d.id) /\ SignedPoints(d) = amt[d.id]

\* An entry says what its request says, which has done nothing before.
EntryFits(e) ==
    /\ Written(e.tx) /\ pc[e.tx] \notin {"append", "insert"}
    /\ e.merchant = req[e.tx].merchant /\ e.cust = who[e.tx] /\ e.amount = amt[e.tx]

RowsFit ==
    /\ \A t \in transactions : RowFits(t)
    /\ \A e \in entries : EntryFits(e)
    /\ \A r \in Requests : HoldsCopy(r) => RowFits(copy[r])
    /\ \A t, u \in transactions : t.id = u.id => t = u

HasRow(r) == \E t \in transactions : t.id = r
HasEntry(r) == \E e \in entries : e.tx = r

\* Neither stands alone, but for an adjustment that has saved the first.
BooksMatch ==
    /\ \A e \in entries : Erased(e.cust) \/ HasRow(e.tx)
    /\ \A t \in transactions : Erased(t.cust) \/ HalfAdjusted(t.id) \/ HasEntry(t.id)
    /\ \A r \in Requests : pc[r] \in {"append", "insert"} => Erased(who[r]) \/ HasRow(r)

\* What is left of c once a deletion has come to the label l.
Cleared(c, l) ==
    /\ l \in {"delTransactions", "delAccounts", "delCustomer", "delUser"} => EntriesOf(c) = {}
    /\ l \in {"delAccounts", "delCustomer", "delUser"} => \A t \in transactions : t.cust # c
    /\ l \in {"delCustomer", "delUser"} => \A a \in accounts : a.cust # c
    /\ l = "delUser" => c \notin customers

\* A deletion that nobody crosses runs alone, and whoever asks for the customer
\* afterwards does not find it.
DeletionsClear ==
    \A c \in Customers \ crossed :
        /\ BeingDeleted(c) => ~WriterUnderWay
        /\ \A s \in Requests : who[s] = c => Cleared(c, pc[s])
        /\ c \notin users =>
              /\ EntriesOf(c) = {} /\ c \notin customers
              /\ \A t \in transactions : t.cust # c
              /\ \A a \in accounts : a.cust # c
              /\ \A w \in Requests : who[w] = c /\ req[w].op \in Writers =>
                    pc[w] \in Resting \cup {"enrol", "account"}

\* The reversal a transaction names is one of it.
Named(d) ==
    d.reversal # NoOne =>
        /\ req[d.reversal].op = "reverse" /\ pc[d.reversal] = "done"
        /\ copy[d.reversal].id = d.id /\ who[d.reversal] = d.cust

\* Its own scan has still to write the metadata of the transaction.
MarkPending(t) == req[t.id].op \in Posts /\ pc[t.id] \in {"markRead", "mark"}

Reversed(t) == \E r \in Requests : req[r].op = "reverse" /\ pc[r] = "done" /\ copy[r].id = t.id

NotesHold ==
    /\ \A t \in transactions : Named(t)
    /\ \A r \in Requests : HoldsCopy(r) => Named(copy[r])
    /\ \A r \in Requests :
          req[r].op = "reverse" /\ pc[r] \in {"reread", "note", "done"} =>
              Erased(who[r]) \/ HasRow(r)
    /\ \A t \in transactions : MarkPending(t) /\ ~Repeated(t) =>
          /\ t.scan = "none"
          /\ \A r \in Requests : HoldsCopy(r) /\ copy[r].id = t.id => copy[r].scan = "none"
    /\ \A t \in transactions, r \in Requests :
          req[r].op = "reverse" /\ pc[r] = "done" /\ copy[r].id = t.id =>
              \/ t.reversal # NoOne
              \/ t.scan # "none" /\ copy[r].scan = "none"
              \/ Repeated(t)

BooksInv == BooksTyped /\ InOrder /\ RowsFit /\ BooksMatch /\ DeletionsClear /\ NotesHold

-----------------------------------------------------------------------------
(* What every step does: r alone changes, and goes forward.  Where a copy   *)
(* comes from is said here, where a document comes from below.              *)

StepOf(r) ==
    /\ \A s \in Requests \ {r} :
          /\ pc'[s] = pc[s] /\ req'[s] = req[s] /\ who'[s] = who[s]
          /\ amt'[s] = amt[s] /\ copy'[s] = copy[s]
    /\ pc[r] \notin {"done", "failed"} /\ pc'[r] # "idle"
    /\ pc[r] # "idle" => req'[r] = req[r] /\ (req[r].op # "reverse" => amt'[r] = amt[r])
    /\ pc[r] \notin Unknown => who'[r] = who[r] /\ amt'[r] = amt[r]
    /\ pc[r] \in Late => pc'[r] \in Late
    /\ pc[r] \in Late \ {"append", "insert"} => pc'[r] \notin {"append", "insert"}
    /\ pc[r] \notin {"idle", "user"} => pc'[r] # "user"
    /\ HoldsCopy(r)' => (HoldsCopy(r) /\ copy'[r] = copy[r]) \/ copy'[r] \in transactions
    /\ req[r].op = "reverse" /\ pc[r] \notin {"idle", "findTx"} => copy'[r] = copy[r]

\* What has been written fits its request still, a customer who is being erased
\* stays so, and so does a transaction whose key was asked for again.
LEMMA Steadfast ==
    ASSUME BooksTyped, InOrder, NEW r \in Requests, StepOf(r)
    PROVE  /\ \A d : d.id \in Requests /\ RowFits(d) => RowFits(d)'
           /\ \A e : e.tx \in Requests /\ EntryFits(e) => EntryFits(e)'
           /\ \A c : Erased(c) => Erased(c)'
           /\ \A t : Repeated(t) => Repeated(t)'
<1>1. \A x \in Requests : Written(x) =>
         /\ Written(x)' /\ req'[x] = req[x] /\ who'[x] = who[x] /\ amt'[x] = amt[x]
         /\ pc[x] \notin {"append", "insert"} => pc'[x] \notin {"append", "insert"}
  BY DEF StepOf, Written, Late, Unknown
<1>2. \A x \in Requests : Written(x) => ClientKey(x)' = ClientKey(x)
  BY <1>1 DEF ClientKey
<1>3. ASSUME NEW d, d.id \in Requests, RowFits(d)
      PROVE  RowFits(d)'
  <2>1. Written(d.id)
    BY <1>3 DEF RowFits
  <2>2. SignedPoints(d)' = SignedPoints(d)
    BY DEF SignedPoints
  <2> QED BY <1>1, <1>2, <1>3, <2>1, <2>2 DEF RowFits
<1>4. ASSUME NEW e, e.tx \in Requests, EntryFits(e)
      PROVE  EntryFits(e)'
  BY <1>1, <1>4 DEF EntryFits
<1>5. ASSUME NEW c, Erased(c)
      PROVE  Erased(c)'
  <2>1. PICK s \in Requests : req[s].op = "delete" /\ who[s] = c /\ pc[s] \notin {"idle", "user"}
    BY <1>5 DEF Erased
  <2>2. req'[s] = req[s] /\ who'[s] = who[s] /\ pc'[s] \notin {"idle", "user"}
    BY <2>1 DEF StepOf, InOrder, Ordered, Fits, Unknown
  <2> QED BY <2>1, <2>2 DEF Erased
<1>6. ASSUME NEW t, Repeated(t)
      PROVE  Repeated(t)'
  <2>1. PICK s \in Requests \ {t.id} :
           req[s].op \in Posts /\ pc[s] # "idle" /\ req[s].merchant = t.merchant /\ ClientKey(s) = t.key
    BY <1>6 DEF Repeated
  <2>2. req'[s] = req[s] /\ amt'[s] = amt[s] /\ pc'[s] # "idle"
    BY <2>1 DEF StepOf, Posts
  <2>3. ClientKey(s)' = ClientKey(s)
    BY <2>2 DEF ClientKey
  <2> QED BY <2>1, <2>2, <2>3 DEF Repeated
<1> QED BY <1>3, <1>4, <1>5, <1>6

\* Requests are in order if the one that moves is.
LEMMA OrderKept ==
    ASSUME BooksTyped, InOrder, NEW r \in Requests, StepOf(r), Ordered(r)'
    PROVE  InOrder'
<1>1. \A s \in Requests \ {r} : Ordered(s)'
  <2> SUFFICES ASSUME NEW s \in Requests \ {r}
               PROVE  Ordered(s)'
    OBVIOUS
  <2>1. /\ pc'[s] = pc[s] /\ req'[s] = req[s] /\ who'[s] = who[s]
        /\ amt'[s] = amt[s] /\ copy'[s] = copy[s]
    BY DEF StepOf
  <2>2. ClientKey(s)' = ClientKey(s) /\ (HoldsCopy(s)' <=> HoldsCopy(s))
    BY <2>1 DEF ClientKey, HoldsCopy
  <2>3. Fits(req[s].op, pc[s])' <=> Fits(req[s].op, pc[s])
    BY <2>1 DEF Fits
  <2> QED BY <2>1, <2>2, <2>3 DEF InOrder, Ordered
<1> QED BY <1>1 DEF InOrder

-----------------------------------------------------------------------------
(* What a step may do to the collections without losing a part of BooksInv *)

\* Rows stay what their request says, whatever is added says what its does.
LEMMA RowsKept ==
    ASSUME BooksTyped, InOrder, RowsFit, NEW r \in Requests, StepOf(r),
           \A t \in transactions' : t \in transactions \/ RowFits(t)',
           \A e \in entries' : e \in entries \/ EntryFits(e)',
           \A t, u \in transactions' : t.id = u.id => t = u
    PROVE  RowsFit'
<1>1. \A t \in transactions : t.id \in Requests
  BY DEF BooksTyped, TransactionDoc
<1>2. \A t \in transactions : RowFits(t)'
  BY <1>1, Steadfast DEF RowsFit
<1>3. \A e \in entries : EntryFits(e)'
  BY Steadfast DEF RowsFit, BooksTyped
<1>4. \A s \in Requests : \A d : HoldsCopy(s) /\ d = copy[s] => RowFits(d)'
  <2>1. \A s \in Requests : HoldsCopy(s) => copy[s].id \in Requests
    BY DEF InOrder, Ordered, TransactionDoc
  <2> QED BY <2>1, Steadfast DEF RowsFit
<1>5. \A s \in Requests : HoldsCopy(s)' => RowFits(copy[s])'
  <2> SUFFICES ASSUME NEW s \in Requests, HoldsCopy(s)'
               PROVE  RowFits(copy[s])'
    OBVIOUS
  <2>1. copy'[s] \in transactions \/ (HoldsCopy(s) /\ copy'[s] = copy[s])
    BY DEF StepOf, HoldsCopy
  <2> QED BY <1>2, <1>4, <2>1
<1> QED BY <1>2, <1>3, <1>5 DEF RowsFit

\* Statement and ledger stay matched where nothing is added to one without the
\* other, and nothing taken away but of a customer who is being erased.
LEMMA MatchKept ==
    ASSUME BooksTyped, InOrder, RowsFit, BooksMatch, NEW r \in Requests, StepOf(r),
           \A e \in entries' : e \in entries \/ HasRow(e.tx)' \/ Erased(e.cust),
           \A e \in entries : e \in entries' \/ Erased(e.cust),
           \A t \in transactions' :
              \/ \E u \in transactions : u.id = t.id /\ u.cust = t.cust
              \/ HalfAdjusted(t.id)' \/ HasEntry(t.id)',
           \A t \in transactions : HasRow(t.id)' \/ Erased(t.cust),
           pc[r] \in {"append", "insert"} => pc'[r] \in {"insert", "failed"} \/ HasEntry(r)',
           pc'[r] \in {"append", "insert"} => pc[r] \in {"append", "insert"} \/ HasRow(r)'
    PROVE  BooksMatch'
<1>1. ASSUME NEW e \in entries'
      PROVE  Erased(e.cust)' \/ HasRow(e.tx)'
  <2>1. CASE e \in entries
    <3>1. CASE Erased(e.cust)
      BY <3>1, Steadfast
    <3>2. CASE HasRow(e.tx)
      <4>1. PICK t \in transactions : t.id = e.tx
        BY <3>2 DEF HasRow
      <4>2. t.cust = e.cust
        BY <2>1, <4>1 DEF RowsFit, RowFits, EntryFits
      <4> QED BY <4>1, <4>2, Steadfast
    <3> QED BY <2>1, <3>1, <3>2 DEF BooksMatch
  <2> QED BY <2>1, Steadfast
<1>2. ASSUME NEW t \in transactions', NEW u \in transactions, u.id = t.id, u.cust = t.cust
      PROVE  Erased(t.cust)' \/ HalfAdjusted(t.id)' \/ HasEntry(t.id)'
  <2>1. CASE Erased(u.cust)
    BY <1>2, <2>1, Steadfast
  <2>2. CASE HalfAdjusted(u.id)
    <3>1. u.id \in Requests
      BY DEF BooksTyped, TransactionDoc
    <3>2. CASE u.id = r
      BY <1>2, <2>2, <3>2 DEF HalfAdjusted, StepOf
    <3>3. CASE u.id # r
      BY <1>2, <2>2, <3>1, <3>3 DEF HalfAdjusted, StepOf
    <3> QED BY <3>2, <3>3
  <2>3. CASE HasEntry(u.id)
    <3>1. PICK e \in entries : e.tx = u.id
      BY <2>3 DEF HasEntry
    <3>2. e.cust = u.cust
      BY <3>1 DEF RowsFit, RowFits, EntryFits
    <3>3. CASE e \in entries'
      BY <1>2, <3>1, <3>3 DEF HasEntry
    <3>4. CASE Erased(e.cust)
      BY <1>2, <3>2, <3>4, Steadfast
    <3> QED BY <3>3, <3>4
  <2> QED BY <2>1, <2>2, <2>3 DEF BooksMatch
<1>3. ASSUME NEW s \in Requests, pc'[s] \in {"append", "insert"}
      PROVE  Erased(who[s])' \/ HasRow(s)'
  <2>1. (pc[s] \in {"append", "insert"} /\ who'[s] = who[s]) \/ HasRow(s)'
    BY <1>3 DEF StepOf, Unknown
  <2>2. Erased(who[s]) /\ who'[s] = who[s] => Erased(who[s])'
    BY Steadfast DEF Erased
  <2>3. ASSUME NEW t \in transactions, t.id = s, pc[s] \in {"append", "insert"}, who'[s] = who[s]
        PROVE  Erased(who[s])' \/ HasRow(s)'
    <3>1. t.cust = who[s]
      BY <2>3 DEF RowsFit, RowFits
    <3> QED BY <2>2, <2>3, <3>1
  <2> QED BY <2>1, <2>2, <2>3 DEF BooksMatch, HasRow
<1> QED BY <1>1, <1>2, <1>3 DEF BooksMatch

\* r may write for c.
MayWrite(r, c) ==
    /\ req[r].op \in Writers /\ pc[r] \notin Resting /\ who[r] = c
    /\ pc[r] \in {"enrol", "account"} => c \in customers

NoBooks(c) ==
    EntriesOf(c) = {} /\ (\A t \in transactions : t.cust # c) /\ \A a \in accounts : a.cust # c

Deleting == {"delTransactions", "delAccounts", "delCustomer", "delUser"}

\* Deletions stay clear where a step writes for its customer only, and comes
\* no further with a deletion than what it has deleted.
LEMMA DeletionsKept ==
    ASSUME BooksTyped, InOrder, DeletionsClear, NEW r \in Requests, StepOf(r),
           customers' \subseteq customers, crossed \subseteq crossed',
           \A c \in Customers \ crossed' :
              /\ \/ MayWrite(r, c)
                 \/ /\ EntriesOf(c) = {} => EntriesOf(c)' = {}
                    /\ (\A t \in transactions : t.cust # c) => \A t \in transactions' : t.cust # c
                    /\ (\A a \in accounts : a.cust # c) => \A a \in accounts' : a.cust # c
              /\ \/ BeingDeleted(c)' => BeingDeleted(c) /\ (pc[r] # "idle" \/ req'[r].op \notin Writers)
                 \/ ~WriterUnderWay'
              /\ who'[r] = c => Cleared(c, pc[r])'
              /\ c \in users \ users' => pc[r] = "delUser" /\ who[r] = c
              /\ c \notin users' /\ who'[r] = c /\ req'[r].op \in Writers =>
                    \/ pc'[r] \in Resting \cup {"enrol", "account"}
                    \/ c \in users
                    \/ who[r] = c /\ pc[r] \notin {"idle", "enrol", "account"}
                    \/ ~NoBooks(c) \/ c \in customers
    PROVE  DeletionsClear'
<1> SUFFICES ASSUME NEW c \in Customers, c \notin crossed'
             PROVE  (/\ BeingDeleted(c) => ~WriterUnderWay
                     /\ \A s \in Requests : who[s] = c => Cleared(c, pc[s])
                     /\ c \notin users =>
                           /\ EntriesOf(c) = {} /\ c \notin customers
                           /\ \A t \in transactions : t.cust # c
                           /\ \A a \in accounts : a.cust # c
                           /\ \A w \in Requests : who[w] = c /\ req[w].op \in Writers =>
                                 pc[w] \in Resting \cup {"enrol", "account"})'
  BY DEF DeletionsClear
<1>0. c \notin crossed
  OBVIOUS
<1>1. /\ BeingDeleted(c) => ~WriterUnderWay
      /\ \A s \in Requests : who[s] = c => Cleared(c, pc[s])
      /\ c \notin users =>
            /\ NoBooks(c) /\ c \notin customers
            /\ \A w \in Requests : who[w] = c /\ req[w].op \in Writers =>
                  pc[w] \in Resting \cup {"enrol", "account"}
  BY <1>0 DEF DeletionsClear, NoBooks
<1>2. ~WriterUnderWay /\ (pc[r] # "idle" \/ req'[r].op \notin Writers) => ~WriterUnderWay'
  BY DEF WriterUnderWay, StepOf, Resting
<1>3. (BeingDeleted(c) => ~WriterUnderWay)'
  BY <1>1, <1>2
<1>4. BeingDeleted(c) \/ c \notin users => ~MayWrite(r, c)
  BY <1>1 DEF MayWrite, WriterUnderWay, Resting
<1>5. ASSUME NEW s \in Requests, who'[s] = c
      PROVE  Cleared(c, pc[s])'
  <2>1. CASE s = r
    BY <1>5, <2>1
  <2>2. CASE s # r /\ pc[s] \in Deleting
    <3>1. who[s] = c /\ pc'[s] = pc[s]
      BY <1>5, <2>2 DEF StepOf
    <3>2. ~MayWrite(r, c)
      BY <1>4, <2>2, <3>1 DEF BeingDeleted, Deleting
    <3>3. Cleared(c, pc[s])
      BY <1>1, <3>1
    <3> QED BY <3>1, <3>2, <3>3 DEF Cleared
  <2>3. CASE s # r /\ pc[s] \notin Deleting
    <3>1. pc'[s] = pc[s]
      BY <2>3 DEF StepOf
    <3> QED BY <2>3, <3>1 DEF Cleared, Deleting
  <2> QED BY <2>1, <2>2, <2>3
<1>6. ASSUME c \notin users'
      PROVE  /\ NoBooks(c)' /\ c \notin customers'
             /\ \A w \in Requests : who'[w] = c /\ req'[w].op \in Writers =>
                   pc'[w] \in Resting \cup {"enrol", "account"}
  <2>1. CASE c \in users
    <3>1. pc[r] = "delUser" /\ who[r] = c
      BY <1>6, <2>1
    <3>2. ~MayWrite(r, c) /\ ~WriterUnderWay
      BY <1>1, <1>4, <3>1 DEF BeingDeleted
    <3>3. Cleared(c, "delUser")
      BY <1>1, <3>1
    <3>4. NoBooks(c)' /\ c \notin customers'
      BY <3>2, <3>3 DEF Cleared, NoBooks
    <3>5. req'[r].op = "delete"
      BY <3>1 DEF InOrder, Ordered, Fits, StepOf
    <3>6. \A w \in Requests \ {r} : req'[w].op \in Writers => pc'[w] \in Resting
      BY <3>2 DEF WriterUnderWay, StepOf
    <3> QED BY <3>4, <3>5, <3>6 DEF Writers, Posts
  <2>2. CASE c \notin users
    <3>1. ~MayWrite(r, c) /\ NoBooks(c) /\ c \notin customers
      BY <1>1, <1>4, <2>2
    <3>2. NoBooks(c)' /\ c \notin customers'
      BY <3>1 DEF NoBooks
    <3>3. \A w \in Requests \ {r} : who'[w] = c /\ req'[w].op \in Writers =>
             pc'[w] \in Resting \cup {"enrol", "account"}
      BY <1>1, <2>2 DEF StepOf
    <3>4. who'[r] = c /\ req'[r].op \in Writers => pc'[r] \in Resting \cup {"enrol", "account"}
      <4>1. who[r] = c /\ pc[r] \notin {"idle", "enrol", "account"} => 
               req'[r].op \notin Writers \/ pc[r] \in Resting
        BY <1>1, <2>2 DEF StepOf
      <4>2. pc[r] # "idle" => pc[r] \notin Resting
        BY DEF StepOf, Resting
      <4> QED BY <1>6, <2>2, <3>1, <4>1, <4>2
    <3> QED BY <3>2, <3>3, <3>4
  <2> QED BY <2>1, <2>2
<1> QED BY <1>3, <1>5, <1>6 DEF NoBooks

\* Notes of reversals stay where no row is touched but a new one added, and rows
\* of customers who are being erased taken away.
LEMMA NotesKept ==
    ASSUME BooksTyped, InOrder, RowsFit, NotesHold, NEW r \in Requests, StepOf(r),
           \A t \in transactions' :
              \/ t \in transactions
              \/ t.id = r /\ t.reversal = NoOne /\ t.scan = "none" /\ pc[r] \notin Late,
           \A t \in transactions : t \in transactions' \/ Erased(t.cust),
           req'[r].op = "reverse" /\ pc'[r] \in {"reread", "note", "done"} =>
              pc'[r] # "done" /\ (pc[r] = "reread" \/ HasRow(r)')
    PROVE  NotesHold'
<1>1. \A s \in Requests : \A d : HoldsCopy(s)' /\ d = copy'[s] =>
         (HoldsCopy(s) /\ d = copy[s]) \/ d \in transactions
  BY DEF StepOf, HoldsCopy
<1>2. \A d : Named(d) /\ d.reversal \in Requests \cup {NoOne} => Named(d)'
  BY DEF Named, StepOf
<1>3. /\ \A t \in transactions : t.id \in Requests /\ t.reversal \in Requests \cup {NoOne}
      /\ \A s \in Requests : HoldsCopy(s) =>
            copy[s].id \in Requests /\ copy[s].reversal \in Requests \cup {NoOne}
  BY DEF BooksTyped, InOrder, Ordered, TransactionDoc
<1>4. \A t \in transactions' : Named(t)'
  BY <1>2, <1>3 DEF NotesHold, Named
<1>5. \A s \in Requests : HoldsCopy(s)' => Named(copy[s])'
  <2> SUFFICES ASSUME NEW s \in Requests, HoldsCopy(s)', NEW d, d = copy'[s]
               PROVE  Named(d)'
    BY DEF Named
  <2> QED BY <1>1, <1>2, <1>3 DEF NotesHold
<1>6. \A s \in Requests :
         req'[s].op = "reverse" /\ pc'[s] \in {"reread", "note", "done"} =>
            Erased(who[s])' \/ HasRow(s)'
  <2> SUFFICES ASSUME NEW s \in Requests, req'[s].op = "reverse", pc'[s] \in {"reread", "note", "done"}
               PROVE  Erased(who[s])' \/ HasRow(s)'
    OBVIOUS
  <2>1. \/ req[s].op = "reverse" /\ pc[s] \in {"reread", "note", "done"} /\ who'[s] = who[s]
        \/ HasRow(s)'
    BY DEF StepOf, Unknown
  <2>2. ASSUME Erased(who[s]), who'[s] = who[s]
        PROVE  Erased(who[s])'
    BY <2>2, Steadfast DEF Erased
  <2>3. ASSUME HasRow(s), who'[s] = who[s]
        PROVE  Erased(who[s])' \/ HasRow(s)'
    <3>1. PICK t \in transactions : t.id = s
      BY <2>3 DEF HasRow
    <3>2. t.cust = who[s]
      BY <3>1 DEF RowsFit, RowFits
    <3>3. CASE t \in transactions'
      BY <3>1, <3>3 DEF HasRow
    <3>4. CASE Erased(t.cust)
      BY <2>2, <2>3, <3>2, <3>4
    <3> QED BY <3>3, <3>4
  <2> QED BY <2>1, <2>2, <2>3 DEF NotesHold
<1>7. ASSUME NEW t \in transactions', MarkPending(t)', ~Repeated(t)'
      PROVE  /\ t.scan = "none"
             /\ \A s \in Requests : HoldsCopy(s)' /\ copy'[s].id = t.id => copy'[s].scan = "none"
  <2>1. CASE t \in transactions
    <3>1. MarkPending(t)
      BY <1>7, <2>1, <1>3 DEF MarkPending, RowsFit, RowFits, Written, InOrder, Ordered, Fits, StepOf,
                         Late, Posts
    <3>2. ~Repeated(t)
      BY <1>7, Steadfast
    <3>3. \A u \in transactions : u.id = t.id => u = t
      BY <2>1 DEF RowsFit
    <3> QED BY <1>1, <2>1, <3>1, <3>2, <3>3 DEF NotesHold
  <2>2. CASE t \notin transactions
    <3>1. t.id = r /\ t.scan = "none" /\ pc[r] \notin Late
      BY <2>2
    <3>2. \A u \in transactions : u.id # r
      BY <3>1 DEF RowsFit, RowFits, Written
    <3>3. \A s \in Requests : HoldsCopy(s) => copy[s].id # r
      BY <3>1 DEF RowsFit, RowFits, Written
    <3> QED BY <1>1, <3>1, <3>2, <3>3
  <2> QED BY <2>1, <2>2
<1>8. ASSUME NEW t \in transactions', NEW s \in Requests,
             req'[s].op = "reverse", pc'[s] = "done", copy'[s].id = t.id
      PROVE  t.reversal # NoOne \/ (t.scan # "none" /\ copy'[s].scan = "none") \/ Repeated(t)'
  <2>1. s # r /\ req[s].op = "reverse" /\ pc[s] = "done" /\ copy'[s] = copy[s]
    BY <1>8 DEF StepOf
  <2>2. HoldsCopy(s)
    BY <2>1 DEF HoldsCopy
  <2>3. Written(t.id)
    BY <1>8, <2>1, <2>2 DEF RowsFit, RowFits
  <2>4. t \in transactions
    BY <2>3 DEF Written
  <2> QED BY <1>8, <2>1, <2>4, Steadfast DEF NotesHold
<1> QED BY <1>4, <1>5, <1>6, <1>7, <1>8 DEF NotesHold

\* c is in some collection: what is left of a deletion is not.
Known(c) == c \in customers \/ ~NoBooks(c)

\* A step that reads the books.
Quiet(r) ==
    /\ pc[r] # "idle" /\ StepOf(r) /\ Ordered(r)'
    /\ UNCHANGED <<transactions, entries, accounts, customers, users, crossed>>
    /\ pc'[r] \notin Deleting
    /\ pc[r] \in {"append", "insert"} => pc'[r] \in {"insert", "failed"}
    /\ pc'[r] \in {"append", "insert"} => pc[r] = "append"
    /\ req[r].op = "reverse" /\ pc'[r] \in {"reread", "note", "done"} => pc[r] = "reread" /\ pc'[r] = "note"
    /\ req[r].op \in Writers /\ pc'[r] \notin Resting \cup {"enrol", "account"} =>
          pc[r] \notin Unknown \cup {"enrol", "account"} \/ Known(who'[r])

\* Such steps keep all of the invariant but the types.
LEMMA QuietKeeps ==
    ASSUME BooksInv, NEW r \in Requests, Quiet(r), BooksTyped'
    PROVE  BooksInv'
<1>1. /\ BooksTyped /\ InOrder /\ RowsFit /\ BooksMatch /\ DeletionsClear /\ NotesHold
      /\ StepOf(r) /\ Ordered(r)' /\ pc[r] # "idle" /\ req'[r] = req[r]
  BY DEF BooksInv, Quiet, StepOf
<1>2. UNCHANGED <<transactions, entries, accounts, customers, users, crossed>>
  BY DEF Quiet
<1>3. InOrder'
  BY <1>1, OrderKept
<1>4. RowsFit'
  <2>1. \A t, u \in transactions' : t.id = u.id => t = u
    BY <1>1, <1>2 DEF RowsFit
  <2> QED BY <1>1, <1>2, <2>1, RowsKept
<1>5. BooksMatch'
  <2>1. \A t \in transactions : HasRow(t.id)'
    BY <1>2 DEF HasRow
  <2>2. /\ pc[r] \in {"append", "insert"} => pc'[r] \in {"insert", "failed"}
        /\ pc'[r] \in {"append", "insert"} => pc[r] = "append"
    BY DEF Quiet
  <2> QED BY <1>1, <1>2, <2>1, <2>2, MatchKept
<1>6. DeletionsClear'
  <2> SUFFICES ASSUME NEW c \in Customers, c \notin crossed'
               PROVE  /\ \/ MayWrite(r, c)
                         \/ /\ EntriesOf(c) = {} => EntriesOf(c)' = {}
                            /\ (\A t \in transactions : t.cust # c) =>
                                  \A t \in transactions' : t.cust # c
                            /\ (\A a \in accounts : a.cust # c) => \A a \in accounts' : a.cust # c
                      /\ \/ BeingDeleted(c)' =>
                               BeingDeleted(c) /\ (pc[r] # "idle" \/ req'[r].op \notin Writers)
                         \/ ~WriterUnderWay'
                      /\ who'[r] = c => Cleared(c, pc[r])'
                      /\ c \in users \ users' => pc[r] = "delUser" /\ who[r] = c
                      /\ c \notin users' /\ who'[r] = c /\ req'[r].op \in Writers =>
                            \/ pc'[r] \in Resting \cup {"enrol", "account"}
                            \/ c \in users
                            \/ who[r] = c /\ pc[r] \notin {"idle", "enrol", "account"}
                            \/ ~NoBooks(c) \/ c \in customers
    BY <1>1, <1>2, DeletionsKept
  <2>1. EntriesOf(c)' = EntriesOf(c)
    BY <1>2 DEF EntriesOf
  <2>2. BeingDeleted(c)' => BeingDeleted(c)
    BY <1>1 DEF Quiet, StepOf, BeingDeleted, Deleting
  <2>3. Cleared(c, pc[r])'
    BY DEF Quiet, Cleared, Deleting
  <2>4. who'[r] = c /\ req'[r].op \in Writers =>
           \/ pc'[r] \in Resting \cup {"enrol", "account"}
           \/ who[r] = c /\ pc[r] \notin {"idle", "enrol", "account"}
           \/ ~NoBooks(c) \/ c \in customers
    BY <1>1 DEF Quiet, StepOf, Known, Unknown
  <2> QED BY <1>1, <1>2, <2>1, <2>2, <2>3, <2>4
<1>7. NotesHold'
  BY <1>1, <1>2, NotesKept DEF Quiet
<1> QED BY <1>3, <1>4, <1>5, <1>6, <1>7 DEF BooksInv

-----------------------------------------------------------------------------
(* Steps that read the books and write at most their request's row          *)

\* r goes on to the label l with the row it has.
Walks(r, l) ==
    /\ pc[r] \notin Resting /\ l \in Labels \ (Deleting \cup Unknown \cup {"user"})
    /\ pc' = [pc EXCEPT ![r] = l] /\ UNCHANGED <<req, who, amt, copy>>
    /\ UNCHANGED <<transactions, entries, accounts, customers, users, crossed>>
    /\ Fits(req[r].op, l)
    /\ pc[r] \in Unknown => l = "failed"
    /\ pc[r] \in Late => l \in Late
    /\ pc[r] \in Late \ {"append", "insert"} => l \notin {"append", "insert"}
    /\ pc[r] \in {"append", "insert"} => l \in {"insert", "failed"}
    /\ l \in {"append", "insert"} => pc[r] = "append"
    /\ l = "mark" => amt[r] >= 0
    /\ req[r].op = "reverse" /\ l \in {"reread", "note", "done"} => pc[r] = "reread" /\ l = "note"
    /\ req[r].op \in Writers /\ pc[r] \in {"enrol", "account"} =>
          l \in {"failed", "enrol", "account"} \/ Known(who[r])

\* Such a request keeps the invariant, whatever it has read.
LEMMA WalkKeeps ==
    ASSUME BooksInv, NEW r \in Requests, NEW l, Walks(r, l),
           now' \in Nat, at' \in [Requests -> Nat]
    PROVE  BooksInv'
<1>1. BooksTyped /\ InOrder /\ Ordered(r)
  BY DEF BooksInv, InOrder
<1>2. /\ pc'[r] = l /\ pc' \in [Requests -> Labels] /\ \A s \in Requests \ {r} : pc'[s] = pc[s]
      /\ req'[r] = req[r] /\ who'[r] = who[r] /\ amt'[r] = amt[r] /\ copy'[r] = copy[r]
      /\ UNCHANGED <<req, who, amt, copy>>
  BY <1>1 DEF Walks, BooksTyped
<1>3. BooksTyped'
  BY <1>1, <1>2 DEF Walks, BooksTyped
<1>4. HoldsCopy(r)' => HoldsCopy(r)
  BY <1>1, <1>2 DEF HoldsCopy, Walks, Resting, BooksTyped
<1>5. StepOf(r)
  BY <1>1, <1>2, <1>4 DEF Walks, StepOf, Resting, Unknown
<1>6. Ordered(r)'
  <2>1. ClientKey(r)' = ClientKey(r)
    BY <1>2 DEF ClientKey
  <2>2. Fits(req[r].op, pc[r])'
    BY <1>2 DEF Walks, Fits
  <2>3. pc'[r] \notin Unknown \cup {"failed"} => who'[r] \in Customers
    BY <1>1, <1>2 DEF Walks, Ordered, Unknown, Resting
  <2>4. HoldsCopy(r)' => copy'[r] \in TransactionDoc
    BY <1>1, <1>2, <1>4 DEF Ordered
  <2>5. req'[r].op = "reverse" /\ pc'[r] \notin {"idle", "findTx", "failed"} => who'[r] = copy'[r].cust
    BY <1>1, <1>2 DEF Walks, Ordered, Unknown, Resting
  <2>6. ~(pc'[r] = "mark" /\ amt'[r] < 0)
    BY <1>1, <1>2 DEF Walks, BooksTyped
  <2> QED BY <1>2, <2>1, <2>2, <2>3, <2>4, <2>5, <2>6 DEF Ordered, Walks
<1>7. Quiet(r)
  <2>1. req[r].op \in Writers /\ pc'[r] \notin Resting \cup {"enrol", "account"} =>
          pc[r] \notin Unknown \cup {"enrol", "account"} \/ Known(who'[r])
    BY <1>2 DEF Walks, Resting, Unknown
  <2> QED BY <1>2, <1>5, <1>6, <2>1 DEF Walks, Quiet, Resting
<1> QED BY <1>3, <1>7, QuietKeeps

\* A request that is refused, or fails.
LEMMA RefuseKeeps ==
    ASSUME BooksInv, NEW r \in Requests, pc[r] \notin Resting, Refuse(r)
    PROVE  BooksInv'
<1>1. Walks(r, "failed")
  BY DEF Refuse, Goto, Walks, Labels, Resting, Deleting, Unknown, Late, Fits, collections, locals, history
<1>2. now' \in Nat /\ at' \in [Requests -> Nat]
  BY DEF BooksInv, BooksTyped, Refuse, collections, locals
<1> QED BY <1>1, <1>2, WalkKeeps

\* A request that goes on with all it has.
LEMMA GoesOn ==
    ASSUME BooksInv, NEW r \in Requests, NEW l, pc[r] \notin Resting \cup Unknown \cup Late,
           l \in Labels \ (Resting \cup Deleting \cup Unknown \cup Late \cup {"user"}),
           Goto(r, l), Fits(req[r].op, l),
           UNCHANGED <<collections, req, locals, history>>,
           pc[r] \in {"enrol", "account"} => Known(who[r])
    PROVE  BooksInv'
<1>1. Walks(r, l)
  BY DEF Goto, Walks, Resting, Late, collections, locals, history
<1>2. now' \in Nat /\ at' \in [Requests -> Nat]
  BY DEF BooksInv, BooksTyped, collections, locals
<1> QED BY <1>1, <1>2, WalkKeeps

\* A posting that finds its key goes to the metadata at once.
LEMMA CheckKeeps ==
    ASSUME BooksInv, NEW r \in Requests, Check(r)
    PROVE  BooksInv'
<1>1. pc[r] = "check" /\ req[r].op \in Posts /\ amt[r] \in Int
  BY DEF Check, BooksInv, BooksTyped, InOrder, Ordered, Fits
<1>2. CASE Refuse(r)
  BY <1>1, <1>2, RefuseKeeps DEF Resting
<1>3. CASE Goto(r, AfterPosting(r)) /\ UNCHANGED <<collections, req, locals, history>>
  <2>1. Walks(r, AfterPosting(r))
    BY <1>1, <1>3 DEF Goto, Walks, AfterPosting, Resting, Labels, Deleting, Unknown, Late, Fits, Posts,
                  collections, locals, history
  <2>2. now' \in Nat /\ at' \in [Requests -> Nat]
    BY <1>3 DEF BooksInv, BooksTyped, collections, locals
  <2> QED BY <2>1, <2>2, WalkKeeps
<1>4. CASE Goto(r, "open") /\ UNCHANGED <<collections, req, locals, history>>
  BY <1>1, <1>4, GoesOn DEF Resting, Labels, Deleting, Unknown, Late, Fits, Posts
<1> QED BY <1>2, <1>3, <1>4 DEF Check

\* Reading the book changes nothing but clock and locals.
LEMMA ReadKeeps ==
    ASSUME BooksInv, NEW r \in Requests, ReadBook(r), NEW l, Goto(r, l),
           (pc[r] = "open" /\ l = "commit") \/ (pc[r] = "append" /\ l = "insert")
    PROVE  BooksInv'
<1>1. Ordered(r) /\ BooksTyped
  BY DEF BooksInv, InOrder
<1>2. Walks(r, l)
  BY <1>1 DEF Ordered, Goto, Walks, ReadBook, Resting, Labels, Deleting, Unknown, Late, Fits, Posts
<1>3. now' \in Nat /\ at' \in [Requests -> Nat]
  BY <1>1 DEF BooksTyped, ReadBook
<1> QED BY <1>2, <1>3, WalkKeeps

\* A session that opens reads the book, or its request is refused.
LEMMA OpenKeeps ==
    ASSUME BooksInv, NEW r \in Requests, Open(r)
    PROVE  BooksInv'
<1>1. CASE Refuse(r)
  BY <1>1, RefuseKeeps DEF Open, Resting
<1>2. CASE ReadBook(r) /\ Goto(r, "commit")
  BY <1>2, ReadKeeps DEF Open
<1> QED BY <1>1, <1>2 DEF Open

\* Outside a session the book is read on its own.
LEMMA AppendReadKeeps ==
    ASSUME BooksInv, NEW r \in Requests, AppendRead(r)
    PROVE  BooksInv'
BY ReadKeeps DEF AppendRead

\* A simulated scan looks for account and customer.
LEMMA SimulateFindKeeps ==
    ASSUME BooksInv, NEW r \in Requests, SimulateFind(r)
    PROVE  BooksInv'
<1>1. pc[r] = "simFind" /\ req[r].op = "simulate"
  BY DEF SimulateFind, BooksInv, InOrder, Ordered, Fits
<1>2. CASE Refuse(r)
  BY <1>1, <1>2, RefuseKeeps DEF Resting
<1>3. CASE Goto(r, "check") /\ UNCHANGED <<collections, req, locals, history>>
  BY <1>1, <1>3, GoesOn DEF Resting, Labels, Deleting, Unknown, Late, Fits, Posts
<1> QED BY <1>2, <1>3 DEF SimulateFind

\* An adjustment that goes on has found an account, so nobody has deleted it.
LEMMA FindAccountKeeps ==
    ASSUME BooksInv, NEW r \in Requests, FindAccount(r)
    PROVE  BooksInv'
<1>1. pc[r] = "account" /\ req[r].op \in {"manual", "reverse", "adjust"}
  BY DEF FindAccount, BooksInv, InOrder, Ordered, Fits
<1>2. CASE Refuse(r)
  BY <1>1, <1>2, RefuseKeeps DEF Resting
<1>3. CASE ~Refuse(r)
  <2>1. UNCHANGED <<collections, req, locals, history>> /\ AccountsOf(req[r].merchant, who[r]) # {}
    BY <1>3 DEF FindAccount
  <2>2. Known(who[r])
    BY <2>1 DEF AccountsOf, Known, NoBooks
  <2>3. \/ Goto(r, "open") /\ req[r].op # "adjust"
        \/ (Goto(r, "balance") \/ Goto(r, "save")) /\ req[r].op = "adjust"
    BY <1>3 DEF FindAccount
  <2> QED BY <1>1, <2>1, <2>2, <2>3, GoesOn DEF Resting, Labels, Deleting, Unknown, Late, Fits
<1> QED BY <1>2, <1>3

\* The balance an adjustment answers with is only read.
LEMMA RereadKeeps ==
    ASSUME BooksInv, NEW r \in Requests, Reread(r)
    PROVE  BooksInv'
<1>1. pc[r] = "reread" /\ req[r].op \in {"manual", "reverse"}
  BY DEF Reread, BooksInv, InOrder, Ordered, Fits
<1>2. Walks(r, IF req[r].op = "reverse" THEN "note" ELSE "done")
  BY <1>1 DEF Reread, Goto, Walks, Resting, Labels, Deleting, Unknown, Late, Fits, collections,
              locals, history
<1>3. now' \in Nat /\ at' \in [Requests -> Nat]
  BY DEF Reread, BooksInv, BooksTyped, collections, locals
<1> QED BY <1>2, <1>3, WalkKeeps

\* So is the one a negative adjustment is held against.
LEMMA CheckBalanceKeeps ==
    ASSUME BooksInv, NEW r \in Requests, CheckBalance(r)
    PROVE  BooksInv'
<1>1. pc[r] = "balance" /\ req[r].op = "adjust"
  BY DEF CheckBalance, BooksInv, InOrder, Ordered, Fits
<1>2. CASE Refuse(r)
  BY <1>1, <1>2, RefuseKeeps DEF Resting
<1>3. CASE Goto(r, "save") /\ UNCHANGED <<collections, req, locals, history>>
  BY <1>1, <1>3, GoesOn DEF Resting, Labels, Deleting, Unknown, Late, Fits
<1> QED BY <1>2, <1>3 DEF CheckBalance

\* And the account a switch looks for.
LEMMA FindMembershipKeeps ==
    ASSUME BooksInv, NEW r \in Requests, FindMembership(r)
    PROVE  BooksInv'
<1>1. pc[r] = "membership" /\ req[r].op \in {"disable", "enable"}
  BY DEF FindMembership, BooksInv, InOrder, Ordered, Fits
<1>2. CASE Refuse(r)
  BY <1>1, <1>2, RefuseKeeps DEF Resting
<1>3. CASE Goto(r, "switch") /\ UNCHANGED <<collections, req, locals, history>>
  BY <1>1, <1>3, GoesOn DEF Resting, Labels, Deleting, Unknown, Late, Fits
<1> QED BY <1>2, <1>3 DEF FindMembership

\* A deletion begins by looking for the login.
LEMMA FindUserKeeps ==
    ASSUME BooksInv, NEW r \in Requests, FindUser(r)
    PROVE  BooksInv'
<1>1. pc[r] = "user" /\ req[r].op = "delete"
  BY DEF FindUser, BooksInv, InOrder, Ordered, Fits
<1>2. Walks(r, IF who[r] \in users THEN "delLedger" ELSE "done")
  BY <1>1 DEF FindUser, Goto, Walks, Resting, Labels, Deleting, Unknown, Late, Fits, Writers, Posts,
              collections, locals, history
<1>3. now' \in Nat /\ at' \in [Requests -> Nat]
  BY DEF FindUser, BooksInv, BooksTyped, collections, locals
<1> QED BY <1>2, <1>3, WalkKeeps

\* A customer who turns the page changes nothing.
LEMMA ReadPageKeeps ==
    ASSUME BooksInv, NEW r \in Requests, ReadPage(r)
    PROVE  BooksInv'
<1>1. pc[r] = "page" /\ req[r].op = "history" /\ pc \in [Requests -> Labels]
  BY DEF ReadPage, BooksInv, BooksTyped, InOrder, Ordered, Fits
<1>2. pc' = pc \/ Goto(r, "done")
  BY DEF ReadPage
<1>3. PICK l \in {"page", "done"} : pc' = [pc EXCEPT ![r] = l]
  BY <1>1, <1>2 DEF Goto
<1>4. Walks(r, l)
  BY <1>1, <1>3 DEF ReadPage, Walks, Resting, Labels, Deleting, Unknown, Late, Fits, Writers, Posts,
              collections
<1>5. now' \in Nat /\ at' \in [Requests -> Nat]
  BY DEF ReadPage, BooksInv, BooksTyped, collections
<1> QED BY <1>4, <1>5, WalkKeeps

\* The transaction a redemption reads is one its posting may have answered with.
LEMMA MarkReadKeeps ==
    ASSUME BooksInv, NEW r \in Requests, MarkRead(r)
    PROVE  BooksInv'
<1>1. /\ BooksTyped /\ pc[r] = "markRead" /\ req[r].op \in Posts /\ who[r] \in Customers
      /\ UNCHANGED <<collections, req, who, amt, base, at, page, got, history>>
  BY DEF MarkRead, BooksInv, InOrder, Ordered, Fits, Unknown
<1>2. CASE Goto(r, "done") /\ UNCHANGED copy
  <2>1. Walks(r, "done")
    BY <1>1, <1>2 DEF Goto, Walks, Resting, Labels, Deleting, Unknown, Late, Fits, Posts, collections,
                  history
  <2>2. now' \in Nat /\ at' \in [Requests -> Nat]
    BY <1>1 DEF BooksTyped, collections
  <2> QED BY <2>1, <2>2, WalkKeeps
<1>3. ASSUME NEW t \in Posted(r), copy' = [copy EXCEPT ![r] = t], Goto(r, "mark")
      PROVE  BooksInv'
  <2>1. t \in transactions /\ t \in TransactionDoc /\ t.merchant = req[r].merchant /\ t.key = ClientKey(r)
    BY <1>1 DEF Posted, BooksTyped
  <2>2. /\ pc'[r] = "mark" /\ copy'[r] = t /\ pc' \in [Requests -> Labels]
        /\ \A s \in Requests \ {r} : pc'[s] = pc[s] /\ copy'[s] = copy[s]
        /\ copy' \in [Requests -> TransactionDoc \cup {NoOne}]
    BY <1>1, <1>3, <2>1 DEF Goto, BooksTyped, Labels
  <2>3. BooksTyped'
    BY <1>1, <2>2 DEF BooksTyped, collections
  <2>4. StepOf(r)
    BY <1>1, <2>1, <2>2 DEF StepOf, Unknown, Late, Posts
  <2>5. ClientKey(r)' = ClientKey(r)
    BY <1>1 DEF ClientKey
  <2>6. Ordered(r)'
    BY <1>1, <2>1, <2>2, <2>5 DEF Ordered, Fits, Unknown, Posts
  <2>7. Quiet(r)
    BY <1>1, <2>2, <2>4, <2>6 DEF Quiet, collections, history, Deleting, Unknown, Posts
  <2> QED BY <2>3, <2>7, QuietKeeps
<1> QED BY <1>2, <1>3 DEF MarkRead

\* A place in the list is turned into a customer who has an account.
LEMMA ResolveKeeps ==
    ASSUME BooksInv, NEW r \in Requests, pc[r] = "resolve", NEW l,
           \/ l = "simFind" /\ req[r].op = "simulate"
           \/ l = "account" /\ req[r].op = "adjust",
           NEW a \in PlaceHolder(req[r].merchant, page[r]), who' = [who EXCEPT ![r] = a.cust],
           Goto(r, l), UNCHANGED <<collections, req, copy, amt, base, at, page, got, history>>
    PROVE  BooksInv'
<1>1. BooksTyped /\ ~HoldsCopy(r)
  BY DEF BooksInv, InOrder, Ordered, HoldsCopy, Fits
<1>2. a \in accounts /\ a.cust \in Customers
  BY <1>1 DEF PlaceHolder, BooksTyped, AccountDoc
<1>3. /\ pc'[r] = l /\ who'[r] = a.cust /\ pc' \in [Requests -> Labels]
      /\ \A s \in Requests \ {r} : pc'[s] = pc[s] /\ who'[s] = who[s]
      /\ who' \in [Requests -> Customers \cup {NoOne}]
  BY <1>1, <1>2 DEF Goto, BooksTyped, Labels
<1>4. BooksTyped'
  BY <1>1, <1>3 DEF BooksTyped, collections
<1>5. StepOf(r)
  BY <1>1, <1>3 DEF StepOf, Unknown, Late, HoldsCopy
<1>6. Ordered(r)'
  BY <1>2, <1>3 DEF Ordered, Fits, Unknown, HoldsCopy
<1>7. Known(who'[r])
  BY <1>2, <1>3 DEF Known, NoBooks
<1>8. Quiet(r)
  BY <1>3, <1>5, <1>6, <1>7 DEF Quiet, collections, history, Deleting
<1> QED BY <1>4, <1>8, QuietKeeps

\* A simulated scan turns the place into a customer with an account.
LEMMA SimulateResolveKeeps ==
    ASSUME BooksInv, NEW r \in Requests, SimulateResolve(r)
    PROVE  BooksInv'
<1>1. CASE Refuse(r)
  BY <1>1, RefuseKeeps DEF SimulateResolve, Resting
<1>2. CASE ~Refuse(r)
  <2>1. PICK a \in PlaceHolder(req[r].merchant, page[r]) : who' = [who EXCEPT ![r] = a.cust]
    BY <1>2 DEF SimulateResolve
  <2> QED BY <1>2, <2>1, ResolveKeeps DEF SimulateResolve
<1> QED BY <1>1, <1>2

\* An adjustment by place turns it into a customer in the same way.
LEMMA ResolvePlaceKeeps ==
    ASSUME BooksInv, NEW r \in Requests, ResolvePlace(r)
    PROVE  BooksInv'
<1>1. CASE Refuse(r)
  BY <1>1, RefuseKeeps DEF ResolvePlace, Resting
<1>2. CASE ~Refuse(r)
  <2>1. PICK a \in PlaceHolder(req[r].merchant, page[r]) : who' = [who EXCEPT ![r] = a.cust]
    BY <1>2 DEF ResolvePlace
  <2> QED BY <1>2, <2>1, ResolveKeeps DEF ResolvePlace
<1> QED BY <1>1, <1>2

\* A reversal works for the customer of the transaction it found.
LEMMA FindTransactionKeeps ==
    ASSUME BooksInv, NEW r \in Requests, FindTransaction(r)
    PROVE  BooksInv'
<1>1. BooksTyped /\ pc[r] = "findTx" /\ req[r].op = "reverse"
  BY DEF FindTransaction, BooksInv, InOrder, Ordered, Fits
<1>2. CASE Refuse(r)
  BY <1>1, <1>2, RefuseKeeps DEF Resting
<1>3. CASE ~Refuse(r)
  <2>1. PICK t \in transactions :
           /\ copy' = [copy EXCEPT ![r] = t] /\ who' = [who EXCEPT ![r] = t.cust]
           /\ amt' = [amt EXCEPT ![r] = -t.amount]
    BY <1>3 DEF FindTransaction
  <2>2. Goto(r, "account") /\ UNCHANGED <<collections, req, base, at, page, got, history>>
    BY <1>3 DEF FindTransaction
  <2>3. t \in TransactionDoc /\ t.cust \in Customers /\ -t.amount \in Int
    BY <1>1 DEF BooksTyped, TransactionDoc
  <2>4. /\ pc'[r] = "account" /\ who'[r] = t.cust /\ copy'[r] = t /\ pc' \in [Requests -> Labels]
        /\ \A s \in Requests \ {r} : pc'[s] = pc[s] /\ who'[s] = who[s] /\ copy'[s] = copy[s]
        /\ \A s \in Requests \ {r} : amt'[s] = amt[s]
        /\ who' \in [Requests -> Customers \cup {NoOne}] /\ amt' \in [Requests -> Int]
        /\ copy' \in [Requests -> TransactionDoc \cup {NoOne}]
    BY <1>1, <2>1, <2>2, <2>3 DEF Goto, BooksTyped, Labels
  <2>5. BooksTyped'
    BY <1>1, <2>2, <2>4 DEF BooksTyped, collections
  <2>6. StepOf(r)
    BY <1>1, <2>2, <2>4 DEF StepOf, Unknown, Late
  <2>7. Ordered(r)'
    BY <1>1, <2>2, <2>3, <2>4 DEF Ordered, Fits, Unknown
  <2>8. Known(who'[r])
    BY <2>4 DEF Known, NoBooks
  <2>9. Quiet(r)
    BY <1>1, <2>2, <2>4, <2>6, <2>7, <2>8 DEF Quiet, collections, history, Deleting
  <2> QED BY <2>5, <2>9, QuietKeeps
<1> QED BY <1>2, <1>3

-----------------------------------------------------------------------------
(* Where requests begin                                                     *)

\* A request begins at the label of its operation.
LEMMA EntranceFits ==
    ASSUME NEW op \in Ops
    PROVE  /\ Fits(op, Entrance(op))
           /\ op = "reverse" => Entrance(op) = "findTx"
           /\ op \in {"adjust", "simulate"} => Entrance(op) = "resolve"
           /\ op \notin {"reverse", "adjust", "simulate"} =>
                 Entrance(op) \in {"enrol", "account", "user", "page", "membership"}
           /\ op \in Writers => Entrance(op) \in {"enrol", "account", "findTx", "resolve"}
<1>1. CASE op = "post"
  <2>1. Entrance(op) = "enrol"
    BY <1>1 DEF Entrance
  <2> QED BY <1>1, <2>1 DEF Fits, Posts
<1>2. CASE op = "simulate"
  <2>1. Entrance(op) = "resolve"
    BY <1>2 DEF Entrance
  <2> QED BY <1>2, <2>1 DEF Fits, Posts
<1>3. CASE op = "manual"
  <2>1. Entrance(op) = "account"
    BY <1>3 DEF Entrance
  <2> QED BY <1>3, <2>1 DEF Fits, Posts
<1>4. CASE op = "reverse"
  <2>1. Entrance(op) = "findTx"
    BY <1>4 DEF Entrance
  <2> QED BY <1>4, <2>1 DEF Fits, Posts
<1>5. CASE op = "adjust"
  <2>1. Entrance(op) = "resolve"
    BY <1>5 DEF Entrance
  <2> QED BY <1>5, <2>1 DEF Fits, Posts
<1>6. CASE op \in {"disable", "enable"}
  <2>1. Entrance(op) = "membership"
    BY <1>6 DEF Entrance
  <2> QED BY <1>6, <2>1 DEF Fits, Posts, Writers
<1>7. CASE op = "delete"
  <2>1. Entrance(op) = "user"
    BY <1>7 DEF Entrance
  <2> QED BY <1>7, <2>1 DEF Fits, Posts, Writers
<1>8. CASE op = "history"
  <2>1. Entrance(op) = "page"
    BY <1>8 DEF Entrance
  <2> QED BY <1>8, <2>1 DEF Fits, Posts, Writers
<1> QED BY <1>1, <1>2, <1>3, <1>4, <1>5, <1>6, <1>7, <1>8 DEF Ops, Writers, Posts

\* Whoever asks while a deletion is under way crosses it, and whoever asks
\* afterwards has still to look for the customer.
LEMMA StartKeeps ==
    ASSUME BooksInv, NEW r \in Requests, Start(r)
    PROVE  BooksInv'
<1>1. /\ BooksTyped /\ InOrder /\ RowsFit /\ BooksMatch /\ DeletionsClear /\ NotesHold
      /\ pc[r] = "idle" /\ who[r] = NoOne /\ NoOne \notin Customers
  BY BookIdsAssumption DEF BooksInv, Start, InOrder, Ordered, Unknown
<1>2. PICK i \in Intents :
        /\ req' = [req EXCEPT ![r] = i] /\ Goto(r, Entrance(i.op))
        /\ amt' = [amt EXCEPT ![r] = i.amount]
        /\ crossed' = IF i.op \in Writers
                      THEN crossed \cup {c \in Customers : BeingDeleted(c)} ELSE crossed
        /\ CASE i.op = "reverse" ->
                  /\ \E t \in transactions :
                        t.merchant = i.merchant /\ copy' = [copy EXCEPT ![r] = t]
                  /\ UNCHANGED <<who, page, meant>>
             [] i.op \in {"adjust", "simulate"} ->
                  /\ \E a \in AccountsOf(i.merchant, i.cust) :
                        /\ page' = [page EXCEPT ![r] = PlaceOf(a)]
                        /\ meant' = [meant EXCEPT ![r] = a.cust]
                  /\ UNCHANGED <<who, copy>>
             [] OTHER ->
                  /\ who' = [who EXCEPT ![r] = i.cust]
                  /\ UNCHANGED <<copy, page, meant>>
  BY DEF Start
<1>3. i \in Intent /\ i.op \in Ops /\ i.cust \in Customers /\ i.amount \in Int
  BY BookIntentsAssumption DEF Intent
<1>4. UNCHANGED <<collections, base, at, got, rivals, first>>
  BY DEF Start
<1>5. i.op = "reverse" =>
         (\E t \in transactions : copy' = [copy EXCEPT ![r] = t]) /\ UNCHANGED who
  BY <1>2
<1>6. i.op \in {"adjust", "simulate"} => UNCHANGED <<who, copy>>
  <2>1. CASE i.op = "adjust"
    BY <1>2, <2>1
  <2>2. CASE i.op = "simulate"
    BY <1>2, <2>2
  <2> QED BY <2>1, <2>2
<1>7. i.op \notin {"reverse", "adjust", "simulate"} =>
         who' = [who EXCEPT ![r] = i.cust] /\ UNCHANGED copy
  BY <1>2
<1>8. /\ Fits(i.op, Entrance(i.op)) /\ Entrance(i.op) \in Labels
      /\ Entrance(i.op) \notin Resting \cup Deleting \cup Late \cup {"mark"}
      /\ Entrance(i.op) \in Unknown <=> i.op \in {"reverse", "adjust", "simulate"}
      /\ i.op \in Writers => Entrance(i.op) \in {"enrol", "account", "findTx", "resolve"}
  BY <1>3, EntranceFits DEF Labels, Resting, Deleting, Late, Unknown
<1>9. /\ req'[r] = i /\ req' \in [Requests -> Intents] /\ pc' \in [Requests -> Labels]
      /\ pc'[r] = Entrance(i.op) /\ amt' \in [Requests -> Int]
      /\ \A s \in Requests \ {r} : req'[s] = req[s] /\ pc'[s] = pc[s] /\ amt'[s] = amt[s]
  BY <1>1, <1>2, <1>3, <1>8 DEF BooksTyped, Goto
<1>10. /\ \A s \in Requests \ {r} : who'[s] = who[s] /\ copy'[s] = copy[s]
       /\ who' \in [Requests -> Customers \cup {NoOne}]
       /\ copy' \in [Requests -> TransactionDoc \cup {NoOne}]
       /\ i.op = "reverse" => copy'[r] \in transactions
       /\ who'[r] = IF i.op \in {"reverse", "adjust", "simulate"} THEN NoOne ELSE i.cust
  <2>1. CASE i.op = "reverse"
    BY <1>1, <1>5, <2>1 DEF BooksTyped
  <2>2. CASE i.op \in {"adjust", "simulate"}
    BY <1>1, <1>6, <2>2 DEF BooksTyped
  <2>3. CASE i.op \notin {"reverse", "adjust", "simulate"}
    BY <1>1, <1>3, <1>7, <2>3 DEF BooksTyped
  <2> QED BY <2>1, <2>2, <2>3
<1>11. BooksTyped'
  BY <1>1, <1>4, <1>9, <1>10 DEF BooksTyped, collections
<1>12. HoldsCopy(r)' => i.op = "reverse"
  BY <1>8, <1>9 DEF HoldsCopy
<1>13. StepOf(r)
  BY <1>1, <1>8, <1>9, <1>10, <1>12 DEF StepOf, Resting, Unknown, Late
<1>14. Ordered(r)'
  <2>1. pc'[r] \in Unknown => who'[r] = NoOne
    BY <1>8, <1>9, <1>10
  <2>2. pc'[r] \notin Unknown => who'[r] \in Customers /\ i.op # "reverse"
    BY <1>3, <1>8, <1>9, <1>10
  <2>3. Fits(req[r].op, pc[r])'
    BY <1>8, <1>9 DEF Fits
  <2>4. HoldsCopy(r)' => copy'[r] \in TransactionDoc
    BY <1>1, <1>10, <1>12 DEF BooksTyped
  <2>5. req'[r].op = "reverse" => pc'[r] = "findTx"
    BY <1>3, <1>9, EntranceFits
  <2> QED BY <1>8, <1>9, <2>1, <2>2, <2>3, <2>4, <2>5 DEF Ordered, Unknown
<1>15. UNCHANGED <<transactions, entries, accounts, customers, users>>
  BY <1>4 DEF collections
<1>16. RowsFit'
  <2>1. \A t, u \in transactions' : t.id = u.id => t = u
    BY <1>1, <1>15 DEF RowsFit
  <2> QED BY <1>1, <1>13, <1>15, <2>1, RowsKept
<1>17. BooksMatch'
  <2>1. \A t \in transactions : HasRow(t.id)'
    BY <1>15 DEF HasRow
  <2>2. pc'[r] \notin {"append", "insert"}
    BY <1>8, <1>9 DEF Late
  <2> QED BY <1>1, <1>13, <1>15, <2>1, <2>2, MatchKept
<1>18. DeletionsClear'
  <2> SUFFICES ASSUME NEW c \in Customers, c \notin crossed'
               PROVE  /\ EntriesOf(c) = {} => EntriesOf(c)' = {}
                      /\ BeingDeleted(c)' => BeingDeleted(c) /\ req'[r].op \notin Writers
                      /\ who'[r] = c => Cleared(c, pc[r])'
                      /\ who'[r] = c /\ req'[r].op \in Writers => pc'[r] \in {"enrol", "account"}
    BY <1>1, <1>2, <1>13, <1>15, DeletionsKept
  <2>1. EntriesOf(c)' = EntriesOf(c)
    BY <1>15 DEF EntriesOf
  <2>2. BeingDeleted(c)' => BeingDeleted(c)
    BY <1>8, <1>9, <1>10 DEF BeingDeleted, Deleting
  <2>3. BeingDeleted(c) => i.op \notin Writers
    BY <1>2
  <2>4. Cleared(c, pc[r])'
    BY <1>8, <1>9 DEF Cleared, Deleting
  <2>5. who'[r] = c /\ i.op \in Writers => pc'[r] \in {"enrol", "account"}
    <3>1. i.op \in Writers /\ pc'[r] \notin {"enrol", "account"} => pc'[r] \in Unknown
      BY <1>8, <1>9 DEF Unknown
    <3> QED BY <1>1, <1>8, <1>9, <1>10, <3>1
  <2> QED BY <1>9, <2>1, <2>2, <2>3, <2>4, <2>5
<1>19. NotesHold'
  <2>1. pc'[r] \notin {"reread", "note", "done"}
    BY <1>8, <1>9 DEF Late
  <2> QED BY <1>1, <1>13, <1>15, <2>1, NotesKept
<1> QED BY <1>1, <1>11, <1>13, <1>14, <1>16, <1>17, <1>18, <1>19, OrderKept DEF BooksInv

-----------------------------------------------------------------------------
(* Steps that write                                                         *)

\* A request that goes on with the row it has.
LEMMA Advance ==
    ASSUME BooksTyped, InOrder, NEW r \in Requests, NEW l \in Labels \ (Unknown \cup {"user"}),
           pc[r] \notin Resting \cup Unknown, Goto(r, l), UNCHANGED <<req, who, amt, copy>>,
           Fits(req[r].op, l), l = "mark" => amt[r] >= 0,
           pc[r] \in Late => l \in Late,
           pc[r] \in Late \ {"append", "insert"} => l \notin {"append", "insert"}
    PROVE  /\ StepOf(r) /\ InOrder'
           /\ pc' \in [Requests -> Labels] /\ pc'[r] = l /\ \A s \in Requests \ {r} : pc'[s] = pc[s]
           /\ req'[r] = req[r] /\ who'[r] = who[r] /\ amt'[r] = amt[r] /\ copy'[r] = copy[r]
<1>1. Ordered(r)
  BY DEF InOrder
<1>2. /\ pc' \in [Requests -> Labels] /\ pc'[r] = l /\ \A s \in Requests \ {r} : pc'[s] = pc[s]
      /\ req'[r] = req[r] /\ who'[r] = who[r] /\ amt'[r] = amt[r] /\ copy'[r] = copy[r]
  BY DEF BooksTyped, Goto
<1>3. HoldsCopy(r)' => HoldsCopy(r)
  BY <1>2 DEF HoldsCopy, Resting, Unknown, BooksTyped
<1>4. StepOf(r)
  BY <1>2, <1>3 DEF StepOf, Resting, Unknown
<1>5. Ordered(r)'
  <2>1. Fits(req[r].op, pc[r])'
    BY <1>2 DEF Fits
  <2>2. ~(pc'[r] = "mark" /\ amt'[r] < 0)
    BY <1>2 DEF BooksTyped
  <2> QED BY <1>1, <1>2, <1>3, <2>1, <2>2 DEF Ordered, Resting, Unknown
<1> QED BY <1>2, <1>4, <1>5, OrderKept

\* A scan enrols only customers who exist.
LEMMA EnrolKeeps ==
    ASSUME BooksInv, NEW r \in Requests, Enrol(r)
    PROVE  BooksInv'
<1>1. /\ BooksTyped /\ InOrder /\ RowsFit /\ BooksMatch /\ DeletionsClear /\ NotesHold
      /\ pc[r] = "enrol" /\ req[r].op = "post"
  BY DEF Enrol, BooksInv, InOrder, Ordered, Fits
<1>2. CASE Refuse(r)
  BY <1>1, <1>2, RefuseKeeps DEF Resting
<1>3. CASE who[r] \in customers /\ Goto(r, "check") /\ UNCHANGED <<collections, req, locals, history>>
  BY <1>1, <1>3, GoesOn DEF Resting, Labels, Deleting, Unknown, Late, Fits, Posts, Known
<1>4. CASE /\ who[r] \in customers /\ Goto(r, "check") /\ now' = now + 1
           /\ accounts' = accounts \cup {[merchant |-> req[r].merchant, cust |-> who[r],
                                          status |-> "ACTIVE", at |-> now]}
           /\ UNCHANGED <<redemptions, transactions, entries, customers, users, req, locals, history>>
  <2>1. /\ StepOf(r) /\ InOrder'
        /\ pc' \in [Requests -> Labels] /\ pc'[r] = "check"
        /\ req'[r] = req[r] /\ who'[r] = who[r]
    BY <1>1, <1>4, Advance DEF Resting, Labels, Unknown, Late, Fits, Posts, locals
  <2>2. req[r].merchant \in Merchants
    BY <1>1, BookIntentsAssumption DEF BooksTyped, Intent
  <2>3. BooksTyped'
    <3>1. [merchant |-> req[r].merchant, cust |-> who[r], status |-> "ACTIVE", at |-> now] \in AccountDoc
      BY <1>1, <1>4, <2>2 DEF BooksTyped, AccountDoc
    <3> QED BY <1>1, <1>4, <2>1, <3>1 DEF BooksTyped, locals
  <2>4. RowsFit' /\ BooksMatch' /\ NotesHold'
    <3>1. UNCHANGED <<transactions, entries>>
      BY <1>4
    <3>2. /\ \A t, u \in transactions' : t.id = u.id => t = u
          /\ \A t \in transactions : HasRow(t.id)'
      BY <1>1, <3>1 DEF RowsFit, HasRow
    <3> QED BY <1>1, <2>1, <3>1, <3>2, RowsKept, MatchKept, NotesKept
  <2>5. DeletionsClear'
    <3> SUFFICES ASSUME NEW c \in Customers, c \notin crossed'
                 PROVE  /\ \/ MayWrite(r, c)
                           \/ /\ EntriesOf(c) = {} => EntriesOf(c)' = {}
                              /\ (\A a \in accounts : a.cust # c) => \A a \in accounts' : a.cust # c
                        /\ BeingDeleted(c)' => BeingDeleted(c) /\ pc[r] # "idle"
                        /\ who'[r] = c => Cleared(c, pc[r])'
                        /\ c \notin users' /\ who'[r] = c => c \in customers
      BY <1>1, <1>4, <2>1, DeletionsKept DEF history
    <3>1. who[r] = c => MayWrite(r, c)
      BY <1>1, <1>4 DEF MayWrite, Writers, Posts, Resting
    <3>2. who[r] # c => EntriesOf(c)' = EntriesOf(c) /\ \A a \in accounts' : a \in accounts \/ a.cust # c
      BY <1>4 DEF EntriesOf
    <3>3. BeingDeleted(c)' => BeingDeleted(c)
      BY <2>1 DEF StepOf, BeingDeleted
    <3>4. Cleared(c, pc[r])'
      BY <2>1 DEF Cleared
    <3> QED BY <1>1, <1>4, <2>1, <3>1, <3>2, <3>3, <3>4
  <2> QED BY <2>1, <2>3, <2>4, <2>5 DEF BooksInv
<1> QED BY <1>2, <1>3, <1>4 DEF Enrol

\* What a request saves is its own transaction and entry.
LEMMA OwnRow ==
    ASSUME BooksTyped, NEW r \in Requests, who[r] \in Customers,
           NEW t, t = TransactionOf(r)
    PROVE  /\ t \in TransactionDoc /\ t.id = r /\ t.merchant = req[r].merchant /\ t.cust = who[r]
           /\ t.key = ClientKey(r) /\ SignedPoints(t) = amt[r]
           /\ t.reversal = NoOne /\ t.scan = "none"
<1>1. /\ req[r].merchant \in Merchants /\ req[r].key \in Keys /\ amt[r] \in Int
      /\ now \in Nat /\ at[r] \in Nat
  BY BookIntentsAssumption DEF BooksTyped, Intent
<1>2. ClientKey(r) \in Keys \cup (Keys \X {"tx"}) \cup Requests
  BY <1>1 DEF ClientKey
<1>3. StoredAmount(req[r].op, amt[r]) \in Int
      /\ Abs(StoredAmount(req[r].op, amt[r])) = Abs(amt[r])
  BY <1>1 DEF StoredAmount, Abs
<1>4. /\ t.id = r /\ t.merchant = req[r].merchant /\ t.cust = who[r] /\ t.key = ClientKey(r)
      /\ t.reversal = NoOne /\ t.scan = "none"
      /\ t.type = IF amt[r] > 0 THEN "ISSUE" ELSE "REDEEM"
      /\ t.amount = StoredAmount(req[r].op, amt[r])
  BY DEF TransactionOf
<1>5. SignedPoints(t) = amt[r]
  BY <1>1, <1>3, <1>4 DEF SignedPoints, Abs
<1>6. t \in TransactionDoc
  BY <1>1, <1>2, <1>3 DEF TransactionOf, TransactionDoc
<1> QED BY <1>4, <1>5, <1>6

\* A writer under way may write for its customer, and nothing else changes for a
\* deletion.
LEMMA WritesKeepDeletions ==
    ASSUME BooksTyped, InOrder, DeletionsClear, NEW r \in Requests, StepOf(r),
           req[r].op \in Writers, pc[r] \notin Resting \cup Unknown \cup {"enrol", "account"},
           pc'[r] \notin Deleting,
           UNCHANGED <<customers, users, accounts, crossed, who, req>>,
           \A e \in entries' : e \in entries \/ e.cust = who[r],
           \A t \in transactions' : who[r] = t.cust \/ \E u \in transactions : u.cust = t.cust
    PROVE  DeletionsClear'
<1> SUFFICES ASSUME NEW c \in Customers, c \notin crossed'
             PROVE  /\ \/ MayWrite(r, c)
                       \/ /\ EntriesOf(c) = {} => EntriesOf(c)' = {}
                          /\ (\A t \in transactions : t.cust # c) => \A t \in transactions' : t.cust # c
                    /\ BeingDeleted(c)' => BeingDeleted(c) /\ pc[r] # "idle"
                    /\ Cleared(c, pc[r])'
                    /\ who'[r] = c => who[r] = c /\ pc[r] \notin {"idle", "enrol", "account"}
  BY DeletionsKept
<1>1. who[r] = c => MayWrite(r, c)
  BY DEF MayWrite, Unknown
<1>2. who[r] # c /\ EntriesOf(c) = {} => EntriesOf(c)' = {}
  BY DEF EntriesOf
<1>3. BeingDeleted(c)' => BeingDeleted(c)
  BY DEF StepOf, BeingDeleted, Deleting
<1>4. Cleared(c, pc[r])'
  BY DEF Cleared, Deleting
<1> QED BY <1>1, <1>2, <1>3, <1>4 DEF Unknown

\* A commit writes transaction and entry together.
LEMMA CommitKeeps ==
    ASSUME BooksInv, NEW r \in Requests, Commit(r)
    PROVE  BooksInv'
<1>1. /\ BooksTyped /\ InOrder /\ RowsFit /\ BooksMatch /\ DeletionsClear /\ NotesHold
      /\ pc[r] = "commit" /\ req[r].op \in Posts \cup {"manual", "reverse"} /\ who[r] \in Customers
      /\ amt[r] \in Int
  BY DEF Commit, BooksInv, BooksTyped, InOrder, Ordered, Fits, Unknown
<1>2. PICK l \in {"markRead", "mark", "reread"} :
        /\ Goto(r, l) /\ Fits(req[r].op, l) /\ (l = "mark" => amt[r] >= 0)
  BY <1>1 DEF Commit, AfterPosting, Fits, Posts
<1>3. UNCHANGED <<accounts, customers, users, now, req, locals, history>>
  BY DEF Commit, Publish
<1>4. /\ StepOf(r) /\ InOrder'
      /\ pc' \in [Requests -> Labels] /\ pc'[r] = l /\ \A s \in Requests \ {r} : pc'[s] = pc[s]
      /\ req'[r] = req[r] /\ who'[r] = who[r] /\ amt'[r] = amt[r] /\ copy'[r] = copy[r]
  BY <1>1, <1>2, <1>3, Advance DEF Resting, Labels, Unknown, Late, locals
<1>5. PICK t : t = TransactionOf(r)
  OBVIOUS
<1>6. PICK e : e = EntryOf(r)
  OBVIOUS
<1>7. transactions' = transactions \cup {t} /\ entries' = entries \cup {e}
  BY <1>5, <1>6 DEF Commit, Publish
<1>8. /\ t \in TransactionDoc /\ t.id = r /\ t.merchant = req[r].merchant /\ t.cust = who[r]
      /\ t.key = ClientKey(r) /\ SignedPoints(t) = amt[r]
      /\ t.reversal = NoOne /\ t.scan = "none"
  BY <1>1, <1>5, OwnRow
<1>9. /\ e.tx = r /\ e.merchant = req[r].merchant /\ e.cust = who[r] /\ e.amount = amt[r]
      /\ e.at = at[r] /\ at[r] \in Nat
  BY <1>1, <1>6 DEF EntryOf, BooksTyped
<1>10. BooksTyped'
  BY <1>1, <1>3, <1>4, <1>7, <1>8, <1>9 DEF BooksTyped, locals
<1>11. Written(r)' /\ pc'[r] \notin {"append", "insert"}
  BY <1>1, <1>2, <1>4 DEF Written, Writers, Late
<1>12. RowFits(t)' /\ EntryFits(e)'
  <2>1. ClientKey(r)' = ClientKey(r)
    BY <1>4 DEF ClientKey
  <2>2. SignedPoints(t)' = SignedPoints(t)
    BY DEF SignedPoints
  <2> QED BY <1>4, <1>8, <1>9, <1>11, <2>1, <2>2 DEF RowFits, EntryFits
<1>13. \A u \in transactions : u.id # r
  BY <1>1 DEF RowsFit, RowFits, Written, Late
<1>14. RowsFit'
  <2>1. \A u, v \in transactions' : u.id = v.id => u = v
    BY <1>1, <1>7, <1>8, <1>13 DEF RowsFit
  <2> QED BY <1>1, <1>4, <1>7, <1>12, <2>1, RowsKept
<1>15. HasRow(r)' /\ HasEntry(r)' /\ \A u \in transactions : HasRow(u.id)'
  BY <1>7, <1>8, <1>9 DEF HasRow, HasEntry
<1>16. BooksMatch'
  BY <1>1, <1>4, <1>7, <1>8, <1>9, <1>15, MatchKept
<1>17. DeletionsClear'
  BY <1>1, <1>2, <1>3, <1>4, <1>7, <1>8, <1>9, WritesKeepDeletions
  DEF Resting, Unknown, Deleting, Writers, locals, history
<1>18. NotesHold'
  BY <1>1, <1>2, <1>4, <1>7, <1>8, <1>15, NotesKept DEF Late
<1> QED BY <1>4, <1>10, <1>14, <1>16, <1>17, <1>18 DEF BooksInv

\* An adjustment by staff saves its transaction alone,
LEMMA SaveTransactionKeeps ==
    ASSUME BooksInv, NEW r \in Requests, SaveTransaction(r)
    PROVE  BooksInv'
<1>1. /\ BooksTyped /\ InOrder /\ RowsFit /\ BooksMatch /\ DeletionsClear /\ NotesHold
      /\ pc[r] = "save" /\ req[r].op = "adjust" /\ who[r] \in Customers /\ amt[r] \in Int
  BY DEF SaveTransaction, BooksInv, BooksTyped, InOrder, Ordered, Fits, Unknown
<1>2. UNCHANGED <<redemptions, entries, accounts, customers, users, now, req, locals, history>>
  BY DEF SaveTransaction
<1>3. /\ StepOf(r) /\ InOrder'
      /\ pc' \in [Requests -> Labels] /\ pc'[r] = "append" /\ \A s \in Requests \ {r} : pc'[s] = pc[s]
      /\ req'[r] = req[r] /\ who'[r] = who[r] /\ amt'[r] = amt[r] /\ copy'[r] = copy[r]
  BY <1>1, <1>2, Advance DEF SaveTransaction, Resting, Labels, Unknown, Late, Fits, locals
<1>4. PICK t : t = TransactionOf(r)
  OBVIOUS
<1>5. transactions' = transactions \cup {t}
  BY <1>4 DEF SaveTransaction
<1>6. /\ t \in TransactionDoc /\ t.id = r /\ t.merchant = req[r].merchant /\ t.cust = who[r]
      /\ t.key = ClientKey(r) /\ SignedPoints(t) = amt[r]
      /\ t.reversal = NoOne /\ t.scan = "none"
  BY <1>1, <1>4, OwnRow
<1>7. BooksTyped'
  BY <1>1, <1>2, <1>3, <1>5, <1>6 DEF BooksTyped, locals
<1>8. RowFits(t)'
  <2>1. ClientKey(r)' = ClientKey(r) /\ Written(r)'
    BY <1>1, <1>3 DEF ClientKey, Written, Writers, Late
  <2>2. SignedPoints(t)' = SignedPoints(t)
    BY DEF SignedPoints
  <2> QED BY <1>3, <1>6, <2>1, <2>2 DEF RowFits
<1>9. \A u \in transactions : u.id # r
  BY <1>1 DEF RowsFit, RowFits, Written, Late
<1>10. RowsFit'
  <2>1. \A u, v \in transactions' : u.id = v.id => u = v
    BY <1>1, <1>5, <1>6, <1>9 DEF RowsFit
  <2> QED BY <1>1, <1>2, <1>3, <1>5, <1>8, <2>1, RowsKept
<1>11. HalfAdjusted(r)' /\ HasRow(r)' /\ \A u \in transactions : HasRow(u.id)'
  BY <1>1, <1>3, <1>5, <1>6 DEF HasRow, HalfAdjusted
<1>12. BooksMatch'
  BY <1>1, <1>2, <1>3, <1>5, <1>6, <1>11, MatchKept
<1>13. DeletionsClear'
  BY <1>1, <1>2, <1>3, <1>5, <1>6, WritesKeepDeletions
  DEF Resting, Unknown, Deleting, Writers, locals, history
<1>14. NotesHold'
  BY <1>1, <1>3, <1>5, <1>6, NotesKept DEF Late
<1> QED BY <1>3, <1>7, <1>10, <1>12, <1>13, <1>14 DEF BooksInv

\* and its entry later, if it comes to that.
LEMMA AppendInsertKeeps ==
    ASSUME BooksInv, NEW r \in Requests, AppendInsert(r)
    PROVE  BooksInv'
<1>1. /\ BooksTyped /\ InOrder /\ RowsFit /\ BooksMatch /\ DeletionsClear /\ NotesHold
      /\ pc[r] = "insert" /\ req[r].op = "adjust" /\ who[r] \in Customers /\ amt[r] \in Int
  BY DEF AppendInsert, BooksInv, BooksTyped, InOrder, Ordered, Fits, Unknown
<1>2. UNCHANGED <<redemptions, transactions, accounts, customers, users, now, req, locals, history>>
  BY DEF AppendInsert
<1>3. /\ StepOf(r) /\ InOrder'
      /\ pc' \in [Requests -> Labels] /\ pc'[r] = "done" /\ \A s \in Requests \ {r} : pc'[s] = pc[s]
      /\ req'[r] = req[r] /\ who'[r] = who[r] /\ amt'[r] = amt[r] /\ copy'[r] = copy[r]
  BY <1>1, <1>2, Advance DEF AppendInsert, Resting, Labels, Unknown, Late, Fits, locals
<1>4. PICK e : e = EntryOf(r)
  OBVIOUS
<1>5. entries' = entries \cup {e}
  BY <1>4 DEF AppendInsert
<1>6. /\ e.tx = r /\ e.merchant = req[r].merchant /\ e.cust = who[r] /\ e.amount = amt[r]
      /\ e.at = at[r] /\ at[r] \in Nat
  BY <1>1, <1>4 DEF EntryOf, BooksTyped
<1>7. BooksTyped'
  BY <1>1, <1>2, <1>3, <1>5, <1>6 DEF BooksTyped, locals
<1>8. EntryFits(e)'
  BY <1>1, <1>3, <1>6 DEF EntryFits, Written, Writers, Late
<1>9. RowsFit'
  <2>1. \A u, v \in transactions' : u.id = v.id => u = v
    BY <1>1, <1>2 DEF RowsFit
  <2> QED BY <1>1, <1>2, <1>3, <1>5, <1>8, <2>1, RowsKept
<1>10. BooksMatch'
  <2>1. HasEntry(r)' /\ \A u \in transactions : HasRow(u.id)'
    BY <1>2, <1>5, <1>6 DEF HasRow, HasEntry
  <2>2. Erased(e.cust) \/ HasRow(e.tx)'
    BY <1>1, <1>2, <1>6 DEF BooksMatch, HasRow
  <2> QED BY <1>1, <1>2, <1>3, <1>5, <2>1, <2>2, MatchKept
<1>11. DeletionsClear'
  BY <1>1, <1>2, <1>3, <1>5, <1>6, WritesKeepDeletions
  DEF Resting, Unknown, Deleting, Writers, locals, history
<1>12. NotesHold'
  BY <1>1, <1>2, <1>3, NotesKept
<1> QED BY <1>3, <1>7, <1>9, <1>10, <1>11, <1>12 DEF BooksInv

\* A switch leaves every account with its customer.
LEMMA SwitchMembershipKeeps ==
    ASSUME BooksInv, NEW r \in Requests, SwitchMembership(r)
    PROVE  BooksInv'
<1>1. /\ BooksTyped /\ InOrder /\ RowsFit /\ BooksMatch /\ DeletionsClear /\ NotesHold
      /\ pc[r] = "switch" /\ req[r].op \in {"disable", "enable"}
  BY DEF SwitchMembership, BooksInv, InOrder, Ordered, Fits
<1>2. UNCHANGED <<redemptions, transactions, entries, customers, users, now, req, locals, history>>
  BY DEF SwitchMembership
<1>3. /\ StepOf(r) /\ InOrder'
      /\ pc' \in [Requests -> Labels] /\ pc'[r] = "done"
      /\ req'[r] = req[r] /\ who'[r] = who[r]
  BY <1>1, <1>2, Advance DEF SwitchMembership, Resting, Labels, Unknown, Late, Fits, locals
<1>4. \A a \in accounts' : a \in AccountDoc /\ \E b \in accounts : b.cust = a.cust
  <2>1. \A b \in accounts : \A s \in {"ACTIVE", "DISABLED"} :
           [b EXCEPT !.status = s] \in AccountDoc /\ [b EXCEPT !.status = s].cust = b.cust
    BY <1>1 DEF BooksTyped, AccountDoc
  <2> SUFFICES ASSUME NEW a \in accounts'
               PROVE  a \in AccountDoc /\ \E b \in accounts : b.cust = a.cust
    OBVIOUS
  <2>2. PICK b \in accounts :
           a = b \/ \E s \in {"ACTIVE", "DISABLED"} : a = [b EXCEPT !.status = s]
    BY DEF SwitchMembership
  <2> QED BY <1>1, <2>1, <2>2 DEF BooksTyped
<1>5. BooksTyped'
  BY <1>1, <1>2, <1>3, <1>4 DEF BooksTyped, locals
<1>6. RowsFit' /\ BooksMatch' /\ NotesHold'
  <2>1. /\ \A t, u \in transactions' : t.id = u.id => t = u
        /\ \A t \in transactions : HasRow(t.id)'
    BY <1>1, <1>2 DEF RowsFit, HasRow
  <2> QED BY <1>1, <1>2, <1>3, <2>1, RowsKept, MatchKept, NotesKept
<1>7. DeletionsClear'
  <2> SUFFICES ASSUME NEW c \in Customers, c \notin crossed'
               PROVE  /\ EntriesOf(c) = {} => EntriesOf(c)' = {}
                      /\ BeingDeleted(c)' => BeingDeleted(c) /\ pc[r] # "idle"
                      /\ Cleared(c, pc[r])'
    BY <1>1, <1>2, <1>3, <1>4, DeletionsKept DEF history, Resting
  <2>1. EntriesOf(c)' = EntriesOf(c)
    BY <1>2 DEF EntriesOf
  <2>2. BeingDeleted(c)' => BeingDeleted(c)
    BY <1>3 DEF StepOf, BeingDeleted
  <2>3. Cleared(c, pc[r])'
    BY <1>3 DEF Cleared
  <2> QED BY <1>1, <2>1, <2>2, <2>3
<1> QED BY <1>3, <1>5, <1>6, <1>7 DEF BooksInv

\* t and u differ in their metadata only.
SameRow(t, u) ==
    /\ t.id = u.id /\ t.merchant = u.merchant /\ t.cust = u.cust /\ t.key = u.key
    /\ t.type = u.type /\ t.amount = u.amount

\* New metadata on any transactions leaves all but the notes as it was.
LEMMA MetadataKept ==
    ASSUME BooksTyped, InOrder, RowsFit, BooksMatch, DeletionsClear, NEW r \in Requests, StepOf(r),
           pc[r] \in {"mark", "note"}, pc'[r] = "done", req[r].op \in Writers,
           UNCHANGED <<entries, accounts, customers, users, crossed, who, req>>,
           NEW f, transactions' = {f[t] : t \in transactions},
           \A t \in transactions : SameRow(f[t], t)
    PROVE  RowsFit' /\ BooksMatch' /\ DeletionsClear'
<1>1. ASSUME NEW t \in transactions
      PROVE  RowFits(f[t])' 
  <2>1. RowFits(t)'
    BY Steadfast DEF RowsFit, BooksTyped, TransactionDoc
  <2>2. PICK u : u = f[t]
    OBVIOUS
  <2>3. SignedPoints(u)' = SignedPoints(t)'
    BY <2>2 DEF SameRow, SignedPoints
  <2>4. RowFits(u)'
    BY <2>1, <2>2, <2>3 DEF SameRow, RowFits
  <2> QED BY <2>2, <2>4
<1>2. \A t \in transactions : f[t].id = t.id /\ f[t].cust = t.cust
  BY DEF SameRow
<1>3. RowsFit'
  <2>1. \A t \in transactions' : RowFits(t)'
    <3> SUFFICES ASSUME NEW u \in transactions'
                 PROVE  RowFits(u)'
      OBVIOUS
    <3>1. PICK t \in transactions : u = f[t]
      OBVIOUS
    <3> QED BY <1>1, <3>1
  <2>2. \A t, u \in transactions' : t.id = u.id => t = u
    BY <1>2 DEF RowsFit
  <2> QED BY <2>1, <2>2, RowsKept
<1>4. BooksMatch'
  <2>1. \A t \in transactions : HasRow(t.id)'
    BY <1>2 DEF HasRow
  <2>2. \A t \in transactions' : \E u \in transactions : u.id = t.id /\ u.cust = t.cust
    BY <1>2
  <2> QED BY <2>1, <2>2, MatchKept
<1>5. DeletionsClear'
  <2>1. \A t \in transactions' : \E u \in transactions : u.cust = t.cust
    BY <1>2
  <2> QED BY <2>1, WritesKeepDeletions DEF Resting, Unknown, Deleting
<1> QED BY <1>3, <1>4, <1>5

\* Another scan with the same key than the one that made t.
LEMMA RepeatedBy ==
    ASSUME NEW r \in Requests, req[r].op \in Posts, pc[r] # "idle", NEW t, t.id # r,
           t.merchant = req[r].merchant, t.key = ClientKey(r)
    PROVE  Repeated(t)
BY DEF Repeated

\* What the copies that are held name stays named.
LEMMA CopiesNamed ==
    ASSUME BooksTyped, InOrder, NotesHold, NEW r \in Requests, StepOf(r)
    PROVE  /\ \A d : Named(d) /\ d.reversal \in Requests \cup {NoOne} => Named(d)'
           /\ \A s \in Requests : HoldsCopy(s)' => Named(copy[s])'
           /\ \A s \in Requests, t \in transactions :
                 HoldsCopy(s)' /\ copy'[s].id = t.id =>
                    (HoldsCopy(s) /\ copy'[s] = copy[s]) \/ copy'[s] \in transactions
<1>1. \A d : Named(d) /\ d.reversal \in Requests \cup {NoOne} => Named(d)'
  BY DEF Named, StepOf
<1>2. \A s \in Requests : \A d : HoldsCopy(s)' /\ d = copy'[s] =>
         (HoldsCopy(s) /\ d = copy[s]) \/ d \in transactions
  BY DEF StepOf, HoldsCopy
<1>3. /\ \A t \in transactions : t.reversal \in Requests \cup {NoOne}
      /\ \A s \in Requests : HoldsCopy(s) => copy[s].reversal \in Requests \cup {NoOne}
  BY DEF BooksTyped, InOrder, Ordered, TransactionDoc
<1>4. \A s \in Requests : HoldsCopy(s)' => Named(copy[s])'
  <2> SUFFICES ASSUME NEW s \in Requests, HoldsCopy(s)', NEW d, d = copy'[s]
               PROVE  Named(d)'
    BY DEF Named
  <2> QED BY <1>1, <1>2, <1>3 DEF NotesHold
<1> QED BY <1>1, <1>2, <1>4

\* A scan writes the metadata of its own transaction, unless it was repeated.
LEMMA MarkKeeps ==
    ASSUME BooksInv, NEW r \in Requests, Mark(r)
    PROVE  BooksInv'
<1>1. /\ BooksTyped /\ InOrder /\ RowsFit /\ BooksMatch /\ DeletionsClear /\ NotesHold
      /\ pc[r] = "mark" /\ req[r].op \in Posts /\ amt[r] \in Int
  BY DEF Mark, BooksInv, BooksTyped, InOrder, Ordered, Fits
<1>2. UNCHANGED <<redemptions, entries, accounts, customers, users, now, req, locals, history>>
  BY DEF Mark
<1>3. /\ StepOf(r) /\ InOrder'
      /\ pc' \in [Requests -> Labels] /\ pc'[r] = "done" /\ \A s \in Requests \ {r} : pc'[s] = pc[s]
      /\ req' = req /\ who' = who /\ amt' = amt /\ copy' = copy
  BY <1>1, <1>2, Advance DEF Mark, Resting, Labels, Unknown, Late, Fits, locals
<1> DEFINE g == [t \in transactions |->
                   IF amt[r] > 0 /\ t \in Posted(r)
                     THEN [t EXCEPT !.scan = IF req[r].op = "post" THEN req[r].reward ELSE "points",
                                    !.reversal = NoOne]
                   ELSE IF amt[r] < 0 /\ t.id = copy[r].id
                     THEN [t EXCEPT !.scan = "points", !.reversal = copy[r].reversal]
                   ELSE t]
<1>4. PICK f : f = g
  OBVIOUS
<1>5. transactions' = {f[t] : t \in transactions}
  BY <1>4 DEF Mark
<1>6. HoldsCopy(r) \/ amt[r] >= 0
  BY <1>1 DEF HoldsCopy
<1>7. ASSUME NEW t \in transactions
      PROVE  /\ SameRow(f[t], t) /\ f[t] \in TransactionDoc
             /\ \/ f[t] = t
                \/ /\ f[t].scan # "none" /\ f[t].reversal = NoOne
                   /\ t.merchant = req[r].merchant /\ t.key = ClientKey(r)
                \/ /\ f[t].scan # "none" /\ f[t].reversal = copy[r].reversal
                   /\ HoldsCopy(r) /\ t.id = copy[r].id
  <2>1. t \in TransactionDoc
    BY <1>1 DEF BooksTyped
  <2>2. CASE amt[r] > 0 /\ t \in Posted(r)
    <3>1. PICK s : s = IF req[r].op = "post" THEN req[r].reward ELSE "points"
      OBVIOUS
    <3>2. s \in Rewards /\ s # "none"
      BY <1>1, <3>1, BookIntentsAssumption, StampRewardsAssumption DEF BooksTyped, Intent, Rewards
    <3>3. f[t] = [t EXCEPT !.scan = s, !.reversal = NoOne]
      BY <1>4, <2>2, <3>1
    <3>4. t.merchant = req[r].merchant /\ t.key = ClientKey(r)
      BY <2>2 DEF Posted
    <3> HIDE DEF g
    <3> QED BY <2>1, <3>2, <3>3, <3>4 DEF SameRow, TransactionDoc
  <2>3. CASE ~(amt[r] > 0 /\ t \in Posted(r)) /\ amt[r] < 0 /\ t.id = copy[r].id
    <3>1. f[t] = [t EXCEPT !.scan = "points", !.reversal = copy[r].reversal]
      BY <1>4, <2>3
    <3>2. HoldsCopy(r) /\ copy[r].reversal \in Requests \cup {NoOne}
      BY <1>1, <1>6, <2>3 DEF InOrder, Ordered, TransactionDoc
    <3> HIDE DEF g
    <3> QED BY <2>1, <2>3, <3>1, <3>2 DEF SameRow, TransactionDoc, Rewards
  <2>4. CASE ~(amt[r] > 0 /\ t \in Posted(r)) /\ ~(amt[r] < 0 /\ t.id = copy[r].id)
    <3>1. f[t] = t
      BY <1>4, <2>4
    <3> HIDE DEF g
    <3> QED BY <2>1, <3>1 DEF SameRow
  <2> QED BY <2>2, <2>3, <2>4
<1> HIDE DEF g
<1>8. ASSUME NEW t \in transactions, f[t] # t
      PROVE  t.merchant = req[r].merchant /\ t.key = ClientKey(r)
  <2>1. CASE HoldsCopy(r) /\ t.id = copy[r].id
    <3>1. amt[r] < 0
      BY <1>1, <2>1 DEF HoldsCopy, Posts
    <3>2. RowFits(t) /\ RowFits(copy[r])
      BY <1>1, <2>1 DEF RowsFit
    <3> QED BY <1>1, <2>1, <3>1, <3>2 DEF InOrder, Ordered, RowFits
  <2> QED BY <1>7, <1>8, <2>1
<1>9. ASSUME NEW t \in transactions, f[t] # t, t.id # r
      PROVE  Repeated(t)
  BY <1>1, <1>8, <1>9, RepeatedBy
<1>10. BooksTyped'
  <2>1. transactions' \subseteq TransactionDoc
    BY <1>5, <1>7
  <2> QED BY <1>1, <1>2, <1>3, <2>1 DEF BooksTyped, locals
<1>11. RowsFit' /\ BooksMatch' /\ DeletionsClear'
  BY <1>1, <1>2, <1>3, <1>5, <1>7, MetadataKept DEF Writers, history
<1>12. NotesHold'
  <2>1. /\ \A d : Named(d) /\ d.reversal \in Requests \cup {NoOne} => Named(d)'
        /\ \A s \in Requests : HoldsCopy(s)' => Named(copy[s])'
    BY <1>1, <1>3, CopiesNamed
  <2>2. \A s \in Requests : HoldsCopy(s)' => HoldsCopy(s)
    BY <1>1, <1>3 DEF HoldsCopy
  <2>3. \A t \in transactions : Repeated(t) => Repeated(f[t])'
    <3> SUFFICES ASSUME NEW t \in transactions, Repeated(t), NEW u, u = f[t]
                 PROVE  Repeated(u)'
      OBVIOUS
    <3>1. Repeated(t)'
      BY <1>1, <1>3, Steadfast
    <3>2. SameRow(u, t)
      BY <1>7
    <3> QED BY <3>1, <3>2 DEF Repeated, SameRow
  <2>4. ASSUME NEW t \in transactions
        PROVE  Named(f[t])'
    <3> SUFFICES ASSUME NEW u, u = f[t]
                 PROVE  Named(u)'
      OBVIOUS
    <3>1. t.reversal \in Requests \cup {NoOne} /\ Named(t)
      BY <1>1 DEF BooksTyped, TransactionDoc, NotesHold
    <3>2. CASE u = t
      BY <2>1, <3>1, <3>2
    <3>3. CASE u.reversal = NoOne
      BY <3>3 DEF Named
    <3>4. CASE u.reversal = copy[r].reversal /\ HoldsCopy(r) /\ t.id = copy[r].id
      <4>1. Named(copy[r]) /\ RowFits(copy[r]) /\ RowFits(t) /\ u.id = t.id /\ u.cust = t.cust
        BY <1>1, <1>7, <3>4 DEF NotesHold, RowsFit, SameRow
      <4>2. Named(u)
        BY <3>4, <4>1 DEF Named, RowFits
      <4>3. u.reversal \in Requests \cup {NoOne}
        BY <1>7 DEF TransactionDoc
      <4> QED BY <2>1, <4>2, <4>3
    <3> QED BY <1>7, <3>2, <3>3, <3>4
  <2>5. \A s \in Requests :
           req'[s].op = "reverse" /\ pc'[s] \in {"reread", "note", "done"} =>
              Erased(who[s])' \/ HasRow(s)'
    <3> SUFFICES ASSUME NEW s \in Requests, req'[s].op = "reverse",
                        pc'[s] \in {"reread", "note", "done"}
                 PROVE  Erased(who[s])' \/ HasRow(s)'
      OBVIOUS
    <3>1. s # r /\ pc'[s] = pc[s] /\ who'[s] = who[s] /\ req'[s] = req[s]
      BY <1>1, <1>3 DEF Posts
    <3>2. Erased(who[s]) => Erased(who[s])'
      BY <1>1, <1>3, Steadfast DEF Erased
    <3>3. HasRow(s) => HasRow(s)'
      BY <1>5, <1>7 DEF HasRow, SameRow
    <3> QED BY <1>1, <3>1, <3>2, <3>3 DEF NotesHold
  <2>6. ASSUME NEW t \in transactions, MarkPending(f[t])', ~Repeated(f[t])'
        PROVE  /\ f[t].scan = "none"
               /\ \A s \in Requests : HoldsCopy(s)' /\ copy'[s].id = f[t].id => copy'[s].scan = "none"
    <3>1. t.id # r /\ MarkPending(t) /\ ~Repeated(t) /\ f[t].id = t.id
      <4>1. PICK u : u = f[t]
        OBVIOUS
      <4>2. u.id = t.id /\ MarkPending(u)' /\ t.id \in Requests
        BY <1>1, <1>7, <2>6, <4>1 DEF SameRow, BooksTyped, TransactionDoc
      <4> QED BY <1>3, <2>3, <2>6, <4>1, <4>2 DEF MarkPending
    <3>2. f[t] = t
      BY <1>9, <3>1
    <3> QED BY <1>1, <1>3, <2>2, <3>1, <3>2 DEF NotesHold
  <2>7. ASSUME NEW t \in transactions, NEW s \in Requests,
               req'[s].op = "reverse", pc'[s] = "done", copy'[s].id = f[t].id
        PROVE  \/ f[t].reversal # NoOne
               \/ f[t].scan # "none" /\ copy'[s].scan = "none"
               \/ Repeated(f[t])'
    <3>1. s # r /\ req[s].op = "reverse" /\ pc[s] = "done" /\ copy[s].id = t.id /\ copy'[s] = copy[s]
      BY <1>1, <1>3, <1>7, <2>7 DEF Posts, SameRow
    <3>2. \/ t.reversal # NoOne
          \/ t.scan # "none" /\ copy[s].scan = "none"
          \/ Repeated(t)
      BY <1>1, <3>1 DEF NotesHold
    <3>3. CASE Repeated(t)
      BY <2>3, <3>3
    <3>4. CASE f[t] = t
      BY <2>3, <3>1, <3>2, <3>4
    <3>5. CASE f[t] # t /\ ~Repeated(t)
      <4>1. t.id = r /\ f[t].scan # "none"
        BY <1>7, <1>9, <3>5
      <4>2. MarkPending(t) /\ HoldsCopy(s)
        BY <1>1, <3>1, <4>1 DEF MarkPending, HoldsCopy
      <4>3. copy[s].scan = "none"
        BY <1>1, <3>1, <3>5, <4>2 DEF NotesHold
      <4> QED BY <3>1, <4>1, <4>3
    <3> QED BY <3>3, <3>4, <3>5
  <2>8. /\ \A u \in transactions' : Named(u)'
        /\ \A u \in transactions' : MarkPending(u)' /\ ~Repeated(u)' =>
              /\ u.scan = "none"
              /\ \A s \in Requests : HoldsCopy(s)' /\ copy'[s].id = u.id => copy'[s].scan = "none"
        /\ \A u \in transactions', s \in Requests :
              req'[s].op = "reverse" /\ pc'[s] = "done" /\ copy'[s].id = u.id =>
                 \/ u.reversal # NoOne
                 \/ u.scan # "none" /\ copy'[s].scan = "none"
                 \/ Repeated(u)'
    BY <1>5, <2>4, <2>6, <2>7
  <2> QED BY <2>1, <2>5, <2>8 DEF NotesHold
<1> QED BY <1>3, <1>10, <1>11, <1>12 DEF BooksInv

\* A reversal is noted under its name, with the metadata it read.
LEMMA NoteReversalKeeps ==
    ASSUME BooksInv, NEW r \in Requests, NoteReversal(r)
    PROVE  BooksInv'
<1>1. /\ BooksTyped /\ InOrder /\ RowsFit /\ BooksMatch /\ DeletionsClear /\ NotesHold
      /\ pc[r] = "note" /\ req[r].op = "reverse" /\ r # NoOne
      /\ HoldsCopy(r) /\ copy[r] \in TransactionDoc /\ who[r] = copy[r].cust
  BY BookIdsAssumption DEF NoteReversal, BooksInv, BooksTyped, InOrder, Ordered, Fits, HoldsCopy
<1>2. UNCHANGED <<redemptions, entries, accounts, customers, users, now, req, locals, history>>
  BY DEF NoteReversal
<1>3. /\ StepOf(r) /\ InOrder'
      /\ pc' \in [Requests -> Labels] /\ pc'[r] = "done" /\ \A s \in Requests \ {r} : pc'[s] = pc[s]
      /\ req' = req /\ who' = who /\ amt' = amt /\ copy' = copy
  BY <1>1, <1>2, Advance DEF NoteReversal, Resting, Labels, Unknown, Late, Fits, locals
<1> DEFINE g == [t \in transactions |->
                   IF t.id = copy[r].id THEN [t EXCEPT !.reversal = r, !.scan = copy[r].scan] ELSE t]
<1>4. PICK f : f = g
  OBVIOUS
<1>5. transactions' = {f[t] : t \in transactions}
  BY <1>4 DEF NoteReversal
<1>6. ASSUME NEW t \in transactions
      PROVE  /\ SameRow(f[t], t) /\ f[t] \in TransactionDoc
             /\ \/ f[t] = t /\ t.id # copy[r].id
                \/ f[t].reversal = r /\ f[t].scan = copy[r].scan /\ t.id = copy[r].id
  <2>1. t \in TransactionDoc
    BY <1>1 DEF BooksTyped
  <2>2. CASE t.id = copy[r].id
    <3>1. f[t] = [t EXCEPT !.reversal = r, !.scan = copy[r].scan]
      BY <1>4, <2>2
    <3> HIDE DEF g
    <3> QED BY <1>1, <2>1, <2>2, <3>1 DEF SameRow, TransactionDoc
  <2>3. CASE t.id # copy[r].id
    <3>1. f[t] = t
      BY <1>4, <2>3
    <3> HIDE DEF g
    <3> QED BY <2>1, <2>3, <3>1 DEF SameRow
  <2> QED BY <2>2, <2>3
<1> HIDE DEF g
<1>7. BooksTyped'
  <2>1. transactions' \subseteq TransactionDoc
    BY <1>5, <1>6
  <2> QED BY <1>1, <1>2, <1>3, <2>1 DEF BooksTyped, locals
<1>8. RowsFit' /\ BooksMatch' /\ DeletionsClear'
  BY <1>1, <1>2, <1>3, <1>5, <1>6, MetadataKept DEF Writers, history
<1>9. NotesHold'
  <2>1. /\ \A d : Named(d) /\ d.reversal \in Requests \cup {NoOne} => Named(d)'
        /\ \A s \in Requests : HoldsCopy(s)' => Named(copy[s])'
    BY <1>1, <1>3, CopiesNamed
  <2>2. \A s \in Requests : HoldsCopy(s)' => HoldsCopy(s)
    BY <1>1, <1>3 DEF HoldsCopy
  <2>3. \A t \in transactions : Repeated(t) => Repeated(f[t])'
    <3> SUFFICES ASSUME NEW t \in transactions, Repeated(t), NEW u, u = f[t]
                 PROVE  Repeated(u)'
      OBVIOUS
    <3>1. Repeated(t)'
      BY <1>1, <1>3, Steadfast
    <3>2. SameRow(u, t)
      BY <1>6
    <3> QED BY <3>1, <3>2 DEF Repeated, SameRow
  <2>4. ASSUME NEW t \in transactions
        PROVE  Named(f[t])'
    <3> SUFFICES ASSUME NEW u, u = f[t]
                 PROVE  Named(u)'
      OBVIOUS
    <3>1. CASE t.id # copy[r].id
      <4>1. u = t
        BY <1>6, <3>1
      <4>2. t.reversal \in Requests \cup {NoOne} /\ Named(t)
        BY <1>1 DEF BooksTyped, TransactionDoc, NotesHold
      <4> QED BY <2>1, <4>1, <4>2
    <3>2. CASE t.id = copy[r].id
      <4>1. RowFits(copy[r]) /\ RowFits(t) /\ u.id = t.id /\ u.cust = t.cust /\ u.reversal = r
        BY <1>1, <1>6, <3>2 DEF RowsFit, SameRow
      <4>2. u.cust = who[r]
        BY <1>1, <3>2, <4>1 DEF RowFits
      <4> QED BY <1>1, <1>3, <3>2, <4>1, <4>2 DEF Named
    <3> QED BY <3>1, <3>2
  <2>5. \A s \in Requests :
           req'[s].op = "reverse" /\ pc'[s] \in {"reread", "note", "done"} =>
              Erased(who[s])' \/ HasRow(s)'
    <3> SUFFICES ASSUME NEW s \in Requests, req'[s].op = "reverse",
                        pc'[s] \in {"reread", "note", "done"}
                 PROVE  Erased(who[s])' \/ HasRow(s)'
      OBVIOUS
    <3>1. pc[s] \in {"reread", "note", "done"} /\ who'[s] = who[s] /\ req'[s] = req[s]
      BY <1>1, <1>3
    <3>2. Erased(who[s]) => Erased(who[s])'
      BY <1>1, <1>3, Steadfast DEF Erased
    <3>3. HasRow(s) => HasRow(s)'
      BY <1>5, <1>6 DEF HasRow, SameRow
    <3> QED BY <1>1, <3>1, <3>2, <3>3 DEF NotesHold
  <2>6. ASSUME NEW t \in transactions, MarkPending(f[t])', ~Repeated(f[t])'
        PROVE  /\ f[t].scan = "none"
               /\ \A s \in Requests : HoldsCopy(s)' /\ copy'[s].id = f[t].id => copy'[s].scan = "none"
    <3>1. MarkPending(t) /\ ~Repeated(t) /\ f[t].id = t.id
      <4>1. PICK u : u = f[t]
        OBVIOUS
      <4>2. u.id = t.id /\ MarkPending(u)' /\ t.id \in Requests
        BY <1>1, <1>6, <2>6, <4>1 DEF SameRow, BooksTyped, TransactionDoc
      <4> QED BY <1>1, <1>3, <2>3, <2>6, <4>1, <4>2 DEF MarkPending
    <3>2. \A s \in Requests : HoldsCopy(s) /\ copy[s].id = t.id => copy[s].scan = "none"
      BY <1>1, <3>1 DEF NotesHold
    <3>3. f[t].scan = "none"
      BY <1>1, <1>6, <3>1, <3>2 DEF NotesHold
    <3> QED BY <1>3, <2>2, <3>1, <3>2, <3>3
  <2>7. ASSUME NEW t \in transactions, NEW s \in Requests,
               req'[s].op = "reverse", pc'[s] = "done", copy'[s].id = f[t].id
        PROVE  \/ f[t].reversal # NoOne
               \/ f[t].scan # "none" /\ copy'[s].scan = "none"
               \/ Repeated(f[t])'
    <3>1. req[s].op = "reverse" /\ copy[s].id = t.id /\ copy'[s] = copy[s]
      BY <1>3, <1>6, <2>7 DEF SameRow
    <3>2. CASE t.id = copy[r].id
      BY <1>1, <1>6, <3>2
    <3>3. CASE t.id # copy[r].id
      <4>1. pc[s] = "done" /\ f[t] = t
        BY <1>3, <1>6, <2>7, <3>1, <3>3
      <4>2. \/ t.reversal # NoOne
            \/ t.scan # "none" /\ copy[s].scan = "none"
            \/ Repeated(t)
        BY <1>1, <3>1, <4>1 DEF NotesHold
      <4>3. Repeated(t) => Repeated(f[t])'
        BY <2>3
      <4> QED BY <3>1, <4>1, <4>2, <4>3
    <3> QED BY <3>2, <3>3
  <2>8. /\ \A u \in transactions' : Named(u)'
        /\ \A u \in transactions' : MarkPending(u)' /\ ~Repeated(u)' =>
              /\ u.scan = "none"
              /\ \A s \in Requests : HoldsCopy(s)' /\ copy'[s].id = u.id => copy'[s].scan = "none"
        /\ \A u \in transactions', s \in Requests :
              req'[s].op = "reverse" /\ pc'[s] = "done" /\ copy'[s].id = u.id =>
                 \/ u.reversal # NoOne
                 \/ u.scan # "none" /\ copy'[s].scan = "none"
                 \/ Repeated(u)'
    BY <1>5, <2>4, <2>6, <2>7
  <2> QED BY <2>1, <2>5, <2>8 DEF NotesHold
<1> QED BY <1>3, <1>7, <1>8, <1>9 DEF BooksInv

-----------------------------------------------------------------------------
(* Deletion                                                                 *)

\* A deletion of c takes away from the collections, of its customer only, and
\* goes on to l when nothing is left where it has been.
Clears(r, c, l) ==
    /\ pc[r] \in Deleting \cup {"delLedger"} /\ l \in Deleting \cup {"done"}
    /\ Goto(r, l) /\ UNCHANGED <<now, req, locals>>
    /\ c = who[r]
    /\ entries' \subseteq entries /\ transactions' \subseteq transactions
    /\ accounts' \subseteq accounts /\ customers' \subseteq customers /\ users' \subseteq users
    /\ \A e \in entries \ entries' : e.cust = c
    /\ \A t \in transactions \ transactions' : t.cust = c
    /\ \A d \in users \ users' : d = c /\ pc[r] = "delUser"
    /\ crossed \subseteq crossed'
    /\ pc[r] = "delLedger" /\ WriterUnderWay => c \in crossed'

\* Such steps keep the invariant.
LEMMA ClearKeeps ==
    ASSUME BooksInv, NEW r \in Requests, NEW c, NEW l, Clears(r, c, l),
           c \notin crossed' => Cleared(c, l)'
    PROVE  BooksInv'
<1>1. /\ BooksTyped /\ InOrder /\ RowsFit /\ BooksMatch /\ DeletionsClear /\ NotesHold
      /\ req[r].op = "delete" /\ c \in Customers /\ c = who[r]
  BY DEF Clears, Deleting, BooksInv, InOrder, Ordered, Fits, Unknown
<1>2. /\ UNCHANGED <<now, req, locals>>
      /\ entries' \subseteq entries /\ transactions' \subseteq transactions
      /\ accounts' \subseteq accounts /\ customers' \subseteq customers /\ users' \subseteq users
      /\ crossed \subseteq crossed'
  BY DEF Clears
<1>3. /\ StepOf(r) /\ InOrder'
      /\ pc' \in [Requests -> Labels] /\ pc'[r] = l /\ \A s \in Requests \ {r} : pc'[s] = pc[s]
      /\ req'[r] = req[r] /\ who'[r] = who[r]
  <2>1. Fits(req[r].op, l)
    BY <1>1 DEF Clears, Deleting, Fits
  <2> QED BY <1>1, <1>2, <2>1, Advance DEF Clears, Deleting, Resting, Labels, Unknown, Late, locals
<1>4. BooksTyped'
  BY <1>1, <1>2, <1>3 DEF BooksTyped, locals
<1>5. Erased(c)
  BY <1>1 DEF Clears, Deleting, Erased
<1>6. /\ \A e \in entries : e \in entries' \/ Erased(e.cust)
      /\ \A t \in transactions : t \in transactions' \/ Erased(t.cust)
  BY <1>5 DEF Clears
<1>7. RowsFit'
  <2>1. \A t, u \in transactions' : t.id = u.id => t = u
    BY <1>1, <1>2 DEF RowsFit
  <2> QED BY <1>1, <1>2, <1>3, <2>1, RowsKept
<1>8. BooksMatch'
  <2>1. \A t \in transactions : HasRow(t.id)' \/ Erased(t.cust)
    BY <1>6 DEF HasRow
  <2>2. pc[r] \notin {"append", "insert"} /\ pc'[r] \notin {"append", "insert"}
    BY <1>3 DEF Clears, Deleting
  <2> QED BY <1>1, <1>2, <1>3, <1>6, <2>1, <2>2, MatchKept
<1>9. DeletionsClear'
  <2> SUFFICES ASSUME NEW d \in Customers, d \notin crossed'
               PROVE  /\ EntriesOf(d) = {} => EntriesOf(d)' = {}
                      /\ \/ BeingDeleted(d)' => BeingDeleted(d) /\ pc[r] # "idle"
                         \/ ~WriterUnderWay'
                      /\ who'[r] = d => Cleared(d, pc[r])'
                      /\ d \in users \ users' => pc[r] = "delUser" /\ who[r] = d
                      /\ req'[r].op \notin Writers
    BY <1>1, <1>2, <1>3, DeletionsKept
  <2>1. EntriesOf(d) = {} => EntriesOf(d)' = {}
    BY <1>2 DEF EntriesOf
  <2>2. req'[r].op \notin Writers
    BY <1>1, <1>2 DEF Writers, Posts
  <2>3. CASE d # c \/ pc[r] # "delLedger"
    <3>1. BeingDeleted(d)' => BeingDeleted(d)
      BY <1>1, <1>3, <2>3 DEF Clears, Deleting, StepOf, BeingDeleted
    <3> QED BY <1>1, <1>3, <2>1, <2>2, <3>1 DEF Clears, Deleting
  <2>4. CASE d = c /\ pc[r] = "delLedger"
    <3>1. ~WriterUnderWay
      BY <2>4 DEF Clears
    <3>2. ~WriterUnderWay'
      BY <1>2, <1>3, <2>2, <3>1 DEF WriterUnderWay
    <3> QED BY <1>1, <1>3, <2>1, <2>2, <2>4, <3>2 DEF Clears
  <2> QED BY <2>3, <2>4
<1>10. NotesHold'
  BY <1>1, <1>2, <1>3, <1>6, NotesKept
<1> QED BY <1>3, <1>4, <1>7, <1>8, <1>9, <1>10 DEF BooksInv

\* What the labels before the one a deletion is at have cleared.
LEMMA ClearedSoFar ==
    ASSUME BooksInv, NEW r \in Requests, NEW c, c = who[r], pc[r] \in Deleting, c \notin crossed
    PROVE  Cleared(c, pc[r])
BY DEF BooksInv, InOrder, Ordered, Unknown, DeletionsClear, Deleting

\* The ledger goes first, and a writer under way is noted.
LEMMA DeleteLedgerKeeps ==
    ASSUME BooksInv, NEW r \in Requests, DeleteLedger(r)
    PROVE  BooksInv'
<1>1. PICK c : c = who[r]
  OBVIOUS
<1>2. Clears(r, c, "delTransactions")
  BY <1>1 DEF DeleteLedger, Clears, Deleting
<1>3. Cleared(c, "delTransactions")'
  BY <1>1 DEF DeleteLedger, Cleared, EntriesOf
<1> QED BY <1>2, <1>3, ClearKeeps

\* Then the transactions,
LEMMA DeleteTransactionsKeeps ==
    ASSUME BooksInv, NEW r \in Requests, DeleteTransactions(r)
    PROVE  BooksInv'
<1>1. PICK c : c = who[r]
  OBVIOUS
<1>2. Clears(r, c, "delAccounts")
  BY <1>1 DEF DeleteTransactions, Clears, Deleting, history
<1>3. c \notin crossed' => Cleared(c, "delAccounts")'
  <2>1. c \notin crossed => EntriesOf(c) = {}
    BY <1>1, ClearedSoFar DEF DeleteTransactions, Cleared, Deleting
  <2> QED BY <1>1, <2>1 DEF DeleteTransactions, Cleared, EntriesOf, history
<1> QED BY <1>2, <1>3, ClearKeeps

\* the accounts at every merchant,
LEMMA DeleteAccountsKeeps ==
    ASSUME BooksInv, NEW r \in Requests, DeleteAccounts(r)
    PROVE  BooksInv'
<1>1. PICK c : c = who[r]
  OBVIOUS
<1>2. Clears(r, c, "delCustomer")
  BY <1>1 DEF DeleteAccounts, Clears, Deleting, history
<1>3. c \notin crossed' => Cleared(c, "delCustomer")'
  <2>1. c \notin crossed => EntriesOf(c) = {} /\ \A t \in transactions : t.cust # c
    BY <1>1, ClearedSoFar DEF DeleteAccounts, Cleared, Deleting
  <2> QED BY <1>1, <2>1 DEF DeleteAccounts, Cleared, EntriesOf, history
<1> QED BY <1>2, <1>3, ClearKeeps

\* the customer,
LEMMA DeleteCustomerKeeps ==
    ASSUME BooksInv, NEW r \in Requests, DeleteCustomer(r)
    PROVE  BooksInv'
<1>1. PICK c : c = who[r]
  OBVIOUS
<1>2. Clears(r, c, "delUser")
  BY <1>1 DEF DeleteCustomer, Clears, Deleting, history
<1>3. c \notin crossed' => Cleared(c, "delUser")'
  <2>1. c \notin crossed =>
           EntriesOf(c) = {} /\ (\A t \in transactions : t.cust # c) /\ \A a \in accounts : a.cust # c
    BY <1>1, ClearedSoFar DEF DeleteCustomer, Cleared, Deleting
  <2> QED BY <1>1, <2>1 DEF DeleteCustomer, Cleared, EntriesOf, history
<1> QED BY <1>2, <1>3, ClearKeeps

\* and, last, the login.
LEMMA DeleteUserKeeps ==
    ASSUME BooksInv, NEW r \in Requests, DeleteUser(r)
    PROVE  BooksInv'
<1>1. PICK c : c = who[r]
  OBVIOUS
<1>2. Clears(r, c, "done")
  BY <1>1 DEF DeleteUser, Clears, Deleting, history
<1>3. Cleared(c, "done")'
  BY DEF Cleared
<1> QED BY <1>2, <1>3, ClearKeeps

-----------------------------------------------------------------------------
\* Nothing has been written, deleted or asked for at the start.
LEMMA InitHolds ==
    ASSUME Init
    PROVE  BooksInv
<1>1. \A r \in Requests :
         pc[r] = "idle" /\ who[r] = NoOne /\ ~HoldsCopy(r) /\ req[r] \in Intents
  BY BookIntentsAssumption DEF Init, HoldsCopy
<1>2. transactions = {} /\ entries = {} /\ customers = Customers /\ users = Customers /\ crossed = {}
  BY DEF Init
<1>3. BooksTyped
  <2>1. Cardinality(DOMAIN Members) \in Nat
    BY MembersAssumption, FS_CardinalityType
  <2>2. accounts \subseteq AccountDoc
    <3>1. \A i \in DOMAIN Members : i \in Nat /\ Members[i] \in Merchants \X Customers
      BY <2>1, MembersAssumption
    <3> QED BY <3>1 DEF Init, AccountDoc
  <2>3. now \in Nat
    BY <2>1 DEF Init
  <2>4. req \in [Requests -> Intents]
    BY BookIntentsAssumption DEF Init
  <2>5. /\ pc \in [Requests -> Labels] /\ who \in [Requests -> Customers \cup {NoOne}]
        /\ copy \in [Requests -> TransactionDoc \cup {NoOne}]
        /\ amt \in [Requests -> Int] /\ at \in [Requests -> Nat]
    BY DEF Init, Labels, Resting
  <2> QED BY <1>2, <2>2, <2>3, <2>4, <2>5 DEF BooksTyped
<1>4. InOrder
  BY <1>1 DEF InOrder, Ordered, Fits, Unknown
<1>5. RowsFit /\ BooksMatch
  BY <1>1, <1>2 DEF RowsFit, BooksMatch
<1>6. DeletionsClear
  BY <1>1, <1>2 DEF DeletionsClear, BeingDeleted, Cleared
<1>7. NotesHold
  BY <1>1, <1>2 DEF NotesHold
<1> QED BY <1>3, <1>4, <1>5, <1>6, <1>7 DEF BooksInv

\* BooksInv speaks of the variables only.
LEMMA StutterKeeps ==
    ASSUME BooksInv, UNCHANGED vars
    PROVE  BooksInv'
<1>1. /\ UNCHANGED <<transactions, entries, accounts, customers, users, now>>
      /\ UNCHANGED <<pc, req, who, copy, amt, at, crossed>>
  BY DEF vars, collections, locals, history
<1>2. BooksTyped' <=> BooksTyped
  BY <1>1 DEF BooksTyped
<1>3. \A r : ClientKey(r)' = ClientKey(r) /\ (HoldsCopy(r)' <=> HoldsCopy(r))
  BY <1>1 DEF ClientKey, HoldsCopy
<1>4. InOrder' <=> InOrder
  BY <1>1, <1>3 DEF InOrder, Ordered, Fits
<1>5. \A d : RowFits(d)' <=> RowFits(d)
  BY <1>1, <1>3 DEF RowFits, Written, SignedPoints
<1>6. \A e : EntryFits(e)' <=> EntryFits(e)
  BY <1>1 DEF EntryFits, Written
<1>7. RowsFit'
  <2>1. \A r \in Requests : HoldsCopy(r)' => RowFits(copy[r])'
    <3> SUFFICES ASSUME NEW r \in Requests, HoldsCopy(r)', NEW d, d = copy'[r]
                 PROVE  RowFits(d)'
      OBVIOUS
    <3> QED BY <1>1, <1>3, <1>5 DEF BooksInv, RowsFit
  <2> QED BY <1>1, <1>5, <1>6, <2>1 DEF BooksInv, RowsFit
<1>8. BooksMatch' /\ DeletionsClear'
  BY <1>1 DEF BooksInv, BooksMatch, DeletionsClear, Erased, HasRow, HasEntry, HalfAdjusted,
              BeingDeleted, WriterUnderWay, Cleared, EntriesOf
<1>9. NotesHold'
  <2>1. \A d : (Named(d)' <=> Named(d)) /\ (MarkPending(d)' <=> MarkPending(d))
               /\ (Repeated(d)' <=> Repeated(d))
    BY <1>1, <1>3 DEF Named, MarkPending, Repeated
  <2>2. \A r \in Requests : HoldsCopy(r)' => Named(copy[r])'
    <3> SUFFICES ASSUME NEW r \in Requests, HoldsCopy(r)', NEW d, d = copy'[r]
                 PROVE  Named(d)'
      OBVIOUS
    <3> QED BY <1>1, <1>3, <2>1 DEF BooksInv, NotesHold
  <2>3. \A r : (Erased(who[r])' <=> Erased(who[r])) /\ (HasRow(r)' <=> HasRow(r))
    BY <1>1 DEF Erased, HasRow
  <2> QED BY <1>1, <1>3, <2>1, <2>2, <2>3 DEF BooksInv, NotesHold
<1> QED BY <1>2, <1>4, <1>7, <1>8, <1>9 DEF BooksInv

\* Every step keeps the invariant.
LEMMA NextHolds ==
    ASSUME BooksInv, [Next]_vars
    PROVE  BooksInv'
<1>1. CASE UNCHANGED vars
  BY <1>1, StutterKeeps
<1>2. ASSUME NEW r \in Requests, Start(r)
      PROVE  BooksInv'
  BY <1>2, StartKeeps
<1>3. ASSUME NEW r \in Requests, Fail(r)
      PROVE  BooksInv'
  BY <1>3, RefuseKeeps DEF Fail
<1>4. ASSUME NEW r \in Requests, PostStep(r)
      PROVE  BooksInv'
  BY <1>4, EnrolKeeps, CheckKeeps, OpenKeeps, CommitKeeps, MarkReadKeeps, MarkKeeps DEF PostStep
<1>5. ASSUME NEW r \in Requests, SimulateStep(r)
      PROVE  BooksInv'
  BY <1>5, SimulateResolveKeeps, SimulateFindKeeps DEF SimulateStep
<1>6. ASSUME NEW r \in Requests, OperatorStep(r)
      PROVE  BooksInv'
  BY <1>6, FindTransactionKeeps, FindAccountKeeps, RereadKeeps, NoteReversalKeeps DEF OperatorStep
<1>7. ASSUME NEW r \in Requests, AdjustStep(r)
      PROVE  BooksInv'
  BY <1>7, ResolvePlaceKeeps, CheckBalanceKeeps, SaveTransactionKeeps, AppendReadKeeps,
     AppendInsertKeeps DEF AdjustStep
<1>8. ASSUME NEW r \in Requests, FindMembership(r) \/ SwitchMembership(r)
      PROVE  BooksInv'
  BY <1>8, FindMembershipKeeps, SwitchMembershipKeeps
<1>9. ASSUME NEW r \in Requests, DeleteStep(r)
      PROVE  BooksInv'
  BY <1>9, FindUserKeeps, DeleteLedgerKeeps, DeleteTransactionsKeeps, DeleteAccountsKeeps,
     DeleteCustomerKeeps, DeleteUserKeeps DEF DeleteStep
<1>10. ASSUME NEW r \in Requests, ReadPage(r)
       PROVE  BooksInv'
  BY <1>10, ReadPageKeeps
<1> QED BY <1>1, <1>2, <1>3, <1>4, <1>5, <1>6, <1>7, <1>8, <1>9, <1>10 DEF Next, Step

\* The books keep their invariant in every behaviour of the requests.
THEOREM BooksInvariance == Spec => []BooksInv
<1>1. Init => BooksInv
  BY InitHolds
<1>2. BooksInv /\ [Next]_vars => BooksInv'
  BY NextHolds
<1> QED BY <1>1, <1>2, PTL DEF Spec

\* Entry by entry, the transaction list a merchant sees and the ledger behind
\* the balances tell the same story, however many scans, adjustments, reversals
\* and deletions cross: only an adjustBalance that stopped between its saves
\* leaves a transaction that moved nothing.
THEOREM Statement == Spec => []StatementMatchesLedger
<1>1. BooksInv => StatementMatchesLedger
  <2> SUFFICES ASSUME BooksInv, NEW c \in Customers, ~Erased(c)
               PROVE  /\ \A e \in EntriesOf(c) :
                            \E t \in transactions :
                               /\ t.id = e.tx /\ t.merchant = e.merchant /\ t.cust = c
                               /\ SignedPoints(t) = e.amount
                      /\ \A t \in transactions :
                            t.cust = c => HalfAdjusted(t.id) \/ \E e \in EntriesOf(c) : e.tx = t.id
    BY DEF StatementMatchesLedger
  <2>1. ASSUME NEW e \in EntriesOf(c)
        PROVE  \E t \in transactions :
                  /\ t.id = e.tx /\ t.merchant = e.merchant /\ t.cust = c
                  /\ SignedPoints(t) = e.amount
    <3>1. e \in entries /\ e.cust = c
      BY DEF EntriesOf
    <3>2. PICK t \in transactions : t.id = e.tx
      BY <3>1 DEF BooksInv, BooksMatch, HasRow
    <3> QED BY <3>1, <3>2 DEF BooksInv, RowsFit, RowFits, EntryFits
  <2>2. ASSUME NEW t \in transactions, t.cust = c, ~HalfAdjusted(t.id)
        PROVE  \E e \in EntriesOf(c) : e.tx = t.id
    <3>1. PICK e \in entries : e.tx = t.id
      BY <2>2 DEF BooksInv, BooksMatch, HasEntry
    <3>2. e.cust = c
      BY <2>2, <3>1 DEF BooksInv, RowsFit, RowFits, EntryFits
    <3> QED BY <3>1, <3>2 DEF EntriesOf
  <2> QED BY <2>1, <2>2
<1> QED BY <1>1, BooksInvariance, PTL

\* When the login of a deleted customer is gone, so is everything the deletion
\* covers, and it stays so, whatever failed and was asked for again, unless a
\* writer was under way while it was deleted.
THEOREM NothingLeft == Spec => []NothingLeftBehind
<1>1. BooksInv => NothingLeftBehind
  BY DEF BooksInv, DeletionsClear, NothingLeftBehind
<1> QED BY <1>1, BooksInvariance, PTL

\* A transaction that was reversed names the transaction of a reversal, though
\* scans and reversals write its whole metadata back from copies they have read.
THEOREM ReversalNoted == Spec => []ReversalRecorded
<1>1. BooksInv => ReversalRecorded
  <2> SUFFICES ASSUME BooksInv, NEW r \in Requests, req[r].op = "reverse", pc[r] = "done",
                      NEW t \in transactions, t.id = copy[r].id, t.reversal # NoOne
               PROVE  (\E u \in transactions : u.id = t.reversal) \/ Erased(t.cust)
    BY DEF ReversalRecorded, BooksInv, NotesHold
  <2>1. t.reversal \in Requests
    BY DEF BooksInv, BooksTyped, TransactionDoc
  <2>2. req[t.reversal].op = "reverse" /\ pc[t.reversal] = "done" /\ who[t.reversal] = t.cust
    BY DEF BooksInv, NotesHold, Named
  <2> QED BY <2>1, <2>2 DEF BooksInv, NotesHold, HasRow
<1> QED BY <1>1, BooksInvariance, PTL

-----------------------------------------------------------------------------
(* What is read by position.  An account keeps its place and an entry only  *)
(* goes deeper, until somebody is erased: so whoever was at the place staff *)
(* saw is there still, and what the pages read so far have not shown is     *)
(* deeper than they reach.                                                  *)

BySeen == {"adjust", "simulate"}
AnyErased == \E c \in Customers : Erased(c)

\* No two accounts are of one time, and none of a time to come.
AccountsDated ==
    /\ IsFiniteSet(accounts)
    /\ \A a \in accounts : a.at < now
    /\ \A a, b \in accounts : a.at = b.at => a = b

\* The account of c is at the n-th place of m's list.
StandsAt(m, c, n) == \E a \in accounts : a.merchant = m /\ a.cust = c /\ PlaceOf(a) = n

PlacesHold ==
    /\ meant \in [Requests -> Customers \cup {NoOne}]
    /\ \A r \in Requests : req[r].op \in BySeen =>
          \/ AnyErased
          \/ /\ pc[r] = "resolve" => StandsAt(req[r].merchant, meant[r], page[r])
             /\ who[r] # NoOne => who[r] = meant[r]

\* The transactions of c's entries.
TxOf(c) == {e.tx : e \in EntriesOf(c)}

\* r has received what was there at the first page of the first n of c's entries.
HasRead(r, c, n) == \A e \in EntriesOf(c) : e.tx \in first[r] /\ Depth(e) <= n => e.tx \in got[r]

PagesHold ==
    /\ IsFiniteSet(entries) /\ page \in [Requests -> Nat \ {0}]
    /\ {got, first} \subseteq [Requests -> SUBSET Requests]
    /\ \A r \in Requests :
          /\ pc[r] = "idle" => page[r] = 1 /\ first[r] = {}
          /\ pc[r] = "page" =>
                \/ Erased(who[r])
                \/ first[r] \subseteq TxOf(who[r]) /\ HasRead(r, who[r], (page[r] - 1) * PageSize)
          /\ req[r].op = "history" /\ pc[r] = "done" => first[r] \subseteq got[r] \/ Erased(who[r])

SteadyInv == AccountsDated /\ PlacesHold /\ PagesHold

\* What every step after the first has in common: r alone moves, on to a label
\* at which nothing is asked for by place, and keeps its customer.
Onward(r) ==
    /\ pc[r] \notin Resting /\ pc'[r] \notin {"idle", "user", "resolve"}
    /\ \A s \in Requests \ {r} : pc'[s] = pc[s] /\ who'[s] = who[s]
    /\ UNCHANGED <<req, meant>>
    /\ pc[r] \notin Unknown => who'[r] = who[r]

\* Most steps leave alone what is read by position.
Still(r) ==
    /\ Onward(r) /\ UNCHANGED <<accounts, entries, page, got, first>>
    /\ now' \in {now, now + 1}
    /\ pc[r] = "page" => pc'[r] = "failed"
    /\ pc'[r] # "page"

\* Who is being erased stays so.
LEMMA ErasureStays ==
    ASSUME BooksInv, NEW r \in Requests, Onward(r), NEW c, Erased(c)
    PROVE  Erased(c)'
<1>1. PICK s \in Requests : req[s].op = "delete" /\ who[s] = c /\ pc[s] \notin {"idle", "user"}
  BY DEF Erased
<1>2. pc[s] \notin Unknown
  BY <1>1 DEF BooksInv, InOrder, Ordered, Fits, Unknown
<1>3. req'[s] = req[s] /\ who'[s] = who[s] /\ pc'[s] \notin {"idle", "user"}
  BY <1>1, <1>2 DEF Onward
<1> QED BY <1>1, <1>3 DEF Erased

\* A history is read at its own label.
LEMMA HistoryPages ==
    ASSUME BooksInv, NEW r \in Requests, req[r].op = "history", pc[r] \notin Resting
    PROVE  pc[r] = "page"
<1>1. Fits("history", pc[r]) /\ pc[r] \in Labels
  BY DEF BooksInv, BooksTyped, InOrder, Ordered
<1> QED BY <1>1 DEF Fits, Labels, Posts

\* The steps that keep accounts dated and in place keep staff right.
LEMMA PlacesKept ==
    ASSUME BooksInv, PlacesHold, NEW r \in Requests, Onward(r),
           AnyErased \/ \A m, c, n : StandsAt(m, c, n) => StandsAt(m, c, n)',
           \A s \in Requests : page'[s] = page[s] \/ pc[s] = "page",
           req[r].op \in BySeen => who'[r] \in {who[r], meant[r]} \/ AnyErased
    PROVE  PlacesHold'
<1>1. AnyErased => AnyErased'
  BY ErasureStays DEF AnyErased
<1>2. meant' = meant /\ req' = req
  BY DEF Onward
<1> SUFFICES ASSUME NEW s \in Requests, req[s].op \in BySeen, ~AnyErased
             PROVE  /\ pc'[s] = "resolve" => StandsAt(req[s].merchant, meant[s], page[s])'
                    /\ who'[s] # NoOne => who'[s] = meant[s]
  BY <1>1, <1>2 DEF PlacesHold
<1>3. ASSUME pc'[s] = "resolve"
      PROVE  StandsAt(req[s].merchant, meant[s], page[s])'
  <2>1. pc[s] = "resolve" /\ page'[s] = page[s]
    BY <1>3 DEF Onward
  <2>2. PICK m, c, n : m = req[s].merchant /\ c = meant[s] /\ n = page[s]
    OBVIOUS
  <2>3. StandsAt(m, c, n)
    BY <2>1, <2>2 DEF PlacesHold
  <2>4. StandsAt(m, c, n)'
    BY <2>3
  <2> QED BY <1>2, <2>1, <2>2, <2>4
<1>4. who[s] # NoOne => who[s] = meant[s]
  BY DEF PlacesHold
<1>5. who'[s] \in {who[s], meant[s]}
  BY DEF Onward
<1> QED BY <1>3, <1>4, <1>5

\* An entry goes no less deep when others are added.
LEMMA Deeper ==
    ASSUME IsFiniteSet(entries), IsFiniteSet(entries'), NEW c,
           EntriesOf(c) \subseteq EntriesOf(c)', NEW e \in EntriesOf(c)
    PROVE  Depth(e) \in Nat /\ Depth(e)' \in Nat /\ Depth(e) <= Depth(e)'
<1> DEFINE older == {f \in EntriesOf(c) : f.at >= e.at}
           later == {f \in EntriesOf(c)' : f.at >= e.at}
<1>1. Depth(e) = Cardinality(older) /\ Depth(e)' = Cardinality(later)
  BY DEF Depth, EntriesOf
<1>2. IsFiniteSet(older) /\ IsFiniteSet(later) /\ older \subseteq later
  <2>1. older \subseteq entries /\ later \subseteq entries'
    BY DEF EntriesOf
  <2> QED BY <2>1, FS_Subset
<1> QED BY <1>1, <1>2, FS_Subset, FS_CardinalityType

\* Only new transactions come to the entries of c.
Grows(c) ==
    /\ EntriesOf(c) \subseteq EntriesOf(c)'
    /\ \A e \in EntriesOf(c)' \ EntriesOf(c) : e.tx \notin TxOf(c)

\* Who reads does not miss what was there, whatever is added meanwhile.
LEMMA ReadersKept ==
    ASSUME IsFiniteSet(entries), IsFiniteSet(entries'), NEW s \in Requests, NEW c, NEW n \in Nat,
           Grows(c), got'[s] = got[s], first'[s] = first[s],
           first[s] \subseteq TxOf(c), HasRead(s, c, n)
    PROVE  first[s] \subseteq TxOf(c)' /\ HasRead(s, c, n)'
<1>1. first[s] \subseteq TxOf(c)'
  BY DEF Grows, TxOf
<1>2. ASSUME NEW e \in EntriesOf(c)', e.tx \in first[s], Depth(e)' <= n
      PROVE  e.tx \in got[s]
  <2>1. e \in EntriesOf(c)
    BY <1>2 DEF Grows
  <2>2. Depth(e) <= n
    BY <1>2, <2>1, Deeper DEF Grows
  <2> QED BY <1>2, <2>1, <2>2 DEF HasRead
<1> QED BY <1>1, <1>2 DEF HasRead

LEMMA PagesKept ==
    ASSUME BooksInv, PagesHold, NEW r \in Requests, Onward(r), UNCHANGED <<page, got, first>>,
           IsFiniteSet(entries'), \A c : Erased(c) \/ Grows(c),
           pc[r] = "page" => pc'[r] = "failed", pc'[r] # "page"
    PROVE  PagesHold'
<1>1. \A c : Erased(c) => Erased(c)'
  BY ErasureStays
<1>2. ASSUME NEW s \in Requests, pc'[s] = "page"
      PROVE  \/ Erased(who[s])'
             \/ (first[s] \subseteq TxOf(who[s]) /\ HasRead(s, who[s], (page[s] - 1) * PageSize))'
  <2>1. pc[s] = "page" /\ who'[s] = who[s]
    BY <1>2 DEF Onward
  <2>2. PICK c, n : c = who[s] /\ n = (page[s] - 1) * PageSize
    OBVIOUS
  <2>3. n \in Nat
    <3>1. page[s] - 1 \in Nat
      BY DEF PagesHold
    <3> QED BY <2>2, <3>1, BookIdsAssumption
  <2>4. Erased(c) \/ (first[s] \subseteq TxOf(c) /\ HasRead(s, c, n))
    BY <2>1, <2>2 DEF PagesHold
  <2>5. Erased(c)' \/ (first[s] \subseteq TxOf(c)' /\ HasRead(s, c, n)')
    BY <1>1, <2>3, <2>4, ReadersKept DEF PagesHold
  <2> QED BY <2>1, <2>2, <2>5
<1>3. ASSUME NEW s \in Requests, req'[s].op = "history", pc'[s] = "done"
      PROVE  first[s] \subseteq got[s] \/ Erased(who[s])'
  <2>1. pc[s] = "done" /\ s # r /\ req[s].op = "history"
    BY <1>3, HistoryPages DEF Onward
  <2>2. PICK c : c = who[s]
    OBVIOUS
  <2>3. who'[s] = c
    BY <2>1, <2>2 DEF Onward
  <2>4. first[s] \subseteq got[s] \/ Erased(c)
    BY <2>1, <2>2 DEF PagesHold
  <2>5. Erased(c)' => Erased(who[s])'
    BY <2>3 DEF Erased
  <2> QED BY <1>1, <2>4, <2>5
<1>4. \A s \in Requests : pc'[s] = "idle" => page'[s] = 1 /\ first'[s] = {}
  BY DEF Onward, PagesHold
<1>5. page' = page /\ got' = got /\ first' = first
  OBVIOUS
<1> QED BY <1>2, <1>3, <1>4, <1>5 DEF PagesHold

\* A step that leaves alone what is read by position keeps it right.
LEMMA StillKeeps ==
    ASSUME BooksInv, SteadyInv, NEW r \in Requests, Still(r),
           req[r].op \in BySeen => who'[r] \in {who[r], meant[r]} \/ AnyErased
    PROVE  SteadyInv'
<1>1. AccountsDated /\ PlacesHold /\ PagesHold
  BY DEF SteadyInv
<1>2. Onward(r) /\ UNCHANGED <<accounts, entries, page, got, first>> /\ now' \in {now, now + 1}
  BY DEF Still
<1>3. AccountsDated'
  BY <1>1, <1>2 DEF AccountsDated, BooksInv, BooksTyped, AccountDoc
<1>4. PlacesHold'
  <2>1. \A m, c, n : StandsAt(m, c, n) => StandsAt(m, c, n)'
    BY <1>2 DEF StandsAt, PlaceOf
  <2> QED BY <1>1, <1>2, <2>1, PlacesKept
<1>5. PagesHold'
  <2>1. \A c : Grows(c)
    BY <1>2 DEF Grows, EntriesOf, TxOf
  <2>2. IsFiniteSet(entries')
    BY <1>1, <1>2 DEF PagesHold
  <2> QED BY <1>1, <1>2, <2>1, <2>2, PagesKept DEF Still
<1> QED BY <1>3, <1>4, <1>5 DEF SteadyInv

\* A request that moves on, or is refused, is such a step.
LEMMA GotoIsStill ==
    ASSUME BooksTyped, NEW r \in Requests, NEW l, Goto(r, l), pc[r] \notin Resting,
           l \notin {"idle", "user", "resolve", "page"}, pc[r] = "page" => l = "failed",
           UNCHANGED <<accounts, entries, page, got, first, req, meant, who>>,
           now' \in {now, now + 1}
    PROVE  Still(r)
BY DEF BooksTyped, Goto, Still, Onward

\* What is refused changes nothing.
LEMMA RefuseIsStill ==
    ASSUME BooksTyped, NEW r \in Requests, pc[r] \notin Resting, Refuse(r)
    PROVE  Still(r) /\ who' = who
BY GotoIsStill DEF Refuse, collections, locals, history

\* Steps of which only the label matters here.
LEMMA ScansAreStill ==
    ASSUME BooksTyped, NEW r \in Requests,
           Check(r) \/ Open(r) \/ MarkRead(r) \/ Mark(r) \/ SimulateFind(r)
    PROVE  Still(r) /\ who' = who
<1>1. CASE Check(r)
  BY <1>1, GotoIsStill, RefuseIsStill DEF Check, AfterPosting, Resting, collections, locals, history
<1>2. CASE Open(r)
  BY <1>2, GotoIsStill, RefuseIsStill DEF Open, ReadBook, Resting
<1>3. CASE MarkRead(r)
  BY <1>3, GotoIsStill DEF MarkRead, Resting, collections, locals, history
<1>4. CASE Mark(r)
  BY <1>4, GotoIsStill DEF Mark, Resting, locals, history
<1>5. CASE SimulateFind(r)
  BY <1>5, GotoIsStill, RefuseIsStill DEF SimulateFind, Resting, collections, locals, history
<1> QED BY <1>1, <1>2, <1>3, <1>4, <1>5

LEMMA AdjustmentsAreStill ==
    ASSUME BooksTyped, NEW r \in Requests,
           \/ FindAccount(r) \/ Reread(r) \/ NoteReversal(r)
           \/ CheckBalance(r) \/ SaveTransaction(r) \/ AppendRead(r)
    PROVE  Still(r) /\ who' = who
<1>1. CASE FindAccount(r)
  BY <1>1, GotoIsStill, RefuseIsStill DEF FindAccount, Resting, collections, locals, history
<1>2. CASE Reread(r)
  BY <1>2, GotoIsStill DEF Reread, Resting, collections, locals, history
<1>3. CASE NoteReversal(r)
  BY <1>3, GotoIsStill DEF NoteReversal, Resting, locals, history
<1>4. CASE CheckBalance(r)
  BY <1>4, GotoIsStill, RefuseIsStill DEF CheckBalance, Resting, collections, locals, history
<1>5. CASE SaveTransaction(r)
  BY <1>5, GotoIsStill DEF SaveTransaction, Resting, locals, history
<1>6. CASE AppendRead(r)
  BY <1>6, GotoIsStill DEF AppendRead, ReadBook, Resting
<1> QED BY <1>1, <1>2, <1>3, <1>4, <1>5, <1>6

LEMMA OthersAreStill ==
    ASSUME BooksTyped, NEW r \in Requests,
           \/ Fail(r) \/ FindMembership(r) \/ FindUser(r)
           \/ DeleteTransactions(r) \/ DeleteCustomer(r) \/ DeleteUser(r)
    PROVE  Still(r) /\ who' = who
<1>1. CASE Fail(r)
  BY <1>1, RefuseIsStill DEF Fail
<1>2. CASE FindMembership(r)
  BY <1>2, GotoIsStill, RefuseIsStill DEF FindMembership, Resting, collections, locals, history
<1>3. CASE FindUser(r)
  BY <1>3, GotoIsStill DEF FindUser, Resting, collections, locals, history
<1>4. CASE DeleteTransactions(r)
  BY <1>4, GotoIsStill DEF DeleteTransactions, Resting, locals, history
<1>5. CASE DeleteCustomer(r)
  BY <1>5, GotoIsStill DEF DeleteCustomer, Resting, locals, history
<1>6. CASE DeleteUser(r)
  BY <1>6, GotoIsStill DEF DeleteUser, Resting, locals, history
<1> QED BY <1>1, <1>2, <1>3, <1>4, <1>5, <1>6

\* A reversal takes its customer from the transaction.
LEMMA FindTransactionIsStill ==
    ASSUME BooksInv, NEW r \in Requests, FindTransaction(r)
    PROVE  Still(r) /\ req[r].op \notin BySeen
<1>1. BooksTyped /\ pc[r] = "findTx" /\ req[r].op = "reverse"
  BY DEF FindTransaction, BooksInv, InOrder, Ordered, Fits
<1>2. CASE Refuse(r)
  BY <1>1, <1>2, RefuseIsStill DEF Resting, BySeen
<1>3. CASE ~Refuse(r)
  <2>1. /\ Goto(r, "account") /\ UNCHANGED <<collections, req, base, at, page, got, history>>
        /\ \E t \in transactions : who' = [who EXCEPT ![r] = t.cust]
    BY <1>3 DEF FindTransaction
  <2> QED BY <1>1, <2>1 DEF Still, Onward, Goto, Unknown, Resting, BySeen, BooksTyped, collections, history
<1> QED BY <1>2, <1>3

-----------------------------------------------------------------------------
(* Places                                                                   *)

\* Two accounts of a merchant are not at one place.
LEMMA PlacesDiffer ==
    ASSUME AccountsDated, BooksTyped, NEW a \in accounts, NEW b \in accounts,
           a.merchant = b.merchant, PlaceOf(a) = PlaceOf(b)
    PROVE  a = b
<1> DEFINE upTo(x) == {y \in accounts : y.merchant = x.merchant /\ y.at <= x.at}
<1>1. a.at \in Nat /\ b.at \in Nat
  BY DEF BooksTyped, AccountDoc
<1>2. IsFiniteSet(upTo(a)) /\ IsFiniteSet(upTo(b))
  BY FS_Subset DEF AccountsDated
<1>3. \A y \in accounts : y.at \in Nat
  BY DEF BooksTyped, AccountDoc
<1>4. upTo(a) \subseteq upTo(b) \/ upTo(b) \subseteq upTo(a)
  BY <1>1, <1>3
<1>5. Cardinality(upTo(a)) = Cardinality(upTo(b))
  BY DEF PlaceOf
<1>6. upTo(a) = upTo(b)
  <2> HIDE DEF upTo
  <2> QED BY <1>2, <1>4, <1>5, FS_Subset
<1>7. a \in upTo(b) /\ b \in upTo(a)
  <2>1. a \in upTo(a) /\ b \in upTo(b)
    BY <1>1
  <2> HIDE DEF upTo
  <2> QED BY <1>6, <2>1
<1>8. a.at = b.at
  BY <1>1, <1>7
<1> QED BY <1>8 DEF AccountsDated

\* Whoever is found at a place staff saw is the one they saw there.
LEMMA ResolveFinds ==
    ASSUME BooksTyped, AccountsDated, PlacesHold, NEW r \in Requests,
           pc[r] = "resolve", req[r].op \in BySeen, ~AnyErased,
           NEW a \in PlaceHolder(req[r].merchant, page[r])
    PROVE  a.cust = meant[r]
<1>1. a \in accounts /\ a.merchant = req[r].merchant /\ PlaceOf(a) = page[r]
  BY DEF PlaceHolder
<1>2. PICK b \in accounts : b.merchant = req[r].merchant /\ b.cust = meant[r] /\ PlaceOf(b) = page[r]
  BY DEF PlacesHold, StandsAt
<1>3. a = b
  BY <1>1, <1>2, PlacesDiffer
<1> QED BY <1>2, <1>3

LEMMA ResolveKeepsSteady ==
    ASSUME BooksInv, SteadyInv, NEW r \in Requests, SimulateResolve(r) \/ ResolvePlace(r)
    PROVE  SteadyInv'
<1>1. BooksTyped /\ pc[r] = "resolve" /\ req[r].op \in BySeen
  BY DEF SimulateResolve, ResolvePlace, BooksInv, BySeen
<1>2. CASE Refuse(r)
  BY <1>1, <1>2, RefuseIsStill, StillKeeps DEF Resting
<1>3. CASE ~Refuse(r)
  <2>1. PICK a \in PlaceHolder(req[r].merchant, page[r]) : who' = [who EXCEPT ![r] = a.cust]
    BY <1>3 DEF SimulateResolve, ResolvePlace
  <2>2. PICK l \in {"simFind", "account"} : Goto(r, l)
    BY <1>3 DEF SimulateResolve, ResolvePlace
  <2>3. UNCHANGED <<collections, req, copy, amt, base, at, page, got, history>>
    BY <1>3 DEF SimulateResolve, ResolvePlace
  <2>4. Still(r)
    BY <1>1, <2>1, <2>2, <2>3 DEF Still, Onward, Goto, Unknown, Resting, BooksTyped, collections, history
  <2>5. who'[r] = meant[r] \/ AnyErased
    BY <1>1, <2>1, ResolveFinds DEF SteadyInv, BooksTyped
  <2> QED BY <2>4, <2>5, StillKeeps
<1> QED BY <1>2, <1>3

\* Accounts may change as long as they stay dated and in place.
LEMMA AccountsChange ==
    ASSUME BooksInv, SteadyInv, NEW r \in Requests, Onward(r), who'[r] = who[r],
           UNCHANGED <<entries, page, got, first>>,
           pc[r] = "page" => pc'[r] = "failed", pc'[r] # "page",
           AccountsDated',
           AnyErased \/ \A m, c, n : StandsAt(m, c, n) => StandsAt(m, c, n)'
    PROVE  SteadyInv'
<1>1. PlacesHold'
  BY PlacesKept DEF SteadyInv
<1>2. PagesHold'
  <2>1. \A c : Grows(c)
    BY DEF Grows, EntriesOf, TxOf
  <2>2. IsFiniteSet(entries')
    BY DEF SteadyInv, PagesHold
  <2> QED BY <2>1, <2>2, PagesKept DEF SteadyInv
<1> QED BY <1>1, <1>2 DEF SteadyInv

\* Who is enrolled comes last in the list.
LEMMA EnrolKeepsSteady ==
    ASSUME BooksInv, SteadyInv, NEW r \in Requests, Enrol(r)
    PROVE  SteadyInv'
<1>1. BooksTyped /\ AccountsDated /\ pc[r] = "enrol"
  BY DEF Enrol, BooksInv, SteadyInv
<1>2. CASE Refuse(r)
  BY <1>1, <1>2, RefuseIsStill, StillKeeps DEF Resting
<1>3. CASE Goto(r, "check") /\ UNCHANGED <<collections, req, locals, history>>
  <2>1. Still(r) /\ who' = who
    BY <1>1, <1>3, GotoIsStill DEF Resting, collections, locals, history
  <2> QED BY <2>1, StillKeeps
<1>4. ASSUME NEW d, d = [merchant |-> req[r].merchant, cust |-> who[r], status |-> "ACTIVE", at |-> now],
             accounts' = accounts \cup {d}, now' = now + 1, Goto(r, "check"),
             UNCHANGED <<redemptions, transactions, entries, customers, users, req, locals, history>>
      PROVE  SteadyInv'
  <2>1. Onward(r) /\ who'[r] = who[r] /\ pc'[r] = "check"
    BY <1>1, <1>4 DEF Onward, Goto, Resting, BooksTyped, locals, history
  <2>2. now \in Nat /\ d.at = now /\ \A a \in accounts : a.at \in Nat /\ a.at < now
    BY <1>1, <1>4 DEF BooksTyped, AccountDoc, AccountsDated
  <2>3. IsFiniteSet(accounts')
    BY <1>1, <1>4, FS_AddElement DEF AccountsDated
  <2>4. AccountsDated'
    <3>1. \A a \in accounts' : a.at < now'
      BY <1>4, <2>2
    <3>2. \A a, b \in accounts' : a.at = b.at => a = b
      BY <1>1, <1>4, <2>2 DEF AccountsDated
    <3> QED BY <2>3, <3>1, <3>2 DEF AccountsDated
  <2>5. ASSUME NEW a \in accounts
        PROVE  PlaceOf(a)' = PlaceOf(a)
    <3>1. {b \in accounts' : b.merchant = a.merchant /\ b.at <= a.at}
             = {b \in accounts : b.merchant = a.merchant /\ b.at <= a.at}
      BY <1>4, <2>2
    <3> QED BY <3>1 DEF PlaceOf
  <2>6. \A m, c, n : StandsAt(m, c, n) => StandsAt(m, c, n)'
    BY <1>4, <2>5 DEF StandsAt
  <2> QED BY <1>1, <1>4, <2>1, <2>4, <2>6, AccountsChange DEF locals, history
<1> QED BY <1>2, <1>3, <1>4 DEF Enrol

\* Who is switched off or on stays in place.
LEMMA SwitchKeepsSteady ==
    ASSUME BooksInv, SteadyInv, NEW r \in Requests, SwitchMembership(r)
    PROVE  SteadyInv'
<1>1. BooksTyped /\ AccountsDated /\ pc[r] = "switch"
  BY DEF SwitchMembership, BooksInv, SteadyInv
<1>2. /\ Goto(r, "done")
      /\ UNCHANGED <<redemptions, transactions, entries, customers, users, now, req, locals, history>>
  BY DEF SwitchMembership
<1>3. Onward(r) /\ who'[r] = who[r] /\ pc'[r] = "done"
  BY <1>1, <1>2 DEF Onward, Goto, Resting, BooksTyped, locals, history
<1> DEFINE g == [a \in accounts |->
                    IF a \in AccountsOf(req[r].merchant, who[r])
                    THEN [a EXCEPT !.status = IF req[r].op = "disable" THEN "DISABLED" ELSE "ACTIVE"]
                    ELSE a]
<1>4. PICK f : f = g
  OBVIOUS
<1>5. accounts' = {f[a] : a \in accounts}
  BY <1>4 DEF SwitchMembership
<1>6. \A a \in accounts : f[a].merchant = a.merchant /\ f[a].cust = a.cust /\ f[a].at = a.at
  BY <1>1, <1>4 DEF BooksTyped, AccountDoc
<1> HIDE DEF g
<1>7. \A a, b \in accounts : f[a] = f[b] => a = b
  BY <1>1, <1>6 DEF AccountsDated
<1>8. IsFiniteSet(accounts')
  <2> DEFINE h == [a \in accounts |-> f[a]]
  <2>1. h \in Surjection(accounts, accounts')
    BY <1>5 DEF Surjection
  <2> QED BY <1>1, <2>1, FS_Surjection DEF AccountsDated
<1>9. AccountsDated'
  BY <1>1, <1>2, <1>5, <1>6, <1>8 DEF AccountsDated
<1>10. ASSUME NEW a \in accounts, NEW b, b = f[a]
       PROVE  PlaceOf(b)' = PlaceOf(a)
  <2> DEFINE S == {x \in accounts : x.merchant = a.merchant /\ x.at <= a.at}
             T == {x \in accounts' : x.merchant = b.merchant /\ x.at <= b.at}
             h == [x \in S |-> f[x]]
  <2>1. h \in Bijection(S, T)
    <3>1. \A x \in S : f[x] \in T
      BY <1>5, <1>6, <1>10
    <3>2. \A y \in T : \E x \in S : f[x] = y
      BY <1>5, <1>6, <1>10
    <3>3. \A x, y \in S : f[x] = f[y] => x = y
      BY <1>7
    <3> HIDE DEF S, T
    <3> QED BY <3>1, <3>2, <3>3 DEF Bijection, Injection, Surjection, IsInjective
  <2>2. IsFiniteSet(S)
    BY <1>1, FS_Subset DEF AccountsDated
  <2>3. Cardinality(T) = Cardinality(S)
    <3> HIDE DEF S, T, h
    <3> QED BY <2>1, <2>2, FS_Bijection DEF ExistsBijection
  <2> QED BY <2>3 DEF PlaceOf
<1>11. ASSUME NEW m, NEW c, NEW n, StandsAt(m, c, n)
       PROVE  StandsAt(m, c, n)'
  <2>1. PICK a \in accounts : a.merchant = m /\ a.cust = c /\ PlaceOf(a) = n
    BY <1>11 DEF StandsAt
  <2>2. PICK b : b = f[a]
    OBVIOUS
  <2>3. b \in accounts' /\ b.merchant = m /\ b.cust = c /\ PlaceOf(b)' = n
    BY <1>5, <1>6, <1>10, <2>1, <2>2
  <2> QED BY <2>3 DEF StandsAt
<1> QED BY <1>1, <1>2, <1>3, <1>9, <1>11, AccountsChange DEF locals, history

\* The accounts of who is erased go.
LEMMA DeleteAccountsKeepsSteady ==
    ASSUME BooksInv, SteadyInv, NEW r \in Requests, DeleteAccounts(r)
    PROVE  SteadyInv'
<1>1. BooksTyped /\ AccountsDated /\ pc[r] = "delAccounts"
  BY DEF DeleteAccounts, BooksInv, SteadyInv
<1>2. /\ Goto(r, "delCustomer")
      /\ accounts' \subseteq accounts
      /\ UNCHANGED <<redemptions, transactions, entries, customers, users, now, req, locals, history>>
  BY DEF DeleteAccounts
<1>3. Onward(r) /\ who'[r] = who[r] /\ pc'[r] = "delCustomer"
  BY <1>1, <1>2 DEF Onward, Goto, Resting, BooksTyped, locals, history
<1>4. AccountsDated'
  BY <1>1, <1>2, FS_Subset DEF AccountsDated
<1>5. AnyErased
  <2>1. req[r].op = "delete" /\ who[r] \in Customers
    BY <1>1 DEF BooksInv, InOrder, Ordered, Fits, Unknown
  <2> QED BY <1>1, <2>1 DEF AnyErased, Erased
<1> QED BY <1>1, <1>2, <1>3, <1>4, <1>5, AccountsChange DEF locals, history

-----------------------------------------------------------------------------
(* Pages                                                                    *)

\* Entries may change as long as there are more of whoever is not being erased.
LEMMA EntriesChange ==
    ASSUME BooksInv, SteadyInv, NEW r \in Requests, NEW l \in {"markRead", "mark", "reread", "done", "delTransactions"},
           Goto(r, l), pc[r] \notin Resting \cup {"page"},
           UNCHANGED <<accounts, now, req, who, meant, page, got, first>>,
           IsFiniteSet(entries'), \A c : Erased(c) \/ Grows(c)
    PROVE  SteadyInv'
<1>1. Onward(r) /\ who'[r] = who[r] /\ pc'[r] # "page"
  BY DEF BooksInv, BooksTyped, Goto, Onward
<1>2. AccountsDated'
  BY DEF SteadyInv, AccountsDated
<1>3. PlacesHold'
  <2>1. \A m, c, n : StandsAt(m, c, n) => StandsAt(m, c, n)'
    BY DEF StandsAt, PlaceOf
  <2> QED BY <1>1, <2>1, PlacesKept DEF SteadyInv
<1>4. PagesHold'
  BY <1>1, PagesKept DEF SteadyInv
<1> QED BY <1>2, <1>3, <1>4 DEF SteadyInv

\* An entry is of a transaction that has none yet.
LEMMA AppendKeepsSteady ==
    ASSUME BooksInv, SteadyInv, NEW r \in Requests, Commit(r) \/ AppendInsert(r)
    PROVE  SteadyInv'
<1>1. pc[r] \in {"commit", "insert"} /\ IsFiniteSet(entries)
  BY DEF Commit, AppendInsert, SteadyInv, PagesHold
<1>2. \A e \in entries : e.tx # r
  BY <1>1 DEF BooksInv, RowsFit, EntryFits, Written, Late
<1>3. PICK d : d = EntryOf(r)
  OBVIOUS
<1>4. entries' = entries \cup {d} /\ d.tx = r
  BY <1>3 DEF Commit, Publish, AppendInsert, EntryOf
<1>5. IsFiniteSet(entries')
  BY <1>1, <1>4, FS_AddElement
<1>6. ASSUME NEW c
      PROVE  Grows(c)
  BY <1>2, <1>4 DEF Grows, EntriesOf, TxOf
<1>7. \E l \in {"markRead", "mark", "reread", "done"} : Goto(r, l)
  BY DEF Commit, AppendInsert, AfterPosting
<1>8. UNCHANGED <<accounts, now, req, who, meant, page, got, first>>
  BY DEF Commit, Publish, AppendInsert, locals, history
<1> QED BY <1>1, <1>5, <1>6, <1>7, <1>8, EntriesChange DEF Resting

\* The entries of who is erased go.
LEMMA DeleteLedgerKeepsSteady ==
    ASSUME BooksInv, SteadyInv, NEW r \in Requests, DeleteLedger(r)
    PROVE  SteadyInv'
<1>1. pc[r] = "delLedger" /\ req[r].op = "delete" /\ IsFiniteSet(entries)
  BY DEF DeleteLedger, BooksInv, InOrder, Ordered, Fits, SteadyInv, PagesHold
<1>2. entries' = {e \in entries : e.cust # who[r]}
  BY DEF DeleteLedger
<1>3. IsFiniteSet(entries')
  BY <1>1, <1>2, FS_Subset
<1>4. ASSUME NEW c
      PROVE  Erased(c) \/ Grows(c)
  <2>1. CASE c = who[r]
    BY <1>1, <2>1 DEF Erased
  <2>2. CASE c # who[r]
    BY <1>2, <2>2 DEF Grows, EntriesOf, TxOf
  <2> QED BY <2>1, <2>2
<1> QED BY <1>1, <1>3, <1>4, EntriesChange DEF DeleteLedger, Resting, locals

\* What is counted of finitely many entries.
LEMMA Depths ==
    ASSUME IsFiniteSet(entries), BooksTyped, NEW c, NEW e \in EntriesOf(c)
    PROVE  /\ Depth(e) \in Nat \ {0} /\ Cardinality(EntriesOf(c)) \in Nat
           /\ Depth(e) <= Cardinality(EntriesOf(c))
<1> DEFINE older == {f \in EntriesOf(c) : f.at >= e.at}
<1>1. Depth(e) = Cardinality(older)
  BY DEF Depth, EntriesOf
<1>2. IsFiniteSet(EntriesOf(c)) /\ IsFiniteSet(older) /\ older \subseteq EntriesOf(c)
  <2>1. EntriesOf(c) \subseteq entries /\ older \subseteq EntriesOf(c)
    BY DEF EntriesOf
  <2> QED BY <2>1, FS_Subset
<1>3. e \in older
  BY DEF BooksTyped, EntriesOf
<1> HIDE DEF older
<1>4. Cardinality(older) # 0
  BY <1>2, <1>3, FS_EmptySet
<1> QED BY <1>1, <1>2, <1>4, FS_Subset, FS_CardinalityType

\* A page shows what is deeper than the pages before reach, as far as it reaches.
LEMMA ReadPageKeepsSteady ==
    ASSUME BooksInv, SteadyInv, NEW r \in Requests, ReadPage(r)
    PROVE  SteadyInv'
<1>1. /\ BooksTyped /\ AccountsDated /\ PlacesHold /\ PagesHold
      /\ pc[r] = "page" /\ req[r].op = "history" /\ IsFiniteSet(entries)
      /\ UNCHANGED <<collections, req, who, copy, amt, base, at, meant, rivals, crossed>>
  BY DEF ReadPage, BooksInv, InOrder, Ordered, Fits, SteadyInv, PagesHold
<1>2. PICK c : c = who[r]
  OBVIOUS
<1>3. PICK n \in Nat \ {0} : n = page[r]
  BY <1>1 DEF PagesHold
<1>4. PageSize \in Nat \ {0} /\ (n - 1) * PageSize \in Nat /\ n * PageSize \in Nat
  <2>1. n - 1 \in Nat
    OBVIOUS
  <2> QED BY <2>1, BookIdsAssumption
<1>5. /\ got' = [got EXCEPT ![r] = got[r] \cup {e.tx : e \in PageOf(c, n)}]
      /\ first' = IF n = 1 THEN [first EXCEPT ![r] = TxOf(c)] ELSE first
      /\ \/ page' = [page EXCEPT ![r] = n + 1] /\ pc' = pc
         \/ /\ ~(n * PageSize < Cardinality(EntriesOf(c)))
            /\ Goto(r, "done") /\ page' = page
  BY <1>1, <1>2, <1>3 DEF ReadPage, PagesHold, TxOf
<1>6. AccountsDated'
  BY <1>1 DEF AccountsDated, collections
<1>7. /\ \A s \in Requests \ {r} : pc'[s] = pc[s] /\ page'[s] = page[s] /\ got'[s] = got[s] /\ first'[s] = first[s]
      /\ pc'[r] \in {"page", "done"}
      /\ got'[r] = got[r] \cup {e.tx : e \in PageOf(c, n)}
      /\ first'[r] = IF n = 1 THEN TxOf(c) ELSE first[r]
      /\ pc'[r] = "page" => page'[r] = n + 1
      /\ pc'[r] = "done" => ~(n * PageSize < Cardinality(EntriesOf(c)))
  BY <1>1, <1>5 DEF BooksTyped, PagesHold, Goto
<1>8. Onward(r)
  BY <1>1, <1>7 DEF Onward, Resting
<1>9. PlacesHold'
  <2>1. \A m, d, k : StandsAt(m, d, k) => StandsAt(m, d, k)'
    BY <1>1 DEF StandsAt, PlaceOf, collections
  <2> QED BY <1>1, <1>7, <1>8, <2>1, PlacesKept DEF BySeen
<1>10. /\ page' \in [Requests -> Nat \ {0}]
       /\ {got', first'} \subseteq [Requests -> SUBSET Requests]
  <2>1. TxOf(c) \subseteq Requests /\ {e.tx : e \in PageOf(c, n)} \subseteq Requests
    BY <1>1 DEF BooksTyped, TxOf, PageOf, EntriesOf
  <2>2. page' \in [Requests -> Nat \ {0}]
    BY <1>1, <1>5 DEF PagesHold
  <2>3. got' \in [Requests -> SUBSET Requests]
    BY <1>1, <1>5, <2>1 DEF PagesHold
  <2>4. first' \in [Requests -> SUBSET Requests]
    BY <1>1, <1>5, <2>1 DEF PagesHold
  <2> QED BY <2>2, <2>3, <2>4
<1>11. /\ \A d : EntriesOf(d)' = EntriesOf(d) /\ TxOf(d)' = TxOf(d) /\ (Erased(d) => Erased(d)')
       /\ \A e \in entries : Depth(e)' = Depth(e)
  <2>1. entries' = entries
    BY <1>1 DEF collections
  <2> QED BY <1>8, <2>1, ErasureStays DEF EntriesOf, TxOf, Depth
<1>12. first'[r] \subseteq TxOf(c) \/ Erased(c)
  BY <1>1, <1>2, <1>7 DEF PagesHold
<1>13. ASSUME ~Erased(c), NEW e \in EntriesOf(c), e.tx \in first'[r], Depth(e) <= n * PageSize
       PROVE  e.tx \in got'[r]
  <2>1. CASE Depth(e) <= (n - 1) * PageSize
    <3>1. n # 1
      <4>1. Depth(e) \in Nat \ {0}
        BY <1>1, Depths
      <4> QED BY <1>4, <2>1, <4>1
    <3>2. HasRead(r, c, (n - 1) * PageSize)
      BY <1>1, <1>2, <1>3, <1>13 DEF PagesHold
    <3> QED BY <1>7, <1>13, <2>1, <3>1, <3>2 DEF HasRead
  <2>2. CASE ~(Depth(e) <= (n - 1) * PageSize)
    <3>1. Depth(e) \in Nat
      BY <1>1, Depths
    <3>2. e \in PageOf(c, n)
      BY <1>4, <1>13, <2>2, <3>1 DEF PageOf
    <3> QED BY <1>7, <3>2
  <2> QED BY <2>1, <2>2
<1>14. ASSUME NEW s \in Requests, pc'[s] = "page"
       PROVE  \/ Erased(who[s])'
              \/ (first[s] \subseteq TxOf(who[s]) /\ HasRead(s, who[s], (page[s] - 1) * PageSize))'
  <2>1. PICK d, k : d = who[s] /\ k = (page'[s] - 1) * PageSize
    OBVIOUS
  <2>2. who'[s] = d
    BY <1>1, <2>1
  <2>3. CASE s = r
    <3>1. d = c /\ k = n * PageSize
      BY <1>2, <1>4, <1>7, <1>14, <2>1, <2>3
    <3>2. Erased(c)' \/ (first'[r] \subseteq TxOf(c)' /\ HasRead(r, c, k)')
      <4>1. EntriesOf(c)' = EntriesOf(c) /\ TxOf(c)' = TxOf(c) /\ (Erased(c) => Erased(c)')
        BY <1>11
      <4>2. \A e \in EntriesOf(c) : Depth(e)' = Depth(e)
        BY <1>11 DEF EntriesOf
      <4> QED BY <1>12, <1>13, <3>1, <4>1, <4>2 DEF HasRead
    <3> QED BY <2>1, <2>2, <2>3, <3>1, <3>2
  <2>4. CASE s # r
    <3>1. Erased(d) \/ (first[s] \subseteq TxOf(d) /\ HasRead(s, d, k))
      BY <1>1, <1>7, <1>14, <2>1, <2>4 DEF PagesHold
    <3>2. Erased(d)' \/ (first'[s] \subseteq TxOf(d)' /\ HasRead(s, d, k)')
      <4>1. EntriesOf(d)' = EntriesOf(d) /\ TxOf(d)' = TxOf(d) /\ (Erased(d) => Erased(d)')
        BY <1>11
      <4>2. \A e \in EntriesOf(d) : Depth(e)' = Depth(e)
        BY <1>11 DEF EntriesOf
      <4> QED BY <1>7, <2>4, <3>1, <4>1, <4>2 DEF HasRead
    <3> QED BY <2>1, <2>2, <3>2
  <2> QED BY <2>3, <2>4
<1>15. ASSUME NEW s \in Requests, req'[s].op = "history", pc'[s] = "done"
       PROVE  first'[s] \subseteq got'[s] \/ Erased(who[s])'
  <2>1. PICK d : d = who[s] /\ who'[s] = d
    BY <1>1
  <2>2. CASE s = r
    <3>1. ASSUME ~Erased(c), NEW x \in first'[r]
          PROVE  x \in got'[r]
      <4>1. PICK e \in EntriesOf(c) : e.tx = x
        BY <1>12, <3>1 DEF TxOf
      <4>2. Depth(e) <= n * PageSize
        BY <1>1, <1>4, <1>7, <1>15, <2>2, Depths
      <4> QED BY <1>13, <3>1, <4>1, <4>2
    <3> QED BY <1>2, <1>11, <2>1, <2>2, <3>1
  <2>3. CASE s # r
    BY <1>1, <1>7, <1>11, <1>15, <2>1, <2>3 DEF PagesHold
  <2> QED BY <2>2, <2>3
<1>16. \A s \in Requests : pc'[s] = "idle" => page'[s] = 1 /\ first'[s] = {}
  BY <1>1, <1>7 DEF PagesHold
<1>17. IsFiniteSet(entries')
  BY <1>1 DEF collections
<1>18. PagesHold'
  BY <1>10, <1>14, <1>15, <1>16, <1>17 DEF PagesHold
<1> QED BY <1>6, <1>9, <1>18 DEF SteadyInv

-----------------------------------------------------------------------------
\* Staff name the place they see, and a reader begins at the first page.
LEMMA StartKeepsSteady ==
    ASSUME BooksInv, SteadyInv, NEW r \in Requests, Start(r)
    PROVE  SteadyInv'
<1>1. /\ BooksTyped /\ AccountsDated /\ PlacesHold /\ PagesHold
      /\ pc[r] = "idle" /\ who[r] = NoOne
  BY DEF Start, BooksInv, SteadyInv, InOrder, Ordered, Unknown
<1>2. PICK i \in Intents :
        /\ req' = [req EXCEPT ![r] = i] /\ Goto(r, Entrance(i.op))
        /\ CASE i.op = "reverse" ->
                  /\ \E t \in transactions :
                        t.merchant = i.merchant /\ copy' = [copy EXCEPT ![r] = t]
                  /\ UNCHANGED <<who, page, meant>>
             [] i.op \in {"adjust", "simulate"} ->
                  /\ \E a \in AccountsOf(i.merchant, i.cust) :
                        /\ page' = [page EXCEPT ![r] = PlaceOf(a)]
                        /\ meant' = [meant EXCEPT ![r] = a.cust]
                  /\ UNCHANGED <<who, copy>>
             [] OTHER ->
                  /\ who' = [who EXCEPT ![r] = i.cust]
                  /\ UNCHANGED <<copy, page, meant>>
  BY DEF Start
<1>3. i \in Intent /\ i.op \in Ops /\ i.cust \in Customers
  BY BookIntentsAssumption DEF Intent
<1>4. UNCHANGED <<collections, base, at, got, rivals, first>>
  BY DEF Start
<1>5. i.op \in BySeen =>
         \E a \in AccountsOf(i.merchant, i.cust) :
            /\ page' = [page EXCEPT ![r] = PlaceOf(a)]
            /\ meant' = [meant EXCEPT ![r] = a.cust] /\ UNCHANGED who
  <2>1. CASE i.op = "adjust"
    BY <1>2, <2>1
  <2>2. CASE i.op = "simulate"
    BY <1>2, <2>2
  <2> QED BY <2>1, <2>2 DEF BySeen
<1>6. i.op \notin BySeen => UNCHANGED <<page, meant>>
  BY <1>2 DEF BySeen
<1>7. \A s \in Requests \ {r} : who'[s] = who[s]
  <2>1. CASE i.op = "reverse" \/ i.op \in BySeen
    BY <1>2, <1>5, <2>1
  <2>2. CASE i.op \notin BySeen \cup {"reverse"}
    BY <1>1, <1>2, <2>2 DEF BySeen, BooksTyped
  <2> QED BY <2>1, <2>2
<1>8. /\ Entrance(i.op) \in {"enrol", "account", "findTx", "resolve", "user", "page", "membership"}
      /\ Entrance(i.op) = "resolve" => i.op \in BySeen
      /\ Entrance(i.op) = "page" => i.op = "history"
      /\ i.op = "history" => Entrance(i.op) = "page"
  <2>1. Entrance(i.op) \in {"enrol", "account", "findTx", "resolve", "user", "page", "membership"}
        /\ Fits(i.op, Entrance(i.op))
    BY <1>3, EntranceFits
  <2>2. i.op = "history" => Entrance(i.op) = "page"
    BY DEF Entrance
  <2> QED BY <2>1, <2>2 DEF Fits, BySeen
<1>9. /\ pc'[r] = Entrance(i.op) /\ req'[r] = i
      /\ \A s \in Requests \ {r} : pc'[s] = pc[s] /\ req'[s] = req[s]
  BY <1>1, <1>2 DEF BooksTyped, Goto
<1>10. UNCHANGED <<accounts, entries, now, got, first>>
  BY <1>4 DEF collections
<1>11. ASSUME NEW c, Erased(c)
       PROVE  Erased(c)'
  <2>1. PICK s \in Requests : req[s].op = "delete" /\ who[s] = c /\ pc[s] \notin {"idle", "user"}
    BY <1>11 DEF Erased
  <2>2. s # r
    BY <1>1, <2>1
  <2> QED BY <1>7, <1>9, <2>1, <2>2 DEF Erased
<1>12. AccountsDated'
  BY <1>1, <1>10 DEF AccountsDated
<1>13. \A m, c, n : StandsAt(m, c, n) => StandsAt(m, c, n)'
  BY <1>10 DEF StandsAt, PlaceOf
<1>14. ASSUME i.op \in BySeen
       PROVE  /\ page'[r] \in Nat \ {0} /\ meant'[r] = i.cust /\ who'[r] = NoOne
              /\ StandsAt(i.merchant, i.cust, page'[r])
              /\ \A s \in Requests \ {r} : page'[s] = page[s] /\ meant'[s] = meant[s]
              /\ DOMAIN page' = Requests /\ DOMAIN meant' = Requests
  <2>1. PICK a \in AccountsOf(i.merchant, i.cust) :
            /\ page' = [page EXCEPT ![r] = PlaceOf(a)]
            /\ meant' = [meant EXCEPT ![r] = a.cust] /\ UNCHANGED who
    BY <1>5, <1>14
  <2>2. a \in accounts /\ a.merchant = i.merchant /\ a.cust = i.cust
    BY DEF AccountsOf
  <2>3. PlaceOf(a) \in Nat \ {0}
    <3> DEFINE S == {b \in accounts : b.merchant = a.merchant /\ b.at <= a.at}
    <3>1. IsFiniteSet(S)
      BY <1>1, FS_Subset DEF AccountsDated
    <3>2. a \in S
      BY <1>1, <2>2 DEF BooksTyped, AccountDoc
    <3>3. PlaceOf(a) = Cardinality(S)
      BY DEF PlaceOf
    <3> HIDE DEF S
    <3> QED BY <3>1, <3>2, <3>3, FS_CardinalityType, FS_EmptySet
  <2> QED BY <1>1, <2>1, <2>2, <2>3 DEF PlacesHold, PagesHold, StandsAt
<1>15. PlacesHold'
  <2>1. meant' \in [Requests -> Customers \cup {NoOne}]
    <3>1. CASE i.op \in BySeen
      <4>1. PICK d \in Customers : meant' = [meant EXCEPT ![r] = d]
        <5>1. \A a \in AccountsOf(i.merchant, i.cust) : a.cust \in Customers
          BY <1>3 DEF AccountsOf
        <5> QED BY <1>5, <3>1, <5>1
      <4> QED BY <1>1, <4>1 DEF PlacesHold
    <3>2. CASE i.op \notin BySeen
      BY <1>1, <1>6, <3>2 DEF PlacesHold
    <3> QED BY <3>1, <3>2
  <2>2. ASSUME NEW s \in Requests, req'[s].op \in BySeen, ~AnyErased
        PROVE  /\ pc'[s] = "resolve" => StandsAt(req[s].merchant, meant[s], page[s])'
               /\ who'[s] # NoOne => who'[s] = meant'[s]
    <3>1. PICK m, c, n : m = req'[s].merchant /\ c = meant'[s] /\ n = page'[s]
      OBVIOUS
    <3>2. CASE s = r
      <4>1. StandsAt(m, c, n)
        BY <1>9, <1>14, <2>2, <3>1, <3>2
      <4>2. StandsAt(m, c, n)'
        BY <1>13, <4>1
      <4> QED BY <1>9, <1>14, <2>2, <3>1, <3>2, <4>2
    <3>3. CASE s # r
      <4>1. page'[s] = page[s] /\ meant'[s] = meant[s]
        BY <1>6, <1>14, <3>3
      <4>2. pc'[s] = "resolve" => StandsAt(m, c, n)
        BY <1>1, <1>9, <2>2, <3>1, <3>3, <4>1 DEF PlacesHold
      <4>3. pc'[s] = "resolve" => StandsAt(m, c, n)'
        BY <1>13, <4>2
      <4> QED BY <1>1, <1>7, <1>9, <2>2, <3>1, <3>3, <4>1, <4>3 DEF PlacesHold
    <3> QED BY <3>2, <3>3
  <2>3. AnyErased => AnyErased'
    BY <1>11 DEF AnyErased
  <2> QED BY <2>1, <2>2, <2>3 DEF PlacesHold
<1>16. page' \in [Requests -> Nat \ {0}]
  <2>1. CASE i.op \in BySeen
    <3>1. PICK n : page' = [page EXCEPT ![r] = n]
      BY <1>5, <2>1
    <3>2. n \in Nat \ {0}
      BY <1>1, <1>14, <2>1, <3>1 DEF PagesHold
    <3> QED BY <1>1, <3>1, <3>2 DEF PagesHold
  <2>2. CASE i.op \notin BySeen
    BY <1>1, <1>6, <2>2 DEF PagesHold
  <2> QED BY <2>1, <2>2
<1>17. PagesHold'
  <2>1. /\ \A c : EntriesOf(c)' = EntriesOf(c) /\ TxOf(c)' = TxOf(c)
        /\ \A e : Depth(e)' = Depth(e)
    BY <1>10 DEF EntriesOf, TxOf, Depth
  <2>2. \A s \in Requests \ {r} : page'[s] = page[s]
    BY <1>6, <1>14
  <2>3. ASSUME NEW s \in Requests, pc'[s] = "page"
        PROVE  \/ Erased(who[s])'
               \/ (first[s] \subseteq TxOf(who[s]) /\ HasRead(s, who[s], (page[s] - 1) * PageSize))'
    <3>1. PICK c, n : c = who'[s] /\ n = (page'[s] - 1) * PageSize
      OBVIOUS
    <3>2. CASE s = r
      <4>1. first[r] = {}
        BY <1>1 DEF PagesHold
      <4> QED BY <1>10, <3>2, <4>1 DEF HasRead
    <3>3. CASE s # r
      <4>1. Erased(c) \/ (first[s] \subseteq TxOf(c) /\ HasRead(s, c, n))
        BY <1>1, <1>7, <1>9, <2>2, <2>3, <3>1, <3>3 DEF PagesHold
      <4>2. Erased(c)' \/ (first'[s] \subseteq TxOf(c)' /\ HasRead(s, c, n)')
        BY <1>10, <1>11, <2>1, <4>1 DEF HasRead
      <4> QED BY <3>1, <4>2
    <3> QED BY <3>2, <3>3
  <2>4. ASSUME NEW s \in Requests, req'[s].op = "history", pc'[s] = "done"
        PROVE  first[s] \subseteq got[s] \/ Erased(who[s])'
    <3>1. s # r
      BY <1>8, <1>9, <2>4
    <3>2. PICK c : c = who[s] /\ who'[s] = c
      BY <1>7, <3>1
    <3>3. first[s] \subseteq got[s] \/ Erased(c)
      BY <1>1, <1>9, <2>4, <3>1, <3>2 DEF PagesHold
    <3> QED BY <1>11, <3>2, <3>3
  <2>5. \A s \in Requests : pc'[s] = "idle" => page'[s] = 1 /\ first[s] = {}
    BY <1>1, <1>8, <1>9, <2>2 DEF PagesHold
  <2>6. got' = got /\ first' = first /\ IsFiniteSet(entries') /\ {got, first} \subseteq [Requests -> SUBSET Requests]
    BY <1>1, <1>10 DEF PagesHold
  <2> QED BY <1>16, <2>3, <2>4, <2>5, <2>6 DEF PagesHold
<1> QED BY <1>12, <1>15, <1>17 DEF SteadyInv

\* The members at the start are dated in their order.
LEMMA SteadyAtFirst ==
    ASSUME Init
    PROVE  SteadyInv
<1> DEFINE n == Cardinality(DOMAIN Members)
           g == [i \in 1 .. n |-> [merchant |-> Members[i][1], cust |-> Members[i][2],
                                   status |-> "ACTIVE", at |-> i]]
<1>1. n \in Nat /\ DOMAIN Members = 1 .. n
  BY MembersAssumption, FS_CardinalityType
<1>2. now = n + 1 /\ entries = {}
  BY DEF Init
<1>3. PICK f : f = g
  OBVIOUS
<1>4. accounts = {f[i] : i \in 1 .. n} /\ \A i \in 1 .. n : f[i].at = i
  BY <1>1, <1>3 DEF Init
<1> HIDE DEF g, n
<1>5. AccountsDated
  <2> DEFINE h == [i \in 1 .. n |-> f[i]]
  <2>1. h \in Surjection(1 .. n, accounts)
    BY <1>4 DEF Surjection
  <2>2. IsFiniteSet(accounts)
    BY <1>1, <2>1, FS_Interval, FS_Surjection
  <2> QED BY <1>1, <1>2, <1>4, <2>2 DEF AccountsDated
<1>6. PlacesHold
  BY DEF Init, PlacesHold
<1>7. PagesHold
  <2>1. \A r \in Requests : pc[r] = "idle" /\ page[r] = 1 /\ first[r] = {}
    BY DEF Init
  <2>2. page \in [Requests -> Nat \ {0}] /\ {got, first} \subseteq [Requests -> SUBSET Requests]
    BY DEF Init
  <2> QED BY <1>2, <2>1, <2>2, FS_EmptySet DEF PagesHold
<1> QED BY <1>5, <1>6, <1>7 DEF SteadyInv

LEMMA NextKeepsSteady ==
    ASSUME BooksInv, SteadyInv, [Next]_vars
    PROVE  SteadyInv'
<1>0. BooksTyped
  BY DEF BooksInv
<1>1. CASE UNCHANGED vars
  <2>1. /\ UNCHANGED <<accounts, entries, now, pc, req, who, page, got, meant, first>>
    BY <1>1 DEF vars, collections, locals, history
  <2>2. /\ \A c : EntriesOf(c)' = EntriesOf(c) /\ TxOf(c)' = TxOf(c) /\ (Erased(c)' <=> Erased(c))
        /\ \A e : Depth(e)' = Depth(e)
        /\ \A m, c, n : StandsAt(m, c, n)' <=> StandsAt(m, c, n)
    BY <2>1 DEF EntriesOf, TxOf, Depth, Erased, StandsAt, PlaceOf
  <2>3. AccountsDated'
    BY <2>1 DEF SteadyInv, AccountsDated
  <2>4. PlacesHold'
    <3>1. \A r : StandsAt(req[r].merchant, meant[r], page[r])' <=>
                 StandsAt(req[r].merchant, meant[r], page[r])
      BY <2>1 DEF StandsAt, PlaceOf
    <3> QED BY <2>1, <2>2, <3>1 DEF SteadyInv, PlacesHold, AnyErased
  <2>5. PagesHold'
    <3>1. \A r : /\ Erased(who[r])' <=> Erased(who[r])
                 /\ TxOf(who[r])' = TxOf(who[r])
                 /\ HasRead(r, who[r], (page[r] - 1) * PageSize)' <=>
                    HasRead(r, who[r], (page[r] - 1) * PageSize)
      BY <2>1 DEF Erased, TxOf, EntriesOf, HasRead, Depth
    <3> QED BY <2>1, <3>1 DEF SteadyInv, PagesHold
  <2> QED BY <2>3, <2>4, <2>5 DEF SteadyInv
<1>2. ASSUME NEW r \in Requests, Start(r)
      PROVE  SteadyInv'
  BY <1>2, StartKeepsSteady
<1>3. ASSUME NEW r \in Requests,
             \/ Fail(r) \/ FindMembership(r) \/ FindUser(r)
             \/ DeleteTransactions(r) \/ DeleteCustomer(r) \/ DeleteUser(r)
      PROVE  SteadyInv'
  BY <1>0, <1>3, OthersAreStill, StillKeeps
<1>4. ASSUME NEW r \in Requests, PostStep(r)
      PROVE  SteadyInv'
  <2>1. CASE Enrol(r)
    BY <2>1, EnrolKeepsSteady
  <2>2. CASE Commit(r)
    BY <2>2, AppendKeepsSteady
  <2>3. CASE Check(r) \/ Open(r) \/ MarkRead(r) \/ Mark(r)
    BY <1>0, <2>3, ScansAreStill, StillKeeps
  <2> QED BY <1>4, <2>1, <2>2, <2>3 DEF PostStep
<1>5. ASSUME NEW r \in Requests, SimulateStep(r)
      PROVE  SteadyInv'
  <2>1. CASE SimulateResolve(r)
    BY <2>1, ResolveKeepsSteady
  <2>2. CASE SimulateFind(r)
    BY <1>0, <2>2, ScansAreStill, StillKeeps
  <2> QED BY <1>5, <2>1, <2>2 DEF SimulateStep
<1>6. ASSUME NEW r \in Requests, OperatorStep(r)
      PROVE  SteadyInv'
  <2>1. CASE FindTransaction(r)
    BY <2>1, FindTransactionIsStill, StillKeeps
  <2>2. CASE FindAccount(r) \/ Reread(r) \/ NoteReversal(r)
    BY <1>0, <2>2, AdjustmentsAreStill, StillKeeps
  <2> QED BY <1>6, <2>1, <2>2 DEF OperatorStep
<1>7. ASSUME NEW r \in Requests, AdjustStep(r)
      PROVE  SteadyInv'
  <2>1. CASE ResolvePlace(r)
    BY <2>1, ResolveKeepsSteady
  <2>2. CASE AppendInsert(r)
    BY <2>2, AppendKeepsSteady
  <2>3. CASE CheckBalance(r) \/ SaveTransaction(r) \/ AppendRead(r)
    BY <1>0, <2>3, AdjustmentsAreStill, StillKeeps
  <2> QED BY <1>7, <2>1, <2>2, <2>3 DEF AdjustStep
<1>8. ASSUME NEW r \in Requests, DeleteLedger(r) \/ DeleteAccounts(r) \/ SwitchMembership(r) \/ ReadPage(r)
      PROVE  SteadyInv'
  BY <1>8, DeleteLedgerKeepsSteady, DeleteAccountsKeepsSteady, SwitchKeepsSteady, ReadPageKeepsSteady
<1> QED BY <1>1, <1>2, <1>3, <1>4, <1>5, <1>6, <1>7, <1>8 DEF Next, Step, DeleteStep

\* An adjustment by place reaches the customer staff saw there, though others
\* enrol and are switched off meanwhile, and whoever reads the history page by
\* page misses nothing that was there at the start, however much is added: only
\* a deletion moves what is read by position.
THEOREM Steady == Spec => []ListsAreSteady
<1>1. Init => SteadyInv
  BY SteadyAtFirst
<1>2. BooksInv /\ SteadyInv /\ [Next]_vars => SteadyInv'
  BY NextKeepsSteady
<1>3. SteadyInv => ListsAreSteady
  <2>1. SteadyInv => PlacesStay
    BY DEF SteadyInv, PlacesHold, PlacesStay, BySeen, AnyErased
  <2>2. SteadyInv => PagesMissNothing
    BY DEF SteadyInv, PagesHold, PagesMissNothing
  <2> QED BY <2>1, <2>2 DEF ListsAreSteady
<1> QED BY <1>1, <1>2, <1>3, BooksInvariance, PTL DEF Spec

-----------------------------------------------------------------------------
(* Balances.  Requests that append to one book at a time know each other as *)
(* rivals; one that has none has read the book as it still is when it       *)
(* appends, and whoever reads it later has a later time.                    *)

\* The entries of e's book up to e.
Till(e) == {f \in Book(e.merchant, e.cust) : f.at <= e.at}

EntriesDated ==
    /\ \A e \in entries : e.at = at[e.tx] /\ e.at < now
    /\ \A r \in Requests : Appending(r) => at[r] < now

\* Whoever appends to a book knows who else does, and whoever comes after an
\* entry of it either read the clock later or is a rival of it.
RivalsKnown ==
    /\ rivals \in [Requests -> SUBSET Requests]
    /\ \A r, s \in Requests :
          r # s /\ Appending(r) /\ Appending(s) /\ SameBook(r, s) => s \in rivals[r]
    /\ \A e \in entries, r \in Requests :
          Appending(r) /\ req[r].merchant = e.merchant /\ who[r] = e.cust =>
              at[r] > e.at \/ r \in rivals[e.tx]

\* What a request without a rival has read of the book is true still.
AloneSees ==
    /\ base \in [Requests -> Int]
    /\ \A r \in Requests : Appending(r) /\ rivals[r] = {} =>
          \/ Erased(who[r])
          \/ /\ base[r] = AmountsOf(Book(req[r].merchant, who[r]))
             /\ \A e \in Book(req[r].merchant, who[r]) : e.at < at[r]

AfterHolds ==
    \A e \in entries : Erased(e.cust) \/ rivals[e.tx] # {} \/ e.after = AmountsOf(Till(e))

BalancesInv == EntriesDated /\ RivalsKnown /\ AloneSees /\ AfterHolds

\* A step that neither reads nor writes a book.
Aside ==
    /\ UNCHANGED <<entries, base, at, rivals>> /\ now' >= now
    /\ \A s \in Requests : Appending(s)' => Appending(s) /\ req'[s] = req[s] /\ who'[s] = who[s]
    /\ \A c : Erased(c) => Erased(c)'

LEMMA AsideKeeps ==
    ASSUME BooksInv, BalancesInv, Aside, now' \in Nat
    PROVE  BalancesInv'
<1>1. EntriesDated /\ RivalsKnown /\ AloneSees /\ AfterHolds
  BY DEF BalancesInv
<1>2. UNCHANGED <<entries, base, at, rivals>> /\ now' >= now
  BY DEF Aside
<1>3. /\ now \in Nat /\ \A e \in entries : e.at \in Nat
      /\ \A r \in Requests : at[r] \in Nat
  BY DEF BooksInv, BooksTyped
<1>4. \A s \in Requests : Appending(s)' => Appending(s) /\ req'[s] = req[s] /\ who'[s] = who[s]
  BY DEF Aside
<1>5. \A c : Erased(c) => Erased(c)'
  BY DEF Aside
<1>6. EntriesDated'
  BY <1>1, <1>2, <1>3, <1>4 DEF EntriesDated
<1>7. RivalsKnown'
  BY <1>1, <1>2, <1>4 DEF RivalsKnown, SameBook
<1>8. AloneSees'
  <2>1. \A m, c : Book(m, c)' = Book(m, c)
    BY <1>2 DEF Book
  <2>2. \A r \in Requests : Appending(r)' =>
           /\ Book(req[r].merchant, who[r])' = Book(req[r].merchant, who[r])
           /\ Erased(who[r]) => Erased(who[r])'
    <3>1. ASSUME NEW r \in Requests, Appending(r)'
          PROVE  Erased(who[r]) => Erased(who[r])'
      BY <1>4, <1>5, <3>1 DEF Erased
    <3>2. ASSUME NEW r \in Requests, Appending(r)'
          PROVE  Book(req[r].merchant, who[r])' = Book(req[r].merchant, who[r])
      BY <1>2, <1>4, <3>2 DEF Book
    <3> QED BY <3>1, <3>2
  <2>3. ASSUME NEW r \in Requests, Appending(r)', rivals'[r] = {}
        PROVE  \/ Erased(who[r])'
               \/ /\ base'[r] = AmountsOf(Book(req[r].merchant, who[r]))'
                  /\ \A e \in Book(req[r].merchant, who[r])' : e.at < at'[r]
    <3>1. Appending(r) /\ rivals[r] = {} /\ base'[r] = base[r] /\ at'[r] = at[r]
      BY <1>2, <1>4, <2>3
    <3>2. PICK B : B = Book(req[r].merchant, who[r])
      OBVIOUS
    <3>3. Book(req[r].merchant, who[r])' = B
      BY <2>2, <2>3, <3>2
    <3>4. AmountsOf(Book(req[r].merchant, who[r]))' = AmountsOf(B)
      BY <3>3 DEF AmountsOf, MapThenSumSet, MapThenFoldSet
    <3>5. Erased(who[r]) \/ (base[r] = AmountsOf(B) /\ \A e \in B : e.at < at[r])
      BY <1>1, <3>1, <3>2 DEF AloneSees
    <3>6. Erased(who[r]) => Erased(who[r])'
      BY <2>2, <2>3
    <3> QED BY <3>1, <3>3, <3>4, <3>5, <3>6
  <2>4. base' \in [Requests -> Int]
    BY <1>1, <1>2 DEF AloneSees
  <2> QED BY <2>3, <2>4 DEF AloneSees
<1>9. AfterHolds'
  <2>1. ASSUME NEW e
        PROVE  AmountsOf(Till(e))' = AmountsOf(Till(e))
    <3>1. Till(e)' = Till(e)
      BY <1>2 DEF Till, Book
    <3> QED BY <3>1 DEF AmountsOf, MapThenSumSet, MapThenFoldSet
  <2> QED BY <1>1, <1>2, <1>5, <2>1 DEF AfterHolds
<1> QED BY <1>6, <1>7, <1>8, <1>9 DEF BalancesInv

LEMMA OnwardIsAside ==
    ASSUME BooksInv, NEW r \in Requests, Onward(r), UNCHANGED <<entries, base, at, rivals>>,
           now' \in {now, now + 1}, pc'[r] \notin {"commit", "insert"}
    PROVE  Aside
<1>1. \A c : Erased(c) => Erased(c)'
  BY ErasureStays
<1>2. now \in Nat
  BY DEF BooksInv, BooksTyped
<1> QED BY <1>1, <1>2 DEF Onward, Appending, Aside

\* A step that changes its label, and documents that are not entries.
LEMMA GotoIsAside ==
    ASSUME BooksInv, NEW r \in Requests, NEW l, Goto(r, l), l \notin {"commit", "insert"},
           UNCHANGED <<entries, base, at, rivals>>, Still(r)
    PROVE  Aside
<1>1. pc'[r] = l
  BY DEF Goto, BooksInv, BooksTyped
<1> QED BY <1>1, OnwardIsAside DEF Still

LEMMA RefuseIsAside ==
    ASSUME BooksInv, NEW r \in Requests, pc[r] \notin Resting, Refuse(r)
    PROVE  Aside
BY RefuseIsStill, GotoIsAside DEF Refuse, collections, locals, history, BooksInv

LEMMA ScansAreAside ==
    ASSUME BooksInv, NEW r \in Requests,
           Check(r) \/ (Open(r) /\ Refuse(r)) \/ MarkRead(r) \/ Mark(r) \/ SimulateFind(r)
    PROVE  Aside
<1>0. Still(r)
  BY ScansAreStill DEF BooksInv
<1>1. CASE Check(r)
  BY <1>0, <1>1, GotoIsAside, RefuseIsAside DEF Check, AfterPosting, Resting, collections, locals, history
<1>2. CASE Open(r) /\ Refuse(r)
  BY <1>2, RefuseIsAside DEF Open, Resting
<1>3. CASE MarkRead(r)
  BY <1>0, <1>3, GotoIsAside DEF MarkRead, collections, history
<1>4. CASE Mark(r)
  BY <1>0, <1>4, GotoIsAside DEF Mark, locals, history
<1>5. CASE SimulateFind(r)
  BY <1>0, <1>5, GotoIsAside, RefuseIsAside DEF SimulateFind, Resting, collections, locals, history
<1> QED BY <1>1, <1>2, <1>3, <1>4, <1>5

LEMMA OperatorsAreAside ==
    ASSUME BooksInv, NEW r \in Requests,
           \/ FindTransaction(r) \/ FindAccount(r) \/ Reread(r) \/ NoteReversal(r)
           \/ CheckBalance(r) \/ SaveTransaction(r)
    PROVE  Aside
<1>0. Still(r)
  BY AdjustmentsAreStill, FindTransactionIsStill DEF BooksInv
<1>1. CASE FindTransaction(r)
  BY <1>0, <1>1, GotoIsAside, RefuseIsAside DEF FindTransaction, Resting, collections, history
<1>2. CASE FindAccount(r)
  BY <1>0, <1>2, GotoIsAside, RefuseIsAside DEF FindAccount, Resting, collections, locals, history
<1>3. CASE Reread(r)
  BY <1>0, <1>3, GotoIsAside DEF Reread, collections, locals, history
<1>4. CASE NoteReversal(r)
  BY <1>0, <1>4, GotoIsAside DEF NoteReversal, locals, history
<1>5. CASE CheckBalance(r)
  BY <1>0, <1>5, GotoIsAside, RefuseIsAside DEF CheckBalance, Resting, collections, locals, history
<1>6. CASE SaveTransaction(r)
  BY <1>0, <1>6, GotoIsAside DEF SaveTransaction, locals, history
<1> QED BY <1>1, <1>2, <1>3, <1>4, <1>5, <1>6

LEMMA OthersAreAside ==
    ASSUME BooksInv, NEW r \in Requests,
           \/ Fail(r) \/ FindMembership(r) \/ FindUser(r)
           \/ DeleteTransactions(r) \/ DeleteCustomer(r) \/ DeleteUser(r)
    PROVE  Aside
<1>0. Still(r)
  BY OthersAreStill DEF BooksInv
<1>1. CASE Fail(r)
  BY <1>1, RefuseIsAside DEF Fail
<1>2. CASE FindMembership(r)
  BY <1>0, <1>2, GotoIsAside, RefuseIsAside DEF FindMembership, Resting, collections, locals, history
<1>3. CASE FindUser(r)
  BY <1>0, <1>3, GotoIsAside DEF FindUser, collections, locals, history
<1>4. CASE DeleteTransactions(r)
  BY <1>0, <1>4, GotoIsAside DEF DeleteTransactions, locals, history
<1>5. CASE DeleteCustomer(r)
  BY <1>0, <1>5, GotoIsAside DEF DeleteCustomer, locals, history
<1>6. CASE DeleteUser(r)
  BY <1>0, <1>6, GotoIsAside DEF DeleteUser, locals, history
<1> QED BY <1>1, <1>2, <1>3, <1>4, <1>5, <1>6

\* Steps that are not still: they write accounts, pages or the customer.
LEMMA RestAreAside ==
    ASSUME BooksInv, NEW r \in Requests,
           \/ Enrol(r) \/ SimulateResolve(r) \/ ResolvePlace(r) \/ SwitchMembership(r)
           \/ DeleteAccounts(r) \/ ReadPage(r)
    PROVE  Aside
<1>0. pc \in [Requests -> Labels] /\ who \in [Requests -> Customers \cup {NoOne}]
  BY DEF BooksInv, BooksTyped
<1>1. CASE Enrol(r)
  <2>1. CASE Refuse(r)
    BY <1>1, <2>1, RefuseIsAside DEF Enrol, Resting
  <2>2. CASE ~Refuse(r)
    BY <1>0, <1>1, <2>2, OnwardIsAside
    DEF Enrol, Onward, Goto, Resting, Unknown, collections, locals, history
  <2> QED BY <2>1, <2>2
<1>2. CASE SimulateResolve(r)
  <2>1. CASE Refuse(r)
    BY <1>2, <2>1, RefuseIsAside DEF SimulateResolve, Resting
  <2>2. CASE ~Refuse(r)
    BY <1>0, <1>2, <2>2, OnwardIsAside
    DEF SimulateResolve, Onward, Goto, Resting, Unknown, collections, history
  <2> QED BY <2>1, <2>2
<1>3. CASE ResolvePlace(r)
  <2>1. CASE Refuse(r)
    BY <1>3, <2>1, RefuseIsAside DEF ResolvePlace, Resting
  <2>2. CASE ~Refuse(r)
    BY <1>0, <1>3, <2>2, OnwardIsAside
    DEF ResolvePlace, Onward, Goto, Resting, Unknown, collections, history
  <2> QED BY <2>1, <2>2
<1>4. CASE SwitchMembership(r)
  BY <1>0, <1>4, OnwardIsAside DEF SwitchMembership, Onward, Goto, Resting, locals, history
<1>5. CASE DeleteAccounts(r)
  BY <1>0, <1>5, OnwardIsAside DEF DeleteAccounts, Onward, Goto, Resting, locals, history
<1>6. CASE ReadPage(r)
  BY <1>0, <1>6, OnwardIsAside DEF ReadPage, Onward, Goto, Resting, collections
<1> QED BY <1>1, <1>2, <1>3, <1>4, <1>5, <1>6

LEMMA StartIsAside ==
    ASSUME BooksInv, NEW r \in Requests, Start(r)
    PROVE  Aside /\ now' = now
<1>1. pc[r] = "idle" /\ UNCHANGED <<entries, base, at, rivals, now>>
  BY DEF Start, collections
<1>2. PICK i \in Intents : req' = [req EXCEPT ![r] = i] /\ Goto(r, Entrance(i.op))
  BY DEF Start
<1>3. \A s \in Requests \ {r} : pc'[s] = pc[s] /\ req'[s] = req[s]
  BY <1>2 DEF Goto, BooksInv, BooksTyped
<1>4. \A s \in Requests \ {r} : who'[s] = who[s]
  BY DEF Start, BooksInv, BooksTyped
<1>5. pc'[r] \notin {"commit", "insert"}
  <2>1. pc'[r] = Entrance(i.op) /\ i.op \in Ops
    BY <1>2, BookIntentsAssumption DEF Goto, BooksInv, BooksTyped, Intent
  <2> QED BY <2>1 DEF Entrance, Ops, Writers, Posts
<1>6. \A s \in Requests : Appending(s)' => Appending(s) /\ req'[s] = req[s] /\ who'[s] = who[s]
  BY <1>3, <1>4, <1>5 DEF Appending
<1>7. \A c : Erased(c) => Erased(c)'
  BY <1>1, <1>3, <1>4 DEF Erased
<1>8. now \in Nat
  BY DEF BooksInv, BooksTyped
<1> QED BY <1>1, <1>6, <1>7, <1>8 DEF Aside

\* Books are finite and their amounts are numbers.
LEMMA BooksAddUp ==
    ASSUME BooksInv, IsFiniteSet(entries), NEW S \in SUBSET entries
    PROVE  IsFiniteSet(S) /\ InInt(S)
<1>1. IsFiniteSet(S)
  BY FS_Subset
<1>2. \A e \in entries : e.tx \in Requests /\ e.amount = amt[e.tx] /\ amt[e.tx] \in Int
  BY DEF BooksInv, BooksTyped, RowsFit, EntryFits
<1> QED BY <1>1, <1>2 DEF InInt

LEMMA BalanceIs ==
    ASSUME NEW m, NEW c
    PROVE  Balance(m, c) = AmountsOf(Book(m, c))
BY DEF Balance, AmountsOf, MapThenSumSet, MapThenFoldSet

\* A request that reads its book becomes a rival of those that append to it.
LEMMA ReadKeepsBalances ==
    ASSUME BooksInv, BalancesInv, IsFiniteSet(entries), NEW r \in Requests, ReadBook(r),
           NEW l \in {"commit", "insert"}, Goto(r, l), pc[r] \in {"open", "append"}
    PROVE  BalancesInv'
<1>1. EntriesDated /\ RivalsKnown /\ AloneSees /\ AfterHolds
  BY DEF BalancesInv
<1>2. /\ pc \in [Requests -> Labels] /\ at \in [Requests -> Nat] /\ now \in Nat
      /\ \A e \in entries : e.at \in Nat /\ e.tx \in Requests
      /\ base \in [Requests -> Int] /\ rivals \in [Requests -> SUBSET Requests]
  BY <1>1 DEF BooksInv, BooksTyped, AloneSees, RivalsKnown
<1> DEFINE others == {s \in Requests \ {r} : Appending(s) /\ SameBook(r, s)}
<1>3. /\ entries' = entries /\ req' = req /\ who' = who /\ now' = now + 1
      /\ at' = [at EXCEPT ![r] = now]
      /\ base' = [base EXCEPT ![r] = Balance(req[r].merchant, who[r])]
  BY DEF ReadBook
<1>4. /\ rivals' \in [Requests -> SUBSET Requests]
      /\ rivals'[r] = others
      /\ \A s \in others : rivals'[s] = rivals[s] \cup {r}
      /\ \A s \in Requests \ (others \cup {r}) : rivals'[s] = rivals[s]
  <2>1. rivals' = [s \in Requests |-> CASE s = r -> others
                                        [] s \in others -> rivals[s] \cup {r}
                                        [] OTHER -> rivals[s]]
    BY DEF ReadBook
  <2>2. r \notin others /\ others \subseteq Requests
    OBVIOUS
  <2> HIDE DEF others
  <2>3. rivals'[r] = others
    BY <2>1, <2>2
  <2>4. ASSUME NEW s \in others
        PROVE  rivals'[s] = rivals[s] \cup {r}
    <3>1. s \in Requests /\ s # r
      BY <2>2
    <3>2. rivals'[s] = CASE s = r -> others [] s \in others -> rivals[s] \cup {r} [] OTHER -> rivals[s]
      BY <2>1, <3>1
    <3> QED BY <3>1, <3>2
  <2>5. ASSUME NEW s \in Requests \ (others \cup {r})
        PROVE  rivals'[s] = rivals[s]
    <3>1. rivals'[s] = CASE s = r -> others [] s \in others -> rivals[s] \cup {r} [] OTHER -> rivals[s]
      BY <2>1
    <3> QED BY <3>1
  <2>6. \A s \in Requests : rivals'[s] \in SUBSET Requests
    BY <1>2, <2>2, <2>3, <2>4, <2>5
  <2>7. rivals' \in [Requests -> SUBSET Requests]
    BY <2>1, <2>6
  <2> QED BY <2>3, <2>4, <2>5, <2>7
<1>5. /\ pc'[r] = l /\ \A s \in Requests \ {r} : pc'[s] = pc[s]
      /\ Appending(r)' /\ \A s \in Requests \ {r} : Appending(s)' <=> Appending(s)
  BY <1>2 DEF Goto, Appending
<1>6. \A e \in entries : e.tx # r
  BY DEF BooksInv, RowsFit, EntryFits, Written, Late
<1>7. \A s \in Requests \ {r} : rivals[s] \subseteq rivals'[s]
  BY <1>4
<1>8. \A c : Erased(c) => Erased(c)'
  BY <1>3, <1>5 DEF Erased
<1>9. EntriesDated'
  BY <1>1, <1>2, <1>3, <1>5, <1>6 DEF EntriesDated
<1>10. RivalsKnown'
  <2>1. ASSUME NEW s \in Requests, NEW t \in Requests, s # t, Appending(s)', Appending(t)', SameBook(s, t)'
        PROVE  t \in rivals'[s]
    <3>1. SameBook(s, t) /\ SameBook(t, s)
      BY <1>3, <2>1 DEF SameBook
    <3>2. CASE s = r
      BY <1>4, <1>5, <2>1, <3>1, <3>2
    <3>3. CASE t = r
      BY <1>4, <1>5, <2>1, <3>1, <3>3
    <3>4. CASE s # r /\ t # r
      BY <1>1, <1>5, <1>7, <2>1, <3>1, <3>4 DEF RivalsKnown
    <3> QED BY <3>2, <3>3, <3>4
  <2>2. ASSUME NEW e \in entries, NEW s \in Requests, Appending(s)',
               req[s].merchant = e.merchant, who[s] = e.cust
        PROVE  at'[s] > e.at \/ s \in rivals'[e.tx]
    <3>1. CASE s = r
      BY <1>1, <1>2, <1>3, <3>1 DEF EntriesDated
    <3>2. CASE s # r
      <4>1. at'[s] = at[s] /\ Appending(s)
        BY <1>2, <1>3, <1>5, <2>2, <3>2
      <4>2. at[s] > e.at \/ s \in rivals[e.tx]
        BY <1>1, <2>2, <4>1 DEF RivalsKnown
      <4> QED BY <1>2, <1>6, <1>7, <4>1, <4>2
    <3> QED BY <3>1, <3>2
  <2> QED BY <1>3, <1>4, <2>1, <2>2 DEF RivalsKnown
<1>11. AloneSees'
  <2>1. \A m, c : Book(m, c)' = Book(m, c) /\ Book(m, c) \subseteq entries
    BY <1>3 DEF Book
  <2>2. PICK B : B = Book(req[r].merchant, who[r])
    OBVIOUS
  <2>3. Balance(req[r].merchant, who[r]) = AmountsOf(B)
    BY <2>2, BalanceIs
  <2>4. AmountsOf(B) \in Int
    BY <2>1, <2>2, BooksAddUp, AmountsType
  <2>5. base' \in [Requests -> Int] /\ base'[r] = AmountsOf(B) /\ at'[r] = now
    BY <1>2, <1>3, <2>3, <2>4
  <2>6. ASSUME NEW s \in Requests, Appending(s)', rivals'[s] = {}
        PROVE  \/ Erased(who[s])'
               \/ /\ base'[s] = AmountsOf(Book(req[s].merchant, who[s]))'
                  /\ \A e \in Book(req[s].merchant, who[s])' : e.at < at'[s]
    <3>1. PICK C : C = Book(req[s].merchant, who[s])
      OBVIOUS
    <3>2. Book(req[s].merchant, who[s])' = C
      BY <1>3, <3>1 DEF Book
    <3>3. AmountsOf(Book(req[s].merchant, who[s]))' = AmountsOf(C)
      BY <3>2 DEF AmountsOf, MapThenSumSet, MapThenFoldSet
    <3>4. CASE s = r
      <4>1. C = B /\ \A e \in C : e.at < now
        BY <1>1, <2>1, <2>2, <3>1, <3>4 DEF EntriesDated
      <4> QED BY <2>5, <3>2, <3>3, <3>4, <4>1
    <3>5. CASE s # r
      <4>1. Appending(s) /\ rivals[s] = {} /\ base'[s] = base[s] /\ at'[s] = at[s]
        BY <1>2, <1>3, <1>5, <1>7, <2>6, <3>5
      <4>2. Erased(who[s]) \/ (base[s] = AmountsOf(C) /\ \A e \in C : e.at < at[s])
        BY <1>1, <3>1, <4>1 DEF AloneSees
      <4>3. Erased(who[s]) => Erased(who[s])'
        BY <1>3, <1>8 DEF Erased
      <4> QED BY <3>2, <3>3, <4>1, <4>2, <4>3
    <3> QED BY <3>4, <3>5
  <2> QED BY <2>5, <2>6 DEF AloneSees
<1>12. AfterHolds'
  <2>1. ASSUME NEW e
        PROVE  AmountsOf(Till(e))' = AmountsOf(Till(e))
    <3>1. Till(e)' = Till(e)
      BY <1>3 DEF Till, Book
    <3> QED BY <3>1 DEF AmountsOf, MapThenSumSet, MapThenFoldSet
  <2>2. \A e \in entries : rivals[e.tx] # {} => rivals'[e.tx] # {}
    BY <1>2, <1>6, <1>7
  <2> QED BY <1>1, <1>3, <1>8, <2>1, <2>2 DEF AfterHolds
<1> QED BY <1>9, <1>10, <1>11, <1>12 DEF BalancesInv

\* An entry comes after those its request has seen, or its request has rivals.
LEMMA AppendKeepsBalances ==
    ASSUME BooksInv, BalancesInv, IsFiniteSet(entries), NEW r \in Requests,
           Commit(r) \/ AppendInsert(r)
    PROVE  BalancesInv'
<1>1. EntriesDated /\ RivalsKnown /\ AloneSees /\ AfterHolds
  BY DEF BalancesInv
<1>2. /\ pc \in [Requests -> Labels] /\ at \in [Requests -> Nat] /\ now \in Nat
      /\ amt \in [Requests -> Int] /\ base \in [Requests -> Int]
      /\ \A e \in entries : e.at \in Nat /\ e.tx \in Requests
  BY <1>1 DEF BooksInv, BooksTyped, AloneSees
<1>3. Appending(r) /\ pc[r] \in {"commit", "insert"}
  BY DEF Commit, AppendInsert, Appending
<1>4. \A e \in entries : e.tx # r
  BY <1>3 DEF BooksInv, RowsFit, EntryFits, Written, Late
<1>5. PICK d : d = EntryOf(r)
  OBVIOUS
<1>6. /\ entries' = entries \cup {d} /\ d.tx = r /\ d.at = at[r]
      /\ d.merchant = req[r].merchant /\ d.cust = who[r]
      /\ d.amount = amt[r] /\ d.after = base[r] + amt[r]
  BY <1>5 DEF Commit, Publish, AppendInsert, EntryOf
<1>7. UNCHANGED <<req, who, base, at, rivals, now>>
  BY DEF Commit, Publish, AppendInsert, locals, history
<1>8. PICK l \in {"markRead", "mark", "reread", "done"} : Goto(r, l)
  BY DEF Commit, AppendInsert, AfterPosting
<1>9. /\ pc'[r] = l /\ \A s \in Requests \ {r} : pc'[s] = pc[s]
      /\ ~Appending(r)' /\ \A s \in Requests \ {r} : Appending(s)' <=> Appending(s)
  BY <1>2, <1>8 DEF Goto, Appending
<1>10. \A c : Erased(c) => Erased(c)'
  BY <1>3, <1>7, <1>9 DEF Erased
<1>11. EntriesDated'
  BY <1>1, <1>3, <1>6, <1>7, <1>9 DEF EntriesDated
<1>12. RivalsKnown'
  <2>1. ASSUME NEW s \in Requests, NEW t \in Requests, s # t, Appending(s)', Appending(t)', SameBook(s, t)'
        PROVE  t \in rivals'[s]
    BY <1>1, <1>7, <1>9, <2>1 DEF RivalsKnown, SameBook
  <2>2. ASSUME NEW s \in Requests, Appending(s)', req[s].merchant = d.merchant, who[s] = d.cust
        PROVE  s \in rivals[r]
    BY <1>1, <1>3, <1>6, <1>9, <2>2 DEF RivalsKnown, SameBook
  <2>3. \A s \in Requests : Appending(s)' => Appending(s)
    BY <1>3, <1>9
  <2> QED BY <1>1, <1>6, <1>7, <2>1, <2>2, <2>3 DEF RivalsKnown
<1>13. AloneSees'
  <2>1. ASSUME NEW s \in Requests, Appending(s)', rivals'[s] = {}
        PROVE  \/ Erased(who[s])'
               \/ /\ base'[s] = AmountsOf(Book(req[s].merchant, who[s]))'
                  /\ \A e \in Book(req[s].merchant, who[s])' : e.at < at'[s]
    <3>1. s # r /\ Appending(s) /\ rivals[s] = {}
      BY <1>7, <1>9, <2>1
    <3>2. ~SameBook(s, r)
      BY <1>1, <1>3, <3>1 DEF RivalsKnown
    <3>3. PICK C : C = Book(req[s].merchant, who[s])
      OBVIOUS
    <3>4. Book(req[s].merchant, who[s])' = C
      BY <1>6, <1>7, <3>2, <3>3 DEF Book, SameBook
    <3>5. AmountsOf(Book(req[s].merchant, who[s]))' = AmountsOf(C)
      BY <3>4 DEF AmountsOf, MapThenSumSet, MapThenFoldSet
    <3>6. Erased(who[s]) \/ (base[s] = AmountsOf(C) /\ \A e \in C : e.at < at[s])
      BY <1>1, <3>1, <3>3 DEF AloneSees
    <3>7. Erased(who[s]) => Erased(who[s])'
      BY <1>7, <1>10 DEF Erased
    <3> QED BY <1>7, <3>4, <3>5, <3>6, <3>7
  <2> QED BY <1>2, <1>7, <2>1 DEF AloneSees
<1>14. AfterHolds'
  <2>1. ASSUME NEW e \in entries, ~Erased(e.cust)', rivals[e.tx] = {}
        PROVE  e.after = AmountsOf(Till(e))'
    <3>1. e.after = AmountsOf(Till(e))
      BY <1>1, <1>10, <2>1 DEF AfterHolds
    <3>2. d.merchant = e.merchant /\ d.cust = e.cust => d.at > e.at
      BY <1>1, <1>3, <1>6, <2>1 DEF RivalsKnown
    <3>3. Till(e)' = Till(e)
      BY <1>2, <1>6, <3>2 DEF Till, Book
    <3> QED BY <3>1, <3>3 DEF AmountsOf, MapThenSumSet, MapThenFoldSet
  <2>2. ASSUME ~Erased(d.cust)', rivals[r] = {}
        PROVE  d.after = AmountsOf(Till(d))'
    <3>1. PICK B : B = Book(req[r].merchant, who[r])
      OBVIOUS
    <3>2. base[r] = AmountsOf(B) /\ \A e \in B : e.at < at[r]
      BY <1>1, <1>3, <1>6, <1>10, <2>2, <3>1 DEF AloneSees
    <3>3. B \subseteq entries
      BY <3>1 DEF Book
    <3>4. Till(d)' = B \cup {d}
      BY <1>2, <1>6, <3>1, <3>2, <3>3 DEF Till, Book
    <3>5. IsFiniteSet(B) /\ InInt(B) /\ d \notin B /\ d.amount \in Int
      BY <1>2, <1>4, <1>6, <3>3, BooksAddUp
    <3>6. AmountsOf(B \cup {d}) = AmountsOf(B) + d.amount
      BY <3>5, AmountsAdd
    <3>7. AmountsOf(Till(d))' = AmountsOf(B \cup {d})
      BY <3>4 DEF AmountsOf, MapThenSumSet, MapThenFoldSet
    <3> QED BY <1>6, <3>2, <3>6, <3>7
  <2> QED BY <1>6, <1>7, <2>1, <2>2 DEF AfterHolds
<1> QED BY <1>11, <1>12, <1>13, <1>14 DEF BalancesInv

\* Nobody else's book loses entries to a deletion.
LEMMA DeleteLedgerKeepsBalances ==
    ASSUME BooksInv, BalancesInv, NEW r \in Requests, DeleteLedger(r)
    PROVE  BalancesInv'
<1>1. EntriesDated /\ RivalsKnown /\ AloneSees /\ AfterHolds
  BY DEF BalancesInv
<1>2. /\ pc \in [Requests -> Labels] /\ pc[r] = "delLedger" /\ req[r].op = "delete"
  BY DEF DeleteLedger, BooksInv, BooksTyped, InOrder, Ordered, Fits
<1>3. entries' = {e \in entries : e.cust # who[r]} /\ UNCHANGED <<req, who, base, at, rivals, now>>
  BY DEF DeleteLedger, locals
<1>4. pc'[r] = "delTransactions" /\ \A s \in Requests \ {r} : pc'[s] = pc[s]
  BY <1>2 DEF DeleteLedger, Goto
<1>5. \A s \in Requests : Appending(s)' <=> Appending(s)
  BY <1>2, <1>4 DEF Appending
<1>6. Erased(who[r])' /\ \A c : Erased(c) => Erased(c)'
  BY <1>2, <1>3, <1>4 DEF Erased
<1>7. \A m, c : c # who[r] => Book(m, c)' = Book(m, c)
  BY <1>3 DEF Book
<1>8. EntriesDated'
  BY <1>1, <1>3, <1>5 DEF EntriesDated
<1>9. RivalsKnown'
  BY <1>1, <1>3, <1>5 DEF RivalsKnown, SameBook
<1>10. AloneSees'
  <2>1. ASSUME NEW s \in Requests, Appending(s)', rivals'[s] = {}, ~Erased(who[s])'
        PROVE  /\ base'[s] = AmountsOf(Book(req[s].merchant, who[s]))'
               /\ \A e \in Book(req[s].merchant, who[s])' : e.at < at'[s]
    <3>1. who[s] # who[r] /\ ~Erased(who[s])
      BY <1>3, <1>6, <2>1 DEF Erased
    <3>2. PICK C : C = Book(req[s].merchant, who[s])
      OBVIOUS
    <3>3. Book(req[s].merchant, who[s])' = C
      BY <1>3, <3>1, <3>2 DEF Book
    <3>4. AmountsOf(Book(req[s].merchant, who[s]))' = AmountsOf(C)
      BY <3>3 DEF AmountsOf, MapThenSumSet, MapThenFoldSet
    <3>5. base[s] = AmountsOf(C) /\ \A e \in C : e.at < at[s]
      BY <1>1, <1>3, <1>5, <2>1, <3>1, <3>2 DEF AloneSees
    <3> QED BY <1>3, <3>3, <3>4, <3>5
  <2> QED BY <1>1, <1>3, <2>1 DEF AloneSees
<1>11. AfterHolds'
  <2>1. ASSUME NEW e \in entries', ~Erased(e.cust)', rivals'[e.tx] = {}
        PROVE  e.after = AmountsOf(Till(e))'
    <3>1. e \in entries /\ e.cust # who[r] /\ ~Erased(e.cust) /\ rivals[e.tx] = {}
      BY <1>3, <1>6, <2>1
    <3>2. Till(e)' = Till(e)
      BY <1>7, <3>1 DEF Till
    <3>3. AmountsOf(Till(e))' = AmountsOf(Till(e))
      BY <3>2 DEF AmountsOf, MapThenSumSet, MapThenFoldSet
    <3> QED BY <1>1, <3>1, <3>3 DEF AfterHolds
  <2> QED BY <2>1 DEF AfterHolds
<1> QED BY <1>8, <1>9, <1>10, <1>11 DEF BalancesInv

\* A step leaves every book alone, or reads one, or writes one.
LEMMA NextIsAside ==
    ASSUME BooksInv, [Next]_vars
    PROVE  \/ Aside
           \/ \E r \in Requests : AppendRead(r) \/ (Open(r) /\ ~Refuse(r))
           \/ \E r \in Requests : Commit(r) \/ AppendInsert(r) \/ DeleteLedger(r)
<1>1. CASE UNCHANGED vars
  BY <1>1 DEF vars, collections, locals, history, Aside, Appending, Erased, BooksInv, BooksTyped
<1>2. ASSUME NEW r \in Requests, Start(r)
      PROVE  Aside
  BY <1>2, StartIsAside
<1>3. ASSUME NEW r \in Requests,
             \/ Fail(r) \/ FindMembership(r) \/ FindUser(r)
             \/ DeleteTransactions(r) \/ DeleteCustomer(r) \/ DeleteUser(r)
      PROVE  Aside
  BY <1>3, OthersAreAside
<1>4. ASSUME NEW r \in Requests, Check(r) \/ (Open(r) /\ Refuse(r)) \/ MarkRead(r) \/ Mark(r) \/ SimulateFind(r)
      PROVE  Aside
  BY <1>4, ScansAreAside
<1>5. ASSUME NEW r \in Requests, OperatorStep(r) \/ CheckBalance(r) \/ SaveTransaction(r)
      PROVE  Aside
  BY <1>5, OperatorsAreAside DEF OperatorStep
<1>6. ASSUME NEW r \in Requests,
             \/ Enrol(r) \/ SimulateResolve(r) \/ ResolvePlace(r) \/ SwitchMembership(r)
             \/ DeleteAccounts(r) \/ ReadPage(r)
      PROVE  Aside
  BY <1>6, RestAreAside
<1> QED BY <1>1, <1>2, <1>3, <1>4, <1>5, <1>6 DEF Next, Step, PostStep, SimulateStep, AdjustStep, DeleteStep

LEMMA NextKeepsBalances ==
    ASSUME BooksInv, BooksInv', IsFiniteSet(entries), BalancesInv, [Next]_vars
    PROVE  BalancesInv'
<1>1. CASE Aside
  BY <1>1, AsideKeeps DEF BooksInv, BooksTyped
<1>2. ASSUME NEW r \in Requests, AppendRead(r) \/ (Open(r) /\ ~Refuse(r))
      PROVE  BalancesInv'
  BY <1>2, ReadKeepsBalances DEF AppendRead, Open
<1>3. ASSUME NEW r \in Requests, Commit(r) \/ AppendInsert(r)
      PROVE  BalancesInv'
  BY <1>3, AppendKeepsBalances
<1>4. ASSUME NEW r \in Requests, DeleteLedger(r)
      PROVE  BalancesInv'
  BY <1>4, DeleteLedgerKeepsBalances
<1> QED BY <1>1, <1>2, <1>3, <1>4, NextIsAside

LEMMA BalancesAtFirst ==
    ASSUME Init
    PROVE  BalancesInv
<1>1. /\ entries = {} /\ \A r \in Requests : ~Appending(r)
      /\ base \in [Requests -> Int] /\ rivals \in [Requests -> SUBSET Requests]
  BY DEF Init, Appending
<1> QED BY <1>1 DEF BalancesInv, EntriesDated, RivalsKnown, AloneSees, AfterHolds

\* The balance an entry is stored with is what the book amounts to at the entry,
\* and stays so whatever is written later, unless another request was between
\* its read of the book and its append to it at the same time.
THEOREM BalanceAfterHolds == Spec => []BalanceAfterUnlessRaced
<1>1. Init => BalancesInv
  BY BalancesAtFirst
<1>2. BooksInv /\ BooksInv' /\ SteadyInv /\ BalancesInv /\ [Next]_vars => BalancesInv'
  BY NextKeepsBalances DEF SteadyInv, PagesHold
<1>3. BalancesInv => BalanceAfterUnlessRaced
  <2> SUFFICES ASSUME BalancesInv, NEW e \in entries, ~Erased(e.cust), rivals[e.tx] = {}
               PROVE  e.after = MapThenSumSet(LAMBDA f : f.amount,
                                   {f \in Book(e.merchant, e.cust) : f.at <= e.at})
    BY DEF BalanceAfterUnlessRaced
  <2>1. e.after = AmountsOf(Till(e))
    BY DEF BalancesInv, AfterHolds
  <2> QED BY <2>1 DEF AmountsOf, Till, MapThenSumSet, MapThenFoldSet
<1>4. Init => SteadyInv
  BY SteadyAtFirst
<1>5. BooksInv /\ SteadyInv /\ [Next]_vars => SteadyInv'
  BY NextKeepsSteady
<1> QED BY <1>1, <1>2, <1>3, <1>4, <1>5, BooksInvariance, PTL DEF Spec

-----------------------------------------------------------------------------
(* Days.  The row of a day is made of the transactions of the day; new      *)
(* metadata changes none of what it shows, and a transaction is dated today *)
(* or, in a session, on the day the session began.                          *)

\* A row that is made of the transactions T.
RowOf(T) ==
    [earn |-> Cardinality(Issues(T)), redeem |-> Cardinality(Redeems(T)),
     customers |-> Cardinality(CustomersIn(T)),
     issued |-> AmountsOf(Issues(T)), redeemed |-> Abs(AmountsOf(Redeems(T)))]

DayOf(m, d) == {t \in transactions : t.merchant = m /\ Day(t.at) = d}

LEMMA RowOfDay ==
    ASSUME NEW m, NEW d
    PROVE  DayRow({m}, d) = RowOf(DayOf(m, d)) /\ DayRow({m}, d)' = RowOf(DayOf(m, d)')
<1>1. {t \in At({m}) : Day(t.at) = d} = DayOf(m, d)
  BY DEF At, DayOf
<1>2. {t \in At({m}) : Day(t.at) = d}' = DayOf(m, d)'
  BY DEF At, DayOf
<1>3. DayRow({m}, d) = RowOf(DayOf(m, d))
  BY <1>1 DEF DayRow, RowOf, Total, AmountsOf, Issues, Redeems, CustomersIn, MapThenSumSet, MapThenFoldSet
<1>4. DayRow({m}, d)' = RowOf(DayOf(m, d)')
  BY <1>2 DEF DayRow, RowOf, Total, AmountsOf, Issues, Redeems, CustomersIn, MapThenSumSet, MapThenFoldSet
<1> QED BY <1>3, <1>4

\* Who a row is about does not depend on the metadata.
LEMMA SameRowOf ==
    ASSUME NEW S, IsFiniteSet(S), InInt(S), NEW h, \A t \in S : SameRow(h[t], t),
           \A t, u \in S : t.id = u.id => t = u
    PROVE  RowOf({h[t] : t \in S}) = RowOf(S)
<1> DEFINE Image(U) == {h[t] : t \in U}
<1>1. \A t \in S : h[t].amount = t.amount /\ h[t].type = t.type /\ h[t].cust = t.cust
  BY DEF SameRow
<1>2. \A t, u \in S : h[t] = h[u] => t = u
  BY DEF SameRow
<1>3. ASSUME NEW U \in SUBSET S
      PROVE  Cardinality(Image(U)) = Cardinality(U) /\ AmountsOf(Image(U)) = AmountsOf(U)
  <2>1. IsFiniteSet(U) /\ InInt(U)
    BY FS_Subset DEF InInt
  <2>2. AmountsOf(Image(U)) = AmountsOf(U)
    BY <1>1, <1>2, <2>1, AmountsSame
  <2>3. [t \in U |-> h[t]] \in Bijection(U, Image(U))
    BY <1>2 DEF Bijection, Injection, Surjection, IsInjective
  <2>4. ExistsBijection(U, Image(U))
    BY <2>3 DEF ExistsBijection
  <2> QED BY <2>1, <2>2, <2>4, FS_Bijection
<1>4. Issues(Image(S)) = Image(Issues(S)) /\ Redeems(Image(S)) = Image(Redeems(S))
  BY <1>1 DEF Issues, Redeems
<1>5. CustomersIn(Image(S)) = CustomersIn(S)
  BY <1>1 DEF CustomersIn
<1>6. Issues(S) \in SUBSET S /\ Redeems(S) \in SUBSET S
  BY DEF Issues, Redeems
<1> QED BY <1>3, <1>4, <1>5, <1>6 DEF RowOf

\* The steps that write transactions.
LEMMA RowsChange ==
    ASSUME [Next]_vars
    PROVE  \/ UNCHANGED transactions
           \/ \E r \in Requests : Commit(r) \/ Mark(r) \/ NoteReversal(r) \/ SaveTransaction(r)
                                     \/ DeleteTransactions(r)
<1>1. CASE UNCHANGED vars
  BY <1>1 DEF vars, collections
<1>2. ASSUME NEW r \in Requests, Start(r) \/ Fail(r) \/ FindMembership(r) \/ SwitchMembership(r) \/ ReadPage(r)
      PROVE  UNCHANGED transactions
  BY <1>2 DEF Start, Fail, Refuse, FindMembership, SwitchMembership, ReadPage, collections
<1>3. ASSUME NEW r \in Requests, Enrol(r) \/ Check(r) \/ Open(r) \/ MarkRead(r) \/ SimulateStep(r)
      PROVE  UNCHANGED transactions
  BY <1>3 DEF Enrol, Check, Open, ReadBook, MarkRead, SimulateStep, SimulateResolve, SimulateFind, Refuse, collections
<1>4. ASSUME NEW r \in Requests,
             \/ FindTransaction(r) \/ FindAccount(r) \/ Reread(r)
             \/ ResolvePlace(r) \/ CheckBalance(r) \/ AppendRead(r) \/ AppendInsert(r)
      PROVE  UNCHANGED transactions
  BY <1>4 DEF FindTransaction, FindAccount, Reread, ResolvePlace, CheckBalance, AppendRead, AppendInsert,
     ReadBook, Refuse, collections
<1>5. ASSUME NEW r \in Requests,
             FindUser(r) \/ DeleteLedger(r) \/ DeleteAccounts(r) \/ DeleteCustomer(r) \/ DeleteUser(r)
      PROVE  UNCHANGED transactions
  BY <1>5 DEF FindUser, DeleteLedger, DeleteAccounts, DeleteCustomer, DeleteUser, collections
<1> QED BY <1>1, <1>2, <1>3, <1>4, <1>5 DEF Next, Step, PostStep, OperatorStep, AdjustStep, DeleteStep

\* New metadata is put on each transaction, and nothing else.
LEMMA MetadataOnly ==
    ASSUME BooksInv, NEW r \in Requests, Mark(r) \/ NoteReversal(r)
    PROVE  \E h : /\ transactions' = {h[t] : t \in transactions}
                  /\ \A t \in transactions : SameRow(h[t], t) /\ h[t].at = t.at
<1>0. transactions \subseteq TransactionDoc
  BY DEF BooksInv, BooksTyped
<1>1. CASE Mark(r)
  <2> DEFINE g == [t \in transactions |->
          IF amt[r] > 0 /\ t \in Posted(r)
             THEN [t EXCEPT !.scan = IF req[r].op = "post" THEN req[r].reward ELSE "points",
                            !.reversal = NoOne]
           ELSE IF amt[r] < 0 /\ t.id = copy[r].id
             THEN [t EXCEPT !.scan = "points", !.reversal = copy[r].reversal]
           ELSE t]
  <2>1. transactions' = {g[t] : t \in transactions}
    BY <1>1 DEF Mark
  <2>2. ASSUME NEW t \in transactions
        PROVE  SameRow(g[t], t) /\ g[t].at = t.at
    BY <1>0 DEF SameRow, TransactionDoc
  <2> QED BY <2>1, <2>2
<1>2. CASE NoteReversal(r)
  <2> DEFINE g == [t \in transactions |->
          IF t.id = copy[r].id THEN [t EXCEPT !.reversal = r, !.scan = copy[r].scan] ELSE t]
  <2>1. transactions' = {g[t] : t \in transactions}
    BY <1>2 DEF NoteReversal
  <2>2. ASSUME NEW t \in transactions
        PROVE  SameRow(g[t], t) /\ g[t].at = t.at
    BY <1>0 DEF SameRow, TransactionDoc
  <2> QED BY <2>1, <2>2
<1> QED BY <1>1, <1>2

RowsFinite == IsFiniteSet(transactions)

LEMMA RowsStayFinite ==
    ASSUME BooksInv, IsFiniteSet(transactions), [Next]_vars
    PROVE  IsFiniteSet(transactions')
<1>1. ASSUME NEW r \in Requests, Commit(r) \/ SaveTransaction(r)
      PROVE  IsFiniteSet(transactions')
  BY <1>1, FS_AddElement DEF Commit, Publish, SaveTransaction
<1>2. ASSUME NEW r \in Requests, DeleteTransactions(r)
      PROVE  IsFiniteSet(transactions')
  <2>1. transactions' \subseteq transactions
    BY <1>2 DEF DeleteTransactions
  <2> QED BY <2>1, FS_Subset
<1>3. ASSUME NEW r \in Requests, Mark(r) \/ NoteReversal(r)
      PROVE  IsFiniteSet(transactions')
  <2>1. PICK h : transactions' = {h[t] : t \in transactions}
    BY <1>3, MetadataOnly
  <2>2. [t \in transactions |-> h[t]] \in Surjection(transactions, transactions')
    BY <2>1 DEF Surjection
  <2> QED BY <2>2, FS_Surjection
<1> QED BY <1>1, <1>2, <1>3, RowsChange

\* A transaction is dated today, or when its session began.
LEMMA DatedToday ==
    ASSUME BooksInv, NEW r \in Requests, NEW m, NEW d \in Day(0) .. (Today - 1),
           SaveTransaction(r) \/ (Commit(r) /\ Day(at[r]) # d)
    PROVE  DayOf(m, d)' = DayOf(m, d)
<1>1. transactions' = transactions \cup {TransactionOf(r)}
  BY DEF Commit, Publish, SaveTransaction
<1>2. req[r].op = "adjust" <=> SaveTransaction(r)
  BY DEF BooksInv, InOrder, Ordered, Fits, SaveTransaction, Commit, Posts
<1>3. d # Day(now)
  BY DEF Today
<1>4. Day(TransactionOf(r).at) # d
  BY <1>2, <1>3 DEF TransactionOf
<1> QED BY <1>1, <1>4 DEF DayOf

\* A day that is over keeps its row in every report, whatever day it is read,
\* unless its customer is deleted or a session that began on the day commits late.
THEOREM DaysStay == Spec => ClosedDaysStay
<1>1. ASSUME BooksInv, IsFiniteSet(transactions), [Next]_vars,
             NEW m \in Merchants, NEW d \in Day(0) .. (Today - 1)
      PROVE  \/ DayRow({m}, d)' = DayRow({m}, d)
             \/ \E r \in Requests :
                   /\ pc[r] # pc'[r]
                   /\ \/ pc[r] = "delTransactions"
                      \/ pc[r] = "commit" /\ Day(at[r]) = d
  <2>0. DayRow({m}, d)' = RowOf(DayOf(m, d)') /\ DayRow({m}, d) = RowOf(DayOf(m, d))
    BY RowOfDay
  <2>1. CASE UNCHANGED transactions
    <3>1. DayOf(m, d)' = DayOf(m, d)
      BY <2>1 DEF DayOf
    <3> QED BY <2>0, <3>1
  <2>2. ASSUME NEW r \in Requests, Mark(r) \/ NoteReversal(r)
        PROVE  DayRow({m}, d)' = DayRow({m}, d)
    <3>1. PICK h : /\ transactions' = {h[t] : t \in transactions}
                   /\ \A t \in transactions : SameRow(h[t], t) /\ h[t].at = t.at
      BY <1>1, <2>2, MetadataOnly
    <3>2. DayOf(m, d)' = {h[t] : t \in DayOf(m, d)}
      BY <3>1 DEF DayOf, SameRow
    <3>3. DayOf(m, d) \subseteq transactions
      BY DEF DayOf
    <3>4. IsFiniteSet(DayOf(m, d)) /\ InInt(DayOf(m, d))
      BY <1>1, <3>3, FS_Subset DEF InInt, BooksInv, BooksTyped, TransactionDoc
    <3>5. \A t, u \in DayOf(m, d) : t.id = u.id => t = u
      BY <1>1, <3>3 DEF BooksInv, RowsFit
    <3>6. RowOf(DayOf(m, d)') = RowOf(DayOf(m, d))
      BY <3>1, <3>2, <3>3, <3>4, <3>5, SameRowOf
    <3> QED BY <2>0, <3>6
  <2>3. ASSUME NEW r \in Requests, SaveTransaction(r) \/ (Commit(r) /\ Day(at[r]) # d)
        PROVE  DayRow({m}, d)' = DayRow({m}, d)
    BY <1>1, <2>0, <2>3, DatedToday
  <2>4. ASSUME NEW r \in Requests, (Commit(r) /\ Day(at[r]) = d) \/ DeleteTransactions(r)
        PROVE  /\ pc[r] # pc'[r]
               /\ pc[r] = "delTransactions" \/ (pc[r] = "commit" /\ Day(at[r]) = d)
    BY <1>1, <2>4 DEF Commit, DeleteTransactions, Goto, AfterPosting, BooksInv, BooksTyped
  <2> QED BY <1>1, <2>1, <2>2, <2>3, <2>4, RowsChange
<1>2. BooksInv /\ RowsFinite /\ [Next]_vars =>
         [\A m \in Merchants : \A d \in Day(0) .. (Today - 1) :
            \/ DayRow({m}, d)' = DayRow({m}, d)
            \/ \E r \in Requests :
                  /\ pc[r] # pc'[r]
                  /\ \/ pc[r] = "delTransactions"
                     \/ pc[r] = "commit" /\ Day(at[r]) = d]_vars
  BY <1>1 DEF RowsFinite
<1>3. Init => RowsFinite
  BY FS_EmptySet DEF Init, RowsFinite
<1>4. BooksInv /\ RowsFinite /\ [Next]_vars => RowsFinite'
  BY RowsStayFinite DEF RowsFinite
<1> QED BY <1>2, <1>3, <1>4, BooksInvariance, PTL DEF Spec, ClosedDaysStay

-----------------------------------------------------------------------------
(* Cards.  A card is computed from transactions and redemptions, a balance  *)
(* from entries.  Some entries of a book are held as stamps: the purchases  *)
(* that gave or are to give them and the redemptions that took them.  While *)
(* nobody debits a book but by redemptions that ran alone, what is free in  *)
(* it, and all of it, are never less than nothing: a redemption of points   *)
(* was checked against the first, every redemption against the second.      *)

\* Labels of a request that has written all it will ever write of entries.
Settled == {"reread", "note", "markRead", "mark", "done", "failed"}

\* Labels of a writer that has found the account of its customer.
Inside == {"check", "open", "commit", "balance", "save", "append", "insert"}

\* A redemption says what its request says, and is in the ledger.
RedemptionsFit ==
    /\ IsFiniteSet(redemptions)
    /\ \A d \in redemptions :
          /\ d = [id |-> d.id, merchant |-> req[d.id].merchant, cust |-> who[d.id],
                  amount |-> -amt[d.id], reward |-> req[d.id].reward]
          /\ d.id \in Requests /\ req[d.id].op \in Posts /\ amt[d.id] < 0 /\ pc[d.id] \in Settled
          /\ Erased(who[d.id]) \/ HasEntry(d.id)

EntriesDiffer == \A e, f \in entries : e.tx = f.tx => e = f

\* Only scans give stamps, and what is issued is positive.
Signed(d) ==
    (d.scan \in StampRewards => req[d.id].op # "adjust") /\ (d.type = "ISSUE" => d.amount > 0)
StampsFit ==
    /\ \A t \in transactions : Signed(t)
    /\ \A r \in Requests : HoldsCopy(r) => Signed(copy[r])

\* A reversal posts the opposite of the transaction it has read.
ReversalsFit ==
    \A r \in Requests : req[r].op = "reverse" /\ pc[r] # "idle" =>
        /\ copy[r].merchant = req[r].merchant
        /\ pc[r] \notin {"findTx", "failed"} => amt[r] = -copy[r].amount

HasAccount(m, c) == AccountsOf(m, c) # {}

Enrolled ==
    /\ \A e \in entries : Erased(e.cust) \/ HasAccount(e.merchant, e.cust)
    /\ \A r \in Requests : pc[r] \in Inside => Erased(who[r]) \/ HasAccount(req[r].merchant, who[r])

\* A debit that is no redemption, or a redemption beside another scan.
Spent(m, c) == \E e \in Book(m, c) : Debit(e) \/ e.tx \in beside

\* A purchase that was scanned once, and gave stamps or is to be marked so.
Counted(t) ==
    /\ t.type = "ISSUE" /\ ~Repeated(t)
    /\ \/ t.scan \in StampRewards
       \/ MarkPending(t) /\ req[t.id].op = "post" /\ req[t.id].reward \in StampRewards

HeldAsStamps(e) ==
    \/ e.amount < 0 /\ req[e.tx].op \in Posts /\ req[e.tx].reward \in StampRewards
    \/ \E t \in transactions : t.id = e.tx /\ Counted(t)

Free(m, c) == {e \in Book(m, c) : ~HeldAsStamps(e)}

BesideKnown == Crowded \subseteq beside

\* What a redemption that runs alone was checked for is there until it commits.
Approved ==
    \A r \in Requests :
        req[r].op \in Posts /\ amt[r] < 0 /\ r \notin beside /\ pc[r] \in {"open", "commit"} =>
            \/ Erased(who[r]) \/ Spent(req[r].merchant, who[r])
            \/ /\ req[r].reward \notin StampRewards =>
                     AmountsOf(Free(req[r].merchant, who[r])) + amt[r] >= 0
               /\ pc[r] = "commit" => AmountsOf(Book(req[r].merchant, who[r])) + amt[r] >= 0

Sound ==
    \A m, c : Erased(c) \/ Spent(m, c)
               \/ (AmountsOf(Book(m, c)) >= 0 /\ AmountsOf(Free(m, c)) >= 0)

CardsInv ==
    /\ RedemptionsFit /\ EntriesDiffer /\ StampsFit /\ ReversalsFit /\ Enrolled
    /\ BesideKnown /\ Approved /\ Sound

\* What every step has in common here: r alone moves, a request that has
\* written keeps to what it wrote, and one that is to write finds an account.
Along(r) ==
    /\ \A s \in Requests \ {r} :
          pc'[s] = pc[s] /\ req'[s] = req[s] /\ who'[s] = who[s] /\ amt'[s] = amt[s]
    /\ pc[r] # "idle" =>
          /\ req'[r] = req[r] /\ pc'[r] \notin {"idle", "user"}
          /\ req[r].op # "reverse" => amt'[r] = amt[r]
    /\ pc[r] \notin Unknown => who'[r] = who[r] /\ amt'[r] = amt[r]
    /\ pc[r] \in Settled => pc'[r] \in Settled
    /\ pc[r] \in Settled \ {"markRead", "mark"} => pc'[r] \notin {"markRead", "mark"}
    /\ pc'[r] \in {"open", "commit"} => req[r].op \notin Posts \/ Check(r) \/ Open(r)
    /\ pc'[r] \in Inside =>
          /\ pc[r] \notin Unknown
          /\ \/ pc[r] \in Inside \/ HasAccount(req[r].merchant, who[r])
             \/ \E a \in accounts' : a.merchant = req[r].merchant /\ a.cust = who[r]

LEMMA GotoIsAlong ==
    ASSUME BooksInv, NEW r \in Requests, NEW l, Goto(r, l), UNCHANGED <<req, who, amt>>,
           pc[r] # "idle", l \notin {"idle", "user"}, pc[r] \in Settled => l \in Settled,
           pc[r] \in Settled \ {"markRead", "mark"} => l \notin {"markRead", "mark"},
           l \in {"open", "commit"} => req[r].op \notin Posts \/ Check(r) \/ Open(r),
           l \in Inside => pc[r] \notin Unknown /\ (pc[r] \in Inside \/ HasAccount(req[r].merchant, who[r]))
    PROVE  Along(r)
BY DEF Goto, Along, BooksInv, BooksTyped

LEMMA RefuseIsAlong ==
    ASSUME BooksInv, NEW r \in Requests, pc[r] \notin Resting, Refuse(r)
    PROVE  Along(r)
BY GotoIsAlong DEF Refuse, collections, locals, history, Resting, Settled, Inside

LEMMA ScansAreAlong ==
    ASSUME BooksInv, NEW r \in Requests,
           Check(r) \/ Open(r) \/ Commit(r) \/ MarkRead(r) \/ Mark(r) \/ SimulateFind(r)
    PROVE  Along(r)
<1>1. CASE Check(r)
  BY <1>1, GotoIsAlong, RefuseIsAlong
  DEF Check, AfterPosting, Resting, Unknown, Settled, Inside, collections, locals, history
<1>2. CASE Open(r)
  BY <1>2, GotoIsAlong, RefuseIsAlong DEF Open, ReadBook, Resting, Unknown, Settled, Inside
<1>3. CASE Commit(r)
  BY <1>3, GotoIsAlong DEF Commit, AfterPosting, Settled, Inside, locals
<1>4. CASE MarkRead(r)
  BY <1>4, GotoIsAlong DEF MarkRead, Settled, Inside, collections, history
<1>5. CASE Mark(r)
  BY <1>5, GotoIsAlong DEF Mark, Settled, Inside, locals, history
<1>6. CASE SimulateFind(r)
  BY <1>6, GotoIsAlong, RefuseIsAlong
  DEF SimulateFind, HasAccount, Resting, Unknown, Settled, Inside, collections, locals, history
<1> QED BY <1>1, <1>2, <1>3, <1>4, <1>5, <1>6

LEMMA AdjustmentsAreAlong ==
    ASSUME BooksInv, NEW r \in Requests,
           \/ FindAccount(r) \/ Reread(r) \/ NoteReversal(r)
           \/ CheckBalance(r) \/ SaveTransaction(r) \/ AppendRead(r) \/ AppendInsert(r)
    PROVE  Along(r)
<1>1. CASE FindAccount(r)
  <2>1. req[r].op \notin Posts
    BY <1>1 DEF FindAccount, BooksInv, InOrder, Ordered, Fits, Posts
  <2> QED BY <1>1, <2>1, GotoIsAlong, RefuseIsAlong
      DEF FindAccount, HasAccount, Resting, Unknown, Settled, Inside, collections, locals, history
<1>2. CASE Reread(r)
  BY <1>2, GotoIsAlong DEF Reread, Settled, Inside, collections, locals, history
<1>3. CASE NoteReversal(r)
  BY <1>3, GotoIsAlong DEF NoteReversal, Settled, Inside, locals, history
<1>4. CASE CheckBalance(r)
  BY <1>4, GotoIsAlong, RefuseIsAlong
  DEF CheckBalance, Resting, Unknown, Settled, Inside, collections, locals, history
<1>5. CASE SaveTransaction(r)
  BY <1>5, GotoIsAlong DEF SaveTransaction, Unknown, Settled, Inside, locals, history
<1>6. CASE AppendRead(r)
  BY <1>6, GotoIsAlong DEF AppendRead, ReadBook, Unknown, Settled, Inside
<1>7. CASE AppendInsert(r)
  BY <1>7, GotoIsAlong DEF AppendInsert, Settled, Inside, locals, history
<1> QED BY <1>1, <1>2, <1>3, <1>4, <1>5, <1>6, <1>7

LEMMA OthersAreAlong ==
    ASSUME BooksInv, NEW r \in Requests,
           \/ Fail(r) \/ FindMembership(r) \/ SwitchMembership(r) \/ ReadPage(r) \/ DeleteStep(r)
    PROVE  Along(r)
<1>1. CASE Fail(r)
  BY <1>1, RefuseIsAlong DEF Fail
<1>2. CASE FindMembership(r)
  BY <1>2, GotoIsAlong, RefuseIsAlong
  DEF FindMembership, Resting, Settled, Inside, collections, locals, history
<1>3. CASE SwitchMembership(r)
  BY <1>3, GotoIsAlong DEF SwitchMembership, Settled, Inside, locals, history
<1>4. CASE ReadPage(r)
  BY <1>4 DEF ReadPage, Goto, Along, Settled, Inside, Unknown, BooksInv, BooksTyped, collections
<1>5. CASE FindUser(r) \/ DeleteLedger(r) \/ DeleteTransactions(r)
  BY <1>5, GotoIsAlong DEF FindUser, DeleteLedger, DeleteTransactions, Settled, Inside, collections, locals, history
<1>6. CASE DeleteAccounts(r) \/ DeleteCustomer(r) \/ DeleteUser(r)
  BY <1>6, GotoIsAlong DEF DeleteAccounts, DeleteCustomer, DeleteUser, Settled, Inside, locals, history
<1> QED BY <1>1, <1>2, <1>3, <1>4, <1>5, <1>6 DEF DeleteStep

\* Steps that find out about the customer.
LEMMA FindersAreAlong ==
    ASSUME BooksInv, NEW r \in Requests,
           Start(r) \/ SimulateResolve(r) \/ ResolvePlace(r) \/ FindTransaction(r)
    PROVE  Along(r)
<1>0. /\ pc \in [Requests -> Labels] /\ who \in [Requests -> Customers \cup {NoOne}]
      /\ req \in [Requests -> Intents] /\ amt \in [Requests -> Int]
  BY DEF BooksInv, BooksTyped
<1>1. CASE Start(r)
  <2>1. PICK i \in Intents : /\ req' = [req EXCEPT ![r] = i] /\ Goto(r, Entrance(i.op))
                             /\ amt' = [amt EXCEPT ![r] = i.amount]
    BY <1>1 DEF Start
  <2>2. pc[r] = "idle" /\ \A s \in Requests \ {r} : who'[s] = who[s]
    BY <1>0, <1>1 DEF Start
  <2>3. pc'[r] \notin Inside
    <3>1. pc'[r] = Entrance(i.op) /\ i.op \in Ops
      BY <1>0, <2>1, BookIntentsAssumption DEF Goto, Intent
    <3> QED BY <3>1 DEF Entrance, Ops, Writers, Posts, Inside
  <2> QED BY <1>0, <2>1, <2>2, <2>3 DEF Along, Goto, Unknown, Settled, Inside
<1>2. CASE SimulateResolve(r)
  <2>1. CASE Refuse(r)
    BY <1>2, <2>1, RefuseIsAlong DEF SimulateResolve, Resting
  <2>2. CASE ~Refuse(r)
    BY <1>0, <1>2, <2>2 DEF SimulateResolve, Along, Goto, Unknown, Settled, Inside, collections, history
  <2> QED BY <2>1, <2>2
<1>3. CASE ResolvePlace(r)
  <2>1. CASE Refuse(r)
    BY <1>3, <2>1, RefuseIsAlong DEF ResolvePlace, Resting
  <2>2. CASE ~Refuse(r)
    BY <1>0, <1>3, <2>2 DEF ResolvePlace, Along, Goto, Unknown, Settled, Inside, collections, history
  <2> QED BY <2>1, <2>2
<1>4. CASE FindTransaction(r)
  <2>1. CASE Refuse(r)
    BY <1>4, <2>1, RefuseIsAlong DEF FindTransaction, Resting
  <2>2. CASE ~Refuse(r)
    <3>1. pc[r] = "findTx" /\ req[r].op = "reverse"
      BY <1>4 DEF FindTransaction, BooksInv, InOrder, Ordered, Fits
    <3>2. /\ Goto(r, "account") /\ UNCHANGED req
          /\ \E t \in transactions : /\ who' = [who EXCEPT ![r] = t.cust]
                                    /\ amt' = [amt EXCEPT ![r] = -t.amount]
      BY <1>4, <2>2 DEF FindTransaction
    <3> QED BY <1>0, <3>1, <3>2 DEF Along, Goto, Unknown, Settled, Inside
  <2> QED BY <2>1, <2>2
<1> QED BY <1>1, <1>2, <1>3, <1>4

LEMMA EnrolIsAlong ==
    ASSUME BooksInv, NEW r \in Requests, Enrol(r)
    PROVE  Along(r)
<1>1. CASE Refuse(r)
  BY <1>1, RefuseIsAlong DEF Enrol, Resting
<1>2. CASE ~Refuse(r)
  <2>1. pc[r] = "enrol" /\ Goto(r, "check") /\ UNCHANGED <<req, who, amt>>
    BY <1>2 DEF Enrol, collections, locals
  <2>2. \/ HasAccount(req[r].merchant, who[r])
        \/ \E a \in accounts' : a.merchant = req[r].merchant /\ a.cust = who[r]
    <3>1. CASE \E a \in AccountsOf(req[r].merchant, who[r]) : a.status = "ACTIVE"
      BY <3>1 DEF HasAccount
    <3>2. CASE accounts' = accounts \cup {[merchant |-> req[r].merchant, cust |-> who[r],
                                          status |-> "ACTIVE", at |-> now]}
      <4>1. PICK a : a = [merchant |-> req[r].merchant, cust |-> who[r], status |-> "ACTIVE", at |-> now]
        OBVIOUS
      <4>2. a \in accounts' /\ a.merchant = req[r].merchant /\ a.cust = who[r]
        BY <3>2, <4>1
      <4> QED BY <4>2
    <3> QED BY <1>2, <3>1, <3>2 DEF Enrol
  <2> QED BY <2>1, <2>2 DEF Along, Goto, Unknown, Settled, BooksInv, BooksTyped
<1> QED BY <1>1, <1>2

LEMMA NextIsAlong ==
    ASSUME BooksInv, [Next]_vars
    PROVE  UNCHANGED vars \/ \E r \in Requests : Along(r)
BY ScansAreAlong, AdjustmentsAreAlong, OthersAreAlong, FindersAreAlong, EnrolIsAlong
DEF Next, Step, PostStep, SimulateStep, OperatorStep, AdjustStep

\* Who is being erased stays so.
LEMMA ErasedForGood ==
    ASSUME BooksInv, [Next]_vars, NEW c, Erased(c)
    PROVE  Erased(c)'
<1>1. CASE UNCHANGED vars
  BY <1>1 DEF vars, locals, Erased
<1>2. ASSUME NEW r \in Requests, Along(r)
      PROVE  Erased(c)'
  <2>1. PICK s \in Requests : req[s].op = "delete" /\ who[s] = c /\ pc[s] \notin {"idle", "user"}
    BY DEF Erased
  <2>2. pc[s] \notin Unknown
    BY <2>1 DEF BooksInv, InOrder, Ordered, Fits, Unknown
  <2>3. req'[s] = req[s] /\ who'[s] = who[s] /\ pc'[s] \notin {"idle", "user"}
    BY <1>2, <2>1, <2>2 DEF Along
  <2> QED BY <2>1, <2>3 DEF Erased
<1> QED BY <1>1, <1>2, NextIsAlong

\* A request that has written keeps to what it wrote.
LEMMA SettledStays ==
    ASSUME BooksInv, [Next]_vars, NEW s \in Requests, pc[s] \in Settled, pc[s] \notin Unknown
    PROVE  pc'[s] \in Settled /\ req'[s] = req[s] /\ who'[s] = who[s] /\ amt'[s] = amt[s]
<1>1. CASE UNCHANGED vars
  BY <1>1 DEF vars, locals
<1>2. ASSUME NEW r \in Requests, Along(r)
      PROVE  pc'[s] \in Settled /\ req'[s] = req[s] /\ who'[s] = who[s] /\ amt'[s] = amt[s]
  BY <1>2 DEF Along, Settled
<1> QED BY <1>1, <1>2, NextIsAlong

\* Who writes a book, and redemptions.
LEMMA BooksChange ==
    ASSUME [Next]_vars
    PROVE  \/ UNCHANGED <<entries, redemptions>>
           \/ \E r \in Requests : Commit(r) \/ AppendInsert(r) \/ DeleteLedger(r)
<1>1. CASE UNCHANGED vars
  BY <1>1 DEF vars, collections
<1>2. ASSUME NEW r \in Requests, Start(r) \/ Fail(r) \/ FindMembership(r) \/ SwitchMembership(r) \/ ReadPage(r)
      PROVE  UNCHANGED <<entries, redemptions>>
  BY <1>2 DEF Start, Fail, Refuse, FindMembership, SwitchMembership, ReadPage, collections
<1>3. ASSUME NEW r \in Requests, Enrol(r) \/ Check(r) \/ Open(r) \/ MarkRead(r) \/ Mark(r) \/ SimulateStep(r)
      PROVE  UNCHANGED <<entries, redemptions>>
  BY <1>3
  DEF Enrol, Check, Open, ReadBook, MarkRead, Mark, SimulateStep, SimulateResolve, SimulateFind, Refuse, collections
<1>4. ASSUME NEW r \in Requests,
             \/ OperatorStep(r) \/ ResolvePlace(r) \/ CheckBalance(r) \/ SaveTransaction(r) \/ AppendRead(r)
      PROVE  UNCHANGED <<entries, redemptions>>
  BY <1>4 DEF OperatorStep, FindTransaction, FindAccount, Reread, NoteReversal, ResolvePlace, CheckBalance,
     SaveTransaction, AppendRead, ReadBook, Refuse, collections
<1>5. ASSUME NEW r \in Requests,
             FindUser(r) \/ DeleteTransactions(r) \/ DeleteAccounts(r) \/ DeleteCustomer(r) \/ DeleteUser(r)
      PROVE  UNCHANGED <<entries, redemptions>>
  BY <1>5 DEF FindUser, DeleteTransactions, DeleteAccounts, DeleteCustomer, DeleteUser, collections
<1> QED BY <1>1, <1>2, <1>3, <1>4, <1>5 DEF Next, Step, PostStep, AdjustStep, DeleteStep

\* An append to a book: whose it is, and that its transaction has no other entry.
LEMMA AppendIs ==
    ASSUME BooksInv, NEW r \in Requests, Commit(r) \/ AppendInsert(r)
    PROVE  /\ pc[r] \in {"commit", "insert"} /\ pc'[r] \in Settled /\ who[r] \in Customers
           /\ UNCHANGED <<accounts, req, who, amt, base, at, rivals>>
           /\ \A s \in Requests \ {r} : pc'[s] = pc[s]
           /\ \A e \in entries : e.tx # r
           /\ \E d : /\ entries' = entries \cup {d} /\ d.tx = r /\ d.merchant = req[r].merchant
                     /\ d.cust = who[r] /\ d.amount = amt[r]
<1>1. pc[r] \in {"commit", "insert"}
  BY DEF Commit, AppendInsert
<1>2. PICK l \in Settled : Goto(r, l)
  BY DEF Commit, AppendInsert, AfterPosting, Settled
<1>3. pc'[r] = l /\ \A s \in Requests \ {r} : pc'[s] = pc[s]
  BY <1>2 DEF Goto, BooksInv, BooksTyped
<1>4. UNCHANGED <<accounts, req, who, amt, base, at, rivals>>
  BY DEF Commit, Publish, AppendInsert, locals, history
<1>5. \A e \in entries : e.tx # r
  BY <1>1 DEF BooksInv, RowsFit, EntryFits, Written, Late
<1>6. entries' = entries \cup {EntryOf(r)}
  BY DEF Commit, Publish, AppendInsert
<1>7. PICK d : d = EntryOf(r)
  OBVIOUS
<1>8. d.tx = r /\ d.merchant = req[r].merchant /\ d.cust = who[r] /\ d.amount = amt[r]
  BY <1>7 DEF EntryOf
<1>9. who[r] \in Customers
  BY <1>1 DEF BooksInv, InOrder, Ordered, Unknown
<1> QED BY <1>1, <1>2, <1>3, <1>4, <1>5, <1>6, <1>7, <1>8, <1>9

LEMMA EntriesDifferKept ==
    ASSUME BooksInv, EntriesDiffer, [Next]_vars
    PROVE  EntriesDiffer'
<1>1. ASSUME NEW r \in Requests, Commit(r) \/ AppendInsert(r)
      PROVE  EntriesDiffer'
  BY <1>1, AppendIs DEF EntriesDiffer
<1>2. ASSUME NEW r \in Requests, DeleteLedger(r)
      PROVE  EntriesDiffer'
  BY <1>2 DEF EntriesDiffer, DeleteLedger
<1> QED BY <1>1, <1>2, BooksChange DEF EntriesDiffer

LEMMA RedemptionsKept ==
    ASSUME BooksInv, RedemptionsFit, [Next]_vars
    PROVE  RedemptionsFit'
<1> DEFINE Doc(r) == [id |-> r, merchant |-> req[r].merchant, cust |-> who[r], amount |-> -amt[r],
                      reward |-> req[r].reward]
<1>1. ASSUME NEW d \in redemptions
      PROVE  /\ Doc(d.id)' = Doc(d.id) /\ req'[d.id] = req[d.id] /\ amt'[d.id] = amt[d.id]
             /\ who'[d.id] = who[d.id] /\ pc'[d.id] \in Settled
  BY SettledStays DEF RedemptionsFit, Settled, Unknown
<1>2. ASSUME NEW d \in redemptions
      PROVE  Erased(who[d.id])' \/ HasEntry(d.id)'
  <2>1. who'[d.id] = who[d.id]
    BY <1>1
  <2>2. Erased(who[d.id]) \/ HasEntry(d.id)
    BY DEF RedemptionsFit
  <2>3. PICK c : c = who[d.id]
    OBVIOUS
  <2>4. Erased(c) => Erased(c)'
    BY ErasedForGood
  <2>5. CASE Erased(who[d.id])
    <3>1. Erased(c)'
      BY <2>3, <2>4, <2>5
    <3> QED BY <2>1, <2>3, <3>1 DEF Erased
  <2>6. CASE HasEntry(d.id)
    <3>1. PICK e \in entries : e.tx = d.id
      BY <2>6 DEF HasEntry
    <3>2. CASE e \in entries'
      BY <3>1, <3>2 DEF HasEntry
    <3>3. ASSUME e \notin entries'
          PROVE  Erased(who[d.id])'
      <4>1. PICK r \in Requests : DeleteLedger(r)
        BY <3>1, <3>3, BooksChange, AppendIs
      <4>2. e.cust = who[r] /\ pc[r] = "delLedger" /\ pc'[r] = "delTransactions" /\ req' = req /\ who' = who
        BY <3>3, <4>1 DEF DeleteLedger, Goto, locals, BooksInv, BooksTyped
      <4>3. req[r].op = "delete"
        BY <4>2 DEF BooksInv, InOrder, Ordered, Fits
      <4>4. e.cust = who[d.id]
        BY <3>1 DEF BooksInv, RowsFit, EntryFits
      <4> QED BY <4>2, <4>3, <4>4 DEF Erased
    <3> QED BY <3>2, <3>3
  <2> QED BY <2>2, <2>5, <2>6
<1>3. \A d \in redemptions :
         /\ d = Doc(d.id)' /\ d.id \in Requests /\ req'[d.id].op \in Posts /\ amt'[d.id] < 0
         /\ pc'[d.id] \in Settled
  BY <1>1 DEF RedemptionsFit
<1>4. CASE redemptions' = redemptions
  BY <1>2, <1>3, <1>4 DEF RedemptionsFit
<1>5. CASE redemptions' # redemptions
  <2>1. PICK r \in Requests : Commit(r) /\ req[r].op \in Posts /\ amt[r] < 0
    BY <1>5, BooksChange DEF Commit, Publish, AppendInsert, DeleteLedger
  <2>2. redemptions' = redemptions \cup {Doc(r)}
    BY <2>1 DEF Commit, Publish
  <2>3. IsFiniteSet(redemptions')
    BY <2>2, FS_AddElement DEF RedemptionsFit
  <2>4. UNCHANGED <<req, who, amt>> /\ pc'[r] \in Settled /\ HasEntry(r)'
    BY <2>1, AppendIs DEF HasEntry
  <2>5. Doc(r)' = Doc(r) /\ Doc(r).id = r
    BY <2>4
  <2>6. PICK d : d = Doc(r)
    OBVIOUS
  <2>7. d = Doc(d.id)' /\ d.id = r
    BY <2>5, <2>6
  <2> HIDE DEF Doc
  <2>8. \A e \in redemptions' : e = Doc(e.id)' /\ e.id \in Requests /\ req'[e.id].op \in Posts
           /\ amt'[e.id] < 0 /\ pc'[e.id] \in Settled
    BY <1>3, <2>1, <2>2, <2>4, <2>6, <2>7
  <2>9. \A e \in redemptions' : Erased(who[e.id])' \/ HasEntry(e.id)'
    BY <1>2, <2>2, <2>4, <2>6, <2>7
  <2> QED BY <2>3, <2>8, <2>9 DEF RedemptionsFit, Doc
<1> QED BY <1>4, <1>5

\* The steps that write accounts.
LEMMA AccountsMove ==
    ASSUME [Next]_vars
    PROVE  \/ UNCHANGED accounts
           \/ \E r \in Requests : Enrol(r) \/ SwitchMembership(r) \/ DeleteAccounts(r)
<1>1. CASE UNCHANGED vars
  BY <1>1 DEF vars, collections
<1>2. ASSUME NEW r \in Requests, Start(r) \/ Fail(r) \/ FindMembership(r) \/ ReadPage(r)
      PROVE  UNCHANGED accounts
  BY <1>2 DEF Start, Fail, Refuse, FindMembership, ReadPage, collections
<1>3. ASSUME NEW r \in Requests,
             Check(r) \/ Open(r) \/ Commit(r) \/ MarkRead(r) \/ Mark(r) \/ SimulateStep(r)
      PROVE  UNCHANGED accounts
  BY <1>3
  DEF Check, Open, Commit, Publish, ReadBook, MarkRead, Mark, SimulateStep, SimulateResolve, SimulateFind,
      Refuse, collections
<1>4. ASSUME NEW r \in Requests, OperatorStep(r)
      PROVE  UNCHANGED accounts
  BY <1>4 DEF OperatorStep, FindTransaction, FindAccount, Reread, NoteReversal, Refuse, collections
<1>5. ASSUME NEW r \in Requests, AdjustStep(r)
      PROVE  UNCHANGED accounts
  BY <1>5 DEF AdjustStep, ResolvePlace, CheckBalance, SaveTransaction, AppendRead, AppendInsert, ReadBook,
     Refuse, collections
<1>6. ASSUME NEW r \in Requests,
             FindUser(r) \/ DeleteLedger(r) \/ DeleteTransactions(r) \/ DeleteCustomer(r) \/ DeleteUser(r)
      PROVE  UNCHANGED accounts
  BY <1>6 DEF FindUser, DeleteLedger, DeleteTransactions, DeleteCustomer, DeleteUser, collections
<1> QED BY <1>1, <1>2, <1>3, <1>4, <1>5, <1>6 DEF Next, Step, PostStep, DeleteStep

\* Accounts stay until their customer is erased.
LEMMA AccountsStay ==
    ASSUME BooksInv, [Next]_vars, NEW m, NEW c, HasAccount(m, c)
    PROVE  HasAccount(m, c)' \/ Erased(c)'
<1>1. CASE UNCHANGED accounts
  BY <1>1 DEF HasAccount, AccountsOf
<1>2. ASSUME NEW r \in Requests, Enrol(r)
      PROVE  HasAccount(m, c)'
  <2>1. accounts \subseteq accounts'
    BY <1>2 DEF Enrol, Refuse, collections
  <2> QED BY <2>1 DEF HasAccount, AccountsOf
<1>3. ASSUME NEW r \in Requests, SwitchMembership(r)
      PROVE  HasAccount(m, c)'
  <2>1. PICK a \in accounts : a.merchant = m /\ a.cust = c
    BY DEF HasAccount, AccountsOf
  <2>2. PICK st : st = IF req[r].op = "disable" THEN "DISABLED" ELSE "ACTIVE"
    OBVIOUS
  <2>3. PICK b : b = IF a \in AccountsOf(req[r].merchant, who[r]) THEN [a EXCEPT !.status = st] ELSE a
    OBVIOUS
  <2>4. b \in accounts'
    BY <1>3, <2>2, <2>3 DEF SwitchMembership
  <2>5. a \in AccountDoc
    BY DEF BooksInv, BooksTyped
  <2>6. b.merchant = m /\ b.cust = c
    BY <2>1, <2>3, <2>5 DEF AccountDoc
  <2> QED BY <2>4, <2>6 DEF HasAccount, AccountsOf
<1>4. ASSUME NEW r \in Requests, DeleteAccounts(r)
      PROVE  HasAccount(m, c)' \/ Erased(c)'
  <2>1. pc[r] = "delAccounts" /\ pc'[r] = "delCustomer" /\ req' = req /\ who' = who /\ req[r].op = "delete"
    BY <1>4 DEF DeleteAccounts, Goto, locals, BooksInv, BooksTyped, InOrder, Ordered, Fits
  <2>2. CASE c = who[r]
    BY <2>1, <2>2 DEF Erased
  <2>3. CASE c # who[r]
    BY <1>4, <2>3 DEF DeleteAccounts, HasAccount, AccountsOf
  <2> QED BY <2>2, <2>3
<1> QED BY <1>1, <1>2, <1>3, <1>4, AccountsMove

LEMMA EnrolledKept ==
    ASSUME BooksInv, Enrolled, [Next]_vars
    PROVE  Enrolled'
<1>1. ASSUME NEW m, NEW c, Erased(c) \/ HasAccount(m, c)
      PROVE  (Erased(c) \/ HasAccount(m, c))'
  BY <1>1, ErasedForGood, AccountsStay
<1>2. ASSUME NEW r \in Requests, pc'[r] \in Inside
      PROVE  (Erased(who[r]) \/ HasAccount(req[r].merchant, who[r]))'
  <2>1. CASE UNCHANGED vars
    <3>1. pc[r] \in Inside /\ req'[r] = req[r] /\ who'[r] = who[r]
      BY <1>2, <2>1 DEF vars, locals
    <3>2. PICK m, c : m = req[r].merchant /\ c = who[r]
      OBVIOUS
    <3>3. Erased(c) \/ HasAccount(m, c)
      BY <3>1, <3>2 DEF Enrolled
    <3>4. (Erased(c) \/ HasAccount(m, c))'
      BY <1>1, <3>3
    <3> QED BY <3>1, <3>2, <3>4 DEF Erased, HasAccount, AccountsOf
  <2>2. ASSUME NEW s \in Requests, Along(s)
        PROVE  (Erased(who[r]) \/ HasAccount(req[r].merchant, who[r]))'
    <3>1. /\ req'[r] = req[r] /\ who'[r] = who[r]
          /\ \/ pc[r] \in Inside \/ HasAccount(req[r].merchant, who[r])
             \/ \E a \in accounts' : a.merchant = req[r].merchant /\ a.cust = who[r]
      BY <1>2, <2>2 DEF Along, Unknown
    <3>2. PICK m, c : m = req[r].merchant /\ c = who[r]
      OBVIOUS
    <3>3. Erased(c) \/ HasAccount(m, c) \/ \E a \in accounts' : a.merchant = m /\ a.cust = c
      BY <3>1, <3>2 DEF Enrolled
    <3>4. (Erased(c) \/ HasAccount(m, c))'
      BY <1>1, <3>3 DEF HasAccount, AccountsOf
    <3> QED BY <3>1, <3>2, <3>4 DEF Erased, HasAccount, AccountsOf
  <2> QED BY <2>1, <2>2, NextIsAlong
<1>3. ASSUME NEW e \in entries'
      PROVE  (Erased(e.cust) \/ HasAccount(e.merchant, e.cust))'
  <2>1. CASE e \in entries
    <3>1. PICK m, c : m = e.merchant /\ c = e.cust
      OBVIOUS
    <3>2. (Erased(c) \/ HasAccount(m, c))'
      BY <1>1, <2>1, <3>1 DEF Enrolled
    <3> QED BY <3>1, <3>2
  <2>2. CASE e \notin entries
    <3>1. PICK r \in Requests : Commit(r) \/ AppendInsert(r)
      BY <2>2, BooksChange DEF DeleteLedger
    <3>2. pc[r] \in Inside /\ e.merchant = req[r].merchant /\ e.cust = who[r]
      BY <2>2, <3>1, AppendIs DEF Inside
    <3>3. PICK m, c : m = req[r].merchant /\ c = who[r]
      OBVIOUS
    <3>4. (Erased(c) \/ HasAccount(m, c))'
      BY <1>1, <3>2, <3>3 DEF Enrolled
    <3> QED BY <3>2, <3>3, <3>4
  <2> QED BY <2>1, <2>2
<1> QED BY <1>2, <1>3 DEF Enrolled

\* A step that reads no transaction: r goes on with the copy it has.
KeepsCopy(r) ==
    /\ UNCHANGED <<copy, req, amt>> /\ pc[r] # "idle"
    /\ \E l : /\ Goto(r, l)
              /\ l = "mark" => amt[r] >= 0
              /\ pc[r] \in {"findTx", "failed"} => l = "failed"

LEMMA CopyChanges ==
    ASSUME BooksInv, [Next]_vars
    PROVE  \/ UNCHANGED vars
           \/ \E r \in Requests :
                 \/ KeepsCopy(r) \/ Start(r) \/ MarkRead(r)
                 \/ FindTransaction(r) /\ ~Refuse(r)
<1>0. /\ pc \in [Requests -> Labels] /\ req \in [Requests -> Intents] /\ amt \in [Requests -> Int]
  BY DEF BooksInv, BooksTyped
<1> USE DEF KeepsCopy
<1>1. ASSUME NEW r \in Requests, pc[r] \notin Resting, Refuse(r)
      PROVE  KeepsCopy(r)
  BY <1>1 DEF Refuse, Resting, locals
<1>2. ASSUME NEW r \in Requests, Fail(r) \/ FindMembership(r) \/ SwitchMembership(r) \/ ReadPage(r)
      PROVE  KeepsCopy(r)
  <2>1. CASE Fail(r)
    BY <1>1, <2>1 DEF Fail
  <2>2. CASE FindMembership(r) \/ SwitchMembership(r)
    BY <1>1, <2>2 DEF FindMembership, SwitchMembership, Resting, locals
  <2>3. CASE ReadPage(r)
    <3>1. Goto(r, "page") \/ Goto(r, "done")
      BY <1>0, <2>3 DEF ReadPage, Goto
    <3> QED BY <2>3, <3>1 DEF ReadPage
  <2> QED BY <1>2, <2>1, <2>2, <2>3
<1>3. ASSUME NEW r \in Requests, Enrol(r) \/ Check(r) \/ Open(r) \/ Commit(r) \/ Mark(r)
      PROVE  KeepsCopy(r)
  <2>1. CASE Enrol(r)
    BY <1>1, <2>1 DEF Enrol, Resting, locals
  <2>2. CASE Check(r)
    BY <1>0, <1>1, <2>2 DEF Check, AfterPosting, Resting, locals
  <2>3. CASE Open(r)
    BY <1>1, <2>3 DEF Open, ReadBook, Resting
  <2>4. CASE Commit(r) \/ Mark(r)
    <3>1. UNCHANGED <<copy, req, amt>> /\ pc[r] \in {"commit", "mark"} /\ amt[r] \in Int
      BY <1>0, <2>4 DEF Commit, Mark, locals
    <3>2. Goto(r, "done") \/ Goto(r, "reread") \/ Goto(r, "markRead") \/ (Goto(r, "mark") /\ ~(amt[r] < 0))
      BY <2>4 DEF Commit, AfterPosting, Mark
    <3> QED BY <3>1, <3>2
  <2> QED BY <1>3, <2>1, <2>2, <2>3, <2>4
<1>4. ASSUME NEW r \in Requests,
             \/ SimulateStep(r) \/ FindAccount(r) \/ Reread(r) \/ NoteReversal(r) \/ ResolvePlace(r)
      PROVE  KeepsCopy(r)
  <2>1. CASE SimulateStep(r)
    BY <1>1, <2>1 DEF SimulateStep, SimulateResolve, SimulateFind, Resting, locals
  <2>2. CASE FindAccount(r)
    <3>1. CASE Refuse(r)
      BY <1>1, <2>2, <3>1 DEF FindAccount, Resting
    <3>2. CASE ~Refuse(r)
      <4>1. PICK l \in {"open", "balance", "save"} : Goto(r, l)
        BY <2>2, <3>2 DEF FindAccount
      <4> QED BY <2>2, <3>2, <4>1 DEF FindAccount, locals
    <3> QED BY <3>1, <3>2
  <2>3. CASE Reread(r)
    <3>1. PICK l \in {"note", "done"} : Goto(r, l)
      BY <2>3 DEF Reread
    <3> QED BY <2>3, <3>1 DEF Reread, locals
  <2>4. CASE NoteReversal(r)
    <3>1. Goto(r, "done") /\ UNCHANGED <<copy, req, amt>> /\ pc[r] = "note"
      BY <2>4 DEF NoteReversal, locals
    <3> QED BY <3>1
  <2>5. CASE ResolvePlace(r)
    BY <1>1, <2>5 DEF ResolvePlace, Resting, locals
  <2> QED BY <1>4, <2>1, <2>2, <2>3, <2>4, <2>5
<1>5. ASSUME NEW r \in Requests,
              \/ CheckBalance(r) \/ SaveTransaction(r) \/ AppendRead(r) \/ AppendInsert(r) \/ DeleteStep(r)
       PROVE  KeepsCopy(r)
  <2>1. CASE CheckBalance(r) \/ SaveTransaction(r)
    BY <1>1, <2>1 DEF CheckBalance, SaveTransaction, Resting, locals
  <2>2. CASE AppendRead(r) \/ AppendInsert(r)
    BY <2>2 DEF AppendRead, ReadBook, AppendInsert, locals
  <2>3. CASE FindUser(r) \/ DeleteLedger(r) \/ DeleteTransactions(r)
    BY <2>3 DEF FindUser, DeleteLedger, DeleteTransactions, locals
  <2>4. CASE DeleteAccounts(r) \/ DeleteCustomer(r) \/ DeleteUser(r)
    BY <2>4 DEF DeleteAccounts, DeleteCustomer, DeleteUser, locals
  <2> QED BY <1>5, <2>1, <2>2, <2>3, <2>4 DEF DeleteStep
<1>6. ASSUME NEW r \in Requests, FindTransaction(r), Refuse(r)
      PROVE  KeepsCopy(r)
  BY <1>1, <1>6 DEF FindTransaction, Resting
<1> QED BY <1>2, <1>3, <1>4, <1>5, <1>6 DEF Next, Step, PostStep, OperatorStep, AdjustStep

\* A copy is of a transaction that is there when it is read.
LEMMA CopiesRead ==
    ASSUME BooksInv, [Next]_vars, NEW s \in Requests, HoldsCopy(s)'
    PROVE  (HoldsCopy(s) /\ copy'[s] = copy[s]) \/ copy'[s] \in transactions
<1>0. /\ pc \in [Requests -> Labels] /\ req \in [Requests -> Intents] /\ amt \in [Requests -> Int]
      /\ copy \in [Requests -> TransactionDoc \cup {NoOne}]
  BY DEF BooksInv, BooksTyped
<1>1. CASE UNCHANGED vars
  BY <1>1 DEF vars, locals, HoldsCopy
<1>2. ASSUME NEW r \in Requests, KeepsCopy(r)
      PROVE  HoldsCopy(s) /\ copy'[s] = copy[s]
  <2>1. PICK l : Goto(r, l) /\ (l = "mark" => amt[r] >= 0)
    BY <1>2 DEF KeepsCopy
  <2>2. pc'[s] = IF s = r THEN l ELSE pc[s]
    BY <1>0, <2>1 DEF Goto
  <2> QED BY <1>0, <1>2, <2>1, <2>2 DEF HoldsCopy, KeepsCopy
<1>3. ASSUME NEW r \in Requests, Start(r)
      PROVE  (HoldsCopy(s) /\ copy'[s] = copy[s]) \/ copy'[s] \in transactions
  <2>1. PICK i \in Intents :
           /\ req' = [req EXCEPT ![r] = i] /\ Goto(r, Entrance(i.op)) /\ amt' = [amt EXCEPT ![r] = i.amount]
           /\ \/ i.op = "reverse" /\ \E t \in transactions : copy' = [copy EXCEPT ![r] = t]
              \/ i.op # "reverse" /\ copy' = copy
    BY <1>3 DEF Start
  <2>2. Entrance(i.op) # "mark"
    <3>1. i.op \in Ops
      BY BookIntentsAssumption DEF Intent
    <3> QED BY <3>1 DEF Entrance, Ops, Writers, Posts
  <2> QED BY <1>0, <2>1, <2>2 DEF HoldsCopy, Goto
<1>4. ASSUME NEW r \in Requests, MarkRead(r) \/ (FindTransaction(r) /\ ~Refuse(r))
      PROVE  (HoldsCopy(s) /\ copy'[s] = copy[s]) \/ copy'[s] \in transactions
  <2>1. CASE FindTransaction(r) /\ ~Refuse(r)
    BY <1>0, <2>1 DEF FindTransaction, HoldsCopy, Goto
  <2>2. CASE MarkRead(r)
    BY <1>0, <2>2 DEF MarkRead, HoldsCopy, Goto, Posted
  <2> QED BY <1>4, <2>1, <2>2
<1> QED BY <1>1, <1>2, <1>3, <1>4, CopyChanges

\* A reversal follows a transaction from when it reads it.
LEMMA ReversalsKept ==
    ASSUME BooksInv, ReversalsFit, [Next]_vars
    PROVE  ReversalsFit'
<1>0. /\ pc \in [Requests -> Labels] /\ req \in [Requests -> Intents] /\ amt \in [Requests -> Int]
      /\ copy \in [Requests -> TransactionDoc \cup {NoOne}] /\ transactions \subseteq TransactionDoc
  BY DEF BooksInv, BooksTyped
<1> SUFFICES ASSUME NEW s \in Requests, req'[s].op = "reverse", pc'[s] # "idle"
             PROVE  /\ copy'[s].merchant = req'[s].merchant
                    /\ pc'[s] \notin {"findTx", "failed"} => amt'[s] = -copy'[s].amount
  BY DEF ReversalsFit
<1>1. CASE UNCHANGED <<pc, req, amt, copy>>
  BY <1>1 DEF ReversalsFit
<1>2. ASSUME NEW r \in Requests, KeepsCopy(r)
      PROVE  /\ copy'[s].merchant = req'[s].merchant
             /\ pc'[s] \notin {"findTx", "failed"} => amt'[s] = -copy'[s].amount
  <2>1. PICK l : Goto(r, l) /\ (pc[r] \in {"findTx", "failed"} => l = "failed")
    BY <1>2 DEF KeepsCopy
  <2>2. pc'[s] = IF s = r THEN l ELSE pc[s]
    BY <1>0, <2>1 DEF Goto
  <2> QED BY <1>0, <1>2, <2>1, <2>2 DEF ReversalsFit, KeepsCopy
<1>3. ASSUME NEW r \in Requests, r # s, Start(r) \/ MarkRead(r) \/ FindTransaction(r)
      PROVE  pc'[s] = pc[s] /\ req'[s] = req[s] /\ amt'[s] = amt[s] /\ copy'[s] = copy[s]
  <2>1. CASE Start(r)
    BY <1>0, <1>3, <2>1 DEF Start, Goto
  <2>2. CASE MarkRead(r)
    BY <1>0, <1>3, <2>2 DEF MarkRead, Goto
  <2>3. CASE FindTransaction(r)
    BY <1>0, <1>3, <2>3 DEF FindTransaction, Refuse, Goto, locals
  <2> QED BY <1>3, <2>1, <2>2, <2>3
<1>4. CASE Start(s)
  <2>1. PICK i \in Intents :
           /\ req' = [req EXCEPT ![s] = i] /\ Goto(s, Entrance(i.op))
           /\ i.op = "reverse" =>
                 \E t \in transactions : t.merchant = i.merchant /\ copy' = [copy EXCEPT ![s] = t]
    BY <1>4 DEF Start
  <2>2. req'[s] = i /\ i.op = "reverse"
    BY <1>0, <2>1
  <2>3. pc'[s] = "findTx"
    BY <1>0, <2>1, <2>2 DEF Goto, Entrance
  <2> QED BY <1>0, <2>1, <2>2, <2>3
<1>5. CASE MarkRead(s)
  BY <1>0, <1>5 DEF MarkRead, BooksInv, InOrder, Ordered, Fits, Posts
<1>6. CASE FindTransaction(s) /\ ~Refuse(s)
  <2>1. PICK t \in transactions : /\ t.id = copy[s].id /\ copy' = [copy EXCEPT ![s] = t]
                                  /\ amt' = [amt EXCEPT ![s] = -t.amount]
    BY <1>6 DEF FindTransaction
  <2>2. pc[s] = "findTx" /\ req' = req
    BY <1>6 DEF FindTransaction
  <2>3. HoldsCopy(s)
    BY <2>2 DEF HoldsCopy
  <2>4. t.merchant = copy[s].merchant
    BY <2>1, <2>3 DEF BooksInv, RowsFit, RowFits
  <2>5. copy[s].merchant = req[s].merchant
    BY <2>2 DEF ReversalsFit
  <2> QED BY <1>0, <2>1, <2>2, <2>4, <2>5
<1> QED BY <1>1, <1>2, <1>3, <1>4, <1>5, <1>6, CopyChanges DEF vars, locals, ReversalsFit

\* A request that has begun keeps its body.
LEMMA BodiesStay ==
    ASSUME BooksInv, [Next]_vars, NEW s \in Requests, pc[s] # "idle"
    PROVE  req'[s] = req[s] /\ pc'[s] # "idle"
<1>1. CASE UNCHANGED vars
  BY <1>1 DEF vars
<1>2. ASSUME NEW r \in Requests, Along(r)
      PROVE  req'[s] = req[s] /\ pc'[s] # "idle"
  BY <1>2 DEF Along
<1> QED BY <1>1, <1>2, NextIsAlong

LEMMA StampsKept ==
    ASSUME BooksInv, StampsFit, [Next]_vars
    PROVE  StampsFit'
<1>0. transactions \subseteq TransactionDoc /\ req \in [Requests -> Intents]
  BY DEF BooksInv, BooksTyped
<1>1. ASSUME NEW d, RowFits(d), d.id \in Requests, Signed(d)
      PROVE  Signed(d)'
  <2>1. pc[d.id] # "idle"
    BY <1>1 DEF RowFits, Written, Late
  <2>2. req'[d.id] = req[d.id]
    BY <1>1, <2>1, BodiesStay
  <2> QED BY <1>1, <2>2 DEF Signed
<1>2. \A t \in transactions : RowFits(t) /\ t.id \in Requests /\ Signed(t)
  BY <1>0 DEF BooksInv, RowsFit, StampsFit, TransactionDoc
<1>3. \A t \in transactions : Signed(t)'
  BY <1>1, <1>2
<1>4. ASSUME NEW s \in Requests, HoldsCopy(s)'
      PROVE  Signed(copy[s])'
  <2>1. PICK d : d = copy'[s]
    OBVIOUS
  <2>2. CASE d \in transactions
    <3>1. Signed(d)'
      BY <1>3, <2>2
    <3> QED BY <2>1, <3>1 DEF Signed
  <2>3. CASE HoldsCopy(s) /\ d = copy[s]
    <3>1. d \in TransactionDoc /\ RowFits(d) /\ Signed(d)
      BY <2>3 DEF BooksInv, InOrder, Ordered, RowsFit, StampsFit
    <3>2. Signed(d)'
      BY <1>1, <3>1 DEF TransactionDoc
    <3> QED BY <2>1, <3>2 DEF Signed
  <2> QED BY <1>4, <2>1, <2>2, <2>3, CopiesRead
<1>5. ASSUME NEW t \in transactions'
      PROVE  Signed(t)'
  <2>1. CASE t \in transactions
    BY <1>3, <2>1
  <2>2. ASSUME NEW r \in Requests, Commit(r) \/ SaveTransaction(r), t = TransactionOf(r)
        PROVE  Signed(t)'
    <3>1. amt[r] \in Int
      BY DEF BooksInv, BooksTyped
    <3>2. t.scan = "none" /\ t.type = (IF amt[r] > 0 THEN "ISSUE" ELSE "REDEEM")
          /\ t.amount = StoredAmount(req[r].op, amt[r])
      BY <2>2 DEF TransactionOf
    <3>3. t.type = "ISSUE" => t.amount > 0
      BY <3>1, <3>2 DEF StoredAmount, Abs
    <3> QED BY <3>2, <3>3, StampRewardsAssumption DEF Signed
  <2>3. ASSUME NEW r \in Requests, Mark(r), t \notin transactions
        PROVE  Signed(t)'
    <3>1. PICK u \in transactions :
             t = IF amt[r] > 0 /\ u \in Posted(r)
                   THEN [u EXCEPT !.scan = IF req[r].op = "post" THEN req[r].reward ELSE "points",
                                  !.reversal = NoOne]
                 ELSE IF amt[r] < 0 /\ u.id = copy[r].id
                   THEN [u EXCEPT !.scan = "points", !.reversal = copy[r].reversal]
                 ELSE u
      BY <2>3 DEF Mark
    <3>2. u \in TransactionDoc
      BY <1>0
    <3>3. /\ t.id = u.id /\ t.type = u.type /\ t.amount = u.amount
          /\ \/ t.scan = "points"
             \/ req[r].op = "post" /\ amt[r] > 0 /\ u \in Posted(r)
      BY <2>3, <3>1, <3>2 DEF TransactionDoc
    <3>4. ASSUME req[r].op = "post", amt[r] > 0, u \in Posted(r)
          PROVE  req'[u.id].op # "adjust"
      <4>1. amt[r] \in Int /\ req[r].key \in Keys
        BY BookIntentsAssumption DEF BooksInv, BooksTyped, Intent
      <4>2. u.key \in Keys
        BY <3>4, <4>1 DEF Posted, ClientKey, Posts
      <4>3. u.key = ClientKey(u.id) /\ u.id \in Requests /\ pc[u.id] # "idle"
        BY <1>2 DEF RowFits, Written, Late
      <4>4. req[u.id].op # "adjust"
        BY <4>2, <4>3, BookIdsAssumption DEF ClientKey, Posts
      <4> QED BY <4>3, <4>4, BodiesStay
    <3>5. t.scan \in StampRewards => req'[t.id].op # "adjust"
      BY <3>3, <3>4, StampRewardsAssumption
    <3>6. t.type = "ISSUE" => t.amount > 0
      BY <1>2, <3>3 DEF Signed
    <3> QED BY <3>5, <3>6 DEF Signed
  <2>4. ASSUME NEW r \in Requests, NoteReversal(r), t \notin transactions
        PROVE  Signed(t)'
    <3>1. PICK u \in transactions :
             u.id = copy[r].id /\ t = [u EXCEPT !.reversal = r, !.scan = copy[r].scan]
      BY <2>4 DEF NoteReversal
    <3>2. t.id = copy[r].id /\ t.scan = copy[r].scan /\ t.type = u.type /\ t.amount = u.amount
      BY <1>0, <3>1 DEF TransactionDoc
    <3>3. req[r].op = "reverse" /\ pc[r] = "note"
      BY <2>4 DEF NoteReversal, BooksInv, InOrder, Ordered, Fits
    <3>4. HoldsCopy(r) /\ RowFits(copy[r]) /\ copy[r].id \in Requests
      BY <3>3 DEF HoldsCopy, BooksInv, RowsFit, InOrder, Ordered, TransactionDoc
    <3>5. Signed(copy[r])
      BY <3>4 DEF StampsFit
    <3>6. PICK d : d = copy[r]
      OBVIOUS
    <3>7. Signed(d)'
      BY <1>1, <3>4, <3>5, <3>6
    <3>8. t.type = "ISSUE" => t.amount > 0
      BY <1>2, <3>2 DEF Signed
    <3> QED BY <3>2, <3>6, <3>7, <3>8 DEF Signed
  <2>5. ASSUME NEW r \in Requests, DeleteTransactions(r)
        PROVE  t \in transactions
    BY <2>5 DEF DeleteTransactions
  <2>6. ASSUME NEW r \in Requests, Commit(r) \/ SaveTransaction(r)
        PROVE  t \in transactions \/ t = TransactionOf(r)
    BY <2>6 DEF Commit, Publish, SaveTransaction
  <2> QED BY <2>1, <2>2, <2>3, <2>4, <2>5, <2>6, RowsChange
<1> QED BY <1>4, <1>5 DEF StampsFit

LEMMA BesideKept ==
    ASSUME BesideKnown, [Next]_vars
    PROVE  BesideKnown' /\ beside \subseteq beside'
<1>1. CASE UNCHANGED vars
  BY <1>1 DEF vars, locals, BesideKnown, Crowded, AtWork, SameBook
<1>2. CASE Next
  BY <1>2 DEF Next, BesideKnown
<1> QED BY <1>1, <1>2

\* A scan that was asked for again stays so.
LEMMA RepeatedForGood ==
    ASSUME BooksInv, [Next]_vars, NEW t, Repeated(t)
    PROVE  Repeated(t)'
<1>1. PICK s \in Requests \ {t.id} :
         req[s].op \in Posts /\ pc[s] # "idle" /\ req[s].merchant = t.merchant /\ ClientKey(s) = t.key
  BY DEF Repeated
<1>2. req'[s] = req[s] /\ pc'[s] # "idle"
  BY <1>1, BodiesStay
<1>3. amt'[s] = amt[s]
  <2>1. CASE UNCHANGED vars
    BY <2>1 DEF vars, locals
  <2>2. ASSUME NEW r \in Requests, Along(r)
        PROVE  amt'[s] = amt[s]
    BY <1>1, <2>2 DEF Along, Posts
  <2> QED BY <2>1, <2>2, NextIsAlong
<1>4. ClientKey(s)' = ClientKey(s)
  BY <1>2, <1>3 DEF ClientKey
<1> QED BY <1>1, <1>2, <1>4 DEF Repeated

\* A book stays as it is or grows by an entry.
LEMMA BookMoves ==
    ASSUME BooksInv, [Next]_vars, NEW m, NEW c, ~Erased(c)'
    PROVE  \/ Book(m, c)' = Book(m, c)
           \/ \E r \in Requests :
                 /\ Commit(r) \/ AppendInsert(r)
                 /\ req[r].merchant = m /\ who[r] = c
                 /\ \E d : /\ Book(m, c)' = Book(m, c) \cup {d} /\ d \notin Book(m, c)
                           /\ d.tx = r /\ d.amount = amt[r]
<1>1. ASSUME NEW r \in Requests, DeleteLedger(r)
      PROVE  Book(m, c)' = Book(m, c)
  <2>1. /\ entries' = {e \in entries : e.cust # who[r]} /\ UNCHANGED <<req, who>>
        /\ pc'[r] = "delTransactions" /\ req[r].op = "delete"
    BY <1>1 DEF DeleteLedger, Goto, locals, BooksInv, BooksTyped, InOrder, Ordered, Fits
  <2>2. c # who[r]
    BY <2>1 DEF Erased
  <2> QED BY <2>1, <2>2 DEF Book
<1>2. ASSUME NEW r \in Requests, Commit(r) \/ AppendInsert(r)
      PROVE  \/ Book(m, c)' = Book(m, c)
             \/ /\ req[r].merchant = m /\ who[r] = c
                /\ \E d : /\ Book(m, c)' = Book(m, c) \cup {d} /\ d \notin Book(m, c)
                          /\ d.tx = r /\ d.amount = amt[r]
  <2>1. PICK d : /\ entries' = entries \cup {d} /\ d.tx = r /\ d.merchant = req[r].merchant
                 /\ d.cust = who[r] /\ d.amount = amt[r]
    BY <1>2, AppendIs
  <2>2. \A e \in entries : e.tx # r
    BY <1>2, AppendIs
  <2> QED BY <2>1, <2>2 DEF Book
<1>3. CASE UNCHANGED entries
  BY <1>3 DEF Book
<1> QED BY <1>1, <1>2, <1>3, BooksChange

\* A new redemption is that of an entry that is new.
LEMMA DebitsStay ==
    ASSUME BooksInv, [Next]_vars, NEW e \in entries, Debit(e)
    PROVE  Debit(e)'
<1>1. ASSUME NEW r \in Requests, Commit(r)
      PROVE  Debit(e)'
  <2>1. e.tx # r
    BY <1>1, AppendIs
  <2>2. PICK d : d = [id |-> r, merchant |-> req[r].merchant, cust |-> who[r], amount |-> -amt[r],
                      reward |-> req[r].reward]
    OBVIOUS
  <2>3. redemptions' \subseteq redemptions \cup {d} /\ d.id = r
    BY <1>1, <2>2 DEF Commit, Publish
  <2> QED BY <2>1, <2>3 DEF Debit
<1>2. CASE UNCHANGED redemptions
  BY <1>2 DEF Debit
<1> QED BY <1>1, <1>2, BooksChange DEF AppendInsert, DeleteLedger

LEMMA SpentForGood ==
    ASSUME BooksInv, BesideKnown, [Next]_vars, NEW m, NEW c, Spent(m, c), ~Erased(c)'
    PROVE  Spent(m, c)'
<1>1. PICK e \in Book(m, c) : Debit(e) \/ e.tx \in beside
  BY DEF Spent
<1>2. e \in Book(m, c)'
  BY <1>1, BookMoves
<1>3. Debit(e) => Debit(e)'
  BY <1>1, DebitsStay DEF Book
<1>4. e.tx \in beside => e.tx \in beside'
  BY BesideKept
<1> QED BY <1>1, <1>2, <1>3, <1>4 DEF Spent

\* A reversal whose entry is there, and what it reverses was issued: a debit.
LEMMA NotedIsSpent ==
    ASSUME BooksInv, RedemptionsFit, StampsFit, ReversalsFit, NEW r \in Requests, NoteReversal(r),
           NEW u \in transactions, u.id = copy[r].id, u.type = "ISSUE"
    PROVE  Erased(u.cust) \/ Spent(u.merchant, u.cust)
<1>0. u \in TransactionDoc /\ amt \in [Requests -> Int]
  BY DEF BooksInv, BooksTyped
<1>1. req[r].op = "reverse" /\ pc[r] = "note"
  BY DEF NoteReversal, BooksInv, InOrder, Ordered, Fits
<1>2. HoldsCopy(r) /\ copy[r] \in TransactionDoc /\ RowFits(copy[r]) /\ RowFits(u)
  BY <1>1 DEF HoldsCopy, BooksInv, RowsFit, InOrder, Ordered
<1>3. /\ copy[r].merchant = u.merchant /\ copy[r].cust = u.cust /\ SignedPoints(copy[r]) = SignedPoints(u)
  BY <1>2 DEF RowFits
<1>4. copy[r].amount > 0
  <2>1. u.amount \in Int /\ copy[r].amount \in Int /\ copy[r].type \in {"ISSUE", "REDEEM"}
    BY <1>0, <1>2 DEF TransactionDoc
  <2>2. u.amount > 0 /\ (copy[r].type = "ISSUE" => copy[r].amount > 0)
    BY <1>2 DEF StampsFit, Signed
  <2> QED BY <1>3, <2>1, <2>2 DEF SignedPoints, Abs
<1>5. amt[r] < 0
  <2>1. amt[r] = -copy[r].amount
    BY <1>1 DEF ReversalsFit
  <2> QED BY <1>2, <1>4, <2>1 DEF TransactionDoc
<1>6. who[r] = u.cust /\ req[r].merchant = u.merchant
  BY <1>1, <1>3 DEF BooksInv, InOrder, Ordered, ReversalsFit
<1>7. Erased(who[r]) \/ HasRow(r)
  BY <1>1 DEF BooksInv, NotesHold
<1>8. CASE HasRow(r)
  <2>1. PICK t \in transactions : t.id = r
    BY <1>8 DEF HasRow
  <2>2. t.cust = who[r] /\ ~HalfAdjusted(r)
    BY <1>1, <2>1 DEF BooksInv, RowsFit, RowFits, HalfAdjusted
  <2>3. Erased(who[r]) \/ HasEntry(r)
    BY <2>1, <2>2 DEF BooksInv, BooksMatch
  <2>4. ASSUME NEW e \in entries, e.tx = r
        PROVE  Spent(u.merchant, u.cust)
    <3>1. e \in Book(u.merchant, u.cust) /\ e.amount = amt[r]
      BY <1>6, <2>4 DEF Book, BooksInv, RowsFit, EntryFits
    <3>2. ~\E d \in redemptions : d.id = e.tx
      BY <1>1, <2>4 DEF RedemptionsFit, Posts
    <3> QED BY <1>5, <3>1, <3>2 DEF Spent, Debit
  <2> QED BY <1>6, <2>3, <2>4 DEF HasEntry
<1> QED BY <1>6, <1>7, <1>8

\* A scan is not yet to be marked after it was.
LEMMA PendingBefore ==
    ASSUME BooksInv, [Next]_vars, NEW t \in transactions, MarkPending(t)'
    PROVE  MarkPending(t) /\ req'[t.id] = req[t.id]
<1>1. t.id \in Requests /\ req[t.id].op \in Writers /\ pc[t.id] \in Late
  BY DEF BooksInv, BooksTyped, RowsFit, RowFits, Written, TransactionDoc
<1>2. req'[t.id] = req[t.id]
  BY <1>1, BodiesStay DEF Late
<1>3. req[t.id].op \in Posts /\ pc'[t.id] \in {"markRead", "mark"}
  BY <1>2 DEF MarkPending
<1>4. pc[t.id] \in Settled
  BY <1>1, <1>3 DEF Late, Settled, BooksInv, InOrder, Ordered, Fits, Posts
<1>5. pc[t.id] \in {"markRead", "mark"}
  <2>1. CASE UNCHANGED vars
    BY <1>3, <2>1 DEF vars
  <2>2. ASSUME NEW r \in Requests, Along(r)
        PROVE  pc[t.id] \in {"markRead", "mark"}
    BY <1>1, <1>3, <1>4, <2>2 DEF Along
  <2> QED BY <2>1, <2>2, NextIsAlong
<1> QED BY <1>2, <1>3, <1>5 DEF MarkPending

\* A purchase counts as stamps from the start, or never.
LEMMA CountedBefore ==
    ASSUME BooksInv, RedemptionsFit, StampsFit, ReversalsFit, [Next]_vars,
           NEW t \in transactions', Counted(t)', NEW u \in transactions, SameRow(t, u),
           ~Erased(u.cust), ~Spent(u.merchant, u.cust),
           \/ t = u
           \/ \E r \in Requests : Mark(r) \/ NoteReversal(r)
    PROVE  Counted(u)
<1>1. u.type = "ISSUE" /\ t.id = u.id
  BY DEF Counted, SameRow
<1>2. ~Repeated(u)
  <2>1. Repeated(u)' => Repeated(t)'
    BY DEF Repeated, SameRow
  <2> QED BY <2>1, RepeatedForGood DEF Counted
<1>3. ASSUME MarkPending(t)', req'[t.id].op = "post", req'[t.id].reward \in StampRewards
      PROVE  Counted(u)
  <2>1. MarkPending(u)'
    BY <1>1, <1>3 DEF MarkPending
  <2>2. MarkPending(u) /\ req'[u.id] = req[u.id]
    BY <2>1, PendingBefore
  <2> QED BY <1>1, <1>2, <1>3, <2>2 DEF Counted
<1>4. ASSUME t.scan \in StampRewards
      PROVE  Counted(u)
  <2>1. CASE u.scan \in StampRewards
    BY <1>1, <1>2, <2>1 DEF Counted
  <2>2. ASSUME u.scan \notin StampRewards, NEW r \in Requests, Mark(r)
        PROVE  Counted(u)
    <3>0. transactions \subseteq TransactionDoc /\ amt[r] \in Int
      BY DEF BooksInv, BooksTyped
    <3>1. PICK v \in transactions :
             t = IF amt[r] > 0 /\ v \in Posted(r)
                   THEN [v EXCEPT !.scan = IF req[r].op = "post" THEN req[r].reward ELSE "points",
                                  !.reversal = NoOne]
                 ELSE IF amt[r] < 0 /\ v.id = copy[r].id
                   THEN [v EXCEPT !.scan = "points", !.reversal = copy[r].reversal]
                 ELSE v
      BY <2>2 DEF Mark
    <3>2. t.id = v.id
      BY <3>0, <3>1 DEF TransactionDoc
    <3>3. v = u
      BY <1>1, <3>2 DEF BooksInv, RowsFit
    <3>4. amt[r] > 0 /\ u \in Posted(r) /\ req[r].op = "post" /\ req[r].reward = t.scan
      BY <1>4, <2>2, <3>0, <3>1, <3>3, StampRewardsAssumption DEF TransactionDoc
    <3>5. pc[r] = "mark"
      BY <2>2 DEF Mark
    <3>6. CASE r = u.id
      BY <1>1, <1>2, <1>4, <3>4, <3>5, <3>6 DEF Counted, MarkPending, Posts
    <3>7. CASE r # u.id
      BY <1>2, <3>4, <3>5, <3>7, RepeatedBy DEF Posted, Posts
    <3> QED BY <3>6, <3>7
  <2>3. ASSUME NEW r \in Requests, NoteReversal(r), u.scan \notin StampRewards
        PROVE  FALSE
    <3>1. PICK v \in transactions :
             t = IF v.id = copy[r].id THEN [v EXCEPT !.reversal = r, !.scan = copy[r].scan] ELSE v
      BY <2>3 DEF NoteReversal
    <3>2. t.id = v.id
      BY <3>1 DEF TransactionDoc, BooksInv, BooksTyped
    <3>3. v = u
      BY <1>1, <3>2 DEF BooksInv, RowsFit
    <3>4. u.id = copy[r].id
      BY <1>4, <2>3, <3>1, <3>3
    <3> QED BY <1>1, <2>3, <3>4, NotedIsSpent
  <2> QED BY <1>4, <2>1, <2>2, <2>3
<1>5. t.scan \in StampRewards \/ (MarkPending(t)' /\ req'[t.id].op = "post" /\ req'[t.id].reward \in StampRewards)
  BY DEF Counted
<1> QED BY <1>3, <1>4, <1>5

\* What is free in a book stays free.
LEMMA HeldBefore ==
    ASSUME BooksInv, RedemptionsFit, StampsFit, ReversalsFit, [Next]_vars, NEW m, NEW c,
           NEW e \in Book(m, c), HeldAsStamps(e)', ~Erased(c), ~Spent(m, c)
    PROVE  HeldAsStamps(e)
<1>1. e \in entries /\ e.merchant = m /\ e.cust = c /\ e.tx \in Requests /\ EntryFits(e)
  BY DEF Book, BooksInv, BooksTyped, RowsFit
<1>2. req'[e.tx] = req[e.tx]
  BY <1>1, BodiesStay DEF EntryFits, Written, Late
<1>3. CASE e.amount < 0 /\ req'[e.tx].op \in Posts /\ req'[e.tx].reward \in StampRewards
  BY <1>2, <1>3 DEF HeldAsStamps
<1>4. ASSUME NEW t \in transactions', t.id = e.tx, Counted(t)'
      PROVE  HeldAsStamps(e)
  <2>1. ASSUME NEW u \in transactions, SameRow(t, u),
               t = u \/ \E r \in Requests : Mark(r) \/ NoteReversal(r)
        PROVE  HeldAsStamps(e)
    <3>1. RowFits(u) /\ u.id = e.tx
      BY <1>4, <2>1 DEF BooksInv, RowsFit, SameRow
    <3>2. u.merchant = m /\ u.cust = c
      BY <1>1, <3>1 DEF RowFits, EntryFits
    <3>3. Counted(u)
      BY <1>4, <2>1, <3>2, CountedBefore
    <3> QED BY <3>1, <3>3 DEF HeldAsStamps
  <2>2. CASE t \in transactions
    BY <2>1, <2>2 DEF SameRow
  <2>3. ASSUME NEW r \in Requests, Mark(r) \/ NoteReversal(r)
        PROVE  HeldAsStamps(e)
    <3>1. PICK h : /\ transactions' = {h[u] : u \in transactions}
                   /\ \A u \in transactions : SameRow(h[u], u)
      BY <2>3, MetadataOnly
    <3> QED BY <2>1, <2>3, <3>1
  <2>4. ASSUME NEW r \in Requests, Commit(r) \/ SaveTransaction(r)
        PROVE  t \in transactions
    <3>1. PICK d : d = TransactionOf(r)
      OBVIOUS
    <3>2. transactions' = transactions \cup {d} /\ d.id = r
      BY <2>4, <3>1 DEF Commit, Publish, SaveTransaction, TransactionOf
    <3>3. e.tx # r
      BY <1>1, <2>4 DEF EntryFits, Written, Late, Commit, SaveTransaction
    <3> QED BY <1>4, <3>2, <3>3
  <2>5. ASSUME NEW r \in Requests, DeleteTransactions(r)
        PROVE  t \in transactions
    BY <2>5 DEF DeleteTransactions
  <2> QED BY <2>2, <2>3, <2>4, <2>5, RowsChange
<1> QED BY <1>3, <1>4 DEF HeldAsStamps

\* What becomes free is not negative.
LEMMA FreedIsCredit ==
    ASSUME BooksInv, [Next]_vars, NEW e \in entries, HeldAsStamps(e), ~HeldAsStamps(e)'
    PROVE  e.amount >= 0
<1>1. e.tx \in Requests /\ EntryFits(e) /\ e.amount \in Int
  BY DEF BooksInv, BooksTyped, RowsFit, EntryFits
<1>2. req'[e.tx] = req[e.tx]
  BY <1>1, BodiesStay DEF EntryFits, Written, Late
<1>3. PICK t \in transactions : t.id = e.tx /\ t.type = "ISSUE"
  BY <1>2 DEF HeldAsStamps, Counted
<1>4. e.amount = SignedPoints(t) /\ t.amount \in Int
  BY <1>1, <1>3 DEF BooksInv, BooksTyped, TransactionDoc, RowsFit, RowFits, EntryFits
<1> QED BY <1>3, <1>4 DEF SignedPoints, Abs

-----------------------------------------------------------------------------
(* What is held as stamps, counted from entries and from what a card counts *)

StampedOf(m, c) == {t \in transactions : t.merchant = m /\ t.cust = c /\ Stamped(t)}
RedeemedOf(m, c) ==
    {d \in redemptions : d.merchant = m /\ d.cust = c /\ d.reward \in StampRewards}

\* The entries of the purchases marked as stamps, of those that count as stamps,
\* and of the redemptions of stamps.
Marked(m, c) == {e \in Book(m, c) : \E t \in transactions : t.id = e.tx /\ Stamped(t)}
Bought(m, c) == {e \in Book(m, c) : \E t \in transactions : t.id = e.tx /\ Counted(t)}
Cashed(m, c) ==
    {e \in Book(m, c) :
        e.amount < 0 /\ req[e.tx].op \in Posts /\ req[e.tx].reward \in StampRewards}

CardInv == BooksInv /\ IsFiniteSet(entries) /\ IsFiniteSet(transactions) /\ CardsInv

\* Stamps are whole numbers, counted from transactions and redemptions.
LEMMA StampsAre ==
    ASSUME CardInv, NEW m, NEW c
    PROVE  /\ AmountsOf(StampedOf(m, c)) \in Int /\ AmountsOf(RedeemedOf(m, c)) \in Int
           /\ IsFiniteSet(StampedOf(m, c)) /\ InInt(StampedOf(m, c))
           /\ StampCount(m, c) = NotNegative(AmountsOf(StampedOf(m, c)) - AmountsOf(RedeemedOf(m, c)))
<1>1. StampedOf(m, c) \subseteq transactions /\ RedeemedOf(m, c) \subseteq redemptions
  BY DEF StampedOf, RedeemedOf
<1>2. IsFiniteSet(StampedOf(m, c)) /\ InInt(StampedOf(m, c))
  BY <1>1, FS_Subset DEF CardInv, BooksInv, BooksTyped, TransactionDoc, InInt
<1>3. IsFiniteSet(RedeemedOf(m, c)) /\ InInt(RedeemedOf(m, c))
  <2>1. IsFiniteSet(RedeemedOf(m, c))
    BY <1>1, FS_Subset DEF CardInv, CardsInv, RedemptionsFit
  <2>2. ASSUME NEW d \in redemptions
        PROVE  d.amount \in Int
    <3>1. d = [id |-> d.id, merchant |-> req[d.id].merchant, cust |-> who[d.id],
               amount |-> -amt[d.id], reward |-> req[d.id].reward] /\ d.id \in Requests
      BY DEF CardInv, CardsInv, RedemptionsFit
    <3>2. amt[d.id] \in Int
      BY <3>1 DEF CardInv, BooksInv, BooksTyped
    <3>3. d.amount = -amt[d.id]
      BY <3>1
    <3> QED BY <3>2, <3>3
  <2> QED BY <1>1, <2>1, <2>2 DEF InInt
<1>4. StampsIssued(m, c) = AmountsOf(StampedOf(m, c))
  BY DEF StampsIssued, StampedOf, AmountsOf, MapThenSumSet, MapThenFoldSet
<1>5. StampsRedeemed(m, c) = AmountsOf(RedeemedOf(m, c))
  BY DEF StampsRedeemed, RedeemedOf, AmountsOf, MapThenSumSet, MapThenFoldSet
<1> QED BY <1>2, <1>3, <1>4, <1>5, AmountsType DEF StampCount

LEMMA BalancesAre ==
    ASSUME CardInv, NEW m, NEW c
    PROVE  /\ Book(m, c) \subseteq entries /\ IsFiniteSet(Book(m, c)) /\ InInt(Book(m, c))
           /\ Balance(m, c) = AmountsOf(Book(m, c)) /\ Balance(m, c) \in Int
<1>1. Book(m, c) \subseteq entries
  BY DEF Book
<1> QED BY <1>1, BooksAddUp, BalanceIs, AmountsType DEF CardInv

\* An entry and the transaction of a purchase.
LEMMA PurchaseOf ==
    ASSUME BooksInv, NEW e \in entries, NEW t \in transactions, t.id = e.tx
    PROVE  /\ t.merchant = e.merchant /\ t.cust = e.cust /\ t.amount \in Int /\ e.amount \in Int
           /\ t.type = "ISSUE" => e.amount = Abs(t.amount) /\ e.amount >= 0
<1>1. RowFits(t) /\ EntryFits(e) /\ t.amount \in Int
  BY DEF BooksInv, BooksTyped, RowsFit, TransactionDoc
<1>2. t.merchant = e.merchant /\ t.cust = e.cust /\ e.amount = SignedPoints(t)
  BY <1>1 DEF RowFits, EntryFits
<1> QED BY <1>1, <1>2 DEF SignedPoints, Abs

\* The entries of a customer's redemptions debit what was redeemed.
LEMMA RedeemedIsDebited ==
    ASSUME CardInv, NEW m, NEW c, ~Erased(c), ~Spent(m, c)
    PROVE  AmountsOf(RedeemedOf(m, c)) = -AmountsOf(Cashed(m, c))
<1> DEFINE h == [e \in Cashed(m, c) |-> [id |-> e.tx, merchant |-> m, cust |-> c,
                                         amount |-> -e.amount, reward |-> req[e.tx].reward]]
<1>1. /\ Cashed(m, c) \subseteq entries /\ IsFiniteSet(Cashed(m, c)) /\ InInt(Cashed(m, c))
      /\ \A e \in Cashed(m, c) : e.merchant = m /\ e.cust = c
  <2>1. Cashed(m, c) \subseteq entries
    BY DEF Cashed, Book
  <2> QED BY <2>1, BooksAddUp DEF CardInv, Cashed, Book
<1>2. ASSUME NEW e \in entries, NEW d \in redemptions, d.id = e.tx
      PROVE  d = [id |-> e.tx, merchant |-> e.merchant, cust |-> e.cust,
                  amount |-> -e.amount, reward |-> req[e.tx].reward]
  <2>1. d = [id |-> d.id, merchant |-> req[d.id].merchant, cust |-> who[d.id],
             amount |-> -amt[d.id], reward |-> req[d.id].reward]
    BY DEF CardInv, CardsInv, RedemptionsFit
  <2>2. e.merchant = req[e.tx].merchant /\ e.cust = who[e.tx] /\ e.amount = amt[e.tx]
    BY DEF CardInv, BooksInv, RowsFit, EntryFits
  <2> QED BY <1>2, <2>1, <2>2
<1>3. ASSUME NEW e \in Cashed(m, c)
      PROVE  h[e] \in RedeemedOf(m, c)
  <2>1. PICK d \in redemptions : d.id = e.tx
    BY DEF Spent, Debit, Cashed
  <2>2. d = [id |-> e.tx, merchant |-> m, cust |-> c, amount |-> -e.amount, reward |-> req[e.tx].reward]
    BY <1>1, <1>2, <2>1
  <2>3. d.merchant = m /\ d.cust = c /\ d.reward = req[e.tx].reward
    BY <2>2
  <2>4. d.reward \in StampRewards
    BY <2>3 DEF Cashed
  <2> QED BY <2>2, <2>3, <2>4 DEF RedeemedOf
<1>4. ASSUME NEW d \in RedeemedOf(m, c)
      PROVE  \E e \in Cashed(m, c) : d = h[e]
  <2>1. d \in redemptions /\ d.merchant = m /\ d.cust = c /\ d.reward \in StampRewards
    BY DEF RedeemedOf
  <2>2. /\ d = [id |-> d.id, merchant |-> req[d.id].merchant, cust |-> who[d.id],
                amount |-> -amt[d.id], reward |-> req[d.id].reward]
        /\ req[d.id].op \in Posts /\ amt[d.id] < 0
        /\ Erased(who[d.id]) \/ HasEntry(d.id)
    BY <2>1 DEF CardInv, CardsInv, RedemptionsFit
  <2>3. d.merchant = req[d.id].merchant /\ d.cust = who[d.id] /\ d.reward = req[d.id].reward
    BY <2>2
  <2>4. PICK e \in entries : e.tx = d.id
    BY <2>1, <2>2, <2>3 DEF HasEntry
  <2>5. e.merchant = m /\ e.cust = c /\ e.amount < 0
    BY <2>1, <2>2, <2>3, <2>4 DEF CardInv, BooksInv, RowsFit, EntryFits
  <2>6. e \in Cashed(m, c)
    BY <2>1, <2>2, <2>3, <2>4, <2>5 DEF Book, Cashed
  <2>7. d = [id |-> e.tx, merchant |-> m, cust |-> c, amount |-> -e.amount, reward |-> req[e.tx].reward]
    BY <1>2, <2>1, <2>4, <2>5
  <2> QED BY <2>6, <2>7
<1>5. {h[e] : e \in Cashed(m, c)} = RedeemedOf(m, c)
  <2> HIDE DEF h
  <2> QED BY <1>3, <1>4
<1>6. \A e \in Cashed(m, c) : h[e].amount = -e.amount /\ h[e].id = e.tx
  OBVIOUS
<1>7. \A e, f \in Cashed(m, c) : h[e] = h[f] => e = f
  <2>1. \A e, f \in Cashed(m, c) : e.tx = f.tx => e = f
    BY <1>1 DEF CardInv, CardsInv, EntriesDiffer
  <2> QED BY <1>6, <2>1
<1> HIDE DEF h
<1>8. AmountsOf({h[e] : e \in Cashed(m, c)}) = -AmountsOf(Cashed(m, c))
  BY <1>1, <1>6, <1>7, AmountsOpposite
<1> QED BY <1>5, <1>8

\* Stamps that were issued are in the ledger.
LEMMA IssuedIsCredited ==
    ASSUME CardInv, NEW m, NEW c, ~Erased(c)
    PROVE  AmountsOf(StampedOf(m, c)) = AmountsOf(Marked(m, c))
<1> DEFINE h == [t \in StampedOf(m, c) |-> CHOOSE e \in entries : e.tx = t.id]
<1>1. ASSUME NEW t \in StampedOf(m, c)
      PROVE  h[t] \in Marked(m, c) /\ h[t].tx = t.id /\ h[t].amount = t.amount
  <2>1. t \in transactions /\ t.merchant = m /\ t.cust = c /\ t.type = "ISSUE" /\ t.scan \in StampRewards
    BY DEF StampedOf, Stamped
  <2>2. req[t.id].op # "adjust" /\ t.amount > 0
    BY <2>1 DEF CardInv, CardsInv, StampsFit, Signed
  <2>3. HasEntry(t.id)
    BY <2>1, <2>2 DEF CardInv, BooksInv, BooksMatch, HalfAdjusted
  <2>4. h[t] \in entries /\ h[t].tx = t.id
    BY <2>3 DEF HasEntry
  <2>5. PICK e : e = h[t]
    OBVIOUS
  <2>6. e \in entries /\ e.tx = t.id
    BY <2>4, <2>5
  <2>7. e.merchant = m /\ e.cust = c /\ t.amount \in Int /\ e.amount = Abs(t.amount)
    BY <2>1, <2>6, PurchaseOf DEF CardInv
  <2>8. e \in Marked(m, c) /\ e.amount = t.amount
    BY <2>1, <2>2, <2>6, <2>7 DEF Marked, Book, Stamped, Abs
  <2> QED BY <2>5, <2>6, <2>8
<1>2. \A e, f \in entries : e.tx = f.tx => e = f
  BY DEF CardInv, CardsInv, EntriesDiffer
<1>3. ASSUME NEW e \in Marked(m, c)
      PROVE  \E t \in StampedOf(m, c) : e = h[t]
  <2>1. e \in entries /\ e.merchant = m /\ e.cust = c
    BY DEF Marked, Book
  <2>2. PICK t \in transactions : t.id = e.tx /\ Stamped(t)
    BY DEF Marked
  <2>3. t \in StampedOf(m, c)
    BY <2>1, <2>2, PurchaseOf DEF CardInv, StampedOf
  <2>4. h[t] \in entries /\ h[t].tx = e.tx
    BY <1>1, <2>2, <2>3 DEF Marked, Book
  <2> HIDE DEF h
  <2> QED BY <1>2, <2>1, <2>3, <2>4
<1> HIDE DEF h
<1>4. {h[t] : t \in StampedOf(m, c)} = Marked(m, c)
  BY <1>1, <1>3
<1>5. \A t, u \in StampedOf(m, c) : t.id = u.id => t = u
  BY DEF StampedOf, CardInv, BooksInv, RowsFit
<1>6. \A t, u \in StampedOf(m, c) : h[t] = h[u] => t = u
  BY <1>1, <1>5
<1>7. AmountsOf({h[t] : t \in StampedOf(m, c)}) = AmountsOf(StampedOf(m, c))
  BY <1>1, <1>6, StampsAre, AmountsSame
<1> QED BY <1>4, <1>7

\* Nothing that is not negative is more than a part of it.
LEMMA PartIsLess ==
    ASSUME NEW S, NEW T, S \subseteq T, IsFiniteSet(T), InInt(T), \A x \in T : x.amount >= 0
    PROVE  AmountsOf(S) <= AmountsOf(T)
<1> DEFINE h == [x \in S |-> x]
<1>1. IsFiniteSet(S) /\ InInt(S)
  BY FS_Subset DEF InInt
<1>2. \A x \in S : h[x] \in T /\ x.amount <= h[x].amount
  BY <1>1 DEF InInt
<1>3. \A x, y \in S : h[x] = h[y] => x = y
  OBVIOUS
<1> HIDE DEF h
<1> QED BY <1>1, <1>2, <1>3, AmountsBelow

\* A book is what is free in it, what was bought in stamps and what they took.
LEMMA BookSplits ==
    ASSUME CardInv, NEW m, NEW c
    PROVE  /\ AmountsOf(Free(m, c)) \in Int /\ AmountsOf(Bought(m, c)) \in Int
           /\ AmountsOf(Marked(m, c)) \in Int /\ AmountsOf(Cashed(m, c)) \in Int
           /\ Balance(m, c) = AmountsOf(Free(m, c)) + AmountsOf(Bought(m, c)) + AmountsOf(Cashed(m, c))
<1>1. PICK F, B, M, K : F = Free(m, c) /\ B = Bought(m, c) /\ M = Marked(m, c) /\ K = Cashed(m, c)
  OBVIOUS
<1>2. F \subseteq Book(m, c) /\ B \subseteq Book(m, c) /\ M \subseteq Book(m, c) /\ K \subseteq Book(m, c)
  BY <1>1 DEF Free, Bought, Marked, Cashed
<1>3. Book(m, c) \subseteq entries /\ IsFiniteSet(Book(m, c)) /\ InInt(Book(m, c))
  BY BalancesAre
<1>4. \A S \in SUBSET Book(m, c) : IsFiniteSet(S) /\ InInt(S)
  BY <1>3, FS_Subset DEF InInt
<1>5. AmountsOf(F) \in Int /\ AmountsOf(B) \in Int /\ AmountsOf(M) \in Int /\ AmountsOf(K) \in Int
  BY <1>2, <1>4, AmountsType
<1>6. B \cap K = {}
  <2>1. ASSUME NEW e \in B, e \in K
        PROVE  FALSE
    <3>1. e \in entries /\ e.amount < 0
      BY <1>1, <1>2, <1>3, <2>1 DEF Cashed
    <3>2. PICK t \in transactions : t.id = e.tx /\ t.type = "ISSUE"
      BY <1>1, <2>1 DEF Bought, Counted
    <3>3. e.amount \in Int /\ e.amount >= 0
      BY <3>1, <3>2, PurchaseOf DEF CardInv
    <3> QED BY <3>1, <3>3
  <2> QED BY <2>1
<1>7. Book(m, c) = F \cup (B \cup K) /\ F \cap (B \cup K) = {}
  BY <1>1 DEF Free, Bought, Cashed, HeldAsStamps
<1>8. AmountsOf(B \cup K) = AmountsOf(B) + AmountsOf(K)
  BY <1>2, <1>4, <1>6, AmountsUnion
<1>9. IsFiniteSet(B \cup K) /\ InInt(B \cup K)
  <2>1. B \cup K \in SUBSET Book(m, c)
    BY <1>2
  <2> QED BY <1>4, <2>1
<1>10. IsFiniteSet(F) /\ InInt(F)
  BY <1>2, <1>4
<1>11. AmountsOf(F \cup (B \cup K)) = AmountsOf(F) + AmountsOf(B \cup K)
  BY <1>7, <1>9, <1>10, AmountsUnion
<1>12. Balance(m, c) = AmountsOf(F) + AmountsOf(B \cup K)
  BY <1>7, <1>11, BalancesAre
<1> QED BY <1>1, <1>5, <1>8, <1>12

\* The stamps of a card, from entries.
LEMMA StampsFromBook ==
    ASSUME CardInv, NEW m, NEW c, ~Erased(c), ~Spent(m, c)
    PROVE  StampCount(m, c) = NotNegative(AmountsOf(Marked(m, c)) + AmountsOf(Cashed(m, c)))
<1>1. PICK k \in Int, z \in Int : k = AmountsOf(Cashed(m, c)) /\ z = AmountsOf(Marked(m, c))
  BY BookSplits
<1>2. AmountsOf(RedeemedOf(m, c)) = -k
  BY <1>1, RedeemedIsDebited
<1>3. AmountsOf(StampedOf(m, c)) = z
  BY <1>1, IssuedIsCredited
<1>4. StampCount(m, c) = NotNegative(z - (-k))
  BY <1>2, <1>3, StampsAre
<1>5. z - (-k) = z + k
  OBVIOUS
<1> QED BY <1>1, <1>4, <1>5

\* Purchases marked or counted as stamps are credits.
LEMMA PurchasesCredit ==
    ASSUME CardInv, NEW m, NEW c
    PROVE  /\ \A e \in Marked(m, c) \cup Bought(m, c) : e.amount >= 0
           /\ IsFiniteSet(Marked(m, c)) /\ InInt(Marked(m, c))
           /\ IsFiniteSet(Bought(m, c)) /\ InInt(Bought(m, c))
<1>1. Marked(m, c) \subseteq entries /\ Bought(m, c) \subseteq entries
  BY DEF Marked, Bought, Book
<1>2. \A e \in Marked(m, c) \cup Bought(m, c) : e.amount >= 0
  BY <1>1, PurchaseOf DEF CardInv, Marked, Bought, Stamped, Counted
<1> QED BY <1>1, <1>2, BooksAddUp DEF CardInv

-----------------------------------------------------------------------------
(* What a step does to a book, and the invariant *)

\* What it does when nobody debits but by redemptions that run alone.
Grown(m, c, r) ==
    /\ Commit(r) \/ AppendInsert(r)
    /\ req[r].merchant = m /\ who[r] = c
    /\ AmountsOf(Book(m, c)') = AmountsOf(Book(m, c)) + amt[r]
    /\ amt[r] >= 0 => AmountsOf(Free(m, c)') >= AmountsOf(Free(m, c))
    /\ amt[r] < 0 =>
          /\ Commit(r) /\ req[r].op \in Posts /\ r \notin beside'
          /\ AmountsOf(Free(m, c)') >= AmountsOf(Free(m, c)) + amt[r]
          /\ req[r].reward \in StampRewards => AmountsOf(Free(m, c)') >= AmountsOf(Free(m, c))

LEMMA FreeMoves ==
    ASSUME CardInv, [Next]_vars, NEW m, NEW c, ~Erased(c)', ~Spent(m, c)', ~Erased(c), ~Spent(m, c)
    PROVE  /\ AmountsOf(Book(m, c)') \in Int /\ AmountsOf(Free(m, c)') \in Int
           /\ \/ /\ AmountsOf(Book(m, c)') = AmountsOf(Book(m, c))
                 /\ AmountsOf(Free(m, c)') >= AmountsOf(Free(m, c))
              \/ \E r \in Requests : Grown(m, c, r)
<1>0. /\ BooksInv /\ RedemptionsFit /\ StampsFit /\ ReversalsFit
      /\ amt \in [Requests -> Int]
  BY DEF CardInv, CardsInv, BooksInv, BooksTyped
<1>1. PICK B, F, B2, F2 : B = Book(m, c) /\ F = Free(m, c) /\ B2 = Book(m, c)' /\ F2 = Free(m, c)'
  OBVIOUS
<1>2. B \subseteq entries /\ IsFiniteSet(B) /\ InInt(B)
  BY <1>1, BalancesAre
<1>3. F \subseteq B /\ F2 \subseteq B2 /\ IsFiniteSet(F) /\ InInt(F)
  <2>1. F \subseteq B /\ F2 \subseteq B2
    BY <1>1 DEF Free
  <2> QED BY <1>2, <2>1, FS_Subset DEF InInt
<1>4. \A e \in B : HeldAsStamps(e)' => HeldAsStamps(e)
  BY <1>0, <1>1, HeldBefore
<1>5. \A e \in B : HeldAsStamps(e) /\ ~HeldAsStamps(e)' => e.amount >= 0
  BY <1>0, <1>2, FreedIsCredit
<1>6. \A e \in B2 : e \in F2 <=> ~HeldAsStamps(e)'
  BY <1>1 DEF Free
<1>7. \A e \in B : e \in F <=> ~HeldAsStamps(e)
  BY <1>1 DEF Free
<1>8. \A e \in B : e \in B2 => (e \in F => e \in F2) /\ (e \in F2 \ F => e.amount >= 0)
  BY <1>4, <1>5, <1>6, <1>7
\* More that is not negative is no less.
<1>9. ASSUME NEW G, F \subseteq G, IsFiniteSet(G), InInt(G), \A e \in G \ F : e.amount >= 0
      PROVE  AmountsOf(G) >= AmountsOf(F) /\ AmountsOf(G) \in Int /\ AmountsOf(F) \in Int
  <2>1. PICK R : R = G \ F
    OBVIOUS
  <2>2. G = F \cup R /\ F \cap R = {} /\ R \subseteq G /\ \A e \in R : e.amount >= 0
    BY <1>9, <2>1
  <2>3. IsFiniteSet(R) /\ InInt(R)
    BY <1>9, <2>2, FS_Subset DEF InInt
  <2>4. AmountsOf(F \cup R) = AmountsOf(F) + AmountsOf(R)
    BY <1>3, <2>2, <2>3, AmountsUnion
  <2>5. AmountsOf(R) >= 0 /\ AmountsOf(R) \in Int /\ AmountsOf(F) \in Int
    BY <1>3, <2>2, <2>3, AmountsNotNegative, AmountsType
  <2>6. AmountsOf(G) = AmountsOf(F) + AmountsOf(R)
    BY <2>2, <2>4
  <2> QED BY <2>5, <2>6
<1>10. CASE B2 = B
  <2>1. F \subseteq F2 /\ \A e \in F2 \ F : e.amount >= 0
    BY <1>3, <1>8, <1>10
  <2>2. IsFiniteSet(F2) /\ InInt(F2)
    BY <1>2, <1>3, <1>10, FS_Subset DEF InInt
  <2>3. AmountsOf(F2) >= AmountsOf(F) /\ AmountsOf(F2) \in Int
    BY <1>9, <2>1, <2>2
  <2>4. AmountsOf(B) \in Int
    BY <1>2, AmountsType
  <2> QED BY <1>1, <1>10, <2>3, <2>4
<1>11. ASSUME NEW r \in Requests, Commit(r) \/ AppendInsert(r), req[r].merchant = m, who[r] = c,
              NEW d, B2 = B \cup {d}, d \notin B, d.tx = r, d.amount = amt[r]
       PROVE  Grown(m, c, r) /\ AmountsOf(B2) \in Int /\ AmountsOf(F2) \in Int
  <2>1. PICK a \in Int : a = amt[r]
    BY <1>0
  <2>2. AmountsOf(B2) = AmountsOf(B) + a
    BY <1>2, <1>11, <2>1, AmountsAdd
  <2>3. F \subseteq F2 \ {d} /\ \A e \in (F2 \ {d}) \ F : e.amount >= 0
    BY <1>3, <1>8, <1>11
  <2>4. IsFiniteSet(F2) /\ InInt(F2)
    <3>1. IsFiniteSet(B2)
      BY <1>2, <1>11, FS_AddElement
    <3>2. InInt(B2)
      BY <1>2, <1>11, <2>1 DEF InInt
    <3> QED BY <1>3, <3>1, <3>2, FS_Subset DEF InInt
  <2>5. IsFiniteSet(F2 \ {d}) /\ InInt(F2 \ {d})
    BY <2>4, FS_Subset DEF InInt
  <2>6. PICK f \in Int, g \in Int : f = AmountsOf(F) /\ g = AmountsOf(F2 \ {d}) /\ g >= f
    BY <1>9, <2>3, <2>5
  <2>7. AmountsOf(F2) = (IF d \in F2 THEN g + a ELSE g)
    <3>1. d \in F2 => AmountsOf(F2) = g + a
      <4> SUFFICES ASSUME d \in F2
                   PROVE  AmountsOf(F2) = g + a
        OBVIOUS
      <4>1. F2 = (F2 \ {d}) \cup {d} /\ d \notin F2 \ {d}
        OBVIOUS
      <4>2. d.amount \in Int /\ d.amount = a
        BY <1>11, <2>1
      <4>3. AmountsOf((F2 \ {d}) \cup {d}) = g + a
        BY <2>5, <2>6, <4>1, <4>2, AmountsAdd
      <4> QED BY <4>1, <4>3
    <3>2. d \notin F2 => AmountsOf(F2) = g
      <4>1. d \notin F2 => F2 \ {d} = F2
        OBVIOUS
      <4> QED BY <2>6, <4>1
    <3> QED BY <3>1, <3>2
  <2>8. ASSUME a < 0
        PROVE  /\ Commit(r) /\ req[r].op \in Posts /\ r \notin beside'
               /\ req[r].reward \in StampRewards => d \notin F2
    <3>1. d \in Book(m, c)'
      BY <1>1, <1>11
    <3>2. ~Debit(d)' /\ r \notin beside'
      BY <1>11, <3>1 DEF Spent
    <3>3. PICK x \in redemptions' : x.id = r
      BY <1>11, <2>1, <2>8, <3>2 DEF Debit
    <3>4. pc[r] \in {"commit", "insert"}
      BY <1>11 DEF Commit, AppendInsert
    <3>5. x \notin redemptions
      BY <1>0, <3>3, <3>4 DEF RedemptionsFit, Settled
    <3>6. Commit(r) /\ req[r].op \in Posts /\ req' = req
      BY <1>11, <3>3, <3>5 DEF Commit, Publish, AppendInsert
    <3>7. req[r].reward \in StampRewards => HeldAsStamps(d)'
      BY <1>11, <2>1, <2>8, <3>6 DEF HeldAsStamps
    <3> QED BY <1>6, <1>11, <3>2, <3>6, <3>7
  <2>9. /\ a >= 0 => AmountsOf(F2) >= f
        /\ a < 0 => AmountsOf(F2) >= f + a /\ (d \notin F2 => AmountsOf(F2) >= f)
    BY <2>6, <2>7
  <2>10. AmountsOf(B2) \in Int /\ AmountsOf(F2) \in Int
    <3>1. AmountsOf(B) \in Int
      BY <1>2, AmountsType
    <3> QED BY <2>1, <2>2, <2>4, <3>1, AmountsType
  <2> QED BY <1>1, <1>11, <2>1, <2>2, <2>6, <2>8, <2>9, <2>10 DEF Grown
<1>12. \/ B2 = B
       \/ \E r \in Requests :
             /\ Commit(r) \/ AppendInsert(r)
             /\ req[r].merchant = m /\ who[r] = c
             /\ \E d : B2 = B \cup {d} /\ d \notin B /\ d.tx = r /\ d.amount = amt[r]
  BY <1>0, <1>1, BookMoves
<1> QED BY <1>1, <1>10, <1>11, <1>12

\* A redemption of points that runs alone was checked against what is free.
LEMMA CheckApproves ==
    ASSUME CardInv, NEW r \in Requests, pc[r] = "check", Covers(r), amt[r] < 0,
           req[r].reward \notin StampRewards,
           \A s \in Requests \ {r} : AtWork(s) => ~SameBook(r, s),
           ~Erased(who[r]), ~Spent(req[r].merchant, who[r])
    PROVE  AmountsOf(Free(req[r].merchant, who[r])) + amt[r] >= 0
<1>1. PICK m, c : m = req[r].merchant /\ c = who[r]
  OBVIOUS
<1>2. PICK f \in Int, y \in Int, z \in Int, x \in Int :
         /\ f = AmountsOf(Free(m, c)) /\ y = AmountsOf(Bought(m, c)) /\ z = AmountsOf(Marked(m, c))
         /\ x = AmountsOf(Cashed(m, c)) /\ Balance(m, c) = f + y + x
  BY BookSplits
<1>3. StampCount(m, c) = NotNegative(z + x)
  BY <1>1, <1>2, StampsFromBook
<1>4. Bought(m, c) \subseteq Marked(m, c)
  <2> SUFFICES ASSUME NEW e \in Bought(m, c)
               PROVE  e \in Marked(m, c)
    OBVIOUS
  <2>1. PICK t \in transactions : t.id = e.tx /\ Counted(t)
    BY DEF Bought
  <2>2. e \in Book(m, c) /\ e \in entries /\ e.merchant = m /\ e.cust = c
    BY DEF Bought, Book
  <2>3. t.merchant = m /\ t.cust = c
    BY <2>1, <2>2, PurchaseOf DEF CardInv
  <2>4. ASSUME MarkPending(t)
        PROVE  FALSE
    <3>1. t.id \in Requests \ {r} /\ AtWork(t.id)
      BY <2>4 DEF MarkPending, AtWork, CardInv, BooksInv, BooksTyped, TransactionDoc
    <3>2. SameBook(r, t.id)
      BY <1>1, <2>3 DEF SameBook, CardInv, BooksInv, RowsFit, RowFits
    <3> QED BY <3>1, <3>2
  <2> QED BY <2>1, <2>2, <2>4 DEF Counted, Marked, Stamped
<1>5. y <= z
  BY <1>2, <1>4, PartIsLess, PurchasesCredit
<1>6. PICK a \in Int : a = amt[r]
  BY DEF CardInv, BooksInv, BooksTyped
<1>7. -a <= NotNegative(Balance(m, c) - StampCount(m, c))
  BY <1>1, <1>6 DEF Covers, Affords
<1> QED BY <1>1, <1>2, <1>3, <1>5, <1>6, <1>7 DEF NotNegative

LEMMA SoundKept ==
    ASSUME CardInv, [Next]_vars
    PROVE  Sound'
<1> SUFFICES ASSUME NEW m, NEW c, ~Erased(c)', ~Spent(m, c)'
             PROVE  AmountsOf(Book(m, c)') >= 0 /\ AmountsOf(Free(m, c)') >= 0
  BY DEF Sound
<1>0. BooksInv /\ BesideKnown /\ Approved
  BY DEF CardInv, CardsInv
<1>1. ~Erased(c) /\ ~Spent(m, c)
  BY <1>0, ErasedForGood, SpentForGood
<1>2. PICK b \in Int, f \in Int : b = AmountsOf(Book(m, c)) /\ f = AmountsOf(Free(m, c)) /\ b >= 0 /\ f >= 0
  BY <1>1, BookSplits, BalancesAre DEF CardInv, CardsInv, Sound
<1>3. PICK b2 \in Int, f2 \in Int : b2 = AmountsOf(Book(m, c)') /\ f2 = AmountsOf(Free(m, c)')
  BY <1>1, FreeMoves
<1>4. ASSUME NEW r \in Requests, Grown(m, c, r)
      PROVE  AmountsOf(Book(m, c)') >= 0 /\ AmountsOf(Free(m, c)') >= 0
  <2>1. PICK a \in Int : a = amt[r]
    BY DEF CardInv, BooksInv, BooksTyped
  <2>2. /\ b2 = b + a
        /\ a >= 0 => f2 >= f
        /\ a < 0 => f2 >= f + a /\ (req[r].reward \in StampRewards => f2 >= f)
    BY <1>2, <1>3, <1>4, <2>1 DEF Grown
  <2>3. ASSUME a < 0
        PROVE  b + a >= 0 /\ (req[r].reward \notin StampRewards => f + a >= 0)
    <3>1. /\ pc[r] = "commit" /\ req[r].op \in Posts /\ r \notin beside
          /\ req[r].merchant = m /\ who[r] = c
      BY <1>0, <1>4, <2>1, <2>3, BesideKept DEF Grown, Commit
    <3> QED BY <1>0, <1>1, <1>2, <2>1, <2>3, <3>1 DEF Approved
  <2> QED BY <1>2, <1>3, <2>2, <2>3
<1>5. CASE b2 = b /\ f2 >= f
  BY <1>2, <1>3, <1>5
<1> QED BY <1>1, <1>2, <1>3, <1>4, <1>5, FreeMoves

LEMMA ApprovedKept ==
    ASSUME CardInv, [Next]_vars
    PROVE  Approved'
<1> SUFFICES ASSUME NEW r \in Requests, req'[r].op \in Posts, amt'[r] < 0, r \notin beside',
                    pc'[r] \in {"open", "commit"},
                    NEW m, NEW c, m = req'[r].merchant, c = who'[r],
                    ~Erased(c)', ~Spent(m, c)'
             PROVE  /\ req'[r].reward \notin StampRewards => AmountsOf(Free(m, c)') + amt'[r] >= 0
                    /\ pc'[r] = "commit" => AmountsOf(Book(m, c)') + amt'[r] >= 0
  BY DEF Approved
<1>0. /\ BooksInv /\ BesideKnown /\ Approved
      /\ pc \in [Requests -> Labels] /\ amt \in [Requests -> Int]
  BY DEF CardInv, CardsInv, BooksInv, BooksTyped
<1>1. ~Erased(c) /\ ~Spent(m, c)
  BY <1>0, ErasedForGood, SpentForGood
<1>2. r \notin beside
  BY <1>0, BesideKept
<1>3. PICK b \in Int, f \in Int : b = AmountsOf(Book(m, c)) /\ f = AmountsOf(Free(m, c))
  BY BookSplits, BalancesAre
<1>4. AmountsOf(Book(m, c)') \in Int /\ AmountsOf(Free(m, c)') \in Int
  BY <1>1, FreeMoves
<1>5. CASE UNCHANGED vars
  <2>1. /\ UNCHANGED <<pc, req, who, amt>> /\ Book(m, c)' = Book(m, c)
        /\ Free(m, c)' = Free(m, c)
    BY <1>5 DEF vars, collections, locals, Book, Free, HeldAsStamps, Counted, Repeated, MarkPending, ClientKey
  <2> QED BY <1>0, <1>1, <1>2, <2>1 DEF Approved
<1>6. ASSUME NEW s \in Requests, Along(s)
      PROVE  /\ req'[r].reward \notin StampRewards => AmountsOf(Free(m, c)') + amt'[r] >= 0
             /\ pc'[r] = "commit" => AmountsOf(Book(m, c)') + amt'[r] >= 0
  <2>1. CASE s # r
    <3>1. pc'[r] = pc[r] /\ req'[r] = req[r] /\ who'[r] = who[r] /\ amt'[r] = amt[r]
      BY <1>6, <2>1 DEF Along
    <3>2. PICK a \in Int : a = amt[r]
      BY <1>0
    <3>3. /\ req[r].reward \notin StampRewards => f + a >= 0
          /\ pc[r] = "commit" => b + a >= 0
      BY <1>0, <1>1, <1>2, <1>3, <3>1, <3>2 DEF Approved
    <3>4. ASSUME NEW w \in Requests, Grown(m, c, w)
          PROVE  amt[w] >= 0 \/ w = r
      <4>1. CASE amt[w] < 0 /\ w # r
        <5>1. AtWork(w) /\ AtWork(r) /\ SameBook(r, w)
          BY <3>1, <3>4, <4>1 DEF Grown, AtWork, SameBook, Commit
        <5>2. r \in Crowded
          BY <3>1, <4>1, <5>1 DEF Crowded
        <5> QED BY <1>0, <1>2, <5>2 DEF BesideKnown
      <4> QED BY <1>0, <4>1
    <3>5. ASSUME Grown(m, c, r)
          PROVE  FALSE
      <4>1. pc[r] \in {"commit", "insert"} /\ pc'[r] \in Settled
        BY <1>0, <3>5, AppendIs DEF Grown
      <4> QED BY <3>1, <4>1 DEF Settled
    <3>6. AmountsOf(Book(m, c)') >= b /\ AmountsOf(Free(m, c)') >= f
      <4>1. ASSUME NEW w \in Requests, Grown(m, c, w)
            PROVE  AmountsOf(Book(m, c)') >= b /\ AmountsOf(Free(m, c)') >= f
        <5>1. PICK k \in Int : k = amt[w] /\ k >= 0
          BY <1>0, <3>4, <3>5, <4>1
        <5> QED BY <1>3, <4>1, <5>1 DEF Grown
      <4> QED BY <1>1, <1>3, <4>1, FreeMoves
    <3> QED BY <1>3, <1>4, <3>1, <3>2, <3>3, <3>6
  <2>2. CASE s = r
    <3>1. pc[r] # "idle" /\ req'[r] = req[r] /\ pc[r] \notin Unknown
      BY <1>6, <2>2 DEF Along, Inside, Unknown
    <3>2. who'[r] = who[r] /\ amt'[r] = amt[r] /\ (Check(r) \/ Open(r))
      BY <1>6, <2>2, <3>1 DEF Along
    <3>3. PICK a \in Int : a = amt[r]
      BY <1>0
    <3>4. Book(m, c)' = Book(m, c) /\ UNCHANGED <<entries, transactions, redemptions>>
      BY <3>2 DEF Check, Open, ReadBook, Refuse, collections, Book
    <3>5. AmountsOf(Free(m, c)') >= f
      <4>1. ~\E w \in Requests : Grown(m, c, w)
        BY <1>0, <3>4, AppendIs DEF Grown
      <4> QED BY <1>1, <1>3, <4>1, FreeMoves
    <3>6. CASE Check(r)
      <4>1. pc[r] = "check" /\ pc'[r] = "open" /\ UNCHANGED <<req, who, amt>>
            /\ \A w \in Requests \ {r} : pc'[w] = pc[w]
        BY <1>0, <3>6 DEF Check, Goto, Refuse, AfterPosting, locals
      <4>2. Covers(r)
        BY <1>0, <3>2, <3>6, <4>1 DEF Check, Goto, Refuse, AfterPosting
      <4>3. \A w \in Requests \ {r} : AtWork(w) => ~SameBook(r, w)
        <5> SUFFICES ASSUME NEW w \in Requests \ {r}, AtWork(w), SameBook(r, w)
                     PROVE  FALSE
          OBVIOUS
        <5>1. AtWork(w)' /\ SameBook(r, w)' /\ AtWork(r)'
          BY <4>1 DEF AtWork, SameBook
        <5>2. r \in Crowded'
          BY <5>1 DEF Crowded
        <5>3. Next
          BY <1>0, <4>1 DEF vars
        <5> QED BY <5>2, <5>3 DEF Next
      <4>4. req[r].reward \notin StampRewards => AmountsOf(Free(m, c)) + amt[r] >= 0
        BY <1>1, <3>1, <3>2, <4>1, <4>2, <4>3, CheckApproves
      <4> QED BY <1>3, <1>4, <3>1, <3>2, <3>3, <3>5, <4>1, <4>4
    <3>7. CASE Open(r)
      <4>1. pc[r] = "open" /\ pc'[r] = "commit" /\ ~Overdraws(r)
        BY <1>0, <3>7 DEF Open, Goto, Refuse
      <4>2. b + a >= 0
        BY <1>0, <1>3, <3>1, <3>2, <3>3, <4>1, BalancesAre DEF Overdraws
      <4>3. req[r].reward \notin StampRewards => f + a >= 0
        BY <1>0, <1>1, <1>2, <1>3, <3>1, <3>2, <3>3, <4>1 DEF Approved
      <4> QED BY <1>3, <1>4, <3>1, <3>2, <3>3, <3>4, <3>5, <4>2, <4>3
    <3> QED BY <3>2, <3>6, <3>7
  <2> QED BY <2>1, <2>2
<1> QED BY <1>0, <1>5, <1>6, NextIsAlong

\* There is nothing on a card at first, nor in a request at work.
LEMMA CardsAtFirst ==
    ASSUME Init
    PROVE  CardsInv
<1>1. /\ entries = {} /\ transactions = {} /\ redemptions = {} /\ beside = {}
      /\ pc = [r \in Requests |-> "idle"] /\ req \in [Requests -> Intents]
  BY BookIntentsAssumption DEF Init
<1>2. \A r \in Requests : pc[r] = "idle"
  BY <1>1
<1>3. Sound
  <2> SUFFICES ASSUME NEW m, NEW c
               PROVE  AmountsOf(Book(m, c)) >= 0 /\ AmountsOf(Free(m, c)) >= 0
    BY DEF Sound
  <2>1. Book(m, c) = {} /\ Free(m, c) = {}
    BY <1>1 DEF Book, Free
  <2> QED BY <2>1, AmountsEmpty
<1>4. RedemptionsFit /\ EntriesDiffer
  BY <1>1, FS_EmptySet DEF RedemptionsFit, EntriesDiffer
<1>5. StampsFit /\ ReversalsFit /\ Enrolled
  BY <1>1, <1>2 DEF StampsFit, HoldsCopy, ReversalsFit, Enrolled, Inside
<1>6. BesideKnown /\ Approved
  BY <1>1, <1>2 DEF BesideKnown, Crowded, AtWork, Approved
<1> QED BY <1>3, <1>4, <1>5, <1>6 DEF CardsInv

\* Every step keeps what cards rest on.
LEMMA CardsKept ==
    ASSUME CardInv, [Next]_vars
    PROVE  CardsInv'
<1>1. BooksInv /\ CardsInv
  BY DEF CardInv
<1> QED BY <1>1, RedemptionsKept, EntriesDifferKept, StampsKept, ReversalsKept, EnrolledKept, BesideKept,
           ApprovedKept, SoundKept DEF CardsInv

-----------------------------------------------------------------------------
(* Cards and balances *)

\* A book without irregular entries holds what its stamps are worth, and is not
\* overdrawn.
LEMMA StampsCovered ==
    ASSUME CardInv, NEW m, NEW c, ~Erased(c), ~Irregular(m, c)
    PROVE  StampCount(m, c) <= Balance(m, c)
<1>1. ~Spent(m, c)
  BY DEF Irregular, Spent
<1>2. PICK f \in Int, y \in Int, z \in Int, x \in Int :
         /\ f = AmountsOf(Free(m, c)) /\ y = AmountsOf(Bought(m, c)) /\ z = AmountsOf(Marked(m, c))
         /\ x = AmountsOf(Cashed(m, c)) /\ Balance(m, c) = f + y + x
  BY BookSplits
<1>3. StampCount(m, c) = NotNegative(z + x)
  BY <1>1, <1>2, StampsFromBook
<1>4. Marked(m, c) \subseteq Bought(m, c)
  <2> SUFFICES ASSUME NEW e \in Marked(m, c)
               PROVE  e \in Bought(m, c)
    OBVIOUS
  <2>1. PICK t \in transactions : t.id = e.tx /\ Stamped(t)
    BY DEF Marked
  <2>2. e \in Book(m, c) /\ e \in entries /\ e.merchant = m /\ e.cust = c
    BY DEF Marked, Book
  <2>3. t \in Visits(m, c)
    BY <2>1, <2>2, PurchaseOf DEF CardInv, Visits, At
  <2>4. ~Repeated(t)
    BY <2>1, <2>3 DEF Irregular
  <2> QED BY <2>1, <2>2, <2>4 DEF Stamped, Counted, Bought
<1>5. z <= y
  BY <1>2, <1>4, PartIsLess, PurchasesCredit
<1>6. Balance(m, c) >= 0 /\ f >= 0
  BY <1>1, <1>2, BalancesAre DEF CardInv, CardsInv, Sound
<1> QED BY <1>2, <1>3, <1>5, <1>6 DEF NotNegative

\* The stamps of a reward are no more than the stamps of the card, unless some
\* were redeemed for another reward.
LEMMA RewardStampsAre ==
    ASSUME CardInv, NEW m, NEW c, NEW w \in StampRewards,
           \A d \in RedeemedOf(m, c) : d.reward = w
    PROVE  RewardStamps(m, c, w) <= StampCount(m, c) /\ RewardStamps(m, c, w) \in Nat
<1>1. PICK I, R : /\ I = {t \in Issues(Visits(m, c)) : t.scan = w}
                  /\ R = {d \in redemptions : d.merchant = m /\ d.cust = c /\ d.reward = w}
  OBVIOUS
<1>2. RewardStamps(m, c, w) = NotNegative(AmountsOf(I) - AmountsOf(R))
  BY <1>1 DEF RewardStamps, Total, AmountsOf, MapThenSumSet, MapThenFoldSet
<1>3. R = RedeemedOf(m, c)
  BY <1>1 DEF RedeemedOf
<1>4. I \subseteq StampedOf(m, c)
  BY <1>1 DEF Issues, Visits, At, StampedOf, Stamped
<1>5. \A t \in StampedOf(m, c) : t.amount >= 0
  BY DEF StampedOf, Stamped, CardInv, CardsInv, StampsFit, Signed, BooksInv, BooksTyped, TransactionDoc
<1>6. AmountsOf(I) <= AmountsOf(StampedOf(m, c))
  BY <1>4, <1>5, StampsAre, PartIsLess
<1>7. AmountsOf(I) \in Int
  <2>1. IsFiniteSet(I) /\ InInt(I)
    BY <1>4, StampsAre, FS_Subset DEF InInt
  <2> QED BY <2>1, AmountsType
<1>8. PICK i \in Int, s \in Int, k \in Int :
         i = AmountsOf(I) /\ s = AmountsOf(StampedOf(m, c)) /\ k = AmountsOf(RedeemedOf(m, c)) /\ i <= s
  BY <1>6, <1>7, StampsAre
<1>9. RewardStamps(m, c, w) = NotNegative(i - k) /\ StampCount(m, c) = NotNegative(s - k)
  BY <1>2, <1>3, <1>8, StampsAre
<1> QED BY <1>8, <1>9 DEF NotNegative

\* A card splits the larger of the balance and the stamps.
LEMMA CardIs ==
    ASSUME CardInv, NEW m, NEW c
    PROVE  /\ Card(m, c).points \in Nat /\ Card(m, c).stamps \in Nat
           /\ Card(m, c).points + Card(m, c).stamps >= Balance(m, c)
           /\ Card(m, c).points > 0 =>
                 Card(m, c).points + Card(m, c).stamps = Balance(m, c)
           /\ Card(m, c).stamps <= Balance(m, c) =>
                 Card(m, c).points + Card(m, c).stamps = Balance(m, c)
<1>1. PICK b \in Int : b = Balance(m, c)
  BY BalancesAre
<1>2. PICK s \in Nat : s = StampCount(m, c)
  BY StampsAre DEF NotNegative
<1>3. Card(m, c).points = NotNegative(b - s) /\ Card(m, c).stamps = s
  BY <1>1, <1>2 DEF Card
<1> QED BY <1>1, <1>2, <1>3 DEF NotNegative

LEMMA ShownIs ==
    ASSUME CardInv, NEW m, NEW c, NEW n \in Shown(m, c)
    PROVE  n = Balance(m, c)
<1>1. CASE n = CustomerDetail(m, c).points
  BY <1>1 DEF CustomerDetail
<1>2. CASE \E q \in CustomerList(m, "") : q.cust = c /\ n = q.points
  <2>1. PICK a \in accounts : a.merchant = m /\ CustomerRow(a).cust = c /\ n = CustomerRow(a).points
    BY <1>2 DEF CustomerList
  <2> QED BY <2>1 DEF CustomerRow
<1>3. CASE \E q \in MerchantCustomers(m) : q.cust = c /\ n = q.points
  <2>1. PICK a \in accounts : \E q :
           /\ q = [cust |-> a.cust, points |-> Balance(m, a.cust),
                   redeemed |-> TotalSize(Redeems(Visits(m, a.cust))), active |-> a.status = "ACTIVE"]
           /\ q.cust = c /\ n = q.points
    BY <1>3 DEF MerchantCustomers
  <2>2. a.cust = c /\ n = Balance(m, a.cust)
    BY <2>1
  <2> QED BY <2>2
<1> QED BY <1>1, <1>2, <1>3 DEF Shown

\* The sums over memberships and over merchants, as sums of functions.
LEMMA PointsAddUp ==
    ASSUME CardInv, NEW c, NEW S, IsFiniteSet(S), NEW w \in [S -> Int], \A m \in S : w[m] = Card(m, c).points
    PROVE  MapThenSumSet(LAMBDA m : Card(m, c).points, S) = SumOf(w)
<1> DEFINE Run(h) == [T \in SUBSET S |-> IF T = {} THEN 0
                        ELSE LET m == CHOOSE m \in T : TRUE IN Card(m, c).points + h[T \ {m}]]
           g == CHOOSE h : h = Run(h)
<1>1. MapThenSumSet(LAMBDA m : Card(m, c).points, S) = g[S]
  BY DEF MapThenSumSet, MapThenFoldSet
<1>2. PICK f \in [SUBSET S -> Int] : Adds(f, w, SUBSET S)
  BY SumExists
<1>3. \A T \in SUBSET S : T # {} => w[Taken(T)] = Card(Taken(T), c).points
  BY TakenOut
<1>4. f = Run(f)
  BY <1>2, <1>3 DEF Adds, Taken
<1>5. g = Run(g)
  <2>1. \E h : h = Run(h)
    BY <1>4
  <2> HIDE DEF Run
  <2> QED BY <2>1
<1>6. Adds(g, w, SUBSET S)
  <2>1. ASSUME NEW T \in SUBSET S
        PROVE  g[T] = IF T = {} THEN 0 ELSE w[Taken(T)] + g[T \ {Taken(T)}]
    <3> HIDE DEF g
    <3>1. g[T] = Run(g)[T]
      BY <1>5
    <3> QED BY <1>3, <3>1 DEF Taken
  <2> HIDE DEF g
  <2> QED BY <2>1 DEF Adds
<1> HIDE DEF g
<1> QED BY <1>1, <1>6, AddsIsSum

LEMMA StampsAddUp ==
    ASSUME CardInv, NEW c, NEW S, IsFiniteSet(S), NEW w \in [S -> Int], \A m \in S : w[m] = Card(m, c).stamps
    PROVE  MapThenSumSet(LAMBDA m : Card(m, c).stamps, S) = SumOf(w)
<1> DEFINE Run(h) == [T \in SUBSET S |-> IF T = {} THEN 0
                        ELSE LET m == CHOOSE m \in T : TRUE IN Card(m, c).stamps + h[T \ {m}]]
           g == CHOOSE h : h = Run(h)
<1>1. MapThenSumSet(LAMBDA m : Card(m, c).stamps, S) = g[S]
  BY DEF MapThenSumSet, MapThenFoldSet
<1>2. PICK f \in [SUBSET S -> Int] : Adds(f, w, SUBSET S)
  BY SumExists
<1>3. \A T \in SUBSET S : T # {} => w[Taken(T)] = Card(Taken(T), c).stamps
  BY TakenOut
<1>4. f = Run(f)
  BY <1>2, <1>3 DEF Adds, Taken
<1>5. g = Run(g)
  <2>1. \E h : h = Run(h)
    BY <1>4
  <2> HIDE DEF Run
  <2> QED BY <2>1
<1>6. Adds(g, w, SUBSET S)
  <2>1. ASSUME NEW T \in SUBSET S
        PROVE  g[T] = IF T = {} THEN 0 ELSE w[Taken(T)] + g[T \ {Taken(T)}]
    <3> HIDE DEF g
    <3>1. g[T] = Run(g)[T]
      BY <1>5
    <3> QED BY <1>3, <3>1 DEF Taken
  <2> HIDE DEF g
  <2> QED BY <2>1 DEF Adds
<1> HIDE DEF g
<1> QED BY <1>1, <1>6, AddsIsSum

\* The balances at all merchants make up the balance over all.
LEMMA BalancesAddUp ==
    ASSUME CardInv, NEW c, IsFiniteSet(Merchants)
    PROVE  /\ [m \in Merchants |-> Balance(m, c)] \in [Merchants -> Int]
           /\ SumOf([m \in Merchants |-> Balance(m, c)]) = PlatformCustomerDetail(c).points
<1> DEFINE w == [m \in Merchants |-> Balance(m, c)]
           of == [e \in EntriesOf(c) |-> e.merchant]
<1>1. IsFiniteSet(EntriesOf(c)) /\ InInt(EntriesOf(c))
  <2>1. EntriesOf(c) \subseteq entries
    BY DEF EntriesOf
  <2> QED BY <2>1, BooksAddUp DEF CardInv
<1>2. \A e \in EntriesOf(c) : of[e] \in Merchants
  <2>1. ASSUME NEW e \in entries
        PROVE  e.merchant \in Merchants
    <3>1. e.tx \in Requests /\ e.merchant = req[e.tx].merchant
      BY DEF CardInv, BooksInv, BooksTyped, RowsFit, EntryFits
    <3>2. req[e.tx] \in Intent
      BY <3>1, BookIntentsAssumption DEF CardInv, BooksInv, BooksTyped
    <3> QED BY <3>1, <3>2 DEF Intent
  <2> QED BY <2>1 DEF EntriesOf
<1>3. w \in [Merchants -> Int]
  BY BalancesAre
<1>4. \A m \in Merchants : w[m] = AmountsOf({e \in EntriesOf(c) : of[e] = m})
  <2> SUFFICES ASSUME NEW m \in Merchants
               PROVE  w[m] = AmountsOf({e \in EntriesOf(c) : of[e] = m})
    OBVIOUS
  <2>1. {e \in EntriesOf(c) : of[e] = m} = Book(m, c)
    BY DEF EntriesOf, Book
  <2> QED BY <2>1, BalancesAre
<1>5. PlatformCustomerDetail(c).points = AmountsOf(EntriesOf(c))
  BY DEF PlatformCustomerDetail, Total, AmountsOf, MapThenSumSet, MapThenFoldSet
<1> HIDE DEF w, of
<1>6. SumOf(w) = AmountsOf(EntriesOf(c))
  BY <1>1, <1>2, <1>3, <1>4, AmountsByParts
<1> QED BY <1>3, <1>5, <1>6 DEF w

LEMMA HomeAddsUp ==
    ASSUME CardInv, NEW c \in Customers, ~Erased(c), IsFiniteSet(Merchants),
           \A m \in Merchants : ~Irregular(m, c)
    PROVE  HomeTotal(c) + MapThenSumSet(LAMBDA m : Card(m, c).stamps, Merchants)
              = PlatformCustomerDetail(c).points
<1> DEFINE p == [m \in Merchants |-> Card(m, c).points]
           s == [m \in Merchants |-> Card(m, c).stamps]
           b == [m \in Merchants |-> Balance(m, c)]
<1>1. \A m \in Merchants :
         /\ Card(m, c).points \in Nat /\ Card(m, c).stamps \in Nat
         /\ Card(m, c).points + Card(m, c).stamps = Balance(m, c)
  <2> SUFFICES ASSUME NEW m \in Merchants
               PROVE  /\ Card(m, c).points \in Nat /\ Card(m, c).stamps \in Nat
                      /\ Card(m, c).points + Card(m, c).stamps = Balance(m, c)
    OBVIOUS
  <2>1. Card(m, c).stamps <= Balance(m, c)
    BY StampsCovered DEF Card
  <2> QED BY <2>1, CardIs
<1>2. p \in [Merchants -> Int] /\ s \in [Merchants -> Int] /\ b \in [Merchants -> Int]
         /\ SumOf(b) = PlatformCustomerDetail(c).points
  BY <1>1, BalancesAddUp
<1>3. \A m \in Merchants : b[m] = p[m] + s[m]
  BY <1>1
<1>4. Memberships(c) \in SUBSET Merchants
  BY DEF Memberships, CardInv, BooksInv, BooksTyped, AccountDoc
<1>5. \A m \in Merchants \ Memberships(c) : p[m] = 0
  <2> SUFFICES ASSUME NEW m \in Merchants, m \notin Memberships(c)
               PROVE  Card(m, c).points = 0
    OBVIOUS
  <2>1. ~HasAccount(m, c)
    BY DEF Memberships, HasAccount, AccountsOf
  <2>2. Book(m, c) = {}
    BY <2>1 DEF Book, CardInv, CardsInv, Enrolled
  <2>3. Balance(m, c) = 0
    BY <2>2, BalanceIs, AmountsEmpty
  <2> QED BY <1>1, <2>3
<1>6. MapThenSumSet(LAMBDA m : Card(m, c).stamps, Merchants) = SumOf(s)
  <2>1. \A m \in Merchants : s[m] = Card(m, c).stamps
    OBVIOUS
  <2> HIDE DEF s
  <2> QED BY <1>2, <2>1, StampsAddUp
<1>7. HomeTotal(c) = SumOf(Part(p, Memberships(c)))
  <2>1. Part(p, Memberships(c)) \in [Memberships(c) -> Int]
    BY <1>2, <1>4 DEF Part
  <2>2. \A m \in Memberships(c) : Part(p, Memberships(c))[m] = Card(m, c).points
    BY <1>4 DEF Part
  <2>3. IsFiniteSet(Memberships(c))
    BY <1>4, FS_Subset
  <2> HIDE DEF p
  <2>4. MapThenSumSet(LAMBDA m : Card(m, c).points, Memberships(c)) = SumOf(Part(p, Memberships(c)))
    BY <2>1, <2>2, <2>3, PointsAddUp
  <2> QED BY <2>4 DEF HomeTotal
<1> HIDE DEF p, s, b
<1>8. SumOf(p) = SumOf(Part(p, Memberships(c)))
  BY <1>2, <1>4, <1>5, SumZeros
<1>9. SumOf(b) = SumOf(p) + SumOf(s)
  BY <1>2, <1>3, SumPlus
<1> QED BY <1>2, <1>6, <1>7, <1>8, <1>9

\* Points and stamps on a customer's card make up the balance on every other
\* screen, and the home screen and the cards the balance over all merchants,
\* although cards are computed from transactions and redemptions as well; after
\* a debit that was no redemption, a redemption beside another scan or a scan
\* that was repeated a card may show more, never less.  What a card says can be
\* redeemed passes the check, unless stamps went to another reward.
THEOREM CardsAgree ==
    ASSUME IsFiniteSet(Merchants)
    PROVE  Spec => []CardsShowBalances
<1>1. Init => SteadyInv /\ CardsInv /\ RowsFinite
  <2> SUFFICES ASSUME Init
               PROVE  SteadyInv /\ CardsInv /\ RowsFinite
    OBVIOUS
  <2>1. RowsFinite
    BY FS_EmptySet DEF Init, RowsFinite
  <2> QED BY <2>1, SteadyAtFirst, CardsAtFirst
<1>2. BooksInv /\ BooksInv' /\ SteadyInv /\ CardsInv /\ RowsFinite /\ [Next]_vars =>
         SteadyInv' /\ CardsInv' /\ RowsFinite'
  <2> SUFFICES ASSUME BooksInv, SteadyInv, CardsInv, RowsFinite, [Next]_vars
               PROVE  SteadyInv' /\ CardsInv' /\ RowsFinite'
    OBVIOUS
  <2>1. CardInv
    BY DEF CardInv, SteadyInv, PagesHold, RowsFinite
  <2> QED BY <2>1, NextKeepsSteady, CardsKept, RowsStayFinite DEF RowsFinite
<1>3. BooksInv /\ SteadyInv /\ CardsInv /\ RowsFinite => CardsShowBalances
  <2> SUFFICES ASSUME BooksInv, SteadyInv, CardsInv, RowsFinite, NEW c \in Customers, ~Erased(c)
               PROVE  /\ \A m \in Merchants :
                            LET card == Card(m, c).points + Card(m, c).stamps
                            IN /\ \A n \in Shown(m, c) : card = n \/ (card > n /\ Irregular(m, c))
                               /\ \A w \in Rewards, n \in 1 .. 2 :
                                     CanRedeem(m, c, w, n) =>
                                        \/ Affords(m, c, w, n)
                                        \/ \E d \in redemptions :
                                              /\ d.merchant = m /\ d.cust = c
                                              /\ w # d.reward /\ {w, d.reward} \subseteq StampRewards
                      /\ \/ \E m \in Merchants : Irregular(m, c)
                         \/ HomeTotal(c) + MapThenSumSet(LAMBDA m : Card(m, c).stamps, Merchants)
                              = PlatformCustomerDetail(c).points
    BY DEF CardsShowBalances
  <2>1. CardInv
    BY DEF CardInv, SteadyInv, PagesHold, RowsFinite
  <2>2. ASSUME NEW m \in Merchants, NEW n \in Shown(m, c)
        PROVE  \/ Card(m, c).points + Card(m, c).stamps = n
               \/ Card(m, c).points + Card(m, c).stamps > n /\ Irregular(m, c)
    <3>1. PICK p \in Nat, s \in Nat, b \in Int :
             /\ p = Card(m, c).points /\ s = Card(m, c).stamps /\ b = Balance(m, c)
             /\ p + s >= b /\ (p > 0 => p + s = b) /\ (s <= b => p + s = b)
      BY <2>1, CardIs, BalancesAre
    <3>2. ~Irregular(m, c) => s <= b
      BY <2>1, <3>1, StampsCovered DEF Card
    <3>3. n = b
      BY <2>1, <2>2, <3>1, ShownIs
    <3> QED BY <3>1, <3>2, <3>3
  <2>3. ASSUME NEW m \in Merchants, NEW w \in Rewards, NEW n \in 1 .. 2, CanRedeem(m, c, w, n)
        PROVE  \/ Affords(m, c, w, n)
               \/ \E d \in redemptions :
                     /\ d.merchant = m /\ d.cust = c
                     /\ w # d.reward /\ {w, d.reward} \subseteq StampRewards
    <3>1. CASE w \notin StampRewards
      <4>1. n <= Card(m, c).points
        BY <2>3, <3>1 DEF CanRedeem
      <4>2. Card(m, c).points = NotNegative(Balance(m, c) - StampCount(m, c))
        BY DEF Card
      <4> QED BY <3>1, <4>1, <4>2 DEF Affords
    <3>2. CASE w \in StampRewards /\ \A d \in RedeemedOf(m, c) : d.reward = w
      <4>1. n <= RewardStamps(m, c, w)
        BY <2>3, <3>2 DEF CanRedeem
      <4>2. RewardStamps(m, c, w) <= StampCount(m, c) /\ RewardStamps(m, c, w) \in Nat
        BY <2>1, <3>2, RewardStampsAre
      <4>3. PICK s \in Nat : s = StampCount(m, c)
        BY <2>1, StampsAre DEF NotNegative
      <4>4. n <= s
        BY <4>1, <4>2, <4>3
      <4> QED BY <3>2, <4>3, <4>4 DEF Affords
    <3>3. CASE w \in StampRewards /\ \E d \in RedeemedOf(m, c) : d.reward # w
      BY <3>3 DEF RedeemedOf
    <3> QED BY <3>1, <3>2, <3>3
  <2>4. \/ \E m \in Merchants : Irregular(m, c)
        \/ HomeTotal(c) + MapThenSumSet(LAMBDA m : Card(m, c).stamps, Merchants)
              = PlatformCustomerDetail(c).points
    BY <2>1, HomeAddsUp
  <2> QED BY <2>2, <2>3, <2>4
<1> QED BY <1>1, <1>2, <1>3, BooksInvariance, PTL DEF Spec

-----------------------------------------------------------------------------
(* Volumes.  The totals of dashboards and reports count transactions, one   *)
(* part at a time: by merchant, by day, by type.  What a merchant's         *)
(* customers hold is counted from entries, one account at a time; an entry  *)
(* and its transaction move the same points, and where every transaction    *)
(* has its entry and every entry its account the two come to the same.      *)

OneAccount == \A a, b \in accounts : a.merchant = b.merchant /\ a.cust = b.cust => a = b

\* What is issued is stored as it is, and no transaction is of a time to come.
RowsAre == \A t \in transactions : (t.type = "ISSUE" => t.amount >= 0) /\ t.at <= now

VolumesInv == OneAccount /\ RowsAre

\* Nobody enrols twice.
LEMMA OneAccountKept ==
    ASSUME BooksInv, OneAccount, [Next]_vars
    PROVE  OneAccount'
<1>1. CASE UNCHANGED accounts
  BY <1>1 DEF OneAccount
<1>2. ASSUME NEW r \in Requests, Enrol(r)
      PROVE  OneAccount'
  <2>1. CASE UNCHANGED accounts
    BY <2>1 DEF OneAccount
  <2>2. CASE /\ AccountsOf(req[r].merchant, who[r]) = {}
             /\ accounts' = accounts \cup {[merchant |-> req[r].merchant, cust |-> who[r],
                                            status |-> "ACTIVE", at |-> now]}
    <3>1. PICK a : a = [merchant |-> req[r].merchant, cust |-> who[r], status |-> "ACTIVE", at |-> now]
      OBVIOUS
    <3>2. a.merchant = req[r].merchant /\ a.cust = who[r] /\ accounts' = accounts \cup {a}
      BY <2>2, <3>1
    <3>3. \A b \in accounts : ~(b.merchant = a.merchant /\ b.cust = a.cust)
      BY <2>2, <3>2 DEF AccountsOf
    <3> QED BY <3>2, <3>3 DEF OneAccount
  <2> QED BY <1>2, <2>1, <2>2 DEF Enrol, Refuse, collections
<1>3. ASSUME NEW r \in Requests, SwitchMembership(r)
      PROVE  OneAccount'
  <2>1. PICK st : st = IF req[r].op = "disable" THEN "DISABLED" ELSE "ACTIVE"
    OBVIOUS
  <2> DEFINE switched(a) == IF a \in AccountsOf(req[r].merchant, who[r]) THEN [a EXCEPT !.status = st] ELSE a
  <2>2. accounts' = {switched(a) : a \in accounts}
    BY <1>3, <2>1 DEF SwitchMembership
  <2>3. \A a \in accounts : switched(a).merchant = a.merchant /\ switched(a).cust = a.cust
    BY DEF BooksInv, BooksTyped, AccountDoc
  <2> HIDE DEF switched
  <2> QED BY <2>2, <2>3 DEF OneAccount
<1>4. ASSUME NEW r \in Requests, DeleteAccounts(r)
      PROVE  OneAccount'
  BY <1>4 DEF DeleteAccounts, OneAccount
<1> QED BY <1>1, <1>2, <1>3, <1>4, AccountsMove

\* The clock does not go back.
LEMMA ClockAdvances ==
    ASSUME BooksInv, [Next]_vars
    PROVE  now' >= now
<1>0. now \in Nat
  BY DEF BooksInv, BooksTyped
<1>1. ASSUME NEW r \in Requests, AppendRead(r) \/ (Open(r) /\ ~Refuse(r))
      PROVE  now' >= now
  BY <1>0, <1>1 DEF AppendRead, Open, ReadBook
<1>2. ASSUME NEW r \in Requests, Commit(r) \/ AppendInsert(r) \/ DeleteLedger(r)
      PROVE  now' >= now
  BY <1>0, <1>2 DEF Commit, Publish, AppendInsert, DeleteLedger
<1> QED BY <1>1, <1>2, NextIsAside DEF Aside

\* A transaction is dated when it is written, and a reversal or a mark changes neither its points nor its date.
LEMMA RowsAreKept ==
    ASSUME BooksInv, BooksInv', BalancesInv, RowsAre, [Next]_vars
    PROVE  RowsAre'
<1>0. now' >= now /\ now \in Nat /\ now' \in Nat /\ \A t \in transactions : t.at \in Nat
  BY ClockAdvances DEF BooksInv, BooksTyped, TransactionDoc
<1>1. CASE UNCHANGED transactions
  BY <1>0, <1>1 DEF RowsAre
<1>2. ASSUME NEW r \in Requests, Commit(r) \/ SaveTransaction(r)
      PROVE  RowsAre'
  <2>1. transactions' = transactions \cup {TransactionOf(r)}
    BY <1>2 DEF Commit, Publish, SaveTransaction
  <2>2. amt[r] \in Int /\ at[r] \in Nat
    BY DEF BooksInv, BooksTyped
  <2>3. TransactionOf(r).at <= now
    <3>1. CASE Commit(r)
      <4>1. Appending(r)
        BY <3>1 DEF Commit, Appending
      <4>2. at[r] < now
        BY <4>1 DEF BalancesInv, EntriesDated
      <4> QED BY <1>0, <2>2, <4>2 DEF TransactionOf
    <3>2. CASE SaveTransaction(r)
      <4>1. req[r].op = "adjust"
        BY <3>2 DEF SaveTransaction, BooksInv, InOrder, Ordered, Fits
      <4> QED BY <1>0, <4>1 DEF TransactionOf
    <3> QED BY <1>2, <3>1, <3>2
  <2>4. TransactionOf(r).type = "ISSUE" => TransactionOf(r).amount >= 0
    BY <2>2 DEF TransactionOf, StoredAmount, Abs
  <2>5. TransactionOf(r).at \in Nat
    BY <1>0, <2>2 DEF TransactionOf
  <2> QED BY <1>0, <2>1, <2>3, <2>4, <2>5 DEF RowsAre
<1>3. ASSUME NEW r \in Requests, Mark(r) \/ NoteReversal(r)
      PROVE  RowsAre'
  <2>1. PICK h : /\ transactions' = {h[t] : t \in transactions}
                 /\ \A t \in transactions : SameRow(h[t], t) /\ h[t].at = t.at
    BY <1>3, MetadataOnly
  <2> QED BY <1>0, <2>1 DEF RowsAre, SameRow
<1>4. ASSUME NEW r \in Requests, DeleteTransactions(r)
      PROVE  RowsAre'
  BY <1>0, <1>4 DEF DeleteTransactions, RowsAre
<1> QED BY <1>1, <1>2, <1>3, <1>4, RowsChange

\* The members there are at first are enrolled once, and nothing has been written.
LEMMA VolumesAtFirst ==
    ASSUME Init
    PROVE  VolumesInv
<1>1. RowsAre
  BY DEF Init, RowsAre
<1>2. OneAccount
  <2> SUFFICES ASSUME NEW a \in accounts, NEW b \in accounts, a.merchant = b.merchant, a.cust = b.cust
               PROVE  a = b
    BY DEF OneAccount
  <2>1. PICK i \in DOMAIN Members : a = [merchant |-> Members[i][1], cust |-> Members[i][2],
                                         status |-> "ACTIVE", at |-> i]
    BY DEF Init
  <2>2. PICK j \in DOMAIN Members : b = [merchant |-> Members[j][1], cust |-> Members[j][2],
                                         status |-> "ACTIVE", at |-> j]
    BY DEF Init
  <2>3. Members[i][1] = Members[j][1] /\ Members[i][2] = Members[j][2]
    BY <2>1, <2>2
  <2>4. Members[i] \in Merchants \X Customers /\ Members[j] \in Merchants \X Customers
    BY MembersAssumption
  <2>5. Members[i] = Members[j]
    BY <2>3, <2>4
  <2> QED BY <2>1, <2>2, <2>5, MembersAssumption
<1> QED BY <1>1, <1>2 DEF VolumesInv

\* All that the totals rest on.
VolumeInv == CardInv /\ VolumesInv

Board == PlatformDashboard(Merchants, {})

\* A sum is that of the function it adds up.
LEMMA SizesAddUp ==
    ASSUME NEW S, NEW w, DOMAIN w = S, \A t \in S : w[t] = Abs(t.amount)
    PROVE  TotalSize(S) = SumOf(w)
<1> DEFINE Run(h) == [T \in SUBSET S |-> IF T = {} THEN 0
                        ELSE LET x == CHOOSE x \in T : TRUE IN Abs(x.amount) + h[T \ {x}]]
           RunOf(h) == [T \in SUBSET S |-> IF T = {} THEN 0
                          ELSE LET x == CHOOSE x \in T : TRUE IN w[x] + h[T \ {x}]]
<1>1. \A T \in SUBSET S : T # {} => w[CHOOSE x \in T : TRUE] = Abs((CHOOSE x \in T : TRUE).amount)
  OBVIOUS
<1>2. \A h : Run(h) = RunOf(h)
  BY <1>1
<1>3. (CHOOSE h : h = Run(h)) = (CHOOSE h : h = RunOf(h))
  <2> HIDE DEF Run, RunOf
  <2> QED BY <1>2
<1> QED BY <1>3 DEF TotalSize, SumOf, MapThenSumSet, MapThenFoldSet

\* The points of rows.
LEMMA PointsOfRows ==
    ASSUME NEW S, NEW w, DOMAIN w = S, \A r \in S : w[r] = r.points
    PROVE  MapThenSumSet(LAMBDA r : r.points, S) = SumOf(w)
<1> DEFINE Run(h) == [T \in SUBSET S |-> IF T = {} THEN 0
                        ELSE LET x == CHOOSE x \in T : TRUE IN x.points + h[T \ {x}]]
           RunOf(h) == [T \in SUBSET S |-> IF T = {} THEN 0
                          ELSE LET x == CHOOSE x \in T : TRUE IN w[x] + h[T \ {x}]]
<1>1. \A T \in SUBSET S : T # {} => w[CHOOSE x \in T : TRUE] = (CHOOSE x \in T : TRUE).points
  OBVIOUS
<1>2. \A h : Run(h) = RunOf(h)
  BY <1>1
<1>3. (CHOOSE h : h = Run(h)) = (CHOOSE h : h = RunOf(h))
  <2> HIDE DEF Run, RunOf
  <2> QED BY <1>2
<1> QED BY <1>3 DEF SumOf, MapThenSumSet, MapThenFoldSet

\* The transactions of days of the trend.
LEMMA DaysAddUp ==
    ASSUME NEW S, NEW w, DOMAIN w = S, \A d \in S : w[d] = Trend(Merchants)[d].earn + Trend(Merchants)[d].redeem
    PROVE  MapThenSumSet(LAMBDA d : Trend(Merchants)[d].earn + Trend(Merchants)[d].redeem, S) = SumOf(w)
<1> DEFINE Run(h) == [T \in SUBSET S |-> IF T = {} THEN 0
                        ELSE LET x == CHOOSE x \in T : TRUE
                             IN (Trend(Merchants)[x].earn + Trend(Merchants)[x].redeem) + h[T \ {x}]]
           RunOf(h) == [T \in SUBSET S |-> IF T = {} THEN 0
                          ELSE LET x == CHOOSE x \in T : TRUE IN w[x] + h[T \ {x}]]
<1>1. \A T \in SUBSET S : T # {} =>
         w[CHOOSE x \in T : TRUE] =
            Trend(Merchants)[CHOOSE x \in T : TRUE].earn + Trend(Merchants)[CHOOSE x \in T : TRUE].redeem
  OBVIOUS
<1>2. \A h : Run(h) = RunOf(h)
  BY <1>1
<1>3. (CHOOSE h : h = Run(h)) = (CHOOSE h : h = RunOf(h))
  <2> HIDE DEF Run, RunOf
  <2> QED BY <1>2
<1> QED BY <1>3 DEF SumOf, MapThenSumSet, MapThenFoldSet

\* The same of the dashboard's copy.
LEMMA DaysOnBoard ==
    ASSUME NEW S, NEW w, DOMAIN w = S, \A d \in S : w[d] = Board.dailyTrend[d].earn + Board.dailyTrend[d].redeem
    PROVE  MapThenSumSet(LAMBDA d : Board.dailyTrend[d].earn + Board.dailyTrend[d].redeem, S) = SumOf(w)
<1> DEFINE Run(h) == [T \in SUBSET S |-> IF T = {} THEN 0
                        ELSE LET x == CHOOSE x \in T : TRUE
                             IN (Board.dailyTrend[x].earn + Board.dailyTrend[x].redeem) + h[T \ {x}]]
           RunOf(h) == [T \in SUBSET S |-> IF T = {} THEN 0
                          ELSE LET x == CHOOSE x \in T : TRUE IN w[x] + h[T \ {x}]]
<1>1. \A T \in SUBSET S : T # {} =>
         w[CHOOSE x \in T : TRUE] =
            Board.dailyTrend[CHOOSE x \in T : TRUE].earn + Board.dailyTrend[CHOOSE x \in T : TRUE].redeem
  OBVIOUS
<1>2. \A h : Run(h) = RunOf(h)
  BY <1>1
<1>3. (CHOOSE h : h = Run(h)) = (CHOOSE h : h = RunOf(h))
  <2> HIDE DEF Run, RunOf
  <2> QED BY <1>2
<1> QED BY <1>3 DEF SumOf, MapThenSumSet, MapThenFoldSet

\* The issues of days, and their redeems.
LEMMA IssuesOfDays ==
    ASSUME NEW daily, NEW S, NEW w, DOMAIN w = S, \A d \in S : w[d] = daily[d].earn
    PROVE  MapThenSumSet(LAMBDA d : daily[d].earn, S) = SumOf(w)
<1> DEFINE Run(h) == [T \in SUBSET S |-> IF T = {} THEN 0
                        ELSE LET x == CHOOSE x \in T : TRUE IN daily[x].earn + h[T \ {x}]]
           RunOf(h) == [T \in SUBSET S |-> IF T = {} THEN 0
                          ELSE LET x == CHOOSE x \in T : TRUE IN w[x] + h[T \ {x}]]
<1>1. \A T \in SUBSET S : T # {} => w[CHOOSE x \in T : TRUE] = daily[CHOOSE x \in T : TRUE].earn
  OBVIOUS
<1>2. \A h : Run(h) = RunOf(h)
  BY <1>1
<1>3. (CHOOSE h : h = Run(h)) = (CHOOSE h : h = RunOf(h))
  <2> HIDE DEF Run, RunOf
  <2> QED BY <1>2
<1> QED BY <1>3 DEF SumOf, MapThenSumSet, MapThenFoldSet

LEMMA RedeemsOfDays ==
    ASSUME NEW daily, NEW S, NEW w, DOMAIN w = S, \A d \in S : w[d] = daily[d].redeem
    PROVE  MapThenSumSet(LAMBDA d : daily[d].redeem, S) = SumOf(w)
<1> DEFINE Run(h) == [T \in SUBSET S |-> IF T = {} THEN 0
                        ELSE LET x == CHOOSE x \in T : TRUE IN daily[x].redeem + h[T \ {x}]]
           RunOf(h) == [T \in SUBSET S |-> IF T = {} THEN 0
                          ELSE LET x == CHOOSE x \in T : TRUE IN w[x] + h[T \ {x}]]
<1>1. \A T \in SUBSET S : T # {} => w[CHOOSE x \in T : TRUE] = daily[CHOOSE x \in T : TRUE].redeem
  OBVIOUS
<1>2. \A h : Run(h) = RunOf(h)
  BY <1>1
<1>3. (CHOOSE h : h = Run(h)) = (CHOOSE h : h = RunOf(h))
  <2> HIDE DEF Run, RunOf
  <2> QED BY <1>2
<1> QED BY <1>3 DEF SumOf, MapThenSumSet, MapThenFoldSet

\* What the rows of merchants say they issued.
LEMMA IssuedOfRows ==
    ASSUME NEW S, NEW w, DOMAIN w = S, \A m \in S : w[m] = MerchantRow(m).volume.issued
    PROVE  MapThenSumSet(LAMBDA m : MerchantRow(m).volume.issued, S) = SumOf(w)
<1> DEFINE Run(h) == [T \in SUBSET S |-> IF T = {} THEN 0
                        ELSE LET x == CHOOSE x \in T : TRUE IN MerchantRow(x).volume.issued + h[T \ {x}]]
           RunOf(h) == [T \in SUBSET S |-> IF T = {} THEN 0
                          ELSE LET x == CHOOSE x \in T : TRUE IN w[x] + h[T \ {x}]]
<1>1. \A T \in SUBSET S : T # {} => w[CHOOSE x \in T : TRUE] = MerchantRow(CHOOSE x \in T : TRUE).volume.issued
  OBVIOUS
<1>2. \A h : Run(h) = RunOf(h)
  BY <1>1
<1>3. (CHOOSE h : h = Run(h)) = (CHOOSE h : h = RunOf(h))
  <2> HIDE DEF Run, RunOf
  <2> QED BY <1>2
<1> QED BY <1>3 DEF SumOf, MapThenSumSet, MapThenFoldSet

\* What they redeemed.
LEMMA RedeemedOfRows ==
    ASSUME NEW S, NEW w, DOMAIN w = S, \A m \in S : w[m] = MerchantRow(m).volume.redeemed
    PROVE  MapThenSumSet(LAMBDA m : MerchantRow(m).volume.redeemed, S) = SumOf(w)
<1> DEFINE Run(h) == [T \in SUBSET S |-> IF T = {} THEN 0
                        ELSE LET x == CHOOSE x \in T : TRUE IN MerchantRow(x).volume.redeemed + h[T \ {x}]]
           RunOf(h) == [T \in SUBSET S |-> IF T = {} THEN 0
                          ELSE LET x == CHOOSE x \in T : TRUE IN w[x] + h[T \ {x}]]
<1>1. \A T \in SUBSET S : T # {} => w[CHOOSE x \in T : TRUE] = MerchantRow(CHOOSE x \in T : TRUE).volume.redeemed
  OBVIOUS
<1>2. \A h : Run(h) = RunOf(h)
  BY <1>1
<1>3. (CHOOSE h : h = Run(h)) = (CHOOSE h : h = RunOf(h))
  <2> HIDE DEF Run, RunOf
  <2> QED BY <1>2
<1> QED BY <1>3 DEF SumOf, MapThenSumSet, MapThenFoldSet

\* What transactions are, as far as volumes are concerned.
LEMMA TransactionsAre ==
    ASSUME VolumeInv, NEW T \in SUBSET transactions
    PROVE  /\ IsFiniteSet(T) /\ InInt(T)
           /\ \A t \in T : /\ t.id \in Requests /\ t.merchant \in Merchants /\ t.cust \in Customers
                           /\ t.type \in {"ISSUE", "REDEEM"} /\ t.amount \in Int
                           /\ t.at \in Nat /\ t.at <= now
                           /\ t.type = "ISSUE" => t.amount >= 0
           /\ \A t, u \in T : t.id = u.id => t = u
<1>1. /\ transactions \subseteq TransactionDoc /\ IsFiniteSet(transactions) /\ RowsAre
      /\ \A t, u \in transactions : t.id = u.id => t = u
  BY DEF VolumeInv, CardInv, VolumesInv, BooksInv, BooksTyped, RowsFit
<1>2. IsFiniteSet(T)
  BY <1>1, FS_Subset
<1> QED BY <1>1, <1>2 DEF TransactionDoc, InInt, RowsAre

\* The totals of transactions are sums of integers.
LEMMA AmountsAre ==
    ASSUME VolumeInv, NEW T \in SUBSET transactions
    PROVE  /\ Total(T) = AmountsOf(T) /\ Total(T) \in Int
           /\ [t \in T |-> Abs(t.amount)] \in [T -> Int]
           /\ TotalSize(T) = SumOf([t \in T |-> Abs(t.amount)]) /\ TotalSize(T) \in Int
<1>1. IsFiniteSet(T) /\ InInt(T)
  BY TransactionsAre
<1>2. Total(T) = AmountsOf(T)
  BY DEF Total, AmountsOf, MapThenSumSet, MapThenFoldSet
<1>3. PICK w : w = [t \in T |-> Abs(t.amount)]
  OBVIOUS
<1>4. w \in [T -> Int]
  BY <1>1, <1>3 DEF InInt, Abs
<1>5. TotalSize(T) = SumOf(w)
  BY <1>3, SizesAddUp
<1> QED BY <1>1, <1>2, <1>3, <1>4, <1>5, AmountsType, SumType

\* What Volume tells apart.
Plain(T) == {t \in Issues(T) : ~Stamped(t)}

LEMMA VolumeIs ==
    ASSUME NEW T
    PROVE  /\ Volume(T).count = Cardinality(T) /\ Volume(T).issued = Total(Plain(T))
           /\ Volume(T).redeemed = TotalSize(Redeems(T))
BY DEF Volume, Plain

\* What some merchants issued is what their rows say.
LEMMA IssuedByMerchants ==
    ASSUME VolumeInv, NEW M, IsFiniteSet(M),
           NEW w \in [M -> Int], \A m \in M : w[m] = Volume(At({m})).issued
    PROVE  SumOf(w) = AmountsOf(Plain(At(M)))
<1>1. PICK I : I = Plain(At(M))
  OBVIOUS
<1>2. I \in SUBSET transactions
  BY <1>1 DEF Plain, Issues, At
<1>3. PICK of : of = [t \in I |-> t.merchant]
  OBVIOUS
<1>4. \A t \in I : of[t] \in M
  BY <1>1, <1>3 DEF Plain, Issues, At
<1>5. ASSUME NEW m \in M
      PROVE  w[m] = AmountsOf({t \in I : of[t] = m}) /\ w[m] \in Int
  <2>1. {t \in I : of[t] = m} = Plain(At({m}))
    BY <1>1, <1>3 DEF Plain, Issues, At
  <2>2. Plain(At({m})) \in SUBSET transactions
    BY DEF Plain, Issues, At
  <2>3. w[m] = Total(Plain(At({m})))
    BY VolumeIs
  <2> QED BY <2>1, <2>2, <2>3, AmountsAre
<1>6. w \in [M -> Int] /\ \A m \in M : w[m] = AmountsOf({t \in I : of[t] = m})
  BY <1>5
<1>7. SumOf(w) = AmountsOf(I)
  <2>1. IsFiniteSet(I) /\ InInt(I)
    BY <1>2, TransactionsAre
  <2>2. w \in [M -> Int]
    BY <1>6
  <2>3. \A m \in M : w[m] = AmountsOf({t \in I : of[t] = m})
    BY <1>6
  <2> QED BY <1>4, <2>1, <2>2, <2>3, AmountsByParts
<1> QED BY <1>1, <1>7

\* The sizes of what was redeemed at some merchants.
SizesOf(M) == [t \in Redeems(At(M)) |-> Abs(t.amount)]

LEMMA SizesAre ==
    ASSUME VolumeInv, NEW M
    PROVE  /\ Redeems(At(M)) \in SUBSET transactions /\ IsFiniteSet(Redeems(At(M)))
           /\ SizesOf(M) \in [Redeems(At(M)) -> Int] /\ SumOf(SizesOf(M)) \in Int
           /\ TotalSize(Redeems(At(M))) = SumOf(SizesOf(M))
<1>1. Redeems(At(M)) \in SUBSET transactions
  BY DEF Redeems, At
<1>2. SizesOf(M) \in [Redeems(At(M)) -> Int] /\ TotalSize(Redeems(At(M))) = SumOf(SizesOf(M))
  BY <1>1, AmountsAre DEF SizesOf
<1>3. IsFiniteSet(Redeems(At(M)))
  BY <1>1, TransactionsAre
<1> QED BY <1>1, <1>2, <1>3, SumType

\* What some merchants redeemed is what their rows say, whatever sign it is stored with.
LEMMA RedeemedByMerchants ==
    ASSUME VolumeInv, NEW M, IsFiniteSet(M),
           NEW w \in [M -> Int], \A m \in M : w[m] = Volume(At({m})).redeemed
    PROVE  SumOf(w) = SumOf(SizesOf(M))
<1>1. PICK D : D = Redeems(At(M))
  OBVIOUS
<1>2. PICK of, v : of = [t \in D |-> t.merchant] /\ v = SizesOf(M)
  OBVIOUS
<1>3. \A t \in D : of[t] \in M
  BY <1>1, <1>2 DEF Redeems, At
<1>4. v \in [D -> Int] /\ IsFiniteSet(D)
  BY <1>1, <1>2, SizesAre
<1>5. ASSUME NEW m \in M
      PROVE  w[m] = SumOf(Part(v, {t \in D : of[t] = m})) /\ w[m] \in Int
  <2>1. {t \in D : of[t] = m} = Redeems(At({m}))
    BY <1>1, <1>2 DEF Redeems, At
  <2>2. Redeems(At({m})) \subseteq D
    BY <1>1 DEF Redeems, At
  <2>3. Part(v, Redeems(At({m}))) = SizesOf({m})
    BY <1>1, <1>2, <2>2 DEF Part, SizesOf
  <2>4. w[m] = TotalSize(Redeems(At({m})))
    BY VolumeIs
  <2> QED BY <2>1, <2>3, <2>4, SizesAre
<1>6. w \in [M -> Int]
  BY <1>5
<1>7. \A m \in M : w[m] = SumOf(Part(v, {t \in D : of[t] = m}))
  BY <1>5
<1>8. SumOf(w) = SumOf(v)
  <2>1. IsFiniteSet(D)
    BY <1>4
  <2>2. v \in [D -> Int]
    BY <1>4
  <2> QED BY <1>3, <1>6, <1>7, <2>1, <2>2, SumByParts
<1> QED BY <1>2, <1>8

\* A later tick is not of an earlier day.
LEMMA Quotients ==
    ASSUME NEW a \in Nat, NEW b \in Nat, NEW k \in Nat \ {0}, a <= b
    PROVE  a \div k \in Nat /\ b \div k \in Nat /\ a \div k <= b \div k
<1>1. a \div k <= b \div k
  OBVIOUS
<1>2. a \div k \in Nat /\ b \div k \in Nat
  OBVIOUS
<1> QED BY <1>1, <1>2

OnDays(T, D) == {t \in T : Day(t.at) \in D}

\* No transaction is of a day to come.
LEMMA DaysAre ==
    ASSUME VolumeInv, NEW t \in transactions
    PROVE  Day(t.at) \in Nat /\ Today \in Nat /\ Day(t.at) <= Today
<1>1. t.at \in Nat /\ now \in Nat /\ t.at <= now /\ DayLength \in Nat \ {0}
  <2>1. t.at \in Nat /\ t.at <= now
    BY TransactionsAre
  <2> QED BY <2>1, ReportsAssumption DEF VolumeInv, CardInv, BooksInv, BooksTyped
<1> QED BY <1>1, Quotients DEF Day, Today

\* Issues and redeems are all there is.
LEMMA TypesAddUp ==
    ASSUME VolumeInv, NEW T \in SUBSET transactions
    PROVE  /\ Cardinality(Issues(T)) \in Nat /\ Cardinality(Redeems(T)) \in Nat
           /\ Cardinality(Issues(T)) + Cardinality(Redeems(T)) = Cardinality(T)
<1>1. PICK I, D : I = Issues(T) /\ D = Redeems(T)
  OBVIOUS
<1>2. I \cup D = T /\ I \cap D = {} /\ I \in SUBSET T /\ D \in SUBSET T
  BY <1>1, TransactionsAre DEF Issues, Redeems
<1>3. IsFiniteSet(I) /\ IsFiniteSet(D)
  BY <1>2, TransactionsAre, FS_Subset
<1>4. Cardinality(I \cup D) = Cardinality(I) + Cardinality(D) - Cardinality({})
  BY <1>2, <1>3, FS_Union
<1>5. PICK i \in Nat, d \in Nat : i = Cardinality(I) /\ d = Cardinality(D)
  BY <1>3, FS_CardinalityType
<1>6. Cardinality({}) = 0
  BY FS_EmptySet
<1>7. Cardinality(I \cup D) = i + d
  BY <1>4, <1>5, <1>6
<1> QED BY <1>1, <1>2, <1>5, <1>7

\* A row of the trend counts the transactions of its day.
LEMMA TrendIs ==
    ASSUME VolumeInv, NEW M, NEW d \in DOMAIN Trend(M)
    PROVE  Trend(M)[d].earn + Trend(M)[d].redeem = Cardinality(OnDays(At(M), {d}))
<1>1. PICK T : T = OnDays(At(M), {d})
  OBVIOUS
<1>2. T \in SUBSET transactions
  BY <1>1 DEF At, OnDays
<1>3. Trend(M)[d].earn = Cardinality(Issues(T)) /\ Trend(M)[d].redeem = Cardinality(Redeems(T))
  BY <1>1 DEF Trend, DayRow, OnDays
<1> QED BY <1>1, <1>2, <1>3, TypesAddUp

\* The trend is of two weeks, up to today.
LEMMA TrendFinite ==
    ASSUME VolumeInv
    PROVE  /\ DOMAIN Trend(Merchants) = (Today - 2 * Week + 1) .. Today
           /\ IsFiniteSet(DOMAIN Trend(Merchants))
<1>1. now \in Nat
  BY DEF VolumeInv, CardInv, BooksInv, BooksTyped
<1>2. Today \in Nat
  BY <1>1, ReportsAssumption, Quotients DEF Today, Day
<1>3. Today - 2 * Week + 1 \in Int /\ Today \in Int
  BY <1>2, ReportsAssumption
<1> QED BY <1>3, FS_Interval DEF Trend

\* Any part of the trend, day by day, counts the transactions of its days.
LEMMA TrendCounts ==
    ASSUME VolumeInv, NEW D \in SUBSET DOMAIN Trend(Merchants)
    PROVE  /\ MapThenSumSet(LAMBDA d : Trend(Merchants)[d].earn + Trend(Merchants)[d].redeem, D)
                = Cardinality(OnDays(At(Merchants), D))
           /\ IsFiniteSet(OnDays(At(Merchants), D))
<1>1. PICK T, S, of, w : /\ T = At(Merchants) /\ S = OnDays(T, D) /\ of = [t \in S |-> Day(t.at)]
                         /\ w = [d \in D |-> Trend(Merchants)[d].earn + Trend(Merchants)[d].redeem]
  OBVIOUS
<1>2. T \in SUBSET transactions /\ S \in SUBSET transactions
  BY <1>1 DEF At, OnDays
<1>3. IsFiniteSet(S)
  BY <1>2, TransactionsAre
<1>4. IsFiniteSet(D)
  BY TrendFinite, FS_Subset
<1>5. \A t \in S : of[t] \in D
  BY <1>1 DEF OnDays
<1>6. ASSUME NEW d \in D
      PROVE  w[d] = Cardinality({t \in S : of[t] = d}) /\ w[d] \in Int
  <2>1. {t \in S : of[t] = d} = OnDays(T, {d})
    BY <1>1 DEF OnDays
  <2>2. {t \in S : of[t] = d} \in SUBSET transactions
    BY <1>2
  <2>3. Cardinality({t \in S : of[t] = d}) \in Nat
    BY <2>2, TransactionsAre, FS_CardinalityType
  <2>4. Trend(Merchants)[d].earn + Trend(Merchants)[d].redeem = Cardinality(OnDays(T, {d}))
    BY <1>1, TrendIs
  <2>5. w[d] = Trend(Merchants)[d].earn + Trend(Merchants)[d].redeem
    BY <1>1
  <2> QED BY <2>1, <2>3, <2>4, <2>5
<1>7. w \in [D -> Int]
  BY <1>1, <1>6
<1>8. \A d \in D : w[d] = Cardinality({t \in S : of[t] = d})
  BY <1>6
<1>9. SumOf(w) = Cardinality(S)
  BY <1>3, <1>4, <1>5, <1>7, <1>8, CountByParts
<1>10. MapThenSumSet(LAMBDA d : Trend(Merchants)[d].earn + Trend(Merchants)[d].redeem, D) = SumOf(w)
  <2>1. DOMAIN w = D
    BY <1>1
  <2>2. \A d \in D : w[d] = Trend(Merchants)[d].earn + Trend(Merchants)[d].redeem
    BY <1>1
  <2> QED BY <2>1, <2>2, DaysAddUp
<1> QED BY <1>1, <1>3, <1>9, <1>10

\* A forecast is at most half as much again as the last week, rounded up.
LEMMA ProjectionBounded ==
    ASSUME NEW p \in Nat, NEW r \in Nat
    PROVE  projectForward(p, r) \in Int /\ 2 * projectForward(p, r) <= 3 * r + 1
<1>1. CASE p = 0
  BY <1>1 DEF projectForward
<1>2. CASE p > 0 /\ 10 * r < 6 * p
  <2>1. projectForward(p, r) = Rounded(6 * r, 10)
    BY <1>2 DEF projectForward
  <2>2. 2 * ((2 * (6 * r) + 10) \div (2 * 10)) <= 3 * r + 1
    OBVIOUS
  <2> QED BY <2>1, <2>2 DEF Rounded
<1>3. CASE p > 0 /\ 10 * r > 15 * p
  <2>1. projectForward(p, r) = Rounded(3 * r, 2)
    BY <1>3 DEF projectForward
  <2>2. 2 * ((2 * (3 * r) + 2) \div (2 * 2)) <= 3 * r + 1
    OBVIOUS
  <2> QED BY <2>1, <2>2 DEF Rounded
<1>4. CASE p > 0 /\ ~(10 * r < 6 * p) /\ ~(10 * r > 15 * p)
  <2>1. projectForward(p, r) = Rounded(r * r, p)
    BY <1>4 DEF projectForward
  <2>2. 2 * ((2 * (r * r) + p) \div (2 * p)) <= 3 * r + 1
    BY <1>4
  <2>3. (2 * (r * r) + p) \div (2 * p) \in Int
    BY <1>4
  <2> QED BY <2>1, <2>2, <2>3 DEF Rounded
<1> QED BY <1>1, <1>2, <1>3, <1>4

LEMMA ForecastBounded ==
    ASSUME VolumeInv
    PROVE  2 * Forecast(Trend(Merchants)).transactions <= 3 * Cardinality(At(Merchants)) + 1
<1>1. PICK P, R : /\ P = {d \in DOMAIN Trend(Merchants) : d <= Today - Week}
                  /\ R = DOMAIN Trend(Merchants) \ P
  OBVIOUS
<1>2. P \in SUBSET DOMAIN Trend(Merchants) /\ R \in SUBSET DOMAIN Trend(Merchants)
  BY <1>1
<1>3. PICK p, r : p = Cardinality(OnDays(At(Merchants), P)) /\ r = Cardinality(OnDays(At(Merchants), R))
  OBVIOUS
<1>4. /\ MapThenSumSet(LAMBDA d : Trend(Merchants)[d].earn + Trend(Merchants)[d].redeem, P) = p
      /\ MapThenSumSet(LAMBDA d : Trend(Merchants)[d].earn + Trend(Merchants)[d].redeem, R) = r
  BY <1>2, <1>3, TrendCounts
<1>5. /\ p \in Nat /\ r \in Nat /\ Cardinality(At(Merchants)) \in Nat
      /\ r <= Cardinality(At(Merchants))
  <2>1. At(Merchants) \in SUBSET transactions
    BY DEF At
  <2>2. IsFiniteSet(At(Merchants))
    BY <2>1, TransactionsAre
  <2>3. OnDays(At(Merchants), P) \subseteq At(Merchants) /\ OnDays(At(Merchants), R) \subseteq At(Merchants)
    BY DEF OnDays
  <2> QED BY <1>3, <2>2, <2>3, FS_Subset, FS_CardinalityType
<1>6. Forecast(Trend(Merchants)).transactions = projectForward(p, r)
  <2>1. Forecast(Trend(Merchants)).transactions
          = projectForward(MapThenSumSet(LAMBDA d : Trend(Merchants)[d].earn + Trend(Merchants)[d].redeem, P),
                           MapThenSumSet(LAMBDA d : Trend(Merchants)[d].earn + Trend(Merchants)[d].redeem, R))
    BY <1>1 DEF Forecast
  <2> QED BY <1>4, <2>1
<1>7. PICK f \in Int, n \in Nat : f = projectForward(p, r) /\ n = Cardinality(At(Merchants))
  BY <1>5, ProjectionBounded
<1>8. 2 * f <= 3 * r + 1 /\ r <= n
  BY <1>5, <1>7, ProjectionBounded
<1> QED BY <1>5, <1>6, <1>7, <1>8

\* The days of the trend count every transaction, once the trend reaches back to the first.
LEMMA CountByDays ==
    ASSUME VolumeInv
    PROVE  0 \in DOMAIN Board.dailyTrend =>
              Volume(At(Merchants)).count
                = MapThenSumSet(LAMBDA d : Board.dailyTrend[d].earn + Board.dailyTrend[d].redeem, DOMAIN Board.dailyTrend)
<1>1. Board.dailyTrend = Trend(Merchants)
  BY DEF Board, PlatformDashboard
<1>2. PICK D : D = DOMAIN Trend(Merchants)
  OBVIOUS
<1>3. MapThenSumSet(LAMBDA d : Trend(Merchants)[d].earn + Trend(Merchants)[d].redeem, D)
        = Cardinality(OnDays(At(Merchants), D))
  BY <1>2, TrendCounts
<1>4. 0 \in D => OnDays(At(Merchants), D) = At(Merchants)
  <2>1. ASSUME 0 \in D, NEW t \in At(Merchants)
        PROVE  Day(t.at) \in D
    <3>1. Day(t.at) \in Nat /\ Today \in Nat /\ Day(t.at) <= Today
      BY DaysAre DEF At
    <3>2. D = (Today - 2 * Week + 1) .. Today /\ Week \in Nat
      BY <1>2, TrendFinite, ReportsAssumption
    <3> QED BY <2>1, <3>1, <3>2
  <2> QED BY <2>1 DEF OnDays
<1>5. MapThenSumSet(LAMBDA d : Board.dailyTrend[d].earn + Board.dailyTrend[d].redeem, D)
        = MapThenSumSet(LAMBDA d : Trend(Merchants)[d].earn + Trend(Merchants)[d].redeem, D)
  <2>1. PICK w : w = [d \in D |-> Trend(Merchants)[d].earn + Trend(Merchants)[d].redeem]
    OBVIOUS
  <2>2. DOMAIN w = D
    BY <2>1
  <2>3. \A d \in D : w[d] = Trend(Merchants)[d].earn + Trend(Merchants)[d].redeem
    BY <2>1
  <2>4. \A d \in D : w[d] = Board.dailyTrend[d].earn + Board.dailyTrend[d].redeem
    BY <1>1, <2>3
  <2>5. MapThenSumSet(LAMBDA d : Board.dailyTrend[d].earn + Board.dailyTrend[d].redeem, D) = SumOf(w)
    BY <2>2, <2>4, DaysOnBoard
  <2>6. MapThenSumSet(LAMBDA d : Trend(Merchants)[d].earn + Trend(Merchants)[d].redeem, D) = SumOf(w)
    BY <2>2, <2>3, DaysAddUp
  <2> QED BY <2>5, <2>6
<1> QED BY <1>1, <1>2, <1>3, <1>4, <1>5, VolumeIs

\* A week made of its days.
LEMMA WeekIs ==
    ASSUME NEW daily, NEW w, NEW v, DOMAIN w = DOMAIN daily, DOMAIN v = DOMAIN daily,
           \A d \in DOMAIN daily : w[d] = daily[d].earn /\ v[d] = daily[d].redeem
    PROVE  /\ aggregateWeeklyFromDaily(daily).issues = SumOf(w)
           /\ aggregateWeeklyFromDaily(daily).redeems = SumOf(v)
<1>1. aggregateWeeklyFromDaily(daily).issues = MapThenSumSet(LAMBDA d : daily[d].earn, DOMAIN daily)
  BY DEF aggregateWeeklyFromDaily
<1>2. aggregateWeeklyFromDaily(daily).redeems = MapThenSumSet(LAMBDA d : daily[d].redeem, DOMAIN daily)
  BY DEF aggregateWeeklyFromDaily
<1>3. MapThenSumSet(LAMBDA d : daily[d].earn, DOMAIN daily) = SumOf(w)
  BY IssuesOfDays
<1>4. MapThenSumSet(LAMBDA d : daily[d].redeem, DOMAIN daily) = SumOf(v)
  BY RedeemsOfDays
<1> QED BY <1>1, <1>2, <1>3, <1>4

\* No day is better than all customers together.
LEMMA BestIs ==
    ASSUME NEW n \in Nat, NEW daily, \A d \in DOMAIN daily : daily[d].customers \in 0 .. n
    PROVE  aggregateWeeklyFromDaily(daily).active <= n
<1>1. PICK B : B = {0} \cup {daily[d].customers : d \in DOMAIN daily}
  OBVIOUS
<1>2. aggregateWeeklyFromDaily(daily).active = Max(B)
  BY <1>1 DEF aggregateWeeklyFromDaily
<1>3. B \in SUBSET (0 .. n) /\ B # {}
  BY <1>1
<1>4. Max(B) \in 0 .. n
  BY <1>3, Largest
<1> QED BY <1>2, <1>4

\* Issues and redeems of the days are the transactions of the week.
LEMMA WeekCounts ==
    ASSUME VolumeInv, NEW m, NEW days, IsFiniteSet(days), NEW daily, DOMAIN daily = days,
           \A d \in days : daily[d].earn \in Int, \A d \in days : daily[d].redeem \in Int,
           \A d \in days : daily[d].earn + daily[d].redeem = Cardinality(On(m, {d}))
    PROVE  aggregateWeeklyFromDaily(daily).issues + aggregateWeeklyFromDaily(daily).redeems
              = Cardinality(On(m, days))
<1>1. PICK w, v, z : /\ w = [d \in days |-> daily[d].earn] /\ v = [d \in days |-> daily[d].redeem]
                     /\ z = [d \in days |-> w[d] + v[d]]
  OBVIOUS
<1>2. w \in [days -> Int]
  BY <1>1
<1>3. v \in [days -> Int]
  BY <1>1
<1>4. z \in [days -> Int]
  BY <1>1, <1>2, <1>3
<1>5. \A d \in days : z[d] = w[d] + v[d]
  BY <1>1
<1>6. SumOf(z) = SumOf(w) + SumOf(v)
  BY <1>2, <1>3, <1>4, <1>5, SumPlus
<1>7. /\ aggregateWeeklyFromDaily(daily).issues = SumOf(w)
      /\ aggregateWeeklyFromDaily(daily).redeems = SumOf(v)
  BY <1>1, WeekIs
<1>8. PICK S, of : S = On(m, days) /\ of = [t \in S |-> Day(t.at)]
  OBVIOUS
<1>9. IsFiniteSet(S) /\ \A t \in S : of[t] \in days
  <2>1. S \in SUBSET transactions
    BY <1>8 DEF On, At
  <2>2. IsFiniteSet(S)
    BY <2>1, TransactionsAre
  <2> QED BY <1>8, <2>2 DEF On
<1>10. ASSUME NEW d \in days
       PROVE  z[d] = Cardinality({t \in S : of[t] = d})
  <2>1. {t \in S : of[t] = d} = On(m, {d})
    BY <1>8 DEF On
  <2>2. z[d] = daily[d].earn + daily[d].redeem
    BY <1>1
  <2> QED BY <2>1, <2>2
<1>11. SumOf(z) = Cardinality(S)
  <2>1. \A t \in S : of[t] \in days
    BY <1>9
  <2>2. IsFiniteSet(S)
    BY <1>9
  <2>3. \A d \in days : z[d] = Cardinality({t \in S : of[t] = d})
    BY <1>10
  <2> QED BY <1>4, <2>1, <2>2, <2>3, CountByParts
<1> QED BY <1>6, <1>7, <1>8, <1>11

\* The weekly report says of every day what the chart says, and of the week no
\* more than there is.
LEMMA ReportAgrees ==
    ASSUME VolumeInv, NEW m \in Merchants,
           NEW report, report = getWeeklyReport(m, Today - Week + 1, <<>>)
    PROVE  /\ \A d \in DOMAIN report.daily : report.daily[d].earn = Chart(m)[d].earn
                                           /\ report.daily[d].redeem = Chart(m)[d].redeem
           /\ report.weekly.issues + report.weekly.redeems <= MerchantRow(m).volume.count
           /\ report.weekly.active <= Cardinality(CustomersIn(At({m})))
<1>1. PICK days : days = (Today - Week + 1) .. Today
  OBVIOUS
<1>2. days = (Today - Week + 1) .. ((Today - Week + 1) + Week - 1) /\ IsFiniteSet(days)
  <2>1. now \in Nat
    BY DEF VolumeInv, CardInv, BooksInv, BooksTyped
  <2>2. Today \in Nat
    BY <2>1, ReportsAssumption, Quotients DEF Today, Day
  <2>3. Today - Week + 1 \in Int /\ Today \in Int /\ (Today - Week + 1) + Week - 1 = Today
    BY <2>2, ReportsAssumption
  <2> QED BY <1>1, <2>3, FS_Interval
<1>3. PICK daily : daily = [d \in days |->
            [earn |-> Cardinality(Issues(On(m, {d}))), redeem |-> Cardinality(Redeems(On(m, {d}))),
             customers |-> Cardinality(CustomersIn(On(m, {d}))),
             repeat |-> Cardinality(RepeatCustomers(On(m, {d})))]]
  OBVIOUS
<1>4. PICK n : n = Cardinality(RepeatCustomers(On(m, days)))
  OBVIOUS
<1>5. report = [daily |-> daily, weekly |-> [aggregateWeeklyFromDaily(daily) EXCEPT !.repeat = n]]
  <2>1. report = calculateDailyMetricsFromTransactions(m, days)
    <3>1. \A S : S \intersect DOMAIN <<>> = {}
      OBVIOUS
    <3> QED BY <1>2, <3>1 DEF getWeeklyReport
  <2> QED BY <1>3, <1>4, <2>1 DEF calculateDailyMetricsFromTransactions
<1>6. PICK week : week = aggregateWeeklyFromDaily(daily)
  OBVIOUS
<1>7. /\ report.daily = daily /\ report.weekly.issues = week.issues
      /\ report.weekly.redeems = week.redeems /\ report.weekly.active = week.active
  <2>1. PICK a, b, c, d : week = [active |-> a, repeat |-> b, issues |-> c, redeems |-> d]
    BY <1>6 DEF aggregateWeeklyFromDaily
  <2>2. report = [daily |-> daily, weekly |-> [week EXCEPT !.repeat = n]]
    BY <1>5, <1>6
  <2>3. report.weekly = [week EXCEPT !.repeat = n] /\ report.daily = daily
    BY <2>2
  <2>4. report.weekly = [active |-> a, repeat |-> n, issues |-> c, redeems |-> d]
    BY <2>1, <2>3
  <2> QED BY <2>1, <2>3, <2>4
<1>8. ASSUME NEW d \in days
      PROVE  /\ daily[d].earn = Chart(m)[d].earn /\ daily[d].redeem = Chart(m)[d].redeem
             /\ daily[d].earn \in Nat /\ daily[d].redeem \in Nat
             /\ daily[d].earn + daily[d].redeem = Cardinality(On(m, {d}))
             /\ daily[d].customers \in 0 .. Cardinality(CustomersIn(At({m})))
  <2>1. PICK T, C : T = On(m, {d}) /\ C = CustomersIn(At({m}))
    OBVIOUS
  <2>2. T \in SUBSET transactions /\ T \subseteq At({m}) /\ T = {t \in At({m}) : Day(t.at) = d}
    BY <2>1 DEF On, At
  <2>3. /\ daily[d].earn = Cardinality(Issues(T)) /\ daily[d].redeem = Cardinality(Redeems(T))
        /\ daily[d].customers = Cardinality(CustomersIn(T))
    BY <1>3, <2>1
  <2>4. Chart(m)[d].earn = Cardinality(Issues(T)) /\ Chart(m)[d].redeem = Cardinality(Redeems(T))
    BY <1>1, <2>2 DEF Chart, DayRow
  <2>5. Cardinality(CustomersIn(T)) \in 0 .. Cardinality(C)
    <3>1. IsFiniteSet(C)
      <4>1. At({m}) \in SUBSET transactions
        BY DEF At
      <4>2. IsFiniteSet(At({m}))
        BY <4>1, TransactionsAre
      <4>3. [t \in At({m}) |-> t.cust] \in Surjection(At({m}), C)
        BY <2>1 DEF Surjection, CustomersIn
      <4> QED BY <4>2, <4>3, FS_Surjection
    <3>2. CustomersIn(T) \subseteq C
      BY <2>1, <2>2 DEF CustomersIn
    <3> QED BY <3>1, <3>2, FS_Subset, FS_CardinalityType
  <2> QED BY <2>1, <2>2, <2>3, <2>4, <2>5, TypesAddUp
<1>9. week.active <= Cardinality(CustomersIn(At({m})))
  <2>1. PICK k : k = Cardinality(CustomersIn(At({m})))
    OBVIOUS
  <2>2. k \in Nat
    <3>1. At({m}) \in SUBSET transactions
      BY DEF At
    <3>2. IsFiniteSet(At({m}))
      BY <3>1, TransactionsAre
    <3>3. [t \in At({m}) |-> t.cust] \in Surjection(At({m}), CustomersIn(At({m})))
      BY DEF Surjection, CustomersIn
    <3> QED BY <2>1, <3>2, <3>3, FS_Surjection, FS_CardinalityType
  <2>3. \A d \in DOMAIN daily : daily[d].customers \in 0 .. k
    BY <1>3, <1>8, <2>1
  <2> QED BY <1>6, <2>1, <2>2, <2>3, BestIs
<1>10. week.issues + week.redeems = Cardinality(On(m, days))
  <2>1. \A d \in days : daily[d].earn \in Nat /\ daily[d].redeem \in Nat
    BY <1>8
  <2>2. \A d \in days : daily[d].earn \in Int
    BY <2>1
  <2>3. \A d \in days : daily[d].redeem \in Int
    BY <2>1
  <2>4. \A d \in days : daily[d].earn + daily[d].redeem = Cardinality(On(m, {d}))
    BY <1>8
  <2>5. DOMAIN daily = days
    BY <1>3
  <2>6. IsFiniteSet(days)
    BY <1>2
  <2> QED BY <1>6, <2>2, <2>3, <2>4, <2>5, <2>6, WeekCounts
<1>11. Cardinality(On(m, days)) <= MerchantRow(m).volume.count
  <2>1. On(m, days) \subseteq At({m}) /\ At({m}) \in SUBSET transactions
    BY DEF On, At
  <2>2. IsFiniteSet(At({m}))
    BY <2>1, TransactionsAre
  <2>3. MerchantRow(m).volume.count = Cardinality(At({m}))
    BY VolumeIs DEF MerchantRow
  <2> QED BY <2>1, <2>2, <2>3, FS_Subset
<1> QED BY <1>3, <1>7, <1>8, <1>9, <1>10, <1>11

\* The entries at a merchant, and the row of an account in the merchant's list.
EntriesAt(m) == {e \in entries : e.merchant = m}
NobodyErased == \A c \in Customers : ~Erased(c)

\* The rows of a merchant's customers, one for each account.
LEMMA RowsOfCustomers ==
    ASSUME VolumeInv, IsFiniteSet(accounts), NEW m \in Merchants
    PROVE  /\ IsFiniteSet(CustomerList(m, ""))
           /\ \A r \in CustomerList(m, "") :
                 \E a \in accounts : /\ a.merchant = m /\ r = CustomerRow(a)
                                     /\ r.cust = a.cust /\ r.points = AmountsOf(Book(m, a.cust))
           /\ \A a \in accounts : a.merchant = m => CustomerRow(a) \in CustomerList(m, "")
<1>1. PICK A, R : A = {a \in accounts : a.merchant = m} /\ R = CustomerList(m, "")
  OBVIOUS
<1>2. R = {CustomerRow(a) : a \in A}
  BY <1>1 DEF CustomerList
<1>3. IsFiniteSet(R)
  <2>1. IsFiniteSet(A)
    BY <1>1, FS_Subset
  <2>2. [a \in A |-> CustomerRow(a)] \in Surjection(A, R)
    BY <1>2 DEF Surjection
  <2> QED BY <2>1, <2>2, FS_Surjection
<1>4. ASSUME NEW a \in A
      PROVE  CustomerRow(a).cust = a.cust /\ CustomerRow(a).points = AmountsOf(Book(m, a.cust))
  <2>1. CustomerRow(a).cust = a.cust /\ CustomerRow(a).points = Balance(m, a.cust)
    BY <1>1 DEF CustomerRow
  <2> QED BY <2>1, BalanceIs
<1>5. \A a \in accounts : a.merchant = m => CustomerRow(a) \in R
  BY <1>1, <1>2
<1>6. ASSUME NEW r \in R
      PROVE  \E a \in accounts : /\ a.merchant = m /\ r = CustomerRow(a)
                                /\ r.cust = a.cust /\ r.points = AmountsOf(Book(m, a.cust))
  <2>1. PICK a \in A : r = CustomerRow(a)
    BY <1>2
  <2> QED BY <1>1, <1>4, <2>1
<1> QED BY <1>1, <1>3, <1>5, <1>6

\* What the customers of a merchant hold is what the entries at the merchant add up to.
LEMMA HeldAre ==
    ASSUME VolumeInv, IsFiniteSet(accounts), NEW m \in Merchants, NobodyErased
    PROVE  MapThenSumSet(LAMBDA r : r.points, CustomerList(m, "")) = AmountsOf(EntriesAt(m))
<1>1. PICK R, E : R = CustomerList(m, "") /\ E = EntriesAt(m)
  OBVIOUS
<1>2. IsFiniteSet(E) /\ InInt(E) /\ E \in SUBSET entries
  <2>1. E \in SUBSET entries
    BY <1>1 DEF EntriesAt
  <2> QED BY <2>1, BooksAddUp DEF VolumeInv, CardInv
<1>3. PICK acc : acc = [e \in E |-> CHOOSE a \in accounts : a.merchant = m /\ a.cust = e.cust]
  OBVIOUS
<1>4. ASSUME NEW e \in E
      PROVE  acc[e] \in accounts /\ acc[e].merchant = m /\ acc[e].cust = e.cust
  <2>1. e.merchant = m /\ e.cust \in Customers /\ e \in entries
    BY <1>1 DEF EntriesAt, VolumeInv, CardInv, BooksInv, BooksTyped
  <2>2. HasAccount(m, e.cust)
    BY <2>1 DEF NobodyErased, VolumeInv, CardInv, CardsInv, Enrolled
  <2>3. \E a \in accounts : a.merchant = m /\ a.cust = e.cust
    BY <2>2 DEF HasAccount, AccountsOf
  <2> QED BY <1>3, <2>3
<1>5. PICK of, w : of = [e \in E |-> CustomerRow(acc[e])] /\ w = [r \in R |-> r.points]
  OBVIOUS
<1>6. IsFiniteSet(R) /\ \A e \in E : of[e] \in R
  BY <1>1, <1>4, <1>5, RowsOfCustomers
<1>7. ASSUME NEW r \in R
      PROVE  w[r] = AmountsOf({e \in E : of[e] = r}) /\ w[r] \in Int
  <2>1. PICK a \in accounts : /\ a.merchant = m /\ r = CustomerRow(a)
                              /\ r.cust = a.cust /\ r.points = AmountsOf(Book(m, a.cust))
    BY <1>1, RowsOfCustomers
  <2>2. ASSUME NEW e \in E
        PROVE  of[e] = r <=> e.cust = a.cust
    <3>1. of[e] = CustomerRow(acc[e]) /\ CustomerRow(acc[e]).cust = e.cust
      BY <1>4, <1>5 DEF CustomerRow
    <3>2. e.cust = a.cust => acc[e] = a
      BY <1>4, <2>1 DEF VolumeInv, VolumesInv, OneAccount
    <3> QED BY <2>1, <3>1, <3>2
  <2>3. {e \in E : of[e] = r} = Book(m, a.cust)
    BY <1>1, <2>2 DEF Book, EntriesAt
  <2>4. AmountsOf(Book(m, a.cust)) \in Int
    <3>1. Book(m, a.cust) \in SUBSET entries
      BY DEF Book
    <3> QED BY <3>1, BooksAddUp, AmountsType DEF VolumeInv, CardInv
  <2> QED BY <1>5, <2>1, <2>3, <2>4
<1>8. w \in [R -> Int] /\ \A r \in R : w[r] = AmountsOf({e \in E : of[e] = r})
  BY <1>5, <1>7
<1>9. SumOf(w) = AmountsOf(E)
  <2>1. IsFiniteSet(R)
    BY <1>6
  <2>2. \A e \in E : of[e] \in R
    BY <1>6
  <2>3. w \in [R -> Int]
    BY <1>8
  <2>4. \A r \in R : w[r] = AmountsOf({e \in E : of[e] = r})
    BY <1>8
  <2>5. IsFiniteSet(E) /\ InInt(E)
    BY <1>2
  <2> QED BY <2>1, <2>2, <2>3, <2>4, <2>5, AmountsByParts
<1>10. MapThenSumSet(LAMBDA r : r.points, R) = SumOf(w)
  <2>1. DOMAIN w = R
    BY <1>5
  <2>2. \A r \in R : w[r] = r.points
    BY <1>5
  <2> QED BY <2>1, <2>2, PointsOfRows
<1> QED BY <1>1, <1>9, <1>10

\* The points of a merchant's transactions, with the sign they are shown with.
PointsAt(m) == [t \in At({m}) |-> SignedPoints(t)]

\* Points are whole numbers.
LEMMA PointsAre ==
    ASSUME VolumeInv, NEW m
    PROVE  /\ At({m}) \in SUBSET transactions /\ IsFiniteSet(At({m}))
           /\ PointsAt(m) \in [At({m}) -> Int]
<1>1. At({m}) \in SUBSET transactions
  BY DEF At
<1>2. IsFiniteSet(At({m})) /\ \A t \in At({m}) : t.amount \in Int
  BY <1>1, TransactionsAre
<1>3. \A t \in At({m}) : SignedPoints(t) \in Int
  BY <1>2 DEF SignedPoints, Abs
<1> QED BY <1>1, <1>2, <1>3 DEF PointsAt

\* Every entry has its transaction and every transaction its entry, and the two
\* move the same points.
LEMMA EntriesAreRows ==
    ASSUME VolumeInv, NEW m \in Merchants, NobodyErased, \A t \in At({m}) : ~HalfAdjusted(t.id)
    PROVE  AmountsOf(EntriesAt(m)) = SumOf(PointsAt(m))
<1>1. PICK E, T : E = EntriesAt(m) /\ T = At({m})
  OBVIOUS
<1>2. IsFiniteSet(E) /\ InInt(E) /\ E \in SUBSET entries
  <2>1. E \in SUBSET entries
    BY <1>1 DEF EntriesAt
  <2> QED BY <2>1, BooksAddUp DEF VolumeInv, CardInv
<1>3. PICK h : h = [e \in E |-> CHOOSE t \in T : t.id = e.tx]
  OBVIOUS
<1>4. ASSUME NEW e \in E
      PROVE  h[e] \in T /\ h[e].id = e.tx /\ SignedPoints(h[e]) = e.amount
  <2>1. e \in entries /\ EntryFits(e) /\ e.merchant = m /\ e.cust \in Customers
    BY <1>1 DEF EntriesAt, VolumeInv, CardInv, BooksInv, BooksTyped, RowsFit
  <2>2. HasRow(e.tx)
    BY <2>1 DEF NobodyErased, VolumeInv, CardInv, BooksInv, BooksMatch
  <2>3. PICK t \in transactions : t.id = e.tx
    BY <2>2 DEF HasRow
  <2>4. RowFits(t)
    BY DEF VolumeInv, CardInv, BooksInv, RowsFit
  <2>5. t \in T
    BY <1>1, <2>1, <2>3, <2>4 DEF At, RowFits, EntryFits
  <2>6. h[e] \in T /\ h[e].id = e.tx
    BY <1>3, <2>3, <2>5
  <2>7. h[e] \in transactions
    BY <1>1, <2>6 DEF At
  <2>8. RowFits(h[e])
    BY <2>7 DEF VolumeInv, CardInv, BooksInv, RowsFit
  <2> QED BY <2>1, <2>6, <2>8 DEF RowFits, EntryFits
<1>5. ASSUME NEW t \in T
      PROVE  \E e \in E : t = h[e]
  <2>1. t \in transactions /\ t.merchant = m /\ t.cust \in Customers /\ ~HalfAdjusted(t.id)
    BY <1>1, TransactionsAre DEF At
  <2>2. HasEntry(t.id)
    BY <2>1 DEF NobodyErased, VolumeInv, CardInv, BooksInv, BooksMatch
  <2>3. PICK e \in entries : e.tx = t.id
    BY <2>2 DEF HasEntry
  <2>4. RowFits(t) /\ EntryFits(e)
    BY <2>1 DEF VolumeInv, CardInv, BooksInv, RowsFit
  <2>5. e \in E
    BY <1>1, <2>1, <2>3, <2>4 DEF EntriesAt, RowFits, EntryFits
  <2>6. h[e] \in transactions /\ h[e].id = t.id
    BY <1>1, <1>4, <2>3, <2>5 DEF At
  <2>7. h[e] = t
    BY <2>1, <2>6 DEF VolumeInv, CardInv, BooksInv, RowsFit
  <2> QED BY <2>5, <2>7
<1>6. \A e, f \in E : h[e] = h[f] => e = f
  <2>1. \A e, f \in E : e.tx = f.tx => e = f
    BY <1>2 DEF VolumeInv, CardInv, CardsInv, EntriesDiffer
  <2> QED BY <1>4, <2>1
<1>7. T = {h[e] : e \in E}
  BY <1>4, <1>5
<1>8. PICK w, v : w = AmountFcn(E) /\ v = PointsAt(m)
  OBVIOUS
<1>9. w \in [E -> Int]
  BY <1>2, <1>8 DEF AmountFcn, InInt
<1>10. v \in [T -> Int]
  BY <1>1, <1>8, PointsAre
<1>11. \A e \in E : v[h[e]] = w[e]
  BY <1>1, <1>4, <1>8 DEF PointsAt, AmountFcn
<1>12. SumOf(v) = SumOf(w)
  <2>1. IsFiniteSet(E)
    BY <1>2
  <2>2. v \in [{h[e] : e \in E} -> Int]
    BY <1>7, <1>10
  <2> QED BY <2>1, <2>2, <1>6, <1>9, <1>11, SumSame
<1> QED BY <1>1, <1>2, <1>8, <1>12, AmountsSum

\* A part of a sum, and nothing elsewhere.
LEMMA SumOfPart ==
    ASSUME NEW T, IsFiniteSet(T), NEW w \in [T -> Int], NEW U \in SUBSET T,
           \A t \in T \ U : w[t] = 0, NEW v \in [U -> Int], \A t \in U : w[t] = v[t]
    PROVE  SumOf(w) = SumOf(v)
<1>1. Part(w, U) = v
  BY DEF Part
<1> QED BY <1>1, SumZeros

StampsIn(T) == {t \in Issues(T) : Stamped(t)}

\* What was issued, in points and in stamps, less what was redeemed.
LEMMA VolumesAddUp ==
    ASSUME VolumeInv, NEW m
    PROVE  MerchantRow(m).volume.issued + Dashboard(m).stampsIssued - MerchantRow(m).volume.redeemed
              = SumOf(PointsAt(m))
<1>1. PICK T, P, Q, D : T = At({m}) /\ P = Plain(T) /\ Q = StampsIn(T) /\ D = Redeems(T)
  OBVIOUS
<1>2. T \in SUBSET transactions /\ IsFiniteSet(T)
  BY <1>1, PointsAre
<1>3. P \in SUBSET T /\ Q \in SUBSET T /\ D \in SUBSET T
  BY <1>1 DEF Plain, StampsIn, Issues, Redeems
<1>4. P \in SUBSET transactions /\ Q \in SUBSET transactions /\ D \in SUBSET transactions
  BY <1>2, <1>3
<1>5. /\ MerchantRow(m).volume.issued = AmountsOf(P) /\ MerchantRow(m).volume.redeemed = TotalSize(D)
      /\ Dashboard(m).stampsIssued = AmountsOf(Q)
  <2>1. MerchantRow(m).volume.issued = Total(P) /\ MerchantRow(m).volume.redeemed = TotalSize(D)
    BY <1>1, VolumeIs DEF MerchantRow
  <2>2. Dashboard(m).stampsIssued = Total(Q)
    BY <1>1 DEF Dashboard, StampsIn
  <2> QED BY <1>4, <2>1, <2>2, AmountsAre
<1>6. \A t \in T : t.amount \in Int /\ Abs(t.amount) \in Int
  BY <1>2, TransactionsAre DEF Abs
<1>7. PICK i, j, k, s : /\ i = [t \in T |-> IF t \in P THEN t.amount ELSE 0]
                        /\ j = [t \in T |-> IF t \in Q THEN t.amount ELSE 0]
                        /\ k = [t \in T |-> IF t \in D THEN Abs(t.amount) ELSE 0]
                        /\ s = PointsAt(m)
  OBVIOUS
<1>8. i \in [T -> Int]
  BY <1>6, <1>7
<1>9. j \in [T -> Int]
  BY <1>6, <1>7
<1>10. k \in [T -> Int]
  BY <1>6, <1>7
<1>11. s \in [T -> Int]
  BY <1>1, <1>7, PointsAre
<1>12. SumOf(i) = AmountsOf(P)
  <2>1. IsFiniteSet(P) /\ InInt(P)
    BY <1>4, TransactionsAre
  <2>2. AmountFcn(P) \in [P -> Int]
    BY <2>1 DEF AmountFcn, InInt
  <2>3. \A t \in P : i[t] = AmountFcn(P)[t]
    BY <1>3, <1>7 DEF AmountFcn
  <2>4. \A t \in T \ P : i[t] = 0
    BY <1>7
  <2>5. SumOf(i) = SumOf(AmountFcn(P))
    BY <1>2, <1>3, <1>8, <2>2, <2>3, <2>4, SumOfPart
  <2> QED BY <2>1, <2>5, AmountsSum
<1>13. SumOf(j) = AmountsOf(Q)
  <2>1. IsFiniteSet(Q) /\ InInt(Q)
    BY <1>4, TransactionsAre
  <2>2. AmountFcn(Q) \in [Q -> Int]
    BY <2>1 DEF AmountFcn, InInt
  <2>3. \A t \in Q : j[t] = AmountFcn(Q)[t]
    BY <1>3, <1>7 DEF AmountFcn
  <2>4. \A t \in T \ Q : j[t] = 0
    BY <1>7
  <2>5. SumOf(j) = SumOf(AmountFcn(Q))
    BY <1>2, <1>3, <1>9, <2>2, <2>3, <2>4, SumOfPart
  <2> QED BY <2>1, <2>5, AmountsSum
<1>14. SumOf(k) = TotalSize(D)
  <2>1. PICK v : v = [t \in D |-> Abs(t.amount)]
    OBVIOUS
  <2>2. v \in [D -> Int] /\ TotalSize(D) = SumOf(v)
    BY <1>4, <2>1, AmountsAre
  <2>3. \A t \in D : k[t] = v[t]
    BY <1>3, <1>7, <2>1
  <2>4. \A t \in T \ D : k[t] = 0
    BY <1>7
  <2>5. SumOf(k) = SumOf(v)
    BY <1>2, <1>3, <1>10, <2>2, <2>3, <2>4, SumOfPart
  <2> QED BY <2>2, <2>5
<1>15. PICK u : u = [t \in T |-> i[t] + j[t]]
  OBVIOUS
<1>16. u \in [T -> Int]
  BY <1>8, <1>9, <1>15
<1>17. \A t \in T : u[t] = i[t] + j[t]
  BY <1>15
<1>18. ASSUME NEW t \in T
       PROVE  u[t] = s[t] + k[t]
  <2>1. /\ t.type \in {"ISSUE", "REDEEM"} /\ t.amount \in Int
        /\ t.type = "ISSUE" => t.amount >= 0
    BY <1>2, TransactionsAre
  <2>2. s[t] = SignedPoints(t)
    BY <1>1, <1>7 DEF PointsAt
  <2>3. CASE t.type = "REDEEM"
    <3>1. t \in D /\ t \notin P /\ t \notin Q
      BY <1>1, <2>3 DEF Redeems, Plain, StampsIn, Issues
    <3>2. i[t] = 0 /\ j[t] = 0 /\ k[t] = Abs(t.amount) /\ s[t] = -Abs(t.amount)
      BY <1>7, <2>2, <2>3, <3>1 DEF SignedPoints
    <3>3. PICK x \in Int : x = Abs(t.amount)
      BY <1>6
    <3> QED BY <1>17, <3>2, <3>3
  <2>4. CASE t.type = "ISSUE"
    <3>1. t \notin D /\ (t \in P <=> t \notin Q)
      BY <1>1, <2>4 DEF Redeems, Plain, StampsIn, Issues
    <3>2. k[t] = 0 /\ s[t] = t.amount
      BY <1>7, <2>1, <2>2, <2>4, <3>1 DEF SignedPoints, Abs
    <3>3. (i[t] = t.amount /\ j[t] = 0) \/ (i[t] = 0 /\ j[t] = t.amount)
      BY <1>7, <3>1
    <3>4. PICK x \in Int : x = t.amount
      BY <2>1
    <3> QED BY <1>17, <3>2, <3>3, <3>4
  <2> QED BY <2>1, <2>3, <2>4
<1>19. SumOf(u) = SumOf(i) + SumOf(j)
  BY <1>2, <1>8, <1>9, <1>16, <1>17, SumPlus
<1>20. SumOf(u) = SumOf(s) + SumOf(k)
  <2>1. \A t \in T : u[t] = s[t] + k[t]
    BY <1>18
  <2> QED BY <1>2, <1>10, <1>11, <1>16, <2>1, SumPlus
<1>21. PICK a \in Int, b \in Int, c \in Int, d \in Int :
          a = SumOf(i) /\ b = SumOf(j) /\ c = SumOf(k) /\ d = SumOf(s)
  BY <1>2, <1>8, <1>9, <1>10, <1>11, SumType
<1>22. a + b - c = d
  BY <1>19, <1>20, <1>21
<1> QED BY <1>5, <1>7, <1>12, <1>13, <1>14, <1>21, <1>22

\* The pages of a merchant's transactions, as VolumesMatchBooks reads them.
Pages(m) ==
    UNION {TransactionList(m, {"ISSUE", "REDEEM"}, Customers, 0 .. Today, n, 2) :
             n \in 1 .. Cardinality(transactions)}
ListRow(t) == [id |-> t.id, cust |-> t.cust, points |-> SignedPoints(t), stamp |-> Stamped(t)]

\* Every transaction is on some page, in a row of its own.
LEMMA PagesAre ==
    ASSUME VolumeInv, NEW m
    PROVE  Pages(m) = {ListRow(t) : t \in At({m})}
<1>1. PICK T : T = At({m})
  OBVIOUS
<1>2. T \in SUBSET transactions /\ IsFiniteSet(T) /\ IsFiniteSet(transactions)
  BY <1>1, PointsAre DEF VolumeInv, CardInv
<1>3. {t \in At({m}) : t.type \in {"ISSUE", "REDEEM"} /\ t.cust \in Customers /\ Day(t.at) \in 0 .. Today} = T
  <2>1. ASSUME NEW t \in T
        PROVE  t.type \in {"ISSUE", "REDEEM"} /\ t.cust \in Customers /\ Day(t.at) \in 0 .. Today
    <3>1. t \in transactions
      BY <1>2
    <3>2. Day(t.at) \in Nat /\ Today \in Nat /\ Day(t.at) <= Today
      BY <3>1, DaysAre
    <3> QED BY <1>2, <3>2, TransactionsAre
  <2> QED BY <1>1, <2>1
<1> DEFINE Place(t) == Cardinality({u \in T : u.at >= t.at})
           Page(n) == TransactionList(m, {"ISSUE", "REDEEM"}, Customers, 0 .. Today, n, 2)
<1>4. ASSUME NEW n
      PROVE  Page(n) = {ListRow(t) : t \in {u \in T : (n - 1) * 2 < Place(u) /\ Place(u) <= n * 2}}
  BY <1>3 DEF TransactionList, ListRow
<1>5. ASSUME NEW t \in T
      PROVE  \E n \in 1 .. Cardinality(transactions) : (n - 1) * 2 < Place(t) /\ Place(t) <= n * 2
  <2>1. PICK U : U = {u \in T : u.at >= t.at}
    OBVIOUS
  <2>2. t \in U /\ U \in SUBSET transactions
    BY <1>2, <2>1, TransactionsAre
  <2>3. PICK k \in Nat, c \in Nat : k = Cardinality(U) /\ c = Cardinality(transactions)
    BY <1>2, <2>2, FS_Subset, FS_CardinalityType
  <2>4. k <= c
    BY <1>2, <2>2, <2>3, FS_Subset
  <2>5. k # 0
    <3>1. IsFiniteSet(U)
      BY <1>2, <2>2, FS_Subset
    <3> QED BY <2>2, <2>3, <3>1, FS_EmptySet
  <2>6. PICK n \in Nat : n = (k + 1) \div 2
    OBVIOUS
  <2>7. n \in 1 .. c /\ (n - 1) * 2 < k /\ k <= n * 2
    BY <2>4, <2>5, <2>6
  <2> QED BY <2>1, <2>3, <2>7
<1> HIDE DEF Place
<1>6. Pages(m) = UNION {Page(n) : n \in 1 .. Cardinality(transactions)}
  BY DEF Pages
<1> HIDE DEF Page
<1>7. ASSUME NEW x \in Pages(m)
      PROVE  x \in {ListRow(t) : t \in T}
  BY <1>4, <1>6
<1>8. ASSUME NEW t \in T
      PROVE  ListRow(t) \in Pages(m)
  <2>1. PICK n \in 1 .. Cardinality(transactions) : (n - 1) * 2 < Place(t) /\ Place(t) <= n * 2
    BY <1>5
  <2>2. ListRow(t) \in Page(n)
    BY <1>4, <2>1
  <2> QED BY <1>6, <2>2
<1> QED BY <1>1, <1>7, <1>8

\* The pages add up to the points of the transactions.
LEMMA PagesAddUp ==
    ASSUME VolumeInv, NEW m
    PROVE  MapThenSumSet(LAMBDA r : r.points, Pages(m)) = SumOf(PointsAt(m))
<1>1. PICK T, R, w, h, v : /\ T = At({m}) /\ R = Pages(m) /\ w = PointsAt(m)
                           /\ h = [t \in T |-> ListRow(t)] /\ v = [r \in R |-> r.points]
  OBVIOUS
<1>2. IsFiniteSet(T) /\ T \in SUBSET transactions
  BY <1>1, PointsAre
<1>3. w \in [T -> Int]
  BY <1>1, PointsAre
<1>4. R = {h[t] : t \in T}
  BY <1>1, PagesAre
<1>5. \A t \in T : h[t].id = t.id /\ h[t].points = w[t]
  BY <1>1 DEF ListRow, PointsAt
<1>6. \A t, u \in T : h[t] = h[u] => t = u
  BY <1>2, <1>5, TransactionsAre
<1>7. v \in [R -> Int]
  <2>1. \A t \in T : h[t].points \in Int
    BY <1>3, <1>5
  <2>2. \A r \in R : r.points \in Int
    BY <1>4, <2>1
  <2> QED BY <1>1, <2>2
<1>8. \A t \in T : v[h[t]] = w[t]
  BY <1>1, <1>4, <1>5
<1>9. SumOf(v) = SumOf(w)
  <2>1. v \in [{h[t] : t \in T} -> Int]
    BY <1>4, <1>7
  <2> QED BY <1>2, <1>3, <1>6, <1>8, <2>1, SumSame
<1>10. MapThenSumSet(LAMBDA r : r.points, R) = SumOf(v)
  <2>1. DOMAIN v = R
    BY <1>1
  <2>2. \A r \in R : v[r] = r.points
    BY <1>1
  <2> QED BY <2>1, <2>2, PointsOfRows
<1> QED BY <1>1, <1>9, <1>10

\* Volumes, holdings and pages come to the same.
LEMMA HoldingsMatch ==
    ASSUME VolumeInv, IsFiniteSet(accounts), NEW m \in Merchants, NobodyErased,
           \A t \in At({m}) : ~HalfAdjusted(t.id)
    PROVE  /\ MerchantRow(m).volume.issued + Dashboard(m).stampsIssued - MerchantRow(m).volume.redeemed
                = MapThenSumSet(LAMBDA r : r.points, CustomerList(m, ""))
           /\ MapThenSumSet(LAMBDA r : r.points, Pages(m))
                = MapThenSumSet(LAMBDA r : r.points, CustomerList(m, ""))
<1>1. MapThenSumSet(LAMBDA r : r.points, CustomerList(m, "")) = SumOf(PointsAt(m))
  BY HeldAre, EntriesAreRows
<1> QED BY <1>1, VolumesAddUp, PagesAddUp

\* A list of the busiest is of them all, if it has room for them.
LEMMA BusyAre ==
    ASSUME VolumeInv, IsFiniteSet(Merchants), NEW L, IsTopOf(L, Merchants)
    PROVE  /\ L \in SUBSET Merchants /\ IsFiniteSet(L)
           /\ At(L) \subseteq At(Merchants)
           /\ Cardinality(Busy(Merchants)) <= Top => At(L) = At(Merchants)
<1>1. PICK B : B = Busy(Merchants)
  OBVIOUS
<1>2. /\ L \subseteq B /\ Cardinality(L) <= Top /\ (Cardinality(L) = Top \/ L = B)
      /\ B \subseteq Merchants
  BY <1>1 DEF IsTopOf, Busy
<1>3. IsFiniteSet(B) /\ IsFiniteSet(L)
  BY <1>2, FS_Subset
<1>4. At(L) \subseteq At(Merchants)
  BY <1>2 DEF At
<1>5. ASSUME Cardinality(B) <= Top
      PROVE  L = B
  <2>1. PICK b \in Nat, l \in Nat : b = Cardinality(B) /\ l = Cardinality(L)
    BY <1>3, FS_CardinalityType
  <2>2. l <= b /\ (l = b => L = B)
    BY <1>2, <1>3, <2>1, FS_Subset
  <2>3. Top \in Nat /\ b <= Top
    BY <1>5, <2>1, ReportsAssumption
  <2>4. CASE l = Top
    BY <2>2, <2>3, <2>4
  <2> QED BY <1>2, <2>1, <2>4
<1>6. At(B) = At(Merchants)
  <2>1. ASSUME NEW t \in At(Merchants)
        PROVE  t \in At(B)
    <3>1. t \in At({t.merchant}) /\ t.merchant \in Merchants
      BY DEF At
    <3>2. t.merchant \in B
      BY <1>1, <3>1 DEF Busy
    <3> QED BY <3>2 DEF At
  <2> QED BY <1>2, <2>1 DEF At
<1> QED BY <1>1, <1>2, <1>3, <1>4, <1>5, <1>6

\* Fewer transactions issue no more.
LEMMA IssuedBelow ==
    ASSUME VolumeInv, NEW M, NEW L, At(L) \subseteq At(M)
    PROVE  AmountsOf(Plain(At(L))) <= AmountsOf(Plain(At(M)))
<1>1. PICK S, T : S = Plain(At(L)) /\ T = Plain(At(M))
  OBVIOUS
<1>2. S \in SUBSET T /\ T \in SUBSET transactions /\ S \in SUBSET transactions
  BY <1>1 DEF Plain, Issues, At
<1>3. IsFiniteSet(S) /\ InInt(S) /\ IsFiniteSet(T) /\ InInt(T)
  BY <1>2, TransactionsAre
<1>4. \A t \in T : t.amount >= 0
  BY <1>1, <1>2, TransactionsAre DEF Plain, Issues
<1>5. PICK h : h = [t \in S |-> t]
  OBVIOUS
<1>6. \A x \in S : h[x] \in T /\ x.amount <= h[x].amount
  BY <1>2, <1>3, <1>5 DEF InInt
<1>7. \A x, y \in S : h[x] = h[y] => x = y
  BY <1>5
<1>8. AmountsOf(S) <= AmountsOf(T)
  BY <1>3, <1>4, <1>6, <1>7, AmountsBelow
<1> QED BY <1>1, <1>8

\* A sum of numbers that are not negative.
LEMMA SumNotNegative ==
    ASSUME NEW S, IsFiniteSet(S), NEW f \in [S -> Int], \A x \in S : f[x] >= 0
    PROVE  SumOf(f) >= 0
<1> DEFINE G == {U \in SUBSET S : SumOf(Part(f, U)) >= 0}
<1>1. {} \in G
  <2>1. DOMAIN Part(f, {}) = {}
    BY DEF Part
  <2> QED BY <2>1, SumEmpty
<1>2. ASSUME NEW U \in G, NEW x \in S \ U
      PROVE  U \cup {x} \in G
  <2>1. SumOf(Part(f, U \cup {x})) = SumOf(Part(f, U)) + f[x] /\ SumOf(Part(f, U)) \in Int
    BY SumMore
  <2> QED BY <2>1
<1>3. S \in G
  <2>1. G \in SUBSET SUBSET S
    OBVIOUS
  <2> HIDE DEF G
  <2> QED BY <1>1, <1>2, <2>1, FiniteInduction
<1>4. Part(f, S) = f
  BY DEF Part
<1> QED BY <1>3, <1>4

\* Nor do they redeem more.
LEMMA RedeemedBelow ==
    ASSUME VolumeInv, NEW M, NEW L, At(L) \subseteq At(M)
    PROVE  SumOf(SizesOf(L)) <= SumOf(SizesOf(M))
<1>1. PICK S, T, f, g : S = Redeems(At(L)) /\ T = Redeems(At(M)) /\ f = SizesOf(M) /\ g = SizesOf(L)
  OBVIOUS
<1>2. S \in SUBSET T /\ T \ S \in SUBSET T /\ S \cup (T \ S) = T /\ S \cap (T \ S) = {}
  BY <1>1 DEF Redeems
<1>3. f \in [T -> Int] /\ IsFiniteSet(T) /\ SumOf(g) \in Int /\ IsFiniteSet(T \ S)
  BY <1>1, <1>2, SizesAre, FS_Subset
<1>4. Part(f, S) = g /\ Part(f, T) = f
  BY <1>1, <1>2 DEF Part, SizesOf
<1>5. PICK e : e = Part(f, T \ S)
  OBVIOUS
<1>6. e \in [T \ S -> Int] /\ \A t \in T \ S : e[t] >= 0
  <2>1. \A t \in T : t.amount \in Int
    <3>1. T \in SUBSET transactions
      BY <1>1, SizesAre
    <3> QED BY <3>1, TransactionsAre
  <2>2. \A t \in T : Abs(t.amount) \in Int /\ Abs(t.amount) >= 0
    BY <2>1 DEF Abs
  <2>3. \A t \in T \ S : e[t] = Abs(t.amount)
    BY <1>1, <1>5 DEF Part, SizesOf
  <2> QED BY <1>3, <1>5, <2>2, <2>3 DEF Part
<1>7. SumOf(e) >= 0 /\ SumOf(e) \in Int
  BY <1>3, <1>6, SumNotNegative, SumType
<1>8. SumOf(Part(f, S \cup (T \ S))) = SumOf(Part(f, S)) + SumOf(Part(f, T \ S))
  <2>1. T \ S \in SUBSET T /\ S \cap (T \ S) = {}
    BY <1>2
  <2>2. PICK U : U = T \ S
    OBVIOUS
  <2>3. SumOf(Part(f, S \cup U)) = SumOf(Part(f, S)) + SumOf(Part(f, U))
    BY <1>2, <1>3, <2>1, <2>2, SumUnion
  <2> QED BY <2>2, <2>3
<1>9. SumOf(f) = SumOf(g) + SumOf(e)
  BY <1>2, <1>4, <1>5, <1>8
<1> QED BY <1>1, <1>3, <1>7, <1>9

\* Volumes are whole numbers.
LEMMA VolumeType ==
    ASSUME VolumeInv, NEW M
    PROVE  Volume(At(M)).issued \in Int /\ Volume(At(M)).redeemed \in Int
<1>1. Plain(At(M)) \in SUBSET transactions
  BY DEF Plain, Issues, At
<1> QED BY <1>1, VolumeIs, AmountsAre, SizesAre

\* The totals of the platform are those of its merchants.
LEMMA BoardIs ==
    ASSUME VolumeInv, IsFiniteSet(Merchants)
    PROVE  /\ Board.stats.volume.issued = MapThenSumSet(LAMBDA m : MerchantRow(m).volume.issued, Merchants)
           /\ Board.stats.volume.redeemed = MapThenSumSet(LAMBDA m : MerchantRow(m).volume.redeemed, Merchants)
           /\ Board.stats.volume.issued = AmountsOf(Plain(At(Merchants)))
           /\ Board.stats.volume.redeemed = SumOf(SizesOf(Merchants))
<1>1. Board.stats.volume = Volume(At(Merchants))
  BY DEF Board, PlatformDashboard, PlatformTotals
<1>2. PICK w, v : /\ w = [m \in Merchants |-> Volume(At({m})).issued]
                  /\ v = [m \in Merchants |-> Volume(At({m})).redeemed]
  OBVIOUS
<1>9. w \in [Merchants -> Int] /\ v \in [Merchants -> Int]
  BY <1>2, VolumeType
<1>3. SumOf(w) = AmountsOf(Plain(At(Merchants)))
  <2>1. \A m \in Merchants : w[m] = Volume(At({m})).issued
    BY <1>2
  <2> QED BY <1>9, <2>1, IssuedByMerchants
<1>4. SumOf(v) = SumOf(SizesOf(Merchants))
  <2>1. \A m \in Merchants : v[m] = Volume(At({m})).redeemed
    BY <1>2
  <2> QED BY <1>9, <2>1, RedeemedByMerchants
<1>5. MapThenSumSet(LAMBDA m : MerchantRow(m).volume.issued, Merchants) = SumOf(w)
  <2>1. DOMAIN w = Merchants /\ \A m \in Merchants : w[m] = MerchantRow(m).volume.issued
    BY <1>2 DEF MerchantRow
  <2> QED BY <2>1, IssuedOfRows
<1>6. MapThenSumSet(LAMBDA m : MerchantRow(m).volume.redeemed, Merchants) = SumOf(v)
  <2>1. DOMAIN v = Merchants /\ \A m \in Merchants : v[m] = MerchantRow(m).volume.redeemed
    BY <1>2 DEF MerchantRow
  <2> QED BY <2>1, RedeemedOfRows
<1>7. Volume(At(Merchants)).issued = AmountsOf(Plain(At(Merchants)))
  <2>1. Plain(At(Merchants)) \in SUBSET transactions
    BY DEF Plain, Issues, At
  <2> QED BY <2>1, VolumeIs, AmountsAre
<1>8. Volume(At(Merchants)).redeemed = SumOf(SizesOf(Merchants))
  BY VolumeIs, SizesAre
<1> QED BY <1>1, <1>3, <1>4, <1>5, <1>6, <1>7, <1>8

\* The busiest account for no more than everybody, and for everything if the list
\* has room for all.
LEMMA TopAccounts ==
    ASSUME VolumeInv, IsFiniteSet(Merchants), NEW L, IsTopOf(L, Merchants)
    PROVE  IF Cardinality(Busy(Merchants)) <= Top
           THEN /\ MapThenSumSet(LAMBDA m : TopMerchants(L)[m].volume.issued, L) = Board.stats.volume.issued
                /\ MapThenSumSet(LAMBDA m : TopMerchants(L)[m].volume.redeemed, L) = Board.stats.volume.redeemed
           ELSE /\ MapThenSumSet(LAMBDA m : TopMerchants(L)[m].volume.issued, L) <= Board.stats.volume.issued
                /\ MapThenSumSet(LAMBDA m : TopMerchants(L)[m].volume.redeemed, L) <= Board.stats.volume.redeemed
<1>1. /\ L \in SUBSET Merchants /\ IsFiniteSet(L) /\ At(L) \subseteq At(Merchants)
      /\ Cardinality(Busy(Merchants)) <= Top => At(L) = At(Merchants)
  BY BusyAre
<1>2. PICK w, v : /\ w = [m \in L |-> Volume(At({m})).issued]
                  /\ v = [m \in L |-> Volume(At({m})).redeemed]
  OBVIOUS
<1>10. w \in [L -> Int] /\ v \in [L -> Int]
  BY <1>2, VolumeType
<1>3. SumOf(w) = AmountsOf(Plain(At(L)))
  <2>1. \A m \in L : w[m] = Volume(At({m})).issued
    BY <1>2
  <2> QED BY <1>1, <1>10, <2>1, IssuedByMerchants
<1>4. SumOf(v) = SumOf(SizesOf(L))
  <2>1. \A m \in L : v[m] = Volume(At({m})).redeemed
    BY <1>2
  <2> QED BY <1>1, <1>10, <2>1, RedeemedByMerchants
<1>5. MapThenSumSet(LAMBDA m : TopMerchants(L)[m].volume.issued, L) = SumOf(w)
  <2>1. DOMAIN w = L
    BY <1>2
  <2>2. \A m \in L : w[m] = TopMerchants(L)[m].volume.issued
    BY <1>2 DEF TopMerchants
  <2> DEFINE Run(h) == [T \in SUBSET L |-> IF T = {} THEN 0
                          ELSE LET x == CHOOSE x \in T : TRUE
                               IN TopMerchants(L)[x].volume.issued + h[T \ {x}]]
             RunOf(h) == [T \in SUBSET L |-> IF T = {} THEN 0
                            ELSE LET x == CHOOSE x \in T : TRUE IN w[x] + h[T \ {x}]]
  <2>3. \A T \in SUBSET L : T # {} =>
           w[CHOOSE x \in T : TRUE] = TopMerchants(L)[CHOOSE x \in T : TRUE].volume.issued
    BY <2>2
  <2>4. \A h : Run(h) = RunOf(h)
    BY <2>3
  <2>5. (CHOOSE h : h = Run(h)) = (CHOOSE h : h = RunOf(h))
    <3> HIDE DEF Run, RunOf
    <3> QED BY <2>4
  <2> QED BY <2>1, <2>5 DEF SumOf, MapThenSumSet, MapThenFoldSet
<1>6. MapThenSumSet(LAMBDA m : TopMerchants(L)[m].volume.redeemed, L) = SumOf(v)
  <2>1. DOMAIN v = L
    BY <1>2
  <2>2. \A m \in L : v[m] = TopMerchants(L)[m].volume.redeemed
    BY <1>2 DEF TopMerchants
  <2> DEFINE Run(h) == [T \in SUBSET L |-> IF T = {} THEN 0
                          ELSE LET x == CHOOSE x \in T : TRUE
                               IN TopMerchants(L)[x].volume.redeemed + h[T \ {x}]]
             RunOf(h) == [T \in SUBSET L |-> IF T = {} THEN 0
                            ELSE LET x == CHOOSE x \in T : TRUE IN v[x] + h[T \ {x}]]
  <2>3. \A T \in SUBSET L : T # {} =>
           v[CHOOSE x \in T : TRUE] = TopMerchants(L)[CHOOSE x \in T : TRUE].volume.redeemed
    BY <2>2
  <2>4. \A h : Run(h) = RunOf(h)
    BY <2>3
  <2>5. (CHOOSE h : h = Run(h)) = (CHOOSE h : h = RunOf(h))
    <3> HIDE DEF Run, RunOf
    <3> QED BY <2>4
  <2> QED BY <2>1, <2>5 DEF SumOf, MapThenSumSet, MapThenFoldSet
<1>7. /\ Board.stats.volume.issued = AmountsOf(Plain(At(Merchants)))
      /\ Board.stats.volume.redeemed = SumOf(SizesOf(Merchants))
  BY BoardIs
<1>8. At(L) = At(Merchants) => Plain(At(L)) = Plain(At(Merchants)) /\ SizesOf(L) = SizesOf(Merchants)
  BY DEF SizesOf
<1>9. /\ AmountsOf(Plain(At(L))) <= AmountsOf(Plain(At(Merchants)))
      /\ SumOf(SizesOf(L)) <= SumOf(SizesOf(Merchants))
  BY <1>1, IssuedBelow, RedeemedBelow
<1> QED BY <1>1, <1>3, <1>4, <1>5, <1>6, <1>7, <1>8, <1>9

\* The books and every total agree.
LEMMA VolumesHold ==
    ASSUME VolumeInv, IsFiniteSet(accounts), IsFiniteSet(Merchants)
    PROVE  VolumesMatchBooks
<1>1. /\ Board.stats.volume.issued = MapThenSumSet(LAMBDA m : MerchantRow(m).volume.issued, Merchants)
      /\ Board.stats.volume.redeemed = MapThenSumSet(LAMBDA m : MerchantRow(m).volume.redeemed, Merchants)
  BY BoardIs
<1>6. ASSUME NEW L \in SUBSET Merchants, IsTopOf(L, Merchants)
      PROVE  LET rows == TopMerchants(L)
                 issued == MapThenSumSet(LAMBDA m : rows[m].volume.issued, L)
                 redeemed == MapThenSumSet(LAMBDA m : rows[m].volume.redeemed, L)
             IN IF Cardinality(Busy(Merchants)) <= Top
                THEN issued = Board.stats.volume.issued /\ redeemed = Board.stats.volume.redeemed
                ELSE issued <= Board.stats.volume.issued /\ redeemed <= Board.stats.volume.redeemed
  BY <1>6, TopAccounts
<1>2. 0 \in DOMAIN Board.dailyTrend =>
         Board.stats.volume.count
           = MapThenSumSet(LAMBDA d : Board.dailyTrend[d].earn + Board.dailyTrend[d].redeem,
                           DOMAIN Board.dailyTrend)
  <2>1. Board.stats.volume = Volume(At(Merchants))
    BY DEF Board, PlatformDashboard, PlatformTotals
  <2> QED BY <2>1, CountByDays
<1>3. 2 * Board.forecasts.transactions <= 3 * Board.stats.volume.count + 1
  <2>1. Board.forecasts = Forecast(Trend(Merchants)) /\ Board.stats.volume = Volume(At(Merchants))
    BY DEF Board, PlatformDashboard, PlatformTotals
  <2>2. Board.stats.volume.count = Cardinality(At(Merchants))
    BY <2>1, VolumeIs
  <2> QED BY <2>1, <2>2, ForecastBounded
<1>4. ASSUME NEW m \in Merchants
      PROVE  LET report == getWeeklyReport(m, Today - Week + 1, <<>>) IN
             /\ \A d \in DOMAIN report.daily : report.daily[d].earn = Chart(m)[d].earn
                                            /\ report.daily[d].redeem = Chart(m)[d].redeem
             /\ report.weekly.issues + report.weekly.redeems <= MerchantRow(m).volume.count
             /\ report.weekly.active <= Cardinality(CustomersIn(At({m})))
  BY ReportAgrees
<1>5. ASSUME NEW m \in Merchants
      PROVE  \/ \E c \in Customers : Erased(c)
             \/ \E t \in At({m}) : HalfAdjusted(t.id)
             \/ /\ MerchantRow(m).volume.issued + Dashboard(m).stampsIssued - MerchantRow(m).volume.redeemed
                     = MapThenSumSet(LAMBDA r : r.points, CustomerList(m, ""))
                /\ MapThenSumSet(LAMBDA r : r.points, Pages(m))
                     = MapThenSumSet(LAMBDA r : r.points, CustomerList(m, ""))
  BY HoldingsMatch DEF NobodyErased
<1> QED BY <1>1, <1>2, <1>3, <1>4, <1>5, <1>6, Zenon DEF VolumesMatchBooks, Board, Pages

\* Whatever happens, the volumes a merchant and the platform see are those of the
\* books: what was issued less what was redeemed is what the customers hold and
\* what the pages of transactions add up to, unless a deletion or an adjustment is
\* half done; and the totals of dashboards, trends, forecasts and reports are those
\* of their merchants and days.
THEOREM VolumesAgree ==
    ASSUME IsFiniteSet(Merchants)
    PROVE  Spec => []VolumesMatchBooks
<1>1. Init => SteadyInv /\ BalancesInv /\ CardsInv /\ RowsFinite /\ VolumesInv
  <2> SUFFICES ASSUME Init
               PROVE  SteadyInv /\ BalancesInv /\ CardsInv /\ RowsFinite /\ VolumesInv
    OBVIOUS
  <2>1. RowsFinite
    BY FS_EmptySet DEF Init, RowsFinite
  <2> QED BY <2>1, SteadyAtFirst, BalancesAtFirst, CardsAtFirst, VolumesAtFirst
<1>2. BooksInv /\ BooksInv' /\ SteadyInv /\ BalancesInv /\ CardsInv /\ RowsFinite /\ VolumesInv /\ [Next]_vars =>
         SteadyInv' /\ BalancesInv' /\ CardsInv' /\ RowsFinite' /\ VolumesInv'
  <2> SUFFICES ASSUME BooksInv, BooksInv', SteadyInv, BalancesInv, CardsInv, RowsFinite, VolumesInv, [Next]_vars
               PROVE  SteadyInv' /\ BalancesInv' /\ CardsInv' /\ RowsFinite' /\ VolumesInv'
    OBVIOUS
  <2>3. CardInv
    BY DEF CardInv, SteadyInv, PagesHold, RowsFinite
  <2>1. SteadyInv' /\ BalancesInv' /\ CardsInv' /\ RowsFinite'
    BY <2>3, NextKeepsSteady, NextKeepsBalances, CardsKept, RowsStayFinite DEF SteadyInv, PagesHold, RowsFinite
  <2>2. OneAccount' /\ RowsAre'
    BY OneAccountKept, RowsAreKept DEF VolumesInv
  <2> QED BY <2>1, <2>2 DEF VolumesInv
<1>3. BooksInv /\ SteadyInv /\ CardsInv /\ RowsFinite /\ VolumesInv => VolumesMatchBooks
  <2> SUFFICES ASSUME BooksInv, SteadyInv, CardsInv, RowsFinite, VolumesInv
               PROVE  VolumesMatchBooks
    OBVIOUS
  <2>1. VolumeInv
    BY DEF VolumeInv, CardInv, SteadyInv, PagesHold, RowsFinite
  <2>2. IsFiniteSet(accounts)
    BY DEF SteadyInv, AccountsDated
  <2> QED BY <2>1, <2>2, VolumesHold
<1> QED BY <1>1, <1>2, <1>3, BooksInvariance, PTL DEF Spec
=============================================================================
