------------------------------ MODULE PagesProofs ------------------------------
(***************************************************************************)
(* What is proved of the pages: first that edits reach the rows they are   *)
(* meant for and that a page ends with the server's rows (Desk), then that *)
(* lists show what was asked for and histories have no gaps (Listings).    *)
(***************************************************************************)
EXTENDS Desk, Listings, FiniteSetTheorems, TLAPS

-----------------------------------------------------------------------------
(* Edits: the inductive invariant *)

\* The administrator's pages, which do not read again after every change.
Toggling == page \in {"merchants", "detail"}

\* A request sent from the page it is for, for what it was meant for.
Fits(c) ==
    /\ c.hook = "updateSettings" => page \in {"settings", "rate"} /\ c.row \in Fields
    /\ c.hook \in {"updateReward", "deleteReward"} => page = "rewards" /\ c.row \in Entries
    /\ c.hook = "createReward" => page = "rewards" /\ c.row = Nothing
    /\ c.hook = "updateStaff" => page = "staff" /\ c.row \in Entries
    /\ c.hook = "adjust" => page \in {"customers", "transactions"} /\ c.row \in Entries
    /\ c.hook = "scan" => page = "scan" /\ c.row = Nothing
    /\ c.hook = "toggle" => \/ page = "merchants" /\ c.row \in Entries
                            \/ page = "detail" /\ c.row = "profile" /\ c.last
    /\ c.meant.hook = c.hook /\ c.meant.row = c.row /\ ~c.spent

CallsFit == calls \in [Slots -> Call] /\ \A s \in Slots : UnderWay(s) => Fits(calls[s])

\* A request that has left the rows of its key other than the server's, for a while.
Disturbs(c) == c.at = "done" \/ (c.hook \in Optimistic /\ c.at \in {"sent", "refused"})
Unsettled(k) == \E s \in Slots : Disturbs(calls[s]) /\ CallKey(calls[s]) = k
Agree(rows, k) == \A r \in At(k) : rows[r] = server[r]

\* The rows of a key are the server's, or will be read again.
Reloaded ==
    page # "transactions" /\ ~Toggling =>
        \A k \in Keys \ trouble :
            \/ Unsettled(k) \/ fetch[k].at = "asked"
            \/ fetch[k].at = "read" /\ Agree(fetch[k].rows, k)
            \/ fetch[k].at = "idle" /\ Agree(cache, k)

\* Toggles of a row whose effect on the page is still to come.
Turning(r) == {s \in Slots : calls[s].at \in {"sent", "done"} /\ calls[s].row = r}
Turned(r) ==
    /\ \A s, t \in Turning(r) : s = t
    /\ \A s \in Turning(r) : calls[s].val = Toggled(cache[r])
    /\ server[r] = IF \E s \in Turning(r) : calls[s].at = "done" THEN Toggled(cache[r]) ELSE cache[r]

\* Where nothing is read again, the page turns over what the server has turned over.
InTurn ==
    Toggling =>
        /\ \A k \in Keys : fetch[k].at = "idle"
        /\ page = "detail" => cache["profile"] \in Vals
        /\ \A s \in Slots : UnderWay(s) => cache[calls[s].row] \in Vals
        /\ \A r \in Rows : Key(r) \notin trouble => Turned(r)

\* The dialog on the screen edits the row it was opened for.
AsOpened ==
    /\ dialog.shown = "no" \/ dialog.doomed = Nothing
    /\ dialog.doomed # Nothing => page = "rewards" /\ meant = AsMeant("deleteReward", dialog.doomed)
    /\ page = "rewards" /\ dialog.shown = "open" =>
          meant = AsMeant(IF dialog.editing = Nothing THEN "createReward" ELSE "updateReward",
                          dialog.editing)
    /\ page = "staff" /\ OnScreen /\ dialog.editing # Nothing =>
          meant = AsMeant("updateStaff", dialog.editing)
    /\ page \in {"customers", "transactions"} /\ OnScreen =>
          dialog.editing \in Entries /\ meant = AsMeant("adjust", dialog.editing)
    /\ compressing => page = "settings"
    /\ \A b \in Blanks : entry.boxes[b] # "spent"

DeskInv == TypeOK /\ CallsFit /\ Reloaded /\ InTurn /\ AsOpened

-----------------------------------------------------------------------------
(* Rows, keys and calls *)

LEMMA KeysOfRows ==
    ASSUME NEW r \in Rows
    PROVE  Key(r) \in Keys /\ (r \in Entries => Key(r) = "list") /\ r # Nothing
BY DeskAssumption DEF Key, Keys, Rows

LEMMA OtherVal ==
    ASSUME NEW v \in Vals
    PROVE  Toggled(v) \in Vals
<1>1. \E w \in Vals : w # v
  <2> SUFFICES ASSUME \A w \in Vals : w = v PROVE FALSE OBVIOUS
  <2>1. Vals = {v} OBVIOUS
  <2>2. Cardinality(Vals) = 1 BY <2>1, FS_Singleton
  <2>3. QED BY <2>2, DeskAssumption
<1>2. QED BY <1>1 DEF Toggled

LEMMA FreshIsCall == Unused \in Call /\ Over \in Call /\ Unused.at = "unused" /\ Over.at = "over"
<1>1. NoRows \in Tables BY DEF NoRows, Tables, Contents
<1>2. Unused \in Call /\ Unused.at = "unused"
      BY <1>1 DEF Unused, Call, Hooks, Contents
<1>3. QED BY <1>2 DEF Over, Call

\* A request takes its place beside the others, of which it changes only
\* whether they are their hook's last.
LEMMA Placed ==
    ASSUME calls \in [Slots -> Call], NEW s \in Slots, NEW c \in Call, Place(s, c)
    PROVE  /\ calls' \in [Slots -> Call] /\ calls'[s] = c
           /\ \A t \in Slots \ {s} :
                 /\ calls'[t].at = calls[t].at /\ calls'[t].hook = calls[t].hook
                 /\ calls'[t].row = calls[t].row /\ calls'[t].val = calls[t].val
                 /\ calls'[t].meant = calls[t].meant /\ calls'[t].spent = calls[t].spent
                 /\ calls[t].hook # c.hook => calls'[t] = calls[t]
<1>1. calls' = [t \in Slots |-> IF t = s THEN c
                                ELSE IF calls[t].hook = c.hook THEN [calls[t] EXCEPT !.last = FALSE]
                                ELSE calls[t]]
      BY DEF Place
<1>2. \A d \in Call : /\ [d EXCEPT !.last = FALSE] \in Call
                      /\ [d EXCEPT !.last = FALSE].at = d.at /\ [d EXCEPT !.last = FALSE].hook = d.hook
                      /\ [d EXCEPT !.last = FALSE].row = d.row /\ [d EXCEPT !.last = FALSE].val = d.val
                      /\ [d EXCEPT !.last = FALSE].meant = d.meant
                      /\ [d EXCEPT !.last = FALSE].spent = d.spent
      BY DEF Call
<1>3. calls' \in [Slots -> Call] /\ calls'[s] = c BY <1>1, <1>2
<1>4. ASSUME NEW t \in Slots \ {s}
      PROVE  /\ calls'[t].at = calls[t].at /\ calls'[t].hook = calls[t].hook
             /\ calls'[t].row = calls[t].row /\ calls'[t].val = calls[t].val
             /\ calls'[t].meant = calls[t].meant /\ calls'[t].spent = calls[t].spent
             /\ calls[t].hook # c.hook => calls'[t] = calls[t]
  <2>1. calls[t] \in Call OBVIOUS
  <2>2. CASE calls[t].hook = c.hook
    <3>1. calls'[t] = [calls[t] EXCEPT !.last = FALSE] BY <1>1, <2>2
    <3>2. QED BY <1>2, <2>1, <2>2, <3>1
  <2>3. CASE calls[t].hook # c.hook
    <3>1. calls'[t] = calls[t] BY <1>1, <2>3
    <3>2. QED BY <3>1
  <2>4. QED BY <2>2, <2>3
<1>5. QED BY <1>3, <1>4

\* The form of a request that is sent.
Fresh(hook, row, val, undo, m) ==
    [Unused EXCEPT !.at = "sent", !.hook = hook, !.row = row, !.val = val,
                   !.undo = undo, !.last = TRUE, !.meant = m]

LEMMA SentCall ==
    ASSUME NEW hook \in Hooks, NEW row \in Rows \cup {Nothing}, NEW val \in Contents,
           NEW m \in Intent, NEW undo \in Tables, NEW c, c = Fresh(hook, row, val, undo, m)
    PROVE  /\ c \in Call /\ c.at = "sent" /\ c.hook = hook /\ c.row = row /\ c.val = val
           /\ c.last /\ c.meant = m /\ ~c.spent
<1>1. Unused \in Call /\ ~Unused.spent BY FreshIsCall DEF Unused
<1>2. QED BY <1>1 DEF Call, Fresh

\* What a request does as it leaves: on the page only to rows of its own key,
\* and only if its hook is optimistic.
LEMMA Mutated ==
    ASSUME TypeOK, CallsFit, NEW s \in Slots, NEW hook \in Hooks, NEW row \in Rows \cup {Nothing},
           NEW val \in Contents, NEW m \in Intent, Mutate(s, hook, row, val, m),
           hook \in Optimistic => row \in Rows
    PROVE  /\ calls[s].at = "unused" /\ calls' \in [Slots -> Call]
           /\ calls'[s].at = "sent" /\ calls'[s].hook = hook /\ calls'[s].row = row
           /\ calls'[s].val = val /\ calls'[s].last /\ calls'[s].meant = m /\ ~calls'[s].spent
           /\ \A t \in Slots \ {s} :
                 /\ calls'[t].at = calls[t].at /\ calls'[t].hook = calls[t].hook
                 /\ calls'[t].row = calls[t].row /\ calls'[t].val = calls[t].val
                 /\ calls'[t].meant = calls[t].meant /\ calls'[t].spent = calls[t].spent
                 /\ calls[t].hook # hook => calls'[t] = calls[t]
           /\ page' = page /\ server' = server
           /\ hook \notin Optimistic => fetch' = fetch /\ cache' = cache
           /\ hook \in Optimistic => /\ fetch' = [fetch EXCEPT ![Key(row)] = NoFetch]
                                     /\ \A r \in Rows : Key(r) # Key(row) => cache'[r] = cache[r]
           /\ cache' \in Tables /\ fetch' \in [Keys -> [at: {"idle", "asked", "read"}, rows: Tables]]
<1>1. PICK undo, c :
          /\ undo = (IF hook \in Optimistic THEN cache ELSE NoRows)
          /\ c = Fresh(hook, row, val, undo, m) /\ Place(s, c)
      BY DEF Mutate, Fresh
<1>2. undo \in Tables BY <1>1 DEF TypeOK, NoRows, Tables, Contents
<1>3. /\ c \in Call /\ c.at = "sent" /\ c.hook = hook /\ c.row = row /\ c.val = val
      /\ c.last /\ c.meant = m /\ ~c.spent
      BY <1>1, <1>2, SentCall
<1>4. calls \in [Slots -> Call] BY DEF CallsFit
<1>5. /\ calls' \in [Slots -> Call] /\ calls'[s] = c
      /\ \A t \in Slots \ {s} :
            /\ calls'[t].at = calls[t].at /\ calls'[t].hook = calls[t].hook
            /\ calls'[t].row = calls[t].row /\ calls'[t].val = calls[t].val
            /\ calls'[t].meant = calls[t].meant /\ calls'[t].spent = calls[t].spent
            /\ calls[t].hook # c.hook => calls'[t] = calls[t]
      BY <1>1, <1>3, <1>4, Placed
<1>6. /\ calls[s].at = "unused" /\ page' = page /\ server' = server /\ OnMutate(hook, row, val)
      BY DEF Mutate
<1>7. /\ hook \notin Optimistic => fetch' = fetch /\ cache' = cache
      /\ hook \in Optimistic =>
            /\ fetch' = [fetch EXCEPT ![Key(row)] = NoFetch]
            /\ cache' = (IF cache[row] = Nothing THEN cache ELSE [cache EXCEPT ![row] = val])
      BY <1>6 DEF OnMutate
<1>8. NoFetch \in [at: {"idle", "asked", "read"}, rows: Tables]
      BY DEF NoFetch, NoRows, Tables, Contents
<1>9. /\ cache' \in Tables /\ fetch' \in [Keys -> [at: {"idle", "asked", "read"}, rows: Tables]]
      /\ hook \in Optimistic => \A r \in Rows : Key(r) # Key(row) => cache'[r] = cache[r]
  <2>1. cache \in Tables /\ fetch \in [Keys -> [at: {"idle", "asked", "read"}, rows: Tables]]
        BY DEF TypeOK
  <2>2. CASE hook \in Optimistic
    <3>1. row \in Rows /\ Key(row) \in Keys BY <2>2, KeysOfRows
    <3>2. cache' \in Tables BY <1>7, <2>1, <2>2, <3>1 DEF Tables
    <3>3. fetch' \in [Keys -> [at: {"idle", "asked", "read"}, rows: Tables]]
          BY <1>7, <1>8, <2>1, <2>2, <3>1
    <3>4. \A r \in Rows : Key(r) # Key(row) => cache'[r] = cache[r]
          BY <1>7, <2>1, <2>2, <3>1 DEF Tables
    <3>5. QED BY <3>2, <3>3, <3>4
  <2>3. CASE hook \notin Optimistic BY <1>7, <2>1, <2>3
  <2>4. QED BY <2>2, <2>3
<1>10. QED BY <1>3, <1>5, <1>6, <1>7, <1>9

\* Requests under way beside one that is sent are still what they were.
LEMMA SentFit ==
    ASSUME CallsFit, NEW s \in Slots, UNCHANGED page, calls' \in [Slots -> Call],
           Fits(calls'[s]) /\ calls'[s].at = "sent",
           \A t \in Slots \ {s} :
               /\ calls'[t].at = calls[t].at /\ calls'[t].hook = calls[t].hook
               /\ calls'[t].row = calls[t].row
               /\ calls'[t].meant = calls[t].meant /\ calls'[t].spent = calls[t].spent
               /\ calls[t].hook # calls'[s].hook => calls'[t] = calls[t],
           page = "detail" => \A t \in Slots : ~UnderWay(t)
    PROVE  CallsFit'
<1>1. ASSUME NEW t \in Slots, calls'[t].at \in {"sent", "done", "refused", "stuck"}, t # s
      PROVE  Fits(calls'[t])
  <2>1. UnderWay(t) /\ page # "detail" BY <1>1 DEF UnderWay
  <2>2. Fits(calls[t]) BY <2>1 DEF CallsFit
  <2>3. QED BY <1>1, <2>1, <2>2 DEF Fits
<1>2. \A c : Fits(c)' <=> Fits(c) BY DEF Fits
<1>3. \A t \in Slots : UnderWay(t)' => Fits(calls'[t]) BY <1>1 DEF UnderWay
<1>4. \A t \in Slots : UnderWay(t)' => Fits(calls[t])'
  <2> SUFFICES ASSUME NEW t \in Slots, UnderWay(t)' PROVE Fits(calls[t])' OBVIOUS
  <2>1. Fits(calls'[t]) BY <1>3
  <2>2. QED BY <2>1 DEF Fits
<1>5. QED BY <1>4 DEF CallsFit

LEMMA SendsKeep ==
    ASSUME DeskInv, NEW s \in Slots, NEW hook \in Hooks, NEW row \in Rows \cup {Nothing},
           NEW val \in Contents, NEW m \in Intent, Mutate(s, hook, row, val, m),
           hook # "toggle",
           \A c : c.hook = hook /\ c.row = row /\ c.meant = m /\ ~c.spent => Fits(c),
           hook \in Optimistic => row \in Rows,
           UNCHANGED <<dialog, entry, meant, trouble>>, compressing' \in {compressing, FALSE}
    PROVE  DeskInv'
<1>1. TypeOK /\ CallsFit BY DEF DeskInv
<1>2. PICK c : c = calls'[s] OBVIOUS
<1>3. /\ calls[s].at = "unused" /\ calls' \in [Slots -> Call]
      /\ c.at = "sent" /\ c.hook = hook /\ c.row = row /\ c.meant = m /\ ~c.spent
      /\ \A t \in Slots \ {s} :
            /\ calls'[t].at = calls[t].at /\ calls'[t].hook = calls[t].hook
            /\ calls'[t].row = calls[t].row
            /\ calls'[t].meant = calls[t].meant /\ calls'[t].spent = calls[t].spent
            /\ calls[t].hook # hook => calls'[t] = calls[t]
      /\ page' = page /\ server' = server
      /\ hook \notin Optimistic => fetch' = fetch /\ cache' = cache
      /\ hook \in Optimistic => /\ fetch' = [fetch EXCEPT ![Key(row)] = NoFetch]
                                /\ \A r \in Rows : Key(r) # Key(row) => cache'[r] = cache[r]
      /\ cache' \in Tables /\ fetch' \in [Keys -> [at: {"idle", "asked", "read"}, rows: Tables]]
      BY <1>1, <1>2, Mutated
<1>4. Fits(c) BY <1>3
<1>5. page # "detail" /\ ~Toggling
  <2>1. hook \in Hooks \ {"toggle"} OBVIOUS
  <2>2. CASE hook \in {"updateSettings", "createReward", "updateReward", "deleteReward"}
        BY <1>3, <1>4, <2>2 DEF Fits, Toggling
  <2>3. CASE hook \in {"updateStaff", "adjust", "scan"} BY <1>3, <1>4, <2>3 DEF Fits, Toggling
  <2>4. QED BY <2>1, <2>2, <2>3 DEF Hooks
<1>6. TypeOK' BY <1>1, <1>3 DEF TypeOK
<1>7. CallsFit' BY <1>1, <1>2, <1>3, <1>4, <1>5, SentFit
<1>8. Reloaded'
  <2> SUFFICES ASSUME page # "transactions", NEW k \in Keys \ trouble
               PROVE  \/ Unsettled(k)' \/ fetch'[k].at = "asked"
                      \/ fetch'[k].at = "read" /\ Agree(fetch[k].rows, k)'
                      \/ fetch'[k].at = "idle" /\ Agree(cache, k)'
      BY <1>3 DEF Reloaded
  <2>1. CASE hook \in Optimistic /\ Key(row) = k
    <3>1. Disturbs(c) /\ CallKey(c) = k BY <1>3, <2>1 DEF Disturbs, CallKey
    <3>2. QED BY <1>2, <3>1 DEF Unsettled
  <2>2. CASE ~(hook \in Optimistic /\ Key(row) = k)
    <3>1. fetch'[k] = fetch[k] BY <1>1, <1>3, <2>2, KeysOfRows DEF TypeOK
    <3>2. \A r \in At(k) : cache'[r] = cache[r] /\ server'[r] = server[r] BY <1>3, <2>2 DEF At
    <3>3. Unsettled(k) => Unsettled(k)'
      <4> SUFFICES ASSUME NEW t \in Slots, Disturbs(calls[t]), CallKey(calls[t]) = k
                   PROVE  Disturbs(calls'[t]) /\ CallKey(calls'[t]) = k
          BY DEF Unsettled
      <4>1. t # s BY <1>3 DEF Disturbs
      <4>2. QED BY <1>3, <4>1 DEF Disturbs, CallKey
    <3>4. QED BY <1>5, <3>1, <3>2, <3>3 DEF DeskInv, Reloaded, Agree, At, Key
  <2>3. QED BY <2>1, <2>2
<1>9. InTurn' BY <1>3, <1>5 DEF InTurn, Toggling
<1>10. AsOpened'
  <2>1. CASE compressing' = compressing BY <1>3, <2>1 DEF DeskInv, AsOpened, OnScreen
  <2>2. CASE compressing' = FALSE BY <1>3, <2>2 DEF DeskInv, AsOpened, OnScreen
  <2>3. QED BY <2>1, <2>2
<1>11. QED BY <1>6, <1>7, <1>8, <1>9, <1>10 DEF DeskInv

LEMMA IntentsMeant ==
    ASSUME NEW hook \in Hooks, NEW row \in Rows \cup {Nothing}
    PROVE  /\ AsMeant(hook, row) \in Intent
           /\ AsMeant(hook, row).hook = hook /\ AsMeant(hook, row).row = row
BY DEF AsMeant, Intent

\* The buttons of the merchant's pages.
LEMMA ButtonsKeep ==
    ASSUME DeskInv, NEW s \in Slots,
           \/ OnSubmitProfile(s) \/ LogoReady(s) \/ HandleSaveRate(s)
           \/ OnSubmitReward(s) \/ ConfirmDeleteReward(s)
           \/ OnSubmitStaffEdit(s) \/ HandleAdjust(s) \/ HandleRowAdjust(s)
    PROVE  DeskInv'
<1>1. TypeOK /\ AsOpened BY DEF DeskInv
<1>2. /\ dialog.editing \in Entries \cup {Nothing} /\ dialog.doomed \in Entries \cup {Nothing}
      /\ dialog.shown \in {"no", "open", "fading"} /\ compressing \in BOOLEAN
      /\ Entries \subseteq Rows /\ Fields \subseteq Rows /\ Vals \cup {Nothing} = Contents
      BY <1>1 DEF TypeOK, Rows, Contents
<1>3. {"profile", "logo", "rate"} \subseteq Fields BY DEF Fields
<1>4. CASE OnSubmitProfile(s) \/ LogoReady(s) \/ HandleSaveRate(s)
  <2>1. PICK f \in Fields, v \in Vals :
            Mutate(s, "updateSettings", f, v, AsMeant("updateSettings", f))
        BY <1>3, <1>4 DEF OnSubmitProfile, LogoReady, HandleSaveRate, Submit
  <2>2. /\ UNCHANGED <<dialog, entry, meant, trouble>> /\ compressing' \in {compressing, FALSE}
        /\ page \in {"settings", "rate"}
        BY <1>1, <1>4 DEF OnSubmitProfile, LogoReady, HandleSaveRate, Submit, form, AsOpened
  <2>3. PICK m \in Intent : m = AsMeant("updateSettings", f) /\ m.hook = "updateSettings" /\ m.row = f
        BY <1>2, IntentsMeant DEF Hooks
  <2>4. \A c : c.hook = "updateSettings" /\ c.row = f /\ c.meant = m /\ ~c.spent => Fits(c)
        BY <2>2, <2>3 DEF Fits
  <2>5. Mutate(s, "updateSettings", f, v, m) BY <2>1, <2>3
  <2>6. QED BY <1>2, <2>2, <2>4, <2>5, SendsKeep DEF Hooks
<1>5. CASE OnSubmitReward(s)
  <2>1. PICK hook : hook = (IF dialog.editing # Nothing THEN "updateReward" ELSE "createReward")
        OBVIOUS
  <2>2. PICK m : m = (IF dialog.shown = "open" THEN meant ELSE AsMeant(hook, dialog.editing))
        OBVIOUS
  <2>3. \E v \in Vals : Submit(s, hook, dialog.editing, v, m) BY <1>5, <2>1, <2>2 DEF OnSubmitReward
  <2>4. PICK v \in Vals :
            /\ hook = (IF dialog.editing # Nothing THEN "updateReward" ELSE "createReward")
            /\ m = (IF dialog.shown = "open" THEN meant ELSE AsMeant(hook, dialog.editing))
            /\ Submit(s, hook, dialog.editing, v, m)
        BY <2>1, <2>2, <2>3
  <2>5. page = "rewards" /\ hook \in Hooks \ {"toggle"} BY <1>5, <2>4 DEF OnSubmitReward, Hooks
  <2>6. m = AsMeant(hook, dialog.editing) BY <1>1, <2>4, <2>5 DEF AsOpened
  <2>7. PICK row \in Rows \cup {Nothing} : row = dialog.editing BY <1>2
  <2>8. m \in Intent /\ m.hook = hook /\ m.row = row BY <2>5, <2>6, <2>7, IntentsMeant
  <2>9. \A c : c.hook = hook /\ c.row = row /\ c.meant = m /\ ~c.spent => Fits(c)
        BY <1>2, <2>4, <2>5, <2>7, <2>8 DEF Fits
  <2>10. Mutate(s, hook, row, v, m) /\ UNCHANGED <<form, trouble>> BY <2>4, <2>7 DEF Submit
  <2>11. hook \in Optimistic => row \in Rows BY <1>2, <2>4, <2>7 DEF Optimistic
  <2>12. QED BY <1>2, <2>5, <2>8, <2>9, <2>10, <2>11, SendsKeep DEF form
<1>6. CASE ConfirmDeleteReward(s)
  <2>1. PICK row : row = dialog.doomed OBVIOUS
  <2>2. row \in Entries /\ page = "rewards" /\ meant = AsMeant("deleteReward", row)
        BY <1>1, <1>2, <1>6, <2>1 DEF ConfirmDeleteReward, AsOpened
  <2>3. PICK m \in Intent : m = meant /\ m.hook = "deleteReward" /\ m.row = row
        BY <1>2, <2>2, IntentsMeant DEF Hooks
  <2>4. Mutate(s, "deleteReward", row, Nothing, m) /\ UNCHANGED <<form, trouble>>
        BY <1>6, <2>1, <2>3 DEF ConfirmDeleteReward, Submit
  <2>5. \A c : c.hook = "deleteReward" /\ c.row = row /\ c.meant = m /\ ~c.spent => Fits(c)
        BY <2>2, <2>3 DEF Fits
  <2>6. QED BY <1>2, <2>2, <2>4, <2>5, SendsKeep DEF form, Hooks, Optimistic
<1>7. CASE OnSubmitStaffEdit(s) \/ HandleAdjust(s) \/ HandleRowAdjust(s)
  <2>1. PICK row : row = dialog.editing OBVIOUS
  <2>2. PICK hook \in {"updateStaff", "adjust"} :
            /\ \E v \in Vals : Submit(s, hook, row, v, meant)
            /\ row \in Entries /\ meant = AsMeant(hook, row)
            /\ hook = "updateStaff" => page = "staff"
            /\ hook = "adjust" => page \in {"customers", "transactions"}
        BY <1>1, <1>2, <1>7, <2>1 DEF OnSubmitStaffEdit, HandleAdjust, HandleRowAdjust, AsOpened
  <2>3. hook \in Hooks /\ hook \notin Optimistic /\ hook # "toggle" BY DEF Hooks, Optimistic
  <2>4. PICK m \in Intent : m = meant /\ m.hook = hook /\ m.row = row
        BY <1>2, <2>2, <2>3, IntentsMeant
  <2>5. PICK v \in Vals : Mutate(s, hook, row, v, m) BY <2>2, <2>4 DEF Submit
  <2>6. UNCHANGED <<form, trouble>> BY <2>2 DEF Submit
  <2>7. \A c : c.hook = hook /\ c.row = row /\ c.meant = m /\ ~c.spent => Fits(c)
        BY <2>2, <2>4 DEF Fits
  <2>8. QED BY <1>2, <2>2, <2>3, <2>5, <2>6, <2>7, SendsKeep DEF form
<1>8. QED BY <1>4, <1>5, <1>6, <1>7

\* A code is sent with what has been filled in, none of it sent before.
LEMMA ScanKeeps ==
    ASSUME DeskInv, NEW s \in Slots, HandleScan(s)
    PROVE  DeskInv'
<1>1. TypeOK /\ CallsFit /\ AsOpened BY DEF DeskInv
<1> DEFINE spent == \E b \in Offered : entry.boxes[b] = "spent"
           fresh == [Unused EXCEPT !.at = "sent", !.hook = "scan", !.last = TRUE,
                                   !.meant = AsMeant("scan", Nothing), !.spent = spent]
           boxes == [b \in Blanks |-> IF b \in Offered /\ entry.boxes[b] = "fresh" THEN "given"
                                      ELSE entry.boxes[b]]
<1>2. /\ page = "scan" /\ calls[s].at = "unused" /\ Place(s, fresh)
      /\ entry' = [entry EXCEPT !.boxes = boxes]
      /\ UNCHANGED <<page, server, cache, fetch, dialog, compressing, meant, trouble>>
      BY DEF HandleScan
<1>3. ~spent
  <2>1. Offered \subseteq Blanks
    <3>1. CASE entry.action = "points" BY <3>1 DEF Offered, Blanks
    <3>2. CASE entry.action = "stamp" BY <3>2 DEF Offered, Blanks
    <3>3. CASE entry.action = "redeem" BY <3>3 DEF Offered, Blanks
    <3>4. entry.action \in {"points", "stamp", "redeem"} BY <1>1 DEF TypeOK
    <3>5. QED BY <3>1, <3>2, <3>3, <3>4
  <2>2. QED BY <1>1, <2>1 DEF AsOpened
<1>4. /\ fresh \in Call /\ fresh.at = "sent" /\ fresh.hook = "scan" /\ fresh.row = Nothing
      /\ fresh.meant = AsMeant("scan", Nothing) /\ fresh.spent = FALSE
  <2>1. AsMeant("scan", Nothing) \in Intent BY IntentsMeant DEF Hooks
  <2>2. Unused \in Call /\ Unused.row = Nothing BY FreshIsCall DEF Unused
  <2>3. PICK no \in BOOLEAN : no = spent /\ no = FALSE BY <1>3
  <2> HIDE DEF spent
  <2>4. QED BY <2>1, <2>2, <2>3 DEF Call, Hooks
<1>5. AsMeant("scan", Nothing).hook = "scan" /\ AsMeant("scan", Nothing).row = Nothing
      BY IntentsMeant DEF Hooks
<1> HIDE DEF fresh
<1>6. PICK c \in Call : c = fresh BY <1>4
<1>7. /\ calls' \in [Slots -> Call] /\ calls'[s] = c
      /\ \A t \in Slots \ {s} :
            /\ calls'[t].at = calls[t].at /\ calls'[t].hook = calls[t].hook
            /\ calls'[t].row = calls[t].row
            /\ calls'[t].meant = calls[t].meant /\ calls'[t].spent = calls[t].spent
            /\ calls[t].hook # c.hook => calls'[t] = calls[t]
  <2>1. Place(s, c) /\ calls \in [Slots -> Call] BY <1>1, <1>2, <1>6 DEF CallsFit
  <2>2. QED BY <2>1, Placed
<1>8. Fits(c) BY <1>2, <1>4, <1>5, <1>6 DEF Fits
<1>9. CallsFit' BY <1>1, <1>2, <1>4, <1>6, <1>7, <1>8, SentFit
<1>10. entry.boxes \in [Blanks -> {"none", "fresh", "given", "spent"}] BY <1>1 DEF TypeOK
<1>11. /\ boxes \in [Blanks -> {"none", "fresh", "given", "spent"}]
       /\ \A b \in Blanks : boxes[b] # "spent"
       BY <1>1, <1>10 DEF AsOpened
<1> HIDE DEF boxes
<1>12. entry'.boxes = boxes /\ entry' \in [action: {"points", "stamp", "redeem"},
                                           boxes: [Blanks -> {"none", "fresh", "given", "spent"}]]
       BY <1>1, <1>2, <1>11 DEF TypeOK
<1>13. TypeOK' BY <1>1, <1>2, <1>7, <1>12 DEF TypeOK
<1>14. AsOpened'
       BY <1>1, <1>2, <1>11, <1>12 DEF AsOpened, OnScreen
<1>15. Reloaded'
  <2> SUFFICES ASSUME NEW k \in Keys \ trouble
               PROVE  \/ Unsettled(k)' \/ fetch[k].at = "asked"
                      \/ fetch[k].at = "read" /\ Agree(fetch[k].rows, k)
                      \/ fetch[k].at = "idle" /\ Agree(cache, k)
      BY <1>2 DEF Reloaded, Agree, At, Key
  <2>1. Unsettled(k) => Unsettled(k)'
    <3> SUFFICES ASSUME NEW t \in Slots, Disturbs(calls[t]), CallKey(calls[t]) = k
                 PROVE  Disturbs(calls'[t]) /\ CallKey(calls'[t]) = k
        BY DEF Unsettled
    <3>1. t # s BY <1>2 DEF Disturbs
    <3>2. QED BY <1>7, <3>1 DEF Disturbs, CallKey
  <2>2. QED BY <1>2, <2>1 DEF DeskInv, Reloaded, Toggling
<1>16. InTurn' BY <1>2 DEF InTurn, Toggling
<1>17. QED BY <1>9, <1>13, <1>14, <1>15, <1>16 DEF DeskInv

\* A merchant is turned over from what its row shows.  Of two toggles of one
\* merchant the list says no more; one merchant's page waits for the first.
LEMMA TogglesKeep ==
    ASSUME DeskInv, NEW s \in Slots, HandleToggle(s) \/ \E e \in Entries : HandleToggleStatus(s, e)
    PROVE  DeskInv'
<1>1. TypeOK /\ CallsFit /\ AsOpened /\ InTurn BY DEF DeskInv
<1>2. /\ cache \in Tables /\ trouble \subseteq Keys /\ Entries \subseteq Rows /\ "profile" \in Rows
      /\ Key("profile") = "merchant"
      BY <1>1 DEF TypeOK, Rows, Fields, Key
<1>3. PICK row \in Rows :
          /\ Mutate(s, "toggle", row, Toggled(cache[row]), AsMeant("toggle", row))
          /\ \/ /\ page = "merchants" /\ row \in Entries /\ cache[row] # Nothing
                /\ trouble' = (IF \E t \in Slots : calls[t].at \in {"sent", "done"} /\ calls[t].row = row
                               THEN trouble \cup {"list"} ELSE trouble)
             \/ page = "detail" /\ row = "profile" /\ ~Pending("toggle") /\ trouble' = trouble
          /\ UNCHANGED form
  <2>1. ASSUME NEW e \in Entries, HandleToggleStatus(s, e)
        PROVE  /\ Mutate(s, "toggle", e, Toggled(cache[e]), AsMeant("toggle", e))
               /\ page = "merchants" /\ cache[e] # Nothing
               /\ trouble' = (IF \E t \in Slots : calls[t].at \in {"sent", "done"} /\ calls[t].row = e
                              THEN trouble \cup {"list"} ELSE trouble)
               /\ UNCHANGED form
        BY <2>1 DEF HandleToggleStatus, Listed
  <2>2. CASE HandleToggle(s) BY <1>2, <2>2 DEF HandleToggle, Submit
  <2>3. CASE \E e \in Entries : HandleToggleStatus(s, e) BY <1>2, <2>1, <2>3
  <2>4. QED BY <2>2, <2>3
<1>4. Toggling /\ cache[row] \in Vals BY <1>1, <1>2, <1>3 DEF InTurn, Toggling, Tables, Contents
<1>5. PICK v \in Vals : v = Toggled(cache[row]) BY <1>4, OtherVal
<1>6. PICK m \in Intent : m = AsMeant("toggle", row) /\ m.hook = "toggle" /\ m.row = row
      BY IntentsMeant DEF Hooks
<1>7. PICK c : c = calls'[s] OBVIOUS
<1>8. /\ calls[s].at = "unused" /\ calls' \in [Slots -> Call]
      /\ c.at = "sent" /\ c.hook = "toggle" /\ c.row = row /\ c.val = v /\ c.last
      /\ c.meant = m /\ ~c.spent
      /\ \A t \in Slots \ {s} :
            /\ calls'[t].at = calls[t].at /\ calls'[t].hook = calls[t].hook
            /\ calls'[t].row = calls[t].row /\ calls'[t].val = calls[t].val
            /\ calls'[t].meant = calls[t].meant /\ calls'[t].spent = calls[t].spent
            /\ calls[t].hook # "toggle" => calls'[t] = calls[t]
      /\ page' = page /\ server' = server /\ fetch' = fetch /\ cache' = cache
  <2>1. Mutate(s, "toggle", row, v, m) BY <1>3, <1>5, <1>6
  <2>2. "toggle" \in Hooks \ Optimistic /\ v \in Contents BY DEF Hooks, Optimistic, Contents
  <2>3. QED BY <1>1, <1>7, <2>1, <2>2, Mutated
<1>9. Fits(c) BY <1>3, <1>6, <1>8 DEF Fits
<1>10. page = "detail" => \A t \in Slots : ~UnderWay(t)
  <2> SUFFICES ASSUME page = "detail", NEW t \in Slots, UnderWay(t) PROVE FALSE OBVIOUS
  <2>1. Fits(calls[t]) /\ calls[t].hook \in Hooks BY <1>1 DEF CallsFit, Call
  <2>2. calls[t].hook = "toggle" BY <2>1 DEF Fits, Hooks
  <2>3. calls[t].last BY <2>1, <2>2 DEF Fits
  <2>4. ~Pending("toggle") BY <1>3
  <2>5. QED BY <2>2, <2>3, <2>4 DEF Pending
<1>11. CallsFit' BY <1>1, <1>7, <1>8, <1>9, <1>10, SentFit
<1>12. /\ UNCHANGED <<dialog, entry, meant, compressing>>
       /\ trouble \subseteq trouble' /\ trouble' \subseteq Keys
       BY <1>2, <1>3 DEF form, Keys
<1>13. TypeOK' BY <1>1, <1>8, <1>12 DEF TypeOK
<1>14. AsOpened' BY <1>1, <1>8, <1>12 DEF AsOpened, OnScreen
<1>15. Reloaded' BY <1>4, <1>8 DEF Reloaded, Toggling
<1>16. InTurn'
  <2>1. \A t \in Slots : UnderWay(t)' => cache'[calls'[t].row] \in Vals
        BY <1>1, <1>4, <1>7, <1>8 DEF InTurn, UnderWay
  <2>2. ASSUME NEW r \in Rows, Key(r) \notin trouble' PROVE Turned(r)'
    <3>1. Turned(r) BY <1>1, <1>4, <1>12, <2>2 DEF InTurn
    <3>2. CASE r # row
      <4>1. Turning(r)' = Turning(r) BY <1>7, <1>8, <3>2 DEF Turning
      <4>2. s \notin Turning(r) BY <1>8 DEF Turning
      <4>3. Turning(r) \subseteq Slots \ {s} BY <4>2 DEF Turning
      <4>4. QED BY <1>8, <3>1, <4>1, <4>3 DEF Turned
    <3>3. CASE r = row
      <4>1. Turning(r) = {}
        <5>1. CASE page = "detail" BY <1>10, <5>1 DEF Turning, UnderWay
        <5>2. CASE page = "merchants"
          <6>1. Key(row) = "list" BY <1>3, <5>2, KeysOfRows
          <6>2. QED BY <1>3, <2>2, <3>3, <5>2, <6>1 DEF Turning
        <5>3. QED BY <1>3, <5>1, <5>2
      <4>2. Turning(r)' = {s} BY <1>7, <1>8, <3>3, <4>1 DEF Turning
      <4>3. server[r] = cache[r] BY <3>1, <4>1 DEF Turned
      <4>4. QED BY <1>5, <1>7, <1>8, <3>3, <4>2, <4>3 DEF Turned
    <3>4. QED BY <3>2, <3>3
  <2>3. QED BY <1>1, <1>4, <1>8, <2>1, <2>2 DEF InTurn, Toggling, Key
<1>17. QED BY <1>11, <1>13, <1>14, <1>15, <1>16 DEF DeskInv

-----------------------------------------------------------------------------
(* Gestures that send nothing *)

\* What neither sends nor answers leaves rows and requests as they are.
LEMMA RowsStand ==
    ASSUME DeskInv, UNCHANGED <<page, server, cache, fetch, calls, trouble>>, TypeOK', AsOpened'
    PROVE  DeskInv'
<1>1. CallsFit'
  <2>1. \A t \in Slots : UnderWay(t)' => Fits(calls[t])' BY DEF DeskInv, CallsFit, UnderWay, Fits
  <2>2. QED BY <2>1 DEF DeskInv, CallsFit
<1>2. Reloaded'
      BY DEF DeskInv, Reloaded, Toggling, Unsettled, Disturbs, CallKey, Key, Agree, At
<1>3. InTurn'
  <2>1. \A r \in Rows : Turned(r)' <=> Turned(r) BY DEF Turned, Turning
  <2>2. QED BY <2>1 DEF DeskInv, InTurn, Toggling, UnderWay, Key
<1>4. QED BY <1>1, <1>2, <1>3 DEF DeskInv

Dialogs == [shown: {"no", "open", "fading"}, editing: Entries \cup {Nothing},
            doomed: Entries \cup {Nothing}]

\* Closing a dialog, and clearing what it edits.
LEMMA Closing ==
    ASSUME NEW d \in Dialogs
    PROVE  /\ Shut(d) \in Dialogs /\ Shut(d).editing = d.editing /\ Shut(d).doomed = d.doomed
           /\ Forget(d) \in Dialogs /\ Forget(d).editing = Nothing /\ Forget(d).doomed = d.doomed
           /\ Forget(d).shown = Shut(d).shown
           /\ Shut(d).shown = IF d.shown = "open" THEN "fading" ELSE d.shown
<1>1. /\ Shut(d) \in Dialogs /\ Shut(d).editing = d.editing /\ Shut(d).doomed = d.doomed
      /\ Shut(d).shown = IF d.shown = "open" THEN "fading" ELSE d.shown
  <2>1. CASE d.shown = "open" BY <2>1 DEF Shut, Dialogs
  <2>2. CASE d.shown # "open" BY <2>2 DEF Shut, Dialogs
  <2>3. QED BY <2>1, <2>2
<1>2. PICK x \in Dialogs : x = Shut(d) BY <1>1
<1>3. Forget(d) = [x EXCEPT !.editing = Nothing] BY <1>2 DEF Forget
<1>4. /\ Forget(d) \in Dialogs /\ Forget(d).editing = Nothing
      /\ Forget(d).doomed = x.doomed /\ Forget(d).shown = x.shown
      BY <1>3 DEF Dialogs
<1>5. QED BY <1>1, <1>2, <1>4

\* A dialog opens where there is none; what it edits and what it is meant for agree.
LEMMA DialogsKeep ==
    ASSUME DeskInv,
           \/ \E e \in Entries : HandleEdit(e) \/ HandleDelete(e) \/ OpenStaffEdit(e)
                                 \/ HandleRowClick(e) \/ OpenAdjust(e)
           \/ OpenCreate \/ CloseDialog \/ CancelDelete \/ CloseStaffEdit \/ CloseDetail \/ CloseAdjust
           \/ FadeOut
    PROVE  DeskInv'
<1>1. TypeOK /\ AsOpened /\ dialog \in Dialogs BY DEF DeskInv, TypeOK, Dialogs
<1>2. ASSUME NEW d \in Dialogs, NEW m \in Intent \cup {Nothing}, Dialog(d, m), AsOpened'
      PROVE  DeskInv'
  <2>1. /\ dialog' = d /\ meant' = m
        /\ UNCHANGED <<page, server, cache, fetch, calls, compressing, entry, trouble>>
        BY <1>2 DEF Dialog
  <2>2. TypeOK' BY <1>1, <2>1 DEF TypeOK, Dialogs
  <2>3. QED BY <1>2, <2>1, <2>2, RowsStand
<1>3. ASSUME NEW d \in Dialogs, NEW m \in Intent \cup {Nothing}, Dialog(d, m)
      PROVE  /\ dialog' = d /\ meant' = m /\ page' = page /\ compressing' = compressing
             /\ entry' = entry
             /\ compressing => page = "settings"
             /\ \A b \in Blanks : entry.boxes[b] # "spent"
      BY <1>1, <1>3 DEF Dialog, AsOpened
<1>4. ASSUME NEW e \in Entries,
             \/ HandleEdit(e) \/ OpenStaffEdit(e) \/ HandleRowClick(e) \/ OpenAdjust(e)
      PROVE  DeskInv'
  <2>1. PICK hook \in {"updateReward", "updateStaff", "adjust"} :
            /\ Dialog([dialog EXCEPT !.shown = "open", !.editing = e], AsMeant(hook, e))
            /\ Free
            /\ \/ hook = "updateReward" /\ page = "rewards"
               \/ hook = "updateStaff" /\ page = "staff"
               \/ hook = "adjust" /\ page \in {"customers", "transactions"}
    <3> DEFINE d == [dialog EXCEPT !.shown = "open", !.editing = e]
    <3>1. HandleEdit(e) => Dialog(d, AsMeant("updateReward", e)) /\ Free /\ page = "rewards"
          BY DEF HandleEdit
    <3>2. OpenStaffEdit(e) => Dialog(d, AsMeant("updateStaff", e)) /\ Free /\ page = "staff"
          BY DEF OpenStaffEdit
    <3>3. HandleRowClick(e) \/ OpenAdjust(e) =>
              Dialog(d, AsMeant("adjust", e)) /\ Free /\ page \in {"customers", "transactions"}
          BY DEF HandleRowClick, OpenAdjust
    <3> HIDE DEF d
    <3>4. \E hook \in {"updateReward", "updateStaff", "adjust"} :
             /\ Dialog(d, AsMeant(hook, e)) /\ Free
             /\ \/ hook = "updateReward" /\ page = "rewards"
                \/ hook = "updateStaff" /\ page = "staff"
                \/ hook = "adjust" /\ page \in {"customers", "transactions"}
          BY <1>4, <3>1, <3>2, <3>3
    <3>5. QED BY <3>4 DEF d
  <2>2. PICK d \in Dialogs : /\ d = [dialog EXCEPT !.shown = "open", !.editing = e]
                             /\ d.shown = "open" /\ d.editing = e /\ d.doomed = Nothing
    <3>1. PICK d : d = [dialog EXCEPT !.shown = "open", !.editing = e] OBVIOUS
    <3>2. d \in Dialogs /\ d.shown = "open" /\ d.editing = e /\ d.doomed = dialog.doomed
          BY <1>1, <3>1 DEF Dialogs
    <3>3. QED BY <2>1, <3>1, <3>2 DEF Free
  <2>3. PICK m \in Intent : m = AsMeant(hook, e) BY IntentsMeant DEF Hooks, Rows
  <2>4. Dialog(d, m) BY <2>1, <2>2, <2>3
  <2>5. e # Nothing BY DeskAssumption DEF Rows
  <2>6. AsOpened' BY <1>3, <2>1, <2>2, <2>3, <2>4, <2>5 DEF AsOpened, OnScreen
  <2>7. QED BY <1>2, <2>2, <2>3, <2>4, <2>6
<1>5. ASSUME NEW e \in Entries, HandleDelete(e) PROVE DeskInv'
  <2>1. /\ Dialog([dialog EXCEPT !.doomed = e], AsMeant("deleteReward", e))
        /\ page = "rewards" /\ dialog.shown = "no"
        BY <1>5 DEF HandleDelete, Free
  <2>2. PICK d \in Dialogs : /\ d = [dialog EXCEPT !.doomed = e]
                             /\ d.shown = "no" /\ d.doomed = e
    <3>1. PICK d : d = [dialog EXCEPT !.doomed = e] OBVIOUS
    <3>2. d \in Dialogs /\ d.shown = dialog.shown /\ d.doomed = e BY <1>1, <3>1 DEF Dialogs
    <3>3. QED BY <2>1, <3>1, <3>2
  <2>3. PICK m \in Intent : m = AsMeant("deleteReward", e) BY IntentsMeant DEF Hooks, Rows
  <2>4. Dialog(d, m) BY <2>1, <2>2, <2>3
  <2>5. AsOpened' BY <1>3, <2>1, <2>2, <2>3, <2>4 DEF AsOpened, OnScreen
  <2>6. QED BY <1>2, <2>2, <2>3, <2>4, <2>5
<1>6. CASE OpenCreate
  <2>1. /\ Dialog([dialog EXCEPT !.shown = "open", !.editing = Nothing], AsMeant("createReward", Nothing))
        /\ page = "rewards" /\ dialog.doomed = Nothing
        BY <1>6 DEF OpenCreate, Free, Blank
  <2>2. PICK d \in Dialogs : /\ d = [dialog EXCEPT !.shown = "open", !.editing = Nothing]
                             /\ d.shown = "open" /\ d.editing = Nothing /\ d.doomed = Nothing
    <3>1. PICK d : d = [dialog EXCEPT !.shown = "open", !.editing = Nothing] OBVIOUS
    <3>2. d \in Dialogs /\ d.shown = "open" /\ d.editing = Nothing /\ d.doomed = dialog.doomed
          BY <1>1, <3>1 DEF Dialogs
    <3>3. QED BY <2>1, <3>1, <3>2
  <2>3. PICK m \in Intent : m = AsMeant("createReward", Nothing) BY IntentsMeant DEF Hooks
  <2>4. Dialog(d, m) BY <2>1, <2>2, <2>3
  <2>5. AsOpened' BY <1>3, <2>1, <2>2, <2>3, <2>4 DEF AsOpened, OnScreen
  <2>6. QED BY <1>2, <2>2, <2>3, <2>4, <2>5
<1>7. CASE CloseDialog \/ CloseStaffEdit \/ CloseDetail \/ CloseAdjust
  <2>1. PICK d \in {Shut(dialog), Forget(dialog)} :
            /\ Dialog(d, meant)
            /\ page = "rewards" => d = Forget(dialog)
            /\ page \in {"customers", "transactions"} => d = Shut(dialog)
        BY <1>7 DEF CloseDialog, CloseStaffEdit, CloseDetail, CloseAdjust
  <2>2. dialog.shown = "open"
        BY <1>7 DEF CloseDialog, CloseStaffEdit, CloseDetail, CloseAdjust
  <2>3. /\ d \in Dialogs /\ d.shown = "fading" /\ d.doomed = dialog.doomed
        /\ \/ d = Shut(dialog) /\ d.editing = dialog.editing
           \/ d = Forget(dialog) /\ d.editing = Nothing
    <3>1. CASE d = Shut(dialog)
      <4>1. /\ d \in Dialogs /\ d.editing = dialog.editing /\ d.doomed = dialog.doomed
            /\ d.shown = IF dialog.shown = "open" THEN "fading" ELSE dialog.shown
            BY <1>1, <3>1, Closing
      <4>2. QED BY <2>2, <3>1, <4>1
    <3>2. CASE d = Forget(dialog) BY <1>1, <2>2, <3>2, Closing
    <3>3. QED BY <2>1, <3>1, <3>2
  <2>4. PICK m \in Intent \cup {Nothing} : m = meant BY <1>1 DEF TypeOK
  <2>5. Dialog(d, m) BY <2>1, <2>4
  <2>6. dialog.doomed = Nothing BY <1>1, <2>2 DEF AsOpened
  <2>7. page \in {"customers", "transactions"} => d.editing = dialog.editing
        BY <1>1, <2>1, Closing
  <2>8. AsOpened' BY <1>1, <1>3, <2>1, <2>2, <2>3, <2>4, <2>5, <2>6, <2>7 DEF AsOpened, OnScreen
  <2>9. QED BY <1>2, <2>3, <2>4, <2>5, <2>8
<1>8. CASE CancelDelete \/ FadeOut
  <2>1. PICK d \in Dialogs : /\ Dialog(d, meant) /\ d.editing = dialog.editing
                             /\ d.shown = dialog.shown \/ d.shown = "no"
                             /\ d.doomed = dialog.doomed \/ d.doomed = Nothing
    <3>1. CASE CancelDelete
      <4>1. Dialog([dialog EXCEPT !.doomed = Nothing], meant) BY <3>1 DEF CancelDelete
      <4>2. QED BY <1>1, <4>1 DEF Dialogs
    <3>2. CASE FadeOut
      <4>1. Dialog([dialog EXCEPT !.shown = "no"], meant) BY <3>2 DEF FadeOut
      <4>2. QED BY <1>1, <4>1 DEF Dialogs
    <3>3. QED BY <1>8, <3>1, <3>2
  <2>2. PICK m \in Intent \cup {Nothing} : m = meant BY <1>1 DEF TypeOK
  <2>3. Dialog(d, m) BY <2>1, <2>2
  <2>4. AsOpened' BY <1>1, <1>3, <2>1, <2>2, <2>3 DEF AsOpened, OnScreen
  <2>5. QED BY <1>2, <2>1, <2>2, <2>3, <2>4
<1>9. QED BY <1>4, <1>5, <1>6, <1>7, <1>8

\* Filling in the form of the Scan page, and picking a logo.
LEMMA FormsKeep ==
    ASSUME DeskInv, ChooseAction \/ FillIn \/ ScanCode \/ DropCode \/ PickLogo \/ LogoFails
    PROVE  DeskInv'
<1> DEFINE Actions == {"points", "stamp", "redeem"}
           Boxes == [Blanks -> {"none", "fresh", "given", "spent"}]
<1>1. TypeOK /\ AsOpened /\ entry \in [action: Actions, boxes: Boxes] BY DEF DeskInv, TypeOK
<1>2. ASSUME NEW e \in [action: Actions, boxes: Boxes], Entry(e), \A b \in Blanks : e.boxes[b] # "spent"
      PROVE  DeskInv'
  <2>1. /\ entry' = e
        /\ UNCHANGED <<page, server, cache, fetch, calls, dialog, compressing, meant, trouble>>
        BY <1>2 DEF Entry
  <2>2. TypeOK' BY <1>1, <2>1 DEF TypeOK
  <2>3. AsOpened' BY <1>1, <1>2, <2>1 DEF AsOpened, OnScreen
  <2>4. QED BY <2>1, <2>2, <2>3, RowsStand
<1>3. CASE ChooseAction
  <2>1. PICK a \in Actions :
            \E bs : Entry([action |-> a, boxes |-> Emptied(entry.boxes, bs)])
        BY <1>3 DEF ChooseAction
  <2>2. PICK bs : Entry([action |-> a, boxes |-> Emptied(entry.boxes, bs)]) BY <2>1
  <2>3. PICK boxes \in Boxes : boxes = Emptied(entry.boxes, bs) /\ \A b \in Blanks : boxes[b] # "spent"
    <3>1. PICK boxes : boxes = Emptied(entry.boxes, bs) OBVIOUS
    <3>2. entry.boxes \in Boxes BY <1>1
    <3>3. boxes \in Boxes /\ \A b \in Blanks : boxes[b] # "spent"
          BY <1>1, <3>1, <3>2 DEF Emptied, AsOpened
    <3>4. QED BY <3>1, <3>3
  <2>4. PICK e \in [action: Actions, boxes: Boxes] : e = [action |-> a, boxes |-> boxes]
        OBVIOUS
  <2>5. e.boxes = boxes BY <2>4
  <2>6. Entry(e) BY <2>2, <2>3, <2>4
  <2>7. QED BY <1>2, <2>3, <2>5, <2>6
<1>4. CASE FillIn \/ ScanCode \/ DropCode
  <2>1. PICK b \in Blanks, x \in {"fresh", "none"} : Entry([entry EXCEPT !.boxes[b] = x])
    <3>1. Offered \subseteq Blanks
      <4>1. CASE entry.action = "points" BY <4>1 DEF Offered, Blanks
      <4>2. CASE entry.action = "stamp" BY <4>2 DEF Offered, Blanks
      <4>3. CASE entry.action = "redeem" BY <4>3 DEF Offered, Blanks
      <4>4. QED BY <1>1, <4>1, <4>2, <4>3
    <3>2. CASE FillIn BY <3>1, <3>2 DEF FillIn
    <3>3. CASE ScanCode \/ DropCode BY <3>3 DEF ScanCode, DropCode, Blanks
    <3>4. QED BY <1>4, <3>2, <3>3
  <2>2. PICK boxes \in Boxes : boxes = [entry.boxes EXCEPT ![b] = x] /\ \A y \in Blanks : boxes[y] # "spent"
    <3>1. PICK boxes : boxes = [entry.boxes EXCEPT ![b] = x] OBVIOUS
    <3>2. entry.boxes \in Boxes BY <1>1
    <3>3. boxes \in Boxes /\ \A y \in Blanks : boxes[y] # "spent"
          BY <1>1, <3>1, <3>2 DEF AsOpened
    <3>4. QED BY <3>1, <3>3
  <2>3. [entry EXCEPT !.boxes[b] = x] = [entry EXCEPT !.boxes = boxes] BY <2>2
  <2>4. PICK e \in [action: Actions, boxes: Boxes] : e = [entry EXCEPT !.boxes = boxes] /\ e.boxes = boxes
    <3>1. PICK e : e = [entry EXCEPT !.boxes = boxes] OBVIOUS
    <3>2. e \in [action: Actions, boxes: Boxes] /\ e.boxes = boxes BY <1>1, <3>1
    <3>3. QED BY <3>1, <3>2
  <2>5. Entry(e) BY <2>1, <2>3, <2>4
  <2>6. QED BY <1>2, <2>2, <2>4, <2>5
<1>5. CASE PickLogo \/ LogoFails
  <2>1. /\ UNCHANGED <<page, server, cache, fetch, calls, dialog, entry, meant, trouble>>
        /\ compressing' \in BOOLEAN /\ (page = "settings" \/ compressing' = FALSE)
        BY <1>5 DEF PickLogo, LogoFails
  <2>2. TypeOK' BY <1>1, <2>1 DEF TypeOK
  <2>3. AsOpened'
    <3>1. compressing' => page' = "settings"
      <4>1. CASE compressing' = FALSE BY <4>1
      <4>2. CASE page = "settings" BY <2>1, <4>2
      <4>3. QED BY <2>1, <4>1, <4>2
    <3>2. QED BY <1>1, <2>1, <3>1 DEF AsOpened, OnScreen
  <2>4. QED BY <2>1, <2>2, <2>3, RowsStand
<1>6. QED BY <1>3, <1>4, <1>5

-----------------------------------------------------------------------------
(* The server's work and its answers *)

\* A request stays on its page, whatever becomes of the answer to another.
LEMMA OthersFit ==
    ASSUME CallsFit, NEW s \in Slots, NEW c \in Call, UNCHANGED page,
           calls' = [calls EXCEPT ![s] = c],
           c.at \in {"sent", "done", "refused", "stuck"} =>
               /\ UnderWay(s) /\ c.hook = calls[s].hook /\ c.row = calls[s].row
               /\ c.last = calls[s].last /\ c.meant = calls[s].meant /\ c.spent = calls[s].spent
    PROVE  CallsFit' /\ calls'[s] = c /\ \A t \in Slots \ {s} : calls'[t] = calls[t]
<1>1. calls \in [Slots -> Call] BY DEF CallsFit
<1>2. calls' \in [Slots -> Call] /\ calls'[s] = c /\ \A t \in Slots \ {s} : calls'[t] = calls[t]
      BY <1>1
<1>3. ASSUME NEW t \in Slots, calls'[t].at \in {"sent", "done", "refused", "stuck"}
      PROVE  Fits(calls'[t])
  <2>1. CASE t = s
    <3>1. Fits(calls[s]) BY <1>2, <1>3, <2>1 DEF CallsFit
    <3>2. Fits(c) BY <1>2, <1>3, <2>1, <3>1 DEF Fits
    <3>3. QED BY <1>2, <2>1, <3>2
  <2>2. CASE t # s BY <1>2, <1>3, <2>2 DEF CallsFit, UnderWay
  <2>3. QED BY <2>1, <2>2
<1>4. \A t \in Slots : UnderWay(t)' => Fits(calls[t])'
  <2> SUFFICES ASSUME NEW t \in Slots, UnderWay(t)' PROVE Fits(calls[t])' OBVIOUS
  <2>1. Fits(calls'[t]) BY <1>3 DEF UnderWay
  <2>2. QED BY <2>1 DEF Fits
<1>5. QED BY <1>2, <1>4 DEF CallsFit

\* The server changes one row, of the key that the answer will have read again.
LEMMA Applied ==
    ASSUME TypeOK, NEW c \in Call, Fits(c), Apply(c)
    PROVE  /\ server' \in Tables
           /\ \A r \in Rows : Key(r) # CallKey(c) => server'[r] = server[r]
           /\ c.hook = "toggle" => server' = [server EXCEPT ![c.row] = c.val] /\ c.row \in Rows
<1>1. server \in [Rows -> Contents] BY DEF TypeOK, Tables
<1>2. CASE c.hook \in {"createReward", "scan"}
  <2>1. PICK e \in Entries, v \in Vals : server' = [server EXCEPT ![e] = v]
        BY <1>2 DEF Apply
  <2>2. CallKey(c) = "list"
    <3>1. c.row = Nothing BY <1>2 DEF Fits
    <3>2. QED BY <3>1, DeskAssumption DEF CallKey, Rows
  <2>3. e \in Rows /\ Key(e) = "list" BY KeysOfRows DEF Rows
  <2>4. QED BY <1>1, <1>2, <2>1, <2>2, <2>3 DEF Tables, Contents
<1>3. CASE c.hook \notin {"createReward", "scan"}
  <2>1. server' = [server EXCEPT ![c.row] = c.val] BY <1>3 DEF Apply
  <2>2. c.row \in Rows
    <3>1. c.hook \in Hooks BY DEF Call
    <3>2. CASE c.hook \in {"updateSettings", "updateReward", "deleteReward"} BY <3>2 DEF Fits, Rows
    <3>3. CASE c.hook \in {"updateStaff", "adjust", "toggle"} BY <3>3 DEF Fits, Rows, Fields
    <3>4. QED BY <1>3, <3>1, <3>2, <3>3 DEF Hooks
  <2>3. c.val \in Contents BY DEF Call
  <2>4. server' \in Tables BY <1>1, <2>1, <2>3 DEF Tables
  <2>5. \A r \in Rows : Key(r) # CallKey(c) => server'[r] = server[r]
        BY <1>1, <2>1, <2>2 DEF CallKey
  <2>6. QED BY <2>1, <2>2, <2>4, <2>5
<1>4. QED BY <1>2, <1>3

LEMMA ServeKeeps ==
    ASSUME DeskInv, NEW s \in Slots, Serve(s)
    PROVE  DeskInv'
<1>1. TypeOK /\ CallsFit /\ AsOpened /\ InTurn /\ calls \in [Slots -> Call] BY DEF DeskInv, CallsFit
<1>2. /\ calls[s].at = "sent" /\ Apply(calls[s]) /\ calls' = [calls EXCEPT ![s].at = "done"]
      /\ UNCHANGED <<page, cache, fetch, form, trouble>>
      BY DEF Serve
<1>3. PICK c \in Call : c = calls[s] /\ Fits(c) /\ c.at = "sent"
      BY <1>1, <1>2 DEF CallsFit, UnderWay
<1>4. PICK d \in Call : /\ d = [c EXCEPT !.at = "done"] /\ d.at = "done" /\ d.hook = c.hook /\ d.row = c.row
                        /\ d.val = c.val /\ d.last = c.last /\ d.meant = c.meant /\ d.spent = c.spent
  <2>1. PICK d : d = [c EXCEPT !.at = "done"] OBVIOUS
  <2>2. /\ d \in Call /\ d.at = "done" /\ d.hook = c.hook /\ d.row = c.row
        /\ d.val = c.val /\ d.last = c.last /\ d.meant = c.meant /\ d.spent = c.spent
        BY <2>1 DEF Call
  <2>3. QED BY <2>1, <2>2
<1>5. calls' = [calls EXCEPT ![s] = d] BY <1>2, <1>3, <1>4
<1>6. CallsFit' /\ calls'[s] = d /\ \A t \in Slots \ {s} : calls'[t] = calls[t]
  <2>1. UnderWay(s) BY <1>2 DEF UnderWay
  <2>2. /\ d.hook = calls[s].hook /\ d.row = calls[s].row /\ d.last = calls[s].last
        /\ d.meant = calls[s].meant /\ d.spent = calls[s].spent /\ page' = page
        BY <1>2, <1>3, <1>4
  <2>3. QED BY <1>1, <1>5, <2>1, <2>2, OthersFit
<1>7. /\ server' \in Tables
      /\ \A r \in Rows : Key(r) # CallKey(c) => server'[r] = server[r]
      /\ c.hook = "toggle" => server' = [server EXCEPT ![c.row] = c.val] /\ c.row \in Rows
  <2>1. Apply(c) BY <1>2, <1>3
  <2>2. QED BY <1>1, <1>3, <2>1, Applied
<1>8. CallKey(d) = CallKey(c) BY <1>4 DEF CallKey
<1>9. TypeOK' BY <1>1, <1>2, <1>6, <1>7 DEF TypeOK, form, CallsFit
<1>10. AsOpened' BY <1>1, <1>2 DEF AsOpened, OnScreen, form
<1>11. Reloaded'
  <2> SUFFICES ASSUME page # "transactions", ~Toggling, NEW k \in Keys \ trouble
               PROVE  \/ Unsettled(k)' \/ fetch[k].at = "asked"
                      \/ fetch[k].at = "read" /\ Agree(fetch[k].rows, k)'
                      \/ fetch[k].at = "idle" /\ Agree(cache, k)'
      BY <1>2 DEF Reloaded, Toggling
  <2>1. CASE CallKey(c) = k
    <3>1. Disturbs(d) BY <1>4 DEF Disturbs
    <3>2. QED BY <1>6, <1>8, <2>1, <3>1 DEF Unsettled
  <2>2. CASE CallKey(c) # k
    <3>1. \A r \in At(k) : server'[r] = server[r] BY <1>7, <2>2 DEF At
    <3>2. Unsettled(k) => Unsettled(k)' BY <1>3, <1>6, <2>2 DEF Unsettled
    <3>3. QED BY <1>2, <3>1, <3>2 DEF DeskInv, Reloaded, Agree, At, Key
  <2>3. QED BY <2>1, <2>2
<1>12. InTurn'
  <2> SUFFICES ASSUME Toggling PROVE InTurn' BY <1>2 DEF InTurn, Toggling
  <2>1. c.hook = "toggle"
    <3>1. c.hook \in Hooks BY DEF Call
    <3>2. QED BY <1>3, <3>1 DEF Fits, Toggling, Hooks
  <2>2. \A t \in Slots : UnderWay(t)' => cache[calls'[t].row] \in Vals
        BY <1>1, <1>2, <1>3, <1>4, <1>6 DEF InTurn, UnderWay
  <2>3. ASSUME NEW r \in Rows, Key(r) \notin trouble PROVE Turned(r)'
    <3>1. Turned(r) BY <1>1, <2>3 DEF InTurn
    <3>2. Turning(r)' = Turning(r) BY <1>2, <1>3, <1>4, <1>6 DEF Turning
    <3>3. \A t \in Turning(r) : calls'[t].val = calls[t].val BY <1>3, <1>4, <1>6 DEF Turning
    <3>4. CASE r = c.row
      <4>1. s \in Turning(r) BY <1>2, <1>3, <3>4 DEF Turning
      <4>2. c.val = Toggled(cache[r]) BY <1>3, <3>1, <4>1 DEF Turned
      <4>3. server'[r] = c.val BY <1>1, <1>7, <2>1, <3>4 DEF TypeOK, Tables
      <4>4. \E t \in Turning(r) : calls'[t].at = "done" BY <1>4, <1>6, <4>1
      <4>5. QED BY <1>2, <3>1, <3>2, <3>3, <4>2, <4>3, <4>4 DEF Turned
    <3>5. CASE r # c.row
      <4>1. server'[r] = server[r] BY <1>1, <1>7, <2>1, <3>5 DEF TypeOK, Tables
      <4>2. s \notin Turning(r) BY <1>3, <3>5 DEF Turning
      <4>3. \A t \in Turning(r) : calls'[t] = calls[t] BY <1>6, <4>2 DEF Turning
      <4>4. QED BY <1>2, <3>1, <3>2, <3>3, <4>1, <4>3 DEF Turned
    <3>6. QED BY <3>4, <3>5
  <2>4. QED BY <1>1, <1>2, <2>2, <2>3 DEF InTurn, Toggling, Key
<1>13. QED BY <1>6, <1>9, <1>10, <1>11, <1>12 DEF DeskInv

LEMMA RefuseKeeps ==
    ASSUME DeskInv, NEW s \in Slots, Refuse(s)
    PROVE  DeskInv'
<1>1. TypeOK /\ CallsFit /\ AsOpened /\ InTurn /\ calls \in [Slots -> Call] BY DEF DeskInv, CallsFit
<1>2. /\ calls[s].at = "sent" /\ calls' = [calls EXCEPT ![s].at = "refused"]
      /\ UNCHANGED <<page, server, cache, fetch, form, trouble>>
      BY DEF Refuse
<1>3. PICK c \in Call : c = calls[s] /\ c.at = "sent" BY <1>1, <1>2
<1>4. PICK d \in Call : /\ d = [c EXCEPT !.at = "refused"] /\ d.at = "refused" /\ d.hook = c.hook
                        /\ d.row = c.row /\ d.last = c.last /\ d.meant = c.meant /\ d.spent = c.spent
  <2>1. PICK d : d = [c EXCEPT !.at = "refused"] OBVIOUS
  <2>2. /\ d \in Call /\ d.at = "refused" /\ d.hook = c.hook /\ d.row = c.row
        /\ d.last = c.last /\ d.meant = c.meant /\ d.spent = c.spent
        BY <2>1 DEF Call
  <2>3. QED BY <2>1, <2>2
<1>5. calls' = [calls EXCEPT ![s] = d] BY <1>2, <1>3, <1>4
<1>6. CallsFit' /\ calls'[s] = d /\ \A t \in Slots \ {s} : calls'[t] = calls[t]
  <2>1. UnderWay(s) BY <1>2 DEF UnderWay
  <2>2. /\ d.hook = calls[s].hook /\ d.row = calls[s].row /\ d.last = calls[s].last
        /\ d.meant = calls[s].meant /\ d.spent = calls[s].spent /\ page' = page
        BY <1>2, <1>3, <1>4
  <2>3. QED BY <1>1, <1>5, <2>1, <2>2, OthersFit
<1>7. TypeOK' BY <1>1, <1>2, <1>6 DEF TypeOK, form, CallsFit
<1>8. AsOpened' BY <1>1, <1>2 DEF AsOpened, OnScreen, form
<1>9. Reloaded'
  <2>1. \A k \in Keys : Unsettled(k) => Unsettled(k)'
    <3> SUFFICES ASSUME NEW k \in Keys, NEW t \in Slots, Disturbs(calls[t]), CallKey(calls[t]) = k
                 PROVE  Disturbs(calls'[t]) /\ CallKey(calls'[t]) = k
        BY DEF Unsettled
    <3>1. CASE t = s BY <1>3, <1>4, <1>6, <3>1 DEF Disturbs, CallKey
    <3>2. CASE t # s BY <1>6, <3>2
    <3>3. QED BY <3>1, <3>2
  <2>2. QED BY <1>2, <2>1 DEF DeskInv, Reloaded, Toggling, Agree, At, Key
<1>10. InTurn'
  <2> SUFFICES ASSUME Toggling PROVE InTurn' BY <1>2 DEF InTurn, Toggling
  <2>1. \A t \in Slots : UnderWay(t)' => cache[calls'[t].row] \in Vals
        BY <1>1, <1>2, <1>3, <1>4, <1>6 DEF InTurn, UnderWay
  <2>2. ASSUME NEW r \in Rows, Key(r) \notin trouble PROVE Turned(r)'
    <3>1. Turned(r) BY <1>1, <2>2 DEF InTurn
    <3>2. Turning(r)' = Turning(r) \ {s} BY <1>4, <1>6 DEF Turning
    <3>3. \A t \in Turning(r) \ {s} : calls'[t] = calls[t] BY <1>6 DEF Turning
    <3>4. (\E t \in Turning(r) : calls[t].at = "done")
              <=> \E t \in Turning(r) \ {s} : calls[t].at = "done"
          BY <1>2
    <3>5. QED BY <1>2, <3>1, <3>2, <3>3, <3>4 DEF Turned
  <2>3. QED BY <1>1, <1>2, <2>1, <2>2 DEF InTurn, Toggling, Key
<1>11. QED BY <1>6, <1>7, <1>8, <1>9, <1>10 DEF DeskInv

\* What the page's own handlers leave of the dialog and of the form.
LEMMA Handled ==
    ASSUME DeskInv, NEW c \in Call, Fits(c), dialog' = PageSucceeds(c), UNCHANGED <<page, meant, compressing>>,
           entry' = IF c.hook = "scan" THEN ScanSucceeds ELSE entry
    PROVE  /\ AsOpened' /\ dialog' \in Dialogs
           /\ entry' \in [action: {"points", "stamp", "redeem"},
                          boxes: [Blanks -> {"none", "fresh", "given", "spent"}]]
<1>1. TypeOK /\ AsOpened /\ dialog \in Dialogs BY DEF DeskInv, TypeOK, Dialogs
<1>2. \/ dialog' = dialog
      \/ dialog' = Shut(dialog) /\ page = "rewards"
      \/ dialog' = Forget(dialog) /\ page \in {"rewards", "staff"}
      \/ dialog' = RewardDeleted(dialog) /\ page = "rewards"
  <2>1. CASE ~c.last
    <3>1. PageSucceeds(c) = dialog BY <2>1 DEF PageSucceeds
    <3>2. QED BY <3>1
  <2>2. CASE c.last /\ c.hook = "createReward" BY <2>2 DEF PageSucceeds, RewardCreated, Fits
  <2>3. CASE c.last /\ c.hook = "updateReward" BY <2>3 DEF PageSucceeds, RewardUpdated, Fits
  <2>4. CASE c.last /\ c.hook = "deleteReward" BY <2>4 DEF PageSucceeds, Fits
  <2>5. CASE c.last /\ c.hook = "updateStaff" BY <2>5 DEF PageSucceeds, StaffUpdated, Fits
  <2>6. CASE c.last /\ c.hook \in {"updateSettings", "adjust", "scan", "toggle"} BY <2>6 DEF PageSucceeds
  <2>7. c.hook \in Hooks /\ c.last \in BOOLEAN BY DEF Call
  <2>8. QED BY <2>1, <2>2, <2>3, <2>4, <2>5, <2>6, <2>7 DEF Hooks
<1>3. PICK d : d = dialog' OBVIOUS
<1>4. /\ d \in Dialogs /\ (d.shown = "no" <=> dialog.shown = "no")
      /\ d.doomed = dialog.doomed \/ d.doomed = Nothing
      /\ d.shown = "open" => d.shown = dialog.shown /\ d.editing = dialog.editing
      /\ d.editing # dialog.editing => d.editing = Nothing /\ page \in {"rewards", "staff"}
  <2>1. CASE d = dialog BY <1>1, <2>1 DEF Dialogs
  <2>2. CASE d = Shut(dialog)
    <3>1. PICK x \in Dialogs : /\ x = Shut(dialog) /\ x.editing = dialog.editing /\ x.doomed = dialog.doomed
                              /\ (x.shown = IF dialog.shown = "open" THEN "fading" ELSE dialog.shown)
          BY <1>1, Closing
    <3>2. QED BY <2>2, <3>1
  <2>3. CASE d = Forget(dialog) /\ page \in {"rewards", "staff"}
    <3>1. PICK x \in Dialogs : /\ x = Shut(dialog)
                              /\ (x.shown = IF dialog.shown = "open" THEN "fading" ELSE dialog.shown)
          BY <1>1, Closing
    <3>2. d \in Dialogs /\ d.editing = Nothing /\ d.doomed = dialog.doomed /\ d.shown = x.shown
          BY <1>1, <2>3, <3>1, Closing
    <3>3. QED BY <2>3, <3>1, <3>2
  <2>4. CASE d = RewardDeleted(dialog)
    <3>1. d = [dialog EXCEPT !.doomed = Nothing] BY <2>4 DEF RewardDeleted
    <3>2. /\ d \in Dialogs /\ d.shown = dialog.shown /\ d.editing = dialog.editing
          /\ d.doomed = Nothing
          BY <1>1, <3>1 DEF Dialogs
    <3>3. QED BY <3>2
  <2>5. QED BY <1>2, <1>3, <2>1, <2>2, <2>3, <2>4
<1>5. /\ entry' \in [action: {"points", "stamp", "redeem"},
                     boxes: [Blanks -> {"none", "fresh", "given", "spent"}]]
      /\ \A b \in Blanks : entry'.boxes[b] # "spent"
  <2>1. CASE c.hook = "scan"
    <3>1. PICK boxes : boxes = Emptied(Spent(entry.boxes), Blanks) OBVIOUS
    <3>2. boxes \in [Blanks -> {"none", "fresh", "given", "spent"}] /\ \A b \in Blanks : boxes[b] # "spent"
          BY <3>1 DEF Emptied
    <3>3. entry' = [entry EXCEPT !.boxes = boxes] BY <2>1, <3>1 DEF ScanSucceeds
    <3>4. QED BY <1>1, <3>2, <3>3 DEF TypeOK
  <2>2. CASE c.hook # "scan" BY <1>1, <2>2 DEF TypeOK, AsOpened
  <2>3. QED BY <2>1, <2>2
<1>6. AsOpened'
  <2>1. d.shown = "no" \/ d.doomed = Nothing BY <1>1, <1>4 DEF AsOpened
  <2>2. d.doomed # Nothing => page = "rewards" /\ meant = AsMeant("deleteReward", d.doomed)
        BY <1>1, <1>4 DEF AsOpened
  <2>3. page = "rewards" /\ d.shown = "open" =>
            meant = AsMeant(IF d.editing = Nothing THEN "createReward" ELSE "updateReward", d.editing)
    <3> SUFFICES ASSUME page = "rewards", d.shown = "open"
                 PROVE  meant = AsMeant(IF d.editing = Nothing THEN "createReward" ELSE "updateReward",
                                        d.editing)
        OBVIOUS
    <3>1. dialog.shown = "open" /\ d.editing = dialog.editing BY <1>4
    <3>2. meant = AsMeant(IF dialog.editing = Nothing THEN "createReward" ELSE "updateReward", dialog.editing)
          BY <1>1, <3>1 DEF AsOpened
    <3>3. QED BY <3>1, <3>2
  <2>4. page = "staff" /\ d.shown \in {"open", "fading"} /\ d.editing # Nothing =>
            meant = AsMeant("updateStaff", d.editing)
    <3> SUFFICES ASSUME page = "staff", d.shown \in {"open", "fading"}, d.editing # Nothing
                 PROVE  meant = AsMeant("updateStaff", d.editing)
        OBVIOUS
    <3>1. d.editing = dialog.editing /\ OnScreen BY <1>1, <1>4 DEF OnScreen, Dialogs
    <3>2. QED BY <1>1, <3>1 DEF AsOpened
  <2>5. page \in {"customers", "transactions"} /\ d.shown \in {"open", "fading"} =>
            d.editing \in Entries /\ meant = AsMeant("adjust", d.editing)
    <3> SUFFICES ASSUME page \in {"customers", "transactions"}, d.shown \in {"open", "fading"}
                 PROVE  d.editing \in Entries /\ meant = AsMeant("adjust", d.editing)
        OBVIOUS
    <3>1. d.editing = dialog.editing /\ OnScreen BY <1>1, <1>4 DEF OnScreen, Dialogs
    <3>2. QED BY <1>1, <3>1 DEF AsOpened
  <2>6. compressing => page = "settings" BY <1>1 DEF AsOpened
  <2>7. QED BY <1>3, <1>5, <2>1, <2>2, <2>3, <2>4, <2>5, <2>6 DEF AsOpened, OnScreen
<1>7. QED BY <1>3, <1>4, <1>5, <1>6

\* An answer is taken: the key of its row is read again, or the row turned over.
LEMMA SucceedKeeps ==
    ASSUME DeskInv, NEW s \in Slots, Succeed(s)
    PROVE  DeskInv'
<1>1. TypeOK /\ CallsFit /\ AsOpened /\ InTurn /\ calls \in [Slots -> Call] BY DEF DeskInv, CallsFit
<1>2. PICK c \in Call : c = calls[s] /\ Fits(c) /\ c.at = "done"
      BY <1>1 DEF CallsFit, UnderWay, Succeed
<1>3. /\ cache' = IF c.hook = "toggle" THEN [cache EXCEPT ![c.row] = Toggled(@)] ELSE cache
      /\ fetch' = Invalidate(c) /\ dialog' = PageSucceeds(c)
      /\ entry' = IF c.hook = "scan" THEN ScanSucceeds ELSE entry
      /\ calls' = [calls EXCEPT ![s] = Over]
      /\ UNCHANGED <<page, server, compressing, meant, trouble>>
      BY <1>2 DEF Succeed
<1>4. CallsFit' /\ calls'[s].at = "over" /\ \A t \in Slots \ {s} : calls'[t] = calls[t]
  <2>1. Over \in Call /\ Over.at = "over" BY FreshIsCall
  <2>2. PICK o \in Call : o = Over /\ o.at = "over" BY <2>1
  <2>3. calls' = [calls EXCEPT ![s] = o] /\ page' = page BY <1>3, <2>2
  <2>4. QED BY <1>1, <2>2, <2>3, OthersFit
<1>5. /\ AsOpened' /\ dialog' \in Dialogs
      /\ entry' \in [action: {"points", "stamp", "redeem"},
                     boxes: [Blanks -> {"none", "fresh", "given", "spent"}]]
      BY <1>2, <1>3, Handled
<1>6. c.hook = "toggle" <=> Toggling
  <2>1. c.hook \in Hooks BY DEF Call
  <2>2. QED BY <1>2, <2>1 DEF Fits, Toggling, Hooks
<1>7. c.hook = "toggle" => c.row \in Rows /\ cache[c.row] \in Vals
  <2>1. c.hook = "toggle" => c.row \in Rows BY <1>2 DEF Fits, Rows, Fields
  <2>2. UnderWay(s) BY <1>2 DEF UnderWay
  <2>3. QED BY <1>1, <1>2, <1>6, <2>1, <2>2 DEF InTurn
<1>8. CallKey(c) \in Keys BY KeysOfRows DEF CallKey, Keys
<1>9. Asked \in [at: {"idle", "asked", "read"}, rows: Tables] /\ Asked.at = "asked"
      BY DEF Asked, NoRows, Tables, Contents
<1>10. cache \in [Rows -> Contents] /\ fetch \in [Keys -> [at: {"idle", "asked", "read"}, rows: Tables]]
       BY <1>1 DEF TypeOK, Tables
<1>11. cache' \in Tables
  <2>1. CASE c.hook = "toggle"
    <3>1. Toggled(cache[c.row]) \in Contents BY <1>7, <2>1, OtherVal DEF Contents
    <3>2. QED BY <1>3, <1>10, <2>1, <3>1 DEF Tables
  <2>2. CASE c.hook # "toggle" BY <1>3, <1>10, <2>2 DEF Tables
  <2>3. QED BY <2>1, <2>2
<1>12. fetch' \in [Keys -> [at: {"idle", "asked", "read"}, rows: Tables]]
       BY <1>3, <1>8, <1>9, <1>10 DEF Invalidate
<1>13. TypeOK' BY <1>1, <1>3, <1>4, <1>5, <1>11, <1>12 DEF TypeOK, CallsFit, Dialogs
<1>14. Reloaded'
  <2> SUFFICES ASSUME page # "transactions", ~Toggling, NEW k \in Keys \ trouble
               PROVE  \/ Unsettled(k)' \/ fetch'[k].at = "asked"
                      \/ fetch'[k].at = "read" /\ Agree(fetch[k].rows, k)'
                      \/ fetch'[k].at = "idle" /\ Agree(cache, k)'
      BY <1>3 DEF Reloaded, Toggling
  <2>1. cache' = cache /\ fetch' = [fetch EXCEPT ![CallKey(c)] = Asked] BY <1>3, <1>6 DEF Invalidate
  <2>2. CASE CallKey(c) = k BY <1>8, <1>9, <1>10, <2>1, <2>2
  <2>3. CASE CallKey(c) # k
    <3>1. fetch'[k] = fetch[k] BY <1>10, <2>1, <2>3
    <3>2. Unsettled(k) => Unsettled(k)' BY <1>2, <1>4, <2>3 DEF Unsettled
    <3>3. QED BY <1>3, <2>1, <3>1, <3>2 DEF DeskInv, Reloaded, Agree, At, Key
  <2>4. QED BY <2>2, <2>3
<1>15. InTurn'
  <2> SUFFICES ASSUME Toggling PROVE InTurn' BY <1>3 DEF InTurn, Toggling
  <2>1. PICK row \in Rows, v \in Vals, w \in Vals :
            row = c.row /\ v = cache[row] /\ w = Toggled(v)
        BY <1>6, <1>7, OtherVal
  <2>2. cache' = [cache EXCEPT ![row] = w] /\ fetch' = fetch
        BY <1>3, <1>6, <2>1 DEF Invalidate
  <2>3. cache'[row] = w /\ \A r \in Rows \ {row} : cache'[r] = cache[r] BY <1>10, <2>2
  <2>4. \A t \in Slots : UnderWay(t)' => cache'[calls'[t].row] \in Vals
    <3> SUFFICES ASSUME NEW t \in Slots, UnderWay(t)' PROVE cache'[calls'[t].row] \in Vals OBVIOUS
    <3>1. t # s /\ calls'[t] = calls[t] /\ UnderWay(t) BY <1>4 DEF UnderWay
    <3>2. cache[calls[t].row] \in Vals BY <1>1, <3>1 DEF InTurn
    <3>3. Fits(calls[t]) /\ calls[t].hook \in Hooks BY <1>1, <3>1 DEF CallsFit, Call
    <3>4. calls[t].row \in Rows
      <4>1. calls[t].hook = "toggle" BY <3>3 DEF Fits, Toggling, Hooks
      <4>2. QED BY <3>3, <4>1 DEF Fits, Rows, Fields
    <3>5. QED BY <2>3, <3>1, <3>2, <3>4
  <2>5. page = "detail" => cache'["profile"] \in Vals
    <3>1. "profile" \in Rows BY DEF Rows, Fields
    <3>2. QED BY <1>1, <2>3, <3>1 DEF InTurn
  <2>6. ASSUME NEW r \in Rows, Key(r) \notin trouble PROVE Turned(r)'
    <3>1. Turned(r) BY <1>1, <2>6 DEF InTurn
    <3>2. CASE r = row
      <4>1. s \in Turning(r) BY <1>2, <2>1, <3>2 DEF Turning
      <4>2. Turning(r) = {s} BY <3>1, <4>1 DEF Turned
      <4>3. server[r] = w BY <1>2, <2>1, <3>1, <3>2, <4>1 DEF Turned
      <4>4. Turning(r)' = {} BY <1>4, <4>2 DEF Turning
      <4>5. QED BY <1>3, <2>3, <3>2, <4>3, <4>4 DEF Turned
    <3>3. CASE r # row
      <4>1. s \notin Turning(r) BY <1>2, <2>1, <3>3 DEF Turning
      <4>2. Turning(r)' = Turning(r) BY <1>4, <4>1 DEF Turning
      <4>3. \A t \in Turning(r) : calls'[t] = calls[t] BY <1>4, <4>1 DEF Turning
      <4>4. QED BY <1>3, <2>3, <3>1, <3>3, <4>2, <4>3 DEF Turned
    <3>4. QED BY <3>2, <3>3
  <2>7. QED BY <1>1, <1>3, <2>2, <2>4, <2>5, <2>6 DEF InTurn, Toggling, Key
<1>16. QED BY <1>4, <1>5, <1>13, <1>14, <1>15 DEF DeskInv

\* A refusal, or the loss of an answer: the rows of the key are read again, or
\* were as the server has them, or the loss is noted.
LEMMA FailKeeps ==
    ASSUME DeskInv, NEW s \in Slots, Fail(s)
    PROVE  DeskInv'
<1>1. TypeOK /\ CallsFit /\ AsOpened /\ InTurn /\ calls \in [Slots -> Call] BY DEF DeskInv, CallsFit
<1>2. PICK c \in Call : c = calls[s] /\ Fits(c) /\ c.at \in {"done", "refused"}
      BY <1>1 DEF CallsFit, UnderWay, Fail
<1>3. PICK d \in Call : /\ d = (IF c.hook = "toggle" THEN [c EXCEPT !.at = "stuck"] ELSE Over)
                        /\ c.hook # "toggle" => d.at = "over"
                        /\ c.hook = "toggle" => d.at = "stuck"
                        /\ d.at = "stuck" => /\ d.hook = c.hook /\ d.row = c.row /\ d.last = c.last
                                             /\ d.meant = c.meant /\ d.spent = c.spent
  <2>1. CASE c.hook = "toggle"
    <3>1. PICK d : d = [c EXCEPT !.at = "stuck"] OBVIOUS
    <3>2. /\ d \in Call /\ d.at = "stuck" /\ d.hook = c.hook /\ d.row = c.row /\ d.last = c.last
          /\ d.meant = c.meant /\ d.spent = c.spent
          BY <3>1 DEF Call
    <3>3. QED BY <2>1, <3>1, <3>2
  <2>2. CASE c.hook # "toggle"
    <3>1. Over \in Call /\ Over.at = "over" BY FreshIsCall
    <3>2. QED BY <2>2, <3>1
  <2>3. QED BY <2>1, <2>2
<1>4. /\ cache' = RollBack(c) /\ fetch' = Settle(c) /\ calls' = [calls EXCEPT ![s] = d]
      /\ trouble' = trouble \cup IF c.at = "done" /\ c.hook \notin Optimistic THEN {CallKey(c)} ELSE {}
      /\ UNCHANGED <<page, server, form>>
  <2>1. Fail(s) OBVIOUS
  <2>2. QED BY <1>2, <1>3, <2>1 DEF Fail
<1>5. CallsFit' /\ calls'[s] = d /\ \A t \in Slots \ {s} : calls'[t] = calls[t]
  <2>1. UnderWay(s) BY <1>2 DEF UnderWay
  <2>2. page' = page BY <1>4
  <2>3. d.at \in {"sent", "done", "refused", "stuck"} =>
            /\ UnderWay(s) /\ d.hook = calls[s].hook /\ d.row = calls[s].row
            /\ d.last = calls[s].last /\ d.meant = calls[s].meant /\ d.spent = calls[s].spent
        BY <1>2, <1>3, <2>1
  <2>4. QED BY <1>1, <1>4, <2>2, <2>3, OthersFit
<1>6. c.hook = "toggle" <=> Toggling
  <2>1. c.hook \in Hooks BY DEF Call
  <2>2. QED BY <1>2, <2>1 DEF Fits, Toggling, Hooks
<1>7. CallKey(c) \in Keys BY KeysOfRows DEF CallKey, Keys
<1>8. Asked \in [at: {"idle", "asked", "read"}, rows: Tables] /\ Asked.at = "asked"
      BY DEF Asked, NoRows, Tables, Contents
<1>9. /\ cache \in [Rows -> Contents] /\ fetch \in [Keys -> [at: {"idle", "asked", "read"}, rows: Tables]]
      /\ c.undo \in [Rows -> Contents] /\ trouble \subseteq Keys
      BY <1>1 DEF TypeOK, Tables, Call
<1>10. CASE c.hook \in Optimistic
  <2>1. c.hook # "toggle" /\ ~Toggling BY <1>6, <1>10 DEF Optimistic
  <2>2. page # "transactions" BY <1>2, <1>10 DEF Fits, Optimistic
  <2>3. /\ cache' = [r \in Rows |-> IF Key(r) = CallKey(c) THEN c.undo[r] ELSE cache[r]]
        /\ fetch' = [fetch EXCEPT ![CallKey(c)] = Asked]
        /\ trouble' = trouble
        BY <1>4, <1>10, <2>1, <2>2 DEF RollBack, Settle, Invalidate
  <2>4. cache' \in Tables BY <1>9, <2>3 DEF Tables
  <2>5. fetch' \in [Keys -> [at: {"idle", "asked", "read"}, rows: Tables]]
        BY <1>7, <1>8, <1>9, <2>3
  <2>6. TypeOK' BY <1>1, <1>4, <1>5, <2>3, <2>4, <2>5 DEF TypeOK, CallsFit, form
  <2>7. AsOpened' BY <1>1, <1>4 DEF AsOpened, OnScreen, form
  <2>8. Reloaded'
    <3> SUFFICES ASSUME NEW k \in Keys \ trouble
                 PROVE  \/ Unsettled(k)' \/ fetch'[k].at = "asked"
                        \/ fetch'[k].at = "read" /\ Agree(fetch[k].rows, k)'
                        \/ fetch'[k].at = "idle" /\ Agree(cache, k)'
        BY <1>4, <2>3 DEF Reloaded
    <3>1. CASE CallKey(c) = k BY <1>7, <1>8, <1>9, <2>3, <3>1
    <3>2. CASE CallKey(c) # k
      <4>1. fetch'[k] = fetch[k] BY <1>9, <2>3, <3>2
      <4>2. Unsettled(k) => Unsettled(k)' BY <1>2, <1>5, <3>2 DEF Unsettled
      <4>3. \A r \in At(k) : cache'[r] = cache[r] BY <2>3, <3>2 DEF At
      <4>4. QED BY <1>4, <2>1, <2>2, <4>1, <4>2, <4>3 DEF DeskInv, Reloaded, Agree, At, Key
    <3>3. QED BY <3>1, <3>2
  <2>9. InTurn' BY <1>4, <2>1 DEF InTurn, Toggling
  <2>10. QED BY <1>5, <2>6, <2>7, <2>8, <2>9 DEF DeskInv
<1>11. CASE c.hook \notin Optimistic
  <2>1. /\ cache' = cache /\ fetch' = fetch /\ trouble \subseteq trouble' /\ trouble' \subseteq Keys
        /\ c.at = "done" => CallKey(c) \in trouble'
        BY <1>4, <1>7, <1>9, <1>11 DEF RollBack, Settle
  <2>2. TypeOK' BY <1>1, <1>4, <1>5, <2>1 DEF TypeOK, CallsFit, form
  <2>3. AsOpened' BY <1>1, <1>4 DEF AsOpened, OnScreen, form
  <2>4. Reloaded'
    <3> SUFFICES ASSUME page # "transactions", ~Toggling, NEW k \in Keys \ trouble'
                 PROVE  \/ Unsettled(k)' \/ fetch[k].at = "asked"
                        \/ fetch[k].at = "read" /\ Agree(fetch[k].rows, k)
                        \/ fetch[k].at = "idle" /\ Agree(cache, k)
        BY <1>4, <2>1 DEF Reloaded, Toggling, Agree, At, Key
    <3>1. Unsettled(k) => Unsettled(k)'
      <4> SUFFICES ASSUME NEW t \in Slots, Disturbs(calls[t]), CallKey(calls[t]) = k
                   PROVE  Unsettled(k)'
          BY DEF Unsettled
      <4>1. t # s
        <5> SUFFICES ASSUME t = s PROVE FALSE OBVIOUS
        <5>1. c.at = "done" BY <1>2, <1>11 DEF Disturbs
        <5>2. QED BY <1>2, <2>1, <5>1
      <4>2. QED BY <1>5, <4>1 DEF Unsettled
    <3>2. QED BY <2>1, <3>1 DEF DeskInv, Reloaded
  <2>5. InTurn'
    <3> SUFFICES ASSUME Toggling PROVE InTurn' BY <1>4 DEF InTurn, Toggling
    <3>1. \A t \in Slots : UnderWay(t)' => UnderWay(t) /\ calls'[t].row = calls[t].row
      <4> SUFFICES ASSUME NEW t \in Slots, UnderWay(t)'
                   PROVE  UnderWay(t) /\ calls'[t].row = calls[t].row
          OBVIOUS
      <4>1. CASE t = s BY <1>2, <1>3, <1>5, <1>6, <4>1 DEF UnderWay
      <4>2. CASE t # s BY <1>5, <4>2 DEF UnderWay
      <4>3. QED BY <4>1, <4>2
    <3>2. \A t \in Slots : UnderWay(t)' => cache'[calls'[t].row] \in Vals
          BY <1>1, <2>1, <3>1 DEF InTurn
    <3>3. ASSUME NEW r \in Rows, Key(r) \notin trouble' PROVE Turned(r)'
      <4>1. Turned(r) BY <1>1, <2>1, <3>3 DEF InTurn
      <4>2. s \notin Turning(r)
        <5> SUFFICES ASSUME s \in Turning(r) PROVE FALSE OBVIOUS
        <5>1. c.at = "done" /\ c.row = r BY <1>2 DEF Turning
        <5>2. CallKey(c) = Key(r) BY <5>1 DEF CallKey
        <5>3. QED BY <2>1, <3>3, <5>1, <5>2
      <4>3. Turning(r)' = Turning(r)
        <5>1. calls'[s].at \notin {"sent", "done"} BY <1>3, <1>5
        <5>2. \A t \in Slots : (calls'[t].at \in {"sent", "done"} /\ calls'[t].row = r)
                               <=> (calls[t].at \in {"sent", "done"} /\ calls[t].row = r)
              BY <1>5, <4>2, <5>1 DEF Turning
        <5>3. QED BY <5>2 DEF Turning
      <4>4. \A t \in Turning(r) : calls'[t] = calls[t] BY <1>5, <4>2 DEF Turning
      <4>5. QED BY <1>4, <2>1, <4>1, <4>3, <4>4 DEF Turned
    <3>4. QED BY <1>1, <1>4, <2>1, <3>2, <3>3 DEF InTurn, Toggling, Key
  <2>6. QED BY <1>5, <2>2, <2>3, <2>4, <2>5 DEF DeskInv
<1>12. QED BY <1>10, <1>11

\* Reloads: an answer in time agrees with the server, a failed one is noted.
LEMMA ReloadsKeep ==
    ASSUME DeskInv, ReadList \/ TakeList \/ FetchFails
    PROVE  DeskInv'
<1>1. TypeOK /\ CallsFit /\ AsOpened /\ InTurn BY DEF DeskInv
<1>2. /\ cache \in [Rows -> Contents] /\ fetch \in [Keys -> [at: {"idle", "asked", "read"}, rows: Tables]]
      /\ server \in Tables /\ trouble \subseteq Keys
      BY <1>1 DEF TypeOK, Tables
<1>3. PICK k \in Keys :
          /\ fetch[k].at # "idle" /\ UNCHANGED <<page, server, calls, form>>
          /\ \/ /\ fetch[k].at = "asked" /\ UNCHANGED <<cache, trouble>>
                /\ fetch' = [fetch EXCEPT ![k] = [at |-> "read", rows |-> server]]
             \/ /\ fetch[k].at = "read" /\ UNCHANGED trouble
                /\ cache' = [r \in Rows |-> IF Key(r) = k THEN fetch[k].rows[r] ELSE cache[r]]
                /\ fetch' = [fetch EXCEPT ![k] = NoFetch]
             \/ /\ trouble' = trouble \cup {k} /\ UNCHANGED cache
                /\ fetch' = [fetch EXCEPT ![k] = NoFetch]
  <2>1. ASSUME NEW k \in Keys, fetch[k].at = "asked"
        PROVE  fetch[k].at # "idle" BY <2>1
  <2>2. CASE ReadList BY <2>2 DEF ReadList
  <2>3. CASE TakeList BY <2>3 DEF TakeList
  <2>4. CASE FetchFails BY <2>4 DEF FetchFails
  <2>5. QED BY <2>2, <2>3, <2>4
<1>4. ~Toggling BY <1>1, <1>3 DEF InTurn
<1>5. PICK f \in [at: {"idle", "asked", "read"}, rows: Tables] : f = [at |-> "read", rows |-> server]
      BY <1>2
<1>6. f.at = "read" /\ f.rows = server BY <1>5
<1>7. PICK n \in [at: {"idle", "asked", "read"}, rows: Tables] : n = NoFetch /\ n.at = "idle"
  <2>1. NoRows \in Tables BY DEF NoRows, Tables, Contents
  <2>2. NoFetch \in [at: {"idle", "asked", "read"}, rows: Tables] /\ NoFetch.at = "idle"
        BY <2>1 DEF NoFetch
  <2>3. QED BY <2>2
<1>8. fetch' = [fetch EXCEPT ![k] = f] \/ fetch' = [fetch EXCEPT ![k] = n] BY <1>3, <1>5, <1>7
<1>9. fetch' \in [Keys -> [at: {"idle", "asked", "read"}, rows: Tables]] BY <1>2, <1>8
<1>10. fetch[k].rows \in [Rows -> Contents] BY <1>2 DEF Tables
<1>11. cache' \in Tables
  <2>1. CASE UNCHANGED cache BY <1>2, <2>1 DEF Tables
  <2>2. CASE cache' = [r \in Rows |-> IF Key(r) = k THEN fetch[k].rows[r] ELSE cache[r]]
        BY <1>2, <1>10, <2>2 DEF Tables
  <2>3. QED BY <1>3, <2>1, <2>2
<1>12. trouble' \subseteq Keys /\ trouble \subseteq trouble' BY <1>2, <1>3
<1>13. TypeOK' BY <1>1, <1>3, <1>9, <1>11, <1>12 DEF TypeOK, form
<1>14. AsOpened' BY <1>1, <1>3 DEF AsOpened, OnScreen, form
<1>15. CallsFit'
  <2>1. \A t \in Slots : UnderWay(t)' => Fits(calls[t])' BY <1>1, <1>3 DEF CallsFit, UnderWay, Fits
  <2>2. QED BY <1>1, <1>3, <2>1 DEF CallsFit
<1>16. InTurn' BY <1>3, <1>4 DEF InTurn, Toggling
<1>17. Reloaded'
  <2> SUFFICES ASSUME page # "transactions", NEW j \in Keys \ trouble'
               PROVE  \/ Unsettled(j) \/ fetch'[j].at = "asked"
                      \/ fetch'[j].at = "read" /\ Agree(fetch'[j].rows, j)
                      \/ fetch'[j].at = "idle" /\ Agree(cache', j)
      BY <1>3 DEF Reloaded, Unsettled, Disturbs, CallKey, Key, Agree, At
  <2>1. \/ Unsettled(j) \/ fetch[j].at = "asked"
        \/ fetch[j].at = "read" /\ Agree(fetch[j].rows, j)
        \/ fetch[j].at = "idle" /\ Agree(cache, j)
        BY <1>4, <1>12 DEF DeskInv, Reloaded
  <2>2. CASE j # k
    <3>1. fetch'[j] = fetch[j] BY <1>2, <1>8, <2>2
    <3>2. \A r \in At(j) : cache'[r] = cache[r] BY <1>3, <2>2 DEF At
    <3>3. QED BY <2>1, <3>1, <3>2 DEF Agree
  <2>3. CASE j = k
    <3>1. k \notin trouble' BY <2>3
    <3>2. CASE fetch[k].at = "asked" /\ fetch' = [fetch EXCEPT ![k] = [at |-> "read", rows |-> server]]
      <4>1. fetch'[k] = f BY <1>2, <1>5, <3>2
      <4>2. QED BY <1>6, <2>3, <4>1 DEF Agree
    <3>3. CASE /\ fetch[k].at = "read" /\ fetch' = [fetch EXCEPT ![k] = NoFetch]
               /\ cache' = [r \in Rows |-> IF Key(r) = k THEN fetch[k].rows[r] ELSE cache[r]]
      <4>1. fetch'[k].at = "idle" BY <1>2, <1>7, <3>3
      <4>2. \A r \in At(k) : cache'[r] = fetch[k].rows[r] BY <3>3 DEF At
      <4>3. QED BY <2>1, <2>3, <3>3, <4>1, <4>2 DEF Agree
    <3>4. QED BY <1>3, <3>1, <3>2, <3>3
  <2>4. QED BY <2>2, <2>3
<1>18. QED BY <1>13, <1>14, <1>15, <1>16, <1>17 DEF DeskInv

-----------------------------------------------------------------------------
(* The pages, for every behaviour *)

LEMMA DeskStarts == Init => DeskInv
<1> SUFFICES ASSUME Init PROVE DeskInv OBVIOUS
<1>1. PICK t \in Tables : /\ \A r \in Rows \ Entries : (t[r] # Nothing) = (r \in FieldsOf)
                          /\ server = t /\ cache = t
      BY DEF Init
<1>2. /\ page \in Pages /\ fetch = [k \in Keys |-> NoFetch] /\ calls = [s \in Slots |-> Unused]
      /\ dialog = NoDialog /\ compressing = FALSE /\ entry = NoEntry
      /\ meant = Nothing /\ trouble = {}
      BY DEF Init
<1>3. Unused \in Call /\ Unused.at = "unused" BY FreshIsCall
<1>4. NoFetch \in [at: {"idle", "asked", "read"}, rows: Tables] /\ NoFetch.at = "idle"
  <2>1. NoRows \in Tables BY DEF NoRows, Tables, Contents
  <2>2. QED BY <2>1 DEF NoFetch
<1>5. /\ NoDialog \in Dialogs /\ NoDialog.shown = "no" /\ NoDialog.editing = Nothing
      /\ NoDialog.doomed = Nothing
      BY DEF NoDialog, Dialogs
<1>6. /\ NoEntry \in [action: {"points", "stamp", "redeem"},
                      boxes: [Blanks -> {"none", "fresh", "given", "spent"}]]
      /\ \A b \in Blanks : NoEntry.boxes[b] = "none"
      BY DEF NoEntry
<1>7. TypeOK BY <1>1, <1>2, <1>3, <1>4, <1>5, <1>6 DEF TypeOK, Dialogs
<1>8. \A s \in Slots : calls[s].at = "unused" BY <1>2, <1>3
<1>9. CallsFit BY <1>2, <1>3, <1>8 DEF CallsFit, UnderWay
<1>10. \A k \in Keys : fetch[k].at = "idle" BY <1>2, <1>4
<1>11. Reloaded BY <1>1, <1>10 DEF Reloaded, Agree
<1>12. page = "detail" => cache["profile"] \in Vals
  <2> SUFFICES ASSUME page = "detail" PROVE cache["profile"] \in Vals OBVIOUS
  <2>1. FieldsOf = {"profile"} BY DEF FieldsOf
  <2>2. "profile" \in Rows \ Entries BY DeskAssumption DEF Rows, Fields
  <2>3. t["profile"] # Nothing BY <1>1, <2>1, <2>2
  <2>4. QED BY <1>1, <2>2, <2>3 DEF Tables, Contents
<1>13. \A r \in Rows : Turned(r) BY <1>1, <1>8 DEF Turned, Turning
<1>14. InTurn BY <1>8, <1>10, <1>12, <1>13 DEF InTurn, UnderWay
<1>15. AsOpened BY <1>2, <1>5, <1>6 DEF AsOpened, OnScreen
<1>16. QED BY <1>7, <1>9, <1>11, <1>14, <1>15 DEF DeskInv

LEMMA DeskSteps == DeskInv /\ [Next]_vars => DeskInv'
<1> SUFFICES ASSUME DeskInv, [Next]_vars PROVE DeskInv' OBVIOUS
<1>1. ASSUME NEW s \in Slots, Gesture(s) \/ Serve(s) \/ Refuse(s) \/ Succeed(s) \/ Fail(s)
      PROVE  DeskInv'
  <2>1. CASE Gesture(s)
    <3>1. CASE \/ OnSubmitProfile(s) \/ LogoReady(s) \/ HandleSaveRate(s)
               \/ OnSubmitReward(s) \/ ConfirmDeleteReward(s)
               \/ OnSubmitStaffEdit(s) \/ HandleAdjust(s) \/ HandleRowAdjust(s)
          BY <3>1, ButtonsKeep
    <3>2. CASE HandleScan(s) BY <3>2, ScanKeeps
    <3>3. CASE HandleToggle(s) \/ \E e \in Entries : HandleToggleStatus(s, e)
          BY <3>3, TogglesKeep
    <3>4. QED BY <2>1, <3>1, <3>2, <3>3 DEF Gesture
  <2>2. CASE Serve(s) BY <2>2, ServeKeeps
  <2>3. CASE Refuse(s) BY <2>3, RefuseKeeps
  <2>4. CASE Succeed(s) BY <2>4, SucceedKeeps
  <2>5. CASE Fail(s) BY <2>5, FailKeeps
  <2>6. QED BY <1>1, <2>1, <2>2, <2>3, <2>4, <2>5
<1>2. CASE \/ \E e \in Entries : HandleEdit(e) \/ HandleDelete(e) \/ OpenStaffEdit(e)
                                 \/ HandleRowClick(e) \/ OpenAdjust(e)
           \/ OpenCreate \/ CloseDialog \/ CancelDelete \/ CloseStaffEdit \/ CloseDetail \/ CloseAdjust
           \/ FadeOut
      BY <1>2, DialogsKeep
<1>3. CASE ChooseAction \/ FillIn \/ ScanCode \/ DropCode \/ PickLogo \/ LogoFails
      BY <1>3, FormsKeep
<1>4. CASE ReadList \/ TakeList \/ FetchFails BY <1>4, ReloadsKeep
<1>5. CASE UNCHANGED vars
  <2>1. TypeOK' BY <1>5 DEF vars, DeskInv, TypeOK
  <2>2. AsOpened' BY <1>5 DEF vars, DeskInv, AsOpened, OnScreen
  <2>3. QED BY <1>5, <2>1, <2>2, RowsStand DEF vars
<1>6. QED BY <1>1, <1>2, <1>3, <1>4, <1>5 DEF Next

\* Whatever the order of gestures, answers and reloads, each page keeps to its
\* invariant.
THEOREM DeskInvariance == Spec => []DeskInv
BY DeskStarts, DeskSteps, PTL DEF Spec

\* The variables of the pages keep to their sets.
THEOREM DeskTyping == Spec => []TypeOK
BY DeskInvariance, PTL DEF DeskInv

LEMMA AtRest == DeskInv => CacheConverges
<1> SUFFICES ASSUME DeskInv, Quiet, page # "transactions", NEW r \in Rows, Key(r) \notin trouble
             PROVE  cache[r] = server[r]
    BY DEF CacheConverges
<1>1. Key(r) \in Keys /\ r \in At(Key(r)) BY KeysOfRows DEF At
<1>2. CASE Toggling
  <2>1. Turned(r) BY <1>2 DEF DeskInv, InTurn
  <2>2. Turning(r) = {} BY DEF Quiet, Turning
  <2>3. QED BY <2>1, <2>2 DEF Turned
<1>3. CASE ~Toggling
  <2>1. ~Unsettled(Key(r)) BY DEF Quiet, Unsettled, Disturbs
  <2>2. fetch[Key(r)].at = "idle" BY <1>1 DEF Quiet
  <2>3. Agree(cache, Key(r)) BY <1>1, <1>3, <2>1, <2>2 DEF DeskInv, Reloaded
  <2>4. QED BY <1>1, <2>3 DEF Agree
<1>4. QED BY <1>2, <1>3

\* When nothing is under way a page shows the rows of the server, in spite of
\* changes shown before their time, rollbacks to older copies and reloads that
\* began too early.
THEOREM PagesConverge == Spec => []CacheConverges
BY DeskInvariance, AtRest, PTL

LEMMA SentAsMeant == DeskInv => EditsHitTheirRow
BY DEF DeskInv, CallsFit, Fits, EditsHitTheirRow

\* What a dialog's button sends is what the dialog was opened for, and a scan
\* sends nothing that has succeeded before.
THEOREM EditsAreMeant == Spec => []EditsHitTheirRow
BY DeskInvariance, SentAsMeant, PTL
-----------------------------------------------------------------------------
(***************************************************************************)
(* The lists.  Two invariants are inductive together.  ListsInv is about   *)
(* the lists shown: an answer kept by query is one to that query, and no   *)
(* longer than the list is; a page that keeps its own list either awaits   *)
(* the answer to what it asks for or has it.  ActivityInv is about the     *)
(* history loaded page after page: the pages there are cover the newest    *)
(* entries among those of the start, as many as they have room for, and    *)
(* those being loaded do so too, against the length of the ledger at each  *)
(* read.                                                                   *)
(***************************************************************************)

AskedCall == [at: {"unused", "sent", "over"}, query: Query, last: BOOLEAN]
Troubles == {"torn", "left", "overtaken", "refused"}

\* Answers kept are to the query they are kept by, and on a paged list they
\* promise no entry that is not there.
KeptAnswers ==
    /\ screen \in Keyed => \A q \in Query : data[q] # None => data[q].of = q
    /\ screen \in Paged /\ "left" \notin mishaps =>
          \A q \in Query : data[q] # None =>
              data[q].total \in Nat /\ data[q].total <= Total(q.filter)

\* Requests whose answer the screen would show.
Awaited == {s \in Reads : OnItsWay(s) /\ Accepts(reads[s])}

OwnLists ==
    screen \in Own /\ mishaps = {} =>
        /\ \A s \in Awaited : reads[s].query = query
        /\ Awaited # {} \/ Known.of = query

AsChosen == screen \notin Local => typing \/ query.filter = box

ListsInv == ListsTypeOK /\ DOMAIN data = Query /\ KeptAnswers /\ OwnLists /\ AsChosen /\ PageExists

PageLists == Seq(SUBSET Int)

\* With n entries posted, list has those of 1 .. f that are new enough for it.
Covers(list, f, n) ==
    \A i \in 1 .. f : i > n - Len(list) * PageSize => \E k \in DOMAIN list : i \in list[k]

Loaded ==
    /\ pages \in PageLists /\ since <= Len(entries) /\ Covers(pages, since, Len(entries))
    /\ pages # <<>> /\ ~more /\ "torn" \notin mishaps =>
          \A i \in 1 .. since : \E k \in DOMAIN pages : i \in pages[k]

\* The rows of the page being loaded were read at a length at which those
\* before them cover, and the total at this length or an earlier one.
Loading ==
    feed.at = "asked" =>
        /\ feed.got \in PageLists /\ feed.first \in 0 .. Len(entries)
        /\ feed.total \in Nat \cup {Unread} /\ feed.goal \in Nat
        /\ feed.rows = None =>
              /\ Covers(feed.got, feed.first, Len(entries))
              /\ feed.total \in {Unread, Len(entries)} \/ "torn" \in mishaps
        /\ feed.rows # None =>
              /\ feed.rows \in SUBSET Int
              /\ Covers(Append(feed.got, feed.rows), feed.first, Len(entries))
              /\ \/ feed.total = Unread \/ "torn" \in mishaps
                 \/ Covers(Append(feed.got, feed.rows), feed.first, feed.total)

FeedOK ==
    /\ DOMAIN feed = {"at", "goal", "got", "rows", "total", "first"}
    /\ feed.at \in {"idle", "asked"} /\ (feed.at = "idle" => feed = NoFeed)

ActivityInv ==
    /\ screen # "activity" => pages = <<>> /\ feed = NoFeed /\ since = 0
    /\ FeedOK /\ Loaded /\ Loading

-----------------------------------------------------------------------------
(* Totals and keys *)

LEMMA TotalIsNat ==
    ASSUME NEW f, ListsTypeOK
    PROVE  Total(f) \in Nat
<1>1. IsFiniteSet(1 .. Len(entries))
  <2>1. Len(entries) \in Int BY DEF ListsTypeOK
  <2>2. QED BY <2>1, FS_Interval
<1>2. DOMAIN entries = 1 .. Len(entries) BY DEF ListsTypeOK
<1>3. {i \in DOMAIN entries : f \in {All, Near, entries[i]}} \subseteq 1 .. Len(entries) BY <1>2
<1>4. QED BY <1>1, <1>3, FS_Subset, FS_CardinalityType DEF Total

\* No list is shorter for an entry posted.
LEMMA TotalGrows ==
    ASSUME NEW f, NEW k, ListsTypeOK, k \in Kinds, entries' = Append(entries, k)
    PROVE  Total(f) <= Total(f)' /\ Total(f) \in Nat /\ Total(f)' \in Nat
<1>1. IsFiniteSet(1 .. Len(entries) + 1)
  <2>1. Len(entries) + 1 \in Int BY DEF ListsTypeOK
  <2>2. QED BY <2>1, FS_Interval
<1>2. DOMAIN entries = 1 .. Len(entries) /\ DOMAIN entries' = 1 .. Len(entries) + 1 BY DEF ListsTypeOK
<1>3. \A i \in DOMAIN entries : entries'[i] = entries[i] BY DEF ListsTypeOK
<1> DEFINE Before == {i \in DOMAIN entries : f \in {All, Near, entries[i]}}
           After == {i \in DOMAIN entries' : f \in {All, Near, entries'[i]}}
<1>4. Before \subseteq After
  <2> SUFFICES ASSUME NEW i \in DOMAIN entries, f \in {All, Near, entries[i]} PROVE i \in After
      OBVIOUS
  <2>1. i \in DOMAIN entries' BY <1>2 DEF ListsTypeOK
  <2>2. QED BY <2>1, <1>3
<1>5. IsFiniteSet(After) BY <1>1, <1>2, FS_Subset
<1>6. Cardinality(Before) <= Cardinality(After) BY <1>4, <1>5, FS_Subset
<1>7. Total(f) = Cardinality(Before) /\ Total(f)' = Cardinality(After) BY DEF Total
<1>8. Cardinality(After) \in Nat BY <1>5, FS_CardinalityType
<1>9. QED BY <1>6, <1>7, <1>8, TotalIsNat

LEMMA FirstIsQuery ==
    ASSUME NEW f \in Filters \cup {Near}
    PROVE  First(f) \in Query /\ First(f).filter = f /\ First(f).page = 1
BY ListingsAssumption DEF First, Query

LEMMA KeyIsQuery ==
    ASSUME NEW q \in Query
    PROVE  KeyOf(q) \in Query
BY FirstIsQuery DEF KeyOf, Filters

-----------------------------------------------------------------------------
(* Asking *)

\* A request sent is the last one, and no other is.
LEMMA Sent ==
    ASSUME ListsTypeOK, NEW q \in Query, Send(q)
    PROVE  /\ reads' \in [Reads -> AskedCall]
           /\ \E s \in Reads :
                 /\ reads'[s].at = "sent" /\ reads'[s].query = q /\ reads'[s].last
                 /\ \A t \in Reads \ {s} :
                       reads'[t].at = reads[t].at /\ ~reads'[t].last
<1>1. PICK s \in Reads :
          reads' = [t \in Reads |-> IF t = s THEN [Unsent EXCEPT !.at = "sent", !.query = q, !.last = TRUE]
                                    ELSE [reads[t] EXCEPT !.last = FALSE]]
      BY DEF Send
<1>2. reads \in [Reads -> AskedCall] BY DEF ListsTypeOK, AskedCall
<1> DEFINE fresh == [Unsent EXCEPT !.at = "sent", !.query = q, !.last = TRUE]
<1>3. Unsent \in AskedCall BY FirstIsQuery DEF Unsent, AskedCall, Filters
<1>4. \A c \in AskedCall : [c EXCEPT !.last = FALSE] \in AskedCall BY DEF AskedCall
<1>5. fresh \in AskedCall /\ fresh.at = "sent" /\ fresh.query = q /\ fresh.last = TRUE
      BY <1>3 DEF AskedCall
<1>6. reads' \in [Reads -> AskedCall] BY <1>1, <1>2, <1>4, <1>5
<1>7. reads'[s].at = "sent" /\ reads'[s].query = q /\ reads'[s].last BY <1>1, <1>5
<1>8. \A t \in Reads \ {s} : reads'[t].at = reads[t].at /\ ~reads'[t].last
      BY <1>1, <1>2 DEF AskedCall
<1>9. QED BY <1>6, <1>7, <1>8

\* What a page of its own awaits after a request, if none it would show was
\* under way, is the answer to it.
LEMMA SentIsAwaited ==
    ASSUME ListsTypeOK, NEW q \in Query, Send(q), query' = q, UNCHANGED screen,
           Idle \/ screen \in {"detail", "overview"}
    PROVE  /\ \A s \in Awaited' : reads'[s].query = query'
           /\ Awaited' # {}
<1>1. PICK s \in Reads :
          /\ reads'[s].at = "sent" /\ reads'[s].query = q /\ reads'[s].last
          /\ \A t \in Reads \ {s} : reads'[t].at = reads[t].at /\ ~reads'[t].last
      BY Sent
<1>2. s \in Awaited' BY <1>1 DEF Awaited, OnItsWay, Accepts
<1>3. \A t \in Reads \ {s} : t \notin Awaited'
      BY <1>1 DEF Awaited, OnItsWay, Accepts, Idle
<1>4. Awaited' \subseteq Reads BY DEF Awaited
<1>5. QED BY <1>1, <1>2, <1>3, <1>4

-----------------------------------------------------------------------------
(* The lists shown *)

\* Nothing about the lists is disturbed where only the fields a filter or a
\* history needs change.
LEMMA ListsStand ==
    ASSUME ListsInv, UNCHANGED <<screen, entries, asking, data>>,
           box' \in Filters, typing' \in BOOLEAN, failed' \subseteq Query,
           place' \in {"unknown", "known"}, more' \in BOOLEAN, since' \in 0 .. MaxEntries,
           mishaps \subseteq mishaps', mishaps' \subseteq Troubles,
           screen \notin Local => typing' \/ query.filter = box'
    PROVE  ListsInv'
<1>1. ListsTypeOK' BY DEF ListsInv, ListsTypeOK, Troubles, asking
<1>2. KeptAnswers' BY DEF ListsInv, KeptAnswers, Total
<1>3. OwnLists'
      BY DEF ListsInv, OwnLists, Awaited, OnItsWay, Accepts, Known, KeyOf, asking
<1>4. AsChosen' BY DEF AsChosen, asking
<1>5. PageExists' BY DEF ListsInv, PageExists, Total, asking
<1>6. QED BY <1>1, <1>2, <1>3, <1>4, <1>5 DEF ListsInv

\* What an asking for q has to bring with it.
LEMMA AskingKeeps ==
    ASSUME ListsInv, NEW q \in Query, Asks(q),
           box' \in Filters, typing' \in BOOLEAN, mishaps \subseteq mishaps', mishaps' \subseteq Troubles,
           screen \in Own /\ mishaps' = {} => Idle \/ screen \in {"detail", "overview"},
           screen \notin Local => typing' \/ q.filter = box',
           screen \in Paged /\ "left" \notin mishaps =>
               q.page = 1 \/ (q.page - 1) * PageSize < Total(q.filter)
    PROVE  ListsInv'
<1>1. /\ query' = q /\ UNCHANGED <<screen, entries, data, place, activity>>
      BY DEF Asks, AskFor
<1>2. ListsTypeOK'
  <2>1. reads' \in [Reads -> AskedCall] BY Sent DEF Asks, AskFor, ListsInv, ListsTypeOK, AskedCall
  <2>2. failed' \subseteq Query BY DEF Asks, AskFor, ListsInv, ListsTypeOK
  <2>3. QED BY <1>1, <2>1, <2>2 DEF ListsInv, ListsTypeOK, Troubles, AskedCall, activity
<1>3. KeptAnswers' BY <1>1 DEF ListsInv, KeptAnswers, Total
<1>4. OwnLists'
  <2> SUFFICES ASSUME screen \in Own, mishaps' = {}
               PROVE  (\A s \in Awaited' : reads'[s].query = query') /\ Awaited' # {}
      BY <1>1 DEF OwnLists
  <2>1. Send(q) BY DEF Asks, AskFor, Own, Keyed
  <2>2. QED BY <1>1, <2>1, SentIsAwaited DEF ListsInv
<1>5. AsChosen' BY <1>1 DEF AsChosen
<1>6. PageExists' BY <1>1 DEF PageExists, Total
<1>7. QED BY <1>1, <1>2, <1>3, <1>4, <1>5, <1>6 DEF ListsInv

\* A list starts over at the first page of what has been chosen.
LEMMA ChoosingKeeps ==
    ASSUME ListsInv, NEW f \in Filters, Asks(First(f)), box' = f, typing' \in BOOLEAN,
           mishaps \subseteq mishaps', mishaps' \subseteq Troubles,
           screen \in Own /\ mishaps' = {} => Idle \/ screen \in {"detail", "overview"}
    PROVE  ListsInv'
BY FirstIsQuery, AskingKeeps

LEMMA ListsChosen ==
    ASSUME ListsInv, NEW f \in Filters,
           SetFilter(f) \/ SelectLocation(f) \/ SetCustomerFilter(f) \/ SetSelectedMerchant(f)
    PROVE  ListsInv'
<1>1. Chosen(f)
      BY DEF SetFilter, SelectLocation, SetCustomerFilter, SetSelectedMerchant
<1>2. screen \in Own => screen \in {"detail", "overview"}
      BY DEF SetFilter, SelectLocation, SetCustomerFilter, SetSelectedMerchant, Own
<1>3. /\ box' = f /\ UNCHANGED <<typing, mishaps>> /\ Asks(First(f))
      BY <1>1 DEF Chosen, Narrowed
<1>4. typing' \in BOOLEAN /\ mishaps' \subseteq Troubles BY <1>3 DEF ListsInv, ListsTypeOK, Troubles
<1>5. QED BY <1>2, <1>3, <1>4, ChoosingKeeps

LEMMA ListsTyped ==
    ASSUME ListsInv, (\E f \in Filters : HandleQueryChange(f)) \/ Debounce \/ DoSearch
    PROVE  ListsInv'
<1>1. ASSUME NEW f \in Filters, HandleQueryChange(f) PROVE ListsInv'
  <2>1. /\ box' = f /\ typing' = TRUE
        /\ UNCHANGED <<screen, entries, asking, shown, place, activity, mishaps>>
        BY <1>1 DEF HandleQueryChange
  <2>2. QED BY <2>1, ListsStand DEF ListsInv, ListsTypeOK, Troubles, shown, activity
<1>2. CASE Debounce
  <2>1. /\ screen = "customers" /\ typing' = FALSE /\ UNCHANGED <<box, mishaps>>
        /\ Asks(First(box))
        BY <1>2 DEF Debounce, Narrowed
  <2>2. box \in Filters /\ mishaps' \subseteq Troubles BY <2>1 DEF ListsInv, ListsTypeOK, Troubles
  <2>3. PICK f : f = box OBVIOUS
  <2>4. QED BY <2>1, <2>2, <2>3, ChoosingKeeps DEF Own
<1>3. CASE DoSearch
  <2>1. /\ screen = "directory" /\ typing' = FALSE /\ UNCHANGED box
        /\ mishaps' = (IF Idle THEN mishaps ELSE mishaps \cup {"overtaken"})
        /\ Asks(First(box))
        BY <1>3 DEF DoSearch
  <2>2. box \in Filters /\ mishaps' \subseteq Troubles BY <2>1 DEF ListsInv, ListsTypeOK, Troubles
  <2>3. PICK f : f = box OBVIOUS
  <2>4. mishaps' = {} => Idle BY <2>1
  <2>5. mishaps \subseteq mishaps' BY <2>1
  <2>6. QED BY <2>1, <2>2, <2>3, <2>4, <2>5, ChoosingKeeps
<1>4. QED BY <1>1, <1>2, <1>3

\* Pages are turned on what a list has been said to hold: no more than it does.
LEMMA ListsTurned ==
    ASSUME ListsInv, NextPage \/ PreviousPage
    PROVE  ListsInv'
<1>1. /\ screen \in Paged /\ Ready
      BY DEF NextPage, PreviousPage, Turn
<1>2. screen \notin Own /\ screen \in Keyed
      BY <1>1 DEF Paged, Own, Keyed, Local
<1>3. query \in Query /\ query.filter \in Filters \cup {Near} /\ query.page \in 1 .. MaxEntries
      BY DEF ListsInv, ListsTypeOK, Query
<1>4. UNCHANGED <<box, typing, mishaps>>
      BY DEF NextPage, PreviousPage, Turn
<1>5. box' \in Filters /\ typing' \in BOOLEAN /\ mishaps \subseteq mishaps' /\ mishaps' \subseteq Troubles
      BY <1>4 DEF ListsInv, ListsTypeOK, Troubles
<1>6. ASSUME NEW number \in 1 .. MaxEntries, Turn(number),
             "left" \notin mishaps => number = 1 \/ (number - 1) * PageSize < Total(query.filter)
      PROVE  ListsInv'
  <2>1. PICK q : q = [query EXCEPT !.page = number] OBVIOUS
  <2>2. q \in Query /\ q.filter = query.filter /\ q.page = number BY <1>3, <2>1 DEF Query
  <2>3. Asks(q) BY <1>6, <2>1 DEF Turn
  <2>4. screen \notin Local => typing' \/ q.filter = box'
        BY <1>4, <2>2 DEF ListsInv, AsChosen
  <2>5. QED BY <1>2, <1>5, <1>6, <2>2, <2>3, <2>4, AskingKeeps
<1>7. CASE NextPage
  <2>1. /\ query.page * PageSize < Known.total /\ query.page < MaxEntries /\ Turn(query.page + 1)
        BY <1>7 DEF NextPage
  <2>2. query.page + 1 \in 1 .. MaxEntries /\ query.page + 1 - 1 = query.page
        BY <1>3, <2>1, ListingsAssumption
  <2>3. ASSUME "left" \notin mishaps
        PROVE  (query.page + 1 - 1) * PageSize < Total(query.filter)
    <3>1. data[query] # None /\ Known = data[query] BY <1>1, <1>2 DEF Ready, Known, KeyOf
    <3>2. Known.total \in Nat /\ Known.total <= Total(query.filter)
          BY <1>1, <1>3, <2>3, <3>1 DEF ListsInv, KeptAnswers
    <3>3. query.page * PageSize \in Nat /\ Total(query.filter) \in Nat
          BY <1>3, ListingsAssumption, TotalIsNat DEF ListsInv
    <3>4. query.page * PageSize < Total(query.filter) BY <2>1, <3>2, <3>3
    <3>5. QED BY <2>2, <3>4
  <2>4. PICK number : number = query.page + 1 OBVIOUS
  <2>5. number \in 1 .. MaxEntries /\ number - 1 = query.page + 1 - 1
        BY <1>3, <2>1, <2>2, <2>4, ListingsAssumption
  <2>6. Turn(number) BY <2>1, <2>4
  <2>7. "left" \notin mishaps => (number - 1) * PageSize < Total(query.filter) BY <2>3, <2>5
  <2>8. QED BY <1>6, <2>5, <2>6, <2>7
<1>8. CASE PreviousPage
  <2>1. query.page > 1 /\ Turn(query.page - 1) BY <1>8 DEF PreviousPage
  <2>2. PICK number : number = query.page - 1 OBVIOUS
  <2>3. number \in 1 .. MaxEntries BY <1>3, <2>1, <2>2, ListingsAssumption
  <2>4. ASSUME "left" \notin mishaps PROVE (number - 1) * PageSize < Total(query.filter)
    <3>1. (query.page - 1) * PageSize < Total(query.filter)
          BY <1>1, <1>3, <2>1, <2>4 DEF ListsInv, PageExists
    <3>2. (number - 1) * PageSize = (query.page - 1) * PageSize - PageSize
          BY <1>3, <2>2, <2>3, ListingsAssumption
    <3>3. (query.page - 1) * PageSize \in Int /\ Total(query.filter) \in Nat /\ PageSize > 0
          BY <1>3, ListingsAssumption, TotalIsNat DEF ListsInv
    <3>4. QED BY <3>1, <3>2, <3>3, ListingsAssumption
  <2>5. Turn(number) BY <2>1, <2>2
  <2>6. QED BY <1>6, <2>3, <2>4, <2>5
<1>9. QED BY <1>7, <1>8

\* A list read again, or sifted on the screen.
LEMMA ListsReadAgain ==
    ASSUME ListsInv, Refresh \/ OnRefresh \/ Locate
    PROVE  ListsInv'
<1>1. /\ UNCHANGED <<screen, entries, box, typing, query, data, failed, activity>>
      /\ place' \in {"unknown", "known"}
      BY DEF Refresh, OnRefresh, Locate, Again, shown, ListsInv, ListsTypeOK
<1>2. \E q \in Query : Send(q) /\ (q = query \/ screen \notin Own)
  <2>1. First(Near) \in Query BY FirstIsQuery
  <2>2. query \in Query BY DEF ListsInv, ListsTypeOK
  <2>3. CASE Locate BY <2>1, <2>3 DEF Locate, Own
  <2>4. CASE Refresh \/ OnRefresh BY <2>2, <2>4 DEF Refresh, OnRefresh, Again
  <2>5. QED BY <2>3, <2>4
<1>3. mishaps \subseteq mishaps' /\ mishaps' \subseteq Troubles
      BY DEF Refresh, OnRefresh, Locate, ListsInv, ListsTypeOK, Troubles
<1>4. screen \in Own /\ mishaps' = {} => Idle
      BY DEF Refresh, OnRefresh, Locate, Own
<1>5. reads' \in [Reads -> AskedCall] BY <1>2, Sent DEF ListsInv
<1>6. ListsTypeOK' BY <1>1, <1>3, <1>5 DEF ListsInv, ListsTypeOK, AskedCall, Troubles, activity
<1>7. KeptAnswers' BY <1>1, <1>3 DEF ListsInv, KeptAnswers, Total
<1>8. OwnLists'
  <2> SUFFICES ASSUME screen \in Own, mishaps' = {}
               PROVE  (\A s \in Awaited' : reads'[s].query = query') /\ Awaited' # {}
      BY <1>1 DEF OwnLists
  <2>1. PICK q \in Query : Send(q) /\ q = query BY <1>2
  <2>2. QED BY <1>1, <1>4, <2>1, SentIsAwaited DEF ListsInv
<1>9. AsChosen' /\ PageExists' BY <1>1, <1>3 DEF ListsInv, AsChosen, PageExists, Total
<1>10. QED BY <1>1, <1>6, <1>7, <1>8, <1>9 DEF ListsInv

LEMMA ListsSifted ==
    ASSUME ListsInv,
           (\E f \in Filters : Sift(f)) \/ ToggleNearMe
    PROVE  ListsInv'
<1>1. ASSUME NEW f \in Filters, Sift(f) PROVE ListsInv'
  <2>1. /\ screen \in Local /\ box' \in Filters
        /\ UNCHANGED <<screen, entries, typing, asking, shown, place, activity, mishaps>>
        BY <1>1 DEF Sift, Local
  <2>2. QED BY <2>1, ListsStand DEF ListsInv, ListsTypeOK, Troubles, shown, activity
<1>2. CASE ToggleNearMe
  <2>1. /\ screen = "discover" /\ query' \in Query
        /\ UNCHANGED <<screen, entries, box, typing, reads, shown, place, activity, mishaps>>
        BY <1>2, FirstIsQuery DEF ToggleNearMe, Filters
  <2>2. ListsTypeOK' BY <2>1 DEF ListsInv, ListsTypeOK, shown, activity
  <2>3. screen \notin Own /\ screen \notin Paged /\ screen \in Local
        BY <2>1 DEF Own, Paged, Local
  <2>4. KeptAnswers' BY <2>1 DEF ListsInv, KeptAnswers, Total, shown
  <2>5. OwnLists' /\ AsChosen' /\ PageExists' BY <2>1, <2>3 DEF OwnLists, AsChosen, PageExists
  <2>6. QED BY <2>1, <2>2, <2>4, <2>5 DEF ListsInv, shown
<1>3. QED BY <1>1, <1>2

\* The server's list is longer by one.
LEMMA ListsPosted ==
    ASSUME ListsInv, NEW k \in Kinds, Post(k)
    PROVE  ListsInv'
<1>1. /\ Len(entries) < MaxEntries /\ entries' = Append(entries, k)
      /\ mishaps' \in {mishaps, mishaps \cup {"torn"}}
      /\ UNCHANGED <<screen, box, typing, asking, shown, place, activity>>
      BY DEF Post
<1>2. ListsTypeOK BY DEF ListsInv
<1>3. ListsTypeOK'
  <2>1. entries' \in Seq(Kinds) /\ Len(entries') <= MaxEntries
        BY <1>1, <1>2, ListingsAssumption DEF ListsTypeOK
  <2>2. QED BY <1>1, <1>2, <2>1 DEF ListsTypeOK, asking, shown, activity
<1>4. \A f \in Filters \cup {Near} : Total(f) <= Total(f)' /\ Total(f) \in Nat /\ Total(f)' \in Nat
      BY <1>1, <1>2, TotalGrows
<1>5. \A q \in Query : q.filter \in Filters \cup {Near} /\ q.page \in Nat
      BY ListingsAssumption DEF Query
<1>6. KeptAnswers'
  <2> SUFFICES ASSUME screen \in Paged, "left" \notin mishaps, NEW q \in Query, data[q] # None
               PROVE  data[q].total \in Nat /\ data[q].total <= Total(q.filter)'
      BY <1>1 DEF ListsInv, KeptAnswers, shown
  <2>1. data[q].total \in Nat /\ data[q].total <= Total(q.filter) BY DEF ListsInv, KeptAnswers
  <2>2. QED BY <1>4, <1>5, <2>1
<1>7. OwnLists'
  <2>1. UNCHANGED <<screen, reads, data, query>> /\ (mishaps' = {} => mishaps = {})
        BY <1>1 DEF asking, shown
  <2>2. QED BY <2>1 DEF ListsInv, OwnLists, Awaited, OnItsWay, Accepts, Known, KeyOf
<1>8. AsChosen' BY <1>1 DEF ListsInv, AsChosen, asking
<1>9. PageExists'
  <2>1. PICK q : q = query OBVIOUS
  <2> SUFFICES ASSUME screen \in Paged, "left" \notin mishaps, q.page # 1
               PROVE  (q.page - 1) * PageSize < Total(q.filter)'
      BY <1>1, <2>1 DEF PageExists, asking
  <2>2. (q.page - 1) * PageSize < Total(q.filter) BY <2>1 DEF ListsInv, PageExists
  <2>3. q.filter \in Filters \cup {Near} /\ q.page \in Nat
        BY <1>2, <1>5, <2>1 DEF ListsTypeOK
  <2>4. (q.page - 1) * PageSize \in Int BY <2>3, ListingsAssumption
  <2>5. QED BY <1>4, <2>2, <2>3, <2>4
<1>10. QED BY <1>1, <1>3, <1>6, <1>7, <1>8, <1>9 DEF ListsInv, shown

\* It is shorter, which no paged list counts on from then on.
LEMMA ListsLeft ==
    ASSUME ListsInv, Leave
    PROVE  ListsInv'
<1>1. PICK i \in DOMAIN entries : entries' = RemoveAt(entries, i) BY DEF Leave
<1>2. /\ screen \in Paged /\ mishaps' = mishaps \cup {"left"}
      /\ UNCHANGED <<screen, box, typing, asking, shown, place, activity>>
      BY DEF Leave
<1>3. entries \in Seq(Kinds) /\ Len(entries) <= MaxEntries /\ i \in 1 .. Len(entries)
      BY <1>1 DEF ListsInv, ListsTypeOK
<1>4. entries' \in Seq(Kinds) /\ Len(entries') <= MaxEntries
  <2>1. /\ SubSeq(entries, 1, i - 1) \in Seq(Kinds) /\ Len(SubSeq(entries, 1, i - 1)) = i - 1
        /\ SubSeq(entries, i + 1, Len(entries)) \in Seq(Kinds)
        /\ Len(SubSeq(entries, i + 1, Len(entries))) = Len(entries) - i
        BY <1>3
  <2>2. entries' = SubSeq(entries, 1, i - 1) \o SubSeq(entries, i + 1, Len(entries))
        BY <1>1 DEF RemoveAt
  <2>3. QED BY <1>3, <2>1, <2>2, ListingsAssumption
<1>5. ListsTypeOK' BY <1>2, <1>4 DEF ListsInv, ListsTypeOK, asking, shown, activity
<1>6. KeptAnswers' BY <1>2 DEF ListsInv, KeptAnswers, shown
<1>7. OwnLists' /\ PageExists' BY <1>2 DEF OwnLists, PageExists, Own, Paged
<1>8. AsChosen' BY <1>2 DEF ListsInv, AsChosen, asking
<1>9. QED BY <1>2, <1>5, <1>6, <1>7, <1>8 DEF ListsInv, shown

\* The answer to a query is kept by it, as it is when it arrives.
LEMMA ListsAnswered ==
    ASSUME ListsInv, NEW s \in Reads, Take(s)
    PROVE  ListsInv'
<1> DEFINE c == reads[s]
           answer == [of |-> c.query, total |-> Total(c.query.filter)]
<1>1. /\ c.at = "sent"
      /\ data' = (IF Accepts(c) THEN [data EXCEPT ![KeyOf(c.query)] = answer] ELSE data)
      /\ failed' = failed \ {KeyOf(c.query)}
      /\ reads' = [reads EXCEPT ![s] = [Unsent EXCEPT !.at = "over"]]
      /\ UNCHANGED <<screen, entries, box, typing, query, place, activity, mishaps>>
      BY DEF Take, OnItsWay
<1>2. reads \in [Reads -> AskedCall] /\ c \in AskedCall /\ c.query \in Query /\ DOMAIN data = Query
      BY DEF ListsInv, ListsTypeOK, AskedCall
<1>3. KeyOf(c.query) \in Query BY <1>2, KeyIsQuery
<1>4. Unsent \in AskedCall BY FirstIsQuery DEF Unsent, AskedCall, Filters
<1>5. [Unsent EXCEPT !.at = "over"] \in AskedCall /\ [Unsent EXCEPT !.at = "over"].at = "over"
      BY <1>4 DEF AskedCall
<1>6. reads' \in [Reads -> AskedCall] /\ reads'[s].at = "over" /\ \A t \in Reads \ {s} : reads'[t] = reads[t]
      BY <1>1, <1>2, <1>5
<1>7. Total(c.query.filter) \in Nat BY TotalIsNat DEF ListsInv
<1>8. answer.of = c.query /\ answer.total = Total(c.query.filter) OBVIOUS
<1> HIDE DEF answer
<1>9. /\ DOMAIN data' = Query
      /\ Accepts(c) => data'[KeyOf(c.query)] = answer
      /\ \A q \in Query : q # KeyOf(c.query) \/ ~Accepts(c) => data'[q] = data[q]
      BY <1>1, <1>2, <1>3
<1>10. ListsTypeOK'
  <2>1. \A q \in Query : data'[q] = None \/ data'[q].of \in Query
        BY <1>2, <1>8, <1>9 DEF ListsInv, ListsTypeOK
  <2>2. failed' \subseteq Query BY <1>1 DEF ListsInv, ListsTypeOK
  <2>3. QED BY <1>1, <1>6, <2>1, <2>2 DEF ListsInv, ListsTypeOK, AskedCall, activity
<1>11. KeptAnswers'
  <2>1. ASSUME screen \in Keyed, NEW q \in Query, data'[q] # None PROVE data'[q].of = q
    <3>1. KeyOf(c.query) = c.query BY <2>1 DEF KeyOf
    <3>2. QED BY <1>8, <1>9, <2>1, <3>1 DEF ListsInv, KeptAnswers
  <2>2. ASSUME screen \in Paged, "left" \notin mishaps, NEW q \in Query, data'[q] # None
        PROVE  data'[q].total \in Nat /\ data'[q].total <= Total(q.filter)
    <3>1. KeyOf(c.query) = c.query BY <2>2 DEF KeyOf, Paged, Keyed
    <3>2. QED BY <1>7, <1>8, <1>9, <2>2, <3>1 DEF ListsInv, KeptAnswers
  <2>3. \A q \in Query : Total(q.filter)' = Total(q.filter) BY <1>1 DEF Total
  <2>4. QED BY <1>1, <2>1, <2>2, <2>3 DEF KeptAnswers
<1>12. OwnLists'
  <2> SUFFICES ASSUME screen \in Own, mishaps = {}
               PROVE  /\ \A t \in Awaited' : reads'[t].query = query
                      /\ Awaited' # {} \/ Known'.of = query
      BY <1>1 DEF OwnLists
  <2>1. /\ \A t \in Awaited : reads[t].query = query
        /\ Awaited # {} \/ Known.of = query
        BY DEF ListsInv, OwnLists
  <2>2. Awaited' = Awaited \ {s} BY <1>1, <1>6 DEF Awaited, OnItsWay, Accepts
  <2>3. \A t \in Awaited' : reads'[t].query = query
        BY <1>6, <2>1, <2>2 DEF Awaited
  <2>4. \A q : KeyOf(q) = First(All) BY DEF KeyOf, Own, Keyed
  <2>5. Known' = data'[First(All)] /\ Known = data[First(All)]
        BY <1>1, <2>4 DEF Known, KeyOf, First
  <2>6. First(All) \in Query BY FirstIsQuery DEF Filters
  <2>7. CASE Accepts(c)
    <3>1. s \in Awaited BY <1>1, <2>7 DEF Awaited, OnItsWay
    <3>2. QED BY <1>8, <1>9, <2>1, <2>3, <2>4, <2>5, <2>7, <3>1
  <2>8. CASE ~Accepts(c)
    <3>1. s \notin Awaited BY <2>8 DEF Awaited
    <3>2. QED BY <1>9, <2>1, <2>2, <2>3, <2>5, <2>6, <2>8, <3>1
  <2>9. QED BY <2>7, <2>8
<1>13. AsChosen' BY <1>1 DEF ListsInv, AsChosen
<1>14. PageExists' BY <1>1 DEF ListsInv, PageExists, Total
<1>15. QED BY <1>9, <1>10, <1>11, <1>12, <1>13, <1>14 DEF ListsInv

LEMMA ListsRefused ==
    ASSUME ListsInv, NEW s \in Reads, ReadFails(s)
    PROVE  ListsInv'
<1>1. /\ failed' = (IF screen \in Keyed THEN failed \cup {KeyOf(reads[s].query)} ELSE failed)
      /\ mishaps' = (IF screen \in Own THEN mishaps \cup {"refused"} ELSE mishaps)
      /\ reads' = [reads EXCEPT ![s] = [Unsent EXCEPT !.at = "over"]]
      /\ UNCHANGED <<screen, entries, box, typing, query, data, place, activity>>
      BY DEF ReadFails
<1>2. reads \in [Reads -> AskedCall] /\ reads[s].query \in Query BY DEF ListsInv, ListsTypeOK, AskedCall
<1>3. KeyOf(reads[s].query) \in Query BY <1>2, KeyIsQuery
<1>4. Unsent \in AskedCall BY FirstIsQuery DEF Unsent, AskedCall, Filters
<1>5. [Unsent EXCEPT !.at = "over"] \in AskedCall BY <1>4 DEF AskedCall
<1>6. reads' \in [Reads -> AskedCall] BY <1>1, <1>2, <1>5
<1>7. failed' \subseteq Query /\ mishaps \subseteq mishaps' /\ mishaps' \subseteq Troubles
      BY <1>1, <1>3 DEF ListsInv, ListsTypeOK, Troubles
<1>8. ListsTypeOK' BY <1>1, <1>6, <1>7 DEF ListsInv, ListsTypeOK, AskedCall, Troubles, activity
<1>9. KeptAnswers' BY <1>1, <1>7 DEF ListsInv, KeptAnswers, Total
<1>10. OwnLists' BY <1>1 DEF OwnLists
<1>11. AsChosen' /\ PageExists' BY <1>1, <1>7 DEF ListsInv, AsChosen, PageExists, Total
<1>12. QED BY <1>1, <1>8, <1>9, <1>10, <1>11 DEF ListsInv

-----------------------------------------------------------------------------
(* The history, page after page *)

\* Entries posted only lower what a list has to cover.
LEMMA CoversStill ==
    ASSUME NEW list \in PageLists, NEW f, NEW n \in Nat, Covers(list, f, n)
    PROVE  Covers(list, f, n + 1)
<1>1. Len(list) * PageSize \in Nat BY ListingsAssumption DEF PageLists
<1>2. QED BY <1>1 DEF Covers

\* The page after those of list, read at length n, has the entries next in age.
LEMMA CoversMore ==
    ASSUME NEW list \in PageLists, ListsTypeOK, NEW f \in 0 .. Len(entries), Covers(list, f, Len(entries))
    PROVE  /\ RowsOf(Len(list) + 1) \in SUBSET Int
           /\ Covers(Append(list, RowsOf(Len(list) + 1)), f, Len(entries))
<1> DEFINE n == Len(entries)
           rows == RowsOf(Len(list) + 1)
           room == Len(list) * PageSize
<1>1. n \in Nat /\ room \in Nat /\ Len(list) \in Nat /\ PageSize \in Nat
      BY ListingsAssumption DEF PageLists, ListsTypeOK
<1>2. (Len(list) + 1 - 1) * PageSize = room /\ (Len(list) + 1) * PageSize = room + PageSize
      BY <1>1
<1>3. \A k \in room .. room + PageSize - 1 : k < n => n - k \in rows
      BY <1>1, <1>2 DEF RowsOf
<1>4. rows \in SUBSET Int BY <1>1, <1>2 DEF RowsOf
<1>5. \A i \in 1 .. f : n - room >= i /\ i > n - (room + PageSize) => i \in rows
  <2> SUFFICES ASSUME NEW i \in 1 .. f, n - room >= i, i > n - (room + PageSize)
               PROVE  i \in rows
      OBVIOUS
  <2>1. i \in Nat /\ i >= 1 BY <1>1
  <2>2. n - i \in room .. room + PageSize - 1 /\ n - i < n /\ n - (n - i) = i
        BY <1>1, <2>1
  <2>3. QED BY <1>3, <2>2
<1>6. Append(list, rows) \in PageLists BY <1>4 DEF PageLists
<1>7. /\ DOMAIN Append(list, rows) = 1 .. Len(list) + 1
      /\ Len(Append(list, rows)) = Len(list) + 1
      /\ Append(list, rows)[Len(list) + 1] = rows
      /\ \A k \in DOMAIN list : k \in 1 .. Len(list) + 1 /\ Append(list, rows)[k] = list[k]
      BY <1>1, <1>4 DEF PageLists
<1> HIDE DEF rows
<1>8. ASSUME NEW i \in 1 .. f, i > n - (Len(list) + 1) * PageSize
      PROVE  \E k \in 1 .. Len(list) + 1 : i \in Append(list, rows)[k]
  <2>1. i \in Nat BY <1>1
  <2>2. CASE i > n - room
    <3>1. PICK k \in DOMAIN list : i \in list[k] BY <2>2 DEF Covers
    <3>2. QED BY <1>7, <3>1
  <2>3. CASE n - room >= i
    <3>1. i \in rows BY <1>2, <1>5, <1>8, <2>3
    <3>2. Len(list) + 1 \in 1 .. Len(list) + 1 BY <1>1
    <3>3. QED BY <1>7, <3>1, <3>2
  <2>4. QED BY <1>1, <2>1, <2>2, <2>3
<1>9. Covers(Append(list, rows), f, n) BY <1>7, <1>8 DEF Covers
<1>10. QED BY <1>4, <1>9 DEF rows

\* Before there is a page nothing needs to be covered.
LEMMA CoversNone ==
    ASSUME NEW n \in Nat, NEW f \in 0 .. n
    PROVE  Covers(<<>>, f, n)
BY ListingsAssumption DEF Covers

\* A list of pages said to be the last ones has room for the whole ledger.
LEMMA LastPage ==
    ASSUME NEW len \in Nat, NEW total \in Nat, ~HasNext(len, total)
    PROVE  total <= len * PageSize
<1>1. PageSize \in Nat /\ PageSize > 0 BY ListingsAssumption
<1>2. PICK a \in Nat : a = total + PageSize - 1 BY <1>1
<1>3. a \div PageSize \in Int /\ a \div PageSize <= len BY <1>1, <1>2 DEF HasNext, PagesFor
<1>4. PICK n \in Int : n = a \div PageSize BY <1>3
<1>5. PICK m \in Nat : m = a % PageSize /\ m < PageSize BY <1>1
<1>6. a = PageSize * (a \div PageSize) + (a % PageSize)
  <2>1. \A b \in Nat, d \in Nat \ {0} : b = d * (b \div d) + (b % d) BY Z3
  <2>2. QED BY <1>1, <2>1
<1>7. a = PageSize * n + m BY <1>4, <1>5, <1>6
<1>8. PageSize * n <= len * PageSize BY <1>1, <1>3, <1>4
<1>9. PageSize * n \in Int /\ len * PageSize \in Int BY <1>1
<1>10. QED BY <1>1, <1>2, <1>5, <1>7, <1>8, <1>9

LEMMA CoversAll ==
    ASSUME NEW list \in PageLists, NEW f \in Nat, NEW total \in Nat,
           Covers(list, f, total), ~HasNext(Len(list), total)
    PROVE  \A i \in 1 .. f : \E k \in DOMAIN list : i \in list[k]
<1>1. Len(list) \in Nat BY DEF PageLists
<1>2. total <= Len(list) * PageSize /\ Len(list) * PageSize \in Nat
      BY <1>1, LastPage, ListingsAssumption
<1>3. QED BY <1>2 DEF Covers

\* No step of a list's takes anything from a history.
LEMMA ActivityStands ==
    ASSUME ActivityInv, UNCHANGED <<screen, entries, activity>>, mishaps \subseteq mishaps'
    PROVE  ActivityInv'
BY DEF ActivityInv, FeedOK, Loaded, Loading, activity

LEMMA ActivityElsewhere ==
    ASSUME ActivityInv, ListsTypeOK', screen # "activity", UNCHANGED <<screen, activity>>
    PROVE  ActivityInv'
<1>1. pages' = <<>> /\ feed' = NoFeed /\ since' = 0 BY DEF ActivityInv, activity
<1>2. feed'.at = "idle" BY <1>1 DEF NoFeed
<1>3. Loaded' BY <1>1, ListingsAssumption DEF Loaded, Covers, PageLists, ListsTypeOK
<1>4. QED BY <1>1, <1>2, <1>3 DEF ActivityInv, Loading, FeedOK, NoFeed

LEMMA ActivityPosted ==
    ASSUME ListsTypeOK, ActivityInv, NEW k \in Kinds, Post(k)
    PROVE  ActivityInv'
<1>1. /\ entries' = Append(entries, k)
      /\ mishaps' = (IF feed.total # Unread /\ feed.rows = None THEN mishaps \cup {"torn"} ELSE mishaps)
      /\ UNCHANGED <<screen, activity>>
      BY DEF Post
<1>2. Len(entries) \in Nat /\ Len(entries') = Len(entries) + 1 BY <1>1 DEF ListsTypeOK
<1>3. UNCHANGED <<pages, more, feed, since>> /\ mishaps \subseteq mishaps' BY <1>1 DEF activity
<1>4. Loaded'
  <2>1. Covers(pages, since, Len(entries) + 1) BY <1>2, CoversStill DEF ActivityInv, Loaded
  <2>2. since <= Len(entries) + 1 BY <1>2 DEF ActivityInv, Loaded, ListsTypeOK
  <2>3. PICK n : n = Len(entries) + 1 /\ n = Len(entries') BY <1>2
  <2>4. QED BY <1>3, <2>1, <2>2, <2>3 DEF ActivityInv, Loaded, Covers
<1>5. Loading'
  <2> SUFFICES ASSUME feed.at = "asked"
               PROVE  /\ feed.got \in PageLists /\ feed.first \in 0 .. Len(entries')
                      /\ feed.total \in Nat \cup {Unread} /\ feed.goal \in Nat
                      /\ feed.rows = None =>
                            /\ Covers(feed.got, feed.first, Len(entries'))
                            /\ feed.total \in {Unread, Len(entries')} \/ "torn" \in mishaps'
                      /\ feed.rows # None =>
                            /\ feed.rows \in SUBSET Int
                            /\ Covers(Append(feed.got, feed.rows), feed.first, Len(entries'))
                            /\ \/ feed.total = Unread \/ "torn" \in mishaps'
                               \/ Covers(Append(feed.got, feed.rows), feed.first, feed.total)
      BY <1>3 DEF Loading, Covers
  <2>1. /\ feed.got \in PageLists /\ feed.first \in 0 .. Len(entries')
        /\ feed.total \in Nat \cup {Unread} /\ feed.goal \in Nat
        BY <1>2 DEF ActivityInv, Loading
  <2>2. CASE feed.rows = None
    <3>1. Covers(feed.got, feed.first, Len(entries) + 1)
          BY <1>2, <2>1, <2>2, CoversStill DEF ActivityInv, Loading
    <3>2. feed.total = Unread \/ "torn" \in mishaps' BY <1>1, <2>2
    <3>3. QED BY <1>2, <2>1, <2>2, <3>1, <3>2
  <2>3. CASE feed.rows # None
    <3>1. feed.rows \in SUBSET Int /\ Covers(Append(feed.got, feed.rows), feed.first, Len(entries))
          BY <2>3 DEF ActivityInv, Loading
    <3>2. Append(feed.got, feed.rows) \in PageLists BY <2>1, <3>1 DEF PageLists
    <3>3. Covers(Append(feed.got, feed.rows), feed.first, Len(entries) + 1)
          BY <1>2, <3>1, <3>2, CoversStill
    <3>4. \/ feed.total = Unread \/ "torn" \in mishaps'
          \/ Covers(Append(feed.got, feed.rows), feed.first, feed.total)
          BY <1>3, <2>3 DEF ActivityInv, Loading
    <3>5. QED BY <1>2, <2>1, <2>3, <3>1, <3>3, <3>4
  <2>4. QED BY <2>2, <2>3
<1>6. FeedOK' /\ (screen' # "activity" => pages' = <<>> /\ feed' = NoFeed /\ since' = 0)
      BY <1>1, <1>3 DEF ActivityInv, FeedOK
<1>7. QED BY <1>4, <1>5, <1>6 DEF ActivityInv

\* Load More goes on from the pages there are, and a pull starts from none.
LEMMA FeedingLoads ==
    ASSUME ListsTypeOK, ActivityInv, NEW goal \in Nat, NEW got \in PageLists,
           screen = "activity", feed' = Feeding(goal, got),
           UNCHANGED <<screen, entries, pages, more, since, mishaps>>,
           Covers(got, since, Len(entries))
    PROVE  ActivityInv'
<1>1. /\ feed'.at = "asked" /\ feed'.goal = goal /\ feed'.got = got /\ feed'.rows = None
      /\ feed'.total = Unread /\ feed'.first = since
      /\ DOMAIN feed' = {"at", "goal", "got", "rows", "total", "first"}
      BY DEF Feeding, NoFeed
<1>2. since \in 0 .. Len(entries) BY DEF ListsTypeOK, ActivityInv, Loaded
<1>3. Loading' BY <1>1, <1>2 DEF Loading, Covers
<1>4. FeedOK' BY <1>1 DEF FeedOK
<1>5. Loaded' BY DEF ActivityInv, Loaded
<1>6. QED BY <1>3, <1>4, <1>5 DEF ActivityInv

LEMMA ActivityAsked ==
    ASSUME ListsTypeOK, ActivityInv, FetchNextPage \/ HandleTouchEnd
    PROVE  ActivityInv'
<1>1. UNCHANGED <<screen, entries, pages, more, since, mishaps>> /\ screen = "activity"
      BY DEF FetchNextPage, HandleTouchEnd, Feed
<1>2. pages \in PageLists /\ Len(pages) \in Nat /\ Len(pages) + 1 \in Nat
      BY DEF ActivityInv, Loaded, PageLists
<1>3. CASE FetchNextPage
  <2>1. feed' = Feeding(Len(pages) + 1, pages) BY <1>3 DEF FetchNextPage, Feed
  <2>2. Covers(pages, since, Len(entries)) BY DEF ActivityInv, Loaded
  <2>3. PICK goal, got : goal = Len(pages) + 1 /\ got = pages OBVIOUS
  <2>4. QED BY <1>1, <1>2, <2>1, <2>2, <2>3, FeedingLoads
<1>4. CASE HandleTouchEnd
  <2>1. feed' = Feeding(Len(pages), <<>>) BY <1>4 DEF HandleTouchEnd, Feed
  <2>2. Covers(<<>>, since, Len(entries))
        BY CoversNone DEF ActivityInv, Loaded, ListsTypeOK
  <2>3. <<>> \in PageLists BY DEF PageLists
  <2>4. PICK goal : goal = Len(pages) OBVIOUS
  <2>5. QED BY <1>1, <1>2, <2>1, <2>2, <2>3, <2>4, FeedingLoads
<1>5. QED BY <1>3, <1>4

\* The two reads of an answer, in either order.
LEMMA ActivityRead ==
    ASSUME ListsTypeOK, ActivityInv, CountEntries \/ FindEntries
    PROVE  ActivityInv'
<1>1. /\ feed.at = "asked" /\ screen = "activity"
      /\ UNCHANGED <<screen, entries, pages, more, since, mishaps>>
      BY DEF CountEntries, FindEntries, Feed
<1>2. Loaded' BY <1>1 DEF ActivityInv, Loaded
<1>3. DOMAIN feed = {"at", "goal", "got", "rows", "total", "first"} BY DEF ActivityInv, FeedOK
<1>4. Len(entries) \in Nat BY DEF ListsTypeOK
<1>5. PICK n \in Nat : n = Len(entries) BY <1>4
<1>6. /\ feed.got \in PageLists /\ feed.first \in 0 .. n
      /\ feed.total \in Nat \cup {Unread} /\ feed.goal \in Nat
      BY <1>1, <1>5 DEF ActivityInv, Loading
<1>7. CASE CountEntries
  <2>1. feed' = [feed EXCEPT !.total = n] BY <1>5, <1>7 DEF CountEntries, Feed
  <2>2. /\ feed'.at = "asked" /\ feed'.goal = feed.goal /\ feed'.got = feed.got
        /\ feed'.rows = feed.rows /\ feed'.total = n /\ feed'.first = feed.first
        /\ DOMAIN feed' = DOMAIN feed
        BY <1>1, <1>3, <2>1
  <2>3. Loading' BY <1>1, <1>5, <1>6, <2>2 DEF ActivityInv, Loading, Covers
  <2>4. FeedOK' BY <1>3, <2>2 DEF FeedOK
  <2>5. QED BY <1>1, <1>2, <2>3, <2>4 DEF ActivityInv
<1>8. CASE FindEntries
  <2>1. PICK rows, first :
            /\ rows = RowsOf(Len(feed.got) + 1)
            /\ first = (IF feed.got = <<>> THEN n ELSE feed.first)
            /\ feed' = [feed EXCEPT !.rows = rows, !.first = first]
        BY <1>5, <1>8 DEF FindEntries, Feed
  <2>2. /\ feed'.at = "asked" /\ feed'.goal = feed.goal /\ feed'.got = feed.got
        /\ feed'.rows = rows /\ feed'.total = feed.total /\ feed'.first = first
        /\ DOMAIN feed' = DOMAIN feed
        BY <1>1, <1>3, <2>1
  <2>3. feed.rows = None BY <1>8 DEF FindEntries
  <2>4. PICK got \in PageLists : got = feed.got BY <1>6
  <2>5. first \in 0 .. n /\ Covers(got, first, n)
    <3>1. CASE got = <<>> BY <1>5, <2>1, <2>4, <3>1, CoversNone
    <3>2. CASE got # <<>>
          BY <1>1, <1>5, <1>6, <2>1, <2>3, <2>4, <3>2 DEF ActivityInv, Loading
    <3>3. QED BY <3>1, <3>2
  <2>6. rows \in SUBSET Int /\ Covers(Append(got, rows), first, n)
        BY <1>5, <2>1, <2>4, <2>5, CoversMore
  <2>7. feed.total \in {Unread, n} \/ "torn" \in mishaps
        BY <1>1, <1>5, <2>3 DEF ActivityInv, Loading
  <2>8. Loading'
    <3> SUFFICES /\ rows = None => Covers(got, first, n)
                 /\ rows # None =>
                       feed.total = Unread \/ "torn" \in mishaps \/ Covers(Append(got, rows), first, feed.total)
        BY <1>1, <1>5, <1>6, <2>2, <2>4, <2>5, <2>6, <2>7 DEF Loading, Covers
    <3>1. QED BY <2>5, <2>6, <2>7
  <2>9. FeedOK' BY <1>3, <2>2 DEF FeedOK
  <2>10. QED BY <1>1, <1>2, <2>8, <2>9 DEF ActivityInv
<1>9. QED BY <1>7, <1>8

\* A page joins those loaded, and with the last of them the list is new.
LEMMA ActivityLoaded ==
    ASSUME ListsTypeOK, ActivityInv, TakePage \/ FeedFails
    PROVE  ActivityInv' /\ since' \in 0 .. MaxEntries /\ more' \in BOOLEAN
<1>1. feed.at = "asked" /\ screen = "activity" /\ UNCHANGED <<screen, entries, mishaps>>
      BY DEF TakePage, FeedFails, Feed
<1>2. NoFeed.at = "idle" /\ DOMAIN NoFeed = {"at", "goal", "got", "rows", "total", "first"}
      BY DEF NoFeed
<1>3. since \in 0 .. MaxEntries /\ more \in BOOLEAN BY DEF ListsTypeOK
<1>4. CASE FeedFails
  <2>1. feed' = NoFeed /\ UNCHANGED <<pages, more, since>> BY <1>4 DEF FeedFails, Feed
  <2>2. Loaded' BY <1>1, <2>1 DEF ActivityInv, Loaded
  <2>3. QED BY <1>1, <1>2, <1>3, <2>1, <2>2 DEF ActivityInv, FeedOK, Loading
<1>5. CASE TakePage
  <2>1. feed.total # Unread /\ feed.rows # None BY <1>5 DEF TakePage
  <2>2. PICK got, next :
            /\ got = Append(feed.got, feed.rows) /\ next = HasNext(Len(got), feed.total)
            /\ IF next /\ Len(got) < feed.goal
               THEN /\ feed' = [feed EXCEPT !.got = got, !.rows = None, !.total = Unread]
                    /\ UNCHANGED <<pages, more, since>>
               ELSE feed' = NoFeed /\ pages' = got /\ more' = next /\ since' = feed.first
        BY <1>5 DEF TakePage, Feed
  <2>3. /\ feed.got \in PageLists /\ feed.first \in 0 .. Len(entries) /\ feed.total \in Nat
        /\ feed.goal \in Nat /\ feed.rows \in SUBSET Int
        /\ Covers(got, feed.first, Len(entries))
        /\ "torn" \in mishaps \/ Covers(got, feed.first, feed.total)
        BY <1>1, <2>1, <2>2 DEF ActivityInv, Loading
  <2>4. got \in PageLists /\ got # <<>> BY <2>2, <2>3 DEF PageLists
  <2>5. next \in BOOLEAN BY <2>2 DEF HasNext
  <2>6. DOMAIN feed = {"at", "goal", "got", "rows", "total", "first"} BY DEF ActivityInv, FeedOK
  <2>7. CASE next /\ Len(got) < feed.goal
    <3>1. feed' = [feed EXCEPT !.got = got, !.rows = None, !.total = Unread] BY <2>2, <2>7
    <3>2. UNCHANGED <<pages, more, since>> BY <2>2, <2>7
    <3>3. /\ feed'.at = "asked" /\ feed'.goal = feed.goal /\ feed'.got = got /\ feed'.rows = None
          /\ feed'.total = Unread /\ feed'.first = feed.first /\ DOMAIN feed' = DOMAIN feed
          BY <1>1, <2>6, <3>1
    <3>4. Loading' BY <1>1, <2>3, <2>4, <3>3 DEF Loading, Covers
    <3>5. Loaded' BY <1>1, <3>2 DEF ActivityInv, Loaded
    <3>6. QED BY <1>1, <1>3, <2>6, <3>2, <3>3, <3>4, <3>5 DEF ActivityInv, FeedOK
  <2>8. CASE ~(next /\ Len(got) < feed.goal)
    <3>1. feed' = NoFeed /\ pages' = got /\ more' = next /\ since' = feed.first BY <2>2, <2>8
    <3>2. PICK first \in Nat : first = feed.first /\ first <= Len(entries)
          BY <2>3 DEF ListsTypeOK
    <3>3. ASSUME ~next, "torn" \notin mishaps
          PROVE  \A i \in 1 .. first : \E k \in DOMAIN got : i \in got[k]
      <4>1. ~HasNext(Len(got), feed.total) BY <2>2, <3>3
      <4>2. PICK total \in Nat : total = feed.total BY <2>3
      <4>3. QED BY <2>3, <2>4, <3>2, <3>3, <4>1, <4>2, CoversAll
    <3>4. Loaded' BY <1>1, <2>3, <2>4, <3>1, <3>2, <3>3 DEF Loaded, Covers
    <3>5. since' \in 0 .. MaxEntries BY <3>1, <3>2, ListingsAssumption DEF ListsTypeOK
    <3>6. QED BY <1>1, <1>2, <2>5, <3>1, <3>4, <3>5 DEF ActivityInv, FeedOK, Loading
  <2>9. QED BY <2>7, <2>8
<1>6. QED BY <1>4, <1>5

-----------------------------------------------------------------------------
(* Together *)

\* A screen opens with its list asked for, or its history.
LEMMA ListsAtFirst ==
    ASSUME ListsInit
    PROVE  ListsInv /\ ActivityInv
<1>1. First(All) \in Query /\ First(All).filter = All /\ First(All).page = 1
      BY FirstIsQuery DEF Filters
<1>2. /\ screen \in Screens /\ box = All /\ typing = (screen = "customers")
      /\ query = First(All) /\ data = [q \in Query |-> None] /\ failed = {}
      /\ place = "unknown" /\ pages = <<>> /\ more = FALSE /\ since = 0 /\ mishaps = {}
      BY DEF ListsInit
<1>3. entries \in Seq(Kinds) /\ Len(entries) <= MaxEntries
  <2>1. PICK n \in 0 .. MaxEntries : entries \in [1 .. n -> Kinds] BY DEF ListsInit, SeqOf
  <2>2. QED BY <2>1, ListingsAssumption
<1>4. \A s \in Reads : /\ reads[s] \in AskedCall /\ reads[s].query = First(All)
                       /\ OnItsWay(s) => reads[s].last
  <2>1. Unsent \in AskedCall /\ Unsent.at = "unused" /\ Unsent.query = First(All)
        BY <1>1 DEF Unsent, AskedCall
  <2>2. [Unsent EXCEPT !.at = "sent", !.last = TRUE] \in AskedCall
        /\ [Unsent EXCEPT !.at = "sent", !.last = TRUE].query = First(All)
        /\ [Unsent EXCEPT !.at = "sent", !.last = TRUE].last
        BY <2>1 DEF AskedCall
  <2>3. \A s \in Reads : reads[s] \in {Unsent, [Unsent EXCEPT !.at = "sent", !.last = TRUE]}
        BY DEF ListsInit
  <2>4. QED BY <2>1, <2>2, <2>3 DEF OnItsWay
<1>5. reads \in [Reads -> AskedCall] BY <1>4 DEF ListsInit
<1>6. ListsTypeOK
  <2>1. box \in Filters /\ typing \in BOOLEAN /\ since \in 0 .. MaxEntries
        BY <1>2, ListingsAssumption DEF Filters
  <2>2. QED BY <1>1, <1>2, <1>3, <1>5, <2>1 DEF ListsTypeOK, AskedCall
<1>7. KeptAnswers BY <1>2 DEF KeptAnswers
<1>8. OwnLists
  <2> SUFFICES ASSUME screen \in Own PROVE \E s \in Awaited : TRUE
      BY <1>2, <1>4 DEF OwnLists, Awaited
  <2>1. Cardinality({s \in Reads : OnItsWay(s)}) = 1 BY DEF ListsInit, Own
  <2>2. {s \in Reads : OnItsWay(s)} # {} BY <2>1, FS_EmptySet
  <2>3. QED BY <1>4, <2>2 DEF Awaited, Accepts
<1>9. AsChosen /\ PageExists BY <1>1, <1>2 DEF AsChosen, PageExists
<1>10. ListsInv BY <1>2, <1>6, <1>7, <1>8, <1>9 DEF ListsInv
<1>11. /\ DOMAIN NoFeed = {"at", "goal", "got", "rows", "total", "first"} /\ NoFeed.at = "idle"
       /\ NoFeed.got = <<>> /\ NoFeed.rows = None /\ NoFeed.total = Unread /\ NoFeed.first = 0
       BY DEF NoFeed
<1>12. Loaded BY <1>2, <1>3, ListingsAssumption DEF Loaded, PageLists, Covers
<1>13. CASE screen = "activity"
  <2>1. feed = [NoFeed EXCEPT !.at = "asked", !.goal = 1] BY <1>13 DEF ListsInit
  <2>2. /\ DOMAIN feed = DOMAIN NoFeed /\ feed.at = "asked" /\ feed.goal = 1
        /\ feed.got = <<>> /\ feed.rows = None /\ feed.total = Unread /\ feed.first = 0
        BY <1>11, <2>1
  <2>3. Loading
    <3>1. <<>> \in PageLists /\ Covers(<<>>, 0, Len(entries))
          BY <1>3, CoversNone DEF PageLists
    <3>2. QED BY <1>3, <2>2, <3>1 DEF Loading
  <2>4. FeedOK BY <1>11, <2>2 DEF FeedOK
  <2>5. QED BY <1>10, <1>12, <1>13, <2>3, <2>4 DEF ActivityInv
<1>14. CASE screen # "activity"
  <2>1. feed = NoFeed BY <1>14 DEF ListsInit
  <2>2. FeedOK /\ Loading BY <1>11, <2>1 DEF FeedOK, Loading
  <2>3. QED BY <1>2, <1>10, <1>12, <2>1, <2>2 DEF ActivityInv
<1>15. QED BY <1>10, <1>13, <1>14

LEMMA ListsStep ==
    ASSUME ListsInv, ActivityInv, ListsNext
    PROVE  ListsInv' /\ ActivityInv'
<1> DEFINE Typed == (\E f \in Filters : HandleQueryChange(f)) \/ Debounce \/ DoSearch
           PagedOn == NextPage \/ PreviousPage
           ReadAgain == Refresh \/ OnRefresh \/ Locate
           Sifted == (\E f \in Filters : Sift(f)) \/ ToggleNearMe
           History == FetchNextPage \/ HandleTouchEnd \/ CountEntries \/ FindEntries \/ TakePage \/ FeedFails
<1>1. ListsTypeOK BY DEF ListsInv
<1>2. ASSUME NEW f \in Filters,
             SetFilter(f) \/ SelectLocation(f) \/ SetCustomerFilter(f) \/ SetSelectedMerchant(f)
      PROVE  ListsInv' /\ ActivityInv'
  <2>1. UNCHANGED <<screen, entries, activity, mishaps>>
        BY <1>2 DEF SetFilter, SelectLocation, SetCustomerFilter, SetSelectedMerchant, Chosen, Asks
  <2>2. QED BY <1>2, <2>1, ListsChosen, ActivityStands
<1>3. CASE Typed
  <2>1. UNCHANGED <<screen, entries, activity>> /\ mishaps \subseteq mishaps'
        BY <1>3 DEF HandleQueryChange, Debounce, DoSearch, Asks
  <2>2. QED BY <1>3, <2>1, ListsTyped, ActivityStands
<1>4. CASE PagedOn
  <2>1. UNCHANGED <<screen, entries, activity, mishaps>>
        BY <1>4 DEF NextPage, PreviousPage, Turn, Asks
  <2>2. QED BY <1>4, <2>1, ListsTurned, ActivityStands
<1>5. CASE ReadAgain
  <2>1. UNCHANGED <<screen, entries, activity>> /\ mishaps \subseteq mishaps'
        BY <1>5 DEF Refresh, OnRefresh, Locate, Again
  <2>2. QED BY <1>5, <2>1, ListsReadAgain, ActivityStands
<1>6. CASE Sifted
  <2>1. UNCHANGED <<screen, entries, activity, mishaps>>
        BY <1>6 DEF Sift, ToggleNearMe
  <2>2. QED BY <1>6, <2>1, ListsSifted, ActivityStands
<1>7. ASSUME NEW k \in Kinds, Post(k) PROVE ListsInv' /\ ActivityInv'
      BY <1>1, <1>7, ListsPosted, ActivityPosted
<1>8. CASE Leave
  <2>1. screen # "activity" /\ UNCHANGED <<screen, activity>> BY <1>8 DEF Leave, Paged
  <2>2. ListsInv' BY <1>8, ListsLeft
  <2>3. QED BY <2>1, <2>2, ActivityElsewhere DEF ListsInv
<1>9. ASSUME NEW s \in Reads, Take(s) \/ ReadFails(s) PROVE ListsInv' /\ ActivityInv'
  <2>1. UNCHANGED <<screen, entries, activity>> /\ mishaps \subseteq mishaps' BY <1>9 DEF Take, ReadFails
  <2>2. QED BY <1>9, <2>1, ListsAnswered, ListsRefused, ActivityStands
<1>10. CASE History
  <2>1. /\ UNCHANGED <<screen, entries, box, typing, asking, shown, place, mishaps>>
        BY <1>10 DEF FetchNextPage, HandleTouchEnd, CountEntries, FindEntries, TakePage, FeedFails, Feed
  <2>2. ActivityInv' /\ since' \in 0 .. MaxEntries /\ more' \in BOOLEAN
    <3>1. CASE TakePage \/ FeedFails BY <1>1, <3>1, ActivityLoaded
    <3>2. CASE FetchNextPage \/ HandleTouchEnd \/ CountEntries \/ FindEntries
      <4>1. UNCHANGED <<more, since>>
            BY <3>2 DEF FetchNextPage, HandleTouchEnd, CountEntries, FindEntries
      <4>2. QED BY <1>1, <3>2, <4>1, ActivityAsked, ActivityRead DEF ListsTypeOK
    <3>3. QED BY <1>10, <3>1, <3>2
  <2>3. QED BY <1>1, <2>1, <2>2, ListsStand DEF ListsInv, ListsTypeOK, Troubles, shown, AsChosen
<1>11. QED BY <1>2, <1>3, <1>4, <1>5, <1>6, <1>7, <1>8, <1>9, <1>10 DEF ListsNext, Person

LEMMA ListsIdle ==
    ASSUME ListsInv, ActivityInv, UNCHANGED listsVars
    PROVE  ListsInv' /\ ActivityInv'
<1>1. ListsInv' BY ListsStand DEF ListsInv, ListsTypeOK, AsChosen, Troubles, listsVars, asking, shown, activity
<1>2. ActivityInv' BY ActivityStands DEF listsVars
<1>3. QED BY <1>1, <1>2

\* Both invariants hold of any screen, with any number of requests under way,
\* any size of a page and any number of entries.
THEOREM ListsInvariance == ListsSpec => [](ListsInv /\ ActivityInv)
<1>1. ListsInit => ListsInv /\ ActivityInv BY ListsAtFirst
<1>2. ListsInv /\ ActivityInv /\ [ListsNext]_listsVars => (ListsInv /\ ActivityInv)'
      BY ListsStep, ListsIdle
<1>3. QED BY <1>1, <1>2, PTL DEF ListsSpec

\* The types of the lists, of requests and of what is loaded.
THEOREM ListsTyping == ListsSpec => []ListsTypeOK
<1>1. ListsInv => ListsTypeOK BY DEF ListsInv
<1>2. QED BY <1>1, ListsInvariance, PTL

\* Rows on a screen are the answer to what it asks for, in whatever order
\* answers come: kept by query, or with every answer to an older one over.
THEOREM RowsAnswerTheQuery == ListsSpec => []RowsAreAsAsked
<1>1. ListsInv => RowsAreAsAsked
  <2> SUFFICES ASSUME ListsInv PROVE RowsAreAsAsked OBVIOUS
  <2>1. ASSUME screen \in Keyed, Known # None PROVE Known.of = query
        BY <2>1 DEF ListsInv, KeptAnswers, ListsTypeOK, Known, KeyOf
  <2>2. ASSUME Idle, screen \in Own, mishaps = {} PROVE Known.of = query
        BY <2>2 DEF ListsInv, OwnLists, Awaited, Idle
  <2>3. ASSUME ~typing, screen \notin Local PROVE query.filter = box
        BY <2>3 DEF ListsInv, AsChosen
  <2>4. QED BY <2>1, <2>2, <2>3 DEF RowsAreAsAsked
<1>2. QED BY <1>1, ListsInvariance, PTL

\* A paged list stands at a page it has, unless accounts are deleted.
THEOREM PagesExist == ListsSpec => []PageExists
<1>1. ListsInv => PageExists BY DEF ListsInv
<1>2. QED BY <1>1, ListsInvariance, PTL

\* A history loaded to its end has every entry of the start, unless one is
\* posted between the two reads of one answer.
THEOREM HistoryIsWhole == ListsSpec => []NothingSkipped
<1>1. ActivityInv => NothingSkipped BY DEF ActivityInv, Loaded, NothingSkipped
<1>2. QED BY <1>1, ListsInvariance, PTL
=============================================================================
