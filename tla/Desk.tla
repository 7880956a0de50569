--------------------------------- MODULE Desk ---------------------------------
(***************************************************************************)
(* The pages of the two dashboards: what a page keeps of the server's rows *)
(* (a query cache, or a list of its own), the requests its buttons send,   *)
(* and the dialogs that are open while answers arrive.  `page' says which  *)
(* page a behaviour is about: the merchant's Settings, Rewards, Staff,     *)
(* Customers, Transactions and Scan pages; the administrator's Merchants   *)
(* and MerchantDetail.  A behaviour begins when the page has loaded, and   *)
(* the person stays on it; its filters and pages are in Listings.          *)
(*                                                                         *)
(* One action is a gesture, the server's work on a request, or an answer   *)
(* with all that its handlers do.  The server may refuse a request, and    *)
(* any answer may be lost.                                                 *)
(***************************************************************************)
EXTENDS Integers, FiniteSets

CONSTANTS
    Slots,      \* names of the requests that may be made in a behaviour
    Entries,    \* the rows of a list: rewards, members, customers, merchants
    Vals,       \* what a row may hold: two versions of it
    Pages,      \* the pages to look at
    Nothing

Fields == {"profile", "logo", "rate"}  \* the parts of the merchant's settings
Rows == Entries \cup Fields
Keys == {"list", "merchant"}           \* query keys: the page's list, the settings
Contents == Vals \cup {Nothing}        \* Nothing: there is no such row
Tables == [Rows -> Contents]

Hooks == {"updateSettings", "createReward", "updateReward", "deleteReward",
          "updateStaff", "adjust", "scan", "toggle"}
Lists == {"rewards", "staff", "customers", "transactions", "merchants", "detail"}
AllPages == Lists \cup {"settings", "rate", "scan"}
Intent == [hook: Hooks, row: Rows \cup Vals \cup {Nothing}]

ASSUME DeskAssumption ==
    /\ Pages \subseteq AllPages /\ Pages # {} /\ Cardinality(Vals) = 2
    /\ Nothing \notin Slots \cup Rows \cup Vals /\ Entries \cap Fields = {}

VARIABLES
    page,
    server,      \* the rows as the server has them
    cache,       \* the rows as the page has them
    fetch,       \* of each key: the reload under way, and what it has read
    calls,       \* the requests
    dialog,      \* the page's dialog, the row it edits, the row to delete
    compressing, \* a logo is being made smaller
    entry,       \* the form of the Scan page
    meant,       \* history: what the person opened the dialog for
    trouble      \* history: keys with a lost answer or overlapping toggles

vars == <<page, server, cache, fetch, calls, dialog, compressing, entry, meant, trouble>>
form == <<dialog, compressing, entry, meant>>

-----------------------------------------------------------------------------
(* Keys, rows and reloads *)

Key(r) == IF r \in Fields THEN "merchant" ELSE "list"
At(k) == {r \in Rows : Key(r) = k}
NoRows == [r \in Rows |-> Nothing]
NoFetch == [at |-> "idle", rows |-> NoRows]
Asked == [at |-> "asked", rows |-> NoRows]

(* A reload has read the server and its answer is on its way. *)
ReadList ==
    \E k \in Keys :
        /\ fetch[k].at = "asked"
        /\ fetch' = [fetch EXCEPT ![k] = [at |-> "read", rows |-> server]]
        /\ UNCHANGED <<page, server, cache, calls, form, trouble>>

TakeList ==
    \E k \in Keys :
        /\ fetch[k].at = "read"
        /\ cache' = [r \in Rows |-> IF Key(r) = k THEN fetch[k].rows[r] ELSE cache[r]]
        /\ fetch' = [fetch EXCEPT ![k] = NoFetch]
        /\ UNCHANGED <<page, server, calls, form, trouble>>

(* The reload and its one retry have failed: the rows stay as they are. *)
FetchFails ==
    \E k \in Keys :
        /\ fetch[k].at # "idle"
        /\ fetch' = [fetch EXCEPT ![k] = NoFetch]
        /\ trouble' = trouble \cup {k}
        /\ UNCHANGED <<page, server, cache, calls, form>>

-----------------------------------------------------------------------------
(* Requests *)

Unused == [at |-> "unused", hook |-> "scan", row |-> Nothing, val |-> Nothing,
           undo |-> NoRows, last |-> FALSE, meant |-> Nothing, spent |-> FALSE]
UnderWay(s) == calls[s].at \in {"sent", "done", "refused", "stuck"}
Pending(hook) == \E s \in Slots : UnderWay(s) /\ calls[s].hook = hook /\ calls[s].last

(* The hooks that show their change before the server has answered. *)
Optimistic == {"updateSettings", "updateReward"}

Place(s, c) ==
    calls' = [t \in Slots |->
                IF t = s THEN c
                ELSE IF calls[t].hook = c.hook THEN [calls[t] EXCEPT !.last = FALSE]
                ELSE calls[t]]

(* onMutate: a reload under way is dropped, the rows are copied and the    *)
(* row that will change is changed at once.                                *)
OnMutate(hook, row, val) ==
    IF hook \in Optimistic
    THEN /\ fetch' = [fetch EXCEPT ![Key(row)] = NoFetch]
         /\ cache' = IF cache[row] = Nothing THEN cache ELSE [cache EXCEPT ![row] = val]
    ELSE UNCHANGED <<fetch, cache>>

Mutate(s, hook, row, val, m) ==
    /\ calls[s].at = "unused"
    /\ Place(s, [Unused EXCEPT !.at = "sent", !.hook = hook, !.row = row, !.val = val,
                               !.undo = IF hook \in Optimistic THEN cache ELSE NoRows,
                               !.last = TRUE, !.meant = m])
    /\ OnMutate(hook, row, val)
    /\ UNCHANGED <<page, server>>

AsMeant(hook, row) == [hook |-> hook, row |-> row]

-----------------------------------------------------------------------------
(* Settings *)

OnSubmitProfile(s) ==
    /\ page = "settings" /\ ~Pending("updateSettings")
    /\ \E v \in Vals :
          Mutate(s, "updateSettings", "profile", v, AsMeant("updateSettings", "profile"))
    /\ UNCHANGED <<form, trouble>>

PickLogo ==
    /\ page = "settings" /\ ~compressing /\ ~Pending("updateSettings")
    /\ compressing' = TRUE
    /\ UNCHANGED <<page, server, cache, fetch, calls, dialog, entry, meant, trouble>>

(* The picture is ready, whatever has been sent meanwhile. *)
LogoReady(s) ==
    /\ compressing /\ compressing' = FALSE
    /\ \E v \in Vals :
          Mutate(s, "updateSettings", "logo", v, AsMeant("updateSettings", "logo"))
    /\ UNCHANGED <<dialog, entry, meant, trouble>>

LogoFails ==
    /\ compressing /\ compressing' = FALSE
    /\ UNCHANGED <<page, server, cache, fetch, calls, dialog, entry, meant, trouble>>

-----------------------------------------------------------------------------
(* Dialogs.  A dialog that has been closed is on the screen, and works, for *)
(* the 200 ms in which it fades; it covers the page.                        *)

NoDialog == [shown |-> "no", editing |-> Nothing, doomed |-> Nothing]
Free == dialog.shown = "no" /\ dialog.doomed = Nothing
OnScreen == dialog.shown \in {"open", "fading"}
Listed == {e \in Entries : cache[e] # Nothing}

Shut(d) == IF d.shown = "open" THEN [d EXCEPT !.shown = "fading"] ELSE d
Forget(d) == [Shut(d) EXCEPT !.editing = Nothing]

Dialog(d, m) ==
    /\ dialog' = d /\ meant' = m
    /\ UNCHANGED <<page, server, cache, fetch, calls, compressing, entry, trouble>>

FadeOut == dialog.shown = "fading" /\ Dialog([dialog EXCEPT !.shown = "no"], meant)

(* Sends what is in the dialog. *)
Submit(s, hook, row, val, m) ==
    /\ Mutate(s, hook, row, val, m)
    /\ UNCHANGED <<form, trouble>>

-----------------------------------------------------------------------------
(* Rewards *)

(* The card above the list of rewards: it shares nothing with the list. *)
HandleSaveRate(s) ==
    /\ page = "rate" /\ Free /\ ~Pending("updateSettings")
    /\ \E v \in Vals : Submit(s, "updateSettings", "rate", v, AsMeant("updateSettings", "rate"))

HandleEdit(e) ==
    /\ page = "rewards" /\ Free /\ e \in Listed
    /\ Dialog([dialog EXCEPT !.shown = "open", !.editing = e], AsMeant("updateReward", e))

(* Slip: the reward edited last is left in editingReward. *)
Blank_Edited(d) == [d EXCEPT !.shown = "open"]
Blank(d) == [d EXCEPT !.shown = "open", !.editing = Nothing]

OpenCreate ==
    /\ page = "rewards" /\ Free
    /\ Dialog(Blank(dialog), AsMeant("createReward", Nothing))

CloseDialog == page = "rewards" /\ dialog.shown = "open" /\ Dialog(Forget(dialog), meant)

(* One form for both: editingReward says what is sent.  What is sent while *)
(* the dialog fades, its editingReward gone, is sent by mistake.           *)
OnSubmitReward(s) ==
    /\ page = "rewards" /\ OnScreen /\ ~Pending("createReward") /\ ~Pending("updateReward")
    /\ LET hook == IF dialog.editing # Nothing THEN "updateReward" ELSE "createReward"
           m == IF dialog.shown = "open" THEN meant ELSE AsMeant(hook, dialog.editing)
       IN  \E v \in Vals : Submit(s, hook, dialog.editing, v, m)

HandleDelete(e) ==
    /\ page = "rewards" /\ Free /\ e \in Listed
    /\ Dialog([dialog EXCEPT !.doomed = e], AsMeant("deleteReward", e))

CancelDelete == dialog.doomed # Nothing /\ Dialog([dialog EXCEPT !.doomed = Nothing], meant)

ConfirmDeleteReward(s) ==
    /\ dialog.doomed # Nothing /\ ~Pending("deleteReward")
    /\ Submit(s, "deleteReward", dialog.doomed, Nothing, meant)

-----------------------------------------------------------------------------
(* Staff, Customers and Transactions *)

OpenStaffEdit(e) ==
    /\ page = "staff" /\ Free /\ e \in Listed
    /\ Dialog([dialog EXCEPT !.shown = "open", !.editing = e], AsMeant("updateStaff", e))

(* A click beside the dialog closes it and no more. *)
CloseStaffEdit ==
    /\ page = "staff" /\ dialog.shown = "open"
    /\ \E d \in {Shut(dialog), Forget(dialog)} : Dialog(d, meant)

OnSubmitStaffEdit(s) ==
    /\ page = "staff" /\ OnScreen /\ dialog.editing # Nothing /\ ~Pending("updateStaff")
    /\ \E v \in Vals : Submit(s, "updateStaff", dialog.editing, v, meant)

HandleRowClick(e) ==
    /\ page = "customers" /\ Free /\ e \in Listed
    /\ Dialog([dialog EXCEPT !.shown = "open", !.editing = e], AsMeant("adjust", e))

CloseDetail == page = "customers" /\ dialog.shown = "open" /\ Dialog(Shut(dialog), meant)

HandleAdjust(s) ==
    /\ page = "customers" /\ OnScreen /\ ~Pending("adjust")
    /\ \E v \in Vals : Submit(s, "adjust", dialog.editing, v, meant)

OpenAdjust(e) ==
    /\ page = "transactions" /\ Free /\ e \in Listed
    /\ Dialog([dialog EXCEPT !.shown = "open", !.editing = e], AsMeant("adjust", e))

CloseAdjust == page = "transactions" /\ dialog.shown = "open" /\ Dialog(Shut(dialog), meant)

HandleRowAdjust(s) ==
    /\ page = "transactions" /\ OnScreen /\ ~Pending("adjust")
    /\ \E v \in Vals : Submit(s, "adjust", dialog.editing, v, meant)

-----------------------------------------------------------------------------
(* Scan.  History: what was sent is `given', and `spent' once it succeeded. *)

Blanks == {"code", "amount", "reward", "stampReward"}
NoEntry == [action |-> "points", boxes |-> [b \in Blanks |-> "none"]]
Filled(b) == entry.boxes[b] # "none"

Entry(e) ==
    /\ page = "scan" /\ entry' = e
    /\ UNCHANGED <<page, server, cache, fetch, calls, dialog, compressing, meant, trouble>>
Emptied(boxes, bs) == [b \in Blanks |-> IF b \in bs THEN "none" ELSE boxes[b]]

ChooseAction ==
    \E a \in {"points", "stamp", "redeem"} :
        Entry([action |-> a,
               boxes |-> Emptied(entry.boxes, CASE a = "points" -> {"reward"}
                                                [] a = "stamp"  -> {"reward", "stampReward"}
                                                [] OTHER        -> {"amount"})])
Offered == {"code"} \cup (CASE entry.action = "points" -> {"amount"}
                             [] entry.action = "stamp"  -> {"amount", "stampReward"}
                             [] OTHER                   -> {"reward"})
FillIn == \E b \in Offered \ {"code"} : Entry([entry EXCEPT !.boxes[b] = "fresh"])
ScanCode == Entry([entry EXCEPT !.boxes["code"] = "fresh"])
DropCode == Entry([entry EXCEPT !.boxes["code"] = "none"])

Sendable ==
    /\ Filled("code") /\ ~Pending("scan")
    /\ entry.action = "points" => Filled("amount")
    /\ entry.action = "stamp"  => Filled("stampReward")
    /\ entry.action = "redeem" => Filled("reward")

HandleScan(s) ==
    /\ page = "scan" /\ Sendable /\ calls[s].at = "unused"
    /\ Place(s, [Unused EXCEPT !.at = "sent", !.hook = "scan", !.last = TRUE,
                               !.meant = AsMeant("scan", Nothing),
                               !.spent = \E b \in Offered : entry.boxes[b] = "spent"])
    /\ entry' = [entry EXCEPT !.boxes = [b \in Blanks |->
                    IF b \in Offered /\ @[b] = "fresh" THEN "given" ELSE @[b]]]
    /\ UNCHANGED <<page, server, cache, fetch, dialog, compressing, meant, trouble>>

Spent(boxes) == [b \in Blanks |-> IF boxes[b] = "given" THEN "spent" ELSE boxes[b]]
ScanSucceeds == [entry EXCEPT !.boxes = Emptied(Spent(@), Blanks)]

-----------------------------------------------------------------------------
(* The administrator's pages *)

Toggled(v) == CHOOSE w \in Vals : w # v

(* The list: each merchant has a menu, and nothing closes it to a second   *)
(* click while the first is under way.  What is sent is what the row       *)
(* shows; what the answer does is turn the row over.                       *)
HandleToggleStatus(s, e) ==
    /\ page = "merchants" /\ e \in Listed
    /\ Mutate(s, "toggle", e, Toggled(cache[e]), AsMeant("toggle", e))
    /\ trouble' = IF \E t \in Slots : calls[t].at \in {"sent", "done"} /\ calls[t].row = e
                  THEN trouble \cup {"list"} ELSE trouble
    /\ UNCHANGED form

(* One merchant: its button waits for the answer, for ever if it fails. *)
HandleToggle(s) ==
    /\ page = "detail" /\ ~Pending("toggle")
    /\ Submit(s, "toggle", "profile", Toggled(cache["profile"]), AsMeant("toggle", "profile"))

-----------------------------------------------------------------------------
(* The server *)

Apply(c) ==
    CASE c.hook \in {"createReward", "scan"} ->
           \E e \in Entries, v \in Vals :
               /\ server[e] = Nothing
               /\ c.hook = "createReward" => v = c.val
               /\ server' = [server EXCEPT ![e] = v]
      [] OTHER -> server[c.row] # Nothing /\ server' = [server EXCEPT ![c.row] = c.val]

Serve(s) ==
    /\ calls[s].at = "sent"
    /\ Apply(calls[s])
    /\ calls' = [calls EXCEPT ![s].at = "done"]
    /\ UNCHANGED <<page, cache, fetch, form, trouble>>

Refuse(s) ==
    /\ calls[s].at = "sent"
    /\ calls' = [calls EXCEPT ![s].at = "refused"]
    /\ UNCHANGED <<page, server, cache, fetch, form, trouble>>

-----------------------------------------------------------------------------
(* Answers *)

Over == [Unused EXCEPT !.at = "over"]
CallKey(c) == IF c.row \in Rows THEN Key(c.row) ELSE "list"

(* The lists that are read again, whatever an earlier reload will bring.   *)
(* An adjustment reloads the customers, not the list of transactions.      *)
Invalidate(c) ==
    IF c.hook = "toggle" \/ page = "transactions" THEN fetch ELSE [fetch EXCEPT ![CallKey(c)] = Asked]

(* What the page's own onSuccess does; a page forgets the one of a request *)
(* when the same hook has made another since.                              *)
RewardCreated(d) == Shut(d)
RewardUpdated(d) == Forget(d)
RewardDeleted(d) == [d EXCEPT !.doomed = Nothing]
StaffUpdated(d) == Forget(d)
PageSucceeds(c) ==
    IF ~c.last THEN dialog
    ELSE CASE c.hook = "createReward" -> RewardCreated(dialog)
           [] c.hook = "updateReward" -> RewardUpdated(dialog)
           [] c.hook = "deleteReward" -> RewardDeleted(dialog)
           [] c.hook = "updateStaff"  -> StaffUpdated(dialog)
           [] OTHER -> dialog

Succeed(s) ==
    /\ calls[s].at = "done"
    /\ LET c == calls[s]
       IN  /\ cache' = IF c.hook = "toggle" THEN [cache EXCEPT ![c.row] = Toggled(@)] ELSE cache
           /\ fetch' = Invalidate(c)
           /\ dialog' = PageSucceeds(c)
           /\ entry' = IF c.hook = "scan" THEN ScanSucceeds ELSE entry
    /\ calls' = [calls EXCEPT ![s] = Over]
    /\ UNCHANGED <<page, server, compressing, meant, trouble>>

(* onError puts the copy back, over whatever has happened since. *)
RollBack(c) ==
    IF c.hook \in Optimistic
    THEN [r \in Rows |-> IF Key(r) = CallKey(c) THEN c.undo[r] ELSE cache[r]]
    ELSE cache

(* Slip: the rows are only read again after a success. *)
Settle_OnSuccess(c) == fetch
Settle(c) == IF c.hook \in Optimistic THEN Invalidate(c) ELSE fetch

(* A refusal, or the loss of an answer. *)
Fail(s) ==
    /\ calls[s].at \in {"done", "refused"}
    /\ LET c == calls[s]
       IN  /\ cache' = RollBack(c)
           /\ fetch' = Settle(c)
           /\ calls' = [calls EXCEPT ![s] = IF c.hook = "toggle" THEN [c EXCEPT !.at = "stuck"]
                                            ELSE Over]
           /\ trouble' = trouble \cup
                IF c.at = "done" /\ c.hook \notin Optimistic THEN {CallKey(c)} ELSE {}
    /\ UNCHANGED <<page, server, form>>

-----------------------------------------------------------------------------
(* The settings a page shows, or changes. *)
FieldsOf ==
    CASE page = "settings" -> {"profile", "logo"}
      [] page = "rate"     -> {"rate"}
      [] page = "detail"   -> {"profile"}
      [] OTHER -> {}

Init ==
    /\ page \in Pages
    /\ \E t \in Tables :
          /\ \A r \in Rows \ Entries : (t[r] # Nothing) = (r \in FieldsOf)
          /\ FieldsOf # {} => \A e \in Entries : t[e] = Nothing
          /\ server = t /\ cache = t
    /\ fetch = [k \in Keys |-> NoFetch]
    /\ calls = [s \in Slots |-> Unused]
    /\ dialog = NoDialog /\ compressing = FALSE /\ entry = NoEntry
    /\ meant = Nothing /\ trouble = {}

Gesture(s) ==
    \/ OnSubmitProfile(s) \/ LogoReady(s)
    \/ HandleSaveRate(s) \/ OnSubmitReward(s) \/ ConfirmDeleteReward(s)
    \/ OnSubmitStaffEdit(s) \/ HandleAdjust(s) \/ HandleRowAdjust(s)
    \/ HandleScan(s)
    \/ HandleToggle(s)
    \/ \E e \in Entries : HandleToggleStatus(s, e)

Next ==
    \/ \E s \in Slots : Gesture(s) \/ Serve(s) \/ Refuse(s) \/ Succeed(s) \/ Fail(s)
    \/ \E e \in Entries : HandleEdit(e) \/ HandleDelete(e) \/ OpenStaffEdit(e) \/ HandleRowClick(e)
                          \/ OpenAdjust(e)
    \/ PickLogo \/ LogoFails
    \/ OpenCreate \/ CloseDialog \/ CancelDelete \/ CloseStaffEdit \/ CloseDetail \/ CloseAdjust
    \/ FadeOut
    \/ ChooseAction \/ FillIn \/ ScanCode \/ DropCode
    \/ ReadList \/ TakeList \/ FetchFails

Spec == Init /\ [][Next]_vars

-----------------------------------------------------------------------------
(* The variables keep to their sets. *)
Call == [at: {"unused", "sent", "done", "refused", "stuck", "over"}, hook: Hooks,
         row: Rows \cup {Nothing}, val: Contents, undo: Tables, last: BOOLEAN,
         meant: Intent \cup {Nothing}, spent: BOOLEAN]
TypeOK ==
    /\ page \in Pages /\ server \in Tables /\ cache \in Tables
    /\ fetch \in [Keys -> [at: {"idle", "asked", "read"}, rows: Tables]]
    /\ \A s \in Slots : calls[s] \in Call
    /\ dialog \in [shown: {"no", "open", "fading"}, editing: Entries \cup {Nothing},
                   doomed: Entries \cup {Nothing}]
    /\ compressing \in BOOLEAN
    /\ entry \in [action: {"points", "stamp", "redeem"},
                  boxes: [Blanks -> {"none", "fresh", "given", "spent"}]]
    /\ meant \in Intent \cup {Nothing} /\ trouble \subseteq Keys

Quiet ==
    /\ \A s \in Slots : calls[s].at \in {"unused", "over", "stuck"}
    /\ \A k \in Keys : fetch[k].at = "idle"

(* When nothing is under way the page has the rows of the server: changes  *)
(* shown before their time, rollbacks to copies taken under other changes  *)
(* and reloads that began before a change all come right in the end.  Left *)
(* out are the keys whose reload failed, those of a hook that reloads on   *)
(* success only and lost its answer, two toggles of one merchant, and the  *)
(* Transactions page, which does not reload after an adjustment.           *)
CacheConverges ==
    Quiet /\ page # "transactions" =>
        \A r \in Rows : Key(r) \notin trouble => cache[r] = server[r]

(* A dialog's button sends what the dialog was opened for: answers to      *)
(* earlier requests close dialogs and clear what is edited, but a new      *)
(* reward never overwrites one and a change never goes to another row; and *)
(* a scan sends nothing that has been sent, and has succeeded, before.     *)
EditsHitTheirRow ==
    \A s \in Slots :
        UnderWay(s) =>
            LET c == calls[s]
            IN  c.meant.hook = c.hook /\ c.meant.row = c.row /\ ~c.spent
=============================================================================
