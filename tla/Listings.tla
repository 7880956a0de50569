-------------------------------- MODULE Listings --------------------------------
(***************************************************************************)
(* Lists on the screens of the four clients, their filters and their       *)
(* pages, while entries go on being posted.  `screen' says which one a     *)
(* behaviour is about:                                                     *)
(*   customers, transactions, home   the merchant's dashboard, rows kept   *)
(*                                   in a query cache by what was asked    *)
(*   directory, detail, overview, logs, audit                              *)
(*                                   the administrator's, a list in the    *)
(*                                   state of the page                     *)
(*   wallet, discover                the customer's, cached (the phone's   *)
(*                                   wallet asks as the web's does)        *)
(*   activity                        the customer's history on the web,    *)
(*                                   loaded page after page                *)
(* An entry is its number in the order of posting; its kind is what        *)
(* filters go by.  An answer is a step of its own; what is read between    *)
(* asking and answering is read as the answer arrives, except where the    *)
(* server reads twice.                                                     *)
(***************************************************************************)
EXTENDS Integers, FiniteSets, SequencesExt

CONSTANTS
    Kinds,      \* what filters tell apart: types, branches, names, categories
    All, Near,  \* no filter; the merchants nearby
    Screens,    \* the screens to look at
    Reads,      \* names of the requests of a behaviour
    PageSize, MaxEntries,
    None

Keyed == {"customers", "transactions", "home", "wallet", "discover"}
Own == {"directory", "detail", "overview", "logs", "audit"}
Paged == {"customers", "transactions"}
Debounced == {"customers", "directory"}
Local == {"logs", "audit", "wallet", "discover", "activity"}
AllScreens == Keyed \cup Own \cup {"activity"}

ASSUME ListingsAssumption ==
    /\ Screens \subseteq AllScreens /\ Screens # {} /\ Kinds # {} /\ None \notin Reads
    /\ All \notin Kinds /\ Near \notin Kinds \cup {All}
    /\ PageSize \in Nat \ {0} /\ MaxEntries \in Nat \ {0}

Filters == Kinds \cup {All}
Query == [filter: Filters \cup {Near}, page: 1 .. MaxEntries]

VARIABLES
    screen,
    entries,    \* kinds of the server's entries, in the order of posting
    box,        \* what the person has typed or chosen
    typing,     \* the timer of a debounced search runs
    query,      \* what the screen asks for
    reads,      \* the requests
    data,       \* the answers kept: by query, or one
    failed,     \* queries whose request failed
    place,      \* the person's position: "unknown" or "known"
    pages, more,    \* activity: the pages loaded, and whether there is another
    feed,       \* activity: the loading under way
    since,      \* history: entries there when the pages shown were first asked
    mishaps     \* history: what took the screen out of a property's reach

asking == <<query, reads>>
shown == <<data, failed>>
activity == <<pages, more, feed, since>>
listsVars == <<screen, entries, box, typing, asking, shown, place, activity, mishaps>>

Unread == -1
Total(f) == Cardinality({i \in DOMAIN entries : f \in {All, Near, entries[i]}})
PagesFor(total) == (total + PageSize - 1) \div PageSize
First(f) == [filter |-> f, page |-> 1]

-----------------------------------------------------------------------------
(* The server *)

(* A posting between the two reads of one answer moves the rows of the     *)
(* second read, and the total of the first is one short.                   *)
Post(k) ==
    /\ Len(entries) < MaxEntries
    /\ entries' = Append(entries, k)
    /\ mishaps' = IF feed.total # Unread /\ feed.rows = None THEN mishaps \cup {"torn"} ELSE mishaps
    /\ UNCHANGED <<screen, box, typing, asking, shown, place, activity>>

(* A customer, one in a behaviour, deletes the account: the list of         *)
(* customers is shorter by one, the list of transactions by those of the   *)
(* customer, which go one after the other.                                 *)
Leave ==
    /\ screen \in Paged /\ (screen = "customers" => "left" \notin mishaps)
    /\ \E i \in DOMAIN entries : entries' = RemoveAt(entries, i)
    /\ mishaps' = mishaps \cup {"left"}
    /\ UNCHANGED <<screen, box, typing, asking, shown, place, activity>>

-----------------------------------------------------------------------------
(* Asking *)

Unsent == [at |-> "unused", query |-> First(All), last |-> FALSE]
OnItsWay(s) == reads[s].at = "sent"
Idle == \A s \in Reads : ~OnItsWay(s)

(* Slip: the key of a query has the list's name and no parameters. *)
KeyOf_NameOnly(q) == First(All)
KeyOf(q) == IF screen \in Keyed THEN q ELSE First(All)

Known == data[KeyOf(query)]
Ready == Known # None /\ KeyOf(query) \notin failed

Send(q) ==
    \E s \in Reads :
        /\ reads[s].at = "unused"
        /\ reads' = [t \in Reads |-> IF t = s THEN [Unsent EXCEPT !.at = "sent", !.query = q, !.last = TRUE]
                                     ELSE [reads[t] EXCEPT !.last = FALSE]]

(* A query whose rows are kept, or on their way, may be left at that.      *)
AskFor(q) ==
    /\ query' = q
    /\ \/ /\ \/ data[KeyOf(q)] # None
             \/ \E s \in Reads : OnItsWay(s) /\ KeyOf(reads[s].query) = KeyOf(q)
          /\ screen \in Keyed
          /\ UNCHANGED <<reads, failed>>
       \/ /\ screen \in Keyed => ~\E s \in Reads : OnItsWay(s) /\ KeyOf(reads[s].query) = KeyOf(q)
          /\ Send(q)
          /\ failed' = IF data[KeyOf(q)] = None THEN failed \ {KeyOf(q)} ELSE failed

Asks(q) ==
    /\ AskFor(q)
    /\ UNCHANGED <<screen, entries, data, place, activity>>

-----------------------------------------------------------------------------
(* Filters and pages *)

(* Slip: the page stays when the filter changes. *)
Narrowed_SamePage(f) == [query EXCEPT !.filter = f]
Narrowed(f) == First(f)

(* Typing in a search box starts the timer again; nothing is asked yet.    *)
HandleQueryChange(f) ==
    /\ screen \in Debounced /\ f # box
    /\ box' = f /\ typing' = TRUE
    /\ UNCHANGED <<screen, entries, asking, shown, place, activity, mishaps>>

(* The merchant's search becomes the query, back on page 1. *)
Debounce ==
    /\ screen = "customers" /\ typing
    /\ typing' = FALSE
    /\ Asks(Narrowed(box))
    /\ UNCHANGED <<box, mishaps>>

(* The administrator's is sent, whatever is under way. *)
DoSearch ==
    /\ screen = "directory" /\ typing
    /\ typing' = FALSE
    /\ mishaps' = IF Idle THEN mishaps ELSE mishaps \cup {"overtaken"}
    /\ Asks(First(box))
    /\ UNCHANGED box

Chosen(f) == f # box /\ box' = f /\ UNCHANGED <<typing, mishaps>> /\ Asks(Narrowed(f))

(* While its rows load, or have failed, a merchant's page has no filters. *)
SetFilter(f) == screen = "transactions" /\ Ready /\ Chosen(f)
SelectLocation(f) == screen = "home" /\ Ready /\ Chosen(f)

(* The administrator's filters are there all the time, and an effect that  *)
(* runs anew makes the one before ignore its answer; the overview shows a  *)
(* spinner until the answer, and an error in its place.                    *)
SetCustomerFilter(f) == screen = "detail" /\ Chosen(f)
SetSelectedMerchant(f) == screen = "overview" /\ Idle /\ mishaps = {} /\ Chosen(f)

Turn(page) ==
    /\ screen \in Paged /\ Ready
    /\ Asks([query EXCEPT !.page = page])
    /\ UNCHANGED <<box, typing, mishaps>>
NextPage ==
    /\ Ready /\ query.page * PageSize < Known.total /\ query.page < MaxEntries
    /\ Turn(query.page + 1)
PreviousPage == query.page > 1 /\ Turn(query.page - 1)

Again ==
    /\ Send(query)
    /\ UNCHANGED <<screen, entries, box, typing, query, shown, place, activity>>

(* The logs are read again at a click, whatever is under way. *)
Refresh ==
    /\ screen = "logs" /\ Again
    /\ mishaps' = IF Idle THEN mishaps ELSE mishaps \cup {"overtaken"}

(* A pull on the wallet. *)
OnRefresh == screen = "wallet" /\ Idle /\ Again /\ UNCHANGED mishaps

-----------------------------------------------------------------------------
(* Filters of what has been loaded.  Those of the logs, the wallet and the *)
(* map change only what is drawn, and are left out; the history's decides  *)
(* whether there is a Load More.                                           *)

Sift(f) ==
    /\ screen = "activity" /\ f # box
    /\ box' = f
    /\ UNCHANGED <<screen, entries, typing, asking, shown, place, activity, mishaps>>

(* The browser tells where the person is, and the merchants nearby are     *)
(* asked for; Near Me shows them in place of all.                          *)
Locate ==
    /\ screen = "discover" /\ place = "unknown"
    /\ place' = "known"
    /\ Send(First(Near))
    /\ UNCHANGED <<screen, entries, box, typing, query, shown, activity, mishaps>>

ToggleNearMe ==
    /\ screen = "discover" /\ place = "known"
    /\ query' = First(IF query.filter = Near THEN All ELSE Near)
    /\ UNCHANGED <<screen, entries, box, typing, reads, shown, place, activity, mishaps>>

-----------------------------------------------------------------------------
(* Answers *)

Accepts(c) == screen \in {"detail", "overview"} => c.last

Take(s) ==
    /\ OnItsWay(s)
    /\ LET c == reads[s]
           answer == [of |-> c.query, total |-> Total(c.query.filter)]
       IN  data' = IF Accepts(c) THEN [data EXCEPT ![KeyOf(c.query)] = answer] ELSE data
    /\ failed' = failed \ {KeyOf(reads[s].query)}
    /\ reads' = [reads EXCEPT ![s] = [Unsent EXCEPT !.at = "over"]]
    /\ UNCHANGED <<screen, entries, box, typing, query, place, activity, mishaps>>

(* A query that fails, twice, shows an error; a page that keeps its own    *)
(* list keeps the old one.                                                 *)
ReadFails(s) ==
    /\ OnItsWay(s)
    /\ failed' = IF screen \in Keyed THEN failed \cup {KeyOf(reads[s].query)} ELSE failed
    /\ mishaps' = IF screen \in Own THEN mishaps \cup {"refused"} ELSE mishaps
    /\ reads' = [reads EXCEPT ![s] = [Unsent EXCEPT !.at = "over"]]
    /\ UNCHANGED <<screen, entries, box, typing, query, data, place, activity>>

-----------------------------------------------------------------------------
(* Activity: pages of the ledger, newest entries first *)

RowsOf(page) ==
    LET n == Len(entries)
    IN  {n - k : k \in {j \in (page - 1) * PageSize .. page * PageSize - 1 : j < n}}

(* Slip: the last page but one is taken for the last. *)
HasNext_OneLess(page, total) == page + 1 < PagesFor(total)
HasNext(page, total) == page < PagesFor(total)

NoFeed == [at |-> "idle", goal |-> 0, got |-> <<>>, rows |-> None, total |-> Unread, first |-> 0]
Feeding(goal, got) == [NoFeed EXCEPT !.at = "asked", !.goal = goal, !.got = got, !.first = since]

Feed(f) ==
    /\ screen = "activity" /\ feed' = f
    /\ UNCHANGED <<screen, entries, box, typing, asking, shown, place>>

(* The filter sifts what has been loaded; with nothing left of it the list *)
(* is said to be empty, and has no Load More.                              *)
Filtered == {i \in UNION {pages[n] : n \in DOMAIN pages} : box \in {All, entries[i]}}

(* Load More: one page after those there are; a reload under way is dropped. *)
FetchNextPage ==
    /\ more /\ Filtered # {} /\ (feed.at = "asked" => feed.goal <= Len(pages))
    /\ Feed(Feeding(Len(pages) + 1, pages))
    /\ UNCHANGED <<pages, more, since, mishaps>>

(* A pull reads as many pages as there are, one after the other. *)
HandleTouchEnd ==
    /\ pages # <<>> /\ (feed.at = "asked" => feed.goal > Len(pages))
    /\ Feed(Feeding(Len(pages), <<>>))
    /\ UNCHANGED <<pages, more, since, mishaps>>

(* getLedgerHistory counts the entries and reads a page of them, side by side. *)
CountEntries ==
    /\ feed.at = "asked" /\ feed.total = Unread
    /\ Feed([feed EXCEPT !.total = Len(entries)])
    /\ UNCHANGED <<pages, more, since, mishaps>>

FindEntries ==
    /\ feed.at = "asked" /\ feed.rows = None
    /\ Feed([feed EXCEPT !.rows = RowsOf(Len(feed.got) + 1),
                         !.first = IF feed.got = <<>> THEN Len(entries) ELSE @])
    /\ UNCHANGED <<pages, more, since, mishaps>>

TakePage ==
    /\ feed.at = "asked" /\ feed.total # Unread /\ feed.rows # None
    /\ LET got == Append(feed.got, feed.rows)
           next == HasNext(Len(got), feed.total)
       IN  IF next /\ Len(got) < feed.goal
           THEN /\ Feed([feed EXCEPT !.got = got, !.rows = None, !.total = Unread])
                /\ UNCHANGED <<pages, more, since>>
           ELSE /\ Feed(NoFeed)
                /\ pages' = got /\ more' = next /\ since' = feed.first
    /\ UNCHANGED mishaps

(* The pages there are stay, and Load More with them. *)
FeedFails ==
    /\ feed.at = "asked"
    /\ Feed(NoFeed)
    /\ UNCHANGED <<pages, more, since, mishaps>>

-----------------------------------------------------------------------------
(* A screen opens, and asks for its list; the timer of the merchant's      *)
(* search runs from the start.                                             *)
ListsInit ==
    /\ screen \in Screens
    /\ entries \in SeqOf(Kinds, MaxEntries)
    /\ box = All /\ typing = (screen = "customers")
    /\ query = First(All)
    /\ reads \in [Reads -> {Unsent, [Unsent EXCEPT !.at = "sent", !.last = TRUE]}]
    /\ Cardinality({s \in Reads : OnItsWay(s)}) = (IF screen = "activity" THEN 0 ELSE 1)
    /\ data = [q \in Query |-> None] /\ failed = {}
    /\ place = "unknown"
    /\ pages = <<>> /\ more = FALSE /\ since = 0
    /\ feed = IF screen = "activity" THEN [NoFeed EXCEPT !.at = "asked", !.goal = 1] ELSE NoFeed
    /\ mishaps = {}

Person ==
    \/ \E f \in Filters :
          \/ HandleQueryChange(f) \/ SetFilter(f) \/ SelectLocation(f)
          \/ SetCustomerFilter(f) \/ SetSelectedMerchant(f)
          \/ Sift(f)
    \/ NextPage \/ PreviousPage \/ Refresh \/ OnRefresh \/ ToggleNearMe
    \/ FetchNextPage \/ HandleTouchEnd

ListsNext ==
    \/ Person
    \/ Debounce \/ DoSearch \/ Locate
    \/ \E k \in Kinds : Post(k)
    \/ Leave
    \/ \E s \in Reads : Take(s) \/ ReadFails(s)
    \/ CountEntries \/ FindEntries \/ TakePage \/ FeedFails

ListsSpec == ListsInit /\ [][ListsNext]_listsVars

-----------------------------------------------------------------------------
(* The variables keep to their sets. *)
ListsTypeOK ==
    /\ screen \in Screens /\ entries \in Seq(Kinds) /\ Len(entries) <= MaxEntries
    /\ box \in Filters /\ typing \in BOOLEAN /\ query \in Query
    /\ reads \in [Reads -> [at: {"unused", "sent", "over"}, query: Query, last: BOOLEAN]]
    /\ \A q \in Query : data[q] = None \/ data[q].of \in Query
    /\ failed \subseteq Query /\ place \in {"unknown", "known"}
    /\ more \in BOOLEAN /\ since \in 0 .. MaxEntries
    /\ mishaps \subseteq {"torn", "left", "overtaken", "refused"}

(* Rows on a screen are the answer to what it asks for now: always where   *)
(* they are kept by query, and elsewhere once the answers are in, in       *)
(* whatever order they came; and what it asks for is what has been chosen. *)
(* Left out: the administrator's search and log, whose overlapping         *)
(* requests may end with the older rows, and lists that failed to load.    *)
RowsAreAsAsked ==
    /\ screen \in Keyed /\ Known # None => Known.of = query
    /\ Idle /\ ~typing /\ mishaps = {} =>
          /\ screen \in Own /\ Known # None => Known.of = query
          /\ screen \notin Local => query.filter = box

(* The page a list stands at is one it has, whatever was typed, chosen and *)
(* turned before the answers came: the merchant never looks at an empty    *)
(* page, which has no button to turn back, unless accounts are deleted.    *)
PageExists ==
    screen \in Paged /\ "left" \notin mishaps =>
        query.page = 1 \/ (query.page - 1) * PageSize < Total(query.filter)

(* A customer who has loaded the history to its end has seen every entry   *)
(* that was there at the start, though new ones push the others on from    *)
(* page to page while they load, and a pull reads them all again.  Left    *)
(* out is a posting between the two reads of one answer.                   *)
NothingSkipped ==
    pages # <<>> /\ ~more /\ feed.at = "idle" /\ "torn" \notin mishaps =>
        \A i \in 1 .. since : \E n \in DOMAIN pages : i \in pages[n]
=============================================================================
