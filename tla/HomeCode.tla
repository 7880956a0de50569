------------------------------- MODULE HomeCode -------------------------------
(***************************************************************************)
(* The customer's own code on the Home page of the web app and of the      *)
(* phone: fetched when the page opens, on a timer and at a tap, shown      *)
(* until the next one comes, good only in the rotation it was issued in    *)
(* and the one after, and only for one scan.  The page does not learn of   *)
(* the scan.  Time is counted in ticks and waits for nobody: the timers of *)
(* a page in the background stall, and the web client has no timeout, so a *)
(* timer may go off late and an answer come late, or never.                *)
(***************************************************************************)
EXTENDS Integers, FiniteSets

CONSTANTS
    Rotation,    \* ticks between two rotations of a customer's code
    MinRefresh,  \* the page never asks again sooner than this
    FirstGuess,  \* the rotation the page assumes until the server has told it
    Patience,    \* ticks after which an answer counts as late
    MaxStall,    \* bound: ticks a timer, or an answer that is late, keeps the page waiting
    MaxFetches,  \* bound: fetches under way at once
    MaxTime,     \* bound: ticks of a behaviour
    Nothing

ASSUME HomeCodeAssumption ==
    /\ {Rotation, MinRefresh, FirstGuess} \subseteq Nat \ {0}
    /\ {Patience, MaxStall, MaxFetches, MaxTime} \subseteq Nat
    /\ Nothing \notin Int

VARIABLES
    now,       \* the clock of the server and of the page
    shown,     \* when the code on the page was issued
    used,      \* when it was scanned; Nothing: it was not
    failed,    \* the phone shows its error in place of the code
    told,      \* the rotation the page believes in
    due,       \* when the timer goes off; Nothing: the page is not open
    fetches,   \* the fetches under way
    missed     \* history: when the page was last late: a timer that had not gone
               \* off, an answer that had not come, a fetch sent that would fail

homeVars == <<now, shown, used, failed, told, due, fetches, missed>>

Ticks == 0..MaxTime
Fetch == [sent : Ticks, issued : Ticks \cup {Nothing}]

(* useEffect: half a rotation, but not less than the minimum.  The form    *)
(* that asks once a rotation is a slip.                                    *)
Longer(a, b) == IF a >= b THEN a ELSE b
Period_Whole(rotation) == Longer(MinRefresh, rotation)
Period(rotation) == Longer(MinRefresh, rotation \div 2)

(* verifyQrPayload: the rotation a code was issued in may be one behind.   *)
Bucket(t) == t \div Rotation
Works(issued) == Bucket(now) <= Bucket(issued) + 1

HomeInit ==
    /\ now = 0 /\ shown = Nothing /\ used = Nothing /\ failed = FALSE /\ due = Nothing
    /\ told = FirstGuess /\ fetches = {} /\ missed = -1

(* Leaving the page ends its timer, and its answers set nothing. *)
Unmount ==
    /\ now' = 0 /\ shown' = Nothing /\ used' = Nothing /\ failed' = FALSE /\ due' = Nothing
    /\ told' = FirstGuess /\ fetches' = {} /\ missed' = -1

(* The fetches of one tick count as one. *)
FetchQrToken ==
    /\ Cardinality(fetches) < MaxFetches
    /\ fetches' = fetches \cup {[sent |-> now, issued |-> Nothing]}
    /\ failed' = FALSE

(* The page opens at any moment of a rotation: it asks for a code and      *)
(* starts its timer.                                                       *)
Mount ==
    /\ due = Nothing
    /\ \E t \in 0..(Rotation - 1) :
          /\ now' = t
          /\ fetches' = {[sent |-> t, issued |-> Nothing]}
          /\ due' = t + Period(told)
    /\ UNCHANGED <<shown, used, failed, told, missed>>

TimerFires ==
    /\ due # Nothing /\ due <= now
    /\ FetchQrToken
    /\ due' = now + Period(told)
    /\ UNCHANGED <<now, shown, used, told, missed>>

(* The phone's Refresh and Retry; the web page has neither. *)
TapRefresh ==
    /\ due # Nothing
    /\ FetchQrToken
    /\ UNCHANGED <<now, shown, used, told, due, missed>>

Issue ==
    \E f \in fetches :
        /\ f.issued = Nothing
        /\ fetches' = (fetches \ {f}) \cup {[f EXCEPT !.issued = now]}
        /\ UNCHANGED <<now, shown, used, failed, told, due, missed>>

(* The answer is shown, and a rotation the page did not know restarts the  *)
(* timer.                                                                  *)
Show ==
    \E f \in fetches :
        /\ f.issued # Nothing
        /\ shown' = f.issued /\ used' = Nothing
        /\ fetches' = fetches \ {f}
        /\ told' = Rotation
        /\ due' = IF told = Rotation THEN due ELSE now + Period(Rotation)
        /\ UNCHANGED <<now, failed, missed>>

(* The web page keeps the code it has; the phone says so in its place. *)
FetchFails(phone) ==
    \E f \in fetches :
        /\ fetches' = fetches \ {f}
        /\ failed' = phone
        /\ missed' = Longer(missed, f.sent)
        /\ UNCHANGED <<now, shown, used, told, due>>

(* The till takes the code on the page, once: consumeJti. *)
Visible == shown # Nothing /\ ~failed
Scan ==
    /\ Visible /\ used = Nothing /\ Works(shown)
    /\ used' = now
    /\ UNCHANGED <<now, shown, failed, told, due, fetches, missed>>

Late(t) == due < t \/ \E f \in fetches : f.sent + Patience < t
Tick ==
    /\ due # Nothing /\ now < MaxTime
    /\ now < due + MaxStall /\ \A f \in fetches : now < f.sent + Patience + MaxStall
    /\ now' = now + 1
    /\ missed' = IF Late(now + 1) THEN now + 1 ELSE missed
    /\ UNCHANGED <<shown, used, failed, told, due, fetches>>

HomeStep(phone) ==
    TimerFires \/ Issue \/ Show \/ FetchFails(phone) \/ Scan \/ Tick \/ (phone /\ TapRefresh)

-----------------------------------------------------------------------------

(* Half a rotation is time enough to ask, and a quarter of one to answer.  *)
(* Codes that rotate every thirty seconds are too fast for the phone,      *)
(* which does not ask that often.                                          *)
Roomy == 2 * MinRefresh <= Rotation /\ 4 * Patience <= Rotation

(* A customer who holds up the phone shows a code that the till will take, *)
(* or one that it took before; and a code that was taken is gone when the  *)
(* next fetch is answered.  However fetches overlap and overtake each      *)
(* other, this holds of every code issued, or used, since the page was     *)
(* last late.                                                              *)
ShownCodeWorks ==
    /\ Roomy /\ Visible /\ missed < shown => used # Nothing \/ Works(shown)
    /\ used # Nothing /\ missed < used => now <= used + Period(Rotation) + Patience
=============================================================================
