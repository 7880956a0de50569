---------------------------- MODULE FrontDoorProofs ----------------------------
(***************************************************************************)
(* FrontDoor and HomeCode, for any number of requests, any addresses and   *)
(* programmes, every client, and every rotation, refresh and delay.  Then  *)
(* ClientSession, which takes over where the doors end: any tasks, any     *)
(* accounts, all four clients.                                             *)
(***************************************************************************)
EXTENDS FrontDoor, ClientSession, FiniteSetTheorems, TLAPS

-----------------------------------------------------------------------------
(* The code on the Home page.  Unless the page is late, one of two things   *)
(* will replace the code it shows in time: its timer, or a fetch that was   *)
(* sent soon enough after the code was issued, or after it was used.        *)

Span == Period(Rotation)

\* From the issue of a code to the sending of the fetch that replaces it.
Reach == Span + Patience

Clocks ==
    /\ now \in Nat /\ missed \in Int /\ missed <= now
    /\ shown = Nothing \/ (shown \in Nat /\ shown <= now /\ due # Nothing /\ told = Rotation)
    /\ used = Nothing \/ (used \in Nat /\ used <= now /\ due # Nothing)
    /\ due = Nothing \/ (due \in Nat /\ (told = Rotation => due <= now + Span))
    /\ due = Nothing => fetches = {} /\ missed = -1
    /\ told \in {FirstGuess, Rotation}

\* What is late is noticed.
Noticed == (due = Nothing \/ due >= now \/ missed = now)

Sent(f) ==
    /\ f.sent \in Nat /\ f.sent <= now /\ (now <= f.sent + Patience \/ missed = now)
    /\ f.issued = Nothing \/ (f.issued \in Nat /\ f.sent <= f.issued /\ f.issued <= now)

\* A fetch will leave within n ticks of t, or has left.
AtHand(t, n) == due <= t + n \/ \E f \in fetches : t <= f.sent /\ f.sent <= t + n

HomeInv ==
    /\ Clocks /\ Noticed
    /\ \A f \in fetches : Sent(f)
    /\ shown # Nothing /\ missed < shown => AtHand(shown, Reach)
    /\ used # Nothing /\ missed < used => AtHand(used, Span)

LEMMA Rotations ==
    /\ Rotation \in Nat \ {0} /\ Patience \in Nat
    /\ FirstGuess \in Nat \ {0}
    /\ \A r \in Nat : Period(r) \in Nat
    /\ Span \in Nat /\ Reach \in Nat /\ Reach = Span + Patience /\ Span = Period(Rotation)
    /\ \A t \in Int : t # Nothing
    /\ Roomy => Reach + Patience <= Rotation
BY HomeCodeAssumption DEF Period, Longer, Reach, Span, Roomy

\* A code works for a whole rotation after it was issued, wherever in its own
\* rotation that was.
LEMMA WorksARotation ==
    ASSUME NEW i \in Nat, now \in Nat, now <= i + Rotation
    PROVE  Works(i)
<1>1. Rotation \in Nat \ {0}
  BY Rotations
<1>2. PICK q : q = i \div Rotation
  OBVIOUS
<1>3. q \in Int /\ i < Rotation * (q + 1)
  BY <1>1, <1>2
<1>4. now < Rotation * (q + 2)
  <2>1. Rotation * (q + 2) = Rotation * (q + 1) + Rotation
    BY <1>1, <1>3
  <2> QED BY <1>1, <1>3, <2>1
<1>5. now \div Rotation <= q + 1
  BY <1>1, <1>3, <1>4
<1> QED BY <1>2, <1>5 DEF Works, Bucket

\* What is at hand comes within the patience of the page.
LEMMA ComesInTime ==
    ASSUME HomeInv, NEW t \in Nat, missed < t, t <= now, due # Nothing, NEW n \in Nat, AtHand(t, n)
    PROVE  now <= t + n + Patience
<1>1. now \in Nat /\ missed \in Int /\ due \in Nat /\ Patience \in Nat /\ missed # now
  BY Rotations DEF HomeInv, Clocks
<1>2. CASE due <= t + n
  BY <1>1, <1>2 DEF HomeInv, Noticed
<1>3. ASSUME NEW f \in fetches, t <= f.sent, f.sent <= t + n
      PROVE  now <= t + n + Patience
  <2>1. f.sent \in Nat /\ now <= f.sent + Patience
    BY <1>1 DEF HomeInv, Sent
  <2> QED BY <1>1, <1>3, <2>1
<1> QED BY <1>2, <1>3 DEF AtHand

\* The code on a page that is open works, or was used; and a used one goes.
LEMMA ShownIsFresh == HomeInv => ShownCodeWorks
<1> SUFFICES ASSUME HomeInv
             PROVE  ShownCodeWorks
  OBVIOUS
<1>1. ASSUME Roomy, shown # Nothing, missed < shown
      PROVE  Works(shown)
  <2>1. shown \in Nat /\ shown <= now /\ due # Nothing /\ now \in Nat
    BY <1>1 DEF HomeInv, Clocks
  <2>2. AtHand(shown, Reach)
    BY <1>1 DEF HomeInv
  <2>3. now <= shown + Reach + Patience
    BY <1>1, <2>1, <2>2, Rotations, ComesInTime
  <2>4. now <= shown + Rotation
    BY <1>1, <2>1, <2>3, Rotations
  <2> QED BY <2>1, <2>4, WorksARotation
<1>2. ASSUME used # Nothing, missed < used
      PROVE  now <= used + Period(Rotation) + Patience
  <2>1. used \in Nat /\ used <= now /\ due # Nothing
    BY <1>2 DEF HomeInv, Clocks
  <2>2. AtHand(used, Span)
    BY <1>2 DEF HomeInv
  <2>3. now <= used + Span + Patience
    BY <1>2, <2>1, <2>2, Rotations, ComesInTime
  <2> QED BY <2>3, Rotations
<1> QED BY <1>1, <1>2 DEF ShownCodeWorks, Visible

LEMMA HomeStarts == HomeInit => HomeInv
BY Rotations DEF HomeInit, HomeInv, Clocks, Noticed

LEMMA HomeEnds == Unmount => HomeInv'
BY Rotations DEF Unmount, HomeInv, Clocks, Noticed

LEMMA HomeStays == HomeInv /\ UNCHANGED homeVars => HomeInv'
BY DEF homeVars, HomeInv, Clocks, Noticed, Sent, AtHand

\* The page opens with a timer and a fetch.
LEMMA HomeOpens == HomeInv /\ Mount => HomeInv'
<1> SUFFICES ASSUME HomeInv, Mount
             PROVE  HomeInv'
  OBVIOUS
<1>1. PICK t \in 0 .. (Rotation - 1) :
         /\ now' = t
         /\ fetches' = {[sent |-> t, issued |-> Nothing]}
         /\ due' = t + Period(told)
  BY DEF Mount
<1>2. /\ shown' = Nothing /\ used' = Nothing /\ told' = told /\ missed' = -1
      /\ told \in {FirstGuess, Rotation}
  BY DEF Mount, HomeInv, Clocks
<1>3. t \in Nat /\ Period(told) \in Nat
  BY <1>2, Rotations
<1>4. Clocks' /\ Noticed'
  BY <1>1, <1>2, <1>3, Rotations DEF Clocks, Noticed
<1>5. \A f \in fetches' : Sent(f)'
  BY <1>1, <1>3, Rotations DEF Sent
<1> QED BY <1>2, <1>4, <1>5 DEF HomeInv

\* A fetch that leaves when the timer is due takes its place.
LEMMA LeavesInTime ==
    ASSUME HomeInv, NEW g, fetches' = fetches \cup {g}, g.sent = now, due' = due \/ due = now,
           NEW t \in Nat, t <= now, NEW n \in Nat, AtHand(t, n), UNCHANGED <<now, shown, used>>
    PROVE  due' <= t + n \/ \E f \in fetches' : t <= f.sent /\ f.sent <= t + n
<1>1. CASE \E f \in fetches : t <= f.sent /\ f.sent <= t + n
  BY <1>1
<1>2. CASE due <= t + n /\ due' = due
  BY <1>2
<1>3. CASE due <= t + n /\ due = now
  BY <1>3
<1> QED BY <1>1, <1>2, <1>3 DEF AtHand

\* A fetch that leaves is on time, and covers the code if the timer is due.
LEMMA FetchLeaves ==
    ASSUME HomeInv, FetchQrToken, due # Nothing,
           UNCHANGED <<now, shown, used, told, missed>>,
           \/ due' = due
           \/ due <= now /\ due' = now + Period(told)
    PROVE  HomeInv'
<1>1. PICK g : g = [sent |-> now, issued |-> Nothing]
  OBVIOUS
<1>2. fetches' = fetches \cup {g} /\ g.sent = now /\ g.issued = Nothing
  BY <1>1 DEF FetchQrToken
<1>3. /\ now \in Nat /\ due \in Nat /\ told \in {FirstGuess, Rotation} /\ missed \in Int
      /\ shown = Nothing \/ (shown \in Nat /\ shown <= now)
      /\ used = Nothing \/ (used \in Nat /\ used <= now)
  BY DEF HomeInv, Clocks
<1>4. Period(told) \in Nat
  BY <1>3, Rotations
<1>5. due' \in Nat /\ (told = Rotation => due' <= now + Span)
  BY <1>3, <1>4, Rotations DEF HomeInv, Clocks
<1>6. Clocks'
  BY <1>3, <1>5, Rotations DEF HomeInv, Clocks
<1>7. Noticed'
  BY <1>3, <1>4 DEF HomeInv, Noticed
<1>8. \A f \in fetches' : Sent(f)'
  BY <1>2, <1>3, Rotations DEF HomeInv, Sent
<1>9. due' = due \/ due = now \/ missed = now
  BY <1>3 DEF HomeInv, Noticed
<1>10. ASSUME shown # Nothing, missed < shown
       PROVE  AtHand(shown, Reach)'
  <2>1. shown \in Nat /\ shown <= now /\ (due' = due \/ due = now) /\ AtHand(shown, Reach)
    BY <1>3, <1>9, <1>10 DEF HomeInv
  <2>2. due' <= shown + Reach \/ \E f \in fetches' : shown <= f.sent /\ f.sent <= shown + Reach
    BY <1>2, <2>1, Rotations, LeavesInTime
  <2> QED BY <2>2 DEF AtHand, Reach, Span
<1>11. ASSUME used # Nothing, missed < used
       PROVE  AtHand(used, Span)'
  <2>1. used \in Nat /\ used <= now /\ (due' = due \/ due = now) /\ AtHand(used, Span)
    BY <1>3, <1>9, <1>11 DEF HomeInv
  <2>2. due' <= used + Span \/ \E f \in fetches' : used <= f.sent /\ f.sent <= used + Span
    BY <1>2, <2>1, Rotations, LeavesInTime
  <2> QED BY <2>2 DEF AtHand, Span
<1> QED BY <1>6, <1>7, <1>8, <1>10, <1>11 DEF HomeInv

\* The server issues the code of a fetch: the fetch was sent when it was.
LEMMA IssueKeeps == HomeInv /\ Issue => HomeInv'
<1> SUFFICES ASSUME HomeInv, Issue
             PROVE  HomeInv'
  OBVIOUS
<1>1. PICK f \in fetches : /\ f.issued = Nothing
                           /\ fetches' = (fetches \ {f}) \cup {[f EXCEPT !.issued = now]}
                           /\ UNCHANGED <<now, shown, used, failed, told, due, missed>>
  BY DEF Issue
<1>2. PICK g : g = [f EXCEPT !.issued = now]
  OBVIOUS
<1>3. Sent(f) /\ now \in Nat
  BY <1>1 DEF HomeInv, Clocks
<1>4. Sent(g) /\ g.sent = f.sent
  BY <1>2, <1>3 DEF Sent
<1>5. \A h \in fetches' : Sent(h)'
  BY <1>1, <1>2, <1>4 DEF HomeInv, Sent
<1>6. Clocks' /\ Noticed'
  BY <1>1 DEF HomeInv, Clocks, Noticed
<1>7. ASSUME NEW t, NEW n, AtHand(t, n)
      PROVE  due' <= t + n \/ \E h \in fetches' : t <= h.sent /\ h.sent <= t + n
  BY <1>1, <1>2, <1>4, <1>7 DEF AtHand
<1>8. /\ AtHand(shown, Reach) => AtHand(shown, Reach)'
      /\ AtHand(used, Span) => AtHand(used, Span)'
  BY <1>1, <1>7 DEF AtHand, Reach, Span
<1> QED BY <1>1, <1>5, <1>6, <1>8 DEF HomeInv

\* An answer, the latest or not, is shown with a timer that comes in time.
LEMMA ShowKeeps == HomeInv /\ Show => HomeInv'
<1> SUFFICES ASSUME HomeInv, Show
             PROVE  HomeInv'
  OBVIOUS
<1>1. PICK f \in fetches : /\ f.issued # Nothing /\ shown' = f.issued /\ used' = Nothing
                           /\ fetches' = fetches \ {f} /\ told' = Rotation
                           /\ due' = IF told = Rotation THEN due ELSE now + Span
                           /\ UNCHANGED <<now, failed, missed>>
  BY DEF Show, Span
<1>2. Sent(f) /\ now \in Nat /\ due \in Nat /\ missed \in Int /\ missed <= now
  BY <1>1 DEF HomeInv, Clocks
<1>3. due' \in Nat /\ due' <= now + Span
  BY <1>1, <1>2, Rotations DEF HomeInv, Clocks
<1>4. shown' \in Nat /\ shown' <= now /\ (missed < shown' => now <= shown' + Patience)
  BY <1>1, <1>2, Rotations DEF Sent
<1>5. Clocks'
  BY <1>1, <1>2, <1>3, <1>4, Rotations DEF HomeInv, Clocks
<1>6. \A h \in fetches' : Sent(h)'
  BY <1>1 DEF HomeInv, Sent
<1>7. Noticed'
  BY <1>1, <1>2, Rotations DEF HomeInv, Noticed
<1>8. ASSUME missed < shown'
      PROVE  AtHand(shown, Reach)'
  <2>1. PICK p \in Nat : p = Span
    BY Rotations
  <2>2. Reach = p + Patience /\ Patience \in Nat /\ Reach \in Nat
    BY <2>1, Rotations
  <2>3. PICK d \in Nat, i \in Nat : d = due' /\ i = shown'
    BY <1>3, <1>4
  <2>4. d <= now + p /\ now <= i + Patience
    BY <1>3, <1>4, <1>8, <2>1, <2>3
  <2>5. d <= i + Reach
    BY <1>2, <2>2, <2>4
  <2>6. due' <= shown' + Reach
    BY <2>3, <2>5
  <2> QED BY <2>6 DEF AtHand, Reach, Span
<1> QED BY <1>1, <1>5, <1>6, <1>7, <1>8 DEF HomeInv

\* A fetch that fails is missed: the code it would have replaced is past.
LEMMA FetchFailsKeeps ==
    ASSUME HomeInv, NEW phone \in BOOLEAN, FetchFails(phone)
    PROVE  HomeInv'
<1>1. PICK f \in fetches : /\ fetches' = fetches \ {f} /\ missed' = Longer(missed, f.sent)
                           /\ UNCHANGED <<now, shown, used, told, due>>
  BY DEF FetchFails
<1>2. /\ missed' \in Int /\ missed <= missed' /\ f.sent <= missed' /\ f.sent \in Nat
      /\ missed' <= now /\ now \in Nat /\ missed \in Int
  BY <1>1 DEF HomeInv, Clocks, Sent, Longer
<1>3. Clocks'
  BY <1>1, <1>2 DEF HomeInv, Clocks
<1>4. Noticed' /\ \A h \in fetches' : Sent(h)'
  BY <1>1, <1>2 DEF HomeInv, Noticed, Sent
<1>5. ASSUME shown # Nothing, missed' < shown
      PROVE  AtHand(shown, Reach)'
  <2>1. shown \in Nat
    BY <1>5 DEF HomeInv, Clocks
  <2>2. AtHand(shown, Reach) /\ ~(shown <= f.sent)
    BY <1>2, <1>5, <2>1 DEF HomeInv
  <2>3. due' <= shown + Reach \/ \E h \in fetches' : shown <= h.sent /\ h.sent <= shown + Reach
    BY <1>1, <2>2 DEF AtHand
  <2> QED BY <1>1, <2>3 DEF AtHand, Reach, Span
<1>6. ASSUME used # Nothing, missed' < used
      PROVE  AtHand(used, Span)'
  <2>1. used \in Nat
    BY <1>6 DEF HomeInv, Clocks
  <2>2. AtHand(used, Span) /\ ~(used <= f.sent)
    BY <1>2, <1>6, <2>1 DEF HomeInv
  <2>3. due' <= used + Span \/ \E h \in fetches' : used <= h.sent /\ h.sent <= used + Span
    BY <1>1, <2>2 DEF AtHand
  <2> QED BY <1>1, <2>3 DEF AtHand, Span
<1> QED BY <1>1, <1>3, <1>4, <1>5, <1>6 DEF HomeInv

\* The till takes a code: the timer will replace it, unless it is late already.
LEMMA ScanKeeps == HomeInv /\ Scan => HomeInv'
<1> SUFFICES ASSUME HomeInv, Scan
             PROVE  HomeInv'
  OBVIOUS
<1>1. shown # Nothing /\ used' = now /\ UNCHANGED <<now, shown, failed, told, due, fetches, missed>>
  BY DEF Scan, Visible
<1>2. /\ now \in Nat /\ missed \in Int /\ due \in Nat /\ due # Nothing /\ due <= now + Span
      /\ Span \in Nat
  BY <1>1, Rotations DEF HomeInv, Clocks
<1>3. Clocks'
  BY <1>1, <1>2 DEF HomeInv, Clocks
<1>4. Noticed' /\ \A f \in fetches' : Sent(f)'
  BY <1>1 DEF HomeInv, Noticed, Sent
<1>5. AtHand(shown, Reach)' = AtHand(shown, Reach) /\ AtHand(used, Span)'
  BY <1>1, <1>2 DEF AtHand, Reach, Span
<1> QED BY <1>1, <1>3, <1>4, <1>5 DEF HomeInv

\* The clock passes nothing unnoticed.
LEMMA TickKeeps == HomeInv /\ Tick => HomeInv'
<1> SUFFICES ASSUME HomeInv, Tick
             PROVE  HomeInv'
  OBVIOUS
<1>1. /\ due # Nothing /\ now' = now + 1
      /\ missed' = IF Late(now + 1) THEN now + 1 ELSE missed
      /\ UNCHANGED <<shown, used, failed, told, due, fetches>>
  BY DEF Tick
<1>2. now \in Nat /\ due \in Nat /\ missed \in Int /\ missed <= now /\ Span \in Nat
  BY <1>1, Rotations DEF HomeInv, Clocks
<1>3. missed' \in Int /\ missed <= missed' /\ missed' <= now'
  BY <1>1, <1>2
<1>4. Clocks'
  BY <1>1, <1>2, <1>3, Rotations DEF HomeInv, Clocks
<1>5. Noticed'
  BY <1>1, <1>2 DEF Noticed, Late
<1>6. ASSUME NEW f \in fetches'
      PROVE  Sent(f)'
  <2>1. f \in fetches /\ Sent(f) /\ Patience \in Nat
    BY <1>1, Rotations DEF HomeInv
  <2>2. now' <= f.sent + Patience \/ missed' = now'
    BY <1>1, <1>2, <2>1 DEF Late, Sent
  <2> QED BY <1>1, <1>2, <2>1, <2>2 DEF Sent
<1>7. AtHand(shown, Reach)' = AtHand(shown, Reach) /\ AtHand(used, Span)' = AtHand(used, Span)
  BY <1>1 DEF AtHand, Reach, Span
<1>8. /\ shown # Nothing /\ missed' < shown => missed < shown
      /\ used # Nothing /\ missed' < used => missed < used
  BY <1>2, <1>3 DEF HomeInv, Clocks
<1> QED BY <1>1, <1>4, <1>5, <1>6, <1>7, <1>8 DEF HomeInv

\* The open page keeps its promise, whatever happens on it.
LEMMA HomeStepKeeps ==
    ASSUME HomeInv, NEW phone \in BOOLEAN, HomeStep(phone)
    PROVE  HomeInv'
<1>1. CASE TimerFires
  BY <1>1, FetchLeaves DEF TimerFires
<1>2. CASE TapRefresh
  BY <1>2, FetchLeaves DEF TapRefresh
<1> QED BY <1>1, <1>2, IssueKeeps, ShowKeeps, FetchFailsKeeps, ScanKeeps, TickKeeps DEF HomeStep
-----------------------------------------------------------------------------
(* The pages in front.  A page is told what has happened by answers, which  *)
(* come late: so each request under way has to fit the page it will find.   *)

MerchantAsks == {"accept", "signup", "login", "me", "configure", "complete"}
CallDoc == {c \in [at : {"unused", "sent", "done", "refused", "lost"}, what : Asks,
                   email : Emails \cup {Nothing}, choice : Programmes \cup {Nothing},
                   live : BOOLEAN] :
               c.what = "configure" => c.choice # Nothing}
ServerDoc == [mailed : SUBSET (Emails \cup {Nothing}), linked : BOOLEAN, reset : BOOLEAN,
              joined : BOOLEAN, shops : SUBSET (Emails \cup {Nothing}),
              config : Programmes \cup {Nothing}, completed : BOOLEAN]

DoorTyped ==
    /\ door \in Customers \cup {"dashboard", "admin"}
    /\ calls \in [Slots -> CallDoc] /\ server \in ServerDoc
    /\ field \in [Flags -> Emails \cup {Nothing}] /\ choice \in Programmes \cup {Nothing}
    /\ busy \subseteq Flags /\ wavered \in BOOLEAN

\* Who makes a request, and what it finds when its answer comes.
AskerFits(s) ==
    /\ calls[s].what \in {"enter", "register"} => door \in Customers
    /\ calls[s].what \in MerchantAsks => door = "dashboard"
    /\ calls[s].what = "otp" =>
          door \notin Customers /\ (calls[s].live => field["form"] = calls[s].email)
    /\ calls[s].what = "accept" => screen = "invite" /\ calls[s].live
    /\ calls[s].what = "complete" => screen = "finish" /\ calls[s].live

\* What its answer says is so on the server.
AnswerFits(s) ==
    /\ calls[s].at = "done" /\ calls[s].what \in {"register", "otp"} => calls[s].email \in server.mailed
    /\ calls[s].at = "done" /\ calls[s].what = "forgot" => server.linked
    /\ calls[s].at = "done" /\ calls[s].what = "reset" => server.reset
    /\ calls[s].at = "done" /\ calls[s].what = "accept" => server.joined
    /\ calls[s].at = "done" /\ calls[s].what = "signup" => server.shops # {}
    /\ calls[s].what \in {"login", "me"} => server.shops # {}

\* The wizard saves what it shows, unless the person goes back meanwhile.
SavingFits(s) ==
    calls[s].what = "configure" =>
        /\ calls[s].choice # Nothing /\ (calls[s].live => choice # Nothing)
        /\ calls[s].at = "done" => server.config # Nothing
        /\ ~wavered => /\ calls[s].live /\ screen = "configure" /\ calls[s].choice = choice
                       /\ calls[s].at = "done" => server.config = choice

Fits(s) == UnderWay(s) => AskerFits(s) /\ AnswerFits(s) /\ SavingFits(s)

\* On the dashboards a form waits for one request at a time.
Waits(s) == UnderWay(s) /\ calls[s].live
FlagsFit ==
    door \notin Customers =>
        /\ \A s \in Slots : Waits(s) => Flag(calls[s].what) \in busy
        /\ \A s, t \in Slots :
              Waits(s) /\ Waits(t) /\ Flag(calls[s].what) = Flag(calls[t].what) => s = t

PagesFit ==
    /\ screen \in WizardSteps \cup {"signup", "invite"} => door = "dashboard"
    /\ screen = "invite" => \A s \in Slots : UnderWay(s) => calls[s].what = "accept"
    /\ screen \in {"configure", "finish"} => choice # Nothing
    /\ screen = "in" /\ door = "dashboard" => server.shops # {}
    /\ {challenge, stored} \subseteq server.mailed \cup {Nothing}

DoorInv ==
    /\ DoorTyped /\ PagesFit /\ FlagsFit
    /\ \A s \in Slots : Fits(s)
    /\ ClaimsAreTrue /\ FinishIsAsChosen

\* The wizard's pages are four, one after the other.
LEMMA WizardPages ==
    /\ WizardSteps = {"category", "type", "configure", "finish"}
    /\ GoNext("category") = "type" /\ GoNext("type") = "configure"
    /\ GoNext("configure") = "finish" /\ GoNext("finish") = "finish"
    /\ Wizard[Place("type") - 1] = "category" /\ Wizard[Place("configure") - 1] = "type"
<1>1. /\ Wizard[1] = "category" /\ Wizard[2] = "type"
      /\ Wizard[3] = "configure" /\ Wizard[4] = "finish"
  BY DEF Wizard
<1>2. \A i \in 1 .. 4 : i = 1 \/ i = 2 \/ i = 3 \/ i = 4
  OBVIOUS
<1> HIDE DEF Wizard
<1>3. WizardSteps = {"category", "type", "configure", "finish"}
  BY <1>1, <1>2 DEF WizardSteps
<1>4. Place("category") = 1
  BY <1>1, <1>2 DEF Place
<1>5. Place("type") = 2
  BY <1>1, <1>2 DEF Place
<1>6. Place("configure") = 3
  BY <1>1, <1>2 DEF Place
<1> QED BY <1>1, <1>3, <1>4, <1>5, <1>6 DEF GoNext

\* The record of a slot that is not in use.
LEMMA UnusedSlot ==
    /\ Unused \in CallDoc /\ Unused.at = "unused"
    /\ NoField \in [Flags -> Emails \cup {Nothing}]
BY DEF Unused, CallDoc, Asks, NoField

LEMMA DoorStarts == Init => DoorInv
<1> SUFFICES ASSUME Init
             PROVE  DoorInv
  OBVIOUS
<1>1. \A s \in Slots : ~UnderWay(s)
  BY UnusedSlot DEF Init, UnderWay
<1>2. DoorTyped
  <2>1. server \in ServerDoc
    BY DEF Init, ServerDoc
  <2> QED BY <2>1, UnusedSlot, FrontDoorAssumption DEF Init, DoorTyped, Flags
<1>3. screen \in {"signin", "reset", "invite"} /\ (screen = "invite" => door = "dashboard")
  <2>1. door \in {"web", "phone", "dashboard", "admin"}
    BY FrontDoorAssumption DEF Init, Customers
  <2> QED BY <2>1 DEF Init, Entrances
<1>4. PagesFit /\ ClaimsAreTrue /\ FinishIsAsChosen
  BY <1>1, <1>3, WizardPages DEF Init, PagesFit, ClaimsAreTrue, FinishIsAsChosen
<1> QED BY <1>1, <1>2, <1>4 DEF DoorInv, FlagsFit, Fits, Waits

\* A request that leaves, from a form that waits for no other on a dashboard.
LEMMA SendKeeps ==
    ASSUME DoorInv, NEW s \in Slots, NEW what \in Asks \ {"login", "me"},
           NEW email \in Emails \cup {Nothing}, Send(s, what, email),
           door \notin Customers => Free(Flag(what)),
           what \in {"enter", "register"} => door \in Customers,
           what = "otp" => door \notin Customers /\ email = field["form"],
           what \in MerchantAsks => door = "dashboard",
           what = "accept" <=> screen = "invite",
           what = "complete" => screen = "finish",
           what = "configure" => screen = "configure"
    PROVE  DoorInv'
<1>1. PICK c : c = [at |-> "sent", what |-> what, email |-> email, choice |-> choice, live |-> TRUE]
  OBVIOUS
<1>2. /\ calls[s].at = "unused" /\ calls' = [calls EXCEPT ![s] = c]
      /\ busy' = busy \cup {Flag(what)}
      /\ UNCHANGED <<door, screen, field, choice, wavered, challenge, stored, knows, server>>
  BY <1>1 DEF Send, form, route
<1>3. /\ c.at = "sent" /\ c.what = what /\ c.email = email /\ c.choice = choice /\ c.live = TRUE
      /\ Flag(what) \in Flags
  BY <1>1 DEF Flag, Flags
<1>4. calls \in [Slots -> CallDoc] /\ c \in CallDoc
  <2>1. what = "configure" => choice # Nothing
    BY DEF DoorInv, PagesFit
  <2> QED BY <1>1, <2>1 DEF DoorInv, DoorTyped, CallDoc
<1>5. calls'[s] = c /\ \A u \in Slots \ {s} : calls'[u] = calls[u]
  BY <1>2, <1>4
<1>6. UnderWay(s)' /\ ~UnderWay(s) /\ \A u \in Slots \ {s} : UnderWay(u)' <=> UnderWay(u)
  BY <1>2, <1>3, <1>5 DEF UnderWay
<1>7. DoorTyped'
  BY <1>2, <1>3, <1>4 DEF DoorInv, DoorTyped
<1>8. PagesFit'
  BY <1>2, <1>3, <1>5, <1>6 DEF DoorInv, PagesFit
<1>9. FlagsFit'
  <2> SUFFICES ASSUME door \notin Customers
               PROVE  /\ \A u \in Slots : Waits(u)' => Flag(calls'[u].what) \in busy'
                      /\ \A u, t \in Slots :
                            Waits(u)' /\ Waits(t)' /\ Flag(calls'[u].what) = Flag(calls'[t].what) => u = t
    BY <1>2 DEF FlagsFit
  <2>1. \A u \in Slots \ {s} : Waits(u)' => Waits(u) /\ calls'[u] = calls[u]
    BY <1>5, <1>6 DEF Waits
  <2>2. \A u \in Slots \ {s} : Waits(u)' => Flag(calls'[u].what) \in busy
    BY <2>1 DEF DoorInv, FlagsFit
  <2>3. Flag(what) \notin busy
    BY DEF Free
  <2>4. \A u \in Slots : Waits(u)' => Flag(calls'[u].what) \in busy'
    BY <1>2, <1>3, <1>5, <2>2
  <2>5. ASSUME NEW u \in Slots, NEW t \in Slots, Waits(u)', Waits(t)',
               Flag(calls'[u].what) = Flag(calls'[t].what)
        PROVE  u = t
    <3>1. CASE u = s \/ t = s
      BY <1>3, <1>5, <2>2, <2>3, <2>5, <3>1
    <3>2. CASE u # s /\ t # s
      BY <2>1, <2>5, <3>2 DEF DoorInv, FlagsFit
    <3> QED BY <3>1, <3>2
  <2> QED BY <2>4, <2>5
<1>10. ASSUME NEW u \in Slots
       PROVE  Fits(u)'
  <2>1. CASE u = s
    <3>1. AskerFits(s)'
      BY <1>2, <1>3, <1>5 DEF AskerFits
    <3>2. AnswerFits(s)'
      BY <1>2, <1>3, <1>5 DEF AnswerFits
    <3>3. what = "configure" => choice # Nothing
      BY DEF DoorInv, PagesFit
    <3>4. SavingFits(s)'
      BY <1>2, <1>3, <1>5, <3>3 DEF SavingFits
    <3> QED BY <2>1, <3>1, <3>2, <3>4 DEF Fits
  <2>2. CASE u # s
    BY <1>2, <1>5, <1>6, <2>2 DEF DoorInv, Fits, AskerFits, AnswerFits, SavingFits
  <2> QED BY <2>1, <2>2
<1>11. ClaimsAreTrue' /\ FinishIsAsChosen'
  BY <1>2 DEF DoorInv, ClaimsAreTrue, FinishIsAsChosen, Challenge
<1> QED BY <1>7, <1>8, <1>9, <1>10, <1>11 DEF DoorInv

\* What the service does only adds to what it has done, but for the wizard's
\* configuration.
LEMMA Serving ==
    ASSUME server \in ServerDoc, NEW c \in CallDoc, server' = Done(c)
    PROVE  /\ server.mailed \subseteq server'.mailed
           /\ c.what \in {"register", "otp"} => c.email \in server'.mailed
           /\ server.linked \/ c.what = "forgot" => server'.linked
           /\ server.reset \/ c.what = "reset" => server'.reset
           /\ server.joined \/ c.what = "accept" => server'.joined
           /\ server.shops # {} \/ c.what = "signup" => server'.shops # {}
           /\ server'.config = IF c.what = "configure" THEN c.choice ELSE server.config
           /\ server' \in ServerDoc
<1>1. c.email \in Emails \cup {Nothing} /\ c.choice \in Programmes \cup {Nothing}
  BY DEF CallDoc
<1>2. /\ server.mailed \in SUBSET (Emails \cup {Nothing}) /\ server.shops \in SUBSET (Emails \cup {Nothing})
      /\ server.config \in Programmes \cup {Nothing}
  BY DEF ServerDoc
<1>3. PICK m \in SUBSET (Emails \cup {Nothing}) :
         m = IF c.what \in {"register", "otp"} THEN server.mailed \cup {c.email} ELSE server.mailed
  BY <1>1, <1>2
<1>4. PICK h \in SUBSET (Emails \cup {Nothing}) :
         h = IF c.what = "signup" THEN server.shops \cup {c.email} ELSE server.shops
  BY <1>1, <1>2
<1>5. PICK g \in Programmes \cup {Nothing} :
         g = IF c.what = "configure" THEN c.choice ELSE server.config
  BY <1>1, <1>2
<1>6. PICK l \in BOOLEAN, r \in BOOLEAN, j \in BOOLEAN, f \in BOOLEAN :
         /\ l = (server.linked \/ c.what = "forgot") /\ r = (server.reset \/ c.what = "reset")
         /\ j = (server.joined \/ c.what = "accept") /\ f = (server.completed \/ c.what = "complete")
  OBVIOUS
<1>7. server' = [server EXCEPT !.mailed = m, !.linked = l, !.reset = r, !.joined = j, !.shops = h,
                               !.config = g, !.completed = f]
  BY <1>3, <1>4, <1>5, <1>6 DEF Done
<1>8. /\ server'.mailed = m /\ server'.linked = l /\ server'.reset = r
      /\ server'.joined = j /\ server'.shops = h /\ server'.config = g
  BY <1>7 DEF ServerDoc
<1>9. server' \in ServerDoc BY <1>7 DEF ServerDoc
<1> QED BY <1>3, <1>4, <1>5, <1>6, <1>8, <1>9

\* A page says no more than before, but for the wizard's configuration, which
\* no page speaks of while it is being saved.
LEMMA ServeKeeps ==
    ASSUME DoorInv, NEW s \in Slots, ServeOne(s)
    PROVE  DoorInv'
<1>1. PICK c \in CallDoc : c = calls[s]
  BY DEF DoorInv, DoorTyped
<1>2. PICK d : d = [c EXCEPT !.at = "done"]
  OBVIOUS
<1>3. /\ c.at = "sent" /\ calls' = [calls EXCEPT ![s] = d] /\ server' = Done(c)
      /\ UNCHANGED <<door, screen, field, choice, wavered, challenge, stored, busy, knows>>
  <2>1. calls' = [calls EXCEPT ![s].at = "done"]
    BY DEF ServeOne
  <2> QED BY <1>1, <1>2, <2>1 DEF ServeOne, form, route
<1>4. /\ d \in CallDoc /\ d.at = "done" /\ d.what = c.what /\ d.email = c.email
      /\ d.choice = c.choice /\ d.live = c.live
  BY <1>2 DEF CallDoc
<1>5. calls \in [Slots -> CallDoc] /\ server \in ServerDoc
  BY DEF DoorInv, DoorTyped
<1>6. calls'[s] = d /\ \A u \in Slots \ {s} : calls'[u] = calls[u]
  BY <1>3, <1>5
<1>7. UnderWay(s)' /\ UnderWay(s) /\ \A u \in Slots \ {s} : UnderWay(u)' <=> UnderWay(u)
  BY <1>1, <1>3, <1>4, <1>6 DEF UnderWay
<1>8. /\ server.mailed \subseteq server'.mailed
      /\ c.what \in {"register", "otp"} => c.email \in server'.mailed
      /\ server.linked \/ c.what = "forgot" => server'.linked
      /\ server.reset \/ c.what = "reset" => server'.reset
      /\ server.joined \/ c.what = "accept" => server'.joined
      /\ server.shops # {} \/ c.what = "signup" => server'.shops # {}
      /\ server'.config = IF c.what = "configure" THEN c.choice ELSE server.config
      /\ server' \in ServerDoc
  BY <1>1, <1>3, <1>5, Serving
<1>9. DoorTyped'
  BY <1>3, <1>4, <1>5, <1>8 DEF DoorInv, DoorTyped
<1>10. PagesFit'
  BY <1>1, <1>3, <1>4, <1>6, <1>7, <1>8 DEF DoorInv, PagesFit
<1>11. FlagsFit'
  BY <1>1, <1>3, <1>4, <1>6, <1>7 DEF DoorInv, FlagsFit, Waits
<1>12. Fits(s)
  BY DEF DoorInv
<1>13. ASSUME NEW u \in Slots
       PROVE  Fits(u)'
  <2>1. CASE u = s
    <3>1. AskerFits(s)'
      BY <1>1, <1>3, <1>4, <1>6, <1>7, <1>12 DEF Fits, AskerFits
    <3>2. AnswerFits(s)'
      BY <1>1, <1>3, <1>4, <1>6, <1>7, <1>8, <1>12 DEF Fits, AnswerFits
    <3>3. SavingFits(s)'
      BY <1>1, <1>3, <1>4, <1>6, <1>7, <1>8, <1>12 DEF Fits, SavingFits
    <3> QED BY <2>1, <3>1, <3>2, <3>3 DEF Fits
  <2>2. CASE u # s
    <3>1. AskerFits(u) <=> AskerFits(u)'
      BY <1>3, <1>6, <2>2 DEF AskerFits
    <3>2. AnswerFits(u) => AnswerFits(u)'
      BY <1>3, <1>6, <1>8, <2>2 DEF AnswerFits
    <3>3. ASSUME UnderWay(u), SavingFits(u)
          PROVE  SavingFits(u)'
      <4>1. CASE c.what # "configure"
        BY <1>3, <1>6, <1>8, <2>2, <3>3, <4>1 DEF SavingFits
      <4>2. CASE c.what = "configure"
        <5>1. c.choice # Nothing /\ door = "dashboard" /\ (~wavered => c.live)
          BY <1>1, <1>7, <1>12, <4>2 DEF Fits, AskerFits, SavingFits, MerchantAsks
        <5>2. calls[u].what = "configure" => wavered
          <6>1. calls[u].what = "configure" /\ ~wavered => Waits(u) /\ Waits(s)
            BY <1>1, <1>7, <3>3, <5>1 DEF SavingFits, Waits
          <6> QED BY <1>1, <2>2, <4>2, <5>1, <6>1 DEF DoorInv, FlagsFit, Flag, Customers
        <5> QED BY <1>3, <1>6, <1>8, <2>2, <3>3, <4>2, <5>1, <5>2 DEF SavingFits
      <4> QED BY <4>1, <4>2
    <3> QED BY <1>7, <2>2, <3>1, <3>2, <3>3 DEF DoorInv, Fits
  <2> QED BY <2>1, <2>2
<1>14. ClaimsAreTrue'
  <2>1. c.what = "configure" => c.choice # Nothing
    BY <1>1, <1>7, <1>12 DEF Fits, SavingFits
  <2> QED BY <1>3, <1>8, <2>1 DEF DoorInv, ClaimsAreTrue, Challenge
<1>15. FinishIsAsChosen'
  BY <1>1, <1>3, <1>7, <1>8, <1>12 DEF DoorInv, FinishIsAsChosen, Fits, SavingFits
<1> QED BY <1>9, <1>10, <1>11, <1>13, <1>14, <1>15 DEF DoorInv

\* A refusal changes nothing yet.
LEMMA RefuseKeeps ==
    ASSUME DoorInv, NEW s \in Slots, Refuse(s)
    PROVE  DoorInv'
<1>1. PICK c \in CallDoc : c = calls[s]
  BY DEF DoorInv, DoorTyped
<1>2. PICK d : d = [c EXCEPT !.at = "refused"]
  OBVIOUS
<1>3. /\ c.at = "sent" /\ calls' = [calls EXCEPT ![s] = d]
      /\ UNCHANGED <<door, screen, field, choice, wavered, challenge, stored, busy, knows, server>>
  <2>1. calls' = [calls EXCEPT ![s].at = "refused"]
    BY DEF Refuse
  <2> QED BY <1>1, <1>2, <2>1 DEF Refuse, form, route
<1>4. /\ d \in CallDoc /\ d.at = "refused" /\ d.what = c.what /\ d.email = c.email
      /\ d.choice = c.choice /\ d.live = c.live
  BY <1>2 DEF CallDoc
<1>5. calls'[s] = d /\ \A u \in Slots \ {s} : calls'[u] = calls[u]
  BY <1>3 DEF DoorInv, DoorTyped
<1>6. UnderWay(s)' /\ UnderWay(s) /\ \A u \in Slots \ {s} : UnderWay(u)' <=> UnderWay(u)
  BY <1>1, <1>3, <1>4, <1>5 DEF UnderWay
<1>7. DoorTyped'
  BY <1>3, <1>4 DEF DoorInv, DoorTyped
<1>8. PagesFit'
  BY <1>1, <1>3, <1>4, <1>5, <1>6 DEF DoorInv, PagesFit
<1>9. FlagsFit'
  BY <1>1, <1>3, <1>4, <1>5, <1>6 DEF DoorInv, FlagsFit, Waits
<1>10. ASSUME NEW u \in Slots
       PROVE  Fits(u)'
  <2>1. CASE u = s
    BY <1>1, <1>3, <1>4, <1>5, <1>6, <2>1 DEF DoorInv, Fits, AskerFits, AnswerFits, SavingFits
  <2>2. CASE u # s
    BY <1>3, <1>5, <1>6, <2>2 DEF DoorInv, Fits, AskerFits, AnswerFits, SavingFits
  <2> QED BY <2>1, <2>2
<1>11. ClaimsAreTrue' /\ FinishIsAsChosen'
  BY <1>3 DEF DoorInv, ClaimsAreTrue, FinishIsAsChosen, Challenge
<1> QED BY <1>7, <1>8, <1>9, <1>10, <1>11 DEF DoorInv

\* While a dashboard's form waits for one request, no other saves or finishes.
LEMMA OthersAtRest ==
    ASSUME DoorInv, NEW s \in Slots, Waits(s), Flag(calls[s].what) = "form",
           NEW u \in Slots \ {s}, UnderWay(u)
    PROVE  /\ calls[u].what \notin {"accept", "complete"}
           /\ calls[u].what = "configure" => wavered
<1>1. Fits(u)
  BY DEF DoorInv
<1>2. calls[u].what \in {"accept", "complete", "configure"} =>
         door \notin Customers /\ Flag(calls[u].what) = "form"
  BY <1>1 DEF Fits, AskerFits, MerchantAsks, Flag, Customers
<1>3. calls[u].what \in {"accept", "complete"} \/ (calls[u].what = "configure" /\ ~wavered) => Waits(u)
  BY <1>1 DEF Fits, AskerFits, SavingFits, Waits
<1> QED BY <1>2, <1>3 DEF DoorInv, FlagsFit

\* A request is over: what is left fits as before, on the same page or, if the
\* page had waited for it, on the one it leads to.
LEMMA StayOnKeeps ==
    ASSUME DoorInv, NEW s \in Slots, UnderWay(s), NEW t, StayOn(s, t),
           \/ screen' = screen
           \/ /\ Waits(s) /\ Flag(calls[s].what) = "form" /\ screen' = t
              /\ t \in WizardSteps \cup {"signup", "in"} => screen \in WizardSteps
              /\ t # "invite"
              /\ t \in {"configure", "finish"} => choice # Nothing
              /\ ClaimsAreTrue' /\ FinishIsAsChosen'
    PROVE  DoorInv'
<1>1. /\ calls' = [calls EXCEPT ![s] = Unused]
      /\ busy' = IF calls[s].live THEN busy \ {Flag(calls[s].what)} ELSE busy
      /\ UNCHANGED <<door, field, choice, wavered, challenge, stored, knows, server>>
  BY DEF StayOn, Settled, form, route
<1>2. calls \in [Slots -> CallDoc]
  BY DEF DoorInv, DoorTyped
<1>3. calls'[s] = Unused /\ \A u \in Slots \ {s} : calls'[u] = calls[u]
  BY <1>1, <1>2
<1>4. ~UnderWay(s)' /\ \A u \in Slots \ {s} : UnderWay(u)' <=> UnderWay(u)
  BY <1>3, UnusedSlot DEF UnderWay
<1>5. DoorTyped'
  BY <1>1, UnusedSlot DEF DoorInv, DoorTyped
<1>6. FlagsFit'
  <2> SUFFICES ASSUME door \notin Customers
               PROVE  /\ \A u \in Slots : Waits(u)' => Flag(calls'[u].what) \in busy'
                      /\ \A u, v \in Slots :
                            Waits(u)' /\ Waits(v)' /\ Flag(calls'[u].what) = Flag(calls'[v].what) => u = v
    BY <1>1 DEF FlagsFit
  <2>1. \A u \in Slots : Waits(u)' => u # s /\ Waits(u) /\ calls'[u] = calls[u]
    BY <1>3, <1>4 DEF Waits
  <2>2. \A u \in Slots \ {s} : Waits(u) => Flag(calls[u].what) \in busy'
    BY <1>1 DEF DoorInv, FlagsFit, Waits
  <2> QED BY <2>1, <2>2 DEF DoorInv, FlagsFit
<1>7. CASE screen' = screen
  <2>1. PagesFit'
    BY <1>1, <1>3, <1>4, <1>7 DEF DoorInv, PagesFit
  <2>2. ASSUME NEW u \in Slots
        PROVE  Fits(u)'
    <3>1. CASE u = s
      BY <1>4, <3>1 DEF Fits
    <3>2. CASE u # s
      BY <1>1, <1>3, <1>4, <1>7, <3>2 DEF DoorInv, Fits, AskerFits, AnswerFits, SavingFits
    <3> QED BY <3>1, <3>2
  <2>3. ClaimsAreTrue' /\ FinishIsAsChosen'
    BY <1>1, <1>7 DEF DoorInv, ClaimsAreTrue, FinishIsAsChosen, Challenge
  <2> QED BY <1>5, <1>6, <2>1, <2>2, <2>3 DEF DoorInv
<1>8. CASE /\ Waits(s) /\ Flag(calls[s].what) = "form" /\ screen' = t
           /\ t \in WizardSteps \cup {"signup", "in"} => screen \in WizardSteps
           /\ t # "invite"
           /\ t \in {"configure", "finish"} => choice # Nothing
           /\ ClaimsAreTrue' /\ FinishIsAsChosen'
  <2>1. PagesFit'
    BY <1>1, <1>8 DEF DoorInv, PagesFit, ClaimsAreTrue
  <2>2. ASSUME NEW u \in Slots
        PROVE  Fits(u)'
    <3>1. CASE u = s
      BY <1>4, <3>1 DEF Fits
    <3>2. CASE u # s
      <4>1. UnderWay(u) => /\ calls[u].what \notin {"accept", "complete"}
                           /\ calls[u].what = "configure" => wavered
        BY <1>8, <3>2, OthersAtRest
      <4>2. UnderWay(u) => AskerFits(u)'
        BY <1>1, <1>3, <3>2, <4>1 DEF DoorInv, Fits, AskerFits
      <4>3. UnderWay(u) => AnswerFits(u)'
        BY <1>1, <1>3, <3>2 DEF DoorInv, Fits, AnswerFits
      <4>4. UnderWay(u) => SavingFits(u)'
        BY <1>1, <1>3, <3>2, <4>1 DEF DoorInv, Fits, SavingFits
      <4> QED BY <1>4, <3>2, <4>2, <4>3, <4>4 DEF Fits
    <3> QED BY <3>1, <3>2
  <2> QED BY <1>5, <1>6, <1>8, <2>1, <2>2 DEF DoorInv
<1> QED BY <1>7, <1>8

\* Leaving a page leaves what requests are about.
LEMMA Leaving ==
    ASSUME DoorInv, NEW kept \in SUBSET Slots, Leave(kept)
    PROVE  /\ calls' \in [Slots -> CallDoc]
           /\ \A u \in Slots : UnderWay(u)' =>
                 /\ u \notin kept /\ UnderWay(u) /\ ~calls'[u].live
                 /\ calls'[u].at = calls[u].at /\ calls'[u].what = calls[u].what
                 /\ calls'[u].email = calls[u].email /\ calls'[u].choice = calls[u].choice
<1>1. calls \in [Slots -> CallDoc]
  BY DEF DoorInv, DoorTyped
<1>2. calls' = [u \in Slots |-> IF u \in kept THEN Unused
                                ELSE IF UnderWay(u) THEN [calls[u] EXCEPT !.live = FALSE] ELSE calls[u]]
  BY DEF Leave
<1>3. ASSUME NEW u \in Slots
      PROVE  /\ calls'[u] \in CallDoc
             /\ UnderWay(u)' => /\ u \notin kept /\ UnderWay(u) /\ ~calls'[u].live
                                /\ calls'[u].at = calls[u].at /\ calls'[u].what = calls[u].what
                                /\ calls'[u].email = calls[u].email
                                /\ calls'[u].choice = calls[u].choice
  <2>1. PICK c \in CallDoc : c = calls[u]
    BY <1>1
  <2>2. [c EXCEPT !.live = FALSE] \in CallDoc
    BY DEF CallDoc
  <2>3. CASE u \in kept
    BY <1>2, <2>3, UnusedSlot DEF UnderWay
  <2>4. CASE u \notin kept /\ UnderWay(u)
    <3>1. calls'[u] = [c EXCEPT !.live = FALSE]
      BY <1>2, <2>1, <2>4
    <3> QED BY <2>1, <2>2, <2>4, <3>1 DEF CallDoc
  <2>5. CASE u \notin kept /\ ~UnderWay(u)
    <3>1. calls'[u] = calls[u]
      BY <1>2, <2>5
    <3> QED BY <1>1, <2>5, <3>1 DEF UnderWay
  <2> QED BY <2>3, <2>4, <2>5
<1> QED BY <1>2, <1>3

\* Another page: nothing waits any more, and what is under way without a page
\* is neither an invitation, a finish nor, unless wavered, a configuration.
LEMMA GoKeeps ==
    ASSUME DoorInv, NEW t, NEW kept \in SUBSET Slots, Go(t, kept),
           \A u \in Slots \ kept : UnderWay(u) =>
              /\ calls[u].what \notin {"accept", "complete"}
              /\ calls[u].what = "configure" => wavered,
           t \notin {"signup", "invite", "type", "configure", "finish"},
           t = "category" => door = "dashboard",
           t = "in" => server.shops # {},
           {challenge', stored'} \subseteq server.mailed \cup {Nothing},
           ClaimsAreTrue'
    PROVE  DoorInv'
<1>1. /\ screen' = t /\ busy' = {} /\ choice' = Nothing
      /\ field' = field \/ field' = NoField
      /\ UNCHANGED <<door, knows, server, wavered>>
  BY DEF Go
<1>2. /\ calls' \in [Slots -> CallDoc]
      /\ \A u \in Slots : UnderWay(u)' =>
            /\ u \notin kept /\ UnderWay(u) /\ ~calls'[u].live
            /\ calls'[u].at = calls[u].at /\ calls'[u].what = calls[u].what
            /\ calls'[u].email = calls[u].email /\ calls'[u].choice = calls[u].choice
  BY Leaving DEF Go
<1>3. DoorTyped'
  BY <1>1, <1>2, UnusedSlot DEF DoorInv, DoorTyped
<1>4. PagesFit'
  BY <1>1, WizardPages DEF DoorInv, PagesFit
<1>5. FlagsFit'
  BY <1>2 DEF FlagsFit, Waits
<1>6. ASSUME NEW u \in Slots
      PROVE  Fits(u)'
  <2> SUFFICES ASSUME UnderWay(u)'
               PROVE  (AskerFits(u) /\ AnswerFits(u) /\ SavingFits(u))'
    BY DEF Fits
  <2>1. UnderWay(u) /\ u \notin kept /\ Fits(u)
    BY <1>2 DEF DoorInv
  <2>2. AskerFits(u)'
    BY <1>1, <1>2, <2>1 DEF Fits, AskerFits
  <2>3. AnswerFits(u)'
    BY <1>1, <1>2, <2>1 DEF Fits, AnswerFits
  <2>4. SavingFits(u)'
    BY <1>1, <1>2, <2>1 DEF Fits, SavingFits
  <2> QED BY <2>2, <2>3, <2>4
<1>7. FinishIsAsChosen'
  BY <1>1 DEF FinishIsAsChosen
<1> QED BY <1>3, <1>4, <1>5, <1>6, <1>7 DEF DoorInv

\* Where nothing waits to be accepted, saved or finished, a page may change.
LEMMA NoneSaved ==
    ASSUME DoorInv, screen \notin {"invite", "configure", "finish"}, NEW u \in Slots, UnderWay(u)
    PROVE  /\ calls[u].what \notin {"accept", "complete"}
           /\ calls[u].what = "configure" => wavered
BY DEF DoorInv, Fits, AskerFits, SavingFits

\* The modes of the dashboard's page, the steps of the wizard, and a choice.
LEMMA MoveKeeps ==
    ASSUME DoorInv, screen \notin {"invite", "configure", "finish"},
           UNCHANGED <<door, field, challenge, stored, busy, calls, server, wavered>>,
           choice' \in Programmes \cup {Nothing}, choice # Nothing => choice' # Nothing,
           screen' \notin {"invite", "finish"}, screen' = "configure" => choice' # Nothing,
           screen' \in WizardSteps => screen \in WizardSteps,
           screen' = "signup" => door = "dashboard",
           screen' = "in" => screen = "in",
           ClaimsAreTrue'
    PROVE  DoorInv'
<1>1. DoorTyped'
  BY DEF DoorInv, DoorTyped
<1>2. PagesFit'
  BY DEF DoorInv, PagesFit
<1>3. FlagsFit'
  BY DEF DoorInv, FlagsFit, Waits, UnderWay
<1>4. ASSUME NEW u \in Slots
      PROVE  Fits(u)'
  <2> SUFFICES ASSUME UnderWay(u)
               PROVE  (AskerFits(u) /\ AnswerFits(u) /\ SavingFits(u))'
    BY DEF Fits, UnderWay
  <2>1. /\ Fits(u) /\ calls[u].what \notin {"accept", "complete"}
        /\ calls[u].what = "configure" => wavered
    BY NoneSaved DEF DoorInv
  <2> QED BY <2>1 DEF Fits, AskerFits, AnswerFits, SavingFits
<1>5. FinishIsAsChosen'
  BY DEF FinishIsAsChosen
<1> QED BY <1>1, <1>2, <1>3, <1>4, <1>5 DEF DoorInv

\* The person switches, chooses, steps and turns back.
LEMMA SwitchKeeps == DoorInv /\ (SwitchMode \/ BackToPassword) => DoorInv'
<1> SUFFICES ASSUME DoorInv, SwitchMode \/ BackToPassword
             PROVE  DoorInv'
  OBVIOUS
<1>1. /\ screen \in {"signin", "code", "signup"} /\ screen' \in {"signin", "signup"}
      /\ screen' = "signup" => door = "dashboard"
      /\ UNCHANGED <<door, field, choice, challenge, stored, busy, calls, server, wavered>>
  BY DEF SwitchMode, BackToPassword, form, route
<1>2. choice \in Programmes \cup {Nothing}
  BY DEF DoorInv, DoorTyped
<1>3. ClaimsAreTrue'
  BY <1>1, WizardPages DEF ClaimsAreTrue
<1> QED BY <1>1, <1>2, <1>3, WizardPages, MoveKeeps

LEMMA ChooseKeeps == DoorInv /\ (Choose \/ HandleStep0 \/ HandleStep1) => DoorInv'
<1> SUFFICES ASSUME DoorInv, Choose \/ HandleStep0 \/ HandleStep1
             PROVE  DoorInv'
  OBVIOUS
<1>1. /\ screen \in {"category", "type"} /\ screen' \in {"type", "configure"}
      /\ choice' \in Programmes \cup {Nothing}
      /\ choice # Nothing \/ screen' = "configure" => choice' # Nothing
      /\ UNCHANGED <<door, field, challenge, stored, busy, calls, server, wavered>>
  <2>1. choice \in Programmes \cup {Nothing} /\ Nothing \notin Programmes
    BY FrontDoorAssumption DEF DoorInv, DoorTyped
  <2>2. CASE Choose
    BY <2>1, <2>2 DEF Choose, route
  <2>3. CASE HandleStep0
    BY <2>1, <2>3, WizardPages DEF HandleStep0, Step, form, route
  <2>4. CASE HandleStep1
    BY <2>1, <2>4, WizardPages DEF HandleStep1, Step, form, route
  <2> QED BY <2>2, <2>3, <2>4
<1>2. ClaimsAreTrue'
  BY <1>1, WizardPages DEF ClaimsAreTrue, DoorInv
<1> QED BY <1>1, <1>2, WizardPages, MoveKeeps

\* Back while the wizard saves makes it waver; otherwise nothing is being saved.
LEMMA GoBackKeeps == DoorInv /\ GoBack => DoorInv'
<1> SUFFICES ASSUME DoorInv, GoBack
             PROVE  DoorInv'
  OBVIOUS
<1>1. /\ screen \in {"type", "configure"} /\ screen' \in {"category", "type"}
      /\ wavered' = (wavered \/ busy # {})
      /\ UNCHANGED <<door, field, choice, challenge, stored, busy, calls, server>>
  BY WizardPages DEF GoBack, route
<1>2. DoorTyped'
  BY <1>1 DEF DoorInv, DoorTyped
<1>3. PagesFit'
  BY <1>1, WizardPages DEF DoorInv, PagesFit
<1>4. FlagsFit'
  BY <1>1 DEF DoorInv, FlagsFit, Waits, UnderWay
<1>5. ASSUME NEW u \in Slots
      PROVE  Fits(u)'
  <2> SUFFICES ASSUME UnderWay(u)
               PROVE  (AskerFits(u) /\ AnswerFits(u) /\ SavingFits(u))'
    BY <1>1 DEF Fits, UnderWay
  <2>1. Fits(u)
    BY DEF DoorInv
  <2>2. calls[u].what = "configure" => wavered'
    <3>1. SUFFICES ASSUME calls[u].what = "configure", ~wavered, busy = {}
                   PROVE  FALSE
      BY <1>1
    <3>2. Waits(u) /\ door \notin Customers
      BY <2>1, <3>1 DEF Fits, AskerFits, SavingFits, Waits, MerchantAsks, Customers
    <3> QED BY <3>1, <3>2 DEF DoorInv, FlagsFit
  <2>3. AskerFits(u)'
    BY <1>1, <2>1 DEF Fits, AskerFits
  <2>4. AnswerFits(u)'
    BY <1>1, <2>1 DEF Fits, AnswerFits
  <2>5. SavingFits(u)'
    BY <1>1, <2>1, <2>2 DEF Fits, SavingFits
  <2> QED BY <2>3, <2>4, <2>5
<1>6. ClaimsAreTrue' /\ FinishIsAsChosen'
  BY <1>1, WizardPages DEF DoorInv, ClaimsAreTrue, FinishIsAsChosen
<1> QED BY <1>2, <1>3, <1>4, <1>5, <1>6 DEF DoorInv

\* What is typed goes into a form that waits for nothing, or into one whose
\* request remembers what it was sent with.
LEMMA TypeKeeps == DoorInv /\ Type => DoorInv'
<1> SUFFICES ASSUME DoorInv, Type
             PROVE  DoorInv'
  OBVIOUS
<1>1. PICK e \in Emails : field' = [field EXCEPT ![Here] = e]
  BY DEF Type
<1>2. /\ screen \in Typable /\ (door \notin Customers => Here \notin busy)
      /\ UNCHANGED <<door, screen, choice, challenge, stored, busy, calls, server, wavered>>
  BY DEF Type, Editable, Typable, route
<1>3. DoorTyped'
  BY <1>1, <1>2 DEF DoorInv, DoorTyped, Here, Flags
<1>4. PagesFit' /\ ClaimsAreTrue' /\ FinishIsAsChosen'
  BY <1>2, WizardPages DEF DoorInv, PagesFit, ClaimsAreTrue, FinishIsAsChosen, Typable, UnderWay
<1>5. FlagsFit'
  BY <1>2 DEF DoorInv, FlagsFit, Waits, UnderWay
<1>6. ASSUME NEW u \in Slots
      PROVE  Fits(u)'
  <2> SUFFICES ASSUME UnderWay(u)
               PROVE  (AskerFits(u) /\ AnswerFits(u) /\ SavingFits(u))'
    BY <1>2 DEF Fits, UnderWay
  <2>1. Fits(u)
    BY DEF DoorInv
  <2>2. calls[u].what = "otp" /\ calls[u].live => field'["form"] = field["form"]
    <3>1. SUFFICES ASSUME calls[u].what = "otp", calls[u].live
                   PROVE  Here # "form"
      BY <1>1 DEF DoorInv, DoorTyped, Flags
    <3>2. "form" \in busy /\ door \notin Customers
      BY <2>1, <3>1 DEF DoorInv, FlagsFit, Waits, Flag, Fits, AskerFits
    <3> QED BY <1>2, <3>2
  <2> QED BY <1>2, <2>1, <2>2 DEF Fits, AskerFits, AnswerFits, SavingFits
<1> QED BY <1>3, <1>4, <1>5, <1>6 DEF DoorInv

\* A link leads from a page that waits for nothing that matters later.
LEMMA FollowKeeps == DoorInv /\ (Follow \/ OpenCode \/ VisitRoot) => DoorInv'
<1> SUFFICES ASSUME DoorInv, Follow \/ OpenCode \/ VisitRoot
             PROVE  DoorInv'
  OBVIOUS
<1>1. CASE Follow
  <2>1. PICK t : <<screen, t>> \in Links /\ Go(t, {}) /\ UNCHANGED <<challenge, stored>>
    BY <1>1 DEF Follow, route
  <2>2. door \in {"web", "phone", "dashboard", "admin"}
    BY DEF DoorInv, DoorTyped, Customers
  <2>3. /\ t \in {"register", "signin", "forgot"}
        /\ screen \notin {"invite", "configure", "finish"}
    BY <2>1, <2>2 DEF Links
  <2>4. screen' = t
    BY <2>1 DEF Go
  <2>5. ClaimsAreTrue'
    BY <2>3, <2>4, WizardPages DEF ClaimsAreTrue
  <2>6. \A u \in Slots : UnderWay(u) => /\ calls[u].what \notin {"accept", "complete"}
                                        /\ calls[u].what = "configure" => wavered
    BY <2>3, NoneSaved
  <2>7. {challenge, stored} \subseteq server.mailed \cup {Nothing}
    BY DEF DoorInv, PagesFit
  <2> QED BY <2>1, <2>3, <2>5, <2>6, <2>7, GoKeeps
<1>2. CASE OpenCode
  <2>1. /\ Go("code", {}) /\ challenge' = stored /\ stored' = stored /\ stored # Nothing
        /\ screen = "signin" /\ door = "web"
    BY <1>2 DEF OpenCode
  <2>2. screen' = "code" /\ UNCHANGED <<door, server>>
    BY <2>1 DEF Go
  <2>3. stored \in server.mailed
    BY <2>1 DEF DoorInv, PagesFit
  <2>4. ClaimsAreTrue'
    BY <2>1, <2>2, <2>3, WizardPages DEF ClaimsAreTrue, Challenge, Customers
  <2>5. \A u \in Slots : UnderWay(u) => /\ calls[u].what \notin {"accept", "complete"}
                                        /\ calls[u].what = "configure" => wavered
    BY <2>1, NoneSaved
  <2> QED BY <2>1, <2>3, <2>4, <2>5, GoKeeps
<1>3. CASE VisitRoot
  <2>1. Go("category", {}) /\ screen = "in" /\ door = "dashboard" /\ UNCHANGED <<challenge, stored>>
    BY <1>3 DEF VisitRoot, route
  <2>2. screen' = "category" /\ UNCHANGED <<door, server>>
    BY <2>1 DEF Go
  <2>3. server.shops # {} /\ {challenge, stored} \subseteq server.mailed \cup {Nothing}
    BY <2>1 DEF DoorInv, PagesFit
  <2>4. ClaimsAreTrue'
    BY <2>2, <2>3 DEF ClaimsAreTrue
  <2>5. \A u \in Slots : UnderWay(u) => /\ calls[u].what \notin {"accept", "complete"}
                                        /\ calls[u].what = "configure" => wavered
    BY <2>1, NoneSaved
  <2> QED BY <2>1, <2>3, <2>4, <2>5, GoKeeps
<1> QED BY <1>1, <1>2, <1>3

\* Every gesture that makes a request meets what SendKeeps asks for.
LEMMA GestureKeeps ==
    ASSUME DoorInv, NEW s \in Slots, Gesture(s)
    PROVE  DoorInv'
<1>1. /\ field["form"] \in Emails \cup {Nothing} /\ field["signup"] \in Emails \cup {Nothing}
      /\ Challenge \in Emails \cup {Nothing}
      /\ door \in {"web", "phone", "dashboard", "admin"} /\ Customers = {"web", "phone"}
  <2>1. {challenge} \subseteq Emails \cup {Nothing}
    BY DEF DoorInv, DoorTyped, PagesFit, ServerDoc
  <2> QED BY <2>1 DEF DoorInv, DoorTyped, Flags, Challenge, Customers
<1>2. /\ screen \in WizardSteps \cup {"signup", "invite"} => door = "dashboard"
      /\ \A what \in MerchantAsks : what \in Asks
      /\ {"enter", "register", "otp", "verify", "forgot", "reset"} \subseteq Asks \ {"login", "me"}
      /\ {"accept", "signup", "configure", "complete"} \subseteq Asks \ {"login", "me"}
  BY DEF DoorInv, PagesFit, MerchantAsks, Asks
<1>3. /\ \A what \in {"enter", "register", "otp", "verify", "forgot", "reset", "accept", "configure",
                      "complete"} : Flag(what) = "form"
      /\ Flag("signup") = "signup"
  BY DEF Flag
<1>4. CASE HandleLogin(s)
  BY <1>1, <1>2, <1>3, <1>4, WizardPages, SendKeeps DEF HandleLogin, FreeOrEnter, MerchantAsks
<1>5. CASE PhoneLogin(s)
  BY <1>1, <1>2, <1>3, <1>5, WizardPages, SendKeeps DEF PhoneLogin, MerchantAsks
<1>6. CASE HandleRegister(s)
  BY <1>1, <1>2, <1>3, <1>6, WizardPages, SendKeeps DEF HandleRegister, FreeOrEnter, MerchantAsks
<1>7. CASE PhoneRegister(s)
  BY <1>1, <1>2, <1>3, <1>7, WizardPages, SendKeeps DEF PhoneRegister, MerchantAsks
<1>8. CASE RequestOtpCode(s)
  BY <1>1, <1>2, <1>3, <1>8, WizardPages, SendKeeps DEF RequestOtpCode, MerchantAsks
<1>9. CASE AdminRequestOtp(s)
  BY <1>1, <1>2, <1>3, <1>9, WizardPages, SendKeeps DEF AdminRequestOtp, MerchantAsks
<1>10. CASE ResendCode(s)
  BY <1>1, <1>2, <1>3, <1>10, WizardPages, SendKeeps DEF ResendCode, MerchantAsks
<1>11. CASE HandleVerify(s)
  BY <1>1, <1>2, <1>3, <1>11, WizardPages, SendKeeps DEF HandleVerify, MerchantAsks
<1>12. CASE PhoneVerify(s)
  BY <1>1, <1>2, <1>3, <1>12, WizardPages, SendKeeps DEF PhoneVerify, MerchantAsks
<1>13. CASE HandleAdminOtpVerify(s)
  BY <1>1, <1>2, <1>3, <1>13, WizardPages, SendKeeps DEF HandleAdminOtpVerify, MerchantAsks
<1>14. CASE HandleForgot(s)
  BY <1>1, <1>2, <1>3, <1>14, WizardPages, SendKeeps DEF HandleForgot, FreeOrEnter, MerchantAsks
<1>15. CASE PhoneForgot(s)
  BY <1>1, <1>2, <1>3, <1>15, WizardPages, SendKeeps DEF PhoneForgot, MerchantAsks
<1>16. CASE DashboardForgot(s)
  BY <1>1, <1>2, <1>3, <1>16, WizardPages, SendKeeps DEF DashboardForgot, MerchantAsks
<1>17. CASE HandleReset(s)
  BY <1>1, <1>2, <1>3, <1>17, WizardPages, SendKeeps DEF HandleReset, FreeOrEnter, MerchantAsks
<1>18. CASE DashboardReset(s)
  BY <1>1, <1>2, <1>3, <1>18, WizardPages, SendKeeps DEF DashboardReset, MerchantAsks
<1>19. CASE AcceptInvite(s)
  BY <1>1, <1>2, <1>3, <1>19, WizardPages, SendKeeps DEF AcceptInvite, MerchantAsks
<1>20. CASE HandleSignup(s)
  BY <1>1, <1>2, <1>3, <1>20, WizardPages, SendKeeps DEF HandleSignup, MerchantAsks
<1>21. CASE HandleConfigure(s)
  BY <1>1, <1>2, <1>3, <1>21, WizardPages, SendKeeps DEF HandleConfigure, Configurable, MerchantAsks
<1>22. CASE HandleFinish(s)
  BY <1>1, <1>2, <1>3, <1>22, WizardPages, SendKeeps DEF HandleFinish, MerchantAsks
<1> QED BY <1>4, <1>5, <1>6, <1>7, <1>8, <1>9, <1>10, <1>11, <1>12, <1>13, <1>14, <1>15, <1>16,
           <1>17, <1>18, <1>19, <1>20, <1>21, <1>22 DEF Gesture

\* A sign-up goes on to sign in and to fetch the user: it has opened a shop.
LEMMA GoOnKeeps ==
    ASSUME DoorInv, NEW s \in Slots, calls[s].at = "done", NEW what, GoOn(s, what),
           \/ calls[s].what = "signup" /\ what = "login"
           \/ calls[s].what = "login" /\ what = "me"
    PROVE  DoorInv'
<1>1. PICK c \in CallDoc : c = calls[s]
  BY DEF DoorInv, DoorTyped
<1>2. PICK d : d = [c EXCEPT !.at = "sent", !.what = what]
  OBVIOUS
<1>3. /\ calls' = [calls EXCEPT ![s] = d]
      /\ UNCHANGED <<door, screen, field, choice, wavered, challenge, stored, busy, knows, server>>
  <2>1. calls' = [calls EXCEPT ![s].at = "sent", ![s].what = what]
    BY DEF GoOn
  <2> QED BY <1>1, <1>2, <2>1 DEF GoOn, form, route, DoorInv, DoorTyped
<1>4. /\ d \in CallDoc /\ d.at = "sent" /\ d.what = what /\ d.live = c.live
  BY <1>2 DEF CallDoc, Asks
<1>5. calls'[s] = d /\ \A u \in Slots \ {s} : calls'[u] = calls[u]
  BY <1>3 DEF DoorInv, DoorTyped
<1>6. UnderWay(s)' /\ UnderWay(s) /\ \A u \in Slots \ {s} : UnderWay(u)' <=> UnderWay(u)
  BY <1>1, <1>3, <1>4, <1>5 DEF UnderWay
<1>7. Fits(s) /\ Flag(what) = Flag(c.what) /\ c.what \in {"signup", "login"}
  BY <1>1 DEF DoorInv, Flag
<1>8. door = "dashboard" /\ server.shops # {}
  BY <1>1, <1>6, <1>7 DEF Fits, AskerFits, AnswerFits, MerchantAsks
<1>9. DoorTyped'
  BY <1>3, <1>4 DEF DoorInv, DoorTyped
<1>10. screen # "invite"
  BY <1>1, <1>6, <1>7 DEF DoorInv, PagesFit
<1>11. PagesFit'
  BY <1>3, <1>10 DEF DoorInv, PagesFit
<1>12. FlagsFit'
  BY <1>1, <1>3, <1>4, <1>5, <1>6, <1>7 DEF DoorInv, FlagsFit, Waits
<1>13. ASSUME NEW u \in Slots
       PROVE  Fits(u)'
  <2>1. CASE u = s
    <3>1. AskerFits(s)'
      BY <1>3, <1>4, <1>5, <1>8 DEF AskerFits
    <3>2. AnswerFits(s)' /\ SavingFits(s)'
      BY <1>3, <1>4, <1>5, <1>8 DEF AnswerFits, SavingFits
    <3> QED BY <2>1, <3>1, <3>2 DEF Fits
  <2>2. CASE u # s
    BY <1>3, <1>5, <1>6, <2>2 DEF DoorInv, Fits, AskerFits, AnswerFits, SavingFits
  <2> QED BY <2>1, <2>2
<1>14. ClaimsAreTrue' /\ FinishIsAsChosen'
  BY <1>3 DEF DoorInv, ClaimsAreTrue, FinishIsAsChosen, Challenge
<1> QED BY <1>9, <1>11, <1>12, <1>13, <1>14 DEF DoorInv

\* On a customer's pages it matters only what the service has done.
LEMMA CustomerKeeps ==
    ASSUME DoorInv, door \in Customers, NEW s \in Slots, UnderWay(s),
           calls' \in [Slots -> CallDoc],
           \A u \in Slots : UnderWay(u)' => /\ UnderWay(u) /\ calls'[u].at = calls[u].at
                                            /\ calls'[u].what = calls[u].what
                                            /\ calls'[u].email = calls[u].email,
           busy' \subseteq busy, screen' = "code", challenge' \in server.mailed,
           stored' \in server.mailed \cup {Nothing},
           UNCHANGED <<door, field, choice, server, wavered>>
    PROVE  DoorInv'
<1>1. DoorTyped'
  BY DEF DoorInv, DoorTyped
<1>2. PagesFit'
  BY WizardPages DEF PagesFit
<1>3. FlagsFit'
  BY DEF FlagsFit
<1>4. ASSUME NEW u \in Slots
      PROVE  Fits(u)'
  <2> SUFFICES ASSUME UnderWay(u)'
               PROVE  (AskerFits(u) /\ AnswerFits(u) /\ SavingFits(u))'
    BY DEF Fits
  <2>1. Fits(u) /\ UnderWay(u)
    BY DEF DoorInv
  <2>2. calls[u].what \notin MerchantAsks /\ calls[u].what # "otp"
    BY <2>1 DEF Fits, AskerFits, Customers
  <2> QED BY <2>1, <2>2 DEF Fits, AskerFits, AnswerFits, SavingFits, MerchantAsks
<1>5. ClaimsAreTrue' /\ FinishIsAsChosen'
  BY WizardPages DEF ClaimsAreTrue, FinishIsAsChosen, Challenge
<1> QED BY <1>1, <1>2, <1>3, <1>4, <1>5 DEF DoorInv

\* A registration opens the page that asks for the code it was mailed.
LEMMA NavigateKeeps ==
    ASSUME DoorInv, NEW s \in Slots, calls[s].at = "done", calls[s].what = "register",
           NavigateToCode(s)
    PROVE  DoorInv'
<1>1. UnderWay(s) /\ Fits(s)
  BY DEF UnderWay, DoorInv
<1>2. door \in Customers /\ calls[s].email \in server.mailed
  BY <1>1 DEF Fits, AskerFits, AnswerFits
<1>3. {challenge, stored} \subseteq server.mailed \cup {Nothing}
  BY DEF DoorInv, PagesFit
<1>4. challenge' \in server.mailed /\ stored' \in server.mailed \cup {Nothing}
  BY <1>2, <1>3 DEF NavigateToCode
<1>5. CASE screen = "code"
  <2>1. /\ calls' = [calls EXCEPT ![s] = Unused]
        /\ UNCHANGED <<door, screen, field, choice, wavered, busy, server>>
    BY <1>5 DEF NavigateToCode, form
  <2>2. calls \in [Slots -> CallDoc]
    BY DEF DoorInv, DoorTyped
  <2>3. /\ calls' \in [Slots -> CallDoc] /\ calls'[s] = Unused
        /\ \A u \in Slots \ {s} : calls'[u] = calls[u]
    BY <2>1, <2>2, UnusedSlot
  <2>4. ~UnderWay(s)' /\ \A u \in Slots \ {s} : UnderWay(u)' <=> UnderWay(u)
    BY <2>3, UnusedSlot DEF UnderWay
  <2> QED BY <1>1, <1>2, <1>4, <1>5, <2>1, <2>3, <2>4, CustomerKeeps
<1>6. CASE screen # "code" /\ door = "phone"
  <2>1. /\ screen' = "code" /\ Leave({s}) /\ busy' = {}
        /\ UNCHANGED <<door, field, choice, wavered, server>>
    BY <1>6 DEF NavigateToCode, form
  <2> QED BY <1>1, <1>2, <1>4, <2>1, Leaving, CustomerKeeps
<1>7. CASE screen # "code" /\ door # "phone"
  <2>1. Go("code", {s})
    BY <1>7 DEF NavigateToCode
  <2>2. screen' = "code" /\ UNCHANGED <<door, server>>
    BY <2>1 DEF Go
  <2>3. ClaimsAreTrue'
    BY <1>2, <1>4, <2>2, WizardPages DEF ClaimsAreTrue, Challenge
  <2>4. ASSUME NEW u \in Slots, UnderWay(u)
        PROVE  calls[u].what \notin {"accept", "complete", "configure"}
    <3>1. Fits(u)
      BY DEF DoorInv
    <3> QED BY <1>2, <2>4, <3>1 DEF Fits, AskerFits, MerchantAsks, Customers
  <2> QED BY <1>4, <2>1, <2>3, <2>4, GoKeeps
<1> QED BY <1>5, <1>6, <1>7

\* Who arrives is past all forms.
LEMMA ArriveKeeps ==
    ASSUME DoorInv, NEW s \in Slots, UnderWay(s), calls[s].what \in {"enter", "verify"}, Arrive(s)
    PROVE  DoorInv'
<1>1. /\ screen' = IF door = "dashboard" THEN "away" ELSE "in"
      /\ Leave(IF door = "dashboard" THEN Slots ELSE {s})
      /\ busy' = {} /\ field' = NoField /\ choice' = Nothing
      /\ challenge' = Nothing /\ stored' \in {Nothing, stored}
      /\ UNCHANGED <<door, server, wavered>>
  BY DEF Arrive
<1>2. PICK kept \in SUBSET Slots : kept = IF door = "dashboard" THEN Slots ELSE {s}
  OBVIOUS
<1>3. /\ calls' \in [Slots -> CallDoc]
      /\ \A u \in Slots : UnderWay(u)' =>
            /\ u \notin kept /\ UnderWay(u) /\ ~calls'[u].live
            /\ calls'[u].at = calls[u].at /\ calls'[u].what = calls[u].what
            /\ calls'[u].email = calls[u].email /\ calls'[u].choice = calls[u].choice
  BY <1>1, <1>2, Leaving
<1>4. DoorTyped'
  BY <1>1, <1>3, UnusedSlot DEF DoorInv, DoorTyped
<1>5. PagesFit' /\ ClaimsAreTrue' /\ FinishIsAsChosen'
  BY <1>1, WizardPages DEF DoorInv, PagesFit, ClaimsAreTrue, FinishIsAsChosen
<1>6. FlagsFit'
  BY <1>3 DEF FlagsFit, Waits
<1>7. ASSUME NEW u \in Slots
      PROVE  Fits(u)'
  <2> SUFFICES ASSUME UnderWay(u)'
               PROVE  (AskerFits(u) /\ AnswerFits(u) /\ SavingFits(u))'
    BY DEF Fits
  <2>1. Fits(u) /\ UnderWay(u) /\ door # "dashboard"
    BY <1>2, <1>3 DEF DoorInv
  <2>2. calls[u].what \notin MerchantAsks
    BY <2>1 DEF Fits, AskerFits
  <2> QED BY <1>1, <1>3, <2>1, <2>2 DEF Fits, AskerFits, AnswerFits, SavingFits, MerchantAsks
<1> QED BY <1>4, <1>5, <1>6, <1>7 DEF DoorInv

\* An answer that succeeds leads where what has happened may be claimed.
LEMMA SucceedKeeps ==
    ASSUME DoorInv, NEW s \in Slots, Succeed(s)
    PROVE  DoorInv'
<1>1. PICK what \in Asks : what = calls[s].what
  BY DEF DoorInv, DoorTyped, CallDoc
<1>2. calls[s].at = "done" /\ UnderWay(s) /\ AskerFits(s) /\ AnswerFits(s) /\ SavingFits(s)
  BY DEF Succeed, UnderWay, DoorInv, Fits
<1>3. {challenge, stored} \subseteq server.mailed \cup {Nothing}
  BY DEF DoorInv, PagesFit
<1>4. ASSUME StayOn(s, screen)
      PROVE  DoorInv'
  <2>1. screen' = screen
    BY <1>4 DEF StayOn
  <2> QED BY <1>2, <1>4, <2>1, StayOnKeeps
<1>5. CASE what = "register"
  BY <1>1, <1>2, <1>4, <1>5, NavigateKeeps DEF Succeed
<1>6. CASE what = "otp"
  <2>1. StayOn(s, OtpStep) /\ server' = server /\ field' = field /\ door' = door
    BY <1>1, <1>6 DEF Succeed, StayOn, form
  <2>2. CASE screen' = screen
    BY <1>2, <2>1, <2>2, StayOnKeeps
  <2>3. CASE screen' # screen
    <3>1. calls[s].live /\ screen' = "code" /\ OtpStep = "code"
      BY <2>1, <2>3 DEF StayOn, OtpStep
    <3>2. ClaimsAreTrue' /\ FinishIsAsChosen'
      BY <1>1, <1>2, <1>6, <2>1, <3>1, WizardPages
      DEF ClaimsAreTrue, FinishIsAsChosen, Challenge, AskerFits, AnswerFits
    <3>3. Waits(s) /\ Flag(calls[s].what) = "form"
      BY <1>1, <1>2, <1>6, <3>1 DEF Waits, Flag
    <3> QED BY <1>2, <2>1, <3>1, <3>2, <3>3, WizardPages, StayOnKeeps
  <2> QED BY <2>2, <2>3
<1>7. CASE what \in {"enter", "verify"}
  BY <1>1, <1>2, <1>7, ArriveKeeps DEF Succeed
<1>8. CASE what \in {"forgot", "reset"}
  <2>1. PICK t : t = IF what = "forgot" THEN "sent" ELSE "done"
    OBVIOUS
  <2>2. StayOn(s, t) /\ server' = server
    BY <1>1, <1>8, <2>1 DEF Succeed, StayOn
  <2>3. CASE screen' = screen
    BY <1>2, <2>2, <2>3, StayOnKeeps
  <2>4. CASE screen' # screen
    <3>1. calls[s].live /\ screen' = t
      BY <2>2, <2>4 DEF StayOn
    <3>2. ClaimsAreTrue' /\ FinishIsAsChosen'
      BY <1>1, <1>2, <1>8, <2>1, <2>2, <3>1, WizardPages
      DEF ClaimsAreTrue, FinishIsAsChosen, AnswerFits
    <3>3. Waits(s) /\ Flag(calls[s].what) = "form"
      BY <1>1, <1>2, <1>8, <3>1 DEF Waits, Flag
    <3>4. t \notin WizardSteps \cup {"signup", "in", "invite"}
      BY <2>1, WizardPages
    <3> QED BY <1>2, <2>2, <3>1, <3>2, <3>3, <3>4, WizardPages, StayOnKeeps
  <2> QED BY <2>3, <2>4
<1>9. CASE what = "accept"
  <2>1. Go("welcome", {s}) /\ UNCHANGED <<challenge, stored>>
    BY <1>1, <1>9 DEF Succeed, route
  <2>2. screen' = "welcome" /\ server' = server
    BY <2>1 DEF Go
  <2>3. ClaimsAreTrue'
    BY <1>1, <1>2, <1>9, <2>2, WizardPages DEF ClaimsAreTrue, AnswerFits
  <2>4. Waits(s) /\ Flag(calls[s].what) = "form"
    BY <1>1, <1>2, <1>9 DEF Waits, Flag, AskerFits
  <2> QED BY <1>3, <2>1, <2>3, <2>4, OthersAtRest, GoKeeps
<1>10. CASE what \in {"signup", "login"}
  BY <1>1, <1>2, <1>10, GoOnKeeps DEF Succeed
<1>11. CASE what = "me"
  <2>1. CASE screen \in WizardSteps
    BY <1>1, <1>4, <1>11, <2>1 DEF Succeed
  <2>2. CASE screen \notin WizardSteps
    <3>1. Go("category", {s}) /\ UNCHANGED <<challenge, stored>>
      BY <1>1, <1>11, <2>2 DEF Succeed, route
    <3>2. screen' = "category" /\ server' = server
      BY <3>1 DEF Go
    <3>3. door = "dashboard" /\ server.shops # {}
      BY <1>1, <1>2, <1>11 DEF AskerFits, AnswerFits, MerchantAsks
    <3>4. ClaimsAreTrue'
      BY <3>2, <3>3 DEF ClaimsAreTrue
    <3>5. screen \notin {"invite", "configure", "finish"}
      BY <1>1, <1>2, <1>11, <2>2, WizardPages DEF DoorInv, PagesFit
    <3> QED BY <1>3, <3>1, <3>3, <3>4, <3>5, NoneSaved, GoKeeps
  <2> QED BY <2>1, <2>2
<1>12. CASE what = "configure"
  <2>1. PICK t : t = IF screen \in WizardSteps THEN GoNext(screen) ELSE screen
    OBVIOUS
  <2>2. StayOn(s, t) /\ UNCHANGED <<server, choice, wavered, door, field, challenge>>
    BY <1>1, <1>12, <2>1 DEF Succeed, StayOn, form, route
  <2>3. CASE screen' = screen
    BY <1>2, <2>2, <2>3, StayOnKeeps
  <2>4. CASE screen' # screen
    <3>1. /\ calls[s].live /\ screen' = t /\ screen \in WizardSteps /\ t = GoNext(screen)
          /\ t \in {"type", "configure", "finish"} /\ (t = "finish" => screen = "configure")
      BY <2>1, <2>2, <2>4, WizardPages DEF StayOn
    <3>2. choice # Nothing /\ server.config # Nothing /\ (~wavered => server.config = choice)
      BY <1>1, <1>2, <1>12, <3>1 DEF SavingFits
    <3>3. ClaimsAreTrue' /\ FinishIsAsChosen'
      BY <2>2, <3>1, <3>2 DEF DoorInv, ClaimsAreTrue, FinishIsAsChosen
    <3>4. Waits(s) /\ Flag(calls[s].what) = "form"
      BY <1>1, <1>2, <1>12, <3>1 DEF Waits, Flag
    <3> QED BY <1>2, <2>2, <3>1, <3>2, <3>3, <3>4, StayOnKeeps
  <2> QED BY <2>3, <2>4
<1>13. CASE what = "complete"
  <2>1. Go("in", {s}) /\ UNCHANGED <<challenge, stored>>
    BY <1>1, <1>13 DEF Succeed, route
  <2>2. screen' = "in"
    BY <2>1 DEF Go
  <2>3. ClaimsAreTrue'
    BY <2>2, WizardPages DEF ClaimsAreTrue
  <2>4. Waits(s) /\ Flag(calls[s].what) = "form" /\ screen = "finish"
    BY <1>1, <1>2, <1>13 DEF Waits, Flag, AskerFits
  <2>5. server.shops # {}
    BY <2>4, WizardPages DEF DoorInv, ClaimsAreTrue
  <2> QED BY <1>3, <2>1, <2>3, <2>4, <2>5, OthersAtRest, GoKeeps
<1> QED BY <1>1, <1>5, <1>6, <1>7, <1>8, <1>9, <1>10, <1>11, <1>12, <1>13 DEF Asks

\* A request that nobody waits for any more: it is over, or may be served yet.
LEMMA LoseKeeps ==
    ASSUME DoorInv, NEW s \in Slots, Lose(s)
    PROVE  DoorInv'
<1>1. PICK c \in CallDoc : c = calls[s]
  BY DEF DoorInv, DoorTyped
<1>2. PICK d : d = IF c.at = "done" THEN Unused ELSE [c EXCEPT !.at = "lost"]
  OBVIOUS
<1>3. /\ c.at \in {"sent", "done"} /\ calls' = [calls EXCEPT ![s] = d]
      /\ busy' = IF c.live THEN busy \ {Flag(c.what)} ELSE busy
      /\ UNCHANGED <<door, screen, field, choice, wavered, challenge, stored, knows, server>>
  BY <1>1, <1>2 DEF Lose, AfterFailure, Settled, form, route, DoorInv, DoorTyped
<1>4. d \in CallDoc /\ d.at \in {"unused", "lost"}
  BY <1>2, <1>3, UnusedSlot DEF CallDoc
<1>5. calls'[s] = d /\ \A u \in Slots \ {s} : calls'[u] = calls[u]
  BY <1>3 DEF DoorInv, DoorTyped
<1>6. UnderWay(s) /\ ~UnderWay(s)' /\ \A u \in Slots \ {s} : UnderWay(u)' <=> UnderWay(u)
  BY <1>1, <1>3, <1>4, <1>5 DEF UnderWay
<1>7. DoorTyped'
  BY <1>3, <1>4 DEF DoorInv, DoorTyped
<1>8. PagesFit'
  BY <1>3, <1>5, <1>6 DEF DoorInv, PagesFit
<1>9. FlagsFit'
  <2> SUFFICES ASSUME door \notin Customers
               PROVE  /\ \A u \in Slots : Waits(u)' => Flag(calls'[u].what) \in busy'
                      /\ \A u, v \in Slots :
                            Waits(u)' /\ Waits(v)' /\ Flag(calls'[u].what) = Flag(calls'[v].what) => u = v
    BY <1>3 DEF FlagsFit
  <2>1. \A u \in Slots : Waits(u)' => u # s /\ Waits(u) /\ calls'[u] = calls[u]
    BY <1>5, <1>6 DEF Waits
  <2>2. \A u \in Slots \ {s} : Waits(u) => Flag(calls[u].what) \in busy'
    BY <1>1, <1>3, <1>6 DEF DoorInv, FlagsFit, Waits
  <2> QED BY <2>1, <2>2 DEF DoorInv, FlagsFit
<1>10. ASSUME NEW u \in Slots
       PROVE  Fits(u)'
  <2>1. CASE u = s
    BY <1>6, <2>1 DEF Fits
  <2>2. CASE u # s
    BY <1>3, <1>5, <1>6, <2>2 DEF DoorInv, Fits, AskerFits, AnswerFits, SavingFits
  <2> QED BY <2>1, <2>2
<1>11. ClaimsAreTrue' /\ FinishIsAsChosen'
  BY <1>3 DEF DoorInv, ClaimsAreTrue, FinishIsAsChosen, Challenge
<1> QED BY <1>7, <1>8, <1>9, <1>10, <1>11 DEF DoorInv

\* What is served so late only adds to what pages say, but for a configuration:
\* that is a programme too, and may not be the one chosen since.
LEMMA ServeLateKeeps ==
    ASSUME DoorInv, NEW s \in Slots, ServeLate(s)
    PROVE  DoorInv'
<1>1. PICK c \in CallDoc : c = calls[s]
  BY DEF DoorInv, DoorTyped
<1>2. /\ c.at = "lost" /\ calls' = [calls EXCEPT ![s] = Unused]
      /\ UNCHANGED <<door, screen, field, choice, challenge, stored, busy, knows>>
  BY <1>1 DEF ServeLate, route
<1>3. calls'[s] = Unused /\ \A u \in Slots \ {s} : calls'[u] = calls[u]
  BY <1>2 DEF DoorInv, DoorTyped
<1>4. ~UnderWay(s) /\ ~UnderWay(s)' /\ \A u \in Slots \ {s} : UnderWay(u)' <=> UnderWay(u)
  BY <1>1, <1>2, <1>3, UnusedSlot DEF UnderWay
<1>5. FlagsFit'
  BY <1>2, <1>3, <1>4 DEF DoorInv, FlagsFit, Waits
<1>6. CASE UNCHANGED <<server, wavered>>
  <2>1. DoorTyped'
    BY <1>2, <1>6, UnusedSlot DEF DoorInv, DoorTyped
  <2>2. PagesFit'
    BY <1>2, <1>3, <1>4, <1>6 DEF DoorInv, PagesFit
  <2>3. \A u \in Slots : Fits(u)'
    BY <1>2, <1>3, <1>4, <1>6 DEF DoorInv, Fits, AskerFits, AnswerFits, SavingFits
  <2>4. ClaimsAreTrue' /\ FinishIsAsChosen'
    BY <1>2, <1>6 DEF DoorInv, ClaimsAreTrue, FinishIsAsChosen, Challenge
  <2> QED BY <1>5, <2>1, <2>2, <2>3, <2>4 DEF DoorInv
<1>7. CASE ~UNCHANGED <<server, wavered>>
  <2>1. server' = Done(c) /\ wavered' = (wavered \/ c.what = "configure")
    BY <1>1, <1>7 DEF ServeLate
  <2>2. server \in ServerDoc
    BY DEF DoorInv, DoorTyped
  <2>3. /\ server.mailed \subseteq server'.mailed
        /\ server.linked => server'.linked
        /\ server.reset => server'.reset
        /\ server.joined => server'.joined
        /\ server.shops # {} => server'.shops # {}
        /\ server'.config = IF c.what = "configure" THEN c.choice ELSE server.config
        /\ server' \in ServerDoc
    BY <2>1, <2>2, Serving
  <2>4. (c.what = "configure" => c.choice # Nothing) /\ wavered \in BOOLEAN
    BY DEF CallDoc, DoorInv, DoorTyped
  <2>5. DoorTyped'
    BY <1>2, <2>1, <2>3, <2>4, UnusedSlot DEF DoorInv, DoorTyped
  <2>6. PagesFit'
    BY <1>2, <1>3, <1>4, <2>3 DEF DoorInv, PagesFit
  <2>7. ASSUME NEW u \in Slots
        PROVE  Fits(u)'
    <3>1. CASE u = s
      BY <1>4, <3>1 DEF Fits
    <3>2. CASE u # s
      <4>1. AskerFits(u) => AskerFits(u)'
        BY <1>2, <1>3, <3>2 DEF AskerFits
      <4>2. AnswerFits(u) => AnswerFits(u)'
        BY <1>3, <2>3, <3>2 DEF AnswerFits
      <4>3. SavingFits(u) => SavingFits(u)'
        BY <1>2, <1>3, <2>1, <2>3, <2>4, <3>2 DEF SavingFits
      <4> QED BY <1>4, <3>2, <4>1, <4>2, <4>3 DEF DoorInv, Fits
    <3> QED BY <3>1, <3>2
  <2>8. ClaimsAreTrue'
    BY <1>2, <2>3, <2>4 DEF DoorInv, ClaimsAreTrue, Challenge
  <2>9. FinishIsAsChosen'
    BY <1>2, <2>1, <2>3, <2>4 DEF DoorInv, FinishIsAsChosen
  <2> QED BY <1>5, <2>5, <2>6, <2>7, <2>8, <2>9 DEF DoorInv
<1> QED BY <1>6, <1>7

\* Every step of the program keeps what the pages rely on.
LEMMA DoorNext == DoorInv /\ [Next]_vars => DoorInv'
<1> SUFFICES ASSUME DoorInv, [Next]_vars
             PROVE  DoorInv'
  OBVIOUS
<1>1. ASSUME NEW s \in Slots,
             Gesture(s) \/ ServeOne(s) \/ Refuse(s) \/ Succeed(s) \/ Lose(s) \/ ServeLate(s)
      PROVE  DoorInv'
  BY <1>1, GestureKeeps, ServeKeeps, RefuseKeeps, SucceedKeeps, LoseKeeps, ServeLateKeeps
<1>2. ASSUME NEW s \in Slots, Fail(s)
      PROVE  DoorInv'
  <2>1. UnderWay(s) /\ StayOn(s, screen)
    BY <1>2 DEF Fail, AfterFailure, UnderWay
  <2>2. screen' = screen
    BY <2>1 DEF StayOn
  <2> QED BY <2>1, <2>2, StayOnKeeps
<1>3. ASSUME UNCHANGED <<door, screen, field, choice, challenge, stored, busy, calls, server, wavered>>
      PROVE  DoorInv'
  BY <1>3
  DEF DoorInv, DoorTyped, PagesFit, FlagsFit, Fits, AskerFits, AnswerFits, SavingFits, Waits,
      UnderWay, ClaimsAreTrue, FinishIsAsChosen, Challenge
<1>4. CASE Reload \/ AtHome \/ UNCHANGED vars
  BY <1>3, <1>4 DEF Reload, AtHome, vars, pageVars, form, route
<1> QED BY <1>1, <1>2, <1>4, FollowKeeps, SwitchKeeps, TypeKeeps, ChooseKeeps, GoBackKeeps DEF Next

\* The pages of the Home page's code are opened, left and otherwise let be.
LEMMA HomeNext == HomeInv /\ [Next]_vars => HomeInv'
<1> SUFFICES ASSUME HomeInv, [Next]_vars
             PROVE  HomeInv'
  OBVIOUS
<1>1. ASSUME NEW t, NEW kept, Go(t, kept) PROVE HomeInv'
  BY <1>1, HomeEnds, HomeStays DEF Go
<1>2. ASSUME NEW s, NEW t, StayOn(s, t) PROVE HomeInv'
  BY <1>2, HomeStays DEF StayOn
<1>3. ASSUME NEW s, NEW what, NEW email, Send(s, what, email) PROVE HomeInv'
  BY <1>3, HomeStays DEF Send
<1>4. ASSUME NEW s \in Slots, Gesture(s) PROVE HomeInv'
  BY <1>3, <1>4
  DEF Gesture, HandleLogin, HandleRegister, HandleVerify, HandleForgot, HandleReset, PhoneLogin,
      PhoneRegister, PhoneVerify, PhoneForgot, RequestOtpCode, AdminRequestOtp, ResendCode,
      HandleAdminOtpVerify, DashboardForgot, DashboardReset, AcceptInvite, HandleSignup,
      HandleConfigure, HandleFinish
<1>5. ASSUME NEW s \in Slots, Succeed(s) PROVE HomeInv'
  <2>1. CASE NavigateToCode(s)
    BY <1>1, <2>1, HomeStays DEF NavigateToCode
  <2>2. CASE Arrive(s)
    BY <2>2, HomeOpens, HomeStays DEF Arrive
  <2>3. ASSUME NEW what, GoOn(s, what) PROVE HomeInv'
    BY <2>3, HomeStays DEF GoOn
  <2> QED BY <1>1, <1>2, <1>5, <2>1, <2>2, <2>3 DEF Succeed
<1>6. ASSUME NEW s \in Slots,
             ServeOne(s) \/ Refuse(s) \/ Fail(s) \/ Lose(s) \/ ServeLate(s)
      PROVE  HomeInv'
  BY <1>2, <1>6, HomeStays DEF ServeOne, Refuse, Fail, Lose, ServeLate
<1>7. CASE Follow \/ OpenCode \/ VisitRoot
  BY <1>1, <1>7 DEF Follow, OpenCode, VisitRoot
<1>8. CASE SwitchMode \/ BackToPassword \/ Type \/ Choose \/ HandleStep0 \/ HandleStep1 \/ GoBack \/ Reload
  BY <1>8, HomeStays DEF SwitchMode, BackToPassword, Type, Choose, HandleStep0, HandleStep1, Step,
                         GoBack, Reload
<1>9. CASE AtHome
  <2>1. PICK phone \in BOOLEAN : HomeStep(phone)
    BY <1>9 DEF AtHome
  <2> QED BY <2>1, HomeStepKeeps
<1>10. CASE UNCHANGED vars
  BY <1>10, HomeStays DEF vars
<1> QED BY <1>4, <1>5, <1>6, <1>7, <1>8, <1>9, <1>10 DEF Next

\* What is relied on between the pages of all four clients holds whatever is
\* typed, left, refused or lost, and in whatever order answers come.
THEOREM DoorInvariance == Spec => [](DoorInv /\ HomeInv)
<1>1. Init => DoorInv /\ HomeInv
  BY DoorStarts, HomeStarts DEF Init
<1> QED BY <1>1, DoorNext, HomeNext, PTL DEF Spec

\* What a page says has happened has happened on the server.
THEOREM Claims == Spec => []ClaimsAreTrue
<1>1. DoorInv => ClaimsAreTrue
  BY DEF DoorInv
<1> QED BY <1>1, DoorInvariance, PTL

\* A shop is configured as was chosen when its wizard says so.
THEOREM AsChosen == Spec => []FinishIsAsChosen
<1>1. DoorInv => FinishIsAsChosen
  BY DEF DoorInv
<1> QED BY <1>1, DoorInvariance, PTL

\* The code a customer holds up is one the till takes, or one it took, which is
\* gone within half a rotation and the time of an answer: whatever the rotation,
\* however many fetches overlap, and however long timers and answers stall.
THEOREM CodeWorks == Spec => []ShownCodeWorks
BY DoorInvariance, ShownIsFresh, PTL

-----------------------------------------------------------------------------
(* Sessions: the inductive invariant *)

Dashboards == {"merchant", "admin"}
Belongs(token, a) == token # None /\ token.of = a
Kept(a) == Belongs(access, a) /\ (app # "admin" => Belongs(refresh, a))

\* Where a task of each kind may be, on the phone and on the web.
PlaceFits(j) ==
    /\ j.at = "renew" => app \in {"customer", "merchant"} /\ j.got # None
    /\ j.at \notin {"idle", "done", "post", "sent", "renew"} \/ j.kind = "signOut" => app = "phone"
    /\ j.at \in {"post", "keepAccess", "keepRefresh"} => j.kind \in {"signIn", "signInByCode"}
    /\ j.kind = "signInByCode" => app = "merchant" /\ j.at # "renew"
    /\ j.kind = "signOut" => j.at \in {"dropAccess", "dropRefresh", "done"}
    /\ j.kind = "load" => j.at \notin {"check", "dropAccess", "dropRefresh"}
    /\ j.kind \in {"signIn", "signInByCode"} => j.account \in Accounts
    /\ j.cancelled => IF app = "phone" THEN j.kind = "load" ELSE app = "merchant" /\ j.kind = "init"
    /\ j.at \in {"idle", "post"} \/ (j.kind = "init" /\ j.at = "check") => ~j.again

TasksFit ==
    /\ \A t \in Tasks : PlaceFits(job[t])
    /\ \A t, u \in Running : SigningIn(t) /\ SigningIn(u) => t = u

\* A token got by renewal is its task's.
OwnRenewal(token, t) == token.renewed /\ token.by = t

RenewalFits ==
    /\ renewal \in [at: {"off", "read", "post", "keepAccess", "keepRefresh"},
                    by: Tasks \cup {None}, got: Held]
    /\ renewal.at # "off" => app = "phone" /\ renewal.by \in Tasks /\ job[renewal.by].at = "wait"
    /\ renewal.at = "off" => \A t \in Tasks : job[t].at # "wait"
    /\ renewal.at \in {"post", "keepAccess", "keepRefresh"} => renewal.got # None
    /\ renewal.at \in {"keepAccess", "keepRefresh"} => OwnRenewal(renewal.got, renewal.by)

\* The start-up question is asked alone; only the merchant's page asks it again.
StartsAlone ==
    /\ loading => user = None /\ \A t, u \in Running : job[t].kind = "init" /\ t = u
    /\ \A t \in Running : job[t].kind = "init" =>
          /\ app # "merchant" => loading
          /\ app = "merchant" /\ ~job[t].cancelled => copy # None
          /\ app = "merchant" /\ loading => ~job[t].cancelled
    /\ ~booted => /\ Running = {} /\ renewal.at = "off" /\ loading /\ cached = None
                  /\ copy = IF app \in Dashboards THEN access ELSE None

StoresFit ==
    /\ app \notin Dashboards => copy = None
    /\ app = "admin" => refresh = None
    /\ app = "admin" /\ booted /\ ~loading /\ user = None => copy = None
    /\ app # "merchant" => \A t \in Running : SigningIn(t) => user = None

\* A task renews once.
Spent(t) ==
    \/ job[t].again \/ job[t].at = "done"
    \/ renewal.by = t /\ renewal.at \in {"keepAccess", "keepRefresh"}
Around == {access, refresh, copy, renewal.got} \cup dead \cup {job[t].got : t \in Tasks}
TokensFit ==
    /\ IsFiniteSet(dead)
    /\ \A x \in Around \ {None} : x.renewed => x.by \in Tasks /\ Spent(x.by)

\* Whoever has renewed has seen another token refused.
RefusedBefore ==
    \A t \in Running : job[t].kind = "init" \/ (app # "phone" /\ job[t].kind # "load") =>
        /\ job[t].at \in {"wait", "renew"} \/ job[t].again => \E d \in dead : ~OwnRenewal(d, t)
        /\ job[t].at = "send" => access # None /\ (job[t].again => OwnRenewal(access, t))
        /\ job[t].at = "sent" => job[t].got # None /\ (job[t].again => OwnRenewal(job[t].got, t))
        /\ renewal.at = "keepRefresh" => access # None /\ OwnRenewal(access, t)

Uncrossed == ~crossed => ~Crossing

\* On the phone, what was asked for somebody before is dropped.
Forgotten ==
    app = "phone" /\ ~crossed /\ (user = None \/ \E t \in Running : job[t].kind = "signOut")
        => cached = None /\ \A t \in Running : job[t].kind = "load" => job[t].cancelled

LeavingFits ==
    ~crossed =>
        \A t \in Running :
            /\ SigningIn(t) => gesture = "start"
            /\ job[t].kind = "signOut" /\ job[t].at = "dropRefresh" => access = None

Out ==
    gesture = "out" /\ ~crossed =>
        /\ access = None /\ refresh = None /\ copy = None /\ user = None
        /\ renewal.at \in {"off", "read"}
        /\ \A t \in Running :
              /\ job[t].kind \in {"load", "init"}
              /\ job[t].at \notin {"renew", "dropAccess", "dropRefresh"}
              /\ job[t].kind = "init" => job[t].at = "check" \/ job[t].cancelled

Arriving ==
    ~crossed /\ ~trouble =>
        /\ \A t \in Running : job[t].kind = "signIn" =>
              LET a == job[t].account
              IN  /\ job[t].at \in {"keepAccess", "keepRefresh", "sent", "renew"} => Belongs(job[t].got, a)
                  /\ job[t].at = "keepRefresh" => Belongs(access, a)
                  /\ job[t].at \in {"check", "send", "sent", "wait", "renew"} => Kept(a)
                  /\ renewal.at \in {"post", "keepAccess", "keepRefresh"} => Belongs(renewal.got, a)
                  /\ \A u \in Running : job[u].kind = "init" /\ ~job[u].cancelled =>
                        job[t].at # "post" /\ Belongs(job[u].got, a)
        /\ app = "merchant" /\ booted /\ ~loading /\ user = None /\ copy # None =>
              \E t \in Running : job[t].kind = "signIn" /\ job[t].at \in {"sent", "renew"}

In ==
    gesture \in Accounts /\ ~crossed /\ ~trouble /\ (\A t \in Running : job[t].kind # "signOut") =>
        /\ Kept(gesture) /\ user \in {gesture, None}
        /\ user = None /\ booted => \E t \in Running : job[t].kind = "init" /\ ~job[t].cancelled
        /\ renewal.at \in {"post", "keepAccess", "keepRefresh"} => Belongs(renewal.got, gesture)
        /\ cached \in {gesture, None} \/ app # "phone"
        /\ \A t \in Running :
              /\ job[t].at \notin {"clearAccess", "clearRefresh", "dropAccess", "dropRefresh"}
              /\ job[t].at = "renew" => Belongs(job[t].got, gesture)
              /\ job[t].at = "sent" /\ ~job[t].cancelled /\ (app = "phone" \/ job[t].kind = "init")
                    => Belongs(job[t].got, gesture)

SessionInv ==
    /\ SessionTypeOK /\ TasksFit /\ RenewalFits /\ StartsAlone /\ StoresFit /\ TokensFit /\ RefusedBefore
    /\ Uncrossed /\ Forgotten /\ LeavingFits /\ Out /\ Arriving /\ In

-----------------------------------------------------------------------------
(* How tasks move *)

\* A task that goes on as it was, or is told to ignore its answer.
Steady(u) ==
    /\ job'[u].kind = job[u].kind /\ job'[u].at = job[u].at /\ job'[u].account = job[u].account
    /\ job'[u].got = job[u].got /\ (job'[u].again <=> job[u].again)
    /\ job[u].cancelled => job'[u].cancelled

LEMMA OneMoves ==
    ASSUME SessionTypeOK, NEW t \in Tasks, NEW d \in Job, job' = [job EXCEPT ![t] = d]
    PROVE  /\ job' \in [Tasks -> Job] /\ job'[t] = d
           /\ \A u \in Tasks \ {t} : job'[u] = job[u] /\ Steady(u)
           /\ Running' = IF d.at \in {"idle", "done"} THEN Running \ {t} ELSE Running \cup {t}
<1>1. job \in [Tasks -> Job] BY DEF SessionTypeOK
<1>2. job' \in [Tasks -> Job] /\ job'[t] = d /\ \A u \in Tasks \ {t} : job'[u] = job[u]
    BY <1>1
<1>3. \A u \in Tasks \ {t} : Steady(u) BY <1>2 DEF Steady
<1>4. Running' = IF d.at \in {"idle", "done"} THEN Running \ {t} ELSE Running \cup {t}
    BY <1>2 DEF Running
<1>5. QED BY <1>2, <1>3, <1>4

LEMMA Goes ==
    ASSUME SessionTypeOK, NEW t \in Tasks, NEW l \in Places, Goto(t, l)
    PROVE  /\ job' \in [Tasks -> Job] /\ job'[t].at = l
           /\ job'[t].kind = job[t].kind /\ job'[t].account = job[t].account
           /\ job'[t].got = job[t].got /\ (job'[t].again <=> job[t].again)
           /\ (job'[t].cancelled <=> job[t].cancelled)
           /\ \A u \in Tasks \ {t} : job'[u] = job[u] /\ Steady(u)
           /\ Running' = IF l \in {"idle", "done"} THEN Running \ {t} ELSE Running \cup {t}
<1>1. job[t] \in Job BY DEF SessionTypeOK
<1>2. PICK d : d = [job[t] EXCEPT !.at = l] OBVIOUS
<1>3. /\ d \in Job /\ d.at = l /\ d.kind = job[t].kind /\ d.account = job[t].account
      /\ d.got = job[t].got /\ d.again = job[t].again /\ d.cancelled = job[t].cancelled
    BY <1>1, <1>2 DEF Job
<1>4. job' = [job EXCEPT ![t] = d] BY <1>2 DEF Goto
<1>5. QED BY <1>3, <1>4, OneMoves

LEMMA Ends ==
    ASSUME SessionTypeOK, NEW t \in Tasks, End(t)
    PROVE  /\ job' \in [Tasks -> Job] /\ job'[t].at = "done" /\ Running' = Running \ {t}
           /\ job'[t].kind = job[t].kind /\ job'[t].account = job[t].account
           /\ job'[t].got = job[t].got /\ (job'[t].again <=> job[t].again)
           /\ job'[t].cancelled <=> job[t].cancelled \/ Cancelling(t)
           /\ \A u \in Tasks \ {t} : Steady(u) /\ (Cancelling(u) => job'[u].cancelled)
                                     /\ (job'[u].cancelled => job[u].cancelled \/ Cancelling(u))
<1>1. job \in [Tasks -> Job] BY DEF SessionTypeOK
<1> DEFINE jobs == [job EXCEPT ![t].at = "done"]
<1>2. PICK d : d = [job[t] EXCEPT !.at = "done"] OBVIOUS
<1>3. /\ d \in Job /\ d.at = "done" /\ d.kind = job[t].kind /\ d.account = job[t].account
      /\ d.got = job[t].got /\ d.again = job[t].again /\ d.cancelled = job[t].cancelled
    BY <1>1, <1>2 DEF Job, Places
<1>4. jobs \in [Tasks -> Job] /\ jobs[t] = d /\ \A u \in Tasks \ {t} : jobs[u] = job[u]
    BY <1>1, <1>2, <1>3
<1>5. job' = [u \in Tasks |-> IF Cancelling(u) THEN [jobs[u] EXCEPT !.cancelled = TRUE] ELSE jobs[u]]
    BY DEF End, Effects
<1> HIDE DEF jobs
<1>6. ASSUME NEW u \in Tasks
      PROVE  /\ job'[u] \in Job
             /\ job'[u].kind = jobs[u].kind /\ job'[u].account = jobs[u].account
             /\ job'[u].got = jobs[u].got /\ (job'[u].again <=> jobs[u].again)
             /\ job'[u].at = jobs[u].at
             /\ job'[u].cancelled <=> (jobs[u].cancelled \/ Cancelling(u))
  <2>1. jobs[u] \in Job BY <1>4
  <2>2. PICK c : c = [jobs[u] EXCEPT !.cancelled = TRUE] OBVIOUS
  <2>3. /\ c \in Job /\ c.kind = jobs[u].kind /\ c.account = jobs[u].account /\ c.at = jobs[u].at
        /\ c.got = jobs[u].got /\ c.again = jobs[u].again /\ c.cancelled
    BY <2>1, <2>2 DEF Job
  <2>4. job'[u] = IF Cancelling(u) THEN c ELSE jobs[u] BY <1>5, <2>2
  <2>5. CASE Cancelling(u) BY <2>3, <2>4, <2>5
  <2>6. CASE ~Cancelling(u) BY <2>1, <2>4, <2>6
  <2>7. QED BY <2>5, <2>6
<1>7. job' \in [Tasks -> Job] BY <1>5, <1>6
<1>8. \A u \in Tasks \ {t} : Steady(u) /\ (Cancelling(u) => job'[u].cancelled)
                             /\ (job'[u].cancelled => job[u].cancelled \/ Cancelling(u))
    BY <1>4, <1>6 DEF Steady
<1>9. job'[t].at = "done" /\ job'[t].kind = job[t].kind /\ job'[t].account = job[t].account
      /\ job'[t].got = job[t].got
    BY <1>3, <1>4, <1>6
<1>10. (job'[t].again <=> job[t].again) /\ (job'[t].cancelled <=> job[t].cancelled \/ Cancelling(t))
    BY <1>3, <1>4, <1>6
<1>11. Running' = Running \ {t}
  <2>1. \A u \in Tasks \ {t} : job'[u].at = job[u].at BY <1>8 DEF Steady
  <2>2. QED BY <1>9, <2>1 DEF Running
<1>12. QED BY <1>7, <1>8, <1>9, <1>10, <1>11

NoRenewal == [at |-> "off", by |-> None, got |-> None]

LEMMA Leaves ==
    ASSUME SessionTypeOK, LeavePage
    PROVE  /\ job' \in [Tasks -> Job] /\ Running' = {}
           /\ \A u \in Tasks : /\ job'[u].at = IF u \in Running THEN "done" ELSE job[u].at
                               /\ job'[u].kind = job[u].kind /\ job'[u].account = job[u].account
                               /\ job'[u].got = job[u].got /\ (job'[u].again <=> job[u].again)
                               /\ (job'[u].cancelled <=> job[u].cancelled)
           /\ renewal'.at = "off" /\ renewal'.by = None /\ renewal'.got = None
<1>1. job \in [Tasks -> Job] BY DEF SessionTypeOK
<1>2. ASSUME NEW u \in Tasks
      PROVE  /\ job'[u] \in Job
             /\ job'[u].at = IF u \in Running THEN "done" ELSE job[u].at
             /\ job'[u].kind = job[u].kind /\ job'[u].account = job[u].account
             /\ job'[u].got = job[u].got /\ (job'[u].again <=> job[u].again)
             /\ (job'[u].cancelled <=> job[u].cancelled)
  <2>1. job[u] \in Job BY <1>1
  <2>2. PICK d : d = [job[u] EXCEPT !.at = "done"] OBVIOUS
  <2>3. /\ d \in Job /\ d.at = "done" /\ d.kind = job[u].kind /\ d.account = job[u].account
        /\ d.got = job[u].got /\ d.again = job[u].again /\ d.cancelled = job[u].cancelled
    BY <2>1, <2>2 DEF Job, Places
  <2>4. job'[u] = IF u \in Running THEN d ELSE job[u] BY <2>2 DEF LeavePage
  <2>5. CASE u \in Running BY <2>3, <2>4, <2>5
  <2>6. CASE u \notin Running BY <2>1, <2>4, <2>6
  <2>7. QED BY <2>5, <2>6
<1>3. job' \in [Tasks -> Job] BY <1>2 DEF LeavePage
<1>4. Running' = {} BY <1>2 DEF Running
<1>5. renewal'.at = "off" /\ renewal'.by = None /\ renewal'.got = None BY DEF LeavePage
<1>6. QED BY <1>2, <1>3, <1>4, <1>5

LEMMA Wakes ==
    ASSUME SessionTypeOK, NEW l \in Places, NEW token \in Held, Wake(l, token)
    PROVE  /\ job' \in [Tasks -> Job]
           /\ \A u \in Tasks :
                 /\ job'[u].kind = job[u].kind /\ job'[u].account = job[u].account
                 /\ (job'[u].cancelled <=> job[u].cancelled)
                 /\ job[u].at = "wait" => job'[u].at = l /\ job'[u].again /\ job'[u].got = token
                 /\ job[u].at # "wait" => job'[u] = job[u]
           /\ renewal'.at = "off" /\ renewal'.by = None /\ renewal'.got = None
<1>1. job \in [Tasks -> Job] BY DEF SessionTypeOK
<1>2. ASSUME NEW u \in Tasks
      PROVE  /\ job'[u] \in Job
             /\ job'[u].kind = job[u].kind /\ job'[u].account = job[u].account
             /\ (job'[u].cancelled <=> job[u].cancelled)
             /\ job[u].at = "wait" => job'[u].at = l /\ job'[u].again /\ job'[u].got = token
             /\ job[u].at # "wait" => job'[u] = job[u]
  <2>1. job[u] \in Job BY <1>1
  <2>2. PICK d : d = [job[u] EXCEPT !.at = l, !.again = TRUE, !.got = token] OBVIOUS
  <2>3. /\ d \in Job /\ d.at = l /\ d.kind = job[u].kind /\ d.account = job[u].account
        /\ d.got = token /\ d.again /\ d.cancelled = job[u].cancelled
    BY <2>1, <2>2 DEF Job
  <2>4. job'[u] = IF job[u].at # "wait" THEN job[u] ELSE d BY <2>2 DEF Wake
  <2>5. CASE job[u].at = "wait" BY <2>3, <2>4, <2>5
  <2>6. CASE job[u].at # "wait" BY <2>1, <2>4, <2>6
  <2>7. QED BY <2>5, <2>6
<1>3. job' \in [Tasks -> Job] BY <1>2 DEF Wake
<1>4. renewal'.at = "off" /\ renewal'.by = None /\ renewal'.got = None BY DEF Wake
<1>5. QED BY <1>2, <1>3, <1>4

LEMMA SpentStays ==
    ASSUME NEW u \in Tasks, Spent(u), Steady(u) \/ (job'[u].at = "done"), renewal' = renewal
    PROVE  Spent(u)'
BY DEF Spent, Steady

LEMMA TokensStay ==
    ASSUME TokensFit, IsFiniteSet(dead'), (Around \ {None})' \subseteq Around,
           \A u \in Tasks : Spent(u) => Spent(u)'
    PROVE  TokensFit'
BY DEF TokensFit

\* What ending a task leaves as it was.
LEMMA EndsKeep ==
    ASSUME SessionInv, NEW t \in Tasks, job[t].at # "wait", End(t), app' = app, renewal' = renewal,
           dead' = dead, {access, refresh, copy}' \subseteq {access, refresh, copy, job[t].got, None},
           app = "phone" => access' = access
    PROVE  TasksFit' /\ RenewalFits' /\ TokensFit' /\ RefusedBefore'
<1>0. SessionTypeOK /\ TasksFit /\ RenewalFits /\ TokensFit /\ RefusedBefore BY DEF SessionInv
<1>1. /\ job'[t].at = "done" /\ Running' = Running \ {t}
      /\ job'[t].kind = job[t].kind /\ job'[t].account = job[t].account
      /\ job'[t].got = job[t].got /\ (job'[t].again <=> job[t].again)
      /\ job'[t].cancelled <=> job[t].cancelled \/ Cancelling(t)
      /\ \A u \in Tasks \ {t} : Steady(u) /\ (job'[u].cancelled => job[u].cancelled \/ Cancelling(u))
    BY <1>0, Ends
<1>2. TasksFit'
  <2>1. ASSUME NEW u \in Tasks PROVE PlaceFits(job[u])'
    <3>1. PlaceFits(job[u]) BY <1>0 DEF TasksFit
    <3>2. job'[u].cancelled => job[u].cancelled \/ (app = "merchant" /\ job[u].kind = "init")
        BY <1>1 DEF Cancelling
    <3>3. job'[u].kind = job[u].kind /\ job'[u].account = job[u].account /\ job'[u].at \in {job[u].at, "done"}
          /\ job'[u].got = job[u].got
          /\ (job'[u].again <=> job[u].again)
        BY <1>1, <3>1 DEF Steady, PlaceFits
    <3>4. QED BY <3>1, <3>2, <3>3 DEF PlaceFits
  <2>2. ASSUME NEW u \in Running', NEW v \in Running', SigningIn(u)', SigningIn(v)' PROVE u = v
    <3>1. u \in Running /\ v \in Running /\ SigningIn(u) /\ SigningIn(v)
        BY <1>1, <2>2 DEF SigningIn, Steady, Running
    <3>2. QED BY <1>0, <3>1 DEF TasksFit
  <2>3. QED BY <2>1, <2>2 DEF TasksFit
<1>3. RenewalFits'
  <2>1. \A u \in Tasks : job'[u].at = "wait" <=> job[u].at = "wait" BY <1>1 DEF Steady
  <2>2. QED BY <1>0, <2>1 DEF RenewalFits, OwnRenewal
<1>4. TokensFit'
  <2>1. \A u \in Tasks : job'[u].got = job[u].got BY <1>1 DEF Steady
  <2>2. (Around \ {None})' \subseteq Around BY <2>1 DEF Around
  <2>3. \A u \in Tasks : Spent(u) => Spent(u)' BY <1>1, SpentStays
  <2>4. QED BY <1>0, <2>2, <2>3, TokensStay DEF TokensFit
<1>5. RefusedBefore'
  <2>1. ASSUME NEW u \in Running', job'[u].kind = "init" \/ (app # "phone" /\ job'[u].kind # "load")
        PROVE  /\ job'[u].at \in {"wait", "renew"} \/ job'[u].again => \E d \in dead : ~OwnRenewal(d, u)
               /\ job'[u].at = "send" => access' # None /\ (job'[u].again => OwnRenewal(access', u))
               /\ job'[u].at = "sent" => job'[u].got # None /\ (job'[u].again => OwnRenewal(job'[u].got, u))
               /\ renewal.at = "keepRefresh" => access' # None /\ OwnRenewal(access', u)
    <3>1. u \in Running /\ Steady(u) BY <1>1 DEF Running
    <3>2. job[u].at = "send" \/ renewal.at = "keepRefresh" => app = "phone"
        BY <1>0, <3>1 DEF TasksFit, PlaceFits, RenewalFits, Running
    <3>3. QED BY <1>0, <2>1, <3>1, <3>2 DEF RefusedBefore, Steady
  <2>2. QED BY <2>1 DEF RefusedBefore, OwnRenewal
<1>6. QED BY <1>2, <1>3, <1>4, <1>5

\* What every step does to the histories but gesture.
Remembers ==
    /\ crossed' \in BOOLEAN /\ (crossed => crossed') /\ (crossed' \/ ~Crossing')
    /\ trouble' \in BOOLEAN /\ (trouble => trouble') /\ contested' \in BOOLEAN

LEMMA Lone ==
    ASSUME SessionInv, ~crossed, NEW t \in Running, SigningIn(t) \/ job[t].kind = "signOut"
    PROVE  /\ \A u \in Running \ {t} :
                 /\ job[u].at \notin {"renew", "wait", "clearAccess", "clearRefresh"}
                 /\ job[u].kind \in {"load", "init"} /\ ~SigningIn(u)
                 /\ job[u].kind = "init" => app = "merchant"
                 /\ job[u].kind = "load" /\ app = "phone" /\ job[t].kind = "signOut" => job[u].cancelled
           /\ renewal.at = "off" \/ job[t].at = "wait"
<1>1. ~Crossing BY DEF SessionInv, Uncrossed
<1>2. renewal.at = "off" \/ job[t].at = "wait" BY <1>1 DEF Crossing
<1>3. ASSUME NEW u \in Running \ {t}
      PROVE  /\ job[u].at \notin {"renew", "wait", "clearAccess", "clearRefresh"}
             /\ job[u].kind # "signOut" /\ ~SigningIn(u)
             /\ job[u].kind = "init" => app = "merchant"
             /\ job[u].kind = "load" /\ app = "phone" /\ job[t].kind = "signOut" => job[u].cancelled
    BY <1>1, <1>3 DEF Crossing
<1>4. ASSUME NEW u \in Running \ {t} PROVE job[u].kind \in {"load", "init"}
  <2>1. job[u] \in Job BY DEF SessionInv, SessionTypeOK, Running
  <2>2. QED BY <1>3, <2>1 DEF Job, Kinds, SigningIn
<1>5. QED BY <1>2, <1>3, <1>4

LEMMA RunningBooted ==
    ASSUME SessionInv, Running # {} \/ user # None
    PROVE  booted
BY DEF SessionInv, StartsAlone

\* A request of a page has been answered, or one whose answer nobody awaits.
LEMMA QuietEnd ==
    ASSUME SessionInv, NEW t \in Running, job[t].at = "sent", job[t].kind = "load" \/ job[t].cancelled,
           End(t), UNCHANGED <<tokens, user, loading, booted, gesture, app, renewal, dead>>, Remembers,
           \/ cached' = cached
           \/ /\ cached' = job[t].got.of /\ job[t].got # None
              /\ job[t].kind = "load" /\ ~job[t].cancelled
    PROVE  SessionInv'
<1> USE DEF tokens
<1>0. /\ SessionTypeOK /\ TasksFit /\ RenewalFits /\ StartsAlone /\ StoresFit /\ TokensFit
      /\ RefusedBefore /\ Uncrossed /\ Forgotten /\ LeavingFits /\ Out /\ Arriving /\ In
    BY DEF SessionInv
<1>a. t \in Tasks /\ booted BY RunningBooted DEF Running
<1>b. job[t] \in Job /\ PlaceFits(job[t]) BY <1>0, <1>a DEF SessionTypeOK, TasksFit
<1>c. job[t].kind \in {"load", "init"} BY <1>b DEF PlaceFits
<1>1. /\ job' \in [Tasks -> Job] /\ job'[t].at = "done" /\ Running' = Running \ {t}
      /\ \A u \in Tasks \ {t} : Steady(u) /\ (job'[u].cancelled <=> job[u].cancelled)
  <2>1. \A u \in Tasks : ~Cancelling(u) BY DEF Cancelling
  <2>2. QED BY <1>0, <1>a, <2>1, Ends DEF Steady
<1>2. TasksFit' /\ RenewalFits' /\ TokensFit' /\ RefusedBefore' BY <1>a, EndsKeep
<1>3. SessionTypeOK'
  <2>1. cached' \in Accounts \cup {None}
    <3>1. job[t].got # None => job[t].got.of \in Accounts BY <1>b DEF Job, Held, Token
    <3>2. QED BY <1>0, <3>1 DEF SessionTypeOK
  <2>2. QED BY <1>0, <1>1, <2>1 DEF SessionTypeOK, Remembers
<1>4. StartsAlone' BY <1>0, <1>1, <1>a DEF StartsAlone, Steady, Running
<1>5. StoresFit' BY <1>0, <1>1 DEF StoresFit, Steady, SigningIn, Running
<1>6. Uncrossed' BY DEF Uncrossed, Remembers
<1>7. Forgotten'
  <2>1. ASSUME app = "phone", ~crossed', user = None \/ \E u \in Running' : job'[u].kind = "signOut"
        PROVE  cached' = None /\ \A u \in Running' : job'[u].kind = "load" => job'[u].cancelled
    <3>1. user = None \/ \E u \in Running : job[u].kind = "signOut"
        BY <1>1, <2>1 DEF Steady, Running
    <3>2. cached = None /\ \A u \in Running : job[u].kind = "load" => job[u].cancelled
        BY <1>0, <2>1, <3>1 DEF Forgotten, Remembers
    <3>3. QED BY <1>1, <3>2 DEF Steady, Running
  <2>2. QED BY <2>1 DEF Forgotten
<1>8. LeavingFits' BY <1>0, <1>1 DEF LeavingFits, Remembers, Steady, SigningIn, Running
<1>9. Out' BY <1>0, <1>1 DEF Out, Remembers, Steady, Running
<1>10. Arriving'
  <2>1. ASSUME ~crossed', ~trouble' PROVE ~crossed /\ ~trouble BY <2>1 DEF Remembers
  <2>2. ASSUME ~crossed', ~trouble', NEW u \in Running', job'[u].kind = "signIn"
        PROVE  u \in Running /\ Steady(u) /\ job[u].kind = "signIn"
    BY <1>1, <2>2 DEF Running, Steady
  <2>3. QED BY <1>0, <1>1, <1>c, <2>1, <2>2 DEF Arriving, Steady, Kept, Belongs, Running
<1>11. In'
  <2>1. ASSUME gesture \in Accounts, ~crossed', ~trouble', \A u \in Running' : job'[u].kind # "signOut"
        PROVE  /\ Kept(gesture) /\ user \in {gesture, None}
               /\ user = None /\ booted => \E u \in Running' : job'[u].kind = "init" /\ ~job'[u].cancelled
               /\ renewal.at \in {"post", "keepAccess", "keepRefresh"} => Belongs(renewal.got, gesture)
               /\ cached' \in {gesture, None} \/ app # "phone"
               /\ \A u \in Running' :
                     /\ job'[u].at \notin {"clearAccess", "clearRefresh", "dropAccess", "dropRefresh"}
                     /\ job'[u].at = "renew" => Belongs(job'[u].got, gesture)
                     /\ job'[u].at = "sent" /\ ~job'[u].cancelled /\ (app = "phone" \/ job'[u].kind = "init")
                           => Belongs(job'[u].got, gesture)
    <3>1. \A u \in Running : job[u].kind # "signOut" BY <1>1, <1>c, <2>1 DEF Steady, Running
    <3>2. ~crossed /\ ~trouble BY <2>1 DEF Remembers
    <3>3. /\ Kept(gesture) /\ user \in {gesture, None}
          /\ user = None /\ booted => \E u \in Running : job[u].kind = "init" /\ ~job[u].cancelled
          /\ renewal.at \in {"post", "keepAccess", "keepRefresh"} => Belongs(renewal.got, gesture)
          /\ cached \in {gesture, None} \/ app # "phone"
          /\ \A u \in Running :
                /\ job[u].at \notin {"clearAccess", "clearRefresh", "dropAccess", "dropRefresh"}
                /\ job[u].at = "renew" => Belongs(job[u].got, gesture)
                /\ job[u].at = "sent" /\ ~job[u].cancelled /\ (app = "phone" \/ job[u].kind = "init")
                      => Belongs(job[u].got, gesture)
        BY <1>0, <2>1, <3>1, <3>2 DEF In
    <3>4. \A u \in Running' : u \in Running /\ u \in Tasks \ {t} BY <1>1 DEF Running
    <3>5. user = None /\ booted => \E u \in Running' : job'[u].kind = "init" /\ ~job'[u].cancelled
        BY <1>1, <1>c, <3>3 DEF Steady, Running
    <3>6. cached' \in {gesture, None} \/ app # "phone" BY <3>3 DEF Belongs
    <3>7. QED BY <1>1, <3>3, <3>4, <3>5, <3>6 DEF Steady
  <2>2. QED BY <2>1 DEF In, Kept, Belongs
<1>12. QED
    BY <1>2, <1>3, <1>4, <1>5, <1>6, <1>7, <1>8, <1>9, <1>10, <1>11 DEF SessionInv

\* An attempt has failed and nothing is changed by it.
LEMMA FailedEnd ==
    ASSUME SessionInv, NEW t \in Running, job[t].at \in {"post", "sent"}, End(t),
           UNCHANGED <<tokens, user, cached, booted, gesture, app, renewal, dead>>, Remembers,
           trouble' \/ crossed', loading' = loading \/ (loading' = FALSE /\ app = "merchant")
    PROVE  SessionInv'
<1> USE DEF tokens
<1>0. /\ SessionTypeOK /\ TasksFit /\ RenewalFits /\ StartsAlone /\ StoresFit /\ TokensFit
      /\ RefusedBefore /\ Uncrossed /\ Forgotten /\ LeavingFits /\ Out /\ Arriving /\ In
    BY DEF SessionInv
<1>a. t \in Tasks /\ booted BY RunningBooted DEF Running
<1>1. /\ job' \in [Tasks -> Job] /\ job'[t].at = "done" /\ Running' = Running \ {t}
      /\ \A u \in Tasks \ {t} : Steady(u) /\ (job'[u].cancelled <=> job[u].cancelled)
  <2>1. \A u \in Tasks : ~Cancelling(u) BY DEF Cancelling
  <2>2. QED BY <1>0, <1>a, <2>1, Ends DEF Steady
<1>2. TasksFit' /\ RenewalFits' /\ TokensFit' /\ RefusedBefore' BY <1>a, EndsKeep
<1>3. SessionTypeOK' BY <1>0, <1>1 DEF SessionTypeOK, Remembers
<1>4. StartsAlone' BY <1>0, <1>1, <1>a DEF StartsAlone, Steady, Running
<1>5. StoresFit' BY <1>0, <1>1 DEF StoresFit, Steady, SigningIn, Running
<1>6. Uncrossed' BY DEF Uncrossed, Remembers
<1>7. Forgotten'
  <2>1. ASSUME app = "phone", ~crossed', user = None \/ \E u \in Running' : job'[u].kind = "signOut"
        PROVE  cached = None /\ \A u \in Running' : job'[u].kind = "load" => job'[u].cancelled
    <3>1. user = None \/ \E u \in Running : job[u].kind = "signOut"
        BY <1>1, <2>1 DEF Steady, Running
    <3>2. cached = None /\ \A u \in Running : job[u].kind = "load" => job[u].cancelled
        BY <1>0, <2>1, <3>1 DEF Forgotten, Remembers
    <3>3. QED BY <1>1, <3>2 DEF Steady, Running
  <2>2. QED BY <2>1 DEF Forgotten
<1>8. LeavingFits' BY <1>0, <1>1 DEF LeavingFits, Remembers, Steady, SigningIn, Running
<1>9. Out' BY <1>0, <1>1 DEF Out, Remembers, Steady, Running
<1>10. Arriving' BY DEF Arriving
<1>11. In' BY DEF In
<1>12. QED
    BY <1>2, <1>3, <1>4, <1>5, <1>6, <1>7, <1>8, <1>9, <1>10, <1>11 DEF SessionInv

\* On the web nobody is left in: tokens and user are gone at once.
LEMMA ClearedEnd ==
    ASSUME SessionInv, NEW t \in Tasks, job[t].at # "wait", t \in Running \/ user # None,
           End(t), Cleared, app # "phone", UNCHANGED <<booted, app, renewal, dead>>, Remembers,
           loading' = FALSE, loading => t \in Running,
           gesture' = gesture \/ gesture' = "out",
           gesture' # gesture /\ ~crossed' => \A u \in Running \ {t} :
              job[u].kind \in {"load", "init"} /\ job[u].at # "renew" /\ (job[u].kind = "init" => app = "merchant"),
           gesture' \notin Accounts \/ crossed' \/ trouble',
           crossed' \/ trouble' \/ \A u \in Running \ {t} : job[u].kind # "signIn" \/ job[u].at = "post"
    PROVE  SessionInv'
<1> USE DEF Cleared
<1>0. /\ SessionTypeOK /\ TasksFit /\ RenewalFits /\ StartsAlone /\ StoresFit /\ TokensFit
      /\ RefusedBefore /\ Uncrossed /\ Forgotten /\ LeavingFits /\ Out /\ Arriving /\ In
    BY DEF SessionInv
<1>a. booted BY RunningBooted
<1>1. /\ job' \in [Tasks -> Job] /\ job'[t].at = "done" /\ Running' = Running \ {t}
      /\ \A u \in Tasks \ {t} : Steady(u) /\ (Cancelling(u) => job'[u].cancelled)
    BY <1>0, Ends DEF Steady
<1>b. \A u \in Running' : u \in Running /\ u \in Tasks \ {t} BY <1>1 DEF Running
<1>2. TasksFit' /\ RenewalFits' /\ TokensFit' /\ RefusedBefore' BY EndsKeep
<1>3. SessionTypeOK'
  <2>1. gesture' \in {"start", "out", "kept"} \cup Accounts BY <1>0 DEF SessionTypeOK
  <2>2. QED BY <1>0, <1>1, <2>1 DEF SessionTypeOK, Remembers, Held
<1>c. ASSUME NEW u \in Running', job'[u].kind = "init"
      PROVE  app = "merchant" /\ job'[u].cancelled
  <2>1. u \in Running /\ Steady(u) /\ job[u].kind = "init" BY <1>1, <1>b, <1>c DEF Steady
  <2>2. app = "merchant" BY <1>0, <1>b, <2>1, <1>c DEF StartsAlone
  <2>3. job[u].cancelled \/ copy # None BY <1>0, <2>1, <2>2 DEF StartsAlone
  <2>4. job[u].cancelled \/ Cancelling(u) BY <2>1, <2>2, <2>3 DEF Cancelling, Running
  <2>5. QED BY <1>1, <1>b, <2>1, <2>2, <2>4, <1>c DEF Steady
<1>4. StartsAlone' BY <1>0, <1>a, <1>c DEF StartsAlone
<1>5. StoresFit' BY <1>0, <1>1 DEF StoresFit
<1>6. Uncrossed' BY DEF Uncrossed, Remembers
<1>7. Forgotten' BY DEF Forgotten
<1>8. LeavingFits'
  <2>1. ASSUME ~crossed', NEW u \in Running', SigningIn(u)' PROVE gesture' = "start"
    <3>1. u \in Running \ {t} /\ SigningIn(u) /\ ~crossed BY <1>1, <1>b, <2>1 DEF SigningIn, Steady, Remembers
    <3>2. gesture = "start" BY <1>0, <3>1 DEF LeavingFits
    <3>3. job[u].kind \notin {"load", "init"} BY <3>1 DEF SigningIn
    <3>4. QED BY <2>1, <3>1, <3>2, <3>3
  <2>2. QED BY <2>1 DEF LeavingFits
<1>9. Out'
  <2>1. ASSUME gesture' = "out", ~crossed', NEW u \in Running'
        PROVE  job'[u].kind \in {"load", "init"} /\ job'[u].at \notin {"renew", "dropAccess", "dropRefresh"}
    <3>1. u \in Running \ {t} /\ Steady(u) /\ ~crossed BY <1>1, <1>b, <2>1 DEF Remembers
    <3>2. job[u].kind \in {"load", "init"} /\ job[u].at # "renew"
        BY <1>0, <2>1, <3>1 DEF Out
    <3>3. PlaceFits(job[u]) /\ job[u].at \notin {"idle", "done"} BY <1>0, <3>1 DEF TasksFit, Running
    <3>4. QED BY <3>1, <3>2, <3>3 DEF PlaceFits, Steady
  <2>2. renewal.at = "off" BY <1>0 DEF RenewalFits
  <2>3. QED BY <1>c, <2>1, <2>2 DEF Out
<1>10. Arriving'
  <2>1. ASSUME ~crossed', ~trouble', NEW u \in Running', job'[u].kind = "signIn"
        PROVE  job'[u].at = "post"
    BY <1>1, <1>b, <2>1 DEF Steady
  <2>2. renewal.at = "off" BY <1>0 DEF RenewalFits
  <2>3. QED BY <1>c, <2>1, <2>2 DEF Arriving
<1>11. In' BY DEF In
<1>12. QED
    BY <1>2, <1>3, <1>4, <1>5, <1>6, <1>7, <1>8, <1>9, <1>10, <1>11 DEF SessionInv

LEMMA TwoOrMore ==
    ASSUME NEW S, IsFiniteSet(S), NEW x \in S, NEW y \in S, x # y
    PROVE  Cardinality(S) > 1
<1>1. IsFiniteSet(S \ {x}) /\ Cardinality(S \ {x}) = Cardinality(S) - 1 BY FS_RemoveElement
<1>2. Cardinality(S \ {x}) # 0 BY <1>1, FS_EmptySet
<1>3. Cardinality(S) \in Nat /\ Cardinality(S \ {x}) \in Nat BY <1>1, FS_CardinalityType
<1>4. QED BY <1>1, <1>2, <1>3

\* A task that may not renew has done so, and was refused a second time.
LEMMA Incurable ==
    ASSUME SessionInv, NEW t \in Running, job[t].at = "sent", job[t].got \in dead \cup {None}, ~MayRenew(t),
           job[t].kind \notin {"load", "signInByCode"},
           (app = "phone" /\ job[t].kind = "init") \/ (app \in {"customer", "merchant"} /\ refresh # None),
           trouble' = (trouble \/ app = "admin" \/ job[t].got = None \/ Cardinality(dead) > 1)
    PROVE  trouble'
<1>1. job[t].again BY DEF MayRenew
<1>2. CASE job[t].got = None BY <1>2
<1>3. CASE job[t].got # None
  <2>1. (\E d \in dead : ~OwnRenewal(d, t)) /\ OwnRenewal(job[t].got, t)
      BY <1>1, <1>3 DEF SessionInv, RefusedBefore
  <2>2. PICK d \in dead : ~OwnRenewal(d, t) BY <2>1
  <2>3. d # job[t].got BY <2>1, <2>2
  <2>4. Cardinality(dead) > 1 BY <1>3, <2>3, TwoOrMore DEF SessionInv, TokensFit
  <2>5. QED BY <2>4
<1>4. QED BY <1>2, <1>3

\* On the phone a failure is followed by deletions.
LEMMA PhoneFails ==
    ASSUME SessionInv, NEW t \in Running, job[t].at = "sent", job[t].kind # "load", app = "phone",
           Goto(t, "dropAccess"), UNCHANGED <<device, gesture, app, renewal, dead>>, Remembers,
           job[t].kind = "init" => trouble'
    PROVE  SessionInv'
<1> USE DEF tokens, device
<1>0. /\ SessionTypeOK /\ TasksFit /\ RenewalFits /\ StartsAlone /\ StoresFit /\ TokensFit
      /\ RefusedBefore /\ Uncrossed /\ Forgotten /\ LeavingFits /\ Out /\ Arriving /\ In
    BY DEF SessionInv
<1>a. t \in Tasks /\ booted BY RunningBooted DEF Running
<1>b. job[t] \in Job /\ PlaceFits(job[t]) BY <1>0, <1>a DEF SessionTypeOK, TasksFit
<1>c. job[t].kind \in {"init", "signIn"} BY <1>b DEF PlaceFits, Job, Kinds
<1>1. /\ job' \in [Tasks -> Job] /\ job'[t].at = "dropAccess" /\ Running' = Running
      /\ job'[t].kind = job[t].kind /\ job'[t].account = job[t].account
      /\ job'[t].got = job[t].got /\ (job'[t].again <=> job[t].again)
      /\ (job'[t].cancelled <=> job[t].cancelled)
      /\ \A u \in Tasks \ {t} : job'[u] = job[u]
    BY <1>0, <1>a, Goes DEF Places
<1>d. \A u \in Running : /\ job'[u].kind = job[u].kind /\ job'[u].got = job[u].got
                         /\ (job'[u].cancelled <=> job[u].cancelled)
    BY <1>1 DEF Running
<1>2. TasksFit'
  <2>1. ASSUME NEW u \in Tasks PROVE PlaceFits(job[u])'
    <3>1. PlaceFits(job[u]) BY <1>0 DEF TasksFit
    <3>2. QED BY <1>1, <1>c, <3>1 DEF PlaceFits
  <2>2. QED BY <1>0, <1>1, <2>1 DEF TasksFit, SigningIn, Running
<1>3. RenewalFits' BY <1>0, <1>1 DEF RenewalFits, OwnRenewal
<1>4. TokensFit'
  <2>1. (Around \ {None})' \subseteq Around BY <1>1 DEF Around
  <2>2. \A u \in Tasks : Spent(u) => Spent(u)' BY <1>1 DEF Spent
  <2>3. QED BY <1>0, <2>1, <2>2, TokensStay DEF TokensFit
<1>5. RefusedBefore' BY <1>0, <1>1, <1>d DEF RefusedBefore, OwnRenewal, Running
<1>6. SessionTypeOK' BY <1>0, <1>1 DEF SessionTypeOK, Remembers
<1>7. StartsAlone' BY <1>0, <1>1, <1>a, <1>d DEF StartsAlone
<1>8. StoresFit' BY <1>0, <1>1 DEF StoresFit, SigningIn, Dashboards, Running
<1>9. Uncrossed' BY DEF Uncrossed, Remembers
<1>10. Forgotten' BY <1>0, <1>1, <1>c DEF Forgotten, Remembers, Running
<1>11. LeavingFits' BY <1>0, <1>1, <1>c DEF LeavingFits, Remembers, SigningIn, Running
<1>12. Out'
  <2>1. gesture = "out" /\ ~crossed => FALSE
      BY <1>0, <1>b, <1>c DEF Out, PlaceFits
  <2>2. QED BY <2>1 DEF Out, Remembers
<1>13. Arriving'
  <2>1. ASSUME ~crossed', ~trouble', NEW u \in Running', job'[u].kind = "signIn"
        PROVE  LET a == job'[u].account
               IN  /\ job'[u].at \in {"keepAccess", "keepRefresh", "sent", "renew"} => Belongs(job'[u].got, a)
                   /\ job'[u].at = "keepRefresh" => Belongs(access, a)
                   /\ job'[u].at \in {"check", "send", "sent", "wait", "renew"} => Kept(a)
                   /\ renewal.at \in {"post", "keepAccess", "keepRefresh"} => Belongs(renewal.got, a)
                   /\ \A v \in Running' : job'[v].kind = "init" /\ ~job'[v].cancelled =>
                         job'[u].at # "post" /\ Belongs(job'[v].got, a)
    <3>1. u \in Running /\ job[u].kind = "signIn" /\ ~crossed /\ ~trouble
        BY <1>1, <1>d, <2>1 DEF Remembers
    <3>2. u = t \/ job'[u] = job[u] BY <1>1 DEF Running
    <3>3. QED BY <1>0, <1>1, <1>d, <3>1, <3>2 DEF Arriving
  <2>2. QED BY <2>1 DEF Arriving, Kept, Belongs
<1>14. In'
  <2>1. gesture \in Accounts /\ ~crossed' => job[t].kind = "init"
      BY <1>0, <1>c, SessionAssumption DEF LeavingFits, SigningIn, Remembers
  <2>2. QED BY <2>1 DEF In
<1>15. QED
    BY <1>2, <1>3, <1>4, <1>5, <1>6, <1>7, <1>8, <1>9, <1>10, <1>11, <1>12, <1>13, <1>14 DEF SessionInv

\* The refresh token of whoever is in, or coming in, is there.
LEMMA InHasRefresh ==
    ASSUME SessionInv, ~crossed, ~trouble, app \notin {"phone", "admin"}, gesture \in Accounts
    PROVE  refresh # None
<1>1. \A u \in Running : job[u].kind # "signOut"
    BY DEF SessionInv, TasksFit, PlaceFits, Running
<1>2. Kept(gesture) BY <1>1 DEF SessionInv, In
<1>3. QED BY <1>2 DEF Kept, Belongs

LEMMA ArrivingHasRefresh ==
    ASSUME SessionInv, ~crossed, ~trouble, app \notin {"phone", "admin"},
           NEW u \in Running, job[u].kind = "signIn", job[u].at # "post"
    PROVE  refresh # None
<1>1. job[u].at \in {"sent", "renew"}
  <2>1. PlaceFits(job[u]) /\ job[u].at \notin {"idle", "done"}
      BY DEF SessionInv, TasksFit, Running
  <2>2. QED BY <2>1 DEF PlaceFits
<1>2. Kept(job[u].account) BY <1>1 DEF SessionInv, Arriving
<1>3. QED BY <1>2 DEF Kept, Belongs

LEMMA GiveUpKeeps ==
    ASSUME SessionInv, NEW t \in Running, job[t].at = "sent", NEW refused \in BOOLEAN,
           GiveUp(t, refused), UNCHANGED <<app, renewal, dead>>, Remembers,
           ~refused => trouble',
           refused => /\ job[t].got \in dead \cup {None} /\ ~MayRenew(t) /\ app # "admin"
                      /\ trouble' = (trouble \/ app = "admin" \/ job[t].got = None \/ Cardinality(dead) > 1)
    PROVE  SessionInv'
<1>0. /\ SessionTypeOK /\ TasksFit /\ RenewalFits /\ StartsAlone /\ StoresFit /\ TokensFit
      /\ RefusedBefore /\ Uncrossed /\ Forgotten /\ LeavingFits /\ Out /\ Arriving /\ In
    BY DEF SessionInv
<1>a. t \in Tasks /\ PlaceFits(job[t]) BY <1>0 DEF TasksFit, Running
<1>c. \A u \in Running \ {t} : SigningIn(t) => ~SigningIn(u) BY <1>0 DEF TasksFit
<1>e. app \in {"phone", "customer", "merchant", "admin"}
    BY <1>0, SessionAssumption DEF SessionTypeOK, Clients
<1>d. app # "phone" /\ app # "admin" /\ refresh # None /\ job[t].kind \in {"init", "signIn"} => trouble'
    BY <1>e, Incurable
<1>1. CASE /\ job[t].kind = "load" \/ (job[t].kind = "signIn" /\ app \in {"merchant", "admin"})
           /\ UNCHANGED <<device, gesture>> /\ End(t)
  <2>1. CASE job[t].kind = "load" BY <1>1, <2>1, QuietEnd DEF device
  <2>2. CASE job[t].kind = "signIn" /\ app \in {"merchant", "admin"}
    <3>1. trouble' \/ crossed'
      <4>1. SUFFICES ASSUME ~trouble', ~crossed' PROVE FALSE OBVIOUS
      <4>2. ~trouble /\ ~crossed /\ app # "admin" BY <4>1 DEF Remembers
      <4>3. refresh # None BY <2>2, <4>2, ArrivingHasRefresh
      <4>4. QED BY <1>d, <2>2, <4>1, <4>2, <4>3
    <3>2. QED BY <1>1, <2>2, <3>1, FailedEnd DEF device
  <2>3. QED BY <1>1, <2>1, <2>2
<1>2. CASE job[t].kind # "load" /\ app = "phone" /\ Goto(t, "dropAccess") /\ UNCHANGED <<device, gesture>>
  <2>1. job[t].kind = "init" => trouble' BY <1>2, Incurable
  <2>2. QED BY <1>2, <2>1, PhoneFails
<1>3. CASE /\ job[t].kind \in {"init", "signIn"} /\ app = "customer"
           /\ Cleared /\ End(t) /\ loading' = FALSE /\ UNCHANGED <<booted, gesture>>
  <2>1. gesture' \notin Accounts \/ crossed' \/ trouble'
    <3>1. SUFFICES ASSUME gesture \in Accounts, ~trouble', ~crossed' PROVE FALSE BY <1>3
    <3>2. ~trouble /\ ~crossed BY <3>1 DEF Remembers
    <3>3. refresh # None BY <1>3, <3>1, <3>2, InHasRefresh
    <3>4. QED BY <1>d, <1>3, <3>1, <3>3
  <2>2. \A u \in Running \ {t} : job[u].kind # "signIn"
    <3>1. CASE job[t].kind = "init" BY <1>0, <1>3, <3>1 DEF StartsAlone
    <3>2. CASE job[t].kind = "signIn" BY <1>c, <3>2 DEF SigningIn
    <3>3. QED BY <1>3, <3>1, <3>2
  <2>3. QED BY <1>a, <1>3, <2>1, <2>2, ClearedEnd
<1>4. CASE /\ job[t].kind = "signInByCode" /\ app = "merchant"
           /\ Cleared /\ End(t) /\ gesture' = "out" /\ UNCHANGED <<loading, booted>>
  <2>1. gesture' \notin Accounts BY <1>4, SessionAssumption
  <2>2. \A u \in Running \ {t} : job[u].kind # "signIn" BY <1>4, <1>c DEF SigningIn
  <2>3. loading' = FALSE /\ ~loading BY <1>0, <1>4 DEF StartsAlone, SessionTypeOK
  <2>4. ~crossed' => \A u \in Running \ {t} :
           job[u].kind \in {"load", "init"} /\ job[u].at # "renew" /\ (job[u].kind = "init" => app = "merchant")
      BY <1>4, Lone DEF SigningIn, Remembers
  <2>5. QED BY <1>a, <1>4, <2>1, <2>2, <2>3, <2>4, ClearedEnd
<1>5. CASE /\ job[t].kind = "init" /\ app \in {"merchant", "admin"}
           /\ app = "admin" \/ (refused /\ ~job[t].cancelled)
           /\ Cleared /\ End(t) /\ loading' = FALSE /\ UNCHANGED <<booted, gesture>>
  <2>1. gesture' \notin Accounts \/ crossed' \/ trouble'
    <3>1. SUFFICES ASSUME gesture \in Accounts, ~trouble', ~crossed' PROVE FALSE BY <1>5
    <3>2. ~trouble /\ ~crossed /\ app # "admin" BY <3>1 DEF Remembers
    <3>3. refresh # None BY <1>5, <3>1, <3>2, InHasRefresh
    <3>4. QED BY <1>d, <1>5, <3>1, <3>2, <3>3
  <2>2. crossed' \/ trouble' \/ \A u \in Running \ {t} : job[u].kind # "signIn" \/ job[u].at = "post"
    <3>1. SUFFICES ASSUME ~trouble', ~crossed', NEW u \in Running, job[u].kind = "signIn", job[u].at # "post"
                   PROVE  FALSE
        OBVIOUS
    <3>2. ~trouble /\ ~crossed /\ app # "admin" BY <3>1 DEF Remembers
    <3>3. refresh # None BY <1>5, <3>1, <3>2, ArrivingHasRefresh
    <3>4. QED BY <1>d, <1>5, <3>1, <3>2, <3>3
  <2>3. QED BY <1>a, <1>5, <2>1, <2>2, ClearedEnd
<1>6. CASE /\ job[t].kind = "init" /\ app = "merchant" /\ ~(refused /\ ~job[t].cancelled)
           /\ UNCHANGED <<tokens, user, cached>> /\ End(t) /\ loading' = FALSE /\ UNCHANGED <<booted, gesture>>
  <2>1. CASE ~refused BY <1>6, <2>1, FailedEnd
  <2>2. CASE job[t].cancelled
    <3>1. loading' = loading BY <1>0, <1>6, <2>2 DEF StartsAlone, SessionTypeOK
    <3>2. QED BY <1>6, <2>2, <3>1, QuietEnd
  <2>3. QED BY <1>6, <2>1, <2>2
<1>7. QED BY <1>1, <1>2, <1>3, <1>4, <1>5, <1>6 DEF GiveUp

LEMMA SignInFailsKeeps ==
    ASSUME SessionInv, NEW t \in Tasks, SignInFails(t), Remembers
    PROVE  SessionInv'
<1>0. TasksFit /\ StartsAlone /\ SessionTypeOK BY DEF SessionInv
<1>a. t \in Running /\ PlaceFits(job[t]) BY <1>0 DEF TasksFit, Running, SignInFails
<1>b. SigningIn(t) BY <1>a DEF PlaceFits, SignInFails, SigningIn
<1>1. CASE job[t].kind = "signInByCode"
  <2>1. gesture' \notin Accounts BY <1>1, SessionAssumption DEF SignInFails
  <2>2. \A u \in Running \ {t} : job[u].kind # "signIn" BY <1>0, <1>a, <1>b DEF TasksFit, SigningIn
  <2>3. loading' = FALSE /\ ~loading BY <1>0, <1>1, <1>a DEF StartsAlone, SessionTypeOK, SignInFails
  <2>4. ~crossed' => \A u \in Running \ {t} :
           job[u].kind \in {"load", "init"} /\ job[u].at # "renew" /\ (job[u].kind = "init" => app = "merchant")
      BY <1>a, <1>b, Lone DEF Remembers
  <2>5. app # "phone" /\ job[t].at # "wait" BY <1>1, <1>a DEF PlaceFits, SignInFails
  <2>6. QED BY <1>1, <1>a, <2>1, <2>2, <2>3, <2>4, <2>5, ClearedEnd DEF SignInFails
<1>2. CASE job[t].kind # "signInByCode" BY <1>a, <1>2, FailedEnd DEF SignInFails
<1>3. QED BY <1>1, <1>2

\* The account is known, and has business here.
LEMMA WelcomeIn ==
    ASSUME SessionInv, NEW t \in Running, job[t].at = "sent", job[t].kind \in {"init", "signIn"},
           ~job[t].cancelled, job[t].got # None,
           user' = job[t].got.of, loading' = FALSE, End(t), refresh' = refresh,
           IF app = "admin" THEN access' = job[t].got /\ copy' = job[t].got ELSE UNCHANGED <<access, copy>>,
           gesture' = IF SigningIn(t) THEN job[t].got.of ELSE gesture,
           UNCHANGED <<cached, booted, app, renewal, dead, trouble>>, Remembers
    PROVE  SessionInv'
<1>0. /\ SessionTypeOK /\ TasksFit /\ RenewalFits /\ StartsAlone /\ StoresFit /\ TokensFit
      /\ RefusedBefore /\ Uncrossed /\ Forgotten /\ LeavingFits /\ Out /\ Arriving /\ In
    BY DEF SessionInv
<1> DEFINE a == job[t].got.of
<1>a. t \in Tasks /\ booted BY RunningBooted DEF Running
<1>b. job[t] \in Job /\ PlaceFits(job[t]) BY <1>0, <1>a DEF SessionTypeOK, TasksFit
<1>c. a \in Accounts /\ a # None /\ a \notin {"start", "out", "kept"} BY <1>b, SessionAssumption DEF Job, Held, Token
<1>d. SigningIn(t) <=> job[t].kind = "signIn" BY DEF SigningIn
<1> HIDE DEF a
<1>1. /\ job' \in [Tasks -> Job] /\ Running' = Running \ {t}
      /\ \A u \in Tasks \ {t} : Steady(u)
    BY <1>0, <1>a, Ends DEF Steady
<1>e. \A u \in Running' : u \in Running \ {t} /\ Steady(u) BY <1>1 DEF Running
<1>f. \A u \in Running' : app = "merchant" \/ job[u].kind \notin {"init", "signIn", "signInByCode"}
    BY <1>0, <1>d, <1>e DEF StartsAlone, TasksFit, SigningIn
<1>g. job[t].kind = "init" => app = "merchant" \/ Running' = {}
    BY <1>0, <1>1 DEF StartsAlone
<1>h. job[t].kind = "signIn" => \A u \in Running' : ~SigningIn(u)
    BY <1>0, <1>d, <1>e DEF TasksFit
<1>2. TasksFit' /\ RenewalFits' /\ TokensFit' /\ RefusedBefore'
  <2>1. {access, refresh, copy}' \subseteq {access, refresh, copy, job[t].got, None} BY <1>0
  <2>2. QED BY <1>a, <2>1, EndsKeep
<1>3. SessionTypeOK'
  <2>1. {access, refresh, copy}' \subseteq Held BY <1>0, <1>b DEF SessionTypeOK, Job
  <2>2. gesture' \in {"start", "out", "kept"} \cup Accounts BY <1>0, <1>c DEF SessionTypeOK, a
  <2>3. user' \in Accounts BY <1>c DEF a
  <2>4. QED BY <1>0, <1>1, <2>1, <2>2, <2>3 DEF SessionTypeOK, Remembers
<1>4. StartsAlone'
  <2>1. ASSUME NEW u \in Running', job'[u].kind = "init"
        PROVE  app = "merchant" /\ (~job'[u].cancelled => copy' # None)
    BY <1>0, <1>e, <1>f, <2>1 DEF StartsAlone, Steady
  <2>2. QED BY <1>a, <2>1 DEF StartsAlone
<1>5. StoresFit'
  <2>1. user' # None BY <1>c DEF a
  <2>2. app # "merchant" => \A u \in Running' : ~SigningIn(u)' BY <1>e, <1>f DEF SigningIn, Steady
  <2>3. QED BY <1>0, <2>1, <2>2 DEF StoresFit, Dashboards
<1>6. Uncrossed' BY DEF Uncrossed, Remembers
<1>7. Forgotten'
  <2>1. user' # None BY <1>c DEF a
  <2>2. app = "phone" /\ ~crossed' => \A u \in Running' : job'[u].kind # "signOut"
      BY <1>d, <1>e, <1>g, Lone DEF Remembers, Steady
  <2>3. QED BY <2>1, <2>2 DEF Forgotten
<1>8. LeavingFits'
  <2>1. ASSUME ~crossed', NEW u \in Running', SigningIn(u)' PROVE gesture' = "start"
    <3>1. SigningIn(u) /\ ~crossed BY <1>e, <2>1 DEF SigningIn, Steady, Remembers
    <3>2. ~SigningIn(t) BY <1>d, <1>h, <1>b, <2>1, <3>1
    <3>3. QED BY <1>0, <1>e, <3>1, <3>2 DEF LeavingFits
  <2>2. ASSUME ~crossed', NEW u \in Running', job'[u].kind = "signOut", job'[u].at = "dropRefresh"
        PROVE  access' = None
    <3>1. job[u].kind = "signOut" /\ job[u].at = "dropRefresh" /\ ~crossed BY <1>e, <2>2 DEF Steady, Remembers
    <3>2. app = "phone" BY <1>0, <1>e, <3>1 DEF TasksFit, PlaceFits, Running
    <3>3. QED BY <1>0, <1>e, <3>1, <3>2 DEF LeavingFits
  <2>3. QED BY <2>1, <2>2 DEF LeavingFits
<1>9. Out'
  <2>1. gesture' = "out" /\ ~crossed' => FALSE BY <1>0, <1>c, <1>d DEF Out, Remembers, a
  <2>2. QED BY <2>1 DEF Out
<1>10. Arriving'
  <2>1. ASSUME ~crossed', ~trouble', NEW u \in Running', job'[u].kind = "signIn"
        PROVE  LET b == job'[u].account
               IN  /\ job'[u].at \in {"keepAccess", "keepRefresh", "sent", "renew"} => Belongs(job'[u].got, b)
                   /\ job'[u].at = "keepRefresh" => Belongs(access', b)
                   /\ job'[u].at \in {"check", "send", "sent", "wait", "renew"} => Kept(job[u].account)'
                   /\ renewal.at \in {"post", "keepAccess", "keepRefresh"} => Belongs(renewal.got, b)
                   /\ \A v \in Running' : job'[v].kind = "init" /\ ~job'[v].cancelled =>
                         job'[u].at # "post" /\ Belongs(job'[v].got, b)
    <3>1. u \in Running /\ job[u].kind = "signIn" /\ ~crossed /\ ~trouble /\ app = "merchant"
        BY <1>e, <1>f, <2>1 DEF Remembers, Steady
    <3>2. UNCHANGED <<access, refresh, app>> BY <3>1
    <3>3. QED BY <1>0, <1>e, <3>1, <3>2 DEF Arriving, Steady, Kept, Belongs
  <2>2. user' # None BY <1>c DEF a
  <2>3. QED BY <2>1, <2>2 DEF Arriving, Kept, Belongs
<1>11. In'
  <2>1. ASSUME gesture' \in Accounts, ~crossed', ~trouble', \A u \in Running' : job'[u].kind # "signOut"
        PROVE  /\ Kept(gesture)' /\ user' = gesture'
               /\ renewal.at \in {"post", "keepAccess", "keepRefresh"} => Belongs(renewal.got, gesture')
               /\ cached \in {gesture', None} \/ app # "phone"
               /\ \A u \in Running' :
                     /\ job'[u].at \notin {"clearAccess", "clearRefresh", "dropAccess", "dropRefresh"}
                     /\ job'[u].at = "renew" => Belongs(job'[u].got, gesture')
                     /\ job'[u].at = "sent" /\ ~job'[u].cancelled /\ (app = "phone" \/ job'[u].kind = "init")
                           => Belongs(job'[u].got, gesture')
    <3>1. ~crossed /\ ~trouble BY <2>1 DEF Remembers
    <3>2. CASE job[t].kind = "signIn"
      <4>1. gesture' = a /\ user' = a BY <1>d, <3>2 DEF a
      <4>2. Belongs(job[t].got, job[t].account) /\ Kept(job[t].account) BY <1>0, <3>1, <3>2 DEF Arriving
      <4>3. job[t].account = a BY <4>2 DEF Belongs, a
      <4>4. Belongs(access', a) /\ (app' # "admin" => Belongs(refresh', a)) BY <4>2, <4>3 DEF Kept, Belongs
      <4>5. renewal.at = "off" BY <1>d, <3>1, <3>2, Lone
      <4>6. app = "phone" => cached = None /\ \A u \in Running : job[u].kind = "load" => job[u].cancelled
          BY <1>0, <1>d, <3>1, <3>2 DEF Forgotten, StoresFit
      <4>7. ASSUME NEW u \in Running'
            PROVE  /\ job'[u].at \notin {"clearAccess", "clearRefresh", "dropAccess", "dropRefresh", "renew"}
                   /\ job'[u].at = "sent" /\ ~job'[u].cancelled /\ (app = "phone" \/ job'[u].kind = "init")
                         => Belongs(job'[u].got, a)
        <5>1. u \in Running \ {t} /\ Steady(u) BY <1>e
        <5>2. /\ job[u].at \notin {"renew", "wait", "clearAccess", "clearRefresh"}
              /\ job[u].kind \in {"load", "init"} /\ (job[u].kind = "init" => app = "merchant")
            BY <1>d, <3>1, <3>2, <5>1, Lone
        <5>3. job[u].at \notin {"dropAccess", "dropRefresh"}
            BY <1>0, <5>1, <5>2 DEF TasksFit, PlaceFits, Running
        <5>4. job[u].kind = "init" /\ ~job[u].cancelled => Belongs(job[u].got, a)
            BY <1>0, <3>1, <3>2, <4>3, <5>1 DEF Arriving
        <5>5. QED BY <4>6, <5>1, <5>2, <5>3, <5>4 DEF Steady
      <4>8. Kept(gesture)' BY <4>1, <4>4 DEF Kept, Belongs
      <4>9. QED BY <4>1, <4>5, <4>6, <4>7, <4>8
    <3>3. CASE job[t].kind = "init"
      <4>1. gesture' = gesture BY <1>d, <3>3
      <4>2. \A u \in Running : job[u].kind # "signOut" BY <1>1, <1>a, <2>1, <3>3 DEF Steady, Running
      <4>3. /\ Kept(gesture) /\ Belongs(job[t].got, gesture)
            /\ renewal.at \in {"post", "keepAccess", "keepRefresh"} => Belongs(renewal.got, gesture)
            /\ cached \in {gesture, None} \/ app # "phone"
            /\ \A u \in Running :
                  /\ job[u].at \notin {"clearAccess", "clearRefresh", "dropAccess", "dropRefresh"}
                  /\ job[u].at = "renew" => Belongs(job[u].got, gesture)
                  /\ job[u].at = "sent" /\ ~job[u].cancelled /\ (app = "phone" \/ job[u].kind = "init")
                        => Belongs(job[u].got, gesture)
          BY <1>0, <2>1, <3>1, <3>3, <4>1, <4>2 DEF In
      <4>4. Kept(gesture)' BY <4>1, <4>3 DEF Kept, Belongs
      <4>5. user' = gesture BY <4>3 DEF Belongs
      <4>6. QED BY <1>e, <4>1, <4>3, <4>4, <4>5 DEF Steady
    <3>4. QED BY <3>2, <3>3
  <2>2. user' # None BY <1>c DEF a
  <2>3. QED BY <2>1, <2>2 DEF In, Kept, Belongs
<1>12. QED
    BY <1>2, <1>3, <1>4, <1>5, <1>6, <1>7, <1>8, <1>9, <1>10, <1>11 DEF SessionInv

LEMMA AnsweredKeeps ==
    ASSUME SessionInv, NEW t \in Tasks, Answered(t), Remembers
    PROVE  SessionInv'
<1>0. TasksFit /\ StartsAlone /\ StoresFit /\ SessionTypeOK BY DEF SessionInv
<1>a. t \in Running /\ PlaceFits(job[t]) /\ job[t] \in Job
    BY <1>0 DEF TasksFit, Running, Answered, SessionTypeOK
<1>1. CASE job[t].kind = "load" \/ job[t].cancelled
    BY <1>a, <1>1, QuietEnd DEF Answered
<1>2. CASE ~(job[t].kind = "load" \/ job[t].cancelled)
  <2>1. Welcome(t) /\ UNCHANGED <<cached, booted>> /\ UNCHANGED <<app, renewal, dead, trouble>>
        /\ job[t].at = "sent" /\ job[t].got # None
      BY <1>2 DEF Answered
  <2>2. job[t].kind \in {"init", "signIn", "signInByCode"} BY <1>2, <1>a, <2>1 DEF PlaceFits, Job, Kinds
  <2>3. CASE job[t].kind = "signInByCode" \/ (~FitsIn(job[t].got.of) /\ (app = "admin" \/ SigningIn(t)))
    <3>1. loading' = FALSE /\ End(t) /\ gesture' = "out" BY <2>1, <2>3 DEF Welcome
    <3>2. app # "phone" BY <1>a, <2>3 DEF FitsIn, PlaceFits
    <3>3. Cleared
      <4>1. CASE app = "admin" /\ SigningIn(t)
        <5>1. booted BY <1>a, RunningBooted
        <5>2. ~loading BY <1>0, <1>a, <4>1 DEF StartsAlone, SigningIn
        <5>3. refresh = None /\ user = None /\ copy = None BY <1>0, <1>a, <4>1, <5>1, <5>2 DEF StoresFit
        <5>4. QED BY <2>1, <2>3, <4>1, <5>3 DEF Welcome, Cleared
      <4>2. CASE ~(app = "admin" /\ SigningIn(t)) BY <2>1, <2>3, <4>2 DEF Welcome, Cleared
      <4>3. QED BY <4>1, <4>2
    <3>4. ~crossed' => \A u \in Running \ {t} :
             job[u].kind \in {"load", "init"} /\ job[u].at # "renew" /\ (job[u].kind = "init" => app = "merchant")
      <4>1. CASE SigningIn(t) BY <1>a, <4>1, Lone DEF Remembers
      <4>2. CASE ~SigningIn(t)
        <5>1. job[t].kind = "init" /\ app = "admin" BY <2>2, <2>3, <4>2 DEF SigningIn
        <5>2. QED BY <1>0, <1>a, <5>1 DEF StartsAlone
      <4>3. QED BY <4>1, <4>2
    <3>5. \A u \in Running \ {t} : job[u].kind # "signIn"
      <4>1. CASE SigningIn(t) BY <1>0, <1>a, <4>1 DEF TasksFit, SigningIn
      <4>2. CASE ~SigningIn(t)
        <5>1. job[t].kind = "init" /\ app = "admin" BY <2>2, <2>3, <4>2 DEF SigningIn
        <5>2. QED BY <1>0, <1>a, <5>1 DEF StartsAlone
      <4>3. QED BY <4>1, <4>2
    <3>6. gesture' \notin Accounts BY <3>1, SessionAssumption
    <3>7. QED BY <1>a, <2>1, <3>1, <3>2, <3>3, <3>4, <3>5, <3>6, ClearedEnd
  <2>4. CASE ~(job[t].kind = "signInByCode" \/ (~FitsIn(job[t].got.of) /\ (app = "admin" \/ SigningIn(t))))
    <3>1. /\ user' = job[t].got.of /\ loading' = FALSE /\ End(t) /\ refresh' = refresh
          /\ IF app = "admin" THEN access' = job[t].got /\ copy' = job[t].got ELSE UNCHANGED <<access, copy>>
          /\ gesture' = IF SigningIn(t) THEN job[t].got.of ELSE gesture
        BY <2>1, <2>4 DEF Welcome
    <3>2. QED BY <1>2, <1>a, <2>1, <2>2, <2>4, <3>1, WelcomeIn
  <2>5. QED BY <2>3, <2>4
<1>3. QED BY <1>1, <1>2

\* The page is left, whatever it was doing.
LEMMA LeftPage ==
    ASSUME SessionInv, LeavePage, app' = app, dead' = dead, Remembers,
           access' \in {access, None}, refresh' \in {refresh, None}, gesture' \in {gesture, "start"},
           gesture' \in Accounts /\ ~crossed' /\ ~trouble' =>
              access' = access /\ refresh' = refresh /\ \A u \in Running : job[u].kind # "signOut"
    PROVE  SessionInv'
<1>0. /\ SessionTypeOK /\ TasksFit /\ RenewalFits /\ StartsAlone /\ StoresFit /\ TokensFit
      /\ RefusedBefore /\ Uncrossed /\ Forgotten /\ LeavingFits /\ Out /\ Arriving /\ In
    BY DEF SessionInv
<1>1. /\ job' \in [Tasks -> Job] /\ Running' = {}
      /\ \A u \in Tasks : /\ job'[u].at = IF u \in Running THEN "done" ELSE job[u].at
                          /\ job'[u].kind = job[u].kind /\ job'[u].account = job[u].account
                          /\ job'[u].got = job[u].got /\ (job'[u].again <=> job[u].again)
                          /\ (job'[u].cancelled <=> job[u].cancelled)
      /\ renewal'.at = "off" /\ renewal'.by = None /\ renewal'.got = None
    BY <1>0, Leaves
<1>a. /\ user' = None /\ cached' = None /\ loading' = TRUE /\ booted' = FALSE
      /\ renewal' = [at |-> "off", by |-> None, got |-> None]
      /\ copy' = IF app \in {"merchant", "admin"} THEN access' ELSE None
    BY DEF LeavePage
<1>2. TasksFit'
  <2>1. ASSUME NEW u \in Tasks PROVE PlaceFits(job[u])'
    <3>1. PlaceFits(job[u]) BY <1>0 DEF TasksFit
    <3>2. job'[u].at \in {job[u].at, "done"} /\ (job'[u].at = "idle" => ~job'[u].again)
        BY <1>1, <3>1 DEF PlaceFits
    <3>3. QED BY <1>1, <3>1, <3>2 DEF PlaceFits
  <2>2. QED BY <1>1, <2>1 DEF TasksFit
<1>3. RenewalFits'
  <2>1. \A u \in Tasks : job'[u].at # "wait" BY <1>1 DEF Running
  <2>2. renewal' \in [at: {"off", "read", "post", "keepAccess", "keepRefresh"},
                      by: Tasks \cup {None}, got: Held]
      BY <1>a DEF Held
  <2>3. QED BY <1>1, <2>1, <2>2 DEF RenewalFits
<1>4. SessionTypeOK'
  <2>1. gesture' \in {"start", "out", "kept"} \cup Accounts BY <1>0 DEF SessionTypeOK
  <2>2. {access, refresh, copy}' \subseteq Held BY <1>0, <1>a DEF SessionTypeOK, Held
  <2>3. QED BY <1>0, <1>1, <1>a, <2>1, <2>2 DEF SessionTypeOK, Remembers
<1>5. StartsAlone' BY <1>1, <1>a DEF StartsAlone, Dashboards
<1>6. StoresFit' BY <1>0, <1>1, <1>a DEF StoresFit, Dashboards
<1>7. TokensFit'
  <2>1. (Around \ {None})' \subseteq Around
    <3>1. {access, refresh, copy, renewal.got}' \subseteq {access, refresh, None} BY <1>1, <1>a
    <3>2. {job'[u].got : u \in Tasks} = {job[u].got : u \in Tasks} BY <1>1
    <3>3. QED BY <3>1, <3>2 DEF Around
  <2>2. ASSUME NEW u \in Tasks, Spent(u) PROVE Spent(u)'
    <3>1. renewal.by = u /\ renewal.at \in {"keepAccess", "keepRefresh"} => u \in Running
        BY <1>0 DEF RenewalFits, Running
    <3>2. QED BY <1>1, <2>2, <3>1 DEF Spent
  <2>3. QED BY <1>0, <2>1, <2>2, TokensStay DEF TokensFit
<1>8. RefusedBefore' BY <1>1 DEF RefusedBefore
<1>9. Uncrossed' BY DEF Uncrossed, Remembers
<1>10. Forgotten' BY <1>1, <1>a DEF Forgotten
<1>11. LeavingFits' BY <1>1 DEF LeavingFits
<1>12. Out'
  <2>1. ASSUME gesture' = "out", ~crossed' PROVE access' = None /\ refresh' = None /\ copy' = None
    <3>1. gesture = "out" /\ ~crossed BY <2>1 DEF Remembers
    <3>2. access = None /\ refresh = None BY <1>0, <3>1 DEF Out
    <3>3. QED BY <1>a, <3>2
  <2>2. QED BY <1>1, <1>a, <2>1 DEF Out
<1>13. Arriving' BY <1>1, <1>a DEF Arriving
<1>14. In'
  <2>1. ASSUME gesture' \in Accounts, ~crossed', ~trouble' PROVE Kept(gesture)'
    <3>1. gesture' = gesture /\ ~crossed /\ ~trouble BY <2>1, SessionAssumption DEF Remembers
    <3>2. access' = access /\ refresh' = refresh /\ \A u \in Running : job[u].kind # "signOut"
        BY <2>1
    <3>3. Kept(gesture) BY <1>0, <2>1, <3>1, <3>2 DEF In
    <3>4. QED BY <3>1, <3>2, <3>3 DEF Kept, Belongs
  <2>2. QED BY <1>1, <1>a, <2>1 DEF In
<1>15. QED
    BY <1>2, <1>3, <1>4, <1>5, <1>6, <1>7, <1>8, <1>9, <1>10, <1>11, <1>12, <1>13, <1>14 DEF SessionInv

LEMMA WebRenewFailsKeeps ==
    ASSUME SessionInv, NEW t \in Tasks, WebRenewFails(t), Remembers
    PROVE  SessionInv'
BY LeftPage DEF WebRenewFails

LEMMA LoadAgainKeeps ==
    ASSUME SessionInv, LoadAgain, Remembers
    PROVE  SessionInv'
<1>1. gesture' \in {gesture, "start"} BY DEF LoadAgain
<1>2. gesture' \in Accounts => \A u \in Running : job[u].kind # "signOut"
    BY SessionAssumption DEF LoadAgain
<1>3. QED BY <1>1, <1>2, LeftPage DEF LoadAgain

LEMMA LostKeeps ==
    ASSUME SessionInv, NEW t \in Tasks, Lost(t), Remembers
    PROVE  SessionInv'
<1>1. t \in Running BY DEF Lost, Running
<1>2. QED BY <1>1, GiveUpKeeps DEF Lost

\* The token that was refused is not one the task has renewed.
LEMMA FirstRefusal ==
    ASSUME SessionInv, NEW t \in Running, job[t].at = "sent", ~job[t].again,
           job[t].got \in dead \cup {None}, job[t].kind = "init" \/ (app # "phone" /\ job[t].kind # "load")
    PROVE  \E d \in dead : ~OwnRenewal(d, t)
<1>1. job[t].got # None BY DEF SessionInv, RefusedBefore
<1>2. job[t].got \in dead /\ job[t].got \in Around BY <1>1 DEF Around, Running
<1>3. ~Spent(t) BY DEF SessionInv, RenewalFits, Spent
<1>4. ~OwnRenewal(job[t].got, t) BY <1>1, <1>2, <1>3 DEF SessionInv, TokensFit, OwnRenewal
<1>5. QED BY <1>2, <1>4

\* A refused request of the phone joins the renewal, or starts it.
LEMMA WaitsKeeps ==
    ASSUME SessionInv, NEW t \in Running, job[t].at = "sent", job[t].got \in dead \cup {None}, MayRenew(t),
           app = "phone", Goto(t, "wait"),
           \/ renewal.at # "off" /\ UNCHANGED renewal
           \/ renewal.at = "off" /\ renewal' = [at |-> "read", by |-> t, got |-> None],
           UNCHANGED <<device, gesture, trouble, app, dead>>, Remembers
    PROVE  SessionInv'
<1> USE DEF tokens, device
<1>0. /\ SessionTypeOK /\ TasksFit /\ RenewalFits /\ StartsAlone /\ StoresFit /\ TokensFit
      /\ RefusedBefore /\ Uncrossed /\ Forgotten /\ LeavingFits /\ Out /\ Arriving /\ In
    BY DEF SessionInv
<1>a. t \in Tasks /\ booted BY RunningBooted DEF Running
<1>b. job[t] \in Job /\ PlaceFits(job[t]) BY <1>0, <1>a DEF SessionTypeOK, TasksFit
<1>c. ~job[t].again /\ job[t].kind # "signInByCode" BY DEF MayRenew
<1>1. /\ job' \in [Tasks -> Job] /\ job'[t].at = "wait" /\ Running' = Running
      /\ job'[t].kind = job[t].kind /\ job'[t].account = job[t].account
      /\ job'[t].got = job[t].got /\ (job'[t].again <=> job[t].again)
      /\ (job'[t].cancelled <=> job[t].cancelled)
      /\ \A u \in Tasks \ {t} : job'[u] = job[u]
    BY <1>0, <1>a, Goes DEF Places
<1>d. \A u \in Running : /\ job'[u].kind = job[u].kind /\ job'[u].got = job[u].got
                         /\ (job'[u].cancelled <=> job[u].cancelled)
                         /\ job'[u].account = job[u].account
                         /\ job'[u].at = IF u = t THEN "wait" ELSE job[u].at
    BY <1>1 DEF Running
<1>e. \/ renewal'.at = renewal.at /\ renewal'.by = renewal.by /\ renewal'.got = renewal.got
      \/ renewal.at = "off" /\ renewal'.at = "read" /\ renewal'.by = t /\ renewal'.got = None
    OBVIOUS
<1>2. TasksFit'
  <2>1. ASSUME NEW u \in Tasks PROVE PlaceFits(job[u])'
    <3>1. PlaceFits(job[u]) BY <1>0 DEF TasksFit
    <3>2. QED BY <1>1, <1>b, <1>c, <3>1 DEF PlaceFits
  <2>2. QED BY <1>0, <1>1, <2>1 DEF TasksFit, SigningIn, Running
<1>3. RenewalFits'
  <2>1. renewal' \in [at: {"off", "read", "post", "keepAccess", "keepRefresh"},
                      by: Tasks \cup {None}, got: Held]
      BY <1>0, <1>a DEF RenewalFits, Held
  <2>2. renewal'.at # "off" BY <1>e
  <2>3. renewal'.by \in Tasks /\ job'[renewal'.by].at = "wait" BY <1>0, <1>1, <1>a, <1>e DEF RenewalFits
  <2>4. QED BY <1>0, <1>e, <2>1, <2>2, <2>3 DEF RenewalFits, OwnRenewal
<1>4. TokensFit'
  <2>1. (Around \ {None})' \subseteq Around BY <1>1, <1>e DEF Around
  <2>2. \A u \in Tasks : Spent(u) => Spent(u)' BY <1>1, <1>c, <1>e DEF Spent
  <2>3. QED BY <1>0, <2>1, <2>2, TokensStay DEF TokensFit
<1>5. RefusedBefore'
  <2>1. job[t].kind = "init" => \E d \in dead : ~OwnRenewal(d, t) BY <1>c, FirstRefusal
  <2>2. ASSUME NEW u \in Running', job'[u].kind = "init" \/ (app # "phone" /\ job'[u].kind # "load")
        PROVE  /\ job'[u].at \in {"wait", "renew"} \/ job'[u].again => \E d \in dead : ~OwnRenewal(d, u)
               /\ job'[u].at = "send" => access # None /\ (job'[u].again => OwnRenewal(access, u))
               /\ job'[u].at = "sent" => job'[u].got # None /\ (job'[u].again => OwnRenewal(job'[u].got, u))
               /\ renewal'.at = "keepRefresh" => access # None /\ OwnRenewal(access, u)
    <3>1. u \in Running /\ job[u].kind = "init" BY <1>1, <1>d, <2>2
    <3>2. CASE u = t BY <1>0, <1>1, <1>c, <1>e, <2>1, <3>1, <3>2 DEF RefusedBefore
    <3>3. CASE u # t
      <4>1. job'[u] = job[u] BY <1>1, <3>1, <3>3 DEF Running
      <4>2. QED BY <1>0, <1>e, <3>1, <4>1 DEF RefusedBefore
    <3>4. QED BY <3>2, <3>3
  <2>3. QED BY <2>2 DEF RefusedBefore, OwnRenewal
<1>6. SessionTypeOK' BY <1>0, <1>1 DEF SessionTypeOK, Remembers
<1>7. StartsAlone' BY <1>0, <1>1, <1>a, <1>d DEF StartsAlone
<1>8. StoresFit' BY <1>0, <1>1 DEF StoresFit, SigningIn, Dashboards, Running
<1>9. Uncrossed' BY DEF Uncrossed, Remembers
<1>10. Forgotten' BY <1>0, <1>1, <1>d DEF Forgotten, Remembers
<1>11. LeavingFits' BY <1>0, <1>1, <1>d DEF LeavingFits, Remembers, SigningIn
<1>12. Out'
  <2>1. gesture = "out" /\ ~crossed => job[t].kind = "load"
      BY <1>0, <1>b DEF Out, PlaceFits
  <2>2. QED BY <1>0, <1>1, <1>d, <1>e, <2>1 DEF Out, Remembers
<1>13. Arriving'
  <2>1. ASSUME ~crossed', ~trouble', NEW u \in Running', job'[u].kind = "signIn"
        PROVE  LET a == job'[u].account
               IN  /\ job'[u].at \in {"keepAccess", "keepRefresh", "sent", "renew"} => Belongs(job'[u].got, a)
                   /\ job'[u].at = "keepRefresh" => Belongs(access, a)
                   /\ job'[u].at \in {"check", "send", "sent", "wait", "renew"} => Kept(a)
                   /\ renewal'.at \in {"post", "keepAccess", "keepRefresh"} => Belongs(renewal'.got, a)
                   /\ \A v \in Running' : job'[v].kind = "init" /\ ~job'[v].cancelled =>
                         job'[u].at # "post" /\ Belongs(job'[v].got, a)
    <3>1. u \in Running /\ job[u].kind = "signIn" /\ ~crossed /\ ~trouble
        BY <1>1, <1>d, <2>1 DEF Remembers
    <3>2. QED BY <1>0, <1>1, <1>d, <1>e, <3>1 DEF Arriving
  <2>2. QED BY <2>1 DEF Arriving, Kept, Belongs
<1>14. In'
  <2>1. ASSUME gesture \in Accounts, ~crossed', ~trouble', \A u \in Running' : job'[u].kind # "signOut"
        PROVE  /\ Kept(gesture) /\ user \in {gesture, None}
               /\ user = None /\ booted => \E u \in Running' : job'[u].kind = "init" /\ ~job'[u].cancelled
               /\ renewal'.at \in {"post", "keepAccess", "keepRefresh"} => Belongs(renewal'.got, gesture)
               /\ cached \in {gesture, None} \/ app # "phone"
               /\ \A u \in Running' :
                     /\ job'[u].at \notin {"clearAccess", "clearRefresh", "dropAccess", "dropRefresh"}
                     /\ job'[u].at = "renew" => Belongs(job'[u].got, gesture)
                     /\ job'[u].at = "sent" /\ ~job'[u].cancelled /\ (app = "phone" \/ job'[u].kind = "init")
                           => Belongs(job'[u].got, gesture)
    <3>1. ~crossed /\ ~trouble /\ \A u \in Running : job[u].kind # "signOut"
        BY <1>1, <1>d, <2>1 DEF Remembers
    <3>2. QED BY <1>0, <1>1, <1>d, <1>e, <2>1, <3>1 DEF In
  <2>2. QED BY <2>1 DEF In, Kept, Belongs
<1>15. QED
    BY <1>2, <1>3, <1>4, <1>5, <1>6, <1>7, <1>8, <1>9, <1>10, <1>11, <1>12, <1>13, <1>14 DEF SessionInv

\* On the web the request keeps the refresh token it is going to use.
LEMMA RenewsKeeps ==
    ASSUME SessionInv, NEW t \in Running, job[t].at = "sent", job[t].got \in dead \cup {None}, MayRenew(t),
           app # "phone", job' = [job EXCEPT ![t].at = "renew", ![t].got = refresh],
           UNCHANGED <<device, gesture, trouble, app, dead, renewal>>, Remembers
    PROVE  SessionInv'
<1> USE DEF tokens, device
<1>0. /\ SessionTypeOK /\ TasksFit /\ RenewalFits /\ StartsAlone /\ StoresFit /\ TokensFit
      /\ RefusedBefore /\ Uncrossed /\ Forgotten /\ LeavingFits /\ Out /\ Arriving /\ In
    BY DEF SessionInv
<1>a. t \in Tasks /\ booted BY RunningBooted DEF Running
<1>b. job[t] \in Job /\ PlaceFits(job[t]) BY <1>0, <1>a DEF SessionTypeOK, TasksFit
<1>c. ~job[t].again /\ job[t].kind # "signInByCode" /\ app \in {"customer", "merchant"} /\ refresh # None
    BY <1>0, SessionAssumption DEF MayRenew, SessionTypeOK, Clients
<1>f. renewal.at = "off" BY <1>0, <1>c DEF RenewalFits
<1>1. /\ job' \in [Tasks -> Job] /\ job'[t].at = "renew" /\ Running' = Running
      /\ job'[t].kind = job[t].kind /\ job'[t].account = job[t].account
      /\ job'[t].got = refresh /\ (job'[t].again <=> job[t].again)
      /\ (job'[t].cancelled <=> job[t].cancelled)
      /\ \A u \in Tasks \ {t} : job'[u] = job[u]
  <2>1. PICK d : d = [job[t] EXCEPT !.at = "renew", !.got = refresh] OBVIOUS
  <2>2. /\ d \in Job /\ d.at = "renew" /\ d.kind = job[t].kind /\ d.account = job[t].account
        /\ d.got = refresh /\ d.again = job[t].again /\ d.cancelled = job[t].cancelled
      BY <1>0, <1>b, <2>1 DEF Job, Places, SessionTypeOK
  <2>3. job' = [job EXCEPT ![t] = d] BY <2>1
  <2>4. Running \cup {t} = Running OBVIOUS
  <2>5. QED BY <1>0, <1>a, <2>2, <2>3, <2>4, OneMoves
<1>d. \A u \in Running : /\ job'[u].kind = job[u].kind
                         /\ (job'[u].cancelled <=> job[u].cancelled)
                         /\ job'[u].account = job[u].account
    BY <1>1 DEF Running
<1>h. \A u \in Running \ {t} : job'[u] = job[u]
    BY <1>1 DEF Running
<1>2. TasksFit'
  <2>1. ASSUME NEW u \in Tasks PROVE PlaceFits(job[u])'
    <3>1. PlaceFits(job[u]) BY <1>0 DEF TasksFit
    <3>2. QED BY <1>1, <1>b, <1>c, <3>1 DEF PlaceFits
  <2>2. QED BY <1>0, <1>1, <2>1 DEF TasksFit, SigningIn, Running
<1>3. RenewalFits' BY <1>0, <1>1 DEF RenewalFits, OwnRenewal
<1>4. TokensFit'
  <2>1. (Around \ {None})' \subseteq Around BY <1>1 DEF Around
  <2>2. \A u \in Tasks : Spent(u) => Spent(u)' BY <1>1, <1>c DEF Spent
  <2>3. QED BY <1>0, <2>1, <2>2, TokensStay DEF TokensFit
<1>5. RefusedBefore'
  <2>1. job[t].kind # "load" => \E d \in dead : ~OwnRenewal(d, t) BY <1>c, FirstRefusal
  <2>2. ASSUME NEW u \in Running', job'[u].kind = "init" \/ (app # "phone" /\ job'[u].kind # "load")
        PROVE  /\ job'[u].at \in {"wait", "renew"} \/ job'[u].again => \E d \in dead : ~OwnRenewal(d, u)
               /\ job'[u].at = "send" => access # None /\ (job'[u].again => OwnRenewal(access, u))
               /\ job'[u].at = "sent" => job'[u].got # None /\ (job'[u].again => OwnRenewal(job'[u].got, u))
               /\ renewal.at = "keepRefresh" => access # None /\ OwnRenewal(access, u)
    <3>1. u \in Running /\ job[u].kind # "load" /\ (job[u].kind = "init" \/ app # "phone")
        BY <1>1, <1>d, <2>2
    <3>2. CASE u = t BY <1>1, <1>c, <1>f, <2>1, <3>1, <3>2
    <3>3. CASE u # t
      <4>1. job'[u] = job[u] BY <1>1, <3>1, <3>3 DEF Running
      <4>2. QED BY <1>0, <1>f, <3>1, <4>1 DEF RefusedBefore
    <3>4. QED BY <3>2, <3>3
  <2>3. QED BY <2>2 DEF RefusedBefore, OwnRenewal
<1>6. SessionTypeOK' BY <1>0, <1>1 DEF SessionTypeOK, Remembers
<1>i. Running' = Running /\ UNCHANGED <<access, refresh, copy, user, cached, loading, booted, app, renewal, gesture>>
    BY <1>1
<1>j. /\ t \in Running /\ job'[t].kind = job[t].kind /\ job'[t].account = job[t].account
      /\ job'[t].at = "renew" /\ job'[t].got = refresh /\ (job'[t].cancelled <=> job[t].cancelled)
    BY <1>1
<1>7. StartsAlone'
  <2>1. \A u \in Running' : u \in Running BY <1>i
  <2>2. ASSUME NEW u \in Running', job'[u].kind = "init"
        PROVE  /\ app # "merchant" => loading
               /\ app = "merchant" /\ ~job'[u].cancelled => copy # None
               /\ app = "merchant" /\ loading => ~job'[u].cancelled
      BY <1>0, <1>d, <2>1, <2>2 DEF StartsAlone
  <2>3. loading => user = None /\ \A u, v \in Running' : job'[u].kind = "init" /\ u = v
      BY <1>0, <1>d, <2>1 DEF StartsAlone
  <2>4. booted' /\ user' = user /\ copy' = copy /\ app' = app BY <1>a, <1>i
  <2>5. (loading' => loading) /\ (loading => loading') BY <1>i
  <2>6. QED BY <2>2, <2>3, <2>4, <2>5 DEF StartsAlone
<1>8. StoresFit' BY <1>0, <1>1 DEF StoresFit, SigningIn, Dashboards, Running
<1>9. Uncrossed' BY DEF Uncrossed, Remembers
<1>10. Forgotten' BY <1>c DEF Forgotten
<1>11. LeavingFits'
  <2>1. ASSUME ~crossed', NEW u \in Running'
        PROVE  /\ SigningIn(u)' => gesture = "start"
               /\ job'[u].kind = "signOut" => app = "phone"
    <3>1. u \in Running /\ job'[u].kind = job[u].kind /\ ~crossed BY <1>d, <1>i, <2>1 DEF Remembers
    <3>2. PlaceFits(job[u]) /\ job[u].at \notin {"idle", "done"} BY <1>0, <3>1 DEF TasksFit, Running
    <3>3. QED BY <1>0, <3>1, <3>2 DEF LeavingFits, SigningIn, PlaceFits
  <2>2. QED BY <1>c, <1>i, <2>1 DEF LeavingFits
<1>12. Out'
  <2>1. gesture = "out" /\ ~crossed => FALSE BY <1>0, <1>c DEF Out
  <2>2. QED BY <2>1 DEF Out, Remembers
<1>13. Arriving'
  <2>1. ASSUME ~crossed', ~trouble', NEW u \in Running', job'[u].kind = "signIn"
        PROVE  LET a == job'[u].account
               IN  /\ job'[u].at \in {"keepAccess", "keepRefresh", "sent", "renew"} => Belongs(job'[u].got, a)
                   /\ job'[u].at = "keepRefresh" => Belongs(access, a)
                   /\ job'[u].at \in {"check", "send", "sent", "wait", "renew"} => Kept(a)
                   /\ renewal.at \in {"post", "keepAccess", "keepRefresh"} => Belongs(renewal.got, a)
                   /\ \A v \in Running' : job'[v].kind = "init" /\ ~job'[v].cancelled =>
                         job'[u].at # "post" /\ Belongs(job'[v].got, a)
    <3>1. u \in Running /\ job[u].kind = "signIn" /\ ~crossed /\ ~trouble
        BY <1>d, <1>i, <2>1 DEF Remembers
    <3>2. /\ job[u].at \in {"keepAccess", "keepRefresh", "sent", "renew"} => Belongs(job[u].got, job[u].account)
          /\ job[u].at = "keepRefresh" => Belongs(access, job[u].account)
          /\ job[u].at \in {"check", "send", "sent", "wait", "renew"} => Kept(job[u].account)
          /\ \A v \in Running : job[v].kind = "init" /\ ~job[v].cancelled =>
                job[u].at # "post" /\ Belongs(job[v].got, job[u].account)
        BY <1>0, <3>1 DEF Arriving
    <3>3. CASE u = t
      <4>1. Belongs(refresh, job[t].account) /\ Kept(job[t].account) BY <1>c, <3>2, <3>3 DEF Kept
      <4>2. ASSUME NEW v \in Running', job'[v].kind = "init", ~job'[v].cancelled
            PROVE  Belongs(job'[v].got, job[t].account)
        <5>1. job[t].kind = "signIn" BY <3>1, <3>3
        <5>2. v # t BY <1>j, <4>2, <5>1
        <5>3. v \in Running \ {t} BY <1>i, <5>2
        <5>4. job'[v] = job[v] BY <1>h, <5>3
        <5>5. QED BY <3>2, <3>3, <4>2, <5>3, <5>4
      <4>3. QED BY <1>f, <1>j, <3>3, <4>1, <4>2
    <3>4. CASE u # t
      <4>1. job'[u] = job[u] BY <1>h, <3>1, <3>4
      <4>2. job[t].kind = "init" /\ ~job[t].cancelled => Belongs(refresh, job[u].account)
        <5>1. SUFFICES ASSUME job[t].kind = "init", ~job[t].cancelled PROVE Belongs(refresh, job[u].account)
            OBVIOUS
        <5>2. PlaceFits(job[u]) /\ job[u].at \notin {"idle", "done", "post"}
            BY <1>0, <3>1, <3>2, <5>1 DEF TasksFit, Running
        <5>3. job[u].at \in {"sent", "renew"} BY <1>c, <3>1, <5>2 DEF PlaceFits
        <5>4. QED BY <1>c, <3>2, <5>3 DEF Kept
      <4>3. ASSUME NEW v \in Running', job'[v].kind = "init", ~job'[v].cancelled
            PROVE  job[u].at # "post" /\ Belongs(job'[v].got, job[u].account)
          BY <1>h, <1>i, <1>j, <3>2, <4>2, <4>3
      <4>4. QED BY <1>f, <3>2, <4>1, <4>3
    <3>5. QED BY <3>3, <3>4
  <2>2. ASSUME ~crossed', ~trouble', app = "merchant" /\ booted /\ ~loading /\ user = None /\ copy # None
        PROVE  \E u \in Running' : job'[u].kind = "signIn" /\ job'[u].at \in {"sent", "renew"}
    <3>1. PICK u \in Running : job[u].kind = "signIn" /\ job[u].at \in {"sent", "renew"}
        BY <1>0, <2>2 DEF Arriving, Remembers
    <3>2. job'[u].kind = "signIn" /\ job'[u].at \in {"sent", "renew"}
      <4>1. CASE u = t BY <1>j, <3>1, <4>1
      <4>2. CASE u # t
        <5>1. job'[u] = job[u] BY <1>h, <4>2
        <5>2. QED BY <3>1, <5>1
      <4>3. QED BY <4>1, <4>2
    <3>3. QED BY <1>i, <3>2
  <2>3. QED BY <2>1, <2>2 DEF Arriving, Kept, Belongs
<1>14. In'
  <2>1. ASSUME gesture \in Accounts, ~crossed', ~trouble', \A u \in Running' : job'[u].kind # "signOut"
        PROVE  /\ Kept(gesture) /\ user \in {gesture, None}
               /\ user = None /\ booted => \E u \in Running' : job'[u].kind = "init" /\ ~job'[u].cancelled
               /\ renewal.at \in {"post", "keepAccess", "keepRefresh"} => Belongs(renewal.got, gesture)
               /\ cached \in {gesture, None} \/ app # "phone"
               /\ \A u \in Running' :
                     /\ job'[u].at \notin {"clearAccess", "clearRefresh", "dropAccess", "dropRefresh"}
                     /\ job'[u].at = "renew" => Belongs(job'[u].got, gesture)
                     /\ job'[u].at = "sent" /\ ~job'[u].cancelled /\ (app = "phone" \/ job'[u].kind = "init")
                           => Belongs(job'[u].got, gesture)
    <3>1. ~crossed /\ ~trouble /\ \A u \in Running : job[u].kind # "signOut"
        BY <1>d, <1>i, <2>1 DEF Remembers
    <3>2. /\ Kept(gesture) /\ user \in {gesture, None}
          /\ user = None /\ booted => \E u \in Running : job[u].kind = "init" /\ ~job[u].cancelled
          /\ \A u \in Running :
                /\ job[u].at \notin {"clearAccess", "clearRefresh", "dropAccess", "dropRefresh"}
                /\ job[u].at = "renew" => Belongs(job[u].got, gesture)
                /\ job[u].at = "sent" /\ ~job[u].cancelled /\ (app = "phone" \/ job[u].kind = "init")
                      => Belongs(job[u].got, gesture)
        BY <1>0, <2>1, <3>1 DEF In
    <3>3. Belongs(refresh, gesture) BY <1>c, <3>2 DEF Kept
    <3>4. user = None /\ booted => \E u \in Running' : job'[u].kind = "init" /\ ~job'[u].cancelled
        BY <1>d, <1>i, <3>2
    <3>5. ASSUME NEW u \in Running'
          PROVE  /\ job'[u].at \notin {"clearAccess", "clearRefresh", "dropAccess", "dropRefresh"}
                 /\ job'[u].at = "renew" => Belongs(job'[u].got, gesture)
                 /\ job'[u].at = "sent" /\ ~job'[u].cancelled /\ (app = "phone" \/ job'[u].kind = "init")
                       => Belongs(job'[u].got, gesture)
        BY <1>h, <1>i, <1>j, <3>2, <3>3, <3>5
    <3>6. QED BY <1>c, <1>f, <3>2, <3>4, <3>5
  <2>2. QED BY <2>1 DEF In, Kept, Belongs
<1>15. QED
    BY <1>2, <1>3, <1>4, <1>5, <1>6, <1>7, <1>8, <1>9, <1>10, <1>11, <1>12, <1>13, <1>14 DEF SessionInv

LEMMA RefusedKeeps ==
    ASSUME SessionInv, NEW t \in Tasks, Refused(t), Remembers
    PROVE  SessionInv'
<1>1. t \in Running /\ job[t].at = "sent" /\ job[t].got \in dead \cup {None} /\ UNCHANGED <<app, dead>>
    BY DEF Refused, Running
<1>2. CASE MayRenew(t) /\ app = "phone"
  <2>1. Goto(t, "wait") /\ UNCHANGED <<device, gesture, trouble>> BY <1>2 DEF Refused
  <2>2. \/ renewal.at # "off" /\ UNCHANGED renewal
        \/ renewal.at = "off" /\ renewal' = [at |-> "read", by |-> t, got |-> None]
      BY <1>2 DEF Refused
  <2>3. QED BY <1>1, <1>2, <2>1, <2>2, WaitsKeeps
<1>3. CASE MayRenew(t) /\ app # "phone" BY <1>1, <1>3, RenewsKeeps DEF Refused
<1>4. CASE ~MayRenew(t) /\ app = "admin"
  <2>1. access' = None /\ LeavePage /\ UNCHANGED <<refresh, gesture>> /\ trouble' BY <1>4 DEF Refused
  <2>2. QED BY <1>1, <2>1, LeftPage
<1>5. CASE ~MayRenew(t) /\ app # "admin"
  <2>1. /\ GiveUp(t, TRUE) /\ UNCHANGED renewal
        /\ trouble' = (trouble \/ app = "admin" \/ job[t].got = None \/ Cardinality(dead) > 1)
      BY <1>5 DEF Refused
  <2>2. QED BY <1>1, <1>5, <2>1, GiveUpKeeps
<1>6. QED BY <1>2, <1>3, <1>4, <1>5

\* On the web signing out is one step; on the phone it has just begun.
LEMMA WebSignOutKeeps ==
    ASSUME SessionInv, NEW t \in Tasks, SignOut(t), app # "phone", Remembers,
           crossed' = (crossed \/ Writing \/ Crossing')
    PROVE  SessionInv'
<1>0. TasksFit /\ StartsAlone /\ SessionTypeOK BY DEF SessionInv
<1>1. /\ job[t].at = "idle" /\ user # None /\ Cleared /\ loading' = FALSE /\ gesture' = "out" /\ End(t)
      /\ UNCHANGED <<app, booted, renewal, dead, trouble>>
    BY DEF SignOut
<1>2. ~loading BY <1>0, <1>1 DEF StartsAlone
<1>3. gesture' \notin Accounts BY <1>1, SessionAssumption
<1>4. ASSUME ~crossed', NEW u \in Running
      PROVE  /\ job[u].kind \in {"load", "init"} /\ job[u].at # "renew"
             /\ job[u].kind = "init" => app = "merchant"
  <2>1. /\ job[u].at \notin {"renew", "wait", "clearAccess", "clearRefresh"} /\ ~SigningIn(u)
        /\ job[u].kind = "init" => app = "merchant"
      BY <1>4 DEF Writing
  <2>2. PlaceFits(job[u]) /\ job[u] \in Job BY <1>0 DEF TasksFit, Running, SessionTypeOK
  <2>3. job[u].kind # "signOut" BY <2>2 DEF PlaceFits, Running
  <2>4. QED BY <2>1, <2>2, <2>3 DEF Job, Kinds, SigningIn
<1>5. crossed' \/ \A u \in Running \ {t} : job[u].kind # "signIn" BY <1>4
<1>6. ~crossed' => \A u \in Running \ {t} :
         job[u].kind \in {"load", "init"} /\ job[u].at # "renew" /\ (job[u].kind = "init" => app = "merchant")
    BY <1>4
<1>7. QED BY <1>1, <1>2, <1>3, <1>5, <1>6, ClearedEnd

LEMMA Wiped ==
    ASSUME SessionTypeOK, NEW t \in Tasks, WipeCache(t)
    PROVE  /\ job' \in [Tasks -> Job] /\ Running' = Running \cup {t} /\ cached' = None
           /\ job'[t].kind = "signOut" /\ job'[t].at = "dropAccess" /\ job'[t].account = None
           /\ job'[t].got = None /\ ~job'[t].again /\ ~job'[t].cancelled
           /\ \A u \in Tasks \ {t} :
                 /\ Steady(u)
                 /\ job'[u].cancelled <=> job[u].cancelled \/ (u \in Running /\ job[u].kind = "load")
<1>1. PICK d : d = [Idle EXCEPT !.kind = "signOut", !.at = "dropAccess"] OBVIOUS
<1>2. /\ d \in Job /\ d.kind = "signOut" /\ d.at = "dropAccess" /\ d.account = None /\ d.got = None
      /\ ~d.again /\ ~d.cancelled
    BY <1>1 DEF Idle, Job, Kinds, Places, Held
<1>3. job'[t] = d BY <1>1 DEF WipeCache
<1>4. ASSUME NEW u \in Tasks, u # t
      PROVE  /\ job'[u] \in Job /\ Steady(u)
             /\ job'[u].cancelled <=> job[u].cancelled \/ (u \in Running /\ job[u].kind = "load")
  <2>1. job[u] \in Job BY DEF SessionTypeOK
  <2>2. job'[u] = [job[u] EXCEPT !.cancelled = @ \/ (u \in Running /\ job[u].kind = "load")]
      BY <1>4 DEF WipeCache
  <2>3. PICK c : c = [job[u] EXCEPT !.cancelled = @ \/ (u \in Running /\ job[u].kind = "load")] OBVIOUS
  <2>4. /\ c \in Job /\ c.kind = job[u].kind /\ c.account = job[u].account /\ c.at = job[u].at
        /\ c.got = job[u].got /\ c.again = job[u].again
        /\ c.cancelled <=> job[u].cancelled \/ (u \in Running /\ job[u].kind = "load")
      BY <2>1, <2>3 DEF Job
  <2>5. job'[u] = c BY <2>2, <2>3
  <2>6. QED BY <2>4, <2>5 DEF Steady
<1>5. job' \in [Tasks -> Job] BY <1>2, <1>3, <1>4 DEF WipeCache
<1>6. Running' = Running \cup {t} BY <1>2, <1>3, <1>4 DEF Running, Steady
<1>7. QED BY <1>2, <1>3, <1>4, <1>5, <1>6 DEF WipeCache

LEMMA PhoneSignOutKeeps ==
    ASSUME SessionInv, NEW t \in Tasks, SignOut(t), app = "phone", Remembers
    PROVE  SessionInv'
<1> USE DEF tokens
<1>0. /\ SessionTypeOK /\ TasksFit /\ RenewalFits /\ StartsAlone /\ StoresFit /\ TokensFit
      /\ RefusedBefore /\ Uncrossed /\ Forgotten /\ LeavingFits /\ Out /\ Arriving /\ In
    BY DEF SessionInv
<1>a. /\ job[t].at = "idle" /\ user # None /\ WipeCache(t)
      /\ UNCHANGED <<access, refresh, copy, user, loading, gesture, app, booted, renewal, dead, trouble>>
    BY DEF SignOut
<1>b. booted /\ ~loading BY <1>0, <1>a, RunningBooted DEF StartsAlone
<1>1. /\ job' \in [Tasks -> Job] /\ Running' = Running \cup {t} /\ cached' = None
      /\ job'[t].kind = "signOut" /\ job'[t].at = "dropAccess" /\ job'[t].got = None
      /\ ~job'[t].again /\ ~job'[t].cancelled
      /\ \A u \in Tasks \ {t} :
            /\ Steady(u)
            /\ job'[u].cancelled <=> job[u].cancelled \/ (u \in Running /\ job[u].kind = "load")
    BY <1>0, <1>a, Wiped
<1>c. t \notin Running BY <1>a DEF Running
<1>d. \A u \in Running' : u = t \/ (u \in Running /\ u \in Tasks \ {t}) BY <1>1, <1>c DEF Running
<1>e. \A u \in Running : job[u].kind # "init" /\ ~SigningIn(u) BY <1>0, <1>a, <1>b DEF StartsAlone, StoresFit
<1>f. \A u \in Running' : job'[u].kind \notin {"init", "signIn", "signInByCode"}
    BY <1>1, <1>d, <1>e DEF Steady, SigningIn
<1>2. TasksFit'
  <2>1. ASSUME NEW u \in Tasks PROVE PlaceFits(job[u])'
    <3>1. PlaceFits(job[u]) BY <1>0 DEF TasksFit
    <3>2. CASE u = t BY <1>1, <1>a, <3>2 DEF PlaceFits
    <3>3. CASE u # t
      <4>1. job'[u].cancelled => job[u].cancelled \/ job[u].kind = "load" BY <1>1, <3>3
      <4>2. QED BY <1>1, <1>a, <3>1, <3>3, <4>1 DEF PlaceFits, Steady
    <3>4. QED BY <3>2, <3>3
  <2>2. QED BY <1>f, <2>1 DEF TasksFit, SigningIn
<1>3. RenewalFits'
  <2>1. \A u \in Tasks : job'[u].at = "wait" <=> job[u].at = "wait" BY <1>1, <1>a DEF Steady
  <2>2. QED BY <1>0, <1>a, <2>1 DEF RenewalFits, OwnRenewal
<1>4. TokensFit'
  <2>1. (Around \ {None})' \subseteq Around BY <1>1, <1>a DEF Around, Steady
  <2>2. ASSUME NEW u \in Tasks, Spent(u) PROVE Spent(u)'
    <3>1. u # t BY <1>0, <1>a, <2>2 DEF Spent, TasksFit, PlaceFits, RenewalFits
    <3>2. QED BY <1>1, <1>a, <2>2, <3>1, SpentStays
  <2>3. QED BY <1>0, <1>a, <2>1, <2>2, TokensStay DEF TokensFit
<1>5. RefusedBefore' BY <1>a, <1>f DEF RefusedBefore
<1>6. SessionTypeOK' BY <1>0, <1>1, <1>a DEF SessionTypeOK, Remembers
<1>7. StartsAlone' BY <1>a, <1>b, <1>f DEF StartsAlone
<1>8. StoresFit' BY <1>0, <1>a, <1>f DEF StoresFit, SigningIn, Dashboards
<1>9. Uncrossed' BY DEF Uncrossed, Remembers
<1>10. Forgotten' BY <1>1, <1>d DEF Forgotten, Steady
<1>11. LeavingFits'
  <2>1. ASSUME ~crossed', NEW u \in Running', job'[u].kind = "signOut", job'[u].at = "dropRefresh"
        PROVE  access' = None
    BY <1>0, <1>1, <1>a, <1>d, <2>1 DEF LeavingFits, Remembers, Steady
  <2>2. QED BY <1>f, <2>1 DEF LeavingFits, SigningIn
<1>12. Out' BY <1>0, <1>a DEF Out, Remembers
<1>13. Arriving' BY <1>a, <1>f DEF Arriving
<1>14. In' BY <1>1 DEF In
<1>15. QED
    BY <1>2, <1>3, <1>4, <1>5, <1>6, <1>7, <1>8, <1>9, <1>10, <1>11, <1>12, <1>13, <1>14 DEF SessionInv

LEMMA WebRenewKeeps ==
    ASSUME SessionInv, NEW t \in Tasks, WebRenew(t), Remembers
    PROVE  SessionInv'
<1>0. /\ SessionTypeOK /\ TasksFit /\ RenewalFits /\ StartsAlone /\ StoresFit /\ TokensFit
      /\ RefusedBefore /\ Uncrossed /\ Forgotten /\ LeavingFits /\ Out /\ Arriving /\ In
    BY DEF SessionInv
<1>a. t \in Running /\ job[t].at = "renew" BY DEF WebRenew, Running
<1>b. job[t] \in Job /\ PlaceFits(job[t]) BY <1>0 DEF SessionTypeOK, TasksFit
<1>c. booted /\ app \in {"customer", "merchant"} /\ job[t].got # None /\ job[t].kind \in {"init", "signIn", "load"}
    BY <1>a, <1>b, RunningBooted DEF PlaceFits, Job, Kinds
<1>f. renewal.at = "off" BY <1>0, <1>c DEF RenewalFits
<1>m. PICK new : new = [by |-> t, renewed |-> TRUE, of |-> job[t].got.of] OBVIOUS
<1>n. /\ new = [by |-> t, renewed |-> TRUE, of |-> job[t].got.of]
      /\ new \in Token /\ new # None /\ new.by = t /\ new.renewed /\ new.of = job[t].got.of
  <2>1. job[t].got.of \in Accounts BY <1>b, <1>c DEF Job, Held, Token
  <2>2. new \in Token BY <1>m, <2>1 DEF Token
  <2>3. QED BY <1>m, <2>2, SessionAssumption
<1>i. /\ access' = new /\ refresh' = new
      /\ UNCHANGED <<app, copy, user, cached, loading, booted, renewal, dead, gesture, trouble>>
    BY <1>n DEF WebRenew, Renewed
<1>1. /\ job' \in [Tasks -> Job] /\ job'[t].at = "sent" /\ Running' = Running
      /\ job'[t].kind = job[t].kind /\ job'[t].account = job[t].account
      /\ job'[t].got = new /\ job'[t].again
      /\ (job'[t].cancelled <=> job[t].cancelled)
      /\ \A u \in Tasks \ {t} : job'[u] = job[u]
  <2>1. PICK d : d = [job[t] EXCEPT !.at = "sent", !.again = TRUE, !.got = new] OBVIOUS
  <2>2. /\ d \in Job /\ d.at = "sent" /\ d.kind = job[t].kind /\ d.account = job[t].account
        /\ d.got = new /\ d.again /\ d.cancelled = job[t].cancelled
      BY <1>b, <1>n, <2>1 DEF Job, Places, Held
  <2>3. job' = [job EXCEPT ![t] = d] BY <1>n, <2>1 DEF WebRenew, Renewed
  <2>4. Running \cup {t} = Running BY <1>a
  <2>5. QED BY <1>0, <2>2, <2>3, <2>4, OneMoves
<1>d. \A u \in Running : job'[u].kind = job[u].kind /\ (job'[u].cancelled <=> job[u].cancelled)
    BY <1>1 DEF Running
<1>h. \A u \in Running' : u = t \/ (u \in Running /\ job'[u] = job[u])
    BY <1>1 DEF Running
<1>2. TasksFit'
  <2>1. ASSUME NEW u \in Tasks PROVE PlaceFits(job[u])'
    <3>1. PlaceFits(job[u]) BY <1>0 DEF TasksFit
    <3>2. QED BY <1>1, <1>c, <1>i, <3>1 DEF PlaceFits
  <2>2. QED BY <1>0, <1>1, <2>1 DEF TasksFit, SigningIn, Running
<1>3. RenewalFits' BY <1>0, <1>1, <1>f, <1>i DEF RenewalFits
<1>4. TokensFit'
  <2>1. (Around \ {None})' \subseteq Around \cup {new} BY <1>1, <1>i DEF Around
  <2>2. Spent(t)' BY <1>1 DEF Spent
  <2>3. \A u \in Tasks : Spent(u) => Spent(u)' BY <1>1, <1>i DEF Spent
  <2>4. QED BY <1>0, <1>i, <1>n, <2>1, <2>2, <2>3 DEF TokensFit
<1>5. RefusedBefore'
  <2>2. ASSUME NEW u \in Running', job'[u].kind = "init" \/ (app # "phone" /\ job'[u].kind # "load")
        PROVE  /\ job'[u].at \in {"wait", "renew"} \/ job'[u].again => \E d \in dead : ~OwnRenewal(d, u)
               /\ job'[u].at # "send"
               /\ job'[u].at = "sent" => job'[u].got # None /\ (job'[u].again => OwnRenewal(job'[u].got, u))
    <3>1. CASE u = t
      <4>1. \E d \in dead : ~OwnRenewal(d, t) BY <1>0, <1>1, <1>a, <2>2, <3>1 DEF RefusedBefore
      <4>2. QED BY <1>1, <1>n, <3>1, <4>1 DEF OwnRenewal
    <3>2. CASE u # t
      <4>1. u \in Running /\ job'[u] = job[u] BY <1>h, <3>2
      <4>2. job[u].at # "send" BY <1>0, <1>c, <4>1 DEF TasksFit, PlaceFits, Running
      <4>3. QED BY <1>0, <2>2, <4>1, <4>2 DEF RefusedBefore
    <3>3. QED BY <3>1, <3>2
  <2>3. QED BY <1>f, <1>i, <2>2 DEF RefusedBefore, OwnRenewal
<1>6. SessionTypeOK' BY <1>0, <1>1, <1>i, <1>n DEF SessionTypeOK, Remembers, Held
<1>7. StartsAlone'
  <2>1. \A u \in Running' : u \in Running BY <1>1
  <2>2. ASSUME NEW u \in Running', job'[u].kind = "init"
        PROVE  /\ app # "merchant" => loading
               /\ app = "merchant" /\ ~job'[u].cancelled => copy # None
               /\ app = "merchant" /\ loading => ~job'[u].cancelled
      BY <1>0, <1>d, <2>1, <2>2 DEF StartsAlone
  <2>3. loading => user = None /\ \A u, v \in Running' : job'[u].kind = "init" /\ u = v
      BY <1>0, <1>d, <2>1 DEF StartsAlone
  <2>4. booted' /\ user' = user /\ copy' = copy /\ app' = app BY <1>c, <1>i
  <2>5. (loading' => loading) /\ (loading => loading') BY <1>i
  <2>6. QED BY <2>2, <2>3, <2>4, <2>5 DEF StartsAlone
<1>8. StoresFit'
  <2>1. \A u \in Running' : SigningIn(u)' => u \in Running /\ SigningIn(u) BY <1>1, <1>d DEF SigningIn
  <2>2. QED BY <1>0, <1>c, <1>i, <2>1 DEF StoresFit, Dashboards
<1>9. Uncrossed' BY DEF Uncrossed, Remembers
<1>10. Forgotten' BY <1>c, <1>i DEF Forgotten
<1>11. LeavingFits'
  <2>1. ASSUME ~crossed', NEW u \in Running'
        PROVE  /\ SigningIn(u)' => gesture = "start"
               /\ job'[u].kind = "signOut" => app = "phone"
    <3>1. u \in Running /\ job'[u].kind = job[u].kind /\ ~crossed BY <1>1, <1>d, <2>1 DEF Remembers
    <3>2. PlaceFits(job[u]) /\ job[u].at \notin {"idle", "done"} BY <1>0, <3>1 DEF TasksFit, Running
    <3>3. QED BY <1>0, <3>1, <3>2 DEF LeavingFits, SigningIn, PlaceFits
  <2>2. QED BY <1>c, <1>i, <2>1 DEF LeavingFits
<1>12. Out'
  <2>1. gesture = "out" /\ ~crossed => FALSE BY <1>0, <1>a DEF Out
  <2>2. QED BY <1>i, <2>1 DEF Out, Remembers
<1>13. Arriving'
  <2>1. ASSUME ~crossed', ~trouble', NEW u \in Running', job'[u].kind = "signIn"
        PROVE  /\ u = t /\ Belongs(new, job'[u].account)
               /\ \A v \in Running' : job'[v].kind = "init" /\ ~job'[v].cancelled =>
                     Belongs(job'[v].got, job'[u].account)
    <3>1. u \in Running /\ job[u].kind = "signIn" /\ ~crossed /\ ~trouble
        BY <1>1, <1>d, <1>i, <2>1 DEF Remembers
    <3>2. u = t BY <1>a, <3>1, Lone DEF SigningIn
    <3>3. /\ Belongs(job[u].got, job[u].account)
          /\ \A v \in Running : job[v].kind = "init" /\ ~job[v].cancelled =>
                Belongs(job[v].got, job[u].account)
        BY <1>0, <1>a, <3>1, <3>2 DEF Arriving
    <3>4. Belongs(new, job[u].account) BY <1>n, <3>2, <3>3 DEF Belongs
    <3>5. ASSUME NEW v \in Running', job'[v].kind = "init", ~job'[v].cancelled
          PROVE  Belongs(job'[v].got, job[u].account)
        BY <1>1, <1>h, <2>1, <3>2, <3>3, <3>5
    <3>6. QED BY <1>1, <3>2, <3>4, <3>5
  <2>2. ASSUME ~crossed', ~trouble', app = "merchant" /\ booted /\ ~loading /\ user = None /\ copy # None
        PROVE  \E u \in Running' : job'[u].kind = "signIn" /\ job'[u].at \in {"sent", "renew"}
    <3>1. PICK u \in Running : job[u].kind = "signIn" /\ job[u].at \in {"sent", "renew"}
        BY <1>0, <1>i, <2>2 DEF Arriving, Remembers
    <3>2. u = t \/ job'[u] = job[u] BY <1>1 DEF Running
    <3>3. QED BY <1>1, <3>1, <3>2
  <2>3. Kept(job[t].account)' <=> Belongs(new, job'[t].account) BY <1>i DEF Kept, Belongs
  <2>4. ASSUME ~crossed', ~trouble', NEW u \in Running', job'[u].kind = "signIn"
        PROVE  LET a == job'[u].account
               IN  /\ job'[u].at \in {"keepAccess", "keepRefresh", "sent", "renew"} => Belongs(job'[u].got, a)
                   /\ job'[u].at = "keepRefresh" => Belongs(access', a)
                   /\ job'[u].at \in {"check", "send", "sent", "wait", "renew"} => Kept(job[u].account)'
                   /\ renewal.at \notin {"post", "keepAccess", "keepRefresh"}
                   /\ \A v \in Running' : job'[v].kind = "init" /\ ~job'[v].cancelled =>
                         job'[u].at # "post" /\ Belongs(job'[v].got, a)
    <3>1. u = t /\ Belongs(new, job'[u].account) BY <2>1, <2>4
    <3>2. QED BY <1>1, <1>i, <1>f, <2>1, <2>3, <2>4, <3>1
  <2>5. QED BY <1>i, <2>2, <2>4 DEF Arriving, Kept, Belongs
<1>14. In'
  <2>1. ASSUME gesture \in Accounts, ~crossed', ~trouble', \A u \in Running' : job'[u].kind # "signOut"
        PROVE  /\ Kept(gesture)' /\ user \in {gesture, None}
               /\ user = None /\ booted => \E u \in Running' : job'[u].kind = "init" /\ ~job'[u].cancelled
               /\ \A u \in Running' :
                     /\ job'[u].at \notin {"clearAccess", "clearRefresh", "dropAccess", "dropRefresh"}
                     /\ job'[u].at = "renew" => Belongs(job'[u].got, gesture)
                     /\ job'[u].at = "sent" /\ ~job'[u].cancelled /\ (app = "phone" \/ job'[u].kind = "init")
                           => Belongs(job'[u].got, gesture)
    <3>1. ~crossed /\ ~trouble /\ \A u \in Running : job[u].kind # "signOut"
        BY <1>1, <1>d, <1>i, <2>1 DEF Remembers
    <3>2. /\ Kept(gesture) /\ user \in {gesture, None}
          /\ user = None /\ booted => \E u \in Running : job[u].kind = "init" /\ ~job[u].cancelled
          /\ \A u \in Running :
                /\ job[u].at \notin {"clearAccess", "clearRefresh", "dropAccess", "dropRefresh"}
                /\ job[u].at = "renew" => Belongs(job[u].got, gesture)
                /\ job[u].at = "sent" /\ ~job[u].cancelled /\ (app = "phone" \/ job[u].kind = "init")
                      => Belongs(job[u].got, gesture)
        BY <1>0, <2>1, <3>1 DEF In
    <3>3. Belongs(new, gesture) BY <1>a, <1>n, <3>2 DEF Belongs
    <3>4. user = None /\ booted => \E u \in Running' : job'[u].kind = "init" /\ ~job'[u].cancelled
        BY <1>1, <1>d, <3>2
    <3>5. ASSUME NEW u \in Running'
          PROVE  /\ job'[u].at \notin {"clearAccess", "clearRefresh", "dropAccess", "dropRefresh"}
                 /\ job'[u].at = "renew" => Belongs(job'[u].got, gesture)
                 /\ job'[u].at = "sent" /\ ~job'[u].cancelled /\ (app = "phone" \/ job'[u].kind = "init")
                       => Belongs(job'[u].got, gesture)
        BY <1>1, <1>h, <3>2, <3>3, <3>5
    <3>6. Kept(gesture)' BY <1>i, <3>3 DEF Kept, Belongs
    <3>7. QED BY <3>2, <3>4, <3>5, <3>6
  <2>2. QED BY <1>c, <1>f, <1>i, <2>1 DEF In, Belongs
<1>15. QED
    BY <1>2, <1>3, <1>4, <1>5, <1>6, <1>7, <1>8, <1>9, <1>10, <1>11, <1>12, <1>13, <1>14 DEF SessionInv

\* The start-up question of the phone is asked alone: the renewal is its own.
LEMMA PhoneAlone ==
    ASSUME SessionInv, app = "phone", NEW u \in Running, job[u].kind = "init"
    PROVE  /\ \A v \in Running : v = u
           /\ renewal.at # "off" => renewal.by = u /\ job[u].at = "wait"
<1>0. StartsAlone /\ RenewalFits BY DEF SessionInv
<1>1. \A v \in Running : v = u BY <1>0 DEF StartsAlone
<1>2. ASSUME renewal.at # "off" PROVE renewal.by = u /\ job[u].at = "wait"
  <2>1. renewal.by \in Tasks /\ job[renewal.by].at = "wait" BY <1>0, <1>2 DEF RenewalFits
  <2>2. renewal.by \in Running BY <2>1 DEF Running
  <2>3. QED BY <1>1, <2>1, <2>2
<1>3. QED BY <1>1, <1>2

\* A sign-in of the phone meets a renewal only as one that waits for it.
LEMMA PhoneArrivals ==
    ASSUME SessionInv, ~crossed, renewal.at # "off",
           NEW u \in Running, SigningIn(u) \/ job[u].kind = "signOut"
    PROVE  job[u].at = "wait" /\ job[u].kind = "signIn" /\ \A v \in Running : job[v].kind # "init"
<1>0. TasksFit /\ RenewalFits BY DEF SessionInv
<1>1. app = "phone" BY <1>0 DEF RenewalFits
<1>2. job[u].at = "wait" BY Lone
<1>3. PlaceFits(job[u]) BY <1>0 DEF TasksFit, Running
<1>4. job[u].kind = "signIn" BY <1>1, <1>2, <1>3 DEF PlaceFits, SigningIn
<1>5. QED BY <1>1, <1>2, <1>4, PhoneAlone

\* Those that waited go on.
LEMMA WokenUp ==
    ASSUME SessionInv, renewal.at # "off", NEW l \in {"send", "clearAccess"}, NEW token \in {None, renewal.got},
           Wake(l, token), l = "send" => renewal.at = "keepRefresh", refresh' \in {refresh, token},
           UNCHANGED <<app, access, copy, user, cached, loading, booted, dead, gesture>>, Remembers
    PROVE  /\ SessionTypeOK' /\ TasksFit' /\ RenewalFits' /\ StartsAlone' /\ StoresFit' /\ TokensFit'
           /\ RefusedBefore' /\ Uncrossed' /\ Forgotten' /\ LeavingFits'
           /\ booted /\ app = "phone" /\ Running' = Running
           /\ \A u \in Running :
                 /\ job'[u].kind = job[u].kind /\ job'[u].account = job[u].account
                 /\ (job'[u].cancelled <=> job[u].cancelled)
                 /\ job[u].at = "wait" => job'[u].at = l
                 /\ job[u].at # "wait" => job'[u] = job[u]
           /\ renewal'.at = "off"
<1>0. /\ SessionTypeOK /\ TasksFit /\ RenewalFits /\ StartsAlone /\ StoresFit /\ TokensFit
      /\ RefusedBefore /\ Uncrossed /\ Forgotten /\ LeavingFits
    BY DEF SessionInv
<1>a. app = "phone" /\ renewal.by \in Tasks /\ job[renewal.by].at = "wait" BY <1>0 DEF RenewalFits
<1>b. booted
  <2>1. renewal.by \in Running BY <1>a DEF Running
  <2>2. QED BY <2>1, RunningBooted
<1>c. token \in Held /\ renewal.got \in Held BY <1>0 DEF RenewalFits, Held
<1>1. /\ job' \in [Tasks -> Job]
      /\ \A u \in Tasks :
            /\ job'[u].kind = job[u].kind /\ job'[u].account = job[u].account
            /\ (job'[u].cancelled <=> job[u].cancelled)
            /\ job[u].at = "wait" => job'[u].at = l /\ job'[u].again /\ job'[u].got = token
            /\ job[u].at # "wait" => job'[u] = job[u]
      /\ renewal'.at = "off" /\ renewal'.by = None /\ renewal'.got = None
    BY <1>0, <1>c, Wakes DEF Places
<1>d. Running' = Running BY <1>1 DEF Running
<1>e. \A u \in Running : job'[u].kind = job[u].kind /\ (job'[u].cancelled <=> job[u].cancelled)
    BY <1>1 DEF Running
<1>2. TasksFit'
  <2>1. ASSUME NEW u \in Tasks PROVE PlaceFits(job[u])'
    <3>1. PlaceFits(job[u]) BY <1>0 DEF TasksFit
    <3>2. CASE job[u].at = "wait" BY <1>1, <1>a, <3>1, <3>2 DEF PlaceFits
    <3>3. CASE job[u].at # "wait" BY <1>1, <1>a, <3>1, <3>3 DEF PlaceFits
    <3>4. QED BY <3>2, <3>3
  <2>2. QED BY <1>0, <1>d, <1>e, <2>1 DEF TasksFit, SigningIn
<1>3. RenewalFits'
  <2>1. \A u \in Tasks : job'[u].at # "wait" BY <1>1
  <2>2. renewal' \in [at: {"off", "read", "post", "keepAccess", "keepRefresh"},
                      by: Tasks \cup {None}, got: Held]
      BY DEF Wake, Held
  <2>3. QED BY <1>1, <2>1, <2>2 DEF RenewalFits
<1>4. TokensFit'
  <2>1. (Around \ {None})' \subseteq Around
    <3>1. {access, refresh, copy, renewal.got}' \subseteq {access, refresh, copy, renewal.got, None}
        BY <1>1
    <3>2. {job'[u].got : u \in Tasks} \subseteq {job[u].got : u \in Tasks} \cup {renewal.got, None}
        BY <1>1
    <3>3. QED BY <3>1, <3>2 DEF Around
  <2>2. ASSUME NEW u \in Tasks, Spent(u) PROVE Spent(u)'
    <3>1. job[u].at = "wait" \/ job[u].again \/ job[u].at = "done" BY <1>a, <2>2 DEF Spent
    <3>2. QED BY <1>1, <3>1 DEF Spent
  <2>3. QED BY <1>0, <2>1, <2>2, TokensStay DEF TokensFit
<1>5. RefusedBefore'
  <2>1. ASSUME NEW u \in Running', job'[u].kind = "init"
        PROVE  /\ job'[u].at = l /\ \E d \in dead : ~OwnRenewal(d, u)
               /\ l = "send" => access # None /\ OwnRenewal(access, u)
    <3>1. u \in Running /\ job[u].kind = "init" BY <1>d, <1>e, <2>1
    <3>2. job[u].at = "wait" BY <1>a, <3>1, PhoneAlone
    <3>3. QED BY <1>0, <1>1, <3>1, <3>2 DEF RefusedBefore, Running
  <2>2. QED BY <1>1, <1>a, <2>1 DEF RefusedBefore, OwnRenewal
<1>6. SessionTypeOK'
  <2>1. refresh' \in Held BY <1>0, <1>c DEF SessionTypeOK
  <2>2. QED BY <1>0, <1>1, <2>1 DEF SessionTypeOK, Remembers
<1>7. StartsAlone'
  <2>1. ASSUME NEW u \in Running', job'[u].kind = "init" PROVE loading
      BY <1>0, <1>a, <1>d, <1>e, <2>1 DEF StartsAlone
  <2>2. loading => user = None /\ \A u, v \in Running' : job'[u].kind = "init" /\ u = v
      BY <1>0, <1>d, <1>e DEF StartsAlone
  <2>3. booted' /\ user' = user /\ app' = app /\ (loading' => loading) /\ (loading => loading')
      BY <1>b
  <2>4. QED BY <1>a, <2>1, <2>2, <2>3 DEF StartsAlone
<1>8. StoresFit'
  <2>1. \A u \in Running' : SigningIn(u)' => u \in Running /\ SigningIn(u) BY <1>d, <1>e DEF SigningIn
  <2>2. QED BY <1>0, <1>a, <2>1 DEF StoresFit, Dashboards
<1>9. Uncrossed' BY DEF Uncrossed, Remembers
<1>10. Forgotten' BY <1>0, <1>d, <1>e DEF Forgotten, Remembers
<1>11. LeavingFits'
  <2>1. ASSUME ~crossed', NEW u \in Running'
        PROVE  job'[u].kind # "signOut" /\ (SigningIn(u)' => gesture = "start")
    <3>1. u \in Running /\ job'[u].kind = job[u].kind /\ ~crossed BY <1>d, <1>e, <2>1 DEF Remembers
    <3>2. job[u].kind # "signOut" BY <3>1, PhoneArrivals
    <3>3. QED BY <1>0, <3>1, <3>2 DEF LeavingFits, SigningIn
  <2>2. QED BY <2>1 DEF LeavingFits
<1>12. QED
    BY <1>1, <1>2, <1>3, <1>4, <1>5, <1>6, <1>7, <1>8, <1>9, <1>10, <1>11, <1>a, <1>b, <1>d DEF Running

LEMMA RenewalFailsKeeps ==
    ASSUME SessionInv, RenewalFails, Remembers
    PROVE  SessionInv'
<1>1. /\ SessionTypeOK' /\ TasksFit' /\ RenewalFits' /\ StartsAlone' /\ StoresFit' /\ TokensFit'
      /\ RefusedBefore' /\ Uncrossed' /\ Forgotten' /\ LeavingFits'
    BY WokenUp DEF RenewalFails, device, tokens
<1>2. trouble' BY DEF RenewalFails
<1>3. Out' BY DEF Out, SessionInv, RenewalFails, Remembers
<1>4. Arriving' /\ In' BY <1>2 DEF Arriving, In
<1>5. QED BY <1>1, <1>3, <1>4 DEF SessionInv

\* Nothing is left to renew with.
LEMMA NothingToRenew ==
    ASSUME SessionInv, renewal.at = "read", refresh = None, Wake("clearAccess", None),
           UNCHANGED <<app, device, dead, gesture, trouble>>, Remembers
    PROVE  SessionInv'
<1> USE DEF device, tokens
<1>0. Out /\ Arriving /\ In /\ TasksFit BY DEF SessionInv
<1>1. /\ SessionTypeOK' /\ TasksFit' /\ RenewalFits' /\ StartsAlone' /\ StoresFit' /\ TokensFit'
      /\ RefusedBefore' /\ Uncrossed' /\ Forgotten' /\ LeavingFits'
      /\ booted /\ app = "phone" /\ Running' = Running
      /\ \A u \in Running :
            /\ job'[u].kind = job[u].kind /\ job'[u].account = job[u].account
            /\ (job'[u].cancelled <=> job[u].cancelled)
            /\ job[u].at = "wait" => job'[u].at = "clearAccess"
            /\ job[u].at # "wait" => job'[u] = job[u]
      /\ renewal'.at = "off"
    BY WokenUp
<1>2. Out'
  <2>1. ASSUME gesture = "out", ~crossed', NEW u \in Running'
        PROVE  /\ job'[u].kind \in {"load", "init"}
               /\ job'[u].at \notin {"renew", "dropAccess", "dropRefresh"}
               /\ job'[u].kind = "init" => job'[u].at = "check" \/ job'[u].cancelled
    <3>1. ~crossed /\ u \in Running BY <1>1, <2>1 DEF Remembers
    <3>2. job[u].kind # "init" \/ job[u].at # "wait" \/ job[u].cancelled BY <1>0, <2>1, <3>1 DEF Out
    <3>3. QED BY <1>0, <1>1, <2>1, <3>1, <3>2 DEF Out
  <2>2. QED BY <1>0, <1>1, <2>1 DEF Out, Remembers
<1>3. Arriving'
  <2>1. ASSUME ~crossed', ~trouble', NEW u \in Running', job'[u].kind = "signIn" PROVE FALSE
    <3>1. ~crossed /\ ~trouble /\ u \in Running /\ job[u].kind = "signIn" BY <1>1, <2>1 DEF Remembers
    <3>2. job[u].at = "wait" BY <3>1, PhoneArrivals DEF SigningIn
    <3>3. Kept(job[u].account) BY <1>0, <3>1, <3>2 DEF Arriving
    <3>4. QED BY <1>1, <3>3 DEF Kept, Belongs
  <2>2. QED BY <1>1, <2>1 DEF Arriving
<1>4. In'
  <2>1. ASSUME gesture \in Accounts, ~crossed', ~trouble', \A u \in Running' : job'[u].kind # "signOut"
        PROVE  FALSE
    <3>1. ~crossed /\ ~trouble /\ \A u \in Running : job[u].kind # "signOut" BY <1>1, <2>1 DEF Remembers
    <3>2. Kept(gesture) BY <1>0, <2>1, <3>1 DEF In
    <3>3. QED BY <1>1, <3>2 DEF Kept, Belongs
  <2>2. QED BY <2>1 DEF In
<1>5. QED BY <1>1, <1>2, <1>3, <1>4 DEF SessionInv

\* Both new tokens are there; the requests leave again.
LEMMA RenewalDone ==
    ASSUME SessionInv, renewal.at = "keepRefresh", refresh' = renewal.got, Wake("send", renewal.got),
           UNCHANGED <<app, access, copy, user, cached, loading, booted, dead, gesture, trouble>>, Remembers
    PROVE  SessionInv'
<1>0. Out /\ Arriving /\ In /\ RefusedBefore BY DEF SessionInv
<1>1. /\ SessionTypeOK' /\ TasksFit' /\ RenewalFits' /\ StartsAlone' /\ StoresFit' /\ TokensFit'
      /\ RefusedBefore' /\ Uncrossed' /\ Forgotten' /\ LeavingFits'
      /\ booted /\ app = "phone" /\ Running' = Running
      /\ \A u \in Running :
            /\ job'[u].kind = job[u].kind /\ job'[u].account = job[u].account
            /\ (job'[u].cancelled <=> job[u].cancelled)
            /\ job[u].at = "wait" => job'[u].at = "send"
            /\ job[u].at # "wait" => job'[u] = job[u]
      /\ renewal'.at = "off"
    BY WokenUp
<1>2. Out' BY <1>0, <1>1 DEF Out, Remembers
<1>3. Arriving'
  <2>1. ASSUME ~crossed', ~trouble', NEW u \in Running', job'[u].kind = "signIn"
        PROVE  job'[u].at = "send" /\ Kept(job[u].account)' /\ \A v \in Running' : job'[v].kind # "init"
    <3>1. ~crossed /\ ~trouble /\ u \in Running /\ job[u].kind = "signIn" BY <1>1, <2>1 DEF Remembers
    <3>2. job[u].at = "wait" /\ \A v \in Running : job[v].kind # "init" BY <3>1, PhoneArrivals DEF SigningIn
    <3>3. Kept(job[u].account) /\ Belongs(renewal.got, job[u].account) BY <1>0, <3>1, <3>2 DEF Arriving
    <3>4. job'[u].account = job[u].account BY <1>1, <3>1
    <3>5. QED BY <1>1, <3>1, <3>2, <3>3, <3>4 DEF Kept, Belongs
  <2>2. QED BY <1>1, <2>1 DEF Arriving, Kept, Belongs
<1>4. In'
  <2>1. ASSUME gesture \in Accounts, ~crossed', ~trouble', \A u \in Running' : job'[u].kind # "signOut"
        PROVE  /\ Kept(gesture)' /\ user \in {gesture, None}
               /\ user = None /\ booted => \E u \in Running' : job'[u].kind = "init" /\ ~job'[u].cancelled
               /\ cached \in {gesture, None}
               /\ \A u \in Running' :
                     /\ job'[u].at \notin {"clearAccess", "clearRefresh", "dropAccess", "dropRefresh"}
                     /\ job'[u].at = "renew" => Belongs(job'[u].got, gesture)
                     /\ job'[u].at = "sent" /\ ~job'[u].cancelled => Belongs(job'[u].got, gesture)
    <3>1. ~crossed /\ ~trouble /\ \A u \in Running : job[u].kind # "signOut" BY <1>1, <2>1 DEF Remembers
    <3>2. /\ Kept(gesture) /\ user \in {gesture, None} /\ Belongs(renewal.got, gesture)
          /\ user = None /\ booted => \E u \in Running : job[u].kind = "init" /\ ~job[u].cancelled
          /\ cached \in {gesture, None}
          /\ \A u \in Running :
                /\ job[u].at \notin {"clearAccess", "clearRefresh", "dropAccess", "dropRefresh"}
                /\ job[u].at = "renew" => Belongs(job[u].got, gesture)
                /\ job[u].at = "sent" /\ ~job[u].cancelled => Belongs(job[u].got, gesture)
        BY <1>0, <1>1, <2>1, <3>1 DEF In
    <3>3. user = None /\ booted => \E u \in Running' : job'[u].kind = "init" /\ ~job'[u].cancelled
        BY <1>1, <3>2
    <3>4. Kept(gesture)' BY <3>2 DEF Kept, Belongs
    <3>5. ASSUME NEW u \in Running'
          PROVE  /\ job'[u].at \notin {"clearAccess", "clearRefresh", "dropAccess", "dropRefresh"}
                 /\ job'[u].at = "renew" => Belongs(job'[u].got, gesture)
                 /\ job'[u].at = "sent" /\ ~job'[u].cancelled => Belongs(job'[u].got, gesture)
      <4>1. CASE job[u].at = "wait" BY <1>1, <3>5, <4>1
      <4>2. CASE job[u].at # "wait" BY <1>1, <3>2, <3>5, <4>2
      <4>3. QED BY <4>1, <4>2
    <3>6. QED BY <3>2, <3>3, <3>4, <3>5
  <2>2. QED BY <1>1, <2>1 DEF In, Belongs
<1>5. QED BY <1>1, <1>2, <1>3, <1>4 DEF SessionInv

\* A renewal goes on and no task moves.
LEMMA RenewalMoves ==
    ASSUME SessionInv, renewal.at \in {"read", "post", "keepAccess"}, NEW l \in {"post", "keepAccess", "keepRefresh"},
           NEW token \in Token, renewal' = [renewal EXCEPT !.at = l, !.got = token],
           \/ renewal.at = "read" /\ l = "post" /\ token = refresh /\ access' = access
           \/ renewal.at = "post" /\ l = "keepAccess" /\ token = Renewed(renewal.by, renewal.got) /\ access' = access
           \/ renewal.at = "keepAccess" /\ l = "keepRefresh" /\ token = renewal.got /\ access' = token,
           UNCHANGED <<app, refresh, copy, user, cached, loading, booted, job, dead, gesture, trouble>>, Remembers
    PROVE  SessionInv'
<1>0. /\ SessionTypeOK /\ TasksFit /\ RenewalFits /\ StartsAlone /\ StoresFit /\ TokensFit
      /\ RefusedBefore /\ Uncrossed /\ Forgotten /\ LeavingFits /\ Out /\ Arriving /\ In
    BY DEF SessionInv
<1>a. app = "phone" /\ renewal.by \in Tasks /\ job[renewal.by].at = "wait" BY <1>0 DEF RenewalFits
<1>b. booted
  <2>1. renewal.by \in Running BY <1>a DEF Running
  <2>2. QED BY <2>1, RunningBooted
<1>c. token # None BY SessionAssumption
<1>1. renewal'.at = l /\ renewal'.by = renewal.by /\ renewal'.got = token
    BY <1>0 DEF RenewalFits
<1>d. Running' = Running BY DEF Running
<1>e. l \in {"keepAccess", "keepRefresh"} => OwnRenewal(token, renewal.by)
  <2>1. Renewed(renewal.by, renewal.got).renewed /\ Renewed(renewal.by, renewal.got).by = renewal.by
      BY DEF Renewed
  <2>2. QED BY <1>0, <2>1 DEF RenewalFits, OwnRenewal
<1>2. TasksFit'
  <2>1. ASSUME NEW u \in Tasks PROVE PlaceFits(job[u])' BY <1>0 DEF TasksFit, PlaceFits
  <2>2. QED BY <1>0, <1>d, <2>1 DEF TasksFit, SigningIn
<1>3. RenewalFits'
  <2>1. renewal' \in [at: {"off", "read", "post", "keepAccess", "keepRefresh"},
                      by: Tasks \cup {None}, got: Held]
      BY <1>0 DEF RenewalFits, Held
  <2>2. QED BY <1>0, <1>1, <1>a, <1>c, <1>e, <2>1 DEF RenewalFits, OwnRenewal
<1>4. TokensFit'
  <2>1. (Around \ {None})' \subseteq Around \cup {token} BY <1>1 DEF Around
  <2>2. \A u \in Tasks : Spent(u) => Spent(u)' BY <1>1, <1>e DEF Spent
  <2>3. token \in Around \/ (OwnRenewal(token, renewal.by) /\ Spent(renewal.by)')
    <3>1. CASE l = "post" BY <3>1 DEF Around
    <3>2. CASE l # "post"
      <4>1. l \in {"keepAccess", "keepRefresh"} BY <3>2
      <4>2. QED BY <1>1, <1>e, <4>1 DEF Spent
    <3>3. QED BY <3>1, <3>2
  <2>4. QED BY <1>0, <1>a, <2>1, <2>2, <2>3 DEF TokensFit, OwnRenewal
<1>5. RefusedBefore'
  <2>1. ASSUME NEW u \in Running, job[u].kind = "init"
        PROVE  /\ job[u].at = "wait" /\ renewal.by = u
               /\ \E d \in dead : ~OwnRenewal(d, u)
               /\ l = "keepRefresh" => access' # None /\ OwnRenewal(access', u)
    <3>1. job[u].at = "wait" /\ renewal.by = u BY <1>a, <2>1, PhoneAlone
    <3>2. QED BY <1>0, <1>c, <1>e, <2>1, <3>1 DEF RefusedBefore
  <2>2. QED BY <1>1, <1>a, <1>d, <2>1 DEF RefusedBefore, OwnRenewal
<1>6. SessionTypeOK' BY <1>0 DEF SessionTypeOK, Remembers, Held
<1>7. StartsAlone' BY <1>0, <1>b, <1>d DEF StartsAlone
<1>8. StoresFit' BY <1>0, <1>a, <1>d DEF StoresFit, Dashboards, SigningIn
<1>9. Uncrossed' BY DEF Uncrossed, Remembers
<1>10. Forgotten' BY <1>0, <1>d DEF Forgotten, Remembers
<1>11. LeavingFits'
  <2>1. ~crossed => \A u \in Running : job[u].kind # "signOut" BY <1>a, PhoneArrivals
  <2>2. QED BY <1>0, <1>d, <2>1 DEF LeavingFits, Remembers, SigningIn
<1>12. Out'
  <2>1. gesture = "out" /\ ~crossed => refresh = None /\ renewal.at = "read" BY <1>0 DEF Out
  <2>2. gesture = "out" /\ ~crossed => FALSE BY <1>c, <2>1
  <2>3. QED BY <2>2 DEF Out, Remembers
<1>13. Arriving'
  <2>1. ASSUME ~crossed', ~trouble', NEW u \in Running, job[u].kind = "signIn"
        PROVE  /\ job[u].at = "wait" /\ Kept(job[u].account)' /\ Belongs(token, job[u].account)
               /\ \A v \in Running : job[v].kind # "init"
    <3>1. ~crossed /\ ~trouble BY <2>1 DEF Remembers
    <3>2. job[u].at = "wait" /\ \A v \in Running : job[v].kind # "init"
        BY <1>a, <2>1, <3>1, PhoneArrivals DEF SigningIn
    <3>3. Kept(job[u].account) BY <1>0, <2>1, <3>1, <3>2 DEF Arriving
    <3>4. renewal.at \in {"post", "keepAccess"} => Belongs(renewal.got, job[u].account)
        BY <1>0, <2>1, <3>1 DEF Arriving
    <3>5. Belongs(token, job[u].account) BY <1>a, <1>c, <3>3, <3>4 DEF Kept, Belongs, Renewed
    <3>6. QED BY <3>2, <3>3, <3>5 DEF Kept, Belongs
  <2>2. QED BY <1>1, <1>a, <1>d, <2>1 DEF Arriving, Kept, Belongs
<1>14. In'
  <2>1. ASSUME gesture \in Accounts, ~crossed', ~trouble', \A u \in Running : job[u].kind # "signOut"
        PROVE  /\ Kept(gesture)' /\ Belongs(token, gesture) /\ user \in {gesture, None}
               /\ user = None /\ booted => \E u \in Running : job[u].kind = "init" /\ ~job[u].cancelled
               /\ cached \in {gesture, None}
               /\ \A u \in Running :
                     /\ job[u].at \notin {"clearAccess", "clearRefresh", "dropAccess", "dropRefresh"}
                     /\ job[u].at = "renew" => Belongs(job[u].got, gesture)
                     /\ job[u].at = "sent" /\ ~job[u].cancelled => Belongs(job[u].got, gesture)
    <3>1. ~crossed /\ ~trouble BY <2>1 DEF Remembers
    <3>2. /\ Kept(gesture) /\ user \in {gesture, None}
          /\ renewal.at \in {"post", "keepAccess"} => Belongs(renewal.got, gesture)
          /\ user = None /\ booted => \E u \in Running : job[u].kind = "init" /\ ~job[u].cancelled
          /\ cached \in {gesture, None}
          /\ \A u \in Running :
                /\ job[u].at \notin {"clearAccess", "clearRefresh", "dropAccess", "dropRefresh"}
                /\ job[u].at = "renew" => Belongs(job[u].got, gesture)
                /\ job[u].at = "sent" /\ ~job[u].cancelled => Belongs(job[u].got, gesture)
        BY <1>0, <1>a, <2>1, <3>1 DEF In
    <3>3. Belongs(token, gesture) BY <1>a, <1>c, <3>2 DEF Kept, Belongs, Renewed
    <3>4. QED BY <3>2, <3>3 DEF Kept, Belongs
  <2>2. QED BY <1>1, <1>a, <1>d, <2>1 DEF In, Belongs
<1>15. QED
    BY <1>2, <1>3, <1>4, <1>5, <1>6, <1>7, <1>8, <1>9, <1>10, <1>11, <1>12, <1>13, <1>14 DEF SessionInv

LEMMA RenewalReadsKeeps ==
    ASSUME SessionInv, RenewalReads, Remembers
    PROVE  SessionInv'
<1>1. CASE refresh = None BY <1>1, NothingToRenew DEF RenewalReads
<1>2. CASE refresh # None
  <2>1. refresh \in Token BY <1>2 DEF SessionInv, SessionTypeOK, Held
  <2>2. renewal' = [renewal EXCEPT !.at = "post", !.got = refresh] /\ UNCHANGED job
      BY <1>2 DEF RenewalReads
  <2>3. QED BY <2>1, <2>2, RenewalMoves DEF RenewalReads, device, tokens
<1>3. QED BY <1>1, <1>2

LEMMA RenewalAnsweredKeeps ==
    ASSUME SessionInv, RenewalAnswered, Remembers
    PROVE  SessionInv'
<1>1. renewal.got \in Token /\ renewal.by \in Tasks
    BY DEF SessionInv, RenewalFits, Held, RenewalAnswered
<1>2. Renewed(renewal.by, renewal.got) \in Token BY <1>1 DEF Renewed, Token
<1>3. QED BY <1>2, RenewalMoves DEF RenewalAnswered, device, tokens

LEMMA RenewalKeepsKeeps ==
    ASSUME SessionInv, RenewalKeeps, Remembers
    PROVE  SessionInv'
<1>1. CASE /\ renewal.at = "keepAccess" /\ access' = renewal.got
           /\ renewal' = [renewal EXCEPT !.at = "keepRefresh"] /\ UNCHANGED <<refresh, job>>
  <2>1. renewal.got \in Token BY <1>1 DEF SessionInv, RenewalFits, Held
  <2>2. renewal' = [renewal EXCEPT !.at = "keepRefresh", !.got = renewal.got]
    <3>1. renewal \in [at: {"off", "read", "post", "keepAccess", "keepRefresh"},
                       by: Tasks \cup {None}, got: Held]
        BY DEF SessionInv, RenewalFits
    <3>2. QED BY <1>1, <3>1
  <2>3. QED BY <1>1, <2>1, <2>2, RenewalMoves DEF RenewalKeeps
<1>2. CASE renewal.at = "keepRefresh" /\ refresh' = renewal.got /\ Wake("send", renewal.got) /\ UNCHANGED access
    BY <1>2, RenewalDone DEF RenewalKeeps
<1>3. QED BY <1>1, <1>2 DEF RenewalKeeps

\* A task of the phone takes a step of its own.
LEMMA PhoneStep ==
    ASSUME SessionInv, app = "phone", NEW t \in Running, job[t].at # "wait",
           NEW d \in Job, job' = [job EXCEPT ![t] = d], d.at \notin {"idle", "wait"}, PlaceFits(d),
           d.kind = job[t].kind, d.account = job[t].account,
           d.again <=> job[t].again, d.cancelled <=> job[t].cancelled,
           {access', refresh', d.got} \subseteq {access, refresh, job[t].got, None},
           access' \in {access, None} \/ SigningIn(t),
           d.at = "dropRefresh" => access' = None,
           \/ user' = user /\ loading' = loading /\ gesture' = gesture
           \/ /\ user' = None /\ loading' = FALSE /\ d.at = "done"
              /\ job[t].at \in {"check", "dropAccess", "dropRefresh"}
              /\ gesture' \in IF job[t].kind = "signOut" THEN {"out", "kept"} ELSE {gesture},
           job[t].kind = "init" =>
              /\ d.at = "send" => access' # None /\ (d.again => OwnRenewal(access', t))
              /\ d.at = "sent" => d.got # None /\ (d.again => OwnRenewal(d.got, t)),
           UNCHANGED <<app, copy, cached, booted, renewal, dead>>, Remembers
    PROVE  /\ SessionTypeOK' /\ TasksFit' /\ RenewalFits' /\ StartsAlone' /\ StoresFit' /\ TokensFit'
           /\ RefusedBefore' /\ Uncrossed' /\ Forgotten' /\ LeavingFits'
           /\ t \in Tasks /\ job'[t] = d /\ booted
           /\ Running' = IF d.at = "done" THEN Running \ {t} ELSE Running
           /\ \A u \in Running \ {t} : job'[u] = job[u]
<1>0. /\ SessionTypeOK /\ TasksFit /\ RenewalFits /\ StartsAlone /\ StoresFit /\ TokensFit
      /\ RefusedBefore /\ Uncrossed /\ Forgotten /\ LeavingFits
    BY DEF SessionInv
<1>a. t \in Tasks /\ booted BY RunningBooted DEF Running
<1>b. job[t] \in Job /\ PlaceFits(job[t]) /\ job[t].at \notin {"idle", "done"}
    BY <1>0, <1>a DEF SessionTypeOK, TasksFit, Running
<1>1. /\ job' \in [Tasks -> Job] /\ job'[t] = d /\ \A u \in Tasks \ {t} : job'[u] = job[u]
      /\ Running' = IF d.at = "done" THEN Running \ {t} ELSE Running
  <2>1. Running \cup {t} = Running OBVIOUS
  <2>2. QED BY <1>0, <1>a, <2>1, OneMoves
<1>d. \A u \in Running' : /\ u \in Running /\ job'[u].kind = job[u].kind
                          /\ (job'[u].cancelled <=> job[u].cancelled)
                          /\ (u # t => job'[u] = job[u])
    BY <1>1 DEF Running
<1>e. ASSUME NEW u \in Running, job[u].kind = "init"
      PROVE  u = t /\ renewal.at = "off"
    BY <1>e, PhoneAlone
<1>f. user' # user => job[t].kind = "signOut"
  <2>1. SUFFICES ASSUME user' # user PROVE job[t].kind = "signOut" OBVIOUS
  <2>2. user # None /\ job[t].at \in {"check", "dropAccess", "dropRefresh"} BY <2>1
  <2>3. job[t].kind # "init" BY <1>0, <2>2 DEF StartsAlone
  <2>4. job[t].kind \notin {"signIn", "signInByCode"} BY <1>0, <2>2 DEF StoresFit, SigningIn
  <2>5. job[t].kind # "load" BY <1>b, <2>2 DEF PlaceFits
  <2>6. QED BY <1>b, <2>3, <2>4, <2>5 DEF Job, Kinds
<1>2. TasksFit'
  <2>1. ASSUME NEW u \in Tasks PROVE PlaceFits(job[u])'
    <3>1. PlaceFits(job[u]) BY <1>0 DEF TasksFit
    <3>2. job'[u] = IF u = t THEN d ELSE job[u] BY <1>1
    <3>3. QED BY <3>1, <3>2 DEF PlaceFits
  <2>2. QED BY <1>0, <1>d, <2>1 DEF TasksFit, SigningIn
<1>3. RenewalFits'
  <2>1. \A u \in Tasks : job'[u].at = "wait" <=> job[u].at = "wait" BY <1>1
  <2>2. QED BY <1>0, <2>1 DEF RenewalFits, OwnRenewal
<1>4. TokensFit'
  <2>1. (Around \ {None})' \subseteq Around
    <3>1. \A u \in Tasks : job'[u].got \in {job[u].got, d.got} BY <1>1
    <3>2. d.got \in Around \cup {None} BY <1>a DEF Around
    <3>3. {access, refresh, copy, renewal.got}' \subseteq Around \cup {None} BY <1>a DEF Around
    <3>4. QED BY <3>1, <3>2, <3>3 DEF Around
  <2>2. \A u \in Tasks : Spent(u) => Spent(u)' BY <1>1, <1>b DEF Spent
  <2>3. QED BY <1>0, <2>1, <2>2, TokensStay DEF TokensFit
<1>5. RefusedBefore'
  <2>1. ASSUME NEW u \in Running', job'[u].kind = "init"
        PROVE  /\ job'[u].at \in {"wait", "renew"} \/ job'[u].again => \E e \in dead : ~OwnRenewal(e, u)
               /\ job'[u].at = "send" => access' # None /\ (job'[u].again => OwnRenewal(access', u))
               /\ job'[u].at = "sent" => job'[u].got # None /\ (job'[u].again => OwnRenewal(job'[u].got, u))
               /\ renewal.at = "off"
    <3>1. u = t /\ renewal.at = "off" BY <1>d, <1>e, <2>1
    <3>2. d.at # "renew" BY DEF PlaceFits
    <3>3. job[t].again => \E e \in dead : ~OwnRenewal(e, t) BY <1>0, <1>d, <2>1, <3>1 DEF RefusedBefore
    <3>4. QED BY <1>1, <2>1, <3>1, <3>2, <3>3
  <2>2. QED BY <2>1 DEF RefusedBefore, OwnRenewal
<1>6. SessionTypeOK'
  <2>1. {access, refresh, copy}' \subseteq Held
    <3>1. job[t].got \in Held /\ None \in Held BY <1>b DEF Job, Held
    <3>2. QED BY <1>0, <3>1 DEF SessionTypeOK
  <2>2. gesture' \in {"start", "out", "kept"} \cup Accounts BY <1>0 DEF SessionTypeOK
  <2>3. loading' \in BOOLEAN /\ user' \in Accounts \cup {None} BY <1>0 DEF SessionTypeOK
  <2>4. QED BY <1>0, <1>1, <2>1, <2>2, <2>3 DEF SessionTypeOK, Remembers
<1>7. StartsAlone'
  <2>1. ASSUME NEW u \in Running', job'[u].kind = "init" PROVE loading'
    <3>1. u = t /\ d.at # "done" BY <1>1, <1>d, <1>e, <2>1
    <3>2. loading' = loading BY <3>1
    <3>3. loading BY <1>0, <1>d, <2>1 DEF StartsAlone
    <3>4. QED BY <3>2, <3>3
  <2>2. ASSUME loading' PROVE user' = None /\ \A u, v \in Running' : job'[u].kind = "init" /\ u = v
    <3>1. loading /\ user' = user BY <2>2
    <3>2. QED BY <1>0, <1>d, <3>1 DEF StartsAlone
  <2>3. QED BY <1>a, <2>1, <2>2 DEF StartsAlone
<1>8. StoresFit'
  <2>1. \A u \in Running' : SigningIn(u)' => u \in Running /\ SigningIn(u) BY <1>d DEF SigningIn
  <2>2. QED BY <1>0, <2>1 DEF StoresFit, Dashboards
<1>9. Uncrossed' BY DEF Uncrossed, Remembers
<1>10. Forgotten'
  <2>1. user' = None \/ (\E u \in Running' : job'[u].kind = "signOut")
           => user = None \/ \E u \in Running : job[u].kind = "signOut"
      BY <1>d, <1>f
  <2>2. QED BY <1>0, <1>d, <2>1 DEF Forgotten, Remembers
<1>11. LeavingFits'
  <2>1. ASSUME ~crossed', NEW u \in Running', SigningIn(u)' PROVE gesture' = "start"
    <3>1. u \in Running /\ SigningIn(u) /\ ~crossed BY <1>d, <2>1 DEF SigningIn, Remembers
    <3>2. job[t].kind # "signOut" BY <3>1, Lone DEF SigningIn
    <3>3. QED BY <1>0, <3>1, <3>2 DEF LeavingFits
  <2>2. ASSUME ~crossed', NEW u \in Running', job'[u].kind = "signOut", job'[u].at = "dropRefresh"
        PROVE  access' = None
    <3>1. u \in Running /\ job[u].kind = "signOut" /\ ~crossed BY <1>d, <2>2 DEF Remembers
    <3>2. CASE u = t BY <1>1, <2>2, <3>2
    <3>3. CASE u # t
      <4>1. ~SigningIn(t) BY <3>1, <3>3, Lone
      <4>2. job'[u] = job[u] BY <1>d, <3>3
      <4>3. QED BY <1>0, <2>2, <3>1, <4>1, <4>2 DEF LeavingFits
    <3>4. QED BY <3>2, <3>3
  <2>3. QED BY <2>1, <2>2 DEF LeavingFits
<1>12. QED
    BY <1>1, <1>2, <1>3, <1>4, <1>5, <1>6, <1>7, <1>8, <1>9, <1>10, <1>11, <1>a DEF Running

LEMMA AttachKeeps ==
    ASSUME SessionInv, NEW t \in Tasks, Attach(t), Remembers
    PROVE  SessionInv'
<1> USE DEF device, tokens
<1>0. /\ SessionTypeOK /\ TasksFit /\ RefusedBefore /\ Out /\ Arriving /\ In BY DEF SessionInv
<1>a. /\ t \in Running /\ job[t].at = "send" /\ job[t] \in Job /\ PlaceFits(job[t])
      /\ UNCHANGED <<app, access, refresh, copy, user, cached, loading, booted, renewal, dead, gesture, trouble>>
    BY <1>0 DEF Attach, Running, SessionTypeOK, TasksFit
<1>b. app = "phone" BY <1>a DEF PlaceFits
<1>c. PICK d : d = [job[t] EXCEPT !.at = "sent", !.got = IF access = None THEN @ ELSE access] OBVIOUS
<1>1. /\ d \in Job /\ d.at = "sent" /\ d.kind = job[t].kind /\ d.account = job[t].account
      /\ d.got = (IF access = None THEN job[t].got ELSE access)
      /\ (d.again <=> job[t].again) /\ (d.cancelled <=> job[t].cancelled)
    BY <1>0, <1>a, <1>c DEF Job, Places, SessionTypeOK
<1>2. job' = [job EXCEPT ![t] = d] BY <1>c DEF Attach
<1>3. PlaceFits(d) BY <1>1, <1>a, <1>b DEF PlaceFits
<1>4. job[t].kind = "init" => d.got # None /\ (d.again => OwnRenewal(d.got, t))
    BY <1>0, <1>1, <1>a DEF RefusedBefore
<1>5. /\ SessionTypeOK' /\ TasksFit' /\ RenewalFits' /\ StartsAlone' /\ StoresFit' /\ TokensFit'
      /\ RefusedBefore' /\ Uncrossed' /\ Forgotten' /\ LeavingFits'
      /\ job'[t] = d /\ booted /\ Running' = Running /\ \A u \in Running \ {t} : job'[u] = job[u]
    BY <1>1, <1>2, <1>3, <1>4, <1>a, <1>b, PhoneStep
<1>d. \A u \in Running' : /\ u \in Running /\ job'[u].kind = job[u].kind
                          /\ job'[u].account = job[u].account
                          /\ (job'[u].cancelled <=> job[u].cancelled)
                          /\ (u # t => job'[u] = job[u])
    BY <1>1, <1>5 DEF Running
<1>6. Out'
  <2>1. ASSUME gesture = "out", ~crossed' PROVE job[t].kind = "load"
    <3>1. job[t].kind \in {"load", "init"} /\ (job[t].kind = "init" => job[t].cancelled)
        BY <1>0, <1>a, <2>1 DEF Out, Remembers
    <3>2. QED BY <1>a, <1>b, <3>1 DEF PlaceFits
  <2>2. QED BY <1>0, <1>1, <1>5, <1>a, <1>d, <2>1 DEF Out, Remembers
<1>7. Arriving'
  <2>1. ASSUME ~crossed', ~trouble', NEW u \in Running', job'[u].kind = "signIn"
        PROVE  LET a == job'[u].account
               IN  /\ job'[u].at \in {"keepAccess", "keepRefresh", "sent", "renew"} => Belongs(job'[u].got, a)
                   /\ job'[u].at = "keepRefresh" => Belongs(access, a)
                   /\ job'[u].at \in {"check", "send", "sent", "wait", "renew"} => Kept(a)
                   /\ renewal.at \in {"post", "keepAccess", "keepRefresh"} => Belongs(renewal.got, a)
                   /\ \A v \in Running' : job'[v].kind # "init"
    <3>1. ~crossed /\ ~trouble /\ u \in Running /\ job[u].kind = "signIn" BY <1>a, <1>d, <2>1 DEF Remembers
    <3>2. \A v \in Running : job[v].kind # "init" BY <1>b, <3>1, PhoneAlone
    <3>3. CASE u = t
      <4>1. Kept(job[t].account) BY <1>0, <1>a, <3>1, <3>3 DEF Arriving
      <4>2. d.got = access BY <1>1, <4>1 DEF Kept, Belongs
      <4>3. Belongs(d.got, job[t].account) BY <4>1, <4>2 DEF Kept
      <4>4. QED BY <1>0, <1>1, <1>5, <1>d, <3>1, <3>2, <3>3, <4>1, <4>3 DEF Arriving
    <3>4. CASE u # t
      <4>1. job'[u] = job[u] BY <1>d, <3>4
      <4>2. QED BY <1>0, <1>d, <3>1, <3>2, <4>1 DEF Arriving
    <3>5. QED BY <3>3, <3>4
  <2>2. QED BY <1>a, <1>b, <2>1 DEF Arriving, Kept, Belongs
<1>8. In'
  <2>1. ASSUME gesture \in Accounts, ~crossed', ~trouble', \A u \in Running' : job'[u].kind # "signOut"
        PROVE  /\ Kept(gesture) /\ user \in {gesture, None}
               /\ user = None /\ booted => \E u \in Running' : job'[u].kind = "init" /\ ~job'[u].cancelled
               /\ renewal.at \in {"post", "keepAccess", "keepRefresh"} => Belongs(renewal.got, gesture)
               /\ cached \in {gesture, None}
               /\ \A u \in Running' :
                     /\ job'[u].at \notin {"clearAccess", "clearRefresh", "dropAccess", "dropRefresh"}
                     /\ job'[u].at = "renew" => Belongs(job'[u].got, gesture)
                     /\ job'[u].at = "sent" /\ ~job'[u].cancelled => Belongs(job'[u].got, gesture)
    <3>1. ~crossed /\ ~trouble /\ \A u \in Running : job[u].kind # "signOut"
        BY <1>5, <1>a, <1>d, <2>1 DEF Remembers
    <3>2. /\ Kept(gesture) /\ user \in {gesture, None}
          /\ user = None /\ booted => \E u \in Running : job[u].kind = "init" /\ ~job[u].cancelled
          /\ renewal.at \in {"post", "keepAccess", "keepRefresh"} => Belongs(renewal.got, gesture)
          /\ cached \in {gesture, None}
          /\ \A u \in Running :
                /\ job[u].at \notin {"clearAccess", "clearRefresh", "dropAccess", "dropRefresh"}
                /\ job[u].at = "renew" => Belongs(job[u].got, gesture)
                /\ job[u].at = "sent" /\ ~job[u].cancelled => Belongs(job[u].got, gesture)
        BY <1>0, <1>b, <2>1, <3>1 DEF In
    <3>3. d.got = access BY <1>1, <3>2 DEF Kept, Belongs
    <3>4. Belongs(d.got, gesture) BY <3>2, <3>3 DEF Kept
    <3>5. user = None /\ booted => \E u \in Running' : job'[u].kind = "init" /\ ~job'[u].cancelled
        BY <1>5, <1>d, <3>2
    <3>6. ASSUME NEW u \in Running'
          PROVE  /\ job'[u].at \notin {"clearAccess", "clearRefresh", "dropAccess", "dropRefresh"}
                 /\ job'[u].at = "renew" => Belongs(job'[u].got, gesture)
                 /\ job'[u].at = "sent" /\ ~job'[u].cancelled => Belongs(job'[u].got, gesture)
        BY <1>1, <1>5, <1>d, <3>2, <3>4, <3>6
    <3>7. QED BY <3>2, <3>5, <3>6
  <2>2. QED BY <1>5, <1>a, <1>b, <2>1 DEF In, Kept, Belongs
<1>9. QED BY <1>5, <1>6, <1>7, <1>8 DEF SessionInv

\* A task of the phone goes to another place.
LEMMA PhoneGoes ==
    ASSUME SessionInv, app = "phone", NEW t \in Running, job[t].at # "wait",
           NEW l \in Places \ {"idle", "wait", "sent", "post", "renew"}, Goto(t, l),
           l = "check" => job[t].kind = "signIn",
           l \in {"keepAccess", "keepRefresh"} => job[t].kind = "signIn",
           l \in {"dropAccess", "dropRefresh"} => job[t].kind # "load",
           job[t].kind = "signOut" => l \in {"dropAccess", "dropRefresh", "done"},
           {access', refresh'} \subseteq {access, refresh, job[t].got, None},
           access' \in {access, None} \/ SigningIn(t),
           l = "dropRefresh" => access' = None,
           \/ user' = user /\ loading' = loading /\ gesture' = gesture
           \/ /\ user' = None /\ loading' = FALSE /\ l = "done"
              /\ job[t].at \in {"check", "dropAccess", "dropRefresh"}
              /\ gesture' \in IF job[t].kind = "signOut" THEN {"out", "kept"} ELSE {gesture},
           job[t].kind = "init" /\ l = "send" => access' # None /\ ~job[t].again,
           UNCHANGED <<app, copy, cached, booted, renewal, dead>>, Remembers
    PROVE  /\ SessionTypeOK' /\ TasksFit' /\ RenewalFits' /\ StartsAlone' /\ StoresFit' /\ TokensFit'
           /\ RefusedBefore' /\ Uncrossed' /\ Forgotten' /\ LeavingFits'
           /\ t \in Tasks /\ booted
           /\ Running' = IF l = "done" THEN Running \ {t} ELSE Running
           /\ job'[t].at = l /\ job'[t].kind = job[t].kind /\ job'[t].account = job[t].account
           /\ job'[t].got = job[t].got /\ (job'[t].cancelled <=> job[t].cancelled)
           /\ \A u \in Running \ {t} : job'[u] = job[u]
<1>a. job[t] \in Job /\ PlaceFits(job[t]) /\ job[t].at \notin {"idle", "done"}
    BY DEF SessionInv, SessionTypeOK, TasksFit, Running
<1>c. PICK d : d = [job[t] EXCEPT !.at = l] OBVIOUS
<1>1. /\ d \in Job /\ d.at = l /\ d.kind = job[t].kind /\ d.account = job[t].account
      /\ d.got = job[t].got /\ (d.again <=> job[t].again) /\ (d.cancelled <=> job[t].cancelled)
    BY <1>a, <1>c DEF Job
<1>2. job' = [job EXCEPT ![t] = d] BY <1>c DEF Goto
<1>3. PlaceFits(d)
  <2>1. job[t].kind # "signInByCode" BY <1>a DEF PlaceFits
  <2>2. QED BY <1>1, <1>a, <2>1 DEF PlaceFits
<1>4. /\ d.at \notin {"idle", "wait"} /\ {access', refresh', d.got} \subseteq {access, refresh, job[t].got, None}
      /\ d.at = "dropRefresh" => access' = None
    BY <1>1
<1>5. \/ user' = user /\ loading' = loading /\ gesture' = gesture
      \/ /\ user' = None /\ loading' = FALSE /\ d.at = "done"
         /\ job[t].at \in {"check", "dropAccess", "dropRefresh"}
         /\ gesture' \in IF job[t].kind = "signOut" THEN {"out", "kept"} ELSE {gesture}
    BY <1>1
<1>6. job[t].kind = "init" =>
         /\ d.at = "send" => access' # None /\ (d.again => OwnRenewal(access', t))
         /\ d.at = "sent" => d.got # None /\ (d.again => OwnRenewal(d.got, t))
    BY <1>1
<1>7. /\ SessionTypeOK' /\ TasksFit' /\ RenewalFits' /\ StartsAlone' /\ StoresFit' /\ TokensFit'
      /\ RefusedBefore' /\ Uncrossed' /\ Forgotten' /\ LeavingFits'
      /\ t \in Tasks /\ job'[t] = d /\ booted
      /\ Running' = IF d.at = "done" THEN Running \ {t} ELSE Running
      /\ \A u \in Running \ {t} : job'[u] = job[u]
    BY <1>1, <1>2, <1>3, <1>4, <1>5, <1>6, PhoneStep
<1>8. QED BY <1>1, <1>7

LEMMA ClearTokensKeeps ==
    ASSUME SessionInv, NEW t \in Tasks, ClearTokens(t), Remembers
    PROVE  SessionInv'
<1>0. /\ SessionTypeOK /\ TasksFit /\ RefusedBefore /\ Out /\ Arriving /\ In BY DEF SessionInv
<1>a. /\ t \in Running /\ job[t].at \in {"clearAccess", "clearRefresh"} /\ job[t] \in Job /\ PlaceFits(job[t])
      /\ UNCHANGED <<app, copy, user, cached, loading, booted, renewal, dead, gesture, trouble>>
      /\ access' \in {access, None} /\ refresh' \in {refresh, None}
    BY <1>0 DEF ClearTokens, Running, SessionTypeOK, TasksFit
<1>b. app = "phone" BY <1>a DEF PlaceFits
<1>c. PICK l \in {"clearRefresh", "done", "dropAccess"} :
         Goto(t, l) /\ (l = "dropAccess" => job[t].kind # "load")
    BY DEF ClearTokens, AfterClearing
<1>d. Goto(t, l) /\ (l = "dropAccess" => job[t].kind # "load") /\ l \in Places BY <1>c DEF Places
<1>e. job[t].kind # "signOut" BY <1>a DEF PlaceFits
<1>1. /\ SessionTypeOK' /\ TasksFit' /\ RenewalFits' /\ StartsAlone' /\ StoresFit' /\ TokensFit'
      /\ RefusedBefore' /\ Uncrossed' /\ Forgotten' /\ LeavingFits'
      /\ Running' = IF l = "done" THEN Running \ {t} ELSE Running
      /\ job'[t].at = l /\ job'[t].kind = job[t].kind /\ (job'[t].cancelled <=> job[t].cancelled)
      /\ \A u \in Running \ {t} : job'[u] = job[u]
  <2>1. {access', refresh'} \subseteq {access, refresh, job[t].got, None} BY <1>a
  <2>2. QED BY <1>a, <1>b, <1>d, <1>e, <2>1, PhoneGoes
<1>f. \A u \in Running' : /\ u \in Running /\ job'[u].kind = job[u].kind
                          /\ (job'[u].cancelled <=> job[u].cancelled)
                          /\ (u # t => job'[u] = job[u])
    BY <1>1
<1>2. Out'
  <2>1. ASSUME gesture = "out", ~crossed'
        PROVE  job[t].kind = "load" /\ l # "dropAccess" /\ access = None /\ refresh = None
    <3>1. job[t].kind \in {"load", "init"} /\ (job[t].kind = "init" => job[t].cancelled)
          /\ access = None /\ refresh = None
        BY <1>0, <1>a, <2>1 DEF Out, Remembers
    <3>2. job[t].kind = "load" BY <1>a, <1>b, <3>1 DEF PlaceFits
    <3>3. QED BY <1>d, <3>1, <3>2
  <2>2. ASSUME gesture = "out", ~crossed', NEW u \in Running'
        PROVE  /\ job'[u].kind \in {"load", "init"}
               /\ job'[u].at \notin {"renew", "dropAccess", "dropRefresh"}
               /\ job'[u].kind = "init" => job'[u].at = "check" \/ job'[u].cancelled
    <3>1. CASE u = t BY <1>1, <2>1, <2>2, <3>1
    <3>2. CASE u # t BY <1>0, <1>f, <2>2, <3>2 DEF Out, Remembers
    <3>3. QED BY <3>1, <3>2
  <2>3. QED BY <1>0, <1>a, <2>1, <2>2 DEF Out, Remembers
<1>3. Arriving'
  <2>1. ASSUME ~crossed', ~trouble', NEW u \in Running', job'[u].kind = "signIn"
        PROVE  u = t /\ renewal.at = "off" /\ \A v \in Running' : job'[v].kind # "init"
    <3>1. ~crossed /\ u \in Running /\ job[u].kind = "signIn" BY <1>a, <1>f, <2>1 DEF Remembers
    <3>2. u = t BY <1>a, <3>1, Lone DEF SigningIn
    <3>3. renewal.at = "off" BY <1>a, <3>1, <3>2, Lone DEF SigningIn
    <3>4. \A v \in Running : job[v].kind # "init" BY <1>b, <3>1, PhoneAlone
    <3>5. QED BY <1>f, <3>2, <3>3, <3>4
  <2>2. ASSUME ~crossed', ~trouble', NEW u \in Running', job'[u].kind = "signIn"
        PROVE  /\ job'[u].at \in {"clearRefresh", "dropAccess", "done"} /\ renewal.at = "off"
               /\ \A v \in Running' : job'[v].kind # "init"
      BY <1>1, <2>1, <2>2
  <2>3. QED BY <1>a, <1>b, <2>2 DEF Arriving
<1>4. In'
  <2>1. ASSUME gesture \in Accounts, ~crossed', ~trouble', \A u \in Running' : job'[u].kind # "signOut"
        PROVE  FALSE
    <3>1. ~crossed /\ ~trouble BY <1>a, <2>1 DEF Remembers
    <3>2. \A u \in Running : job[u].kind # "signOut" BY <1>1, <1>e, <2>1
    <3>3. QED BY <1>0, <1>a, <2>1, <3>1, <3>2 DEF In
  <2>2. QED BY <1>a, <2>1 DEF In
<1>5. QED BY <1>1, <1>2, <1>3, <1>4 DEF SessionInv

LEMMA KeepTokensKeeps ==
    ASSUME SessionInv, NEW t \in Tasks, KeepTokens(t), Remembers
    PROVE  SessionInv'
<1>0. /\ SessionTypeOK /\ TasksFit /\ LeavingFits /\ Out /\ Arriving /\ In BY DEF SessionInv
<1>a. /\ t \in Running /\ job[t].at \in {"keepAccess", "keepRefresh"} /\ job[t] \in Job /\ PlaceFits(job[t])
      /\ UNCHANGED <<app, copy, user, cached, loading, booted, renewal, dead, gesture, trouble>>
    BY <1>0 DEF KeepTokens, Running, SessionTypeOK, TasksFit
<1>b. app = "phone" /\ job[t].kind = "signIn" /\ SigningIn(t) BY <1>a DEF PlaceFits, SigningIn
<1>c. ~Checking
  <2>1. \A u \in Running : job[u].kind # "init" BY <1>a, <1>b, PhoneAlone
  <2>2. \A u \in Running : SigningIn(u) => u = t BY <1>0, <1>a, <1>b DEF TasksFit
  <2>3. QED BY <1>a, <2>1, <2>2 DEF Checking
<1>d. PICK l \in {"keepRefresh", "check"} :
         /\ Goto(t, l)
         /\ l = "keepRefresh" => job[t].at = "keepAccess" /\ access' = job[t].got /\ refresh' = refresh
         /\ l = "check" => job[t].at = "keepRefresh" /\ access' = access /\ refresh' = job[t].got
    BY <1>c DEF KeepTokens
<1>1. /\ SessionTypeOK' /\ TasksFit' /\ RenewalFits' /\ StartsAlone' /\ StoresFit' /\ TokensFit'
      /\ RefusedBefore' /\ Uncrossed' /\ Forgotten' /\ LeavingFits'
      /\ Running' = Running
      /\ job'[t].at = l /\ job'[t].kind = job[t].kind /\ (job'[t].cancelled <=> job[t].cancelled)
      /\ job'[t].account = job[t].account /\ job'[t].got = job[t].got
      /\ \A u \in Running \ {t} : job'[u] = job[u]
  <2>1. {access', refresh'} \subseteq {access, refresh, job[t].got, None} BY <1>d
  <2>2. l \in Places BY DEF Places
  <2>3. QED BY <1>a, <1>b, <1>d, <2>1, <2>2, PhoneGoes
<1>2. Out'
  <2>1. gesture = "out" /\ ~crossed => FALSE BY <1>0, <1>a, <1>b DEF Out
  <2>2. QED BY <1>a, <2>1 DEF Out, Remembers
<1>3. Arriving'
  <2>1. ASSUME ~crossed', ~trouble', NEW u \in Running', job'[u].kind = "signIn"
        PROVE  /\ u = t /\ Belongs(job[t].got, job[t].account) /\ Belongs(access', job[t].account)
               /\ l = "check" => Kept(job[t].account)' /\ renewal.at = "off"
               /\ \A v \in Running' : job'[v].kind # "init"
    <3>1. ~crossed /\ ~trouble /\ u \in Running BY <1>1, <1>a, <2>1 DEF Remembers
    <3>2. u = t
      <4>1. u = t \/ job[u].kind = "signIn" BY <1>1, <2>1, <3>1
      <4>2. QED BY <1>0, <1>a, <1>b, <3>1, <4>1 DEF TasksFit, SigningIn
    <3>3. renewal.at = "off" BY <1>a, <1>b, <3>1, Lone
    <3>4. /\ Belongs(job[t].got, job[t].account)
          /\ job[t].at = "keepRefresh" => Belongs(access, job[t].account)
        BY <1>0, <1>a, <1>b, <3>1 DEF Arriving
    <3>5. Belongs(access', job[t].account) BY <1>d, <3>4
    <3>6. l = "check" => Kept(job[t].account)' BY <1>1, <1>d, <3>4, <3>5 DEF Kept, Belongs
    <3>7. \A v \in Running' : job'[v].kind # "init" BY <1>1, <1>a, <1>b, PhoneAlone
    <3>8. QED BY <3>2, <3>3, <3>4, <3>5, <3>6, <3>7
  <2>2. renewal' = renewal BY <1>a
  <2>3. ASSUME ~crossed', ~trouble', NEW u \in Running', job'[u].kind = "signIn"
        PROVE  LET a == job'[u].account
               IN  /\ job'[u].at \in {"keepAccess", "keepRefresh", "sent", "renew"} => Belongs(job'[u].got, a)
                   /\ job'[u].at = "keepRefresh" => Belongs(access', a)
                   /\ job'[u].at \in {"check", "send", "sent", "wait", "renew"} => Kept(job[u].account)'
                   /\ renewal'.at \in {"post", "keepAccess", "keepRefresh"} => Belongs(renewal.got, a)
                   /\ \A v \in Running' : job'[v].kind # "init"
    <3>1. u = t /\ renewal.at \notin {"post", "keepAccess", "keepRefresh"}
      <4>1. ~crossed BY <2>3 DEF Remembers
      <4>2. renewal.at = "off" BY <1>a, <1>b, <4>1, Lone
      <4>3. QED BY <2>1, <2>3, <4>2
    <3>2. QED BY <1>1, <2>1, <2>2, <2>3, <3>1
  <2>4. QED BY <1>a, <1>b, <2>3 DEF Arriving, Kept, Belongs
<1>4. In'
  <2>1. gesture \in Accounts /\ ~crossed => FALSE BY <1>0, <1>a, <1>b, SessionAssumption DEF LeavingFits
  <2>2. QED BY <1>a, <2>1 DEF In, Remembers
<1>5. QED BY <1>1, <1>2, <1>3, <1>4 DEF SessionInv

LEMMA DropTokensKeeps ==
    ASSUME SessionInv, NEW t \in Tasks, DropTokens(t), Remembers
    PROVE  SessionInv'
<1>0. /\ SessionTypeOK /\ TasksFit /\ StoresFit /\ LeavingFits /\ Out /\ Arriving /\ In BY DEF SessionInv
<1>a. /\ t \in Running /\ job[t].at \in {"dropAccess", "dropRefresh"} /\ job[t] \in Job /\ PlaceFits(job[t])
      /\ UNCHANGED <<app, copy, cached, booted, renewal, dead, trouble>>
    BY <1>0 DEF DropTokens, Running, SessionTypeOK, TasksFit
<1>k. job[t].kind \in {"init", "signIn", "signOut"} BY <1>a DEF PlaceFits, Job, Kinds
<1>d. PICK l \in {"dropRefresh", "done"} :
         /\ Goto(t, l)
         /\ l = "dropRefresh" => /\ job[t].at = "dropAccess" /\ access' = None
                                 /\ UNCHANGED <<refresh, user, loading, gesture>>
         /\ l = "done" => /\ access' = access /\ refresh' \in {refresh, None}
                          /\ user' = None /\ loading' = FALSE
                          /\ gesture' \in IF job[t].kind = "signOut" THEN {"out", "kept"} ELSE {gesture}
                          /\ job[t].kind = "signOut" /\ gesture' = "out" =>
                                job[t].at = "dropRefresh" /\ refresh' = None
    BY DEF DropTokens, Dropped
<1>b. app = "phone" BY <1>a DEF PlaceFits
<1>1. /\ SessionTypeOK' /\ TasksFit' /\ RenewalFits' /\ StartsAlone' /\ StoresFit' /\ TokensFit'
      /\ RefusedBefore' /\ Uncrossed' /\ Forgotten' /\ LeavingFits'
      /\ Running' = IF l = "done" THEN Running \ {t} ELSE Running
      /\ job'[t].at = l /\ job'[t].kind = job[t].kind /\ (job'[t].cancelled <=> job[t].cancelled)
      /\ \A u \in Running \ {t} : job'[u] = job[u]
  <2>1. {access', refresh'} \subseteq {access, refresh, job[t].got, None} BY <1>d
  <2>2. l \in Places \ {"idle", "wait", "sent", "post", "renew"} BY DEF Places
  <2>3. access' \in {access, None} BY <1>d
  <2>4. job[t].kind # "load" BY <1>k
  <2>5. \/ user' = user /\ loading' = loading /\ gesture' = gesture
        \/ /\ user' = None /\ loading' = FALSE /\ l = "done"
           /\ job[t].at \in {"check", "dropAccess", "dropRefresh"}
           /\ gesture' \in IF job[t].kind = "signOut" THEN {"out", "kept"} ELSE {gesture}
      BY <1>a, <1>d
  <2>6. QED BY <1>a, <1>b, <1>d, <2>1, <2>2, <2>3, <2>4, <2>5, PhoneGoes
<1>f. \A u \in Running' : /\ u \in Running /\ job'[u].kind = job[u].kind
                          /\ (u # t => job'[u] = job[u])
    BY <1>1
<1>2. Out'
  <2>1. ASSUME gesture' = "out", ~crossed' PROVE l = "done" /\ job[t].kind = "signOut" /\ ~crossed
    <3>1. ~crossed BY <2>1 DEF Remembers
    <3>2. gesture # "out" BY <1>0, <1>a, <3>1 DEF Out
    <3>3. QED BY <1>d, <2>1, <3>1, <3>2
  <2>2. ASSUME gesture' = "out", ~crossed'
        PROVE  access' = None /\ refresh' = None /\ copy' = None /\ user' = None /\ renewal'.at = "off"
    <3>1. access = None BY <1>0, <1>a, <1>d, <2>1, <2>2 DEF LeavingFits
    <3>2. copy = None BY <1>0, <1>b DEF StoresFit, Dashboards
    <3>3. renewal.at = "off" BY <1>a, <2>1, <2>2, Lone
    <3>4. QED BY <1>a, <1>d, <2>1, <2>2, <3>1, <3>2, <3>3
  <2>3. ASSUME gesture' = "out", ~crossed', NEW u \in Running'
        PROVE  /\ job'[u].kind = "load" /\ job'[u].at \notin {"renew", "dropAccess", "dropRefresh"}
    <3>1. l = "done" /\ job[t].kind = "signOut" /\ ~crossed BY <2>1, <2>3
    <3>2. u \in Running \ {t} /\ job'[u] = job[u] BY <1>1, <2>3, <3>1
    <3>3. job[u].kind = "load" /\ job[u].at # "renew" BY <1>a, <1>b, <3>1, <3>2, Lone
    <3>4. PlaceFits(job[u]) BY <1>0, <3>2 DEF TasksFit, Running
    <3>5. QED BY <3>2, <3>3, <3>4 DEF PlaceFits
  <2>4. QED BY <2>2, <2>3 DEF Out
<1>3. Arriving'
  <2>1. ASSUME ~crossed', ~trouble', NEW u \in Running', job'[u].kind = "signIn"
        PROVE  /\ job'[u].at \in {"dropRefresh", "done"} /\ renewal.at = "off"
               /\ \A v \in Running' : job'[v].kind # "init"
    <3>1. ~crossed /\ u \in Running /\ job[u].kind = "signIn" BY <1>a, <1>f, <2>1 DEF Remembers
    <3>2. u = t BY <1>a, <1>b, <1>k, <3>1, Lone DEF SigningIn
    <3>3. renewal.at = "off" BY <1>a, <3>1, <3>2, Lone DEF SigningIn
    <3>4. \A v \in Running : job[v].kind # "init" BY <1>b, <3>1, PhoneAlone
    <3>5. QED BY <1>1, <1>f, <3>2, <3>3, <3>4
  <2>2. QED BY <1>a, <1>b, <2>1 DEF Arriving
<1>4. In'
  <2>1. ASSUME gesture' \in Accounts, ~crossed', ~trouble', \A u \in Running' : job'[u].kind # "signOut"
        PROVE  FALSE
    <3>1. ~crossed /\ ~trouble BY <1>a, <2>1 DEF Remembers
    <3>2. job[t].kind # "signOut" BY <1>1, <1>a, <1>d, <2>1, SessionAssumption
    <3>3. \A u \in Running : job[u].kind # "signOut" BY <1>1, <2>1, <3>2
    <3>4. gesture \in Accounts BY <1>d, <2>1, <3>2
    <3>5. QED BY <1>0, <1>a, <3>1, <3>3, <3>4 DEF In
  <2>2. QED BY <2>1 DEF In
<1>5. QED BY <1>1, <1>2, <1>3, <1>4 DEF SessionInv

LEMMA CheckAuthKeeps ==
    ASSUME SessionInv, NEW t \in Tasks, CheckAuth(t), Remembers
    PROVE  SessionInv'
<1> USE DEF tokens
<1>0. /\ SessionTypeOK /\ TasksFit /\ StartsAlone /\ StoresFit /\ LeavingFits /\ Out /\ Arriving /\ In
    BY DEF SessionInv
<1>a. /\ t \in Running /\ job[t].at = "check" /\ job[t] \in Job /\ PlaceFits(job[t])
      /\ UNCHANGED <<app, access, refresh, copy, cached, booted, renewal, dead, gesture, trouble>>
    BY <1>0 DEF CheckAuth, Running, SessionTypeOK, TasksFit
<1>b. app = "phone" BY <1>a DEF PlaceFits
<1>k. job[t].kind \in {"init", "signIn"} BY <1>a, <1>b DEF PlaceFits, Job, Kinds
<1>d. PICK l \in {"send", "done"} :
         /\ Goto(t, l)
         /\ l = "send" => access # None /\ UNCHANGED <<user, loading>>
         /\ l = "done" => access = None /\ user' = None /\ loading' = FALSE
    BY DEF CheckAuth
<1>e. user' = user
  <2>1. job[t].kind = "init" => user = None BY <1>0, <1>a, <1>b DEF StartsAlone
  <2>2. job[t].kind = "signIn" => user = None BY <1>0, <1>a, <1>b DEF StoresFit, SigningIn
  <2>3. QED BY <1>d, <1>k, <2>1, <2>2
<1>1. /\ SessionTypeOK' /\ TasksFit' /\ RenewalFits' /\ StartsAlone' /\ StoresFit' /\ TokensFit'
      /\ RefusedBefore' /\ Uncrossed' /\ Forgotten' /\ LeavingFits'
      /\ Running' = IF l = "done" THEN Running \ {t} ELSE Running
      /\ job'[t].at = l /\ job'[t].kind = job[t].kind /\ (job'[t].cancelled <=> job[t].cancelled)
      /\ job'[t].account = job[t].account /\ job'[t].got = job[t].got
      /\ \A u \in Running \ {t} : job'[u] = job[u]
  <2>1. {access', refresh'} \subseteq {access, refresh, job[t].got, None} BY <1>a
  <2>2. l \in Places \ {"idle", "wait", "sent", "post", "renew"} BY DEF Places
  <2>3. job[t].kind = "init" /\ l = "send" => access' # None /\ ~job[t].again
      BY <1>a, <1>d DEF PlaceFits
  <2>4. job[t].kind # "signOut" BY <1>k
  <2>5. \/ user' = user /\ loading' = loading /\ gesture' = gesture
        \/ /\ user' = None /\ loading' = FALSE /\ l = "done" /\ job[t].at \in {"check", "dropRefresh"}
           /\ gesture' = IF job[t].kind = "signOut" THEN "out" ELSE gesture
      BY <1>a, <1>d, <2>4
  <2>6. QED BY <1>a, <1>b, <1>d, <2>1, <2>2, <2>3, <2>4, <2>5, PhoneGoes
<1>f. \A u \in Running' : /\ u \in Running /\ job'[u].kind = job[u].kind
                          /\ (job'[u].cancelled <=> job[u].cancelled)
                          /\ (u # t => job'[u] = job[u])
    BY <1>1
<1>2. Out'
  <2>1. ASSUME gesture = "out", ~crossed', NEW u \in Running'
        PROVE  job'[u] = job[u]
    <3>1. access = None BY <1>0, <2>1 DEF Out, Remembers
    <3>2. l = "done" BY <1>d, <3>1
    <3>3. QED BY <1>1, <2>1, <3>2
  <2>2. QED BY <1>0, <1>a, <1>e, <1>f, <2>1 DEF Out, Remembers
<1>3. Arriving'
  <2>1. ASSUME ~crossed', ~trouble', NEW u \in Running', job'[u].kind = "signIn"
        PROVE  /\ job'[u].at = "send" /\ Kept(job'[u].account) /\ renewal.at = "off"
               /\ \A v \in Running' : job'[v].kind # "init"
    <3>1. ~crossed /\ ~trouble /\ u \in Running /\ job[u].kind = "signIn" BY <1>a, <1>f, <2>1 DEF Remembers
    <3>2. \A v \in Running : job[v].kind # "init" BY <1>b, <3>1, PhoneAlone
    <3>3. u = t BY <1>0, <1>a, <1>k, <3>1, <3>2 DEF TasksFit, SigningIn
    <3>4. renewal.at = "off" BY <1>a, <3>1, <3>3, Lone DEF SigningIn
    <3>5. Kept(job[t].account) BY <1>0, <1>a, <3>1, <3>3 DEF Arriving
    <3>6. l = "send" BY <1>1, <2>1, <3>3
    <3>7. QED BY <1>1, <1>f, <3>2, <3>3, <3>4, <3>5, <3>6
  <2>2. QED BY <1>a, <1>b, <2>1 DEF Arriving, Kept, Belongs
<1>4. In'
  <2>1. ASSUME gesture \in Accounts, ~crossed', ~trouble', \A u \in Running' : job'[u].kind # "signOut"
        PROVE  /\ Kept(gesture) /\ user' \in {gesture, None}
               /\ user' = None /\ booted => \E u \in Running' : job'[u].kind = "init" /\ ~job'[u].cancelled
               /\ renewal.at \in {"post", "keepAccess", "keepRefresh"} => Belongs(renewal.got, gesture)
               /\ cached \in {gesture, None}
               /\ \A u \in Running' :
                     /\ job'[u].at \notin {"clearAccess", "clearRefresh", "dropAccess", "dropRefresh"}
                     /\ job'[u].at = "renew" => Belongs(job'[u].got, gesture)
                     /\ job'[u].at = "sent" /\ ~job'[u].cancelled => Belongs(job'[u].got, gesture)
    <3>1. ~crossed /\ ~trouble BY <1>a, <2>1 DEF Remembers
    <3>2. \A u \in Running : job[u].kind # "signOut" BY <1>1, <1>k, <2>1
    <3>3. /\ Kept(gesture) /\ user \in {gesture, None}
          /\ user = None /\ booted => \E u \in Running : job[u].kind = "init" /\ ~job[u].cancelled
          /\ renewal.at \in {"post", "keepAccess", "keepRefresh"} => Belongs(renewal.got, gesture)
          /\ cached \in {gesture, None}
          /\ \A u \in Running :
                /\ job[u].at \notin {"clearAccess", "clearRefresh", "dropAccess", "dropRefresh"}
                /\ job[u].at = "renew" => Belongs(job[u].got, gesture)
                /\ job[u].at = "sent" /\ ~job[u].cancelled => Belongs(job[u].got, gesture)
        BY <1>0, <1>b, <2>1, <3>1, <3>2 DEF In
    <3>4. l = "send" BY <1>d, <3>3 DEF Kept, Belongs
    <3>5. user' = None /\ booted => \E u \in Running' : job'[u].kind = "init" /\ ~job'[u].cancelled
        BY <1>1, <1>e, <1>f, <3>3, <3>4
    <3>6. ASSUME NEW u \in Running'
          PROVE  /\ job'[u].at \notin {"clearAccess", "clearRefresh", "dropAccess", "dropRefresh"}
                 /\ job'[u].at = "renew" => Belongs(job'[u].got, gesture)
                 /\ job'[u].at = "sent" /\ ~job'[u].cancelled => Belongs(job'[u].got, gesture)
        BY <1>1, <1>f, <3>3, <3>4, <3>6
    <3>7. QED BY <1>e, <3>3, <3>5, <3>6
  <2>2. QED BY <1>a, <1>b, <2>1 DEF In, Kept, Belongs
<1>5. QED BY <1>1, <1>2, <1>3, <1>4 DEF SessionInv

\* An idle task is given something to do.
LEMMA Begins ==
    ASSUME SessionInv, NEW t \in Tasks, job[t].at = "idle", NEW d \in Job, job' = [job EXCEPT ![t] = d],
           PlaceFits(d), d.at \in {"check", "send", "sent", "post", "done"}, ~d.again,
           d.got \in {access, job[t].got, None},
           d.kind \in {"signIn", "signInByCode"} => d.at \in {"post", "done"} /\ \A u \in Running : ~SigningIn(u),
           d.kind = "init" => renewal.at = "off" /\ (d.at = "sent" => d.got # None),
           d.at = "send" => d.kind = "load",
           UNCHANGED <<app, access, refresh, copy, user, cached, renewal, dead, trouble>>, Remembers,
           booted' \in BOOLEAN, loading' \in BOOLEAN, gesture' \in {gesture, "start"}
    PROVE  /\ SessionTypeOK' /\ TasksFit' /\ RenewalFits' /\ TokensFit' /\ RefusedBefore' /\ Uncrossed'
           /\ job'[t] = d /\ t \notin Running
           /\ Running' = IF d.at = "done" THEN Running ELSE Running \cup {t}
           /\ \A u \in Running : u \in Tasks /\ u # t /\ job'[u] = job[u]
<1>0. /\ SessionTypeOK /\ TasksFit /\ RenewalFits /\ TokensFit /\ RefusedBefore /\ Uncrossed
    BY DEF SessionInv
<1>a. t \notin Running BY DEF Running
<1>1. /\ job' \in [Tasks -> Job] /\ job'[t] = d /\ \A u \in Tasks \ {t} : job'[u] = job[u]
      /\ Running' = IF d.at = "done" THEN Running ELSE Running \cup {t}
  <2>1. Running \ {t} = Running BY <1>a
  <2>2. QED BY <1>0, <2>1, OneMoves
<1>b. \A u \in Running : u \in Tasks /\ u # t /\ job'[u] = job[u] BY <1>1, <1>a DEF Running
<1>c. ASSUME NEW u \in Running', u # t PROVE u \in Running /\ job'[u] = job[u]
  <2>1. u \in Running BY <1>1, <1>c
  <2>2. QED BY <1>b, <2>1
<1>2. TasksFit'
  <2>1. ASSUME NEW u \in Tasks PROVE PlaceFits(job[u])'
    <3>1. PlaceFits(job[u]) BY <1>0 DEF TasksFit
    <3>2. job'[u] = IF u = t THEN d ELSE job[u] BY <1>1
    <3>3. QED BY <3>1, <3>2 DEF PlaceFits
  <2>2. ASSUME NEW u \in Running', NEW v \in Running', SigningIn(u)', SigningIn(v)' PROVE u = v
    <3>1. u # t => u \in Running /\ SigningIn(u) BY <1>c, <2>2 DEF SigningIn
    <3>2. v # t => v \in Running /\ SigningIn(v) BY <1>c, <2>2 DEF SigningIn
    <3>3. u = t \/ v = t => d.kind \in {"signIn", "signInByCode"} BY <1>1, <2>2 DEF SigningIn
    <3>4. QED BY <1>0, <3>1, <3>2, <3>3 DEF TasksFit
  <2>3. QED BY <2>1, <2>2 DEF TasksFit
<1>3. RenewalFits'
  <2>1. \A u \in Tasks : job'[u].at = "wait" <=> job[u].at = "wait" BY <1>1
  <2>2. QED BY <1>0, <2>1 DEF RenewalFits, OwnRenewal
<1>4. TokensFit'
  <2>1. (Around \ {None})' \subseteq Around
    <3>1. \A u \in Tasks : job'[u].got \in {job[u].got, d.got} BY <1>1
    <3>2. d.got \in Around \cup {None} BY DEF Around
    <3>3. {access, refresh, copy, renewal.got}' \subseteq Around BY DEF Around
    <3>4. QED BY <3>1, <3>2, <3>3 DEF Around
  <2>2. ASSUME NEW u \in Tasks, Spent(u) PROVE Spent(u)'
    <3>1. u # t BY <1>0, <2>2 DEF Spent, TasksFit, PlaceFits, RenewalFits
    <3>2. QED BY <1>1, <2>2, <3>1 DEF Spent
  <2>3. QED BY <1>0, <2>1, <2>2, TokensStay DEF TokensFit
<1>5. RefusedBefore'
  <2>1. ASSUME NEW u \in Running', job'[u].kind = "init" \/ (app # "phone" /\ job'[u].kind # "load")
        PROVE  /\ job'[u].at \in {"wait", "renew"} \/ job'[u].again => \E e \in dead : ~OwnRenewal(e, u)
               /\ job'[u].at = "send" => access # None /\ (job'[u].again => OwnRenewal(access, u))
               /\ job'[u].at = "sent" => job'[u].got # None /\ (job'[u].again => OwnRenewal(job'[u].got, u))
               /\ renewal.at = "keepRefresh" => access # None /\ OwnRenewal(access, u)
    <3>1. CASE u = t
      <4>1. d.kind = "init" \/ d.kind \in {"signIn", "signInByCode"}
        <5>1. d.kind # "signOut" BY <1>1, <1>a, <3>1 DEF PlaceFits
        <5>2. QED BY <1>1, <2>1, <3>1, <5>1 DEF Job, Kinds
      <4>2. d.kind = "init" \/ d.at = "post" BY <1>1, <2>1, <3>1, <4>1 DEF Running
      <4>3. renewal.at # "keepRefresh"
          BY <1>0, <1>1, <2>1, <3>1, <4>1 DEF RenewalFits
      <4>4. QED BY <1>1, <3>1, <4>1, <4>2, <4>3
    <3>2. CASE u # t
      <4>1. u \in Running /\ job'[u] = job[u] BY <1>c, <3>2
      <4>2. QED BY <1>0, <2>1, <4>1 DEF RefusedBefore
    <3>3. QED BY <3>1, <3>2
  <2>2. QED BY <2>1 DEF RefusedBefore, OwnRenewal
<1>6. SessionTypeOK'
  <2>1. gesture' \in {"start", "out", "kept"} \cup Accounts BY <1>0 DEF SessionTypeOK
  <2>2. QED BY <1>0, <1>1, <2>1 DEF SessionTypeOK, Remembers
<1>7. Uncrossed' BY DEF Uncrossed, Remembers
<1>8. QED BY <1>1, <1>2, <1>3, <1>4, <1>5, <1>6, <1>7, <1>a, <1>b

LEMMA Asked ==
    ASSUME SessionInv, NEW kind \in Kinds \ {"signOut", "signIn", "signInByCode"},
           NEW d, d = Asking(kind)
    PROVE  /\ d \in Job /\ d.kind = kind /\ d.at = (IF app = "phone" THEN "send" ELSE "sent")
           /\ d.got = access /\ ~d.again /\ ~d.cancelled /\ PlaceFits(d)
<1>1. access \in Held BY DEF SessionInv, SessionTypeOK
<1>2. d = [kind |-> kind, at |-> IF app = "phone" THEN "send" ELSE "sent", account |-> None,
           got |-> access, again |-> FALSE, cancelled |-> FALSE]
    BY DEF Asking, Idle
<1>3. /\ d \in Job /\ d.kind = kind /\ d.at = (IF app = "phone" THEN "send" ELSE "sent")
      /\ d.got = access /\ ~d.again /\ ~d.cancelled
    BY <1>1, <1>2 DEF Job, Kinds, Places
<1>4. PlaceFits(d) BY <1>3 DEF PlaceFits
<1>5. QED BY <1>3, <1>4

LEMMA BootKeeps ==
    ASSUME SessionInv, NEW t \in Tasks, Boot(t), Remembers
    PROVE  SessionInv'
<1> USE DEF tokens
<1>0. /\ SessionTypeOK /\ TasksFit /\ RenewalFits /\ StartsAlone /\ StoresFit /\ Out /\ Arriving /\ In
    BY DEF SessionInv
<1>a. /\ ~booted /\ job[t].at = "idle" /\ booted' = TRUE
      /\ UNCHANGED <<app, access, refresh, copy, user, cached, renewal, dead, gesture, trouble>>
    BY DEF Boot
<1>b. /\ Running = {} /\ renewal.at = "off" /\ loading /\ cached = None /\ user = None
      /\ copy = IF app \in Dashboards THEN access ELSE None
    BY <1>0, <1>a DEF StartsAlone
<1>c. PICK d \in Job :
         /\ job' = [job EXCEPT ![t] = d] /\ PlaceFits(d) /\ ~d.again
         /\ d.got \in {access, job[t].got, None} /\ d.kind # "signOut"
         /\ \/ app = "phone" /\ d.kind = "init" /\ d.at = "check" /\ ~d.cancelled /\ loading' = loading
            \/ app # "phone" /\ access = None /\ d.at = "done" /\ loading' = FALSE
            \/ /\ app # "phone" /\ access # None /\ d.kind = "init" /\ d.at = "sent" /\ d.got = access
               /\ ~d.cancelled /\ loading' = loading
  <2>1. CASE app = "phone"
    <3>1. PICK d : d = [Idle EXCEPT !.kind = "init", !.at = "check"] OBVIOUS
    <3>2. d \in Job /\ d.kind = "init" /\ d.at = "check" /\ ~d.cancelled /\ ~d.again /\ d.got = None
        BY <3>1 DEF Idle, Job, Kinds, Places, Held
    <3>3. job' = [job EXCEPT ![t] = d] /\ loading' = loading BY <2>1, <3>1 DEF Boot
    <3>4. PlaceFits(d) BY <2>1, <3>2 DEF PlaceFits
    <3>5. QED BY <2>1, <3>2, <3>3, <3>4
  <2>2. CASE app # "phone" /\ access = None
    <3>1. PICK d : d = [job[t] EXCEPT !.at = "done"] OBVIOUS
    <3>2. job[t] \in Job /\ PlaceFits(job[t]) BY <1>0 DEF SessionTypeOK, TasksFit
    <3>3. /\ d \in Job /\ d.kind = job[t].kind /\ d.at = "done" /\ (d.cancelled <=> job[t].cancelled)
          /\ (d.again <=> job[t].again) /\ d.got = job[t].got /\ d.account = job[t].account
        BY <3>1, <3>2 DEF Job, Places
    <3>4. job' = [job EXCEPT ![t] = d] /\ loading' = FALSE BY <2>2, <3>1 DEF Boot
    <3>5. PlaceFits(d) /\ ~d.again /\ d.kind # "signOut" BY <1>a, <3>2, <3>3 DEF PlaceFits
    <3>6. QED BY <2>2, <3>3, <3>4, <3>5
  <2>3. CASE app # "phone" /\ access # None
    <3>1. PICK d : d = Asking("init") OBVIOUS
    <3>2. /\ d \in Job /\ d.kind = "init" /\ d.at = "sent" /\ d.got = access /\ ~d.again /\ ~d.cancelled
          /\ PlaceFits(d)
        BY <2>3, <3>1, Asked DEF Kinds
    <3>3. job' = [job EXCEPT ![t] = d] /\ loading' = loading BY <2>3, <3>1 DEF Boot
    <3>4. QED BY <2>3, <3>2, <3>3
  <2>4. QED BY <2>1, <2>2, <2>3
<1>1. /\ SessionTypeOK' /\ TasksFit' /\ RenewalFits' /\ TokensFit' /\ RefusedBefore' /\ Uncrossed'
      /\ job'[t] = d
      /\ Running' = IF d.at = "done" THEN Running ELSE Running \cup {t}
  <2>1. loading' \in BOOLEAN BY <1>0, <1>c DEF SessionTypeOK
  <2>2. d.kind = "init" => renewal.at = "off" /\ (d.at = "sent" => d.got # None) BY <1>b, <1>c
  <2>3. d.kind \in {"signIn", "signInByCode"} => d.at \in {"post", "done"} /\ \A u \in Running : ~SigningIn(u)
      BY <1>b, <1>c
  <2>4. QED BY <1>a, <1>c, <2>1, <2>2, <2>3, Begins
<1>d. \A u \in Running' : u = t /\ job'[u] = d /\ d.at # "done" /\ d.kind = "init" /\ ~d.cancelled
    BY <1>1, <1>b, <1>c
<1>2. StartsAlone'
  <2>1. ASSUME NEW u \in Running'
        PROVE  /\ loading' /\ (app = "merchant" => copy # None)
               /\ job'[u].kind = "init" /\ ~job'[u].cancelled
    BY <1>b, <1>c, <1>d DEF Dashboards
  <2>2. \A u, v \in Running' : u = v BY <1>d
  <2>3. booted' /\ user' = None /\ app' = app /\ copy' = copy BY <1>a, <1>b
  <2>4. QED BY <2>1, <2>2, <2>3 DEF StartsAlone
<1>3. StoresFit'
  <2>1. app = "admin" /\ ~loading' => copy = None BY <1>b, <1>c
  <2>2. QED BY <1>0, <1>a, <1>d, <2>1 DEF StoresFit, SigningIn
<1>4. Forgotten' BY <1>a, <1>b, <1>d DEF Forgotten
<1>5. LeavingFits' BY <1>d DEF LeavingFits, SigningIn
<1>6. Out'
  <2>1. ASSUME gesture = "out", ~crossed', NEW u \in Running' PROVE d.at = "check"
      BY <1>0, <1>c, <1>d, <2>1 DEF Out, Remembers
  <2>2. QED BY <1>0, <1>a, <1>d, <2>1 DEF Out, Remembers
<1>7. Arriving'
  <2>1. app = "merchant" /\ ~loading' => copy = None BY <1>b, <1>c
  <2>2. QED BY <1>a, <1>d, <2>1 DEF Arriving
<1>8. In'
  <2>1. ASSUME gesture \in Accounts, ~crossed', ~trouble'
        PROVE  /\ Kept(gesture) /\ Running' = {t} /\ d.at \in {"check", "sent"}
               /\ d.at = "sent" => Belongs(d.got, gesture)
    <3>1. Kept(gesture) BY <1>0, <1>a, <1>b, <2>1 DEF In, Remembers
    <3>2. access # None BY <3>1 DEF Kept, Belongs
    <3>3. QED BY <1>1, <1>b, <1>c, <3>1, <3>2 DEF Kept
  <2>2. QED BY <1>a, <1>b, <1>d, <2>1 DEF In, Kept, Belongs
<1>9. QED BY <1>1, <1>2, <1>3, <1>4, <1>5, <1>6, <1>7, <1>8 DEF SessionInv

LEMMA LoadKeeps ==
    ASSUME SessionInv, NEW t \in Tasks, Load(t), Remembers
    PROVE  SessionInv'
<1> USE DEF tokens, device
<1>0. /\ SessionTypeOK /\ TasksFit /\ StartsAlone /\ StoresFit /\ Forgotten /\ LeavingFits /\ Out /\ Arriving /\ In
    BY DEF SessionInv
<1>a. /\ booted /\ job[t].at = "idle"
      /\ user # None \/ (app = "merchant" /\ copy # None /\ ~loading)
      /\ UNCHANGED <<app, access, refresh, copy, user, cached, loading, booted, renewal, dead, gesture, trouble>>
    BY DEF Load
<1>b. ~loading BY <1>0, <1>a DEF StartsAlone
<1>c. PICK d : d = Asking("load") OBVIOUS
<1>d. /\ d \in Job /\ d.kind = "load" /\ d.at = (IF app = "phone" THEN "send" ELSE "sent")
      /\ d.got = access /\ ~d.again /\ ~d.cancelled /\ PlaceFits(d)
    BY <1>c, Asked DEF Kinds
<1>e. job' = [job EXCEPT ![t] = d] BY <1>c DEF Load
<1>1. /\ SessionTypeOK' /\ TasksFit' /\ RenewalFits' /\ TokensFit' /\ RefusedBefore' /\ Uncrossed'
      /\ job'[t] = d /\ t \notin Running
      /\ Running' = Running \cup {t}
      /\ \A u \in Running : u \in Tasks /\ u # t /\ job'[u] = job[u]
  <2>1. booted' \in BOOLEAN /\ loading' \in BOOLEAN /\ gesture' \in {gesture, "start"}
      BY <1>0, <1>a DEF SessionTypeOK
  <2>2. QED BY <1>a, <1>d, <1>e, <2>1, Begins
<1>f. \A u \in Running' : u = t \/ (u \in Running /\ job'[u] = job[u]) BY <1>1
<1>g. \A u \in Running' : job'[u].kind # "load" => u \in Running /\ job'[u] = job[u] BY <1>1, <1>d, <1>f
<1>2. StartsAlone'
  <2>1. ASSUME NEW u \in Running', job'[u].kind = "init"
        PROVE  app = "merchant" /\ (~job'[u].cancelled => copy # None)
      BY <1>0, <1>b, <1>g, <2>1 DEF StartsAlone
  <2>2. QED BY <1>a, <1>b, <2>1 DEF StartsAlone
<1>3. StoresFit'
  <2>1. \A u \in Running' : SigningIn(u)' => u \in Running /\ SigningIn(u) BY <1>1, <1>d, <1>f DEF SigningIn
  <2>2. QED BY <1>0, <1>a, <2>1 DEF StoresFit, Dashboards
<1>4. Forgotten'
  <2>1. ASSUME app = "phone", ~crossed', NEW u \in Running', job'[u].kind = "signOut" PROVE FALSE
    <3>1. u # t /\ t \in Running' /\ job'[t].kind = "load" /\ ~job'[t].cancelled /\ app' = "phone"
        BY <1>1, <1>a, <1>d, <2>1
    <3>2. Crossing' BY <2>1, <3>1 DEF Crossing
    <3>3. QED BY <2>1, <3>2 DEF Remembers
  <2>2. app = "phone" => user # None BY <1>a
  <2>3. QED BY <1>a, <2>1, <2>2 DEF Forgotten
<1>5. LeavingFits'
  <2>1. ASSUME ~crossed', NEW u \in Running'
        PROVE  /\ SigningIn(u)' => gesture = "start"
               /\ job'[u].kind = "signOut" /\ job'[u].at = "dropRefresh" => access = None
    <3>1. job'[u].kind # "load" => u \in Running /\ job'[u] = job[u] BY <1>g, <2>1
    <3>2. ~crossed BY <2>1 DEF Remembers
    <3>3. QED BY <1>0, <3>1, <3>2 DEF LeavingFits, SigningIn
  <2>2. QED BY <1>a, <2>1 DEF LeavingFits
<1>6. Out' BY <1>0, <1>a DEF Out, Remembers
<1>7. Arriving'
  <2>1. ASSUME ~crossed', ~trouble', NEW u \in Running', job'[u].kind = "signIn"
        PROVE  LET a == job'[u].account
               IN  /\ job'[u].at \in {"keepAccess", "keepRefresh", "sent", "renew"} => Belongs(job'[u].got, a)
                   /\ job'[u].at = "keepRefresh" => Belongs(access, a)
                   /\ job'[u].at \in {"check", "send", "sent", "wait", "renew"} => Kept(a)
                   /\ renewal.at \in {"post", "keepAccess", "keepRefresh"} => Belongs(renewal.got, a)
                   /\ \A v \in Running' : job'[v].kind = "init" /\ ~job'[v].cancelled =>
                         job'[u].at # "post" /\ Belongs(job'[v].got, a)
    <3>1. ~crossed /\ ~trouble BY <1>a, <2>1 DEF Remembers
    <3>2. u \in Running /\ job'[u] = job[u] BY <1>g, <2>1
    <3>3. QED BY <1>0, <1>g, <2>1, <3>1, <3>2 DEF Arriving
  <2>2. ASSUME ~crossed', ~trouble', app = "merchant" /\ booted /\ ~loading /\ user = None /\ copy # None
        PROVE  \E u \in Running' : job'[u].kind = "signIn" /\ job'[u].at \in {"sent", "renew"}
    <3>1. PICK u \in Running : job[u].kind = "signIn" /\ job[u].at \in {"sent", "renew"}
        BY <1>0, <1>a, <2>2 DEF Arriving, Remembers
    <3>2. QED BY <1>1, <3>1
  <2>3. QED BY <1>a, <2>1, <2>2 DEF Arriving, Kept, Belongs
<1>8. In'
  <2>1. ASSUME gesture \in Accounts, ~crossed', ~trouble', \A u \in Running' : job'[u].kind # "signOut"
        PROVE  /\ Kept(gesture) /\ user \in {gesture, None}
               /\ user = None /\ booted => \E u \in Running' : job'[u].kind = "init" /\ ~job'[u].cancelled
               /\ renewal.at \in {"post", "keepAccess", "keepRefresh"} => Belongs(renewal.got, gesture)
               /\ cached \in {gesture, None} \/ app # "phone"
               /\ \A u \in Running' :
                     /\ job'[u].at \notin {"clearAccess", "clearRefresh", "dropAccess", "dropRefresh"}
                     /\ job'[u].at = "renew" => Belongs(job'[u].got, gesture)
                     /\ job'[u].at = "sent" /\ ~job'[u].cancelled /\ (app = "phone" \/ job'[u].kind = "init")
                           => Belongs(job'[u].got, gesture)
    <3>1. ~crossed /\ ~trouble /\ \A u \in Running : job[u].kind # "signOut"
        BY <1>1, <1>a, <2>1 DEF Remembers
    <3>2. /\ Kept(gesture) /\ user \in {gesture, None}
          /\ user = None /\ booted => \E u \in Running : job[u].kind = "init" /\ ~job[u].cancelled
          /\ renewal.at \in {"post", "keepAccess", "keepRefresh"} => Belongs(renewal.got, gesture)
          /\ cached \in {gesture, None} \/ app # "phone"
          /\ \A u \in Running :
                /\ job[u].at \notin {"clearAccess", "clearRefresh", "dropAccess", "dropRefresh"}
                /\ job[u].at = "renew" => Belongs(job[u].got, gesture)
                /\ job[u].at = "sent" /\ ~job[u].cancelled /\ (app = "phone" \/ job[u].kind = "init")
                      => Belongs(job[u].got, gesture)
        BY <1>0, <2>1, <3>1 DEF In
    <3>3. user = None /\ booted => \E u \in Running' : job'[u].kind = "init" /\ ~job'[u].cancelled
        BY <1>1, <3>2
    <3>4. ASSUME NEW u \in Running'
          PROVE  /\ job'[u].at \notin {"clearAccess", "clearRefresh", "dropAccess", "dropRefresh"}
                 /\ job'[u].at = "renew" => Belongs(job'[u].got, gesture)
                 /\ job'[u].at = "sent" /\ ~job'[u].cancelled /\ (app = "phone" \/ job'[u].kind = "init")
                       => Belongs(job'[u].got, gesture)
      <4>1. CASE u = t BY <1>1, <1>d, <4>1
      <4>2. CASE u # t BY <1>f, <3>2, <3>4, <4>2
      <4>3. QED BY <4>1, <4>2
    <3>5. QED BY <3>2, <3>3, <3>4
  <2>2. QED BY <1>a, <2>1 DEF In, Kept, Belongs
<1>9. QED BY <1>1, <1>2, <1>3, <1>4, <1>5, <1>6, <1>7, <1>8 DEF SessionInv

LEMMA SignInKeeps ==
    ASSUME SessionInv, NEW t \in Tasks, NEW a \in Accounts, NEW kind \in {"signIn", "signInByCode"},
           SignIn(t, a, kind), Remembers
    PROVE  SessionInv'
<1> USE DEF tokens, device
<1>0. /\ SessionTypeOK /\ TasksFit /\ StartsAlone /\ StoresFit /\ Forgotten /\ LeavingFits /\ Arriving
    BY DEF SessionInv
<1>a. /\ booted /\ job[t].at = "idle" /\ ~loading /\ user = None /\ gesture' = "start"
      /\ kind = "signInByCode" => app = "merchant"
      /\ \A u \in Running : ~SigningIn(u)
      /\ UNCHANGED <<app, access, refresh, copy, user, cached, loading, booted, renewal, dead, trouble>>
    BY DEF SignIn, Submitting
<1>c. PICK d : d = [Idle EXCEPT !.kind = kind, !.at = "post", !.account = a] OBVIOUS
<1>d. /\ d \in Job /\ d.kind = kind /\ d.at = "post" /\ d.account = a /\ d.got = None
      /\ ~d.again /\ ~d.cancelled
    BY <1>c DEF Idle, Job, Kinds, Places, Held
<1>e. job' = [job EXCEPT ![t] = d] BY <1>c DEF SignIn
<1>1. /\ SessionTypeOK' /\ TasksFit' /\ RenewalFits' /\ TokensFit' /\ RefusedBefore' /\ Uncrossed'
      /\ job'[t] = d /\ t \notin Running
      /\ Running' = Running \cup {t}
      /\ \A u \in Running : u \in Tasks /\ u # t /\ job'[u] = job[u]
  <2>1. booted' \in BOOLEAN /\ loading' \in BOOLEAN /\ gesture' \in {gesture, "start"}
      BY <1>0, <1>a DEF SessionTypeOK
  <2>2. PlaceFits(d) BY <1>a, <1>d DEF PlaceFits
  <2>3. d.kind # "init" /\ d.at # "send" BY <1>d
  <2>4. QED BY <1>a, <1>d, <1>e, <2>1, <2>2, <2>3, Begins
<1>f. \A u \in Running' : u = t \/ (u \in Running /\ job'[u] = job[u]) BY <1>1
<1>g. \A u \in Running' : job'[u].kind \in {"load", "init", "signOut"} => u \in Running /\ job'[u] = job[u]
    BY <1>1, <1>d, <1>f
<1>2. StartsAlone'
  <2>1. ASSUME NEW u \in Running', job'[u].kind = "init"
        PROVE  app = "merchant" /\ (~job'[u].cancelled => copy # None)
      BY <1>0, <1>a, <1>g, <2>1 DEF StartsAlone
  <2>2. QED BY <1>a, <2>1 DEF StartsAlone
<1>3. StoresFit' BY <1>0, <1>a DEF StoresFit, Dashboards
<1>4. Forgotten'
  <2>1. \A u \in Running' : job'[u].kind = "load" => u \in Running /\ job'[u] = job[u] BY <1>g
  <2>2. QED BY <1>0, <1>a, <2>1 DEF Forgotten, Remembers
<1>5. LeavingFits' BY <1>0, <1>a, <1>g DEF LeavingFits, Remembers
<1>6. Out' BY <1>a DEF Out
<1>7. Arriving'
  <2>1. ASSUME ~crossed', NEW u \in Running', job'[u].kind = "signIn"
        PROVE  u = t /\ job'[u].at = "post" /\ renewal'.at = "off"
               /\ \A v \in Running' : job'[v].kind = "init" => app = "merchant"
    <3>1. u = t /\ job'[u].at = "post" BY <1>1, <1>a, <1>d, <1>f, <2>1 DEF SigningIn
    <3>2. ~Crossing' BY <2>1 DEF Remembers
    <3>3. SigningIn(u)' BY <2>1 DEF SigningIn
    <3>4. renewal'.at = "off" BY <2>1, <3>1, <3>2, <3>3 DEF Crossing
    <3>5. \A v \in Running' : job'[v].kind = "init" => app' = "merchant"
        BY <2>1, <3>1, <3>2, <3>3 DEF Crossing
    <3>6. QED BY <1>a, <3>1, <3>4, <3>5
  <2>2. ~crossed' /\ ~trouble' /\ app = "merchant" => copy = None
    <3>1. SUFFICES ASSUME ~crossed', ~trouble', app = "merchant", copy # None PROVE FALSE OBVIOUS
    <3>2. \E u \in Running : job[u].kind = "signIn" BY <1>0, <1>a, <3>1 DEF Arriving, Remembers
    <3>3. QED BY <1>a, <3>2 DEF SigningIn
  <2>3. ASSUME ~crossed', ~trouble', NEW v \in Running', job'[v].kind = "init", app = "merchant"
        PROVE  job'[v].cancelled
    BY <1>0, <1>g, <2>2, <2>3 DEF StartsAlone
  <2>4. QED BY <1>a, <2>1, <2>2, <2>3 DEF Arriving
<1>8. In' BY <1>a, SessionAssumption DEF In
<1>9. QED BY <1>1, <1>2, <1>3, <1>4, <1>5, <1>6, <1>7, <1>8 DEF SessionInv

LEMMA ExpireKeeps ==
    ASSUME SessionInv, Expire, Remembers
    PROVE  SessionInv'
<1> USE DEF tokens, device
<1>0. /\ SessionTypeOK /\ TasksFit /\ RenewalFits /\ StartsAlone /\ StoresFit /\ TokensFit
      /\ RefusedBefore /\ Uncrossed /\ Forgotten /\ LeavingFits /\ Out /\ Arriving /\ In
    BY DEF SessionInv
<1>a. /\ access # None /\ dead' = dead \cup {access}
      /\ UNCHANGED <<app, access, refresh, copy, user, cached, loading, booted, job, renewal, gesture, trouble>>
    BY DEF Expire
<1>1. Running' = Running BY <1>a DEF Running
<1>2. SessionTypeOK' BY <1>0, <1>a DEF SessionTypeOK, Remembers, Held
<1>3. TasksFit' BY <1>0, <1>a, <1>1 DEF TasksFit, PlaceFits, SigningIn
<1>4. RenewalFits' BY <1>0, <1>a DEF RenewalFits, OwnRenewal
<1>5. StartsAlone' BY <1>0, <1>a, <1>1 DEF StartsAlone
<1>6. StoresFit' BY <1>0, <1>a, <1>1 DEF StoresFit, SigningIn, Dashboards
<1>7. TokensFit'
  <2>1. IsFiniteSet(dead') BY <1>0, <1>a, FS_AddElement DEF TokensFit
  <2>2. (Around \ {None})' \subseteq Around BY <1>a DEF Around
  <2>3. \A u \in Tasks : Spent(u) => Spent(u)' BY <1>a DEF Spent
  <2>4. QED BY <1>0, <2>1, <2>2, <2>3, TokensStay
<1>8. RefusedBefore'
  <2>1. \A u \in Tasks : (\E e \in dead : ~OwnRenewal(e, u)) => \E e \in dead' : ~OwnRenewal(e, u) BY <1>a
  <2>2. QED BY <1>0, <1>a, <1>1, <2>1 DEF RefusedBefore, OwnRenewal, Running
<1>9. Uncrossed' BY DEF Uncrossed, Remembers
<1>10. Forgotten' BY <1>0, <1>a, <1>1 DEF Forgotten, Remembers
<1>11. LeavingFits' BY <1>0, <1>a, <1>1 DEF LeavingFits, Remembers, SigningIn
<1>12. Out' BY <1>0, <1>a, <1>1 DEF Out, Remembers
<1>13. Arriving' BY <1>0, <1>a, <1>1 DEF Arriving, Remembers, Kept, Belongs
<1>14. In' BY <1>0, <1>a, <1>1 DEF In, Remembers, Kept, Belongs
<1>15. QED
    BY <1>2, <1>3, <1>4, <1>5, <1>6, <1>7, <1>8, <1>9, <1>10, <1>11, <1>12, <1>13, <1>14 DEF SessionInv

\* The sign-in has been answered; on the phone its tokens are still to be kept.
LEMMA ComesBack ==
    ASSUME SessionInv, NEW t \in Running, job[t].at = "post", NEW new \in Token,
           ~new.renewed, new.of = job[t].account, NEW l \in {"keepAccess", "sent"},
           job' = [job EXCEPT ![t].at = l, ![t].got = new],
           l = "keepAccess" <=> app = "phone",
           access' = IF app \in {"customer", "admin"} THEN new ELSE access,
           refresh' = IF app = "customer" THEN new ELSE refresh,
           app = "merchant" => job[t].kind = "signInByCode",
           UNCHANGED <<app, copy, user, cached, loading, booted, renewal, dead, gesture, trouble>>, Remembers
    PROVE  SessionInv'
<1>0. /\ SessionTypeOK /\ TasksFit /\ RenewalFits /\ StartsAlone /\ StoresFit /\ TokensFit
      /\ RefusedBefore /\ Uncrossed /\ Forgotten /\ LeavingFits /\ Out /\ Arriving /\ In
    BY DEF SessionInv
<1>a. t \in Tasks /\ booted /\ new # None BY RunningBooted, SessionAssumption DEF Running
<1>b. job[t] \in Job /\ PlaceFits(job[t]) BY <1>0, <1>a DEF SessionTypeOK, TasksFit
<1>c. /\ ~job[t].again /\ job[t].kind \in {"signIn", "signInByCode"} /\ SigningIn(t)
      /\ job[t].kind = "signInByCode" => app = "merchant"
      /\ app \in {"phone", "customer", "merchant", "admin"}
    BY <1>0, <1>b, SessionAssumption DEF PlaceFits, SigningIn, SessionTypeOK, Clients
<1>1. /\ job' \in [Tasks -> Job] /\ job'[t].at = l /\ Running' = Running
      /\ job'[t].kind = job[t].kind /\ job'[t].account = job[t].account
      /\ job'[t].got = new /\ (job'[t].again <=> job[t].again)
      /\ (job'[t].cancelled <=> job[t].cancelled)
      /\ \A u \in Tasks \ {t} : job'[u] = job[u]
  <2>1. PICK d : d = [job[t] EXCEPT !.at = l, !.got = new] OBVIOUS
  <2>2. /\ d \in Job /\ d.at = l /\ d.kind = job[t].kind /\ d.account = job[t].account
        /\ d.got = new /\ (d.again <=> job[t].again) /\ (d.cancelled <=> job[t].cancelled)
      BY <1>b, <2>1 DEF Job, Places, Held
  <2>3. job' = [job EXCEPT ![t] = d] BY <2>1
  <2>4. Running \cup {t} = Running OBVIOUS
  <2>5. QED BY <1>0, <1>a, <2>2, <2>3, <2>4, OneMoves
<1>d. \A u \in Running : /\ job'[u].kind = job[u].kind /\ (job'[u].cancelled <=> job[u].cancelled)
                         /\ (u # t => job'[u] = job[u])
    BY <1>1 DEF Running
<1>e. \A u \in Running : SigningIn(u) => u = t BY <1>0, <1>c DEF TasksFit
<1>f. ~crossed => gesture = "start" BY <1>0, <1>c DEF LeavingFits
<1>2. TasksFit'
  <2>1. ASSUME NEW u \in Tasks PROVE PlaceFits(job[u])'
    <3>1. PlaceFits(job[u]) BY <1>0 DEF TasksFit
    <3>2. CASE u = t BY <1>1, <1>b, <1>c, <3>2 DEF PlaceFits
    <3>3. CASE u # t BY <1>1, <3>1, <3>3 DEF PlaceFits
    <3>4. QED BY <3>2, <3>3
  <2>2. QED BY <1>0, <1>1, <1>d, <2>1 DEF TasksFit, SigningIn
<1>3. RenewalFits'
  <2>1. \A u \in Tasks : job'[u].at = "wait" <=> job[u].at = "wait" BY <1>1
  <2>2. QED BY <1>0, <2>1 DEF RenewalFits, OwnRenewal
<1>4. TokensFit'
  <2>1. (Around \ {None})' \subseteq Around \cup {new}
    <3>1. \A u \in Tasks : job'[u].got \in {job[u].got, new} BY <1>1
    <3>2. {access, refresh, copy, renewal.got}' \subseteq {access, refresh, copy, renewal.got, new} OBVIOUS
    <3>3. QED BY <3>1, <3>2 DEF Around
  <2>2. \A u \in Tasks : Spent(u) => Spent(u)' BY <1>1, <1>c DEF Spent
  <2>3. QED BY <1>0, <2>1, <2>2 DEF TokensFit
<1>5. RefusedBefore'
  <2>1. ASSUME NEW u \in Running', job'[u].kind = "init" \/ (app # "phone" /\ job'[u].kind # "load")
        PROVE  /\ job'[u].at \in {"wait", "renew"} \/ job'[u].again => \E e \in dead : ~OwnRenewal(e, u)
               /\ job'[u].at = "send" => access' # None /\ (job'[u].again => OwnRenewal(access', u))
               /\ job'[u].at = "sent" => job'[u].got # None /\ (job'[u].again => OwnRenewal(job'[u].got, u))
               /\ renewal.at = "keepRefresh" => access' # None /\ OwnRenewal(access', u)
    <3>1. CASE u = t
      <4>1. renewal.at = "off" BY <1>0, <1>1, <1>c, <2>1, <3>1 DEF RenewalFits
      <4>2. QED BY <1>1, <1>a, <1>c, <3>1, <4>1
    <3>2. CASE u # t
      <4>1. u \in Running /\ job'[u] = job[u] BY <1>1, <1>d, <3>2
      <4>2. job[u].at = "send" \/ renewal.at = "keepRefresh" => app = "phone"
          BY <1>0, <4>1 DEF TasksFit, PlaceFits, RenewalFits, Running
      <4>3. app = "phone" => access' = access OBVIOUS
      <4>4. QED BY <1>0, <2>1, <4>1, <4>2, <4>3 DEF RefusedBefore
    <3>3. QED BY <3>1, <3>2
  <2>2. QED BY <2>1 DEF RefusedBefore, OwnRenewal
<1>6. SessionTypeOK' BY <1>0, <1>1 DEF SessionTypeOK, Remembers, Held
<1>7. StartsAlone'
  <2>1. ASSUME NEW u \in Running', job'[u].kind = "init"
        PROVE  /\ app # "merchant" => loading
               /\ app = "merchant" /\ ~job'[u].cancelled => copy # None
               /\ app = "merchant" /\ loading => ~job'[u].cancelled
    <3>1. u \in Running /\ job[u].kind = "init" /\ (job'[u].cancelled <=> job[u].cancelled)
        BY <1>1, <1>d, <2>1
    <3>2. QED BY <1>0, <3>1 DEF StartsAlone
  <2>2. ~loading BY <1>0, <1>c DEF StartsAlone, SigningIn
  <2>3. QED BY <1>a, <2>1, <2>2 DEF StartsAlone
<1>8. StoresFit'
  <2>1. \A u \in Running' : SigningIn(u)' => u \in Running /\ SigningIn(u) BY <1>1, <1>d DEF SigningIn
  <2>2. QED BY <1>0, <2>1 DEF StoresFit, Dashboards
<1>9. Uncrossed' BY DEF Uncrossed, Remembers
<1>10. Forgotten'
  <2>1. \A u \in Running' : u \in Running BY <1>1
  <2>2. ASSUME app = "phone", ~crossed', user = None \/ \E u \in Running' : job'[u].kind = "signOut"
        PROVE  cached = None /\ \A u \in Running : job[u].kind = "load" => job[u].cancelled
      BY <1>0, <1>d, <2>1, <2>2 DEF Forgotten, Remembers
  <2>3. QED BY <1>d, <2>1, <2>2 DEF Forgotten
<1>11. LeavingFits'
  <2>1. ASSUME ~crossed', NEW u \in Running', job'[u].kind = "signOut"
        PROVE  u # t /\ app = "phone" /\ job'[u] = job[u] /\ u \in Running
    <3>1. u # t /\ u \in Running /\ job'[u] = job[u] BY <1>1, <1>c, <1>d, <2>1
    <3>2. PlaceFits(job[u]) /\ job[u].at \notin {"idle", "done"} BY <1>0, <3>1 DEF TasksFit, Running
    <3>3. QED BY <2>1, <3>1, <3>2 DEF PlaceFits
  <2>2. QED BY <1>0, <1>f, <2>1 DEF LeavingFits, Remembers
<1>12. Out' BY <1>f DEF Out, Remembers
<1>13. Arriving'
  <2>1. ASSUME ~crossed', ~trouble', NEW u \in Running', job'[u].kind = "signIn"
        PROVE  /\ u = t /\ job'[u].account = new.of /\ app # "merchant" /\ renewal.at = "off"
               /\ \A v \in Running' : job'[v].kind = "init" => job'[v].cancelled
    <3>1. ~crossed /\ ~trouble /\ u \in Running /\ job[u].kind = "signIn"
        BY <1>1, <1>d, <2>1 DEF Remembers
    <3>2. u = t BY <1>e, <3>1 DEF SigningIn
    <3>3. renewal.at = "off" BY <1>c, <3>1, Lone
    <3>4. \A v \in Running : job[v].kind = "init" => job[v].cancelled BY <1>0, <3>1, <3>2 DEF Arriving
    <3>5. job'[t].account = new.of /\ app # "merchant"
        BY <1>1, <1>c, <3>1, <3>2
    <3>6. \A v \in Running' : job'[v].kind = "init" => job'[v].cancelled BY <1>1, <1>d, <3>4
    <3>7. QED BY <3>2, <3>3, <3>5, <3>6
  <2>2. ASSUME ~crossed', ~trouble', NEW u \in Running', job'[u].kind = "signIn"
        PROVE  LET a == job'[u].account
               IN  /\ job'[u].at \in {"keepAccess", "sent"} /\ Belongs(job'[u].got, a)
                   /\ job'[u].at = "sent" => Kept(job[u].account)'
    <3>1. u = t /\ job'[u].account = new.of /\ app # "merchant" BY <2>1, <2>2
    <3>2. Belongs(new, new.of) BY <1>a DEF Belongs
    <3>3. l = "sent" => Belongs(access', new.of) /\ (app' # "admin" => Belongs(refresh', new.of))
        BY <1>c, <3>1, <3>2
    <3>4. QED BY <1>1, <3>1, <3>2, <3>3 DEF Kept, Belongs
  <2>3. ~crossed' /\ ~trouble' => ~(app = "merchant" /\ booted /\ ~loading /\ user = None /\ copy # None)
    <3>1. SUFFICES ASSUME ~crossed', ~trouble', app = "merchant", booted, ~loading, user = None, copy # None
                   PROVE  FALSE
        OBVIOUS
    <3>2. PICK u \in Running : job[u].kind = "signIn" BY <1>0, <3>1 DEF Arriving, Remembers
    <3>3. u = t BY <1>e, <3>2 DEF SigningIn
    <3>4. QED BY <3>1, <3>2, <3>3
  <2>4. QED BY <2>1, <2>2, <2>3 DEF Arriving, Kept, Belongs
<1>14. In' BY <1>f, SessionAssumption DEF In, Remembers
<1>15. QED
    BY <1>2, <1>3, <1>4, <1>5, <1>6, <1>7, <1>8, <1>9, <1>10, <1>11, <1>12, <1>13, <1>14 DEF SessionInv

\* The merchant's page: the store has changed, its effect asks once more.
LEMMA StaffComesBack ==
    ASSUME SessionInv, NEW t \in Running, job[t].at = "post", StaffSignIn(t),
           NEW new \in Token, new = Mine(t), ~new.renewed, new.of = job[t].account,
           UNCHANGED <<app, user, cached, loading, booted, renewal, dead, gesture, trouble>>, Remembers
    PROVE  SessionInv'
<1>0. /\ SessionTypeOK /\ TasksFit /\ RenewalFits /\ StartsAlone /\ StoresFit /\ TokensFit
      /\ RefusedBefore /\ Uncrossed /\ Forgotten /\ LeavingFits /\ Out /\ Arriving /\ In
    BY DEF SessionInv
<1>a. /\ t \in Tasks /\ booted /\ new # None /\ app = "merchant" /\ job[t].kind = "signIn"
      /\ access' = new /\ refresh' = new /\ copy' = new
    BY RunningBooted, SessionAssumption DEF Running, StaffSignIn
<1>b. job \in [Tasks -> Job] /\ job[t] \in Job /\ PlaceFits(job[t]) BY <1>0, <1>a DEF SessionTypeOK, TasksFit
<1>c. ~job[t].again /\ SigningIn(t) /\ ~loading /\ renewal.at = "off"
    BY <1>0, <1>a, <1>b DEF PlaceFits, SigningIn, StartsAlone, RenewalFits
<1>f. ~crossed => gesture = "start" BY <1>0, <1>c DEF LeavingFits
<1>e. \A v \in Running : SigningIn(v) => v = t BY <1>0, <1>c DEF TasksFit
<1> DEFINE jobs == AskingAsMine(t)
<1>g. PICK u \in Tasks :
         /\ job[u].at = "idle"
         /\ job' = [Effects(jobs) EXCEPT ![u] = [Asking("init") EXCEPT !.got = Mine(t)]]
    BY DEF StaffSignIn, StartOver
<1>h. jobs \in [Tasks -> Job] /\ jobs[t].at = "sent" /\ jobs[t].kind = job[t].kind
      /\ jobs[t].account = job[t].account /\ jobs[t].got = new /\ (jobs[t].again <=> job[t].again)
      /\ (jobs[t].cancelled <=> job[t].cancelled)
      /\ \A v \in Tasks \ {t} : jobs[v] = job[v]
  <2>1. PICK d : d = [job[t] EXCEPT !.at = "sent", !.got = new] OBVIOUS
  <2>2. /\ d \in Job /\ d.at = "sent" /\ d.kind = job[t].kind /\ d.account = job[t].account
        /\ d.got = new /\ (d.again <=> job[t].again) /\ (d.cancelled <=> job[t].cancelled)
      BY <1>b, <2>1 DEF Job, Places, Held
  <2>3. jobs = [job EXCEPT ![t] = d] BY <2>1 DEF AskingAsMine
  <2>4. jobs \in [Tasks -> Job] /\ jobs[t] = d /\ \A v \in Tasks \ {t} : jobs[v] = job[v]
      BY <1>a, <1>b, <2>2, <2>3
  <2>5. QED BY <2>2, <2>4
<1> HIDE DEF jobs
<1>i. PICK e : e = [Asking("init") EXCEPT !.got = new] OBVIOUS
<1>j. /\ e \in Job /\ e.kind = "init" /\ e.at = "sent" /\ e.got = new /\ ~e.again /\ ~e.cancelled
    BY <1>a, <1>i DEF Asking, Idle, Job, Kinds, Places, Held
<1>k. ASSUME NEW v \in Tasks
      PROVE  /\ Effects(jobs)[v] \in Job
             /\ Effects(jobs)[v].kind = jobs[v].kind /\ Effects(jobs)[v].at = jobs[v].at
             /\ Effects(jobs)[v].account = jobs[v].account /\ Effects(jobs)[v].got = jobs[v].got
             /\ (Effects(jobs)[v].again <=> jobs[v].again)
             /\ (Effects(jobs)[v].cancelled <=> jobs[v].cancelled \/ Cancelling(v))
  <2>1. jobs[v] \in Job BY <1>h
  <2>2. PICK c : c = [jobs[v] EXCEPT !.cancelled = TRUE] OBVIOUS
  <2>3. /\ c \in Job /\ c.kind = jobs[v].kind /\ c.account = jobs[v].account /\ c.at = jobs[v].at
        /\ c.got = jobs[v].got /\ c.again = jobs[v].again /\ c.cancelled
    BY <2>1, <2>2 DEF Job
  <2>4. Effects(jobs)[v] = IF Cancelling(v) THEN c ELSE jobs[v] BY <2>2 DEF Effects
  <2>5. CASE Cancelling(v) BY <2>3, <2>4, <2>5
  <2>6. CASE ~Cancelling(v) BY <2>1, <2>4, <2>6
  <2>7. QED BY <2>5, <2>6
<1>l. u # t /\ u \notin Running BY <1>g DEF Running
<1>m. /\ job' \in [Tasks -> Job] /\ job'[u] = e /\ \A v \in Tasks \ {u} : job'[v] = Effects(jobs)[v]
  <2>1. Effects(jobs) \in [Tasks -> Job] BY <1>k DEF Effects
  <2>2. job' = [Effects(jobs) EXCEPT ![u] = e] BY <1>g, <1>i
  <2>3. QED BY <1>j, <2>1, <2>2
<1>1. /\ job'[t].at = "sent" /\ job'[t].kind = "signIn" /\ job'[t].account = job[t].account
      /\ job'[t].got = new /\ ~job'[t].again /\ ~job'[t].cancelled
      /\ \A v \in Tasks \ {t, u} : Steady(v) /\ (job'[v].cancelled => job[v].cancelled \/ job[v].kind = "init")
  <2>1. ~Cancelling(t) BY <1>a DEF Cancelling
  <2>2. ~job[t].cancelled BY <1>a, <1>b DEF PlaceFits
  <2>3. Effects(jobs)[t] = job'[t] BY <1>m, <1>l, <1>a
  <2>4. /\ job'[t].at = "sent" /\ job'[t].kind = "signIn" /\ job'[t].account = job[t].account
        /\ job'[t].got = new /\ ~job'[t].again /\ ~job'[t].cancelled
      BY <1>a, <1>c, <1>h, <1>k, <2>1, <2>2, <2>3
  <2>5. ASSUME NEW v \in Tasks \ {t, u}
        PROVE  Steady(v) /\ (job'[v].cancelled => job[v].cancelled \/ job[v].kind = "init")
    <3>1. job'[v] = Effects(jobs)[v] /\ jobs[v] = job[v] BY <1>h, <1>m
    <3>2. Cancelling(v) => job[v].kind = "init" BY DEF Cancelling
    <3>3. QED BY <1>k, <3>1, <3>2 DEF Steady
  <2>6. QED BY <2>4, <2>5
<1>d. Running' = Running \cup {u}
  <2>1. job'[u].at = "sent" BY <1>j, <1>m
  <2>2. QED BY <1>1, <1>l, <1>a, <2>1 DEF Running, Steady
<1>n. \A v \in Running' : v = t \/ v = u \/ (v \in Running /\ v \in Tasks \ {t, u} /\ Steady(v))
    BY <1>1, <1>d, <1>l DEF Running
<1>2. TasksFit'
  <2>1. ASSUME NEW v \in Tasks PROVE PlaceFits(job[v])'
    <3>1. CASE v = t BY <1>1, <1>a, <1>b, <3>1 DEF PlaceFits
    <3>2. CASE v = u BY <1>j, <1>m, <1>a, <3>2 DEF PlaceFits
    <3>3. CASE v \notin {t, u}
      <4>1. PlaceFits(job[v]) BY <1>0 DEF TasksFit
      <4>2. Steady(v) /\ (job'[v].cancelled => job[v].cancelled \/ job[v].kind = "init") BY <1>1, <3>3
      <4>3. QED BY <1>a, <4>1, <4>2 DEF PlaceFits, Steady
    <3>4. QED BY <3>1, <3>2, <3>3
  <2>2. ASSUME NEW v \in Running', SigningIn(v)' PROVE v = t
    <3>1. v # u BY <1>j, <1>m, <2>2 DEF SigningIn
    <3>2. v # t => v \in Running /\ SigningIn(v) BY <1>n, <2>2, <3>1 DEF SigningIn, Steady
    <3>3. QED BY <1>e, <3>2
  <2>3. QED BY <2>1, <2>2 DEF TasksFit
<1>3. RenewalFits'
  <2>1. \A v \in Tasks : job'[v].at # "wait"
    <3>1. \A v \in Tasks : job[v].at # "wait" BY <1>0, <1>c DEF RenewalFits
    <3>2. QED BY <1>1, <1>j, <1>m, <3>1 DEF Steady
  <2>2. QED BY <1>0, <1>c, <2>1 DEF RenewalFits
<1>4. TokensFit'
  <2>1. (Around \ {None})' \subseteq Around \cup {new}
    <3>1. \A v \in Tasks : job'[v].got \in {job[v].got, new} BY <1>1, <1>j, <1>m DEF Steady
    <3>2. {access, refresh, copy, renewal.got}' \subseteq {renewal.got, new} BY <1>a
    <3>3. QED BY <3>1, <3>2 DEF Around
  <2>2. ASSUME NEW v \in Tasks, Spent(v) PROVE Spent(v)'
    <3>1. v # t BY <1>b, <1>c, <2>2 DEF Spent, Running
    <3>2. v # u
      <4>1. PlaceFits(job[u]) BY <1>0 DEF TasksFit
      <4>2. QED BY <1>c, <1>g, <2>2, <4>1 DEF Spent, PlaceFits
    <3>3. QED BY <1>1, <2>2, <3>1, <3>2, SpentStays
  <2>3. QED BY <1>0, <2>1, <2>2 DEF TokensFit
<1>5. RefusedBefore'
  <2>1. ASSUME NEW v \in Running', job'[v].kind # "load"
        PROVE  /\ job'[v].at \in {"wait", "renew"} \/ job'[v].again => \E d \in dead : ~OwnRenewal(d, v)
               /\ job'[v].at # "send"
               /\ job'[v].at = "sent" => job'[v].got # None /\ (job'[v].again => OwnRenewal(job'[v].got, v))
    <3>1. CASE v = t BY <1>1, <1>a, <3>1
    <3>2. CASE v = u BY <1>j, <1>m, <1>a, <3>2
    <3>3. CASE v \notin {t, u}
      <4>1. v \in Running /\ Steady(v) BY <1>n, <3>3
      <4>2. job[v].at # "send" BY <1>0, <1>a, <4>1 DEF TasksFit, PlaceFits, Running
      <4>3. QED BY <1>0, <1>a, <2>1, <4>1, <4>2 DEF RefusedBefore, Steady
    <3>4. QED BY <3>1, <3>2, <3>3
  <2>2. QED BY <1>a, <1>c, <2>1 DEF RefusedBefore, OwnRenewal
<1>6. SessionTypeOK' BY <1>0, <1>a, <1>m DEF SessionTypeOK, Remembers, Held
<1>7. StartsAlone' BY <1>a, <1>c DEF StartsAlone
<1>8. StoresFit' BY <1>a DEF StoresFit, Dashboards
<1>9. Uncrossed' BY DEF Uncrossed, Remembers
<1>10. Forgotten' BY <1>a DEF Forgotten
<1>11. LeavingFits'
  <2>1. ASSUME NEW v \in Running' PROVE job'[v].kind # "signOut"
    <3>1. PlaceFits(job[v])' BY <1>2, <1>d, <1>a DEF TasksFit, Running
    <3>2. QED BY <1>a, <3>1, <2>1 DEF PlaceFits, Running
  <2>2. QED BY <1>f, <2>1 DEF LeavingFits, Remembers
<1>12. Out' BY <1>f DEF Out, Remembers
<1>13. Arriving'
  <2>1. ASSUME ~crossed', ~trouble', NEW v \in Running', job'[v].kind = "signIn" PROVE v = t
    <3>1. v # u BY <1>j, <1>m, <2>1
    <3>2. v # t => v \in Running /\ SigningIn(v) BY <1>n, <2>1, <3>1 DEF SigningIn, Steady
    <3>3. QED BY <1>e, <3>2
  <2>2. ASSUME ~crossed', ~trouble', NEW v \in Running', job'[v].kind = "init", ~job'[v].cancelled
        PROVE  Belongs(job'[v].got, job[t].account)
    <3>1. v = u
      <4>1. SUFFICES ASSUME v # u PROVE FALSE OBVIOUS
      <4>2. v # t BY <1>1, <2>2
      <4>3. v \in Running /\ job[v].kind = "init" /\ ~job[v].cancelled BY <1>n, <2>2, <4>1, <4>2 DEF Steady
      <4>4. ~crossed /\ ~trouble BY <2>2 DEF Remembers
      <4>5. QED BY <1>0, <1>a, <4>3, <4>4 DEF Arriving
    <3>2. QED BY <1>a, <1>j, <1>m, <3>1 DEF Belongs
  <2>3. Belongs(new, job[t].account) /\ Kept(job[t].account)'
    <3>1. Belongs(new, new.of) BY <1>a DEF Belongs
    <3>2. QED BY <1>1, <1>a, <3>1 DEF Kept, Belongs
  <2>4. ASSUME ~crossed', ~trouble', NEW v \in Running', job'[v].kind = "signIn"
        PROVE  LET a == job'[v].account
               IN  /\ job'[v].at = "sent" /\ Belongs(job'[v].got, a) /\ Kept(job[v].account)'
                   /\ \A w \in Running' : job'[w].kind = "init" /\ ~job'[w].cancelled => Belongs(job'[w].got, a)
    <3>1. v = t BY <2>1, <2>4
    <3>2. QED BY <1>1, <2>2, <2>3, <2>4, <3>1
  <2>5. t \in Running' BY <1>d
  <2>6. QED BY <1>1, <1>c, <2>4, <2>5 DEF Arriving, Kept, Belongs
<1>14. In' BY <1>f, SessionAssumption DEF In, Remembers
<1>15. QED
    BY <1>2, <1>3, <1>4, <1>5, <1>6, <1>7, <1>8, <1>9, <1>10, <1>11, <1>12, <1>13, <1>14 DEF SessionInv

LEMMA SignInAnsweredKeeps ==
    ASSUME SessionInv, NEW t \in Tasks, SignInAnswered(t), Remembers
    PROVE  SessionInv'
<1>1. /\ t \in Running /\ job[t].at = "post" /\ PlaceFits(job[t])
      /\ UNCHANGED <<app, user, cached, loading, booted, renewal, dead, gesture, trouble>>
    BY DEF SignInAnswered, Running, SessionInv, TasksFit
<1>2. job[t].kind \in {"signIn", "signInByCode"} /\ job[t].account \in Accounts BY <1>1 DEF PlaceFits
<1>3. PICK new : new = Mine(t) OBVIOUS
<1>4. new \in Token /\ ~new.renewed /\ new.of = job[t].account BY <1>2, <1>3 DEF Mine, Token
<1>5. CASE PhoneSignIn(t)
  <2>1. /\ app = "phone" /\ job' = [job EXCEPT ![t].at = "keepAccess", ![t].got = new]
        /\ UNCHANGED <<access, refresh, copy>>
      BY <1>3, <1>5 DEF PhoneSignIn
  <2>2. QED BY <1>1, <1>4, <2>1, ComesBack
<1>6. CASE CustomerSignIn(t)
  <2>1. /\ app = "customer" /\ job' = [job EXCEPT ![t].at = "sent", ![t].got = new]
        /\ access' = new /\ refresh' = new /\ UNCHANGED copy
      BY <1>3, <1>6 DEF CustomerSignIn, AskingAsMine
  <2>2. QED BY <1>1, <1>4, <2>1, ComesBack
<1>7. CASE AdminSignIn(t)
  <2>1. /\ app = "admin" /\ job' = [job EXCEPT ![t].at = "sent", ![t].got = new]
        /\ access' = new /\ UNCHANGED <<refresh, copy>>
      BY <1>3, <1>7 DEF AdminSignIn, AskingAsMine
  <2>2. QED BY <1>1, <1>4, <2>1, ComesBack
<1>8. CASE CodeSignIn(t)
  <2>1. /\ app = "merchant" /\ job' = [job EXCEPT ![t].at = "sent", ![t].got = new]
        /\ UNCHANGED <<access, refresh, copy>> /\ job[t].kind = "signInByCode"
      BY <1>3, <1>8 DEF CodeSignIn, AskingAsMine
  <2>2. QED BY <1>1, <1>4, <2>1, ComesBack
<1>9. CASE StaffSignIn(t) BY <1>1, <1>3, <1>4, <1>9, StaffComesBack
<1>10. QED BY <1>5, <1>6, <1>7, <1>8, <1>9 DEF SignInAnswered

LEMMA Memory ==
    ASSUME SessionInv, SessionNext
    PROVE  Remembers
<1>0. crossed \in BOOLEAN /\ contested \in BOOLEAN /\ trouble \in BOOLEAN BY DEF SessionInv, SessionTypeOK
<1>1. crossed' \in BOOLEAN /\ (crossed => crossed') /\ (crossed' \/ ~Crossing') /\ contested' \in BOOLEAN
    BY <1>0 DEF SessionNext
<1>2. trouble' \in BOOLEAN /\ (trouble => trouble')
  <2> USE <1>0
  <2>1. ASSUME NEW t \in Tasks, Request(t) PROVE trouble' = trouble
      BY <2>1 DEF Request, Boot, CheckAuth, Load, Attach
  <2>2. ASSUME NEW t \in Tasks, Answer(t) PROVE trouble' \in BOOLEAN /\ (trouble => trouble')
    <3>1. CASE Answered(t) BY <3>1 DEF Answered
    <3>2. CASE Refused(t) BY <3>2 DEF Refused
    <3>3. CASE Lost(t) BY <3>3 DEF Lost
    <3>4. QED BY <2>2, <3>1, <3>2, <3>3 DEF Answer
  <2>3. ASSUME NEW t \in Tasks, SignInStep(t) PROVE trouble' \in BOOLEAN /\ (trouble => trouble')
      BY <2>3 DEF SignInStep, SignIn, SignInAnswered, SignInFails, KeepTokens
  <2>4. ASSUME NEW t \in Tasks, DropTokens(t) PROVE trouble' = trouble BY <2>4 DEF DropTokens
  <2>5. ASSUME Renewal PROVE trouble' \in BOOLEAN /\ (trouble => trouble')
      BY <2>5 DEF Renewal, RenewalReads, RenewalAnswered, RenewalFails, RenewalKeeps,
                  WebRenew, WebRenewFails, ClearTokens
  <2>6. ASSUME World PROVE trouble' = trouble BY <2>6 DEF World, LoadAgain, Expire
  <2>7. ASSUME NEW t \in Tasks, SignOut(t) PROVE trouble' = trouble BY <2>7 DEF SignOut
  <2>8. QED BY <2>1, <2>2, <2>3, <2>4, <2>5, <2>6, <2>7 DEF SessionNext
<1>3. QED BY <1>1, <1>2 DEF Remembers

LEMMA SessionSteps ==
    ASSUME SessionInv, SessionNext
    PROVE  SessionInv'
<1>1. Remembers BY Memory
<1>2. ASSUME NEW t \in Tasks, Request(t) PROVE SessionInv'
    BY <1>1, <1>2, BootKeeps, CheckAuthKeeps, LoadKeeps, AttachKeeps DEF Request
<1>3. ASSUME NEW t \in Tasks, Answer(t) PROVE SessionInv'
    BY <1>1, <1>3, AnsweredKeeps, RefusedKeeps, LostKeeps DEF Answer
<1>4. ASSUME NEW t \in Tasks, SignInStep(t) PROVE SessionInv'
  <2>1. CASE \E a \in Accounts, kind \in {"signIn", "signInByCode"} : SignIn(t, a, kind)
      BY <1>1, <2>1, SignInKeeps
  <2>2. CASE SignInAnswered(t) BY <1>1, <2>2, SignInAnsweredKeeps
  <2>3. CASE SignInFails(t) BY <1>1, <2>3, SignInFailsKeeps
  <2>4. CASE KeepTokens(t) BY <1>1, <2>4, KeepTokensKeeps
  <2>5. QED BY <1>4, <2>1, <2>2, <2>3, <2>4 DEF SignInStep
<1>5. ASSUME NEW t \in Tasks, DropTokens(t) PROVE SessionInv' BY <1>1, <1>5, DropTokensKeeps
<1>6. CASE Renewal
  <2>1. ASSUME NEW t \in Tasks, WebRenew(t) \/ WebRenewFails(t) \/ ClearTokens(t) PROVE SessionInv'
      BY <1>1, <2>1, WebRenewKeeps, WebRenewFailsKeeps, ClearTokensKeeps
  <2>2. CASE RenewalReads \/ RenewalAnswered \/ RenewalFails \/ RenewalKeeps
      BY <1>1, <2>2, RenewalReadsKeeps, RenewalAnsweredKeeps, RenewalFailsKeeps, RenewalKeepsKeeps
  <2>3. QED BY <1>6, <2>1, <2>2 DEF Renewal
<1>7. CASE World BY <1>1, <1>7, LoadAgainKeeps, ExpireKeeps DEF World
<1>8. ASSUME NEW t \in Tasks, SignOut(t), crossed' = (crossed \/ Writing \/ Crossing') PROVE SessionInv'
    BY <1>1, <1>8, WebSignOutKeeps, PhoneSignOutKeeps
<1>9. QED BY <1>2, <1>3, <1>4, <1>5, <1>6, <1>7, <1>8 DEF SessionNext

LEMMA SessionStutters ==
    ASSUME SessionInv, UNCHANGED sessionVars
    PROVE  SessionInv'
<1> USE DEF sessionVars, device, tokens, history
<1>0. /\ SessionTypeOK /\ TasksFit /\ RenewalFits /\ StartsAlone /\ StoresFit /\ TokensFit
      /\ RefusedBefore /\ Uncrossed /\ Forgotten /\ LeavingFits /\ Out /\ Arriving /\ In
    BY DEF SessionInv
<1>1. Running' = Running BY DEF Running
<1>2. SessionTypeOK' BY <1>0 DEF SessionTypeOK
<1>3. TasksFit' BY <1>0, <1>1 DEF TasksFit, PlaceFits, SigningIn
<1>4. RenewalFits' BY <1>0 DEF RenewalFits, OwnRenewal
<1>5. StartsAlone' /\ StoresFit' BY <1>0, <1>1 DEF StartsAlone, StoresFit, SigningIn
<1>6. TokensFit' BY <1>0 DEF TokensFit, Around, Spent
<1>7. RefusedBefore' BY <1>0, <1>1 DEF RefusedBefore, OwnRenewal
<1>8. Uncrossed' BY <1>0, <1>1 DEF Uncrossed, Crossing, SigningIn
<1>9. Forgotten' /\ LeavingFits' BY <1>0, <1>1 DEF Forgotten, LeavingFits, SigningIn
<1>10. Out' BY <1>0, <1>1 DEF Out
<1>11. Arriving' BY <1>0, <1>1 DEF Arriving, Kept, Belongs
<1>12. In' BY <1>0, <1>1 DEF In, Kept, Belongs
<1>13. QED BY <1>2, <1>3, <1>4, <1>5, <1>6, <1>7, <1>8, <1>9, <1>10, <1>11, <1>12 DEF SessionInv

LEMMA SessionStarts ==
    ASSUME SessionInit
    PROVE  SessionInv
<1> USE DEF SessionInit
<1>1. Running = {} BY DEF Running, Idle
<1>2. PICK d : d = Idle OBVIOUS
<1>3. d \in Job /\ d.at = "idle" /\ d.kind = "load" /\ d.got = None /\ ~d.again /\ ~d.cancelled
    BY <1>2 DEF Idle, Job, Kinds, Places, Held
<1>4. job \in [Tasks -> Job] /\ \A t \in Tasks : job[t] = d BY <1>2, <1>3
<1>5. access \in Held /\ refresh \in {access, None} /\ copy \in {access, None}
      /\ (access # None => ~access.renewed)
  <2>1. CASE access = None BY <2>1 DEF Held
  <2>2. CASE access # None
    <3>1. PICK a \in Accounts : access = [by |-> None, renewed |-> FALSE, of |-> a] BY <2>2
    <3>2. access \in Token BY <3>1 DEF Token
    <3>3. ~access.renewed BY <3>1
    <3>4. QED BY <2>2, <3>2, <3>3 DEF Held
  <2>3. QED BY <2>1, <2>2
<1>6. SessionTypeOK BY <1>4, <1>5 DEF SessionTypeOK, Held
<1>7. TasksFit
  <2>1. PlaceFits(d) BY <1>3 DEF PlaceFits
  <2>2. QED BY <1>1, <1>4, <2>1 DEF TasksFit
<1>8. RenewalFits
  <2>1. renewal.at = "off" /\ renewal \in [at: {"off", "read", "post", "keepAccess", "keepRefresh"},
                                            by: Tasks \cup {None}, got: Held]
      BY DEF Held
  <2>2. \A t \in Tasks : job[t].at # "wait" BY <1>3, <1>4
  <2>3. QED BY <2>1, <2>2 DEF RenewalFits
<1>9. StartsAlone BY <1>1 DEF StartsAlone, Dashboards
<1>10. StoresFit BY <1>1 DEF StoresFit, Dashboards
<1>11. TokensFit
  <2>1. IsFiniteSet(dead) BY FS_EmptySet
  <2>2. Around \ {None} \subseteq {access}
    <3>1. renewal.got = None OBVIOUS
    <3>2. \A t \in Tasks : job[t].got = None BY <1>3, <1>4
    <3>3. QED BY <1>5, <3>1, <3>2 DEF Around
  <2>3. QED BY <1>5, <2>1, <2>2 DEF TokensFit
<1>12. RefusedBefore /\ LeavingFits BY <1>1 DEF RefusedBefore, LeavingFits
<1>13. Uncrossed BY <1>1 DEF Uncrossed, Crossing
<1>14. Forgotten BY <1>1 DEF Forgotten
<1>15. Out BY DEF Out
<1>16. Arriving BY <1>1 DEF Arriving
<1>17. In BY SessionAssumption DEF In
<1>18. QED
    BY <1>6, <1>7, <1>8, <1>9, <1>10, <1>11, <1>12, <1>13, <1>14, <1>15, <1>16, <1>17 DEF SessionInv

-----------------------------------------------------------------------------
(* Nobody is shown after a sign-out: an invariant that also holds where the *)
(* sign-out crossed a renewal or could not delete the tokens.               *)

Nobody ==
    gesture \in {"out", "kept"} /\ ~contested =>
        /\ user = None /\ (loading => access = None)
        /\ \A t \in Running : /\ ~SigningIn(t)
                              /\ job[t].kind = "init" => job[t].cancelled \/ job[t].at = "check"
Away == gesture \in {"out", "kept"} /\ ~contested

\* A step that starts and shows nothing.
LEMMA StillNobody ==
    ASSUME Nobody, gesture' = gesture, contested => contested',
           Away => /\ user' \in {user, None} /\ (loading' => access' = None)
                   /\ \A u \in Running' :
                         \/ job'[u].kind \in {"load", "signOut"}
                         \/ job'[u].kind = "init" /\ (job'[u].cancelled \/ job'[u].at = "check")
                         \/ u \in Running /\ Steady(u)
    PROVE  Nobody'
<1>1. ASSUME gesture' \in {"out", "kept"}, ~contested'
      PROVE  /\ user' = None /\ (loading' => access' = None)
             /\ \A u \in Running' : /\ ~SigningIn(u)'
                                    /\ job'[u].kind = "init" => job'[u].cancelled \/ job'[u].at = "check"
    BY <1>1 DEF Nobody, Away, SigningIn, Steady
<1>2. QED BY <1>1 DEF Nobody

\* Where the last sign-out holds, only pages' requests are still to be answered,
\* and on the merchant's dashboard a start-up question that was cancelled.
LEMMA OnlyLoads ==
    ASSUME SessionInv, Nobody, Away, NEW t \in Tasks, job[t].at \notin {"idle", "done", "check"}
    PROVE  /\ t \in Running /\ job[t].at \notin {"post", "keepAccess", "keepRefresh"}
           /\ job[t].kind \in {"load", "signOut"}
              \/ (job[t].kind = "init" /\ job[t].cancelled /\ app = "merchant" /\ ~loading)
           /\ job[t].kind = "signOut" => job[t].at \in {"dropAccess", "dropRefresh"}
<1>1. t \in Running /\ job[t] \in Job /\ PlaceFits(job[t]) BY DEF Running, SessionInv, SessionTypeOK, TasksFit
<1>2. ~SigningIn(t) /\ (job[t].kind = "init" => job[t].cancelled) BY <1>1 DEF Nobody, Away
<1>3. job[t].kind \in {"load", "signOut", "init"} BY <1>1, <1>2 DEF Job, Kinds, SigningIn
<1>4. job[t].kind = "init" => app = "merchant" BY <1>1, <1>2 DEF PlaceFits
<1>5. job[t].kind = "init" => ~loading BY <1>1, <1>2, <1>4 DEF SessionInv, StartsAlone
<1>6. QED BY <1>1, <1>2, <1>3, <1>4, <1>5 DEF PlaceFits

\* Who signs out, or is turned away, with nobody beside who comes in.
LEMMA TurnedOut ==
    ASSUME SessionInv, NEW t \in Tasks, End(t), user' = None, loading' = FALSE, app' = app,
           app = "merchant" => copy' = None,
           \A u \in Running \ {t} : ~SigningIn(u) /\ (job[u].kind = "init" => app = "merchant")
    PROVE  Nobody'
<1>1. /\ Running' = Running \ {t}
      /\ \A u \in Tasks \ {t} : Steady(u) /\ (Cancelling(u) => job'[u].cancelled)
    BY Ends DEF SessionInv
<1>2. ASSUME NEW u \in Running'
      PROVE  ~SigningIn(u)' /\ (job'[u].kind = "init" => job'[u].cancelled)
  <2>1. u \in Running \ {t} /\ u \in Tasks \ {t} BY <1>1, <1>2 DEF Running
  <2>2. ~SigningIn(u)' BY <1>1, <2>1 DEF Steady, SigningIn
  <2>3. ASSUME job[u].kind = "init" PROVE job'[u].cancelled
    <3>1. app = "merchant" /\ copy' = None BY <2>1, <2>3
    <3>2. CASE job[u].cancelled BY <1>1, <2>1, <3>2 DEF Steady
    <3>3. CASE ~job[u].cancelled
      <4>1. copy # None BY <2>1, <2>3, <3>1, <3>3 DEF SessionInv, StartsAlone
      <4>2. Cancelling(u) BY <2>1, <2>3, <3>1, <4>1 DEF Cancelling, Running
      <4>3. QED BY <1>1, <2>1, <4>2
    <3>4. QED BY <3>2, <3>3
  <2>4. QED BY <1>1, <2>1, <2>2, <2>3 DEF Steady
<1>3. QED BY <1>2 DEF Nobody

\* Beside a sign-in there is no other, and no start-up question but the merchant's.
LEMMA LoneArrival ==
    ASSUME SessionInv, NEW t \in Running, SigningIn(t)
    PROVE  /\ \A u \in Running \ {t} : ~SigningIn(u) /\ (job[u].kind = "init" => app = "merchant")
           /\ app # "merchant" => user = None
<1>1. \A u \in Running : SigningIn(u) => u = t BY DEF SessionInv, TasksFit
<1>2. ASSUME NEW u \in Running, job[u].kind = "init", app # "merchant" PROVE FALSE
  <2>1. loading BY <1>2 DEF SessionInv, StartsAlone
  <2>2. job[t].kind = "init" BY <2>1 DEF SessionInv, StartsAlone
  <2>3. QED BY <2>2 DEF SigningIn
<1>3. QED BY <1>1, <1>2 DEF SessionInv, StoresFit

\* A task's last step, that turns nobody away.
LEMMA EndNobody ==
    ASSUME SessionInv, Nobody, NEW t \in Tasks, End(t), gesture' = gesture, contested => contested',
           Away => user' \in {user, None} /\ (loading' => access' = None)
    PROVE  Nobody'
<1>1. Running' = Running \ {t} /\ \A u \in Tasks \ {t} : Steady(u) BY Ends DEF SessionInv
<1>2. \A u \in Running' : u \in Running /\ Steady(u) BY <1>1 DEF Running
<1>3. QED BY <1>2, StillNobody

\* A task that goes on.
LEMMA GoNobody ==
    ASSUME SessionInv, Nobody, NEW t \in Tasks, NEW l \in Places, Goto(t, l),
           gesture' = gesture, contested => contested',
           Away => /\ user' \in {user, None} /\ (loading' => access' = None)
                   /\ l = "done" \/ job[t].kind \in {"load", "signOut"}
    PROVE  Nobody'
<1>1. /\ job'[t].kind = job[t].kind /\ \A u \in Tasks \ {t} : Steady(u)
      /\ Running' = IF l \in {"idle", "done"} THEN Running \ {t} ELSE Running \cup {t}
    BY Goes DEF SessionInv
<1>2. Away => \A u \in Running' : \/ job'[u].kind \in {"load", "signOut"}
                                  \/ u \in Running /\ Steady(u)
    BY <1>1 DEF Running
<1>3. QED BY <1>2, StillNobody

\* A page that was left asks its start-up question again, without a token.
LEMMA LeaveNobody ==
    ASSUME SessionInv, Nobody, LeavePage, contested => contested',
           gesture' \in {gesture, "start"}, gesture' = gesture => access' = None \/ ~Away
    PROVE  Nobody'
<1>1. Running' = {} /\ user' = None
  <2>1. \A u \in Tasks : job'[u].at \in {"idle", "done"}
    <3>1. ASSUME NEW u \in Tasks PROVE job'[u].at \in {"idle", "done"}
      <4>1. CASE u \in Running
        <5>1. job'[u] = [job[u] EXCEPT !.at = "done"] BY <4>1 DEF LeavePage
        <5>2. job[u] \in Job BY DEF SessionInv, SessionTypeOK
        <5>3. QED BY <5>1, <5>2 DEF Job
      <4>2. CASE u \notin Running BY <4>2 DEF LeavePage, Running
      <4>3. QED BY <4>1, <4>2
    <3>2. QED BY <3>1
  <2>2. QED BY <2>1 DEF Running, LeavePage
<1>2. QED BY <1>1 DEF Nobody, Away

LEMMA RequestNobody ==
    ASSUME SessionInv, Nobody, NEW t \in Tasks, Request(t), contested' \in BOOLEAN, contested => contested'
    PROVE  Nobody'
<1> USE DEF tokens, device
<1>0. SessionTypeOK /\ TasksFit /\ StartsAlone /\ job[t] \in Job /\ PlaceFits(job[t])
    BY DEF SessionInv, SessionTypeOK, TasksFit
<1>1. CASE Boot(t)
  <2>1. /\ ~booted /\ loading /\ Running = {} BY <1>0, <1>1 DEF Boot, StartsAlone
  <2>2. gesture' = gesture /\ user' = user /\ access' = access BY <1>1 DEF Boot
  <2>3. Away => access = None BY <2>1 DEF Nobody, Away
  <2>4. CASE app = "phone"
    <3>1. PICK d : d = [Idle EXCEPT !.kind = "init", !.at = "check"] OBVIOUS
    <3>2. d \in Job /\ d.at = "check" /\ d.kind = "init" BY <3>1 DEF Idle, Job, Kinds, Places, Held
    <3>3. job' = [job EXCEPT ![t] = d] BY <1>1, <2>4, <3>1 DEF Boot
    <3>4. d \in Job /\ SessionTypeOK BY <1>0, <3>2
    <3>5. /\ job'[t] = d
          /\ Running' = IF d.at \in {"idle", "done"} THEN Running \ {t} ELSE Running \cup {t}
        BY <3>3, <3>4, OneMoves
    <3>6. \A u \in Running' : u = t BY <2>1, <3>2, <3>5
    <3>7. QED BY <2>2, <2>3, <3>2, <3>5, <3>6, StillNobody
  <2>5. CASE app # "phone" /\ access = None
    <3>1. Goto(t, "done") /\ loading' = FALSE BY <1>1, <2>5 DEF Boot, Goto
    <3>2. "done" \in Places BY DEF Places
    <3>3. QED BY <2>2, <3>1, <3>2, GoNobody
  <2>6. CASE app # "phone" /\ access # None BY <2>2, <2>3, <2>6 DEF Nobody, Away
  <2>7. QED BY <2>4, <2>5, <2>6
<1>2. CASE CheckAuth(t)
  <2>1. /\ job[t].at = "check" /\ gesture' = gesture /\ access' = access BY <1>2 DEF CheckAuth
  <2>2. t \in Running /\ app = "phone" BY <1>0, <2>1 DEF Running, PlaceFits
  <2>3. Away => access = None
    <3>1. SUFFICES ASSUME Away PROVE access = None OBVIOUS
    <3>2. ~SigningIn(t) BY <2>2, <3>1 DEF Nobody, Away
    <3>3. job[t].kind = "init" BY <1>0, <2>1, <3>2 DEF PlaceFits, SigningIn, Job, Kinds
    <3>4. loading BY <1>0, <2>2, <3>3 DEF StartsAlone
    <3>5. QED BY <3>1, <3>4 DEF Nobody, Away
  <2>4. CASE access = None
    <3>1. Goto(t, "done") /\ user' = None /\ loading' = FALSE BY <1>2, <2>4 DEF CheckAuth
    <3>2. "done" \in Places BY DEF Places
    <3>3. QED BY <2>1, <3>1, <3>2, GoNobody
  <2>5. CASE access # None BY <2>1, <2>3, <2>5 DEF Nobody, Away
  <2>6. QED BY <2>4, <2>5
<1>3. CASE Load(t)
  <2>1. PICK d : d = Asking("load") OBVIOUS
  <2>2. d \in Job /\ d.kind = "load"
      BY <1>0, <2>1 DEF Asking, Idle, Job, Kinds, Places, Held, SessionTypeOK
  <2>3. job' = [job EXCEPT ![t] = d] BY <1>3, <2>1 DEF Load
  <2>4. /\ job'[t] = d /\ \A u \in Tasks \ {t} : Steady(u)
        /\ Running' \subseteq Running \cup {t}
    <3>1. d \in Job /\ SessionTypeOK BY <1>0, <2>2
    <3>2. /\ job'[t] = d /\ \A u \in Tasks \ {t} : job'[u] = job[u] /\ Steady(u)
          /\ Running' = IF d.at \in {"idle", "done"} THEN Running \ {t} ELSE Running \cup {t}
        BY <2>3, <3>1, OneMoves
    <3>3. QED BY <3>2
  <2>5. \A u \in Running' : job'[u].kind = "load" \/ (u \in Running /\ Steady(u)) BY <2>2, <2>4 DEF Running
  <2>6. gesture' = gesture /\ user' = user /\ loading' = loading /\ access' = access BY <1>3 DEF Load
  <2>7. Away => (loading' => access' = None) BY <2>6 DEF Nobody, Away
  <2>8. QED BY <2>5, <2>6, <2>7, StillNobody
<1>4. CASE Attach(t)
  <2>1. PICK d : d = [job[t] EXCEPT !.at = "sent", !.got = IF access = None THEN @ ELSE access] OBVIOUS
  <2>2. d \in Job /\ d.kind = job[t].kind
      BY <1>0, <2>1 DEF Job, Places, SessionTypeOK
  <2>3. /\ job' = [job EXCEPT ![t] = d] /\ job[t].at = "send"
        /\ gesture' = gesture /\ user' = user /\ loading' = loading /\ access' = access
      BY <1>4, <2>1 DEF Attach
  <2>4. /\ job'[t] = d /\ \A u \in Tasks \ {t} : Steady(u)
        /\ Running' \subseteq Running \cup {t}
      BY <1>0, <2>2, <2>3, OneMoves
  <2>5. Away => job[t].kind \in {"load", "signOut"}
    <3>1. app = "phone" BY <1>0, <2>3 DEF PlaceFits
    <3>2. QED BY <2>3, <3>1, OnlyLoads
  <2>6. Away => \A u \in Running' : job'[u].kind \in {"load", "signOut"} \/ (u \in Running /\ Steady(u))
      BY <2>2, <2>4, <2>5 DEF Running
  <2>7. Away => (loading' => access' = None) BY <2>3 DEF Nobody, Away
  <2>8. QED BY <2>3, <2>6, <2>7, StillNobody
<1>5. QED BY <1>1, <1>2, <1>3, <1>4 DEF Request

LEMMA GiveUpNobody ==
    ASSUME SessionInv, Nobody, NEW t \in Tasks, job[t].at = "sent", NEW refused \in BOOLEAN,
           GiveUp(t, refused), app' = app, contested => contested'
    PROVE  Nobody'
<1> USE DEF tokens, device
<1>0. t \in Running /\ job[t] \in Job /\ PlaceFits(job[t])
    BY DEF SessionInv, SessionTypeOK, TasksFit, Running
<1>1. CASE job[t].kind = "signInByCode" /\ app = "merchant" /\ Cleared /\ End(t) /\ loading' = loading
  <2>1. SigningIn(t) BY <1>1 DEF SigningIn
  <2>2. ~loading BY <1>0, <1>1 DEF SessionInv, StartsAlone
  <2>3. loading' = FALSE BY <1>1, <2>2 DEF SessionInv, SessionTypeOK
  <2>4. QED BY <1>0, <1>1, <2>1, <2>3, LoneArrival, TurnedOut DEF Cleared
<1>2. CASE job[t].kind # "load" /\ app = "phone"
  <2>1. Goto(t, "dropAccess") /\ gesture' = gesture
      BY <1>2 DEF GiveUp
  <2>2. ~Away BY <1>2, OnlyLoads
  <2>3. QED BY <2>1, <2>2 DEF Nobody, Away
<1>3. CASE /\ End(t) /\ gesture' = gesture /\ user' \in {user, None}
           /\ loading' = FALSE \/ (loading' = loading /\ access' = access)
  <2>1. Away => user' \in {user, None} /\ (loading' => access' = None) BY <1>3 DEF Nobody, Away
  <2>2. QED BY <1>3, <2>1, EndNobody
<1>4. QED BY <1>1, <1>2, <1>3 DEF GiveUp, Cleared

LEMMA AnswerNobody ==
    ASSUME SessionInv, Nobody, NEW t \in Tasks, Answer(t), contested' \in BOOLEAN, contested => contested'
    PROVE  Nobody'
<1> USE DEF tokens, device
<1>0. /\ t \in Running /\ job[t] \in Job /\ PlaceFits(job[t]) /\ job[t].at = "sent" /\ app' = app
      /\ refresh \in Held
    BY DEF SessionInv, SessionTypeOK, TasksFit, Running, Answer, Answered, Refused, Lost
<1>1. CASE Answered(t)
  <2>1. CASE job[t].kind = "load" \/ job[t].cancelled
    <3>1. End(t) /\ gesture' = gesture /\ user' = user /\ loading' = loading /\ access' = access
        BY <1>1, <2>1 DEF Answered
    <3>2. Away => (loading' => access' = None) BY <3>1 DEF Nobody, Away
    <3>3. QED BY <3>1, <3>2, EndNobody
  <2>2. CASE ~(job[t].kind = "load" \/ job[t].cancelled)
    <3>1. Welcome(t) BY <1>1, <2>2 DEF Answered
    <3>2. ~Away BY <1>0, <2>2, OnlyLoads
    <3>3. CASE gesture' = gesture BY <3>2, <3>3 DEF Nobody, Away
    <3>4. CASE SigningIn(t) /\ gesture' = job[t].got.of
      <4>1. job[t].got \in Token BY <1>0, <1>1 DEF Answered, Job, Held
      <4>2. gesture' \notin {"out", "kept"} BY <3>4, <4>1, SessionAssumption DEF Token
      <4>3. QED BY <4>2 DEF Nobody
    <3>5. CASE gesture' = "out" /\ gesture' # gesture /\ ~(SigningIn(t) /\ gesture' = job[t].got.of)
      <4>1. End(t) /\ loading' = FALSE BY <3>1 DEF Welcome
      <4>2. job[t].kind = "signInByCode" \/ (~FitsIn(job[t].got.of) /\ (app = "admin" \/ SigningIn(t)))
          BY <3>1, <3>5, <4>1 DEF Welcome
      <4>3. CASE app = "admin" /\ SigningIn(t)
        <5>1. user' = user BY <3>1, <4>2, <4>3 DEF Welcome
        <5>2. QED BY <1>0, <4>1, <4>3, <5>1, LoneArrival, TurnedOut
      <4>4. CASE ~(app = "admin" /\ SigningIn(t))
        <5>1. user' = None /\ copy' = None BY <3>1, <4>2, <4>4 DEF Welcome
        <5>2. CASE SigningIn(t) BY <1>0, <4>1, <5>1, <5>2, LoneArrival, TurnedOut
        <5>3. CASE ~SigningIn(t)
          <6>1. app = "admin" /\ job[t].kind = "init"
              BY <1>0, <2>2, <4>2, <5>3 DEF SigningIn, Job, Kinds, PlaceFits
          <6>2. loading BY <1>0, <6>1 DEF SessionInv, StartsAlone
          <6>3. \A u \in Running \ {t} : FALSE BY <1>0, <6>2 DEF SessionInv, StartsAlone
          <6>4. QED BY <1>0, <4>1, <5>1, <6>3, TurnedOut
        <5>4. QED BY <5>2, <5>3
      <4>5. QED BY <4>3, <4>4
    <3>6. QED BY <3>1, <3>3, <3>4, <3>5 DEF Welcome
  <2>3. QED BY <2>1, <2>2
<1>2. CASE Lost(t) BY <1>0, <1>2, GiveUpNobody DEF Lost
<1>3. CASE Refused(t) /\ MayRenew(t)
  <2>1. gesture' = gesture /\ user' = user /\ loading' = loading /\ access' = access
      BY <1>3 DEF Refused
  <2>2. Away => (loading' => access' = None) BY <2>1 DEF Nobody, Away
  <2>3. CASE app = "phone"
    <3>1. Goto(t, "wait") BY <1>3, <2>3 DEF Refused
    <3>2. "wait" \in Places BY DEF Places
    <3>3. Away => job[t].kind \in {"load", "signOut"} BY <1>0, <2>3, OnlyLoads
    <3>4. QED BY <2>1, <2>2, <3>1, <3>2, <3>3, GoNobody
  <2>4. CASE app # "phone"
    <3>1. PICK d : d = [job[t] EXCEPT !.at = "renew", !.got = refresh] OBVIOUS
    <3>2. d \in Job /\ d.kind = job[t].kind /\ d.cancelled = job[t].cancelled
        BY <1>0, <3>1 DEF Job, Places
    <3>3. job' = [job EXCEPT ![t] = d] BY <1>3, <2>4, <3>1 DEF Refused
    <3>4. /\ job'[t] = d /\ \A u \in Tasks \ {t} : Steady(u)
          /\ Running' \subseteq Running \cup {t}
        BY <1>0, <3>2, <3>3, OneMoves DEF SessionInv
    <3>5. Away => job[t].kind \in {"load", "signOut"} \/ (job[t].kind = "init" /\ job[t].cancelled)
        BY <1>0, OnlyLoads
    <3>6. Away => \A u \in Running' : \/ job'[u].kind \in {"load", "signOut"}
                                      \/ job'[u].kind = "init" /\ job'[u].cancelled
                                      \/ u \in Running /\ Steady(u)
        BY <3>2, <3>4, <3>5 DEF Running
    <3>7. QED BY <2>1, <2>2, <3>6, StillNobody
  <2>5. QED BY <2>3, <2>4
<1>4. CASE Refused(t) /\ ~MayRenew(t) /\ app = "admin"
  <2>1. access' = None /\ LeavePage /\ gesture' = gesture BY <1>4 DEF Refused
  <2>2. QED BY <2>1, LeaveNobody
<1>5. CASE Refused(t) /\ ~MayRenew(t) /\ app # "admin"
  <2>1. GiveUp(t, TRUE) BY <1>5 DEF Refused
  <2>2. QED BY <1>0, <2>1, GiveUpNobody
<1>6. QED BY <1>1, <1>2, <1>3, <1>4, <1>5 DEF Answer

LEMMA SignInNobody ==
    ASSUME SessionInv, Nobody, NEW t \in Tasks, SignInStep(t), contested' \in BOOLEAN, contested => contested'
    PROVE  Nobody'
<1> USE DEF tokens, device
<1>0. job[t] \in Job /\ PlaceFits(job[t]) BY DEF SessionInv, SessionTypeOK, TasksFit
<1>1. CASE \E a \in Accounts, kind \in {"signIn", "signInByCode"} : SignIn(t, a, kind)
  <2>1. gesture' = "start" BY <1>1 DEF SignIn
  <2>2. QED BY <2>1 DEF Nobody
<1>2. CASE SignInAnswered(t) \/ KeepTokens(t)
  <2>1. job[t].at \in {"post", "keepAccess", "keepRefresh"} /\ gesture' = gesture
      BY <1>2 DEF SignInAnswered, KeepTokens
  <2>2. ~Away BY <2>1, OnlyLoads
  <2>3. QED BY <2>1, <2>2 DEF Nobody, Away
<1>3. CASE SignInFails(t)
  <2>1. job[t].at = "post" /\ End(t) /\ app' = app /\ loading' = loading BY <1>3 DEF SignInFails
  <2>2. t \in Running /\ SigningIn(t) BY <1>0, <2>1 DEF Running, PlaceFits, SigningIn
  <2>3. ~Away BY <2>1, OnlyLoads
  <2>4. CASE job[t].kind # "signInByCode"
    <3>1. gesture' = gesture BY <1>3, <2>4 DEF SignInFails
    <3>2. QED BY <2>3, <3>1 DEF Nobody, Away
  <2>5. CASE job[t].kind = "signInByCode"
    <3>1. user' = None /\ copy' = None BY <1>3, <2>5 DEF SignInFails, Cleared
    <3>2. ~loading BY <2>2, <2>5 DEF SessionInv, StartsAlone
    <3>3. loading' = FALSE BY <2>1, <3>2 DEF SessionInv, SessionTypeOK
    <3>4. QED BY <2>1, <2>2, <3>1, <3>3, LoneArrival, TurnedOut
  <2>6. QED BY <2>4, <2>5
<1>4. QED BY <1>1, <1>2, <1>3 DEF SignInStep

LEMMA DropNobody ==
    ASSUME SessionInv, Nobody, NEW t \in Tasks, DropTokens(t), contested' = (contested \/ Contest)
    PROVE  Nobody'
<1> USE DEF tokens, device
<1>0. /\ job[t] \in Job /\ PlaceFits(job[t]) /\ job[t].at \in {"dropAccess", "dropRefresh"} /\ t \in Running
      /\ contested \in BOOLEAN /\ Contest \in BOOLEAN
    BY DEF SessionInv, SessionTypeOK, TasksFit, DropTokens, Running, Contest
<1>1. app = "phone" BY <1>0 DEF PlaceFits
<1>2. CASE Goto(t, "dropRefresh") /\ access' = None /\ user' = user /\ gesture' = gesture
  <2>1. "dropRefresh" \in Places BY DEF Places
  <2>2. Away => job[t].kind \in {"load", "signOut"} BY <1>0, <1>1, OnlyLoads
  <2>3. contested => contested' OBVIOUS
  <2>4. QED BY <1>2, <2>1, <2>2, <2>3, GoNobody
<1>3. CASE Goto(t, "done") /\ user' = None /\ loading' = FALSE
  <2>1. "done" \in Places BY DEF Places
  <2>2. CASE gesture' = gesture BY <1>3, <2>1, <2>2, GoNobody
  <2>3. CASE gesture' # gesture
    <3>1. job[t].kind = "signOut" BY <2>3 DEF DropTokens, Dropped
    <3>2. SUFFICES ASSUME ~contested' PROVE Nobody' BY DEF Nobody
    <3>3. ~Beside(t) BY <1>0, <3>1, <3>2 DEF Contest
    <3>4. /\ Running' = Running \ {t} /\ \A u \in Tasks \ {t} : Steady(u)
        BY <1>3, <2>1, Goes DEF SessionInv
    <3>5. \A u \in Running' : ~SigningIn(u)' /\ job'[u].kind # "init"
        BY <1>1, <3>3, <3>4 DEF Beside, Steady, SigningIn, Running
    <3>6. QED BY <1>3, <3>5 DEF Nobody
  <2>4. QED BY <2>2, <2>3
<1>4. QED BY <1>2, <1>3 DEF DropTokens, Dropped

\* While a renewal is under way, its task is: nothing is being started.
LEMMA RenewingTask ==
    ASSUME SessionInv, Nobody, Away, renewal.at # "off"
    PROVE  ~loading
<1>1. renewal.by \in Running /\ job[renewal.by].at = "wait"
    BY DEF SessionInv, RenewalFits, Running
<1>2. renewal.by \in Tasks BY DEF SessionInv, RenewalFits
<1>3. job[renewal.by].kind # "init" \/ ~loading BY <1>1, <1>2, OnlyLoads
<1>4. QED BY <1>1, <1>3 DEF SessionInv, StartsAlone

LEMMA WakeNobody ==
    ASSUME SessionInv, Nobody, NEW at, NEW token, Wake(at, token), renewal.at # "off",
           gesture' = gesture, user' = user, loading' = loading, contested => contested'
    PROVE  Nobody'
<1>1. ASSUME Away, NEW u \in Running'
      PROVE  job'[u].kind \in {"load", "signOut"} \/ (u \in Running /\ Steady(u))
                \/ (job'[u].kind = "init" /\ job'[u].cancelled)
  <2>0. u \in Tasks /\ job[u] \in Job BY <1>1 DEF Running, SessionInv, SessionTypeOK
  <2>1. CASE job[u].at # "wait"
    <3>1. job'[u] = job[u] BY <2>0, <2>1 DEF Wake
    <3>2. QED BY <1>1, <2>0, <3>1 DEF Running, Steady
  <2>2. CASE job[u].at = "wait"
    <3>1. PICK d : d = [job[u] EXCEPT !.at = at, !.again = TRUE, !.got = token] OBVIOUS
    <3>2. job'[u] = d BY <2>0, <2>2, <3>1 DEF Wake
    <3>3. d.kind = job[u].kind /\ d.cancelled = job[u].cancelled BY <2>0, <3>1 DEF Job
    <3>4. QED BY <1>1, <2>0, <2>2, <3>2, <3>3, OnlyLoads
  <2>3. QED BY <2>1, <2>2
<1>2. Away => ~loading' BY RenewingTask
<1>3. QED BY <1>1, <1>2, StillNobody

LEMMA RenewalNobody ==
    ASSUME SessionInv, Nobody, Renewal, contested' \in BOOLEAN, contested => contested'
    PROVE  Nobody'
<1> USE DEF tokens, device
<1>1. CASE RenewalReads \/ RenewalAnswered \/ RenewalFails \/ RenewalKeeps
  <2>1. /\ renewal.at # "off" /\ gesture' = gesture /\ user' = user /\ loading' = loading
      BY <1>1 DEF RenewalReads, RenewalAnswered, RenewalFails, RenewalKeeps
  <2>2. CASE job' = job
    <3>1. \A u \in Running' : u \in Running /\ Steady(u) BY <2>2 DEF Running, Steady
    <3>2. Away => ~loading' BY <2>1, RenewingTask
    <3>3. QED BY <2>1, <3>1, <3>2, StillNobody
  <2>3. ASSUME NEW at, NEW token, Wake(at, token) PROVE Nobody'
      BY <2>1, <2>3, WakeNobody
  <2>4. QED BY <1>1, <2>2, <2>3 DEF RenewalReads, RenewalAnswered, RenewalFails, RenewalKeeps
<1>2. ASSUME NEW t \in Tasks, WebRenew(t) PROVE Nobody'
  <2>0. job[t] \in Job /\ job[t].at = "renew" BY <1>2 DEF WebRenew, SessionInv, SessionTypeOK
  <2>1. PICK new : new = Renewed(t, job[t].got) OBVIOUS
  <2>2. PICK d : d = [job[t] EXCEPT !.at = "sent", !.again = TRUE, !.got = new] OBVIOUS
  <2>3. d.kind = job[t].kind /\ d.cancelled = job[t].cancelled /\ d.at = "sent" BY <2>0, <2>2 DEF Job
  <2>4. /\ job' = [job EXCEPT ![t] = d]
        /\ gesture' = gesture /\ user' = user /\ loading' = loading
      BY <1>2, <2>1, <2>2 DEF WebRenew
  <2>5. job'[t] = d /\ \A u \in Tasks \ {t} : job'[u] = job[u]
      BY <2>4 DEF SessionInv, SessionTypeOK
  <2>6. Away => /\ t \in Running /\ ~(job[t].kind = "init" /\ loading)
                /\ job[t].kind \in {"load", "signOut"} \/ (job[t].kind = "init" /\ job[t].cancelled)
      BY <2>0, OnlyLoads
  <2>7. Away => ~loading' BY <2>4, <2>6 DEF SessionInv, StartsAlone
  <2>8. ASSUME Away, NEW u \in Running'
        PROVE  \/ job'[u].kind \in {"load", "signOut"}
               \/ job'[u].kind = "init" /\ job'[u].cancelled
               \/ u \in Running /\ Steady(u)
    <3>1. CASE u = t BY <2>3, <2>5, <2>6, <2>8, <3>1
    <3>2. CASE u # t BY <2>5, <2>8, <3>2 DEF Running, Steady
    <3>3. QED BY <3>1, <3>2
  <2>9. QED BY <2>4, <2>7, <2>8, StillNobody
<1>3. ASSUME NEW t \in Tasks, WebRenewFails(t) PROVE Nobody'
  <2>1. access' = None /\ LeavePage /\ gesture' = gesture BY <1>3 DEF WebRenewFails
  <2>2. QED BY <2>1, LeaveNobody
<1>4. ASSUME NEW t \in Tasks, ClearTokens(t) PROVE Nobody'
  <2>1. /\ job[t].at \in {"clearAccess", "clearRefresh"} /\ access' \in {access, None}
        /\ gesture' = gesture /\ user' = user /\ loading' = loading
      BY <1>4 DEF ClearTokens
  <2>2. PlaceFits(job[t]) BY DEF SessionInv, TasksFit
  <2>3. app = "phone" BY <2>1, <2>2 DEF PlaceFits
  <2>4. Away => job[t].kind \in {"load", "signOut"} BY <2>1, <2>3, OnlyLoads
  <2>5. PICK l \in Places : Goto(t, l) BY <1>4 DEF ClearTokens, AfterClearing, Places
  <2>6. Away => (loading' => access' = None) BY <2>1 DEF Nobody, Away
  <2>7. QED BY <2>1, <2>4, <2>5, <2>6, GoNobody
<1>5. QED BY <1>1, <1>2, <1>3, <1>4 DEF Renewal

LEMMA SignOutNobody ==
    ASSUME SessionInv, Nobody, NEW t \in Tasks, SignOut(t), contested' = (contested \/ Beside(t))
    PROVE  Nobody'
<1>0. contested \in BOOLEAN /\ Beside(t) \in BOOLEAN BY DEF SessionInv, SessionTypeOK, Beside
<1>1. CASE app = "phone"
  <2>1. user # None /\ gesture' = gesture BY <1>1 DEF SignOut
  <2>2. ~Away BY <2>1 DEF Nobody, Away
  <2>3. QED BY <1>0, <2>1, <2>2 DEF Nobody, Away
<1>2. CASE app # "phone"
  <2>1. Cleared /\ loading' = FALSE /\ End(t) /\ app' = app BY <1>2 DEF SignOut
  <2>2. SUFFICES ASSUME ~contested' PROVE Nobody' BY DEF Nobody
  <2>3. \A u \in Running \ {t} : ~SigningIn(u) /\ (job[u].kind = "init" => app = "merchant")
      BY <1>0, <2>2 DEF Beside
  <2>4. QED BY <2>1, <2>3, TurnedOut DEF Cleared
<1>3. QED BY <1>1, <1>2

LEMMA WorldNobody ==
    ASSUME SessionInv, Nobody, World, contested' \in BOOLEAN, contested => contested'
    PROVE  Nobody'
<1> USE DEF tokens, device
<1>1. CASE LoadAgain
  <2>1. LeavePage /\ gesture' \in {gesture, "start"} /\ access' = access BY <1>1 DEF LoadAgain
  <2>2. ASSUME gesture' = gesture, Away PROVE access = None
    <3>1. gesture = "out" /\ ~(crossed /\ access # None) BY <1>1, <2>2 DEF LoadAgain, Away
    <3>2. QED BY <3>1 DEF SessionInv, Out
  <2>3. QED BY <2>1, <2>2, LeaveNobody
<1>2. CASE Expire
  <2>1. UNCHANGED <<user, loading, access, job, gesture>> BY <1>2 DEF Expire
  <2>2. \A u \in Running' : u \in Running /\ Steady(u) BY <2>1 DEF Running, Steady
  <2>3. Away => (loading' => access' = None) BY <2>1 DEF Nobody, Away
  <2>4. QED BY <2>1, <2>2, <2>3, StillNobody
<1>3. QED BY <1>1, <1>2 DEF World

LEMMA NobodyNext == SessionInv /\ Nobody /\ [SessionNext]_sessionVars => Nobody'
<1> SUFFICES ASSUME SessionInv, Nobody, [SessionNext]_sessionVars
             PROVE  Nobody'
  OBVIOUS
<1>0. contested \in BOOLEAN BY DEF SessionInv, SessionTypeOK
<1>1. ASSUME \/ \E t \in Tasks : Request(t) \/ Answer(t) \/ SignInStep(t) \/ DropTokens(t)
             \/ Renewal \/ World,
             contested' = (contested \/ Contest)
      PROVE  Nobody'
  <2>1. contested' \in BOOLEAN /\ (contested => contested') BY <1>0, <1>1 DEF Contest
  <2>2. QED BY <1>1, <2>1, RequestNobody, AnswerNobody, SignInNobody, DropNobody, RenewalNobody,
               WorldNobody
<1>2. ASSUME NEW t \in Tasks, SignOut(t), contested' = (contested \/ Beside(t)) PROVE Nobody'
    BY <1>2, SignOutNobody
<1>3. CASE UNCHANGED sessionVars
  <2>1. UNCHANGED <<user, loading, access, job, gesture, contested>>
      BY <1>3 DEF sessionVars, device, tokens, history
  <2>2. Running' = Running BY <2>1 DEF Running
  <2>3. QED BY <2>1, <2>2 DEF Nobody, SigningIn
<1>4. QED BY <1>1, <1>2, <1>3 DEF SessionNext

\* Every state the program reaches satisfies the invariant of sessions.
THEOREM SessionInvariance == SessionSpec => []SessionInv
<1>1. SessionInit => SessionInv BY SessionStarts
<1>2. SessionInv /\ [SessionNext]_sessionVars => SessionInv'
    BY SessionSteps, SessionStutters
<1>3. QED BY <1>1, <1>2, PTL DEF SessionSpec

\* The device always holds tokens, accounts and tasks of the kinds the model
\* names, whatever the order of answers (AuthContext.tsx, authStore.ts).
THEOREM SessionsAreTyped == SessionSpec => []SessionTypeOK
<1>1. SessionInv => SessionTypeOK BY DEF SessionInv
<1>2. QED BY <1>1, SessionInvariance, PTL

\* After a sign-out no user is shown until the next start, though a renewal met
\* it or a token could not be deleted; and where neither happened, no token is
\* left once all work has settled: for every number of accounts and of requests
\* under way.
THEOREM OutIsOut == SessionSpec => []OutMeansOut
<1>1. SessionInit => Nobody BY SessionAssumption DEF SessionInit, Nobody
<1>2. SessionInv /\ Nobody => OutMeansOut BY DEF SessionInv, Out, Nobody, OutMeansOut
<1>3. SessionSpec => []Nobody BY <1>1, NobodyNext, SessionInvariance, PTL DEF SessionSpec
<1>4. QED BY <1>2, <1>3, SessionInvariance, PTL

\* After a sign-in, once all work has settled, the account signed in is the one
\* on the screens and of both tokens, unless an answer was lost, a refusal
\* could not be cured, or a sign-in or -out crossed other writers.
THEOREM InIsIn == SessionSpec => []InMeansIn
<1>1. ASSUME SessionInv, AtRest, gesture \in Accounts, ~crossed, ~trouble
      PROVE  /\ user = gesture /\ access # None /\ access.of = gesture
             /\ app # "admin" => refresh # None /\ refresh.of = gesture
             /\ app = "phone" => cached \in {gesture, None}
  <2>1. Running = {} BY <1>1 DEF AtRest
  <2>2. /\ Kept(gesture) /\ user \in {gesture, None}
        /\ user = None /\ booted => \E t \in Running : job[t].kind = "init" /\ ~job[t].cancelled
        /\ cached \in {gesture, None} \/ app # "phone"
      BY <1>1, <2>1 DEF SessionInv, In
  <2>3. user = gesture BY <1>1, <2>1, <2>2 DEF AtRest
  <2>4. QED BY <2>2, <2>3 DEF Kept, Belongs
<1>2. SessionInv => InMeansIn BY <1>1 DEF InMeansIn
<1>3. QED BY <1>2, SessionInvariance, PTL

================================================================================
