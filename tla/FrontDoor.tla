------------------------------- MODULE FrontDoor ------------------------------
(***************************************************************************)
(* The pages in front of the four clients: signing up and its code, a new  *)
(* password, an invitation, the wizard that sets a shop up, and the Home   *)
(* page a customer arrives at.  `door' says whose pages a behaviour is     *)
(* about: the customer's web app or phone, the merchant's dashboard or the *)
(* administrator's.                                                        *)
(*                                                                         *)
(* A request remembers whether the page that made it is still there: its   *)
(* answer sets nothing on a page that is gone, but still navigates.  The   *)
(* service may refuse a request, and any answer may be lost, the request   *)
(* served before that, after it or never.  Codes and links themselves are  *)
(* in Identity, tokens in ClientSession, what configuring a shop writes in *)
(* TenantSettings.                                                         *)
(***************************************************************************)
EXTENDS HomeCode

CONSTANTS
    Slots,        \* names of the requests that may be made in a behaviour
    Emails,       \* the addresses the person types
    Admin,        \* the administrator's, which the dashboard knows
    Programmes,   \* what the wizard offers: points, stamps
    Doors         \* the clients to look at

Customers == {"web", "phone"}
Wizard == <<"category", "type", "configure", "finish">>
WizardSteps == {Wizard[i] : i \in 1..4}
Screens == WizardSteps \cup {"signin", "register", "signup", "code", "forgot", "sent",
                             "reset", "done", "invite", "welcome", "in", "away"}
Asks == {"enter", "register", "otp", "verify", "forgot", "reset", "accept",
         "signup", "login", "me", "configure", "complete"}
Flags == {"signup", "form"}   \* the loading flags, one for each form of a page

ASSUME FrontDoorAssumption ==
    /\ Doors \subseteq Customers \cup {"dashboard", "admin"} /\ Doors # {}
    /\ Nothing \notin Slots \cup Emails \cup Programmes /\ Admin \in Emails

VARIABLES
    door, screen,
    field,      \* the addresses in the page's forms
    choice,     \* the programme chosen in the wizard
    challenge,  \* the address the customer's code page was opened for
    stored,     \* the same, in the browser's session storage
    busy,       \* the loading flags of the page
    knows,      \* the dashboard's copy of the user says the wizard is finished
    calls,
    server,     \* what the service has done
    wavered     \* history: the person went Back while the wizard was saving, or a
                \* choice was saved after its page had given up on it

pageVars == <<door, screen, field, choice, challenge, stored, busy, knows, calls, server,
              wavered>>
vars == <<pageVars, homeVars>>
form == <<field, choice, wavered>>
route == <<challenge, stored>>

TypeOK ==
    /\ door \in Doors /\ screen \in Screens /\ \A f \in Flags : field[f] \in Emails \cup {Nothing}
    /\ choice \in Programmes \cup {Nothing} /\ {challenge, stored} \subseteq Emails \cup {Nothing}
    /\ busy \subseteq Flags /\ {knows, wavered} \subseteq BOOLEAN
    /\ \A s \in Slots : calls[s].what \in Asks /\ calls[s].live \in BOOLEAN
    /\ fetches \subseteq Fetch /\ now \in Ticks

-----------------------------------------------------------------------------
(* Requests *)

Unused == [at |-> "unused", what |-> "me", email |-> Nothing, choice |-> Nothing,
           live |-> FALSE]
UnderWay(s) == calls[s].at \in {"sent", "done", "refused"}
Flag(what) == IF what \in {"signup", "login", "me"} THEN "signup" ELSE "form"

Send(s, what, email) ==
    /\ calls[s].at = "unused"
    /\ calls' = [calls EXCEPT ![s] = [at |-> "sent", what |-> what, email |-> email,
                                      choice |-> choice, live |-> TRUE]]
    /\ busy' = busy \cup {Flag(what)}
    /\ UNCHANGED <<door, screen, form, route, knows, server, homeVars>>

(* What a request leaves on the server. *)
Done(c) ==
    [server EXCEPT
        !.mailed = IF c.what \in {"register", "otp"} THEN @ \cup {c.email} ELSE @,
        !.linked = @ \/ c.what = "forgot",
        !.reset = @ \/ c.what = "reset",
        !.joined = @ \/ c.what = "accept",
        !.shops = IF c.what = "signup" THEN @ \cup {c.email} ELSE @,
        !.config = IF c.what = "configure" THEN c.choice ELSE @,
        !.completed = @ \/ c.what = "complete"]

(* Refused for good: a link or an invitation that was used, an address     *)
(* that has a shop, a code nobody was sent.                                *)
MustRefuse(c) ==
    \/ c.what = "reset" /\ server.reset
    \/ c.what = "accept" /\ server.joined
    \/ c.what = "signup" /\ c.email \in server.shops
    \/ c.what = "otp" /\ c.email # Admin
    \/ c.what = "verify" /\ c.email \notin server.mailed

ServeOne(s) ==
    /\ calls[s].at = "sent" /\ ~MustRefuse(calls[s])
    /\ server' = Done(calls[s])
    /\ calls' = [calls EXCEPT ![s].at = "done"]
    /\ UNCHANGED <<door, screen, form, route, busy, knows, homeVars>>

Refuse(s) ==
    /\ calls[s].at = "sent"
    /\ calls' = [calls EXCEPT ![s].at = "refused"]
    /\ UNCHANGED <<door, screen, form, route, busy, knows, server, homeVars>>

-----------------------------------------------------------------------------
(* Moving between pages *)

NoField == [f \in Flags |-> Nothing]

(* Another page: the old one is gone, with what was typed and what it      *)
(* waited for.                                                             *)
Leave(kept) ==
    calls' = [s \in Slots |->
                IF s \in kept THEN Unused
                ELSE IF UnderWay(s) THEN [calls[s] EXCEPT !.live = FALSE] ELSE calls[s]]

Go(t, kept) ==
    /\ screen' = t
    /\ Leave(kept)
    /\ busy' = {}
    /\ field' = IF <<door, screen, t>> = <<"phone", "code", "register">> THEN field ELSE NoField
    /\ choice' = Nothing
    /\ IF due = Nothing THEN UNCHANGED homeVars ELSE Unmount
    /\ UNCHANGED <<door, knows, server, wavered>>

(* The links of each page.  On the phone, leaving the code uncovers the    *)
(* page underneath, a form as it was left.                                 *)
Links ==
    CASE door = "web" -> {<<"signin", "register">>, <<"register", "signin">>,
                          <<"signin", "forgot">>, <<"forgot", "signin">>, <<"sent", "signin">>,
                          <<"code", "signin">>, <<"done", "signin">>}
      [] door = "phone" -> {<<"signin", "register">>, <<"register", "signin">>,
                            <<"signin", "forgot">>, <<"forgot", "signin">>,
                            <<"sent", "signin">>, <<"code", "register">>, <<"code", "signin">>}
      [] door = "dashboard" -> {<<"signin", "forgot">>, <<"forgot", "signin">>,
                                <<"sent", "signin">>, <<"done", "signin">>,
                                <<"welcome", "signin">>}
      [] door = "admin" -> {}

Follow ==
    \E t \in Screens :
        /\ <<screen, t>> \in Links
        /\ Go(t, {})
        /\ UNCHANGED route

(* The web's code page, opened by its address, finds the stored challenge. *)
OpenCode ==
    /\ door = "web" /\ screen = "signin" /\ stored # Nothing
    /\ Go("code", {})
    /\ challenge' = stored
    /\ UNCHANGED stored

(* Sign in and sign up are two modes of the dashboard's page: what is      *)
(* under way stays, and so does what was typed for each.                   *)
SwitchMode ==
    /\ door = "dashboard"
    /\ \/ screen \in {"signin", "code"} /\ screen' = "signup"
       \/ screen = "signup" /\ screen' = "signin"
    /\ UNCHANGED <<door, form, route, busy, knows, calls, server, homeVars>>

(* Back of the code step, disabled while a request is under way. *)
BackToPassword ==
    /\ door \in {"dashboard", "admin"} /\ screen = "code" /\ "form" \notin busy
    /\ screen' = "signin"
    /\ UNCHANGED <<door, form, route, busy, knows, calls, server, homeVars>>

-----------------------------------------------------------------------------
(* Forms *)

Typable == {"register", "forgot", "signin", "signup"}
Here == IF screen = "signup" THEN "signup" ELSE "form"

(* The fields that are disabled while their form waits.  The form that     *)
(* leaves them open is a slip.                                             *)
Editable_Open == screen \in Typable
Editable ==
    \/ door \in Customers /\ screen \in {"register", "forgot"}
    \/ door \notin Customers /\ screen \in Typable /\ Here \notin busy

Type ==
    /\ Editable
    /\ \E e \in Emails \ {field[Here]} : field' = [field EXCEPT ![Here] = e]
    /\ UNCHANGED <<door, screen, choice, route, busy, knows, calls, server, wavered, homeVars>>

(* Enter in a field of the web's forms goes past the button, which is      *)
(* disabled while a request is under way.                                  *)
Free(flag) == flag \notin busy
FreeOrEnter == door = "web" \/ Free("form")

Challenge == IF door \in Customers THEN challenge ELSE field["form"]

(* The customer signs in on the web, and on the phone. *)
HandleLogin(s) ==
    /\ door = "web" /\ screen = "signin" /\ FreeOrEnter
    /\ Send(s, "enter", Nothing)

PhoneLogin(s) ==
    /\ door = "phone" /\ screen = "signin" /\ Free("form")
    /\ Send(s, "enter", Nothing)

HandleRegister(s) ==
    /\ door = "web" /\ screen = "register" /\ field["form"] # Nothing /\ FreeOrEnter
    /\ Send(s, "register", field["form"])

PhoneRegister(s) ==
    /\ door = "phone" /\ screen = "register" /\ field["form"] # Nothing /\ Free("form")
    /\ Send(s, "register", field["form"])

(* The dashboard asks for a code when the address is the administrator's,  *)
(* the administrator's own page for any: the service knows.                *)
RequestOtpCode(s) ==
    /\ door = "dashboard" /\ screen = "signin" /\ field["form"] = Admin /\ Free("form")
    /\ Send(s, "otp", field["form"])

AdminRequestOtp(s) ==
    /\ door = "admin" /\ screen = "signin" /\ field["form"] # Nothing /\ Free("form")
    /\ Send(s, "otp", field["form"])

ResendCode(s) ==
    /\ door \in {"dashboard", "admin"} /\ screen = "code" /\ Free("form")
    /\ Send(s, "otp", field["form"])

HandleVerify(s) ==
    /\ door \in {"web", "admin"} /\ screen = "code" /\ Challenge # Nothing /\ Free("form")
    /\ Send(s, "verify", Challenge)

PhoneVerify(s) ==
    /\ door = "phone" /\ screen = "code" /\ Free("form")
    /\ Send(s, "verify", Challenge)

HandleAdminOtpVerify(s) ==
    /\ door = "dashboard" /\ screen = "code" /\ Free("form")
    /\ Send(s, "verify", Challenge)

HandleForgot(s) ==
    /\ door = "web" /\ screen = "forgot" /\ field["form"] # Nothing /\ FreeOrEnter
    /\ Send(s, "forgot", field["form"])

PhoneForgot(s) ==
    /\ door = "phone" /\ screen = "forgot" /\ field["form"] # Nothing /\ Free("form")
    /\ Send(s, "forgot", field["form"])

DashboardForgot(s) ==
    /\ door = "dashboard" /\ screen = "forgot" /\ field["form"] # Nothing /\ Free("form")
    /\ Send(s, "forgot", field["form"])

HandleReset(s) ==
    /\ door = "web" /\ screen = "reset" /\ FreeOrEnter
    /\ Send(s, "reset", Nothing)

DashboardReset(s) ==
    /\ door = "dashboard" /\ screen = "reset" /\ Free("form")
    /\ Send(s, "reset", Nothing)

AcceptInvite(s) == screen = "invite" /\ Free("form") /\ Send(s, "accept", Nothing)

HandleSignup(s) ==
    /\ screen = "signup" /\ field["signup"] # Nothing /\ Free("signup")
    /\ Send(s, "signup", field["signup"])

-----------------------------------------------------------------------------
(* The wizard *)

Place(step) == CHOOSE i \in 1..4 : Wizard[i] = step
GoNext(step) == Wizard[IF step = "finish" THEN 4 ELSE Place(step) + 1]

Choose ==
    /\ screen = "type"
    /\ \E p \in Programmes \ {choice} : choice' = p
    /\ UNCHANGED <<door, screen, field, route, busy, knows, calls, server, wavered, homeVars>>

Step == screen' = GoNext(screen) /\ UNCHANGED <<door, form, route, busy, knows, calls, server, homeVars>>
HandleStep0 == screen = "category" /\ Step
HandleStep1 == screen = "type" /\ choice # Nothing /\ Step

(* Back is not disabled while the wizard is saving. *)
GoBack ==
    /\ screen \in {"type", "configure"}
    /\ screen' = Wizard[Place(screen) - 1]
    /\ wavered' = (wavered \/ busy # {})
    /\ UNCHANGED <<door, field, choice, route, busy, knows, calls, server, homeVars>>

Configurable == screen = "configure" /\ Free("form")
HandleConfigure(s) == Configurable /\ Send(s, "configure", Nothing)
HandleFinish(s) == screen = "finish" /\ Free("form") /\ Send(s, "complete", Nothing)

(* The dashboard's first page sends a merchant whose wizard is unfinished  *)
(* back to it, and asks its own copy of the user.                          *)
VisitRoot ==
    /\ door = "dashboard" /\ screen = "in" /\ ~knows
    /\ Go("category", {})
    /\ UNCHANGED route

(* A reload fetches the user again. *)
Reload ==
    /\ door = "dashboard" /\ screen = "in" /\ ~knows
    /\ knows' = server.completed
    /\ UNCHANGED <<door, screen, form, route, busy, calls, server, homeVars>>

-----------------------------------------------------------------------------
(* Answers *)

Settled(s) == IF calls[s].live THEN busy \ {Flag(calls[s].what)} ELSE busy

(* The code step comes up on the sign-in form; in the other mode it is     *)
(* hidden, and switching back resets it.                                   *)
OtpStep == IF screen \in {"signin", "code"} THEN "code" ELSE screen

(* finally: the page shows what it now knows, and waits no more. *)
StayOn(s, t) ==
    /\ screen' = IF calls[s].live THEN t ELSE screen
    /\ busy' = Settled(s)
    /\ calls' = [calls EXCEPT ![s] = Unused]
    /\ UNCHANGED <<door, form, route, knows, server, homeVars>>

NavigateToCode(s) ==
    LET e == calls[s].email
    IN  /\ challenge' = e
        /\ stored' = IF door = "web" THEN e ELSE stored
        /\ IF screen = "code"
           THEN /\ calls' = [calls EXCEPT ![s] = Unused]
                /\ UNCHANGED <<door, screen, form, busy, knows, server, homeVars>>
           ELSE IF door = "phone"
           THEN /\ screen' = "code" /\ Leave({s}) /\ busy' = {}
                /\ UNCHANGED <<door, form, knows, server, homeVars>>
           ELSE Go("code", {s})

(* The signed-in customer arrives at the Home page, which opens; the       *)
(* administrator is sent away from the merchant's dashboard.               *)
Arrive(s) ==
    /\ screen' = IF door = "dashboard" THEN "away" ELSE "in"
    /\ Leave(IF door = "dashboard" THEN Slots ELSE {s})
    /\ busy' = {} /\ field' = NoField /\ choice' = Nothing
    /\ challenge' = Nothing /\ stored' = IF calls[s].what = "verify" THEN Nothing ELSE stored
    /\ IF door \in Customers /\ due = Nothing THEN Mount ELSE UNCHANGED homeVars
    /\ UNCHANGED <<door, knows, server, wavered>>

(* Sign-up goes on to sign in and to fetch the user, then to the wizard. *)
GoOn(s, what) ==
    /\ calls' = [calls EXCEPT ![s].at = "sent", ![s].what = what]
    /\ UNCHANGED <<door, screen, form, route, busy, knows, server, homeVars>>

Succeed(s) ==
    LET what == calls[s].what
    IN  /\ calls[s].at = "done"
        /\ \/ what = "register" /\ <<door, screen>> # <<"phone", "in">> /\ NavigateToCode(s)
           \/ what = "register" /\ <<door, screen>> = <<"phone", "in">> /\ StayOn(s, screen)
           \/ what = "otp" /\ StayOn(s, OtpStep)
           \/ what \in {"enter", "verify"} /\ Arrive(s)
           \/ what = "forgot" /\ StayOn(s, "sent")
           \/ what = "reset" /\ StayOn(s, "done")
           \/ what = "accept" /\ Go("welcome", {s}) /\ UNCHANGED route
           \/ what = "signup" /\ GoOn(s, "login")
           \/ what = "login" /\ GoOn(s, "me")
           \/ what = "me" /\ screen \notin WizardSteps /\ Go("category", {s}) /\ UNCHANGED route
           \/ what = "me" /\ screen \in WizardSteps /\ StayOn(s, screen)
           \/ what = "configure" /\ StayOn(s, IF screen \in WizardSteps THEN GoNext(screen) ELSE screen)
           \/ what = "complete" /\ Go("in", {s}) /\ UNCHANGED route

(* catch and finally: a message, and the form waits no more.  A wizard     *)
(* that goes on whatever the answer is a slip.                             *)
AfterFailure_GoesOn(s) ==
    IF calls[s].what = "configure" /\ screen \in WizardSteps THEN GoNext(screen) ELSE screen
AfterFailure(s) == screen

Fail(s) == calls[s].at = "refused" /\ StayOn(s, AfterFailure(s))

(* A lost answer: the request has been served, or it may be yet, when the  *)
(* page has long given up on it, or never will be.                         *)
Lose(s) ==
    /\ calls[s].at \in {"sent", "done"}
    /\ screen' = AfterFailure(s) /\ busy' = Settled(s)
    /\ calls' = [calls EXCEPT ![s] = IF calls[s].at = "done" THEN Unused ELSE [@ EXCEPT !.at = "lost"]]
    /\ UNCHANGED <<door, form, route, knows, server, homeVars>>

(* What the wizard saves so late may replace what the person chose since. *)
ServeLate(s) ==
    /\ calls[s].at = "lost"
    /\ \/ UNCHANGED <<server, wavered>>
       \/ /\ ~MustRefuse(calls[s])
          /\ server' = Done(calls[s])
          /\ wavered' = (wavered \/ calls[s].what = "configure")
    /\ calls' = [calls EXCEPT ![s] = Unused]
    /\ UNCHANGED <<door, screen, field, choice, route, busy, knows, homeVars>>

-----------------------------------------------------------------------------

Entrances ==
    CASE door = "web" -> {"signin", "reset"}
      [] door = "dashboard" -> {"signin", "reset", "invite"}
      [] door \in {"phone", "admin"} -> {"signin"}

Init ==
    /\ door \in Doors /\ screen \in Entrances
    /\ field = NoField /\ choice = Nothing /\ challenge = Nothing /\ stored = Nothing
    /\ busy = {} /\ knows = FALSE /\ wavered = FALSE
    /\ calls = [s \in Slots |-> Unused]
    /\ server = [mailed |-> {}, linked |-> FALSE, reset |-> FALSE, joined |-> FALSE,
                 shops |-> {}, config |-> Nothing, completed |-> FALSE]
    /\ HomeInit

Gesture(s) ==
    \/ HandleLogin(s) \/ HandleRegister(s) \/ HandleVerify(s) \/ HandleForgot(s)
    \/ HandleReset(s) \/ PhoneLogin(s) \/ PhoneRegister(s) \/ PhoneVerify(s)
    \/ PhoneForgot(s) \/ RequestOtpCode(s) \/ AdminRequestOtp(s) \/ ResendCode(s)
    \/ HandleAdminOtpVerify(s) \/ DashboardForgot(s) \/ DashboardReset(s)
    \/ AcceptInvite(s) \/ HandleSignup(s) \/ HandleConfigure(s) \/ HandleFinish(s)

(* The Home page is watched once the requests of the pages before are over. *)
AtHome ==
    /\ screen = "in" /\ door \in Customers /\ \A s \in Slots : calls[s] = Unused
    /\ HomeStep(door = "phone")
    /\ UNCHANGED pageVars

Next ==
    \/ \E s \in Slots : Gesture(s) \/ ServeOne(s) \/ Refuse(s) \/ Succeed(s) \/ Fail(s) \/ Lose(s)
                     \/ ServeLate(s)
    \/ Follow \/ OpenCode \/ SwitchMode \/ BackToPassword \/ Type
    \/ Choose \/ HandleStep0 \/ HandleStep1 \/ GoBack \/ VisitRoot \/ Reload
    \/ AtHome

Spec == Init /\ [][Next]_vars

-----------------------------------------------------------------------------

(* What a page says has happened has happened: a code was mailed to the    *)
(* address whose code it asks for, a link was asked for, the password was  *)
(* changed, the invitation accepted, the shop opened and configured.       *)
(* Answers come to pages that were left, edited or moved on since.         *)
ClaimsAreTrue ==
    /\ screen = "code" => Challenge \in server.mailed
    /\ screen = "sent" => server.linked
    /\ screen = "done" => server.reset
    /\ screen = "welcome" => server.joined
    /\ screen \in WizardSteps => server.shops # {}
    /\ screen = "finish" => server.config # Nothing

(* The wizard's last page stands for the programme that was chosen,        *)
(* whatever was refused, lost or saved before: unless the person went back *)
(* while a choice was being saved, or one whose answer was lost was saved  *)
(* after the next.                                                         *)
FinishIsAsChosen == screen = "finish" /\ ~wavered => server.config = choice
=============================================================================
