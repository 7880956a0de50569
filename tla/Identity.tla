------------------------------- MODULE Identity -------------------------------
(***************************************************************************)
(* Users, the secrets they prove themselves with and the tokens they get:  *)
(* AuthService (passwords, one-time codes, reset links, refresh tokens,    *)
(* registration with its clean-up), UsersService (staff), the guards of    *)
(* the staff routes, and the switches of OperatorToolsService.             *)
(*                                                                         *)
(* One action is one awaited database call and the code up to the next.    *)
(* A request makes at most one code, link, token, customer or user, so its *)
(* name is the name of what it makes.  Secrets are not guessed by luck:    *)
(* whoever shows a code, link or token was sent it.  Time passes by        *)
(* Lapse, which ends the life of a code, a link or an access token;        *)
(* refresh tokens (7 days) outlive a behaviour.                            *)
(***************************************************************************)
EXTENDS Integers, FiniteSets

CONSTANTS
    Requests,    \* names of the HTTP requests that may be made
    Intents,     \* what a request may ask for (see Intent)
    Seeds,       \* users at the start, each logged in
    Tenants, Platform, Anywhere, \* merchants; the customers' tenant; no tenant given
    Addresses, Passwords,
    MaxAttempts, \* OTP_MAX_ATTEMPTS
    Nothing

StaffRoles == {"MERCHANT_ADMIN", "MANAGER", "CASHIER", "JANITOR", "STAFF"}
Purposes == {"login", "signup"}

\* Routes behind @RequireScope('merchant:*'); the others are public.
StaffOps == {"create", "update", "disable", "enable", "closeTenant", "openTenant"}
Ops == {"login", "loginOtp", "verify", "refresh", "register", "signup", "forgot", "reset"}
           \cup StaffOps

\* email names the user meant; to and role are what an update or a new member gets.
Intent == [op: Ops, email: Addresses, tenant: Tenants \cup {Platform, Anywhere},
           password: Passwords, purpose: Purposes, to: Addresses, role: StaffRoles]

\* Names of what existed at the start: users, their tokens and codes.
SeedNames == (UNION {{u.id, u.otp, u.customer} : u \in Seeds}) \ {Nothing}
Names == Requests \cup SeedNames
User == [id: Names, tenant: Tenants \cup {Platform}, email: Addresses, password: Passwords,
         role: StaffRoles \cup {"CUSTOMER"}, customer: Names \cup {Nothing}, active: BOOLEAN,
         otp: Names \cup {Nothing}, purpose: Purposes, tries: Nat, link: Names \cup {Nothing}]

ASSUME IdentityIntentsAssumption == Intents \subseteq Intent /\ Intents # {}
ASSUME IdentityNamesAssumption ==
    /\ Nothing \notin Names /\ Requests \intersect SeedNames = {}
    /\ Platform \notin Tenants /\ Anywhere \notin Tenants \cup {Platform}
    /\ Names \intersect (Tenants \cup {Platform}) = {}
\* A code is sent to one user; customers live in the platform's tenant, staff in
\* those of the merchants.
ASSUME SeedsAssumption ==
    /\ Seeds \subseteq User /\ IsFiniteSet(Requests)
    /\ \A u, v \in Seeds :
          u.id = v.id \/ <<u.tenant, u.email>> = <<v.tenant, v.email>> \/ (u.otp = v.otp /\ u.otp # Nothing)
              => u = v
    /\ \A u \in Seeds : /\ u.customer # Nothing <=> u.role = "CUSTOMER"
                        /\ u.tenant = Platform <=> u.role = "CUSTOMER"
                        /\ u.link = Nothing
ASSUME MaxAttemptsAssumption == MaxAttempts \in Nat \ {0}

VARIABLES
    users, customers, \* the collections
    closed,     \* tenants that are not active
    tokens,     \* pairs of tokens that were answered
    mailed,     \* codes and links that reached their reader
    lapsed,     \* codes, links and access tokens past their time
    pc, req,    \* where each request is, and its body
    shown,      \* the code, link or token it presents
    copy,       \* the user it read
    judged, floor, counted, \* history: the code a guess was compared with, the wrong
                \* guesses at it counted before, the requests whose guess was counted
    spent, late, \* history: codes and links that were used; requests that began later
    barred,     \* history: users and tenants inactive since the request began
    cut         \* history: requests stopped, or whose clean-up failed

collections == <<users, customers, closed, tokens, mailed, lapsed>>
history == <<judged, floor, counted, spent, late, barred, cut>>
vars == <<collections, pc, req, shown, copy, history>>

-----------------------------------------------------------------------------
(* Documents and reads *)

ScopesOf(role) ==
    CASE role = "MERCHANT_ADMIN" -> {<<"merchant", "*">>}
      [] role = "MANAGER" -> {<<"merchant", "read">>, <<"scan", "*">>}
      [] role = "CUSTOMER" -> {<<"customer", "*">>}
      [] OTHER -> {<<"scan", "*">>}

\* A required scope that ends in :* is met by any scope of its area.
Grants(scopes, area) == \E s \in scopes : s[1] = area

\* The guards read the signed payload only, never the database.
Bearer(t) == t.by \notin lapsed /\ Grants(t.scopes, "merchant")

\* A tenant is sought in the query only when the request names one.
Found(r) ==
    {u \in users : u.active /\ u.email = req[r].email /\ req[r].tenant \in {u.tenant, Anywhere}}

TakenBy(tenant, email) == {u \in users : u.tenant = tenant /\ u.email = email}

HomeOf(r) == IF req[r].op \in {"register", "signup"} THEN Platform ELSE shown[r].tenant

NewUser(r) ==
    LET customer == HomeOf(r) = Platform
    IN  [id |-> r, tenant |-> HomeOf(r), email |-> req[r].email, password |-> req[r].password,
         role |-> IF customer THEN "CUSTOMER" ELSE req[r].role,
         customer |-> IF customer THEN r ELSE Nothing, active |-> TRUE,
         otp |-> Nothing, purpose |-> "login", tries |-> 0, link |-> Nothing]

\* updateOne({_id}, ...): nothing happens when the user is gone.
Updated(id, change) == {IF u.id = id THEN change[u] ELSE u : u \in users}

TokenOf(r, u) == [by |-> r, user |-> u.id, tenant |-> u.tenant, scopes |-> ScopesOf(u.role)]
issueTokens(r, u) == tokens' = tokens \cup {TokenOf(r, u)}

Inactive == {u.id : u \in {v \in users : ~v.active}} \cup closed

-----------------------------------------------------------------------------
(* Control *)

Resting == {"idle", "done", "failed"}
Goto(r, l) == pc' = [pc EXCEPT ![r] = l]
Refuse(r) == Goto(r, "failed") /\ UNCHANGED <<collections, req, shown, copy, history>>

\* Where a request begins.
Entrance(op) ==
    CASE op \in {"login", "loginOtp"} -> "find"
      [] op = "verify" -> "judge"
      [] op = "forgot" -> "forgot"
      [] op = "reset" -> "link"
      [] op = "refresh" -> "refresh"
      [] op \in {"register", "signup", "create"} -> "existing"
      [] op \in {"update", "disable", "enable"} -> "staff"
      [] OTHER -> "switch"

\* What may come with a request: a code (or a wrong one), a link, tokens.
Shows(op) ==
    CASE op = "verify" -> mailed \cup {Nothing}
      [] op = "reset" -> mailed
      [] op = "refresh" -> tokens
      [] op \in StaffOps -> {t \in tokens : Bearer(t)}
      [] OTHER -> {Nothing}

Start(r, i, x) ==
    /\ pc[r] = "idle"
    /\ req' = [req EXCEPT ![r] = i] /\ shown' = [shown EXCEPT ![r] = x]
    /\ Goto(r, Entrance(i.op))
    /\ late' = IF x \in spent THEN late \cup {r} ELSE late
    /\ barred' = [barred EXCEPT ![r] = Inactive]
    /\ UNCHANGED <<collections, copy, judged, floor, counted, spent, cut>>

-----------------------------------------------------------------------------
(* Passwords and one-time codes *)

\* login, requestLoginOtp: findActiveUserByEmail, then the password.
FindUser(r) ==
    /\ pc[r] = "find"
    /\ \/ \E u \in Found(r) :
            /\ u.password = req[r].password
            /\ copy' = [copy EXCEPT ![r] = u] /\ Goto(r, "tenant")
            /\ UNCHANGED <<collections, req, shown, history>>
       \/ (Found(r) = {} \/ \E u \in Found(r) : u.password # req[r].password) /\ Refuse(r)

ensureUserTenantIsActive(u) == u.tenant = Platform \/ u.tenant \notin closed

CheckTenant(r) ==
    /\ pc[r] = "tenant"
    /\ IF ~ensureUserTenantIsActive(copy[r]) THEN Refuse(r)
       ELSE /\ IF req[r].op = "login"
               THEN issueTokens(r, copy[r]) /\ Goto(r, "done")
               ELSE /\ Goto(r, IF req[r].op = "verify" THEN "spend" ELSE "store")
                    /\ UNCHANGED tokens
            /\ UNCHANGED <<users, customers, closed, mailed, lapsed, req, shown, copy, history>>

\* storeAndSendOtp: one update; the e-mail is on its way and may get lost.
StoreCode(r) ==
    /\ pc[r] = "store"
    /\ users' = Updated(copy[r].id, [u \in users |-> [u EXCEPT !.otp = r, !.tries = 0,
                    !.purpose = IF req[r].op = "signup" THEN "signup" ELSE "login"]])
    /\ \E m \in {mailed, mailed \cup {r}} : mailed' = m
    /\ Goto(r, "done")
    /\ UNCHANGED <<customers, closed, tokens, lapsed, req, shown, copy, history>>

\* E-mail is not configured, or the update throws.
StoreFails(r) ==
    /\ pc[r] = "store"
    /\ IF req[r].op = "signup"
       THEN Goto(r, "undoUser") /\ UNCHANGED <<collections, req, shown, copy, history>>
       ELSE Refuse(r)

CodeIsLive(r, u) == u.otp # Nothing /\ u.otp \notin lapsed /\ u.purpose = req[r].purpose

\* Slip: one attempt too many.
MayGuess_Inclusive(u) == u.tries <= MaxAttempts

MayGuess(u) == u.tries < MaxAttempts

\* verifyOtp up to the comparison, all of it on the user that was read.
JudgeCode(r) ==
    /\ pc[r] = "judge"
    /\ \/ \E u \in Found(r) :
            /\ CodeIsLive(r, u) /\ MayGuess(u)
            /\ copy' = [copy EXCEPT ![r] = u]
            /\ judged' = [judged EXCEPT ![r] = u.otp]
            /\ floor' = [floor EXCEPT ![r] = Cardinality({s \in counted : judged[s] = u.otp})]
            /\ Goto(r, IF shown[r] = u.otp THEN "tenant" ELSE "count")
            /\ UNCHANGED <<collections, req, shown, counted, spent, late, barred, cut>>
       \/ /\ Found(r) = {} \/ \E u \in Found(r) : ~(CodeIsLive(r, u) /\ MayGuess(u))
          /\ Refuse(r)

CountGuess(r) ==
    /\ pc[r] = "count"
    /\ users' = Updated(copy[r].id, [u \in users |-> [u EXCEPT !.tries = @ + 1]])
    /\ counted' = counted \cup {r}
    /\ Goto(r, "failed")
    /\ UNCHANGED <<customers, closed, tokens, mailed, lapsed, req, shown, copy, judged, floor,
                   spent, late, barred, cut>>

\* Slip: the counter is cleared and the code is not.
SpendCode_KeepsCode(r) ==
    /\ pc[r] = "spend"
    /\ users' = Updated(copy[r].id, [u \in users |-> [u EXCEPT !.tries = 0]])
    /\ spent' = spent \cup {shown[r]}
    /\ issueTokens(r, copy[r]) /\ Goto(r, "done")
    /\ UNCHANGED <<customers, closed, mailed, lapsed, req, shown, copy, judged, floor, counted,
                   late, barred, cut>>

\* $unset takes whatever code is there by now; the tokens are those of the copy.
SpendCode(r) ==
    /\ pc[r] = "spend"
    /\ users' = Updated(copy[r].id, [u \in users |-> [u EXCEPT !.otp = Nothing, !.tries = 0]])
    /\ spent' = spent \cup {shown[r]}
    /\ issueTokens(r, copy[r]) /\ Goto(r, "done")
    /\ UNCHANGED <<customers, closed, mailed, lapsed, req, shown, copy, judged, floor, counted,
                   late, barred, cut>>

MayRefresh(u, t) == u.id = t.user /\ u.active /\ u.tenant = t.tenant

refresh(r) ==
    /\ pc[r] = "refresh"
    /\ \/ \E u \in users :
            /\ MayRefresh(u, shown[r])
            /\ issueTokens(r, u) /\ Goto(r, "done")
            /\ UNCHANGED <<users, customers, closed, mailed, lapsed, req, shown, copy, history>>
       \/ (\A u \in users : ~MayRefresh(u, shown[r])) /\ Refuse(r)

-----------------------------------------------------------------------------
(* Reset links *)

FindForLink(r) ==
    /\ pc[r] = "forgot"
    /\ \/ \E u \in Found(r) :
            /\ copy' = [copy EXCEPT ![r] = u] /\ Goto(r, "setLink")
            /\ UNCHANGED <<collections, req, shown, history>>
       \/ Found(r) = {} /\ Refuse(r)

\* The e-mail arrives, or its failure will be handled after the answer.
StoreLink(r) ==
    /\ pc[r] = "setLink"
    /\ users' = Updated(copy[r].id, [u \in users |-> [u EXCEPT !.link = r]])
    /\ \/ mailed' = mailed \cup {r} /\ Goto(r, "done")
       \/ Goto(r, "bounce") /\ UNCHANGED mailed
    /\ UNCHANGED <<customers, closed, tokens, lapsed, req, shown, copy, history>>

\* Takes away whatever link is there, also a newer one.
Bounce(r) ==
    /\ pc[r] = "bounce"
    /\ users' = Updated(copy[r].id, [u \in users |-> [u EXCEPT !.link = Nothing]])
    /\ Goto(r, "done")
    /\ UNCHANGED <<customers, closed, tokens, mailed, lapsed, req, shown, copy, history>>

FindByLink(r) ==
    /\ pc[r] = "link"
    /\ LET holders == {u \in users : u.active /\ u.link = shown[r] /\ u.link \notin lapsed}
       IN  \/ \E u \in holders :
                /\ copy' = [copy EXCEPT ![r] = u] /\ Goto(r, "password")
                /\ UNCHANGED <<collections, req, shown, history>>
           \/ holders = {} /\ Refuse(r)

\* One update: the new password, and no link (whichever it is by now).
SetPassword(r) ==
    /\ pc[r] = "password"
    /\ users' = Updated(copy[r].id,
                        [u \in users |-> [u EXCEPT !.password = req[r].password, !.link = Nothing]])
    /\ spent' = spent \cup {shown[r]}
    /\ Goto(r, "done")
    /\ UNCHANGED <<customers, closed, tokens, mailed, lapsed, req, shown, copy, judged, floor,
                   counted, late, barred, cut>>

-----------------------------------------------------------------------------
(* Registration, and staff made by the owner *)

CheckAddress(r) ==
    /\ pc[r] = "existing"
    /\ IF TakenBy(HomeOf(r), req[r].email) # {} THEN Refuse(r)
       ELSE /\ Goto(r, IF req[r].op = "create" THEN "insert" ELSE "customer")
            /\ UNCHANGED <<collections, req, shown, copy, history>>

CreateCustomer(r) ==
    /\ pc[r] = "customer"
    /\ customers' = customers \cup {r}
    /\ Goto(r, "insert")
    /\ UNCHANGED <<users, closed, tokens, mailed, lapsed, req, shown, copy, history>>

\* The unique index (tenantId, email) decides.
InsertUser(r) ==
    /\ pc[r] = "insert" /\ TakenBy(HomeOf(r), req[r].email) = {}
    /\ users' = users \cup {NewUser(r)}
    /\ copy' = [copy EXCEPT ![r] = NewUser(r)]
    /\ IF req[r].op = "register" THEN issueTokens(r, NewUser(r)) ELSE UNCHANGED tokens
    /\ Goto(r, IF req[r].op = "signup" THEN "store" ELSE "done")
    /\ UNCHANGED <<customers, closed, mailed, lapsed, req, shown, history>>

\* Slip: an address that is taken is answered without taking the customer back.
InsertFails_Conflict(r) ==
    /\ pc[r] = "insert"
    /\ TakenBy(HomeOf(r), req[r].email) # {} /\ Refuse(r)

\* The address is taken, or the call throws.
InsertFails(r) ==
    /\ pc[r] = "insert"
    /\ IF req[r].op = "create" THEN Refuse(r)
       ELSE Goto(r, "undoCustomer") /\ UNCHANGED <<collections, req, shown, copy, history>>

\* The clean-up deletes; an error of a delete is swallowed.
UndoUser(r) ==
    /\ pc[r] = "undoUser"
    /\ \/ users' = {u \in users : u.id # copy[r].id} /\ UNCHANGED cut
       \/ cut' = cut \cup {r} /\ UNCHANGED users
    /\ Goto(r, "undoCustomer")
    /\ UNCHANGED <<customers, closed, tokens, mailed, lapsed, req, shown, copy, judged, floor,
                   counted, spent, late, barred>>

UndoCustomer(r) ==
    /\ pc[r] = "undoCustomer"
    /\ \/ customers' = customers \ {r} /\ UNCHANGED cut
       \/ cut' = cut \cup {r} /\ UNCHANGED customers
    /\ Goto(r, "failed")
    /\ UNCHANGED <<users, closed, tokens, mailed, lapsed, req, shown, copy, judged, floor,
                   counted, spent, late, barred>>

-----------------------------------------------------------------------------
(* Staff and switches *)

\* The user is sought in the tenant of the caller's token.
FindStaff(r) ==
    /\ pc[r] = "staff"
    /\ LET target == TakenBy(shown[r].tenant, req[r].email)
       IN  \/ \E u \in target :
                /\ copy' = [copy EXCEPT ![r] = u]
                /\ Goto(r, IF req[r].op = "update" /\ req[r].to # u.email THEN "dup" ELSE "write")
                /\ UNCHANGED <<collections, req, shown, history>>
           \/ target = {} /\ Refuse(r)

CheckDuplicate(r) ==
    /\ pc[r] = "dup"
    /\ IF {u \in TakenBy(copy[r].tenant, req[r].to) : u.id # copy[r].id} # {} THEN Refuse(r)
       ELSE Goto(r, "write") /\ UNCHANGED <<collections, req, shown, copy, history>>

UpdateStaff(r) ==
    /\ pc[r] = "write" /\ req[r].op = "update"
    /\ {u \in TakenBy(copy[r].tenant, req[r].to) : u.id # copy[r].id} = {}
    /\ users' = Updated(copy[r].id, [u \in users |-> [u EXCEPT !.email = req[r].to,
                            !.role = req[r].role, !.password = req[r].password]])
    /\ Goto(r, "done")
    /\ UNCHANGED <<customers, closed, tokens, mailed, lapsed, req, shown, copy, history>>

\* What is enabled has not been inactive all along, for anyone under way.
Unbar(x) == barred' = [s \in Requests |-> barred[s] \ {x}]

SwitchUser(r) ==
    /\ pc[r] = "write" /\ req[r].op \in {"disable", "enable"}
    /\ users' = Updated(copy[r].id, [u \in users |-> [u EXCEPT !.active = (req[r].op = "enable")]])
    /\ IF req[r].op = "enable" THEN Unbar(copy[r].id) ELSE UNCHANGED barred
    /\ Goto(r, "done")
    /\ UNCHANGED <<customers, closed, tokens, mailed, lapsed, req, shown, copy, judged, floor,
                   counted, spent, late, cut>>

\* Only the caller's own tenant.
SwitchTenant(r) ==
    /\ pc[r] = "switch"
    /\ IF req[r].op = "openTenant"
       THEN closed' = closed \ {shown[r].tenant} /\ Unbar(shown[r].tenant)
       ELSE closed' = closed \cup {shown[r].tenant} /\ UNCHANGED barred
    /\ Goto(r, "done")
    /\ UNCHANGED <<users, customers, tokens, mailed, lapsed, req, shown, copy, judged, floor,
                   counted, spent, late, cut>>

-----------------------------------------------------------------------------
(* The environment *)

\* A call throws, or the process stops; clean-up code that would have run is lost.
Fail(r) ==
    /\ pc[r] \notin Resting
    /\ cut' = IF req[r].op \in {"register", "signup"} THEN cut \cup {r} ELSE cut
    /\ Goto(r, "failed")
    /\ UNCHANGED <<collections, req, shown, copy, judged, floor, counted, spent, late, barred>>

\* Access tokens matter here to the staff routes only.
Lapse(n) ==
    /\ n \in (mailed \cup {t.by : t \in {u \in tokens : Bearer(u)}}) \ lapsed
    /\ lapsed' = lapsed \cup {n}
    /\ UNCHANGED <<users, customers, closed, tokens, mailed, pc, req, shown, copy, history>>

Init ==
    /\ users = Seeds /\ closed = {} /\ lapsed = {}
    /\ customers = {u.customer : u \in Seeds} \ {Nothing}
    /\ tokens = {TokenOf(u.id, u) : u \in Seeds}
    /\ mailed = {u.otp : u \in Seeds} \ {Nothing}
    /\ pc = [r \in Requests |-> "idle"]
    /\ req = [r \in Requests |-> CHOOSE i \in Intents : TRUE]
    /\ shown = [r \in Requests |-> Nothing]
    /\ copy = [r \in Requests |-> Nothing]
    /\ judged = [r \in Requests |-> Nothing]
    /\ floor = [r \in Requests |-> 0]
    /\ counted = {} /\ spent = {} /\ late = {} /\ cut = {}
    /\ barred = [r \in Requests |-> {}]

Step(r) ==
    \/ \E i \in Intents : \E x \in Shows(i.op) : Start(r, i, x)
    \/ FindUser(r) \/ CheckTenant(r) \/ StoreCode(r) \/ StoreFails(r)
    \/ JudgeCode(r) \/ CountGuess(r) \/ SpendCode(r) \/ refresh(r)
    \/ FindForLink(r) \/ StoreLink(r) \/ Bounce(r) \/ FindByLink(r) \/ SetPassword(r)
    \/ CheckAddress(r) \/ CreateCustomer(r) \/ InsertUser(r) \/ InsertFails(r)
    \/ UndoUser(r) \/ UndoCustomer(r)
    \/ FindStaff(r) \/ CheckDuplicate(r) \/ UpdateStaff(r) \/ SwitchUser(r) \/ SwitchTenant(r)
    \/ Fail(r)

Next == (\E r \in Requests : Step(r)) \/ \E n \in Names : Lapse(n)

Spec == Init /\ [][Next]_vars

-----------------------------------------------------------------------------
(* Properties *)

\* A code or link that has been used is not accepted from a request that
\* begins afterwards.
UsedOnce == \A r \in late : req[r].op \in {"verify", "reset"} => pc[r] # "done"

\* Once MaxAttempts wrong guesses at a code have been counted, no request that
\* begins to look at it then gets to compare another guess with it.
GuessesAreLimited == \A r \in Requests : judged[r] # Nothing => floor[r] < MaxAttempts

\* What a registration leaves behind is whole: no customer without a user and
\* no user without a customer, unless it is under way or its clean-up was cut.
RegistrationIsWhole ==
    /\ \A c \in customers \ cut :
        (\E u \in users : u.customer = c) \/ pc[c] \in {"insert", "undoCustomer"}
    /\ \A u \in users : u.customer \in customers \cup cut \cup {Nothing}

\* Nobody gets tokens from a request during the whole of which they were
\* disabled; a closed tenant stops logins and codes (and not refreshes).
DisabledGetNothing ==
    \A t \in tokens : t.by \in Requests =>
        /\ t.user \notin barred[t.by]
        /\ req[t.by].op # "refresh" => t.tenant \notin barred[t.by]

\* Admission is due: secrets admit once, and only those who are enabled,
\* whatever else is read, written and switched while the request runs.
AdmissionsAreDue == UsedOnce /\ DisabledGetNothing
=============================================================================
