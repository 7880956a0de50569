----------------------------- MODULE ClientSession -----------------------------
(***************************************************************************)
(* Who is signed in on a device: the tokens a client keeps in storage, the *)
(* user its screens show, and the tasks that change them while others run. *)
(* The four clients follow the same plan with different rules, so `app'    *)
(* says which one a behaviour is about: the phone application (a storage   *)
(* whose every access is awaited, one shared renewal), the two dashboards  *)
(* (a copy of the token in a store) and the customers' web application.    *)
(*                                                                         *)
(* One action is the code between two awaits: an answer from the server or *)
(* from SecureStore and what is done with it.  localStorage answers at     *)
(* once.  The server refuses access tokens that are `dead'; a sign-in and  *)
(* a renewal may be refused at any time, any answer may be lost, and       *)
(* SecureStore may fail to delete a token, which the phone takes lightly.  *)
(***************************************************************************)
EXTENDS Integers, FiniteSets

CONSTANTS
    Tasks,      \* names of what may be started: a sign-in, a page's request...
    Accounts,
    Fitting,    \* accounts with a role the dashboards accept
    Apps,       \* the clients to look at
    None

Clients == {"phone", "customer", "merchant", "admin"}
\* Who got it, whether by renewing another, and for whom.
Token == [by: Tasks \cup {None}, renewed: BOOLEAN, of: Accounts]
Held == Token \cup {None}

Kinds == {"init", "signIn", "signInByCode", "signOut", "load"}
Places == {"idle", "done", "post", "keepAccess", "keepRefresh", "check", "send", "sent",
           "renew", "wait", "clearAccess", "clearRefresh", "dropAccess", "dropRefresh"}
Job == [kind: Kinds, at: Places, account: Accounts \cup {None}, got: Held,
        again: BOOLEAN, cancelled: BOOLEAN]

ASSUME SessionAssumption ==
    /\ Apps \subseteq Clients /\ Apps # {} /\ Fitting \subseteq Accounts
    /\ None \notin Tasks \cup Accounts \cup Token
    /\ {"start", "out", "kept"} \cap Accounts = {}

VARIABLES
    app,
    access, refresh, \* access_token and refresh_token in the device's storage
    user, copy,      \* the account on the screens; the store's accessToken
    cached,          \* the account whose data the query cache holds under shared keys
    loading, booted, \* the start-up question is open; the page has asked it
    job,             \* the tasks
    renewal,         \* refreshPromise of the phone: where it is, whose it is, its token
    dead,            \* access tokens the server refuses
    gesture,         \* history: the last completed sign-in (its account) or sign-out,
                     \* "kept" if that could not delete what it should
    crossed,         \* history: a sign-in or -out ran while other work could write
    contested,       \* history: a sign-out ran beside a sign-in or the start-up question
    trouble          \* history: an answer was lost, or a refusal could not be cured

tokens == <<access, refresh, copy>>
device == <<tokens, user, cached, loading, booted>>
history == <<gesture, crossed, contested, trouble>>
sessionVars == <<app, device, job, renewal, dead, history>>

-----------------------------------------------------------------------------
(* Tasks *)

Idle == [kind |-> "load", at |-> "idle", account |-> None, got |-> None,
         again |-> FALSE, cancelled |-> FALSE]
Running == {t \in Tasks : job[t].at \notin {"idle", "done"}}
Mine(t) == [by |-> t, renewed |-> FALSE, of |-> job[t].account]
SigningIn(t) == job[t].kind \in {"signIn", "signInByCode"}

\* Slip: the start-up request of the dashboard is not cancelled.
Cancelling_Never(t) == FALSE

\* The effect of useAuthInit is cleaned up when the store's token or user changes.
Cancelling(t) ==
    /\ app = "merchant" /\ job[t].kind = "init" /\ job[t].at # "idle"
    /\ copy' # copy \/ user' # user

Effects(jobs) ==
    [t \in Tasks |-> IF Cancelling(t) THEN [jobs[t] EXCEPT !.cancelled = TRUE] ELSE jobs[t]]

Goto(t, l) == job' = [job EXCEPT ![t].at = l]
End(t) == job' = Effects([job EXCEPT ![t].at = "done"])

\* A request leaves with the token that is in storage when its interceptor runs.
Asking(kind) == [Idle EXCEPT !.kind = kind, !.got = access,
                             !.at = IF app = "phone" THEN "send" ELSE "sent"]

\* checkAuth of the phone returns at once while another one runs (checkingRef).
Checking ==
    \E t \in Running : /\ job[t].kind = "init" \/ SigningIn(t)
                       /\ job[t].at \notin {"post", "keepAccess", "keepRefresh"}

\* Work that may still write the tokens or the user.  The merchant dashboard's
\* own start-up request is cancelled by its effect, the others' are not.
Writing ==
    \/ renewal.at # "off"
    \/ \E t \in Running : \/ job[t].at \in {"renew", "wait", "clearAccess", "clearRefresh"}
                          \/ job[t].kind = "init" /\ app # "merchant"
                          \/ SigningIn(t)
\* Two of them at once, one of them a sign-in or a sign-out.
Crossing ==
    \E t \in Running : /\ SigningIn(t) \/ job[t].kind = "signOut"
                       /\ \/ \E u \in Running \ {t} :
                                \/ job[u].at \in {"renew", "wait", "clearAccess", "clearRefresh"}
                                \/ job[u].kind = "signOut" \/ SigningIn(u)
                                \/ job[u].kind = "init" /\ app # "merchant"
                                \/ job[u].kind = "load" /\ app = "phone" /\ ~job[u].cancelled
                                   /\ job[t].kind = "signOut"
                          \/ renewal.at # "off" /\ job[t].at # "wait"

\* A sign-out beside what may yet show a user, and the moment it is made.
Beside(t) == \E u \in Running \ {t} : SigningIn(u) \/ (job[u].kind = "init" /\ app # "merchant")
Contest == \E t \in Running : job[t].kind = "signOut" /\ Beside(t)

\* No token and no user are left: logout of the stores and of the contexts.
Cleared ==
    /\ access' = None /\ refresh' = None /\ user' = None /\ copy' = None
    /\ UNCHANGED cached

\* window.location: every task of the page is gone, the stores start again.
LeavePage ==
    /\ job' = [t \in Tasks |-> IF t \in Running THEN [job[t] EXCEPT !.at = "done"] ELSE job[t]]
    /\ user' = None /\ cached' = None /\ loading' = TRUE /\ booted' = FALSE
    /\ renewal' = [at |-> "off", by |-> None, got |-> None]
    /\ copy' = IF app \in {"merchant", "admin"} THEN access' ELSE None

-----------------------------------------------------------------------------
(* The page starts, a request is sent *)

\* checkAuth, useAuthInit, AdminGuard.  Nobody is asked when there is no token.
Boot(t) ==
    /\ ~booted /\ job[t].at = "idle" /\ booted' = TRUE
    /\ IF app = "phone"
       THEN job' = [job EXCEPT ![t] = [Idle EXCEPT !.kind = "init", !.at = "check"]]
            /\ UNCHANGED loading
       ELSE IF access = None
       THEN job' = [job EXCEPT ![t].at = "done"] /\ loading' = FALSE
       ELSE job' = [job EXCEPT ![t] = Asking("init")] /\ UNCHANGED loading
    /\ UNCHANGED <<app, tokens, user, cached, renewal, dead, gesture, trouble>>

CheckAuth(t) ==
    /\ job[t].at = "check"
    /\ IF access = None
       THEN user' = None /\ loading' = FALSE /\ Goto(t, "done")
       ELSE Goto(t, "send") /\ UNCHANGED <<user, loading>>
    /\ UNCHANGED <<app, tokens, cached, booted, renewal, dead, gesture, trouble>>

\* A page asks for something.
Load(t) ==
    /\ job[t].at = "idle" /\ booted
    /\ user # None \/ (app = "merchant" /\ copy # None /\ ~loading)
    /\ job' = [job EXCEPT ![t] = Asking("load")]
    /\ UNCHANGED <<app, device, renewal, dead, gesture, trouble>>

\* The phone's interceptor reads the storage; without a token there the header stays.
Attach(t) ==
    /\ job[t].at = "send"
    /\ job' = [job EXCEPT ![t].at = "sent", ![t].got = IF access = None THEN @ ELSE access]
    /\ UNCHANGED <<app, device, renewal, dead, gesture, trouble>>

-----------------------------------------------------------------------------
(* Answers *)

\* isMerchantDashboardUser, isAdminUser; the other clients ask for no role.
FitsIn(a) == app \in {"phone", "customer"} \/ a \in Fitting

\* The account is known: setUser, setAuth, or logout of who has no business here.
Welcome(t) ==
    LET a == job[t].got.of
    IN  /\ IF job[t].kind = "signInByCode" \/ (~FitsIn(a) /\ (app = "admin" \/ SigningIn(t)))
           THEN /\ IF app = "admin" /\ SigningIn(t)
                   THEN access' = None /\ UNCHANGED <<refresh, user, copy>>
                   ELSE access' = None /\ refresh' = None /\ user' = None /\ copy' = None
                /\ gesture' = "out"
           ELSE /\ user' = a
                /\ IF app = "admin" THEN access' = job[t].got /\ copy' = job[t].got
                                    ELSE UNCHANGED <<access, copy>>
                /\ gesture' = IF SigningIn(t) THEN a ELSE gesture
                /\ UNCHANGED refresh
        /\ loading' = FALSE /\ End(t)

\* Query keys that do not name the user: 'profile', 'activity', 'customers', 'staff'...
SharedKeys == app \in {"phone", "merchant"}

Answered(t) ==
    /\ job[t].at = "sent" /\ job[t].got # None /\ job[t].got \notin dead
    /\ IF job[t].kind = "load" \/ job[t].cancelled
       THEN /\ UNCHANGED <<tokens, user, loading, booted, gesture>> /\ End(t)
            /\ cached' = IF job[t].cancelled \/ ~SharedKeys THEN cached ELSE job[t].got.of
       ELSE Welcome(t) /\ UNCHANGED <<cached, booted>>
    /\ UNCHANGED <<app, renewal, dead, trouble>>

\* What a task does when its request has failed for good.
GiveUp(t, refused) ==
    LET kind == job[t].kind
    IN  \/ /\ kind = "load" \/ (kind = "signIn" /\ app \in {"merchant", "admin"})
           /\ UNCHANGED <<device, gesture>> /\ End(t)
        \/ /\ kind # "load" /\ app = "phone"
           /\ Goto(t, "dropAccess") /\ UNCHANGED <<device, gesture>>
        \/ /\ kind \in {"init", "signIn"} /\ app = "customer"
           /\ Cleared /\ End(t) /\ loading' = FALSE /\ UNCHANGED <<booted, gesture>>
        \/ /\ kind = "signInByCode" /\ app = "merchant"
           /\ Cleared /\ End(t) /\ gesture' = "out" /\ UNCHANGED <<loading, booted>>
        \/ /\ kind = "init" /\ app \in {"merchant", "admin"}
           /\ IF app = "admin" \/ (refused /\ ~job[t].cancelled)
              THEN Cleared
              ELSE UNCHANGED <<tokens, user, cached>>
           /\ End(t) /\ loading' = FALSE /\ UNCHANGED <<booted, gesture>>

MayRenew(t) ==
    /\ ~job[t].again /\ job[t].kind # "signInByCode"
    /\ app = "phone" \/ (app # "admin" /\ refresh # None)

\* 401: once per request the refresh token is tried; the phone joins a renewal under way.
Refused(t) ==
    /\ job[t].at = "sent" /\ job[t].got \in dead \cup {None}
    /\ IF MayRenew(t)
       THEN /\ IF app = "phone"
               THEN /\ Goto(t, "wait")
                    /\ IF renewal.at # "off" THEN UNCHANGED renewal
                       ELSE renewal' = [at |-> "read", by |-> t, got |-> None]
               ELSE job' = [job EXCEPT ![t].at = "renew", ![t].got = refresh]
                    /\ UNCHANGED renewal
            /\ UNCHANGED <<device, gesture, trouble>>
       ELSE /\ trouble' = (trouble \/ app = "admin" \/ job[t].got = None
                                   \/ Cardinality(dead) > 1)
            /\ IF app = "admin"
               THEN access' = None /\ LeavePage /\ UNCHANGED <<refresh, gesture>>
               ELSE GiveUp(t, TRUE) /\ UNCHANGED renewal
    /\ UNCHANGED <<app, dead>>

Lost(t) ==
    /\ job[t].at = "sent" /\ GiveUp(t, FALSE) /\ trouble' = TRUE
    /\ UNCHANGED <<app, renewal, dead>>

-----------------------------------------------------------------------------
(* Renewing the tokens *)

Renewed(t, token) == [by |-> t, renewed |-> TRUE, of |-> token.of]

\* Both new tokens are stored at once, then the request leaves again.
WebRenew(t) ==
    /\ job[t].at = "renew"
    /\ LET new == Renewed(t, job[t].got)
       IN  /\ access' = new /\ refresh' = new
           /\ job' = [job EXCEPT ![t].at = "sent", ![t].again = TRUE, ![t].got = new]
    /\ UNCHANGED <<app, copy, user, cached, loading, booted, renewal, dead, gesture, trouble>>

\* Refused or lost: the tokens that are there by now are removed, the page left.
WebRenewFails(t) ==
    /\ job[t].at = "renew"
    /\ access' = None /\ refresh' = None /\ LeavePage /\ trouble' = TRUE
    /\ UNCHANGED <<app, dead, gesture>>

\* Those that wait for the shared renewal go on, with its token or without.
Wake(at, token) ==
    /\ job' = [t \in Tasks |-> IF job[t].at # "wait" THEN job[t]
                               ELSE [job[t] EXCEPT !.at = at, !.again = TRUE, !.got = token]]
    /\ renewal' = [at |-> "off", by |-> None, got |-> None]

\* refreshAccessToken, one action per await.
RenewalReads ==
    /\ renewal.at = "read"
    /\ IF refresh = None THEN Wake("clearAccess", None)
       ELSE renewal' = [renewal EXCEPT !.at = "post", !.got = refresh] /\ UNCHANGED job
    /\ UNCHANGED <<app, device, dead, gesture, trouble>>

RenewalAnswered ==
    /\ renewal.at = "post"
    /\ renewal' = [renewal EXCEPT !.at = "keepAccess", !.got = Renewed(renewal.by, renewal.got)]
    /\ UNCHANGED <<app, device, job, dead, gesture, trouble>>

RenewalFails ==
    /\ renewal.at = "post" /\ Wake("clearAccess", None) /\ trouble' = TRUE
    /\ UNCHANGED <<app, device, dead, gesture>>

RenewalKeeps ==
    /\ \/ /\ renewal.at = "keepAccess" /\ access' = renewal.got
          /\ renewal' = [renewal EXCEPT !.at = "keepRefresh"] /\ UNCHANGED <<refresh, job>>
       \/ /\ renewal.at = "keepRefresh" /\ refresh' = renewal.got
          /\ Wake("send", renewal.got) /\ UNCHANGED access
    /\ UNCHANGED <<app, copy, user, cached, loading, booted, dead, gesture, trouble>>

\* Each request that had waited deletes both tokens, whatever they are by now,
\* and gives up at the first delete that fails.
AfterClearing(t) == IF job[t].kind = "load" THEN "done" ELSE "dropAccess"
ClearTokens(t) ==
    /\ \/ /\ job[t].at = "clearAccess" /\ access' = None /\ Goto(t, "clearRefresh")
          /\ UNCHANGED refresh
       \/ /\ job[t].at = "clearRefresh" /\ refresh' = None /\ Goto(t, AfterClearing(t))
          /\ UNCHANGED access
       \/ /\ job[t].at \in {"clearAccess", "clearRefresh"} /\ Goto(t, AfterClearing(t))
          /\ UNCHANGED <<access, refresh>>
    /\ UNCHANGED <<app, copy, user, cached, loading, booted, gesture, renewal, dead, trouble>>

-----------------------------------------------------------------------------
(* Signing in and out *)

\* handleLogin disables its button until its request has settled.
Submitting == \E u \in Running : SigningIn(u)

\* The pages for it are shown when nobody is.
SignIn(t, a, kind) ==
    /\ job[t].at = "idle" /\ booted /\ ~loading /\ user = None
    /\ ~Submitting
    /\ kind = "signInByCode" => app = "merchant"
    /\ job' = [job EXCEPT ![t] = [Idle EXCEPT !.kind = kind, !.at = "post", !.account = a]]
    /\ gesture' = "start"
    /\ UNCHANGED <<app, device, renewal, dead, trouble>>

\* setTokens changes the store, and with it the effect of useAuthInit runs again.
StartOver(t, jobs) ==
    \E u \in Tasks :
        /\ job[u].at = "idle"
        /\ job' = [Effects(jobs) EXCEPT ![u] = [Asking("init") EXCEPT !.got = Mine(t)]]

\* Where the tokens of an answered sign-in go, and what is asked next.
PhoneSignIn(t) ==
    /\ app = "phone" /\ job' = [job EXCEPT ![t].at = "keepAccess", ![t].got = Mine(t)]
    /\ UNCHANGED <<access, refresh, copy>>

AskingAsMine(t) == [job EXCEPT ![t].at = "sent", ![t].got = Mine(t)]

CustomerSignIn(t) ==
    /\ app = "customer" /\ access' = Mine(t) /\ refresh' = Mine(t) /\ UNCHANGED copy
    /\ job' = AskingAsMine(t)

\* Into the storage only; the store follows when the role is known.
AdminSignIn(t) ==
    /\ app = "admin" /\ access' = Mine(t) /\ UNCHANGED <<refresh, copy>>
    /\ job' = AskingAsMine(t)

\* handleLogin and the login after handleSignup.
StaffSignIn(t) ==
    /\ app = "merchant" /\ job[t].kind = "signIn"
    /\ access' = Mine(t) /\ refresh' = Mine(t) /\ copy' = Mine(t)
    /\ StartOver(t, AskingAsMine(t))

\* handleAdminOtpVerify asks with its token before anything is stored.
CodeSignIn(t) ==
    /\ app = "merchant" /\ job[t].kind = "signInByCode"
    /\ job' = AskingAsMine(t) /\ UNCHANGED <<access, refresh, copy>>

SignInAnswered(t) ==
    /\ job[t].at = "post" /\ UNCHANGED user
    /\ \/ PhoneSignIn(t) \/ CustomerSignIn(t) \/ AdminSignIn(t)
       \/ StaffSignIn(t) \/ CodeSignIn(t)
    /\ UNCHANGED <<app, cached, loading, booted, renewal, dead, gesture, trouble>>

SignInFails(t) ==
    /\ job[t].at = "post"
    /\ IF job[t].kind = "signInByCode" THEN Cleared /\ gesture' = "out"
       ELSE UNCHANGED <<tokens, user, cached, gesture>>
    /\ End(t) /\ trouble' = TRUE
    /\ UNCHANGED <<app, loading, booted, renewal, dead>>

KeepTokens(t) ==
    /\ \/ job[t].at = "keepAccess" /\ access' = job[t].got /\ Goto(t, "keepRefresh")
          /\ UNCHANGED refresh
       \/ job[t].at = "keepRefresh" /\ refresh' = job[t].got
          /\ Goto(t, IF Checking THEN "done" ELSE "check") /\ UNCHANGED access
    /\ UNCHANGED <<app, copy, user, cached, loading, booted, renewal, dead, gesture, trouble>>

\* _clearTokens, then setUser(null) whether or not it could delete them: of
\* logout and of a failed check.
Dropped(t, sign) ==
    /\ Goto(t, "done") /\ user' = None /\ loading' = FALSE
    /\ gesture' = IF job[t].kind = "signOut" THEN sign ELSE gesture
DropTokens(t) ==
    /\ \/ job[t].at = "dropAccess" /\ access' = None /\ Goto(t, "dropRefresh")
          /\ UNCHANGED <<refresh, user, loading, gesture>>
       \/ job[t].at = "dropRefresh" /\ refresh' = None /\ Dropped(t, "out") /\ UNCHANGED access
       \/ job[t].at \in {"dropAccess", "dropRefresh"} /\ Dropped(t, "kept")
          /\ UNCHANGED <<access, refresh>>
    /\ UNCHANGED <<app, copy, cached, booted, renewal, dead, trouble>>

\* Slip: what the cache holds, and what it is waiting for, stays.
WipeCache_Not(t) ==
    /\ job' = [job EXCEPT ![t] = [Idle EXCEPT !.kind = "signOut", !.at = "dropAccess"]]
    /\ UNCHANGED cached

\* queryClient.clear() first: answers still to come find no query to fill.
WipeCache(t) ==
    /\ job' = [u \in Tasks |->
                  IF u = t THEN [Idle EXCEPT !.kind = "signOut", !.at = "dropAccess"]
                  ELSE [job[u] EXCEPT !.cancelled = @ \/ (u \in Running /\ job[u].kind = "load")]]
    /\ cached' = None

SignOut(t) ==
    /\ job[t].at = "idle" /\ user # None
    /\ IF app = "phone"
       THEN WipeCache(t) /\ UNCHANGED <<tokens, user, loading, gesture>>
       ELSE /\ Cleared /\ loading' = FALSE /\ gesture' = "out"
            /\ End(t)
    /\ UNCHANGED <<app, booted, renewal, dead, trouble>>

-----------------------------------------------------------------------------
(* The world, and the specification *)

\* The page is loaded again, or the application restarted.  Tokens that survived
\* a sign-out make it a new beginning.
LoadAgain ==
    /\ booted /\ UNCHANGED <<access, refresh>> /\ LeavePage
    /\ gesture' = IF \/ \E t \in Running : job[t].kind = "signOut"
                    \/ gesture = "kept" \/ (gesture = "out" /\ crossed /\ access # None)
                  THEN "start" ELSE gesture
    /\ UNCHANGED <<app, dead, trouble>>

Expire ==
    /\ access # None /\ dead' = dead \cup {access}
    /\ UNCHANGED <<app, device, job, renewal, gesture, trouble>>

SessionInit ==
    /\ app \in Apps
    /\ access \in {None} \cup {[by |-> None, renewed |-> FALSE, of |-> a] : a \in Accounts}
    /\ refresh = IF app = "admin" THEN None ELSE access
    /\ copy = IF app \in {"merchant", "admin"} THEN access ELSE None
    /\ user = None /\ cached = None /\ loading = TRUE /\ booted = FALSE
    /\ job = [t \in Tasks |-> Idle]
    /\ renewal = [at |-> "off", by |-> None, got |-> None]
    /\ dead = {}
    /\ gesture = "start" /\ crossed = FALSE /\ contested = FALSE /\ trouble = FALSE

Request(t) == Boot(t) \/ CheckAuth(t) \/ Load(t) \/ Attach(t)
Answer(t) == Answered(t) \/ Refused(t) \/ Lost(t)
Renewal ==
    \/ RenewalReads \/ RenewalAnswered \/ RenewalFails \/ RenewalKeeps
    \/ \E t \in Tasks : WebRenew(t) \/ WebRenewFails(t) \/ ClearTokens(t)
SignInStep(t) ==
    \/ \E a \in Accounts, kind \in {"signIn", "signInByCode"} : SignIn(t, a, kind)
    \/ SignInAnswered(t) \/ SignInFails(t) \/ KeepTokens(t)
World == LoadAgain \/ Expire

SessionNext ==
    \/ /\ \/ \E t \in Tasks : Request(t) \/ Answer(t) \/ SignInStep(t) \/ DropTokens(t)
          \/ Renewal \/ World
       /\ crossed' = (crossed \/ Crossing') /\ contested' = (contested \/ Contest)
    \/ \E t \in Tasks : /\ SignOut(t) /\ crossed' = (crossed \/ Writing \/ Crossing')
                        /\ contested' = (contested \/ Beside(t))

SessionSpec == SessionInit /\ [][SessionNext]_sessionVars

-----------------------------------------------------------------------------
(* Properties *)

SessionTypeOK ==
    /\ app \in Apps /\ {access, refresh, copy} \subseteq Held
    /\ {user, cached} \subseteq Accounts \cup {None}
    /\ {loading, booted, crossed, contested, trouble} \subseteq BOOLEAN /\ job \in [Tasks -> Job]
    /\ dead \subseteq Token
    /\ gesture \in {"start", "out", "kept"} \cup Accounts

AtRest == Running = {} /\ renewal.at = "off" /\ booted

\* Whoever has signed out, or was turned away, is out.  No user is shown from then
\* until the next start: neither by answers and renewals that were under way, nor
\* by the dashboard's start-up request beside its login - though a renewal that
\* meets the sign-out may leave its tokens behind, and so may a delete that fails.
\* Where neither happened no token is left to be found at the next start
\* (AuthContext.tsx, apiClient.ts, authStore.ts, useAuthInit.ts).
OutMeansOut ==
    /\ gesture \in {"out", "kept"} /\ ~contested => user = None
    /\ AtRest /\ gesture = "out" /\ ~crossed => {access, refresh, copy, user} = {None}

\* Whoever has signed in stays in, as the same account on the screens, in the
\* requests and (on the phone) in the cached data, whatever the pages ask and
\* although the access token expires: only lost answers, a refused renewal or a
\* crossing may end it (the interceptors).
InMeansIn ==
    AtRest /\ gesture \in Accounts /\ ~crossed /\ ~trouble
        => /\ user = gesture /\ access # None /\ access.of = gesture
           /\ app # "admin" => refresh # None /\ refresh.of = gesture
           /\ app = "phone" => cached \in {gesture, None}

=============================================================================
