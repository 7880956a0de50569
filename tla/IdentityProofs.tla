---------------------------- MODULE IdentityProofs ----------------------------
(***************************************************************************)
(* IdentityInv is inductive, for any users at the start, requests, intents *)
(* and limit on attempts.  Its parts say of every secret who can hold it,  *)
(* of every guess what it was counted against, of every account what made  *)
(* it, and of whoever is barred that they are inactive.  Nearly every step *)
(* moves one request from a label to another: what such a step may write   *)
(* is said once (Moves to Admits), and shown to keep each part (TypeKept   *)
(* to BarsKept); then each action is shown to write no more than that.     *)
(***************************************************************************)
EXTENDS Identity, FiniteSetTheorems, TLAPS

Registering == {"register", "signup"}
Makers == Registering \cup {"create"}

Labels == Resting \cup
    {"find", "tenant", "store", "judge", "count", "spend", "refresh", "forgot", "setLink",
     "bounce", "link", "password", "existing", "customer", "insert", "undoUser",
     "undoCustomer", "staff", "dup", "write", "switch"}

\* Labels at which a request works on the user it has read.
Holding == {"tenant", "store", "count", "spend", "setLink", "bounce", "password", "dup",
            "write", "undoUser"}

TypeOK ==
    /\ users \subseteq User /\ customers \subseteq Names /\ closed \subseteq Tenants
    /\ mailed \subseteq Names /\ spent \subseteq mailed
    /\ \A t \in tokens : /\ t.by \in Names /\ t.tenant \in Tenants \cup {Platform}
                         /\ Grants(t.scopes, "merchant") => t.tenant # Platform
    /\ pc \in [Requests -> Labels] /\ req \in [Requests -> Intents]
    /\ shown \in [Requests -> Names \cup tokens \cup {Nothing}]
    /\ copy \in [Requests -> User \cup {Nothing}]
    /\ \A r \in Requests : pc[r] \in Holding => copy[r] \in User
    /\ judged \in [Requests -> Names \cup {Nothing}] /\ floor \in [Requests -> Nat]
    /\ counted \subseteq Requests /\ late \subseteq Requests /\ cut \subseteq Requests
    /\ barred \in [Requests -> SUBSET (Names \cup Tenants)]

\* Requests for op come to the label l.
Fits(op, l) ==
    /\ l = "find" => op \in {"login", "loginOtp"}
    /\ l = "tenant" => op \in {"login", "loginOtp", "verify"}
    /\ l = "store" => op \in {"loginOtp", "signup"}
    /\ l \in {"judge", "count", "spend"} => op = "verify"
    /\ l = "refresh" => op = "refresh"
    /\ l \in {"forgot", "setLink", "bounce"} => op = "forgot"
    /\ l \in {"link", "password"} => op = "reset"
    /\ l \in {"existing", "insert"} => op \in Makers
    /\ l \in {"customer", "undoCustomer"} => op \in Registering
    /\ l = "undoUser" => op = "signup"
    /\ l \in {"staff", "dup", "write"} => op \in {"update", "disable", "enable"}
    /\ l = "switch" => op \in {"closeTenant", "openTenant"}

\* A request is where its intent leads it, with what was there to be shown.
RequestsInOrder ==
    \A r \in Requests :
        /\ Fits(req[r].op, pc[r])
        /\ pc[r] # "idle" =>
              /\ req[r].op = "verify" => shown[r] \in mailed \cup {Nothing}
              /\ req[r].op = "reset" => shown[r] \in mailed
              /\ req[r].op = "refresh" => shown[r] \in tokens
              /\ req[r].op \in StaffOps =>
                    shown[r] \in tokens /\ Grants(shown[r].scopes, "merchant")

IsCode(x) == x \in SeedNames \/ (x \in Requests /\ req[x].op \in {"loginOtp", "signup"})
IsLink(x) == x \in Requests /\ req[x].op = "forgot"

\* A code or link is held by one user at most, is not made again, and is gone
\* once it has been used.
SecretsHold ==
    /\ \A u, v \in users :
          u.id = v.id \/ (u.otp = v.otp /\ u.otp # Nothing) \/ (u.link = v.link /\ u.link # Nothing)
              => u = v
    /\ \A u \in users :
          /\ u.otp # Nothing => IsCode(u.otp) /\ (u.otp \in Requests => pc[u.otp] = "done")
          /\ u.link # Nothing => IsLink(u.link) /\ pc[u.link] \in {"bounce", "done", "failed"}
          /\ u.otp \notin spent /\ u.link \notin spent
    /\ \A x \in mailed \intersect Requests : pc[x] = "done"
    /\ Nothing \notin spent
    /\ \A r \in Requests :
          /\ req[r].op = "verify" /\ pc[r] \in {"tenant", "spend"} =>
                /\ shown[r] \in mailed /\ IsCode(shown[r])
                /\ \A u \in users : u.otp = shown[r] => u.id = copy[r].id
          /\ pc[r] = "password" =>
                /\ IsLink(shown[r])
                /\ \A u \in users : u.link = shown[r] => u.id = copy[r].id
    /\ \A r \in late :
          /\ shown[r] \in spent /\ pc[r] # "idle"
          /\ req[r].op \in {"verify", "reset"} => pc[r] \in {"judge", "count", "link", "failed"}

GuessesAt(code) == {s \in counted : judged[s] = code}

\* A code's counter is no less than the number of guesses counted against it.
GuessesHold ==
    /\ \A r \in counted : pc[r] = "failed" /\ judged[r] # Nothing
    /\ \A r \in Requests :
          /\ judged[r] \in Requests => pc[judged[r]] = "done"
          /\ pc[r] = "count" =>
                /\ judged[r] # Nothing
                /\ \A u \in users : u.otp = judged[r] => u.id = copy[r].id
    /\ \A u \in users : u.otp # Nothing => Cardinality(GuessesAt(u.otp)) <= u.tries
    /\ GuessesAreLimited

\* Users and customers are made by requests on their way, in that order.
AccountsHold ==
    /\ \A u \in users :
          /\ u.tenant = Platform <=> u.role = "CUSTOMER"
          /\ u.customer \in Requests => u.customer = u.id
          /\ u.id \in Requests =>
                /\ u.customer \in {u.id, Nothing}
                /\ pc[u.id] \notin {"idle", "existing", "customer", "insert"}
                /\ pc[u.id] = "undoCustomer" => u.id \in cut
    /\ \A c \in customers \intersect Requests :
          req[c].op \in Registering /\ pc[c] \notin {"idle", "existing", "customer"}
    /\ \A c \in customers \ Requests : \E u \in users : u.customer = c
    /\ \A r \in Requests :
          /\ req[r].op \in Registering /\ pc[r] = "insert" => r \in customers
          /\ req[r].op = "signup" /\ pc[r] \in {"store", "undoUser"} => copy[r].id = r
          /\ pc[r] \in {"tenant", "spend"} /\ copy[r].tenant = Platform =>
                copy[r].role = "CUSTOMER"
          /\ pc[r] \in {"dup", "write"} =>
                /\ copy[r].id \in Requests =>
                      pc[copy[r].id] \notin {"idle", "existing", "customer", "insert"}
                /\ \A u \in users : u.id = copy[r].id => u.tenant # Platform
    /\ RegistrationIsWhole

\* Who is barred is inactive, was there when the request began, and is not whom
\* a request admits.
BarsHold ==
    /\ \A s \in Requests :
          /\ \A u \in users : u.id \in barred[s] => ~u.active
          /\ barred[s] \intersect Tenants \subseteq closed
          /\ \A r \in barred[s] \intersect Requests :
                pc[r] \notin {"idle", "existing", "customer", "insert"}
          /\ pc[s] \in {"tenant", "spend"} => copy[s].id \notin barred[s]
          /\ pc[s] = "spend" => copy[s].tenant \notin barred[s]
    /\ \A t \in tokens : t.by \in Requests => pc[t.by] = "done"
    /\ DisabledGetNothing

IdentityInv ==
    TypeOK /\ RequestsInOrder /\ SecretsHold /\ GuessesHold /\ AccountsHold /\ BarsHold

-----------------------------------------------------------------------------
(* What the steps of a request on its way have in common: r goes to a label, *)
(* and each part of the invariant asks something of the label and of what    *)
(* is written.                                                              *)

\* r moves, and keeps to itself.
Moves(r, to) ==
    /\ pc[r] \notin Resting /\ to \in Labels \ {"idle"} /\ Goto(r, to)
    /\ UNCHANGED <<req, shown, late>>
    /\ \/ customers' = customers
       \/ customers' = customers \cup {r} /\ pc[r] = "customer" /\ to = "insert"
       \/ customers' = customers \ {r} /\ pc[r] = "undoCustomer"
    /\ pc[r] = "customer" /\ to = "insert" => r \in customers'
    /\ copy' \in [Requests -> User \cup {Nothing}]
    /\ \A s \in Requests \ {r} : copy'[s] = copy[s]
    /\ cut \subseteq cut' /\ cut' \subseteq cut \cup {r}
    /\ to \in Holding => copy'[r] \in User
    /\ Fits(req[r].op, to)

\* The user v is what a step of r has made of the user u.
Follows(r, to, u, v) ==
    /\ v.id = u.id /\ v.tenant = u.tenant /\ v.customer = u.customer
    /\ v.role = u.role \/ (u.tenant # Platform /\ v.role \in StaffRoles)
    /\ \/ v.otp \in {u.otp, Nothing}
       \/ v.otp = r /\ v.id = copy[r].id /\ to = "done" /\ IsCode(r)
    /\ \/ v.link \in {u.link, Nothing}
       \/ v.link = r /\ v.id = copy[r].id /\ pc[r] = "setLink"
             /\ to \in {"bounce", "done"} /\ IsLink(r)
    /\ v.otp = u.otp /\ v.otp # Nothing => u.tries <= v.tries
    /\ v.otp = u.otp /\ v.otp # Nothing /\ r \in counted' \ counted /\ u.id = copy[r].id =>
          u.tries + 1 <= v.tries
    /\ u.active = v.active \/ ~v.active \/ \A s \in Requests : v.id \notin barred'[s]

UpdatesUsers(r, to) ==
    /\ users' \subseteq User
    /\ \A v, w \in users' : v.id = w.id => v = w
    /\ \A u \in users :
          \/ \E v \in users' : v.id = u.id /\ v.customer = u.customer
          \/ pc[r] = "undoUser" /\ to = "undoCustomer" /\ u.id = r
    /\ \A v \in users' : \E u \in users : Follows(r, to, u, v)

Mails(r, to) ==
    mailed' = mailed \/ (mailed' = mailed \cup {r} /\ to = "done")

Spends(r, to) ==
    \/ spent' = spent
    \/ /\ spent' = spent \cup {shown[r]} /\ shown[r] \in mailed
       /\ \A v \in users' : v.otp # shown[r] /\ v.link # shown[r]

\* What r must know of the secret it shows to go on.
MayShow(r, to) ==
    /\ req[r].op = "verify" /\ to \in {"tenant", "spend"} =>
          /\ shown[r] \in mailed /\ IsCode(shown[r])
          /\ \A u \in users : u.otp = shown[r] => u.id = copy'[r].id
    /\ to = "password" =>
          /\ IsLink(shown[r])
          /\ \A u \in users : u.link = shown[r] => u.id = copy'[r].id
    /\ r \in late /\ req[r].op \in {"verify", "reset"} => to \in {"judge", "count", "link", "failed"}
    /\ pc[r] = "bounce" => to \in {"done", "failed"}

\* r's guess is not counted again, or r begins to guess at the code of the user it reads.
Counts(r, to) ==
    \/ /\ to # "count" /\ UNCHANGED <<judged, floor>>
       /\ counted' = counted \/ (counted' = counted \cup {r} /\ pc[r] = "count" /\ to = "failed")
    \/ /\ pc[r] = "judge" /\ UNCHANGED <<users, counted>>
       /\ \E u \in users :
             /\ u.otp # Nothing /\ MayGuess(u) /\ copy'[r] = u
             /\ judged' = [judged EXCEPT ![r] = u.otp]
             /\ floor' = [floor EXCEPT ![r] = Cardinality(GuessesAt(u.otp))]

MakesAccount(r, to) ==
    /\ to \in {"existing", "customer", "insert"} => pc[r] \in {"existing", "customer", "insert"}
    /\ to \in {"existing", "customer"} => r \notin customers'
    /\ req[r].op \in Registering /\ to = "insert" => pc[r] = "customer"
    /\ req[r].op = "signup" /\ to \in {"store", "undoUser"} => copy'[r].id = r
    /\ to \in {"tenant", "spend"} /\ copy'[r].tenant = Platform => copy'[r].role = "CUSTOMER"
    /\ to \in {"dup", "write"} =>
          /\ copy'[r].id \in Requests =>
                pc[copy'[r].id] \notin {"idle", "existing", "customer", "insert"}
          /\ \A u \in users : u.id = copy'[r].id => u.tenant # Platform
    /\ to = "undoCustomer" => pc[r] = "insert" \/ r \in cut' \/ \A v \in users' : v.id # r
    /\ pc[r] \in {"insert", "undoCustomer"} =>
          to \in {"insert", "undoCustomer"} \/ r \notin customers' \/ r \in cut'

\* Whom r admits, and who is barred.
Admits(r, to) ==
    /\ tokens \subseteq tokens'
    /\ \A t \in tokens' \ tokens :
          /\ t.by = r /\ to = "done" /\ t.tenant \in Tenants \cup {Platform}
          /\ Grants(t.scopes, "merchant") => t.tenant # Platform
          /\ t.user \notin barred[r]
          /\ req[r].op # "refresh" => t.tenant \notin barred[r]
    /\ closed' \subseteq Tenants
    /\ barred' \in [Requests -> SUBSET (Names \cup Tenants)]
    /\ \A s \in Requests :
          barred'[s] \subseteq barred[s] /\ barred'[s] \intersect Tenants \subseteq closed'
    /\ to \in {"tenant", "spend"} => copy'[r].id \notin barred[r]
    /\ to = "spend" => copy'[r].tenant \notin barred[r]

\* Where the requests are after r has moved.
LEMMA WhereTheyAre ==
    ASSUME TypeOK, NEW r \in Requests, NEW to, Moves(r, to)
    PROVE  /\ pc[r] \notin Resting /\ pc'[r] = to /\ pc' \in [Requests -> Labels]
           /\ \A s \in Requests \ {r} : pc'[s] = pc[s]
BY DEF TypeOK, Moves, Goto

\* Values stay in their sets.
LEMMA TypeKept ==
    ASSUME TypeOK, NEW r \in Requests, NEW to, Moves(r, to), users' \subseteq User, Mails(r, to),
           Spends(r, to), Counts(r, to), Admits(r, to)
    PROVE  TypeOK'
<1>1. /\ pc' \in [Requests -> Labels]
      /\ \A s \in Requests : pc'[s] \in Holding => copy'[s] \in User
  BY WhereTheyAre DEF Moves, TypeOK
<1>2. shown' \in [Requests -> Names \cup tokens' \cup {Nothing}]
  BY DEF TypeOK, Moves, Admits
<1>3. r \in Names /\ mailed' \subseteq Names /\ spent' \subseteq mailed'
  BY DEF TypeOK, Mails, Spends, Names
<1>4. \A t \in tokens' : /\ t.by \in Names /\ t.tenant \in Tenants \cup {Platform}
                         /\ Grants(t.scopes, "merchant") => t.tenant # Platform
  BY <1>3 DEF TypeOK, Admits
<1>5. counted' \subseteq Requests /\ cut' \subseteq Requests /\ late' \subseteq Requests
  BY DEF TypeOK, Counts, Moves
<1>6. /\ users' \subseteq User /\ customers' \subseteq Names /\ closed' \subseteq Tenants
      /\ req' \in [Requests -> Intents] /\ copy' \in [Requests -> User \cup {Nothing}]
      /\ barred' \in [Requests -> SUBSET (Names \cup Tenants)]
  BY <1>3 DEF TypeOK, Moves, Admits
<1>8. judged' \in [Requests -> Names \cup {Nothing}] /\ floor' \in [Requests -> Nat]
  <2>1. ASSUME NEW u \in users PROVE Cardinality(GuessesAt(u.otp)) \in Nat
    BY SeedsAssumption, FS_Subset, FS_CardinalityType DEF GuessesAt, TypeOK
  <2> QED BY <2>1 DEF TypeOK, Counts, User
<1>7. (\A t \in tokens : /\ t.by \in Names /\ t.tenant \in Tenants \cup {Platform}
                         /\ Grants(t.scopes, "merchant") => t.tenant # Platform)'
  BY <1>4 DEF Grants
<1> QED BY <1>1, <1>2, <1>3, <1>5, <1>6, <1>7, <1>8 DEF TypeOK

\* Every request stays where its intent leads it, as r goes to a label that fits
\* what it asks for and what it showed is still there.
LEMMA OrderKept ==
    ASSUME TypeOK, RequestsInOrder, NEW r \in Requests, NEW to, Moves(r, to), Mails(r, to),
           Admits(r, to)
    PROVE  RequestsInOrder'
<1>1. /\ UNCHANGED <<req, shown>> /\ mailed \subseteq mailed' /\ tokens \subseteq tokens'
      /\ \A s \in Requests : Fits(req[s].op, pc'[s])
      /\ \A s \in Requests : pc'[s] # "idle" => pc[s] # "idle"
  BY WhereTheyAre DEF Moves, Mails, Admits, RequestsInOrder, Resting
<1> QED BY <1>1 DEF RequestsInOrder, Fits, Grants

\* A code or link stays with one user: the only one that appears is named after
\* the request that makes it, and what is spent is gone from every user.
LEMMA SecretsKept ==
    ASSUME TypeOK, RequestsInOrder, SecretsHold, NEW r \in Requests, NEW to, Moves(r, to),
           UpdatesUsers(r, to), Mails(r, to), Spends(r, to), MayShow(r, to)
    PROVE  SecretsHold'
<1>a. /\ UNCHANGED <<req, shown, late>>
      /\ \A x : IsCode(x)' = IsCode(x) /\ IsLink(x)' = IsLink(x)
      /\ \A s \in Requests \ {r} : copy'[s] = copy[s]
  BY DEF Moves, IsCode, IsLink
<1>b. /\ r \notin mailed /\ Nothing # r /\ mailed \subseteq mailed'
      /\ \A u \in users : u.otp # r
      /\ \A u \in users : u.link = r => pc[r] = "bounce"
      /\ \A x : IsLink(x) => x \in Requests
  BY WhereTheyAre, IdentityNamesAssumption DEF SecretsHold, Resting, Mails, Names, IsLink
<1>1. (\A u, v \in users :
          u.id = v.id \/ (u.otp = v.otp /\ u.otp # Nothing) \/ (u.link = v.link /\ u.link # Nothing)
              => u = v)'
  <2> SUFFICES ASSUME NEW v \in users', NEW w \in users',
                      v.id = w.id \/ (v.otp = w.otp /\ v.otp # Nothing)
                          \/ (v.link = w.link /\ v.link # Nothing)
               PROVE  v.id = w.id
    BY DEF UpdatesUsers
  <2>1. PICK u \in users : Follows(r, to, u, v)
    BY DEF UpdatesUsers
  <2>2. PICK x \in users : Follows(r, to, x, w)
    BY DEF UpdatesUsers
  <2>3. CASE v.otp = w.otp /\ v.otp # Nothing
    BY <1>b, <2>1, <2>2, <2>3 DEF Follows, SecretsHold
  <2>4. CASE v.link = w.link /\ v.link # Nothing
    BY <1>b, <2>1, <2>2, <2>4 DEF Follows, SecretsHold
  <2> QED BY <2>3, <2>4
<1>2. (\A u \in users :
          /\ u.otp # Nothing => IsCode(u.otp) /\ (u.otp \in Requests => pc[u.otp] = "done")
          /\ u.link # Nothing => IsLink(u.link) /\ pc[u.link] \in {"bounce", "done", "failed"}
          /\ u.otp \notin spent /\ u.link \notin spent)'
  <2> SUFFICES ASSUME NEW v \in users'
               PROVE  /\ v.otp # Nothing => IsCode(v.otp) /\ (v.otp \in Requests => pc'[v.otp] = "done")
                      /\ v.link # Nothing =>
                            IsLink(v.link) /\ pc'[v.link] \in {"bounce", "done", "failed"}
                      /\ v.otp \notin spent' /\ v.link \notin spent'
    BY <1>a
  <2>1. PICK u \in users : Follows(r, to, u, v)
    BY DEF UpdatesUsers
  <2>2. v.otp # Nothing => IsCode(v.otp) /\ (v.otp \in Requests => pc'[v.otp] = "done")
    BY <1>b, <2>1, WhereTheyAre DEF Follows, SecretsHold
  <2>3. v.link # Nothing => IsLink(v.link) /\ pc'[v.link] \in {"bounce", "done", "failed"}
    BY <1>b, <2>1, WhereTheyAre DEF Follows, SecretsHold, MayShow
  <2>4. v.otp \notin spent' /\ v.link \notin spent'
    BY <1>b, <2>1 DEF Follows, SecretsHold, Spends, TypeOK
  <2> QED BY <2>2, <2>3, <2>4
<1>3. (\A x \in mailed \intersect Requests : pc[x] = "done")' /\ Nothing \notin spent'
  BY WhereTheyAre, IdentityNamesAssumption DEF SecretsHold, Mails, Spends, Resting, TypeOK
<1>4. (\A s \in Requests :
          /\ req[s].op = "verify" /\ pc[s] \in {"tenant", "spend"} =>
                /\ shown[s] \in mailed /\ IsCode(shown[s])
                /\ \A u \in users : u.otp = shown[s] => u.id = copy[s].id
          /\ pc[s] = "password" =>
                /\ IsLink(shown[s])
                /\ \A u \in users : u.link = shown[s] => u.id = copy[s].id)'
  <2> SUFFICES ASSUME NEW s \in Requests
               PROVE  /\ req[s].op = "verify" /\ pc'[s] \in {"tenant", "spend"} =>
                            /\ shown[s] \in mailed' /\ IsCode(shown[s])
                            /\ \A v \in users' : v.otp = shown[s] => v.id = copy'[s].id
                      /\ pc'[s] = "password" =>
                            /\ IsLink(shown[s])
                            /\ \A v \in users' : v.link = shown[s] => v.id = copy'[s].id
    BY <1>a
  <2>1. /\ pc'[s] \in {"tenant", "spend"} /\ req[s].op = "verify" => shown[s] \in mailed
        /\ pc'[s] = "password" => shown[s] \in mailed
    BY WhereTheyAre DEF Moves, RequestsInOrder, SecretsHold, MayShow, Fits, Resting
  <2>2. ASSUME NEW v \in users', NEW u \in users, Follows(r, to, u, v)
        PROVE  /\ v.id = u.id
               /\ v.otp \in mailed => v.otp = u.otp \/ v.otp = Nothing
               /\ v.link \in mailed => v.link = u.link \/ v.link = Nothing
    BY <1>b, <2>2 DEF Follows
  <2>3. Nothing \notin mailed
    BY IdentityNamesAssumption DEF TypeOK
  <2>4. CASE s = r
    BY <1>b, <2>1, <2>2, <2>3, <2>4, WhereTheyAre DEF MayShow, UpdatesUsers
  <2>5. CASE s # r
    BY <1>a, <1>b, <2>1, <2>2, <2>3, <2>5, WhereTheyAre DEF SecretsHold, UpdatesUsers
  <2> QED BY <2>4, <2>5
<1>5. (\A s \in late :
          /\ shown[s] \in spent /\ pc[s] # "idle"
          /\ req[s].op \in {"verify", "reset"} => pc[s] \in {"judge", "count", "link", "failed"})'
  BY <1>a, WhereTheyAre DEF SecretsHold, Moves, Spends, MayShow, Resting, TypeOK
<1> QED BY <1>1, <1>2, <1>3, <1>4, <1>5 DEF SecretsHold

\* A counter keeps up with the guesses counted at its code: a guess is counted and
\* added in one update, and a counter is cleared only with its code.
LEMMA GuessesKept ==
    ASSUME TypeOK, SecretsHold, GuessesHold, NEW r \in Requests, NEW to, Moves(r, to),
           UpdatesUsers(r, to), Counts(r, to)
    PROVE  GuessesHold'
<1>a. /\ Nothing # r /\ r \notin counted
      /\ \A s \in counted' : judged'[s] = judged[s]
      /\ IsFiniteSet(counted) /\ counted \subseteq Requests
      /\ \A s \in counted' : judged[s] # r
      /\ \A s \in Requests \ {r} : copy'[s] = copy[s]
  BY WhereTheyAre, IdentityNamesAssumption, SeedsAssumption, FS_Subset
  DEF TypeOK, Moves, Counts, GuessesHold, Resting, Names
<1>1. (\A s \in counted : pc[s] = "failed" /\ judged[s] # Nothing)'
  BY <1>a, WhereTheyAre DEF Counts, GuessesHold, TypeOK
<1>2. (\A s \in Requests :
          /\ judged[s] \in Requests => pc[judged[s]] = "done"
          /\ pc[s] = "count" =>
                /\ judged[s] # Nothing
                /\ \A u \in users : u.otp = judged[s] => u.id = copy[s].id)'
  <2>1. CASE UNCHANGED <<judged, floor>> /\ to # "count"
    BY <1>a, <2>1, WhereTheyAre DEF GuessesHold, UpdatesUsers, Follows, Resting
  <2>2. CASE ~(UNCHANGED <<judged, floor>> /\ to # "count")
    <3>1. PICK u \in users :
              /\ u.otp # Nothing /\ copy'[r] = u /\ pc[r] = "judge" /\ UNCHANGED users
              /\ judged'[r] = u.otp /\ \A s \in Requests \ {r} : judged'[s] = judged[s]
      BY <2>2 DEF Counts, TypeOK
    <3>2. /\ \A v \in users : v.otp = u.otp => v = u
          /\ u.otp \in Requests => pc[u.otp] = "done"
      BY <3>1 DEF SecretsHold
    <3> QED BY <1>a, <3>1, <3>2, WhereTheyAre DEF GuessesHold
  <2> QED BY <2>1, <2>2
<1>3. (\A u \in users : u.otp # Nothing => Cardinality(GuessesAt(u.otp)) <= u.tries)'
  <2> SUFFICES ASSUME NEW v \in users', v.otp # Nothing
               PROVE  Cardinality(GuessesAt(v.otp)') <= v.tries
    BY DEF GuessesAt
  <2>1. PICK u \in users : Follows(r, to, u, v)
    BY DEF UpdatesUsers
  <2>2. CASE v.otp = r
    <3>1. GuessesAt(v.otp)' = {}
      BY <1>a, <2>2 DEF GuessesAt
    <3> QED BY <3>1, FS_EmptySet DEF UpdatesUsers, User
  <2>3. CASE v.otp = u.otp
    <3>1. /\ Cardinality(GuessesAt(u.otp)) <= u.tries /\ u.tries \in Nat /\ v.tries \in Nat
          /\ IsFiniteSet(GuessesAt(u.otp)) /\ Cardinality(GuessesAt(u.otp)) \in Nat
      BY <1>a, <2>3, FS_Subset, FS_CardinalityType
      DEF GuessesHold, TypeOK, UpdatesUsers, User, GuessesAt
    <3>2. CASE counted' = counted \/ judged[r] # v.otp
      <4>1. GuessesAt(v.otp)' = GuessesAt(u.otp)
        BY <1>a, <2>3, <3>2 DEF GuessesAt, Counts
      <4> QED BY <2>1, <2>3, <3>1, <4>1 DEF Follows
    <3>3. CASE counted' = counted \cup {r} /\ judged[r] = v.otp /\ pc[r] = "count"
      <4>1. GuessesAt(v.otp)' = GuessesAt(u.otp) \cup {r} /\ r \notin GuessesAt(u.otp)
        BY <1>a, <2>3, <3>3 DEF GuessesAt
      <4>2. Cardinality(GuessesAt(v.otp)') = Cardinality(GuessesAt(u.otp)) + 1
        BY <3>1, <4>1, FS_AddElement
      <4>3. u.id = copy[r].id
        BY <2>3, <3>3 DEF GuessesHold
      <4>4. u.tries + 1 <= v.tries
        BY <1>a, <2>1, <2>3, <3>3, <4>3 DEF Follows
      <4> QED BY <3>1, <4>2, <4>4
    <3> QED BY <3>2, <3>3 DEF Counts
  <2> QED BY <2>1, <2>2, <2>3 DEF Follows
<1>4. GuessesAreLimited'
  <2>1. CASE UNCHANGED <<judged, floor>>
    BY <2>1 DEF GuessesHold, GuessesAreLimited
  <2>2. CASE ~UNCHANGED <<judged, floor>>
    <3>1. PICK u \in users :
              /\ u.otp # Nothing /\ MayGuess(u) /\ floor'[r] = Cardinality(GuessesAt(u.otp))
              /\ \A s \in Requests \ {r} : judged'[s] = judged[s] /\ floor'[s] = floor[s]
      BY <2>2 DEF Counts, TypeOK
    <3>2. /\ Cardinality(GuessesAt(u.otp)) \in Nat /\ Cardinality(GuessesAt(u.otp)) <= u.tries
          /\ u.tries \in Nat /\ u.tries < MaxAttempts
      BY <1>a, <3>1, FS_Subset, FS_CardinalityType DEF GuessesHold, GuessesAt, MayGuess, TypeOK, User
    <3> QED BY <3>1, <3>2, MaxAttemptsAssumption DEF GuessesHold, GuessesAreLimited
  <2> QED BY <2>1, <2>2
<1> QED BY <1>1, <1>2, <1>3, <1>4 DEF GuessesHold

\* Users and customers stay in pairs: whoever loses one of a pair is on its way to
\* take back the other, or was cut short.
LEMMA AccountsKept ==
    ASSUME TypeOK, RequestsInOrder, AccountsHold, NEW r \in Requests, NEW to, Moves(r, to),
           UpdatesUsers(r, to), MakesAccount(r, to)
    PROVE  AccountsHold'
<1>a. /\ UNCHANGED req /\ cut \subseteq cut'
      /\ \A s \in Requests \ {r} : copy'[s] = copy[s]
  BY DEF Moves
<1>b. Nothing \notin customers' /\ customers' \ {r} = customers \ {r}
  BY IdentityNamesAssumption DEF Moves, TypeOK, Names
<1>1. (\A u \in users :
          /\ u.tenant = Platform <=> u.role = "CUSTOMER"
          /\ u.customer \in Requests => u.customer = u.id
          /\ u.id \in Requests =>
                /\ u.customer \in {u.id, Nothing}
                /\ pc[u.id] \notin {"idle", "existing", "customer", "insert"}
                /\ pc[u.id] = "undoCustomer" => u.id \in cut)'
  <2> SUFFICES ASSUME NEW v \in users'
               PROVE  /\ v.tenant = Platform <=> v.role = "CUSTOMER"
                      /\ v.customer \in Requests => v.customer = v.id
                      /\ v.id \in Requests =>
                            /\ v.customer \in {v.id, Nothing}
                            /\ pc'[v.id] \notin {"idle", "existing", "customer", "insert"}
                            /\ pc'[v.id] = "undoCustomer" => v.id \in cut'
    OBVIOUS
  <2>1. PICK u \in users : Follows(r, to, u, v)
    BY DEF UpdatesUsers
  <2>2. v.tenant = Platform <=> v.role = "CUSTOMER"
    BY <2>1 DEF Follows, AccountsHold, StaffRoles
  <2>3. v.id \in Requests => pc'[v.id] \notin {"idle", "existing", "customer", "insert"}
    BY <2>1, WhereTheyAre DEF Follows, AccountsHold, MakesAccount, Moves
  <2>4. v.id \in Requests /\ pc'[v.id] = "undoCustomer" => v.id \in cut'
    BY <1>a, <2>1, WhereTheyAre DEF Follows, AccountsHold, MakesAccount
  <2> QED BY <2>1, <2>2, <2>3, <2>4 DEF Follows, AccountsHold
<1>2. (\A c \in customers \intersect Requests :
          req[c].op \in Registering /\ pc[c] \notin {"idle", "existing", "customer"})'
  BY <1>a, WhereTheyAre DEF AccountsHold, MakesAccount, Moves, RequestsInOrder, Fits
<1>3. (\A s \in Requests :
          /\ req[s].op \in Registering /\ pc[s] = "insert" => s \in customers
          /\ req[s].op = "signup" /\ pc[s] \in {"store", "undoUser"} => copy[s].id = s
          /\ pc[s] \in {"tenant", "spend"} /\ copy[s].tenant = Platform =>
                copy[s].role = "CUSTOMER")'
  BY <1>a, WhereTheyAre DEF AccountsHold, MakesAccount, Moves
<1>5. (\A s \in Requests : pc[s] \in {"dup", "write"} =>
          /\ copy[s].id \in Requests =>
                pc[copy[s].id] \notin {"idle", "existing", "customer", "insert"}
          /\ \A u \in users : u.id = copy[s].id => u.tenant # Platform)'
  <2> SUFFICES ASSUME NEW s \in Requests, pc'[s] \in {"dup", "write"}
               PROVE  /\ copy'[s].id \in Requests =>
                            pc'[copy'[s].id] \notin {"idle", "existing", "customer", "insert"}
                      /\ \A v \in users' : v.id = copy'[s].id => v.tenant # Platform
    OBVIOUS
  <2>1. /\ copy'[s].id \in Requests =>
              pc[copy'[s].id] \notin {"idle", "existing", "customer", "insert"}
        /\ \A u \in users : u.id = copy'[s].id => u.tenant # Platform
    BY <1>a, WhereTheyAre DEF AccountsHold, MakesAccount
  <2>2. copy'[s].id \in Requests =>
            pc'[copy'[s].id] \notin {"idle", "existing", "customer", "insert"}
    BY <2>1, WhereTheyAre DEF MakesAccount, Moves
  <2> QED BY <2>1, <2>2 DEF UpdatesUsers, Follows
<1>6. (\A c \in customers \ Requests : \E u \in users : u.customer = c)'
  <2> SUFFICES ASSUME NEW c \in customers' \ Requests PROVE \E v \in users' : v.customer = c
    OBVIOUS
  <2>1. c \in customers /\ c # Nothing /\ c # r
    BY IdentityNamesAssumption DEF Moves, TypeOK
  <2>2. PICK u \in users : u.customer = c
    BY <2>1 DEF AccountsHold
  <2> QED BY <2>1, <2>2 DEF AccountsHold, UpdatesUsers
<1>4. RegistrationIsWhole'
  <2>1. ASSUME NEW c \in customers' \ cut'
        PROVE  (\E v \in users' : v.customer = c) \/ pc'[c] \in {"insert", "undoCustomer"}
    <3>1. CASE \E u \in users : u.customer = c
      <4>1. PICK u \in users : u.customer = c
        BY <3>1
      <4>2. CASE u.id = r /\ to = "undoCustomer"
        BY <2>1, <4>1, <4>2, WhereTheyAre, <1>b DEF AccountsHold
      <4>3. CASE \E v \in users' : v.customer = u.customer
        BY <4>1, <4>3
      <4> QED BY <4>2, <4>3 DEF UpdatesUsers
    <3>2. CASE pc[c] \in {"insert", "undoCustomer"} /\ c \in Requests
      BY <1>a, <2>1, <3>2, WhereTheyAre DEF MakesAccount
    <3>3. CASE c \notin customers
      BY <2>1, <3>3, WhereTheyAre DEF Moves
    <3>4. c \in customers \ Requests => \E u \in users : u.customer = c
      BY DEF AccountsHold
    <3> QED BY <1>a, <2>1, <3>1, <3>2, <3>3, <3>4 DEF AccountsHold, RegistrationIsWhole
  <2>2. \A v \in users' : v.customer \in customers' \cup cut' \cup {Nothing}
    BY <1>a DEF AccountsHold, RegistrationIsWhole, UpdatesUsers, Follows, Moves
  <2> QED BY <2>1, <2>2 DEF RegistrationIsWhole
<1> QED BY <1>1, <1>2, <1>3, <1>4, <1>5, <1>6 DEF AccountsHold

\* Who is barred stays inactive, and is not admitted by the step.
LEMMA BarsKept ==
    ASSUME TypeOK, BarsHold, NEW r \in Requests, NEW to, Moves(r, to),
           UpdatesUsers(r, to), MakesAccount(r, to), Admits(r, to)
    PROVE  BarsHold'
<1>a. UNCHANGED req /\ \A s \in Requests \ {r} : copy'[s] = copy[s]
  BY DEF Moves
<1>1. (\A s \in Requests :
          /\ \A u \in users : u.id \in barred[s] => ~u.active
          /\ barred[s] \intersect Tenants \subseteq closed
          /\ \A x \in barred[s] \intersect Requests :
                pc[x] \notin {"idle", "existing", "customer", "insert"}
          /\ pc[s] \in {"tenant", "spend"} => copy[s].id \notin barred[s]
          /\ pc[s] = "spend" => copy[s].tenant \notin barred[s])'
  <2> SUFFICES ASSUME NEW s \in Requests
               PROVE  /\ \A v \in users' : v.id \in barred'[s] => ~v.active
                      /\ barred'[s] \intersect Tenants \subseteq closed'
                      /\ \A x \in barred'[s] \intersect Requests :
                            pc'[x] \notin {"idle", "existing", "customer", "insert"}
                      /\ pc'[s] \in {"tenant", "spend"} => copy'[s].id \notin barred'[s]
                      /\ pc'[s] = "spend" => copy'[s].tenant \notin barred'[s]
    OBVIOUS
  <2>1. barred'[s] \subseteq barred[s]
    BY DEF Admits
  <2>2. ASSUME NEW v \in users', v.id \in barred'[s] PROVE ~v.active
    <3>1. PICK u \in users : Follows(r, to, u, v)
      BY DEF UpdatesUsers
    <3> QED BY <2>1, <2>2, <3>1 DEF Follows, BarsHold
  <2>3. \A x \in barred'[s] \intersect Requests :
            pc'[x] \notin {"idle", "existing", "customer", "insert"}
    BY <2>1, WhereTheyAre DEF BarsHold, MakesAccount, Moves
  <2>4. /\ pc'[s] \in {"tenant", "spend"} => copy'[s].id \notin barred'[s]
        /\ pc'[s] = "spend" => copy'[s].tenant \notin barred'[s]
    BY <1>a, <2>1, WhereTheyAre DEF BarsHold, Admits
  <2>5. barred'[s] \intersect Tenants \subseteq closed'
    BY DEF Admits
  <2> QED BY <2>2, <2>3, <2>4, <2>5
<1>2. (\A t \in tokens : t.by \in Requests => pc[t.by] = "done")'
  BY WhereTheyAre DEF BarsHold, Admits, Resting
<1>3. DisabledGetNothing'
  BY <1>a DEF BarsHold, DisabledGetNothing, Admits
<1> QED BY <1>1, <1>2, <1>3 DEF BarsHold

\* All parts together.
LEMMA StepKeeps ==
    ASSUME IdentityInv, NEW r \in Requests, NEW to, Moves(r, to), UpdatesUsers(r, to),
           Mails(r, to), Spends(r, to), MayShow(r, to), Counts(r, to), MakesAccount(r, to),
           Admits(r, to)
    PROVE  IdentityInv'
BY TypeKept, OrderKept, SecretsKept, GuessesKept, AccountsKept, BarsKept
DEF IdentityInv, UpdatesUsers

-----------------------------------------------------------------------------
(* The steps of one request                                                *)

\* What a step keeps that leaves the users, the secrets and the switches alone.
LEMMA LeavesAlone ==
    ASSUME IdentityInv, NEW r \in Requests, NEW to,
           UNCHANGED <<users, closed, barred, mailed, spent, counted>>
    PROVE  /\ UpdatesUsers(r, to) /\ Mails(r, to) /\ Spends(r, to)
           /\ UNCHANGED <<judged, floor>> /\ to # "count" => Counts(r, to)
           /\ UNCHANGED tokens /\ to \notin {"tenant", "spend"} => Admits(r, to)
<1>1. UpdatesUsers(r, to)
  <2>1. \A u \in users : Follows(r, to, u, u)
    BY DEF Follows, IdentityInv, TypeOK, User
  <2> QED BY <2>1 DEF UpdatesUsers, IdentityInv, TypeOK, SecretsHold
<1> QED BY <1>1 DEF Mails, Spends, Counts, Admits, IdentityInv, TypeOK, BarsHold

\* A request that is refused, or stopped, changes nothing.
LEMMA StopKeeps ==
    ASSUME IdentityInv, NEW r \in Requests, Fail(r) \/ (Refuse(r) /\ pc[r] \notin Resting
               /\ (pc[r] \in {"insert", "undoCustomer"} => req[r].op = "create"))
    PROVE  IdentityInv'
<1>1. /\ pc[r] \notin Resting /\ Goto(r, "failed") /\ UNCHANGED <<collections, req, shown, copy>>
      /\ UNCHANGED <<judged, floor, counted, spent, late, barred>>
      /\ cut' \in {cut, cut \cup {r}}
  BY DEF Fail, Refuse, history
<1>2. Moves(r, "failed")
  BY <1>1 DEF Moves, Labels, Resting, Holding, Fits, IdentityInv, TypeOK, collections
<1>3. MayShow(r, "failed") /\ Counts(r, "failed")
  BY <1>1 DEF MayShow, Counts
<1>4. MakesAccount(r, "failed")
  BY DEF MakesAccount, IdentityInv, AccountsHold, RequestsInOrder, Fits, Fail, Refuse, Registering, Makers, collections
<1> QED BY <1>1, <1>2, <1>3, <1>4, LeavesAlone, StepKeeps DEF collections

\* Only staff of a merchant get tokens that open the routes of the owner.
LEMMA TokenIsDue ==
    ASSUME NEW r \in Requests, NEW u \in User,
           u.tenant = Platform => u.role = "CUSTOMER"
    PROVE  /\ TokenOf(r, u).by = r /\ TokenOf(r, u).user = u.id
           /\ TokenOf(r, u).tenant = u.tenant
           /\ Grants(TokenOf(r, u).scopes, "merchant") => u.tenant # Platform
<1>1. u.role = "CUSTOMER" => ScopesOf(u.role) = {<<"customer", "*">>}
  BY Zenon DEF ScopesOf
<1> QED BY <1>1 DEF TokenOf, Grants

\* A user is read once the password fits: it is active now, hence not barred.
LEMMA FindUserKeeps ==
    ASSUME IdentityInv, NEW r \in Requests, FindUser(r)
    PROVE  IdentityInv'
<1>1. CASE Refuse(r)
  BY <1>1, StopKeeps DEF FindUser, Resting
<1>2. ASSUME NEW u \in Found(r), copy' = [copy EXCEPT ![r] = u], Goto(r, "tenant"),
             UNCHANGED <<collections, req, shown, history>>
      PROVE  IdentityInv'
  <2>1. u \in users /\ u \in User /\ u.active /\ copy'[r] = u /\ req[r].op \in {"login", "loginOtp"}
    BY <1>2 DEF Found, FindUser, IdentityInv, TypeOK, RequestsInOrder, Fits
  <2>2. Moves(r, "tenant")
    BY <1>2, <2>1 DEF FindUser, Moves, Labels, Resting, Fits, IdentityInv, TypeOK,
         collections, history
  <2>3. MayShow(r, "tenant") /\ Counts(r, "tenant") /\ MakesAccount(r, "tenant")
    BY <1>2, <2>1 DEF FindUser, MayShow, Counts, MakesAccount, IdentityInv, AccountsHold, history
  <2>4. Admits(r, "tenant")
    BY <1>2, <2>1 DEF Admits, IdentityInv, TypeOK, BarsHold, collections, history
  <2> QED BY <1>2, <2>2, <2>3, <2>4, LeavesAlone, StepKeeps DEF collections, history
<1> QED BY <1>1, <1>2 DEF FindUser

\* A tenant that is open now was not closed all along.
LEMMA CheckTenantKeeps ==
    ASSUME IdentityInv, NEW r \in Requests, CheckTenant(r)
    PROVE  IdentityInv'
<1>1. CASE Refuse(r)
  BY <1>1, StopKeeps DEF CheckTenant, Resting
<1>2. CASE ~Refuse(r)
  <2> DEFINE u == copy[r]
  <2>1. /\ pc[r] = "tenant" /\ ensureUserTenantIsActive(u) /\ u \in User
        /\ req[r].op \in {"login", "loginOtp", "verify"}
        /\ UNCHANGED <<users, customers, closed, mailed, lapsed, req, shown, copy, history>>
    BY <1>2 DEF CheckTenant, IdentityInv, TypeOK, RequestsInOrder, Fits, Holding
  <2>2. u.tenant \notin barred[r] /\ u.id \notin barred[r]
    BY <2>1, IdentityNamesAssumption
    DEF ensureUserTenantIsActive, IdentityInv, TypeOK, BarsHold, User
  <2> DEFINE ends == {"done", "spend", "store"}
  <2>3. PICK to \in ends : Goto(r, to) /\ (to = "done" <=> req[r].op = "login")
                           /\ (to = "spend" <=> req[r].op = "verify")
    BY <1>2, <2>1 DEF CheckTenant
  <2>4. Moves(r, to)
    BY <2>1, <2>3 DEF Moves, Labels, Resting, Fits, IdentityInv, TypeOK, history
  <2>5. MayShow(r, to) /\ Counts(r, to) /\ MakesAccount(r, to)
    BY <2>1, <2>3 DEF MayShow, Counts, MakesAccount, IdentityInv, SecretsHold, AccountsHold, history
  <2>6. tokens' = tokens \/ (to = "done" /\ tokens' = tokens \cup {TokenOf(r, u)})
    BY <1>2, <2>3 DEF CheckTenant, issueTokens
  <2>7. Admits(r, to)
    <3>1. u.tenant = Platform => u.role = "CUSTOMER"
      BY <2>1 DEF IdentityInv, AccountsHold
    <3>2. u.tenant \in Tenants \cup {Platform}
      BY <2>1 DEF User
    <3> QED BY <2>1, <2>2, <2>3, <2>6, <3>1, <3>2, TokenIsDue
            DEF Admits, IdentityInv, TypeOK, BarsHold, history
  <2> QED BY <2>1, <2>4, <2>5, <2>7, LeavesAlone, StepKeeps DEF history
<1> QED BY <1>1, <1>2

\* A step that only reads, and comes to a label that asks nothing of what it read.
LEMMA ReadKeeps ==
    ASSUME IdentityInv, NEW r \in Requests, NEW to,
           pc[r] \notin Resting, Goto(r, to), UNCHANGED <<collections, req, shown, history>>,
           to \in {"done", "store", "setLink", "customer", "insert", "undoUser", "undoCustomer", "dup", "write"},
           copy' \in [Requests -> User \cup {Nothing}], \A s \in Requests \ {r} : copy'[s] = copy[s],
           to \in Holding => copy'[r] \in User,
           Fits(req[r].op, to), req[r].op \notin {"verify", "reset"},
           pc[r] \notin {"bounce", "customer"}, MakesAccount(r, to)
    PROVE  IdentityInv'
<1>1. Moves(r, to)
  BY DEF Moves, Labels, Resting, IdentityInv, TypeOK, collections, history
<1>2. MayShow(r, to) /\ to # "count"
  BY DEF MayShow
<1> QED BY <1>1, <1>2, LeavesAlone, StepKeeps DEF collections, history

\* A link may be asked for by anybody.
LEMMA FindForLinkKeeps ==
    ASSUME IdentityInv, NEW r \in Requests, FindForLink(r)
    PROVE  IdentityInv'
<1>1. CASE Refuse(r)
  BY <1>1, StopKeeps DEF FindForLink, Resting
<1>2. ASSUME NEW u \in Found(r), copy' = [copy EXCEPT ![r] = u], Goto(r, "setLink"),
             UNCHANGED <<collections, req, shown, history>>
      PROVE  IdentityInv'
  <2>1. u \in User /\ pc[r] = "forgot" /\ req[r].op = "forgot"
    BY <1>2 DEF FindForLink, Found, IdentityInv, TypeOK, RequestsInOrder, Fits
  <2>2. MakesAccount(r, "setLink")
    BY <2>1 DEF MakesAccount
  <2> QED BY <1>2, <2>1, <2>2, ReadKeeps DEF Resting, Fits, IdentityInv, TypeOK
<1> QED BY <1>1, <1>2 DEF FindForLink

\* Only a sign-up has anything to take back when its code cannot be stored.
LEMMA StoreFailsKeeps ==
    ASSUME IdentityInv, NEW r \in Requests, StoreFails(r)
    PROVE  IdentityInv'
<1>1. CASE Refuse(r)
  BY <1>1, StopKeeps DEF StoreFails, Resting
<1>2. CASE ~Refuse(r)
  <2>1. /\ pc[r] = "store" /\ req[r].op = "signup" /\ Goto(r, "undoUser") /\ copy[r] \in User
        /\ UNCHANGED <<collections, req, shown, copy, history>>
    BY <1>2 DEF StoreFails, IdentityInv, TypeOK, Holding
  <2>2. MakesAccount(r, "undoUser")
    BY <2>1 DEF MakesAccount, IdentityInv, AccountsHold
  <2> QED BY <2>1, <2>2, ReadKeeps DEF Resting, Fits, Holding, IdentityInv, TypeOK
<1> QED BY <1>1, <1>2

\* An address that is free now may be taken by the time of the insert.
LEMMA CheckAddressKeeps ==
    ASSUME IdentityInv, NEW r \in Requests, CheckAddress(r)
    PROVE  IdentityInv'
<1>1. CASE Refuse(r)
  BY <1>1, StopKeeps DEF CheckAddress, Resting
<1>2. CASE ~Refuse(r)
  <2>1. PICK to \in {"insert", "customer"} :
            /\ pc[r] = "existing" /\ Goto(r, to) /\ (to = "insert" <=> req[r].op = "create")
            /\ UNCHANGED <<collections, req, shown, copy, history>>
    BY <1>2 DEF CheckAddress
  <2>2. req[r].op \in Makers
    BY <2>1 DEF IdentityInv, RequestsInOrder, Fits
  <2>3. MakesAccount(r, to)
    BY <2>1 DEF MakesAccount, IdentityInv, AccountsHold, Registering, collections
  <2> QED BY <2>1, <2>2, <2>3, ReadKeeps
          DEF Resting, Fits, Holding, Makers, Registering, IdentityInv, TypeOK
<1> QED BY <1>1, <1>2

\* A registration that fails to insert its user goes to take back its customer.
LEMMA InsertFailsKeeps ==
    ASSUME IdentityInv, NEW r \in Requests, InsertFails(r)
    PROVE  IdentityInv'
<1>1. CASE req[r].op = "create"
  BY <1>1, StopKeeps DEF InsertFails, Resting
<1>2. CASE req[r].op # "create"
  <2>1. /\ pc[r] = "insert" /\ Goto(r, "undoCustomer")
        /\ UNCHANGED <<collections, req, shown, copy, history>>
    BY <1>2 DEF InsertFails
  <2>2. req[r].op \in Registering
    BY <1>2, <2>1 DEF IdentityInv, RequestsInOrder, Fits, Makers
  <2>3. MakesAccount(r, "undoCustomer")
    BY <2>1 DEF MakesAccount
  <2> QED BY <2>1, <2>2, <2>3, ReadKeeps
          DEF Resting, Fits, Holding, Registering, IdentityInv, TypeOK
<1> QED BY <1>1, <1>2

\* The user found is of the owner's tenant, hence no customer.
LEMMA FindStaffKeeps ==
    ASSUME IdentityInv, NEW r \in Requests, FindStaff(r)
    PROVE  IdentityInv'
<1>1. CASE Refuse(r)
  BY <1>1, StopKeeps DEF FindStaff, Resting
<1>2. CASE ~Refuse(r)
  <2>1. PICK u \in TakenBy(shown[r].tenant, req[r].email), to \in {"dup", "write"} :
            /\ copy' = [copy EXCEPT ![r] = u] /\ Goto(r, to)
            /\ UNCHANGED <<collections, req, shown, history>>
    BY <1>2 DEF FindStaff
  <2>2. u \in User /\ pc[r] = "staff" /\ req[r].op \in {"update", "disable", "enable"}
    BY DEF FindStaff, TakenBy, IdentityInv, TypeOK, RequestsInOrder, Fits
  <2>3. u \in users /\ copy'[r] = u /\ u.tenant # Platform
    BY <2>1, <2>2 DEF TakenBy, IdentityInv, TypeOK, RequestsInOrder, StaffOps
  <2>4. MakesAccount(r, to)
    BY <2>1, <2>2, <2>3 DEF MakesAccount, IdentityInv, AccountsHold, SecretsHold
  <2> QED BY <2>1, <2>2, <2>4, ReadKeeps DEF Resting, Fits, IdentityInv, TypeOK
<1> QED BY <1>1, <1>2

\* A check that the address is free settles nothing by itself.
LEMMA CheckDuplicateKeeps ==
    ASSUME IdentityInv, NEW r \in Requests, CheckDuplicate(r)
    PROVE  IdentityInv'
<1>1. CASE Refuse(r)
  BY <1>1, StopKeeps DEF CheckDuplicate, Resting
<1>2. CASE ~Refuse(r)
  <2>1. /\ pc[r] = "dup" /\ Goto(r, "write") /\ copy[r] \in User
        /\ UNCHANGED <<collections, req, shown, copy, history>>
    BY <1>2 DEF CheckDuplicate, IdentityInv, TypeOK, Holding
  <2>2. req[r].op \in {"update", "disable", "enable"} /\ MakesAccount(r, "write")
    BY <2>1 DEF MakesAccount, IdentityInv, RequestsInOrder, Fits, AccountsHold
  <2> QED BY <2>1, <2>2, ReadKeeps DEF Resting, Fits, IdentityInv, TypeOK
<1> QED BY <1>1, <1>2

\* The user who holds the link that is shown is the only one who ever will.
LEMMA FindByLinkKeeps ==
    ASSUME IdentityInv, NEW r \in Requests, FindByLink(r)
    PROVE  IdentityInv'
<1>1. CASE Refuse(r)
  BY <1>1, StopKeeps DEF FindByLink, Resting
<1>2. CASE ~Refuse(r)
  <2>1. PICK u \in users :
            /\ u.link = shown[r] /\ copy' = [copy EXCEPT ![r] = u] /\ Goto(r, "password")
            /\ UNCHANGED <<collections, req, shown, history>>
    BY <1>2 DEF FindByLink
  <2>2. /\ u \in User /\ copy'[r] = u /\ pc[r] = "link" /\ req[r].op = "reset"
        /\ shown[r] \in mailed /\ shown[r] # Nothing
    BY <2>1, IdentityNamesAssumption
    DEF FindByLink, IdentityInv, TypeOK, RequestsInOrder, Fits
  <2>3. Moves(r, "password")
    BY <2>1, <2>2 DEF Moves, Labels, Resting, Fits, IdentityInv, TypeOK, collections, history
  <2>4. Counts(r, "password") /\ MakesAccount(r, "password")
    BY <2>1, <2>2 DEF Counts, MakesAccount, history
  <2>5. MayShow(r, "password")
    BY <2>1, <2>2 DEF MayShow, IdentityInv, SecretsHold
  <2> QED BY <2>1, <2>3, <2>4, <2>5, LeavesAlone, StepKeeps DEF collections, history
<1> QED BY <1>1, <1>2

\* Whoever is refreshed is active now.
LEMMA RefreshKeeps ==
    ASSUME IdentityInv, NEW r \in Requests, refresh(r)
    PROVE  IdentityInv'
<1>1. CASE Refuse(r)
  BY <1>1, StopKeeps DEF refresh, Resting
<1>2. CASE ~Refuse(r)
  <2>1. PICK u \in users :
            /\ MayRefresh(u, shown[r]) /\ tokens' = tokens \cup {TokenOf(r, u)} /\ Goto(r, "done")
            /\ UNCHANGED <<users, customers, closed, mailed, lapsed, req, shown, copy, history>>
    BY <1>2 DEF refresh, issueTokens
  <2>2. /\ u \in User /\ pc[r] = "refresh" /\ req[r].op = "refresh" /\ u.active
        /\ u.tenant \in Tenants \cup {Platform} /\ (u.tenant = Platform => u.role = "CUSTOMER")
    BY <2>1 DEF refresh, MayRefresh, IdentityInv, TypeOK, RequestsInOrder, Fits, AccountsHold, User
  <2>3. Moves(r, "done")
    BY <2>1, <2>2 DEF Moves, Labels, Resting, Holding, Fits, IdentityInv, TypeOK, history
  <2>4. MayShow(r, "done") /\ Counts(r, "done") /\ MakesAccount(r, "done")
    BY <2>1, <2>2 DEF MayShow, Counts, MakesAccount, history
  <2>5. Admits(r, "done")
    BY <2>1, <2>2, TokenIsDue DEF Admits, IdentityInv, TypeOK, BarsHold, history
  <2> QED BY <2>1, <2>3, <2>4, <2>5, LeavesAlone, StepKeeps DEF history
<1> QED BY <1>1, <1>2

\* updateOne changes one user; what it makes of it decides whether the users hold.
LEMMA OneUpdate ==
    ASSUME IdentityInv, NEW r \in Requests, NEW to, NEW change,
           users' = Updated(copy[r].id, change),
           \A u \in users : u.id = copy[r].id => change[u] \in User /\ Follows(r, to, u, change[u])
    PROVE  UpdatesUsers(r, to)
<1> DEFINE f == [u \in users |-> IF u.id = copy[r].id THEN change[u] ELSE u]
<1>1. users' = {f[u] : u \in users}
  BY DEF Updated
<1>2. ASSUME NEW u \in users PROVE f[u] \in User /\ Follows(r, to, u, f[u])
  <2>1. CASE u.id = copy[r].id
    BY <2>1
  <2>2. CASE u.id # copy[r].id
    BY <2>2 DEF Follows, IdentityInv, TypeOK, User
  <2> QED BY <2>1, <2>2
<1> HIDE DEF f
<1>3. users' \subseteq User /\ \A v \in users' : \E u \in users : v = f[u] /\ Follows(r, to, u, v)
  BY <1>1, <1>2
<1>4. \A v, w \in users' : v.id = w.id => v = w
  BY <1>3 DEF Follows, IdentityInv, SecretsHold
<1>5. \A u \in users : f[u] \in users' /\ f[u].id = u.id /\ f[u].customer = u.customer
  BY <1>1, <1>2 DEF Follows
<1> QED BY <1>3, <1>4, <1>5 DEF UpdatesUsers

\* A new code has no guesses against it yet, so its counter may start at 0.
LEMMA StoreCodeKeeps ==
    ASSUME IdentityInv, NEW r \in Requests, StoreCode(r)
    PROVE  IdentityInv'
<1> DEFINE change == [u \in users |-> [u EXCEPT !.otp = r, !.tries = 0,
                         !.purpose = IF req[r].op = "signup" THEN "signup" ELSE "login"]]
<1>1. /\ pc[r] = "store" /\ req[r].op \in {"loginOtp", "signup"} /\ Goto(r, "done")
      /\ UNCHANGED <<customers, closed, tokens, lapsed, req, shown, copy, history>>
  BY DEF StoreCode, IdentityInv, TypeOK, RequestsInOrder, Fits, Holding
<1>2. users' = Updated(copy[r].id, change)
  BY DEF StoreCode
<1>3. ASSUME NEW u \in users, u.id = copy[r].id
      PROVE  change[u] \in User /\ Follows(r, "done", u, change[u])
  <2>1. u \in User /\ r \in Names /\ r # Nothing /\ IsCode(r) /\ u.otp # r
    BY <1>1, IdentityNamesAssumption DEF IdentityInv, TypeOK, Names, IsCode, SecretsHold
  <2>2. change[u] \in User
    BY <2>1 DEF User, Purposes
  <2>3. /\ change[u].id = u.id /\ change[u].tenant = u.tenant /\ change[u].customer = u.customer
        /\ change[u].role = u.role /\ change[u].active = u.active
        /\ change[u].otp = r /\ change[u].link = u.link
    BY <2>1 DEF User
  <2> QED BY <1>1, <1>3, <2>1, <2>2, <2>3 DEF Follows
<1>4. UpdatesUsers(r, "done")
  BY <1>2, <1>3, OneUpdate
<1>5. Moves(r, "done")
  BY <1>1 DEF Moves, Labels, Resting, Holding, Fits, IdentityInv, TypeOK, history
<1>6. Mails(r, "done") /\ Spends(r, "done") /\ Counts(r, "done")
  BY <1>1 DEF Mails, Spends, Counts, history, StoreCode
<1>7. MayShow(r, "done")
  BY <1>1 DEF MayShow
<1>8. MakesAccount(r, "done") /\ Admits(r, "done")
  BY <1>1 DEF MakesAccount, Admits, IdentityInv, TypeOK, BarsHold, history
<1> QED BY <1>4, <1>5, <1>6, <1>7, <1>8, StepKeeps

\* A guess goes to the user's counter whichever code is there by now.
LEMMA CountGuessKeeps ==
    ASSUME IdentityInv, NEW r \in Requests, CountGuess(r)
    PROVE  IdentityInv'
<1> DEFINE change == [u \in users |-> [u EXCEPT !.tries = @ + 1]]
<1>1. /\ pc[r] = "count" /\ req[r].op = "verify" /\ Goto(r, "failed")
      /\ counted' = counted \cup {r}
      /\ UNCHANGED <<customers, closed, tokens, mailed, lapsed, req, shown, copy, judged, floor,
                     spent, late, barred, cut>>
  BY DEF CountGuess, IdentityInv, RequestsInOrder, Fits
<1>2. users' = Updated(copy[r].id, change)
  BY DEF CountGuess
<1>3. ASSUME NEW u \in users, u.id = copy[r].id
      PROVE  change[u] \in User /\ Follows(r, "failed", u, change[u])
  <2>1. u \in User
    BY DEF IdentityInv, TypeOK
  <2>2. change[u] \in User
    BY <2>1 DEF User
  <2>3. /\ change[u].id = u.id /\ change[u].tenant = u.tenant /\ change[u].customer = u.customer
        /\ change[u].role = u.role /\ change[u].active = u.active
        /\ change[u].otp = u.otp /\ change[u].link = u.link
        /\ u.tries \in Nat /\ change[u].tries = u.tries + 1
    BY <2>1 DEF User
  <2> QED BY <2>2, <2>3 DEF Follows
<1>4. UpdatesUsers(r, "failed")
  BY <1>2, <1>3, OneUpdate
<1>5. Moves(r, "failed")
  BY <1>1 DEF Moves, Labels, Resting, Holding, Fits, IdentityInv, TypeOK
<1>6. Mails(r, "failed") /\ Spends(r, "failed") /\ Counts(r, "failed")
  BY <1>1 DEF Mails, Spends, Counts
<1>7. MayShow(r, "failed")
  BY <1>1 DEF MayShow
<1>8. MakesAccount(r, "failed") /\ Admits(r, "failed")
  BY <1>1 DEF MakesAccount, Admits, IdentityInv, TypeOK, BarsHold
<1> QED BY <1>4, <1>5, <1>6, <1>7, <1>8, StepKeeps

\* The code that was shown is gone from every user, although $unset takes whatever
\* code is there: no other user had it.
LEMMA SpendCodeKeeps ==
    ASSUME IdentityInv, NEW r \in Requests, SpendCode(r)
    PROVE  IdentityInv'
<1> DEFINE change == [u \in users |-> [u EXCEPT !.otp = Nothing, !.tries = 0]]
<1>1. /\ pc[r] = "spend" /\ req[r].op = "verify" /\ Goto(r, "done") /\ copy[r] \in User
      /\ spent' = spent \cup {shown[r]} /\ tokens' = tokens \cup {TokenOf(r, copy[r])}
      /\ UNCHANGED <<customers, closed, mailed, lapsed, req, shown, copy, judged, floor, counted,
                     late, barred, cut>>
  BY DEF SpendCode, issueTokens, IdentityInv, TypeOK, RequestsInOrder, Fits, Holding
<1>2. users' = Updated(copy[r].id, change)
  BY DEF SpendCode
<1>3. ASSUME NEW u \in users
      PROVE  /\ change[u] \in User /\ change[u].otp = Nothing /\ change[u].link = u.link
             /\ u.id = copy[r].id => Follows(r, "done", u, change[u])
  <2>1. u \in User
    BY DEF IdentityInv, TypeOK
  <2>2. change[u] \in User
    BY <2>1 DEF User
  <2>3. /\ change[u].id = u.id /\ change[u].tenant = u.tenant /\ change[u].customer = u.customer
        /\ change[u].role = u.role /\ change[u].active = u.active
        /\ change[u].otp = Nothing /\ change[u].link = u.link
    BY <2>1 DEF User
  <2> QED BY <2>2, <2>3 DEF Follows
<1>4. UpdatesUsers(r, "done")
  BY <1>2, <1>3, OneUpdate
<1>5. Moves(r, "done")
  BY <1>1 DEF Moves, Labels, Resting, Holding, Fits, IdentityInv, TypeOK
<1>6. Spends(r, "done")
  <2>1. /\ shown[r] \in mailed /\ shown[r] # Nothing /\ IsCode(shown[r])
        /\ \A u \in users : u.otp = shown[r] => u.id = copy[r].id
    BY <1>1, IdentityNamesAssumption DEF IdentityInv, SecretsHold, TypeOK
  <2>2. \A u \in users : u.link # shown[r]
    BY <2>1, IdentityNamesAssumption DEF IdentityInv, SecretsHold, IsCode, IsLink
  <2>3. ASSUME NEW v \in users' PROVE v.otp # shown[r] /\ v.link # shown[r]
    <3>1. PICK u \in users : v = IF u.id = copy[r].id THEN change[u] ELSE u
      BY <1>2 DEF Updated
    <3> QED BY <1>3, <2>1, <2>2, <3>1
  <2> QED BY <1>1, <2>1, <2>3 DEF Spends
<1>7. Mails(r, "done") /\ Counts(r, "done") /\ MakesAccount(r, "done")
  BY <1>1 DEF Mails, Counts, MakesAccount
<1>8. MayShow(r, "done")
  BY <1>1 DEF MayShow, IdentityInv, SecretsHold
<1>9. Admits(r, "done")
  <2>1. /\ copy[r].tenant \in Tenants \cup {Platform} /\ copy[r].tenant \notin barred[r]
        /\ copy[r].id \notin barred[r] /\ (copy[r].tenant = Platform => copy[r].role = "CUSTOMER")
    BY <1>1 DEF User, IdentityInv, AccountsHold, BarsHold
  <2> QED BY <1>1, <2>1, TokenIsDue DEF Admits, IdentityInv, TypeOK, BarsHold
<1> QED BY <1>4, <1>5, <1>6, <1>7, <1>8, <1>9, StepKeeps

\* The link that was shown is gone from every user, likewise.
LEMMA SetPasswordKeeps ==
    ASSUME IdentityInv, NEW r \in Requests, SetPassword(r)
    PROVE  IdentityInv'
<1> DEFINE change == [u \in users |-> [u EXCEPT !.password = req[r].password, !.link = Nothing]]
<1>1. /\ pc[r] = "password" /\ req[r].op = "reset" /\ Goto(r, "done")
      /\ spent' = spent \cup {shown[r]} /\ req[r] \in Intent
      /\ UNCHANGED <<customers, closed, tokens, mailed, lapsed, req, shown, copy, judged, floor,
                     counted, late, barred, cut>>
  BY IdentityIntentsAssumption DEF SetPassword, IdentityInv, TypeOK, RequestsInOrder, Fits
<1>2. users' = Updated(copy[r].id, change)
  BY DEF SetPassword
<1>3. ASSUME NEW u \in users
      PROVE  /\ change[u] \in User /\ change[u].link = Nothing /\ change[u].otp = u.otp
             /\ u.id = copy[r].id => Follows(r, "done", u, change[u])
  <2>1. u \in User
    BY DEF IdentityInv, TypeOK
  <2>2. change[u] \in User
    BY <1>1, <2>1 DEF User, Intent
  <2>3. /\ change[u].id = u.id /\ change[u].tenant = u.tenant /\ change[u].customer = u.customer
        /\ change[u].role = u.role /\ change[u].active = u.active
        /\ change[u].otp = u.otp /\ change[u].link = Nothing
        /\ u.tries \in Nat /\ change[u].tries = u.tries
    BY <2>1 DEF User
  <2> QED BY <1>1, <2>2, <2>3 DEF Follows
<1>4. UpdatesUsers(r, "done")
  BY <1>2, <1>3, OneUpdate
<1>5. Moves(r, "done")
  BY <1>1 DEF Moves, Labels, Resting, Holding, Fits, IdentityInv, TypeOK
<1>6. Spends(r, "done")
  <2>1. /\ shown[r] \in mailed /\ shown[r] # Nothing /\ IsLink(shown[r])
        /\ \A u \in users : u.link = shown[r] => u.id = copy[r].id
    BY <1>1, IdentityNamesAssumption DEF IdentityInv, SecretsHold, TypeOK, RequestsInOrder
  <2>2. \A u \in users : u.otp # shown[r]
    BY <2>1, IdentityNamesAssumption DEF IdentityInv, SecretsHold, IsCode, IsLink
  <2>3. ASSUME NEW v \in users' PROVE v.otp # shown[r] /\ v.link # shown[r]
    <3>1. PICK u \in users : v = IF u.id = copy[r].id THEN change[u] ELSE u
      BY <1>2 DEF Updated
    <3> QED BY <1>3, <2>1, <2>2, <3>1
  <2> QED BY <1>1, <2>1, <2>3 DEF Spends
<1>7. Mails(r, "done") /\ Counts(r, "done") /\ MakesAccount(r, "done")
  BY <1>1 DEF Mails, Counts, MakesAccount
<1>8. MayShow(r, "done")
  BY <1>1 DEF MayShow, IdentityInv, SecretsHold
<1>9. Admits(r, "done")
  BY <1>1 DEF Admits, IdentityInv, TypeOK, BarsHold
<1> QED BY <1>4, <1>5, <1>6, <1>7, <1>8, <1>9, StepKeeps

\* A link is named after the request that makes it, so nobody has it yet.
LEMMA StoreLinkKeeps ==
    ASSUME IdentityInv, NEW r \in Requests, StoreLink(r)
    PROVE  IdentityInv'
<1> DEFINE change == [u \in users |-> [u EXCEPT !.link = r]]
<1>1. PICK to \in {"done", "bounce"} :
      /\ pc[r] = "setLink" /\ req[r].op = "forgot" /\ Goto(r, to) /\ copy[r] \in User
      /\ UNCHANGED mailed \/ (to = "done" /\ mailed' = mailed \cup {r})
      /\ UNCHANGED <<customers, closed, tokens, lapsed, req, shown, copy, history>>
  BY DEF StoreLink, IdentityInv, TypeOK, RequestsInOrder, Fits, Holding
<1>2. users' = Updated(copy[r].id, change)
  BY DEF StoreLink
<1>3. ASSUME NEW u \in users, u.id = copy[r].id
      PROVE  change[u] \in User /\ Follows(r, to, u, change[u])
  <2>1. u \in User /\ r \in Names
    BY DEF IdentityInv, TypeOK, Names
  <2>2. change[u] \in User
    BY <2>1 DEF User
  <2>3. /\ change[u].id = u.id /\ change[u].tenant = u.tenant /\ change[u].customer = u.customer
        /\ change[u].role = u.role /\ change[u].active = u.active
        /\ change[u].otp = u.otp /\ change[u].link = r
        /\ u.tries \in Nat /\ change[u].tries = u.tries
    BY <2>1 DEF User
  <2> QED BY <1>1, <1>3, <2>2, <2>3 DEF Follows, IsLink, history
<1>4. UpdatesUsers(r, to)
  BY <1>2, <1>3, OneUpdate
<1>5. Moves(r, to)
  BY <1>1 DEF Moves, Labels, Resting, Holding, Fits, IdentityInv, TypeOK, history
<1>6. Mails(r, to) /\ Spends(r, to) /\ Counts(r, to) /\ MakesAccount(r, to) /\ MayShow(r, to)
  BY <1>1 DEF Mails, Spends, Counts, MakesAccount, MayShow, history
<1>7. Admits(r, to)
  BY <1>1 DEF Admits, IdentityInv, TypeOK, BarsHold, history
<1> QED BY <1>4, <1>5, <1>6, <1>7, StepKeeps

\* A link that could not be sent is taken away, with any newer one.
LEMMA BounceKeeps ==
    ASSUME IdentityInv, NEW r \in Requests, Bounce(r)
    PROVE  IdentityInv'
<1> DEFINE change == [u \in users |-> [u EXCEPT !.link = Nothing]]
<1>1. /\ pc[r] = "bounce" /\ req[r].op = "forgot" /\ Goto(r, "done")
      /\ UNCHANGED <<customers, closed, tokens, mailed, lapsed, req, shown, copy, history>>
  BY DEF Bounce, IdentityInv, RequestsInOrder, Fits
<1>2. users' = Updated(copy[r].id, change)
  BY DEF Bounce
<1>3. ASSUME NEW u \in users, u.id = copy[r].id
      PROVE  change[u] \in User /\ Follows(r, "done", u, change[u])
  <2>1. u \in User
    BY DEF IdentityInv, TypeOK
  <2>2. change[u] \in User
    BY <2>1 DEF User
  <2>3. /\ change[u].id = u.id /\ change[u].tenant = u.tenant /\ change[u].customer = u.customer
        /\ change[u].role = u.role /\ change[u].active = u.active
        /\ change[u].otp = u.otp /\ change[u].link = Nothing
        /\ u.tries \in Nat /\ change[u].tries = u.tries
    BY <2>1 DEF User
  <2> QED BY <1>1, <2>2, <2>3 DEF Follows, history
<1>4. UpdatesUsers(r, "done")
  BY <1>2, <1>3, OneUpdate
<1>5. Moves(r, "done")
  BY <1>1 DEF Moves, Labels, Resting, Holding, Fits, IdentityInv, TypeOK, history
<1>6. /\ Mails(r, "done") /\ Spends(r, "done") /\ Counts(r, "done")
      /\ MakesAccount(r, "done") /\ MayShow(r, "done")
  BY <1>1 DEF Mails, Spends, Counts, MakesAccount, MayShow, history
<1>7. Admits(r, "done")
  BY <1>1 DEF Admits, IdentityInv, TypeOK, BarsHold, history
<1> QED BY <1>4, <1>5, <1>6, <1>7, StepKeeps

\* Staff stay staff: the role that is given is never that of a customer.
LEMMA UpdateStaffKeeps ==
    ASSUME IdentityInv, NEW r \in Requests, UpdateStaff(r)
    PROVE  IdentityInv'
<1> DEFINE change == [u \in users |-> [u EXCEPT !.email = req[r].to,
                            !.role = req[r].role, !.password = req[r].password]]
<1>1. /\ pc[r] = "write" /\ req[r].op = "update" /\ Goto(r, "done") /\ req[r] \in Intent
      /\ UNCHANGED <<customers, closed, tokens, mailed, lapsed, req, shown, copy, history>>
  BY IdentityIntentsAssumption DEF UpdateStaff, IdentityInv, TypeOK
<1>2. users' = Updated(copy[r].id, change)
  BY DEF UpdateStaff
<1>3. ASSUME NEW u \in users, u.id = copy[r].id
      PROVE  change[u] \in User /\ Follows(r, "done", u, change[u])
  <2>1. u \in User /\ u.tenant # Platform
    BY <1>1, <1>3 DEF IdentityInv, TypeOK, AccountsHold
  <2>2. req[r].to \in Addresses /\ req[r].role \in StaffRoles /\ req[r].password \in Passwords
    BY <1>1 DEF Intent
  <2>3. change[u] \in User
    BY <2>1, <2>2 DEF User
  <2>4. /\ change[u].id = u.id /\ change[u].tenant = u.tenant /\ change[u].customer = u.customer
        /\ change[u].role = req[r].role /\ change[u].active = u.active
        /\ change[u].otp = u.otp /\ change[u].link = u.link
        /\ u.tries \in Nat /\ change[u].tries = u.tries
    BY <2>1 DEF User
  <2> QED BY <1>1, <2>1, <2>2, <2>3, <2>4 DEF Follows, history
<1>4. UpdatesUsers(r, "done")
  BY <1>2, <1>3, OneUpdate
<1>5. Moves(r, "done")
  BY <1>1 DEF Moves, Labels, Resting, Holding, Fits, IdentityInv, TypeOK, history
<1>6. /\ Mails(r, "done") /\ Spends(r, "done") /\ Counts(r, "done")
      /\ MakesAccount(r, "done") /\ MayShow(r, "done")
  BY <1>1 DEF Mails, Spends, Counts, MakesAccount, MayShow, history
<1>7. Admits(r, "done")
  BY <1>1 DEF Admits, IdentityInv, TypeOK, BarsHold, history
<1> QED BY <1>4, <1>5, <1>6, <1>7, StepKeeps

\* Who is enabled is no longer barred to anybody.
LEMMA SwitchUserKeeps ==
    ASSUME IdentityInv, NEW r \in Requests, SwitchUser(r)
    PROVE  IdentityInv'
<1> DEFINE change == [u \in users |-> [u EXCEPT !.active = (req[r].op = "enable")]]
<1>1. /\ pc[r] = "write" /\ req[r].op \in {"disable", "enable"} /\ Goto(r, "done")
      /\ UNCHANGED <<customers, closed, tokens, mailed, lapsed, req, shown, copy, judged, floor,
                     counted, spent, late, cut>>
      /\ req[r].op = "enable" => barred' = [s \in Requests |-> barred[s] \ {copy[r].id}]
      /\ req[r].op = "disable" => UNCHANGED barred
  BY DEF SwitchUser, Unbar
<1>2. users' = Updated(copy[r].id, change)
  BY DEF SwitchUser
<1>3. ASSUME NEW u \in users, u.id = copy[r].id
      PROVE  change[u] \in User /\ Follows(r, "done", u, change[u])
  <2>1. u \in User
    BY DEF IdentityInv, TypeOK
  <2>2. change[u] \in User
    BY <2>1 DEF User
  <2>3. /\ change[u].id = u.id /\ change[u].tenant = u.tenant /\ change[u].customer = u.customer
        /\ change[u].role = u.role /\ change[u].active = (req[r].op = "enable")
        /\ change[u].otp = u.otp /\ change[u].link = u.link
        /\ u.tries \in Nat /\ change[u].tries = u.tries
    BY <2>1 DEF User
  <2>4. ~change[u].active \/ \A s \in Requests : change[u].id \notin barred'[s]
    <3>1. CASE req[r].op = "enable"
      BY <1>1, <1>3, <2>3, <3>1
    <3>2. CASE req[r].op = "disable"
      <4>1. change[u].active = FALSE
        BY <2>3, <3>2
      <4> QED BY <4>1, Zenon
    <3> QED BY <1>1, <3>1, <3>2
  <2>5. r \notin counted' \ counted
    BY <1>1
  <2>6. u.tries <= change[u].tries
    BY <2>3
  <2> QED BY <2>2, <2>3, <2>4, <2>5, <2>6, Zenon DEF Follows
<1>4. UpdatesUsers(r, "done")
  BY <1>2, <1>3, OneUpdate
<1>5. Moves(r, "done")
  BY <1>1 DEF Moves, Labels, Resting, Holding, Fits, IdentityInv, TypeOK
<1>6. /\ Mails(r, "done") /\ Spends(r, "done") /\ Counts(r, "done")
      /\ MakesAccount(r, "done") /\ MayShow(r, "done")
  BY <1>1 DEF Mails, Spends, Counts, MakesAccount, MayShow
<1>7. /\ barred' \in [Requests -> SUBSET (Names \cup Tenants)]
      /\ \A s \in Requests : barred'[s] \subseteq barred[s]
  BY <1>1 DEF IdentityInv, TypeOK
<1>8. Admits(r, "done")
  BY <1>1, <1>7 DEF Admits, IdentityInv, TypeOK, BarsHold
<1> QED BY <1>4, <1>5, <1>6, <1>8, StepKeeps

\* A tenant that is opened is no longer barred to anybody.
LEMMA SwitchTenantKeeps ==
    ASSUME IdentityInv, NEW r \in Requests, SwitchTenant(r)
    PROVE  IdentityInv'
<1> DEFINE own == shown[r].tenant
<1>1. /\ pc[r] = "switch" /\ req[r].op \in {"closeTenant", "openTenant"} /\ Goto(r, "done")
      /\ UNCHANGED <<users, customers, tokens, mailed, lapsed, req, shown, copy, judged, floor,
                     counted, spent, late, cut>>
      /\ \/ closed' = closed \cup {own} /\ UNCHANGED barred
         \/ /\ closed' = closed \ {own}
            /\ barred' = [s \in Requests |-> barred[s] \ {own}]
  BY DEF SwitchTenant, Unbar, IdentityInv, RequestsInOrder, Fits
<1>2. own \in Tenants
  BY <1>1 DEF IdentityInv, RequestsInOrder, TypeOK, StaffOps
<1>3. UpdatesUsers(r, "done")
  <2>1. \A u \in users : Follows(r, "done", u, u)
    BY <1>1 DEF Follows, IdentityInv, TypeOK, User
  <2> QED BY <1>1, <2>1 DEF UpdatesUsers, IdentityInv, TypeOK, SecretsHold
<1>5. Moves(r, "done")
  BY <1>1 DEF Moves, Labels, Resting, Holding, Fits, IdentityInv, TypeOK
<1>6. /\ Mails(r, "done") /\ Spends(r, "done") /\ Counts(r, "done")
      /\ MakesAccount(r, "done") /\ MayShow(r, "done")
  BY <1>1 DEF Mails, Spends, Counts, MakesAccount, MayShow
<1>7. /\ barred' \in [Requests -> SUBSET (Names \cup Tenants)] /\ closed' \subseteq Tenants
      /\ \A s \in Requests :
            barred'[s] \subseteq barred[s] /\ barred'[s] \intersect Tenants \subseteq closed'
  BY <1>1, <1>2 DEF IdentityInv, TypeOK, BarsHold
<1>8. Admits(r, "done")
  BY <1>1, <1>7 DEF Admits
<1> QED BY <1>3, <1>5, <1>6, <1>8, StepKeeps

\* Requests enter at labels that fit them, where nothing has been read or made.
LEMMA EntranceFits ==
    ASSUME NEW op \in Ops
    PROVE  /\ Fits(op, Entrance(op))
           /\ Entrance(op) \in {"find", "judge", "forgot", "link", "refresh", "existing", "staff", "switch"}
           /\ op = "verify" => Entrance(op) = "judge"
           /\ op = "reset" => Entrance(op) = "link"
<1>1. op \in {"login", "loginOtp"} => Entrance(op) = "find"
  BY Zenon DEF Entrance
<1>2. op = "verify" => Entrance(op) = "judge"
  BY Zenon DEF Entrance
<1>3. op = "forgot" => Entrance(op) = "forgot"
  BY Zenon DEF Entrance
<1>4. op = "reset" => Entrance(op) = "link"
  BY Zenon DEF Entrance
<1>5. op = "refresh" => Entrance(op) = "refresh"
  BY Zenon DEF Entrance
<1>6. op \in {"register", "signup", "create"} => Entrance(op) = "existing"
  <2>1. op = "register" => Entrance(op) = "existing"
    BY Zenon DEF Entrance
  <2>2. op = "signup" => Entrance(op) = "existing"
    BY Zenon DEF Entrance
  <2>3. op = "create" => Entrance(op) = "existing"
    BY Zenon DEF Entrance
  <2> QED BY <2>1, <2>2, <2>3
<1>7. op \in {"update", "disable", "enable"} => Entrance(op) = "staff"
  <2>1. op = "update" => Entrance(op) = "staff"
    BY Zenon DEF Entrance
  <2>2. op = "disable" => Entrance(op) = "staff"
    BY Zenon DEF Entrance
  <2>3. op = "enable" => Entrance(op) = "staff"
    BY Zenon DEF Entrance
  <2> QED BY <2>1, <2>2, <2>3
<1>8. op \in {"closeTenant", "openTenant"} => Entrance(op) = "switch"
  <2>1. op = "closeTenant" => Entrance(op) = "switch"
    BY Zenon DEF Entrance
  <2>2. op = "openTenant" => Entrance(op) = "switch"
    BY Zenon DEF Entrance
  <2> QED BY <2>1, <2>2
<1> QED BY <1>1, <1>2, <1>3, <1>4, <1>5, <1>6, <1>7, <1>8
        DEF Ops, StaffOps, Fits, Makers, Registering

\* What a request may show is there.
LEMMA ShownIsThere ==
    ASSUME NEW op \in Ops, NEW x \in Shows(op)
    PROVE  /\ op = "verify" => x \in mailed \cup {Nothing}
           /\ op = "reset" => x \in mailed
           /\ op = "refresh" => x \in tokens
           /\ op \in StaffOps => x \in tokens /\ Grants(x.scopes, "merchant")
           /\ x \in mailed \cup tokens \cup {Nothing}
<1>1. op = "verify" => Shows(op) = mailed \cup {Nothing}
  BY Zenon DEF Shows, StaffOps
<1>2. op = "reset" => Shows(op) = mailed
  BY Zenon DEF Shows, StaffOps
<1>3. op = "refresh" => Shows(op) = tokens
  BY Zenon DEF Shows, StaffOps
<1>4. op \in StaffOps => Shows(op) = {t \in tokens : Bearer(t)}
  BY Zenon DEF Shows, StaffOps
<1>5. op \notin StaffOps \cup {"verify", "reset", "refresh"} => Shows(op) = {Nothing}
  BY Zenon DEF Shows
<1> QED BY <1>1, <1>2, <1>3, <1>4, <1>5 DEF Bearer

\* Who is inactive when a request begins.
LEMMA InactiveAre ==
    ASSUME TypeOK, SecretsHold, AccountsHold
    PROVE  /\ Inactive \subseteq Names \cup Tenants
           /\ \A u \in users : u.id \in Inactive => ~u.active
           /\ Inactive \intersect Tenants \subseteq closed
           /\ \A x \in Inactive \intersect Requests :
                 pc[x] \notin {"idle", "existing", "customer", "insert"}
<1>1. \A u \in users : u.id \in Names
  BY DEF TypeOK, User
<1>2. \A x \in Inactive : x \in closed \/ \E u \in users : x = u.id /\ ~u.active
  BY DEF Inactive
<1>3. closed \subseteq Tenants /\ Names \intersect Tenants = {} /\ Requests \subseteq Names
  BY IdentityNamesAssumption DEF TypeOK, Names
<1>4. \A u \in users : u.id \in Inactive => ~u.active
  BY <1>1, <1>2, <1>3 DEF SecretsHold
<1> QED BY <1>1, <1>2, <1>3, <1>4 DEF AccountsHold

\* A request that begins bars who is inactive now, and owns nothing yet.
LEMMA StartKeeps ==
    ASSUME IdentityInv, NEW r \in Requests, NEW i \in Intents, NEW x \in Shows(i.op), Start(r, i, x)
    PROVE  IdentityInv'
<1> USE DEF IdentityInv
<1>1. /\ pc[r] = "idle" /\ r \notin late /\ r \notin mailed /\ r \notin customers /\ r \notin counted
      /\ \A u \in users : u.id # r /\ u.otp # r /\ u.link # r
  BY IdentityNamesAssumption DEF Start, SecretsHold, AccountsHold, GuessesHold, Names
<1>2. /\ pc' = [pc EXCEPT ![r] = Entrance(i.op)] /\ req' = [req EXCEPT ![r] = i]
      /\ shown' = [shown EXCEPT ![r] = x] /\ barred' = [barred EXCEPT ![r] = Inactive]
      /\ late' = IF x \in spent THEN late \cup {r} ELSE late
      /\ UNCHANGED <<collections, copy, judged, floor, counted, spent, cut>>
  BY DEF Start, Goto
<1>3. i.op \in Ops
  BY IdentityIntentsAssumption DEF Intent
<1>4. /\ Fits(i.op, Entrance(i.op))
      /\ Entrance(i.op) \in {"find", "judge", "forgot", "link", "refresh", "existing", "staff", "switch"}
      /\ i.op = "verify" => Entrance(i.op) = "judge"
      /\ i.op = "reset" => Entrance(i.op) = "link"
  BY <1>3, EntranceFits
<1>5. /\ i.op = "verify" => x \in mailed \cup {Nothing}
      /\ i.op = "reset" => x \in mailed
      /\ i.op = "refresh" => x \in tokens
      /\ i.op \in StaffOps => x \in tokens /\ Grants(x.scopes, "merchant")
      /\ x \in mailed \cup tokens \cup {Nothing}
  BY <1>3, ShownIsThere
<1>6. /\ req'[r] = i /\ \A s \in Requests \ {r} : req'[s] = req[s]
      /\ shown'[r] = x /\ \A s \in Requests \ {r} : shown'[s] = shown[s]
      /\ pc'[r] = Entrance(i.op) /\ \A s \in Requests \ {r} : pc'[s] = pc[s]
      /\ barred'[r] = Inactive /\ \A s \in Requests \ {r} : barred'[s] = barred[s]
      /\ UNCHANGED <<users, customers, closed, tokens, mailed, copy, judged, floor, counted, spent, cut>>
  BY <1>2 DEF TypeOK, collections
<1>7. TypeOK'
  <2>1. pc' \in [Requests -> Labels] /\ \A s \in Requests : pc'[s] \in Holding => copy'[s] \in User
    BY <1>2, <1>4, <1>6 DEF TypeOK, Labels, Holding
  <2>2. /\ req' \in [Requests -> Intents] /\ late' \subseteq Requests
        /\ shown' \in [Requests -> Names \cup tokens' \cup {Nothing}]
    BY <1>2, <1>5, <1>6 DEF TypeOK
  <2>3. barred' \in [Requests -> SUBSET (Names \cup Tenants)]
    BY <1>2, InactiveAre DEF TypeOK
  <2> QED BY <1>6, <2>1, <2>2, <2>3 DEF TypeOK, Grants
<1>8. RequestsInOrder'
  BY <1>4, <1>5, <1>6 DEF RequestsInOrder, Fits, Grants
<1>9. SecretsHold'
  <2>1. \A y : y # r => IsCode(y)' = IsCode(y) /\ IsLink(y)' = IsLink(y)
    BY <1>6 DEF IsCode, IsLink
  <2>2. ASSUME NEW s \in Requests
        PROVE  /\ req'[s].op = "verify" /\ pc'[s] \in {"tenant", "spend"} =>
                     /\ shown'[s] \in mailed /\ IsCode(shown[s])'
                     /\ \A u \in users : u.otp = shown'[s] => u.id = copy[s].id
               /\ pc'[s] = "password" =>
                     /\ IsLink(shown[s])'
                     /\ \A u \in users : u.link = shown'[s] => u.id = copy[s].id
    <3>1. CASE s = r
      BY <1>4, <1>6, <3>1
    <3>2. CASE s # r
      <4>1. pc[s] = "password" => shown[s] \in mailed
        BY DEF RequestsInOrder, Fits
      <4>2. req'[s] = req[s] /\ pc'[s] = pc[s] /\ shown'[s] = shown[s]
        BY <1>6, <3>2
      <4>3. shown[s] \in mailed =>
                IsCode(shown[s])' = IsCode(shown[s]) /\ IsLink(shown[s])' = IsLink(shown[s])
        BY <1>1, <2>1, <4>2
      <4> QED BY <4>1, <4>2, <4>3 DEF SecretsHold
    <3> QED BY <3>1, <3>2
  <2>3. \A y \in mailed \intersect Requests : pc'[y] = "done"
    BY <1>1, <1>6 DEF SecretsHold
  <2>4. \A u \in users :
          /\ u.otp # Nothing => IsCode(u.otp)' /\ (u.otp \in Requests => pc'[u.otp] = "done")
          /\ u.link # Nothing => IsLink(u.link)' /\ pc'[u.link] \in {"bounce", "done", "failed"}
    <3>1. \A u \in users : u.link # Nothing => u.link \in Requests
      BY DEF SecretsHold, IsLink
    <3> QED BY <1>1, <1>6, <2>1, <3>1 DEF SecretsHold
  <2>5. \A s \in late' :
          /\ shown'[s] \in spent /\ pc'[s] # "idle"
          /\ req'[s].op \in {"verify", "reset"} => pc'[s] \in {"judge", "count", "link", "failed"}
    BY <1>1, <1>2, <1>4, <1>6 DEF SecretsHold, TypeOK
  <2> QED BY <1>6, <2>2, <2>3, <2>4, <2>5 DEF SecretsHold
<1>10. GuessesHold'
  BY <1>1, <1>4, <1>6 DEF GuessesHold, GuessesAt, GuessesAreLimited, TypeOK
<1>11. AccountsHold'
  <2>1. RegistrationIsWhole'
    BY <1>1, <1>6 DEF AccountsHold, RegistrationIsWhole, TypeOK, Names
  <2> QED BY <1>1, <1>4, <1>6, <2>1 DEF AccountsHold
<1>12. BarsHold'
  <2>1. ASSUME NEW s \in Requests
        PROVE  /\ \A u \in users : u.id \in barred'[s] => ~u.active
               /\ barred'[s] \intersect Tenants \subseteq closed
               /\ \A y \in barred'[s] \intersect Requests :
                     pc'[y] \notin {"idle", "existing", "customer", "insert"}
               /\ pc'[s] \in {"tenant", "spend"} => copy[s].id \notin barred'[s]
               /\ pc'[s] = "spend" => copy[s].tenant \notin barred'[s]
    <3>1. CASE s = r
      BY <1>1, <1>4, <1>6, <3>1, InactiveAre
    <3>2. CASE s # r
      BY <1>1, <1>6, <3>2 DEF BarsHold
    <3> QED BY <3>1, <3>2
  <2>2. \A t \in tokens : t.by \in Requests => pc[t.by] = "done" /\ t.by # r
    BY <1>1 DEF BarsHold
  <2> QED BY <1>6, <2>1, <2>2 DEF BarsHold, DisabledGetNothing
<1> QED BY <1>7, <1>8, <1>9, <1>10, <1>11, <1>12

\* The code compared is that of the user read, whose counter was below the limit,
\* and the counter is no less than the guesses counted.
LEMMA JudgeCodeKeeps ==
    ASSUME IdentityInv, NEW r \in Requests, JudgeCode(r)
    PROVE  IdentityInv'
<1>1. CASE Refuse(r)
  BY <1>1, StopKeeps DEF JudgeCode, Resting
<1>2. CASE ~Refuse(r)
  <2> DEFINE to(u) == IF shown[r] = u.otp THEN "tenant" ELSE "count"
  <2>1. PICK u \in Found(r) :
            /\ pc[r] = "judge" /\ CodeIsLive(r, u) /\ MayGuess(u)
            /\ copy' = [copy EXCEPT ![r] = u] /\ judged' = [judged EXCEPT ![r] = u.otp]
            /\ floor' = [floor EXCEPT ![r] = Cardinality({s \in counted : judged[s] = u.otp})]
            /\ Goto(r, to(u))
            /\ UNCHANGED <<collections, req, shown, counted, spent, late, barred, cut>>
    BY <1>2 DEF JudgeCode
  <2>2. /\ u \in users /\ u \in User /\ u.active /\ u.otp # Nothing /\ copy'[r] = u
        /\ req[r].op = "verify"
    BY <2>1 DEF Found, CodeIsLive, IdentityInv, TypeOK, RequestsInOrder, Fits
  <2>3. Moves(r, to(u))
    BY <2>1, <2>2 DEF Moves, Labels, Resting, Fits, IdentityInv, TypeOK, collections
  <2>4. Counts(r, to(u))
    BY <2>1, <2>2 DEF Counts, GuessesAt, collections
  <2>5. MayShow(r, to(u))
    BY <2>1, <2>2 DEF MayShow, IdentityInv, SecretsHold, RequestsInOrder
  <2>6. MakesAccount(r, to(u))
    BY <2>1, <2>2 DEF MakesAccount, IdentityInv, AccountsHold
  <2>7. Admits(r, to(u))
    BY <2>1, <2>2 DEF Admits, IdentityInv, TypeOK, BarsHold, collections
  <2>8. UpdatesUsers(r, to(u)) /\ Mails(r, to(u)) /\ Spends(r, to(u))
    BY <2>1, LeavesAlone DEF collections
  <2> QED BY <2>3, <2>4, <2>5, <2>6, <2>7, <2>8, StepKeeps
<1> QED BY <1>1, <1>2

\* A customer is made before its user.
LEMMA CreateCustomerKeeps ==
    ASSUME IdentityInv, NEW r \in Requests, CreateCustomer(r)
    PROVE  IdentityInv'
<1>1. /\ pc[r] = "customer" /\ req[r].op \in Registering /\ Goto(r, "insert")
      /\ customers' = customers \cup {r}
      /\ UNCHANGED <<users, closed, tokens, mailed, lapsed, req, shown, copy, history>>
  BY DEF CreateCustomer, IdentityInv, RequestsInOrder, Fits
<1>2. Moves(r, "insert")
  BY <1>1 DEF Moves, Labels, Resting, Holding, Fits, Registering, Makers, IdentityInv, TypeOK, history
<1>3. MayShow(r, "insert") /\ MakesAccount(r, "insert")
  BY <1>1 DEF MayShow, MakesAccount, Registering
<1> QED BY <1>1, <1>2, <1>3, LeavesAlone, StepKeeps DEF history

\* A customer taken back has no user, unless the user's deletion was cut short.
LEMMA UndoCustomerKeeps ==
    ASSUME IdentityInv, NEW r \in Requests, UndoCustomer(r)
    PROVE  IdentityInv'
<1>1. /\ pc[r] = "undoCustomer" /\ Goto(r, "failed")
      /\ (customers' = customers \ {r} /\ UNCHANGED cut)
            \/ (cut' = cut \cup {r} /\ UNCHANGED customers)
      /\ UNCHANGED <<users, closed, tokens, mailed, lapsed, req, shown, copy, judged, floor,
                     counted, spent, late, barred>>
  BY DEF UndoCustomer
<1>2. Moves(r, "failed")
  BY <1>1 DEF Moves, Labels, Resting, Holding, Fits, IdentityInv, TypeOK
<1>3. MayShow(r, "failed") /\ MakesAccount(r, "failed")
  BY <1>1 DEF MayShow, MakesAccount
<1> QED BY <1>1, <1>2, <1>3, LeavesAlone, StepKeeps

\* A user is taken back before its customer.
LEMMA UndoUserKeeps ==
    ASSUME IdentityInv, NEW r \in Requests, UndoUser(r)
    PROVE  IdentityInv'
<1>1. /\ pc[r] = "undoUser" /\ req[r].op = "signup" /\ copy[r].id = r /\ Goto(r, "undoCustomer")
      /\ (users' = {u \in users : u.id # r} /\ UNCHANGED cut)
            \/ (cut' = cut \cup {r} /\ UNCHANGED users)
      /\ UNCHANGED <<customers, closed, tokens, mailed, lapsed, req, shown, copy, judged, floor,
                     counted, spent, late, barred>>
  BY DEF UndoUser, IdentityInv, RequestsInOrder, Fits, AccountsHold
<1>2. Moves(r, "undoCustomer")
  BY <1>1 DEF Moves, Labels, Resting, Holding, Fits, Registering, IdentityInv, TypeOK
<1>3. UpdatesUsers(r, "undoCustomer")
  <2>1. \A u \in users : Follows(r, "undoCustomer", u, u)
    BY <1>1 DEF Follows, IdentityInv, TypeOK, User
  <2> QED BY <1>1, <2>1 DEF UpdatesUsers, IdentityInv, TypeOK, SecretsHold
<1>4. MakesAccount(r, "undoCustomer")
  BY <1>1 DEF MakesAccount
<1>5. /\ Mails(r, "undoCustomer") /\ Spends(r, "undoCustomer") /\ Counts(r, "undoCustomer")
      /\ MayShow(r, "undoCustomer")
  BY <1>1 DEF Mails, Spends, Counts, MayShow
<1>6. Admits(r, "undoCustomer")
  BY <1>1 DEF Admits, IdentityInv, TypeOK, BarsHold
<1> QED BY <1>2, <1>3, <1>4, <1>5, <1>6, StepKeeps

\* The user that a registration or the owner of a tenant makes.
LEMMA NewUserIs ==
    ASSUME IdentityInv, NEW r \in Requests, pc[r] = "insert"
    PROVE  /\ NewUser(r) \in User /\ NewUser(r).id = r
           /\ NewUser(r).otp = Nothing /\ NewUser(r).link = Nothing
           /\ NewUser(r).tenant = Platform <=> NewUser(r).role = "CUSTOMER"
           /\ NewUser(r).customer = IF req[r].op \in Registering THEN r ELSE Nothing
           /\ req[r].op \in Registering => NewUser(r).tenant = Platform
<1>1. req[r] \in Intent /\ req[r].op \in Makers /\ r \in Names
  BY IdentityIntentsAssumption DEF IdentityInv, TypeOK, RequestsInOrder, Fits, Names
<1>2. HomeOf(r) = Platform <=> req[r].op \in Registering
  BY <1>1, IdentityNamesAssumption
  DEF HomeOf, Makers, Registering, IdentityInv, TypeOK, RequestsInOrder, StaffOps
<1>3. HomeOf(r) \in Tenants \cup {Platform}
  BY <1>1 DEF HomeOf, Makers, Registering, IdentityInv, TypeOK, RequestsInOrder, StaffOps
<1>4. req[r].email \in Addresses /\ req[r].password \in Passwords /\ req[r].role \in StaffRoles
  BY <1>1 DEF Intent
<1>5. NewUser(r) \in User
  BY <1>1, <1>3, <1>4 DEF NewUser, User, Purposes
<1> QED BY <1>2, <1>4, <1>5 DEF NewUser, StaffRoles

\* A new user has no code, no link and a name of its own.
LEMMA InsertUserKeeps ==
    ASSUME IdentityInv, NEW r \in Requests, InsertUser(r)
    PROVE  IdentityInv'
<1> DEFINE n == NewUser(r)
           to == IF req[r].op = "signup" THEN "store" ELSE "done"
<1> USE DEF IdentityInv
<1>1. /\ pc[r] = "insert" /\ req[r].op \in Makers /\ users' = users \cup {n}
      /\ copy' = [copy EXCEPT ![r] = n] /\ Goto(r, to)
      /\ tokens' = tokens \/ (tokens' = tokens \cup {TokenOf(r, n)} /\ req[r].op = "register")
      /\ UNCHANGED <<customers, closed, mailed, lapsed, req, shown, history>>
  BY DEF InsertUser, issueTokens, RequestsInOrder, Fits
<1>2. /\ n \in User /\ n.id = r /\ n.otp = Nothing /\ n.link = Nothing
      /\ n.tenant = Platform <=> n.role = "CUSTOMER"
      /\ n.customer = IF req[r].op \in Registering THEN r ELSE Nothing
      /\ req[r].op \in Registering => n.tenant = Platform
  BY <1>1, NewUserIs
<1> HIDE DEF n
<1>3. /\ r \notin mailed /\ r \notin counted /\ r # Nothing
      /\ \A u \in users : u.id # r /\ u.otp # r /\ u.link # r
      /\ \A s \in Requests : r \notin barred[s]
  BY <1>1, IdentityNamesAssumption DEF SecretsHold, AccountsHold, GuessesHold, BarsHold, Names
<1>4. Moves(r, to)
  BY <1>1, <1>2 DEF Moves, Labels, Resting, Fits, Makers, TypeOK, history
<1>5. Mails(r, to) /\ Spends(r, to) /\ Counts(r, to) /\ UNCHANGED <<judged, floor, counted, spent, cut, barred, late>>
  BY <1>1 DEF Mails, Spends, Counts, history
<1>6. Admits(r, to)
  <2>1. Platform \notin barred[r]
    BY IdentityNamesAssumption DEF TypeOK
  <2>2. /\ TokenOf(r, n).by = r /\ TokenOf(r, n).user = r /\ TokenOf(r, n).tenant = n.tenant
        /\ Grants(TokenOf(r, n).scopes, "merchant") => n.tenant # Platform
    BY <1>2, TokenIsDue
  <2>3. \A t \in tokens' \ tokens : t = TokenOf(r, n) /\ to = "done" /\ n.tenant = Platform
    BY <1>1, <1>2 DEF Registering
  <2> QED BY <1>1, <1>3, <1>5, <2>1, <2>2, <2>3 DEF Admits, TypeOK, BarsHold
<1>7. TypeOK' /\ RequestsInOrder'
  BY <1>1, <1>2, <1>4, <1>5, <1>6, TypeKept, OrderKept DEF TypeOK
<1>8. /\ pc[r] \notin Resting /\ pc'[r] = to /\ \A s \in Requests \ {r} : pc'[s] = pc[s]
      /\ copy'[r] = n /\ \A s \in Requests \ {r} : copy'[s] = copy[s]
      /\ UNCHANGED <<req, shown>>
  BY <1>1, <1>4, WhereTheyAre DEF TypeOK
<1>9. SecretsHold'
  <2>1. \A y : IsCode(y)' = IsCode(y) /\ IsLink(y)' = IsLink(y)
    BY <1>8 DEF IsCode, IsLink
  <2>2. (\A u, v \in users :
          u.id = v.id \/ (u.otp = v.otp /\ u.otp # Nothing) \/ (u.link = v.link /\ u.link # Nothing)
              => u = v)'
    BY <1>1, <1>2, <1>3 DEF SecretsHold
  <2>3. (\A u \in users :
          /\ u.otp # Nothing => IsCode(u.otp) /\ (u.otp \in Requests => pc[u.otp] = "done")
          /\ u.link # Nothing => IsLink(u.link) /\ pc[u.link] \in {"bounce", "done", "failed"}
          /\ u.otp \notin spent /\ u.link \notin spent)'
    <3>1. \A u \in users : u.link # Nothing => u.link \in Requests
      BY DEF SecretsHold, IsLink
    <3>2. Nothing \notin spent
      BY DEF SecretsHold
    <3>3. SUFFICES ASSUME NEW v \in users'
          PROVE  /\ v.otp # Nothing => IsCode(v.otp) /\ (v.otp \in Requests => pc'[v.otp] = "done")
                 /\ v.link # Nothing => IsLink(v.link) /\ pc'[v.link] \in {"bounce", "done", "failed"}
                 /\ v.otp \notin spent /\ v.link \notin spent
      BY <1>5, <2>1
    <3> QED BY <1>1, <1>2, <1>3, <1>8, <3>1, <3>2 DEF SecretsHold
  <2>4. \A s \in Requests :
          /\ req[s].op = "verify" /\ pc'[s] \in {"tenant", "spend"} =>
                /\ shown[s] \in mailed /\ IsCode(shown[s])
                /\ \A u \in users' : u.otp = shown[s] => u.id = copy'[s].id
          /\ pc'[s] = "password" =>
                /\ IsLink(shown[s])
                /\ \A u \in users' : u.link = shown[s] => u.id = copy'[s].id
    <3>1. Nothing \notin mailed /\ \A s \in Requests : pc[s] = "password" => shown[s] \in mailed
      BY IdentityNamesAssumption DEF TypeOK, RequestsInOrder, Fits
    <3> QED BY <1>1, <1>2, <1>8, <3>1 DEF SecretsHold
  <2>5. \A y \in mailed \intersect Requests : pc'[y] = "done"
    BY <1>3, <1>8 DEF SecretsHold
  <2>6. \A s \in late :
          /\ shown[s] \in spent /\ pc'[s] # "idle"
          /\ req[s].op \in {"verify", "reset"} => pc'[s] \in {"judge", "count", "link", "failed"}
    BY <1>1, <1>8 DEF SecretsHold, Makers, Registering, TypeOK
  <2>7. UNCHANGED mailed
    BY <1>1
  <2> QED BY <1>5, <1>8, <2>1, <2>2, <2>3, <2>4, <2>5, <2>6, <2>7 DEF SecretsHold
<1>10. GuessesHold'
  BY <1>1, <1>2, <1>3, <1>5, <1>8 DEF GuessesHold, GuessesAt, GuessesAreLimited, TypeOK
<1>11. AccountsHold'
  <2>1. customers' = customers /\ (req[r].op \in Registering => r \in customers)
    BY <1>1 DEF AccountsHold
  <2>2. RegistrationIsWhole'
    BY <1>1, <1>2, <1>3, <1>5, <1>8, <2>1 DEF AccountsHold, RegistrationIsWhole
  <2>3. (\A u \in users :
          /\ u.tenant = Platform <=> u.role = "CUSTOMER"
          /\ u.customer \in Requests => u.customer = u.id
          /\ u.id \in Requests =>
                /\ u.customer \in {u.id, Nothing}
                /\ pc[u.id] \notin {"idle", "existing", "customer", "insert"}
                /\ pc[u.id] = "undoCustomer" => u.id \in cut)'
    BY <1>1, <1>2, <1>3, <1>5, <1>8, IdentityNamesAssumption DEF AccountsHold, Names
  <2> QED BY <1>1, <1>2, <1>3, <1>5, <1>8, <2>1, <2>2, <2>3 DEF AccountsHold
<1>12. BarsHold'
  BY <1>1, <1>2, <1>3, <1>5, <1>6, <1>8 DEF BarsHold, DisabledGetNothing, Admits
<1> QED BY <1>7, <1>9, <1>10, <1>11, <1>12

-----------------------------------------------------------------------------
(* The invariant *)

\* Seeds have no reset links and codes of their own.
LEMMA InitHolds == Init => IdentityInv
<1> SUFFICES ASSUME Init PROVE IdentityInv
  OBVIOUS
<1>1. /\ users = Seeds /\ Seeds \subseteq User /\ counted = {} /\ spent = {} /\ late = {}
      /\ cut = {} /\ closed = {}
      /\ \A r \in Requests :
            pc[r] = "idle" /\ judged[r] = Nothing /\ floor[r] = 0 /\ barred[r] = {}
  BY SeedsAssumption DEF Init
<1>2. \A u \in Seeds : /\ u.id \in SeedNames
                       /\ u.otp # Nothing => u.otp \in SeedNames
                       /\ u.customer # Nothing => u.customer \in SeedNames
  <2> SUFFICES ASSUME NEW u \in Seeds
               PROVE  \A x \in {u.id, u.otp, u.customer} : x # Nothing => x \in SeedNames
    BY <1>1, IdentityNamesAssumption DEF User
  <2> DEFINE sets == {{v.id, v.otp, v.customer} : v \in Seeds}
  <2>1. {u.id, u.otp, u.customer} \in sets
    OBVIOUS
  <2> HIDE DEF sets
  <2>2. \A x \in {u.id, u.otp, u.customer} : x \in UNION sets
    BY <2>1
  <2>3. SeedNames = (UNION sets) \ {Nothing}
    BY Zenon DEF SeedNames, sets
  <2> QED BY <2>2, <2>3
<1>3. /\ \A t \in tokens : \E u \in Seeds : t = TokenOf(u.id, u)
      /\ customers = {u.customer : u \in Seeds} \ {Nothing}
      /\ mailed = {u.otp : u \in Seeds} \ {Nothing}
  BY DEF Init
<1>4. ASSUME NEW t \in tokens
      PROVE  /\ t.by \in SeedNames /\ t.tenant \in Tenants \cup {Platform}
             /\ Grants(t.scopes, "merchant") => t.tenant # Platform
  <2>1. PICK u \in Seeds : t = TokenOf(u.id, u)
    BY <1>3
  <2>2. t.by = u.id /\ t.tenant = u.tenant /\ t.scopes = ScopesOf(u.role)
    BY <2>1 DEF TokenOf
  <2>3. u.role = "CUSTOMER" => ScopesOf(u.role) = {<<"customer", "*">>}
    BY Zenon DEF ScopesOf
  <2> QED BY <1>1, <1>2, <2>2, <2>3, SeedsAssumption DEF Grants, User
<1>5. SeedNames \subseteq Names /\ SeedNames \intersect Requests = {} /\ Nothing \notin SeedNames
  BY IdentityNamesAssumption DEF Names
<1>6. TypeOK
  <2>1. req \in [Requests -> Intents]
    BY IdentityIntentsAssumption DEF Init
  <2>2. customers \subseteq SeedNames /\ mailed \subseteq SeedNames
    BY <1>2, <1>3
  <2>3. /\ pc \in [Requests -> Labels] /\ shown \in [Requests -> Names \cup tokens \cup {Nothing}]
        /\ copy \in [Requests -> User \cup {Nothing}]
        /\ judged \in [Requests -> Names \cup {Nothing}] /\ floor \in [Requests -> Nat]
        /\ barred \in [Requests -> SUBSET (Names \cup Tenants)]
    BY DEF Init, Labels, Resting
  <2> QED BY <1>1, <1>4, <1>5, <2>1, <2>2, <2>3 DEF TypeOK, Holding
<1>7. RequestsInOrder
  BY <1>1 DEF RequestsInOrder, Fits
<1>8. SecretsHold
  BY <1>1, <1>2, <1>3, <1>5, SeedsAssumption, IdentityNamesAssumption DEF SecretsHold, IsCode
<1>9. GuessesHold
  <2>1. \A code : GuessesAt(code) = {}
    BY <1>1 DEF GuessesAt
  <2> QED BY <1>1, <2>1, FS_EmptySet, IdentityNamesAssumption
          DEF GuessesHold, GuessesAreLimited, User, Names
<1>10. AccountsHold
  <2>1. RegistrationIsWhole
    BY <1>1, <1>3 DEF RegistrationIsWhole
  <2>2. \A c \in customers : c \in SeedNames /\ \E u \in users : u.customer = c
    BY <1>1, <1>2, <1>3
  <2>3. \A u \in users :
            /\ u.tenant = Platform <=> u.role = "CUSTOMER"
            /\ u.id \notin Requests /\ u.customer \notin Requests
    BY <1>1, <1>2, <1>5, SeedsAssumption, IdentityNamesAssumption DEF Names
  <2> QED BY <1>1, <1>5, <2>1, <2>2, <2>3 DEF AccountsHold
<1>11. BarsHold
  BY <1>1, <1>4, <1>5 DEF BarsHold, DisabledGetNothing
<1> QED BY <1>6, <1>7, <1>8, <1>9, <1>10, <1>11 DEF IdentityInv

\* The parts of the invariant do not mention what has lapsed: a code may be
\* accepted at any time of its life.
LEMMA LapseKeeps ==
    ASSUME IdentityInv, UNCHANGED <<users, customers, closed, tokens, mailed, pc, req, shown, copy, history>>
    PROVE  IdentityInv'
<1>1. /\ UNCHANGED <<users, customers, closed, tokens, mailed, pc, req, shown, copy, judged>>
      /\ UNCHANGED <<floor, counted, spent, late, barred, cut>>
  BY DEF history
<1>2. TypeOK' /\ RequestsInOrder'
  BY <1>1 DEF IdentityInv, TypeOK, RequestsInOrder, Fits, Grants
<1>3. SecretsHold'
  BY <1>1 DEF IdentityInv, SecretsHold, IsCode, IsLink
<1>4. GuessesHold'
  BY <1>1 DEF IdentityInv, GuessesHold, GuessesAt, GuessesAreLimited
<1>5. AccountsHold'
  BY <1>1 DEF IdentityInv, AccountsHold, RegistrationIsWhole
<1>6. BarsHold'
  BY <1>1 DEF IdentityInv, BarsHold, DisabledGetNothing
<1> QED BY <1>2, <1>3, <1>4, <1>5, <1>6 DEF IdentityInv

\* The invariant is inductive: one case per action of Next.
LEMMA NextHolds == IdentityInv /\ [Next]_vars => IdentityInv'
<1> SUFFICES ASSUME IdentityInv, [Next]_vars PROVE IdentityInv'
  OBVIOUS
<1>1. ASSUME NEW r \in Requests, Step(r) PROVE IdentityInv'
  <2>1. CASE \E i \in Intents : \E x \in Shows(i.op) : Start(r, i, x)
    BY <2>1, StartKeeps
  <2>2. CASE FindUser(r) \/ CheckTenant(r) \/ StoreCode(r) \/ StoreFails(r)
    BY <2>2, FindUserKeeps, CheckTenantKeeps, StoreCodeKeeps, StoreFailsKeeps
  <2>3. CASE JudgeCode(r) \/ CountGuess(r) \/ SpendCode(r) \/ refresh(r)
    BY <2>3, JudgeCodeKeeps, CountGuessKeeps, SpendCodeKeeps, RefreshKeeps
  <2>4. CASE FindForLink(r) \/ StoreLink(r) \/ Bounce(r) \/ FindByLink(r) \/ SetPassword(r)
    BY <2>4, FindForLinkKeeps, StoreLinkKeeps, BounceKeeps, FindByLinkKeeps, SetPasswordKeeps
  <2>5. CASE CheckAddress(r) \/ CreateCustomer(r) \/ InsertUser(r) \/ InsertFails(r)
    BY <2>5, CheckAddressKeeps, CreateCustomerKeeps, InsertUserKeeps, InsertFailsKeeps
  <2>6. CASE UndoUser(r) \/ UndoCustomer(r) \/ Fail(r)
    BY <2>6, UndoUserKeeps, UndoCustomerKeeps, StopKeeps
  <2>7. CASE FindStaff(r) \/ CheckDuplicate(r) \/ UpdateStaff(r) \/ SwitchUser(r) \/ SwitchTenant(r)
    BY <2>7, FindStaffKeeps, CheckDuplicateKeeps, UpdateStaffKeeps, SwitchUserKeeps,
       SwitchTenantKeeps
  <2> QED BY <1>1, <2>1, <2>2, <2>3, <2>4, <2>5, <2>6, <2>7 DEF Step
<1>2. CASE \E n \in Names : Lapse(n)
  BY <1>2, LapseKeeps DEF Lapse
<1>3. CASE UNCHANGED vars
  BY <1>3, LapseKeeps DEF vars, collections
<1> QED BY <1>1, <1>2, <1>3 DEF Next

\* Whatever users there are at the start, and whatever is asked for in whatever
\* order, the invariant holds.
THEOREM IdentityInvariance == Spec => []IdentityInv
<1>1. Init => IdentityInv
  BY InitHolds
<1>2. IdentityInv /\ [Next]_vars => IdentityInv'
  BY NextHolds
<1> QED BY <1>1, <1>2, PTL DEF Spec

\* A used code or link admits nobody who begins afterwards, and nobody is
\* admitted who was disabled, or whose merchant was closed, all along.
THEOREM Admissions == Spec => []AdmissionsAreDue
<1>1. IdentityInv => UsedOnce
  BY DEF IdentityInv, SecretsHold, UsedOnce
<1>2. IdentityInv => AdmissionsAreDue
  BY <1>1 DEF IdentityInv, BarsHold, AdmissionsAreDue
<1> QED BY <1>2, IdentityInvariance, PTL

\* No guess is compared with a code against which MaxAttempts wrong guesses were
\* counted before, however many requests guess at once.
THEOREM Guesses == Spec => []GuessesAreLimited
<1>1. IdentityInv => GuessesAreLimited
  BY DEF IdentityInv, GuessesHold
<1> QED BY <1>1, IdentityInvariance, PTL

\* Registrations leave no customer without a user nor a user without a
\* customer, but for those whose clean-up was cut short.
THEOREM Registration == Spec => []RegistrationIsWhole
<1>1. IdentityInv => RegistrationIsWhole
  BY DEF IdentityInv, AccountsHold
<1> QED BY <1>1, IdentityInvariance, PTL

=============================================================================
