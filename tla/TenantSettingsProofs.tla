------------------------- MODULE TenantSettingsProofs -------------------------
(***************************************************************************)
(* SettingsInv is inductive, for any requests, intents and bodies.  Beside *)
(* the types and where requests are it has a part for each thing a         *)
(* merchant configures: the list of invitations, the programme, the        *)
(* catalogue, the milestones and the place on the map.  Each part compares *)
(* the document with the copies that requests hold to write back.  What a  *)
(* step of one request may do without touching a part is said once for     *)
(* each part (SparesLists to SparesMap); the steps that do touch it are    *)
(* shown to keep it one by one.                                            *)
(***************************************************************************)
EXTENDS TenantSettings, FiniteSetTheorems, TLAPS

Labels == Resting \cup
    {"email", "tenant", "location", "admin", "passSignup", "passLocation", "read", "save",
     "retire", "rule", "loyalty", "member", "list", "push", "find", "invitee", "join", "drop",
     "count", "remove", "offer", "redeem", "look", "passFirst", "write", "times"}

Own == {"settings", "merge", "configure", "complete", "invite", "addReward", "purchase", "device"}
OfReward == {"editReward", "deleteReward", "redeem"}

Ruleset == [id: Tenants, tenant: Tenants, type: Types, open: BOOLEAN]
Reward == [id: Requests \cup FirstRewards, kind: Kinds]
Redemption == [by: Requests, reward: Requests \cup FirstRewards, kind: Kinds]
Passed == [Milestones -> Tenants \cup {Nothing}]
Spans == [Milestones \ {"signup"} -> (Tenants \X Tenants) \cup {Nothing}]
Copies == Tenant \cup Reward \cup Passed \cup {Nothing}

\* Labels at which a request has a copy of the tenant.
TenantRead == {"save", "push", "invitee", "join", "drop"}

DataOK ==
    /\ tenants \in [Tenants -> Tenant \cup {Nothing}] /\ Shop \in Existing
    /\ rulesets \subseteq Ruleset /\ rewards \subseteq Reward /\ redemptions \subseteq Redemption
    /\ asking \subseteq [by: Requests, tenant: Tenants, address: Addresses]
    /\ funnel \in [Tenants -> [passed: Passed, times: Spans]]
    /\ sent \subseteq Requests /\ taken \subseteq sent

ControlOK ==
    /\ pc \in [Requests -> Labels] /\ req \in [Requests -> Intents]
    /\ target \in [Requests -> Tenants \cup FirstRewards \cup {Nothing}]
    /\ copy \in [Requests -> Copies]
    /\ \A r \in Requests :
          /\ pc[r] \in TenantRead => copy[r] \in Tenant
          /\ pc[r] = "redeem" => copy[r] \in Reward
          /\ pc[r] = "times" => copy[r] \in Passed

TypeOK == DataOK /\ ControlOK

\* Requests for op come to the label l.
Fits(op, l) ==
    /\ l \in {"email", "tenant", "location", "admin", "passSignup", "passLocation"} => op = "signup"
    /\ l \in {"read", "save"} => op \in {"settings", "merge"}
    /\ l \in {"retire", "rule", "loyalty"} => op = "configure"
    /\ l \in {"member", "list", "push"} => op = "invite"
    /\ l \in {"find", "invitee", "join", "drop"} => op = "accept"
    /\ l \in {"count", "remove"} => op = "deleteReward"
    /\ l \in {"offer", "redeem"} => op = "redeem"
    /\ l = "look" => op \in {"purchase", "device", "invite"}
    /\ l = "passFirst" => op \in {"complete", "purchase", "device", "invite"}
    /\ l = "write" => op \in {"configure", "complete", "addReward", "editReward"}
    /\ l = "times" => op \in {"signup", "complete", "purchase", "device", "invite"}

\* A request is where its intent leads it, about something that is there.
InOrder ==
    /\ \A r \in Requests :
          /\ Fits(req[r].op, pc[r])
          /\ pc[r] # "idle" =>
                /\ req[r].op \in Own => target[r] \in Existing
                /\ req[r].op = "accept" => target[r] \in sent
                /\ req[r].op \in OfReward => target[r] \in Requests \cup FirstRewards
          /\ pc[r] \in {"idle", "email", "tenant"} => r \notin Existing
          /\ req[r].op = "signup" /\ pc[r] \notin {"idle", "email", "tenant", "failed"} => r \in Existing
          /\ req[r].op = "configure" /\ pc[r] = "write" => req[r].value \in Kinds
    /\ \A k \in sent : req[k].op = "invite" /\ pc[k] \notin {"idle", "member", "list", "push"}
    /\ \A g \in asking : g.tenant \in Existing /\ pc[g.by] \notin {"idle", "read"}

\* r has read the list of t's invitations, to write it back.
Holds(r, t) ==
    \/ pc[r] = "push" /\ target[r] = t
    \/ pc[r] = "save" /\ target[r] = t /\ req[r].op = "merge"
    \/ pc[r] \in {"invitee", "join", "drop"} /\ target[target[r]] = t

Listed(k, list) == k \in list <=> k \notin taken

\* Lists have invitations of their merchant only, and those that nobody
\* contested are in the list, and in every copy that will be written back,
\* until they are taken.
ListsHold ==
    /\ \A t \in Existing : \A k \in tenants[t].config.invites : k \in sent /\ target[k] = t
    /\ \A r \in Requests, t \in Tenants :
          Holds(r, t) => \A k \in copy[r].config.invites : k \in sent /\ target[k] = t
    /\ \A k \in sent \ contested :
          /\ Listed(k, tenants[target[k]].config.invites)
          /\ \A r \in Requests : Holds(r, target[k]) => Listed(k, copy[r].config.invites)

Configures(r) == pc[r] \in Configuring /\ target[r] = Shop

\* One programme is in force and is the merchant's loyalty type, except while it
\* is replaced.
ProgrammeHolds ==
    Shop \notin muddled =>
        /\ \A r, s \in Requests : Configures(r) /\ Configures(s) => r = s
        /\ \A r \in Requests : target[r] = Shop =>
              /\ pc[r] = "rule" => InForce(Shop) = {}
              /\ pc[r] = "loyalty" =>
                    \E d \in rulesets : InForce(Shop) = {d} /\ d.type = req[r].value
              /\ pc[r] = "save" /\ req[r].op = "merge" =>
                    copy[r].config.loyalty = tenants[Shop].config.loyalty
        /\ (\A r \in Requests : ~Configures(r)) =>
              \E d \in rulesets : InForce(Shop) = {d} /\ d.type = tenants[Shop].config.loyalty

Offers(w, kind) == \E v \in rewards : v.id = w /\ v.kind = kind

\* A reward has the kind at which it is being redeemed, and was, and one that is
\* being deleted has not been redeemed.
CatalogueHolds ==
    /\ \A v, w \in rewards : v.id = w.id => v = w
    /\ \A w \in rewards : w.id \in Requests => pc[w.id] = "done"
    /\ \A d \in redemptions : d.reward \notin retyped => Offers(d.reward, d.kind)
    /\ \A r \in Requests : target[r] \notin retyped =>
          /\ pc[r] = "redeem" => Offers(target[r], copy[r].kind)
          /\ pc[r] = "remove" => RedemptionsOf(target[r]) = {}

\* The times are those between the milestones.
TimesFit(t) ==
    \A m \in Milestones \ {"signup"} :
        funnel[t].times[m] = IF Nothing \in {funnel[t].passed["signup"], funnel[t].passed[m]}
                             THEN Nothing ELSE <<funnel[t].passed["signup"], funnel[t].passed[m]>>

\* There are no times of milestones that have not been passed.
NoTimesAhead(t) ==
    \A m \in Milestones \ {"signup"} :
        Nothing \in {funnel[t].passed["signup"], funnel[t].passed[m]} =>
            funnel[t].times[m] = Nothing

PassedBy(r) == {m \in Milestones : funnel[r].passed[m] = r}

\* What a sign-up has done when it comes to the label l.
SignedUp(r, l) ==
    /\ l \in {"idle", "email", "tenant", "location", "admin", "passSignup"} =>
          /\ PassedBy(r) = {}
          /\ funnel[r].passed["signup"] = Nothing /\ funnel[r].passed["location"] = Nothing
    /\ l \in {"admin", "passSignup", "passLocation", "times", "done"} => r \in locations
    /\ l \in {"passSignup", "passLocation", "times", "done"} => <<r, req[r].value>> \in users
    /\ l = "passLocation" => PassedBy(r) = {"signup"}
    /\ l = "times" =>
          PassedBy(r) = IF copy[r]["location"] = Nothing THEN {"signup"} ELSE {"signup", "location"}
    /\ l = "done" => PassedBy(r) = {"signup", "location"}

MilestonesHold ==
    /\ \A t \in Tenants \ tangled :
          /\ \A r \in Requests :
                pc[r] = "times" /\ Subject(r) = t => copy[r] = funnel[t].passed /\ NoTimesAhead(t)
          /\ (\A r \in Requests : pc[r] = "times" => Subject(r) # t) => TimesFit(t)
    /\ \A r \in Requests :
          /\ pc[r] \in {"times", "done"} =>
                /\ req[r].op = "invite" => funnel[target[r]].passed["staff"] # Nothing
                /\ req[r].op \in {"complete", "purchase"} => funnel[target[r]].passed["scan"] # Nothing
          /\ pc[r] = "idle" \/ req[r].op = "signup" => SignedUp(r, pc[r])

\* The fields that say where a merchant is.
SameMap(v, w) ==
    /\ v.config.address = w.config.address /\ v.config.status = w.config.status
    /\ v.config.formatted = w.config.formatted /\ v.config.flat = w.config.flat
    /\ v.place = w.place

MapSound(v) ==
    /\ v.config.status = "resolved" =>
          /\ v.config.address # Nothing /\ v.config.formatted = v.config.address
          /\ v.config.flat = v.config.address /\ v.place = v.config.address
    /\ v.config.status = "none" =>
          v.config.address = Nothing /\ v.config.formatted = Nothing /\ v.place = Nothing

\* One request at most is about to change the place, and what is being looked up
\* is the address or will be.
MapAt(t) ==
    /\ MapSound(tenants[t])
    /\ \A r \in Requests : pc[r] = "save" /\ target[r] = t =>
          /\ SameMap(copy[r], tenants[t])
          /\ \A s \in Requests : pc[s] = "save" /\ target[s] = t => s = r
          /\ \A g \in asking : g.tenant = t => g.by = r
    /\ \A g \in asking : g.tenant = t =>
          IF pc[g.by] = "save"
          THEN target[g.by] = t /\ ChangesAddress(g.by) /\ req[g.by].value = g.address
          ELSE tenants[t].config.address = g.address

MapHolds == \A t \in Existing \ crossed : MapAt(t)

SettingsInv ==
    TypeOK /\ InOrder /\ ListsHold /\ ProgrammeHolds /\ CatalogueHolds /\ MilestonesHold /\ MapHolds

-----------------------------------------------------------------------------
(* What the steps of a request on its way have in common: r goes to the      *)
(* label to and holds c from then on.                                       *)

Carries(l, c) ==
    /\ c \in Copies
    /\ l \in TenantRead => c \in Tenant
    /\ l = "redeem" => c \in Reward
    /\ l = "times" => c \in Passed

Moves(r, to, c) ==
    /\ pc[r] \notin Resting /\ to \in Labels \ {"idle", "read"} /\ Goto(r, to)
    /\ copy' = [copy EXCEPT ![r] = c] /\ Carries(to, c) /\ Fits(req[r].op, to)
    /\ UNCHANGED <<req, target>>

\* r makes no tenant or invitation but its own, and is where it should be then.
Orders(r, to) ==
    /\ Existing \subseteq Existing' /\ Existing' \subseteq Existing \cup {r}
    /\ to \in {"email", "tenant"} => r \notin Existing'
    /\ req[r].op = "signup" /\ to \notin {"email", "tenant", "failed"} => r \in Existing'
    /\ req[r].op = "configure" /\ to = "write" => req[r].value \in Kinds
    /\ sent \subseteq sent' /\ sent' \subseteq sent \cup {r}
    /\ r \in sent' => req[r].op = "invite" /\ to \notin {"member", "list", "push"}
    /\ \A g \in asking' \ asking : g.tenant \in Existing' /\ g.by = r

\* Lists stay, and a list that is read is the one in the document.
SparesLists(r, to, c) ==
    /\ UNCHANGED <<sent, taken, contested>>
    /\ \A t \in Existing' :
          tenants'[t].config.invites = IF t \in Existing THEN tenants[t].config.invites ELSE {}
    /\ \A t \in Tenants : Holds(r, t)' =>
          (Holds(r, t) /\ c = copy[r]) \/ (t \in Existing /\ c = tenants[t])

\* The programme stays, and is left half way or read as it is.
SparesProgramme(r, to, c) ==
    /\ muddled \subseteq muddled' /\ UNCHANGED rulesets
    /\ tenants'[Shop].config.loyalty = tenants[Shop].config.loyalty
    /\ to \notin Configuring /\ (pc[r] \in Configuring => target[r] \in muddled')
    /\ to = "save" => c = tenants[target[r]]

SparesCatalogue(to) ==
    UNCHANGED <<rewards, redemptions, retyped>> /\ to \notin {"redeem", "remove"}

\* What a request has passed when it is answered.
Recorded(r) ==
    /\ req[r].op = "invite" => funnel[target[r]].passed["staff"] # Nothing
    /\ req[r].op \in {"complete", "purchase"} => funnel[target[r]].passed["scan"] # Nothing

SparesMilestones(r, to) ==
    /\ UNCHANGED funnel /\ tangled \subseteq tangled'
    /\ locations \subseteq locations' /\ users \subseteq users'
    /\ to # "times" /\ (pc[r] = "times" => Subject(r) \in tangled')
    /\ to = "done" => Recorded(r)
    /\ req[r].op = "signup" => SignedUp(r, to)'

SparesMap(r, to) ==
    /\ UNCHANGED asking /\ crossed \subseteq crossed'
    /\ \A t \in Existing' \ crossed' : t \in Existing /\ SameMap(tenants'[t], tenants[t])
    /\ to # "save" /\ (pc[r] = "save" => target[r] \in crossed')

\* Of the labels, r's alone changes, and of the copies.
LEMMA WhereTheyAre ==
    ASSUME ControlOK, NEW r \in Requests, NEW to, NEW c, Moves(r, to, c)
    PROVE  /\ pc'[r] = to /\ \A s \in Requests \ {r} : pc'[s] = pc[s]
           /\ copy'[r] = c /\ \A s \in Requests \ {r} : copy'[s] = copy[s]
           /\ req' = req /\ target' = target /\ ControlOK'
<1>1. /\ pc'[r] = to /\ \A s \in Requests \ {r} : pc'[s] = pc[s]
      /\ copy'[r] = c /\ \A s \in Requests \ {r} : copy'[s] = copy[s]
      /\ pc' \in [Requests -> Labels] /\ copy' \in [Requests -> Copies]
      /\ req' = req /\ target' = target
  BY DEF ControlOK, Moves, Goto, Carries
<1> QED BY <1>1 DEF ControlOK, Moves, Carries

\* Requests stay in order when one of them moves.
LEMMA OrderKept ==
    ASSUME DataOK, ControlOK, InOrder, NEW r \in Requests, NEW to, NEW c,
           Moves(r, to, c), Orders(r, to)
    PROVE  InOrder'
<1>1. /\ pc'[r] = to /\ \A s \in Requests \ {r} : pc'[s] = pc[s]
      /\ req' = req /\ target' = target /\ to \notin {"idle", "read"} /\ Fits(req[r].op, to)
      /\ pc[r] \notin Resting
  BY WhereTheyAre DEF Moves
<1>2. \A s \in Requests :
        /\ Fits(req[s].op, pc'[s])
        /\ pc'[s] # "idle" => pc[s] # "idle"
        /\ pc'[s] \in {"idle", "email", "tenant"} => s \notin Existing'
        /\ req[s].op = "signup" /\ pc'[s] \notin {"idle", "email", "tenant", "failed"} =>
              s \in Existing'
        /\ req[s].op = "configure" /\ pc'[s] = "write" => req[s].value \in Kinds
  <2>1. \A s \in Requests \ {r} : s \in Existing' <=> s \in Existing
    BY DEF Orders
  <2> QED BY <1>1, <2>1 DEF InOrder, Orders, Resting
<1>3. (\A s \in Requests :
         /\ Fits(req[s].op, pc[s])
         /\ pc[s] # "idle" =>
               /\ req[s].op \in Own => target[s] \in Existing
               /\ req[s].op = "accept" => target[s] \in sent
               /\ req[s].op \in OfReward => target[s] \in Requests \cup FirstRewards
         /\ pc[s] \in {"idle", "email", "tenant"} => s \notin Existing
         /\ req[s].op = "signup" /\ pc[s] \notin {"idle", "email", "tenant", "failed"} => s \in Existing
         /\ req[s].op = "configure" /\ pc[s] = "write" => req[s].value \in Kinds)'
  <2>1. \A l : Fits(req[r].op, l)' = Fits(req[r].op, l)
    BY <1>1 DEF Fits
  <2> QED BY <1>1, <1>2 DEF InOrder, Orders, Fits
<1>4. \A k \in sent' : req[k].op = "invite" /\ pc'[k] \notin {"idle", "member", "list", "push"}
  BY <1>1 DEF InOrder, Orders, DataOK
<1>5. \A g \in asking' : g.tenant \in Existing' /\ pc'[g.by] \notin {"idle", "read"}
  BY <1>1 DEF InOrder, Orders, DataOK
<1> QED BY <1>1, <1>3, <1>4, <1>5 DEF InOrder

\* A step that spares the lists keeps what is said of them.
LEMMA ListsKept ==
    ASSUME DataOK, ControlOK, InOrder, ListsHold, NEW r \in Requests, NEW to, NEW c,
           Moves(r, to, c), Orders(r, to), SparesLists(r, to, c)
    PROVE  ListsHold'
<1>1. /\ pc'[r] = to /\ \A s \in Requests \ {r} : pc'[s] = pc[s]
      /\ copy'[r] = c /\ \A s \in Requests \ {r} : copy'[s] = copy[s]
      /\ req' = req /\ target' = target
  BY WhereTheyAre
<1>2. UNCHANGED <<sent, taken, contested>>
  BY DEF SparesLists
<1>3. \A k : \A list : Listed(k, list)' <=> Listed(k, list)
  BY <1>2 DEF Listed
<1>4. \A s \in Requests \ {r}, t \in Tenants : Holds(s, t)' <=> Holds(s, t)
  BY <1>1 DEF Holds
<1>5. \A s \in Requests, t \in Tenants : Holds(s, t)' =>
         \/ Holds(s, t) /\ copy'[s] = copy[s]
         \/ t \in Existing /\ copy'[s] = tenants[t]
  BY <1>1, <1>4 DEF SparesLists
<1>6. \A k \in sent : target[k] \in Existing
  BY DEF InOrder, Own, DataOK
<1>7. \A t \in Existing' : \A k \in tenants'[t].config.invites : k \in sent /\ target[k] = t
  BY DEF ListsHold, SparesLists
<1>8. \A s \in Requests, t \in Tenants :
         Holds(s, t)' => \A k \in copy'[s].config.invites : k \in sent /\ target[k] = t
  BY <1>5 DEF ListsHold
<1>9. \A k \in sent \ contested, t \in Tenants : target[k] = t =>
         /\ Listed(k, tenants'[t].config.invites)
         /\ \A s \in Requests : Holds(s, t)' => Listed(k, copy'[s].config.invites)
  <2> SUFFICES ASSUME NEW k \in sent \ contested, NEW t \in Tenants, target[k] = t
               PROVE  /\ Listed(k, tenants'[t].config.invites)
                      /\ \A s \in Requests : Holds(s, t)' => Listed(k, copy'[s].config.invites)
    OBVIOUS
  <2>1. t \in Existing /\ t \in Existing'
    BY <1>6 DEF Existing, Orders
  <2>2. /\ Listed(k, tenants[t].config.invites)
        /\ \A s \in Requests : Holds(s, t) => Listed(k, copy[s].config.invites)
    BY DEF ListsHold
  <2>3. tenants'[t].config.invites = tenants[t].config.invites
    BY <2>1 DEF SparesLists
  <2> QED BY <1>5, <2>1, <2>2, <2>3
<1>10. \A k \in sent : target[k] \in Tenants
  BY <1>6 DEF Existing
<1> QED BY <1>1, <1>2, <1>3, <1>7, <1>8, <1>9, <1>10 DEF ListsHold

\* A step that spares the programme, or leaves it half way and says so, keeps
\* what is said of it.
LEMMA ProgrammeKept ==
    ASSUME DataOK, ControlOK, ProgrammeHolds, NEW r \in Requests, NEW to, NEW c,
           Moves(r, to, c), SparesProgramme(r, to, c)
    PROVE  ProgrammeHolds'
<1>1. /\ pc'[r] = to /\ \A s \in Requests \ {r} : pc'[s] = pc[s]
      /\ copy'[r] = c /\ \A s \in Requests \ {r} : copy'[s] = copy[s]
      /\ req' = req /\ target' = target
  BY WhereTheyAre
<1>2. SUFFICES ASSUME Shop \notin muddled' PROVE ProgrammeHolds'
  BY DEF ProgrammeHolds
<1>3. InForce(Shop)' = InForce(Shop) /\ rulesets' = rulesets /\ Shop \notin muddled
      /\ tenants'[Shop].config.loyalty = tenants[Shop].config.loyalty
  BY <1>2 DEF InForce, SparesProgramme
<1>4. \A s \in Requests : Configures(s)' <=> Configures(s)
  BY <1>1, <1>2 DEF Configures, SparesProgramme
<1>5. to \notin Configuring /\ (to = "save" => c = tenants[target[r]])
  BY DEF SparesProgramme
<1> QED BY <1>1, <1>3, <1>4, <1>5 DEF ProgrammeHolds, Configuring

\* A step that spares the catalogue keeps what is said of it.
LEMMA CatalogueKept ==
    ASSUME DataOK, ControlOK, CatalogueHolds, NEW r \in Requests, NEW to, NEW c,
           Moves(r, to, c), SparesCatalogue(to)
    PROVE  CatalogueHolds'
<1>1. /\ pc'[r] = to /\ \A s \in Requests \ {r} : pc'[s] = pc[s]
      /\ copy'[r] = c /\ \A s \in Requests \ {r} : copy'[s] = copy[s]
      /\ req' = req /\ target' = target /\ pc[r] # "done"
  BY WhereTheyAre DEF Moves, Resting
<1> QED BY <1>1 DEF CatalogueHolds, SparesCatalogue, Offers, RedemptionsOf

\* A step that passes no milestone, or stops half way and says so, keeps what is
\* said of them.
LEMMA MilestonesKept ==
    ASSUME DataOK, ControlOK, MilestonesHold, NEW r \in Requests, NEW to, NEW c,
           Moves(r, to, c), SparesMilestones(r, to)
    PROVE  MilestonesHold'
<1>1. /\ pc'[r] = to /\ \A s \in Requests \ {r} : pc'[s] = pc[s]
      /\ copy'[r] = c /\ \A s \in Requests \ {r} : copy'[s] = copy[s]
      /\ req' = req /\ target' = target /\ to # "idle"
  BY WhereTheyAre DEF Moves
<1>2. /\ funnel' = funnel /\ tangled \subseteq tangled' /\ to # "times"
      /\ (pc[r] = "times" => Subject(r) \in tangled')
      /\ locations \subseteq locations' /\ users \subseteq users'
  BY DEF SparesMilestones
<1>3. \A s \in Requests : Subject(s)' = Subject(s)
  BY <1>1 DEF Subject
<1>4. \A t \in Tenants : NoTimesAhead(t)' = NoTimesAhead(t) /\ TimesFit(t)' = TimesFit(t)
  BY <1>2 DEF NoTimesAhead, TimesFit
<1>5. (\A t \in Tenants \ tangled :
          /\ \A s \in Requests :
                pc[s] = "times" /\ Subject(s) = t => copy[s] = funnel[t].passed /\ NoTimesAhead(t)
          /\ (\A s \in Requests : pc[s] = "times" => Subject(s) # t) => TimesFit(t))'
  BY <1>1, <1>2, <1>3, <1>4 DEF MilestonesHold
<1>6. (\A s \in Requests : pc[s] \in {"times", "done"} => Recorded(s))'
  BY <1>1, <1>2 DEF MilestonesHold, Recorded, SparesMilestones
<1>7. (\A s \in Requests : pc[s] = "idle" \/ req[s].op = "signup" => SignedUp(s, pc[s]))'
  <2>1. \A s \in Requests \ {r} : \A l : SignedUp(s, l) => SignedUp(s, l)'
    BY <1>1, <1>2 DEF SignedUp, PassedBy
  <2> QED BY <1>1, <2>1 DEF MilestonesHold, SparesMilestones
<1> QED BY <1>5, <1>6, <1>7 DEF MilestonesHold, Recorded

\* A step that changes nobody's address, or gives up changing it and says so,
\* keeps every place sound.
LEMMA MapKept ==
    ASSUME DataOK, ControlOK, InOrder, MapHolds, NEW r \in Requests, NEW to, NEW c,
           Moves(r, to, c), SparesMap(r, to)
    PROVE  MapHolds'
<1>1. /\ pc'[r] = to /\ \A s \in Requests \ {r} : pc'[s] = pc[s]
      /\ copy'[r] = c /\ \A s \in Requests \ {r} : copy'[s] = copy[s]
      /\ req' = req /\ target' = target /\ to # "save"
  BY WhereTheyAre DEF SparesMap
<1>2. SUFFICES ASSUME NEW t \in Existing' \ crossed' PROVE MapAt(t)'
  BY DEF MapHolds
<1>3. t \in Existing \ crossed /\ SameMap(tenants'[t], tenants[t]) /\ asking' = asking
      /\ (pc[r] = "save" => target[r] # t)
  BY DEF SparesMap
<1>4. MapSound(tenants[t])'
  BY <1>3 DEF MapHolds, MapAt, MapSound, SameMap
<1>5. \A s \in Requests : pc'[s] = "save" /\ target[s] = t =>
         /\ pc[s] = "save" /\ copy'[s] = copy[s] /\ SameMap(copy[s], tenants'[t])
         /\ \A q \in Requests : pc[q] = "save" /\ target[q] = t => q = s
         /\ \A g \in asking : g.tenant = t => g.by = s
  BY <1>1, <1>3 DEF MapHolds, MapAt, SameMap
<1>6. \A g \in asking : g.tenant = t =>
         IF pc'[g.by] = "save"
         THEN target[g.by] = t /\ ChangesAddress(g.by) /\ req[g.by].value = g.address
         ELSE tenants'[t].config.address = g.address
  BY <1>1, <1>3 DEF MapHolds, MapAt, SameMap, DataOK
<1>7. \A g \in asking : ChangesAddress(g.by)' = ChangesAddress(g.by)
  BY <1>1 DEF ChangesAddress
<1> QED BY <1>1, <1>3, <1>4, <1>5, <1>6, <1>7 DEF MapAt

\* A step that spares every part keeps the invariant.
LEMMA StepKeeps ==
    ASSUME SettingsInv, NEW r \in Requests, NEW to, NEW c, Moves(r, to, c), Orders(r, to), DataOK',
           SparesLists(r, to, c), SparesProgramme(r, to, c), SparesCatalogue(to),
           SparesMilestones(r, to), SparesMap(r, to)
    PROVE  SettingsInv'
<1>1. DataOK /\ ControlOK /\ InOrder /\ ListsHold /\ ProgrammeHolds /\ CatalogueHolds
      /\ MilestonesHold /\ MapHolds
  BY DEF SettingsInv, TypeOK
<1>2. TypeOK'
  BY <1>1, WhereTheyAre DEF TypeOK
<1> QED BY <1>1, <1>2, OrderKept, ListsKept, ProgrammeKept, CatalogueKept, MilestonesKept, MapKept
        DEF SettingsInv

\* What a step that writes no collection keeps: all that is asked of it concerns
\* the label it comes to.
LEMMA StillKeeps ==
    ASSUME SettingsInv, NEW r \in Requests, NEW to, NEW c, Moves(r, to, c),
           UNCHANGED <<collections, locations, funnel, sent, taken, contested, retyped>>,
           crossed \subseteq crossed', muddled \subseteq muddled', tangled \subseteq tangled',
           to \notin Configuring \cup {"redeem", "remove", "times", "save", "email", "write"},
           pc[r] \in Configuring => target[r] \in muddled',
           pc[r] = "times" => Subject(r) \in tangled',
           pc[r] = "save" => target[r] \in crossed',
           to = "tenant" => r \notin Existing,
           req[r].op = "signup" /\ to \notin {"tenant", "failed"} => r \in Existing,
           to \in {"member", "list", "push"} => r \notin sent,
           \A t \in Tenants : Holds(r, t)' =>
               (Holds(r, t) /\ c = copy[r]) \/ (t \in Existing /\ c = tenants[t]),
           to = "done" => Recorded(r),
           req[r].op = "signup" => SignedUp(r, to)'
    PROVE  SettingsInv'
<1>1. /\ UNCHANGED <<tenants, users, rulesets, rewards, redemptions, asking>>
      /\ UNCHANGED <<locations, funnel, sent, taken, contested, retyped>>
      /\ Existing' = Existing
  BY DEF collections, Existing
<1>2. DataOK /\ ControlOK /\ InOrder
  BY DEF SettingsInv, TypeOK
<1>3. DataOK'
  BY <1>1, <1>2 DEF DataOK
<1>4. Orders(r, to)
  BY <1>1, <1>2 DEF Orders, InOrder
<1>5. SparesLists(r, to, c)
  BY <1>1 DEF SparesLists
<1>6. SparesProgramme(r, to, c) /\ SparesCatalogue(to)
  BY <1>1 DEF SparesProgramme, SparesCatalogue
<1>7. SparesMilestones(r, to)
  BY <1>1 DEF SparesMilestones
<1>8. SparesMap(r, to)
  BY <1>1 DEF SparesMap, SameMap
<1> QED BY <1>3, <1>4, <1>5, <1>6, <1>7, <1>8, StepKeeps

\* A request that fails, at any of its calls, leaves what it has written.
LEMMA FailKeeps ==
    ASSUME SettingsInv, NEW r \in Requests, Fail(r)
    PROVE  SettingsInv'
<1>1. /\ UNCHANGED <<collections, locations, funnel, sent, taken, contested, retyped>>
      /\ crossed \subseteq crossed' /\ muddled \subseteq muddled' /\ tangled \subseteq tangled'
      /\ pc[r] \in Configuring => target[r] \in muddled'
      /\ pc[r] = "times" => Subject(r) \in tangled'
      /\ pc[r] = "save" => target[r] \in crossed'
  BY DEF Fail
<1>2. Moves(r, "failed", Nothing)
  BY DEF Fail, Finish, Moves, Carries, Copies, Labels, Resting, TenantRead, Fits
<1>3. pc'[r] = "failed"
  BY <1>2, WhereTheyAre DEF SettingsInv, TypeOK
<1>4. \A t \in Tenants : ~Holds(r, t)'
  BY <1>3 DEF Holds
<1>5. SignedUp(r, "failed")'
  BY DEF SignedUp
<1> QED BY <1>1, <1>2, <1>4, <1>5, StillKeeps DEF Configuring

\* Nor does one that is refused, before it has written any.
LEMMA RefuseKeeps ==
    ASSUME SettingsInv, NEW r \in Requests, Refuse(r),
           pc[r] \notin Resting \cup Configuring \cup {"times", "save"}
    PROVE  SettingsInv'
<1>1. /\ UNCHANGED <<collections, locations, funnel, sent, taken, contested, retyped>>
      /\ UNCHANGED <<crossed, muddled, tangled>>
  BY DEF Refuse, history, progress
<1>2. Moves(r, "failed", Nothing)
  BY DEF Refuse, Finish, Moves, Carries, Copies, Labels, Resting, TenantRead, Fits
<1>3. pc'[r] = "failed"
  BY <1>2, WhereTheyAre DEF SettingsInv, TypeOK
<1>4. \A t \in Tenants : ~Holds(r, t)'
  BY <1>3 DEF Holds
<1>5. SignedUp(r, "failed")'
  BY DEF SignedUp
<1> QED BY <1>1, <1>2, <1>4, <1>5, StillKeeps DEF Configuring

-----------------------------------------------------------------------------
(* Steps that only look *)

\* A sign-up goes on only if the address is nobody's.
LEMMA CheckEmailKeeps ==
    ASSUME SettingsInv, NEW r \in Requests, CheckEmail(r)
    PROVE  SettingsInv'
<1>1. pc[r] = "email"
  BY DEF CheckEmail
<1>2. CASE Refuse(r)
  BY <1>1, <1>2, RefuseKeeps DEF Resting, Configuring
<1>3. CASE ~Refuse(r)
  <2>1. /\ Goto(r, "tenant") /\ copy' = copy
        /\ UNCHANGED <<collections, locations, funnel, sent, taken, contested, retyped>>
        /\ UNCHANGED <<req, target, crossed, muddled, tangled>>
    BY <1>3 DEF CheckEmail, history, progress
  <2>2. ControlOK /\ InOrder /\ MilestonesHold /\ req[r].op = "signup"
    BY <1>1 DEF SettingsInv, TypeOK, InOrder, Fits
  <2>3. Moves(r, "tenant", copy[r])
    BY <1>1, <2>1, <2>2 DEF Moves, Carries, ControlOK, Labels, Resting, TenantRead, Fits
  <2>4. pc'[r] = "tenant"
    BY <2>2, <2>3, WhereTheyAre
  <2>5. \A t \in Tenants : ~Holds(r, t)'
    BY <2>4 DEF Holds
  <2>6. SignedUp(r, "tenant")'
    BY <1>1, <2>1, <2>2 DEF SignedUp, PassedBy, MilestonesHold
  <2>7. r \notin Existing
    BY <1>1, <2>2 DEF InOrder
  <2> QED BY <1>1, <2>1, <2>3, <2>5, <2>6, <2>7, StillKeeps DEF Configuring
<1> QED BY <1>2, <1>3

\* An invitation goes on only if the address is no member's.
LEMMA CheckMemberKeeps ==
    ASSUME SettingsInv, NEW r \in Requests, CheckMember(r)
    PROVE  SettingsInv'
<1>1. pc[r] = "member"
  BY DEF CheckMember
<1>2. CASE Refuse(r)
  BY <1>1, <1>2, RefuseKeeps DEF Resting, Configuring
<1>3. CASE ~Refuse(r)
  <2>1. /\ Goto(r, "list") /\ copy' = copy
        /\ UNCHANGED <<collections, locations, funnel, sent, taken, contested, retyped>>
        /\ UNCHANGED <<req, target, crossed, muddled, tangled>>
    BY <1>3 DEF CheckMember, history, progress
  <2>2. ControlOK /\ InOrder /\ req[r].op = "invite"
    BY <1>1 DEF SettingsInv, TypeOK, InOrder, Fits
  <2>3. Moves(r, "list", copy[r])
    BY <1>1, <2>1, <2>2 DEF Moves, Carries, ControlOK, Labels, Resting, TenantRead, Fits
  <2>4. pc'[r] = "list"
    BY <2>2, <2>3, WhereTheyAre
  <2>5. \A t \in Tenants : ~Holds(r, t)'
    BY <2>4 DEF Holds
  <2>6. r \notin sent
    BY <1>1, <2>2 DEF InOrder
  <2> QED BY <1>1, <2>1, <2>2, <2>3, <2>5, <2>6, StillKeeps DEF Configuring
<1> QED BY <1>2, <1>3

\* The list that is read is the one in the document.
LEMMA ReadListKeeps ==
    ASSUME SettingsInv, NEW r \in Requests, ReadList(r)
    PROVE  SettingsInv'
<1>1. /\ pc[r] = "list" /\ Goto(r, "push") /\ copy' = [copy EXCEPT ![r] = tenants[target[r]]]
      /\ UNCHANGED <<collections, locations, funnel, sent, taken, contested, retyped>>
      /\ UNCHANGED <<req, target, crossed, muddled, tangled>>
  BY DEF ReadList, ReadTenant, history, progress
<1>2. DataOK /\ ControlOK /\ InOrder /\ req[r].op = "invite"
  BY <1>1 DEF SettingsInv, TypeOK, InOrder, Fits
<1>3. target[r] \in Existing /\ tenants[target[r]] \in Tenant
  BY <1>1, <1>2 DEF InOrder, Own, DataOK, Existing
<1>4. Moves(r, "push", tenants[target[r]])
  BY <1>1, <1>2, <1>3 DEF Moves, Carries, Copies, Labels, Resting, TenantRead, Fits
<1>5. pc'[r] = "push" /\ target' = target /\ req' = req
  BY <1>2, <1>4, WhereTheyAre
<1>6. \A t \in Tenants : Holds(r, t)' => t = target[r]
  BY <1>5 DEF Holds
<1>7. r \notin sent
  BY <1>1, <1>2 DEF InOrder
<1> QED BY <1>1, <1>2, <1>3, <1>4, <1>6, <1>7, StillKeeps DEF Configuring

\* The invitation that is found is of the tenant in whose list it is.
LEMMA FindInviteKeeps ==
    ASSUME SettingsInv, NEW r \in Requests, FindInvite(r)
    PROVE  SettingsInv'
<1>1. pc[r] = "find"
  BY DEF FindInvite
<1>2. CASE Refuse(r)
  BY <1>1, <1>2, RefuseKeeps DEF Resting, Configuring
<1>3. ASSUME NEW t \in findInviteByToken(target[r]), ReadTenant(r, t, "invitee"),
             UNCHANGED <<progress, collections, req, target, history>>
      PROVE  SettingsInv'
  <2>1. /\ Goto(r, "invitee") /\ copy' = [copy EXCEPT ![r] = tenants[t]]
        /\ UNCHANGED <<collections, locations, funnel, sent, taken, contested, retyped>>
        /\ UNCHANGED <<req, target, crossed, muddled, tangled>>
    BY <1>3 DEF ReadTenant, history, progress
  <2>2. DataOK /\ ControlOK /\ InOrder /\ ListsHold /\ req[r].op = "accept"
    BY <1>1 DEF SettingsInv, TypeOK, InOrder, Fits
  <2>3. t \in Existing /\ tenants[t] \in Tenant /\ target[target[r]] = t
    BY <2>2 DEF findInviteByToken, ListsHold, DataOK, Existing
  <2>4. Moves(r, "invitee", tenants[t])
    BY <1>1, <2>1, <2>2, <2>3 DEF Moves, Carries, Copies, Labels, Resting, TenantRead, Fits
  <2>5. pc'[r] = "invitee" /\ target' = target /\ req' = req
    BY <2>2, <2>4, WhereTheyAre
  <2>6. \A u \in Tenants : Holds(r, u)' => u = t
    BY <2>3, <2>5 DEF Holds
  <2> QED BY <1>1, <2>1, <2>2, <2>3, <2>4, <2>6, StillKeeps DEF Configuring
<1> QED BY <1>2, <1>3 DEF FindInvite

\* Looking for a member with the address changes nothing that is held.
LEMMA CheckInviteeKeeps ==
    ASSUME SettingsInv, NEW r \in Requests, CheckInvitee(r)
    PROVE  SettingsInv'
<1>1. pc[r] = "invitee"
  BY DEF CheckInvitee
<1>2. CASE Refuse(r)
  BY <1>1, <1>2, RefuseKeeps DEF Resting, Configuring
<1>3. CASE ~Refuse(r)
  <2>1. /\ Goto(r, "join") /\ copy' = copy
        /\ UNCHANGED <<collections, locations, funnel, sent, taken, contested, retyped>>
        /\ UNCHANGED <<req, target, crossed, muddled, tangled>>
    BY <1>3 DEF CheckInvitee, history, progress
  <2>2. ControlOK /\ InOrder /\ req[r].op = "accept"
    BY <1>1 DEF SettingsInv, TypeOK, InOrder, Fits
  <2>3. Moves(r, "join", copy[r])
    BY <1>1, <2>1, <2>2 DEF Moves, Carries, ControlOK, Labels, Resting, TenantRead, Fits
  <2>4. pc'[r] = "join" /\ target' = target /\ req' = req
    BY <2>2, <2>3, WhereTheyAre
  <2>5. \A t \in Tenants : Holds(r, t)' => Holds(r, t)
    BY <1>1, <2>4 DEF Holds
  <2> QED BY <1>1, <2>1, <2>2, <2>3, <2>5, StillKeeps DEF Configuring
<1> QED BY <1>2, <1>3

\* What has been passed once stays passed: whoever finds it passed is done.
LEMMA LookForFirstKeeps ==
    ASSUME SettingsInv, NEW r \in Requests, LookForFirst(r)
    PROVE  SettingsInv'
<1>1. /\ pc[r] = "look" /\ copy' = copy
      /\ UNCHANGED <<collections, locations, funnel, sent, taken, contested, retyped>>
      /\ UNCHANGED <<req, target, crossed, muddled, tangled>>
  BY DEF LookForFirst, history, progress
<1>2. ControlOK /\ InOrder /\ req[r].op \in {"purchase", "device", "invite"}
  BY <1>1 DEF SettingsInv, TypeOK, InOrder, Fits
<1>3. /\ req[r].op = "invite" => MilestoneAt(r) = "staff"
      /\ req[r].op = "purchase" => MilestoneAt(r) = "scan"
  <2>1. req[r].op = "invite" => MilestoneAt(r) = "staff"
    BY <1>1, Zenon DEF MilestoneAt
  <2>2. req[r].op = "purchase" => MilestoneAt(r) = "scan"
    BY <1>1, Zenon DEF MilestoneAt
  <2> QED BY <2>1, <2>2
<1>4. PICK to \in {"passFirst", "done"} :
        Goto(r, to) /\ (to = "done" => funnel[Subject(r)].passed[MilestoneAt(r)] # Nothing)
  BY DEF LookForFirst
<1>5. Moves(r, to, copy[r])
  BY <1>1, <1>2, <1>4 DEF Moves, Carries, ControlOK, Labels, Resting, TenantRead, Fits
<1>6. pc'[r] = to
  BY <1>2, <1>5, WhereTheyAre
<1>7. \A t \in Tenants : ~Holds(r, t)'
  BY <1>6 DEF Holds
<1>8. to = "done" => Recorded(r)
  BY <1>2, <1>3, <1>4 DEF Recorded, Subject
<1> QED BY <1>1, <1>2, <1>5, <1>7, <1>8, StillKeeps DEF Configuring

-----------------------------------------------------------------------------
(* Steps that write and touch no part *)

\* What is spared by leaving its variables alone.
LEMMA Quiet ==
    ASSUME ControlOK, NEW r \in Requests, NEW to, NEW c, Moves(r, to, c), to \notin TenantRead
    PROVE  /\ UNCHANGED <<tenants, sent, taken, contested>> => SparesLists(r, to, c)
           /\ UNCHANGED <<tenants, rulesets, muddled>> /\ {pc[r], to} \intersect Configuring = {} =>
                 SparesProgramme(r, to, c)
           /\ UNCHANGED <<rewards, redemptions, retyped>> /\ to \notin {"redeem", "remove"} =>
                 SparesCatalogue(to)
           /\ /\ UNCHANGED <<funnel, tangled, locations, users>> /\ "times" \notin {pc[r], to}
              /\ to = "done" => Recorded(r)
              /\ req[r].op # "signup"
              => SparesMilestones(r, to)
           /\ UNCHANGED <<tenants, asking, crossed>> /\ pc[r] # "save" => SparesMap(r, to)
<1>1. UNCHANGED tenants => Existing' = Existing
  BY DEF Existing
<1>2. pc'[r] = to
  BY WhereTheyAre
<1>3. \A t \in Tenants : ~Holds(r, t)'
  BY <1>2 DEF Holds, TenantRead
<1>4. UNCHANGED <<tenants, sent, taken, contested>> => SparesLists(r, to, c)
  BY <1>1, <1>3 DEF SparesLists
<1>5. UNCHANGED <<tenants, rulesets, muddled>> /\ {pc[r], to} \intersect Configuring = {} =>
         SparesProgramme(r, to, c)
  BY DEF SparesProgramme, TenantRead
<1>6. UNCHANGED <<tenants, asking, crossed>> /\ pc[r] # "save" => SparesMap(r, to)
  BY <1>1 DEF SparesMap, SameMap, TenantRead
<1> QED BY <1>4, <1>5, <1>6 DEF SparesCatalogue, SparesMilestones

\* Writing one tenant adds it at most.
LEMMA OneTenant ==
    ASSUME DataOK, NEW t \in Tenants, NEW v \in Tenant, tenants' = [tenants EXCEPT ![t] = v]
    PROVE  /\ tenants' \in [Tenants -> Tenant \cup {Nothing}] /\ Existing' = Existing \cup {t}
           /\ tenants'[t] = v /\ \A u \in Tenants \ {t} : tenants'[u] = tenants[u]
<1>1. v # Nothing
  BY SettingsNamesAssumption
<1> QED BY <1>1 DEF DataOK, Existing

\* A sign-up's location is there before its administrator.
LEMMA CreateLocationKeeps ==
    ASSUME SettingsInv, NEW r \in Requests, CreateLocation(r)
    PROVE  SettingsInv'
<1>1. /\ pc[r] = "location" /\ Goto(r, "admin") /\ copy' = copy /\ locations' = locations \cup {r}
      /\ UNCHANGED <<tenants, users, rulesets, rewards, redemptions, asking, funnel, tangled>>
      /\ UNCHANGED <<req, target, crossed, sent, taken, contested, muddled, retyped>>
  BY DEF CreateLocation, history, collections
<1>2. DataOK /\ ControlOK /\ InOrder /\ MilestonesHold /\ req[r].op = "signup"
  BY <1>1 DEF SettingsInv, TypeOK, InOrder, Fits
<1>3. Moves(r, "admin", copy[r])
  BY <1>1, <1>2 DEF Moves, Carries, ControlOK, Labels, Resting, TenantRead, Fits
<1>4. DataOK' /\ Orders(r, "admin")
  BY <1>1, <1>2 DEF DataOK, Existing, Orders, InOrder
<1>5. SignedUp(r, "location") => SignedUp(r, "admin")'
  BY <1>1 DEF SignedUp, PassedBy
<1>6. SparesMilestones(r, "admin")
  BY <1>1, <1>2, <1>5 DEF SparesMilestones, MilestonesHold
<1> QED BY <1>1, <1>2, <1>3, <1>4, <1>6, StepKeeps, Quiet DEF TenantRead, Configuring

\* The administrator is there before the first milestone.
LEMMA CreateAdminKeeps ==
    ASSUME SettingsInv, NEW r \in Requests, CreateAdmin(r)
    PROVE  SettingsInv'
<1>1. /\ pc[r] = "admin" /\ Goto(r, "passSignup") /\ copy' = copy
      /\ users' = users \cup {<<r, req[r].value>>}
      /\ UNCHANGED <<tenants, rulesets, rewards, redemptions, asking, funnel, tangled, locations>>
      /\ UNCHANGED <<req, target, crossed, sent, taken, contested, muddled, retyped>>
  BY DEF CreateAdmin, history, progress
<1>2. DataOK /\ ControlOK /\ InOrder /\ MilestonesHold /\ req[r].op = "signup"
  BY <1>1 DEF SettingsInv, TypeOK, InOrder, Fits
<1>3. Moves(r, "passSignup", copy[r])
  BY <1>1, <1>2 DEF Moves, Carries, ControlOK, Labels, Resting, TenantRead, Fits
<1>4. DataOK' /\ Orders(r, "passSignup")
  BY <1>1, <1>2 DEF DataOK, Existing, Orders, InOrder
<1>5. SignedUp(r, "admin") => SignedUp(r, "passSignup")'
  BY <1>1 DEF SignedUp, PassedBy
<1>6. SparesMilestones(r, "passSignup")
  BY <1>1, <1>2, <1>5 DEF SparesMilestones, MilestonesHold
<1> QED BY <1>1, <1>2, <1>3, <1>4, <1>6, StepKeeps, Quiet DEF TenantRead, Configuring

\* Who joins was invited; the list that was read is still held.
LEMMA JoinKeeps ==
    ASSUME SettingsInv, NEW r \in Requests, Join(r)
    PROVE  SettingsInv'
<1>1. pc[r] = "join"
  BY DEF Join
<1>2. CASE Refuse(r)
  BY <1>1, <1>2, RefuseKeeps DEF Resting, Configuring
<1>3. CASE ~Refuse(r)
  <2>1. /\ Goto(r, "drop") /\ copy' = copy /\ users \subseteq users'
        /\ UNCHANGED <<tenants, rulesets, rewards, redemptions, asking, funnel, tangled, locations>>
        /\ UNCHANGED <<req, target, crossed, sent, taken, contested, muddled, retyped>>
    BY <1>3 DEF Join, history, progress
  <2>2. DataOK /\ ControlOK /\ InOrder /\ MilestonesHold /\ req[r].op = "accept"
    BY <1>1 DEF SettingsInv, TypeOK, InOrder, Fits
  <2>3. Moves(r, "drop", copy[r])
    BY <1>1, <2>1, <2>2 DEF Moves, Carries, ControlOK, Labels, Resting, TenantRead, Fits
  <2>4. DataOK' /\ Existing' = Existing /\ Orders(r, "drop")
    BY <2>1, <2>2 DEF DataOK, Existing, Orders, InOrder
  <2>5. pc'[r] = "drop" /\ target' = target /\ req' = req
    BY <2>2, <2>3, WhereTheyAre
  <2>6. \A t \in Tenants : Holds(r, t)' => Holds(r, t)
    BY <1>1, <2>5 DEF Holds
  <2>7. SparesLists(r, "drop", copy[r])
    BY <2>1, <2>4, <2>6 DEF SparesLists
  <2>8. SparesProgramme(r, "drop", copy[r]) /\ SparesCatalogue("drop")
    BY <1>1, <2>1 DEF SparesProgramme, SparesCatalogue, Configuring
  <2>9. SparesMilestones(r, "drop") /\ SparesMap(r, "drop")
    BY <1>1, <2>1, <2>2, <2>4 DEF SparesMilestones, SparesMap, SameMap
  <2> QED BY <2>3, <2>4, <2>7, <2>8, <2>9, StepKeeps
<1> QED BY <1>2, <1>3

\* Completing the onboarding marks the document and touches no part.
LEMMA CompleteKeeps ==
    ASSUME SettingsInv, NEW r \in Requests, completeMerchantOnboarding(r)
    PROVE  SettingsInv'
<1>1. /\ pc[r] = "write" /\ req[r].op = "complete" /\ Goto(r, "passFirst") /\ copy' = copy
      /\ tenants' = [tenants EXCEPT ![target[r]].onboarded = TRUE]
      /\ UNCHANGED <<users, rulesets, rewards, redemptions, asking, funnel, tangled, locations>>
      /\ UNCHANGED <<req, target, crossed, sent, taken, contested, muddled, retyped>>
  BY DEF completeMerchantOnboarding, history, progress
<1>2. DataOK /\ ControlOK /\ InOrder
  BY DEF SettingsInv, TypeOK
<1>3. target[r] \in Existing /\ tenants[target[r]] \in Tenant /\ target[r] \in Tenants
  BY <1>1, <1>2 DEF InOrder, Own, DataOK, Existing
<1> DEFINE v == [tenants[target[r]] EXCEPT !.onboarded = TRUE]
<1>4. v \in Tenant /\ v.config = tenants[target[r]].config /\ v.place = tenants[target[r]].place
  BY <1>3 DEF Tenant
<1>5. tenants' = [tenants EXCEPT ![target[r]] = v]
  BY <1>1, <1>2, <1>3 DEF DataOK
<1> HIDE DEF v
<1>6. /\ tenants' \in [Tenants -> Tenant \cup {Nothing}] /\ Existing' = Existing
      /\ \A t \in Existing : /\ tenants'[t].config = tenants[t].config
                             /\ tenants'[t].place = tenants[t].place
  <2>1. Existing \subseteq Tenants
    BY DEF Existing
  <2>2. /\ tenants' \in [Tenants -> Tenant \cup {Nothing}] /\ Existing' = Existing \cup {target[r]}
        /\ tenants'[target[r]] = v
        /\ \A u \in Tenants \ {target[r]} : tenants'[u] = tenants[u]
    BY <1>2, <1>3, <1>4, <1>5, OneTenant
  <2> QED BY <1>3, <1>4, <2>1, <2>2
<1>7. Moves(r, "passFirst", copy[r])
  BY <1>1, <1>2 DEF Moves, Carries, ControlOK, Labels, Resting, TenantRead, Fits
<1>8. DataOK' /\ Orders(r, "passFirst")
  BY <1>1, <1>2, <1>6 DEF DataOK, Orders, InOrder
<1>9. pc'[r] = "passFirst"
  BY <1>2, <1>7, WhereTheyAre
<1>10. SparesLists(r, "passFirst", copy[r])
  BY <1>1, <1>6, <1>9 DEF SparesLists, Holds
<1>11. SparesProgramme(r, "passFirst", copy[r])
  BY <1>1, <1>2, <1>6 DEF SparesProgramme, Configuring, DataOK
<1>12. SparesMap(r, "passFirst")
  BY <1>1, <1>6 DEF SparesMap, SameMap
<1> QED BY <1>1, <1>7, <1>8, <1>10, <1>11, <1>12, StepKeeps, Quiet, <1>2 DEF TenantRead

-----------------------------------------------------------------------------
(* The place on the map *)

\* A change of one merchant's address leaves the others' places sound.
LEMMA MapElsewhere ==
    ASSUME DataOK, ControlOK, InOrder, MapHolds, NEW r \in Requests, NEW to, NEW c, NEW t0 \in Tenants,
           Moves(r, to, c), crossed \subseteq crossed',
           \A t \in Existing' \ {t0} : t \in Existing /\ tenants'[t] = tenants[t],
           \A g : g.tenant # t0 => (g \in asking' <=> g \in asking),
           pc[r] = "save" \/ to = "save" => target[r] = t0,
           to = "save" => pc[r] = "read"
    PROVE  \A t \in Existing' \ (crossed' \cup {t0}) : MapAt(t)'
<1>1. /\ pc'[r] = to /\ \A s \in Requests \ {r} : pc'[s] = pc[s]
      /\ copy'[r] = c /\ \A s \in Requests \ {r} : copy'[s] = copy[s]
      /\ req' = req /\ target' = target
  BY WhereTheyAre
<1>2. SUFFICES ASSUME NEW t \in Existing' \ (crossed' \cup {t0}) PROVE MapAt(t)'
  OBVIOUS
<1>3. t \in Existing /\ tenants'[t] = tenants[t] /\ MapAt(t)
  BY DEF MapHolds
<1>4. \A s \in Requests : pc'[s] = "save" /\ target[s] = t =>
         s # r /\ pc[s] = "save" /\ copy'[s] = copy[s]
  BY <1>1
<1>5. \A g \in asking : g.tenant = t => g.by \in Requests /\ (pc'[g.by] = "save" <=> pc[g.by] = "save")
  <2>1. \A g \in asking : g.by \in Requests /\ pc[g.by] # "read"
    BY DEF DataOK, InOrder
  <2>2. \A g \in asking : g.tenant = t /\ pc[g.by] = "save" => target[g.by] = t
    BY <1>3 DEF MapAt
  <2>3. t # t0
    OBVIOUS
  <2> QED BY <1>1, <2>1, <2>2, <2>3
<1>6. \A g : g.tenant = t => (g \in asking' <=> g \in asking)
  OBVIOUS
<1>7. \A q : ChangesAddress(q)' = ChangesAddress(q)
  BY <1>1 DEF ChangesAddress
<1>8. MapSound(tenants[t])'
  BY <1>3 DEF MapAt, MapSound
<1>9. \A s \in Requests : pc'[s] = "save" /\ target[s] = t =>
         /\ SameMap(copy'[s], tenants'[t])
         /\ \A q \in Requests : pc'[q] = "save" /\ target[q] = t => q = s
         /\ \A g \in asking' : g.tenant = t => g.by = s
  BY <1>3, <1>4, <1>6 DEF MapAt, SameMap
<1>10. \A g \in asking' : g.tenant = t =>
          IF pc'[g.by] = "save"
          THEN target[g.by] = t /\ ChangesAddress(g.by) /\ req[g.by].value = g.address
          ELSE tenants'[t].config.address = g.address
  BY <1>3, <1>5, <1>6 DEF MapAt
<1> QED BY <1>1, <1>7, <1>8, <1>9, <1>10 DEF MapAt

\* Whoever reads while another is saving, or being looked up, crosses it.
LEMMA ReadSettingsKeeps ==
    ASSUME SettingsInv, NEW r \in Requests, ReadSettings(r)
    PROVE  SettingsInv'
<1> DEFINE t == target[r]
           asks == ChangesAddress(r) /\ NeedsGeocoding(tenants[t], req[r].value)
           busy == Holding(r, t, {"save"}) # {} \/ \E g \in asking : g.tenant = t
<1>1. /\ pc[r] = "read" /\ Goto(r, "save") /\ copy' = [copy EXCEPT ![r] = tenants[t]]
      /\ asking' = IF asks THEN asking \cup {Ask(r, t, req[r].value)} ELSE asking
      /\ crossed' = IF busy THEN crossed \cup {t} ELSE crossed
      /\ UNCHANGED <<tenants, users, rulesets, rewards, redemptions, funnel, tangled, locations>>
      /\ UNCHANGED <<req, target, sent, taken, contested, muddled, retyped>>
  BY DEF ReadSettings, ReadTenant, progress
<1>2. DataOK /\ ControlOK /\ InOrder /\ ListsHold /\ ProgrammeHolds /\ CatalogueHolds
      /\ MilestonesHold /\ MapHolds /\ req[r].op \in {"settings", "merge"}
  BY <1>1 DEF SettingsInv, TypeOK, InOrder, Fits
<1>3. t \in Existing /\ tenants[t] \in Tenant /\ t \in Tenants /\ Existing' = Existing
  BY <1>1, <1>2 DEF InOrder, Own, DataOK, Existing
<1>4. Moves(r, "save", tenants[t])
  BY <1>1, <1>2, <1>3 DEF Moves, Carries, Copies, Labels, Resting, TenantRead, Fits
<1>5. asks => /\ Ask(r, t, req[r].value) \in [by: Requests, tenant: Tenants, address: Addresses]
              /\ Ask(r, t, req[r].value).by = r /\ Ask(r, t, req[r].value).tenant = t
              /\ Ask(r, t, req[r].value).address = req[r].value
  BY <1>3 DEF Ask, ChangesAddress, NeedsGeocoding
<1>6. /\ pc'[r] = "save" /\ \A s \in Requests \ {r} : pc'[s] = pc[s]
      /\ copy'[r] = tenants[t] /\ \A s \in Requests \ {r} : copy'[s] = copy[s]
  BY <1>2, <1>4, WhereTheyAre
<1>7. DataOK' /\ Orders(r, "save")
  <2> HIDE DEF asks
  <2>1. asking' \subseteq [by: Requests, tenant: Tenants, address: Addresses]
    BY <1>1, <1>2, <1>5 DEF DataOK
  <2>2. \A g \in asking' \ asking : g.tenant = t /\ g.by = r
    BY <1>1, <1>5
  <2>3. r \notin sent
    BY <1>1, <1>2 DEF InOrder
  <2> QED BY <1>1, <1>2, <1>3, <2>1, <2>2, <2>3 DEF DataOK, Orders, InOrder
<1>8. SparesLists(r, "save", tenants[t])
  <2>1. \A u \in Tenants : Holds(r, u)' => u = t
    BY <1>1, <1>6 DEF Holds
  <2> QED BY <1>1, <1>3, <2>1 DEF SparesLists
<1>9. SparesProgramme(r, "save", tenants[t]) /\ SparesCatalogue("save")
  BY <1>1 DEF SparesProgramme, SparesCatalogue, Configuring
<1>10. SparesMilestones(r, "save")
  BY <1>1, <1>2 DEF SparesMilestones
<1>11. MapHolds'
  <2>1. crossed \subseteq crossed' /\ \A g : g.tenant # t => (g \in asking' <=> g \in asking)
    <3> HIDE DEF asks
    <3> QED BY <1>1, <1>5
  <2>2. \A u \in Existing' \ (crossed' \cup {t}) : MapAt(u)'
    BY <1>1, <1>2, <1>3, <1>4, <2>1, MapElsewhere
  <2>3. ASSUME t \notin crossed' PROVE MapAt(t)'
    <3>1. /\ ~busy /\ t \notin crossed /\ MapAt(t)
      BY <1>1, <1>2, <1>3, <2>3 DEF MapHolds
    <3>2. /\ \A s \in Requests : pc'[s] = "save" /\ target[s] = t => s = r
          /\ \A g \in asking : g.tenant # t
      BY <1>6, <3>1 DEF Holding
    <3>3. \A g \in asking' : g.tenant = t =>
             g.by = r /\ ChangesAddress(r) /\ req[r].value = g.address
      <4> HIDE DEF asks
      <4>1. \A g \in asking' : g.tenant = t => asks /\ g = Ask(r, t, req[r].value)
        BY <1>1, <3>2
      <4> USE DEF asks
      <4> QED BY <1>5, <4>1
    <3>4. SameMap(tenants[t], tenants[t]) /\ MapSound(tenants[t])
      BY <3>1 DEF SameMap, MapAt
    <3>5. \A q : ChangesAddress(q)' = ChangesAddress(q)
      BY <1>1 DEF ChangesAddress
    <3> QED BY <1>1, <1>6, <3>2, <3>3, <3>4, <3>5 DEF MapAt
  <2> QED BY <1>1, <2>2, <2>3 DEF MapHolds
<1> QED BY <1>2, <1>4, <1>7, <1>8, <1>9, <1>10, <1>11, WhereTheyAre, OrderKept, ListsKept, ProgrammeKept,
           CatalogueKept, MilestonesKept DEF SettingsInv, TypeOK

\* What is written of an address that was read as it is: a place that was sound
\* stays so, until the new address has been looked up.
LEMMA AddressIsSound ==
    ASSUME NEW tenant \in Tenant, NEW read \in Tenant, NEW address \in Addresses \cup {Nothing}
    PROVE  /\ WithAddress(tenant, read, address) \in Tenant
           /\ WithAddress(tenant, read, address).config.address = address
           /\ WithAddress(tenant, read, address).config.invites = tenant.config.invites
           /\ WithAddress(tenant, read, address).config.loyalty = tenant.config.loyalty
           /\ MapSound(tenant) /\ SameMap(read, tenant) =>
                 MapSound(WithAddress(tenant, read, address))
<1> DEFINE status == IF NeedsGeocoding(read, address) THEN "pending"
                     ELSE IF address = Nothing THEN "none" ELSE tenant.config.status
           formatted == IF address = Nothing THEN Nothing ELSE tenant.config.formatted
           place == IF address = Nothing THEN Nothing ELSE tenant.place
           v == WithAddress(tenant, read, address)
<1>1. tenant.config \in Config /\ tenant.place \in Addresses \cup {Nothing}
  BY DEF Tenant
<1>2. status \in Statuses /\ formatted \in Addresses \cup {Nothing} /\ place \in Addresses \cup {Nothing}
  BY <1>1 DEF Config, Statuses
<1>3. v = [tenant EXCEPT !.config.address = address, !.config.status = status,
                         !.config.formatted = formatted, !.place = place]
  BY DEF WithAddress
<1> HIDE DEF status, formatted, place, v
<1>4. v \in Tenant
  BY <1>1, <1>2, <1>3 DEF Tenant, Config
<1>5. /\ v.config.address = address /\ v.config.status = status /\ v.config.formatted = formatted
      /\ v.config.flat = tenant.config.flat /\ v.place = place
      /\ v.config.invites = tenant.config.invites /\ v.config.loyalty = tenant.config.loyalty
  BY <1>1, <1>3 DEF Tenant, Config
<1>6. ASSUME MapSound(tenant), SameMap(read, tenant) PROVE MapSound(v)
  BY <1>5, <1>6 DEF MapSound, SameMap, NeedsGeocoding, status, formatted, place
<1> QED BY <1>4, <1>5, <1>6 DEF v

\* The address is stored by the only request that was changing it, or the merchant
\* is said to be crossed.
LEMMA SaveSettingsKeeps ==
    ASSUME SettingsInv, NEW r \in Requests, SaveSettings(r)
    PROVE  SettingsInv'
<1> DEFINE t == target[r]
           v == IF ChangesAddress(r) THEN WithAddress(tenants[t], copy[r], req[r].value)
                ELSE [tenants[t] EXCEPT !.config.phone = req[r].value]
<1>1. /\ pc[r] = "save" /\ req[r].op = "settings" /\ Finish(r, "done")
      /\ tenants' = [tenants EXCEPT ![t] = v]
      /\ UNCHANGED <<users, rulesets, rewards, redemptions, asking, funnel, tangled, locations>>
      /\ UNCHANGED <<req, target, crossed, sent, taken, contested, muddled, retyped>>
  BY DEF SaveSettings, progress, history
<1>2. DataOK /\ ControlOK /\ InOrder /\ ListsHold /\ ProgrammeHolds /\ CatalogueHolds
      /\ MilestonesHold /\ MapHolds
  BY DEF SettingsInv, TypeOK
<1>3. t \in Existing /\ tenants[t] \in Tenant /\ t \in Tenants /\ copy[r] \in Tenant
  BY <1>1, <1>2 DEF InOrder, Own, DataOK, ControlOK, Existing, TenantRead
<1>4. req[r].value \in Addresses \cup Phones \cup {Nothing}
  BY <1>1, <1>2, SettingsIntentsAssumption DEF Valid, ControlOK
<1>5. /\ v \in Tenant /\ v.config.invites = tenants[t].config.invites
      /\ v.config.loyalty = tenants[t].config.loyalty
  <2>1. CASE ChangesAddress(r)
    <3>1. req[r].value \in Addresses \cup {Nothing}
      BY <2>1 DEF ChangesAddress
    <3> QED BY <1>3, <2>1, <3>1, AddressIsSound
  <2>2. CASE ~ChangesAddress(r)
    <3>1. req[r].value \in Phones
      BY <1>1, <1>4, <2>2 DEF ChangesAddress
    <3> QED BY <1>3, <2>2, <3>1 DEF Tenant, Config
  <2> QED BY <2>1, <2>2
<1>6. ~ChangesAddress(r) => SameMap(v, tenants[t])
  BY <1>3 DEF SameMap, Tenant, Config
<1>7. ChangesAddress(r) =>
         /\ v.config.address = req[r].value
         /\ MapSound(tenants[t]) /\ SameMap(copy[r], tenants[t]) => MapSound(v)
  BY <1>3, AddressIsSound DEF ChangesAddress
<1> HIDE DEF v
<1>8. /\ tenants' \in [Tenants -> Tenant \cup {Nothing}] /\ Existing' = Existing
      /\ tenants'[t] = v /\ \A u \in Tenants \ {t} : tenants'[u] = tenants[u]
  <2>1. /\ tenants' \in [Tenants -> Tenant \cup {Nothing}] /\ Existing' = Existing \cup {t}
        /\ tenants'[t] = v /\ \A u \in Tenants \ {t} : tenants'[u] = tenants[u]
    BY <1>1, <1>2, <1>3, <1>5, OneTenant
  <2> QED BY <1>3, <2>1
<1>9. Existing \subseteq Tenants
  BY DEF Existing
<1>10. Moves(r, "done", Nothing)
  BY <1>1 DEF Finish, Moves, Carries, Copies, Labels, Resting, TenantRead, Fits
<1>11. /\ pc'[r] = "done" /\ \A s \in Requests \ {r} : pc'[s] = pc[s]
       /\ copy'[r] = Nothing /\ \A s \in Requests \ {r} : copy'[s] = copy[s]
  BY <1>2, <1>10, WhereTheyAre
<1>12. DataOK' /\ Orders(r, "done")
  BY <1>1, <1>2, <1>8 DEF DataOK, Orders, InOrder
<1>13. SparesLists(r, "done", Nothing)
  BY <1>1, <1>5, <1>8, <1>9, <1>11 DEF SparesLists, Holds
<1>14. SparesProgramme(r, "done", Nothing)
  BY <1>1, <1>2, <1>5, <1>8, <1>9 DEF SparesProgramme, Configuring, DataOK
<1>15. SparesCatalogue("done") /\ SparesMilestones(r, "done")
  BY <1>1 DEF SparesCatalogue, SparesMilestones, Recorded
<1>16. MapHolds'
  <2>1. \A u \in Existing' \ (crossed' \cup {t}) : MapAt(u)'
    BY <1>1, <1>2, <1>3, <1>8, <1>9, <1>10, MapElsewhere
  <2>2. ASSUME t \notin crossed' PROVE MapAt(t)'
    <3>1. MapAt(t) /\ SameMap(copy[r], tenants[t])
      BY <1>1, <1>2, <1>3, <2>2 DEF MapHolds, MapAt
    <3>2. MapSound(v)
      BY <1>6, <1>7, <3>1 DEF MapAt, MapSound, SameMap
    <3>3. \A s \in Requests : pc'[s] = "save" => target[s] # t
      BY <1>1, <1>11, <3>1 DEF MapAt
    <3>4. \A g \in asking : g.tenant = t => pc'[g.by] = "done" /\ v.config.address = g.address
      BY <1>1, <1>7, <1>11, <3>1 DEF MapAt
    <3> QED BY <1>1, <1>8, <3>2, <3>3, <3>4 DEF MapAt
  <2> QED BY <1>1, <2>1, <2>2 DEF MapHolds
<1> QED BY <1>2, <1>10, <1>12, <1>13, <1>14, <1>15, <1>16, WhereTheyAre, OrderKept, ListsKept,
           ProgrammeKept, CatalogueKept, MilestonesKept DEF SettingsInv, TypeOK

\* The config that is written back has the list, the programme and the place that
\* the document still has, or somebody is said to have got in between.
LEMMA SaveConfigKeeps ==
    ASSUME SettingsInv, NEW r \in Requests, SaveConfig(r)
    PROVE  SettingsInv'
<1> DEFINE t == target[r]
           v == [tenants[t] EXCEPT !.config = Merged(copy[r].config, req[r].value)]
<1>1. /\ pc[r] = "save" /\ req[r].op = "merge" /\ Finish(r, "done")
      /\ tenants' = [tenants EXCEPT ![t] = v]
      /\ UNCHANGED <<users, rulesets, rewards, redemptions, asking, funnel, tangled, locations>>
      /\ UNCHANGED <<req, target, sent, taken, contested, retyped>>
      /\ crossed' = IF req[r].value \in Addresses THEN crossed \cup {t} ELSE crossed
      /\ muddled' = IF req[r].value \in Types THEN muddled \cup {t} ELSE muddled
  BY DEF SaveConfig, progress
<1>2. DataOK /\ ControlOK /\ InOrder /\ ListsHold /\ ProgrammeHolds /\ CatalogueHolds
      /\ MilestonesHold /\ MapHolds
  BY DEF SettingsInv, TypeOK
<1>3. t \in Existing /\ tenants[t] \in Tenant /\ t \in Tenants /\ copy[r] \in Tenant
  BY <1>1, <1>2 DEF InOrder, Own, DataOK, ControlOK, Existing, TenantRead
<1>4. req[r].value \in Addresses \cup Types \cup Phones
  BY <1>1, <1>2, SettingsIntentsAssumption DEF Valid, ControlOK
<1>5. /\ v \in Tenant /\ v.place = tenants[t].place
      /\ v.config.invites = copy[r].config.invites
      /\ req[r].value \notin Types => v.config.loyalty = copy[r].config.loyalty
      /\ req[r].value \notin Addresses => v.config.address = copy[r].config.address
      /\ v.config.status = copy[r].config.status
      /\ v.config.formatted = copy[r].config.formatted /\ v.config.flat = copy[r].config.flat
  <2>1. PICK c : c = Merged(copy[r].config, req[r].value)
    OBVIOUS
  <2>2. copy[r].config \in Config
    BY <1>3 DEF Tenant
  <2>3. /\ c \in Config /\ c.invites = copy[r].config.invites
        /\ req[r].value \notin Types => c.loyalty = copy[r].config.loyalty
        /\ req[r].value \notin Addresses => c.address = copy[r].config.address
        /\ c.status = copy[r].config.status
        /\ c.formatted = copy[r].config.formatted /\ c.flat = copy[r].config.flat
    BY <1>4, <2>1, <2>2 DEF Merged, Config
  <2>4. v = [tenants[t] EXCEPT !.config = c]
    BY <2>1
  <2>5. v \in Tenant /\ v.place = tenants[t].place /\ v.config = c
    BY <1>3, <2>3, <2>4 DEF Tenant
  <2> QED BY <2>3, <2>5
<1> HIDE DEF v
<1>6. /\ tenants' \in [Tenants -> Tenant \cup {Nothing}] /\ Existing' = Existing
      /\ tenants'[t] = v /\ \A u \in Tenants \ {t} : tenants'[u] = tenants[u]
  <2>1. /\ tenants' \in [Tenants -> Tenant \cup {Nothing}] /\ Existing' = Existing \cup {t}
        /\ tenants'[t] = v /\ \A u \in Tenants \ {t} : tenants'[u] = tenants[u]
    BY <1>1, <1>2, <1>3, <1>5, OneTenant
  <2> QED BY <1>3, <2>1
<1>7. Existing \subseteq Tenants
  BY DEF Existing
<1>8. Moves(r, "done", Nothing)
  BY <1>1 DEF Finish, Moves, Carries, Copies, Labels, Resting, TenantRead, Fits
<1>9. /\ pc'[r] = "done" /\ \A s \in Requests \ {r} : pc'[s] = pc[s]
      /\ copy'[r] = Nothing /\ \A s \in Requests \ {r} : copy'[s] = copy[s]
  BY <1>2, <1>8, WhereTheyAre
<1>10. DataOK' /\ Orders(r, "done")
  BY <1>1, <1>2, <1>6 DEF DataOK, Orders, InOrder
<1>11. SparesCatalogue("done") /\ SparesMilestones(r, "done")
  BY <1>1 DEF SparesCatalogue, SparesMilestones, Recorded
<1>12. ListsHold'
  <2>1. Holds(r, t)
    BY <1>1 DEF Holds
  <2>2. \A s \in Requests, u \in Tenants : Holds(s, u)' => Holds(s, u) /\ copy'[s] = copy[s]
    BY <1>1, <1>9 DEF Holds
  <2>3. \A k, list : Listed(k, list)' <=> Listed(k, list)
    BY <1>1 DEF Listed
  <2>4. \A u \in Existing : \A k \in tenants'[u].config.invites : k \in sent /\ target[k] = u
    BY <1>2, <1>3, <1>5, <1>6, <1>7, <2>1 DEF ListsHold
  <2>5. \A k \in sent \ contested, u \in Tenants : target[k] = u =>
           /\ Listed(k, tenants'[u].config.invites)
           /\ \A s \in Requests : Holds(s, u)' => Listed(k, copy'[s].config.invites)
    BY <1>2, <1>3, <1>5, <1>6, <2>1, <2>2 DEF ListsHold
  <2>6. \A k \in sent : target[k] \in Tenants
    BY <1>2, <1>7 DEF InOrder, Own, DataOK
  <2> QED BY <1>1, <1>2, <1>6, <2>2, <2>3, <2>4, <2>5, <2>6 DEF ListsHold
<1>13. ProgrammeHolds'
  <2>1. SUFFICES ASSUME Shop \notin muddled' PROVE ProgrammeHolds'
    BY DEF ProgrammeHolds
  <2>2. tenants'[Shop].config.loyalty = tenants[Shop].config.loyalty
    BY <1>1, <1>2, <1>3, <1>5, <1>6, <1>7, <2>1 DEF ProgrammeHolds, DataOK
  <2>3. SparesProgramme(r, "done", Nothing)
    BY <1>1, <2>2 DEF SparesProgramme, Configuring
  <2> QED BY <1>2, <1>8, <2>3, ProgrammeKept
<1>14. MapHolds'
  <2>1. \A u \in Existing' \ (crossed' \cup {t}) : MapAt(u)'
    BY <1>1, <1>2, <1>3, <1>6, <1>7, <1>8, MapElsewhere
  <2>2. ASSUME t \notin crossed' PROVE MapAt(t)'
    <3>1. MapAt(t) /\ SameMap(copy[r], tenants[t])
      BY <1>1, <1>2, <1>3, <2>2 DEF MapHolds, MapAt
    <3>2. MapSound(v)
      BY <1>1, <1>5, <2>2, <3>1 DEF MapAt, MapSound, SameMap
    <3>3. \A s \in Requests : pc'[s] = "save" => target[s] # t
      BY <1>1, <1>9, <3>1 DEF MapAt
    <3>4. \A g \in asking : g.tenant # t
      BY <1>1, <3>1 DEF MapAt, ChangesAddress
    <3> QED BY <1>1, <1>6, <3>2, <3>3, <3>4 DEF MapAt
  <2> QED BY <1>1, <2>1, <2>2 DEF MapHolds
<1> QED BY <1>2, <1>8, <1>10, <1>11, <1>12, <1>13, <1>14, WhereTheyAre, OrderKept, CatalogueKept,
           MilestonesKept DEF SettingsInv, TypeOK

\* A new tenant is nobody's yet but the request's that signs it up.
LEMMA CreateTenantKeeps ==
    ASSUME SettingsInv, NEW r \in Requests, CreateTenant(r)
    PROVE  SettingsInv'
<1>1. PICK address \in {Home, Nothing} :
        /\ tenants' = [tenants EXCEPT ![r] = NewTenant(address)]
        /\ asking' = IF address = Nothing THEN asking ELSE asking \cup {Ask(r, r, address)}
  BY DEF CreateTenant
<1>2. /\ pc[r] = "tenant" /\ Goto(r, "location") /\ copy' = copy
      /\ UNCHANGED <<users, rulesets, rewards, redemptions, funnel, tangled, locations>>
      /\ UNCHANGED <<req, target, crossed, sent, taken, contested, muddled, retyped>>
  BY DEF CreateTenant, progress, history
<1>3. DataOK /\ ControlOK /\ InOrder /\ ListsHold /\ ProgrammeHolds /\ CatalogueHolds
      /\ MilestonesHold /\ MapHolds /\ req[r].op = "signup"
  BY <1>2 DEF SettingsInv, TypeOK, InOrder, Fits
<1>4. r \notin Existing /\ r # Shop /\ r \in Tenants
  BY <1>2, <1>3, SettingsNamesAssumption DEF InOrder, Tenants
<1> DEFINE v == NewTenant(address)
<1>5. /\ v \in Tenant /\ MapSound(v) /\ v.config.invites = {} /\ v.config.address = address
  BY SettingsNamesAssumption DEF NewTenant, Tenant, Config, Statuses, Types, MapSound
<1> HIDE DEF v
<1>6. /\ tenants' \in [Tenants -> Tenant \cup {Nothing}] /\ Existing' = Existing \cup {r}
      /\ tenants'[r] = v /\ \A u \in Tenants \ {r} : tenants'[u] = tenants[u]
  BY <1>1, <1>3, <1>4, <1>5, OneTenant DEF v
<1>7. Existing \subseteq Tenants
  BY DEF Existing
<1>8. Moves(r, "location", copy[r])
  BY <1>2, <1>3 DEF Moves, Carries, ControlOK, Labels, Resting, TenantRead, Fits
<1>9. /\ pc'[r] = "location" /\ \A s \in Requests \ {r} : pc'[s] = pc[s]
      /\ \A s \in Requests : copy'[s] = copy[s]
  BY <1>2, <1>3, <1>8, WhereTheyAre
<1>10. \A g \in asking' \ asking :
          /\ g \in [by: Requests, tenant: Tenants, address: Addresses]
          /\ g.by = r /\ g.tenant = r /\ g.address = address
  BY <1>1, <1>4, SettingsNamesAssumption DEF Ask
<1>11. asking \subseteq asking'
  BY <1>1
<1>12. DataOK' /\ Orders(r, "location")
  <2>1. asking' \subseteq [by: Requests, tenant: Tenants, address: Addresses]
    BY <1>3, <1>10 DEF DataOK
  <2> QED BY <1>2, <1>3, <1>6, <1>10, <2>1 DEF DataOK, Orders, InOrder
<1>13. SparesLists(r, "location", copy[r])
  BY <1>2, <1>4, <1>5, <1>6, <1>7, <1>9 DEF SparesLists, Holds
<1>14. SparesProgramme(r, "location", copy[r])
  BY <1>2, <1>4, <1>6 DEF SparesProgramme, Configuring, Tenants
<1>15. SignedUp(r, "tenant") => SignedUp(r, "location")'
  BY <1>2 DEF SignedUp, PassedBy
<1>16. SparesCatalogue("location") /\ SparesMilestones(r, "location")
  BY <1>2, <1>3, <1>15 DEF SparesCatalogue, SparesMilestones, MilestonesHold
<1>17. MapHolds'
  <2>1. \A g : g.tenant # r => (g \in asking' <=> g \in asking)
    BY <1>10, <1>11
  <2>2. \A u \in Existing' \ (crossed' \cup {r}) : MapAt(u)'
    BY <1>2, <1>3, <1>4, <1>6, <1>7, <1>8, <2>1, MapElsewhere
  <2>3. MapAt(r)'
    <3>1. \A s \in Requests : pc'[s] = "save" => target[s] # r
      BY <1>3, <1>4, <1>9 DEF InOrder, Fits, Own
    <3>2. \A g \in asking' : g.tenant = r => g.by = r /\ g.address = address
      BY <1>3, <1>4, <1>10 DEF InOrder
    <3> QED BY <1>2, <1>5, <1>6, <1>9, <3>1, <3>2 DEF MapAt
  <2> QED BY <1>2, <2>2, <2>3 DEF MapHolds
<1> QED BY <1>3, <1>8, <1>12, <1>13, <1>14, <1>16, <1>17, WhereTheyAre, OrderKept, ListsKept,
           ProgrammeKept, CatalogueKept, MilestonesKept DEF SettingsInv, TypeOK

\* The answer resolves the address that was asked for, unless the merchant is
\* said to be crossed.
LEMMA GeocodeKeeps ==
    ASSUME SettingsInv, NEW g \in asking, GeocodeAnswers(g)
    PROVE  SettingsInv'
<1> DEFINE t == g.tenant
<1>1. /\ asking' = asking \ {g}
      /\ crossed' = IF pc[g.by] = "save" THEN crossed \cup {t} ELSE crossed
      /\ UNCHANGED <<users, rulesets, rewards, redemptions, funnel, tangled, locations>>
      /\ UNCHANGED <<pc, req, target, copy, sent, taken, contested, muddled, retyped>>
  BY DEF GeocodeAnswers, progress
<1>2. DataOK /\ ControlOK /\ InOrder /\ ListsHold /\ ProgrammeHolds /\ CatalogueHolds
      /\ MilestonesHold /\ MapHolds
  BY DEF SettingsInv, TypeOK
<1>3. t \in Existing /\ t \in Tenants /\ tenants[t] \in Tenant /\ g.address \in Addresses
      /\ g.address # Nothing /\ g.by \in Requests
  BY <1>2, SettingsNamesAssumption DEF InOrder, DataOK, Existing
<1>4. PICK v \in Tenant :
        /\ tenants' = [tenants EXCEPT ![t] = v]
        /\ v.config.address = tenants[t].config.address
        /\ v.config.invites = tenants[t].config.invites
        /\ v.config.loyalty = tenants[t].config.loyalty
        /\ \/ SameMap(v, tenants[t])
           \/ v.config.status = "failed"
           \/ v.config.status = "resolved" /\ v.config.formatted = g.address
                 /\ v.config.flat = g.address /\ v.place = g.address
  <2> DEFINE found == [tenants[t] EXCEPT !.config.status = "resolved", !.config.formatted = g.address,
                                         !.config.flat = g.address, !.place = g.address]
             lost == [tenants[t] EXCEPT !.config.status = "failed"]
  <2>1. /\ found \in Tenant /\ lost \in Tenant
        /\ found.config.address = tenants[t].config.address
        /\ found.config.invites = tenants[t].config.invites
        /\ found.config.loyalty = tenants[t].config.loyalty
        /\ found.config.status = "resolved" /\ found.config.formatted = g.address
        /\ found.config.flat = g.address /\ found.place = g.address
        /\ lost.config.address = tenants[t].config.address
        /\ lost.config.invites = tenants[t].config.invites
        /\ lost.config.loyalty = tenants[t].config.loyalty
        /\ lost.config.status = "failed"
    BY <1>3 DEF Tenant, Config, Statuses
  <2>2. CASE tenants' = [tenants EXCEPT ![g.tenant].config.status = "resolved",
                                        ![g.tenant].config.formatted = g.address,
                                        ![g.tenant].config.flat = g.address,
                                        ![g.tenant].place = g.address]
    <3>1. tenants' = [tenants EXCEPT ![t] = found]
      BY <1>2, <1>3, <2>2 DEF DataOK
    <3> HIDE DEF found, lost
    <3> QED BY <2>1, <3>1
  <2>3. CASE tenants' = [tenants EXCEPT ![g.tenant].config.status = "failed"]
    <3>1. tenants' = [tenants EXCEPT ![t] = lost]
      BY <1>2, <1>3, <2>3 DEF DataOK
    <3> HIDE DEF found, lost
    <3> QED BY <2>1, <3>1
  <2>4. CASE UNCHANGED tenants
    <3>1. tenants' = [tenants EXCEPT ![t] = tenants[t]]
      BY <1>2, <1>3, <2>4 DEF DataOK
    <3> QED BY <1>3, <3>1 DEF SameMap
  <2> QED BY <2>2, <2>3, <2>4 DEF GeocodeAnswers
<1>5. /\ tenants' \in [Tenants -> Tenant \cup {Nothing}] /\ Existing' = Existing
      /\ tenants'[t] = v /\ \A u \in Tenants \ {t} : tenants'[u] = tenants[u]
  <2>1. /\ tenants' \in [Tenants -> Tenant \cup {Nothing}] /\ Existing' = Existing \cup {t}
        /\ tenants'[t] = v /\ \A u \in Tenants \ {t} : tenants'[u] = tenants[u]
    BY <1>2, <1>3, <1>4, OneTenant
  <2> QED BY <1>3, <2>1
<1>6. Existing \subseteq Tenants
  BY DEF Existing
<1>7. /\ \A u \in Existing : tenants'[u].config.invites = tenants[u].config.invites
      /\ tenants'[Shop].config.loyalty = tenants[Shop].config.loyalty
  BY <1>2, <1>4, <1>5, <1>6 DEF DataOK
<1>8. TypeOK'
  BY <1>1, <1>2, <1>5 DEF TypeOK, DataOK, ControlOK
<1>9. InOrder'
  BY <1>1, <1>2, <1>5 DEF InOrder, Fits
<1>10. ListsHold'
  <2>1. \A k \in sent : target[k] \in Existing
    BY <1>2 DEF InOrder, Own, DataOK
  <2> QED BY <1>1, <1>2, <1>5, <1>7, <2>1 DEF ListsHold, Holds, Listed
<1>11. ProgrammeHolds'
  BY <1>1, <1>2, <1>7 DEF ProgrammeHolds, InForce, Configures
<1>12. CatalogueHolds'
  BY <1>1, <1>2 DEF CatalogueHolds, Offers, RedemptionsOf
<1>13. MilestonesHold'
  BY <1>1, <1>2 DEF MilestonesHold, TimesFit, NoTimesAhead, SignedUp, PassedBy, Subject
<1>14. MapHolds'
  <2>1. SUFFICES ASSUME NEW u \in Existing' \ crossed' PROVE MapAt(u)'
    BY DEF MapHolds
  <2>2. u \in Existing \ crossed /\ MapAt(u) /\ (u = t => pc[g.by] # "save")
    BY <1>1, <1>2, <1>5 DEF MapHolds
  <2>3. u = t => /\ v.config.address = g.address
                 /\ \A s \in Requests : pc[s] = "save" => target[s] # t
    BY <1>4, <2>2 DEF MapAt
  <2>4. MapSound(tenants[u])'
    BY <1>3, <1>4, <1>5, <1>6, <2>2, <2>3 DEF MapAt, MapSound, SameMap
  <2>5. tenants'[u].config.address = tenants[u].config.address
    BY <1>4, <1>5, <1>6, <2>2
  <2>6. \A s \in Requests : pc[s] = "save" /\ target[s] = u =>
           /\ SameMap(copy[s], tenants'[u])
           /\ \A q \in Requests : pc[q] = "save" /\ target[q] = u => q = s
           /\ \A h \in asking' : h.tenant = u => h.by = s
    BY <1>1, <1>5, <1>6, <2>2, <2>3 DEF MapAt
  <2>7. \A h \in asking' : h.tenant = u =>
           IF pc[h.by] = "save"
           THEN target[h.by] = u /\ ChangesAddress(h.by) /\ req[h.by].value = h.address
           ELSE tenants'[u].config.address = h.address
    BY <1>1, <2>2, <2>5 DEF MapAt
  <2>8. \A q : ChangesAddress(q)' = ChangesAddress(q)
    BY <1>1 DEF ChangesAddress
  <2> QED BY <1>1, <2>4, <2>6, <2>7, <2>8 DEF MapAt
<1> QED BY <1>8, <1>9, <1>10, <1>11, <1>12, <1>13, <1>14 DEF SettingsInv

-----------------------------------------------------------------------------
(* The lists of invitations *)

\* Whoever holds the list is among the holders.
LEMMA HoldersAre ==
    ASSUME NEW r, NEW s \in Requests \ {r}, NEW t \in Tenants, Holds(s, t)
    PROVE  s \in ListHolders(r, t)
BY DEF Holds, ListHolders

\* What a list that is written back does to the parts but the lists.
LEMMA ListIsWritten ==
    ASSUME SettingsInv, NEW r \in Requests, NEW to, NEW t \in Existing, NEW list \in SUBSET Requests,
           Moves(r, to, Nothing), Orders(r, to),
           (pc[r] = "push" /\ to = "look") \/ (pc[r] = "drop" /\ to = "done"),
           tenants' = [tenants EXCEPT ![t].config.invites = list],
           sent' \subseteq Requests, taken' \subseteq sent',
           UNCHANGED <<progress, users, rulesets, rewards, redemptions, asking>>,
           UNCHANGED <<crossed, muddled, retyped>>, ListsHold'
    PROVE  SettingsInv'
<1> DEFINE v == [tenants[t] EXCEPT !.config.invites = list]
<1>1. DataOK /\ ControlOK /\ InOrder /\ ListsHold /\ ProgrammeHolds /\ CatalogueHolds
      /\ MilestonesHold /\ MapHolds
  BY DEF SettingsInv, TypeOK
<1>2. tenants[t] \in Tenant /\ t \in Tenants
  BY <1>1 DEF DataOK, Existing
<1>3. tenants' = [tenants EXCEPT ![t] = v]
  BY <1>1, <1>2 DEF DataOK
<1>4. v \in Tenant /\ SameMap(v, tenants[t]) /\ v.config.loyalty = tenants[t].config.loyalty
  BY <1>2 DEF SameMap, Tenant, Config
<1> HIDE DEF v
<1>5. /\ tenants' \in [Tenants -> Tenant \cup {Nothing}] /\ Existing' = Existing
      /\ tenants'[t] = v /\ \A u \in Tenants \ {t} : tenants'[u] = tenants[u]
  <2>1. /\ tenants' \in [Tenants -> Tenant \cup {Nothing}] /\ Existing' = Existing \cup {t}
        /\ tenants'[t] = v /\ \A u \in Tenants \ {t} : tenants'[u] = tenants[u]
    BY <1>1, <1>2, <1>3, <1>4, OneTenant
  <2> QED BY <2>1
<1>6. Existing \subseteq Tenants
  BY DEF Existing
<1>7. UNCHANGED <<users, rulesets, rewards, redemptions, asking, funnel, tangled, locations>>
  BY DEF progress
<1>8. DataOK'
  BY <1>1, <1>5, <1>7 DEF DataOK
<1>9. SparesProgramme(r, to, Nothing)
  BY <1>1, <1>4, <1>5, <1>6, <1>7 DEF SparesProgramme, Configuring, DataOK
<1>10. req[r].op \in {"invite", "accept"} /\ (to = "done" => req[r].op = "accept")
  BY <1>1 DEF InOrder, Fits, Moves
<1>11. SparesCatalogue(to) /\ SparesMilestones(r, to)
  BY <1>1, <1>7, <1>10 DEF SparesCatalogue, SparesMilestones, Recorded, InOrder, Fits
<1>12. SparesMap(r, to)
  BY <1>4, <1>5, <1>6, <1>7 DEF SparesMap, SameMap
<1> QED BY <1>1, <1>8, <1>9, <1>11, <1>12, WhereTheyAre, OrderKept, ProgrammeKept, CatalogueKept,
           MilestonesKept, MapKept DEF SettingsInv, TypeOK

\* The new list has the other invitations of the copy, which nobody has made old.
LEMMA StoreInviteKeeps ==
    ASSUME SettingsInv, NEW r \in Requests, StoreInvite(r)
    PROVE  SettingsInv'
<1> DEFINE t == target[r]
           list == copy[r].config.invites \cup {r}
<1>1. /\ pc[r] = "push" /\ Finish(r, "look") /\ tenants' = [tenants EXCEPT ![t].config.invites = list]
      /\ sent' = sent \cup {r} /\ Contest(r, t, r)
      /\ UNCHANGED <<progress, users, rulesets, rewards, redemptions, asking, req, target>>
      /\ UNCHANGED <<crossed, taken, muddled, retyped>>
  BY DEF StoreInvite, WithInvite
<1>2. DataOK /\ ControlOK /\ InOrder /\ ListsHold /\ req[r].op = "invite"
  BY <1>1 DEF SettingsInv, TypeOK, InOrder, Fits
<1>3. t \in Existing /\ tenants[t] \in Tenant /\ t \in Tenants /\ copy[r] \in Tenant
  BY <1>1, <1>2 DEF InOrder, Own, DataOK, ControlOK, Existing, TenantRead
<1>4. list \in SUBSET Requests
  BY <1>3 DEF Tenant, Config
<1>5. Moves(r, "look", Nothing)
  BY <1>1, <1>2 DEF Finish, Moves, Carries, Copies, Labels, Resting, TenantRead, Fits
<1>6. /\ pc'[r] = "look" /\ \A s \in Requests \ {r} : pc'[s] = pc[s]
      /\ \A s \in Requests \ {r} : copy'[s] = copy[s]
  BY <1>2, <1>5, WhereTheyAre
<1>7. Existing' = Existing /\ Existing \subseteq Tenants
      /\ tenants'[t].config.invites = list /\ \A u \in Existing \ {t} : tenants'[u] = tenants[u]
  <2> DEFINE v == [tenants[t] EXCEPT !.config.invites = list]
  <2>1. tenants' = [tenants EXCEPT ![t] = v]
    BY <1>1, <1>2, <1>3 DEF DataOK
  <2>2. v \in Tenant /\ v.config.invites = list
    BY <1>3, <1>4 DEF Tenant, Config
  <2> HIDE DEF v, list
  <2>3. /\ Existing' = Existing \cup {t} /\ tenants'[t] = v
        /\ \A u \in Tenants \ {t} : tenants'[u] = tenants[u]
    BY <1>2, <1>3, <2>1, <2>2, OneTenant
  <2>4. Existing \subseteq Tenants
    BY DEF Existing
  <2> QED BY <1>3, <2>2, <2>3, <2>4
<1>8. r \notin sent /\ r \notin taken
  BY <1>1, <1>2 DEF InOrder, DataOK
<1>9. Holds(r, t) /\ \A s \in Requests, u \in Tenants : Holds(s, u)' => s # r /\ Holds(s, u)
  BY <1>1, <1>6 DEF Holds
<1>10. ListsHold'
  <2>1. \A u \in Existing : \A k \in tenants'[u].config.invites : k \in sent' /\ target[k] = u
    BY <1>1, <1>2, <1>3, <1>7, <1>9 DEF ListsHold
  <2>2. \A s \in Requests, u \in Tenants :
           Holds(s, u)' => \A k \in copy'[s].config.invites : k \in sent' /\ target[k] = u
    BY <1>1, <1>2, <1>6, <1>9 DEF ListsHold
  <2>3. ASSUME NEW k \in sent' \ contested', NEW u \in Tenants, target[k] = u
        PROVE  /\ Listed(k, tenants'[u].config.invites)
               /\ \A s \in Requests : Holds(s, u)' => Listed(k, copy'[s].config.invites)
    <3>1. CASE k = r
      <4>1. ListHolders(r, t) = {}
        BY <1>1, <2>3, <3>1 DEF Contest
      <4>2. \A s \in Requests : ~Holds(s, u)'
        BY <1>3, <1>9, <2>3, <3>1, <4>1, HoldersAre
      <4> QED BY <1>7, <1>8, <2>3, <3>1, <4>2 DEF Listed
    <3>2. CASE k # r
      <4>1. k \in sent \ contested
        BY <1>1, <2>3, <3>2 DEF Contest
      <4>2. u \in Existing
        BY <1>2, <2>3, <4>1 DEF InOrder, Own, DataOK
      <4>3. /\ Listed(k, tenants[u].config.invites)
            /\ \A s \in Requests : Holds(s, u) => Listed(k, copy[s].config.invites)
        BY <1>2, <2>3, <4>1 DEF ListsHold
      <4>4. Listed(k, tenants'[u].config.invites)
        BY <1>7, <1>9, <3>2, <4>2, <4>3 DEF Listed
      <4> QED BY <1>6, <1>9, <4>3, <4>4
    <3> QED BY <3>1, <3>2
  <2>4. \A k \in sent' : target[k] \in Tenants
    BY <1>1, <1>2, <1>3, <1>7 DEF InOrder, Own, DataOK
  <2>5. \A k, l : Listed(k, l)' <=> Listed(k, l)
    BY <1>1 DEF Listed
  <2>6. target' = target
    BY <1>1
  <2> HIDE DEF list, t
  <2> QED BY <1>7, <2>1, <2>2, <2>3, <2>4, <2>5, <2>6 DEF ListsHold
<1>11. Orders(r, "look")
  BY <1>1, <1>2, <1>7 DEF Orders
<1>12. sent' \subseteq Requests /\ taken' \subseteq sent'
  BY <1>1, <1>2 DEF DataOK
<1> HIDE DEF list, t
<1> QED BY <1>1, <1>3, <1>4, <1>5, <1>10, <1>11, <1>12, ListIsWritten

\* Nor has the one without the token, which is taken now.
LEMMA DropInviteKeeps ==
    ASSUME SettingsInv, NEW r \in Requests, DropInvite(r)
    PROVE  SettingsInv'
<1> DEFINE x == target[r]
           t == target[x]
           list == copy[r].config.invites \ {x}
<1>1. /\ pc[r] = "drop" /\ Finish(r, "done") /\ tenants' = [tenants EXCEPT ![t].config.invites = list]
      /\ taken' = taken \cup {x} /\ Contest(r, t, x)
      /\ UNCHANGED <<progress, users, rulesets, rewards, redemptions, asking, req, target>>
      /\ UNCHANGED <<crossed, sent, muddled, retyped>>
  BY DEF DropInvite
<1>2. DataOK /\ ControlOK /\ InOrder /\ ListsHold /\ req[r].op = "accept"
  BY <1>1 DEF SettingsInv, TypeOK, InOrder, Fits
<1>3. x \in sent /\ t \in Existing /\ tenants[t] \in Tenant /\ t \in Tenants /\ copy[r] \in Tenant
  <2>1. x \in sent /\ copy[r] \in Tenant
    BY <1>1, <1>2 DEF InOrder, ControlOK, TenantRead
  <2>2. t \in Existing
    BY <1>2, <2>1 DEF InOrder, Own, DataOK
  <2> QED BY <1>2, <2>1, <2>2 DEF DataOK, Existing
<1>4. list \in SUBSET Requests
  BY <1>3 DEF Tenant, Config
<1>5. Moves(r, "done", Nothing)
  BY <1>1, <1>2 DEF Finish, Moves, Carries, Copies, Labels, Resting, TenantRead, Fits
<1>6. /\ pc'[r] = "done" /\ \A s \in Requests \ {r} : pc'[s] = pc[s]
      /\ \A s \in Requests \ {r} : copy'[s] = copy[s]
  BY <1>2, <1>5, WhereTheyAre
<1>7. Existing' = Existing /\ Existing \subseteq Tenants
      /\ tenants'[t].config.invites = list /\ \A u \in Existing \ {t} : tenants'[u] = tenants[u]
  <2> DEFINE v == [tenants[t] EXCEPT !.config.invites = list]
  <2>1. tenants' = [tenants EXCEPT ![t] = v]
    BY <1>1, <1>2, <1>3 DEF DataOK
  <2>2. v \in Tenant /\ v.config.invites = list
    BY <1>3, <1>4 DEF Tenant, Config
  <2> HIDE DEF v, list, t
  <2>3. /\ Existing' = Existing \cup {t} /\ tenants'[t] = v
        /\ \A u \in Tenants \ {t} : tenants'[u] = tenants[u]
    BY <1>2, <1>3, <2>1, <2>2, OneTenant
  <2>4. Existing \subseteq Tenants
    BY DEF Existing
  <2> QED BY <1>3, <2>2, <2>3, <2>4
<1>8. Holds(r, t) /\ \A s \in Requests, u \in Tenants : Holds(s, u)' => s # r /\ Holds(s, u)
  BY <1>1, <1>6 DEF Holds
<1>9. ListsHold'
  <2>1. \A u \in Existing : \A k \in tenants'[u].config.invites : k \in sent' /\ target[k] = u
    BY <1>1, <1>2, <1>3, <1>7, <1>8 DEF ListsHold
  <2>2. \A s \in Requests, u \in Tenants :
           Holds(s, u)' => \A k \in copy'[s].config.invites : k \in sent' /\ target[k] = u
    BY <1>1, <1>2, <1>6, <1>8 DEF ListsHold
  <2>3. ASSUME NEW k \in sent \ contested', NEW u \in Tenants, target[k] = u
        PROVE  /\ Listed(k, tenants[u].config.invites)'
               /\ \A s \in Requests : Holds(s, u)' => Listed(k, copy[s].config.invites)'
    <3>1. CASE k = x
      <4>1. ListHolders(r, t) = {}
        BY <1>1, <2>3, <3>1 DEF Contest
      <4>2. \A s \in Requests : ~Holds(s, u)'
        BY <1>3, <1>8, <2>3, <3>1, <4>1, HoldersAre
      <4> QED BY <1>1, <1>7, <2>3, <3>1, <4>2 DEF Listed
    <3>2. CASE k # x
      <4>1. k \in sent \ contested
        BY <1>1, <2>3, <3>2 DEF Contest
      <4>2. u \in Existing
        BY <1>2, <2>3, <4>1 DEF InOrder, Own, DataOK
      <4>3. /\ Listed(k, tenants[u].config.invites)
            /\ \A s \in Requests : Holds(s, u) => Listed(k, copy[s].config.invites)
        BY <1>2, <2>3, <4>1 DEF ListsHold
      <4>4. k \in taken' <=> k \in taken
        BY <1>1, <3>2
      <4>5. k \in tenants'[u].config.invites <=> k \notin taken
        BY <1>7, <1>8, <3>2, <4>2, <4>3 DEF Listed
      <4> QED BY <1>6, <1>8, <4>3, <4>4, <4>5 DEF Listed
    <3> QED BY <3>1, <3>2
  <2>4. \A k \in sent : target[k] \in Tenants
    BY <1>2, <1>7 DEF InOrder, Own, DataOK
  <2>5. target' = target /\ sent' = sent
    BY <1>1
  <2> HIDE DEF list, t, x
  <2> QED BY <1>7, <2>1, <2>2, <2>3, <2>4, <2>5 DEF ListsHold
<1>10. Orders(r, "done")
  BY <1>1, <1>2, <1>7 DEF Orders, InOrder
<1>11. sent' \subseteq Requests /\ taken' \subseteq sent'
  BY <1>1, <1>2, <1>3 DEF DataOK
<1> HIDE DEF list, t, x
<1> QED BY <1>1, <1>3, <1>4, <1>5, <1>9, <1>10, <1>11, ListIsWritten

-----------------------------------------------------------------------------
(* The programme *)

\* The old programme ends: none is in force until the new one is stored, and
\* nobody else is configuring, or it is said to be muddled.
LEMMA RetireRulesetsKeeps ==
    ASSUME SettingsInv, NEW r \in Requests, RetireRulesets(r)
    PROVE  SettingsInv'
<1> DEFINE t == target[r]
           after(d) == IF d.tenant = t THEN [d EXCEPT !.open = FALSE] ELSE d
<1>1. /\ pc[r] = "retire" /\ Goto(r, "rule") /\ copy' = copy
      /\ rulesets' = {after(d) : d \in rulesets}
      /\ muddled' = IF Holding(r, t, Configuring) # {} THEN muddled \cup {t} ELSE muddled
      /\ UNCHANGED <<tenants, users, rewards, redemptions, asking, funnel, tangled, locations>>
      /\ UNCHANGED <<req, target, crossed, sent, taken, contested, retyped>>
  BY DEF RetireRulesets, Retired, progress
<1>2. DataOK /\ ControlOK /\ InOrder /\ ListsHold /\ ProgrammeHolds /\ CatalogueHolds
      /\ MilestonesHold /\ MapHolds /\ req[r].op = "configure"
  BY <1>1 DEF SettingsInv, TypeOK, InOrder, Fits
<1>3. Moves(r, "rule", copy[r])
  BY <1>1, <1>2 DEF Moves, Carries, ControlOK, Labels, Resting, TenantRead, Fits
<1>4. /\ pc'[r] = "rule" /\ \A s \in Requests \ {r} : pc'[s] = pc[s]
      /\ \A s \in Requests : copy'[s] = copy[s]
  BY <1>1, <1>2, <1>3, WhereTheyAre
<1>5. \A d \in rulesets : /\ after(d) \in Ruleset /\ after(d).tenant = d.tenant
                          /\ d.tenant = t => ~after(d).open
                          /\ d.tenant # t => after(d) = d
  BY <1>2 DEF DataOK, Ruleset
<1> HIDE DEF after
<1>6. DataOK' /\ Orders(r, "rule")
  <2>1. rulesets' \subseteq Ruleset
    BY <1>1, <1>5
  <2>2. Existing' = Existing
    BY <1>1 DEF Existing
  <2> QED BY <1>1, <1>2, <2>1, <2>2 DEF DataOK, Orders, InOrder
<1>7. SparesCatalogue("rule") /\ SparesMilestones(r, "rule") /\ SparesMap(r, "rule")
      /\ SparesLists(r, "rule", copy[r])
  BY <1>1, <1>2, <1>3, Quiet DEF TenantRead
<1>8. ProgrammeHolds'
  <2>1. SUFFICES ASSUME Shop \notin muddled' PROVE ProgrammeHolds'
    BY DEF ProgrammeHolds
  <2>2. Shop \notin muddled
    BY <1>1, <2>1
  <2>3. CASE t # Shop
    <3>1. InForce(Shop)' = InForce(Shop) /\ \A d \in InForce(Shop) : d \in rulesets'
      <4>1. \A d : d \in rulesets' /\ d.tenant = Shop <=> d \in rulesets /\ d.tenant = Shop
        BY <1>1, <1>5, <2>3
      <4> QED BY <4>1 DEF InForce
    <3>2. \A s \in Requests : Configures(s)' <=> Configures(s)
      BY <1>1, <1>4, <2>3 DEF Configures
    <3> QED BY <1>1, <1>2, <1>4, <2>2, <2>3, <3>1, <3>2 DEF ProgrammeHolds
  <2>4. CASE t = Shop
    <3>1. \A s \in Requests : Configures(s)' => s = r
      BY <1>1, <1>4, <2>1, <2>4 DEF Holding, Configures
    <3>2. InForce(Shop)' = {}
      BY <1>1, <1>5, <2>4 DEF InForce
    <3>3. Configures(r)'
      BY <1>1, <1>4, <2>4 DEF Configures, Configuring
    <3> QED BY <1>1, <1>2, <1>4, <2>2, <3>1, <3>2, <3>3 DEF ProgrammeHolds, Configures, Configuring
  <2> QED BY <2>3, <2>4
<1> QED BY <1>2, <1>3, <1>6, <1>7, <1>8, WhereTheyAre, OrderKept, ListsKept, CatalogueKept,
           MilestonesKept, MapKept DEF SettingsInv, TypeOK

\* The new one is the only one in force.
LEMMA CreateRulesetKeeps ==
    ASSUME SettingsInv, NEW r \in Requests, CreateRuleset(r)
    PROVE  SettingsInv'
<1> DEFINE t == target[r]
           new == [id |-> r, tenant |-> t, type |-> req[r].value, open |-> TRUE]
<1>1. /\ pc[r] = "rule" /\ Goto(r, "loyalty") /\ copy' = copy /\ rulesets' = rulesets \cup {new}
      /\ UNCHANGED <<tenants, users, rewards, redemptions, asking, funnel, tangled, locations>>
      /\ UNCHANGED <<req, target, crossed, sent, taken, contested, muddled, retyped>>
  BY DEF CreateRuleset, progress, history
<1>2. DataOK /\ ControlOK /\ InOrder /\ ListsHold /\ ProgrammeHolds /\ CatalogueHolds
      /\ MilestonesHold /\ MapHolds /\ req[r].op = "configure"
  BY <1>1 DEF SettingsInv, TypeOK, InOrder, Fits
<1>3. Moves(r, "loyalty", copy[r])
  BY <1>1, <1>2 DEF Moves, Carries, ControlOK, Labels, Resting, TenantRead, Fits
<1>4. /\ pc'[r] = "loyalty" /\ \A s \in Requests \ {r} : pc'[s] = pc[s]
      /\ \A s \in Requests : copy'[s] = copy[s]
  BY <1>1, <1>2, <1>3, WhereTheyAre
<1>5. new \in Ruleset /\ new.tenant = t /\ new.open /\ new.type = req[r].value
  <2>1. t \in Tenants /\ r \in Tenants
    BY <1>1, <1>2 DEF InOrder, Own, Existing, Tenants
  <2>2. req[r].value \in Types
    BY <1>2, SettingsIntentsAssumption DEF Valid, ControlOK
  <2> QED BY <2>1, <2>2 DEF Ruleset
<1> HIDE DEF new
<1>6. DataOK' /\ Orders(r, "loyalty")
  <2>1. Existing' = Existing
    BY <1>1 DEF Existing
  <2> QED BY <1>1, <1>2, <1>5, <2>1 DEF DataOK, Orders, InOrder
<1>7. SparesCatalogue("loyalty") /\ SparesMilestones(r, "loyalty") /\ SparesMap(r, "loyalty")
      /\ SparesLists(r, "loyalty", copy[r])
  BY <1>1, <1>2, <1>3, Quiet DEF TenantRead
<1>8. ProgrammeHolds'
  <2>1. SUFFICES ASSUME Shop \notin muddled PROVE ProgrammeHolds'
    BY <1>1 DEF ProgrammeHolds
  <2>2. \A s \in Requests : Configures(s)' <=> Configures(s)
    BY <1>1, <1>4 DEF Configures, Configuring
  <2>3. CASE t # Shop
    <3>1. InForce(Shop)' = InForce(Shop)
      BY <1>1, <1>5, <2>3 DEF InForce
    <3> QED BY <1>1, <1>2, <1>4, <2>1, <2>2, <2>3, <3>1 DEF ProgrammeHolds
  <2>4. CASE t = Shop
    <3>1. InForce(Shop) = {} /\ Configures(r)
      BY <1>1, <1>2, <2>1, <2>4 DEF ProgrammeHolds, Configures, Configuring
    <3>2. InForce(Shop)' = {new} /\ new \in rulesets'
      BY <1>1, <1>5, <2>4, <3>1 DEF InForce
    <3>3. \A s \in Requests : Configures(s) => s = r
      BY <1>2, <2>1, <3>1 DEF ProgrammeHolds
    <3> QED BY <1>1, <1>2, <1>4, <1>5, <2>1, <2>2, <3>1, <3>2, <3>3
            DEF ProgrammeHolds, Configures, Configuring
  <2> QED BY <2>3, <2>4
<1> QED BY <1>2, <1>3, <1>6, <1>7, <1>8, WhereTheyAre, OrderKept, ListsKept, CatalogueKept,
           MilestonesKept, MapKept DEF SettingsInv, TypeOK

\* The merchant's loyalty type becomes that of the programme in force.
LEMMA SetLoyaltyKeeps ==
    ASSUME SettingsInv, NEW r \in Requests, SetLoyalty(r)
    PROVE  SettingsInv'
<1> DEFINE t == target[r]
           v == [tenants[t] EXCEPT !.config.loyalty = req[r].value]
<1>1. /\ pc[r] = "loyalty" /\ copy' = copy /\ tenants' = [tenants EXCEPT ![t].config.loyalty = req[r].value]
      /\ muddled' = IF \E s \in Holding(r, t, {"save"}) : req[s].op = "merge"
                    THEN muddled \cup {t} ELSE muddled
      /\ UNCHANGED <<users, rulesets, rewards, redemptions, asking, funnel, tangled, locations>>
      /\ UNCHANGED <<req, target, crossed, sent, taken, contested, retyped>>
  BY DEF SetLoyalty, progress
<1>2. PICK to \in {"done", "write"} : Goto(r, to) /\ (to = "write" => req[r].value \in Kinds)
  BY DEF SetLoyalty
<1>3. DataOK /\ ControlOK /\ InOrder /\ ListsHold /\ ProgrammeHolds /\ CatalogueHolds
      /\ MilestonesHold /\ MapHolds /\ req[r].op = "configure"
  BY <1>1 DEF SettingsInv, TypeOK, InOrder, Fits
<1>4. Moves(r, to, copy[r])
  BY <1>1, <1>2, <1>3 DEF Moves, Carries, ControlOK, Labels, Resting, TenantRead, Fits
<1>5. /\ pc'[r] = to /\ \A s \in Requests \ {r} : pc'[s] = pc[s]
      /\ \A s \in Requests : copy'[s] = copy[s]
  BY <1>1, <1>3, <1>4, WhereTheyAre
<1>6. t \in Existing /\ tenants[t] \in Tenant /\ t \in Tenants /\ req[r].value \in Types
  <2>1. req[r].value \in Types
    BY <1>3, SettingsIntentsAssumption DEF Valid, ControlOK
  <2> QED BY <1>1, <1>3, <2>1 DEF InOrder, Own, DataOK, Existing
<1>7. tenants' = [tenants EXCEPT ![t] = v]
  BY <1>1, <1>3, <1>6 DEF DataOK
<1>8. v \in Tenant /\ SameMap(v, tenants[t]) /\ v.config.loyalty = req[r].value
      /\ v.config.invites = tenants[t].config.invites
  BY <1>6 DEF SameMap, Tenant, Config
<1> HIDE DEF v
<1>9. /\ tenants' \in [Tenants -> Tenant \cup {Nothing}] /\ Existing' = Existing
      /\ tenants'[t] = v /\ \A u \in Tenants \ {t} : tenants'[u] = tenants[u]
  <2>1. /\ tenants' \in [Tenants -> Tenant \cup {Nothing}] /\ Existing' = Existing \cup {t}
        /\ tenants'[t] = v /\ \A u \in Tenants \ {t} : tenants'[u] = tenants[u]
    BY <1>3, <1>6, <1>7, <1>8, OneTenant
  <2> QED BY <1>6, <2>1
<1>10. Existing \subseteq Tenants /\ Shop \in Tenants
  BY DEF Existing, Tenants
<1>11. DataOK' /\ Orders(r, to)
  BY <1>1, <1>2, <1>3, <1>9 DEF DataOK, Orders, InOrder
<1>12. SparesCatalogue(to) /\ SparesMilestones(r, to)
  BY <1>1, <1>2, <1>3 DEF SparesCatalogue, SparesMilestones, Recorded
<1>13. SparesMap(r, to)
  BY <1>1, <1>2, <1>8, <1>9, <1>10 DEF SparesMap, SameMap
<1>14. SparesLists(r, to, copy[r])
  BY <1>1, <1>2, <1>5, <1>8, <1>9, <1>10 DEF SparesLists, Holds
<1>15. ProgrammeHolds'
  <2>1. SUFFICES ASSUME Shop \notin muddled' PROVE ProgrammeHolds'
    BY DEF ProgrammeHolds
  <2>2. Shop \notin muddled /\ InForce(Shop)' = InForce(Shop)
    BY <1>1, <2>1 DEF InForce
  <2>3. CASE t # Shop
    <3>1. tenants'[Shop] = tenants[Shop]
      BY <1>9, <1>10, <2>3
    <3>2. \A s \in Requests : Configures(s)' <=> Configures(s)
      BY <1>1, <1>5, <2>3 DEF Configures
    <3>3. \A s \in Requests : pc'[s] \in {"rule", "loyalty", "save"} =>
             s # r /\ pc'[s] = pc[s] /\ copy'[s] = copy[s]
      BY <1>5
    <3>4. UNCHANGED <<rulesets, req, target>>
      BY <1>1
    <3> QED BY <1>3, <2>2, <3>1, <3>2, <3>3, <3>4 DEF ProgrammeHolds
  <2>4. CASE t = Shop
    <3>1. PICK d \in rulesets : InForce(Shop) = {d} /\ d.type = req[r].value
      BY <1>1, <1>3, <2>2, <2>4 DEF ProgrammeHolds
    <3>2. \A s \in Requests : Configures(s) => s = r
      BY <1>1, <1>3, <2>2, <2>4 DEF ProgrammeHolds, Configures, Configuring
    <3>3. \A s \in Requests : ~Configures(s)'
      BY <1>1, <1>2, <1>5, <3>2 DEF Configures, Configuring
    <3>4. \A s \in Requests : target[s] = Shop /\ pc'[s] = "save" => req[s].op # "merge"
      BY <1>1, <1>2, <1>5, <2>1, <2>4 DEF Holding
    <3>5. tenants'[Shop].config.loyalty = req[r].value
      BY <1>8, <1>9, <2>4
    <3> QED BY <1>1, <2>2, <3>1, <3>3, <3>4, <3>5 DEF ProgrammeHolds, Configures, Configuring
  <2> QED BY <2>3, <2>4
<1> QED BY <1>3, <1>4, <1>11, <1>12, <1>13, <1>14, <1>15, WhereTheyAre, OrderKept, ListsKept,
           CatalogueKept, MilestonesKept, MapKept DEF SettingsInv, TypeOK

-----------------------------------------------------------------------------
(* The catalogue, and what was redeemed of it *)

\* What a step that writes the catalogue leaves alone.
LEMMA CatalogueIsWritten ==
    ASSUME SettingsInv, NEW r \in Requests, NEW to, NEW c, Moves(r, to, c),
           pc[r] \in {"write", "count", "remove", "offer", "redeem"},
           to \in {"remove", "redeem", "done"}, to = "done" => Recorded(r),
           req[r].op # "signup", req[r].op # "invite",
           UNCHANGED <<progress, tenants, users, rulesets, asking>>,
           UNCHANGED <<crossed, sent, taken, contested, muddled>>,
           rewards' \subseteq Reward, redemptions' \subseteq Redemption, CatalogueHolds'
    PROVE  SettingsInv'
<1>1. DataOK /\ ControlOK /\ InOrder /\ ListsHold /\ ProgrammeHolds /\ CatalogueHolds
      /\ MilestonesHold /\ MapHolds
  BY DEF SettingsInv, TypeOK
<1>2. UNCHANGED <<funnel, tangled, locations>>
  BY DEF progress
<1>3. Existing' = Existing
  BY DEF Existing
<1>4. r \notin sent
  BY <1>1 DEF InOrder
<1>5. DataOK' /\ Orders(r, to)
  BY <1>1, <1>2, <1>3, <1>4 DEF DataOK, Orders, InOrder
<1>6. SparesMilestones(r, to) /\ SparesMap(r, to) /\ SparesLists(r, to, c) /\ SparesProgramme(r, to, c)
  BY <1>1, <1>2, Quiet DEF TenantRead, Configuring
<1> QED BY <1>1, <1>5, <1>6, WhereTheyAre, OrderKept, ListsKept, ProgrammeKept,
           MilestonesKept, MapKept DEF SettingsInv, TypeOK

\* A reward has a new name.
LEMMA CreateRewardKeeps ==
    ASSUME SettingsInv, NEW r \in Requests, CreateReward(r)
    PROVE  SettingsInv'
<1> DEFINE new == [id |-> r, kind |-> req[r].value]
<1>1. /\ pc[r] = "write" /\ req[r].op \in {"addReward", "configure"} /\ Goto(r, "done") /\ copy' = copy
      /\ rewards' = rewards \cup {new}
      /\ UNCHANGED <<progress, tenants, users, rulesets, redemptions, asking, req, target>>
      /\ UNCHANGED <<crossed, sent, taken, contested, muddled, retyped>>
  BY DEF CreateReward, history
<1>2. DataOK /\ ControlOK /\ InOrder /\ CatalogueHolds
  BY DEF SettingsInv, TypeOK
<1>3. Moves(r, "done", copy[r])
  BY <1>1, <1>2 DEF Moves, Carries, ControlOK, Labels, Resting, TenantRead, Fits
<1>4. pc'[r] = "done" /\ \A s \in Requests \ {r} : pc'[s] = pc[s]
  BY <1>2, <1>3, WhereTheyAre
<1>5. req[r].value \in Kinds
  BY <1>1, <1>2, SettingsIntentsAssumption DEF InOrder, Valid, ControlOK
<1>6. new \in Reward /\ new.id = r
  BY <1>5 DEF Reward
<1> HIDE DEF new
<1>7. \A w \in rewards : w.id # r
  BY <1>1, <1>2 DEF CatalogueHolds
<1>8. \A w, kind : Offers(w, kind) => Offers(w, kind)'
  BY <1>1 DEF Offers
<1>9. CatalogueHolds'
  BY <1>1, <1>2, <1>4, <1>6, <1>7, <1>8 DEF CatalogueHolds, RedemptionsOf
<1>10. rewards' \subseteq Reward /\ redemptions' \subseteq Redemption
  BY <1>1, <1>2, <1>6 DEF DataOK
<1> QED BY <1>1, <1>3, <1>9, <1>10, CatalogueIsWritten DEF Recorded

\* A kind that changes after a redemption, or while one is going on, is said to
\* have been changed too late.
LEMMA EditRewardKeeps ==
    ASSUME SettingsInv, NEW r \in Requests, EditReward(r)
    PROVE  SettingsInv'
<1>1. pc[r] = "write" /\ req[r].op = "editReward"
  BY DEF EditReward
<1>2. CASE Refuse(r)
  BY <1>1, <1>2, RefuseKeeps DEF Resting, Configuring
<1>3. CASE ~Refuse(r)
  <2> DEFINE x == target[r]
             after(w) == IF w.id = x THEN [w EXCEPT !.kind = req[r].value] ELSE w
  <2>1. /\ Goto(r, "done") /\ copy' = copy
        /\ rewards' = {after(w) : w \in rewards}
        /\ retyped' = IF RedemptionsOf(x) # {} \/ Redeeming(x) # {} THEN retyped \cup {x} ELSE retyped
        /\ UNCHANGED <<progress, tenants, users, rulesets, redemptions, asking, req, target>>
        /\ UNCHANGED <<crossed, sent, taken, contested, muddled>>
    BY <1>3 DEF EditReward
  <2>2. DataOK /\ ControlOK /\ InOrder /\ CatalogueHolds
    BY DEF SettingsInv, TypeOK
  <2>3. Moves(r, "done", copy[r])
    BY <1>1, <2>1, <2>2 DEF Moves, Carries, ControlOK, Labels, Resting, TenantRead, Fits
  <2>4. /\ pc'[r] = "done" /\ \A s \in Requests \ {r} : pc'[s] = pc[s]
        /\ \A s \in Requests : copy'[s] = copy[s]
    BY <2>1, <2>2, <2>3, WhereTheyAre
  <2>5. req[r].value \in Kinds
    BY <1>1, <2>2, SettingsIntentsAssumption DEF Valid, ControlOK
  <2>6. \A w \in rewards : after(w) \in Reward /\ after(w).id = w.id /\ (w.id # x => after(w) = w)
    BY <2>2, <2>5 DEF DataOK, Reward
  <2> HIDE DEF after
  <2>7. \A w, kind : w # x => (Offers(w, kind)' <=> Offers(w, kind))
    BY <2>1, <2>6 DEF Offers
  <2>8. /\ \A v, w \in rewards' : v.id = w.id => v = w
        /\ \A w \in rewards' : w.id \in Requests => pc'[w.id] = "done"
    BY <1>1, <2>1, <2>2, <2>4, <2>6 DEF CatalogueHolds
  <2>9. retyped \subseteq retyped' /\ \A w : RedemptionsOf(w)' = RedemptionsOf(w)
    BY <2>1 DEF RedemptionsOf
  <2>10. x \notin retyped' => /\ \A d \in redemptions : d.reward # x
                              /\ \A s \in Requests : pc[s] = "redeem" => target[s] # x
    BY <2>1 DEF RedemptionsOf, Redeeming
  <2>11. \A d \in redemptions : d.reward \notin retyped' => Offers(d.reward, d.kind)'
    BY <2>2, <2>7, <2>9, <2>10 DEF CatalogueHolds
  <2>12. \A s \in Requests : target[s] \notin retyped' =>
            /\ pc'[s] = "redeem" => Offers(target[s], copy[s].kind)'
            /\ pc'[s] = "remove" => RedemptionsOf(target[s]) = {}
    <3> SUFFICES ASSUME NEW s \in Requests, target[s] \notin retyped'
                 PROVE  /\ pc'[s] = "redeem" => Offers(target[s], copy[s].kind)'
                        /\ pc'[s] = "remove" => RedemptionsOf(target[s]) = {}
      OBVIOUS
    <3>1. target'[s] = target[s] /\ copy'[s] = copy[s]
      BY <2>1
    <3> QED BY <2>2, <2>4, <2>7, <2>9, <2>10, <3>1 DEF CatalogueHolds
  <2>13. CatalogueHolds'
    BY <2>1, <2>8, <2>9, <2>11, <2>12 DEF CatalogueHolds
  <2>14. rewards' \subseteq Reward /\ redemptions' \subseteq Redemption
    BY <2>1, <2>2, <2>6 DEF DataOK
  <2> QED BY <1>1, <2>1, <2>3, <2>13, <2>14, CatalogueIsWritten DEF Recorded
<1> QED BY <1>2, <1>3

\* Nothing was redeemed of what goes on to be deleted.
LEMMA CountRedemptionsKeeps ==
    ASSUME SettingsInv, NEW r \in Requests, CountRedemptions(r)
    PROVE  SettingsInv'
<1>1. pc[r] = "count"
  BY DEF CountRedemptions
<1>2. CASE Refuse(r)
  BY <1>1, <1>2, RefuseKeeps DEF Resting, Configuring
<1>3. CASE ~Refuse(r)
  <2>1. /\ Goto(r, "remove") /\ copy' = copy /\ RedemptionsOf(target[r]) = {}
        /\ UNCHANGED <<progress, tenants, users, rulesets, rewards, redemptions, asking, req, target>>
        /\ UNCHANGED <<crossed, sent, taken, contested, muddled, retyped>>
    BY <1>3 DEF CountRedemptions, MayDelete, history, collections
  <2>2. DataOK /\ ControlOK /\ InOrder /\ CatalogueHolds /\ req[r].op = "deleteReward"
    BY <1>1 DEF SettingsInv, TypeOK, InOrder, Fits
  <2>3. Moves(r, "remove", copy[r])
    BY <1>1, <2>1, <2>2 DEF Moves, Carries, ControlOK, Labels, Resting, TenantRead, Fits
  <2>4. pc'[r] = "remove" /\ \A s \in Requests \ {r} : pc'[s] = pc[s]
    BY <2>2, <2>3, WhereTheyAre
  <2>5. CatalogueHolds'
    BY <1>1, <2>1, <2>2, <2>4 DEF CatalogueHolds, Offers, RedemptionsOf
  <2>6. rewards' \subseteq Reward /\ redemptions' \subseteq Redemption
    BY <2>1, <2>2 DEF DataOK
  <2> QED BY <1>1, <2>1, <2>2, <2>3, <2>5, <2>6, CatalogueIsWritten
<1> QED BY <1>2, <1>3

\* Nor while it was deleted, or it is said to have been deleted too late.
LEMMA DeleteRewardKeeps ==
    ASSUME SettingsInv, NEW r \in Requests, DeleteReward(r)
    PROVE  SettingsInv'
<1> DEFINE x == target[r]
<1>1. /\ pc[r] = "remove" /\ Goto(r, "done") /\ copy' = copy
      /\ rewards' = {w \in rewards : w.id # x}
      /\ retyped' = IF Redeeming(x) # {} THEN retyped \cup {x} ELSE retyped
      /\ UNCHANGED <<progress, tenants, users, rulesets, redemptions, asking, req, target>>
      /\ UNCHANGED <<crossed, sent, taken, contested, muddled>>
  BY DEF DeleteReward
<1>2. DataOK /\ ControlOK /\ InOrder /\ CatalogueHolds /\ req[r].op = "deleteReward"
  BY <1>1 DEF SettingsInv, TypeOK, InOrder, Fits
<1>3. Moves(r, "done", copy[r])
  BY <1>1, <1>2 DEF Moves, Carries, ControlOK, Labels, Resting, TenantRead, Fits
<1>4. /\ pc'[r] = "done" /\ \A s \in Requests \ {r} : pc'[s] = pc[s]
      /\ \A s \in Requests : copy'[s] = copy[s]
  BY <1>1, <1>2, <1>3, WhereTheyAre
<1>5. \A w, kind : w # x => (Offers(w, kind)' <=> Offers(w, kind))
  BY <1>1 DEF Offers
<1>6. x \notin retyped' => /\ \A d \in redemptions : d.reward # x
                           /\ \A s \in Requests : pc[s] = "redeem" => target[s] # x
  BY <1>1, <1>2 DEF CatalogueHolds, RedemptionsOf, Redeeming
<1>7. \A d \in redemptions : d.reward \notin retyped' => Offers(d.reward, d.kind)'
  BY <1>1, <1>2, <1>5, <1>6 DEF CatalogueHolds
<1>8. \A s \in Requests : target[s] \notin retyped' =>
         /\ pc'[s] = "redeem" => Offers(target[s], copy[s].kind)'
         /\ pc'[s] = "remove" => RedemptionsOf(target[s])' = {}
  <2> SUFFICES ASSUME NEW s \in Requests, target[s] \notin retyped'
               PROVE  /\ pc'[s] = "redeem" => Offers(target[s], copy[s].kind)'
                      /\ pc'[s] = "remove" => RedemptionsOf(target[s])' = {}
    OBVIOUS
  <2>1. target'[s] = target[s] /\ copy'[s] = copy[s] /\ target[s] \notin retyped
    BY <1>1
  <2>2. RedemptionsOf(target[s])' = RedemptionsOf(target[s])
    BY <1>1 DEF RedemptionsOf
  <2> QED BY <1>2, <1>4, <1>5, <1>6, <2>1, <2>2 DEF CatalogueHolds
<1>9. CatalogueHolds'
  BY <1>1, <1>2, <1>4, <1>7, <1>8 DEF CatalogueHolds
<1>10. rewards' \subseteq Reward /\ redemptions' \subseteq Redemption
  BY <1>1, <1>2 DEF DataOK
<1> QED BY <1>1, <1>2, <1>3, <1>9, <1>10, CatalogueIsWritten DEF Recorded

\* What is offered has the kind that is remembered.
LEMMA FindRewardKeeps ==
    ASSUME SettingsInv, NEW r \in Requests, FindReward(r)
    PROVE  SettingsInv'
<1>1. pc[r] = "offer"
  BY DEF FindReward
<1>2. CASE Refuse(r)
  BY <1>1, <1>2, RefuseKeeps DEF Resting, Configuring
<1>3. ASSUME NEW w \in rewards, w.id = target[r], copy' = [copy EXCEPT ![r] = w], Goto(r, "redeem"),
             UNCHANGED <<progress, collections, req, target, history>>
      PROVE  SettingsInv'
  <2>1. /\ UNCHANGED <<progress, tenants, users, rulesets, rewards, redemptions, asking, req, target>>
        /\ UNCHANGED <<crossed, sent, taken, contested, muddled, retyped>>
    BY <1>3 DEF history, collections
  <2>2. DataOK /\ ControlOK /\ InOrder /\ CatalogueHolds /\ req[r].op = "redeem" /\ w \in Reward
    BY <1>1 DEF SettingsInv, TypeOK, InOrder, Fits, DataOK
  <2>3. Moves(r, "redeem", w)
    BY <1>1, <1>3, <2>1, <2>2 DEF Moves, Carries, Copies, Labels, Resting, TenantRead, Fits
  <2>4. /\ pc'[r] = "redeem" /\ \A s \in Requests \ {r} : pc'[s] = pc[s]
        /\ copy'[r] = w /\ \A s \in Requests \ {r} : copy'[s] = copy[s]
    BY <2>2, <2>3, WhereTheyAre
  <2>5. CatalogueHolds'
    BY <1>1, <1>3, <2>1, <2>2, <2>4 DEF CatalogueHolds, Offers, RedemptionsOf
  <2>6. rewards' \subseteq Reward /\ redemptions' \subseteq Redemption
    BY <2>1, <2>2 DEF DataOK
  <2> QED BY <1>1, <2>1, <2>2, <2>3, <2>5, <2>6, CatalogueIsWritten
<1> QED BY <1>2, <1>3 DEF FindReward

\* What is redeemed has the kind at which it was found.
LEMMA RedeemKeeps ==
    ASSUME SettingsInv, NEW r \in Requests, Redeem(r)
    PROVE  SettingsInv'
<1> DEFINE x == target[r]
           new == [by |-> r, reward |-> x, kind |-> copy[r].kind]
<1>1. /\ pc[r] = "redeem" /\ Finish(r, "done") /\ redemptions' = redemptions \cup {new}
      /\ retyped' = IF Doomed(x) THEN retyped \cup {x} ELSE retyped
      /\ UNCHANGED <<progress, tenants, users, rulesets, rewards, asking, req, target>>
      /\ UNCHANGED <<crossed, sent, taken, contested, muddled>>
  BY DEF Redeem
<1>2. DataOK /\ ControlOK /\ InOrder /\ CatalogueHolds /\ req[r].op = "redeem"
  BY <1>1 DEF SettingsInv, TypeOK, InOrder, Fits
<1>3. Moves(r, "done", Nothing)
  BY <1>1, <1>2 DEF Finish, Moves, Carries, Copies, Labels, Resting, TenantRead, Fits
<1>4. /\ pc'[r] = "done" /\ \A s \in Requests \ {r} : pc'[s] = pc[s]
      /\ \A s \in Requests \ {r} : copy'[s] = copy[s]
  BY <1>2, <1>3, WhereTheyAre
<1>5. new \in Redemption /\ new.reward = x /\ new.kind = copy[r].kind
  BY <1>1, <1>2 DEF InOrder, OfReward, ControlOK, Reward, Redemption
<1> HIDE DEF new
<1>6. \A w, kind : Offers(w, kind)' <=> Offers(w, kind)
  BY <1>1 DEF Offers
<1>7. retyped \subseteq retyped' /\ (x \notin retyped' =>
         /\ Offers(x, copy[r].kind)
         /\ \A s \in Requests : pc[s] = "remove" => target[s] # x)
  BY <1>1, <1>2 DEF CatalogueHolds, Doomed
<1>8. \A d \in redemptions' : d.reward \notin retyped' => Offers(d.reward, d.kind)
  BY <1>1, <1>2, <1>5, <1>7 DEF CatalogueHolds
<1>9. \A s \in Requests : target[s] \notin retyped' =>
         /\ pc'[s] = "redeem" => Offers(target[s], copy'[s].kind)
         /\ pc'[s] = "remove" => RedemptionsOf(target[s])' = {}
  <2> SUFFICES ASSUME NEW s \in Requests, target[s] \notin retyped'
               PROVE  /\ pc'[s] = "redeem" => Offers(target[s], copy'[s].kind)
                      /\ pc'[s] = "remove" => RedemptionsOf(target[s])' = {}
    OBVIOUS
  <2>1. target'[s] = target[s]
    BY <1>1
  <2>2. target[s] # x => RedemptionsOf(target[s])' = RedemptionsOf(target[s])
    BY <1>1, <1>5, <2>1 DEF RedemptionsOf
  <2> QED BY <1>2, <1>4, <1>7, <2>2 DEF CatalogueHolds
<1>10. CatalogueHolds'
  <2>1. UNCHANGED <<rewards, target>>
    BY <1>1
  <2>2. \A w \in rewards : w.id \in Requests => pc'[w.id] = "done"
    BY <1>1, <1>2, <1>4 DEF CatalogueHolds
  <2> QED BY <1>2, <1>6, <1>8, <1>9, <2>1, <2>2 DEF CatalogueHolds
<1>11. rewards' \subseteq Reward /\ redemptions' \subseteq Redemption
  BY <1>1, <1>2, <1>5 DEF DataOK
<1> QED BY <1>1, <1>2, <1>3, <1>10, <1>11, CatalogueIsWritten DEF Recorded

-----------------------------------------------------------------------------
(* Milestones *)

\* Which milestone a request passes, and of whom.
LEMMA MilestoneIs ==
    ASSUME SettingsInv, NEW r \in Requests, pc[r] \in {"passSignup", "passLocation", "passFirst"}
    PROVE  /\ pc[r] = "passSignup" => MilestoneAt(r) = "signup"
           /\ pc[r] = "passLocation" => MilestoneAt(r) = "location"
           /\ pc[r] = "passFirst" =>
                 /\ MilestoneAt(r) \in {"staff", "device", "scan"}
                 /\ req[r].op = "invite" => MilestoneAt(r) = "staff"
                 /\ req[r].op \in {"complete", "purchase"} => MilestoneAt(r) = "scan"
           /\ pc[r] = "passFirst" <=> req[r].op # "signup"
           /\ Subject(r) \in Existing
<1>1. /\ pc[r] = "passSignup" => MilestoneAt(r) = "signup"
      /\ pc[r] = "passLocation" => MilestoneAt(r) = "location"
  <2>1. pc[r] = "passSignup" /\ req[r].op = "signup" => MilestoneAt(r) = "signup"
    BY Zenon DEF MilestoneAt
  <2>2. pc[r] = "passLocation" /\ req[r].op = "signup" => MilestoneAt(r) = "location"
    BY Zenon DEF MilestoneAt
  <2>3. Fits(req[r].op, pc[r])
    BY DEF SettingsInv, InOrder
  <2> QED BY <2>1, <2>2, <2>3 DEF Fits
<1>2. /\ pc[r] = "passFirst" /\ req[r].op = "invite" => MilestoneAt(r) = "staff"
      /\ pc[r] = "passFirst" /\ req[r].op = "device" => MilestoneAt(r) = "device"
  <2>1. pc[r] = "passFirst" /\ req[r].op = "invite" => MilestoneAt(r) = "staff"
    BY Zenon DEF MilestoneAt
  <2>2. pc[r] = "passFirst" /\ req[r].op = "device" => MilestoneAt(r) = "device"
    BY Zenon DEF MilestoneAt
  <2> QED BY <2>1, <2>2
<1>3. /\ pc[r] = "passFirst" /\ req[r].op = "complete" => MilestoneAt(r) = "scan"
      /\ pc[r] = "passFirst" /\ req[r].op = "purchase" => MilestoneAt(r) = "scan"
  <2>1. pc[r] = "passFirst" /\ req[r].op = "complete" => MilestoneAt(r) = "scan"
    BY Zenon DEF MilestoneAt
  <2>2. pc[r] = "passFirst" /\ req[r].op = "purchase" => MilestoneAt(r) = "scan"
    BY Zenon DEF MilestoneAt
  <2> QED BY <2>1, <2>2
<1>4. Fits(req[r].op, pc[r])
  BY DEF SettingsInv, InOrder
<1>5. Subject(r) \in Existing
  BY <1>4 DEF SettingsInv, InOrder, Fits, Subject, Own
<1> QED BY <1>1, <1>2, <1>3, <1>4, <1>5 DEF Fits

\* What a step that writes a merchant's funnel leaves alone.
LEMMA FunnelIsWritten ==
    ASSUME SettingsInv, NEW r \in Requests, NEW to, NEW c, Moves(r, to, c),
           pc[r] \in {"passSignup", "passLocation", "passFirst", "times"},
           to \in {"passLocation", "times", "done"},
           UNCHANGED <<collections, locations, crossed, sent, taken, contested, muddled, retyped>>,
           funnel' \in [Tenants -> [passed: Passed, times: Spans]], MilestonesHold'
    PROVE  SettingsInv'
<1>1. DataOK /\ ControlOK /\ InOrder /\ ListsHold /\ ProgrammeHolds /\ CatalogueHolds
      /\ MilestonesHold /\ MapHolds
  BY DEF SettingsInv, TypeOK
<1>2. UNCHANGED <<tenants, users, rulesets, rewards, redemptions, asking>>
  BY DEF collections
<1>3. Existing' = Existing
  BY <1>2 DEF Existing
<1>4. DataOK' /\ Orders(r, to)
  BY <1>1, <1>2, <1>3 DEF DataOK, Orders, InOrder
<1>5. SparesCatalogue(to) /\ SparesMap(r, to) /\ SparesLists(r, to, c) /\ SparesProgramme(r, to, c)
  BY <1>1, <1>2, Quiet DEF TenantRead, Configuring
<1> QED BY <1>1, <1>4, <1>5, WhereTheyAre, OrderKept, ListsKept, ProgrammeKept,
           CatalogueKept, MapKept DEF SettingsInv, TypeOK

\* The milestone is passed, and what took no time before takes none yet.
LEMMA PassMilestoneKeeps ==
    ASSUME SettingsInv, NEW r \in Requests, PassMilestone(r)
    PROVE  SettingsInv'
<1> DEFINE t == Subject(r)
           m0 == MilestoneAt(r)
           passed == [funnel[t].passed EXCEPT ![m0] = r]
           early == passed["signup"] = Nothing \/ \A m \in Milestones \ {"signup"} : passed[m] = Nothing
<1>1. /\ pc[r] \in {"passSignup", "passLocation", "passFirst"}
      /\ funnel' = [funnel EXCEPT ![t].passed = passed]
      /\ IF early THEN Finish(r, AfterTimes(r, passed))
                  ELSE Goto(r, "times") /\ copy' = [copy EXCEPT ![r] = passed]
      /\ tangled' = IF \E s \in Requests \ {r} : pc[s] \in Tracking /\ Subject(s) = t
                    THEN tangled \cup {t} ELSE tangled
      /\ UNCHANGED <<collections, locations, req, target>>
      /\ UNCHANGED <<crossed, sent, taken, contested, muddled, retyped>>
  BY DEF PassMilestone, history
<1>2. DataOK /\ ControlOK /\ InOrder /\ MilestonesHold
  BY DEF SettingsInv, TypeOK
<1>3. /\ pc[r] = "passSignup" => m0 = "signup"
      /\ pc[r] = "passLocation" => m0 = "location"
      /\ pc[r] = "passFirst" => m0 \in {"staff", "device", "scan"}
      /\ pc[r] = "passFirst" /\ req[r].op = "invite" => m0 = "staff"
      /\ pc[r] = "passFirst" /\ req[r].op \in {"complete", "purchase"} => m0 = "scan"
      /\ pc[r] = "passFirst" <=> req[r].op # "signup"
      /\ t \in Existing
  BY <1>1, MilestoneIs
<1>4. t \in Tenants /\ m0 \in Milestones /\ funnel[t].passed \in Passed /\ funnel[t].times \in Spans
      /\ r \in Tenants /\ r # Nothing
  BY <1>1, <1>2, <1>3, SettingsNamesAssumption DEF Existing, Milestones, DataOK, Tenants
<1>5. /\ passed \in Passed /\ passed[m0] = r
      /\ \A m \in Milestones \ {m0} : passed[m] = funnel[t].passed[m]
  BY <1>4 DEF Passed
<1>6. (req[r].op = "signup" => t = r) /\ (req[r].op # "signup" => t = target[r])
  BY DEF Subject
<1> HIDE DEF t, m0, passed
<1>7. /\ funnel' \in [Tenants -> [passed: Passed, times: Spans]]
      /\ funnel'[t].passed = passed /\ funnel'[t].times = funnel[t].times
      /\ \A u \in Tenants \ {t} : funnel'[u] = funnel[u]
  BY <1>1, <1>2, <1>4, <1>5 DEF DataOK
<1>8. req[r].op = "signup" => SignedUp(r, pc[r]) /\ pc[r] \in {"passSignup", "passLocation"}
  BY <1>1, <1>2, <1>3 DEF MilestonesHold
<1>9. PICK to \in {"passLocation", "times", "done"}, c \in {Nothing, passed} :
        /\ Goto(r, to) /\ copy' = [copy EXCEPT ![r] = c]
        /\ IF early THEN c = Nothing /\ to = AfterTimes(r, passed) ELSE c = passed /\ to = "times"
  BY <1>1 DEF Finish, AfterTimes
<1>10. /\ pc[r] = "passSignup" => to \in {"passLocation", "times"}
       /\ pc[r] = "passLocation" => to \in {"times", "done"}
       /\ pc[r] = "passFirst" => to \in {"times", "done"}
       /\ to = "times" => c = passed
       /\ to # "times" => early
  <2>1. pc[r] = "passSignup" => passed["location"] = Nothing
    BY <1>3, <1>5, <1>6, <1>8 DEF SignedUp, Milestones
  <2>2. pc[r] = "passLocation" => passed["location"] # Nothing
    BY <1>3, <1>4, <1>5
  <2> QED BY <1>1, <1>3, <1>9, <2>1, <2>2 DEF AfterTimes
<1> HIDE DEF early
<1>11. Moves(r, to, c)
  <2>1. Carries(to, c)
    BY <1>5, <1>9, <1>10 DEF Carries, Copies, TenantRead
  <2>2. Fits(req[r].op, to)
    BY <1>1, <1>2, <1>3, <1>10 DEF InOrder, Fits
  <2> QED BY <1>1, <1>9, <2>1, <2>2 DEF Moves, Labels, Resting
<1>12. /\ pc'[r] = to /\ \A s \in Requests \ {r} : pc'[s] = pc[s]
       /\ copy'[r] = c /\ \A s \in Requests \ {r} : copy'[s] = copy[s]
  BY <1>2, <1>11, WhereTheyAre
<1>13. \A s \in Requests : Subject(s)' = Subject(s)
  BY <1>1 DEF Subject
<1>14. \A u \in Tenants \ {t} : NoTimesAhead(u)' = NoTimesAhead(u) /\ TimesFit(u)' = TimesFit(u)
  BY <1>7 DEF NoTimesAhead, TimesFit
<1>15. t \notin tangled' => /\ t \notin tangled /\ TimesFit(t)
                            /\ \A s \in Requests \ {r} : pc[s] = "times" => Subject(s) # t
  <2> SUFFICES ASSUME t \notin tangled'
               PROVE  /\ t \notin tangled /\ TimesFit(t)
                      /\ \A s \in Requests \ {r} : pc[s] = "times" => Subject(s) # t
    OBVIOUS
  <2>1. t \notin tangled /\ \A s \in Requests \ {r} : pc[s] = "times" => Subject(s) # t
    BY <1>1 DEF Tracking
  <2> QED BY <1>1, <1>2, <1>4, <2>1 DEF MilestonesHold
<1>16. TimesFit(t) => NoTimesAhead(t)' /\ (early => TimesFit(t)')
  <2> SUFFICES ASSUME TimesFit(t) PROVE NoTimesAhead(t)' /\ (early => TimesFit(t)')
    OBVIOUS
  <2>1. t' = t
    BY <1>13 DEF t
  <2>2. \A m \in Milestones \ {"signup"} :
           /\ Nothing \in {passed["signup"], passed[m]} =>
                 Nothing \in {funnel[t].passed["signup"], funnel[t].passed[m]}
           /\ early => Nothing \in {passed["signup"], passed[m]}
    BY <1>4, <1>5 DEF early, Milestones
  <2>3. \A m \in Milestones \ {"signup"} :
           Nothing \in {passed["signup"], passed[m]} => funnel[t].times[m] = Nothing
    BY <2>2 DEF TimesFit
  <2>4. funnel'[t].passed = passed /\ funnel'[t].times = funnel[t].times
    BY <1>7
  <2> QED BY <2>1, <2>2, <2>3, <2>4 DEF TimesFit, NoTimesAhead
<1>17. (\A u \in Tenants \ tangled :
          /\ \A s \in Requests :
                pc[s] = "times" /\ Subject(s) = u => copy[s] = funnel[u].passed /\ NoTimesAhead(u)
          /\ (\A s \in Requests : pc[s] = "times" => Subject(s) # u) => TimesFit(u))'
  <2> SUFFICES ASSUME NEW u \in Tenants, u \notin tangled'
               PROVE  /\ \A s \in Requests : pc'[s] = "times" /\ Subject(s) = u =>
                            copy'[s] = funnel'[u].passed /\ NoTimesAhead(u)'
                      /\ (\A s \in Requests : pc'[s] = "times" => Subject(s) # u) => TimesFit(u)'
    BY <1>13
  <2>1. u \notin tangled
    BY <1>1
  <2>2. CASE u # t
    <3>1. \A s \in Requests : Subject(s) = u => s # r
      BY <2>2 DEF t
    <3> QED BY <1>2, <1>7, <1>12, <1>14, <2>1, <2>2, <3>1 DEF MilestonesHold, t
  <2>3. CASE u = t
    <3>1. TimesFit(u) /\ \A s \in Requests : pc'[s] = "times" /\ Subject(s) = u => s = r
      BY <1>12, <1>15, <2>3
    <3>2. NoTimesAhead(t)' /\ (early => TimesFit(t)')
      BY <1>15, <1>16, <2>3
    <3>3. Subject(r) = t /\ t' = t
      BY <1>13 DEF t
    <3>4. NoTimesAhead(u)' /\ (early => TimesFit(u)')
      BY <2>3, <3>2, <3>3 DEF NoTimesAhead, TimesFit
    <3> QED BY <1>7, <1>10, <1>12, <2>3, <3>1, <3>3, <3>4
  <2> QED BY <2>2, <2>3
<1>18. \A u \in Tenants, m \in Milestones :
          funnel[u].passed[m] # Nothing => funnel'[u].passed[m] # Nothing
  BY <1>4, <1>5, <1>7
<1>19. (\A s \in Requests : pc[s] \in {"times", "done"} => Recorded(s))'
  <2> SUFFICES ASSUME NEW s \in Requests, pc'[s] \in {"times", "done"} PROVE Recorded(s)'
    OBVIOUS
  <2>1. CASE s = r
    BY <1>1, <1>3, <1>4, <1>5, <1>6, <1>7, <1>10, <1>12, <2>1 DEF Recorded
  <2>2. CASE s # r
    <3>1. Recorded(s) /\ pc[s] \in {"times", "done"}
      BY <1>2, <1>12, <2>2 DEF MilestonesHold, Recorded
    <3>2. req[s].op \in Own => target[s] \in Tenants
      BY <1>2, <3>1 DEF InOrder, Existing
    <3> QED BY <1>1, <1>18, <3>1, <3>2 DEF Recorded, Own, Milestones
  <2> QED BY <2>1, <2>2
<1>20. (\A s \in Requests : pc[s] = "idle" \/ req[s].op = "signup" => SignedUp(s, pc[s]))'
  <2> SUFFICES ASSUME NEW s \in Requests, pc'[s] = "idle" \/ req[s].op = "signup"
               PROVE  SignedUp(s, pc[s])'
    BY <1>1
  <2>1. CASE s = r
    <3>1. req[r].op = "signup" /\ t = r /\ SignedUp(r, pc[r]) /\ r \in Tenants
      BY <1>4, <1>6, <1>8, <1>12, <2>1
    <3>2. PassedBy(r)' = PassedBy(r) \cup {m0} /\ funnel'[r].passed = passed
      BY <1>4, <1>5, <1>7, <3>1 DEF PassedBy
    <3>3. r \in locations' /\ <<r, req'[r].value>> \in users'
      BY <1>1, <1>8, <3>1 DEF SignedUp, collections
    <3>4. CASE pc[r] = "passSignup"
      <4>1. PassedBy(r)' = {"signup"} /\ passed["location"] = Nothing
        BY <1>3, <1>5, <3>1, <3>2, <3>4 DEF SignedUp, Milestones
      <4> QED BY <1>10, <1>12, <2>1, <3>3, <3>4, <4>1 DEF SignedUp
    <3>5. CASE pc[r] = "passLocation"
      <4>1. PassedBy(r)' = {"signup", "location"} /\ passed["location"] # Nothing
        BY <1>3, <1>4, <1>5, <3>1, <3>2, <3>5 DEF SignedUp
      <4> QED BY <1>10, <1>12, <2>1, <3>3, <3>5, <4>1 DEF SignedUp
    <3> QED BY <1>8, <3>1, <3>4, <3>5
  <2>2. CASE s # r
    <3>1. SignedUp(s, pc[s]) /\ pc'[s] = pc[s] /\ copy'[s] = copy[s] /\ s \in Tenants
      BY <1>1, <1>2, <1>12, <2>2 DEF MilestonesHold, Tenants
    <3>2. locations' = locations /\ users' = users /\ req' = req
      BY <1>1 DEF collections
    <3>3. CASE s # t
      <4>1. funnel'[s] = funnel[s]
        BY <1>7, <3>1, <3>3
      <4> QED BY <3>1, <3>2, <4>1 DEF SignedUp, PassedBy
    <3>4. CASE s = t
      <4>1. m0 \in {"staff", "device", "scan"}
        BY <1>1, <1>3, <1>6, <2>2, <3>4
      <4>2. /\ funnel'[s].passed["signup"] = funnel[s].passed["signup"]
            /\ funnel'[s].passed["location"] = funnel[s].passed["location"]
        BY <1>5, <1>7, <3>4, <4>1 DEF Milestones
      <4>3. m0 \notin PassedBy(s) => PassedBy(s)' = PassedBy(s)
        BY <1>4, <1>5, <1>7, <2>2, <3>4 DEF PassedBy
      <4>4. PassedBy(s) \subseteq {"signup", "location"} => PassedBy(s)' = PassedBy(s)
        BY <4>1, <4>3
      <4> QED BY <3>1, <3>2, <4>2, <4>4 DEF SignedUp
    <3> QED BY <3>3, <3>4
  <2> QED BY <2>1, <2>2
<1>21. MilestonesHold'
  BY <1>17, <1>19, <1>20 DEF MilestonesHold, Recorded
<1> QED BY <1>1, <1>7, <1>11, <1>21, FunnelIsWritten

\* The times become those between the milestones that were answered.
LEMMA WriteTimesKeeps ==
    ASSUME SettingsInv, NEW r \in Requests, WriteTimes(r)
    PROVE  SettingsInv'
<1> DEFINE t == Subject(r)
           times == Timed(funnel[t].times, copy[r])
           to == AfterTimes(r, copy[r])
<1>1. /\ pc[r] = "times" /\ funnel' = [funnel EXCEPT ![t].times = times] /\ Finish(r, to)
      /\ UNCHANGED <<collections, locations, tangled, req, target>>
      /\ UNCHANGED <<crossed, sent, taken, contested, muddled, retyped>>
  BY DEF WriteTimes, history
<1>2. DataOK /\ ControlOK /\ InOrder /\ MilestonesHold
  BY DEF SettingsInv, TypeOK
<1>3. /\ to \in {"passLocation", "done"} /\ (to = "passLocation" => req[r].op = "signup")
      /\ req[r].op = "signup" => (to = "passLocation" <=> copy[r]["location"] = Nothing)
  BY DEF AfterTimes
<1>4. t \in Tenants
  BY <1>1, <1>2 DEF InOrder, Fits, Subject, Own, Existing, Tenants
<1>5. copy[r] \in Passed /\ funnel[t].times \in Spans
  BY <1>1, <1>2, <1>4 DEF ControlOK, DataOK
<1>6. /\ times \in Spans
      /\ \A m \in Milestones \ {"signup"} :
            times[m] = IF copy[r]["signup"] = Nothing \/ copy[r][m] = Nothing THEN funnel[t].times[m]
                       ELSE <<copy[r]["signup"], copy[r][m]>>
  <2>1. \A m \in Milestones : copy[r][m] \in Tenants \cup {Nothing}
    BY <1>5 DEF Passed
  <2>2. \A m \in Milestones \ {"signup"} : funnel[t].times[m] \in (Tenants \X Tenants) \cup {Nothing}
    BY <1>5 DEF Spans
  <2> QED BY <2>1, <2>2 DEF Timed, Spans, Milestones
<1> HIDE DEF t, times, to
<1>7. /\ funnel' \in [Tenants -> [passed: Passed, times: Spans]]
      /\ funnel'[t].times = times /\ \A u \in Tenants : funnel'[u].passed = funnel[u].passed
      /\ \A u \in Tenants \ {t} : funnel'[u] = funnel[u]
  BY <1>1, <1>2, <1>4, <1>6 DEF DataOK
<1>8. Moves(r, to, Nothing)
  BY <1>1, <1>3 DEF Finish, Moves, Carries, Copies, Labels, Resting, TenantRead, Fits
<1>9. /\ pc'[r] = to /\ \A s \in Requests \ {r} : pc'[s] = pc[s]
      /\ \A s \in Requests \ {r} : copy'[s] = copy[s]
  BY <1>2, <1>8, WhereTheyAre
<1>10. \A s \in Requests : Subject(s)' = Subject(s)
  BY <1>1 DEF Subject
<1>11. \A u \in Tenants \ {t} : NoTimesAhead(u)' = NoTimesAhead(u) /\ TimesFit(u)' = TimesFit(u)
  BY <1>7 DEF NoTimesAhead, TimesFit
<1>12. \A u \in Tenants : u = t /\ u \notin tangled => NoTimesAhead(u)' /\ TimesFit(u)'
  <2> SUFFICES ASSUME NEW u \in Tenants, u = t, u \notin tangled PROVE NoTimesAhead(u)' /\ TimesFit(u)'
    OBVIOUS
  <2>1. copy[r] = funnel[u].passed /\ NoTimesAhead(u)
    BY <1>1, <1>2 DEF MilestonesHold, t
  <2>2. funnel'[u].times = times /\ funnel'[u].passed = funnel[u].passed
    BY <1>7
  <2> QED BY <1>6, <2>1, <2>2 DEF NoTimesAhead, TimesFit
<1>13. (\A u \in Tenants \ tangled :
          /\ \A s \in Requests :
                pc[s] = "times" /\ Subject(s) = u => copy[s] = funnel[u].passed /\ NoTimesAhead(u)
          /\ (\A s \in Requests : pc[s] = "times" => Subject(s) # u) => TimesFit(u))'
  <2> SUFFICES ASSUME NEW u \in Tenants \ tangled
               PROVE  /\ \A s \in Requests : pc'[s] = "times" /\ Subject(s) = u =>
                            copy'[s] = funnel'[u].passed /\ NoTimesAhead(u)'
                      /\ (\A s \in Requests : pc'[s] = "times" => Subject(s) # u) => TimesFit(u)'
    BY <1>1, <1>10
  <2>1. \A s \in Requests : pc'[s] = "times" => s # r /\ pc[s] = "times" /\ copy'[s] = copy[s]
    BY <1>3, <1>9
  <2>2. CASE u # t
    <3>1. \A s \in Requests : pc[s] = "times" /\ s = r => Subject(s) # u
      BY <2>2 DEF t
    <3> QED BY <1>2, <1>7, <1>9, <1>11, <2>1, <2>2, <3>1 DEF MilestonesHold
  <2>3. CASE u = t
    BY <1>2, <1>7, <1>12, <2>1, <2>3 DEF MilestonesHold
  <2> QED BY <2>2, <2>3
<1>14. (\A s \in Requests : pc[s] \in {"times", "done"} => Recorded(s))'
  <2> SUFFICES ASSUME NEW s \in Requests, pc'[s] \in {"times", "done"} PROVE Recorded(s)'
    OBVIOUS
  <2>1. Recorded(s) /\ pc[s] \in {"times", "done"}
    BY <1>1, <1>2, <1>9 DEF MilestonesHold, Recorded
  <2>2. req[s].op \in Own => target[s] \in Tenants
    BY <1>2, <2>1 DEF InOrder, Existing
  <2> QED BY <1>1, <1>7, <2>1, <2>2 DEF Recorded, Own
<1>15. (\A s \in Requests : pc[s] = "idle" \/ req[s].op = "signup" => SignedUp(s, pc[s]))'
  <2> SUFFICES ASSUME NEW s \in Requests, pc'[s] = "idle" \/ req[s].op = "signup"
               PROVE  SignedUp(s, pc[s])'
    BY <1>1
  <2>1. funnel'[s].passed = funnel[s].passed /\ PassedBy(s)' = PassedBy(s)
        /\ locations' = locations /\ users' = users /\ req' = req
    BY <1>1, <1>7 DEF PassedBy, Tenants, collections
  <2>2. CASE s = r
    <3>1. SignedUp(r, "times") /\ req[r].op = "signup"
      BY <1>1, <1>2, <1>3, <1>9, <2>2 DEF MilestonesHold
    <3> QED BY <1>3, <1>9, <2>1, <2>2, <3>1 DEF SignedUp
  <2>3. CASE s # r
    BY <1>1, <1>2, <1>9, <2>1, <2>3 DEF MilestonesHold, SignedUp
  <2> QED BY <2>2, <2>3
<1>16. MilestonesHold'
  BY <1>13, <1>14, <1>15 DEF MilestonesHold, Recorded
<1> QED BY <1>1, <1>3, <1>7, <1>8, <1>16, FunnelIsWritten

-----------------------------------------------------------------------------
(* Requests that begin *)

\* Requests enter at labels that fit them, where nothing has been read.
LEMMA EntranceFits ==
    ASSUME NEW op \in Ops
    PROVE  /\ Fits(op, Entrance(op))
           /\ Entrance(op) \in {"email", "read", "retire", "member", "find", "count", "offer", "look", "write"}
           /\ op = "signup" => Entrance(op) = "email"
           /\ op = "configure" => Entrance(op) = "retire"
<1>1. op = "signup" => Entrance(op) = "email"
  BY Zenon DEF Entrance
<1>2. op \in {"settings", "merge"} => Entrance(op) = "read"
  <2>1. op = "settings" => Entrance(op) = "read"
    BY Zenon DEF Entrance
  <2>2. op = "merge" => Entrance(op) = "read"
    BY Zenon DEF Entrance
  <2> QED BY <2>1, <2>2
<1>3. op = "configure" => Entrance(op) = "retire"
  BY Zenon DEF Entrance
<1>4. op = "invite" => Entrance(op) = "member"
  BY Zenon DEF Entrance
<1>5. op = "accept" => Entrance(op) = "find"
  BY Zenon DEF Entrance
<1>6. op = "deleteReward" => Entrance(op) = "count"
  BY Zenon DEF Entrance
<1>7. op = "redeem" => Entrance(op) = "offer"
  BY Zenon DEF Entrance
<1>8. op \in {"purchase", "device"} => Entrance(op) = "look"
  <2>1. op = "purchase" => Entrance(op) = "look"
    BY Zenon DEF Entrance
  <2>2. op = "device" => Entrance(op) = "look"
    BY Zenon DEF Entrance
  <2> QED BY <2>1, <2>2
<1>9. op \in {"complete", "addReward", "editReward"} => Entrance(op) = "write"
  <2>1. op = "complete" => Entrance(op) = "write"
    BY Zenon DEF Entrance
  <2>2. op = "addReward" => Entrance(op) = "write"
    BY Zenon DEF Entrance
  <2>3. op = "editReward" => Entrance(op) = "write"
    BY Zenon DEF Entrance
  <2> QED BY <2>1, <2>2, <2>3
<1> QED BY <1>1, <1>2, <1>3, <1>4, <1>5, <1>6, <1>7, <1>8, <1>9 DEF Ops, Fits

\* What a request may be about is there.
LEMMA AboutIsThere ==
    ASSUME DataOK, NEW op \in Ops, NEW x \in About(op)
    PROVE  /\ op \in Own => x \in Existing
           /\ op = "accept" => x \in sent
           /\ op \in OfReward => x \in Requests \cup FirstRewards
           /\ x \in Tenants \cup FirstRewards \cup {Nothing}
<1>1. op \in OfReward => About(op) = {w.id : w \in rewards}
  BY Zenon DEF About, OfReward
<1>2. op = "accept" => About(op) = sent
  BY Zenon DEF About
<1>3. op = "signup" => About(op) = {Nothing}
  BY Zenon DEF About
<1>4. op \notin {"editReward", "deleteReward", "redeem", "accept", "signup"} =>
         About(op) = {t \in Existing : t = Shop \/ \E u \in users : u[1] = t}
  BY Zenon DEF About
<1>5. {w.id : w \in rewards} \subseteq Requests \cup FirstRewards
  BY DEF DataOK, Reward
<1> QED BY <1>1, <1>2, <1>3, <1>4, <1>5 DEF Ops, Own, OfReward, DataOK, Tenants, Existing

\* A request that begins has made nothing yet, and holds nothing.
LEMMA StartKeeps ==
    ASSUME SettingsInv, NEW r \in Requests, NEW i \in Intents, NEW x \in About(i.op), Start(r, i, x)
    PROVE  SettingsInv'
<1> DEFINE l == Entrance(i.op)
<1>1. /\ pc[r] = "idle" /\ req' = [req EXCEPT ![r] = i] /\ target' = [target EXCEPT ![r] = x]
      /\ pc' = [pc EXCEPT ![r] = l]
      /\ UNCHANGED <<tenants, users, rulesets, rewards, redemptions, asking, locations, funnel, tangled>>
      /\ UNCHANGED <<copy, crossed, sent, taken, contested, muddled, retyped>>
  BY DEF Start, Goto, progress, collections, history
<1>2. DataOK /\ ControlOK /\ InOrder /\ ListsHold /\ ProgrammeHolds /\ CatalogueHolds
      /\ MilestonesHold /\ MapHolds
  BY DEF SettingsInv, TypeOK
<1>3. i.op \in Ops /\ Valid(i)
  BY SettingsIntentsAssumption DEF Intent
<1>4. /\ Fits(i.op, l)
      /\ l \in {"email", "read", "retire", "member", "find", "count", "offer", "look", "write"}
      /\ i.op = "signup" => l = "email"
      /\ i.op = "configure" => l = "retire"
  BY <1>3, EntranceFits
<1>5. /\ i.op \in Own => x \in Existing
      /\ i.op = "accept" => x \in sent
      /\ i.op \in OfReward => x \in Requests \cup FirstRewards
      /\ x \in Tenants \cup FirstRewards \cup {Nothing}
  BY <1>2, <1>3, AboutIsThere
<1> HIDE DEF l
<1>6. /\ pc'[r] = l /\ req'[r] = i /\ target'[r] = x
      /\ \A s \in Requests \ {r} : pc'[s] = pc[s] /\ req'[s] = req[s] /\ target'[s] = target[s]
  BY <1>1, <1>2 DEF ControlOK
<1>7. Existing' = Existing /\ r \notin Existing /\ r \notin sent /\ (\A g \in asking : g.by \in Requests \ {r})
  BY <1>1, <1>2 DEF Existing, InOrder, DataOK
<1>8. TypeOK'
  <2>1. DataOK'
    BY <1>1, <1>2, <1>7 DEF DataOK
  <2>2. l \in Labels /\ l \notin TenantRead \cup {"redeem", "times"}
    BY <1>4 DEF Labels, TenantRead
  <2>3. /\ pc' \in [Requests -> Labels] /\ req' \in [Requests -> Intents]
        /\ target' \in [Requests -> Tenants \cup FirstRewards \cup {Nothing}]
    BY <1>1, <1>2, <1>5, <2>2 DEF ControlOK
  <2> QED BY <1>1, <1>2, <1>6, <2>1, <2>2, <2>3 DEF TypeOK, ControlOK
<1>9. InOrder'
  <2>1. (\A s \in Requests :
           /\ Fits(req[s].op, pc[s])
           /\ pc[s] # "idle" =>
                 /\ req[s].op \in Own => target[s] \in Existing
                 /\ req[s].op = "accept" => target[s] \in sent
                 /\ req[s].op \in OfReward => target[s] \in Requests \cup FirstRewards
           /\ pc[s] \in {"idle", "email", "tenant"} => s \notin Existing
           /\ req[s].op = "signup" /\ pc[s] \notin {"idle", "email", "tenant", "failed"} => s \in Existing
           /\ req[s].op = "configure" /\ pc[s] = "write" => req[s].value \in Kinds)'
    <3> SUFFICES ASSUME NEW s \in Requests
                 PROVE (/\ Fits(req[s].op, pc[s])
                        /\ pc[s] # "idle" =>
                              /\ req[s].op \in Own => target[s] \in Existing
                              /\ req[s].op = "accept" => target[s] \in sent
                              /\ req[s].op \in OfReward => target[s] \in Requests \cup FirstRewards
                        /\ pc[s] \in {"idle", "email", "tenant"} => s \notin Existing
                        /\ req[s].op = "signup" /\ pc[s] \notin {"idle", "email", "tenant", "failed"} =>
                              s \in Existing
                        /\ req[s].op = "configure" /\ pc[s] = "write" => req[s].value \in Kinds)'
      OBVIOUS
    <3>1. sent' = sent
      BY <1>1
    <3>2. CASE s = r
      BY <1>4, <1>5, <1>6, <1>7, <3>1, <3>2 DEF Fits
    <3>3. CASE s # r
      BY <1>2, <1>6, <1>7, <3>1, <3>3 DEF InOrder, Fits
    <3> QED BY <3>2, <3>3
  <2>2. \A k \in sent : req'[k].op = "invite" /\ pc'[k] \notin {"idle", "member", "list", "push"}
    BY <1>2, <1>6, <1>7 DEF InOrder, DataOK
  <2>3. \A g \in asking : g.tenant \in Existing /\ pc'[g.by] \notin {"idle", "read"}
    BY <1>2, <1>6, <1>7 DEF InOrder
  <2> QED BY <1>1, <1>7, <2>1, <2>2, <2>3 DEF InOrder
<1>10. ListsHold'
  <2>1. \A s \in Requests, t \in Tenants : Holds(s, t)' => Holds(s, t)
    <3> SUFFICES ASSUME NEW s \in Requests, NEW t \in Tenants, Holds(s, t)' PROVE Holds(s, t)
      OBVIOUS
    <3>1. s # r
      BY <1>4, <1>6 DEF Holds
    <3>2. pc[s] \in {"invitee", "join", "drop"} => target[s] \in sent
      BY <1>2 DEF InOrder, Fits
    <3>3. pc[s] \in {"invitee", "join", "drop"} => target'[target'[s]] = target[target[s]]
      BY <1>2, <1>6, <1>7, <3>1, <3>2 DEF DataOK
    <3> QED BY <1>6, <3>1, <3>3 DEF Holds
  <2>2. \A k \in sent : target'[k] = target[k] /\ target[k] \in Tenants
    BY <1>2, <1>6, <1>7 DEF DataOK, InOrder, Own, Existing
  <2>3. \A t \in Existing : \A k \in tenants[t].config.invites : k \in sent /\ target'[k] = t
    BY <1>2, <2>2 DEF ListsHold
  <2>4. \A s \in Requests, t \in Tenants :
           Holds(s, t)' => \A k \in copy[s].config.invites : k \in sent /\ target'[k] = t
    BY <1>2, <2>1, <2>2 DEF ListsHold
  <2>5. \A k \in sent \ contested, t \in Tenants : target[k] = t =>
           /\ Listed(k, tenants[t].config.invites)
           /\ \A s \in Requests : Holds(s, t)' => Listed(k, copy[s].config.invites)
    BY <1>2, <2>1 DEF ListsHold
  <2>6. \A k \in sent \ contested, t \in Tenants : target'[k] = t =>
           /\ Listed(k, tenants[t].config.invites)
           /\ \A s \in Requests : Holds(s, t)' => Listed(k, copy[s].config.invites)
    BY <2>2, <2>5
  <2>7. \A k, list : Listed(k, list)' <=> Listed(k, list)
    BY <1>1 DEF Listed
  <2>8. \A k \in sent : target'[k] \in Tenants
    BY <2>2
  <2> QED BY <1>1, <1>7, <2>3, <2>4, <2>6, <2>7, <2>8 DEF ListsHold
<1>11. ProgrammeHolds'
  <2>1. \A s \in Requests : Configures(s)' <=> Configures(s)
    BY <1>1, <1>4, <1>6 DEF Configures, Configuring
  <2>2. InForce(Shop)' = InForce(Shop)
    BY <1>1 DEF InForce
  <2>3. \A s \in Requests : pc'[s] \in {"rule", "loyalty", "save"} =>
           s # r /\ pc'[s] = pc[s] /\ req'[s] = req[s] /\ target'[s] = target[s]
    BY <1>4, <1>6
  <2>4. UNCHANGED <<rulesets, muddled, tenants, copy>>
    BY <1>1
  <2> QED BY <1>2, <2>1, <2>2, <2>3, <2>4 DEF ProgrammeHolds
<1>12. CatalogueHolds'
  BY <1>1, <1>2, <1>4, <1>6 DEF CatalogueHolds, Offers, RedemptionsOf
<1>13. MilestonesHold'
  <2>1. \A s \in Requests \ {r} : Subject(s)' = Subject(s)
    BY <1>6 DEF Subject
  <2>2. \A t \in Tenants : NoTimesAhead(t)' = NoTimesAhead(t) /\ TimesFit(t)' = TimesFit(t)
    BY <1>1 DEF NoTimesAhead, TimesFit
  <2>3. \A s \in Requests : pc'[s] \in {"times", "done"} => s # r /\ pc'[s] = pc[s]
    BY <1>4, <1>6
  <2>4. (\A t \in Tenants \ tangled :
           /\ \A s \in Requests :
                 pc[s] = "times" /\ Subject(s) = t => copy[s] = funnel[t].passed /\ NoTimesAhead(t)
           /\ (\A s \in Requests : pc[s] = "times" => Subject(s) # t) => TimesFit(t))'
    BY <1>1, <1>2, <1>6, <2>1, <2>2, <2>3 DEF MilestonesHold
  <2>5. (\A s \in Requests : pc[s] \in {"times", "done"} => Recorded(s))'
    BY <1>1, <1>2, <1>6, <2>3 DEF MilestonesHold, Recorded
  <2>6. (\A s \in Requests : pc[s] = "idle" \/ req[s].op = "signup" => SignedUp(s, pc[s]))'
    <3> SUFFICES ASSUME NEW s \in Requests, pc'[s] = "idle" \/ req'[s].op = "signup"
                 PROVE  SignedUp(s, pc[s])'
      OBVIOUS
    <3>1. CASE s = r
      BY <1>1, <1>2, <1>4, <1>6, <3>1 DEF MilestonesHold, SignedUp, PassedBy
    <3>2. CASE s # r
      BY <1>1, <1>2, <1>6, <3>2 DEF MilestonesHold, SignedUp, PassedBy
    <3> QED BY <3>1, <3>2
  <2> QED BY <2>4, <2>5, <2>6 DEF MilestonesHold, Recorded
<1>14. MapHolds'
  <2>1. \A s \in Requests \ {r} : ChangesAddress(s)' = ChangesAddress(s)
    BY <1>6 DEF ChangesAddress
  <2>2. SUFFICES ASSUME NEW t \in Existing \ crossed PROVE MapAt(t)'
    BY <1>1, <1>7 DEF MapHolds
  <2>3. MapAt(t)
    BY <1>2 DEF MapHolds
  <2>4. \A s \in Requests : pc'[s] = "save" => s # r
    BY <1>4, <1>6
  <2>5. UNCHANGED <<tenants, asking, copy>>
    BY <1>1
  <2> QED BY <1>6, <1>7, <2>1, <2>3, <2>4, <2>5 DEF MapAt
<1> QED BY <1>8, <1>9, <1>10, <1>11, <1>12, <1>13, <1>14 DEF SettingsInv

-----------------------------------------------------------------------------
(* The invariant *)

\* At the start there is one merchant, on the map where it is, with a programme
\* and its first two milestones.
LEMMA InitHolds == Init => SettingsInv
<1> SUFFICES ASSUME Init PROVE SettingsInv
  OBVIOUS
<1> DEFINE shop == [NewTenant(Home) EXCEPT !.config.status = "resolved", !.config.formatted = Home,
                                          !.config.flat = Home, !.place = Home]
           first == [id |-> Shop, tenant |-> Shop, type |-> "points", open |-> TRUE]
<1>1. /\ tenants = [t \in Tenants |-> IF t # Shop THEN Nothing ELSE shop]
      /\ users = {} /\ redemptions = {} /\ asking = {} /\ locations = {Shop} /\ tangled = {}
      /\ rulesets = {first} /\ rewards = {[id |-> w, kind |-> "stamps"] : w \in FirstRewards}
      /\ pc = [r \in Requests |-> "idle"] /\ req \in [Requests -> Intents]
      /\ target = [r \in Requests |-> Nothing] /\ copy = [r \in Requests |-> Nothing]
      /\ crossed = {} /\ sent = {} /\ taken = {} /\ contested = {} /\ muddled = {} /\ retyped = {}
  BY SettingsIntentsAssumption DEF Init
<1>2. /\ shop \in Tenant /\ MapSound(shop) /\ shop.config.invites = {} /\ shop.config.loyalty = "points"
  BY SettingsNamesAssumption DEF NewTenant, Tenant, Config, Statuses, Types, MapSound
<1>3. Shop \in Tenants /\ shop # Nothing /\ Shop # Nothing /\ Nothing \notin Requests
  BY <1>2, SettingsNamesAssumption DEF Tenants
<1> HIDE DEF shop
<1>4. Existing = {Shop} /\ tenants[Shop] = shop
  BY <1>1, <1>3 DEF Existing
<1>5. \A t \in Tenants :
         /\ funnel[t].passed = [m \in Milestones |-> IF t = Shop /\ m \in {"signup", "location"}
                                                     THEN Shop ELSE Nothing]
         /\ funnel[t].times = Timed([m \in Milestones \ {"signup"} |-> Nothing], funnel[t].passed)
         /\ funnel[t] = [passed |-> funnel[t].passed, times |-> funnel[t].times]
  BY DEF Init
<1>6. \A t \in Tenants :
         /\ funnel[t].passed \in Passed
         /\ \A m \in Milestones : funnel[t].passed[m] \in {Shop, Nothing}
         /\ t # Shop => \A m \in Milestones : funnel[t].passed[m] = Nothing
  <2> SUFFICES ASSUME NEW t \in Tenants
               PROVE  /\ funnel[t].passed \in Passed
                      /\ \A m \in Milestones : funnel[t].passed[m] \in {Shop, Nothing}
                      /\ t # Shop => \A m \in Milestones : funnel[t].passed[m] = Nothing
    OBVIOUS
  <2> DEFINE p == funnel[t].passed
  <2>1. p = [m \in Milestones |-> IF t = Shop /\ m \in {"signup", "location"} THEN Shop ELSE Nothing]
    BY <1>5
  <2> HIDE DEF p
  <2>2. p \in Passed /\ \A m \in Milestones : p[m] \in {Shop, Nothing} /\ (t # Shop => p[m] = Nothing)
    BY <1>3, <2>1 DEF Passed
  <2> QED BY <2>2 DEF p
<1>7. \A t \in Tenants :
         /\ funnel[t].times \in Spans
         /\ \A m \in Milestones \ {"signup"} :
               funnel[t].times[m] = IF funnel[t].passed["signup"] = Nothing \/ funnel[t].passed[m] = Nothing
                                    THEN Nothing ELSE <<funnel[t].passed["signup"], funnel[t].passed[m]>>
  <2> SUFFICES ASSUME NEW t \in Tenants
               PROVE  /\ funnel[t].times \in Spans
                      /\ \A m \in Milestones \ {"signup"} :
                            funnel[t].times[m] =
                                IF funnel[t].passed["signup"] = Nothing \/ funnel[t].passed[m] = Nothing
                                THEN Nothing ELSE <<funnel[t].passed["signup"], funnel[t].passed[m]>>
    OBVIOUS
  <2> DEFINE old == [m \in Milestones \ {"signup"} |-> Nothing]
             p == funnel[t].passed
             times == funnel[t].times
  <2>1. times = Timed(old, p)
    BY <1>5
  <2>2. \A m \in Milestones : p[m] \in Tenants \cup {Nothing}
    BY <1>3, <1>6
  <2>3. \A m \in Milestones \ {"signup"} : old[m] = Nothing
    OBVIOUS
  <2> HIDE DEF old, p, times
  <2>4. times = [m \in Milestones \ {"signup"} |->
                   IF p["signup"] = Nothing \/ p[m] = Nothing THEN old[m] ELSE <<p["signup"], p[m]>>]
    BY <2>1 DEF Timed
  <2>5. times \in Spans
    BY <2>2, <2>3, <2>4 DEF Spans, Milestones
  <2>6. \A m \in Milestones \ {"signup"} :
           times[m] = IF p["signup"] = Nothing \/ p[m] = Nothing THEN Nothing ELSE <<p["signup"], p[m]>>
    BY <2>3, <2>4
  <2> QED BY <2>5, <2>6 DEF p, times
<1>8. TypeOK
  <2>1. tenants \in [Tenants -> Tenant \cup {Nothing}]
    BY <1>1, <1>2
  <2>2. rulesets \subseteq Ruleset
    BY <1>1, <1>3 DEF Ruleset, Types
  <2>3. rewards \subseteq Reward
    BY <1>1 DEF Reward, Kinds
  <2>4. funnel \in [Tenants -> [passed: Passed, times: Spans]]
    <3>1. \A t \in Tenants : funnel[t] \in [passed: Passed, times: Spans]
      <4> SUFFICES ASSUME NEW t \in Tenants PROVE funnel[t] \in [passed: Passed, times: Spans]
        OBVIOUS
      <4>1. funnel[t].passed \in Passed /\ funnel[t].times \in Spans
        BY <1>6, <1>7
      <4>2. funnel[t] = [passed |-> funnel[t].passed, times |-> funnel[t].times]
        BY <1>5
      <4> QED BY <4>1, <4>2
    <3>2. funnel = [t \in Tenants |-> funnel[t]]
      BY DEF Init
    <3> QED BY <3>1, <3>2
  <2>5. DataOK
    BY <1>1, <1>4, <2>1, <2>2, <2>3, <2>4 DEF DataOK
  <2>6. ControlOK
    BY <1>1 DEF ControlOK, Labels, Resting, TenantRead, Copies
  <2> QED BY <2>5, <2>6 DEF TypeOK
<1>9. InOrder
  BY <1>1, <1>3, <1>4, SettingsNamesAssumption DEF InOrder, Fits
<1>10. ListsHold
  BY <1>1, <1>2, <1>4 DEF ListsHold, Holds
<1>11. ProgrammeHolds
  <2>1. InForce(Shop) = {first} /\ first \in rulesets /\ first.type = "points"
    BY <1>1 DEF InForce
  <2> HIDE DEF first
  <2> QED BY <1>1, <1>2, <1>4, <2>1 DEF ProgrammeHolds, Configures, Configuring
<1>12. CatalogueHolds
  BY <1>1, SettingsNamesAssumption DEF CatalogueHolds
<1>13. MilestonesHold
  <2>1. \A t \in Tenants : TimesFit(t)
    BY <1>7 DEF TimesFit
  <2>2. \A r \in Requests : SignedUp(r, "idle")
    <3> SUFFICES ASSUME NEW r \in Requests PROVE SignedUp(r, "idle")
      OBVIOUS
    <3>1. r \in Tenants /\ r # Shop /\ r # Nothing
      BY <1>3, SettingsNamesAssumption DEF Tenants
    <3>2. \A m \in Milestones : funnel[r].passed[m] = Nothing
      BY <1>6, <3>1
    <3> QED BY <3>1, <3>2 DEF SignedUp, PassedBy, Milestones
  <2> QED BY <1>1, <2>1, <2>2 DEF MilestonesHold
<1>14. MapHolds
  BY <1>1, <1>2, <1>4 DEF MapHolds, MapAt
<1> QED BY <1>8, <1>9, <1>10, <1>11, <1>12, <1>13, <1>14 DEF SettingsInv

\* The invariant speaks of the variables only.
LEMMA StutterKeeps ==
    ASSUME SettingsInv, UNCHANGED vars
    PROVE  SettingsInv'
<1>1. /\ UNCHANGED <<tenants, users, rulesets, rewards, redemptions, asking, locations, funnel, tangled>>
      /\ UNCHANGED <<pc, req, target, copy, crossed, sent, taken, contested, muddled, retyped>>
      /\ Existing' = Existing
  BY DEF vars, collections, progress, history, Existing
<1>2. TypeOK' /\ InOrder'
  BY <1>1 DEF SettingsInv, TypeOK, DataOK, ControlOK, InOrder, Fits
<1>3. ListsHold'
  BY <1>1 DEF SettingsInv, ListsHold, Holds, Listed
<1>4. ProgrammeHolds' /\ CatalogueHolds'
  BY <1>1 DEF SettingsInv, ProgrammeHolds, InForce, Configures, CatalogueHolds, Offers, RedemptionsOf
<1>5. MilestonesHold'
  BY <1>1 DEF SettingsInv, MilestonesHold, TimesFit, NoTimesAhead, SignedUp, PassedBy, Subject
<1>6. MapHolds'
  BY <1>1 DEF SettingsInv, MapHolds, MapAt, MapSound, SameMap, ChangesAddress
<1> QED BY <1>2, <1>3, <1>4, <1>5, <1>6 DEF SettingsInv

\* The invariant is inductive: one case per action of Next.
LEMMA NextHolds == SettingsInv /\ [Next]_vars => SettingsInv'
<1> SUFFICES ASSUME SettingsInv, [Next]_vars PROVE SettingsInv'
  OBVIOUS
<1>1. ASSUME NEW r \in Requests, Step(r) PROVE SettingsInv'
  <2>1. CASE \E i \in Intents : \E x \in About(i.op) : Start(r, i, x)
    BY <2>1, StartKeeps
  <2>2. CASE ReadSettings(r) \/ SaveSettings(r) \/ SaveConfig(r)
    BY <2>2, ReadSettingsKeeps, SaveSettingsKeeps, SaveConfigKeeps
  <2>3. CASE CheckEmail(r) \/ CreateTenant(r) \/ CreateLocation(r) \/ CreateAdmin(r)
    BY <2>3, CheckEmailKeeps, CreateTenantKeeps, CreateLocationKeeps, CreateAdminKeeps
  <2>4. CASE CheckMember(r) \/ ReadList(r) \/ StoreInvite(r) \/ FindInvite(r)
    BY <2>4, CheckMemberKeeps, ReadListKeeps, StoreInviteKeeps, FindInviteKeeps
  <2>5. CASE CheckInvitee(r) \/ Join(r) \/ DropInvite(r)
    BY <2>5, CheckInviteeKeeps, JoinKeeps, DropInviteKeeps
  <2>6. CASE RetireRulesets(r) \/ CreateRuleset(r) \/ SetLoyalty(r) \/ completeMerchantOnboarding(r)
    BY <2>6, RetireRulesetsKeeps, CreateRulesetKeeps, SetLoyaltyKeeps, CompleteKeeps
  <2>7. CASE CreateReward(r) \/ EditReward(r) \/ CountRedemptions(r) \/ DeleteReward(r)
    BY <2>7, CreateRewardKeeps, EditRewardKeeps, CountRedemptionsKeeps, DeleteRewardKeeps
  <2>8. CASE FindReward(r) \/ Redeem(r)
    BY <2>8, FindRewardKeeps, RedeemKeeps
  <2>9. CASE LookForFirst(r) \/ PassMilestone(r) \/ WriteTimes(r) \/ Fail(r)
    BY <2>9, LookForFirstKeeps, PassMilestoneKeeps, WriteTimesKeeps, FailKeeps
  <2> QED BY <1>1, <2>1, <2>2, <2>3, <2>4, <2>5, <2>6, <2>7, <2>8, <2>9 DEF Step
<1>2. CASE \E g \in asking : GeocodeAnswers(g)
  BY <1>2, GeocodeKeeps
<1>3. CASE UNCHANGED vars
  BY <1>3, StutterKeeps
<1> QED BY <1>1, <1>2, <1>3 DEF Next

\* Whatever merchants sign up and configure, and wherever their requests stop,
\* the invariant holds.
THEOREM SettingsInvariance == Spec => []SettingsInv
<1>1. Init => SettingsInv
  BY InitHolds
<1>2. SettingsInv /\ [Next]_vars => SettingsInv'
  BY NextHolds
<1> QED BY <1>1, <1>2, PTL DEF Spec

\* An invitation can be accepted from when it was stored until it has been taken,
\* unless another writer of the merchant's list held an older copy of it.
THEOREM Invites == Spec => []InvitesStand
<1>1. SettingsInv => InvitesStand
  <2> SUFFICES ASSUME SettingsInv, NEW k \in sent \ contested
               PROVE  findInviteByToken(k) = IF k \in taken THEN {} ELSE {target[k]}
    BY DEF InvitesStand
  <2>1. target[k] \in Existing
    BY DEF SettingsInv, TypeOK, DataOK, InOrder, Own
  <2>2. \A t \in Existing : k \in tenants[t].config.invites => target[k] = t
    BY DEF SettingsInv, ListsHold
  <2>3. k \in tenants[target[k]].config.invites <=> k \notin taken
    BY DEF SettingsInv, ListsHold, Listed
  <2> QED BY <2>1, <2>2, <2>3 DEF findInviteByToken
<1> QED BY <1>1, SettingsInvariance, PTL

\* The programme in force is the merchant's loyalty type, and the stamps that
\* count as redeemed are those that were charged.
THEOREM Catalogue == Spec => []CatalogueStands
<1>1. SettingsInv => LoyaltyAgrees
  <2> SUFFICES ASSUME SettingsInv, Shop \notin muddled,
                      \A r \in Requests : target[r] = Shop => pc[r] \notin Configuring
               PROVE  /\ {d.type : d \in InForce(Shop)} = {toDto(Shop).loyalty}
                      /\ Cardinality(InForce(Shop)) = 1
                      /\ getLoyaltyType(Shop) = "stamps" <=> toDto(Shop).loyalty = "stamps"
    BY DEF LoyaltyAgrees
  <2>1. PICK d \in rulesets : InForce(Shop) = {d} /\ d.type = tenants[Shop].config.loyalty
    BY DEF SettingsInv, ProgrammeHolds, Configures
  <2>2. Cardinality({d}) = 1
    BY FS_Singleton
  <2>3. toDto(Shop).loyalty = d.type
    BY <2>1 DEF toDto
  <2> QED BY <2>1, <2>2, <2>3 DEF getLoyaltyType
<1>2. SettingsInv => ChargesStand
  <2> SUFFICES ASSUME SettingsInv, NEW d \in redemptions, d.reward \notin retyped
               PROVE  d \in StampsRedeemed <=> d.kind = "stamps"
    BY DEF ChargesStand
  <2>1. PICK w \in rewards : w.id = d.reward /\ w.kind = d.kind
    BY DEF SettingsInv, CatalogueHolds, Offers
  <2>2. \A v \in rewards : v.id = d.reward => v = w
    BY <2>1 DEF SettingsInv, CatalogueHolds
  <2> QED BY <2>1, <2>2 DEF StampsRedeemed
<1>3. SettingsInv => CatalogueStands
  BY <1>1, <1>2 DEF CatalogueStands
<1> QED BY <1>3, SettingsInvariance, PTL

\* The onboarding page's times are those between its milestones, and what was
\* answered has passed its milestone.
THEOREM Onboarding == Spec => []OnboardingIsRecorded
<1>1. SettingsInv => OnboardingIsRecorded
  <2> SUFFICES ASSUME SettingsInv PROVE OnboardingIsRecorded
    OBVIOUS
  <2>1. ASSUME NEW t \in Existing \ tangled, \A r \in Requests : pc[r] = "times" => Subject(r) # t
        PROVE  \A m \in DOMAIN getOnboardingFunnel(t).durations :
                  getOnboardingFunnel(t).durations[m] =
                      IF Nothing \in {getOnboardingFunnel(t).milestones["signup"],
                                      getOnboardingFunnel(t).milestones[m]}
                      THEN Nothing
                      ELSE <<getOnboardingFunnel(t).milestones["signup"],
                             getOnboardingFunnel(t).milestones[m]>>
    <3>1. t \in Tenants /\ TimesFit(t)
      BY <2>1 DEF SettingsInv, MilestonesHold, Existing
    <3>2. DOMAIN funnel[t].times = Milestones \ {"signup"}
      BY <3>1 DEF SettingsInv, TypeOK, DataOK, Spans
    <3> QED BY <3>1, <3>2 DEF TimesFit, getOnboardingFunnel
  <2>2. ASSUME NEW r \in Requests, pc[r] = "done"
        PROVE  /\ req[r].op = "invite" => funnel[target[r]].passed["staff"] # Nothing
               /\ req[r].op \in {"complete", "purchase"} => getOnboardingFunnel(target[r]).isComplete
               /\ req[r].op = "signup" =>
                     /\ r \in locations /\ <<r, req[r].value>> \in users
                     /\ {m \in Milestones : funnel[r].passed[m] = r} = {"signup", "location"}
    BY <2>2 DEF SettingsInv, MilestonesHold, SignedUp, PassedBy, getOnboardingFunnel
  <2> QED BY <2>1, <2>2 DEF OnboardingIsRecorded
<1> QED BY <1>1, SettingsInvariance, PTL

\* A merchant whose address is resolved is on the map where both its page and the
\* customers' say it is, and one without an address is not on it, unless two
\* changes of its address overlapped.
THEOREM OnTheMap == Spec => []OnTheMapWhereItIs
<1>1. SettingsInv => OnTheMapWhereItIs
  <2> SUFFICES ASSUME SettingsInv, NEW t \in Existing \ crossed
               PROVE  /\ toDto(t).status = "resolved" =>
                            /\ t \in nearby
                            /\ toDto(t).place = getSettings(t).address
                            /\ toDto(t).address = getSettings(t).address
                            /\ getSettings(t).place = getSettings(t).address
                      /\ getSettings(t).status = "none" => t \notin nearby /\ toDto(t).address = Nothing
    BY DEF OnTheMapWhereItIs
  <2>1. MapSound(tenants[t])
    BY DEF SettingsInv, MapHolds, MapAt
  <2> QED BY <2>1 DEF MapSound, toDto, getSettings, nearby, Or
<1> QED BY <1>1, SettingsInvariance, PTL

==============================================================================
