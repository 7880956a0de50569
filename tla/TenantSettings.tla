---------------------------- MODULE TenantSettings ----------------------------
(***************************************************************************)
(* What a merchant configures: OnboardingService (sign-up, loyalty         *)
(* programme, staff invitations), MerchantService.updateSettings with the  *)
(* geocoding that answers on its own, RulesetsService and RewardsService.  *)
(*                                                                         *)
(* One action is one awaited database call and the code up to the next.    *)
(* A request makes at most one tenant, invitation, ruleset, reward or      *)
(* redemption, so its name is the name of what it makes, and the moment a  *)
(* milestone was passed is the name of the request that passed it.  phone  *)
(* stands for the profile fields that are only stored; audit entries and   *)
(* e-mails come after the writes and are left out, as are the postings and *)
(* devices whose requests look for a first milestone at their end.         *)
(***************************************************************************)
EXTENDS Integers, FiniteSets

CONSTANTS
    Requests,   \* names of the HTTP requests that may be made
    Intents,    \* what a request may ask for (see Intent)
    Shop,       \* the merchant at the start, at the address Home
    Home, Addresses, Phones, Emails,
    FirstRewards, \* the rewards at the start
    Nothing     \* no address, document or request

Types == {"points", "stamps", "discount"}
Kinds == {"points", "stamps"}
Ops == {"signup", "settings", "merge", "configure", "complete", "invite", "accept",
        "addReward", "editReward", "deleteReward", "redeem", "purchase", "device"}

\* value: the new address (Nothing clears it), phone, loyalty type, e-mail
\* address or kind of reward.
Intent == [op: Ops, value: Addresses \cup Phones \cup Types \cup Emails \cup {Nothing}]

Statuses == {"none", "pending", "resolved", "failed"}

\* place is the document's location; the other fields are in its config, where
\* loyalty is loyalty_type, status geocoding_status, formatted formatted_address
\* and flat the latitude and longitude.
Config == [address: Addresses \cup {Nothing}, status: Statuses,
           formatted: Addresses \cup {Nothing}, flat: Addresses \cup {Nothing},
           phone: Phones \cup {Nothing}, loyalty: Types, invites: SUBSET Requests]
Tenant == [config: Config, place: Addresses \cup {Nothing}, onboarded: BOOLEAN]
Tenants == Requests \cup {Shop}
Milestones == {"signup", "location", "staff", "device", "scan"}

\* What the bodies carry.
Valid(i) ==
    /\ i.op = "settings" => i.value \in Addresses \cup Phones \cup {Nothing}
    /\ i.op = "merge" => i.value \in Addresses \cup Types \cup Phones
    /\ i.op = "configure" => i.value \in Types
    /\ i.op \in {"addReward", "editReward"} => i.value \in Kinds

ASSUME SettingsIntentsAssumption ==
    Intents \subseteq Intent /\ Intents # {} /\ \A i \in Intents : Valid(i)
ASSUME SettingsNamesAssumption ==
    /\ Shop \notin Requests /\ Home \in Addresses /\ Requests \intersect FirstRewards = {}
    /\ Nothing \notin Tenants \cup Addresses \cup Phones \cup FirstRewards
    /\ Nothing \notin Tenant

VARIABLES
    tenants, users, rulesets, rewards, redemptions, \* the collections
    locations,  \* tenants whose first location exists
    funnel,     \* of each tenant: when it passed its milestones, and the times between
    asking,     \* geocoding calls that have not been dealt with
    pc, req,    \* where each request is, and its body
    target,     \* the tenant, invitation or reward it is about
    copy,       \* the tenant or reward it read
    crossed,    \* history: tenants two changes of whose address overlapped, or whose
                \* address was written with the rest of the config
    sent, taken, contested, \* history: invitations stored, removed, stored or
                \* removed while another writer held a list read before
    muddled,    \* history: configurations of the programme overlapped, stopped, or
                \* were written past the rulesets
    retyped,    \* history: rewards whose kind was changed, or deleted, too late
    tangled     \* history: tenants two of whose milestones were written at once, or half

progress == <<locations, funnel, tangled>>
collections == <<tenants, users, rulesets, rewards, redemptions, asking>>
history == <<crossed, sent, taken, contested, muddled, retyped>>
vars == <<collections, progress, pc, req, target, copy, history>>

-----------------------------------------------------------------------------
(* Documents *)

Existing == {t \in Tenants : tenants[t] # Nothing}

NewTenant(address) ==
    [config |-> [address |-> address, status |-> IF address = Nothing THEN "none" ELSE "pending",
                 formatted |-> Nothing, flat |-> Nothing, phone |-> Nothing,
                 loyalty |-> "points", invites |-> {}],
     place |-> Nothing, onboarded |-> FALSE]

Or(x, y) == IF x # Nothing THEN x ELSE y

\* MerchantsService: what customers are shown of a merchant, and who is near
\* them.  The location goes before the flat coordinates, which nobody clears.
toDto(t) ==
    LET config == tenants[t].config
    IN [address |-> Or(config.formatted, config.address), status |-> config.status,
        place |-> Or(tenants[t].place, config.flat), loyalty |-> config.loyalty]
nearby == {t \in Existing : tenants[t].place # Nothing}

\* What the merchant's own settings page shows.
getSettings(t) ==
    LET config == tenants[t].config
    IN [address |-> config.address, formatted |-> config.formatted, status |-> config.status,
        place |-> Or(tenants[t].place, config.flat), phone |-> config.phone]

\* findInviteByToken: the tenant whose list has the token.
findInviteByToken(k) == {t \in Existing : k \in tenants[t].config.invites}

\* getLoyaltyType: any stamp card in force makes it stamps.
InForce(t) == {d \in rulesets : d.tenant = t /\ d.open}
getLoyaltyType(t) == IF \E d \in InForce(t) : d.type = "stamps" THEN "stamps" ELSE "points"

\* The stamps that count as redeemed: redemptions of what is a stamp reward now.
StampsRedeemed ==
    {d \in redemptions : \E w \in rewards : w.id = d.reward /\ w.kind = "stamps"}

Ask(r, t, address) == [by |-> r, tenant |-> t, address |-> address]

-----------------------------------------------------------------------------
(* Control *)

Resting == {"idle", "done", "failed"}
Goto(r, l) == pc' = [pc EXCEPT ![r] = l]
\* What a request has read goes with it.
Finish(r, l) == Goto(r, l) /\ copy' = [copy EXCEPT ![r] = Nothing]
Refuse(r) == Finish(r, "failed") /\ UNCHANGED <<progress, collections, req, target, history>>

\* Where a request begins.
Entrance(op) ==
    CASE op = "signup" -> "email"
      [] op \in {"settings", "merge"} -> "read"
      [] op = "configure" -> "retire"
      [] op = "invite" -> "member"
      [] op = "accept" -> "find"
      [] op = "deleteReward" -> "count"
      [] op = "redeem" -> "offer"
      [] op \in {"purchase", "device"} -> "look"
      [] OTHER -> "write"

\* A request of a merchant's own needs somebody who can log in there.
About(op) ==
    CASE op \in {"editReward", "deleteReward", "redeem"} -> {w.id : w \in rewards}
      [] op = "accept" -> sent
      [] op = "signup" -> {Nothing}
      [] OTHER -> {t \in Existing : t = Shop \/ \E u \in users : u[1] = t}

Start(r, i, x) ==
    /\ pc[r] = "idle"
    /\ req' = [req EXCEPT ![r] = i] /\ target' = [target EXCEPT ![r] = x]
    /\ Goto(r, Entrance(i.op))
    /\ UNCHANGED <<progress, collections, copy, history>>

ReadTenant(r, t, l) ==
    /\ copy' = [copy EXCEPT ![r] = tenants[t]] /\ Goto(r, l)

\* Others that hold a copy of the tenant's config, or of its list, to write back.
Holding(r, t, labels) ==
    {s \in Requests \ {r} : target[s] = t /\ pc[s] \in labels}

-----------------------------------------------------------------------------
(* Profile, address and geocoding *)

\* Slip: only the first address is looked up.
NeedsGeocoding_First(tenant, address) == address # Nothing /\ tenant.place = Nothing

NeedsGeocoding(tenant, address) ==
    address # Nothing /\ (address # tenant.config.address \/ tenant.place = Nothing)

ChangesAddress(r) == req[r].op = "settings" /\ req[r].value \in Addresses \cup {Nothing}

\* findOne, and the geocoding of a new address, which is started before it is stored.
ReadSettings(r) ==
    /\ pc[r] = "read"
    /\ LET t == target[r]
           asks == ChangesAddress(r) /\ NeedsGeocoding(tenants[t], req[r].value)
           busy == Holding(r, t, {"save"}) # {} \/ \E g \in asking : g.tenant = t
       IN  /\ ReadTenant(r, t, "save")
           /\ asking' = IF asks THEN asking \cup {Ask(r, t, req[r].value)} ELSE asking
           /\ crossed' = IF busy THEN crossed \cup {t} ELSE crossed
    /\ UNCHANGED <<progress, tenants, users, rulesets, rewards, redemptions, req, target, sent, taken,
                   contested, muddled, retyped>>

\* The fields of one update of an address.
WithAddress(tenant, read, address) ==
    [tenant EXCEPT !.config.address = address,
        !.config.status = IF NeedsGeocoding(read, address) THEN "pending"
                          ELSE IF address = Nothing THEN "none" ELSE @,
        !.config.formatted = IF address = Nothing THEN Nothing ELSE @,
        !.place = IF address = Nothing THEN Nothing ELSE @]

SaveSettings(r) ==
    /\ pc[r] = "save" /\ req[r].op = "settings"
    /\ tenants' = [tenants EXCEPT ![target[r]] =
            IF ChangesAddress(r) THEN WithAddress(@, copy[r], req[r].value)
            ELSE [@ EXCEPT !.config.phone = req[r].value]]
    /\ Finish(r, "done")
    /\ UNCHANGED <<progress, users, rulesets, rewards, redemptions, asking, req, target, history>>

\* dto.config: the whole config that was read, with the fields that were sent,
\* an address or a loyalty_type among them: those are only stored.
Merged(config, value) ==
    IF value \in Addresses THEN [config EXCEPT !.address = value]
    ELSE IF value \in Types THEN [config EXCEPT !.loyalty = value]
    ELSE [config EXCEPT !.phone = value]

SaveConfig(r) ==
    LET t == target[r]
        value == req[r].value
    IN  /\ pc[r] = "save" /\ req[r].op = "merge"
        /\ tenants' = [tenants EXCEPT ![t].config = Merged(copy[r].config, value)]
        /\ crossed' = IF value \in Addresses THEN crossed \cup {t} ELSE crossed
        /\ muddled' = IF value \in Types THEN muddled \cup {t} ELSE muddled
        /\ Finish(r, "done")
        /\ UNCHANGED <<progress, users, rulesets, rewards, redemptions, asking, req, target,
                       sent, taken, contested, retyped>>

\* The service answers with coordinates or without; the write may get lost.
GeocodeAnswers(g) ==
    /\ g \in asking /\ asking' = asking \ {g}
    /\ \/ tenants' = [tenants EXCEPT ![g.tenant].config.status = "resolved",
                                     ![g.tenant].config.formatted = g.address,
                                     ![g.tenant].config.flat = g.address,
                                     ![g.tenant].place = g.address]
       \/ tenants' = [tenants EXCEPT ![g.tenant].config.status = "failed"]
       \/ UNCHANGED tenants
    /\ crossed' = IF pc[g.by] = "save" THEN crossed \cup {g.tenant} ELSE crossed
    /\ UNCHANGED <<progress, users, rulesets, rewards, redemptions, pc, req, target, copy, sent, taken,
                   contested, muddled, retyped>>

-----------------------------------------------------------------------------
(* createMerchant: writes one after the other, none of which is taken back *)

CheckEmail(r) ==
    /\ pc[r] = "email"
    /\ IF \E u \in users : u[2] = req[r].value THEN Refuse(r)
       ELSE Goto(r, "tenant") /\ UNCHANGED <<progress, collections, req, target, copy, history>>

CreateTenant(r) ==
    /\ pc[r] = "tenant"
    /\ \E address \in {Home, Nothing} :
        /\ tenants' = [tenants EXCEPT ![r] = NewTenant(address)]
        /\ asking' = IF address = Nothing THEN asking ELSE asking \cup {Ask(r, r, address)}
    /\ Goto(r, "location")
    /\ UNCHANGED <<progress, users, rulesets, rewards, redemptions, req, target, copy, history>>

CreateLocation(r) ==
    /\ pc[r] = "location"
    /\ locations' = locations \cup {r}
    /\ Goto(r, "admin")
    /\ UNCHANGED <<collections, funnel, tangled, req, target, copy, history>>

CreateAdmin(r) ==
    /\ pc[r] = "admin"
    /\ users' = users \cup {<<r, req[r].value>>}
    /\ Goto(r, "passSignup")
    /\ UNCHANGED <<progress, tenants, rulesets, rewards, redemptions, asking, req, target, copy, history>>

-----------------------------------------------------------------------------
(* Staff invitations: a list in the config, read, changed and written whole *)

ListHolders(r, t) ==
    {s \in Requests \ {r} :
        \/ pc[s] = "push" /\ target[s] = t
        \/ pc[s] = "save" /\ target[s] = t /\ req[s].op = "merge"
        \/ pc[s] \in {"invitee", "join", "drop"} /\ target[target[s]] = t}

Contest(r, t, k) ==
    contested' = IF ListHolders(r, t) # {} THEN contested \cup {k} ELSE contested

CheckMember(r) ==
    /\ pc[r] = "member"
    /\ IF <<target[r], req[r].value>> \in users THEN Refuse(r)
       ELSE Goto(r, "list") /\ UNCHANGED <<progress, collections, req, target, copy, history>>

ReadList(r) ==
    /\ pc[r] = "list" /\ ReadTenant(r, target[r], "push")
    /\ UNCHANGED <<progress, collections, req, target, history>>

\* Slip: the list becomes the new invitation.
WithInvite_Only(read, k) == {k}

WithInvite(read, k) == read.config.invites \cup {k}

StoreInvite(r) ==
    /\ pc[r] = "push"
    /\ tenants' = [tenants EXCEPT ![target[r]].config.invites = WithInvite(copy[r], r)]
    /\ sent' = sent \cup {r} /\ Contest(r, target[r], r)
    /\ Finish(r, "look")
    /\ UNCHANGED <<progress, users, rulesets, rewards, redemptions, asking, req, target, crossed, taken,
                   muddled, retyped>>

FindInvite(r) ==
    /\ pc[r] = "find"
    /\ \/ \E t \in findInviteByToken(target[r]) :
            /\ ReadTenant(r, t, "invitee")
            /\ UNCHANGED <<progress, collections, req, target, history>>
       \/ findInviteByToken(target[r]) = {} /\ Refuse(r)

Invitee(r) == <<target[target[r]], req[target[r]].value>>

CheckInvitee(r) ==
    /\ pc[r] = "invitee"
    /\ IF Invitee(r) \in users THEN Refuse(r)
       ELSE Goto(r, "join") /\ UNCHANGED <<progress, collections, req, target, copy, history>>

\* The unique index (tenantId, email) decides.
Join(r) ==
    /\ pc[r] = "join"
    /\ IF Invitee(r) \in users THEN Refuse(r)
       ELSE /\ users' = users \cup {Invitee(r)} /\ Goto(r, "drop")
            /\ UNCHANGED <<progress, tenants, rulesets, rewards, redemptions, asking, req, target, copy,
                           history>>

\* The list that was read at the start, without the token.
DropInvite(r) ==
    /\ pc[r] = "drop"
    /\ LET t == target[target[r]]
       IN  /\ tenants' = [tenants EXCEPT ![t].config.invites = copy[r].config.invites \ {target[r]}]
           /\ Contest(r, t, target[r])
    /\ taken' = taken \cup {target[r]}
    /\ Finish(r, "done")
    /\ UNCHANGED <<progress, users, rulesets, rewards, redemptions, asking, req, target, crossed, sent,
                   muddled, retyped>>

-----------------------------------------------------------------------------
(* configureLoyalty: rulesets, config and perhaps a first reward *)

Configuring == {"rule", "loyalty"}

\* Slip: the programme of the same type is ended.
Retired_SameType(d, r) == d.tenant = target[r] /\ d.type = req[r].value

Retired(d, r) == d.tenant = target[r]

RetireRulesets(r) ==
    /\ pc[r] = "retire"
    /\ rulesets' = {IF Retired(d, r) THEN [d EXCEPT !.open = FALSE] ELSE d : d \in rulesets}
    /\ muddled' = IF Holding(r, target[r], Configuring) # {} THEN muddled \cup {target[r]} ELSE muddled
    /\ Goto(r, "rule")
    /\ UNCHANGED <<progress, tenants, users, rewards, redemptions, asking, req, target, copy, crossed, sent,
                   taken, contested, retyped>>

CreateRuleset(r) ==
    /\ pc[r] = "rule"
    /\ rulesets' = rulesets
           \cup {[id |-> r, tenant |-> target[r], type |-> req[r].value, open |-> TRUE]}
    /\ Goto(r, "loyalty")
    /\ UNCHANGED <<progress, tenants, users, rewards, redemptions, asking, req, target, copy, history>>

SetLoyalty(r) ==
    /\ pc[r] = "loyalty"
    /\ tenants' = [tenants EXCEPT ![target[r]].config.loyalty = req[r].value]
    /\ muddled' = IF \E s \in Holding(r, target[r], {"save"}) : req[s].op = "merge"
                  THEN muddled \cup {target[r]} ELSE muddled
    /\ \/ Goto(r, "done")
       \/ req[r].value \in Kinds /\ Goto(r, "write")
    /\ UNCHANGED <<progress, users, rulesets, rewards, redemptions, asking, req, target, copy, crossed, sent,
                   taken, contested, retyped>>

completeMerchantOnboarding(r) ==
    /\ pc[r] = "write" /\ req[r].op = "complete"
    /\ tenants' = [tenants EXCEPT ![target[r]].onboarded = TRUE]
    /\ Goto(r, "passFirst")
    /\ UNCHANGED <<progress, users, rulesets, rewards, redemptions, asking, req, target, copy, history>>

-----------------------------------------------------------------------------
(* Rewards, and the redemptions that name them *)

CreateReward(r) ==
    /\ pc[r] = "write" /\ req[r].op \in {"addReward", "configure"}
    /\ rewards' = rewards \cup {[id |-> r, kind |-> req[r].value]}
    /\ Goto(r, "done")
    /\ UNCHANGED <<progress, tenants, users, rulesets, redemptions, asking, req, target, copy, history>>

RedemptionsOf(w) == {d \in redemptions : d.reward = w}
Redeeming(w) == {s \in Requests : pc[s] = "redeem" /\ target[s] = w}

\* The kind may change, whatever has been redeemed.
EditReward(r) ==
    /\ pc[r] = "write" /\ req[r].op = "editReward"
    /\ IF \A w \in rewards : w.id # target[r] THEN Refuse(r)
       ELSE /\ rewards' = {IF w.id = target[r] THEN [w EXCEPT !.kind = req[r].value] ELSE w : w \in rewards}
            /\ retyped' = IF RedemptionsOf(target[r]) # {} \/ Redeeming(target[r]) # {}
                          THEN retyped \cup {target[r]} ELSE retyped
            /\ Goto(r, "done")
            /\ UNCHANGED <<progress, tenants, users, rulesets, redemptions, asking, req, target, copy, crossed,
                           sent, taken, contested, muddled>>

MayDelete(w) == RedemptionsOf(w) = {}

CountRedemptions(r) ==
    /\ pc[r] = "count"
    /\ IF MayDelete(target[r])
       THEN Goto(r, "remove") /\ UNCHANGED <<progress, collections, req, target, copy, history>>
       ELSE Refuse(r)

DeleteReward(r) ==
    /\ pc[r] = "remove"
    /\ rewards' = {w \in rewards : w.id # target[r]}
    /\ retyped' = IF Redeeming(target[r]) # {} THEN retyped \cup {target[r]} ELSE retyped
    /\ Goto(r, "done")
    /\ UNCHANGED <<progress, tenants, users, rulesets, redemptions, asking, req, target, copy, crossed, sent,
                   taken, contested, muddled>>

FindReward(r) ==
    /\ pc[r] = "offer"
    /\ \/ \E w \in rewards :
            /\ w.id = target[r]
            /\ copy' = [copy EXCEPT ![r] = w] /\ Goto(r, "redeem")
            /\ UNCHANGED <<progress, collections, req, target, history>>
       \/ (\A w \in rewards : w.id # target[r]) /\ Refuse(r)

\* A reward being deleted after its redemptions were counted.
Doomed(w) == \E s \in Requests : pc[s] = "remove" /\ target[s] = w

Redeem(r) ==
    /\ pc[r] = "redeem"
    /\ redemptions' = redemptions \cup {[by |-> r, reward |-> target[r], kind |-> copy[r].kind]}
    /\ retyped' = IF Doomed(target[r]) THEN retyped \cup {target[r]} ELSE retyped
    /\ Finish(r, "done")
    /\ UNCHANGED <<progress, tenants, users, rulesets, rewards, asking, req, target, crossed, sent, taken,
                   contested, muddled>>

-----------------------------------------------------------------------------
(* Milestones: who passes one ends with trackOnboardingMilestone *)

Subject(r) == IF req[r].op = "signup" THEN r ELSE target[r]

MilestoneAt(r) ==
    CASE pc[r] = "passSignup" -> "signup"
      [] pc[r] = "passLocation" -> "location"
      [] req[r].op = "invite" -> "staff"
      [] req[r].op = "device" -> "device"
      [] OTHER -> "scan"

\* A first one is tracked by whoever finds that it has not been passed.
LookForFirst(r) ==
    /\ pc[r] = "look"
    /\ Goto(r, IF funnel[Subject(r)].passed[MilestoneAt(r)] = Nothing THEN "passFirst" ELSE "done")
    /\ UNCHANGED <<progress, collections, req, target, copy, history>>

Tracking == {"passSignup", "passLocation", "passFirst", "times"}

\* Slip: what took a time once keeps it.
Timed_Once(old, passed) ==
    [m \in Milestones \ {"signup"} |->
        IF old[m] # Nothing \/ passed["signup"] = Nothing \/ passed[m] = Nothing THEN old[m]
        ELSE <<passed["signup"], passed[m]>>]

\* The times from the sign-up to the milestones that have been passed.
Timed(old, passed) ==
    [m \in Milestones \ {"signup"} |->
        IF passed["signup"] = Nothing \/ passed[m] = Nothing THEN old[m]
        ELSE <<passed["signup"], passed[m]>>]

AfterTimes(r, passed) ==
    IF req[r].op = "signup" /\ passed["location"] = Nothing THEN "passLocation" ELSE "done"

\* The moment is written, passed before or not; the answer is the document.
PassMilestone(r) ==
    /\ pc[r] \in {"passSignup", "passLocation", "passFirst"}
    /\ LET t == Subject(r)
           passed == [funnel[t].passed EXCEPT ![MilestoneAt(r)] = r]
       IN  /\ funnel' = [funnel EXCEPT ![t].passed = passed]
           /\ IF passed["signup"] = Nothing \/ \A m \in Milestones \ {"signup"} : passed[m] = Nothing
              THEN Finish(r, AfterTimes(r, passed))
              ELSE Goto(r, "times") /\ copy' = [copy EXCEPT ![r] = passed]
           /\ tangled' = IF \E s \in Requests \ {r} : pc[s] \in Tracking /\ Subject(s) = t
                         THEN tangled \cup {t} ELSE tangled
    /\ UNCHANGED <<collections, locations, req, target, history>>

\* The times are computed from that answer.
WriteTimes(r) ==
    /\ pc[r] = "times"
    /\ funnel' = [funnel EXCEPT ![Subject(r)].times = Timed(@, copy[r])]
    /\ Finish(r, AfterTimes(r, copy[r]))
    /\ UNCHANGED <<collections, locations, tangled, req, target, history>>

\* The merchant's page of its onboarding.
getOnboardingFunnel(t) ==
    [milestones |-> funnel[t].passed, durations |-> funnel[t].times,
     isComplete |-> funnel[t].passed["scan"] # Nothing]

-----------------------------------------------------------------------------
\* A call throws, or the process stops: what was started stays as it is.
Fail(r) ==
    /\ pc[r] \notin Resting
    /\ Finish(r, "failed")
    /\ crossed' = IF pc[r] = "save" THEN crossed \cup {target[r]} ELSE crossed
    /\ muddled' = IF pc[r] \in Configuring THEN muddled \cup {target[r]} ELSE muddled
    /\ tangled' = IF pc[r] = "times" THEN tangled \cup {Subject(r)} ELSE tangled
    /\ UNCHANGED <<locations, funnel, collections, req, target, sent, taken, contested, retyped>>

Init ==
    /\ tenants = [t \in Tenants |-> IF t # Shop THEN Nothing
          ELSE [NewTenant(Home) EXCEPT !.config.status = "resolved", !.config.formatted = Home,
                                       !.config.flat = Home, !.place = Home]]
    /\ users = {} /\ redemptions = {} /\ asking = {}
    /\ locations = {Shop} /\ tangled = {}
    /\ funnel = [t \in Tenants |->
          LET passed == [m \in Milestones |-> IF t = Shop /\ m \in {"signup", "location"}
                                             THEN Shop ELSE Nothing]
          IN [passed |-> passed, times |-> Timed([m \in Milestones \ {"signup"} |-> Nothing], passed)]]
    /\ rulesets = {[id |-> Shop, tenant |-> Shop, type |-> "points", open |-> TRUE]}
    /\ rewards = {[id |-> w, kind |-> "stamps"] : w \in FirstRewards}
    /\ pc = [r \in Requests |-> "idle"]
    /\ req = [r \in Requests |-> CHOOSE i \in Intents : TRUE]
    /\ target = [r \in Requests |-> Nothing]
    /\ copy = [r \in Requests |-> Nothing]
    /\ crossed = {} /\ sent = {} /\ taken = {} /\ contested = {} /\ muddled = {} /\ retyped = {}

Step(r) ==
    \/ \E i \in Intents : \E x \in About(i.op) : Start(r, i, x)
    \/ ReadSettings(r) \/ SaveSettings(r) \/ SaveConfig(r)
    \/ CheckEmail(r) \/ CreateTenant(r) \/ CreateLocation(r) \/ CreateAdmin(r)
    \/ CheckMember(r) \/ ReadList(r) \/ StoreInvite(r)
    \/ FindInvite(r) \/ CheckInvitee(r) \/ Join(r) \/ DropInvite(r)
    \/ RetireRulesets(r) \/ CreateRuleset(r) \/ SetLoyalty(r) \/ completeMerchantOnboarding(r)
    \/ CreateReward(r) \/ EditReward(r) \/ CountRedemptions(r) \/ DeleteReward(r)
    \/ FindReward(r) \/ Redeem(r)
    \/ LookForFirst(r) \/ PassMilestone(r) \/ WriteTimes(r)
    \/ Fail(r)

Next == (\E r \in Requests : Step(r)) \/ \E g \in asking : GeocodeAnswers(g)

Spec == Init /\ [][Next]_vars

-----------------------------------------------------------------------------
(* Properties *)

\* A merchant whose address is said to be resolved is on the map, where both its
\* own page and the customers' say it is, and one without an address is not on
\* the map and shows none, unless two changes overlapped between their first read
\* and the answer of the geocoding, or the address came with a whole config.
OnTheMapWhereItIs ==
    \A t \in Existing \ crossed :
        /\ toDto(t).status = "resolved" =>
              /\ t \in nearby
              /\ toDto(t).place = getSettings(t).address
              /\ toDto(t).address = getSettings(t).address
              /\ getSettings(t).place = getSettings(t).address
        /\ getSettings(t).status = "none" => t \notin nearby /\ toDto(t).address = Nothing

\* An invitation can be accepted from when it was answered until it has been,
\* and not again, unless another writer of the list held an older copy of it.
InvitesStand ==
    \A k \in sent \ contested :
        findInviteByToken(k) = IF k \in taken THEN {} ELSE {target[k]}

\* What scans and wallets read (the ruleset in force) and what the map and
\* the dashboard read (loyalty_type) is one programme, unless configurations
\* overlapped, stopped half way, or a config read before, or with a programme of
\* its own, was written back.
LoyaltyAgrees ==
    \A t \in {Shop} \ muddled :
        (\A r \in Requests : target[r] = t => pc[r] \notin Configuring) =>
            /\ {d.type : d \in InForce(t)} = {toDto(t).loyalty}
            /\ Cardinality(InForce(t)) = 1
            /\ getLoyaltyType(t) = "stamps" <=> toDto(t).loyalty = "stamps"

\* The stamps charged for a redemption stay charged, and nothing else is:
\* unless its reward changed its kind, or was deleted as it was redeemed.
ChargesStand ==
    \A d \in redemptions : d.reward \notin retyped => (d \in StampsRedeemed <=> d.kind = "stamps")

\* The times on the merchant's onboarding page are those between the milestones
\* beside them, and what was answered has passed its milestone, unless two
\* milestones of a merchant were tracked at once or one was tracked half.  A
\* sign-up that was answered has left a location, an administrator and both of
\* its milestones.
OnboardingIsRecorded ==
    /\ \A t \in Existing \ tangled :
          LET page == getOnboardingFunnel(t) IN
          (\A r \in Requests : pc[r] = "times" => Subject(r) # t) =>
              \A m \in DOMAIN page.durations :
                  page.durations[m] = IF Nothing \in {page.milestones["signup"], page.milestones[m]}
                                      THEN Nothing ELSE <<page.milestones["signup"], page.milestones[m]>>
    /\ \A r \in Requests : pc[r] = "done" =>
          /\ req[r].op = "invite" => funnel[target[r]].passed["staff"] # Nothing
          /\ req[r].op \in {"complete", "purchase"} => getOnboardingFunnel(target[r]).isComplete
          /\ req[r].op = "signup" =>
                /\ r \in locations /\ <<r, req[r].value>> \in users
                /\ {m \in Milestones : funnel[r].passed[m] = r} = {"signup", "location"}

\* Programme and catalogue say what was configured and redeemed.
CatalogueStands == LoyaltyAgrees /\ ChargesStand
=============================================================================
