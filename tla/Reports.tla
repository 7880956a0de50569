------------------------------- MODULE Reports --------------------------------
(***************************************************************************)
(* What the screens show of the books: the customer's cards, the           *)
(* merchant's customer list and dashboard, the weekly report and the       *)
(* platform's totals.  Each is computed by its own queries over the        *)
(* collections AccountBooks keeps, some from ledger entries, some from     *)
(* transactions and redemptions; nothing is stored, so there are no        *)
(* variables here, and a view is a function of the state.                  *)
(***************************************************************************)
EXTENDS AccountBooks

CONSTANTS
    DayLength,   \* ticks of the clock in a day
    Week,        \* days in a period of the reports (7)
    Recent,      \* documents in a list of the most recent (50, 30, 100)
    Top          \* merchants in the platform's list of the busiest (5)

ASSUME ReportsAssumption ==
    DayLength \in Nat \ {0} /\ Week \in Nat \ {0} /\ Recent \in Nat \ {0} /\ Top \in Nat \ {0}

\* One notion of day: the server's clock is taken to be in UTC.  The code mixes
\* local midnights (setHours, getDate) with the UTC dates of the documents.
Day(n) == n \div DayLength
Today == Day(now)

Total(T) == MapThenSumSet(LAMBDA t : t.amount, T)
TotalSize(T) == MapThenSumSet(LAMBDA t : Abs(t.amount), T)
Issues(T) == {t \in T : t.type = "ISSUE"}
Redeems(T) == {t \in T : t.type = "REDEEM"}
CustomersIn(T) == {t.cust : t \in T}
\* The transactions of some merchants, and those of a customer at one.
At(M) == {t \in transactions : t.merchant \in M}
Visits(m, c) == {t \in At({m}) : t.cust = c}
Newest(T) == {t \in T : Cardinality({u \in T : u.at > t.at}) < Recent}

-----------------------------------------------------------------------------
(* A customer, seen by the merchant and by the platform *)

\* A row of the merchant's customer list.
CustomerRow(a) ==
    [cust |-> a.cust, place |-> PlaceOf(a), points |-> Balance(a.merchant, a.cust),
     visits |-> Cardinality(Visits(a.merchant, a.cust)), active |-> a.status = "ACTIVE"]

\* A status is compared in capitals, so "inactive" finds nobody.
CustomerList(m, status) ==
    {CustomerRow(a) : a \in {b \in accounts : b.merchant = m /\ status \in {"", b.status}}}

\* The balance of a day is that of the oldest entry of the day among the newest
\* entries, and of a day without one today's balance.
PointsHistory(m, c) ==
    LET seen == Newest(Book(m, c))
        On(d) == {e \in seen : Day(e.at) = d}
    IN [d \in (Today - Week + 1) .. Today |->
          [points |-> Total(On(d)),
           balance |-> IF On(d) = {} THEN Balance(m, c)
                       ELSE (CHOOSE e \in On(d) : \A f \in On(d) : e.at <= f.at).after]]

\* The page of one customer.
CustomerDetail(m, c) ==
    [points |-> Balance(m, c), visits |-> Cardinality(Newest(Visits(m, c))),
     active |-> \E a \in AccountsOf(m, c) : a.status = "ACTIVE",
     history |-> PointsHistory(m, c),
     statement |-> {<<t.id, SignedPoints(t)>> : t \in Newest(Visits(m, c))}]

\* The platform's list of the customers of one merchant goes by their logins.
MerchantCustomers(m) ==
    {[cust |-> a.cust, points |-> Balance(m, a.cust),
      redeemed |-> TotalSize(Redeems(Visits(m, a.cust))), active |-> a.status = "ACTIVE"] :
        a \in {b \in accounts : b.merchant = m /\ b.cust \in users}}

\* The platform's row of a customer, over all merchants.
PlatformCustomer(c) ==
    [points |-> Total(EntriesOf(c)),
     transactions |-> Cardinality({t \in transactions : t.cust = c}),
     active |-> \E a \in accounts : a.cust = c /\ a.status = "ACTIVE",
     visited |-> {a.merchant : a \in {b \in accounts : b.cust = c}}]

\* The platform's page of a customer, who needs a login: the transactions it
\* counts are those it lists.
PlatformCustomerDetail(c) ==
    LET listed == Newest({t \in transactions : t.cust = c}) IN
    [points |-> Total(EntriesOf(c)), transactions |-> Cardinality(listed),
     active |-> \E a \in accounts : a.cust = c /\ a.status = "ACTIVE",
     trail |-> {<<t.id, SignedPoints(t)>> : t \in listed}]

-----------------------------------------------------------------------------
(* A customer, seen by the customer *)

\* A membership: the balance counts points and stamps alike, the stamps are
\* counted from transactions and redemptions, and points are what is left.
Card(m, c) ==
    [points |-> NotNegative(Balance(m, c) - StampCount(m, c)), stamps |-> StampCount(m, c)]

Memberships(c) == {a.merchant : a \in {b \in accounts : b.cust = c}}

\* The number on the home screen.
HomeTotal(c) == MapThenSumSet(LAMBDA m : Card(m, c).points, Memberships(c))

\* The stamps on a card, reward by reward: those given for it and not redeemed for it.
RewardStamps(m, c, w) ==
    NotNegative(Total({t \in Issues(Visits(m, c)) : t.scan = w})
                  - Total({d \in redemptions : d.merchant = m /\ d.cust = c /\ d.reward = w}))

\* A reward can be redeemed, the customer's app says, when the card has its points,
\* or the stamps of the reward itself.
CanRedeem(m, c, w, cost) ==
    cost <= IF w \in StampRewards THEN RewardStamps(m, c, w) ELSE Card(m, c).points

-----------------------------------------------------------------------------
(* A merchant's volumes *)

\* Slip: redemptions are added up with the sign they are stored with.
Volume_Signed(T) ==
    [count |-> Cardinality(T), issued |-> Total({t \in Issues(T) : ~Stamped(t)}),
     redeemed |-> Total(Redeems(T))]

\* The platform leaves stamps out of what was issued, and not of what was redeemed.
Volume(T) ==
    [count |-> Cardinality(T), issued |-> Total({t \in Issues(T) : ~Stamped(t)}),
     redeemed |-> TotalSize(Redeems(T))]

\* A row of the platform's merchant list.
MerchantRow(m) ==
    [volume |-> Volume(At({m})), customers |-> Cardinality({a \in accounts : a.merchant = m})]

\* The queries behind the platform's totals, of all merchants or of one.
PlatformTotals(M) ==
    [volume |-> Volume(At(M)),
     customers |-> IF M = Merchants THEN Cardinality(users)
                   ELSE Cardinality({a \in accounts : a.merchant \in M})]

\* L may be the merchants with the most transactions: ties are broken anyhow.
Busy(M) == {m \in M : At({m}) # {}}
IsTopOf(L, M) ==
    /\ L \subseteq Busy(M) /\ Cardinality(L) <= Top /\ (Cardinality(L) = Top \/ L = Busy(M))
    /\ \A m \in L, n \in Busy(M) \ L : Cardinality(At({n})) <= Cardinality(At({m}))

\* The rows of the list, with the customers of each.
TopMerchants(L) ==
    [m \in L |-> [volume |-> Volume(At({m})), customers |-> Cardinality(CustomersIn(At({m})))]]

\* The merchant's own dashboard, which tells stamps from points and adds the
\* redemptions up as they are stored.
Dashboard(m) ==
    LET T == At({m})
        today == CustomersIn({t \in T : Day(t.at) = Today})
    IN [count |-> Cardinality(T),
        stampsIssued |-> Total({t \in Issues(T) : Stamped(t)}),
        pointsIssued |-> Total({t \in Issues(T) : ~Stamped(t)}),
        pointsRedeemed |-> Abs(Total(Redeems(T))),
        todaysCustomers |-> Cardinality(today),
        repeatCustomers |-> Cardinality(today \intersect CustomersIn({t \in T : Day(t.at) < Today})),
        recent |-> {<<t.id, SignedPoints(t)>> : t \in Newest(T)}]

\* The merchant's list of transactions, of some types and customers and on some
\* days, newest first; page n of a list of size per page.
TransactionList(m, types, cs, days, n, size) ==
    LET T == {t \in At({m}) : t.type \in types /\ t.cust \in cs /\ Day(t.at) \in days}
        Place(t) == Cardinality({u \in T : u.at >= t.at})
    IN {[id |-> t.id, cust |-> t.cust, points |-> SignedPoints(t), stamp |-> Stamped(t)] :
          t \in {u \in T : (n - 1) * size < Place(u) /\ Place(u) <= n * size}}

-----------------------------------------------------------------------------
(* Days and weeks *)

\* Slip: a day is what happened in so many hours before now.
DayRow_Rolling(M, d) ==
    LET T == {t \in At(M) : now - t.at \in (Today - d) * DayLength .. (Today - d + 1) * DayLength - 1}
    IN [earn |-> Cardinality(Issues(T)), redeem |-> Cardinality(Redeems(T)),
        customers |-> Cardinality(CustomersIn(T)),
        issued |-> Total(Issues(T)), redeemed |-> Abs(Total(Redeems(T)))]

\* A day of the platform's trend.
DayRow(M, d) ==
    LET T == {t \in At(M) : Day(t.at) = d}
    IN [earn |-> Cardinality(Issues(T)), redeem |-> Cardinality(Redeems(T)),
        customers |-> Cardinality(CustomersIn(T)),
        issued |-> Total(Issues(T)), redeemed |-> Abs(Total(Redeems(T)))]

Trend(M) == [d \in (Today - 2 * Week + 1) .. Today |-> DayRow(M, d)]

\* The week to come: the last one, times what it was of the one before, which
\* is taken to be at least 0.6 and at most 1.5.
Rounded(n, d) == (2 * n + d) \div (2 * d)
projectForward(previous, recent) ==
    CASE previous = 0 -> recent
      [] previous > 0 /\ 10 * recent < 6 * previous -> Rounded(6 * recent, 10)
      [] previous > 0 /\ 10 * recent > 15 * previous -> Rounded(3 * recent, 2)
      [] OTHER -> Rounded(recent * recent, previous)
Forecast(trend) ==
    LET previous == {d \in DOMAIN trend : d <= Today - Week}
        next7Days(of(_)) == projectForward(MapThenSumSet(of, previous),
                                           MapThenSumSet(of, DOMAIN trend \ previous))
    IN [transactions |-> next7Days(LAMBDA d : trend[d].earn + trend[d].redeem),
        issued |-> next7Days(LAMBDA d : trend[d].issued),
        redeemed |-> next7Days(LAMBDA d : trend[d].redeemed),
        customers |-> next7Days(LAMBDA d : trend[d].customers)]

\* The platform's dashboard, with the merchants L in its list.
PlatformDashboard(M, L) ==
    LET trend == Trend(M) IN
    [stats |-> PlatformTotals(M), dailyTrend |-> trend, topMerchants |-> TopMerchants(L),
     forecasts |-> Forecast(trend)]

\* The chart on the platform's page of a merchant.
Chart(m) ==
    [d \in (Today - Week + 1) .. Today |->
        [earn |-> DayRow({m}, d).earn, redeem |-> DayRow({m}, d).redeem]]

\* A week made of its days: the active and the repeat customers of a week are
\* those of its best day.
aggregateWeeklyFromDaily(daily) ==
    LET Sum(of(_)) == MapThenSumSet(of, DOMAIN daily)
        Best(of(_)) == Max({0} \cup {of(d) : d \in DOMAIN daily})
    IN [active |-> Best(LAMBDA d : daily[d].customers), repeat |-> Best(LAMBDA d : daily[d].repeat),
        issues |-> Sum(LAMBDA d : daily[d].earn), redeems |-> Sum(LAMBDA d : daily[d].redeem)]

RepeatCustomers(T) == {c \in CustomersIn(T) : Cardinality({t \in T : t.cust = c}) > 1}
On(m, days) == {t \in At({m}) : Day(t.at) \in days}

\* The days and the week from transactions, where the repeat customers are
\* those of the whole week.
calculateDailyMetricsFromTransactions(m, days) ==
    LET daily == [d \in days |->
            [earn |-> Cardinality(Issues(On(m, {d}))), redeem |-> Cardinality(Redeems(On(m, {d}))),
             customers |-> Cardinality(CustomersIn(On(m, {d}))),
             repeat |-> Cardinality(RepeatCustomers(On(m, {d})))]]
    IN [daily |-> daily,
        weekly |-> [aggregateWeeklyFromDaily(daily)
                       EXCEPT !.repeat = Cardinality(RepeatCustomers(On(m, days)))]]

\* The weekly report: from the daily metrics the consumers keep if the week has
\* any, however few, and otherwise from transactions.
getWeeklyReport(m, start, metrics) ==
    LET days == start .. (start + Week - 1)
        kept == [d \in days \intersect DOMAIN metrics |-> metrics[d]]
    IN IF DOMAIN kept # {} THEN [daily |-> kept, weekly |-> aggregateWeeklyFromDaily(kept)]
       ELSE calculateDailyMetricsFromTransactions(m, days)

-----------------------------------------------------------------------------
(* Properties *)

Debit(e) == e.amount < 0 /\ ~\E d \in redemptions : d.id = e.tx
\* Somebody debited the customer other than by a redemption, a redemption ran
\* beside another scan, or a scan that gave stamps was asked for again.
Irregular(m, c) ==
    \/ \E e \in Book(m, c) : Debit(e) \/ e.tx \in beside
    \/ \E t \in Visits(m, c) : Stamped(t) /\ Repeated(t)

\* The balances of a customer that a merchant and the platform see.
Shown(m, c) ==
    {r.points : r \in {q \in CustomerList(m, "") \cup MerchantCustomers(m) : q.cust = c}}
      \cup {CustomerDetail(m, c).points}

\* Points and stamps on a customer's card make up the balance on the merchant's
\* and the platform's screens, although the card is computed from transactions,
\* their metadata and redemptions, and they from entries alone.  The card may
\* show more once stamps could be spent as points: a debit that is no redemption
\* does not look at stamps, a redemption beside another scan may be checked before
\* a purchase is marked as stamps, and a scan that is repeated marks again.  The
\* home screen and the cards together make up the balance over all merchants.  A
\* reward the card says can be redeemed passes the check of the till, unless stamps
\* were redeemed for another reward: the card counts them by reward, the till does
\* not (getCustomerMemberships, redeemPoints, ScanService.apply).
CardsShowBalances ==
    \A c \in Customers : ~Erased(c) =>
        /\ \A m \in Merchants :
              LET card == Card(m, c).points + Card(m, c).stamps
              IN /\ \A n \in Shown(m, c) : card = n \/ (card > n /\ Irregular(m, c))
                 /\ \A w \in Rewards, n \in 1 .. 2 :
                       CanRedeem(m, c, w, n) =>
                          \/ Affords(m, c, w, n)
                          \/ \E d \in redemptions :
                                /\ d.merchant = m /\ d.cust = c
                                /\ w # d.reward /\ {w, d.reward} \subseteq StampRewards
        /\ \/ \E m \in Merchants : Irregular(m, c)
           \/ HomeTotal(c) + MapThenSumSet(LAMBDA m : Card(m, c).stamps, Merchants)
                = PlatformCustomerDetail(c).points

\* What a merchant has issued, in points and stamps, less what it has redeemed,
\* is what its customers hold, and what the pages of its transactions add up to:
\* the volumes come from transactions, the holdings from entries.  Only a
\* deletion, or an adjustBalance that stopped half way, parts them.  The totals of
\* the platform's dashboard are those of all its merchants and of the days of its
\* trend; the list of the busiest, however ties are broken, accounts for no more,
\* and for all when it has room for everyone; a forecast does not promise more than
\* half as much again as the last week.  A weekly report says of a week what the
\* trend says of its days, and no more active customers than there are.
VolumesMatchBooks ==
    /\ LET board == PlatformDashboard(Merchants, {})
           days == DOMAIN board.dailyTrend
           volume == board.stats.volume
       IN /\ volume.issued = MapThenSumSet(LAMBDA m : MerchantRow(m).volume.issued, Merchants)
          /\ volume.redeemed = MapThenSumSet(LAMBDA m : MerchantRow(m).volume.redeemed, Merchants)
          /\ \A L \in SUBSET Merchants : IsTopOf(L, Merchants) =>
                LET rows == TopMerchants(L)
                    issued == MapThenSumSet(LAMBDA m : rows[m].volume.issued, L)
                    redeemed == MapThenSumSet(LAMBDA m : rows[m].volume.redeemed, L)
                IN IF Cardinality(Busy(Merchants)) <= Top
                   THEN issued = volume.issued /\ redeemed = volume.redeemed
                   ELSE issued <= volume.issued /\ redeemed <= volume.redeemed
          /\ 0 \in days =>
                volume.count =
                    MapThenSumSet(LAMBDA d : board.dailyTrend[d].earn + board.dailyTrend[d].redeem, days)
          /\ \A m \in Merchants :
                LET report == getWeeklyReport(m, Today - Week + 1, <<>>) IN
                /\ \A d \in DOMAIN report.daily : report.daily[d].earn = Chart(m)[d].earn
                                               /\ report.daily[d].redeem = Chart(m)[d].redeem
                /\ report.weekly.issues + report.weekly.redeems <= MerchantRow(m).volume.count
                /\ report.weekly.active <= Cardinality(CustomersIn(At({m})))
          /\ 2 * board.forecasts.transactions <= 3 * volume.count + 1
    /\ \A m \in Merchants :
        LET held == MapThenSumSet(LAMBDA r : r.points, CustomerList(m, ""))
            pages == UNION {TransactionList(m, {"ISSUE", "REDEEM"}, Customers, 0 .. Today, n, 2) :
                              n \in 1 .. Cardinality(transactions)}
        IN \/ \E c \in Customers : Erased(c)
           \/ \E t \in At({m}) : HalfAdjusted(t.id)
           \/ /\ MerchantRow(m).volume.issued + Dashboard(m).stampsIssued
                   - MerchantRow(m).volume.redeemed = held
              /\ MapThenSumSet(LAMBDA r : r.points, pages) = held

\* A day that is over keeps its row in every report, whatever day it is read,
\* unless its customer is deleted or a session that began on the day commits late.
ClosedDaysStay ==
    [][\A m \in Merchants : \A d \in Day(0) .. (Today - 1) :
        \/ DayRow({m}, d)' = DayRow({m}, d)
        \/ \E r \in Requests :
              /\ pc[r] # pc'[r]
              /\ \/ pc[r] = "delTransactions"
                 \/ pc[r] = "commit" /\ Day(at[r]) = d]_vars
=============================================================================
