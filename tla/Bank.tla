-------------------------------- MODULE Bank --------------------------------
(* The bank as the programs of pybob read it: the accounts, the rows of      *)
(* transactions, and every report that the private API, the dashboard, Slack *)
(* and the walls of shame make of them.  A report takes the time of the      *)
(* connection's transaction, which is what now() is in PostgreSQL.           *)
EXTENDS Integers, Sequences, FiniteSets, SequencesExt

CONSTANTS
  Users,
  Codes,               \* barcodes of products
  NoCode,              \* transactions.barcode is NULL
  Cups, Kegs, Emptied, \* of coldbrew: a cup, the varieties; the cash box emptied
  BulkOf,              \* products.bulkid, by code
  DayLength,           \* ticks of a day
  Days,                \* of the reports: [week, recent, month, year, shame, quiet]
  WallDebt, BigDebt    \* the balances that put on the wall, and on the screen

ASSUME BankConstants ==
  /\ Cups \cup Kegs \cup {Emptied} \subseteq Codes /\ NoCode \notin Codes
  /\ Cups \cap Kegs = {}
  /\ DayLength \in Nat \ {0}
  /\ Days \in [week : Nat \ {0}, recent : Nat \ {0}, month : Nat, year : Nat, shame : Nat, quiet : Nat]
  /\ Days.recent < Days.month
  /\ {BigDebt, WallDebt} \subseteq Int /\ BigDebt <= WallDebt /\ WallDebt < 0

VARIABLES
  now,     \* the time, in ticks
  people,  \* users: [balance, entered, bought, disabled]
  xacts    \* transactions: rows [id, at, user, value, code, cash]

bank == <<now, people, xacts>>

(* a row of users                                                            *)
Account == [balance : Int, entered : Int, bought : Int, disabled : BOOLEAN]

Never == -1000   \* a time that is NULL
Day(t) == t \div DayLength
Hour(t) == t % DayLength
Midnight(d) == d * DayLength
Sum(S, f(_)) ==
  LET sum[T \in SUBSET S] == IF T = {} THEN 0 ELSE LET x == CHOOSE x \in T : TRUE IN f(x) + sum[T \ {x}]
  IN  sum[S]
Total(R) == Sum(R, LAMBDA x : x.value)
Bought(R) == {x \in R : x.value < 0}
Paid(R) == {x \in R : x.value > 0}
Buyers(R) == {x.user : x \in R}
(* the entries of s that are in T, in their order *)
Kept(s, T) ==
  LET upTo[n \in 0 .. Len(s)] ==
        IF n = 0 THEN <<>> ELSE IF s[n] \in T THEN Append(upTo[n - 1], s[n]) ELSE upTo[n - 1]
  IN  upTo[Len(s)]
LastOf(R) == {x \in R : \A y \in R : y.at <= x.at}

-----------------------------------------------------------------------------
(* The dashboard.                                                            *)

(* get_day_stats: the last 24 hours. *)
DayStats(t) ==
  LET R == {x \in xacts : x.at >= t - DayLength}
  IN  [n |-> Cardinality(R), purchases |-> Cardinality(Bought(R)), purchased |-> Total(Bought(R)),
       deposits |-> Cardinality(Paid(R)), deposited |-> Total(Paid(R)), net |-> Total(R)]

(* Mutant: with the row of the first midnight. *)
DayRowsFrom(t) == {x \in xacts : x.at >= Midnight(Day(t) - Days.recent)}
(* get_day_transactions, get_month_transactions: after the instant. *)
DayRows(t) == {x \in xacts : x.at > Midnight(Day(t) - Days.recent)}
MonthRows(t) == {x \in xacts : x.at > t - Days.month * DayLength}

(* get_sales_stats: of each day up to window days ago, and of now. *)
SalesStats(t, R, window) ==
  [ago \in 0 .. window |->
     LET D == {x \in R : Day(t) - Day(x.at) = ago} IN [sold |-> Cardinality(D), users |-> Cardinality(Buyers(D))]]
SoldOf(i) == {x \in xacts : x.code # NoCode /\ BulkOf[x.code] = i}
SoldAs(C) == {x \in xacts : x.code \in C}

(* get_daily_aggregate_stats: a row of every day with purchases. *)
Aggregate(t) ==
  LET R == {x \in Bought(xacts) : x.at > Midnight(Day(t) - Days.month)}
      On(d) == {x \in R : Day(x.at) = d}
  IN  [d \in {Day(x.at) : x \in R} |->
         [revenue |-> -Total(On(d)), users |-> Cardinality(Buyers(On(d))), n |-> Cardinality(On(d))]]

(* get_day_average_data: this hour of today, and of the same weekday of a    *)
(* year as the sum and the number of days it is divided by.  A row of        *)
(* exactly midnight is of neither.                                           *)
HourStats(t) ==
  [h \in 0 .. DayLength - 1 |->
     LET At(R) == {x \in R : Hour(x.at) = h}
         today == At({x \in xacts : x.at > Midnight(Day(t))})
         before == At({x \in xacts : /\ Midnight(Day(t) - Days.year) < x.at /\ x.at < Midnight(Day(t))
                                     /\ (Day(t) - Day(x.at)) % Days.week = 0})
         known == today # {} \/ h <= Hour(t)
     IN  [known |-> known, sales |-> -Total(Bought(today)), deposits |-> Total(Paid(today)),
          usual |-> -Total(Bought(before)), usualDeposits |-> Total(Paid(before)),
          over |-> Cardinality({Day(x.at) : x \in before})]]

(* get_deposited_cash since the cash box was emptied: by value [n, total].   *)
CashOf(R) ==
  LET C == {x \in R : x.cash /\ x.value >= 1}
  IN  [v \in {x.value : x \in C} |-> Cardinality({x \in C : x.value = v})]
SinceEmptied == LastOf(SoldAs({Emptied}))
DepositedCash == CashOf({x \in xacts : \E e \in SinceEmptied : x.at > e.at})

(* cold_brew_sold_since_last_refresh, and the query of the coldbrew service. *)
CupsSold == Cardinality({x \in SoldAs(Cups) : \E k \in LastOf(SoldAs(Kegs)) : x.at > k.at})

-----------------------------------------------------------------------------
(* The walls.                                                                *)

Enabled == {u \in Users : ~people[u].disabled}
EnteredBefore(u, t) == people[u].entered # Never /\ people[u].entered < t
BoughtSince(u, t) == people[u].bought # Never /\ people[u].bought > t

(* get_wall_of_shame, and the lines and colours of Slack's /wallofshame. *)
ApiWall(t) ==
  {u \in Enabled : /\ BoughtSince(u, t - Days.quiet * DayLength)
                   /\ people[u].balance <= WallDebt \/ EnteredBefore(u, t - Days.shame * DayLength)}
DaysOnWall(u, t) == (t - people[u].entered) \div DayLength
Severe(u, t) == people[u].balance <= BigDebt \/ DaysOnWall(u, t) >= Days.shame
SlackWall(t) == [u \in ApiWall(t) |-> IF Severe(u, t) THEN "error" ELSE "line"]

(* The page of the wall, and who is on its screen. *)
Debtors == {u \in Enabled : people[u].balance <= WallDebt}
HighDebt(t) == {u \in Enabled : people[u].balance <= BigDebt /\ BoughtSince(u, t - Days.quiet * DayLength)}
Delinquent(t) == {u \in Enabled : EnteredBefore(u, t - Days.shame * DayLength) /\ BoughtSince(u, t - 2 * Days.quiet * DayLength)}

(* get_time_on_wall: back through the rows to the one before which the       *)
(* balance was above the wall's.                                             *)
BalanceBefore(u, x) == people[u].balance - Total({y \in xacts : y.user = u /\ y.at >= x.at})
TimeOnWall(u) ==
  LET above == {x \in xacts : x.user = u /\ BalanceBefore(u, x) > WallDebt}
  IN  IF above = {} THEN Never ELSE (CHOOSE x \in LastOf(above) : TRUE).at

(* What the database's trigger keeps of a user whose balance changes. *)
Moved(u, value, code, at) ==
  LET balance == people[u].balance + value
  IN  [people[u] EXCEPT !.balance = balance, !.bought = IF value < 0 THEN at ELSE @,
                        !.entered = IF balance > WallDebt THEN Never ELSE IF @ = Never THEN at ELSE @]
-----------------------------------------------------------------------------
(* Properties.                                                               *)

(* The reports of the dashboard give the same figures for what they have in  *)
(* common: sales of a day, by item, in the list of the last days; what was   *)
(* spent on a day, by the month's report and in that list; what was spent    *)
(* today, by the month's and by the hours' report; what came in and went out *)
(* in 24 hours, in parts and net.  What they differ by are the rows of       *)
(* exactly midnight, no more and no less: the list lacks those that open its *)
(* first day, and the hours those that open today.                           *)
AtMidnight(d) == {x \in xacts : x.at = Midnight(d)}
DashboardsAgree ==
  LET today == Day(now)
      OfDay(ago) == {x \in DayRows(now) : Day(x.at) = today - ago}
      Lacks(ago) == IF ago = Days.recent THEN AtMidnight(today - ago) ELSE {}
      items == {BulkOf[c] : c \in Codes}
      aggregate == Aggregate(now)
      hours == HourStats(now)
      stats == DayStats(now)
  IN  /\ \A ago \in 0 .. Days.recent :
           LET R == OfDay(ago) \cup Lacks(ago)
           IN  /\ OfDay(ago) \cap Lacks(ago) = {}
               /\ \A i \in items : SalesStats(now, SoldOf(i), Days.recent)[ago].sold =
                                     Cardinality({x \in R : x.code # NoCode /\ BulkOf[x.code] = i})
               /\ Bought(R) # {} =>
                    /\ today - ago \in DOMAIN aggregate
                    /\ aggregate[today - ago].revenue = -Total(Bought(R))
      /\ Sum(DOMAIN hours, LAMBDA h : hours[h].sales) - Total(Bought(AtMidnight(today))) =
           IF today \in DOMAIN aggregate THEN aggregate[today].revenue ELSE 0
      /\ \A h \in DOMAIN hours : hours[h].over = 0 => hours[h].usual = 0 /\ hours[h].usualDeposits = 0
      /\ stats.net = stats.purchased + stats.deposited
      /\ stats.n = Cardinality({x \in MonthRows(now) : x.at >= now - DayLength})
=============================================================================
