-------------------------------- MODULE Stock --------------------------------
(* What the shop knows of its stock: the counts somebody took, the lines of  *)
(* the orders that were delivered, and the sales of the bank.  Seven         *)
(* programs work out from these tables what must be on the shelves, what is  *)
(* missing and what to order; each is an operator here.                      *)
EXTENDS Integers, Sequences, FiniteSets, SequencesExt

CONSTANTS
  Items,         \* ids of bulk_items
  DayLength,     \* ticks in a day
  Scale,         \* parts of the smallest coin that a cost is divided into
  Window         \* days of sales that estimate_order looks back on

ASSUME StockConstants ==
  Items \subseteq Nat /\ IsFiniteSet(Items) /\ {DayLength, Scale, Window} \subseteq Nat \ {0}

VARIABLES
  now,       \* the time
  bulk,      \* bulk_items: by id [price, taxed, size, active, reserve]
  counts,    \* inventory: rows [at, item, units, halves, loose, size]: half cases
  orders,    \* orders: by id [day, amount]
  lines,     \* order_items: by id [order, item, size, number, cost, taxed, scanned]
  sales      \* the bank's purchases of these items: rows [id, at, item]

stock == <<now, bulk, counts, orders, lines, sales>>

BulkRows == [price : Nat, taxed : BOOLEAN, size : Nat \ {0}, active : BOOLEAN, reserve : Nat]
CountRows == [at : Int, item : Items, units : Nat, halves : Nat, loose : Nat, size : Nat \ {0}]

Day(t) == t \div DayLength
Midnight(d) == d * DayLength
Today == Day(now)
Larger(a, b) == IF a > b THEN a ELSE b
Ceiling(a, b) == -((-a) \div b)
Sum(S, f(_)) ==
  LET sum[T \in SUBSET S] == IF T = {} THEN 0 ELSE LET x == CHOOSE x \in T : TRUE IN f(x) + sum[T \ {x}]
  IN  sum[S]
Latest(S) == CHOOSE x \in S : \A y \in S : y <= x
Units(l) == lines[l].size * lines[l].number
ItemLines(i) == {l \in DOMAIN lines : lines[l].item = i}
ItemSales(i) == {s \in sales : s.item = i}
Delivered(i, Meets(_)) == Sum({l \in ItemLines(i) : Meets(orders[lines[l].order].day)}, Units)
Sold(i, Meets(_)) == Cardinality({s \in ItemSales(i) : Meets(s.at)})

-----------------------------------------------------------------------------
(* Inventory.get_inventory_summary.  The count must bear the date itself to  *)
(* be joined, so one with a time of day gives a date and no units.           *)

DaysCounted(i, upTo) == {Day(c.at) : c \in {c \in counts : c.item = i /\ Day(c.at) <= upTo}}
OldCounts(i, upTo) ==
  {c \in counts : c.item = i /\ DaysCounted(i, upTo) # {} /\ c.at = Midnight(Latest(DaysCounted(i, upTo)))}

(* Mutant: what was sold on the day of the count is taken off once more. *)
AfterOnDay(d, i, upTo) == \A e \in DaysCounted(i, upTo) : d >= e
(* Movements of day d count when no count up to the day is as late.          *)
After(d, i, upTo) == \A e \in DaysCounted(i, upTo) : d > e

Summary(i, date, latest) ==
  LET upTo == IF latest THEN date ELSE date - 1
      old == Sum(OldCounts(i, upTo), LAMBDA c : c.units)
      bought == Delivered(i, LAMBDA d : d <= date /\ After(d, i, upTo))
      sold == Sold(i, LAMBDA t : Day(t) <= date /\ After(Day(t), i, upTo))
  IN  [estimate |-> old + bought - sold, old |-> old, bought |-> bought, sold |-> sold]

(* Inventory.get_inventory: the last row the query returns stands.           *)
CountsOn(i, d) == {c \in counts : c.item = i /\ Day(c.at) = d}

(* Inventory.get_sales and estimate_order: the cases of every active item.   *)
SalesBetween(i, from, to) == Sold(i, LAMBDA t : Day(t) \in from .. to)
EstimateOrder(i) ==
  LET b == bulk[i]
      have == Larger(Summary(i, Today, TRUE).estimate, 0)
      fifths == 5 * (SalesBetween(i, Today - Window, Today) - have) + Larger(5 * b.reserve, b.size)
  IN  IF b.active THEN Larger(Ceiling(fifths, 5 * b.size), 0) ELSE 0

(* get_inventory_steps of the private API, which a page replays for a chart: *)
(* a count sets what remains, a delivery adds and a sale takes off.          *)
Charted(i, from) ==
  LET C == {c \in counts : c.item = i /\ c.at > from}
      Later(t) == t > from /\ \A c \in C : c.at < t
  IN  Sum({c \in C : \A d \in C : d.at <= c.at}, LAMBDA c : c.units)
        + Delivered(i, LAMBDA d : Later(Midnight(d))) - Sold(i, LAMBDA t : Later(t))

-----------------------------------------------------------------------------
(* The views of easy_inventory and create_order_estimate, to the instant.    *)

LastInventory(i) == {c \in counts : c.item = i /\ bulk[i].active /\ \A d \in counts : d.item = i => d.at <= c.at}
Recent(t, i) == \A c \in LastInventory(i) : t > c.at
CurrentInventory(i) ==
  LET counted == Sum(LastInventory(i), LAMBDA c : c.units)
      ordered == Delivered(i, LAMBDA d : Recent(Midnight(d), i))
      sold == Sold(i, LAMBDA t : Recent(t, i))
  IN  [known |-> LastInventory(i) # {} \/ sold > 0, remaining |-> counted + ordered - sold]

(* create_order_estimate: what was sold since the last order will be again.  *)
SinceOrder(i) ==
  LET last == {orders[o].day : o \in DOMAIN orders}
  IN  IF last = {} THEN 0 ELSE Sold(i, LAMBDA t : t > Midnight(Latest(last)))
(* Mutant: only what is missing, with nothing in case demand exceeds it. *)
ToBuyExactly(i) ==
  LET remaining == CurrentInventory(i).remaining  projected == remaining - SinceOrder(i)
  IN  IF ~CurrentInventory(i).known \/ ~bulk[i].active THEN 0
      ELSE IF projected <= 0 THEN Ceiling(-projected, bulk[i].size)
      ELSE IF remaining > 0 THEN 0 ELSE 1
(* A quarter of a case is added.                                             *)
ToBuy(i) ==
  LET remaining == CurrentInventory(i).remaining  projected == remaining - SinceOrder(i)
  IN  IF ~CurrentInventory(i).known \/ ~bulk[i].active THEN 0
      ELSE IF projected <= 0 THEN Ceiling(4 * (-projected) + bulk[i].size, 4 * bulk[i].size)
      ELSE IF remaining > 0 THEN 0 ELSE 1

(* easy_inventory: the items to count first are low by its reckoning and not *)
(* counted for a while; the fortnight and the 90 days are Window days here.  *)
EasyInventory ==
  {i \in Items : /\ CurrentInventory(i).known /\ bulk[i].active
                 /\ CurrentInventory(i).remaining < 6
                 /\ CurrentInventory(i).remaining <= bulk[i].size
                 /\ \A c \in LastInventory(i) : c.at <= now - Window * DayLength
                 /\ \E s \in sales : s.item = i /\ s.at > now - Window * DayLength}

(* loss_reports: what is missing at count c against the count before it.     *)
Previous(c) ==
  {p \in counts : /\ p.item = c.item /\ p.at < c.at
                  /\ \A q \in counts : q.item = c.item /\ q.at < c.at => q.at <= p.at}
Loss(c, p) ==
  p.units - Sold(c.item, LAMBDA t : t > p.at /\ t < c.at)
    + Delivered(c.item, LAMBDA d : Midnight(d) > p.at /\ Midnight(d) < c.at) - c.units

-----------------------------------------------------------------------------
(* generate_inventory_report: the stock of one item from day to day, at cost.*)
(* Costs are whole parts of a coin; a division rounds down.                  *)

(* price_estimates: the cheapest of the last order before the start.         *)
PriceBefore(i, start) ==
  LET past == {l \in ItemLines(i) : orders[lines[l].order].day < start}
      last == {l \in past : \A k \in past : orders[lines[k].order].day <= orders[lines[l].order].day}
      prices == {(Scale * lines[l].cost) \div lines[l].size : l \in last}
  IN  IF prices = {} THEN 0 ELSE CHOOSE x \in prices : \A y \in prices : x <= y

(* inv of one item, with the number and the value of all events yielded.     *)
Yield(inv, n, v) == [inv EXCEPT !.count = @ + n, !.cost = @ + v, !.moved = @ + n, !.worth = @ + v]
Initial(i, start) ==
  LET n == Summary(i, start - 1, TRUE).estimate  p == PriceBefore(i, start)
  IN  Yield([count |-> 0, cost |-> 0, price |-> p, moved |-> 0, worth |-> 0, lost |-> <<>>],
            n, IF n > 0 THEN n * p ELSE 0)

(* A delivery to a stock below zero is worth what is left of it.             *)
Receive(inv, l) ==
  LET n == Units(l)  full == Scale * lines[l].cost * lines[l].number
  IN  Yield(inv, n, IF inv.count < 0 THEN Larger((full * (inv.count + n)) \div n, 0) ELSE full)
(* A sale takes its part of the cost, computed to 28 digits and so rounded   *)
(* after the multiplication here, but not more than all of it.               *)
Part(inv, n) == (n * inv.cost) \div inv.count
(* Mutant: a sale of more than there is takes more than all of the cost. *)
SellAll(inv, n) ==
  Yield(inv, -n, IF inv.count <= 0 THEN 0 ELSE IF n = inv.count THEN -inv.cost ELSE -Part(inv, n))
Sell(inv, n) ==
  Yield(inv, -n, CASE inv.count <= 0 -> 0
                   [] n = inv.count -> -inv.cost
                   [] OTHER -> -(IF Part(inv, n) < inv.cost THEN Part(inv, n) ELSE inv.cost))
Reprice(inv) == [inv EXCEPT !.price = IF inv.count > 0 THEN inv.cost \div inv.count ELSE @]
Recount(inv, c) ==
  IF c.units = inv.count THEN inv
  ELSE [Yield(inv, c.units - inv.count, inv.price * c.units - inv.cost)
          EXCEPT !.lost = Append(@, [at |-> c.at, units |-> inv.count - c.units])]

(* A day: its deliveries, its sales, the new price, its counts.              *)
ReportDay(inv, i, d) ==
  LET received == FoldSet(LAMBDA l, x : Receive(x, l), inv,
                          {l \in ItemLines(i) : orders[lines[l].order].day = d /\ Units(l) # 0})
      n == Sold(i, LAMBDA t : Day(t) = d)
      moved == {l \in ItemLines(i) : orders[lines[l].order].day = d} # {} \/ n > 0
      sold == IF n > 0 THEN Sell(received, n) ELSE received
  IN  FoldSet(LAMBDA c, x : Recount(x, c), IF moved THEN Reprice(sold) ELSE sold, CountsOn(i, d))
Report(i, start, end) ==
  LET day[d \in start - 1 .. end] == IF d < start THEN Initial(i, start) ELSE ReportDay(day[d - 1], i, d)
  IN  day[end]
=============================================================================
