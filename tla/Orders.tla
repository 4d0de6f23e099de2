------------------------------- MODULE Orders -------------------------------
(* Deliveries: the service chezbob.accept_order, whose scanners count the    *)
(* cases of today's order as they come in, and the pages of orders, whose    *)
(* ajax requests read a row, change what the form asks for and save the      *)
(* whole row.  With Inventory, everything that writes the tables of Stock.   *)
EXTENDS Inventory

CONSTANTS
  OrderIds, LineIds,       \* ids the two serial columns hand out
  NotScanned,              \* NULL
  Edits,                   \* what the requests ask for: see Load
  Bulk0, Orders0, Lines0, Sales0,   \* what the tables hold at first
  SaleIds,                 \* ids of sales of the bank
  Start                    \* the time at first

VARIABLES
  acceptor,  \* the service: [broken, orderOf, scans]; orderOf caches by day
  desk,      \* the state of each request
  given,     \* the ids of lines that the serial column has handed out
  boxes,     \* history: cases scanned, by day and item
  moved,     \* history: days that an order was moved from or to, or added to
  lost       \* history: orders and items whose lines were deleted, or saved
             \* over what another wrote

accepting == <<acceptor, desk, given, boxes, moved, lost>>
vars == <<shift, stock, counting, accepting>>

LineRows ==
  [order : OrderIds, item : Items, size : Nat \ {0}, number : Int, cost : Nat, taxed : BOOLEAN,
   scanned : Int \cup {NotScanned}]
Kinds == {"line", "form", "delete", "new", "price", "size", "details", "finance", "order"}

(* Nobody types a case of no units; nothing was counted or sold that is yet  *)
(* to come.                                                                  *)
ASSUME OrdersConstants ==
  /\ Start \in Nat /\ NotScanned \notin Int
  /\ Bulk0 \in [Items -> BulkRows]
  /\ IsFiniteSet(DOMAIN Lines0) /\ IsFiniteSet(Sales0)
  /\ \A s \in Sales0 : s.at \in Int /\ s.at <= Start
  /\ DOMAIN Orders0 \subseteq OrderIds /\ \A o \in DOMAIN Orders0 : Orders0[o].day \in Int
  /\ \A l \in DOMAIN Lines0 : Lines0[l] \in LineRows /\ Lines0[l].order \in DOMAIN Orders0
  /\ \A s \in Shifts : s.ticks \in Nat /\ \A c \in s.counted : c.at <= Start
  /\ \A e \in Edits :
       /\ e.kind \in Kinds
       /\ e.kind = "line" => e.number \in Int /\ e.size \in Nat \ {0} /\ e.cost \in Nat
       /\ e.kind \in {"new", "price", "size"} => e.item \in Items
       /\ e.kind = "new" => e.number \in Int
       /\ e.kind \in {"details", "order"} => e.day \in Int
       /\ e.kind = "price" => e.price \in Nat /\ e.taxed \in BOOLEAN
       /\ e.kind = "size" => e.size \in Nat \ {0}

LinesOf(o, i) == {l \in DOMAIN lines : lines[l].order = o /\ lines[l].item = i}
Scanned(l) == IF lines[l].scanned = NotScanned THEN 0 ELSE lines[l].scanned
PutRow(f, id, row) == [x \in DOMAIN f \cup {id} |-> IF x = id THEN row ELSE f[x]]
Fresh(ids, used) == {id \in ids \ used : \A x \in ids \ used : id <= x}

-----------------------------------------------------------------------------
(* The service.  _get_order_id looks up an order of the day once and keeps   *)
(* it; _common_update runs one UPDATE, answers and commits.                  *)

OrderOfToday ==
  IF Today \in DOMAIN acceptor.orderOf THEN {acceptor.orderOf[Today]}
  ELSE {o \in DOMAIN orders : orders[o].day = Today}
Served(o) == [acceptor EXCEPT !.scans = @ + 1, !.orderOf = PutRow(@, Today, o)]
MayScan == acceptor.scans < shift.scans /\ ~acceptor.broken
Accepted(i, n) == boxes' = [boxes EXCEPT ![<<Today, i>>] = @ + n]

(* scan: every line of the order with the item of the barcode, one more.     *)
(* modify does the same by one more or one less.                             *)
(* Mutant: the first scan of a case is not counted. *)
CountCasesFromZero(o, i, n) ==
  lines' = [l \in DOMAIN lines |-> IF l \notin LinesOf(o, i) THEN lines[l]
              ELSE [lines[l] EXCEPT !.scanned = IF @ = NotScanned THEN 0 ELSE @ + n]]
CountCases(o, i, n) ==
  lines' = [l \in DOMAIN lines |-> IF l \notin LinesOf(o, i) THEN lines[l]
              ELSE [lines[l] EXCEPT !.scanned = Scanned(l) + n]]
Scan(i, n) ==
  /\ MayScan
  /\ \E o \in OrderOfToday :
       /\ LinesOf(o, i) # {}
       /\ CountCases(o, i, n)
       /\ acceptor' = Served(o)
       /\ Accepted(i, n)
  /\ UNCHANGED <<desk, given, moved, lost, counting, now, bulk, counts, orders, sales>>

(* resolve: what was scanned is what was ordered; if that is nothing, the    *)
(* order loses its lines of nothing.  A line that nobody scanned has no      *)
(* number of cases to take over, and the error leaves the connection useless.*)
Resolve(i) ==
  /\ MayScan
  /\ \E o \in OrderOfToday :
       LET L == LinesOf(o, i)
           resolved == [l \in DOMAIN lines |-> IF l \in L THEN [lines[l] EXCEPT !.number = lines[l].scanned] ELSE lines[l]]
           gone == {l \in DOMAIN lines : resolved[l].order = o /\ resolved[l].number = 0}
       IN  /\ L # {}
           /\ IF \E l \in L : lines[l].scanned = NotScanned
              THEN acceptor' = [Served(o) EXCEPT !.broken = TRUE] /\ UNCHANGED <<lines, lost>>
              ELSE /\ acceptor' = Served(o)
                   /\ \E first \in L :
                        LET drop == IF resolved[first].number = 0 THEN gone ELSE {}
                        IN  /\ lines' = [l \in DOMAIN lines \ drop |-> resolved[l]]
                            /\ lost' = lost \cup {<<o, lines[l].item>> : l \in drop}
  /\ UNCHANGED <<desk, given, boxes, moved, counting, now, bulk, counts, orders, sales>>

(* get_unresolved of an order.                                               *)
Unresolved(o) == {l \in DOMAIN lines : lines[l].order = o /\ lines[l].number # Scanned(l)}

-----------------------------------------------------------------------------
(* The pages.  order_summary first loads its order; a request on a line or a *)
(* bulk item then loads that one, and what it finds is what it will save.    *)

Load(r, e) ==
  /\ r \in shift.desks /\ desk[r].pc = "idle"
  /\ e.kind # "order" => e.order \in DOMAIN orders
  /\ e.kind \in {"line", "form", "delete"} => e.line \in DOMAIN lines
  /\ e.kind = "delete" => lines[e.line].order = e.order
  /\ desk' = [desk EXCEPT ![r] =
       [pc |-> "save", edit |-> e,
        found |-> CASE e.kind \in {"line", "form", "delete"} -> lines[e.line]
                    [] e.kind \in {"new", "price", "size"} -> bulk[e.item]
                    [] e.kind \in {"details", "finance"} -> orders[e.order]
                    [] OTHER -> <<>>]]
  /\ UNCHANGED <<acceptor, given, boxes, moved, lost, counting, stock>>

Found(r) == desk[r].found
Saves(r, kinds) == desk[r].pc = "save" /\ desk[r].edit.kind \in kinds
Saved(r) == desk' = [desk EXCEPT ![r] = [pc |-> "done"]]

(* update_order_item.  A row that is gone is inserted again.                 *)
Rewrite(r, row) ==
  LET l == desk[r].edit.line
  IN  /\ lines' = PutRow(lines, l, row)
      /\ lost' = IF l \in DOMAIN lines /\ lines[l].scanned = row.scanned THEN lost
                 ELSE lost \cup {<<row.order, row.item>>}
SaveLine(r) ==
  /\ Saves(r, {"line"})
  /\ Rewrite(r, [Found(r) EXCEPT !.number = desk[r].edit.number, !.size = desk[r].edit.size, !.cost = desk[r].edit.cost])
  /\ Saved(r)
  /\ UNCHANGED <<acceptor, given, boxes, moved, counting, now, bulk, counts, orders, sales>>

(* The form of the whole page sets number, quantity and costs, attributes    *)
(* that the row no longer has, and so saves the row as it was; its new items *)
(* fail on the same names and are dropped without a word.                    *)
SaveForm(r) ==
  /\ Saves(r, {"form"})
  /\ Rewrite(r, Found(r))
  /\ Saved(r)
  /\ UNCHANGED <<acceptor, given, boxes, moved, counting, now, bulk, counts, orders, sales>>

(* delete_order_item, or the form with its number cleared.                   *)
DeleteLine(r) ==
  /\ Saves(r, {"delete"})
  /\ lines' = [l \in DOMAIN lines \ {desk[r].edit.line} |-> lines[l]]
  /\ lost' = lost \cup {<<Found(r).order, Found(r).item>>}
  /\ Saved(r)
  /\ UNCHANGED <<acceptor, given, boxes, moved, counting, now, bulk, counts, orders, sales>>

(* new_order_item and add_item: the bulk item's size and price, not scanned. *)
NewLine(r) ==
  /\ Saves(r, {"new"})
  /\ \E l \in Fresh(LineIds, given) :
       /\ given' = given \cup {l}
       /\ lines' = PutRow(lines, l, [order |-> desk[r].edit.order, item |-> desk[r].edit.item, size |-> Found(r).size,
                                     number |-> desk[r].edit.number, cost |-> Found(r).price, taxed |-> Found(r).taxed,
                                     scanned |-> NotScanned])
  /\ Saved(r)
  /\ UNCHANGED <<acceptor, boxes, moved, lost, counting, now, bulk, counts, orders, sales>>

(* update_bulk_price and update_bulk_quantity.                               *)
SaveBulk(r) ==
  /\ Saves(r, {"price", "size"})
  /\ bulk' = [bulk EXCEPT ![desk[r].edit.item] =
                IF desk[r].edit.kind = "price" THEN [Found(r) EXCEPT !.price = desk[r].edit.price, !.taxed = desk[r].edit.taxed]
                ELSE [Found(r) EXCEPT !.size = desk[r].edit.size]]
  /\ Saved(r)
  /\ UNCHANGED <<acceptor, given, boxes, moved, lost, counting, now, counts, orders, lines, sales>>

(* update_details and save_details; update_finance_details saves the date as *)
(* it was found, whatever it is by now.                                      *)
SaveOrder(r) ==
  /\ Saves(r, {"details", "finance"})
  /\ LET o == desk[r].edit.order
         row == IF desk[r].edit.kind = "finance" THEN Found(r)
                ELSE [day |-> desk[r].edit.day, amount |-> desk[r].edit.amount]
     IN  /\ orders' = [orders EXCEPT ![o] = row]
         /\ moved' = IF row.day = orders[o].day THEN moved ELSE moved \cup {row.day, orders[o].day}
  /\ Saved(r)
  /\ UNCHANGED <<acceptor, given, boxes, lost, counting, now, bulk, counts, lines, sales>>

(* new_order.                                                                *)
NewOrder(r) ==
  /\ Saves(r, {"order"})
  /\ \E o \in Fresh(OrderIds, DOMAIN orders) :
       orders' = PutRow(orders, o, [day |-> desk[r].edit.day, amount |-> desk[r].edit.amount])
  /\ moved' = moved \cup {desk[r].edit.day}
  /\ Saved(r)
  /\ UNCHANGED <<acceptor, given, boxes, lost, counting, now, bulk, counts, lines, sales>>

OrdersNext ==
  \/ \E i \in Items : (\E n \in {-1, 1} : Scan(i, n)) \/ Resolve(i)
  \/ \E r \in Desks :
       \/ \E e \in Edits : Load(r, e)
       \/ SaveLine(r) \/ SaveForm(r) \/ DeleteLine(r) \/ NewLine(r) \/ SaveBulk(r) \/ SaveOrder(r) \/ NewOrder(r)

(* Meanwhile the shop sells, and time goes by.                               *)
Sale(i) ==
  /\ Cardinality(sales \ Sales0) < shift.sells
  /\ \E s \in {s \in SaleIds : \A x \in sales : x.id < s} :
       /\ \A y \in SaleIds : y < s => \E x \in sales : x.id = y
       /\ sales' = sales \cup {[id |-> s, at |-> now, item |-> i]}
  /\ UNCHANGED <<shift, accepting, counting, now, bulk, counts, orders, lines>>
Tick ==
  /\ now < Start + shift.ticks
  /\ now' = now + 1
  /\ UNCHANGED <<shift, accepting, counting, bulk, counts, orders, lines, sales>>

(* What was scanned before is what the line of the day and the item says.    *)
BusyDays == {Orders0[o].day : o \in DOMAIN Orders0} \cup 0 .. Day(Start + shift.ticks)
Of(l, x) == orders[lines[l].order].day = x[1] /\ lines[l].item = x[2]

Init ==
  /\ shift \in Shifts
  /\ now = Start /\ bulk = Bulk0 /\ orders = Orders0 /\ lines = Lines0 /\ sales = Sales0
  /\ counts = shift.counted
  /\ server = [protected |-> {}, staged |-> <<>>, since |-> None, broken |-> FALSE, calls |-> 0]
  /\ add = Idle /\ said = <<>> /\ raced = {}
  /\ page = [p \in Pages |-> Idle] /\ desk = [r \in Desks |-> Idle]
  /\ acceptor = [broken |-> FALSE, orderOf |-> <<>>, scans |-> 0]
  /\ boxes = [x \in BusyDays \X Items |->
               IF \E l \in DOMAIN lines : Of(l, x) THEN Scanned(CHOOSE l \in DOMAIN lines : Of(l, x)) ELSE 0]
  /\ given = DOMAIN lines /\ moved = {} /\ lost = {}

Next ==
  \/ InventoryNext /\ UNCHANGED <<shift, accepting>>
  \/ OrdersNext /\ UNCHANGED shift
  \/ \E i \in Items : Sale(i)
  \/ Tick
Spec == Init /\ [][Next]_vars

-----------------------------------------------------------------------------
(* Properties.                                                               *)

TypeOK ==
  /\ InventoryTypeOK
  /\ \A l \in DOMAIN lines : /\ lines[l].order \in DOMAIN orders /\ lines[l].item \in Items
                             /\ lines[l].size \in Nat \ {0} /\ lines[l].scanned \in Int \cup {NotScanned}
  /\ \A d \in DOMAIN acceptor.orderOf : acceptor.orderOf[d] \in DOMAIN orders
  /\ \A r \in Desks : desk[r].pc \in {"idle", "save", "done"}

(* The cases a line is said to have got are those whose scans were answered  *)
(* OK on the day of its order - if its day has this one order and keeps it,  *)
(* the order has one line of the item, and no page saved over a scan.        *)
ScansKept ==
  \A l \in DOMAIN lines :
    LET o == lines[l].order  i == lines[l].item  d == orders[o].day
    IN  \/ d \in moved \/ <<o, i>> \in lost
        \/ \E p \in DOMAIN orders \ {o} : orders[p].day = d
        \/ LinesOf(o, i) # {l}
        \/ /\ Scanned(l) = boxes[<<d, i>>]
           /\ l \in Unresolved(o) <=> lines[l].number # boxes[<<d, i>>]

(* The counts of i bear the date alone, one each day; and nothing was sold   *)
(* or delivered on the day of a count, which reports to the day and reports  *)
(* to the instant take differently.                                          *)
ByDay(i) == \A c \in counts : c.item = i => c.at = Midnight(Day(c.at)) /\ CountsOn(i, Day(c.at)) = {c}
Quiet(i) ==
  \A c \in counts : c.item = i =>
    /\ Sold(i, LAMBDA t : Day(t) = Day(c.at)) = 0
    /\ \A l \in DOMAIN lines : lines[l].item = i => orders[lines[l].order].day # Day(c.at)
(* No order is of a later day, and none was resolved with fewer than no case.*)
Delivers == \A l \in DOMAIN lines : orders[lines[l].order].day <= Today /\ lines[l].number >= 0

(* Four programs estimate the stock of an item: the admin page, the cheat    *)
(* sheet and the chart of the public API, whatever count its window begins   *)
(* with, and the report of the inventory's value, from whatever day it       *)
(* starts.  They agree, and loss_reports finds missing what the report calls *)
(* shrinkage.                                                                *)
EstimatesAgree ==
  Delivers => \A i \in {i \in Items : ByDay(i) /\ bulk[i].active} :
    LET estimate == Summary(i, Today, TRUE).estimate
    IN  /\ Quiet(i) => /\ CurrentInventory(i).remaining = estimate
                       /\ i \in EasyInventory => estimate <= bulk[i].size
                       /\ \A c \in counts : c.item = i => Charted(i, c.at - 1) = estimate
        /\ \A start \in 1 .. Today :
             LET report == Report(i, start, Today)
             IN  /\ report.count = estimate
                 /\ Quiet(i) => \A c \in counts, p \in counts :
                      c.item = i /\ p \in Previous(c) /\ Day(p.at) >= start =>
                        Sum({k \in DOMAIN report.lost : report.lost[k].at = c.at}, LAMBDA k : report.lost[k].units) = Loss(c, p)

(* generate_inventory_report's own invariants (util/inventory.py:67-74): no  *)
(* stock has a negative cost or price, none at or below zero has a cost; and *)
(* what it reports adds up to what it ends with.                             *)
ReportSound ==
  Delivers => \A i \in Items, start \in 1 .. Today :
    LET report == Report(i, start, Today)
    IN  /\ report.cost >= 0 /\ report.price >= 0
        /\ report.count <= 0 => report.cost = 0
        /\ report.moved = report.count /\ report.worth = report.cost

(* Both programs that propose an order cover what they expect to be sold:    *)
(* with the proposal the stock lasts as long as it did this time.            *)
OrdersCover ==
  \A i \in Items :
    bulk[i].active =>
      /\ Larger(Summary(i, Today, TRUE).estimate, 0) + EstimateOrder(i) * bulk[i].size
           >= SalesBetween(i, Today - Window, Today) + bulk[i].reserve
      /\ CurrentInventory(i).known =>
           /\ CurrentInventory(i).remaining + ToBuy(i) * bulk[i].size >= SinceOrder(i)
           /\ CurrentInventory(i).remaining <= 0 => ToBuy(i) >= 1
=============================================================================
