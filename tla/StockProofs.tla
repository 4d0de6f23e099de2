---------------------------- MODULE StockProofs ----------------------------
(* Theorems about the tables of the stock, whoever takes inventory, accepts  *)
(* an order or edits one: the counts, what the service said of them, the     *)
(* cases that were scanned, and what the programs report and propose that    *)
(* sum them up.                                                              *)
EXTENDS Orders, Sums, FiniteSetTheorems, TLAPS

-----------------------------------------------------------------------------
(* Types.  What a request of the orders' pages found is a row, and the lines *)
(* that two of them found under one id are of the same order and item.       *)

ServerType ==
  /\ DOMAIN server = {"protected", "staged", "since", "broken", "calls"}
  /\ server.protected \subseteq Items /\ DOMAIN server.staged \subseteq Items
  /\ \A i \in DOMAIN server.staged : server.staged[i] \in Nat
  /\ server.since \in Nat \cup {None}
  /\ ~Direct => add = Idle /\ server.since = None
  /\ add # Idle => add.item \in Items \ server.protected /\ add.n \in Int /\ server.since \in Nat

PageType(p) ==
  /\ page[p].pc \in {"idle", "shown", "insert", "done"}
  /\ page[p].pc \in {"shown", "insert"} => page[p].day \in Int /\ page[p].size \in [Items -> Nat \ {0}]
  /\ page[p].pc = "insert" => page[p].item \in Items /\ page[p].form \in [Items -> Typed]

OnLine(r) == desk[r].pc = "save" /\ desk[r].edit.kind \in {"line", "form", "delete"}
DeskType(r) ==
  /\ desk[r].pc \in {"idle", "save", "done"}
  /\ desk[r].pc = "save" => desk[r].edit \in Edits
  /\ desk[r].pc = "save" /\ desk[r].edit.kind # "order" => desk[r].edit.order \in DOMAIN orders
  /\ Saves(r, {"new", "price", "size"}) => Found(r) \in BulkRows
  /\ OnLine(r) => /\ desk[r].edit.line \in given
                  /\ Found(r) \in LineRows /\ Found(r).order \in DOMAIN orders
                  /\ desk[r].edit.line \in DOMAIN lines =>
                       /\ lines[desk[r].edit.line].order = Found(r).order
                       /\ lines[desk[r].edit.line].item = Found(r).item
                  /\ \A q \in Desks : OnLine(q) /\ desk[q].edit.line = desk[r].edit.line =>
                       Found(q).order = Found(r).order /\ Found(q).item = Found(r).item

TimeType == shift \in Shifts /\ now \in Start .. Start + shift.ticks
InventoryType ==
  /\ counts \subseteq CountRows /\ IsFiniteSet(counts)
  /\ ServerType
  /\ DOMAIN said \subseteq Items
  /\ DOMAIN page = Pages /\ \A p \in Pages : PageType(p)
LinesType ==
  /\ DOMAIN orders \subseteq OrderIds
  /\ DOMAIN lines \subseteq given
  /\ \A l \in DOMAIN lines : lines[l] \in LineRows /\ lines[l].order \in DOMAIN orders
AcceptorType ==
  /\ DOMAIN acceptor = {"broken", "orderOf", "scans"}
  /\ \A d \in DOMAIN acceptor.orderOf : acceptor.orderOf[d] \in DOMAIN orders
BulkType == bulk \in [Items -> BulkRows]
DesksType == DOMAIN desk = Desks /\ \A r \in Desks : DeskType(r)
TypeInv == TimeType /\ BulkType /\ InventoryType /\ LinesType /\ AcceptorType /\ DesksType

-----------------------------------------------------------------------------
(* The invariants.                                                           *)

(* Between the two statements of a page no other count has come in, unless   *)
(* somebody else was writing it.                                             *)
HolesKept ==
  \A p \in Pages :
    page[p].pc = "insert" =>
      <<page[p].day, page[p].item>> \in raced \/ CountsOn(page[p].item, page[p].day) = {}
OnePerDay ==
  \A c \in counts, d \in counts :
    c.item = d.item /\ Day(c.at) = Day(d.at) => c = d \/ <<Day(c.at), c.item>> \in raced
CountsInv == HolesKept /\ OnePerDay /\ \A c \in counts : AddsUp(c)

(* The order that the service keeps for a day is of that day, or was moved.  *)
CacheKept ==
  \A d \in DOMAIN acceptor.orderOf :
    LET e == orders[acceptor.orderOf[d]].day IN e = d \/ {d, e} \subseteq moved
DaysKnown ==
  /\ \A o \in DOMAIN orders : orders[o].day \in moved \cup BusyDays
  /\ DOMAIN boxes = BusyDays \X Items /\ \A x \in DOMAIN boxes : boxes[x] \in Int
(* Scans of an item without a line would be missed when it gets one.         *)
Matches(o, i) ==
  LET n == boxes[<<orders[o].day, i>>]
  IN  /\ LinesOf(o, i) = {} => n = 0
      /\ \A l \in LinesOf(o, i) : LinesOf(o, i) = {l} => Scanned(l) = n
Excused(o, i) ==
  \/ orders[o].day \in moved \/ <<o, i>> \in lost
  \/ \E p \in DOMAIN orders \ {o} : orders[p].day = orders[o].day
ScansInv ==
  CacheKept /\ DaysKnown /\ \A o \in DOMAIN orders, i \in Items : Excused(o, i) \/ Matches(o, i)

-----------------------------------------------------------------------------
(* Days.                                                                     *)

LEMMA DivFacts ==
  ASSUME NEW n \in Int, NEW k \in Nat \ {0}
  PROVE  /\ n \div k \in Int /\ n % k \in 0 .. k - 1
         /\ n = k * (n \div k) + (n % k)
         /\ n \in Nat => n \div k \in Nat
<1>1. n \div k \in Int /\ n % k \in 0 .. k - 1
  OBVIOUS
<1>2. n = k * (n \div k) + (n % k)
  OBVIOUS
<1>3. ASSUME NEW q \in Int, NEW r \in 0 .. k - 1, n = k * q + r, n \in Nat
      PROVE  q \in Nat
  <2>1. SUFFICES ASSUME q <= -1 PROVE FALSE
    OBVIOUS
  <2>2. k * q <= k * (-1)
    BY <2>1
  <2> QED
    BY <1>3, <2>2
<1>4. n \in Nat => n \div k \in Nat
  BY <1>1, <1>2, <1>3
<1> QED
  BY <1>1, <1>2, <1>4, Zenon

LEMMA DivOnly ==
  ASSUME NEW n \in Int, NEW k \in Nat \ {0}, NEW q \in Int, NEW r \in 0 .. k - 1, n = k * q + r
  PROVE  n \div k = q
  OBVIOUS

LEMMA DayFacts ==
  ASSUME NEW t \in Int
  PROVE  /\ Day(t) \in Int /\ Midnight(Day(t)) \in Int
         /\ Midnight(Day(t)) <= t
         /\ t \in Nat => Day(t) \in Nat
<1>1. DayLength \in Nat \ {0}
  BY StockConstants
<1>2. /\ t \div DayLength \in Int /\ t % DayLength \in 0 .. DayLength - 1
      /\ t = DayLength * (t \div DayLength) + (t % DayLength)
      /\ t \in Nat => t \div DayLength \in Nat
  BY <1>1, DivFacts
<1> QED
  BY <1>1, <1>2 DEF Day, Midnight

LEMMA DayOfMidnight ==
  ASSUME NEW d \in Int
  PROVE  Midnight(d) \in Int /\ Day(Midnight(d)) = d
<1>1. DayLength \in Nat \ {0}
  BY StockConstants
<1>2. d * DayLength \in Int /\ d * DayLength = DayLength * d + 0 /\ 0 \in 0 .. DayLength - 1
  BY <1>1
<1>3. (d * DayLength) \div DayLength = d
  BY <1>1, <1>2, DivOnly
<1> QED
  BY <1>2, <1>3 DEF Day, Midnight

LEMMA DayMonotone ==
  ASSUME NEW t \in Int, NEW u \in Int, t <= u
  PROVE  Day(t) <= Day(u)
<1>1. DayLength \in Nat \ {0}
  BY StockConstants
<1>2. /\ t \div DayLength \in Int /\ t % DayLength \in 0 .. DayLength - 1
      /\ t = DayLength * (t \div DayLength) + (t % DayLength)
  BY <1>1, DivFacts
<1>3. /\ u \div DayLength \in Int /\ u % DayLength \in 0 .. DayLength - 1
      /\ u = DayLength * (u \div DayLength) + (u % DayLength)
  BY <1>1, DivFacts
<1> QED
  BY <1>1, <1>2, <1>3 DEF Day

(* A count at or after the midnight of a day is not of an earlier day. *)
LEMMA SinceCovers ==
  ASSUME NEW t \in Int, NEW d \in Int, Day(t) = d
  PROVE  t >= Midnight(d)
  BY DayFacts

-----------------------------------------------------------------------------
(* Types are kept.                                                           *)

LEMMA TypeInit == Init => TypeInv
<1> SUFFICES ASSUME Init PROVE TypeInv
  OBVIOUS
<1> USE DEF Init
<1>0. DOMAIN <<>> = {}
  OBVIOUS
<1>1. TimeType
  BY OrdersConstants DEF TimeType
<1>2. BulkType
  BY OrdersConstants DEF BulkType
<1>3. InventoryType
  <2>1. counts \subseteq CountRows /\ IsFiniteSet(counts)
    BY InventoryConstants
  <2>2. ServerType
    BY <1>0 DEF ServerType, None, Idle, Direct
  <2>3. DOMAIN said \subseteq Items
    BY <1>0
  <2>4. DOMAIN page = Pages /\ \A p \in Pages : PageType(p)
    BY DEF PageType, Idle
  <2> QED
    BY <2>1, <2>2, <2>3, <2>4 DEF InventoryType
<1>4. LinesType
  BY OrdersConstants DEF LinesType
<1>5. AcceptorType
  BY <1>0 DEF AcceptorType
<1>6. DesksType
  BY DEF DesksType, DeskType, OnLine, Saves, Idle
<1> QED
  BY <1>1, <1>2, <1>3, <1>4, <1>5, <1>6 DEF TypeInv

(* The pages of orders and the scans at the door leave the counts alone, and *)
(* whoever counts leaves the orders alone.                                   *)
LEMMA InventoryFrame ==
  ASSUME InventoryType, UNCHANGED <<shift, counting, counts>>
  PROVE  InventoryType'
<1>1. ServerType'
  BY DEF InventoryType, ServerType, Direct, counting
<1>2. \A p \in Pages : PageType(p)'
  BY DEF InventoryType, PageType, counting
<1> QED
  BY <1>1, <1>2 DEF InventoryType, counting

LEMMA OrdersFrame ==
  ASSUME TimeType, BulkType, LinesType, AcceptorType, DesksType,
         UNCHANGED <<shift, accepting, now, bulk, orders, lines>>
  PROVE  TimeType' /\ BulkType' /\ LinesType' /\ AcceptorType' /\ DesksType'
<1>1. \A r \in Desks : DeskType(r)'
  BY DEF DesksType, DeskType, OnLine, Saves, Found, accepting
<1> QED
  BY <1>1 DEF TimeType, BulkType, LinesType, AcceptorType, DesksType, accepting

(* What a count made of a number is. *)
LEMMA RowFacts ==
  ASSUME NEW t \in Int, NEW i \in Items, NEW n \in Nat, NEW size \in Nat \ {0}
  PROVE  /\ RowAt(t, i, n, size) \in CountRows /\ AddsUp(RowAt(t, i, n, size))
         /\ RowAt(t, i, n, size).item = i /\ RowAt(t, i, n, size).units = n
         /\ Day(RowAt(t, i, n, size).at) = Day(t)
<1>1. Stamp(t) \in Int /\ Day(Stamp(t)) = Day(t)
  BY DayFacts, DayOfMidnight DEF Stamp
<1> DEFINE q == n \div size  r == n % size
<1>2. q \in Nat /\ r \in Nat /\ n = size * q + r
  BY DivFacts
<1>3. ((2 * q) * size) \div 2 = size * q
  <2>1. size * q \in Int /\ (2 * q) * size = 2 * (size * q) + 0
    BY <1>2
  <2> QED
    BY <2>1, <1>2, DivOnly
<1> QED
  BY <1>1, <1>2, <1>3 DEF RowAt, CountRows, AddsUp

LEMMA TimeFacts ==
  ASSUME TypeInv
  PROVE  /\ now \in Nat /\ Began \in Nat /\ ServerDay \in Nat /\ Today \in Nat
         /\ server.since # None => ServerDay = Day(server.since)
         /\ server.since = None => ServerDay = Today
<1>1. now \in Nat /\ Start \in Nat /\ shift.ticks \in Nat
  BY OrdersConstants DEF TypeInv, TimeType
<1>2. Began \in Nat
  BY <1>1 DEF TypeInv, InventoryType, ServerType, Began
<1> QED
  BY <1>1, <1>2, DayFacts DEF ServerDay, Today, Began

LEMMA SizeFacts ==
  ASSUME TypeInv, NEW i \in Items
  PROVE  bulk[i].size \in Nat \ {0}
  BY DEF TypeInv, BulkType, BulkRows

(* What is said of an item is about an item. *)
LEMMA SaidItems ==
  ASSUME DOMAIN said \subseteq Items, NEW i \in Items, NEW v, NEW S
  PROVE  Tell(i, v) \/ Forget(S) => DOMAIN said' \subseteq Items
  BY DEF Tell, Forget

(* The calls that neither write a count nor leave one half written. *)
LEMMA QuietCallType ==
  ASSUME InventoryType, MayCall, UNCHANGED <<shift, add, page, counts>>,
         DOMAIN server' = DOMAIN server, server'.protected \subseteq Items,
         DOMAIN server'.staged \subseteq Items, \A i \in DOMAIN server'.staged : server'.staged[i] \in Nat,
         server'.since \in Nat \cup {None}, ~Direct => server'.since = None,
         DOMAIN said' \subseteq Items
  PROVE  InventoryType'
<1>1. ServerType'
  BY DEF InventoryType, ServerType, MayCall, Direct
<1>2. \A p \in Pages : PageType(p)'
  BY DEF InventoryType, PageType
<1> QED
  BY <1>1, <1>2 DEF InventoryType

LEMMA AddedFacts ==
  ASSUME TypeInv, add # Idle, NEW c \in CountRows
  PROVE  /\ Added(c, add.n) \in CountRows /\ Added(c, add.n).units \in Nat
         /\ Added(c, add.n).item = c.item /\ AddsUp(Added(c, add.n))
         /\ Day(Added(c, add.n).at) = ServerDay
<1>1. server.since \in Nat /\ add.n \in Int
  BY DEF TypeInv, InventoryType, ServerType
<1>2. c.units \in Nat /\ c.item \in Items /\ c.size \in Nat \ {0}
  BY DEF CountRows
<1>3. Larger(c.units + add.n, 0) \in Nat
  BY <1>1, <1>2 DEF Larger
<1>4. ServerDay = Day(server.since)
  BY <1>1, TimeFacts DEF None
<1> QED
  BY <1>1, <1>2, <1>3, <1>4, RowFacts DEF Added

LEMMA AddWriteRows ==
  ASSUME TypeInv, add # Idle,
         NEW all, all = CountsOn(add.item, ServerDay)
                        \cup (IF add.seen THEN {} ELSE {RowAt(server.since, add.item, 0, bulk[add.item].size)})
  PROVE  /\ all \subseteq CountRows /\ IsFiniteSet(all)
         /\ \A c \in all : c.item = add.item /\ Day(c.at) = ServerDay
<1>1. server.since \in Nat /\ add.item \in Items /\ ServerDay = Day(server.since)
  BY TimeFacts DEF TypeInv, InventoryType, ServerType, None
<1>2. LET row == RowAt(server.since, add.item, 0, bulk[add.item].size)
      IN  row \in CountRows /\ row.item = add.item /\ Day(row.at) = ServerDay
  BY <1>1, SizeFacts, RowFacts
<1>3. /\ CountsOn(add.item, ServerDay) \subseteq counts
      /\ \A c \in CountsOn(add.item, ServerDay) : c.item = add.item /\ Day(c.at) = ServerDay
  BY DEF CountsOn
<1>4. IsFiniteSet(CountsOn(add.item, ServerDay))
  BY <1>3, FS_Subset DEF TypeInv, InventoryType
<1>5. IsFiniteSet(all)
  BY <1>4, FS_AddElement, FS_EmptySet, FS_Union, FS_Singleton
<1> QED
  BY <1>1, <1>2, <1>3, <1>5 DEF TypeInv, InventoryType

LEMMA FiniteImage ==
  ASSUME NEW S, IsFiniteSet(S), NEW f, f = [x \in S |-> f[x]]
  PROVE  IsFiniteSet({f[x] : x \in S})
<1>1. f \in Surjection(S, {f[x] : x \in S})
  BY DEF Surjection
<1> QED
  BY <1>1, FS_Surjection

LEMMA RowsFinite ==
  ASSUME TypeInv, NEW S \in SUBSET Items, NEW t \in Int, NEW n \in [S -> Nat]
  PROVE  /\ IsFiniteSet({RowAt(t, i, n[i], bulk[i].size) : i \in S})
         /\ {RowAt(t, i, n[i], bulk[i].size) : i \in S} \subseteq CountRows
<1> DEFINE f == [i \in S |-> RowAt(t, i, n[i], bulk[i].size)]
<1>1. IsFiniteSet(S)
  BY FS_Subset, StockConstants
<1>2. IsFiniteSet({f[i] : i \in S})
  <2>1. f = [i \in S |-> f[i]]
    OBVIOUS
  <2> HIDE DEF f
  <2> QED
    BY <1>1, <2>1, FiniteImage
<1>3. {f[i] : i \in S} = {RowAt(t, i, n[i], bulk[i].size) : i \in S}
  OBVIOUS
<1>4. \A i \in S : RowAt(t, i, n[i], bulk[i].size) \in CountRows
  BY SizeFacts, RowFacts
<1> QED
  BY <1>2, <1>3, <1>4

(* The zeros that are written for what nobody counted. *)
LEMMA ZerosFinite ==
  ASSUME TypeInv, NEW S \in SUBSET Items, NEW t \in Int
  PROVE  /\ IsFiniteSet({RowAt(t, i, 0, bulk[i].size) : i \in S})
         /\ {RowAt(t, i, 0, bulk[i].size) : i \in S} \subseteq CountRows
<1> DEFINE n == [i \in S |-> 0]
<1>1. n \in [S -> Nat]
  OBVIOUS
<1>2. {RowAt(t, i, n[i], bulk[i].size) : i \in S} = {RowAt(t, i, 0, bulk[i].size) : i \in S}
  OBVIOUS
<1> HIDE DEF n
<1>3. /\ IsFiniteSet({RowAt(t, i, n[i], bulk[i].size) : i \in S})
      /\ {RowAt(t, i, n[i], bulk[i].size) : i \in S} \subseteq CountRows
  BY <1>1, RowsFinite
<1> QED
  BY <1>2, <1>3

LEMMA AtMostOne ==
  ASSUME NEW S, IsFiniteSet(S), ~(Cardinality(S) > 1)
  PROVE  S = {} \/ \E x : S = {x}
<1>1. Cardinality(S) \in Nat
  BY FS_CardinalityType
<1>2. Cardinality(S) = 0 \/ Cardinality(S) = 1
  BY <1>1
<1> QED
  BY <1>2, FS_EmptySet, FS_Singleton

(* What add_to_inventory writes, unless the database refuses it: the row of  *)
(* the day and the item, or nothing.                                         *)
LEMMA AddWriteCounts ==
  ASSUME TypeInv, AddWrite
  PROVE  \/ counts' = counts /\ said' = said /\ server' = [server EXCEPT !.broken = TRUE]
         \/ counts' = counts /\ said' = said /\ server' = [server EXCEPT !.since = None]
         \/ /\ server' = [server EXCEPT !.since = None]
            /\ \E c \in CountRows :
                 /\ c.item = add.item /\ Day(c.at) = ServerDay
                 /\ CountsOn(add.item, ServerDay) \subseteq {c}
                 /\ counts' = (counts \ {c}) \cup {Added(c, add.n)}
                 /\ Tell(add.item, [day |-> ServerDay, units |-> Added(c, add.n).units])
<1> DEFINE row == RowAt(server.since, add.item, 0, bulk[add.item].size)
           all == CountsOn(add.item, ServerDay) \cup (IF add.seen THEN {} ELSE {row})
<1>1. /\ all \subseteq CountRows /\ IsFiniteSet(all)
      /\ \A c \in all : c.item = add.item /\ Day(c.at) = ServerDay
  BY AddWriteRows DEF AddWrite
<1>2. \/ counts' = counts /\ said' = said /\ server' = [server EXCEPT !.broken = TRUE]
      \/ /\ ~(Cardinality(all) > 1)
         /\ counts' = (counts \ all) \cup {Added(c, add.n) : c \in all}
         /\ server' = [server EXCEPT !.since = None]
         /\ \/ all = {} /\ said' = said
            \/ \E c \in all : Tell(add.item, [day |-> ServerDay, units |-> Added(c, add.n).units])
  BY DEF AddWrite
<1>3. CountsOn(add.item, ServerDay) \subseteq all
  OBVIOUS
<1> HIDE DEF all
<1>4. CASE ~(Cardinality(all) > 1)
  <2>1. all = {} \/ \E c : all = {c}
    BY <1>1, <1>4, AtMostOne
  <2>2. CASE all = {}
    BY <1>2, <2>2
  <2>3. ASSUME NEW c, all = {c}
        PROVE  \/ counts' = counts /\ said' = said /\ server' = [server EXCEPT !.broken = TRUE]
               \/ /\ server' = [server EXCEPT !.since = None]
                  /\ counts' = (counts \ {c}) \cup {Added(c, add.n)}
                  /\ Tell(add.item, [day |-> ServerDay, units |-> Added(c, add.n).units])
    BY <1>2, <2>3
  <2> QED
    BY <1>1, <1>3, <2>1, <2>2, <2>3
<1> QED
  BY <1>2, <1>4

LEMMA CallsKeepType ==
  ASSUME TypeInv, UNCHANGED shift,
         \/ \E i \in Items, n \in Boxes : AddLook(i, n) \/ StageAdd(i, n)
         \/ \E i \in Items : Read(i) \/ RemoveFromInventory(i) \/ Flag(i) \/ Unflag(i)
         \/ Reset
  PROVE  InventoryType'
<1>0. /\ InventoryType /\ ServerType /\ Began \in Nat /\ \A n \in Boxes : n \in Int
      /\ {} \subseteq Items /\ DOMAIN <<>> = {} /\ DOMAIN said \subseteq Items
  BY TimeFacts, InventoryConstants DEF TypeInv, InventoryType
<1> USE <1>0 DEF ServerType, Called, stock
<1>1. ASSUME NEW i \in Items, NEW n \in Boxes, AddLook(i, n)
      PROVE  InventoryType'
  <2>1. ServerType'
    BY <1>1 DEF AddLook, MayCall, Direct, Idle
  <2>2. \A p \in Pages : PageType(p)'
    BY <1>1 DEF AddLook, InventoryType, PageType
  <2> QED
    BY <1>1, <2>1, <2>2 DEF AddLook, InventoryType
<1>2. ASSUME NEW i \in Items, NEW n \in Boxes, StageAdd(i, n)
      PROVE  InventoryType'
  <2>1. Larger((IF i \in DOMAIN server.staged THEN server.staged[i] ELSE 0) + n, 0) \in Nat
    BY DEF Larger
  <2>2. DOMAIN said' \subseteq Items
    BY <1>2 DEF StageAdd, Tell
  <2> QED
    BY <1>2, <2>1, <2>2, QuietCallType DEF StageAdd, MayCall
<1>3. ASSUME NEW i \in Items, Read(i) PROVE InventoryType'
  <2>1. DOMAIN server' = DOMAIN server /\ server'.protected = server.protected
    BY <1>3 DEF Read
  <2>2. server'.since \in Nat \cup {None} /\ (~Direct => server'.since = None)
    BY <1>3 DEF Read
  <2>3. /\ DOMAIN server'.staged \subseteq Items
        /\ \A j \in DOMAIN server'.staged : server'.staged[j] \in Nat
    BY <1>3 DEF Read
  <2> QED
    BY <1>3, <2>1, <2>2, <2>3, QuietCallType DEF Read
<1>4. ASSUME NEW i \in Items, RemoveFromInventory(i) PROVE InventoryType'
  BY <1>4, QuietCallType DEF RemoveFromInventory
<1>5. ASSUME NEW i \in Items, Flag(i) PROVE InventoryType'
  <2>1. DOMAIN said' \subseteq Items
    BY <1>5 DEF Flag, Tell
  <2> QED
    BY <1>5, <2>1, QuietCallType DEF Flag
<1>6. ASSUME NEW i \in Items, Unflag(i) PROVE InventoryType'
  <2>1. DOMAIN said' \subseteq Items
    BY <1>6 DEF Unflag, Forget
  <2> QED
    BY <1>6, <2>1, QuietCallType DEF Unflag
<1>7. CASE Reset
  <2>1. DOMAIN said' \subseteq Items
    BY <1>7 DEF Reset, Forget
  <2> QED
    BY <1>7, <2>1, QuietCallType DEF Reset
<1> QED
  BY <1>1, <1>2, <1>3, <1>4, <1>5, <1>6, <1>7

LEMMA WritesKeepType ==
  ASSUME TypeInv, UNCHANGED shift, AddWrite \/ ZeroUnprotected \/ \E b \in BOOLEAN : Commit(b)
  PROVE  InventoryType'
<1>0. /\ InventoryType /\ ServerType /\ Began \in Nat /\ now \in Nat
      /\ {} \subseteq Items /\ DOMAIN <<>> = {} /\ DOMAIN said \subseteq Items
      /\ counts \subseteq CountRows /\ IsFiniteSet(counts)
  BY TimeFacts DEF TypeInv, InventoryType
<1>1. ASSUME UNCHANGED page PROVE \A p \in Pages : PageType(p)'
  BY <1>0, <1>1 DEF InventoryType, PageType
<1>2. CASE AddWrite
  <2>1. counts' \subseteq CountRows /\ IsFiniteSet(counts') /\ DOMAIN said' \subseteq Items
    <3>1. add.item \in Items
      BY <1>0, <1>2 DEF AddWrite, ServerType
    <3>2. ASSUME NEW c \in CountRows, counts' = (counts \ {c}) \cup {Added(c, add.n)},
                 Tell(add.item, [day |-> ServerDay, units |-> Added(c, add.n).units])
          PROVE  counts' \subseteq CountRows /\ IsFiniteSet(counts') /\ DOMAIN said' \subseteq Items
      <4>1. Added(c, add.n) \in CountRows
        BY <1>2, AddedFacts DEF AddWrite
      <4>2. IsFiniteSet(counts')
        BY <1>0, <3>2, FS_Subset, FS_AddElement
      <4> QED
        BY <1>0, <3>1, <3>2, <4>1, <4>2 DEF Tell
    <3> QED
      BY <1>0, <1>2, <3>2, AddWriteCounts
  <2>2. ServerType'
    <3>1. /\ \/ server' = [server EXCEPT !.broken = TRUE] \/ server' = [server EXCEPT !.since = None]
          /\ add' = Idle
      BY <1>2, AddWriteCounts DEF AddWrite
    <3> QED
      BY <1>0, <1>2, <3>1 DEF AddWrite, ServerType, Direct
  <2> QED
    BY <1>1, <1>2, <2>1, <2>2, <1>0 DEF InventoryType, AddWrite
<1>3. CASE ZeroUnprotected
  <2>1. counts' \subseteq CountRows /\ IsFiniteSet(counts')
    <3> DEFINE S == {i \in Items \ server.protected : bulk[i].active /\ SinceMidnight(i) = {}}
    <3>1. counts' = counts \cup {RowAt(Began, i, 0, bulk[i].size) : i \in S}
      BY <1>3 DEF ZeroUnprotected
    <3>2. S \in SUBSET Items /\ Began \in Int
      BY <1>0
    <3> HIDE DEF S
    <3>3. /\ IsFiniteSet({RowAt(Began, i, 0, bulk[i].size) : i \in S})
          /\ {RowAt(Began, i, 0, bulk[i].size) : i \in S} \subseteq CountRows
      BY <3>2, ZerosFinite
    <3> QED
      BY <1>0, <3>1, <3>3, FS_Union
  <2>2. ServerType'
    BY <1>0, <1>3 DEF ZeroUnprotected, ServerType, Called, Direct, MayCall
  <2> QED
    BY <1>1, <1>3, <2>1, <2>2, <1>0 DEF InventoryType, ZeroUnprotected, Forget
<1>4. ASSUME NEW b \in BOOLEAN, Commit(b)
      PROVE  InventoryType'
  <2>1. counts' \subseteq CountRows /\ IsFiniteSet(counts')
    <3> DEFINE staged == DOMAIN server.staged
               touched == server.protected \cup staged
               blanks == IF b /\ touched # {}
                         THEN {i \in Items \ touched : bulk[i].active /\ SinceMidnight(i) = {}} ELSE {}
               n == [i \in staged |-> server.staged[i]]
    <3>1. staged \subseteq Items /\ blanks \subseteq Items /\ n \in [staged -> Nat]
      BY <1>0 DEF ServerType
    <3>2. counts' = (counts \ UNION {SinceMidnight(i) : i \in touched})
                      \cup {RowAt(now, i, 0, bulk[i].size) : i \in blanks}
                      \cup {RowAt(now, i, n[i], bulk[i].size) : i \in staged}
      BY <1>4 DEF Commit
    <3> HIDE DEF staged, blanks, n, touched
    <3>3. IsFiniteSet(counts \ UNION {SinceMidnight(i) : i \in touched})
      BY <1>0, FS_Subset
    <3>4. /\ IsFiniteSet({RowAt(now, i, 0, bulk[i].size) : i \in blanks})
          /\ {RowAt(now, i, 0, bulk[i].size) : i \in blanks} \subseteq CountRows
      BY <1>0, <3>1, ZerosFinite
    <3>5. /\ IsFiniteSet({RowAt(now, i, n[i], bulk[i].size) : i \in staged})
          /\ {RowAt(now, i, n[i], bulk[i].size) : i \in staged} \subseteq CountRows
      <4>1. staged \in SUBSET Items /\ now \in Int /\ n \in [staged -> Nat]
        BY <1>0, <3>1
      <4> QED
        BY <4>1, RowsFinite
    <3> QED
      BY <1>0, <3>2, <3>3, <3>4, <3>5, FS_Union
  <2>2. ServerType'
    BY <1>0, <1>4 DEF Commit, ServerType, Called, Direct, MayCall
  <2> QED
    BY <1>1, <1>4, <2>1, <2>2, <1>0 DEF InventoryType, Commit, Forget
<1> QED
  BY <1>2, <1>3, <1>4

LEMMA FormFacts ==
  ASSUME NEW h \in Nat, NEW l \in Nat, NEW size \in Nat \ {0}
  PROVE  /\ HalfEven(h * size) + l \in Nat
         /\ (h * size) % 2 = 0 => HalfEven(h * size) = (h * size) \div 2
<1>1. h * size \in Nat
  OBVIOUS
<1>2. ASSUME NEW n \in Nat
      PROVE  HalfEven(n) \in Nat /\ (n % 2 = 0 => HalfEven(n) = n \div 2)
  BY DEF HalfEven
<1> QED
  BY <1>1, <1>2

(* What the page writes for an item. *)
LEMMA FormRowFacts ==
  ASSUME TypeInv, NEW p \in Pages, page[p].pc = "insert", page[p].form[page[p].item] # <<>>
  PROVE  LET row == FormRow(p, page[p].item)
         IN  /\ row \in CountRows /\ AddsUp(row)
             /\ row.item = page[p].item /\ Day(row.at) = page[p].day
<1>1. /\ page[p].day \in Int /\ page[p].size \in [Items -> Nat \ {0}]
      /\ page[p].item \in Items /\ page[p].form \in [Items -> Typed]
  BY DEF TypeInv, InventoryType, PageType
<1> DEFINE f == page[p].form[page[p].item]  size == page[p].size[page[p].item]
<1>2. f \in Nat \X Nat
  BY <1>1, InventoryConstants
<1>3. f[1] \in Nat /\ f[2] \in Nat /\ size \in Nat \ {0}
  BY <1>1, <1>2
<1>4. HalfEven(f[1] * size) + f[2] \in Nat
      /\ ((f[1] * size) % 2 = 0 => HalfEven(f[1] * size) = (f[1] * size) \div 2)
  BY <1>3, FormFacts
<1>5. Midnight(page[p].day) \in Int /\ Day(Midnight(page[p].day)) = page[p].day
  BY <1>1, DayOfMidnight
<1> QED
  BY <1>1, <1>3, <1>4, <1>5 DEF FormRow, CountRows, AddsUp

LEMMA PagesKeepType ==
  ASSUME TypeInv, UNCHANGED shift, NEW p \in Pages,
         \/ \E d \in {Today - 1, Today} : PageOpen(p, d)
         \/ PageInsert(p)
         \/ \E form \in [Items -> Typed] : PagePost(p, form)
  PROVE  InventoryType'
<1>0. /\ InventoryType /\ ServerType /\ Today \in Nat /\ DOMAIN said \subseteq Items
      /\ counts \subseteq CountRows /\ IsFiniteSet(counts)
      /\ DOMAIN page = Pages /\ \A q \in Pages : PageType(q)
  BY TimeFacts DEF TypeInv, InventoryType
<1>1. ASSUME UNCHANGED <<server, add>> PROVE ServerType'
  BY <1>0, <1>1 DEF ServerType, Direct
<1>2. ASSUME DOMAIN page' = Pages, PageType(p)', \A q \in Pages \ {p} : page'[q] = page[q]
      PROVE  \A q \in Pages : PageType(q)'
  BY <1>0, <1>2 DEF PageType
<1>3. ASSUME NEW d \in {Today - 1, Today}, PageOpen(p, d)
      PROVE  InventoryType'
  <2>1. \A i \in Items : CountsOn(i, d) # {} => (CHOOSE c \in CountsOn(i, d) : TRUE) \in CountRows
    BY <1>0 DEF CountsOn
  <2>2. \A i \in Items : (IF CountsOn(i, d) = {} THEN bulk[i].size
                          ELSE (CHOOSE c \in CountsOn(i, d) : TRUE).size) \in Nat \ {0}
    BY <2>1, SizeFacts DEF CountRows
  <2>3. PageType(p)'
    <3> DEFINE size == [i \in Items |-> IF CountsOn(i, d) = {} THEN bulk[i].size
                                        ELSE (CHOOSE c \in CountsOn(i, d) : TRUE).size]
    <3>1. size \in [Items -> Nat \ {0}]
      BY <2>2
    <3>2. page'[p].pc = "shown" /\ page'[p].day = d /\ page'[p].size = size
      BY <1>0, <1>3 DEF PageOpen
    <3> HIDE DEF size
    <3> QED
      BY <1>0, <3>1, <3>2 DEF PageType
  <2>4. DOMAIN page' = Pages /\ \A q \in Pages \ {p} : page'[q] = page[q]
    BY <1>0, <1>3 DEF PageOpen
  <2> QED
    BY <1>0, <1>1, <1>2, <1>3, <2>3, <2>4 DEF PageOpen, InventoryType, stock
<1>4. CASE PageInsert(p)
  <2>1. page[p].pc = "insert"
    BY <1>4 DEF PageInsert
  <2>2. counts' \subseteq CountRows /\ IsFiniteSet(counts')
    <3>1. page[p].form[page[p].item] # <<>> => FormRow(p, page[p].item) \in CountRows
      BY <2>1, FormRowFacts
    <3>2. counts' = counts \/ /\ page[p].form[page[p].item] # <<>>
                              /\ counts' = counts \cup {FormRow(p, page[p].item)}
      BY <1>4 DEF PageInsert
    <3> QED
      BY <1>0, <3>1, <3>2, FS_AddElement
  <2>3. PageType(p)'
    BY <1>0, <1>4 DEF PageInsert, PageType
  <2>4. DOMAIN page' = Pages /\ \A q \in Pages \ {p} : page'[q] = page[q]
    BY <1>0, <1>4 DEF PageInsert
  <2> QED
    BY <1>0, <1>1, <1>2, <1>4, <2>2, <2>3, <2>4 DEF PageInsert, InventoryType
<1>5. ASSUME NEW form \in [Items -> Typed], PagePost(p, form)
      PROVE  InventoryType'
  <2>1. PICK i \in FirstOnPage(Modified(p, form)) :
          /\ counts' = counts \ CountsOn(i, page[p].day)
          /\ Forget({i})
          /\ page' = [page EXCEPT ![p] =
                        [pc |-> "insert", day |-> @.day, size |-> @.size, form |-> form, item |-> i]]
    BY <1>5 DEF PagePost
  <2>2. i \in Items
    BY DEF FirstOnPage, Modified
  <2>3. counts' \subseteq CountRows /\ IsFiniteSet(counts')
    BY <1>0, <2>1, FS_Subset
  <2>4. PageType(p)'
    BY <1>0, <1>5, <2>1, <2>2 DEF PagePost, PageType
  <2>5. DOMAIN page' = Pages /\ \A q \in Pages \ {p} : page'[q] = page[q]
    BY <1>0, <2>1
  <2>6. UNCHANGED <<server, add>> /\ DOMAIN said' \subseteq Items
    BY <1>0, <1>5, <2>1 DEF PagePost, Forget
  <2> QED
    BY <1>0, <1>1, <1>2, <2>3, <2>4, <2>5, <2>6 DEF InventoryType
<1> QED
  BY <1>3, <1>4, <1>5

(* A line keeps its order and its item, whoever writes it. *)
LinesStand ==
  \A q \in Desks :
    OnLine(q) /\ desk[q].edit.line \in DOMAIN lines' =>
      /\ lines'[desk[q].edit.line].order = Found(q).order
      /\ lines'[desk[q].edit.line].item = Found(q).item

LEMMA DesksKept ==
  ASSUME DesksType, DOMAIN desk' = Desks,
         \A q \in Desks : desk'[q] = desk[q] \/ desk'[q] = [pc |-> "done"],
         given \subseteq given', DOMAIN orders \subseteq DOMAIN orders', LinesStand
  PROVE  DesksType'
<1> SUFFICES ASSUME NEW r \in Desks PROVE DeskType(r)'
  BY DEF DesksType
<1>1. DeskType(r) /\ \A q \in Desks : OnLine(q)' => desk'[q] = desk[q] /\ OnLine(q)
  BY DEF DesksType, OnLine
<1>2. CASE desk'[r] = [pc |-> "done"]
  BY <1>2 DEF DeskType, Saves, OnLine
<1>3. CASE desk'[r] = desk[r]
  <2>1. /\ desk[r].pc \in {"idle", "save", "done"}
        /\ desk[r].pc = "save" => desk[r].edit \in Edits
        /\ desk[r].pc = "save" /\ desk[r].edit.kind # "order" => desk[r].edit.order \in DOMAIN orders'
        /\ Saves(r, {"new", "price", "size"})' => Found(r)' \in BulkRows
    BY <1>1, <1>3 DEF DeskType, Saves, Found
  <2>2. ASSUME OnLine(r)'
        PROVE  /\ desk'[r].edit.line \in given'
               /\ Found(r)' \in LineRows /\ Found(r)'.order \in DOMAIN orders'
               /\ desk'[r].edit.line \in DOMAIN lines' =>
                    /\ lines'[desk'[r].edit.line].order = Found(r)'.order
                    /\ lines'[desk'[r].edit.line].item = Found(r)'.item
               /\ \A q \in Desks : OnLine(q)' /\ desk'[q].edit.line = desk'[r].edit.line =>
                    Found(q)'.order = Found(r)'.order /\ Found(q)'.item = Found(r)'.item
    <3>1. OnLine(r) /\ Found(r)' = Found(r)
      BY <1>1, <1>3, <2>2 DEF Found
    <3>2. \A q \in Desks : OnLine(q)' => desk'[q] = desk[q] /\ OnLine(q) /\ Found(q)' = Found(q)
      BY <1>1 DEF Found
    <3> QED
      BY <1>1, <1>3, <3>1, <3>2 DEF DeskType, LinesStand
  <2> QED
    BY <1>3, <2>1, <2>2 DEF DeskType
<1> QED
  BY <1>2, <1>3

LEMMA DeskFacts ==
  ASSUME TypeInv, NEW r \in Desks, desk[r].pc = "save"
  PROVE  /\ desk[r].edit \in Edits
         /\ desk[r].edit.kind # "order" => desk[r].edit.order \in DOMAIN orders
         /\ desk[r].edit.kind \in {"new", "price", "size"} => Found(r) \in BulkRows
         /\ OnLine(r) => /\ desk[r].edit.line \in given
                         /\ Found(r) \in LineRows /\ Found(r).order \in DOMAIN orders
                         /\ desk[r].edit.line \in DOMAIN lines =>
                              /\ lines[desk[r].edit.line].order = Found(r).order
                              /\ lines[desk[r].edit.line].item = Found(r).item
  BY DEF TypeInv, DesksType, DeskType, Saves

(* A request has saved when only its own state says so. *)
LEMMA SavedFacts ==
  ASSUME TypeInv, NEW r \in Desks, Saved(r)
  PROVE  DOMAIN desk' = Desks /\ \A q \in Desks : desk'[q] = desk[q] \/ desk'[q] = [pc |-> "done"]
  BY DEF TypeInv, DesksType, Saved

LEMMA LinesStandStill ==
  ASSUME TypeInv, DOMAIN lines' \subseteq DOMAIN lines,
         \A l \in DOMAIN lines' : lines'[l].order = lines[l].order /\ lines'[l].item = lines[l].item
  PROVE  LinesStand
  BY DEF TypeInv, DesksType, DeskType, LinesStand

LEMMA ServedType ==
  ASSUME TypeInv, NEW o \in OrderOfToday
  PROVE  /\ DOMAIN Served(o) = {"broken", "orderOf", "scans"}
         /\ Served(o).orderOf = PutRow(acceptor.orderOf, Today, o)
         /\ o \in DOMAIN orders
  BY DEF TypeInv, AcceptorType, Served, OrderOfToday

LEMMA ScanType ==
  ASSUME TypeInv, UNCHANGED shift, NEW i \in Items, NEW n \in {-1, 1}, Scan(i, n)
  PROVE  TypeInv'
<1>1. PICK o \in OrderOfToday : CountCases(o, i, n) /\ acceptor' = Served(o)
  BY DEF Scan
<1>2. /\ DOMAIN lines' = DOMAIN lines
      /\ \A l \in DOMAIN lines : lines'[l].order = lines[l].order /\ lines'[l].item = lines[l].item
                                 /\ lines'[l] \in LineRows
  <2> SUFFICES ASSUME NEW l \in DOMAIN lines
               PROVE  lines'[l].order = lines[l].order /\ lines'[l].item = lines[l].item
                      /\ lines'[l] \in LineRows
    BY <1>1 DEF CountCases
  <2>1. lines[l] \in LineRows
    BY DEF TypeInv, LinesType
  <2>2. Scanned(l) + n \in Int
    BY <2>1 DEF Scanned, LineRows
  <2>3. lines'[l] = lines[l] \/ lines'[l] = [lines[l] EXCEPT !.scanned = Scanned(l) + n]
    BY <1>1 DEF CountCases
  <2> QED
    BY <2>1, <2>2, <2>3 DEF LineRows
<1>3. LinesStand /\ LinesType'
  BY <1>2, LinesStandStill DEF TypeInv, LinesType, Scan
<1>4. AcceptorType'
  <2>1. DOMAIN acceptor' = {"broken", "orderOf", "scans"} /\ acceptor'.orderOf = PutRow(acceptor.orderOf, Today, o)
    BY <1>1, ServedType
  <2> QED
    BY <2>1, ServedType DEF TypeInv, AcceptorType, PutRow, Scan
<1>5. DesksType'
  BY <1>3, DesksKept DEF TypeInv, DesksType, Scan
<1>6. InventoryType'
  BY InventoryFrame DEF TypeInv, Scan, counting
<1> QED
  BY <1>3, <1>4, <1>5, <1>6 DEF TypeInv, TimeType, BulkType, Scan

(* What resolve does to the lines of the order: it may drop some, and takes  *)
(* over what was scanned for the item.                                       *)
LEMMA ResolveFacts ==
  ASSUME TypeInv, NEW i \in Items, Resolve(i)
  PROVE  \E o \in OrderOfToday :
           /\ acceptor' \in {Served(o), [Served(o) EXCEPT !.broken = TRUE]}
           /\ \/ lines' = lines /\ lost' = lost
              \/ \E D \in SUBSET DOMAIN lines :
                   /\ DOMAIN lines' = DOMAIN lines \ D
                   /\ \A l \in DOMAIN lines' :
                        \/ lines'[l] = lines[l]
                        \/ lines'[l] = [lines[l] EXCEPT !.number = lines[l].scanned] /\ lines[l].scanned # NotScanned
                   /\ \A l \in D : lines[l].order = o
                   /\ lost' = lost \cup {<<o, lines[l].item>> : l \in D}
<1>1. PICK o \in OrderOfToday :
        LET L == LinesOf(o, i)
            resolved == [l \in DOMAIN lines |->
                           IF l \in L THEN [lines[l] EXCEPT !.number = lines[l].scanned] ELSE lines[l]]
            gone == {l \in DOMAIN lines : resolved[l].order = o /\ resolved[l].number = 0}
        IN  IF \E l \in L : lines[l].scanned = NotScanned
            THEN acceptor' = [Served(o) EXCEPT !.broken = TRUE] /\ UNCHANGED <<lines, lost>>
            ELSE /\ acceptor' = Served(o)
                 /\ \E first \in L :
                      LET drop == IF resolved[first].number = 0 THEN gone ELSE {}
                      IN  /\ lines' = [l \in DOMAIN lines \ drop |-> resolved[l]]
                          /\ lost' = lost \cup {<<o, lines[l].item>> : l \in drop}
  BY DEF Resolve
<1> DEFINE L == LinesOf(o, i)
           resolved == [l \in DOMAIN lines |->
                          IF l \in L THEN [lines[l] EXCEPT !.number = lines[l].scanned] ELSE lines[l]]
           gone == {l \in DOMAIN lines : resolved[l].order = o /\ resolved[l].number = 0}
<1>2. CASE \E l \in L : lines[l].scanned = NotScanned
  BY <1>1, <1>2
<1>3. CASE \A l \in L : lines[l].scanned # NotScanned
  <2>1. PICK D : /\ D \in {gone, {}}
                 /\ lines' = [l \in DOMAIN lines \ D |-> resolved[l]]
                 /\ lost' = lost \cup {<<o, lines[l].item>> : l \in D}
    BY <1>1, <1>3
  <2>2. \A l \in DOMAIN lines :
          /\ lines[l] \in LineRows
          /\ \/ resolved[l] = lines[l]
             \/ resolved[l] = [lines[l] EXCEPT !.number = lines[l].scanned] /\ lines[l].scanned # NotScanned
    BY <1>3 DEF TypeInv, LinesType
  <2>3. \A l \in DOMAIN lines : resolved[l].order = lines[l].order
    BY <2>2 DEF LineRows
  <2>4. D \in SUBSET DOMAIN lines /\ \A l \in D : lines[l].order = o
    BY <2>1, <2>3
  <2>5. DOMAIN lines' = DOMAIN lines \ D /\ \A l \in DOMAIN lines' : lines'[l] = resolved[l]
    BY <2>1
  <2> HIDE DEF resolved
  <2>6. /\ DOMAIN lines' = DOMAIN lines \ D
        /\ \A l \in DOMAIN lines' :
             \/ lines'[l] = lines[l]
             \/ lines'[l] = [lines[l] EXCEPT !.number = lines[l].scanned] /\ lines[l].scanned # NotScanned
    BY <2>2, <2>5
  <2>7. acceptor' = Served(o)
    BY <1>1, <1>3
  <2> QED
    BY <2>1, <2>4, <2>6, <2>7
<1> QED
  BY <1>2, <1>3

LEMMA ResolveType ==
  ASSUME TypeInv, UNCHANGED shift, NEW i \in Items, Resolve(i)
  PROVE  TypeInv'
<1>1. PICK o \in OrderOfToday :
        /\ acceptor' \in {Served(o), [Served(o) EXCEPT !.broken = TRUE]}
        /\ \/ lines' = lines
           \/ /\ DOMAIN lines' \subseteq DOMAIN lines
              /\ \A l \in DOMAIN lines' :
                   \/ lines'[l] = lines[l]
                   \/ lines'[l] = [lines[l] EXCEPT !.number = lines[l].scanned] /\ lines[l].scanned # NotScanned
  BY ResolveFacts
<1>2. /\ DOMAIN lines' \subseteq DOMAIN lines
      /\ \A l \in DOMAIN lines' : lines'[l].order = lines[l].order /\ lines'[l].item = lines[l].item
                                  /\ lines'[l] \in LineRows
  <2>1. DOMAIN lines' \subseteq DOMAIN lines
    BY <1>1
  <2>2. ASSUME NEW l \in DOMAIN lines'
        PROVE  lines'[l].order = lines[l].order /\ lines'[l].item = lines[l].item /\ lines'[l] \in LineRows
    <3>1. lines[l] \in LineRows
      BY <2>1 DEF TypeInv, LinesType
    <3>2. \/ lines'[l] = lines[l]
          \/ lines'[l] = [lines[l] EXCEPT !.number = lines[l].scanned] /\ lines[l].scanned # NotScanned
      BY <1>1
    <3> QED
      BY <3>1, <3>2 DEF LineRows
  <2> QED
    BY <2>1, <2>2
<1>3. LinesStand /\ LinesType'
  BY <1>2, LinesStandStill DEF TypeInv, LinesType, Resolve
<1>4. AcceptorType'
  <2>1. DOMAIN acceptor' = {"broken", "orderOf", "scans"} /\ acceptor'.orderOf = PutRow(acceptor.orderOf, Today, o)
    BY <1>1, ServedType
  <2> QED
    BY <2>1, ServedType DEF TypeInv, AcceptorType, PutRow, Resolve
<1>5. DesksType'
  BY <1>3, DesksKept DEF TypeInv, DesksType, Resolve
<1>6. InventoryType'
  BY InventoryFrame DEF TypeInv, Resolve, counting
<1> QED
  BY <1>3, <1>4, <1>5, <1>6 DEF TypeInv, TimeType, BulkType, Resolve

LEMMA LoadType ==
  ASSUME TypeInv, UNCHANGED shift, NEW r \in Desks, NEW e \in Edits, Load(r, e)
  PROVE  TypeInv'
<1> DEFINE found == CASE e.kind \in {"line", "form", "delete"} -> lines[e.line]
                      [] e.kind \in {"new", "price", "size"} -> bulk[e.item]
                      [] e.kind \in {"details", "finance"} -> orders[e.order]
                      [] OTHER -> <<>>
<1>1. /\ desk' = [desk EXCEPT ![r] = [pc |-> "save", edit |-> e, found |-> found]]
      /\ e.kind # "order" => e.order \in DOMAIN orders
      /\ e.kind \in {"line", "form", "delete"} => e.line \in DOMAIN lines
      /\ UNCHANGED <<given, lines, orders>>
  BY DEF Load, stock
<1>2. /\ e.kind \in {"line", "form", "delete"} => found = lines[e.line]
      /\ e.kind \in {"new", "price", "size"} => found = bulk[e.item] /\ e.item \in Items
  BY OrdersConstants
<1> HIDE DEF found
<1>3. /\ desk'[r].pc = "save" /\ desk'[r].edit = e /\ desk'[r].found = found
      /\ DOMAIN desk' = Desks /\ \A q \in Desks \ {r} : desk'[q] = desk[q]
  BY <1>1 DEF TypeInv, DesksType
<1>4. \A q \in Desks : DeskType(q)
  BY DEF TypeInv, DesksType
<1>5. OnLine(r)' => /\ e.line \in DOMAIN lines /\ e.line \in given /\ found = lines[e.line]
                    /\ found \in LineRows /\ found.order \in DOMAIN orders
  BY <1>1, <1>2, <1>3 DEF OnLine, TypeInv, LinesType
<1>6. \A q \in Desks \ {r} : (OnLine(q)' <=> OnLine(q)) /\ Found(q)' = Found(q)
  BY <1>3 DEF OnLine, Found
<1>7. Found(r)' = found
  BY <1>3 DEF Found
<1>8. DeskType(r)'
  <2>1. \A q \in Desks : OnLine(r)' /\ OnLine(q)' /\ desk'[q].edit.line = e.line =>
           Found(q)'.order = found.order /\ Found(q)'.item = found.item
    BY <1>3, <1>4, <1>5, <1>6, <1>7 DEF DeskType
  <2>2. Saves(r, {"new", "price", "size"})' => found \in BulkRows
    BY <1>2, <1>3 DEF Saves, TypeInv, BulkType
  <2> QED
    BY <1>1, <1>3, <1>5, <1>7, <2>1, <2>2 DEF DeskType
<1>9. ASSUME NEW q \in Desks \ {r} PROVE DeskType(q)'
  <2>1. OnLine(q)' /\ OnLine(r)' /\ e.line = desk[q].edit.line =>
          found.order = Found(q).order /\ found.item = Found(q).item
    BY <1>4, <1>5, <1>6 DEF DeskType
  <2>2. Saves(q, {"new", "price", "size"})' => Found(q) \in BulkRows
    BY <1>3, <1>4 DEF DeskType, Saves
  <2>3. \A p \in Desks : OnLine(q)' /\ OnLine(p)' /\ desk'[p].edit.line = desk[q].edit.line =>
          Found(p)'.order = Found(q).order /\ Found(p)'.item = Found(q).item
    BY <1>3, <1>4, <1>6, <1>7, <2>1 DEF DeskType
  <2>4. DeskType(q)
    BY <1>4
  <2> QED
    BY <1>1, <1>3, <1>6, <2>2, <2>3, <2>4 DEF DeskType
<1>10. InventoryType'
  BY InventoryFrame DEF TypeInv, Load, counting, stock
<1> QED
  BY <1>3, <1>8, <1>9, <1>10
     DEF TypeInv, TimeType, BulkType, LinesType, AcceptorType, DesksType, Load, stock

(* What saves a row in place of what is under its id now. *)
LEMMA RewriteType ==
  ASSUME TypeInv, UNCHANGED shift, NEW r \in Desks, OnLine(r), NEW row, Rewrite(r, row), row \in LineRows,
         row.order = Found(r).order, row.item = Found(r).item, Saved(r),
         UNCHANGED <<acceptor, given, counting, now, bulk, counts, orders, sales>>
  PROVE  TypeInv'
<1>1. DOMAIN desk' = Desks /\ \A q \in Desks : desk'[q] = desk[q] \/ desk'[q] = [pc |-> "done"]
  BY SavedFacts
<1>2. /\ DOMAIN lines' = DOMAIN lines \cup {desk[r].edit.line} /\ lines'[desk[r].edit.line] = row
      /\ \A l \in DOMAIN lines : l # desk[r].edit.line => lines'[l] = lines[l]
  BY DEF Rewrite, PutRow
<1>3. /\ desk[r].edit.line \in given /\ Found(r).order \in DOMAIN orders
  BY DeskFacts DEF OnLine
<1>4. LinesType'
  BY <1>2, <1>3 DEF TypeInv, LinesType
<1>5. LinesStand
  BY <1>2 DEF LinesStand, TypeInv, DesksType, DeskType
<1>6. DesksType'
  BY <1>1, <1>5, DesksKept DEF TypeInv
<1>7. InventoryType'
  BY InventoryFrame DEF TypeInv
<1> QED
  BY <1>4, <1>6, <1>7 DEF TypeInv, TimeType, BulkType, AcceptorType

LEMMA LineSavesType ==
  ASSUME TypeInv, UNCHANGED shift, NEW r \in Desks,
         SaveLine(r) \/ SaveForm(r) \/ DeleteLine(r) \/ NewLine(r)
  PROVE  TypeInv'
<1>0. /\ desk[r].pc = "save" /\ desk[r].edit \in Edits
  BY DeskFacts DEF SaveLine, SaveForm, DeleteLine, NewLine, Saves
<1>1. CASE SaveLine(r)
  <2>1. OnLine(r) /\ desk[r].edit.kind = "line"
    BY <1>1 DEF SaveLine, Saves, OnLine
  <2>2. Found(r) \in LineRows /\ desk[r].edit.number \in Int /\ desk[r].edit.size \in Nat \ {0} /\ desk[r].edit.cost \in Nat
    BY <1>0, <2>1, DeskFacts, OrdersConstants
  <2> DEFINE row == [Found(r) EXCEPT !.number = desk[r].edit.number, !.size = desk[r].edit.size, !.cost = desk[r].edit.cost]
  <2>3. row \in LineRows /\ row.order = Found(r).order /\ row.item = Found(r).item
    BY <2>2 DEF LineRows
  <2>4. Rewrite(r, row)
    BY <1>1 DEF SaveLine
  <2> HIDE DEF row
  <2> QED
    BY <1>1, <2>1, <2>3, <2>4, RewriteType DEF SaveLine
<1>2. CASE SaveForm(r)
  <2>1. OnLine(r) /\ Found(r) \in LineRows
    BY <1>0, <1>2, DeskFacts DEF SaveForm, Saves, OnLine
  <2> QED
    BY <1>2, <2>1, RewriteType DEF SaveForm
<1>3. CASE DeleteLine(r)
  <2>1. /\ DOMAIN lines' \subseteq DOMAIN lines /\ \A l \in DOMAIN lines' : lines'[l] = lines[l]
    BY <1>3 DEF DeleteLine
  <2>2. LinesStand /\ LinesType'
    BY <1>3, <2>1, LinesStandStill DEF TypeInv, LinesType, DeleteLine
  <2>3. DesksType'
    BY <1>3, <2>2, SavedFacts, DesksKept DEF TypeInv, DeleteLine
  <2>4. InventoryType'
    BY <1>3, InventoryFrame DEF TypeInv, DeleteLine
  <2> QED
    BY <1>3, <2>2, <2>3, <2>4 DEF TypeInv, TimeType, BulkType, AcceptorType, DeleteLine
<1>4. CASE NewLine(r)
  <2> DEFINE row == [order |-> desk[r].edit.order, item |-> desk[r].edit.item, size |-> Found(r).size,
                     number |-> desk[r].edit.number, cost |-> Found(r).price, taxed |-> Found(r).taxed,
                     scanned |-> NotScanned]
  <2>1. PICK l \in Fresh(LineIds, given) : given' = given \cup {l} /\ lines' = PutRow(lines, l, row)
    BY <1>4 DEF NewLine
  <2>2. l \notin given
    BY DEF Fresh
  <2>3. desk[r].edit.kind = "new"
    BY <1>4 DEF NewLine, Saves
  <2>4. row \in LineRows /\ row.order \in DOMAIN orders
    <3>1. Found(r) \in BulkRows /\ desk[r].edit.order \in DOMAIN orders
      BY <1>0, <2>3, DeskFacts
    <3>2. desk[r].edit.item \in Items /\ desk[r].edit.number \in Int
      BY <1>0, <2>3, OrdersConstants
    <3> QED
      BY <3>1, <3>2 DEF LineRows, BulkRows, TypeInv, LinesType
  <2> HIDE DEF row
  <2>5. /\ DOMAIN lines' = DOMAIN lines \cup {l} /\ lines'[l] = row
        /\ \A k \in DOMAIN lines : k # l => lines'[k] = lines[k]
    BY <2>1 DEF PutRow
  <2>6. LinesType'
    BY <1>4, <2>1, <2>4, <2>5 DEF TypeInv, LinesType, NewLine
  <2>7. LinesStand
    BY <2>2, <2>5 DEF LinesStand, TypeInv, DesksType, DeskType, LinesType
  <2>8. DesksType'
    BY <1>4, <2>1, <2>7, SavedFacts, DesksKept DEF TypeInv, NewLine
  <2>9. InventoryType'
    BY <1>4, InventoryFrame DEF TypeInv, NewLine
  <2> QED
    BY <1>4, <2>6, <2>8, <2>9 DEF TypeInv, TimeType, BulkType, AcceptorType, NewLine
<1> QED
  BY <1>1, <1>2, <1>3, <1>4

LEMMA OtherSavesType ==
  ASSUME TypeInv, UNCHANGED shift, NEW r \in Desks,
         SaveBulk(r) \/ SaveOrder(r) \/ NewOrder(r)
  PROVE  TypeInv'
<1>0. /\ desk[r].pc = "save" /\ desk[r].edit \in Edits /\ Saved(r)
      /\ UNCHANGED <<acceptor, given, counting, now, counts, lines>>
  BY DeskFacts DEF SaveBulk, SaveOrder, NewOrder, Saves
<1>1. InventoryType'
  BY <1>0, InventoryFrame DEF TypeInv
<1>2. BulkType'
  <2>1. CASE SaveBulk(r)
    <3> DEFINE e == desk[r].edit
               row == IF e.kind = "price" THEN [Found(r) EXCEPT !.price = e.price, !.taxed = e.taxed]
                      ELSE [Found(r) EXCEPT !.size = e.size]
    <3>1. e.kind \in {"price", "size"} /\ Found(r) \in BulkRows
      BY <1>0, <2>1, DeskFacts DEF SaveBulk, Saves
    <3>2. /\ e.kind = "price" => e.price \in Nat /\ e.taxed \in BOOLEAN
          /\ e.kind = "size" => e.size \in Nat \ {0}
      BY <1>0, OrdersConstants
    <3>3. row \in BulkRows
      BY <3>1, <3>2 DEF BulkRows
    <3>4. bulk' = [bulk EXCEPT ![e.item] = row]
      BY <2>1 DEF SaveBulk
    <3> HIDE DEF row
    <3> QED
      BY <3>3, <3>4 DEF TypeInv, BulkType
  <2>2. CASE ~ SaveBulk(r)
    BY <2>2 DEF TypeInv, BulkType, SaveOrder, NewOrder
  <2> QED
    BY <2>1, <2>2
<1>3. DOMAIN orders \subseteq DOMAIN orders' /\ DOMAIN orders' \subseteq OrderIds
  <2>1. CASE SaveBulk(r)
    BY <2>1 DEF SaveBulk, TypeInv, LinesType
  <2>2. CASE SaveOrder(r)
    <3>1. DOMAIN orders' = DOMAIN orders
      BY <2>2 DEF SaveOrder
    <3> QED
      BY <3>1 DEF TypeInv, LinesType
  <2>3. CASE NewOrder(r)
    BY <2>3 DEF NewOrder, PutRow, Fresh, TypeInv, LinesType
  <2> QED
    BY <2>1, <2>2, <2>3
<1>4. LinesType'
  BY <1>0, <1>3 DEF TypeInv, LinesType
<1>5. AcceptorType'
  BY <1>0, <1>3 DEF TypeInv, AcceptorType
<1>6. LinesStand
  BY <1>0, LinesStandStill
<1>7. DesksType'
  BY <1>0, <1>3, <1>6, SavedFacts, DesksKept DEF TypeInv
<1> QED
  BY <1>0, <1>1, <1>2, <1>4, <1>5, <1>7 DEF TypeInv, TimeType

LEMMA TypeStep ==
  ASSUME TypeInv, [Next]_vars
  PROVE  TypeInv'
<1>1. CASE InventoryNext /\ UNCHANGED <<shift, accepting>>
  <2>1. InventoryType'
    <3>1. CASE \E i \in Items, n \in Boxes : AddLook(i, n) \/ StageAdd(i, n)
      BY <1>1, <3>1, CallsKeepType
    <3>2. CASE AddWrite \/ ZeroUnprotected \/ \E b \in BOOLEAN : Commit(b)
      BY <1>1, <3>2, WritesKeepType
    <3>3. CASE \E p \in Pages : \/ \E d \in {Today - 1, Today} : PageOpen(p, d)
                              \/ PageInsert(p)
                              \/ \E form \in [Items -> Typed] : PagePost(p, form)
      BY <1>1, <3>3, PagesKeepType
    <3>4. CASE (\E i \in Items : Read(i) \/ RemoveFromInventory(i) \/ Flag(i) \/ Unflag(i)) \/ Reset
      BY <1>1, <3>4, CallsKeepType
    <3> QED
      BY <1>1, <3>1, <3>2, <3>3, <3>4 DEF InventoryNext
  <2>2. UNCHANGED <<now, bulk, orders, lines>>
    BY <1>1
       DEF InventoryNext, AddLook, StageAdd, Read, RemoveFromInventory, Flag, Unflag, AddWrite,
           ZeroUnprotected, Reset, Commit, PageOpen, PageInsert, PagePost, stock
  <2> QED
    BY <1>1, <2>1, <2>2, OrdersFrame DEF TypeInv
<1>2. CASE OrdersNext /\ UNCHANGED shift
  BY <1>2, ScanType, ResolveType, LoadType, LineSavesType, OtherSavesType DEF OrdersNext
<1>3. CASE (\E i \in Items : Sale(i)) \/ Tick \/ UNCHANGED vars
  <2>1. UNCHANGED <<shift, accepting, counting, bulk, counts, orders, lines>>
    BY <1>3 DEF Sale, Tick, vars, stock
  <2>2. TimeType'
    <3>1. shift.ticks \in Nat /\ Start \in Nat
      BY OrdersConstants DEF TypeInv, TimeType
    <3>2. now' = now \/ (now < Start + shift.ticks /\ now' = now + 1)
      BY <1>3 DEF Sale, Tick, vars, stock
    <3> QED
      BY <2>1, <3>1, <3>2 DEF TypeInv, TimeType
  <2>3. InventoryType'
    BY <2>1, InventoryFrame DEF TypeInv
  <2>4. DesksType'
    BY <2>1 DEF TypeInv, DesksType, DeskType, OnLine, Saves, Found, accepting
  <2> QED
    BY <2>1, <2>2, <2>3, <2>4 DEF TypeInv, BulkType, LinesType, AcceptorType, accepting
<1> QED
  BY <1>1, <1>2, <1>3 DEF Next

-----------------------------------------------------------------------------
(* The counts.                                                               *)

LEMMA CountsInit == Init => CountsInv
<1> SUFFICES ASSUME Init PROVE CountsInv
  OBVIOUS
<1>1. shift \in Shifts /\ counts = shift.counted /\ page = [p \in Pages |-> Idle]
  BY DEF Init
<1>2. HolesKept
  BY <1>1 DEF HolesKept, Idle
<1>3. \A c \in counts : /\ AddsUp(c)
                        /\ \A d \in counts : d.item = c.item /\ Day(d.at) = Day(c.at) => d = c
  BY <1>1, InventoryConstants
<1> QED
  BY <1>2, <1>3 DEF CountsInv, OnePerDay

LEMMA CountsFrame ==
  ASSUME CountsInv, UNCHANGED <<counts, page>>, raced \subseteq raced'
  PROVE  CountsInv'
  BY DEF CountsInv, HolesKept, OnePerDay, CountsOn

(* Some counts are kept and some are new.  A new one of a day and an item    *)
(* that has one, or that a page has emptied, is of a race.                   *)
LEMMA CountsChange ==
  ASSUME CountsInv, NEW K \in SUBSET counts, NEW N, counts' = K \cup N,
         \A x \in N : AddsUp(x),
         \A x \in N, y \in N : x.item = y.item /\ Day(x.at) = Day(y.at) => x = y,
         \A x \in N, y \in K :
           x.item = y.item /\ Day(x.at) = Day(y.at) => <<Day(x.at), x.item>> \in raced',
         raced \subseteq raced',
         \A p \in Pages :
           page'[p].pc = "insert" =>
             \/ page'[p] = page[p]
             \/ \A y \in K : y.item = page'[p].item => Day(y.at) # page'[p].day,
         \A p \in Pages, x \in N :
           page'[p].pc = "insert" /\ x.item = page'[p].item /\ Day(x.at) = page'[p].day =>
             <<page'[p].day, page'[p].item>> \in raced'
  PROVE  CountsInv'
<1>1. HolesKept'
  <2> SUFFICES ASSUME NEW p \in Pages, page'[p].pc = "insert",
                      <<page'[p].day, page'[p].item>> \notin raced',
                      NEW x \in counts', x.item = page'[p].item, Day(x.at) = page'[p].day
               PROVE  FALSE
    BY DEF HolesKept, CountsOn
  <2>1. x \in K /\ page'[p] = page[p]
    OBVIOUS
  <2>2. x \in CountsOn(page[p].item, page[p].day)
    BY <2>1 DEF CountsOn
  <2> QED
    BY <2>1, <2>2 DEF CountsInv, HolesKept
<1>2. OnePerDay'
  <2> SUFFICES ASSUME NEW x \in counts', NEW y \in counts', x.item = y.item, Day(x.at) = Day(y.at), x # y
               PROVE  <<Day(x.at), x.item>> \in raced'
    BY DEF OnePerDay
  <2>1. CASE x \in K /\ y \in K
    BY <2>1 DEF CountsInv, OnePerDay
  <2>2. CASE x \in N \/ y \in N
    BY <2>2
  <2> QED
    BY <2>1, <2>2
<1>3. \A x \in counts' : AddsUp(x)
  BY DEF CountsInv
<1> QED
  BY <1>1, <1>2, <1>3 DEF CountsInv

LEMMA RacesFacts ==
  ASSUME NEW p \in Pages, NEW me, p # me, NEW S,
         page[p].pc = "insert", page[p].item \in S
  PROVE  <<page[p].day, page[p].item>> \in Races(page[p].day, S, me)
  BY DEF Races, PageWrites

(* A count of a day is among those since its midnight. *)
LEMMA SinceMidnightCovers ==
  ASSUME TypeInv, NEW c \in counts, Day(c.at) = ServerDay
  PROVE  c \in SinceMidnight(c.item)
  BY TimeFacts, SinceCovers DEF SinceMidnight, TypeInv, InventoryType, CountRows

LEMMA AddWriteKeepsCounts ==
  ASSUME TypeInv, CountsInv, AddWrite
  PROVE  CountsInv'
<1>1. page' = page /\ raced' = raced \cup Races(ServerDay, {add.item}, "add") /\ add # Idle
  BY DEF AddWrite
<1>2. CASE counts' = counts
  BY <1>1, <1>2, CountsFrame
<1>3. ASSUME NEW c \in CountRows, c.item = add.item, Day(c.at) = ServerDay,
             CountsOn(add.item, ServerDay) \subseteq {c}, counts' = (counts \ {c}) \cup {Added(c, add.n)}
      PROVE  CountsInv'
  <2>1. LET x == Added(c, add.n) IN x.item = add.item /\ Day(x.at) = ServerDay /\ AddsUp(x)
    BY <1>1, <1>3, AddedFacts
  <2>2. \A y \in counts \ {c} : y.item = add.item => Day(y.at) # ServerDay
    BY <1>3 DEF CountsOn
  <2>3. \A p \in Pages :
          page'[p].pc = "insert" /\ page'[p].item = add.item /\ page'[p].day = ServerDay =>
            <<page'[p].day, page'[p].item>> \in raced'
    BY <1>1, PagesAssumption, RacesFacts
  <2> DEFINE K == counts \ {c}  N == {Added(c, add.n)}
  <2>4. K \in SUBSET counts /\ counts' = K \cup N /\ raced \subseteq raced'
    BY <1>1, <1>3
  <2>5. \A x \in N : AddsUp(x) /\ x.item = add.item /\ Day(x.at) = ServerDay /\ \A y \in N : x = y
    BY <2>1
  <2>6. \A y \in K : y.item = add.item => Day(y.at) # ServerDay
    BY <2>2
  <2>7. \A p \in Pages : page'[p].pc = "insert" => page'[p] = page[p]
    BY <1>1
  <2> HIDE DEF K, N
  <2>8. /\ \A y \in N, z \in N : y.item = z.item /\ Day(y.at) = Day(z.at) => y = z
        /\ \A y \in N, z \in K : y.item = z.item /\ Day(y.at) = Day(z.at) => <<Day(y.at), y.item>> \in raced'
        /\ \A y \in N : AddsUp(y)
    BY <2>5, <2>6
  <2>9. \A p \in Pages, y \in N :
          page'[p].pc = "insert" /\ y.item = page'[p].item /\ Day(y.at) = page'[p].day =>
            <<page'[p].day, page'[p].item>> \in raced'
    BY <2>3, <2>5
  <2> QED
    BY <2>4, <2>7, <2>8, <2>9, CountsChange
<1> QED
  BY <1>2, <1>3, AddWriteCounts

(* Zeros for items of which there is no count of the day, and what else is   *)
(* written at that time.                                                     *)
LEMMA RowsKeepCounts ==
  ASSUME TypeInv, CountsInv, NEW t \in Nat, Day(t) = ServerDay,
         NEW S \in SUBSET Items, NEW n \in [S -> Nat], NEW K \in SUBSET counts,
         NEW N, counts' = K \cup N, \A x \in N : \E i \in S : x = RowAt(t, i, n[i], bulk[i].size),
         \A c \in K : c.item \in S => c \notin SinceMidnight(c.item),
         NEW T, S \subseteq T,
         raced' = raced \cup Races(ServerDay, T, "service"), page' = page
  PROVE  CountsInv'
<1>1. ASSUME NEW i \in S
      PROVE  LET x == RowAt(t, i, n[i], bulk[i].size)
             IN  x.item = i /\ Day(x.at) = ServerDay /\ AddsUp(x)
  <2>1. i \in Items /\ t \in Int /\ n[i] \in Nat /\ bulk[i].size \in Nat \ {0}
    BY SizeFacts
  <2> QED
    BY <2>1, RowFacts
<1>2. \A x \in N : x.item \in S /\ Day(x.at) = ServerDay /\ AddsUp(x)
                   /\ x = RowAt(t, x.item, n[x.item], bulk[x.item].size)
  BY <1>1
<1>3. \A x \in N, y \in K : x.item = y.item => Day(x.at) # Day(y.at)
  BY <1>2, SinceMidnightCovers
<1>4. \A p \in Pages :
        page'[p].pc = "insert" /\ page'[p].item \in S /\ page'[p].day = ServerDay =>
          <<page'[p].day, page'[p].item>> \in raced'
  BY PagesAssumption, RacesFacts
<1>5. \A x \in N, y \in N : x.item = y.item /\ Day(x.at) = Day(y.at) => x = y
  BY <1>2
<1>6. \A p \in Pages :
        page'[p].pc = "insert" =>
          \/ page'[p] = page[p]
          \/ \A y \in K : y.item = page'[p].item => Day(y.at) # page'[p].day
  OBVIOUS
<1>7. \A p \in Pages, x \in N :
        page'[p].pc = "insert" /\ x.item = page'[p].item /\ Day(x.at) = page'[p].day =>
          <<page'[p].day, page'[p].item>> \in raced'
  BY <1>2, <1>4
<1>8. \A x \in N, y \in K : x.item = y.item /\ Day(x.at) = Day(y.at) => <<Day(x.at), x.item>> \in raced'
  BY <1>3
<1>9. raced \subseteq raced'
  OBVIOUS
<1>10. \A x \in N : AddsUp(x)
  BY <1>2
<1> QED
  BY <1>5, <1>6, <1>7, <1>8, <1>9, <1>10, CountsChange, ZenonT(60)

LEMMA ServiceKeepsCounts ==
  ASSUME TypeInv, CountsInv, ZeroUnprotected \/ \E b \in BOOLEAN : Commit(b)
  PROVE  CountsInv'
<1>1. CASE ZeroUnprotected
  <2> DEFINE S == {i \in Items \ server.protected : bulk[i].active /\ SinceMidnight(i) = {}}
             n == [i \in S |-> 0]
             N == {RowAt(Began, i, 0, bulk[i].size) : i \in S}
  <2>1. /\ counts' = counts \cup N
        /\ raced' = raced \cup Races(ServerDay, S, "service") /\ page' = page
    BY <1>1 DEF ZeroUnprotected
  <2>2. S \in SUBSET Items /\ n \in [S -> Nat] /\ \A x \in N : \E i \in S : x = RowAt(Began, i, n[i], bulk[i].size)
    OBVIOUS
  <2>3. \A c \in counts : c.item \in S => c \notin SinceMidnight(c.item)
    OBVIOUS
  <2>4. Began \in Nat /\ Day(Began) = ServerDay
    BY TimeFacts DEF ServerDay
  <2>5. counts \in SUBSET counts /\ S \subseteq S
    OBVIOUS
  <2> HIDE DEF S, n, N
  <2> QED
    BY <2>1, <2>2, <2>3, <2>4, <2>5, RowsKeepCounts
<1>2. ASSUME NEW b \in BOOLEAN, Commit(b)
      PROVE  CountsInv'
  <2> DEFINE staged == DOMAIN server.staged
             touched == server.protected \cup staged
             blanks == IF b /\ touched # {}
                       THEN {i \in Items \ touched : bulk[i].active /\ SinceMidnight(i) = {}} ELSE {}
             S == blanks \cup staged
             n == [i \in S |-> IF i \in staged THEN server.staged[i] ELSE 0]
             K == counts \ UNION {SinceMidnight(i) : i \in touched}
             N == {RowAt(now, i, 0, bulk[i].size) : i \in blanks}
                    \cup {RowAt(now, i, server.staged[i], bulk[i].size) : i \in staged}
  <2>1. /\ counts' = K \cup N
        /\ raced' = raced \cup Races(Today, touched \cup blanks, "service") /\ page' = page
    BY <1>2 DEF Commit
  <2>2. now \in Nat /\ Day(now) = ServerDay /\ Today = ServerDay
    BY <1>2, TimeFacts DEF Commit, TypeInv, InventoryType, ServerType, Today
  <2>3. /\ staged \subseteq Items /\ blanks \subseteq Items /\ blanks \cap staged = {}
        /\ \A i \in staged : server.staged[i] \in Nat
    BY DEF TypeInv, InventoryType, ServerType
  <2>4. /\ n \in [S -> Nat] /\ \A i \in staged : n[i] = server.staged[i]
        /\ \A i \in blanks : n[i] = 0
    BY <2>3
  <2>5. K \in SUBSET counts /\ \A c \in K : c.item \in S => c \notin SinceMidnight(c.item)
    <3>1. ASSUME NEW c \in K, c.item \in staged PROVE c \notin SinceMidnight(c.item)
      BY <3>1
    <3>2. ASSUME NEW c \in K, c.item \in blanks PROVE c \notin SinceMidnight(c.item)
      BY <3>2
    <3> QED
      BY <3>1, <3>2
  <2>6. S \in SUBSET Items /\ S \subseteq touched \cup blanks
    BY <2>3
  <2>7. /\ blanks \subseteq S /\ staged \subseteq S
        /\ \A x \in N : \/ \E i \in blanks : x = RowAt(now, i, 0, bulk[i].size)
                       \/ \E i \in staged : x = RowAt(now, i, server.staged[i], bulk[i].size)
    OBVIOUS
  <2> DEFINE T == touched \cup blanks
  <2>8. S \subseteq T /\ raced' = raced \cup Races(Today, T, "service")
    BY <2>1, <2>6
  <2> HIDE DEF S, n, K, N, T, staged, blanks, touched
  <2>9. \A x \in N : \E i \in S : x = RowAt(now, i, n[i], bulk[i].size)
    BY <2>4, <2>7
  <2>10. raced' = raced \cup Races(ServerDay, T, "service") /\ page' = page /\ S \subseteq T /\ S \in SUBSET Items
    BY <2>1, <2>2, <2>6, <2>8
  <2>11. now \in Nat /\ Day(now) = ServerDay
    BY <2>2
  <2>12. counts' = K \cup N
    BY <2>1
  <2>13. n \in [S -> Nat]
    BY <2>4
  <2> QED
    BY <2>5, <2>9, <2>10, <2>11, <2>12, <2>13, RowsKeepCounts
<1> QED
  BY <1>1, <1>2

LEMMA PagesKeepCounts ==
  ASSUME TypeInv, CountsInv, NEW p \in Pages,
         \/ \E d \in {Today - 1, Today} : PageOpen(p, d)
         \/ PageInsert(p)
         \/ \E form \in [Items -> Typed] : PagePost(p, form)
  PROVE  CountsInv'
<1>0. DOMAIN page = Pages
  BY DEF TypeInv, InventoryType
<1>1. ASSUME NEW d \in {Today - 1, Today}, PageOpen(p, d)
      PROVE  CountsInv'
  <2>1. \A q \in Pages : page'[q] = page[q] \/ page'[q].pc = "shown"
    BY <1>0, <1>1 DEF PageOpen
  <2>2. UNCHANGED <<counts, raced>>
    BY <1>1 DEF PageOpen, stock
  <2> QED
    BY <2>1, <2>2 DEF CountsInv, HolesKept, OnePerDay, CountsOn
<1>2. CASE PageInsert(p)
  <2> DEFINE i == page[p].item  d == page[p].day  row == FormRow(p, i)
  <2>1. /\ page[p].pc = "insert"
        /\ raced' = raced \cup Races(d, {i}, p)
        /\ counts' = counts \/ (page[p].form[i] # <<>> /\ counts' = counts \cup {row})
    BY <1>2 DEF PageInsert
  <2>2. page'[p].pc = "done" /\ \A q \in Pages \ {p} : page'[q] = page[q]
    BY <1>0, <1>2 DEF PageInsert
  <2>3. CASE counts' = counts
    BY <2>1, <2>2, <2>3 DEF CountsInv, HolesKept, OnePerDay, CountsOn
  <2>4. CASE page[p].form[i] # <<>> /\ counts' = counts \cup {row}
    <3>1. AddsUp(row) /\ row.item = i /\ Day(row.at) = d
      BY <2>1, <2>4, FormRowFacts
    <3>2. <<d, i>> \in raced \/ \A c \in counts : c.item = i => Day(c.at) # d
      BY <2>1 DEF CountsInv, HolesKept, CountsOn
    <3>3. \A q \in Pages \ {p} : page[q].pc = "insert" /\ page[q].item = i /\ page[q].day = d => <<d, i>> \in raced'
      BY <2>1, RacesFacts
    <3> DEFINE N == {row}
    <3>4. counts' = counts \cup N /\ counts \in SUBSET counts /\ raced \subseteq raced'
      BY <2>1, <2>4
    <3>5. \A x \in N : AddsUp(x) /\ x.item = i /\ Day(x.at) = d /\ \A y \in N : x = y
      BY <3>1
    <3> HIDE DEF i, d, N, row
    <3>6. /\ \A x \in N, y \in N : x.item = y.item /\ Day(x.at) = Day(y.at) => x = y
          /\ \A x \in N, y \in counts : x.item = y.item /\ Day(x.at) = Day(y.at) => <<Day(x.at), x.item>> \in raced'
          /\ \A x \in N : AddsUp(x)
      BY <3>2, <3>4, <3>5
    <3>7. \A q \in Pages, x \in N :
            page'[q].pc = "insert" /\ x.item = page'[q].item /\ Day(x.at) = page'[q].day =>
              <<page'[q].day, page'[q].item>> \in raced'
      BY <2>2, <3>3, <3>5
    <3>8. \A q \in Pages : page'[q].pc = "insert" => page'[q] = page[q]
      BY <2>2
    <3> QED
      BY <3>4, <3>6, <3>7, <3>8, CountsChange
  <2> QED
    BY <2>1, <2>3, <2>4
<1>3. ASSUME NEW form \in [Items -> Typed], PagePost(p, form)
      PROVE  CountsInv'
  <2>1. PICK i \in FirstOnPage(Modified(p, form)) :
          /\ counts' = counts \ CountsOn(i, page[p].day)
          /\ raced' = raced \cup Races(page[p].day, {i}, p)
          /\ page' = [page EXCEPT ![p] =
                        [pc |-> "insert", day |-> @.day, size |-> @.size, form |-> form, item |-> i]]
    BY <1>3 DEF PagePost
  <2>2. /\ page'[p].item = i /\ page'[p].day = page[p].day
        /\ \A q \in Pages \ {p} : page'[q] = page[q]
    BY <1>0, <2>1
  <2>3. CountsOn(i, page[p].day)' = {} /\ \A c \in counts' : c \in counts
    BY <2>1 DEF CountsOn
  <2> QED
    BY <2>1, <2>2, <2>3 DEF CountsInv, HolesKept, OnePerDay, CountsOn
<1> QED
  BY <1>1, <1>2, <1>3

LEMMA CountsStep ==
  ASSUME TypeInv, CountsInv, [Next]_vars
  PROVE  CountsInv'
<1>1. CASE InventoryNext
  <2>1. CASE AddWrite
    BY <2>1, AddWriteKeepsCounts
  <2>2. CASE ZeroUnprotected \/ \E b \in BOOLEAN : Commit(b)
    BY <2>2, ServiceKeepsCounts
  <2>3. CASE \E p \in Pages : \/ \E d \in {Today - 1, Today} : PageOpen(p, d)
                            \/ PageInsert(p)
                            \/ \E form \in [Items -> Typed] : PagePost(p, form)
    BY <2>3, PagesKeepCounts
  <2>4. CASE \/ \E i \in Items, n \in Boxes : AddLook(i, n) \/ StageAdd(i, n)
             \/ \E i \in Items : Read(i) \/ RemoveFromInventory(i) \/ Flag(i) \/ Unflag(i)
             \/ Reset
    <3>1. UNCHANGED <<counts, page, raced>>
      BY <2>4 DEF AddLook, StageAdd, Read, RemoveFromInventory, Flag, Unflag, Reset, stock
    <3> QED
      BY <3>1, CountsFrame
  <2> QED
    BY <1>1, <2>1, <2>2, <2>3, <2>4 DEF InventoryNext
<1>2. CASE OrdersNext \/ (\E i \in Items : Sale(i)) \/ Tick \/ UNCHANGED vars
  <2>1. UNCHANGED <<counts, page, raced>>
    BY <1>2 DEF OrdersNext, Scan, Resolve, Load, SaveLine, SaveForm, DeleteLine, NewLine, SaveBulk,
                SaveOrder, NewOrder, Sale, Tick, vars, stock, counting
  <2> QED
    BY <2>1, CountsFrame
<1> QED
  BY <1>1, <1>2 DEF Next

(* Whoever takes inventory, by scanner or by page, in whatever order: each   *)
(* count is its cases and its loose units, and a day has one of an item      *)
(* unless two writers of that count overlapped.                              *)
THEOREM CountsAreSound == Spec => []CountsSound
<1>1. Init => TypeInv /\ CountsInv
  BY TypeInit, CountsInit
<1>2. TypeInv /\ CountsInv /\ [Next]_vars => TypeInv' /\ CountsInv'
  BY TypeStep, CountsStep
<1>3. CountsInv => CountsSound
  BY DEF CountsInv, OnePerDay, CountsSound, CountsOn
<1> QED
  BY <1>1, <1>2, <1>3, PTL DEF Spec

-----------------------------------------------------------------------------
(* What the service said.                                                    *)

Stands(i) ==
  IF said[i].units = None THEN i \in server.protected
  ELSE IF ~Direct THEN i \in DOMAIN server.staged /\ server.staged[i] = said[i].units
  ELSE \/ <<said[i].day, i>> \in raced
       \/ \E c \in CountsOn(i, said[i].day) : c.units = said[i].units

LEMMA StandsAll == PublishedStands <=> \A i \in DOMAIN said : Stands(i)
  BY DEF PublishedStands, Stands

LEMMA CallsKeepSaid ==
  ASSUME TypeInv, PublishedStands, UNCHANGED shift,
         \/ \E i \in Items, n \in Boxes : AddLook(i, n) \/ StageAdd(i, n)
         \/ \E i \in Items : Read(i) \/ RemoveFromInventory(i) \/ Flag(i) \/ Unflag(i)
         \/ Reset
  PROVE  PublishedStands'
<1>0. /\ DOMAIN server = {"protected", "staged", "since", "broken", "calls"}
      /\ DOMAIN said \subseteq Items /\ \A n \in Boxes : n \in Int
      /\ \A i \in DOMAIN server.staged : server.staged[i] \in Nat
  BY InventoryConstants DEF TypeInv, InventoryType, ServerType
<1> USE <1>0 DEF Called, stock
<1>1. ASSUME NEW i \in Items, NEW n \in Boxes, AddLook(i, n)
      PROVE  PublishedStands'
  BY <1>1 DEF AddLook, PublishedStands, Direct, CountsOn
<1>2. ASSUME NEW i \in Items, NEW n \in Boxes, StageAdd(i, n)
      PROVE  PublishedStands'
  <2> DEFINE new == Larger((IF i \in DOMAIN server.staged THEN server.staged[i] ELSE 0) + n, 0)
             put == [j \in DOMAIN server.staged \cup {i} |-> IF j = i THEN new ELSE server.staged[j]]
  <2>1. /\ ~Direct /\ UNCHANGED <<counts, raced>>
        /\ server'.staged = put /\ server'.protected = server.protected
        /\ Tell(i, [day |-> Today, units |-> new])
    BY <1>2 DEF StageAdd
  <2>2. new \in Nat
    BY DEF Larger
  <2>3. /\ DOMAIN put = DOMAIN server.staged \cup {i} /\ put[i] = new
        /\ \A j \in DOMAIN server.staged : j # i => put[j] = server.staged[j]
    OBVIOUS
  <2> HIDE DEF new, put
  <2> QED
    BY <2>1, <2>2, <2>3 DEF Tell, PublishedStands, Direct, None
<1>3. ASSUME NEW i \in Items, Read(i) PROVE PublishedStands'
  <2>1. /\ UNCHANGED <<said, counts, raced>> /\ server'.protected = server.protected
        /\ \A j \in DOMAIN server.staged : j \in DOMAIN server'.staged /\ server'.staged[j] = server.staged[j]
    BY <1>3 DEF Read
  <2> QED
    BY <2>1 DEF PublishedStands, Direct, CountsOn
<1>4. ASSUME NEW i \in Items, RemoveFromInventory(i) PROVE PublishedStands'
  BY <1>4 DEF RemoveFromInventory, PublishedStands, Direct, CountsOn
<1>5. ASSUME NEW i \in Items, Flag(i) PROVE PublishedStands'
  <2>1. /\ UNCHANGED <<counts, raced>> /\ Tell(i, [day |-> Today, units |-> None])
        /\ server'.protected = server.protected \cup {i}
        /\ \A j \in DOMAIN server.staged : j # i => j \in DOMAIN server'.staged /\ server'.staged[j] = server.staged[j]
    BY <1>5 DEF Flag
  <2>2. said'[i].units = None /\ i \in DOMAIN said' /\ \A j \in DOMAIN said' : j # i => j \in DOMAIN said /\ said'[j] = said[j]
    BY <2>1 DEF Tell
  <2>3. Stands(i)'
    BY <2>1, <2>2 DEF Stands
  <2>4. ASSUME NEW j \in DOMAIN said', j # i PROVE Stands(j)'
    <3>1. Stands(j) /\ said'[j] = said[j]
      BY <2>2, <2>4, StandsAll
    <3> QED
      BY <2>1, <2>4, <3>1 DEF Stands, Direct, CountsOn
  <2> QED
    BY <2>3, <2>4 DEF Stands, PublishedStands
<1>6. ASSUME NEW i \in Items, Unflag(i) PROVE PublishedStands'
  <2>1. /\ UNCHANGED <<counts, raced>> /\ Forget({i})
        /\ server'.protected = server.protected \ {i} /\ server'.staged = server.staged
    BY <1>6 DEF Unflag
  <2> QED
    BY <2>1 DEF Forget, PublishedStands, Direct, CountsOn
<1>7. CASE Reset
  BY <1>7 DEF Reset, Forget, PublishedStands
<1> QED
  BY <1>1, <1>2, <1>3, <1>4, <1>5, <1>6, <1>7

LEMMA WritesKeepSaid ==
  ASSUME TypeInv, PublishedStands, UNCHANGED shift,
         AddWrite \/ ZeroUnprotected \/ \E b \in BOOLEAN : Commit(b)
  PROVE  PublishedStands'
<1>0. /\ DOMAIN server = {"protected", "staged", "since", "broken", "calls"}
      /\ DOMAIN said \subseteq Items
  BY DEF TypeInv, InventoryType, ServerType
<1>1. CASE ZeroUnprotected \/ \E b \in BOOLEAN : Commit(b)
  BY <1>0, <1>1 DEF ZeroUnprotected, Commit, Forget, PublishedStands
<1>2. CASE AddWrite
  <2>1. /\ Direct /\ add # Idle /\ raced \subseteq raced' /\ server'.protected = server.protected
    BY <1>0, <1>2, AddWriteCounts DEF AddWrite, TypeInv, InventoryType, ServerType
  <2>2. CASE counts' = counts /\ said' = said
    BY <2>1, <2>2 DEF PublishedStands, Direct, CountsOn
  <2>3. ASSUME NEW c \in CountRows, c.item = add.item, Day(c.at) = ServerDay,
               counts' = (counts \ {c}) \cup {Added(c, add.n)},
               Tell(add.item, [day |-> ServerDay, units |-> Added(c, add.n).units])
        PROVE  PublishedStands'
    <3>1. PICK i : i = add.item
      OBVIOUS
    <3>2. PICK x : x = Added(c, add.n)
      OBVIOUS
    <3>3. x.units \in Nat /\ x.item = i /\ Day(x.at) = ServerDay
      BY <2>1, <2>3, <3>1, <3>2, AddedFacts
    <3>4. x \in counts' /\ \A e \in counts : e.item # i => e \in counts'
      BY <2>3, <3>1, <3>2
    <3>5. said' = [j \in DOMAIN said \cup {i} |->
                     IF j = i THEN [day |-> ServerDay, units |-> x.units] ELSE said[j]]
      BY <2>3, <3>1, <3>2 DEF Tell
    <3>6. Stands(i)'
      BY <2>1, <3>3, <3>4, <3>5 DEF Stands, Direct, CountsOn, None
    <3>7. ASSUME NEW j \in DOMAIN said, j # i PROVE Stands(j)'
      <4>1. Stands(j) /\ said'[j] = said[j]
        BY <3>5, <3>7, StandsAll
      <4>2. \A e \in CountsOn(j, said[j].day) : e \in counts'
        BY <3>4, <3>7 DEF CountsOn
      <4> QED
        BY <2>1, <4>1, <4>2 DEF Stands, Direct, CountsOn
    <3> QED
      BY <3>5, <3>6, <3>7 DEF Stands, PublishedStands
  <2> QED
    BY <1>2, <2>2, <2>3, AddWriteCounts
<1> QED
  BY <1>1, <1>2

LEMMA PagesKeepSaid ==
  ASSUME TypeInv, PublishedStands, UNCHANGED shift, NEW p \in Pages,
         \/ \E d \in {Today - 1, Today} : PageOpen(p, d)
         \/ PageInsert(p)
         \/ \E form \in [Items -> Typed] : PagePost(p, form)
  PROVE  PublishedStands'
<1>1. ASSUME NEW d \in {Today - 1, Today}, PageOpen(p, d)
      PROVE  PublishedStands'
  BY <1>1 DEF PageOpen, PublishedStands, Direct, CountsOn, stock
<1>2. CASE PageInsert(p)
  <2>1. counts \subseteq counts' /\ raced \subseteq raced' /\ UNCHANGED <<server, said>>
    BY <1>2 DEF PageInsert
  <2> QED
    BY <2>1 DEF PublishedStands, Direct, CountsOn
<1>3. ASSUME NEW form \in [Items -> Typed], PagePost(p, form)
      PROVE  PublishedStands'
  <2>1. PICK i \in Items :
          /\ counts' = counts \ CountsOn(i, page[p].day)
          /\ raced \subseteq raced' /\ Forget({i}) /\ server' = server
    BY <1>3 DEF PagePost, FirstOnPage, Modified
  <2>2. \A j \in DOMAIN said' : j # i /\ j \in DOMAIN said /\ said'[j] = said[j]
    BY <2>1 DEF Forget
  <2>3. \A j, d : j # i => \A c \in CountsOn(j, d) : c \in CountsOn(j, d)'
    BY <2>1 DEF CountsOn
  <2> QED
    BY <2>1, <2>2, <2>3 DEF PublishedStands, Direct
<1> QED
  BY <1>1, <1>2, <1>3

LEMMA SaidStep ==
  ASSUME TypeInv, PublishedStands, [Next]_vars
  PROVE  PublishedStands'
<1>1. CASE InventoryNext /\ UNCHANGED <<shift, accepting>>
  <2>1. CASE AddWrite \/ ZeroUnprotected \/ \E b \in BOOLEAN : Commit(b)
    BY <1>1, <2>1, WritesKeepSaid
  <2>2. CASE \E p \in Pages : \/ \E d \in {Today - 1, Today} : PageOpen(p, d)
                            \/ PageInsert(p)
                            \/ \E form \in [Items -> Typed] : PagePost(p, form)
    BY <1>1, <2>2, PagesKeepSaid
  <2>3. CASE \/ \E i \in Items, n \in Boxes : AddLook(i, n) \/ StageAdd(i, n)
             \/ \E i \in Items : Read(i) \/ RemoveFromInventory(i) \/ Flag(i) \/ Unflag(i)
             \/ Reset
    BY <1>1, <2>3, CallsKeepSaid
  <2> QED
    BY <1>1, <2>1, <2>2, <2>3 DEF InventoryNext
<1>2. CASE (OrdersNext /\ UNCHANGED shift) \/ (\E i \in Items : Sale(i)) \/ Tick \/ UNCHANGED vars
  <2>1. UNCHANGED <<shift, counts, server, said, raced>>
    <3>1. CASE OrdersNext /\ UNCHANGED shift
      <4>1. ASSUME NEW i \in Items, NEW n \in {-1, 1}, Scan(i, n) \/ Resolve(i)
            PROVE  UNCHANGED <<counting, counts>>
        BY <4>1 DEF Scan, Resolve
      <4>2. ASSUME NEW r \in Desks,
                   \/ SaveLine(r) \/ SaveForm(r) \/ DeleteLine(r) \/ NewLine(r) \/ SaveBulk(r)
                   \/ SaveOrder(r) \/ NewOrder(r) \/ \E e \in Edits : Load(r, e)
            PROVE  UNCHANGED <<counting, counts>>
        BY <4>2 DEF Load, SaveLine, SaveForm, DeleteLine, NewLine, SaveBulk, SaveOrder, NewOrder, stock
      <4>3. 1 \in {-1, 1}
        OBVIOUS
      <4> QED
        BY <3>1, <4>1, <4>2, <4>3 DEF OrdersNext, counting
    <3>2. CASE (\E i \in Items : Sale(i)) \/ Tick \/ UNCHANGED vars
      BY <3>2 DEF Sale, Tick, vars, stock, counting
    <3> QED
      BY <1>2, <3>1, <3>2
  <2> QED
    BY <2>1 DEF PublishedStands, Direct, CountsOn
<1> QED
  BY <1>1, <1>2 DEF Next

(* A scanner may rely on what the service last published of an item, until a *)
(* page writes the same count: nothing else takes it back without saying so. *)
THEOREM WhatIsPublishedStands == Spec => []PublishedStands
<1>1. Init => TypeInv /\ PublishedStands
  <2>1. DOMAIN <<>> = {}
    OBVIOUS
  <2> QED
    BY <2>1, TypeInit DEF Init, PublishedStands
<1>2. TypeInv /\ PublishedStands /\ [Next]_vars => TypeInv' /\ PublishedStands'
  BY TypeStep, SaidStep
<1> QED
  BY <1>1, <1>2, PTL DEF Spec

-----------------------------------------------------------------------------
(* The cases that were scanned.                                              *)

Kept(o, i) == Excused(o, i) \/ Matches(o, i)

LEMMA TodayIsBusy ==
  ASSUME TypeInv
  PROVE  Today \in BusyDays
<1>1. Start \in Nat /\ shift.ticks \in Nat /\ now \in Nat /\ now <= Start + shift.ticks
  BY OrdersConstants DEF TypeInv, TimeType
<1>2. Day(now) <= Day(Start + shift.ticks) /\ Day(now) \in Nat /\ Day(Start + shift.ticks) \in Int
  BY <1>1, DayMonotone, DayFacts
<1> QED
  BY <1>2 DEF BusyDays, Today

LEMMA ScannedInt ==
  ASSUME TypeInv, NEW l \in DOMAIN lines
  PROVE  Scanned(l) \in Int
  BY DEF TypeInv, LinesType, LineRows, Scanned

LEMMA ScansInit == Init => ScansInv
<1> SUFFICES ASSUME Init PROVE ScansInv
  OBVIOUS
<1>1. TypeInv /\ orders = Orders0 /\ DOMAIN acceptor.orderOf = {}
  BY TypeInit DEF Init
<1>2. boxes = [x \in BusyDays \X Items |->
                 IF \E l \in DOMAIN lines : Of(l, x) THEN Scanned(CHOOSE l \in DOMAIN lines : Of(l, x)) ELSE 0]
  BY DEF Init
<1>3. DaysKnown
  <2>1. \A o \in DOMAIN orders : orders[o].day \in BusyDays
    BY <1>1 DEF BusyDays
  <2>2. ASSUME NEW x \in BusyDays \X Items PROVE boxes[x] \in Int
    <3>1. CASE \E l \in DOMAIN lines : Of(l, x)
      <4>1. (CHOOSE l \in DOMAIN lines : Of(l, x)) \in DOMAIN lines
        BY <3>1
      <4> QED
        BY <1>1, <1>2, <3>1, <4>1, ScannedInt
    <3>2. CASE ~ \E l \in DOMAIN lines : Of(l, x)
      BY <1>2, <3>2
    <3> QED
      BY <3>1, <3>2
  <2> QED
    BY <1>2, <2>1, <2>2 DEF DaysKnown
<1>4. ASSUME NEW o \in DOMAIN orders, NEW i \in Items, ~Excused(o, i)
      PROVE  Matches(o, i)
  <2> DEFINE x == <<orders[o].day, i>>
  <2>1. x \in BusyDays \X Items
    BY <1>1 DEF BusyDays
  <2>2. \A l \in DOMAIN lines : lines[l].order \in DOMAIN orders
    BY <1>1 DEF TypeInv, LinesType
  <2>3. \A p \in DOMAIN orders : orders[p].day = orders[o].day => p = o
    BY <1>4 DEF Excused
  <2>4. \A l \in DOMAIN lines : Of(l, x) <=> l \in LinesOf(o, i)
    BY <2>2, <2>3 DEF Of, LinesOf
  <2>5. LinesOf(o, i) \subseteq DOMAIN lines
    BY DEF LinesOf
  <2>6. boxes[x] = IF \E l \in DOMAIN lines : Of(l, x) THEN Scanned(CHOOSE l \in DOMAIN lines : Of(l, x)) ELSE 0
    BY <1>2, <2>1
  <2> HIDE DEF x
  <2>7. LinesOf(o, i) = {} => boxes[x] = 0
    BY <2>4, <2>6
  <2>8. ASSUME NEW l \in LinesOf(o, i), LinesOf(o, i) = {l}
        PROVE  Scanned(l) = boxes[x]
    <3>1. l \in DOMAIN lines /\ Of(l, x) /\ \A k \in DOMAIN lines : Of(k, x) => k = l
      BY <2>4, <2>5, <2>8
    <3>2. (CHOOSE k \in DOMAIN lines : Of(k, x)) = l
      BY <3>1
    <3> QED
      BY <2>6, <3>1, <3>2
  <2> QED
    BY <2>7, <2>8 DEF Matches, x
<1> QED
  BY <1>1, <1>3, <1>4 DEF ScansInv, CacheKept

(* The lines of an order and an item are those they were, with as many scans.*)
Alike(o, i) ==
  LinesOf(o, i)' = LinesOf(o, i) /\ \A l \in LinesOf(o, i) : Scanned(l)' = Scanned(l)

(* As long as orders stay on their days, it is enough to look at the lines   *)
(* that nobody deleted or saved over.                                        *)
LEMMA OnlyLinesChange ==
  ASSUME ScansInv, UNCHANGED <<shift, orders, moved, boxes>>, lost \subseteq lost', CacheKept',
         \A o \in DOMAIN orders, i \in Items :
           <<o, i>> \in lost' \/ Alike(o, i) \/ (Matches(o, i) => Matches(o, i)')
  PROVE  ScansInv'
<1>1. DaysKnown'
  BY DEF ScansInv, DaysKnown, BusyDays
<1>2. ASSUME NEW o \in DOMAIN orders, NEW i \in Items PROVE Kept(o, i)'
  <2>1. Kept(o, i)
    BY DEF ScansInv, Kept
  <2>2. Excused(o, i) \/ <<o, i>> \in lost' => Excused(o, i)'
    BY DEF Excused
  <2>3. Alike(o, i) => (Matches(o, i) => Matches(o, i)')
    BY DEF Alike, Matches
  <2> QED
    BY <2>1, <2>2, <2>3 DEF Kept
<1> QED
  BY <1>1, <1>2 DEF ScansInv, Kept

LEMMA ServedKeepsCache ==
  ASSUME TypeInv, CacheKept, UNCHANGED <<orders, moved>>, NEW o \in OrderOfToday,
         acceptor'.orderOf = PutRow(acceptor.orderOf, Today, o)
  PROVE  CacheKept'
<1>1. Today \in DOMAIN acceptor.orderOf => acceptor.orderOf[Today] = o
  BY DEF OrderOfToday
<1>2. Today \notin DOMAIN acceptor.orderOf => orders[o].day = Today
  BY DEF OrderOfToday
<1> QED
  BY <1>1, <1>2 DEF CacheKept, PutRow

(* The order that is served is of today, or both days are excused.           *)
LEMMA ServedDay ==
  ASSUME CacheKept, NEW o \in OrderOfToday
  PROVE  orders[o].day = Today \/ {Today, orders[o].day} \subseteq moved
  BY DEF CacheKept, OrderOfToday

LEMMA ScanKeepsScans ==
  ASSUME TypeInv, ScansInv, UNCHANGED shift, NEW i \in Items, NEW n \in {-1, 1}, Scan(i, n)
  PROVE  ScansInv'
<1>1. PICK o \in OrderOfToday : /\ LinesOf(o, i) # {} /\ CountCases(o, i, n)
                                /\ acceptor' = Served(o) /\ Accepted(i, n)
  BY DEF Scan
<1>2. UNCHANGED <<orders, moved, lost>> /\ BusyDays' = BusyDays
  BY DEF Scan, BusyDays
<1>3. o \in DOMAIN orders /\ (orders[o].day = Today \/ {Today, orders[o].day} \subseteq moved)
  BY ServedType, ServedDay DEF ScansInv
<1>4. CacheKept'
  BY <1>1, <1>2, ServedType, ServedKeepsCache DEF ScansInv
<1>5. /\ DOMAIN boxes = BusyDays \X Items /\ <<Today, i>> \in DOMAIN boxes
      /\ \A x \in DOMAIN boxes : boxes[x] \in Int
  BY TodayIsBusy DEF ScansInv, DaysKnown
<1>6. /\ DOMAIN boxes' = DOMAIN boxes /\ boxes'[<<Today, i>>] = boxes[<<Today, i>>] + n
      /\ \A x \in DOMAIN boxes : x # <<Today, i>> => boxes'[x] = boxes[x]
  BY <1>1, <1>5 DEF Accepted
<1>7. DaysKnown'
  BY <1>2, <1>5, <1>6 DEF ScansInv, DaysKnown
<1>8. /\ DOMAIN lines' = DOMAIN lines
      /\ \A l \in DOMAIN lines : /\ lines'[l].order = lines[l].order /\ lines'[l].item = lines[l].item
                                 /\ l \notin LinesOf(o, i) => lines'[l] = lines[l]
                                 /\ l \in LinesOf(o, i) => lines'[l].scanned = Scanned(l) + n
  <2> SUFFICES ASSUME NEW l \in DOMAIN lines
               PROVE  /\ lines'[l].order = lines[l].order /\ lines'[l].item = lines[l].item
                      /\ l \notin LinesOf(o, i) => lines'[l] = lines[l]
                      /\ l \in LinesOf(o, i) => lines'[l].scanned = Scanned(l) + n
    BY <1>1 DEF CountCases
  <2>1. lines[l] \in LineRows
    BY DEF TypeInv, LinesType
  <2>2. lines'[l] = IF l \notin LinesOf(o, i) THEN lines[l] ELSE [lines[l] EXCEPT !.scanned = Scanned(l) + n]
    BY <1>1 DEF CountCases
  <2> QED
    BY <2>1, <2>2 DEF LineRows
<1>9. \A l \in LinesOf(o, i) : Scanned(l)' = Scanned(l) + n
  <2> SUFFICES ASSUME NEW l \in LinesOf(o, i) PROVE Scanned(l)' = Scanned(l) + n
    OBVIOUS
  <2>1. l \in DOMAIN lines
    BY DEF LinesOf
  <2>2. Scanned(l) + n \in Int
    BY <2>1, ScannedInt
  <2> QED
    BY <1>8, <2>1, <2>2, OrdersConstants DEF Scanned
<1>10. \A p, j : LinesOf(p, j)' = LinesOf(p, j)
  BY <1>8 DEF LinesOf
<1>11. \A p, j : <<p, j>> # <<o, i>> => Alike(p, j)
  BY <1>8, <1>10 DEF Alike, LinesOf, Scanned
<1>12. ASSUME NEW p \in DOMAIN orders, NEW j \in Items PROVE Kept(p, j)'
  <2>1. Excused(p, j) => Excused(p, j)'
    BY <1>2 DEF Excused
  <2>2. ASSUME ~Excused(p, j) PROVE Matches(p, j)'
    <3>1. Matches(p, j) /\ orders[p].day \notin moved /\ orders[p].day \in BusyDays
      BY <2>2 DEF ScansInv, DaysKnown, Excused
    <3>2. <<orders[p].day, j>> \in DOMAIN boxes
      BY <1>5, <3>1
    <3>3. CASE p = o /\ j = i
      <4>1. orders[p].day = Today
        BY <1>3, <3>1, <3>3
      <4> QED
        BY <1>1, <1>2, <1>6, <1>9, <1>10, <3>1, <3>3, <4>1 DEF Matches
    <3>4. CASE <<p, j>> # <<o, i>>
      <4>1. orders[p].day = Today => j # i
        BY <1>3, <2>2, <3>1, <3>4 DEF Excused
      <4>2. boxes'[<<orders[p].day, j>>] = boxes[<<orders[p].day, j>>]
        BY <1>6, <3>2, <4>1
      <4> QED
        BY <1>2, <1>11, <3>1, <3>4, <4>2 DEF Matches, Alike
    <3> QED
      BY <3>3, <3>4
  <2> QED
    BY <2>1, <2>2 DEF Kept
<1> QED
  BY <1>2, <1>4, <1>7, <1>12 DEF ScansInv, Kept

LEMMA ResolveKeepsScans ==
  ASSUME TypeInv, ScansInv, UNCHANGED shift, NEW i \in Items, Resolve(i)
  PROVE  ScansInv'
<1>1. PICK o \in OrderOfToday :
        /\ acceptor' \in {Served(o), [Served(o) EXCEPT !.broken = TRUE]}
        /\ \/ lines' = lines /\ lost' = lost
           \/ \E D \in SUBSET DOMAIN lines :
                /\ DOMAIN lines' = DOMAIN lines \ D
                /\ \A l \in DOMAIN lines' :
                     \/ lines'[l] = lines[l]
                     \/ lines'[l] = [lines[l] EXCEPT !.number = lines[l].scanned] /\ lines[l].scanned # NotScanned
                /\ \A l \in D : lines[l].order = o
                /\ lost' = lost \cup {<<o, lines[l].item>> : l \in D}
  BY ResolveFacts
<1>2. UNCHANGED <<orders, moved, boxes>>
  BY DEF Resolve
<1>3. CacheKept'
  <2>1. acceptor'.orderOf = PutRow(acceptor.orderOf, Today, o)
    BY <1>1, ServedType
  <2> QED
    BY <1>2, <2>1, ServedKeepsCache DEF ScansInv
<1>4. CASE lines' = lines /\ lost' = lost
  BY <1>2, <1>3, <1>4, OnlyLinesChange DEF Alike, LinesOf, Scanned
<1>5. ASSUME NEW D \in SUBSET DOMAIN lines,
             DOMAIN lines' = DOMAIN lines \ D,
             \A l \in DOMAIN lines' :
               \/ lines'[l] = lines[l]
               \/ lines'[l] = [lines[l] EXCEPT !.number = lines[l].scanned] /\ lines[l].scanned # NotScanned,
             \A l \in D : lines[l].order = o,
             lost' = lost \cup {<<o, lines[l].item>> : l \in D}
      PROVE  ScansInv'
  <2>1. \A l \in DOMAIN lines' : /\ l \in DOMAIN lines /\ lines'[l].order = lines[l].order
                                 /\ lines'[l].item = lines[l].item /\ lines'[l].scanned = lines[l].scanned
    <3> SUFFICES ASSUME NEW l \in DOMAIN lines'
                 PROVE  /\ l \in DOMAIN lines /\ lines'[l].order = lines[l].order
                        /\ lines'[l].item = lines[l].item /\ lines'[l].scanned = lines[l].scanned
      OBVIOUS
    <3>1. l \in DOMAIN lines /\ lines[l] \in LineRows
      BY <1>5 DEF TypeInv, LinesType
    <3> QED
      BY <1>5, <3>1 DEF LineRows
  <2>2. ASSUME NEW p, NEW j, <<p, j>> \notin lost' PROVE Alike(p, j)
    <3>1. \A l \in D : l \notin LinesOf(p, j)
      BY <1>5, <2>2 DEF LinesOf
    <3>2. LinesOf(p, j)' = LinesOf(p, j)
      BY <1>5, <2>1, <3>1 DEF LinesOf
    <3> QED
      BY <1>5, <2>1, <3>1, <3>2 DEF Alike, LinesOf, Scanned
  <2>3. lost \subseteq lost'
    BY <1>5
  <2> QED
    BY <1>2, <1>3, <2>2, <2>3, OnlyLinesChange
<1> QED
  BY <1>1, <1>4, <1>5

(* A page that saves a row over another forgives what it saves over.         *)
LEMMA RewriteKeepsScans ==
  ASSUME TypeInv, ScansInv, NEW r \in Desks, OnLine(r), NEW row, Rewrite(r, row), row \in LineRows,
         row.order = Found(r).order, row.item = Found(r).item,
         UNCHANGED <<shift, acceptor, orders, moved, boxes>>
  PROVE  ScansInv'
<1> DEFINE line == desk[r].edit.line
<1>1. /\ DOMAIN lines' = DOMAIN lines \cup {line} /\ lines'[line] = row
      /\ \A l \in DOMAIN lines : l # line => lines'[l] = lines[l]
      /\ lost \subseteq lost'
      /\ <<row.order, row.item>> \in lost' \/ (line \in DOMAIN lines /\ lines[line].scanned = row.scanned)
  BY DEF Rewrite, PutRow
<1>2. line \in DOMAIN lines => lines[line].order = row.order /\ lines[line].item = row.item
  BY DeskFacts DEF OnLine
<1> HIDE DEF line
<1>3. ASSUME NEW p, NEW j, <<p, j>> \notin lost' PROVE Alike(p, j)
  <2>1. LinesOf(p, j)' = LinesOf(p, j)
    BY <1>1, <1>2, <1>3 DEF LinesOf
  <2> QED
    BY <1>1, <1>2, <1>3, <2>1 DEF Alike, LinesOf, Scanned
<1>4. CacheKept'
  BY DEF ScansInv, CacheKept
<1> QED
  BY <1>1, <1>3, <1>4, OnlyLinesChange

LEMMA LineSavesKeepScans ==
  ASSUME TypeInv, ScansInv, UNCHANGED shift, NEW r \in Desks,
         SaveLine(r) \/ SaveForm(r) \/ DeleteLine(r) \/ NewLine(r)
  PROVE  ScansInv'
<1>0. /\ desk[r].pc = "save" /\ desk[r].edit \in Edits
      /\ UNCHANGED <<acceptor, orders, moved, boxes>> /\ CacheKept'
  <2>1. desk[r].pc = "save" /\ UNCHANGED <<acceptor, orders, moved, boxes>>
    BY DEF SaveLine, SaveForm, DeleteLine, NewLine, Saves
  <2>2. desk[r].edit \in Edits
    BY <2>1, DeskFacts
  <2>3. CacheKept'
    BY <2>1 DEF ScansInv, CacheKept
  <2> QED
    BY <2>1, <2>2, <2>3
<1>1. CASE SaveLine(r)
  <2>1. OnLine(r) /\ desk[r].edit.kind = "line"
    BY <1>1 DEF SaveLine, Saves, OnLine
  <2>2. Found(r) \in LineRows /\ desk[r].edit.number \in Int /\ desk[r].edit.size \in Nat \ {0} /\ desk[r].edit.cost \in Nat
    BY <1>0, <2>1, DeskFacts, OrdersConstants
  <2> DEFINE row == [Found(r) EXCEPT !.number = desk[r].edit.number, !.size = desk[r].edit.size, !.cost = desk[r].edit.cost]
  <2>3. row \in LineRows /\ row.order = Found(r).order /\ row.item = Found(r).item
    BY <2>2 DEF LineRows
  <2>4. Rewrite(r, row)
    BY <1>1 DEF SaveLine
  <2> HIDE DEF row
  <2> QED
    BY <1>0, <2>1, <2>3, <2>4, RewriteKeepsScans
<1>2. CASE SaveForm(r)
  <2>1. OnLine(r) /\ Rewrite(r, Found(r))
    BY <1>2 DEF SaveForm, Saves, OnLine
  <2>2. Found(r) \in LineRows
    BY <1>0, <2>1, DeskFacts
  <2> QED
    BY <1>0, <2>1, <2>2, RewriteKeepsScans
<1>3. CASE DeleteLine(r)
  <2> DEFINE line == desk[r].edit.line
  <2>1. /\ DOMAIN lines' = DOMAIN lines \ {line} /\ \A l \in DOMAIN lines' : lines'[l] = lines[l]
        /\ lost' = lost \cup {<<Found(r).order, Found(r).item>>}
    BY <1>3 DEF DeleteLine
  <2>2. line \in DOMAIN lines => lines[line].order = Found(r).order /\ lines[line].item = Found(r).item
    BY <1>0, <1>3, DeskFacts DEF DeleteLine, Saves, OnLine
  <2> HIDE DEF line
  <2>3. ASSUME NEW p, NEW j, <<p, j>> \notin lost' PROVE Alike(p, j)
    <3>1. line \notin LinesOf(p, j)
      BY <2>1, <2>2, <2>3 DEF LinesOf
    <3>2. LinesOf(p, j)' = LinesOf(p, j)
      BY <2>1, <3>1 DEF LinesOf
    <3> QED
      BY <2>1, <3>1, <3>2 DEF Alike, LinesOf, Scanned
  <2>4. lost \subseteq lost'
    BY <2>1
  <2> QED
    BY <1>0, <2>3, <2>4, OnlyLinesChange
<1>4. CASE NewLine(r)
  <2> DEFINE row == [order |-> desk[r].edit.order, item |-> desk[r].edit.item, size |-> Found(r).size,
                     number |-> desk[r].edit.number, cost |-> Found(r).price, taxed |-> Found(r).taxed,
                     scanned |-> NotScanned]
  <2>0. PICK l \in Fresh(LineIds, given) : lines' = PutRow(lines, l, row)
    BY <1>4 DEF NewLine
  <2>1. row.scanned = NotScanned
    OBVIOUS
  <2> HIDE DEF row
  <2>2. l \notin DOMAIN lines
    BY DEF Fresh, TypeInv, LinesType
  <2>3. /\ DOMAIN lines' = DOMAIN lines \cup {l} /\ lines'[l] = row
        /\ \A k \in DOMAIN lines : lines'[k] = lines[k]
    BY <2>0, <2>2 DEF PutRow
  <2>4. ASSUME NEW p \in DOMAIN orders, NEW j \in Items, ~Alike(p, j), Matches(p, j)
        PROVE  Matches(p, j)'
    <3>1. l \in LinesOf(p, j)'
      BY <2>2, <2>3, <2>4 DEF Alike, LinesOf, Scanned
    <3>2. LinesOf(p, j) \subseteq LinesOf(p, j)' /\ l \notin LinesOf(p, j)
      BY <2>2, <2>3 DEF LinesOf
    <3>3. Scanned(l)' = 0
      BY <2>1, <2>3 DEF Scanned
    <3>4. LinesOf(p, j)' = {l} => LinesOf(p, j) = {}
      BY <3>2
    <3>5. \A k : k \in LinesOf(p, j)' /\ LinesOf(p, j)' = {k} => k = l
      BY <3>1
    <3> QED
      BY <1>0, <2>4, <3>1, <3>3, <3>4, <3>5 DEF Matches
  <2>5. lost' = lost
    BY <1>4 DEF NewLine
  <2> QED
    BY <1>0, <2>4, <2>5, OnlyLinesChange
<1> QED
  BY <1>1, <1>2, <1>3, <1>4

(* A page that moves an order from a day excuses both days.                  *)
LEMMA SaveOrderKeepsScans ==
  ASSUME TypeInv, ScansInv, UNCHANGED shift, NEW r \in Desks, SaveOrder(r)
  PROVE  ScansInv'
<1> DEFINE o == desk[r].edit.order
<1>1. /\ UNCHANGED <<acceptor, boxes, lines, lost>> /\ BusyDays' = BusyDays
      /\ o \in DOMAIN orders
  BY DeskFacts DEF SaveOrder, Saves, BusyDays
<1>2. PICK row : /\ orders' = [orders EXCEPT ![o] = row]
                 /\ moved' = IF row.day = orders[o].day THEN moved ELSE moved \cup {row.day, orders[o].day}
  BY DEF SaveOrder
<1> HIDE DEF o
<1>3. /\ DOMAIN orders' = DOMAIN orders /\ orders'[o] = row
      /\ \A p \in DOMAIN orders : p # o => orders'[p] = orders[p]
  BY <1>1, <1>2
<1>4. moved \subseteq moved' /\ (row.day = orders[o].day \/ {row.day, orders[o].day} \subseteq moved')
  BY <1>2
<1>5. CacheKept'
  BY <1>1, <1>3, <1>4 DEF TypeInv, AcceptorType, ScansInv, CacheKept
<1>6. DaysKnown'
  BY <1>1, <1>3, <1>4 DEF ScansInv, DaysKnown
<1>7. ASSUME NEW p \in DOMAIN orders, NEW i \in Items PROVE Kept(p, i)'
  <2>1. CASE orders'[p].day \in moved'
    BY <2>1 DEF Kept, Excused
  <2>2. CASE orders'[p].day \notin moved'
    <3>1. orders'[p].day = orders[p].day
      BY <1>3, <1>4, <2>2
    <3>2. Excused(p, i) => Excused(p, i)'
      <4>1. \A q \in DOMAIN orders : orders[q].day = orders[p].day => orders'[q].day = orders'[p].day
        BY <1>3, <1>4, <2>2, <3>1
      <4> QED
        BY <1>1, <1>3, <1>4, <3>1, <4>1 DEF Excused
    <3>3. Matches(p, i) => Matches(p, i)'
      BY <1>1, <3>1 DEF Matches, LinesOf, Scanned
    <3> QED
      BY <3>2, <3>3 DEF ScansInv, Kept
  <2> QED
    BY <2>1, <2>2
<1> QED
  BY <1>3, <1>5, <1>6, <1>7 DEF ScansInv, Kept

LEMMA NewOrderKeepsScans ==
  ASSUME TypeInv, ScansInv, UNCHANGED shift, NEW r \in Desks, NewOrder(r)
  PROVE  ScansInv'
<1>1. UNCHANGED <<acceptor, boxes, lines, lost>> /\ BusyDays' = BusyDays
  BY DEF NewOrder, BusyDays
<1> DEFINE row == [day |-> desk[r].edit.day, amount |-> desk[r].edit.amount]
<1>0. PICK o \in Fresh(OrderIds, DOMAIN orders) : orders' = PutRow(orders, o, row)
  BY DEF NewOrder
<1>2. moved' = moved \cup {row.day}
  BY DEF NewOrder
<1> HIDE DEF row
<1>3. /\ o \notin DOMAIN orders /\ DOMAIN orders' = DOMAIN orders \cup {o} /\ orders'[o] = row
      /\ \A p \in DOMAIN orders : orders'[p] = orders[p]
  BY <1>0 DEF Fresh, PutRow
<1>4. CacheKept'
  BY <1>1, <1>2, <1>3 DEF TypeInv, AcceptorType, ScansInv, CacheKept
<1>5. DaysKnown'
  BY <1>1, <1>2, <1>3 DEF ScansInv, DaysKnown
<1>6. ASSUME NEW p \in DOMAIN orders, NEW i \in Items PROVE Kept(p, i)'
  <2>1. Excused(p, i) => Excused(p, i)'
    BY <1>1, <1>2, <1>3 DEF Excused
  <2>2. Matches(p, i) => Matches(p, i)'
    BY <1>1, <1>3 DEF Matches, LinesOf, Scanned
  <2> QED
    BY <2>1, <2>2 DEF ScansInv, Kept
<1>7. \A i \in Items : Kept(o, i)'
  BY <1>2, <1>3 DEF Kept, Excused
<1> QED
  BY <1>3, <1>4, <1>5, <1>6, <1>7 DEF ScansInv, Kept

LEMMA ScansFrame ==
  ASSUME ScansInv, UNCHANGED <<shift, acceptor, boxes, moved, lost, orders, lines>>
  PROVE  ScansInv'
<1>1. CacheKept' /\ DaysKnown'
  BY DEF ScansInv, CacheKept, DaysKnown, BusyDays
<1>2. \A o, i : Alike(o, i)
  BY DEF Alike, LinesOf, Scanned
<1> QED
  BY <1>1, <1>2, OnlyLinesChange

LEMMA ScansStep ==
  ASSUME TypeInv, ScansInv, [Next]_vars
  PROVE  ScansInv'
<1>1. CASE OrdersNext /\ UNCHANGED shift
  <2>1. CASE \E i \in Items : (\E n \in {-1, 1} : Scan(i, n)) \/ Resolve(i)
    BY <1>1, <2>1, ScanKeepsScans, ResolveKeepsScans
  <2>2. ASSUME NEW r \in Desks, SaveLine(r) \/ SaveForm(r) \/ DeleteLine(r) \/ NewLine(r)
        PROVE  ScansInv'
    BY <1>1, <2>2, LineSavesKeepScans
  <2>3. ASSUME NEW r \in Desks, SaveOrder(r) \/ NewOrder(r)
        PROVE  ScansInv'
    BY <1>1, <2>3, SaveOrderKeepsScans, NewOrderKeepsScans
  <2>4. ASSUME NEW r \in Desks, SaveBulk(r) \/ \E e \in Edits : Load(r, e)
        PROVE  ScansInv'
    <3>1. UNCHANGED <<acceptor, boxes, moved, lost, orders, lines>>
      BY <2>4 DEF SaveBulk, Load, stock
    <3> QED
      BY <1>1, <3>1, ScansFrame
  <2> QED
    BY <1>1, <2>1, <2>2, <2>3, <2>4 DEF OrdersNext
<1>2. CASE InventoryNext /\ UNCHANGED <<shift, accepting>>
  <2>1. UNCHANGED <<orders, lines>>
    BY <1>2
       DEF InventoryNext, AddLook, StageAdd, Read, RemoveFromInventory, Flag, Unflag, AddWrite,
           ZeroUnprotected, Reset, Commit, PageOpen, PageInsert, PagePost, stock
  <2> QED
    BY <1>2, <2>1, ScansFrame DEF accepting
<1>3. CASE (\E i \in Items : Sale(i)) \/ Tick \/ UNCHANGED vars
  <2>1. UNCHANGED <<shift, acceptor, boxes, moved, lost, orders, lines>>
    BY <1>3 DEF Sale, Tick, vars, stock, accepting
  <2> QED
    BY <2>1, ScansFrame
<1> QED
  BY <1>1, <1>2, <1>3 DEF Next

LEMMA ScansSuffice ==
  ASSUME TypeInv, ScansInv
  PROVE  ScansKept
<1> SUFFICES ASSUME NEW l \in DOMAIN lines
             PROVE  LET o == lines[l].order  i == lines[l].item  d == orders[o].day
                    IN  \/ d \in moved \/ <<o, i>> \in lost
                        \/ \E p \in DOMAIN orders \ {o} : orders[p].day = d
                        \/ LinesOf(o, i) # {l}
                        \/ /\ Scanned(l) = boxes[<<d, i>>]
                           /\ l \in Unresolved(o) <=> lines[l].number # boxes[<<d, i>>]
  BY DEF ScansKept
<1> DEFINE o == lines[l].order
           i == lines[l].item
<1>1. o \in DOMAIN orders /\ i \in Items
  BY DEF TypeInv, LinesType, LineRows
<1>2. Excused(o, i) \/ Matches(o, i)
  BY <1>1 DEF ScansInv
<1>3. l \in Unresolved(o) <=> lines[l].number # Scanned(l)
  BY DEF Unresolved
<1>4. Matches(o, i) /\ LinesOf(o, i) = {l} => Scanned(l) = boxes[<<orders[o].day, i>>]
  BY DEF Matches
<1> QED
  BY <1>2, <1>3, <1>4 DEF Excused

(* However scans at the door and saves of pages mix: what a line is said to  *)
(* have got is what was scanned on the day of its order, and what differs is *)
(* unresolved - or the day or the line is excused.                           *)
THEOREM ScansAreKept == Spec => []ScansKept
<1>1. Init => TypeInv /\ ScansInv
  BY TypeInit, ScansInit
<1>2. TypeInv /\ ScansInv /\ [Next]_vars => TypeInv' /\ ScansInv'
  BY TypeStep, ScansStep
<1>3. TypeInv /\ ScansInv => ScansKept
  BY ScansSuffice
<1> QED
  BY <1>1, <1>2, <1>3, PTL DEF Spec

-----------------------------------------------------------------------------
(* The tables are finite, so that what is summed up of them are numbers.     *)

TablesFinite == IsFiniteSet(DOMAIN lines) /\ IsFiniteSet(sales)

LEMMA FiniteInit == Init => TablesFinite
  BY OrdersConstants DEF Init, TablesFinite

LEMMA FiniteMore ==
  ASSUME NEW S, IsFiniteSet(S), NEW T, NEW x, T \subseteq S \cup {x}
  PROVE  IsFiniteSet(T)
  BY FS_AddElement, FS_Subset

LEMMA FiniteStep ==
  ASSUME TablesFinite, [Next]_vars
  PROVE  TablesFinite'
<1>1. ASSUME DOMAIN lines' \subseteq DOMAIN lines, UNCHANGED sales PROVE TablesFinite'
  BY <1>1, FS_Subset DEF TablesFinite
<1>2. ASSUME NEW l, NEW row, lines' = PutRow(lines, l, row), UNCHANGED sales PROVE TablesFinite'
  <2>1. DOMAIN lines' \subseteq DOMAIN lines \cup {l}
    BY <1>2 DEF PutRow
  <2> QED
    BY <1>2, <2>1, FiniteMore DEF TablesFinite
<1>3. ASSUME UNCHANGED <<lines, sales>> PROVE TablesFinite'
  BY <1>3 DEF TablesFinite
<1>4. CASE InventoryNext
  <2>1. UNCHANGED <<lines, sales>>
    BY <1>4
       DEF InventoryNext, AddLook, StageAdd, Read, RemoveFromInventory, Flag, Unflag, AddWrite,
           ZeroUnprotected, Reset, Commit, PageOpen, PageInsert, PagePost, stock
  <2> QED
    BY <1>3, <2>1
<1>5. CASE OrdersNext
  <2>1. ASSUME NEW i \in Items, NEW n \in {-1, 1}, Scan(i, n) PROVE TablesFinite'
    BY <1>1, <2>1 DEF Scan, CountCases
  <2>2. ASSUME NEW i \in Items, Resolve(i) PROVE TablesFinite'
    <3>1. UNCHANGED sales /\ DOMAIN lines' \subseteq DOMAIN lines
      BY <2>2 DEF Resolve
    <3> QED
      BY <1>1, <3>1
  <2>3. ASSUME NEW r \in Desks, NEW e \in Edits, Load(r, e) PROVE TablesFinite'
    BY <1>3, <2>3 DEF Load, stock
  <2>4. ASSUME NEW r \in Desks, SaveLine(r) \/ SaveForm(r) PROVE TablesFinite'
    <3>1. UNCHANGED sales /\ \E row : Rewrite(r, row)
      BY <2>4 DEF SaveLine, SaveForm
    <3> QED
      BY <1>2, <3>1 DEF Rewrite
  <2>5. ASSUME NEW r \in Desks, DeleteLine(r) PROVE TablesFinite'
    BY <1>1, <2>5 DEF DeleteLine
  <2>6. ASSUME NEW r \in Desks, NewLine(r) PROVE TablesFinite'
    <3>1. UNCHANGED sales /\ \E l, row : lines' = PutRow(lines, l, row)
      BY <2>6 DEF NewLine
    <3> QED
      BY <1>2, <3>1
  <2>7. ASSUME NEW r \in Desks, SaveBulk(r) \/ SaveOrder(r) \/ NewOrder(r) PROVE TablesFinite'
    BY <1>3, <2>7 DEF SaveBulk, SaveOrder, NewOrder
  <2> QED
    BY <1>5, <2>1, <2>2, <2>3, <2>4, <2>5, <2>6, <2>7 DEF OrdersNext
<1>6. ASSUME NEW i \in Items, Sale(i) PROVE TablesFinite'
  <2>1. UNCHANGED lines /\ \E x : sales' = sales \cup {x}
    BY <1>6 DEF Sale
  <2> QED
    BY <2>1, FiniteMore DEF TablesFinite
<1>7. CASE Tick \/ UNCHANGED vars
  BY <1>3, <1>7 DEF Tick, vars, stock
<1> QED
  BY <1>4, <1>5, <1>6, <1>7 DEF Next

LEMMA TablesInvariant == Spec => [](TypeInv /\ TablesFinite)
<1>1. Init => TypeInv /\ TablesFinite
  BY TypeInit, FiniteInit
<1>2. TypeInv /\ TablesFinite /\ [Next]_vars => TypeInv' /\ TablesFinite'
  BY TypeStep, FiniteStep
<1> QED
  BY <1>1, <1>2, PTL DEF Spec

-----------------------------------------------------------------------------
(* What the sums of the reports are.                                         *)

UnitsOf == [l \in DOMAIN lines |-> Units(l)]
LEMMA UnitsAre ==
  ASSUME TablesFinite, NEW L, L \subseteq DOMAIN lines
  PROVE  IsFiniteSet(L) /\ Sum(L, Units) = SumOf(L, UnitsOf)
<1> DEFINE Eq(F) == F = [T \in SUBSET L |-> IF T = {} THEN 0
                                            ELSE LET x == CHOOSE x \in T : TRUE
                                                 IN  Units(x) + F[T \ {x}]]
           F == CHOOSE F : Eq(F)
<1>0. IsFiniteSet(L)
  BY FS_Subset DEF TablesFinite
<1>1. ASSUME NEW G PROVE Eq(G) <=> IsSumOn(G, UnitsOf, L)
  <2>1. \A T \in SUBSET L : T # {} => UnitsOf[Chosen(T)] = Units(Chosen(T))
    BY ChosenIn DEF UnitsOf
  <2> QED
    BY <2>1, ZenonT(60) DEF IsSumOn, Chosen
<1>2. IsSumOn(F, UnitsOf, L)
  <2> HIDE DEF Eq
  <2>1. \E G : Eq(G)
    BY <1>0, <1>1, SumOnExists
  <2>2. Eq(F)
    BY <2>1
  <2> HIDE DEF F
  <2> QED
    BY <2>2, <1>1
<1>3. Sum(L, Units) = F[L]
  BY DEF Sum
<1> HIDE DEF F
<1> QED
  BY <1>0, <1>2, <1>3, SumOfIs, L \in SUBSET L

UnitsCounted == [c \in counts |-> c.units]
LEMMA CountedAre ==
  ASSUME TypeInv, NEW C, C \subseteq counts
  PROVE  IsFiniteSet(C) /\ Sum(C, LAMBDA c : c.units) = SumOf(C, UnitsCounted)
<1> DEFINE Eq(F) == F = [T \in SUBSET C |-> IF T = {} THEN 0
                                            ELSE LET x == CHOOSE x \in T : TRUE
                                                 IN  x.units + F[T \ {x}]]
           F == CHOOSE F : Eq(F)
<1>0. IsFiniteSet(C)
  BY FS_Subset DEF TypeInv, InventoryType
<1>1. ASSUME NEW G PROVE Eq(G) <=> IsSumOn(G, UnitsCounted, C)
  <2>1. \A T \in SUBSET C : T # {} => UnitsCounted[Chosen(T)] = Chosen(T).units
    BY ChosenIn DEF UnitsCounted
  <2> QED
    BY <2>1, ZenonT(60) DEF IsSumOn, Chosen
<1>2. IsSumOn(F, UnitsCounted, C)
  <2> HIDE DEF Eq
  <2>1. \E G : Eq(G)
    BY <1>0, <1>1, SumOnExists
  <2>2. Eq(F)
    BY <2>1
  <2> HIDE DEF F
  <2> QED
    BY <2>2, <1>1
<1>3. Sum(C, LAMBDA c : c.units) = F[C]
  BY DEF Sum
<1> HIDE DEF F
<1> QED
  BY <1>0, <1>2, <1>3, SumOfIs, C \in SUBSET C

LEMMA SumsAreInt ==
  ASSUME TypeInv, TablesFinite
  PROVE  /\ \A l \in DOMAIN lines : Units(l) \in Int
         /\ \A L \in SUBSET DOMAIN lines : Sum(L, Units) \in Int
         /\ \A C \in SUBSET counts : Sum(C, LAMBDA c : c.units) \in Int
         /\ \A S \in SUBSET sales : Cardinality(S) \in Nat
<1>1. ASSUME NEW l \in DOMAIN lines PROVE Units(l) \in Int
  BY DEF TypeInv, LinesType, LineRows, Units
<1>2. ASSUME NEW L \in SUBSET DOMAIN lines PROVE Sum(L, Units) \in Int
  <2>1. \A l \in L : UnitsOf[l] \in Int
    BY <1>1 DEF UnitsOf
  <2> QED
    BY <2>1, UnitsAre, SumOfInt
<1>3. ASSUME NEW C \in SUBSET counts PROVE Sum(C, LAMBDA c : c.units) \in Int
  <2>1. \A c \in C : UnitsCounted[c] \in Int
    BY DEF UnitsCounted, TypeInv, InventoryType, CountRows
  <2> QED
    BY <2>1, CountedAre, SumOfInt
<1>4. ASSUME NEW S \in SUBSET sales PROVE Cardinality(S) \in Nat
  BY FS_Subset, FS_CardinalityType DEF TablesFinite
<1> QED
  BY <1>1, <1>2, <1>3, <1>4

LEMMA SummaryInt ==
  ASSUME TypeInv, TablesFinite, NEW i, NEW d
  PROVE  /\ Summary(i, d, TRUE).estimate \in Int
         /\ CurrentInventory(i).remaining \in Int
<1>1. \A T : {l \in ItemLines(i) : T[l]} \in SUBSET DOMAIN lines
  BY DEF ItemLines
<1>2. OldCounts(i, d) \in SUBSET counts /\ LastInventory(i) \in SUBSET counts
  BY DEF OldCounts, LastInventory
<1>3. ItemLines(i) \in SUBSET DOMAIN lines /\ ItemSales(i) \in SUBSET sales
  BY DEF ItemLines, ItemSales
<1>4. /\ Sum(OldCounts(i, d), LAMBDA c : c.units) \in Int
      /\ Sum(LastInventory(i), LAMBDA c : c.units) \in Int
  BY <1>2, SumsAreInt
<1> QED
  BY <1>3, <1>4, SumsAreInt DEF Summary, CurrentInventory, Delivered, Sold

-----------------------------------------------------------------------------
(* The report of the inventory's value.  Its accounts of an item are sound,  *)
(* and what is yielded adds up to what there is.                             *)

Losses == Seq([at : Int, units : Int])
Valued ==
  {x \in [count : Int, cost : Nat, price : Nat, moved : Int, worth : Int, lost : Losses] :
     (x.count <= 0 => x.cost = 0) /\ x.moved = x.count /\ x.worth = x.cost}

(* More of no fewer is no fewer: cases of units, days of ticks.              *)
LEMMA TimesMonotone ==
  ASSUME NEW m \in Int, NEW n \in Int, m >= n, NEW s \in Nat
  PROVE  m * s >= n * s
<1>1. (m - n) * s >= 0
  <2>1. \A a \in Nat, b \in Nat : a * b >= 0
    OBVIOUS
  <2>2. m - n \in Nat
    OBVIOUS
  <2> QED
    BY <2>1, <2>2
<1>2. (m - n) * s = m * s - n * s /\ m * s \in Int /\ n * s \in Int
  OBVIOUS
<1> QED
  BY <1>1, <1>2

LEMMA DivSign ==
  ASSUME NEW a \in Int, NEW k \in Nat \ {0}
  PROVE  /\ a <= 0 => a \div k <= 0
         /\ \A m \in Int : a >= k * m => a \div k >= m
<1>1. a \div k \in Int /\ a % k \in 0 .. k - 1 /\ a = k * (a \div k) + (a % k)
  BY DivFacts
<1>2. ASSUME NEW q \in Int, NEW r \in 0 .. k - 1, a = k * q + r, a <= 0 PROVE q <= 0
  <2> SUFFICES ASSUME q >= 1 PROVE FALSE
    OBVIOUS
  <2>1. q * k >= 1 * k
    BY TimesMonotone
  <2> QED
    BY <1>2, <2>1
<1>3. ASSUME NEW q \in Int, NEW r \in 0 .. k - 1, a = k * q + r, NEW m \in Int, a >= k * m PROVE q >= m
  <2> SUFFICES ASSUME q <= m - 1 PROVE FALSE
    OBVIOUS
  <2>1. (m - 1) * k >= q * k
    BY TimesMonotone
  <2>2. (m - 1) * k = k * m - k /\ q * k = k * q
    OBVIOUS
  <2> QED
    BY <1>3, <2>1, <2>2
<1> QED
  BY <1>1, <1>2, <1>3, Zenon

LEMMA YieldKeeps ==
  ASSUME NEW x \in Valued, NEW n \in Int, NEW v \in Int, x.cost + v >= 0, x.count + n <= 0 => x.cost + v = 0
  PROVE  /\ Yield(x, n, v) \in Valued
         /\ Yield(x, n, v).count = x.count + n /\ Yield(x, n, v).cost = x.cost + v
         /\ Yield(x, n, v).lost = x.lost /\ Yield(x, n, v).price = x.price
<1> DEFINE y == Yield(x, n, v)
<1>1. /\ x \in [count : Int, cost : Nat, price : Nat, moved : Int, worth : Int, lost : Losses]
      /\ x.moved = x.count /\ x.worth = x.cost
  BY DEF Valued
<1>2. y = [x EXCEPT !.count = x.count + n, !.cost = x.cost + v, !.moved = x.moved + n, !.worth = x.worth + v]
  BY DEF Yield
<1>3. /\ x.count + n \in Int /\ x.cost + v \in Nat /\ x.moved + n \in Int /\ x.worth + v \in Int
      /\ x.moved + n = x.count + n /\ x.worth + v = x.cost + v
  BY <1>1
<1>4. y = [count |-> x.count + n, cost |-> x.cost + v, price |-> x.price, moved |-> x.moved + n,
           worth |-> x.worth + v, lost |-> x.lost]
  BY <1>1, <1>2
<1> HIDE DEF y
<1>5. /\ y \in [count : Int, cost : Nat, price : Nat, moved : Int, worth : Int, lost : Losses]
      /\ y.count = x.count + n /\ y.cost = x.cost + v /\ y.moved = x.moved + n /\ y.worth = x.worth + v
      /\ y.lost = x.lost /\ y.price = x.price
  BY <1>1, <1>3, <1>4
<1>6. y \in Valued
  BY <1>3, <1>5 DEF Valued
<1> QED
  BY <1>5, <1>6 DEF y

(* A line of the day. *)
Coming == {l \in DOMAIN lines : lines[l].number >= 0 /\ Units(l) # 0}
LEMMA LineFacts ==
  ASSUME TypeInv, NEW l \in Coming
  PROVE  /\ Units(l) \in Nat \ {0} /\ lines[l].number \in Nat /\ lines[l].cost \in Nat
         /\ Scale * lines[l].cost * lines[l].number \in Nat
<1>1. lines[l].number \in Nat /\ lines[l].size \in Nat \ {0} /\ lines[l].cost \in Nat /\ Scale \in Nat
  BY StockConstants DEF Coming, TypeInv, LinesType, LineRows
<1>2. \A a \in Nat, b \in Nat : a * b \in Nat
  OBVIOUS
<1> QED
  BY <1>1, <1>2 DEF Units, Coming

LEMMA ReceiveKeeps ==
  ASSUME TypeInv, NEW x \in Valued, NEW l \in Coming
  PROVE  Receive(x, l) \in Valued /\ Receive(x, l).count = x.count + Units(l) /\ Receive(x, l).lost = x.lost
<1> DEFINE n == Units(l)
           full == Scale * lines[l].cost * lines[l].number
           part == (full * (x.count + n)) \div n
           worth == IF x.count < 0 THEN Larger(part, 0) ELSE full
<1>1. n \in Nat \ {0} /\ full \in Nat /\ x.count \in Int /\ x.cost \in Nat /\ (x.count <= 0 => x.cost = 0)
  BY LineFacts DEF Valued
<1>2. Receive(x, l) = Yield(x, n, worth)
  BY DEF Receive
<1> HIDE DEF n, full
<1>3. full * (x.count + n) \in Int /\ part \in Int
  <2>1. x.count + n \in Int
    BY <1>1
  <2>2. \A a \in Nat, b \in Int : a * b \in Int
    OBVIOUS
  <2>3. full * (x.count + n) \in Int
    BY <1>1, <2>1, <2>2
  <2> QED
    BY <1>1, <2>3, DivFacts
<1>4. x.count + n <= 0 => part <= 0
  <2> SUFFICES ASSUME x.count + n <= 0 PROVE part <= 0
    OBVIOUS
  <2>1. full * (x.count + n) <= 0
    <3>1. \A a \in Nat, b \in Int : b <= 0 => a * b <= 0
      OBVIOUS
    <3> QED
      BY <1>1, <3>1
  <2> QED
    BY <1>1, <1>3, <2>1, DivSign
<1> HIDE DEF part
<1>5. worth \in Nat /\ (x.count + n <= 0 => worth = 0)
  BY <1>1, <1>3, <1>4 DEF Larger
<1> HIDE DEF worth
<1>6. x.cost + worth >= 0 /\ (x.count + n <= 0 => x.cost + worth = 0)
  BY <1>1, <1>5
<1> QED
  BY <1>1, <1>2, <1>5, <1>6, YieldKeeps DEF n

LEMMA SellKeeps ==
  ASSUME NEW x \in Valued, NEW n \in Nat \ {0}
  PROVE  Sell(x, n) \in Valued /\ Sell(x, n).count = x.count - n /\ Sell(x, n).lost = x.lost
<1> DEFINE taken == IF Part(x, n) < x.cost THEN Part(x, n) ELSE x.cost
           v == CASE x.count <= 0 -> 0 [] n = x.count -> -x.cost [] OTHER -> -taken
<1>1. x.count \in Int /\ x.cost \in Nat /\ (x.count <= 0 => x.cost = 0)
  BY DEF Valued
<1>2. Sell(x, n) = Yield(x, -n, v)
  BY DEF Sell
<1>3. ASSUME x.count > 0 PROVE Part(x, n) \in Int /\ (n > x.count => Part(x, n) >= x.cost)
  <2>1. x.count \in Nat \ {0} /\ n * x.cost \in Int
    BY <1>1, <1>3
  <2>2. ASSUME n > x.count PROVE n * x.cost >= x.count * x.cost
    <3>1. n - x.count \in Nat
      BY <1>1, <2>2
    <3>2. \A a \in Nat, b \in Nat : a * b >= 0
      OBVIOUS
    <3>3. (n - x.count) * x.cost >= 0
      BY <1>1, <3>1, <3>2
    <3>4. (n - x.count) * x.cost = n * x.cost - x.count * x.cost
      BY <1>1
    <3>5. \A a \in Int, b \in Int : a - b >= 0 => a >= b
      OBVIOUS
    <3> QED
      BY <2>1, <3>3, <3>4, <3>5, <1>1
  <2>3. (n * x.cost) \div x.count \in Int
    BY <2>1, DivFacts
  <2>4. \A m \in Int : n * x.cost >= x.count * m => (n * x.cost) \div x.count >= m
    BY <2>1, DivSign
  <2>5. ASSUME n > x.count PROVE (n * x.cost) \div x.count >= x.cost
    BY <1>1, <2>2, <2>4, <2>5
  <2> QED
    BY <2>3, <2>5 DEF Part
<1>4. v \in Int /\ x.cost + v >= 0 /\ (x.count - n <= 0 => x.cost + v = 0)
  <2>1. CASE x.count <= 0
    <3>1. v = 0
      BY <2>1
    <3> HIDE DEF v
    <3> QED
      BY <1>1, <2>1, <3>1
  <2>2. CASE x.count > 0 /\ n = x.count
    <3>1. v = -x.cost
      BY <1>1, <2>2
    <3> HIDE DEF v
    <3> QED
      BY <1>1, <3>1
  <2>3. CASE x.count > 0 /\ n # x.count
    <3>1. v = -taken
      BY <1>1, <2>3
    <3>2. taken \in Int /\ taken <= x.cost /\ (n > x.count => taken = x.cost)
      BY <1>1, <1>3, <2>3
    <3> HIDE DEF taken, v
    <3> QED
      BY <1>1, <3>1, <3>2, <2>3
  <2> QED
    BY <1>1, <2>1, <2>2, <2>3
<1> HIDE DEF v
<1>5. -n \in Int /\ x.count + (-n) = x.count - n
  BY <1>1
<1> QED
  BY <1>2, <1>4, <1>5, YieldKeeps

LEMMA RepriceKeeps ==
  ASSUME NEW x \in Valued
  PROVE  Reprice(x) \in Valued /\ Reprice(x).count = x.count /\ Reprice(x).lost = x.lost
<1>1. x.count > 0 => x.cost \div x.count \in Nat
  <2>1. x.count > 0 => x.count \in Nat \ {0}
    BY DEF Valued
  <2>2. x.cost \in Nat /\ x.cost \in Int
    BY DEF Valued
  <2>3. \A n \in Int, k \in Nat \ {0} : n \in Nat => n \div k \in Nat
    BY DivFacts, Zenon
  <2> QED
    BY <2>1, <2>2, <2>3, Zenon
<1> DEFINE p == IF x.count > 0 THEN x.cost \div x.count ELSE x.price
<1>2. p \in Nat
  BY <1>1 DEF Valued
<1>3. Reprice(x) = [x EXCEPT !.price = p]
  BY DEF Reprice
<1> HIDE DEF p
<1> DEFINE y == [x EXCEPT !.price = p]
<1>4. y \in [count : Int, cost : Nat, price : Nat, moved : Int, worth : Int, lost : Losses]
  BY <1>2 DEF Valued
<1>5. y.count = x.count /\ y.cost = x.cost /\ y.moved = x.moved /\ y.worth = x.worth /\ y.lost = x.lost
  BY DEF Valued
<1>6. (x.count <= 0 => x.cost = 0) /\ x.moved = x.count /\ x.worth = x.cost
  BY DEF Valued
<1> HIDE DEF y
<1>7. y \in Valued
  BY <1>4, <1>5, <1>6 DEF Valued
<1> QED
  BY <1>3, <1>5, <1>7 DEF y

Lost(x, c) == IF c.units = x.count THEN x.lost ELSE Append(x.lost, [at |-> c.at, units |-> x.count - c.units])
LEMMA RecountKeeps ==
  ASSUME NEW x \in Valued, NEW c \in CountRows
  PROVE  Recount(x, c) \in Valued /\ Recount(x, c).count = c.units /\ Recount(x, c).lost = Lost(x, c)
<1>1. /\ x.count \in Int /\ x.cost \in Nat /\ x.price \in Nat /\ x.lost \in Losses
      /\ c.units \in Nat /\ c.at \in Int
  BY DEF Valued, CountRows
<1>2. CASE c.units = x.count
  BY <1>2 DEF Recount, Lost
<1>3. CASE c.units # x.count
  <2> DEFINE y == Yield(x, c.units - x.count, x.price * c.units - x.cost)
             entry == [at |-> c.at, units |-> x.count - c.units]
  <2>1. x.price * c.units \in Nat /\ (c.units <= 0 => x.price * c.units = 0)
    <3>1. \A a \in Nat, b \in Nat : a * b \in Nat /\ (b <= 0 => a * b = 0)
      OBVIOUS
    <3> QED
      BY <1>1, <3>1
  <2>2. y \in Valued /\ y.count = c.units /\ y.lost = x.lost
    <3>1. \A w \in Nat : c.units - x.count \in Int /\ w - x.cost \in Int /\ x.cost + (w - x.cost) = w
                         /\ x.count + (c.units - x.count) = c.units
      BY <1>1
    <3> QED
      BY <2>1, <3>1, YieldKeeps
  <2>3. entry \in [at : Int, units : Int]
    BY <1>1
  <2>4. Append(y.lost, entry) \in Losses
    BY <1>1, <2>2, <2>3 DEF Losses
  <2>5. Recount(x, c) = [y EXCEPT !.lost = Append(@, entry)]
    BY <1>3 DEF Recount
  <2> HIDE DEF y, entry
  <2>6. Recount(x, c) \in Valued /\ Recount(x, c).count = y.count /\ Recount(x, c).lost = Append(y.lost, entry)
    BY <2>2, <2>4, <2>5 DEF Valued
  <2> QED
    BY <1>3, <2>2, <2>6 DEF Lost, entry
<1> QED
  BY <1>2, <1>3

(* The deliveries of a day, in whatever order they are taken.                *)
Received(x, L) == FoldSet(LAMBDA l, y : Receive(y, l), x, L)
LEMMA ReceivedIs ==
  ASSUME TypeInv, TablesFinite, NEW x \in Valued, NEW L, L \subseteq Coming
  PROVE  /\ Received(x, L) \in Valued
         /\ Received(x, L).count = x.count + Sum(L, Units) /\ Received(x, L).lost = x.lost
<1> DEFINE g == [p \in L \X Valued |-> Receive(p[2], p[1])]
           Eq(F) == F = [T \in SUBSET L |-> IF T = {} THEN x
                                            ELSE LET l == CHOOSE l \in T : TRUE
                                                 IN  Receive(F[T \ {l}], l)]
           F == CHOOSE F : Eq(F)
<1>0. L \subseteq DOMAIN lines /\ IsFiniteSet(L)
  BY UnitsAre DEF Coming
<1>1. PICK G : IsFoldOn(G, g, x, L)
  BY <1>0, FoldOnExists
<1>2. \A T \in SUBSET L : G[T] \in Valued
  <2> DEFINE A == {T \in SUBSET L : G[T] \in Valued}
  <2>1. {} \in A
    <3>1. G[{}] = x
      BY <1>1, {} \in SUBSET L DEF IsFoldOn
    <3> QED
      BY <3>1
  <2>2. ASSUME NEW T \in SUBSET L, T # {}, T \ {Chosen(T)} \in A PROVE T \in A
    <3>1. Chosen(T) \in L /\ G[T \ {Chosen(T)}] \in Valued
      BY <2>2, ChosenIn
    <3>2. G[T] = g[<<Chosen(T), G[T \ {Chosen(T)}]>>]
      BY <1>1, <2>2 DEF IsFoldOn
    <3>3. G[T] = Receive(G[T \ {Chosen(T)}], Chosen(T))
      BY <3>1, <3>2
    <3> QED
      BY <3>1, <3>3, ReceiveKeeps
  <2> HIDE DEF A
  <2>3. \A T \in SUBSET L : T \in A
    BY <1>0, <2>1, <2>2, SubsetsFromEmpty
  <2> QED
    BY <2>3 DEF A
<1>3. Eq(G)
  <2>1. ASSUME NEW T \in SUBSET L, T # {}
        PROVE  g[<<Chosen(T), G[T \ {Chosen(T)}]>>] = Receive(G[T \ {Chosen(T)}], Chosen(T))
    <3>1. Chosen(T) \in L /\ G[T \ {Chosen(T)}] \in Valued
      BY <1>2, <2>1, ChosenIn
    <3> QED
      BY <3>1
  <2> HIDE DEF g
  <2> QED
    BY <1>1, <2>1, ZenonT(60) DEF IsFoldOn, Chosen
<1>4. Eq(F)
  <2> HIDE DEF Eq
  <2> QED
    BY <1>3
<1>5. Received(x, L) = F[L]
  BY DEF Received, FoldSet, MapThenFoldSet
<1> HIDE DEF F
<1> DEFINE A == {T \in SUBSET L : /\ F[T] \in Valued /\ F[T].lost = x.lost
                                  /\ F[T].count = x.count + SumOf(T, UnitsOf)}
<1>6. {} \in A
  <2>1. F[{}] = x
    BY <1>4, {} \in SUBSET L
  <2>2. x.count \in Int
    BY DEF Valued
  <2> QED
    BY <2>1, <2>2, SumOfEmpty
<1>7. ASSUME NEW T \in SUBSET L, T # {}, T \ {Chosen(T)} \in A PROVE T \in A
  <2> DEFINE l == Chosen(T)  y == F[T \ {l}]
  <2>1. l \in T /\ l \in Coming
    BY <1>7, ChosenIn
  <2>2. F[T] = Receive(y, l)
    BY <1>4, <1>7 DEF Chosen
  <2>3. SumOf(T, UnitsOf) = Units(l) + SumOf(T \ {l}, UnitsOf) /\ SumOf(T \ {l}, UnitsOf) \in Int
    <3>1. IsFiniteSet(T) /\ IsFiniteSet(T \ {l})
      BY <1>0, FS_Subset
    <3>2. \A k \in T : UnitsOf[k] = Units(k) /\ Units(k) \in Int
      BY <1>0, SumsAreInt DEF UnitsOf
    <3> QED
      BY <2>1, <3>1, <3>2, SumOfTake, SumOfInt
  <2>4. y \in Valued /\ y.lost = x.lost /\ y.count = x.count + SumOf(T \ {l}, UnitsOf)
    BY <1>7
  <2> HIDE DEF l, y, A
  <2>5. F[T] \in Valued /\ F[T].lost = x.lost /\ F[T].count = y.count + Units(l)
    BY <2>1, <2>2, <2>4, ReceiveKeeps
  <2>6. Units(l) \in Int /\ x.count \in Int
    BY <2>1, LineFacts DEF Valued
  <2>7. F[T].count = x.count + SumOf(T, UnitsOf)
    BY <2>3, <2>4, <2>5, <2>6
  <2> QED
    BY <2>5, <2>7 DEF A
<1> HIDE DEF A
<1>8. L \in A
  BY <1>0, <1>6, <1>7, SubsetsFromEmpty, L \in SUBSET L
<1> QED
  BY <1>0, <1>5, <1>8, UnitsAre DEF A

(* The counts of a day.                                                      *)
Recounted(x, C) == FoldSet(LAMBDA c, y : Recount(y, c), x, C)
LEMMA RecountedIs ==
  ASSUME NEW x \in Valued, NEW C, IsFiniteSet(C), C \subseteq CountRows
  PROVE  /\ Recounted(x, C) \in Valued
         /\ C = {} => Recounted(x, C) = x
         /\ \A c : C = {c} => Recounted(x, C) = Recount(x, c)
<1> DEFINE g == [p \in C \X Valued |-> Recount(p[2], p[1])]
           Eq(F) == F = [T \in SUBSET C |-> IF T = {} THEN x
                                            ELSE LET c == CHOOSE c \in T : TRUE
                                                 IN  Recount(F[T \ {c}], c)]
           F == CHOOSE F : Eq(F)
<1>1. PICK G : IsFoldOn(G, g, x, C)
  BY FoldOnExists
<1>2. \A T \in SUBSET C : G[T] \in Valued
  <2> DEFINE A == {T \in SUBSET C : G[T] \in Valued}
  <2>1. {} \in A
    <3>1. G[{}] = x
      BY <1>1, {} \in SUBSET C DEF IsFoldOn
    <3> QED
      BY <3>1
  <2>2. ASSUME NEW T \in SUBSET C, T # {}, T \ {Chosen(T)} \in A PROVE T \in A
    <3>1. Chosen(T) \in C /\ G[T \ {Chosen(T)}] \in Valued
      BY <2>2, ChosenIn
    <3>2. G[T] = g[<<Chosen(T), G[T \ {Chosen(T)}]>>]
      BY <1>1, <2>2 DEF IsFoldOn
    <3>3. G[T] = Recount(G[T \ {Chosen(T)}], Chosen(T))
      BY <3>1, <3>2
    <3> QED
      BY <3>1, <3>3, RecountKeeps
  <2> HIDE DEF A
  <2>3. \A T \in SUBSET C : T \in A
    BY <2>1, <2>2, SubsetsFromEmpty
  <2> QED
    BY <2>3 DEF A
<1>3. Eq(G)
  <2>1. ASSUME NEW T \in SUBSET C, T # {}
        PROVE  g[<<Chosen(T), G[T \ {Chosen(T)}]>>] = Recount(G[T \ {Chosen(T)}], Chosen(T))
    <3>1. Chosen(T) \in C /\ G[T \ {Chosen(T)}] \in Valued
      BY <1>2, <2>1, ChosenIn
    <3> QED
      BY <3>1
  <2> HIDE DEF g
  <2> QED
    BY <1>1, <2>1, ZenonT(60) DEF IsFoldOn, Chosen
<1>4. Eq(F)
  <2> HIDE DEF Eq
  <2> QED
    BY <1>3
<1>5. Recounted(x, C) = F[C]
  BY DEF Recounted, FoldSet, MapThenFoldSet
<1> HIDE DEF F
<1>6. F[{}] = x
  BY <1>4, {} \in SUBSET C
<1>7. \A T \in SUBSET C : F[T] \in Valued
  <2> DEFINE A == {T \in SUBSET C : F[T] \in Valued}
  <2>1. {} \in A
    BY <1>6
  <2>2. ASSUME NEW T \in SUBSET C, T # {}, T \ {Chosen(T)} \in A PROVE T \in A
    <3>1. Chosen(T) \in CountRows /\ F[T \ {Chosen(T)}] \in Valued
      BY <2>2, ChosenIn
    <3>2. F[T] = Recount(F[T \ {Chosen(T)}], Chosen(T))
      BY <1>4, <2>2 DEF Chosen
    <3> QED
      BY <3>1, <3>2, RecountKeeps
  <2> HIDE DEF A
  <2>3. \A T \in SUBSET C : T \in A
    BY <2>1, <2>2, SubsetsFromEmpty
  <2> QED
    BY <2>3 DEF A
<1>8. ASSUME NEW c, C = {c} PROVE F[C] = Recount(x, c)
  <2>1. (CHOOSE d \in C : TRUE) = c /\ C \ {c} = {} /\ C # {}
    BY <1>8
  <2>2. F[C] = Recount(F[C \ {c}], c)
    BY <1>4, <2>1, C \in SUBSET C
  <2> QED
    BY <1>6, <2>1, <2>2
<1> QED
  BY <1>5, <1>6, <1>7, <1>8, C \in SUBSET C

(* The start.                                                                *)
LEMMA PriceIsNat ==
  ASSUME TypeInv, NEW i, NEW start
  PROVE  PriceBefore(i, start) \in Nat
<1> DEFINE past == {l \in ItemLines(i) : orders[lines[l].order].day < start}
           last == {l \in past : \A k \in past : orders[lines[k].order].day <= orders[lines[l].order].day}
           prices == {(Scale * lines[l].cost) \div lines[l].size : l \in last}
<1>1. prices \subseteq Nat
  <2> SUFFICES ASSUME NEW l \in last PROVE (Scale * lines[l].cost) \div lines[l].size \in Nat
    OBVIOUS
  <2>1. l \in DOMAIN lines
    BY DEF ItemLines
  <2> HIDE DEF last
  <2>2. lines[l].size \in Nat \ {0} /\ lines[l].cost \in Nat /\ Scale \in Nat
    BY <2>1, StockConstants DEF TypeInv, LinesType, LineRows
  <2>3. Scale * lines[l].cost \in Nat
    <3>1. \A a \in Nat, b \in Nat : a * b \in Nat
      OBVIOUS
    <3> QED
      BY <2>2, <3>1
  <2>4. Scale * lines[l].cost \in Int
    BY <2>3
  <2> HIDE DEF last
  <2> QED
    BY ONLY <2>2, <2>3, <2>4, DivFacts
<1>2. PriceBefore(i, start) = IF prices = {} THEN 0 ELSE CHOOSE x \in prices : \A y \in prices : x <= y
  BY DEF PriceBefore
<1> HIDE DEF prices
<1>3. CASE prices = {}
  BY <1>2, <1>3
<1>4. CASE prices # {}
  <2>1. \E x \in prices : \A y \in prices : x <= y
    BY <1>1, <1>4, Least
  <2>2. PriceBefore(i, start) \in prices
    BY <1>2, <1>4, <2>1, Zenon
  <2> QED
    BY <1>1, <2>2
<1> QED
  BY <1>3, <1>4

LEMMA InitialIs ==
  ASSUME TypeInv, TablesFinite, NEW i, NEW start \in Int
  PROVE  /\ Initial(i, start) \in Valued
         /\ Initial(i, start).count = Summary(i, start - 1, TRUE).estimate /\ Initial(i, start).lost = <<>>
<1> DEFINE n == Summary(i, start - 1, TRUE).estimate
           p == PriceBefore(i, start)
           none == [count |-> 0, cost |-> 0, price |-> p, moved |-> 0, worth |-> 0, lost |-> <<>>]
           v == IF n > 0 THEN n * p ELSE 0
<1>1. n \in Int /\ p \in Nat
  BY SummaryInt, PriceIsNat
<1>2. Initial(i, start) = Yield(none, n, v)
  BY DEF Initial
<1> HIDE DEF n, p
<1>3. none \in Valued /\ none.count = 0 /\ none.cost = 0 /\ none.lost = <<>>
  BY <1>1 DEF Valued, Losses
<1>4. v \in Nat /\ (n <= 0 => v = 0)
  <2>1. \A a \in Nat, b \in Nat : a * b \in Nat
    OBVIOUS
  <2> QED
    BY <1>1, <2>1
<1> HIDE DEF none, v, n
<1>5. none.cost + v >= 0 /\ (none.count + n <= 0 => none.cost + v = 0) /\ none.count + n = n /\ v \in Int
  BY <1>1, <1>3, <1>4
<1>6. /\ Yield(none, n, v) \in Valued
      /\ Yield(none, n, v).count = n /\ Yield(none, n, v).lost = <<>>
  BY <1>1, <1>3, <1>5, YieldKeeps
<1> QED
  BY <1>2, <1>6 DEF n

(* A day and all days.                                                       *)
OfDay(i, d) == {l \in ItemLines(i) : orders[lines[l].order].day = d}
SoldOn(i, d) == Cardinality({s \in ItemSales(i) : Day(s.at) = d})
Before(x, i, d) == x.count + Sum(OfDay(i, d), Units) - SoldOn(i, d)
(* The losses with that of the count c, if anything is missing.              *)
Shrunk(x, i, d, c) ==
  IF c.units = Before(x, i, d) THEN x.lost
  ELSE Append(x.lost, [at |-> c.at, units |-> Before(x, i, d) - c.units])
LEMMA DayIs ==
  ASSUME TypeInv, TablesFinite, Delivers, NEW x \in Valued, NEW i, NEW d
  PROVE  /\ ReportDay(x, i, d) \in Valued
         /\ CountsOn(i, d) = {} => ReportDay(x, i, d).count = Before(x, i, d) /\ ReportDay(x, i, d).lost = x.lost
         /\ \A c : CountsOn(i, d) = {c} =>
              ReportDay(x, i, d).count = c.units /\ ReportDay(x, i, d).lost = Shrunk(x, i, d, c)
<1> DEFINE L == {l \in OfDay(i, d) : Units(l) # 0}
           received == Received(x, L)
           n == SoldOn(i, d)
           sold == IF n > 0 THEN Sell(received, n) ELSE received
           touched == OfDay(i, d) # {} \/ n > 0
           y == IF touched THEN Reprice(sold) ELSE sold
<1>1. OfDay(i, d) \subseteq DOMAIN lines /\ L \subseteq Coming
  BY DEF OfDay, ItemLines, Coming, Delivers
<1>2. Sum(L, Units) = Sum(OfDay(i, d), Units) /\ Sum(L, Units) \in Int
  <2> DEFINE Z == {l \in OfDay(i, d) : Units(l) = 0}
  <2>1. L \subseteq DOMAIN lines /\ Z \subseteq DOMAIN lines
    BY <1>1
  <2>2. IsFiniteSet(L) /\ IsFiniteSet(Z)
    BY <2>1, UnitsAre
  <2>3. Splits(OfDay(i, d), L, Z) /\ IntegersOn(UnitsOf, OfDay(i, d))
    BY <1>1, SumsAreInt DEF Splits, IntegersOn, UnitsOf
  <2>4. \A l \in Z : UnitsOf[l] = 0
    BY <2>1 DEF UnitsOf
  <2> HIDE DEF L, Z
  <2>5. SumOf(OfDay(i, d), UnitsOf) = SumOf(L, UnitsOf) + SumOf(Z, UnitsOf)
    BY <2>2, <2>3, SumOfUnion
  <2>6. SumOf(Z, UnitsOf) = 0
    BY <2>2, <2>4, SumOfZero
  <2>7. Sum(L, Units) = SumOf(L, UnitsOf) /\ Sum(OfDay(i, d), Units) = SumOf(OfDay(i, d), UnitsOf)
    BY <1>1, <2>1, UnitsAre
  <2>8. Sum(L, Units) \in Int
    BY <2>1, SumsAreInt
  <2> QED
    BY <2>5, <2>6, <2>7, <2>8
<1>3. n \in Nat
  <2>1. {s \in ItemSales(i) : Day(s.at) = d} \in SUBSET sales
    BY DEF ItemSales
  <2> QED
    BY <2>1, SumsAreInt DEF SoldOn
<1>4. received \in Valued /\ received.count = x.count + Sum(OfDay(i, d), Units) /\ received.lost = x.lost
  BY <1>1, <1>2, ReceivedIs
<1>5. ReportDay(x, i, d) = Recounted(y, CountsOn(i, d))
  <2>1. L = {l \in ItemLines(i) : orders[lines[l].order].day = d /\ Units(l) # 0}
    BY DEF OfDay
  <2>2. n = Sold(i, LAMBDA t : Day(t) = d)
    BY DEF SoldOn, Sold
  <2> HIDE DEF L, n
  <2> QED
    BY <2>1, <2>2 DEF ReportDay, Received, Recounted, OfDay
<1> HIDE DEF received, n, L
<1>6. sold \in Valued /\ sold.count = received.count - n /\ sold.lost = received.lost
  <2>1. CASE n > 0
    BY <1>3, <1>4, <2>1, SellKeeps
  <2>2. CASE ~(n > 0)
    <3>1. n = 0 /\ sold = received /\ received.count \in Int
      BY <1>3, <1>4, <2>2 DEF Valued
    <3> QED
      BY <1>4, <3>1
  <2> QED
    BY <2>1, <2>2
<1> HIDE DEF sold
<1>7. y \in Valued /\ y.count = Before(x, i, d) /\ y.lost = x.lost
  <2>1. y \in Valued /\ y.count = sold.count /\ y.lost = sold.lost
    <3>1. CASE touched
      BY <1>6, <3>1, RepriceKeeps
    <3>2. CASE ~touched
      BY <1>6, <3>2
    <3> QED
      BY <3>1, <3>2
  <2> HIDE DEF y
  <2>2. sold.count = Before(x, i, d)
    <3>1. x.count \in Int /\ Sum(OfDay(i, d), Units) \in Int /\ SoldOn(i, d) \in Int
      BY <1>2, <1>3 DEF Valued, n
    <3> QED
      BY <1>4, <1>6, <3>1 DEF Before, n
  <2> QED
    BY <1>4, <1>6, <2>1, <2>2
<1> HIDE DEF y
<1>8. IsFiniteSet(CountsOn(i, d)) /\ CountsOn(i, d) \subseteq CountRows
  <2>1. CountsOn(i, d) \subseteq counts
    BY DEF CountsOn
  <2> QED
    BY <2>1, FS_Subset DEF TypeInv, InventoryType
<1>9. /\ Recounted(y, CountsOn(i, d)) \in Valued
      /\ CountsOn(i, d) = {} => Recounted(y, CountsOn(i, d)) = y
      /\ \A c : CountsOn(i, d) = {c} => Recounted(y, CountsOn(i, d)) = Recount(y, c)
  BY <1>7, <1>8, RecountedIs
<1>10. ASSUME NEW c, CountsOn(i, d) = {c}
       PROVE  Recount(y, c).count = c.units /\ Recount(y, c).lost = Shrunk(x, i, d, c)
  <2>1. c \in CountRows
    BY <1>8, <1>10
  <2> QED
    BY <1>7, <2>1, RecountKeeps DEF Lost, Shrunk
<1> QED
  BY <1>5, <1>7, <1>9, <1>10

(* The report of the days from start to the end: its accounts, day by day.   *)
LEMMA ReportIs ==
  ASSUME TypeInv, TablesFinite, Delivers, NEW i, NEW start \in Int, NEW end \in Int, start - 1 <= end
  PROVE  \E F : /\ \A d \in start - 1 .. end : F[d] \in Valued
                /\ F[start - 1] = Initial(i, start)
                /\ \A d \in start .. end : F[d] = ReportDay(F[d - 1], i, d)
                /\ Report(i, start, end) = F[end]
<1> DEFINE g == [p \in (start .. end) \X Valued |-> ReportDay(p[2], i, p[1])]
           Eq(F) == F = [d \in start - 1 .. end |-> IF d < start THEN Initial(i, start) ELSE ReportDay(F[d - 1], i, d)]
           F == CHOOSE F : Eq(F)
<1>1. PICK G : IsStepwise(G, g, Initial(i, start), start, end)
  BY StepwiseExists
<1>2. \A d \in start - 1 .. end : G[d] = IF d < start THEN Initial(i, start) ELSE g[<<d, G[d - 1]>>]
  BY <1>1 DEF IsStepwise
<1>3. Initial(i, start) \in Valued
  BY InitialIs
<1>4. \A d \in start - 1 .. end : G[d] \in Valued
  <2> DEFINE A == {d \in start - 1 .. end : G[d] \in Valued}
  <2>1. start - 1 \in A
    <3>1. start - 1 \in start - 1 .. end /\ start - 1 < start
      OBVIOUS
    <3>2. G[start - 1] = Initial(i, start)
      BY <1>2, <3>1
    <3> QED
      BY <1>3, <3>1, <3>2
  <2>2. ASSUME NEW d \in start .. end, d - 1 \in A PROVE d \in A
    <3>1. d \in start - 1 .. end /\ ~(d < start) /\ G[d - 1] \in Valued
      BY <2>2
    <3>2. G[d] = ReportDay(G[d - 1], i, d)
      BY <1>2, <3>1
    <3> QED
      BY <3>1, <3>2, DayIs
  <2> HIDE DEF A
  <2>3. \A d \in start - 1 .. end : d \in A
    BY <2>1, <2>2, StepwiseFrom
  <2> QED
    BY <2>3 DEF A
<1>5. Eq(G)
  <2>1. ASSUME NEW d \in start - 1 .. end, ~(d < start) PROVE g[<<d, G[d - 1]>>] = ReportDay(G[d - 1], i, d)
    <3>1. d \in start .. end /\ d - 1 \in start - 1 .. end
      BY <2>1
    <3> QED
      BY <1>4, <3>1
  <2> HIDE DEF g
  <2>2. G = [d \in start - 1 .. end |-> G[d]]
    BY <1>1 DEF IsStepwise
  <2>3. \A d \in start - 1 .. end : G[d] = IF d < start THEN Initial(i, start) ELSE ReportDay(G[d - 1], i, d)
    BY <1>2, <2>1
  <2> QED
    BY <2>2, <2>3
<1>6. Eq(F)
  <2> HIDE DEF Eq
  <2> QED
    BY <1>5
<1>7. Report(i, start, end) = F[end]
  BY DEF Report
<1> HIDE DEF F
<1>8. /\ F[start - 1] = Initial(i, start)
      /\ \A d \in start .. end : F[d] = ReportDay(F[d - 1], i, d)
  <2>1. start - 1 \in start - 1 .. end /\ start - 1 < start /\ \A d \in start .. end : d \in start - 1 .. end /\ ~(d < start)
    OBVIOUS
  <2> QED
    BY <1>6, <2>1
<1>9. \A d \in start - 1 .. end : F[d] \in Valued
  <2> DEFINE A == {d \in start - 1 .. end : F[d] \in Valued}
  <2>1. start - 1 \in A
    BY <1>3, <1>8
  <2>2. ASSUME NEW d \in start .. end, d - 1 \in A PROVE d \in A
    <3>1. d \in start - 1 .. end /\ F[d - 1] \in Valued
      BY <2>2
    <3> QED
      BY <1>8, <3>1, DayIs
  <2> HIDE DEF A
  <2>3. \A d \in start - 1 .. end : d \in A
    BY <2>1, <2>2, StepwiseFrom
  <2> QED
    BY <2>3 DEF A
<1> QED
  BY <1>7, <1>8, <1>9

(* The report's own invariants, for any tables of counts, orders and sales   *)
(* and from whatever day it starts: no stock has a negative cost or price,   *)
(* none at or below zero has a cost, and what it yields adds up.             *)
THEOREM ReportsAreSound == Spec => []ReportSound
<1>1. TypeInv /\ TablesFinite => ReportSound
  <2> SUFFICES ASSUME TypeInv, TablesFinite, Delivers, NEW i \in Items, NEW start \in 1 .. Today
               PROVE  LET report == Report(i, start, Today)
                      IN  /\ report.cost >= 0 /\ report.price >= 0
                          /\ report.count <= 0 => report.cost = 0
                          /\ report.moved = report.count /\ report.worth = report.cost
    BY DEF ReportSound
  <2>1. Today \in Nat /\ start \in Int /\ start - 1 <= Today /\ Today \in start - 1 .. Today
    BY TimeFacts
  <2>2. Report(i, start, Today) \in Valued
    BY <2>1, ReportIs
  <2> QED
    BY <2>2 DEF Valued
<1> QED
  BY <1>1, TablesInvariant, PTL

-----------------------------------------------------------------------------
(* The proposals of orders.                                                  *)

LEMMA CeilingCovers ==
  ASSUME NEW a \in Int, NEW b \in Nat \ {0}
  PROVE  Ceiling(a, b) \in Int /\ b * Ceiling(a, b) >= a /\ (a >= 1 => Ceiling(a, b) >= 1)
<1> DEFINE q == (-a) \div b
           r == (-a) % b
<1>1. q \in Int /\ r \in 0 .. b - 1 /\ -a = b * q + r
  <2>1. -a \in Int
    OBVIOUS
  <2> QED
    BY <2>1, DivFacts
<1>2. Ceiling(a, b) = -q
  BY DEF Ceiling
<1> HIDE DEF q, r
<1>3. b * (-q) = -(b * q) /\ b * q \in Int
  BY <1>1
<1>4. a >= 1 => q <= -1
  <2> SUFFICES ASSUME a >= 1, q >= 0 PROVE FALSE
    BY <1>1
  <2>1. b * q >= 0
    <3>1. \A x \in Nat, y \in Nat : x * y >= 0
      OBVIOUS
    <3> QED
      BY <1>1, <3>1
  <2> QED
    BY <1>1, <1>3, <2>1
<1> QED
  BY <1>1, <1>2, <1>3, <1>4

(* A fifth of a case or the reserve is added to what is missing.             *)
LEMMA FifthsCover ==
  ASSUME NEW S \in Int, NEW h \in Int, NEW reserve \in Nat, NEW size \in Nat \ {0}
  PROVE  LET fifths == 5 * (S - h) + Larger(5 * reserve, size)
         IN  h + Larger(Ceiling(fifths, 5 * size), 0) * size >= S + reserve
<1> DEFINE fifths == 5 * (S - h) + Larger(5 * reserve, size)
           c == Ceiling(fifths, 5 * size)
           e == Larger(c, 0)
<1>1. fifths \in Int /\ fifths >= 5 * (S - h) + 5 * reserve /\ 5 * size \in Nat \ {0}
  BY DEF Larger
<1> HIDE DEF fifths
<1>2. c \in Int /\ 5 * size * c >= fifths
  BY <1>1, CeilingCovers
<1> HIDE DEF c
<1>3. e \in Int /\ e >= c
  BY <1>2 DEF Larger
<1> HIDE DEF e
<1>4. e * size >= c * size /\ e * size \in Int /\ c * size \in Int
  BY <1>2, <1>3, TimesMonotone
<1>5. 5 * size * c = 5 * (c * size)
  BY <1>2
<1>6. 5 * (e * size) >= 5 * (S - h) + 5 * reserve
  BY <1>1, <1>2, <1>4, <1>5
<1>7. \A x \in Int : 5 * x >= 5 * (S - h) + 5 * reserve => h + x >= S + reserve
  OBVIOUS
<1>8. h + e * size >= S + reserve
  BY <1>4, <1>6, <1>7
<1> QED
  BY <1>8 DEF e, c, fifths

(* A quarter of a case is added to what is missing.                          *)
LEMMA QuartersCover ==
  ASSUME NEW n \in Nat, NEW size \in Nat \ {0}
  PROVE  LET cases == Ceiling(4 * n + size, 4 * size) IN cases * size >= n /\ cases >= 1
<1> DEFINE c == Ceiling(4 * n + size, 4 * size)
<1>1. 4 * n + size \in Int /\ 4 * size \in Nat \ {0} /\ 4 * n + size >= 1
  OBVIOUS
<1>2. c \in Int /\ 4 * size * c >= 4 * n + size /\ c >= 1
  BY <1>1, CeilingCovers
<1> HIDE DEF c
<1>3. 4 * size * c = 4 * (c * size) /\ c * size \in Int
  BY <1>2
<1> QED
  BY <1>2, <1>3 DEF c

LEMMA SalesAreNat ==
  ASSUME TypeInv, TablesFinite, NEW i
  PROVE  /\ \A from, to : SalesBetween(i, from, to) \in Nat
         /\ SinceOrder(i) \in Nat
<1>1. \A from, to : {s \in ItemSales(i) : Day(s.at) \in from .. to} \in SUBSET sales
  BY DEF ItemSales
<1>2. \A t : {s \in ItemSales(i) : s.at > t} \in SUBSET sales
  BY DEF ItemSales
<1> QED
  BY <1>1, <1>2, SumsAreInt DEF SalesBetween, SinceOrder, Sold

LEMMA EstimateCovers ==
  ASSUME TypeInv, TablesFinite, NEW i \in Items, bulk[i].active
  PROVE  Larger(Summary(i, Today, TRUE).estimate, 0) + EstimateOrder(i) * bulk[i].size
           >= SalesBetween(i, Today - Window, Today) + bulk[i].reserve
<1> DEFINE h == Larger(Summary(i, Today, TRUE).estimate, 0)
           S == SalesBetween(i, Today - Window, Today)
<1>1. bulk[i].reserve \in Nat /\ bulk[i].size \in Nat \ {0}
  BY DEF TypeInv, BulkType, BulkRows
<1>2. h \in Int /\ S \in Int
  <2> DEFINE estimate == Summary(i, Today, TRUE).estimate
  <2>1. estimate \in Int /\ S \in Nat
    BY SummaryInt, SalesAreNat
  <2> HIDE DEF estimate, S
  <2>2. Larger(estimate, 0) \in Int /\ S \in Int
    BY <2>1 DEF Larger
  <2> QED
    BY <2>2, Zenon DEF estimate
<1>3. EstimateOrder(i) =
        LET fifths == 5 * (S - h) + Larger(5 * bulk[i].reserve, bulk[i].size)
        IN  Larger(Ceiling(fifths, 5 * bulk[i].size), 0)
  BY DEF EstimateOrder
<1> HIDE DEF h, S
<1>4. h + EstimateOrder(i) * bulk[i].size >= S + bulk[i].reserve
  BY <1>1, <1>2, <1>3, FifthsCover
<1> QED
  BY <1>4 DEF h, S

LEMMA ToBuyCovers ==
  ASSUME TypeInv, TablesFinite, NEW i \in Items, bulk[i].active, CurrentInventory(i).known
  PROVE  /\ CurrentInventory(i).remaining + ToBuy(i) * bulk[i].size >= SinceOrder(i)
         /\ CurrentInventory(i).remaining <= 0 => ToBuy(i) >= 1
<1> DEFINE rem == CurrentInventory(i).remaining
           since == SinceOrder(i)
           size == bulk[i].size
<1>1. rem \in Int /\ since \in Nat /\ size \in Nat \ {0}
  <2>1. size \in Nat \ {0}
    BY DEF TypeInv, BulkType, BulkRows
  <2> QED
    BY <2>1, SummaryInt, SalesAreNat
<1>2. ToBuy(i) = IF rem - since <= 0 THEN Ceiling(4 * (-(rem - since)) + size, 4 * size)
                 ELSE IF rem > 0 THEN 0 ELSE 1
  BY DEF ToBuy
<1> HIDE DEF rem, since, size
<1>3. CASE rem - since <= 0
  <2> DEFINE n == -(rem - since)
  <2>1. n \in Nat /\ rem + n = since
    BY <1>1, <1>3
  <2>2. ToBuy(i) = Ceiling(4 * n + size, 4 * size)
    BY <1>2, <1>3
  <2> HIDE DEF n
  <2>3. ToBuy(i) * size >= n /\ ToBuy(i) >= 1
    BY <1>1, <2>1, <2>2, QuartersCover
  <2>4. ToBuy(i) \in Int
    <3>1. 4 * n + size \in Int /\ 4 * size \in Nat \ {0}
      BY <1>1, <2>1
    <3> QED
      BY <2>2, <3>1, CeilingCovers
  <2>5. ToBuy(i) * size \in Int
    BY <1>1, <2>4
  <2>6. rem + ToBuy(i) * size >= since
    BY <1>1, <2>1, <2>3, <2>5
  <2> QED
    BY <2>3, <2>6 DEF rem, since, size
<1>4. CASE ~(rem - since <= 0)
  <2>1. rem > 0 /\ ToBuy(i) = 0 /\ 0 * size = 0 /\ rem >= since
    BY <1>1, <1>2, <1>4
  <2>2. rem + ToBuy(i) * size >= since
    BY <1>1, <2>1
  <2>3. ~(rem <= 0)
    BY <1>1, <2>1
  <2> QED
    BY <2>2, <2>3 DEF rem, since, size
<1> QED
  BY <1>3, <1>4

(* The proposals of an order suffice: whatever counts, orders, sales and     *)
(* case sizes there are, with what either program proposes the stock lasts   *)
(* as long as it did this time.                                              *)
THEOREM ProposalsSuffice == Spec => []OrdersCover
<1>1. TypeInv /\ TablesFinite => OrdersCover
  BY EstimateCovers, ToBuyCovers DEF OrdersCover
<1> QED
  BY <1>1, TablesInvariant, PTL

-----------------------------------------------------------------------------
(* Nothing was counted or sold that is yet to come.                          *)

DatesKept ==
  /\ \A c \in counts : Day(c.at) <= Today
  /\ \A s \in sales : s.at \in Int /\ Day(s.at) <= Today
  /\ server.since <= now
  /\ \A p \in Pages : page[p].pc \in {"shown", "insert"} => page[p].day <= Today
  /\ \A o \in DOMAIN orders : orders[o].day \in Int
  /\ \A r \in Desks : Saves(r, {"finance"}) => Found(r).day \in Int

LEMMA DatesInit == Init => DatesKept
<1> SUFFICES ASSUME Init PROVE DatesKept
  OBVIOUS
<1>1. Start \in Nat /\ now = Start /\ shift \in Shifts /\ counts = shift.counted /\ sales = Sales0 /\ orders = Orders0
  BY OrdersConstants DEF Init
<1>2. \A c \in counts : Day(c.at) <= Today
  <2> SUFFICES ASSUME NEW c \in counts PROVE Day(c.at) <= Today
    OBVIOUS
  <2>1. c.at \in Int /\ c.at <= now
    BY <1>1, InventoryConstants, OrdersConstants DEF CountRows
  <2> QED
    BY <1>1, <2>1, DayMonotone DEF Today
<1>3. \A s \in sales : s.at \in Int /\ Day(s.at) <= Today
  BY <1>1, OrdersConstants, DayMonotone DEF Today
<1>4. server.since <= now
  BY <1>1 DEF Init, None
<1>5. \A p \in Pages : page[p].pc = "idle"
  BY DEF Init, Idle
<1>6. \A r \in Desks : ~Saves(r, {"finance"})
  BY DEF Init, Idle, Saves
<1>7. \A o \in DOMAIN orders : orders[o].day \in Int
  BY <1>1, OrdersConstants
<1> QED
  BY <1>2, <1>3, <1>4, <1>5, <1>6, <1>7 DEF DatesKept

(* Whoever takes inventory dates a count on the day of the service, today, or*)
(* on the day of a page.                                                     *)
LEMMA InventoryKeepsDates ==
  ASSUME TypeInv, DatesKept, InventoryNext, UNCHANGED <<shift, accepting>>
  PROVE  DatesKept'
<1>0. /\ now \in Nat /\ Began \in Nat /\ Today \in Nat /\ counts \subseteq CountRows
      /\ DOMAIN server = {"protected", "staged", "since", "broken", "calls"} /\ DOMAIN page = Pages
      /\ server.since \in Nat \cup {None}
  BY TimeFacts DEF TypeInv, InventoryType, ServerType
<1>1. Began <= now /\ ServerDay <= Today
  <2>1. Began <= now
    BY <1>0 DEF DatesKept, Began
  <2> QED
    BY <1>0, <2>1, DayMonotone DEF ServerDay, Today
<1>2. UNCHANGED <<now, orders, sales, desk>>
  BY DEF InventoryNext, AddLook, StageAdd, Read, RemoveFromInventory, Flag, Unflag, AddWrite,
         ZeroUnprotected, Reset, Commit, PageOpen, PageInsert, PagePost, stock, accepting
<1>3. ASSUME \A c \in counts' : c \in counts \/ Day(c.at) <= Today,
             server'.since \in {server.since, Began, None},
             \A p \in Pages : page'[p].pc \in {"shown", "insert"} => page'[p].day \in {page[p].day, Today - 1, Today}
                                /\ (page'[p].day = page[p].day => page[p].pc \in {"shown", "insert"} \/ page[p].day <= Today)
      PROVE  DatesKept'
  <2>1. server'.since <= now'
    BY <1>0, <1>1, <1>2, <1>3 DEF DatesKept, None
  <2>2. Today' = Today
    BY <1>2 DEF Today
  <2>3. \A p \in Pages : page'[p].pc \in {"shown", "insert"} => page'[p].day <= Today
    BY <1>0, <1>3 DEF DatesKept
  <2>4. \A r \in Desks : Saves(r, {"finance"})' => Found(r)'.day \in Int
    BY <1>2 DEF DatesKept, Saves, Found
  <2> QED
    BY <1>2, <1>3, <2>1, <2>2, <2>3, <2>4 DEF DatesKept
<1>4. ASSUME UNCHANGED page
      PROVE  \A p \in Pages : page'[p].pc \in {"shown", "insert"} => page'[p].day \in {page[p].day, Today - 1, Today}
                                /\ (page'[p].day = page[p].day => page[p].pc \in {"shown", "insert"} \/ page[p].day <= Today)
  BY <1>4
<1>5. CASE \E i \in Items, n \in Boxes : AddLook(i, n) \/ StageAdd(i, n)
  BY <1>0, <1>3, <1>4, <1>5 DEF AddLook, StageAdd, Called, stock
<1>6. CASE (\E i \in Items : Read(i) \/ RemoveFromInventory(i) \/ Flag(i) \/ Unflag(i)) \/ Reset
  <2>1. UNCHANGED <<counts, page>>
    BY <1>6 DEF Read, RemoveFromInventory, Flag, Unflag, Reset, stock
  <2>2. server'.since \in {server.since, Began, None}
    BY <1>0, <1>6 DEF Read, RemoveFromInventory, Flag, Unflag, Reset, Called
  <2> QED
    BY <1>3, <1>4, <2>1, <2>2
<1>7. CASE AddWrite
  <2>1. server'.since \in {server.since, Began, None} /\ UNCHANGED page
    BY <1>0, <1>7, AddWriteCounts DEF AddWrite
  <2>2. \A c \in counts' : c \in counts \/ Day(c.at) <= Today
    <3>1. ASSUME NEW c \in CountRows, counts' = (counts \ {c}) \cup {Added(c, add.n)}
          PROVE  \A d \in counts' : d \in counts \/ Day(d.at) <= Today
      <4>1. Day(Added(c, add.n).at) = ServerDay
        BY <1>7, AddedFacts DEF AddWrite
      <4> QED
        BY <1>1, <3>1, <4>1
    <3> QED
      BY <1>7, <3>1, AddWriteCounts
  <2> QED
    BY <1>3, <1>4, <2>1, <2>2
<1>8. CASE ZeroUnprotected
  <2>1. server'.since \in {server.since, Began, None} /\ UNCHANGED page
    BY <1>0, <1>8 DEF ZeroUnprotected, Called
  <2>2. \A i \in Items : Day(RowAt(Began, i, 0, bulk[i].size).at) = ServerDay
    BY <1>0, SizeFacts, RowFacts DEF ServerDay
  <2>3. \A c \in counts' : c \in counts \/ \E i \in Items : c = RowAt(Began, i, 0, bulk[i].size)
    BY <1>8 DEF ZeroUnprotected
  <2> QED
    BY <1>1, <1>3, <1>4, <2>1, <2>2, <2>3
<1>9. ASSUME NEW b \in BOOLEAN, Commit(b) PROVE DatesKept'
  <2>1. server'.since \in {server.since, Began, None} /\ UNCHANGED page
    BY <1>0, <1>9 DEF Commit, Called
  <2>2. \A i \in Items, n \in Nat : Day(RowAt(now, i, n, bulk[i].size).at) = Today
    BY <1>0, SizeFacts, RowFacts DEF Today
  <2>3. DOMAIN server.staged \subseteq Items /\ \A i \in DOMAIN server.staged : server.staged[i] \in Nat
    BY DEF TypeInv, InventoryType, ServerType
  <2>4. \A c \in counts' : c \in counts \/ (\E i \in Items, n \in Nat : c = RowAt(now, i, n, bulk[i].size))
    BY <1>9, <2>3 DEF Commit
  <2> QED
    BY <1>0, <1>3, <1>4, <2>1, <2>2, <2>4
<1>10. ASSUME NEW p \in Pages, NEW d \in {Today - 1, Today}, PageOpen(p, d) PROVE DatesKept'
  <2>1. UNCHANGED <<counts, server>>
    BY <1>10 DEF PageOpen, stock
  <2>2. \A q \in Pages : IF q = p THEN page'[q].day = d ELSE page'[q] = page[q]
    BY <1>0, <1>10 DEF PageOpen
  <2>3. d <= Today
    BY <1>0
  <2>4. page'[p].day = page[p].day => page[p].day <= Today
    BY <2>2, <2>3
  <2> QED
    BY <1>3, <2>1, <2>2, <2>4
<1>11. ASSUME NEW p \in Pages, PageInsert(p) PROVE DatesKept'
  <2>1. UNCHANGED server /\ \A q \in Pages : IF q = p THEN page'[q].pc = "done" ELSE page'[q] = page[q]
    BY <1>0, <1>11 DEF PageInsert
  <2>2. \A c \in counts' : c \in counts \/ Day(c.at) <= Today
    <3>1. page[p].pc = "insert" /\ page[p].day <= Today
      BY <1>11 DEF PageInsert, DatesKept
    <3>2. \A c \in counts' : c \in counts \/ (page[p].form[page[p].item] # <<>> /\ c = FormRow(p, page[p].item))
      BY <1>11 DEF PageInsert
    <3> QED
      BY <3>1, <3>2, FormRowFacts
  <2> QED
    BY <1>3, <2>1, <2>2
<1>12. ASSUME NEW p \in Pages, NEW form \in [Items -> Typed], PagePost(p, form) PROVE DatesKept'
  <2>1. UNCHANGED server /\ counts' \subseteq counts
    BY <1>12 DEF PagePost
  <2>2. /\ page[p].pc = "shown"
        /\ \A q \in Pages : IF q = p THEN page'[q].day = page[q].day ELSE page'[q] = page[q]
    BY <1>0, <1>12 DEF PagePost
  <2> QED
    BY <1>3, <2>1, <2>2
<1> QED
  BY <1>5, <1>6, <1>7, <1>8, <1>9, <1>10, <1>11, <1>12 DEF InventoryNext

LEMMA DatesStep ==
  ASSUME TypeInv, DatesKept, [Next]_vars
  PROVE  DatesKept'
<1>0. now \in Nat /\ Today \in Nat /\ DOMAIN desk = Desks /\ server.since \in Nat \cup {None}
  BY TimeFacts DEF TypeInv, DesksType, InventoryType, ServerType
<1>1. CASE InventoryNext /\ UNCHANGED <<shift, accepting>>
  BY <1>1, InventoryKeepsDates
<1>2. ASSUME UNCHANGED <<counting, counts, now, sales>>,
             \A o \in DOMAIN orders' : orders'[o].day \in Int,
             \A r \in Desks : Saves(r, {"finance"})' => Found(r)'.day \in Int
      PROVE  DatesKept'
  BY <1>2 DEF DatesKept, counting, Today
<1>3. ASSUME NEW r \in Desks, Saved(r), \A o \in DOMAIN orders' : orders'[o].day \in Int,
             UNCHANGED <<counting, counts, now, sales>>
      PROVE  DatesKept'
  <2>1. \A q \in Desks : IF q = r THEN desk'[q].pc = "done" ELSE desk'[q] = desk[q]
    BY <1>0, <1>3 DEF Saved
  <2>2. \A q \in Desks : Saves(q, {"finance"})' => Found(q)'.day \in Int
    BY <2>1 DEF DatesKept, Saves, Found
  <2> QED
    BY <1>2, <1>3, <2>2
<1>4. CASE OrdersNext /\ UNCHANGED shift
  <2>1. ASSUME NEW i \in Items, (\E n \in {-1, 1} : Scan(i, n)) \/ Resolve(i) PROVE DatesKept'
    <3>1. UNCHANGED <<counting, counts, now, sales, orders, desk>>
      BY <2>1 DEF Scan, Resolve
    <3> QED
      BY <1>2, <3>1 DEF DatesKept, Saves, Found
  <2>2. ASSUME NEW r \in Desks, NEW e \in Edits, Load(r, e) PROVE DatesKept'
    <3>1. UNCHANGED <<counting, counts, now, sales, orders>>
      BY <2>2 DEF Load, stock
    <3>2. \A q \in Desks : IF q = r THEN /\ desk'[q].edit = e
                                         /\ e.kind = "finance" => desk'[q].found = orders[e.order]
                           ELSE desk'[q] = desk[q]
      BY <1>0, <2>2 DEF Load
    <3>3. e.kind = "finance" => e.order \in DOMAIN orders
      BY <2>2 DEF Load
    <3>4. \A q \in Desks : Saves(q, {"finance"})' => Found(q)'.day \in Int
      BY <3>2, <3>3 DEF DatesKept, Saves, Found
    <3> QED
      BY <1>2, <3>1, <3>4 DEF DatesKept
  <2>3. ASSUME NEW r \in Desks, SaveLine(r) \/ SaveForm(r) \/ DeleteLine(r) \/ NewLine(r) \/ SaveBulk(r) PROVE DatesKept'
    <3>1. UNCHANGED <<counting, counts, now, sales, orders>> /\ Saved(r)
      BY <2>3 DEF SaveLine, SaveForm, DeleteLine, NewLine, SaveBulk
    <3> QED
      BY <1>3, <3>1 DEF DatesKept
  <2>4. ASSUME NEW r \in Desks, SaveOrder(r) PROVE DatesKept'
    <3>1. UNCHANGED <<counting, counts, now, sales>> /\ Saved(r) /\ desk[r].pc = "save"
          /\ desk[r].edit.kind \in {"details", "finance"}
      BY <2>4 DEF SaveOrder, Saves
    <3>2. desk[r].edit \in Edits
      BY <3>1, DeskFacts
    <3>3. desk[r].edit.kind = "details" => desk[r].edit.day \in Int
      BY <3>2, OrdersConstants
    <3>4. desk[r].edit.kind = "finance" => Found(r).day \in Int
      BY <3>1 DEF DatesKept, Saves
    <3> DEFINE row == IF desk[r].edit.kind = "finance" THEN Found(r)
                      ELSE [day |-> desk[r].edit.day, amount |-> desk[r].edit.amount]
    <3>5. row.day \in Int
      BY <3>1, <3>3, <3>4
    <3>6. orders' = [orders EXCEPT ![desk[r].edit.order] = row]
      BY <2>4 DEF SaveOrder
    <3> HIDE DEF row
    <3>7. \A o \in DOMAIN orders' : orders'[o].day \in Int
      BY <3>5, <3>6 DEF DatesKept
    <3> QED
      BY <1>3, <3>1, <3>7
  <2>5. ASSUME NEW r \in Desks, NewOrder(r) PROVE DatesKept'
    <3>1. UNCHANGED <<counting, counts, now, sales>> /\ Saved(r) /\ desk[r].pc = "save" /\ desk[r].edit.kind = "order"
      BY <2>5 DEF NewOrder, Saves
    <3>2. desk[r].edit.day \in Int
      BY <3>1, DeskFacts, OrdersConstants
    <3>3. \E o, row : orders' = PutRow(orders, o, row) /\ row.day \in Int
      BY <2>5, <3>2 DEF NewOrder
    <3>4. \A o \in DOMAIN orders' : orders'[o].day \in Int
      BY <3>3 DEF DatesKept, PutRow
    <3> QED
      BY <1>3, <3>1, <3>4
  <2> QED
    BY <1>4, <2>1, <2>2, <2>3, <2>4, <2>5 DEF OrdersNext
<1>5. ASSUME NEW i \in Items, Sale(i) PROVE DatesKept'
  <2>1. UNCHANGED <<counting, accepting, counts, now, orders>> /\ \E id : sales' = sales \cup {[id |-> id, at |-> now, item |-> i]}
    BY <1>5 DEF Sale
  <2>2. \A s \in sales' : s.at \in Int /\ Day(s.at) <= Today
    BY <1>0, <2>1 DEF DatesKept, Today
  <2>3. \A r \in Desks : Saves(r, {"finance"})' => Found(r)'.day \in Int
    BY <2>1 DEF DatesKept, Saves, Found, accepting
  <2> QED
    BY <2>1, <2>2, <2>3 DEF DatesKept, counting, Today
<1>6. CASE Tick
  <2>1. UNCHANGED <<counting, accepting, counts, sales, orders>> /\ now' = now + 1
    BY <1>6 DEF Tick
  <2>2. Today <= Today' /\ Today' \in Int
    BY <1>0, <2>1, DayMonotone, DayFacts DEF Today
  <2>3. (\A c \in counts : Day(c.at) \in Int) /\ (\A s \in sales : Day(s.at) \in Int)
    BY DayFacts DEF DatesKept, TypeInv, InventoryType, CountRows
  <2>4. \A p \in Pages : page[p].pc \in {"shown", "insert"} => page[p].day \in Int
    BY DEF TypeInv, InventoryType, PageType
  <2>5. /\ \A c \in counts' : Day(c.at) <= Today'
        /\ \A s \in sales' : s.at \in Int /\ Day(s.at) <= Today'
        /\ \A p \in Pages : page'[p].pc \in {"shown", "insert"} => page'[p].day <= Today'
    BY <1>0, <2>1, <2>2, <2>3, <2>4 DEF DatesKept, counting
  <2>6. server'.since <= now'
    BY <1>0, <2>1 DEF DatesKept, counting, None
  <2>7. \A r \in Desks : Saves(r, {"finance"})' => Found(r)'.day \in Int
    BY <2>1 DEF DatesKept, Saves, Found, accepting
  <2> QED
    BY <2>1, <2>5, <2>6, <2>7 DEF DatesKept
<1>7. CASE UNCHANGED vars
  BY <1>7 DEF vars, stock, counting, accepting, DatesKept, Today, Saves, Found
<1> QED
  BY <1>1, <1>4, <1>5, <1>6, <1>7 DEF Next

-----------------------------------------------------------------------------
(* Days and instants.                                                        *)

LEMMA MidnightSplits ==
  ASSUME NEW t \in Int, NEW d \in Int
  PROVE  /\ t < Midnight(d) <=> Day(t) < d
         /\ Day(t) # d => (t > Midnight(d) <=> Day(t) > d)
<1>1. Day(t) \in Int /\ Midnight(d) \in Int /\ Day(Midnight(d)) = d
  BY DayFacts, DayOfMidnight
<1>2. ASSUME t < Midnight(d) PROVE Day(t) < d
  <2>1. Day(t) <= d
    BY <1>1, <1>2, DayMonotone
  <2>2. ASSUME Day(t) = d PROVE FALSE
    BY <1>1, <1>2, <2>2, DayFacts
  <2> QED
    BY <1>1, <2>1, <2>2
<1>3. ASSUME t >= Midnight(d) PROVE Day(t) >= d
  BY <1>1, <1>3, DayMonotone
<1>4. t < Midnight(d) <=> Day(t) < d
  BY <1>1, <1>2, <1>3
<1>5. t = Midnight(d) => Day(t) = d
  BY <1>1
<1> QED
  BY <1>1, <1>4, <1>5

LEMMA MidnightOrder ==
  ASSUME NEW d \in Int, NEW e \in Int
  PROVE  /\ Midnight(d) \in Int /\ Day(Midnight(d)) = d
         /\ Midnight(d) > Midnight(e) <=> d > e
         /\ Midnight(d) < Midnight(e) <=> d < e
<1>1. Midnight(d) \in Int /\ Day(Midnight(d)) = d /\ Midnight(e) \in Int
  BY DayOfMidnight
<1>2. d # e => (Midnight(d) > Midnight(e) <=> d > e)
  BY <1>1, MidnightSplits
<1>3. Midnight(d) < Midnight(e) <=> d < e
  BY <1>1, MidnightSplits
<1>4. d = e => ~(Midnight(d) > Midnight(e))
  BY <1>1
<1> QED
  BY <1>1, <1>2, <1>3, <1>4

(* The dates of lines, sales and counts.                                     *)
LEMMA DatesAreInt ==
  ASSUME TypeInv, DatesKept
  PROVE  /\ \A l \in DOMAIN lines : orders[lines[l].order].day \in Int
         /\ \A s \in sales : s.at \in Int /\ Day(s.at) \in Int /\ Day(s.at) <= Today
         /\ \A c \in counts : /\ c \in CountRows /\ c.at \in Int /\ c.units \in Nat
                              /\ Day(c.at) \in Int /\ Day(c.at) <= Today
         /\ Today \in Nat
<1>1. ASSUME NEW l \in DOMAIN lines PROVE orders[lines[l].order].day \in Int
  BY DEF TypeInv, LinesType, DatesKept
<1>2. ASSUME NEW s \in sales PROVE s.at \in Int /\ Day(s.at) \in Int /\ Day(s.at) <= Today
  BY DayFacts DEF DatesKept
<1>3. ASSUME NEW c \in counts
      PROVE  c \in CountRows /\ c.at \in Int /\ c.units \in Nat /\ Day(c.at) \in Int /\ Day(c.at) <= Today
  <2>1. c \in CountRows /\ c.at \in Int /\ c.units \in Nat
    BY DEF TypeInv, InventoryType, CountRows
  <2> QED
    BY <2>1, DayFacts DEF DatesKept
<1> QED
  BY <1>1, <1>2, <1>3, TimeFacts

-----------------------------------------------------------------------------
(* What the summary of a day is made of.                                     *)

LineDay(l) == orders[lines[l].order].day
(* The lines and the sales of an item from one day to another.               *)
LinesFrom(i, d, e) == {l \in ItemLines(i) : d < LineDay(l) /\ LineDay(l) <= e}
SalesFrom(i, d, e) == {s \in ItemSales(i) : d < Day(s.at) /\ Day(s.at) <= e}
LinesTo(i, e) == {l \in ItemLines(i) : LineDay(l) <= e}
SalesTo(i, e) == {s \in ItemSales(i) : Day(s.at) <= e}
Estimate(i, d) == Summary(i, d, TRUE).estimate

LEMMA SumOfNoneAndOne ==
  ASSUME TypeInv, TablesFinite
  PROVE  /\ Sum({}, LAMBDA c : c.units) = 0
         /\ \A c \in counts : Sum({c}, LAMBDA x : x.units) = c.units
<1>1. Sum({}, LAMBDA c : c.units) = 0
  BY CountedAre, SumOfEmpty, {} \subseteq counts
<1>2. ASSUME NEW c \in counts PROVE Sum({c}, LAMBDA x : x.units) = c.units
  <2>1. IsFiniteSet({c}) /\ Sum({c}, LAMBDA x : x.units) = SumOf({c}, UnitsCounted)
    BY CountedAre, {c} \subseteq counts
  <2>2. UnitsCounted[c] = c.units /\ c.units \in Int
    BY DEF UnitsCounted, TypeInv, InventoryType, CountRows
  <2>3. SumOf({c}, UnitsCounted) = UnitsCounted[c] + SumOf({c} \ {c}, UnitsCounted)
    BY <2>1, <2>2, SumOfTake
  <2>4. {c} \ {c} = {}
    OBVIOUS
  <2> QED
    BY <2>1, <2>2, <2>3, <2>4, SumOfEmpty
<1> QED
  BY <1>1, <1>2

(* After the last count up to a day: its units and what came and went since. *)
LEMMA EstimateFrom ==
  ASSUME TypeInv, TablesFinite, DatesKept, NEW i, ByDay(i), NEW c \in counts, c.item = i, NEW d \in Int, Day(c.at) <= d,
         \A b \in counts : b.item = i /\ Day(b.at) <= d => Day(b.at) <= Day(c.at)
  PROVE  Estimate(i, d) = c.units + (Sum(LinesFrom(i, Day(c.at), d), Units) - Cardinality(SalesFrom(i, Day(c.at), d)))
<1> DEFINE D == Day(c.at)
<1>1. D \in Int /\ c.at = Midnight(D) /\ CountsOn(i, D) = {c}
  BY DatesAreInt DEF ByDay
<1>2. /\ DaysCounted(i, d) \subseteq Int /\ D \in DaysCounted(i, d)
      /\ \A e \in DaysCounted(i, d) : e <= D
  BY DatesAreInt DEF DaysCounted
<1> HIDE DEF D
<1>3. Latest(DaysCounted(i, d)) = D
  <2>1. \A x \in DaysCounted(i, d) : (\A y \in DaysCounted(i, d) : y <= x) <=> x = D
    BY <1>1, <1>2
  <2> QED
    BY <1>2, <2>1 DEF Latest
<1>4. OldCounts(i, d) = {c}
  <2>1. \A b \in counts : b.item = i /\ b.at = Midnight(D) <=> b = c
    <3>1. ASSUME NEW b \in counts, b.item = i, b.at = Midnight(D) PROVE b = c
      <4>1. b \in CountsOn(i, D)
        BY <1>1, <3>1, DayOfMidnight DEF CountsOn
      <4> QED
        BY <1>1, <4>1
    <3> QED
      BY <1>1, <3>1
  <2> QED
    BY <1>2, <1>3, <2>1 DEF OldCounts
<1>5. \A x \in Int : After(x, i, d) <=> D < x
  BY <1>1, <1>2 DEF After
<1>6. {l \in ItemLines(i) : LineDay(l) <= d /\ After(LineDay(l), i, d)} = LinesFrom(i, D, d)
  <2>1. \A l \in ItemLines(i) : LineDay(l) \in Int
    BY DatesAreInt DEF ItemLines, LineDay
  <2> QED
    BY <1>5, <2>1 DEF LinesFrom
<1>7. {s \in ItemSales(i) : Day(s.at) <= d /\ After(Day(s.at), i, d)} = SalesFrom(i, D, d)
  <2>1. \A s \in ItemSales(i) : Day(s.at) \in Int
    BY DatesAreInt DEF ItemSales
  <2> QED
    BY <1>5, <2>1 DEF SalesFrom
<1>8. Estimate(i, d) = Sum(OldCounts(i, d), LAMBDA b : b.units)
        + (Sum({l \in ItemLines(i) : LineDay(l) <= d /\ After(LineDay(l), i, d)}, Units)
           - Cardinality({s \in ItemSales(i) : Day(s.at) <= d /\ After(Day(s.at), i, d)}))
  BY DEF Estimate, Summary, Delivered, Sold, LineDay
<1>9. Sum({c}, LAMBDA b : b.units) = c.units
  BY SumOfNoneAndOne
<1> QED
  BY <1>4, <1>6, <1>7, <1>8, <1>9 DEF D

LEMMA EstimateNone ==
  ASSUME TypeInv, TablesFinite, DatesKept, NEW i, NEW d \in Int,
         \A b \in counts : b.item = i => ~(Day(b.at) <= d)
  PROVE  Estimate(i, d) = 0 + (Sum(LinesTo(i, d), Units) - Cardinality(SalesTo(i, d)))
<1>1. DaysCounted(i, d) = {} /\ OldCounts(i, d) = {}
  BY DEF DaysCounted, OldCounts
<1>2. \A x : After(x, i, d)
  BY <1>1 DEF After
<1>3. {l \in ItemLines(i) : LineDay(l) <= d /\ After(LineDay(l), i, d)} = LinesTo(i, d)
  BY <1>2 DEF LinesTo
<1>4. {s \in ItemSales(i) : Day(s.at) <= d /\ After(Day(s.at), i, d)} = SalesTo(i, d)
  BY <1>2 DEF SalesTo
<1>5. Estimate(i, d) = Sum(OldCounts(i, d), LAMBDA b : b.units)
        + (Sum({l \in ItemLines(i) : LineDay(l) <= d /\ After(LineDay(l), i, d)}, Units)
           - Cardinality({s \in ItemSales(i) : Day(s.at) <= d /\ After(Day(s.at), i, d)}))
  BY DEF Estimate, Summary, Delivered, Sold, LineDay
<1>6. Sum({}, LAMBDA b : b.units) = 0
  BY SumOfNoneAndOne
<1> QED
  BY <1>1, <1>3, <1>4, <1>5, <1>6

(* The last count of an item, if there is one.                               *)
LEMMA LastCount ==
  ASSUME TypeInv, DatesKept, NEW i, ByDay(i), NEW c0 \in counts, c0.item = i
  PROVE  \E c \in counts : c.item = i /\ \A b \in counts : b.item = i /\ b # c => Day(b.at) < Day(c.at) /\ b.at < c.at
<1> DEFINE S == {Today - Day(b.at) : b \in {b \in counts : b.item = i}}
<1>1. S \in SUBSET Nat /\ S # {}
  BY DatesAreInt
<1>2. PICK n \in S : \A m \in S : n <= m
  <2> HIDE DEF S
  <2> QED
    BY <1>1, Least
<1>3. PICK c \in counts : c.item = i /\ n = Today - Day(c.at)
  OBVIOUS
<1>4. ASSUME NEW b \in counts, b.item = i, b # c PROVE Day(b.at) < Day(c.at) /\ b.at < c.at
  <2>1. n <= Today - Day(b.at)
    BY <1>2, <1>4
  <2>2. Day(b.at) \in Int /\ Day(c.at) \in Int /\ Today \in Int
    BY DatesAreInt
  <2>3. Day(b.at) <= Day(c.at)
    BY <1>3, <2>1, <2>2
  <2>4. Day(b.at) # Day(c.at)
    BY <1>3, <1>4 DEF ByDay, CountsOn
  <2>5. b.at = Midnight(Day(b.at)) /\ c.at = Midnight(Day(c.at))
    BY <1>3, <1>4 DEF ByDay
  <2> QED
    BY <2>2, <2>3, <2>4, <2>5, MidnightOrder
<1> QED
  BY <1>3, <1>4

-----------------------------------------------------------------------------
(* From one day to the next.                                                 *)

LEMMA UnitsAdd ==
  ASSUME TypeInv, TablesFinite, NEW A, NEW B, NEW L, L \subseteq DOMAIN lines, Splits(L, A, B)
  PROVE  /\ Sum(L, Units) = Sum(A, Units) + Sum(B, Units)
         /\ Sum(A, Units) \in Int /\ Sum(B, Units) \in Int
<1>1. A \subseteq DOMAIN lines /\ B \subseteq DOMAIN lines
  BY DEF Splits
<1>2. IntegersOn(UnitsOf, L)
  BY SumsAreInt DEF IntegersOn, UnitsOf
<1>3. /\ IsFiniteSet(A) /\ IsFiniteSet(B)
      /\ Sum(A, Units) = SumOf(A, UnitsOf) /\ Sum(B, Units) = SumOf(B, UnitsOf) /\ Sum(L, Units) = SumOf(L, UnitsOf)
  BY <1>1, UnitsAre
<1>4. Sum(A, Units) \in Int /\ Sum(B, Units) \in Int
  BY <1>1, SumsAreInt
<1> QED
  BY <1>2, <1>3, <1>4, SumOfUnion

LEMMA SalesAdd ==
  ASSUME TablesFinite, NEW A, NEW B, NEW S, S \subseteq sales, Splits(S, A, B)
  PROVE  /\ Cardinality(S) = Cardinality(A) + Cardinality(B)
         /\ Cardinality(A) \in Nat /\ Cardinality(B) \in Nat
<1>1. IsFiniteSet(A) /\ IsFiniteSet(B) /\ S = A \cup B /\ A \cap B = {}
  BY FS_Subset DEF TablesFinite, Splits
<1>2. Cardinality(A) \in Nat /\ Cardinality(B) \in Nat /\ Cardinality({}) = 0
  BY <1>1, FS_CardinalityType, FS_EmptySet
<1>3. Cardinality(A \cup B) = Cardinality(A) + Cardinality(B) - Cardinality(A \cap B)
  BY <1>1, FS_Union
<1>4. Cardinality(A \cap B) = 0 /\ Cardinality(S) = Cardinality(A \cup B)
  BY <1>1, <1>2
<1> QED
  BY <1>2, <1>3, <1>4

LEMMA EstimateNext ==
  ASSUME TypeInv, TablesFinite, DatesKept, NEW i, NEW d \in Int, CountsOn(i, d) = {}
  PROVE  /\ Estimate(i, d) = Estimate(i, d - 1) + (Sum(OfDay(i, d), Units) - SoldOn(i, d))
         /\ Estimate(i, d - 1) \in Int /\ Sum(OfDay(i, d), Units) \in Int /\ SoldOn(i, d) \in Int
<1> DEFINE bought(e) == {l \in ItemLines(i) : LineDay(l) <= e /\ After(LineDay(l), i, e)}
           sold(e) == {s \in ItemSales(i) : Day(s.at) <= e /\ After(Day(s.at), i, e)}
           today == {s \in ItemSales(i) : Day(s.at) = d}
           old(e) == Sum(OldCounts(i, e), LAMBDA b : b.units)
<1>1. d - 1 \in Int
  OBVIOUS
<1>2. \A e \in Int : Estimate(i, e) = old(e) + (Sum(bought(e), Units) - Cardinality(sold(e)))
  BY DEF Estimate, Summary, Delivered, Sold, LineDay
<1>3. DaysCounted(i, d) = DaysCounted(i, d - 1)
  <2>1. \A c \in counts : c.item = i => (Day(c.at) <= d <=> Day(c.at) <= d - 1)
    <3> SUFFICES ASSUME NEW c \in counts, c.item = i PROVE Day(c.at) <= d <=> Day(c.at) <= d - 1
      OBVIOUS
    <3>1. Day(c.at) \in Int /\ Day(c.at) # d
      BY DatesAreInt DEF CountsOn
    <3> QED
      BY <3>1
  <2> QED
    BY <2>1 DEF DaysCounted
<1>4. OldCounts(i, d) = OldCounts(i, d - 1) /\ \A x : After(x, i, d) <=> After(x, i, d - 1)
  BY <1>3 DEF OldCounts, After
<1>5. After(d, i, d)
  <2>1. \A e \in DaysCounted(i, d - 1) : e \in Int /\ e <= d - 1
    BY DatesAreInt DEF DaysCounted
  <2> QED
    BY <1>3, <2>1 DEF After
<1>6. Splits(bought(d), bought(d - 1), OfDay(i, d)) /\ bought(d) \subseteq DOMAIN lines
  <2>1. \A l \in ItemLines(i) : l \in DOMAIN lines /\ LineDay(l) \in Int
    BY DatesAreInt DEF ItemLines, LineDay
  <2>2. \A x \in Int : x <= d <=> x <= d - 1 \/ x = d
    OBVIOUS
  <2>3. \A x \in Int : x <= d - 1 => x # d
    OBVIOUS
  <2>4. \A l \in ItemLines(i) : l \in bought(d) <=> l \in bought(d - 1) \/ l \in OfDay(i, d)
    BY <1>4, <1>5, <2>1, <2>2 DEF OfDay, LineDay
  <2>5. \A l \in ItemLines(i) : ~(l \in bought(d - 1) /\ l \in OfDay(i, d))
    BY <2>1, <2>3 DEF OfDay, LineDay
  <2>6. bought(d) \subseteq ItemLines(i) /\ bought(d - 1) \subseteq ItemLines(i) /\ OfDay(i, d) \subseteq ItemLines(i)
    BY DEF OfDay
  <2> HIDE DEF bought
  <2> QED
    BY <2>1, <2>4, <2>5, <2>6 DEF Splits
<1>7. Splits(sold(d), sold(d - 1), today) /\ sold(d) \subseteq sales
  <2>1. \A s \in ItemSales(i) : s \in sales /\ Day(s.at) \in Int
    BY DatesAreInt DEF ItemSales
  <2>2. \A x \in Int : x <= d <=> x <= d - 1 \/ x = d
    OBVIOUS
  <2>3. \A x \in Int : x <= d - 1 => x # d
    OBVIOUS
  <2>4. \A s \in ItemSales(i) : s \in sold(d) <=> s \in sold(d - 1) \/ s \in today
    BY <1>4, <1>5, <2>1, <2>2
  <2>5. \A s \in ItemSales(i) : ~(s \in sold(d - 1) /\ s \in today)
    BY <2>1, <2>3
  <2>6. sold(d) \subseteq ItemSales(i) /\ sold(d - 1) \subseteq ItemSales(i) /\ today \subseteq ItemSales(i)
    OBVIOUS
  <2> HIDE DEF sold, today
  <2> QED
    BY <2>1, <2>4, <2>5, <2>6 DEF Splits
<1>8. old(d) = old(d - 1) /\ old(d - 1) \in Int
  <2>1. OldCounts(i, d - 1) \in SUBSET counts
    BY DEF OldCounts
  <2> QED
    BY <1>4, <2>1, SumsAreInt
<1>9. SoldOn(i, d) = Cardinality(today)
  BY DEF SoldOn
<1> HIDE DEF bought, sold, today, old
<1>10. /\ Sum(bought(d), Units) = Sum(bought(d - 1), Units) + Sum(OfDay(i, d), Units)
       /\ Sum(bought(d - 1), Units) \in Int /\ Sum(OfDay(i, d), Units) \in Int
  BY <1>6, UnitsAdd
<1>11. /\ Cardinality(sold(d)) = Cardinality(sold(d - 1)) + Cardinality(today)
       /\ Cardinality(sold(d - 1)) \in Nat /\ Cardinality(today) \in Nat
  BY <1>7, SalesAdd
<1>12. \A a \in Int, b \in Int, x \in Int, s \in Nat, n \in Nat :
         a + ((b + x) - (s + n)) = (a + (b - s)) + (x - n) /\ a + (b - s) \in Int
  OBVIOUS
<1>13. /\ Estimate(i, d - 1) = old(d - 1) + (Sum(bought(d - 1), Units) - Cardinality(sold(d - 1)))
       /\ Estimate(i, d) = old(d - 1) + ((Sum(bought(d - 1), Units) + Sum(OfDay(i, d), Units))
                                         - (Cardinality(sold(d - 1)) + Cardinality(today)))
  BY <1>1, <1>2, <1>8, <1>10, <1>11
<1> QED
  BY <1>8, <1>9, <1>10, <1>11, <1>12, <1>13

(* On the day of a count there is what was counted.                          *)
LEMMA EstimateCounted ==
  ASSUME TypeInv, TablesFinite, DatesKept, NEW i, ByDay(i), NEW c \in counts, c.item = i
  PROVE  Estimate(i, Day(c.at)) = c.units
<1>1. Day(c.at) \in Int /\ c.units \in Nat
  BY DatesAreInt
<1>2. Estimate(i, Day(c.at)) = c.units + (Sum(LinesFrom(i, Day(c.at), Day(c.at)), Units)
                                          - Cardinality(SalesFrom(i, Day(c.at), Day(c.at))))
  BY <1>1, EstimateFrom
<1>3. LinesFrom(i, Day(c.at), Day(c.at)) = {}
  <2>1. \A l \in ItemLines(i) : LineDay(l) \in Int
    BY DatesAreInt DEF ItemLines, LineDay
  <2> QED
    BY <1>1, <2>1 DEF LinesFrom
<1>4. SalesFrom(i, Day(c.at), Day(c.at)) = {}
  <2>1. \A s \in ItemSales(i) : Day(s.at) \in Int
    BY DatesAreInt DEF ItemSales
  <2> QED
    BY <1>1, <2>1 DEF SalesFrom
<1>5. Sum({}, Units) = 0 /\ Cardinality({}) = 0
  BY UnitsAre, SumOfEmpty, FS_EmptySet, {} \subseteq DOMAIN lines
<1> QED
  BY <1>1, <1>2, <1>3, <1>4, <1>5

(* The accounts of the report, day by day.                                   *)
IsReport(F, i, start, end) ==
  /\ \A d \in start - 1 .. end : F[d] \in Valued
  /\ F[start - 1] = Initial(i, start)
  /\ \A d \in start .. end : F[d] = ReportDay(F[d - 1], i, d)
  /\ Report(i, start, end) = F[end]

LEMMA CountsOfDay ==
  ASSUME NEW i, ByDay(i), NEW d
  PROVE  CountsOn(i, d) = {} \/ \E c \in counts : c.item = i /\ Day(c.at) = d /\ CountsOn(i, d) = {c}
  BY DEF CountsOn, ByDay

LEMMA ReportCounts ==
  ASSUME TypeInv, TablesFinite, DatesKept, Delivers, NEW i, ByDay(i), NEW start \in Int, NEW end \in Int,
         start - 1 <= end, NEW F, IsReport(F, i, start, end)
  PROVE  \A d \in start - 1 .. end : F[d].count = Estimate(i, d)
<1> DEFINE A == {d \in start - 1 .. end : F[d].count = Estimate(i, d)}
<1>1. start - 1 \in A
  <2>1. start - 1 \in start - 1 .. end
    OBVIOUS
  <2>2. Initial(i, start).count = Estimate(i, start - 1)
    BY InitialIs DEF Estimate
  <2>3. F[start - 1].count = Estimate(i, start - 1)
    BY <2>2 DEF IsReport
  <2> QED
    BY <2>1, <2>3
<1>2. ASSUME NEW d \in start .. end, d - 1 \in A PROVE d \in A
  <2>1. d \in Int /\ d \in start - 1 .. end /\ d - 1 \in start - 1 .. end /\ F[d - 1].count = Estimate(i, d - 1)
    BY <1>2
  <2>2. F[d - 1] \in Valued /\ F[d] = ReportDay(F[d - 1], i, d)
    BY <2>1 DEF IsReport
  <2>3. CASE CountsOn(i, d) = {}
    <3>1. F[d].count = Before(F[d - 1], i, d)
      BY <2>2, <2>3, DayIs
    <3>2. Before(F[d - 1], i, d) = F[d - 1].count + (Sum(OfDay(i, d), Units) - SoldOn(i, d))
      BY DEF Before
    <3>3. F[d].count = Estimate(i, d)
      BY <2>1, <2>3, <3>1, <3>2, EstimateNext
    <3> QED
      BY <2>1, <3>3
  <2>4. ASSUME NEW c \in counts, c.item = i, Day(c.at) = d, CountsOn(i, d) = {c} PROVE d \in A
    <3>1. F[d].count = c.units
      BY <2>2, <2>4, DayIs
    <3>2. Estimate(i, d) = c.units
      BY <2>4, EstimateCounted
    <3> QED
      BY <2>1, <3>1, <3>2
  <2> QED
    BY <2>3, <2>4, CountsOfDay
<1> HIDE DEF A
<1>3. \A d \in start - 1 .. end : d \in A
  BY <1>1, <1>2, StepwiseFrom
<1> QED
  BY <1>3 DEF A

-----------------------------------------------------------------------------
(* What is found missing at a count.                                         *)

LostAt(s, a) == {k \in DOMAIN s : s[k].at = a}
LostSum(s, a) == Sum({k \in DOMAIN s : s[k].at = a}, LAMBDA k : s[k].units)
Missing(s, a, n) ==
  IF n = 0 THEN LostAt(s, a) = {} ELSE \E k \in DOMAIN s : LostAt(s, a) = {k} /\ s[k].units = n

LEMMA MissingAppend ==
  ASSUME NEW s \in Losses, NEW e \in [at : Int, units : Int], NEW a, NEW n
  PROVE  /\ Append(s, e) \in Losses
         /\ e.at # a /\ Missing(s, a, n) => Missing(Append(s, e), a, n)
         /\ e.at = a /\ Missing(s, a, 0) /\ e.units = n /\ n # 0 => Missing(Append(s, e), a, n)
<1> DEFINE t == Append(s, e)  m == Len(s) + 1
<1>1. s \in Seq([at : Int, units : Int]) /\ Len(s) \in Nat /\ DOMAIN s = 1 .. Len(s)
  BY DEF Losses
<1>2. /\ t \in Losses /\ DOMAIN t = DOMAIN s \cup {m} /\ m \notin DOMAIN s /\ t[m] = e
      /\ \A k \in DOMAIN s : t[k] = s[k]
  BY <1>1 DEF Losses
<1> HIDE DEF t, m
<1>3. ASSUME e.at # a PROVE LostAt(t, a) = LostAt(s, a)
  BY <1>2, <1>3 DEF LostAt
<1>4. ASSUME e.at = a, LostAt(s, a) = {} PROVE LostAt(t, a) = {m}
  BY <1>2, <1>4 DEF LostAt
<1>5. ASSUME e.at # a, Missing(s, a, n) PROVE Missing(t, a, n)
  BY <1>2, <1>3, <1>5 DEF Missing
<1>6. ASSUME e.at = a, Missing(s, a, 0), e.units = n, n # 0 PROVE Missing(t, a, n)
  BY <1>2, <1>4, <1>6 DEF Missing
<1> QED
  BY <1>2, <1>5, <1>6 DEF t

LEMMA MissingSum ==
  ASSUME NEW s \in Losses, NEW a, NEW n, Missing(s, a, n)
  PROVE  LostSum(s, a) = n
<1> DEFINE S == {k \in DOMAIN s : s[k].at = a}
           g == [k \in DOMAIN s |-> s[k].units]
           Eq(F) == F = [T \in SUBSET S |-> IF T = {} THEN 0
                                            ELSE LET x == CHOOSE x \in T : TRUE
                                                 IN  s[x].units + F[T \ {x}]]
           F == CHOOSE F : Eq(F)
<1>1. S = {} \/ \E k \in DOMAIN s : S = {k}
  BY DEF Missing, LostAt
<1>2. IsFiniteSet(S)
  BY <1>1, FS_EmptySet, FS_Singleton
<1>3. ASSUME NEW G PROVE Eq(G) <=> IsSumOn(G, g, S)
  <2>1. \A T \in SUBSET S : T # {} => g[Chosen(T)] = s[Chosen(T)].units
    BY ChosenIn
  <2> HIDE DEF g
  <2> QED
    BY <2>1, ZenonT(60) DEF IsSumOn, Chosen
<1>4. Eq(F)
  <2> HIDE DEF Eq
  <2>1. \E G : Eq(G)
    BY <1>2, <1>3, SumOnExists
  <2> QED
    BY <2>1
<1>5. LostSum(s, a) = F[S]
  BY DEF LostSum, Sum
<1> HIDE DEF F
<1>6. F[{}] = 0
  BY <1>4, {} \in SUBSET S
<1>7. ASSUME NEW k \in DOMAIN s, S = {k} PROVE F[S] = s[k].units
  <2>1. (CHOOSE x \in S : TRUE) = k /\ S \ {k} = {} /\ S # {}
    BY <1>7
  <2>2. F[S] = s[k].units + F[S \ {k}]
    BY <1>4, <2>1, S \in SUBSET S
  <2>3. s[k].units \in Int
    <3> DEFINE E == [at : Int, units : Int]
    <3>1. s \in Seq(E) /\ k \in DOMAIN s
      BY DEF Losses
    <3> HIDE DEF E
    <3>2. s[k] \in E
      BY <3>1
    <3> QED
      BY <3>2 DEF E
  <2>4. F[S \ {k}] = 0
    BY <1>6, <2>1
  <2> HIDE DEF S
  <2> QED
    BY <2>2, <2>3, <2>4
<1>8. CASE n = 0
  BY <1>5, <1>6, <1>8 DEF Missing, LostAt
<1>9. CASE n # 0
  BY <1>5, <1>7, <1>9 DEF Missing, LostAt
<1> QED
  BY <1>8, <1>9

(* Nothing came or went on the day of a count.                               *)
LEMMA QuietDays ==
  ASSUME TypeInv, TablesFinite, DatesKept, NEW i, Quiet(i), NEW c \in counts, c.item = i
  PROVE  /\ \A l \in ItemLines(i) : LineDay(l) # Day(c.at)
         /\ \A s \in ItemSales(i) : Day(s.at) # Day(c.at)
         /\ OfDay(i, Day(c.at)) = {} /\ SoldOn(i, Day(c.at)) = 0
<1>1. Cardinality({s \in ItemSales(i) : Day(s.at) = Day(c.at)}) = 0
  BY DEF Quiet, Sold
<1>2. IsFiniteSet({s \in ItemSales(i) : Day(s.at) = Day(c.at)})
  BY FS_Subset DEF TablesFinite, ItemSales
<1>3. {s \in ItemSales(i) : Day(s.at) = Day(c.at)} = {}
  BY <1>1, <1>2, FS_EmptySet
<1>4. \A l \in ItemLines(i) : LineDay(l) # Day(c.at)
  BY DEF Quiet, ItemLines, LineDay
<1>5. OfDay(i, Day(c.at)) = {}
  BY <1>4 DEF OfDay, LineDay
<1> QED
  BY <1>1, <1>3, <1>4, <1>5 DEF SoldOn

(* Between two counts: what loss_reports asks to the instant is what came    *)
(* and went on the days between.                                             *)
LEMMA LossIs ==
  ASSUME TypeInv, TablesFinite, DatesKept, NEW i, ByDay(i), Quiet(i), NEW c \in counts, c.item = i, NEW p \in Previous(c)
  PROVE  /\ p \in counts /\ p.item = i /\ Day(p.at) < Day(c.at)
         /\ Estimate(i, Day(c.at) - 1) \in Int
         /\ Loss(c, p) = Estimate(i, Day(c.at) - 1) - c.units
<1> DEFINE D == Day(c.at)  P == Day(p.at)
<1>1. /\ p \in counts /\ p.item = i /\ p.at < c.at
      /\ \A q \in counts : q.item = i /\ q.at < c.at => q.at <= p.at
  BY DEF Previous
<1>2. /\ D \in Int /\ P \in Int /\ c.at \in Int /\ p.at \in Int /\ c.units \in Nat /\ p.units \in Nat
      /\ c.at = Midnight(D) /\ p.at = Midnight(P)
  BY <1>1, DatesAreInt DEF ByDay
<1>3. P < D
  BY <1>1, <1>2, MidnightOrder
<1>4. \A b \in counts : b.item = i /\ Day(b.at) <= D - 1 => Day(b.at) <= P
  <2> SUFFICES ASSUME NEW b \in counts, b.item = i, Day(b.at) <= D - 1 PROVE Day(b.at) <= P
    OBVIOUS
  <2>1. Day(b.at) \in Int /\ b.at \in Int /\ b.at = Midnight(Day(b.at))
    BY DatesAreInt DEF ByDay
  <2>2. b.at < c.at
    BY <1>2, <2>1, MidnightOrder
  <2> QED
    BY <1>1, <1>2, <2>1, <2>2, DayMonotone
<1>5. Estimate(i, D - 1) = p.units + (Sum(LinesFrom(i, P, D - 1), Units) - Cardinality(SalesFrom(i, P, D - 1)))
  <2>1. D - 1 \in Int /\ P <= D - 1
    BY <1>2, <1>3
  <2> QED
    BY <1>1, <1>4, <2>1, EstimateFrom
<1>6. {l \in ItemLines(i) : Midnight(LineDay(l)) > p.at /\ Midnight(LineDay(l)) < c.at} = LinesFrom(i, P, D - 1)
  <2>1. \A x \in Int : Midnight(x) > p.at /\ Midnight(x) < c.at <=> P < x /\ x <= D - 1
    BY <1>2, MidnightOrder
  <2>2. \A l \in ItemLines(i) : LineDay(l) \in Int
    BY DatesAreInt DEF ItemLines, LineDay
  <2> HIDE DEF D, P
  <2> QED
    BY <2>1, <2>2 DEF LinesFrom
<1>7. {s \in ItemSales(i) : s.at > p.at /\ s.at < c.at} = SalesFrom(i, P, D - 1)
  <2>1. ASSUME NEW s \in ItemSales(i) PROVE s.at > p.at /\ s.at < c.at <=> P < Day(s.at) /\ Day(s.at) <= D - 1
    <3>1. s.at \in Int /\ Day(s.at) \in Int
      BY DatesAreInt DEF ItemSales
    <3>2. Day(s.at) # P
      BY <1>1, QuietDays
    <3> HIDE DEF D, P
    <3>3. (s.at > p.at <=> Day(s.at) > P) /\ (s.at < c.at <=> Day(s.at) < D)
      BY <1>2, <3>1, <3>2, MidnightSplits
    <3> QED
      BY <1>2, <3>1, <3>3
  <2> HIDE DEF D, P
  <2> QED
    BY <2>1 DEF SalesFrom
<1>8. Loss(c, p) = p.units
        - Cardinality({s \in ItemSales(i) : s.at > p.at /\ s.at < c.at})
        + Sum({l \in ItemLines(i) : Midnight(LineDay(l)) > p.at /\ Midnight(LineDay(l)) < c.at}, Units) - c.units
  BY DEF Loss, Sold, Delivered, LineDay
<1>9. Sum(LinesFrom(i, P, D - 1), Units) \in Int /\ Cardinality(SalesFrom(i, P, D - 1)) \in Int
  <2>1. LinesFrom(i, P, D - 1) \in SUBSET DOMAIN lines /\ SalesFrom(i, P, D - 1) \in SUBSET sales
    BY DEF LinesFrom, SalesFrom, ItemLines, ItemSales
  <2> QED
    BY <2>1, SumsAreInt
<1> HIDE DEF D, P
<1>10. Loss(c, p) = Estimate(i, D - 1) - c.units /\ Estimate(i, D - 1) \in Int
  <2>1. Loss(c, p) = p.units - Cardinality(SalesFrom(i, P, D - 1)) + Sum(LinesFrom(i, P, D - 1), Units) - c.units
    BY <1>6, <1>7, <1>8
  <2>2. \A u \in Int, b \in Int, s \in Int, n \in Int :
          u - s + b - n = (u + (b - s)) - n /\ u + (b - s) \in Int
    OBVIOUS
  <2>3. p.units \in Int /\ c.units \in Int
    BY <1>2
  <2> QED
    BY <1>5, <1>9, <2>1, <2>2, <2>3
<1> QED
  BY <1>1, <1>3, <1>10 DEF D, P

LEMMA ReportLosses ==
  ASSUME TypeInv, TablesFinite, DatesKept, Delivers, NEW i, ByDay(i), Quiet(i), NEW start \in Int,
         NEW F, IsReport(F, i, start, Today), NEW c \in counts, c.item = i, NEW p \in Previous(c), Day(p.at) >= start
  PROVE  Missing(F[Today].lost, c.at, Loss(c, p))
<1> DEFINE D == Day(c.at)
           L == Loss(c, p)
           n(d) == IF d < D THEN 0 ELSE L
           A == {d \in start - 1 .. Today : Missing(F[d].lost, c.at, n(d))}
<1>1. /\ D \in Int /\ D <= Today /\ Today \in Int /\ start < D /\ start - 1 <= Today
      /\ Estimate(i, D - 1) \in Int /\ L = Estimate(i, D - 1) - c.units /\ c.units \in Int /\ c.at \in Int
  <2>1. p \in counts /\ Day(p.at) < D /\ Estimate(i, D - 1) \in Int /\ L = Estimate(i, D - 1) - c.units
    BY LossIs
  <2>2. Day(p.at) \in Int /\ D \in Int /\ D <= Today /\ Today \in Int /\ c.units \in Int /\ c.at \in Int
    BY <2>1, DatesAreInt
  <2> QED
    BY <2>1, <2>2
<1> HIDE DEF D, L
<1>2. start - 1 \in A
  <2>1. start - 1 \in start - 1 .. Today /\ n(start - 1) = 0
    BY <1>1
  <2>2. F[start - 1].lost = <<>>
    BY InitialIs DEF IsReport
  <2>3. DOMAIN <<>> = {}
    OBVIOUS
  <2>4. Missing(<<>>, c.at, 0)
    BY <2>3 DEF Missing, LostAt
  <2> QED
    BY <2>1, <2>2, <2>4
<1>3. ASSUME NEW d \in start .. Today, d - 1 \in A PROVE d \in A
  <2>1. d \in Int /\ d \in start - 1 .. Today /\ d - 1 \in start - 1 .. Today /\ Missing(F[d - 1].lost, c.at, n(d - 1))
    BY <1>1, <1>3
  <2>2. F[d - 1] \in Valued /\ F[d] = ReportDay(F[d - 1], i, d)
    BY <2>1 DEF IsReport
  <2>3. F[d - 1].count = Estimate(i, d - 1)
    BY <1>1, <2>1, ReportCounts
  <2>4. F[d - 1].lost \in Losses /\ F[d - 1].count \in Int
    BY <2>2 DEF Valued
  <2>5. CASE CountsOn(i, d) = {}
    <3>1. F[d].lost = F[d - 1].lost
      BY <2>2, <2>5, DayIs
    <3>2. d # D
      BY <2>5 DEF CountsOn, D
    <3>3. n(d) = n(d - 1)
      BY <1>1, <2>1, <3>2
    <3> QED
      BY <2>1, <3>1, <3>3
  <2>6. ASSUME NEW b \in counts, b.item = i, Day(b.at) = d, CountsOn(i, d) = {b}, d # D PROVE d \in A
    <3>1. F[d].lost = Shrunk(F[d - 1], i, d, b)
      BY <2>2, <2>6, DayIs
    <3>2. b.at # c.at /\ b.at \in Int /\ b.units \in Int
      BY <2>6, DatesAreInt DEF D
    <3>3. Before(F[d - 1], i, d) \in Int
      <4>1. OfDay(i, d) \in SUBSET DOMAIN lines /\ {s \in ItemSales(i) : Day(s.at) = d} \in SUBSET sales
        BY DEF OfDay, ItemLines, ItemSales
      <4>2. Sum(OfDay(i, d), Units) \in Int /\ SoldOn(i, d) \in Int
        BY <4>1, SumsAreInt DEF SoldOn
      <4> QED
        BY <2>4, <4>2 DEF Before
    <3>4. n(d) = n(d - 1)
      BY <1>1, <2>1, <2>6
    <3> DEFINE e == [at |-> b.at, units |-> Before(F[d - 1], i, d) - b.units]
    <3>5. e \in [at : Int, units : Int] /\ e.at # c.at
      BY <3>2, <3>3
    <3>6. Missing(F[d - 1].lost, c.at, n(d))
      BY <2>1, <3>4
    <3> HIDE DEF e, n
    <3>7. Missing(Append(F[d - 1].lost, e), c.at, n(d))
      BY <2>4, <3>5, <3>6, MissingAppend
    <3>8. Missing(F[d].lost, c.at, n(d))
      BY <3>1, <3>6, <3>7 DEF e, Shrunk
    <3> QED
      BY <2>1, <3>8
  <2>7. CASE d = D
    <3>1. CountsOn(i, d) = {c}
      BY <2>7 DEF ByDay, D
    <3>2. Before(F[d - 1], i, d) = Estimate(i, D - 1)
      <4>1. OfDay(i, d) = {} /\ SoldOn(i, d) = 0
        BY <2>7, QuietDays DEF D
      <4>2. Sum({}, Units) = 0
        BY UnitsAre, SumOfEmpty, {} \subseteq DOMAIN lines
      <4> QED
        BY <1>1, <2>3, <2>7, <4>1, <4>2 DEF Before
    <3>3. F[d].lost = IF c.units = Estimate(i, D - 1) THEN F[d - 1].lost
                      ELSE Append(F[d - 1].lost, [at |-> c.at, units |-> L])
      <4>1. F[d].lost = Shrunk(F[d - 1], i, d, c)
        BY <2>2, <3>1, DayIs
      <4> QED
        BY <1>1, <3>2, <4>1 DEF Shrunk
    <3>4. Missing(F[d - 1].lost, c.at, 0) /\ n(d) = L
      BY <1>1, <2>1, <2>7
    <3>5. L \in Int /\ (L = 0 <=> c.units = Estimate(i, D - 1))
      BY <1>1
    <3>6. CASE L = 0
      BY <2>1, <3>3, <3>4, <3>5, <3>6
    <3>7. CASE L # 0
      <4> DEFINE e == [at |-> c.at, units |-> L]
      <4>1. e \in [at : Int, units : Int] /\ e.at = c.at /\ e.units = L
        BY <1>1, <3>5
      <4>2. F[d].lost = Append(F[d - 1].lost, e)
        BY <3>3, <3>5, <3>7
      <4> HIDE DEF e, n
      <4>3. Missing(F[d].lost, c.at, L)
        BY <2>4, <3>4, <3>7, <4>1, <4>2, MissingAppend
      <4> QED
        BY <2>1, <3>4, <4>3
    <3> QED
      BY <3>6, <3>7
  <2> QED
    BY <2>5, <2>6, <2>7, CountsOfDay
<1> HIDE DEF A
<1>4. \A d \in start - 1 .. Today : d \in A
  BY <1>1, <1>2, <1>3, StepwiseFrom
<1>5. Today \in A
  BY <1>1, <1>4
<1>6. n(Today) = L
  BY <1>1
<1> QED
  BY <1>5, <1>6 DEF A, L

-----------------------------------------------------------------------------
(* The programs that reckon to the instant, where it makes no difference.    *)

(* What came and went after the last count: to the instant, and by day.      *)
LEMMA SinceLast ==
  ASSUME TypeInv, TablesFinite, DatesKept, Delivers, NEW i, ByDay(i), Quiet(i), NEW c \in counts, c.item = i,
         \A b \in counts : b.item = i /\ b # c => Day(b.at) < Day(c.at) /\ b.at < c.at
  PROVE  Estimate(i, Today) = c.units + (Sum({l \in ItemLines(i) : Midnight(LineDay(l)) > c.at}, Units)
                                         - Cardinality({s \in ItemSales(i) : s.at > c.at}))
<1> DEFINE D == Day(c.at)
<1>1. D \in Int /\ D <= Today /\ Today \in Int /\ c.at = Midnight(D)
  BY DatesAreInt DEF ByDay
<1>2. Estimate(i, Today) = c.units + (Sum(LinesFrom(i, D, Today), Units) - Cardinality(SalesFrom(i, D, Today)))
  <2>1. \A b \in counts : b.item = i /\ Day(b.at) <= Today => Day(b.at) <= D
    BY DatesAreInt
  <2> QED
    BY <1>1, <2>1, EstimateFrom
<1>3. {l \in ItemLines(i) : Midnight(LineDay(l)) > c.at} = LinesFrom(i, D, Today)
  <2>1. ASSUME NEW l \in ItemLines(i) PROVE Midnight(LineDay(l)) > c.at <=> D < LineDay(l) /\ LineDay(l) <= Today
    <3>1. LineDay(l) \in Int /\ LineDay(l) <= Today
      BY DatesAreInt DEF ItemLines, LineDay, Delivers
    <3> HIDE DEF D
    <3> QED
      BY <1>1, <3>1, MidnightOrder
  <2> HIDE DEF D
  <2> QED
    BY <2>1 DEF LinesFrom
<1>4. {s \in ItemSales(i) : s.at > c.at} = SalesFrom(i, D, Today)
  <2>1. ASSUME NEW s \in ItemSales(i) PROVE s.at > c.at <=> D < Day(s.at) /\ Day(s.at) <= Today
    <3>1. s.at \in Int /\ Day(s.at) \in Int /\ Day(s.at) <= Today
      BY DatesAreInt DEF ItemSales
    <3>2. Day(s.at) # D
      BY QuietDays
    <3> HIDE DEF D
    <3> QED
      BY <1>1, <3>1, <3>2, MidnightSplits
  <2> HIDE DEF D
  <2> QED
    BY <2>1 DEF SalesFrom
<1> QED
  BY <1>2, <1>3, <1>4

LEMMA CurrentIs ==
  ASSUME TypeInv, TablesFinite, DatesKept, Delivers, NEW i, ByDay(i), Quiet(i), bulk[i].active
  PROVE  CurrentInventory(i).remaining = Estimate(i, Today)
<1>1. CurrentInventory(i).remaining =
        Sum(LastInventory(i), LAMBDA c : c.units)
          + (Sum({l \in ItemLines(i) : Recent(Midnight(LineDay(l)), i)}, Units) - Cardinality({s \in ItemSales(i) : Recent(s.at, i)}))
  BY DEF CurrentInventory, Delivered, Sold, LineDay
<1>2. CASE \E c0 \in counts : c0.item = i
  <2>1. PICK c \in counts : c.item = i /\ \A b \in counts : b.item = i /\ b # c => Day(b.at) < Day(c.at) /\ b.at < c.at
    BY <1>2, LastCount
  <2>2. \A b \in counts : b.at \in Int
    BY DatesAreInt
  <2>3. LastInventory(i) = {c}
    BY <2>1, <2>2 DEF LastInventory
  <2>4. \A t : Recent(t, i) <=> t > c.at
    BY <2>3 DEF Recent
  <2>5. /\ {l \in ItemLines(i) : Recent(Midnight(LineDay(l)), i)} = {l \in ItemLines(i) : Midnight(LineDay(l)) > c.at}
        /\ {s \in ItemSales(i) : Recent(s.at, i)} = {s \in ItemSales(i) : s.at > c.at}
    BY <2>4
  <2>6. Sum({c}, LAMBDA b : b.units) = c.units
    BY SumOfNoneAndOne
  <2> QED
    BY <1>1, <2>1, <2>3, <2>5, <2>6, SinceLast
<1>3. CASE ~\E c0 \in counts : c0.item = i
  <2>1. LastInventory(i) = {} /\ \A t : Recent(t, i)
    BY <1>3 DEF LastInventory, Recent
  <2>2. {l \in ItemLines(i) : Recent(Midnight(LineDay(l)), i)} = LinesTo(i, Today)
    BY <2>1 DEF LinesTo, ItemLines, LineDay, Delivers
  <2>3. {s \in ItemSales(i) : Recent(s.at, i)} = SalesTo(i, Today)
    BY <2>1, DatesAreInt DEF SalesTo, ItemSales
  <2>4. Estimate(i, Today) = 0 + (Sum(LinesTo(i, Today), Units) - Cardinality(SalesTo(i, Today)))
    BY <1>3, DatesAreInt, EstimateNone
  <2> QED
    BY <1>1, <2>1, <2>2, <2>3, <2>4, SumOfNoneAndOne
<1> QED
  BY <1>2, <1>3

LEMMA ChartedIs ==
  ASSUME TypeInv, TablesFinite, DatesKept, Delivers, NEW i, ByDay(i), Quiet(i), NEW c0 \in counts, c0.item = i
  PROVE  Charted(i, c0.at - 1) = Estimate(i, Today)
<1> DEFINE from == c0.at - 1
           C == {c \in counts : c.item = i /\ c.at > from}
           Later(t) == t > from /\ \A c \in C : c.at < t
<1>1. PICK c \in counts : c.item = i /\ \A b \in counts : b.item = i /\ b # c => Day(b.at) < Day(c.at) /\ b.at < c.at
  BY LastCount
<1>2. c0.at \in Int /\ c.at \in Int /\ \A b \in counts : b.at \in Int
  BY DatesAreInt
<1>3. c \in C /\ \A b \in C : b \in counts /\ b.item = i
  BY <1>1, <1>2
<1>4. {b \in C : \A d \in C : d.at <= b.at} = {c}
  <2> HIDE DEF C
  <2> QED
    BY <1>1, <1>2, <1>3
<1>5. \A t \in Int : Later(t) <=> t > c.at
  <2>1. from \in Int /\ c.at > from
    BY <1>2, <1>3
  <2> HIDE DEF C, from
  <2> QED
    BY <1>1, <1>2, <1>3, <2>1
<1>6. Charted(i, from) = Sum({b \in C : \A d \in C : d.at <= b.at}, LAMBDA b : b.units)
        + (Sum({l \in ItemLines(i) : Later(Midnight(LineDay(l)))}, Units) - Cardinality({s \in ItemSales(i) : Later(s.at)}))
  BY DEF Charted, Delivered, Sold, LineDay
<1> HIDE DEF C, from, Later
<1>7. {l \in ItemLines(i) : Later(Midnight(LineDay(l)))} = {l \in ItemLines(i) : Midnight(LineDay(l)) > c.at}
  <2>1. \A l \in ItemLines(i) : Midnight(LineDay(l)) \in Int
    BY DatesAreInt, DayOfMidnight DEF ItemLines, LineDay
  <2> QED
    BY <1>5, <2>1
<1>8. {s \in ItemSales(i) : Later(s.at)} = {s \in ItemSales(i) : s.at > c.at}
  <2>1. \A s \in ItemSales(i) : s.at \in Int
    BY DatesAreInt DEF ItemSales
  <2> QED
    BY <1>5, <2>1
<1>9. Sum({c}, LAMBDA b : b.units) = c.units
  BY SumOfNoneAndOne
<1>10. Estimate(i, Today) = c.units
        + (Sum({l \in ItemLines(i) : Midnight(LineDay(l)) > c.at}, Units) - Cardinality({s \in ItemSales(i) : s.at > c.at}))
  BY <1>1, SinceLast
<1>11. Charted(i, from) = Estimate(i, Today)
  BY <1>4, <1>6, <1>7, <1>8, <1>9, <1>10
<1> QED
  BY <1>11 DEF from

LEMMA AgreedBy ==
  ASSUME TypeInv, TablesFinite, DatesKept
  PROVE  EstimatesAgree
<1> SUFFICES ASSUME Delivers, NEW i \in Items, ByDay(i), bulk[i].active
             PROVE  /\ Quiet(i) => /\ CurrentInventory(i).remaining = Estimate(i, Today)
                                   /\ i \in EasyInventory => Estimate(i, Today) <= bulk[i].size
                                   /\ \A c \in counts : c.item = i => Charted(i, c.at - 1) = Estimate(i, Today)
                    /\ \A start \in 1 .. Today :
                         /\ Report(i, start, Today).count = Estimate(i, Today)
                         /\ Quiet(i) => \A c \in counts, p \in counts :
                              c.item = i /\ p \in Previous(c) /\ Day(p.at) >= start =>
                                LostSum(Report(i, start, Today).lost, c.at) = Loss(c, p)
  BY DEF EstimatesAgree, Estimate, LostSum
<1>1. ASSUME Quiet(i)
      PROVE  /\ CurrentInventory(i).remaining = Estimate(i, Today)
             /\ i \in EasyInventory => Estimate(i, Today) <= bulk[i].size
             /\ \A c \in counts : c.item = i => Charted(i, c.at - 1) = Estimate(i, Today)
  <2>1. CurrentInventory(i).remaining = Estimate(i, Today)
    BY <1>1, CurrentIs
  <2>2. i \in EasyInventory => CurrentInventory(i).remaining <= bulk[i].size
    BY DEF EasyInventory
  <2> QED
    BY <1>1, <2>1, <2>2, ChartedIs
<1>2. ASSUME NEW start \in 1 .. Today
      PROVE  /\ Report(i, start, Today).count = Estimate(i, Today)
             /\ Quiet(i) => \A c \in counts, p \in counts :
                  c.item = i /\ p \in Previous(c) /\ Day(p.at) >= start =>
                    LostSum(Report(i, start, Today).lost, c.at) = Loss(c, p)
  <2>1. start \in Int /\ Today \in Int /\ start - 1 <= Today /\ Today \in start - 1 .. Today
    BY TimeFacts
  <2>2. PICK F : IsReport(F, i, start, Today)
    BY <2>1, ReportIs DEF IsReport
  <2>3. Report(i, start, Today) = F[Today] /\ F[Today] \in Valued
    BY <2>1, <2>2 DEF IsReport
  <2>4. F[Today].count = Estimate(i, Today)
    BY <2>1, <2>2, ReportCounts
  <2>5. ASSUME Quiet(i), NEW c \in counts, NEW p \in Previous(c), c.item = i, Day(p.at) >= start
        PROVE  LostSum(F[Today].lost, c.at) = Loss(c, p)
    <3>1. Missing(F[Today].lost, c.at, Loss(c, p))
      BY <2>1, <2>2, <2>5, ReportLosses
    <3>2. F[Today].lost \in Losses
      BY <2>3 DEF Valued
    <3> QED
      BY <3>1, <3>2, MissingSum
  <2> QED
    BY <2>3, <2>4, <2>5
<1> QED
  BY <1>1, <1>2

LEMMA DatesInvariant == Spec => [](TypeInv /\ TablesFinite /\ DatesKept)
<1>1. Init => TypeInv /\ TablesFinite /\ DatesKept
  BY TypeInit, FiniteInit, DatesInit
<1>2. TypeInv /\ TablesFinite /\ DatesKept /\ [Next]_vars => TypeInv' /\ TablesFinite' /\ DatesKept'
  BY TypeStep, FiniteStep, DatesStep
<1> QED
  BY <1>1, <1>2, PTL DEF Spec

(* Four programs that estimate the stock of an item agree, whichever count   *)
(* or day they begin with, and loss_reports finds missing what the report of *)
(* the inventory's value calls shrinkage.                                    *)
THEOREM TheEstimatesAgree == Spec => []EstimatesAgree
<1>1. TypeInv /\ TablesFinite /\ DatesKept => EstimatesAgree
  BY AgreedBy
<1> QED
  BY <1>1, DatesInvariant, PTL
=============================================================================
