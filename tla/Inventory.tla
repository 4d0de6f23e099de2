------------------------------ MODULE Inventory ------------------------------
(* Taking inventory.  People with scanners call the crossbar service         *)
(* chezbob.inventory, of which there are two versions: inventory.py counts   *)
(* in the database, inventory_stage.py in memory until it commits.  Others   *)
(* type counts into Django's page take_inventory.  The service has one       *)
(* connection and serves one call at a time; Django commits each statement.  *)
EXTENDS Stock

CONSTANTS
  Pages,         \* open pages take_inventory
  Desks,         \* requests to the pages of orders
  Boxes,         \* what a scanner adds to a count
  Typed,         \* what somebody types for an item: <<half cases, loose>> or <<>>
  Shifts         \* who comes: records, see Init of Orders

VARIABLES
  shift,     \* the one that came, chosen at the start
  server,    \* the service: [protected, staged, since, broken, calls]
  add,       \* a call of add_to_inventory between its two statements
  page,      \* the state of each page
  said,      \* history: what the service last published of an item
  raced      \* history: days and items whose writers overlapped

counting == <<server, add, page, said, raced>>

(* A count is its cases and its loose units, as consistency_check.sql asks   *)
(* (where a half case is a whole number of units).                           *)
AddsUp(c) == (c.halves * c.size) % 2 = 0 => c.units = (c.halves * c.size) \div 2 + c.loose

(* What was counted before adds up, with one count of an item on a day.      *)
ASSUME InventoryConstants ==
  /\ Boxes \subseteq Int
  /\ Typed \subseteq {<<>>} \cup Nat \X Nat
  /\ \A s \in Shifts :
       /\ s.counted \subseteq CountRows /\ IsFiniteSet(s.counted)
       /\ \A c \in s.counted :
            /\ AddsUp(c)
            /\ \A d \in s.counted : d.item = c.item /\ Day(d.at) = Day(c.at) => d = c

(* Whoever writes a count is a page, an addition or another call.            *)
ASSUME PagesAssumption == "add" \notin Pages /\ "service" \notin Pages

None == -1
Idle == [pc |-> "idle"]
Direct == shift.service = "direct"
(* A count bears the time, or only the date in a table of the older schema.  *)
Stamp(t) == IF shift.keepsTime THEN t ELSE Midnight(Day(t))
RowAt(t, i, n, size) ==
  [at |-> Stamp(t), item |-> i, units |-> n, halves |-> 2 * (n \div size), loose |-> n % size, size |-> size]
HalfEven(n) == IF n % 4 = 3 THEN (n + 1) \div 2 ELSE n \div 2   \* round(n / 2)

(* now() is when the service's transaction began; a read leaves it open.     *)
Began == IF server.since = None THEN now ELSE server.since
ServerDay == Day(Began)
SinceMidnight(i) == {c \in counts : c.item = i /\ c.at >= Midnight(ServerDay)}

(* Whoever else is in the middle of writing the count of an item on a day.   *)
PageWrites(p, d, i) == page[p].pc = "insert" /\ page[p].day = d /\ page[p].item = i
Races(d, S, me) ==
  {<<d, i>> : i \in {i \in S : \/ (\E p \in Pages \ {me} : PageWrites(p, d, i))
                             \/ (me # "add" /\ add # Idle /\ add.item = i /\ ServerDay = d)}}

-----------------------------------------------------------------------------
(* The service.  After an error of the database every later query of the     *)
(* connection fails until a rollback, and no code path asks for one.         *)

MayCall == add = Idle /\ server.calls < shift.calls
Called == [server EXCEPT !.calls = @ + 1]
Tell(i, v) == said' = [j \in DOMAIN said \cup {i} |-> IF j = i THEN v ELSE said[j]]
Forget(S) == said' = [j \in DOMAIN said \ S |-> said[j]]

(* add_to_inventory of inventory.py: whether there is a count today, and the *)
(* insertion of a zero if not, then the update and the commit.               *)
AddLook(i, n) ==
  /\ MayCall /\ Direct /\ ~server.broken /\ i \notin server.protected
  /\ add' = [pc |-> "write", item |-> i, n |-> n, seen |-> CountsOn(i, ServerDay) # {}]
  /\ server' = [Called EXCEPT !.since = Began]
  /\ UNCHANGED <<page, said, raced, stock>>

Added(c, n) == RowAt(server.since, c.item, Larger(c.units + n, 0), c.size)
AddWrite ==
  /\ add # Idle
  /\ LET i == add.item
         found == CountsOn(i, ServerDay)
         all == found \cup (IF add.seen THEN {} ELSE {RowAt(server.since, i, 0, bulk[i].size)})
     IN  /\ IF Cardinality(all) > 1 \/ (~add.seen /\ found # {} /\ ~shift.keepsTime)
            THEN server' = [server EXCEPT !.broken = TRUE] /\ UNCHANGED <<counts, said>>
            ELSE /\ counts' = (counts \ all) \cup {Added(c, add.n) : c \in all}
                 /\ server' = [server EXCEPT !.since = None]
                 /\ \/ all = {} /\ UNCHANGED said
                    \/ \E c \in all : Tell(i, [day |-> ServerDay, units |-> Added(c, add.n).units])
         /\ raced' = raced \cup Races(ServerDay, {i}, "add")
  /\ add' = Idle
  /\ UNCHANGED <<page, now, bulk, orders, lines, sales>>

(* get_inventory_value and get_barcode_details only read, and never commit.  *)
(* In inventory_stage.py reading a value creates a count of zero.            *)
Read(i) ==
  /\ MayCall
  /\ server' = IF Direct THEN [Called EXCEPT !.since = IF server.broken \/ i \in server.protected THEN @ ELSE Began]
               ELSE IF i \in DOMAIN server.staged \cup server.protected THEN Called
               ELSE [Called EXCEPT !.staged = [j \in DOMAIN @ \cup {i} |-> IF j = i THEN 0 ELSE @[j]]]
  /\ UNCHANGED <<add, page, said, raced, stock>>

(* remove_from_inventory: a quote too many makes a query the database        *)
(* refuses.                                                                  *)
RemoveFromInventory(i) ==
  /\ MayCall /\ Direct /\ i \notin server.protected
  /\ server' = [Called EXCEPT !.broken = TRUE, !.since = Began]
  /\ UNCHANGED <<add, page, said, raced, stock>>

(* zero_unprotected: zeros for what is active and neither protected nor      *)
(* counted, one transaction; then reset without an announcement.             *)
ZeroUnprotected ==
  /\ MayCall /\ Direct /\ ~server.broken
  /\ LET S == {i \in Items \ server.protected : bulk[i].active /\ SinceMidnight(i) = {}}
     IN  /\ counts' = counts \cup {RowAt(Began, i, 0, bulk[i].size) : i \in S}
         /\ raced' = raced \cup Races(ServerDay, S, "service")
  /\ server' = [Called EXCEPT !.protected = {}, !.since = None]
  /\ Forget(Items)
  /\ UNCHANGED <<add, page, now, bulk, orders, lines, sales>>

(* add_to_inventory of inventory_stage.py.                                   *)
(* Mutant: the sum is published before it is held at zero. *)
StageAddRaw(i, n) ==
  /\ MayCall /\ ~Direct /\ i \notin server.protected
  /\ LET old == IF i \in DOMAIN server.staged THEN server.staged[i] ELSE 0
     IN  /\ server' = [Called EXCEPT !.staged = [j \in DOMAIN @ \cup {i} |-> IF j = i THEN Larger(old + n, 0) ELSE @[j]]]
         /\ Tell(i, [day |-> Today, units |-> old + n])
  /\ UNCHANGED <<add, page, raced, stock>>
StageAdd(i, n) ==
  /\ MayCall /\ ~Direct /\ i \notin server.protected
  /\ LET old == IF i \in DOMAIN server.staged THEN server.staged[i] ELSE 0
         new == Larger(old + n, 0)
     IN  /\ server' = [Called EXCEPT !.staged = [j \in DOMAIN @ \cup {i} |-> IF j = i THEN new ELSE @[j]]]
         /\ Tell(i, [day |-> Today, units |-> new])
  /\ UNCHANGED <<add, page, raced, stock>>

(* flag_for_no_update drops a staged count; unflag_for_no_update publishes a *)
(* zero whatever is stored, so nobody can rely on it.                        *)
Flag(i) ==
  /\ MayCall
  /\ server' = [Called EXCEPT !.protected = @ \cup {i}, !.staged = [j \in DOMAIN @ \ {i} |-> @[j]]]
  /\ Tell(i, [day |-> Today, units |-> None])
  /\ UNCHANGED <<add, page, raced, stock>>
Unflag(i) ==
  /\ MayCall
  /\ server' = [Called EXCEPT !.protected = @ \ {i}]
  /\ Forget({i})
  /\ UNCHANGED <<add, page, raced, stock>>

(* commit of inventory_stage.py: one transaction.  Zeros for what is active  *)
(* and not counted today, if asked for and if anything was flagged or        *)
(* counted; today's counts of the flagged are deleted, of the counted        *)
(* replaced.                                                                 *)
Commit(setZeros) ==
  /\ MayCall /\ ~Direct
  /\ LET staged == DOMAIN server.staged
         touched == server.protected \cup staged
         blanks == IF setZeros /\ touched # {}
                   THEN {i \in Items \ touched : bulk[i].active /\ SinceMidnight(i) = {}} ELSE {}
         old == UNION {SinceMidnight(i) : i \in touched}
     IN  /\ counts' = (counts \ old) \cup {RowAt(now, i, 0, bulk[i].size) : i \in blanks}
                        \cup {RowAt(now, i, server.staged[i], bulk[i].size) : i \in staged}
         /\ raced' = raced \cup Races(Today, touched \cup blanks, "service")
  /\ server' = [Called EXCEPT !.protected = {}, !.staged = <<>>]
  /\ Forget(Items)
  /\ UNCHANGED <<add, page, now, bulk, orders, lines, sales>>

(* reset with the announcement that makes the clients load again.            *)
Reset ==
  /\ MayCall
  /\ server' = [Called EXCEPT !.protected = {}, !.staged = <<>>]
  /\ Forget(Items)
  /\ UNCHANGED <<add, page, raced, stock>>

-----------------------------------------------------------------------------
(* take_inventory.  The page shows the counts of a day; what is submitted is *)
(* compared with what was shown, and only what was modified is written.      *)

ShownFor(i, d) ==
  IF CountsOn(i, d) = {} THEN <<>> ELSE LET c == CHOOSE c \in CountsOn(i, d) : TRUE IN <<c.halves, c.loose>>
PageOpen(p, d) ==
  /\ page[p].pc = "idle" /\ p \in shift.pages
  /\ page' = [page EXCEPT ![p] = [pc |-> "shown", day |-> d, old |-> [i \in Items |-> ShownFor(i, d)],
                                  size |-> [i \in Items |-> IF CountsOn(i, d) = {} THEN bulk[i].size
                                                            ELSE (CHOOSE c \in CountsOn(i, d) : TRUE).size]]]
  /\ UNCHANGED <<server, add, said, raced, stock>>

Modified(p, form) == {i \in Items : form[i] # page[p].old[i]}
(* The items are numbered as on the page.                                    *)
FirstOnPage(S) == {i \in S : \A j \in S : i <= j}

(* set_inventory deletes the counts of the day and the item ...              *)
PagePost(p, form) ==
  /\ page[p].pc = "shown"
  /\ \E i \in FirstOnPage(Modified(p, form)) :
       /\ counts' = counts \ CountsOn(i, page[p].day)
       /\ raced' = raced \cup Races(page[p].day, {i}, p)
       /\ Forget({i})
       /\ page' = [page EXCEPT ![p] = [pc |-> "insert", day |-> @.day, size |-> @.size, form |-> form, item |-> i]]
  /\ UNCHANGED <<server, add, now, bulk, orders, lines, sales>>

(* ... and inserts the new one, if any.  Its last line calls a function that *)
(* Django 1.11 no longer has, so the request ends after the first item.      *)
(* Mutant: the loose units are not counted. *)
FormRowCases(p, i) ==
  [at |-> Midnight(page[p].day), item |-> i, size |-> page[p].size[i],
   halves |-> page[p].form[i][1], loose |-> page[p].form[i][2],
   units |-> HalfEven(page[p].form[i][1] * page[p].size[i])]
FormRow(p, i) ==
  [at |-> Midnight(page[p].day), item |-> i, size |-> page[p].size[i],
   halves |-> page[p].form[i][1], loose |-> page[p].form[i][2],
   units |-> HalfEven(page[p].form[i][1] * page[p].size[i]) + page[p].form[i][2]]
PageInsert(p) ==
  /\ page[p].pc = "insert"
  /\ LET i == page[p].item
         taken == \E c \in CountsOn(i, page[p].day) : c.at = Midnight(page[p].day)
     IN  /\ counts' = IF page[p].form[i] = <<>> \/ taken THEN counts ELSE counts \cup {FormRow(p, i)}
         /\ raced' = raced \cup Races(page[p].day, {i}, p)
  /\ page' = [page EXCEPT ![p] = [pc |-> "done"]]
  /\ UNCHANGED <<server, add, said, now, bulk, orders, lines, sales>>

InventoryNext ==
  \/ \E i \in Items, n \in Boxes : AddLook(i, n) \/ StageAdd(i, n)
  \/ \E i \in Items : Read(i) \/ RemoveFromInventory(i) \/ Flag(i) \/ Unflag(i)
  \/ AddWrite \/ ZeroUnprotected \/ Reset
  \/ \E b \in BOOLEAN : Commit(b)
  \/ \E p \in Pages : (\E d \in {Today - 1, Today} : PageOpen(p, d)) \/ PageInsert(p)
                        \/ (\E form \in [Items -> Typed] : PagePost(p, form))

-----------------------------------------------------------------------------
(* Properties.                                                               *)

InventoryTypeOK ==
  /\ \A c \in counts : c.item \in Items /\ c.at \in 0 .. now /\ c.units \in Nat /\ c.loose \in Nat /\ c.size \in Nat \ {0}
  /\ server.protected \subseteq Items /\ DOMAIN server.staged \subseteq Items \ server.protected
  /\ server.since \in {None} \cup 0 .. now
  /\ add # Idle => Direct /\ server.since # None
  /\ \A p \in Pages : page[p].pc \in {"idle", "shown", "insert", "done"}

(* Every count adds up, whichever program wrote it, and there is one of an   *)
(* item on a day unless two writers of it overlapped.                        *)
CountsSound ==
  \A c \in counts :
    /\ AddsUp(c)
    /\ <<Day(c.at), c.item>> \notin raced => CountsOn(c.item, Day(c.at)) = {c}

(* What the service last published of an item is still so: the count it gave *)
(* stands, in the table or staged, and what it called flagged is flagged -   *)
(* until a page writes the same count.                                       *)
PublishedStands ==
  \A i \in DOMAIN said :
    IF said[i].units = None THEN i \in server.protected
    ELSE IF ~Direct THEN i \in DOMAIN server.staged /\ server.staged[i] = said[i].units
    ELSE \/ <<said[i].day, i>> \in raced
         \/ \E c \in CountsOn(i, said[i].day) : c.units = said[i].units

=============================================================================
