------------------------------ MODULE MCOrders ------------------------------
(* Two items on day 3.  On day 1 the first order came and things were sold;  *)
(* the second order is due today.  The first item was counted on days 0 and  *)
(* 2, or only in the afternoon of day 2, or not at all.                      *)
EXTENDS Orders

MCBulk0 == << [price |-> 6, taxed |-> TRUE, size |-> 3, active |-> TRUE, reserve |-> 1],
              [price |-> 4, taxed |-> FALSE, size |-> 2, active |-> TRUE, reserve |-> 0] >>
Count(at, i, n, size) == [at |-> at, item |-> i, units |-> n, halves |-> 2 * (n \div size), loose |-> n % size, size |-> size]
Twice == {Count(0, 1, 4, 3), Count(4, 1, 3, 3)}
Timed == {Count(5, 1, 2, 3), Count(4, 2, 1, 2)}
MCOrders0 == << [day |-> 1, amount |-> 10], [day |-> 3, amount |-> 20] >>
Line(o, i, size, n, cost, scanned) ==
  [order |-> o, item |-> i, size |-> size, number |-> n, cost |-> cost, taxed |-> TRUE, scanned |-> scanned]
MCLines0 == << Line(1, 1, 3, 1, 5, 1), Line(2, 1, 3, 2, 6, 0), Line(2, 2, 2, 1, 4, NotScanned) >>
MCSales0 == { [id |-> 1, at |-> 2, item |-> 1], [id |-> 2, at |-> 3, item |-> 1],
              [id |-> 3, at |-> 3, item |-> 1], [id |-> 4, at |-> 3, item |-> 2] }
MCBoxes == {2, -1}
MCTyped == { <<>>, <<3, 1>>, <<2, 0>> }
MCEdits ==
  { [kind |-> "line", order |-> 2, line |-> 2, number |-> 1, size |-> 3, cost |-> 7],
    [kind |-> "form", order |-> 2, line |-> 2], [kind |-> "delete", order |-> 2, line |-> 3],
    [kind |-> "new", order |-> 2, item |-> 2, number |-> 1],
    [kind |-> "price", order |-> 2, item |-> 1, price |-> 7, taxed |-> FALSE],
    [kind |-> "size", order |-> 2, item |-> 1, size |-> 2],
    [kind |-> "details", order |-> 2, day |-> 4, amount |-> 20], [kind |-> "finance", order |-> 2],
    [kind |-> "order", day |-> 3, amount |-> 5] }
CONSTANTS p1, p2, r1, r2
Came(keepsTime, service, calls, pages, scans, desks, ticks, counted, sells) ==
  [keepsTime |-> keepsTime, service |-> service, calls |-> calls, pages |-> pages,
   scans |-> scans, desks |-> desks, ticks |-> ticks, counted |-> counted, sells |-> sells]
MCShifts ==
  { Came(TRUE, "direct", 3, {}, 0, {}, 2, {}, 0), Came(TRUE, "direct", 2, {p1}, 0, {}, 1, Timed, 0),
    Came(FALSE, "direct", 1, {p1}, 0, {}, 1, {}, 0),
    Came(TRUE, "stage", 3, {}, 0, {}, 0, Timed, 0), Came(FALSE, "stage", 2, {p1}, 0, {}, 0, {}, 0),
    Came(TRUE, "stage", 0, {p1, p2}, 0, {}, 0, Twice, 0),
    Came(TRUE, "stage", 0, {}, 3, {r1}, 2, Twice, 0), Came(TRUE, "stage", 0, {}, 1, {r1, r2}, 0, {}, 0),
    Came(TRUE, "stage", 0, {p1}, 0, {r1}, 2, Twice, 2) }
Alike == Permutations({p1, p2}) \cup Permutations({r1, r2})
=============================================================================
