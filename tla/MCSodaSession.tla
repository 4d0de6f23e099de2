--------------------------- MODULE MCSodaSession ---------------------------
(* Instances of SodaSession for TLC. *)
EXTENDS SodaSession, TLC

CONSTANTS e1, e2, e3, e4, u1, u2

FourEvents == {e1, e2, e3, e4}
TwoUsers == {u1, u2}
OneUser == {u1}

Plan(k2, k3, k4, acceptors) ==
  [kinds |-> e1 :> {"login"} @@ e2 :> k2 @@ e3 :> k3 @@ e4 :> k4, acceptors |-> acceptors]

(* Two customers and two vends, with what else users do at the terminal;     *)
(* logins and logouts that overlap, with both acceptors; and a third event   *)
(* among them that keeps the line busy, with the bill acceptor alone.        *)
BusyPlans ==
  {Plan({"login", "logout", "lever"}, {"vend"}, {"vend", "logout", "scan"}, {}),
   Plan({"login", "logout"}, {}, {}, {"coins", "bills"}),
   Plan({"login", "logout"}, {"logout", "coin", "bill"}, {}, {"bills"})}
(* A logout against a vend. *)
RacePlans == {Plan({"logout"}, {"vend"}, {}, {})}
=============================================================================
