--------------------------- MODULE MCSodaMachine ---------------------------
(* Ann and cyd have a password, ann logs out after a purchase, bea has       *)
(* neither; a can and a bag of chips.                                        *)
EXTENDS SodaMachine, TLC

Nothing ==
  [touches |-> <<>>, scans |-> <<>>, bills |-> <<>>, cans |-> <<>>, fingers |-> <<>>, late |-> <<>>,
   cancels |-> 0, levers |-> 0, resets |-> 0, deaths |-> 0, died |-> FALSE]
Typed == <<<<"login">>, <<"type", "ann">>>>
MCPlans ==
  { [Nothing EXCEPT !.cans = <<1>>, !.scans = <<"ann card">>, !.bills = <<100>>],
    [Nothing EXCEPT !.cans = <<1>>, !.scans = <<"bea card", "chips">>, !.bills = <<500>>],
    [Nothing EXCEPT !.cans = <<1, 2>>, !.scans = <<"bea card">>, !.cancels = 1],
    [Nothing EXCEPT !.cans = <<1, 1>>, !.scans = <<"bea card", "bea card">>, !.cancels = 1],
    [Nothing EXCEPT !.cans = <<1, 2>>, !.scans = <<"bea card">>, !.resets = 1],
    [Nothing EXCEPT !.touches = Typed \o <<<<"right">>>>, !.scans = <<"ann card", "chips">>],
    [Nothing EXCEPT !.cans = <<1>>, !.scans = <<"ann card">>, !.deaths = 1],
    [Nothing EXCEPT !.touches = <<<<"learn">>>>, !.bills = <<100>>, !.deaths = 1, !.levers = 1],
    [Nothing EXCEPT !.cans = <<1>>, !.scans = <<"chips">>, !.bills = <<100>>],
    [Nothing EXCEPT !.cans = <<1>>, !.bills = <<100>>, !.deaths = 1, !.late = <<"names", "values">>, !.resets = 1],
    [Nothing EXCEPT !.touches = Typed \o <<<<"wrong">>, <<"right">>, <<"logout">>>>, !.scans = <<"bea card">>, !.bills = <<100>>],
    [Nothing EXCEPT !.touches = Typed \o <<<<"wrong">>, <<"wrong">>, <<"wrong">>, <<"login">>, <<"cancel">>>>],
    [Nothing EXCEPT !.scans = <<"bea card", "ann card">>, !.bills = <<100>>],
    [Nothing EXCEPT !.touches = Typed \o <<<<"type", "bea">>, <<"right">>>>],
    [Nothing EXCEPT !.touches = Typed \o <<<<"type", "cyd">>, <<"right">>, <<"learn">>>>, !.fingers = <<"ann">>],
    [Nothing EXCEPT !.touches = <<<<"learn">>, <<"cancel">>, <<"logout">>>>, !.fingers = <<"bea", "bea">>],
    [Nothing EXCEPT !.touches = Typed \o <<<<"right">>, <<"learn">>, <<"cancel">>>>, !.fingers = <<"bea", "bea">>, !.deaths = 1] }
MCPrice == "coke" :> 63 @@ "chips" :> 72
MCCanCode == <<"coke", "gone">>
MCUserOf == "ann card" :> "ann" @@ "bea card" :> "bea"
MCOpening == "ann" :> 300 @@ "bea" :> 0 @@ "cyd" :> 500 @@ Anonymous :> 0
=============================================================================
