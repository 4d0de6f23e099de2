----------------------------- MODULE MCCashOut -----------------------------
(* Two users and two days of the log; what is added to it is a deposit, or a *)
(* transfer and a withdrawal, whose types the cron job does not know or      *)
(* books with the other sign.  To begin with, five transactions: the opening *)
(* of the cash account on day 0, a manual and three more on day 1, one of    *)
(* them automatic and wrong; three cash-outs, of which the second counts the *)
(* soda machine.  An editor may rewrite transactions 1 to 3 and any          *)
(* cash-out, or add one: with the fourth the reports turn to a second page.  *)
EXTENDS CashOut

Row(at, u, ty, n, src) == [at |-> at, user |-> u, type |-> ty, amount |-> n, source |-> src]
Pair(a, b, n) == << [of |-> a, amount |-> n], [of |-> b, amount |-> -n] >>
MCLog0 == << Row(4, "ann", "ADD", 3, "soda"), Row(5, "bea", "BUY", -1, "bob") >>
MCArrivals == { << Row(8, "ann", "ADD", 1, "unknown") >>,
                << Row(8, "ann", "TRANSFER", -2, "bob"), Row(8, "bea", "TRANSFER", 2, "bob"),
                   Row(8, "bea", "WITHDRAW", -2, "bob") >> }
MCHead0 == [id \in {1, 2, 3, 4, 5, 20, 21, 22} |->
              [at |-> CASE id = 1 -> 0 [] id = 20 -> 5 [] id = 21 -> 6 [] id = 22 -> 9 [] OTHER -> 4,
               auto |-> id = 3, name |-> IF id = 3 THEN "deposit" ELSE "manual"]]
MCRows0 == [id \in {1, 2, 3, 4, 5, 20, 21, 22} |->
              CASE id = 1 -> Pair("cash", "bank", 5)
                [] id = 2 -> Pair("cash", "inventory", -1)
                [] id \in 3 .. 5 -> Pair("cash", "deposits", 2)
                [] id = 20 -> << [of |-> "Cash Box", amount |-> 1] >>
                [] id = 21 -> << [of |-> "Soda Machine", amount |-> 2] >>
                [] id = 22 -> << [of |-> "Cash Box", amount |-> 1], [of |-> "To Bank", amount |-> -2] >>]
MCHeads(id) ==
  CASE id \in CashOuts -> { [at |-> 7, auto |-> FALSE, name |-> "manual"] }
    [] id = 3 -> { [at |-> 4, auto |-> TRUE, name |-> "deposit"], [at |-> 8, auto |-> FALSE, name |-> "manual"] }
    [] id \in {4, 5} -> {}
    [] OTHER -> { [at |-> 4, auto |-> id = 6, name |-> "deposit"] }
MCForms(id) ==
  IF id \in CashOuts THEN { << [of |-> "Cash Box", amount |-> 2] >>, MCRows0[22] }
  ELSE { Pair("cash", "bank", 1),
         << [of |-> "", amount |-> 0], [of |-> "deposits", amount |-> 2], [of |-> "cash", amount |-> -1],
            [of |-> "bank", amount |-> -1] >>,
         << [of |-> "cash", amount |-> 1] >> }
MCTexts == {"deposit", "donate", "purchase", "refund", "socialhour", "writeoff", "Cash", "manual",
            "cash", "deposits", "donations", "purchases", "socialDonations", "socialRestricted",
            "bank", "inventory", "collected", "", "Soda Machine", "Cash Box", "To Bank",
            "ADD", "BUY", "TRANSFER", "WITHDRAW", "soda", "bob", "unknown"}
CONSTANTS e1, e2
MCShifts == { [editors |-> {e1, e2}, runs |-> 0], [editors |-> {e1}, runs |-> 1],
              [editors |-> {e2}, runs |-> 1], [editors |-> {}, runs |-> 3] }
Alike == Permutations({e1, e2})
=============================================================================
