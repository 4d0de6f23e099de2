---------------------------- MODULE SodaMachine ----------------------------
(* The legacy soda machine as a whole: its engine and its screen, with the   *)
(* database server, the vending and the money controllers, the fingerprint   *)
(* reader and the customers around them.                                     *)
EXTENDS SodaUI

CONSTANTS
  Plans,        \* what customers and devices may do
  UserOf,       \* whose a barcode is
  HasPassword, AutoLogout, Opening

(* Nobody goes by the name of the account that anonymous purchases are       *)
(* booked on, and a barcode that is a person's is some user's.               *)
ASSUME NamesAssumption == Anonymous \notin Users /\ \A code \in DOMAIN UserOf : UserOf[code] \in Users

(* What the changer and the bill reader take is worth a multiple of five     *)
(* cents, and the changer gives no less than that back, which is why the     *)
(* engine rounds what somebody anonymous pays up to it.                      *)
ASSUME PlansAssumption ==
  \A p \in Plans :
    {"bills", "died"} \subseteq DOMAIN p /\ p.bills \in Seq({m \in Nat : m % 5 = 0}) /\ p.died \in BOOLEAN

VARIABLES
  vending,   \* the vending controller: [state, n]
  escrow,    \* of the money controller
  accounts,  \* of the database
  reader     \* whose finger is learned, or ""

everything == <<bus, backend, gui, vending, escrow, accounts, reader, plan, past>>
outside == <<vending, escrow, accounts, reader>>

-----------------------------------------------------------------------------
(* bobdb-serv.pl.                                                            *)

Query == Head(bus["db"])
Known(who) == IF who \in Users THEN who ELSE IF who \in DOMAIN UserOf THEN UserOf[who] ELSE ""
QueryUser ==
  /\ Next1("db", "BOBDB-QUERYUSER")
  /\ LET name == Known(Query[3])
     IN  Read("db", IF name = "" THEN <<<<"BOBDB-FAIL", Query[2]>>>>
                    ELSE <<<<"BOBDB-USERINFO", Query[2], name, accounts[name], name \in HasPassword>>>>)
  /\ UNCHANGED <<accounts, past>>
QueryUserPref ==
  /\ Next1("db", "BOBDB-QUERYUSERPREF")
  /\ Read("db", <<<<"BOBDB-USERPREF", Query[2] \in AutoLogout>>>>)
  /\ UNCHANGED <<accounts, past>>
QueryProduct ==
  /\ Next1("db", "BOBDB-QUERYPRODUCT")
  /\ Read("db", IF Query[3] \in DOMAIN Price THEN <<<<"BOBDB-PRODUCTINFO", Query[2], Query[3]>>>>
                ELSE <<<<"BOBDB-FAIL", Query[2]>>>>)
  /\ UNCHANGED <<accounts, past>>
DbPurchase ==
  /\ Next1("db", "BOBDB-PURCHASE")
  /\ Read("db", <<>>)
  /\ accounts' = [accounts EXCEPT ![Query[2]] = @ - Query[3]]
  /\ past' = IF Query[2] = Anonymous THEN [past EXCEPT !.bought = @ + Query[3]] ELSE past
DbDeposit ==
  /\ Next1("db", "BOBDB-DEPOSIT")
  /\ Read("db", <<>>)
  /\ accounts' = [accounts EXCEPT ![Query[2]] = @ + Query[3]]
  /\ past' = IF Query[2] = Anonymous THEN past ELSE [past EXCEPT !.credited = @ + Query[3]]
BobDb == (QueryUser \/ QueryUserPref \/ QueryProduct \/ DbPurchase \/ DbDeposit) /\ UNCHANGED <<vending, escrow, reader, plan>>

-----------------------------------------------------------------------------
(* The vending controller.  A customer may give up before the answer, or a   *)
(* reset may come, which nobody is told.                                     *)

Button ==
  /\ vending.state = "session" /\ plan.cans # <<>>
  /\ LET n == Len(past.cans) + 1  button == Head(plan.cans)
     IN  /\ vending' = [state |-> "confirm", n |-> n]
         /\ Says(<<<<"VEND-REQUEST", n, button>>>>)
         /\ past' = [past EXCEPT !.cans = Append(@, [code |-> CanCode[button], sid |-> 0, dropped |-> FALSE, settled |-> FALSE, paid |-> {}])]
  /\ plan' = [plan EXCEPT !.cans = Tail(@)]
VmcReads ==
  /\ bus["vmc"] # <<>> /\ Read("vmc", <<>>)
  /\ LET kind == Head(bus["vmc"])[1]
     IN  vending' = [vending EXCEPT !.state =
           IF kind = "VEND-SSTART" /\ @ = "off" THEN "session"
           ELSE IF @ # "confirm" THEN @
           ELSE IF kind = "VEND-APPROVED" THEN "dispense" ELSE IF kind = "VEND-DENIED" THEN "session" ELSE @]
  /\ UNCHANGED <<plan, past>>
Dispense ==
  /\ vending.state = "dispense" /\ vending' = [vending EXCEPT !.state = "session"]
  /\ \/ Says(<<<<"VEND-SUCCESS", vending.n>>>>) /\ past' = [past EXCEPT !.cans[vending.n].dropped = TRUE]
     \/ Says(<<<<"VEND-FAILED">>>>) /\ past' = past
  /\ UNCHANGED plan
CancelVend ==
  /\ vending.state = "confirm" /\ plan.cancels > 0
  /\ vending' = [vending EXCEPT !.state = "session"]
  /\ plan' = [plan EXCEPT !.cancels = @ - 1]
  /\ past' = [past EXCEPT !.gaveup = TRUE]
  /\ UNCHANGED bus
Reset ==
  /\ plan.resets > 0 /\ vending' = [vending EXCEPT !.state = "off"]
  /\ plan' = [plan EXCEPT !.resets = @ - 1]
  /\ Says(<<<<"VEND-READY">>>>) /\ past' = [past EXCEPT !.gaveup = @ \/ vending.state = "confirm"]
Vmc == (Button \/ VmcReads \/ Dispense \/ CancelVend \/ Reset) /\ UNCHANGED <<escrow, accounts, reader>>

-----------------------------------------------------------------------------
(* The money controller.                                                     *)

Insert ==
  /\ plan.bills # <<>> /\ escrow = 0
  /\ escrow' = Head(plan.bills) /\ plan' = [plan EXCEPT !.bills = Tail(@)]
  /\ past' = [past EXCEPT !.inserted = @ + Head(plan.bills)]
  /\ Says(<<<<"CASH-ESCROW", Head(plan.bills)>>>>)
CashReads ==
  /\ bus["cash"] # <<>>
  /\ LET kind == Head(bus["cash"])[1]
         given == IF kind = "CASH-CHANGE" THEN Head(bus["cash"])[2]
                  ELSE IF kind = "CASH-REJECT" THEN escrow ELSE 0
     IN  /\ past' = [past EXCEPT !.returned = @ + given]
         /\ escrow' = IF kind = "CASH-CHANGE" THEN escrow ELSE 0
         /\ Read("cash", IF escrow = 0 \/ kind = "CASH-CHANGE" THEN <<>>
                         ELSE IF kind = "CASH-REJECT" THEN <<<<"CASH-ESCROW", 0>>>>
                         ELSE <<<<"CASH-ESCROW", 0>>, <<"CASH-DEPOSIT", escrow>>>>)
  /\ UNCHANGED plan
Lever ==
  /\ plan.levers > 0 /\ plan' = [plan EXCEPT !.levers = @ - 1]
  /\ Says(<<<<"CASH-RETURN">>>>) /\ UNCHANGED <<escrow, past>>
Money == (Insert \/ CashReads \/ Lever) /\ UNCHANGED <<vending, accounts, reader>>

-----------------------------------------------------------------------------
(* The scanners, and the variables that the controller of the bus sends.     *)

Scan ==
  /\ plan.scans # <<>> /\ plan' = [plan EXCEPT !.scans = Tail(@)]
  /\ Says(<<<<"BARCODE-SCAN", Head(plan.scans)>>>>) /\ UNCHANGED reader
Finger ==
  /\ plan.fingers # <<>> /\ plan' = [plan EXCEPT !.fingers = Tail(@)]
  /\ Says(IF reader = "" THEN <<<<"FP-GOODREAD", Head(plan.fingers)>>>> ELSE <<<<"FP-LEARN-GOOD">>>>)
  /\ UNCHANGED reader
ReaderReads ==
  /\ bus["reader"] # <<>> /\ Read("reader", <<>>)
  /\ reader' = IF Head(bus["reader"])[1] = "FP-LEARN-START" THEN Head(bus["reader"])[2] ELSE ""
  /\ UNCHANGED plan
SendsVars ==
  /\ plan.late # <<>> /\ plan' = [plan EXCEPT !.late = Tail(@)]
  /\ Says(<<<<"SYS-VALUE", Head(plan.late)>>>>) /\ UNCHANGED reader
Devices == (Scan \/ Finger \/ ReaderReads \/ SendsVars) /\ UNCHANGED <<vending, escrow, accounts, past>>

-----------------------------------------------------------------------------

MachineInit ==
  /\ plan \in Plans
  /\ bus = [a \in Apps |-> <<>>]
  /\ user = NoUser /\ querytag = NoTag /\ tags = 0 /\ inLearnMode = FALSE /\ alive = TRUE /\ farewell = <<>>
  /\ sysvars = IF plan.late = <<>> THEN "values" ELSE "nothing"
  /\ gui = GuiInit /\ vending = [state |-> "session", n |-> 0] /\ escrow = 0 /\ reader = ""
  /\ accounts = Opening
  /\ past = [sessions |-> 0, asked |-> 0, cans |-> <<>>, cut |-> {}, mixed |-> {}, both |-> FALSE, gaveup |-> FALSE,
             inserted |-> 0, returned |-> 0, credited |-> 0, bought |-> 0, owed |-> 0]
Engine == BackendNext /\ UNCHANGED <<gui, outside>>
Screen == (OnTouch \/ OnEvent) /\ UNCHANGED <<backend, outside, past>>
Around == (BobDb \/ Vmc \/ Money \/ Devices) /\ UNCHANGED <<backend, gui>>
MachineNext == Engine \/ Screen \/ Around
MachineSpec == MachineInit /\ [][MachineNext]_everything

-----------------------------------------------------------------------------
(* Properties.                                                               *)

Shows == gui.state \in {"purchase", "learn"}

(* A can is charged to no session but the one that asked for it, whoever is  *)
(* logged in when it drops.  It is charged at the price of what was asked    *)
(* for, and stays free only when its session was cut short: by its time, by  *)
(* somebody's login, or by the end of the process.  A request that was given *)
(* up, by its customer or by a reset of the controller, breaks that, for its *)
(* approval may be taken for the next one.                                   *)
CansPaid ==
  \A n \in DOMAIN past.cans :
    LET can == past.cans[n]
    IN  /\ \A payment \in can.paid : can.dropped /\ payment[1] = can.sid
        /\ ~past.gaveup =>
             /\ can.paid \subseteq {<<can.sid, can.code>>}
             /\ can.settled /\ can.paid = {} => can.sid \in past.cut

(* Once everything is delivered, what was inserted is in escrow, in the      *)
(* accounts, paid for purchases, given back, or the balance of who is there. *)
(* The engine gives away more than that only to somebody anonymous who has   *)
(* bought by barcode while a can was approved on the same balance.           *)
CashKept ==
  /\ Quiet /\ ~plan.died =>
       past.inserted + past.owed =
         escrow + past.returned + past.credited + past.bought + IF user # NoUser /\ IsAnon(user) THEN user.balance ELSE 0
  /\ past.owed > 0 => past.both

(* Once everything is delivered, a screen that shows a customer shows the     *)
(* one that the engine serves, with the engine's balance, unless a password  *)
(* was asked for in between.  It shows one whenever somebody is served, but  *)
(* for a session that began over another one, or while the goodbye of the    *)
(* last one was still to come: and then the next one is shown again.  The    *)
(* engine's balance is the database's unless it was asked for before another *)
(* session began, and the reader learns fingers only while the screen says   *)
(* so.                                                                       *)
ScreenAgrees ==
  Quiet /\ ~plan.died =>
    /\ Shows /\ "prompted" \notin past.mixed =>
         /\ user # NoUser /\ gui.user = user.login
         /\ gui.state = "purchase" => gui.shown = [user |-> user.login, balance |-> user.balance]
    /\ user # NoUser /\ past.mixed \cap {"replaced", "overtaken", "prompted"} = {} => Shows
    /\ user # NoUser /\ ~IsAnon(user) /\ "stale" \notin past.mixed => user.balance = accounts[user.login]
    /\ reader # "" => gui.state = "learn"

=============================================================================
