------------------------------ MODULE Watchers ------------------------------
(* The programs that LISTEN for new transactions: the watcher, which writes  *)
(* the wall of shame and announces the cash box, and the stream of crossbar  *)
(* with the coldbrew service behind it.  Each takes the notices in the order *)
(* of the commits, at its own pace, and reads the tables as they then are.   *)
EXTENDS BobApi

CONSTANTS
  Menu,         \* what sodad may book: [user, code, value, cash]
  Reports,      \* of coldbrew: out of order, in order
  WarnLevel,    \* cups of a keg at which its keepers are warned
  Plans, People0, Xacts0, Start, Tokens0

(* The rows have ids of their own, which tell those of the requests from     *)
(* those of others, and none is dated later than Start; the balances agree   *)
(* with the rows at first (admin/consistency_check.sql), but for Opening.    *)
ASSUME WatchersConstants ==
  /\ Plans \subseteq AllPlans /\ Start \in Nat
  /\ \A r \in Requests : r \notin Nat /\ \A x \in Xacts0 : x.id # r
  /\ \A p \in Plans, x \in Xacts0 : x.id \notin 1 .. p.others
  /\ \A row \in Menu : row.user \in Users /\ row.value \in Int
  /\ IsFiniteSet(Xacts0) /\ \A x, y \in Xacts0 : x.id = y.id => x = y
  /\ \A x \in Xacts0 : x.value \in Int /\ x.at \in Int /\ x.at <= Start
  /\ WarnLevel \in Nat
  /\ People0 \in [Users -> Account]
  /\ \A u \in Users : People0[u].balance = Opening[u] + Total({x \in Xacts0 : x.user = u})

VARIABLES
  watcher,   \* [state, at, page, screen, told, posts]: posts of debtors on Slack
  keg,       \* [joined, at, sold]
  seen       \* history: [missed, overlap, disorder, untimely, warned, due]

watching == <<watcher, keg, seen>>
vars == <<bank, api, watching>>

Row(id) == CHOOSE x \in xacts : x.id = id
Pending(from) == {Row(notices[n]) : n \in from + 1 .. Len(notices)}

-----------------------------------------------------------------------------
(* generate_shame_json and regenerate_wall_of_shame.  The page gives the     *)
(* wall's share of what is owed, and cannot be written when nobody owes.     *)

Screen == [high |-> HighDebt(now), delinquent |-> Delinquent(now)]
SomebodyOwes == \E u \in Enabled : people[u].balance < 0
Since(u) == IF people[u].entered # Never THEN people[u].entered ELSE TimeOnWall(u)
Severity(u) ==
  IF \/ people[u].balance <= BigDebt
     \/ Since(u) # Never /\ now - Since(u) >= Days.shame * DayLength
  THEN "error" ELSE "line"
Page == [u \in Debtors |-> Severity(u)]

(* Mutant: the wall changes only when somebody comes onto it or leaves it.   *)
ChangesWallCrossing(x) ==
  (people[x.user].balance < WallDebt) # (people[x.user].balance - x.value < WallDebt)
(* regenerate_wall_of_shame_if_needed takes the balance as it is by now. *)
ChangesWall(x) ==
  people[x.user].balance < WallDebt \/ people[x.user].balance - x.value < WallDebt

(* announce_cashout_if_needed: what came in between the last two emptyings.  *)
Emptyings == SoldAs({Emptied})
LastEmptied == LastOf(Emptyings)
BeforeLast == LastOf(Emptyings \ LastEmptied)
(* Mutant: without the lower bound. *)
CashTakenEver == CashOf({x \in xacts : \E e \in LastEmptied : x.at < e.at})
CashTaken ==
  CashOf({x \in xacts : (\E e \in BeforeLast : x.at > e.at) /\ (\E e \in LastEmptied : x.at < e.at)})

(* delete_slack_messages_if_needed: who leaves the wall is forgiven in public.*)
LeavesWall(x) ==
  people[x.user].balance > WallDebt /\ people[x.user].balance - x.value <= WallDebt

(* handle_transaction: the wall cannot be written when nobody owes, which    *)
(* ends the script before anything else is done.                             *)
Handle ==
  /\ watcher.state = "listening" /\ watcher.at < Len(notices)
  /\ LET x == Row(notices[watcher.at + 1])
         handled == [watcher EXCEPT
           !.at = @ + 1,
           !.told = @ \cup IF x.code = Emptied THEN {[last |-> e.id, cash |-> CashTaken] : e \in LastEmptied} ELSE {},
           !.posts = IF LeavesWall(x) THEN @ \ {x.user} ELSE @]
     IN  \/ /\ ChangesWall(x) /\ SomebodyOwes
            /\ watcher' = [handled EXCEPT !.page = Page, !.screen = Screen]
            /\ seen' = [seen EXCEPT !.missed = {}]
         \/ /\ ChangesWall(x) /\ ~SomebodyOwes
            /\ watcher' = [watcher EXCEPT !.state = "down", !.screen = Screen]
            /\ UNCHANGED seen
         \/ ~ChangesWall(x) /\ watcher' = handled /\ UNCHANGED seen
  /\ UNCHANGED <<bank, api, keg>>

(* The script starts again: it writes the wall once, then begins to listen.  *)
Stop ==
  /\ plan.stops > 0 /\ watcher.state = "listening"
  /\ plan' = [plan EXCEPT !.stops = @ - 1]
  /\ watcher' = [watcher EXCEPT !.state = "down"]
  /\ UNCHANGED <<bank, conn, req, tokens, names, notices, past, keg, seen>>
StartUp ==
  /\ watcher.state = "down" /\ SomebodyOwes
  /\ watcher' = [watcher EXCEPT !.state = "started", !.page = Page, !.screen = Screen]
  /\ seen' = [seen EXCEPT !.missed = {}]
  /\ UNCHANGED <<bank, api, keg>>
Listen ==
  /\ watcher.state = "started"
  /\ watcher' = [watcher EXCEPT !.state = "listening", !.at = Len(notices)]
  /\ UNCHANGED <<bank, api, keg, seen>>

-----------------------------------------------------------------------------
(* The coldbrew service.  It takes the count of the tables when it starts,   *)
(* before it subscribes, and when it is asked; once subscribed, it counts    *)
(* the cups that the stream publishes.                                       *)

Brew(x) == x.code \in Cups \cup Kegs \cup Reports

(* Mutant: a new keg goes on with the count of the old one. *)
AfterEventKeeping(x) == IF x.code \in Cups THEN keg.sold + 1 ELSE keg.sold
AfterEvent(x) == IF x.code \in Cups THEN keg.sold + 1 ELSE IF x.code \in Kegs THEN 0 ELSE keg.sold
(* process_transactions. *)
KegHears ==
  /\ keg.joined /\ keg.at < Len(notices)
  /\ LET x == Row(notices[keg.at + 1])
     IN  /\ keg' = [keg EXCEPT !.at = @ + 1, !.sold = AfterEvent(x)]
         /\ seen' = [seen EXCEPT
              !.overlap = @ /\ x.code \notin Kegs,
              !.warned = (Brew(x) /\ AfterEvent(x) = WarnLevel) \/ (@ /\ x.code \notin Kegs)]
  /\ UNCHANGED <<bank, api, watcher>>

(* get_keg_status needs a keg to tell of. *)
KegStatus ==
  /\ plan.asks > 0 /\ SoldAs(Kegs) # {}
  /\ plan' = [plan EXCEPT !.asks = @ - 1]
  /\ keg' = [keg EXCEPT !.sold = CupsSold]
  /\ seen' = [seen EXCEPT !.overlap = @ \/ \E x \in Pending(keg.at) : Brew(x)]
  /\ UNCHANGED <<bank, conn, req, tokens, names, notices, past, watcher>>
KegRestart ==
  /\ plan.stops > 0
  /\ plan' = [plan EXCEPT !.stops = @ - 1]
  /\ keg' = [keg EXCEPT !.joined = FALSE, !.sold = CupsSold]
  /\ seen' = [seen EXCEPT !.overlap = @ \/ \E x \in Pending(keg.at) : Brew(x), !.warned = @ \/ CupsSold >= WarnLevel]
  /\ UNCHANGED <<bank, conn, req, tokens, names, notices, past, watcher>>
(* onJoin: what the stream has published by then is never heard.             *)
KegJoins ==
  /\ ~keg.joined
  /\ \E n \in keg.at .. Len(notices) :
       /\ keg' = [keg EXCEPT !.joined = TRUE, !.at = n]
       /\ seen' = [seen EXCEPT !.overlap = @ \/ \E m \in keg.at + 1 .. n : Brew(Row(notices[m]))]
  /\ UNCHANGED <<bank, api, watcher>>

-----------------------------------------------------------------------------
(* The whole. *)

(* What is committed: who is missed as nobody listens yet or as the balance  *)
(* comes without its row, whether cups and kegs are not dated in the order   *)
(* in which they are committed, or an emptying of the cash box and what it   *)
(* holds, and what it held.                                                  *)
Behind(S, T) == \E x \in S, y \in T : x # y /\ x.at <= y.at
Noted ==
  LET new == xacts' \ xacts
      emptied == {x \in new : x.code = Emptied}
  IN  seen' = [seen EXCEPT
        !.missed = @ \cup {u \in Users : people'[u] # people[u] /\ (watcher.state = "started" \/ u \notin Buyers(new))},
        !.disorder = \/ @
                     \/ Behind(new \cap SoldAs(Cups)', SoldAs(Kegs)')
                     \/ Behind(new \cap SoldAs(Kegs)', SoldAs(Cups \cup Kegs)'),
        !.untimely = @ \/ Behind(emptied, {x \in xacts' : x.cash \/ x.code = Emptied}),
        !.due = [e \in DOMAIN @ \cup {x.id : x \in emptied} |-> IF e \in DOMAIN @ THEN @[e] ELSE DepositedCash]]
ByApi == ApiNext /\ Noted /\ UNCHANGED <<watcher, keg>>
BySodad ==
  /\ plan.others > 0
  /\ \E row \in Menu : Elsewhere(plan.others, row)
  /\ plan' = [plan EXCEPT !.others = @ - 1]
  /\ Noted
  /\ UNCHANGED <<conn, req, tokens, names, past, watcher, keg>>

Init ==
  /\ ApiInit(Plans, People0, Xacts0, Start, Tokens0)
  /\ watcher = [state |-> "down", at |-> 0, page |-> <<>>, screen |-> Screen, told |-> {}, posts |-> Debtors]
  /\ keg = [joined |-> TRUE, at |-> 0, sold |-> CupsSold]
  /\ seen = [missed |-> {}, overlap |-> FALSE, disorder |-> FALSE, untimely |-> FALSE, warned |-> CupsSold >= WarnLevel, due |-> <<>>]
Next == ByApi \/ BySodad \/ Handle \/ Stop \/ StartUp \/ Listen \/ KegHears \/ KegStatus \/ KegRestart \/ KegJoins
Spec == Init /\ [][Next]_vars

-----------------------------------------------------------------------------
(* Properties.                                                               *)

(* When the watcher has handled every notice, whoever owes more than the     *)
(* wall's debt is on the page, and on the screen if it is a lot: however far *)
(* it was behind, and whatever it reads being later than the notice.  Only   *)
(* who paid or bought before it listened again, or whose balance was booked  *)
(* apart from its row, may be missing.                                       *)
WallCatchesUp ==
  watcher.state = "listening" /\ watcher.at = Len(notices) =>
    \A u \in Enabled \ seen.missed :
      /\ people[u].balance < WallDebt => u \in DOMAIN watcher.page
      /\ u \in HighDebt(now) /\ people[u].balance < WallDebt => u \in watcher.screen.high

(* The count of cups that the service keeps is that of the tables once all   *)
(* that was published has arrived and there is a keg, and its keepers were   *)
(* warned when it came to the level; unless, since the last keg it heard of, *)
(* it was asked or started while cups were under way, which it then counts   *)
(* twice, or cups came between its count and its subscription, which it then *)
(* never hears of; or cups and kegs are not dated in the order of their      *)
(* commits.                                                                  *)
KegAgrees ==
  keg.at = Len(notices) /\ ~seen.overlap /\ ~seen.disorder =>
    (SoldAs(Kegs) # {} => keg.sold = CupsSold) /\ (keg.sold >= WarnLevel => seen.warned)

(* What the watcher announces to have been in the cash box is what the       *)
(* private API said was in it, right before it was last emptied; unless an   *)
(* emptying that the public API books is dated before what came in earlier.  *)
CashAnnounced ==
  ~seen.untimely => \A a \in watcher.told : a.last \in DOMAIN seen.due /\ a.cash = seen.due[a.last]

=============================================================================
