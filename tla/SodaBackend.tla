---------------------------- MODULE SodaBackend ----------------------------
(* The legacy engine of the soda machine: backend.py with its SodaUser, and  *)
(* the message bus it shares with the screen, the database server, the       *)
(* vending and the money controllers, and the fingerprint reader.  One       *)
(* thread handles the messages, another one watches the time.  In cents.     *)
EXTENDS Integers, Sequences, FiniteSets

CONSTANTS
  Users,          \* names, "anonymous" apart
  Price,          \* of each product code
  CanCode,        \* the variables soda1, soda2 ...: which product a button is
  NoCode,
  Threshold       \* escrow_reject_threshold

(* A product's barcode is not empty: with the value of a button's variable    *)
(* missing, the engine asks for None, and the database has no such product.  *)
ASSUME NoCodeAssumption == NoCode \notin DOMAIN Price

(* Prices are whole cents.                                                   *)
ASSUME PricesAssumption == \A code \in DOMAIN Price : Price[code] \in Int

VARIABLES
  bus,        \* what each application has yet to read, in order
  user,       \* current_user
  querytag,   \* of the login asked for last
  tags,       \* genTag: tags given out
  sysvars,    \* what StartUpVL knows: "nothing", "names", "values"
  inLearnMode,
  alive,      \* both threads run
  farewell,   \* what a SodaUser that goes in the main loop has yet to send
  plan,       \* what may happen yet
  past        \* history, see SodaMachine

backend == <<user, querytag, tags, sysvars, inLearnMode, alive, farewell>>

Anonymous == "anonymous"
Apps == {"backend", "gui", "db", "vmc", "cash", "reader"}
NoUser == [login |-> ""]
NoTag == <<"", 0>>
Tag(kind) == <<kind, tags + 1>>

-----------------------------------------------------------------------------
(* servio: a message goes to the applications that watch for it.             *)

Reader(kind) ==
  CASE kind \in {"UI-LOGGEDIN", "UI-LOGGEDOUT", "UI-PASSWORD", "UI-BALANCE", "UI-BOUGHT", "UI-FP-NOTICE"} -> "gui"
    [] kind \in {"BOBDB-QUERYUSER", "BOBDB-QUERYUSERPREF", "BOBDB-QUERYPRODUCT", "BOBDB-PURCHASE", "BOBDB-DEPOSIT"} -> "db"
    [] kind \in {"VEND-APPROVED", "VEND-DENIED", "VEND-SSTART"} -> "vmc"
    [] kind \in {"CASH-ACCEPT", "CASH-REJECT", "CASH-CHANGE"} -> "cash"
    [] kind \in {"FP-LEARN-START", "FP-LEARN-STOP"} -> "reader"
    [] OTHER -> "backend"
For(says, a) ==
  LET upTo[n \in 0 .. Len(says)] ==
        IF n = 0 THEN <<>>
        ELSE IF Reader(says[n][1]) = a THEN Append(upTo[n - 1], says[n]) ELSE upTo[n - 1]
  IN  upTo[Len(says)]
Sent(b, says, up) == [a \in Apps |-> IF a = "backend" /\ ~up THEN <<>> ELSE b[a] \o For(says, a)]
Says(says) == bus' = Sent(bus, says, alive)
Read(a, says) == bus' = Sent([bus EXCEPT ![a] = Tail(@)], says, alive)
Next1(a, kind) == bus[a] # <<>> /\ Head(bus[a])[1] = kind
Quiet == farewell = <<>> /\ \A a \in Apps : bus[a] = <<>>

-----------------------------------------------------------------------------
(* SodaUser.                                                                 *)

NewUser(login, balance) ==
  [login |-> login, balance |-> balance, vend |-> FALSE, barcode |-> FALSE, escrow |-> FALSE,
   item |-> NoCode, should |-> FALSE, tag |-> NoTag, barcodetag |-> NoTag, sid |-> past.sessions + 1]
IsAnon(u) == u.login = Anonymous
LoggedIn(u) ==
  <<<<"UI-LOGGEDIN", u.login, u.balance>>>>
    \o IF IsAnon(u) THEN <<>> ELSE <<<<"BOBDB-QUERYUSERPREF", u.login>>>>
(* Mutant: the bill in escrow goes back, and the balance does not. *)
LoggedOutKept(u) ==
  (IF IsAnon(u) /\ u.balance > 0 THEN <<<<"CASH-REJECT">>>> ELSE <<>>) \o <<<<"UI-LOGGEDOUT">>>>
LoggedOut(u) ==
  (IF IsAnon(u) /\ u.balance > 0 THEN <<<<"CASH-REJECT">>, <<"CASH-CHANGE", u.balance>>>> ELSE <<>>)
    \o <<<<"UI-LOGGEDOUT">>>>
CanLogout(u) == ~(u.vend \/ u.barcode \/ u.escrow)

(* makePurchase.  Who is anonymous pays in steps of five cents, in cash.     *)
PriceFor(u, code) == IF IsAnon(u) THEN ((Price[code] + 4) \div 5) * 5 ELSE Price[code]
Bought(u, code) == [u EXCEPT !.balance = @ - PriceFor(u, code), !.tag = Tag("")]
PurchaseSays(u, code) ==
  LET price == PriceFor(u, code)
  IN  (IF IsAnon(u) THEN <<<<"BOBDB-DEPOSIT", u.login, price>>>> ELSE <<>>)
        \o << <<"BOBDB-PURCHASE", u.login, price>>,
              <<"UI-BALANCE", u.balance - price>>, <<"UI-BOUGHT", u.balance - price>> >>

-----------------------------------------------------------------------------
(* How a handler ends: the message is read and answered, and current_user    *)
(* is what the handler leaves.                                               *)

Message == Head(bus["backend"])
Takes(kind) == alive /\ Next1("backend", kind)
Stays(u, says) == user' = u /\ Read("backend", says) /\ UNCHANGED <<alive, farewell>>
Same == UNCHANGED <<querytag, sysvars, inLearnMode, plan>>
NoTags == UNCHANGED tags /\ Same
NewTag == tags' = tags + 1 /\ Same

(* The session is over, and the object says so as it goes: in the handler,   *)
(* or later, if the main loop is just looking at it and holds it that long.  *)
(* A main loop about to look falls over, and takes the process along.        *)
Owes(u) == IF IsAnon(u) /\ u.balance < 0 THEN -u.balance ELSE 0
Closed(p, u) == [p EXCEPT !.owed = @ + Owes(u), !.mixed = {}]
Over(u) == Closed(past, u)
Departs(u, says) ==
  \/ Read("backend", says \o LoggedOut(u)) /\ UNCHANGED farewell
  \/ farewell = <<>> /\ Read("backend", says) /\ farewell' = LoggedOut(u)
Dies(says) ==
  /\ alive' = FALSE
  /\ bus' = Sent([bus EXCEPT !["backend"] = <<>>], says, FALSE)
  /\ plan' = [plan EXCEPT !.deaths = @ - 1, !.died = TRUE]
Leaves(u, says) ==
  /\ user' = NoUser
  /\ \/ Departs(u, says) /\ alive' = TRUE /\ plan' = plan
     \/ farewell = <<>> /\ plan.deaths > 0 /\ Dies(says \o LoggedOut(u)) /\ UNCHANGED farewell
  /\ UNCHANGED <<querytag, sysvars, inLearnMode>>

(* The session is cut short, by its time or by an error: nobody is there any  *)
(* more, and what there is to say of it is said after that, by the main loop.*)
Cut ==
  /\ user' = NoUser /\ farewell' = farewell \o LoggedOut(user)
  /\ past' = [Over(user) EXCEPT !.cut = @ \cup {user.sid}]
  /\ UNCHANGED <<querytag, tags, sysvars, inLearnMode>>

(* A session begins.  History: on what it rests that others have touched.    *)
Begins(u, says) == Stays(u, LoggedIn(u) \o says)
Began == [past EXCEPT !.sessions = @ + 1, !.mixed = IF farewell = <<>> THEN {} ELSE {"overtaken"}]
BeganBy(answer) == [Began EXCEPT !.mixed = @ \cup IF answer = past.sessions THEN {} ELSE {"stale"}]
Asked == [past EXCEPT !.asked = past.sessions]

-----------------------------------------------------------------------------
(* Logins and logouts.  An answer and what is typed from it carry, for the   *)
(* history, how many sessions there had been when it was asked for.          *)

HandleLogin ==
  /\ Takes("LOGIN")
  /\ \/ user # NoUser /\ Stays(user, <<>>) /\ UNCHANGED past /\ NoTags
     \/ /\ user = NoUser /\ Len(Message) = 4
        /\ Begins(NewUser(Message[2], Message[3]), <<>>)
        /\ past' = BeganBy(Message[4]) /\ NoTags
     \/ /\ user = NoUser /\ Len(Message) = 2
        /\ querytag' = Tag("") /\ tags' = tags + 1
        /\ Stays(user, <<<<"BOBDB-QUERYUSER", Tag(""), Message[2]>>>>) /\ past' = Asked
        /\ UNCHANGED <<sysvars, inLearnMode, plan>>

(* A barcode or a finger asks who that is, unless somebody is there.         *)
Asks(kind, who) ==
  /\ querytag' = Tag(kind) /\ tags' = tags + 1
  /\ Stays(user, <<<<"BOBDB-QUERYUSER", Tag(kind), who>>>>) /\ past' = Asked
  /\ UNCHANGED <<sysvars, inLearnMode, plan>>
HandleFpGoodRead ==
  /\ Takes("FP-GOODREAD")
  /\ \/ user = NoUser /\ Asks("F", Message[2])
     \/ user # NoUser /\ Stays(user, <<>>) /\ UNCHANGED past /\ NoTags

(* The answer.  Nothing here asks whether somebody has come in the meantime: *)
(* that one is replaced, and logs out after the new one has logged in.       *)
HandleBobDBUserInfo ==
  /\ Takes("BOBDB-USERINFO")
  /\ LET login == Message[3]  balance == Message[4]  pw == Message[5]
         right == Message[2] = querytag  asks == querytag[1] = "" /\ pw
         u == NewUser(login, balance)
     IN  \/ ~right /\ Stays(user, <<>>) /\ UNCHANGED past
         \/ right /\ ~asks /\ user = NoUser /\ Begins(u, <<>>) /\ past' = BeganBy(past.asked)
         \/ /\ right /\ ~asks /\ user # NoUser
            /\ user' = u /\ Departs(user, LoggedIn(u)) /\ UNCHANGED alive
            /\ past' = [Over(user) EXCEPT !.sessions = @ + 1, !.cut = @ \cup {user.sid}, !.mixed = {"replaced", "stale"}]
         \/ /\ right /\ asks /\ Stays(user, <<<<"UI-PASSWORD", login, balance, past.asked>>>>)
            /\ past' = IF user = NoUser THEN past ELSE [past EXCEPT !.mixed = @ \cup {"prompted"}]
  /\ NoTags

(* LOGOUT, and the lever for the coins. *)
HandleLogout ==
  /\ Takes("LOGOUT") \/ Takes("CASH-RETURN")
  /\ UNCHANGED tags
  /\ \/ user = NoUser /\ Stays(user, <<>>) /\ UNCHANGED past /\ Same
     \/ user # NoUser /\ CanLogout(user) /\ Leaves(user, <<>>) /\ past' = Over(user)
     \/ user # NoUser /\ ~CanLogout(user) /\ Stays([user EXCEPT !.should = TRUE], <<>>) /\ UNCHANGED past /\ Same

HandleBobDBUserPref ==
  /\ Takes("BOBDB-USERPREF")
  /\ Stays(IF user # NoUser /\ Message[2] THEN [user EXCEPT !.should = TRUE] ELSE user, <<>>)
  /\ UNCHANGED past /\ NoTags

-----------------------------------------------------------------------------
(* Cans.  VEND-REQUEST has the number of the request, for the history.       *)

HandleVendRequest ==
  /\ Takes("VEND-REQUEST")
  /\ \/ user = NoUser /\ Stays(user, <<<<"VEND-DENIED">>>>) /\ UNCHANGED past /\ NoTags
     \/ /\ user # NoUser /\ sysvars # "names"
        /\ LET code == IF sysvars = "values" THEN CanCode[Message[3]] ELSE NoCode
           IN  Stays([user EXCEPT !.vend = TRUE, !.tag = Tag("")], <<<<"BOBDB-QUERYPRODUCT", Tag(""), code>>>>)
        /\ past' = [past EXCEPT !.cans[Message[2]].sid = user.sid]
        /\ NewTag
     \* The name is known and the value is not: the thread dies of a KeyError.
     \/ /\ user # NoUser /\ sysvars = "names" /\ plan.deaths > 0
        /\ Cut /\ Dies(<<>>)

(* readProductInfo: for the can, for what was scanned, or for nothing.       *)
Affords(u, code) == ~IsAnon(u) \/ u.balance >= Price[code]
Pays(u, code) == Bought([u EXCEPT !.barcode = FALSE], code)
ReadCanInfo(code) ==
  /\ IF Affords(user, code)
     THEN Stays([user EXCEPT !.item = code], <<<<"VEND-APPROVED">>>>)
     ELSE Stays([user EXCEPT !.vend = FALSE, !.item = NoCode], <<<<"VEND-DENIED">>>>)
  /\ UNCHANGED past /\ NoTags
ReadScanInfo(code) ==
  LET u == Pays(user, code)  says == PurchaseSays(user, code)
      scanned == [past EXCEPT !.both = @ \/ user.item # NoCode]
  IN  \/ /\ ~Affords(user, code)
         /\ Stays([user EXCEPT !.barcode = FALSE], <<>>) /\ UNCHANGED past /\ NoTags
      \/ /\ Affords(user, code) /\ (IsAnon(u) \/ u.should) /\ CanLogout(u)
         /\ Leaves(u, says) /\ tags' = tags + 1 /\ past' = Closed(scanned, u)
      \/ /\ Affords(user, code) /\ ~((IsAnon(u) \/ u.should) /\ CanLogout(u))
         /\ Stays(u, says) /\ past' = scanned /\ NewTag
IsForCan(tag) == user.vend /\ tag = user.tag
IsForScan(tag) == user.barcode /\ tag = user.barcodetag
HandleBobDBProductInfo ==
  /\ Takes("BOBDB-PRODUCTINFO")
  /\ LET tag == Message[2]  code == Message[3]
     IN  \/ user # NoUser /\ IsForCan(tag) /\ ReadCanInfo(code)
         \/ user # NoUser /\ ~IsForCan(tag) /\ IsForScan(tag) /\ ReadScanInfo(code)
         \/ /\ user # NoUser => ~IsForCan(tag) /\ ~IsForScan(tag)
            /\ Stays(user, <<>>) /\ UNCHANGED past /\ NoTags
HandleBobDBFail ==
  /\ Takes("BOBDB-FAIL")
  /\ LET tag == Message[2]
     IN  Stays(IF user = NoUser THEN user
               ELSE IF IsForCan(tag) THEN [user EXCEPT !.vend = FALSE]
               ELSE IF IsForScan(tag) THEN [user EXCEPT !.barcode = FALSE] ELSE user, <<>>)
  /\ UNCHANGED past /\ NoTags

(* endVendSuccess.  A can whose session is gone is charged to nobody, and    *)
(* one the session has no item for logs the session out.                     *)
Settled(p, n, payers) == [p EXCEPT !.cans[n].settled = TRUE, !.cans[n].paid = @ \cup payers]
(* Mutant: whoever is there pays. *)
HandleVendSuccessTwice ==
  /\ Takes("VEND-SUCCESS")
  /\ LET n == Message[2]
     IN  IF user = NoUser THEN Stays(user, <<>>) /\ past' = Settled(past, n, {}) /\ NoTags
         ELSE LET u == [Bought(user, CanCode[1]) EXCEPT !.vend = FALSE, !.item = NoCode]
              IN  /\ Stays(u, PurchaseSays(user, CanCode[1])) /\ NewTag
                  /\ past' = Settled(past, n, {<<user.sid, CanCode[1]>>})
HandleVendSuccess ==
  /\ Takes("VEND-SUCCESS")
  /\ LET n == Message[2]
         leaves == IsAnon(user) \/ user.should
         u == [Bought(user, user.item) EXCEPT !.vend = FALSE, !.item = NoCode]
         says == PurchaseSays(user, user.item)
     IN  \/ user = NoUser /\ Stays(user, <<>>) /\ past' = Settled(past, n, {}) /\ NoTags
         \/ /\ user # NoUser /\ ~user.vend
            /\ \/ leaves /\ Leaves(user, <<>>) /\ past' = Settled(Over(user), n, {}) /\ UNCHANGED tags
               \/ ~leaves /\ Stays(user, <<>>) /\ past' = Settled(past, n, {}) /\ NoTags
         \/ /\ user # NoUser /\ user.vend /\ user.item = NoCode
            /\ Leaves(user, <<>>) /\ past' = Settled(Over(user), n, {}) /\ UNCHANGED tags
         \/ /\ user # NoUser /\ user.vend /\ user.item # NoCode
            /\ \/ leaves /\ CanLogout(u) /\ Leaves(u, says) /\ tags' = tags + 1
                  /\ past' = Settled(Over(u), n, {<<user.sid, user.item>>})
               \/ ~(leaves /\ CanLogout(u)) /\ Stays(u, says) /\ past' = Settled(past, n, {<<user.sid, user.item>>}) /\ NewTag

(* endVendFail.  Nobody there: the handler fails, and the thread with it.    *)
HandleVendFailed ==
  /\ Takes("VEND-FAILED")
  /\ LET u == [user EXCEPT !.vend = FALSE, !.item = NoCode]
     IN  \/ /\ user = NoUser
            /\ Dies(<<>>)
            /\ UNCHANGED <<user, querytag, tags, sysvars, inLearnMode, farewell, past>>
         \/ user # NoUser /\ IsAnon(u) /\ CanLogout(u) /\ Leaves(u, <<>>) /\ past' = Over(u) /\ UNCHANGED tags
         \/ user # NoUser /\ ~(IsAnon(u) /\ CanLogout(u)) /\ Stays(u, <<>>) /\ UNCHANGED past /\ NoTags

(* VEND-READY, watched twice: a session of the controller follows. *)
HandleVendReady ==
  /\ Takes("VEND-READY")
  /\ Stays(user, <<<<"VEND-SSTART">>>>) /\ UNCHANGED past /\ NoTags

HandleBarCodeScan ==
  /\ Takes("BARCODE-SCAN")
  /\ \/ user = NoUser /\ Asks("B", Message[2])
     \/ /\ user # NoUser
        /\ Stays([user EXCEPT !.barcode = TRUE, !.barcodetag = Tag("B")],
                 <<<<"BOBDB-QUERYPRODUCT", Tag("B"), Message[2]>>>>)
        /\ UNCHANGED past /\ NewTag

-----------------------------------------------------------------------------
(* Money, and fingerprints.                                                  *)

HandleEscrow ==
  /\ Takes("CASH-ESCROW")
  /\ LET amount == Message[2]  anon == [NewUser(Anonymous, 0) EXCEPT !.escrow = TRUE]
     IN  \/ user = NoUser /\ amount >= Threshold /\ Stays(user, <<<<"CASH-REJECT">>>>) /\ UNCHANGED past
         \/ user = NoUser /\ amount = 0 /\ Stays(user, <<>>) /\ UNCHANGED past
         \/ user = NoUser /\ 0 < amount /\ amount < Threshold /\ Begins(anon, <<<<"CASH-ACCEPT">>>>) /\ past' = Began
         \/ user # NoUser /\ Stays([user EXCEPT !.escrow = TRUE], <<<<"CASH-ACCEPT">>>>) /\ UNCHANGED past
  /\ NoTags
Deposited(u, amount) ==
  [u EXCEPT !.escrow = FALSE, !.balance = @ + amount, !.tag = IF IsAnon(u) THEN @ ELSE Tag("")]
DepositSays(u, amount) ==
  (IF IsAnon(u) THEN <<>> ELSE <<<<"BOBDB-DEPOSIT", u.login, amount>>>>) \o <<<<"UI-BALANCE", u.balance + amount>>>>
HandleDeposit ==
  /\ Takes("CASH-DEPOSIT")
  /\ LET amount == Message[2]  anon == NewUser(Anonymous, 0)
     IN  \/ user = NoUser /\ past' = Began
            /\ user' = Deposited(anon, amount) /\ UNCHANGED <<alive, farewell>>
            /\ Read("backend", LoggedIn(anon) \o DepositSays(anon, amount))
         \/ user # NoUser /\ Stays(Deposited(user, amount), DepositSays(user, amount)) /\ UNCHANGED past
  /\ NewTag

HandleLearnStart ==
  /\ Takes("LEARNSTART")
  /\ \/ /\ user # NoUser /\ inLearnMode' = TRUE
        /\ Stays(user, <<<<"FP-LEARN-START", user.login>>>>)
     \/ user = NoUser /\ UNCHANGED inLearnMode /\ Stays(user, <<>>)
  /\ UNCHANGED <<querytag, tags, sysvars, plan, past>>
HandleLearnEnd ==
  /\ Takes("LEARNEND")
  /\ inLearnMode' = IF user = NoUser THEN inLearnMode ELSE FALSE
  /\ Stays(user, <<<<"FP-LEARN-STOP">>>>)
  /\ UNCHANGED <<querytag, tags, sysvars, plan, past>>
HandleFpLearnGood ==
  /\ Takes("FP-LEARN-GOOD")
  /\ \/ /\ user # NoUser /\ inLearnMode /\ inLearnMode' = FALSE
        /\ Stays(user, <<<<"UI-FP-NOTICE", TRUE>>, <<"FP-LEARN-STOP">>>>)
     \/ ~(user # NoUser /\ inLearnMode) /\ UNCHANGED inLearnMode /\ Stays(user, <<>>)
  /\ UNCHANGED <<querytag, tags, sysvars, plan, past>>

(* ServIOVarList: the names of the variables come first, then their values.  *)
HandleSysSet ==
  /\ Takes("SYS-VALUE")
  /\ sysvars' = Message[2]
  /\ Stays(user, <<>>)
  /\ UNCHANGED <<querytag, tags, inLearnMode, plan, past>>

-----------------------------------------------------------------------------
(* The main loop.  The time of a session may be over at any moment, wherever *)
(* its deadline was moved to last, and that ends it whatever is under way.   *)
(* The object goes after that, and sends one message after the other while   *)
(* the other thread handles what comes.                                      *)

TimedOut ==
  /\ alive /\ user # NoUser /\ farewell = <<>>
  /\ Cut /\ UNCHANGED <<bus, alive, plan>>
Goodbye ==
  /\ farewell # <<>> /\ farewell' = Tail(farewell)
  /\ Says(<<Head(farewell)>>)
  /\ UNCHANGED <<user, querytag, tags, sysvars, inLearnMode, alive, plan, past>>

(* The handler has seen that somebody is there, and then the time is over:   *)
(* it uses None, the thread ends, and the main loop leaves when it sees that.*)
Uses ==
  {"LOGOUT", "CASH-RETURN", "VEND-REQUEST", "VEND-SUCCESS", "BOBDB-USERPREF", "BOBDB-PRODUCTINFO",
   "BOBDB-FAIL", "BARCODE-SCAN", "CASH-ESCROW", "CASH-DEPOSIT", "LEARNSTART"}
Overtaken ==
  /\ alive /\ user # NoUser /\ farewell = <<>> /\ plan.deaths > 0
  /\ bus["backend"] # <<>> /\ Message[1] \in Uses
  /\ Cut /\ Dies(<<>>)

(* An operator starts it again: the variables are asked for anew. *)
Restart ==
  /\ ~alive /\ farewell = <<>>
  /\ alive' = TRUE /\ sysvars' = "values" /\ inLearnMode' = FALSE /\ querytag' = NoTag
  /\ bus' = Sent(bus, <<<<"UI-LOGGEDOUT">>>>, TRUE)
  /\ UNCHANGED <<user, tags, farewell, plan, past>>

BackendNext ==
  \/ HandleLogin \/ HandleFpGoodRead \/ HandleBobDBUserInfo \/ HandleLogout \/ HandleBobDBUserPref
  \/ HandleVendRequest \/ HandleBobDBProductInfo \/ HandleBobDBFail \/ HandleVendSuccess \/ HandleVendFailed \/ HandleVendReady
  \/ HandleBarCodeScan \/ HandleEscrow \/ HandleDeposit
  \/ HandleLearnStart \/ HandleLearnEnd \/ HandleFpLearnGood \/ HandleSysSet
  \/ TimedOut \/ Goodbye \/ Overtaken \/ Restart
=============================================================================
