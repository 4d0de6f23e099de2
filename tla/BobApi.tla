------------------------------- MODULE BobApi -------------------------------
(* The processes that share the code of the private API: the credit card API *)
(* and the public API.  Each has one connection to the database, used by all *)
(* of its requests: the first statement opens a transaction, any commit or   *)
(* rollback ends it with whatever is in it.  Amounts are in cents.           *)
EXTENDS Bank

CONSTANTS
  Requests, Procs,
  NoJob,             \* a request that never comes
  ShorterOf,         \* what a barcode is tried as next: EAN to UPC-A, UPC-E
  Listed, Prices,    \* dynamic_barcode_lookup: codes, and what they may cost
  TokenLife,         \* of a login by barcode
  Opening            \* balances apart from the rows of transactions

(* What a request asks for: the page of the credit card API sends a credit   *)
(* between $1 and $500.                                                      *)
Barcodes == DOMAIN ShorterOf
Jobs ==
  [kind : {"deposit"}, proc : Procs, user : Users, code : {NoCode}, credit : Nat, charged : Int]
    \cup [kind : {"buy"}, proc : Procs, user : Users, code : Barcodes]
    \cup [kind : {"login", "renew", "stats", "look"}, proc : Procs, user : Users, code : {NoCode}]
AllPlans ==
  [jobs : [Requests -> Jobs \cup {NoJob}], threads : SUBSET Procs,
   ticks : Nat, drops : Nat, renames : Nat, others : Nat, asks : Nat, stops : Nat]

ASSUME ApiConstants ==
  /\ ShorterOf \in [Barcodes -> Barcodes \cup {NoCode}] /\ Codes \subseteq Barcodes
  /\ Prices \subseteq Nat
  /\ IsFiniteSet(Requests) /\ Opening \in [Users -> Int]

VARIABLES
  plan,     \* chosen at first: [jobs, threads, ticks, drops, renames, others, asks, stops]
  conn,     \* of each process: [up, began, writes, left]
  req,      \* of each request: [pc, answer, code, value]
  tokens,   \* until when each user may buy
  names,    \* users still known by the name of the request
  notices,  \* ids of rows committed, as NOTIFY will deliver them
  past      \* history: of each request [asked, kept, cut, late, charged, worth]

api == <<plan, conn, req, tokens, names, notices, past>>

Job(r) == plan.jobs[r]
Proc(r) == Job(r).proc
Conn(r) == conn[Proc(r)]
At(r, pc) == Job(r) # NoJob /\ req[r].pc = pc
Alone(r) == {s \in Requests : Job(s) # NoJob /\ Proc(s) = Proc(r) /\ req[s].pc \notin {"new", "end"}} \subseteq {r}
MayRun(r) == Proc(r) \in plan.threads \/ Alone(r)

Opened(c) == [c EXCEPT !.began = IF @ = Never THEN now ELSE @]
Closed(c) == [c EXCEPT !.began = Never, !.writes = <<>>, !.left = {}]
LeftOpen(r, by) == [Opened(Conn(r)) EXCEPT !.left = @ \cup {by}]
Write(r, what, value) ==
  [Opened(Conn(r)) EXCEPT !.writes = Append(@, [what |-> what, user |-> Job(r).user, value |-> value, code |-> req[r].code, by |-> r])]
Goes(r, pc) == req' = [req EXCEPT ![r].pc = pc]
Answers(r, answer) == req' = [req EXCEPT ![r].pc = "end", ![r].answer = answer]
Using(r, c) == conn' = [conn EXCEPT ![Proc(r)] = c]
Keep == UNCHANGED <<bank, plan, tokens, names, notices>>

(* Requests whose process loses what they may have written. *)
Running(p) == {r \in Requests : Job(r) # NoJob /\ Proc(r) = p /\ req[r].pc \notin {"new", "end"}}
CutShort(S) == past' = [r \in Requests |-> [past[r] EXCEPT !.cut = @ \/ r \in S]]

(* Both updates of a user wait for the one that came first. *)
Holds(p, u) == \E n \in DOMAIN conn[p].writes : conn[p].writes[n].what = "balance" /\ conn[p].writes[n].user = u
Locked(r) == \E p \in Procs \ {Proc(r)} : Holds(p, Job(r).user)

-----------------------------------------------------------------------------
(* commit: everything on the connection, in its order, dated when it began.  *)

RowsOf(w, at) ==
  {[id |-> w[n].by, at |-> at, user |-> w[n].user, value |-> w[n].value, code |-> w[n].code, cash |-> FALSE] :
     n \in {n \in DOMAIN w : w[n].what = "row"}}
SumFor(w, u) == Sum({n \in DOMAIN w : w[n].what = "balance" /\ w[n].user = u}, LAMBDA n : w[n].value)
Commit(r, c) ==
  LET w == c.writes
      inserted == Kept(w, {x \in ToSet(w) : x.what = "row"})
      late == past[r].late \cup c.left
  IN  /\ people' = [u \in Users |-> IF \E n \in DOMAIN w : w[n].what = "balance" /\ w[n].user = u
                                    THEN Moved(u, SumFor(w, u), NoCode, c.began) ELSE people[u]]
      /\ xacts' = xacts \cup RowsOf(w, c.began)
      /\ notices' = notices \o [n \in DOMAIN inserted |-> inserted[n].by]
      /\ past' = [s \in Requests |->
           [past[s] EXCEPT !.kept = @ \cup {w[n].what : n \in {n \in DOMAIN w : w[n].by = s}},
                           !.late = IF s = r THEN late ELSE @]]
      /\ Using(r, Closed(c))
      /\ UNCHANGED <<now, plan, names>>

(* A statement on a connection that is gone fails, and the request with it.  *)
Fail(r) ==
  /\ Job(r) # NoJob /\ req[r].pc \notin {"new", "charge", "end"} /\ ~Conn(r).up
  /\ Answers(r, "crash")
  /\ UNCHANGED <<conn, past>> /\ Keep

Begin(r, answer) ==
  /\ At(r, "new") /\ MayRun(r)
  /\ past' = [past EXCEPT ![r].asked = now]
  /\ IF answer = "go" THEN Goes(r, "look") ELSE Answers(r, answer)
  /\ UNCHANGED conn /\ Keep

-----------------------------------------------------------------------------
(* The credit card API: deposit.                                             *)

(* round((credit + 30) / .971), to a cent. *)
ChargeFor(credit) == (2000 * (credit + 30) + 971) \div 1942
(* Mutant: the card is charged before the name is looked up. *)
BeginDepositUnchecked(r) ==
  /\ Job(r).kind = "deposit" /\ At(r, "new") /\ MayRun(r)
  /\ past' = [past EXCEPT ![r].asked = now]
  /\ Goes(r, "charge")
  /\ UNCHANGED conn /\ Keep
BeginDeposit(r) ==
  /\ Job(r).kind = "deposit"
  /\ Begin(r, IF Job(r).charged - ChargeFor(Job(r).credit) \in -1 .. 1 THEN "go" ELSE "invalid")

(* is_valid_username opens a transaction and nothing ends it. *)
LookDeposit(r) ==
  /\ At(r, "look") /\ Job(r).kind = "deposit" /\ Conn(r).up
  /\ IF Job(r).user \in names
     THEN Goes(r, "charge") /\ Using(r, Opened(Conn(r)))
     ELSE Answers(r, "invalid") /\ Using(r, LeftOpen(r, "refused"))
  /\ UNCHANGED past /\ Keep

(* Stripe takes the money or declines.  Any other error of its, a time-out   *)
(* of the connection after the charge among them, ends the request.          *)
Charge(r) ==
  /\ At(r, "charge")
  /\ \E taken \in BOOLEAN :
       /\ past' = [past EXCEPT ![r].charged = taken]
       /\ \/ taken /\ Goes(r, "userid") /\ UNCHANGED conn
          \/ \E answer \in IF taken THEN {"unknown"} ELSE {"unknown", "declined"} :
               /\ Answers(r, answer)
               /\ Using(r, IF Conn(r).began = Never THEN Conn(r) ELSE LeftOpen(r, "refused"))
  /\ Keep

(* make_deposit.  What it raises is not the exception that the caller names, *)
(* for an instance of BobApi has no InvalidOperationException: the name      *)
(* itself fails, and the request ends without its message.                   *)
GetUserid(r) ==
  /\ At(r, "userid") /\ Conn(r).up
  /\ IF Job(r).credit < 0 \/ Job(r).user \notin names
     THEN Answers(r, "crash") /\ Using(r, LeftOpen(r, "refused"))
     ELSE Goes(r, "update") /\ Using(r, Opened(Conn(r)))
  /\ UNCHANGED past /\ Keep
UpdateDeposit(r) ==
  /\ At(r, "update") /\ Job(r).kind = "deposit" /\ Conn(r).up /\ ~Locked(r)
  /\ Using(r, Write(r, "balance", Job(r).credit))
  /\ past' = [past EXCEPT ![r].worth = Job(r).credit]
  /\ Goes(r, "insert") /\ Keep
InsertDeposit(r) ==
  /\ At(r, "insert") /\ Job(r).kind = "deposit" /\ Conn(r).up
  /\ Using(r, Write(r, "row", Job(r).credit))
  /\ Goes(r, "commit")
  /\ UNCHANGED past /\ Keep

Committed(r) ==
  /\ At(r, "commit") /\ Conn(r).up
  /\ Commit(r, Conn(r)) /\ Answers(r, "success")
  /\ UNCHANGED tokens

-----------------------------------------------------------------------------
(* The public API: logins by barcode, and purchases.                         *)

ValidToken(u) == tokens[u] # Never /\ now <= tokens[u]
NewToken(r) == tokens' = [tokens EXCEPT ![Job(r).user] = now + TokenLife]

(* authenticate_from_bc, and renew_token for who has a valid one. *)
Authenticate(r) ==
  /\ Job(r).kind = "login" /\ At(r, "new") /\ MayRun(r) /\ Conn(r).up
  /\ Commit(r, Opened(Conn(r)))
  /\ Answers(r, "success") /\ NewToken(r)
Renew(r) ==
  /\ Job(r).kind = "renew" /\ At(r, "new") /\ MayRun(r)
  /\ \/ ValidToken(Job(r).user) /\ Answers(r, "success") /\ NewToken(r)
     \/ ~ValidToken(Job(r).user) /\ Answers(r, "invalid") /\ UNCHANGED tokens
  /\ UNCHANGED <<bank, plan, conn, names, notices, past>>

BeginBuy(r) ==
  /\ Job(r).kind = "buy"
  /\ Begin(r, IF ValidToken(Job(r).user) THEN "go" ELSE "invalid")

(* An error is tried again with the shorter barcode, if there is one.        *)
Refuse(r) ==
  IF ShorterOf[req[r].code] # NoCode
  THEN req' = [req EXCEPT ![r].pc = "look", ![r].code = ShorterOf[@]]
  ELSE Answers(r, "error")

(* is_valid_userid and is_valid_product_barcode. *)
LookBuy(r) ==
  /\ At(r, "look") /\ Job(r).kind = "buy" /\ Conn(r).up
  /\ IF req[r].code \in Codes
     THEN Goes(r, "insert") /\ Using(r, Opened(Conn(r)))
     ELSE Refuse(r) /\ Using(r, LeftOpen(r, "refused"))
  /\ UNCHANGED past /\ Keep

(* INSERT ... SELECT from dynamic_barcode_lookup RETURNING. *)
InsertBuy(r) ==
  /\ At(r, "insert") /\ Job(r).kind = "buy" /\ Conn(r).up /\ req[r].code \in Listed
  /\ \E price \in Prices :
       /\ Using(r, Write(r, "row", -price))
       /\ req' = [req EXCEPT ![r].pc = "update", ![r].value = -price]
       /\ past' = [past EXCEPT ![r].worth = -price]
  /\ Keep

(* No row: everything on the connection is rolled back. *)
InsertNothing(r) ==
  /\ At(r, "insert") /\ Job(r).kind = "buy" /\ Conn(r).up /\ req[r].code \notin Listed
  /\ Using(r, Closed(Conn(r)))
  /\ CutShort(Running(Proc(r)) \ {r})
  /\ Refuse(r) /\ Keep

(* Mutant: the price is looked up again. *)
UpdateBuyPriced(r) ==
  /\ At(r, "update") /\ Job(r).kind = "buy" /\ Conn(r).up /\ ~Locked(r)
  /\ \E price \in Prices : Using(r, Write(r, "balance", -price))
  /\ Goes(r, "commit")
  /\ UNCHANGED past /\ Keep
UpdateBuy(r) ==
  /\ At(r, "update") /\ Job(r).kind = "buy" /\ Conn(r).up /\ ~Locked(r)
  /\ Using(r, Write(r, "balance", req[r].value))
  /\ Goes(r, "commit")
  /\ UNCHANGED past /\ Keep

-----------------------------------------------------------------------------
(* Reads.  The statistics end with a commit, which takes along whatever      *)
(* others have written on the connection.                                    *)

(* Mutant: the statistics are not committed either. *)
ReadNoCommit(r) ==
  /\ Job(r).kind = "stats" /\ At(r, "new") /\ MayRun(r) /\ Conn(r).up
  /\ Using(r, LeftOpen(r, "stats"))
  /\ Answers(r, "success")
  /\ UNCHANGED past /\ Keep
Read(r) ==
  /\ Job(r).kind = "stats" /\ At(r, "new") /\ MayRun(r) /\ Conn(r).up
  /\ Commit(r, Opened(Conn(r)))
  /\ Answers(r, "success")
  /\ UNCHANGED tokens

(* get_day_stats, the balance and name of the card API and the sheets of     *)
(* easy_inventory leave their transaction open.                              *)
ReadOpen(r) ==
  /\ Job(r).kind = "look" /\ At(r, "new") /\ MayRun(r) /\ Conn(r).up
  /\ Using(r, LeftOpen(r, "look"))
  /\ Answers(r, "success")
  /\ UNCHANGED past /\ Keep

ReadFails(r) ==
  /\ Job(r).kind \in {"login", "stats", "look"} /\ At(r, "new") /\ ~Conn(r).up
  /\ Answers(r, "crash")
  /\ UNCHANGED <<conn, past>> /\ Keep

-----------------------------------------------------------------------------
(* The database goes away under a connection; the web server starts the      *)
(* process again; an administrator renames a user.                           *)

(* Mutant: the driver connects again by itself.                              *)
DropReconnects(p) ==
  /\ plan.drops > 0 /\ conn[p].up
  /\ conn' = [conn EXCEPT ![p] = Closed(@)]
  /\ plan' = [plan EXCEPT !.drops = @ - 1]
  /\ CutShort(Running(p))
  /\ UNCHANGED <<bank, req, tokens, names, notices>>
Drop(p) ==
  /\ plan.drops > 0 /\ conn[p].up
  /\ conn' = [conn EXCEPT ![p] = [Closed(@) EXCEPT !.up = FALSE]]
  /\ plan' = [plan EXCEPT !.drops = @ - 1]
  /\ CutShort(Running(p))
  /\ UNCHANGED <<bank, req, tokens, names, notices>>
Restart(p) ==
  /\ ~conn[p].up
  /\ conn' = [conn EXCEPT ![p].up = TRUE]
  /\ req' = [r \in Requests |-> IF r \in Running(p) THEN [req[r] EXCEPT !.pc = "end", !.answer = "killed"] ELSE req[r]]
  /\ UNCHANGED <<bank, plan, tokens, names, notices, past>>
Rename(u) ==
  /\ plan.renames > 0 /\ u \in names
  /\ names' = names \ {u}
  /\ plan' = [plan EXCEPT !.renames = @ - 1]
  /\ CutShort({r \in Requests : Job(r) # NoJob /\ Job(r).user = u /\ req[r].pc \notin {"new", "end"}})
  /\ UNCHANGED <<bank, conn, req, tokens, notices>>

(* sodad commits a row of its own, between two ticks. *)
Elsewhere(id, row) ==
  /\ \A p \in Procs : ~Holds(p, row.user)
  /\ people' = [people EXCEPT ![row.user] = Moved(row.user, row.value, row.code, now + 1)]
  /\ xacts' = xacts \cup {[id |-> id, at |-> now + 1, user |-> row.user, value |-> row.value, code |-> row.code, cash |-> row.cash]}
  /\ notices' = Append(notices, id)
  /\ now' = now + 2

Tick ==
  /\ plan.ticks > 0
  /\ now' = now + 2 /\ plan' = [plan EXCEPT !.ticks = @ - 1]
  /\ UNCHANGED <<people, xacts, conn, req, tokens, names, notices, past>>

ApiNext ==
  \/ \E r \in Requests :
       /\ Job(r) # NoJob
       /\ \/ BeginDeposit(r) \/ LookDeposit(r) \/ Charge(r) \/ GetUserid(r)
          \/ UpdateDeposit(r) \/ InsertDeposit(r) \/ Committed(r) \/ Fail(r)
          \/ Authenticate(r) \/ Renew(r)
          \/ BeginBuy(r) \/ LookBuy(r) \/ InsertBuy(r) \/ InsertNothing(r) \/ UpdateBuy(r)
          \/ Read(r) \/ ReadOpen(r) \/ ReadFails(r)
  \/ \E p \in Procs : Drop(p) \/ Restart(p)
  \/ \E u \in Users : Rename(u)
  \/ Tick

ApiInit(plans, people0, xacts0, start, tokens0) ==
  /\ plan \in plans
  /\ now = start /\ people = people0 /\ xacts = xacts0 /\ tokens = tokens0
  /\ conn = [p \in Procs |-> [up |-> TRUE, began |-> Never, writes |-> <<>>, left |-> {}]]
  /\ req = [r \in Requests |-> [pc |-> "new", answer |-> "none", value |-> 0,
                                code |-> IF plan.jobs[r] = NoJob THEN NoCode ELSE plan.jobs[r].code]]
  /\ names = Users /\ notices = <<>>
  /\ past = [r \in Requests |-> [asked |-> now, kept |-> {}, cut |-> FALSE, late |-> {}, charged |-> FALSE, worth |-> 0]]
-----------------------------------------------------------------------------
(* Properties.                                                               *)

Ended(r) == Job(r) # NoJob /\ req[r].pc = "end"
Serial(r) == Proc(r) \notin plan.threads
Both == {"balance", "row"}
Half(u, what) == {r \in Requests : Job(r) # NoJob /\ Job(r).user = u /\ past[r].kept = {what}}
Worth(R) == Sum(R, LAMBDA r : past[r].worth)

(* Whatever deposits, purchases, reads, lost connections and restarts do, in *)
(* a process that serves one request at a time a request leaves both its     *)
(* row and its change of the balance or neither, and both if it succeeds.    *)
(* Threads on the one connection break that only for requests that another   *)
(* one's rollback cut.                                                       *)
RequestsWhole ==
  \A r \in {r \in Requests : Job(r) # NoJob /\ Job(r).kind \in {"deposit", "buy"}} :
    /\ Serial(r) => past[r].kept \in {{}, Both}
    /\ Ended(r) /\ req[r].answer = "success" /\ ~past[r].cut => past[r].kept = Both
    /\ Ended(r) /\ req[r].answer # "success" /\ Serial(r) => past[r].kept = {}

(* Balances and rows differ by the requests of which only half is committed, *)
(* and by nothing else, whatever the prices do meanwhile.                    *)
Booked ==
  \A u \in Users : people[u].balance + Worth(Half(u, "row")) =
                    Opening[u] + Total({x \in xacts : x.user = u}) + Worth(Half(u, "balance"))

(* A card is charged before the deposit is booked, so a deposit may fail     *)
(* when its customer has already paid.  It never is booked without the       *)
(* charge, and is lost only when Stripe's answer, the connection or the      *)
(* process is lost, the user is renamed, or a thread rolls back in between.  *)
ChargedIsCredited ==
  \A r \in {r \in Requests : Job(r) # NoJob /\ Job(r).kind = "deposit"} :
    /\ ~past[r].charged => past[r].kept = {}
    /\ past[r].charged /\ Ended(r) /\ ~past[r].cut =>
         \/ req[r].answer = "success" /\ past[r].worth = Job(r).credit
         \/ req[r].answer = "unknown" /\ past[r].kept = {}

(* Rows bear the time at which the connection's transaction began.  That is  *)
(* before their request only when a look that leaves its transaction open,   *)
(* or a request that was refused, came first; the statistics do no harm.     *)
LateOnlyAfterLooks ==
  \A x \in xacts : x.id \in Requests /\ Serial(x.id) /\ x.at < past[x.id].asked =>
    past[x.id].late \cap {"look", "refused"} # {}

(* What credit card API's app.py tells a customer whose card was charged for *)
(* a deposit that then failed: the error it has prepared, never a bare one;  *)
(* but where Stripe itself did not answer.                                   *)
ToldOfCharge ==
  \A r \in Requests : Ended(r) /\ past[r].charged /\ req[r].answer \notin {"success", "killed", "unknown"} =>
    req[r].answer = "card charged"
=============================================================================
