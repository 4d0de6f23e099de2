---------------------------- MODULE SodaSession ----------------------------
(* sodad's handling of the terminal at the soda machine (client Soda/0): the *)
(* session it keeps in the redis hash "sodads:<client>", and the events that *)
(* read and write it concurrently -- logins, logouts, product scans, vends,  *)
(* coins and bills -- and the commands it sends for them to mdb_server.      *)
(* A handler runs from one await to the next; its program point is at[e].    *)
(* Redis: one connection, so a command takes effect in the order of issue    *)
(* and its reply is handled in that order (pending).  SQL: a pool of         *)
(* connections, whose answers come in any order.  Mdb.command: an HTTP       *)
(* request each, which arrive in any order and whose errors nobody looks at. *)
EXTENDS Integers, Sequences

CONSTANTS
  Users,
  Nobody,       \* the uid of a hash that has none
  Events,       \* what happens at the terminal; each event at most once
  NoEvent,
  Plans         \* [kinds, acceptors]: what may happen, see plan

Kinds == {"login", "logout", "lever", "scan", "vend", "coin", "bill"}

ASSUME NobodyAssumption == Nobody \notin Users
ASSUME NoEventAssumption == NoEvent \notin Events
ASSUME PlansAssumption ==
  Plans \subseteq [kinds : [Events -> SUBSET Kinds], acceptors : SUBSET {"coins", "bills"}]

(* What is sent to mdb_server: enable or disable an acceptor, stack or       *)
(* return a bill, poll the bills, dispense a coin.                           *)
Enable == [coins |-> "E1", bills |-> "E2"]
Disable == [coins |-> "D1", bills |-> "D2"]
MdbCommands == {"E1", "E2", "D1", "D2", "K1", "K2", "P2", "G"}
MdbRequests == MdbCommands \X Events

VARIABLES
  plan,       \* the kinds of event each may be; the acceptors followed
  session,    \* the hash sodads:<client>
  pending,    \* events whose redis reply is due, oldest first
  at,         \* where each event is
  kind,       \* what kind of event it is
  who,        \* the user of the badge or password, of a login
  seen,       \* what the event read from the session last
  machine,    \* the vend the vending machine is busy with
  late,       \* vends it gave up before sodad had answered
  accepting,  \* E1 and E2 (not D1 and D2) were the last commands issued
  calls,      \* requests mdb_server has not got yet
  busy,       \* mdb_server waits for the line that answers a command
  toDevice,   \* commands written and not carried out, in order
  enabled,    \* the acceptors that take money
  missed,     \* those that did not get, or not in order, what was issued last
  vended,     \* vends that delivered
  kept,       \* coins and bills in the machine
  booked      \* the user balance_transaction booked the event to

mdb == <<plan, calls, busy, toDevice, enabled, missed>>
vars == <<session, pending, at, kind, who, seen, machine, late, accepting, mdb, vended,
          kept, booked>>

Acceptors == plan.acceptors
Enabling == {Enable[a] : a \in Acceptors}
Disabling == {Disable[a] : a \in Acceptors}

Sessions == [live : BOOLEAN, uid : Users \cup {Nobody}, activevend : BOOLEAN,
             ttl : BOOLEAN]
Absent == [live |-> FALSE, uid |-> Nobody, activevend |-> FALSE, ttl |-> FALSE]

(* Points at which an event waits for redis, and for something else. *)
RedisPoints ==
  {"stored", "flagRead", "deleted", "rolesDeleted", "leverSession",
   "scanSession", "authSession", "authFlag", "resultSession", "resultFlag",
   "coinSession", "escrowSession", "stackSession", "uidRead"}
OtherPoints ==
  {"roles", "scanLookup", "authLookup", "granted", "resultLookup", "stacking", "booking"}
Points == {"idle", "done", "abandoned", "lost"} \cup RedisPoints \cup OtherPoints

(* From the button to the machine's answer, and to the end of the vend. *)
VendPoints == {"authSession", "authLookup", "authFlag", "granted"}

Init ==
  /\ plan \in Plans
  /\ session = Absent
  /\ pending = <<>>
  /\ at = [e \in Events |-> "idle"]
  /\ kind = [e \in Events |-> "none"]
  /\ who = [e \in Events |-> Nobody]
  /\ seen = [e \in Events |-> Absent]
  /\ machine = NoEvent
  /\ late = {}
  /\ accepting = FALSE
  /\ calls = {} /\ busy = FALSE /\ toDevice = <<>>
  /\ enabled \in SUBSET ({"coins"} \cap Acceptors) /\ missed = enabled   \* as reset() left them
  /\ vended = {}
  /\ kept = {}
  /\ booked = [e \in Events |-> Nobody]

-----------------------------------------------------------------------------
(* redis and the event loop *)

Goto(e, point) == at' = [at EXCEPT ![e] = point]
Stop(e, point) == Goto(e, point) /\ seen' = [seen EXCEPT ![e] = Absent]

world == <<session, machine, late, accepting, mdb, vended, kept, booked>>
self == <<kind, who>>

(* e arrives as an event of kind k: its handler issues its first command. *)
Arrive(e, k) ==
  /\ at[e] = "idle"
  /\ k \in plan.kinds[e]
  /\ kind' = [kind EXCEPT ![e] = k]

(* A command of e joins the queue; q is the queue before it. *)
Issue(e, point, q) == pending' = Append(q, e) /\ Goto(e, point)

(* hgetall, or hget of a field: e sees the session as it is now. *)
Ask(e, point, q) == Issue(e, point, q) /\ seen' = [seen EXCEPT ![e] = session]

(* hset creates the hash if it is gone: no uid, and it never expires. *)
SetFlag(b) == session' = [session EXCEPT !.live = TRUE, !.activevend = b]

(* The reply to e's command, issued at point, is the next to be handled. *)
Due(e, point) == at[e] = point /\ pending # <<>> /\ Head(pending) = e
Handled == pending' = Tail(pending)

(* expire(600): nothing renews it, whatever the customer does. *)
Expire ==
  /\ session.ttl
  /\ session' = Absent
  /\ UNCHANGED <<pending, at, kind, who, seen, machine, late, accepting, mdb, vended,
                 kept, booked>>

-----------------------------------------------------------------------------
(* mdb_server and the acceptors; MdbServer has the line in detail.           *)

Request(commands, e) == calls' = calls \cup (commands \X {e})
OnItsWay(c) == \E e \in Events : <<c, e>> \in calls

(* Mdb.command: the line is busy with another command and refuses this one,  *)
(* or the command is written.  handle_login and the others ignore the error. *)
MdbCommand(r) ==
  /\ r \in calls
  /\ calls' = calls \ {r}
  /\ IF busy
       THEN /\ missed' = missed \cup {a \in Acceptors : r[1] \in {Enable[a], Disable[a]}}
            /\ UNCHANGED <<busy, toDevice>>
       ELSE /\ busy' = TRUE /\ toDevice' = Append(toDevice, r)
            /\ UNCHANGED missed
  /\ UNCHANGED <<plan, session, pending, at, kind, who, seen, machine, late, accepting, enabled,
                 vended, kept, booked>>

(* A line came -- any line answers the command -- or none came in time.      *)
MdbAnswered ==
  /\ busy
  /\ busy' = FALSE
  /\ UNCHANGED <<plan, session, pending, at, kind, who, seen, machine, late, accepting, calls,
                 toDevice, enabled, missed, vended, kept, booked>>

(* The device carries out the oldest command, or rejects it (X).             *)
MdbDevice ==
  /\ toDevice # <<>>
  /\ toDevice' = Tail(toDevice)
  /\ LET c == Head(toDevice)[1]
         e == Head(toDevice)[2]
     IN \/ /\ enabled' = (enabled \cup {a \in Acceptors : Enable[a] = c})
                            \ {a \in Acceptors : Disable[a] = c}
           /\ kept' = IF c = "K1" THEN kept \cup {e} ELSE IF c = "G" THEN kept \ {e} ELSE kept
           /\ UNCHANGED missed
        \/ /\ missed' = missed \cup {a \in Acceptors : c \in {Enable[a], Disable[a]}}
           /\ UNCHANGED <<enabled, kept>>
  /\ UNCHANGED <<plan, session, pending, at, kind, who, seen, machine, late, accepting, calls, busy,
                 vended, booked>>

-----------------------------------------------------------------------------
(* balance_transaction, at the end of every purchase and deposit: the uid is *)
(* read again, whoever the caller saw in the session.                        *)

BalanceTransaction(e, q) == Ask(e, "uidRead", q)

BalanceTransactionUid(e) ==
  /\ Due(e, "uidRead")
  /\ Handled
  /\ Goto(e, "booking")
  /\ UNCHANGED <<world, self, seen>>

(* The transaction commits, or fails (nobody's uid, serialization failure)   *)
(* and the customer is shown a Transaction Error.                            *)
Book(e) ==
  /\ at[e] = "booking"
  /\ \/ seen[e].uid \in Users /\ booked' = [booked EXCEPT ![e] = seen[e].uid]
     \/ UNCHANGED booked
  /\ Stop(e, "done")
  /\ UNCHANGED <<session, pending, self, machine, late, accepting, mdb, vended, kept>>

-----------------------------------------------------------------------------
(* handle_login, from a password, a badge (handle_barcode) or a finger       *)
(* (handle_fp_identified), whoever is logged in already.                     *)
Login(e) ==
  \E u \in Users :
    /\ Arrive(e, "login")
    /\ who' = [who EXCEPT ![e] = u]
    /\ Goto(e, "roles")
    /\ UNCHANGED <<world, pending, seen>>

(* Mutant: the session of the last user is deleted first. *)
LoginStoreFresh(e) ==
  /\ at[e] = "roles"
  /\ Issue(e, "stored", pending)
  /\ session' = [live |-> TRUE, uid |-> who[e], activevend |-> FALSE, ttl |-> TRUE]
  /\ UNCHANGED <<self, seen, machine, late, accepting, mdb, vended, kept, booked>>

(* MULTI: hset uid, hmset user, expire 600; the other fields stay. *)
LoginStore(e) ==
  /\ at[e] = "roles"
  /\ Issue(e, "stored", pending)
  /\ session' = [session EXCEPT !.live = TRUE, !.uid = who[e], !.ttl = TRUE]
  /\ UNCHANGED <<self, seen, machine, late, accepting, mdb, vended, kept, booked>>

(* The terminal shows the user, and the acceptors are enabled. *)
LoginDone(e) ==
  /\ Due(e, "stored")
  /\ Handled
  /\ accepting' = TRUE
  /\ Request(Enabling, e)
  /\ missed' = {a \in Acceptors : OnItsWay(Disable[a])}
  /\ Stop(e, "done")
  /\ UNCHANGED <<plan, session, self, machine, late, busy, toDevice, enabled, vended, kept, booked>>

(* handle_logout, by the button or the terminal's timer ... *)
Logout(e) ==
  /\ Arrive(e, "logout")
  /\ Ask(e, "flagRead", pending)
  /\ UNCHANGED <<world, who>>

(* ... or by the coin return lever (MDB command W), if somebody is there. *)
Lever(e) ==
  /\ Arrive(e, "lever")
  /\ Ask(e, "leverSession", pending)
  /\ UNCHANGED <<world, who>>

LeverSession(e) ==
  /\ Due(e, "leverSession")
  /\ IF seen[e].live
       THEN Ask(e, "flagRead", Tail(pending))
       ELSE Handled /\ Stop(e, "done")
  /\ UNCHANGED <<world, self>>

(* A vend that is running refuses the logout; otherwise the acceptors are    *)
(* disabled and the session is deleted, without looking at it again.         *)
LogoutDecide(e) ==
  /\ Due(e, "flagRead")
  /\ IF seen[e].activevend
       THEN Handled /\ Stop(e, "done") /\ UNCHANGED <<session, accepting, calls, missed>>
       ELSE /\ Issue(e, "deleted", Tail(pending))
            /\ session' = Absent
            /\ accepting' = FALSE
            /\ Request(Disabling, e)
            /\ missed' = {a \in Acceptors : OnItsWay(Enable[a])}
            /\ UNCHANGED seen
  /\ UNCHANGED <<plan, self, machine, late, busy, toDevice, enabled, vended, kept, booked>>

(* The roles are deleted next, and then the terminal is told. *)
LogoutRoles(e) ==
  /\ Due(e, "deleted")
  /\ Issue(e, "rolesDeleted", Tail(pending))
  /\ UNCHANGED <<world, self, seen>>

(* Mutant: the acceptors are disabled when everything is deleted. *)
LogoutDoneDisable(e) ==
  /\ Due(e, "rolesDeleted")
  /\ Handled
  /\ Stop(e, "done")
  /\ accepting' = FALSE
  /\ Request(Disabling, e)
  /\ missed' = {a \in Acceptors : OnItsWay(Enable[a])}
  /\ UNCHANGED <<plan, self, session, machine, late, busy, toDevice, enabled, vended, kept, booked>>

LogoutDone(e) ==
  /\ Due(e, "rolesDeleted")
  /\ Handled
  /\ Stop(e, "done")
  /\ UNCHANGED <<world, self>>

-----------------------------------------------------------------------------
(* handle_barcode, of a product *)

Scan(e) ==
  /\ Arrive(e, "scan")
  /\ Ask(e, "scanSession", pending)
  /\ UNCHANGED <<world, who>>

ScanSession(e) ==
  /\ Due(e, "scanSession")
  /\ Handled
  /\ Goto(e, "scanLookup")
  /\ UNCHANGED <<world, self, seen>>

(* Without a session the price is shown; the price list of a session without *)
(* a uid is empty, and the barcode unknown.                                  *)
ScanLookup(e) ==
  /\ at[e] = "scanLookup"
  /\ IF seen[e].uid \in Users
       THEN BalanceTransaction(e, pending)
       ELSE Stop(e, "done") /\ UNCHANGED pending
  /\ UNCHANGED <<world, self>>

-----------------------------------------------------------------------------
(* Soda.vdbauth and Soda.vdbvend *)

(* The machine handles one vend at a time.  Assumed here: it asks for none   *)
(* while the answer to one it gave up is still to come (VdbServer has the    *)
(* case that a late answer meets the next request).                          *)
MachineAsks == machine = NoEvent /\ \A f \in late : at[f] \notin VendPoints

Vdbauth(e) ==
  /\ MachineAsks
  /\ Arrive(e, "vend")
  /\ Ask(e, "authSession", pending)
  /\ machine' = e
  /\ UNCHANGED <<session, who, late, accepting, mdb, vended, kept, booked>>

(* The machine's timeout (5 s): it will not act on the answer any more. *)
GiveUp(e) ==
  /\ machine = e
  /\ at[e] # "granted"
  /\ machine' = NoEvent
  /\ late' = late \cup {e}
  /\ UNCHANGED <<session, pending, at, self, seen, accepting, mdb, vended, kept, booked>>

(* Mutant: the session is marked before the soda is looked up. *)
VdbauthSessionMark(e) ==
  /\ Due(e, "authSession")
  /\ Handled
  /\ Goto(e, "authLookup")
  /\ IF seen[e].live THEN SetFlag(TRUE) ELSE UNCHANGED session
  /\ UNCHANGED <<self, seen, machine, late, accepting, mdb, vended, kept, booked>>

VdbauthSession(e) ==
  /\ Due(e, "authSession")
  /\ Handled
  /\ Goto(e, "authLookup")
  /\ UNCHANGED <<world, self, seen>>

(* No session: denied.  A session without a uid: the lookup finds nothing,   *)
(* the error is not caught, and the machine waits in vain for an answer.     *)
VdbauthLookup(e) ==
  /\ at[e] = "authLookup"
  /\ IF seen[e].uid \in Users
       THEN /\ Issue(e, "authFlag", pending)
            /\ SetFlag(TRUE)
            /\ UNCHANGED <<seen, machine>>
       ELSE /\ Stop(e, "done")
            /\ machine' = NoEvent
            /\ UNCHANGED <<session, pending>>
  /\ UNCHANGED <<self, late, accepting, mdb, vended, kept, booked>>

(* The machine is told; if it has given up, nothing will come of the vend. *)
VdbauthGrant(e) ==
  /\ Due(e, "authFlag")
  /\ Handled
  /\ IF e \in late THEN Stop(e, "abandoned") ELSE Goto(e, "granted") /\ UNCHANGED seen
  /\ UNCHANGED <<world, self>>

(* The machine reports K (a soda came out) or L (it is sold out). *)
Vdbvend(e) ==
  /\ at[e] = "granted"
  /\ \/ vended' = vended \cup {e}
     \/ UNCHANGED vended
  /\ Ask(e, "resultSession", pending)
  /\ machine' = NoEvent
  /\ UNCHANGED <<session, self, late, accepting, mdb, kept, booked>>

(* vdb_server takes that line for the answer of a command or skips it, or    *)
(* its request to sodad fails: sodad does not hear how the vend ended.       *)
VdbvendLost(e) ==
  /\ at[e] = "granted"
  /\ \/ vended' = vended \cup {e}
     \/ UNCHANGED vended
  /\ Stop(e, "lost")
  /\ machine' = NoEvent
  /\ UNCHANGED <<session, pending, self, late, accepting, mdb, kept, booked>>

(* Mutant: only the vend that delivered releases the session. *)
VdbvendSessionDelivered(e) ==
  /\ Due(e, "resultSession")
  /\ IF seen[e].live
       THEN /\ Issue(e, "resultFlag", Tail(pending))
            /\ IF e \in vended THEN SetFlag(FALSE) ELSE UNCHANGED session
            /\ UNCHANGED seen
       ELSE Handled /\ Stop(e, "done") /\ UNCHANGED session
  /\ UNCHANGED <<self, machine, late, accepting, mdb, vended, kept, booked>>

(* NOT RECORDED due to no session, or the vend is over. *)
VdbvendSession(e) ==
  /\ Due(e, "resultSession")
  /\ IF seen[e].live
       THEN /\ Issue(e, "resultFlag", Tail(pending))
            /\ SetFlag(FALSE)
            /\ UNCHANGED seen
       ELSE Handled /\ Stop(e, "done") /\ UNCHANGED session
  /\ UNCHANGED <<self, machine, late, accepting, mdb, vended, kept, booked>>

VdbvendFlag(e) ==
  /\ Due(e, "resultFlag")
  /\ Handled
  /\ IF e \in vended THEN Goto(e, "resultLookup") /\ UNCHANGED seen
                     ELSE Stop(e, "done")
  /\ UNCHANGED <<world, self>>

VdbvendLookup(e) ==
  /\ at[e] = "resultLookup"
  /\ IF seen[e].uid \in Users
       THEN BalanceTransaction(e, pending)
       ELSE Stop(e, "done") /\ UNCHANGED pending
  /\ UNCHANGED <<world, self>>

-----------------------------------------------------------------------------
(* Soda.remotemdb: coins and bills *)

(* P1: a coin fell into its tube. *)
Coin(e) ==
  /\ Arrive(e, "coin")
  /\ Ask(e, "coinSession", pending)
  /\ kept' = kept \cup {e}
  /\ UNCHANGED <<session, machine, late, accepting, mdb, vended, booked, who>>

(* handleCoinDeposit: without a session the coin is dispensed again. *)
HandleCoinDeposit(e) ==
  /\ Due(e, "coinSession")
  /\ IF seen[e].live
       THEN BalanceTransaction(e, Tail(pending)) /\ UNCHANGED calls
       ELSE Handled /\ Stop(e, "done") /\ Request({"G"}, e)
  /\ UNCHANGED <<plan, session, self, machine, late, accepting, busy, toDevice, enabled, missed,
                 vended, kept, booked>>

(* Q1: a bill is in escrow. *)
Bill(e) ==
  /\ Arrive(e, "bill")
  /\ Ask(e, "escrowSession", pending)
  /\ UNCHANGED <<world, who>>

(* handleBillEscrow: K1 stacks the bill, K2 returns it. *)
HandleBillEscrow(e) ==
  /\ Due(e, "escrowSession")
  /\ Handled
  /\ IF seen[e].live
       THEN Goto(e, "stacking") /\ Request({"K1", "P2"}, e) /\ UNCHANGED seen
       ELSE Stop(e, "done") /\ Request({"K2"}, e)
  /\ UNCHANGED <<plan, session, self, machine, late, accepting, busy, toDevice, enabled, missed,
                 vended, kept, booked>>

(* Q2: the bill is stacked. *)
BillStacked(e) ==
  /\ at[e] = "stacking" /\ e \in kept
  /\ Ask(e, "stackSession", pending)
  /\ UNCHANGED <<world, self>>

(* handleBillStack: without a session the bill is lost. *)
HandleBillStack(e) ==
  /\ Due(e, "stackSession")
  /\ IF seen[e].live
       THEN BalanceTransaction(e, Tail(pending))
       ELSE Handled /\ Stop(e, "done")
  /\ UNCHANGED <<world, self>>

-----------------------------------------------------------------------------
Arrival(e) ==
  \/ Login(e) \/ Logout(e) \/ Lever(e) \/ Scan(e) \/ Vdbauth(e) \/ Coin(e) \/ Bill(e)

Continue(e) ==
  \/ LoginStore(e) \/ LoginDone(e)
  \/ LeverSession(e) \/ LogoutDecide(e) \/ LogoutRoles(e) \/ LogoutDone(e)
  \/ ScanSession(e) \/ ScanLookup(e)
  \/ VdbauthSession(e) \/ VdbauthLookup(e) \/ VdbauthGrant(e)
  \/ VdbvendSession(e) \/ VdbvendFlag(e) \/ VdbvendLookup(e)
  \/ HandleCoinDeposit(e) \/ HandleBillEscrow(e) \/ HandleBillStack(e)
  \/ BalanceTransactionUid(e) \/ Book(e)

Next ==
  \/ \E e \in Events :
       Arrival(e) \/ Continue(e) \/ GiveUp(e) \/ Vdbvend(e) \/ VdbvendLost(e) \/ BillStacked(e)
  \/ \E r \in MdbRequests : MdbCommand(r)
  \/ MdbAnswered \/ MdbDevice
  \/ Expire

Spec == Init /\ [][Next]_vars

(* The event loop runs the callbacks, and the machine ends what it began,    *)
(* whether sodad hears of it or not.                                         *)
FairSpec ==
  /\ Spec
  /\ \A e \in Events : WF_vars(Continue(e)) /\ WF_vars(Vdbvend(e) \/ VdbvendLost(e))
-----------------------------------------------------------------------------
(* The variables keep their shapes; exactly the events that wait for redis   *)
(* are in the queue, and the machine is busy with the one vend that runs.    *)
TypeOK ==
  /\ plan \in Plans
  /\ session \in Sessions
  /\ pending \in Seq(Events)
  /\ at \in [Events -> Points]
  /\ kind \in [Events -> Kinds \cup {"none"}]
  /\ who \in [Events -> Users \cup {Nobody}]
  /\ seen \in [Events -> Sessions]
  /\ machine \in Events \cup {NoEvent}
  /\ late \in SUBSET Events
  /\ accepting \in BOOLEAN /\ busy \in BOOLEAN
  /\ calls \in SUBSET MdbRequests /\ toDevice \in Seq(MdbRequests)
  /\ enabled \in SUBSET Acceptors /\ missed \in SUBSET Acceptors
  /\ vended \in SUBSET Events
  /\ kept \in SUBSET Events
  /\ booked \in [Events -> Users \cup {Nobody}]
  /\ \A e \in Events : at[e] \in RedisPoints <=> \E i \in DOMAIN pending : pending[i] = e
  /\ \A e \in Events : machine = e <=> at[e] \in VendPoints /\ e \notin late

(* A session that refuses logouts belongs to a vend that is being granted,   *)
(* is running, or whose result has just come in, or that the machine gave up *)
(* on, or whose result was lost: nobody is locked in by a vend whose end     *)
(* sodad has heard of, however the session was replaced meanwhile.           *)
FlagMeansVend ==
  session.activevend =>
    \E e \in Events : at[e] \in {"authFlag", "granted", "resultSession", "abandoned", "lost"}

(* While a vend runs, what sodad still does for the one before it, or for a  *)
(* login, does not clear the flag that protects it: it goes only together    *)
(* with the session.                                                         *)
VendKeepsFlag ==
  [][(\E e \in Events : at[e] \in {"authFlag", "granted"})
       /\ session.activevend /\ ~session'.activevend => session' = Absent]_vars

(* What the last login or logout had sent to the acceptor a is under way. *)
Wanted(a) == IF accepting THEN Enable[a] ELSE Disable[a]
UnderWay(a) ==
  OnItsWay(Wanted(a)) \/ \E i \in 1 .. Len(toDevice) : toDevice[i][1] = Wanted(a)

(* Whatever logins and logouts overlap, a user who is logged in was the last *)
(* to have commands sent, or is about to; and an acceptor does in the end    *)
(* what was sent last, unless a busy line, the device or another order of    *)
(* the requests made it miss that.                                           *)
AcceptorsFollow ==
  /\ session.uid \in Users => accepting \/ \E e \in Events : at[e] = "stored"
  /\ \A a \in Acceptors \ missed : UnderWay(a) \/ (a \in enabled <=> accepting)

(* A session does not refuse logouts for ever, unless the machine gave up a  *)
(* vend or the result of one was lost on its way.                            *)
FlagClears ==
  session.activevend ~>
    ~session.activevend \/ \E e \in Events : at[e] \in {"abandoned", "lost"}

(* "Active vending session prevents logout!" (server.ts:904).                *)
LogoutSparesVend ==
  [][session.activevend => ~\E e \in Events : at[e] = "flagRead" /\ at'[e] = "deleted"]_vars

=============================================================================
