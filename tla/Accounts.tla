------------------------------ MODULE Accounts ------------------------------
(* users.balance and the transactions table as the co-op's programs write    *)
(* them, concurrently, through Postgres:                                     *)
(*   - sodad (bob2k14/soda_server): purchases, deposits and transfers, each  *)
(*     one sql.transaction(), isolation REPEATABLE READ (sequelize default), *)
(*     reading the balance first and writing back read + amount;             *)
(*   - pybob/private_api: web deposits and purchases, READ COMMITTED, with   *)
(*     relative updates (balance = balance + x);                             *)
(*   - the Django administration site: new, deleted and edited rows, READ    *)
(*     COMMITTED, every save() writing the whole users row.                  *)
(* Each step is one SQL statement; any two requests interleave anywhere.     *)
(* Amounts are cents.  Each request runs at most once.                       *)
EXTENDS Integers

CONSTANTS
  Users,
  Requests,     \* operations submitted in the run
  NoRequest,
  Amounts,      \* amounts enumerated by the arriving requests (cents, signed)
  Opening,      \* balances of the accounts when the run begins
  Allowed       \* which kinds of operation each request may be

Kinds == {"purchase", "transfer", "deposit", "buy",
          "adminPost", "adminTransfer", "delete", "profile"}
Sides == {"own", "peer"}

ASSUME NoRequestAssumption == NoRequest \notin Requests
ASSUME AmountsAssumption == Amounts \subseteq Int
ASSUME OpeningAssumption == Opening \subseteq Int
ASSUME AllowedAssumption == Allowed \in [Requests -> SUBSET Kinds]

VARIABLES
  balance,    \* committed users.balance
  disabled,   \* committed users.disabled, as the set of disabled users
  ledger,     \* committed SUM(xactvalue) of each user
  rows,       \* rows[q]: which of q's rows are committed in transactions
  job,        \* the arguments of each request
  pc,         \* the next SQL statement of each request, or how it ended
  view,       \* the balances the request sees: what it read or wrote
  flags,      \* the disabled users the request sees
  stale,      \* rows committed by others since the request's snapshot
  updated,    \* balance updates the request has made, uncommitted
  logged,     \* transactions rows it has inserted (or deleted), uncommitted
  lock,       \* row locks on users, held until commit or rollback
  shown       \* requests whose purchase was displayed by addpurchase

books == <<balance, disabled, ledger, rows>>
vars == <<balance, disabled, ledger, rows, job, pc, view, flags, stale,
          updated, logged, lock, shown>>

NoJob == [kind |-> "none"]
Statements == {"updateOwn", "insertOwn", "debit", "findTarget", "credit",
               "insertPeer", "form", "savePeer", "saveOwn", "deleteFind",
               "deletePeer", "deleteOwn", "saveProfile", "commit"}
Ended == {"committed", "failed", "lost"}
Running(r) == pc[r] \notin Ended \cup {"idle"}

Job == [kind : Kinds, who : [Sides -> Users], val : [Sides -> Int],
        of : Requests \cup {NoRequest}, side : Sides]

SodadKinds == {"purchase", "transfer"}
TwoSided == {"transfer", "adminTransfer"}

(* The arguments of an operation on the account u, and of a transfer of x    *)
(* from u to v: the sender's row is worth -x, the receiver's x.              *)
Single(kind, u, x) ==
  [kind |-> kind, who |-> [s \in Sides |-> u],
   val |-> [s \in Sides |-> IF s = "own" THEN x ELSE 0],
   of |-> NoRequest, side |-> "own"]
Double(kind, u, v, x) ==
  [kind |-> kind, who |-> [s \in Sides |-> IF s = "own" THEN u ELSE v],
   val |-> [s \in Sides |-> IF s = "own" THEN -x ELSE x],
   of |-> NoRequest, side |-> "own"]

Other(side) == IF side = "own" THEN "peer" ELSE "own"

(* What the sides in S of job j are worth to user u. *)
Worth(j, S, u) ==
  (IF "own" \in S /\ j.who["own"] = u THEN j.val["own"] ELSE 0)
    + (IF "peer" \in S /\ j.who["peer"] = u THEN j.val["peer"] ELSE 0)

Init ==
  /\ balance \in [Users -> Opening]
  /\ disabled \in SUBSET Users
  /\ ledger = balance
  /\ rows = [r \in Requests |-> {}]
  /\ job = [r \in Requests |-> NoJob]
  /\ pc = [r \in Requests |-> "idle"]
  /\ view = [r \in Requests |-> [u \in Users |-> 0]]
  /\ flags = [r \in Requests |-> {}]
  /\ stale = [r \in Requests |-> {}]
  /\ updated = [r \in Requests |-> {}]
  /\ logged = [r \in Requests |-> {}]
  /\ lock = [u \in Users |-> NoRequest]
  /\ shown = {}

-----------------------------------------------------------------------------
(* Postgres, as the programs rely on it. *)

(* The statement r runs next. *)
Goto(r, stmt) == pc' = [pc EXCEPT ![r] = stmt]

(* SELECT as the first statement of a transaction: the snapshot is taken. *)
Read(r) ==
  /\ view' = [view EXCEPT ![r] = balance]
  /\ flags' = [flags EXCEPT ![r] = disabled]
  /\ stale' = [stale EXCEPT ![r] = {}]

(* r arrives with the arguments j. *)
Arrive(r, j) ==
  /\ pc[r] = "idle"
  /\ j.kind \in Allowed[r]
  /\ job' = [job EXCEPT ![r] = j]
  /\ UNCHANGED <<balance, disabled, ledger, rows, updated, logged, lock, shown>>

(* The row of u as an UPDATE of r finds it once it has the row lock. *)
Current(r, u) == IF lock[u] = r THEN view[r][u] ELSE balance[u]
CurrentlyDisabled(r) ==
  {u \in Users : IF lock[u] = r THEN u \in flags[r] ELSE u \in disabled}

(* UPDATE users SET balance = x WHERE userid = u: waits for the row lock. *)
Write(r, u, x) ==
  /\ lock[u] \in {NoRequest, r}
  /\ lock' = [lock EXCEPT ![u] = r]
  /\ view' = [view EXCEPT ![r][u] = x]

(* Only the balance column: the flag keeps its committed value. *)
KeepFlag(r, u) ==
  flags' = [flags EXCEPT ![r] = IF u \in CurrentlyDisabled(r)
                                  THEN @ \cup {u} ELSE @ \ {u}]

(* A transaction ends: its locks go, the snapshot is forgotten. *)
Finish(r, how) ==
  /\ Goto(r, how)
  /\ lock' = [u \in Users |-> IF lock[u] = r THEN NoRequest ELSE lock[u]]
  /\ view' = [view EXCEPT ![r] = [u \in Users |-> 0]]
  /\ flags' = [flags EXCEPT ![r] = {}]
  /\ updated' = [updated EXCEPT ![r] = {}]
  /\ logged' = [logged EXCEPT ![r] = {}]

(* ROLLBACK: nothing the transaction wrote survives. *)
Rollback(r, how) ==
  /\ Finish(r, how)
  /\ stale' = [stale EXCEPT ![r] = {}]
  /\ UNCHANGED <<books, job, shown>>

(* The transactions rows of each request once r has committed. *)
RowsAfter(r) ==
  IF job[r].kind = "delete"
    THEN [rows EXCEPT ![job[r].of] =
            @ \ {IF s = "own" THEN job[r].side ELSE Other(job[r].side) : s \in logged[r]}]
    ELSE [rows EXCEPT ![r] = logged[r]]

(* COMMIT: every row r holds becomes the committed one, and stale for the    *)
(* snapshots of the others.                                                  *)
Commit(r) ==
  LET mine == {u \in Users : lock[u] = r} IN
  /\ pc[r] = "commit"
  /\ balance' = [u \in Users |-> IF u \in mine THEN view[r][u] ELSE balance[u]]
  /\ disabled' = CurrentlyDisabled(r)
  /\ ledger' = [u \in Users |-> ledger[u] + Worth(job[r], logged[r], u)]
  /\ rows' = RowsAfter(r)
  /\ stale' = [s \in Requests |->
                 IF s # r /\ Running(s) /\ job[s].kind \in SodadKinds
                   THEN stale[s] \cup mine ELSE {}]
  /\ Finish(r, "committed")
  /\ UNCHANGED <<job, shown>>

(* The users row whose lock the next statement of r needs. *)
Wants(r) ==
  CASE pc[r] \in {"updateOwn", "debit", "saveOwn", "saveProfile"} -> {job[r].who["own"]}
    [] pc[r] \in {"credit", "savePeer"} -> {job[r].who["peer"]}
    [] OTHER -> {}

(* REPEATABLE READ: the row was committed by another transaction since the   *)
(* snapshot, so the UPDATE fails ("could not serialize access") and sodad's  *)
(* .catch reports it; nothing retries.                                       *)
SerializationFailure(r) ==
  /\ job[r].kind \in SodadKinds
  /\ Wants(r) \cap stale[r] # {}
  /\ Rollback(r, "failed")

(* The transactions row that side s of r stands for when r is a deletion. *)
Doomed(r, s) == <<job[r].of, IF s = "own" THEN job[r].side ELSE Other(job[r].side)>>

(* Other deletions, still uncommitted, of the row r is about to delete. *)
Deleters(r, s) ==
  {d \in Requests \ {r} : /\ job[d].kind = "delete" /\ Running(d)
                          /\ \E t \in logged[d] : Doomed(d, t) = Doomed(r, s)}

(* The requests whose row locks the next statement of r waits for. *)
WaitsFor(r) ==
  ({lock[u] : u \in Wants(r)} \ {r, NoRequest})
    \cup CASE pc[r] = "deleteOwn" -> Deleters(r, "own")
           [] pc[r] = "deletePeer" -> Deleters(r, "peer")
           [] OTHER -> {}

(* Requests that wait for each other: Postgres aborts one of them. *)
Deadlock(r) ==
  /\ \E S \in SUBSET Requests :
       r \in S /\ \A s \in S : WaitsFor(s) \cap S # {}
  /\ Rollback(r, "failed")

(* The sodad process dies: Postgres rolls back every transaction it had      *)
(* open, and nobody remembers the requests.                                  *)
SodadCrash ==
  LET dead == {r \in Requests : Running(r) /\ job[r].kind \in SodadKinds} IN
  /\ dead # {}
  /\ pc' = [r \in Requests |-> IF r \in dead THEN "lost" ELSE pc[r]]
  /\ lock' = [u \in Users |-> IF lock[u] \in dead THEN NoRequest ELSE lock[u]]
  /\ view' = [r \in Requests |-> IF r \in dead THEN [u \in Users |-> 0] ELSE view[r]]
  /\ flags' = [r \in Requests |-> IF r \in dead THEN {} ELSE flags[r]]
  /\ stale' = [r \in Requests |-> IF r \in dead THEN {} ELSE stale[r]]
  /\ updated' = [r \in Requests |-> IF r \in dead THEN {} ELSE updated[r]]
  /\ logged' = [r \in Requests |-> IF r \in dead THEN {} ELSE logged[r]]
  /\ UNCHANGED <<books, job, shown>>

-----------------------------------------------------------------------------
(* The statements the operations are made of. *)

(* Mutant: the isolation level is READ COMMITTED, so nothing fails.          *)
WriteBackReadCommitted(r, side) ==
  LET u == job[r].who[side] IN
  /\ Write(r, u, view[r][u] + job[r].val[side])
  /\ KeepFlag(r, u)
  /\ updated' = [updated EXCEPT ![r] = @ \cup {side}]
  /\ UNCHANGED <<books, job, stale, logged, shown>>

(* Mutant: the balance is updated in place, after the check on a copy.       *)
WriteBackIncrement(r, side) ==
  LET u == job[r].who[side] IN
  /\ Write(r, u, Current(r, u) + job[r].val[side])
  /\ KeepFlag(r, u)
  /\ updated' = [updated EXCEPT ![r] = @ \cup {side}]
  /\ UNCHANGED <<books, job, stale, logged, shown>>

(* updateAttributes({balance: read + amount}): sodad writes back the value   *)
(* it read, so the row must not have changed since its snapshot.             *)
WriteBack(r, side) ==
  LET u == job[r].who[side] IN
  /\ u \notin stale[r]
  /\ Write(r, u, view[r][u] + job[r].val[side])
  /\ KeepFlag(r, u)
  /\ updated' = [updated EXCEPT ![r] = @ \cup {side}]
  /\ UNCHANGED <<books, job, stale, logged, shown>>

(* UPDATE users SET balance = balance + x: relative, whatever is there. *)
Increment(r, side) ==
  LET u == job[r].who[side] IN
  /\ Write(r, u, Current(r, u) + job[r].val[side])
  /\ KeepFlag(r, u)
  /\ updated' = [updated EXCEPT ![r] = @ \cup {side}]
  /\ UNCHANGED <<books, job, stale, logged, shown>>

(* Django's save() with balance = F('balance') + x: the balance is relative, *)
(* every other column is the copy the view fetched earlier.                  *)
SaveUser(r, side) ==
  LET u == job[r].who[side] IN
  /\ Write(r, u, Current(r, u) + job[r].val[side])
  /\ updated' = [updated EXCEPT ![r] = @ \cup {side}]
  /\ UNCHANGED <<books, job, stale, flags, logged, shown>>

(* INSERT INTO transactions. *)
Insert(r, side) ==
  /\ logged' = [logged EXCEPT ![r] = @ \cup {side}]
  /\ UNCHANGED <<books, job, view, flags, stale, updated, lock>>

-----------------------------------------------------------------------------
(* sodad: balance_transaction *)

(* models.Users.find({userid: uid}) opens the transaction's snapshot. *)
BalanceTransactionFind(r) ==
  \E u \in Users, x \in Amounts :
    /\ Arrive(r, Single("purchase", u, x))
    /\ Read(r)
    /\ Goto(r, "updateOwn")

BalanceTransactionUpdate(r) ==
  /\ job[r].kind = "purchase" /\ pc[r] = "updateOwn"
  /\ WriteBack(r, "own")
  /\ Goto(r, "insertOwn")

(* Transactions.create, and the client is told before the COMMIT. *)
BalanceTransactionInsert(r) ==
  /\ job[r].kind = "purchase" /\ pc[r] = "insertOwn"
  /\ Insert(r, "own")
  /\ shown' = shown \cup {r}
  /\ Goto(r, "commit")

(* sodad: balance_transfer *)

(* The sender is read and checked; a refusal rolls back (displayerror). *)
TransferFind(r) ==
  \E u, v \in Users, x \in Amounts :
    LET j == Double("transfer", u, v, x)
        refused == balance[u] < x \/ x < 0
    IN /\ Arrive(r, j)
       /\ IF refused THEN Goto(r, "failed") /\ UNCHANGED <<view, flags, stale>>
                     ELSE Goto(r, "debit") /\ Read(r)

(* Mutant: the client is told as soon as the sender is debited. *)
TransferDebitShown(r) ==
  LET u == job[r].who["own"] IN
  /\ job[r].kind = "transfer" /\ pc[r] = "debit"
  /\ u \notin stale[r]
  /\ Write(r, u, view[r][u] + job[r].val["own"])
  /\ KeepFlag(r, u)
  /\ updated' = [updated EXCEPT ![r] = @ \cup {"own"}]
  /\ shown' = shown \cup {r}
  /\ UNCHANGED <<books, job, stale, logged>>
  /\ Goto(r, "findTarget")

TransferDebit(r) ==
  /\ job[r].kind = "transfer" /\ pc[r] = "debit"
  /\ WriteBack(r, "own")
  /\ Goto(r, "findTarget")

(* Mutant: the refusal reports the error and forgets to roll back. *)
TransferFindTargetNoRollback(r) ==
  /\ job[r].kind = "transfer" /\ pc[r] = "findTarget"
  /\ Goto(r, IF job[r].who["peer"] \in flags[r] THEN "failed" ELSE "credit")
  /\ UNCHANGED <<books, job, view, flags, stale, updated, logged, lock, shown>>

(* The receiver, read in the same snapshot, must not be disabled. *)
TransferFindTarget(r) ==
  /\ job[r].kind = "transfer" /\ pc[r] = "findTarget"
  /\ IF job[r].who["peer"] \in flags[r]
       THEN Rollback(r, "failed")
       ELSE Goto(r, "credit")
            /\ UNCHANGED <<books, job, view, flags, stale, updated, logged, lock, shown>>

TransferCredit(r) ==
  /\ job[r].kind = "transfer" /\ pc[r] = "credit"
  /\ WriteBack(r, "peer")
  /\ Goto(r, "insertOwn")

TransferInsertOwn(r) ==
  /\ job[r].kind = "transfer" /\ pc[r] = "insertOwn"
  /\ Insert(r, "own")
  /\ Goto(r, "insertPeer")
  /\ UNCHANGED shown

TransferInsertPeer(r) ==
  /\ job[r].kind = "transfer" /\ pc[r] = "insertPeer"
  /\ Insert(r, "peer")
  /\ shown' = shown \cup {r}
  /\ Goto(r, "commit")

-----------------------------------------------------------------------------
(* pybob/private_api: make_deposit and buy_barcode *)

(* amount < 0 is refused before the database is touched. *)
MakeDeposit(r) ==
  \E u \in Users, x \in Amounts :
    /\ Arrive(r, Single("deposit", u, x))
    /\ Goto(r, IF x < 0 THEN "failed" ELSE "updateOwn")
    /\ UNCHANGED <<view, flags, stale>>

DepositUpdate(r) ==
  /\ job[r].kind = "deposit" /\ pc[r] = "updateOwn"
  /\ Increment(r, "own")
  /\ Goto(r, "insertOwn")

DepositInsert(r) ==
  /\ job[r].kind = "deposit" /\ pc[r] = "insertOwn"
  /\ Insert(r, "own")
  /\ Goto(r, "commit")
  /\ UNCHANGED shown

(* INSERT ... SELECT -1 * price; a row for an unknown product is not         *)
(* inserted and the transaction is rolled back.                              *)
BuyBarcode(r) ==
  \E u \in Users, x \in Amounts, known \in BOOLEAN :
    /\ Arrive(r, Single("buy", u, x))
    /\ Goto(r, IF known THEN "insertOwn" ELSE "failed")
    /\ UNCHANGED <<view, flags, stale>>

BuyInsert(r) ==
  /\ job[r].kind = "buy" /\ pc[r] = "insertOwn"
  /\ Insert(r, "own")
  /\ Goto(r, "updateOwn")
  /\ UNCHANGED shown

BuyUpdate(r) ==
  /\ job[r].kind = "buy" /\ pc[r] = "updateOwn"
  /\ Increment(r, "own")
  /\ Goto(r, "commit")

-----------------------------------------------------------------------------
(* The administration site: new_transaction, delete_transaction and the      *)
(* profile form of user_details.                                             *)

(* user_details fetches the users row (autocommit) before it looks at what   *)
(* was posted; new_transaction then works on that copy.                      *)
NewTransaction(r) ==
  \E u, v \in Users, x \in Amounts, kind \in {"adminPost", "adminTransfer"} :
    /\ Arrive(r, IF kind = "adminPost" THEN Single(kind, u, x) ELSE Double(kind, u, v, x))
    /\ kind = "adminPost" => u = v
    /\ flags' = [flags EXCEPT ![r] = disabled]
    /\ Goto(r, IF kind = "adminPost" THEN "insertOwn" ELSE "form")
    /\ UNCHANGED <<view, stale>>

(* set_transaction_fields validates the form, which fetches the other user. *)
NewTransactionForm(r) ==
  LET v == job[r].who["peer"] IN
  /\ job[r].kind = "adminTransfer" /\ pc[r] = "form"
  /\ flags' = [flags EXCEPT ![r] =
       IF v = job[r].who["own"] THEN @ ELSE (@ \ {v}) \cup (disabled \cap {v})]
  /\ Goto(r, "insertPeer")
  /\ UNCHANGED <<books, job, view, stale, updated, logged, lock, shown>>

(* otran.save(), otran.user.save(), tran.save(), user.save(), in this order. *)
NewTransactionInsertPeer(r) ==
  /\ job[r].kind = "adminTransfer" /\ pc[r] = "insertPeer"
  /\ Insert(r, "peer")
  /\ Goto(r, "savePeer")
  /\ UNCHANGED shown

NewTransactionSavePeer(r) ==
  /\ job[r].kind = "adminTransfer" /\ pc[r] = "savePeer"
  /\ SaveUser(r, "peer")
  /\ Goto(r, "insertOwn")

NewTransactionInsertOwn(r) ==
  /\ job[r].kind \in {"adminPost", "adminTransfer"} /\ pc[r] = "insertOwn"
  /\ Insert(r, "own")
  /\ Goto(r, "saveOwn")
  /\ UNCHANGED shown

NewTransactionSaveOwn(r) ==
  /\ job[r].kind \in {"adminPost", "adminTransfer"} /\ pc[r] = "saveOwn"
  /\ SaveUser(r, "own")
  /\ Goto(r, "commit")

(* get_tran: the row named by the delete button is fetched (autocommit). *)
DeleteGet(r) ==
  \E q \in Requests, s \in Sides :
    /\ s \in rows[q]
    /\ Arrive(r, [kind |-> "delete",
                  who |-> [t \in Sides |-> job[q].who[IF t = "own" THEN s ELSE Other(s)]],
                  val |-> [t \in Sides |-> -job[q].val[IF t = "own" THEN s ELSE Other(s)]],
                  of |-> q, side |-> s])
    /\ Goto(r, "deleteFind")
    /\ UNCHANGED <<view, flags, stale>>

(* Mutant: the other half is deleted without correcting its account. *)
DeleteFindNoSave(r) ==
  LET q == job[r].of
      half == job[q].kind \in TwoSided /\ Other(job[r].side) \in rows[q]
  IN /\ job[r].kind = "delete" /\ pc[r] = "deleteFind"
     /\ \E unique \in BOOLEAN :
          Goto(r, IF half /\ unique THEN "deletePeer" ELSE "deleteOwn")
     /\ flags' = [flags EXCEPT ![r] = disabled]
     /\ UNCHANGED <<books, job, view, stale, updated, logged, lock, shown>>

(* tran.user is fetched; a transfer's other half is looked up by time and    *)
(* value, and skipped with a warning unless exactly one row matches.         *)
DeleteFind(r) ==
  LET q == job[r].of
      half == job[q].kind \in TwoSided /\ Other(job[r].side) \in rows[q]
  IN /\ job[r].kind = "delete" /\ pc[r] = "deleteFind"
     /\ \E unique \in BOOLEAN :
          Goto(r, IF half /\ unique THEN "savePeer" ELSE "deleteOwn")
     /\ flags' = [flags EXCEPT ![r] = disabled]
     /\ UNCHANGED <<books, job, view, stale, updated, logged, lock, shown>>

(* Mutant: the other half's account is corrected and its row kept. *)
DeleteSavePeerOnly(r) ==
  /\ job[r].kind = "delete" /\ pc[r] = "savePeer"
  /\ SaveUser(r, "peer")
  /\ Goto(r, "deleteOwn")

DeleteSavePeer(r) ==
  /\ job[r].kind = "delete" /\ pc[r] = "savePeer"
  /\ SaveUser(r, "peer")
  /\ Goto(r, "deletePeer")

(* DELETE FROM transactions: waits for another deletion of the row to end,   *)
(* and deletes nothing when the row is gone by then.                         *)
DeleteRow(r, s) ==
  /\ Deleters(r, s) = {}
  /\ IF Doomed(r, s)[2] \in rows[job[r].of]
       THEN Insert(r, s)
       ELSE UNCHANGED <<books, job, view, flags, stale, updated, logged, lock>>

DeletePeer(r) ==
  /\ job[r].kind = "delete" /\ pc[r] = "deletePeer"
  /\ DeleteRow(r, "peer")
  /\ Goto(r, "deleteOwn")
  /\ UNCHANGED shown

DeleteOwn(r) ==
  /\ job[r].kind = "delete" /\ pc[r] = "deleteOwn"
  /\ DeleteRow(r, "own")
  /\ Goto(r, "saveOwn")
  /\ UNCHANGED shown

DeleteSaveOwn(r) ==
  /\ job[r].kind = "delete" /\ pc[r] = "saveOwn"
  /\ SaveUser(r, "own")
  /\ Goto(r, "commit")

(* The profile form: the row fetched at the top of user_details ... *)
ProfileGet(r) ==
  \E u \in Users :
    /\ Arrive(r, Single("profile", u, 0))
    /\ view' = [view EXCEPT ![r] = balance]
    /\ flags' = [flags EXCEPT ![r] = disabled]
    /\ Goto(r, "saveProfile")
    /\ UNCHANGED stale

(* ... is written back whole, the balance it had then included. *)
ProfileSave(r) ==
  LET u == job[r].who["own"] IN
  /\ job[r].kind = "profile" /\ pc[r] = "saveProfile"
  /\ Write(r, u, view[r][u])
  /\ \E off \in BOOLEAN :
       flags' = [flags EXCEPT ![r] = IF off THEN @ \cup {u} ELSE @ \ {u}]
  /\ Goto(r, "commit")
  /\ UNCHANGED <<books, job, stale, updated, logged, shown>>

-----------------------------------------------------------------------------
Arrival(r) ==
  \/ BalanceTransactionFind(r) \/ TransferFind(r) \/ MakeDeposit(r) \/ BuyBarcode(r)
  \/ NewTransaction(r) \/ DeleteGet(r) \/ ProfileGet(r)

Statement(r) ==
  \/ BalanceTransactionUpdate(r) \/ BalanceTransactionInsert(r)
  \/ TransferDebit(r) \/ TransferFindTarget(r) \/ TransferCredit(r)
  \/ TransferInsertOwn(r) \/ TransferInsertPeer(r)
  \/ DepositUpdate(r) \/ DepositInsert(r)
  \/ BuyInsert(r) \/ BuyUpdate(r)
  \/ NewTransactionForm(r) \/ NewTransactionInsertPeer(r) \/ NewTransactionSavePeer(r)
  \/ NewTransactionInsertOwn(r) \/ NewTransactionSaveOwn(r)
  \/ DeleteFind(r) \/ DeleteSavePeer(r) \/ DeletePeer(r) \/ DeleteOwn(r)
  \/ DeleteSaveOwn(r)
  \/ ProfileSave(r)

Abort(r) == SerializationFailure(r) \/ Deadlock(r)

Next ==
  \/ \E r \in Requests : Arrival(r) \/ Statement(r) \/ Abort(r) \/ Commit(r)
  \/ SodadCrash

Spec == Init /\ [][Next]_vars

(* Once begun, a transaction is driven to its end: the event loop and        *)
(* Postgres keep running its statements, and Postgres breaks deadlocks.      *)
FairSpec ==
  Spec /\ \A r \in Requests : WF_vars(Statement(r) \/ Abort(r) \/ Commit(r))
-----------------------------------------------------------------------------
(* The variables keep their shapes. *)
TypeOK ==
  /\ balance \in [Users -> Int]
  /\ disabled \in SUBSET Users
  /\ ledger \in [Users -> Int]
  /\ rows \in [Requests -> SUBSET Sides]
  /\ job \in [Requests -> Job \cup {NoJob}]
  /\ pc \in [Requests -> {"idle"} \cup Statements \cup Ended]
  /\ view \in [Requests -> [Users -> Int]]
  /\ flags \in [Requests -> SUBSET Users]
  /\ stale \in [Requests -> SUBSET Users]
  /\ updated \in [Requests -> SUBSET Sides]
  /\ logged \in [Requests -> SUBSET Sides]
  /\ lock \in [Users -> Requests \cup {NoRequest}]
  /\ shown \in SUBSET Requests

(* "Account balances match transaction data" (admin/consistency_check.sql:5):*)
(* whatever the programs interleave, every committed balance is the sum of   *)
(* the user's committed transactions.                                        *)
BalanceMatchesLedger == balance = ledger

(* A purchase the client was shown (addpurchase runs before the COMMIT) is   *)
(* never rolled back by the database: only a crash can still lose it.        *)
ShownIsNotRolledBack == \A r \in shown : pc[r] # "failed"

Commits(r) == pc[r] # "committed" /\ pc'[r] = "committed"

(* A user's transfer never takes more than the sender has when the money     *)
(* moves, whatever was bought or transferred since balance_transfer checked. *)
NoOverdraftByTransfer ==
  [][\A r \in Requests :
       Commits(r) /\ job[r].kind = "transfer"
         => /\ job[r].val["peer"] >= 0
            /\ balance[job[r].who["own"]] >= job[r].val["peer"]]_vars

(* Nor does it credit an account that an administrator disabled meanwhile.   *)
NoTransferToDisabled ==
  [][\A r \in Requests :
       Commits(r) /\ job[r].kind = "transfer"
         => job[r].who["peer"] \notin disabled]_vars

(* Every transaction that begins ends: serialization failures and deadlocks  *)
(* are broken, no lock is kept for ever.                                     *)
EveryRequestEnds == \A r \in Requests : Running(r) ~> pc[r] \in Ended

(* Operations under which the books must balance: nobody saves a profile     *)
(* form, and at most one request deletes (the README says why).              *)
SafeOperations ==
  /\ \A r \in Requests : "profile" \notin Allowed[r]
  /\ \A r, s \in Requests : "delete" \in Allowed[r] \cap Allowed[s] => r = s

(* The invariant behind BalanceMatchesLedger. *)

(* A request that is not running has nothing uncommitted. *)
Quiet ==
  \A r \in Requests : pc[r] \notin Statements => updated[r] = {} /\ logged[r] = {}

(* A request holds the lock of exactly the rows it has updated. *)
LocksAreUpdates ==
  \A r \in Requests, u \in Users :
    lock[u] = r <=> \E s \in updated[r] : job[r].who[s] = u

(* A locked row is the committed one plus what its holder did to it. *)
PendingIsDelta ==
  \A r \in Requests, u \in Users :
    lock[u] = r => view[r][u] = balance[u] + Worth(job[r], updated[r], u)

(* What sodad read is still committed unless the row is known to be stale. *)
SnapshotIsCurrent ==
  \A r \in Requests, u \in Users :
    /\ pc[r] \in Statements /\ job[r].kind \in SodadKinds
    /\ u \notin stale[r] /\ lock[u] # r
    => view[r][u] = balance[u]

(* r is before statement stmt, has updated U and logged L. *)
At(r, stmt, U, L) == pc[r] = stmt /\ updated[r] = U /\ logged[r] = L

(* What each operation has done before each of its statements. *)
Progress(r) ==
  /\ job[r].kind \in {"purchase", "deposit"} =>
       \/ At(r, "updateOwn", {}, {}) \/ At(r, "insertOwn", {"own"}, {})
       \/ At(r, "commit", {"own"}, {"own"})
  /\ job[r].kind = "transfer" =>
       \/ At(r, "debit", {}, {})
       \/ At(r, "findTarget", {"own"}, {}) \/ At(r, "credit", {"own"}, {})
       \/ At(r, "insertOwn", Sides, {}) \/ At(r, "insertPeer", Sides, {"own"})
       \/ At(r, "commit", Sides, Sides)
  /\ job[r].kind = "buy" =>
       \/ At(r, "insertOwn", {}, {}) \/ At(r, "updateOwn", {}, {"own"})
       \/ At(r, "commit", {"own"}, {"own"})
  /\ job[r].kind = "adminPost" =>
       \/ At(r, "insertOwn", {}, {}) \/ At(r, "saveOwn", {}, {"own"})
       \/ At(r, "commit", {"own"}, {"own"})
  /\ job[r].kind = "adminTransfer" =>
       \/ At(r, "form", {}, {}) \/ At(r, "insertPeer", {}, {})
       \/ At(r, "savePeer", {}, {"peer"}) \/ At(r, "insertOwn", {"peer"}, {"peer"})
       \/ At(r, "saveOwn", {"peer"}, Sides) \/ At(r, "commit", Sides, Sides)
  /\ job[r].kind = "delete" =>
       \/ At(r, "deleteFind", {}, {}) \/ At(r, "savePeer", {}, {})
       \/ At(r, "deletePeer", {"peer"}, {})
       \/ At(r, "deleteOwn", {}, {}) \/ At(r, "saveOwn", {}, {"own"})
       \/ At(r, "commit", {"own"}, {"own"})
       \/ At(r, "deleteOwn", {"peer"}, {"peer"}) \/ At(r, "saveOwn", {"peer"}, Sides)
       \/ At(r, "commit", Sides, Sides)

(* The rows a deletion is about to delete are still there. *)
DoomedStand(r) ==
  job[r].kind = "delete" =>
    /\ job[r].of \in Requests
    /\ pc[r] \in {"deleteFind", "savePeer", "deletePeer", "deleteOwn"}
         => job[r].side \in rows[job[r].of]
    /\ pc[r] \in {"savePeer", "deletePeer"} => Other(job[r].side) \in rows[job[r].of]

BooksInv ==
  /\ Quiet
  /\ LocksAreUpdates
  /\ PendingIsDelta
  /\ SnapshotIsCurrent
  /\ \A r \in Requests : pc[r] \in Statements => Progress(r) /\ DoomedStand(r)
  /\ BalanceMatchesLedger

(* The programs implement the books: each request is booked whole, in one    *)
(* step, or leaves no trace; see Ledger.                                     *)
outcome ==
  [r \in Requests |-> IF pc[r] = "committed" THEN "posted"
                      ELSE IF pc[r] \in {"failed", "lost"} THEN "dropped"
                      ELSE "pending"]
Books ==
  INSTANCE Ledger
    WITH Users <- Users, Requests <- Requests, balance <- balance, disabled <- disabled,
         ledger <- ledger, rows <- rows, job <- job, outcome <- outcome
ImplementsLedger == Books!LedgerSpec
=============================================================================
