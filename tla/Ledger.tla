------------------------------- MODULE Ledger -------------------------------
(* What the co-op's books promise.  admin/consistency_check.sql (lines 5-11) *)
(* demands of the database that every users.balance is the sum of that       *)
(* user's rows in transactions.  This module states the promise as a serial  *)
(* machine: an operation happens in one step or not at all, and a transfer   *)
(* is judged against the books at the moment it happens.  Accounts is the    *)
(* concurrent program that is shown to implement it.                         *)
EXTENDS Integers

CONSTANTS Users, Requests

VARIABLES
  balance,    \* users.balance, in cents
  disabled,   \* users whose account is disabled
  ledger,     \* SUM(transactions.xactvalue) of each user
  rows,       \* the rows each request has in transactions: "own" and/or "peer"
  job,        \* the arguments of each request
  outcome     \* "pending", "posted" or "dropped"

ledgerVars == <<balance, disabled, ledger, rows, job, outcome>>

(* What the rows in S of the books entry j are worth to user u. *)
Worth(j, S, u) ==
  (IF "own" \in S /\ j.who.own = u THEN j.val.own ELSE 0)
    + (IF "peer" \in S /\ j.who.peer = u THEN j.val.peer ELSE 0)

LedgerInit ==
  /\ balance \in [Users -> Int]
  /\ disabled \in SUBSET Users
  /\ ledger = balance
  /\ rows = [r \in Requests |-> {}]
  /\ job = [r \in Requests |-> [kind |-> "none"]]
  /\ outcome = [r \in Requests |-> "pending"]

(* A request arrives with its arguments. *)
Submit(r) ==
  /\ outcome[r] = "pending"
  /\ job' = [job EXCEPT ![r] = job'[r]]
  /\ UNCHANGED <<balance, disabled, ledger, rows, outcome>>

(* The entry of request r is booked whole: both columns move together. *)
Book(r, S) ==
  /\ outcome[r] = "pending"
  /\ balance' = [u \in Users |-> balance[u] + Worth(job[r], S, u)]
  /\ ledger' = [u \in Users |-> ledger[u] + Worth(job[r], S, u)]
  /\ outcome' = [outcome EXCEPT ![r] = "posted"]
  /\ UNCHANGED job

(* A purchase, a deposit or a correction: one row, one account. *)
Post(r) ==
  /\ job[r].kind \in {"purchase", "deposit", "buy"}
  /\ Book(r, {"own"})
  /\ rows' = [rows EXCEPT ![r] = {"own"}]
  /\ UNCHANGED disabled

(* A user's transfer: the sender can pay it and the receiver is not disabled *)
(* in the very state in which the money moves.                               *)
Transfer(r) ==
  /\ job[r].kind = "transfer"
  /\ job[r].val.peer >= 0
  /\ balance[job[r].who.own] >= job[r].val.peer
  /\ job[r].who.peer \notin disabled
  /\ Book(r, {"own", "peer"})
  /\ rows' = [rows EXCEPT ![r] = {"own", "peer"}]
  /\ UNCHANGED disabled

(* An administrator's entry: unconditional, and the account flags may change *)
(* because the administration site writes whole rows.                        *)
AdminPost(r) ==
  /\ job[r].kind \in {"adminPost", "adminTransfer"}
  /\ LET S == IF job[r].kind = "adminPost" THEN {"own"} ELSE {"own", "peer"}
     IN Book(r, S) /\ rows' = [rows EXCEPT ![r] = S]
  /\ disabled' \in SUBSET Users

(* An administrator deletes an entry, alone or with its other half. *)
AdminDelete(r) ==
  /\ job[r].kind = "delete"
  /\ \E S \in {{"own"}, {"own", "peer"}} :
       LET gone == IF S = {"own"} THEN {job[r].side} ELSE S
       IN /\ Book(r, S)
          /\ gone \subseteq rows[job[r].of]
          /\ rows' = [rows EXCEPT ![job[r].of] = @ \ gone]
  /\ disabled' \in SUBSET Users

(* Requests refused on arrival, rolled back, or lost together in a crash     *)
(* leave no trace in the books.                                              *)
Drop(S) ==
  /\ \A r \in S : outcome[r] = "pending"
  /\ outcome' = [r \in Requests |-> IF r \in S THEN "dropped" ELSE outcome[r]]
  /\ job' = [r \in Requests |-> IF r \in S THEN job'[r] ELSE job[r]]
  /\ UNCHANGED <<balance, disabled, ledger, rows>>

LedgerNext ==
  \/ \E r \in Requests :
       Submit(r) \/ Post(r) \/ Transfer(r) \/ AdminPost(r) \/ AdminDelete(r)
  \/ \E S \in SUBSET Requests : Drop(S)

LedgerSpec == LedgerInit /\ [][LedgerNext]_ledgerVars
=============================================================================
