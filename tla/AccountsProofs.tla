--------------------------- MODULE AccountsProofs ---------------------------
(* Theorems about Accounts, for any set of users, requests and amounts: the  *)
(* types, the books, what a transfer checked and what a client was shown,    *)
(* and that the statements of all programs implement the books of Ledger.    *)
EXTENDS Accounts, TLAPS

(* A request that has arrived has the arguments of an allowed operation.     *)
JobsKnown ==
  \A r \in Requests :
    pc[r] # "idle" => job[r] \in Job /\ job[r].kind \in Allowed[r]

(* Only a committed request has rows in transactions. *)
RowsAreCommitted == \A r \in Requests : rows[r] # {} => pc[r] = "committed"

TypeInv == TypeOK /\ JobsKnown /\ RowsAreCommitted

LEMMA SingleIsJob ==
  ASSUME NEW kind \in Kinds, NEW u \in Users, NEW x \in Int
  PROVE  Single(kind, u, x) \in Job
BY DEF Single, Job, Sides

LEMMA DoubleIsJob ==
  ASSUME NEW kind \in Kinds, NEW u \in Users, NEW v \in Users, NEW x \in Int
  PROVE  Double(kind, u, v, x) \in Job
BY DEF Double, Job, Sides

LEMMA WorthType ==
  ASSUME NEW j \in Job, NEW S, NEW u
  PROVE  Worth(j, S, u) \in Int
BY DEF Worth, Job, Sides

LEMMA TypeInit == Init => TypeInv
<1> SUFFICES ASSUME Init PROVE TypeInv
  OBVIOUS
<1>1. balance \in [Users -> Int] /\ ledger \in [Users -> Int]
  BY OpeningAssumption DEF Init
<1>2. pc \in [Requests -> {"idle"}] /\ job \in [Requests -> {NoJob}]
  BY DEF Init
<1>3. TypeOK
  BY <1>1, <1>2 DEF Init, TypeOK
<1>4. JobsKnown
  BY DEF Init, JobsKnown
<1>5. RowsAreCommitted
  BY DEF Init, RowsAreCommitted
<1> QED
  BY <1>3, <1>4, <1>5 DEF TypeInv

LEMMA GotoType ==
  ASSUME TypeOK, NEW r \in Requests, NEW stmt \in Statements \cup Ended, Goto(r, stmt)
  PROVE  pc' \in [Requests -> {"idle"} \cup Statements \cup Ended]
BY DEF TypeOK, Goto

LEMMA WriteType ==
  ASSUME TypeOK, NEW r \in Requests, NEW u \in Users, NEW x \in Int, Write(r, u, x)
  PROVE  /\ lock' \in [Users -> Requests \cup {NoRequest}]
         /\ view' \in [Requests -> [Users -> Int]]
BY DEF TypeOK, Write

LEMMA KeepFlagType ==
  ASSUME TypeOK, NEW r \in Requests, NEW u \in Users, KeepFlag(r, u)
  PROVE  flags' \in [Requests -> SUBSET Users]
BY DEF TypeOK, KeepFlag

LEMMA FinishType ==
  ASSUME TypeOK, NEW r \in Requests, NEW how \in Ended, Finish(r, how)
  PROVE  /\ pc' \in [Requests -> {"idle"} \cup Statements \cup Ended]
         /\ lock' \in [Users -> Requests \cup {NoRequest}]
         /\ view' \in [Requests -> [Users -> Int]]
         /\ flags' \in [Requests -> SUBSET Users]
         /\ updated' \in [Requests -> SUBSET Sides]
         /\ logged' \in [Requests -> SUBSET Sides]
BY DEF TypeOK, Finish, Goto

LEMMA ReadType ==
  ASSUME TypeOK, NEW r \in Requests, Read(r)
  PROVE  /\ view' \in [Requests -> [Users -> Int]]
         /\ flags' \in [Requests -> SUBSET Users]
         /\ stale' \in [Requests -> SUBSET Users]
BY DEF TypeOK, Read

LEMMA RollbackType ==
  ASSUME TypeInv, NEW r \in Requests, NEW how \in Ended, Rollback(r, how), pc[r] \in Statements
  PROVE  TypeInv'
<1>1. TypeOK'
  BY FinishType DEF TypeInv, TypeOK, Rollback, books
<1>2. JobsKnown'
  BY DEF TypeInv, TypeOK, JobsKnown, Rollback, Finish, Goto, Statements
<1>3. RowsAreCommitted'
  BY DEF TypeInv, TypeOK, RowsAreCommitted, Rollback, books, Finish, Goto, Statements
<1> QED
  BY <1>1, <1>2, <1>3 DEF TypeInv

(* The steps that arrive, write a row, or insert one keep the types. *)
LEMMA ArriveType ==
  ASSUME TypeInv, NEW r \in Requests, NEW j \in Job, Arrive(r, j),
         NEW stmt \in Statements \cup Ended, Goto(r, stmt),
         view' \in [Requests -> [Users -> Int]],
         flags' \in [Requests -> SUBSET Users],
         stale' \in [Requests -> SUBSET Users]
  PROVE  TypeInv'
<1>1. TypeOK'
  BY GotoType DEF TypeInv, TypeOK, Arrive
<1>2. JobsKnown'
  BY DEF TypeInv, TypeOK, JobsKnown, Arrive, Goto
<1>3. RowsAreCommitted'
  BY DEF TypeInv, TypeOK, RowsAreCommitted, Arrive, Goto
<1> QED
  BY <1>1, <1>2, <1>3 DEF TypeInv

LEMMA RunType ==
  ASSUME TypeInv, NEW r \in Requests, pc[r] \in Statements,
         NEW stmt \in Statements \cup Ended, Goto(r, stmt), UNCHANGED <<books, job>>,
         view' \in [Requests -> [Users -> Int]],
         flags' \in [Requests -> SUBSET Users],
         stale' \in [Requests -> SUBSET Users],
         updated' \in [Requests -> SUBSET Sides],
         logged' \in [Requests -> SUBSET Sides],
         lock' \in [Users -> Requests \cup {NoRequest}],
         shown' \in SUBSET Requests
  PROVE  TypeInv'
<1>1. TypeOK'
  BY GotoType DEF TypeInv, TypeOK, books
<1>2. JobsKnown'
  BY DEF TypeInv, TypeOK, JobsKnown, books, Goto, Statements
<1>3. RowsAreCommitted'
  BY DEF TypeInv, TypeOK, RowsAreCommitted, books, Goto, Statements
<1> QED
  BY <1>1, <1>2, <1>3 DEF TypeInv

LEMMA JobFacts ==
  ASSUME TypeInv, NEW r \in Requests, pc[r] # "idle", NEW s \in Sides
  PROVE  job[r] \in Job /\ job[r].who[s] \in Users /\ job[r].val[s] \in Int
BY DEF TypeInv, JobsKnown, Job

LEMMA WriteBackType ==
  ASSUME TypeInv, NEW r \in Requests, pc[r] \in Statements, NEW s \in Sides, WriteBack(r, s),
         NEW stmt \in Statements, Goto(r, stmt)
  PROVE  TypeInv'
<1> DEFINE u == job[r].who[s]
<1>0. u \in Users /\ job[r].val[s] \in Int
  BY JobFacts DEF Statements
<1>1. u \in Users /\ view[r][u] + job[r].val[s] \in Int
  BY <1>0 DEF TypeInv, TypeOK
<1>2. Write(r, u, view[r][u] + job[r].val[s]) /\ KeepFlag(r, u)
  BY DEF WriteBack
<1>3. /\ lock' \in [Users -> Requests \cup {NoRequest}]
      /\ view' \in [Requests -> [Users -> Int]]
  BY <1>1, <1>2, WriteType DEF TypeInv
<1>4. flags' \in [Requests -> SUBSET Users]
  BY <1>1, <1>2, KeepFlagType DEF TypeInv
<1>5. updated' \in [Requests -> SUBSET Sides]
  BY DEF WriteBack, TypeInv, TypeOK
<1> QED
  BY <1>3, <1>4, <1>5, RunType DEF WriteBack, TypeInv, TypeOK
LEMMA CurrentType ==
  ASSUME TypeOK, NEW r \in Requests, NEW u \in Users
  PROVE  Current(r, u) \in Int
BY DEF TypeOK, Current

LEMMA IncrementType ==
  ASSUME TypeInv, NEW r \in Requests, pc[r] \in Statements, NEW s \in Sides, Increment(r, s),
         NEW stmt \in Statements, Goto(r, stmt)
  PROVE  TypeInv'
<1> DEFINE u == job[r].who[s]
<1>1. u \in Users /\ Current(r, u) + job[r].val[s] \in Int
  BY JobFacts, CurrentType DEF TypeInv, Statements
<1>2. Write(r, u, Current(r, u) + job[r].val[s]) /\ KeepFlag(r, u)
  BY DEF Increment
<1>3. /\ lock' \in [Users -> Requests \cup {NoRequest}]
      /\ view' \in [Requests -> [Users -> Int]]
  BY <1>1, <1>2, WriteType DEF TypeInv
<1>4. flags' \in [Requests -> SUBSET Users]
  BY <1>1, <1>2, KeepFlagType DEF TypeInv
<1>5. updated' \in [Requests -> SUBSET Sides]
  BY DEF Increment, TypeInv, TypeOK
<1> QED
  BY <1>3, <1>4, <1>5, RunType DEF Increment, TypeInv, TypeOK

LEMMA SaveUserType ==
  ASSUME TypeInv, NEW r \in Requests, pc[r] \in Statements, NEW s \in Sides, SaveUser(r, s),
         NEW stmt \in Statements, Goto(r, stmt)
  PROVE  TypeInv'
<1> DEFINE u == job[r].who[s]
<1>1. u \in Users /\ Current(r, u) + job[r].val[s] \in Int
  BY JobFacts, CurrentType DEF TypeInv, Statements
<1>2. Write(r, u, Current(r, u) + job[r].val[s])
  BY DEF SaveUser
<1>3. /\ lock' \in [Users -> Requests \cup {NoRequest}]
      /\ view' \in [Requests -> [Users -> Int]]
  BY <1>1, <1>2, WriteType DEF TypeInv
<1>4. updated' \in [Requests -> SUBSET Sides]
  BY DEF SaveUser, TypeInv, TypeOK
<1> QED
  BY <1>3, <1>4, RunType DEF SaveUser, TypeInv, TypeOK

LEMMA InsertType ==
  ASSUME TypeInv, NEW r \in Requests, pc[r] \in Statements, NEW s \in Sides, Insert(r, s),
         NEW stmt \in Statements, Goto(r, stmt), shown' \in SUBSET Requests
  PROVE  TypeInv'
<1>1. logged' \in [Requests -> SUBSET Sides]
  BY DEF Insert, TypeInv, TypeOK
<1> QED
  BY <1>1, RunType DEF Insert, TypeInv, TypeOK

LEMMA CommitType ==
  ASSUME TypeInv, NEW r \in Requests, Commit(r)
  PROVE  TypeInv'
<1>1. pc[r] = "commit" /\ Finish(r, "committed") /\ UNCHANGED <<job, shown>>
  BY DEF Commit
<1>2. job[r] \in Job
  BY <1>1, JobFacts DEF Sides
<1>3. balance' \in [Users -> Int]
  BY DEF Commit, TypeInv, TypeOK
<1>4. ledger' \in [Users -> Int]
  <2>1. \A u \in Users : ledger[u] + Worth(job[r], logged[r], u) \in Int
    BY <1>2, WorthType DEF TypeInv, TypeOK
  <2> QED
    BY <2>1 DEF Commit
<1>5. disabled' \in SUBSET Users
  BY DEF Commit, CurrentlyDisabled
<1>6. rows' \in [Requests -> SUBSET Sides]
  BY DEF Commit, RowsAfter, TypeInv, TypeOK
<1>7. stale' \in [Requests -> SUBSET Users]
  BY DEF Commit, TypeInv, TypeOK
<1>8. TypeOK'
  BY <1>1, <1>3, <1>4, <1>5, <1>6, <1>7, FinishType DEF TypeInv, TypeOK, Ended
<1>9. JobsKnown'
  BY <1>1 DEF TypeInv, TypeOK, JobsKnown, Finish, Goto
<1>10. RowsAreCommitted'
  BY <1>1 DEF TypeInv, TypeOK, RowsAreCommitted, Commit, RowsAfter, Finish, Goto
<1> QED
  BY <1>8, <1>9, <1>10 DEF TypeInv

LEMMA CrashType ==
  ASSUME TypeInv, SodadCrash
  PROVE  TypeInv'
<1>1. TypeOK'
  BY DEF TypeInv, TypeOK, SodadCrash, books, Ended
<1>2. JobsKnown'
  BY DEF TypeInv, TypeOK, JobsKnown, SodadCrash, Running
<1>3. RowsAreCommitted'
  BY DEF TypeInv, TypeOK, RowsAreCommitted, SodadCrash, books, Running, Ended
<1> QED
  BY <1>1, <1>2, <1>3 DEF TypeInv
LEMMA ArrivalType ==
  ASSUME TypeInv, NEW r \in Requests, Arrival(r)
  PROVE  TypeInv'
<1> USE DEF Ended, Statements
<1>0. UNCHANGED <<view, flags, stale>> =>
        /\ view' \in [Requests -> [Users -> Int]]
        /\ flags' \in [Requests -> SUBSET Users]
        /\ stale' \in [Requests -> SUBSET Users]
  BY DEF TypeInv, TypeOK
<1>1. CASE BalanceTransactionFind(r)
  <2> PICK u \in Users, x \in Amounts :
        Arrive(r, Single("purchase", u, x)) /\ Read(r) /\ Goto(r, "updateOwn")
    BY <1>1 DEF BalanceTransactionFind
  <2>1. Single("purchase", u, x) \in Job
    BY SingleIsJob, AmountsAssumption DEF Kinds
  <2> QED
    BY <2>1, ReadType, ArriveType DEF TypeInv
<1>2. CASE TransferFind(r)
  <2> PICK u \in Users, v \in Users, x \in Amounts :
        /\ Arrive(r, Double("transfer", u, v, x))
        /\ \/ Goto(r, "failed") /\ UNCHANGED <<view, flags, stale>>
           \/ Goto(r, "debit") /\ Read(r)
    BY <1>2 DEF TransferFind
  <2>1. Double("transfer", u, v, x) \in Job
    BY DoubleIsJob, AmountsAssumption DEF Kinds
  <2> QED
    BY <1>0, <2>1, ReadType, ArriveType DEF TypeInv
<1>3. CASE MakeDeposit(r)
  <2> PICK u \in Users, x \in Amounts :
        /\ Arrive(r, Single("deposit", u, x))
        /\ Goto(r, IF x < 0 THEN "failed" ELSE "updateOwn")
        /\ UNCHANGED <<view, flags, stale>>
    BY <1>3 DEF MakeDeposit
  <2>1. Single("deposit", u, x) \in Job
    BY SingleIsJob, AmountsAssumption DEF Kinds
  <2> QED
    BY <1>0, <2>1, ArriveType
<1>4. CASE BuyBarcode(r)
  <2> PICK u \in Users, x \in Amounts, known \in BOOLEAN :
        /\ Arrive(r, Single("buy", u, x))
        /\ Goto(r, IF known THEN "insertOwn" ELSE "failed")
        /\ UNCHANGED <<view, flags, stale>>
    BY <1>4 DEF BuyBarcode
  <2>1. Single("buy", u, x) \in Job
    BY SingleIsJob, AmountsAssumption DEF Kinds
  <2> QED
    BY <1>0, <2>1, ArriveType
<1>5. CASE NewTransaction(r)
  <2> PICK u \in Users, v \in Users, x \in Amounts, kind \in {"adminPost", "adminTransfer"} :
        /\ Arrive(r, IF kind = "adminPost" THEN Single(kind, u, x) ELSE Double(kind, u, v, x))
        /\ flags' = [flags EXCEPT ![r] = disabled]
        /\ Goto(r, IF kind = "adminPost" THEN "insertOwn" ELSE "form")
        /\ UNCHANGED <<view, stale>>
    BY <1>5 DEF NewTransaction
  <2> DEFINE j == IF kind = "adminPost" THEN Single(kind, u, x) ELSE Double(kind, u, v, x)
  <2>1. j \in Job
    BY SingleIsJob, DoubleIsJob, AmountsAssumption DEF Kinds
  <2>2. /\ view' \in [Requests -> [Users -> Int]]
        /\ flags' \in [Requests -> SUBSET Users]
        /\ stale' \in [Requests -> SUBSET Users]
    BY DEF TypeInv, TypeOK
  <2>3. Arrive(r, j)
    OBVIOUS
  <2> QED
    BY <2>1, <2>2, <2>3, ArriveType
<1>6. CASE DeleteGet(r)
  <2> PICK q \in Requests, s \in Sides :
        /\ s \in rows[q]
        /\ Arrive(r, [kind |-> "delete",
                  who |-> [t \in Sides |-> job[q].who[IF t = "own" THEN s ELSE Other(s)]],
                  val |-> [t \in Sides |-> -job[q].val[IF t = "own" THEN s ELSE Other(s)]],
                  of |-> q, side |-> s])
        /\ Goto(r, "deleteFind")
        /\ UNCHANGED <<view, flags, stale>>
    BY <1>6 DEF DeleteGet
  <2>1. pc[q] # "idle"
    BY DEF TypeInv, RowsAreCommitted
  <2>2. job[q] \in Job
    BY <2>1 DEF TypeInv, JobsKnown
  <2> DEFINE j == [kind |-> "delete",
                  who |-> [t \in Sides |-> job[q].who[IF t = "own" THEN s ELSE Other(s)]],
                  val |-> [t \in Sides |-> -job[q].val[IF t = "own" THEN s ELSE Other(s)]],
                  of |-> q, side |-> s]
  <2>3. j \in Job
    BY <2>2 DEF Job, Kinds, Sides, Other
  <2>4. Arrive(r, j)
    OBVIOUS
  <2> QED
    BY <1>0, <2>3, <2>4, ArriveType
<1>7. CASE ProfileGet(r)
  <2> PICK u \in Users :
        /\ Arrive(r, Single("profile", u, 0))
        /\ view' = [view EXCEPT ![r] = balance]
        /\ flags' = [flags EXCEPT ![r] = disabled]
        /\ Goto(r, "saveProfile")
        /\ UNCHANGED stale
    BY <1>7 DEF ProfileGet
  <2>1. Single("profile", u, 0) \in Job
    BY SingleIsJob DEF Kinds
  <2>2. /\ view' \in [Requests -> [Users -> Int]]
        /\ flags' \in [Requests -> SUBSET Users]
        /\ stale' \in [Requests -> SUBSET Users]
    BY DEF TypeInv, TypeOK
  <2> QED
    BY <2>1, <2>2, ArriveType
<1> QED
  BY <1>1, <1>2, <1>3, <1>4, <1>5, <1>6, <1>7 DEF Arrival

LEMMA StatementType ==
  ASSUME TypeInv, NEW r \in Requests, Statement(r)
  PROVE  TypeInv'
<1> USE DEF Ended, Statements, Sides
<1>1. CASE BalanceTransactionUpdate(r)
  BY <1>1, WriteBackType DEF BalanceTransactionUpdate
<1>2. CASE TransferDebit(r)
  BY <1>2, WriteBackType DEF TransferDebit
<1>3. CASE TransferCredit(r)
  BY <1>3, WriteBackType DEF TransferCredit
<1>4. CASE DepositUpdate(r)
  BY <1>4, IncrementType DEF DepositUpdate
<1>5. CASE BuyUpdate(r)
  BY <1>5, IncrementType DEF BuyUpdate
<1>6. CASE NewTransactionSavePeer(r)
  BY <1>6, SaveUserType DEF NewTransactionSavePeer
<1>7. CASE NewTransactionSaveOwn(r)
  BY <1>7, SaveUserType DEF NewTransactionSaveOwn
<1>8. CASE DeleteSavePeer(r)
  BY <1>8, SaveUserType DEF DeleteSavePeer
<1>9. CASE DeleteSaveOwn(r)
  BY <1>9, SaveUserType DEF DeleteSaveOwn
<1>10. CASE BalanceTransactionInsert(r)
  BY <1>10, InsertType DEF BalanceTransactionInsert, TypeInv, TypeOK
<1>11. CASE TransferInsertOwn(r)
  BY <1>11, InsertType DEF TransferInsertOwn, TypeInv, TypeOK
<1>12. CASE TransferInsertPeer(r)
  BY <1>12, InsertType DEF TransferInsertPeer, TypeInv, TypeOK
<1>13. CASE DepositInsert(r)
  BY <1>13, InsertType DEF DepositInsert, TypeInv, TypeOK
<1>14. CASE BuyInsert(r)
  BY <1>14, InsertType DEF BuyInsert, TypeInv, TypeOK
<1>15. CASE NewTransactionInsertPeer(r)
  BY <1>15, InsertType DEF NewTransactionInsertPeer, TypeInv, TypeOK
<1>16. CASE NewTransactionInsertOwn(r)
  BY <1>16, InsertType DEF NewTransactionInsertOwn, TypeInv, TypeOK
<1>17. CASE TransferFindTarget(r)
  BY <1>17, RollbackType, RunType DEF TransferFindTarget, TypeInv, TypeOK, books
<1>18. CASE NewTransactionForm(r)
  BY <1>18, RunType DEF NewTransactionForm, TypeInv, TypeOK, books
<1>19. CASE DeleteFind(r)
  BY <1>19, RunType DEF DeleteFind, TypeInv, TypeOK, books
<1>20. CASE DeletePeer(r)
  BY <1>20, InsertType, RunType DEF DeletePeer, DeleteRow, TypeInv, TypeOK, books
<1>21. CASE DeleteOwn(r)
  BY <1>21, InsertType, RunType DEF DeleteOwn, DeleteRow, TypeInv, TypeOK, books
<1>22. CASE ProfileSave(r)
  <2> DEFINE u == job[r].who["own"]
  <2>1. pc[r] \in Statements /\ Goto(r, "commit") /\ UNCHANGED <<books, job, stale, updated, logged, shown>>
    BY <1>22 DEF ProfileSave
  <2>2. u \in Users
    BY <2>1, JobFacts
  <2>3. Write(r, u, view[r][u]) /\ view[r][u] \in Int
    BY <1>22, <2>2 DEF ProfileSave, TypeInv, TypeOK
  <2>4. /\ lock' \in [Users -> Requests \cup {NoRequest}]
        /\ view' \in [Requests -> [Users -> Int]]
    BY <2>2, <2>3, WriteType DEF TypeInv
  <2>5. flags' \in [Requests -> SUBSET Users]
    BY <1>22, <2>2 DEF ProfileSave, TypeInv, TypeOK
  <2> QED
    BY <2>1, <2>4, <2>5, RunType DEF TypeInv, TypeOK
<1> QED
  BY <1>1, <1>2, <1>3, <1>4, <1>5, <1>6, <1>7, <1>8, <1>9, <1>10, <1>11, <1>12, <1>13, <1>14, <1>15, <1>16, <1>17, <1>18, <1>19, <1>20, <1>21, <1>22 DEF Statement

LEMMA TypeStep ==
  ASSUME TypeInv, [Next]_vars
  PROVE  TypeInv'
<1>1. ASSUME NEW r \in Requests, Abort(r)
      PROVE  TypeInv'
  <2>1. pc[r] \in Statements /\ Rollback(r, "failed")
    BY <1>1 DEF Abort, SerializationFailure, Deadlock, Wants, WaitsFor, Statements
  <2> QED
    BY <2>1, RollbackType DEF Ended
<1>2. CASE UNCHANGED vars
  BY <1>2 DEF vars, books, TypeInv, TypeOK, JobsKnown, RowsAreCommitted
<1> QED
  BY <1>1, <1>2, ArrivalType, StatementType, CommitType, CrashType DEF Next

(* Every variable keeps its shape, and a request that has arrived keeps the  *)
(* arguments of an operation it is allowed to be.                            *)
THEOREM TypeCorrect == Spec => []TypeOK
<1>1. Init => TypeInv
  BY TypeInit
<1>2. TypeInv /\ [Next]_vars => TypeInv'
  BY TypeStep
<1>3. TypeInv => TypeOK
  BY DEF TypeInv
<1> QED
  BY <1>1, <1>2, <1>3, PTL DEF Spec

-----------------------------------------------------------------------------
(* The books balance: Spec => []BalanceMatchesLedger, for any set of users,  *)
(* requests and amounts, as long as nobody saves a profile form and no two   *)
(* requests delete (SafeOperations).  The invariant BooksInv says that a row *)
(* lock is held by the request that updated the row, that what it wrote is   *)
(* the committed balance plus its own updates, and that it commits exactly   *)
(* as many updates as rows of transactions.                                  *)

LEMMA WorthAdd ==
  ASSUME NEW j \in Job, NEW S \in SUBSET Sides, NEW s \in Sides \ S, NEW u
  PROVE  Worth(j, S \cup {s}, u)
           = Worth(j, S, u) + (IF j.who[s] = u THEN j.val[s] ELSE 0)
BY DEF Worth, Job, Sides

LEMMA WorthSame ==
  ASSUME NEW j \in Job, NEW S \in SUBSET Sides, NEW s \in Sides, NEW u, j.who[s] # u
  PROVE  Worth(j, S \cup {s}, u) = Worth(j, S, u)
BY DEF Worth, Job, Sides

LEMMA WorthNothing ==
  ASSUME NEW j \in Job, NEW S \in SUBSET Sides, NEW u, \A s \in S : j.who[s] # u
  PROVE  Worth(j, S, u) = 0
BY DEF Worth, Job, Sides

LEMMA BooksInit == Init => BooksInv
<1> SUFFICES ASSUME Init PROVE BooksInv
  OBVIOUS
<1>1. Quiet /\ LocksAreUpdates /\ PendingIsDelta
  BY NoRequestAssumption DEF Init, Quiet, LocksAreUpdates, PendingIsDelta
<1>2. \A r \in Requests : pc[r] \notin Statements
  BY DEF Init, Statements
<1>3. BalanceMatchesLedger
  BY DEF Init, BalanceMatchesLedger
<1> QED
  BY <1>1, <1>2, <1>3 DEF BooksInv, SnapshotIsCurrent

-----------------------------------------------------------------------------
(* The row-level part of the invariant under each kind of step. *)
RowInv == Quiet /\ LocksAreUpdates /\ PendingIsDelta /\ SnapshotIsCurrent

(* UPDATE: the row is locked and moves by the value of one more side. *)
LEMMA UpdateRows ==
  ASSUME TypeInv, RowInv, NEW r \in Requests, NEW s \in Sides,
         pc[r] \in Statements, NEW stmt \in Statements, Goto(r, stmt),
         s \notin updated[r],
         Write(r, job[r].who[s], Current(r, job[r].who[s]) + job[r].val[s]),
         updated' = [updated EXCEPT ![r] = @ \cup {s}],
         UNCHANGED <<books, job, stale, logged>>
  PROVE  RowInv'
<1> DEFINE u == job[r].who[s]
<1>1. job[r] \in Job /\ u \in Users /\ job[r].val[s] \in Int
  BY JobFacts DEF Statements
<1>0. updated[r] \in SUBSET Sides /\ updated'[r] = updated[r] \cup {s}
  BY DEF TypeInv, TypeOK
<1>2. Quiet'
  BY DEF RowInv, Quiet, TypeInv, TypeOK, Goto, books
<1>3. LocksAreUpdates'
  BY <1>1, NoRequestAssumption DEF RowInv, LocksAreUpdates, TypeInv, TypeOK, Write, books
<1>4. PendingIsDelta'
  <2> SUFFICES ASSUME NEW q \in Requests, NEW w \in Users, lock'[w] = q
               PROVE  view'[q][w] = balance[w] + Worth(job[q], updated'[q], w)
    BY DEF PendingIsDelta, books
  <2>1. CASE q # r
    <3>1. lock[w] = q /\ view'[q] = view[q] /\ updated'[q] = updated[q]
      BY <2>1, <1>1 DEF Write, TypeInv, TypeOK
    <3> QED
      BY <3>1 DEF RowInv, PendingIsDelta
  <2>2. CASE q = r /\ w = u
    <3>1. view'[r][u] = Current(r, u) + job[r].val[s]
      BY <1>1 DEF Write, TypeInv, TypeOK
    <3>2. Current(r, u) = balance[u] + Worth(job[r], updated[r], u)
      <4>1. CASE lock[u] = r
        BY <4>1, <1>1 DEF Current, RowInv, PendingIsDelta
      <4>2. CASE lock[u] # r
        <5>0. \A t \in updated[r] : job[r].who[t] # u
          BY <4>2, <1>1 DEF RowInv, LocksAreUpdates
        <5>1. Worth(job[r], updated[r], u) = 0
          BY <5>0, <1>0, <1>1, WorthNothing
        <5> QED
          BY <4>2, <5>1, <1>1 DEF Current, TypeInv, TypeOK
      <4> QED
        BY <4>1, <4>2
    <3>4. Worth(job[r], updated'[r], u) = Worth(job[r], updated[r], u) + job[r].val[s]
      <4>1. Worth(job[r], updated[r] \cup {s}, u)
              = Worth(job[r], updated[r], u) + (IF u = u THEN job[r].val[s] ELSE 0)
        BY <1>0, <1>1, WorthAdd
      <4> QED
        BY <4>1, <1>0
    <3>5. Worth(job[r], updated[r], u) \in Int /\ balance[u] \in Int
      BY <1>1, WorthType DEF TypeInv, TypeOK
    <3> QED
      BY <2>2, <1>1, <3>1, <3>2, <3>4, <3>5
  <2>3. CASE q = r /\ w # u
    <3>1. lock[w] = r /\ view'[r][w] = view[r][w]
      BY <2>3, <1>1 DEF Write, TypeInv, TypeOK
    <3>3. Worth(job[r], updated'[r], w) = Worth(job[r], updated[r], w)
      BY <1>0, <1>1, <2>3, WorthSame
    <3>4. Worth(job[r], updated[r], w) \in Int
      BY <1>1, WorthType
    <3> QED
      BY <2>3, <3>1, <3>3, <3>4 DEF RowInv, PendingIsDelta
  <2> QED
    BY <2>1, <2>2, <2>3
<1>5. SnapshotIsCurrent'
  <2> SUFFICES ASSUME NEW q \in Requests, NEW w \in Users,
                      pc'[q] \in Statements, job[q].kind \in SodadKinds,
                      w \notin stale[q], lock'[w] # q
               PROVE  view'[q][w] = balance[w]
    BY DEF SnapshotIsCurrent, books
  <2>1. pc[q] \in Statements
    BY DEF Goto, TypeInv, TypeOK
  <2>2. lock[w] # q
    BY <1>1, NoRequestAssumption DEF Write, TypeInv, TypeOK
  <2>3. view'[q][w] = view[q][w]
    BY <1>1 DEF Write, TypeInv, TypeOK
  <2> QED
    BY <2>1, <2>2, <2>3 DEF RowInv, SnapshotIsCurrent
<1> QED
  BY <1>2, <1>3, <1>4, <1>5 DEF RowInv

(* Any other statement of a running request leaves the rows alone. *)
LEMMA OtherStatementRows ==
  ASSUME TypeInv, RowInv, NEW r \in Requests,
         pc[r] \in Statements, NEW stmt \in Statements, Goto(r, stmt),
         UNCHANGED <<books, job, view, stale, updated, lock>>,
         \A q \in Requests \ {r} : logged'[q] = logged[q]
  PROVE  RowInv'
<1>1. Quiet'
  BY DEF RowInv, Quiet, TypeInv, TypeOK, Goto
<1>2. LocksAreUpdates' /\ PendingIsDelta'
  BY DEF RowInv, LocksAreUpdates, PendingIsDelta, books
<1>3. SnapshotIsCurrent'
  BY DEF RowInv, SnapshotIsCurrent, TypeInv, TypeOK, Goto, books
<1> QED
  BY <1>1, <1>2, <1>3 DEF RowInv

(* A request arrives: it holds nothing, and what it read is committed. *)
LEMMA ArriveRows ==
  ASSUME TypeInv, RowInv, NEW r \in Requests, NEW j \in Job, Arrive(r, j),
         NEW stmt \in Statements \cup Ended, Goto(r, stmt),
         \A q \in Requests \ {r} : view'[q] = view[q] /\ stale'[q] = stale[q],
         j.kind \in SodadKinds /\ stmt \in Statements => view'[r] = balance
  PROVE  RowInv'
<1>1. updated[r] = {} /\ logged[r] = {} /\ job' = [job EXCEPT ![r] = j]
  BY DEF Arrive, RowInv, Quiet, Statements
<1>2. \A u \in Users : lock[u] # r
  BY <1>1 DEF RowInv, LocksAreUpdates
<1>3. Quiet'
  BY <1>1 DEF RowInv, Quiet, Goto, Arrive, TypeInv, TypeOK
<1>4. LocksAreUpdates'
  BY <1>1, <1>2 DEF RowInv, LocksAreUpdates, Arrive, TypeInv, TypeOK
<1>5. PendingIsDelta'
  <2> SUFFICES ASSUME NEW q \in Requests, NEW w \in Users, lock[w] = q
               PROVE  view'[q][w] = balance[w] + Worth(job'[q], updated[q], w)
    BY DEF PendingIsDelta, Arrive
  <2>1. q # r
    BY <1>2
  <2>2. view'[q] = view[q] /\ job'[q] = job[q]
    BY <2>1, <1>1 DEF TypeInv, TypeOK
  <2> QED
    BY <2>2 DEF RowInv, PendingIsDelta
<1>6. SnapshotIsCurrent'
  <2> SUFFICES ASSUME NEW q \in Requests, NEW w \in Users,
                      pc'[q] \in Statements, job'[q].kind \in SodadKinds,
                      w \notin stale'[q], lock[w] # q
               PROVE  view'[q][w] = balance[w]
    BY DEF SnapshotIsCurrent, Arrive
  <2>1. CASE q = r
    BY <2>1, <1>1 DEF Goto, TypeInv, TypeOK
  <2>2. CASE q # r
    <3>1. pc[q] \in Statements /\ job[q].kind \in SodadKinds
      BY <2>2, <1>1 DEF Goto, TypeInv, TypeOK
    <3> QED
      BY <2>2, <3>1 DEF RowInv, SnapshotIsCurrent
  <2> QED
    BY <2>1, <2>2
<1> QED
  BY <1>3, <1>4, <1>5, <1>6 DEF RowInv

(* COMMIT: the rows of r become the committed ones, stale to the others. *)
LEMMA CommitRows ==
  ASSUME TypeInv, RowInv, NEW r \in Requests, Commit(r)
  PROVE  RowInv'
<1>1. /\ pc' = [pc EXCEPT ![r] = "committed"] /\ pc[r] = "commit"
      /\ lock' = [u \in Users |-> IF lock[u] = r THEN NoRequest ELSE lock[u]]
      /\ view' = [view EXCEPT ![r] = [u \in Users |-> 0]]
      /\ updated' = [updated EXCEPT ![r] = {}]
      /\ logged' = [logged EXCEPT ![r] = {}]
      /\ job' = job
      /\ \A u \in Users : lock[u] # r => balance'[u] = balance[u]
  BY DEF Commit, Finish, Goto
<1>2. Quiet'
  BY <1>1 DEF RowInv, Quiet, TypeInv, TypeOK
<1>3. LocksAreUpdates'
  BY <1>1, NoRequestAssumption DEF RowInv, LocksAreUpdates, TypeInv, TypeOK
<1>4. PendingIsDelta'
  <2> SUFFICES ASSUME NEW q \in Requests, NEW w \in Users, lock'[w] = q
               PROVE  view'[q][w] = balance'[w] + Worth(job[q], updated'[q], w)
    BY <1>1 DEF PendingIsDelta
  <2>1. q # r /\ lock[w] = q
    BY <1>1, NoRequestAssumption
  <2>2. view'[q] = view[q] /\ updated'[q] = updated[q] /\ balance'[w] = balance[w]
    BY <1>1, <2>1 DEF TypeInv, TypeOK
  <2> QED
    BY <2>1, <2>2 DEF RowInv, PendingIsDelta
<1>5. SnapshotIsCurrent'
  <2> SUFFICES ASSUME NEW q \in Requests, NEW w \in Users,
                      pc'[q] \in Statements, job[q].kind \in SodadKinds,
                      w \notin stale'[q], lock'[w] # q
               PROVE  view'[q][w] = balance'[w]
    BY <1>1 DEF SnapshotIsCurrent
  <2>1. q # r /\ pc[q] \in Statements
    BY <1>1 DEF TypeInv, TypeOK, Statements
  <2>2. w \notin stale[q] /\ lock[w] # r
    BY <2>1 DEF Commit, Running, Statements, Ended
  <2>3. lock[w] # q /\ view'[q] = view[q] /\ balance'[w] = balance[w]
    BY <1>1, <2>1, <2>2 DEF TypeInv, TypeOK
  <2> QED
    BY <2>1, <2>2, <2>3 DEF RowInv, SnapshotIsCurrent
<1> QED
  BY <1>2, <1>3, <1>4, <1>5 DEF RowInv

(* Requests that end without committing leave the rows of the others alone. *)
LEMMA DropRows ==
  ASSUME TypeInv, RowInv, NEW dead \in SUBSET Requests, NEW how \in Ended,
         pc' = [q \in Requests |-> IF q \in dead THEN how ELSE pc[q]],
         lock' = [u \in Users |-> IF lock[u] \in dead THEN NoRequest ELSE lock[u]],
         view' = [q \in Requests |-> IF q \in dead THEN [u \in Users |-> 0] ELSE view[q]],
         stale' = [q \in Requests |-> IF q \in dead THEN {} ELSE stale[q]],
         updated' = [q \in Requests |-> IF q \in dead THEN {} ELSE updated[q]],
         logged' = [q \in Requests |-> IF q \in dead THEN {} ELSE logged[q]],
         UNCHANGED <<balance, job>>
  PROVE  RowInv'
<1>1. \A q \in Requests : pc'[q] \in Statements => q \notin dead /\ pc[q] \in Statements
  BY DEF Statements, Ended
<1>2. \A q \in Requests \ dead : pc'[q] = pc[q]
  OBVIOUS
<1>3. Quiet'
  BY <1>1, <1>2 DEF RowInv, Quiet
<1>4. LocksAreUpdates'
  BY NoRequestAssumption DEF RowInv, LocksAreUpdates
<1>5. PendingIsDelta'
  <2> SUFFICES ASSUME NEW q \in Requests, NEW w \in Users, lock'[w] = q
               PROVE  view'[q][w] = balance[w] + Worth(job[q], updated'[q], w)
    BY DEF PendingIsDelta
  <2>1. q \notin dead /\ lock[w] = q
    BY NoRequestAssumption
  <2> QED
    BY <2>1 DEF RowInv, PendingIsDelta
<1>6. SnapshotIsCurrent'
  <2> SUFFICES ASSUME NEW q \in Requests, NEW w \in Users,
                      pc'[q] \in Statements, job[q].kind \in SodadKinds,
                      w \notin stale'[q], lock'[w] # q
               PROVE  view'[q][w] = balance[w]
    BY DEF SnapshotIsCurrent
  <2>1. q \notin dead /\ pc[q] \in Statements
    BY <1>1
  <2>2. w \notin stale[q] /\ lock[w] # q
    BY <2>1
  <2> QED
    BY <2>1, <2>2 DEF RowInv, SnapshotIsCurrent
<1> QED
  BY <1>3, <1>4, <1>5, <1>6 DEF RowInv

-----------------------------------------------------------------------------
(* What each request has done so far. *)
Forward == \A r \in Requests : pc[r] \in Statements => Progress(r) /\ DoomedStand(r)

(* r goes on to stmt, having updated U and logged L, and commits nothing. *)
Moves(r, stmt, U, L) ==
  /\ Goto(r, stmt)
  /\ updated' = [updated EXCEPT ![r] = U]
  /\ logged' = [logged EXCEPT ![r] = L]
  /\ UNCHANGED <<books, job>>

LEMMA MovesForward ==
  ASSUME TypeInv, Forward, NEW r \in Requests, NEW stmt \in Statements,
         NEW U, NEW L, Moves(r, stmt, U, L),
         Progress(r)' /\ DoomedStand(r)'
  PROVE  Forward'
<1> SUFFICES ASSUME NEW q \in Requests, pc'[q] \in Statements
             PROVE  Progress(q)' /\ DoomedStand(q)'
  BY DEF Forward
<1>1. CASE q = r
  BY <1>1
<1>2. CASE q # r
  <2>1. pc'[q] = pc[q] /\ updated'[q] = updated[q] /\ logged'[q] = logged[q]
    BY <1>2 DEF Moves, Goto, TypeInv, TypeOK
  <2>2. job' = job /\ rows' = rows
    BY DEF Moves, books
  <2>3. Progress(q) /\ DoomedStand(q)
    BY <2>1 DEF Forward
  <2>4. Progress(q)'
    BY <2>1, <2>2, <2>3 DEF Progress, At
  <2>5. DoomedStand(q)'
    BY <2>1, <2>2, <2>3 DEF DoomedStand
  <2> QED
    BY <2>4, <2>5
<1> QED
  BY <1>1, <1>2

(* The three forms of UPDATE agree on a row the request may write. *)
LEMMA UpdateMoves ==
  ASSUME TypeInv, RowInv, NEW r \in Requests, NEW s \in Sides, pc[r] \in Statements,
         NEW stmt \in Statements, Goto(r, stmt), s \notin updated[r],
         \/ job[r].kind \in SodadKinds /\ WriteBack(r, s)
         \/ Increment(r, s)
         \/ SaveUser(r, s)
  PROVE  RowInv' /\ Moves(r, stmt, updated[r] \cup {s}, logged[r])
<1> DEFINE u == job[r].who[s]
<1>1. u \in Users
  BY JobFacts DEF Statements
<1>2. Write(r, u, Current(r, u) + job[r].val[s])
  <2>1. CASE job[r].kind \in SodadKinds /\ WriteBack(r, s)
    <3>1. Current(r, u) = view[r][u]
      BY <2>1, <1>1 DEF Current, WriteBack, RowInv, SnapshotIsCurrent
    <3> QED
      BY <2>1, <3>1 DEF WriteBack
  <2>2. CASE Increment(r, s)
    BY <2>2 DEF Increment
  <2>3. CASE SaveUser(r, s)
    BY <2>3 DEF SaveUser
  <2> QED
    BY <2>1, <2>2, <2>3
<1>3. /\ updated' = [updated EXCEPT ![r] = @ \cup {s}]
      /\ UNCHANGED <<books, job, stale, logged>>
  BY DEF WriteBack, Increment, SaveUser
<1>4. RowInv'
  BY <1>2, <1>3, UpdateRows
<1>5. Moves(r, stmt, updated[r] \cup {s}, logged[r])
  BY <1>3 DEF Moves, TypeInv, TypeOK
<1> QED
  BY <1>4, <1>5

LEMMA InsertMoves ==
  ASSUME TypeInv, RowInv, NEW r \in Requests, NEW s \in Sides, pc[r] \in Statements,
         NEW stmt \in Statements, Goto(r, stmt), Insert(r, s)
  PROVE  RowInv' /\ Moves(r, stmt, updated[r], logged[r] \cup {s})
<1>1. RowInv'
  BY OtherStatementRows DEF Insert, TypeInv, TypeOK
<1>2. Moves(r, stmt, updated[r], logged[r] \cup {s})
  BY DEF Moves, Insert, TypeInv, TypeOK
<1> QED
  BY <1>1, <1>2

(* A statement that only reads. *)
LEMMA ReadMoves ==
  ASSUME TypeInv, RowInv, NEW r \in Requests, pc[r] \in Statements,
         NEW stmt \in Statements, Goto(r, stmt),
         UNCHANGED <<books, job, view, stale, updated, logged, lock>>
  PROVE  RowInv' /\ Moves(r, stmt, updated[r], logged[r])
<1>1. RowInv'
  BY OtherStatementRows
<1>2. Moves(r, stmt, updated[r], logged[r])
  BY DEF Moves, TypeInv, TypeOK
<1> QED
  BY <1>1, <1>2

(* Requests that are dropped: nothing else moves. *)
LEMMA DropForward ==
  ASSUME TypeInv, Forward, NEW dead \in SUBSET Requests, NEW how \in Ended,
         pc' = [q \in Requests |-> IF q \in dead THEN how ELSE pc[q]],
         updated' = [q \in Requests |-> IF q \in dead THEN {} ELSE updated[q]],
         logged' = [q \in Requests |-> IF q \in dead THEN {} ELSE logged[q]],
         UNCHANGED <<job, rows>>
  PROVE  Forward'
<1> SUFFICES ASSUME NEW q \in Requests, pc'[q] \in Statements
             PROVE  Progress(q)' /\ DoomedStand(q)'
  BY DEF Forward
<1>1. q \notin dead /\ pc'[q] = pc[q] /\ pc[q] \in Statements
  BY DEF Statements, Ended
<1>2. Progress(q) /\ DoomedStand(q) /\ updated'[q] = updated[q] /\ logged'[q] = logged[q]
  BY <1>1 DEF Forward
<1>3. Progress(q)'
  BY <1>1, <1>2 DEF Progress, At
<1>4. DoomedStand(q)'
  BY <1>1, <1>2 DEF DoomedStand
<1> QED
  BY <1>3, <1>4

LEMMA RollbackBooks ==
  ASSUME TypeInv, RowInv, Forward, NEW r \in Requests, NEW how \in Ended, Rollback(r, how)
  PROVE  RowInv' /\ Forward' /\ UNCHANGED books
<1> DEFINE dead == {r}
<1>1. /\ pc' = [q \in Requests |-> IF q \in dead THEN how ELSE pc[q]]
      /\ lock' = [u \in Users |-> IF lock[u] \in dead THEN NoRequest ELSE lock[u]]
      /\ view' = [q \in Requests |-> IF q \in dead THEN [u \in Users |-> 0] ELSE view[q]]
      /\ stale' = [q \in Requests |-> IF q \in dead THEN {} ELSE stale[q]]
      /\ updated' = [q \in Requests |-> IF q \in dead THEN {} ELSE updated[q]]
      /\ logged' = [q \in Requests |-> IF q \in dead THEN {} ELSE logged[q]]
      /\ UNCHANGED <<books, job>>
  BY DEF Rollback, Finish, Goto, TypeInv, TypeOK
<1>2. UNCHANGED <<balance, rows>>
  BY <1>1 DEF books
<1>3. dead \in SUBSET Requests
  OBVIOUS
<1> HIDE DEF dead
<1>4. RowInv'
  BY <1>1, <1>2, <1>3, DropRows
<1>5. Forward'
  BY <1>1, <1>2, <1>3, DropForward
<1> QED
  BY <1>1, <1>4, <1>5

LEMMA CrashBooks ==
  ASSUME TypeInv, RowInv, Forward, SodadCrash
  PROVE  RowInv' /\ Forward' /\ UNCHANGED books
<1> DEFINE dead == {r \in Requests : Running(r) /\ job[r].kind \in SodadKinds}
<1>1. /\ pc' = [q \in Requests |-> IF q \in dead THEN "lost" ELSE pc[q]]
      /\ lock' = [u \in Users |-> IF lock[u] \in dead THEN NoRequest ELSE lock[u]]
      /\ view' = [q \in Requests |-> IF q \in dead THEN [u \in Users |-> 0] ELSE view[q]]
      /\ stale' = [q \in Requests |-> IF q \in dead THEN {} ELSE stale[q]]
      /\ updated' = [q \in Requests |-> IF q \in dead THEN {} ELSE updated[q]]
      /\ logged' = [q \in Requests |-> IF q \in dead THEN {} ELSE logged[q]]
      /\ UNCHANGED <<books, job>>
  BY DEF SodadCrash
<1>2. UNCHANGED <<balance, rows>> /\ "lost" \in Ended
  BY <1>1 DEF books, Ended
<1>3. dead \in SUBSET Requests
  OBVIOUS
<1> HIDE DEF dead
<1>4. RowInv'
  BY <1>1, <1>2, <1>3, DropRows
<1>5. Forward'
  BY <1>1, <1>2, <1>3, DropForward
<1> QED
  BY <1>1, <1>4, <1>5

-----------------------------------------------------------------------------
(* Each statement of a running request keeps the invariant and the books. *)
LEMMA StatementBooks ==
  ASSUME SafeOperations, TypeInv, RowInv, Forward, NEW r \in Requests, Statement(r)
  PROVE  RowInv' /\ Forward' /\ UNCHANGED books
<1>a. /\ "own" \in Sides /\ "peer" \in Sides
      /\ {"own"} \cup {"peer"} = Sides /\ {"peer"} \cup {"own"} = Sides
      /\ {} \cup {"own"} = {"own"} /\ {} \cup {"peer"} = {"peer"}
      /\ {"own"} # {} /\ Sides # {} /\ {"own"} # Sides /\ "own" # "peer"
  BY DEF Sides
<1>b. pc[r] \in Statements => Progress(r) /\ DoomedStand(r)
  BY DEF Forward
<1>c. ASSUME pc[r] \in Statements, NEW stmt \in Statements, NEW U, NEW L,
             RowInv' /\ Moves(r, stmt, U, L),
             Progress(r)' /\ DoomedStand(r)'
      PROVE  RowInv' /\ Forward' /\ UNCHANGED books
  BY <1>c, MovesForward DEF Moves
<1>d. ASSUME NEW stmt, NEW U, NEW L, Moves(r, stmt, U, L)
      PROVE  pc'[r] = stmt /\ updated'[r] = U /\ logged'[r] = L
  BY <1>d DEF Moves, Goto, TypeInv, TypeOK
<1>1. CASE BalanceTransactionUpdate(r)
  <2>1. pc[r] = "updateOwn" /\ pc[r] \in Statements /\ Goto(r, "insertOwn") /\ "insertOwn" \in Statements
    BY <1>1 DEF BalanceTransactionUpdate, Statements
  <2>2. "own" \notin updated[r]
    BY <1>b, <1>1, <2>1 DEF BalanceTransactionUpdate, Progress, At
  <2>3. RowInv' /\ Moves(r, "insertOwn", updated[r] \cup {"own"}, logged[r])
    BY <1>a, <1>1, <2>1, <2>2, UpdateMoves DEF BalanceTransactionUpdate, SodadKinds
  <2>4. Progress(r)' /\ DoomedStand(r)'
    BY <1>a, <1>b, <1>d, <1>1, <2>1, <2>3 DEF BalanceTransactionUpdate, Progress, At, DoomedStand, Moves, books
  <2> QED
    BY <1>c, <2>1, <2>3, <2>4
<1>2. CASE BalanceTransactionInsert(r)
  <2>1. pc[r] = "insertOwn" /\ pc[r] \in Statements /\ Goto(r, "commit") /\ "commit" \in Statements
    BY <1>2 DEF BalanceTransactionInsert, Statements
  <2>3. RowInv' /\ Moves(r, "commit", updated[r], logged[r] \cup {"own"})
    BY <1>a, <1>2, <2>1, InsertMoves DEF BalanceTransactionInsert
  <2>4. Progress(r)' /\ DoomedStand(r)'
    BY <1>a, <1>b, <1>d, <1>2, <2>1, <2>3 DEF BalanceTransactionInsert, Progress, At, DoomedStand, Moves, books
  <2> QED
    BY <1>c, <2>1, <2>3, <2>4
<1>3. CASE TransferDebit(r)
  <2>1. pc[r] = "debit" /\ pc[r] \in Statements /\ Goto(r, "findTarget") /\ "findTarget" \in Statements
    BY <1>3 DEF TransferDebit, Statements
  <2>2. "own" \notin updated[r]
    BY <1>b, <1>3, <2>1 DEF TransferDebit, Progress, At
  <2>3. RowInv' /\ Moves(r, "findTarget", updated[r] \cup {"own"}, logged[r])
    BY <1>a, <1>3, <2>1, <2>2, UpdateMoves DEF TransferDebit, SodadKinds
  <2>4. Progress(r)' /\ DoomedStand(r)'
    BY <1>a, <1>b, <1>d, <1>3, <2>1, <2>3 DEF TransferDebit, Progress, At, DoomedStand, Moves, books
  <2> QED
    BY <1>c, <2>1, <2>3, <2>4
<1>4. CASE TransferCredit(r)
  <2>1. pc[r] = "credit" /\ pc[r] \in Statements /\ Goto(r, "insertOwn") /\ "insertOwn" \in Statements
    BY <1>4 DEF TransferCredit, Statements
  <2>2. "peer" \notin updated[r]
    BY <1>b, <1>4, <2>1 DEF TransferCredit, Progress, At
  <2>3. RowInv' /\ Moves(r, "insertOwn", updated[r] \cup {"peer"}, logged[r])
    BY <1>a, <1>4, <2>1, <2>2, UpdateMoves DEF TransferCredit, SodadKinds
  <2>4. Progress(r)' /\ DoomedStand(r)'
    BY <1>a, <1>b, <1>d, <1>4, <2>1, <2>3 DEF TransferCredit, Progress, At, DoomedStand, Moves, books
  <2> QED
    BY <1>c, <2>1, <2>3, <2>4
<1>5. CASE TransferInsertOwn(r)
  <2>1. pc[r] = "insertOwn" /\ pc[r] \in Statements /\ Goto(r, "insertPeer") /\ "insertPeer" \in Statements
    BY <1>5 DEF TransferInsertOwn, Statements
  <2>3. RowInv' /\ Moves(r, "insertPeer", updated[r], logged[r] \cup {"own"})
    BY <1>a, <1>5, <2>1, InsertMoves DEF TransferInsertOwn
  <2>4. Progress(r)' /\ DoomedStand(r)'
    BY <1>a, <1>b, <1>d, <1>5, <2>1, <2>3 DEF TransferInsertOwn, Progress, At, DoomedStand, Moves, books
  <2> QED
    BY <1>c, <2>1, <2>3, <2>4
<1>6. CASE TransferInsertPeer(r)
  <2>1. pc[r] = "insertPeer" /\ pc[r] \in Statements /\ Goto(r, "commit") /\ "commit" \in Statements
    BY <1>6 DEF TransferInsertPeer, Statements
  <2>3. RowInv' /\ Moves(r, "commit", updated[r], logged[r] \cup {"peer"})
    BY <1>a, <1>6, <2>1, InsertMoves DEF TransferInsertPeer
  <2>4. Progress(r)' /\ DoomedStand(r)'
    BY <1>a, <1>b, <1>d, <1>6, <2>1, <2>3 DEF TransferInsertPeer, Progress, At, DoomedStand, Moves, books
  <2> QED
    BY <1>c, <2>1, <2>3, <2>4
<1>7. CASE DepositUpdate(r)
  <2>1. pc[r] = "updateOwn" /\ pc[r] \in Statements /\ Goto(r, "insertOwn") /\ "insertOwn" \in Statements
    BY <1>7 DEF DepositUpdate, Statements
  <2>2. "own" \notin updated[r]
    BY <1>b, <1>7, <2>1 DEF DepositUpdate, Progress, At
  <2>3. RowInv' /\ Moves(r, "insertOwn", updated[r] \cup {"own"}, logged[r])
    BY <1>a, <1>7, <2>1, <2>2, UpdateMoves DEF DepositUpdate, SodadKinds
  <2>4. Progress(r)' /\ DoomedStand(r)'
    BY <1>a, <1>b, <1>d, <1>7, <2>1, <2>3 DEF DepositUpdate, Progress, At, DoomedStand, Moves, books
  <2> QED
    BY <1>c, <2>1, <2>3, <2>4
<1>8. CASE DepositInsert(r)
  <2>1. pc[r] = "insertOwn" /\ pc[r] \in Statements /\ Goto(r, "commit") /\ "commit" \in Statements
    BY <1>8 DEF DepositInsert, Statements
  <2>3. RowInv' /\ Moves(r, "commit", updated[r], logged[r] \cup {"own"})
    BY <1>a, <1>8, <2>1, InsertMoves DEF DepositInsert
  <2>4. Progress(r)' /\ DoomedStand(r)'
    BY <1>a, <1>b, <1>d, <1>8, <2>1, <2>3 DEF DepositInsert, Progress, At, DoomedStand, Moves, books
  <2> QED
    BY <1>c, <2>1, <2>3, <2>4
<1>9. CASE BuyInsert(r)
  <2>1. pc[r] = "insertOwn" /\ pc[r] \in Statements /\ Goto(r, "updateOwn") /\ "updateOwn" \in Statements
    BY <1>9 DEF BuyInsert, Statements
  <2>3. RowInv' /\ Moves(r, "updateOwn", updated[r], logged[r] \cup {"own"})
    BY <1>a, <1>9, <2>1, InsertMoves DEF BuyInsert
  <2>4. Progress(r)' /\ DoomedStand(r)'
    BY <1>a, <1>b, <1>d, <1>9, <2>1, <2>3 DEF BuyInsert, Progress, At, DoomedStand, Moves, books
  <2> QED
    BY <1>c, <2>1, <2>3, <2>4
<1>10. CASE BuyUpdate(r)
  <2>1. pc[r] = "updateOwn" /\ pc[r] \in Statements /\ Goto(r, "commit") /\ "commit" \in Statements
    BY <1>10 DEF BuyUpdate, Statements
  <2>2. "own" \notin updated[r]
    BY <1>b, <1>10, <2>1 DEF BuyUpdate, Progress, At
  <2>3. RowInv' /\ Moves(r, "commit", updated[r] \cup {"own"}, logged[r])
    BY <1>a, <1>10, <2>1, <2>2, UpdateMoves DEF BuyUpdate, SodadKinds
  <2>4. Progress(r)' /\ DoomedStand(r)'
    BY <1>a, <1>b, <1>d, <1>10, <2>1, <2>3 DEF BuyUpdate, Progress, At, DoomedStand, Moves, books
  <2> QED
    BY <1>c, <2>1, <2>3, <2>4
<1>11. CASE NewTransactionInsertPeer(r)
  <2>1. pc[r] = "insertPeer" /\ pc[r] \in Statements /\ Goto(r, "savePeer") /\ "savePeer" \in Statements
    BY <1>11 DEF NewTransactionInsertPeer, Statements
  <2>3. RowInv' /\ Moves(r, "savePeer", updated[r], logged[r] \cup {"peer"})
    BY <1>a, <1>11, <2>1, InsertMoves DEF NewTransactionInsertPeer
  <2>4. Progress(r)' /\ DoomedStand(r)'
    BY <1>a, <1>b, <1>d, <1>11, <2>1, <2>3 DEF NewTransactionInsertPeer, Progress, At, DoomedStand, Moves, books
  <2> QED
    BY <1>c, <2>1, <2>3, <2>4
<1>12. CASE NewTransactionSavePeer(r)
  <2>1. pc[r] = "savePeer" /\ pc[r] \in Statements /\ Goto(r, "insertOwn") /\ "insertOwn" \in Statements
    BY <1>12 DEF NewTransactionSavePeer, Statements
  <2>2. "peer" \notin updated[r]
    BY <1>b, <1>12, <2>1 DEF NewTransactionSavePeer, Progress, At
  <2>3. RowInv' /\ Moves(r, "insertOwn", updated[r] \cup {"peer"}, logged[r])
    BY <1>a, <1>12, <2>1, <2>2, UpdateMoves DEF NewTransactionSavePeer, SodadKinds
  <2>4. Progress(r)' /\ DoomedStand(r)'
    BY <1>a, <1>b, <1>d, <1>12, <2>1, <2>3 DEF NewTransactionSavePeer, Progress, At, DoomedStand, Moves, books
  <2> QED
    BY <1>c, <2>1, <2>3, <2>4
<1>13. CASE NewTransactionInsertOwn(r)
  <2>1. pc[r] = "insertOwn" /\ pc[r] \in Statements /\ Goto(r, "saveOwn") /\ "saveOwn" \in Statements
    BY <1>13 DEF NewTransactionInsertOwn, Statements
  <2>3. RowInv' /\ Moves(r, "saveOwn", updated[r], logged[r] \cup {"own"})
    BY <1>a, <1>13, <2>1, InsertMoves DEF NewTransactionInsertOwn
  <2>4. Progress(r)' /\ DoomedStand(r)'
    BY <1>a, <1>b, <1>d, <1>13, <2>1, <2>3 DEF NewTransactionInsertOwn, Progress, At, DoomedStand, Moves, books
  <2> QED
    BY <1>c, <2>1, <2>3, <2>4
<1>14. CASE NewTransactionSaveOwn(r)
  <2>1. pc[r] = "saveOwn" /\ pc[r] \in Statements /\ Goto(r, "commit") /\ "commit" \in Statements
    BY <1>14 DEF NewTransactionSaveOwn, Statements
  <2>2. "own" \notin updated[r]
    BY <1>b, <1>14, <2>1 DEF NewTransactionSaveOwn, Progress, At
  <2>3. RowInv' /\ Moves(r, "commit", updated[r] \cup {"own"}, logged[r])
    BY <1>a, <1>14, <2>1, <2>2, UpdateMoves DEF NewTransactionSaveOwn, SodadKinds
  <2>4. Progress(r)' /\ DoomedStand(r)'
    BY <1>a, <1>b, <1>d, <1>14, <2>1, <2>3 DEF NewTransactionSaveOwn, Progress, At, DoomedStand, Moves, books
  <2> QED
    BY <1>c, <2>1, <2>3, <2>4
<1>15. CASE DeleteSavePeer(r)
  <2>1. pc[r] = "savePeer" /\ pc[r] \in Statements /\ Goto(r, "deletePeer") /\ "deletePeer" \in Statements
    BY <1>15 DEF DeleteSavePeer, Statements
  <2>2. "peer" \notin updated[r]
    BY <1>b, <1>15, <2>1 DEF DeleteSavePeer, Progress, At
  <2>3. RowInv' /\ Moves(r, "deletePeer", updated[r] \cup {"peer"}, logged[r])
    BY <1>a, <1>15, <2>1, <2>2, UpdateMoves DEF DeleteSavePeer, SodadKinds
  <2>4. Progress(r)' /\ DoomedStand(r)'
    BY <1>a, <1>b, <1>d, <1>15, <2>1, <2>3 DEF DeleteSavePeer, Progress, At, DoomedStand, Moves, books
  <2> QED
    BY <1>c, <2>1, <2>3, <2>4
<1>16. CASE DeleteSaveOwn(r)
  <2>1. pc[r] = "saveOwn" /\ pc[r] \in Statements /\ Goto(r, "commit") /\ "commit" \in Statements
    BY <1>16 DEF DeleteSaveOwn, Statements
  <2>2. "own" \notin updated[r]
    BY <1>b, <1>16, <2>1 DEF DeleteSaveOwn, Progress, At
  <2>3. RowInv' /\ Moves(r, "commit", updated[r] \cup {"own"}, logged[r])
    BY <1>a, <1>16, <2>1, <2>2, UpdateMoves DEF DeleteSaveOwn, SodadKinds
  <2>4. Progress(r)' /\ DoomedStand(r)'
    BY <1>a, <1>b, <1>d, <1>16, <2>1, <2>3 DEF DeleteSaveOwn, Progress, At, DoomedStand, Moves, books
  <2> QED
    BY <1>c, <2>1, <2>3, <2>4
<1>17. CASE TransferFindTarget(r)
  <2>1. CASE job[r].who["peer"] \in flags[r]
    BY <1>17, <2>1, RollbackBooks DEF TransferFindTarget, Ended
  <2>2. CASE job[r].who["peer"] \notin flags[r]
    <3>1. /\ pc[r] = "findTarget" /\ pc[r] \in Statements /\ "credit" \in Statements
          /\ Goto(r, "credit") /\ job[r].kind = "transfer"
          /\ UNCHANGED <<books, job, view, stale, updated, logged, lock>>
      BY <1>17, <2>2 DEF TransferFindTarget, Statements
    <3>2. RowInv' /\ Moves(r, "credit", updated[r], logged[r])
      BY <3>1, ReadMoves
    <3>3. Progress(r)' /\ DoomedStand(r)'
      BY <1>b, <1>d, <3>1, <3>2 DEF Progress, At, DoomedStand, Moves
    <3> QED
      BY <1>c, <3>1, <3>2, <3>3
  <2> QED
    BY <2>1, <2>2
<1>18. CASE NewTransactionForm(r)
  <2>1. /\ pc[r] = "form" /\ pc[r] \in Statements /\ "insertPeer" \in Statements
        /\ Goto(r, "insertPeer") /\ job[r].kind = "adminTransfer"
        /\ UNCHANGED <<books, job, view, stale, updated, logged, lock>>
    BY <1>18 DEF NewTransactionForm, Statements
  <2>2. RowInv' /\ Moves(r, "insertPeer", updated[r], logged[r])
    BY <2>1, ReadMoves
  <2>3. Progress(r)' /\ DoomedStand(r)'
    BY <1>b, <1>d, <2>1, <2>2 DEF Progress, At, DoomedStand, Moves
  <2> QED
    BY <1>c, <2>1, <2>2, <2>3
<1>19. CASE DeleteFind(r)
  <2>0. PICK stmt \in {"savePeer", "deleteOwn"} :
          /\ Goto(r, stmt)
          /\ stmt = "savePeer" => Other(job[r].side) \in rows[job[r].of]
    BY <1>19 DEF DeleteFind
  <2>1. /\ pc[r] = "deleteFind" /\ pc[r] \in Statements /\ stmt \in Statements
        /\ job[r].kind = "delete"
        /\ UNCHANGED <<books, job, view, stale, updated, logged, lock>>
    BY <1>19, <2>0 DEF DeleteFind, Statements
  <2>2. RowInv' /\ Moves(r, stmt, updated[r], logged[r])
    BY <2>0, <2>1, ReadMoves
  <2>3. Progress(r)' /\ DoomedStand(r)'
    BY <1>b, <1>d, <2>0, <2>1, <2>2 DEF Progress, At, DoomedStand, Moves, books
  <2> QED
    BY <1>c, <2>1, <2>2, <2>3
<1>20. CASE DeletePeer(r)
  <2>1. /\ pc[r] = "deletePeer" /\ pc[r] \in Statements /\ "deleteOwn" \in Statements
        /\ Goto(r, "deleteOwn") /\ job[r].kind = "delete"
    BY <1>20 DEF DeletePeer, Statements
  <2>2. Doomed(r, "peer")[2] \in rows[job[r].of]
    BY <1>b, <2>1 DEF Doomed, DoomedStand
  <2>3. Insert(r, "peer")
    BY <1>20, <2>2 DEF DeletePeer, DeleteRow
  <2>4. RowInv' /\ Moves(r, "deleteOwn", updated[r], logged[r] \cup {"peer"})
    BY <1>a, <2>1, <2>3, InsertMoves
  <2>5. Progress(r)' /\ DoomedStand(r)'
    BY <1>a, <1>b, <1>d, <2>1, <2>4 DEF Progress, At, DoomedStand, Moves, books
  <2> QED
    BY <1>c, <2>1, <2>4, <2>5
<1>21. CASE DeleteOwn(r)
  <2>1. /\ pc[r] = "deleteOwn" /\ pc[r] \in Statements /\ "saveOwn" \in Statements
        /\ Goto(r, "saveOwn") /\ job[r].kind = "delete"
    BY <1>21 DEF DeleteOwn, Statements
  <2>2. Doomed(r, "own")[2] \in rows[job[r].of]
    BY <1>b, <2>1 DEF Doomed, DoomedStand
  <2>3. Insert(r, "own")
    BY <1>21, <2>2 DEF DeleteOwn, DeleteRow
  <2>4. RowInv' /\ Moves(r, "saveOwn", updated[r], logged[r] \cup {"own"})
    BY <1>a, <2>1, <2>3, InsertMoves
  <2>5. Progress(r)' /\ DoomedStand(r)'
    BY <1>a, <1>b, <1>d, <2>1, <2>4 DEF Progress, At, DoomedStand, Moves, books
  <2> QED
    BY <1>c, <2>1, <2>4, <2>5
<1>22. CASE ProfileSave(r)
  <2>1. job[r].kind \in Allowed[r]
    BY <1>22 DEF ProfileSave, TypeInv, JobsKnown
  <2> QED
    BY <1>22, <2>1 DEF ProfileSave, SafeOperations
<1> QED
  BY <1>1, <1>2, <1>3, <1>4, <1>5, <1>6, <1>7, <1>8, <1>9, <1>10, <1>11, <1>12, <1>13, <1>14, <1>15, <1>16, <1>17, <1>18, <1>19, <1>20, <1>21, <1>22 DEF Statement

LEMMA ArrivalBooks ==
  ASSUME SafeOperations, TypeInv, RowInv, Forward, NEW r \in Requests, Arrival(r)
  PROVE  RowInv' /\ Forward' /\ UNCHANGED books
<1> DEFINE Rest(j, stmt) ==
      /\ Arrive(r, j) /\ Goto(r, stmt)
      /\ \A q \in Requests \ {r} : view'[q] = view[q] /\ stale'[q] = stale[q]
      /\ j.kind \in SodadKinds /\ stmt \in Statements => view'[r] = balance
<1>a. pc[r] = "idle" /\ updated[r] = {} /\ logged[r] = {}
  BY DEF Arrival, BalanceTransactionFind, TransferFind, MakeDeposit, BuyBarcode,
         NewTransaction, DeleteGet, ProfileGet, Arrive, RowInv, Quiet, Statements
<1>b. ASSUME NEW j \in Job, NEW stmt \in Statements \cup Ended, Rest(j, stmt),
             stmt \in Statements => Progress(r)' /\ DoomedStand(r)'
      PROVE  RowInv' /\ Forward' /\ UNCHANGED books
  <2>1. RowInv'
    BY <1>b, ArriveRows
  <2>2. UNCHANGED books
    BY <1>b DEF Arrive, books
  <2>3. Forward'
    <3> SUFFICES ASSUME NEW q \in Requests, pc'[q] \in Statements
                 PROVE  Progress(q)' /\ DoomedStand(q)'
      BY DEF Forward
    <3>1. CASE q = r
      BY <3>1, <1>b DEF Goto, TypeInv, TypeOK
    <3>2. CASE q # r
      <4>1. /\ pc'[q] = pc[q] /\ job'[q] = job[q] /\ rows' = rows
            /\ updated'[q] = updated[q] /\ logged'[q] = logged[q]
        BY <1>b, <3>2 DEF Arrive, Goto, TypeInv, TypeOK
      <4>2. Progress(q) /\ DoomedStand(q)
        BY <4>1 DEF Forward
      <4>3. Progress(q)'
        BY <4>1, <4>2 DEF Progress, At
      <4>4. DoomedStand(q)'
        BY <4>1, <4>2 DEF DoomedStand
      <4> QED
        BY <4>3, <4>4
    <3> QED
      BY <3>1, <3>2
  <2> QED
    BY <2>1, <2>2, <2>3
<1>c. ASSUME NEW j \in Job, NEW stmt, Rest(j, stmt)
      PROVE  /\ pc'[r] = stmt /\ job'[r] = j /\ rows' = rows
             /\ updated'[r] = {} /\ logged'[r] = {} /\ j.kind \in Allowed[r]
  BY <1>a, <1>c DEF Arrive, Goto, TypeInv, TypeOK
<1>1. CASE BalanceTransactionFind(r)
  <2>1. PICK u \in Users, x \in Amounts :
          Arrive(r, Single("purchase", u, x)) /\ Read(r) /\ Goto(r, "updateOwn")
    BY <1>1 DEF BalanceTransactionFind
  <2> DEFINE j == Single("purchase", u, x)
  <2>2. j \in Job /\ j.kind = "purchase" /\ "updateOwn" \in Statements
    BY SingleIsJob, AmountsAssumption DEF Single, Kinds, Statements
  <2> HIDE DEF j
  <2>3. Rest(j, "updateOwn")
    BY <2>1 DEF Read, TypeInv, TypeOK, j
  <2>4. Progress(r)' /\ DoomedStand(r)'
    BY <1>c, <2>2, <2>3 DEF Progress, At, DoomedStand
  <2> QED
    BY <1>b, <2>2, <2>3, <2>4
<1>2. CASE TransferFind(r)
  <2>1. PICK u \in Users, v \in Users, x \in Amounts, stmt \in {"debit", "failed"} :
          /\ Arrive(r, Double("transfer", u, v, x)) /\ Goto(r, stmt)
          /\ stmt = "debit" => Read(r)
          /\ stmt = "failed" => UNCHANGED <<view, flags, stale>>
    BY <1>2 DEF TransferFind
  <2> DEFINE j == Double("transfer", u, v, x)
  <2>2. j \in Job /\ j.kind = "transfer" /\ stmt \in Statements \cup Ended
    BY DoubleIsJob, AmountsAssumption DEF Double, Kinds, Statements, Ended
  <2> HIDE DEF j
  <2>3. Rest(j, stmt)
    BY <2>1 DEF Read, TypeInv, TypeOK, j, Statements
  <2>4. stmt \in Statements => Progress(r)' /\ DoomedStand(r)'
    BY <1>c, <2>1, <2>2, <2>3 DEF Progress, At, DoomedStand, Statements
  <2> QED
    BY <1>b, <2>2, <2>3, <2>4
<1>3. CASE MakeDeposit(r)
  <2>1. PICK u \in Users, x \in Amounts, stmt \in {"updateOwn", "failed"} :
          Arrive(r, Single("deposit", u, x)) /\ Goto(r, stmt) /\ UNCHANGED <<view, stale>>
    BY <1>3 DEF MakeDeposit
  <2> DEFINE j == Single("deposit", u, x)
  <2>2. j \in Job /\ j.kind = "deposit" /\ stmt \in Statements \cup Ended
    BY SingleIsJob, AmountsAssumption DEF Single, Kinds, Statements, Ended
  <2> HIDE DEF j
  <2>3. Rest(j, stmt)
    BY <2>1, <2>2 DEF j, SodadKinds
  <2>4. stmt \in Statements => Progress(r)' /\ DoomedStand(r)'
    BY <1>c, <2>1, <2>2, <2>3 DEF Progress, At, DoomedStand, Statements
  <2> QED
    BY <1>b, <2>2, <2>3, <2>4
<1>4. CASE BuyBarcode(r)
  <2>1. PICK u \in Users, x \in Amounts, stmt \in {"insertOwn", "failed"} :
          Arrive(r, Single("buy", u, x)) /\ Goto(r, stmt) /\ UNCHANGED <<view, stale>>
    BY <1>4 DEF BuyBarcode
  <2> DEFINE j == Single("buy", u, x)
  <2>2. j \in Job /\ j.kind = "buy" /\ stmt \in Statements \cup Ended
    BY SingleIsJob, AmountsAssumption DEF Single, Kinds, Statements, Ended
  <2> HIDE DEF j
  <2>3. Rest(j, stmt)
    BY <2>1, <2>2 DEF j, SodadKinds
  <2>4. stmt \in Statements => Progress(r)' /\ DoomedStand(r)'
    BY <1>c, <2>1, <2>2, <2>3 DEF Progress, At, DoomedStand, Statements
  <2> QED
    BY <1>b, <2>2, <2>3, <2>4
<1>5. CASE NewTransaction(r)
  <2>1. PICK u \in Users, v \in Users, x \in Amounts, kind \in {"adminPost", "adminTransfer"} :
          /\ Arrive(r, IF kind = "adminPost" THEN Single(kind, u, x) ELSE Double(kind, u, v, x))
          /\ Goto(r, IF kind = "adminPost" THEN "insertOwn" ELSE "form")
          /\ UNCHANGED <<view, stale>>
    BY <1>5 DEF NewTransaction
  <2> DEFINE j == IF kind = "adminPost" THEN Single(kind, u, x) ELSE Double(kind, u, v, x)
             stmt == IF kind = "adminPost" THEN "insertOwn" ELSE "form"
  <2>2. kind \in Kinds /\ x \in Int /\ stmt \in Statements
    BY AmountsAssumption DEF Kinds, Statements
  <2>3. j \in Job
    BY <2>2, SingleIsJob, DoubleIsJob
  <2>4. j.kind = kind
    BY DEF Single, Double
  <2>5. Arrive(r, j) /\ Goto(r, stmt)
    BY <2>1
  <2>6. /\ kind = "adminPost" => stmt = "insertOwn"
        /\ kind = "adminTransfer" => stmt = "form"
    OBVIOUS
  <2> HIDE DEF j, stmt
  <2>7. Rest(j, stmt)
    BY <2>1, <2>4, <2>5 DEF SodadKinds
  <2>8. Progress(r)' /\ DoomedStand(r)'
    BY <1>c, <2>1, <2>3, <2>4, <2>6, <2>7 DEF Progress, At, DoomedStand
  <2> QED
    BY <1>b, <2>2, <2>3, <2>7, <2>8
<1>6. CASE DeleteGet(r)
  <2>1. PICK q \in Requests, s \in Sides :
          /\ s \in rows[q]
          /\ Arrive(r, [kind |-> "delete",
                  who |-> [t \in Sides |-> job[q].who[IF t = "own" THEN s ELSE Other(s)]],
                  val |-> [t \in Sides |-> -job[q].val[IF t = "own" THEN s ELSE Other(s)]],
                  of |-> q, side |-> s])
          /\ Goto(r, "deleteFind") /\ UNCHANGED <<view, stale>>
    BY <1>6 DEF DeleteGet
  <2> DEFINE j == [kind |-> "delete",
                  who |-> [t \in Sides |-> job[q].who[IF t = "own" THEN s ELSE Other(s)]],
                  val |-> [t \in Sides |-> -job[q].val[IF t = "own" THEN s ELSE Other(s)]],
                  of |-> q, side |-> s]
  <2>2. job[q] \in Job
    BY <2>1 DEF TypeInv, JobsKnown, RowsAreCommitted
  <2>3. \A t \in Sides : (IF t = "own" THEN s ELSE Other(s)) \in Sides
    BY DEF Sides, Other
  <2>4. j \in Job
    BY <2>2, <2>3 DEF Job, Kinds
  <2>5. j.kind = "delete" /\ j.of = q /\ j.side = s /\ "deleteFind" \in Statements
    BY DEF Statements
  <2> HIDE DEF j
  <2>6. Rest(j, "deleteFind")
    BY <2>1, <2>5 DEF SodadKinds, j
  <2>7. Progress(r)' /\ DoomedStand(r)'
    BY <1>c, <2>1, <2>4, <2>5, <2>6 DEF Progress, At, DoomedStand
  <2> QED
    BY <1>b, <2>4, <2>5, <2>6, <2>7
<1>7. CASE ProfileGet(r)
  <2>1. "profile" \in Allowed[r]
    BY <1>7 DEF ProfileGet, Arrive, Single
  <2> QED
    BY <2>1 DEF SafeOperations
<1> QED
  BY <1>1, <1>2, <1>3, <1>4, <1>5, <1>6, <1>7 DEF Arrival

(* COMMIT books as much in the balances as in the transactions. *)
LEMMA CommitBooks ==
  ASSUME SafeOperations, TypeInv, RowInv, Forward, BalanceMatchesLedger,
         NEW r \in Requests, Commit(r)
  PROVE  RowInv' /\ Forward' /\ BalanceMatchesLedger'
<1>1. RowInv'
  BY CommitRows
<1>2. pc[r] = "commit" /\ pc[r] \in Statements /\ pc[r] # "committed" /\ pc[r] # "idle"
  BY DEF Commit, Statements
<1>3. Progress(r) /\ job[r] \in Job /\ job[r].kind \in Kinds \ {"profile"} /\ rows[r] = {}
  BY <1>2 DEF Forward, TypeInv, JobsKnown, RowsAreCommitted, Job, SafeOperations
<1>4. updated[r] = logged[r]
  BY <1>2, <1>3 DEF Progress, At, Kinds
<1>5. BalanceMatchesLedger'
  <2> SUFFICES ASSUME NEW u \in Users
               PROVE  balance'[u] = ledger'[u]
    BY DEF BalanceMatchesLedger, Commit
  <2>1. ledger'[u] = balance[u] + Worth(job[r], updated[r], u)
    BY <1>4 DEF Commit, BalanceMatchesLedger
  <2>2. CASE lock[u] = r
    BY <2>1, <2>2 DEF Commit, RowInv, PendingIsDelta
  <2>3. CASE lock[u] # r
    <3>1. \A s \in updated[r] : job[r].who[s] # u
      BY <2>3 DEF RowInv, LocksAreUpdates
    <3>2. Worth(job[r], updated[r], u) = 0
      BY <1>3, <3>1, WorthNothing DEF TypeInv, TypeOK
    <3> QED
      BY <2>1, <2>3, <3>2 DEF Commit, TypeInv, TypeOK
  <2> QED
    BY <2>2, <2>3
<1>6. Forward'
  <2> SUFFICES ASSUME NEW q \in Requests, pc'[q] \in Statements
               PROVE  Progress(q)' /\ DoomedStand(q)'
    BY DEF Forward
  <2>1. q # r
    BY DEF Commit, Finish, Goto, TypeInv, TypeOK, Statements
  <2>2. /\ pc'[q] = pc[q] /\ job' = job
        /\ updated'[q] = updated[q] /\ logged'[q] = logged[q]
    BY <2>1 DEF Commit, Finish, Goto, TypeInv, TypeOK
  <2>3. Progress(q) /\ DoomedStand(q)
    BY <2>2 DEF Forward
  <2>4. Progress(q)'
    BY <2>2, <2>3 DEF Progress, At
  <2>5. ASSUME job[q].kind = "delete"
        PROVE  rows' = [rows EXCEPT ![r] = logged[r]]
    <3>1. "delete" \in Allowed[q] /\ job[r].kind \in Allowed[r]
      BY <1>2, <2>2, <2>5 DEF TypeInv, JobsKnown, Statements
    <3>2. job[r].kind # "delete"
      BY <2>1, <3>1 DEF SafeOperations
    <3> QED
      BY <3>2 DEF Commit, RowsAfter
  <2>6. DoomedStand(q)'
    BY <1>3, <2>2, <2>3, <2>5 DEF DoomedStand, TypeInv, TypeOK
  <2> QED
    BY <2>4, <2>6
<1> QED
  BY <1>1, <1>5, <1>6

LEMMA BooksStep ==
  ASSUME SafeOperations, TypeInv, BooksInv, [Next]_vars
  PROVE  BooksInv'
<1>1. RowInv /\ Forward /\ BalanceMatchesLedger
  BY DEF BooksInv, RowInv, Forward
<1>2. RowInv' /\ Forward' /\ BalanceMatchesLedger' => BooksInv'
  BY DEF BooksInv, RowInv, Forward
<1>3. UNCHANGED books /\ BalanceMatchesLedger => BalanceMatchesLedger'
  BY DEF books, BalanceMatchesLedger
<1>4. ASSUME NEW r \in Requests, Arrival(r) \/ Statement(r)
      PROVE  BooksInv'
  BY <1>1, <1>2, <1>3, <1>4, ArrivalBooks, StatementBooks
<1>5. ASSUME NEW r \in Requests, Abort(r)
      PROVE  BooksInv'
  <2>1. Rollback(r, "failed") /\ "failed" \in Ended
    BY <1>5 DEF Abort, SerializationFailure, Deadlock, Ended
  <2> QED
    BY <1>1, <1>2, <1>3, <2>1, RollbackBooks
<1>6. ASSUME NEW r \in Requests, Commit(r)
      PROVE  BooksInv'
  BY <1>1, <1>2, <1>6, CommitBooks
<1>7. CASE SodadCrash
  BY <1>1, <1>2, <1>3, <1>7, CrashBooks
<1>8. CASE UNCHANGED vars
  <2>1. RowInv'
    BY <1>1, <1>8 DEF vars, books, RowInv, Quiet, LocksAreUpdates, PendingIsDelta, SnapshotIsCurrent
  <2>2. Forward'
    BY <1>1, <1>8 DEF vars, books, Forward, Progress, At, DoomedStand
  <2> QED
    BY <1>1, <1>2, <1>3, <1>8, <2>1, <2>2 DEF vars, books
<1> QED
  BY <1>4, <1>5, <1>6, <1>7, <1>8 DEF Next

(* Whatever sodad, the web API and the administration site interleave, and   *)
(* whenever sodad crashes, the committed balances are the sums of the        *)
(* committed transactions, provided nobody saves a profile form and at most  *)
(* one request deletes.                                                      *)
THEOREM BooksBalance ==
  ASSUME SafeOperations
  PROVE  Spec => []BalanceMatchesLedger
<1>1. Init => TypeInv /\ BooksInv
  BY TypeInit, BooksInit
<1>2. TypeInv /\ BooksInv /\ [Next]_vars => TypeInv' /\ BooksInv'
  BY TypeStep, BooksStep
<1>3. BooksInv => BalanceMatchesLedger
  BY DEF BooksInv
<1> QED
  BY <1>1, <1>2, <1>3, PTL DEF Spec

-----------------------------------------------------------------------------
(* Accounts implements Ledger.  First what holds whatever the programs do,   *)
(* profile forms and concurrent deletions included: a transfer is covered by *)
(* the books and pays an account that is not disabled at the moment it       *)
(* commits, and a purchase that was shown is not rolled back.  Then, for the *)
(* operations under which the books balance, that each step of Accounts is a *)
(* step of Ledger or changes nothing in the books.                           *)

(* The programs that write only the balance of a row. *)
Relative == {"purchase", "transfer", "deposit", "buy"}

(* What r locked has the flag that is committed. *)
FlagsKept(r) ==
  job[r].kind \in Relative =>
    \A u \in Users : lock[u] = r => (u \in flags[r] <=> u \in disabled)

(* What a transfer read is still so unless the row is known to be stale. *)
TransferSnapshot(r) ==
  \A u \in Users :
    u \notin stale[r] /\ lock[u] # r
      => view[r][u] = balance[u] /\ (u \in flags[r] <=> u \in disabled)

(* What a transfer has made sure of before each of its statements. *)
Debited == {"findTarget", "credit", "insertOwn", "insertPeer", "commit"}
Accepted == {"credit", "insertOwn", "insertPeer", "commit"}
Credited == {"insertOwn", "insertPeer", "commit"}
TransferChecked(r) ==
  /\ job[r].val["peer"] >= 0
  /\ pc[r] = "debit" =>
       view[r][job[r].who["own"]] >= job[r].val["peer"] /\ \A u \in Users : lock[u] # r
  /\ pc[r] \in Debited =>
       lock[job[r].who["own"]] = r /\ balance[job[r].who["own"]] >= job[r].val["peer"]
  /\ pc[r] \in Accepted => job[r].who["peer"] \notin flags[r]
  /\ pc[r] \in Credited => lock[job[r].who["peer"]] = r

Covered(r) ==
  pc[r] \in Statements =>
    /\ FlagsKept(r)
    /\ job[r].kind = "transfer" => TransferSnapshot(r) /\ TransferChecked(r)

(* Only a request that runs holds locks. *)
LocksRun == \A u \in Users : lock[u] # NoRequest => pc[lock[u]] \in Statements

TransferInv == LocksRun /\ \A r \in Requests : Covered(r)

LEMMA TransferInit == Init => TransferInv
BY DEF Init, TransferInv, LocksRun, Covered, Statements

-----------------------------------------------------------------------------
(* A step of another request that commits nothing leaves r covered. *)
Frame(r) ==
  /\ pc'[r] = pc[r] /\ job'[r] = job[r]
  /\ view'[r] = view[r] /\ flags'[r] = flags[r] /\ stale'[r] = stale[r]
  /\ \A u \in Users : lock'[u] = r <=> lock[u] = r

LEMMA FrameCovered ==
  ASSUME TypeInv, NEW r \in Requests, Covered(r), Frame(r), UNCHANGED books
  PROVE  Covered(r)'
<1> SUFFICES ASSUME pc[r] \in Statements PROVE Covered(r)'
  BY DEF Covered, Frame
<1>0. job[r] \in Job /\ job[r].who["own"] \in Users /\ job[r].who["peer"] \in Users
  BY JobFacts DEF Statements, Sides
<1>1. FlagsKept(r)'
  BY DEF Covered, Frame, FlagsKept, books
<1>2. job[r].kind = "transfer" => TransferSnapshot(r)' /\ TransferChecked(r)'
  BY <1>0 DEF Covered, Frame, TransferSnapshot, TransferChecked, books
<1> QED
  BY <1>1, <1>2 DEF Covered, Frame

LEMMA StatementFrame ==
  ASSUME TypeInv, NEW q \in Requests, Statement(q), NEW r \in Requests \ {q}
  PROVE  Frame(r) /\ UNCHANGED books
<1>0. pc[q] \in Statements /\ \A s \in Sides : job[q].who[s] \in Users
  <2>1. pc[q] \in Statements
    BY DEF Statement, BalanceTransactionUpdate, BalanceTransactionInsert, TransferDebit,
           TransferFindTarget, TransferCredit, TransferInsertOwn, TransferInsertPeer,
           DepositUpdate, DepositInsert, BuyInsert, BuyUpdate, NewTransactionForm,
           NewTransactionInsertPeer, NewTransactionSavePeer, NewTransactionInsertOwn,
           NewTransactionSaveOwn, DeleteFind, DeleteSavePeer, DeletePeer, DeleteOwn,
           DeleteSaveOwn, ProfileSave, Statements
  <2> QED
    BY <2>1, JobFacts DEF Statements
<1>1. ASSUME NEW s \in Sides, NEW stmt, Goto(q, stmt),
             WriteBack(q, s) \/ Increment(q, s) \/ SaveUser(q, s)
      PROVE  Frame(r) /\ UNCHANGED books
  BY <1>0, <1>1, NoRequestAssumption
     DEF Frame, Goto, WriteBack, Increment, SaveUser, Write, KeepFlag, TypeInv, TypeOK
<1>2. ASSUME NEW stmt, Goto(q, stmt),
             UNCHANGED <<books, job, view, stale, lock>>,
             \A p \in Requests \ {q} : flags'[p] = flags[p]
      PROVE  Frame(r) /\ UNCHANGED books
  BY <1>2 DEF Frame, Goto, TypeInv, TypeOK
<1>3. ASSUME NEW how, Rollback(q, how)
      PROVE  Frame(r) /\ UNCHANGED books
  BY <1>3, NoRequestAssumption DEF Frame, Rollback, Finish, Goto, TypeInv, TypeOK
<1>4. CASE BalanceTransactionUpdate(q) \/ TransferDebit(q) \/ TransferCredit(q)
             \/ DepositUpdate(q) \/ BuyUpdate(q) \/ NewTransactionSavePeer(q)
             \/ NewTransactionSaveOwn(q) \/ DeleteSavePeer(q) \/ DeleteSaveOwn(q)
  BY <1>1, <1>4
     DEF BalanceTransactionUpdate, TransferDebit, TransferCredit, DepositUpdate, BuyUpdate,
         NewTransactionSavePeer, NewTransactionSaveOwn, DeleteSavePeer, DeleteSaveOwn, Sides
<1>5. CASE BalanceTransactionInsert(q) \/ TransferInsertOwn(q) \/ TransferInsertPeer(q)
             \/ DepositInsert(q) \/ BuyInsert(q) \/ NewTransactionInsertPeer(q)
             \/ NewTransactionInsertOwn(q)
  BY <1>2, <1>5
     DEF BalanceTransactionInsert, TransferInsertOwn, TransferInsertPeer, DepositInsert,
         BuyInsert, NewTransactionInsertPeer, NewTransactionInsertOwn, Insert
<1>6. CASE DeletePeer(q) \/ DeleteOwn(q)
  BY <1>2, <1>6 DEF DeletePeer, DeleteOwn, DeleteRow, Insert
<1>7. CASE NewTransactionForm(q) \/ DeleteFind(q)
  BY <1>2, <1>7 DEF NewTransactionForm, DeleteFind, TypeInv, TypeOK
<1>8. CASE TransferFindTarget(q)
  BY <1>2, <1>3, <1>8 DEF TransferFindTarget
<1>9. CASE ProfileSave(q)
  BY <1>0, <1>9, NoRequestAssumption DEF Frame, ProfileSave, Write, Goto, Sides, TypeInv, TypeOK
<1> QED
  BY <1>4, <1>5, <1>6, <1>7, <1>8, <1>9 DEF Statement

(* The statements of r itself.  Writing a balance keeps the flags of what is *)
(* locked; a write-back finds the row as the transfer's snapshot has it.     *)
LEMMA WriteFlags ==
  ASSUME TypeInv, NEW r \in Requests, FlagsKept(r), NEW u \in Users, NEW x,
         Write(r, u, x), KeepFlag(r, u), UNCHANGED <<books, job>>
  PROVE  FlagsKept(r)'
BY NoRequestAssumption DEF FlagsKept, Write, KeepFlag, CurrentlyDisabled, TypeInv, TypeOK, books

LEMMA WriteBackSnapshot ==
  ASSUME TypeInv, NEW r \in Requests, NEW s \in Sides, pc[r] \in Statements,
         TransferSnapshot(r), FlagsKept(r), job[r].kind = "transfer", WriteBack(r, s)
  PROVE  /\ TransferSnapshot(r)' /\ FlagsKept(r)'
         /\ lock' = [lock EXCEPT ![job[r].who[s]] = r]
         /\ flags' = flags
         /\ view[r][job[r].who[s]] = balance[job[r].who[s]] \/ lock[job[r].who[s]] = r
<1> DEFINE u == job[r].who[s]
<1>1. u \in Users
  BY JobFacts DEF Statements
<1>2. /\ u \notin stale[r] /\ Write(r, u, view[r][u] + job[r].val[s]) /\ KeepFlag(r, u)
      /\ UNCHANGED <<books, job, stale>>
  BY DEF WriteBack
<1>3. u \in CurrentlyDisabled(r) <=> u \in flags[r]
  BY <1>1, <1>2 DEF CurrentlyDisabled, TransferSnapshot
<1>4. flags' = flags
  BY <1>1, <1>2, <1>3 DEF KeepFlag, TypeInv, TypeOK
<1>5. TransferSnapshot(r)'
  BY <1>1, <1>2, <1>4, NoRequestAssumption DEF TransferSnapshot, Write, TypeInv, TypeOK, books
<1>6. FlagsKept(r)'
  BY <1>1, <1>2, WriteFlags
<1> QED
  BY <1>1, <1>2, <1>4, <1>5, <1>6 DEF Write, TransferSnapshot

LEMMA StatementCovered ==
  ASSUME TypeInv, NEW r \in Requests, Covered(r), Statement(r)
  PROVE  Covered(r)'
<1> SUFFICES ASSUME pc'[r] \in Statements, job[r].kind \in Relative
             PROVE  FlagsKept(r)' /\ (job[r].kind = "transfer" => TransferSnapshot(r)' /\ TransferChecked(r)')
  <2>1. UNCHANGED job
    BY DEF Statement, BalanceTransactionUpdate, BalanceTransactionInsert, TransferDebit,
           TransferFindTarget, TransferCredit, TransferInsertOwn, TransferInsertPeer,
           DepositUpdate, DepositInsert, BuyInsert, BuyUpdate, NewTransactionForm,
           NewTransactionInsertPeer, NewTransactionSavePeer, NewTransactionInsertOwn,
           NewTransactionSaveOwn, DeleteFind, DeleteSavePeer, DeletePeer, DeleteOwn,
           DeleteSaveOwn, ProfileSave, WriteBack, Increment, SaveUser, Insert, DeleteRow, Rollback
  <2> QED
    BY <2>1 DEF Covered, FlagsKept, Relative
<1>1. CASE BalanceTransactionUpdate(r) \/ DepositUpdate(r) \/ BuyUpdate(r)
  <2>1. /\ job[r].kind # "transfer" /\ pc[r] \in Statements
        /\ WriteBack(r, "own") \/ Increment(r, "own")
    BY <1>1 DEF BalanceTransactionUpdate, DepositUpdate, BuyUpdate, Statements
  <2>2. job[r].who["own"] \in Users
    BY <2>1, JobFacts DEF Statements, Sides
  <2> QED
    BY <2>1, <2>2, WriteFlags DEF WriteBack, Increment, Covered
<1>2. CASE BalanceTransactionInsert(r) \/ DepositInsert(r) \/ BuyInsert(r)
  <2>1. /\ job[r].kind # "transfer" /\ pc[r] \in Statements
        /\ UNCHANGED <<books, job, flags, lock>>
    BY <1>2 DEF BalanceTransactionInsert, DepositInsert, BuyInsert, Insert, Statements
  <2> QED
    BY <2>1 DEF FlagsKept, Covered, books
<1>3. ASSUME job[r].kind = "transfer", pc[r] \in Statements
      PROVE  /\ FlagsKept(r) /\ TransferSnapshot(r) /\ TransferChecked(r)
             /\ job[r].who["own"] \in Users /\ job[r].who["peer"] \in Users
             /\ job[r].val["own"] \in Int /\ job[r].val["peer"] \in Int
  BY <1>3, JobFacts DEF Covered, Statements, Sides
<1>4. ASSUME job[r].kind = "transfer", pc[r] \in Statements,
             UNCHANGED <<books, job, view, flags, stale, lock>>
      PROVE  FlagsKept(r)' /\ TransferSnapshot(r)'
  BY <1>3, <1>4 DEF FlagsKept, TransferSnapshot, books
<1> USE DEF Debited, Accepted, Credited
<1>5. CASE TransferDebit(r)
  <2>1. /\ job[r].kind = "transfer" /\ pc[r] = "debit" /\ pc'[r] = "findTarget"
        /\ WriteBack(r, "own") /\ pc[r] \in Statements /\ "own" \in Sides
    BY <1>5 DEF TransferDebit, Goto, Statements, Sides, TypeInv, TypeOK
  <2>2. /\ TransferSnapshot(r)' /\ FlagsKept(r)'
        /\ lock'[job[r].who["own"]] = r
        /\ view[r][job[r].who["own"]] = balance[job[r].who["own"]]
    BY <1>3, <2>1, WriteBackSnapshot DEF TransferChecked, TypeInv, TypeOK
  <2>3. TransferChecked(r)'
    BY <1>3, <2>1, <2>2 DEF TransferChecked, WriteBack, books
  <2> QED
    BY <2>2, <2>3
<1>6. CASE TransferFindTarget(r)
  <2>1. job[r].kind = "transfer" /\ pc[r] = "findTarget" /\ pc[r] \in Statements
    BY <1>6 DEF TransferFindTarget, Statements
  <2>2. job[r].who["peer"] \notin flags[r] /\ pc'[r] = "credit"
    BY <1>6 DEF TransferFindTarget, Rollback, Finish, Goto, Statements, TypeInv, TypeOK
  <2>3. UNCHANGED <<books, job, view, flags, stale, lock>>
    BY <1>6, <2>2 DEF TransferFindTarget
  <2>4. TransferChecked(r)'
    BY <1>3, <2>1, <2>2, <2>3 DEF TransferChecked, books
  <2> QED
    BY <1>4, <2>1, <2>3, <2>4
<1>7. CASE TransferCredit(r)
  <2>1. /\ job[r].kind = "transfer" /\ pc[r] = "credit" /\ pc'[r] = "insertOwn"
        /\ WriteBack(r, "peer") /\ pc[r] \in Statements /\ "peer" \in Sides
    BY <1>7 DEF TransferCredit, Goto, Statements, Sides, TypeInv, TypeOK
  <2>2. /\ TransferSnapshot(r)' /\ FlagsKept(r)'
        /\ lock' = [lock EXCEPT ![job[r].who["peer"]] = r] /\ flags' = flags
    BY <1>3, <2>1, WriteBackSnapshot
  <2>3. TransferChecked(r)'
    BY <1>3, <2>1, <2>2 DEF TransferChecked, WriteBack, books, TypeInv, TypeOK
  <2> QED
    BY <2>2, <2>3
<1>8. CASE TransferInsertOwn(r) \/ TransferInsertPeer(r)
  <2>1. /\ job[r].kind = "transfer" /\ pc[r] \in Credited /\ pc[r] \in Statements
        /\ pc'[r] \in {"insertPeer", "commit"}
        /\ UNCHANGED <<books, job, view, flags, stale, lock>>
    BY <1>8 DEF TransferInsertOwn, TransferInsertPeer, Insert, Goto, Statements, TypeInv, TypeOK
  <2>2. TransferChecked(r)'
    BY <1>3, <2>1 DEF TransferChecked, books
  <2> QED
    BY <1>4, <2>1, <2>2
<1> QED
  BY <1>1, <1>2, <1>5, <1>6, <1>7, <1>8
     DEF Statement, Relative, NewTransactionForm, NewTransactionInsertPeer, NewTransactionSavePeer,
         NewTransactionInsertOwn, NewTransactionSaveOwn, DeleteFind, DeleteSavePeer, DeletePeer,
         DeleteOwn, DeleteSaveOwn, ProfileSave, TypeInv, JobsKnown

(* A transfer arrives with the balance it was judged by in its snapshot.     *)
LEMMA ArrivalCovered ==
  ASSUME TypeInv, TransferInv, NEW q \in Requests, Arrival(q)
  PROVE  TransferInv'
<1>1. PICK j \in Job, stmt \in Statements \cup Ended :
        /\ Arrive(q, j) /\ Goto(q, stmt)
        /\ \A p \in Requests \ {q} :
             view'[p] = view[p] /\ flags'[p] = flags[p] /\ stale'[p] = stale[p]
        /\ stmt \in Statements /\ j.kind = "transfer" =>
             /\ stmt = "debit" /\ Read(q)
             /\ j.val["peer"] >= 0 /\ balance[j.who["own"]] >= j.val["peer"]
  <2> USE DEF Statements, Ended
  <2>1. CASE BalanceTransactionFind(q)
    <3>1. PICK u \in Users, x \in Amounts :
            Arrive(q, Single("purchase", u, x)) /\ Read(q) /\ Goto(q, "updateOwn")
      BY <2>1 DEF BalanceTransactionFind
    <3>2. Single("purchase", u, x) \in Job /\ Single("purchase", u, x).kind # "transfer"
      BY SingleIsJob, AmountsAssumption DEF Kinds, Single
    <3> QED
      BY <3>1, <3>2 DEF Read, TypeInv, TypeOK
  <2>2. CASE TransferFind(q)
    <3>1. PICK u \in Users, v \in Users, x \in Amounts :
            /\ Arrive(q, Double("transfer", u, v, x))
            /\ \/ Goto(q, "failed") /\ UNCHANGED <<view, flags, stale>>
               \/ Goto(q, "debit") /\ Read(q) /\ ~(balance[u] < x \/ x < 0)
      BY <2>2 DEF TransferFind
    <3> DEFINE j == Double("transfer", u, v, x)
    <3>2. j \in Job /\ j.who["own"] = u /\ j.val["peer"] = x
      BY DoubleIsJob, AmountsAssumption DEF Kinds, Double, Sides
    <3>3. x \in Int /\ balance[u] \in Int
      BY AmountsAssumption DEF TypeInv, TypeOK
    <3>4. ~(balance[u] < x \/ x < 0) => balance[u] >= x /\ x >= 0
      BY <3>3
    <3> HIDE DEF j
    <3>5. Arrive(q, j)
      BY <3>1 DEF j
    <3> QED
      BY <3>1, <3>2, <3>4, <3>5 DEF Read, TypeInv, TypeOK
  <2>3. CASE MakeDeposit(q) \/ BuyBarcode(q)
    <3>1. PICK u \in Users, x \in Amounts, kind \in {"deposit", "buy"},
               stmt \in {"failed", "updateOwn", "insertOwn"} :
            Arrive(q, Single(kind, u, x)) /\ Goto(q, stmt) /\ UNCHANGED <<view, flags, stale>>
      BY <2>3 DEF MakeDeposit, BuyBarcode
    <3>2. Single(kind, u, x) \in Job /\ Single(kind, u, x).kind # "transfer"
      BY SingleIsJob, AmountsAssumption DEF Kinds, Single
    <3> QED
      BY <3>1, <3>2
  <2>4. CASE NewTransaction(q)
    <3>1. PICK u \in Users, v \in Users, x \in Amounts, kind \in {"adminPost", "adminTransfer"} :
            /\ Arrive(q, IF kind = "adminPost" THEN Single(kind, u, x) ELSE Double(kind, u, v, x))
            /\ flags' = [flags EXCEPT ![q] = disabled]
            /\ Goto(q, IF kind = "adminPost" THEN "insertOwn" ELSE "form")
            /\ UNCHANGED <<view, stale>>
      BY <2>4 DEF NewTransaction
    <3> DEFINE j == IF kind = "adminPost" THEN Single(kind, u, x) ELSE Double(kind, u, v, x)
    <3>2. j \in Job /\ j.kind # "transfer"
      BY SingleIsJob, DoubleIsJob, AmountsAssumption DEF Kinds, Single, Double
    <3>3. Arrive(q, j)
      BY <3>1
    <3> HIDE DEF j
    <3> QED
      BY <3>1, <3>2, <3>3 DEF TypeInv, TypeOK
  <2>5. CASE DeleteGet(q)
    <3>1. PICK p \in Requests, s \in Sides :
            /\ s \in rows[p]
            /\ Arrive(q, [kind |-> "delete",
                 who |-> [t \in Sides |-> job[p].who[IF t = "own" THEN s ELSE Other(s)]],
                 val |-> [t \in Sides |-> -job[p].val[IF t = "own" THEN s ELSE Other(s)]],
                 of |-> p, side |-> s])
            /\ Goto(q, "deleteFind") /\ UNCHANGED <<view, flags, stale>>
      BY <2>5 DEF DeleteGet
    <3> DEFINE j == [kind |-> "delete",
                 who |-> [t \in Sides |-> job[p].who[IF t = "own" THEN s ELSE Other(s)]],
                 val |-> [t \in Sides |-> -job[p].val[IF t = "own" THEN s ELSE Other(s)]],
                 of |-> p, side |-> s]
    <3>2. job[p] \in Job
      BY <3>1 DEF TypeInv, JobsKnown, RowsAreCommitted
    <3>3. j \in Job /\ j.kind # "transfer" /\ Arrive(q, j)
      BY <3>1, <3>2 DEF Job, Kinds, Sides, Other
    <3> HIDE DEF j
    <3> QED
      BY <3>1, <3>3
  <2>6. CASE ProfileGet(q)
    <3>1. PICK u \in Users :
            /\ Arrive(q, Single("profile", u, 0)) /\ Goto(q, "saveProfile")
            /\ view' = [view EXCEPT ![q] = balance]
            /\ flags' = [flags EXCEPT ![q] = disabled] /\ UNCHANGED stale
      BY <2>6 DEF ProfileGet
    <3>2. Single("profile", u, 0) \in Job /\ Single("profile", u, 0).kind # "transfer"
      BY SingleIsJob DEF Kinds, Single
    <3> QED
      BY <3>1, <3>2 DEF TypeInv, TypeOK
  <2> QED
    BY <2>1, <2>2, <2>3, <2>4, <2>5, <2>6 DEF Arrival
<1>2. /\ job' = [job EXCEPT ![q] = j] /\ pc' = [pc EXCEPT ![q] = stmt] /\ pc[q] = "idle"
      /\ UNCHANGED <<books, lock>>
  BY <1>1 DEF Arrive, Goto, books
<1>3. \A u \in Users : lock[u] # q
  BY <1>2, NoRequestAssumption DEF TransferInv, LocksRun, Statements
<1>4. ASSUME NEW r \in Requests, r # q
      PROVE  Covered(r)'
  <2>1. Frame(r)
    BY <1>1, <1>2, <1>4 DEF Frame, TypeInv, TypeOK
  <2> QED
    BY <1>2, <2>1, FrameCovered DEF TransferInv
<1>5. Covered(q)'
  <2> SUFFICES ASSUME stmt \in Statements PROVE Covered(q)'
    BY <1>2 DEF Covered, TypeInv, TypeOK
  <2>1. FlagsKept(q)'
    BY <1>2, <1>3 DEF FlagsKept
  <2>2. ASSUME j.kind = "transfer"
        PROVE  TransferSnapshot(q)' /\ TransferChecked(q)'
    <3>1. /\ pc'[q] = "debit" /\ job'[q] = j /\ view'[q] = balance /\ flags'[q] = disabled
          /\ balance' = balance /\ disabled' = disabled
          /\ j.val["peer"] >= 0 /\ balance[j.who["own"]] >= j.val["peer"]
      BY <1>1, <1>2, <2>2 DEF Read, TypeInv, TypeOK, books
    <3>2. TransferSnapshot(q)'
      BY <3>1 DEF TransferSnapshot
    <3>3. TransferChecked(q)'
      BY <1>2, <1>3, <3>1 DEF TransferChecked, Debited, Accepted, Credited
    <3> QED
      BY <3>2, <3>3
  <2> QED
    BY <1>2, <2>1, <2>2 DEF Covered, TypeInv, TypeOK
<1>6. LocksRun'
  BY <1>2, <1>3 DEF TransferInv, LocksRun, TypeInv, TypeOK
<1> QED
  BY <1>4, <1>5, <1>6 DEF TransferInv

(* Requests that end without committing. *)
LEMMA DropCovered ==
  ASSUME TypeInv, TransferInv, NEW dead \in SUBSET Requests, NEW how \in Ended,
         pc' = [q \in Requests |-> IF q \in dead THEN how ELSE pc[q]],
         lock' = [u \in Users |-> IF lock[u] \in dead THEN NoRequest ELSE lock[u]],
         view' = [q \in Requests |-> IF q \in dead THEN [u \in Users |-> 0] ELSE view[q]],
         flags' = [q \in Requests |-> IF q \in dead THEN {} ELSE flags[q]],
         stale' = [q \in Requests |-> IF q \in dead THEN {} ELSE stale[q]],
         UNCHANGED <<books, job>>
  PROVE  TransferInv'
<1>1. ASSUME NEW r \in Requests
      PROVE  Covered(r)'
  <2>1. CASE r \in dead
    BY <2>1 DEF Covered, Statements, Ended
  <2>2. CASE r \notin dead
    <3>1. Frame(r)
      BY <2>2, NoRequestAssumption DEF Frame
    <3> QED
      BY <3>1, FrameCovered DEF TransferInv
  <2> QED
    BY <2>1, <2>2
<1>2. LocksRun'
  BY DEF TransferInv, LocksRun, TypeInv, TypeOK
<1> QED
  BY <1>1, <1>2 DEF TransferInv

LEMMA RollbackCovered ==
  ASSUME TypeInv, TransferInv, NEW r \in Requests, NEW how \in Ended, Rollback(r, how)
  PROVE  TransferInv'
<1> DEFINE dead == {r}
<1>1. /\ pc' = [q \in Requests |-> IF q \in dead THEN how ELSE pc[q]]
      /\ lock' = [u \in Users |-> IF lock[u] \in dead THEN NoRequest ELSE lock[u]]
      /\ view' = [q \in Requests |-> IF q \in dead THEN [u \in Users |-> 0] ELSE view[q]]
      /\ flags' = [q \in Requests |-> IF q \in dead THEN {} ELSE flags[q]]
      /\ stale' = [q \in Requests |-> IF q \in dead THEN {} ELSE stale[q]]
      /\ UNCHANGED <<books, job>>
  BY DEF Rollback, Finish, Goto, TypeInv, TypeOK
<1>2. dead \in SUBSET Requests
  OBVIOUS
<1> HIDE DEF dead
<1> QED
  BY <1>1, <1>2, DropCovered

(* A commit changes only rows that it holds, and marks them stale. *)
LEMMA CommitCovered ==
  ASSUME TypeInv, TransferInv, NEW q \in Requests, Commit(q)
  PROVE  TransferInv'
<1>1. /\ pc' = [pc EXCEPT ![q] = "committed"] /\ pc[q] = "commit" /\ UNCHANGED job
      /\ lock' = [u \in Users |-> IF lock[u] = q THEN NoRequest ELSE lock[u]]
      /\ view' = [view EXCEPT ![q] = [u \in Users |-> 0]]
      /\ flags' = [flags EXCEPT ![q] = {}]
      /\ \A u \in Users : lock[u] # q =>
           balance'[u] = balance[u] /\ (u \in disabled' <=> u \in disabled)
  BY DEF Commit, Finish, Goto, CurrentlyDisabled
<1>2. ASSUME NEW r \in Requests, r # q, pc[r] \in Statements
      PROVE  Covered(r)'
  <2>0. Covered(r) /\ job[r].who["own"] \in Users /\ job[r].who["peer"] \in Users
    BY <1>2, JobFacts DEF TransferInv, Statements, Sides
  <2>1. /\ pc'[r] = pc[r] /\ job'[r] = job[r] /\ view'[r] = view[r] /\ flags'[r] = flags[r]
        /\ \A u \in Users : lock'[u] = r <=> lock[u] = r
    BY <1>1, <1>2, NoRequestAssumption DEF TypeInv, TypeOK
  <2>2. FlagsKept(r)'
    BY <1>1, <1>2, <2>0, <2>1 DEF Covered, FlagsKept
  <2>3. ASSUME job[r].kind = "transfer"
        PROVE  TransferSnapshot(r)' /\ TransferChecked(r)'
    <3>1. stale'[r] = stale[r] \cup {u \in Users : lock[u] = q}
      BY <1>2, <2>3 DEF Commit, Running, Statements, Ended, SodadKinds
    <3>2. TransferSnapshot(r)'
      BY <1>1, <1>2, <2>0, <2>1, <2>3, <3>1 DEF Covered, TransferSnapshot
    <3>3. TransferChecked(r)'
      BY <1>1, <1>2, <2>0, <2>1, <2>3
         DEF Covered, TransferChecked, Debited, Accepted, Credited
    <3> QED
      BY <3>2, <3>3
  <2> QED
    BY <1>2, <2>1, <2>2, <2>3 DEF Covered
<1>3. ASSUME NEW r \in Requests
      PROVE  Covered(r)'
  BY <1>1, <1>2 DEF Covered, TypeInv, TypeOK, Statements
<1>4. LocksRun'
  BY <1>1, NoRequestAssumption DEF TransferInv, LocksRun, TypeInv, TypeOK
<1> QED
  BY <1>3, <1>4 DEF TransferInv

(* A request takes locks only by a statement it runs. *)
LEMMA StatementLocks ==
  ASSUME TypeInv, LocksRun, NEW r \in Requests, Statement(r)
  PROVE  LocksRun'
<1>1. ASSUME NEW s \in Sides, NEW stmt \in Statements, Goto(r, stmt),
             WriteBack(r, s) \/ Increment(r, s) \/ SaveUser(r, s)
      PROVE  LocksRun'
  BY <1>1 DEF LocksRun, Goto, WriteBack, Increment, SaveUser, Write, TypeInv, TypeOK
<1>2. ASSUME NEW stmt \in Statements, Goto(r, stmt), UNCHANGED lock
      PROVE  LocksRun'
  BY <1>2 DEF LocksRun, Goto, TypeInv, TypeOK
<1>3. ASSUME NEW how, Rollback(r, how)
      PROVE  LocksRun'
  BY <1>3 DEF LocksRun, Rollback, Finish, Goto, TypeInv, TypeOK
<1> USE DEF Statements
<1>4. CASE BalanceTransactionUpdate(r) \/ TransferDebit(r) \/ TransferCredit(r)
             \/ DepositUpdate(r) \/ BuyUpdate(r) \/ NewTransactionSavePeer(r)
             \/ NewTransactionSaveOwn(r) \/ DeleteSavePeer(r) \/ DeleteSaveOwn(r)
  BY <1>1, <1>4
     DEF BalanceTransactionUpdate, TransferDebit, TransferCredit, DepositUpdate, BuyUpdate,
         NewTransactionSavePeer, NewTransactionSaveOwn, DeleteSavePeer, DeleteSaveOwn, Sides
<1>5. CASE BalanceTransactionInsert(r) \/ TransferInsertOwn(r) \/ TransferInsertPeer(r)
             \/ DepositInsert(r) \/ BuyInsert(r) \/ NewTransactionInsertPeer(r)
             \/ NewTransactionInsertOwn(r) \/ DeletePeer(r) \/ DeleteOwn(r)
             \/ NewTransactionForm(r) \/ DeleteFind(r)
  BY <1>2, <1>5
     DEF BalanceTransactionInsert, TransferInsertOwn, TransferInsertPeer, DepositInsert,
         BuyInsert, NewTransactionInsertPeer, NewTransactionInsertOwn, DeletePeer, DeleteOwn,
         NewTransactionForm, DeleteFind, DeleteRow, Insert
<1>6. CASE TransferFindTarget(r)
  BY <1>2, <1>3, <1>6 DEF TransferFindTarget
<1>7. CASE ProfileSave(r)
  BY <1>7 DEF LocksRun, ProfileSave, Write, Goto, TypeInv, TypeOK
<1> QED
  BY <1>4, <1>5, <1>6, <1>7 DEF Statement

LEMMA TransferStep ==
  ASSUME TypeInv, TransferInv, [Next]_vars
  PROVE  TransferInv'
<1>1. ASSUME NEW r \in Requests, Statement(r)
      PROVE  TransferInv'
  <2>1. \A q \in Requests \ {r} : Covered(q)'
    BY <1>1, StatementFrame, FrameCovered DEF TransferInv
  <2>2. Covered(r)'
    BY <1>1, StatementCovered DEF TransferInv
  <2> QED
    BY <1>1, <2>1, <2>2, StatementLocks DEF TransferInv
<1>2. ASSUME NEW r \in Requests, Abort(r)
      PROVE  TransferInv'
  BY <1>2, RollbackCovered DEF Abort, SerializationFailure, Deadlock, Ended
<1>3. CASE SodadCrash
  <2> DEFINE dead == {r \in Requests : Running(r) /\ job[r].kind \in SodadKinds}
  <2>1. /\ pc' = [q \in Requests |-> IF q \in dead THEN "lost" ELSE pc[q]]
        /\ lock' = [u \in Users |-> IF lock[u] \in dead THEN NoRequest ELSE lock[u]]
        /\ view' = [q \in Requests |-> IF q \in dead THEN [u \in Users |-> 0] ELSE view[q]]
        /\ flags' = [q \in Requests |-> IF q \in dead THEN {} ELSE flags[q]]
        /\ stale' = [q \in Requests |-> IF q \in dead THEN {} ELSE stale[q]]
        /\ UNCHANGED <<books, job>>
    BY <1>3 DEF SodadCrash
  <2>2. dead \in SUBSET Requests /\ "lost" \in Ended
    BY DEF Ended
  <2> HIDE DEF dead
  <2> QED
    BY <2>1, <2>2, DropCovered
<1>4. CASE UNCHANGED vars
  BY <1>4 DEF vars, books, TransferInv, LocksRun, Covered, FlagsKept, TransferSnapshot, TransferChecked
<1> QED
  BY <1>1, <1>2, <1>3, <1>4, ArrivalCovered, CommitCovered DEF Next

(* Only COMMIT commits. *)
LEMMA OnlyCommitCommits ==
  ASSUME TypeInv, Next, NEW r \in Requests, Commits(r)
  PROVE  Commit(r)
<1> USE DEF Commits
<1>1. ASSUME NEW q \in Requests, Arrival(q)
      PROVE  FALSE
  BY <1>1 DEF Arrival, BalanceTransactionFind, TransferFind, MakeDeposit, BuyBarcode,
         NewTransaction, DeleteGet, ProfileGet, Goto, TypeInv, TypeOK
<1>2. ASSUME NEW q \in Requests, Statement(q)
      PROVE  FALSE
  BY <1>2 DEF Statement, BalanceTransactionUpdate, BalanceTransactionInsert, TransferDebit,
         TransferFindTarget, TransferCredit, TransferInsertOwn, TransferInsertPeer,
         DepositUpdate, DepositInsert, BuyInsert, BuyUpdate, NewTransactionForm,
         NewTransactionInsertPeer, NewTransactionSavePeer, NewTransactionInsertOwn,
         NewTransactionSaveOwn, DeleteFind, DeleteSavePeer, DeletePeer, DeleteOwn,
         DeleteSaveOwn, ProfileSave, Rollback, Finish, Goto, TypeInv, TypeOK
<1>3. ASSUME NEW q \in Requests, Abort(q)
      PROVE  FALSE
  BY <1>3 DEF Abort, SerializationFailure, Deadlock, Rollback, Finish, Goto, TypeInv, TypeOK
<1>4. CASE SodadCrash
  BY <1>4 DEF SodadCrash, TypeInv, TypeOK
<1>5. ASSUME NEW q \in Requests, Commit(q)
      PROVE  Commit(r)
  BY <1>5 DEF Commit, Finish, Goto, TypeInv, TypeOK
<1> QED
  BY <1>1, <1>2, <1>3, <1>4, <1>5 DEF Next

(* Whatever the programs interleave -- profile forms and concurrent          *)
(* deletions included -- a transfer of sodad's commits only in a state in    *)
(* which the sender's committed balance covers it.                           *)
THEOREM TransfersAreCovered == Spec => NoOverdraftByTransfer
<1>1. Init => TypeInv /\ TransferInv
  BY TypeInit, TransferInit
<1>2. TypeInv /\ TransferInv /\ [Next]_vars => TypeInv' /\ TransferInv'
  BY TypeStep, TransferStep
<1>3. TypeInv /\ TransferInv /\ [Next]_vars =>
        [\A r \in Requests :
           Commits(r) /\ job[r].kind = "transfer"
             => /\ job[r].val["peer"] >= 0
                /\ balance[job[r].who["own"]] >= job[r].val["peer"]]_vars
  <2> SUFFICES ASSUME TypeInv, TransferInv, Next, NEW r \in Requests,
                      Commits(r), job[r].kind = "transfer"
               PROVE  /\ job[r].val["peer"] >= 0
                      /\ balance[job[r].who["own"]] >= job[r].val["peer"]
    OBVIOUS
  <2>1. pc[r] = "commit"
    BY OnlyCommitCommits DEF Commits, Commit
  <2> QED
    BY <2>1 DEF TransferInv, Covered, TransferChecked, Debited, Statements
<1> QED
  BY <1>1, <1>2, <1>3, PTL DEF Spec, NoOverdraftByTransfer

(* Nor does it commit when an administrator has disabled the receiver.       *)
THEOREM TransfersReachActive == Spec => NoTransferToDisabled
<1>1. Init => TypeInv /\ TransferInv
  BY TypeInit, TransferInit
<1>2. TypeInv /\ TransferInv /\ [Next]_vars => TypeInv' /\ TransferInv'
  BY TypeStep, TransferStep
<1>3. TypeInv /\ TransferInv /\ [Next]_vars =>
        [\A r \in Requests :
           Commits(r) /\ job[r].kind = "transfer"
             => job[r].who["peer"] \notin disabled]_vars
  <2> SUFFICES ASSUME TypeInv, TransferInv, Next, NEW r \in Requests,
                      Commits(r), job[r].kind = "transfer"
               PROVE  job[r].who["peer"] \notin disabled
    OBVIOUS
  <2>1. pc[r] = "commit" /\ job[r].who["peer"] \in Users
    BY OnlyCommitCommits, JobFacts DEF Commits, Commit, Sides
  <2>2. Covered(r) /\ pc[r] \in Statements
    BY <2>1 DEF TransferInv, Statements
  <2>3. job[r].who["peer"] \notin flags[r] /\ lock[job[r].who["peer"]] = r
    BY <2>1, <2>2 DEF Covered, TransferChecked, Accepted, Credited
  <2>4. FlagsKept(r)
    BY <2>2 DEF Covered
  <2> QED
    BY <2>1, <2>3, <2>4 DEF FlagsKept, Relative
<1> QED
  BY <1>1, <1>2, <1>3, PTL DEF Spec, NoTransferToDisabled

-----------------------------------------------------------------------------
(* A request whose purchase was shown has only its COMMIT ahead: it waits    *)
(* for no row any more, so neither failure can reach it.                     *)
ShownInv == \A r \in shown : pc[r] \in {"commit", "committed", "lost"}

LEMMA ShownStep ==
  ASSUME TypeInv, ShownInv, [Next]_vars
  PROVE  ShownInv'
<1>1. ASSUME NEW r \in Requests, Arrival(r)
      PROVE  ShownInv'
  <2>1. \E stmt : Goto(r, stmt)
    BY <1>1 DEF Arrival, BalanceTransactionFind, TransferFind, MakeDeposit, BuyBarcode,
           NewTransaction, DeleteGet, ProfileGet
  <2>2. \E j : Arrive(r, j)
    BY <1>1 DEF Arrival, BalanceTransactionFind, TransferFind, MakeDeposit, BuyBarcode,
           NewTransaction, DeleteGet, ProfileGet
  <2>3. pc[r] = "idle" /\ shown' = shown
    BY <2>2 DEF Arrive
  <2> QED
    BY <2>1, <2>3 DEF Goto, ShownInv, TypeInv, TypeOK
<1>2. ASSUME NEW r \in Requests, Statement(r)
      PROVE  ShownInv'
  <2>1. /\ pc[r] \in Statements \ {"commit"}
        /\ \E stmt : Goto(r, stmt) /\ (stmt # "commit" => shown' = shown)
        /\ shown' \in {shown, shown \cup {r}}
    BY <1>2
       DEF Statement, BalanceTransactionUpdate, BalanceTransactionInsert, TransferDebit,
         TransferFindTarget, TransferCredit, TransferInsertOwn, TransferInsertPeer,
         DepositUpdate, DepositInsert, BuyInsert, BuyUpdate, NewTransactionForm,
         NewTransactionInsertPeer, NewTransactionSavePeer, NewTransactionInsertOwn,
         NewTransactionSaveOwn, DeleteFind, DeleteSavePeer, DeletePeer, DeleteOwn,
         DeleteSaveOwn, ProfileSave, DeleteRow, WriteBack, Increment, SaveUser, Insert,
         Rollback, Finish, Goto, Statements
  <2> QED
    BY <2>1 DEF ShownInv, Goto, Statements, TypeInv, TypeOK
<1>3. ASSUME NEW r \in Requests, Abort(r)
      PROVE  ShownInv'
  <2>1. r \notin shown
    <3> SUFFICES ASSUME r \in shown PROVE FALSE
      OBVIOUS
    <3>1. pc[r] \in {"commit", "committed", "lost"}
      BY DEF ShownInv
    <3>2. Wants(r) = {}
      BY <3>1 DEF Wants
    <3>3. WaitsFor(r) = {}
      BY <3>1, <3>2, Zenon DEF WaitsFor
    <3>4. ~ SerializationFailure(r)
      BY <3>2 DEF SerializationFailure
    <3>5. ~ Deadlock(r)
      BY <3>3 DEF Deadlock
    <3> QED
      BY <1>3, <3>4, <3>5 DEF Abort
  <2>2. Rollback(r, "failed")
    BY <1>3 DEF Abort, SerializationFailure, Deadlock
  <2>3. shown' = shown /\ pc' = [pc EXCEPT ![r] = "failed"]
    BY <2>2 DEF Rollback, Finish, Goto
  <2> QED
    BY <2>1, <2>3 DEF ShownInv, TypeInv, TypeOK
<1>4. CASE SodadCrash
  BY <1>4 DEF SodadCrash, ShownInv, TypeInv, TypeOK
<1>5. ASSUME NEW r \in Requests, Commit(r)
      PROVE  ShownInv'
  BY <1>5 DEF Commit, Finish, Goto, ShownInv, TypeInv, TypeOK
<1>6. CASE UNCHANGED vars
  BY <1>6 DEF vars, ShownInv
<1> QED
  BY <1>1, <1>2, <1>3, <1>4, <1>5, <1>6 DEF Next

(* A purchase the client was shown is never rolled back by a serialization   *)
(* failure or a deadlock, whatever the programs interleave.                  *)
THEOREM ShownStands == Spec => []ShownIsNotRolledBack
<1>1. Init => TypeInv /\ ShownInv
  BY TypeInit DEF Init, ShownInv
<1>2. TypeInv /\ ShownInv /\ [Next]_vars => TypeInv' /\ ShownInv'
  BY TypeStep, ShownStep
<1>3. ShownInv => ShownIsNotRolledBack
  BY DEF ShownInv, ShownIsNotRolledBack
<1> QED
  BY <1>1, <1>2, <1>3, PTL DEF Spec

-----------------------------------------------------------------------------
(* The inductive invariant behind the books, as the runs check it.           *)
THEOREM BooksAreInvariant ==
  ASSUME SafeOperations
  PROVE  Spec => []BooksInv
<1>1. Init => TypeInv /\ BooksInv
  BY TypeInit, BooksInit
<1>2. TypeInv /\ BooksInv /\ [Next]_vars => TypeInv' /\ BooksInv'
  BY TypeStep, BooksStep
<1> QED
  BY <1>1, <1>2, PTL DEF Spec

-----------------------------------------------------------------------------
(* The refinement.  The rows a deletion deletes stay in transactions until   *)
(* its COMMIT: with one deletion at a time, nobody else removes them.        *)
DoomedKept(r) ==
  pc[r] \in Statements /\ job[r].kind = "delete"
    => \A s \in logged[r] : Doomed(r, s)[2] \in rows[job[r].of]

RefinementInv ==
  /\ TypeInv /\ BooksInv /\ TransferInv
  /\ \A r \in Requests : DoomedKept(r)

(* What a statement does to the books: nothing; and to its own request: it   *)
(* goes on, or the transaction is rolled back.                               *)
LEMMA StatementShape ==
  ASSUME TypeInv, NEW r \in Requests, Statement(r)
  PROVE  /\ UNCHANGED <<books, job>>
         /\ pc[r] \in Statements
         /\ \E stmt \in Statements \cup {"failed"} : Goto(r, stmt)
<1> USE DEF Statements, Goto, Ended
<1>1. CASE DeletePeer(r) \/ DeleteOwn(r)
  BY <1>1 DEF DeletePeer, DeleteOwn, DeleteRow, Insert
<1>2. CASE TransferFindTarget(r)
  BY <1>2 DEF TransferFindTarget, Rollback, Finish
<1>3. CASE DeleteFind(r) \/ NewTransactionForm(r) \/ ProfileSave(r)
  BY <1>3 DEF DeleteFind, NewTransactionForm, ProfileSave
<1>4. CASE BalanceTransactionUpdate(r) \/ TransferDebit(r) \/ TransferCredit(r)
             \/ DepositUpdate(r) \/ BuyUpdate(r) \/ NewTransactionSavePeer(r)
             \/ NewTransactionSaveOwn(r) \/ DeleteSavePeer(r) \/ DeleteSaveOwn(r)
  BY <1>4
     DEF BalanceTransactionUpdate, TransferDebit, TransferCredit, DepositUpdate, BuyUpdate,
         NewTransactionSavePeer, NewTransactionSaveOwn, DeleteSavePeer, DeleteSaveOwn,
         WriteBack, Increment, SaveUser
<1>5. CASE BalanceTransactionInsert(r) \/ TransferInsertOwn(r) \/ TransferInsertPeer(r)
             \/ DepositInsert(r) \/ BuyInsert(r) \/ NewTransactionInsertPeer(r)
             \/ NewTransactionInsertOwn(r)
  BY <1>5
     DEF BalanceTransactionInsert, TransferInsertOwn, TransferInsertPeer, DepositInsert,
         BuyInsert, NewTransactionInsertPeer, NewTransactionInsertOwn, Insert
<1> QED
  BY <1>1, <1>2, <1>3, <1>4, <1>5 DEF Statement

LEMMA ArrivalShape ==
  ASSUME TypeInv, NEW r \in Requests, Arrival(r)
  PROVE  /\ pc[r] = "idle"
         /\ UNCHANGED <<books, updated, logged>>
         /\ job' = [job EXCEPT ![r] = job'[r]]
         /\ \E stmt \in Statements \cup {"failed"} : Goto(r, stmt)
<1>1. \E stmt \in Statements \cup {"failed"} : Goto(r, stmt)
  BY DEF Arrival, BalanceTransactionFind, TransferFind, MakeDeposit, BuyBarcode,
         NewTransaction, DeleteGet, ProfileGet, Goto, Statements
<1>2. \E j : Arrive(r, j)
  BY DEF Arrival, BalanceTransactionFind, TransferFind, MakeDeposit, BuyBarcode,
         NewTransaction, DeleteGet, ProfileGet
<1> QED
  BY <1>1, <1>2 DEF Arrive, books, TypeInv, TypeOK

LEMMA CrashDoomed ==
  ASSUME TypeInv, SodadCrash, NEW r \in Requests, DoomedKept(r)
  PROVE  DoomedKept(r)'
<1> SUFFICES ASSUME pc'[r] \in Statements, job'[r].kind = "delete"
             PROVE  \A s \in logged'[r] : Doomed(r, s)'[2] \in rows'[job'[r].of]
  BY DEF DoomedKept
<1>1. pc'[r] = pc[r] /\ logged'[r] = logged[r] /\ job' = job /\ rows' = rows
  BY DEF SodadCrash, books, Statements
<1> QED
  BY <1>1 DEF DoomedKept, Doomed

LEMMA CommitDoomed ==
  ASSUME SafeOperations, TypeInv, BooksInv, NEW q \in Requests, Commit(q),
         NEW r \in Requests, DoomedKept(r)
  PROVE  DoomedKept(r)'
<1> SUFFICES ASSUME pc'[r] \in Statements, job'[r].kind = "delete"
             PROVE  \A s \in logged'[r] : Doomed(r, s)'[2] \in rows'[job'[r].of]
  BY DEF DoomedKept
<1>1. q # r
  BY DEF Commit, Finish, Goto, TypeInv, TypeOK, Statements
<1>2. pc'[r] = pc[r] /\ logged'[r] = logged[r] /\ job' = job
  BY <1>1 DEF Commit, Finish, Goto, TypeInv, TypeOK
<1>3. pc[q] = "commit" /\ pc[q] # "idle" /\ pc[r] # "idle" /\ rows[q] = {}
  BY <1>2 DEF Commit, TypeInv, RowsAreCommitted, Statements
<1>4. "delete" \in Allowed[r] /\ job[q].kind \in Allowed[q]
  BY <1>2, <1>3 DEF TypeInv, JobsKnown
<1>5. job[q].kind # "delete"
  BY <1>1, <1>4 DEF SafeOperations
<1>6. rows' = [rows EXCEPT ![q] = logged[q]]
  BY <1>5 DEF Commit, RowsAfter
<1>7. job[r].of \in Requests
  BY <1>2 DEF BooksInv, DoomedStand
<1>8. \A s \in logged[r] : Doomed(r, s)[2] \in rows[job[r].of]
  BY <1>2 DEF DoomedKept
<1>9. \A s : Doomed(r, s)' = Doomed(r, s)
  BY <1>2 DEF Doomed
<1> QED
  BY <1>2, <1>3, <1>6, <1>7, <1>8, <1>9 DEF TypeInv, TypeOK

LEMMA StatementDoomed ==
  ASSUME TypeInv, NEW q \in Requests, Statement(q), NEW r \in Requests, DoomedKept(r)
  PROVE  DoomedKept(r)'
<1> SUFFICES ASSUME pc'[r] \in Statements, job'[r].kind = "delete",
                    NEW s \in logged'[r]
             PROVE  Doomed(r, s)'[2] \in rows'[job'[r].of]
  BY DEF DoomedKept
<1>1. job' = job /\ rows' = rows /\ pc[q] \in Statements
  BY StatementShape DEF books
<1>2. Doomed(r, s)' = Doomed(r, s)
  BY <1>1 DEF Doomed
<1>3. pc[r] \in Statements
  BY <1>1, StatementShape DEF Goto, TypeInv, TypeOK
<1>4. CASE s \in logged[r]
  BY <1>1, <1>2, <1>3, <1>4 DEF DoomedKept
<1>5. CASE s \notin logged[r]
  <2>1. q = r /\ (DeletePeer(r) \/ DeleteOwn(r))
    BY <1>1, <1>5
       DEF Statement, BalanceTransactionUpdate, BalanceTransactionInsert, TransferDebit,
         TransferFindTarget, TransferCredit, TransferInsertOwn, TransferInsertPeer,
         DepositUpdate, DepositInsert, BuyInsert, BuyUpdate, NewTransactionForm,
         NewTransactionInsertPeer, NewTransactionSavePeer, NewTransactionInsertOwn,
         NewTransactionSaveOwn, DeleteFind, DeleteSavePeer, DeletePeer, DeleteOwn,
         DeleteSaveOwn, ProfileSave, DeleteRow, WriteBack, Increment, SaveUser, Insert,
         Rollback, Finish, TypeInv, TypeOK
  <2> QED
    BY <1>1, <1>2, <1>5, <2>1 DEF DeletePeer, DeleteOwn, DeleteRow, Insert, TypeInv, TypeOK
<1> QED
  BY <1>4, <1>5

LEMMA RefinementInvInit == Init => RefinementInv
BY TypeInit, BooksInit, TransferInit DEF RefinementInv, DoomedKept, Init, Statements

LEMMA RefinementInvStep ==
  ASSUME SafeOperations, RefinementInv, [Next]_vars
  PROVE  RefinementInv'
<1>1. TypeInv' /\ BooksInv' /\ TransferInv'
  BY TypeStep, BooksStep, TransferStep DEF RefinementInv
<1>2. ASSUME NEW r \in Requests
      PROVE  DoomedKept(r)'
  <2>0. TypeInv /\ BooksInv /\ DoomedKept(r)
    BY DEF RefinementInv
  <2>1. ASSUME NEW q \in Requests, Arrival(q)
        PROVE  DoomedKept(r)'
    <3>1. pc[q] = "idle" /\ UNCHANGED <<books, logged>>
      BY <2>0, <2>1, ArrivalShape
    <3>2. CASE q = r
      <4>1. logged'[r] = {}
        BY <2>0, <3>1, <3>2 DEF BooksInv, Quiet, Statements
      <4> QED
        BY <4>1 DEF DoomedKept
    <3>3. CASE q # r
      <4>1. pc'[r] = pc[r] /\ job'[r] = job[r]
        BY <2>0, <2>1, <3>3, ArrivalShape DEF Goto, TypeInv, TypeOK
      <4> QED
        BY <2>0, <3>1, <4>1 DEF DoomedKept, Doomed, books
    <3> QED
      BY <3>2, <3>3
  <2>2. ASSUME NEW q \in Requests, Statement(q)
        PROVE  DoomedKept(r)'
    BY <2>0, <2>2, StatementDoomed
  <2>3. ASSUME NEW q \in Requests, Abort(q)
        PROVE  DoomedKept(r)'
    <3>1. Rollback(q, "failed")
      BY <2>3 DEF Abort, SerializationFailure, Deadlock
    <3> QED
      BY <2>0, <3>1 DEF Rollback, Finish, Goto, books, DoomedKept, Doomed, Statements, TypeInv, TypeOK
  <2>4. ASSUME NEW q \in Requests, Commit(q)
        PROVE  DoomedKept(r)'
    BY <2>0, <2>4, CommitDoomed
  <2>5. CASE SodadCrash
    BY <2>0, <2>5, CrashDoomed
  <2>6. CASE UNCHANGED vars
    BY <2>0, <2>6 DEF vars, books, DoomedKept, Doomed
  <2> QED
    BY <2>1, <2>2, <2>3, <2>4, <2>5, <2>6 DEF Next
<1> QED
  BY <1>1, <1>2 DEF RefinementInv

-----------------------------------------------------------------------------
(* An arrival submits the request, or drops it when it is refused.           *)
LEMMA ArrivalMaps ==
  ASSUME TypeInv, NEW r \in Requests, Arrival(r)
  PROVE  Books!Submit(r) \/ Books!Drop({r})
<1>1. /\ pc[r] = "idle" /\ UNCHANGED books
      /\ job' = [job EXCEPT ![r] = job'[r]]
  BY ArrivalShape
<1>2. outcome[r] = "pending"
  BY <1>1 DEF outcome
<1>3. CASE \E stmt \in Statements : Goto(r, stmt)
  <2>1. outcome' = outcome
    BY <1>1, <1>3 DEF Goto, outcome, Statements, TypeInv, TypeOK
  <2> QED
    BY <1>1, <1>2, <2>1 DEF Books!Submit, books
<1>4. CASE Goto(r, "failed")
  <2>1. outcome' = [q \in Requests |-> IF q \in {r} THEN "dropped" ELSE outcome[q]]
    BY <1>1, <1>4 DEF Goto, outcome, TypeInv, TypeOK
  <2>2. job' = [q \in Requests |-> IF q \in {r} THEN job'[q] ELSE job[q]]
    BY <1>1 DEF TypeInv, TypeOK
  <2> QED
    BY <1>1, <1>2, <2>1, <2>2 DEF Books!Drop, books
<1> QED
  BY <1>3, <1>4, ArrivalShape

(* A statement leaves the books alone, or drops its request.                 *)
LEMMA StatementMaps ==
  ASSUME TypeInv, NEW r \in Requests, Statement(r)
  PROVE  Books!Drop({r}) \/ UNCHANGED Books!ledgerVars
<1>1. UNCHANGED <<books, job>> /\ pc[r] \in Statements
  BY StatementShape
<1>2. CASE \E stmt \in Statements : Goto(r, stmt)
  <2>1. outcome' = outcome
    BY <1>1, <1>2 DEF Goto, outcome, Statements, TypeInv, TypeOK
  <2> QED
    BY <1>1, <2>1 DEF Books!ledgerVars, books
<1>3. CASE Goto(r, "failed")
  <2>1. /\ outcome' = [q \in Requests |-> IF q \in {r} THEN "dropped" ELSE outcome[q]]
        /\ outcome[r] = "pending"
    BY <1>1, <1>3 DEF Goto, outcome, Statements, TypeInv, TypeOK
  <2>2. job' = [q \in Requests |-> IF q \in {r} THEN job'[q] ELSE job[q]]
    BY <1>1 DEF TypeInv, TypeOK
  <2> QED
    BY <1>1, <2>1, <2>2 DEF Books!Drop, books
<1> QED
  BY <1>2, <1>3, StatementShape

(* A crash drops every request of sodad's that was running.                  *)
LEMMA CrashMaps ==
  ASSUME TypeInv, SodadCrash
  PROVE  \E S \in SUBSET Requests : Books!Drop(S)
<1> DEFINE dead == {r \in Requests : Running(r) /\ job[r].kind \in SodadKinds}
<1>1. /\ UNCHANGED <<books, job>>
      /\ pc' = [q \in Requests |-> IF q \in dead THEN "lost" ELSE pc[q]]
  BY DEF SodadCrash
<1>2. \A q \in dead : q \in Requests /\ pc[q] \notin {"committed", "failed", "lost"}
  BY DEF Running, Ended
<1> HIDE DEF dead
<1>3. outcome' = [q \in Requests |-> IF q \in dead THEN "dropped" ELSE outcome[q]]
  BY <1>1, <1>2 DEF outcome, TypeInv, TypeOK
<1>4. \A q \in dead : outcome[q] = "pending"
  BY <1>2 DEF outcome
<1>5. job' = [q \in Requests |-> IF q \in dead THEN job'[q] ELSE job[q]]
  BY <1>1 DEF TypeInv, TypeOK
<1>6. Books!Drop(dead)
  BY <1>1, <1>3, <1>4, <1>5 DEF Books!Drop, books
<1>7. dead \in SUBSET Requests
  BY <1>2
<1> QED
  BY <1>6, <1>7

(* A failed or deadlocked transaction drops its request.                     *)
LEMMA AbortMaps ==
  ASSUME TypeInv, NEW r \in Requests, Abort(r)
  PROVE  Books!Drop({r})
<1>1. Rollback(r, "failed")
  BY DEF Abort, SerializationFailure, Deadlock
<1>2. pc[r] \notin {"committed", "failed", "lost"}
  <2> SUFFICES ASSUME pc[r] \in {"committed", "failed", "lost"} PROVE FALSE
    OBVIOUS
  <2>1. Wants(r) = {}
    BY DEF Wants
  <2>2. WaitsFor(r) = {}
    BY <2>1, Zenon DEF WaitsFor
  <2>3. ~ SerializationFailure(r)
    BY <2>1 DEF SerializationFailure
  <2>4. ~ Deadlock(r)
    BY <2>2 DEF Deadlock
  <2> QED
    BY <2>3, <2>4 DEF Abort
<1>3. outcome' = [q \in Requests |-> IF q \in {r} THEN "dropped" ELSE outcome[q]]
  BY <1>1, <1>2 DEF Rollback, Finish, Goto, outcome, TypeInv, TypeOK
<1>4. outcome[r] = "pending"
  BY <1>2 DEF outcome
<1>5. job' = [q \in Requests |-> IF q \in {r} THEN job'[q] ELSE job[q]]
  BY <1>1 DEF Rollback, TypeInv, TypeOK
<1> QED
  BY <1>1, <1>3, <1>4, <1>5 DEF Books!Drop, Rollback, books

(* A COMMIT books the request whole: the rows it inserted or deleted, and on *)
(* each account exactly what they are worth.                                 *)
LEMMA CommitBooksWhole ==
  ASSUME SafeOperations, RefinementInv, NEW r \in Requests, Commit(r), BalanceMatchesLedger'
  PROVE  Books!Book(r, logged[r])
<1>1. pc[r] = "commit" /\ pc' = [pc EXCEPT ![r] = "committed"] /\ UNCHANGED job
  BY DEF Commit, Finish, Goto
<1>2. outcome[r] = "pending" /\ outcome' = [outcome EXCEPT ![r] = "posted"]
  BY <1>1 DEF outcome, RefinementInv, TypeInv, TypeOK
<1>3. \A u : Worth(job[r], logged[r], u) = Books!Worth(job[r], logged[r], u)
  BY DEF Worth, Books!Worth
<1>4. ledger' = [u \in Users |-> ledger[u] + Books!Worth(job[r], logged[r], u)]
  BY <1>3 DEF Commit
<1>5. balance' = ledger' /\ balance = ledger
  BY DEF RefinementInv, BooksInv, BalanceMatchesLedger
<1> QED
  BY <1>1, <1>2, <1>4, <1>5 DEF Books!Book

LEMMA CommitMaps ==
  ASSUME SafeOperations, RefinementInv, NEW r \in Requests, Commit(r), BalanceMatchesLedger'
  PROVE  Books!Post(r) \/ Books!Transfer(r) \/ Books!AdminPost(r) \/ Books!AdminDelete(r)
<1>1. Books!Book(r, logged[r])
  BY CommitBooksWhole
<1>2. pc[r] = "commit" /\ pc[r] \in Statements
  BY DEF Commit, Statements
<1>3. /\ Progress(r) /\ DoomedStand(r) /\ DoomedKept(r) /\ Covered(r)
      /\ TypeOK /\ job[r] \in Job
  BY <1>2 DEF RefinementInv, BooksInv, TransferInv, TypeInv, JobsKnown, Statements
<1>4. job[r].kind \in Kinds /\ job[r].kind # "profile"
  BY <1>2 DEF RefinementInv, TypeInv, JobsKnown, Job, SafeOperations, Statements
<1>5. job[r].kind # "delete" => rows' = [rows EXCEPT ![r] = logged[r]]
  BY DEF Commit, RowsAfter
<1>6. disabled' = CurrentlyDisabled(r) /\ disabled' \in SUBSET Users
  BY DEF Commit, CurrentlyDisabled
<1>7. job[r].kind \in Relative => UNCHANGED disabled
  BY <1>2, <1>3, <1>6 DEF Covered, FlagsKept, CurrentlyDisabled, TypeOK
<1>8. CASE job[r].kind \in {"purchase", "deposit", "buy"}
  <2>1. logged[r] = {"own"}
    BY <1>2, <1>3, <1>8 DEF Progress, At
  <2> QED
    BY <1>1, <1>5, <1>7, <1>8, <2>1 DEF Books!Post, Relative
<1>9. CASE job[r].kind = "transfer"
  <2>1. logged[r] = {"own", "peer"}
    BY <1>2, <1>3, <1>9 DEF Progress, At, Sides
  <2>2. TransferChecked(r) /\ job[r].who["peer"] \in Users
    BY <1>2, <1>3, <1>9 DEF Covered, Job, Sides
  <2>3. /\ job[r].val["peer"] >= 0 /\ balance[job[r].who["own"]] >= job[r].val["peer"]
        /\ job[r].who["peer"] \notin disabled
    BY <1>2, <1>3, <1>9, <2>2
       DEF TransferChecked, Debited, Accepted, Credited, Covered, FlagsKept, Relative
  <2> QED
    BY <1>1, <1>5, <1>7, <1>9, <2>1, <2>3 DEF Books!Transfer, Relative
<1>10. CASE job[r].kind \in {"adminPost", "adminTransfer"}
  <2>1. logged[r] = IF job[r].kind = "adminPost" THEN {"own"} ELSE {"own", "peer"}
    BY <1>2, <1>3, <1>10 DEF Progress, At, Sides
  <2> QED
    BY <1>1, <1>5, <1>6, <1>10, <2>1 DEF Books!AdminPost
<1>11. CASE job[r].kind = "delete"
  <2> DEFINE gone == {IF s = "own" THEN job[r].side ELSE Other(job[r].side) : s \in logged[r]}
  <2>1. logged[r] \in {{"own"}, {"own", "peer"}} /\ job[r].side \in {"own", "peer"}
    BY <1>2, <1>3, <1>11 DEF Progress, At, Sides, Job
  <2>2. gone = IF logged[r] = {"own"} THEN {job[r].side} ELSE logged[r]
    BY <2>1 DEF Other
  <2>3. gone \subseteq rows[job[r].of]
    BY <1>2, <1>3, <1>11 DEF DoomedKept, Doomed
  <2>4. rows' = [rows EXCEPT ![job[r].of] = @ \ gone]
    BY <1>11 DEF Commit, RowsAfter
  <2> HIDE DEF gone
  <2> QED
    BY <1>1, <1>6, <1>11, <2>1, <2>2, <2>3, <2>4 DEF Books!AdminDelete
<1> QED
  BY <1>4, <1>8, <1>9, <1>10, <1>11 DEF Kinds

LEMMA StepMaps ==
  ASSUME SafeOperations, RefinementInv, [Next]_vars, RefinementInv'
  PROVE  [Books!LedgerNext]_Books!ledgerVars
<1>0. TypeInv /\ BalanceMatchesLedger'
  BY DEF RefinementInv, BooksInv
<1>1. ASSUME NEW r \in Requests, Arrival(r) \/ Statement(r) \/ Abort(r) \/ Commit(r)
      PROVE  [Books!LedgerNext]_Books!ledgerVars
  <2>1. {r} \in SUBSET Requests
    OBVIOUS
  <2> QED
    BY <1>0, <1>1, <2>1, ArrivalMaps, StatementMaps, AbortMaps, CommitMaps DEF Books!LedgerNext
<1>2. CASE SodadCrash
  BY <1>0, <1>2, CrashMaps DEF Books!LedgerNext
<1>3. CASE UNCHANGED vars
  BY <1>3 DEF vars, books, outcome, Books!ledgerVars
<1> QED
  BY <1>1, <1>2, <1>3 DEF Next

(* The programs implement the books: whatever they interleave, what the      *)
(* database shows is a serial run of Ledger, in which every operation is     *)
(* booked whole or not at all -- provided nobody saves a profile form and at *)
(* most one request deletes.                                                 *)
THEOREM AccountsImplementLedger ==
  ASSUME SafeOperations
  PROVE  Spec => ImplementsLedger
<1>1. Init => RefinementInv
  BY RefinementInvInit
<1>2. RefinementInv /\ [Next]_vars => RefinementInv'
  BY RefinementInvStep
<1>3. RefinementInv /\ [Next]_vars /\ RefinementInv' => [Books!LedgerNext]_Books!ledgerVars
  BY StepMaps
<1>4. Init => Books!LedgerInit
  BY OpeningAssumption DEF Init, Books!LedgerInit, outcome, NoJob
<1> QED
  BY <1>1, <1>2, <1>3, <1>4, PTL DEF Spec, ImplementsLedger, Books!LedgerSpec
=============================================================================
