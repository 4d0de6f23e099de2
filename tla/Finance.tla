------------------------------ MODULE Finance ------------------------------
(* The double-entry books of the co-op (django/chezbob/finance), the cron    *)
(* job that copies the day's sales into them (util/sync_db.py), and the      *)
(* forms that rewrite a transaction or a cash-out.  Every statement commits  *)
(* on its own (settings.py.template asks for no transactions), so another    *)
(* request may run between any two of them, and a process may die there.     *)
EXTENDS Integers, Sequences, FiniteSets, SequencesExt

CONSTANTS
  Transactions, CashOuts,  \* ids the two serial columns hand out, in order
  Editors,                 \* requests that edit a transaction or a cash-out
  Users,                   \* customers with rows in the bank's transactions
  Texts,                   \* what text columns hold: accounts, entities, types
  DayLength,               \* ticks in a day; a date is the day of a time
  PageSize,                \* count_per_page
  Log0, Head0, Rows0,      \* what the tables hold at first
  Arrivals,                \* rows that may be added to the bank's log meanwhile
  Heads(_), Forms(_),        \* what an editor may type into the form of an id
  Shifts,                  \* who comes: records [editors, runs of the cron job]
  MaxLog                   \* bound: rows of the log

ASSUME FinanceConstants ==
  /\ Transactions \subseteq Nat /\ CashOuts \subseteq Nat
  /\ Transactions \cap CashOuts = {}
  /\ DayLength \in Nat \ {0} /\ PageSize \in Nat \ {0}
  /\ IsFiniteSet(Users)
  /\ {"deposit", "donate", "purchase", "refund", "socialhour", "writeoff", "Cash"} \subseteq Texts
  /\ {"cash", "deposits", "donations", "purchases", "socialDonations", "socialRestricted", "bank",
      "writeoff", "inventory", "collected", ""} \subseteq Texts

VARIABLES
  log,       \* table transactions: rows [at, user, type, amount, source]
  head,      \* finance_transactions and cashout_cashout, by id
  rows,      \* their finance_splits or cashout_cashcounts, in order of id
  deposits,  \* finance_deposit_summary: by day <<positive, negative>>
  edit,      \* the state of each edit request
  sync,      \* the state of the cron job
  meant,     \* history: for every id ever used, the rows last meant for it
  mixed,     \* history: ids whose writers overlapped or died
  disturbed  \* history: something but the cron job wrote since it started

tables == <<log, head, rows, deposits>>
vars == <<log, head, rows, deposits, edit, sync, meant, mixed, disturbed>>

Day(t) == t \div DayLength
Add(f, id, v) == [x \in DOMAIN f \cup {id} |-> IF x = id THEN v ELSE f[x]]
Drop(f, id) == [x \in DOMAIN f \ {id} |-> f[x]]
SumOver(S, f(_)) ==
  LET sum[T \in SUBSET S] == IF T = {} THEN 0 ELSE LET x == CHOOSE x \in T : TRUE IN f(x) + sum[T \ {x}]
  IN  sum[S]
Total(s) == LET upTo[n \in 0 .. Len(s)] == IF n = 0 THEN 0 ELSE upTo[n - 1] + s[n].amount IN upTo[Len(s)]
Kept(s, T) ==
  LET upTo[n \in 0 .. Len(s)] ==
        IF n = 0 THEN <<>> ELSE IF s[n] \in T THEN Append(upTo[n - 1], s[n]) ELSE upTo[n - 1]
  IN  upTo[Len(s)]
OnAccount(s, a) ==
  LET upTo[n \in 0 .. Len(s)] ==
        IF n = 0 THEN 0 ELSE upTo[n - 1] + (IF s[n].of = a THEN s[n].amount ELSE 0)
  IN  upTo[Len(s)]
Txs == DOMAIN head \cap Transactions
Cashes == DOMAIN head \cap CashOuts

(* The rows of the tables: of the log, the headers, and the splits or counts.*)
LogRow == [at : Nat, user : Users, type : Texts, amount : Int, source : Texts]
Header == [at : Nat, auto : BOOLEAN, name : Texts]
Line == [of : Texts, amount : Int]

ASSUME FinanceTables ==
  /\ Log0 \in Seq(LogRow) /\ Arrivals \subseteq Seq(LogRow)
  /\ IsFiniteSet(DOMAIN Head0) /\ DOMAIN Head0 \subseteq Transactions \cup CashOuts
  /\ Head0 \in [DOMAIN Head0 -> Header] /\ Rows0 \in [DOMAIN Head0 -> Seq(Line)]
  /\ \A t \in DOMAIN Head0 \cap Transactions : Total(Rows0[t]) = 0
  /\ \A id \in Transactions \cup CashOuts : Heads(id) \subseteq Header /\ Forms(id) \subseteq Seq(Line)
  /\ \A shift \in Shifts : shift.runs \in Nat

-----------------------------------------------------------------------------
(* Reports.                                                                  *)

Reversed(a) == a \in {"deposits", "purchases", "donations", "socialDonations"}
Sign(a) == IF Reversed(a) THEN -1 ELSE 1

(* Account.get_balances up to a day, and as account_list shows them.         *)
Balances(a, day) == SumOver({t \in Txs : Day(head[t].at) <= day}, LAMBDA t : OnAccount(rows[t], a))
Shown(a, day) == Sign(a) * Balances(a, day)

Before(t, u) == head[t].at < head[u].at \/ (head[t].at = head[u].at /\ t < u)
InOrder(S) == MapThenFoldSet(LAMBDA t, s : Append(s, t), <<>>, LAMBDA t : t,
                             LAMBDA T : CHOOSE t \in T : \A u \in T \ {t} : Before(u, t), S)

(* The slice of s on page p of a Paginator; a page that does not exist is    *)
(* the last one.                                                             *)
NumPages(n) == IF n = 0 THEN 1 ELSE (n + PageSize - 1) \div PageSize
Page(s, p) ==
  LET q == IF p \in 1 .. NumPages(Len(s)) THEN p ELSE NumPages(Len(s))
      last == IF q * PageSize < Len(s) THEN q * PageSize ELSE Len(s)
  IN  SubSeq(s, (q - 1) * PageSize + 1, last)

(* Mutant: the transactions of the same day are all left out. *)
BalanceBeforeDay(t, a) ==
  Sign(a) * SumOver({u \in Txs : head[u].at < head[t].at}, LAMBDA u : OnAccount(rows[u], a))

(* Transaction.balance_before, negated for a reversed account.               *)
BalanceBefore(t, a) == Sign(a) * SumOver({u \in Txs : Before(u, t)}, LAMBDA u : OnAccount(rows[u], a))

(* ledger of account a: every transaction on page p with the running balance.*)
(* A page of one or two shows all of them.                                   *)
LedgerPage(a, p) ==
  LET all == InOrder({t \in Txs : \E i \in DOMAIN rows[t] : rows[t][i].of = a})
      page == IF Len(Page(all, p)) > 2 THEN Page(all, p) ELSE all
      Balance(n) == BalanceBefore(page[1], a)
                      + SumOver(1 .. n, LAMBDA i : OnAccount(rows[page[i]], a))
  IN  [n \in DOMAIN page |-> [id |-> page[n], balance |-> Sign(a) * Balance(n)]]

(* Transaction.fetch_all: the join of transactions and splits, cut where the *)
(* id changes.                                                               *)
Join == LET order == InOrder(Txs)
        IN  FlattenSeq([i \in DOMAIN order |->
              [j \in DOMAIN rows[order[i]] |-> [id |-> order[i], split |-> rows[order[i]][j]]]])
FetchAll ==
  FoldLeft(LAMBDA found, x :
             IF found = <<>> \/ Last(found).id # x.id
             THEN Append(found, [id |-> x.id, splits |-> <<x.split>>])
             ELSE [found EXCEPT ![Len(found)].splits = Append(@, x.split)],
           <<>>, Join)

(* transaction_dump writes them with the mark of the automatic ones.         *)
TransactionDump ==
  LET found == FetchAll
  IN  [i \in DOMAIN found |-> <<found[i].id, head[found[i].id].auto, found[i].splits>>]

(* gen_gnuplot_dump: one line per date, with the balance of account a.       *)
Dump(a) ==
  LET AddTo(acc, t) ==
        LET out == IF acc.date \in {-1, Day(head[t].at)} THEN acc.out
                   ELSE Append(acc.out, <<acc.date, acc.sum>>)
        IN  [out |-> out, date |-> Day(head[t].at),
             sum |-> acc.sum + Sign(a) * OnAccount(rows[t], a)]
      end == FoldLeft(AddTo, [out |-> <<>>, date |-> -1, sum |-> 0], InOrder(Txs))
  IN  Append(end.out, <<end.date, end.sum>>)

-----------------------------------------------------------------------------
(* Editing: edit_transaction and edit_cashout, one request each.  The form   *)
(* is judged, then the header is saved, the old rows are deleted and the new *)
(* ones are inserted.                                                        *)

Idle == [pc |-> "idle"]
Done == [pc |-> "done"]
Writing(e, id) == edit[e].pc \in {"clear", "row"} /\ edit[e].id = id
Written(id) == (\E e \in Editors : Writing(e, id)) \/ (sync.pc = "row" /\ sync.of = id)

(* Rows without an account, or without an entity or a total, are left out.   *)
SplitsGiven(form) == Kept(form, {x \in ToSet(form) : x.of # ""})
CountsGiven(form) == Kept(form, {x \in ToSet(form) : x.of # "" /\ x.amount # 0})
Filled(id, form) == IF id \in CashOuts THEN CountsGiven(form) ELSE SplitsGiven(form)
MayCommit(id, form) ==
  /\ Filled(id, form) # <<>>
  /\ id \in Transactions => Total(Filled(id, form)) = 0

(* The form of an existing id, or of a new one, is submitted without         *)
(* _update.  A form that may not be committed is only shown again.           *)
Fresh(ids) == {id \in ids \ DOMAIN meant : \A x \in ids \ DOMAIN meant : id <= x}
Kind(id) == IF id \in CashOuts THEN CashOuts ELSE Transactions
EditPost(e, id, h, form) ==
  /\ edit[e].pc = "idle"
  /\ id \in DOMAIN head \cup Fresh(Kind(id))
  /\ MayCommit(id, form)
  /\ edit' = [edit EXCEPT ![e] = [pc |-> "save", id |-> id, isNew |-> id \notin DOMAIN head,
                                  head |-> h, rows |-> Filled(id, form)]]
  /\ UNCHANGED <<tables, sync, meant, mixed, disturbed>>

(* save(): an UPDATE, or an INSERT when the row is new or is gone by now.    *)
EditSave(e) ==
  /\ edit[e].pc = "save"
  /\ \E id \in IF edit[e].isNew THEN Fresh(Kind(edit[e].id)) ELSE {edit[e].id} :
       /\ head' = Add(head, id, edit[e].head)
       /\ rows' = IF id \in DOMAIN rows THEN rows ELSE Add(rows, id, <<>>)
       /\ edit' = [edit EXCEPT ![e] = [@ EXCEPT !.pc = "clear", !.id = id]]
       /\ meant' = Add(meant, id, edit[e].rows)
       /\ mixed' = IF Written(id) THEN mixed \cup {id} ELSE mixed \ {id}
  /\ disturbed' = TRUE
  /\ UNCHANGED <<log, deposits, sync>>

(* Mutant: the old rows stay. *)
EditClearNothing(e) ==
  /\ edit[e].pc = "clear"
  /\ edit' = [edit EXCEPT ![e].pc = "row"] /\ disturbed' = TRUE
  /\ UNCHANGED <<log, head, rows, deposits, sync, meant, mixed>>

EditClear(e) ==
  /\ edit[e].pc = "clear"
  /\ rows' = [id \in DOMAIN rows |-> IF id = edit[e].id THEN <<>> ELSE rows[id]]
  /\ edit' = [edit EXCEPT ![e].pc = "row"]
  /\ disturbed' = TRUE
  /\ UNCHANGED <<log, head, deposits, sync, meant, mixed>>

(* One split or count; the foreign key refuses it when the header is gone.   *)
EditRow(e) ==
  LET id == edit[e].id
      rest == Tail(edit[e].rows)
  IN  /\ edit[e].pc = "row"
      /\ IF id \in DOMAIN head
         THEN /\ rows' = [rows EXCEPT ![id] = Append(@, Head(edit[e].rows))]
              /\ edit' = [edit EXCEPT ![e] = IF rest = <<>> THEN Done ELSE [@ EXCEPT !.rows = rest]]
         ELSE /\ edit' = [edit EXCEPT ![e] = Done]
              /\ UNCHANGED rows
      /\ disturbed' = TRUE
      /\ UNCHANGED <<log, head, deposits, sync, meant, mixed>>

(* The worker process is killed in the middle of a request.                  *)
EditDie(e) ==
  /\ edit[e].pc \in {"save", "clear", "row"}
  /\ mixed' = IF edit[e].pc = "save" THEN mixed ELSE mixed \cup {edit[e].id}
  /\ edit' = [edit EXCEPT ![e] = Done]
  /\ UNCHANGED <<tables, sync, meant, disturbed>>

-----------------------------------------------------------------------------
(* sync_db.sync(), run by cron for every day of the log.                     *)

AutoOrder == <<"deposit", "donate", "purchase", "refund", "socialhour", "writeoff">>
AutoSplits ==
  [deposit    |-> << <<1, "cash">>, <<-1, "deposits">> >>,
   donate     |-> << <<1, "deposits">>, <<-1, "donations">> >>,
   purchase   |-> << <<1, "deposits">>, <<-1, "purchases">> >>,
   socialhour |-> << <<1, "deposits">>, <<-1, "socialDonations">>,
                     <<1, "socialRestricted">>, <<-1, "bank">> >>,
   writeoff   |-> << <<1, "writeoff">>, <<-1, "deposits">> >>,
   refund     |-> << <<1, "deposits">>, <<-1, "cash">> >>]
NeededSplits(ty, amount) ==
  [i \in DOMAIN AutoSplits[ty] |-> [of |-> AutoSplits[ty][i][2], amount |-> AutoSplits[ty][i][1] * amount]]

(* The category of a row of the log and the sign it is summed with.          *)
Category ==
  [ADD |-> <<"deposit", 1>>, BUY |-> <<"purchase", -1>>, DONATION |-> <<"donate", -1>>,
   SOCIAL |-> <<"socialhour", -1>>, WRITEOFF |-> <<"writeoff", 1>>, REFUND |-> <<"refund", -1>>,
   WITHDRAW |-> <<"deposit", -1>>]
LogOf(day) == {i \in DOMAIN log : Day(log[i].at) = day}
LogUntil(day) == {i \in DOMAIN log : Day(log[i].at) <= day}
Sums(day) ==
  [ty \in DOMAIN AutoSplits |->
     SumOver({i \in LogOf(day) : log[i].type \in DOMAIN Category /\ Category[log[i].type][1] = ty},
             LAMBDA i : Category[log[i].type][2] * log[i].amount)]
LogSum(I) == SumOver(I, LAMBDA i : log[i].amount)
UserBalance(u, day) == LogSum({i \in LogUntil(day) : log[i].user = u})

Days == {Day(log[i].at) : i \in DOMAIN log}
SyncStart ==
  /\ sync.pc \in {"done", "died"} /\ sync.runs > 0
  /\ log # <<>>
  /\ sync' = [pc |-> "read", runs |-> sync.runs - 1, day |-> Min(Days), last |-> Max(Days),
              liabilities |-> 0, odd |-> {}]
  /\ disturbed' = (\E e \in Editors : edit[e].pc \notin {"idle", "done"})
  /\ UNCHANGED <<tables, edit, meant, mixed>>

(* sync_day: the sums of the day.                                            *)
SyncRead ==
  /\ sync.pc = "read"
  /\ sync' = [pc |-> "list", runs |-> sync.runs, day |-> sync.day, last |-> sync.last, odd |-> sync.odd,
              liabilities |-> sync.liabilities + LogSum(LogOf(sync.day)), sums |-> Sums(sync.day),
              old |-> {}, redo |-> FALSE, todo |-> <<>>, of |-> 0, new |-> <<>>, owed |-> <<>>]
  /\ UNCHANGED <<tables, edit, meant, mixed, disturbed>>

Proceed(s) ==
  IF s.todo # <<>> THEN [s EXCEPT !.pc = "match"]
  ELSE IF s.redo THEN [s EXCEPT !.pc = "positive"]
  ELSE [pc |-> IF s.day = s.last THEN "done" ELSE "read", runs |-> s.runs, day |-> s.day + 1, last |-> s.last,
        liabilities |-> s.liabilities, odd |-> s.odd \cup s.old]

(* update_day: the automatic transactions of the day and its summary.        *)
SyncList ==
  LET old == {[id |-> t, name |-> head[t].name] : t \in {t \in Txs : head[t].auto /\ Day(head[t].at) = sync.day}}
      stale == sync.day \notin DOMAIN deposits
               \/ deposits[sync.day][1] - deposits[sync.day][2] # sync.liabilities
      todo == Kept(AutoOrder, {ty \in DOMAIN AutoSplits : sync.sums[ty] # 0 \/ \E o \in old : o.name = ty})
  IN  /\ sync.pc = "list"
      /\ sync' = Proceed([sync EXCEPT !.old = old, !.redo = stale, !.todo = todo])
      /\ UNCHANGED <<tables, edit, meant, mixed, disturbed>>

(* Mutant: only the accounts of the splits are compared. *)
MatchesAccounts(id, ty) ==
  {x.of : x \in ToSet(IF id \in DOMAIN rows THEN rows[id] ELSE <<>>)}
    = {x.of : x \in ToSet(NeededSplits(ty, sync.sums[ty]))}

Matches(id, ty) ==
  LET s == IF id \in DOMAIN rows THEN rows[id] ELSE <<>>
      needed == NeededSplits(ty, sync.sums[ty])
  IN  Len(s) = Len(needed) /\ ToSet(s) = ToSet(needed)

SyncMatch ==
  LET ty == Head(sync.todo)
      olds == {o \in sync.old : o.name = ty}
  IN  /\ sync.pc = "match"
      /\ \/ olds = {} /\ sync' = [sync EXCEPT !.pc = "insert"]
         \/ \E o \in olds :
              sync' = IF sync.sums[ty] = 0 \/ ~Matches(o.id, ty)
                      THEN [sync EXCEPT !.pc = "delete", !.of = o.id, !.old = @ \ {o}]
                      ELSE Proceed([sync EXCEPT !.todo = Tail(@), !.old = @ \ {o}])
      /\ UNCHANGED <<tables, edit, meant, mixed, disturbed>>

(* old.delete() takes the splits with it.                                    *)
SyncDelete ==
  /\ sync.pc = "delete"
  /\ head' = Drop(head, sync.of) /\ rows' = Drop(rows, sync.of)
  /\ mixed' = mixed \ {sync.of}
  /\ sync' = IF sync.sums[Head(sync.todo)] # 0 THEN [sync EXCEPT !.pc = "insert", !.redo = TRUE]
             ELSE Proceed([sync EXCEPT !.todo = Tail(@), !.redo = TRUE])
  /\ UNCHANGED <<log, deposits, edit, meant, disturbed>>

(* insert_transaction: the header, then one split after the other.           *)
SyncInsert ==
  /\ sync.pc = "insert"
  /\ \E id \in Fresh(Transactions), ty \in {Head(sync.todo)} :
       /\ head' = Add(head, id, [at |-> sync.day * DayLength, auto |-> TRUE, name |-> ty])
       /\ rows' = Add(rows, id, <<>>)
       /\ meant' = Add(meant, id, NeededSplits(ty, sync.sums[ty]))
       /\ sync' = [sync EXCEPT !.pc = "row", !.of = id, !.redo = TRUE, !.new = NeededSplits(ty, sync.sums[ty])]
  /\ UNCHANGED <<log, deposits, edit, mixed, disturbed>>

SyncRow ==
  /\ sync.pc = "row"
  /\ rows' = [rows EXCEPT ![sync.of] = Append(@, Head(sync.new))]
  /\ sync' = IF Len(sync.new) > 1 THEN [sync EXCEPT !.new = Tail(@)]
             ELSE Proceed([sync EXCEPT !.todo = Tail(@), !.new = <<>>])
  /\ UNCHANGED <<log, head, deposits, edit, meant, mixed, disturbed>>

(* The SUM of no rows is NULL, which the summary does not take: the job ends.*)
Owing(day, s) == {u \in Users : s * UserBalance(u, day) > 0}
Owed(S, day) == SumOver(S, LAMBDA u : UserBalance(u, day))
SyncPositive ==
  /\ sync.pc = "positive"
  /\ sync' = [sync EXCEPT !.pc = "negative",
                          !.owed = IF Owing(sync.day, 1) = {} THEN <<>>
                                   ELSE <<Owed(Owing(sync.day, 1), sync.day)>>]
  /\ UNCHANGED <<tables, edit, meant, mixed, disturbed>>

SyncNegative ==
  /\ sync.pc = "negative"
  /\ IF sync.owed = <<>> \/ Owing(sync.day, -1) = {}
     THEN /\ deposits' = Drop(deposits, sync.day)
          /\ sync' = [pc |-> "died", runs |-> sync.runs]
     ELSE /\ deposits' = Add(deposits, sync.day, <<sync.owed[1], -Owed(Owing(sync.day, -1), sync.day)>>)
          /\ sync' = Proceed([sync EXCEPT !.redo = FALSE])
  /\ UNCHANGED <<log, head, rows, edit, meant, mixed, disturbed>>

SyncDie ==
  /\ sync.pc \notin {"done", "died"}
  /\ sync' = [pc |-> "died", runs |-> sync.runs]
  /\ mixed' = IF sync.pc = "row" THEN mixed \cup {sync.of} ELSE mixed
  /\ UNCHANGED <<tables, edit, meant, disturbed>>

(* Customers buy and deposit meanwhile; a transfer adds two rows at once.    *)
LogGrows ==
  /\ Len(log) < MaxLog
  /\ \E new \in Arrivals : log' = log \o new
  /\ disturbed' = TRUE
  /\ UNCHANGED <<head, rows, deposits, edit, sync, meant, mixed>>

-----------------------------------------------------------------------------
Init ==
  /\ log = Log0 /\ head = Head0 /\ rows = Rows0
  /\ deposits = [d \in {} |-> <<0, 0>>]
  /\ \E shift \in Shifts :
       /\ edit = [e \in Editors |-> IF e \in shift.editors THEN Idle ELSE Done]
       /\ sync = [pc |-> "died", runs |-> shift.runs]
  /\ meant = Rows0 /\ mixed = {} /\ disturbed = TRUE

EditStep(e) == EditSave(e) \/ EditClear(e) \/ EditRow(e) \/ EditDie(e)
SyncStep == \/ SyncRead \/ SyncList \/ SyncMatch \/ SyncDelete \/ SyncInsert \/ SyncRow
            \/ SyncPositive \/ SyncNegative \/ SyncDie
Next ==
  \/ \E e \in Editors, id \in Transactions \cup CashOuts :
       \E h \in Heads(id), form \in Forms(id) : EditPost(e, id, h, form)
  \/ \E e \in Editors : EditStep(e)
  \/ SyncStart \/ SyncStep \/ LogGrows

Spec == Init /\ [][Next]_vars
-----------------------------------------------------------------------------
Ids == Transactions \cup CashOuts
Writes == [pc : {"save", "clear", "row"}, id : Ids, isNew : BOOLEAN, head : Header, rows : Seq(Line)]

(* The cron job between two days, and on a day.                              *)
Olds == [id : Transactions, name : Texts]
Between == [pc : {"read", "done"}, runs : Nat, day : Nat, last : Nat, liabilities : Int, odd : SUBSET Olds]
Working == [pc : {"list", "match", "delete", "insert", "row", "positive", "negative"},
            runs : Nat, day : Nat, last : Nat, liabilities : Int, odd : SUBSET Olds,
            sums : [DOMAIN AutoSplits -> Int], old : SUBSET Olds, redo : BOOLEAN,
            todo : Seq(DOMAIN AutoSplits), of : Ids \cup {0}, new : Seq(Line),
            owed : Seq(Int)]
TypeOK ==
  /\ log \in Seq(LogRow)
  /\ DOMAIN head \subseteq DOMAIN meant /\ DOMAIN meant \subseteq Ids /\ mixed \subseteq Ids
  /\ head \in [DOMAIN head -> Header] /\ rows \in [DOMAIN head -> Seq(Line)]
  /\ meant \in [DOMAIN meant -> Seq(Line)]
  /\ edit \in [Editors -> {Idle, Done} \cup Writes]
  /\ sync \in [pc : {"died"}, runs : Nat] \cup Between \cup Working
  /\ disturbed \in BOOLEAN

(* The rows of a transaction or cash-out are the ones its last writer meant, *)
(* and the splits of a transaction sum to zero (finance/models.py 7-9), once *)
(* nobody writes it, unless two writers of it overlapped or one of them died:*)
(* the rewriting of finance/views.py 261-269 and cashout/views.py 263-284,   *)
(* and the repair of torn automatic transactions by update_day.              *)
RowsAsMeant ==
  \A id \in DOMAIN head : ~Written(id) /\ id \notin mixed =>
    /\ rows[id] = meant[id]
    /\ id \in Transactions => Total(rows[id]) = 0

(* After a run of sync() that nothing disturbed and that reported no         *)
(* unmatched transaction, whatever earlier runs died in the middle of, the   *)
(* automatic transactions owe the customers what their rows sum to, day by   *)
(* day, and the day's summary splits the same sum (finance/models.py 190):   *)
(* the books and the log differ by the rows whose type sync_day does not     *)
(* know (transfers, which cancel out, and reimbursements), and by twice the  *)
(* withdrawals, which it books with the sign of a deposit.                   *)
AutoOwed(day) ==
  -SumOver({t \in Txs : head[t].auto /\ Day(head[t].at) \in Min(Days) .. day},
           LAMBDA t : OnAccount(rows[t], "deposits"))
Unbooked(day) ==
  LogSum({i \in LogUntil(day) : log[i].type \notin DOMAIN Category})
    + 2 * LogSum({i \in LogUntil(day) : log[i].type = "WITHDRAW"})
SyncedBooks ==
  sync.pc = "done" /\ ~disturbed /\ sync.odd = {} =>
    \A day \in Min(Days) .. Max(Days) :
      /\ AutoOwed(day) = LogSum(LogUntil(day)) - Unbooked(day)
      /\ day \in DOMAIN deposits /\ deposits[day][1] - deposits[day][2] = LogSum(LogUntil(day))

(* The reports of the books tell one story at every moment: each line of an  *)
(* account's ledger ends at the sum of the splits up to it, on whatever page *)
(* it is shown (an account with reversed sign only on pages that begin with  *)
(* nothing before them, see the README); the dump has one line per date, at  *)
(* the balance of that date; the XML dump has each transaction with splits   *)
(* once, with all of them.                                                   *)
LedgerRuns(a) ==
  \A p \in 1 .. NumPages(Cardinality(Txs)) :
    LET page == LedgerPage(a, p)
    IN  page = <<>> \/ (Reversed(a) /\ BalanceBefore(page[1].id, a) # 0)
          \/ \A i \in DOMAIN page :
               page[i].balance = Sign(a) * SumOver({u \in Txs : ~Before(page[i].id, u)},
                                                   LAMBDA u : OnAccount(rows[u], a))
DumpRuns(a) ==
  LET dump == Dump(a)
  IN  Txs # {} => /\ Len(dump) = Cardinality({Day(head[t].at) : t \in Txs})
                  /\ \A i \in DOMAIN dump : dump[i][2] = Shown(a, dump[i][1])
FetchedWhole ==
  LET dump == TransactionDump
  IN  /\ ToSet(dump) = {<<t, head[t].auto, rows[t]>> : t \in {t \in Txs : rows[t] # <<>>}}
      /\ \A i, j \in DOMAIN dump : dump[i][1] = dump[j][1] => i = j
ReportsAgree == (\A a \in {"cash", "deposits"} : LedgerRuns(a) /\ DumpRuns(a)) /\ FetchedWhole
=============================================================================
