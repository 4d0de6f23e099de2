------------------------------ MODULE CashOut ------------------------------
(* The cash-outs of django/chezbob/cashout: what was counted in the soda     *)
(* machine and the cash box, taken to the bank or paid out.  Cash-outs are   *)
(* edited as in Finance; here are their reports, the finance transaction     *)
(* proposed for one, and the hunt for losses that compares the counts with   *)
(* the deposits of the log and the cash account of the books.                *)
EXTENDS Finance

Entities == {"Soda Machine", "Cash Box", "To Bank", "Payment"}
Earlier(c) == {d \in Cashes : head[d].at < head[c].at}

(* ledger and cashonhand: the running total of the counts, a page at a time, *)
(* and an error page (<<>>) when there is no cash-out.  The ledger cannot add*)
(* to the NULL that balance_before finds when no count is earlier.           *)
CashPage(p) == Page(InOrder(Cashes), p)
(* Mutant: a page begins at nothing, whatever came before it. *)
RunningCashOfPage(page, n) == SumOver(1 .. n, LAMBDA i : Total(rows[page[i]]))

RunningCash(page, n) == SumOver(Earlier(page[1]), LAMBDA c : Total(rows[c]))
                          + SumOver(1 .. n, LAMBDA i : Total(rows[page[i]]))
CashLedger(p) ==
  LET page == CashPage(p)
  IN  IF page = <<>> \/ \A c \in Earlier(page[1]) : rows[c] = <<>> THEN <<>>
      ELSE [n \in DOMAIN page |-> RunningCash(page, n)]
CashOnHand(p) ==
  LET page == CashPage(p)
  IN  IF page = <<>> THEN <<>> ELSE [n \in DOMAIN page |-> RunningCash(page, n)]

(* gen_transaction: each count against its account, balanced on Collected.   *)
AccountOf(entity) ==
  CASE entity \in {"Soda Machine", "Cash Box"} -> "cash"
    [] entity = "To Bank" -> "bank"
    [] entity = "Payment" -> "inventory"
    [] OTHER -> ""
GenForm(c) ==
  Append([i \in DOMAIN rows[c] |-> [of |-> AccountOf(rows[c][i].of), amount |-> -rows[c][i].amount]],
         [of |-> "collected", amount |-> Total(rows[c])])
GenTransaction(e, c) ==
  /\ c \in Cashes /\ edit[e].pc = "idle"
  /\ \E id \in Fresh(Transactions) :
       EditPost(e, id, [at |-> Day(head[c].at) * DayLength, auto |-> FALSE, name |-> "Cash"], GenForm(c))

(* show_losses and check_cash.  Each cash-out closes a window that began at  *)
(* the one before it (the first begins with the log): deposits and the other *)
(* cash entries of the window are added to the balance; a cash-out with      *)
(* counts of a box also settles what its sources were expected to hold.      *)
(* check_cash knows no deltas of deposits without a source.  Nothing can be  *)
(* added to the NULL of a cash account that was never opened.                *)
FirstDay == Min(Days) * DayLength
OpeningSplits == {t \in Txs : head[t].at < FirstDay /\ \E i \in DOMAIN rows[t] : rows[t][i].of = "cash"}
CashSplits(from, to, T) ==
  SumOver({t \in T : from <= Day(head[t].at) * DayLength /\ Day(head[t].at) * DayLength < to},
          LAMBDA t : OnAccount(rows[t], "cash"))
CashRows(from, to) ==
  {i \in DOMAIN log : log[i].type \in {"ADD", "REFUND"} /\ from <= log[i].at /\ log[i].at < to}
Deposited(from, to, S) == LogSum({i \in CashRows(from, to) : log[i].source \in S})
Sources == {log[i].source : i \in DOMAIN log} \cup {"soda", "chezbob"}
Boxes == [soda |-> "Soda Machine", chezbob |-> "Cash Box"]
Collected(c, s) ==
  IF s \in DOMAIN Boxes THEN Total(Kept(rows[c], {x \in ToSet(rows[c]) : x.of = Boxes[s] /\ x.amount > 0})) ELSE 0
HasCount(c) == \E i \in DOMAIN rows[c] : rows[c][i].of \in {"Soda Machine", "Cash Box"} /\ rows[c][i].amount > 0

Manual == {t \in Txs : ~head[t].auto}
Opening == SumOver(OpeningSplits, LAMBDA t : OnAccount(rows[t], "cash"))
Close(S, acc, c) ==
  LET counted == HasCount(c)
      totals == [s \in S |-> acc.totals[s] + Deposited(acc.last, head[c].at, {s})]
      balance == acc.balance + Deposited(acc.last, head[c].at, Sources)
                   + CashSplits(acc.last, head[c].at, Manual)
      deltas == [s \in S |-> acc.deltas[s] + Collected(c, s) - (IF counted THEN totals[s] ELSE 0)]
  IN  [last |-> head[c].at, balance |-> balance, deltas |-> deltas,
       totals |-> IF counted THEN [s \in S |-> 0] ELSE totals,
       out |-> IF counted THEN Append(acc.out, [of |-> c, balance |-> balance, deltas |-> deltas])
               ELSE acc.out]
Settle(S) ==
  LET zero == [s \in S |-> 0]
  IN  IF log = <<>> \/ OpeningSplits = {} THEN <<>>
      ELSE FoldLeft(LAMBDA acc, c : Close(S, acc, c),
                    [last |-> FirstDay, balance |-> Opening, totals |-> zero, deltas |-> zero, out |-> <<>>],
                    InOrder({c \in Cashes : head[c].at >= FirstDay})).out
(* show_losses sorts the sources of a settled period by name, and fails when *)
(* one of several has none.                                                  *)
Unsortable(found, i) ==
  LET from == IF i = 1 THEN FirstDay ELSE head[found[i - 1].of].at
      keys == {log[j].source : j \in CashRows(from, head[found[i].of].at)}
  IN  "unknown" \in keys /\ Cardinality(keys) > 1
Losses ==
  LET found == Settle(Sources)
  IN  IF \E i \in DOMAIN found : Unsortable(found, i) THEN <<>> ELSE found
CheckCash == Settle(Sources \ {"unknown"})

-----------------------------------------------------------------------------
CashNext == Next \/ \E e \in Editors, c \in CashOuts : GenTransaction(e, c)
CashSpec == Init /\ [][CashNext]_vars

(* The transaction proposed for a cash-out of the known entities can be      *)
(* committed as it stands: it balances and loses no count.  The reports of   *)
(* cash-outs that happened at different times run on from page to page, and  *)
(* at each settled cash-out the error reported is the opening cash plus all  *)
(* deposits and all manual cash entries before it, each counted once though  *)
(* windows open and close, and each source's error is all that was collected *)
(* minus all that was deposited.                                             *)
Proposals ==
  \A c \in Cashes, id \in Transactions :
    (\A i \in DOMAIN rows[c] : rows[c][i].of \in Entities) => MayCommit(id, GenForm(c))
CashRuns ==
  Cardinality({head[c].at : c \in Cashes}) = Cardinality(Cashes) =>
    \A p \in 1 .. NumPages(Cardinality(Cashes)) :
      LET page == CashPage(p)
          right == [n \in DOMAIN page |-> SumOver({d \in Cashes : head[d].at <= head[page[n]].at},
                                                  LAMBDA d : Total(rows[d]))]
      IN  CashLedger(p) \in {<<>>, right} /\ CashOnHand(p) \in {<<>>, right}
Settles(found, S) ==
  \A i \in DOMAIN found :
    LET c == found[i].of
        upTo == {d \in Cashes : head[d].at >= FirstDay /\ ~Before(c, d)}
    IN  /\ found[i].balance = Opening + Deposited(FirstDay, head[c].at, Sources)
                                + CashSplits(FirstDay, head[c].at, Manual)
        /\ \A s \in S : found[i].deltas[s] =
             SumOver(upTo, LAMBDA d : Collected(d, s)) - Deposited(FirstDay, head[c].at, {s})
LossesAgree == Settles(Losses, Sources) /\ Settles(CheckCash, Sources \ {"unknown"})
CashReports == Proposals /\ CashRuns /\ LossesAgree
=============================================================================
