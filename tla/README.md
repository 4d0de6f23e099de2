# A verification project for Chez Bob

Chez Bob is a student food co-op run on the honour system.  Its customers keep
an account, log in at a terminal on the soda machine or elsewhere, scan what
they take, press a button for a soda, and feed coins and bills.  The programs
around that -- TypeScript on node (`src/bob2k14`), Python (`src/pybob`,
`src/crossbar`, `src/django`) and one Postgres database -- run concurrently and
share the money in `users.balance`.  `src/soda` holds the machine's older programs, in
Python, Perl and C++.

This directory models the parts that carry the co-op's own logic in TLA+, checks
them with TLC on small instances, and proves the central facts with TLAPS for
every instance.  File names below are relative to `src/`.

## Inventory

| component | state it keeps | operations |
|---|---|---|
| sodad (`bob2k14/soda_server/src/server.ts`): money | `users`, `transactions` in Postgres | `balance_transaction`, `balance_transfer` |
| sodad: sessions and vending | redis hashes `sodads:<client>`, `sodads_roles:<client>`, `sodad_vendstock`; `clientmap`, `clientchannels` in memory | `handle_login`, `handle_logout`, `handle_barcode`, `Soda.vdbauth`, `Soda.vdbvend`, `Soda.remotemdb` and the terminal's calls |
| mdb_server (`bob2k14/mdb_server`) | `solicit`, `solicit_cb`, `solicit_tm`, `last_buffer` | `reset`, `sendread`, the `data` handler, `Mdb.command` |
| vdb_server (`bob2k14/vdb_server`) | the same, and `current_vend` | the same, and the vending machine's requests R, K, L |
| terminal client (`soda_server/ui_src/client.ts`) | `time`, `timeout_timer`, the page | `startTimeout`, `extendTimeout`, `login`, `logout` |
| fp_server | `uid_list`, `fpdata_list`, the reader's mode | `enroll`, `identify`, stop |
| barcode_server, barcodei_server | the frame being read | byte and key handlers |
| private API (`pybob/private_api/bob_api.py`) | one psycopg2 connection; `users`, `transactions` | `make_deposit`, `buy_barcode` and queries |
| Django: user accounts (`django/chezbob/users`) | `users`, `transactions` | `new_transaction`, `delete_transaction`, the profile form |
| crossbar: inventory (`crossbar/bobserver/python/inventory`) | protected and staged items in memory, `inventory` in Postgres, one connection | `add_to_inventory`, `remove_from_inventory`, `flag_for_no_update`, `commit`, `reset` |
| crossbar: order acceptance | `order_items`, the order of each day in memory | `scan`, `modify`, `resolve`, `get_unresolved` |
| crossbar: transaction stream, cold brew | the number of cups sold, in memory | notices of new transactions, `get_keg_status` |
| Django: finance (`django/chezbob/finance`, `util/sync_db.py`) | `finance_transactions`, `finance_splits`, `finance_deposit_summary` | `edit_transaction`, the cron job `sync`, reports |
| Django: cash-out | `cashout_cashout`, `cashout_cashcounts` | `edit_cashout`, `gen_transaction`, `show_losses` |
| Django: orders, products | `orders`, `order_items`, `bulk_items`, `inventory` | `take_inventory`, the ajax requests of `order_summary`, `estimate_order`, the inventory report |
| credit card API, public API (`pybob`) | tokens; each process one connection of the private API | charge and deposit; login by barcode, purchase, statistics |
| transaction watcher, wall of shame | the written page, posts on Slack | a notice of each new transaction |
| legacy soda engine (`soda/src`) | the current user, the tags of queries; the screen's panel; the message bus | messages of every device, the time-out of the session |
| the rest (notification checker, Elektra, reports, firmware, scripts, web pages) | see `PROJECT.json` | |

How they interact.  The vending machine and the coin and bill acceptors talk
over serial lines to vdb_server and mdb_server, which call sodad by JSON-RPC
(`Soda.vdbauth`, `Soda.vdbvend`, `Soda.remotemdb`); sodad sends commands back
(`Mdb.command`).  Browsers hold a socket.io channel to sodad.  Sessions live in
redis, on one connection whose replies come in order; money lives in Postgres,
which sodad, the private API and Django write independently, each under the
isolation level its driver happens to use: sequelize 2.0.0-rc1 opens
transactions as REPEATABLE READ, psycopg2 and Django as READ COMMITTED.

What is hard.

* *Money.*  Every program reads and writes balances in several statements.  sodad
  writes back an absolute value; the API and Django write `balance = balance + x`;
  Django's `save()` writes all the other columns too.  Transactions fail, wait for
  each other's locks, deadlock, or die with the process.
  Right means: balances equal the transactions, a transfer takes only money
  that is there, nothing is half booked, every transaction ends.
* *Sessions.*  A handler runs from one `await` to the next, and the session it read
  may have been replaced, deleted or expired since.
  Right means: the flag that forbids logouts belongs to a running vend, the acceptors
  do what the last login or logout asked of them, nobody pays for what somebody else got, money is
  kept only for a user.
* *Serial lines.*  One command at a time, a timeout for each, events in between, and
  a busy line refuses.  Right means: every command ends once, with its own result,
  and no event is lost or doubled.
* *Shared connections.*  Services that hold one psycopg2 connection leave a transaction
  open after every read, date the next write by it, and end one another's work.
  Right means: what is booked is whole, and dated when it happened.
* *Tables rewritten row by row.*  Django commits each statement; its pages delete and
  insert, or save a row they read long ago, while scanners and cron jobs write too.
  Right means: what stands is what the last writer meant, and counts that were
  announced stand.
* *Figures worked out in many places.*  The stock is estimated by five programs, the
  day's sales by six reports, cash by four.  Right means: they agree.
* *Notices.*  Watchers hear of a commit later, in order, and read the tables as they then
  are; they restart.  Right means: they catch up.
* *Time-outs against devices* (the legacy engine, the vending machine): an answer meets
  a session that is over, or the next request.  Right means: who asked pays.

`PROJECT.json` lists each hazard at its line, with the properties that would catch
it going wrong.

## Modules

| module | models | stands for |
|---|---|---|
| `Ledger` | the serial books | what `admin/consistency_check.sql` demands |
| `Accounts` | the concurrent writers of the books | `server.ts` 229-390, `bob_api.py`, `users/views.py`, `users/forms.py` |
| `AccountsProofs` | theorems about `Accounts`; that it implements `Ledger` | |
| `SodaSession` | sodad's handling of the soda terminal | `server.ts` 414-479, 798-995, 1067-1086, 1223-1425 |
| `MdbServer` | the acceptors' serial line | `mdb_server/src/server.ts` |
| `VdbServer` | the vending machine's serial line | `vdb_server/src/server.ts` |
| `SodaSessionProofs`, `MdbServerProofs` | theorems about the first two | |
| `VendProofs` | theorems about the two that vend, `VdbServer` and `SodaMachine` | |
| `Finance` | the books, their editors, the cron job | `finance/views.py`, `finance/models.py`, `util/sync_db.py` |
| `CashOut` | extends it by the cash-outs and their reports; the composition | `cashout/views.py`, `cashout/models.py`, `sync_db.check_cash` |
| `FinanceProofs` | theorems about `Finance`, its cron job and the reports, in the composition with `CashOut` | |
| `Sums` | lemmas on sums and folds over finite sets, on sums over sequences and on filters, for the proofs | |
| `Stock` | the tables of the stock and the estimates made of them | `bobdb/models.py`, `bobdb/views.py`, `easy_inventory.py`, `create_order_estimate.py`, `loss_reports.py`, `util/inventory.py`, `get_inventory_steps` |
| `Inventory` | extends it by whoever takes inventory | `inventory.py`, `inventory_stage.py`, `take_inventory` |
| `Orders` | extends it by whoever writes orders; the composition | `accept_order.py`, `orders/views.py` |
| `StockProofs` | theorems about counts, announcements, scans, estimates, reports and proposals, in the composition | |
| `Bank` | the accounts as reports read them | `bob_api.py` 109-480, `wall_of_shame.py`, `shame_json.py`, `slack_commands.py`, `stats.py` |
| `BobApi` | extends it by the processes that share the private API | `bob_api.py`, `creditcard_api/app.py`, `purchasing.py`, `userauth.py` |
| `BobApiProofs` | theorems about the requests, the watchers and the dashboard, in the composition with `Watchers` | |
| `Watchers` | extends it by the programs that LISTEN; the composition | `transaction_watcher`, `listen_transactions.py`, `coldbrew.py` |
| `SodaBackend`, `SodaUI` | the legacy engine, its screen | `backend.py`, `sodauser.py`, `servio.py`, `pyui.py`; `pysodaui/app.py` |
| `SodaMachine` | both composed with the devices and customers | `bobdb-serv.pl`, `vmccsd.cpp`, `mdbbus.cpp`, `fpserv.cpp` |
| `MC...` | instances for TLC | |

### Ledger and Accounts

A *request* is one operation (`job`: its kind, the two accounts, the two amounts)
and runs one SQL statement per step; `pc[r]` names the next one.  Purchases and
deposits: `BalanceTransactionFind` (BEGIN and SELECT), `...Update`, `...Insert`,
`Commit`.  Transfers: `TransferFind`, `TransferDebit`, `TransferFindTarget`,
`TransferCredit`, two inserts.  The API: `MakeDeposit`, `BuyBarcode` and their two
statements.  Django: `NewTransaction...`, `Delete...`, `Profile...`.

The database is modelled by what it guarantees, in five operators the statements
share.  `view[r]` is the snapshot of a REPEATABLE READ transaction (all others read
the committed row at each statement); `lock[u]` is held from the first UPDATE to
the end; `Write` needs the lock free; a sodad transaction whose row was committed by
another since its snapshot (`stale`) fails (`SerializationFailure`); a cycle of
waits kills one member (`Deadlock`).  `SodadCrash` ends all of sodad's transactions
at once.  Amounts are cents, so the code's `parseFloat` arithmetic is exact; a user
who is not found and the formatting of descriptions are left out.

`Ledger` is the same state with every operation in one step, judged against the
books of that moment.  `Accounts` implements it (`ImplementsLedger`), the outcome
of a request being read off its `pc`.

### SodaSession

The events of one terminal: logins, logouts (button or coin return lever), product
scans, vends, coins and bills, each an element of `Events` that happens at most
once and is at program point `at[e]`.  `session` is the redis hash with the fields
the handlers test; the absent hash is `live = FALSE`.  One redis connection
executes commands in the order of issue and answers in that order, so a command
takes effect when it is issued and its event joins the queue `pending`; SQL
lookups come back in any order (`Goto` without `pending`).  `seen[e]` is the copy of
the session that e's closures hold.  `SetFlag` creates the hash when it is gone,
as HSET does.  `Expire` is the 600 s of `handle_login`, at any time.
`machine` is the vend the vending machine is busy with, and `late` the vends it gave up
before sodad answered (its timeout is 5 s); `kept`, `vended` and `booked` record what
the customer lost or got, for the properties.  `VdbvendLost` is the end of a vend of which sodad
does not hear, since vdb_server takes the line for a command's answer, skips it, or its call fails.

What sodad sends to mdb_server goes through the line: `calls` are the requests not yet there, which
arrive in any order, `MdbCommand` is `sendread`, which refuses while `busy`, and nobody looks
at the error; `MdbAnswered` ends a command by whatever line comes, or none; `MdbDevice` carries out
the commands written, in order, or rejects one.  A coin is dispensed (G) and a bill stacked (K1) or returned (K2) by such commands,
so each of them may be refused as well.
`accepting` says whether E2/E1 or D2/D1 were issued last, `enabled` what the acceptors do, and `missed` (history)
which of them did not get that, or not in order.  `plan` says which kinds of event
each one may be and which acceptors are followed: none where the question is about vends.

### MdbServer

`solicit`, `solicitCb` and `timers` are the code's fields; `call[c]` and `answer[c]` say
what each command's callback was called with.  `reset()` is `Script`, whose next
command is sent from inside the callback of the last (async 0.9.0 calls on
synchronously).  `Data(n)` is the `data` handler with n lines in the buffer.
The device is external: it answers commands in order, with a reply or an error, in its
own time, and reports events (coins, bills) whenever it likes.  A command is
identified with its text: each is sent once.  Bytes, ACKs and the port's own
failure (the process exits) are left out.

### VdbServer

The same line discipline (`waiting` is `solicit`, `solicit_cb` and the armed timer in
one), but a line that answers a command is not handled otherwise, so a vend result can
be lost.  `Handle` is the switch over R, K and L; `VdbauthReply` is the callback of
the RPC to sodad, in any order with everything else.  The machine is external:
it asks for one press at a time, gives up after its timeout (`GiveUp`), and
takes an A or D for the press whose turn it is, since neither names one -- the
late answer to one request can start the vend of the next.  Its reset is answered
with two lines, as `devel_scripts/emulation/p115s.py` does.  Requests that only
call for an acknowledgement are left out.

`SodaSession` and `VdbServer` see the vend from both ends.  `SodaSession` assumes that a
result follows a grant; `VdbServer!VendsAreGranted` checks that.
It also assumes (`MachineAsks`) that the machine makes no new request while a late answer is due, which nothing in
sodad sees to (`server.ts:1223`); the run of `VdbServer` covers that case at the line.
`SodaSession` has of mdb_server only that a line is busy, `MdbServer` the rest.

### Finance and CashOut

`head` and `rows` are a transaction or a cash-out and its splits or counts, in the order
of their ids.  Django runs in autocommit, so an editor (`edit[e].pc`) posts its form, saves
the header (`EditSave`), deletes all rows (`EditClear`) and inserts them one by one
(`EditRow`); a worker may die between any two (`EditDie`).  `SplitsGiven` and `CountsGiven`
are what the forms keep of the fields typed, `MayCommit` the checks.  The cron job is
`SyncStart` ... `SyncNegative`, a statement each, over the days of the bank's log; it may be
killed (`SyncDie`), and `LogGrows` adds rows under it.  `deposits` has the days with a summary.  `Unbooked` is what
the job books otherwise than the log has it: types it does not know, withdrawals.  `meant`, `mixed` and `disturbed` are
history: what the last writer of a row wanted, and whether another one overlapped.
The reports are operators on these tables: `LedgerPage`, `Dump`, `TransactionDump`,
`CashLedger`, `CashOnHand`, `Losses`, `CheckCash`.

### Stock, Inventory and Orders

`Stock` holds the tables and, as operators, what seven programs compute of them: `Summary`
(Django), `CurrentInventory` and `EasyInventory` (the public API's views), `Charted` (the
private API), `Report` (the value report, with costs in `Scale` parts of a coin),
`EstimateOrder` and `ToBuy` (proposed orders), `Loss`.
`Inventory` adds the service in either version (`shift.service`) and the page
`take_inventory`, which deletes and inserts a count in two statements (`PagePost`,
`PageInsert`).  A count bears a time or a date, as the column of the schema in use
(`shift.keepsTime`).  The service's connection is `server.since`, the now() of the
transaction left open, and `server.broken`, set by an error nobody rolls back.
`Orders` adds the acceptance service (`Scan`, `Resolve`, `Unresolved`) and the requests of
an order's page, which read a row (`Load`) and later save all of it (`Rewrite`,
`SaveLine`, `SaveForm`, ...).  `given` are the ids of lines handed out, which a deleted line does not give
back; `boxes` counts the scans answered.  `moved`, `lost` and `raced` are history: where two writers met.

### Bank, BobApi and Watchers

`Bank` has the accounts and rows as reports see them, dated.  `BobApi` runs requests of two
processes, each with one connection `conn[p]`: `began` is the now() of its open
transaction, `writes` what the next commit of any request keeps.  A request is at `req[r].pc`
and runs a query per step; only a process in `plan.threads` interleaves requests (how the
server runs the application, threads or not, is not in the repository).  `Drop` closes a connection,
`Restart` brings the process back, `Rename` is an administrator's.  Stripe is `Charge`: it takes the money, declines,
or ends the request in an error other than `CardError`, which is not caught -- with the card charged or not, as a time-out
does not tell ("unknown").
`Watchers` takes the ids in `notices`, in commit order: `Handle` is `handle_transaction` with
the wall it writes, the announcement and the posts it takes back; `KegHears`, `KegStatus`,
`KegRestart` (`__init__`, which counts) and `KegJoins` (`onJoin`, which subscribes, any time later) are
the cold brew service; `Elsewhere` is sodad's booking.
The reports keep the bounds of their queries: `DayRows`, `Aggregate` and `HourStats` leave out the row of exactly
midnight, `SalesStats`, by truncated days, does not.
`plan` says what may happen, and `past` and `seen` are history: `seen.disorder` and `untimely` are set when
cups and kegs, or an emptying and what the box holds, are not dated in the order of their commits
(`Behind`), as happens on a connection whose transaction was left open.

### SodaBackend, SodaUI and SodaMachine

`bus[a]` is what application `a` has yet to read: servio delivers each message to who
watches for it, in order.  `SodaBackend` has one action per message of the engine's bus thread
(`HandleLogin` ... `HandleFpLearnGood`) and, for its main thread, `TimedOut` (a tick that finds
the time up), `Goodbye` and `Restart`; `user` is `current_user` with SodaUser's fields,
`querytag` and `tags` its correlation of answers.  The destructor that pays out an
anonymous balance is `LoggedOut`.  It runs where the last reference to the object goes: in the
handler that ended the session, or in the main loop -- after a time-out, or when the loop just holds the object to count
down -- and then its messages wait in `farewell` and go out one by one (`Goodbye`) while the bus thread
handles what comes, a new login included.
The countdown itself, `resetTTL`, which every handler calls, and the message TTL-RESET (`backend.py:130`)
are not modelled: the time may be over at any moment, which includes every moment at which it can be, so safety needs no more,
and that a session ends in time is not claimed.  `SodaUI` takes messages and touches in order and shows one
of five panels (`ChangeState`).  `SodaMachine` adds the database server, the vending controller
(`Button`, `CancelVend`, `Dispense`), the money controller (`Insert`, `CashReads`), scanner and
finger reader.  The bus thread's handlers are single steps: CPython 2 switches between
bytecodes, and what crosses a switch is the check-then-use of `current_user`, which is
`Overtaken`, and the destructor, which is `Goodbye`.

## Runs

| run | instance | shows |
|---|---|---|
| accounts_books | 3 requests: any operation, a transfer or an administrator's deletion, a purchase; 2 users, amounts -1 and 1 | the books match, a shown purchase is not rolled back, `BooksInv`, the inductive invariant of the proof, holds, and `Accounts` implements `Ledger` |
| accounts_transfers | 2 transfers, one of them possibly an edit of an account, and an administrator's transfer | every request ends, circular waits included; the checks of a transfer hold when it commits |
| accounts_edit | a purchase and an edit | *violated*: see Findings |
| session_busy | 2 users; 3 plans: 4 events, 1 or 2 of them vends, whose results may be lost; a login and another or a logout, with both acceptors; 3 events, a logout, a coin or a bill among them, with the bill acceptor | the flag stays in step with vends and sessions; none refuses logouts for ever but after a vend that was given up or whose result was lost; whoever is logged in had the last commands sent, and an acceptor does what was sent last, or a busy line, the device or the order of the requests kept it from that |
| session_race | a login, a logout, a vend | *violated*: see Findings |
| mdb_line | a reset of 2 commands, 2 more commands, 2 events, chunks of 2 lines | callbacks once, no command's line given to another while it waits, no event lost or doubled, every command ends |
| vdb_vend | a reset of 2 commands, 1 more, 3 presses, 2 sodas, chunks of 2 lines | no soda without a grant; every result reaches sodad once and under its soda, unless a line was lost |
| finance_books | 5 transactions and 3 cash-outs, a fourth turning the page; 2 editors, or an editor and the cron job, or 3 runs of the cron job that may die | rows are what their last writer meant; a run of the cron job repairs what others tore, transfers and withdrawals in the log included; every report adds up |
| stock | 2 items, 2 orders, 4 days; 9 shifts of up to 3 calls, 2 pages, 3 scans, 2 requests and 2 sales | counts are sound, published counts stand, scans are kept, estimates and the value report agree, proposed orders cover what was sold |
| bank | 2 users; 8 plans of up to 3 requests with lost connections, threads, renames, bookings of sodad and restarts of the watchers | requests are booked whole (`RequestsWhole`), balances follow their rows (`Booked`), rows are dated, charges credited, reports agree, wall, keg and cash announcement are right once notices are handled |
| card_told | the same | *violated*: see Findings |
| soda | 3 customers, 2 cans, chips; 17 plans of touches, scans, bills, fingers, cancelled vends, a reset of the controller, a death of the engine | cans are paid by who asked, cash is kept, the screen shows who is served |

Bounds.  Requests, events and commands happen once each, and there are two to four
of them; everything else is finite by that.  Two requests are enough for every
pairwise interleaving of statements, which is where a lost update, an overdraft or a
half transfer would come from; a third is needed for a circle of waits and for an
administrator who interferes with an operation and its correction.  Amounts -1 and
1 over small balances distinguish paid, unpaid and overdrawn; the balances of
accounts_books begin at 0, and its users are interchangeable (`SYMMETRY`, sound for a
safety refinement that names no user).  Four
events cover a login, the next one, a vend and one more event against it; a second
vend shows what the first leaves behind.  A login sends two commands and so meets its own on the line; a third event
keeps the line busy between a login's and a logout's.  Deadlock is not checked because
every run ends when its requests or events are used up.

Three presses are the one given up, the one its late grant starts, and the one
after; two sodas tell right from wrong.  Symmetry elsewhere is used for the sodas, the
editors, the pages and the desks only, in runs without temporal properties.

In the session and the larger compositions a `plan` or a `shift`, chosen in `Init`, says which actors come;
each pairs the actors that touch the same rows, and its fields are their bounds:
`MaxLog` rows of the log, `calls`, `scans` and `ticks`, `drops`, `renames`, `asks`,
`stops` and `deaths`.  Two users, two items and two days are enough to tell whose, which and
when; pages of three lines make a ledger turn its page.

Fairness.  `Accounts!FairSpec`: a transaction that has begun goes on, because the
event loop calls back and Postgres answers, fails or breaks the deadlock.
`SodaSession!FairSpec`: callbacks run; the machine finishes a vend it began.  Arrivals, `GiveUp`, `Expire` and the serial lines are not fair, and the end of a vend may or may not
reach sodad.  `MdbServer!FairSpec`: only the
timers fire; the device may be silent for ever.  The other modules have no
liveness: their requests may be killed, and nothing retries them.

## Findings

* `accounts_edit`: the profile form (`users/views.py:270`) saves the balance it read when
  the request began.
* `session_race`: `handle_logout` tests the vending flag, awaits and deletes; a vend
  authorised in between loses its session and is not recorded.
* `card_told`: `creditcard_api/app.py:110` names the exception as an attribute of the wrong
  object, so whatever `make_deposit` raises after the card was charged ends in a bare
  server error, and neither "but card charged" message is ever sent.

Seen while modelling and left without a run of their own.

sodad and the serial lines: `handle_login` sends E2 and E1 together (`server.ts:853`) and looks at neither's error, and the
line refuses one while the other waits (`mdb_server/src/server.ts:159`), so somebody is logged in and an acceptor
takes no money, where `server.ts:841` says it is enabled -- a logout may leave one enabled in the same
way, and `AcceptorsFollow` has both in `missed`; two concurrent deletions of one entry both correct the balance
(`users/views.py:135-168`; excluded by `SafeOperations`); `balance_transaction` reads the uid again
(`server.ts:334`), so a vend is charged to whoever is logged in when the price lookup
returns; a grant that comes after the machine gave up leaves the vending flag set, and
logouts are refused although no vend is in progress (`server.ts:1262`); after a timeout
the late reply is the result of the next command (`mdb_server/src/server.ts:232`); HSET on an
expired session creates one without a user, for whom coins are then kept
(`server.ts:948`); of several lines in a chunk only the last is processed although the
comment says each byte is (`mdb_server/src/server.ts:206`); a reset that failed is
logged as successful (line 147, an inverted test).

Books and cash: a day on which nobody has a positive, or nobody a negative, balance makes a
sum NULL and aborts the cron job before its summary (`sync_db.py:146`, 154); a withdrawal is
booked with the sign of a deposit and a reimbursement not at all (179-202); the ledger
of a reversed account negates a balance that `balance_before` has already negated
(`finance/views.py:171`), so pages after the first start wrong; `show_losses` cannot sort a
source that is None (`cashout/views.py:407`); the ledger of cash-outs adds to NULL when
no earlier cash-out has counts.

Stock: `set_inventory` ends in a call Django no longer has (`bobdb/models.py:287`), so a
page saves its first modified item and fails; a quote too many in
`remove_from_inventory` (`inventory.py:145`), and the resolution of a line nobody scanned
(`accept_order.py:124`), leave the service's connection useless until a restart;
unprotecting an item announces a count of 0 (`inventory.py:225`); a page that saves a line
writes back the `n_scanned` it read.

Bank: a connection to Stripe that breaks or times out after the card was charged is no `CardError`, so the request ends
with nothing deposited and nothing said (`creditcard_api/app.py:102`); `ChargedIsCredited` names this loss.  A row of
exactly midnight is in no figure of today's hours nor of usual ones (`bob_api.py:326`, 338), and on its first day
not in the list of the last days (351) but in the sales by item.  A cup sold between the count that the cold brew service takes
when it is made and its subscription (`coldbrew.py:50`, 142) is not counted until someone asks.
A keg, or an emptied cash box, that is booked through the public API on a connection left open
is dated by that transaction's beginning (`bob_api.py:35`).  The cups sold meanwhile are then counted for the
new keg by the tables and not by the service that heard of them before it, until someone asks;
the announcement sums another interval than the API gave.  `KegAgrees` and `CashAnnounced` make these
exceptions, which the attempt to prove them without brought up.  The watcher writes the wall by the balance it finds, and by `<` where the wall uses
`<=` (`transaction_watcher:53`), so two deposits in a row may leave a user on it; rows
committed between its start and its LISTEN are not noticed; the keg's warning is sent
only at exactly `WARN_LEVEL`, which a reread of the count may jump over.

The legacy engine: the main loop clears `current_user` (`backend.py:392`) and the destructor sends UI-LOGGEDOUT
after that, so a session that the bus thread begins in between has its greeting overwritten, and the screen is
idle with somebody served and charged, though "Destructor takes care of coin return and UI update" (line 357);
`querytag` is overwritten by a deposit or a purchase (`sodauser.py:140`, 219), so
the answer to a can asked for before is dropped and the machine waits until it gives
up, though `soda/doc/PROTO_VEND.txt:69` says it must be answered; a vend that fails when nobody
is logged in ends the bus thread (`backend.py:160`).  Answers may be stale: the engine logs in whoever a
card's answer or a typed password names, with the balance that was asked for, though another session
has come and gone in between (`app.py`, `doPassword`), and a controller that is reset while its request
is pending takes that request's approval, when it comes, for the next one.  `ScreenAgrees` and `CansPaid`
leave these out by name (`mixed`, `gaveup`); the attempt to prove them brought them up.

## Proofs

| theorem | states, for every value of the constants | of |
|---|---|---|
| `AccountsProofs!TypeCorrect` | the variables keep their shapes | `Accounts` |
| `BooksBalance`, `BooksAreInvariant` | `BalanceMatchesLedger`, `BooksInv`, under `SafeOperations` | |
| `AccountsImplementLedger` | `ImplementsLedger`, under `SafeOperations` | |
| `TransfersAreCovered`, `TransfersReachActive` | `NoOverdraftByTransfer`, `NoTransferToDisabled` | |
| `ShownStands` | `ShownIsNotRolledBack` | |
| `SodaSessionProofs!SessionTypeCorrect`, `FlagsMeanVends`, `VendsKeepFlag`, `AcceptorsDoFollow` | `TypeOK`, `FlagMeansVend`, `VendKeepsFlag`, `AcceptorsFollow` | `SodaSession` |
| `MdbServerProofs!LineTypeCorrect`, `CallbacksRunOnce`, `WrongAnswersLate`, `EventsReachSodadOnce` | `TypeOK`, `CallbackOnce`, `WrongAnswersAreLate`, `EventsReachSodad` | `MdbServer` |
| `VendProofs!VendTypeCorrect`, `VendsGranted`, `ResultsReachSodadOnce`, `ReportsNameDispensed` | `TypeOK`, `VendsAreGranted`, `ResultsReachSodad`, `ReportNamesDispensed` | `VdbServer` |
| `VendProofs!CansCharged`, `CashBalances` | `CansPaid`, `CashKept` | `SodaMachine` |
| `StockProofs!CountsAreSound`, `WhatIsPublishedStands`, `ScansAreKept` | `CountsSound`, `PublishedStands`, `ScansKept` | `Orders` |
| `TheEstimatesAgree`, `ReportsAreSound`, `ProposalsSuffice` | `EstimatesAgree`, `ReportSound`, `OrdersCover` | |
| `FinanceProofs!TypeCorrect`, `BooksAsMeant` | `TypeOK`, `RowsAsMeant` | `CashOut` |
| `SyncKeepsBooks`, `BooksReport`, `CashOutsReport` | `SyncedBooks`, `ReportsAgree`, `CashReports` | |
| `BobApiProofs!RequestsAreWhole`, `ChargesAreCredited`, `LateAfterLooks`, `BalancesFollowRows` | `RequestsWhole`, `ChargedIsCredited`, `LateOnlyAfterLooks`, `Booked` | `Watchers` |
| `WallShowsDebtors`, `KegCountsCups`, `CashIsWhatWasDue`, `DashboardsDoAgree` | `WallCatchesUp`, `KegAgrees`, `CashAnnounced`, `DashboardsAgree` | |

Where a row has no specification it is that of the rows above it.

Assumptions.  `SafeOperations`: nobody saves a profile form and at most one request deletes.
Without the first the books do not balance, as `accounts_edit` shows; without the second
neither (see Findings).  `ScriptAssumption` (in `MdbServer`): the commands of the reset are
distinct, as `reset()` has them.  `ApiConstants`, `WatchersConstants`: a deposit's
credit is not negative (the page of the credit card API offers $1 to $500), prices are not
negative, the ids of rows are used once (those of requests are told from those of others), requests
and rows are finitely many, at the start no row is dated later than `Start`, and balances agree with rows but for `Opening`, which is any
function, so this names a quantity rather than restricting the tables.  `BankConstants`: debts and
spans of days are integers, the list of the last days is shorter than the month's report, and no barcode is both a cup's and a keg's.  `StockConstants`,
`InventoryConstants`, `OrdersConstants`: the bulk items are finitely many, cases hold at least one unit,
what is typed into the forms has the types of their fields, the counts
of before the start add up, one of an item on a day, the lines and sales there are at first are finitely many, and
nothing was counted or sold that is yet to come.  `FinanceConstants`, `FinanceTables`: the customers and the transactions
that are there at first are finitely many, the tables, the rows of the log and the forms have the types of their columns (`Texts` is whatever text
columns hold), and those transactions balance.  `NoCodeAssumption`: no product has the
empty barcode, which is what the legacy engine asks for when a button's variable is missing.
`PlansAssumption` in `SodaSession` is a type.  `PricesAssumption`, `NamesAssumption`, `PlansAssumption` in `SodaMachine` (for the cash of the legacy machine): prices are whole cents;
nobody's account is called "anonymous" and every person's barcode names a user; what is put into the machine is worth
a multiple of five cents, as the change is, which is why `sodauser.py:223` rounds an anonymous price up.  The users,
requests, commands, events, presses, sodas, items, orders, pages, scanners and editors, the length of a chunk of lines
or of a day, the runs of the cron job, and what else stands in the tables at first are arbitrary.

**The books.**  `TypeOK` is not inductive on its own: a request
past its arrival must have a job of the kind its statement assumes, which
`TypeInv` adds.  The invariant behind `BooksBalance` is `BooksInv`:

* `Quiet`: a request outside a transaction has nothing uncommitted;
* `LocksAreUpdates`: it holds the locks of exactly the rows it updated;
* `PendingIsDelta`: a locked row is the committed one plus the holder's own updates --
  this is what a READ COMMITTED increment and a REPEATABLE READ write-back both
  establish, each for its own reason;
* `SnapshotIsCurrent`: what sodad read is still committed unless the row is marked
  stale, the reason for the second;
* `Progress`: at each statement an operation has updated and logged exactly the sides
  before it, so that at COMMIT both agree;
* `DoomedStand`: the rows a deletion is about to delete are still there;
* the goal.

The proof goes statement by statement (`StatementBooks`) over two lemmas about
rows: `UpdateRows` for an UPDATE, `MovesForward` for the rest; then arrivals, ends and
`CommitBooks`.

**Transfers.**  `TransferInv` needs none of that and no assumption: what a transfer read
stays current until it debits (`TransferSnapshot`), the sender's row is locked from the
debit on with enough on it (`TransferChecked`), and what it locked
has the flags that are committed (`FlagsKept`).  `ShownInv` says that a request the
client was shown is past everything that can fail.

**The refinement.**  Every statement but a COMMIT and an immediate refusal is a stutter of
`Ledger`; a COMMIT is the operation in one step.  That the operation's guard holds at
that moment is what `BooksInv` and `TransferInv` say together, with `DoomedKept`: a deletion's
rows were not deleted by another meanwhile.

**Sessions.**  `FlagMeansVend` is not inductive: clearing the flag for a vend whose result
comes late could uncover another's.  `SessionInv` excludes it: the machine is busy with one
vend (`OneVend`), and while a vend's result is due from redis any other vend has only just
asked, behind it in the queue (`VendsInOrder`), so none has marked the session since.
For `AcceptorsFollow`: an acceptor that `missed` does not name has no revoked command among the requests on their way, and behind
every one among those written there comes the wanted one, or will (`Obeys`); the line carries out what is written in order.

**The serial lines.**  `LineInv` says that the server, its timer and its callback agree on one command,
that the reset goes down its script, and that the device answers what was sent.
`EventInv` and `ResultInv` follow one event or vend along the line: its line is in
transit, with sodad, or known to be skipped, and never two of these.  `VendsAreGranted` counts: the vends begun are
no more than the presses granted whose A is not still on the way (`GrantInv`; the machine does
not say which press it takes an A for).  `ReportNamesDispensed` needs the order: the turn, and every result
on the line, comes after the request that named its soda (`Follows`).

**The cans of the legacy machine.**  What becomes of a can is spread over three queues, the engine's session and the
controller, and the engine may die, restart, time out or change its customer between any two of them.  The
invariant, `CansInv`, has two layers.  `Always` holds whatever happens: the requests on their way are those of the
last cans, in the order of their numbers, and no result overtakes a later request (`InTurn`); a session that waits
for a can has asked for the last one before these, and a tag on the bus is never newer than the
engine's count (`TagsRight`), so an answer to another question is never taken for the can's.  `Phases` holds as long as
no request was given up: for the last can there is one thing at most -- its request, the query or answer in its
session's name (`LivePhase`), the verdict, the can in the machine, or its end -- and from the verdict on its session
waits for it with its item, or was cut short (`Owed`).  Giving up breaks just this, and `CansPaid` then says
only that nobody else pays.  Most steps concern no can: `Calm` and `Mild` say
what such a step may do to the queues and the session, and `CalmKeeps` and `MildKeeps` prove it once; the actions
on a can (`ButtonKeeps`, `VendRequestKeeps`, `CanInfoKeeps`, `VmcReadsKeeps`, `DispenseKeeps`, `VendSuccessKeeps` and their failures) go through
the phases one by one.

**The cash of the legacy machine.**  What was inserted is in the money controller, in the engine's balance of somebody
anonymous, or in a message, and every handler moves some of it.  `Worth` says what a message
is worth: a deposit, the change to be given, what the database still has to pay into a person's account or
take for an anonymous purchase.  `Total` sums that over a queue (`TotalPut`, `TotalCat`, `TotalTail`, and `SentDue` and
`PoppedRight` for what sending and reading do to it), and `Due` over the three queues where a message is worth something.
The invariant, `CashInv`, says that unless the engine died

    inserted + owed - returned - credited - bought = escrow + anonymous balance + Due

(`Even`), that every message is where it is read and no login names "anonymous" (`Sound`), and, for the second half of
`CashKept`, that an anonymous balance is a multiple of five cents that covers the approved item, rounded up, until somebody buys by barcode
beside it (`Covers`): a balance then never goes below zero, and nothing is owed.  That cash comes in multiples of five cents
is needed just there: what covers a price need not cover it rounded up (`Rounding`).
`Clears` says what a handler of the engine has to see to, `Calls` what a device has to, and `RepliesKeep` and
`CallsKeep` draw the conclusion once; then there is one lemma per handler.

**The shared connections.**  Each request is at a point of its course that says what it should have
written so far (`Due`); `Whole` says that this is what is on the connection or committed, and
that alone on its process it is on the connection.  It rests on `OneAtATime` and on `Gone`, `ByOwn`: a
connection that is lost holds nothing, and no process writes for another's request.  `ChargeInv` follows a
deposit's card along the same course.  For the dates, `BeganInRequest`: the transaction that a serial process
has open began after its running request came, unless a look or a refused
request left it open.  All steps of requests fall into four classes (`Quiet`, `Writing`, `Commits`, `Rolls`), all
others into four more (`Steps`), and the invariants are proved class by class.

What a balance has on top of its rows needs more (`BookInv`): every write that waits on a connection is what its
request's job and the price it saw (`past.worth`) say, each once, and of a half not yet committed
(`OnConns`, `Priced`); what is committed is due (`KeptDue`); a row of a request is there only if the request has
it among its committed halves, and no row has an id that sodad has still to give (`RowsSound`).  Then every user's balance plus
the worth of requests with a committed row is the opening balance plus the rows plus the worth of requests
with a committed change of the balance (`Balanced`).  A step writes nothing, puts one write on a connection,
commits what is on one, or is a row of sodad (`Still`, `Posts`, `Books`, `BySodad`).  In a commit the users'
new rows, and the requests that get a half committed, are the images of the same writes, so
`SumOfImage` gives both sums the same value; requests with both halves are on both sides and cancel,
which leaves `Booked`.

**The watchers.**  `LogInv` says that ids name rows, that rows are dated by the time there is, and that notices are of
rows, each once.  The wall is not what the watcher last wrote but also what it has still to hear: `WallInv` says of
everybody not missed that he is shown, or that a notice of his is on the way (`Coming`).  Handling that notice writes the page
by the balance as it is by then; if it does not, his debt does not ask for it.  Likewise `KegInv` says at
every moment that the count in memory plus the cups still under way is that of the tables (`Agrees`),
and for every keg still to come what it will be after that (`Anew`), since a keg's notice begins a new count.
`CashInv` fixes at each emptying what was due: the rows between it and the one before it, which no later row can join
because a row's date is not before the rows there are (`Later`, `DueIs`), so a late announcement sums the same rows.

**The dashboard.**  The reports are different sums over the same rows: of a day, of its hours, by item, by sign.
`DashboardsAgree` follows from `RowsSound` and `LogInv` alone (the types, and that nothing is dated in the future), over
lemmas of `Sums`: a sum over a set is the sum over its parts (`SumOfParts`), of its negations the negation, and rows of
value zero do not matter (`SumOfZero`).

**The stock.**  `CountsInv` adds to `CountsSound` that between the DELETE and the INSERT of a page nobody
else has counted the item, unless the overlap is in `raced` (`HolesKept`), and says of every two counts
of a day what `CountsSound` says of each (`OnePerDay`).  `PublishedStands` is inductive with the types alone.
`ScansKept` is not: the service keeps the order of a day in memory, so it needs that this is still an
order of the day or was moved (`CacheKept`), and a line that is deleted, or the second of two, could
uncover scans that no line has: `Matches` says of every order and item that without a line there is no scan.
Three facts about the tables came out of the attempts and are now said in the model: the ids of
deleted lines are not handed out again (`given`); what a request found is saved under the id of a line
of the same order and item, if the line is there (`DeskType`); a
page, an addition and any other call of the service are different writers (`PagesAssumption`).

**The reports of the stock.**  Nothing of them is kept from step to step, so the state invariants they need are few:
the tables stay finite (`TablesFinite`), and no count or sale is dated in the future (`DatesKept`; a service's
count is dated by its open transaction or by today, a page's by its day).  The rest is about the reports
themselves.  A report takes the days one after the other and the lines and counts of a day in whatever order
`FoldSet` chooses; `FoldOnExists` and `StepwiseExists` show that the recursive functions of its definition exist,
`SubsetsFromEmpty` and `StepwiseFrom` carry what holds of the first through to the last.
`ReportSound` so becomes `Valued`, which every delivery, sale, price and count keeps
(`ReceiveKeeps`, `SellKeeps`, `RepriceKeeps`, `RecountKeeps`).  The attempt showed that the model was
too coarse: with the cost of a unit rounded before it is multiplied, sales leave more of the cost than the code's 28 digits
do; `Part` now divides last.
For `EstimatesAgree` the estimate of a day is brought to one form: what the last count up to it found, and
what came and went on later days (`EstimateFrom`).  The next day's is then this day's and the day's own lines and sales, or what is
counted on it (`EstimateNext`, `EstimateCounted`), which is how the report goes on too (`DayIs`, `ReportCounts`).
The programs that ask to the instant see the same lines and sales, since on the day of a count of theirs
nothing else happens (`MidnightOrder`, `SinceLast`), and what is missing at a count is the estimate before it less what was found (`LossIs`,
`ReportLosses`).  `OrdersCover` needs the types alone: rounding up to cases covers what it rounds
(`CeilingCovers`), for quarters and fifths of a case too.

**The books of finance.**  `RowsAsMeant` speaks of rows nobody is writing; the invariant says what is on the way.
For an id whose writers did not overlap (`mixed`), at most one process writes it (`Lone`), and
what it has inserted so far, followed by what it has still to insert, is what was
meant (`Underway`).  That a transaction balances is decided before its header is saved: `MayCommit` for a
form (`EditsSound`), the table `AutoSplits` for the cron job (`NeededBalances`, for any amount), so
`MeantBalance` says it of every id ever used.  `JobSound` is what the cron job's place in `update_day`
implies: a type still to do, and in the middle of an insertion a header that nobody else deletes.
`TypeOK` needs that sums of integers are integers, for any number of rows or customers.  The model defines a
sum by a recursive function, so its value is only what the equation says, once there is
a function that satisfies it.  `Sums` shows that there is one, and what it yields, without
induction over sets: a non-empty set of counterexamples among the subsets of a finite set has
a minimal member (`MinimalFinite`), and taking one element out of that contradicts it.

**The cron job.**  `SyncedBooks` speaks of the end of a run; the invariant, `CronRight`, of every statement of it.  Days before the one in
work are right (`PastRight`).  On that day what the types' sums book is what the log gained, but for
`Unbooked` (`SumsRight`); the automatic transactions there are the old ones not yet compared, the one in
hand, and those entered, one of each type done with whose sum is not zero (`DayRight`); a transaction half inserted is, with the rows to
come, the whole one (`StageRight`).  A type is finished by a match, which leaves its old one standing, or by deleting
the old ones and inserting anew, so a day that an earlier run left torn or doubled ends with one each
(`DayClosed`), and their rows on "deposits" sum to what the types' sums do.  The summary's two parts are sums over users with positive
and negative balances, whose difference is the sum over all users, hence over the log (`SumOfUnion`, `UsersHaveAll`).

**The reports.**  `ReportsAgree` and `CashReports` are about what a request computes from tables that may be torn
and stale: they need no more of them than that they are finite and of their types (`TablesRight`).
The dates and ids order the tables (`BeforeOrders`), `InOrder` lists a set in that order (`InOrderIs`), and a page is a
window of the list, so what comes before it is what the program sums to begin with (`WindowSum`); that the
running balance in a page is then the sum up to its line is a sum over two disjoint sets.  The
dump, the XML dump and the losses are folds over the list, each with an invariant that speaks of the part done
(`Dumped`, `Whole`, `Settled`): the lines are those of the days before, the transactions so far have all their
splits, and the balance is that of all that came before the last cash-out, whose windows adjoin (`DepositedAdds`, `CashSplitsAdd`).  A fold is
again only an equation; `FoldByExists` and `FoldByIn` in `Sums` say that it has a solution, for any choice of the
element folded next, and `Lastly` is the choice the library makes for a sequence.  The XML dump joins a
transaction with its splits, which `FlattenedIs` and `FetchBlock` take apart again, block by block.
For the proof `Proposals` says which cash-outs it means: those of the entities the table holds, which the
foreign key of a count makes all of them.

Model-checked only:

* liveness (`EveryRequestEnds`, `FlagClears`, `EveryCommandEnds`): fairness and ENABLED are
  out of this prover's reach;
* what the legacy engine's screen shows (`ScreenAgrees`): the screen agrees once all is delivered because the messages
  that wait for it and for the engine bring it there, so the invariant has to run the screen ahead over the queue, and
  the engine over what the screen has said meanwhile.  That invariant is not written.

The type invariants are theorems for the modules with proofs; those of the other modules are stated in
them and were checked while they were written.  The runs spend their properties on what can go wrong.

## Plan

Done in this order, the most important first: the books of the bank and their proofs, the
session, the serial lines, finance and cash, the stock, the private API and its listeners,
the legacy engine.  Next:

1. The last theorem: `SodaMachine!ScreenAgrees` (strengthening: the messages on
   the bus bring the screen to the engine's session).
2. `SodaSession`, `MdbServer` and `VdbServer` composed, where `SodaSession` now abstracts the lines (`MdbCommand`,
   `VdbvendLost`) and assumes `MachineAsks`; vend stock, and the charge that fails in `Accounts`.
3. The countdown of `client.ts` against `handle_logout`, and what the screen shows.

## Not modelled

* The notification checker, Slack's chat, Elektra and the log watcher turn a query or a
  line into a message and keep no state that others read.
* The browser's pages, the terminal client and the PHP parts: presentation around calls
  that are modelled where they arrive.
* fp_server and the barcode servers: callbacks and framing around C libraries and devices;
  what they yield -- a login, a scan -- is an input of `SodaSession`.
* Of the legacy engine: the other terminals' menus, the learning of new barcodes, the
  time shown, notices, and the C++ drivers below the messages.
* The firmware is interrupt-driven C behind the protocol the servers see.
* One-shot scripts, ansible roles and the schema (which is used as the statement of what
  the tables hold).
* Of what is modelled: estimates of orders for a day that is not today (`Orders` has today's only); what follows in
  the cron job after a type it does not know, where `sync_db.py:202` raises and `SyncRead` goes on to the next; the
  two spellings of the filter for cash in `get_deposited_cash`, which `CashOf` takes for one flag of the row.
* Passwords, roles and speech are data none of the properties distinguishes; so are the
  descriptions of transactions, except where a report selects by them.
