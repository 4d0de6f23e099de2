----------------------------- MODULE MCWatchers -----------------------------
(* Two users, a snack and a coldbrew, and what is scanned to empty the cash  *)
(* box and to tap a keg.  Amounts are in cents; the wall begins at a dollar. *)
EXTENDS Watchers, TLC

CONSTANTS a, b, c

Deposit(u, charged) == [kind |-> "deposit", proc |-> "card", user |-> u, code |-> NoCode, credit |-> 200, charged |-> charged]
Buy(u, code) == [kind |-> "buy", proc |-> "web", user |-> u, code |-> code]
On(proc, kind) == [kind |-> kind, proc |-> proc, user |-> "ann", code |-> NoCode]
Asked(x, y, z) == a :> x @@ b :> y @@ c :> z
MCPlan(jobs, threads, ticks, drops, renames, others, asks, stops) ==
  [jobs |-> jobs, threads |-> threads, ticks |-> ticks, drops |-> drops, renames |-> renames,
   others |-> others, asks |-> asks, stops |-> stops]
Nobody == Asked(NoJob, NoJob, NoJob)
Serve(jobs, threads, ticks, drops, renames) == MCPlan(jobs, threads, ticks, drops, renames, 0, 0, 0)

MCPlans ==
  { Serve(Asked(Deposit("ann", 237), Deposit("bea", 236), On("card", "look")), {}, 1, 1, 0),
    Serve(Asked(Deposit("ann", 237), Buy("ann", "snack"), Deposit("bea", 200)), {}, 0, 1, 1),
    Serve(Asked(Buy("ann", "0snack"), Buy("bea", "gone"), On("web", "stats")), {"web"}, 0, 0, 0),
    Serve(Asked(Buy("bea", "snack"), Buy("ann", "0gone"), On("web", "stats")), {}, 1, 1, 0),
    Serve(Asked(Buy("ann", "snack"), On("web", "login"), On("web", "renew")), {}, 2, 0, 0),
    MCPlan(Asked(Buy("ann", "cup"), On("web", "look"), NoJob), {}, 0, 0, 0, 2, 1, 0),
    MCPlan(Asked(On("web", "look"), Buy("bea", "keg"), Buy("bea", "empty")), {}, 0, 0, 0, 1, 0, 0),
    MCPlan(Nobody, {}, 0, 0, 0, 3, 1, 1) }
MCMenu ==
  { [user |-> "ann", code |-> "cup", value |-> -100, cash |-> FALSE],
    [user |-> "bea", code |-> "keg", value |-> 0, cash |-> FALSE],
    [user |-> "bea", code |-> "empty", value |-> 0, cash |-> FALSE],
    [user |-> "ann", code |-> NoCode, value |-> 100, cash |-> TRUE] }
Codes4 == {"snack", "gone", "cup", "keg", "empty"}
MCBulkOf == [x \in Codes4 |-> IF x = "cup" THEN 2 ELSE 1]
MCShorterOf == [x \in Codes4 \cup {"0snack", "0gone"} |-> IF x = "0snack" THEN "snack" ELSE IF x = "0gone" THEN "gone" ELSE NoCode]
MCDays == [week |-> 2, recent |-> 1, month |-> 2, year |-> 3, shame |-> 1, quiet |-> 2]
MCOpening == [u \in Users |-> IF u = "ann" THEN -100 ELSE 0]
MCXacts0 ==
  { [id |-> 91, at |-> 1, user |-> "ann", value |-> -100, code |-> "cup", cash |-> FALSE],
    [id |-> 92, at |-> 3, user |-> "bea", value |-> 0, code |-> "empty", cash |-> FALSE],
    [id |-> 93, at |-> 5, user |-> "bea", value |-> 100, code |-> NoCode, cash |-> TRUE],
    [id |-> 94, at |-> 7, user |-> "bea", value |-> 0, code |-> "keg", cash |-> FALSE] }
MCPeople0 ==
  [u \in Users |-> IF u = "ann" THEN [balance |-> -200, entered |-> 1, bought |-> 1, disabled |-> FALSE]
                   ELSE [balance |-> 100, entered |-> Never, bought |-> Never, disabled |-> FALSE]]
MCTokens0 == [u \in Users |-> IF u = "ann" THEN 8 ELSE 10]
MCWallDebt == -100
MCBigDebt == -300
=============================================================================
