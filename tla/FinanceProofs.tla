--------------------------- MODULE FinanceProofs ---------------------------
(* The books: their tables keep their shapes, and every transaction and      *)
(* cash-out that nobody writes has the rows its last writer meant, unless    *)
(* two writers overlapped or one of them died; for any number of editors,    *)
(* whatever they type and however the cron job and the sales come between.   *)
(* And a run of the cron job that nothing disturbed leaves the books of      *)
(* every day of the log as the log has them, for any log, whatever           *)
(* transactions earlier runs left torn or stale.                             *)
(* And the reports of the books and of the cash-outs tell one story, from    *)
(* tables in any state these programs leave them in.                         *)
EXTENDS CashOut, Sums, TLAPS

(* What Fresh, Kept, Total and SumOver compute.                              *)

LEMMA KeptType ==
  ASSUME NEW S, NEW s \in Seq(S), NEW T
  PROVE  Kept(s, T) \in Seq(S)
<1>1. Len(s) \in Nat /\ \A k \in 1 .. Len(s) : s[k] \in S
  OBVIOUS
<1> DEFINE f == CHOOSE f : IsKeptTo(f, s, T, Len(s))
<1>2. IsKeptTo(f, s, T, Len(s))
  BY <1>1, KeptToExists
<1>3. Kept(s, T) = f[Len(s)]
  BY DEF Kept, IsKeptTo
<1> HIDE DEF f
<1> QED
  BY <1>1, <1>2, <1>3, KeptToType

(* Total is the sum of the amounts.                                          *)
LEMMA TotalIsSum ==
  ASSUME NEW s, Len(s) \in Nat
  PROVE  \E f : IsSumTo(f, [k \in 1 .. Len(s) |-> s[k].amount], Len(s)) /\ Total(s) = f[Len(s)]
<1> DEFINE g == [k \in 1 .. Len(s) |-> s[k].amount]
<1>1. \A k \in 0 .. Len(s) : k # 0 => g[k] = s[k].amount
  OBVIOUS
<1> HIDE DEF g
<1>2. \A f : IsSumTo(f, g, Len(s))
               <=> f = [k \in 0 .. Len(s) |-> IF k = 0 THEN 0 ELSE f[k - 1] + s[k].amount]
  BY <1>1 DEF IsSumTo
<1>3. \E f : IsSumTo(f, g, Len(s))
  BY SumToExists
<1> QED
  BY <1>2, <1>3 DEF Total, g

LEMMA TotalType ==
  ASSUME NEW s \in Seq(Line)
  PROVE  Total(s) \in Int
<1>1. Len(s) \in Nat /\ \A k \in 1 .. Len(s) : s[k].amount \in Int
  <2>1. Len(s) \in Nat /\ \A k \in 1 .. Len(s) : s[k] \in Line
    OBVIOUS
  <2> QED
    BY <2>1 DEF Line
<1> DEFINE g == [k \in 1 .. Len(s) |-> s[k].amount]
<1>2. PICK f : IsSumTo(f, g, Len(s)) /\ Total(s) = f[Len(s)]
  BY <1>1, TotalIsSum
<1>3. \A k \in 1 .. Len(s) : g[k] \in Int
  BY <1>1
<1> HIDE DEF g
<1> QED
  BY <1>1, <1>2, <1>3, SumToInt

(* The sums over rows of the log, and over the customers, are integers.      *)
LEMMA LogSumType ==
  ASSUME log \in Seq(LogRow), NEW I \in SUBSET (DOMAIN log)
  PROVE  LogSum(I) \in Int
<1> DEFINE g == [i \in I |-> log[i].amount]
           Eq(F) == F = [T \in SUBSET I |-> IF T = {} THEN 0
                                            ELSE LET x == CHOOSE x \in T : TRUE
                                                 IN  log[x].amount + F[T \ {x}]]
           F == CHOOSE F : Eq(F)
<1>1. IsFiniteSet(I)
  <2>1. Len(log) \in Nat /\ DOMAIN log = 1 .. Len(log)
    OBVIOUS
  <2>2. IsFiniteSet(1 .. Len(log))
    BY <2>1, FS_Interval, 1 \in Int, Len(log) \in Int, Zenon
  <2> QED
    BY <2>1, <2>2, FS_Subset
<1>2. \A i \in I : g[i] = log[i].amount /\ g[i] \in Int
  <2> TAKE i \in I
  <2>1. log[i] \in LogRow
    OBVIOUS
  <2>2. log[i].amount \in Int
    BY <2>1 DEF LogRow
  <2> QED
    BY <2>2
<1>3. ASSUME NEW G PROVE Eq(G) <=> IsSumOn(G, g, I)
  <2>1. \A T \in SUBSET I : T # {} => g[Chosen(T)] = log[Chosen(T)].amount
    BY <1>2, ChosenIn
  <2> HIDE DEF g
  <2> QED
    BY <2>1, ZenonT(60) DEF IsSumOn, Chosen
<1>4. IsSumOn(F, g, I)
  <2> HIDE DEF g, Eq
  <2>1. \E G : IsSumOn(G, g, I)
    BY <1>1, SumOnExists
  <2>2. \E G : Eq(G)
    BY <2>1, <1>3
  <2>3. Eq(F)
    BY <2>2
  <2> HIDE DEF F
  <2> QED
    BY <2>3, <1>3
<1>5. LogSum(I) = F[I]
  BY DEF LogSum, SumOver
<1> HIDE DEF F, g
<1>6. F[I] \in Int
  BY <1>1, <1>2, <1>4, SumOnInt
<1> QED
  BY <1>5, <1>6

LEMMA SumsType ==
  ASSUME log \in Seq(LogRow), NEW day
  PROVE  Sums(day) \in [DOMAIN AutoSplits -> Int]
<1> SUFFICES ASSUME NEW ty \in DOMAIN AutoSplits PROVE Sums(day)[ty] \in Int
  BY DEF Sums
<1> DEFINE S == {i \in LogOf(day) : log[i].type \in DOMAIN Category /\ Category[log[i].type][1] = ty}
           Of(i) == Category[log[i].type][2] * log[i].amount
           g == [i \in S |-> Of(i)]
           Eq(F) == F = [T \in SUBSET S |-> IF T = {} THEN 0
                                            ELSE LET x == CHOOSE x \in T : TRUE IN Of(x) + F[T \ {x}]]
           F == CHOOSE F : Eq(F)
<1>1. IsFiniteSet(S)
  <2>1. Len(log) \in Nat /\ DOMAIN log = 1 .. Len(log)
    OBVIOUS
  <2>2. IsFiniteSet(1 .. Len(log))
    BY <2>1, FS_Interval, 1 \in Int, Len(log) \in Int, Zenon
  <2>3. S \subseteq DOMAIN log
    BY DEF LogOf
  <2> QED
    BY <2>1, <2>2, <2>3, FS_Subset
<1>2. \A i \in S : Of(i) \in Int
  <2> TAKE i \in S
  <2>1. log[i] \in LogRow /\ log[i].type \in DOMAIN Category
    BY DEF LogOf
  <2>2. log[i].amount \in Int
    BY <2>1 DEF LogRow
  <2>3. \A x \in DOMAIN Category : Category[x][2] \in Int
    BY DEF Category
  <2> HIDE DEF S
  <2> QED
    BY <2>1, <2>2, <2>3
<1>3. ASSUME NEW G PROVE Eq(G) <=> IsSumOn(G, g, S)
  <2> HIDE DEF Of, S
  <2>1. \A T \in SUBSET S : T # {} => g[Chosen(T)] = Of(Chosen(T))
    BY ChosenIn
  <2> HIDE DEF g
  <2> QED
    BY <2>1, ZenonT(60) DEF IsSumOn, Chosen
<1>4. IsSumOn(F, g, S)
  <2> HIDE DEF S, g
  <2> HIDE DEF g, Eq
  <2>1. \E G : IsSumOn(G, g, S)
    BY <1>1, SumOnExists
  <2>2. \E G : Eq(G)
    BY <2>1, <1>3
  <2>3. Eq(F)
    BY <2>2
  <2> HIDE DEF F
  <2> QED
    BY <2>3, <1>3
<1>5. Sums(day)[ty] = F[S]
  BY DEF Sums, SumOver
<1>6. \A i \in S : g[i] \in Int
  <2> HIDE DEF S, Of
  <2> QED
    BY <1>2
<1> HIDE DEF F, g, S, Of
<1>7. F[S] \in Int
  BY <1>1, <1>4, <1>6, SumOnInt
<1> QED
  BY <1>5, <1>7

LEMMA OwedType ==
  ASSUME log \in Seq(LogRow), NEW day, NEW S \in SUBSET Users
  PROVE  Owed(S, day) \in Int
<1> DEFINE g == [u \in S |-> UserBalance(u, day)]
           Eq(F) == F = [T \in SUBSET S |-> IF T = {} THEN 0
                                            ELSE LET x == CHOOSE x \in T : TRUE
                                                 IN  UserBalance(x, day) + F[T \ {x}]]
           F == CHOOSE F : Eq(F)
<1>1. IsFiniteSet(S)
  BY FinanceConstants, FS_Subset
<1>2. \A u \in S : g[u] = UserBalance(u, day) /\ g[u] \in Int
  <2> TAKE u \in S
  <2>1. {i \in LogUntil(day) : log[i].user = u} \in SUBSET (DOMAIN log)
    BY DEF LogUntil
  <2>2. UserBalance(u, day) \in Int
    BY <2>1, LogSumType DEF UserBalance
  <2> QED
    BY <2>2
<1>3. ASSUME NEW G PROVE Eq(G) <=> IsSumOn(G, g, S)
  <2>1. \A T \in SUBSET S : T # {} => g[Chosen(T)] = UserBalance(Chosen(T), day)
    BY <1>2, ChosenIn
  <2> HIDE DEF g
  <2> QED
    BY <2>1, ZenonT(60) DEF IsSumOn, Chosen
<1>4. IsSumOn(F, g, S)
  <2> HIDE DEF g, Eq
  <2>1. \E G : IsSumOn(G, g, S)
    BY <1>1, SumOnExists
  <2>2. \E G : Eq(G)
    BY <2>1, <1>3
  <2>3. Eq(F)
    BY <2>2
  <2> HIDE DEF F
  <2> QED
    BY <2>3, <1>3
<1>5. Owed(S, day) = F[S]
  BY DEF Owed, SumOver
<1> HIDE DEF F, g
<1>6. F[S] \in Int
  BY <1>1, <1>2, <1>4, SumOnInt
<1> QED
  BY <1>5, <1>6

(* The automatic splits of a type of sale are two or four, and balance.      *)
LEMMA TotalOfTwo ==
  ASSUME NEW s \in Seq(Line), Len(s) = 2
  PROVE  Total(s) = s[1].amount + s[2].amount
<1> DEFINE g == [k \in 1 .. Len(s) |-> s[k].amount]
<1>1. PICK f : IsSumTo(f, g, Len(s)) /\ Total(s) = f[Len(s)]
  BY Len(s) \in Nat, TotalIsSum
<1>2. g[1] = s[1].amount /\ g[2] = s[2].amount /\ g[1] \in Int /\ g[2] \in Int
  <2>1. 1 \in 1 .. Len(s) /\ 2 \in 1 .. Len(s)
    OBVIOUS
  <2>2. s[1] \in Line /\ s[2] \in Line
    BY <2>1, ElementOfSeq
  <2> QED
    BY <2>1, <2>2 DEF Line
<1> HIDE DEF g
<1>3. f[0] = 0 /\ f[1] = f[0] + g[1] /\ f[2] = f[1] + g[2]
  BY <1>1 DEF IsSumTo
<1> QED
  BY <1>1, <1>2, <1>3

LEMMA TotalOfFour ==
  ASSUME NEW s \in Seq(Line), Len(s) = 4
  PROVE  Total(s) = s[1].amount + s[2].amount + s[3].amount + s[4].amount
<1> DEFINE g == [k \in 1 .. Len(s) |-> s[k].amount]
<1>1. PICK f : IsSumTo(f, g, Len(s)) /\ Total(s) = f[Len(s)]
  BY Len(s) \in Nat, TotalIsSum
<1>2. ASSUME NEW k \in 1 .. 4 PROVE g[k] = s[k].amount /\ g[k] \in Int
  <2>1. k \in 1 .. Len(s)
    OBVIOUS
  <2>2. s[k] \in Line
    BY <2>1, ElementOfSeq
  <2> QED
    BY <2>1, <2>2 DEF Line
<1> HIDE DEF g
<1>3. f[0] = 0 /\ f[1] = f[0] + g[1] /\ f[2] = f[1] + g[2] /\ f[3] = f[2] + g[3] /\ f[4] = f[3] + g[4]
  BY <1>1 DEF IsSumTo
<1> QED
  BY <1>1, <1>2, <1>3

LEMMA NeededBalances ==
  ASSUME NEW ty \in DOMAIN AutoSplits, NEW amount \in Int
  PROVE  /\ NeededSplits(ty, amount) \in Seq(Line) /\ NeededSplits(ty, amount) # <<>>
         /\ Total(NeededSplits(ty, amount)) = 0
<1> DEFINE s == NeededSplits(ty, amount)
<1>1. CASE ty # "socialhour"
  <2>1. /\ DOMAIN AutoSplits[ty] = 1 .. 2
        /\ AutoSplits[ty][1][1] \in Int /\ AutoSplits[ty][2][1] = -AutoSplits[ty][1][1]
        /\ AutoSplits[ty][1][2] \in Texts /\ AutoSplits[ty][2][2] \in Texts
    <3>1. \E k \in {1, -1}, a, b \in Texts : AutoSplits[ty] = << <<k, a>>, <<-k, b>> >>
      <4>1. ty \in {"deposit", "donate", "purchase", "refund", "writeoff"}
        BY <1>1 DEF AutoSplits
      <4>2. /\ AutoSplits["deposit"] = << <<1, "cash">>, <<-1, "deposits">> >>
            /\ AutoSplits["donate"] = << <<1, "deposits">>, <<-1, "donations">> >>
            /\ AutoSplits["purchase"] = << <<1, "deposits">>, <<-1, "purchases">> >>
            /\ AutoSplits["refund"] = << <<1, "deposits">>, <<-1, "cash">> >>
            /\ AutoSplits["writeoff"] = << <<1, "writeoff">>, <<-1, "deposits">> >>
        BY DEF AutoSplits
      <4>3. {"cash", "deposits", "donations", "purchases", "writeoff"} \subseteq Texts
        BY FinanceConstants
      <4> QED
        BY <4>1, <4>2, <4>3
    <3> QED
      BY <3>1
  <2>2. s = [i \in 1 .. 2 |-> [of |-> AutoSplits[ty][i][2], amount |-> AutoSplits[ty][i][1] * amount]]
    BY <2>1 DEF NeededSplits
  <2>3. \A i \in 1 .. 2 : s[i] \in Line
    <3>1. \A i \in 1 .. 2 : AutoSplits[ty][i][1] \in Int /\ AutoSplits[ty][i][2] \in Texts
      BY <2>1
    <3> QED
      BY <2>2, <3>1 DEF Line
  <2>4. s \in Seq(Line) /\ Len(s) = 2
    <3> HIDE DEF s
    <3>1. DOMAIN s = 1 .. 2 /\ s \in [1 .. 2 -> Line]
      BY <2>2, <2>3
    <3>2. s \in Seq(Line)
      BY <3>1, SeqDef
    <3> QED
      BY <3>1, <3>2, LenProperties
  <2>5. s[1].amount = AutoSplits[ty][1][1] * amount /\ s[2].amount = AutoSplits[ty][2][1] * amount
    BY <2>2
  <2> HIDE DEF s
  <2>6. Total(s) = 0
    BY <2>1, <2>4, <2>5, TotalOfTwo
  <2> QED
    BY <2>4, <2>6 DEF s
<1>2. CASE ty = "socialhour"
  <2>1. /\ DOMAIN AutoSplits[ty] = 1 .. 4
        /\ AutoSplits[ty][1][1] = 1 /\ AutoSplits[ty][2][1] = -1
        /\ AutoSplits[ty][3][1] = 1 /\ AutoSplits[ty][4][1] = -1
        /\ AutoSplits[ty][1][2] \in Texts /\ AutoSplits[ty][2][2] \in Texts
        /\ AutoSplits[ty][3][2] \in Texts /\ AutoSplits[ty][4][2] \in Texts
    <3>1. AutoSplits["socialhour"] = << <<1, "deposits">>, <<-1, "socialDonations">>,
                                        <<1, "socialRestricted">>, <<-1, "bank">> >>
      BY DEF AutoSplits
    <3>2. {"deposits", "socialDonations", "socialRestricted", "bank"} \subseteq Texts
      BY FinanceConstants
    <3> QED
      BY <1>2, <3>1, <3>2
  <2>2. s = [i \in 1 .. 4 |-> [of |-> AutoSplits[ty][i][2], amount |-> AutoSplits[ty][i][1] * amount]]
    BY <2>1 DEF NeededSplits
  <2>3. \A i \in 1 .. 4 : s[i] \in Line
    <3>1. \A i \in 1 .. 4 : AutoSplits[ty][i][1] \in Int /\ AutoSplits[ty][i][2] \in Texts
      BY <2>1
    <3> QED
      BY <2>2, <3>1 DEF Line
  <2>4. s \in Seq(Line) /\ Len(s) = 4
    <3> HIDE DEF s
    <3>1. DOMAIN s = 1 .. 4 /\ s \in [1 .. 4 -> Line]
      BY <2>2, <2>3
    <3>2. s \in Seq(Line)
      BY <3>1, SeqDef
    <3> QED
      BY <3>1, <3>2, LenProperties
  <2>5. s[1].amount = amount /\ s[2].amount = -amount /\ s[3].amount = amount /\ s[4].amount = -amount
    BY <2>1, <2>2
  <2> HIDE DEF s
  <2>6. Total(s) = 0
    BY <2>4, <2>5, TotalOfFour
  <2> QED
    BY <2>4, <2>6 DEF s
<1> QED
  BY <1>1, <1>2

(* The cron job begins with the first day of the log and ends with the last. *)
LEMMA FirstAndLast ==
  ASSUME log \in Seq(LogRow), log # <<>>
  PROVE  Min(Days) \in Nat /\ Max(Days) \in Nat
<1>1. IsFiniteSet(Days) /\ Days # {} /\ Days \in SUBSET Nat
  <2>1. Len(log) \in Nat /\ DOMAIN log = 1 .. Len(log) /\ 1 \in DOMAIN log
    OBVIOUS
  <2>2. IsFiniteSet(DOMAIN log)
    BY <2>1, FS_Interval, 1 \in Int, Len(log) \in Int, Zenon
  <2>3. IsFiniteSet(Days)
    <3> DEFINE f == [i \in DOMAIN log |-> Day(log[i].at)]
    <3>1. f \in Surjection(DOMAIN log, Days)
      <4> HIDE DEF Day
      <4>1. f \in [DOMAIN log -> Days] /\ \A d \in Days : \E i \in DOMAIN log : f[i] = d
        BY DEF Days
      <4> QED
        BY <4>1 DEF Surjection
    <3> QED
      BY <2>2, <3>1, FS_Surjection
  <2>4. ASSUME NEW i \in DOMAIN log PROVE Day(log[i].at) \in Nat
    <3>1. log[i] \in LogRow
      OBVIOUS
    <3>2. log[i].at \in Nat
      BY <3>1 DEF LogRow
    <3>3. DayLength \in Nat \ {0}
      BY FinanceConstants
    <3> QED
      BY <3>2, <3>3 DEF Day
  <2> QED
    BY <2>1, <2>3, <2>4 DEF Days
<1>2. Min(Days) \in Days
  BY <1>1, Least DEF Min
<1>3. Max(Days) \in Days
  <2>1. \E x \in Days : \A y \in Days : x >= y
    BY <1>1, Greatest
  <2> QED
    BY <2>1 DEF Max
<1> QED
  BY <1>1, <1>2, <1>3

-----------------------------------------------------------------------------
(* The inductive invariant.  Every row of rows a writer means balances; a    *)
(* writer that is not done has rows left; and for a header that is not mixed *)
(* there is one writer at most, and what it has written so far and what it   *)
(* has left make what it means.                                              *)

MeantBalance == \A t \in DOMAIN meant \cap Transactions : Total(meant[t]) = 0
EditsSound ==
  \A e \in Editors : edit[e].pc \in {"save", "clear", "row"} =>
    /\ edit[e].rows # <<>>
    /\ edit[e].pc = "save" /\ edit[e].id \in Transactions => Total(edit[e].rows) = 0
    /\ edit[e].pc # "save" \/ ~edit[e].isNew => edit[e].id \in DOMAIN meant
JobSound ==
  /\ sync.pc \in {"match", "delete", "insert", "row"} => sync.todo # <<>>
  /\ sync.pc = "row" => sync.of \in DOMAIN head /\ sync.new # <<>>
Lone(id) ==
  /\ \A e, f \in Editors : Writing(e, id) /\ Writing(f, id) => e = f
  /\ sync.pc = "row" /\ sync.of = id => \A e \in Editors : ~Writing(e, id)
Underway(id) ==
  /\ \A e \in Editors : Writing(e, id) =>
       \/ edit[e].pc = "clear" /\ edit[e].rows = meant[id]
       \/ edit[e].pc = "row" /\ rows[id] \o edit[e].rows = meant[id]
  /\ sync.pc = "row" /\ sync.of = id => rows[id] \o sync.new = meant[id]
  /\ ~Written(id) => rows[id] = meant[id]
Books == \A id \in DOMAIN head \ mixed : Lone(id) /\ Underway(id)
Inv == TypeOK /\ MeantBalance /\ EditsSound /\ JobSound /\ Books

LEMMA InitInv == Init => Inv
<1> SUFFICES ASSUME Init PROVE Inv
  OBVIOUS
<1> USE FinanceTables
<1>1. PICK shift \in Shifts : /\ edit = [e \in Editors |-> IF e \in shift.editors THEN Idle ELSE Done]
                              /\ sync = [pc |-> "died", runs |-> shift.runs]
  BY DEF Init
<1>2. /\ log = Log0 /\ head = Head0 /\ rows = Rows0 /\ meant = Rows0 /\ mixed = {} /\ disturbed = TRUE
      /\ DOMAIN Rows0 = DOMAIN Head0
  BY DEF Init
<1>3. \A e \in Editors : edit[e] \in {Idle, Done} /\ edit[e].pc \in {"idle", "done"}
  BY <1>1 DEF Idle, Done
<1>4. TypeOK
  <2>1. edit \in [Editors -> {Idle, Done} \cup Writes]
    BY <1>1
  <2>2. sync \in [pc : {"died"}, runs : Nat]
    BY <1>1
  <2> QED
    BY <1>2, <2>1, <2>2 DEF TypeOK, Ids
<1>5. MeantBalance
  BY <1>2 DEF MeantBalance
<1>6. EditsSound
  BY <1>3 DEF EditsSound
<1>7. JobSound
  BY <1>1 DEF JobSound
<1>8. Books
  <2>1. \A id : \A e \in Editors : ~Writing(e, id)
    BY <1>3 DEF Writing
  <2> QED
    BY <1>1, <1>2, <2>1 DEF Books, Lone, Underway
<1> QED
  BY <1>4, <1>5, <1>6, <1>7, <1>8 DEF Inv

(* Fresh ids are of the kind asked for, and nobody has used them.            *)
LEMMA FreshIds ==
  ASSUME NEW ids, NEW id \in Fresh(ids)
  PROVE  id \in ids /\ id \notin DOMAIN meant
  BY DEF Fresh

(* What a step leaves alone stays as it was meant.                           *)
LEMMA Untouched ==
  ASSUME NEW x, Lone(x), Underway(x), rows'[x] = rows[x], meant'[x] = meant[x],
         \A f \in Editors : Writing(f, x)' <=> Writing(f, x),
         \A f \in Editors : Writing(f, x) => edit'[f] = edit[f],
         (sync.pc = "row" /\ sync.of = x)' <=> (sync.pc = "row" /\ sync.of = x),
         sync.pc = "row" /\ sync.of = x => sync'.new = sync.new
  PROVE  (Lone(x) /\ Underway(x))'
<1>1. Written(x)' <=> Written(x)
  BY DEF Written
<1>2. Lone(x)'
  BY DEF Lone
<1>3. Underway(x)'
  BY <1>1 DEF Underway
<1> QED
  BY <1>2, <1>3

(* The steps of the cron job that write no splits leave the books alone.     *)
LEMMA BooksStand ==
  ASSUME Books, UNCHANGED <<head, rows, edit, meant, mixed>>, sync.pc # "row", sync'.pc # "row"
  PROVE  Books'
<1> SUFFICES ASSUME NEW x \in DOMAIN head \ mixed PROVE (Lone(x) /\ Underway(x))'
  BY DEF Books
<1>1. \A e \in Editors : Writing(e, x)' <=> Writing(e, x)
  BY DEF Writing
<1>2. Lone(x) /\ Underway(x)
  BY DEF Books
<1> QED
  BY <1>1, <1>2, Untouched

-----------------------------------------------------------------------------
(* The steps of an editor.                                                   *)

(* Other editors are not touched by a step of e.                             *)
LEMMA EditPostKeeps ==
  ASSUME Inv, NEW e \in Editors, NEW id \in Ids, NEW h \in Header, NEW form \in Seq(Line),
         EditPost(e, id, h, form)
  PROVE  Inv'
<1> DEFINE new == [pc |-> "save", id |-> id, isNew |-> id \notin DOMAIN head,
                   head |-> h, rows |-> Filled(id, form)]
<1>1. /\ edit[e].pc = "idle" /\ MayCommit(id, form) /\ edit' = [edit EXCEPT ![e] = new]
      /\ UNCHANGED <<tables, sync, meant, mixed, disturbed>>
      /\ TypeOK /\ MeantBalance /\ EditsSound /\ JobSound /\ Books
  BY DEF EditPost, Inv
<1>2. Filled(id, form) \in Seq(Line)
  BY KeptType DEF Filled, SplitsGiven, CountsGiven
<1>3. new \in Writes
  BY <1>2 DEF Writes
<1>4. /\ edit \in [Editors -> {Idle, Done} \cup Writes] /\ edit' \in [Editors -> {Idle, Done} \cup Writes]
      /\ edit'[e] = new /\ \A f \in Editors : f # e => edit'[f] = edit[f]
  BY <1>1, <1>3 DEF TypeOK
<1>5. TypeOK'
  BY <1>1, <1>4 DEF TypeOK, tables
<1>6. MeantBalance'
  BY <1>1 DEF MeantBalance
<1>7. EditsSound'
  <2> SUFFICES ASSUME NEW f \in Editors, edit'[f].pc \in {"save", "clear", "row"}
               PROVE  /\ edit'[f].rows # <<>>
                      /\ edit'[f].pc = "save" /\ edit'[f].id \in Transactions => Total(edit'[f].rows) = 0
                      /\ edit'[f].pc # "save" \/ ~edit'[f].isNew => edit'[f].id \in DOMAIN meant
    BY <1>1 DEF EditsSound
  <2>1. CASE f = e
    <3>1. /\ edit'[f].rows = Filled(id, form) /\ edit'[f].id = id /\ edit'[f].pc = "save"
          /\ edit'[f].isNew = (id \notin DOMAIN head)
      BY <1>4, <2>1
    <3>2. DOMAIN head \subseteq DOMAIN meant
      BY <1>1 DEF TypeOK
    <3> QED
      BY <1>1, <3>1, <3>2 DEF MayCommit
  <2>2. CASE f # e
    BY <1>1, <1>4, <2>2 DEF EditsSound
  <2> QED
    BY <2>1, <2>2
<1>8. JobSound'
  BY <1>1 DEF JobSound, tables
<1>9. Books'
  <2> SUFFICES ASSUME NEW x \in DOMAIN head \ mixed PROVE (Lone(x) /\ Underway(x))'
    BY <1>1 DEF Books, tables
  <2>1. ASSUME NEW f \in Editors PROVE Writing(f, x)' <=> Writing(f, x)
    <3>1. CASE f = e
      BY <1>1, <1>4, <3>1 DEF Writing
    <3>2. CASE f # e
      BY <1>4, <3>2 DEF Writing
    <3> QED
      BY <3>1, <3>2
  <2>2. \A f \in Editors : Writing(f, x) => edit'[f] = edit[f]
    BY <1>1, <1>4 DEF Writing
  <2>3. Lone(x) /\ Underway(x)
    BY <1>1 DEF Books
  <2> QED
    BY <1>1, <2>1, <2>2, <2>3, Untouched DEF tables
<1> QED
  BY <1>5, <1>6, <1>7, <1>8, <1>9 DEF Inv

LEMMA EditSaveKeeps ==
  ASSUME Inv, NEW e \in Editors, EditSave(e)
  PROVE  Inv'
<1>1. /\ edit[e].pc = "save" /\ UNCHANGED <<log, deposits, sync>> /\ disturbed' = TRUE
      /\ TypeOK /\ MeantBalance /\ EditsSound /\ JobSound /\ Books
  BY DEF EditSave, Inv
<1>2. PICK id \in IF edit[e].isNew THEN Fresh(Kind(edit[e].id)) ELSE {edit[e].id} :
        /\ head' = Add(head, id, edit[e].head)
        /\ rows' = IF id \in DOMAIN rows THEN rows ELSE Add(rows, id, <<>>)
        /\ edit' = [edit EXCEPT ![e] = [@ EXCEPT !.pc = "clear", !.id = id]]
        /\ meant' = Add(meant, id, edit[e].rows)
        /\ mixed' = IF Written(id) THEN mixed \cup {id} ELSE mixed \ {id}
  BY DEF EditSave
<1> DEFINE new == [edit[e] EXCEPT !.pc = "clear", !.id = id]
<1>3. /\ edit[e] \in Writes /\ edit[e].id \in Ids /\ edit[e].rows \in Seq(Line) /\ edit[e].rows # <<>>
      /\ edit[e].head \in Header /\ edit[e].isNew \in BOOLEAN
      /\ edit[e].id \in Transactions => Total(edit[e].rows) = 0
      /\ ~edit[e].isNew => edit[e].id \in DOMAIN meant
  <2>1. edit[e] \in {Idle, Done} \cup Writes
    BY <1>1 DEF TypeOK
  <2>2. edit[e] \in Writes
    BY <1>1, <2>1 DEF Idle, Done
  <2> QED
    BY <1>1, <2>2 DEF EditsSound, Writes
<1>4. id \in Ids /\ (id \in Transactions => edit[e].id \in Transactions)
  BY <1>2, <1>3, FreshIds, FinanceConstants DEF Kind, Ids
<1>5. new \in Writes
  BY <1>3, <1>4 DEF Writes
<1>6. new.pc = "clear" /\ new.id = id /\ new.rows = edit[e].rows
  BY <1>3 DEF Writes
<1> HIDE DEF new
<1>7. /\ edit \in [Editors -> {Idle, Done} \cup Writes] /\ edit' \in [Editors -> {Idle, Done} \cup Writes]
      /\ edit'[e] = new /\ \A f \in Editors : f # e => edit'[f] = edit[f]
  BY <1>1, <1>2, <1>5 DEF TypeOK, new
<1>8. /\ DOMAIN head' = DOMAIN head \cup {id} /\ DOMAIN meant' = DOMAIN meant \cup {id}
      /\ meant'[id] = edit[e].rows
      /\ \A x \in DOMAIN meant : x # id => meant'[x] = meant[x]
      /\ \A x \in DOMAIN head : rows'[x] = rows[x]
  BY <1>1, <1>2 DEF Add, TypeOK
<1>9. TypeOK'
  <2>1. head' \in [DOMAIN head' -> Header] /\ meant' \in [DOMAIN meant' -> Seq(Line)]
    BY <1>1, <1>2, <1>3 DEF Add, TypeOK
  <2>2. rows' \in [DOMAIN head' -> Seq(Line)]
    <3>1. CASE id \in DOMAIN rows
      BY <1>1, <1>2, <1>8, <3>1 DEF TypeOK
    <3>2. CASE id \notin DOMAIN rows
      BY <1>1, <1>2, <1>8, <3>2 DEF TypeOK, Add
    <3> QED
      BY <3>1, <3>2
  <2>3. DOMAIN head' \subseteq DOMAIN meant' /\ DOMAIN meant' \subseteq Ids /\ mixed' \subseteq Ids
    BY <1>1, <1>2, <1>4, <1>8 DEF TypeOK
  <2> QED
    BY <1>1, <1>7, <2>1, <2>2, <2>3 DEF TypeOK
<1>10. MeantBalance'
  BY <1>1, <1>3, <1>4, <1>8 DEF MeantBalance
<1>11. EditsSound'
  <2> SUFFICES ASSUME NEW f \in Editors, edit'[f].pc \in {"save", "clear", "row"}
               PROVE  /\ edit'[f].rows # <<>>
                      /\ edit'[f].pc = "save" /\ edit'[f].id \in Transactions => Total(edit'[f].rows) = 0
                      /\ edit'[f].pc # "save" \/ ~edit'[f].isNew => edit'[f].id \in DOMAIN meant'
    BY DEF EditsSound
  <2>1. CASE f = e
    BY <1>3, <1>6, <1>7, <1>8, <2>1
  <2>2. CASE f # e
    BY <1>1, <1>7, <1>8, <2>2 DEF EditsSound
  <2> QED
    BY <2>1, <2>2
<1>12. JobSound'
  BY <1>1, <1>8 DEF JobSound
<1>13. Books'
  <2> SUFFICES ASSUME NEW x \in DOMAIN head' \ mixed' PROVE (Lone(x) /\ Underway(x))'
    BY DEF Books
  <2>1. \A f \in Editors : f # e => (Writing(f, x)' <=> Writing(f, x))
    BY <1>7 DEF Writing
  <2>2. Writing(e, x)' <=> x = id
    BY <1>6, <1>7 DEF Writing
  <2>3. ~Writing(e, x)
    BY <1>1 DEF Writing
  <2>4. CASE x = id
    <3>1. ~Written(id)
      BY <1>2, <2>4
    <3>2. \A f \in Editors : Writing(f, x)' <=> f = e
      BY <2>1, <2>2, <2>4, <3>1 DEF Written
    <3>3. ~(sync'.pc = "row" /\ sync'.of = id)
      BY <1>1, <3>1 DEF Written
    <3>4. edit'[e].pc = "clear" /\ edit'[e].rows = meant'[x] /\ Written(x)'
      BY <1>6, <1>7, <1>8, <2>4, <3>2 DEF Written
    <3> QED
      BY <2>4, <3>2, <3>3, <3>4 DEF Lone, Underway
  <2>5. CASE x # id
    <3>1. \A f \in Editors : Writing(f, x)' <=> Writing(f, x)
      BY <2>1, <2>2, <2>3, <2>5
    <3>2. x \in DOMAIN head \ mixed
      BY <1>2, <1>8, <2>5
    <3>3. rows'[x] = rows[x] /\ meant'[x] = meant[x]
      BY <1>1, <1>8, <2>5, <3>2 DEF TypeOK
    <3>4. \A f \in Editors : Writing(f, x) => edit'[f] = edit[f]
      BY <1>7, <2>3
    <3>5. Lone(x) /\ Underway(x)
      BY <1>1, <3>2 DEF Books
    <3> QED
      BY <1>1, <3>1, <3>3, <3>4, <3>5, Untouched
  <2> QED
    BY <2>4, <2>5
<1> QED
  BY <1>9, <1>10, <1>11, <1>12, <1>13 DEF Inv

LEMMA EditClearKeeps ==
  ASSUME Inv, NEW e \in Editors, EditClear(e)
  PROVE  Inv'
<1> DEFINE new == [edit[e] EXCEPT !.pc = "row"]
           id == edit[e].id
<1>1. /\ edit[e].pc = "clear" /\ edit' = [edit EXCEPT ![e] = new]
      /\ rows' = [x \in DOMAIN rows |-> IF x = id THEN <<>> ELSE rows[x]]
      /\ UNCHANGED <<log, head, deposits, sync, meant, mixed>> /\ disturbed' = TRUE
      /\ TypeOK /\ MeantBalance /\ EditsSound /\ JobSound /\ Books
  BY DEF EditClear, Inv
<1>2. edit[e] \in Writes /\ edit[e].rows \in Seq(Line) /\ edit[e].rows # <<>> /\ id \in DOMAIN meant
  <2>1. edit[e] \in {Idle, Done} \cup Writes
    BY <1>1 DEF TypeOK
  <2>2. edit[e] \in Writes
    BY <1>1, <2>1 DEF Idle, Done
  <2> QED
    BY <1>1, <2>2 DEF EditsSound, Writes
<1>3. new \in Writes /\ new.pc = "row" /\ new.id = id /\ new.rows = edit[e].rows /\ new.isNew = edit[e].isNew
  BY <1>2 DEF Writes
<1> HIDE DEF new, id
<1>4. /\ edit \in [Editors -> {Idle, Done} \cup Writes] /\ edit' \in [Editors -> {Idle, Done} \cup Writes]
      /\ edit'[e] = new /\ \A f \in Editors : f # e => edit'[f] = edit[f]
  BY <1>1, <1>3 DEF TypeOK
<1>5. rows' \in [DOMAIN head -> Seq(Line)] /\ DOMAIN rows = DOMAIN head
  BY <1>1 DEF TypeOK
<1>6. TypeOK'
  BY <1>1, <1>4, <1>5 DEF TypeOK
<1>7. MeantBalance'
  BY <1>1 DEF MeantBalance
<1>8. EditsSound'
  <2> SUFFICES ASSUME NEW f \in Editors, edit'[f].pc \in {"save", "clear", "row"}
               PROVE  /\ edit'[f].rows # <<>>
                      /\ edit'[f].pc = "save" /\ edit'[f].id \in Transactions => Total(edit'[f].rows) = 0
                      /\ edit'[f].pc # "save" \/ ~edit'[f].isNew => edit'[f].id \in DOMAIN meant
    BY <1>1 DEF EditsSound
  <2>1. CASE f = e
    BY <1>2, <1>3, <1>4, <2>1
  <2>2. CASE f # e
    BY <1>1, <1>4, <2>2 DEF EditsSound
  <2> QED
    BY <2>1, <2>2
<1>9. JobSound'
  BY <1>1 DEF JobSound
<1>10. Books'
  <2> SUFFICES ASSUME NEW x \in DOMAIN head \ mixed PROVE (Lone(x) /\ Underway(x))'
    BY <1>1 DEF Books
  <2>1. Lone(x) /\ Underway(x)
    BY <1>1 DEF Books
  <2>2. \A f \in Editors : Writing(f, x)' <=> Writing(f, x)
    BY <1>1, <1>3, <1>4 DEF Writing, id
  <2>3. CASE x = id
    <3>1. Writing(e, x)
      BY <1>1, <2>3 DEF Writing, id
    <3>2. \A f \in Editors : Writing(f, x)' <=> f = e
      BY <2>1, <2>2, <3>1 DEF Lone
    <3>3. ~(sync'.pc = "row" /\ sync'.of = x)
      BY <1>1, <2>1, <3>1 DEF Lone
    <3>4. edit[e].rows = meant[x]
      BY <1>1, <2>1, <3>1 DEF Underway
    <3>5. rows'[x] = <<>>
      BY <1>1, <1>5, <2>3
    <3>6. rows'[x] \o edit'[e].rows = meant'[x] /\ edit'[e].pc = "row"
      <4>1. <<>> \o edit[e].rows = edit[e].rows
        BY <1>2, ConcatEmptySeq
      <4> QED
        BY <1>1, <1>3, <1>4, <3>4, <3>5, <4>1
    <3>7. Written(x)'
      BY <3>2 DEF Written
    <3> QED
      BY <3>2, <3>3, <3>6, <3>7 DEF Lone, Underway
  <2>4. CASE x # id
    <3>1. rows'[x] = rows[x]
      BY <1>1, <1>5, <2>4
    <3>2. \A f \in Editors : Writing(f, x) => edit'[f] = edit[f]
      BY <1>4, <2>4 DEF Writing, id
    <3> QED
      BY <1>1, <2>1, <2>2, <3>1, <3>2, Untouched
  <2> QED
    BY <2>3, <2>4
<1> QED
  BY <1>6, <1>7, <1>8, <1>9, <1>10 DEF Inv

(* Moving the first row that is left to the end of the rows written.         *)
LEMMA OneMore ==
  ASSUME NEW s \in Seq(Line), NEW t \in Seq(Line), t # <<>>
  PROVE  /\ Head(t) \in Line /\ Tail(t) \in Seq(Line) /\ Append(s, Head(t)) \in Seq(Line)
         /\ Append(s, Head(t)) \o Tail(t) = s \o t
         /\ Tail(t) = <<>> => Append(s, Head(t)) = s \o t
<1>1. Head(t) \in Line /\ Tail(t) \in Seq(Line) /\ Append(s, Head(t)) \in Seq(Line)
  BY HeadTailProperties
<1>2. t = <<Head(t)>> \o Tail(t)
  BY HeadTailProperties
<1>3. Append(s, Head(t)) = s \o <<Head(t)>>
  BY <1>1
<1>4. Append(s, Head(t)) \o Tail(t) = s \o t
  BY <1>1, <1>2, <1>3, ConcatAssociative, SMTT(40)
<1>5. ASSUME Tail(t) = <<>> PROVE Append(s, Head(t)) = s \o t
  BY <1>1, <1>4, <1>5, ConcatEmptySeq
<1> QED
  BY <1>1, <1>4, <1>5

LEMMA EditRowKeeps ==
  ASSUME Inv, NEW e \in Editors, EditRow(e)
  PROVE  Inv'
<1> DEFINE id == edit[e].id
           left == edit[e].rows
           new == [edit[e] EXCEPT !.rows = Tail(left)]
<1>1. /\ edit[e].pc = "row" /\ UNCHANGED <<log, head, deposits, sync, meant, mixed>> /\ disturbed' = TRUE
      /\ TypeOK /\ MeantBalance /\ EditsSound /\ JobSound /\ Books
  BY DEF EditRow, Inv
<1>2. edit[e] \in Writes /\ left \in Seq(Line) /\ left # <<>> /\ id \in DOMAIN meant
  <2>1. edit[e] \in {Idle, Done} \cup Writes
    BY <1>1 DEF TypeOK
  <2>2. edit[e] \in Writes
    BY <1>1, <2>1 DEF Idle, Done
  <2> QED
    BY <1>1, <2>2 DEF EditsSound, Writes
<1>3. Tail(left) \in Seq(Line)
  BY <1>2
<1>4. new \in Writes /\ new.pc = "row" /\ new.id = id /\ new.rows = Tail(left)
  BY <1>1, <1>2, <1>3 DEF Writes
<1>5. IF id \in DOMAIN head
      THEN /\ rows' = [rows EXCEPT ![id] = Append(@, Head(left))]
           /\ edit' = [edit EXCEPT ![e] = IF Tail(left) = <<>> THEN Done ELSE new]
      ELSE edit' = [edit EXCEPT ![e] = Done] /\ rows' = rows
  BY DEF EditRow
<1> HIDE DEF new, id, left
<1>6. /\ edit \in [Editors -> {Idle, Done} \cup Writes] /\ edit' \in [Editors -> {Idle, Done} \cup Writes]
      /\ edit'[e] = IF id \notin DOMAIN head \/ Tail(left) = <<>> THEN Done ELSE new
      /\ \A f \in Editors : f # e => edit'[f] = edit[f]
  BY <1>1, <1>4, <1>5 DEF TypeOK
<1>7. /\ rows \in [DOMAIN head -> Seq(Line)] /\ rows' \in [DOMAIN head -> Seq(Line)]
      /\ \A x \in DOMAIN head : x # id => rows'[x] = rows[x]
      /\ id \in DOMAIN head => rows'[id] = Append(rows[id], Head(left))
  <2>1. rows \in [DOMAIN head -> Seq(Line)]
    BY <1>1 DEF TypeOK
  <2>2. id \in DOMAIN head => Append(rows[id], Head(left)) \in Seq(Line)
    BY <1>2, <2>1, OneMore
  <2> QED
    BY <1>5, <2>1, <2>2
<1>8. TypeOK'
  BY <1>1, <1>6, <1>7 DEF TypeOK
<1>9. MeantBalance'
  BY <1>1 DEF MeantBalance
<1>10. EditsSound'
  <2> SUFFICES ASSUME NEW f \in Editors, edit'[f].pc \in {"save", "clear", "row"}
               PROVE  /\ edit'[f].rows # <<>>
                      /\ edit'[f].pc = "save" /\ edit'[f].id \in Transactions => Total(edit'[f].rows) = 0
                      /\ edit'[f].pc # "save" \/ ~edit'[f].isNew => edit'[f].id \in DOMAIN meant
    BY <1>1 DEF EditsSound
  <2>1. CASE f = e
    BY <1>2, <1>4, <1>6, <2>1 DEF Done
  <2>2. CASE f # e
    BY <1>1, <1>6, <2>2 DEF EditsSound
  <2> QED
    BY <2>1, <2>2
<1>11. JobSound'
  BY <1>1 DEF JobSound
<1>12. Books'
  <2> SUFFICES ASSUME NEW x \in DOMAIN head \ mixed PROVE (Lone(x) /\ Underway(x))'
    BY <1>1 DEF Books
  <2>1. Lone(x) /\ Underway(x)
    BY <1>1 DEF Books
  <2>2. CASE x = id
    <3>1. Writing(e, x)
      BY <1>1, <2>2 DEF Writing, id
    <3>2. \A f \in Editors : Writing(f, x) <=> f = e
      BY <2>1, <3>1 DEF Lone
    <3>3. \A f \in Editors : f # e => ~Writing(f, x)'
      BY <1>6, <3>2 DEF Writing
    <3>4. ~(sync'.pc = "row" /\ sync'.of = x)
      BY <1>1, <2>1, <3>1 DEF Lone
    <3>5. rows[x] \o left = meant[x]
      BY <1>1, <2>1, <3>1 DEF Underway, left
    <3>6. rows'[x] = Append(rows[x], Head(left)) /\ rows[x] \in Seq(Line)
      BY <1>7, <2>2
    <3>7. /\ rows'[x] \o Tail(left) = meant'[x]
          /\ Tail(left) = <<>> => rows'[x] = meant'[x]
      BY <1>1, <1>2, <3>5, <3>6, OneMore
    <3>8. CASE Tail(left) = <<>>
      <4>1. ~Writing(e, x)'
        BY <1>6, <3>8 DEF Writing, Done
      <4>2. \A f \in Editors : ~Writing(f, x)'
        BY <3>3, <4>1
      <4> QED
        BY <3>4, <3>7, <3>8, <4>2 DEF Lone, Underway
    <3>9. CASE Tail(left) # <<>>
      <4>1. edit'[e] = new
        BY <1>6, <2>2, <3>9
      <4>2. Writing(e, x)' /\ edit'[e].pc = "row" /\ edit'[e].rows = Tail(left)
        BY <1>4, <2>2, <4>1 DEF Writing
      <4>3. Written(x)'
        BY <4>2 DEF Written
      <4> QED
        BY <3>3, <3>4, <3>7, <4>2, <4>3 DEF Lone, Underway
    <3> QED
      BY <3>8, <3>9
  <2>3. CASE x # id
    <3>1. ~Writing(e, x) /\ ~Writing(e, x)'
      BY <1>4, <1>6, <2>3 DEF Writing, Done, id
    <3>2. /\ \A f \in Editors : Writing(f, x)' <=> Writing(f, x)
          /\ \A f \in Editors : Writing(f, x) => edit'[f] = edit[f]
      BY <1>6, <3>1 DEF Writing
    <3>3. rows'[x] = rows[x]
      BY <1>7, <2>3
    <3> QED
      BY <1>1, <2>1, <3>2, <3>3, Untouched
  <2> QED
    BY <2>2, <2>3
<1> QED
  BY <1>8, <1>9, <1>10, <1>11, <1>12 DEF Inv

LEMMA EditDieKeeps ==
  ASSUME Inv, NEW e \in Editors, EditDie(e)
  PROVE  Inv'
<1>1. /\ edit[e].pc \in {"save", "clear", "row"} /\ UNCHANGED <<tables, sync, meant, disturbed>>
      /\ mixed' = (IF edit[e].pc = "save" THEN mixed ELSE mixed \cup {edit[e].id})
      /\ edit' = [edit EXCEPT ![e] = Done]
      /\ TypeOK /\ MeantBalance /\ EditsSound /\ JobSound /\ Books
  BY DEF EditDie, Inv
<1>2. /\ edit' \in [Editors -> {Idle, Done} \cup Writes]
      /\ edit'[e] = Done /\ \A f \in Editors : f # e => edit'[f] = edit[f]
  BY <1>1 DEF TypeOK
<1>3. TypeOK'
  <2>1. DOMAIN meant \subseteq Ids /\ mixed \subseteq Ids
    BY <1>1 DEF TypeOK
  <2>2. edit[e].pc # "save" => edit[e].id \in DOMAIN meant
    BY <1>1 DEF EditsSound
  <2>3. mixed' \subseteq Ids
    BY <1>1, <2>1, <2>2
  <2> QED
    BY <1>1, <1>2, <2>3 DEF TypeOK, tables
<1>4. MeantBalance'
  BY <1>1 DEF MeantBalance
<1>5. EditsSound'
  BY <1>1, <1>2 DEF EditsSound, Done
<1>6. JobSound'
  BY <1>1 DEF JobSound, tables
<1>7. Books'
  <2> SUFFICES ASSUME NEW x \in DOMAIN head \ mixed' PROVE (Lone(x) /\ Underway(x))'
    BY <1>1 DEF Books, tables
  <2>1. x \in DOMAIN head \ mixed
    BY <1>1
  <2>2. Lone(x) /\ Underway(x)
    BY <1>1, <2>1 DEF Books
  <2>3. ~Writing(e, x) /\ ~Writing(e, x)'
    BY <1>1, <1>2 DEF Writing, Done
  <2>4. /\ \A f \in Editors : Writing(f, x)' <=> Writing(f, x)
        /\ \A f \in Editors : Writing(f, x) => edit'[f] = edit[f]
    BY <1>2, <2>3 DEF Writing
  <2> QED
    BY <1>1, <2>2, <2>4, Untouched DEF tables
<1> QED
  BY <1>3, <1>4, <1>5, <1>6, <1>7 DEF Inv

-----------------------------------------------------------------------------
(* The steps of the cron job.                                                *)

States == [pc : {"died"}, runs : Nat] \cup Between \cup Working

(* After a type of sale the job goes on to the next, or to the summary, or   *)
(* to the next day.                                                          *)
LEMMA ProceedType ==
  ASSUME NEW s \in Working
  PROVE  /\ Proceed(s) \in States /\ Proceed(s).pc \in {"match", "positive", "done", "read"}
         /\ Proceed(s).pc = "match" => Proceed(s).todo # <<>>
<1>1. CASE s.todo # <<>>
  <2>1. Proceed(s) = [s EXCEPT !.pc = "match"]
    BY <1>1 DEF Proceed
  <2>2. [s EXCEPT !.pc = "match"] \in Working /\ [s EXCEPT !.pc = "match"].todo = s.todo
        /\ [s EXCEPT !.pc = "match"].pc = "match"
    BY DEF Working
  <2> QED
    BY <1>1, <2>1, <2>2 DEF States
<1>2. CASE s.todo = <<>> /\ s.redo
  <2>1. Proceed(s) = [s EXCEPT !.pc = "positive"]
    BY <1>2 DEF Proceed
  <2>2. [s EXCEPT !.pc = "positive"] \in Working /\ [s EXCEPT !.pc = "positive"].pc = "positive"
    BY DEF Working
  <2> QED
    BY <2>1, <2>2 DEF States
<1>3. CASE s.todo = <<>> /\ ~s.redo
  <2>1. Proceed(s) = [pc |-> IF s.day = s.last THEN "done" ELSE "read", runs |-> s.runs, day |-> s.day + 1,
                      last |-> s.last, liabilities |-> s.liabilities, odd |-> s.odd \cup s.old]
    BY <1>3 DEF Proceed
  <2>2. s.runs \in Nat /\ s.day + 1 \in Nat /\ s.last \in Nat /\ s.liabilities \in Int
        /\ s.odd \cup s.old \in SUBSET Olds
    BY DEF Working
  <2>3. Proceed(s) \in Between /\ Proceed(s).pc \in {"done", "read"}
    BY <2>1, <2>2 DEF Between
  <2> QED
    BY <2>3 DEF States
<1>4. s.redo \in BOOLEAN
  BY DEF Working
<1> QED
  BY <1>1, <1>2, <1>3, <1>4

LEMMA WorkingOnDay ==
  ASSUME TypeOK, sync.pc \in {"list", "match", "delete", "insert", "row", "positive", "negative"}
  PROVE  sync \in Working
<1>1. sync \in [pc : {"died"}, runs : Nat] \cup Between \cup Working
  BY DEF TypeOK
<1>2. sync \notin [pc : {"died"}, runs : Nat] /\ sync \notin Between
  BY DEF Between
<1> QED
  BY <1>1, <1>2

LEMMA QuietStep ==
  ASSUME Inv, UNCHANGED <<log, head, rows, edit, meant, mixed>>, disturbed' \in BOOLEAN,
         sync.pc # "row", sync' \in States, sync'.pc # "row",
         sync'.pc \in {"match", "delete", "insert"} => sync'.todo # <<>>
  PROVE  Inv'
<1>1. TypeOK'
  BY DEF Inv, TypeOK, States
<1>2. MeantBalance' /\ EditsSound'
  BY DEF Inv, MeantBalance, EditsSound
<1>3. JobSound'
  BY DEF JobSound
<1>4. Books'
  BY BooksStand DEF Inv
<1> QED
  BY <1>1, <1>2, <1>3, <1>4 DEF Inv

LEMMA SyncStartKeeps == ASSUME Inv, SyncStart PROVE Inv'
<1>1. /\ sync.pc \in {"done", "died"} /\ sync.runs > 0 /\ log # <<>> /\ UNCHANGED <<tables, edit, meant, mixed>>
      /\ sync' = [pc |-> "read", runs |-> sync.runs - 1, day |-> Min(Days), last |-> Max(Days),
                  liabilities |-> 0, odd |-> {}]
      /\ disturbed' = (\E e \in Editors : edit[e].pc \notin {"idle", "done"})
  BY DEF SyncStart
<1>2. disturbed' \in BOOLEAN
  BY <1>1
<1>3. Min(Days) \in Nat /\ Max(Days) \in Nat
  BY <1>1, FirstAndLast DEF Inv, TypeOK
<1>4. sync.runs - 1 \in Nat
  <2>1. sync.runs \in Nat
    BY DEF Inv, TypeOK, Between, Working
  <2> QED
    BY <1>1, <2>1
<1>5. sync' \in Between /\ sync'.pc = "read"
  BY <1>1, <1>3, <1>4 DEF Between
<1> QED
  BY <1>1, <1>2, <1>5, QuietStep DEF States, tables

LEMMA SyncReadKeeps == ASSUME Inv, SyncRead PROVE Inv'
<1>1. /\ sync.pc = "read" /\ UNCHANGED <<tables, edit, meant, mixed, disturbed>>
      /\ sync' = [pc |-> "list", runs |-> sync.runs, day |-> sync.day, last |-> sync.last, odd |-> sync.odd,
                  liabilities |-> sync.liabilities + LogSum(LogOf(sync.day)), sums |-> Sums(sync.day),
                  old |-> {}, redo |-> FALSE, todo |-> <<>>, of |-> 0, new |-> <<>>, owed |-> <<>>]
  BY DEF SyncRead
<1>2. log \in Seq(LogRow) /\ disturbed \in BOOLEAN
  BY DEF Inv, TypeOK
<1>3. LogSum(LogOf(sync.day)) \in Int /\ Sums(sync.day) \in [DOMAIN AutoSplits -> Int]
  <2>1. LogOf(sync.day) \in SUBSET (DOMAIN log)
    BY DEF LogOf
  <2> QED
    BY <1>2, <2>1, LogSumType, SumsType
<1>4. sync \in Between
  BY <1>1 DEF Inv, TypeOK, Working
<1>5. sync' \in Working /\ sync'.pc = "list"
  <2>1. sync.runs \in Nat /\ sync.day \in Nat /\ sync.last \in Nat /\ sync.odd \in SUBSET Olds
        /\ sync.liabilities \in Int
    BY <1>4 DEF Between
  <2> QED
    BY <1>1, <1>3, <2>1 DEF Working
<1> QED
  BY <1>1, <1>2, <1>5, QuietStep DEF States, tables

LEMMA SyncListKeeps == ASSUME Inv, SyncList PROVE Inv'
<1> DEFINE old == {[id |-> t, name |-> head[t].name] : t \in {t \in Txs : head[t].auto /\ Day(head[t].at) = sync.day}}
           stale == sync.day \notin DOMAIN deposits
                    \/ deposits[sync.day][1] - deposits[sync.day][2] # sync.liabilities
           todo == Kept(AutoOrder, {ty \in DOMAIN AutoSplits : sync.sums[ty] # 0 \/ \E o \in old : o.name = ty})
           s == [sync EXCEPT !.old = old, !.redo = stale, !.todo = todo]
<1>1. /\ sync.pc = "list" /\ UNCHANGED <<tables, edit, meant, mixed, disturbed>>
      /\ sync' = Proceed(s)
  BY DEF SyncList
<1>2. old \in SUBSET Olds
  <2>1. \A t \in Txs : t \in Transactions /\ head[t].name \in Texts
    <3> TAKE t \in Txs
    <3>1. t \in DOMAIN head /\ t \in Transactions /\ head[t] \in Header
      BY DEF Inv, TypeOK, Txs
    <3> QED
      BY <3>1 DEF Header
  <2> QED
    BY <2>1 DEF Olds
<1>3. todo \in Seq(DOMAIN AutoSplits)
  <2>1. AutoOrder \in Seq(DOMAIN AutoSplits)
    BY DEF AutoOrder, AutoSplits
  <2> QED
    BY <2>1, KeptType
<1>4. stale \in BOOLEAN
  OBVIOUS
<1>5. sync \in Working
  BY <1>1, WorkingOnDay DEF Inv
<1> HIDE DEF old, stale, todo
<1>6. s \in Working
  BY <1>2, <1>3, <1>4, <1>5 DEF Working
<1> HIDE DEF s
<1>7. sync' \in States /\ sync'.pc # "row" /\ (sync'.pc \in {"match", "delete", "insert"} => sync'.todo # <<>>)
  BY <1>1, <1>6, ProceedType
<1> QED
  BY <1>1, <1>7, QuietStep DEF tables, Inv, TypeOK

LEMMA SyncMatchKeeps == ASSUME Inv, SyncMatch PROVE Inv'
<1> DEFINE ty == Head(sync.todo)
           olds == {o \in sync.old : o.name = ty}
<1>1. sync.pc = "match" /\ UNCHANGED <<tables, edit, meant, mixed, disturbed>>
  BY DEF SyncMatch
<1>2. sync \in Working /\ sync.todo \in Seq(DOMAIN AutoSplits) /\ sync.todo # <<>> /\ sync.old \in SUBSET Olds
  <2>1. sync \in Working
    BY <1>1, WorkingOnDay DEF Inv
  <2>2. sync.todo # <<>>
    BY <1>1 DEF Inv, JobSound
  <2> QED
    BY <2>1, <2>2 DEF Working
<1>3. Tail(sync.todo) \in Seq(DOMAIN AutoSplits)
  BY <1>2, HeadTailProperties
<1>4. sync' \in States /\ sync'.pc # "row" /\ (sync'.pc \in {"match", "delete", "insert"} => sync'.todo # <<>>)
  <2>1. CASE sync' = [sync EXCEPT !.pc = "insert"]
    <3>1. sync' \in Working /\ sync'.pc = "insert" /\ sync'.todo = sync.todo
      BY <1>2, <2>1 DEF Working
    <3> QED
      BY <1>2, <3>1 DEF States
  <2>2. ASSUME NEW o \in olds, sync' = [sync EXCEPT !.pc = "delete", !.of = o.id, !.old = @ \ {o}]
        PROVE  sync' \in Working /\ sync'.pc = "delete" /\ sync'.todo = sync.todo
    <3>1. o \in Olds /\ o.id \in Ids /\ sync.old \ {o} \in SUBSET Olds
      BY <1>2 DEF Olds, Ids
    <3> QED
      BY <1>2, <2>2, <3>1 DEF Working
  <2>3. ASSUME NEW o \in olds PROVE [sync EXCEPT !.todo = Tail(@), !.old = @ \ {o}] \in Working
    <3>1. sync.old \ {o} \in SUBSET Olds
      BY <1>2
    <3> QED
      BY <1>2, <1>3, <3>1 DEF Working
  <2>4. \/ sync' = [sync EXCEPT !.pc = "insert"]
        \/ \E o \in olds : \/ sync' = [sync EXCEPT !.pc = "delete", !.of = o.id, !.old = @ \ {o}]
                           \/ sync' = Proceed([sync EXCEPT !.todo = Tail(@), !.old = @ \ {o}])
    BY DEF SyncMatch
  <2>5. ASSUME NEW o \in olds, sync' = Proceed([sync EXCEPT !.todo = Tail(@), !.old = @ \ {o}])
        PROVE  sync' \in States /\ sync'.pc \in {"match", "positive", "done", "read"}
               /\ (sync'.pc = "match" => sync'.todo # <<>>)
    BY <2>3, <2>5, ProceedType
  <2> HIDE DEF olds
  <2> QED
    BY <1>2, <2>1, <2>2, <2>4, <2>5 DEF States
<1> QED
  BY <1>1, <1>4, QuietStep DEF tables, Inv, TypeOK

LEMMA SyncPositiveKeeps == ASSUME Inv, SyncPositive PROVE Inv'
<1> DEFINE S == Owing(sync.day, 1)
           owed == IF S = {} THEN <<>> ELSE <<Owed(S, sync.day)>>
<1>1. /\ sync.pc = "positive" /\ UNCHANGED <<tables, edit, meant, mixed, disturbed>>
      /\ sync' = [sync EXCEPT !.pc = "negative", !.owed = owed]
  BY DEF SyncPositive
<1>2. sync \in Working
  BY <1>1, WorkingOnDay DEF Inv
<1>3. owed \in Seq(Int)
  <2>1. S \in SUBSET Users /\ log \in Seq(LogRow)
    BY DEF Owing, Inv, TypeOK
  <2>2. Owed(S, sync.day) \in Int
    <3> HIDE DEF S
    <3> QED
      BY <2>1, OwedType
  <2> QED
    BY <2>2
<1> HIDE DEF owed
<1>4. sync' \in Working /\ sync'.pc = "negative"
  BY <1>1, <1>2, <1>3 DEF Working
<1> QED
  BY <1>1, <1>4, QuietStep DEF tables, States, Inv, TypeOK

LEMMA SyncNegativeKeeps == ASSUME Inv, SyncNegative PROVE Inv'
<1>1. /\ sync.pc = "negative" /\ UNCHANGED <<log, head, rows, edit, meant, mixed, disturbed>>
      /\ \/ sync' = [pc |-> "died", runs |-> sync.runs]
         \/ sync' = Proceed([sync EXCEPT !.redo = FALSE])
  BY DEF SyncNegative
<1>2. sync \in Working
  BY <1>1, WorkingOnDay DEF Inv
<1>3. [sync EXCEPT !.redo = FALSE] \in Working
  BY <1>2 DEF Working
<1>4. sync.runs \in Nat
  BY <1>2 DEF Working
<1>5. sync' \in States /\ sync'.pc # "row" /\ (sync'.pc \in {"match", "delete", "insert"} => sync'.todo # <<>>)
  BY <1>1, <1>3, <1>4, ProceedType DEF States
<1> QED
  BY <1>1, <1>5, QuietStep DEF Inv, TypeOK

LEMMA SyncDeleteKeeps == ASSUME Inv, SyncDelete PROVE Inv'
<1>1. /\ sync.pc = "delete" /\ head' = Drop(head, sync.of) /\ rows' = Drop(rows, sync.of)
      /\ mixed' = mixed \ {sync.of} /\ UNCHANGED <<log, deposits, edit, meant, disturbed>>
      /\ \/ sync' = [sync EXCEPT !.pc = "insert", !.redo = TRUE]
         \/ sync' = Proceed([sync EXCEPT !.todo = Tail(@), !.redo = TRUE])
      /\ TypeOK /\ MeantBalance /\ EditsSound /\ JobSound /\ Books
  BY DEF SyncDelete, Inv
<1>2. sync \in Working /\ sync.todo # <<>> /\ Tail(sync.todo) \in Seq(DOMAIN AutoSplits)
  <2>1. sync \in Working
    BY <1>1, WorkingOnDay
  <2>2. sync.todo # <<>> /\ sync.todo \in Seq(DOMAIN AutoSplits)
    BY <1>1, <2>1 DEF JobSound, Working
  <2> QED
    BY <2>1, <2>2, HeadTailProperties
<1>3. sync' \in States /\ sync'.pc # "row" /\ (sync'.pc \in {"match", "delete", "insert"} => sync'.todo # <<>>)
  <2>1. CASE sync' = [sync EXCEPT !.pc = "insert", !.redo = TRUE]
    <3>1. sync' \in Working /\ sync'.pc = "insert" /\ sync'.todo = sync.todo
      BY <1>2, <2>1 DEF Working
    <3> QED
      BY <1>2, <3>1 DEF States
  <2>2. CASE sync' = Proceed([sync EXCEPT !.todo = Tail(@), !.redo = TRUE])
    <3>1. [sync EXCEPT !.todo = Tail(@), !.redo = TRUE] \in Working
      BY <1>2 DEF Working
    <3> QED
      BY <2>2, <3>1, ProceedType
  <2> QED
    BY <1>1, <2>1, <2>2
<1>4. /\ DOMAIN head' = DOMAIN head \ {sync.of} /\ rows' \in [DOMAIN head' -> Seq(Line)]
      /\ head' \in [DOMAIN head' -> Header] /\ \A x \in DOMAIN head' : rows'[x] = rows[x]
  BY <1>1 DEF TypeOK, Drop
<1>5. TypeOK'
  BY <1>1, <1>3, <1>4 DEF TypeOK, States
<1>6. MeantBalance' /\ EditsSound' /\ JobSound'
  BY <1>1, <1>3 DEF MeantBalance, EditsSound, JobSound
<1>7. Books'
  <2> SUFFICES ASSUME NEW x \in DOMAIN head' \ mixed' PROVE (Lone(x) /\ Underway(x))'
    BY DEF Books
  <2>1. x \in DOMAIN head \ mixed /\ rows'[x] = rows[x]
    BY <1>1, <1>4
  <2>2. Lone(x) /\ Underway(x)
    BY <1>1, <2>1 DEF Books
  <2>3. \A f \in Editors : Writing(f, x)' <=> Writing(f, x)
    BY <1>1 DEF Writing
  <2> QED
    BY <1>1, <1>3, <2>1, <2>2, <2>3, Untouched
<1> QED
  BY <1>5, <1>6, <1>7 DEF Inv

LEMMA SyncInsertKeeps == ASSUME Inv, SyncInsert PROVE Inv'
<1> DEFINE ty == Head(sync.todo)
           needed == NeededSplits(ty, sync.sums[ty])
<1>1. /\ sync.pc = "insert" /\ UNCHANGED <<log, deposits, edit, mixed, disturbed>>
      /\ TypeOK /\ MeantBalance /\ EditsSound /\ JobSound /\ Books
  BY DEF SyncInsert, Inv
<1>2. PICK id \in Fresh(Transactions) :
        /\ head' = Add(head, id, [at |-> sync.day * DayLength, auto |-> TRUE, name |-> ty])
        /\ rows' = Add(rows, id, <<>>)
        /\ meant' = Add(meant, id, needed)
        /\ sync' = [sync EXCEPT !.pc = "row", !.of = id, !.redo = TRUE, !.new = needed]
  BY DEF SyncInsert
<1>3. sync \in Working /\ ty \in DOMAIN AutoSplits /\ sync.sums[ty] \in Int /\ sync.day \in Nat
  <2>1. sync \in Working
    BY <1>1, WorkingOnDay
  <2>2. sync.todo # <<>> /\ sync.todo \in Seq(DOMAIN AutoSplits)
    BY <1>1, <2>1 DEF JobSound, Working
  <2>3. ty \in DOMAIN AutoSplits
    BY <2>2
  <2> QED
    BY <2>1, <2>3 DEF Working
<1>4. needed \in Seq(Line) /\ needed # <<>> /\ Total(needed) = 0
  BY <1>3, NeededBalances
<1>5. id \in Transactions /\ id \in Ids /\ id \notin DOMAIN meant /\ id \notin DOMAIN head
  <2>1. id \in Transactions /\ id \notin DOMAIN meant
    BY FreshIds
  <2> QED
    BY <1>1, <2>1 DEF TypeOK, Ids
<1>6. [at |-> sync.day * DayLength, auto |-> TRUE, name |-> ty] \in Header
  <2>1. sync.day * DayLength \in Nat
    <3>1. DayLength \in Nat
      BY FinanceConstants
    <3> QED
      BY <1>3, <3>1
  <2>2. ty \in Texts
    <3>1. ty \in {"deposit", "donate", "purchase", "refund", "socialhour", "writeoff"}
      BY <1>3 DEF AutoSplits
    <3> QED
      BY <3>1, FinanceConstants
  <2> HIDE DEF ty
  <2> QED
    BY <2>1, <2>2 DEF Header
<1> HIDE DEF ty, needed
<1>7. sync' \in Working /\ sync'.pc = "row" /\ sync'.of = id /\ sync'.new = needed /\ sync'.todo = sync.todo
  BY <1>2, <1>3, <1>4, <1>5 DEF Working
<1>8. /\ DOMAIN head' = DOMAIN head \cup {id} /\ DOMAIN meant' = DOMAIN meant \cup {id}
      /\ head' \in [DOMAIN head' -> Header] /\ rows' \in [DOMAIN head' -> Seq(Line)]
      /\ meant' \in [DOMAIN meant' -> Seq(Line)]
      /\ rows'[id] = <<>> /\ meant'[id] = needed
      /\ \A x \in DOMAIN head : rows'[x] = rows[x] /\ meant'[x] = meant[x]
      /\ \A x \in DOMAIN meant : meant'[x] = meant[x]
  <2>1. /\ head \in [DOMAIN head -> Header] /\ rows \in [DOMAIN head -> Seq(Line)]
        /\ meant \in [DOMAIN meant -> Seq(Line)] /\ DOMAIN head \subseteq DOMAIN meant
    BY <1>1 DEF TypeOK
  <2>2. <<>> \in Seq(Line)
    OBVIOUS
  <2>3. DOMAIN head' = DOMAIN head \cup {id} /\ head' \in [DOMAIN head' -> Header]
    BY <1>2, <1>6, <2>1 DEF Add
  <2>4. /\ DOMAIN meant' = DOMAIN meant \cup {id} /\ meant' \in [DOMAIN meant' -> Seq(Line)]
        /\ meant'[id] = needed /\ \A x \in DOMAIN meant : meant'[x] = meant[x]
    BY <1>2, <1>4, <1>5, <2>1 DEF Add
  <2>5. /\ rows' \in [DOMAIN head \cup {id} -> Seq(Line)]
        /\ rows'[id] = <<>> /\ \A x \in DOMAIN head : rows'[x] = rows[x]
    BY <1>2, <1>5, <2>1, <2>2 DEF Add
  <2> QED
    BY <2>1, <2>3, <2>4, <2>5
<1>9. TypeOK'
  <2>1. DOMAIN head' \subseteq DOMAIN meant' /\ DOMAIN meant' \subseteq Ids
    BY <1>1, <1>5, <1>8 DEF TypeOK
  <2> QED
    BY <1>1, <1>7, <1>8, <2>1 DEF TypeOK
<1>10. MeantBalance'
  BY <1>1, <1>4, <1>8 DEF MeantBalance
<1>11. EditsSound'
  BY <1>1, <1>8 DEF EditsSound
<1>12. JobSound'
  BY <1>1, <1>4, <1>7, <1>8 DEF JobSound
<1>13. Books'
  <2> SUFFICES ASSUME NEW x \in DOMAIN head' \ mixed' PROVE (Lone(x) /\ Underway(x))'
    BY DEF Books
  <2>1. \A f \in Editors : Writing(f, x)' <=> Writing(f, x)
    BY <1>1 DEF Writing
  <2>2. CASE x = id
    <3>1. \A f \in Editors : ~Writing(f, x)
      BY <1>1, <1>5, <2>2 DEF Writing, EditsSound
    <3>2. Written(x)'
      BY <1>7, <2>2 DEF Written
    <3>3. rows'[x] \o sync'.new = meant'[x]
      BY <1>4, <1>7, <1>8, <2>2, ConcatEmptySeq
    <3> QED
      BY <2>1, <3>1, <3>2, <3>3 DEF Lone, Underway
  <2>3. CASE x # id
    <3>1. x \in DOMAIN head \ mixed
      BY <1>1, <1>8, <2>3
    <3>2. Lone(x) /\ Underway(x) /\ rows'[x] = rows[x] /\ meant'[x] = meant[x]
      BY <1>1, <1>8, <3>1 DEF Books
    <3> QED
      BY <1>1, <1>7, <2>1, <2>3, <3>2, Untouched
  <2> QED
    BY <2>2, <2>3
<1> QED
  BY <1>9, <1>10, <1>11, <1>12, <1>13 DEF Inv

LEMMA Rest ==
  ASSUME NEW S, NEW s \in Seq(S), s # <<>>
  PROVE  Head(s) \in S /\ Tail(s) \in Seq(S) /\ (Len(s) > 1 <=> Tail(s) # <<>>)
<1>1. Head(s) \in S /\ Tail(s) \in Seq(S) /\ Len(Tail(s)) = Len(s) - 1
  BY HeadTailProperties
<1>2. Len(s) \in Nat /\ Len(s) # 0
  BY EmptySeq
<1>3. Len(Tail(s)) = 0 <=> Tail(s) = <<>>
  BY <1>1, EmptySeq
<1>4. Len(s) > 1 <=> Len(Tail(s)) # 0
  BY <1>1, <1>2
<1> QED
  BY <1>1, <1>3, <1>4

LEMMA SyncRowKeeps == ASSUME Inv, SyncRow PROVE Inv'
<1> DEFINE id == sync.of
           left == sync.new
<1>1. /\ sync.pc = "row" /\ rows' = [rows EXCEPT ![id] = Append(@, Head(left))]
      /\ UNCHANGED <<log, head, deposits, edit, meant, mixed, disturbed>>
      /\ TypeOK /\ MeantBalance /\ EditsSound /\ JobSound /\ Books
  BY DEF SyncRow, Inv
<1>2. /\ sync \in Working /\ id \in DOMAIN head /\ left \in Seq(Line) /\ left # <<>>
      /\ sync.todo # <<>> /\ sync.todo \in Seq(DOMAIN AutoSplits)
  <2>1. sync \in Working
    BY <1>1, WorkingOnDay
  <2> QED
    BY <1>1, <2>1 DEF JobSound, Working
<1>3. Tail(left) \in Seq(Line) /\ (Len(left) > 1 <=> Tail(left) # <<>>)
  <2> HIDE DEF left
  <2> QED
    BY <1>2, Rest
<1>4. Tail(sync.todo) \in Seq(DOMAIN AutoSplits) /\ <<>> \in Seq(Line)
  <2>1. Tail(sync.todo) \in Seq(DOMAIN AutoSplits)
    BY <1>2, Rest
  <2> QED
    BY <2>1
<1>5. IF Tail(left) # <<>>
      THEN sync' \in Working /\ sync'.pc = "row" /\ sync'.of = id /\ sync'.new = Tail(left) /\ sync'.todo = sync.todo
      ELSE /\ sync' \in States /\ sync'.pc \in {"match", "positive", "done", "read"}
           /\ sync'.pc = "match" => sync'.todo # <<>>
  <2>1. CASE Len(left) > 1
    <3>1. sync' = [sync EXCEPT !.new = Tail(@)]
      BY <2>1 DEF SyncRow
    <3>2. sync' \in Working /\ sync'.pc = "row" /\ sync'.of = id /\ sync'.new = Tail(left) /\ sync'.todo = sync.todo
      BY <1>1, <1>2, <1>3, <3>1 DEF Working
    <3> QED
      BY <1>3, <2>1, <3>2
  <2>2. CASE ~(Len(left) > 1)
    <3>1. sync' = Proceed([sync EXCEPT !.todo = Tail(@), !.new = <<>>])
      BY <2>2 DEF SyncRow
    <3>2. [sync EXCEPT !.todo = Tail(@), !.new = <<>>] \in Working
      BY <1>2, <1>4 DEF Working
    <3> QED
      BY <1>3, <2>2, <3>1, <3>2, ProceedType
  <2> QED
    BY <2>1, <2>2
<1>6. sync' \in States
  BY <1>5 DEF States
<1> HIDE DEF left
<1>7. /\ rows \in [DOMAIN head -> Seq(Line)] /\ rows' \in [DOMAIN head -> Seq(Line)]
      /\ \A x \in DOMAIN head : x # id => rows'[x] = rows[x]
      /\ rows'[id] = Append(rows[id], Head(left))
  <2>1. rows \in [DOMAIN head -> Seq(Line)]
    BY <1>1 DEF TypeOK
  <2>2. Append(rows[id], Head(left)) \in Seq(Line)
    BY <1>2, <2>1, OneMore
  <2> QED
    BY <1>1, <1>2, <2>1, <2>2
<1>8. TypeOK'
  BY <1>1, <1>6, <1>7 DEF TypeOK, States
<1>9. MeantBalance' /\ EditsSound'
  BY <1>1 DEF MeantBalance, EditsSound
<1>10. JobSound'
  BY <1>1, <1>2, <1>5 DEF JobSound
<1>11. Books'
  <2> SUFFICES ASSUME NEW x \in DOMAIN head \ mixed PROVE (Lone(x) /\ Underway(x))'
    BY <1>1 DEF Books
  <2>1. Lone(x) /\ Underway(x)
    BY <1>1 DEF Books
  <2>2. \A f \in Editors : Writing(f, x)' <=> Writing(f, x)
    BY <1>1 DEF Writing
  <2>3. CASE x = id
    <3>1. \A f \in Editors : ~Writing(f, x)'
      BY <1>1, <2>1, <2>2, <2>3 DEF Lone
    <3>2. rows[x] \o left = meant[x]
      BY <1>1, <2>1, <2>3 DEF Underway, left
    <3>3. /\ rows'[x] \o Tail(left) = meant'[x]
          /\ Tail(left) = <<>> => rows'[x] = meant'[x]
      <4>1. rows[x] \in Seq(Line) /\ rows'[x] = Append(rows[x], Head(left))
        BY <1>7, <2>3
      <4>2. /\ Append(rows[x], Head(left)) \o Tail(left) = rows[x] \o left
            /\ Tail(left) = <<>> => Append(rows[x], Head(left)) = rows[x] \o left
        BY <1>2, <4>1, OneMore
      <4> QED
        BY <1>1, <3>2, <4>1, <4>2
    <3>4. CASE Tail(left) = <<>>
      BY <1>5, <3>1, <3>3, <3>4 DEF Lone, Underway
    <3>5. CASE Tail(left) # <<>>
      <4>1. Written(x)'
        BY <1>5, <2>3, <3>5 DEF Written
      <4> QED
        BY <1>5, <2>3, <3>1, <3>3, <3>5, <4>1 DEF Lone, Underway
    <3> QED
      BY <3>4, <3>5
  <2>4. CASE x # id
    <3>1. rows'[x] = rows[x]
      BY <1>7, <2>4
    <3>2. ~(sync.pc = "row" /\ sync.of = x) /\ ~(sync.pc = "row" /\ sync.of = x)'
      BY <1>5, <2>4
    <3> QED
      BY <1>1, <2>1, <2>2, <3>1, <3>2, Untouched
  <2> QED
    BY <2>3, <2>4
<1> QED
  BY <1>8, <1>9, <1>10, <1>11 DEF Inv

LEMMA SyncDieKeeps == ASSUME Inv, SyncDie PROVE Inv'
<1>1. /\ sync.pc \notin {"done", "died"} /\ sync' = [pc |-> "died", runs |-> sync.runs]
      /\ mixed' = (IF sync.pc = "row" THEN mixed \cup {sync.of} ELSE mixed)
      /\ UNCHANGED <<tables, edit, meant, disturbed>>
      /\ TypeOK /\ MeantBalance /\ EditsSound /\ JobSound /\ Books
  BY DEF SyncDie, Inv
<1>2. sync' \in [pc : {"died"}, runs : Nat] /\ sync'.pc = "died"
  <2>1. sync.runs \in Nat
    BY <1>1 DEF TypeOK, Between, Working
  <2> QED
    BY <1>1, <2>1
<1>3. TypeOK'
  <2>1. DOMAIN head \subseteq Ids /\ mixed \subseteq Ids
    BY <1>1 DEF TypeOK
  <2>2. mixed' \subseteq Ids
    BY <1>1, <2>1 DEF JobSound
  <2> QED
    BY <1>1, <1>2, <2>2 DEF TypeOK, tables
<1>4. MeantBalance' /\ EditsSound' /\ JobSound'
  BY <1>1, <1>2 DEF MeantBalance, EditsSound, JobSound, tables
<1>5. Books'
  <2> SUFFICES ASSUME NEW x \in DOMAIN head \ mixed' PROVE (Lone(x) /\ Underway(x))'
    BY <1>1 DEF Books, tables
  <2>1. x \in DOMAIN head \ mixed /\ ~(sync.pc = "row" /\ sync.of = x)
    BY <1>1
  <2>2. Lone(x) /\ Underway(x)
    BY <1>1, <2>1 DEF Books
  <2>3. \A f \in Editors : Writing(f, x)' <=> Writing(f, x)
    BY <1>1 DEF Writing
  <2> QED
    BY <1>1, <1>2, <2>1, <2>2, <2>3, Untouched DEF tables
<1> QED
  BY <1>3, <1>4, <1>5 DEF Inv

(* More sales change only the log.                                           *)
LEMMA LogGrowsKeeps == ASSUME Inv, LogGrows PROVE Inv'
<1>1. PICK new \in Arrivals : log' = log \o new
  BY DEF LogGrows
<1>2. /\ disturbed' = TRUE /\ UNCHANGED <<head, rows, deposits, edit, sync, meant, mixed>>
      /\ TypeOK /\ MeantBalance /\ EditsSound /\ JobSound /\ Books
  BY DEF LogGrows, Inv
<1>3. log' \in Seq(LogRow)
  <2>1. new \in Seq(LogRow) /\ log \in Seq(LogRow)
    BY <1>2, FinanceTables DEF TypeOK
  <2> QED
    BY <1>1, <2>1
<1>4. TypeOK'
  BY <1>2, <1>3 DEF TypeOK
<1>5. MeantBalance' /\ EditsSound' /\ JobSound'
  BY <1>2 DEF MeantBalance, EditsSound, JobSound
<1>6. Books'
  <2> SUFFICES ASSUME NEW x \in DOMAIN head \ mixed PROVE (Lone(x) /\ Underway(x))'
    BY <1>2 DEF Books
  <2>1. Lone(x) /\ Underway(x)
    BY <1>2 DEF Books
  <2>2. \A f \in Editors : Writing(f, x)' <=> Writing(f, x)
    BY <1>2 DEF Writing
  <2> QED
    BY <1>2, <2>1, <2>2, Untouched
<1> QED
  BY <1>4, <1>5, <1>6 DEF Inv

LEMMA StutterKeeps == ASSUME Inv, UNCHANGED vars PROVE Inv'
<1>1. /\ UNCHANGED <<log, head, rows, deposits, edit, sync, meant, mixed, disturbed>>
      /\ TypeOK /\ MeantBalance /\ EditsSound /\ JobSound /\ Books
  BY DEF Inv, vars
<1>2. TypeOK'
  BY <1>1 DEF TypeOK
<1>3. MeantBalance' /\ EditsSound' /\ JobSound'
  BY <1>1 DEF MeantBalance, EditsSound, JobSound
<1>4. Books'
  <2> SUFFICES ASSUME NEW x \in DOMAIN head \ mixed PROVE (Lone(x) /\ Underway(x))'
    BY <1>1 DEF Books
  <2>1. Lone(x) /\ Underway(x)
    BY <1>1 DEF Books
  <2>2. \A f \in Editors : Writing(f, x)' <=> Writing(f, x)
    BY <1>1 DEF Writing
  <2> QED
    BY <1>1, <2>1, <2>2, Untouched
<1> QED
  BY <1>2, <1>3, <1>4 DEF Inv

-----------------------------------------------------------------------------
(* The transaction proposed for a cash-out is a form like any other.         *)
LEMMA GenTransactionKeeps ==
  ASSUME Inv, NEW e \in Editors, NEW c \in CashOuts, GenTransaction(e, c)
  PROVE  Inv'
<1>1. PICK id \in Fresh(Transactions) :
        EditPost(e, id, [at |-> Day(head[c].at) * DayLength, auto |-> FALSE, name |-> "Cash"], GenForm(c))
  BY DEF GenTransaction
<1>2. id \in Ids
  BY FreshIds DEF Ids
<1>3. c \in DOMAIN head /\ head[c] \in Header /\ rows[c] \in Seq(Line)
  BY DEF GenTransaction, Cashes, Inv, TypeOK
<1>4. [at |-> Day(head[c].at) * DayLength, auto |-> FALSE, name |-> "Cash"] \in Header
  <2>1. head[c].at \in Nat
    BY <1>3 DEF Header
  <2>2. DayLength \in Nat \ {0} /\ "Cash" \in Texts
    BY FinanceConstants
  <2>3. Day(head[c].at) \in Nat
    BY <2>1, <2>2 DEF Day
  <2>4. Day(head[c].at) * DayLength \in Nat
    BY <2>2, <2>3
  <2> QED
    BY <2>2, <2>4 DEF Header
<1>5. GenForm(c) \in Seq(Line)
  <2> DEFINE one(i) == [of |-> AccountOf(rows[c][i].of), amount |-> -rows[c][i].amount]
  <2>1. Len(rows[c]) \in Nat /\ DOMAIN rows[c] = 1 .. Len(rows[c])
    BY <1>3
  <2>2. \A i \in 1 .. Len(rows[c]) : one(i) \in Line
    <3> TAKE i \in 1 .. Len(rows[c])
    <3>1. rows[c][i] \in Line
      BY <1>3, ElementOfSeq
    <3>2. AccountOf(rows[c][i].of) \in {"cash", "bank", "inventory", ""}
      BY DEF AccountOf
    <3>3. {"cash", "bank", "inventory", ""} \subseteq Texts
      BY FinanceConstants
    <3>4. rows[c][i].amount \in Int
      BY <3>1 DEF Line
    <3>5. AccountOf(rows[c][i].of) \in Texts
      BY <3>2, <3>3, Zenon
    <3>6. -rows[c][i].amount \in Int
      BY <3>4
    <3> QED
      BY <3>5, <3>6 DEF Line
  <2>3. [i \in DOMAIN rows[c] |-> one(i)] \in Seq(Line)
    <3> HIDE DEF one
    <3>1. [i \in 1 .. Len(rows[c]) |-> one(i)] \in [1 .. Len(rows[c]) -> Line]
      BY <2>2
    <3> QED
      BY <2>1, <3>1, SeqDef
  <2>4. [of |-> "collected", amount |-> Total(rows[c])] \in Line
    <3>1. Total(rows[c]) \in Int /\ "collected" \in Texts
      BY <1>3, TotalType, FinanceConstants
    <3> QED
      BY <3>1 DEF Line
  <2>5. GenForm(c) = Append([i \in DOMAIN rows[c] |-> one(i)], [of |-> "collected", amount |-> Total(rows[c])])
    BY DEF GenForm
  <2> HIDE DEF one
  <2> QED
    BY <2>3, <2>4, <2>5
<1> QED
  BY <1>1, <1>2, <1>4, <1>5, EditPostKeeps

LEMMA StepKeeps == ASSUME Inv, [CashNext]_vars PROVE Inv'
<1>1. ASSUME NEW e \in Editors, NEW id \in Transactions \cup CashOuts, NEW h \in Heads(id), NEW form \in Forms(id),
             EditPost(e, id, h, form)
      PROVE  Inv'
  <2>1. id \in Ids /\ h \in Header /\ form \in Seq(Line)
    BY FinanceTables DEF Ids
  <2> QED
    BY <1>1, <2>1, EditPostKeeps
<1>2. ASSUME NEW e \in Editors, EditStep(e) PROVE Inv'
  BY <1>2, EditSaveKeeps, EditClearKeeps, EditRowKeeps, EditDieKeeps DEF EditStep
<1>3. CASE SyncStep
  BY <1>3, SyncReadKeeps, SyncListKeeps, SyncMatchKeeps, SyncDeleteKeeps, SyncInsertKeeps, SyncRowKeeps,
     SyncPositiveKeeps, SyncNegativeKeeps, SyncDieKeeps DEF SyncStep
<1>4. ASSUME NEW e \in Editors, NEW c \in CashOuts, GenTransaction(e, c) PROVE Inv'
  BY <1>4, GenTransactionKeeps
<1> QED
  BY <1>1, <1>2, <1>3, <1>4, SyncStartKeeps, LogGrowsKeeps, StutterKeeps DEF CashNext, Next

LEMMA CashInv == CashSpec => []Inv
<1>1. Init => Inv
  BY InitInv
<1>2. Inv /\ [CashNext]_vars => Inv'
  BY StepKeeps
<1> QED
  BY <1>1, <1>2, PTL DEF CashSpec

(* Whatever is typed in, generated or repaired, the tables hold headers with *)
(* their rows, and the requests and the cron job are where their code is.    *)
THEOREM TypeCorrect == CashSpec => []TypeOK
<1>1. Inv => TypeOK
  BY DEF Inv
<1> QED
  BY <1>1, CashInv, PTL

(* Once nobody writes it, a transaction or a cash-out has the rows its last  *)
(* writer meant, and a transaction's splits sum to zero, unless two writers  *)
(* of it overlapped or one of them died.                                     *)
THEOREM BooksAsMeant == CashSpec => []RowsAsMeant
<1>1. Inv => RowsAsMeant
  <2> SUFFICES ASSUME Inv, NEW id \in DOMAIN head, ~Written(id), id \notin mixed
               PROVE  rows[id] = meant[id] /\ (id \in Transactions => Total(rows[id]) = 0)
    BY DEF RowsAsMeant
  <2>1. rows[id] = meant[id]
    BY DEF Inv, Books, Underway
  <2>2. id \in DOMAIN meant
    BY DEF Inv, TypeOK
  <2> QED
    BY <2>1, <2>2 DEF Inv, MeantBalance
<1> QED
  BY <1>1, CashInv, PTL
-----------------------------------------------------------------------------
(* What a transaction books to one account.                                  *)

LEMMA OnAccountIsSum ==
  ASSUME NEW s, NEW a, Len(s) \in Nat
  PROVE  \E f : /\ IsSumTo(f, [k \in 1 .. Len(s) |-> IF s[k].of = a THEN s[k].amount ELSE 0], Len(s))
                /\ OnAccount(s, a) = f[Len(s)]
<1> DEFINE g == [k \in 1 .. Len(s) |-> IF s[k].of = a THEN s[k].amount ELSE 0]
<1>1. \A k \in 0 .. Len(s) : k # 0 => g[k] = IF s[k].of = a THEN s[k].amount ELSE 0
  OBVIOUS
<1> HIDE DEF g
<1>2. \A f : IsSumTo(f, g, Len(s))
               <=> f = [k \in 0 .. Len(s) |->
                          IF k = 0 THEN 0 ELSE f[k - 1] + (IF s[k].of = a THEN s[k].amount ELSE 0)]
  BY <1>1 DEF IsSumTo
<1>3. \E f : IsSumTo(f, g, Len(s))
  BY SumToExists
<1> QED
  BY <1>2, <1>3 DEF OnAccount, g

LEMMA OnAccountInt ==
  ASSUME NEW s \in Seq(Line), NEW a
  PROVE  OnAccount(s, a) \in Int
<1>1. Len(s) \in Nat /\ \A k \in 1 .. Len(s) : s[k].amount \in Int
  <2>1. Len(s) \in Nat /\ \A k \in 1 .. Len(s) : s[k] \in Line
    OBVIOUS
  <2> QED
    BY <2>1 DEF Line
<1> DEFINE g == [k \in 1 .. Len(s) |-> IF s[k].of = a THEN s[k].amount ELSE 0]
<1>2. PICK f : IsSumTo(f, g, Len(s)) /\ OnAccount(s, a) = f[Len(s)]
  BY <1>1, OnAccountIsSum
<1>3. \A k \in 1 .. Len(s) : g[k] \in Int
  BY <1>1
<1> HIDE DEF g
<1> QED
  BY <1>1, <1>2, <1>3, SumToInt

(* A single split on the account books its amount.                           *)
OnlyAt(s, a, p) == p \in 1 .. Len(s) /\ s[p].of = a /\ \A k \in 1 .. Len(s) : s[k].of = a => k = p
LEMMA OnAccountOfOne ==
  ASSUME NEW s \in Seq(Line), NEW a, NEW p, OnlyAt(s, a, p)
  PROVE  OnAccount(s, a) = s[p].amount
<1> DEFINE g == [k \in 1 .. Len(s) |-> IF s[k].of = a THEN s[k].amount ELSE 0]
<1>1. Len(s) \in Nat /\ p \in 1 .. Len(s) /\ s[p].amount \in Int
  <2>1. Len(s) \in Nat /\ p \in 1 .. Len(s)
    BY DEF OnlyAt
  <2>2. s[p] \in Line
    BY <2>1, ElementOfSeq
  <2> QED
    BY <2>1, <2>2 DEF Line
<1>2. PICK f : IsSumTo(f, g, Len(s)) /\ OnAccount(s, a) = f[Len(s)]
  BY <1>1, OnAccountIsSum
<1>3. \A k \in 1 .. Len(s) : g[k] = IF k = p THEN s[p].amount ELSE 0
  BY DEF OnlyAt
<1> HIDE DEF g
<1> DEFINE N == {m \in Nat : m <= Len(s) => f[m] = IF m < p THEN 0 ELSE s[p].amount}
<1>4. 0 \in N
  BY <1>1, <1>2, SumToAt
<1>5. ASSUME NEW m \in N PROVE m + 1 \in N
  <2>1. CASE m + 1 <= Len(s)
    <3>1. m \in Nat /\ m + 1 \in 0 .. Len(s) /\ m + 1 \in 1 .. Len(s) /\ m + 1 # 0 /\ (m + 1) - 1 = m
          /\ f[m] = IF m < p THEN 0 ELSE s[p].amount
      BY <1>1, <2>1
    <3>2. f[m + 1] = f[m] + g[m + 1]
      <4> HIDE DEF N
      <4> QED
        BY <1>1, <1>2, <3>1, SumToAt
    <3>3. g[m + 1] = IF m + 1 = p THEN s[p].amount ELSE 0
      BY <1>3, <3>1
    <3>4. f[m + 1] = IF m + 1 < p THEN 0 ELSE s[p].amount
      BY <1>1, <3>1, <3>2, <3>3
    <3> QED
      BY <3>1, <3>4
  <2> QED
    BY <2>1
<1> HIDE DEF N
<1>6. N = Nat
  BY <1>4, <1>5, FromZero DEF N
<1>7. Len(s) \in N
  BY <1>1, <1>6
<1> QED
  BY <1>1, <1>2, <1>7 DEF N

(* The automatic splits have one on "deposits"; the rows of a transaction    *)
(* that match them book the same there.                                      *)
At(ty) == IF ty \in {"deposit", "writeoff"} THEN 2 ELSE 1
Signed(ty, amount) == IF ty \in {"deposit", "writeoff"} THEN -amount ELSE amount
Apart(s) == \A i, j \in 1 .. Len(s) : s[i].of = s[j].of => i = j
LEMMA NeededShape ==
  ASSUME NEW ty \in DOMAIN AutoSplits, NEW amount \in Int
  PROVE  LET s == NeededSplits(ty, amount)
         IN  /\ s \in Seq(Line) /\ Len(s) \in {2, 4}
             /\ Apart(s)
             /\ At(ty) \in 1 .. Len(s) /\ s[At(ty)].of = "deposits" /\ s[At(ty)].amount = Signed(ty, amount)
<1> DEFINE s == NeededSplits(ty, amount)
<1>1. s \in Seq(Line)
  BY NeededBalances
<1>2. CASE ty = "deposit"
  <2>1. AutoSplits[ty] = << <<1, "cash">>, <<-1, "deposits">> >>
    BY <1>2 DEF AutoSplits
  <2>2. s = [i \in 1 .. 2 |-> [of |-> AutoSplits[ty][i][2], amount |-> AutoSplits[ty][i][1] * amount]]
    BY <2>1 DEF NeededSplits
  <2>3. /\ s[1] = [of |-> "cash", amount |-> amount] /\ s[2] = [of |-> "deposits", amount |-> -amount]
        /\ Len(s) = 2
    BY <1>1, <2>1, <2>2
  <2> QED
    BY <1>1, <1>2, <2>3 DEF At, Signed, Apart
<1>3. CASE ty = "writeoff"
  <2>1. AutoSplits[ty] = << <<1, "writeoff">>, <<-1, "deposits">> >>
    BY <1>3 DEF AutoSplits
  <2>2. s = [i \in 1 .. 2 |-> [of |-> AutoSplits[ty][i][2], amount |-> AutoSplits[ty][i][1] * amount]]
    BY <2>1 DEF NeededSplits
  <2>3. /\ s[1] = [of |-> "writeoff", amount |-> amount] /\ s[2] = [of |-> "deposits", amount |-> -amount]
        /\ Len(s) = 2
    BY <1>1, <2>1, <2>2
  <2> QED
    BY <1>1, <1>3, <2>3 DEF At, Signed, Apart
<1>4. CASE ty \in {"donate", "purchase", "refund"}
  <2>1. PICK a \in {"donations", "purchases", "cash"} : AutoSplits[ty] = << <<1, "deposits">>, <<-1, a>> >>
    BY <1>4 DEF AutoSplits
  <2>2. s = [i \in 1 .. 2 |-> [of |-> AutoSplits[ty][i][2], amount |-> AutoSplits[ty][i][1] * amount]]
    BY <2>1 DEF NeededSplits
  <2>3. /\ s[1] = [of |-> "deposits", amount |-> amount] /\ s[2] = [of |-> a, amount |-> -amount]
        /\ Len(s) = 2
    BY <1>1, <2>1, <2>2
  <2> QED
    BY <1>1, <1>4, <2>3 DEF At, Signed, Apart
<1>5. CASE ty = "socialhour"
  <2>1. AutoSplits[ty] = << <<1, "deposits">>, <<-1, "socialDonations">>,
                            <<1, "socialRestricted">>, <<-1, "bank">> >>
    BY <1>5 DEF AutoSplits
  <2>2. s = [i \in 1 .. 4 |-> [of |-> AutoSplits[ty][i][2], amount |-> AutoSplits[ty][i][1] * amount]]
    BY <2>1 DEF NeededSplits
  <2>3. /\ s[1] = [of |-> "deposits", amount |-> amount] /\ s[2] = [of |-> "socialDonations", amount |-> -amount]
        /\ s[3] = [of |-> "socialRestricted", amount |-> amount] /\ s[4] = [of |-> "bank", amount |-> -amount]
        /\ Len(s) = 4
    BY <1>1, <2>1, <2>2
  <2>4. \A i, j \in 1 .. Len(s) : s[i].of = s[j].of => i = j
    <3>1. 1 .. Len(s) = {1, 2, 3, 4}
      BY <2>3
    <3> HIDE DEF s
    <3> QED
      BY <2>3, <3>1
  <2> QED
    BY <1>1, <1>5, <2>3, <2>4 DEF At, Signed, Apart
<1>6. ty \in {"deposit", "donate", "purchase", "refund", "socialhour", "writeoff"}
  BY DEF AutoSplits
<1> QED
  BY <1>2, <1>3, <1>4, <1>5, <1>6

LEMMA NeededOnAccount ==
  ASSUME NEW ty \in DOMAIN AutoSplits, NEW amount \in Int
  PROVE  OnAccount(NeededSplits(ty, amount), "deposits") = Signed(ty, amount)
<1>1. PICK s : s = NeededSplits(ty, amount)
  OBVIOUS
<1>2. s \in Seq(Line) /\ OnlyAt(s, "deposits", At(ty)) /\ s[At(ty)].amount = Signed(ty, amount)
  BY <1>1, NeededShape DEF OnlyAt, Apart
<1> QED
  BY <1>1, <1>2, OnAccountOfOne

(* As many rows as distinct ones are needed, and the same ones: no row twice.*)
LEMMA SameRows ==
  ASSUME NEW s \in Seq(Line), NEW n \in Seq(Line), Len(n) \in {2, 4}, Len(s) = Len(n), ToSet(s) = ToSet(n),
         Apart(n), NEW p \in 1 .. Len(n)
  PROVE  \E q : s[q] = n[p] /\ OnlyAt(s, n[p].of, q)
<1>1. /\ \A i \in 1 .. Len(s) : \E j \in 1 .. Len(n) : s[i] = n[j]
      /\ \A j \in 1 .. Len(n) : \E i \in 1 .. Len(s) : s[i] = n[j]
  <2>1. DOMAIN s = 1 .. Len(s) /\ DOMAIN n = 1 .. Len(n)
    OBVIOUS
  <2>2. {s[i] : i \in 1 .. Len(s)} = {n[i] : i \in 1 .. Len(n)}
    BY <2>1 DEF ToSet
  <2>3. ASSUME NEW i \in 1 .. Len(s) PROVE \E j \in 1 .. Len(n) : s[i] = n[j]
    <3>1. s[i] \in {s[k] : k \in 1 .. Len(s)}
      OBVIOUS
    <3>2. s[i] \in {n[k] : k \in 1 .. Len(n)}
      BY <2>2, <3>1
    <3> QED
      BY <3>2
  <2>4. ASSUME NEW j \in 1 .. Len(n) PROVE \E i \in 1 .. Len(s) : s[i] = n[j]
    <3>1. n[j] \in {n[k] : k \in 1 .. Len(n)}
      OBVIOUS
    <3>2. n[j] \in {s[k] : k \in 1 .. Len(s)}
      BY <2>2, <3>1
    <3> QED
      BY <3>2
  <2> QED
    BY <2>3, <2>4
<1>2. PICK q \in 1 .. Len(s) : s[q] = n[p]
  BY <1>1
<1>3. ASSUME NEW k \in 1 .. Len(s), s[k].of = n[p].of, k # q PROVE FALSE
  <2>1. s[k] = n[p]
    <3>1. PICK j \in 1 .. Len(n) : s[k] = n[j]
      BY <1>1
    <3>2. j = p
      BY <1>3, <3>1 DEF Apart
    <3> QED
      BY <3>1, <3>2
  <2>2. CASE Len(n) = 2
    <3>1. PICK r \in {1, 2} : r # p
      BY <2>2
    <3>2. PICK i \in {1, 2} : s[i] = n[r]
      BY <1>1, <2>2, <3>1
    <3>3. n[r].of # n[p].of
      BY <2>2, <3>1 DEF Apart
    <3> QED
      BY <1>2, <1>3, <2>1, <2>2, <3>2, <3>3
  <2>3. CASE Len(n) = 4
    <3>1. PICK a, b, c \in 1 .. 4 : a # b /\ a # c /\ b # c /\ p \notin {a, b, c}
      <4>1. CASE p = 1
        BY <4>1
      <4>2. CASE p = 2
        BY <4>2
      <4>3. CASE p = 3
        BY <4>3
      <4>4. CASE p = 4
        BY <4>4
      <4> QED
        BY <2>3, <4>1, <4>2, <4>3, <4>4
    <3>2. PICK x, y, z \in 1 .. 4 : s[x] = n[a] /\ s[y] = n[b] /\ s[z] = n[c]
      BY <1>1, <2>3
    <3>3. n[a] # n[b] /\ n[a] # n[c] /\ n[b] # n[c] /\ n[p] # n[a] /\ n[p] # n[b] /\ n[p] # n[c]
      BY <2>3, <3>1 DEF Apart
    <3>4. x # y /\ x # z /\ y # z /\ q \notin {x, y, z} /\ k \notin {x, y, z}
      BY <1>2, <2>1, <3>2, <3>3
    <3> QED
      BY <1>3, <2>3, <3>4
  <2> QED
    BY <2>2, <2>3
<1> QED
  BY <1>2, <1>3 DEF OnlyAt

LEMMA MatchedOnAccount ==
  ASSUME NEW s \in Seq(Line), NEW ty \in DOMAIN AutoSplits, NEW amount \in Int,
         Len(s) = Len(NeededSplits(ty, amount)), ToSet(s) = ToSet(NeededSplits(ty, amount))
  PROVE  OnAccount(s, "deposits") = Signed(ty, amount)
<1>1. PICK n : n = NeededSplits(ty, amount)
  OBVIOUS
<1>2. /\ n \in Seq(Line) /\ Len(n) \in {2, 4}
      /\ Apart(n)
      /\ At(ty) \in 1 .. Len(n) /\ n[At(ty)].of = "deposits" /\ n[At(ty)].amount = Signed(ty, amount)
  BY <1>1, NeededShape
<1>3. PICK p : p = At(ty)
  OBVIOUS
<1>4. PICK q : s[q] = n[p] /\ OnlyAt(s, n[p].of, q)
  BY <1>1, <1>2, <1>3, SameRows
<1> QED
  BY <1>2, <1>3, <1>4, OnAccountOfOne

-----------------------------------------------------------------------------
(* The sums over the log, the customers and the books, as sums.              *)

Amounts == [i \in DOMAIN log |-> log[i].amount]
LEMMA LogFinite ==
  ASSUME log \in Seq(LogRow), NEW I \in SUBSET (DOMAIN log)
  PROVE  IsFiniteSet(I) /\ IntegersOn(Amounts, I)
<1>1. IsFiniteSet(I)
  <2>1. Len(log) \in Nat /\ DOMAIN log = 1 .. Len(log)
    OBVIOUS
  <2>2. IsFiniteSet(1 .. Len(log))
    BY <2>1, FS_Interval, 1 \in Int, Len(log) \in Int, Zenon
  <2> QED
    BY <2>1, <2>2, FS_Subset
<1>2. \A i \in I : Amounts[i] \in Int
  <2> TAKE i \in I
  <2>1. log[i] \in LogRow
    OBVIOUS
  <2> QED
    BY <2>1 DEF LogRow, Amounts
<1> QED
  BY <1>1, <1>2 DEF IntegersOn

LEMMA LogSumIs ==
  ASSUME log \in Seq(LogRow), NEW I \in SUBSET (DOMAIN log)
  PROVE  LogSum(I) = SumOf(I, Amounts)
<1> DEFINE g == [i \in I |-> log[i].amount]
           Eq(F) == F = [T \in SUBSET I |-> IF T = {} THEN 0
                                            ELSE LET x == CHOOSE x \in T : TRUE
                                                 IN  log[x].amount + F[T \ {x}]]
           F == CHOOSE F : Eq(F)
<1>1. IsFiniteSet(I)
  BY LogFinite
<1>2. \A i \in I : g[i] = log[i].amount /\ g[i] = Amounts[i]
  BY DEF Amounts
<1>3. ASSUME NEW G PROVE Eq(G) <=> IsSumOn(G, g, I)
  <2>1. \A T \in SUBSET I : T # {} => g[Chosen(T)] = log[Chosen(T)].amount
    BY <1>2, ChosenIn
  <2> HIDE DEF g
  <2> QED
    BY <2>1, ZenonT(60) DEF IsSumOn, Chosen
<1>4. IsSumOn(F, g, I)
  <2> HIDE DEF g, Eq
  <2>1. \E G : IsSumOn(G, g, I)
    BY <1>1, SumOnExists
  <2>2. \E G : Eq(G)
    BY <2>1, <1>3
  <2>3. Eq(F)
    BY <2>2
  <2> HIDE DEF F
  <2> QED
    BY <2>3, <1>3
<1>5. LogSum(I) = F[I]
  BY DEF LogSum, SumOver
<1>6. \A i \in I : g[i] = Amounts[i]
  BY <1>2
<1> HIDE DEF F, g
<1>7. F[I] = SumOf(I, Amounts)
  BY <1>1, <1>4, <1>6, SumOfIs, I \in SUBSET I
<1> QED
  BY <1>5, <1>7

(* What sync_day sums for a type of sale.                                    *)
Factor(i) == Category[log[i].type][2]
SaleAmounts == [i \in DOMAIN log |-> Factor(i) * log[i].amount]
SalesOf(day, ty) == {i \in LogOf(day) : log[i].type \in DOMAIN Category /\ Category[log[i].type][1] = ty}
LEMMA SumsIs ==
  ASSUME log \in Seq(LogRow), NEW day, NEW ty \in DOMAIN AutoSplits
  PROVE  Sums(day)[ty] = SumOf(SalesOf(day, ty), SaleAmounts)
<1> DEFINE S == SalesOf(day, ty)
           Of(i) == Category[log[i].type][2] * log[i].amount
           g == [i \in S |-> Of(i)]
           Eq(F) == F = [T \in SUBSET S |-> IF T = {} THEN 0
                                            ELSE LET x == CHOOSE x \in T : TRUE IN Of(x) + F[T \ {x}]]
           F == CHOOSE F : Eq(F)
<1>0. S \in SUBSET DOMAIN log
  BY DEF SalesOf, LogOf
<1>1. IsFiniteSet(S)
  BY <1>0, LogFinite
<1>2. \A i \in S : g[i] = SaleAmounts[i]
  BY <1>0 DEF SaleAmounts, Factor
<1>3. ASSUME NEW G PROVE Eq(G) <=> IsSumOn(G, g, S)
  <2> HIDE DEF Of, S
  <2>1. \A T \in SUBSET S : T # {} => g[Chosen(T)] = Of(Chosen(T))
    BY ChosenIn
  <2> HIDE DEF g
  <2> QED
    BY <2>1, ZenonT(60) DEF IsSumOn, Chosen
<1>4. IsSumOn(F, g, S)
  <2> HIDE DEF S, g
  <2> HIDE DEF g, Eq
  <2>1. \E G : IsSumOn(G, g, S)
    BY <1>1, SumOnExists
  <2>2. \E G : Eq(G)
    BY <2>1, <1>3
  <2>3. Eq(F)
    BY <2>2
  <2> HIDE DEF F
  <2> QED
    BY <2>3, <1>3
<1>5. Sums(day)[ty] = F[S]
  BY DEF Sums, SumOver, SalesOf
<1> HIDE DEF F, g, S, Of
<1>6. Sums(day)[ty] = SumOf(S, SaleAmounts)
  BY <1>1, <1>2, <1>4, <1>5, SumOfIs, S \in SUBSET S
<1> QED
  BY <1>6 DEF S

(* What all of some customers have.                                          *)
BalancesOn(day) == [u \in Users |-> UserBalance(u, day)]
LEMMA BalancesAre ==
  ASSUME log \in Seq(LogRow), NEW day, NEW S \in SUBSET Users
  PROVE  IsFiniteSet(S) /\ IntegersOn(BalancesOn(day), S)
<1>1. IsFiniteSet(S)
  BY FinanceConstants, FS_Subset
<1>2. \A u \in S : UserBalance(u, day) \in Int
  <2> TAKE u \in S
  <2>1. {i \in LogUntil(day) : log[i].user = u} \in SUBSET (DOMAIN log)
    BY DEF LogUntil
  <2> QED
    BY <2>1, LogSumType DEF UserBalance
<1> QED
  BY <1>1, <1>2 DEF IntegersOn, BalancesOn

LEMMA OwedIs ==
  ASSUME log \in Seq(LogRow), NEW day, NEW S \in SUBSET Users
  PROVE  Owed(S, day) = SumOf(S, BalancesOn(day))
<1> DEFINE g == [u \in S |-> UserBalance(u, day)]
           Eq(F) == F = [T \in SUBSET S |-> IF T = {} THEN 0
                                            ELSE LET x == CHOOSE x \in T : TRUE
                                                 IN  UserBalance(x, day) + F[T \ {x}]]
           F == CHOOSE F : Eq(F)
<1>1. IsFiniteSet(S)
  BY BalancesAre
<1>2. \A u \in S : g[u] = UserBalance(u, day) /\ g[u] = BalancesOn(day)[u]
  BY DEF BalancesOn
<1>3. ASSUME NEW G PROVE Eq(G) <=> IsSumOn(G, g, S)
  <2>1. \A T \in SUBSET S : T # {} => g[Chosen(T)] = UserBalance(Chosen(T), day)
    BY <1>2, ChosenIn
  <2> HIDE DEF g
  <2> QED
    BY <2>1, ZenonT(60) DEF IsSumOn, Chosen
<1>4. IsSumOn(F, g, S)
  <2> HIDE DEF g, Eq
  <2>1. \E G : IsSumOn(G, g, S)
    BY <1>1, SumOnExists
  <2>2. \E G : Eq(G)
    BY <2>1, <1>3
  <2>3. Eq(F)
    BY <2>2
  <2> HIDE DEF F
  <2> QED
    BY <2>3, <1>3
<1>5. Owed(S, day) = F[S]
  BY DEF Owed, SumOver
<1> HIDE DEF F, g
<1> QED
  BY <1>1, <1>2, <1>4, <1>5, SumOfIs, S \in SUBSET S

(* What the automatic transactions of some days book to "deposits".          *)
Posted == [t \in DOMAIN head |-> OnAccount(rows[t], "deposits")]
BooksFinite == IsFiniteSet(DOMAIN head)
AutosIn(D) == {t \in Txs : head[t].auto /\ Day(head[t].at) \in D}
LEMMA AutosAre ==
  ASSUME BooksFinite, rows \in [DOMAIN head -> Seq(Line)], NEW D
  PROVE  IsFiniteSet(AutosIn(D)) /\ IntegersOn(Posted, AutosIn(D)) /\ AutosIn(D) \subseteq DOMAIN head
<1>1. AutosIn(D) \subseteq DOMAIN head
  BY DEF AutosIn, Txs
<1>2. IsFiniteSet(AutosIn(D))
  BY <1>1, FS_Subset DEF BooksFinite
<1>3. \A t \in DOMAIN head : Posted[t] \in Int
  BY OnAccountInt DEF Posted
<1> QED
  BY <1>1, <1>2, <1>3 DEF IntegersOn

LEMMA AutoOwedIs ==
  ASSUME BooksFinite, NEW day
  PROVE  AutoOwed(day) = -SumOf(AutosIn(Min(Days) .. day), Posted)
<1> DEFINE S == AutosIn(Min(Days) .. day)
           Of(t) == OnAccount(rows[t], "deposits")
           g == [t \in S |-> Of(t)]
           Eq(F) == F = [T \in SUBSET S |-> IF T = {} THEN 0
                                            ELSE LET x == CHOOSE x \in T : TRUE IN Of(x) + F[T \ {x}]]
           F == CHOOSE F : Eq(F)
<1>0. S \subseteq DOMAIN head
  BY DEF AutosIn, Txs
<1>1. IsFiniteSet(S)
  BY <1>0, FS_Subset DEF BooksFinite
<1>2. \A t \in S : g[t] = Posted[t]
  BY <1>0 DEF Posted
<1>3. ASSUME NEW G PROVE Eq(G) <=> IsSumOn(G, g, S)
  <2> HIDE DEF Of, S
  <2>1. \A T \in SUBSET S : T # {} => g[Chosen(T)] = Of(Chosen(T))
    BY ChosenIn
  <2> HIDE DEF g
  <2> QED
    BY <2>1, ZenonT(60) DEF IsSumOn, Chosen
<1>4. IsSumOn(F, g, S)
  <2> HIDE DEF S, g
  <2> HIDE DEF g, Eq
  <2>1. \E G : IsSumOn(G, g, S)
    BY <1>1, SumOnExists
  <2>2. \E G : Eq(G)
    BY <2>1, <1>3
  <2>3. Eq(F)
    BY <2>2
  <2> HIDE DEF F
  <2> QED
    BY <2>3, <1>3
<1>5. AutoOwed(day) = -F[S]
  BY DEF AutoOwed, SumOver, AutosIn
<1> HIDE DEF F, g, S, Of
<1>6. AutoOwed(day) = -SumOf(S, Posted)
  BY <1>1, <1>2, <1>4, <1>5, SumOfIs, S \in SUBSET S
<1> QED
  BY <1>6 DEF S

-----------------------------------------------------------------------------
(* What a day adds.                                                          *)

LEMMA DayType ==
  ASSUME log \in Seq(LogRow), NEW i \in DOMAIN log
  PROVE  Day(log[i].at) \in Nat
<1>1. log[i] \in LogRow
  OBVIOUS
<1>2. log[i].at \in Nat
  BY <1>1 DEF LogRow
<1>3. DayLength \in Nat \ {0}
  BY FinanceConstants
<1> QED
  BY <1>2, <1>3 DEF Day

LEMMA LogSplits ==
  ASSUME log \in Seq(LogRow), NEW S \in SUBSET DOMAIN log, NEW T \in SUBSET DOMAIN log, NEW U, Splits(U, S, T)
  PROVE  LogSum(S) \in Int /\ LogSum(T) \in Int /\ LogSum(U) = LogSum(S) + LogSum(T)
<1>1. U \in SUBSET DOMAIN log
  BY DEF Splits
<1>2. /\ IsFiniteSet(S) /\ IsFiniteSet(T) /\ IntegersOn(Amounts, U)
      /\ LogSum(S) = SumOf(S, Amounts) /\ LogSum(T) = SumOf(T, Amounts) /\ LogSum(U) = SumOf(U, Amounts)
  BY <1>1, LogFinite, LogSumIs
<1>3. SumOf(U, Amounts) = SumOf(S, Amounts) + SumOf(T, Amounts)
  BY <1>2, SumOfUnion
<1> QED
  BY <1>2, <1>3, LogSumType

TypesOn(day, Ts) == {i \in LogOf(day) : log[i].type \in Ts}
UnknownOn(day) == {i \in LogOf(day) : log[i].type \notin DOMAIN Category}
UnbookedOn(day) == LogSum(UnknownOn(day)) + 2 * LogSum(TypesOn(day, {"WITHDRAW"}))
LEMMA DayAdds ==
  ASSUME log \in Seq(LogRow), NEW day \in Int
  PROVE  /\ LogSum(LogUntil(day)) = LogSum(LogUntil(day - 1)) + LogSum(LogOf(day))
         /\ Unbooked(day) = Unbooked(day - 1) + UnbookedOn(day)
         /\ LogSum(LogUntil(day - 1)) \in Int /\ LogSum(LogOf(day)) \in Int
         /\ Unbooked(day - 1) \in Int /\ UnbookedOn(day) \in Int
<1>1. \A i \in DOMAIN log : Day(log[i].at) \in Nat
  BY DayType
<1>2. \A i \in DOMAIN log : Day(log[i].at) <= day <=> Day(log[i].at) <= day - 1 \/ Day(log[i].at) = day
  BY <1>1
<1>3. \A i \in DOMAIN log : ~(Day(log[i].at) <= day - 1 /\ Day(log[i].at) = day)
  BY <1>1
<1> DEFINE A(d) == {i \in LogUntil(d) : log[i].type \notin DOMAIN Category}
           B(d) == {i \in LogUntil(d) : log[i].type = "WITHDRAW"}
<1>4. /\ LogUntil(day - 1) \in SUBSET DOMAIN log /\ LogOf(day) \in SUBSET DOMAIN log
      /\ A(day - 1) \in SUBSET DOMAIN log /\ UnknownOn(day) \in SUBSET DOMAIN log
      /\ B(day - 1) \in SUBSET DOMAIN log /\ TypesOn(day, {"WITHDRAW"}) \in SUBSET DOMAIN log
  BY DEF LogUntil, LogOf, UnknownOn, TypesOn
<1>5. Splits(LogUntil(day), LogUntil(day - 1), LogOf(day))
  BY <1>2, <1>3 DEF LogUntil, LogOf, Splits
<1>6. Splits(A(day), A(day - 1), UnknownOn(day))
  BY <1>2, <1>3 DEF LogUntil, LogOf, Splits, UnknownOn
<1>7. Splits(B(day), B(day - 1), TypesOn(day, {"WITHDRAW"}))
  BY <1>2, <1>3 DEF LogUntil, LogOf, Splits, TypesOn
<1>8. \A d : Unbooked(d) = LogSum(A(d)) + 2 * LogSum(B(d))
  BY DEF Unbooked
<1> HIDE DEF A, B
<1>9. /\ LogSum(LogUntil(day)) = LogSum(LogUntil(day - 1)) + LogSum(LogOf(day))
      /\ LogSum(LogUntil(day - 1)) \in Int /\ LogSum(LogOf(day)) \in Int
  BY <1>4, <1>5, LogSplits
<1>10. /\ LogSum(A(day)) = LogSum(A(day - 1)) + LogSum(UnknownOn(day))
       /\ LogSum(A(day - 1)) \in Int /\ LogSum(UnknownOn(day)) \in Int
  BY <1>4, <1>6, LogSplits
<1>11. /\ LogSum(B(day)) = LogSum(B(day - 1)) + LogSum(TypesOn(day, {"WITHDRAW"}))
       /\ LogSum(B(day - 1)) \in Int /\ LogSum(TypesOn(day, {"WITHDRAW"})) \in Int
  BY <1>4, <1>7, LogSplits
<1>12. PICK a, b : a = LogSum(A(day - 1)) /\ b = LogSum(B(day - 1))
  OBVIOUS
<1>13. PICK x, y : x = LogSum(UnknownOn(day)) /\ y = LogSum(TypesOn(day, {"WITHDRAW"}))
  OBVIOUS
<1>14. a \in Int /\ b \in Int /\ x \in Int /\ y \in Int
  BY <1>10, <1>11, <1>12, <1>13
<1>15. Unbooked(day - 1) = a + 2 * b
  BY <1>8, <1>12
<1>16. UnbookedOn(day) = x + 2 * y
  BY <1>13 DEF UnbookedOn
<1>17. Unbooked(day) = (a + x) + 2 * (b + y)
  BY <1>8, <1>10, <1>11, <1>12, <1>13
<1>18. Unbooked(day) = Unbooked(day - 1) + UnbookedOn(day) /\ Unbooked(day - 1) \in Int /\ UnbookedOn(day) \in Int
  BY ONLY <1>14, <1>15, <1>16, <1>17
<1> QED
  BY <1>9, <1>18

(* The rows of a day, type by type.                                          *)
OfType(day, T) == LogSum(TypesOn(day, {T}))
LEMMA OfTypeInt ==
  ASSUME log \in Seq(LogRow), NEW day
  PROVE  LogSum(UnknownOn(day)) \in Int /\ \A T : OfType(day, T) \in Int
<1>1. UnknownOn(day) \in SUBSET DOMAIN log /\ \A T : TypesOn(day, {T}) \in SUBSET DOMAIN log
  BY DEF TypesOn, LogOf, UnknownOn
<1> QED
  BY <1>1, LogSumType DEF OfType

LEMMA OneMoreType ==
  ASSUME log \in Seq(LogRow), NEW day, NEW Ts, NEW T, T \notin Ts, NEW U, U = Ts \cup {T}
  PROVE  /\ LogSum(TypesOn(day, Ts)) \in Int /\ OfType(day, T) \in Int
         /\ LogSum(TypesOn(day, U)) = LogSum(TypesOn(day, Ts)) + OfType(day, T)
<1>1. TypesOn(day, Ts) \in SUBSET DOMAIN log /\ TypesOn(day, {T}) \in SUBSET DOMAIN log
  BY DEF TypesOn, LogOf
<1>2. Splits(TypesOn(day, U), TypesOn(day, Ts), TypesOn(day, {T}))
  BY DEF TypesOn, Splits
<1> QED
  BY <1>1, <1>2, LogSplits DEF OfType

LEMMA DayByTypes ==
  ASSUME log \in Seq(LogRow), NEW day
  PROVE  LogSum(LogOf(day)) = LogSum(UnknownOn(day)) + OfType(day, "ADD") + OfType(day, "BUY")
              + OfType(day, "DONATION") + OfType(day, "SOCIAL") + OfType(day, "WRITEOFF")
              + OfType(day, "REFUND") + OfType(day, "WITHDRAW")
<1> DEFINE L(Ts) == LogSum(TypesOn(day, Ts))
<1>1. PICK A : A = {"ADD"}
  OBVIOUS
<1>2. PICK B : B = A \cup {"BUY"}
  OBVIOUS
<1>3. PICK C : C = B \cup {"DONATION"}
  OBVIOUS
<1>4. PICK D : D = C \cup {"SOCIAL"}
  OBVIOUS
<1>5. PICK E : E = D \cup {"WRITEOFF"}
  OBVIOUS
<1>6. PICK F : F = E \cup {"REFUND"}
  OBVIOUS
<1>7. PICK G : G = F \cup {"WITHDRAW"}
  OBVIOUS
<1>8. /\ "BUY" \notin A /\ "DONATION" \notin B /\ "SOCIAL" \notin C /\ "WRITEOFF" \notin D
      /\ "REFUND" \notin E /\ "WITHDRAW" \notin F /\ G = DOMAIN Category
  BY <1>1, <1>2, <1>3, <1>4, <1>5, <1>6, <1>7 DEF Category
<1>9. L(B) = L(A) + OfType(day, "BUY")
  BY <1>2, <1>8, OneMoreType
<1>10. L(C) = L(B) + OfType(day, "DONATION")
  BY <1>3, <1>8, OneMoreType
<1>11. L(D) = L(C) + OfType(day, "SOCIAL")
  BY <1>4, <1>8, OneMoreType
<1>12. L(E) = L(D) + OfType(day, "WRITEOFF")
  BY <1>5, <1>8, OneMoreType
<1>13. L(F) = L(E) + OfType(day, "REFUND")
  BY <1>6, <1>8, OneMoreType
<1>14. L(G) = L(F) + OfType(day, "WITHDRAW")
  BY <1>7, <1>8, OneMoreType
<1>15. L(A) = OfType(day, "ADD")
  BY <1>1 DEF OfType
<1>16. LogSum(LogOf(day)) = LogSum(UnknownOn(day)) + L(G)
  <2>1. Splits(LogOf(day), UnknownOn(day), TypesOn(day, DOMAIN Category))
    BY DEF Splits, UnknownOn, TypesOn
  <2>2. UnknownOn(day) \in SUBSET DOMAIN log /\ TypesOn(day, DOMAIN Category) \in SUBSET DOMAIN log
    BY DEF UnknownOn, TypesOn, LogOf
  <2> QED
    BY <1>8, <2>1, <2>2, LogSplits
<1>17. PICK u, a, b, d, s, w, r, x \in Int :
         /\ u = LogSum(UnknownOn(day)) /\ a = OfType(day, "ADD") /\ b = OfType(day, "BUY")
         /\ d = OfType(day, "DONATION") /\ s = OfType(day, "SOCIAL") /\ w = OfType(day, "WRITEOFF")
         /\ r = OfType(day, "REFUND") /\ x = OfType(day, "WITHDRAW")
  BY OfTypeInt
<1> HIDE DEF L
<1>18. LogSum(LogOf(day)) = u + ((((((a + b) + d) + s) + w) + r) + x)
  BY ONLY <1>9, <1>10, <1>11, <1>12, <1>13, <1>14, <1>15, <1>16, <1>17
<1>19. LogSum(LogOf(day)) = u + a + b + d + s + w + r + x
  BY ONLY <1>17, <1>18
<1> QED
  BY <1>17, <1>19

LEMMA SoldOf ==
  ASSUME log \in Seq(LogRow), NEW day, NEW T \in DOMAIN Category, Category[T][2] \in {1, -1}
  PROVE  SumOf(TypesOn(day, {T}), SaleAmounts) = Category[T][2] * OfType(day, T)
<1> DEFINE S == TypesOn(day, {T})
<1>1. S \in SUBSET DOMAIN log
  BY DEF TypesOn, LogOf
<1>2. IsFiniteSet(S) /\ IntegersOn(Amounts, S) /\ LogSum(S) = SumOf(S, Amounts) /\ LogSum(S) \in Int
  BY <1>1, LogFinite, LogSumIs, LogSumType
<1>3. \A i \in S : SaleAmounts[i] = Category[T][2] * Amounts[i] /\ Amounts[i] \in Int
  <2> TAKE i \in S
  <2>1. SaleAmounts[i] = Category[log[i].type][2] * log[i].amount /\ Amounts[i] = log[i].amount
    BY <1>1 DEF SaleAmounts, Amounts, Factor
  <2>2. log[i].type = T
    BY DEF TypesOn
  <2>3. Amounts[i] \in Int
    BY <1>2 DEF IntegersOn
  <2> QED
    BY <2>1, <2>2, <2>3
<1> HIDE DEF S
<1>4. CASE Category[T][2] = 1
  <2>1. \A i \in S : SaleAmounts[i] = Amounts[i]
    BY <1>3, <1>4
  <2>2. SumOf(S, SaleAmounts) = SumOf(S, Amounts)
    BY <1>2, <2>1, SumOfSame
  <2> QED
    BY <1>2, <1>4, <2>2 DEF S, OfType
<1>5. CASE Category[T][2] = -1
  <2>1. \A i \in S : SaleAmounts[i] = -Amounts[i]
    BY <1>3, <1>5
  <2>2. SumOf(S, SaleAmounts) = -SumOf(S, Amounts)
    BY <1>2, <2>1, SumOfNegated
  <2> QED
    BY <1>2, <1>5, <2>2 DEF S, OfType
<1> QED
  BY <1>4, <1>5

(* The sums of sync_day, and what the splits made of them book to "deposits".*)
LEMMA SumsByType ==
  ASSUME log \in Seq(LogRow), NEW day
  PROVE  /\ Sums(day)["deposit"] = OfType(day, "ADD") - OfType(day, "WITHDRAW")
         /\ Sums(day)["purchase"] = -OfType(day, "BUY") /\ Sums(day)["donate"] = -OfType(day, "DONATION")
         /\ Sums(day)["socialhour"] = -OfType(day, "SOCIAL") /\ Sums(day)["writeoff"] = OfType(day, "WRITEOFF")
         /\ Sums(day)["refund"] = -OfType(day, "REFUND")
<1>1. \A T : OfType(day, T) \in Int
  BY OfTypeInt
<1>2. /\ DOMAIN AutoSplits = {"deposit", "donate", "purchase", "refund", "socialhour", "writeoff"}
      /\ DOMAIN Category = {"ADD", "BUY", "DONATION", "SOCIAL", "WRITEOFF", "REFUND", "WITHDRAW"}
      /\ Category["ADD"] = <<"deposit", 1>> /\ Category["BUY"] = <<"purchase", -1>>
      /\ Category["DONATION"] = <<"donate", -1>> /\ Category["SOCIAL"] = <<"socialhour", -1>>
      /\ Category["WRITEOFF"] = <<"writeoff", 1>> /\ Category["REFUND"] = <<"refund", -1>>
      /\ Category["WITHDRAW"] = <<"deposit", -1>>
  BY DEF AutoSplits, Category
<1>3. /\ SalesOf(day, "deposit") = TypesOn(day, {"ADD", "WITHDRAW"})
      /\ SalesOf(day, "purchase") = TypesOn(day, {"BUY"}) /\ SalesOf(day, "donate") = TypesOn(day, {"DONATION"})
      /\ SalesOf(day, "socialhour") = TypesOn(day, {"SOCIAL"}) /\ SalesOf(day, "writeoff") = TypesOn(day, {"WRITEOFF"})
      /\ SalesOf(day, "refund") = TypesOn(day, {"REFUND"})
  <2> DEFINE Of(T) == Category[T][1]
  <2>1. /\ \A T \in DOMAIN Category : Of(T) = "deposit" <=> T \in {"ADD", "WITHDRAW"}
        /\ \A T \in DOMAIN Category : Of(T) = "purchase" <=> T = "BUY"
        /\ \A T \in DOMAIN Category : Of(T) = "donate" <=> T = "DONATION"
        /\ \A T \in DOMAIN Category : Of(T) = "socialhour" <=> T = "SOCIAL"
        /\ \A T \in DOMAIN Category : Of(T) = "writeoff" <=> T = "WRITEOFF"
        /\ \A T \in DOMAIN Category : Of(T) = "refund" <=> T = "REFUND"
    BY <1>2
  <2>2. {"ADD", "BUY", "DONATION", "SOCIAL", "WRITEOFF", "REFUND", "WITHDRAW"} \subseteq DOMAIN Category
    BY <1>2
  <2>3. \A ty : SalesOf(day, ty) = {i \in LogOf(day) : log[i].type \in DOMAIN Category /\ Of(log[i].type) = ty}
    BY DEF SalesOf
  <2> HIDE DEF Of
  <2> QED
    BY <2>1, <2>2, <2>3 DEF TypesOn
<1>4. SumOf(TypesOn(day, {"ADD", "WITHDRAW"}), SaleAmounts)
        = SumOf(TypesOn(day, {"ADD"}), SaleAmounts) + SumOf(TypesOn(day, {"WITHDRAW"}), SaleAmounts)
  <2>1. Splits(TypesOn(day, {"ADD", "WITHDRAW"}), TypesOn(day, {"ADD"}), TypesOn(day, {"WITHDRAW"}))
    BY DEF Splits, TypesOn
  <2>2. IsFiniteSet(TypesOn(day, {"ADD"})) /\ IsFiniteSet(TypesOn(day, {"WITHDRAW"}))
    <3>1. TypesOn(day, {"ADD"}) \in SUBSET DOMAIN log /\ TypesOn(day, {"WITHDRAW"}) \in SUBSET DOMAIN log
      BY DEF TypesOn, LogOf
    <3> QED
      BY <3>1, LogFinite
  <2>3. IntegersOn(SaleAmounts, TypesOn(day, {"ADD", "WITHDRAW"}))
    <3> SUFFICES ASSUME NEW i \in TypesOn(day, {"ADD", "WITHDRAW"}) PROVE SaleAmounts[i] \in Int
      BY DEF IntegersOn
    <3>1. i \in DOMAIN log /\ log[i].type \in {"ADD", "WITHDRAW"}
      BY DEF TypesOn, LogOf
    <3>2. log[i].amount \in Int
      <4>1. log[i] \in LogRow
        BY <3>1
      <4> QED
        BY <4>1 DEF LogRow
    <3>3. Category[log[i].type][2] \in Int
      BY <1>2, <3>1
    <3> QED
      BY <3>1, <3>2, <3>3 DEF SaleAmounts, Factor
  <2> QED
    BY <2>1, <2>2, <2>3, SumOfUnion
<1>5. /\ SumOf(TypesOn(day, {"ADD"}), SaleAmounts) = OfType(day, "ADD")
      /\ SumOf(TypesOn(day, {"WITHDRAW"}), SaleAmounts) = -OfType(day, "WITHDRAW")
      /\ SumOf(TypesOn(day, {"BUY"}), SaleAmounts) = -OfType(day, "BUY")
      /\ SumOf(TypesOn(day, {"DONATION"}), SaleAmounts) = -OfType(day, "DONATION")
      /\ SumOf(TypesOn(day, {"SOCIAL"}), SaleAmounts) = -OfType(day, "SOCIAL")
      /\ SumOf(TypesOn(day, {"WRITEOFF"}), SaleAmounts) = OfType(day, "WRITEOFF")
      /\ SumOf(TypesOn(day, {"REFUND"}), SaleAmounts) = -OfType(day, "REFUND")
  <2> DEFINE G(T) == SumOf(TypesOn(day, {T}), SaleAmounts) = Category[T][2] * OfType(day, T)
  <2>1. \A T \in DOMAIN Category : Category[T][2] \in {1, -1}
    BY <1>2
  <2>2. \A T \in DOMAIN Category : G(T)
    BY <2>1, SoldOf
  <2>3. G("ADD") /\ G("WITHDRAW") /\ G("BUY") /\ G("DONATION") /\ G("SOCIAL") /\ G("WRITEOFF") /\ G("REFUND")
    <3> HIDE DEF G
    <3> QED
      BY <1>2, <2>2
  <2>4. /\ Category["ADD"][2] = 1 /\ Category["WITHDRAW"][2] = -1 /\ Category["BUY"][2] = -1
        /\ Category["DONATION"][2] = -1 /\ Category["SOCIAL"][2] = -1 /\ Category["WRITEOFF"][2] = 1
        /\ Category["REFUND"][2] = -1
    BY <1>2
  <2> QED
    BY <1>1, <2>3, <2>4
<1>6. \A ty \in DOMAIN AutoSplits : Sums(day)[ty] = SumOf(SalesOf(day, ty), SaleAmounts)
  BY SumsIs
<1> QED
  BY <1>1, <1>2, <1>3, <1>4, <1>5, <1>6

Shares(day) == [ty \in DOMAIN AutoSplits |-> Signed(ty, Sums(day)[ty])]
LEMMA DayBooked ==
  ASSUME log \in Seq(LogRow), NEW day \in Int
  PROVE  /\ IsFiniteSet(DOMAIN AutoSplits) /\ IntegersOn(Shares(day), DOMAIN AutoSplits)
         /\ -SumOf(DOMAIN AutoSplits, Shares(day)) = LogSum(LogOf(day)) - UnbookedOn(day)
<1>1. DOMAIN AutoSplits = {"deposit", "donate", "purchase", "refund", "socialhour", "writeoff"}
  BY DEF AutoSplits
<1>2. PICK g : g = Shares(day)
  OBVIOUS
<1>3. PICK u, a, b, d, s, w, r, x \in Int :
         /\ u = LogSum(UnknownOn(day)) /\ a = OfType(day, "ADD") /\ b = OfType(day, "BUY")
         /\ d = OfType(day, "DONATION") /\ s = OfType(day, "SOCIAL") /\ w = OfType(day, "WRITEOFF")
         /\ r = OfType(day, "REFUND") /\ x = OfType(day, "WITHDRAW")
  BY OfTypeInt
<1>4. /\ g["deposit"] = -(a - x) /\ g["donate"] = -d /\ g["purchase"] = -b
      /\ g["refund"] = -r /\ g["socialhour"] = -s /\ g["writeoff"] = -w
  <2>1. /\ Sums(day)["deposit"] = a - x /\ Sums(day)["purchase"] = -b /\ Sums(day)["donate"] = -d
        /\ Sums(day)["socialhour"] = -s /\ Sums(day)["writeoff"] = w /\ Sums(day)["refund"] = -r
    BY <1>3, SumsByType
  <2> QED
    BY <1>1, <1>2, <2>1 DEF Shares, Signed
<1>5. PICK A : A = DOMAIN AutoSplits
  OBVIOUS
<1>6. IsFiniteSet(A) /\ \A ty \in A : g[ty] \in Int
  <2>1. IsFiniteSet({"deposit", "donate"} \cup {"purchase", "refund"}) /\ IsFiniteSet({"socialhour", "writeoff"})
    <3>1. \A y, z : IsFiniteSet({y} \cup {z})
      BY FS_Singleton, FS_Union
    <3>2. \A y, z : {y} \cup {z} = {y, z}
      OBVIOUS
    <3>3. \A y, z : IsFiniteSet({y, z})
      BY <3>1, <3>2
    <3> QED
      BY <3>3, FS_Union
  <2>2. A = ({"deposit", "donate"} \cup {"purchase", "refund"}) \cup {"socialhour", "writeoff"}
    BY <1>1, <1>5
  <2>3. IsFiniteSet(A)
    BY <2>1, <2>2, FS_Union
  <2>4. /\ -(a - x) \in Int /\ -d \in Int /\ -b \in Int /\ -r \in Int /\ -s \in Int /\ -w \in Int
    BY ONLY a \in Int, x \in Int, d \in Int, b \in Int, r \in Int, s \in Int, w \in Int
  <2>5. \A ty \in {"deposit", "donate", "purchase", "refund", "socialhour", "writeoff"} : g[ty] \in Int
    BY ONLY <1>4, <2>4
  <2> QED
    BY <1>1, <1>5, <2>3, <2>5
<1>7. ASSUME NEW S \in SUBSET A, NEW ty \in S
      PROVE  SumOf(S, g) = g[ty] + SumOf(S \ {ty}, g)
  <2>1. IsFiniteSet(S) /\ \A y \in S : g[y] \in Int
    BY <1>6, FS_Subset
  <2> QED
    BY <2>1, SumOfTake
<1>8. SumOf(A, g) = g["deposit"] + (g["donate"] + (g["purchase"] + (g["refund"] + (g["socialhour"] + (g["writeoff"] + 0)))))
  <2>1. PICK B : B = A \ {"deposit"}
    OBVIOUS
  <2>2. PICK C : C = B \ {"donate"}
    OBVIOUS
  <2>3. PICK D : D = C \ {"purchase"}
    OBVIOUS
  <2>4. PICK E : E = D \ {"refund"}
    OBVIOUS
  <2>5. PICK F : F = E \ {"socialhour"}
    OBVIOUS
  <2>6. /\ "deposit" \in A /\ "donate" \in B /\ "purchase" \in C /\ "refund" \in D /\ "socialhour" \in E
        /\ "writeoff" \in F /\ F \ {"writeoff"} = {}
        /\ B \subseteq A /\ C \subseteq A /\ D \subseteq A /\ E \subseteq A /\ F \subseteq A
    BY <1>1, <1>5, <2>1, <2>2, <2>3, <2>4, <2>5
  <2>7. SumOf(A, g) = g["deposit"] + SumOf(B, g)
    BY <1>7, <2>1, <2>6
  <2>8. SumOf(B, g) = g["donate"] + SumOf(C, g)
    BY <1>7, <2>2, <2>6
  <2>9. SumOf(C, g) = g["purchase"] + SumOf(D, g)
    BY <1>7, <2>3, <2>6
  <2>10. SumOf(D, g) = g["refund"] + SumOf(E, g)
    BY <1>7, <2>4, <2>6
  <2>11. SumOf(E, g) = g["socialhour"] + SumOf(F, g)
    BY <1>7, <2>5, <2>6
  <2>12. SumOf(F, g) = g["writeoff"] + SumOf({}, g)
    BY <1>7, <2>6
  <2>13. SumOf({}, g) = 0
    BY SumOfEmpty
  <2> QED
    BY <2>7, <2>8, <2>9, <2>10, <2>11, <2>12, <2>13
<1>9. LogSum(LogOf(day)) = u + a + b + d + s + w + r + x
  BY <1>3, DayByTypes
<1>10. UnbookedOn(day) = u + 2 * x
  BY <1>3 DEF UnbookedOn, OfType
<1>11. -SumOf(A, g) = LogSum(LogOf(day)) - UnbookedOn(day)
  <2>1. SumOf(A, g) = -(a - x) + (-d + (-b + (-r + (-s + (-w + 0)))))
    BY <1>4, <1>8
  <2>2. a \in Int /\ x \in Int /\ d \in Int /\ b \in Int /\ r \in Int /\ s \in Int /\ w \in Int /\ u \in Int
    OBVIOUS
  <2> QED
    BY ONLY <1>9, <1>10, <2>1, <2>2
<1> QED
  BY <1>2, <1>5, <1>6, <1>11 DEF IntegersOn

(* The balances of the customers are the whole log, and so are those of the  *)
(* ones above zero and of the ones below.                                    *)
LEMMA UsersHaveAll ==
  ASSUME log \in Seq(LogRow), NEW day
  PROVE  SumOf(Users, BalancesOn(day)) = LogSum(LogUntil(day))
<1> DEFINE S == LogUntil(day)
           k == [i \in S |-> log[i].user]
           f == [u \in Users |-> -UserBalance(u, day)]
<1>1. S \in SUBSET DOMAIN log
  BY DEF LogUntil
<1>2. IsFiniteSet(S) /\ IntegersOn(Amounts, S) /\ LogSum(S) = SumOf(S, Amounts)
  BY <1>1, LogFinite, LogSumIs
<1>3. IsFiniteSet(Users) /\ IntegersOn(BalancesOn(day), Users)
  BY BalancesAre
<1>4. \A i \in S : k[i] \in Users
  <2> TAKE i \in S
  <2>1. log[i] \in LogRow
    BY <1>1
  <2> QED
    BY <2>1 DEF LogRow
<1>5. ASSUME NEW u \in Users PROVE f[u] = -SumOf(Parts(S, k, {u}), Amounts)
  <2>1. Parts(S, k, {u}) = {i \in LogUntil(day) : log[i].user = u}
    BY DEF Parts
  <2>2. Parts(S, k, {u}) \in SUBSET DOMAIN log
    BY <1>1 DEF Parts
  <2>3. UserBalance(u, day) = SumOf(Parts(S, k, {u}), Amounts)
    BY <2>1, <2>2, LogSumIs DEF UserBalance
  <2> QED
    BY <2>3
<1>6. \A u \in Users : f[u] = -BalancesOn(day)[u]
  BY DEF BalancesOn
<1> HIDE DEF S, k, f
<1>7. OwesParts(f, Users, S, k, Amounts)
  BY <1>4, <1>5 DEF OwesParts
<1>8. SumOf(Users, f) = -SumOf(S, Amounts)
  BY <1>2, <1>3, <1>7, SumOfParts
<1>9. SumOf(Users, f) = -SumOf(Users, BalancesOn(day))
  BY <1>3, <1>6, SumOfNegated
<1>10. SumOf(Users, BalancesOn(day)) \in Int /\ SumOf(S, Amounts) \in Int
  BY <1>2, <1>3, SumOfInt DEF IntegersOn
<1>11. SumOf(Users, BalancesOn(day)) = SumOf(S, Amounts)
  BY <1>8, <1>9, <1>10
<1> QED
  BY <1>2, <1>11 DEF S

LEMMA SummaryAddsUp ==
  ASSUME log \in Seq(LogRow), NEW day
  PROVE  Owed(Owing(day, 1), day) - (-Owed(Owing(day, -1), day)) = LogSum(LogUntil(day))
<1>1. PICK g : g = BalancesOn(day)
  OBVIOUS
<1>2. IsFiniteSet(Users) /\ \A u \in Users : g[u] \in Int /\ g[u] = UserBalance(u, day)
  BY <1>1, BalancesAre DEF IntegersOn, BalancesOn
<1> DEFINE P == {u \in Users : g[u] > 0}
           N == {u \in Users : g[u] < 0}
           Z == {u \in Users : g[u] = 0}
<1>3. Owing(day, 1) = P /\ Owing(day, -1) = N
  <2>1. \A u \in Users : (1 * UserBalance(u, day) > 0 <=> g[u] > 0) /\ ((-1) * UserBalance(u, day) > 0 <=> g[u] < 0)
    BY <1>2
  <2> QED
    BY <2>1 DEF Owing
<1>4. Owed(P, day) = SumOf(P, g) /\ Owed(N, day) = SumOf(N, g)
  BY <1>1, OwedIs
<1>5. IsFiniteSet(P) /\ IsFiniteSet(N) /\ IsFiniteSet(Z)
  BY <1>2, FS_Subset
<1>6. SumOf(Z, g) = 0
  BY <1>5, SumOfZero
<1>7. Splits(Users, P \cup N, Z) /\ Splits(P \cup N, P, N) /\ IntegersOn(g, Users) /\ IntegersOn(g, P \cup N)
  BY <1>2 DEF Splits, IntegersOn
<1> HIDE DEF P, N, Z
<1>8. IsFiniteSet(P \cup N) /\ SumOf(P \cup N, g) = SumOf(P, g) + SumOf(N, g)
  BY <1>5, <1>7, SumOfUnion
<1>9. SumOf(Users, g) = SumOf(P \cup N, g) + SumOf(Z, g)
  BY <1>5, <1>7, <1>8, SumOfUnion
<1>10. SumOf(P, g) \in Int /\ SumOf(N, g) \in Int
  <2>1. P \in SUBSET Users /\ N \in SUBSET Users
    BY DEF P, N
  <2> QED
    BY <1>2, <1>5, <2>1, SumOfInt
<1>11. SumOf(P, g) - (-SumOf(N, g)) = SumOf(Users, g)
  BY <1>6, <1>8, <1>9, <1>10
<1> QED
  BY <1>1, <1>3, <1>4, <1>11, UsersHaveAll

-----------------------------------------------------------------------------
(* The invariant of an undisturbed run of the cron job.  What the log has up *)
(* to a day, what the books should owe for it, and what they do.             *)

UpTo(d) == SumOf(LogUntil(d), Amounts)
Unknown(d) == {i \in LogUntil(d) : log[i].type \notin DOMAIN Category}
Withdrawn(d) == {i \in LogUntil(d) : log[i].type = "WITHDRAW"}
Booking(d) == UpTo(d) - (SumOf(Unknown(d), Amounts) + 2 * SumOf(Withdrawn(d), Amounts))
BookedTo(d) == -SumOf(AutosIn(Min(Days) .. d), Posted) = Booking(d)
Summed(d) == d \in DOMAIN deposits /\ deposits[d][1] - deposits[d][2] = UpTo(d)
RowsOf(u, d) == {i \in LogUntil(d) : log[i].user = u}
Has == [p \in Users \X Int |-> SumOf(RowsOf(p[1], p[2]), Amounts)]
HasOn(d) == [u \in Users |-> Has[<<u, d>>]]
Positive(d) == SumOf({u \in Users : HasOn(d)[u] > 0}, HasOn(d))

(* Between two days, and while it works on one.                              *)
Progress(s) ==
  /\ log # <<>> /\ s.last = Max(Days) /\ Min(Days) <= s.day
  /\ s.pc = "done" => s.day = s.last + 1
ReadTo(s) == s.liabilities = UpTo(IF s.pc \in {"read", "done"} THEN s.day - 1 ELSE s.day)
PastRight(s) ==
  /\ s.odd = {} => BookedTo(s.day - 1)
  /\ \A d \in Min(Days) .. s.day - 1 : Summed(d) /\ (s.odd = {} => BookedTo(d))

(* On a day, the sums book what the day adds; the automatic transactions of  *)
(* the day are the old ones not compared yet, the one in hand, and those     *)
(* entered: one of each type that is done with and has a sum.                *)
Worth(s) == [ty \in DOMAIN AutoSplits |-> Signed(ty, s.sums[ty])]
SumsRight(s) == -SumOf(DOMAIN AutoSplits, Worth(s)) = Booking(s.day) - Booking(s.day - 1)
InHand(s) == IF s.pc \in {"delete", "row"} THEN {s.of} ELSE {}
Entered(s, H) == {t \in AutosIn({s.day}) : t \notin H /\ \A o \in s.old : o.id # t}
OldRight(s, H) == \A o \in s.old : o.id \in AutosIn({s.day}) \ H /\ head[o.id].name = o.name
HandRight(s, H) == \A t \in H : t \in AutosIn({s.day}) /\ head[t].name = Head(s.todo)
TodoOnce(s) == \A i, j \in 1 .. Len(s.todo) : s.todo[i] = s.todo[j] => i = j
Left(s) == {s.todo[i] : i \in 1 .. Len(s.todo)}
EnteredRight(s, H) ==
  \A t \in Entered(s, H) :
    /\ head[t].name \in DOMAIN AutoSplits \ Left(s) /\ Posted[t] = Worth(s)[head[t].name]
    /\ \A u \in Entered(s, H) : head[t].name = head[u].name => t = u
AllEntered(s, H) ==
  \A ty \in DOMAIN AutoSplits \ Left(s) : Worth(s)[ty] = 0 \/ \E t \in Entered(s, H) : head[t].name = ty
DayRight(s, H) ==
  /\ s.redo \/ Summed(s.day)
  /\ OldRight(s, H) /\ HandRight(s, H) /\ TodoOnce(s) /\ EnteredRight(s, H) /\ AllEntered(s, H)
Stages == {"match", "delete", "insert", "row", "positive", "negative"}
StageRight(s) ==
  /\ s.pc \in {"positive", "negative"} => s.todo = <<>>
  /\ s.pc = "row" => rows[s.of] \o s.new = NeededSplits(Head(s.todo), s.sums[Head(s.todo)])
  /\ s.pc = "negative" /\ s.owed # <<>> => s.owed[1] = Positive(s.day)
JobRight(s) ==
  /\ Progress(s) /\ ReadTo(s) /\ PastRight(s)
  /\ s.pc \notin {"read", "done"} => SumsRight(s)
  /\ s.pc \in Stages => DayRight(s, InHand(s)) /\ StageRight(s)
CronRight == ~disturbed /\ sync.pc # "died" => \A s \in {sync} : JobRight(s)

(* What the state functions of the invariant are in terms of the model.      *)
LEMMA UpToIs ==
  ASSUME log \in Seq(LogRow), NEW d \in Int
  PROVE  UpTo(d) = LogSum(LogUntil(d)) /\ UpTo(d) \in Int
<1>1. LogUntil(d) \in SUBSET DOMAIN log
  BY DEF LogUntil
<1> QED
  BY <1>1, LogSumIs, LogSumType DEF UpTo

LEMMA BookingIs ==
  ASSUME log \in Seq(LogRow), NEW d \in Int
  PROVE  Booking(d) = LogSum(LogUntil(d)) - Unbooked(d) /\ Booking(d) \in Int
<1>1. Unknown(d) \in SUBSET DOMAIN log /\ Withdrawn(d) \in SUBSET DOMAIN log
  BY DEF LogUntil, Unknown, Withdrawn
<1>2. PICK x, y \in Int : x = LogSum(Unknown(d)) /\ y = LogSum(Withdrawn(d))
  BY <1>1, LogSumType
<1>3. SumOf(Unknown(d), Amounts) = x /\ SumOf(Withdrawn(d), Amounts) = y
  BY <1>1, <1>2, LogSumIs
<1>4. Unbooked(d) = x + 2 * y
  BY <1>2 DEF Unbooked, Unknown, Withdrawn
<1>5. UpTo(d) = LogSum(LogUntil(d)) /\ UpTo(d) \in Int
  BY UpToIs
<1>6. Booking(d) = UpTo(d) - (x + 2 * y)
  BY <1>3 DEF Booking
<1>7. UpTo(d) - (x + 2 * y) \in Int
  BY <1>2, <1>5
<1> QED
  BY <1>4, <1>5, <1>6, <1>7

LEMMA BookedIs ==
  ASSUME log \in Seq(LogRow), BooksFinite, NEW d \in Int, BookedTo(d)
  PROVE  AutoOwed(d) = LogSum(LogUntil(d)) - Unbooked(d)
  BY AutoOwedIs, BookingIs DEF BookedTo

LEMMA HasIs ==
  ASSUME log \in Seq(LogRow), NEW d \in Int
  PROVE  /\ Positive(d) = Owed(Owing(d, 1), d)
         /\ Owing(d, 1) \in SUBSET Users
<1>1. \A u \in Users : HasOn(d)[u] = UserBalance(u, d) /\ BalancesOn(d)[u] = UserBalance(u, d)
  <2> TAKE u \in Users
  <2>1. RowsOf(u, d) \in SUBSET DOMAIN log
    BY DEF RowsOf, LogUntil
  <2>2. LogSum(RowsOf(u, d)) = SumOf(RowsOf(u, d), Amounts)
    BY <2>1, LogSumIs
  <2>3. HasOn(d)[u] = SumOf(RowsOf(u, d), Amounts)
    BY DEF HasOn, Has
  <2> QED
    BY <2>2, <2>3 DEF UserBalance, RowsOf, BalancesOn
<1>2. Owing(d, 1) = {u \in Users : HasOn(d)[u] > 0}
  <2>1. IntegersOn(BalancesOn(d), Users)
    BY BalancesAre
  <2>2. \A u \in Users : 1 * UserBalance(u, d) > 0 <=> HasOn(d)[u] > 0
    BY <1>1, <2>1 DEF IntegersOn
  <2> QED
    BY <2>2 DEF Owing
<1>3. Owing(d, 1) \in SUBSET Users
  BY DEF Owing
<1>4. IsFiniteSet(Owing(d, 1)) /\ Owed(Owing(d, 1), d) = SumOf(Owing(d, 1), BalancesOn(d))
  BY <1>3, BalancesAre, OwedIs
<1>5. \A u \in Owing(d, 1) : BalancesOn(d)[u] = HasOn(d)[u]
  BY <1>1, <1>3
<1>6. SumOf(Owing(d, 1), BalancesOn(d)) = SumOf(Owing(d, 1), HasOn(d))
  BY <1>4, <1>5, SumOfSame
<1> QED
  BY <1>2, <1>3, <1>4, <1>6 DEF Positive

(* The first day of the log is its earliest.                                 *)
LEMMA FirstDayFirst ==
  ASSUME log \in Seq(LogRow), NEW i \in DOMAIN log
  PROVE  Min(Days) <= Day(log[i].at)
<1>1. Days \in SUBSET Nat /\ Day(log[i].at) \in Days
  BY DayType DEF Days
<1>2. Min(Days) \in Days /\ \A y \in Days : Min(Days) <= y
  BY <1>1, Least DEF Min
<1> QED
  BY <1>1, <1>2

-----------------------------------------------------------------------------
(* What stands while the log does, and while the tables do.                  *)

LEMMA LogStands ==
  ASSUME log' = log
  PROVE  /\ Days' = Days
         /\ \A d : UpTo(d)' = UpTo(d) /\ Booking(d)' = Booking(d) /\ Positive(d)' = Positive(d)
         /\ \A s : SumsRight(s)' <=> SumsRight(s)
<1>1. Days' = Days
  BY DEF Days
<1>2. Amounts' = Amounts /\ \A d : LogUntil(d)' = LogUntil(d)
  BY DEF Amounts, LogUntil
<1>3. \A d : UpTo(d)' = UpTo(d)
  BY <1>2 DEF UpTo
<1>4. \A d : Unknown(d)' = Unknown(d) /\ Withdrawn(d)' = Withdrawn(d)
  BY <1>2 DEF Unknown, Withdrawn
<1>5. \A d : Booking(d)' = Booking(d)
  BY <1>2, <1>3, <1>4 DEF Booking
<1>6. \A u, d : RowsOf(u, d)' = RowsOf(u, d)
  BY <1>2 DEF RowsOf
<1>7. Has' = Has
  BY <1>2, <1>6 DEF Has
<1>8. \A d : HasOn(d)' = HasOn(d)
  BY <1>7 DEF HasOn
<1>9. \A d : Positive(d)' = Positive(d)
  BY <1>8 DEF Positive
<1>10. \A s : SumsRight(s)' <=> SumsRight(s)
  BY <1>5 DEF SumsRight
<1> QED
  BY <1>1, <1>3, <1>5, <1>9, <1>10

LEMMA BooksStill ==
  ASSUME head' = head, rows' = rows
  PROVE  Posted' = Posted /\ \A D : AutosIn(D)' = AutosIn(D)
<1>1. Txs' = Txs
  BY DEF Txs
<1>2. Posted' = Posted
  BY DEF Posted
<1>3. \A D : AutosIn(D)' = AutosIn(D)
  BY <1>1 DEF AutosIn
<1> QED
  BY <1>2, <1>3

LEMMA TablesStand ==
  ASSUME NEW s, JobRight(s), log' = log, head' = head, rows' = rows, deposits' = deposits
  PROVE  JobRight(s)'
<1>1. /\ Days' = Days /\ Posted' = Posted /\ \A D : AutosIn(D)' = AutosIn(D)
      /\ \A d : UpTo(d)' = UpTo(d) /\ Booking(d)' = Booking(d) /\ Positive(d)' = Positive(d)
  BY LogStands, BooksStill
<1>2. (\A d : BookedTo(d)' <=> BookedTo(d)) /\ \A d : Summed(d)' <=> Summed(d)
  BY <1>1 DEF BookedTo, Summed
<1>3. Progress(s)' /\ ReadTo(s)'
  BY <1>1 DEF JobRight, Progress, ReadTo
<1>4. PastRight(s)'
  BY <1>1, <1>2 DEF JobRight, PastRight
<1>5. s.pc \notin {"read", "done"} => SumsRight(s)'
  BY LogStands DEF JobRight
<1>6. ASSUME s.pc \in Stages PROVE DayRight(s, InHand(s))' /\ StageRight(s)'
  <2>1. DayRight(s, InHand(s)) /\ StageRight(s)
    BY <1>6 DEF JobRight
  <2>2. PICK H : H = InHand(s) /\ InHand(s)' = H
    BY DEF InHand
  <2>3. Entered(s, H)' = Entered(s, H)
    BY <1>1 DEF Entered
  <2>4. OldRight(s, H)' /\ HandRight(s, H)'
    BY <1>1, <2>1, <2>2 DEF DayRight, OldRight, HandRight
  <2>5. EnteredRight(s, H)'
    BY <1>1, <2>1, <2>2, <2>3 DEF DayRight, EnteredRight
  <2>6. AllEntered(s, H)'
    BY <2>1, <2>2, <2>3 DEF DayRight, AllEntered
  <2>7. DayRight(s, H)'
    BY <1>2, <2>1, <2>2, <2>4, <2>5, <2>6 DEF DayRight, TodoOnce
  <2>8. StageRight(s)'
    BY <1>1, <2>1 DEF StageRight
  <2> QED
    BY <2>2, <2>7, <2>8
<1> QED
  BY <1>3, <1>4, <1>5, <1>6 DEF JobRight

(* When a day is closed, what was entered books what the day adds.           *)
LEMMA DayClosed ==
  ASSUME Inv, BooksFinite, NEW s \in Working, SumsRight(s), DayRight(s, {}), s.todo = <<>>, s.old = {},
         Progress(s), BookedTo(s.day - 1)
  PROVE  BookedTo(s.day)
<1> DEFINE A == AutosIn({s.day})
           m == [t \in A |-> head[t].name]
           R == {m[t] : t \in A}
           Z == DOMAIN AutoSplits \ R
<1>1. PICK h : h = Worth(s)
  OBVIOUS
<1>0. s.day \in Int /\ Min(Days) \in Int /\ Min(Days) <= s.day
  <2>1. log \in Seq(LogRow) /\ log # <<>>
    BY DEF Inv, TypeOK, Progress
  <2> QED
    BY <2>1, FirstAndLast DEF Progress, Working
<1>2. /\ log \in Seq(LogRow) /\ rows \in [DOMAIN head -> Seq(Line)]
      /\ s.sums \in [DOMAIN AutoSplits -> Int] /\ Left(s) = {}
  BY DEF Inv, TypeOK, Working, Left
<1>3. Entered(s, {}) = A
  BY DEF Entered
<1>4. IsFiniteSet(A) /\ IntegersOn(Posted, A)
  BY <1>2, AutosAre
<1>5. \A t \in A : m[t] \in DOMAIN AutoSplits /\ Posted[t] = h[m[t]] /\ \A u \in A : m[t] = m[u] => t = u
  BY <1>1, <1>2, <1>3 DEF DayRight, EnteredRight
<1>6. \A ty \in DOMAIN AutoSplits : h[ty] = 0 \/ ty \in R
  <2> TAKE ty \in DOMAIN AutoSplits
  <2>1. h[ty] = 0 \/ \E t \in A : head[t].name = ty
    BY <1>1, <1>2, <1>3 DEF DayRight, AllEntered
  <2> QED
    BY <2>1
<1>7. \A ty \in DOMAIN AutoSplits : h[ty] \in Int
  <2>1. \A ty \in DOMAIN AutoSplits : s.sums[ty] \in Int /\ h[ty] = Signed(ty, s.sums[ty])
    BY <1>1, <1>2 DEF Worth
  <2> QED
    BY <2>1 DEF Signed
<1> HIDE DEF m
<1>8. IsFiniteSet(R) /\ SumOf(R, h) = SumOf(A, Posted)
  <2>1. /\ \A x, y \in A : m[x] = m[y] => x = y
        /\ \A x \in A : Posted[x] \in Int /\ Posted[x] = h[m[x]]
    BY <1>4, <1>5 DEF IntegersOn
  <2> HIDE DEF A
  <2> QED
    BY <1>4, <2>1, SumOfImage
<1>9. R \subseteq DOMAIN AutoSplits
  <2>1. \A t \in A : m[t] \in DOMAIN AutoSplits
    BY <1>5
  <2> HIDE DEF A
  <2> QED
    BY <2>1
<1>10. \A ty \in Z : h[ty] = 0
  BY <1>6
<1> HIDE DEF R, A
<1>11. SumOf(DOMAIN AutoSplits, h) = SumOf(R, h)
  <2>1. Splits(DOMAIN AutoSplits, R, Z) /\ IntegersOn(h, DOMAIN AutoSplits)
    BY <1>7, <1>9 DEF Splits, IntegersOn
  <2>2. IsFiniteSet(Z)
    <3>1. IsFiniteSet(DOMAIN AutoSplits)
      BY <1>2, DayBooked, 0 \in Int
    <3> QED
      BY <3>1, FS_Subset
  <2> HIDE DEF Z
  <2>3. SumOf(Z, h) = 0
    BY <1>10, <2>2, SumOfZero
  <2>4. SumOf(DOMAIN AutoSplits, h) = SumOf(R, h) + SumOf(Z, h)
    BY <1>8, <2>1, <2>2, SumOfUnion
  <2>5. SumOf(R, h) \in Int
    <3>1. \A ty \in R : h[ty] \in Int
      BY <1>7, <1>9
    <3> QED
      BY <1>8, <3>1, SumOfInt
  <2> QED
    BY <2>3, <2>4, <2>5
<1>12. -SumOf(A, Posted) = Booking(s.day) - Booking(s.day - 1)
  BY <1>1, <1>8, <1>11 DEF SumsRight
<1>13. /\ Booking(s.day) \in Int /\ Booking(s.day - 1) \in Int
  BY <1>0, <1>2, s.day - 1 \in Int, BookingIs
<1> DEFINE B == AutosIn(Min(Days) .. s.day - 1)
<1>14. Splits(AutosIn(Min(Days) .. s.day), B, A)
  <2>1. Min(Days) .. s.day = (Min(Days) .. (s.day - 1)) \cup {s.day} /\ s.day \notin Min(Days) .. (s.day - 1)
    BY <1>0
  <2> QED
    BY <2>1 DEF Splits, AutosIn, A
<1>15. IsFiniteSet(B) /\ IntegersOn(Posted, B) /\ IntegersOn(Posted, AutosIn(Min(Days) .. s.day))
  BY <1>2, AutosAre
<1>16. SumOf(AutosIn(Min(Days) .. s.day), Posted) = SumOf(B, Posted) + SumOf(A, Posted)
  BY <1>4, <1>14, <1>15, SumOfUnion
<1>17. SumOf(B, Posted) \in Int /\ SumOf(A, Posted) \in Int
  BY <1>4, <1>15, SumOfInt DEF IntegersOn
<1>18. -SumOf(B, Posted) = Booking(s.day - 1)
  BY DEF BookedTo
<1> HIDE DEF B
<1> QED
  BY <1>12, <1>13, <1>16, <1>17, <1>18 DEF BookedTo

(* States of the job that differ in the stage only.                          *)
SameDay(s, t) ==
  /\ t.day = s.day /\ t.last = s.last /\ t.liabilities = s.liabilities /\ t.odd = s.odd
  /\ t.sums = s.sums /\ t.old = s.old /\ t.todo = s.todo
LEMMA SameDayRight ==
  ASSUME NEW s, NEW t, SameDay(s, t)
  PROVE  /\ PastRight(s) => PastRight(t)
         /\ SumsRight(s) => SumsRight(t)
         /\ \A H : /\ OldRight(s, H) => OldRight(t, H)
                   /\ HandRight(s, H) => HandRight(t, H)
                   /\ EnteredRight(s, H) => EnteredRight(t, H)
                   /\ AllEntered(s, H) => AllEntered(t, H)
         /\ TodoOnce(s) => TodoOnce(t)
<1>1. Worth(t) = Worth(s) /\ Left(t) = Left(s) /\ \A H : Entered(t, H) = Entered(s, H)
  BY DEF SameDay, Worth, Left, Entered
<1>2. PastRight(s) => PastRight(t)
  BY DEF SameDay, PastRight
<1>3. SumsRight(s) => SumsRight(t)
  BY <1>1 DEF SameDay, SumsRight
<1>4. TodoOnce(s) => TodoOnce(t)
  BY DEF SameDay, TodoOnce
<1>5. \A H : OldRight(s, H) => OldRight(t, H)
  BY DEF SameDay, OldRight
<1>6. \A H : HandRight(s, H) => HandRight(t, H)
  BY DEF SameDay, HandRight
<1>7. \A H : EnteredRight(s, H) => EnteredRight(t, H)
  BY <1>1 DEF EnteredRight
<1>8. \A H : AllEntered(s, H) => AllEntered(t, H)
  BY <1>1 DEF AllEntered
<1> QED
  BY <1>2, <1>3, <1>4, <1>5, <1>6, <1>7, <1>8

(* What the job goes on to.                                                  *)
Ready(s) ==
  /\ s.pc # "done" /\ Progress(s) /\ s.liabilities = UpTo(s.day) /\ PastRight(s)
  /\ SumsRight(s) /\ DayRight(s, {})
ProceedsRight == Inv /\ BooksFinite => \A s \in Working : Ready(s) => JobRight(Proceed(s))
LEMMA ProceedRight == ProceedsRight
<1> SUFFICES ASSUME Inv, BooksFinite, NEW s \in Working, Ready(s) PROVE JobRight(Proceed(s))
  BY DEF ProceedsRight
<1>1. PICK t : t = Proceed(s)
  OBVIOUS
<1>2. /\ s.pc # "done" /\ Progress(s) /\ s.liabilities = UpTo(s.day) /\ PastRight(s)
      /\ SumsRight(s) /\ DayRight(s, {})
  BY DEF Ready
<1>3. ASSUME SameDay(s, t), t.pc \in {"match", "positive"}, t.redo = s.redo, t.pc = "positive" => s.todo = <<>>
      PROVE  JobRight(t)
  <2>1. Progress(t) /\ ReadTo(t)
    BY <1>2, <1>3 DEF Progress, ReadTo, SameDay
  <2>2. /\ PastRight(t) /\ SumsRight(t) /\ TodoOnce(t)
        /\ OldRight(t, {}) /\ HandRight(t, {}) /\ EnteredRight(t, {}) /\ AllEntered(t, {})
    BY <1>2, <1>3, SameDayRight DEF DayRight
  <2>3. t.redo \/ Summed(t.day)
    BY <1>2, <1>3 DEF DayRight, SameDay
  <2>4. InHand(t) = {}
    BY <1>3 DEF InHand
  <2>5. StageRight(t)
    BY <1>3 DEF StageRight, SameDay
  <2> QED
    BY <1>3, <2>1, <2>2, <2>3, <2>4, <2>5 DEF JobRight, DayRight
<1>4. CASE s.todo # <<>>
  <2>1. t = [s EXCEPT !.pc = "match"]
    BY <1>1, <1>4 DEF Proceed
  <2>2. SameDay(s, t) /\ t.pc = "match" /\ t.redo = s.redo
    BY <2>1 DEF Working, SameDay
  <2> QED
    BY <1>1, <1>3, <2>2
<1>5. CASE s.todo = <<>> /\ s.redo
  <2>1. t = [s EXCEPT !.pc = "positive"]
    BY <1>1, <1>5 DEF Proceed
  <2>2. SameDay(s, t) /\ t.pc = "positive" /\ t.redo = s.redo
    BY <2>1 DEF Working, SameDay
  <2> QED
    BY <1>1, <1>3, <1>5, <2>2
<1>6. CASE s.todo = <<>> /\ ~s.redo
  <2>1. t = [pc |-> IF s.day = s.last THEN "done" ELSE "read", runs |-> s.runs, day |-> s.day + 1,
             last |-> s.last, liabilities |-> s.liabilities, odd |-> s.odd \cup s.old]
    BY <1>1, <1>6 DEF Proceed
  <2>2. /\ t.pc \in {"read", "done"} /\ t.day = s.day + 1 /\ t.last = s.last /\ t.liabilities = s.liabilities
        /\ t.odd = s.odd \cup s.old /\ (t.pc = "done" => s.day = s.last)
    BY <2>1
  <2>3. s.day \in Nat /\ Min(Days) \in Nat
    <3>1. log \in Seq(LogRow) /\ log # <<>>
      BY <1>2 DEF Inv, TypeOK, Progress
    <3> QED
      BY <3>1, FirstAndLast DEF Working
  <2>4. Progress(t)
    BY <1>2, <2>2, <2>3 DEF Progress
  <2>5. t.day - 1 = s.day
    BY <2>2, <2>3
  <2>6. ReadTo(t)
    BY <1>2, <2>2, <2>5 DEF ReadTo
  <2>7. Summed(s.day)
    BY <1>2, <1>6 DEF DayRight
  <2>8. t.odd = {} => BookedTo(s.day)
    <3> SUFFICES ASSUME t.odd = {} PROVE BookedTo(s.day)
      OBVIOUS
    <3>1. s.odd = {} /\ s.old = {}
      BY <2>2
    <3>2. BookedTo(s.day - 1)
      BY <1>2, <3>1 DEF PastRight
    <3> QED
      BY <1>2, <1>6, <3>1, <3>2, DayClosed
  <2>9. \A d \in Min(Days) .. s.day : Summed(d) /\ (t.odd = {} => BookedTo(d))
    <3> TAKE d \in Min(Days) .. s.day
    <3>1. CASE d = s.day
      BY <2>7, <2>8, <3>1
    <3>2. CASE d # s.day
      <4>1. d \in Min(Days) .. s.day - 1
        BY <2>3, <3>2
      <4>2. Summed(d) /\ (s.odd = {} => BookedTo(d))
        BY <1>2, <4>1 DEF PastRight
      <4>3. t.odd = {} => s.odd = {}
        BY <2>2
      <4> QED
        BY <4>2, <4>3
    <3> QED
      BY <3>1, <3>2
  <2>10. PastRight(t)
    BY <2>5, <2>8, <2>9 DEF PastRight
  <2>11. t.pc \notin Stages
    BY <2>2 DEF Stages
  <2> QED
    BY <1>1, <2>2, <2>4, <2>6, <2>10, <2>11 DEF JobRight
<1>7. s.redo \in BOOLEAN
  BY DEF Working
<1> QED
  BY <1>4, <1>5, <1>6, <1>7

(* One more type of sale is done with: it had no sum, or the transaction x   *)
(* books it.                                                                 *)
EachOnce(E, n, p, w, K) ==
  \A t \in E : n[t].name \in K /\ p[t] = w[n[t].name] /\ \A u \in E : n[t].name = n[u].name => t = u
AllOf(E, n, w, K) == \A ty \in K : w[ty] = 0 \/ \E t \in E : n[t].name = ty
SameOn(E, n, p, m, q) == \A t \in E : m[t] = n[t] /\ q[t] = p[t]
LEMMA TypeDone ==
  ASSUME NEW E, NEW n, NEW p, NEW w, NEW K, EachOnce(E, n, p, w, K), AllOf(E, n, w, K),
         NEW m, NEW q, SameOn(E, n, p, m, q), NEW ty, ty \notin K, NEW F,
         \/ F = E /\ w[ty] = 0
         \/ \E x : F = E \cup {x} /\ m[x].name = ty /\ q[x] = w[ty]
  PROVE  EachOnce(F, m, q, w, K \cup {ty}) /\ AllOf(F, m, w, K \cup {ty})
<1>1. \A t \in E : m[t].name = n[t].name /\ n[t].name \in K /\ q[t] = w[m[t].name]
  BY DEF EachOnce, SameOn
<1>2. \A t, u \in E : m[t].name = m[u].name => t = u
  BY <1>1 DEF EachOnce
<1>3. E \subseteq F /\ \A t \in F \ E : m[t].name = ty /\ q[t] = w[ty]
  OBVIOUS
<1>4. \A t, u \in F \ E : t = u
  OBVIOUS
<1>5. ASSUME NEW t \in F, NEW u \in F, m[t].name = m[u].name PROVE t = u
  <2>1. CASE t \in E /\ u \in E
    BY <1>2, <1>5, <2>1
  <2>2. CASE t \in E /\ u \notin E
    BY <1>1, <1>3, <1>5, <2>2
  <2>3. CASE t \notin E /\ u \in E
    BY <1>1, <1>3, <1>5, <2>3
  <2>4. CASE t \notin E /\ u \notin E
    BY <1>4, <2>4
  <2> QED
    BY <2>1, <2>2, <2>3, <2>4
<1>6. \A t \in F : m[t].name \in K \cup {ty} /\ q[t] = w[m[t].name]
  BY <1>1, <1>3
<1>7. \A k \in K : w[k] = 0 \/ \E t \in F : m[t].name = k
  BY <1>1, <1>3 DEF AllOf
<1>8. w[ty] = 0 \/ \E t \in F : m[t].name = ty
  OBVIOUS
<1>9. AllOf(F, m, w, K \cup {ty})
  BY <1>7, <1>8 DEF AllOf
<1> QED
  BY <1>5, <1>6, <1>9 DEF EachOnce

(* The types left after the first one.                                       *)
LEMMA TypesLeft ==
  ASSUME NEW s, NEW x, s.todo \in Seq(DOMAIN AutoSplits), s.todo # <<>>, x.todo = Tail(s.todo), TodoOnce(s)
  PROVE  /\ TodoOnce(x) /\ Head(s.todo) \in DOMAIN AutoSplits /\ Head(s.todo) \in Left(s)
         /\ DOMAIN AutoSplits \ Left(x) = (DOMAIN AutoSplits \ Left(s)) \cup {Head(s.todo)}
<1>1. PICK q \in Seq(DOMAIN AutoSplits) : q = s.todo
  OBVIOUS
<1>2. /\ q # <<>> /\ Len(q) \in Nat \ {0} /\ Head(q) = q[1] /\ x.todo = Tail(q)
      /\ Len(Tail(q)) = Len(q) - 1
      /\ \A i \in 1 .. Len(Tail(q)) : Tail(q)[i] = q[i + 1]
      /\ \A i \in 1 .. Len(q) : q[i] \in DOMAIN AutoSplits
  BY <1>1
<1>3. \A i, j \in 1 .. Len(q) : q[i] = q[j] => i = j
  BY <1>1 DEF TodoOnce
<1>4. TodoOnce(x)
  <2> SUFFICES ASSUME NEW i \in 1 .. Len(Tail(q)), NEW j \in 1 .. Len(Tail(q)), Tail(q)[i] = Tail(q)[j] PROVE i = j
    BY <1>2 DEF TodoOnce
  <2>1. i + 1 \in 1 .. Len(q) /\ j + 1 \in 1 .. Len(q) /\ q[i + 1] = q[j + 1]
    BY <1>2
  <2>2. i + 1 = j + 1
    BY <1>3, <2>1
  <2> QED
    BY <2>2
<1>5. \A k : k \in Left(s) <=> k = q[1] \/ k \in Left(x)
  <2> SUFFICES ASSUME NEW k PROVE k \in Left(s) <=> k = q[1] \/ k \in Left(x)
    OBVIOUS
  <2>1. k \in Left(s) <=> \E i \in 1 .. Len(q) : k = q[i]
    BY <1>1 DEF Left
  <2>2. k \in Left(x) <=> \E i \in 1 .. Len(Tail(q)) : k = Tail(q)[i]
    BY <1>2 DEF Left
  <2>3. ASSUME NEW i \in 1 .. Len(q), k = q[i], i # 1 PROVE \E j \in 1 .. Len(Tail(q)) : k = Tail(q)[j]
    <3>1. i - 1 \in 1 .. Len(Tail(q)) /\ i - 1 + 1 = i
      BY <1>2, <2>3
    <3>2. Tail(q)[i - 1] = q[i]
      BY <1>2, <3>1
    <3> QED
      BY <2>3, <3>1, <3>2
  <2>4. ASSUME NEW j \in 1 .. Len(Tail(q)), k = Tail(q)[j] PROVE \E i \in 1 .. Len(q) : k = q[i]
    <3>1. j + 1 \in 1 .. Len(q) /\ k = q[j + 1]
      BY <1>2, <2>4
    <3> QED
      BY <3>1
  <2>5. 1 \in 1 .. Len(q)
    BY <1>2
  <2> QED
    BY <2>1, <2>2, <2>3, <2>4, <2>5
<1>6. q[1] \notin Left(x)
  <2> SUFFICES ASSUME NEW j \in 1 .. Len(Tail(q)), q[1] = Tail(q)[j] PROVE FALSE
    BY <1>2 DEF Left
  <2>1. j + 1 \in 1 .. Len(q) /\ 1 \in 1 .. Len(q) /\ q[1] = q[j + 1] /\ j + 1 # 1
    BY <1>2
  <2> QED
    BY <1>3, <2>1
<1>7. q[1] \in DOMAIN AutoSplits
  BY <1>2
<1> QED
  BY <1>1, <1>2, <1>4, <1>5, <1>6, <1>7

(* Where the job is right before a step, and what it takes after one.        *)
LEMMA RightBefore ==
  ASSUME CronRight, ~disturbed, sync.pc # "died"
  PROVE  JobRight(sync)
  BY DEF CronRight

LEMMA RightAfter ==
  ASSUME NEW s, sync' = s, JobRight(s)'
  PROVE  CronRight'
  BY DEF CronRight

(* The steps that leave the tables alone.                                    *)
LEMMA QuietlyRight ==
  ASSUME NEW s, sync' = s, JobRight(s), UNCHANGED tables
  PROVE  CronRight'
<1>1. JobRight(s)'
  BY TablesStand DEF tables
<1> QED
  BY <1>1, RightAfter

LEMMA SyncStartRight == ASSUME Inv, SyncStart PROVE CronRight'
<1>1. /\ log # <<>> /\ UNCHANGED tables
      /\ sync' = [pc |-> "read", runs |-> sync.runs - 1, day |-> Min(Days), last |-> Max(Days),
                  liabilities |-> 0, odd |-> {}]
  BY DEF SyncStart
<1>2. PICK s : s = sync'
  OBVIOUS
<1>3. s.pc = "read" /\ s.day = Min(Days) /\ s.last = Max(Days) /\ s.liabilities = 0 /\ s.odd = {}
  BY <1>1, <1>2
<1>4. log \in Seq(LogRow) /\ Min(Days) \in Nat /\ Max(Days) \in Nat
  BY <1>1, FirstAndLast DEF Inv, TypeOK
<1>5. PICK d \in Int : d = Min(Days) - 1
  BY <1>4
<1>6. LogUntil(d) = {}
  <2>1. \A i \in DOMAIN log : Day(log[i].at) \in Nat /\ Min(Days) <= Day(log[i].at)
    BY <1>4, FirstDayFirst, DayType
  <2> QED
    BY <1>4, <1>5, <2>1 DEF LogUntil
<1>7. UpTo(d) = 0 /\ Booking(d) = 0
  <2>1. Unknown(d) = {} /\ Withdrawn(d) = {}
    BY <1>6 DEF Unknown, Withdrawn
  <2>2. UpTo(d) = 0 /\ SumOf(Unknown(d), Amounts) = 0 /\ SumOf(Withdrawn(d), Amounts) = 0
    BY <1>6, <2>1, SumOfEmpty DEF UpTo
  <2> QED
    BY <2>2 DEF Booking
<1>8. BookedTo(d)
  <2>1. Min(Days) .. d = {}
    BY <1>4, <1>5
  <2>2. AutosIn(Min(Days) .. d) = {}
    BY <2>1 DEF AutosIn
  <2>3. SumOf(AutosIn(Min(Days) .. d), Posted) = 0
    BY <2>2, SumOfEmpty
  <2> QED
    BY <1>7, <2>3 DEF BookedTo
<1>9. s.day - 1 = d /\ Min(Days) .. s.day - 1 = {}
  BY <1>3, <1>4, <1>5
<1>10. Progress(s) /\ ReadTo(s)
  BY <1>1, <1>3, <1>4, <1>7, <1>9 DEF Progress, ReadTo
<1>11. PastRight(s)
  BY <1>8, <1>9 DEF PastRight
<1>12. s.pc \notin Stages
  BY <1>3 DEF Stages
<1> QED
  BY <1>1, <1>2, <1>3, <1>10, <1>11, <1>12, QuietlyRight DEF JobRight

LEMMA SyncReadRight == ASSUME Inv, CronRight, ~disturbed, SyncRead PROVE CronRight'
<1>1. /\ sync.pc = "read" /\ UNCHANGED tables
      /\ sync' = [pc |-> "list", runs |-> sync.runs, day |-> sync.day, last |-> sync.last, odd |-> sync.odd,
                  liabilities |-> sync.liabilities + LogSum(LogOf(sync.day)), sums |-> Sums(sync.day),
                  old |-> {}, redo |-> FALSE, todo |-> <<>>, of |-> 0, new |-> <<>>, owed |-> <<>>]
  BY DEF SyncRead
<1>2. PICK s : s = sync'
  OBVIOUS
<1>3. /\ s.pc = "list" /\ s.day = sync.day /\ s.last = sync.last /\ s.odd = sync.odd
      /\ s.liabilities = sync.liabilities + LogSum(LogOf(sync.day)) /\ s.sums = Sums(sync.day)
  BY <1>1, <1>2
<1>4. JobRight(sync)
  BY <1>1, RightBefore
<1>5. log \in Seq(LogRow) /\ sync.day \in Int
  <2>1. sync \in Between
    BY <1>1 DEF Inv, TypeOK, Working
  <2> QED
    BY <2>1 DEF Inv, TypeOK, Between
<1>6. Progress(s)
  BY <1>1, <1>3, <1>4 DEF JobRight, Progress
<1>7. PastRight(s)
  BY <1>3, <1>4 DEF JobRight, PastRight
<1>8. PICK a, b, c, e \in Int : /\ a = LogSum(LogUntil(sync.day - 1)) /\ b = LogSum(LogOf(sync.day))
                                /\ c = Unbooked(sync.day - 1) /\ e = UnbookedOn(sync.day)
  BY <1>5, DayAdds
<1>9. LogSum(LogUntil(sync.day)) = a + b /\ Unbooked(sync.day) = c + e
  BY <1>5, <1>8, DayAdds
<1>10. /\ UpTo(sync.day) = a + b /\ UpTo(sync.day - 1) = a
       /\ Booking(sync.day) = (a + b) - (c + e) /\ Booking(sync.day - 1) = a - c
  BY <1>5, <1>8, <1>9, sync.day - 1 \in Int, UpToIs, BookingIs
<1>11. ReadTo(s)
  <2>1. sync.liabilities = a
    BY <1>1, <1>4, <1>10 DEF JobRight, ReadTo
  <2> QED
    BY <1>3, <1>8, <1>10, <2>1 DEF ReadTo
<1>12. SumsRight(s)
  <2>1. Worth(s) = Shares(sync.day)
    BY <1>3 DEF Worth, Shares
  <2>2. -SumOf(DOMAIN AutoSplits, Worth(s)) = b - e
    BY <1>5, <1>8, <2>1, DayBooked
  <2> QED
    BY <1>3, <1>10, <2>2 DEF SumsRight
<1>13. s.pc \notin Stages
  BY <1>3 DEF Stages
<1> QED
  BY <1>1, <1>2, <1>6, <1>7, <1>11, <1>12, <1>13, QuietlyRight DEF JobRight

(* On a day.                                                                 *)
LEMMA OnDay ==
  ASSUME Inv, CronRight, ~disturbed, sync.pc \in Stages \cup {"list"}
  PROVE  /\ sync \in Working /\ JobRight(sync) /\ sync.pc # "done" /\ sync.day \in Nat
         /\ Progress(sync) /\ sync.liabilities = UpTo(sync.day) /\ PastRight(sync) /\ SumsRight(sync)
         /\ log \in Seq(LogRow) /\ head \in [DOMAIN head -> Header] /\ rows \in [DOMAIN head -> Seq(Line)]
<1>1. sync.pc \in {"list", "match", "delete", "insert", "row", "positive", "negative"}
  BY DEF Stages
<1>2. sync \in Working
  BY <1>1, WorkingOnDay DEF Inv
<1>3. JobRight(sync)
  BY <1>1, RightBefore
<1>4. Progress(sync) /\ sync.liabilities = UpTo(sync.day) /\ PastRight(sync) /\ SumsRight(sync)
  BY <1>1, <1>3 DEF JobRight, ReadTo
<1> QED
  BY <1>1, <1>2, <1>3, <1>4 DEF Working, Inv, TypeOK

(* The state the job proceeds from, when it leaves the tables alone.         *)
LEMMA QuietlyOn ==
  ASSUME Inv, BooksFinite, NEW s \in Working, sync' = Proceed(s), Ready(s), UNCHANGED tables
  PROVE  CronRight'
<1>1. JobRight(Proceed(s))
  BY ProceedRight DEF ProceedsRight
<1>2. PICK t : t = Proceed(s)
  OBVIOUS
<1> QED
  BY <1>1, <1>2, QuietlyRight

(* The types that are kept of AutoOrder, each once.                          *)
LEMMA TypesKept ==
  ASSUME NEW T, NEW k, k = Kept(AutoOrder, T)
  PROVE  /\ \A i, j \in 1 .. Len(k) : k[i] = k[j] => i = j
         /\ \A ty \in DOMAIN AutoSplits : ty \in T => \E i \in 1 .. Len(k) : k[i] = ty
<1> DEFINE s == AutoOrder
           f == CHOOSE f : IsKeptTo(f, s, T, Len(s))
<1>1. /\ s = <<"deposit", "donate", "purchase", "refund", "socialhour", "writeoff">>
      /\ Len(s) = 6 /\ Len(s) \in Nat
  BY DEF AutoOrder
<1>2. \A j, l \in 1 .. Len(s) : s[j] = s[l] => j = l
  <2>1. 1 .. Len(s) = {1, 2, 3, 4, 5, 6}
    BY <1>1
  <2> QED
    BY <1>1, <2>1
<1>3. \A ty \in DOMAIN AutoSplits : \E j \in 1 .. Len(s) : s[j] = ty
  <2>1. DOMAIN AutoSplits = {"deposit", "donate", "purchase", "refund", "socialhour", "writeoff"}
    BY DEF AutoSplits
  <2>2. \A j \in {1, 2, 3, 4, 5, 6} : j \in 1 .. Len(s)
    BY <1>1
  <2> QED
    BY <1>1, <2>1, <2>2
<1> HIDE DEF s
<1>4. IsKeptTo(f, s, T, Len(s))
  BY <1>1, KeptToExists
<1>5. k = f[Len(s)]
  BY DEF Kept, IsKeptTo, s
<1> HIDE DEF f
<1>6. PICK S : S = {s[l] : l \in 1 .. Len(s)}
  OBVIOUS
<1>7. OnceIn(s, T, Len(s)) /\ \A j \in 1 .. Len(s) : s[j] \in S
  BY <1>2, <1>6 DEF OnceIn
<1>8. Lists(k, s, T, Len(s))
  BY <1>1, <1>4, <1>5, <1>7, KeptToMembers
<1> QED
  BY <1>3, <1>8 DEF Lists

LEMMA SyncListRight == ASSUME Inv, BooksFinite, CronRight, ~disturbed, SyncList PROVE CronRight'
<1> DEFINE old == {[id |-> t, name |-> head[t].name] : t \in {t \in Txs : head[t].auto /\ Day(head[t].at) = sync.day}}
           stale == sync.day \notin DOMAIN deposits
                    \/ deposits[sync.day][1] - deposits[sync.day][2] # sync.liabilities
           kept == {ty \in DOMAIN AutoSplits : sync.sums[ty] # 0 \/ \E o \in old : o.name = ty}
           todo == Kept(AutoOrder, kept)
           s == [sync EXCEPT !.old = old, !.redo = stale, !.todo = todo]
<1>1. sync.pc = "list" /\ UNCHANGED tables /\ sync' = Proceed(s)
  BY DEF SyncList
<1>2. /\ sync \in Working /\ Progress(sync) /\ sync.liabilities = UpTo(sync.day)
      /\ PastRight(sync) /\ SumsRight(sync)
  BY <1>1, OnDay
<1>3. old = {[id |-> t, name |-> head[t].name] : t \in AutosIn({sync.day})}
  <2>1. AutosIn({sync.day}) = {t \in Txs : head[t].auto /\ Day(head[t].at) = sync.day}
    BY DEF AutosIn
  <2> QED
    BY <2>1
<1>4. old \in SUBSET Olds
  <2>1. \A t \in AutosIn({sync.day}) : t \in Transactions /\ head[t].name \in Texts
    <3> TAKE t \in AutosIn({sync.day})
    <3>1. t \in DOMAIN head /\ t \in Transactions /\ head[t] \in Header
      BY DEF Inv, TypeOK, AutosIn, Txs
    <3> QED
      BY <3>1 DEF Header
  <2> HIDE DEF old
  <2> QED
    BY <1>3, <2>1 DEF Olds
<1>5. todo \in Seq(DOMAIN AutoSplits)
  <2>1. AutoOrder \in Seq(DOMAIN AutoSplits)
    BY DEF AutoOrder, AutoSplits
  <2> QED
    BY <2>1, KeptType
<1>6. stale \in BOOLEAN /\ (stale \/ (sync.day \in DOMAIN deposits
                                        /\ deposits[sync.day][1] - deposits[sync.day][2] = sync.liabilities))
  OBVIOUS
<1>7. \A ty \in DOMAIN AutoSplits : ty \in kept <=> sync.sums[ty] # 0 \/ \E o \in old : o.name = ty
  OBVIOUS
<1> HIDE DEF old, stale, kept
<1>8. /\ \A i, j \in 1 .. Len(todo) : todo[i] = todo[j] => i = j
      /\ \A ty \in DOMAIN AutoSplits : ty \in kept => \E i \in 1 .. Len(todo) : todo[i] = ty
  BY TypesKept
<1> HIDE DEF todo
<1>9. s \in Working
  BY <1>2, <1>4, <1>5, <1>6 DEF Working
<1>10. /\ s.pc = "list" /\ s.day = sync.day /\ s.last = sync.last /\ s.liabilities = sync.liabilities
       /\ s.odd = sync.odd /\ s.sums = sync.sums /\ s.old = old /\ s.todo = todo /\ s.redo = stale
  BY <1>1, <1>2 DEF Working
<1> HIDE DEF s
<1>11. Progress(s) /\ s.liabilities = UpTo(s.day) /\ PastRight(s) /\ s.pc # "done"
  BY <1>1, <1>2, <1>10 DEF Progress, PastRight
<1>12. Worth(s) = Worth(sync)
  BY <1>10 DEF Worth
<1>13. SumsRight(s)
  BY <1>2, <1>10, <1>12 DEF SumsRight
<1>14. s.redo \/ Summed(s.day)
  BY <1>2, <1>6, <1>10 DEF Summed
<1>15. OldRight(s, {}) /\ HandRight(s, {}) /\ TodoOnce(s)
  BY <1>3, <1>8, <1>10 DEF OldRight, HandRight, TodoOnce
<1>16. Entered(s, {}) = {}
  <2> SUFFICES ASSUME NEW t \in AutosIn({sync.day}) PROVE \E o \in old : o.id = t
    BY <1>10 DEF Entered
  <2>1. [id |-> t, name |-> head[t].name] \in old
    BY <1>3
  <2> QED
    BY <2>1
<1>17. EnteredRight(s, {})
  BY <1>16 DEF EnteredRight
<1>18. AllEntered(s, {})
  <2> SUFFICES ASSUME NEW ty \in DOMAIN AutoSplits, ty \notin Left(s) PROVE Worth(s)[ty] = 0
    BY DEF AllEntered
  <2>1. ty \notin kept
    BY <1>8, <1>10 DEF Left
  <2>2. s.sums[ty] = 0
    BY <1>7, <1>10, <2>1
  <2> QED
    BY <2>2 DEF Worth, Signed
<1>19. Ready(s)
  BY <1>11, <1>13, <1>14, <1>15, <1>17, <1>18 DEF Ready, DayRight
<1> QED
  BY <1>1, <1>9, <1>19, QuietlyOn

(* A type is done with: the job proceeds to the next, with one transaction   *)
(* more or, when the type has no sum, with none.                             *)
DoneWith(s, H, x) ==
  /\ x.todo = Tail(s.todo) /\ x.sums = s.sums
  /\ \/ /\ Entered(x, {})' = Entered(s, H) /\ Worth(s)[Head(s.todo)] = 0
     \/ \E t : /\ Entered(x, {})' = Entered(s, H) \cup {t}
               /\ head'[t].name = Head(s.todo) /\ Posted'[t] = Worth(s)[Head(s.todo)]
LEMMA EnteredMore ==
  ASSUME NEW s, NEW x, NEW H, s.todo \in Seq(DOMAIN AutoSplits), s.todo # <<>>, TodoOnce(s),
         EnteredRight(s, H), AllEntered(s, H), DoneWith(s, H, x),
         SameOn(Entered(s, H), head, Posted, head', Posted')
  PROVE  TodoOnce(x) /\ EnteredRight(x, {})' /\ AllEntered(x, {})'
<1>1. PICK E, F, K, L, w, ty :
        /\ E = Entered(s, H) /\ F = Entered(x, {})' /\ K = DOMAIN AutoSplits \ Left(s) /\ ty = Head(s.todo)
        /\ L = DOMAIN AutoSplits \ Left(x) /\ w = Worth(s)
  OBVIOUS
<1>2. TodoOnce(x) /\ L = K \cup {ty} /\ ty \notin K
  BY <1>1, TypesLeft DEF DoneWith
<1>3. EachOnce(E, head, Posted, w, K) /\ AllOf(E, head, w, K)
  BY <1>1 DEF EnteredRight, AllEntered, EachOnce, AllOf
<1>4. (F = E /\ w[ty] = 0) \/ \E t : F = E \cup {t} /\ head'[t].name = ty /\ Posted'[t] = w[ty]
  BY <1>1 DEF DoneWith
<1>5. PICK n, p, m, q : n = head /\ p = Posted /\ m = head' /\ q = Posted'
  OBVIOUS
<1>6. EachOnce(F, m, q, w, L) /\ AllOf(F, m, w, L)
  <2>1. /\ EachOnce(E, n, p, w, K) /\ AllOf(E, n, w, K) /\ SameOn(E, n, p, m, q)
        /\ ((F = E /\ w[ty] = 0) \/ \E t : F = E \cup {t} /\ m[t].name = ty /\ q[t] = w[ty])
    BY <1>1, <1>3, <1>4, <1>5
  <2> QED
    BY <1>2, <2>1, TypeDone
<1>7. Worth(x)' = w /\ Left(x)' = Left(x)
  BY <1>1 DEF DoneWith, Worth, Left
<1>8. EnteredRight(x, {})'
  BY <1>1, <1>5, <1>6, <1>7 DEF EachOnce, EnteredRight
<1>9. AllEntered(x, {})'
  BY <1>1, <1>5, <1>6, <1>7 DEF AllOf, AllEntered
<1> QED
  BY <1>2, <1>8, <1>9

(* Or the types left are the same.                                           *)
LEMMA EnteredSame ==
  ASSUME NEW s, NEW x, NEW H, NEW G, EnteredRight(s, H), AllEntered(s, H),
         Entered(x, G)' = Entered(s, H), x.sums = s.sums, x.todo = s.todo,
         SameOn(Entered(s, H), head, Posted, head', Posted')
  PROVE  EnteredRight(x, G)' /\ AllEntered(x, G)'
<1>1. PICK E, K, w, n, p, m, q :
        /\ E = Entered(s, H) /\ K = DOMAIN AutoSplits \ Left(s) /\ w = Worth(s)
        /\ n = head /\ p = Posted /\ m = head' /\ q = Posted'
  OBVIOUS
<1>2. EachOnce(E, n, p, w, K) /\ AllOf(E, n, w, K) /\ SameOn(E, n, p, m, q)
  BY <1>1 DEF EnteredRight, AllEntered, EachOnce, AllOf
<1>3. EachOnce(E, m, q, w, K) /\ AllOf(E, m, w, K)
  <2>1. \A t \in E : m[t].name = n[t].name /\ q[t] = p[t]
    BY <1>2 DEF SameOn
  <2>2. EachOnce(E, m, q, w, K)
    BY <1>2, <2>1 DEF EachOnce
  <2>3. AllOf(E, m, w, K)
    BY <1>2, <2>1 DEF AllOf
  <2> QED
    BY <2>2, <2>3
<1>4. Worth(x)' = w /\ DOMAIN AutoSplits \ Left(x)' = K /\ Entered(x, G)' = E
  BY <1>1 DEF Worth, Left
<1>5. EnteredRight(x, G)'
  BY <1>1, <1>3, <1>4 DEF EachOnce, EnteredRight
<1>6. AllEntered(x, G)'
  BY <1>1, <1>3, <1>4 DEF AllOf, AllEntered
<1> QED
  BY <1>5, <1>6

LEMMA SyncMatchRight == ASSUME Inv, BooksFinite, CronRight, ~disturbed, SyncMatch PROVE CronRight'
<1> DEFINE ty == Head(sync.todo)
<1>1. sync.pc = "match" /\ UNCHANGED tables
  BY DEF SyncMatch
<1>2. /\ sync \in Working /\ JobRight(sync) /\ Progress(sync) /\ sync.liabilities = UpTo(sync.day)
      /\ PastRight(sync) /\ SumsRight(sync) /\ rows \in [DOMAIN head -> Seq(Line)]
      /\ sync.pc \in Stages /\ InHand(sync) = {}
  BY <1>1, OnDay DEF Stages, InHand
<1>3. /\ sync.redo \/ Summed(sync.day)
      /\ OldRight(sync, {}) /\ TodoOnce(sync) /\ EnteredRight(sync, {}) /\ AllEntered(sync, {})
  BY <1>2 DEF JobRight, DayRight
<1>4. sync.todo # <<>> /\ sync.todo \in Seq(DOMAIN AutoSplits) /\ sync.old \in SUBSET Olds
  BY <1>1, <1>2 DEF Inv, JobSound, Working
<1>5. ty \in DOMAIN AutoSplits /\ ty \in Left(sync) /\ Tail(sync.todo) \in Seq(DOMAIN AutoSplits)
  <2>1. PICK x : x = [todo |-> Tail(sync.todo)]
    OBVIOUS
  <2>2. x.todo = Tail(sync.todo)
    BY <2>1
  <2> QED
    BY <1>3, <1>4, <2>2, TypesLeft, HeadTailProperties
<1>6. \A o \in sync.old : o.id \in AutosIn({sync.day}) /\ head[o.id].name = o.name /\ o.id \in DOMAIN head
  BY <1>3 DEF OldRight, AutosIn, Txs
<1>7. \A o, p \in sync.old : o.id = p.id => o = p
  <2> TAKE o, p \in sync.old
  <2>1. o \in Olds /\ p \in Olds /\ (o.id = p.id => o.name = p.name)
    BY <1>4, <1>6
  <2> QED
    BY <2>1 DEF Olds
<1>8. CASE sync' = [sync EXCEPT !.pc = "insert"]
  <2>1. PICK s : s = [sync EXCEPT !.pc = "insert"]
    OBVIOUS
  <2>2. SameDay(sync, s) /\ s.pc = "insert" /\ s.redo = sync.redo
    BY <1>2, <2>1 DEF Working, SameDay
  <2>3. Progress(s) /\ ReadTo(s)
    BY <1>1, <1>2, <2>2 DEF Progress, ReadTo, SameDay
  <2>4. PastRight(s) /\ SumsRight(s) /\ OldRight(s, {}) /\ TodoOnce(s) /\ EnteredRight(s, {}) /\ AllEntered(s, {})
    BY <1>2, <1>3, <2>2, SameDayRight
  <2>5. (s.redo \/ Summed(s.day)) /\ HandRight(s, {}) /\ InHand(s) = {} /\ StageRight(s)
    BY <1>3, <2>2 DEF SameDay, HandRight, InHand, StageRight
  <2>6. JobRight(s)
    BY <2>3, <2>4, <2>5 DEF JobRight, DayRight
  <2> QED
    BY <1>1, <1>8, <2>1, <2>6, QuietlyRight
<1>9. ASSUME NEW o \in sync.old, o.name = ty, sync' = [sync EXCEPT !.pc = "delete", !.of = o.id, !.old = @ \ {o}]
      PROVE  CronRight'
  <2>1. PICK s : s = sync'
    OBVIOUS
  <2>2. /\ s.pc = "delete" /\ s.of = o.id /\ s.old = sync.old \ {o} /\ s.redo = sync.redo
        /\ s.day = sync.day /\ s.last = sync.last /\ s.liabilities = sync.liabilities
        /\ s.odd = sync.odd /\ s.sums = sync.sums /\ s.todo = sync.todo
    BY <1>2, <1>9, <2>1 DEF Working
  <2>3. Progress(s) /\ ReadTo(s) /\ PastRight(s)
    BY <1>1, <1>2, <2>2 DEF Progress, ReadTo, PastRight
  <2>4. Worth(s) = Worth(sync) /\ Left(s) = Left(sync)
    BY <2>2 DEF Worth, Left
  <2>5. SumsRight(s) /\ TodoOnce(s) /\ (s.redo \/ Summed(s.day))
    BY <1>2, <1>3, <2>2, <2>4 DEF SumsRight, TodoOnce
  <2>6. InHand(s) = {o.id}
    BY <2>2 DEF InHand
  <2>7. Entered(s, {o.id}) = Entered(sync, {})
    BY <1>9, <2>2 DEF Entered
  <2>8. EnteredRight(s, {o.id}) /\ AllEntered(s, {o.id})
    BY <1>3, <2>4, <2>7 DEF EnteredRight, AllEntered
  <2>9. OldRight(s, {o.id})
    <3> SUFFICES ASSUME NEW p \in s.old PROVE p.id \in AutosIn({s.day}) \ {o.id} /\ head[p.id].name = p.name
      BY DEF OldRight
    <3>1. p \in sync.old /\ p # o
      BY <2>2
    <3> QED
      BY <1>6, <1>7, <1>9, <2>2, <3>1
  <2>10. HandRight(s, {o.id})
    BY <1>6, <1>9, <2>2 DEF HandRight
  <2>11. StageRight(s)
    BY <2>2 DEF StageRight
  <2>12. JobRight(s)
    BY <2>3, <2>5, <2>6, <2>8, <2>9, <2>10, <2>11 DEF JobRight, DayRight
  <2> QED
    BY <1>1, <2>1, <2>12, QuietlyRight
<1>10. ASSUME NEW o \in sync.old, o.name = ty, Matches(o.id, ty),
              sync' = Proceed([sync EXCEPT !.todo = Tail(@), !.old = @ \ {o}])
       PROVE  CronRight'
  <2>1. PICK x : x = [sync EXCEPT !.todo = Tail(@), !.old = @ \ {o}]
    OBVIOUS
  <2>2. /\ x.pc = "match" /\ x.old = sync.old \ {o} /\ x.redo = sync.redo
        /\ x.day = sync.day /\ x.last = sync.last /\ x.liabilities = sync.liabilities
        /\ x.odd = sync.odd /\ x.sums = sync.sums /\ x.todo = Tail(sync.todo)
    BY <1>1, <1>2, <2>1 DEF Working
  <2>3. x \in Working
    <3>1. sync.old \ {o} \in SUBSET Olds
      BY <1>4
    <3> QED
      BY <1>2, <1>5, <2>1, <3>1 DEF Working
  <2>4. Progress(x) /\ x.liabilities = UpTo(x.day) /\ PastRight(x) /\ x.pc # "done" /\ (x.redo \/ Summed(x.day))
    BY <1>1, <1>2, <1>3, <2>2 DEF Progress, PastRight
  <2>5. Worth(x) = Worth(sync)
    BY <2>2 DEF Worth
  <2>6. SumsRight(x)
    BY <1>2, <2>2, <2>5 DEF SumsRight
  <2>7. OldRight(x, {}) /\ HandRight(x, {})
    BY <1>6, <2>2 DEF OldRight, HandRight
  <2>8. Posted[o.id] = Worth(sync)[ty]
    <3>1. rows[o.id] \in Seq(Line) /\ o.id \in DOMAIN rows
      BY <1>2, <1>6
    <3>2. sync.sums[ty] \in Int
      BY <1>2, <1>5 DEF Working
    <3>3. OnAccount(rows[o.id], "deposits") = Signed(ty, sync.sums[ty])
      <4> HIDE DEF ty
      <4>1. /\ Len(rows[o.id]) = Len(NeededSplits(ty, sync.sums[ty]))
            /\ ToSet(rows[o.id]) = ToSet(NeededSplits(ty, sync.sums[ty]))
        BY <1>10, <3>1 DEF Matches
      <4> QED
        BY <1>5, <3>1, <3>2, <4>1, MatchedOnAccount
    <3> QED
      BY <1>5, <1>6, <3>3 DEF Posted, Worth
  <2>9. Entered(x, {}) = Entered(sync, {}) \cup {o.id}
    BY <1>6, <1>7, <2>2 DEF Entered
  <2>10. /\ EachOnce(Entered(sync, {}), head, Posted, Worth(sync), DOMAIN AutoSplits \ Left(sync))
         /\ AllOf(Entered(sync, {}), head, Worth(sync), DOMAIN AutoSplits \ Left(sync))
    BY <1>3 DEF EnteredRight, AllEntered, EachOnce, AllOf
  <2>11. TodoOnce(x) /\ DOMAIN AutoSplits \ Left(x) = (DOMAIN AutoSplits \ Left(sync)) \cup {ty}
    BY <1>3, <1>4, <2>2, TypesLeft
  <2>12. /\ EachOnce(Entered(x, {}), head, Posted, Worth(x), DOMAIN AutoSplits \ Left(x))
         /\ AllOf(Entered(x, {}), head, Worth(x), DOMAIN AutoSplits \ Left(x))
    <3>1. PICK E, F, K, w, n, p :
            /\ E = Entered(sync, {}) /\ F = Entered(x, {}) /\ K = DOMAIN AutoSplits \ Left(sync)
            /\ w = Worth(sync) /\ n = head /\ p = Posted
      OBVIOUS
    <3>2. EachOnce(E, n, p, w, K) /\ AllOf(E, n, w, K) /\ SameOn(E, n, p, n, p) /\ ty \notin K
      BY <1>5, <2>10, <3>1 DEF SameOn
    <3>3. n[o.id].name = ty /\ p[o.id] = w[ty] /\ F = E \cup {o.id}
      BY <1>6, <1>10, <2>8, <2>9, <3>1
    <3> HIDE DEF ty
    <3>4. EachOnce(F, n, p, w, K \cup {ty}) /\ AllOf(F, n, w, K \cup {ty})
      BY <3>2, <3>3, TypeDone
    <3> QED
      BY <2>5, <2>11, <3>1, <3>4
  <2>13. EnteredRight(x, {}) /\ AllEntered(x, {})
    BY <2>12 DEF EnteredRight, AllEntered, EachOnce, AllOf
  <2>14. Ready(x)
    BY <2>4, <2>6, <2>7, <2>11, <2>13 DEF Ready, DayRight
  <2> QED
    BY <1>1, <1>10, <2>1, <2>3, <2>14, QuietlyOn
<1>11. \/ sync' = [sync EXCEPT !.pc = "insert"]
       \/ \E o \in sync.old : /\ o.name = ty
                              /\ \/ sync' = [sync EXCEPT !.pc = "delete", !.of = o.id, !.old = @ \ {o}]
                                 \/ /\ Matches(o.id, ty)
                                    /\ sync' = Proceed([sync EXCEPT !.todo = Tail(@), !.old = @ \ {o}])
  BY DEF SyncMatch
<1> HIDE DEF ty
<1> QED
  BY <1>8, <1>9, <1>10, <1>11

LEMMA SyncPositiveRight == ASSUME Inv, BooksFinite, CronRight, ~disturbed, SyncPositive PROVE CronRight'
<1> DEFINE S == Owing(sync.day, 1)
           owed == IF S = {} THEN <<>> ELSE <<Owed(S, sync.day)>>
<1>1. /\ sync.pc = "positive" /\ UNCHANGED tables
      /\ sync' = [sync EXCEPT !.pc = "negative", !.owed = owed]
  BY DEF SyncPositive
<1>2. /\ sync \in Working /\ JobRight(sync) /\ Progress(sync) /\ sync.liabilities = UpTo(sync.day)
      /\ PastRight(sync) /\ SumsRight(sync) /\ sync.pc \in Stages /\ InHand(sync) = {} /\ sync.day \in Nat
      /\ log \in Seq(LogRow)
  BY <1>1, OnDay DEF Stages, InHand
<1>3. DayRight(sync, {}) /\ StageRight(sync)
  BY <1>2 DEF JobRight
<1>4. owed # <<>> => owed[1] = Positive(sync.day)
  <2>1. Positive(sync.day) = Owed(S, sync.day)
    BY <1>2, HasIs
  <2> HIDE DEF S
  <2> QED
    BY <2>1
<1> HIDE DEF owed
<1>5. PICK s : s = [sync EXCEPT !.pc = "negative", !.owed = owed]
  OBVIOUS
<1>6. SameDay(sync, s) /\ s.pc = "negative" /\ s.redo = sync.redo /\ s.owed = owed
  BY <1>2, <1>5 DEF Working, SameDay
<1>7. Progress(s) /\ ReadTo(s)
  BY <1>1, <1>2, <1>6 DEF Progress, ReadTo, SameDay
<1>8. PastRight(s) /\ SumsRight(s) /\ OldRight(s, {}) /\ TodoOnce(s) /\ EnteredRight(s, {}) /\ AllEntered(s, {})
  BY <1>2, <1>3, <1>6, SameDayRight DEF DayRight
<1>9. (s.redo \/ Summed(s.day)) /\ HandRight(s, {}) /\ InHand(s) = {}
  BY <1>3, <1>6 DEF SameDay, HandRight, InHand, DayRight
<1>10. StageRight(s)
  BY <1>1, <1>3, <1>4, <1>6 DEF StageRight, SameDay
<1>11. JobRight(s)
  BY <1>7, <1>8, <1>9, <1>10 DEF JobRight, DayRight
<1> QED
  BY <1>1, <1>5, <1>11, QuietlyRight

(* The state the job proceeds from, when it has changed the tables.          *)
LEMMA BusilyOn ==
  ASSUME Inv', BooksFinite', NEW s \in Working, sync' = Proceed(s), Ready(s)'
  PROVE  CronRight'
<1>1. ProceedsRight'
  BY ProceedRight, PTL
<1>2. PICK t : t = Proceed(s)
  OBVIOUS
<1>3. Proceed(s)' = t
  BY <1>2 DEF Proceed
<1>4. Working' = Working
  BY DEF Working, Olds
<1>5. JobRight(t)'
  BY <1>1, <1>3, <1>4 DEF ProceedsRight
<1> QED
  BY <1>2, <1>5, RightAfter

LEMMA SyncNegativeRight == ASSUME Inv, Inv', BooksFinite, BooksFinite', CronRight, ~disturbed, SyncNegative PROVE CronRight'
<1> DEFINE neg == Owed(Owing(sync.day, -1), sync.day)
<1>1. /\ sync.pc = "negative" /\ UNCHANGED <<log, head, rows>>
      /\ \/ sync' = [pc |-> "died", runs |-> sync.runs]
         \/ /\ sync.owed # <<>> /\ deposits' = Add(deposits, sync.day, <<sync.owed[1], -neg>>)
            /\ sync' = Proceed([sync EXCEPT !.redo = FALSE])
  BY DEF SyncNegative
<1>2. CASE sync' = [pc |-> "died", runs |-> sync.runs]
  BY <1>2 DEF CronRight
<1>3. /\ sync \in Working /\ JobRight(sync) /\ Progress(sync) /\ sync.liabilities = UpTo(sync.day)
      /\ PastRight(sync) /\ SumsRight(sync) /\ sync.pc \in Stages /\ InHand(sync) = {} /\ sync.day \in Nat
      /\ log \in Seq(LogRow)
  BY <1>1, OnDay DEF Stages, InHand
<1>4. DayRight(sync, {}) /\ StageRight(sync)
  BY <1>3 DEF JobRight
<1>5. CASE /\ sync.owed # <<>> /\ deposits' = Add(deposits, sync.day, <<sync.owed[1], -neg>>)
           /\ sync' = Proceed([sync EXCEPT !.redo = FALSE])
  <2>1. PICK d, a, b : d = sync.day /\ a = sync.owed[1] /\ b = -neg
    OBVIOUS
  <2>2. deposits' = Add(deposits, d, <<a, b>>)
    BY <1>5, <2>1
  <2>3. a - b = UpTo(d)
    <3>1. a = Owed(Owing(d, 1), d)
      BY <1>1, <1>3, <1>4, <1>5, <2>1, HasIs DEF StageRight
    <3>2. Owed(Owing(d, 1), d) - (-Owed(Owing(d, -1), d)) = LogSum(LogUntil(d))
      BY <1>3, SummaryAddsUp
    <3>3. b = -Owed(Owing(d, -1), d)
      BY <2>1
    <3>4. a - b = LogSum(LogUntil(d))
      BY <3>1, <3>2, <3>3
    <3>5. d \in Int
      BY <1>3, <2>1
    <3> QED
      BY <1>3, <3>4, <3>5, UpToIs
  <2>4. /\ Days' = Days /\ Posted' = Posted /\ \A D : AutosIn(D)' = AutosIn(D)
        /\ \A e : UpTo(e)' = UpTo(e) /\ Booking(e)' = Booking(e)
        /\ \A s : SumsRight(s) => SumsRight(s)'
    BY <1>1, LogStands, BooksStill
  <2>5. \A e : BookedTo(e)' <=> BookedTo(e)
    BY <2>4 DEF BookedTo
  <2>6. Summed(d)'
    <3>1. d \in DOMAIN deposits' /\ deposits'[d] = <<a, b>>
      BY <2>2 DEF Add
    <3>2. deposits'[d][1] - deposits'[d][2] = UpTo(d)
      BY <2>3, <3>1
    <3> QED
      BY <2>4, <3>1, <3>2 DEF Summed
  <2>7. \A e : Summed(e) => Summed(e)'
    <3> SUFFICES ASSUME NEW e, Summed(e), e # d PROVE Summed(e)'
      BY <2>6
    <3>1. e \in DOMAIN deposits' /\ deposits'[e] = deposits[e]
      BY <2>2 DEF Add, Summed
    <3> QED
      BY <2>4, <3>1 DEF Summed
  <2>8. PICK x : x = [sync EXCEPT !.redo = FALSE]
    OBVIOUS
  <2>9. x \in Working
    BY <1>3, <2>8 DEF Working
  <2>10. SameDay(sync, x) /\ x.pc = "negative" /\ x.redo = FALSE
    BY <1>1, <1>3, <2>8 DEF Working, SameDay
  <2>11. /\ PastRight(x) /\ SumsRight(x) /\ OldRight(x, {}) /\ TodoOnce(x)
         /\ EnteredRight(x, {}) /\ AllEntered(x, {})
    BY <1>3, <1>4, <2>10, SameDayRight DEF DayRight
  <2>12. Progress(x)' /\ (x.liabilities = UpTo(x.day))' /\ PastRight(x)' /\ SumsRight(x)'
    <3>1. Progress(x)'
      BY <1>1, <1>3, <2>4, <2>10 DEF Progress, SameDay
    <3>2. x.liabilities = UpTo(x.day)'
      BY <1>3, <2>4, <2>10 DEF SameDay
    <3>3. PastRight(x)'
      BY <2>4, <2>5, <2>7, <2>11 DEF PastRight
    <3> QED
      BY <2>4, <2>11, <3>1, <3>2, <3>3
  <2>13. Entered(x, {})' = Entered(x, {})
    BY <2>4 DEF Entered
  <2>14. OldRight(x, {})' /\ HandRight(x, {})'
    BY <1>1, <2>4, <2>11 DEF OldRight, HandRight
  <2>15. EnteredRight(x, {})' /\ AllEntered(x, {})' /\ TodoOnce(x)'
    BY <1>1, <2>4, <2>11, <2>13 DEF EnteredRight, AllEntered, TodoOnce
  <2>16. Summed(x.day)'
    BY <2>1, <2>6, <2>10 DEF SameDay
  <2>17. Ready(x)'
    BY <2>10, <2>12, <2>14, <2>15, <2>16 DEF Ready, DayRight
  <2> QED
    BY <1>5, <2>8, <2>9, <2>17, BusilyOn
<1> HIDE DEF neg
<1> QED
  BY <1>1, <1>2, <1>5

(* The steps that change one automatic transaction of the day, x: what is    *)
(* booked on earlier days stands, and so do the other transactions.          *)
OthersStand(x) ==
  \A t : t # x => /\ t \in DOMAIN head' <=> t \in DOMAIN head
                  /\ t \in DOMAIN head => head'[t] = head[t] /\ rows'[t] = rows[t]
OfDay(x, d) == x \in DOMAIN head => Day(head[x].at) = d
LEMMA OneChanges ==
  ASSUME Inv, Inv', BooksFinite, BooksFinite', UNCHANGED <<log, deposits>>, NEW x, NEW d,
         OthersStand(x), OfDay(x, d), OfDay(x, d)'
  PROVE  /\ \A D : AutosIn(D)' \ {x} = AutosIn(D) \ {x}
         /\ \A t \in DOMAIN head : t # x => Posted'[t] = Posted[t]
         /\ \A D : d \notin D => SumOf(AutosIn(D), Posted)' = SumOf(AutosIn(D), Posted)
<1>1. \A t : t # x => (t \in Txs' <=> t \in Txs)
  BY DEF OthersStand, Txs
<1>2. ASSUME NEW D, NEW t, t # x PROVE t \in AutosIn(D)' <=> t \in AutosIn(D)
  <2>1. t \in Txs => head'[t] = head[t]
    BY <1>2 DEF OthersStand, Txs
  <2> QED
    BY <1>1, <1>2, <2>1 DEF AutosIn
<1>3. \A t \in DOMAIN head : t # x => Posted'[t] = Posted[t] /\ t \in DOMAIN head'
  BY DEF OthersStand, Posted
<1>4. ASSUME NEW D, d \notin D PROVE SumOf(AutosIn(D), Posted)' = SumOf(AutosIn(D), Posted)
  <2>1. x \notin AutosIn(D) /\ x \notin AutosIn(D)'
    BY <1>4 DEF AutosIn, OfDay, Txs
  <2>2. AutosIn(D)' = AutosIn(D)
    BY <1>2, <2>1
  <2>3. IsFiniteSet(AutosIn(D)) /\ AutosIn(D) \subseteq DOMAIN head
    BY AutosAre DEF Inv, TypeOK
  <2>4. \A t \in AutosIn(D) : Posted[t] = Posted'[t]
    BY <1>3, <2>1, <2>3
  <2>5. PICK S, p, q : S = AutosIn(D) /\ p = Posted /\ q = Posted'
    OBVIOUS
  <2>6. SumOf(S, p) = SumOf(S, q)
    <3>1. IsFiniteSet(S) /\ \A t \in S : p[t] = q[t]
      BY <2>3, <2>4, <2>5
    <3> QED
      BY <3>1, SumOfSame
  <2>7. SumOf(AutosIn(D), Posted)' = SumOf(AutosIn(D)', Posted')
    BY DEF SumOf
  <2> QED
    BY <2>2, <2>5, <2>6, <2>7
<1>5. \A D : AutosIn(D)' \ {x} = AutosIn(D) \ {x}
  BY <1>2
<1> QED
  BY <1>3, <1>4, <1>5

(* So do the facts of the job on its day.                                    *)
LEMMA DaysStand ==
  ASSUME Inv, Inv', BooksFinite, BooksFinite', CronRight, ~disturbed, sync.pc \in Stages,
         UNCHANGED <<log, deposits>>, NEW x, OthersStand(x), NEW d, d = sync.day, OfDay(x, d), OfDay(x, d)',
         NEW s, s.day = sync.day, s.last = sync.last, s.liabilities = sync.liabilities, s.odd = sync.odd,
         s.sums = sync.sums, s.pc # "done"
  PROVE  Progress(s)' /\ (s.liabilities = UpTo(s.day))' /\ PastRight(s)' /\ SumsRight(s)'
<1>1. /\ Progress(sync) /\ sync.liabilities = UpTo(sync.day) /\ PastRight(sync) /\ SumsRight(sync)
      /\ sync.day \in Nat
  BY OnDay
<1>2. /\ Days' = Days /\ \A e : UpTo(e)' = UpTo(e) /\ Booking(e)' = Booking(e)
      /\ \A t : SumsRight(t) => SumsRight(t)'
  BY LogStands
<1>3. ASSUME NEW e \in Int, e < d, BookedTo(e) PROVE BookedTo(e)'
  <2>1. d \notin Min(Days) .. e /\ Min(Days)' = Min(Days)
    BY <1>1, <1>2, <1>3 DEF Progress
  <2>2. SumOf(AutosIn(Min(Days) .. e), Posted)' = SumOf(AutosIn(Min(Days) .. e), Posted)
    BY <2>1, OneChanges
  <2> QED
    BY <1>2, <1>3, <2>1, <2>2 DEF BookedTo
<1>4. \A e : Summed(e) => Summed(e)'
  BY <1>2 DEF Summed
<1>5. Progress(s)'
  BY <1>1, <1>2 DEF Progress
<1>6. s.liabilities = UpTo(s.day)'
  BY <1>1, <1>2
<1>7. SumsRight(s)'
  <2>1. Worth(s) = Worth(sync)
    BY DEF Worth
  <2>2. SumsRight(s)
    BY <1>1, <2>1 DEF SumsRight
  <2> QED
    BY <1>2, <2>2
<1>8. PastRight(s)'
  <2>0. Min(Days) \in Nat /\ s.day = d /\ d \in Nat /\ (s.odd = {} => BookedTo(d - 1))
        /\ \A e \in Min(Days) .. d - 1 : Summed(e) /\ (s.odd = {} => BookedTo(e))
    <3>1. log \in Seq(LogRow) /\ log # <<>>
      BY <1>1 DEF Inv, TypeOK, Progress
    <3> QED
      BY <1>1, <3>1, FirstAndLast DEF PastRight
  <2>1. s.odd = {} => BookedTo(d - 1)'
    <3>1. d - 1 \in Int /\ d - 1 < d
      BY <2>0
    <3> QED
      BY <1>3, <2>0, <3>1
  <2>2. ASSUME NEW e \in Min(Days) .. d - 1 PROVE Summed(e)' /\ (s.odd = {} => BookedTo(e)')
    <3>1. e \in Int /\ e < d
      BY <2>0
    <3> QED
      BY <1>3, <1>4, <2>0, <3>1
  <2> QED
    BY <1>2, <2>0, <2>1, <2>2 DEF PastRight
<1> QED
  BY <1>5, <1>6, <1>7, <1>8

LEMMA SyncDeleteRight ==
  ASSUME Inv, Inv', BooksFinite, BooksFinite', CronRight, ~disturbed, SyncDelete
  PROVE  CronRight'
<1> DEFINE ty == Head(sync.todo)
<1>1. /\ sync.pc = "delete" /\ head' = Drop(head, sync.of) /\ rows' = Drop(rows, sync.of)
      /\ UNCHANGED <<log, deposits>>
      /\ \/ /\ sync.sums[ty] # 0
            /\ sync' = [sync EXCEPT !.pc = "insert", !.redo = TRUE]
         \/ /\ sync.sums[ty] = 0
            /\ sync' = Proceed([sync EXCEPT !.todo = Tail(@), !.redo = TRUE])
  BY DEF SyncDelete
<1>2. PICK x, d : x = sync.of /\ d = sync.day
  OBVIOUS
<1>3. /\ sync \in Working /\ JobRight(sync) /\ sync.pc \in Stages /\ InHand(sync) = {x}
      /\ rows \in [DOMAIN head -> Seq(Line)]
  BY <1>1, <1>2, OnDay DEF Stages, InHand
<1>4. /\ OldRight(sync, {x}) /\ HandRight(sync, {x}) /\ TodoOnce(sync)
      /\ EnteredRight(sync, {x}) /\ AllEntered(sync, {x})
  BY <1>3 DEF JobRight, DayRight
<1>5. sync.todo # <<>> /\ sync.todo \in Seq(DOMAIN AutoSplits)
  BY <1>1, <1>3 DEF Inv, JobSound, Working
<1>6. DOMAIN head' = DOMAIN head \ {x} /\ \A t \in DOMAIN head \ {x} : head'[t] = head[t] /\ rows'[t] = rows[t]
  BY <1>1, <1>2, <1>3 DEF Drop
<1>7. OthersStand(x)
  BY <1>6 DEF OthersStand
<1>8. OfDay(x, d) /\ OfDay(x, d)'
  BY <1>2, <1>4, <1>6 DEF HandRight, AutosIn, OfDay
<1>9. AutosIn({d})' = AutosIn({d}) \ {x} /\ \A t \in DOMAIN head : t # x => Posted'[t] = Posted[t]
  <2>1. /\ \A D : AutosIn(D)' \ {x} = AutosIn(D) \ {x}
        /\ \A t \in DOMAIN head : t # x => Posted'[t] = Posted[t]
    BY <1>1, <1>7, <1>8, OneChanges
  <2>2. x \notin AutosIn({d})'
    BY <1>6 DEF AutosIn, Txs
  <2> QED
    BY <2>1, <2>2
<1>10. SameOn(Entered(sync, {x}), head, Posted, head', Posted')
  <2>1. \A t \in Entered(sync, {x}) : t \in DOMAIN head /\ t # x
    BY DEF Entered, AutosIn, Txs
  <2> QED
    BY <1>6, <1>9, <2>1 DEF SameOn
<1>11. \A o \in sync.old : o.id \in AutosIn({d})' /\ head'[o.id].name = o.name
  <2> TAKE o \in sync.old
  <2>1. o.id \in AutosIn({d}) \ {x} /\ head[o.id].name = o.name
    BY <1>2, <1>4 DEF OldRight
  <2>2. o.id \in DOMAIN head \ {x}
    BY <2>1 DEF AutosIn, Txs
  <2> QED
    BY <1>6, <1>9, <2>1, <2>2
<1>12. ASSUME sync' = [sync EXCEPT !.pc = "insert", !.redo = TRUE] PROVE CronRight'
  <2>1. PICK s : s = sync'
    OBVIOUS
  <2>2. /\ s.pc = "insert" /\ s.old = sync.old /\ s.redo = TRUE
        /\ s.day = sync.day /\ s.last = sync.last /\ s.liabilities = sync.liabilities
        /\ s.odd = sync.odd /\ s.sums = sync.sums /\ s.todo = sync.todo
    BY <1>3, <1>12, <2>1 DEF Working
  <2>3. Progress(s)' /\ (s.liabilities = UpTo(s.day))' /\ PastRight(s)' /\ SumsRight(s)'
    BY <1>1, <1>2, <1>3, <1>7, <1>8, <2>2, DaysStand
  <2>4. Entered(s, {})' = Entered(sync, {x})
    BY <1>2, <1>9, <2>2 DEF Entered
  <2>5. EnteredRight(s, {})' /\ AllEntered(s, {})'
    BY <1>4, <1>10, <2>2, <2>4, EnteredSame
  <2>6. TodoOnce(s) /\ HandRight(s, {})' /\ TodoOnce(s)'
    BY <1>4, <2>2 DEF HandRight, TodoOnce
  <2>7. OldRight(s, {})'
    BY <1>2, <1>11, <2>2 DEF OldRight
  <2>8. DayRight(s, {})'
    BY <2>2, <2>5, <2>6, <2>7 DEF DayRight
  <2>9. InHand(s)' = {} /\ StageRight(s)' /\ ReadTo(s)'
    BY <2>2, <2>3 DEF InHand, StageRight, ReadTo
  <2>10. JobRight(s)'
    BY <2>3, <2>8, <2>9 DEF JobRight
  <2> QED
    BY <2>1, <2>10, RightAfter
<1>13. ASSUME sync.sums[ty] = 0, sync' = Proceed([sync EXCEPT !.todo = Tail(@), !.redo = TRUE]) PROVE CronRight'
  <2>1. PICK s : s = [sync EXCEPT !.todo = Tail(@), !.redo = TRUE]
    OBVIOUS
  <2>2. /\ s.pc = "delete" /\ s.old = sync.old /\ s.redo = TRUE
        /\ s.day = sync.day /\ s.last = sync.last /\ s.liabilities = sync.liabilities
        /\ s.odd = sync.odd /\ s.sums = sync.sums /\ s.todo = Tail(sync.todo)
    BY <1>1, <1>3, <2>1 DEF Working
  <2>3. s \in Working
    <3>1. Tail(sync.todo) \in Seq(DOMAIN AutoSplits)
      BY <1>5, HeadTailProperties
    <3> QED
      BY <1>3, <2>1, <3>1 DEF Working
  <2>4. Progress(s)' /\ (s.liabilities = UpTo(s.day))' /\ PastRight(s)' /\ SumsRight(s)'
    BY <1>1, <1>2, <1>3, <1>7, <1>8, <2>2, DaysStand
  <2>5. Entered(s, {})' = Entered(sync, {x})
    BY <1>2, <1>9, <2>2 DEF Entered
  <2>6. Worth(sync)[ty] = 0
    <3>1. ty \in DOMAIN AutoSplits
      BY <1>5
    <3> HIDE DEF ty
    <3> QED
      BY <1>13, <3>1 DEF Worth, Signed
  <2>7. DoneWith(sync, {x}, s)
    BY <2>2, <2>5, <2>6 DEF DoneWith
  <2>8. TodoOnce(s) /\ EnteredRight(s, {})' /\ AllEntered(s, {})'
    BY <1>4, <1>5, <1>10, <2>7, EnteredMore
  <2>9. OldRight(s, {})' /\ HandRight(s, {})' /\ TodoOnce(s)'
    BY <1>2, <1>11, <2>2, <2>8 DEF OldRight, HandRight, TodoOnce
  <2>10. DayRight(s, {})'
    BY <2>2, <2>8, <2>9 DEF DayRight
  <2>11. Ready(s)'
    BY <2>2, <2>4, <2>10 DEF Ready
  <2> QED
    BY <1>13, <2>1, <2>3, <2>11, BusilyOn
<1> HIDE DEF ty
<1> QED
  BY <1>1, <1>12, <1>13

LEMMA SyncInsertRight ==
  ASSUME Inv, Inv', BooksFinite, BooksFinite', CronRight, ~disturbed, SyncInsert
  PROVE  CronRight'
<1> DEFINE ty == Head(sync.todo)
           needed == NeededSplits(ty, sync.sums[ty])
           at == sync.day * DayLength
<1>1. /\ sync.pc = "insert" /\ UNCHANGED <<log, deposits>>
  BY DEF SyncInsert
<1>2. PICK id \in Fresh(Transactions) :
        /\ head' = Add(head, id, [at |-> at, auto |-> TRUE, name |-> ty])
        /\ rows' = Add(rows, id, <<>>)
        /\ sync' = [sync EXCEPT !.pc = "row", !.of = id, !.redo = TRUE, !.new = needed]
  BY DEF SyncInsert
<1>3. /\ sync \in Working /\ JobRight(sync) /\ sync.pc \in Stages /\ InHand(sync) = {} /\ sync.day \in Nat
      /\ rows \in [DOMAIN head -> Seq(Line)]
  BY <1>1, OnDay DEF Stages, InHand
<1>4. /\ OldRight(sync, {}) /\ TodoOnce(sync) /\ EnteredRight(sync, {}) /\ AllEntered(sync, {})
  BY <1>3 DEF JobRight, DayRight
<1>5. needed \in Seq(Line)
  <2>1. sync.todo # <<>> /\ sync.todo \in Seq(DOMAIN AutoSplits)
    BY <1>1, <1>3 DEF Inv, JobSound, Working
  <2>2. ty \in DOMAIN AutoSplits
    BY <2>1
  <2>3. sync.sums[ty] \in Int
    BY <1>3, <2>2 DEF Working
  <2> QED
    BY <2>2, <2>3, NeededBalances
<1>6. id \in Transactions /\ id \notin DOMAIN head
  BY FreshIds DEF Inv, TypeOK
<1>7. PICK d : d = sync.day
  OBVIOUS
<1> HIDE DEF ty, needed, at
<1>8. /\ DOMAIN head' = DOMAIN head \cup {id}
      /\ \A t \in DOMAIN head : t # id /\ head'[t] = head[t] /\ rows'[t] = rows[t]
      /\ head'[id].at = at /\ head'[id].auto /\ head'[id].name = ty /\ rows'[id] = <<>>
  BY <1>2, <1>3, <1>6, <1>7 DEF Add
<1>9. Day(head'[id].at) = d
  <2>1. DayLength \in Nat \ {0} /\ d \in Nat /\ head'[id].at = d * DayLength
    BY <1>3, <1>7, <1>8, FinanceConstants DEF at
  <2>2. (d * DayLength) \div DayLength = d
    BY <2>1
  <2> QED
    BY <2>1, <2>2 DEF Day
<1>10. OthersStand(id)
  BY <1>8 DEF OthersStand
<1>11. OfDay(id, d) /\ OfDay(id, d)'
  BY <1>6, <1>9 DEF OfDay
<1>12. /\ AutosIn({d})' = AutosIn({d}) \cup {id} /\ id \notin AutosIn({d})
       /\ \A t \in DOMAIN head : Posted'[t] = Posted[t]
  <2>1. /\ \A D : AutosIn(D)' \ {id} = AutosIn(D) \ {id}
        /\ \A t \in DOMAIN head : t # id => Posted'[t] = Posted[t]
    BY <1>1, <1>10, <1>11, OneChanges
  <2>2. id \in AutosIn({d})' /\ id \notin AutosIn({d})
    BY <1>6, <1>8, <1>9 DEF AutosIn, Txs
  <2> QED
    BY <1>6, <2>1, <2>2
<1>13. SameOn(Entered(sync, {}), head, Posted, head', Posted')
  <2>1. \A t \in Entered(sync, {}) : t \in DOMAIN head
    BY DEF Entered, AutosIn, Txs
  <2> QED
    BY <1>8, <1>12, <2>1 DEF SameOn
<1>14. PICK s : s = sync'
  OBVIOUS
<1>15. /\ s.pc = "row" /\ s.of = id /\ s.new = needed /\ s.old = sync.old /\ s.redo = TRUE
       /\ s.day = sync.day /\ s.last = sync.last /\ s.liabilities = sync.liabilities
       /\ s.odd = sync.odd /\ s.sums = sync.sums /\ s.todo = sync.todo
  BY <1>2, <1>3, <1>14 DEF Working
<1>16. Progress(s)' /\ (s.liabilities = UpTo(s.day))' /\ PastRight(s)' /\ SumsRight(s)'
  BY <1>1, <1>3, <1>7, <1>10, <1>11, <1>15, DaysStand
<1>17. \A o \in sync.old : o.id \in AutosIn({d}) /\ o.id # id /\ o.id \in DOMAIN head /\ head[o.id].name = o.name
  BY <1>4, <1>7, <1>12 DEF OldRight, AutosIn, Txs
<1>18. Entered(s, {id})' = Entered(sync, {})
  BY <1>7, <1>12, <1>15 DEF Entered
<1>19. EnteredRight(s, {id})' /\ AllEntered(s, {id})'
  BY <1>4, <1>13, <1>15, <1>18, EnteredSame
<1>20. OldRight(s, {id})'
  BY <1>7, <1>8, <1>12, <1>15, <1>17 DEF OldRight
<1>21. HandRight(s, {id})' /\ TodoOnce(s)'
  <2>1. Head(s.todo) = ty
    BY <1>15 DEF ty
  <2>2. HandRight(s, {id})'
    BY <1>7, <1>8, <1>12, <1>15, <2>1 DEF HandRight
  <2> QED
    BY <1>4, <1>15, <2>2 DEF TodoOnce
<1>22. DayRight(s, {id})' /\ InHand(s)' = {id} /\ ReadTo(s)'
  BY <1>15, <1>16, <1>19, <1>20, <1>21 DEF DayRight, InHand, ReadTo
<1>23. StageRight(s)'
  <2>1. rows'[s.of] \o s.new = needed
    BY <1>5, <1>8, <1>15, ConcatEmptySeq
  <2>2. needed = NeededSplits(Head(s.todo), s.sums[Head(s.todo)])
    BY <1>15 DEF needed, ty
  <2>3. (rows[s.of] \o s.new = NeededSplits(Head(s.todo), s.sums[Head(s.todo)]))'
    <3>1. NeededSplits(Head(s.todo), s.sums[Head(s.todo)])' = NeededSplits(Head(s.todo), s.sums[Head(s.todo)])
      BY DEF NeededSplits
    <3> QED
      BY <2>1, <2>2, <3>1
  <2> QED
    BY <1>15, <2>3 DEF StageRight
<1>24. JobRight(s)'
  BY <1>15, <1>16, <1>22, <1>23 DEF JobRight
<1> QED
  BY <1>14, <1>24, RightAfter

LEMMA SyncRowRight ==
  ASSUME Inv, Inv', BooksFinite, BooksFinite', CronRight, ~disturbed, SyncRow
  PROVE  CronRight'
<1> DEFINE ty == Head(sync.todo)
           left == sync.new
<1>1. /\ sync.pc = "row" /\ rows' = [rows EXCEPT ![sync.of] = Append(@, Head(left))]
      /\ UNCHANGED <<log, head, deposits>>
      /\ \/ /\ Len(left) > 1
            /\ sync' = [sync EXCEPT !.new = Tail(@)]
         \/ /\ ~(Len(left) > 1)
            /\ sync' = Proceed([sync EXCEPT !.todo = Tail(@), !.new = <<>>])
  BY DEF SyncRow
<1>2. PICK x, d : x = sync.of /\ d = sync.day
  OBVIOUS
<1>3. /\ sync \in Working /\ JobRight(sync) /\ sync.pc \in Stages /\ InHand(sync) = {x}
      /\ rows \in [DOMAIN head -> Seq(Line)]
  BY <1>1, <1>2, OnDay DEF Stages, InHand
<1>4. /\ OldRight(sync, {x}) /\ HandRight(sync, {x}) /\ TodoOnce(sync)
      /\ EnteredRight(sync, {x}) /\ AllEntered(sync, {x})
      /\ rows[x] \o left = NeededSplits(ty, sync.sums[ty])
  BY <1>1, <1>2, <1>3 DEF JobRight, DayRight, StageRight
<1>5. /\ sync.todo # <<>> /\ sync.todo \in Seq(DOMAIN AutoSplits) /\ x \in DOMAIN head
      /\ left \in Seq(Line) /\ left # <<>> /\ ty \in DOMAIN AutoSplits /\ sync.sums[ty] \in Int
  <2>1. sync.todo # <<>> /\ sync.todo \in Seq(DOMAIN AutoSplits)
    BY <1>1, <1>3 DEF Inv, JobSound, Working
  <2>2. x \in DOMAIN head /\ left \in Seq(Line) /\ left # <<>>
    BY <1>1, <1>2, <1>3 DEF Inv, JobSound, Working
  <2>3. ty \in DOMAIN AutoSplits
    BY <2>1
  <2> QED
    BY <1>3, <2>1, <2>2, <2>3 DEF Working
<1> HIDE DEF ty, left
<1>6. /\ rows[x] \in Seq(Line) /\ (Len(left) > 1 <=> Tail(left) # <<>>)
      /\ Append(rows[x], Head(left)) \o Tail(left) = rows[x] \o left
      /\ (Tail(left) = <<>> => Append(rows[x], Head(left)) = rows[x] \o left)
  BY <1>3, <1>5, OneMore, Rest
<1>7. rows'[x] = Append(rows[x], Head(left)) /\ \A t \in DOMAIN head : t # x => rows'[t] = rows[t]
  BY <1>1, <1>2, <1>3, <1>5
<1>8. OthersStand(x)
  BY <1>1, <1>7 DEF OthersStand
<1>9. x \in AutosIn({d}) /\ head[x].name = ty
  BY <1>2, <1>4 DEF HandRight, ty
<1>10. OfDay(x, d) /\ OfDay(x, d)'
  BY <1>1, <1>9 DEF AutosIn, OfDay
<1>11. (\A D : AutosIn(D)' = AutosIn(D)) /\ \A t \in DOMAIN head : t # x => Posted'[t] = Posted[t]
  <2>1. \A t \in DOMAIN head : t # x => Posted'[t] = Posted[t]
    BY <1>1, <1>8, <1>10, OneChanges
  <2> QED
    BY <1>1, <2>1 DEF AutosIn, Txs
<1>12. SameOn(Entered(sync, {x}), head, Posted, head', Posted')
  <2>1. \A t \in Entered(sync, {x}) : t \in DOMAIN head /\ t # x
    BY DEF Entered, AutosIn, Txs
  <2> QED
    BY <1>1, <1>11, <2>1 DEF SameOn
<1>13. \A o \in sync.old : o.id \in AutosIn({d}) \ {x} /\ head[o.id].name = o.name
  BY <1>2, <1>4 DEF OldRight
<1>14. ASSUME Len(left) > 1, sync' = [sync EXCEPT !.new = Tail(@)] PROVE CronRight'
  <2>1. PICK s : s = sync'
    OBVIOUS
  <2>2. /\ s.pc = "row" /\ s.of = x /\ s.new = Tail(left) /\ s.old = sync.old /\ s.redo = sync.redo
        /\ s.day = sync.day /\ s.last = sync.last /\ s.liabilities = sync.liabilities
        /\ s.odd = sync.odd /\ s.sums = sync.sums /\ s.todo = sync.todo
    BY <1>1, <1>2, <1>3, <1>14, <2>1 DEF Working, left
  <2>3. Progress(s)' /\ (s.liabilities = UpTo(s.day))' /\ PastRight(s)' /\ SumsRight(s)'
    BY <1>1, <1>2, <1>3, <1>8, <1>10, <2>2, DaysStand
  <2>4. Entered(s, {x})' = Entered(sync, {x})
    BY <1>2, <1>11, <2>2 DEF Entered
  <2>5. EnteredRight(s, {x})' /\ AllEntered(s, {x})'
    BY <1>4, <1>12, <2>2, <2>4, EnteredSame
  <2>6. OldRight(s, {x})'
    BY <1>1, <1>2, <1>11, <1>13, <2>2 DEF OldRight
  <2>7. HandRight(s, {x})' /\ TodoOnce(s)'
    <3>1. Head(s.todo) = ty
      BY <2>2 DEF ty
    <3>2. HandRight(s, {x})'
      BY <1>1, <1>2, <1>9, <1>11, <2>2, <3>1 DEF HandRight
    <3> QED
      BY <1>4, <2>2, <3>2 DEF TodoOnce
  <2>8. s.redo \/ Summed(s.day)'
    <3>1. sync.redo \/ Summed(sync.day)
      BY <1>3 DEF JobRight, DayRight
    <3>2. \A e : UpTo(e)' = UpTo(e)
      BY <1>1, LogStands
    <3> QED
      BY <1>1, <2>2, <3>1, <3>2 DEF Summed
  <2>9. DayRight(s, {x})' /\ InHand(s)' = {x} /\ ReadTo(s)'
    BY <2>2, <2>3, <2>5, <2>6, <2>7, <2>8 DEF DayRight, InHand, ReadTo
  <2>10. StageRight(s)'
    <3>1. rows'[s.of] \o s.new = NeededSplits(ty, sync.sums[ty])
      BY <1>4, <1>6, <1>7, <2>2
    <3>2. NeededSplits(ty, sync.sums[ty]) = NeededSplits(Head(s.todo), s.sums[Head(s.todo)])
      BY <2>2 DEF ty
    <3>3. (rows[s.of] \o s.new = NeededSplits(Head(s.todo), s.sums[Head(s.todo)]))'
      <4>1. NeededSplits(Head(s.todo), s.sums[Head(s.todo)])' = NeededSplits(Head(s.todo), s.sums[Head(s.todo)])
        BY DEF NeededSplits
      <4> QED
        BY <3>1, <3>2, <4>1
    <3> QED
      BY <2>2, <3>3 DEF StageRight
  <2>11. JobRight(s)'
    BY <2>2, <2>3, <2>9, <2>10 DEF JobRight
  <2> QED
    BY <2>1, <2>11, RightAfter
<1>15. ASSUME ~(Len(left) > 1), sync' = Proceed([sync EXCEPT !.todo = Tail(@), !.new = <<>>]) PROVE CronRight'
  <2>1. PICK s : s = [sync EXCEPT !.todo = Tail(@), !.new = <<>>]
    OBVIOUS
  <2>2. /\ s.pc = "row" /\ s.old = sync.old /\ s.redo = sync.redo
        /\ s.day = sync.day /\ s.last = sync.last /\ s.liabilities = sync.liabilities
        /\ s.odd = sync.odd /\ s.sums = sync.sums /\ s.todo = Tail(sync.todo)
    BY <1>1, <1>3, <2>1 DEF Working
  <2>3. s \in Working
    <3>1. Tail(sync.todo) \in Seq(DOMAIN AutoSplits)
      BY <1>5, HeadTailProperties
    <3>2. <<>> \in Seq(Line)
      OBVIOUS
    <3> QED
      BY <1>3, <2>1, <3>1, <3>2 DEF Working
  <2>4. Progress(s)' /\ (s.liabilities = UpTo(s.day))' /\ PastRight(s)' /\ SumsRight(s)'
    BY <1>1, <1>2, <1>3, <1>8, <1>10, <2>2, DaysStand
  <2>5. Posted'[x] = Worth(sync)[ty]
    <3>1. rows'[x] = NeededSplits(ty, sync.sums[ty])
      BY <1>4, <1>6, <1>7, <1>15
    <3>2. OnAccount(rows'[x], "deposits") = Signed(ty, sync.sums[ty])
      BY <1>5, <3>1, NeededOnAccount
    <3>3. Posted'[x] = OnAccount(rows'[x], "deposits")
      BY <1>1, <1>5 DEF Posted
    <3> QED
      BY <1>5, <3>2, <3>3 DEF Worth
  <2>6. Entered(s, {})' = Entered(sync, {x}) \cup {x}
    BY <1>2, <1>9, <1>11, <1>13, <2>2 DEF Entered
  <2>7. DoneWith(sync, {x}, s)
    BY <1>1, <1>9, <2>2, <2>5, <2>6 DEF DoneWith, ty
  <2>8. TodoOnce(s) /\ EnteredRight(s, {})' /\ AllEntered(s, {})'
    BY <1>4, <1>5, <1>12, <2>7, EnteredMore
  <2>9. OldRight(s, {})' /\ HandRight(s, {})' /\ TodoOnce(s)'
    BY <1>1, <1>2, <1>11, <1>13, <2>2, <2>8 DEF OldRight, HandRight, TodoOnce
  <2>10. s.redo \/ Summed(s.day)'
    <3>1. sync.redo \/ Summed(sync.day)
      BY <1>3 DEF JobRight, DayRight
    <3>2. \A e : UpTo(e)' = UpTo(e)
      BY <1>1, LogStands
    <3> QED
      BY <1>1, <2>2, <3>1, <3>2 DEF Summed
  <2>11. DayRight(s, {})'
    BY <2>8, <2>9, <2>10 DEF DayRight
  <2>12. Ready(s)'
    BY <2>2, <2>4, <2>11 DEF Ready
  <2> QED
    BY <1>15, <2>1, <2>3, <2>12, BusilyOn
<1>16. \/ /\ Len(left) > 1
          /\ sync' = [sync EXCEPT !.new = Tail(@)]
       \/ /\ ~(Len(left) > 1)
          /\ sync' = Proceed([sync EXCEPT !.todo = Tail(@), !.new = <<>>])
  BY <1>1
<1> QED
  BY <1>14, <1>15, <1>16

-----------------------------------------------------------------------------
(* There are finitely many transactions and cash-outs.                       *)
LEMMA FiniteKeeps == ASSUME BooksFinite, [CashNext]_vars PROVE BooksFinite'
<1>1. ASSUME NEW id, NEW h, head' = Add(head, id, h) PROVE BooksFinite'
  <2>1. DOMAIN head' = DOMAIN head \cup {id}
    BY <1>1 DEF Add
  <2> QED
    BY <2>1, FS_AddElement DEF BooksFinite
<1>2. CASE head' = head
  BY <1>2 DEF BooksFinite
<1>3. ASSUME NEW e \in Editors, NEW id, NEW h, NEW form, EditPost(e, id, h, form) PROVE head' = head
  BY <1>3 DEF EditPost, tables
<1>4. ASSUME NEW e \in Editors, EditStep(e) PROVE BooksFinite'
  <2>1. CASE EditSave(e)
    <3>1. \E id : head' = Add(head, id, edit[e].head)
      BY <2>1 DEF EditSave
    <3> QED
      BY <1>1, <3>1
  <2>2. CASE EditClear(e) \/ EditRow(e) \/ EditDie(e)
    BY <1>2, <2>2 DEF EditClear, EditRow, EditDie, tables
  <2> QED
    BY <1>4, <2>1, <2>2 DEF EditStep
<1>5. CASE SyncStep
  <2>1. CASE SyncDelete
    <3>1. DOMAIN head' = DOMAIN head \ {sync.of}
      BY <2>1 DEF SyncDelete, Drop
    <3> QED
      BY <3>1, FS_Subset DEF BooksFinite
  <2>2. CASE SyncInsert
    <3>1. \E id, h : head' = Add(head, id, h)
      BY <2>2 DEF SyncInsert
    <3> QED
      BY <1>1, <3>1
  <2>3. CASE SyncRead \/ SyncList \/ SyncMatch \/ SyncPositive \/ SyncDie
    BY <1>2, <2>3 DEF SyncRead, SyncList, SyncMatch, SyncPositive, SyncDie, tables
  <2>4. CASE SyncRow \/ SyncNegative
    BY <1>2, <2>4 DEF SyncRow, SyncNegative
  <2> QED
    BY <1>5, <2>1, <2>2, <2>3, <2>4 DEF SyncStep
<1>6. CASE SyncStart \/ LogGrows \/ UNCHANGED vars
  BY <1>2, <1>6 DEF SyncStart, LogGrows, vars, tables
<1>7. ASSUME NEW e \in Editors, NEW c \in CashOuts, GenTransaction(e, c) PROVE BooksFinite'
  BY <1>2, <1>3, <1>7 DEF GenTransaction
<1> QED
  BY <1>2, <1>3, <1>4, <1>5, <1>6, <1>7 DEF CashNext, Next

LEMMA StandsRight == ASSUME CronRight, UNCHANGED <<tables, sync, disturbed>> PROVE CronRight'
<1> SUFFICES ASSUME ~disturbed, sync.pc # "died" PROVE CronRight'
  BY DEF CronRight
<1>1. PICK s : s = sync
  OBVIOUS
<1>2. JobRight(s)
  BY <1>1, RightBefore
<1> QED
  BY <1>1, <1>2, QuietlyRight

LEMMA RightKeeps ==
  ASSUME Inv, Inv', BooksFinite, BooksFinite', CronRight, [CashNext]_vars
  PROVE  CronRight'
<1>1. ASSUME NEW e \in Editors, NEW id, NEW h, NEW form, EditPost(e, id, h, form) PROVE CronRight'
  BY <1>1, StandsRight DEF EditPost
<1>2. ASSUME NEW e \in Editors, EditStep(e) PROVE CronRight'
  <2>1. CASE EditSave(e) \/ EditClear(e) \/ EditRow(e)
    <3>1. disturbed'
      BY <2>1 DEF EditSave, EditClear, EditRow
    <3> QED
      BY <3>1 DEF CronRight
  <2>2. CASE EditDie(e)
    BY <2>2, StandsRight DEF EditDie
  <2> QED
    BY <1>2, <2>1, <2>2 DEF EditStep
<1>3. CASE SyncStep
  <2>1. disturbed' = disturbed
    BY <1>3 DEF SyncStep, SyncRead, SyncList, SyncMatch, SyncDelete, SyncInsert, SyncRow, SyncPositive,
                SyncNegative, SyncDie
  <2>2. CASE disturbed
    BY <2>1, <2>2 DEF CronRight
  <2>3. CASE SyncDie
    <3>1. sync'.pc = "died"
      BY <2>3 DEF SyncDie
    <3> QED
      BY <3>1 DEF CronRight
  <2>4. CASE ~disturbed
    BY <1>3, <2>3, <2>4, SyncReadRight, SyncListRight, SyncMatchRight, SyncDeleteRight, SyncInsertRight,
       SyncRowRight, SyncPositiveRight, SyncNegativeRight DEF SyncStep
  <2> QED
    BY <2>2, <2>4
<1>4. CASE LogGrows
  <2>1. disturbed'
    BY <1>4 DEF LogGrows
  <2> QED
    BY <2>1 DEF CronRight
<1>5. CASE UNCHANGED vars
  BY <1>5, StandsRight DEF vars, tables
<1>6. ASSUME NEW e \in Editors, NEW c \in CashOuts, GenTransaction(e, c) PROVE CronRight'
  BY <1>1, <1>6 DEF GenTransaction
<1> QED
  BY <1>1, <1>2, <1>3, <1>4, <1>5, <1>6, SyncStartRight DEF CashNext, Next

LEMMA InitRight == Init => BooksFinite /\ CronRight
<1> SUFFICES ASSUME Init PROVE BooksFinite /\ CronRight
  OBVIOUS
<1>1. head = Head0 /\ disturbed
  BY DEF Init
<1> QED
  BY <1>1, FinanceTables DEF BooksFinite, CronRight

LEMMA RightAtEnd == Inv /\ BooksFinite /\ CronRight => SyncedBooks
<1> SUFFICES ASSUME Inv, BooksFinite, CronRight, sync.pc = "done", ~disturbed, sync.odd = {},
                    NEW day \in Min(Days) .. Max(Days)
             PROVE  /\ AutoOwed(day) = LogSum(LogUntil(day)) - Unbooked(day)
                    /\ day \in DOMAIN deposits /\ deposits[day][1] - deposits[day][2] = LogSum(LogUntil(day))
  BY DEF SyncedBooks
<1>1. Progress(sync) /\ PastRight(sync)
  BY RightBefore DEF JobRight
<1>2. log \in Seq(LogRow) /\ Min(Days) \in Nat /\ Max(Days) \in Nat /\ sync.day = Max(Days) + 1
  BY <1>1, FirstAndLast DEF Inv, TypeOK, Progress
<1>3. day \in Min(Days) .. sync.day - 1 /\ day \in Int
  BY <1>2
<1>4. Summed(day) /\ BookedTo(day)
  BY <1>1, <1>3 DEF PastRight
<1> QED
  BY <1>2, <1>3, <1>4, UpToIs, BookedIs DEF Summed

(* After an undisturbed run of the cron job that found no unmatched          *)
(* transaction, whatever torn or stale ones it repaired, the automatic       *)
(* transactions owe the customers what the log says, day by day, and so does *)
(* each day's summary.                                                       *)
THEOREM SyncKeepsBooks == CashSpec => []SyncedBooks
<1>1. Init => BooksFinite /\ CronRight
  BY InitRight
<1>2. BooksFinite /\ [CashNext]_vars => BooksFinite'
  BY FiniteKeeps
<1>3. Inv /\ Inv' /\ BooksFinite /\ BooksFinite' /\ CronRight /\ [CashNext]_vars => CronRight'
  BY RightKeeps
<1>4. Inv /\ BooksFinite /\ CronRight => SyncedBooks
  BY RightAtEnd
<1> QED
  BY <1>1, <1>2, <1>3, <1>4, CashInv, PTL DEF CashSpec
-----------------------------------------------------------------------------
(* The order of transactions and cash-outs, by date and then by id.          *)

Dated == BooksFinite /\ head \in [DOMAIN head -> Header] /\ DOMAIN head \subseteq Nat

LEMMA BeforeOrders ==
  ASSUME Dated
  PROVE  /\ \A t \in DOMAIN head : head[t].at \in Nat /\ t \in Nat /\ ~Before(t, t)
         /\ \A t, u \in DOMAIN head : t # u => Before(t, u) \/ Before(u, t)
         /\ \A t, u \in DOMAIN head : Before(t, u) => ~Before(u, t)
         /\ \A t, u, v \in DOMAIN head : Before(t, u) /\ Before(u, v) => Before(t, v)
<1>1. \A t \in DOMAIN head : head[t].at \in Nat /\ t \in Nat
  BY DEF Dated, Header
<1> QED
  BY <1>1 DEF Before

LEMMA LastExists ==
  ASSUME Dated, NEW S \in SUBSET DOMAIN head, S # {}
  PROVE  \E t \in S : \A u \in S \ {t} : Before(u, t)
<1> DEFINE After(t) == {u \in S : Before(t, u)}
           A == {After(t) : t \in S}
<1>1. A # {} /\ \A U \in A : IsFiniteSet(U)
  <2>1. IsFiniteSet(S)
    BY FS_Subset DEF Dated, BooksFinite
  <2>2. \A t \in S : IsFiniteSet(After(t))
    BY <2>1, FS_Subset
  <2> QED
    BY <2>2
<1>2. PICK U \in A : \A W \in A : W \subseteq U => W = U
  <2> HIDE DEF A
  <2> QED
    BY <1>1, MinimalFinite
<1>3. PICK t \in S : U = After(t)
  BY <1>2
<1>4. U = {}
  <2> SUFFICES ASSUME NEW u \in U PROVE FALSE
    OBVIOUS
  <2>1. u \in S /\ Before(t, u)
    BY <1>3
  <2>2. After(u) \subseteq U /\ u \notin After(u)
    BY <1>3, <2>1, BeforeOrders
  <2>3. After(u) = U
    BY <1>2, <2>1, <2>2
  <2> QED
    BY <2>2, <2>3
<1> QED
  BY <1>3, <1>4, BeforeOrders

Ordered(s, S) ==
  /\ s \in Seq(S) /\ Len(s) \in Nat /\ S = {s[i] : i \in 1 .. Len(s)}
  /\ \A i, j \in 1 .. Len(s) : i < j => Before(s[i], s[j])
LEMMA InOrderIs ==
  ASSUME Dated, NEW S \in SUBSET DOMAIN head
  PROVE  Ordered(InOrder(S), S)
<1> DEFINE L(T) == CHOOSE t \in T : \A u \in T \ {t} : Before(u, t)
           c == [T \in SUBSET S |-> L(T)]
           g == [p \in S \X Seq(S) |-> Append(p[2], p[1])]
           Eq(F) == F = [T \in SUBSET S |-> IF T = {} THEN <<>> ELSE Append(F[T \ {L(T)}], L(T))]
           F == CHOOSE F : Eq(F)
<1>1. \A T \in SUBSET S : T # {} => L(T) \in T /\ \A u \in T \ {L(T)} : Before(u, L(T))
  <2> TAKE T \in SUBSET S
  <2> HAVE T # {}
  <2>1. \E t \in T : \A u \in T \ {t} : Before(u, t)
    BY LastExists
  <2> QED
    BY <2>1
<1> HIDE DEF L
<1>2. IsFiniteSet(S) /\ IsChoice(c, S)
  BY <1>1, FS_Subset DEF Dated, BooksFinite, IsChoice
<1>3. PICK G : IsFoldBy(G, g, c, <<>>, S) /\ \A T \in SUBSET S : G[T] \in Seq(S)
  <2>1. \A x \in S, v \in Seq(S) : g[<<x, v>>] \in Seq(S)
    OBVIOUS
  <2>2. <<>> \in Seq(S)
    OBVIOUS
  <2> HIDE DEF g, c
  <2> QED
    BY <1>2, <2>1, <2>2, FoldByIn
<1>4. Eq(G)
  <2>1. ASSUME NEW T \in SUBSET S, T # {} PROVE g[<<c[T], G[T \ {c[T]}]>>] = Append(G[T \ {L(T)}], L(T))
    <3>1. c[T] = L(T) /\ L(T) \in S /\ G[T \ {L(T)}] \in Seq(S)
      BY <1>1, <1>3, <2>1
    <3> QED
      BY <3>1
  <2> HIDE DEF g, c
  <2> QED
    BY <1>3, <2>1, ZenonT(60) DEF IsFoldBy
<1>5. Eq(F)
  <2> HIDE DEF Eq
  <2> QED
    BY <1>4
<1>6. InOrder(S) = F[S]
  BY DEF InOrder, MapThenFoldSet, L
<1> HIDE DEF F
<1> DEFINE A == {T \in SUBSET S : Ordered(F[T], T)}
<1>7. {} \in A
  <2>1. F[{}] = <<>>
    BY <1>5, {} \in SUBSET S
  <2>2. <<>> \in Seq({}) /\ Len(<<>>) = 0 /\ 1 .. 0 = {}
    OBVIOUS
  <2>3. {<<>>[i] : i \in 1 .. 0} = {}
    BY <2>2
  <2>4. Ordered(<<>>, {})
    BY <2>2, <2>3 DEF Ordered
  <2> HIDE DEF Ordered
  <2> QED
    BY <2>1, <2>4
<1>8. ASSUME NEW T \in SUBSET S, T # {}, T \ {c[T]} \in A PROVE T \in A
  <2> DEFINE t == L(T)  U == T \ {t}  s == F[U]  n == Len(s)
  <2>1. t \in T /\ c[T] = t /\ \A u \in U : Before(u, t)
    BY <1>1, <1>8
  <2>2. F[T] = Append(s, t)
    BY <1>5, <1>8
  <2>3. Ordered(s, U) /\ T = U \cup {t}
    BY <1>8, <2>1
  <2> HIDE DEF t, U, s, A
  <2>4. s \in Seq(U) /\ n \in Nat /\ U = {s[i] : i \in 1 .. n} /\ \A i, j \in 1 .. n : i < j => Before(s[i], s[j])
    BY <2>3 DEF Ordered
  <2>5. /\ F[T] \in Seq(T) /\ Len(F[T]) = n + 1 /\ F[T][n + 1] = t
        /\ \A i \in 1 .. n : F[T][i] = s[i] /\ s[i] \in U
    <3>1. s \in Seq(T) /\ t \in T /\ \A i \in 1 .. n : s[i] \in U
      BY <2>3, <2>4
    <3> QED
      BY <2>2, <2>4, <3>1
  <2> HIDE DEF n
  <2>6. T = {F[T][i] : i \in 1 .. n + 1}
    <3>1. \A i \in 1 .. n + 1 : i \in 1 .. n \/ i = n + 1
      BY <2>4
    <3>2. \A i \in 1 .. n : i \in 1 .. n + 1
      BY <2>4
    <3>3. n + 1 \in 1 .. n + 1
      BY <2>4
    <3> QED
      BY <2>3, <2>4, <2>5, <3>1, <3>2, <3>3
  <2>7. \A i, j \in 1 .. n + 1 : i < j => Before(F[T][i], F[T][j])
    <3> TAKE i, j \in 1 .. n + 1
    <3> HAVE i < j
    <3>1. i \in 1 .. n /\ (j \in 1 .. n \/ j = n + 1)
      BY <2>4
    <3> QED
      BY <2>1, <2>4, <2>5, <3>1
  <2>8. Ordered(F[T], T)
    <3>1. n + 1 \in Nat
      BY <2>4
    <3> QED
      BY <2>5, <2>6, <2>7, <3>1 DEF Ordered
  <2> QED
    BY <2>8 DEF A
<1> HIDE DEF A, c
<1>9. S \in A
  BY <1>2, <1>7, <1>8, SubsetsBy, S \in SUBSET S
<1> QED
  BY <1>6, <1>9 DEF A
-----------------------------------------------------------------------------
(* Pages.                                                                    *)

LEMMA SomePage ==
  ASSUME NEW n \in Nat
  PROVE  NumPages(n) \in Nat \ {0}
<1>1. CASE n = 0
  BY <1>1 DEF NumPages
<1>2. CASE n # 0
  <2>0. PageSize \in Nat \ {0}
    BY FinanceConstants
  <2>1. n + PageSize - 1 \in Int /\ n + PageSize - 1 >= PageSize
    BY <1>2, <2>0
  <2>2. ASSUME NEW k \in Nat \ {0}, NEW a \in Int, a >= k PROVE a \div k \in Nat \ {0}
    <3>1. a \div k \in Int /\ a % k \in 0 .. k - 1 /\ a = k * (a \div k) + (a % k)
      OBVIOUS
    <3>2. ASSUME NEW q \in Int, NEW r \in 0 .. k - 1, a = k * q + r, q <= 0 PROVE FALSE
      <4>1. k * q <= 0
        <5>1. \A x, y \in Nat : x * y >= 0
          OBVIOUS
        <5>2. k * (-q) >= 0 /\ k * (-q) = -(k * q) /\ k * q \in Int
          BY <3>2, <5>1
        <5> QED
          BY <5>2
      <4> QED
        BY <2>2, <3>2, <4>1
    <3>3. ~(a \div k <= 0)
      BY <3>1, <3>2
    <3> QED
      BY <3>1, <3>3
  <2>3. (n + PageSize - 1) \div PageSize \in Nat \ {0}
    BY <2>0, <2>1, <2>2
  <2> QED
    BY <1>2, <2>3 DEF NumPages
<1> QED
  BY <1>1, <1>2

Slice(page, s) ==
  /\ Len(page) \in Nat
  /\ \E k \in Nat : k + Len(page) <= Len(s) /\ \A n \in 1 .. Len(page) : page[n] = s[k + n]
LEMMA PageIs ==
  ASSUME NEW S, NEW s \in Seq(S), NEW p
  PROVE  Page(s, p) \in Seq(S) /\ Slice(Page(s, p), s)
<1> DEFINE q == IF p \in 1 .. NumPages(Len(s)) THEN p ELSE NumPages(Len(s))
           k == (q - 1) * PageSize
           last == IF q * PageSize < Len(s) THEN q * PageSize ELSE Len(s)
<1>1. Len(s) \in Nat /\ q \in Nat \ {0} /\ PageSize \in Nat \ {0}
  <2>1. Len(s) \in Nat /\ NumPages(Len(s)) \in Nat \ {0}
    BY SomePage
  <2>2. PageSize \in Nat \ {0}
    BY FinanceConstants
  <2> QED
    BY <2>1, <2>2
<1> HIDE DEF q
<1>2. k \in Nat /\ q * PageSize \in Nat
  <2>1. \A x, y \in Nat : x * y \in Nat
    OBVIOUS
  <2>2. q - 1 \in Nat /\ q \in Nat /\ PageSize \in Nat
    BY <1>1
  <2> QED
    BY <2>1, <2>2
<1>3. Page(s, p) = SubSeq(s, k + 1, last)
  BY DEF Page, q
<1>4. last \in Nat /\ last <= Len(s)
  BY <1>1, <1>2
<1> HIDE DEF k, last
<1>5. CASE k + 1 > last
  <2>1. Page(s, p) = <<>>
    BY <1>2, <1>3, <1>4, <1>5
  <2>2. Slice(<<>>, s)
    <3>1. Len(<<>>) = 0 /\ 0 + 0 <= Len(s) /\ 1 .. 0 = {} /\ 0 \in Nat
      BY <1>1
    <3> QED
      BY <3>1 DEF Slice
  <2> QED
    BY <2>1, <2>2
<1>6. CASE k + 1 <= last
  <2>1. k + 1 \in 1 .. Len(s) + 1 /\ last \in k .. Len(s)
    BY <1>1, <1>2, <1>4, <1>6
  <2>2. /\ SubSeq(s, k + 1, last) \in Seq(S) /\ Len(SubSeq(s, k + 1, last)) = last - k
        /\ \A i \in 1 .. last - k : SubSeq(s, k + 1, last)[i] = s[k + i]
    <3>1. last - (k + 1) + 1 = last - k /\ \A i \in 1 .. last - k : (k + 1) + i - 1 = k + i
      BY <1>2, <1>4
    <3> QED
      BY <1>1, <1>2, <1>4, <2>1, <3>1, SubSeqProperties
  <2>3. last - k \in Nat /\ k + (last - k) <= Len(s)
    BY <1>1, <1>2, <1>4, <1>6
  <2> QED
    BY <1>2, <1>3, <2>2, <2>3 DEF Slice
<1> QED
  BY <1>2, <1>4, <1>5, <1>6

(* A page shows some of S, in order, and all from its first to its last.     *)
Window(page, S) ==
  /\ Len(page) \in Nat /\ \A i \in 1 .. Len(page) : page[i] \in S
  /\ \A i, j \in 1 .. Len(page) : i < j => Before(page[i], page[j])
  /\ \A n \in 1 .. Len(page), u \in S :
       Before(u, page[1]) \/ Before(page[n], u) \/ \E i \in 1 .. n : u = page[i]
LEMMA WindowIs ==
  ASSUME NEW S, NEW s, Ordered(s, S), NEW page, Slice(page, s)
  PROVE  Window(page, S)
<1>1. PICK k \in Nat : k + Len(page) <= Len(s) /\ \A n \in 1 .. Len(page) : page[n] = s[k + n]
  BY DEF Slice
<1>2. Len(page) \in Nat /\ Len(s) \in Nat
  BY DEF Slice, Ordered
<1>3. \A n \in 1 .. Len(page) : k + n \in 1 .. Len(s)
  BY <1>1, <1>2
<1>4. \A i \in 1 .. Len(page) : page[i] \in S
  BY <1>1, <1>3 DEF Ordered
<1>5. \A i, j \in 1 .. Len(page) : i < j => Before(page[i], page[j])
  <2> TAKE i, j \in 1 .. Len(page)
  <2> HAVE i < j
  <2>1. k + i < k + j
    BY <1>2
  <2> QED
    BY <1>1, <1>3, <2>1 DEF Ordered
<1>6. ASSUME NEW n \in 1 .. Len(page), NEW u \in S
      PROVE  Before(u, page[1]) \/ Before(page[n], u) \/ \E i \in 1 .. n : u = page[i]
  <2>1. PICK m \in 1 .. Len(s) : u = s[m]
    BY DEF Ordered
  <2>2. n \in Nat /\ m \in Nat /\ 1 \in 1 .. Len(page) /\ page[1] = s[k + 1] /\ page[n] = s[k + n]
    BY <1>1, <1>2
  <2>3. CASE m < k + 1
    BY <1>3, <2>1, <2>2, <2>3 DEF Ordered
  <2>4. CASE m > k + n
    BY <1>3, <2>1, <2>2, <2>4 DEF Ordered
  <2>5. CASE ~(m < k + 1) /\ ~(m > k + n)
    <3>1. m - k \in 1 .. n /\ m - k \in 1 .. Len(page) /\ k + (m - k) = m
      BY <1>2, <2>2, <2>5
    <3> QED
      BY <1>1, <2>1, <3>1
  <2> QED
    BY <2>3, <2>4, <2>5
<1> QED
  BY <1>2, <1>4, <1>5, <1>6 DEF Window
-----------------------------------------------------------------------------
(* What transactions book to an account, and what is counted at cash-outs.   *)

Booked(a) == [t \in DOMAIN head |-> OnAccount(rows[t], a)]
SumBooked(S, a) == SumOver(S, LAMBDA t : OnAccount(rows[t], a))
LEMMA BookedSum ==
  ASSUME Dated, NEW S \in SUBSET DOMAIN head, NEW a
  PROVE  IsFiniteSet(S) /\ SumBooked(S, a) = SumOf(S, Booked(a))
<1> DEFINE Eq(F) == F = [T \in SUBSET S |-> IF T = {} THEN 0
                                            ELSE LET x == CHOOSE x \in T : TRUE
                                                 IN  OnAccount(rows[x], a) + F[T \ {x}]]
           F == CHOOSE F : Eq(F)
<1>0. IsFiniteSet(S)
  BY FS_Subset DEF Dated, BooksFinite
<1>1. ASSUME NEW G PROVE Eq(G) <=> IsSumOn(G, Booked(a), S)
  <2>1. \A T \in SUBSET S : T # {} => Booked(a)[Chosen(T)] = OnAccount(rows[Chosen(T)], a)
    BY ChosenIn DEF Booked
  <2> QED
    BY <2>1, ZenonT(60) DEF IsSumOn, Chosen
<1>2. IsSumOn(F, Booked(a), S)
  <2> HIDE DEF Eq
  <2>1. \E G : Eq(G)
    BY <1>0, <1>1, SumOnExists
  <2>2. Eq(F)
    BY <2>1
  <2> HIDE DEF F
  <2> QED
    BY <2>2, <1>1
<1>3. SumBooked(S, a) = F[S]
  BY DEF SumBooked, SumOver
<1> HIDE DEF F
<1> QED
  BY <1>0, <1>2, <1>3, SumOfIs, S \in SUBSET S

Counted == [c \in DOMAIN head |-> Total(rows[c])]
SumCounted(S) == SumOver(S, LAMBDA c : Total(rows[c]))
LEMMA CountedSum ==
  ASSUME Dated, NEW S \in SUBSET DOMAIN head
  PROVE  IsFiniteSet(S) /\ SumCounted(S) = SumOf(S, Counted)
<1> DEFINE Eq(F) == F = [T \in SUBSET S |-> IF T = {} THEN 0
                                            ELSE LET x == CHOOSE x \in T : TRUE
                                                 IN  Total(rows[x]) + F[T \ {x}]]
           F == CHOOSE F : Eq(F)
<1>0. IsFiniteSet(S)
  BY FS_Subset DEF Dated, BooksFinite
<1>1. ASSUME NEW G PROVE Eq(G) <=> IsSumOn(G, Counted, S)
  <2>1. \A T \in SUBSET S : T # {} => Counted[Chosen(T)] = Total(rows[Chosen(T)])
    BY ChosenIn DEF Counted
  <2> QED
    BY <2>1, ZenonT(60) DEF IsSumOn, Chosen
<1>2. IsSumOn(F, Counted, S)
  <2> HIDE DEF Eq
  <2>1. \E G : Eq(G)
    BY <1>0, <1>1, SumOnExists
  <2>2. Eq(F)
    BY <2>1
  <2> HIDE DEF F
  <2> QED
    BY <2>2, <1>1
<1>3. SumCounted(S) = F[S]
  BY DEF SumCounted, SumOver
<1> HIDE DEF F
<1> QED
  BY <1>0, <1>2, <1>3, SumOfIs, S \in SUBSET S

(* The same, line by line of a page.                                         *)
PageBooked(page, n, a) == SumOver(1 .. n, LAMBDA i : OnAccount(rows[page[i]], a))
LinesBooked(page, n, a) == [i \in 1 .. n |-> OnAccount(rows[page[i]], a)]
LEMMA PageBookedSum ==
  ASSUME NEW page, NEW n \in Nat, NEW a
  PROVE  IsFiniteSet((1 .. n)) /\ PageBooked(page, n, a) = SumOf((1 .. n), LinesBooked(page, n, a))
<1> DEFINE Eq(F) == F = [T \in SUBSET (1 .. n) |-> IF T = {} THEN 0
                                            ELSE LET x == CHOOSE x \in T : TRUE
                                                 IN  OnAccount(rows[page[x]], a) + F[T \ {x}]]
           F == CHOOSE F : Eq(F)
<1>0. IsFiniteSet((1 .. n))
  BY FS_Interval, 1 \in Int, n \in Int, Zenon
<1>1. ASSUME NEW G PROVE Eq(G) <=> IsSumOn(G, LinesBooked(page, n, a), (1 .. n))
  <2>1. \A T \in SUBSET (1 .. n) : T # {} => LinesBooked(page, n, a)[Chosen(T)] = OnAccount(rows[page[Chosen(T)]], a)
    BY ChosenIn DEF LinesBooked
  <2> QED
    BY <2>1, ZenonT(60) DEF IsSumOn, Chosen
<1>2. IsSumOn(F, LinesBooked(page, n, a), (1 .. n))
  <2> HIDE DEF Eq
  <2>1. \E G : Eq(G)
    BY <1>0, <1>1, SumOnExists
  <2>2. Eq(F)
    BY <2>1
  <2> HIDE DEF F
  <2> QED
    BY <2>2, <1>1
<1>3. PageBooked(page, n, a) = F[(1 .. n)]
  BY DEF PageBooked, SumOver
<1> HIDE DEF F
<1> QED
  BY <1>0, <1>2, <1>3, SumOfIs, (1 .. n) \in SUBSET (1 .. n)

PageCounted(page, n) == SumOver(1 .. n, LAMBDA i : Total(rows[page[i]]))
LinesCounted(page, n) == [i \in 1 .. n |-> Total(rows[page[i]])]
LEMMA PageCountedSum ==
  ASSUME NEW page, NEW n \in Nat
  PROVE  IsFiniteSet((1 .. n)) /\ PageCounted(page, n) = SumOf((1 .. n), LinesCounted(page, n))
<1> DEFINE Eq(F) == F = [T \in SUBSET (1 .. n) |-> IF T = {} THEN 0
                                            ELSE LET x == CHOOSE x \in T : TRUE
                                                 IN  Total(rows[page[x]]) + F[T \ {x}]]
           F == CHOOSE F : Eq(F)
<1>0. IsFiniteSet((1 .. n))
  BY FS_Interval, 1 \in Int, n \in Int, Zenon
<1>1. ASSUME NEW G PROVE Eq(G) <=> IsSumOn(G, LinesCounted(page, n), (1 .. n))
  <2>1. \A T \in SUBSET (1 .. n) : T # {} => LinesCounted(page, n)[Chosen(T)] = Total(rows[page[Chosen(T)]])
    BY ChosenIn DEF LinesCounted
  <2> QED
    BY <2>1, ZenonT(60) DEF IsSumOn, Chosen
<1>2. IsSumOn(F, LinesCounted(page, n), (1 .. n))
  <2> HIDE DEF Eq
  <2>1. \E G : Eq(G)
    BY <1>0, <1>1, SumOnExists
  <2>2. Eq(F)
    BY <2>1
  <2> HIDE DEF F
  <2> QED
    BY <2>2, <1>1
<1>3. PageCounted(page, n) = F[(1 .. n)]
  BY DEF PageCounted, SumOver
<1> HIDE DEF F
<1> QED
  BY <1>0, <1>2, <1>3, SumOfIs, (1 .. n) \in SUBSET (1 .. n)

(* What went before a page and the page's first n lines are all up to line n.*)
LEMMA WindowSum ==
  ASSUME Dated, NEW U \in SUBSET DOMAIN head, NEW S \in SUBSET U, NEW page, Window(page, S),
         NEW n \in 1 .. Len(page), NEW g, IntegersOn(g, U), \A u \in U \ S : g[u] = 0,
         NEW h, \A i \in 1 .. n : h[i] = g[page[i]]
  PROVE  SumOf({u \in U : Before(u, page[1])}, g) + SumOf(1 .. n, h) = SumOf({u \in U : ~Before(page[n], u)}, g)
<1> DEFINE P == {u \in U : Before(u, page[1])}
           V == {u \in U : ~Before(page[n], u)}
           m == [i \in 1 .. n |-> page[i]]
           R == {m[i] : i \in 1 .. n}
           Z == (V \ P) \ R
<1>1. /\ Len(page) \in Nat /\ n \in Nat /\ 1 \in 1 .. n /\ 1 .. n \subseteq 1 .. Len(page)
      /\ \A i \in 1 .. n : page[i] \in S /\ m[i] = page[i]
  BY DEF Window
<1>2. R \subseteq S /\ page[1] \in R /\ page[n] \in R /\ \A r \in R : \E i \in 1 .. n : r = page[i]
  BY <1>1
<1>3. \A i, j \in 1 .. n : i < j => Before(page[i], page[j])
  BY <1>1 DEF Window
<1>4. \A i, j \in 1 .. n : m[i] = m[j] => i = j
  <2> TAKE i, j \in 1 .. n
  <2> HAVE m[i] = m[j]
  <2>1. page[i] = page[j] /\ page[i] \in DOMAIN head /\ ~Before(page[i], page[i])
    BY <1>1, BeforeOrders
  <2>2. ~(i < j) /\ ~(j < i)
    BY <1>3, <2>1
  <2> QED
    BY <1>1, <2>2
<1>5. IsFiniteSet(1 .. n) /\ IsFiniteSet(U)
  BY <1>1, FS_Interval, FS_Subset DEF Dated, BooksFinite
<1>6. \A i \in 1 .. n : h[i] \in Int /\ h[i] = g[m[i]]
  BY <1>1 DEF IntegersOn
<1> HIDE DEF m
<1> DEFINE N == 1 .. n
<1>7. IsFiniteSet(R) /\ SumOf(R, g) = SumOf(N, h)
  <2>1. IsFiniteSet(N) /\ \A i \in N : h[i] \in Int /\ h[i] = g[m[i]]
    BY <1>5, <1>6
  <2>2. \A i, j \in N : m[i] = m[j] => i = j
    BY <1>4
  <2>3. R = {m[i] : i \in N}
    OBVIOUS
  <2> HIDE DEF N, R
  <2>4. LET Im == {m[i] : i \in N} IN IsFiniteSet(Im) /\ SumOf(Im, g) = SumOf(N, h)
    BY ONLY <2>1, <2>2, SumOfImage, SMTT(60)
  <2> QED
    BY <2>3, <2>4
<1>8. P \subseteq V
  <2> SUFFICES ASSUME NEW u \in P, Before(page[n], u) PROVE FALSE
    OBVIOUS
  <2>1. u \in DOMAIN head /\ page[1] \in DOMAIN head /\ page[n] \in DOMAIN head /\ Before(u, page[1])
    BY <1>2
  <2>2. Before(page[n], page[1])
    BY <2>1, BeforeOrders
  <2>3. n = 1 \/ Before(page[1], page[n])
    BY <1>1, <1>3
  <2> QED
    BY <2>1, <2>2, <2>3, BeforeOrders
<1>9. R \subseteq V \ P
  <2> SUFFICES ASSUME NEW r \in R PROVE r \in V \ P
    OBVIOUS
  <2>1. PICK i \in 1 .. n : r = page[i]
    BY <1>2
  <2>2. (i = n \/ Before(page[i], page[n])) /\ (i = 1 \/ Before(page[1], page[i]))
    BY <1>1, <1>3
  <2>3. page[i] \in DOMAIN head /\ page[1] \in DOMAIN head /\ page[n] \in DOMAIN head
    BY <1>1, <1>2
  <2>4. ~Before(page[n], page[i]) /\ ~Before(page[i], page[1])
    BY <2>2, <2>3, BeforeOrders
  <2> QED
    BY <1>1, <2>1, <2>4
<1>10. \A z \in Z : g[z] = 0
  <2> TAKE z \in Z
  <2>1. ~Before(page[n], z) /\ ~Before(z, page[1]) /\ z \notin R /\ z \in U
    OBVIOUS
  <2>2. \A i \in 1 .. n : page[i] \in R
    BY <1>1
  <2>3. z \notin S
    BY <1>1, <2>1, <2>2 DEF Window
  <2> QED
    BY <2>1, <2>3
<1>11. IsFiniteSet(P) /\ IsFiniteSet(V \ P) /\ IsFiniteSet(Z) /\ IsFiniteSet(V)
  BY <1>5, FS_Subset
<1>12. Splits(V, P, V \ P) /\ IntegersOn(g, V)
  BY <1>8 DEF Splits, IntegersOn
<1>13. Splits(V \ P, R, Z) /\ IntegersOn(g, V \ P)
  BY <1>9 DEF Splits, IntegersOn
<1>14. \A r \in R : g[r] \in Int
  BY <1>2 DEF IntegersOn
<1>15. \A u \in P : g[u] \in Int
  BY DEF IntegersOn
<1> HIDE DEF P, V, R, Z
<1>16. SumOf(V, g) = SumOf(P, g) + SumOf(V \ P, g)
  BY <1>11, <1>12, SumOfUnion
<1>17. SumOf(V \ P, g) = SumOf(R, g) + SumOf(Z, g)
  BY <1>7, <1>11, <1>13, SumOfUnion
<1>18. SumOf(Z, g) = 0
  BY <1>10, <1>11, SumOfZero
<1>19. SumOf(P, g) \in Int /\ SumOf(R, g) \in Int
  BY <1>7, <1>11, <1>14, <1>15, SumOfInt
<1> QED
  BY <1>7, <1>16, <1>17, <1>18, <1>19 DEF P, V
-----------------------------------------------------------------------------
(* The ledgers run on.                                                       *)

LEMMA OnAccountNone ==
  ASSUME NEW s \in Seq(Line), NEW a, \A k \in DOMAIN s : s[k].of # a
  PROVE  OnAccount(s, a) = 0
<1> DEFINE g == [k \in 1 .. Len(s) |-> IF s[k].of = a THEN s[k].amount ELSE 0]
<1>1. Len(s) \in Nat
  OBVIOUS
<1>2. PICK f : IsSumTo(f, g, Len(s)) /\ OnAccount(s, a) = f[Len(s)]
  BY <1>1, OnAccountIsSum
<1>3. \A k \in 1 .. Len(s) : g[k] = 0
  OBVIOUS
<1> HIDE DEF g
<1> DEFINE N == {m \in Nat : m <= Len(s) => f[m] = 0}
<1>4. 0 \in N
  BY <1>1, <1>2, SumToAt
<1>5. ASSUME NEW m \in N PROVE m + 1 \in N
  <2>1. CASE m + 1 <= Len(s)
    <3>1. m \in Nat /\ m + 1 \in 0 .. Len(s) /\ m + 1 \in 1 .. Len(s) /\ m + 1 # 0 /\ (m + 1) - 1 = m /\ f[m] = 0
      BY <1>1, <2>1
    <3>2. f[m + 1] = f[m] + g[m + 1]
      <4> HIDE DEF N
      <4> QED
        BY <1>1, <1>2, <3>1, SumToAt
    <3> QED
      BY <1>3, <3>1, <3>2
  <2> QED
    BY <2>1
<1> HIDE DEF N
<1>6. N = Nat
  BY <1>4, <1>5, FromZero DEF N
<1>7. Len(s) \in N
  BY <1>1, <1>6
<1> QED
  BY <1>1, <1>2, <1>7 DEF N

Tables == Dated /\ rows \in [DOMAIN head -> Seq(Line)]
LEMMA BookedInt ==
  ASSUME Tables, NEW a
  PROVE  \A t \in DOMAIN head : Booked(a)[t] = OnAccount(rows[t], a) /\ Booked(a)[t] \in Int
<1> TAKE t \in DOMAIN head
<1>1. rows[t] \in Seq(Line)
  BY DEF Tables
<1> QED
  BY <1>1, OnAccountInt DEF Booked

LEMMA LedgersRun ==
  ASSUME Tables, NEW a
  PROVE  LedgerRuns(a)
<1> SUFFICES ASSUME NEW p, LedgerPage(a, p) # <<>>,
                    ~(Reversed(a) /\ BalanceBefore(LedgerPage(a, p)[1].id, a) # 0),
                    NEW i \in DOMAIN LedgerPage(a, p)
             PROVE  LedgerPage(a, p)[i].balance = Sign(a) * SumBooked({u \in Txs : ~Before(LedgerPage(a, p)[i].id, u)}, a)
  BY DEF LedgerRuns, SumBooked
<1> DEFINE S == {t \in Txs : \E k \in DOMAIN rows[t] : rows[t][k].of = a}
           all == InOrder(S)
           page == IF Len(Page(all, p)) > 2 THEN Page(all, p) ELSE all
           ledger == LedgerPage(a, p)
           P == {u \in Txs : Before(u, page[1])}
           V == {u \in Txs : ~Before(page[i], u)}
<1>1. Dated /\ Txs \in SUBSET DOMAIN head /\ S \in SUBSET Txs /\ S \in SUBSET DOMAIN head
  BY DEF Tables, Txs
<1>2. Ordered(all, S)
  BY <1>1, InOrderIs
<1>3. Window(page, S)
  <2>1. all \in Seq(S) /\ Len(all) \in Nat
    BY <1>2 DEF Ordered
  <2>2. Slice(Page(all, p), all)
    BY <2>1, PageIs
  <2>3. Slice(all, all)
    <3>1. 0 + Len(all) <= Len(all) /\ \A n \in 1 .. Len(all) : all[n] = all[0 + n]
      BY <2>1
    <3> QED
      BY <2>1, <3>1 DEF Slice
  <2> HIDE DEF all, S
  <2> QED
    BY <1>2, <2>2, <2>3, WindowIs
<1>4. ledger = [n \in DOMAIN page |-> [id |-> page[n], balance |-> Sign(a) * (BalanceBefore(page[1], a) + PageBooked(page, n, a))]]
  BY DEF LedgerPage, PageBooked
<1>5. DOMAIN page = 1 .. Len(page)
  <2>1. all \in Seq(S) /\ Page(all, p) \in Seq(S)
    <3>1. all \in Seq(S)
      BY <1>2 DEF Ordered
    <3> HIDE DEF all, S
    <3> QED
      BY <3>1, PageIs
  <2> HIDE DEF all, S
  <2> QED
    BY <2>1
<1>6. i \in 1 .. Len(page) /\ 1 \in 1 .. Len(page) /\ i \in Nat
  <2>1. i \in DOMAIN page
    BY <1>4
  <2> QED
    BY <1>3, <1>5, <2>1 DEF Window
<1> HIDE DEF ledger, page, all
<1>7. ledger[1].id = page[1] /\ ledger[i].id = page[i]
      /\ ledger[i].balance = Sign(a) * (BalanceBefore(page[1], a) + PageBooked(page, i, a))
  <2>1. i \in DOMAIN page /\ 1 \in DOMAIN page
    BY <1>5, <1>6
  <2> QED
    BY <1>4, <2>1
<1>8. \A u \in Txs \ S : Booked(a)[u] = 0
  <2> TAKE u \in Txs \ S
  <2>1. u \in DOMAIN head /\ rows[u] \in Seq(Line)
    BY <1>1 DEF Tables
  <2>2. OnAccount(rows[u], a) = 0
    BY <2>1, OnAccountNone
  <2> QED
    BY <2>1, <2>2 DEF Booked
<1>9. IntegersOn(Booked(a), Txs)
  BY <1>1, BookedInt DEF IntegersOn
<1> DEFINE h == LinesBooked(page, i, a)
<1>10. \A k \in 1 .. i : h[k] = Booked(a)[page[k]]
  <2> TAKE k \in 1 .. i
  <2>1. page[k] \in S
    BY <1>3, <1>6 DEF Window
  <2>2. page[k] \in DOMAIN head
    BY <1>1, <2>1
  <2> QED
    BY <2>2 DEF LinesBooked, Booked
<1> HIDE DEF h, S
<1>11. SumOf(P, Booked(a)) + SumOf(1 .. i, h) = SumOf(V, Booked(a))
  BY <1>1, <1>3, <1>6, <1>8, <1>9, <1>10, WindowSum
<1>12. P \in SUBSET DOMAIN head /\ V \in SUBSET DOMAIN head
  BY <1>1
<1>13. IsFiniteSet(P) /\ SumBooked(P, a) = SumOf(P, Booked(a)) /\ SumBooked(V, a) = SumOf(V, Booked(a))
  <2> HIDE DEF P, V
  <2> QED
    BY <1>1, <1>12, BookedSum
<1>14. PageBooked(page, i, a) = SumOf(1 .. i, h)
  BY <1>6, PageBookedSum DEF h
<1>15. BalanceBefore(page[1], a) = Sign(a) * SumBooked(P, a)
  BY DEF BalanceBefore, SumBooked
<1>16. SumBooked(P, a) \in Int
  <2>1. \A u \in P : Booked(a)[u] \in Int
    BY <1>9 DEF IntegersOn
  <2> QED
    BY <1>13, <2>1, SumOfInt
<1> HIDE DEF P, V
<1>17. BalanceBefore(page[1], a) = SumBooked(P, a)
  <2>1. CASE Reversed(a)
    <3>1. BalanceBefore(page[1], a) = 0
      BY <1>7, <2>1 DEF ledger
    <3>2. Sign(a) = -1
      BY <2>1 DEF Sign
    <3> QED
      BY <1>15, <1>16, <3>1, <3>2
  <2>2. CASE ~Reversed(a)
    <3>1. Sign(a) = 1
      BY <2>2 DEF Sign
    <3> QED
      BY <1>15, <1>16, <3>1
  <2> QED
    BY <2>1, <2>2
<1>18. BalanceBefore(page[1], a) + PageBooked(page, i, a) = SumBooked(V, a)
  BY <1>11, <1>13, <1>14, <1>17
<1>19. ledger[i].balance = Sign(a) * SumBooked(V, a) /\ V = {u \in Txs : ~Before(ledger[i].id, u)}
  BY <1>7, <1>18 DEF V
<1> QED
  BY <1>19 DEF ledger
-----------------------------------------------------------------------------
(* The ledger of the cash-outs runs on.                                      *)

LEMMA AllDifferent ==
  ASSUME Dated, Cardinality({head[c].at : c \in Cashes}) = Cardinality(Cashes)
  PROVE  \A c, d \in Cashes : head[c].at = head[d].at => c = d
<1> DEFINE D == {head[c].at : c \in Cashes}
           f == [c \in Cashes |-> head[c].at]
<1>1. IsFiniteSet(Cashes)
  BY FS_Subset DEF Dated, BooksFinite, Cashes
<1>2. f \in Surjection(Cashes, D)
  BY DEF Surjection
<1>3. Cardinality(D) = Cardinality(Cashes)
  OBVIOUS
<1> HIDE DEF D, f
<1>4. f \in Injection(Cashes, D)
  BY <1>1, <1>2, <1>3, FS_Surjection
<1>5. \A c, d \in Cashes : f[c] = f[d] => c = d
  BY <1>4 DEF Injection, IsInjective
<1> QED
  BY <1>5 DEF f

LEMMA CashLedgersRun ==
  ASSUME Tables
  PROVE  CashRuns
<1> SUFFICES ASSUME Cardinality({head[c].at : c \in Cashes}) = Cardinality(Cashes), NEW p,
                    NEW n \in DOMAIN CashPage(p)
             PROVE  RunningCash(CashPage(p), n) = SumCounted({d \in Cashes : head[d].at <= head[CashPage(p)[n]].at})
  BY DEF CashRuns, CashLedger, CashOnHand, SumCounted
<1> DEFINE page == CashPage(p)
           P == {u \in Cashes : Before(u, page[1])}
           V == {u \in Cashes : ~Before(page[n], u)}
<1>1. Dated /\ Cashes \in SUBSET DOMAIN head
  BY DEF Tables, Cashes
<1>2. page \in Seq(Cashes) /\ Window(page, Cashes)
  <2>1. Ordered(InOrder(Cashes), Cashes)
    BY <1>1, InOrderIs
  <2>2. InOrder(Cashes) \in Seq(Cashes)
    BY <2>1 DEF Ordered
  <2>3. page \in Seq(Cashes) /\ Slice(page, InOrder(Cashes))
    BY <2>2, PageIs DEF CashPage
  <2> QED
    BY <2>1, <2>3, WindowIs
<1> HIDE DEF page
<1>3. n \in 1 .. Len(page) /\ n \in Nat /\ 1 \in 1 .. Len(page) /\ page[1] \in Cashes /\ page[n] \in Cashes
  <2>1. n \in DOMAIN page
    BY DEF page
  <2>2. n \in 1 .. Len(page) /\ Len(page) \in Nat
    BY <1>2, <2>1
  <2> QED
    BY <1>2, <2>2
<1>4. /\ \A c, d \in Cashes : head[c].at = head[d].at => c = d
      /\ \A c \in Cashes : head[c].at \in Nat /\ c \in Nat
  BY <1>1, AllDifferent, BeforeOrders
<1>5. P = Earlier(page[1]) /\ V = {d \in Cashes : head[d].at <= head[page[n]].at}
  <2>1. \A u \in Cashes : Before(u, page[1]) <=> head[u].at < head[page[1]].at
    BY <1>3, <1>4 DEF Before
  <2>2. \A u \in Cashes : ~Before(page[n], u) <=> head[u].at <= head[page[n]].at
    BY <1>3, <1>4 DEF Before
  <2> QED
    BY <2>1, <2>2 DEF Earlier
<1>6. P \in SUBSET DOMAIN head /\ V \in SUBSET DOMAIN head
  BY <1>1
<1>7. SumCounted(P) = SumOf(P, Counted) /\ SumCounted(V) = SumOf(V, Counted)
  <2> HIDE DEF P, V
  <2> QED
    BY <1>1, <1>6, CountedSum
<1>8. IntegersOn(Counted, Cashes)
  <2> SUFFICES ASSUME NEW c \in Cashes PROVE Counted[c] \in Int
    BY DEF IntegersOn
  <2>1. c \in DOMAIN head /\ rows[c] \in Seq(Line)
    BY <1>1 DEF Tables
  <2> QED
    BY <2>1, TotalType DEF Counted
<1> DEFINE h == LinesCounted(page, n)
<1>9. \A k \in 1 .. n : h[k] = Counted[page[k]]
  <2> TAKE k \in 1 .. n
  <2>1. page[k] \in Cashes
    BY <1>2, <1>3 DEF Window
  <2>2. page[k] \in DOMAIN head
    BY <1>1, <2>1
  <2> QED
    BY <2>2 DEF LinesCounted, Counted
<1> HIDE DEF h
<1>10. SumOf(P, Counted) + SumOf(1 .. n, h) = SumOf(V, Counted)
  <2>1. Cashes \in SUBSET Cashes /\ \A u \in Cashes \ Cashes : Counted[u] = 0
    OBVIOUS
  <2> QED
    BY <1>1, <1>2, <1>3, <1>8, <1>9, <2>1, WindowSum
<1>11. PageCounted(page, n) = SumOf(1 .. n, h)
  BY <1>3, PageCountedSum DEF h
<1>12. RunningCash(page, n) = SumCounted(Earlier(page[1])) + PageCounted(page, n)
  BY DEF RunningCash, SumCounted, PageCounted
<1> QED
  BY <1>5, <1>7, <1>10, <1>11, <1>12 DEF page
-----------------------------------------------------------------------------
(* FoldLeft chooses the largest index.                                       *)

LEMMA LastOfRange ==
  ASSUME NEW k \in Nat \ {0}
  PROVE  (CHOOSE x \in 1 .. k : \A y \in 1 .. k : x >= y) = k /\ (1 .. k) \ {k} = 1 .. k - 1
<1>1. k \in 1 .. k /\ \A y \in 1 .. k : k >= y
  OBVIOUS
<1>2. \A x \in 1 .. k : (\A y \in 1 .. k : x >= y) => x = k
  BY <1>1
<1>3. (1 .. k) \ {k} = 1 .. k - 1
  OBVIOUS
<1> QED
  BY <1>1, <1>2, <1>3, Zenon

LEMMA LastChosen ==
  ASSUME NEW n \in Nat
  PROVE  IsFiniteSet(1 .. n) /\ IsChoice([T \in SUBSET (1 .. n) |-> CHOOSE x \in T : \A y \in T : x >= y], 1 .. n)
<1>1. IsFiniteSet(1 .. n)
  BY FS_Interval, 1 \in Int, n \in Int, Zenon
<1>2. ASSUME NEW T \in SUBSET (1 .. n), T # {} PROVE (CHOOSE x \in T : \A y \in T : x >= y) \in T
  <2>0. T \in SUBSET Nat
    OBVIOUS
  <2>1. IsFiniteSet(T)
    BY <1>1, FS_Subset
  <2>2. \E x \in T : \A y \in T : x >= y
    BY <1>2, <2>0, <2>1, Greatest
  <2> QED
    BY <2>2
<1> QED
  BY <1>1, <1>2 DEF IsChoice

(* The days of transactions.                                                 *)
LEMMA DayOf ==
  ASSUME Dated
  PROVE  /\ \A t \in DOMAIN head : Day(head[t].at) \in Nat
         /\ \A t, u \in DOMAIN head : Before(t, u) => Day(head[t].at) <= Day(head[u].at)
<1>1. \A t \in DOMAIN head : head[t].at \in Nat
  BY BeforeOrders
<1>2. \A n \in Nat : n \div DayLength \in Nat
  <2>1. DayLength \in Nat \ {0}
    BY FinanceConstants
  <2>2. \A k \in Nat \ {0}, n \in Nat : n \div k \in Nat
    OBVIOUS
  <2> QED
    BY <2>1, <2>2
<1>3. \A n, m \in Nat : n <= m => n \div DayLength <= m \div DayLength
  <2> TAKE n, m \in Nat
  <2> HAVE n <= m
  <2> DEFINE p == n \div DayLength
             q == m \div DayLength
  <2>1. DayLength \in Nat \ {0}
    BY FinanceConstants
  <2>2. ASSUME NEW k \in Nat \ {0}, NEW l \in Nat
        PROVE  l \div k \in Nat /\ k * (l \div k) <= l /\ l < k * (l \div k) + k
    <3>1. l \div k \in Nat /\ l % k \in 0 .. k - 1 /\ l = k * (l \div k) + (l % k)
      OBVIOUS
    <3>2. k * (l \div k) \in Int
      BY <3>1
    <3> QED
      BY <3>1, <3>2
  <2>3. p \in Nat /\ q \in Nat /\ DayLength * p <= n /\ m < DayLength * q + DayLength
    BY <2>1, <2>2
  <2> HIDE DEF p, q
  <2>4. ASSUME NEW k \in Nat \ {0}, NEW x \in Nat, NEW y \in Nat, x > y
        PROVE  k * x >= k * y + k
    <3>1. x - (y + 1) \in Nat
      BY <2>4
    <3>2. k * (x - (y + 1)) >= 0
      BY <3>1
    <3>3. k * (x - (y + 1)) = k * x - (k * y + k) /\ k * x \in Int /\ k * y \in Int
      OBVIOUS
    <3> QED
      BY <3>2, <3>3
  <2>5. ASSUME p > q PROVE FALSE
    <3>1. DayLength * p >= DayLength * q + DayLength
      BY <2>1, <2>3, <2>4, <2>5
    <3>2. DayLength * p \in Int /\ DayLength * q \in Int
      BY <2>1, <2>3
    <3> QED
      BY <2>1, <2>3, <3>1, <3>2
  <2>6. p <= q
    BY <2>3, <2>5
  <2> QED
    BY <2>6 DEF p, q
<1>4. \A t, u \in DOMAIN head : Before(t, u) => head[t].at <= head[u].at
  BY <1>1 DEF Before
<1> QED
  BY <1>1, <1>2, <1>3, <1>4 DEF Day

(* The lines of the dump, after the transactions T.                          *)
DayFor(t) == Day(head[t].at)
DumpStep(acc, t, a) ==
  [out |-> IF acc.date \in {-1, Day(head[t].at)} THEN acc.out ELSE Append(acc.out, <<acc.date, acc.sum>>),
   date |-> Day(head[t].at), sum |-> acc.sum + Sign(a) * OnAccount(rows[t], a)]
DumpStart == [out |-> <<>>, date |-> -1, sum |-> 0]
DumpRecords == [out : Seq(Int \X Int), date : Int, sum : Int]
DumpOf(v, T, a) ==
  /\ v.date \in Nat /\ (\E t \in T : DayFor(t) = v.date) /\ \A t \in T : DayFor(t) <= v.date
  /\ v.sum = Sign(a) * SumOf(T, Booked(a))
  /\ Len(v.out) + 1 = Cardinality({DayFor(t) : t \in T})
  /\ \A j \in 1 .. Len(v.out) :
       v.out[j][1] < v.date /\ v.out[j][2] = Sign(a) * SumOf({t \in T : DayFor(t) <= v.out[j][1]}, Booked(a))
Dumped(v, T, a) == v \in DumpRecords /\ IF T = {} THEN v = DumpStart ELSE DumpOf(v, T, a)

LEMMA DumpStepType ==
  ASSUME Tables, NEW a, NEW v \in DumpRecords, NEW u \in DOMAIN head
  PROVE  DumpStep(v, u, a) \in DumpRecords
<1>1. Day(head[u].at) \in Int /\ OnAccount(rows[u], a) \in Int /\ Sign(a) \in Int
  <2>1. Day(head[u].at) \in Nat
    BY DayOf DEF Tables
  <2>2. OnAccount(rows[u], a) \in Int
    BY BookedInt
  <2> QED
    BY <2>1, <2>2 DEF Sign
<1>2. v.out \in Seq(Int \X Int) /\ v.date \in Int /\ v.sum \in Int
  BY DEF DumpRecords
<1>3. v.sum + Sign(a) * OnAccount(rows[u], a) \in Int
  BY <1>1, <1>2
<1>4. Append(v.out, <<v.date, v.sum>>) \in Seq(Int \X Int)
  BY <1>2
<1> DEFINE out == IF v.date \in {-1, Day(head[u].at)} THEN v.out ELSE Append(v.out, <<v.date, v.sum>>)
<1>5. out \in Seq(Int \X Int)
  BY <1>2, <1>4
<1> HIDE DEF out
<1> QED
  BY <1>1, <1>3, <1>5 DEF DumpStep, DumpRecords, out

LEMMA DumpOn ==
  ASSUME Tables, NEW a, NEW T \in SUBSET DOMAIN head, NEW u \in DOMAIN head, u \notin T,
         \A t \in T : Before(t, u), NEW v, Dumped(v, T, a)
  PROVE  Dumped(DumpStep(v, u, a), T \cup {u}, a)
<1> DEFINE w == DumpStep(v, u, a)
           U == T \cup {u}
           d == DayFor(u)
           b == Booked(a)
<1>1. /\ Dated /\ IsFiniteSet(T) /\ IsFiniteSet(U) /\ U \in SUBSET DOMAIN head
      /\ \A t \in DOMAIN head : DayFor(t) \in Nat /\ b[t] \in Int
      /\ \A t \in T : DayFor(t) <= d
  <2>1. Dated /\ IsFiniteSet(DOMAIN head)
    BY DEF Tables, Dated, BooksFinite
  <2>2. U \in SUBSET DOMAIN head
    OBVIOUS
  <2>3. IsFiniteSet(T) /\ IsFiniteSet(U)
    BY <2>1, <2>2, FS_Subset
  <2>4. \A t \in DOMAIN head : b[t] \in Int
    BY BookedInt
  <2>5. (\A t \in DOMAIN head : DayFor(t) \in Nat) /\ \A t \in T : DayFor(t) <= d
    BY <2>1, DayOf DEF DayFor
  <2> QED
    BY <2>1, <2>2, <2>3, <2>4, <2>5
<1>2. v \in DumpRecords /\ w \in DumpRecords
  BY DumpStepType DEF Dumped
<1>3. /\ w.date = d /\ w.sum = v.sum + Sign(a) * b[u]
      /\ v.date \in {-1, d} => w.out = v.out
      /\ v.date \notin {-1, d} => w.out = Append(v.out, <<v.date, v.sum>>)
  BY DEF DumpStep, DayFor, Booked
<1>4. v.out \in Seq(Int \X Int) /\ v.date \in Int /\ v.sum \in Int /\ w.out \in Seq(Int \X Int)
  BY <1>2 DEF DumpRecords
<1>5. Sign(a) \in Int
  BY DEF Sign
<1>6. d \in Nat /\ b[u] \in Int
  BY <1>1
<1> HIDE DEF w, b, d
<1>7. SumOf(U, b) = b[u] + SumOf(T, b) /\ SumOf(T, b) \in Int
  <2>1. U \ {u} = T /\ u \in U
    OBVIOUS
  <2>2. (\A x \in U : b[x] \in Int) /\ \A x \in T : b[x] \in Int
    BY <1>1
  <2> HIDE DEF U
  <2> QED
    BY <1>1, <2>1, <2>2, SumOfTake, SumOfInt
<1>8. v.sum = Sign(a) * SumOf(T, b)
  <2>1. CASE T = {}
    <3>1. v.sum = 0
      BY <2>1 DEF Dumped, DumpStart
    <3>2. SumOf(T, b) = 0
      BY <2>1, SumOfEmpty
    <3> QED
      BY <1>5, <3>1, <3>2
  <2>2. CASE T # {}
    BY <2>2 DEF Dumped, DumpOf, b
  <2> QED
    BY <2>1, <2>2
<1>9. w.sum = Sign(a) * SumOf(U, b)
  <2>1. \A x, y, z \in Int : x * y + x * z = x * (z + y)
    OBVIOUS
  <2> QED
    BY <1>3, <1>5, <1>6, <1>7, <1>8, <2>1
<1>10. w.date \in Nat /\ (\E t \in U : DayFor(t) = w.date) /\ \A t \in U : DayFor(t) <= w.date
  BY <1>1, <1>3, <1>6 DEF d
<1> DEFINE days == {DayFor(t) : t \in T}
<1>11. {DayFor(t) : t \in U} = days \cup {d} /\ IsFiniteSet(days)
  <2>1. IsFiniteSet({DayFor(t) : t \in T})
    <3> DEFINE f == [t \in T |-> DayFor(t)]
    <3>1. f \in Surjection(T, {DayFor(t) : t \in T})
      BY DEF Surjection
    <3> QED
      BY <1>1, <3>1, FS_Surjection
  <2> QED
    BY <2>1 DEF d
<1>12. /\ Len(w.out) + 1 = Cardinality(days \cup {d})
       /\ \A j \in 1 .. Len(w.out) :
            w.out[j][1] < w.date /\ w.out[j][2] = Sign(a) * SumOf({t \in U : DayFor(t) <= w.out[j][1]}, b)
  <2>1. CASE T = {}
    <3>1. v = DumpStart
      BY <2>1 DEF Dumped
    <3>2. v.date = -1 /\ v.out = <<>>
      BY <3>1 DEF DumpStart
    <3>3. w.out = <<>> /\ Len(w.out) = 0 /\ 1 .. 0 = {}
      BY <1>3, <3>2
    <3>4. days \cup {d} = {d} /\ Cardinality({d}) = 1
      BY <2>1, FS_Singleton
    <3>5. Len(w.out) + 1 = Cardinality(days \cup {d})
      <4>1. Len(w.out) + 1 = 1
        BY <3>3
      <4> HIDE DEF days
      <4>2. Cardinality(days \cup {d}) = 1
        BY <3>4, Zenon
      <4> QED
        BY <4>1, <4>2
    <3>6. 1 .. Len(w.out) = {}
      BY <3>3
    <3> HIDE DEF days, U
    <3> QED
      BY <3>5, <3>6
  <2>2. CASE T # {}
    <3>1. /\ v.date \in Nat /\ (\E t \in T : DayFor(t) = v.date) /\ \A t \in T : DayFor(t) <= v.date
          /\ Len(v.out) + 1 = Cardinality(days)
          /\ \A j \in 1 .. Len(v.out) :
               v.out[j][1] < v.date /\ v.out[j][2] = Sign(a) * SumOf({t \in T : DayFor(t) <= v.out[j][1]}, b)
      BY <2>2 DEF Dumped, DumpOf, b
    <3>2. v.date # -1 /\ v.date <= d
      BY <1>1, <3>1
    <3>3. ASSUME NEW c \in Int, c < d PROVE {t \in U : DayFor(t) <= c} = {t \in T : DayFor(t) <= c}
      <4>1. ~(DayFor(u) <= c)
        BY <1>6, <3>3 DEF d
      <4> QED
        BY <4>1
    <3>4. Len(v.out) \in Nat /\ \A j \in 1 .. Len(v.out) : v.out[j][1] \in Int
      <4>1. \A j \in 1 .. Len(v.out) : v.out[j] \in Int \X Int
        BY <1>4
      <4> QED
        BY <1>4, <4>1
    <3>5. \A j \in 1 .. Len(v.out) :
            v.out[j][1] < d /\ v.out[j][2] = Sign(a) * SumOf({t \in U : DayFor(t) <= v.out[j][1]}, b)
      <4> TAKE j \in 1 .. Len(v.out)
      <4>1. v.out[j][1] \in Int /\ v.out[j][1] < d
        <5>1. v.out[j][1] \in Int /\ v.out[j][1] < v.date
          BY <3>1, <3>4
        <5>2. \A x, y, z \in Int : x < y /\ y <= z => x < z
          OBVIOUS
        <5> QED
          BY <1>4, <1>6, <3>2, <5>1, <5>2
      <4>2. {t \in U : DayFor(t) <= v.out[j][1]} = {t \in T : DayFor(t) <= v.out[j][1]}
        BY <3>3, <4>1
      <4> HIDE DEF U
      <4> QED
        BY <3>1, <4>1, <4>2
    <3>6. CASE v.date = d
      <4>1. w.out = v.out /\ w.date = d
        BY <1>3, <3>6
      <4>2. d \in days
        BY <3>1, <3>6
      <4>3. days \cup {d} = days
        BY <4>2
      <4> HIDE DEF U, days
      <4> QED
        BY <3>1, <3>5, <4>1, <4>3
    <3>7. CASE v.date # d
      <4>1. w.out = Append(v.out, <<v.date, v.sum>>) /\ w.date = d /\ v.date < d
        BY <1>3, <1>6, <3>1, <3>2, <3>7
      <4>2. /\ Len(w.out) = Len(v.out) + 1 /\ w.out[Len(v.out) + 1] = <<v.date, v.sum>>
            /\ \A j \in 1 .. Len(v.out) : w.out[j] = v.out[j]
        BY <1>4, <4>1
      <4>3. {t \in U : DayFor(t) <= v.date} = T
        <5>1. {t \in T : DayFor(t) <= v.date} = T
          BY <3>1
        <5>2. {t \in U : DayFor(t) <= v.date} = {t \in T : DayFor(t) <= v.date}
          BY <1>4, <3>3, <4>1
        <5> QED
          BY <5>1, <5>2
      <4>4. d \notin days
        <5>1. \A t \in T : DayFor(t) # d
          BY <1>1, <1>6, <3>1, <4>1
        <5> QED
          BY <5>1
      <4>5. Cardinality(days \cup {d}) = Cardinality(days) + 1
        BY <1>11, <4>4, FS_AddElement
      <4> HIDE DEF U, days
      <4>6. \A j \in 1 .. Len(w.out) : j \in 1 .. Len(v.out) \/ j = Len(v.out) + 1
        BY <3>4, <4>2
      <4>7. <<v.date, v.sum>>[1] = v.date /\ <<v.date, v.sum>>[2] = v.sum
        OBVIOUS
      <4>8. \A j \in 1 .. Len(v.out) :
              w.out[j][1] < w.date /\ w.out[j][2] = Sign(a) * SumOf({t \in U : DayFor(t) <= w.out[j][1]}, b)
        BY <3>5, <4>1, <4>2
      <4>9. w.out[Len(v.out) + 1][1] < w.date
            /\ w.out[Len(v.out) + 1][2] = Sign(a) * SumOf({t \in U : DayFor(t) <= w.out[Len(v.out) + 1][1]}, b)
        BY <1>8, <4>1, <4>2, <4>3, <4>7
      <4> QED
        BY <3>1, <4>2, <4>5, <4>6, <4>8, <4>9
    <3> QED
      BY <3>6, <3>7
  <2> QED
    BY <2>1, <2>2
<1>13. Len(w.out) + 1 = Cardinality({DayFor(t) : t \in U})
  <2> HIDE DEF U, days
  <2>1. Len(w.out) + 1 = Cardinality(days \cup {d})
    BY <1>12
  <2> QED
    BY <1>11, <2>1
<1>14. DumpOf(w, U, a)
  <2> HIDE DEF U, days
  <2> QED
    BY <1>9, <1>10, <1>12, <1>13 DEF DumpOf, b
<1>15. U # {}
  OBVIOUS
<1> HIDE DEF U
<1> QED
  BY <1>2, <1>14, <1>15 DEF Dumped, U, w
-----------------------------------------------------------------------------
(* The dump as a fold.                                                       *)

DumpEnd(a) == FoldLeft(LAMBDA acc, t : DumpStep(acc, t, a), DumpStart, InOrder(Txs))
LEMMA DumpIs ==
  ASSUME NEW a
  PROVE  Dump(a) = Append(DumpEnd(a).out, <<DumpEnd(a).date, DumpEnd(a).sum>>)
  BY DEF Dump, DumpEnd, DumpStep, DumpStart

LEMMA DumpEnds ==
  ASSUME Tables, NEW a
  PROVE  Dumped(DumpEnd(a), Txs, a)
<1> DEFINE s == InOrder(Txs)
           n == Len(s)
           Lastly(T) == CHOOSE x \in T : \A y \in T : x >= y
           c == [T \in SUBSET (1 .. n) |-> CHOOSE x \in T : \A y \in T : x >= y]
           g == [p \in (1 .. n) \X DumpRecords |-> DumpStep(p[2], s[p[1]], a)]
           Eq(F) == F = [T \in SUBSET (1 .. n) |-> IF T = {} THEN DumpStart
                                                  ELSE DumpStep(F[T \ {Lastly(T)}], s[Lastly(T)], a)]
           F == CHOOSE F : Eq(F)
<1>1. Dated /\ Txs \in SUBSET DOMAIN head /\ Ordered(s, Txs)
  <2>1. Dated /\ Txs \in SUBSET DOMAIN head
    BY DEF Tables, Txs
  <2> QED
    BY <2>1, InOrderIs
<1>2. /\ n \in Nat /\ DOMAIN s = 1 .. n /\ Txs = {s[i] : i \in 1 .. n}
      /\ \A i, j \in 1 .. n : i < j => Before(s[i], s[j])
      /\ \A i \in 1 .. n : s[i] \in DOMAIN head
  <2>1. s \in Seq(Txs) /\ Len(s) \in Nat
    BY <1>1 DEF Ordered
  <2> HIDE DEF s
  <2> QED
    BY <1>1, <2>1 DEF Ordered
<1> HIDE DEF s
<1>3. DumpEnd(a) = F[1 .. n]
  BY <1>2 DEF DumpEnd, FoldLeft, MapThenFoldSet, Max, s
<1> HIDE DEF n
<1>4. IsFiniteSet(1 .. n) /\ IsChoice(c, 1 .. n)
  BY <1>2, LastChosen
<1>5. DumpStart \in DumpRecords
  <2>1. <<>> \in Seq(Int \X Int) /\ -1 \in Int /\ 0 \in Int
    OBVIOUS
  <2> QED
    BY <2>1 DEF DumpStart, DumpRecords
<1>6. PICK G : IsFoldBy(G, g, c, DumpStart, 1 .. n) /\ \A T \in SUBSET (1 .. n) : G[T] \in DumpRecords
  <2>1. \A x \in 1 .. n, v \in DumpRecords : g[<<x, v>>] \in DumpRecords
    <3> TAKE x \in 1 .. n, v \in DumpRecords
    <3>1. g[<<x, v>>] = DumpStep(v, s[x], a)
      OBVIOUS
    <3> QED
      BY <1>2, <3>1, DumpStepType
  <2> HIDE DEF g, c
  <2> QED
    BY <1>4, <1>5, <2>1, FoldByIn
<1>7. Eq(G)
  <2>1. ASSUME NEW T \in SUBSET (1 .. n), T # {} PROVE g[<<c[T], G[T \ {c[T]}]>>] = DumpStep(G[T \ {Lastly(T)}], s[Lastly(T)], a)
    <3>1. c[T] = Lastly(T) /\ c[T] \in 1 .. n
      BY <1>4, <2>1 DEF IsChoice
    <3>2. G[T \ {c[T]}] \in DumpRecords
      BY <1>6
    <3> HIDE DEF c, Lastly
    <3>3. <<c[T], G[T \ {c[T]}]>> \in (1 .. n) \X DumpRecords
      BY <3>1, <3>2
    <3>4. g[<<c[T], G[T \ {c[T]}]>>] = DumpStep(G[T \ {c[T]}], s[c[T]], a)
      BY <3>3
    <3> QED
      BY <3>1, <3>4
  <2> HIDE DEF g, c, Lastly
  <2> QED
    BY <1>6, <2>1, ZenonT(60) DEF IsFoldBy
<1>8. Eq(F)
  <2> HIDE DEF Eq
  <2> QED
    BY <1>7
<1> HIDE DEF F, c, g
<1> DEFINE Up(k) == {s[i] : i \in 1 .. k}
           N == {k \in Nat : k <= n => Dumped(F[1 .. k], Up(k), a)}
<1>9. 0 \in N
  <2>1. 1 .. 0 = {} /\ {} \in SUBSET (1 .. n)
    OBVIOUS
  <2>2. F[1 .. 0] = DumpStart /\ Up(0) = {}
    BY <1>8, <2>1
  <2> HIDE DEF Up
  <2>3. Dumped(F[1 .. 0], Up(0), a)
    BY <1>5, <2>2 DEF Dumped
  <2> QED
    BY <2>3
<1>10. ASSUME NEW k \in N PROVE k + 1 \in N
  <2> SUFFICES ASSUME k + 1 <= n PROVE Dumped(F[1 .. k + 1], Up(k + 1), a)
    OBVIOUS
  <2>1. k \in Nat /\ k + 1 \in Nat \ {0} /\ k + 1 \in 1 .. n /\ Dumped(F[1 .. k], Up(k), a) /\ (k + 1) - 1 = k
    BY <1>2
  <2> HIDE DEF N
  <2>2. Lastly(1 .. k + 1) = k + 1 /\ (1 .. k + 1) \ {k + 1} = 1 .. k
    BY <2>1, LastOfRange
  <2> HIDE DEF Lastly
  <2>3. F[1 .. k + 1] = DumpStep(F[1 .. k], s[k + 1], a)
    <3>1. 1 .. k + 1 \in SUBSET (1 .. n) /\ 1 .. k + 1 # {}
      <4>1. \A i \in 1 .. k + 1 : i \in 1 .. n
        BY <1>2, <2>1
      <4>2. 1 \in 1 .. k + 1
        BY <2>1
      <4> QED
        BY <4>1, <4>2
    <3>2. F[1 .. k + 1] = DumpStep(F[(1 .. k + 1) \ {Lastly(1 .. k + 1)}], s[Lastly(1 .. k + 1)], a)
      BY <1>8, <3>1
    <3> QED
      BY <2>2, <3>2
  <2>4. \A i \in 1 .. k : i \in 1 .. n /\ i < k + 1
    BY <1>2, <2>1
  <2>5. s[k + 1] \in DOMAIN head /\ Up(k) \in SUBSET DOMAIN head /\ \A t \in Up(k) : Before(t, s[k + 1])
    BY <1>2, <2>1, <2>4
  <2>6. s[k + 1] \notin Up(k)
    BY <1>1, <2>5, BeforeOrders
  <2>7. Up(k + 1) = Up(k) \cup {s[k + 1]}
    <3>1. \A i \in 1 .. k + 1 : i \in 1 .. k \/ i = k + 1
      BY <2>1
    <3>2. k + 1 \in 1 .. k + 1 /\ \A i \in 1 .. k : i \in 1 .. k + 1
      BY <2>1
    <3> QED
      BY <3>1, <3>2
  <2> HIDE DEF Up
  <2> QED
    BY <2>1, <2>3, <2>5, <2>6, <2>7, DumpOn
<1> HIDE DEF N
<1>11. N = Nat
  BY <1>9, <1>10, FromZero DEF N
<1>12. n \in N
  BY <1>2, <1>11
<1>13. Dumped(F[1 .. n], Up(n), a) /\ Up(n) = Txs
  BY <1>2, <1>12 DEF N
<1> HIDE DEF Up
<1> QED
  BY <1>3, <1>13

LEMMA DumpsRun ==
  ASSUME Tables, NEW a
  PROVE  DumpRuns(a)
<1> SUFFICES ASSUME Txs # {}
             PROVE  /\ Len(Dump(a)) = Cardinality({Day(head[t].at) : t \in Txs})
                    /\ \A i \in DOMAIN Dump(a) : Dump(a)[i][2] = Shown(a, Dump(a)[i][1])
  BY DEF DumpRuns
<1> DEFINE v == DumpEnd(a)
           d == Dump(a)
<1>1. v \in DumpRecords /\ DumpOf(v, Txs, a)
  BY DumpEnds DEF Dumped
<1>2. d = Append(v.out, <<v.date, v.sum>>)
  BY DumpIs
<1> HIDE DEF v, d
<1>3. v.out \in Seq(Int \X Int) /\ v.date \in Int /\ v.sum \in Int
  BY <1>1 DEF DumpRecords
<1>4. /\ Len(d) = Len(v.out) + 1 /\ d[Len(v.out) + 1] = <<v.date, v.sum>> /\ Len(v.out) \in Nat
      /\ \A j \in 1 .. Len(v.out) : d[j] = v.out[j]
      /\ DOMAIN d = 1 .. Len(v.out) + 1
  BY <1>2, <1>3
<1>5. \A c : Shown(a, c) = Sign(a) * SumOf({t \in Txs : DayFor(t) <= c}, Booked(a))
  <2> TAKE c
  <2> DEFINE S == {t \in Txs : Day(head[t].at) <= c}
  <2>1. Shown(a, c) = Sign(a) * SumBooked(S, a)
    BY DEF Shown, Balances, SumBooked
  <2>2. S \in SUBSET DOMAIN head /\ S = {t \in Txs : DayFor(t) <= c}
    BY DEF Txs, DayFor
  <2> HIDE DEF S
  <2>3. SumBooked(S, a) = SumOf(S, Booked(a))
    BY <2>2, BookedSum DEF Tables
  <2> QED
    BY <2>1, <2>2, <2>3
<1>6. {t \in Txs : DayFor(t) <= v.date} = Txs
  BY <1>1 DEF DumpOf
<1>7. \A i \in DOMAIN d : d[i][2] = Shown(a, d[i][1])
  <2> TAKE i \in DOMAIN d
  <2>1. i \in 1 .. Len(v.out) \/ i = Len(v.out) + 1
    BY <1>4
  <2>2. CASE i \in 1 .. Len(v.out)
    <3>1. d[i] = v.out[i] /\ v.out[i][2] = Sign(a) * SumOf({t \in Txs : DayFor(t) <= v.out[i][1]}, Booked(a))
      BY <1>1, <1>4, <2>2 DEF DumpOf
    <3> QED
      BY <1>5, <3>1
  <2>3. CASE i = Len(v.out) + 1
    <3>1. d[i][1] = v.date /\ d[i][2] = v.sum
      BY <1>4, <2>3
    <3>2. v.sum = Sign(a) * SumOf(Txs, Booked(a))
      BY <1>1 DEF DumpOf
    <3> QED
      BY <1>5, <1>6, <3>1, <3>2
  <2> QED
    BY <2>1, <2>2, <2>3
<1>8. Len(d) = Cardinality({Day(head[t].at) : t \in Txs})
  BY <1>1, <1>4 DEF DumpOf, DayFor
<1> QED
  BY <1>7, <1>8 DEF d
-----------------------------------------------------------------------------
(* FlattenSeq puts the members of b one after the other: those of b[i] come  *)
(* after the first c[i - 1].                                                 *)

Laid(s, b, c, m) == Len(s) = c[m] /\ \A i \in 1 .. m : \A j \in 1 .. Len(b[i]) : s[c[i - 1] + j] = b[i][j]
Offsets(c, b, n) ==
  /\ c[0] = 0 /\ \A i \in 0 .. n : c[i] \in Nat
  /\ \A i \in 1 .. n : c[i] = c[i - 1] + Len(b[i])
LEMMA FlattenedIs ==
  ASSUME NEW V, NEW n \in Nat, NEW b \in [1 .. n -> Seq(V)]
  PROVE  \E c : Offsets(c, b, n) /\ FlattenSeq(b) \in Seq(V) /\ Laid(FlattenSeq(b), b, c, n)
<1>0. Len(b) = n /\ \A i \in 1 .. n : b[i] \in Seq(V) /\ Len(b[i]) \in Nat
  OBVIOUS
<1>1. PICK c : Offsets(c, b, n) /\ \A i, m \in 0 .. n : i <= m => c[i] <= c[m]
  <2> DEFINE g == [k \in 1 .. n |-> Len(b[k])]
  <2>1. PICK c : IsSumTo(c, g, n)
    BY SumToExists
  <2>2. \A k \in 1 .. n : g[k] = Len(b[k])
    OBVIOUS
  <2> HIDE DEF g
  <2>3. c[0] = 0 /\ \A i \in 1 .. n : c[i] = c[i - 1] + Len(b[i])
    <3>1. 0 \in 0 .. n /\ \A i \in 1 .. n : i \in 0 .. n /\ i # 0
      OBVIOUS
    <3> QED
      BY <2>1, <2>2, <3>1, SumToAt
  <2> DEFINE N == {m \in Nat : m <= n => \A i \in 0 .. m : c[i] \in Nat /\ c[i] <= c[m]}
  <2>4. 0 \in N
    <3>1. \A i \in 0 .. 0 : i = 0
      OBVIOUS
    <3> QED
      BY <2>3, <3>1
  <2>5. ASSUME NEW m \in N PROVE m + 1 \in N
    <3> SUFFICES ASSUME m + 1 <= n PROVE \A i \in 0 .. m + 1 : c[i] \in Nat /\ c[i] <= c[m + 1]
      OBVIOUS
    <3>1. m \in Nat /\ c[m] \in Nat /\ \A i \in 0 .. m : c[i] \in Nat /\ c[i] <= c[m]
      OBVIOUS
    <3>2. m + 1 \in 1 .. n /\ (m + 1) - 1 = m
      BY <3>1
    <3>3. c[m + 1] = c[m] + Len(b[m + 1]) /\ Len(b[m + 1]) \in Nat
      BY <1>0, <2>3, <3>2
    <3> HIDE DEF N
    <3>4. ASSUME NEW i \in 0 .. m PROVE c[i] \in Nat /\ c[i] <= c[m + 1]
      <4>1. c[i] <= c[m] /\ c[i] \in Nat
        BY <3>1
      <4> QED
        BY <3>1, <3>3, <4>1
    <3>5. \A i \in 0 .. m + 1 : i \in 0 .. m \/ i = m + 1
      BY <3>1
    <3> QED
      BY <3>1, <3>3, <3>4, <3>5
  <2> HIDE DEF N
  <2>6. N = Nat
    BY <2>4, <2>5, FromZero DEF N
  <2>7. ASSUME NEW m \in 0 .. n PROVE c[m] \in Nat /\ \A i \in 0 .. m : c[i] <= c[m]
    <3>1. m \in N /\ m <= n /\ m \in 0 .. m
      BY <2>6
    <3> QED
      BY <3>1 DEF N
  <2>8. \A i, m \in 0 .. n : i <= m => c[i] <= c[m]
    <3> TAKE i, m \in 0 .. n
    <3> HAVE i <= m
    <3>1. i \in 0 .. m
      OBVIOUS
    <3> QED
      BY <2>7, <3>1
  <2> QED
    BY <2>3, <2>7, <2>8 DEF Offsets
<1>2. CASE n = 0
  <2>1. FlattenSeq(b) = b
    BY <1>0, <1>2 DEF FlattenSeq
  <2>2. b = <<>> /\ b \in Seq(V) /\ Len(b) = 0 /\ 1 .. 0 = {}
    BY <1>0, <1>2
  <2>3. Laid(FlattenSeq(b), b, c, n)
    BY <1>1, <1>2, <2>1, <2>2 DEF Laid, Offsets
  <2> QED
    BY <1>1, <2>1, <2>2, <2>3
<1>3. CASE n # 0
  <2> DEFINE g == [p \in (1 .. n) \X Seq(V) |-> p[2] \o b[p[1]]]
             Eq(F) == F = [i \in 1 .. n |-> IF i = 1 THEN b[i] ELSE F[i - 1] \o b[i]]
             F == CHOOSE F : Eq(F)
  <2>1. PICK G : IsStepwise(G, g, b[1], 2, n)
    <3> HIDE DEF g
    <3>1. 2 \in Int /\ n \in Int
      OBVIOUS
    <3> QED
      BY <3>1, StepwiseExists
  <2>2. \A d \in 1 .. n : G[d] = IF d < 2 THEN b[1] ELSE g[<<d, G[d - 1]>>]
    <3> HIDE DEF g
    <3>1. 2 - 1 = 1
      OBVIOUS
    <3> QED
      BY <2>1, <3>1 DEF IsStepwise
  <2>3. \A d \in 1 .. n : G[d] \in Seq(V) /\ (d # 1 => G[d] = G[d - 1] \o b[d])
    <3> DEFINE A == {d \in 1 .. n : G[d] \in Seq(V) /\ (d # 1 => G[d] = G[d - 1] \o b[d])}
    <3>1. 1 \in A
      <4> HIDE DEF g
      <4>1. 1 \in 1 .. n /\ 1 < 2 /\ b[1] \in Seq(V)
        BY <1>0, <1>3
      <4>2. G[1] = b[1]
        BY <2>2, <4>1
      <4> QED
        BY <4>1, <4>2
    <3>2. ASSUME NEW d \in 2 .. n, d - 1 \in A PROVE d \in A
      <4>1. d \in 1 .. n /\ ~(d < 2) /\ d # 1 /\ G[d - 1] \in Seq(V) /\ b[d] \in Seq(V)
        BY <1>0, <3>2
      <4>2. <<d, G[d - 1]>> \in (1 .. n) \X Seq(V)
        BY <4>1
      <4>3. g[<<d, G[d - 1]>>] = G[d - 1] \o b[d]
        BY <4>2
      <4> HIDE DEF g, A
      <4>4. G[d] = G[d - 1] \o b[d]
        BY <2>2, <4>1, <4>3
      <4>5. G[d] \in Seq(V)
        BY <4>1, <4>4
      <4> QED
        BY <4>1, <4>4, <4>5 DEF A
    <3> HIDE DEF A, g
    <3>3. \A d \in 2 - 1 .. n : d \in A
      <4>1. 2 - 1 \in A
        BY <3>1
      <4>2. 2 \in Int /\ n \in Int /\ \A d \in 2 .. n : d - 1 \in A => d \in A
        BY <3>2
      <4> QED
        BY ONLY <4>1, <4>2, StepwiseFrom
    <3> QED
      BY <3>3 DEF A
  <2>4. Eq(G)
    <3>1. DOMAIN G = 1 .. n /\ G = [d \in 1 .. n |-> G[d]]
      BY <2>1 DEF IsStepwise
    <3>2. \A i \in 1 .. n : G[i] = IF i = 1 THEN b[i] ELSE G[i - 1] \o b[i]
      <4> TAKE i \in 1 .. n
      <4>1. CASE i = 1
        <5> HIDE DEF g
        <5>1. i < 2
          BY <4>1
        <5> QED
          BY <2>2, <4>1, <5>1
      <4>2. CASE i # 1
        BY <2>3, <4>2
      <4> QED
        BY <4>1, <4>2
    <3> QED
      BY <3>1, <3>2
  <2>5. Eq(F)
    <3> HIDE DEF Eq
    <3> QED
      BY <2>4
  <2>6. FlattenSeq(b) = F[n]
    BY <1>0, <1>3 DEF FlattenSeq
  <2> HIDE DEF F, g
  <2>7. F[1] = b[1] /\ \A i \in 2 .. n : F[i] = F[i - 1] \o b[i]
    <3>1. 1 \in 1 .. n /\ \A i \in 2 .. n : i \in 1 .. n /\ i # 1
      BY <1>3
    <3> QED
      BY <2>5, <3>1
  <2> HIDE DEF Eq
  <2> DEFINE A == {m \in 1 .. n : F[m] \in Seq(V) /\ Laid(F[m], b, c, m)}
  <2>8. 1 \in A
    <3>1. 1 \in 1 .. n /\ c[0] = 0 /\ c[1] = c[0] + Len(b[1]) /\ 1 - 1 = 0
      BY <1>1, <1>3 DEF Offsets
    <3>2. \A i \in 1 .. 1 : i = 1
      OBVIOUS
    <3>3. Len(F[1]) = c[1] /\ F[1] \in Seq(V)
      BY <1>0, <2>7, <3>1
    <3>4. \A j \in 1 .. Len(b[1]) : F[1][c[0] + j] = b[1][j]
      BY <1>0, <2>7, <3>1
    <3> QED
      BY <3>1, <3>2, <3>3, <3>4 DEF Laid
  <2>9. ASSUME NEW m \in 2 .. n, m - 1 \in A PROVE m \in A
    <3>0. m \in 1 .. n /\ F[m - 1] \in Seq(V)
      BY <2>9
    <3>1. m \in 1 .. n /\ F[m] = F[m - 1] \o b[m] /\ F[m - 1] \in Seq(V) /\ b[m] \in Seq(V)
      <4> HIDE DEF A
      <4> QED
        BY <1>0, <2>7, <3>0
    <3>2. Len(F[m - 1]) = c[m - 1] /\ \A i \in 1 .. m - 1 : \A j \in 1 .. Len(b[i]) : F[m - 1][c[i - 1] + j] = b[i][j]
      BY <2>9 DEF Laid
    <3>3. c[m] = c[m - 1] + Len(b[m]) /\ c[m - 1] \in Nat /\ Len(b[m]) \in Nat
      BY <1>0, <1>1, <3>1 DEF Offsets
    <3> HIDE DEF A
    <3>4. F[m] \in Seq(V) /\ Len(F[m]) = c[m]
      BY <3>1, <3>2, <3>3
    <3>5. \A k \in 1 .. c[m - 1] : F[m][k] = F[m - 1][k]
      BY <3>1, <3>2, <3>3
    <3>6. \A j \in 1 .. Len(b[m]) : F[m][c[m - 1] + j] = b[m][j]
      <4> TAKE j \in 1 .. Len(b[m])
      <4> DEFINE k == c[m - 1] + j
      <4>1. k \in 1 .. Len(F[m - 1]) + Len(b[m]) /\ k > Len(F[m - 1]) /\ k - Len(F[m - 1]) = j
        <5>1. \A x, y \in Nat : \A l \in 1 .. y : x + l \in 1 .. x + y /\ x + l > x /\ (x + l) - x = l
          OBVIOUS
        <5>2. c[m - 1] + j \in 1 .. c[m - 1] + Len(b[m]) /\ c[m - 1] + j > c[m - 1] /\ (c[m - 1] + j) - c[m - 1] = j
          BY ONLY <3>3, <5>1, j \in 1 .. Len(b[m])
        <5>3. Len(F[m - 1]) = c[m - 1]
          BY <3>2
        <5> QED
          BY ONLY <5>2, <5>3
      <4> HIDE DEF k
      <4>2. F[m][k] = b[m][k - Len(F[m - 1])]
        BY <3>1, <4>1
      <4> QED
        BY <4>1, <4>2 DEF k
    <3>7. ASSUME NEW i \in 1 .. m - 1, NEW j \in 1 .. Len(b[i]) PROVE F[m][c[i - 1] + j] = b[i][j]
      <4>1. i \in 1 .. n /\ i \in 0 .. n /\ i - 1 \in 0 .. n /\ m - 1 \in 0 .. n /\ i <= m - 1
        BY <3>1
      <4>2. c[i] = c[i - 1] + Len(b[i]) /\ c[i - 1] \in Nat /\ c[i] <= c[m - 1] /\ Len(b[i]) \in Nat
        BY <1>0, <1>1, <4>1 DEF Offsets
      <4>3. c[i - 1] + j \in 1 .. c[m - 1]
        <5>1. j \in Nat /\ 1 <= j /\ j <= Len(b[i]) /\ c[i] \in Nat
          BY <1>1, <4>1, <4>2 DEF Offsets
        <5>2. \A x, y, z \in Nat : \A l \in 1 .. y : x + y <= z => x + l \in 1 .. z
          OBVIOUS
        <5> QED
          BY <3>3, <4>2, <5>1, <5>2
      <4> QED
        BY <3>2, <3>5, <4>3
    <3>8. \A i \in 1 .. m : i \in 1 .. m - 1 \/ i = m
      OBVIOUS
    <3>9. \A i \in 1 .. m : \A j \in 1 .. Len(b[i]) : F[m][c[i - 1] + j] = b[i][j]
      BY <3>6, <3>7, <3>8
    <3> QED
      BY <3>1, <3>4, <3>9 DEF A, Laid
  <2> HIDE DEF A
  <2>10. \A d \in 2 - 1 .. n : d \in A
    <3>1. 2 - 1 \in A
      BY <2>8
    <3>2. 2 \in Int /\ n \in Int /\ \A d \in 2 .. n : d - 1 \in A => d \in A
      BY <2>9
    <3> QED
      BY ONLY <3>1, <3>2, StepwiseFrom
  <2>11. F[n] \in Seq(V) /\ Laid(F[n], b, c, n)
    <3>1. n \in 2 - 1 .. n
      BY <1>3
    <3>2. n \in A
      BY <2>10, <3>1
    <3> QED
      BY <3>2 DEF A
  <2> QED
    BY <1>1, <2>6, <2>11
<1> QED
  BY <1>2, <1>3
-----------------------------------------------------------------------------
(* Cutting the join where the id changes.                                    *)

FoundRows == Seq([id : DOMAIN head, splits : Seq(Line)])
Joined == [id : DOMAIN head, split : Line]
FetchStep(found, x) ==
  IF found = <<>> \/ Last(found).id # x.id
  THEN Append(found, [id |-> x.id, splits |-> <<x.split>>])
  ELSE [found EXCEPT ![Len(found)].splits = Append(@, x.split)]

LEMMA FetchFirst ==
  ASSUME NEW found \in FoundRows, NEW u \in DOMAIN head, \A k \in 1 .. Len(found) : found[k].id # u, NEW line \in Line
  PROVE  FetchStep(found, [id |-> u, split |-> line]) = Append(found, [id |-> u, splits |-> <<line>>])
<1>1. Len(found) \in Nat /\ (found # <<>> => Len(found) \in 1 .. Len(found))
  BY DEF FoundRows
<1>2. found = <<>> \/ Last(found).id # u
  BY <1>1 DEF Last
<1> QED
  BY <1>2 DEF FetchStep

LEMMA FetchMore ==
  ASSUME NEW found \in FoundRows, NEW u \in DOMAIN head, NEW r \in Seq(Line), NEW line \in Line
  PROVE  FetchStep(Append(found, [id |-> u, splits |-> r]), [id |-> u, split |-> line])
           = Append(found, [id |-> u, splits |-> Append(r, line)])
<1> DEFINE n == Len(found)
           x == [id |-> u, splits |-> r]
           y == [id |-> u, splits |-> Append(r, line)]
           f == Append(found, x)
           g == Append(found, y)
<1>1. x \in [id : DOMAIN head, splits : Seq(Line)] /\ y \in [id : DOMAIN head, splits : Seq(Line)]
  OBVIOUS
<1>2. y = [x EXCEPT !.splits = Append(@, line)] /\ x.id = u
  OBVIOUS
<1> HIDE DEF x, y
<1>3. /\ n \in Nat /\ Len(f) = n + 1 /\ Len(g) = n + 1 /\ f[n + 1] = x /\ g[n + 1] = y
      /\ f \in FoundRows /\ g \in FoundRows
      /\ \A k \in 1 .. n : f[k] = found[k] /\ g[k] = found[k]
  BY <1>1 DEF FoundRows
<1> HIDE DEF f, g, n
<1>4. f # <<>> /\ Last(f).id = u
  BY <1>2, <1>3 DEF Last
<1>5. DOMAIN f = 1 .. n + 1 /\ DOMAIN g = 1 .. n + 1
  BY <1>3 DEF FoundRows
<1> DEFINE h == [f EXCEPT ![Len(f)] = [f[Len(f)] EXCEPT !.splits = Append(@, line)]]
<1>6. DOMAIN h = 1 .. n + 1 /\ h = [k \in 1 .. n + 1 |-> h[k]] /\ g = [k \in 1 .. n + 1 |-> g[k]]
  <2>1. g = [k \in 1 .. n + 1 |-> g[k]]
    BY <1>3, <1>5 DEF FoundRows
  <2> QED
    BY <1>5, <2>1
<1>7. \A k \in 1 .. n + 1 : h[k] = g[k]
  <2> TAKE k \in 1 .. n + 1
  <2>1. k \in 1 .. n \/ k = n + 1
    BY <1>3
  <2>2. CASE k = n + 1
    BY <1>2, <1>3, <1>5, <2>2
  <2>3. CASE k # n + 1
    BY <1>3, <1>5, <2>1, <2>3
  <2> QED
    BY <2>2, <2>3
<1>8. FetchStep(f, [id |-> u, split |-> line]) = h
  BY <1>4 DEF FetchStep
<1>9. h = g
  <2> HIDE DEF h
  <2> QED
    BY <1>6, <1>7
<1> QED
  BY <1>8, <1>9 DEF f, g, x, y

NewTo(W, u) == \A k \in 1 .. Len(W) : W[k].id # u
FetchesBlock(F, e, u, r) ==
  \A j \in 1 .. Len(r) : F[1 .. e + j] = FetchStep(F[1 .. e + j - 1], [id |-> u, split |-> r[j]])

LEMMA FetchBlock ==
  ASSUME NEW W \in FoundRows, NEW u \in DOMAIN head, NewTo(W, u), NEW r \in Seq(Line),
         NEW F, NEW e \in Nat, F[1 .. e] = W, FetchesBlock(F, e, u, r)
  PROVE  r # <<>> => F[1 .. e + Len(r)] = Append(W, [id |-> u, splits |-> r])
<1> USE DEF NewTo, FetchesBlock
<1>1. Len(r) \in Nat /\ \A j \in 1 .. Len(r) : r[j] \in Line
  OBVIOUS
<1> DEFINE N == {j \in Nat : j + 1 <= Len(r) => F[1 .. e + (j + 1)] = Append(W, [id |-> u, splits |-> SubSeq(r, 1, j + 1)])}
<1>2. 0 \in N
  <2> SUFFICES ASSUME 1 <= Len(r) PROVE F[1 .. e + 1] = Append(W, [id |-> u, splits |-> SubSeq(r, 1, 1)])
    OBVIOUS
  <2>1. 1 \in 1 .. Len(r) /\ e + 1 - 1 = e
    BY <1>1
  <2>2. F[1 .. e + 1] = FetchStep(W, [id |-> u, split |-> r[1]])
    BY <2>1
  <2>3. SubSeq(r, 1, 1) = <<r[1]>>
    <3> DEFINE p == SubSeq(r, 1, 1)
    <3>1. p \in Seq(Line) /\ Len(p) = 1 /\ p[1] = r[1]
      <4>1. 1 \in 1 .. Len(r) + 1 /\ 1 \in 1 - 1 .. Len(r) /\ 1 - 1 + 1 = 1 /\ 1 + 1 - 1 = 1 /\ 1 \in 1 .. 1
        BY <1>1, <2>1
      <4> QED
        BY <4>1, SubSeqProperties
    <3> HIDE DEF p
    <3>2. p = <<r[1]>>
      BY <3>1
    <3> QED
      BY <3>2 DEF p
  <2> QED
    BY <1>1, <2>1, <2>2, <2>3, FetchFirst
<1>3. ASSUME NEW j \in N PROVE j + 1 \in N
  <2> SUFFICES ASSUME j + 1 + 1 <= Len(r)
               PROVE  F[1 .. e + (j + 1 + 1)] = Append(W, [id |-> u, splits |-> SubSeq(r, 1, j + 1 + 1)])
    OBVIOUS
  <2> DEFINE m == j + 1
             q == SubSeq(r, 1, m)
  <2>1. j \in Nat /\ m \in Nat /\ m + 1 \in 1 .. Len(r) /\ m <= Len(r) /\ e + (m + 1) - 1 = e + m
    BY <1>1
  <2>2. F[1 .. e + m] = Append(W, [id |-> u, splits |-> q])
    BY <2>1
  <2> HIDE DEF N, m
  <2>3. q \in Seq(Line) /\ SubSeq(r, 1, m + 1) = Append(q, r[m + 1])
    <3>1. q \in Seq(Line) /\ Len(q) = m /\ \A k \in 1 .. m : q[k] = r[k]
      <4>1. 1 \in 1 .. Len(r) + 1 /\ m \in 1 - 1 .. Len(r) /\ m - 1 + 1 = m /\ \A k \in 1 .. m : 1 + k - 1 = k
        BY <1>1, <2>1
      <4> QED
        BY <4>1, SubSeqProperties
    <3>2. LET p == SubSeq(r, 1, m + 1) IN p \in Seq(Line) /\ Len(p) = m + 1 /\ \A k \in 1 .. m + 1 : p[k] = r[k]
      <4>1. 1 \in 1 .. Len(r) + 1 /\ m + 1 \in 1 - 1 .. Len(r) /\ (m + 1) - 1 + 1 = m + 1
            /\ \A k \in 1 .. m + 1 : 1 + k - 1 = k
        BY <1>1, <2>1
      <4> QED
        BY <4>1, SubSeqProperties
    <3> DEFINE p == SubSeq(r, 1, m + 1)
               a == Append(q, r[m + 1])
    <3> HIDE DEF q, p
    <3>3. r[m + 1] \in Line
      BY <1>1, <2>1
    <3>4. a \in Seq(Line) /\ Len(a) = m + 1 /\ a[m + 1] = r[m + 1] /\ \A k \in 1 .. m : a[k] = q[k]
      BY <3>1, <3>3
    <3>5. \A k \in 1 .. m + 1 : k \in 1 .. m \/ k = m + 1
      BY <2>1
    <3> HIDE DEF a
    <3>6. p \in Seq(Line) /\ Len(p) = m + 1 /\ \A k \in 1 .. m + 1 : p[k] = r[k]
      BY <3>2 DEF p
    <3>7. \A k \in 1 .. m + 1 : a[k] = p[k]
      BY <3>1, <3>4, <3>5, <3>6
    <3>8. a = p
      <4>1. DOMAIN a = 1 .. m + 1 /\ DOMAIN p = 1 .. m + 1
        BY <3>4, <3>6
      <4>2. a = [k \in 1 .. m + 1 |-> a[k]] /\ p = [k \in 1 .. m + 1 |-> p[k]]
        BY <3>4, <3>6, <4>1
      <4> QED
        BY <3>7, <4>2
    <3> QED
      BY <3>1, <3>8 DEF a, p
  <2> HIDE DEF q
  <2>4. r[m + 1] \in Line
    BY <1>1, <2>1
  <2>5. F[1 .. e + (m + 1)] = FetchStep(Append(W, [id |-> u, splits |-> q]), [id |-> u, split |-> r[m + 1]])
    BY <2>1, <2>2
  <2>6. F[1 .. e + (m + 1)] = Append(W, [id |-> u, splits |-> SubSeq(r, 1, m + 1)])
    <3>1. FetchStep(Append(W, [id |-> u, splits |-> q]), [id |-> u, split |-> r[m + 1]])
            = Append(W, [id |-> u, splits |-> Append(q, r[m + 1])])
      <4>1. q \in Seq(Line)
        BY <2>3
      <4> QED
        BY <2>4, <4>1, FetchMore
    <3> QED
      BY <2>3, <2>5, <3>1
  <2> QED
    BY <2>6 DEF m
<1> HIDE DEF N
<1>4. N = Nat
  BY <1>2, <1>3, FromZero DEF N
<1>5. ASSUME r # <<>> PROVE F[1 .. e + Len(r)] = Append(W, [id |-> u, splits |-> r])
  <2>1. Len(r) # 0
    BY <1>5
  <2>2. Len(r) - 1 \in N /\ (Len(r) - 1) + 1 = Len(r)
    BY <1>1, <1>4, <2>1
  <2>3. F[1 .. e + Len(r)] = Append(W, [id |-> u, splits |-> SubSeq(r, 1, Len(r))])
    BY <1>1, <2>2 DEF N
  <2>4. SubSeq(r, 1, Len(r)) = r
    OBVIOUS
  <2> QED
    BY <2>3, <2>4
<1> QED
  BY <1>5
-----------------------------------------------------------------------------
(* The XML dump has each transaction once and whole.                         *)

Whole(found, T) ==
  /\ found \in FoundRows
  /\ \A k \in 1 .. Len(found) : found[k].id \in T /\ found[k].splits = rows[found[k].id] /\ rows[found[k].id] # <<>>
  /\ \A t \in T : rows[t] # <<>> => \E k \in 1 .. Len(found) : found[k].id = t
  /\ \A k, l \in 1 .. Len(found) : found[k].id = found[l].id => k = l

LEMMA WholeMore ==
  ASSUME Tables, NEW T \in SUBSET DOMAIN head, NEW found, Whole(found, T), NEW u \in DOMAIN head, u \notin T
  PROVE  /\ rows[u] = <<>> => Whole(found, T \cup {u})
         /\ rows[u] # <<>> => Whole(Append(found, [id |-> u, splits |-> rows[u]]), T \cup {u})
<1>1. ASSUME rows[u] = <<>> PROVE Whole(found, T \cup {u})
  BY <1>1 DEF Whole
<1>2. ASSUME rows[u] # <<>> PROVE Whole(Append(found, [id |-> u, splits |-> rows[u]]), T \cup {u})
  <2> DEFINE x == [id |-> u, splits |-> rows[u]]
             g == Append(found, x)
             n == Len(found)
  <2>1. rows[u] \in Seq(Line)
    BY DEF Tables
  <2>2. x \in [id : DOMAIN head, splits : Seq(Line)] /\ x.id = u /\ x.splits = rows[u]
    BY <2>1
  <2> HIDE DEF x
  <2>3. /\ n \in Nat /\ Len(g) = n + 1 /\ g[n + 1] = x /\ g \in FoundRows
        /\ \A k \in 1 .. n : g[k] = found[k]
    BY <2>2 DEF FoundRows, Whole
  <2> HIDE DEF g, n
  <2>4. \A k \in 1 .. n + 1 : k \in 1 .. n \/ k = n + 1
    BY <2>3
  <2>5. n + 1 \in 1 .. n + 1 /\ \A k \in 1 .. n : k \in 1 .. n + 1
    BY <2>3
  <2>6. /\ \A k \in 1 .. n : found[k].id \in T /\ found[k].splits = rows[found[k].id] /\ rows[found[k].id] # <<>>
        /\ \A t \in T : rows[t] # <<>> => \E k \in 1 .. n : found[k].id = t
        /\ \A k, l \in 1 .. n : found[k].id = found[l].id => k = l
    BY DEF Whole, n
  <2>7. \A k \in 1 .. n + 1 : g[k].id \in T \cup {u} /\ g[k].splits = rows[g[k].id] /\ rows[g[k].id] # <<>>
    BY <1>2, <2>2, <2>3, <2>4, <2>6
  <2>8. \A t \in T \cup {u} : rows[t] # <<>> => \E k \in 1 .. n + 1 : g[k].id = t
    BY <2>2, <2>3, <2>5, <2>6
  <2>9. \A k, l \in 1 .. n + 1 : g[k].id = g[l].id => k = l
    <3> TAKE k, l \in 1 .. n + 1
    <3>1. \A m \in 1 .. n : g[m].id # u
      BY <2>3, <2>6
    <3>2. g[n + 1].id = u
      BY <2>2, <2>3
    <3> QED
      BY <2>3, <2>4, <2>6, <3>1, <3>2
  <2>10. Whole(g, T \cup {u})
    BY <2>3, <2>7, <2>8, <2>9 DEF Whole
  <2> QED
    BY <2>10 DEF g, x
<1> QED
  BY <1>1, <1>2

LEMMA FetchStepType ==
  ASSUME NEW found \in FoundRows, NEW x \in Joined
  PROVE  FetchStep(found, x) \in FoundRows
<1>1. x.id \in DOMAIN head /\ x.split \in Line
  BY DEF Joined
<1>2. ASSUME found = <<>> \/ Last(found).id # x.id PROVE FetchStep(found, x) \in FoundRows
  <2>1. [id |-> x.id, splits |-> <<x.split>>] \in [id : DOMAIN head, splits : Seq(Line)]
    BY <1>1
  <2>2. Append(found, [id |-> x.id, splits |-> <<x.split>>]) \in FoundRows
    BY <2>1 DEF FoundRows
  <2> QED
    BY <1>2, <2>2 DEF FetchStep
<1>3. ASSUME ~(found = <<>> \/ Last(found).id # x.id) PROVE FetchStep(found, x) \in FoundRows
  <2> DEFINE n == Len(found)
             y == [found[n] EXCEPT !.splits = Append(@, x.split)]
             h == [found EXCEPT ![n] = y]
  <2>1. n \in Nat /\ n \in 1 .. n /\ DOMAIN found = 1 .. n
    BY <1>3 DEF FoundRows
  <2>2. found[n] \in [id : DOMAIN head, splits : Seq(Line)]
    <3> DEFINE R == [id : DOMAIN head, splits : Seq(Line)]
    <3>1. found \in Seq(R) /\ Len(found) \in 1 .. Len(found)
      BY <2>1 DEF FoundRows
    <3> HIDE DEF R
    <3>2. found[Len(found)] \in R
      BY <3>1
    <3> QED
      BY <3>2 DEF R
  <2>3. y \in [id : DOMAIN head, splits : Seq(Line)]
    BY <1>1, <2>2
  <2> HIDE DEF y
  <2>4. h \in FoundRows
    BY <2>1, <2>3 DEF FoundRows
  <2> QED
    BY <1>3, <2>4 DEF FetchStep, y
<1> QED
  BY <1>2, <1>3

(* The join, transaction by transaction.                                     *)
Blocks(s) == [i \in DOMAIN s |-> [j \in DOMAIN rows[s[i]] |-> [id |-> s[i], split |-> rows[s[i]][j]]]]
LEMMA JoinIs == Join = FlattenSeq(Blocks(InOrder(Txs)))
  BY DEF Join, Blocks

LEMMA BlocksAre ==
  ASSUME Tables, NEW n \in Nat, NEW s, DOMAIN s = 1 .. n, \A i \in 1 .. n : s[i] \in DOMAIN head
  PROVE  /\ Blocks(s) \in [1 .. n -> Seq(Joined)]
         /\ \A i \in 1 .. n : /\ rows[s[i]] \in Seq(Line) /\ Len(Blocks(s)[i]) = Len(rows[s[i]])
                              /\ \A j \in 1 .. Len(rows[s[i]]) : Blocks(s)[i][j] = [id |-> s[i], split |-> rows[s[i]][j]]
<1>1. ASSUME NEW i \in 1 .. n
      PROVE  /\ rows[s[i]] \in Seq(Line) /\ Blocks(s)[i] \in Seq(Joined) /\ Len(Blocks(s)[i]) = Len(rows[s[i]])
             /\ \A j \in 1 .. Len(rows[s[i]]) : Blocks(s)[i][j] = [id |-> s[i], split |-> rows[s[i]][j]]
  <2> DEFINE u == s[i]
             r == rows[u]
             m == Len(r)
             b == [j \in 1 .. m |-> [id |-> u, split |-> r[j]]]
  <2>1. u \in DOMAIN head /\ r \in Seq(Line)
    BY DEF Tables
  <2>2. m \in Nat /\ DOMAIN r = 1 .. m /\ \A j \in 1 .. m : r[j] \in Line
    BY <2>1
  <2>3. Blocks(s)[i] = b
    BY <2>2 DEF Blocks
  <2> HIDE DEF u, r, m
  <2>4. b \in Seq(Joined) /\ Len(b) = m
    <3>1. \A j \in 1 .. m : b[j] \in Joined
      BY <2>1, <2>2 DEF Joined
    <3>2. b \in [1 .. m -> Joined]
      BY <3>1
    <3> HIDE DEF b
    <3> QED
      BY <2>2, <3>2
  <2> QED
    BY <2>1, <2>3, <2>4 DEF r, u, m
<1>2. DOMAIN Blocks(s) = 1 .. n /\ Blocks(s) = [i \in 1 .. n |-> Blocks(s)[i]]
  BY DEF Blocks
<1> QED
  BY <1>1, <1>2

LEMMA FetchedAll ==
  ASSUME Tables
  PROVE  Whole(FetchAll, Txs)
<1> DEFINE s == InOrder(Txs)
           n == Len(s)
           b == Blocks(s)
           J == Join
           M == Len(J)
           Lastly(T) == CHOOSE x \in T : \A y \in T : x >= y
           d == [T \in SUBSET (1 .. M) |-> CHOOSE x \in T : \A y \in T : x >= y]
           g == [p \in (1 .. M) \X FoundRows |-> FetchStep(p[2], J[p[1]])]
           Eq(F) == F = [T \in SUBSET (1 .. M) |-> IF T = {} THEN <<>>
                                                  ELSE FetchStep(F[T \ {Lastly(T)}], J[Lastly(T)])]
           F == CHOOSE F : Eq(F)
<1>1. Dated /\ Txs \in SUBSET DOMAIN head /\ Ordered(s, Txs)
  <2>1. Dated /\ Txs \in SUBSET DOMAIN head
    BY DEF Tables, Txs
  <2> QED
    BY <2>1, InOrderIs
<1>2. /\ n \in Nat /\ DOMAIN s = 1 .. n /\ Txs = {s[i] : i \in 1 .. n}
      /\ \A i, j \in 1 .. n : i < j => Before(s[i], s[j])
      /\ \A i \in 1 .. n : s[i] \in DOMAIN head
  <2>1. s \in Seq(Txs) /\ Len(s) \in Nat
    BY <1>1 DEF Ordered
  <2> HIDE DEF s
  <2> QED
    BY <1>1, <2>1 DEF Ordered
<1>3. J = FlattenSeq(b)
  BY JoinIs
<1> HIDE DEF s, n, J
<1>4. /\ b \in [1 .. n -> Seq(Joined)]
      /\ \A i \in 1 .. n : /\ rows[s[i]] \in Seq(Line) /\ Len(b[i]) = Len(rows[s[i]])
                           /\ \A j \in 1 .. Len(rows[s[i]]) : b[i][j] = [id |-> s[i], split |-> rows[s[i]][j]]
  BY <1>2, BlocksAre
<1> HIDE DEF b
<1>5. PICK c : Offsets(c, b, n) /\ J \in Seq(Joined) /\ Laid(J, b, c, n)
  BY <1>2, <1>3, <1>4, FlattenedIs
<1>6. M \in Nat /\ DOMAIN J = 1 .. M /\ M = c[n] /\ \A k \in 1 .. M : J[k] \in Joined
  BY <1>5 DEF Laid
<1>7. FetchAll = F[1 .. M]
  BY <1>6 DEF FetchAll, FoldLeft, MapThenFoldSet, Max, FetchStep, J
<1> HIDE DEF M
<1>8. IsFiniteSet(1 .. M) /\ IsChoice(d, 1 .. M)
  BY <1>6, LastChosen
<1>9. <<>> \in FoundRows
  BY DEF FoundRows
<1>10. PICK G : IsFoldBy(G, g, d, <<>>, 1 .. M) /\ \A T \in SUBSET (1 .. M) : G[T] \in FoundRows
  <2>1. \A x \in 1 .. M, v \in FoundRows : g[<<x, v>>] \in FoundRows
    <3> TAKE x \in 1 .. M, v \in FoundRows
    <3>1. g[<<x, v>>] = FetchStep(v, J[x])
      OBVIOUS
    <3> QED
      BY <1>6, <3>1, FetchStepType
  <2> HIDE DEF g, d
  <2> QED
    BY <1>8, <1>9, <2>1, FoldByIn
<1>11. Eq(G)
  <2>1. ASSUME NEW T \in SUBSET (1 .. M), T # {}
        PROVE  g[<<d[T], G[T \ {d[T]}]>>] = FetchStep(G[T \ {Lastly(T)}], J[Lastly(T)])
    <3>1. d[T] = Lastly(T) /\ d[T] \in 1 .. M
      BY <1>8, <2>1 DEF IsChoice
    <3>2. G[T \ {d[T]}] \in FoundRows
      BY <1>10
    <3> HIDE DEF d, Lastly
    <3>3. <<d[T], G[T \ {d[T]}]>> \in (1 .. M) \X FoundRows
      BY <3>1, <3>2
    <3>4. g[<<d[T], G[T \ {d[T]}]>>] = FetchStep(G[T \ {d[T]}], J[d[T]])
      BY <3>3
    <3> QED
      BY <3>1, <3>4
  <2> HIDE DEF g, d, Lastly
  <2> QED
    BY <1>10, <2>1, ZenonT(60) DEF IsFoldBy
<1>12. Eq(F)
  <2> HIDE DEF Eq
  <2> QED
    BY <1>11
<1> HIDE DEF F, d, g
<1>13. F[1 .. 0] = <<>> /\ \A k \in 1 .. M : F[1 .. k] = FetchStep(F[1 .. k - 1], J[k])
  <2>1. F[1 .. 0] = <<>>
    <3>1. 1 .. 0 = {} /\ {} \in SUBSET (1 .. M)
      OBVIOUS
    <3> QED
      BY <1>12, <3>1
  <2>2. ASSUME NEW k \in 1 .. M PROVE F[1 .. k] = FetchStep(F[1 .. k - 1], J[k])
    <3>1. k \in Nat \ {0} /\ 1 .. k \in SUBSET (1 .. M) /\ 1 .. k # {}
      <4>1. k \in Nat \ {0} /\ 1 \in 1 .. k /\ \A i \in 1 .. k : i \in 1 .. M
        BY <1>6
      <4> QED
        BY <4>1
    <3>2. Lastly(1 .. k) = k /\ (1 .. k) \ {k} = 1 .. k - 1
      BY <3>1, LastOfRange
    <3> HIDE DEF Lastly
    <3>3. F[1 .. k] = FetchStep(F[(1 .. k) \ {Lastly(1 .. k)}], J[Lastly(1 .. k)])
      BY <1>12, <3>1
    <3> QED
      BY <3>2, <3>3
  <2> QED
    BY <2>1, <2>2
<1> DEFINE Up(k) == {s[i] : i \in 1 .. k}
           N == {k \in Nat : k <= n => c[k] \in 0 .. M /\ Whole(F[1 .. c[k]], Up(k))}
<1>14. \A i \in 0 .. n : c[i] \in 0 .. M
  <2> DEFINE K == {k \in Nat : k <= n => c[n - k] <= M}
  <2>1. 0 \in K
    BY <1>2, <1>6
  <2>2. ASSUME NEW k \in K PROVE k + 1 \in K
    <3> SUFFICES ASSUME k + 1 <= n PROVE c[n - (k + 1)] <= M
      OBVIOUS
    <3>1. k \in Nat /\ c[n - k] <= M /\ n - k \in 1 .. n /\ (n - k) - 1 = n - (k + 1) /\ n - (k + 1) \in 0 .. n
      BY <1>2
    <3>2. c[n - k] = c[(n - k) - 1] + Len(b[n - k]) /\ c[n - (k + 1)] \in Nat
      BY <1>5, <3>1 DEF Offsets
    <3>3. Len(b[n - k]) \in Nat
      BY <1>4, <3>1
    <3> HIDE DEF K
    <3>4. \A x, y, z \in Nat : x + y <= z => x <= z
      OBVIOUS
    <3>5. c[n - (k + 1)] + Len(b[n - k]) <= M
      BY <3>1, <3>2
    <3> QED
      BY <1>6, <3>2, <3>3, <3>4, <3>5
  <2> HIDE DEF K
  <2>3. K = Nat
    BY <2>1, <2>2, FromZero DEF K
  <2> TAKE i \in 0 .. n
  <2>4. n - i \in K /\ n - i <= n /\ n - (n - i) = i
    BY <1>2, <2>3
  <2>5. c[i] <= M
    BY <2>4 DEF K
  <2>6. c[i] \in Nat
    BY <1>5 DEF Offsets
  <2> QED
    BY <1>6, <2>5, <2>6
<1>15. 0 \in N
  <2>1. 1 .. 0 = {}
    OBVIOUS
  <2>2. c[0] = 0 /\ Up(0) = {}
    BY <1>5, <2>1 DEF Offsets
  <2> HIDE DEF Up
  <2>3. Len(<<>>) = 0 /\ 1 .. Len(<<>>) = {}
    OBVIOUS
  <2>4. Whole(<<>>, {})
    BY <1>9, <2>3 DEF Whole
  <2>5. c[0] \in 0 .. M
    BY <1>6, <2>2
  <2> QED
    BY <1>13, <2>2, <2>4, <2>5
<1>16. ASSUME NEW k \in N PROVE k + 1 \in N
  <2> SUFFICES ASSUME k + 1 <= n PROVE c[k + 1] \in 0 .. M /\ Whole(F[1 .. c[k + 1]], Up(k + 1))
    OBVIOUS
  <2>1. /\ k \in Nat /\ k + 1 \in 1 .. n /\ (k + 1) - 1 = k /\ k \in 0 .. n /\ k + 1 \in 0 .. n
        /\ Whole(F[1 .. c[k]], Up(k))
    BY <1>2
  <2> HIDE DEF N
  <2> DEFINE u == s[k + 1]
             r == rows[u]
             e == c[k]
             W == F[1 .. e]
  <2>2. u \in DOMAIN head /\ r \in Seq(Line) /\ Len(b[k + 1]) = Len(r)
        /\ \A j \in 1 .. Len(r) : b[k + 1][j] = [id |-> u, split |-> r[j]]
    BY <1>2, <1>4, <2>1
  <2>3. c[k + 1] = e + Len(r) /\ e \in Nat /\ e + Len(r) \in 0 .. M
    <3>1. c[k + 1] = c[(k + 1) - 1] + Len(b[k + 1]) /\ e \in Nat
      BY <1>5, <2>1 DEF Offsets
    <3>2. c[k + 1] \in 0 .. M
      BY <1>14, <2>1
    <3> QED
      BY <2>1, <2>2, <3>1, <3>2
  <2>4. \A i \in 1 .. k : i \in 1 .. n /\ i < k + 1
    BY <1>2, <2>1
  <2>5. Up(k) \in SUBSET DOMAIN head /\ \A t \in Up(k) : Before(t, u)
    BY <1>2, <2>1, <2>4
  <2>6. u \notin Up(k)
    BY <1>1, <2>2, <2>5, BeforeOrders
  <2>7. Up(k + 1) = Up(k) \cup {u}
    <3>1. \A i \in 1 .. k + 1 : i \in 1 .. k \/ i = k + 1
      BY <2>1
    <3>2. k + 1 \in 1 .. k + 1 /\ \A i \in 1 .. k : i \in 1 .. k + 1
      BY <2>1
    <3> QED
      BY <3>1, <3>2
  <2> HIDE DEF Up, u, r, e
  <2>8. \A j \in 1 .. Len(r) : F[1 .. e + j] = FetchStep(F[1 .. e + j - 1], [id |-> u, split |-> r[j]])
    <3> TAKE j \in 1 .. Len(r)
    <3>1. Len(r) \in Nat
      BY <2>2
    <3>2. e + j \in 1 .. M
      <4>1. \A x, y, z \in Nat : \A l \in 1 .. y : x + y \in 0 .. z => x + l \in 1 .. z
        OBVIOUS
      <4> QED
        BY <1>6, <2>3, <3>1, <4>1
    <3>3. J[e + j] = [id |-> u, split |-> r[j]]
      <4>1. J[c[(k + 1) - 1] + j] = b[k + 1][j]
        BY <1>5, <2>1, <2>2 DEF Laid
      <4> QED
        BY <2>1, <2>2, <4>1 DEF e
    <3>4. F[1 .. (e + j)] = FetchStep(F[1 .. (e + j) - 1], J[e + j])
      BY <1>13, <3>2
    <3>5. (e + j) - 1 = e + (j - 1)
      BY <2>3, <3>1
    <3> QED
      BY <3>3, <3>4, <3>5
  <2>9. W \in FoundRows /\ \A i \in 1 .. Len(W) : W[i].id # u
    <3>1. W \in FoundRows /\ \A i \in 1 .. Len(W) : W[i].id \in Up(k)
      BY <2>1 DEF Whole, e
    <3> QED
      BY <2>6, <3>1
  <2>10. r # <<>> => F[1 .. e + Len(r)] = Append(W, [id |-> u, splits |-> r])
    <3> HIDE DEF W
    <3>1. F[1 .. e] = W
      BY DEF W
    <3>2. u \in DOMAIN head /\ r \in Seq(Line) /\ e \in Nat
      BY <2>2, <2>3
    <3>3. NewTo(W, u) /\ W \in FoundRows
      BY <2>9 DEF NewTo
    <3>4. FetchesBlock(F, e, u, r)
      BY <2>8 DEF FetchesBlock
    <3> QED
      BY <3>1, <3>2, <3>3, <3>4, FetchBlock
  <2>11. r = <<>> => e + Len(r) = e
    BY <2>3
  <2>12. Whole(W, Up(k))
    BY <2>1 DEF e
  <2>13. /\ r = <<>> => Whole(W, Up(k) \cup {u})
         /\ r # <<>> => Whole(Append(W, [id |-> u, splits |-> r]), Up(k) \cup {u})
    <3> HIDE DEF W
    <3> QED
      BY <2>2, <2>5, <2>6, <2>12, WholeMore DEF r
  <2>14. Whole(F[1 .. e + Len(r)], Up(k) \cup {u})
    BY <2>10, <2>11, <2>13
  <2> QED
    BY <2>3, <2>7, <2>14
<1> HIDE DEF N
<1>17. N = Nat
  BY <1>15, <1>16, FromZero DEF N
<1>18. n \in N
  BY <1>2, <1>17
<1>19. Whole(F[1 .. c[n]], Up(n))
  BY <1>2, <1>18 DEF N
<1> QED
  BY <1>2, <1>6, <1>7, <1>19

LEMMA AllFetched ==
  ASSUME Tables
  PROVE  FetchedWhole
<1> DEFINE found == FetchAll
           dump == TransactionDump
<1>1. Whole(found, Txs)
  BY FetchedAll
<1>2. dump = [i \in DOMAIN found |-> <<found[i].id, head[found[i].id].auto, found[i].splits>>]
  BY DEF TransactionDump
<1> HIDE DEF found, dump
<1>3. DOMAIN found = 1 .. Len(found)
  BY <1>1 DEF Whole, FoundRows
<1>4. DOMAIN dump = 1 .. Len(found)
  BY <1>2, <1>3
<1>5. \A i \in 1 .. Len(found) :
        dump[i] = <<found[i].id, head[found[i].id].auto, rows[found[i].id]>> /\ dump[i][1] = found[i].id
  BY <1>1, <1>2, <1>3 DEF Whole
<1>6. ToSet(dump) = {<<t, head[t].auto, rows[t]>> : t \in {t \in Txs : rows[t] # <<>>}}
  <2>1. ToSet(dump) = {dump[i] : i \in 1 .. Len(found)}
    BY <1>4 DEF ToSet
  <2>2. ASSUME NEW i \in 1 .. Len(found)
        PROVE  dump[i] \in {<<t, head[t].auto, rows[t]>> : t \in {t \in Txs : rows[t] # <<>>}}
    BY <1>1, <1>5 DEF Whole
  <2>3. ASSUME NEW t \in Txs, rows[t] # <<>> PROVE \E i \in 1 .. Len(found) : dump[i] = <<t, head[t].auto, rows[t]>>
    BY <1>1, <1>5, <2>3 DEF Whole
  <2> QED
    BY <2>1, <2>2, <2>3
<1>7. \A i, j \in DOMAIN dump : dump[i][1] = dump[j][1] => i = j
  BY <1>1, <1>4, <1>5 DEF Whole
<1> QED
  BY <1>6, <1>7 DEF FetchedWhole, dump
-----------------------------------------------------------------------------
(* The transaction proposed for a cash-out.                                  *)

LEMMA KeptAll ==
  ASSUME NEW S, NEW s \in Seq(S), NEW T, \A k \in 1 .. Len(s) : s[k] \in T
  PROVE  Kept(s, T) = s
<1>1. Len(s) \in Nat /\ DOMAIN s = 1 .. Len(s) /\ \A k \in 1 .. Len(s) : s[k] \in S
  OBVIOUS
<1> DEFINE n == Len(s)
           f == CHOOSE f : IsKeptTo(f, s, T, n)
<1>2. IsKeptTo(f, s, T, n)
  BY <1>1, KeptToExists
<1>3. Kept(s, T) = f[n]
  BY DEF Kept, IsKeptTo
<1> HIDE DEF f, n
<1>4. n \in Nat /\ n = Len(s)
  BY <1>1 DEF n
<1> DEFINE N == {m \in Nat : m <= n => f[m] \in Seq(S) /\ Len(f[m]) = m /\ \A k \in 1 .. m : f[m][k] = s[k]}
<1>5. 0 \in N
  <2>1. f[0] = <<>>
    BY <1>2, <1>4, KeptToAt
  <2>2. <<>> \in Seq(S) /\ Len(<<>>) = 0 /\ 1 .. 0 = {}
    OBVIOUS
  <2> QED
    BY <2>1, <2>2
<1>6. ASSUME NEW m \in N PROVE m + 1 \in N
  <2> SUFFICES ASSUME m + 1 <= n
               PROVE  f[m + 1] \in Seq(S) /\ Len(f[m + 1]) = m + 1 /\ \A k \in 1 .. m + 1 : f[m + 1][k] = s[k]
    OBVIOUS
  <2>1. /\ m \in Nat /\ m + 1 \in 0 .. n /\ m + 1 \in 1 .. n /\ m + 1 # 0 /\ (m + 1) - 1 = m
        /\ f[m] \in Seq(S) /\ Len(f[m]) = m /\ \A k \in 1 .. m : f[m][k] = s[k]
    BY <1>4
  <2> HIDE DEF N
  <2>2. s[m + 1] \in T /\ s[m + 1] \in S
    BY <1>1, <1>4, <2>1
  <2>3. f[m + 1] = Append(f[m], s[m + 1])
    <3>1. f[m + 1] = IF m + 1 = 0 THEN <<>>
                     ELSE IF s[m + 1] \in T THEN Append(f[(m + 1) - 1], s[m + 1]) ELSE f[(m + 1) - 1]
      BY <1>2, <1>4, <2>1, KeptToAt
    <3> QED
      BY <2>1, <2>2, <3>1
  <2>4. \A k \in 1 .. m + 1 : k \in 1 .. m \/ k = m + 1
    BY <2>1
  <2> QED
    BY <2>1, <2>2, <2>3, <2>4
<1> HIDE DEF N
<1>7. N = Nat
  BY <1>5, <1>6, FromZero DEF N
<1>8. f[n] \in Seq(S) /\ Len(f[n]) = n /\ \A k \in 1 .. n : f[n][k] = s[k]
  <2>1. n \in N
    BY <1>4, <1>7
  <2> QED
    BY <1>4, <2>1 DEF N
<1>9. f[n] = s
  <2>1. DOMAIN f[n] = 1 .. n /\ f[n] = [k \in 1 .. n |-> f[n][k]]
    BY <1>8
  <2>2. s = [k \in 1 .. n |-> s[k]]
    BY <1>1, <1>4
  <2> QED
    BY <1>8, <2>1, <2>2
<1> QED
  BY <1>3, <1>9

LEMMA FormBalances ==
  ASSUME NEW r \in Seq(Line), NEW form, Len(form) = Len(r) + 1,
         \A k \in 1 .. Len(r) : form[k].amount = -r[k].amount, form[Len(r) + 1].amount = Total(r)
  PROVE  Total(form) = 0
<1> DEFINE n == Len(r)
           g == [k \in 1 .. Len(form) |-> form[k].amount]
           h == [k \in 1 .. Len(r) |-> r[k].amount]
<1>1. n \in Nat /\ Len(form) = n + 1 /\ n + 1 \in Nat /\ \A k \in 1 .. n : r[k].amount \in Int
  <2>1. n \in Nat /\ \A k \in 1 .. n : r[k] \in Line
    OBVIOUS
  <2> QED
    BY <2>1 DEF Line
<1>2. PICK f : IsSumTo(f, g, n + 1) /\ Total(form) = f[n + 1]
  BY <1>1, TotalIsSum
<1>3. PICK e : IsSumTo(e, h, n) /\ Total(r) = e[n]
  BY <1>1, TotalIsSum
<1>4. (\A k \in 1 .. n : h[k] \in Int /\ k \in 1 .. n + 1 /\ g[k] = -h[k]) /\ g[n + 1] = Total(r)
  BY <1>1
<1> HIDE DEF g, h, n
<1> DEFINE N == {m \in Nat : m <= n => e[m] \in Int /\ f[m] = -e[m]}
<1>5. 0 \in N
  <2>1. e[0] = 0 /\ f[0] = 0
    BY <1>1, <1>2, <1>3, SumToAt
  <2> QED
    BY <2>1
<1>6. ASSUME NEW m \in N PROVE m + 1 \in N
  <2> SUFFICES ASSUME m + 1 <= n PROVE e[m + 1] \in Int /\ f[m + 1] = -e[m + 1]
    OBVIOUS
  <2>1. /\ m \in Nat /\ m + 1 \in 0 .. n /\ m + 1 \in 1 .. n /\ m + 1 \in 0 .. n + 1 /\ m + 1 # 0 /\ (m + 1) - 1 = m
        /\ e[m] \in Int /\ f[m] = -e[m]
    BY <1>1
  <2> HIDE DEF N
  <2>2. e[m + 1] = e[m] + h[m + 1]
    BY <1>1, <1>3, <2>1, SumToAt
  <2>3. f[m + 1] = f[m] + g[m + 1]
    BY <1>1, <1>2, <2>1, SumToAt
  <2> QED
    BY <1>4, <2>1, <2>2, <2>3
<1> HIDE DEF N
<1>7. N = Nat
  BY <1>5, <1>6, FromZero DEF N
<1>8. e[n] \in Int /\ f[n] = -e[n]
  <2>1. n \in N
    BY <1>1, <1>7
  <2> QED
    BY <1>1, <2>1 DEF N
<1>9. f[n + 1] = f[n] + g[n + 1]
  <2>1. n + 1 \in 0 .. n + 1 /\ n + 1 # 0 /\ (n + 1) - 1 = n
    BY <1>1
  <2> QED
    BY <1>1, <1>2, <2>1, SumToAt
<1> QED
  BY <1>2, <1>3, <1>4, <1>8, <1>9

NoName == ""
LEMMA NoNames ==
  /\ "cash" # NoName /\ "bank" # NoName /\ "inventory" # NoName /\ "collected" # NoName
  /\ \A form : SplitsGiven(form) = Kept(form, {y \in ToSet(form) : y.of # NoName})
  BY Zenon DEF NoName, SplitsGiven

LEMMA ProposalsStand ==
  ASSUME Tables
  PROVE  Proposals
<1> SUFFICES ASSUME NEW c \in Cashes, NEW id \in Transactions, \A i \in DOMAIN rows[c] : rows[c][i].of \in Entities
             PROVE  MayCommit(id, GenForm(c))
  BY DEF Proposals
<1> DEFINE r == rows[c]
           n == Len(r)
           debit == [i \in DOMAIN r |-> [of |-> AccountOf(r[i].of), amount |-> -r[i].amount]]
           x == [of |-> "collected", amount |-> Total(r)]
           form == Append(debit, x)
<1>1. r \in Seq(Line)
  BY DEF Tables, Cashes
<1>2. n \in Nat /\ DOMAIN r = 1 .. n /\ \A i \in 1 .. n : r[i].amount \in Int /\ r[i].of \in Entities
  <2>1. n \in Nat /\ DOMAIN r = 1 .. n /\ \A i \in 1 .. n : r[i] \in Line
    BY <1>1
  <2> QED
    BY <2>1 DEF Line
<1>3. GenForm(c) = form
  BY DEF GenForm
<1> HIDE DEF r, n
<1>4. \A e \in Entities : AccountOf(e) \in Texts \ {NoName}
  <2> TAKE e \in Entities
  <2>0. {"cash", "bank", "inventory"} \subseteq Texts
    BY Zenon, FinanceConstants
  <2>1. {"cash", "bank", "inventory"} \subseteq Texts \ {NoName}
    BY <2>0, NoNames
  <2>2. AccountOf(e) \in {"cash", "bank", "inventory"}
    BY DEF AccountOf, Entities
  <2> QED
    BY <2>1, <2>2
<1>5. debit \in Seq(Line) /\ Len(debit) = n /\ \A i \in 1 .. n : debit[i].of # NoName /\ debit[i].amount = -r[i].amount
  <2>1. \A i \in 1 .. n : debit[i] = [of |-> AccountOf(r[i].of), amount |-> -r[i].amount]
    BY <1>2
  <2>0. debit = [i \in 1 .. n |-> debit[i]]
    BY <1>2
  <2> HIDE DEF debit
  <2>2. \A i \in 1 .. n : debit[i] \in Line /\ debit[i].of # NoName /\ debit[i].amount = -r[i].amount
    <3> TAKE i \in 1 .. n
    <3> DEFINE a == AccountOf(r[i].of)
               b == -r[i].amount
    <3>1. a \in Texts \ {NoName} /\ b \in Int
      BY <1>2, <1>4
    <3>2. debit[i] = [of |-> a, amount |-> b]
      BY <2>1
    <3> HIDE DEF a, b
    <3>3. debit[i] \in Line /\ debit[i].of # NoName /\ debit[i].amount = b
      BY <3>1, <3>2 DEF Line
    <3> QED
      BY <3>3 DEF b
  <2>3. debit \in [1 .. n -> Line]
    BY <2>0, <2>2
  <2>4. debit \in Seq(Line) /\ Len(debit) = n
    BY <1>2, <2>3
  <2> QED
    BY <2>2, <2>4
<1>6. x \in Line /\ x.of # NoName /\ x.amount = Total(r)
  <2>1. "collected" \in Texts
    BY Zenon, FinanceConstants
  <2>2. Total(r) \in Int
    BY <1>1, TotalType
  <2> QED
    BY <2>1, <2>2, NoNames DEF Line
<1> HIDE DEF debit, x
<1>7. /\ form \in Seq(Line) /\ Len(form) = n + 1 /\ form[n + 1] = x
      /\ \A i \in 1 .. n : form[i] = debit[i]
  <2>1. form \in Seq(Line)
    BY <1>5, <1>6
  <2>2. Len(form) = Len(debit) + 1 /\ form[Len(debit) + 1] = x
    BY <1>5, <1>6
  <2>3. \A i \in 1 .. Len(debit) : form[i] = debit[i]
    BY <1>5, <1>6
  <2> QED
    BY <1>5, <2>1, <2>2, <2>3
<1> HIDE DEF form
<1>8. \A k \in 1 .. Len(form) : form[k] \in {y \in ToSet(form) : y.of # NoName}
  <2> TAKE k \in 1 .. Len(form)
  <2>1. k \in 1 .. n \/ k = n + 1
    BY <1>2, <1>7
  <2>2. form[k].of # NoName
    BY <1>5, <1>6, <1>7, <2>1
  <2>3. form[k] \in ToSet(form)
    BY <1>7 DEF ToSet
  <2> QED
    BY <2>2, <2>3
<1>9. SplitsGiven(form) = form
  BY <1>7, <1>8, KeptAll, NoNames
<1>10. Filled(id, form) = form
  BY <1>9, FinanceConstants DEF Filled
<1>11. Total(form) = 0
  <2>1. \A k \in 1 .. Len(r) : form[k].amount = -r[k].amount
    BY <1>5, <1>7 DEF n
  <2>2. Len(form) = Len(r) + 1 /\ form[Len(r) + 1].amount = Total(r)
    BY <1>6, <1>7 DEF n
  <2> QED
    BY <1>1, <2>1, <2>2, FormBalances
<1>12. form # <<>>
  BY <1>2, <1>7
<1> QED
  BY <1>3, <1>10, <1>11, <1>12 DEF MayCommit
-----------------------------------------------------------------------------
(* Sums over windows of time.                                                *)

Logged == log \in Seq(LogRow) /\ log # <<>>
LEMMA FirstDayIs ==
  ASSUME Logged
  PROVE  FirstDay \in Nat
<1>1. \A i \in DOMAIN log : Day(log[i].at) \in Nat
  BY DayType DEF Logged
<1>2. Days \in SUBSET Nat
  BY <1>1 DEF Days
<1>3. Len(log) \in Nat /\ DOMAIN log = 1 .. Len(log) /\ Len(log) # 0
  BY DEF Logged
<1>4. 1 \in DOMAIN log
  BY <1>3
<1>5. Days # {}
  BY <1>4 DEF Days
<1>6. Min(Days) \in Nat
  BY <1>2, <1>5, Least DEF Min
<1>7. \A x, y \in Nat : x * y \in Nat
  OBVIOUS
<1>8. DayLength \in Nat
  BY FinanceConstants
<1> QED
  BY <1>6, <1>7, <1>8 DEF FirstDay

LEMMA DepositedAdds ==
  ASSUME Logged, NEW from \in Nat, NEW mid \in Nat, NEW to \in Nat, from <= mid, mid <= to, NEW S
  PROVE  /\ Deposited(from, to, S) = Deposited(from, mid, S) + Deposited(mid, to, S)
         /\ Deposited(from, mid, S) \in Int /\ Deposited(mid, to, S) \in Int
         /\ Deposited(from, from, S) = 0
<1> DEFINE A(x, y) == {i \in CashRows(x, y) : log[i].source \in S}
<1>1. \A i \in DOMAIN log : log[i].at \in Nat
  <2>1. \A i \in DOMAIN log : log[i] \in LogRow
    BY DEF Logged
  <2> QED
    BY <2>1 DEF LogRow
<1>2. A(from, mid) \in SUBSET DOMAIN log /\ A(mid, to) \in SUBSET DOMAIN log /\ A(from, from) \in SUBSET DOMAIN log
  BY DEF CashRows
<1>3. \A i \in DOMAIN log : i \in CashRows(from, to) <=> i \in CashRows(from, mid) \/ i \in CashRows(mid, to)
  BY <1>1 DEF CashRows
<1>4. \A i \in DOMAIN log : ~(i \in CashRows(from, mid) /\ i \in CashRows(mid, to))
  BY <1>1 DEF CashRows
<1>5. \A i \in CashRows(from, to) : i \in DOMAIN log
  BY DEF CashRows
<1>6. \A i \in DOMAIN log : i \notin CashRows(from, from)
  BY <1>1 DEF CashRows
<1>7. Splits(A(from, to), A(from, mid), A(mid, to)) /\ A(from, from) = {}
  BY <1>2, <1>3, <1>4, <1>5, <1>6 DEF Splits
<1>8. LogSum({}) = 0
  <2>1. {} \in SUBSET DOMAIN log
    OBVIOUS
  <2>2. LogSum({}) = SumOf({}, Amounts)
    BY <2>1, LogSumIs DEF Logged
  <2> QED
    BY <2>2, SumOfEmpty
<1>9. \A x, y : Deposited(x, y, S) = LogSum(A(x, y))
  BY DEF Deposited
<1> HIDE DEF A
<1>10. LogSum(A(from, mid)) \in Int /\ LogSum(A(mid, to)) \in Int
       /\ LogSum(A(from, to)) = LogSum(A(from, mid)) + LogSum(A(mid, to))
  BY <1>2, <1>7, LogSplits DEF Logged
<1> QED
  BY <1>7, <1>8, <1>9, <1>10

Midnight(t) == Day(head[t].at) * DayLength
LEMMA CashSplitsAdd ==
  ASSUME Tables, NEW from \in Nat, NEW mid \in Nat, NEW to \in Nat, from <= mid, mid <= to, NEW T \in SUBSET DOMAIN head
  PROVE  /\ CashSplits(from, to, T) = CashSplits(from, mid, T) + CashSplits(mid, to, T)
         /\ CashSplits(from, mid, T) \in Int /\ CashSplits(mid, to, T) \in Int
         /\ CashSplits(from, from, T) = 0
<1> DEFINE A(x, y) == {t \in T : x <= Midnight(t) /\ Midnight(t) < y}
           b == Booked("cash")
<1>1. \A t \in T : Midnight(t) \in Nat
  <2>1. \A x, y \in Nat : x * y \in Nat
    OBVIOUS
  <2>2. DayLength \in Nat
    BY FinanceConstants
  <2>3. \A t \in T : Day(head[t].at) \in Nat
    BY DayOf DEF Tables
  <2> QED
    BY <2>1, <2>2, <2>3 DEF Midnight
<1>2. A(from, mid) \in SUBSET DOMAIN head /\ A(mid, to) \in SUBSET DOMAIN head /\ A(from, to) \in SUBSET DOMAIN head
  OBVIOUS
<1>3. Splits(A(from, to), A(from, mid), A(mid, to)) /\ A(from, from) = {}
  BY <1>1 DEF Splits
<1>4. \A t \in DOMAIN head : b[t] \in Int
  BY BookedInt
<1>5. \A x, y : CashSplits(x, y, T) = SumBooked(A(x, y), "cash")
  BY DEF CashSplits, SumBooked, Midnight
<1>6. A(from, from) \in SUBSET DOMAIN head
  OBVIOUS
<1> HIDE DEF A, b
<1>7. /\ IsFiniteSet(A(from, mid)) /\ IsFiniteSet(A(mid, to)) /\ IsFiniteSet(A(from, to))
      /\ SumBooked(A(from, mid), "cash") = SumOf(A(from, mid), b)
      /\ SumBooked(A(mid, to), "cash") = SumOf(A(mid, to), b)
      /\ SumBooked(A(from, to), "cash") = SumOf(A(from, to), b)
      /\ SumBooked(A(from, from), "cash") = SumOf(A(from, from), b)
  BY <1>2, <1>6, BookedSum DEF Tables, b
<1>8. SumOf(A(from, to), b) = SumOf(A(from, mid), b) + SumOf(A(mid, to), b)
  <2>1. IntegersOn(b, A(from, to))
    BY <1>2, <1>4 DEF IntegersOn
  <2> QED
    BY <1>3, <1>7, <2>1, SumOfUnion
<1>9. SumOf(A(from, mid), b) \in Int /\ SumOf(A(mid, to), b) \in Int
  <2>1. (\A t \in A(from, mid) : b[t] \in Int) /\ \A t \in A(mid, to) : b[t] \in Int
    BY <1>2, <1>4
  <2> QED
    BY <1>7, <2>1, SumOfInt
<1>10. SumOf(A(from, from), b) = 0
  BY <1>3, SumOfEmpty
<1> QED
  BY <1>5, <1>7, <1>8, <1>9, <1>10

LEMMA OpeningInt ==
  ASSUME Tables
  PROVE  Opening \in Int
<1> DEFINE S == OpeningSplits
<1>1. S \in SUBSET DOMAIN head
  BY DEF OpeningSplits, Txs
<1>2. Opening = SumBooked(S, "cash")
  BY DEF Opening, SumBooked
<1> HIDE DEF S
<1>3. IsFiniteSet(S) /\ SumBooked(S, "cash") = SumOf(S, Booked("cash"))
  BY <1>1, BookedSum DEF Tables
<1>4. \A t \in S : Booked("cash")[t] \in Int
  BY <1>1, BookedInt
<1> QED
  BY <1>2, <1>3, <1>4, SumOfInt

(* What the cash-outs collected for a source.                                *)
CollectedFor(s) == [d \in DOMAIN head |-> Collected(d, s)]
SumCollected(S, s) == SumOver(S, LAMBDA d : Collected(d, s))
LEMMA CollectedInt ==
  ASSUME Tables, NEW d \in DOMAIN head, NEW s
  PROVE  Collected(d, s) \in Int /\ CollectedFor(s)[d] = Collected(d, s)
<1>1. rows[d] \in Seq(Line)
  BY DEF Tables
<1>2. \A T : Kept(rows[d], T) \in Seq(Line)
  BY <1>1, KeptType
<1>3. \A T : Total(Kept(rows[d], T)) \in Int
  BY <1>2, TotalType
<1>4. Collected(d, s) \in Int
  BY <1>3 DEF Collected
<1> QED
  BY <1>4 DEF CollectedFor

LEMMA CollectedSum ==
  ASSUME Dated, NEW S \in SUBSET DOMAIN head, NEW s
  PROVE  IsFiniteSet(S) /\ SumCollected(S, s) = SumOf(S, CollectedFor(s))
<1> DEFINE Eq(F) == F = [T \in SUBSET S |-> IF T = {} THEN 0
                                            ELSE LET x == CHOOSE x \in T : TRUE
                                                 IN  Collected(x, s) + F[T \ {x}]]
           F == CHOOSE F : Eq(F)
<1>0. IsFiniteSet(S)
  BY FS_Subset DEF Dated, BooksFinite
<1>1. ASSUME NEW G PROVE Eq(G) <=> IsSumOn(G, CollectedFor(s), S)
  <2>1. \A T \in SUBSET S : T # {} => CollectedFor(s)[Chosen(T)] = Collected(Chosen(T), s)
    BY ChosenIn DEF CollectedFor
  <2> QED
    BY <2>1, ZenonT(60) DEF IsSumOn, Chosen
<1>2. IsSumOn(F, CollectedFor(s), S)
  <2> HIDE DEF Eq
  <2>1. \E G : Eq(G)
    BY <1>0, <1>1, SumOnExists
  <2>2. Eq(F)
    BY <2>1
  <2> HIDE DEF F
  <2> QED
    BY <2>2, <1>1
<1>3. SumCollected(S, s) = F[S]
  BY DEF SumCollected, SumOver
<1> HIDE DEF F
<1> QED
  BY <1>0, <1>2, <1>3, SumOfIs, S \in SUBSET S
-----------------------------------------------------------------------------
(* The hunt for losses, cash-out by cash-out.                                *)

SettleEntries(S) == [of : DOMAIN head, balance : Int, deltas : [S -> Int]]
SettleRecords(S) == [last : Nat, balance : Int, totals : [S -> Int], deltas : [S -> Int], out : Seq(SettleEntries(S))]
SettleStart(S) ==
  [last |-> FirstDay, balance |-> Opening, totals |-> [s \in S |-> 0], deltas |-> [s \in S |-> 0], out |-> <<>>]
BalanceAt(to) == Opening + Deposited(FirstDay, to, Sources) + CashSplits(FirstDay, to, Manual)
UpToCash(c) == {d \in Cashes : head[d].at >= FirstDay /\ ~Before(c, d)}
SettlesOne(e, S) ==
  /\ e.balance = BalanceAt(head[e.of].at)
  /\ \A s \in S : e.deltas[s] = SumCollected(UpToCash(e.of), s) - Deposited(FirstDay, head[e.of].at, {s})
Settled(v, T, S) ==
  /\ v \in SettleRecords(S)
  /\ v.last = FirstDay \/ \E d \in T : v.last = head[d].at
  /\ FirstDay <= v.last
  /\ v.balance = BalanceAt(v.last)
  /\ \A s \in S : v.deltas[s] - v.totals[s] = SumOf(T, CollectedFor(s)) - Deposited(FirstDay, v.last, {s})
  /\ \A j \in 1 .. Len(v.out) : SettlesOne(v.out[j], S)

LEMMA SettleBegins ==
  ASSUME Tables, Logged, NEW S
  PROVE  SettleStart(S) \in SettleRecords(S) /\ Settled(SettleStart(S), {}, S)
<1> DEFINE v == SettleStart(S)
           zero == [s \in S |-> 0]
<1>1. /\ v.last = FirstDay /\ v.balance = Opening /\ v.totals = zero /\ v.deltas = zero /\ v.out = <<>>
      /\ v = [last |-> FirstDay, balance |-> Opening, totals |-> zero, deltas |-> zero, out |-> <<>>]
  BY DEF SettleStart
<1>2. zero \in [S -> Int] /\ \A s \in S : zero[s] = 0
  OBVIOUS
<1>3. <<>> \in Seq(SettleEntries(S)) /\ Len(<<>>) = 0 /\ 1 .. 0 = {}
  OBVIOUS
<1> HIDE DEF v, zero
<1>4. FirstDay \in Nat /\ Opening \in Int
  BY FirstDayIs, OpeningInt
<1>5. v \in SettleRecords(S)
  BY <1>1, <1>2, <1>3, <1>4 DEF SettleRecords
<1>6. /\ Deposited(FirstDay, FirstDay, Sources) = 0
      /\ \A s : Deposited(FirstDay, FirstDay, {s}) = 0
  BY <1>4, DepositedAdds
<1>7. CashSplits(FirstDay, FirstDay, Manual) = 0
  <2>1. Manual \in SUBSET DOMAIN head
    BY DEF Manual, Txs
  <2> QED
    BY <1>4, <2>1, CashSplitsAdd
<1>8. \A s : SumOf({}, CollectedFor(s)) = 0
  BY SumOfEmpty
<1>9. v.balance = BalanceAt(v.last)
  BY <1>1, <1>4, <1>6, <1>7 DEF BalanceAt
<1>10. \A s \in S : v.deltas[s] - v.totals[s] = SumOf({}, CollectedFor(s)) - Deposited(FirstDay, v.last, {s})
  BY <1>1, <1>2, <1>6, <1>8
<1>11. \A j \in 1 .. Len(v.out) : SettlesOne(v.out[j], S)
  BY <1>1, <1>3
<1>12. FirstDay <= v.last
  BY <1>1, <1>4
<1> QED
  BY <1>1, <1>5, <1>9, <1>10, <1>11, <1>12 DEF Settled, v

LEMMA CloseType ==
  ASSUME Tables, Logged, NEW S, NEW v \in SettleRecords(S), NEW u \in DOMAIN head
  PROVE  Close(S, v, u) \in SettleRecords(S)
<1>1. /\ v.last \in Nat /\ v.balance \in Int /\ v.totals \in [S -> Int] /\ v.deltas \in [S -> Int]
      /\ v.out \in Seq(SettleEntries(S))
  BY DEF SettleRecords
<1>2. head[u].at \in Nat
  BY BeforeOrders DEF Tables
<1>3. \A R : Deposited(v.last, head[u].at, R) \in Int
  <2> TAKE R
  <2> DEFINE I == {i \in CashRows(v.last, head[u].at) : log[i].source \in R}
  <2>1. I \in SUBSET DOMAIN log
    BY DEF CashRows
  <2>2. Deposited(v.last, head[u].at, R) = LogSum(I)
    BY DEF Deposited
  <2> HIDE DEF I
  <2> QED
    BY <2>1, <2>2, LogSumType DEF Logged
<1>4. CashSplits(v.last, head[u].at, Manual) \in Int
  <2> DEFINE I == {t \in Manual : v.last <= Midnight(t) /\ Midnight(t) < head[u].at}
  <2>1. I \in SUBSET DOMAIN head
    BY DEF Manual, Txs
  <2>2. CashSplits(v.last, head[u].at, Manual) = SumBooked(I, "cash")
    BY DEF CashSplits, SumBooked, Midnight
  <2> HIDE DEF I
  <2>3. IsFiniteSet(I) /\ SumBooked(I, "cash") = SumOf(I, Booked("cash"))
    BY <2>1, BookedSum DEF Tables
  <2>4. \A t \in I : Booked("cash")[t] \in Int
    BY <2>1, BookedInt
  <2> QED
    BY <2>2, <2>3, <2>4, SumOfInt
<1> DEFINE counted == HasCount(u)
           totals == [s \in S |-> v.totals[s] + Deposited(v.last, head[u].at, {s})]
           balance == v.balance + Deposited(v.last, head[u].at, Sources) + CashSplits(v.last, head[u].at, Manual)
           deltas == [s \in S |-> v.deltas[s] + Collected(u, s) - (IF counted THEN totals[s] ELSE 0)]
           left == IF counted THEN [s \in S |-> 0] ELSE totals
           out == IF counted THEN Append(v.out, [of |-> u, balance |-> balance, deltas |-> deltas]) ELSE v.out
<1>5. totals \in [S -> Int]
  BY <1>1, <1>3
<1>6. balance \in Int
  BY <1>1, <1>3, <1>4
<1> HIDE DEF totals, balance, counted
<1>7. deltas \in [S -> Int]
  <2> SUFFICES ASSUME NEW s \in S PROVE v.deltas[s] + Collected(u, s) - (IF counted THEN totals[s] ELSE 0) \in Int
    OBVIOUS
  <2>1. v.deltas[s] \in Int /\ totals[s] \in Int
    BY <1>1, <1>5
  <2>2. Collected(u, s) \in Int
    BY CollectedInt
  <2> QED
    BY <2>1, <2>2
<1> HIDE DEF deltas
<1>8. left \in [S -> Int]
  BY <1>5
<1>9. [of |-> u, balance |-> balance, deltas |-> deltas] \in SettleEntries(S)
  BY <1>6, <1>7 DEF SettleEntries
<1>10. out \in Seq(SettleEntries(S))
  BY <1>1, <1>9
<1>11. Close(S, v, u) = [last |-> head[u].at, balance |-> balance, deltas |-> deltas, totals |-> left, out |-> out]
  BY DEF Close, counted, totals, balance, deltas
<1> HIDE DEF left, out
<1> QED
  BY <1>2, <1>6, <1>7, <1>8, <1>10, <1>11 DEF SettleRecords

LEMMA SettleOn ==
  ASSUME Tables, Logged, NEW S, NEW T \in SUBSET DOMAIN head, NEW u \in DOMAIN head, u \notin T,
         FirstDay <= head[u].at, \A t \in T : Before(t, u), T \cup {u} = UpToCash(u), NEW v, Settled(v, T, S)
  PROVE  Settled(Close(S, v, u), T \cup {u}, S)
<1> DEFINE counted == HasCount(u)
           at == head[u].at
           w == Close(S, v, u)
           U == T \cup {u}
           new == Deposited(v.last, at, Sources)
<1>1. v \in SettleRecords(S) /\ w \in SettleRecords(S)
  BY CloseType DEF Settled
<1>2. /\ v.last \in Nat /\ v.balance \in Int /\ v.totals \in [S -> Int] /\ v.deltas \in [S -> Int]
      /\ v.out \in Seq(SettleEntries(S))
  BY <1>1 DEF SettleRecords
<1>3. at \in Nat /\ FirstDay \in Nat /\ FirstDay <= v.last /\ v.last <= at /\ FirstDay <= at
  <2>1. at \in Nat /\ \A t \in T : head[t].at \in Nat /\ head[t].at <= at
    <3>1. \A t \in DOMAIN head : head[t].at \in Nat
      BY BeforeOrders DEF Tables
    <3> QED
      BY <3>1 DEF Before
  <2>2. FirstDay \in Nat
    BY FirstDayIs
  <2>3. FirstDay <= v.last /\ (v.last = FirstDay \/ \E d \in T : v.last = head[d].at)
    BY DEF Settled
  <2> QED
    BY <2>1, <2>2, <2>3
<1> DEFINE totals == [s \in S |-> v.totals[s] + Deposited(v.last, at, {s})]
           balance == v.balance + Deposited(v.last, at, Sources) + CashSplits(v.last, at, Manual)
           deltas == [s \in S |-> v.deltas[s] + Collected(u, s) - (IF counted THEN totals[s] ELSE 0)]
           entry == [of |-> u, balance |-> balance, deltas |-> deltas]
<1>4. /\ w.last = at /\ w.balance = balance /\ w.deltas = deltas
      /\ counted => w.totals = [s \in S |-> 0] /\ w.out = Append(v.out, entry)
      /\ ~counted => w.totals = totals /\ w.out = v.out
  BY DEF Close
<1>5. /\ \A s \in S : totals[s] = v.totals[s] + Deposited(v.last, at, {s})
      /\ \A s \in S : deltas[s] = v.deltas[s] + Collected(u, s) - (IF counted THEN totals[s] ELSE 0)
      /\ entry.of = u /\ entry.balance = balance /\ entry.deltas = deltas
      /\ entry = [of |-> u, balance |-> balance, deltas |-> deltas]
  OBVIOUS
<1>6. w.deltas \in [S -> Int] /\ w.balance \in Int /\ w.totals \in [S -> Int]
  BY <1>1 DEF SettleRecords
<1> HIDE DEF w, totals, deltas, entry, counted
<1>7. balance = BalanceAt(at)
  <2>1. /\ Deposited(FirstDay, at, Sources) = Deposited(FirstDay, v.last, Sources) + Deposited(v.last, at, Sources)
        /\ Deposited(FirstDay, v.last, Sources) \in Int /\ Deposited(v.last, at, Sources) \in Int
    BY <1>2, <1>3, DepositedAdds
  <2>2. Manual \in SUBSET DOMAIN head
    BY DEF Manual, Txs
  <2>3. /\ CashSplits(FirstDay, at, Manual) = CashSplits(FirstDay, v.last, Manual) + CashSplits(v.last, at, Manual)
        /\ CashSplits(FirstDay, v.last, Manual) \in Int /\ CashSplits(v.last, at, Manual) \in Int
    BY <1>2, <1>3, <2>2, CashSplitsAdd
  <2>4. v.balance = Opening + Deposited(FirstDay, v.last, Sources) + CashSplits(FirstDay, v.last, Manual)
    BY DEF Settled, BalanceAt
  <2>5. Opening \in Int
    BY OpeningInt
  <2> QED
    BY <2>1, <2>3, <2>4, <2>5 DEF BalanceAt
<1> HIDE DEF balance
<1>8. \A s \in S : w.deltas[s] - w.totals[s] = SumOf(U, CollectedFor(s)) - Deposited(FirstDay, at, {s})
  <2> TAKE s \in S
  <2>1. v.deltas[s] - v.totals[s] = SumOf(T, CollectedFor(s)) - Deposited(FirstDay, v.last, {s})
    BY DEF Settled
  <2>2. /\ Deposited(FirstDay, at, {s}) = Deposited(FirstDay, v.last, {s}) + Deposited(v.last, at, {s})
        /\ Deposited(FirstDay, v.last, {s}) \in Int /\ Deposited(v.last, at, {s}) \in Int
    BY <1>2, <1>3, DepositedAdds
  <2>3. SumOf(U, CollectedFor(s)) = Collected(u, s) + SumOf(T, CollectedFor(s)) /\ SumOf(T, CollectedFor(s)) \in Int
    <3>1. U \in SUBSET DOMAIN head /\ u \in U /\ U \ {u} = T
      OBVIOUS
    <3> HIDE DEF U
    <3>2. IsFiniteSet(U) /\ IsFiniteSet(T)
      BY <3>1, CollectedSum DEF Tables
    <3>3. (\A x \in U : CollectedFor(s)[x] \in Int) /\ (\A x \in T : CollectedFor(s)[x] \in Int)
      BY <3>1, CollectedInt
    <3>4. SumOf(U, CollectedFor(s)) = CollectedFor(s)[u] + SumOf(U \ {u}, CollectedFor(s))
      BY <3>1, <3>2, <3>3, SumOfTake
    <3>5. SumOf(T, CollectedFor(s)) \in Int
      BY <3>2, <3>3, SumOfInt
    <3>6. CollectedFor(s)[u] = Collected(u, s)
      BY CollectedInt
    <3> QED
      BY <3>1, <3>4, <3>5, <3>6
  <2>4. v.deltas[s] \in Int /\ v.totals[s] \in Int /\ Collected(u, s) \in Int
    BY <1>2, CollectedInt
  <2>5. w.deltas[s] - w.totals[s] = v.deltas[s] + Collected(u, s) - (v.totals[s] + Deposited(v.last, at, {s}))
    <3>1. CASE counted
      <4>1. w.totals[s] = 0 /\ w.deltas[s] = v.deltas[s] + Collected(u, s) - totals[s]
        BY <1>4, <1>5, <3>1
      <4>2. totals[s] = v.totals[s] + Deposited(v.last, at, {s})
        BY <1>5
      <4>3. \A d, c, t, z \in Int : (d + c - (t + z)) - 0 = d + c - (t + z)
        OBVIOUS
      <4> QED
        BY <2>2, <2>4, <4>1, <4>2, <4>3
    <3>2. CASE ~counted
      <4>1. w.totals[s] = totals[s] /\ w.deltas[s] = v.deltas[s] + Collected(u, s) - 0
        BY <1>4, <1>5, <3>2
      <4>2. totals[s] = v.totals[s] + Deposited(v.last, at, {s})
        BY <1>5
      <4>3. \A d, c, t, z \in Int : (d + c - 0) - (t + z) = d + c - (t + z)
        OBVIOUS
      <4> QED
        BY <2>2, <2>4, <4>1, <4>2, <4>3
    <3> QED
      BY <3>1, <3>2
  <2> HIDE DEF U
  <2>6. \A d, t, c, x, y, z \in Int : d - t = x - y => d + c - (t + z) = (c + x) - (y + z)
    OBVIOUS
  <2> QED
    BY <2>1, <2>2, <2>3, <2>4, <2>5, <2>6
<1>9. counted => SettlesOne(entry, S)
  <2> SUFFICES ASSUME counted PROVE SettlesOne(entry, S)
    OBVIOUS
  <2>1. \A s \in S : deltas[s] = SumCollected(UpToCash(u), s) - Deposited(FirstDay, at, {s})
    <3> TAKE s \in S
    <3>1. w.totals[s] = 0 /\ w.deltas = deltas /\ w.deltas[s] \in Int
      BY <1>4, <1>6
    <3>2. w.deltas[s] = SumOf(U, CollectedFor(s)) - Deposited(FirstDay, at, {s})
      <4>1. w.deltas[s] - w.totals[s] = SumOf(U, CollectedFor(s)) - Deposited(FirstDay, at, {s})
        BY <1>8
      <4>2. w.deltas[s] - 0 = w.deltas[s]
        BY <3>1
      <4> QED
        BY <3>1, <4>1, <4>2
    <3>3. U \in SUBSET DOMAIN head
      OBVIOUS
    <3> HIDE DEF U
    <3>4. SumCollected(U, s) = SumOf(U, CollectedFor(s))
      BY <3>3, CollectedSum DEF Tables
    <3>5. U = UpToCash(u)
      BY DEF U
    <3> QED
      BY <3>1, <3>2, <3>4, <3>5
  <2> QED
    BY <1>5, <1>7, <2>1 DEF SettlesOne
<1>10. \A j \in 1 .. Len(w.out) : SettlesOne(w.out[j], S)
  <2>1. \A j \in 1 .. Len(v.out) : SettlesOne(v.out[j], S)
    BY DEF Settled
  <2>2. CASE counted
    <3>1. w.out = Append(v.out, entry)
      BY <1>4, <2>2
    <3>2. Len(w.out) = Len(v.out) + 1 /\ w.out[Len(v.out) + 1] = entry /\ Len(v.out) \in Nat
          /\ \A j \in 1 .. Len(v.out) : w.out[j] = v.out[j]
      BY <1>2, <3>1
    <3>3. \A j \in 1 .. Len(w.out) : j \in 1 .. Len(v.out) \/ j = Len(v.out) + 1
      BY <3>2
    <3> QED
      BY <1>9, <2>1, <2>2, <3>2, <3>3
  <2>3. CASE ~counted
    BY <1>4, <2>1, <2>3
  <2> QED
    BY <2>2, <2>3
<1>11. w.last = head[u].at /\ u \in U
  BY <1>4
<1> HIDE DEF U
<1>12. Settled(w, U, S)
  <2>1. w.balance = BalanceAt(w.last) /\ FirstDay <= w.last
    BY <1>3, <1>4, <1>7
  <2>2. \E d \in U : w.last = head[d].at
    BY <1>11
  <2>3. \A s \in S : w.deltas[s] - w.totals[s] = SumOf(U, CollectedFor(s)) - Deposited(FirstDay, w.last, {s})
    BY <1>4, <1>8
  <2> QED
    BY <1>1, <1>10, <2>1, <2>2, <2>3 DEF Settled
<1> QED
  BY <1>12 DEF w, U
-----------------------------------------------------------------------------
(* The losses found.                                                         *)

SettleEnd(S) ==
  FoldLeft(LAMBDA acc, c : Close(S, acc, c), SettleStart(S), InOrder({c \in Cashes : head[c].at >= FirstDay}))
LEMMA SettleIs ==
  ASSUME NEW S
  PROVE  Settle(S) = IF log = <<>> \/ OpeningSplits = {} THEN <<>> ELSE SettleEnd(S).out
  BY DEF Settle, SettleEnd, SettleStart

LEMMA SettleEnds ==
  ASSUME Tables, Logged, NEW S
  PROVE  \E T : Settled(SettleEnd(S), T, S)
<1> DEFINE C == {c \in Cashes : head[c].at >= FirstDay}
           s == InOrder(C)
           n == Len(s)
           V == SettleRecords(S)
           Lastly(T) == CHOOSE x \in T : \A y \in T : x >= y
           c == [T \in SUBSET (1 .. n) |-> CHOOSE x \in T : \A y \in T : x >= y]
           g == [p \in (1 .. n) \X V |-> Close(S, p[2], s[p[1]])]
           Eq(F) == F = [T \in SUBSET (1 .. n) |-> IF T = {} THEN SettleStart(S)
                                                  ELSE Close(S, F[T \ {Lastly(T)}], s[Lastly(T)])]
           F == CHOOSE F : Eq(F)
<1>1. Dated /\ C \in SUBSET DOMAIN head /\ Ordered(s, C)
  <2>1. Dated /\ C \in SUBSET DOMAIN head
    BY DEF Tables, Cashes
  <2> HIDE DEF C
  <2> QED
    BY <2>1, InOrderIs
<1>2. /\ n \in Nat /\ DOMAIN s = 1 .. n /\ C = {s[i] : i \in 1 .. n}
      /\ \A i, j \in 1 .. n : i < j => Before(s[i], s[j])
      /\ \A i \in 1 .. n : s[i] \in C /\ s[i] \in DOMAIN head
  <2> HIDE DEF C
  <2>1. s \in Seq(C) /\ Len(s) \in Nat
    BY <1>1 DEF Ordered
  <2> HIDE DEF s
  <2> QED
    BY <1>1, <2>1 DEF Ordered
<1> HIDE DEF s
<1>3. SettleEnd(S) = F[1 .. n]
  BY <1>2 DEF SettleEnd, FoldLeft, MapThenFoldSet, Max, s
<1> HIDE DEF n
<1>4. IsFiniteSet(1 .. n) /\ IsChoice(c, 1 .. n)
  BY <1>2, LastChosen
<1>5. SettleStart(S) \in V /\ Settled(SettleStart(S), {}, S)
  BY SettleBegins
<1> HIDE DEF V
<1>6. PICK G : IsFoldBy(G, g, c, SettleStart(S), 1 .. n) /\ \A T \in SUBSET (1 .. n) : G[T] \in V
  <2>1. \A x \in 1 .. n, v \in V : g[<<x, v>>] \in V
    <3> TAKE x \in 1 .. n, v \in V
    <3>1. g[<<x, v>>] = Close(S, v, s[x])
      OBVIOUS
    <3> QED
      BY <1>2, <3>1, CloseType DEF V
  <2> HIDE DEF g, c
  <2> QED
    BY <1>4, <1>5, <2>1, FoldByIn
<1>7. Eq(G)
  <2>1. ASSUME NEW T \in SUBSET (1 .. n), T # {}
        PROVE  g[<<c[T], G[T \ {c[T]}]>>] = Close(S, G[T \ {Lastly(T)}], s[Lastly(T)])
    <3>1. c[T] = Lastly(T) /\ c[T] \in 1 .. n
      BY <1>4, <2>1 DEF IsChoice
    <3>2. G[T \ {c[T]}] \in V
      BY <1>6
    <3> HIDE DEF c, Lastly
    <3>3. <<c[T], G[T \ {c[T]}]>> \in (1 .. n) \X V
      BY <3>1, <3>2
    <3>4. g[<<c[T], G[T \ {c[T]}]>>] = Close(S, G[T \ {c[T]}], s[c[T]])
      BY <3>3
    <3> QED
      BY <3>1, <3>4
  <2> HIDE DEF g, c, Lastly
  <2> QED
    BY <1>6, <2>1, ZenonT(60) DEF IsFoldBy
<1>8. Eq(F)
  <2> HIDE DEF Eq
  <2> QED
    BY <1>7
<1> HIDE DEF F, c, g
<1> DEFINE Up(k) == {s[i] : i \in 1 .. k}
           N == {k \in Nat : k <= n => Settled(F[1 .. k], Up(k), S)}
<1>9. 0 \in N
  <2>1. 1 .. 0 = {} /\ {} \in SUBSET (1 .. n)
    OBVIOUS
  <2>2. F[1 .. 0] = SettleStart(S) /\ Up(0) = {}
    BY <1>8, <2>1
  <2> HIDE DEF Up
  <2>3. Settled(F[1 .. 0], Up(0), S)
    BY <1>5, <2>2
  <2> QED
    BY <2>3
<1>10. ASSUME NEW k \in N PROVE k + 1 \in N
  <2> SUFFICES ASSUME k + 1 <= n PROVE Settled(F[1 .. k + 1], Up(k + 1), S)
    OBVIOUS
  <2>1. k \in Nat /\ k + 1 \in Nat \ {0} /\ k + 1 \in 1 .. n /\ Settled(F[1 .. k], Up(k), S) /\ (k + 1) - 1 = k
    BY <1>2
  <2> HIDE DEF N
  <2> DEFINE u == s[k + 1]
  <2>2. Lastly(1 .. k + 1) = k + 1 /\ (1 .. k + 1) \ {k + 1} = 1 .. k
    BY <2>1, LastOfRange
  <2> HIDE DEF Lastly
  <2>3. F[1 .. k + 1] = Close(S, F[1 .. k], u)
    <3>1. 1 .. k + 1 \in SUBSET (1 .. n) /\ 1 .. k + 1 # {}
      <4>1. \A i \in 1 .. k + 1 : i \in 1 .. n
        BY <1>2, <2>1
      <4>2. 1 \in 1 .. k + 1
        BY <2>1
      <4> QED
        BY <4>1, <4>2
    <3>2. F[1 .. k + 1] = Close(S, F[(1 .. k + 1) \ {Lastly(1 .. k + 1)}], s[Lastly(1 .. k + 1)])
      BY <1>8, <3>1
    <3> QED
      BY <2>2, <3>2
  <2>4. \A i \in 1 .. k : i \in 1 .. n /\ i < k + 1
    BY <1>2, <2>1
  <2>5. /\ u \in DOMAIN head /\ u \in C /\ Up(k) \in SUBSET DOMAIN head /\ Up(k) \subseteq C
        /\ \A t \in Up(k) : Before(t, u)
    BY <1>2, <2>1, <2>4
  <2>6. u \notin Up(k)
    BY <1>1, <2>5, BeforeOrders
  <2>7. Up(k + 1) = Up(k) \cup {u}
    <3>1. \A i \in 1 .. k + 1 : i \in 1 .. k \/ i = k + 1
      BY <2>1
    <3>2. k + 1 \in 1 .. k + 1 /\ \A i \in 1 .. k : i \in 1 .. k + 1
      BY <2>1
    <3> QED
      BY <3>1, <3>2
  <2>8. \A d \in C : d \in Up(k) \cup {u} <=> ~Before(u, d)
    <3> TAKE d \in C
    <3>1. PICK i \in 1 .. n : d = s[i]
      BY <1>2
    <3>2. CASE i \in 1 .. k
      <4>1. d \in Up(k) /\ Before(d, u)
        BY <2>5, <3>1, <3>2
      <4> QED
        BY <1>1, <2>5, <4>1, BeforeOrders
    <3>3. CASE i = k + 1
      <4>1. d = u
        BY <3>1, <3>3
      <4> QED
        BY <1>1, <2>5, <4>1, BeforeOrders
    <3>4. CASE i \notin 1 .. k /\ i # k + 1
      <4>1. k + 1 < i
        BY <2>1, <3>4
      <4>2. Before(u, d)
        BY <1>2, <2>1, <3>1, <4>1
      <4>3. ~Before(d, u) /\ d # u
        BY <1>1, <2>5, <4>2, BeforeOrders
      <4> HIDE DEF Up
      <4> QED
        BY <2>5, <4>2, <4>3
    <3> QED
      BY <3>2, <3>3, <3>4
  <2> HIDE DEF Up, u
  <2>9. Up(k) \cup {u} = UpToCash(u)
    <3>1. UpToCash(u) = {d \in C : ~Before(u, d)}
      BY DEF UpToCash
    <3> HIDE DEF C
    <3> QED
      BY <2>5, <2>8, <3>1
  <2>10. FirstDay <= head[u].at
    <3>1. head[u].at >= FirstDay /\ head[u].at \in Nat /\ FirstDay \in Nat
      BY <1>1, <2>5, BeforeOrders, FirstDayIs
    <3> QED
      BY <3>1
  <2> HIDE DEF C
  <2> QED
    BY <2>1, <2>3, <2>5, <2>6, <2>7, <2>9, <2>10, SettleOn
<1> HIDE DEF N
<1>11. N = Nat
  BY <1>9, <1>10, FromZero DEF N
<1>12. n \in N
  BY <1>2, <1>11
<1>13. Settled(F[1 .. n], Up(n), S)
  BY <1>2, <1>12 DEF N
<1> HIDE DEF Up
<1> QED
  BY <1>3, <1>13

LEMMA SettlesAll ==
  ASSUME Tables, log \in Seq(LogRow), NEW S
  PROVE  Settles(Settle(S), S) /\ Settles(<<>>, S)
<1>1. Settles(<<>>, S)
  BY DEF Settles
<1>2. ASSUME log # <<>>, OpeningSplits # {} PROVE Settles(Settle(S), S)
  <2> DEFINE v == SettleEnd(S)
  <2>1. PICK T : Settled(v, T, S)
    BY <1>2, SettleEnds DEF Logged
  <2>2. Settle(S) = v.out
    BY <1>2, SettleIs
  <2> HIDE DEF v
  <2>3. DOMAIN v.out = 1 .. Len(v.out)
    BY <2>1 DEF Settled, SettleRecords
  <2>4. \A i \in DOMAIN v.out : SettlesOne(v.out[i], S)
    BY <2>1, <2>3 DEF Settled
  <2>5. Settles(v.out, S) <=> \A i \in DOMAIN v.out : SettlesOne(v.out[i], S)
    BY DEF Settles, SettlesOne, BalanceAt, UpToCash, SumCollected
  <2> QED
    BY <2>2, <2>4, <2>5
<1>3. ASSUME ~(log # <<>> /\ OpeningSplits # {}) PROVE Settles(Settle(S), S)
  BY <1>1, <1>3, SettleIs
<1> QED
  BY <1>1, <1>2, <1>3

LEMMA AllSettled ==
  ASSUME Tables, log \in Seq(LogRow)
  PROVE  LossesAgree
<1>1. Losses = <<>> \/ Losses = Settle(Sources)
  BY DEF Losses
<1>2. CheckCash = Settle(Sources \ {"unknown"})
  BY DEF CheckCash
<1> QED
  BY <1>1, <1>2, SettlesAll DEF LossesAgree

-----------------------------------------------------------------------------
LEMMA TablesRight == Inv /\ BooksFinite => Tables /\ log \in Seq(LogRow)
<1> SUFFICES ASSUME Inv, BooksFinite PROVE Tables /\ log \in Seq(LogRow)
  OBVIOUS
<1>1. TypeOK
  BY DEF Inv
<1>2. DOMAIN head \subseteq Nat
  BY <1>1, FinanceConstants DEF TypeOK, Ids
<1> QED
  BY <1>1, <1>2 DEF TypeOK, Tables, Dated

(* At every moment the reports of the books tell one story: each line of a   *)
(* page of a ledger has the sum of all transactions up to its own, a dump    *)
(* one line a day with the balance at its end, the XML dump each transaction *)
(* with all its splits (finance/views.py and models.py).                     *)
THEOREM BooksReport == CashSpec => []ReportsAgree
<1>1. Init => BooksFinite
  BY InitRight
<1>2. BooksFinite /\ [CashNext]_vars => BooksFinite'
  BY FiniteKeeps
<1>3. Inv /\ BooksFinite => ReportsAgree
  BY TablesRight, LedgersRun, DumpsRun, AllFetched DEF ReportsAgree
<1> QED
  BY <1>1, <1>2, <1>3, CashInv, PTL DEF CashSpec

(* And the reports of the cash-outs, the transactions proposed for them and  *)
(* the losses found (cashout/views.py).                                      *)
THEOREM CashOutsReport == CashSpec => []CashReports
<1>1. Init => BooksFinite
  BY InitRight
<1>2. BooksFinite /\ [CashNext]_vars => BooksFinite'
  BY FiniteKeeps
<1>3. Inv /\ BooksFinite => CashReports
  BY TablesRight, ProposalsStand, CashLedgersRun, AllSettled DEF CashReports
<1> QED
  BY <1>1, <1>2, <1>3, CashInv, PTL DEF CashSpec
=============================================================================
