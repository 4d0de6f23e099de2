------------------------- MODULE SodaSessionProofs -------------------------
(* Theorems about SodaSession: types, the flag that refuses logouts, and the *)
(* acceptors.  They hold for every set of users and events, and whatever     *)
(* plan says which kinds of event each may be and which acceptors to follow. *)
EXTENDS SodaSession, SequenceTheorems, TLAPS

-----------------------------------------------------------------------------
(* The queue of redis replies: no event waits twice.                         *)

Waits(q, e) == \E i \in 1 .. Len(q) : q[i] = e
(* f's reply comes after e's. *)
Behind(q, f, e) == \E i, j \in 1 .. Len(q) : i < j /\ q[i] = e /\ q[j] = f

IsQueue(q) ==
  /\ q \in Seq(Events)
  /\ \A i, j \in 1 .. Len(q) : q[i] = q[j] => i = j

LEMMA QueueJoined ==
  ASSUME NEW q, IsQueue(q), NEW e \in Events, ~ Waits(q, e)
  PROVE  /\ IsQueue(Append(q, e))
         /\ \A f : Waits(Append(q, e), f) <=> Waits(q, f) \/ f = e
         /\ \A f : Waits(q, f) => Behind(Append(q, e), e, f)
         /\ \A f, g : Behind(q, f, g) => Behind(Append(q, e), f, g)
<1> DEFINE r == Append(q, e)
<1>1. /\ r \in Seq(Events) /\ Len(q) \in Nat /\ Len(r) = Len(q) + 1
      /\ \A i \in 1 .. Len(q) : r[i] = q[i]
      /\ r[Len(q) + 1] = e
  BY AppendProperties, LenProperties DEF IsQueue
<1> HIDE DEF r
<1>2. \A i \in 1 .. Len(r) : i \in 1 .. Len(q) \/ i = Len(q) + 1
  BY <1>1
<1>3. 1 .. Len(q) \subseteq 1 .. Len(r) /\ Len(q) + 1 \in 1 .. Len(r)
      /\ \A i \in 1 .. Len(q) : i < Len(q) + 1
  BY <1>1
<1>4. IsQueue(r)
  BY <1>1, <1>2 DEF IsQueue, Waits
<1>5. \A f : Waits(r, f) <=> Waits(q, f) \/ f = e
  BY <1>1, <1>2, <1>3 DEF Waits
<1>6. \A f : Waits(q, f) => Behind(r, e, f)
  BY <1>1, <1>3 DEF Waits, Behind
<1>7. \A f, g : Behind(q, f, g) => Behind(r, f, g)
  BY <1>1, <1>3 DEF Behind
<1> QED
  BY <1>4, <1>5, <1>6, <1>7 DEF r

LEMMA QueueHandled ==
  ASSUME NEW q, IsQueue(q), q # <<>>
  PROVE  /\ Head(q) \in Events /\ Waits(q, Head(q))
         /\ IsQueue(Tail(q))
         /\ \A f : Waits(Tail(q), f) <=> Waits(q, f) /\ f # Head(q)
         /\ \A f, g : Behind(q, f, g) /\ g # Head(q) => Behind(Tail(q), f, g)
         /\ \A g : ~ Behind(q, Head(q), g)
<1> DEFINE h == Head(q)
           t == Tail(q)
<1>1. /\ t \in Seq(Events) /\ Len(q) \in Nat /\ Len(q) > 0 /\ Len(t) = Len(q) - 1
      /\ h = q[1] /\ h \in Events
      /\ \A i \in 1 .. Len(t) : t[i] = q[i + 1]
  BY HeadTailProperties, LenProperties, EmptySeq DEF IsQueue
<1> HIDE DEF h, t
<1>2. \A i \in 1 .. Len(t) : i + 1 \in 1 .. Len(q) /\ i + 1 # 1
  BY <1>1
<1>3. \A i \in 1 .. Len(q) : i # 1 => i - 1 \in 1 .. Len(t) /\ t[i - 1] = q[i]
  BY <1>1
<1>4. 1 \in 1 .. Len(q) /\ \A i \in 1 .. Len(q) : q[i] = h => i = 1
  BY <1>1 DEF IsQueue
<1>5. IsQueue(t)
  <2> SUFFICES ASSUME NEW i \in 1 .. Len(t), NEW j \in 1 .. Len(t), t[i] = t[j]
               PROVE  i = j
    BY <1>1 DEF IsQueue
  <2>1. i + 1 = j + 1
    BY <1>1, <1>2 DEF IsQueue
  <2> QED
    BY <2>1
<1>6. \A f : Waits(t, f) <=> Waits(q, f) /\ f # h
  BY <1>1, <1>2, <1>3, <1>4 DEF Waits
<1>7. \A f, g : Behind(q, f, g) /\ g # h => Behind(t, f, g)
  <2> SUFFICES ASSUME NEW i \in 1 .. Len(q), NEW j \in 1 .. Len(q), i < j, q[i] # h
               PROVE  Behind(t, q[j], q[i])
    BY DEF Behind
  <2>1. i # 1 /\ j # 1
    BY <1>1
  <2>2. /\ i - 1 \in 1 .. Len(t) /\ t[i - 1] = q[i]
        /\ j - 1 \in 1 .. Len(t) /\ t[j - 1] = q[j] /\ i - 1 < j - 1
    BY <1>3, <2>1
  <2> QED
    BY <2>2 DEF Behind
<1>8. \A g : ~ Behind(q, h, g)
  BY <1>4 DEF Behind
<1> QED
  BY <1>1, <1>4, <1>5, <1>6, <1>7, <1>8 DEF h, t, Waits

-----------------------------------------------------------------------------
(* Every step but GiveUp, Expire and those of mdb_server moves one event from *)
(* its point to the next, and keeps the queue.                               *)

Acts(e) == Arrival(e) \/ Continue(e) \/ Vdbvend(e) \/ VdbvendLost(e) \/ BillStacked(e)
Mdb == MdbAnswered \/ MdbDevice \/ \E r \in MdbRequests : MdbCommand(r)

(* The points of a vend are passed in order. *)
VendEdge(a, b) ==
  /\ a \notin {"done", "abandoned", "lost"} /\ b # "idle"
  /\ \/ a = "idle" /\ b = "authSession"
     \/ a = "authSession" /\ b = "authLookup"
     \/ a = "authLookup" /\ b \in {"authFlag", "done"}
     \/ a = "authFlag" /\ b \in {"granted", "abandoned"}
     \/ a = "granted" /\ b \in {"resultSession", "lost"}
     \/ a \notin VendPoints /\ b \notin VendPoints \cup {"resultSession", "abandoned", "lost"}

(* What the machine is busy with when e goes on from point a to b. *)
MachineMoves(e, a, b) ==
  /\ b = "authSession" =>
       machine = NoEvent /\ machine' = e /\ \A f \in late : at[f] \notin VendPoints
  /\ a \in {"authLookup", "granted"} /\ b # "authFlag" => machine' = NoEvent
  /\ \/ b = "authSession"
     \/ a \in {"authLookup", "granted"} /\ b # "authFlag"
     \/ UNCHANGED machine
  /\ a = "authFlag" => b = IF e \in late THEN "abandoned" ELSE "granted"
  /\ UNCHANGED late

Moves(e, p) ==
  /\ at' = [at EXCEPT ![e] = p]
  /\ at[e] \in RedisPoints => pending # <<>> /\ Head(pending) = e
  /\ \E rest \in {IF at[e] \in RedisPoints THEN Tail(pending) ELSE pending} :
       pending' = IF p \in RedisPoints THEN Append(rest, e) ELSE rest
  /\ VendEdge(at[e], p) /\ MachineMoves(e, at[e], p)

LEMMA ArrivalMoves ==
  ASSUME NEW e \in Events, Arrival(e)
  PROVE  \E p \in Points : Moves(e, p)
<1> USE DEF Arrive, Ask, Issue, Goto, world, Points, RedisPoints, OtherPoints
<1>1. at[e] = "idle"
  BY DEF Arrival, Login, Logout, Lever, Scan, Vdbauth, Coin, Bill
<1>2. CASE Login(e)
  <2>1. Moves(e, "roles")
    BY <1>1, <1>2 DEF Login, Moves, VendEdge, MachineMoves, VendPoints
  <2> QED
    BY <2>1
<1>3. CASE Logout(e)
  <2>1. Moves(e, "flagRead")
    BY <1>1, <1>3 DEF Logout, Moves, VendEdge, MachineMoves, VendPoints
  <2> QED
    BY <2>1
<1>4. CASE Lever(e)
  <2>1. Moves(e, "leverSession")
    BY <1>1, <1>4 DEF Lever, Moves, VendEdge, MachineMoves, VendPoints
  <2> QED
    BY <2>1
<1>5. CASE Scan(e)
  <2>1. Moves(e, "scanSession")
    BY <1>1, <1>5 DEF Scan, Moves, VendEdge, MachineMoves, VendPoints
  <2> QED
    BY <2>1
<1>6. CASE Vdbauth(e)
  <2>1. Moves(e, "authSession")
    BY <1>1, <1>6 DEF Vdbauth, MachineAsks, Moves, VendEdge, MachineMoves
  <2> QED
    BY <2>1
<1>7. CASE Coin(e)
  <2>1. Moves(e, "coinSession")
    BY <1>1, <1>7 DEF Coin, Moves, VendEdge, MachineMoves, VendPoints
  <2> QED
    BY <2>1
<1>8. CASE Bill(e)
  <2>1. Moves(e, "escrowSession")
    BY <1>1, <1>8 DEF Bill, Moves, VendEdge, MachineMoves, VendPoints
  <2> QED
    BY <2>1
<1> QED
  BY <1>2, <1>3, <1>4, <1>5, <1>6, <1>7, <1>8 DEF Arrival

LEMMA ContinueMoves ==
  ASSUME NEW e \in Events, Continue(e) \/ Vdbvend(e) \/ VdbvendLost(e) \/ BillStacked(e)
  PROVE  \E p \in Points : Moves(e, p)
<1> USE DEF Due, Handled, Ask, Issue, Goto, Stop, BalanceTransaction, world,
            Points, RedisPoints, OtherPoints
<1>1. CASE LoginStore(e)
  <2>1. Moves(e, "stored")
    BY <1>1 DEF LoginStore, Moves, VendEdge, MachineMoves, VendPoints
  <2> QED
    BY <2>1
<1>2. CASE LoginDone(e)
  <2>1. Moves(e, "done")
    BY <1>2 DEF LoginDone, Moves, VendEdge, MachineMoves, VendPoints
  <2> QED
    BY <2>1
<1>3. CASE LeverSession(e)
  <2>1. Moves(e, "flagRead") \/ Moves(e, "done")
    BY <1>3 DEF LeverSession, Moves, VendEdge, MachineMoves, VendPoints
  <2> QED
    BY <2>1
<1>4. CASE LogoutDecide(e)
  <2>1. Moves(e, "done") \/ Moves(e, "deleted")
    BY <1>4 DEF LogoutDecide, Moves, VendEdge, MachineMoves, VendPoints
  <2> QED
    BY <2>1
<1>5. CASE LogoutRoles(e)
  <2>1. Moves(e, "rolesDeleted")
    BY <1>5 DEF LogoutRoles, Moves, VendEdge, MachineMoves, VendPoints
  <2> QED
    BY <2>1
<1>6. CASE LogoutDone(e)
  <2>1. Moves(e, "done")
    BY <1>6 DEF LogoutDone, Moves, VendEdge, MachineMoves, VendPoints
  <2> QED
    BY <2>1
<1>7. CASE ScanSession(e)
  <2>1. Moves(e, "scanLookup")
    BY <1>7 DEF ScanSession, Moves, VendEdge, MachineMoves, VendPoints
  <2> QED
    BY <2>1
<1>8. CASE ScanLookup(e)
  <2>1. Moves(e, "uidRead") \/ Moves(e, "done")
    BY <1>8 DEF ScanLookup, Moves, VendEdge, MachineMoves, VendPoints
  <2> QED
    BY <2>1
<1>9. CASE VdbauthSession(e)
  <2>1. Moves(e, "authLookup")
    BY <1>9 DEF VdbauthSession, Moves, VendEdge, MachineMoves, VendPoints
  <2> QED
    BY <2>1
<1>10. CASE VdbauthLookup(e)
  <2>1. Moves(e, "authFlag") \/ Moves(e, "done")
    BY <1>10 DEF VdbauthLookup, Moves, VendEdge, MachineMoves, VendPoints
  <2> QED
    BY <2>1
<1>11. CASE VdbauthGrant(e)
  <2>1. Moves(e, "abandoned") \/ Moves(e, "granted")
    BY <1>11 DEF VdbauthGrant, Moves, VendEdge, MachineMoves, VendPoints
  <2> QED
    BY <2>1
<1>12. CASE VdbvendSession(e)
  <2>1. Moves(e, "resultFlag") \/ Moves(e, "done")
    BY <1>12 DEF VdbvendSession, Moves, VendEdge, MachineMoves, VendPoints
  <2> QED
    BY <2>1
<1>13. CASE VdbvendFlag(e)
  <2>1. Moves(e, "resultLookup") \/ Moves(e, "done")
    BY <1>13 DEF VdbvendFlag, Moves, VendEdge, MachineMoves, VendPoints
  <2> QED
    BY <2>1
<1>14. CASE VdbvendLookup(e)
  <2>1. Moves(e, "uidRead") \/ Moves(e, "done")
    BY <1>14 DEF VdbvendLookup, Moves, VendEdge, MachineMoves, VendPoints
  <2> QED
    BY <2>1
<1>15. CASE HandleCoinDeposit(e)
  <2>1. Moves(e, "uidRead") \/ Moves(e, "done")
    BY <1>15 DEF HandleCoinDeposit, Moves, VendEdge, MachineMoves, VendPoints
  <2> QED
    BY <2>1
<1>16. CASE HandleBillEscrow(e)
  <2>1. Moves(e, "stacking") \/ Moves(e, "done")
    BY <1>16 DEF HandleBillEscrow, Moves, VendEdge, MachineMoves, VendPoints
  <2> QED
    BY <2>1
<1>17. CASE HandleBillStack(e)
  <2>1. Moves(e, "uidRead") \/ Moves(e, "done")
    BY <1>17 DEF HandleBillStack, Moves, VendEdge, MachineMoves, VendPoints
  <2> QED
    BY <2>1
<1>18. CASE BalanceTransactionUid(e)
  <2>1. Moves(e, "booking")
    BY <1>18 DEF BalanceTransactionUid, Moves, VendEdge, MachineMoves, VendPoints
  <2> QED
    BY <2>1
<1>19. CASE Book(e)
  <2>1. Moves(e, "done")
    BY <1>19 DEF Book, Moves, VendEdge, MachineMoves, VendPoints
  <2> QED
    BY <2>1
<1>20. CASE Vdbvend(e)
  <2>1. Moves(e, "resultSession")
    BY <1>20 DEF Vdbvend, Moves, VendEdge, MachineMoves, VendPoints
  <2> QED
    BY <2>1
<1>21. CASE BillStacked(e)
  <2>1. Moves(e, "stackSession")
    BY <1>21 DEF BillStacked, Moves, VendEdge, MachineMoves, VendPoints
  <2> QED
    BY <2>1
<1>22. CASE VdbvendLost(e)
  <2>1. Moves(e, "lost")
    BY <1>22 DEF VdbvendLost, Moves, VendEdge, MachineMoves, VendPoints
  <2> QED
    BY <2>1
<1> QED
  BY <1>1, <1>2, <1>3, <1>4, <1>5, <1>6, <1>7, <1>8, <1>9, <1>10, <1>11,
     <1>12, <1>13, <1>14, <1>15, <1>16, <1>17, <1>18, <1>19, <1>20, <1>21, <1>22 DEF Continue

-----------------------------------------------------------------------------
(* What the steps do to the session and to the other data.                   *)

DataOK ==
  /\ session \in Sessions /\ (session.live \/ session = Absent)
  /\ kind \in [Events -> Kinds \cup {"none"}]
  /\ who \in [Events -> Users \cup {Nobody}]
  /\ seen \in [Events -> Sessions]
  /\ late \in SUBSET Events
  /\ accepting \in BOOLEAN
  /\ vended \in SUBSET Events
  /\ kept \in SUBSET Events
  /\ booked \in [Events -> Users \cup {Nobody}]

(* Only the lookup of a vend marks the session, and only a result or the end *)
(* of the session takes the mark away; the acceptors are disabled only with  *)
(* the session.                                                              *)
SessionMoves(e) ==
  /\ \A f \in Events : f # e => seen'[f] = seen[f]
  /\ session'.activevend =>
       \/ session.activevend
       \/ at[e] = "authLookup" /\ at' = [at EXCEPT ![e] = "authFlag"]
  /\ at[e] = "granted" => UNCHANGED session
  /\ at[e] = "granted" => seen'[e] = session \/ at' = [at EXCEPT ![e] = "lost"]
  /\ session.activevend /\ ~ session'.activevend => session' = Absent \/ at[e] = "resultSession"
  /\ at[e] = "resultSession" /\ seen[e].live => ~ session'.activevend
  /\ session'.uid \in Users =>
       \/ at' = [at EXCEPT ![e] = "stored"]
       \/ session.uid \in Users /\ (accepting \/ at[e] = "stored" => accepting')

LEMMA ActsKeepData ==
  ASSUME DataOK, NEW e \in Events, Acts(e)
  PROVE  DataOK' /\ SessionMoves(e)
<1>0. Absent \in Sessions /\ ~ Absent.activevend /\ Absent.uid \notin Users
  BY NobodyAssumption DEF Absent, Sessions
<1> USE DEF DataOK, SessionMoves, Due, Handled, Ask, Issue, Goto, Stop, SetFlag,
            BalanceTransaction, Arrive, world, self
<1>1. CASE Login(e)
  BY <1>0, <1>1 DEF Login, Kinds, Sessions
<1>2. CASE Logout(e)
  BY <1>0, <1>2 DEF Logout, Kinds, Sessions
<1>3. CASE Lever(e)
  BY <1>0, <1>3 DEF Lever, Kinds, Sessions
<1>4. CASE Scan(e)
  BY <1>0, <1>4 DEF Scan, Kinds, Sessions
<1>5. CASE Vdbauth(e)
  BY <1>0, <1>5 DEF Vdbauth, Kinds, Sessions
<1>6. CASE Coin(e)
  BY <1>0, <1>6 DEF Coin, Kinds, Sessions
<1>7. CASE Bill(e)
  BY <1>0, <1>7 DEF Bill, Kinds, Sessions
<1>8. CASE LoginStore(e)
  BY <1>0, <1>8 DEF LoginStore, Kinds, Sessions
<1>9. CASE LoginDone(e)
  BY <1>0, <1>9 DEF LoginDone, Kinds, Sessions
<1>10. CASE LeverSession(e)
  <2>1. CASE seen[e].live
    BY <1>10, <2>1 DEF LeverSession
  <2>2. CASE ~ seen[e].live
    BY <1>0, <1>10, <2>2 DEF LeverSession
  <2> QED
    BY <2>1, <2>2
<1>11. CASE LogoutDecide(e)
  <2>1. CASE seen[e].activevend
    BY <1>11, <2>1, <1>0 DEF LogoutDecide
  <2>2. CASE ~ seen[e].activevend
    BY <1>11, <2>2, <1>0 DEF LogoutDecide
  <2> QED
    BY <2>1, <2>2
<1>12. CASE LogoutRoles(e)
  BY <1>0, <1>12 DEF LogoutRoles, Kinds, Sessions
<1>13. CASE LogoutDone(e)
  BY <1>0, <1>13 DEF LogoutDone, Kinds, Sessions
<1>14. CASE ScanSession(e)
  BY <1>0, <1>14 DEF ScanSession, Kinds, Sessions
<1>15. CASE ScanLookup(e)
  BY <1>0, <1>15 DEF ScanLookup, Kinds, Sessions
<1>16. CASE VdbauthSession(e)
  BY <1>0, <1>16 DEF VdbauthSession, Kinds, Sessions
<1>17. CASE VdbauthLookup(e)
  <2>1. CASE seen[e].uid \in Users
    <3>1. /\ session' = [session EXCEPT !.live = TRUE, !.activevend = TRUE]
          /\ at[e] = "authLookup" /\ at' = [at EXCEPT ![e] = "authFlag"]
          /\ UNCHANGED <<kind, who, seen, late, accepting, mdb, vended, kept, booked>>
      BY <1>17, <2>1 DEF VdbauthLookup
    <3>2. session' \in Sessions /\ session'.live /\ session'.activevend
      BY <3>1 DEF Sessions
    <3> QED
      BY <3>1, <3>2
  <2>2. CASE seen[e].uid \notin Users
    BY <1>17, <2>2, <1>0 DEF VdbauthLookup
  <2> QED
    BY <2>1, <2>2
<1>18. CASE VdbauthGrant(e)
  BY <1>0, <1>18 DEF VdbauthGrant, Kinds, Sessions
<1>19. CASE VdbvendSession(e)
  <2>1. CASE seen[e].live
    <3>1. /\ session' = [session EXCEPT !.live = TRUE, !.activevend = FALSE]
          /\ at[e] = "resultSession"
          /\ UNCHANGED <<kind, who, seen, late, accepting, mdb, vended, kept, booked>>
      BY <1>19, <2>1 DEF VdbvendSession
    <3>2. session' \in Sessions /\ session'.live /\ ~ session'.activevend
      BY <3>1 DEF Sessions
    <3> QED
      BY <3>1, <3>2
  <2>2. CASE ~ seen[e].live
    BY <1>19, <2>2, <1>0 DEF VdbvendSession
  <2> QED
    BY <2>1, <2>2
<1>20. CASE VdbvendFlag(e)
  BY <1>0, <1>20 DEF VdbvendFlag, Kinds, Sessions
<1>21. CASE VdbvendLookup(e)
  BY <1>0, <1>21 DEF VdbvendLookup, Kinds, Sessions
<1>22. CASE HandleCoinDeposit(e)
  <2>1. CASE seen[e].live
    BY <1>22, <2>1 DEF HandleCoinDeposit
  <2>2. CASE ~ seen[e].live
    BY <1>0, <1>22, <2>2 DEF HandleCoinDeposit
  <2> QED
    BY <2>1, <2>2
<1>23. CASE HandleBillEscrow(e)
  BY <1>0, <1>23 DEF HandleBillEscrow, Kinds, Sessions
<1>24. CASE HandleBillStack(e)
  <2>1. CASE seen[e].live
    BY <1>24, <2>1 DEF HandleBillStack
  <2>2. CASE ~ seen[e].live
    BY <1>0, <1>24, <2>2 DEF HandleBillStack
  <2> QED
    BY <2>1, <2>2
<1>25. CASE BalanceTransactionUid(e)
  BY <1>0, <1>25 DEF BalanceTransactionUid, Kinds, Sessions
<1>26. CASE Book(e)
  BY <1>0, <1>26 DEF Book, Kinds, Sessions
<1>27. CASE Vdbvend(e)
  BY <1>0, <1>27 DEF Vdbvend, Kinds, Sessions
<1>28. CASE BillStacked(e)
  BY <1>0, <1>28 DEF BillStacked, Kinds, Sessions
<1>29. CASE VdbvendLost(e)
  BY <1>0, <1>29 DEF VdbvendLost, Kinds, Sessions
<1> QED
  BY <1>1, <1>2, <1>3, <1>4, <1>5, <1>6, <1>7, <1>8, <1>9, <1>10, <1>11,
     <1>12, <1>13, <1>14, <1>15, <1>16, <1>17, <1>18, <1>19, <1>20, <1>21, <1>22,
     <1>23, <1>24, <1>25, <1>26, <1>27, <1>28, <1>29 DEF Acts, Arrival, Continue

-----------------------------------------------------------------------------
(* The inductive invariant.                                                  *)

QueueOK ==
  /\ at \in [Events -> Points]
  /\ IsQueue(pending)
  /\ \A e \in Events : at[e] \in RedisPoints <=> Waits(pending, e)

(* One vend at a time, from the button to its end: the machine asks about    *)
(* the next only when nothing is left of the last but its result.            *)
OneVend ==
  /\ machine \in Events \cup {NoEvent} /\ late \subseteq Events
  /\ \A e, f \in Events : at[e] \in VendPoints /\ at[f] \in VendPoints => e = f
  /\ \A e \in Events : machine = e <=> at[e] \in VendPoints /\ e \notin late
  /\ \A e \in late : at[e] \in {"authSession", "authLookup", "authFlag", "abandoned", "done"}

(* Redis answers in order: while a result waits for the session, the vend    *)
(* after it has not been looked up, let alone granted.                       *)
VendsInOrder ==
  \A e, f \in Events :
    at[e] = "resultSession" /\ at[f] \in VendPoints =>
      at[f] = "authSession" /\ Behind(pending, f, e)

(* So a result that found no session finds none marked by a later vend.      *)
ResultSeen ==
  \A e \in Events : at[e] = "resultSession" /\ ~ seen[e].live => ~ session.activevend

SessionInv == DataOK /\ QueueOK /\ OneVend /\ VendsInOrder /\ ResultSeen /\ FlagMeansVend

LEMMA MovesQueue ==
  ASSUME QueueOK, NEW e \in Events, NEW p \in Points, Moves(e, p)
  PROVE  /\ QueueOK'
         /\ at'[e] = p /\ \A f \in Events : f # e => at'[f] = at[f]
         /\ \A f, g \in Events \ {e} : Behind(pending, f, g) => Behind(pending', f, g)
         /\ at[e] \in RedisPoints => \A g : ~ Behind(pending, e, g)
         /\ p \in RedisPoints =>
              \A f \in Events \ {e} : at[f] \in RedisPoints => Behind(pending', e, f)
<1>1. /\ at' \in [Events -> Points] /\ at'[e] = p
      /\ \A f \in Events : f # e => at'[f] = at[f]
  BY DEF Moves, QueueOK
<1>2. PICK rest : /\ rest = IF at[e] \in RedisPoints THEN Tail(pending) ELSE pending
                  /\ pending' = IF p \in RedisPoints THEN Append(rest, e) ELSE rest
  BY DEF Moves
<1>3. /\ IsQueue(rest) /\ ~ Waits(rest, e)
      /\ \A f \in Events \ {e} : Waits(rest, f) <=> at[f] \in RedisPoints
      /\ \A f, g \in Events \ {e} : Behind(pending, f, g) => Behind(rest, f, g)
      /\ at[e] \in RedisPoints => \A g : ~ Behind(pending, e, g)
  <2>1. CASE at[e] \in RedisPoints
    <3>1. pending # <<>> /\ Head(pending) = e /\ rest = Tail(pending)
      BY <1>2, <2>1 DEF Moves
    <3> QED
      BY <2>1, <3>1, QueueHandled DEF QueueOK
  <2>2. CASE at[e] \notin RedisPoints
    BY <1>2, <2>2 DEF QueueOK
  <2> QED
    BY <2>1, <2>2
<1>4. CASE p \in RedisPoints
  <2>1. pending' = Append(rest, e)
    BY <1>2, <1>4
  <2>2. /\ IsQueue(pending')
        /\ \A f : Waits(pending', f) <=> Waits(rest, f) \/ f = e
        /\ \A f : Waits(rest, f) => Behind(pending', e, f)
        /\ \A f, g : Behind(rest, f, g) => Behind(pending', f, g)
    BY <1>3, <2>1, QueueJoined
  <2> QED
    BY <1>1, <1>3, <1>4, <2>2 DEF QueueOK
<1>5. CASE p \notin RedisPoints
  <2>1. pending' = rest
    BY <1>2, <1>5
  <2> QED
    BY <1>1, <1>3, <1>5, <2>1 DEF QueueOK
<1> QED
  BY <1>4, <1>5

LEMMA MovesOneVend ==
  ASSUME QueueOK, OneVend, NEW e \in Events, NEW p \in Points, Moves(e, p)
  PROVE  OneVend'
<1>1. at'[e] = p /\ \A f \in Events : f # e => at'[f] = at[f]
  BY MovesQueue
<1>2. VendEdge(at[e], p) /\ MachineMoves(e, at[e], p)
  BY DEF Moves
<1>3. machine' \in Events \cup {NoEvent} /\ late' = late
  BY <1>2 DEF OneVend, MachineMoves
<1>4. CASE at[e] \notin VendPoints
  <2>1. e \notin late
    <3>1. e \in late => at[e] \in {"abandoned", "done"}
      BY <1>4 DEF OneVend, VendPoints
    <3> QED
      BY <1>2, <3>1 DEF VendEdge
  <2>2. machine # e
    BY <1>4 DEF OneVend
  <2>3. CASE p = "authSession"
    <3>1. /\ machine = NoEvent /\ machine' = e /\ p \in VendPoints
          /\ \A f \in late : at[f] \notin VendPoints
      BY <1>2, <2>3 DEF MachineMoves, VendPoints
    <3>2. \A f \in Events : at[f] \notin VendPoints
      BY <3>1, NoEventAssumption DEF OneVend
    <3> QED
      BY <1>1, <1>3, <2>1, <3>1, <3>2 DEF OneVend
  <2>4. CASE p # "authSession"
    <3>1. p \notin VendPoints /\ machine' = machine
      BY <1>2, <1>4, <2>4 DEF VendEdge, MachineMoves, VendPoints
    <3> QED
      BY <1>1, <1>3, <1>4, <2>1, <3>1 DEF OneVend
  <2> QED
    BY <2>3, <2>4
<1>5. CASE at[e] \in VendPoints
  <2>1. \A f \in Events : f # e => at[f] \notin VendPoints /\ at'[f] \notin VendPoints /\ machine # f
    BY <1>1, <1>5 DEF OneVend
  <2>2. CASE p \in VendPoints
    <3>1. machine' = machine
      BY <1>2, <1>5, <2>2 DEF VendEdge, MachineMoves, VendPoints
    <3>2. e \in late => p \in {"authLookup", "authFlag"}
      BY <1>2, <1>5, <2>2 DEF OneVend, VendEdge, MachineMoves, VendPoints
    <3> QED
      BY <1>1, <1>3, <1>5, <2>1, <2>2, <3>1, <3>2 DEF OneVend
  <2>3. CASE p \notin VendPoints
    <3>1. machine' # e /\ \A f \in Events : f # e => machine' # f
      BY <1>2, <1>5, <2>1, <2>3, NoEventAssumption DEF OneVend, VendEdge, MachineMoves, VendPoints
    <3>2. e \in late => p \in {"abandoned", "done"}
      <4>1. e \in late => at[e] \in {"authSession", "authLookup", "authFlag", "abandoned", "done"}
        BY DEF OneVend
      <4> QED
        BY <1>2, <1>5, <2>3, <4>1 DEF VendEdge, VendPoints
    <3> QED
      BY <1>1, <1>3, <2>1, <2>3, <3>1, <3>2 DEF OneVend
  <2> QED
    BY <2>2, <2>3
<1> QED
  BY <1>4, <1>5

LEMMA MovesInOrder ==
  ASSUME QueueOK, OneVend, VendsInOrder, NEW e \in Events, NEW p \in Points, Moves(e, p)
  PROVE  VendsInOrder'
<1>1. /\ at'[e] = p /\ \A f \in Events : f # e => at'[f] = at[f]
      /\ \A f, g \in Events \ {e} : Behind(pending, f, g) => Behind(pending', f, g)
      /\ at[e] \in RedisPoints => \A g : ~ Behind(pending, e, g)
      /\ p \in RedisPoints =>
           \A f \in Events \ {e} : at[f] \in RedisPoints => Behind(pending', e, f)
  BY MovesQueue
<1>2. VendEdge(at[e], p)
  BY DEF Moves
<1> SUFFICES ASSUME NEW a \in Events, NEW b \in Events,
                    at'[a] = "resultSession", at'[b] \in VendPoints
             PROVE  at'[b] = "authSession" /\ Behind(pending', b, a)
  BY DEF VendsInOrder
<1>3. a # b
  BY DEF VendPoints
<1>4. CASE a = e
  <2>1. at[e] = "granted" /\ at[b] \in VendPoints
    BY <1>1, <1>2, <1>3, <1>4 DEF VendEdge, VendPoints
  <2> QED
    BY <1>3, <1>4, <2>1 DEF OneVend, VendPoints
<1>5. CASE b = e
  <2>1. at[a] = "resultSession" /\ p \in VendPoints
    BY <1>1, <1>3, <1>5
  <2>2. at[e] \notin VendPoints
    <3>1. at[e] \in VendPoints => at[e] = "authSession" /\ Behind(pending, e, a)
      BY <2>1 DEF VendsInOrder
    <3> QED
      BY <1>1, <3>1 DEF RedisPoints
  <2>3. p = "authSession"
    BY <1>2, <2>1, <2>2 DEF VendEdge, VendPoints
  <2> QED
    BY <1>1, <1>3, <1>5, <2>1, <2>3 DEF RedisPoints
<1>6. CASE a # e /\ b # e
  BY <1>1, <1>6 DEF VendsInOrder
<1> QED
  BY <1>4, <1>5, <1>6

LEMMA ActsResultSeen ==
  ASSUME SessionInv, NEW e \in Events, NEW p \in Points, Moves(e, p), SessionMoves(e)
  PROVE  ResultSeen'
<1>1. at'[e] = p /\ \A f \in Events : f # e => at'[f] = at[f]
  BY MovesQueue DEF SessionInv
<1> SUFFICES ASSUME NEW a \in Events, at'[a] = "resultSession", ~ seen'[a].live
             PROVE  ~ session'.activevend
  BY DEF ResultSeen
<1>2. CASE a = e
  <2>1. at[e] = "granted"
    BY <1>1, <1>2 DEF Moves, VendEdge, VendPoints
  <2>2. at' # [at EXCEPT ![e] = "lost"]
    BY <1>2 DEF SessionInv, QueueOK
  <2>3. session = Absent /\ session' = session
    BY <1>2, <2>1, <2>2 DEF SessionInv, DataOK, SessionMoves
  <2> QED
    BY <2>3 DEF Absent
<1>3. CASE a # e
  <2>1. at[a] = "resultSession" /\ seen'[a] = seen[a]
    BY <1>1, <1>3 DEF SessionMoves
  <2>2. at[e] # "authLookup"
    BY <2>1 DEF SessionInv, VendsInOrder, VendPoints
  <2> QED
    BY <2>1, <2>2 DEF SessionInv, ResultSeen, SessionMoves
<1> QED
  BY <1>2, <1>3

(* The mark is there for a vend, or goes with the step that ends it.         *)
LEMMA ActsFlagMeansVend ==
  ASSUME SessionInv, NEW e \in Events, NEW p \in Points, Moves(e, p), SessionMoves(e)
  PROVE  FlagMeansVend'
<1> DEFINE Marking == {"authFlag", "granted", "resultSession", "abandoned", "lost"}
<1>1. at'[e] = p /\ \A f \in Events : f # e => at'[f] = at[f]
  BY MovesQueue DEF SessionInv
<1>2. VendEdge(at[e], p)
  BY DEF Moves
<1> SUFFICES ASSUME session'.activevend
             PROVE  \E f \in Events : at'[f] \in Marking
  BY DEF FlagMeansVend
<1>3. CASE at' = [at EXCEPT ![e] = "authFlag"]
  <2>1. at'[e] = "authFlag"
    BY <1>3 DEF SessionInv, QueueOK
  <2> QED
    BY <2>1
<1>4. CASE session.activevend
  <2>1. PICK f \in Events : at[f] \in Marking
    BY <1>4 DEF SessionInv, FlagMeansVend
  <2>2. at[e] # "resultSession"
    BY <1>4 DEF SessionInv, ResultSeen, SessionMoves
  <2>3. CASE f = e
    <3>1. p \in Marking
      BY <1>2, <2>1, <2>2, <2>3 DEF VendEdge, VendPoints
    <3> QED
      BY <1>1, <3>1
  <2>4. CASE f # e
    BY <1>1, <2>1, <2>4
  <2> QED
    BY <2>3, <2>4
<1> QED
  BY <1>3, <1>4 DEF SessionMoves

-----------------------------------------------------------------------------
(* The commands to the acceptors.                                            *)

LineOK ==
  /\ plan \in Plans
  /\ busy \in BOOLEAN
  /\ calls \in SUBSET MdbRequests /\ toDevice \in Seq(MdbRequests)
  /\ enabled \in SUBSET Acceptors /\ missed \in SUBSET Acceptors

(* An event sends nothing, something that is no acceptor's business, or what *)
(* a login or a logout sends.                                                *)
Sends(e) ==
  /\ UNCHANGED <<plan, busy, toDevice, enabled>>
  /\ \/ UNCHANGED <<calls, missed, accepting>>
     \/ /\ UNCHANGED <<missed, accepting>>
        /\ \E commands \in {{"G"}, {"K2"}, {"K1", "P2"}} : Request(commands, e)
     \/ /\ accepting' = TRUE /\ Request(Enabling, e)
        /\ missed' = {a \in Acceptors : OnItsWay(Disable[a])}
     \/ /\ accepting' = FALSE /\ Request(Disabling, e)
        /\ missed' = {a \in Acceptors : OnItsWay(Enable[a])}

LEMMA ActsSend ==
  ASSUME NEW e \in Events, Acts(e)
  PROVE  Sends(e)
<1> USE DEF world, mdb, Sends
<1>1. CASE Arrival(e)
  BY <1>1 DEF Arrival, Login, Logout, Lever, Scan, Vdbauth, Coin, Bill
<1>2. CASE Vdbvend(e) \/ VdbvendLost(e) \/ BillStacked(e)
  BY <1>2 DEF Vdbvend, VdbvendLost, BillStacked
<1>3. CASE LoginDone(e)
  BY <1>3 DEF LoginDone
<1>4. CASE LogoutDecide(e)
  <2>1. CASE seen[e].activevend
    BY <1>4, <2>1 DEF LogoutDecide
  <2>2. CASE ~ seen[e].activevend
    BY <1>4, <2>2 DEF LogoutDecide
  <2> QED
    BY <2>1, <2>2
<1>5. CASE HandleCoinDeposit(e)
  <2>1. CASE seen[e].live
    BY <1>5, <2>1 DEF HandleCoinDeposit
  <2>2. CASE ~ seen[e].live
    BY <1>5, <2>2 DEF HandleCoinDeposit
  <2> QED
    BY <2>1, <2>2
<1>6. CASE HandleBillEscrow(e)
  <2>1. CASE seen[e].live
    BY <1>6, <2>1 DEF HandleBillEscrow
  <2>2. CASE ~ seen[e].live
    BY <1>6, <2>2 DEF HandleBillEscrow
  <2> QED
    BY <2>1, <2>2
<1>7. CASE LoginStore(e) \/ LeverSession(e) \/ LogoutRoles(e) \/ LogoutDone(e)
  BY <1>7 DEF LoginStore, LeverSession, LogoutRoles, LogoutDone
<1>8. CASE ScanSession(e) \/ ScanLookup(e) \/ BalanceTransactionUid(e) \/ Book(e)
             \/ HandleBillStack(e)
  BY <1>8 DEF ScanSession, ScanLookup, BalanceTransactionUid, Book, HandleBillStack
<1>9. CASE VdbauthSession(e) \/ VdbauthLookup(e) \/ VdbauthGrant(e)
             \/ VdbvendSession(e) \/ VdbvendFlag(e) \/ VdbvendLookup(e)
  BY <1>9 DEF VdbauthSession, VdbauthLookup, VdbauthGrant, VdbvendSession, VdbvendFlag,
              VdbvendLookup
<1> QED
  BY <1>1, <1>2, <1>3, <1>4, <1>5, <1>6, <1>7, <1>8, <1>9 DEF Acts, Continue

LEMMA Rest ==
  ASSUME (\E e \in Events : GiveUp(e)) \/ Expire \/ UNCHANGED vars
  PROVE  UNCHANGED <<plan, calls, busy, toDevice, enabled, missed, accepting>>
BY DEF GiveUp, Expire, vars, mdb

LEMMA CommandsOK ==
  ASSUME LineOK
  PROVE  /\ \A a \in Acceptors : Enable[a] \in MdbCommands /\ Disable[a] \in MdbCommands
         /\ \A a, b \in Acceptors : Enable[a] # Disable[b]
         /\ \A a, b \in Acceptors :
              a # b => Enable[a] # Enable[b] /\ Disable[a] # Disable[b]
         /\ \A a \in Acceptors : {Enable[a], Disable[a]} \cap {"G", "K1", "K2", "P2"} = {}
         /\ Enabling \subseteq MdbCommands /\ Disabling \subseteq MdbCommands
<1>1. Acceptors \subseteq {"coins", "bills"}
  BY PlansAssumption DEF LineOK, Acceptors
<1> QED
  BY <1>1 DEF Enable, Disable, MdbCommands, Enabling, Disabling

LEMMA LineStep == LineOK /\ [Next]_vars => LineOK'
<1> SUFFICES ASSUME LineOK, [Next]_vars PROVE LineOK'
  OBVIOUS
<1>1. ASSUME NEW e \in Events, Acts(e)
      PROVE  LineOK'
  <2>1. \A commands \in SUBSET MdbCommands : Request(commands, e) => calls' \subseteq MdbRequests
    BY DEF Request, LineOK, MdbRequests
  <2>2. {"G"} \subseteq MdbCommands /\ {"K2"} \subseteq MdbCommands
        /\ {"K1", "P2"} \subseteq MdbCommands
    BY DEF MdbCommands
  <2> QED
    BY <1>1, <2>1, <2>2, ActsSend, CommandsOK DEF Sends, LineOK, Acceptors
<1>2. ASSUME NEW r \in MdbRequests, MdbCommand(r)
      PROVE  LineOK'
  <2>1. calls' \subseteq MdbRequests /\ enabled' = enabled /\ missed' \subseteq Acceptors
        /\ plan' = plan
    BY <1>2 DEF MdbCommand, LineOK
  <2>2. busy' \in BOOLEAN /\ toDevice' \in Seq(MdbRequests)
    <3>1. CASE busy
      BY <1>2, <3>1 DEF MdbCommand, LineOK
    <3>2. CASE ~ busy
      BY <1>2, <3>2, AppendProperties DEF MdbCommand, LineOK
    <3> QED
      BY <3>1, <3>2
  <2> QED
    BY <2>1, <2>2 DEF LineOK, Acceptors
<1>3. CASE MdbAnswered
  BY <1>3 DEF MdbAnswered, LineOK, Acceptors
<1>4. CASE MdbDevice
  <2>1. toDevice' \in Seq(MdbRequests) /\ UNCHANGED <<plan, busy, calls>>
    BY <1>4, HeadTailProperties DEF MdbDevice, LineOK
  <2>2. enabled' \subseteq Acceptors /\ missed' \subseteq Acceptors
    BY <1>4 DEF MdbDevice, LineOK
  <2> QED
    BY <2>1, <2>2 DEF LineOK, Acceptors
<1>5. CASE (\E e \in Events : GiveUp(e)) \/ Expire \/ UNCHANGED vars
  BY <1>5, Rest DEF LineOK, Acceptors
<1> QED
  BY <1>1, <1>2, <1>3, <1>4, <1>5 DEF Next, Acts

LEMMA LineInvariant == Spec => []LineOK
<1>1. ASSUME Init PROVE LineOK
  <2>1. toDevice \in Seq(MdbRequests)
    BY <1>1, EmptySeq DEF Init
  <2>2. calls \in SUBSET MdbRequests /\ busy \in BOOLEAN
    BY <1>1 DEF Init
  <2>3. plan \in Plans /\ enabled \in SUBSET Acceptors /\ missed \in SUBSET Acceptors
    BY <1>1 DEF Init
  <2> QED
    BY <2>1, <2>2, <2>3 DEF LineOK
<1> QED
  BY <1>1, LineStep, PTL DEF Spec

-----------------------------------------------------------------------------
LEMMA SessionInit == Init => SessionInv
<1> SUFFICES ASSUME Init PROVE SessionInv
  OBVIOUS
<1>1. pending = <<>> /\ Len(pending) = 0 /\ IsQueue(pending)
  BY EmptySeq DEF Init, IsQueue
<1>2. \A e \in Events : at[e] = "idle"
  BY DEF Init
<1>3. DataOK /\ ~ session.activevend
  BY DEF Init, DataOK, Absent, Sessions
<1>4. QueueOK
  BY <1>1, <1>2 DEF Init, QueueOK, Waits, Points, RedisPoints
<1>5. OneVend
  BY <1>2, NoEventAssumption DEF Init, OneVend, VendPoints
<1> QED
  BY <1>2, <1>3, <1>4, <1>5 DEF SessionInv, VendsInOrder, ResultSeen, FlagMeansVend

LEMMA ActsKeepInv ==
  ASSUME SessionInv, NEW e \in Events, Acts(e)
  PROVE  SessionInv'
<1>1. DataOK' /\ SessionMoves(e)
  BY ActsKeepData DEF SessionInv
<1>2. PICK p \in Points : Moves(e, p)
  BY ArrivalMoves, ContinueMoves DEF Acts
<1>3. QueueOK'
  BY <1>2, MovesQueue DEF SessionInv
<1>4. OneVend' /\ VendsInOrder'
  BY <1>2, MovesOneVend, MovesInOrder DEF SessionInv
<1>5. ResultSeen' /\ FlagMeansVend'
  BY <1>1, <1>2, ActsResultSeen, ActsFlagMeansVend
<1> QED
  BY <1>1, <1>3, <1>4, <1>5 DEF SessionInv

LEMMA GiveUpKeepsInv ==
  ASSUME SessionInv, NEW e \in Events, GiveUp(e)
  PROVE  SessionInv'
<1>1. /\ machine = e /\ at[e] # "granted" /\ machine' = NoEvent /\ late' = late \cup {e}
      /\ UNCHANGED <<session, pending, at, kind, who, seen, accepting, mdb, vended, kept, booked>>
  BY DEF GiveUp, self
<1>2. at[e] \in {"authSession", "authLookup", "authFlag"}
  BY <1>1 DEF SessionInv, OneVend, VendPoints
<1>3. OneVend'
  BY <1>1, <1>2, NoEventAssumption DEF SessionInv, OneVend
<1> QED
  BY <1>1, <1>3
     DEF SessionInv, DataOK, QueueOK, IsQueue, Waits, VendsInOrder, Behind, ResultSeen, FlagMeansVend

LEMMA ExpireKeepsInv ==
  ASSUME SessionInv, Expire
  PROVE  SessionInv'
<1>1. session' = Absent /\ Absent \in Sessions /\ ~ Absent.activevend
      /\ UNCHANGED <<pending, at, kind, who, seen, machine, late, accepting, mdb, vended, kept, booked>>
  BY NobodyAssumption DEF Expire, Absent, Sessions
<1> QED
  BY <1>1 DEF SessionInv, DataOK, QueueOK, IsQueue, Waits, OneVend, VendsInOrder, Behind,
              ResultSeen, FlagMeansVend

(* What mdb_server and the device do leaves the events alone.                *)
LEMMA MdbKeeps ==
  ASSUME Mdb, LineOK
  PROVE  /\ UNCHANGED <<session, pending, at, kind, who, seen, machine, late, accepting,
                        vended, booked>>
         /\ kept \in SUBSET Events => kept' \in SUBSET Events
<1>1. CASE MdbDevice
  <2>1. Head(toDevice) \in MdbCommands \X Events
    BY <1>1, HeadTailProperties DEF MdbDevice, LineOK, MdbRequests
  <2>2. Head(toDevice)[2] \in Events
    BY <2>1
  <2> QED
    BY <1>1, <2>2 DEF MdbDevice
<1> QED
  BY <1>1 DEF Mdb, MdbCommand, MdbAnswered

LEMMA MdbKeepsInv ==
  ASSUME SessionInv, LineOK, Mdb
  PROVE  SessionInv'
BY MdbKeeps DEF SessionInv, DataOK, QueueOK, IsQueue, Waits, OneVend, VendsInOrder, Behind,
                ResultSeen, FlagMeansVend

LEMMA SessionStep == SessionInv /\ LineOK /\ [Next]_vars => SessionInv'
<1>1. ASSUME SessionInv, UNCHANGED vars
      PROVE  SessionInv'
  BY <1>1 DEF vars, SessionInv, DataOK, QueueOK, IsQueue, Waits, OneVend, VendsInOrder, Behind,
              ResultSeen, FlagMeansVend
<1> QED
  BY <1>1, ActsKeepInv, GiveUpKeepsInv, ExpireKeepsInv, MdbKeepsInv DEF Next, Acts, Mdb

LEMMA SessionInvariant == Spec => []SessionInv
BY SessionInit, SessionStep, LineInvariant, PTL DEF Spec

(* The variables keep their shapes; exactly the events that wait for redis   *)
(* are in the queue, and the machine is busy with the one vend that runs.    *)
THEOREM SessionTypeCorrect == Spec => []TypeOK
<1>1. SessionInv => DOMAIN pending = 1 .. Len(pending)
  BY LenProperties DEF SessionInv, QueueOK, IsQueue
<1>2. SessionInv /\ LineOK => TypeOK
  BY <1>1 DEF SessionInv, DataOK, QueueOK, IsQueue, Waits, OneVend, LineOK, TypeOK
<1> QED
  BY <1>2, SessionInvariant, LineInvariant, PTL

(* Nobody is locked in by a vend that is over: a session that refuses        *)
(* logouts belongs to a vend that is granted, runs or has just ended, or     *)
(* that the machine gave up on.                                              *)
THEOREM FlagsMeanVends == Spec => []FlagMeansVend
<1>1. SessionInv => FlagMeansVend
  BY DEF SessionInv
<1> QED
  BY <1>1, SessionInvariant, PTL

(* While a vend runs, what is still done for the one before it, or for a     *)
(* login, does not clear the flag that protects it.                          *)
THEOREM VendsKeepFlag == Spec => VendKeepsFlag
<1> DEFINE Kept == (\E e \in Events : at[e] \in {"authFlag", "granted"})
                     /\ session.activevend /\ ~session'.activevend => session' = Absent
<1>1. SessionInv /\ LineOK /\ [Next]_vars => [Kept]_vars
  <2> SUFFICES ASSUME SessionInv, LineOK, Next, session.activevend, ~ session'.activevend,
                      NEW f \in Events, at[f] \in {"authFlag", "granted"}
               PROVE  session' = Absent
    OBVIOUS
  <2>1. ASSUME NEW e \in Events, Acts(e)
        PROVE  session' = Absent
    <3>1. SessionMoves(e)
      BY <2>1, ActsKeepData DEF SessionInv
    <3>2. at[e] # "resultSession"
      BY DEF SessionInv, VendsInOrder, VendPoints
    <3> QED
      BY <3>1, <3>2 DEF SessionMoves
  <2> QED
    BY <2>1, MdbKeeps DEF Next, Acts, Mdb, GiveUp, Expire
<1> QED
  BY <1>1, SessionInvariant, LineInvariant, PTL DEF Spec, VendKeepsFlag

(* The last commands are those of a login while somebody is logged in.       *)
Commanded == session.uid \in Users => accepting \/ \E e \in Events : at[e] = "stored"

LEMMA CommandedStep == SessionInv /\ LineOK /\ Commanded /\ [Next]_vars => Commanded'
<1>2. ASSUME SessionInv, Commanded, NEW e \in Events, Acts(e)
      PROVE  Commanded'
  <2>1. PICK p \in Points : Moves(e, p)
    BY <1>2, ArrivalMoves, ContinueMoves DEF Acts
  <2>2. at'[e] = p /\ \A f \in Events : f # e => at'[f] = at[f]
    BY <1>2, <2>1, MovesQueue DEF SessionInv
  <2>3. at \in [Events -> Points] /\ SessionMoves(e)
    BY <1>2, ActsKeepData DEF SessionInv, QueueOK
  <2> SUFFICES ASSUME session'.uid \in Users
               PROVE  accepting' \/ \E f \in Events : at'[f] = "stored"
    BY DEF Commanded
  <2>4. CASE at' = [at EXCEPT ![e] = "stored"]
    <3>1. at'[e] = "stored"
      BY <2>3, <2>4
    <3> QED
      BY <3>1
  <2>5. CASE session.uid \in Users /\ (accepting \/ at[e] = "stored" => accepting')
    BY <1>2, <2>2, <2>5 DEF Commanded
  <2> QED
    BY <2>3, <2>4, <2>5 DEF SessionMoves
<1>3. ASSUME Commanded, Expire \/ UNCHANGED vars \/ \E e \in Events : GiveUp(e)
      PROVE  Commanded'
  <2>1. Absent.uid \notin Users
    BY NobodyAssumption DEF Absent
  <2> QED
    BY <1>3, <2>1 DEF Commanded, Expire, GiveUp, vars
<1>4. ASSUME Commanded, LineOK, Mdb
      PROVE  Commanded'
  BY <1>4, MdbKeeps DEF Commanded
<1> QED
  BY <1>2, <1>3, <1>4 DEF Next, Acts, Mdb

(* An acceptor that missed nothing does what was sent last or has it before  *)
(* it, and nothing that was sent earlier comes after that.                   *)
Revoked(a) == IF accepting THEN Disable[a] ELSE Enable[a]
Obeys(a) ==
  /\ UnderWay(a) \/ (a \in enabled <=> accepting)
  /\ ~ OnItsWay(Revoked(a))
  /\ \A i \in 1 .. Len(toDevice) :
       toDevice[i][1] = Revoked(a) =>
         \/ OnItsWay(Wanted(a))
         \/ \E j \in 1 .. Len(toDevice) : i < j /\ toDevice[j][1] = Wanted(a)
Obeyed == \A a \in Acceptors \ missed : Obeys(a)

LEMMA SentObeyed ==
  ASSUME LineOK, Obeyed, NEW e \in Events, Sends(e)
  PROVE  Obeyed'
<1>0. Acceptors' = Acceptors
  BY DEF Acceptors, Sends
<1> SUFFICES ASSUME NEW a \in Acceptors, a \notin missed' PROVE Obeys(a)'
  BY <1>0 DEF Obeyed
<1>1. toDevice' = toDevice /\ enabled' = enabled
  BY DEF Sends
<1>2. CASE UNCHANGED <<calls, missed, accepting>>
  BY <1>1, <1>2 DEF Obeyed, Obeys, UnderWay, OnItsWay, Wanted, Revoked
<1>3. CASE UNCHANGED <<missed, accepting>>
           /\ \E commands \in {{"G"}, {"K2"}, {"K1", "P2"}} : Request(commands, e)
  <2>1. \A c \in {Enable[a], Disable[a]} : OnItsWay(c)' <=> OnItsWay(c)
    BY <1>3, CommandsOK DEF Request, OnItsWay
  <2>2. Wanted(a)' = Wanted(a) /\ Revoked(a)' = Revoked(a)
        /\ Wanted(a) \in {Enable[a], Disable[a]} /\ Revoked(a) \in {Enable[a], Disable[a]}
    BY <1>3 DEF Wanted, Revoked
  <2>3. (OnItsWay(Wanted(a)))' <=> OnItsWay(Wanted(a))
    BY <2>1, <2>2 DEF OnItsWay
  <2>4. (OnItsWay(Revoked(a)))' <=> OnItsWay(Revoked(a))
    BY <2>1, <2>2 DEF OnItsWay
  <2> QED
    BY <1>1, <1>3, <2>2, <2>3, <2>4 DEF Obeyed, Obeys, UnderWay
<1>4. ASSUME NEW cs, NEW w, NEW v, Request(cs, e), w \in cs, v \notin cs, ~ OnItsWay(v),
             Wanted(a)' = w, Revoked(a)' = v
      PROVE  Obeys(a)'
  <2>1. <<w, e>> \in calls' /\ \A f \in Events : <<v, f>> \notin calls'
    BY <1>4 DEF Request, OnItsWay
  <2>2. (OnItsWay(Wanted(a)))' /\ ~ (OnItsWay(Revoked(a)))'
    BY <1>4, <2>1 DEF OnItsWay
  <2> QED
    BY <2>2 DEF Obeys, UnderWay
<1>5. CASE accepting' = TRUE /\ Request(Enabling, e)
           /\ missed' = {b \in Acceptors : OnItsWay(Disable[b])}
  <2>1. Enable[a] \in Enabling /\ Disable[a] \notin Enabling /\ ~ OnItsWay(Disable[a])
    BY <1>5, CommandsOK DEF Enabling
  <2>2. Wanted(a)' = Enable[a] /\ Revoked(a)' = Disable[a]
    BY <1>5 DEF Wanted, Revoked
  <2> QED
    BY <1>4, <1>5, <2>1, <2>2
<1>6. CASE accepting' = FALSE /\ Request(Disabling, e)
           /\ missed' = {b \in Acceptors : OnItsWay(Enable[b])}
  <2>1. Disable[a] \in Disabling /\ Enable[a] \notin Disabling /\ ~ OnItsWay(Enable[a])
    BY <1>6, CommandsOK DEF Disabling
  <2>2. Wanted(a)' = Disable[a] /\ Revoked(a)' = Enable[a]
    BY <1>6 DEF Wanted, Revoked
  <2> QED
    BY <1>4, <1>6, <2>1, <2>2
<1> QED
  BY <1>2, <1>3, <1>5, <1>6 DEF Sends

LEMMA StillObeyed ==
  ASSUME Obeyed, UNCHANGED <<plan, calls, toDevice, enabled, missed, accepting>>
  PROVE  Obeyed'
<1>0. Acceptors' = Acceptors
  BY DEF Acceptors
<1> SUFFICES ASSUME NEW a \in Acceptors, a \notin missed' PROVE Obeys(a)'
  BY <1>0 DEF Obeyed
<1>1. Wanted(a)' = Wanted(a) /\ Revoked(a)' = Revoked(a)
  BY DEF Wanted, Revoked
<1>2. (OnItsWay(Wanted(a)))' = OnItsWay(Wanted(a))
      /\ (OnItsWay(Revoked(a)))' = OnItsWay(Revoked(a))
  BY <1>1 DEF OnItsWay
<1> QED
  BY <1>1, <1>2 DEF Obeyed, Obeys, UnderWay

LEMMA CommandObeyed ==
  ASSUME LineOK, Obeyed, NEW r \in MdbRequests, MdbCommand(r)
  PROVE  Obeyed'
<1>0. Acceptors' = Acceptors
  BY DEF Acceptors, MdbCommand
<1> SUFFICES ASSUME NEW a \in Acceptors, a \notin missed' PROVE Obeys(a)'
  BY <1>0 DEF Obeyed
<1>1. /\ accepting' = accepting /\ enabled' = enabled /\ calls' = calls \ {r}
      /\ r \in calls /\ r = <<r[1], r[2]>> /\ r[2] \in Events
  BY DEF MdbCommand, MdbRequests
<1>2. Wanted(a)' = Wanted(a) /\ Revoked(a)' = Revoked(a)
  BY <1>1 DEF Wanted, Revoked
<1>3. Wanted(a) \in {Enable[a], Disable[a]} /\ Revoked(a) \in {Enable[a], Disable[a]}
      /\ Wanted(a) # Revoked(a)
  BY CommandsOK DEF Wanted, Revoked
<1>4. a \notin missed
  BY DEF MdbCommand
<1>5. Obeys(a)
  BY <1>4 DEF Obeyed
<1>6. ~ (OnItsWay(Revoked(a)))' /\ r[1] # Revoked(a)
  BY <1>1, <1>2, <1>5 DEF Obeys, OnItsWay
<1>7. r[1] # Wanted(a) => ((OnItsWay(Wanted(a)))' <=> OnItsWay(Wanted(a)))
  BY <1>1, <1>2 DEF OnItsWay
<1>8. CASE busy
  <2>1. r[1] \notin {Enable[a], Disable[a]} /\ toDevice' = toDevice
    BY <1>8 DEF MdbCommand
  <2> QED
    BY <1>1, <1>2, <1>3, <1>5, <1>6, <1>7, <2>1 DEF Obeys, UnderWay
<1>9. CASE ~ busy
  <2>1. /\ toDevice' \in Seq(MdbRequests) /\ Len(toDevice) \in Nat
        /\ Len(toDevice') = Len(toDevice) + 1
        /\ \A i \in 1 .. Len(toDevice) : toDevice'[i] = toDevice[i]
        /\ toDevice'[Len(toDevice) + 1] = r
    BY <1>9, AppendProperties, LenProperties DEF MdbCommand, LineOK
  <2>2. \A i \in 1 .. Len(toDevice') : i \in 1 .. Len(toDevice) \/ i = Len(toDevice) + 1
    BY <2>1
  <2>3. 1 .. Len(toDevice) \subseteq 1 .. Len(toDevice')
        /\ Len(toDevice) + 1 \in 1 .. Len(toDevice')
        /\ \A i \in 1 .. Len(toDevice) : i < Len(toDevice) + 1
    BY <2>1
  <2>4. CASE r[1] = Wanted(a)
    <3>1. UnderWay(a)'
      BY <1>2, <2>1, <2>3, <2>4 DEF UnderWay
    <3>2. \A i \in 1 .. Len(toDevice') : toDevice'[i][1] = Revoked(a) =>
            \E j \in 1 .. Len(toDevice') : i < j /\ toDevice'[j][1] = Wanted(a)
      BY <1>3, <2>1, <2>2, <2>3, <2>4
    <3> QED
      BY <1>2, <1>6, <3>1, <3>2 DEF Obeys
  <2>5. CASE r[1] # Wanted(a)
    <3>1. UnderWay(a) => UnderWay(a)'
      BY <1>2, <1>7, <2>1, <2>3, <2>5 DEF UnderWay
    <3>2. \A i \in 1 .. Len(toDevice') : toDevice'[i][1] = Revoked(a) =>
            i \in 1 .. Len(toDevice) /\ toDevice[i][1] = Revoked(a)
      BY <1>6, <2>1, <2>2
    <3>3. \A i \in 1 .. Len(toDevice') : toDevice'[i][1] = Revoked(a) =>
            OnItsWay(Wanted(a))
              \/ \E j \in 1 .. Len(toDevice') : i < j /\ toDevice'[j][1] = Wanted(a)
      BY <1>5, <2>1, <2>3, <3>2 DEF Obeys
    <3> QED
      BY <1>1, <1>2, <1>5, <1>6, <1>7, <2>5, <3>1, <3>3 DEF Obeys
  <2> QED
    BY <2>4, <2>5
<1> QED
  BY <1>8, <1>9

LEMMA DeviceObeyed ==
  ASSUME LineOK, Obeyed, MdbDevice
  PROVE  Obeyed'
<1>0. Acceptors' = Acceptors
  BY DEF Acceptors, MdbDevice
<1> SUFFICES ASSUME NEW a \in Acceptors, a \notin missed' PROVE Obeys(a)'
  BY <1>0 DEF Obeyed
<1> DEFINE c == Head(toDevice)[1]
<1>1. /\ accepting' = accepting /\ calls' = calls /\ a \notin missed
      /\ toDevice # <<>> /\ toDevice' = Tail(toDevice)
  BY DEF MdbDevice
<1>2. /\ toDevice' \in Seq(MdbRequests) /\ Len(toDevice) \in Nat /\ Len(toDevice) > 0
      /\ Len(toDevice') = Len(toDevice) - 1 /\ c = toDevice[1][1]
      /\ \A i \in 1 .. Len(toDevice') : toDevice'[i] = toDevice[i + 1]
  BY <1>1, HeadTailProperties, LenProperties, EmptySeq DEF LineOK
<1>3. c \in {Enable[a], Disable[a]} =>
        enabled' = (enabled \cup {b \in Acceptors : Enable[b] = c})
                     \ {b \in Acceptors : Disable[b] = c}
  BY DEF MdbDevice
<1>4. c \notin {Enable[a], Disable[a]} => (a \in enabled' <=> a \in enabled)
  BY DEF MdbDevice
<1> HIDE DEF c
<1>5. Wanted(a)' = Wanted(a) /\ Revoked(a)' = Revoked(a)
      /\ (OnItsWay(Wanted(a)))' = OnItsWay(Wanted(a))
      /\ (OnItsWay(Revoked(a)))' = OnItsWay(Revoked(a))
  BY <1>1 DEF Wanted, Revoked, OnItsWay
<1>6. Wanted(a) \in {Enable[a], Disable[a]} /\ Revoked(a) \in {Enable[a], Disable[a]}
      /\ Wanted(a) # Revoked(a) /\ Enable[a] # Disable[a]
  BY CommandsOK DEF Wanted, Revoked
<1>7. Obeys(a)
  BY <1>1 DEF Obeyed
<1>8. \A i \in 1 .. Len(toDevice) : i # 1 =>
        i - 1 \in 1 .. Len(toDevice') /\ toDevice'[i - 1] = toDevice[i]
  BY <1>2
<1>9. \A i \in 1 .. Len(toDevice') :
        i + 1 \in 1 .. Len(toDevice) /\ i + 1 # 1 /\ (i + 1) - 1 = i
  BY <1>2
<1>10. \A i \in 1 .. Len(toDevice') : toDevice'[i][1] = Revoked(a) =>
         OnItsWay(Wanted(a))
           \/ \E j \in 1 .. Len(toDevice') : i < j /\ toDevice'[j][1] = Wanted(a)
  <2> SUFFICES ASSUME NEW i \in 1 .. Len(toDevice'), toDevice'[i][1] = Revoked(a),
                      ~ OnItsWay(Wanted(a))
               PROVE  \E j \in 1 .. Len(toDevice') : i < j /\ toDevice'[j][1] = Wanted(a)
    OBVIOUS
  <2>1. PICK j \in 1 .. Len(toDevice) : i + 1 < j /\ toDevice[j][1] = Wanted(a)
    BY <1>2, <1>7, <1>9 DEF Obeys
  <2>2. j # 1 /\ i < j - 1
    BY <2>1
  <2> QED
    BY <1>8, <2>1, <2>2
<1>11. (UnderWay(a) \/ (a \in enabled <=> accepting))'
  <2>1. CASE c = Wanted(a)
    <3>1. a \in enabled' <=> accepting
      BY <1>3, <1>6, <2>1 DEF Wanted
    <3> QED
      BY <1>1, <3>1
  <2>2. CASE c = Revoked(a)
    <3>1. 1 \in 1 .. Len(toDevice)
      BY <1>2
    <3>2. CASE OnItsWay(Wanted(a))
      BY <1>5, <3>2 DEF UnderWay
    <3>3. CASE ~ OnItsWay(Wanted(a))
      <4>1. PICK j \in 1 .. Len(toDevice) : 1 < j /\ toDevice[j][1] = Wanted(a)
        BY <1>2, <1>7, <2>2, <3>1, <3>3 DEF Obeys
      <4> QED
        BY <1>5, <1>8, <4>1 DEF UnderWay
    <3> QED
      BY <3>2, <3>3
  <2>3. CASE c # Wanted(a) /\ c # Revoked(a)
    <3>1. a \in enabled' <=> a \in enabled
      BY <1>4, <2>3 DEF Wanted, Revoked
    <3>2. UnderWay(a) => UnderWay(a)'
      BY <1>2, <1>5, <1>8, <2>3 DEF UnderWay
    <3> QED
      BY <1>1, <1>7, <3>1, <3>2 DEF Obeys
  <2> QED
    BY <2>1, <2>2, <2>3
<1> QED
  BY <1>5, <1>7, <1>10, <1>11 DEF Obeys

(* Whatever logins and logouts overlap, a user who is logged in was the last *)
(* to have commands sent, or is about to; and an acceptor does in the end    *)
(* what was sent last, unless a busy line, the device or another order of    *)
(* the requests made it miss that.                                           *)
THEOREM AcceptorsDoFollow == Spec => []AcceptorsFollow
<1>1. Init => Commanded /\ Obeyed
  <2> SUFFICES ASSUME Init PROVE Commanded /\ Obeyed
    OBVIOUS
  <2>1. Commanded
    BY NobodyAssumption DEF Init, Absent, Commanded
  <2>2. Len(toDevice) = 0 /\ \A a \in Acceptors \ missed : a \notin enabled /\ ~ accepting
    BY EmptySeq DEF Init
  <2>3. calls = {}
    BY DEF Init
  <2>4. Obeyed
    BY <2>2, <2>3 DEF Obeyed, Obeys, OnItsWay
  <2> QED
    BY <2>1, <2>4
<1>2. ASSUME LineOK, Obeyed, [Next]_vars
      PROVE  Obeyed'
  <2>1. CASE UNCHANGED <<plan, calls, toDevice, enabled, missed, accepting>>
    BY <1>2, <2>1, StillObeyed
  <2>2. MdbAnswered => UNCHANGED <<plan, calls, toDevice, enabled, missed, accepting>>
    BY DEF MdbAnswered
  <2> QED
    BY <1>2, <2>1, <2>2, Rest, ActsSend, SentObeyed, CommandObeyed, DeviceObeyed DEF Next, Acts
<1>3. Commanded /\ Obeyed => AcceptorsFollow
  BY DEF Commanded, Obeyed, Obeys, AcceptorsFollow
<1> QED
  BY <1>1, <1>2, <1>3, CommandedStep, SessionInvariant, LineInvariant, PTL DEF Spec
=============================================================================
