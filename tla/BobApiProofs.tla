---------------------------- MODULE BobApiProofs ----------------------------
(* Theorems about the requests of BobApi, whatever the watchers of the table *)
(* do: which of their writes are committed, what becomes of a charged card,  *)
(* and how their rows are dated; about the watchers, however late they are:  *)
(* what they announce of the debtors, of the kegs and of the cash box; and   *)
(* about the pages of the dashboard.                                         *)
EXTENDS Watchers, Sums, TLAPS

-----------------------------------------------------------------------------
(* Types.                                                                    *)

Leaves == {"look", "refused", "stats"}
AllCodes == Barcodes \cup {NoCode}
Points(kind) ==
  {"new", "end"} \cup
  CASE kind = "deposit" -> {"look", "charge", "userid", "update", "insert", "commit"}
    [] kind = "buy" -> {"look", "insert", "update", "commit"}
    [] OTHER -> {}
AllPoints == {"new", "look", "charge", "userid", "update", "insert", "commit", "end"}
AllAnswers == {"none", "success", "invalid", "declined", "unknown", "error", "crash", "killed"}
Writes == [what : Both, user : Users, value : Int, code : AllCodes, by : Requests]
Conns == [up : BOOLEAN, began : Nat \cup {Never}, writes : Seq(Writes), left : SUBSET Leaves]
Reqs == [pc : AllPoints, answer : AllAnswers, value : Int, code : AllCodes]
Pasts == [asked : Nat, kept : SUBSET Both, cut : BOOLEAN, late : SUBSET Leaves,
          charged : BOOLEAN, worth : Int]

ApiTypeOK ==
  /\ now \in Nat /\ plan \in AllPlans
  /\ conn \in [Procs -> Conns]
  /\ req \in [Requests -> Reqs]
  /\ past \in [Requests -> Pasts]
  /\ \A r \in Requests : Job(r) # NoJob => req[r].pc \in Points(Job(r).kind)
  /\ \A r \in Requests : Job(r) # NoJob /\ Job(r).kind = "buy" => req[r].code \in Barcodes

LEMMA JobFacts ==
  ASSUME ApiTypeOK, NEW r \in Requests, Job(r) # NoJob
  PROVE  /\ Proc(r) \in Procs /\ Job(r).user \in Users
         /\ Job(r).kind \in {"deposit", "buy", "login", "renew", "stats", "look"}
         /\ Job(r).kind = "deposit" => Job(r).credit \in Nat
         /\ Conn(r) \in Conns /\ req[r] \in Reqs /\ past[r] \in Pasts
         /\ req[r].pc \in Points(Job(r).kind)
         /\ Job(r).kind = "buy" => req[r].code \in Barcodes
<1>1. Job(r) \in Jobs
  BY DEF ApiTypeOK, AllPlans, Job
<1>2. /\ Proc(r) \in Procs /\ Job(r).user \in Users
      /\ Job(r).kind \in {"deposit", "buy", "login", "renew", "stats", "look"}
      /\ Job(r).kind = "deposit" => Job(r).credit \in Nat
  BY <1>1 DEF Jobs, Proc
<1> QED
  BY <1>2 DEF ApiTypeOK, Conn

(* What the connection becomes.                                              *)
LEMMA ConnFacts ==
  ASSUME NEW c \in Conns, now \in Nat
  PROVE  /\ Opened(c) \in Conns /\ Opened(c).up = c.up /\ Opened(c).writes = c.writes
         /\ Opened(c).left = c.left /\ Opened(c).began = IF c.began = Never THEN now ELSE c.began
         /\ Opened(c).began # Never
         /\ Closed(c) \in Conns /\ Closed(c).up = c.up /\ Closed(c).writes = <<>>
         /\ Closed(c).left = {} /\ Closed(c).began = Never
<1>1. Never \notin Nat /\ Opened(c) \in Conns /\ Opened(c).began # Never
  BY DEF Conns, Opened, Never
<1>2. <<>> \in Seq(Writes)
  OBVIOUS
<1> QED
  BY <1>1, <1>2 DEF Conns, Opened, Closed

LEMMA LeftOpenFacts ==
  ASSUME ApiTypeOK, NEW r \in Requests, Job(r) # NoJob, NEW by \in Leaves
  PROVE  /\ LeftOpen(r, by) \in Conns /\ LeftOpen(r, by).up = Conn(r).up
         /\ LeftOpen(r, by).writes = Conn(r).writes /\ LeftOpen(r, by).left = Conn(r).left \cup {by}
         /\ LeftOpen(r, by).began # Never
<1>1. Conn(r) \in Conns /\ now \in Nat
  BY JobFacts DEF ApiTypeOK
<1>2. Opened(Conn(r)) \in Conns /\ Opened(Conn(r)).up = Conn(r).up
      /\ Opened(Conn(r)).writes = Conn(r).writes /\ Opened(Conn(r)).left = Conn(r).left
      /\ Opened(Conn(r)).began # Never
  BY <1>1, ConnFacts
<1> HIDE DEF Conn
<1> QED
  BY <1>2 DEF LeftOpen, Conns

LEMMA WriteFacts ==
  ASSUME ApiTypeOK, NEW r \in Requests, Job(r) # NoJob, NEW what \in Both, NEW value \in Int
  PROVE  LET c == Write(r, what, value)
             w == Conn(r).writes
         IN  /\ c \in Conns /\ c.up = Conn(r).up /\ c.left = Conn(r).left
             /\ c.began = IF Conn(r).began = Never THEN now ELSE Conn(r).began
             /\ Len(w) \in Nat /\ Len(c.writes) = Len(w) + 1
             /\ \A n \in 1 .. Len(w) : c.writes[n] = w[n]
             /\ c.writes[Len(w) + 1].by = r /\ c.writes[Len(w) + 1].what = what
<1> DEFINE o == Opened(Conn(r))
           x == [what |-> what, user |-> Job(r).user, value |-> value, code |-> req[r].code, by |-> r]
<1>1. Conn(r) \in Conns /\ now \in Nat /\ req[r] \in Reqs /\ Job(r).user \in Users
  BY JobFacts DEF ApiTypeOK
<1>2. /\ o \in Conns /\ o.up = Conn(r).up /\ o.writes = Conn(r).writes /\ o.left = Conn(r).left
      /\ o.began = IF Conn(r).began = Never THEN now ELSE Conn(r).began
  BY <1>1, ConnFacts
<1>3. x \in Writes /\ x.by = r /\ x.what = what
  BY <1>1 DEF Writes, Reqs
<1>4. Write(r, what, value) = [o EXCEPT !.writes = Append(@, x)]
  BY DEF Write
<1> HIDE DEF o, x, Conn
<1>5. o.writes \in Seq(Writes)
  BY <1>2 DEF Conns
<1>6. /\ Append(o.writes, x) \in Seq(Writes) /\ Len(o.writes) \in Nat
      /\ Len(Append(o.writes, x)) = Len(o.writes) + 1
      /\ \A n \in 1 .. Len(o.writes) : Append(o.writes, x)[n] = o.writes[n]
      /\ Append(o.writes, x)[Len(o.writes) + 1] = x
  BY <1>3, <1>5, AppendProperties, LenProperties
<1>7. Write(r, what, value) \in Conns /\ Write(r, what, value).up = o.up
      /\ Write(r, what, value).left = o.left /\ Write(r, what, value).began = o.began
      /\ Write(r, what, value).writes = Append(o.writes, x)
  BY <1>2, <1>4, <1>6 DEF Conns
<1> QED
  BY <1>2, <1>3, <1>6, <1>7

LEMMA GoesFacts ==
  ASSUME ApiTypeOK, NEW r \in Requests, Job(r) # NoJob, NEW pc \in Points(Job(r).kind), Goes(r, pc)
  PROVE  /\ req' \in [Requests -> Reqs] /\ \A s \in Requests \ {r} : req'[s] = req[s]
         /\ req'[r].pc = pc /\ req'[r].answer = req[r].answer /\ req'[r].code = req[r].code
         /\ req'[r].value = req[r].value
<1>1. pc \in AllPoints
  BY DEF Points, AllPoints
<1> QED
  BY <1>1 DEF Goes, ApiTypeOK, Reqs

LEMMA AnswersFacts ==
  ASSUME ApiTypeOK, NEW r \in Requests, NEW answer \in AllAnswers, Answers(r, answer)
  PROVE  /\ req' \in [Requests -> Reqs] /\ \A s \in Requests \ {r} : req'[s] = req[s]
         /\ req'[r].pc = "end" /\ req'[r].answer = answer /\ req'[r].code = req[r].code
BY DEF Answers, ApiTypeOK, Reqs, AllPoints

LEMMA UsingFacts ==
  ASSUME ApiTypeOK, NEW r \in Requests, Job(r) # NoJob, NEW c \in Conns, Using(r, c)
  PROVE  /\ conn' \in [Procs -> Conns] /\ conn'[Proc(r)] = c
         /\ \A p \in Procs \ {Proc(r)} : conn'[p] = conn[p]
BY JobFacts DEF Using, ApiTypeOK

-----------------------------------------------------------------------------
(* What a request has written that is not committed yet, and what it should  *)
(* have written, by the point where it is.                                   *)

IsRunning(r) == req[r].pc \notin {"new", "end"}
Written(r) ==
  {x \in Both : \E n \in 1 .. Len(Conn(r).writes) :
     Conn(r).writes[n].by = r /\ Conn(r).writes[n].what = x}
Due(r) ==
  IF req[r].pc = "commit" THEN Both
  ELSE IF Job(r).kind = "deposit" /\ req[r].pc = "insert" THEN {"balance"}
  ELSE IF Job(r).kind = "buy" /\ req[r].pc = "update" THEN {"row"} ELSE {}

(* A connection that is gone holds nothing, and nothing is written before a  *)
(* transaction begins; every write is of a request that its process serves.  *)
Gone ==
  \A p \in Procs :
    /\ ~ conn[p].up => conn[p].began = Never
    /\ conn[p].began = Never => conn[p].writes = <<>>
ByOwn ==
  \A p \in Procs : \A n \in 1 .. Len(conn[p].writes) :
    Job(conn[p].writes[n].by) # NoJob /\ Proc(conn[p].writes[n].by) = p

-----------------------------------------------------------------------------
(* The steps of a request: those that write nothing, ...                     *)

Excused == {"look", "refused"}

ReqMoves(r) ==
  /\ req' \in [Requests -> Reqs] /\ \A s \in Requests \ {r} : req'[s] = req[s]
  /\ req[r].pc # "end" /\ req'[r].pc \in Points(Job(r).kind) \ {"new"}
  /\ req[r].pc = "new" /\ req'[r].pc # "end" => MayRun(r)
  /\ req'[r].code = req[r].code \/ req'[r].code \in Barcodes
PastKeeps(r) ==
  /\ past' \in [Requests -> Pasts] /\ \A s \in Requests \ {r} : past'[s] = past[s]
  /\ past'[r].kept = past[r].kept /\ past'[r].cut = past[r].cut /\ past'[r].late = past[r].late
  /\ past'[r].asked = past[r].asked \/ (req[r].pc = "new" /\ past'[r].asked = now)
ConnMoves(r) ==
  /\ conn' \in [Procs -> Conns] /\ \A p \in Procs \ {Proc(r)} : conn'[p] = conn[p]
  /\ conn'[Proc(r)].up = Conn(r).up

(* What the step leaves open began in this request, or is excused.           *)
Dated(r) ==
  LET c == conn'[Proc(r)] IN
  \/ c.began = Never /\ Conn(r).began = Never
  \/ c.began # Never /\ c.left \cap Excused # {}
  \/ req'[r].pc # "end" /\ c.began = now
  \/ (req'[r].pc # "end" \/ req[r].pc = "new") /\ c.began = Conn(r).began /\ c.left = Conn(r).left

Local(r) ==
  /\ ReqMoves(r) /\ PastKeeps(r) /\ ConnMoves(r) /\ Dated(r)
  /\ UNCHANGED <<now, xacts, plan, names>>

Quiet(r) ==
  /\ Local(r)
  /\ conn'[Proc(r)].writes = Conn(r).writes
  /\ Conn(r).up \/ conn'[Proc(r)].began = Conn(r).began
  /\ Due(r)' = {} /\ (Due(r) = {} \/ ~ Conn(r).up)
  /\ req'[r].pc = "end" /\ Job(r).kind \in {"deposit", "buy"} => req'[r].answer # "success"
  /\ \/ req'[r].pc \in {"end", "look"}
     \/ Conn(r).up
     \/ req[r].pc \notin {"new", "look"}

LEMMA LocalTyped ==
  ASSUME ApiTypeOK, NEW r \in Requests, Job(r) # NoJob, ReqMoves(r),
         conn' \in [Procs -> Conns], past' \in [Requests -> Pasts], UNCHANGED plan, now' \in Nat
  PROVE  ApiTypeOK'
BY DEF ApiTypeOK, Job, ReqMoves

LEMMA GoesMoves ==
  ASSUME ApiTypeOK, NEW r \in Requests, Job(r) # NoJob, req[r].pc # "end",
         req[r].pc = "new" => MayRun(r),
         NEW pc \in Points(Job(r).kind) \ {"new"}, Goes(r, pc)
  PROVE  ReqMoves(r) /\ req'[r].pc = pc /\ req'[r].code = req[r].code
BY GoesFacts DEF ReqMoves

LEMMA AnswersMoves ==
  ASSUME ApiTypeOK, NEW r \in Requests, Job(r) # NoJob, req[r].pc # "end",
         NEW answer \in AllAnswers, Answers(r, answer)
  PROVE  ReqMoves(r) /\ req'[r].pc = "end" /\ req'[r].answer = answer
BY AnswersFacts DEF ReqMoves, Points

LEMMA PastSame ==
  ASSUME ApiTypeOK, NEW r \in Requests, UNCHANGED past
  PROVE  PastKeeps(r)
BY DEF PastKeeps, ApiTypeOK

LEMMA PastAsked ==
  ASSUME ApiTypeOK, NEW r \in Requests, req[r].pc = "new", past' = [past EXCEPT ![r].asked = now]
  PROVE  PastKeeps(r)
BY DEF PastKeeps, ApiTypeOK, Pasts

LEMMA ConnSame ==
  ASSUME ApiTypeOK, NEW r \in Requests, Job(r) # NoJob, UNCHANGED conn
  PROVE  ConnMoves(r) /\ conn'[Proc(r)] = Conn(r)
BY DEF ConnMoves, ApiTypeOK, Conn

LEMMA ConnUsing ==
  ASSUME ApiTypeOK, NEW r \in Requests, Job(r) # NoJob, NEW c \in Conns, c.up = Conn(r).up, Using(r, c)
  PROVE  ConnMoves(r) /\ conn'[Proc(r)] = c
BY UsingFacts DEF ConnMoves

LEMMA ConnLeftOpen ==
  ASSUME ApiTypeOK, NEW r \in Requests, Job(r) # NoJob, NEW by \in Excused, Using(r, LeftOpen(r, by))
  PROVE  /\ ConnMoves(r) /\ conn'[Proc(r)].writes = Conn(r).writes
         /\ conn'[Proc(r)].left \cap Excused # {} /\ conn'[Proc(r)].began # Never
<1>1. by \in Leaves
  BY DEF Leaves, Excused
<1> QED
  BY <1>1, LeftOpenFacts, ConnUsing

LEMMA ConnOpened ==
  ASSUME ApiTypeOK, NEW r \in Requests, Job(r) # NoJob, Using(r, Opened(Conn(r)))
  PROVE  /\ ConnMoves(r) /\ conn'[Proc(r)].writes = Conn(r).writes
         /\ conn'[Proc(r)].left = Conn(r).left
         /\ conn'[Proc(r)].began \in {now, Conn(r).began}
<1>1. Conn(r) \in Conns /\ now \in Nat
  BY JobFacts DEF ApiTypeOK
<1> QED
  BY <1>1, ConnFacts, ConnUsing

LEMMA QuietDeposits ==
  ASSUME ApiTypeOK, Gone, NEW r \in Requests, Job(r) # NoJob,
         BeginDeposit(r) \/ LookDeposit(r) \/ Charge(r) \/ GetUserid(r)
  PROVE  Quiet(r)
<1>0. Job(r).kind = "deposit"
  <2>1. req[r].pc \in Points(Job(r).kind)
    BY JobFacts
  <2> QED
    BY <2>1 DEF BeginDeposit, LookDeposit, Charge, GetUserid, At, Points
<1>1. /\ {"look", "charge", "userid", "update"} \subseteq Points(Job(r).kind) \ {"new"}
      /\ {"invalid", "declined", "unknown", "crash"} \subseteq AllAnswers /\ "refused" \in Excused
  BY <1>0 DEF Points, AllAnswers, Excused
<1> USE DEF At, Keep, bank
<1>2. CASE BeginDeposit(r)
  <2>1. PastKeeps(r) /\ ConnMoves(r) /\ conn'[Proc(r)] = Conn(r)
    BY <1>2, PastAsked, ConnSame DEF BeginDeposit, Begin
  <2>2. /\ ReqMoves(r)
        /\ req'[r].pc = "look" \/ (req'[r].pc = "end" /\ req'[r].answer = "invalid")
    BY <1>1, <1>2, GoesMoves, AnswersMoves DEF BeginDeposit, Begin
  <2> QED
    BY <1>2, <2>1, <2>2 DEF BeginDeposit, Begin, Quiet, Local, Dated, Due
<1>3. CASE LookDeposit(r)
  <2>1. PastKeeps(r)
    BY <1>3, PastSame DEF LookDeposit
  <2>2. CASE Goes(r, "charge") /\ Using(r, Opened(Conn(r)))
    <3>1. ReqMoves(r) /\ req'[r].pc = "charge"
      BY <1>1, <1>3, <2>2, GoesMoves DEF LookDeposit
    <3> QED
      BY <1>3, <2>1, <2>2, <3>1, ConnOpened DEF LookDeposit, Quiet, Local, Dated, Due
  <2>3. CASE Answers(r, "invalid") /\ Using(r, LeftOpen(r, "refused"))
    <3>1. ReqMoves(r) /\ req'[r].pc = "end" /\ req'[r].answer = "invalid"
      BY <1>1, <1>3, <2>3, AnswersMoves DEF LookDeposit
    <3> QED
      BY <1>1, <1>3, <2>1, <2>3, <3>1, ConnLeftOpen DEF LookDeposit, Quiet, Local, Dated, Due
  <2> QED
    BY <1>3, <2>2, <2>3 DEF LookDeposit
<1>4. CASE Charge(r)
  <2>0. PICK taken \in BOOLEAN :
          /\ past' = [past EXCEPT ![r].charged = taken]
          /\ \/ Goes(r, "userid") /\ UNCHANGED conn
             \/ \E answer \in {"unknown", "declined"} :
                  /\ Answers(r, answer)
                  /\ Using(r, IF Conn(r).began = Never THEN Conn(r) ELSE LeftOpen(r, "refused"))
    BY <1>4 DEF Charge
  <2>3. PastKeeps(r)
    BY <2>0 DEF PastKeeps, ApiTypeOK, Pasts
  <2>1. CASE Goes(r, "userid") /\ UNCHANGED conn
    <3>1. PastKeeps(r) /\ ConnMoves(r) /\ conn'[Proc(r)] = Conn(r)
      BY <2>1, <2>3, ConnSame
    <3>2. ReqMoves(r) /\ req'[r].pc = "userid"
      BY <1>1, <1>4, <2>1, GoesMoves DEF Charge
    <3> QED
      BY <1>4, <2>1, <3>1, <3>2 DEF Charge, Quiet, Local, Dated, Due
  <2>2. ASSUME NEW answer \in {"unknown", "declined"}, Answers(r, answer),
               Using(r, IF Conn(r).began = Never THEN Conn(r) ELSE LeftOpen(r, "refused"))
        PROVE  Quiet(r)
    <3>1. ReqMoves(r) /\ req'[r].pc = "end" /\ req'[r].answer = answer /\ PastKeeps(r)
      BY <1>1, <1>4, <2>2, <2>3, AnswersMoves DEF Charge
    <3>2. /\ ConnMoves(r) /\ conn'[Proc(r)].writes = Conn(r).writes
          /\ \/ conn'[Proc(r)].began = Never /\ Conn(r).began = Never
             \/ conn'[Proc(r)].began # Never /\ conn'[Proc(r)].left \cap Excused # {}
          /\ Conn(r).up \/ conn'[Proc(r)].began = Conn(r).began
      <4>1. Conn(r) \in Conns /\ (~ Conn(r).up => Conn(r).began = Never)
        BY JobFacts DEF Gone, Conn
      <4> QED
        BY <1>1, <2>2, <4>1, ConnUsing, ConnLeftOpen
    <3> QED
      BY <1>4, <2>2, <3>1, <3>2 DEF Charge, Quiet, Local, Dated, Due
  <2> QED
    BY <2>0, <2>1, <2>2
<1>5. CASE GetUserid(r)
  <2>1. PastKeeps(r)
    BY <1>5, PastSame DEF GetUserid
  <2>2. CASE Goes(r, "update") /\ Using(r, Opened(Conn(r)))
    <3>1. ReqMoves(r) /\ req'[r].pc = "update"
      BY <1>1, <1>5, <2>2, GoesMoves DEF GetUserid
    <3> QED
      <4>1. Job(r)' = Job(r)
        BY <1>5 DEF GetUserid, Job
      <4> QED
        BY <1>0, <1>5, <2>1, <2>2, <3>1, <4>1, ConnOpened DEF GetUserid, Quiet, Local, Dated, Due
  <2>3. CASE Answers(r, "crash") /\ Using(r, LeftOpen(r, "refused"))
    <3>1. ReqMoves(r) /\ req'[r].pc = "end" /\ req'[r].answer = "crash"
      BY <1>1, <1>5, <2>3, AnswersMoves DEF GetUserid
    <3> QED
      BY <1>1, <1>5, <2>1, <2>3, <3>1, ConnLeftOpen DEF GetUserid, Quiet, Local, Dated, Due
  <2> QED
    BY <1>5, <2>2, <2>3 DEF GetUserid
<1> QED
  BY <1>2, <1>3, <1>4, <1>5

LEMMA RefuseMoves ==
  ASSUME ApiTypeOK, NEW r \in Requests, Job(r) # NoJob, Job(r).kind = "buy",
         req[r].pc \in {"look", "insert"}, Refuse(r)
  PROVE  ReqMoves(r) /\ (req'[r].pc = "look" \/ (req'[r].pc = "end" /\ req'[r].answer = "error"))
<1>1. "look" \in Points(Job(r).kind) \ {"new"} /\ "error" \in AllAnswers
  BY DEF Points, AllAnswers
<1>2. req[r] \in Reqs /\ req[r].code \in Barcodes /\ ShorterOf \in [Barcodes -> Barcodes \cup {NoCode}]
  BY JobFacts, ApiConstants
<1>3. CASE ShorterOf[req[r].code] = NoCode
  BY <1>1, <1>3, AnswersMoves DEF Refuse
<1>4. CASE ShorterOf[req[r].code] # NoCode
  <2> DEFINE q == [req[r] EXCEPT !.pc = "look", !.code = ShorterOf[@]]
  <2>1. req' = [req EXCEPT ![r] = q]
    BY <1>4 DEF Refuse, ApiTypeOK
  <2>2. q \in Reqs /\ q.pc = "look" /\ q.code \in Barcodes
    BY <1>2, <1>4 DEF Reqs, AllPoints, AllCodes
  <2> HIDE DEF q
  <2> QED
    BY <1>1, <2>1, <2>2 DEF ReqMoves, ApiTypeOK
<1> QED
  BY <1>3, <1>4

LEMMA QuietOthers ==
  ASSUME ApiTypeOK, Gone, NEW r \in Requests, Job(r) # NoJob,
         Fail(r) \/ Renew(r) \/ BeginBuy(r) \/ LookBuy(r) \/ ReadOpen(r) \/ ReadFails(r)
  PROVE  Quiet(r)
<1>1. /\ {"invalid", "crash", "success"} \subseteq AllAnswers /\ Excused = {"look", "refused"}
      /\ Proc(r) \in Procs
  BY JobFacts DEF AllAnswers, Excused
<1> USE DEF At, Keep, bank
<1>2. CASE Fail(r)
  <2>1. PastKeeps(r) /\ ConnMoves(r) /\ conn'[Proc(r)] = Conn(r)
    BY <1>2, PastSame, ConnSame DEF Fail
  <2>2. ReqMoves(r) /\ req'[r].pc = "end" /\ req'[r].answer = "crash"
    BY <1>1, <1>2, AnswersMoves DEF Fail
  <2>3. Conn(r).began = Never /\ ~ Conn(r).up
    BY <1>1, <1>2 DEF Fail, Gone, Conn
  <2> QED
    BY <1>2, <2>1, <2>2, <2>3 DEF Fail, Quiet, Local, Dated, Due
<1>3. CASE Renew(r)
  <2>1. PastKeeps(r) /\ ConnMoves(r) /\ conn'[Proc(r)] = Conn(r)
    BY <1>3, PastSame, ConnSame DEF Renew
  <2>2. ReqMoves(r) /\ req'[r].pc = "end"
    BY <1>1, <1>3, AnswersMoves DEF Renew
  <2> QED
    BY <1>3, <2>1, <2>2 DEF Renew, Quiet, Local, Dated, Due
<1>4. CASE BeginBuy(r)
  <2>1. PastKeeps(r) /\ ConnMoves(r) /\ conn'[Proc(r)] = Conn(r)
    BY <1>4, PastAsked, ConnSame DEF BeginBuy, Begin
  <2>2. "look" \in Points(Job(r).kind) \ {"new"}
    BY <1>4 DEF BeginBuy, Points
  <2>3. ReqMoves(r) /\ (req'[r].pc = "look" \/ (req'[r].pc = "end" /\ req'[r].answer = "invalid"))
    BY <1>1, <1>4, <2>2, GoesMoves, AnswersMoves DEF BeginBuy, Begin
  <2> QED
    BY <1>4, <2>1, <2>3 DEF BeginBuy, Begin, Quiet, Local, Dated, Due
<1>5. CASE LookBuy(r)
  <2>1. PastKeeps(r)
    BY <1>5, PastSame DEF LookBuy
  <2>2. CASE Goes(r, "insert") /\ Using(r, Opened(Conn(r)))
    <3>1. "insert" \in Points(Job(r).kind) \ {"new"}
      BY <1>5 DEF LookBuy, Points
    <3>2. ReqMoves(r) /\ req'[r].pc = "insert" /\ Job(r)' = Job(r)
      BY <1>5, <2>2, <3>1, GoesMoves DEF LookBuy, Job
    <3> QED
      BY <1>5, <2>1, <2>2, <3>2, ConnOpened DEF LookBuy, Quiet, Local, Dated, Due
  <2>3. CASE Refuse(r) /\ Using(r, LeftOpen(r, "refused"))
    <3>1. ReqMoves(r) /\ (req'[r].pc = "look" \/ (req'[r].pc = "end" /\ req'[r].answer = "error"))
      BY <1>5, <2>3, RefuseMoves DEF LookBuy
    <3> QED
      BY <1>1, <1>5, <2>1, <2>3, <3>1, ConnLeftOpen DEF LookBuy, Quiet, Local, Dated, Due
  <2> QED
    BY <1>5, <2>2, <2>3 DEF LookBuy
<1>6. CASE ReadOpen(r)
  <2>1. PastKeeps(r)
    BY <1>6, PastSame DEF ReadOpen
  <2>2. ReqMoves(r) /\ req'[r].pc = "end"
    BY <1>1, <1>6, AnswersMoves DEF ReadOpen
  <2> QED
    BY <1>1, <1>6, <2>1, <2>2, ConnLeftOpen DEF ReadOpen, Quiet, Local, Dated, Due
<1>7. CASE ReadFails(r)
  <2>1. PastKeeps(r) /\ ConnMoves(r) /\ conn'[Proc(r)] = Conn(r)
    BY <1>7, PastSame, ConnSame DEF ReadFails
  <2>2. ReqMoves(r) /\ req'[r].pc = "end"
    BY <1>1, <1>7, AnswersMoves DEF ReadFails
  <2> QED
    BY <1>7, <2>1, <2>2 DEF ReadFails, Quiet, Local, Dated, Due
<1> QED
  BY <1>2, <1>3, <1>4, <1>5, <1>6, <1>7

-----------------------------------------------------------------------------
(* ... those that write one half, ...                                        *)

WritesOne(r, x) ==
  /\ Local(r) /\ IsRunning(r) /\ Conn(r).up /\ req'[r].pc # "end"
  /\ x \in Both /\ Due(r)' = Due(r) \cup {x} /\ conn'[Proc(r)].began # Never
  /\ LET w == Conn(r).writes
         v == conn'[Proc(r)].writes
     IN  /\ Len(w) \in Nat /\ Len(v) = Len(w) + 1
         /\ \A n \in 1 .. Len(w) : v[n] = w[n]
         /\ v[Len(w) + 1].by = r /\ v[Len(w) + 1].what = x

LEMMA WritesMove ==
  ASSUME ApiTypeOK, NEW r \in Requests, Job(r) # NoJob, req[r].pc # "end",
         NEW x \in Both, NEW value \in Int, Using(r, Write(r, x, value)), req'[r].pc # "end"
  PROVE  /\ ConnMoves(r) /\ Dated(r) /\ conn'[Proc(r)].began # Never
         /\ LET w == Conn(r).writes
                v == conn'[Proc(r)].writes
            IN  /\ Len(w) \in Nat /\ Len(v) = Len(w) + 1
                /\ \A n \in 1 .. Len(w) : v[n] = w[n]
                /\ v[Len(w) + 1].by = r /\ v[Len(w) + 1].what = x
<1> DEFINE c == Write(r, x, value)
<1>1. /\ c \in Conns /\ c.up = Conn(r).up /\ c.left = Conn(r).left
      /\ c.began = IF Conn(r).began = Never THEN now ELSE Conn(r).began
      /\ Len(Conn(r).writes) \in Nat /\ Len(c.writes) = Len(Conn(r).writes) + 1
      /\ \A n \in 1 .. Len(Conn(r).writes) : c.writes[n] = Conn(r).writes[n]
      /\ c.writes[Len(Conn(r).writes) + 1].by = r /\ c.writes[Len(Conn(r).writes) + 1].what = x
  BY WriteFacts
<1> HIDE DEF c
<1>2. ConnMoves(r) /\ conn'[Proc(r)] = c
  <2>1. Using(r, c)
    BY DEF c
  <2> QED
    BY <1>1, <2>1, ConnUsing
<1>3. Dated(r)
  BY <1>1, <1>2 DEF Dated
<1>4. c.began # Never
  BY <1>1 DEF ApiTypeOK, Never
<1> QED
  BY <1>1, <1>2, <1>3, <1>4

LEMMA WriteSteps ==
  ASSUME ApiTypeOK, NEW r \in Requests, Job(r) # NoJob,
         UpdateDeposit(r) \/ InsertDeposit(r) \/ InsertBuy(r) \/ UpdateBuy(r)
  PROVE  \E x \in Both : WritesOne(r, x)
<1> USE DEF At, Keep, bank
<1>0. /\ "balance" \in Both /\ "row" \in Both /\ req[r] \in Reqs
      /\ Job(r).kind = "deposit" => Job(r).credit \in Int
  BY JobFacts DEF Both
<1>1. Job(r)' = Job(r)
  BY DEF UpdateDeposit, InsertDeposit, InsertBuy, UpdateBuy, Job
<1>2. CASE UpdateDeposit(r)
  <2>1. "insert" \in Points(Job(r).kind) \ {"new"}
    BY <1>2 DEF UpdateDeposit, Points
  <2>2. PastKeeps(r)
    BY <1>0, <1>2 DEF UpdateDeposit, PastKeeps, ApiTypeOK, Pasts
  <2>3. ReqMoves(r) /\ req'[r].pc = "insert"
    BY <1>2, <2>1, GoesMoves DEF UpdateDeposit
  <2>4. Due(r)' = Due(r) \cup {"balance"}
    BY <1>1, <1>2, <2>3 DEF UpdateDeposit, Due
  <2> QED
    BY <1>0, <1>2, <2>2, <2>3, <2>4, WritesMove DEF UpdateDeposit, WritesOne, Local, IsRunning
<1>3. CASE InsertDeposit(r)
  <2>1. "commit" \in Points(Job(r).kind) \ {"new"}
    BY <1>3 DEF InsertDeposit, Points
  <2>2. PastKeeps(r)
    BY <1>3, PastSame DEF InsertDeposit
  <2>3. ReqMoves(r) /\ req'[r].pc = "commit"
    BY <1>3, <2>1, GoesMoves DEF InsertDeposit
  <2>4. Due(r)' = Due(r) \cup {"row"}
    BY <1>1, <1>3, <2>3 DEF InsertDeposit, Due, Both
  <2> QED
    BY <1>0, <1>3, <2>2, <2>3, <2>4, WritesMove DEF InsertDeposit, WritesOne, Local, IsRunning
<1>4. CASE InsertBuy(r)
  <2>1. PICK price \in Prices :
          /\ Using(r, Write(r, "row", -price))
          /\ req' = [req EXCEPT ![r].pc = "update", ![r].value = -price]
          /\ past' = [past EXCEPT ![r].worth = -price]
    BY <1>4 DEF InsertBuy
  <2>2. -price \in Int
    BY ApiConstants
  <2>3. PastKeeps(r)
    BY <2>1, <2>2 DEF PastKeeps, ApiTypeOK, Pasts
  <2>4. ReqMoves(r) /\ req'[r].pc = "update"
    <3> DEFINE q == [req[r] EXCEPT !.pc = "update", !.value = -price]
    <3>1. req' = [req EXCEPT ![r] = q]
      BY <2>1 DEF ApiTypeOK
    <3>2. q \in Reqs /\ q.pc = "update" /\ q.code = req[r].code
      BY <1>0, <2>2 DEF Reqs, AllPoints
    <3>3. "update" \in Points(Job(r).kind) \ {"new"}
      BY <1>4 DEF InsertBuy, Points
    <3> HIDE DEF q
    <3> QED
      BY <1>4, <3>1, <3>2, <3>3 DEF InsertBuy, ReqMoves, ApiTypeOK
  <2>5. Due(r)' = Due(r) \cup {"row"}
    BY <1>1, <1>4, <2>4 DEF InsertBuy, Due
  <2>6. Conn(r).up /\ req[r].pc # "end"
    BY <1>4 DEF InsertBuy
  <2> HIDE DEF At, Keep, bank
  <2>7. /\ ConnMoves(r) /\ Dated(r) /\ conn'[Proc(r)].began # Never
        /\ LET w == Conn(r).writes
               v == conn'[Proc(r)].writes
           IN  /\ Len(w) \in Nat /\ Len(v) = Len(w) + 1
               /\ \A n \in 1 .. Len(w) : v[n] = w[n]
               /\ v[Len(w) + 1].by = r /\ v[Len(w) + 1].what = "row"
    BY ZenonT(40), <1>0, <2>1, <2>2, <2>4, <2>6, WritesMove
  <2> QED
    BY <1>0, <1>4, <2>3, <2>4, <2>5, <2>7 DEF InsertBuy, WritesOne, Local, IsRunning, At, Keep, bank
<1>5. CASE UpdateBuy(r)
  <2>1. "commit" \in Points(Job(r).kind) \ {"new"} /\ req[r].value \in Int
    BY <1>0, <1>5 DEF UpdateBuy, Points, Reqs
  <2>2. PastKeeps(r)
    BY <1>5, PastSame DEF UpdateBuy
  <2>3. ReqMoves(r) /\ req'[r].pc = "commit"
    BY <1>5, <2>1, GoesMoves DEF UpdateBuy
  <2>4. Due(r)' = Due(r) \cup {"balance"}
    BY <1>1, <1>5, <2>3 DEF UpdateBuy, Due, Both
  <2> QED
    BY <1>0, <1>5, <2>1, <2>2, <2>3, <2>4, WritesMove DEF UpdateBuy, WritesOne, Local, IsRunning
<1> QED
  BY <1>2, <1>3, <1>4, <1>5

-----------------------------------------------------------------------------
(* ... those that commit what is on the connection, ...                      *)

Saves(r) ==
  /\ xacts \subseteq xacts'
  /\ \A x \in xacts' \ xacts :
       /\ x.id \in Requests /\ Job(x.id) # NoJob /\ Proc(x.id) = Proc(r) /\ Written(x.id) # {}
       /\ x.at = Conn(r).began /\ Conn(r).began # Never
Keeps(r) ==
  /\ past' \in [Requests -> Pasts] /\ Conn(r).left \subseteq past'[r].late
  /\ \A s \in Requests :
       /\ past'[s].asked = past[s].asked /\ past'[s].cut = past[s].cut
       /\ past'[s].charged = past[s].charged /\ past'[s].worth = past[s].worth
       /\ past[s].late \subseteq past'[s].late
       /\ Job(s) # NoJob =>
            past'[s].kept = past[s].kept \cup IF Proc(s) = Proc(r) THEN Written(s) ELSE {}
ConnEmpties(r) ==
  /\ conn' \in [Procs -> Conns] /\ \A p \in Procs \ {Proc(r)} : conn'[p] = conn[p]
  /\ conn'[Proc(r)].up = Conn(r).up /\ conn'[Proc(r)].began = Never /\ conn'[Proc(r)].writes = <<>>
Commits(r) ==
  /\ ReqMoves(r)
  /\ \/ req[r].pc = "commit"
     \/ req[r].pc = "new" /\ MayRun(r) /\ Job(r).kind \notin {"deposit", "buy"}
  /\ req'[r].pc = "end" /\ req'[r].answer = "success"
  /\ Conn(r).up /\ ConnEmpties(r) /\ Keeps(r) /\ Saves(r)
  /\ UNCHANGED <<now, plan, names>>

WrittenBy(w, s) == {w[n].what : n \in {n \in DOMAIN w : w[n].by = s}}

LEMMA OwnWrites ==
  ASSUME ApiTypeOK, ByOwn, NEW r \in Requests, Job(r) # NoJob, NEW w, w = Conn(r).writes
  PROVE  /\ w \in Seq(Writes) /\ DOMAIN w = 1 .. Len(w)
         /\ \A n \in 1 .. Len(w) :
              LET x == w[n]
              IN  x \in Writes /\ x.by \in Requests /\ Job(x.by) # NoJob /\ Proc(x.by) = Proc(r)
         /\ \A s \in Requests : Job(s) # NoJob =>
              WrittenBy(w, s)
                = IF Proc(s) = Proc(r) THEN Written(s) ELSE {}
<1>1. Proc(r) \in Procs /\ conn[Proc(r)] \in Conns /\ Conn(r) = conn[Proc(r)]
  BY JobFacts DEF Conn
<1>2. w \in Seq(Writes)
  BY <1>1 DEF Conns
<1>3. /\ DOMAIN w = 1 .. Len(w)
      /\ \A n \in 1 .. Len(w) : w[n] \in Writes
  BY <1>2, ElementOfSeq, LenProperties
<1>4. \A n \in 1 .. Len(w) : Job(w[n].by) # NoJob /\ Proc(w[n].by) = Proc(r)
  BY <1>1 DEF ByOwn
<1>5. \A x \in Writes : x.by \in Requests /\ x.what \in Both
  BY DEF Writes
<1>6. ASSUME NEW s \in Requests, Job(s) # NoJob
      PROVE  WrittenBy(w, s)
               = IF Proc(s) = Proc(r) THEN Written(s) ELSE {}
  <2>1. CASE Proc(s) = Proc(r)
    <3>1. Written(s) = {x \in Both : \E n \in 1 .. Len(w) : w[n].by = s /\ w[n].what = x}
      BY <2>1 DEF Written, Conn
    <3> QED
      BY <1>3, <1>5, <2>1, <3>1 DEF WrittenBy
  <2>2. CASE Proc(s) # Proc(r)
    <3> QED
      BY <1>3, <1>4, <2>2 DEF WrittenBy
  <2> QED
    BY <2>1, <2>2
<1> QED
  BY <1>2, <1>3, <1>4, <1>5, <1>6

LEMMA CommitFacts ==
  ASSUME ApiTypeOK, Gone, ByOwn, NEW r \in Requests, Job(r) # NoJob,
         NEW c \in Conns, c.up = Conn(r).up, c.writes = Conn(r).writes, c.left = Conn(r).left,
         Conn(r).began # Never => c.began = Conn(r).began,
         Commit(r, c)
  PROVE  ConnEmpties(r) /\ Keeps(r) /\ Saves(r) /\ UNCHANGED <<now, plan, names>>
<1> DEFINE w == c.writes
           rows == RowsOf(w, c.began)
<1>1. ConnEmpties(r)
  <2>1. Closed(c) \in Conns /\ Closed(c).up = c.up /\ Closed(c).began = Never /\ Closed(c).writes = <<>>
    BY ConnFacts DEF ApiTypeOK
  <2>2. Using(r, Closed(c))
    BY DEF Commit
  <2> QED
    BY <2>1, <2>2, UsingFacts DEF ConnEmpties
<1>2. xacts' = xacts \cup rows
  BY DEF Commit
<1>3. past' = [s \in Requests |->
        [past[s] EXCEPT !.kept = @ \cup WrittenBy(w, s),
                        !.late = IF s = r THEN past[r].late \cup c.left ELSE @]]
  BY DEF Commit, WrittenBy
<1>4. Saves(r)
  <2>1. \A x \in rows : \E n \in DOMAIN w : x.id = w[n].by /\ x.at = c.began
    BY DEF RowsOf
  <2> SUFFICES ASSUME NEW x \in rows
      PROVE  /\ x.id \in Requests /\ Job(x.id) # NoJob /\ Proc(x.id) = Proc(r) /\ Written(x.id) # {}
             /\ x.at = Conn(r).began /\ Conn(r).began # Never
    BY <1>2 DEF Saves
  <2>2. PICK n \in 1 .. Len(w) : x.id = w[n].by /\ x.at = c.began
    BY <2>1, OwnWrites
  <2>3. w[n] \in Writes /\ w[n].by \in Requests /\ Job(w[n].by) # NoJob /\ Proc(w[n].by) = Proc(r)
    BY OwnWrites
  <2>4. Written(x.id) # {}
    BY <2>2, <2>3 DEF Written, Conn, Writes
  <2>5. Conn(r).began # Never
    <3>1. w # <<>>
      BY <2>2
    <3> QED
      BY <3>1, JobFacts DEF Gone, Conn
  <2> QED
    BY <2>2, <2>3, <2>4, <2>5
<1>5. Keeps(r)
  <2>1. ASSUME NEW s \in Requests
        PROVE  /\ past'[s] \in Pasts
               /\ past'[s].asked = past[s].asked /\ past'[s].cut = past[s].cut
               /\ past'[s].charged = past[s].charged /\ past'[s].worth = past[s].worth
               /\ past[s].late \subseteq past'[s].late /\ (s = r => c.left \subseteq past'[s].late)
               /\ past'[s].kept = past[s].kept \cup WrittenBy(w, s)
    <3>1. past[s] \in Pasts /\ c.left \in SUBSET Leaves /\ past[r].late \in SUBSET Leaves
      BY DEF ApiTypeOK, Pasts, Conns
    <3>2. WrittenBy(w, s) \in SUBSET Both
      BY OwnWrites DEF Writes, WrittenBy
    <3> HIDE DEF w
    <3> QED
      BY <1>3, <3>1, <3>2 DEF Pasts
  <2>2. past' \in [Requests -> Pasts]
    <3> HIDE DEF w
    <3>1. past' = [s \in Requests |-> past'[s]]
      BY <1>3
    <3> QED
      BY <2>1, <3>1
  <2>3. \A s \in Requests : Job(s) # NoJob =>
          WrittenBy(w, s) = IF Proc(s) = Proc(r) THEN Written(s) ELSE {}
    BY OwnWrites
  <2> HIDE DEF w
  <2> QED
    BY <2>1, <2>2, <2>3 DEF Keeps
<1> QED
  BY <1>1, <1>4, <1>5 DEF Commit

LEMMA CommitSteps ==
  ASSUME ApiTypeOK, Gone, ByOwn, NEW r \in Requests, Job(r) # NoJob,
         Committed(r) \/ Authenticate(r) \/ Read(r)
  PROVE  Commits(r)
<1>0. Conn(r) \in Conns /\ now \in Nat /\ "success" \in AllAnswers /\ Answers(r, "success")
  BY JobFacts DEF ApiTypeOK, AllAnswers, Committed, Authenticate, Read
<1>1. ReqMoves(r) /\ req'[r].pc = "end" /\ req'[r].answer = "success"
  BY <1>0, AnswersMoves DEF Committed, Authenticate, Read, At
<1>2. Commit(r, Conn(r)) \/ Commit(r, Opened(Conn(r)))
  BY DEF Committed, Authenticate, Read
<1>3. ConnEmpties(r) /\ Keeps(r) /\ Saves(r) /\ UNCHANGED <<now, plan, names>>
  BY <1>0, <1>2, ConnFacts, CommitFacts
<1>4. /\ Conn(r).up
      /\ \/ req[r].pc = "commit"
         \/ req[r].pc = "new" /\ MayRun(r) /\ Job(r).kind \notin {"deposit", "buy"}
  BY DEF Committed, Authenticate, Read, At
<1> QED
  BY <1>1, <1>3, <1>4 DEF Commits

-----------------------------------------------------------------------------
(* ... those that roll it back or lose it, and whatever else happens.        *)

Cuts(S) ==
  /\ past' \in [Requests -> Pasts]
  /\ \A s \in Requests :
       /\ past'[s].asked = past[s].asked /\ past'[s].kept = past[s].kept /\ past'[s].late = past[s].late
       /\ past'[s].charged = past[s].charged /\ past'[s].worth = past[s].worth
       /\ past'[s].cut <=> past[s].cut \/ s \in S
SamePlan == plan' \in AllPlans /\ plan'.jobs = plan.jobs /\ plan'.threads = plan.threads

Rolls(r) ==
  /\ ReqMoves(r) /\ IsRunning(r) /\ Due(r) = {} /\ Due(r)' = {}
  /\ req'[r].pc = "end" => req'[r].answer # "success"
  /\ Conn(r).up /\ ConnEmpties(r) /\ Cuts(Running(Proc(r)) \ {r})
  /\ UNCHANGED <<now, xacts, plan, names>>
Loses(p) ==
  /\ conn' \in [Procs -> Conns] /\ \A q \in Procs \ {p} : conn'[q] = conn[q]
  /\ ~ conn'[p].up /\ conn'[p].began = Never /\ conn'[p].writes = <<>>
  /\ Cuts(Running(p)) /\ SamePlan
  /\ UNCHANGED <<now, xacts, req, names>>
Returns(p) ==
  /\ ~ conn[p].up
  /\ conn' \in [Procs -> Conns] /\ \A q \in Procs \ {p} : conn'[q] = conn[q]
  /\ conn'[p].began = conn[p].began /\ conn'[p].writes = conn[p].writes
  /\ req' \in [Requests -> Reqs]
  /\ \A r \in Requests : /\ r \in Running(p) => req'[r].pc = "end" /\ req'[r].answer = "killed" /\ req'[r].code = req[r].code
                         /\ r \notin Running(p) => req'[r] = req[r]
  /\ UNCHANGED <<now, xacts, plan, names, past>>
Renames(u) ==
  /\ names' = names \ {u} /\ SamePlan
  /\ Cuts({r \in Requests : Job(r) # NoJob /\ Job(r).user = u /\ IsRunning(r)})
  /\ UNCHANGED <<now, xacts, req, conn>>
Outside ==
  /\ now' \in Nat /\ now <= now' /\ SamePlan
  /\ \A x \in xacts' \ xacts : x.id \notin Requests
  /\ UNCHANGED <<req, conn, past, names>>

LEMMA CutFacts ==
  ASSUME ApiTypeOK, NEW S, CutShort(S)
  PROVE  Cuts(S)
<1>1. \A s \in Requests : past[s] \in Pasts /\ past'[s] = [past[s] EXCEPT !.cut = @ \/ s \in S]
  BY DEF CutShort, ApiTypeOK
<1>2. \A s \in Requests : past'[s] \in Pasts
  BY ZenonT(40), <1>1 DEF Pasts
<1>3. past' = [s \in Requests |-> past'[s]]
  BY DEF CutShort
<1> QED
  BY <1>1, <1>2, <1>3 DEF Cuts, Pasts

LEMMA RollSteps ==
  ASSUME ApiTypeOK, NEW r \in Requests, Job(r) # NoJob, InsertNothing(r)
  PROVE  Rolls(r)
<1> USE DEF At, Keep, bank
<1>1. ReqMoves(r) /\ (req'[r].pc = "look" \/ (req'[r].pc = "end" /\ req'[r].answer = "error"))
  BY RefuseMoves DEF InsertNothing
<1>2. Closed(Conn(r)) \in Conns /\ Closed(Conn(r)).up = Conn(r).up
      /\ Closed(Conn(r)).began = Never /\ Closed(Conn(r)).writes = <<>>
  BY JobFacts, ConnFacts DEF ApiTypeOK
<1>3. ConnEmpties(r)
  BY <1>2, UsingFacts DEF InsertNothing, ConnEmpties
<1>4. Cuts(Running(Proc(r)) \ {r})
  BY CutFacts DEF InsertNothing
<1>5. Due(r) = {} /\ Due(r)' = {}
  BY <1>1 DEF InsertNothing, Due
<1> QED
  BY <1>1, <1>3, <1>4, <1>5 DEF InsertNothing, Rolls, IsRunning

LEMMA PlanFacts ==
  ASSUME ApiTypeOK
  PROVE  /\ plan.drops > 0 /\ plan' = [plan EXCEPT !.drops = @ - 1] => SamePlan
         /\ plan.ticks > 0 /\ plan' = [plan EXCEPT !.ticks = @ - 1] => SamePlan
         /\ plan.renames > 0 /\ plan' = [plan EXCEPT !.renames = @ - 1] => SamePlan
         /\ plan.others > 0 /\ plan' = [plan EXCEPT !.others = @ - 1] => SamePlan
         /\ plan.asks > 0 /\ plan' = [plan EXCEPT !.asks = @ - 1] => SamePlan
         /\ plan.stops > 0 /\ plan' = [plan EXCEPT !.stops = @ - 1] => SamePlan
         /\ UNCHANGED plan => SamePlan
BY DEF ApiTypeOK, AllPlans, SamePlan

LEMMA ProcessSteps ==
  ASSUME ApiTypeOK, NEW p \in Procs
  PROVE  (Drop(p) => Loses(p)) /\ (Restart(p) => Returns(p))
<1> USE DEF bank
<1>1. conn[p] \in Conns
  BY DEF ApiTypeOK
<1>2. ASSUME Drop(p) PROVE Loses(p)
  <2>1. SamePlan /\ Cuts(Running(p))
    BY <1>2, PlanFacts, CutFacts DEF Drop
  <2> DEFINE c == [Closed(conn[p]) EXCEPT !.up = FALSE]
  <2>2. c \in Conns /\ ~ c.up /\ c.began = Never /\ c.writes = <<>>
    <3>1. Closed(conn[p]) \in Conns /\ Closed(conn[p]).began = Never /\ Closed(conn[p]).writes = <<>>
      BY <1>1, ConnFacts DEF ApiTypeOK
    <3> QED
      BY <3>1 DEF Conns
  <2>3. conn' = [conn EXCEPT ![p] = c]
    BY <1>2 DEF Drop
  <2> HIDE DEF c
  <2> QED
    BY <1>2, <2>1, <2>2, <2>3 DEF Drop, Loses, ApiTypeOK
<1>3. ASSUME Restart(p) PROVE Returns(p)
  <2>1. /\ conn' \in [Procs -> Conns] /\ \A q \in Procs \ {p} : conn'[q] = conn[q]
        /\ conn'[p].began = conn[p].began /\ conn'[p].writes = conn[p].writes
    BY <1>1, <1>3 DEF Restart, ApiTypeOK, Conns
  <2>2. ASSUME NEW r \in Requests
        PROVE  /\ req'[r] \in Reqs
               /\ r \in Running(p) => req'[r].pc = "end" /\ req'[r].answer = "killed" /\ req'[r].code = req[r].code
               /\ r \notin Running(p) => req'[r] = req[r]
    BY <1>3 DEF Restart, ApiTypeOK, Reqs, AllPoints, AllAnswers
  <2>3. req' = [r \in Requests |-> req'[r]]
    BY <1>3 DEF Restart
  <2> QED
    BY <1>3, <2>1, <2>2, <2>3 DEF Restart, Returns
<1> QED
  BY <1>2, <1>3

LEMMA OutsideSteps ==
  ASSUME ApiTypeOK,
         \/ Tick \/ BySodad \/ UNCHANGED vars
         \/ Handle \/ Stop \/ StartUp \/ Listen \/ KegHears \/ KegStatus \/ KegRestart \/ KegJoins
  PROVE  Outside
<1>0. now \in Nat /\ now + 2 \in Nat /\ now <= now + 2
  BY DEF ApiTypeOK
<1>1. CASE Tick
  BY <1>0, <1>1, PlanFacts DEF Tick, Outside
<1>2. CASE BySodad
  <2>1. PICK row \in Menu : Elsewhere(plan.others, row)
    BY <1>2 DEF BySodad
  <2>2. plan.others \in Nat /\ SamePlan
    BY <1>2, PlanFacts DEF BySodad, ApiTypeOK, AllPlans
  <2>3. \A x \in xacts' \ xacts : x.id = plan.others
    BY <2>1 DEF Elsewhere
  <2>4. \A x \in xacts' \ xacts : x.id \notin Requests
    BY <2>2, <2>3, WatchersConstants
  <2> QED
    BY <1>0, <1>2, <2>1, <2>2, <2>4 DEF BySodad, Elsewhere, Outside
<1>3. CASE UNCHANGED vars
  BY <1>0, <1>3, PlanFacts DEF vars, bank, api, Outside
<1>4. CASE Handle \/ Stop \/ StartUp \/ Listen \/ KegHears \/ KegStatus \/ KegRestart \/ KegJoins
  <2>1. UNCHANGED <<bank, conn, req, past, names>>
    BY <1>4 DEF Handle, Stop, StartUp, Listen, KegHears, KegStatus, KegRestart, KegJoins, api
  <2>2. SamePlan
    BY <1>4, PlanFacts DEF Handle, Stop, StartUp, Listen, KegHears, KegStatus, KegRestart, KegJoins, api
  <2> QED
    BY <1>0, <2>1, <2>2 DEF bank, Outside
<1> QED
  BY <1>1, <1>2, <1>3, <1>4

Acts(r) ==
  \/ BeginDeposit(r) \/ LookDeposit(r) \/ Charge(r) \/ GetUserid(r)
  \/ UpdateDeposit(r) \/ InsertDeposit(r) \/ Committed(r) \/ Fail(r)
  \/ Authenticate(r) \/ Renew(r)
  \/ BeginBuy(r) \/ LookBuy(r) \/ InsertBuy(r) \/ InsertNothing(r) \/ UpdateBuy(r)
  \/ Read(r) \/ ReadOpen(r) \/ ReadFails(r)
Writing(r) == \E x \in Both : WritesOne(r, x)

LEMMA Steps ==
  ASSUME ApiTypeOK, Gone, ByOwn, [Next]_vars
  PROVE  \/ \E r \in Requests : Job(r) # NoJob /\ Acts(r) /\ (Quiet(r) \/ Writing(r) \/ Commits(r) \/ Rolls(r))
         \/ \E p \in Procs : Loses(p) \/ Returns(p)
         \/ \E u \in Users : Renames(u)
         \/ Outside
<1>1. CASE ApiNext
  <2>1. CASE \E r \in Requests : Job(r) # NoJob /\ Acts(r)
    <3>1. PICK r \in Requests : Job(r) # NoJob /\ Acts(r)
      BY <2>1
    <3>2. CASE BeginDeposit(r) \/ LookDeposit(r) \/ Charge(r) \/ GetUserid(r)
      BY <3>1, <3>2, QuietDeposits
    <3>3. CASE Fail(r) \/ Renew(r) \/ BeginBuy(r) \/ LookBuy(r) \/ ReadOpen(r) \/ ReadFails(r)
      BY <3>1, <3>3, QuietOthers
    <3>4. CASE UpdateDeposit(r) \/ InsertDeposit(r) \/ InsertBuy(r) \/ UpdateBuy(r)
      BY <3>1, <3>4, WriteSteps DEF Writing
    <3>5. CASE Committed(r) \/ Authenticate(r) \/ Read(r)
      BY <3>1, <3>5, CommitSteps
    <3>6. CASE InsertNothing(r)
      BY <3>1, <3>6, RollSteps
    <3> QED
      BY <3>1, <3>2, <3>3, <3>4, <3>5, <3>6 DEF Acts
  <2>2. CASE \E p \in Procs : Drop(p) \/ Restart(p)
    BY <2>2, ProcessSteps
  <2>3. CASE \E u \in Users : Rename(u)
    <3>1. PICK u \in Users : Rename(u)
      BY <2>3
    <3>2. Renames(u)
      BY <3>1, PlanFacts, CutFacts DEF Rename, Renames, IsRunning, bank
    <3> QED
      BY <3>2
  <2>4. CASE Tick
    BY <2>4, OutsideSteps
  <2> QED
    BY <1>1, <2>1, <2>2, <2>3, <2>4 DEF ApiNext, Acts
<1>2. CASE \/ BySodad \/ UNCHANGED vars
           \/ Handle \/ Stop \/ StartUp \/ Listen \/ KegHears \/ KegStatus \/ KegRestart \/ KegJoins
  BY <1>2, OutsideSteps
<1> QED
  BY <1>1, <1>2 DEF Next, ByApi

-----------------------------------------------------------------------------
(* What a step leaves as it is.                                              *)

LEMMA Framed ==
  ASSUME plan'.jobs = plan.jobs, plan'.threads = plan.threads, NEW s \in Requests
  PROVE  /\ Job(s)' = Job(s) /\ Proc(s)' = Proc(s) /\ Conn(s)' = conn'[Proc(s)]
         /\ Serial(s)' <=> Serial(s)
         /\ Due(s)' = Due(s) \/ req'[s] # req[s]
BY DEF Job, Proc, Conn, Serial, Due

LEMMA WrittenFacts ==
  ASSUME plan'.jobs = plan.jobs, plan'.threads = plan.threads, NEW s \in Requests
  PROVE  /\ conn'[Proc(s)].writes = Conn(s).writes => Written(s)' = Written(s)
         /\ conn'[Proc(s)].writes = <<>> => Written(s)' = {}
<1>1. Conn(s)' = conn'[Proc(s)]
  BY Framed
<1>2. Written(s)' = {x \in Both : \E n \in 1 .. Len(conn'[Proc(s)].writes) :
                       conn'[Proc(s)].writes[n].by = s /\ conn'[Proc(s)].writes[n].what = x}
  BY <1>1 DEF Written
<1> QED
  BY <1>2 DEF Written

LEMMA WrittenOnGone ==
  ASSUME ApiTypeOK, Gone, NEW s \in Requests, Job(s) # NoJob, ~ Conn(s).up
  PROVE  Written(s) = {}
<1>1. Conn(s).writes = <<>>
  BY JobFacts DEF Gone, Conn
<1> QED
  BY <1>1 DEF Written

(* The classes of steps as the invariants see them: a request r, and the     *)
(* others on its process and elsewhere.                                      *)
LEMMA TypeStep ==
  ASSUME ApiTypeOK, Gone, ByOwn, [Next]_vars
  PROVE  ApiTypeOK'
<1>1. CASE \E r \in Requests : Job(r) # NoJob /\ (Quiet(r) \/ Writing(r) \/ Commits(r) \/ Rolls(r))
  <2>1. PICK r \in Requests : Job(r) # NoJob /\ (Quiet(r) \/ Writing(r) \/ Commits(r) \/ Rolls(r))
    BY <1>1
  <2>2. /\ ReqMoves(r) /\ conn' \in [Procs -> Conns] /\ past' \in [Requests -> Pasts]
        /\ UNCHANGED <<plan, now>>
    BY <2>1 DEF Quiet, Writing, WritesOne, Local, PastKeeps, ConnMoves, Commits, ConnEmpties, Keeps, Rolls, Cuts
  <2> QED
    BY <2>1, <2>2, LocalTyped DEF ApiTypeOK
<1>2. CASE \E p \in Procs : Returns(p)
  <2>1. PICK p \in Procs : Returns(p)
    BY <1>2
  <2>2. \A s \in Requests : Job(s)' = Job(s)
    BY <2>1 DEF Returns, Job
  <2>3. \A s \in Requests : req'[s].code = req[s].code /\ (req'[s].pc = req[s].pc \/ req'[s].pc = "end")
    BY <2>1 DEF Returns
  <2> QED
    BY <2>1, <2>2, <2>3 DEF Returns, ApiTypeOK, Points
<1>3. CASE (\E p \in Procs : Loses(p)) \/ (\E u \in Users : Renames(u)) \/ Outside
  <2>1. /\ SamePlan /\ UNCHANGED req /\ now' \in Nat
        /\ conn' \in [Procs -> Conns] /\ past' \in [Requests -> Pasts]
    BY <1>3 DEF Loses, Renames, Outside, Cuts, ApiTypeOK
  <2>2. \A s \in Requests : Job(s)' = Job(s)
    BY <2>1 DEF SamePlan, Job
  <2> QED
    BY <2>1, <2>2 DEF SamePlan, ApiTypeOK
<1> QED
  BY <1>1, <1>2, <1>3, Steps

OneAtATime ==
  \A r, s \in Requests :
    /\ Job(r) # NoJob /\ Job(s) # NoJob /\ Proc(r) = Proc(s) /\ Serial(r)
    /\ IsRunning(r) /\ IsRunning(s)
    => r = s

LEMMA GoneStep ==
  ASSUME ApiTypeOK, Gone, ByOwn, [Next]_vars
  PROVE  Gone'
<1>1. CASE \E r \in Requests : Job(r) # NoJob /\ (Quiet(r) \/ Writing(r) \/ Commits(r) \/ Rolls(r))
  <2>1. PICK r \in Requests : Job(r) # NoJob /\ (Quiet(r) \/ Writing(r) \/ Commits(r) \/ Rolls(r))
    BY <1>1
  <2>2. Proc(r) \in Procs /\ Conn(r) = conn[Proc(r)] /\ now # Never
    BY <2>1, JobFacts DEF ApiTypeOK, Conn, Never
  <2>3. \A p \in Procs \ {Proc(r)} : conn'[p] = conn[p]
    BY <2>1 DEF Quiet, Writing, WritesOne, Local, ConnMoves, Commits, Rolls, ConnEmpties
  <2> DEFINE c == conn'[Proc(r)]
  <2>4. (~ c.up => c.began = Never) /\ (c.began = Never => c.writes = <<>>)
    <3>1. CASE Commits(r) \/ Rolls(r)
      BY <3>1 DEF Commits, Rolls, ConnEmpties
    <3>2. CASE Quiet(r)
      <4>1. /\ c.up = Conn(r).up /\ c.writes = Conn(r).writes
            /\ c.began = Never => Conn(r).began = Never
            /\ Conn(r).up \/ c.began = Conn(r).began
        BY <2>2, <3>2 DEF Quiet, Local, ConnMoves, Dated
      <4> QED
        BY <2>2, <4>1 DEF Gone
    <3>3. CASE Writing(r)
      <4>1. c.up /\ c.began # Never
        BY <2>2, <3>3 DEF Writing, WritesOne, Local, ConnMoves, Dated
      <4> QED
        BY <4>1
    <3> QED
      BY <2>1, <3>1, <3>2, <3>3
  <2> QED
    BY <2>3, <2>4 DEF Gone
<1>2. CASE (\E p \in Procs : Loses(p) \/ Returns(p)) \/ (\E u \in Users : Renames(u)) \/ Outside
  BY ZenonT(40), <1>2 DEF Loses, Returns, Renames, Outside, Gone
<1> QED
  BY <1>1, <1>2, Steps

LEMMA PlanStep ==
  ASSUME ApiTypeOK, Gone, ByOwn, [Next]_vars
  PROVE  plan'.jobs = plan.jobs /\ plan'.threads = plan.threads
BY Steps DEF Quiet, Writing, WritesOne, Local, Commits, Rolls, Loses, Returns, Renames, Outside, SamePlan

LEMMA OwnStep ==
  ASSUME ApiTypeOK, Gone, ByOwn, [Next]_vars
  PROVE  ByOwn'
<1>0. \A s \in Requests : Job(s)' = Job(s) /\ Proc(s)' = Proc(s)
  BY PlanStep, Framed
<1>1. \A p \in Procs : \A n \in 1 .. Len(conn[p].writes) :
        LET s == conn[p].writes[n].by IN s \in Requests /\ Job(s) # NoJob /\ Proc(s) = p
  <2>1. \A p \in Procs : conn[p].writes \in Seq(Writes)
    BY DEF ApiTypeOK, Conns
  <2>2. \A p \in Procs : \A n \in 1 .. Len(conn[p].writes) : conn[p].writes[n] \in Writes
    BY <2>1, ElementOfSeq
  <2> QED
    BY <2>2 DEF Writes, ByOwn
<1> SUFFICES ASSUME NEW p \in Procs, NEW n \in 1 .. Len(conn'[p].writes)
             PROVE  LET s == conn'[p].writes[n].by IN s \in Requests /\ Job(s) # NoJob /\ Proc(s) = p
  BY <1>0 DEF ByOwn
<1>2. CASE conn'[p].writes = conn[p].writes
  BY <1>1, <1>2
<1>3. CASE conn'[p].writes # conn[p].writes
  <2>1. conn'[p].writes # <<>>
    OBVIOUS
  <2>2. PICK r \in Requests : Job(r) # NoJob /\ Proc(r) = p /\ Writing(r)
    BY <1>3, <2>1, Steps DEF Quiet, Writing, WritesOne, Local, ConnMoves, Conn, Commits, Rolls, ConnEmpties,
       Loses, Returns, Renames, Outside
  <2> DEFINE w == conn[p].writes
  <2>3. /\ Len(w) \in Nat /\ Len(conn'[p].writes) = Len(w) + 1
        /\ \A m \in 1 .. Len(w) : conn'[p].writes[m] = w[m]
        /\ conn'[p].writes[Len(w) + 1].by = r
    BY <2>2 DEF Writing, WritesOne, Conn
  <2>4. n \in 1 .. Len(w) \/ n = Len(w) + 1
    BY <2>3
  <2> QED
    BY <1>1, <2>2, <2>3, <2>4
<1> QED
  BY <1>2, <1>3

LEMMA AloneStep ==
  ASSUME ApiTypeOK, Gone, ByOwn, OneAtATime, [Next]_vars
  PROVE  OneAtATime'
<1>0. \A s \in Requests : Job(s)' = Job(s) /\ Proc(s)' = Proc(s) /\ (Serial(s)' <=> Serial(s))
  BY PlanStep, Framed
<1>1. CASE \A s \in Requests : IsRunning(s)' => IsRunning(s)
  BY <1>0, <1>1 DEF OneAtATime
<1>2. CASE \E s \in Requests : IsRunning(s)' /\ ~ IsRunning(s)
  <2>1. PICK r \in Requests : Job(r) # NoJob /\ ReqMoves(r)
    BY <1>2, Steps DEF Quiet, Writing, WritesOne, Local, Commits, Rolls, Loses, Returns, Renames, Outside, IsRunning
  <2>2. /\ \A s \in Requests \ {r} : IsRunning(s)' <=> IsRunning(s)
        /\ IsRunning(r)' => IsRunning(r) \/ MayRun(r)
    BY <2>1 DEF ReqMoves, IsRunning
  <2>3. ~ IsRunning(r) /\ MayRun(r) /\ Serial(r) =>
          \A s \in Requests : Job(s) # NoJob /\ Proc(s) = Proc(r) => ~ IsRunning(s)
    BY DEF MayRun, Alone, Serial, IsRunning
  <2>4. ASSUME NEW q \in Requests, NEW s \in Requests, Job(q) # NoJob, Job(s) # NoJob, Proc(q) = Proc(s),
               Serial(q), IsRunning(q)', IsRunning(s)'
        PROVE  q = s
    <3>1. Serial(s) /\ (q = r \/ s = r => Serial(r))
      BY <2>4 DEF Serial
    <3>2. CASE IsRunning(r)
      BY <2>2, <2>4, <3>2 DEF OneAtATime
    <3>3. CASE ~ IsRunning(r)
      BY <2>2, <2>3, <2>4, <3>1, <3>3 DEF OneAtATime
    <3> QED
      BY <3>2, <3>3
  <2> QED
    BY <1>0, <2>4 DEF OneAtATime
<1> QED
  BY <1>1, <1>2

-----------------------------------------------------------------------------
(* The two halves of a request.  What it has written so far is what the      *)
(* point where it is says, on the connection or committed, and a request     *)
(* alone on its process has committed nothing before it ends.                *)

Whole(s) ==
  /\ Written(s) \subseteq Due(s)
  /\ ~ past[s].cut /\ IsRunning(s) =>
       past[s].kept \cup Written(s) = Due(s) /\ (Conn(s).up \/ req[s].pc = "look")
  /\ req[s].pc = "new" => past[s].kept = {}
  /\ Serial(s) => past[s].kept = {} \/ (req[s].pc = "end" /\ req[s].answer = "success" /\ past[s].kept = Both)
  /\ Serial(s) /\ IsRunning(s) /\ Conn(s).up => Written(s) = Due(s)
  /\ ~ past[s].cut /\ req[s].pc = "end" /\ req[s].answer = "success" /\ Job(s).kind \in {"deposit", "buy"} =>
       past[s].kept = Both
WholeInv == Gone /\ ByOwn /\ OneAtATime /\ \A s \in Requests : Job(s) # NoJob => Whole(s)

LEMMA WholeFrame ==
  ASSUME plan'.jobs = plan.jobs, plan'.threads = plan.threads, NEW s \in Requests, Whole(s),
         req'[s] = req[s], past'[s].kept = past[s].kept, past[s].cut => past'[s].cut,
         Written(s)' = Written(s), conn'[Proc(s)].up <=> Conn(s).up
  PROVE  Whole(s)'
<1>1. /\ Job(s)' = Job(s) /\ (Serial(s)' <=> Serial(s)) /\ (Conn(s)'.up <=> Conn(s).up)
      /\ Due(s)' = Due(s) /\ (IsRunning(s)' <=> IsRunning(s))
  BY Framed DEF IsRunning, Due
<1> QED
  BY <1>1 DEF Whole

LEMMA DueWhenRunning ==
  ASSUME NEW s \in Requests, Due(s) # {}
  PROVE  IsRunning(s) /\ req[s].pc # "look"
BY DEF Due, IsRunning

LEMMA WholeQuiet ==
  ASSUME ApiTypeOK, WholeInv, NEW r \in Requests, Job(r) # NoJob, Quiet(r),
         NEW s \in Requests, Job(s) # NoJob
  PROVE  Whole(s)'
<1>0. /\ UNCHANGED plan /\ Whole(s) /\ Proc(s) \in Procs /\ conn'[Proc(r)].writes = Conn(r).writes
      /\ \A p \in Procs \ {Proc(r)} : conn'[p] = conn[p]
      /\ (conn'[Proc(r)].up <=> Conn(r).up)
  BY JobFacts DEF WholeInv, Quiet, Local, ConnMoves
<1>1. Written(s)' = Written(s) /\ (conn'[Proc(s)].up <=> Conn(s).up)
  <2>1. conn'[Proc(s)].writes = Conn(s).writes /\ (conn'[Proc(s)].up <=> Conn(s).up)
    <3>1. CASE Proc(s) = Proc(r)
      BY <1>0, <3>1 DEF Conn
    <3>2. CASE Proc(s) # Proc(r)
      BY <1>0, <3>2 DEF Conn
    <3> QED
      BY <3>1, <3>2
  <2> QED
    BY <1>0, <2>1, WrittenFacts
<1>2. CASE s # r
  BY <1>0, <1>1, <1>2, WholeFrame DEF Quiet, Local, ReqMoves, PastKeeps
<1>3. CASE s = r
  <2>1. Written(r) = {}
    <3>1. CASE Due(r) = {}
      BY <1>0, <1>3, <3>1 DEF Whole
    <3>2. CASE ~ Conn(r).up
      BY <3>2, WrittenOnGone DEF WholeInv
    <3> QED
      BY <3>1, <3>2 DEF Quiet
  <2>2. /\ Written(r)' = {} /\ Due(r)' = {} /\ (Conn(r)'.up <=> Conn(r).up) /\ Job(r)' = Job(r)
        /\ past'[r].kept = past[r].kept /\ past'[r].cut = past[r].cut
        /\ req'[r].pc # "new" /\ req[r].pc # "end"
    BY <1>0, <1>1, <1>3, <2>1, Framed DEF Quiet, Local, ReqMoves, PastKeeps
  <2>3. Serial(r)' <=> Serial(r)
    BY <1>0, Framed
  <2>4. ~ past[r].cut => past[r].kept = {} /\ (Conn(r).up \/ req[r].pc \in {"new", "look"})
    BY <1>0, <1>3, <2>1, <2>2 DEF Whole, IsRunning, Quiet, Due
  <2>5. Serial(r) => past[r].kept = {}
    BY <1>0, <1>3, <2>2 DEF Whole
  <2>6. /\ ~ past'[r].cut /\ IsRunning(r)' => Conn(r)'.up \/ req'[r].pc = "look"
        /\ req'[r].pc = "end" /\ Job(r).kind \in {"deposit", "buy"} => req'[r].answer # "success"
    BY <2>2, <2>4 DEF Quiet, IsRunning
  <2>7. ~ past'[r].cut => past'[r].kept \cup Written(r)' = Due(r)'
    BY <2>2, <2>4
  <2>8. Serial(r)' => past'[r].kept = {}
    BY <2>2, <2>3, <2>5
  <2> QED
    BY <1>3, <2>2, <2>6, <2>7, <2>8 DEF Whole
<1> QED
  BY <1>2, <1>3

LEMMA WholeWriting ==
  ASSUME ApiTypeOK, WholeInv, NEW r \in Requests, Job(r) # NoJob, NEW x \in Both, WritesOne(r, x),
         NEW s \in Requests, Job(s) # NoJob
  PROVE  Whole(s)'
<1> DEFINE w == Conn(r).writes
           v == conn'[Proc(r)].writes
<1>0. /\ UNCHANGED plan /\ Whole(s) /\ Proc(s) \in Procs
      /\ \A p \in Procs \ {Proc(r)} : conn'[p] = conn[p]
      /\ (conn'[Proc(r)].up <=> Conn(r).up)
      /\ Len(w) \in Nat /\ Len(v) = Len(w) + 1 /\ \A n \in 1 .. Len(w) : v[n] = w[n]
      /\ v[Len(w) + 1].by = r /\ v[Len(w) + 1].what = x
  BY JobFacts DEF WholeInv, WritesOne, Local, ConnMoves
<1>1. /\ conn'[Proc(s)].up <=> Conn(s).up
      /\ Written(s)' = IF s = r THEN Written(s) \cup {x} ELSE Written(s)
  <2>1. CASE Proc(s) # Proc(r)
    BY <1>0, <2>1, WrittenFacts DEF Conn
  <2>2. CASE Proc(s) = Proc(r)
    <3>1. Conn(s) = Conn(r) /\ Conn(s)' = conn'[Proc(r)]
      BY <1>0, <2>2, Framed DEF Conn
    <3> HIDE DEF w, v
    <3>2. Written(s) = {y \in Both : \E n \in 1 .. Len(w) : w[n].by = s /\ w[n].what = y}
      BY <3>1 DEF Written, w
    <3>3. Written(s)' = {y \in Both : \E n \in 1 .. Len(v) : v[n].by = s /\ v[n].what = y}
      BY <3>1 DEF Written, v
    <3>4. \A n : n \in 1 .. Len(v) <=> n \in 1 .. Len(w) \/ n = Len(w) + 1
      BY <1>0
    <3>5. Written(s)' = IF s = r THEN Written(s) \cup {x} ELSE Written(s)
      BY <1>0, <3>2, <3>3, <3>4
    <3> QED
      BY <1>0, <2>2, <3>1, <3>5
  <2> QED
    BY <2>1, <2>2
<1>2. CASE s # r
  BY <1>0, <1>1, <1>2, WholeFrame DEF WritesOne, Local, ReqMoves, PastKeeps
<1>3. CASE s = r
  <2>1. /\ Written(r)' = Written(r) \cup {x} /\ Due(r)' = Due(r) \cup {x} /\ Conn(r)'.up /\ Conn(r).up
        /\ Job(r)' = Job(r) /\ past'[r].kept = past[r].kept /\ past'[r].cut = past[r].cut
        /\ req'[r].pc # "new" /\ req'[r].pc # "end" /\ IsRunning(r) /\ req[r].pc # "end"
    BY <1>0, <1>1, <1>3, Framed DEF WritesOne, Local, ReqMoves, PastKeeps, IsRunning
  <2>2. Serial(r)' <=> Serial(r)
    BY <1>0, Framed
  <2> QED
    BY <1>0, <1>3, <2>1, <2>2 DEF Whole
<1> QED
  BY <1>2, <1>3

LEMMA WholeCommits ==
  ASSUME ApiTypeOK, WholeInv, NEW r \in Requests, Job(r) # NoJob, Commits(r),
         NEW s \in Requests, Job(s) # NoJob
  PROVE  Whole(s)'
<1>0. /\ UNCHANGED plan /\ Whole(s) /\ Whole(r) /\ Proc(s) \in Procs
      /\ \A p \in Procs \ {Proc(r)} : conn'[p] = conn[p]
      /\ (conn'[Proc(r)].up <=> Conn(r).up)
      /\ conn'[Proc(r)].writes = <<>>
  BY JobFacts DEF WholeInv, Commits, ConnEmpties
<1>1. /\ past'[s].kept = past[s].kept \cup (IF Proc(s) = Proc(r) THEN Written(s) ELSE {})
      /\ past'[s].cut = past[s].cut
      /\ s # r => req'[s] = req[s]
  BY DEF Commits, Keeps, ReqMoves
<1>2. CASE Proc(s) # Proc(r)
  <2>1. Written(s)' = Written(s) /\ (conn'[Proc(s)].up <=> Conn(s).up)
    BY <1>0, <1>2, WrittenFacts DEF Conn
  <2> QED
    BY <1>0, <1>1, <1>2, <2>1, WholeFrame
<1>3. CASE Proc(s) = Proc(r)
  <2>1. Written(s)' = {} /\ (Conn(s)'.up <=> Conn(s).up) /\ Job(s)' = Job(s) /\ (Serial(s)' <=> Serial(s))
    BY <1>0, <1>3, WrittenFacts, Framed DEF Conn
  <2>2. past'[s].kept = past[s].kept \cup Written(s)
    BY <1>1, <1>3
  <2>3. CASE s # r
    <3>1. req'[s] = req[s] /\ Due(s)' = Due(s) /\ (IsRunning(s)' <=> IsRunning(s))
      BY <1>0, <1>1, <2>3, Framed DEF IsRunning, Due
    <3>2. ~ IsRunning(s) => Written(s) = {}
      BY <1>0, DueWhenRunning DEF Whole
    <3>3. Serial(s) => ~ IsRunning(s)
      <4>1. CASE req[r].pc = "commit"
        BY <1>3, <2>3, <4>1 DEF WholeInv, OneAtATime, IsRunning
      <4>2. CASE MayRun(r)
        BY <1>3, <2>3, <4>2 DEF MayRun, Alone, Serial, IsRunning
      <4> QED
        BY <4>1, <4>2 DEF Commits
    <3>4. req[s].pc = "new" \/ req[s].pc = "end" => ~ IsRunning(s)
      BY DEF IsRunning
    <3> QED
      BY <1>0, <1>1, <2>1, <2>2, <3>1, <3>2, <3>3, <3>4 DEF Whole
  <2>4. CASE s = r
    <3>1. /\ req'[r].pc = "end" /\ req'[r].answer = "success" /\ Due(r)' = {} /\ ~ IsRunning(r)'
          /\ Conn(r).up
      BY <2>1, <2>4 DEF Commits, Due, IsRunning
    <3>2. CASE req[r].pc = "commit"
      <4>1. Due(r) = Both /\ IsRunning(r)
        BY <3>2 DEF Due, IsRunning
      <4>2. ~ past[r].cut => past'[r].kept = Both
        BY <1>0, <2>2, <2>4, <4>1 DEF Whole
      <4>3. Serial(r) => past'[r].kept = Both
        BY <1>0, <2>2, <2>4, <3>1, <3>2, <4>1 DEF Whole
      <4> QED
        BY <1>1, <2>1, <2>4, <3>1, <4>2, <4>3 DEF Whole
    <3>3. CASE req[r].pc = "new" /\ Job(r).kind \notin {"deposit", "buy"}
      <4>1. Due(r) = {}
        BY <3>3 DEF Due
      <4>2. past'[r].kept = {}
        BY <1>0, <2>2, <2>4, <3>3, <4>1 DEF Whole
      <4> QED
        BY <2>1, <2>4, <3>1, <3>3, <4>2 DEF Whole
    <3> QED
      BY <3>2, <3>3 DEF Commits
  <2> QED
    BY <2>3, <2>4
<1> QED
  BY <1>2, <1>3

LEMMA WholeRolls ==
  ASSUME ApiTypeOK, WholeInv, NEW r \in Requests, Job(r) # NoJob, Rolls(r),
         NEW s \in Requests, Job(s) # NoJob
  PROVE  Whole(s)'
<1>0. /\ UNCHANGED plan /\ Whole(s) /\ Proc(s) \in Procs
      /\ \A p \in Procs \ {Proc(r)} : conn'[p] = conn[p]
      /\ (conn'[Proc(r)].up <=> Conn(r).up)
      /\ conn'[Proc(r)].writes = <<>>
  BY JobFacts DEF WholeInv, Rolls, ConnEmpties
<1>1. /\ past'[s].kept = past[s].kept
      /\ past[s].cut => past'[s].cut
      /\ s # r => req'[s] = req[s]
      /\ s # r /\ Proc(s) = Proc(r) /\ IsRunning(s) => past'[s].cut
      /\ s = r => past'[s].cut = past[s].cut
  <2>1. past[s].cut \in BOOLEAN /\ past'[s].cut \in BOOLEAN
    BY DEF ApiTypeOK, Pasts, Rolls, Cuts
  <2> QED
    BY <2>1 DEF Rolls, Cuts, ReqMoves, Running, IsRunning
<1>2. CASE Proc(s) # Proc(r)
  <2>1. Written(s)' = Written(s) /\ (conn'[Proc(s)].up <=> Conn(s).up)
    BY <1>0, <1>2, WrittenFacts DEF Conn
  <2> QED
    BY <1>0, <1>1, <1>2, <2>1, WholeFrame
<1>3. CASE Proc(s) = Proc(r)
  <2>1. Written(s)' = {} /\ (Conn(s)'.up <=> Conn(s).up) /\ Job(s)' = Job(s) /\ (Serial(s)' <=> Serial(s))
    BY <1>0, <1>3, WrittenFacts, Framed DEF Conn
  <2>2. CASE s # r
    <3>1. req'[s] = req[s] /\ Due(s)' = Due(s) /\ (IsRunning(s)' <=> IsRunning(s))
      BY <1>0, <1>1, <2>2, Framed DEF IsRunning, Due
    <3>2. Serial(s) => ~ IsRunning(s)
      BY <1>3, <2>2 DEF WholeInv, OneAtATime, Rolls
    <3> QED
      BY <1>0, <1>1, <1>3, <2>1, <2>2, <3>1, <3>2 DEF Whole
  <2>3. CASE s = r
    <3>1. /\ Written(r) = {} /\ Due(r)' = {} /\ Due(r) = {} /\ Conn(r).up /\ IsRunning(r) /\ req[r].pc # "end"
          /\ req'[r].pc # "new" /\ (req'[r].pc = "end" => req'[r].answer # "success")
      BY <1>0, <2>3 DEF Rolls, Whole, ReqMoves
    <3>2. (~ past[r].cut => past[r].kept = {}) /\ (Serial(r) => past[r].kept = {})
      BY <1>0, <2>3, <3>1 DEF Whole
    <3> QED
      BY <1>1, <2>1, <2>3, <3>1, <3>2 DEF Whole
  <2> QED
    BY <2>2, <2>3
<1> QED
  BY <1>2, <1>3

LEMMA WholeElse ==
  ASSUME ApiTypeOK, WholeInv,
         (\E p \in Procs : Loses(p) \/ Returns(p)) \/ (\E u \in Users : Renames(u)) \/ Outside,
         NEW s \in Requests, Job(s) # NoJob
  PROVE  Whole(s)'
<1>0. Whole(s) /\ Proc(s) \in Procs /\ past[s].cut \in BOOLEAN
  BY JobFacts DEF WholeInv, ApiTypeOK, Pasts
<1>1. CASE Outside
  BY <1>0, <1>1, WrittenFacts, WholeFrame DEF Outside, SamePlan, Conn
<1>2. CASE \E u \in Users : Renames(u)
  <2>1. /\ plan'.jobs = plan.jobs /\ plan'.threads = plan.threads /\ UNCHANGED <<req, conn>>
        /\ past'[s].kept = past[s].kept /\ (past[s].cut => past'[s].cut)
    BY <1>2 DEF Renames, SamePlan, Cuts
  <2>2. Written(s)' = Written(s) /\ (conn'[Proc(s)].up <=> Conn(s).up)
    BY <2>1, WrittenFacts DEF Conn
  <2> QED
    BY <1>0, <2>1, <2>2, WholeFrame
<1>3. CASE \E p \in Procs : Loses(p)
  <2>1. PICK p \in Procs : Loses(p)
    BY <1>3
  <2>2. /\ plan'.jobs = plan.jobs /\ plan'.threads = plan.threads /\ UNCHANGED req
        /\ past'[s].kept = past[s].kept /\ (past[s].cut => past'[s].cut)
        /\ Proc(s) = p /\ IsRunning(s) => past'[s].cut
    BY <2>1 DEF Loses, SamePlan, Cuts, Running, IsRunning
  <2>3. CASE Proc(s) # p
    <3>1. Written(s)' = Written(s) /\ (conn'[Proc(s)].up <=> Conn(s).up)
      BY <1>0, <2>1, <2>2, <2>3, WrittenFacts DEF Conn, Loses
    <3> QED
      BY <1>0, <2>2, <3>1, WholeFrame
  <2>4. CASE Proc(s) = p
    <3>1. /\ Written(s)' = {} /\ ~ Conn(s)'.up /\ Job(s)' = Job(s) /\ (Serial(s)' <=> Serial(s))
          /\ (IsRunning(s)' <=> IsRunning(s))
      BY <2>1, <2>2, <2>4, WrittenFacts, Framed DEF Loses, IsRunning
    <3> QED
      BY <1>0, <2>2, <2>4, <3>1 DEF Whole
  <2> QED
    BY <2>3, <2>4
<1>4. CASE \E p \in Procs : Returns(p)
  <2>1. PICK p \in Procs : Returns(p)
    BY <1>4
  <2>2. UNCHANGED <<plan, past>>
    BY <2>1 DEF Returns
  <2>3. CASE Proc(s) # p
    <3>1. req'[s] = req[s] /\ Written(s)' = Written(s) /\ (conn'[Proc(s)].up <=> Conn(s).up)
      BY <1>0, <2>1, <2>2, <2>3, WrittenFacts DEF Conn, Returns, Running
    <3> QED
      BY <1>0, <2>2, <3>1, WholeFrame
  <2>4. CASE Proc(s) = p
    <3>1. /\ Written(s)' = Written(s) /\ Job(s)' = Job(s) /\ (Serial(s)' <=> Serial(s)) /\ ~ Conn(s).up
      BY <2>1, <2>2, <2>4, WrittenFacts, Framed DEF Returns, Conn
    <3>2. Written(s) = {}
      BY <3>1, WrittenOnGone DEF WholeInv
    <3>3. CASE IsRunning(s)
      <4>1. req'[s].pc = "end" /\ req'[s].answer = "killed" /\ ~ IsRunning(s)' /\ req[s].pc # "end"
        BY <2>1, <2>4, <3>3 DEF Returns, Running, IsRunning
      <4> QED
        BY <1>0, <2>2, <3>1, <3>2, <3>3, <4>1 DEF Whole
    <3>4. CASE ~ IsRunning(s)
      <4>1. req'[s] = req[s] /\ ~ IsRunning(s)'
        BY <2>1, <2>4, <3>4 DEF Returns, Running, IsRunning
      <4> QED
        BY <1>0, <2>2, <3>1, <3>2, <3>4, <4>1 DEF Whole
    <3> QED
      BY <3>3, <3>4
  <2> QED
    BY <2>3, <2>4
<1> QED
  BY <1>1, <1>2, <1>3, <1>4

LEMMA WholeStep ==
  ASSUME ApiTypeOK, WholeInv, [Next]_vars
  PROVE  WholeInv'
<1>0. Gone /\ ByOwn /\ OneAtATime
  BY DEF WholeInv
<1>1. Gone' /\ ByOwn' /\ OneAtATime'
  BY <1>0, GoneStep, OwnStep, AloneStep
<1>2. \A s \in Requests : Job(s)' = Job(s)
  BY <1>0, PlanStep, Framed
<1>3. ASSUME NEW s \in Requests, Job(s) # NoJob
      PROVE  Whole(s)'
  BY <1>0, <1>3, Steps, WholeQuiet, WholeWriting, WholeCommits, WholeRolls, WholeElse DEF Writing
<1> QED
  BY <1>1, <1>2, <1>3 DEF WholeInv

LEMMA StartsWell ==
  ASSUME Init
  PROVE  ApiTypeOK /\ WholeInv
<1> USE DEF Init, ApiInit
<1>1. plan \in AllPlans /\ now \in Nat
  BY WatchersConstants
<1>2. \A r \in Requests : /\ req[r].pc = "new" /\ req[r].value = 0
                          /\ req[r].answer = "none" /\ past[r].asked = now /\ past[r].kept = {} /\ past[r].cut = FALSE
                          /\ past[r].late = {} /\ past[r].charged = FALSE /\ past[r].worth = 0
                          /\ req[r].code = IF Job(r) = NoJob THEN NoCode ELSE Job(r).code
  BY DEF Job
<1>3. \A p \in Procs : conn[p] = [up |-> TRUE, began |-> Never, writes |-> <<>>, left |-> {}]
  OBVIOUS
<1>4. \A r \in Requests : Job(r) \in Jobs \cup {NoJob}
  BY <1>1 DEF AllPlans, Job
<1>5. \A r \in Requests : req[r].code \in AllCodes /\ (Job(r) # NoJob /\ Job(r).kind = "buy" => req[r].code \in Barcodes)
  BY <1>2, <1>4 DEF Jobs, AllCodes
<1>6. conn \in [Procs -> Conns]
  <2>1. <<>> \in Seq(Writes)
    OBVIOUS
  <2> QED
    BY <2>1 DEF Conns
<1>7. req \in [Requests -> Reqs]
  <2>1. \A c \in AllCodes : [pc |-> "new", answer |-> "none", value |-> 0, code |-> c] \in Reqs
    BY DEF Reqs, AllPoints, AllAnswers
  <2>2. ASSUME NEW r \in Requests PROVE req[r] \in Reqs
    <3> DEFINE c == IF plan.jobs[r] = NoJob THEN NoCode ELSE plan.jobs[r].code
    <3>1. c \in AllCodes /\ req[r] = [pc |-> "new", answer |-> "none", value |-> 0, code |-> c]
      BY <1>5
    <3> HIDE DEF c
    <3> QED
      BY <2>1, <3>1
  <2>3. req = [r \in Requests |-> req[r]]
    OBVIOUS
  <2> QED
    BY <2>2, <2>3
<1>8. past \in [Requests -> Pasts]
  BY <1>1 DEF Pasts
<1>9. ApiTypeOK
  BY <1>1, <1>2, <1>5, <1>6, <1>7, <1>8 DEF ApiTypeOK, Points
<1>10. Gone /\ ByOwn /\ OneAtATime
  BY <1>2, <1>3 DEF Gone, ByOwn, OneAtATime, IsRunning
<1>11. ASSUME NEW s \in Requests, Job(s) # NoJob PROVE Whole(s)
  <2>1. Conn(s).writes = <<>> /\ Due(s) = {}
    BY <1>2, <1>3, <1>9, <1>11, JobFacts DEF Conn, Due
  <2>2. Written(s) = {}
    BY <2>1 DEF Written
  <2> QED
    BY <1>2, <2>1, <2>2 DEF Whole, IsRunning
<1> QED
  BY <1>9, <1>10, <1>11 DEF WholeInv

ApiInv == ApiTypeOK /\ WholeInv

LEMMA ApiInvariant == Spec => []ApiInv
<1>1. Init => ApiInv
  BY StartsWell DEF ApiInv
<1>2. ApiInv /\ [Next]_vars => ApiInv'
  BY WholeStep, TypeStep DEF ApiInv, WholeInv
<1> QED
  BY <1>1, <1>2, PTL DEF Spec

(* Whatever deposits, purchases, reads, lost connections and restarts do, a  *)
(* request of a process that serves one at a time leaves both its row and    *)
(* its change of the balance or neither, and both if it succeeds; with       *)
(* threads, one that succeeds and was not cut by another leaves both.        *)
THEOREM RequestsAreWhole == Spec => []RequestsWhole
<1>1. ApiInv => RequestsWhole
  BY DEF ApiInv, WholeInv, Whole, RequestsWhole, Ended, Both
<1> QED
  BY <1>1, ApiInvariant, PTL

-----------------------------------------------------------------------------
(* Deposits: where the card has been charged, and for how much it is booked. *)

Charged(s) ==
  /\ ~ past[s].charged => req[s].pc \in {"new", "look", "charge", "end"} /\ past[s].kept = {}
  /\ past[s].charged => req[s].pc \in {"userid", "update", "insert", "commit", "end"}
  /\ ~ past[s].cut /\ IsRunning(s) /\ req[s].pc # "look" => Job(s).user \in names
  /\ req[s].pc \in {"insert", "commit"} => past[s].worth = Job(s).credit
  /\ past[s].charged /\ req[s].pc = "end" /\ ~ past[s].cut =>
       \/ req[s].answer = "success" /\ past[s].worth = Job(s).credit
       \/ req[s].answer = "unknown" /\ past[s].kept = {}
IsDeposit(s) == Job(s) # NoJob /\ Job(s).kind = "deposit"
ChargeInv == \A s \in Requests : IsDeposit(s) => Charged(s)

LEMMA ChargeAct ==
  ASSUME ApiTypeOK, WholeInv, NEW r \in Requests, IsDeposit(r), Charged(r), Acts(r)
  PROVE  Charged(r)'
<1> USE DEF IsDeposit, At, Keep, bank
<1>1. /\ req[r] \in Reqs /\ past[r] \in Pasts /\ Job(r).credit \in Nat /\ Whole(r)
      /\ req \in [Requests -> Reqs] /\ past \in [Requests -> Pasts]
  BY JobFacts DEF WholeInv, ApiTypeOK
<1>2. CASE BeginDeposit(r)
  <2>1. /\ past'[r].charged = past[r].charged /\ past'[r].kept = past[r].kept
        /\ req[r].pc = "new" /\ (req'[r].pc = "look" \/ req'[r].pc = "end")
    BY <1>1, <1>2 DEF BeginDeposit, Begin, Goes, Answers, Pasts, Reqs
  <2> QED
    BY <1>1, <2>1 DEF Charged, IsRunning
<1>3. CASE LookDeposit(r)
  <2>1. /\ UNCHANGED <<past, names, plan>> /\ req[r].pc = "look"
        /\ \/ req'[r].pc = "charge" /\ Job(r).user \in names
           \/ req'[r].pc = "end"
    BY <1>1, <1>3 DEF LookDeposit, Goes, Answers, Reqs
  <2>2. Job(r)' = Job(r)
    BY <2>1 DEF Job
  <2> QED
    BY <1>1, <2>1, <2>2 DEF Charged, IsRunning
<1>4. CASE Charge(r)
  <2>1. /\ UNCHANGED <<names, plan>> /\ req[r].pc = "charge"
        /\ past'[r].cut = past[r].cut /\ past'[r].kept = past[r].kept
        /\ \/ req'[r].pc = "userid" /\ past'[r].charged
           \/ req'[r].pc = "end" /\ past'[r].charged /\ req'[r].answer = "unknown"
           \/ req'[r].pc = "end" /\ ~ past'[r].charged
    <3>1. PICK taken \in BOOLEAN :
            /\ past' = [past EXCEPT ![r].charged = taken]
            /\ \/ taken /\ req' = [req EXCEPT ![r].pc = "userid"]
               \/ \E answer \in IF taken THEN {"unknown"} ELSE {"unknown", "declined"} :
                    req' = [req EXCEPT ![r].pc = "end", ![r].answer = answer]
      BY <1>4 DEF Charge, Goes, Answers
    <3>2. past'[r].cut = past[r].cut /\ past'[r].kept = past[r].kept /\ past'[r].charged = taken
      BY <1>1, <3>1 DEF Pasts
    <3>3. \/ taken /\ req'[r].pc = "userid"
          \/ \E answer \in IF taken THEN {"unknown"} ELSE {"unknown", "declined"} :
               req'[r].pc = "end" /\ req'[r].answer = answer
      BY <1>1, <3>1 DEF Reqs
    <3> QED
      BY <1>4, <3>2, <3>3 DEF Charge
  <2>2. Job(r)' = Job(r)
    BY <2>1 DEF Job
  <2> QED
    BY <1>1, <2>1, <2>2 DEF Charged, IsRunning
<1>5. CASE GetUserid(r)
  <2>1. /\ UNCHANGED <<past, names, plan>> /\ req[r].pc = "userid"
        /\ \/ req'[r].pc = "update"
           \/ req'[r].pc = "end" /\ Job(r).user \notin names
    BY <1>1, <1>5 DEF GetUserid, Goes, Answers, Reqs
  <2>2. Job(r)' = Job(r)
    BY <2>1 DEF Job
  <2> QED
    BY <1>1, <2>1, <2>2 DEF Charged, IsRunning
<1>6. CASE UpdateDeposit(r)
  <2>1. /\ UNCHANGED <<names, plan>> /\ req[r].pc = "update" /\ req'[r].pc = "insert"
        /\ past'[r].cut = past[r].cut /\ past'[r].kept = past[r].kept
        /\ past'[r].charged = past[r].charged /\ past'[r].worth = Job(r).credit
    BY <1>1, <1>6 DEF UpdateDeposit, Goes, Reqs, Pasts
  <2>2. Job(r)' = Job(r)
    BY <2>1 DEF Job
  <2> QED
    BY <1>1, <2>1, <2>2 DEF Charged, IsRunning
<1>7. CASE InsertDeposit(r)
  <2>1. /\ UNCHANGED <<past, names, plan>> /\ req[r].pc = "insert" /\ req'[r].pc = "commit"
    BY <1>1, <1>7 DEF InsertDeposit, Goes, Reqs
  <2>2. Job(r)' = Job(r)
    BY <2>1 DEF Job
  <2> QED
    BY <1>1, <2>1, <2>2 DEF Charged, IsRunning
<1>8. CASE Committed(r)
  <2>1. Commits(r)
    BY <1>8, CommitSteps DEF WholeInv
  <2>2. /\ req[r].pc = "commit" /\ req'[r].pc = "end" /\ req'[r].answer = "success" /\ UNCHANGED plan
        /\ past'[r].charged = past[r].charged /\ past'[r].worth = past[r].worth
    BY <1>8, <2>1 DEF Committed, Commits, Keeps
  <2>3. Job(r)' = Job(r)
    BY <2>2 DEF Job
  <2> QED
    BY <1>1, <2>2, <2>3 DEF Charged, IsRunning
<1>9. CASE Fail(r)
  <2>1. /\ UNCHANGED <<past, names, plan>> /\ req'[r].pc = "end" /\ req[r].pc \notin {"new", "end"} /\ ~ Conn(r).up
    BY <1>1, <1>9 DEF Fail, Answers, Reqs
  <2>2. past[r].cut \/ req[r].pc = "look"
    BY <1>1, <2>1 DEF Whole, IsRunning
  <2> QED
    BY <1>1, <2>1, <2>2 DEF Charged, IsRunning
<1>10. ~ (Authenticate(r) \/ Renew(r) \/ BeginBuy(r) \/ LookBuy(r) \/ InsertBuy(r) \/ InsertNothing(r)
          \/ UpdateBuy(r) \/ Read(r) \/ ReadOpen(r) \/ ReadFails(r))
  BY DEF Authenticate, Renew, BeginBuy, LookBuy, InsertBuy, InsertNothing, UpdateBuy, Read, ReadOpen, ReadFails
<1> QED
  BY <1>2, <1>3, <1>4, <1>5, <1>6, <1>7, <1>8, <1>9, <1>10 DEF Acts

LEMMA ChargedFrame ==
  ASSUME NEW s \in Requests, Charged(s), Job(s)' = Job(s), req'[s] = req[s],
         past'[s].charged <=> past[s].charged, past'[s].worth = past[s].worth,
         past[s].cut => past'[s].cut,
         past[s].kept = {} /\ Due(s) = {} => past'[s].kept = {},
         IsRunning(s) /\ ~ past'[s].cut /\ Job(s).user \in names => Job(s).user \in names'
  PROVE  Charged(s)'
<1>1. (IsRunning(s)' <=> IsRunning(s)) /\ (req[s].pc \in {"new", "look", "charge", "end"} => Due(s) = {})
  BY DEF IsRunning, Due
<1> QED
  BY <1>1 DEF Charged

LEMMA ChargeStep ==
  ASSUME ApiInv, ChargeInv, [Next]_vars
  PROVE  ChargeInv'
<1>0. ApiTypeOK /\ WholeInv /\ Gone /\ ByOwn
  BY DEF ApiInv, WholeInv
<1>1. \A s \in Requests : Job(s)' = Job(s)
  BY <1>0, PlanStep, Framed
<1> SUFFICES ASSUME NEW s \in Requests, IsDeposit(s) PROVE Charged(s)'
  BY <1>1 DEF ChargeInv, IsDeposit
<1>2. Charged(s) /\ Whole(s) /\ Job(s) # NoJob
  BY <1>0 DEF ChargeInv, WholeInv, IsDeposit
<1>3. CASE \E r \in Requests : Job(r) # NoJob /\ Acts(r) /\ (Quiet(r) \/ Writing(r) \/ Commits(r) \/ Rolls(r))
  <2>1. PICK r \in Requests : Job(r) # NoJob /\ Acts(r) /\ (Quiet(r) \/ Writing(r) \/ Commits(r) \/ Rolls(r))
    BY <1>3
  <2>2. CASE s = r
    BY <1>0, <1>2, <2>1, <2>2, ChargeAct
  <2>3. CASE s # r
    <3>1. req'[s] = req[s] /\ names' = names
      BY <2>1, <2>3 DEF Quiet, Writing, WritesOne, Local, Commits, Rolls, ReqMoves
    <3>2. CASE Quiet(r) \/ Writing(r)
      <4>1. past'[s] = past[s]
        BY <2>3, <3>2 DEF Quiet, Writing, WritesOne, Local, PastKeeps
      <4> QED
        BY <1>1, <1>2, <3>1, <4>1, ChargedFrame
    <3>3. CASE Commits(r)
      <4>1. /\ past'[s].charged = past[s].charged /\ past'[s].worth = past[s].worth /\ past'[s].cut = past[s].cut
            /\ past'[s].kept = past[s].kept \cup (IF Proc(s) = Proc(r) THEN Written(s) ELSE {})
        BY <1>2, <3>3 DEF Commits, Keeps
      <4>2. past[s].kept = {} /\ Due(s) = {} => past'[s].kept = {}
        BY <1>2, <4>1 DEF Whole
      <4> QED
        BY <1>1, <1>2, <3>1, <4>1, <4>2, ChargedFrame
    <3>4. CASE Rolls(r)
      <4>1. /\ past'[s].charged = past[s].charged /\ past'[s].worth = past[s].worth
            /\ past[s].cut => past'[s].cut
            /\ past'[s].kept = past[s].kept
        BY <3>4 DEF Rolls, Cuts
      <4> QED
        BY <1>1, <1>2, <3>1, <4>1, ChargedFrame
    <3> QED
      BY <2>1, <3>2, <3>3, <3>4
  <2> QED
    BY <2>2, <2>3
<1>4. CASE (\E p \in Procs : Loses(p)) \/ (\E u \in Users : Renames(u)) \/ Outside
  <2>1. /\ req'[s] = req[s]
        /\ past'[s].charged = past[s].charged /\ past'[s].worth = past[s].worth
        /\ past[s].cut => past'[s].cut
        /\ past'[s].kept = past[s].kept
    BY <1>4 DEF Loses, Renames, Outside, Cuts
  <2>2. IsRunning(s) /\ ~ past'[s].cut /\ Job(s).user \in names => Job(s).user \in names'
    BY <1>2, <1>4 DEF Loses, Renames, Outside, Cuts
  <2> QED
    BY <1>1, <1>2, <2>1, <2>2, ChargedFrame
<1>5. CASE \E p \in Procs : Returns(p)
  <2>1. PICK p \in Procs : Returns(p)
    BY <1>5
  <2>2. UNCHANGED <<past, names>>
    BY <2>1 DEF Returns
  <2>3. CASE s \notin Running(p)
    <3>1. req'[s] = req[s]
      BY <2>1, <2>3 DEF Returns
    <3> QED
      BY <1>1, <1>2, <2>2, <3>1, ChargedFrame
  <2>4. CASE s \in Running(p)
    <3>1. req'[s].pc = "end" /\ IsRunning(s) /\ Proc(s) = p /\ ~ Conn(s).up
      BY <2>1, <2>4 DEF Returns, Running, IsRunning, Conn
    <3>2. past[s].cut \/ req[s].pc = "look"
      BY <1>2, <3>1 DEF Whole
    <3> QED
      BY <1>1, <1>2, <2>2, <3>1, <3>2 DEF Charged, IsRunning
  <2> QED
    BY <2>3, <2>4
<1> QED
  BY <1>0, <1>3, <1>4, <1>5, Steps

(* Nothing is booked of a deposit whose card has not been charged, and a     *)
(* deposit whose card has been is booked for its credit, unless Stripe's     *)
(* answer was lost, and then nothing of it is, or the connection or the      *)
(* process was lost under it, its user was renamed, or another thread rolled *)
(* it back.                                                                  *)
THEOREM ChargesAreCredited == Spec => []ChargedIsCredited
<1>1. Init => ChargeInv
  BY StartsWell DEF Init, ApiInit, ChargeInv, Charged, IsRunning
<1>2. ApiInv /\ ChargeInv /\ [Next]_vars => ChargeInv'
  BY ChargeStep
<1>3. ChargeInv => ChargedIsCredited
  BY DEF ChargeInv, IsDeposit, Charged, ChargedIsCredited, Ended
<1> QED
  BY <1>1, <1>2, <1>3, ApiInvariant, PTL DEF Spec

-----------------------------------------------------------------------------
(* Dates.  The transaction that a process with one request at a time holds   *)
(* open began after the request that runs there came, unless a look or a     *)
(* request that was refused left it open.                                    *)

AskedBefore == \A r \in Requests : past[r].asked <= now
BeganInRequest ==
  \A p \in Procs \ plan.threads :
    conn[p].began # Never /\ conn[p].left \cap Excused = {} =>
      \E r \in Requests : Job(r) # NoJob /\ Proc(r) = p /\ IsRunning(r) /\ past[r].asked <= conn[p].began
RowsOfRequests == \A x \in xacts : x.id \in Requests => Job(x.id) # NoJob /\ req[x.id].pc # "new"
LateInv == AskedBefore /\ BeganInRequest /\ RowsOfRequests /\ LateOnlyAfterLooks

LEMMA AskedStep ==
  ASSUME ApiInv, AskedBefore, [Next]_vars
  PROVE  AskedBefore'
<1>0. ApiTypeOK /\ Gone /\ ByOwn /\ now \in Nat /\ (\A s \in Requests : past[s].asked \in Nat)
  BY DEF ApiInv, WholeInv, ApiTypeOK, Pasts
<1>1. now' \in Nat /\ now <= now' /\ \A s \in Requests : past'[s].asked = past[s].asked \/ past'[s].asked = now
  BY <1>0, Steps DEF Quiet, Writing, WritesOne, Local, PastKeeps, Commits, Keeps, Rolls, Loses, Returns, Renames, Outside, Cuts
<1> QED
  BY <1>0, <1>1 DEF AskedBefore

LEMMA RowsStep ==
  ASSUME ApiInv, RowsOfRequests, [Next]_vars
  PROVE  RowsOfRequests'
<1>0. ApiTypeOK /\ Gone /\ ByOwn /\ \A s \in Requests : Job(s) # NoJob => Whole(s)
  BY DEF ApiInv, WholeInv
<1>1. \A s \in Requests : Job(s)' = Job(s)
  BY <1>0, PlanStep, Framed
<1>2. \A s \in Requests : req[s].pc # "new" => req'[s].pc # "new"
  BY <1>0, Steps DEF Quiet, Writing, WritesOne, Local, ReqMoves, Commits, Rolls, Loses, Returns, Renames, Outside
<1>3. \A x \in xacts' \ xacts : x.id \in Requests => Job(x.id) # NoJob /\ Written(x.id) # {}
  BY <1>0, Steps DEF Quiet, Writing, WritesOne, Local, Commits, Saves, Rolls, Loses, Returns, Renames, Outside
<1>4. \A s \in Requests : Job(s) # NoJob /\ Written(s) # {} => req[s].pc # "new"
  BY <1>0, DueWhenRunning DEF Whole, IsRunning
<1> QED
  BY <1>1, <1>2, <1>3, <1>4 DEF RowsOfRequests

LEMMA BeganStep ==
  ASSUME ApiInv, AskedBefore, BeganInRequest, [Next]_vars
  PROVE  BeganInRequest'
<1>0. ApiTypeOK /\ Gone /\ ByOwn /\ now \in Nat
  BY DEF ApiInv, WholeInv, ApiTypeOK
<1>1. \A s \in Requests : Job(s)' = Job(s) /\ Proc(s)' = Proc(s)
  BY <1>0, PlanStep, Framed
<1>2. plan'.threads = plan.threads
  BY <1>0, PlanStep
<1> SUFFICES ASSUME NEW p \in Procs \ plan.threads, conn'[p].began # Never, conn'[p].left \cap Excused = {}
             PROVE  \E q \in Requests :
                      Job(q) # NoJob /\ Proc(q) = p /\ IsRunning(q)' /\ past'[q].asked <= conn'[p].began
  BY <1>1, <1>2 DEF BeganInRequest
<1>3. ASSUME conn'[p].began = conn[p].began, conn'[p].left = conn[p].left
      PROVE  \E q \in Requests : Job(q) # NoJob /\ Proc(q) = p /\ IsRunning(q) /\ past[q].asked <= conn'[p].began
  BY <1>3 DEF BeganInRequest
<1>4. CASE \E r \in Requests : Job(r) # NoJob /\ (Quiet(r) \/ Writing(r))
  <2>1. PICK r \in Requests : Job(r) # NoJob /\ Local(r)
    BY <1>4 DEF Quiet, Writing, WritesOne
  <2>2. /\ \A s \in Requests \ {r} : req'[s] = req[s] /\ past'[s] = past[s]
        /\ req'[r].pc # "new" /\ (past'[r].asked = past[r].asked \/ past'[r].asked = now)
        /\ req[r].pc # "new" => past'[r].asked = past[r].asked
    BY <2>1 DEF Local, ReqMoves, PastKeeps
  <2>3. CASE p # Proc(r)
    <3>1. conn'[p] = conn[p]
      BY <2>1, <2>3 DEF Local, ConnMoves
    <3> QED
      BY <1>3, <2>2, <2>3, <3>1 DEF IsRunning
  <2>4. CASE p = Proc(r)
    <3>1. CASE req'[r].pc # "end" /\ conn'[p].began = now
      <4>1. past'[r].asked <= now
        BY <1>0, <2>2 DEF AskedBefore
      <4> QED
        BY <2>1, <2>2, <2>4, <3>1, <4>1 DEF IsRunning
    <3>2. CASE (req'[r].pc # "end" \/ req[r].pc = "new") /\ conn'[p].began = conn[p].began /\ conn'[p].left = conn[p].left
      <4>1. PICK q \in Requests : Job(q) # NoJob /\ Proc(q) = p /\ IsRunning(q) /\ past[q].asked <= conn'[p].began
        BY <1>3, <3>2
      <4>2. IsRunning(q)' /\ past'[q].asked = past[q].asked
        BY <2>2, <3>2, <4>1 DEF IsRunning
      <4> QED
        BY <4>1, <4>2
    <3> QED
      BY <2>1, <2>4, <3>1, <3>2 DEF Local, Dated, Conn
  <2> QED
    BY <2>3, <2>4
<1>5. CASE \E r \in Requests : Job(r) # NoJob /\ (Commits(r) \/ Rolls(r))
  <2>1. PICK r \in Requests : Job(r) # NoJob /\ (Commits(r) \/ Rolls(r))
    BY <1>5
  <2>2. /\ \A s \in Requests \ {r} : req'[s] = req[s]
        /\ \A s \in Requests : past'[s].asked = past[s].asked
        /\ conn'[Proc(r)].began = Never /\ \A q \in Procs \ {Proc(r)} : conn'[q] = conn[q]
    BY <2>1 DEF Commits, Rolls, ReqMoves, Keeps, Cuts, ConnEmpties
  <2> QED
    BY <1>3, <2>2 DEF IsRunning
<1>6. CASE \E z \in Procs : Loses(z) \/ Returns(z)
  <2>1. PICK z \in Procs : Loses(z) \/ Returns(z)
    BY <1>6
  <2>2. p # z
    BY <1>0, <2>1 DEF Loses, Returns, Gone
  <2>3. conn'[p] = conn[p] /\ \A s \in Requests : past'[s].asked = past[s].asked
    BY <2>1, <2>2 DEF Loses, Returns, Cuts
  <2>4. \A s \in Requests : Proc(s) = p => req'[s] = req[s]
    BY <2>1, <2>2 DEF Loses, Returns, Running
  <2> QED
    BY <1>3, <2>3, <2>4 DEF IsRunning
<1>7. CASE (\E u \in Users : Renames(u)) \/ Outside
  <2>1. UNCHANGED <<req, conn>> /\ \A s \in Requests : past'[s].asked = past[s].asked
    BY <1>7 DEF Renames, Outside, Cuts
  <2> QED
    BY <1>3, <2>1 DEF IsRunning
<1> QED
  BY <1>0, <1>4, <1>5, <1>6, <1>7, Steps

LEMMA LateStep ==
  ASSUME ApiInv, LateInv, [Next]_vars
  PROVE  LateOnlyAfterLooks'
<1>0. /\ ApiTypeOK /\ Gone /\ ByOwn /\ OneAtATime
      /\ \A s \in Requests : Job(s) # NoJob => Whole(s)
      /\ \A s \in Requests : past[s].asked \in Nat
  BY DEF ApiInv, WholeInv, ApiTypeOK, Pasts
<1>1. \A s \in Requests : (Serial(s)' <=> Serial(s))
  BY <1>0, PlanStep, Framed
<1>2. \A s \in Requests : past[s].late \subseteq past'[s].late /\ (req[s].pc # "new" => past'[s].asked = past[s].asked)
  BY <1>0, Steps DEF Quiet, Writing, WritesOne, Local, PastKeeps, Commits, Keeps, Rolls, Loses, Returns, Renames, Outside, Cuts
<1>3. ASSUME NEW x \in xacts' \ xacts, x.id \in Requests, Serial(x.id), x.at < past'[x.id].asked
      PROVE  past'[x.id].late \cap Excused # {}
  <2>1. PICK r \in Requests : Job(r) # NoJob /\ Commits(r)
    BY <1>0, <1>3, Steps DEF Quiet, Writing, WritesOne, Local, Rolls, Loses, Returns, Renames, Outside
  <2>2. /\ Job(x.id) # NoJob /\ Proc(x.id) = Proc(r) /\ Written(x.id) # {}
        /\ x.at = Conn(r).began /\ Conn(r).began # Never /\ Conn(r).left \subseteq past'[r].late
    BY <1>3, <2>1 DEF Commits, Saves, Keeps
  <2>3. IsRunning(x.id)
    BY <1>0, <1>3, <2>2, DueWhenRunning DEF Whole
  <2>4. x.id = r
    <3>1. CASE req[r].pc = "commit"
      BY <1>0, <1>3, <2>1, <2>2, <2>3, <3>1 DEF OneAtATime, IsRunning
    <3>2. CASE MayRun(r)
      BY <1>3, <2>2, <2>3, <3>2 DEF MayRun, Alone, Serial, IsRunning
    <3> QED
      BY <2>1, <3>1, <3>2 DEF Commits
  <2>5. CASE Conn(r).left \cap Excused # {}
    BY <2>2, <2>4, <2>5
  <2>6. CASE Conn(r).left \cap Excused = {}
    <3>1. Proc(r) \in Procs \ plan.threads /\ Conn(r) = conn[Proc(r)]
      BY <1>0, <1>3, <2>1, <2>4, JobFacts DEF Serial, Conn
    <3>2. PICK q \in Requests : Job(q) # NoJob /\ Proc(q) = Proc(r) /\ IsRunning(q) /\ past[q].asked <= Conn(r).began
      BY <2>2, <2>6, <3>1 DEF LateInv, BeganInRequest
    <3>3. q = r
      BY <1>0, <1>3, <2>1, <2>3, <2>4, <3>2 DEF OneAtATime
    <3>4. past'[r].asked = past[r].asked
      BY <1>2, <2>3, <2>4 DEF IsRunning
    <3>5. Conn(r).began \in Int
      BY <2>1, <1>0, JobFacts DEF Conns, Never
    <3> QED
      BY <1>0, <1>3, <2>2, <2>4, <3>2, <3>3, <3>4, <3>5
  <2> QED
    BY <2>5, <2>6
<1>4. ASSUME NEW x \in xacts, x.id \in Requests, Serial(x.id), x.at < past'[x.id].asked
      PROVE  past'[x.id].late \cap Excused # {}
  <2>1. req[x.id].pc # "new"
    BY <1>4 DEF LateInv, RowsOfRequests
  <2> QED
    BY <1>2, <1>4, <2>1 DEF LateInv, LateOnlyAfterLooks, Excused
<1> QED
  BY <1>1, <1>3, <1>4 DEF LateOnlyAfterLooks, Excused

(* In a process with one request at a time a row is dated before its request *)
(* came only when a look or a refused request had left its transaction open. *)
THEOREM LateAfterLooks == Spec => []LateOnlyAfterLooks
<1>1. Init => LateInv
  <2> SUFFICES ASSUME Init PROVE LateInv
    OBVIOUS
  <2>1. AskedBefore
    BY StartsWell DEF Init, ApiInit, AskedBefore, ApiTypeOK
  <2>2. BeganInRequest
    BY DEF Init, ApiInit, BeganInRequest
  <2>3. \A x \in xacts : x.id \notin Requests
    BY WatchersConstants DEF Init, ApiInit
  <2> QED
    BY <2>1, <2>2, <2>3 DEF LateInv, RowsOfRequests, LateOnlyAfterLooks
<1>2. ApiInv /\ LateInv /\ [Next]_vars => LateInv'
  BY AskedStep, BeganStep, RowsStep, LateStep DEF LateInv
<1>3. LateInv => LateOnlyAfterLooks
  BY DEF LateInv
<1> QED
  BY <1>1, <1>2, <1>3, ApiInvariant, PTL DEF Spec
-----------------------------------------------------------------------------
(* Balances and rows.  The sums of the model are those of Sums.              *)

LEMMA TotalIs ==
  ASSUME NEW R, IsFiniteSet(R)
  PROVE  Total(R) = SumOf(R, [x \in R |-> x.value])
<1> DEFINE g == [x \in R |-> x.value]
           Eq(F) == F = [T \in SUBSET R |-> IF T = {} THEN 0
                                            ELSE LET x == CHOOSE x \in T : TRUE
                                                 IN  x.value + F[T \ {x}]]
           F == CHOOSE F : Eq(F)
<1>1. ASSUME NEW G PROVE Eq(G) <=> IsSumOn(G, g, R)
  <2>1. \A T \in SUBSET R : T # {} => g[Chosen(T)] = Chosen(T).value
    BY ChosenIn
  <2> HIDE DEF g
  <2> QED
    BY <2>1, ZenonT(60) DEF IsSumOn, Chosen
<1>2. IsSumOn(F, g, R)
  <2> HIDE DEF g, Eq
  <2>1. \E G : Eq(G)
    BY <1>1, SumOnExists
  <2>2. Eq(F)
    BY <2>1
  <2> HIDE DEF F
  <2> QED
    BY <2>2, <1>1
<1>3. Total(R) = F[R]
  BY DEF Total, Sum
<1> HIDE DEF F, g
<1> QED
  BY <1>2, <1>3, SumOfIs, R \in SUBSET R DEF g

LEMMA WorthIs ==
  ASSUME NEW R, IsFiniteSet(R), NEW h
  PROVE  Sum(R, LAMBDA r : h[r].worth) = SumOf(R, [r \in R |-> h[r].worth])
<1> DEFINE g == [r \in R |-> h[r].worth]
           Eq(F) == F = [T \in SUBSET R |-> IF T = {} THEN 0
                                            ELSE LET x == CHOOSE x \in T : TRUE
                                                 IN  h[x].worth + F[T \ {x}]]
           F == CHOOSE F : Eq(F)
<1>1. ASSUME NEW G PROVE Eq(G) <=> IsSumOn(G, g, R)
  <2>1. \A T \in SUBSET R : T # {} => g[Chosen(T)] = h[Chosen(T)].worth
    BY ChosenIn
  <2> HIDE DEF g
  <2> QED
    BY <2>1, ZenonT(60) DEF IsSumOn, Chosen
<1>2. IsSumOn(F, g, R)
  <2> HIDE DEF g, Eq
  <2>1. \E G : Eq(G)
    BY <1>1, SumOnExists
  <2>2. Eq(F)
    BY <2>1
  <2> HIDE DEF F
  <2> QED
    BY <2>2, <1>1
<1>3. Sum(R, LAMBDA r : h[r].worth) = F[R]
  BY DEF Sum
<1> HIDE DEF F, g
<1> QED
  BY <1>2, <1>3, SumOfIs, R \in SUBSET R DEF g

LEMMA SumForIs ==
  ASSUME NEW w, NEW u, NEW B, B = {n \in DOMAIN w : w[n].what = "balance" /\ w[n].user = u}, IsFiniteSet(B)
  PROVE  SumFor(w, u) = SumOf(B, [n \in B |-> w[n].value])
<1> DEFINE g == [n \in B |-> w[n].value]
           Eq(F) == F = [T \in SUBSET B |-> IF T = {} THEN 0
                                            ELSE LET x == CHOOSE x \in T : TRUE
                                                 IN  w[x].value + F[T \ {x}]]
           F == CHOOSE F : Eq(F)
<1>1. ASSUME NEW G PROVE Eq(G) <=> IsSumOn(G, g, B)
  <2>1. \A T \in SUBSET B : T # {} => g[Chosen(T)] = w[Chosen(T)].value
    BY ChosenIn
  <2> HIDE DEF g
  <2> QED
    BY <2>1, ZenonT(60) DEF IsSumOn, Chosen
<1>2. IsSumOn(F, g, B)
  <2> HIDE DEF g, Eq
  <2>1. \E G : Eq(G)
    BY <1>1, SumOnExists
  <2>2. Eq(F)
    BY <2>1
  <2> HIDE DEF F
  <2> QED
    BY <2>2, <1>1
<1>3. SumFor(w, u) = F[B]
  BY DEF SumFor, Sum
<1> HIDE DEF F, g
<1> QED
  BY <1>2, <1>3, SumOfIs, B \in SUBSET B DEF g
(* What r has on its connection and has committed is what it owes, each half *)
(* once and for the same worth; every row belongs to whoever wrote it; and   *)
(* balances follow what is committed, half by half.                          *)
KeptDue == \A s \in Requests : Job(s) # NoJob /\ req[s].pc # "end" => past[s].kept \subseteq Due(s)
Priced ==
  \A s \in Requests : Job(s) # NoJob /\ Due(s) # {} =>
    past[s].worth = IF Job(s).kind = "deposit" THEN Job(s).credit ELSE req[s].value
Entry(x, h) == x.user = Job(x.by).user /\ x.value = h[x.by].worth /\ x.what \notin h[x.by].kept
Once(w) == \A n, m \in 1 .. Len(w) : w[m].by = w[n].by /\ w[m].what = w[n].what => m = n
OnConns ==
  \A p \in Procs : Once(conn[p].writes) /\ \A n \in 1 .. Len(conn[p].writes) : Entry(conn[p].writes[n], past)
RowsSound ==
  /\ IsFiniteSet(xacts)
  /\ \A x \in xacts :
       /\ x.value \in Int /\ x.id \notin 1 .. plan.others
       /\ x.id \in Requests => Job(x.id) # NoJob /\ "row" \in past[x.id].kept
With(u, what) == {r \in Requests : Job(r) # NoJob /\ Job(r).user = u /\ what \in past[r].kept}
Balanced ==
  \A u \in Users :
    people[u].balance + Worth(With(u, "row"))
      = Opening[u] + Total({x \in xacts : x.user = u}) + Worth(With(u, "balance"))
BookInv == KeptDue /\ Priced /\ OnConns /\ RowsSound /\ people \in [Users -> Account] /\ Balanced

(* The steps again, for what they write: nothing, ...                        *)
Still ==
  /\ UNCHANGED <<people, xacts>>
  /\ plan'.jobs = plan.jobs /\ plan'.threads = plan.threads /\ plan'.others = plan.others
  /\ \A s \in Requests : past'[s].kept = past[s].kept /\ past'[s].worth = past[s].worth
  /\ \A p \in Procs : conn'[p].writes \in {conn[p].writes, <<>>}
  /\ \A s \in Requests : Job(s) # NoJob =>
       req'[s] = req[s] \/ req'[s].pc = "end" \/ (req[s].pc # "end" /\ Due(s) = {} /\ Due(s)' = {})

(* ... one half, ...                                                         *)
NewWrite(r, what, value) ==
  [what |-> what, user |-> Job(r).user, value |-> value, code |-> req[r].code, by |-> r]
Posts(r, what, v) ==
  /\ Job(r) # NoJob /\ what \in Both \ Due(r) /\ v \in Int /\ req[r].pc # "end"
  /\ Due(r)' = Due(r) \cup {what}
  /\ conn'[Proc(r)].writes = Append(Conn(r).writes, NewWrite(r, what, v))
  /\ \A p \in Procs \ {Proc(r)} : conn'[p] = conn[p]
  /\ \A s \in Requests : past'[s].kept = past[s].kept
  /\ \A s \in Requests \ {r} : req'[s] = req[s] /\ past'[s].worth = past[s].worth
  /\ past'[r].worth = v /\ (Due(r) = {} \/ past[r].worth = v)
  /\ v = IF Job(r).kind = "deposit" THEN Job(r).credit ELSE req'[r].value
  /\ UNCHANGED <<people, xacts, plan>>

(* ... or what is on a connection.                                           *)
Books(r, c) ==
  /\ Job(r) # NoJob /\ Commit(r, c) /\ c \in Conns /\ c.writes = Conn(r).writes
  /\ Conn(r).began # Never => c.began = Conn(r).began
  /\ req'[r].pc = "end" /\ \A s \in Requests \ {r} : req'[s] = req[s]

LEMMA PostSteps ==
  ASSUME ApiTypeOK, Priced, NEW r \in Requests, Job(r) # NoJob,
         UpdateDeposit(r) \/ InsertDeposit(r) \/ InsertBuy(r) \/ UpdateBuy(r)
  PROVE  \E what \in Both, v \in Int : Posts(r, what, v)
<1> USE DEF At, Keep, bank
<1>0. /\ req[r] \in Reqs /\ past[r] \in Pasts /\ Conn(r) \in Conns /\ Proc(r) \in Procs
      /\ req \in [Requests -> Reqs] /\ past \in [Requests -> Pasts] /\ conn \in [Procs -> Conns]
      /\ Job(r).kind = "deposit" => Job(r).credit \in Int
  BY JobFacts DEF ApiTypeOK
<1>1. Job(r)' = Job(r)
  BY DEF UpdateDeposit, InsertDeposit, InsertBuy, UpdateBuy, Job
<1>2. ASSUME NEW what \in Both, NEW v \in Int, Using(r, Write(r, what, v))
      PROVE  /\ conn'[Proc(r)].writes = Append(Conn(r).writes, NewWrite(r, what, v))
             /\ \A p \in Procs \ {Proc(r)} : conn'[p] = conn[p]
  <2>1. conn'[Proc(r)] = Write(r, what, v) /\ \A p \in Procs \ {Proc(r)} : conn'[p] = conn[p]
    BY <1>0, <1>2 DEF Using
  <2>2. Opened(Conn(r)).writes = Conn(r).writes /\ Opened(Conn(r)) \in Conns
    BY <1>0, ConnFacts DEF ApiTypeOK
  <2>3. Write(r, what, v).writes = Append(Conn(r).writes, NewWrite(r, what, v))
    <3> HIDE DEF Conn
    <3> QED
      BY <2>2 DEF Write, NewWrite, Conns
  <2> QED
    BY <2>1, <2>3
<1>3. CASE UpdateDeposit(r)
  <2>1. /\ req'[r].pc = "insert" /\ \A s \in Requests \ {r} : req'[s] = req[s] /\ past'[s] = past[s]
        /\ past'[r].worth = Job(r).credit /\ past'[r].kept = past[r].kept
    BY <1>0, <1>3 DEF UpdateDeposit, Goes, Reqs, Pasts
  <2>2. Due(r) = {} /\ Due(r)' = {"balance"}
    BY <1>1, <1>3, <2>1 DEF UpdateDeposit, Due
  <2>3. "balance" \in Both /\ Job(r).credit \in Int
    BY <1>0, <1>3 DEF UpdateDeposit, Both
  <2>4. Posts(r, "balance", Job(r).credit)
    BY <1>2, <1>3, <2>1, <2>2, <2>3 DEF UpdateDeposit, Posts
  <2> QED
    BY <2>3, <2>4
<1>4. CASE InsertDeposit(r)
  <2>1. req'[r].pc = "commit" /\ (\A s \in Requests \ {r} : req'[s] = req[s]) /\ UNCHANGED past
    BY <1>0, <1>4 DEF InsertDeposit, Goes, Reqs
  <2>2. Due(r) = {"balance"} /\ Due(r)' = {"balance", "row"}
    BY <1>1, <1>4, <2>1 DEF InsertDeposit, Due, Both
  <2>3. "row" \in Both /\ Job(r).credit \in Int /\ past[r].worth = Job(r).credit
    BY <1>0, <1>4, <2>2 DEF InsertDeposit, Both, Priced
  <2>4. Posts(r, "row", Job(r).credit)
    BY <1>2, <1>4, <2>1, <2>2, <2>3 DEF InsertDeposit, Posts
  <2> QED
    BY <2>3, <2>4
<1>5. CASE InsertBuy(r)
  <2>1. PICK price \in Prices :
          /\ Using(r, Write(r, "row", -price))
          /\ req' = [req EXCEPT ![r].pc = "update", ![r].value = -price]
          /\ past' = [past EXCEPT ![r].worth = -price]
    BY <1>5 DEF InsertBuy
  <2>2. -price \in Int /\ "row" \in Both
    BY ApiConstants DEF Both
  <2>3. /\ req'[r].pc = "update" /\ req'[r].value = -price
        /\ \A s \in Requests \ {r} : req'[s] = req[s] /\ past'[s] = past[s]
        /\ past'[r].worth = -price /\ past'[r].kept = past[r].kept
    BY <1>0, <2>1 DEF Reqs, Pasts
  <2>4. Due(r) = {} /\ Due(r)' = {"row"}
    BY <1>1, <1>5, <2>3 DEF InsertBuy, Due
  <2>5. Posts(r, "row", -price)
    <3>1. /\ conn'[Proc(r)].writes = Append(Conn(r).writes, NewWrite(r, "row", -price))
          /\ \A p \in Procs \ {Proc(r)} : conn'[p] = conn[p]
      BY <1>2, <2>1, <2>2
    <3>2. /\ Job(r) # NoJob /\ req[r].pc # "end" /\ Job(r).kind # "deposit"
          /\ UNCHANGED <<people, xacts, plan>>
      BY <1>5 DEF InsertBuy
    <3> HIDE DEF Conn
    <3> QED
      BY <2>2, <2>3, <2>4, <3>1, <3>2 DEF Posts
  <2> QED
    BY <2>2, <2>5
<1>6. CASE UpdateBuy(r)
  <2>1. /\ req'[r].pc = "commit" /\ req'[r].value = req[r].value
        /\ (\A s \in Requests \ {r} : req'[s] = req[s]) /\ UNCHANGED past
    BY <1>0, <1>6 DEF UpdateBuy, Goes, Reqs
  <2>2. Due(r) = {"row"} /\ Due(r)' = {"balance", "row"}
    BY <1>1, <1>6, <2>1 DEF UpdateBuy, Due, Both
  <2>3. "balance" \in Both /\ req[r].value \in Int /\ past[r].worth = req[r].value
    BY <1>0, <1>6, <2>2 DEF UpdateBuy, Both, Priced, Reqs
  <2>4. Posts(r, "balance", req[r].value)
    BY <1>2, <1>6, <2>1, <2>2, <2>3 DEF UpdateBuy, Posts
  <2> QED
    BY <2>3, <2>4
<1> QED
  BY <1>3, <1>4, <1>5, <1>6
LEMMA StillActs ==
  ASSUME ApiTypeOK, Gone, NEW r \in Requests, Job(r) # NoJob,
         \/ BeginDeposit(r) \/ LookDeposit(r) \/ Charge(r) \/ GetUserid(r)
         \/ Fail(r) \/ Renew(r) \/ BeginBuy(r) \/ LookBuy(r) \/ ReadOpen(r) \/ ReadFails(r)
         \/ InsertNothing(r)
  PROVE  Still
<1> USE DEF At, Keep, bank
<1>0. /\ past \in [Requests -> Pasts] /\ req[r].pc \in Points(Job(r).kind)
  BY JobFacts DEF ApiTypeOK
<1>1. UNCHANGED <<people, xacts, plan>>
  BY DEF BeginDeposit, Begin, LookDeposit, Charge, GetUserid, Fail, Renew, BeginBuy, LookBuy, ReadOpen, ReadFails, InsertNothing
<1>2. \A s \in Requests : past'[s].worth = past[s].worth
  <2>1. CASE UNCHANGED past
    BY <2>1
  <2>2. CASE past' = [past EXCEPT ![r].asked = now] \/ \E taken : past' = [past EXCEPT ![r].charged = taken]
    BY <1>0, <2>2 DEF Pasts
  <2>3. CASE CutShort(Running(Proc(r)) \ {r})
    BY <2>3, CutFacts DEF Cuts
  <2> QED
    BY <2>1, <2>2, <2>3 DEF BeginDeposit, Begin, LookDeposit, Charge, GetUserid, Fail, Renew, BeginBuy, LookBuy, ReadOpen, ReadFails, InsertNothing
<1>3. Quiet(r) \/ Rolls(r)
  BY QuietDeposits, QuietOthers, RollSteps
<1>4. /\ \A s \in Requests : past'[s].kept = past[s].kept
      /\ \A p \in Procs : conn'[p].writes \in {conn[p].writes, <<>>}
      /\ \A s \in Requests \ {r} : req'[s] = req[s]
      /\ Due(r)' = {}
  BY <1>3 DEF Quiet, Local, PastKeeps, ConnMoves, ReqMoves, Rolls, Cuts, ConnEmpties, Conn
<1>5. req'[r].pc = "end" \/ (req[r].pc # "end" /\ Due(r) = {})
  <2>1. CASE Fail(r) \/ Renew(r) \/ ReadOpen(r) \/ ReadFails(r)
    BY <2>1, AnswersFacts DEF Fail, Renew, ReadOpen, ReadFails, AllAnswers
  <2>2. CASE \/ BeginDeposit(r) \/ LookDeposit(r) \/ Charge(r) \/ GetUserid(r)
             \/ BeginBuy(r) \/ LookBuy(r) \/ InsertNothing(r)
    BY <1>0, <2>2 DEF Due, Points, BeginDeposit, Begin, LookDeposit, Charge, GetUserid, BeginBuy, LookBuy, InsertNothing
  <2> QED
    BY <2>1, <2>2
<1> QED
  BY <1>1, <1>2, <1>4, <1>5 DEF Still

LEMMA StillOthers ==
  ASSUME ApiTypeOK,
         \/ \E p \in Procs : Drop(p) \/ Restart(p)
         \/ \E u \in Users : Rename(u)
         \/ Tick \/ UNCHANGED vars
         \/ Handle \/ Stop \/ StartUp \/ Listen \/ KegHears \/ KegStatus \/ KegRestart \/ KegJoins
  PROVE  Still
<1> USE DEF bank, api
<1>0. plan \in AllPlans
  BY DEF ApiTypeOK
<1>1. ASSUME UNCHANGED <<people, xacts, conn, req, past>>,
             plan'.jobs = plan.jobs /\ plan'.threads = plan.threads /\ plan'.others = plan.others
      PROVE  Still
  BY <1>1 DEF Still
<1>2. CASE Tick \/ UNCHANGED vars
  BY <1>0, <1>1, <1>2 DEF Tick, vars, AllPlans
<1>3. CASE Handle \/ Stop \/ StartUp \/ Listen \/ KegHears \/ KegStatus \/ KegRestart \/ KegJoins
  BY <1>0, <1>1, <1>3 DEF Handle, Stop, StartUp, Listen, KegHears, KegStatus, KegRestart, KegJoins, AllPlans
<1>4. CASE \E u \in Users : Rename(u)
  <2>1. PICK u \in Users : Rename(u)
    BY <1>4
  <2>2. PICK S : CutShort(S)
    BY <2>1 DEF Rename
  <2>3. plan'.jobs = plan.jobs /\ plan'.threads = plan.threads /\ plan'.others = plan.others
    BY <1>0, <2>1 DEF Rename, AllPlans
  <2> QED
    BY <2>1, <2>2, <2>3, CutFacts DEF Rename, Cuts, Still
<1>5. CASE \E p \in Procs : Drop(p)
  <2>1. PICK p \in Procs : Drop(p)
    BY <1>5
  <2>2. plan'.jobs = plan.jobs /\ plan'.threads = plan.threads /\ plan'.others = plan.others
    BY <1>0, <2>1 DEF Drop, AllPlans
  <2>3. Loses(p) /\ UNCHANGED people
    BY <2>1, ProcessSteps DEF Drop
  <2> QED
    BY <2>2, <2>3 DEF Loses, Cuts, Still
<1>6. CASE \E p \in Procs : Restart(p)
  <2>1. PICK p \in Procs : Restart(p)
    BY <1>6
  <2>2. Returns(p) /\ UNCHANGED people
    BY <2>1, ProcessSteps DEF Restart
  <2>3. /\ \A s \in Requests : req'[s] = req[s] \/ req'[s].pc = "end"
        /\ \A q \in Procs : conn'[q].writes = conn[q].writes
    BY <2>2 DEF Returns
  <2> QED
    BY <2>2, <2>3 DEF Returns, Still
<1> QED
  BY <1>2, <1>3, <1>4, <1>5, <1>6

LEMMA BookActs ==
  ASSUME ApiTypeOK, NEW r \in Requests, Job(r) # NoJob, Committed(r) \/ Authenticate(r) \/ Read(r)
  PROVE  \E c \in Conns : Books(r, c) /\ UNCHANGED plan
<1>0. Conn(r) \in Conns /\ now \in Nat
  BY JobFacts DEF ApiTypeOK
<1>1. /\ Opened(Conn(r)) \in Conns /\ Opened(Conn(r)).writes = Conn(r).writes
      /\ Conn(r).began # Never => Opened(Conn(r)).began = Conn(r).began
  BY <1>0, ConnFacts
<1>2. req'[r].pc = "end" /\ \A s \in Requests \ {r} : req'[s] = req[s]
  BY AnswersFacts DEF Committed, Authenticate, Read, AllAnswers
<1>3. PICK c \in {Conn(r), Opened(Conn(r))} : Commit(r, c)
  BY DEF Committed, Authenticate, Read
<1>4. UNCHANGED plan
  BY <1>3 DEF Commit
<1> QED
  BY <1>0, <1>1, <1>2, <1>3, <1>4 DEF Books

LEMMA BookSteps ==
  ASSUME ApiTypeOK, Gone, Priced, [Next]_vars
  PROVE  \/ Still \/ BySodad
         \/ \E r \in Requests, what \in Both, v \in Int : Posts(r, what, v)
         \/ \E r \in Requests, c \in Conns : Books(r, c) /\ UNCHANGED plan
<1>1. ASSUME NEW r \in Requests, Job(r) # NoJob, Committed(r) \/ Authenticate(r) \/ Read(r)
      PROVE  \E c \in Conns : Books(r, c) /\ UNCHANGED plan
  BY <1>1, BookActs
<1>2. CASE ApiNext
  <2>1. CASE \E r \in Requests : Job(r) # NoJob /\ Acts(r)
    <3>1. PICK r \in Requests : Job(r) # NoJob /\ Acts(r)
      BY <2>1
    <3> QED
      BY <1>1, <3>1, StillActs, PostSteps DEF Acts
  <2> QED
    BY <1>2, <2>1, StillOthers DEF ApiNext, Acts
<1> QED
  BY <1>2, StillOthers DEF Next, ByApi
LEMMA WithFinite ==
  ASSUME NEW u, NEW what
  PROVE  IsFiniteSet(With(u, what)) /\ With(u, what) \subseteq Requests
<1>1. With(u, what) \subseteq Requests
  BY DEF With
<1> QED
  BY <1>1, ApiConstants, FS_Subset

(* What a step that commits nothing leaves of the sums.                      *)
LEMMA WorthSame ==
  ASSUME plan'.jobs = plan.jobs, NEW u, NEW what,
         \A s \in Requests : past'[s].kept = past[s].kept,
         \A s \in Requests : Job(s) # NoJob /\ what \in past[s].kept => past'[s].worth = past[s].worth
  PROVE  With(u, what)' = With(u, what) /\ Worth(With(u, what))' = Worth(With(u, what))
<1> DEFINE R == With(u, what)
<1>1. With(u, what)' = R
  BY DEF With, Job
<1>2. IsFiniteSet(R)
  BY WithFinite
<1>3. \A r \in R : past'[r].worth = past[r].worth
  BY DEF With
<1> HIDE DEF R
<1> DEFINE g == [r \in R |-> past[r].worth]
           h == [r \in R |-> past'[r].worth]
<1>4. Sum(R, LAMBDA r : past[r].worth) = SumOf(R, g)
  BY <1>2, WorthIs
<1>5. Sum(R, LAMBDA r : past'[r].worth) = SumOf(R, h)
  BY <1>2, WorthIs
<1>6. SumOf(R, g) = SumOf(R, h)
  <2>1. \A r \in R : g[r] = h[r]
    BY <1>3
  <2> HIDE DEF g, h
  <2> QED
    BY <1>2, <2>1, SumOfSame
<1>7. Worth(R) = Sum(R, LAMBDA r : past[r].worth)
  BY DEF Worth
<1>8. Worth(With(u, what))' = Sum(R, LAMBDA r : past'[r].worth)
  BY <1>1 DEF Worth, Sum
<1> QED
  BY <1>1, <1>4, <1>5, <1>6, <1>7, <1>8 DEF R

LEMMA OnConnsThen ==
  ASSUME plan'.jobs = plan.jobs
  PROVE  OnConns' <=> \A p \in Procs : /\ Once(conn'[p].writes)
                                       /\ \A n \in 1 .. Len(conn'[p].writes) : Entry(conn'[p].writes[n], past')
BY DEF OnConns, Once, Entry, Job

LEMMA StillKeeps ==
  ASSUME ApiTypeOK, BookInv, Still
  PROVE  BookInv'
<1>1. /\ \A s \in Requests : Job(s)' = Job(s)
      /\ \A s \in Requests : req'[s] = req[s] => Due(s)' = Due(s)
      /\ \A s \in Requests : req'[s].pc = "end" => Due(s)' = {}
  BY DEF Still, Job, Due
<1>2. KeptDue'
  <2> SUFFICES ASSUME NEW s \in Requests, Job(s) # NoJob, req'[s].pc # "end"
               PROVE  past'[s].kept \subseteq Due(s)'
    BY <1>1 DEF KeptDue
  <2>1. past'[s].kept = past[s].kept
    BY DEF Still
  <2>2. req[s].pc # "end" => past[s].kept \subseteq Due(s)
    BY DEF BookInv, KeptDue
  <2>3. req'[s] = req[s] \/ (req[s].pc # "end" /\ Due(s) = {} /\ Due(s)' = {})
    BY DEF Still
  <2> QED
    BY <1>1, <2>1, <2>2, <2>3
<1>3. Priced'
  BY <1>1 DEF BookInv, Priced, Still
<1>4. OnConns'
  <2> SUFFICES ASSUME NEW p \in Procs
               PROVE  Once(conn'[p].writes) /\ \A n \in 1 .. Len(conn'[p].writes) : Entry(conn'[p].writes[n], past')
    BY OnConnsThen DEF Still
  <2>1. CASE conn'[p].writes = <<>>
    BY <2>1 DEF Once
  <2>2. CASE conn'[p].writes = conn[p].writes
    <3>1. Once(conn[p].writes) /\ \A n \in 1 .. Len(conn[p].writes) : Entry(conn[p].writes[n], past)
      BY DEF BookInv, OnConns
    <3>2. ASSUME NEW n \in 1 .. Len(conn[p].writes) PROVE Entry(conn[p].writes[n], past) => Entry(conn'[p].writes[n], past')
      <4>1. conn[p].writes[n].by \in Requests
        <5>1. conn[p].writes \in Seq(Writes)
          BY DEF ApiTypeOK, Conns
        <5>2. conn[p].writes[n] \in Writes
          BY <5>1, ElementOfSeq
        <5> QED
          BY <5>2 DEF Writes
      <4> QED
        BY <1>1, <2>2, <4>1 DEF Entry, Still
    <3> QED
      BY <2>2, <3>1, <3>2
  <2> QED
    BY <2>1, <2>2 DEF Still
<1>5. RowsSound'
  BY <1>1 DEF BookInv, RowsSound, Still
<1>6. (people \in [Users -> Account])'
  BY DEF BookInv, Still
<1>7. Balanced'
  <2>1. \A u \in Users, what \in Both : Worth(With(u, what))' = Worth(With(u, what))
    BY WorthSame DEF Still
  <2>2. "row" \in Both /\ "balance" \in Both
    BY DEF Both
  <2> QED
    BY <2>1, <2>2 DEF BookInv, Balanced, Still
<1> QED
  BY <1>2, <1>3, <1>4, <1>5, <1>6, <1>7 DEF BookInv

LEMMA PostsKeeps ==
  ASSUME ApiTypeOK, WholeInv, BookInv,
         NEW r \in Requests, NEW what \in Both, NEW v \in Int, Posts(r, what, v)
  PROVE  BookInv'
<1>0. /\ Job(r) # NoJob /\ Proc(r) \in Procs /\ Conn(r) = conn[Proc(r)] /\ Conn(r) \in Conns
      /\ Job(r).kind \in {"deposit", "buy", "login", "renew", "stats", "look"}
  BY JobFacts DEF Posts, Conn
<1>1. /\ \A s \in Requests : Job(s)' = Job(s)
      /\ \A s \in Requests \ {r} : Due(s)' = Due(s)
  BY DEF Posts, Job, Due
<1>2. /\ past[r].kept \subseteq Due(r) /\ Written(r) \subseteq Due(r)
      /\ \A s \in Requests : Job(s) # NoJob /\ past[s].kept # {} => past'[s].worth = past[s].worth
      /\ Written(r) # {} => past'[r].worth = past[r].worth
  <2>1. past[r].kept \subseteq Due(r)
    BY DEF Posts, BookInv, KeptDue
  <2>2. Written(r) \subseteq Due(r)
    BY <1>0 DEF WholeInv, Whole
  <2> QED
    BY <2>1, <2>2 DEF Posts
<1>3. KeptDue'
  BY <1>1, <1>2 DEF BookInv, KeptDue, Posts
<1>4. Priced'
  BY <1>1 DEF BookInv, Priced, Posts
<1>5. OnConns'
  <2> DEFINE w == Conn(r).writes
             x == NewWrite(r, what, v)
  <2>1. w \in Seq(Writes) /\ Len(w) \in Nat
    BY <1>0, LenProperties DEF Conns
  <2>2. /\ Len(Append(w, x)) = Len(w) + 1 /\ Append(w, x)[Len(w) + 1] = x
        /\ \A n \in 1 .. Len(w) : Append(w, x)[n] = w[n]
    BY <2>1
  <2>3. /\ x.user = Job(r).user /\ x.value = v /\ x.what = what /\ x.by = r
    BY DEF NewWrite
  <2>4. \A n \in 1 .. Len(w) : ~(w[n].by = r /\ w[n].what = what)
    BY <1>2 DEF Written, Posts
  <2>5. Once(w) /\ \A n \in 1 .. Len(w) : Entry(w[n], past)
    BY <1>0 DEF BookInv, OnConns
  <2>6. \A p \in Procs : \A n \in 1 .. Len(conn[p].writes) :
          Entry(conn[p].writes[n], past) => Entry(conn[p].writes[n], past')
    <3> TAKE p \in Procs
    <3> TAKE n \in 1 .. Len(conn[p].writes)
    <3> DEFINE y == conn[p].writes[n]
    <3>1. y \in Writes
      <4>1. conn[p].writes \in Seq(Writes)
        BY DEF ApiTypeOK, Conns
      <4> QED
        BY <4>1, ElementOfSeq
    <3>2. y.by \in Requests /\ y.what \in Both
      BY <3>1 DEF Writes
    <3>3. past'[y.by].worth = past[y.by].worth /\ past'[y.by].kept = past[y.by].kept
      <4>1. CASE y.by # r
        BY <3>2, <4>1 DEF Posts
      <4>2. CASE y.by = r
        <5>1. Proc(r) = p
          BY <4>2 DEF WholeInv, ByOwn
        <5>2. y.what \in Written(r)
          BY <1>0, <3>2, <4>2, <5>1 DEF Written
        <5> QED
          BY <1>2, <4>2, <5>2 DEF Posts
      <4> QED
        BY <4>1, <4>2
    <3> QED
      BY <1>1, <3>2, <3>3 DEF Entry
  <2>7. Entry(x, past')
    BY <1>1, <1>2, <2>3 DEF Entry, Posts
  <2> SUFFICES ASSUME NEW p \in Procs
               PROVE  Once(conn'[p].writes) /\ \A n \in 1 .. Len(conn'[p].writes) : Entry(conn'[p].writes[n], past')
    BY OnConnsThen DEF Posts
  <2>8. CASE p # Proc(r)
    BY <2>6, <2>8 DEF BookInv, OnConns, Posts
  <2>9. CASE p = Proc(r)
    <3>1. conn'[p].writes = Append(w, x)
      BY <2>9 DEF Posts
    <3> HIDE DEF x
    <3>2. Once(Append(w, x))
      <4> SUFFICES ASSUME NEW n \in 1 .. Len(w) + 1, NEW m \in 1 .. Len(w) + 1,
                          Append(w, x)[m].by = Append(w, x)[n].by, Append(w, x)[m].what = Append(w, x)[n].what
                   PROVE  m = n
        BY <2>2 DEF Once
      <4>1. CASE n \in 1 .. Len(w) /\ m \in 1 .. Len(w)
        BY <2>2, <2>5, <4>1 DEF Once
      <4>2. CASE n \in 1 .. Len(w) /\ m = Len(w) + 1
        BY <2>2, <2>3, <2>4, <4>2
      <4>3. CASE n = Len(w) + 1 /\ m \in 1 .. Len(w)
        BY <2>2, <2>3, <2>4, <4>3
      <4>4. \A i \in 1 .. Len(w) + 1 : i \in 1 .. Len(w) \/ i = Len(w) + 1
        BY <2>1
      <4> QED
        BY <4>1, <4>2, <4>3, <4>4
    <3>3. \A n \in 1 .. Len(w) : Entry(w[n], past')
      BY <1>0, <2>5, <2>6
    <3>4. \A n \in 1 .. Len(Append(w, x)) : Entry(Append(w, x)[n], past')
      BY <2>1, <2>2, <2>7, <3>3
    <3> QED
      BY <3>1, <3>2, <3>4
  <2> QED
    BY <2>8, <2>9
<1>6. RowsSound'
  BY <1>1 DEF BookInv, RowsSound, Posts
<1>7. (people \in [Users -> Account])'
  BY DEF BookInv, Posts
<1>8. Balanced'
  <2>1. \A u \in Users, half \in Both : Worth(With(u, half))' = Worth(With(u, half))
    <3> TAKE u \in Users, half \in Both
    <3>1. \A s \in Requests : Job(s) # NoJob /\ half \in past[s].kept => past'[s].worth = past[s].worth
      BY <1>2
    <3> QED
      BY <3>1, WorthSame DEF Posts
  <2>2. "row" \in Both /\ "balance" \in Both
    BY DEF Both
  <2> QED
    BY <2>1, <2>2 DEF BookInv, Balanced, Posts
<1> QED
  BY <1>3, <1>4, <1>5, <1>6, <1>7, <1>8 DEF BookInv
(* A set of sums that grows by the members of another.                       *)
LEMMA WorthGrows ==
  ASSUME plan'.jobs = plan.jobs, NEW u, NEW what, NEW N, IsFiniteSet(N),
         With(u, what)' = With(u, what) \cup N, With(u, what) \cap N = {}, N \subseteq Requests,
         \A s \in Requests : past[s].worth \in Int /\ past'[s].worth = past[s].worth
  PROVE  /\ Worth(With(u, what)) \in Int
         /\ SumOf(N, [s \in Requests |-> past[s].worth]) \in Int
         /\ Worth(With(u, what))' = Worth(With(u, what)) + SumOf(N, [s \in Requests |-> past[s].worth])
<1> DEFINE R == With(u, what)
           k == [s \in Requests |-> past[s].worth]
           g == [s \in R |-> past[s].worth]
           h == [s \in R \cup N |-> past'[s].worth]
<1>1. IsFiniteSet(R) /\ R \subseteq Requests
  BY WithFinite
<1>2. Worth(R) = Sum(R, LAMBDA s : past[s].worth)
  BY DEF Worth
<1>3. Worth(With(u, what))' = Sum(R \cup N, LAMBDA s : past'[s].worth)
  BY DEF Worth, Sum
<1> HIDE DEF R
<1>4. IsFiniteSet(R \cup N)
  BY <1>1, FS_Union
<1>5. Sum(R, LAMBDA s : past[s].worth) = SumOf(R, g)
  BY <1>1, WorthIs
<1>6. Sum(R \cup N, LAMBDA s : past'[s].worth) = SumOf(R \cup N, h)
  BY <1>4, WorthIs
<1>7. /\ \A s \in R : g[s] = k[s]
      /\ \A s \in R \cup N : h[s] = k[s] /\ k[s] \in Int
  BY <1>1
<1> HIDE DEF g, h, k
<1>8. SumOf(R, g) = SumOf(R, k)
  BY <1>1, <1>7, SumOfSame
<1>9. SumOf(R \cup N, h) = SumOf(R \cup N, k)
  BY <1>4, <1>7, SumOfSame
<1>10. R \cap N = {}
  BY DEF R
<1>11. SumOf(R \cup N, k) = SumOf(R, k) + SumOf(N, k)
  <2>1. Splits(R \cup N, R, N) /\ IntegersOn(k, R \cup N)
    BY <1>7, <1>10 DEF Splits, IntegersOn
  <2> QED
    BY <1>1, <2>1, SumOfUnion
<1>12. SumOf(R, k) \in Int /\ SumOf(N, k) \in Int
  BY <1>1, <1>7, SumOfInt
<1> QED
  BY <1>2, <1>3, <1>5, <1>6, <1>8, <1>9, <1>11, <1>12 DEF R, k

(* The rows of a user that grow by the members of another set.               *)
LEMMA TotalGrows ==
  ASSUME NEW R, IsFiniteSet(R), NEW N, IsFiniteSet(N), R \cap N = {},
         \A x \in R \cup N : x.value \in Int
  PROVE  /\ Total(R) \in Int /\ Total(N) \in Int
         /\ Total(R \cup N) = Total(R) + Total(N)
<1> DEFINE k == [x \in R \cup N |-> x.value]
           g == [x \in R |-> x.value]
           h == [x \in N |-> x.value]
<1>1. IsFiniteSet(R \cup N)
  BY FS_Union
<1>2. Total(R) = SumOf(R, g) /\ Total(N) = SumOf(N, h) /\ Total(R \cup N) = SumOf(R \cup N, k)
  BY <1>1, TotalIs
<1>3. /\ \A x \in R : g[x] = k[x]
      /\ \A x \in N : h[x] = k[x]
      /\ \A x \in R \cup N : k[x] \in Int
  OBVIOUS
<1> HIDE DEF g, h, k
<1>4. SumOf(R, g) = SumOf(R, k)
  BY <1>3, SumOfSame
<1>5. SumOf(N, h) = SumOf(N, k)
  BY <1>3, SumOfSame
<1>6. SumOf(R \cup N, k) = SumOf(R, k) + SumOf(N, k)
  <2>1. Splits(R \cup N, R, N) /\ IntegersOn(k, R \cup N)
    BY <1>3 DEF Splits, IntegersOn
  <2> QED
    BY <2>1, SumOfUnion
<1>7. SumOf(R, k) \in Int /\ SumOf(N, k) \in Int
  BY <1>3, SumOfInt
<1> QED
  BY <1>2, <1>4, <1>5, <1>6, <1>7

(* Of a connection's writes w, those of one half for a user: which they are, *)
(* who wrote them, and what they come to.                                    *)
Halves(w, what, u) == {n \in DOMAIN w : w[n].what = what /\ w[n].user = u}
Writers(w, what, u) == {w[n].by : n \in Halves(w, what, u)}
SumIn(w, what, u) == SumOf(Halves(w, what, u), [n \in Halves(w, what, u) |-> w[n].value])

(* They come to what their requests are worth, and to the rows they become.  *)
LEMMA Entered ==
  ASSUME NEW w, w \in Seq(Writes), Once(w), \A n \in 1 .. Len(w) : Entry(w[n], past),
         ApiTypeOK, NEW u, NEW what
  PROVE  /\ IsFiniteSet(Halves(w, what, u)) /\ IsFiniteSet(Writers(w, what, u))
         /\ SumIn(w, what, u) \in Int
         /\ SumOf(Writers(w, what, u), [s \in Requests |-> past[s].worth]) = SumIn(w, what, u)
<1> DEFINE B == Halves(w, what, u)
<1>10. B = {n \in DOMAIN w : w[n].what = what /\ w[n].user = u}
  BY DEF Halves
<1> HIDE DEF B
<1>0. PICK m, g, k : /\ m = [n \in B |-> w[n].by]
                     /\ g = [n \in B |-> w[n].value]
                     /\ k = [s \in Requests |-> past[s].worth]
  OBVIOUS
<1>1. DOMAIN w = 1 .. Len(w) /\ Len(w) \in Nat
  BY LenProperties
<1>2. IsFiniteSet(B)
  <2>1. IsFiniteSet(1 .. Len(w))
    BY <1>1, FS_Interval, 1 \in Int, Len(w) \in Int, Zenon
  <2> QED
    BY <1>1, <1>10, <2>1, FS_Subset
<1>3. \A n \in B : w[n] \in Writes /\ Entry(w[n], past)
  BY <1>1, <1>10, ElementOfSeq
<1>4. \A n \in B : w[n].by \in Requests /\ w[n].value \in Int /\ w[n].value = past[w[n].by].worth
  BY <1>3 DEF Writes, Entry
<1>5. \A n \in B : g[n] \in Int /\ g[n] = k[m[n]]
  BY <1>0, <1>4
<1>6. \A n, l \in B : m[n] = m[l] => n = l
  BY <1>0, <1>1, <1>10 DEF Once
<1>7. {w[n].by : n \in B} = {m[n] : n \in B}
  BY <1>0
<1>8. LET R == {m[n] : n \in B} IN IsFiniteSet(R) /\ SumOf(R, k) = SumOf(B, g)
  BY ONLY <1>2, <1>5, <1>6, SumOfImage
<1>9. SumOf(B, g) \in Int
  BY <1>2, <1>5, SumOfInt
<1> QED
  BY <1>2, <1>7, <1>8, <1>9, <1>0 DEF Writers, SumIn, B
LEMMA RowsTotal ==
  ASSUME NEW w, w \in Seq(Writes), Once(w), NEW at, NEW u, IsFiniteSet(Halves(w, "row", u))
  PROVE  LET R == {x \in RowsOf(w, at) : x.user = u}
         IN  IsFiniteSet(R) /\ Total(R) = SumIn(w, "row", u)
<1> DEFINE B == Halves(w, "row", u)
<1>11. IsFiniteSet(B) /\ B = {n \in DOMAIN w : w[n].what = "row" /\ w[n].user = u}
  BY DEF Halves
<1> HIDE DEF B
<1> DEFINE row(n) == [id |-> w[n].by, at |-> at, user |-> w[n].user, value |-> w[n].value, code |-> w[n].code, cash |-> FALSE]
           R == {x \in RowsOf(w, at) : x.user = u}
<1>0. PICK m, g, k : /\ m = [n \in B |-> row(n)]
                     /\ g = [n \in B |-> w[n].value]
                     /\ k = [x \in R |-> x.value]
  OBVIOUS
<1>1. DOMAIN w = 1 .. Len(w) /\ \A n \in B : w[n].value \in Int
  <2>1. DOMAIN w = 1 .. Len(w) /\ \A n \in 1 .. Len(w) : w[n] \in Writes
    BY LenProperties, ElementOfSeq
  <2> QED
    BY <1>11, <2>1 DEF Writes
<1>2. R = {row(n) : n \in B}
  BY <1>11 DEF RowsOf
<1>3. \A n \in B : row(n) \in R /\ row(n).value = w[n].value /\ row(n).id = w[n].by
  BY <1>2
<1>4. \A n \in B : m[n] = row(n)
  BY <1>0
<1> HIDE DEF R, row
<1>5. R = {m[n] : n \in B}
  BY <1>2, <1>4
<1>6. \A n \in B : g[n] \in Int /\ g[n] = k[m[n]]
  BY <1>0, <1>1, <1>3, <1>4
<1>7. \A n, l \in B : m[n] = m[l] => n = l
  <2> SUFFICES ASSUME NEW n \in B, NEW l \in B, m[n] = m[l] PROVE n = l
    OBVIOUS
  <2>1. w[n].by = w[l].by /\ w[n].what = w[l].what /\ n \in 1 .. Len(w) /\ l \in 1 .. Len(w)
    BY <1>1, <1>3, <1>4, <1>11
  <2> QED
    BY <2>1 DEF Once
<1>8. LET Im == {m[n] : n \in B} IN IsFiniteSet(Im) /\ SumOf(Im, k) = SumOf(B, g)
  BY ONLY <1>11, <1>6, <1>7, SumOfImage, SMTT(60)
<1>9. IsFiniteSet(R) /\ SumOf(R, k) = SumOf(B, g)
  BY <1>5, <1>8
<1>10. Total(R) = SumOf(R, k)
  BY <1>0, <1>9, TotalIs
<1> QED
  BY <1>0, <1>9, <1>10 DEF R, SumIn, B

(* What a commit does, by what was on the connection.                        *)
Booking(w, at, u) ==
  IF Halves(w, "balance", u) # {} THEN Moved(u, SumFor(w, u), NoCode, at) ELSE people[u]

LEMMA BooksFacts ==
  ASSUME ApiTypeOK, WholeInv, NEW r \in Requests, NEW c \in Conns, Books(r, c), NEW w, w = Conn(r).writes
  PROVE  /\ w = conn[Proc(r)].writes /\ Proc(r) \in Procs
         /\ \A s \in Requests :
              past'[s].kept = past[s].kept \cup WrittenBy(w, s) /\ past'[s].worth = past[s].worth
         /\ conn'[Proc(r)].writes = <<>> /\ \A p \in Procs \ {Proc(r)} : conn'[p] = conn[p]
         /\ xacts' = xacts \cup RowsOf(w, c.began)
         /\ people' = [u \in Users |-> people'[u]]
         /\ \A u \in Users : people'[u] = Booking(w, c.began, u)
         /\ w # <<>> => c.began \in Nat
         /\ UNCHANGED plan
<1>0. Job(r) # NoJob /\ Commit(r, c) /\ c.writes = w /\ Proc(r) \in Procs /\ w = conn[Proc(r)].writes
  BY JobFacts DEF Books, Conn
<1>1. past' = [s \in Requests |->
        [past[s] EXCEPT !.kept = @ \cup WrittenBy(c.writes, s),
                        !.late = IF s = r THEN past[r].late \cup c.left ELSE @]]
  BY <1>0 DEF Commit, WrittenBy
<1>2. \A s \in Requests : past'[s].kept = past[s].kept \cup WrittenBy(w, s) /\ past'[s].worth = past[s].worth
  BY <1>0, <1>1 DEF ApiTypeOK, Pasts
<1>3. conn'[Proc(r)].writes = <<>> /\ \A p \in Procs \ {Proc(r)} : conn'[p] = conn[p]
  <2>1. Closed(c) \in Conns /\ Closed(c).writes = <<>>
    BY ConnFacts DEF ApiTypeOK
  <2>2. Using(r, Closed(c))
    BY <1>0 DEF Commit
  <2> QED
    BY <1>0, <2>1, <2>2, UsingFacts
<1>4. w # <<>> => c.began \in Nat
  <2>1. w # <<>> => Conn(r).began # Never /\ Conn(r) = conn[Proc(r)]
    BY <1>0 DEF WholeInv, Gone, Conn
  <2>2. Conn(r).began # Never => c.began # Never
    BY DEF Books
  <2> QED
    BY <2>1, <2>2 DEF Conns
<1>5. people' = [u \in Users |-> people'[u]]
      /\ \A u \in Users : people'[u] = Booking(w, c.began, u)
  <2>1. people' = [u \in Users |-> IF \E n \in DOMAIN c.writes : c.writes[n].what = "balance" /\ c.writes[n].user = u
                                    THEN Moved(u, SumFor(c.writes, u), NoCode, c.began) ELSE people[u]]
    BY <1>0 DEF Commit
  <2>2. \A u : Halves(w, "balance", u) # {} <=> \E n \in DOMAIN c.writes : c.writes[n].what = "balance" /\ c.writes[n].user = u
    BY <1>0 DEF Halves
  <2> QED
    BY <1>0, <2>1, <2>2 DEF Booking
<1> QED
  BY <1>0, <1>2, <1>3, <1>4, <1>5 DEF Commit
LEMMA BooksOthers ==
  ASSUME ApiTypeOK, WholeInv, BookInv, NEW r \in Requests, NEW c \in Conns, Books(r, c)
  PROVE  KeptDue' /\ Priced' /\ OnConns'
<1> DEFINE w == Conn(r).writes
<1>0. /\ Proc(r) \in Procs /\ w = conn[Proc(r)].writes
      /\ \A s \in Requests :
           past'[s].kept = past[s].kept \cup WrittenBy(w, s) /\ past'[s].worth = past[s].worth
      /\ conn'[Proc(r)].writes = <<>> /\ \A p \in Procs \ {Proc(r)} : conn'[p] = conn[p]
      /\ UNCHANGED plan /\ Job(r) # NoJob
  <2>1. Job(r) # NoJob
    BY DEF Books
  <2> QED
    BY <2>1, BooksFacts
<1>1. \A s \in Requests : Job(s) # NoJob => WrittenBy(w, s) = IF Proc(s) = Proc(r) THEN Written(s) ELSE {}
  <2>1. ByOwn
    BY DEF WholeInv
  <2> QED
    BY <1>0, <2>1, OwnWrites
<1> HIDE DEF w
<1>2. /\ \A s \in Requests : Job(s)' = Job(s)
      /\ \A s \in Requests \ {r} : req'[s] = req[s] /\ Due(s)' = Due(s)
      /\ req'[r].pc = "end" /\ Due(r)' = {}
  BY <1>0 DEF Books, Job, Due
<1>3. KeptDue'
  <2> SUFFICES ASSUME NEW s \in Requests, Job(s) # NoJob, req'[s].pc # "end"
               PROVE  past'[s].kept \subseteq Due(s)'
    BY <1>2 DEF KeptDue
  <2>1. s # r /\ req[s].pc # "end" /\ Due(s)' = Due(s)
    BY <1>2
  <2>2. past[s].kept \subseteq Due(s)
    BY <2>1 DEF BookInv, KeptDue
  <2>3. Written(s) \subseteq Due(s)
    BY DEF WholeInv, Whole
  <2>4. WrittenBy(w, s) \subseteq Written(s)
    BY <1>1
  <2> QED
    BY <1>0, <2>1, <2>2, <2>3, <2>4
<1>4. Priced'
  <2> SUFFICES ASSUME NEW s \in Requests, Job(s) # NoJob, Due(s)' # {}
               PROVE  past'[s].worth = IF Job(s).kind = "deposit" THEN Job(s).credit ELSE req'[s].value
    BY <1>2 DEF Priced
  <2>1. s # r /\ req'[s] = req[s] /\ Due(s) # {} /\ past'[s].worth = past[s].worth
    BY <1>0, <1>2
  <2> QED
    BY <2>1 DEF BookInv, Priced
<1>5. OnConns'
  <2> SUFFICES ASSUME NEW p \in Procs
               PROVE  Once(conn'[p].writes) /\ \A n \in 1 .. Len(conn'[p].writes) : Entry(conn'[p].writes[n], past')
    BY <1>0, OnConnsThen
  <2>1. CASE p = Proc(r)
    <3>1. conn'[p].writes = <<>>
      BY <1>0, <2>1
    <3> QED
      BY <3>1 DEF Once
  <2>2. CASE p # Proc(r)
    <3>1. conn'[p] = conn[p] /\ Once(conn[p].writes) /\ \A n \in 1 .. Len(conn[p].writes) : Entry(conn[p].writes[n], past)
      BY <1>0, <2>2 DEF BookInv, OnConns
    <3>2. ASSUME NEW n \in 1 .. Len(conn[p].writes)
          PROVE  Entry(conn[p].writes[n], past) => Entry(conn[p].writes[n], past')
      <4> DEFINE y == conn[p].writes[n]
      <4>1. y \in Writes
        <5>1. conn[p].writes \in Seq(Writes)
          BY DEF ApiTypeOK, Conns
        <5> QED
          BY <5>1, ElementOfSeq
      <4>2. y.by \in Requests /\ Job(y.by) # NoJob /\ Proc(y.by) = p
        BY <4>1 DEF Writes, WholeInv, ByOwn
      <4>3. WrittenBy(w, y.by) = {}
        BY <1>1, <2>2, <4>2
      <4>4. past'[y.by].kept = past[y.by].kept /\ past'[y.by].worth = past[y.by].worth
        <5> DEFINE same(s) == past'[s].kept = past[s].kept /\ past'[s].worth = past[s].worth
        <5>1. \A s \in Requests : WrittenBy(w, s) = {} => same(s)
          BY <1>0
        <5> HIDE DEF same
        <5>2. same(y.by)
          BY ONLY <4>2, <4>3, <5>1
        <5> QED
          BY <5>2 DEF same
      <4> QED
        BY <1>2, <4>2, <4>4 DEF Entry
    <3> QED
      BY <3>1, <3>2
  <2> QED
    BY <2>1, <2>2
<1> QED
  BY <1>3, <1>4, <1>5
LEMMA BooksRows ==
  ASSUME ApiTypeOK, WholeInv, BookInv, NEW r \in Requests, NEW c \in Conns, Books(r, c)
  PROVE  RowsSound'
<1> DEFINE w == Conn(r).writes
           rows == RowsOf(w, c.began)
<1>0. /\ \A s \in Requests : past'[s].kept = past[s].kept \cup WrittenBy(w, s)
      /\ xacts' = xacts \cup rows /\ UNCHANGED plan /\ Job(r) # NoJob
  <2>1. Job(r) # NoJob
    BY DEF Books
  <2> QED
    BY <2>1, BooksFacts
<1>1. /\ DOMAIN w = 1 .. Len(w) /\ Len(w) \in Nat
      /\ \A n \in 1 .. Len(w) :
           LET x == w[n] IN x \in Writes /\ x.by \in Requests /\ Job(x.by) # NoJob
  <2>1. ByOwn
    BY DEF WholeInv
  <2>2. w \in Seq(Writes)
    BY <1>0, <2>1, OwnWrites
  <2>3. Len(w) \in Nat
    BY <2>2, LenProperties
  <2> QED
    BY <1>0, <2>1, <2>3, OwnWrites
<1> HIDE DEF w
<1>2. IsFiniteSet(rows)
  <2> DEFINE D == {n \in DOMAIN w : w[n].what = "row"}
             row(n) == [id |-> w[n].by, at |-> c.began, user |-> w[n].user, value |-> w[n].value, code |-> w[n].code, cash |-> FALSE]
  <2>1. IsFiniteSet(D)
    <3>1. IsFiniteSet(1 .. Len(w))
      BY <1>1, FS_Interval, 1 \in Int, Len(w) \in Int, Zenon
    <3> QED
      BY <1>1, <3>1, FS_Subset
  <2>2. rows = {row(n) : n \in D}
    BY DEF RowsOf
  <2>3. [n \in D |-> row(n)] \in Surjection(D, rows)
    <3> HIDE DEF D, row, rows
    <3> QED
      BY <2>2 DEF Surjection
  <2> HIDE DEF D, row, rows
  <2> QED
    BY <2>1, <2>3, FS_Surjection
<1>3. ASSUME NEW x \in rows
      PROVE  x.value \in Int /\ x.id \in Requests /\ Job(x.id) # NoJob /\ "row" \in past'[x.id].kept
  <2>1. PICK n \in DOMAIN w : w[n].what = "row" /\ x.id = w[n].by /\ x.value = w[n].value
    BY DEF RowsOf
  <2>2. "row" \in WrittenBy(w, x.id)
    BY <2>1 DEF WrittenBy
  <2> QED
    BY <1>0, <1>1, <2>1, <2>2 DEF Writes
<1>4. \A s \in Requests : Job(s)' = Job(s) /\ s \notin Nat
  BY <1>0, WatchersConstants DEF Job
<1>5. IsFiniteSet(xacts')
  BY <1>0, <1>2, FS_Union DEF BookInv, RowsSound
<1>6. ASSUME NEW x \in xacts'
      PROVE  /\ x.value \in Int /\ x.id \notin 1 .. plan'.others
             /\ x.id \in Requests => Job(x.id)' # NoJob /\ "row" \in past'[x.id].kept
  <2>1. CASE x \in rows
    <3>1. x.id \in Requests /\ x.id \notin Nat
      BY <1>3, <1>4, <2>1
    <3>2. plan'.others \in Nat
      BY <1>0 DEF ApiTypeOK, AllPlans
    <3>3. x.id \notin 1 .. plan'.others
      BY <3>1, <3>2
    <3> QED
      BY <1>3, <1>4, <2>1, <3>3
  <2>2. CASE x \in xacts
    <3>1. /\ x.value \in Int /\ x.id \notin 1 .. plan.others
          /\ x.id \in Requests => Job(x.id) # NoJob /\ "row" \in past[x.id].kept
      BY <2>2 DEF BookInv, RowsSound
    <3> QED
      BY <1>0, <1>4, <3>1
  <2> QED
    BY <1>0, <2>1, <2>2
<1> QED
  BY <1>5, <1>6 DEF RowsSound

(* The requests of one half after a commit.                                  *)
LEMMA WithThen ==
  ASSUME ApiTypeOK, WholeInv, BookInv, NEW r \in Requests, NEW c \in Conns, Books(r, c),
         NEW w, w = Conn(r).writes, NEW u, NEW what
  PROVE  LET N == Writers(w, what, u)
         IN  With(u, what)' = With(u, what) \cup N /\ With(u, what) \cap N = {} /\ N \subseteq Requests
<1> DEFINE N == Writers(w, what, u)
<1>0. /\ \A s \in Requests : past'[s].kept = past[s].kept \cup WrittenBy(w, s)
      /\ UNCHANGED plan /\ Job(r) # NoJob /\ Proc(r) \in Procs /\ w = conn[Proc(r)].writes
  <2>1. Job(r) # NoJob
    BY DEF Books
  <2> QED
    BY <2>1, BooksFacts
<1>1. /\ DOMAIN w = 1 .. Len(w)
      /\ \A n \in 1 .. Len(w) :
           /\ w[n].by \in Requests /\ Job(w[n].by) # NoJob
           /\ w[n].user = Job(w[n].by).user /\ w[n].what \notin past[w[n].by].kept
  <2>1. ByOwn
    BY DEF WholeInv
  <2>2. \A n \in 1 .. Len(w) : Entry(w[n], past)
    BY <1>0 DEF BookInv, OnConns
  <2>3. DOMAIN w = 1 .. Len(w) /\ \A n \in 1 .. Len(w) : LET x == w[n] IN x.by \in Requests /\ Job(x.by) # NoJob
    BY <1>0, <2>1, OwnWrites
  <2> QED
    BY <2>2, <2>3 DEF Entry
<1>2. With(u, what)' = {s \in Requests : Job(s) # NoJob /\ Job(s).user = u /\ what \in past'[s].kept}
  BY <1>0 DEF With, Job
<1>3. ASSUME NEW s \in Requests, Job(s) # NoJob, Job(s).user = u
      PROVE  what \in WrittenBy(w, s) <=> s \in N
  BY <1>1, <1>3 DEF WrittenBy, Writers, Halves
<1>4. \A s \in N : s \in Requests /\ Job(s) # NoJob /\ Job(s).user = u /\ what \notin past[s].kept
  BY <1>1 DEF Writers, Halves
<1> HIDE DEF N
<1>5. With(u, what)' = With(u, what) \cup N
  BY <1>0, <1>2, <1>3, <1>4 DEF With
<1> QED
  BY <1>4, <1>5 DEF With, N
LEMMA MovedFacts ==
  ASSUME NEW u, people[u] \in Account, NEW v \in Int, NEW code, NEW at \in Int
  PROVE  Moved(u, v, code, at) \in Account /\ Moved(u, v, code, at).balance = people[u].balance + v
<1>1. Never \in Int
  BY DEF Never
<1> QED
  <2>1. people[u].balance + v \in Int /\ people[u].bought \in Int /\ people[u].entered \in Int
    BY DEF Account
  <2>2. \A b, e, d \in Int :
          LET a == [people[u] EXCEPT !.balance = b, !.bought = d, !.entered = e] IN a \in Account /\ a.balance = b
    BY DEF Account
  <2> DEFINE balance == people[u].balance + v
             bought == IF v < 0 THEN at ELSE people[u].bought
             entered == IF balance > WallDebt THEN Never ELSE IF people[u].entered = Never THEN at ELSE people[u].entered
  <2>3. balance \in Int /\ bought \in Int /\ entered \in Int
    BY <1>1, <2>1
  <2>4. Moved(u, v, code, at) = [people[u] EXCEPT !.balance = balance, !.bought = bought, !.entered = entered]
    BY DEF Moved
  <2> HIDE DEF balance, bought, entered
  <2>5. Moved(u, v, code, at).balance = balance /\ Moved(u, v, code, at) \in Account
    <3>1. LET a == [people[u] EXCEPT !.balance = balance, !.bought = bought, !.entered = entered]
          IN  a \in Account /\ a.balance = balance
      BY ONLY <2>2, <2>3
    <3> QED
      BY <2>4, <3>1
  <2> QED
    BY <2>5 DEF balance

LEMMA BooksPeople ==
  ASSUME ApiTypeOK, WholeInv, BookInv, NEW r \in Requests, NEW c \in Conns, Books(r, c),
         NEW u \in Users,
         IsFiniteSet(Halves(Conn(r).writes, "balance", u)), SumIn(Conn(r).writes, "balance", u) \in Int
  PROVE  people'[u] \in Account /\ people'[u].balance = people[u].balance + SumIn(Conn(r).writes, "balance", u)
<1> DEFINE w == Conn(r).writes
           B == Halves(w, "balance", u)
<1>0. /\ people'[u] = IF B # {} THEN Moved(u, SumFor(w, u), NoCode, c.began) ELSE people[u]
      /\ B # {} => c.began \in Nat
      /\ people[u] \in Account
      /\ B = {n \in DOMAIN w : w[n].what = "balance" /\ w[n].user = u}
  <2>1. B = {n \in DOMAIN w : w[n].what = "balance" /\ w[n].user = u}
    BY DEF Halves
  <2>2. B # {} => w # <<>>
    BY <2>1
  <2>3. people[u] \in Account
    BY DEF BookInv
  <2>4. people'[u] = Booking(w, c.began, u) /\ (w # <<>> => c.began \in Nat)
    BY BooksFacts
  <2> QED
    BY <2>1, <2>2, <2>3, <2>4 DEF Booking
<1> HIDE DEF B
<1>1. CASE B # {}
  <2>1. SumFor(w, u) = SumOf(B, [n \in B |-> w[n].value])
    BY <1>0, SumForIs DEF B
  <2>2. c.began \in Int /\ SumFor(w, u) \in Int
    BY <1>0, <1>1, <2>1 DEF SumIn, B
  <2> QED
    BY <1>0, <1>1, <2>1, <2>2, MovedFacts DEF SumIn, B
<1>2. CASE B = {}
  <2>1. SumIn(w, "balance", u) = 0
    BY <1>2, SumOfEmpty DEF SumIn, B
  <2>2. people[u].balance \in Int
    BY <1>0 DEF Account
  <2> QED
    BY <1>0, <1>2, <2>1, <2>2
<1> QED
  BY <1>1, <1>2

LEMMA BooksKeeps ==
  ASSUME ApiTypeOK, WholeInv, BookInv, NEW r \in Requests, NEW c \in Conns, Books(r, c)
  PROVE  BookInv'
<1> DEFINE w == Conn(r).writes
           B(what, u) == Halves(w, what, u)
           N(what, u) == Writers(w, what, u)
           S(what, u) == SumIn(w, what, u)
           rows(u) == {x \in RowsOf(w, c.began) : x.user = u}
           mine(u) == {x \in xacts : x.user = u}
<1>0. /\ Proc(r) \in Procs /\ w = conn[Proc(r)].writes
      /\ \A s \in Requests : past[s].worth \in Int /\ past'[s].worth = past[s].worth
      /\ xacts' = xacts \cup RowsOf(w, c.began)
      /\ people' = [u \in Users |-> people'[u]]
      /\ UNCHANGED plan
      /\ w \in Seq(Writes) /\ Once(w) /\ \A n \in 1 .. Len(w) : Entry(w[n], past)
  <2>1. /\ Proc(r) \in Procs /\ w = conn[Proc(r)].writes
        /\ \A s \in Requests : past'[s].worth = past[s].worth
        /\ xacts' = xacts \cup RowsOf(w, c.began)
        /\ people' = [u \in Users |-> people'[u]]
        /\ UNCHANGED plan
    BY BooksFacts
  <2>2. \A s \in Requests : past[s].worth \in Int
    BY DEF ApiTypeOK, Pasts
  <2>3. w \in Seq(Writes)
    BY <2>1 DEF ApiTypeOK, Conns
  <2>4. Once(w) /\ \A n \in 1 .. Len(w) : Entry(w[n], past)
    BY <2>1 DEF BookInv, OnConns
  <2> QED
    BY <2>1, <2>2, <2>3, <2>4
<1>1. ASSUME NEW u \in Users, NEW what \in Both
      PROVE  /\ IsFiniteSet(B(what, u)) /\ S(what, u) \in Int
             /\ Worth(With(u, what)) \in Int
             /\ Worth(With(u, what))' = Worth(With(u, what)) + S(what, u)
  <2>1. /\ IsFiniteSet(B(what, u)) /\ IsFiniteSet(N(what, u)) /\ S(what, u) \in Int
        /\ SumOf(N(what, u), [s \in Requests |-> past[s].worth]) = S(what, u)
    BY <1>0, Entered
  <2>2. With(u, what)' = With(u, what) \cup N(what, u) /\ With(u, what) \cap N(what, u) = {} /\ N(what, u) \subseteq Requests
    BY WithThen
  <2> HIDE DEF B, N, S, w
  <2>3. plan'.jobs = plan.jobs
    BY <1>0
  <2>4. /\ Worth(With(u, what)) \in Int
        /\ Worth(With(u, what))' = Worth(With(u, what)) + SumOf(N(what, u), [s \in Requests |-> past[s].worth])
    BY <1>0, <2>1, <2>2, <2>3, WorthGrows
  <2> QED
    BY <2>1, <2>4
<1>2. "row" \in Both /\ "balance" \in Both
  BY DEF Both
<1>3. ASSUME NEW u \in Users
      PROVE  people'[u] \in Account /\ people'[u].balance = people[u].balance + S("balance", u)
  <2>1. IsFiniteSet(B("balance", u)) /\ S("balance", u) \in Int
    BY <1>1, <1>2
  <2> QED
    BY <2>1, BooksPeople
<1>4. ASSUME NEW u \in Users
      PROVE  Total(mine(u)) \in Int /\ Total({x \in xacts : x.user = u})' = Total(mine(u)) + S("row", u)
  <2>1. IsFiniteSet(rows(u)) /\ Total(rows(u)) = S("row", u)
    BY <1>0, <1>1, <1>2, RowsTotal
  <2>2. IsFiniteSet(mine(u)) /\ \A x \in mine(u) : x.value \in Int
    BY FS_Subset DEF BookInv, RowsSound
  <2>3. \A x \in rows(u) : x.value \in Int /\ \E n \in 1 .. Len(w) : x.id = w[n].by /\ w[n].what = "row"
    <3>1. DOMAIN w = 1 .. Len(w) /\ \A n \in 1 .. Len(w) : w[n] \in Writes
      BY <1>0, LenProperties, ElementOfSeq
    <3> QED
      BY <3>1 DEF RowsOf, Writes
  <2>4. mine(u) \cap rows(u) = {}
    <3> SUFFICES ASSUME NEW x \in xacts, x \in rows(u) PROVE FALSE
      OBVIOUS
    <3>1. PICK n \in 1 .. Len(w) : x.id = w[n].by /\ w[n].what = "row"
      BY <2>3
    <3>2. w[n].by \in Requests /\ "row" \notin past[w[n].by].kept
      <4>1. w[n] \in Writes
        BY <1>0, ElementOfSeq
      <4> QED
        BY <1>0, <3>1, <4>1 DEF Writes, Entry
    <3> QED
      BY <3>1, <3>2 DEF BookInv, RowsSound
  <2>5. Total({x \in xacts : x.user = u})' = Total(mine(u) \cup rows(u))
    <3>1. {x \in xacts' : x.user = u} = mine(u) \cup rows(u)
      BY <1>0
    <3> HIDE DEF mine, rows
    <3> QED
      BY <3>1 DEF Total, Sum
  <2> HIDE DEF mine, rows, S
  <2>6. Total(mine(u)) \in Int /\ Total(mine(u) \cup rows(u)) = Total(mine(u)) + Total(rows(u))
    BY <2>1, <2>2, <2>3, <2>4, TotalGrows
  <2> QED
    BY <2>1, <2>5, <2>6
<1>5. Balanced'
  <2> SUFFICES ASSUME NEW u \in Users
               PROVE  people'[u].balance + Worth(With(u, "row"))'
                        = Opening[u] + Total({x \in xacts : x.user = u})' + Worth(With(u, "balance"))'
    BY DEF Balanced
  <2>1. people[u].balance \in Int /\ Opening[u] \in Int
    BY ApiConstants DEF BookInv, Account
  <2>2. people[u].balance + Worth(With(u, "row")) = Opening[u] + Total(mine(u)) + Worth(With(u, "balance"))
    BY DEF BookInv, Balanced
  <2>3. /\ S("row", u) \in Int /\ Worth(With(u, "row")) \in Int
        /\ Worth(With(u, "row"))' = Worth(With(u, "row")) + S("row", u)
    BY <1>1, <1>2
  <2>4. /\ S("balance", u) \in Int /\ Worth(With(u, "balance")) \in Int
        /\ Worth(With(u, "balance"))' = Worth(With(u, "balance")) + S("balance", u)
    BY <1>1, <1>2
  <2>5. people'[u].balance = people[u].balance + S("balance", u)
    BY <1>3
  <2>6. Total(mine(u)) \in Int /\ Total({x \in xacts : x.user = u})' = Total(mine(u)) + S("row", u)
    BY <1>4
  <2> HIDE DEF S, mine, rows, w
  <2> QED
    BY <2>1, <2>2, <2>3, <2>4, <2>5, <2>6
<1>6. (people \in [Users -> Account])'
  <2> HIDE DEF S, w
  <2> QED
    BY <1>0, <1>3
<1> QED
  BY <1>5, <1>6, BooksOthers, BooksRows DEF BookInv
(* sodad's row moves the balance by what it says.                            *)
LEMMA SodadKeeps ==
  ASSUME ApiTypeOK, BookInv, BySodad
  PROVE  BookInv'
<1>0. PICK row \in Menu : Elsewhere(plan.others, row)
  BY DEF BySodad
<1> DEFINE x == [id |-> plan.others, at |-> now + 1, user |-> row.user, value |-> row.value, code |-> row.code, cash |-> row.cash]
           mine(u) == {y \in xacts : y.user = u}
<1>1. /\ plan.others \in Nat /\ plan.others > 0 /\ plan'.others = plan.others - 1 /\ plan'.jobs = plan.jobs
      /\ now + 1 \in Int
      /\ UNCHANGED <<conn, req, past>>
      /\ people' = [people EXCEPT ![row.user] = Moved(row.user, row.value, row.code, now + 1)]
      /\ xacts' = xacts \cup {x}
      /\ row.user \in Users /\ row.value \in Int
  <2>1. row.user \in Users /\ row.value \in Int
    BY WatchersConstants
  <2>2. plan.others \in Nat /\ plan.others > 0 /\ plan'.others = plan.others - 1 /\ plan'.jobs = plan.jobs
    BY DEF ApiTypeOK, AllPlans, BySodad
  <2>3. now + 1 \in Int
    BY DEF ApiTypeOK
  <2>4. UNCHANGED <<conn, req, past>>
    BY DEF BySodad
  <2> QED
    BY <1>0, <2>1, <2>2, <2>3, <2>4 DEF Elsewhere
<1>2. x.id = plan.others /\ x.user = row.user /\ x.value = row.value
  OBVIOUS
<1> HIDE DEF x
<1>3. \A s \in Requests : Job(s)' = Job(s) /\ Due(s)' = Due(s) /\ s \notin Nat
  BY <1>1, WatchersConstants DEF Job, Due
<1>4. KeptDue' /\ Priced'
  BY <1>1, <1>3 DEF BookInv, KeptDue, Priced
<1>5. OnConns'
  <2> SUFFICES ASSUME NEW p \in Procs
               PROVE  Once(conn'[p].writes) /\ \A n \in 1 .. Len(conn'[p].writes) : Entry(conn'[p].writes[n], past')
    BY <1>1, OnConnsThen
  <2>1. Once(conn[p].writes) /\ \A n \in 1 .. Len(conn[p].writes) : Entry(conn[p].writes[n], past)
    BY DEF BookInv, OnConns
  <2>2. \A n \in 1 .. Len(conn[p].writes) : conn[p].writes[n].by \in Requests
    <3>1. conn[p].writes \in Seq(Writes)
      BY DEF ApiTypeOK, Conns
    <3>2. \A n \in 1 .. Len(conn[p].writes) : conn[p].writes[n] \in Writes
      BY <3>1, ElementOfSeq
    <3> QED
      BY <3>2 DEF Writes
  <2> QED
    BY <1>1, <1>3, <2>1, <2>2 DEF Entry
<1>6. RowsSound'
  <2>1. IsFiniteSet(xacts')
    BY <1>1, FS_AddElement DEF BookInv, RowsSound
  <2>2. ASSUME NEW y \in xacts
        PROVE  /\ y.value \in Int /\ y.id \notin 1 .. plan'.others
               /\ y.id \in Requests => Job(y.id)' # NoJob /\ "row" \in past'[y.id].kept
    <3>1. /\ y.value \in Int /\ y.id \notin 1 .. plan.others
          /\ y.id \in Requests => Job(y.id) # NoJob /\ "row" \in past[y.id].kept
      BY DEF BookInv, RowsSound
    <3>2. y.id \notin 1 .. plan'.others
      BY <1>1, <3>1
    <3> QED
      BY <1>1, <1>3, <3>1, <3>2
  <2>3. x.value \in Int /\ x.id \notin 1 .. plan'.others /\ x.id \notin Requests
    BY <1>1, <1>2, <1>3
  <2> QED
    BY <1>1, <2>1, <2>2, <2>3 DEF RowsSound
<1>7. people \in [Users -> Account]
  BY DEF BookInv
<1>8. /\ Moved(row.user, row.value, row.code, now + 1) \in Account
      /\ Moved(row.user, row.value, row.code, now + 1).balance = people[row.user].balance + row.value
  BY <1>1, <1>7, MovedFacts
<1>9. (people \in [Users -> Account])'
  BY <1>1, <1>7, <1>8
<1>10. ASSUME NEW u \in Users
       PROVE  /\ Total(mine(u)) \in Int
              /\ \E v \in Int : /\ people'[u].balance = people[u].balance + v
                              /\ Total({y \in xacts : y.user = u})' = Total(mine(u)) + v
  <2>1. IsFiniteSet(mine(u)) /\ \A y \in mine(u) : y.value \in Int
    BY FS_Subset DEF BookInv, RowsSound
  <2>2. people[u].balance \in Int
    BY <1>7 DEF Account
  <2>3. CASE u # row.user
    <3>1. {y \in xacts' : y.user = u} = mine(u)
      BY <1>1, <1>2, <2>3
    <3>2. Total({y \in xacts : y.user = u})' = Total(mine(u))
      <4> HIDE DEF mine
      <4> QED
        BY <3>1 DEF Total, Sum
    <3>3. people'[u] = people[u]
      BY <1>1, <1>7, <2>3
    <3>4. Total(mine(u)) \in Int
      <4>1. IsFiniteSet({}) /\ mine(u) \cap {} = {} /\ \A y \in mine(u) \cup {} : y.value \in Int
        BY <2>1, FS_EmptySet
      <4> HIDE DEF mine
      <4> QED
        BY <2>1, <4>1, TotalGrows
    <3>5. 0 \in Int
          /\ people'[u].balance = people[u].balance + 0
          /\ Total({y \in xacts : y.user = u})' = Total(mine(u)) + 0
      BY <2>2, <3>2, <3>3, <3>4
    <3> HIDE DEF mine
    <3> QED
      BY <3>4, <3>5
  <2>4. CASE u = row.user
    <3>1. {y \in xacts' : y.user = u} = mine(u) \cup {x}
      BY <1>1, <1>2, <2>4
    <3>2. Total({y \in xacts : y.user = u})' = Total(mine(u) \cup {x})
      <4> HIDE DEF mine
      <4> QED
        BY <3>1 DEF Total, Sum
    <3>3. x \notin xacts
      BY <1>1, <1>2 DEF BookInv, RowsSound
    <3>4. /\ IsFiniteSet({x}) /\ mine(u) \cap {x} = {}
          /\ \A y \in mine(u) \cup {x} : y.value \in Int
      BY <1>1, <1>2, <2>1, <3>3, FS_Singleton
    <3>5. Total({x}) = row.value
      <4>1. Total({x}) = SumOf({x}, [y \in {x} |-> y.value])
        BY <3>4, TotalIs
      <4> DEFINE g == [y \in {x} |-> y.value]
      <4>2. g[x] = row.value /\ \A y \in {x} : g[y] \in Int
        BY <1>1, <1>2
      <4> HIDE DEF g
      <4>3. SumOf({x}, g) = g[x] + SumOf({x} \ {x}, g)
        BY <3>4, <4>2, SumOfTake
      <4>4. SumOf({x} \ {x}, g) = 0
        BY {x} \ {x} = {}, SumOfEmpty
      <4> QED
        BY <1>1, <4>1, <4>2, <4>3, <4>4 DEF g
    <3>6. people'[u].balance = people[u].balance + row.value
      BY <1>1, <1>7, <1>8, <2>4
    <3> HIDE DEF mine
    <3>7. Total(mine(u)) \in Int /\ Total(mine(u) \cup {x}) = Total(mine(u)) + Total({x})
      BY <2>1, <3>4, TotalGrows
    <3> QED
      BY <1>1, <2>2, <3>2, <3>5, <3>6, <3>7
  <2> QED
    BY <2>3, <2>4
<1>11. Balanced'
  <2> SUFFICES ASSUME NEW u \in Users
               PROVE  people'[u].balance + Worth(With(u, "row"))'
                        = Opening[u] + Total({y \in xacts : y.user = u})' + Worth(With(u, "balance"))'
    BY DEF Balanced
  <2>1. \A what \in Both : Worth(With(u, what))' = Worth(With(u, what)) /\ Worth(With(u, what)) \in Int
    <3> TAKE what \in Both
    <3>1. IsFiniteSet({}) /\ With(u, what)' = With(u, what)
      BY <1>1, FS_EmptySet DEF With, Job
    <3>2. \A s \in Requests : past[s].worth \in Int /\ past'[s].worth = past[s].worth
      BY <1>1 DEF ApiTypeOK, Pasts
    <3>3. With(u, what)' = With(u, what) \cup {} /\ With(u, what) \cap {} = {} /\ {} \subseteq Requests
      BY <3>1
    <3>4. Worth(With(u, what)) \in Int
      BY <1>1, <3>1, <3>2, <3>3, WorthGrows
    <3>5. \A s \in Requests : past'[s].kept = past[s].kept
      BY <1>1
    <3> QED
      BY <1>1, <3>2, <3>4, <3>5, WorthSame
  <2>2. "row" \in Both /\ "balance" \in Both
    BY DEF Both
  <2>3. people[u].balance + Worth(With(u, "row")) = Opening[u] + Total(mine(u)) + Worth(With(u, "balance"))
    BY DEF BookInv, Balanced
  <2>4. people[u].balance \in Int /\ people'[u].balance \in Int /\ Opening[u] \in Int
    BY <1>7, <1>9, ApiConstants DEF Account
  <2>5. /\ Worth(With(u, "row"))' = Worth(With(u, "row")) /\ Worth(With(u, "row")) \in Int
        /\ Worth(With(u, "balance"))' = Worth(With(u, "balance")) /\ Worth(With(u, "balance")) \in Int
    BY <2>1, <2>2
  <2>6. Total(mine(u)) \in Int
    BY <1>10
  <2>7. PICK v \in Int : /\ people'[u].balance = people[u].balance + v
                        /\ Total({y \in xacts : y.user = u})' = Total(mine(u)) + v
    BY <1>10
  <2>8. \A b, t, r, l, o \in Int : b + r = o + t + l => (b + v) + r = o + (t + v) + l
    OBVIOUS
  <2> DEFINE b == people[u].balance
             t == Total(mine(u))
             r == Worth(With(u, "row"))
             l == Worth(With(u, "balance"))
             o == Opening[u]
  <2>9. b \in Int /\ t \in Int /\ r \in Int /\ l \in Int /\ o \in Int /\ b + r = o + t + l
    BY <2>3, <2>4, <2>5, <2>6
  <2>10. /\ people'[u].balance = b + v /\ Total({y \in xacts : y.user = u})' = t + v
         /\ Worth(With(u, "row"))' = r /\ Worth(With(u, "balance"))' = l
    BY <2>5, <2>7
  <2> HIDE DEF b, t, r, l, o
  <2>11. (b + v) + r = o + (t + v) + l
    BY <2>8, <2>9
  <2> QED
    BY <2>10, <2>11 DEF o
<1> QED
  BY <1>4, <1>5, <1>6, <1>9, <1>11 DEF BookInv
LEMMA WorthSplit ==
  ASSUME ApiTypeOK, NEW R, NEW N, R \subseteq Requests, N \subseteq Requests, R \cap N = {}
  PROVE  /\ Worth(R) \in Int /\ Worth(N) \in Int
         /\ Worth(R \cup N) = Worth(R) + Worth(N)
<1>0. PICK k, a, b, c : /\ k = [s \in Requests |-> past[s].worth]
                        /\ a = [s \in R |-> past[s].worth]
                        /\ b = [s \in N |-> past[s].worth]
                        /\ c = [s \in R \cup N |-> past[s].worth]
  OBVIOUS
<1>1. IsFiniteSet(R) /\ IsFiniteSet(N) /\ IsFiniteSet(R \cup N)
  BY ApiConstants, FS_Subset, FS_Union
<1>2. \A s \in Requests : past[s].worth \in Int
  BY DEF ApiTypeOK, Pasts
<1>3. \A s \in Requests : k[s] = past[s].worth /\ k[s] \in Int
  BY <1>0, <1>2
<1>4. Worth(R) = SumOf(R, k)
  <2>1. Worth(R) = SumOf(R, a)
    BY <1>0, <1>1, WorthIs DEF Worth
  <2>2. \A s \in R : a[s] = k[s]
    BY <1>0, <1>3
  <2> QED
    BY <1>1, <2>1, <2>2, SumOfSame
<1>5. Worth(N) = SumOf(N, k)
  <2>1. Worth(N) = SumOf(N, b)
    BY <1>0, <1>1, WorthIs DEF Worth
  <2>2. \A s \in N : b[s] = k[s]
    BY <1>0, <1>3
  <2> QED
    BY <1>1, <2>1, <2>2, SumOfSame
<1>6. Worth(R \cup N) = SumOf(R \cup N, k)
  <2>1. Worth(R \cup N) = SumOf(R \cup N, c)
    BY <1>0, <1>1, WorthIs DEF Worth
  <2>2. \A s \in R \cup N : c[s] = k[s]
    BY <1>0, <1>3
  <2> QED
    BY <1>1, <2>1, <2>2, SumOfSame
<1>7. SumOf(R, k) \in Int /\ SumOf(N, k) \in Int
  BY <1>1, <1>3, SumOfInt
<1>8. SumOf(R \cup N, k) = SumOf(R, k) + SumOf(N, k)
  <2>1. Splits(R \cup N, R, N) /\ IntegersOn(k, R \cup N)
    BY <1>3 DEF Splits, IntegersOn
  <2> QED
    BY <1>1, <2>1, SumOfUnion
<1> QED
  BY <1>4, <1>5, <1>6, <1>7, <1>8

LEMMA BookStarts ==
  ASSUME Init
  PROVE  BookInv
<1> USE DEF Init, ApiInit
<1>1. \A s \in Requests : past[s].kept = {} /\ req[s].pc = "new"
  OBVIOUS
<1>2. /\ people = People0 /\ xacts = Xacts0 /\ plan \in Plans
      /\ \A p \in Procs : conn[p].writes = <<>>
  OBVIOUS
<1>3. ApiTypeOK
  BY StartsWell
<1>4. KeptDue /\ Priced
  BY <1>1 DEF KeptDue, Priced, Due
<1>5. OnConns
  BY <1>2 DEF OnConns, Once
<1>6. RowsSound
  BY <1>2, WatchersConstants DEF RowsSound
<1>7. people \in [Users -> Account]
  BY <1>2, WatchersConstants
<1>8. Balanced
  <2> SUFFICES ASSUME NEW u \in Users
               PROVE  people[u].balance + Worth(With(u, "row"))
                        = Opening[u] + Total({x \in xacts : x.user = u}) + Worth(With(u, "balance"))
    BY DEF Balanced
  <2>1. With(u, "row") = {} /\ With(u, "balance") = {}
    BY <1>1 DEF With
  <2>2. Worth({}) \in Int
    BY <1>3, WorthSplit, {} \cap {} = {}, {} \subseteq Requests
  <2>3. people[u].balance = Opening[u] + Total({x \in xacts : x.user = u})
    BY <1>2, WatchersConstants
  <2>4. people[u].balance \in Int
    BY <1>7 DEF Account
  <2> QED
    BY <2>1, <2>2, <2>3, <2>4
<1> QED
  BY <1>4, <1>5, <1>6, <1>7, <1>8 DEF BookInv

(* What is half committed is what the one half has and the other has not.    *)
LEMMA BalancedIsBooked ==
  ASSUME ApiTypeOK, BookInv
  PROVE  Booked
<1> SUFFICES ASSUME NEW u \in Users
             PROVE  people[u].balance + Worth(Half(u, "row"))
                      = Opening[u] + Total({x \in xacts : x.user = u}) + Worth(Half(u, "balance"))
  BY DEF Booked
<1> DEFINE rows == With(u, "row")
           balances == With(u, "balance")
           both == rows \cap balances
           total == Total({x \in xacts : x.user = u})
<1>1. \A s \in Requests : past[s].kept \subseteq {"balance", "row"}
  BY DEF ApiTypeOK, Pasts, Both
<1>2. \A s \in Requests :
        /\ past[s].kept = {"row"} <=> "row" \in past[s].kept /\ "balance" \notin past[s].kept
        /\ past[s].kept = {"balance"} <=> "balance" \in past[s].kept /\ "row" \notin past[s].kept
  BY <1>1
<1>3. Half(u, "row") = rows \ both /\ Half(u, "balance") = balances \ both
  BY <1>2 DEF Half, With
<1>4. rows \subseteq Requests /\ balances \subseteq Requests
  BY WithFinite
<1>5. people[u].balance + Worth(rows) = Opening[u] + total + Worth(balances)
  BY DEF BookInv, Balanced
<1>6. total \in Int
  <2> DEFINE mine == {x \in xacts : x.user = u}
  <2>1. IsFiniteSet(mine) /\ \A x \in mine : x.value \in Int
    BY FS_Subset DEF BookInv, RowsSound
  <2>2. IsFiniteSet({}) /\ mine \cap {} = {} /\ \A x \in mine \cup {} : x.value \in Int
    BY <2>1, FS_EmptySet
  <2> HIDE DEF mine
  <2>3. Total(mine) \in Int
    BY <2>1, <2>2, TotalGrows
  <2> QED
    BY <2>3 DEF mine
<1>7. people[u].balance \in Int /\ Opening[u] \in Int
  BY ApiConstants DEF BookInv, Account
<1> HIDE DEF rows, balances, total
<1>8. /\ Worth(rows \ both) \in Int /\ Worth(both) \in Int
      /\ Worth(rows) = Worth(rows \ both) + Worth(both)
  <2>1. rows = (rows \ both) \cup both /\ (rows \ both) \cap both = {} /\ rows \ both \subseteq Requests /\ both \subseteq Requests
    BY <1>4
  <2> HIDE DEF both
  <2>2. /\ Worth(rows \ both) \in Int /\ Worth(both) \in Int
        /\ Worth((rows \ both) \cup both) = Worth(rows \ both) + Worth(both)
    BY <2>1, WorthSplit
  <2> QED
    BY <2>1, <2>2
<1>9. /\ Worth(balances \ both) \in Int
      /\ Worth(balances) = Worth(balances \ both) + Worth(both)
  <2>1. balances = (balances \ both) \cup both /\ (balances \ both) \cap both = {}
        /\ balances \ both \subseteq Requests /\ both \subseteq Requests
    BY <1>4
  <2> HIDE DEF both
  <2>2. /\ Worth(balances \ both) \in Int
        /\ Worth((balances \ both) \cup both) = Worth(balances \ both) + Worth(both)
    BY <2>1, WorthSplit
  <2> QED
    BY <2>1, <2>2
<1>10. people[u].balance + Worth(rows \ both) = Opening[u] + total + Worth(balances \ both)
  <2> HIDE DEF both
  <2> QED
    BY <1>5, <1>6, <1>7, <1>8, <1>9
<1> QED
  BY <1>3, <1>10 DEF total

LEMMA BookInvariant == Spec => []BookInv
<1>1. Init => BookInv
  BY BookStarts
<1>2. ApiInv /\ BookInv /\ [Next]_vars => BookInv'
  <2> SUFFICES ASSUME ApiInv, BookInv, [Next]_vars PROVE BookInv'
    OBVIOUS
  <2>1. ApiTypeOK /\ WholeInv /\ Gone /\ Priced
    BY DEF ApiInv, WholeInv, BookInv
  <2>2. CASE Still
    BY <2>1, <2>2, StillKeeps
  <2>3. CASE BySodad
    BY <2>1, <2>3, SodadKeeps
  <2>4. CASE \E r \in Requests, what \in Both, v \in Int : Posts(r, what, v)
    BY <2>1, <2>4, PostsKeeps
  <2>5. CASE \E r \in Requests, c \in Conns : Books(r, c)
    BY <2>1, <2>5, BooksKeeps
  <2> QED
    BY <2>1, <2>2, <2>3, <2>4, <2>5, BookSteps
<1> QED
  BY <1>1, <1>2, ApiInvariant, PTL DEF Spec

(* Balances and rows differ by the requests of which only half is committed, *)
(* and by nothing else: however the requests of the processes interleave,    *)
(* whatever prices they see, whoever's commit takes their writes along and   *)
(* whatever sodad books meanwhile.                                           *)
THEOREM BalancesFollowRows == Spec => []Booked
<1>1. ApiInv /\ BookInv => Booked
  BY BalancedIsBooked DEF ApiInv
<1> QED
  BY <1>1, ApiInvariant, BookInvariant, PTL

-----------------------------------------------------------------------------
(* What is told of the rows.  Rows have ids of their own and are dated by    *)
(* the time there is; every notice is of one of them, and no two of the same.*)

Ids == Requests \cup Nat
RowsDated ==
  /\ \A x, y \in xacts : x.id = y.id => x = y
  /\ \A x \in xacts : x.at \in Int /\ x.at <= now
  /\ \A p \in Procs : conn[p].began <= now
Delivered ==
  /\ notices \in Seq(Ids)
  /\ \A n \in 1 .. Len(notices) : \E x \in xacts : x.id = notices[n]
  /\ \A n, m \in 1 .. Len(notices) : notices[n] = notices[m] => n = m
LogInv == RowsDated /\ Delivered

(* A step of whoever writes: its new rows, and s told of them.               *)
NewRows == xacts' \ xacts
Enters(s) ==
  /\ xacts \subseteq xacts' /\ notices' = notices \o s /\ s \in Seq(Ids)
  /\ now' \in Nat /\ now <= now'
  /\ \A x \in NewRows, y \in xacts' : x.id = y.id => x = y
  /\ \A x \in NewRows : /\ x.at \in Int /\ x.at <= now'
                        /\ x.cash => x.at > now /\ NewRows = {x}
                        /\ \E i \in 1 .. Len(s) : s[i] = x.id
  /\ \A i \in 1 .. Len(s) : \E x \in NewRows : x.id = s[i]
  /\ \A i, j \in 1 .. Len(s) : s[i] = s[j] => i = j
  /\ \A u \in Users : people'[u].disabled = people[u].disabled

LEMMA KeptMembers ==
  ASSUME NEW S, NEW s \in Seq(S), NEW T, OnceIn(s, T, Len(s))
  PROVE  Kept(s, T) \in Seq(S) /\ Lists(Kept(s, T), s, T, Len(s))
<1>1. Len(s) \in Nat /\ \A k \in 1 .. Len(s) : s[k] \in S
  OBVIOUS
<1> DEFINE f == CHOOSE f : IsKeptTo(f, s, T, Len(s))
<1>2. IsKeptTo(f, s, T, Len(s))
  BY <1>1, KeptToExists
<1>3. Kept(s, T) = f[Len(s)]
  BY DEF Kept, IsKeptTo
<1> HIDE DEF f
<1>4. f[Len(s)] \in Seq(S)
  BY <1>1, <1>2, KeptToType
<1>5. Lists(f[Len(s)], s, T, Len(s))
  BY <1>1, <1>2, KeptToMembers
<1> QED
  BY <1>3, <1>4, <1>5

(* What the rest leaves alone.                                               *)
Calm == UNCHANGED <<people, xacts, notices>> /\ now' \in Nat /\ now <= now'

LEMMA CalmEnters ==
  ASSUME Delivered, Calm
  PROVE  Enters(<<>>)
<1>1. notices \o <<>> = notices /\ <<>> \in Seq(Ids)
  BY DEF Delivered
<1> QED
  BY <1>1 DEF Enters, Calm, NewRows

(* A transaction begins now, goes on, or is over.                            *)
LEMMA BeganActs ==
  ASSUME ApiTypeOK, NEW r \in Requests, Job(r) # NoJob, Acts(r)
  PROVE  UNCHANGED now /\ \A p \in Procs : conn'[p].began \in {conn[p].began, now, Never}
<1>0. Conn(r) \in Conns /\ now \in Nat /\ Proc(r) \in Procs /\ Conn(r) = conn[Proc(r)]
  BY JobFacts DEF ApiTypeOK, Conn
<1>1. ASSUME NEW c, Using(r, c), c.began \in {Conn(r).began, now, Never}
      PROVE  \A p \in Procs : conn'[p].began \in {conn[p].began, now, Never}
  <2>1. conn'[Proc(r)] = c /\ \A p \in Procs \ {Proc(r)} : conn'[p] = conn[p]
    BY <1>0, <1>1 DEF Using, ApiTypeOK
  <2> QED
    BY <1>0, <1>1, <2>1
<1>2. PICK o : o = Opened(Conn(r)) /\ o \in Conns /\ o.began \in {Conn(r).began, now}
  BY <1>0, ConnFacts
<1>3. /\ \A by : LeftOpen(r, by).began = o.began
      /\ \A what, value : Write(r, what, value).began = o.began
      /\ Closed(Conn(r)).began = Never /\ Closed(o).began = Never
  <2> HIDE DEF Conn
  <2> QED
    BY <1>0, <1>2, ConnFacts DEF LeftOpen, Write, Conns
<1> DEFINE Fine == \A p \in Procs : conn'[p].began \in {conn[p].began, now, Never}
<1>4. UNCHANGED conn => Fine
  OBVIOUS
<1>5. /\ Using(r, o) => Fine
      /\ \A by : Using(r, LeftOpen(r, by)) => Fine
      /\ \A what, value : Using(r, Write(r, what, value)) => Fine
      /\ Using(r, Conn(r)) => Fine
      /\ Using(r, Closed(Conn(r))) => Fine
      /\ Using(r, Closed(o)) => Fine
  <2> HIDE DEF Fine
  <2>1. \A c : Using(r, c) /\ c.began \in {Conn(r).began, now, Never} => Fine
    BY <1>1 DEF Fine
  <2> QED
    BY <1>2, <1>3, <2>1
<1> HIDE DEF Fine, Conn
<1>6. CASE BeginDeposit(r) \/ Fail(r) \/ Renew(r) \/ BeginBuy(r) \/ ReadFails(r)
  BY <1>4, <1>6 DEF BeginDeposit, Begin, Fail, Renew, BeginBuy, ReadFails, Keep, bank, Fine
<1>7. CASE LookDeposit(r) \/ Charge(r) \/ GetUserid(r) \/ LookBuy(r) \/ ReadOpen(r) \/ InsertNothing(r)
  <2>1. UNCHANGED now
    BY <1>7 DEF LookDeposit, Charge, GetUserid, LookBuy, ReadOpen, InsertNothing, Keep, bank
  <2>2. Fine
    BY <1>2, <1>4, <1>5, <1>7 DEF LookDeposit, Charge, GetUserid, LookBuy, ReadOpen, InsertNothing
  <2> QED
    BY <2>1, <2>2 DEF Fine
<1>8. CASE UpdateDeposit(r) \/ InsertDeposit(r) \/ InsertBuy(r) \/ UpdateBuy(r)
  <2>1. UNCHANGED now
    BY <1>8 DEF UpdateDeposit, InsertDeposit, InsertBuy, UpdateBuy, Keep, bank
  <2>2. Fine
    BY <1>5, <1>8 DEF UpdateDeposit, InsertDeposit, InsertBuy, UpdateBuy
  <2> QED
    BY <2>1, <2>2 DEF Fine
<1>9. CASE Committed(r) \/ Authenticate(r) \/ Read(r)
  <2>1. Commit(r, Conn(r)) \/ Commit(r, o)
    BY <1>2, <1>9 DEF Committed, Authenticate, Read
  <2>2. UNCHANGED now /\ (Using(r, Closed(Conn(r))) \/ Using(r, Closed(o)))
    BY <2>1 DEF Commit
  <2> QED
    BY <1>5, <2>2 DEF Fine
<1> QED
  BY <1>6, <1>7, <1>8, <1>9 DEF Acts

(* ... and is over when its connection or its process is lost.               *)
LEMMA TimeStep ==
  ASSUME ApiInv, \A p \in Procs : conn[p].began <= now, [Next]_vars
  PROVE  now' \in Nat /\ now <= now' /\ \A p \in Procs : conn'[p].began <= now'
<1>0. ApiTypeOK /\ Gone /\ ByOwn /\ now \in Nat /\ Never <= now /\ \A p \in Procs : conn[p].began \in Int
  <2>1. now \in Nat /\ Never \in Int /\ Never <= 0
    BY DEF ApiInv, ApiTypeOK, Never
  <2> QED
    BY <2>1 DEF ApiInv, WholeInv, ApiTypeOK, Conns
<1>1. CASE \E r \in Requests : Job(r) # NoJob /\ Acts(r)
  BY <1>0, <1>1, BeganActs
<1>2. CASE \E p \in Procs : Loses(p) \/ Returns(p)
  <2>1. PICK q \in Procs : Loses(q) \/ Returns(q)
    BY <1>2
  <2>2. UNCHANGED now /\ \A p \in Procs : conn'[p].began \in {conn[p].began, Never}
    BY <2>1 DEF Loses, Returns
  <2> QED
    BY <1>0, <2>2
<1>3. CASE (\E u \in Users : Renames(u)) \/ Outside
  <2>1. UNCHANGED conn
    BY <1>3 DEF Renames, Outside
  <2>2. (UNCHANGED now \/ Outside) /\ now \in Nat
    BY <1>0, <1>3 DEF Renames
  <2>3. now' \in Nat /\ now <= now'
    BY <2>2 DEF Outside
  <2> QED
    BY <1>0, <2>1, <2>3
<1> QED
  BY <1>0, <1>1, <1>2, <1>3, Steps

LEMMA LogSteps ==
  ASSUME ApiTypeOK, [Next]_vars, now' \in Nat /\ now <= now'
  PROVE  Calm \/ BySodad \/ \E r \in Requests, c \in Conns : Books(r, c)
<1> USE DEF bank, api
<1>0. now \in Nat
  BY DEF ApiTypeOK
<1>1. ASSUME NEW r \in Requests, Job(r) # NoJob, Acts(r)
      PROVE  Calm \/ \E c \in Conns : Books(r, c)
  <2>1. CASE Committed(r) \/ Authenticate(r) \/ Read(r)
    BY <1>1, <2>1, BookActs
  <2>2. CASE \/ BeginDeposit(r) \/ LookDeposit(r) \/ Charge(r) \/ GetUserid(r) \/ Fail(r)
             \/ Renew(r) \/ BeginBuy(r) \/ LookBuy(r) \/ ReadOpen(r) \/ ReadFails(r)
    BY <2>2 DEF BeginDeposit, Begin, LookDeposit, Charge, GetUserid, Fail, Renew, BeginBuy, LookBuy,
                ReadOpen, ReadFails, Keep, Calm
  <2>3. CASE UpdateDeposit(r) \/ InsertDeposit(r) \/ InsertBuy(r) \/ UpdateBuy(r) \/ InsertNothing(r)
    BY <2>3 DEF UpdateDeposit, InsertDeposit, InsertBuy, UpdateBuy, InsertNothing, Keep, Calm
  <2> QED
    BY <1>1, <2>1, <2>2, <2>3 DEF Acts
<1>2. ASSUME (\E p \in Procs : Drop(p) \/ Restart(p)) \/ (\E u \in Users : Rename(u)) \/ Tick
      PROVE  Calm
  BY <1>2 DEF Drop, Restart, Rename, Tick, Calm
<1>3. ASSUME \/ UNCHANGED vars
             \/ Handle \/ Stop \/ StartUp \/ Listen \/ KegHears \/ KegStatus \/ KegRestart \/ KegJoins
      PROVE  Calm
  BY <1>3 DEF vars, Handle, Stop, StartUp, Listen, KegHears, KegStatus, KegRestart, KegJoins, Calm
<1>4. CASE ApiNext
  BY <1>1, <1>2, <1>4 DEF ApiNext, Acts
<1> QED
  BY <1>3, <1>4 DEF Next, ByApi

(* Whoever's balance moves is no more and no less disabled.                  *)
LEMMA MovedDisabled ==
  ASSUME NEW u, people[u] \in Account, NEW v, NEW code, NEW at
  PROVE  Moved(u, v, code, at).disabled = people[u].disabled
BY DEF Moved, Account

(* sodad's row is dated after whatever there is.                             *)
LEMMA SodadEnters ==
  ASSUME ApiTypeOK, BookInv, LogInv, BySodad
  PROVE  \E s : Enters(s)
<1>0. PICK row \in Menu : Elsewhere(plan.others, row)
  BY DEF BySodad
<1>1. PICK x : x = [id |-> plan.others, at |-> now + 1, user |-> row.user, value |-> row.value, code |-> row.code, cash |-> row.cash]
  OBVIOUS
<1>2. PICK s : s = <<plan.others>>
  OBVIOUS
<1>3. /\ plan.others \in Nat /\ plan.others > 0 /\ now \in Nat /\ row.user \in Users
      /\ people' = [people EXCEPT ![row.user] = Moved(row.user, row.value, row.code, now + 1)]
      /\ xacts' = xacts \cup {x} /\ notices' = Append(notices, plan.others) /\ now' = now + 2
  <2>1. plan.others \in Nat /\ now \in Nat
    BY DEF ApiTypeOK, AllPlans
  <2>2. plan.others > 0
    BY DEF BySodad
  <2>3. row.user \in Users
    BY WatchersConstants
  <2> QED
    BY <1>0, <1>1, <2>1, <2>2, <2>3 DEF Elsewhere
<1>4. x.id = plan.others /\ x.at = now + 1
  BY <1>1
<1>5. x \notin xacts /\ \A y \in xacts : y.id # x.id
  BY <1>3, <1>4 DEF BookInv, RowsSound
<1>6. NewRows = {x}
  BY <1>3, <1>5 DEF NewRows
<1>7. \A u \in Users : people'[u].disabled = people[u].disabled
  BY <1>3, MovedDisabled DEF BookInv
<1>8. /\ s \in Seq(Ids) /\ Len(s) = 1 /\ s[1] = x.id /\ notices' = notices \o s
  <2>1. notices \in Seq(Ids) /\ plan.others \in Ids
    BY <1>3 DEF LogInv, Delivered, Ids
  <2> QED
    BY <1>2, <1>3, <1>4, <2>1
<1>9. \A i \in 1 .. Len(s) : i = 1
  BY <1>8
<1>10. 1 \in 1 .. Len(s)
  BY <1>8
<1>11. Enters(s)
  BY <1>3, <1>4, <1>5, <1>6, <1>7, <1>8, <1>9, <1>10 DEF Enters
<1> QED
  BY <1>11

(* A commit tells of its rows, each of another request, in the order in      *)
(* which they were written.                                                  *)
LEMMA BooksEnters ==
  ASSUME ApiTypeOK, WholeInv, BookInv, LogInv, NEW r \in Requests, NEW c \in Conns, Books(r, c)
  PROVE  \E s : Enters(s)
<1>0. PICK w, at : w = Conn(r).writes /\ at = c.began
  OBVIOUS
<1>1. PICK T : T = {x \in ToSet(w) : x.what = "row"}
  OBVIOUS
<1>2. PICK g : g = Kept(w, T)
  OBVIOUS
<1>3. PICK s : s = [n \in DOMAIN g |-> g[n].by]
  OBVIOUS
<1>4. PICK R : R = RowsOf(w, at)
  OBVIOUS
<1>5. /\ w = conn[Proc(r)].writes /\ Proc(r) \in Procs
      /\ xacts' = xacts \cup R /\ (w # <<>> => at \in Nat)
      /\ \A u \in Users : people'[u] = Booking(w, at, u)
  BY <1>0, <1>4, BooksFacts
<1>6. /\ notices' = notices \o s /\ UNCHANGED now
      /\ Conn(r).began # Never => at = Conn(r).began
  BY <1>0, <1>1, <1>2, <1>3 DEF Books, Commit
<1>7. w \in Seq(Writes) /\ Once(w) /\ \A n \in 1 .. Len(w) : Entry(w[n], past)
  BY <1>5 DEF BookInv, OnConns, ApiTypeOK, Conns
<1>8. /\ DOMAIN w = 1 .. Len(w) /\ Len(w) \in Nat
      /\ \A n \in 1 .. Len(w) : w[n] \in Writes /\ w[n].by \in Requests
      /\ \A n \in 1 .. Len(w) : w[n] \in T <=> w[n].what = "row"
  <2>1. DOMAIN w = 1 .. Len(w) /\ Len(w) \in Nat /\ \A n \in 1 .. Len(w) : w[n] \in Writes
    BY <1>7, ElementOfSeq, LenProperties
  <2>2. \A n \in 1 .. Len(w) : w[n] \in ToSet(w)
    BY <2>1 DEF ToSet
  <2> QED
    BY <1>1, <2>1, <2>2 DEF Writes
<1>9. g \in Seq(Writes) /\ Lists(g, w, T, Len(w))
  <2>1. OnceIn(w, T, Len(w))
    BY <1>7 DEF OnceIn, Once
  <2> QED
    BY <1>2, <1>7, <2>1, KeptMembers
<1>10. /\ s \in Seq(Ids) /\ Len(s) = Len(g)
       /\ \A i \in 1 .. Len(s) : \E n \in 1 .. Len(w) : w[n].what = "row" /\ s[i] = w[n].by
       /\ \A n \in 1 .. Len(w) : w[n].what = "row" => \E i \in 1 .. Len(s) : s[i] = w[n].by
       /\ \A i, j \in 1 .. Len(s) : s[i] = s[j] => i = j
  <2>1. DOMAIN g = 1 .. Len(g) /\ Len(g) \in Nat /\ \A i \in 1 .. Len(g) : g[i] \in Writes /\ g[i].by \in Ids
    <3>1. DOMAIN g = 1 .. Len(g) /\ Len(g) \in Nat /\ \A i \in 1 .. Len(g) : g[i] \in Writes
      BY <1>9, ElementOfSeq, LenProperties
    <3>2. \A y \in Writes : y.by \in Ids
      BY DEF Writes, Ids
    <3> QED
      BY <3>1, <3>2
  <2>2. s \in Seq(Ids) /\ Len(s) = Len(g) /\ \A i \in 1 .. Len(g) : s[i] = g[i].by
    BY <1>3, <2>1
  <2>3. \A i \in 1 .. Len(g) : \E n \in 1 .. Len(w) : w[n].what = "row" /\ g[i] = w[n]
    BY <1>8, <1>9 DEF Lists
  <2>4. \A n \in 1 .. Len(w) : w[n].what = "row" => \E i \in 1 .. Len(g) : g[i] = w[n]
    BY <1>8, <1>9 DEF Lists
  <2>5. \A i, j \in 1 .. Len(g) : g[i] = g[j] => i = j
    BY <1>9 DEF Lists
  <2>6. ASSUME NEW i \in 1 .. Len(g), NEW j \in 1 .. Len(g), s[i] = s[j] PROVE i = j
    <3>1. PICK n \in 1 .. Len(w) : w[n].what = "row" /\ g[i] = w[n]
      BY <2>3
    <3>2. PICK m \in 1 .. Len(w) : w[m].what = "row" /\ g[j] = w[m]
      BY <2>3
    <3>3. n = m
      BY <1>7, <2>2, <2>6, <3>1, <3>2 DEF Once
    <3> QED
      BY <2>5, <3>1, <3>2, <3>3
  <2>7. \A i \in 1 .. Len(g) : \E n \in 1 .. Len(w) : w[n].what = "row" /\ s[i] = w[n].by
    BY <2>2, <2>3
  <2>8. \A n \in 1 .. Len(w) : w[n].what = "row" => \E i \in 1 .. Len(g) : s[i] = w[n].by
    BY <2>2, <2>4
  <2>9. s \in Seq(Ids) /\ Len(s) = Len(g)
    BY <2>2
  <2> QED
    BY ONLY <2>6, <2>7, <2>8, <2>9
<1>11. /\ \A x \in R : \E n \in 1 .. Len(w) :
            w[n].what = "row" /\ x = [id |-> w[n].by, at |-> at, user |-> w[n].user, value |-> w[n].value, code |-> w[n].code, cash |-> FALSE]
       /\ \A n \in 1 .. Len(w) : w[n].what = "row" => \E x \in R : x.id = w[n].by
  <2> DEFINE row(n) == [id |-> w[n].by, at |-> at, user |-> w[n].user, value |-> w[n].value, code |-> w[n].code, cash |-> FALSE]
  <2>1. R = {row(n) : n \in {n \in DOMAIN w : w[n].what = "row"}}
    BY <1>4 DEF RowsOf
  <2>2. \A n : row(n).id = w[n].by
    OBVIOUS
  <2> HIDE DEF row
  <2>3. /\ \A x \in R : \E n \in 1 .. Len(w) : w[n].what = "row" /\ x = row(n)
        /\ \A n \in 1 .. Len(w) : w[n].what = "row" => \E x \in R : x.id = w[n].by
    BY <1>8, <2>1, <2>2
  <2> QED
    BY <2>3 DEF row
<1>12. \A x \in R : /\ x.at = at /\ x.cash = FALSE
                    /\ \E n \in 1 .. Len(w) : w[n].what = "row" /\ x.id = w[n].by
  BY <1>11
<1>13. ASSUME NEW x \in R, NEW y \in R, x.id = y.id PROVE x = y
  <2>1. PICK n \in 1 .. Len(w) :
          w[n].what = "row" /\ x = [id |-> w[n].by, at |-> at, user |-> w[n].user, value |-> w[n].value, code |-> w[n].code, cash |-> FALSE]
    BY <1>11
  <2>2. PICK m \in 1 .. Len(w) :
          w[m].what = "row" /\ y = [id |-> w[m].by, at |-> at, user |-> w[m].user, value |-> w[m].value, code |-> w[m].code, cash |-> FALSE]
    BY <1>11
  <2>3. n = m
    BY <1>7, <1>13, <2>1, <2>2 DEF Once
  <2> QED
    BY <2>1, <2>2, <2>3
<1>14. \A x \in R, y \in xacts : x.id # y.id
  <2> SUFFICES ASSUME NEW x \in R, NEW y \in xacts, x.id = y.id PROVE FALSE
    OBVIOUS
  <2>1. PICK n \in 1 .. Len(w) : w[n].what = "row" /\ x.id = w[n].by
    BY <1>12
  <2>2. y.id \in Requests /\ "row" \notin past[y.id].kept
    BY <1>7, <1>8, <2>1 DEF Entry
  <2> QED
    BY <2>2 DEF BookInv, RowsSound
<1>15. NewRows = R
  BY <1>5, <1>14 DEF NewRows
<1>16. \A x \in R : at \in Int /\ at <= now
  <2> SUFFICES ASSUME NEW x \in R PROVE at \in Int /\ at <= now
    OBVIOUS
  <2>1. w # <<>>
    BY <1>8, <1>12
  <2>2. Conn(r).began # Never /\ Conn(r) = conn[Proc(r)]
    BY <1>0, <1>5, <2>1 DEF WholeInv, Gone, Conn
  <2>3. at = conn[Proc(r)].began
    BY <1>6, <2>2
  <2> QED
    BY <1>5, <2>1, <2>3 DEF LogInv, RowsDated
<1>17. \A u \in Users : people'[u].disabled = people[u].disabled
  BY <1>5, MovedDisabled DEF BookInv, Booking
<1>18. now \in Nat /\ now' \in Nat /\ now <= now'
  BY <1>6 DEF ApiTypeOK
<1>19. \A x \in R : x.at \in Int /\ x.at <= now' /\ x.cash = FALSE /\ \E i \in 1 .. Len(s) : s[i] = x.id
  <2> TAKE x \in R
  <2>1. x.at = at /\ x.cash = FALSE /\ at \in Int /\ at <= now'
    BY <1>6, <1>12, <1>16
  <2>2. PICK n \in 1 .. Len(w) : w[n].what = "row" /\ x.id = w[n].by
    BY <1>12
  <2>3. \E i \in 1 .. Len(s) : s[i] = x.id
    BY <1>10, <2>2
  <2> QED
    BY <2>1, <2>3
<1>20. \A i \in 1 .. Len(s) : \E x \in R : x.id = s[i]
  BY <1>10, <1>11
<1>21. \A x \in R, y \in xacts' : x.id = y.id => x = y
  BY <1>5, <1>13, <1>14
<1>22. Enters(s)
  BY <1>5, <1>6, <1>10, <1>15, <1>17, <1>18, <1>19, <1>20, <1>21 DEF Enters
<1> QED
  BY <1>22

(* Every step is one, if of no row.                                          *)
LEMMA EveryEnters ==
  ASSUME ApiInv, BookInv, LogInv, [Next]_vars
  PROVE  \E s : Enters(s)
<1>1. ApiTypeOK /\ WholeInv
  BY DEF ApiInv
<1>2. now' \in Nat /\ now <= now'
  BY TimeStep DEF LogInv, RowsDated
<1>3. CASE Calm
  BY <1>3, CalmEnters DEF LogInv
<1>4. CASE BySodad
  BY <1>1, <1>4, SodadEnters
<1>5. CASE \E r \in Requests, c \in Conns : Books(r, c)
  BY <1>1, <1>5, BooksEnters
<1> QED
  BY <1>1, <1>2, <1>3, <1>4, <1>5, LogSteps

(* What was told stays, and what is new comes after it.                      *)
LEMMA EntersNotices ==
  ASSUME Delivered, NEW s, Enters(s)
  PROVE  /\ Len(notices) \in Nat /\ Len(s) \in Nat /\ Len(notices') = Len(notices) + Len(s)
         /\ \A n \in 1 .. Len(notices) : notices'[n] = notices[n]
         /\ \A i \in 1 .. Len(s) : notices'[Len(notices) + i] = s[i]
BY DEF Delivered, Enters

LEMMA LogStep ==
  ASSUME ApiInv, BookInv, LogInv, [Next]_vars
  PROVE  LogInv'
<1>1. PICK s : Enters(s)
  BY EveryEnters
<1>2. /\ Len(notices) \in Nat /\ Len(s) \in Nat /\ Len(notices') = Len(notices) + Len(s)
      /\ \A n \in 1 .. Len(notices) : notices'[n] = notices[n]
      /\ \A i \in 1 .. Len(s) : notices'[Len(notices) + i] = s[i]
  BY <1>1, EntersNotices DEF LogInv
<1>3. \A x \in xacts' : x \in xacts \/ x \in NewRows
  BY DEF NewRows
<1>4. now \in Nat
  BY DEF ApiInv, ApiTypeOK
<1>5. \A p \in Procs : conn'[p].began <= now'
  BY TimeStep DEF LogInv, RowsDated
<1>6. \A x, y \in xacts' : x.id = y.id => x = y
  BY <1>1, <1>3 DEF LogInv, RowsDated, Enters
<1>7. \A x \in xacts' : x.at \in Int /\ x.at <= now'
  <2>1. ASSUME NEW x \in xacts PROVE x.at \in Int /\ x.at <= now'
    BY <1>1, <1>4 DEF LogInv, RowsDated, Enters
  <2> QED
    BY <1>1, <1>3, <2>1 DEF Enters
<1>8. notices' \in Seq(Ids)
  <2>1. notices \in Seq(Ids) /\ s \in Seq(Ids) /\ notices' = notices \o s
    BY <1>1 DEF LogInv, Delivered, Enters
  <2> QED
    BY <2>1
<1>9. \A n \in 1 .. Len(notices') : n \in 1 .. Len(notices) \/ \E i \in 1 .. Len(s) : n = Len(notices) + i
  <2> TAKE n \in 1 .. Len(notices')
  <2>1. CASE n > Len(notices)
    <3>1. n - Len(notices) \in 1 .. Len(s) /\ n = Len(notices) + (n - Len(notices))
      BY <1>2, <2>1
    <3> QED
      BY <3>1
  <2> QED
    BY <1>2, <2>1
<1>10. \A n \in 1 .. Len(notices') : \E x \in xacts' : x.id = notices'[n]
  <2>1. ASSUME NEW n \in 1 .. Len(notices) PROVE \E x \in xacts' : x.id = notices'[n]
    BY <1>1, <1>2 DEF LogInv, Delivered, Enters
  <2>2. ASSUME NEW i \in 1 .. Len(s) PROVE \E x \in xacts' : x.id = notices'[Len(notices) + i]
    BY <1>1, <1>2 DEF Enters, NewRows
  <2> QED
    BY <1>9, <2>1, <2>2
<1>11. \A n \in 1 .. Len(notices), i \in 1 .. Len(s) : notices'[n] # notices'[Len(notices) + i]
  <2> SUFFICES ASSUME NEW n \in 1 .. Len(notices), NEW i \in 1 .. Len(s), notices[n] = s[i] PROVE FALSE
    BY <1>2
  <2>1. PICK x \in NewRows : x.id = s[i]
    BY <1>1 DEF Enters
  <2>2. PICK y \in xacts : y.id = notices[n]
    BY DEF LogInv, Delivered
  <2>3. x = y
    BY <1>1, <2>1, <2>2 DEF Enters
  <2> QED
    BY <2>3 DEF NewRows
<1>12. ASSUME NEW n \in 1 .. Len(notices'), NEW m \in 1 .. Len(notices'), notices'[n] = notices'[m] PROVE n = m
  <2>1. CASE n \in 1 .. Len(notices) /\ m \in 1 .. Len(notices)
    BY <1>2, <1>12, <2>1 DEF LogInv, Delivered
  <2>2. CASE (\E i \in 1 .. Len(s) : n = Len(notices) + i) /\ (\E j \in 1 .. Len(s) : m = Len(notices) + j)
    BY <1>1, <1>2, <1>12, <2>2 DEF Enters
  <2> QED
    BY <1>9, <1>11, <1>12, <2>1, <2>2
<1> QED
  BY <1>5, <1>6, <1>7, <1>8, <1>10, <1>12 DEF LogInv, RowsDated, Delivered

(* The rows that the rest of the notices is of.                              *)
RowIn(X, id) == CHOOSE x \in X : x.id = id
Told(X, s, k) == {RowIn(X, s[n]) : n \in k + 1 .. Len(s)}

LEMMA RowInIs ==
  ASSUME NEW X, \A x, y \in X : x.id = y.id => x = y, NEW x \in X
  PROVE  RowIn(X, x.id) = x
BY DEF RowIn

LEMMA RowIs ==
  ASSUME LogInv
  PROVE  /\ \A x \in xacts : Row(x.id) = x
         /\ \A n \in 1 .. Len(notices) : Row(notices[n]) \in xacts /\ Row(notices[n]).id = notices[n]
<1>1. \A x \in xacts : Row(x.id) = x
  BY RowInIs DEF LogInv, RowsDated, Row, RowIn
<1> QED
  BY <1>1 DEF LogInv, Delivered

LEMMA PendingIs ==
  /\ \A k : Pending(k) = Told(xacts, notices, k)
  /\ \A k : Told(xacts, notices, k)' = Told(xacts', notices', k)
BY DEF Pending, Told, Row, RowIn

LEMMA PendingAt ==
  ASSUME LogInv
  PROVE  /\ Pending(Len(notices)) = {}
         /\ \A k \in 0 .. Len(notices) : Pending(k) \subseteq xacts
         /\ \A k \in 0 .. Len(notices) : k < Len(notices) =>
              LET x == Row(notices[k + 1])
              IN  x \in xacts /\ Pending(k) = {x} \cup Pending(k + 1) /\ x \notin Pending(k + 1)
<1>0. Len(notices) \in Nat
  BY DEF LogInv, Delivered
<1>1. Pending(Len(notices)) = {}
  BY <1>0 DEF Pending
<1>2. ASSUME NEW k \in 0 .. Len(notices) PROVE Pending(k) \subseteq xacts
  <2>1. \A n \in k + 1 .. Len(notices) : n \in 1 .. Len(notices)
    BY <1>0
  <2> QED
    BY <2>1, RowIs DEF Pending
<1>3. ASSUME NEW k \in 0 .. Len(notices), k < Len(notices)
      PROVE  LET x == Row(notices[k + 1])
             IN  x \in xacts /\ Pending(k) = {x} \cup Pending(k + 1) /\ x \notin Pending(k + 1)
  <2>1. /\ k + 1 \in 1 .. Len(notices)
        /\ \A n \in k + 1 .. Len(notices) : n = k + 1 \/ n \in (k + 1) + 1 .. Len(notices)
        /\ \A n \in (k + 1) + 1 .. Len(notices) : n \in k + 1 .. Len(notices) /\ n # k + 1 /\ n \in 1 .. Len(notices)
        /\ k + 1 \in k + 1 .. Len(notices)
    BY <1>0, <1>3
  <2>2. Row(notices[k + 1]) \in xacts /\ Row(notices[k + 1]).id = notices[k + 1]
    BY <2>1, RowIs
  <2>3. Pending(k) = {Row(notices[k + 1])} \cup Pending(k + 1)
    BY <2>1 DEF Pending
  <2>4. \A n \in (k + 1) + 1 .. Len(notices) : Row(notices[n]).id = notices[n] /\ notices[n] # notices[k + 1]
    BY <2>1, RowIs DEF LogInv, Delivered
  <2>5. Row(notices[k + 1]) \notin Pending(k + 1)
    BY <2>2, <2>4 DEF Pending
  <2> QED
    BY <2>2, <2>3, <2>5
<1> QED
  BY <1>1, <1>2, <1>3

LEMMA PendingGrows ==
  ASSUME LogInv, NEW s, Enters(s), NEW k \in 0 .. Len(notices)
  PROVE  Told(xacts', notices', k) = Pending(k) \cup NewRows
<1>1. /\ Len(notices) \in Nat /\ Len(s) \in Nat /\ Len(notices') = Len(notices) + Len(s)
      /\ \A n \in 1 .. Len(notices) : notices'[n] = notices[n]
      /\ \A i \in 1 .. Len(s) : notices'[Len(notices) + i] = s[i]
  BY EntersNotices DEF LogInv
<1>2. \A x, y \in xacts' : x.id = y.id => x = y
  <2>1. \A x \in xacts' : x \in xacts \/ x \in NewRows
    BY DEF NewRows
  <2> QED
    BY <2>1 DEF LogInv, RowsDated, Enters
<1>3. \A x \in xacts' : RowIn(xacts', x.id) = x
  BY <1>2, RowInIs
<1>4. ASSUME NEW n \in k + 1 .. Len(notices) PROVE RowIn(xacts', notices'[n]) = Row(notices[n])
  <2>1. n \in 1 .. Len(notices)
    BY <1>1
  <2>2. Row(notices[n]) \in xacts' /\ Row(notices[n]).id = notices'[n]
    BY <1>1, <2>1, RowIs DEF Enters
  <2> QED
    BY <1>3, <2>2
<1>5. ASSUME NEW i \in 1 .. Len(s)
      PROVE  \E x \in NewRows : x.id = s[i] /\ RowIn(xacts', notices'[Len(notices) + i]) = x
  <2>1. PICK x \in NewRows : x.id = s[i]
    BY DEF Enters
  <2>2. x \in xacts'
    BY DEF NewRows
  <2> QED
    BY <1>1, <1>3, <2>1, <2>2
<1>6. \A n \in k + 1 .. Len(notices') : n \in k + 1 .. Len(notices) \/ \E i \in 1 .. Len(s) : n = Len(notices) + i
  <2> TAKE n \in k + 1 .. Len(notices')
  <2>0. n \in Int /\ k + 1 <= n /\ n <= Len(notices) + Len(s) /\ Len(notices) \in Nat /\ Len(s) \in Nat /\ k \in Nat
    BY <1>1
  <2>1. CASE n > Len(notices)
    <3>1. n - Len(notices) \in 1 .. Len(s) /\ n = Len(notices) + (n - Len(notices))
      BY <2>0, <2>1
    <3> QED
      BY <3>1
  <2>2. CASE n <= Len(notices)
    BY <2>0, <2>2
  <2> QED
    BY <2>0, <2>1, <2>2
<1>7. Told(xacts', notices', k) \subseteq Pending(k) \cup NewRows
  <2> SUFFICES ASSUME NEW n \in k + 1 .. Len(notices') PROVE RowIn(xacts', notices'[n]) \in Pending(k) \cup NewRows
    BY DEF Told
  <2> QED
    BY <1>4, <1>5, <1>6 DEF Pending
<1>8. \A n \in k + 1 .. Len(notices) : n \in k + 1 .. Len(notices')
  BY <1>1
<1>9. Pending(k) \subseteq Told(xacts', notices', k)
  BY <1>4, <1>8 DEF Pending, Told
<1>10. NewRows \subseteq Told(xacts', notices', k)
  <2> SUFFICES ASSUME NEW x \in NewRows PROVE x \in Told(xacts', notices', k)
    OBVIOUS
  <2>1. PICK i \in 1 .. Len(s) : s[i] = x.id
    BY DEF Enters
  <2>2. x \in xacts' /\ Len(notices) + i \in k + 1 .. Len(notices')
    BY <1>1 DEF NewRows
  <2>3. RowIn(xacts', notices'[Len(notices) + i]) = x
    BY <1>1, <1>3, <2>1, <2>2
  <2> QED
    BY <2>2, <2>3 DEF Told
<1> QED
  BY <1>7, <1>9, <1>10

-----------------------------------------------------------------------------
(* Those who are told: their fields, and how each step moves them.           *)

OfWatcher == {"state", "at", "page", "screen", "told", "posts"}
OfKeg == {"joined", "at", "sold"}
OfSeen == {"missed", "overlap", "disorder", "untimely", "warned", "due"}
Has(z, fields) == z = [f \in fields |-> z[f]]
Shaped ==
  /\ Has(watcher, OfWatcher) /\ Has(keg, OfKeg) /\ Has(seen, OfSeen)
  /\ watcher.at \in 0 .. Len(notices) /\ keg.at \in 0 .. Len(notices) /\ keg.sold \in Nat

(* Nobody writes, and time stands still.                                     *)
Reads == UNCHANGED <<now, people, xacts, notices>>
(* What the history says of the other things than f.                         *)
SeenBut(f) == Has(seen', OfSeen) /\ \A g \in OfSeen \ f : seen'[g] = seen[g]

(* What Noted takes down of new rows.                                        *)
EmptiedNow == {x \in NewRows : x.code = Emptied}
Notes ==
  /\ UNCHANGED <<watcher, keg>>
  /\ seen'.overlap = seen.overlap /\ seen'.warned = seen.warned
  /\ seen'.missed = seen.missed \cup
       {u \in Users : people'[u] # people[u] /\ (watcher.state = "started" \/ u \notin Buyers(NewRows))}
  /\ seen'.disorder <=> \/ seen.disorder
                        \/ Behind(NewRows \cap SoldAs(Cups)', SoldAs(Kegs)')
                        \/ Behind(NewRows \cap SoldAs(Kegs)', SoldAs(Cups \cup Kegs)')
  /\ seen'.untimely <=> seen.untimely \/ Behind(EmptiedNow, {x \in xacts' : x.cash \/ x.code = Emptied})
  /\ seen'.due = [e \in DOMAIN seen.due \cup {x.id : x \in EmptiedNow} |->
                    IF e \in DOMAIN seen.due THEN seen.due[e] ELSE DepositedCash]

LEMMA NotedFacts ==
  ASSUME Shaped, Noted, UNCHANGED <<watcher, keg>>
  PROVE  Notes /\ Has(seen', OfSeen)
<1> DEFINE missed == seen.missed \cup
             {u \in Users : people'[u] # people[u] /\ (watcher.state = "started" \/ u \notin Buyers(NewRows))}
           disorder == \/ seen.disorder
                       \/ Behind(NewRows \cap SoldAs(Cups)', SoldAs(Kegs)')
                       \/ Behind(NewRows \cap SoldAs(Kegs)', SoldAs(Cups \cup Kegs)')
           untimely == seen.untimely \/ Behind(EmptiedNow, {x \in xacts' : x.cash \/ x.code = Emptied})
           due == [e \in DOMAIN seen.due \cup {x.id : x \in EmptiedNow} |->
                     IF e \in DOMAIN seen.due THEN seen.due[e] ELSE DepositedCash]
<1>2. PICK m, d, n, e : m = missed /\ d = disorder /\ n = untimely /\ e = due
  OBVIOUS
<1>3. seen' = [seen EXCEPT !.missed = m, !.disorder = d, !.untimely = n, !.due = e]
  BY <1>2 DEF Noted, NewRows, EmptiedNow
<1>4. /\ seen'.missed = m /\ seen'.disorder = d /\ seen'.untimely = n /\ seen'.due = e
      /\ seen'.overlap = seen.overlap /\ seen'.warned = seen.warned
      /\ Has(seen', OfSeen)
  <2> HIDE DEF missed, disorder, untimely, due
  <2>1. Has(seen, OfSeen)
    BY DEF Shaped
  <2> QED
    BY ONLY <1>3, <2>1 DEF Has, OfSeen
<1>5. (seen'.disorder <=> disorder) /\ (seen'.untimely <=> untimely)
  BY <1>2, <1>4
<1> QED
  BY <1>2, <1>4, <1>5 DEF Notes

(* The watcher's steps.                                                      *)
Announced(x) == IF x.code = Emptied THEN {[last |-> e.id, cash |-> CashTaken] : e \in LastEmptied} ELSE {}
Handled ==
  LET x == Row(notices[watcher.at + 1]) IN
  /\ watcher.state = "listening" /\ watcher.at < Len(notices)
  /\ \/ /\ watcher'.at = watcher.at + 1 /\ watcher'.page = Page /\ watcher'.screen = Screen
        /\ watcher'.state = "listening" /\ watcher'.told = watcher.told \cup Announced(x)
        /\ SeenBut({"missed"}) /\ seen'.missed = {}
     \/ watcher'.state = "down" /\ watcher'.at = watcher.at /\ watcher'.told = watcher.told /\ SeenBut({})
     \/ /\ ~ChangesWall(x) /\ watcher'.at = watcher.at + 1 /\ watcher'.page = watcher.page /\ watcher'.screen = watcher.screen
        /\ watcher'.state = "listening" /\ watcher'.told = watcher.told \cup Announced(x)
        /\ SeenBut({})
Rests ==
  /\ watcher'.told = watcher.told
  /\ \/ watcher'.state = "down" /\ watcher'.at = watcher.at /\ SeenBut({})
     \/ /\ watcher'.state = "started" /\ watcher'.at = watcher.at /\ watcher'.page = Page /\ watcher'.screen = Screen
        /\ SeenBut({"missed"}) /\ seen'.missed = {}
     \/ /\ watcher.state = "started" /\ watcher'.state = "listening" /\ watcher'.at = Len(notices)
        /\ watcher'.page = watcher.page /\ watcher'.screen = watcher.screen /\ SeenBut({})

LEMMA HandleFacts ==
  ASSUME Shaped, Handle
  PROVE  Handled /\ Reads /\ UNCHANGED keg /\ Has(watcher', OfWatcher)
<1>1. Reads /\ UNCHANGED keg
  BY DEF Handle, Reads, bank, api
<1>2. Has(watcher, OfWatcher) /\ Has(seen, OfSeen)
  BY DEF Shaped
<1>3. PICK x : x = Row(notices[watcher.at + 1])
  OBVIOUS
<1>4. PICK told, posts : /\ told = watcher.told \cup Announced(x)
                         /\ posts = IF LeavesWall(x) THEN watcher.posts \ {x.user} ELSE watcher.posts
  OBVIOUS
<1>5. PICK page, screen : page = Page /\ screen = Screen
  OBVIOUS
<1>6. PICK handled : handled = [watcher EXCEPT !.at = @ + 1, !.told = told, !.posts = posts]
  OBVIOUS
<1>7. /\ Has(handled, OfWatcher) /\ handled.state = watcher.state /\ handled.at = watcher.at + 1 /\ handled.told = told
      /\ handled.page = watcher.page /\ handled.screen = watcher.screen
  BY ONLY <1>2, <1>6 DEF Has, OfWatcher
<1>8. /\ watcher.state = "listening" /\ watcher.at < Len(notices)
      /\ \/ watcher' = [handled EXCEPT !.page = page, !.screen = screen] /\ seen' = [seen EXCEPT !.missed = {}]
         \/ watcher' = [watcher EXCEPT !.state = "down", !.screen = screen] /\ UNCHANGED seen
         \/ ~ChangesWall(x) /\ watcher' = handled /\ UNCHANGED seen
  BY <1>3, <1>4, <1>5, <1>6 DEF Handle, Announced
<1>9. CASE watcher' = [handled EXCEPT !.page = page, !.screen = screen] /\ seen' = [seen EXCEPT !.missed = {}]
  <2>1. /\ Has(watcher', OfWatcher) /\ watcher'.state = handled.state /\ watcher'.at = handled.at
        /\ watcher'.told = handled.told /\ watcher'.page = page /\ watcher'.screen = screen
    BY ONLY <1>7, <1>9 DEF Has, OfWatcher
  <2>2. SeenBut({"missed"}) /\ seen'.missed = {}
    BY ONLY <1>2, <1>9 DEF Has, OfSeen, SeenBut
  <2> QED
    BY <1>1, <1>3, <1>4, <1>5, <1>7, <1>8, <2>1, <2>2 DEF Handled
<1>10. CASE watcher' = [watcher EXCEPT !.state = "down", !.screen = screen] /\ UNCHANGED seen
  <2>1. Has(watcher', OfWatcher) /\ watcher'.state = "down" /\ watcher'.at = watcher.at /\ watcher'.told = watcher.told
    BY ONLY <1>2, <1>10 DEF Has, OfWatcher
  <2>2. SeenBut({})
    BY ONLY <1>2, <1>10 DEF SeenBut
  <2> QED
    BY <1>1, <1>8, <2>1, <2>2 DEF Handled
<1>11. CASE ~ChangesWall(x) /\ watcher' = handled /\ UNCHANGED seen
  <2>1. SeenBut({})
    BY ONLY <1>2, <1>11 DEF SeenBut
  <2> QED
    BY <1>1, <1>3, <1>4, <1>7, <1>8, <1>11, <2>1 DEF Handled
<1> QED
  BY <1>8, <1>9, <1>10, <1>11

LEMMA RestFacts ==
  ASSUME Shaped, Stop \/ StartUp \/ Listen
  PROVE  Rests /\ Reads /\ UNCHANGED keg /\ Has(watcher', OfWatcher)
<1>1. Reads /\ UNCHANGED keg
  BY DEF Stop, StartUp, Listen, Reads, bank, api
<1>2. Has(watcher, OfWatcher) /\ Has(seen, OfSeen)
  BY DEF Shaped
<1>3. CASE Stop
  <2>1. watcher' = [watcher EXCEPT !.state = "down"] /\ UNCHANGED seen
    BY <1>3 DEF Stop
  <2>2. /\ Has(watcher', OfWatcher) /\ watcher'.told = watcher.told /\ watcher'.at = watcher.at
        /\ watcher'.state = "down" /\ SeenBut({})
    BY ONLY <1>2, <2>1 DEF Has, OfWatcher, SeenBut
  <2> QED
    BY <1>1, <2>2 DEF Rests
<1>4. CASE StartUp
  <2>1. PICK page, screen : page = Page /\ screen = Screen
    OBVIOUS
  <2>2. /\ watcher' = [watcher EXCEPT !.state = "started", !.page = page, !.screen = screen]
        /\ seen' = [seen EXCEPT !.missed = {}]
    BY <1>4, <2>1 DEF StartUp
  <2>3. /\ Has(watcher', OfWatcher) /\ watcher'.told = watcher.told /\ watcher'.at = watcher.at
        /\ watcher'.state = "started" /\ watcher'.page = page /\ watcher'.screen = screen
        /\ SeenBut({"missed"}) /\ seen'.missed = {}
    BY ONLY <1>2, <2>2 DEF Has, OfWatcher, OfSeen, SeenBut
  <2> QED
    BY <1>1, <2>1, <2>3 DEF Rests
<1>5. CASE Listen
  <2>1. PICK n : n = Len(notices)
    OBVIOUS
  <2>2. watcher.state = "started" /\ watcher' = [watcher EXCEPT !.state = "listening", !.at = n] /\ UNCHANGED seen
    BY <1>5, <2>1 DEF Listen
  <2>3. /\ Has(watcher', OfWatcher) /\ watcher'.told = watcher.told /\ watcher'.at = n
        /\ watcher'.state = "listening" /\ watcher'.page = watcher.page /\ watcher'.screen = watcher.screen
        /\ SeenBut({})
    BY ONLY <1>2, <2>2 DEF Has, OfWatcher, SeenBut
  <2> QED
    BY <1>1, <2>1, <2>2, <2>3 DEF Rests
<1> QED
  BY <1>3, <1>4, <1>5

(* The steps of the coldbrew service.                                        *)
Pours ==
  LET x == Row(notices[keg.at + 1]) IN
  /\ keg.at < Len(notices)
  /\ keg'.at = keg.at + 1 /\ keg'.sold = AfterEvent(x)
  /\ SeenBut({"overlap", "warned"})
  /\ seen'.overlap <=> seen.overlap /\ x.code \notin Kegs
  /\ seen'.warned <=> (Brew(x) /\ AfterEvent(x) = WarnLevel) \/ (seen.warned /\ x.code \notin Kegs)
Counts ==
  /\ keg'.sold = CupsSold
  /\ seen'.overlap <=> seen.overlap \/ \E x \in Pending(keg.at) : Brew(x)
  /\ \/ SoldAs(Kegs) # {} /\ keg'.at = keg.at /\ SeenBut({"overlap"})
     \/ /\ keg'.at = keg.at /\ SeenBut({"overlap", "warned"})
        /\ seen'.warned <=> seen.warned \/ CupsSold >= WarnLevel
Joins ==
  /\ keg'.at \in keg.at .. Len(notices) /\ keg'.sold = keg.sold /\ SeenBut({"overlap"})
  /\ seen'.overlap <=> seen.overlap \/ \E m \in keg.at + 1 .. keg'.at : Brew(Row(notices[m]))

LEMMA KegFacts ==
  ASSUME Shaped, KegHears \/ KegStatus \/ KegRestart \/ KegJoins
  PROVE  (Pours \/ Counts \/ Joins) /\ Reads /\ UNCHANGED watcher /\ Has(keg', OfKeg)
<1>1. Reads /\ UNCHANGED watcher
  BY DEF KegHears, KegStatus, KegRestart, KegJoins, Reads, bank, api
<1>2. Has(keg, OfKeg) /\ Has(seen, OfSeen)
  BY DEF Shaped
<1>3. CASE KegHears
  <2>1. PICK x, after, overlap, warned :
          /\ x = Row(notices[keg.at + 1]) /\ after = AfterEvent(x)
          /\ overlap = (seen.overlap /\ x.code \notin Kegs)
          /\ warned = ((Brew(x) /\ AfterEvent(x) = WarnLevel) \/ (seen.warned /\ x.code \notin Kegs))
    OBVIOUS
  <2>2. /\ keg.at < Len(notices) /\ keg' = [keg EXCEPT !.at = @ + 1, !.sold = after]
        /\ seen' = [seen EXCEPT !.overlap = overlap, !.warned = warned]
    BY <1>3, <2>1 DEF KegHears
  <2>3. Has(keg', OfKeg) /\ keg'.at = keg.at + 1 /\ keg'.sold = after
    BY ONLY <1>2, <2>2 DEF Has, OfKeg
  <2>4. SeenBut({"overlap", "warned"}) /\ seen'.overlap = overlap /\ seen'.warned = warned
    BY ONLY <1>2, <2>2 DEF Has, OfSeen, SeenBut
  <2> QED
    BY <1>1, <2>1, <2>2, <2>3, <2>4 DEF Pours
<1>4. CASE KegStatus
  <2>1. PICK cups, overlap :
          /\ cups = CupsSold /\ overlap = (seen.overlap \/ \E x \in Pending(keg.at) : Brew(x))
    OBVIOUS
  <2>2. SoldAs(Kegs) # {} /\ keg' = [keg EXCEPT !.sold = cups] /\ seen' = [seen EXCEPT !.overlap = overlap]
    BY <1>4, <2>1 DEF KegStatus
  <2>3. Has(keg', OfKeg) /\ keg'.at = keg.at /\ keg'.sold = cups
    BY ONLY <1>2, <2>2 DEF Has, OfKeg
  <2>4. SeenBut({"overlap"}) /\ seen'.overlap = overlap
    BY ONLY <1>2, <2>2 DEF Has, OfSeen, SeenBut
  <2> QED
    BY <1>1, <2>1, <2>2, <2>3, <2>4 DEF Counts
<1>5. CASE KegRestart
  <2>1. PICK cups, overlap, warned :
          /\ cups = CupsSold /\ overlap = (seen.overlap \/ \E x \in Pending(keg.at) : Brew(x))
          /\ warned = (seen.warned \/ CupsSold >= WarnLevel)
    OBVIOUS
  <2>2. /\ keg' = [keg EXCEPT !.joined = FALSE, !.sold = cups]
        /\ seen' = [seen EXCEPT !.overlap = overlap, !.warned = warned]
    BY <1>5, <2>1 DEF KegRestart
  <2>3. Has(keg', OfKeg) /\ keg'.at = keg.at /\ keg'.sold = cups
    BY ONLY <1>2, <2>2 DEF Has, OfKeg
  <2>4. SeenBut({"overlap", "warned"}) /\ seen'.overlap = overlap /\ seen'.warned = warned
    BY ONLY <1>2, <2>2 DEF Has, OfSeen, SeenBut
  <2> QED
    BY <1>1, <2>1, <2>2, <2>3, <2>4 DEF Counts
<1>6. CASE KegJoins
  <2>1. PICK n, overlap :
          /\ n \in keg.at .. Len(notices)
          /\ overlap = (seen.overlap \/ \E m \in keg.at + 1 .. n : Brew(Row(notices[m])))
          /\ keg' = [keg EXCEPT !.joined = TRUE, !.at = n]
          /\ seen' = [seen EXCEPT !.overlap = overlap]
    BY <1>6 DEF KegJoins
  <2>3. Has(keg', OfKeg) /\ keg'.at = n /\ keg'.sold = keg.sold
    BY ONLY <1>2, <2>1 DEF Has, OfKeg
  <2>4. SeenBut({"overlap"}) /\ seen'.overlap = overlap
    BY ONLY <1>2, <2>1 DEF Has, OfSeen, SeenBut
  <2> QED
    BY <1>1, <2>1, <2>3, <2>4 DEF Joins
<1> QED
  BY <1>3, <1>4, <1>5, <1>6

(* Every step is one of these.                                               *)
Attended == Handled /\ Reads /\ UNCHANGED keg /\ Has(watcher', OfWatcher)
Rested == Rests /\ Reads /\ UNCHANGED keg /\ Has(watcher', OfWatcher)
Brewed == (Pours \/ Counts \/ Joins) /\ Reads /\ UNCHANGED watcher /\ Has(keg', OfKeg)
EntersNoted(s) == Enters(s) /\ Notes /\ Has(seen', OfSeen)

LEMMA WatchSteps ==
  ASSUME ApiInv, BookInv, LogInv, Shaped, [Next]_vars
  PROVE  (\E s : EntersNoted(s)) \/ Attended \/ Rested \/ Brewed \/ UNCHANGED vars
<1>1. CASE ByApi \/ BySodad
  <2>1. Noted /\ UNCHANGED <<watcher, keg>>
    BY <1>1 DEF ByApi, BySodad
  <2> QED
    BY <2>1, EveryEnters, NotedFacts DEF EntersNoted
<1>2. CASE Handle
  BY <1>2, HandleFacts DEF Attended
<1>3. CASE Stop \/ StartUp \/ Listen
  BY <1>3, RestFacts DEF Rested
<1>4. CASE KegHears \/ KegStatus \/ KegRestart \/ KegJoins
  BY <1>4, KegFacts DEF Brewed
<1> QED
  BY <1>1, <1>2, <1>3, <1>4 DEF Next

LEMMA CupsSoldNat ==
  ASSUME BookInv
  PROVE  CupsSold \in Nat
<1>1. IsFiniteSet({x \in SoldAs(Cups) : \E k \in LastOf(SoldAs(Kegs)) : x.at > k.at})
  BY FS_Subset DEF BookInv, RowsSound, SoldAs
<1> QED
  BY <1>1, FS_CardinalityType DEF CupsSold

LEMMA ShapedStep ==
  ASSUME ApiInv, BookInv, LogInv, Shaped, [Next]_vars
  PROVE  Shaped'
<1>0. Len(notices) \in Nat /\ watcher.at \in 0 .. Len(notices) /\ keg.at \in 0 .. Len(notices) /\ keg.sold \in Nat
  BY DEF LogInv, Delivered, Shaped
<1>1. ASSUME NEW s, EntersNoted(s) PROVE Shaped'
  <2>1. Len(notices') \in Nat /\ Len(notices') >= Len(notices)
    <3>1. Enters(s)
      BY <1>1 DEF EntersNoted
    <3> QED
      BY <3>1, EntersNotices DEF LogInv
  <2>2. watcher.at \in 0 .. Len(notices') /\ keg.at \in 0 .. Len(notices')
    BY <1>0, <2>1
  <2>3. UNCHANGED <<watcher, keg>> /\ Has(seen', OfSeen)
    BY <1>1 DEF EntersNoted, Notes
  <2> QED
    BY <1>0, <2>2, <2>3 DEF Shaped
<1>2. ASSUME Attended \/ Rested PROVE Shaped'
  <2>1. watcher'.at \in 0 .. Len(notices) /\ Has(watcher', OfWatcher) /\ UNCHANGED <<keg, notices>> /\ Has(seen', OfSeen)
    BY <1>0, <1>2 DEF Attended, Rested, Handled, Rests, Reads, SeenBut
  <2> QED
    BY <1>0, <2>1 DEF Shaped
<1>3. ASSUME Brewed PROVE Shaped'
  <2>1. CASE Pours
    <3>1. keg'.at \in 0 .. Len(notices) /\ keg'.sold \in Nat
      BY <1>0, <2>1 DEF Pours, AfterEvent
    <3>2. Has(keg', OfKeg) /\ Has(seen', OfSeen) /\ UNCHANGED <<watcher, notices>>
      BY <1>3, <2>1 DEF Brewed, Pours, SeenBut, Reads
    <3> QED
      BY <3>1, <3>2 DEF Shaped
  <2>2. CASE Counts
    <3>1. keg'.at \in 0 .. Len(notices) /\ keg'.sold \in Nat
      BY <1>0, <2>2, CupsSoldNat DEF Counts
    <3>2. Has(keg', OfKeg) /\ Has(seen', OfSeen) /\ UNCHANGED <<watcher, notices>>
      BY <1>3, <2>2 DEF Brewed, Counts, SeenBut, Reads
    <3> QED
      BY <3>1, <3>2 DEF Shaped
  <2>3. CASE Joins
    <3>1. keg'.at \in 0 .. Len(notices) /\ keg'.sold \in Nat
      BY <1>0, <2>3 DEF Joins
    <3>2. Has(keg', OfKeg) /\ Has(seen', OfSeen) /\ UNCHANGED <<watcher, notices>>
      BY <1>3, <2>3 DEF Brewed, Joins, SeenBut, Reads
    <3> QED
      BY <3>1, <3>2 DEF Shaped
  <2> QED
    BY <1>3, <2>1, <2>2, <2>3 DEF Brewed
<1>4. ASSUME UNCHANGED vars PROVE Shaped'
  BY <1>4 DEF vars, watching, api, Shaped
<1> QED
  BY <1>1, <1>2, <1>3, <1>4, WatchSteps

-----------------------------------------------------------------------------
(* The wall.  Whom its page lacks, though his balance asks for it, a notice  *)
(* of his that is still to come will put there.                              *)

Shown(u) ==
  people[u].balance < WallDebt =>
    /\ u \in DOMAIN watcher.page
    /\ u \in HighDebt(now) => u \in watcher.screen.high
Coming(u) == \E x \in Pending(watcher.at) : x.user = u
WallInv ==
  /\ watcher.state = "listening" => \A u \in Enabled \ seen.missed : Shown(u) \/ Coming(u)
  /\ watcher.state = "started" => \A u \in Enabled \ seen.missed : Shown(u)

(* On what is written now, everybody is.                                     *)
LEMMA PageShows ==
  ASSUME ApiInv, BookInv, Reads, watcher'.page = Page, watcher'.screen = Screen
  PROVE  \A u \in Enabled' : Shown(u)'
<1>1. \A u \in Users : people[u].balance \in Int
  BY DEF BookInv, Account
<1>2. DOMAIN Page = Debtors /\ Screen.high = HighDebt(now)
  BY DEF Page, Screen
<1>3. \A u \in Enabled : people[u].balance < WallDebt => u \in Debtors
  <2> SUFFICES ASSUME NEW u \in Enabled, people[u].balance < WallDebt PROVE people[u].balance <= WallDebt
    BY DEF Debtors
  <2>1. PICK balance, debt : balance = people[u].balance /\ debt = WallDebt
    OBVIOUS
  <2>2. balance \in Int /\ debt \in Int /\ balance < debt
    BY <1>1, <2>1, BankConstants DEF Enabled
  <2> QED
    BY <2>1, <2>2
<1>4. Enabled' = Enabled /\ HighDebt(now)' = HighDebt(now)
  BY DEF Reads, Enabled, HighDebt, BoughtSince
<1> QED
  BY <1>2, <1>3, <1>4 DEF Shown, Reads

(* What is on it stays, as time goes on.                                     *)
LEMMA HighDebtShrinks ==
  ASSUME now \in Nat, now' \in Nat, now <= now', NEW u \in Enabled, people'[u] = people[u],
         people[u] \in Account, u \in HighDebt(now)'
  PROVE  u \in HighDebt(now)
<1>1. PICK days, bought : days = Days.quiet * DayLength /\ bought = people[u].bought
  OBVIOUS
<1>2. days \in Nat /\ bought \in Int
  BY <1>1, BankConstants DEF Account
<1>3. people[u].balance <= BigDebt /\ bought # Never /\ bought > now' - days
  BY <1>1 DEF HighDebt, BoughtSince
<1>4. bought > now - days
  BY <1>2, <1>3
<1> QED
  BY <1>1, <1>3, <1>4 DEF HighDebt, BoughtSince

LEMMA WallStep ==
  ASSUME ApiInv, BookInv, LogInv, Shaped, WallInv, [Next]_vars
  PROVE  WallInv'
<1>0. /\ now \in Nat /\ people \in [Users -> Account]
      /\ Len(notices) \in Nat /\ watcher.at \in 0 .. Len(notices)
  BY DEF ApiInv, ApiTypeOK, BookInv, LogInv, Delivered, Shaped
<1>1. ASSUME NEW s, EntersNoted(s) PROVE WallInv'
  <2>1. Enters(s) /\ UNCHANGED watcher /\ now' \in Nat /\ now <= now' /\ xacts \subseteq xacts'
    BY <1>1 DEF EntersNoted, Notes, Enters
  <2>2. Enabled' = Enabled
    BY <2>1 DEF Enters, Enabled
  <2>3. \A u \in Enabled : u \notin seen'.missed =>
          /\ u \notin seen.missed
          /\ people'[u] = people[u] \/ (watcher.state # "started" /\ \E x \in NewRows : x.user = u)
    BY <1>1 DEF EntersNoted, Notes, Enabled, Buyers
  <2>4. Pending(watcher.at)' = Pending(watcher.at) \cup NewRows
    <3>1. \A k : k = watcher.at => Pending(watcher.at)' = Told(xacts', notices', k)
      BY <2>1 DEF Pending, Told, Row, RowIn
    <3> QED
      BY <1>0, <2>1, <3>1, PendingGrows
  <2>5. \A u : Coming(u) \/ (\E x \in NewRows : x.user = u) => Coming(u)'
    BY <2>4 DEF Coming
  <2>6. ASSUME NEW u \in Enabled, people'[u] = people[u], Shown(u) PROVE Shown(u)'
    <3>1. u \in HighDebt(now)' => u \in HighDebt(now)
      BY <1>0, <2>1, <2>6, HighDebtShrinks DEF Enabled
    <3> QED
      BY <2>1, <2>6, <3>1 DEF Shown
  <2>7. CASE watcher.state = "listening"
    <3>1. \A u \in Enabled : u \notin seen'.missed => Shown(u)' \/ Coming(u)'
      BY <2>3, <2>5, <2>6, <2>7 DEF WallInv
    <3> QED
      BY <2>1, <2>2, <2>7, <3>1 DEF WallInv
  <2>8. CASE watcher.state = "started"
    <3>1. \A u \in Enabled : u \notin seen'.missed => Shown(u)'
      BY <2>3, <2>6, <2>8 DEF WallInv
    <3> QED
      BY <2>1, <2>2, <2>8, <3>1 DEF WallInv
  <2> QED
    BY <2>1, <2>7, <2>8 DEF WallInv
<1>2. ASSUME Reads PROVE Enabled' = Enabled /\ (\A u : HighDebt(now)' = HighDebt(now)) /\ \A k : Told(xacts', notices', k) = Pending(k)
  BY <1>2 DEF Reads, Enabled, HighDebt, BoughtSince, Told, Pending, Row, RowIn
<1>3. ASSUME Reads, watcher'.page = watcher.page, watcher'.screen = watcher.screen
      PROVE  \A u \in Enabled : Shown(u)' <=> Shown(u)
  BY <1>2, <1>3 DEF Shown, Reads
<1>4. ASSUME Attended PROVE WallInv'
  <2> DEFINE x == Row(notices[watcher.at + 1])
  <2>1. Handled /\ Reads /\ watcher.state = "listening" /\ watcher.at < Len(notices)
    BY <1>4 DEF Attended, Handled
  <2>2. CASE watcher'.page = Page /\ watcher'.screen = Screen /\ watcher'.state = "listening"
    BY <2>1, <2>2, PageShows DEF WallInv
  <2>3. CASE watcher'.state = "down"
    BY <2>3 DEF WallInv
  <2>4. CASE /\ ~ChangesWall(x) /\ watcher'.at = watcher.at + 1 /\ watcher'.page = watcher.page /\ watcher'.screen = watcher.screen
             /\ watcher'.state = "listening" /\ SeenBut({})
    <3>1. Pending(watcher.at) = {x} \cup Pending(watcher.at + 1)
      BY <1>0, <2>1, PendingAt
    <3>2. Pending(watcher.at)' = Pending(watcher.at + 1)
      <4>1. \A k : k = watcher'.at => Pending(watcher.at)' = Told(xacts', notices', k)
        BY DEF Pending, Told, Row, RowIn
      <4> QED
        BY <1>2, <2>1, <2>4, <4>1
    <3>3. \A u \in Enabled : Coming(u) => Coming(u)' \/ Shown(u)
      <4> TAKE u \in Enabled
      <4>1. Coming(u) => Coming(u)' \/ x.user = u
        BY <3>1, <3>2 DEF Coming
      <4>2. x.user = u => Shown(u)
        BY <2>4 DEF ChangesWall, Shown
      <4> QED
        BY <4>1, <4>2
    <3>4. seen'.missed = seen.missed
      BY <2>4 DEF SeenBut, OfSeen
    <3> QED
      BY <1>2, <1>3, <2>1, <2>4, <3>3, <3>4 DEF WallInv
  <2> QED
    BY <2>1, <2>2, <2>3, <2>4 DEF Handled
<1>5. ASSUME Rested PROVE WallInv'
  <2>1. Rests /\ Reads
    BY <1>5 DEF Rested
  <2>2. CASE watcher'.page = Page /\ watcher'.screen = Screen
    BY <2>1, <2>2, PageShows DEF WallInv
  <2>3. CASE watcher'.state = "down"
    BY <2>3 DEF WallInv
  <2>4. CASE /\ watcher.state = "started" /\ watcher'.page = watcher.page /\ watcher'.screen = watcher.screen
             /\ SeenBut({})
    <3>1. seen'.missed = seen.missed
      BY <2>4 DEF SeenBut, OfSeen
    <3> QED
      BY <1>2, <1>3, <2>1, <2>4, <3>1 DEF WallInv
  <2> QED
    BY <2>1, <2>2, <2>3, <2>4 DEF Rests
<1>6. ASSUME Brewed \/ UNCHANGED vars PROVE WallInv'
  <2>1. Reads /\ UNCHANGED watcher /\ seen'.missed = seen.missed
    BY <1>6 DEF Brewed, Pours, Counts, Joins, SeenBut, OfSeen, vars, watching, bank, api, Reads
  <2>2. \A u : Coming(u)' <=> Coming(u)
    BY <2>1 DEF Coming, Pending, Row, Reads
  <2> QED
    BY <1>2, <1>3, <2>1, <2>2 DEF WallInv
<1> QED
  BY <1>1, <1>4, <1>5, <1>6, WatchSteps

(* At first nothing is told, and nobody listens.                             *)
LEMMA LogStarts ==
  ASSUME Init
  PROVE  LogInv
<1>1. /\ notices = <<>> /\ xacts = Xacts0 /\ now = Start
      /\ \A p \in Procs : conn[p].began = Never
  BY DEF Init, ApiInit
<1>2. \A p \in Procs : conn[p].began <= now
  BY <1>1, WatchersConstants DEF Never
<1>3. RowsDated
  BY <1>1, <1>2, WatchersConstants DEF RowsDated
<1>4. Delivered
  BY <1>1 DEF Delivered
<1> QED
  BY <1>3, <1>4 DEF LogInv

LEMMA WatchStarts ==
  ASSUME Init, BookInv
  PROVE  Shaped /\ WallInv
<1>1. /\ watcher = [state |-> "down", at |-> 0, page |-> <<>>, screen |-> Screen, told |-> {}, posts |-> Debtors]
      /\ keg = [joined |-> TRUE, at |-> 0, sold |-> CupsSold]
      /\ \E warned : seen = [missed |-> {}, overlap |-> FALSE, disorder |-> FALSE, untimely |-> FALSE, warned |-> warned, due |-> <<>>]
      /\ notices = <<>>
  BY DEF Init, ApiInit
<1>2. Has(watcher, OfWatcher) /\ Has(keg, OfKeg) /\ Has(seen, OfSeen)
  <2>1. PICK screen, posts, sold, warned : 
          /\ watcher = [state |-> "down", at |-> 0, page |-> <<>>, screen |-> screen, told |-> {}, posts |-> posts]
          /\ keg = [joined |-> TRUE, at |-> 0, sold |-> sold]
          /\ seen = [missed |-> {}, overlap |-> FALSE, disorder |-> FALSE, untimely |-> FALSE, warned |-> warned, due |-> <<>>]
    BY <1>1
  <2> QED
    BY ONLY <2>1 DEF Has, OfWatcher, OfKeg, OfSeen
<1>3. watcher.at = 0 /\ watcher.state = "down" /\ keg.at = 0 /\ keg.sold \in Nat /\ Len(notices) = 0
  BY <1>1, CupsSoldNat
<1> QED
  BY <1>2, <1>3 DEF Shaped, WallInv

LEMMA LogInvariant == Spec => [](LogInv /\ Shaped)
<1>1. Init => LogInv /\ Shaped
  BY LogStarts, BookStarts, WatchStarts
<1>2. ApiInv /\ BookInv /\ LogInv /\ Shaped /\ [Next]_vars => LogInv' /\ Shaped'
  BY LogStep, ShapedStep
<1> QED
  BY <1>1, <1>2, ApiInvariant, BookInvariant, PTL DEF Spec

(* When the watcher has handled every notice, whoever owes more than the     *)
(* wall's debt is on the page, and on the screen if it is a lot, but for who *)
(* was missed: however far it was behind, whatever it reads being later than *)
(* the notice, and in whichever order the requests commit.                   *)
THEOREM WallShowsDebtors == Spec => []WallCatchesUp
<1>1. Init => WallInv
  BY BookStarts, WatchStarts
<1>2. ApiInv /\ BookInv /\ LogInv /\ Shaped /\ WallInv /\ [Next]_vars => WallInv'
  BY WallStep
<1>3. LogInv /\ WallInv => WallCatchesUp
  <2> SUFFICES ASSUME LogInv, WallInv, watcher.state = "listening", watcher.at = Len(notices), NEW u \in Enabled \ seen.missed
               PROVE  Shown(u)
    BY DEF WallCatchesUp, Shown
  <2>1. ~Coming(u)
    BY PendingAt DEF Coming
  <2> QED
    BY <2>1 DEF WallInv
<1> QED
  BY <1>1, <1>2, <1>3, ApiInvariant, BookInvariant, LogInvariant, PTL DEF Spec

-----------------------------------------------------------------------------
(* The keg.  A finite set of dated rows has a last one.                      *)
LEMMA LastIs ==
  ASSUME NEW R, IsFiniteSet(R), \A x \in R : x.at \in Int, R # {}
  PROVE  LastOf(R) # {}
<1> DEFINE UpFrom(x) == {y \in R : y.at >= x.at}
           T == {UpFrom(x) : x \in R}
<1>1. T # {} /\ \A U \in T : IsFiniteSet(U)
  <2>1. \A x \in R : IsFiniteSet(UpFrom(x))
    <3> TAKE x \in R
    <3>1. UpFrom(x) \subseteq R
      OBVIOUS
    <3> QED
      BY <3>1, FS_Subset
  <2> QED
    BY <2>1
<1>2. PICK U \in T : \A V \in T : V \subseteq U => V = U
  <2> HIDE DEF T
  <2> QED
    BY <1>1, MinimalFinite
<1>3. PICK x \in R : U = UpFrom(x)
  BY <1>2
<1>4. ASSUME NEW y \in R PROVE y.at <= x.at
  <2>1. x.at \in Int /\ y.at \in Int
    OBVIOUS
  <2>2. CASE y.at > x.at
    <3>1. UpFrom(y) \subseteq UpFrom(x) /\ x \notin UpFrom(y) /\ x \in UpFrom(x)
      BY <2>1, <2>2
    <3>2. UpFrom(y) \in T
      OBVIOUS
    <3> QED
      BY <1>2, <1>3, <3>1, <3>2
  <2> QED
    BY <2>1, <2>2
<1> QED
  BY <1>3, <1>4 DEF LastOf

(* How many members a set and others have.                                   *)
LEMMA Together ==
  ASSUME NEW S, NEW T, IsFiniteSet(S), IsFiniteSet(T), S \cap T = {}
  PROVE  /\ IsFiniteSet(S \cup T) /\ Cardinality(S \cup T) = Cardinality(S) + Cardinality(T)
         /\ Cardinality(S) \in Nat /\ Cardinality(T) \in Nat
<1>1. Cardinality(S) \in Nat /\ Cardinality(T) \in Nat /\ Cardinality(S \cap T) = 0
  BY FS_CardinalityType, FS_EmptySet
<1>2. IsFiniteSet(S \cup T) /\ Cardinality(S \cup T) = Cardinality(S) + Cardinality(T) - Cardinality(S \cap T)
  BY FS_Union
<1> QED
  BY <1>1, <1>2

(* The cups and the kegs of a set of rows, and the cups since the last keg.  *)
Coded(C, X) == {x \in X : x.code \in C}
SinceKeg(X) == {x \in Coded(Cups, X) : \E k \in LastOf(Coded(Kegs, X)) : x.at > k.at}

LEMMA CupsSoldIs ==
  /\ CupsSold = Cardinality(SinceKeg(xacts)) /\ CupsSold' = Cardinality(SinceKeg(xacts'))
  /\ \A C : SoldAs(C) = Coded(C, xacts) /\ SoldAs(C)' = Coded(C, xacts')
BY DEF CupsSold, SinceKeg, SoldAs, Coded, LastOf

(* Rows in the order of their dates count on, or begin anew.                 *)
LEMMA SinceKegGrows ==
  ASSUME NEW X, NEW Y, IsFiniteSet(X), IsFiniteSet(Y), X \cap Y = {},
         \A x \in X \cup Y : x.at \in Int,
         ~Behind(Coded(Cups, Y), Coded(Kegs, X \cup Y)),
         ~Behind(Coded(Kegs, Y), Coded(Cups \cup Kegs, X \cup Y))
  PROVE  /\ Coded(Kegs, Y) = {} /\ Coded(Kegs, X) # {} =>
              Cardinality(SinceKeg(X \cup Y)) = Cardinality(SinceKeg(X)) + Cardinality(Coded(Cups, Y))
         /\ Coded(Kegs, Y) # {} => Cardinality(SinceKeg(X \cup Y)) = 0 /\ Coded(Cups, Y) = {}
<1>0. Cups \cap Kegs = {}
  BY BankConstants
<1>1. ASSUME Coded(Kegs, Y) = {}, Coded(Kegs, X) # {}
      PROVE  Cardinality(SinceKeg(X \cup Y)) = Cardinality(SinceKeg(X)) + Cardinality(Coded(Cups, Y))
  <2>1. Coded(Kegs, X \cup Y) = Coded(Kegs, X)
    BY <1>1 DEF Coded
  <2>2. LastOf(Coded(Kegs, X)) # {} /\ LastOf(Coded(Kegs, X)) \subseteq Coded(Kegs, X)
    <3>1. IsFiniteSet(Coded(Kegs, X)) /\ \A x \in Coded(Kegs, X) : x.at \in Int
      BY FS_Subset DEF Coded
    <3> QED
      BY <1>1, <3>1, LastIs DEF LastOf
  <2>3. \A x \in Coded(Cups, Y), k \in Coded(Kegs, X) : x.at > k.at
    <3> TAKE x \in Coded(Cups, Y), k \in Coded(Kegs, X)
    <3>1. x # k
      BY DEF Coded
    <3>2. ~(x.at <= k.at)
      BY <2>1, <3>1 DEF Behind
    <3>3. x.at \in Int /\ k.at \in Int
      BY DEF Coded
    <3> QED
      BY <3>2, <3>3
  <2>4. SinceKeg(X \cup Y) = SinceKeg(X) \cup Coded(Cups, Y)
    <3>1. Coded(Cups, X \cup Y) = Coded(Cups, X) \cup Coded(Cups, Y)
      BY DEF Coded
    <3> QED
      BY <2>1, <2>2, <2>3, <3>1 DEF SinceKeg
  <2>5. IsFiniteSet(SinceKeg(X)) /\ IsFiniteSet(Coded(Cups, Y)) /\ SinceKeg(X) \cap Coded(Cups, Y) = {}
    <3>1. SinceKeg(X) \subseteq X /\ Coded(Cups, Y) \subseteq Y
      BY DEF SinceKeg, Coded
    <3> QED
      BY <3>1, FS_Subset
  <2> QED
    BY <2>4, <2>5, Together
<1>2. ASSUME Coded(Kegs, Y) # {}
      PROVE  Cardinality(SinceKeg(X \cup Y)) = 0 /\ Coded(Cups, Y) = {}
  <2>1. PICK k : k \in Coded(Kegs, Y)
    BY <1>2
  <2>2. \A x \in Coded(Cups \cup Kegs, X \cup Y) : x # k => x.at < k.at
    <3> TAKE x \in Coded(Cups \cup Kegs, X \cup Y)
    <3>1. x # k => ~(k.at <= x.at)
      BY <2>1 DEF Behind
    <3>2. x.at \in Int /\ k.at \in Int
      BY <2>1 DEF Coded
    <3> QED
      BY <3>1, <3>2
  <2>3. Coded(Cups, Y) = {}
    <3> SUFFICES ASSUME NEW x \in Coded(Cups, Y) PROVE FALSE
      OBVIOUS
    <3>1. x # k /\ x \in Coded(Cups \cup Kegs, X \cup Y) /\ k \in Coded(Kegs, X \cup Y)
      BY <1>0, <2>1 DEF Coded
    <3>2. x.at < k.at /\ ~(x.at <= k.at)
      BY <2>2, <3>1 DEF Behind
    <3>3. x.at \in Int /\ k.at \in Int
      BY <2>1 DEF Coded
    <3> QED
      BY <3>2, <3>3
  <2>4. \A l \in LastOf(Coded(Kegs, X \cup Y)) : l = k
    <3> TAKE l \in LastOf(Coded(Kegs, X \cup Y))
    <3>1. l \in Coded(Cups \cup Kegs, X \cup Y) /\ k.at <= l.at
      BY <2>1 DEF LastOf, Coded
    <3>2. l.at \in Int /\ k.at \in Int
      BY <2>1, <3>1 DEF Coded
    <3>3. l # k => l.at < k.at
      BY <2>2, <3>1
    <3> QED
      BY <3>1, <3>2, <3>3
  <2>5. SinceKeg(X \cup Y) = {}
    <3> SUFFICES ASSUME NEW x \in Coded(Cups, X \cup Y), x.at > k.at PROVE FALSE
      BY <2>4 DEF SinceKeg
    <3>1. x # k /\ x \in Coded(Cups \cup Kegs, X \cup Y)
      BY <1>0, <2>1 DEF Coded
    <3>2. x.at < k.at
      BY <2>2, <3>1
    <3>3. x.at \in Int /\ k.at \in Int
      BY <2>1 DEF Coded
    <3> QED
      BY <3>2, <3>3
  <2> QED
    BY <2>3, <2>5, FS_EmptySet
<1> QED
  BY <1>1, <1>2

(* Which row each notice is of, once there are more.                         *)
LEMMA RowThen ==
  ASSUME LogInv, NEW s, Enters(s)
  PROVE  /\ \A n \in 1 .. Len(notices) : RowIn(xacts', notices'[n]) = Row(notices[n])
         /\ \A n \in 1 .. Len(notices') : n > Len(notices) => RowIn(xacts', notices'[n]) \in NewRows
<1>1. /\ Len(notices) \in Nat /\ Len(s) \in Nat /\ Len(notices') = Len(notices) + Len(s)
      /\ \A n \in 1 .. Len(notices) : notices'[n] = notices[n]
      /\ \A i \in 1 .. Len(s) : notices'[Len(notices) + i] = s[i]
  BY EntersNotices DEF LogInv
<1>2. \A x, y \in xacts' : x.id = y.id => x = y
  <2>1. \A x \in xacts' : x \in xacts \/ x \in NewRows
    BY DEF NewRows
  <2> QED
    BY <2>1 DEF LogInv, RowsDated, Enters
<1>3. \A x \in xacts' : RowIn(xacts', x.id) = x
  BY <1>2, RowInIs
<1>4. ASSUME NEW n \in 1 .. Len(notices) PROVE RowIn(xacts', notices'[n]) = Row(notices[n])
  <2>1. Row(notices[n]) \in xacts' /\ Row(notices[n]).id = notices'[n]
    BY <1>1, RowIs DEF Enters
  <2> QED
    BY <1>3, <2>1
<1>5. ASSUME NEW i \in 1 .. Len(s) PROVE RowIn(xacts', notices'[Len(notices) + i]) \in NewRows
  <2>1. PICK x \in NewRows : x.id = s[i]
    BY DEF Enters
  <2>2. x \in xacts'
    BY DEF NewRows
  <2> QED
    BY <1>1, <1>3, <2>1, <2>2
<1>6. ASSUME NEW n \in 1 .. Len(notices'), n > Len(notices) PROVE RowIn(xacts', notices'[n]) \in NewRows
  <2>1. n - Len(notices) \in 1 .. Len(s) /\ n = Len(notices) + (n - Len(notices))
    BY <1>1, <1>6
  <2> QED
    BY <1>5, <2>1
<1> QED
  BY <1>4, <1>6

(* What the coldbrew service has counted, and what is under way to it.       *)
Agrees ==
  ~seen.overlap /\ Coded(Kegs, Pending(keg.at)) = {} /\ Coded(Kegs, xacts) # {} =>
    CupsSold = keg.sold + Cardinality(Coded(Cups, Pending(keg.at)))
Anew ==
  \A m \in keg.at + 1 .. Len(notices) :
    Row(notices[m]).code \in Kegs /\ Coded(Kegs, Pending(m)) = {} =>
      CupsSold = Cardinality(Coded(Cups, Pending(m)))
Warns == ~seen.overlap /\ keg.sold >= WarnLevel => seen.warned
KegInv == ~seen.disorder => Agrees /\ Anew /\ Warns

LEMMA PendingFinite ==
  ASSUME BookInv, LogInv, NEW k \in 0 .. Len(notices), NEW C
  PROVE  IsFiniteSet(Coded(C, Pending(k))) /\ Cardinality(Coded(C, Pending(k))) \in Nat
<1>1. Coded(C, Pending(k)) \subseteq xacts
  BY PendingAt DEF Coded
<1>2. IsFiniteSet(Coded(C, Pending(k)))
  BY <1>1, FS_Subset DEF BookInv, RowsSound
<1> QED
  BY <1>2, FS_CardinalityType

LEMMA KegBooks ==
  ASSUME BookInv, BookInv', LogInv, LogInv', Shaped, KegInv, NEW s, EntersNoted(s)
  PROVE  KegInv'
<1>0. Enters(s) /\ Notes /\ keg' = keg /\ seen'.overlap = seen.overlap /\ seen'.warned = seen.warned
  BY DEF EntersNoted, Notes
<1>1. Len(notices) \in Nat /\ Len(notices') \in Nat /\ Len(notices) <= Len(notices') /\ keg.at \in 0 .. Len(notices) /\ keg.sold \in Nat
  BY <1>0, EntersNotices DEF LogInv, Shaped
<1> SUFFICES ASSUME ~seen'.disorder PROVE Agrees' /\ Anew' /\ Warns'
  BY DEF KegInv
<1>2. /\ ~seen.disorder /\ ~Behind(Coded(Cups, NewRows), Coded(Kegs, xacts'))
      /\ ~Behind(Coded(Kegs, NewRows), Coded(Cups \cup Kegs, xacts'))
  <2>1. \A C : NewRows \cap SoldAs(C)' = Coded(C, NewRows) /\ SoldAs(C)' = Coded(C, xacts')
    BY CupsSoldIs DEF NewRows, Coded
  <2> QED
    BY <1>0, <2>1 DEF Notes
<1>3. Agrees /\ Anew /\ Warns
  BY <1>2 DEF KegInv
<1>4. /\ xacts' = xacts \cup NewRows /\ xacts \cap NewRows = {}
      /\ IsFiniteSet(xacts) /\ IsFiniteSet(NewRows) /\ \A x \in xacts \cup NewRows : x.at \in Int
  <2>1. xacts' = xacts \cup NewRows /\ xacts \cap NewRows = {} /\ NewRows \subseteq xacts'
    BY <1>0 DEF Enters, NewRows
  <2>2. IsFiniteSet(xacts) /\ IsFiniteSet(xacts')
    BY DEF BookInv, RowsSound
  <2>3. \A x \in xacts' : x.at \in Int
    BY DEF LogInv, RowsDated
  <2> QED
    BY <2>1, <2>2, <2>3, FS_Subset
<1>5. /\ Coded(Kegs, NewRows) = {} /\ Coded(Kegs, xacts) # {} => CupsSold' = CupsSold + Cardinality(Coded(Cups, NewRows))
      /\ Coded(Kegs, NewRows) # {} => CupsSold' = 0 /\ Coded(Cups, NewRows) = {}
  BY <1>2, <1>4, SinceKegGrows, CupsSoldIs
<1>6. \A k \in 0 .. Len(notices) :
        /\ Told(xacts', notices', k) = Pending(k) \cup NewRows
        /\ \A C : Coded(C, Told(xacts', notices', k)) = Coded(C, Pending(k)) \cup Coded(C, NewRows)
        /\ Cardinality(Coded(Cups, Told(xacts', notices', k))) = Cardinality(Coded(Cups, Pending(k))) + Cardinality(Coded(Cups, NewRows))
  <2> TAKE k \in 0 .. Len(notices)
  <2>1. Told(xacts', notices', k) = Pending(k) \cup NewRows
    BY <1>0, PendingGrows
  <2>2. \A C : Coded(C, Told(xacts', notices', k)) = Coded(C, Pending(k)) \cup Coded(C, NewRows)
    BY <2>1 DEF Coded
  <2>3. Pending(k) \subseteq xacts
    BY PendingAt
  <2>4. /\ IsFiniteSet(Coded(Cups, Pending(k))) /\ IsFiniteSet(Coded(Cups, NewRows))
        /\ Coded(Cups, Pending(k)) \cap Coded(Cups, NewRows) = {}
    <3>1. Coded(Cups, Pending(k)) \subseteq xacts /\ Coded(Cups, NewRows) \subseteq NewRows
      BY <2>3 DEF Coded
    <3> QED
      BY <1>4, <3>1, FS_Subset
  <2> QED
    BY <2>1, <2>2, <2>4, Together
<1>7. CupsSold \in Nat /\ Cardinality(Coded(Cups, NewRows)) \in Nat
  <2>1. Coded(Cups, NewRows) \subseteq NewRows
    BY DEF Coded
  <2> QED
    BY <1>4, <2>1, CupsSoldNat, FS_Subset, FS_CardinalityType
<1>8. Agrees'
  <2>1. Pending(keg.at)' = Told(xacts', notices', keg.at)
    BY <1>0 DEF Pending, Told, Row, RowIn
  <2> SUFFICES ASSUME ~seen.overlap, Coded(Kegs, Told(xacts', notices', keg.at)) = {}, Coded(Kegs, xacts') # {}
               PROVE  CupsSold' = keg.sold + Cardinality(Coded(Cups, Told(xacts', notices', keg.at)))
    BY <1>0, <2>1 DEF Agrees, Coded
  <2>2. Coded(Kegs, NewRows) = {} /\ Coded(Kegs, Pending(keg.at)) = {}
    BY <1>1, <1>6
  <2>3. Coded(Kegs, xacts) # {}
    BY <1>4, <2>2 DEF Coded
  <2>4. CupsSold = keg.sold + Cardinality(Coded(Cups, Pending(keg.at)))
    BY <1>3, <2>2, <2>3 DEF Agrees
  <2>5. CupsSold' = CupsSold + Cardinality(Coded(Cups, NewRows))
    BY <1>5, <2>2, <2>3
  <2>6. Cardinality(Coded(Cups, Pending(keg.at))) \in Nat
    BY <1>1, PendingFinite
  <2> QED
    BY <1>1, <1>6, <1>7, <2>4, <2>5, <2>6
<1>9. Anew'
  <2>0. \A m : /\ Pending(m)' = Told(xacts', notices', m)
               /\ Row(notices[m])' = RowIn(xacts', notices'[m])
    BY DEF Pending, Told, Row, RowIn
  <2> SUFFICES ASSUME NEW m \in keg.at + 1 .. Len(notices'), RowIn(xacts', notices'[m]).code \in Kegs,
                      Coded(Kegs, Told(xacts', notices', m)) = {}
               PROVE  CupsSold' = Cardinality(Coded(Cups, Told(xacts', notices', m)))
    BY <1>0, <2>0 DEF Anew, Coded
  <2>1. CASE m <= Len(notices)
    <3>1. m \in 0 .. Len(notices) /\ m \in 1 .. Len(notices) /\ m \in keg.at + 1 .. Len(notices)
      BY <1>1, <2>1
    <3>2. RowIn(xacts', notices'[m]) = Row(notices[m]) /\ Row(notices[m]) \in xacts
      BY <1>0, <3>1, RowThen, RowIs
    <3>3. Coded(Kegs, xacts) # {}
      BY <3>2 DEF Coded
    <3>4. Coded(Kegs, NewRows) = {} /\ Coded(Kegs, Pending(m)) = {}
      BY <1>6, <3>1
    <3>5. CupsSold = Cardinality(Coded(Cups, Pending(m)))
      BY <1>3, <3>1, <3>2, <3>4 DEF Anew
    <3>6. CupsSold' = CupsSold + Cardinality(Coded(Cups, NewRows))
      BY <1>5, <3>3, <3>4
    <3> QED
      BY <1>6, <3>1, <3>5, <3>6
  <2>2. CASE m > Len(notices)
    <3>1. m \in 1 .. Len(notices') /\ \A n \in m + 1 .. Len(notices') : n \in 1 .. Len(notices') /\ n > Len(notices)
      BY <1>1, <2>2
    <3>2. RowIn(xacts', notices'[m]) \in NewRows /\ Told(xacts', notices', m) \subseteq NewRows
      BY <1>0, <2>2, <3>1, RowThen DEF Told
    <3>3. Coded(Kegs, NewRows) # {}
      BY <3>2 DEF Coded
    <3>4. CupsSold' = 0 /\ Coded(Cups, Told(xacts', notices', m)) = {}
      BY <1>5, <3>2, <3>3 DEF Coded
    <3> QED
      BY <3>4, FS_EmptySet
  <2> QED
    BY <1>1, <2>1, <2>2
<1>10. Warns'
  BY <1>0, <1>3 DEF Warns
<1> QED
  BY <1>8, <1>9, <1>10
(* What the service does is of what is written now.                          *)
LEMMA ReadsKeg ==
  ASSUME Reads
  PROVE  /\ CupsSold' = CupsSold /\ notices' = notices /\ xacts' = xacts
         /\ \A k : Told(xacts', notices', k) = Pending(k)
         /\ \A n : RowIn(xacts', notices'[n]) = Row(notices[n])
         /\ Pending(keg.at)' = Told(xacts', notices', keg'.at)
         /\ \A m : Pending(m)' = Pending(m) /\ Row(notices[m])' = Row(notices[m])
BY DEF Reads, CupsSold, SoldAs, LastOf, Told, Pending, Row, RowIn

LEMMA KegPours ==
  ASSUME BookInv, LogInv, Shaped, KegInv, Reads, Pours
  PROVE  KegInv'
<1> DEFINE x == Row(notices[keg.at + 1])
<1>0. /\ Len(notices) \in Nat /\ keg.at \in 0 .. Len(notices) /\ keg.at < Len(notices) /\ keg.sold \in Nat
      /\ keg'.at = keg.at + 1 /\ keg'.sold = AfterEvent(x) /\ keg.at + 1 \in 0 .. Len(notices)
      /\ seen'.disorder = seen.disorder
  <2>1. Len(notices) \in Nat /\ keg.at \in 0 .. Len(notices) /\ keg.sold \in Nat
    BY DEF LogInv, Delivered, Shaped
  <2>2. keg.at < Len(notices) /\ keg'.at = keg.at + 1 /\ keg'.sold = AfterEvent(x) /\ seen'.disorder = seen.disorder
    BY DEF Pours, SeenBut, OfSeen
  <2>3. keg.at + 1 \in 0 .. Len(notices)
    BY <2>1, <2>2
  <2> QED
    BY <2>1, <2>2, <2>3
<1>1. /\ seen'.overlap <=> seen.overlap /\ x.code \notin Kegs
      /\ seen'.warned <=> (Brew(x) /\ AfterEvent(x) = WarnLevel) \/ (seen.warned /\ x.code \notin Kegs)
  BY DEF Pours
<1>2. x \in xacts /\ Pending(keg.at) = {x} \cup Pending(keg.at + 1) /\ x \notin Pending(keg.at + 1)
  BY <1>0, PendingAt
<1> SUFFICES ASSUME ~seen.disorder PROVE Agrees' /\ Anew' /\ Warns'
  BY <1>0 DEF KegInv
<1>3. Agrees /\ Anew /\ Warns
  BY DEF KegInv
<1>4. Cups \cap Kegs = {} /\ WarnLevel \in Nat
  BY BankConstants, WatchersConstants
<1>5. /\ x.code \in Cups => AfterEvent(x) = keg.sold + 1
      /\ x.code \in Kegs => AfterEvent(x) = 0
      /\ x.code \notin Cups \cup Kegs => AfterEvent(x) = keg.sold
      /\ x.code \in Cups \cup Kegs => Brew(x)
  BY <1>4 DEF AfterEvent, Brew
<1>6. PICK P, Q : P = Pending(keg.at) /\ Q = Pending(keg.at + 1)
  OBVIOUS
<1> HIDE DEF x
<1>7. IsFiniteSet(Coded(Cups, Q)) /\ Cardinality(Coded(Cups, Q)) \in Nat
  BY <1>0, <1>6, PendingFinite
<1>8. Cardinality(Coded(Cups, P)) = Cardinality(Coded(Cups, Q)) + IF x.code \in Cups THEN 1 ELSE 0
  <2>1. CASE x.code \in Cups
    <3>1. Coded(Cups, P) = Coded(Cups, Q) \cup {x} /\ x \notin Coded(Cups, Q)
      BY <1>2, <1>6, <2>1 DEF Coded
    <3> QED
      BY <1>7, <2>1, <3>1, FS_AddElement
  <2>2. CASE x.code \notin Cups
    <3>1. Coded(Cups, P) = Coded(Cups, Q)
      BY <1>2, <1>6, <2>2 DEF Coded
    <3> QED
      BY <1>7, <2>2, <3>1
  <2> QED
    BY <2>1, <2>2
<1>9. Agrees'
  <2> SUFFICES ASSUME ~(seen.overlap /\ x.code \notin Kegs), Coded(Kegs, Q) = {}, Coded(Kegs, xacts) # {}
               PROVE  CupsSold = AfterEvent(x) + Cardinality(Coded(Cups, Q))
    <3>1. Pending(keg.at)' = Q /\ CupsSold' = CupsSold /\ xacts' = xacts
      BY <1>0, <1>6, ReadsKeg
    <3> QED
      BY <1>0, <1>1, <3>1 DEF Agrees, Coded
  <2>1. CASE x.code \in Kegs
    <3>1. keg.at + 1 \in keg.at + 1 .. Len(notices)
      BY <1>0
    <3>2. CupsSold = Cardinality(Coded(Cups, Q))
      BY <1>3, <1>6, <2>1, <3>1 DEF Anew, x
    <3> QED
      BY <1>5, <1>7, <2>1, <3>2
  <2>2. CASE x.code \notin Kegs
    <3>1. Coded(Kegs, P) = {}
      BY <1>2, <1>6, <2>2 DEF Coded
    <3>2. CupsSold = keg.sold + Cardinality(Coded(Cups, P))
      BY <1>3, <1>6, <2>2, <3>1 DEF Agrees
    <3> QED
      BY <1>0, <1>5, <1>7, <1>8, <2>2, <3>2
  <2> QED
    BY <2>1, <2>2
<1>10. Anew'
  <2>1. \A m \in keg'.at + 1 .. Len(notices) : m \in keg.at + 1 .. Len(notices)
    BY <1>0
  <2>2. /\ CupsSold' = CupsSold /\ notices' = notices
        /\ \A m : Pending(m)' = Pending(m) /\ Row(notices[m])' = Row(notices[m])
    BY ReadsKeg
  <2> QED
    BY <1>3, <2>1, <2>2 DEF Anew, Coded
<1>11. Warns'
  <2> SUFFICES ASSUME ~(seen.overlap /\ x.code \notin Kegs), AfterEvent(x) >= WarnLevel
               PROVE  (Brew(x) /\ AfterEvent(x) = WarnLevel) \/ (seen.warned /\ x.code \notin Kegs)
    BY <1>0, <1>1 DEF Warns
  <2>1. CASE x.code \in Kegs
    BY <1>4, <1>5, <2>1
  <2>2. CASE x.code \in Cups
    <3>1. x.code \notin Kegs /\ (keg.sold + 1 = WarnLevel \/ keg.sold >= WarnLevel)
      BY <1>0, <1>4, <1>5, <2>2
    <3> QED
      BY <1>3, <1>5, <2>2, <3>1 DEF Warns
  <2>3. CASE x.code \notin Cups \cup Kegs
    BY <1>3, <1>5, <2>3 DEF Warns
  <2> QED
    BY <2>1, <2>2, <2>3
<1> QED
  BY <1>9, <1>10, <1>11

LEMMA KegCounts ==
  ASSUME BookInv, LogInv, Shaped, KegInv, Reads, Counts
  PROVE  KegInv'
<1>0. /\ Len(notices) \in Nat /\ keg.at \in 0 .. Len(notices) /\ keg.sold \in Nat
      /\ keg'.sold = CupsSold /\ seen'.disorder = seen.disorder /\ CupsSold \in Nat
  BY CupsSoldNat DEF LogInv, Delivered, Shaped, Counts, SeenBut, OfSeen
<1>1. seen'.overlap <=> seen.overlap \/ \E x \in Pending(keg.at) : Brew(x)
  BY DEF Counts
<1> SUFFICES ASSUME ~seen.disorder PROVE Agrees' /\ Anew' /\ Warns'
  BY <1>0 DEF KegInv
<1>2. Agrees /\ Anew /\ Warns
  BY DEF KegInv
<1>3. /\ CupsSold' = CupsSold /\ notices' = notices /\ xacts' = xacts
      /\ Pending(keg.at)' = Pending(keg'.at)
      /\ \A m : Pending(m)' = Pending(m) /\ Row(notices[m])' = Row(notices[m])
  BY ReadsKeg
<1>4. keg'.at = keg.at
  BY DEF Counts
<1>5. ~seen'.overlap => Coded(Cups, Pending(keg.at)) = {} /\ Coded(Kegs, Pending(keg.at)) = {}
  BY <1>1 DEF Coded, Brew
<1>6. Cardinality({}) = 0
  BY FS_EmptySet
<1>7. Agrees'
  <2>1. Pending(keg.at)' = Pending(keg.at)
    BY <1>3, <1>4
  <2>2. CupsSold' = keg'.sold + 0
    BY <1>0, <1>3
  <2>3. ~seen'.overlap => CupsSold' = keg'.sold + Cardinality(Coded(Cups, Pending(keg.at)))
    BY <1>5, <1>6, <2>2
  <2> QED
    BY <2>1, <2>3 DEF Agrees, Coded
<1>8. Anew'
  BY <1>2, <1>3, <1>4 DEF Anew, Coded
<1>9. CASE SoldAs(Kegs) # {} /\ keg'.at = keg.at /\ SeenBut({"overlap"})
  <2>1. Coded(Kegs, xacts) # {}
    BY <1>9, CupsSoldIs
  <2>2. ~seen'.overlap => CupsSold = keg.sold + Cardinality(Coded(Cups, Pending(keg.at)))
    BY <1>1, <1>2, <1>5, <2>1 DEF Agrees
  <2>3. keg.sold + 0 = keg.sold
    BY <1>0
  <2>4. ~seen'.overlap => CupsSold = keg.sold
    BY <1>5, <1>6, <2>2, <2>3
  <2>5. seen'.warned = seen.warned
    BY <1>9 DEF SeenBut, OfSeen
  <2>6. Warns'
    BY <1>0, <1>1, <1>2, <2>4, <2>5 DEF Warns
  <2> QED
    BY <1>7, <1>8, <2>6
<1>10. CASE /\ keg'.at = keg.at /\ SeenBut({"overlap", "warned"})
            /\ seen'.warned <=> seen.warned \/ CupsSold >= WarnLevel
  <2>1. Warns'
    BY <1>0, <1>10 DEF Warns
  <2> QED
    BY <1>7, <1>8, <2>1
<1> QED
  BY <1>9, <1>10 DEF Counts

(* What is passed over when the service subscribes is no cup and no keg, or  *)
(* it is marked.                                                             *)
LEMMA KegJoinsLate ==
  ASSUME BookInv, LogInv, Shaped, KegInv, Reads, Joins
  PROVE  KegInv'
<1>0. /\ Len(notices) \in Nat /\ keg.at \in 0 .. Len(notices) /\ keg'.at \in keg.at .. Len(notices)
      /\ keg'.sold = keg.sold /\ seen'.disorder = seen.disorder /\ seen'.warned = seen.warned
  BY DEF LogInv, Delivered, Shaped, Joins, SeenBut, OfSeen
<1>1. seen'.overlap <=> seen.overlap \/ \E m \in keg.at + 1 .. keg'.at : Brew(Row(notices[m]))
  BY DEF Joins
<1> SUFFICES ASSUME ~seen.disorder PROVE Agrees' /\ Anew' /\ Warns'
  BY <1>0 DEF KegInv
<1>2. Agrees /\ Anew /\ Warns
  BY DEF KegInv
<1>3. /\ CupsSold' = CupsSold /\ notices' = notices /\ xacts' = xacts
      /\ Pending(keg.at)' = Pending(keg'.at)
      /\ \A m : Pending(m)' = Pending(m) /\ Row(notices[m])' = Row(notices[m])
  BY ReadsKeg
<1>4. /\ \A m \in keg.at + 1 .. Len(notices) : m \in keg.at + 1 .. keg'.at \/ m \in keg'.at + 1 .. Len(notices)
      /\ \A m \in keg'.at + 1 .. Len(notices) : m \in keg.at + 1 .. Len(notices)
  BY <1>0
<1>5. ASSUME ~seen'.overlap, NEW C, C \in {Cups, Kegs} PROVE Coded(C, Pending(keg.at)) = Coded(C, Pending(keg'.at))
  <2>1. \A m \in keg.at + 1 .. keg'.at : Row(notices[m]).code \notin C
    BY <1>1, <1>5 DEF Brew
  <2> QED
    BY <1>4, <2>1 DEF Coded, Pending
<1>6. Agrees'
  <2> SUFFICES ASSUME ~seen'.overlap, Coded(Kegs, Pending(keg'.at)) = {}, Coded(Kegs, xacts) # {}
               PROVE  CupsSold = keg.sold + Cardinality(Coded(Cups, Pending(keg'.at)))
    BY <1>0, <1>3 DEF Agrees, Coded
  <2>1. ~seen.overlap
    BY <1>1
  <2> QED
    BY <1>2, <1>5, <2>1 DEF Agrees
<1>7. Anew'
  BY <1>2, <1>3, <1>4 DEF Anew, Coded
<1>8. Warns'
  BY <1>0, <1>1, <1>2 DEF Warns
<1> QED
  BY <1>6, <1>7, <1>8

LEMMA KegStep ==
  ASSUME ApiInv, BookInv, LogInv, Shaped, BookInv', LogInv', KegInv, [Next]_vars
  PROVE  KegInv'
<1>1. ASSUME NEW s, EntersNoted(s) PROVE KegInv'
  BY <1>1, KegBooks
<1>2. ASSUME Brewed PROVE KegInv'
  BY <1>2, KegPours, KegCounts, KegJoinsLate DEF Brewed
<1>3. ASSUME Attended \/ Rested \/ UNCHANGED vars PROVE KegInv'
  <2>1. /\ Reads /\ keg' = keg /\ seen'.overlap = seen.overlap /\ seen'.disorder = seen.disorder
        /\ seen'.warned = seen.warned
    BY <1>3 DEF Attended, Rested, Handled, Rests, SeenBut, OfSeen, vars, watching, bank, api, Reads
  <2>2. /\ CupsSold' = CupsSold /\ notices' = notices /\ xacts' = xacts
        /\ Pending(keg.at)' = Pending(keg.at)
        /\ \A m : Pending(m)' = Pending(m) /\ Row(notices[m])' = Row(notices[m])
    BY <2>1, ReadsKeg
  <2>3. Agrees' <=> Agrees
    BY <2>1, <2>2 DEF Agrees, Coded
  <2>4. Anew' <=> Anew
    BY <2>1, <2>2 DEF Anew, Coded
  <2> QED
    BY <2>1, <2>3, <2>4 DEF KegInv, Warns
<1> QED
  BY <1>1, <1>2, <1>3, WatchSteps

(* Once all that was published has arrived, the service's own count of cups  *)
(* is that of the tables and its keepers were warned, but for counts taken   *)
(* while cups were under way, for cups that came between a restart's count   *)
(* and its subscription, and for rows that are not dated in the order of     *)
(* their commits: however the commits, the notices, the questions and the    *)
(* restarts interleave.                                                      *)
THEOREM KegCountsCups == Spec => []KegAgrees
<1>1. Init => KegInv
  <2> SUFFICES ASSUME Init PROVE KegInv
    OBVIOUS
  <2>1. /\ keg.at = 0 /\ keg.sold = CupsSold /\ notices = <<>>
        /\ seen.warned <=> CupsSold >= WarnLevel
    BY DEF Init, ApiInit
  <2>2. Pending(keg.at) = {} /\ Coded(Cups, {}) = {} /\ Cardinality({}) = 0
    BY <2>1, FS_EmptySet DEF Pending, Coded
  <2>3. CupsSold \in Nat
    BY BookStarts, CupsSoldNat
  <2>4. CupsSold = keg.sold + Cardinality(Coded(Cups, Pending(keg.at)))
    <3>1. CupsSold = keg.sold + 0
      BY <2>1, <2>3
    <3> QED
      BY <2>2, <3>1
  <2>5. \A m \in keg.at + 1 .. Len(notices) : FALSE
    BY <2>1
  <2> QED
    BY <2>1, <2>4, <2>5 DEF KegInv, Agrees, Anew, Warns
<1>2. ApiInv /\ BookInv /\ LogInv /\ Shaped /\ BookInv' /\ LogInv' /\ KegInv /\ [Next]_vars => KegInv'
  BY KegStep
<1>3. LogInv /\ Shaped /\ BookInv /\ KegInv => KegAgrees
  <2> SUFFICES ASSUME LogInv, Shaped, BookInv, KegInv, keg.at = Len(notices), ~seen.overlap, ~seen.disorder
               PROVE  (SoldAs(Kegs) # {} => keg.sold = CupsSold) /\ (keg.sold >= WarnLevel => seen.warned)
    BY DEF KegAgrees
  <2>1. Pending(keg.at) = {} /\ Cardinality({}) = 0 /\ \A C : Coded(C, {}) = {}
    BY PendingAt, FS_EmptySet DEF Coded
  <2>2. keg.sold \in Nat
    BY DEF Shaped
  <2>3. Coded(Kegs, xacts) # {} => CupsSold = keg.sold
    <3>1. Coded(Kegs, xacts) # {} => CupsSold = keg.sold + Cardinality(Coded(Cups, {}))
      BY <2>1 DEF KegInv, Agrees
    <3>2. keg.sold + 0 = keg.sold
      BY <2>2
    <3> QED
      BY <2>1, <3>1, <3>2
  <2> QED
    BY <2>3, CupsSoldIs DEF KegInv, Warns
<1> QED
  BY <1>1, <1>2, <1>3, ApiInvariant, BookInvariant, LogInvariant, PTL DEF Spec

-----------------------------------------------------------------------------
(* The cash box.  Only the cash counts.                                      *)
LEMMA CashOnly ==
  ASSUME NEW R, NEW Q, \A x : x.cash => (x \in R <=> x \in Q)
  PROVE  CashOf(R) = CashOf(Q)
<1>1. {x \in R : x.cash /\ x.value >= 1} = {x \in Q : x.cash /\ x.value >= 1}
  OBVIOUS
<1> QED
  BY <1>1 DEF CashOf

(* What came in between an emptying and the one before it.                   *)
EmptyingsOf(X) == Coded({Emptied}, X)
Earlier(X, e) == {d \in EmptyingsOf(X) : d.at < e.at}
CashBefore(X, e) == {x \in X : x.cash /\ (\E d \in LastOf(Earlier(X, e)) : x.at > d.at) /\ x.at < e.at}

InDue(e) == e.id \in DOMAIN seen.due
DueKnown ==
  /\ \A i \in DOMAIN seen.due : \E x \in xacts : x.id = i
  /\ \A n \in 1 .. Len(notices) : Row(notices[n]).code = Emptied => InDue(Row(notices[n]))
Later == \A x, e \in EmptyingsOf(xacts) : InDue(x) /\ x # e => e.at < x.at \/ (InDue(e) /\ x.at < e.at)
DueIs == \A e \in EmptyingsOf(xacts) : InDue(e) => seen.due[e.id] = CashOf(CashBefore(xacts, e))
ToldDue == \A a \in watcher.told : a.last \in DOMAIN seen.due /\ a.cash = seen.due[a.last]
CashInv == DueKnown /\ (~seen.untimely => Later /\ DueIs /\ ToldDue)

LEMMA EmptyingsAre ==
  /\ Emptyings = EmptyingsOf(xacts)
  /\ DepositedCash = CashOf({x \in xacts : \E e \in LastOf(EmptyingsOf(xacts)) : x.at > e.at})
BY DEF Emptyings, SoldAs, EmptyingsOf, Coded, DepositedCash, SinceEmptied

(* New emptyings are dated after whatever there is.                          *)
Timely == \A e \in EmptyingsOf(NewRows), y \in xacts' : (y.cash \/ y.code = Emptied) /\ y # e => y.at < e.at

LEMMA TimelyIs ==
  ASSUME LogInv', xacts \subseteq xacts', ~Behind(EmptiedNow, {x \in xacts' : x.cash \/ x.code = Emptied})
  PROVE  Timely
<1> SUFFICES ASSUME NEW e \in EmptyingsOf(NewRows), NEW y \in xacts', y.cash \/ y.code = Emptied, y # e
             PROVE  y.at < e.at
  BY DEF Timely
<1>1. e \in EmptiedNow /\ e \in xacts'
  BY DEF EmptyingsOf, Coded, EmptiedNow, NewRows
<1>2. ~(e.at <= y.at)
  BY <1>1 DEF Behind
<1>3. e.at \in Int /\ y.at \in Int
  BY <1>1 DEF LogInv, RowsDated
<1> QED
  BY <1>2, <1>3

(* What the API said when such an emptying came is what came in before it.   *)
LEMMA NewEmptying ==
  ASSUME LogInv, LogInv', NEW s, Enters(s), Timely, NEW e \in EmptyingsOf(NewRows)
  PROVE  CashOf(CashBefore(xacts', e)) = DepositedCash
<1>1. xacts' = xacts \cup NewRows /\ xacts \cap NewRows = {} /\ e \in NewRows /\ e.code = Emptied
  BY DEF Enters, NewRows, EmptyingsOf, Coded
<1>2. \A x \in xacts' : x.at \in Int
  BY DEF LogInv, RowsDated
<1>3. \A y \in xacts' : (y.cash \/ y.code = Emptied) /\ y # e => y.at < e.at
  BY DEF Timely
<1>4. \A y \in NewRows : y.code = Emptied => y = e
  <2> SUFFICES ASSUME NEW y \in NewRows, y.code = Emptied, y # e PROVE FALSE
    OBVIOUS
  <2>1. y \in EmptyingsOf(NewRows) /\ y \in xacts' /\ e \in xacts'
    BY <1>1 DEF EmptyingsOf, Coded
  <2>2. y.at < e.at /\ e.at < y.at
    BY <1>1, <1>3, <2>1 DEF Timely
  <2>3. y.at \in Int /\ e.at \in Int
    BY <1>2, <2>1
  <2> QED
    BY <2>2, <2>3
<1>5. ~(e.at < e.at)
  BY <1>1, <1>2
<1>6. Earlier(xacts', e) = EmptyingsOf(xacts)
  BY <1>1, <1>3, <1>4, <1>5 DEF Earlier, EmptyingsOf, Coded
<1>7. \A x \in NewRows : x.cash => x = e
  BY <1>1 DEF Enters
<1>8. \A x : x.cash => (x \in CashBefore(xacts', e) <=> x \in {y \in xacts : \E d \in LastOf(EmptyingsOf(xacts)) : y.at > d.at})
  BY <1>1, <1>3, <1>5, <1>6, <1>7 DEF CashBefore
<1> QED
  BY <1>8, CashOnly, EmptyingsAre

(* For another emptying nothing changes.                                     *)
LEMMA OldEmptying ==
  ASSUME LogInv, LogInv', NEW s, Enters(s), Timely, now \in Nat, NEW e \in EmptyingsOf(xacts)
  PROVE  CashBefore(xacts', e) = CashBefore(xacts, e)
<1>1. xacts' = xacts \cup NewRows /\ xacts \cap NewRows = {} /\ e \in xacts /\ e.code = Emptied
  BY DEF Enters, NewRows, EmptyingsOf, Coded
<1>2. e.at \in Int /\ e.at <= now /\ \A x \in xacts' : x.at \in Int
  BY <1>1 DEF LogInv, RowsDated
<1>3. \A y \in NewRows : y.code = Emptied => ~(y.at < e.at)
  <2> SUFFICES ASSUME NEW y \in NewRows, y.code = Emptied PROVE ~(y.at < e.at)
    OBVIOUS
  <2>1. y \in EmptyingsOf(NewRows) /\ y # e /\ e \in xacts' /\ y \in xacts'
    BY <1>1 DEF EmptyingsOf, Coded
  <2>2. e.at < y.at
    BY <1>1, <2>1 DEF Timely
  <2>3. y.at \in Int
    BY <1>2, <2>1
  <2> QED
    BY <1>2, <2>2, <2>3
<1>4. Earlier(xacts', e) = Earlier(xacts, e)
  BY <1>1, <1>3 DEF Earlier, EmptyingsOf, Coded
<1>5. \A x \in NewRows : x.cash => ~(x.at < e.at)
  <2> SUFFICES ASSUME NEW x \in NewRows, x.cash PROVE ~(x.at < e.at)
    OBVIOUS
  <2>1. x.at > now /\ x.at \in Int
    BY DEF Enters
  <2> QED
    BY <1>2, <2>1
<1> QED
  BY <1>1, <1>4, <1>5 DEF CashBefore

LEMMA CashBooks ==
  ASSUME ApiTypeOK, LogInv, LogInv', CashInv, NEW s, EntersNoted(s)
  PROVE  CashInv'
<1>0. Enters(s) /\ Notes /\ watcher' = watcher /\ now \in Nat
  BY DEF EntersNoted, Notes, ApiTypeOK
<1>1. /\ xacts' = xacts \cup NewRows /\ xacts \cap NewRows = {}
      /\ \A x \in NewRows, y \in xacts' : x.id = y.id => x = y
  BY <1>0 DEF Enters, NewRows
<1>2. /\ DOMAIN seen'.due = DOMAIN seen.due \cup {x.id : x \in EmptiedNow}
      /\ \A i \in DOMAIN seen.due : seen'.due[i] = seen.due[i]
      /\ \A i \in {x.id : x \in EmptiedNow} \ DOMAIN seen.due : seen'.due[i] = DepositedCash
  <2>1. PICK D, new, cash : D = DOMAIN seen.due /\ new = {x.id : x \in EmptiedNow} /\ cash = DepositedCash
    OBVIOUS
  <2>2. seen'.due = [i \in D \cup new |-> IF i \in D THEN seen.due[i] ELSE cash]
    BY <1>0, <2>1 DEF Notes
  <2> QED
    BY <2>1, <2>2
<1>3. /\ \A x \in xacts : InDue(x)' <=> InDue(x)
      /\ \A x \in NewRows : ~InDue(x)
      /\ \A x \in EmptyingsOf(NewRows) : InDue(x)'
  <2>1. \A x \in NewRows : ~InDue(x)
    BY <1>1 DEF CashInv, DueKnown, InDue
  <2>2. EmptiedNow = EmptyingsOf(NewRows) /\ EmptiedNow \subseteq NewRows
    BY DEF EmptiedNow, EmptyingsOf, Coded
  <2>3. \A x \in xacts : x.id \notin {y.id : y \in EmptiedNow}
    BY <1>1, <2>2
  <2>4. \A x : InDue(x)' <=> x.id \in DOMAIN seen'.due
    BY DEF InDue
  <2> QED
    BY <1>2, <2>1, <2>2, <2>3, <2>4 DEF InDue
<1>4. DueKnown'
  <2>1. \A i \in DOMAIN seen'.due : \E x \in xacts' : x.id = i
    BY <1>1, <1>2 DEF CashInv, DueKnown, EmptiedNow
  <2>2. ASSUME NEW n \in 1 .. Len(notices'), RowIn(xacts', notices'[n]).code = Emptied
        PROVE  RowIn(xacts', notices'[n]).id \in DOMAIN seen'.due
    <3>1. CASE n \in 1 .. Len(notices)
      <4>1. RowIn(xacts', notices'[n]) = Row(notices[n])
        BY <1>0, <3>1, RowThen
      <4> QED
        BY <1>2, <2>2, <3>1, <4>1 DEF CashInv, DueKnown, InDue
    <3>2. CASE n > Len(notices)
      <4>1. RowIn(xacts', notices'[n]) \in NewRows
        BY <1>0, <3>2, RowThen
      <4> QED
        BY <1>2, <2>2, <4>1 DEF EmptiedNow
    <3> QED
      BY <1>0, <3>1, <3>2, EntersNotices DEF LogInv
  <2>3. \A n : Row(notices[n])' = RowIn(xacts', notices'[n])
    BY DEF Row, RowIn
  <2> QED
    BY <2>1, <2>2, <2>3 DEF DueKnown, InDue
<1> SUFFICES ASSUME ~seen'.untimely PROVE Later' /\ DueIs' /\ ToldDue'
  BY <1>4 DEF CashInv
<1>5. ~seen.untimely /\ Timely
  <2>1. ~seen.untimely /\ ~Behind(EmptiedNow, {x \in xacts' : x.cash \/ x.code = Emptied})
    BY <1>0 DEF Notes
  <2> QED
    BY <1>1, <2>1, TimelyIs
<1>6. Later /\ DueIs /\ ToldDue
  BY <1>5 DEF CashInv
<1>7. EmptyingsOf(xacts') = EmptyingsOf(xacts) \cup EmptyingsOf(NewRows) /\ EmptyingsOf(xacts) \subseteq xacts
      /\ \A e \in EmptyingsOf(NewRows) : \A y \in EmptyingsOf(xacts') : y # e => y.at < e.at
  <2>1. EmptyingsOf(xacts') = EmptyingsOf(xacts) \cup EmptyingsOf(NewRows) /\ EmptyingsOf(xacts) \subseteq xacts
    BY <1>1 DEF EmptyingsOf, Coded
  <2>2. \A y \in EmptyingsOf(xacts') : y \in xacts' /\ y.code = Emptied
    BY DEF EmptyingsOf, Coded
  <2> QED
    BY <1>5, <2>1, <2>2 DEF Timely
<1>8. Later'
  <2> SUFFICES ASSUME NEW x \in EmptyingsOf(xacts'), NEW e \in EmptyingsOf(xacts'), InDue(x)', x # e
               PROVE  e.at < x.at \/ (InDue(e)' /\ x.at < e.at)
    BY DEF Later, EmptyingsOf, Coded
  <2>1. CASE x \in EmptyingsOf(NewRows)
    BY <1>7, <2>1
  <2>2. CASE e \in EmptyingsOf(NewRows)
    BY <1>3, <1>7, <2>2
  <2>3. CASE x \in EmptyingsOf(xacts) /\ e \in EmptyingsOf(xacts)
    BY <1>3, <1>6, <1>7, <2>3 DEF Later
  <2> QED
    BY <1>7, <2>1, <2>2, <2>3
<1>9. DueIs'
  <2> SUFFICES ASSUME NEW e \in EmptyingsOf(xacts'), InDue(e)'
               PROVE  seen'.due[e.id] = CashOf(CashBefore(xacts', e))
    BY DEF DueIs, EmptyingsOf, Coded, CashBefore, CashOf, LastOf, Earlier
  <2>1. CASE e \in EmptyingsOf(NewRows)
    <3>1. e.id \in {x.id : x \in EmptiedNow} \ DOMAIN seen.due
      BY <1>3, <2>1 DEF EmptyingsOf, Coded, EmptiedNow, InDue
    <3> QED
      BY <1>0, <1>2, <1>5, <2>1, <3>1, NewEmptying
  <2>2. CASE e \in EmptyingsOf(xacts)
    <3>1. InDue(e) /\ seen'.due[e.id] = seen.due[e.id]
      BY <1>2, <1>3, <1>7, <2>2 DEF InDue
    <3> QED
      BY <1>0, <1>5, <1>6, <2>2, <3>1, OldEmptying DEF DueIs
  <2> QED
    BY <1>7, <2>1, <2>2
<1>10. ToldDue'
  BY <1>0, <1>2, <1>6 DEF ToldDue
<1> QED
  BY <1>8, <1>9, <1>10

(* What is announced of an emptying that a notice told of.                   *)
LEMMA AnnouncedDue ==
  ASSUME LogInv, CashInv, ~seen.untimely, NEW n \in 1 .. Len(notices), NEW a \in Announced(Row(notices[n]))
  PROVE  a.last \in DOMAIN seen.due /\ a.cash = seen.due[a.last]
<1>0. PICK x : x = Row(notices[n])
  OBVIOUS
<1>1. x \in EmptyingsOf(xacts) /\ InDue(x)
  <2>1. x.code = Emptied
    BY <1>0 DEF Announced
  <2> QED
    BY <1>0, <2>1, RowIs DEF CashInv, DueKnown, EmptyingsOf, Coded
<1>2. PICK e \in LastOf(EmptyingsOf(xacts)) : a = [last |-> e.id, cash |-> CashTaken]
  BY EmptyingsAre DEF Announced, LastEmptied
<1>3. Later /\ DueIs /\ a.last = e.id /\ a.cash = CashTaken
  BY <1>2 DEF CashInv
<1>4. e \in EmptyingsOf(xacts) /\ e \in xacts /\ \A y \in EmptyingsOf(xacts) : y.at <= e.at
  BY <1>2 DEF LastOf, EmptyingsOf, Coded
<1>5. \A y \in EmptyingsOf(xacts) : y.at \in Int
  BY DEF LogInv, RowsDated, EmptyingsOf, Coded
<1>6. InDue(e)
  <2> SUFFICES ASSUME ~InDue(e) PROVE FALSE
    OBVIOUS
  <2>1. e.at < x.at /\ x.at <= e.at
    BY <1>1, <1>3, <1>4 DEF Later
  <2> QED
    BY <1>1, <1>4, <1>5, <2>1
<1>7. \A y \in EmptyingsOf(xacts) : y # e => y.at < e.at
  <2> TAKE y \in EmptyingsOf(xacts)
  <2>1. y # e => y.at < e.at \/ e.at < y.at
    BY <1>3, <1>4, <1>6 DEF Later
  <2>2. y.at <= e.at /\ y.at \in Int /\ e.at \in Int
    BY <1>4, <1>5
  <2> QED
    BY <2>1, <2>2
<1>8. ~(e.at < e.at)
  BY <1>4, <1>5
<1>9. LastEmptied = {e}
  <2>1. \A l \in LastOf(EmptyingsOf(xacts)) : l \in EmptyingsOf(xacts) /\ e.at <= l.at
    BY <1>4 DEF LastOf
  <2>2. \A l \in EmptyingsOf(xacts) : l # e => ~(e.at <= l.at)
    <3> TAKE l \in EmptyingsOf(xacts)
    <3>1. l.at \in Int /\ e.at \in Int /\ (l # e => l.at < e.at)
      BY <1>4, <1>5, <1>7
    <3> QED
      BY <3>1
  <2> QED
    BY <1>2, <2>1, <2>2, EmptyingsAre DEF LastEmptied
<1>10. BeforeLast = LastOf(Earlier(xacts, e))
  <2>1. Emptyings \ LastEmptied = Earlier(xacts, e)
    BY <1>7, <1>8, <1>9, EmptyingsAre DEF Earlier
  <2> QED
    BY <2>1 DEF BeforeLast
<1>11. CashTaken = CashOf(CashBefore(xacts, e))
  <2>1. \A y : y.cash => (y \in CashBefore(xacts, e) <=>
          y \in {z \in xacts : (\E d \in BeforeLast : z.at > d.at) /\ (\E l \in LastEmptied : z.at < l.at)})
    BY <1>9, <1>10 DEF CashBefore
  <2> QED
    BY <2>1, CashOnly DEF CashTaken
<1> QED
  BY <1>3, <1>4, <1>6, <1>11 DEF DueIs, InDue

LEMMA CashStep ==
  ASSUME ApiInv, BookInv, LogInv, Shaped, LogInv', CashInv, [Next]_vars
  PROVE  CashInv'
<1>1. ASSUME NEW s, EntersNoted(s) PROVE CashInv'
  BY <1>1, CashBooks DEF ApiInv
<1>2. ASSUME Reads, seen'.due = seen.due, seen'.untimely = seen.untimely,
             ~seen.untimely /\ ToldDue => \A a \in watcher'.told : a.last \in DOMAIN seen.due /\ a.cash = seen.due[a.last]
      PROVE  CashInv'
  <2>1. /\ xacts' = xacts /\ notices' = notices
        /\ \A x : InDue(x)' <=> InDue(x)
        /\ \A n : Row(notices[n])' = Row(notices[n])
    BY <1>2 DEF Reads, InDue, Row
  <2>2. DueKnown' <=> DueKnown
    BY <1>2, <2>1 DEF DueKnown
  <2>3. Later' <=> Later
    BY <1>2, <2>1 DEF Later, EmptyingsOf, Coded
  <2>4. DueIs' <=> DueIs
    BY <1>2, <2>1 DEF DueIs, EmptyingsOf, Coded, CashOf, CashBefore, LastOf, Earlier
  <2>5. ~seen.untimely /\ ToldDue => ToldDue'
    BY <1>2 DEF ToldDue
  <2> QED
    BY <1>2, <2>2, <2>3, <2>4, <2>5 DEF CashInv
<1>3. CASE Attended
  <2>1. /\ Reads /\ seen'.due = seen.due /\ seen'.untimely = seen.untimely /\ watcher.at < Len(notices)
        /\ \A a \in watcher'.told : a \in watcher.told \/ a \in Announced(Row(notices[watcher.at + 1]))
    BY <1>3 DEF Attended, Handled, SeenBut, OfSeen
  <2>2. watcher.at + 1 \in 1 .. Len(notices)
    BY <2>1 DEF Shaped, LogInv, Delivered
  <2> QED
    BY <1>2, <2>1, <2>2, AnnouncedDue DEF ToldDue
<1>4. CASE Rested \/ Brewed \/ UNCHANGED vars
  <2>1. Reads /\ seen'.due = seen.due /\ seen'.untimely = seen.untimely /\ watcher'.told = watcher.told
    BY <1>4 DEF Rested, Rests, Brewed, Pours, Counts, Joins, SeenBut, OfSeen, vars, watching, bank, api, Reads
  <2> QED
    BY <1>2, <2>1 DEF ToldDue
<1> QED
  BY <1>1, <1>3, <1>4, WatchSteps

(* What the watcher announces to have been in the cash box is what the       *)
(* private API said was in it right before it was emptied, however late the  *)
(* watcher is and whatever came in since; unless an emptying was booked with *)
(* a date before what came in earlier.                                       *)
THEOREM CashIsWhatWasDue == Spec => []CashAnnounced
<1>1. Init => CashInv
  <2> SUFFICES ASSUME Init PROVE CashInv
    OBVIOUS
  <2>1. seen.due = <<>> /\ notices = <<>> /\ watcher.told = {}
    BY DEF Init, ApiInit
  <2>2. DOMAIN seen.due = {} /\ Len(notices) = 0
    BY <2>1
  <2> QED
    BY <2>1, <2>2 DEF CashInv, DueKnown, Later, DueIs, ToldDue, InDue
<1>2. ApiInv /\ BookInv /\ LogInv /\ Shaped /\ LogInv' /\ CashInv /\ [Next]_vars => CashInv'
  BY CashStep
<1>3. CashInv => CashAnnounced
  BY DEF CashInv, ToldDue, CashAnnounced
<1> QED
  BY <1>1, <1>2, <1>3, ApiInvariant, BookInvariant, LogInvariant, PTL DEF Spec

-----------------------------------------------------------------------------
(* The dashboard: its pages group the same rows, by day, hour and user.      *)

(* Days.                                                                     *)
LEMMA Times ==
  ASSUME NEW a \in Int, NEW b \in Int, NEW n \in Nat, a <= b
  PROVE  a * n <= b * n
OBVIOUS

LEMMA TimesNext ==
  ASSUME NEW a \in Int, NEW n \in Nat \ {0}
  PROVE  a * n \in Int /\ a * n < (a + 1) * n
OBVIOUS

LEMMA Divided ==
  ASSUME NEW t \in Int, NEW n \in Nat \ {0}
  PROVE  /\ t \div n \in Int /\ t % n \in 0 .. n - 1
         /\ t = n * (t \div n) + (t % n)
OBVIOUS

LEMMA DayIs ==
  ASSUME NEW t \in Int
  PROVE  /\ Day(t) \in Int /\ Hour(t) \in 0 .. DayLength - 1
         /\ \A d \in Int : Day(t) = d <=> d * DayLength <= t /\ t < (d + 1) * DayLength
<1>1. PICK n : n = DayLength
  OBVIOUS
<1>2. n \in Nat \ {0}
  BY <1>1, BankConstants
<1>3. PICK q, r : q = t \div n /\ r = t % n
  OBVIOUS
<1>4. q \in Int /\ r \in 0 .. n - 1 /\ t = n * q + r
  BY <1>2, <1>3, Divided
<1>5. ASSUME NEW d \in Int PROVE q = d <=> d * n <= t /\ t < (d + 1) * n
  <2>1. CASE q < d
    <3>1. (q + 1) * n <= d * n
      BY <1>2, <1>4, <2>1, Times
    <3> QED
      BY <1>2, <1>4, <2>1, <3>1
  <2>2. CASE q > d
    <3>1. (d + 1) * n <= q * n
      BY <1>2, <1>4, <2>2, Times
    <3> QED
      BY <1>2, <1>4, <2>2, <3>1
  <2>3. CASE q = d
    BY <1>2, <1>4, <2>3
  <2> QED
    BY <1>4, <2>1, <2>2, <2>3
<1> QED
  BY <1>1, <1>3, <1>4, <1>5 DEF Day, Hour

(* Totals of rows.                                                           *)
RowsOK(R) == IsFiniteSet(R) /\ \A x \in R : x.value \in Int /\ x.at \in Int
LEMMA TotalInt ==
  ASSUME NEW R, RowsOK(R)
  PROVE  Total(R) \in Int /\ Total({}) = 0
<1>1. Total(R) = SumOf(R, [x \in R |-> x.value]) /\ Total({}) = SumOf({}, [x \in {} |-> x.value])
  BY TotalIs, FS_EmptySet DEF RowsOK
<1>2. SumOf(R, [x \in R |-> x.value]) \in Int
  BY SumOfInt DEF RowsOK
<1> QED
  BY <1>1, <1>2, SumOfEmpty

LEMMA TotalOf ==
  ASSUME NEW R, RowsOK(R), NEW S \in SUBSET R
  PROVE  RowsOK(S) /\ Total(S) = SumOf(S, [x \in R |-> x.value])
<1>1. RowsOK(S)
  BY FS_Subset DEF RowsOK
<1>2. Total(S) = SumOf(S, [x \in S |-> x.value])
  BY <1>1, TotalIs DEF RowsOK
<1>3. SumOf(S, [x \in S |-> x.value]) = SumOf(S, [x \in R |-> x.value])
  <2>1. \A g, h : (\A x \in S : g[x] = h[x]) => SumOf(S, g) = SumOf(S, h)
    BY <1>1, SumOfSame DEF RowsOK
  <2>2. \A x \in S : [y \in S |-> y.value][x] = [y \in R |-> y.value][x]
    OBVIOUS
  <2> QED
    BY <2>1, <2>2
<1> QED
  BY <1>1, <1>2, <1>3

(* What came in and went out, in parts and net.                              *)
LEMMA Net ==
  ASSUME NEW R, RowsOK(R)
  PROVE  Total(R) = Total(Bought(R)) + Total(Paid(R))
<1> DEFINE Z == {x \in R : x.value = 0}
           g == [x \in R |-> x.value]
<1>1. /\ Bought(R) \in SUBSET R /\ Paid(R) \in SUBSET R /\ Z \in SUBSET R /\ R \in SUBSET R
      /\ Bought(R) \cup Paid(R) \in SUBSET R
  BY DEF Bought, Paid
<1>2. Splits(R, Bought(R) \cup Paid(R), Z) /\ Splits(Bought(R) \cup Paid(R), Bought(R), Paid(R))
  BY DEF Splits, Bought, Paid, RowsOK
<1>3. \A S \in SUBSET R : IsFiniteSet(S) /\ IntegersOn(g, S) /\ Total(S) = SumOf(S, g) /\ SumOf(S, g) \in Int
  <2> TAKE S \in SUBSET R
  <2>1. IsFiniteSet(S) /\ \A x \in S : g[x] \in Int
    BY FS_Subset DEF RowsOK
  <2> HIDE DEF g
  <2>2. SumOf(S, g) \in Int
    BY <2>1, SumOfInt
  <2> QED
    BY <2>1, <2>2, TotalOf DEF IntegersOn, g
<1>4. \A x \in Z : g[x] = 0
  OBVIOUS
<1> HIDE DEF g, Z
<1>5. SumOf(Z, g) = 0
  BY <1>1, <1>3, <1>4, SumOfZero
<1>6. SumOf(R, g) = SumOf(Bought(R) \cup Paid(R), g) + SumOf(Z, g)
  BY <1>1, <1>2, <1>3, SumOfUnion
<1>7. SumOf(Bought(R) \cup Paid(R), g) = SumOf(Bought(R), g) + SumOf(Paid(R), g)
  BY <1>1, <1>2, <1>3, SumOfUnion
<1> QED
  BY <1>1, <1>3, <1>5, <1>6, <1>7

(* The hours of a day add up to it.                                          *)
LEMMA HoursIs ==
  ASSUME NEW K, IsFiniteSet(K)
  PROVE  Sum(K, LAMBDA h : HourStats(now)[h].sales) = SumOf(K, [h \in K |-> HourStats(now)[h].sales])
<1> DEFINE g == [h \in K |-> HourStats(now)[h].sales]
           Eq(F) == F = [T \in SUBSET K |-> IF T = {} THEN 0
                                            ELSE LET x == CHOOSE x \in T : TRUE
                                                 IN  HourStats(now)[x].sales + F[T \ {x}]]
           F == CHOOSE F : Eq(F)
<1>1. ASSUME NEW G PROVE Eq(G) <=> IsSumOn(G, g, K)
  <2>1. \A T \in SUBSET K : T # {} => g[Chosen(T)] = HourStats(now)[Chosen(T)].sales
    BY ChosenIn
  <2> HIDE DEF g
  <2> QED
    BY <2>1, ZenonT(60) DEF IsSumOn, Chosen
<1>2. IsSumOn(F, g, K)
  <2> HIDE DEF g, Eq
  <2>1. \E G : Eq(G)
    BY <1>1, SumOnExists
  <2>2. Eq(F)
    BY <2>1
  <2> HIDE DEF F
  <2> QED
    BY <2>2, <1>1
<1>3. Sum(K, LAMBDA h : HourStats(now)[h].sales) = F[K]
  BY DEF Sum
<1> HIDE DEF F, g
<1> QED
  BY <1>2, <1>3, SumOfIs, K \in SUBSET K DEF g

HoursOf(hours, B) ==
  /\ DOMAIN hours = 0 .. DayLength - 1
  /\ \A h \in DOMAIN hours : hours[h].sales = -Total({x \in B : Hour(x.at) = h})
LEMMA HoursAddUp ==
  ASSUME NEW B, RowsOK(B), HoursOf(HourStats(now), B)
  PROVE  Sum(DOMAIN HourStats(now), LAMBDA h : HourStats(now)[h].sales) = -Total(B)
<1> USE DEF HoursOf
<1> DEFINE K == DOMAIN HourStats(now)
           f == [h \in K |-> HourStats(now)[h].sales]
           g == [x \in B |-> x.value]
           k == [x \in B |-> Hour(x.at)]
<1>1. IsFiniteSet(K) /\ IsFiniteSet(B)
  <2>1. 0 \in Int /\ DayLength - 1 \in Int
    BY BankConstants
  <2>2. IsFiniteSet(0 .. DayLength - 1)
    BY <2>1, FS_Interval, Zenon
  <2> QED
    BY <2>2 DEF RowsOK
<1>2. \A x \in B : k[x] \in K
  BY DayIs DEF RowsOK
<1>3. \A h \in K : f[h] = -SumOf(Parts(B, k, {h}), g)
  <2> TAKE h \in K
  <2>1. Parts(B, k, {h}) = {x \in B : Hour(x.at) = h} /\ Parts(B, k, {h}) \in SUBSET B
    BY DEF Parts
  <2>2. Total(Parts(B, k, {h})) = SumOf(Parts(B, k, {h}), g)
    BY <2>1, TotalOf
  <2>3. f[h] = -Total({x \in B : Hour(x.at) = h})
    OBVIOUS
  <2> QED
    BY <2>1, <2>2, <2>3
<1>4. IntegersOn(g, B) /\ Total(B) = SumOf(B, g)
  BY TotalIs DEF IntegersOn, RowsOK
<1>5. Sum(K, LAMBDA h : HourStats(now)[h].sales) = SumOf(K, f)
  BY <1>1, HoursIs
<1> HIDE DEF K, f, g, k
<1>6. SumOf(K, f) = -SumOf(B, g)
  <2>1. OwesParts(f, K, B, k, g)
    BY <1>2, <1>3 DEF OwesParts
  <2> QED
    BY <1>1, <1>4, <2>1, SumOfParts
<1> QED
  BY <1>4, <1>5, <1>6 DEF K

RowsUpToNow == now \in Nat /\ RowsOK(xacts) /\ \A x \in xacts : x.at <= now
LEMMA Known ==
  /\ DayLength \in Nat \ {0} /\ Days.recent \in Nat /\ Days.month \in Nat /\ Days.recent < Days.month /\ 1 < Days.month
BY BankConstants

(* The rows of a day up to a week or so ago.                                 *)
RowsOn(d) == {x \in xacts : Day(x.at) = d}
LEMMA RowsOnIs ==
  ASSUME RowsUpToNow, NEW ago \in 0 .. Days.recent
  PROVE  /\ Day(now) - ago \in Int
         /\ {x \in DayRows(now) : Day(x.at) = Day(now) - ago} \cup
                (IF ago = Days.recent THEN AtMidnight(Day(now) - ago) ELSE {}) = RowsOn(Day(now) - ago)
<1>1. PICK d, n, recent : d = Day(now) - ago /\ n = DayLength /\ recent = Days.recent
  OBVIOUS
<1>2. d \in Int /\ n \in Nat \ {0} /\ recent \in Nat /\ Day(now) \in Int /\ ago \in Nat /\ ago <= recent /\ d = Day(now) - ago
  BY <1>1, Known, DayIs DEF RowsUpToNow
<1>3. \A x \in xacts : x.at \in Int /\ (Day(x.at) = d <=> d * n <= x.at /\ x.at < (d + 1) * n)
  BY <1>1, <1>2, DayIs DEF RowsUpToNow, RowsOK
<1>4. d * n \in Int /\ d * n < (d + 1) * n
  BY <1>2, TimesNext
<1>5. CASE ago = recent
  <2>1. \A x \in xacts : Day(x.at) = d <=> (Day(x.at) = d /\ x.at > d * n) \/ x.at = d * n
    <3> TAKE x \in xacts
    <3>1. PICK at, low, high : at = x.at /\ low = d * n /\ high = (d + 1) * n
      OBVIOUS
    <3>2. at \in Int /\ low \in Int /\ low < high /\ (Day(x.at) = d <=> low <= at /\ at < high)
      BY <1>3, <1>4, <3>1
    <3>3. high \in Int
      BY <1>2, <3>1
    <3> QED
      BY <3>1, <3>2, <3>3
  <2>2. d = Day(now) - recent
    BY <1>2, <1>5
  <2> QED
    BY <1>1, <1>2, <1>5, <2>1, <2>2 DEF DayRows, RowsOn, AtMidnight, Midnight
<1>6. CASE ago # recent
  <2>1. (Day(now) - recent) * n < d * n
    <3>1. Day(now) - recent + 1 <= d
      BY <1>2, <1>6
    <3>2. (Day(now) - recent + 1) * n <= d * n
      BY <1>2, <3>1, Times
    <3>3. (Day(now) - recent) * n < (Day(now) - recent + 1) * n
      BY <1>2, TimesNext
    <3>4. PICK a0, b0, c0 : a0 = (Day(now) - recent) * n /\ b0 = (Day(now) - recent + 1) * n /\ c0 = d * n
      OBVIOUS
    <3>5. a0 \in Int /\ b0 \in Int /\ c0 \in Int /\ a0 < b0 /\ b0 <= c0
      BY <1>2, <3>2, <3>3, <3>4
    <3> QED
      BY <3>4, <3>5
  <2>2. \A x \in xacts : Day(x.at) = d => x.at > (Day(now) - recent) * n
    <3> TAKE x \in xacts
    <3>1. PICK low, from, at : low = (Day(now) - recent) * n /\ from = d * n /\ at = x.at
      OBVIOUS
    <3>2. low \in Int /\ from \in Int /\ at \in Int /\ low < from /\ (Day(x.at) = d => from <= at)
      BY <1>2, <1>3, <2>1, <3>1
    <3> QED
      BY <3>1, <3>2
  <2> QED
    BY <1>1, <1>2, <1>6, <2>2 DEF DayRows, RowsOn, Midnight
<1> QED
  BY <1>1, <1>2, <1>5, <1>6

LEMMA SalesAgree ==
  ASSUME RowsUpToNow, NEW ago \in 0 .. Days.recent, NEW i
  PROVE  SalesStats(now, SoldOf(i), Days.recent)[ago].sold =
           Cardinality({x \in RowsOn(Day(now) - ago) : x.code # NoCode /\ BulkOf[x.code] = i})
<1>1. PICK today : today = Day(now)
  OBVIOUS
<1>2. \A x \in xacts : today - Day(x.at) = ago <=> Day(x.at) = today - ago
  <2> TAKE x \in xacts
  <2>1. today \in Int /\ Day(x.at) \in Int /\ ago \in Int
    BY <1>1, DayIs, Known DEF RowsUpToNow, RowsOK
  <2> QED
    BY <2>1
<1>3. {x \in SoldOf(i) : today - Day(x.at) = ago} = {x \in RowsOn(today - ago) : x.code # NoCode /\ BulkOf[x.code] = i}
  BY <1>2 DEF SoldOf, RowsOn
<1>4. SalesStats(now, SoldOf(i), Days.recent)[ago].sold = Cardinality({x \in SoldOf(i) : today - Day(x.at) = ago})
  BY <1>1 DEF SalesStats
<1> QED
  BY <1>1, <1>3, <1>4

(* What was spent on a day.                                                  *)
Month == {x \in Bought(xacts) : x.at > Midnight(Day(now) - Days.month)}
LEMMA AggregateIs ==
  /\ DOMAIN Aggregate(now) = {Day(x.at) : x \in Month}
  /\ \A d \in DOMAIN Aggregate(now) : Aggregate(now)[d].revenue = -Total({x \in Month : Day(x.at) = d})
BY DEF Aggregate, Month

LEMMA SpentOn ==
  ASSUME RowsUpToNow, NEW ago \in Nat, ago < Days.month
  PROVE  LET d == Day(now) - ago  spent == Bought(RowsOn(d)) IN
         /\ d \in DOMAIN Aggregate(now) <=> spent # {}
         /\ spent # {} => Aggregate(now)[d].revenue = -Total(spent)
<1>1. PICK d, n, month : d = Day(now) - ago /\ n = DayLength /\ month = Days.month
  OBVIOUS
<1>2. d \in Int /\ n \in Nat \ {0} /\ month \in Nat /\ Day(now) \in Int /\ ago < month /\ d = Day(now) - ago
  BY <1>1, Known, DayIs DEF RowsUpToNow
<1>3. (Day(now) - month + 1) * n <= d * n /\ (Day(now) - month) * n < (Day(now) - month + 1) * n
  <2>1. Day(now) - month + 1 <= d /\ Day(now) - month \in Int
    BY <1>2
  <2> QED
    BY <1>2, <2>1, Times, TimesNext
<1>4. \A x \in RowsOn(d) : x.at > Midnight(Day(now) - Days.month)
  <2> TAKE x \in RowsOn(d)
  <2>1. x.at \in Int /\ d * n <= x.at
    BY <1>1, <1>2, DayIs DEF RowsUpToNow, RowsOK, RowsOn
  <2>2. PICK low, next, from, at : low = (Day(now) - month) * n /\ next = (Day(now) - month + 1) * n /\ from = d * n /\ at = x.at
    OBVIOUS
  <2>3. low \in Int /\ next \in Int /\ from \in Int /\ at \in Int /\ low < next /\ next <= from /\ from <= at
    BY <1>2, <1>3, <2>1, <2>2
  <2> QED
    BY <1>1, <2>2, <2>3 DEF Midnight
<1>5. {x \in Month : Day(x.at) = d} = Bought(RowsOn(d))
  BY <1>1, <1>4 DEF Month, Bought, RowsOn
<1>6. d \in {Day(x.at) : x \in Month} <=> Bought(RowsOn(d)) # {}
  BY <1>5
<1> QED
  BY <1>1, <1>5, <1>6, AggregateIs

(* The days of finitely many rows are finitely many.                         *)
LEMMA DaysFinite ==
  ASSUME NEW R, IsFiniteSet(R)
  PROVE  IsFiniteSet({Day(x.at) : x \in R})
<1>1. [x \in R |-> Day(x.at)] \in Surjection(R, {Day(x.at) : x \in R})
  BY DEF Surjection
<1> QED
  BY <1>1, FS_Surjection

(* What each hour of today sold, but for what opens the day.                *)
AfterMidnight == RowsOn(Day(now)) \ AtMidnight(Day(now))
LEMMA LaterIs ==
  ASSUME RowsUpToNow
  PROVE  /\ {x \in xacts : x.at > Midnight(Day(now))} = AfterMidnight
         /\ AtMidnight(Day(now)) \in SUBSET RowsOn(Day(now))
<1>1. PICK d, n : d = Day(now) /\ n = DayLength
  OBVIOUS
<1>2. d \in Int /\ n \in Nat \ {0} /\ now \in Int /\ d * n \in Int /\ (d + 1) * n \in Int /\ d * n < (d + 1) * n /\ now < (d + 1) * n
  <2>1. d \in Int /\ n \in Nat \ {0} /\ now \in Int
    BY <1>1, Known, DayIs DEF RowsUpToNow
  <2>2. now < (d + 1) * n
    BY <1>1, <2>1, DayIs
  <2>3. d + 1 \in Int
    BY <2>1
  <2> QED
    BY <2>1, <2>2, <2>3, TimesNext
<1>3. \A x \in xacts :
        /\ x.at > d * n <=> Day(x.at) = d /\ x.at # d * n
        /\ x.at = d * n => Day(x.at) = d
  <2> TAKE x \in xacts
  <2>1. PICK at, low, high : at = x.at /\ low = d * n /\ high = (d + 1) * n
    OBVIOUS
  <2>2. at \in Int /\ at <= now /\ (Day(x.at) = d <=> low <= at /\ at < high)
    BY <1>1, <1>2, <2>1, DayIs DEF RowsUpToNow, RowsOK
  <2>3. low \in Int /\ high \in Int /\ low < high /\ now < high /\ now \in Int
    BY <1>2, <2>1
  <2> QED
    BY <2>1, <2>2, <2>3
<1> QED
  BY <1>1, <1>3 DEF AfterMidnight, RowsOn, AtMidnight, Midnight

LEMMA HourIs ==
  ASSUME RowsUpToNow
  PROVE  /\ DOMAIN HourStats(now) = 0 .. DayLength - 1
         /\ \A h \in DOMAIN HourStats(now) :
              /\ HourStats(now)[h].sales = -Total({x \in Bought(AfterMidnight) : Hour(x.at) = h})
              /\ HourStats(now)[h].over = 0 => HourStats(now)[h].usual = 0 /\ HourStats(now)[h].usualDeposits = 0
<1>1. PICK D : D = 0 .. DayLength - 1
  OBVIOUS
<1> DEFINE today == {x \in xacts : x.at > Midnight(Day(now))}
           usual == {x \in xacts : /\ Midnight(Day(now) - Days.year) < x.at /\ x.at < Midnight(Day(now))
                                   /\ (Day(now) - Day(x.at)) % Days.week = 0}
           past0(h) == {x \in usual : Hour(x.at) = h}
<1>2. /\ DOMAIN HourStats(now) = D
      /\ \A h \in D : /\ HourStats(now)[h].sales = -Total(Bought({x \in today : Hour(x.at) = h}))
                       /\ HourStats(now)[h].usual = -Total(Bought(past0(h)))
                       /\ HourStats(now)[h].usualDeposits = Total(Paid(past0(h)))
                       /\ HourStats(now)[h].over = Cardinality({Day(x.at) : x \in past0(h)})
  BY <1>1 DEF HourStats
<1>3. today = AfterMidnight
  BY LaterIs
<1>4. \A h : Bought({x \in today : Hour(x.at) = h}) = {x \in Bought(AfterMidnight) : Hour(x.at) = h}
  BY <1>3 DEF Bought
<1>5. ASSUME NEW h, Cardinality({Day(x.at) : x \in past0(h)}) = 0
      PROVE  -Total(Bought(past0(h))) = 0 /\ Total(Paid(past0(h))) = 0
  <2>1. IsFiniteSet(past0(h))
    <3>1. past0(h) \subseteq xacts
      OBVIOUS
    <3> QED
      BY <3>1, FS_Subset DEF RowsUpToNow, RowsOK
  <2>2. IsFiniteSet({Day(x.at) : x \in past0(h)})
    <3> HIDE DEF past0
    <3> QED
      BY <2>1, DaysFinite
  <2>3. past0(h) = {}
    <3> HIDE DEF past0
    <3>1. {Day(x.at) : x \in past0(h)} = {}
      BY <1>5, <2>2, FS_EmptySet
    <3> QED
      BY <3>1
  <2>4. Bought({}) = {} /\ Paid({}) = {} /\ Total({}) = 0
    BY TotalInt DEF Bought, Paid, RowsUpToNow
  <2> HIDE DEF past0
  <2> QED
    BY <2>3, <2>4
<1> HIDE DEF past0, usual, today
<1> QED
  BY <1>1, <1>2, <1>4, <1>5

(* What is bought in a part of some rows, and in the rest.                   *)
LEMMA BoughtParts ==
  ASSUME NEW R, RowsOK(R), NEW S \in SUBSET R
  PROVE  /\ Total(Bought(R)) = Total(Bought(R \ S)) + Total(Bought(S)) /\ RowsOK(Bought(R \ S))
         /\ Total(Bought(R)) \in Int /\ Total(Bought(R \ S)) \in Int /\ Total(Bought(S)) \in Int
<1> DEFINE g == [x \in R |-> x.value]
<1>1. Bought(R) \in SUBSET R /\ Bought(R \ S) \in SUBSET R /\ Bought(S) \in SUBSET R
  BY DEF Bought
<1>2. Splits(Bought(R), Bought(R \ S), Bought(S))
  BY DEF Splits, Bought
<1>3. \A T \in SUBSET R : IsFiniteSet(T) /\ IntegersOn(g, T) /\ Total(T) = SumOf(T, g) /\ SumOf(T, g) \in Int /\ RowsOK(T)
  <2> TAKE T \in SUBSET R
  <2>1. IsFiniteSet(T) /\ \A x \in T : g[x] \in Int
    BY FS_Subset DEF RowsOK
  <2> HIDE DEF g
  <2>2. SumOf(T, g) \in Int
    BY <2>1, SumOfInt
  <2> QED
    BY <2>1, <2>2, TotalOf DEF IntegersOn, g
<1> HIDE DEF g
<1>4. SumOf(Bought(R), g) = SumOf(Bought(R \ S), g) + SumOf(Bought(S), g)
  <2>1. IsFiniteSet(Bought(R \ S)) /\ IsFiniteSet(Bought(S)) /\ IntegersOn(g, Bought(R))
    BY <1>1, <1>3
  <2>2. \A U, V, W : IsFiniteSet(V) /\ IsFiniteSet(W) /\ Splits(U, V, W) /\ IntegersOn(g, U)
                     => SumOf(U, g) = SumOf(V, g) + SumOf(W, g)
    BY SumOfUnion
  <2> QED
    BY <1>2, <2>1, <2>2
<1> QED
  BY <1>1, <1>3, <1>4

LEMMA ReportsOfDay ==
  ASSUME RowsUpToNow
  PROVE  DashboardsAgree
<1> DEFINE today == Day(now)
           OfDay(ago) == {x \in DayRows(now) : Day(x.at) = today - ago}
           Lacks(ago) == IF ago = Days.recent THEN AtMidnight(today - ago) ELSE {}
           items == {BulkOf[c] : c \in Codes}
           aggregate == Aggregate(now)
           hours == HourStats(now)
           stats == DayStats(now)
<1>1. ASSUME NEW ago \in 0 .. Days.recent
      PROVE  LET R == OfDay(ago) \cup Lacks(ago)
             IN  /\ OfDay(ago) \cap Lacks(ago) = {}
                 /\ \A i \in items : SalesStats(now, SoldOf(i), Days.recent)[ago].sold =
                                       Cardinality({x \in R : x.code # NoCode /\ BulkOf[x.code] = i})
                 /\ Bought(R) # {} =>
                      /\ today - ago \in DOMAIN aggregate
                      /\ aggregate[today - ago].revenue = -Total(Bought(R))
  <2>1. PICK R : R = OfDay(ago) \cup Lacks(ago)
    OBVIOUS
  <2>2. R = RowsOn(today - ago)
    BY <2>1, RowsOnIs
  <2>3. \A i \in items : SalesStats(now, SoldOf(i), Days.recent)[ago].sold =
                           Cardinality({x \in R : x.code # NoCode /\ BulkOf[x.code] = i})
    BY <2>2, SalesAgree
  <2>4. ASSUME Bought(R) # {}
        PROVE  today - ago \in DOMAIN aggregate /\ aggregate[today - ago].revenue = -Total(Bought(R))
    <3>1. ago \in Nat /\ ago < Days.month
      BY Known
    <3> QED
      BY <2>2, <2>4, <3>1, SpentOn
  <2>5. OfDay(ago) \cap Lacks(ago) = {}
    <3>1. Midnight(today - Days.recent) \in Int
      BY Known, DayIs, TimesNext DEF Midnight, RowsUpToNow
    <3>2. \A x \in DayRows(now) : x.at > Midnight(today - Days.recent) /\ x.at \in Int
      BY DEF DayRows, RowsUpToNow, RowsOK
    <3>3. \A x \in Lacks(ago) : x.at = Midnight(today - Days.recent)
      BY DEF AtMidnight
    <3> QED
      BY <3>1, <3>2, <3>3
  <2> QED
    BY <2>1, <2>3, <2>4, <2>5
<1>2. Sum(DOMAIN hours, LAMBDA h : hours[h].sales) - Total(Bought(AtMidnight(today))) =
        IF today \in DOMAIN aggregate THEN aggregate[today].revenue ELSE 0
  <2>1. RowsOK(RowsOn(today)) /\ AtMidnight(today) \in SUBSET RowsOn(today)
    <3>1. RowsOn(today) \in SUBSET xacts
      BY DEF RowsOn
    <3> QED
      BY <3>1, TotalOf, LaterIs DEF RowsUpToNow
  <2>2. /\ Total(Bought(RowsOn(today))) = Total(Bought(AfterMidnight)) + Total(Bought(AtMidnight(today))) /\ RowsOK(Bought(AfterMidnight))
        /\ Total(Bought(RowsOn(today))) \in Int /\ Total(Bought(AfterMidnight)) \in Int /\ Total(Bought(AtMidnight(today))) \in Int
    BY <2>1, BoughtParts DEF AfterMidnight
  <2>3. Sum(DOMAIN hours, LAMBDA h : hours[h].sales) = -Total(Bought(AfterMidnight))
    <3>1. /\ DOMAIN hours = 0 .. DayLength - 1
          /\ \A h \in DOMAIN hours : hours[h].sales = -Total({x \in Bought(AfterMidnight) : Hour(x.at) = h})
      BY HourIs
    <3>2. HoursOf(hours, Bought(AfterMidnight))
      BY <3>1 DEF HoursOf
    <3> QED
      BY <2>2, <3>2, HoursAddUp
  <2>4. /\ today \in DOMAIN aggregate <=> Bought(RowsOn(today)) # {}
        /\ Bought(RowsOn(today)) # {} => aggregate[today].revenue = -Total(Bought(RowsOn(today)))
    <3>1. 0 \in Nat /\ 0 < Days.month /\ today - 0 = today
      BY Known, DayIs DEF RowsUpToNow
    <3> QED
      BY <3>1, SpentOn
  <2>5. Total({}) = 0
    BY <2>1, TotalInt
  <2>6. Sum(DOMAIN hours, LAMBDA h : hours[h].sales) - Total(Bought(AtMidnight(today))) = -Total(Bought(RowsOn(today)))
    BY <2>2, <2>3
  <2> QED
    BY <2>4, <2>5, <2>6
<1>3. \A h \in DOMAIN hours : hours[h].over = 0 => hours[h].usual = 0 /\ hours[h].usualDeposits = 0
  BY HourIs
<1>4. stats.net = stats.purchased + stats.deposited
  <2>1. PICK R : R = {x \in xacts : x.at >= now - DayLength}
    OBVIOUS
  <2>2. R \in SUBSET xacts
    BY <2>1
  <2>3. Total(R) = Total(Bought(R)) + Total(Paid(R))
    BY <2>2, TotalOf, Net DEF RowsUpToNow
  <2>4. stats.net = Total(R) /\ stats.purchased = Total(Bought(R)) /\ stats.deposited = Total(Paid(R))
    BY <2>1 DEF DayStats
  <2> QED
    BY <2>3, <2>4
<1>5. stats.n = Cardinality({x \in MonthRows(now) : x.at >= now - DayLength})
  <2> SUFFICES {x \in xacts : x.at >= now - DayLength} = {x \in MonthRows(now) : x.at >= now - DayLength}
    BY DEF DayStats
  <2>1. PICK n, month : n = DayLength /\ month = Days.month
    OBVIOUS
  <2>2. n \in Nat \ {0} /\ month \in Nat /\ 2 <= month /\ now \in Nat
    BY <2>1, Known DEF RowsUpToNow
  <2>3. 2 * n <= month * n
    BY <2>2, Times
  <2>4. \A x \in xacts : x.at >= now - n => x.at > now - month * n
    <3> TAKE x \in xacts
    <3>1. PICK at, k : at = x.at /\ k = month * n
      OBVIOUS
    <3>2. at \in Int /\ k \in Int /\ n + n <= k
      BY <2>2, <2>3, <3>1 DEF RowsUpToNow, RowsOK
    <3> QED
      BY <2>2, <3>1, <3>2
  <2> QED
    BY <2>1, <2>4 DEF MonthRows
<1> HIDE DEF today, OfDay, Lacks, items, aggregate, hours, stats
<1> QED
  BY <1>1, <1>2, <1>3, <1>4, <1>5 DEF DashboardsAgree, today, OfDay, Lacks, items, aggregate, hours, stats

(* The reports of the dashboard agree, whatever rows were committed and      *)
(* whenever they are asked for.                                              *)
THEOREM DashboardsDoAgree == Spec => []DashboardsAgree
<1>1. ApiInv /\ BookInv /\ LogInv => DashboardsAgree
  <2> SUFFICES ASSUME ApiInv, BookInv, LogInv PROVE RowsUpToNow
    BY ReportsOfDay
  <2> QED
    BY DEF ApiInv, ApiTypeOK, BookInv, RowsSound, LogInv, RowsDated, RowsUpToNow, RowsOK
<1> QED
  BY <1>1, ApiInvariant, BookInvariant, LogInvariant, PTL
=============================================================================
