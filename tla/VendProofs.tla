----------------------------- MODULE VendProofs -----------------------------
(* Theorems about the programs that vend: VdbServer, for any reset series,   *)
(* calls, presses and sodas, and the legacy machine of SodaMachine, for any  *)
(* customers, prices and plans.                                              *)
EXTENDS VdbServer, SodaMachine, Sums, SequenceTheorems, FiniteSetTheorems, TLAPS

-----------------------------------------------------------------------------
(* Lines and sequences of lines.                                             *)
LEMMA LineFacts ==
  ASSUME NEW k, NEW x
  PROVE  /\ Line(k, x).kind = k /\ Line(k, x).of = x
         /\ k = "reply" /\ x \in Commands => Line(k, x) \in ToServerLines
         /\ k \in {"request", "ok", "fail"} /\ x \in Presses => Line(k, x) \in ToServerLines
         /\ k = "command" /\ x \in Commands => Line(k, x) \in ToMachineLines
         /\ k \in {"A", "D"} /\ x \in Presses => Line(k, x) \in ToMachineLines
BY DEF Line, ToServerLines, ToMachineLines

LEMMA ServerLineFacts ==
  ASSUME NEW l \in ToServerLines
  PROVE  /\ l.kind \in {"reply", "request", "ok", "fail"}
         /\ l.kind = "reply" => l.of \in Commands
         /\ l.kind # "reply" => l.of \in Presses
         /\ \A k, x : l = Line(k, x) <=> l.kind = k /\ l.of = x
BY DEF Line, ToServerLines

LEMMA MachineLineFacts ==
  ASSUME NEW l \in ToMachineLines
  PROVE  /\ l.kind \in {"command", "A", "D"}
         /\ l.kind = "command" => l.of \in Commands
         /\ l.kind # "command" => l.of \in Presses
         /\ \A k, x : l = Line(k, x) <=> l.kind = k /\ l.of = x
BY DEF Line, ToMachineLines

(* The reset series: a command, or Nothing, follows.                         *)
LEMMA ScriptFacts ==
  /\ Script[1] \in Commands
  /\ \A c : AfterReset(c) \in Commands \cup {Nothing}
<1>1. Len(Script) \in Nat /\ Len(Script) >= 1 /\ DOMAIN Script = 1 .. Len(Script)
  BY ScriptAssumption, LenProperties, EmptySeq
<1>2. \A i \in 1 .. Len(Script) : Script[i] \in Commands
  BY <1>1 DEF ToSet, Commands
<1>3. ASSUME NEW c, AfterReset(c) # Nothing
      PROVE  AfterReset(c) \in Commands
  <2> DEFINE P(i) == Script[i] = c
  <2>1. \E i \in 1 .. Len(Script) - 1 : P(i)
    BY <1>3 DEF AfterReset
  <2>2. AfterReset(c) = Script[1 + CHOOSE i \in 1 .. Len(Script) - 1 : P(i)]
    BY <2>1 DEF AfterReset
  <2>3. PICK k \in 1 .. Len(Script) - 1 : k = CHOOSE i \in 1 .. Len(Script) - 1 : P(i)
    BY <2>1
  <2>4. 1 + k \in 1 .. Len(Script)
    BY <1>1
  <2> QED
    BY <1>2, <2>2, <2>3, <2>4
<1> QED
  BY <1>1, <1>2, <1>3

(* The lines to the server grow by the lines new, none of them read.         *)
Grown(new) ==
  /\ toServer' \in Seq(ToServerLines) /\ Len(toServer) \in Nat
  /\ Len(toServer') \in Nat /\ Len(toServer') >= Len(toServer)
  /\ \A i \in 1 .. Len(toServer) : toServer'[i] = toServer[i] /\ toServer[i] \in ToServerLines
  /\ \A i \in (Len(toServer) + 1) .. Len(toServer') : toServer'[i] \in new

LEMMA AppendGrows ==
  ASSUME toServer \in Seq(ToServerLines), NEW l \in ToServerLines,
         toServer' = Append(toServer, l)
  PROVE  /\ Grown({l}) /\ Len(toServer') = Len(toServer) + 1
         /\ toServer'[Len(toServer) + 1] = l
<1>1. /\ toServer' \in Seq(ToServerLines) /\ Len(toServer) \in Nat
      /\ Len(toServer') = Len(toServer) + 1
      /\ \A i \in 1 .. Len(toServer) : toServer'[i] = toServer[i] /\ toServer[i] \in ToServerLines
      /\ toServer'[Len(toServer) + 1] = l
  BY AppendProperties, LenProperties, ElementOfSeq
<1>2. \A i \in (Len(toServer) + 1) .. Len(toServer') : i = Len(toServer) + 1
  BY <1>1
<1> QED
  BY <1>1, <1>2 DEF Grown

LEMMA SameGrows ==
  ASSUME toServer \in Seq(ToServerLines), toServer' = toServer
  PROVE  Grown({}) /\ Len(toServer') = Len(toServer)
<1>1. Len(toServer) \in Nat /\ \A i \in 1 .. Len(toServer) : toServer[i] \in ToServerLines
  BY LenProperties, ElementOfSeq
<1> QED
  BY <1>1 DEF Grown

(* The board answers a command with one line or two.                         *)
LEMMA RepliesGrow ==
  ASSUME toServer \in Seq(ToServerLines), NEW c \in Commands,
         toServer' = toServer \o IF c = Script[1] THEN <<Line("reply", c), Line("reply", c)>>
                                                  ELSE <<Line("reply", c)>>
  PROVE  Grown({Line("reply", c)})
<1> DEFINE l == Line("reply", c)
           t == IF c = Script[1] THEN <<l, l>> ELSE <<l>>
<1>1. l \in ToServerLines
  BY LineFacts
<1> HIDE DEF l
<1>2. t \in Seq(ToServerLines) /\ Len(t) \in 1 .. 2 /\ \A i \in 1 .. Len(t) : t[i] = l
  <2>1. CASE c = Script[1]
    <3>1. t = <<l, l>>
      BY <2>1
    <3>2. <<l, l>> \in Seq(ToServerLines) /\ Len(<<l, l>>) = 2
          /\ \A i \in 1 .. 2 : <<l, l>>[i] = l
      BY <1>1
    <3> QED
      BY <3>1, <3>2
  <2>2. CASE c # Script[1]
    <3>1. t = <<l>>
      BY <2>2
    <3>2. <<l>> \in Seq(ToServerLines) /\ Len(<<l>>) = 1 /\ \A i \in 1 .. 1 : <<l>>[i] = l
      BY <1>1
    <3> QED
      BY <3>1, <3>2
  <2> QED
    BY <2>1, <2>2
<1>3. toServer' = toServer \o t
  BY DEF l
<1> HIDE DEF t
<1>4. /\ toServer' \in Seq(ToServerLines) /\ Len(toServer') = Len(toServer) + Len(t)
      /\ \A i \in 1 .. Len(toServer) + Len(t) :
           toServer'[i] = IF i <= Len(toServer) THEN toServer[i] ELSE t[i - Len(toServer)]
  <2> DEFINE both == toServer \o t
  <2>1. /\ both \in Seq(ToServerLines) /\ Len(both) = Len(toServer) + Len(t)
        /\ \A i \in 1 .. Len(toServer) + Len(t) :
             both[i] = IF i <= Len(toServer) THEN toServer[i] ELSE t[i - Len(toServer)]
    BY <1>2, ConcatProperties
  <2>2. toServer' = both
    BY <1>3
  <2> HIDE DEF both
  <2> QED
    BY <2>1, <2>2
<1>5. Len(toServer) \in Nat /\ \A i \in 1 .. Len(toServer) : toServer[i] \in ToServerLines
  BY LenProperties, ElementOfSeq
<1>6. \A i \in (Len(toServer) + 1) .. Len(toServer') : toServer'[i] = l
  BY <1>2, <1>4, <1>5
<1> QED
  BY <1>2, <1>4, <1>5, <1>6 DEF Grown, l

(* 'data' takes the first n lines off, and skips or loses all but the last.  *)
Taken(n) ==
  /\ n \in 1 .. Len(toServer) /\ Len(toServer) \in Nat
  /\ toServer' \in Seq(ToServerLines)
  /\ Len(toServer') \in Nat /\ Len(toServer') = Len(toServer) - n
  /\ \A i \in 1 .. Len(toServer) : toServer[i] \in ToServerLines
  /\ \A i \in 1 .. Len(toServer') :
       i + n \in (n + 1) .. Len(toServer) /\ toServer'[i] = toServer[i + n]
  /\ lost' \in SUBSET ToServerLines /\ lost \subseteq lost'
  /\ \A i \in 1 .. n - 1 : toServer[i] \in lost'

LEMMA DataTakes ==
  ASSUME TypeOK, NEW n \in 1 .. MaxChunk, Data(n)
  PROVE  /\ Taken(n)
         /\ UNCHANGED <<called, granted, board>>
         /\ \/ waiting # Nothing /\ Answer(toServer[n]) /\ toServer[n] \in lost'
            \/ waiting = Nothing /\ Handle(toServer[n])
<1>1. n \in Nat /\ n >= 1 /\ n <= Len(toServer) /\ Len(toServer) \in Nat
      /\ toServer \in Seq(ToServerLines)
  BY MaxChunkAssumption, LenProperties DEF Data, TypeOK
<1>2. \A i \in 1 .. Len(toServer) : toServer[i] \in ToServerLines
  BY <1>1, ElementOfSeq
<1>3. toServer' = SubSeq(toServer, n + 1, Len(toServer))
  BY DEF Data
<1>4. /\ toServer' \in Seq(ToServerLines) /\ Len(toServer') = Len(toServer) - n
      /\ \A i \in 1 .. Len(toServer') : toServer'[i] = toServer[i + n]
  <2>1. \A i \in (n + 1) .. Len(toServer) : toServer[i] \in ToServerLines
    BY <1>1, <1>2
  <2>2. /\ toServer' \in Seq(ToServerLines)
        /\ Len(toServer') = IF n + 1 <= Len(toServer) THEN Len(toServer) - (n + 1) + 1 ELSE 0
        /\ \A i \in 1 .. Len(toServer) - (n + 1) + 1 : toServer'[i] = toServer[(n + 1) + i - 1]
    BY <1>1, <1>3, <2>1, SubSeqProperties
  <2>3. Len(toServer') = Len(toServer) - n
    BY <1>1, <2>2
  <2> QED
    BY <1>1, <2>2, <2>3
<1>5. lost' \in SUBSET ToServerLines /\ lost \subseteq lost'
      /\ \A i \in 1 .. n - 1 : toServer[i] \in lost'
  <2> DEFINE skipped == {toServer[i] : i \in 1 .. n - 1}
  <2>1. lost' \in {lost \cup skipped, lost \cup skipped \cup {toServer[n]}}
    BY DEF Data
  <2>2. skipped \subseteq ToServerLines /\ toServer[n] \in ToServerLines
    BY <1>1, <1>2
  <2> HIDE DEF skipped
  <2>3. lost' \in SUBSET ToServerLines /\ lost \subseteq lost' /\ skipped \subseteq lost'
    BY <2>1, <2>2 DEF TypeOK
  <2> QED
    BY <2>3 DEF skipped
<1>6. Taken(n)
  <2>1. n \in 1 .. Len(toServer)
    BY <1>1
  <2>2. \A i \in 1 .. Len(toServer') : i + n \in (n + 1) .. Len(toServer)
    BY <1>1, <1>4
  <2>3. Len(toServer') \in Nat
    BY <1>4, LenProperties
  <2> QED
    BY <1>1, <1>2, <1>4, <1>5, <2>1, <2>2, <2>3, Zenon DEF Taken
<1> QED
  BY <1>6 DEF Data

-----------------------------------------------------------------------------
(* Types, and that sodad is asked about a press only once.                   *)

(* The lines and the machine name presses that were made.                    *)
KnownPresses ==
  /\ \A i \in 1 .. Len(toServer) :
       toServer[i].kind # "reply" => soda[toServer[i].of] # Nothing
  /\ turn # Nothing => soda[turn] # Nothing

(* A request is on the line once, before sodad is asked about it.            *)
RequestsOnce ==
  \A p \in Presses :
    /\ \A i, j \in 1 .. Len(toServer) :
         toServer[i] = Line("request", p) /\ toServer[j] = Line("request", p) => i = j
    /\ \A i \in 1 .. Len(toServer) :
         toServer[i] = Line("request", p) => p \notin asking \cup granted

AskedInv == TypeOK /\ KnownPresses /\ RequestsOnce

LEMMA AskedInit == Init => AskedInv
<1> SUFFICES ASSUME Init PROVE AskedInv
  OBVIOUS
<1>1. toMachine \in Seq(ToMachineLines)
  <2>1. Line("command", Script[1]) \in ToMachineLines
    BY ScriptFacts, LineFacts
  <2> QED
    BY <2>1 DEF Init
<1>2. Len(toServer) = 0 /\ toServer \in Seq(ToServerLines) /\ reports \in Seq(Reports)
  BY EmptySeq DEF Init
<1>3. TypeOK
  BY <1>1, <1>2, ScriptFacts DEF Init, TypeOK
<1> QED
  BY <1>2, <1>3 DEF Init, AskedInv, KnownPresses, RequestsOnce

(* Steps that put no request on the line and ask sodad nothing.              *)
LEMMA AskedGrown ==
  ASSUME AskedInv, NEW new, Grown(new), \A l \in new : l.kind # "request",
         \A l \in new : l.kind = "reply" \/ soda[l.of] # Nothing,
         UNCHANGED soda, turn' \in {turn, Nothing},
         asking' \cup granted' \subseteq asking \cup granted
  PROVE  KnownPresses' /\ RequestsOnce'
<1>1. KnownPresses'
  <2> SUFFICES ASSUME NEW i \in 1 .. Len(toServer'), toServer'[i].kind # "reply"
               PROVE  soda[toServer'[i].of] # Nothing
    BY DEF KnownPresses, AskedInv
  <2>1. CASE i <= Len(toServer)
    BY <2>1 DEF Grown, KnownPresses, AskedInv
  <2>2. CASE i > Len(toServer)
    <3>1. i \in (Len(toServer) + 1) .. Len(toServer')
      BY <2>2 DEF Grown
    <3> QED
      BY <3>1 DEF Grown
  <2> QED
    BY <2>1, <2>2 DEF Grown
<1>2. \A p : \A i \in 1 .. Len(toServer') :
        toServer'[i] = Line("request", p) => i \in 1 .. Len(toServer) /\ toServer[i] = Line("request", p)
  <2> SUFFICES ASSUME NEW p, NEW i \in 1 .. Len(toServer'), toServer'[i] = Line("request", p)
               PROVE  i \in 1 .. Len(toServer) /\ toServer[i] = Line("request", p)
    OBVIOUS
  <2>1. i \notin (Len(toServer) + 1) .. Len(toServer')
    BY LineFacts DEF Grown
  <2> QED
    BY <2>1 DEF Grown
<1>3. RequestsOnce'
  BY <1>2 DEF RequestsOnce, AskedInv
<1> QED
  BY <1>1, <1>3

LEMMA AskedPress ==
  ASSUME AskedInv, NEW p \in Presses, Press(p)
  PROVE  AskedInv'
<1> DEFINE l == Line("request", p)
<1>1. PICK s \in Sodas : soda' = [soda EXCEPT ![p] = s]
  BY DEF Press
<1>2. /\ l \in ToServerLines /\ l.kind = "request" /\ l.of = p
  BY LineFacts
<1>3. /\ Grown({l}) /\ Len(toServer') = Len(toServer) + 1
      /\ toServer'[Len(toServer) + 1] = l
  BY <1>2, AppendGrows DEF Press, AskedInv, TypeOK
<1>4. /\ machine = "idle" /\ soda[p] = Nothing /\ machine' = "asking" /\ turn' = p
      /\ UNCHANGED <<server, toMachine, started>>
  BY DEF Press
<1>5. s # Nothing /\ p # Nothing
  BY NothingAssumption
<1>6. soda' \in [Presses -> Sodas \cup {Nothing}] /\ soda'[p] = s
      /\ \A q \in Presses : q # p => soda'[q] = soda[q]
  BY <1>1 DEF AskedInv, TypeOK
<1>7. TypeOK'
  BY <1>3, <1>4, <1>5, <1>6 DEF AskedInv, TypeOK, Grown, server
<1>8. KnownPresses'
  <2> SUFFICES ASSUME NEW i \in 1 .. Len(toServer'), toServer'[i].kind # "reply"
               PROVE  soda'[toServer'[i].of] # Nothing
    BY <1>4, <1>5, <1>6 DEF KnownPresses
  <2>1. CASE i <= Len(toServer)
    <3>1. i \in 1 .. Len(toServer) /\ toServer'[i] = toServer[i] /\ toServer[i] \in ToServerLines
      BY <1>3, <2>1 DEF Grown
    <3>2. soda[toServer[i].of] # Nothing /\ toServer[i].of \in Presses
      BY <3>1, ServerLineFacts DEF KnownPresses, AskedInv
    <3> QED
      BY <1>5, <1>6, <3>1, <3>2
  <2>2. CASE i = Len(toServer) + 1
    BY <1>2, <1>3, <1>5, <1>6, <2>2
  <2> QED
    BY <1>3, <2>1, <2>2 DEF Grown
<1>9. \A i \in 1 .. Len(toServer) : toServer[i] # l
  BY <1>2, <1>4 DEF KnownPresses, AskedInv
<1>10. p \notin asking \cup granted
  BY <1>4 DEF AskedInv, TypeOK
<1>11. RequestsOnce'
  <2> SUFFICES ASSUME NEW q \in Presses
               PROVE  /\ \A i, j \in 1 .. Len(toServer') :
                           toServer'[i] = Line("request", q) /\ toServer'[j] = Line("request", q) => i = j
                      /\ \A i \in 1 .. Len(toServer') :
                           toServer'[i] = Line("request", q) => q \notin asking \cup granted
    BY <1>4 DEF RequestsOnce, server
  <2>1. \A i \in 1 .. Len(toServer') :
          \/ i \in 1 .. Len(toServer) /\ toServer'[i] = toServer[i]
          \/ i = Len(toServer) + 1
    BY <1>3 DEF Grown
  <2>2. CASE q = p
    BY <1>3, <1>9, <1>10, <2>1, <2>2 DEF Grown
  <2>3. CASE q # p
    <3>1. l # Line("request", q)
      BY <1>2, <2>3, LineFacts
    <3> QED
      BY <1>3, <2>1, <3>1 DEF RequestsOnce, AskedInv
  <2> QED
    BY <2>2, <2>3
<1> QED
  BY <1>7, <1>8, <1>11 DEF AskedInv

LEMMA AskedCommand ==
  ASSUME AskedInv, NEW c \in Requests, Command(c)
  PROVE  AskedInv'
<1>1. c \in Commands /\ Line("command", c) \in ToMachineLines
  BY LineFacts DEF Commands
<1>2. toMachine' \in Seq(ToMachineLines)
  <2>1. toMachine' \in {toMachine, Append(toMachine, Line("command", c))}
    BY DEF Command
  <2>2. toMachine \in Seq(ToMachineLines)
    BY DEF AskedInv, TypeOK
  <2>3. Append(toMachine, Line("command", c)) \in Seq(ToMachineLines)
    BY <1>1, <2>2, AppendProperties
  <2> QED
    BY <2>1, <2>2, <2>3
<1>3. TypeOK'
  BY <1>1, <1>2 DEF AskedInv, TypeOK, Command, board
<1> QED
  BY <1>3 DEF AskedInv, KnownPresses, RequestsOnce, Command, board

LEMMA AskedTimeout ==
  ASSUME AskedInv, Timeout
  PROVE  AskedInv'
BY DEF AskedInv, TypeOK, KnownPresses, RequestsOnce, Timeout, board

LEMMA AskedGiveUp ==
  ASSUME AskedInv, GiveUp
  PROVE  AskedInv'
BY DEF AskedInv, TypeOK, KnownPresses, RequestsOnce, GiveUp, server

LEMMA AskedVendEnds ==
  ASSUME AskedInv, VendEnds
  PROVE  AskedInv'
<1>1. PICK k \in {"ok", "fail"} : toServer' = Append(toServer, Line(k, turn))
  BY DEF VendEnds
<1>2. turn \in Presses /\ turn # Nothing
  BY DEF VendEnds, AskedInv, TypeOK
<1>3. /\ Line(k, turn) \in ToServerLines
      /\ Line(k, turn).kind = k /\ Line(k, turn).of = turn
  BY <1>2, LineFacts
<1>4. Grown({Line(k, turn)})
  BY <1>1, <1>3, AppendGrows DEF AskedInv, TypeOK
<1>5. /\ machine' = "idle" /\ turn' = Nothing
      /\ UNCHANGED <<server, toMachine, soda, started>>
  BY DEF VendEnds
<1>6. TypeOK'
  BY <1>4, <1>5 DEF AskedInv, TypeOK, Grown, server
<1>7. soda[turn] # Nothing
  BY <1>2 DEF AskedInv, KnownPresses
<1>8. KnownPresses' /\ RequestsOnce'
  BY <1>3, <1>4, <1>5, <1>7, AskedGrown DEF server
<1> QED
  BY <1>6, <1>8 DEF AskedInv

(* What the board does with the oldest line.                                 *)
LEMMA BoardReads ==
  ASSUME TypeOK, Board
  PROVE  /\ toMachine # <<>> /\ Head(toMachine) = toMachine[1] /\ Head(toMachine) \in ToMachineLines
         /\ Len(toMachine) \in Nat /\ Len(toMachine) >= 1
         /\ toMachine' \in Seq(ToMachineLines) /\ Len(toMachine') = Len(toMachine) - 1
         /\ \A i \in 1 .. Len(toMachine') : toMachine'[i] = toMachine[i + 1]
         /\ UNCHANGED <<server, soda>>
<1>1. toMachine \in Seq(ToMachineLines) /\ toMachine # <<>>
  BY DEF TypeOK, Board
<1> QED
  BY <1>1, HeadTailProperties, LenProperties, EmptySeq DEF Board

LEMMA AskedBoard ==
  ASSUME AskedInv, Board
  PROVE  AskedInv'
<1> DEFINE l == Head(toMachine)
<1>1. TypeOK /\ toServer \in Seq(ToServerLines)
  BY DEF AskedInv, TypeOK
<1>2. /\ l \in ToMachineLines /\ toMachine' \in Seq(ToMachineLines)
      /\ UNCHANGED <<server, soda>>
  BY <1>1, BoardReads
<1>3. CASE l.kind = "command"
  <2>1. l.of \in Commands
    BY <1>2, <1>3, MachineLineFacts
  <2>2. /\ toServer' = toServer \o IF l.of = Script[1] THEN <<Line("reply", l.of), Line("reply", l.of)>>
                                                       ELSE <<Line("reply", l.of)>>
        /\ UNCHANGED <<machine, turn, started>>
    BY <1>3 DEF Board
  <2>3. Grown({Line("reply", l.of)})
    BY <1>1, <2>1, <2>2, RepliesGrow
  <2>4. Line("reply", l.of).kind = "reply"
    BY LineFacts
  <2>5. KnownPresses' /\ RequestsOnce'
    BY <1>2, <2>2, <2>3, <2>4, AskedGrown DEF server
  <2>6. TypeOK'
    BY <1>1, <1>2, <2>2, <2>3 DEF TypeOK, server, Grown
  <2> QED
    BY <2>5, <2>6 DEF AskedInv
<1>4. CASE l.kind # "command"
  <2>1. /\ toServer' = toServer
        /\ \/ UNCHANGED <<machine, turn, started>>
           \/ machine = "asking" /\ machine' = "vending" /\ started' = started \cup {turn}
              /\ UNCHANGED turn
           \/ machine = "asking" /\ machine' = "idle" /\ turn' = Nothing /\ UNCHANGED started
    BY <1>4 DEF Board
  <2>2. machine = "asking" => turn \in Presses /\ soda[turn] # Nothing
    BY DEF AskedInv, TypeOK, KnownPresses
  <2>3. TypeOK'
    BY <1>1, <1>2, <2>1, <2>2 DEF TypeOK, server
  <2>4. KnownPresses' /\ RequestsOnce'
    BY <1>2, <2>1 DEF AskedInv, KnownPresses, RequestsOnce, server
  <2> QED
    BY <2>3, <2>4 DEF AskedInv
<1> QED
  BY <1>3, <1>4

LEMMA AskedReply ==
  ASSUME AskedInv, NEW p \in Presses, VdbauthReply(p)
  PROVE  AskedInv'
<1>1. PICK k \in {"A", "D"} : /\ toMachine' = Append(toMachine, Line(k, p))
                              /\ granted' = IF k = "A" THEN granted \cup {p} ELSE granted
  BY DEF VdbauthReply
<1>2. /\ p \in asking /\ asking' = asking \ {p}
      /\ UNCHANGED <<waiting, called, currentVend, reports, lost, toServer, board>>
  BY DEF VdbauthReply
<1>3. Line(k, p) \in ToMachineLines
  BY LineFacts
<1>4. toMachine' \in Seq(ToMachineLines)
  BY <1>1, <1>3, AppendProperties DEF AskedInv, TypeOK
<1>5. TypeOK'
  BY <1>1, <1>2, <1>4 DEF AskedInv, TypeOK, board
<1>6. KnownPresses'
  BY <1>2 DEF AskedInv, KnownPresses, board
<1>7. RequestsOnce'
  BY <1>1, <1>2 DEF AskedInv, RequestsOnce
<1> QED
  BY <1>5, <1>6, <1>7 DEF AskedInv

(* Handling a line asks sodad about at most the press that it requests.      *)
LEMMA AskedData ==
  ASSUME AskedInv, NEW n \in 1 .. MaxChunk, Data(n)
  PROVE  AskedInv'
<1> DEFINE l == toServer[n]
<1>0. TypeOK
  BY DEF AskedInv
<1>1. /\ Taken(n) /\ UNCHANGED <<called, granted, board>>
      /\ \/ waiting # Nothing /\ Answer(l)
         \/ waiting = Nothing /\ Handle(l)
  BY <1>0, DataTakes
<1>2. l \in ToServerLines /\ n \in 1 .. Len(toServer)
  BY <1>1 DEF Taken
<1> HIDE DEF l
<1>3. \/ asking' = asking
      \/ l.kind = "request" /\ asking' = asking \cup {l.of}
  <2>1. CASE Answer(l)
    BY <2>1 DEF Answer
  <2>2. CASE Handle(l)
    BY <2>2 DEF Handle
  <2> QED
    BY <1>1, <2>1, <2>2
<1>4. l.kind # "reply" => l.of \in Presses /\ soda[l.of] \in Sodas
  <2>1. l.kind # "reply" => l.of \in Presses /\ soda[l.of] # Nothing
    BY <1>2, ServerLineFacts DEF AskedInv, KnownPresses, l
  <2> QED
    BY <1>0, <2>1 DEF TypeOK
<1>5. l.kind = "request" => l.of \notin asking \cup granted /\ l = Line("request", l.of)
  <2>1. l.kind = "request" => l = Line("request", l.of) /\ l.of \in Presses
    BY <1>2, ServerLineFacts
  <2> QED
    BY <1>2, <2>1 DEF AskedInv, RequestsOnce, l
<1>6. /\ waiting' \in Commands \cup {Nothing} /\ toMachine' \in Seq(ToMachineLines)
      /\ currentVend' \in Sodas \cup {Nothing} /\ reports' \in Seq(Reports)
      /\ asking' \in SUBSET Presses /\ asking' \cap granted' = {}
      /\ \A p \in asking' : soda[p] # Nothing
  <2>1. CASE waiting # Nothing /\ Answer(l)
    <3>1. waiting' \in Commands \cup {Nothing} /\ waiting' = AfterReset(waiting)
      BY <2>1, ScriptFacts DEF Answer
    <3>2. waiting' # Nothing => Line("command", waiting') \in ToMachineLines
      BY <3>1, LineFacts
    <3>3. toMachine' \in Seq(ToMachineLines)
      BY <1>0, <2>1, <3>1, <3>2, AppendProperties DEF Answer, TypeOK
    <3> QED
      BY <1>0, <1>1, <2>1, <3>1, <3>3 DEF Answer, TypeOK
  <2>2. CASE Handle(l)
    <3>1. reports' \in Seq(Reports)
      <4>1. l.kind \in {"ok", "fail"} =>
              [of |-> l.of, success |-> l.kind = "ok", soda |-> currentVend] \in Reports
        BY <1>0, <1>4 DEF Reports, TypeOK
      <4> QED
        BY <1>0, <2>2, <4>1, AppendProperties DEF Handle, TypeOK
    <3>2. currentVend' \in Sodas \cup {Nothing}
      BY <1>0, <1>4, <2>2 DEF Handle, TypeOK
    <3>3. /\ asking' \in SUBSET Presses /\ asking' \cap granted' = {}
          /\ \A p \in asking' : soda[p] # Nothing
      BY <1>0, <1>1, <1>4, <1>5, <2>2, NothingAssumption DEF Handle, TypeOK
    <3> QED
      BY <1>0, <2>2, <3>1, <3>2, <3>3 DEF Handle, TypeOK
  <2> QED
    BY <1>1, <2>1, <2>2
<1>7. TypeOK'
  BY <1>0, <1>1, <1>6 DEF TypeOK, Taken, board
<1>8. KnownPresses'
  <2>1. \A i \in 1 .. Len(toServer') : i + n \in 1 .. Len(toServer) /\ toServer'[i] = toServer[i + n]
    BY <1>1 DEF Taken
  <2> QED
    BY <1>1, <2>1 DEF AskedInv, KnownPresses, board
<1>9. RequestsOnce'
  <2> SUFFICES ASSUME NEW p \in Presses
               PROVE  /\ \A i, j \in 1 .. Len(toServer') :
                           toServer'[i] = Line("request", p) /\ toServer'[j] = Line("request", p) => i = j
                      /\ \A i \in 1 .. Len(toServer') :
                           toServer'[i] = Line("request", p) => p \notin asking' \cup granted'
    BY DEF RequestsOnce
  <2>1. \A i \in 1 .. Len(toServer') :
          /\ i + n \in 1 .. Len(toServer) /\ toServer'[i] = toServer[i + n]
          /\ i + n # n /\ i \in Int /\ n \in Int
    BY <1>1 DEF Taken
  <2>2. ASSUME NEW i \in 1 .. Len(toServer'), NEW j \in 1 .. Len(toServer'),
               toServer'[i] = Line("request", p), toServer'[j] = Line("request", p)
        PROVE  i = j
    <3>1. i + n = j + n
      BY <2>1, <2>2 DEF AskedInv, RequestsOnce
    <3> QED
      BY <2>1, <3>1
  <2>3. ASSUME NEW i \in 1 .. Len(toServer'), toServer'[i] = Line("request", p)
        PROVE  p \notin asking' \cup granted'
    <3>1. toServer[i + n] = Line("request", p) /\ i + n \in 1 .. Len(toServer) /\ i + n # n
      BY <2>1, <2>3
    <3>2. p \notin asking \cup granted
      BY <3>1 DEF AskedInv, RequestsOnce
    <3>3. l # Line("request", p)
      BY <1>2, <3>1 DEF AskedInv, RequestsOnce, l
    <3>4. l.kind = "request" => l.of # p
      BY <1>5, <3>3
    <3> QED
      BY <1>1, <1>3, <3>2, <3>4
  <2> QED
    BY <2>2, <2>3
<1> QED
  BY <1>7, <1>8, <1>9 DEF AskedInv

LEMMA AskedStep == AskedInv /\ [Next]_vars => AskedInv'
<1> SUFFICES ASSUME AskedInv, [Next]_vars PROVE AskedInv'
  OBVIOUS
<1>1. CASE UNCHANGED vars
  BY <1>1 DEF vars, server, board, AskedInv, TypeOK, KnownPresses, RequestsOnce
<1> QED
  BY <1>1, AskedCommand, AskedTimeout, AskedData, AskedReply, AskedPress, AskedGiveUp,
     AskedBoard, AskedVendEnds DEF Next

(* The variables have their types; sodad is asked about a press only after   *)
(* it was made, and not again once it has granted it.                        *)
THEOREM VendTypeCorrect == Spec => []TypeOK
<1>1. AskedInv => TypeOK
  BY DEF AskedInv
<1> QED
  BY <1>1, AskedInit, AskedStep, PTL DEF Spec

-----------------------------------------------------------------------------
(* Grants and vends.  A names no press, so the vend that it starts need not  *)
(* be the one it was given for: what counts is that each A is given once,    *)
(* is read once, and starts at most one vend.                                *)

(* The grants whose A the machine has read.                                  *)
Spent == {p \in granted : \A i \in 1 .. Len(toMachine) : toMachine[i] # Line("A", p)}

GrantsOnce ==
  \A i, j \in 1 .. Len(toMachine) :
    toMachine[i].kind = "A" =>
      /\ toMachine[i].of \in granted
      /\ toMachine[j] = toMachine[i] => i = j

GrantInv ==
  /\ IsFiniteSet(granted) /\ IsFiniteSet(started)
  /\ GrantsOnce
  /\ Cardinality(started) <= Cardinality(Spent)

(* A line other than A makes no difference.                                  *)
LEMMA OtherLineGrants ==
  ASSUME TypeOK, GrantInv, NEW l \in ToMachineLines, l.kind # "A",
         toMachine' = Append(toMachine, l), UNCHANGED <<granted, started>>
  PROVE  GrantInv'
<1>1. /\ Len(toMachine) \in Nat /\ Len(toMachine') = Len(toMachine) + 1
      /\ \A i \in 1 .. Len(toMachine) : toMachine'[i] = toMachine[i]
      /\ toMachine'[Len(toMachine) + 1] = l
  BY AppendProperties, LenProperties DEF TypeOK
<1>2. \A i \in 1 .. Len(toMachine') :
        \/ i \in 1 .. Len(toMachine) /\ toMachine'[i] = toMachine[i]
        \/ toMachine'[i] = l
  BY <1>1
<1>3. GrantsOnce'
  BY <1>1, <1>2 DEF GrantInv, GrantsOnce
<1>4. Spent' = Spent
  <2>1. \A p : l # Line("A", p)
    BY LineFacts
  <2> QED
    BY <1>1, <1>2, <2>1 DEF Spent
<1> QED
  BY <1>3, <1>4 DEF GrantInv

LEMMA ReplyGrants ==
  ASSUME AskedInv, GrantInv, NEW p \in Presses, VdbauthReply(p)
  PROVE  GrantInv'
<1>1. /\ p \in asking /\ p \notin granted /\ UNCHANGED started /\ TypeOK
      /\ \/ granted' = granted \cup {p} /\ toMachine' = Append(toMachine, Line("A", p))
         \/ UNCHANGED granted /\ toMachine' = Append(toMachine, Line("D", p))
  BY DEF VdbauthReply, AskedInv, TypeOK, board
<1>2. CASE UNCHANGED granted /\ toMachine' = Append(toMachine, Line("D", p))
  BY <1>1, <1>2, LineFacts, OtherLineGrants
<1>3. CASE granted' = granted \cup {p} /\ toMachine' = Append(toMachine, Line("A", p))
  <2> DEFINE l == Line("A", p)
  <2>1. l \in ToMachineLines /\ l.kind = "A" /\ l.of = p
    BY LineFacts
  <2>2. /\ Len(toMachine) \in Nat /\ Len(toMachine') = Len(toMachine) + 1
        /\ \A i \in 1 .. Len(toMachine) : toMachine'[i] = toMachine[i]
        /\ toMachine'[Len(toMachine) + 1] = l
    BY <1>1, <1>3, <2>1, AppendProperties, LenProperties DEF TypeOK
  <2>3. \A i \in 1 .. Len(toMachine') :
          \/ i \in 1 .. Len(toMachine) /\ toMachine'[i] = toMachine[i]
          \/ i = Len(toMachine) + 1 /\ toMachine'[i] = l
    BY <2>2
  <2>4. \A i \in 1 .. Len(toMachine) : toMachine[i] # l
    BY <1>1, <2>1 DEF GrantInv, GrantsOnce
  <2>5. GrantsOnce'
    BY <1>3, <2>1, <2>3, <2>4 DEF GrantInv, GrantsOnce
  <2>6. Spent' = Spent
    <3>1. p \notin Spent'
      BY <2>2 DEF Spent
    <3>2. \A q : q # p => l # Line("A", q)
      BY <2>1, LineFacts
    <3>3. \A q \in granted : q \in Spent' <=> q \in Spent
      BY <1>1, <1>3, <2>2, <2>3, <3>2 DEF Spent
    <3>4. Spent \subseteq granted /\ Spent' \subseteq granted
      BY <1>3, <3>1 DEF Spent
    <3> QED
      BY <3>3, <3>4
  <2>7. IsFiniteSet(granted')
    BY <1>3, FS_AddElement DEF GrantInv
  <2> QED
    BY <1>1, <2>5, <2>6, <2>7 DEF GrantInv
<1> QED
  BY <1>1, <1>2, <1>3

LEMMA BoardGrants ==
  ASSUME AskedInv, GrantInv, Board
  PROVE  GrantInv'
<1> DEFINE l == Head(toMachine)
<1>0. TypeOK
  BY DEF AskedInv
<1>1. /\ l = toMachine[1] /\ l \in ToMachineLines
      /\ Len(toMachine) \in Nat /\ Len(toMachine) >= 1
      /\ Len(toMachine') = Len(toMachine) - 1
      /\ \A i \in 1 .. Len(toMachine') : toMachine'[i] = toMachine[i + 1]
      /\ granted' = granted
  BY <1>0, BoardReads DEF server
<1>2. \A i \in 1 .. Len(toMachine') : i + 1 \in 1 .. Len(toMachine) /\ i + 1 # 1
  BY <1>1
<1>3. GrantsOnce'
  <2> SUFFICES ASSUME NEW i \in 1 .. Len(toMachine'), NEW j \in 1 .. Len(toMachine'),
                      toMachine'[i].kind = "A"
               PROVE  /\ toMachine'[i].of \in granted
                      /\ toMachine'[j] = toMachine'[i] => i = j
    BY <1>1 DEF GrantsOnce
  <2>1. /\ toMachine[i + 1].of \in granted
        /\ toMachine[j + 1] = toMachine[i + 1] => i + 1 = j + 1
    BY <1>1, <1>2 DEF GrantInv, GrantsOnce
  <2> QED
    BY <1>1, <2>1
<1>4. started' \in {started, started \cup {turn}} /\ (l.kind # "A" => started' = started)
  BY DEF Board
<1>5. IsFiniteSet(Spent) /\ IsFiniteSet(Spent') /\ IsFiniteSet(started')
  BY <1>1, <1>4, FS_Subset, FS_AddElement DEF GrantInv, Spent
<1>6. Spent \subseteq Spent'
  <2> SUFFICES ASSUME NEW p \in Spent, NEW i \in 1 .. Len(toMachine')
               PROVE  toMachine'[i] # Line("A", p)
    BY <1>1 DEF Spent
  <2> QED
    BY <1>1, <1>2 DEF Spent
<1> HIDE DEF l
<1>7. CASE l.kind # "A"
  <2>1. Cardinality(Spent) <= Cardinality(Spent')
    BY <1>5, <1>6, FS_Subset
  <2> QED
    BY <1>1, <1>3, <1>4, <1>5, <1>7, <2>1, FS_CardinalityType DEF GrantInv
<1>8. CASE l.kind = "A"
  <2> DEFINE p == l.of
  <2>1. l = Line("A", p) /\ p \in granted
    <3>1. l = Line("A", p)
      BY <1>1, <1>8, MachineLineFacts
    <3> QED
      BY <1>1, <1>8, <3>1 DEF GrantInv, GrantsOnce
  <2>2. p \notin Spent
    BY <1>1, <2>1 DEF Spent
  <2>3. p \in Spent'
    <3> SUFFICES ASSUME NEW i \in 1 .. Len(toMachine'), toMachine'[i] = Line("A", p)
                 PROVE  FALSE
      BY <1>1, <2>1 DEF Spent
    <3>1. toMachine[i + 1] = toMachine[1]
      BY <1>1, <2>1
    <3>2. 1 \in 1 .. Len(toMachine) /\ i + 1 \in 1 .. Len(toMachine) /\ i + 1 # 1
      BY <1>1, <1>2
    <3> QED
      BY <1>1, <1>8, <3>1, <3>2 DEF GrantInv, GrantsOnce
  <2> HIDE DEF p
  <2>4. Cardinality(Spent \cup {p}) = Cardinality(Spent) + 1 /\ IsFiniteSet(Spent \cup {p})
    BY <1>5, <2>2, FS_AddElement
  <2>5. Cardinality(Spent \cup {p}) <= Cardinality(Spent')
    BY <1>5, <1>6, <2>3, <2>4, FS_Subset
  <2>6. Cardinality(started') <= Cardinality(started) + 1
    <3>1. IsFiniteSet(started) /\ Cardinality(started) \in Nat
      BY FS_CardinalityType DEF GrantInv
    <3>2. Cardinality(started \cup {turn}) \in {Cardinality(started), Cardinality(started) + 1}
      BY <3>1, FS_AddElement
    <3>3. CASE started' = started
      BY <3>1, <3>3
    <3>4. CASE started' = started \cup {turn}
      BY <3>1, <3>2, <3>4
    <3> QED
      BY <1>4, <3>3, <3>4
  <2>7. /\ Cardinality(started) \in Nat /\ Cardinality(started') \in Nat
        /\ Cardinality(Spent) \in Nat /\ Cardinality(Spent') \in Nat
    BY <1>5, FS_CardinalityType DEF GrantInv
  <2>8. Cardinality(started') <= Cardinality(Spent')
    BY <2>4, <2>5, <2>6, <2>7 DEF GrantInv
  <2> QED
    BY <1>1, <1>3, <1>5, <2>8 DEF GrantInv
<1> QED
  BY <1>7, <1>8

LEMMA GrantStep ==
  ASSUME AskedInv, GrantInv, [Next]_vars
  PROVE  GrantInv'
<1>0. TypeOK
  BY DEF AskedInv
<1>1. CASE UNCHANGED <<granted, started, toMachine>>
  BY <1>1 DEF GrantInv, GrantsOnce, Spent
<1>2. ASSUME NEW c \in Requests, Command(c)
      PROVE  GrantInv'
  <2>1. UNCHANGED <<granted, started>>
        /\ toMachine' \in {toMachine, Append(toMachine, Line("command", c))}
    BY <1>2 DEF Command, board
  <2>2. Line("command", c) \in ToMachineLines /\ Line("command", c).kind # "A"
    BY LineFacts DEF Commands
  <2> QED
    BY <1>0, <1>1, <2>1, <2>2, OtherLineGrants
<1>3. ASSUME NEW n \in 1 .. MaxChunk, Data(n)
      PROVE  GrantInv'
  <2>1. UNCHANGED <<granted, started>>
    BY <1>3 DEF Data, board
  <2>2. \/ UNCHANGED toMachine
        \/ \E c \in Commands : toMachine' = Append(toMachine, Line("command", c))
    BY <1>3, ScriptFacts DEF Data, Answer, Handle
  <2>3. \A c \in Commands : Line("command", c) \in ToMachineLines /\ Line("command", c).kind # "A"
    BY LineFacts
  <2> QED
    BY <1>0, <1>1, <2>1, <2>2, <2>3, OtherLineGrants
<1>4. CASE Timeout \/ GiveUp \/ VendEnds \/ (\E p \in Presses : Press(p)) \/ UNCHANGED vars
  BY <1>1, <1>4 DEF Timeout, GiveUp, VendEnds, Press, vars, server, board
<1> QED
  BY <1>2, <1>3, <1>4, ReplyGrants, BoardGrants DEF Next

(* However late the answers come, and whichever press the machine takes them *)
(* for, it never begins more vends than sodad has granted.                   *)
THEOREM VendsGranted == Spec => []VendsAreGranted
<1>1. Init => GrantInv
  <2> SUFFICES ASSUME Init PROVE GrantInv
    OBVIOUS
  <2>1. granted = {} /\ started = {} /\ Spent = {}
    BY DEF Init, Spent
  <2>2. Len(toMachine) = 1 /\ toMachine[1] = Line("command", Script[1])
    BY DEF Init
  <2>3. GrantsOnce
    BY <2>2, LineFacts DEF GrantsOnce
  <2> QED
    BY <2>1, <2>3, FS_EmptySet DEF GrantInv
<1>2. GrantInv => VendsAreGranted
  <2> SUFFICES ASSUME GrantInv PROVE Cardinality(started) <= Cardinality(granted)
    BY DEF VendsAreGranted
  <2>1. IsFiniteSet(granted) /\ Spent \in SUBSET granted
    BY DEF GrantInv, Spent
  <2>2. Cardinality(Spent) <= Cardinality(granted) /\ IsFiniteSet(Spent)
    BY <2>1, FS_Subset
  <2> QED
    BY <2>1, <2>2, FS_CardinalityType DEF GrantInv
<1> QED
  BY <1>1, <1>2, AskedInit, AskedStep, GrantStep, PTL DEF Spec

-----------------------------------------------------------------------------
(* Where the result of a vend is: once on the line or once with sodad, never *)
(* both, and only when the press has had its turn.                           *)
Result(l, p) == l.kind \in {"ok", "fail"} /\ l.of = p
InTransit(p) == \E i \in 1 .. Len(toServer) : Result(toServer[i], p)
Told(p) == \E i \in 1 .. Len(reports) : reports[i].of = p
Missed(p) == \E k \in {"ok", "fail"} : Line(k, p) \in lost
Vending(p) == machine = "vending" /\ turn = p

Placed(p) ==
  /\ \A i, j \in 1 .. Len(toServer) :
       Result(toServer[i], p) /\ Result(toServer[j], p) => i = j
  /\ \A i, j \in 1 .. Len(reports) : reports[i].of = p /\ reports[j].of = p => i = j
  /\ ~ (InTransit(p) /\ Told(p))
  /\ InTransit(p) \/ Told(p) => turn # p /\ soda[p] # Nothing
  /\ p \in started => Vending(p) \/ InTransit(p) \/ Told(p) \/ Missed(p)

ResultInv == \A p \in Presses : Placed(p)

(* A step that brings no result of p, and gives p a turn only if it is new.  *)
LEMMA GrownPlaced ==
  ASSUME AskedInv, NEW p \in Presses, Placed(p), NEW new, Grown(new),
         \A l \in new : ~ Result(l, p), UNCHANGED <<reports, lost>>,
         soda[p] # Nothing => soda'[p] # Nothing,
         turn' = p => turn = p \/ soda[p] = Nothing,
         Vending(p) => Vending(p)',
         p \in started' => p \in started \/ Vending(p)'
  PROVE  Placed(p)'
<1>1. \A i \in 1 .. Len(toServer') : Result(toServer'[i], p) =>
        i \in 1 .. Len(toServer) /\ Result(toServer[i], p)
  <2> SUFFICES ASSUME NEW i \in 1 .. Len(toServer'), Result(toServer'[i], p)
               PROVE  i \in 1 .. Len(toServer) /\ Result(toServer[i], p)
    OBVIOUS
  <2>1. i \notin (Len(toServer) + 1) .. Len(toServer')
    BY DEF Grown
  <2> QED
    BY <2>1 DEF Grown
<1>2. InTransit(p)' => InTransit(p)
  BY <1>1 DEF InTransit, Result
<1>3. InTransit(p) => InTransit(p)'
  <2>1. \A i \in 1 .. Len(toServer) : i \in 1 .. Len(toServer') /\ toServer'[i] = toServer[i]
    BY DEF Grown
  <2> QED
    BY <2>1 DEF InTransit, Result
<1>4. (Told(p)' <=> Told(p)) /\ (Missed(p)' <=> Missed(p))
  BY DEF Told, Missed
<1>5. \A i, j \in 1 .. Len(toServer') :
        Result(toServer'[i], p) /\ Result(toServer'[j], p) => i = j
  BY <1>1 DEF Placed
<1>6. \A i, j \in 1 .. Len(reports') : reports'[i].of = p /\ reports'[j].of = p => i = j
  BY DEF Placed
<1>7. /\ ~ (InTransit(p)' /\ Told(p)')
      /\ InTransit(p)' \/ Told(p)' => turn' # p /\ soda'[p] # Nothing
      /\ p \in started' => Vending(p)' \/ InTransit(p)' \/ Told(p)' \/ Missed(p)'
  BY <1>2, <1>3, <1>4 DEF Placed
<1> QED
  BY <1>5, <1>6, <1>7 DEF Placed, Result

LEMMA VendEndsPlaced ==
  ASSUME AskedInv, NEW p \in Presses, Placed(p), VendEnds
  PROVE  Placed(p)'
<1>1. PICK k \in {"ok", "fail"} : toServer' = Append(toServer, Line(k, turn))
  BY DEF VendEnds
<1> DEFINE l == Line(k, turn)
<1>2. turn \in Presses /\ turn # Nothing /\ p # Nothing /\ soda[turn] # Nothing
  BY NothingAssumption DEF VendEnds, AskedInv, TypeOK, KnownPresses
<1>3. l \in ToServerLines /\ l.kind = k /\ l.of = turn
  BY <1>2, LineFacts
<1>4. /\ Grown({l}) /\ Len(toServer') = Len(toServer) + 1
      /\ toServer'[Len(toServer) + 1] = l
  BY <1>1, <1>3, AppendGrows DEF AskedInv, TypeOK
<1>5. /\ machine = "vending" /\ machine' = "idle" /\ turn' = Nothing
      /\ UNCHANGED <<reports, lost, soda, started>>
  BY DEF VendEnds, server
<1>6. CASE turn # p
  <2>1. ~ Result(l, p)
    BY <1>3, <1>6 DEF Result
  <2>2. ~ Vending(p)
    BY <1>6 DEF Vending
  <2> QED
    BY <1>2, <1>4, <1>5, <2>1, <2>2, GrownPlaced
<1>7. CASE turn = p
  <2>1. ~ InTransit(p) /\ ~ Told(p)
    BY <1>7 DEF Placed
  <2>2. \A i \in 1 .. Len(toServer') : Result(toServer'[i], p) => i = Len(toServer) + 1
    <3> SUFFICES ASSUME NEW i \in 1 .. Len(toServer'), i # Len(toServer) + 1
                 PROVE  ~ Result(toServer'[i], p)
      OBVIOUS
    <3>1. i \in 1 .. Len(toServer) /\ toServer'[i] = toServer[i]
      BY <1>4 DEF Grown
    <3> QED
      BY <2>1, <3>1 DEF InTransit
  <2>3. InTransit(p)'
    <3>1. Len(toServer) + 1 \in 1 .. Len(toServer')
      BY <1>4 DEF Grown
    <3>2. Result(toServer'[Len(toServer) + 1], p)
      BY <1>3, <1>4, <1>7 DEF Result
    <3> QED
      BY <3>1, <3>2 DEF InTransit, Result
  <2>4. ~ Told(p)'
    BY <1>5, <2>1 DEF Told
  <2>5. \A i, j \in 1 .. Len(reports') : reports'[i].of = p /\ reports'[j].of = p => i = j
    BY <1>5 DEF Placed
  <2> QED
    BY <1>2, <1>5, <1>7, <2>2, <2>3, <2>4, <2>5 DEF Placed, Result
<1> QED
  BY <1>6, <1>7

LEMMA DataPlaced ==
  ASSUME AskedInv, NEW p \in Presses, Placed(p), NEW n \in 1 .. MaxChunk, Data(n)
  PROVE  Placed(p)'
<1> DEFINE l == toServer[n]
<1>1. /\ Taken(n) /\ UNCHANGED <<soda, machine, turn, started>>
      /\ \/ l \in lost' /\ reports' = reports
         \/ Handle(l)
  <2>1. AskedInv => TypeOK
    BY DEF AskedInv
  <2> QED
    BY <2>1, DataTakes DEF board, Answer
<1>2. /\ n \in 1 .. Len(toServer) /\ l \in ToServerLines /\ n \in Int
      /\ \A i \in 1 .. Len(toServer') :
           i + n \in 1 .. Len(toServer) /\ i + n # n /\ toServer'[i] = toServer[i + n]
  BY <1>1 DEF Taken
<1>3. /\ \A i, j \in 1 .. Len(toServer) :
           Result(toServer[i], p) /\ Result(toServer[j], p) => i = j
      /\ \A i, j \in 1 .. Len(reports) : reports[i].of = p /\ reports[j].of = p => i = j
      /\ ~ (InTransit(p) /\ Told(p))
      /\ InTransit(p) \/ Told(p) => turn # p /\ soda[p] # Nothing
      /\ p \in started => Vending(p) \/ InTransit(p) \/ Told(p) \/ Missed(p)
  BY DEF Placed
<1>4. \A i, j \in 1 .. Len(toServer') :
        Result(toServer'[i], p) /\ Result(toServer'[j], p) => i = j
  <2> SUFFICES ASSUME NEW i \in 1 .. Len(toServer'), NEW j \in 1 .. Len(toServer'),
                      Result(toServer'[i], p), Result(toServer'[j], p)
               PROVE  i = j
    OBVIOUS
  <2>1. i + n = j + n
    BY <1>2, <1>3
  <2> QED
    BY <1>2, <2>1
<1>5. InTransit(p)' => InTransit(p)
  BY <1>2 DEF InTransit, Result
<1>6. Missed(p) => Missed(p)'
  BY <1>1 DEF Missed, Taken
<1>7. Vending(p)' <=> Vending(p)
  BY <1>1 DEF Vending
<1>8. \A i \in 1 .. Len(toServer) : Result(toServer[i], p) /\ toServer[i] \in lost' => Missed(p)'
  <2> SUFFICES ASSUME NEW i \in 1 .. Len(toServer), Result(toServer[i], p), toServer[i] \in lost'
               PROVE  Missed(p)'
    OBVIOUS
  <2>1. toServer[i] \in ToServerLines
    BY <1>1 DEF Taken
  <2>2. toServer[i] = Line(toServer[i].kind, p)
    BY <2>1, ServerLineFacts DEF Result
  <2> QED
    BY <2>2 DEF Missed, Result
<1>9. CASE Result(l, p) /\ Handle(l)
  <2>1. InTransit(p) /\ ~ Told(p)
    BY <1>2, <1>3, <1>9 DEF InTransit
  <2>2. ~ InTransit(p)'
    <3> SUFFICES ASSUME NEW i \in 1 .. Len(toServer'), Result(toServer'[i], p)
                 PROVE  FALSE
      BY DEF InTransit, Result
    <3>1. i + n = n
      BY <1>2, <1>3, <1>9
    <3> QED
      BY <1>2, <3>1
  <2>3. \E r : reports' = Append(reports, r) /\ r.of = p /\ r \in Reports
    <3> DEFINE r == [of |-> l.of, success |-> l.kind = "ok", soda |-> currentVend]
    <3>1. reports' = Append(reports, r) /\ r.of = p
      BY <1>9 DEF Handle, Result
    <3>2. r \in Reports
      BY <1>9 DEF Reports, AskedInv, TypeOK, Result
    <3> QED
      BY <3>1, <3>2
  <2>4. /\ Len(reports) \in Nat /\ Len(reports') = Len(reports) + 1
        /\ \A i \in 1 .. Len(reports) : reports'[i] = reports[i]
        /\ reports'[Len(reports) + 1].of = p
    BY <2>3, AppendProperties, LenProperties DEF AskedInv, TypeOK
  <2>5. \A i \in 1 .. Len(reports') : reports'[i].of = p => i = Len(reports) + 1
    <3> SUFFICES ASSUME NEW i \in 1 .. Len(reports'), i # Len(reports) + 1
                 PROVE  reports'[i].of # p
      OBVIOUS
    <3>1. i \in 1 .. Len(reports) /\ reports'[i] = reports[i]
      BY <2>4
    <3> QED
      BY <2>1, <3>1 DEF Told
  <2>6. Told(p)'
    BY <2>4 DEF Told
  <2> QED
    BY <1>1, <1>3, <1>4, <2>1, <2>2, <2>5, <2>6 DEF Placed, Result
<1>10. CASE ~ (Result(l, p) /\ Handle(l))
  <2>1. \A i \in 1 .. Len(reports') : reports'[i].of = p =>
           i \in 1 .. Len(reports) /\ reports[i].of = p
    <3>1. CASE reports' = reports
      BY <3>1
    <3>2. CASE reports' # reports
      <4> DEFINE r == [of |-> l.of, success |-> l.kind = "ok", soda |-> currentVend]
      <4>1. Handle(l) /\ l.kind \in {"ok", "fail"} /\ reports' = Append(reports, r)
        BY <1>1, <3>2 DEF Handle
      <4>2. r \in Reports /\ r.of # p
        <5>1. l.of \in Presses
          BY <1>2, <4>1, ServerLineFacts
        <5> QED
          BY <1>10, <4>1, <5>1 DEF Reports, AskedInv, TypeOK, Result
      <4>3. /\ Len(reports) \in Nat /\ Len(reports') = Len(reports) + 1
            /\ \A i \in 1 .. Len(reports) : reports'[i] = reports[i]
            /\ reports'[Len(reports) + 1].of # p
        BY <4>1, <4>2, AppendProperties, LenProperties DEF AskedInv, TypeOK
      <4> QED
        BY <4>3
    <3> QED
      BY <3>1, <3>2
  <2>2. Told(p) => Told(p)'
    <3>1. CASE reports' = reports
      BY <3>1 DEF Told
    <3>2. CASE reports' # reports
      <4> DEFINE r == [of |-> l.of, success |-> l.kind = "ok", soda |-> currentVend]
      <4>1. Handle(l) /\ l.kind \in {"ok", "fail"} /\ reports' = Append(reports, r)
        BY <1>1, <3>2 DEF Handle
      <4>2. r \in Reports
        <5>1. l.of \in Presses
          BY <1>2, <4>1, ServerLineFacts
        <5> QED
          BY <5>1 DEF Reports, AskedInv, TypeOK
      <4>3. /\ Len(reports) \in Nat /\ Len(reports') = Len(reports) + 1
            /\ \A i \in 1 .. Len(reports) : reports'[i] = reports[i]
        BY <4>1, <4>2, AppendProperties, LenProperties DEF AskedInv, TypeOK
      <4> QED
        BY <4>3 DEF Told
    <3> QED
      BY <3>1, <3>2
  <2>3. Told(p)' => Told(p)
    BY <2>1 DEF Told
  <2>4. InTransit(p) => InTransit(p)' \/ Missed(p)'
    <3> SUFFICES ASSUME NEW i \in 1 .. Len(toServer), Result(toServer[i], p)
                 PROVE  InTransit(p)' \/ Missed(p)'
      BY DEF InTransit
    <3>1. CASE i < n
      <4>1. i \in 1 .. n - 1
        BY <1>2, <3>1
      <4> QED
        BY <1>1, <1>8, <4>1 DEF Taken
    <3>2. CASE i = n
      BY <1>1, <1>8, <1>10, <3>2
    <3>3. CASE i > n
      <4>1. i - n \in 1 .. Len(toServer') /\ (i - n) + n = i
        BY <1>1, <3>3 DEF Taken
      <4>2. toServer'[i - n] = toServer[i]
        BY <1>2, <4>1
      <4> QED
        BY <4>1, <4>2 DEF InTransit, Result
    <3> QED
      BY <1>2, <3>1, <3>2, <3>3
  <2>5. \A i, j \in 1 .. Len(reports') : reports'[i].of = p /\ reports'[j].of = p => i = j
    BY <1>3, <2>1
  <2>6. p \in started' => Vending(p)' \/ InTransit(p)' \/ Told(p)' \/ Missed(p)'
    BY <1>1, <1>3, <1>6, <1>7, <2>2, <2>4
  <2> QED
    BY <1>1, <1>3, <1>4, <1>5, <2>2, <2>3, <2>5, <2>6 DEF Placed, Result
<1> QED
  BY <1>9, <1>10

(* What the steps other than 'data' and the end of a vend do to a press.     *)
LEMMA OtherStepGrows ==
  ASSUME AskedInv, NEW p \in Presses,
         \/ \E c \in Requests : Command(c)
         \/ \E q \in Presses : VdbauthReply(q)
         \/ Timeout \/ GiveUp \/ Board \/ UNCHANGED vars
  PROVE  /\ \E new : Grown(new) /\ \A l \in new : l.kind = "reply"
         /\ UNCHANGED <<reports, lost, currentVend, soda>>
         /\ turn' \in {turn, Nothing}
         /\ Vending(p) => Vending(p)'
         /\ p \in started' => p \in started \/ Vending(p)'
<1>0. TypeOK /\ toServer \in Seq(ToServerLines)
  BY DEF AskedInv, TypeOK
<1>1. CASE \/ \E c \in Requests : Command(c)
           \/ \E q \in Presses : VdbauthReply(q)
           \/ Timeout \/ UNCHANGED vars
  <2>1. UNCHANGED <<toServer, reports, lost, soda, machine, turn, started>>
    BY <1>1 DEF Command, VdbauthReply, Timeout, vars, server, board
  <2>2. UNCHANGED currentVend
    BY <1>1 DEF Command, VdbauthReply, Timeout, vars, server
  <2>3. Grown({})
    BY <1>0, <2>1, SameGrows
  <2> QED
    BY <2>1, <2>2, <2>3 DEF Vending
<1>2. CASE GiveUp
  <2>1. /\ UNCHANGED <<toServer, reports, lost, currentVend, soda, started>>
        /\ machine = "asking" /\ turn' = Nothing
    BY <1>2 DEF GiveUp, server
  <2>2. Grown({})
    BY <1>0, <2>1, SameGrows
  <2> QED
    BY <2>1, <2>2 DEF Vending
<1>3. CASE Board
  <2> DEFINE l == Head(toMachine)
  <2>1. l \in ToMachineLines /\ UNCHANGED <<reports, lost, currentVend, soda>>
    BY <1>0, <1>3, BoardReads DEF server
  <2>2. CASE l.kind = "command"
    <3>1. l.of \in Commands
      BY <2>1, <2>2, MachineLineFacts
    <3>2. /\ toServer' = toServer \o IF l.of = Script[1] THEN <<Line("reply", l.of), Line("reply", l.of)>>
                                                         ELSE <<Line("reply", l.of)>>
          /\ UNCHANGED <<machine, turn, started>>
      BY <1>3, <2>2 DEF Board
    <3>3. Grown({Line("reply", l.of)}) /\ Line("reply", l.of).kind = "reply"
      BY <1>0, <3>1, <3>2, RepliesGrow, LineFacts
    <3> QED
      BY <2>1, <3>2, <3>3 DEF Vending
  <2>3. CASE l.kind # "command"
    <3>1. /\ toServer' = toServer
          /\ \/ UNCHANGED <<machine, turn, started>>
             \/ machine = "asking" /\ machine' = "vending" /\ started' = started \cup {turn}
                /\ UNCHANGED turn
             \/ machine = "asking" /\ turn' = Nothing /\ UNCHANGED started
      BY <1>3, <2>3 DEF Board
    <3>2. Grown({})
      BY <1>0, <3>1, SameGrows
    <3> QED
      BY <2>1, <3>1, <3>2 DEF Vending
  <2> QED
    BY <2>2, <2>3
<1> QED
  BY <1>1, <1>2, <1>3

(* What a press does: its request is put on the line.                        *)
LEMMA PressGrows ==
  ASSUME AskedInv, NEW p \in Presses, Press(p)
  PROVE  /\ Line("request", p) \in ToServerLines
         /\ Line("request", p).kind = "request" /\ Line("request", p).of = p
         /\ Grown({Line("request", p)}) /\ Len(toServer') = Len(toServer) + 1
         /\ toServer'[Len(toServer) + 1] = Line("request", p)
         /\ UNCHANGED <<reports, lost, currentVend, started>>
         /\ machine = "idle" /\ turn' = p /\ soda[p] = Nothing
         /\ \A q \in Presses : q # p => soda'[q] = soda[q]
<1>1. /\ Line("request", p) \in ToServerLines
      /\ Line("request", p).kind = "request" /\ Line("request", p).of = p
  BY LineFacts
<1>2. /\ Grown({Line("request", p)}) /\ Len(toServer') = Len(toServer) + 1
      /\ toServer'[Len(toServer) + 1] = Line("request", p)
  BY <1>1, AppendGrows DEF Press, AskedInv, TypeOK
<1> QED
  BY <1>1, <1>2 DEF Press, server, AskedInv, TypeOK

LEMMA ResultStep ==
  ASSUME AskedInv, ResultInv, [Next]_vars
  PROVE  ResultInv'
<1> SUFFICES ASSUME NEW p \in Presses, Placed(p) PROVE Placed(p)'
  BY DEF ResultInv
<1>1. CASE \/ \E c \in Requests : Command(c)
           \/ \E q \in Presses : VdbauthReply(q)
           \/ Timeout \/ GiveUp \/ Board \/ UNCHANGED vars
  <2>1. PICK new : Grown(new) /\ \A l \in new : l.kind = "reply"
    BY <1>1, OtherStepGrows
  <2>2. \A l \in new : ~ Result(l, p)
    BY <2>1 DEF Result
  <2>3. /\ UNCHANGED <<reports, lost, soda>> /\ turn' \in {turn, Nothing}
        /\ Vending(p) => Vending(p)'
        /\ p \in started' => p \in started \/ Vending(p)'
    BY <1>1, OtherStepGrows
  <2>4. p # Nothing
    BY NothingAssumption
  <2> QED
    BY <2>1, <2>2, <2>3, <2>4, GrownPlaced
<1>2. ASSUME NEW q \in Presses, Press(q)
      PROVE  Placed(p)'
  <2>1. \A l \in {Line("request", q)} : ~ Result(l, p)
    BY <1>2, PressGrows DEF Result
  <2>2. /\ Grown({Line("request", q)}) /\ UNCHANGED <<reports, lost, started>>
        /\ soda[p] # Nothing => soda'[p] # Nothing
        /\ turn' = p => soda[p] = Nothing
        /\ ~ Vending(p)
    BY <1>2, PressGrows DEF Vending
  <2> QED
    BY <2>1, <2>2, GrownPlaced
<1> QED
  BY <1>1, <1>2, DataPlaced, VendEndsPlaced DEF Next

(* Whatever the machine did with a vend that it began reaches sodad exactly  *)
(* once, unless its line was skipped or taken for the result of a command.   *)
THEOREM ResultsReachSodadOnce == Spec => []ResultsReachSodad
<1>1. Init => ResultInv
  BY EmptySeq DEF Init, ResultInv, Placed, InTransit, Told
<1>2. AskedInv /\ ResultInv => ResultsReachSodad
  <2> SUFFICES ASSUME AskedInv, NEW p \in started, Placed(p), ~ Vending(p),
                      \A k \in {"ok", "fail"} : Line(k, p) \notin ToSet(toServer) \cup lost
               PROVE  \E i \in DOMAIN reports : \A j \in DOMAIN reports : reports[j].of = p <=> j = i
    BY DEF ResultInv, ResultsReachSodad, AskedInv, TypeOK, Vending
  <2>1. /\ DOMAIN reports = 1 .. Len(reports)
        /\ \A i \in 1 .. Len(toServer) : toServer[i] \in ToServerLines /\ toServer[i] \in ToSet(toServer)
    BY LenProperties, ElementOfSeq DEF AskedInv, TypeOK, ToSet
  <2>2. ~ InTransit(p)
    <3> SUFFICES ASSUME NEW i \in 1 .. Len(toServer), Result(toServer[i], p) PROVE FALSE
      BY DEF InTransit
    <3>1. toServer[i] = Line(toServer[i].kind, p)
      BY <2>1, ServerLineFacts DEF Result
    <3> QED
      BY <2>1, <3>1 DEF Result
  <2>3. Told(p)
    BY <2>2 DEF Placed, Missed
  <2> QED
    BY <2>1, <2>3 DEF Told, Placed
<1> QED
  BY <1>1, <1>2, AskedInit, AskedStep, ResultStep, PTL DEF Spec

-----------------------------------------------------------------------------
(* Which soda currentVend names when the line at i is read: the last request *)
(* before it is the one of p, on the line or already read -- or lost.        *)
Follows(i, p) ==
  \/ \E j \in 1 .. i - 1 :
       /\ toServer[j] = Line("request", p)
       /\ \A k \in j + 1 .. i - 1 : toServer[k].kind # "request"
  \/ /\ \A k \in 1 .. i - 1 : toServer[k].kind # "request"
     /\ currentVend = soda[p] \/ Line("request", p) \in lost

Named(r) == /\ r.of \in Presses /\ soda[r.of] # Nothing
            /\ r.soda = soda[r.of] \/ Line("request", r.of) \in lost

ResultsFollow ==
  \A i \in 1 .. Len(toServer) : \A p \in Presses :
    toServer[i].kind \in {"ok", "fail"} /\ toServer[i].of = p => Follows(i, p)

TurnFollows ==
  \A p \in Presses : \A m \in Nat : turn = p /\ m = Len(toServer) + 1 => Follows(m, p)

ReportsNamed == \A i \in 1 .. Len(reports) : \A r \in Reports : reports[i] = r => Named(r)

NamesInv == ResultsFollow /\ TurnFollows /\ ReportsNamed

(* Lines that are no requests do not come between.                           *)
LEMMA FollowsGrown ==
  ASSUME NEW new, Grown(new), NEW p, NEW i \in 1 .. Len(toServer) + 1, Follows(i, p),
         NEW m \in i .. Len(toServer') + 1, \A k \in i .. m - 1 : toServer'[k].kind # "request",
         UNCHANGED <<currentVend, lost>>, soda'[p] = soda[p]
  PROVE  Follows(m, p)'
<1>1. /\ Len(toServer) \in Nat /\ Len(toServer') \in Nat /\ m \in Int /\ i \in Int /\ i <= m
      /\ \A k \in 1 .. i - 1 : toServer'[k] = toServer[k]
  BY DEF Grown
<1>2. CASE \E j \in 1 .. i - 1 :
             /\ toServer[j] = Line("request", p)
             /\ \A k \in j + 1 .. i - 1 : toServer[k].kind # "request"
  <2> PICK j \in 1 .. i - 1 :
        /\ toServer[j] = Line("request", p)
        /\ \A k \in j + 1 .. i - 1 : toServer[k].kind # "request"
    BY <1>2
  <2>1. j \in 1 .. m - 1 /\ toServer'[j] = Line("request", p)
    BY <1>1
  <2>2. ASSUME NEW k \in j + 1 .. m - 1
        PROVE  toServer'[k].kind # "request"
    <3>1. k \in j + 1 .. i - 1 \/ k \in i .. m - 1
      BY <1>1
    <3> QED
      BY <1>1, <3>1
  <2> QED
    BY <2>1, <2>2 DEF Follows, Line
<1>3. CASE /\ \A k \in 1 .. i - 1 : toServer[k].kind # "request"
           /\ currentVend = soda[p] \/ Line("request", p) \in lost
  <2>1. ASSUME NEW k \in 1 .. m - 1
        PROVE  toServer'[k].kind # "request"
    <3>1. k \in 1 .. i - 1 \/ k \in i .. m - 1
      BY <1>1
    <3> QED
      BY <1>1, <1>3, <3>1
  <2> QED
    BY <1>3, <2>1 DEF Follows, Line
<1> QED
  BY <1>2, <1>3 DEF Follows

(* 'data' shifts the lines; what it skips it loses.                          *)
LEMMA FollowsData ==
  ASSUME TypeOK, NEW n \in 1 .. MaxChunk, Data(n), NEW p \in Presses,
         NEW i \in n + 1 .. Len(toServer) + 1, Follows(i, p)
  PROVE  Follows(i - n, p)'
<1> DEFINE l == toServer[n]
<1>1. /\ Taken(n) /\ UNCHANGED <<soda, machine, turn, started>>
      /\ \/ l \in lost' /\ UNCHANGED currentVend
         \/ Handle(l)
  BY DataTakes DEF board, Answer
<1>2. /\ n \in Int /\ i \in Int /\ n >= 1 /\ i > n /\ Len(toServer) \in Nat /\ i - 1 <= Len(toServer)
      /\ lost \subseteq lost'
  BY <1>1 DEF Taken
<1>3. \A k \in 1 .. (i - n) - 1 : k + n \in n + 1 .. i - 1 /\ toServer'[k] = toServer[k + n]
  <2> SUFFICES ASSUME NEW k \in 1 .. (i - n) - 1
               PROVE  k + n \in n + 1 .. i - 1 /\ toServer'[k] = toServer[k + n]
    OBVIOUS
  <2>1. k \in 1 .. Len(toServer')
    BY <1>1, <1>2 DEF Taken
  <2> QED
    BY <1>1, <1>2, <2>1 DEF Taken
<1>4. CASE \E j \in 1 .. i - 1 :
             /\ toServer[j] = Line("request", p)
             /\ \A k \in j + 1 .. i - 1 : toServer[k].kind # "request"
  <2> PICK j \in 1 .. i - 1 :
        /\ toServer[j] = Line("request", p)
        /\ \A k \in j + 1 .. i - 1 : toServer[k].kind # "request"
    BY <1>4
  <2>1. CASE j > n
    <3>1. j - n \in 1 .. (i - n) - 1 /\ (j - n) + n = j
      BY <1>2, <2>1
    <3>2. toServer'[j - n] = Line("request", p)
      BY <1>3, <3>1
    <3>3. \A k \in (j - n) + 1 .. (i - n) - 1 : toServer'[k].kind # "request"
      <4> SUFFICES ASSUME NEW k \in (j - n) + 1 .. (i - n) - 1
                   PROVE  toServer'[k].kind # "request"
        OBVIOUS
      <4>1. k \in 1 .. (i - n) - 1 /\ k + n \in j + 1 .. i - 1
        BY <1>2, <2>1
      <4> QED
        BY <1>3, <4>1
    <3> QED
      BY <3>1, <3>2, <3>3 DEF Follows, Line
  <2>2. CASE j <= n
    <3>1. \A k \in 1 .. (i - n) - 1 : toServer'[k].kind # "request"
      <4> SUFFICES ASSUME NEW k \in 1 .. (i - n) - 1
                   PROVE  toServer'[k].kind # "request"
        OBVIOUS
      <4>1. k + n \in j + 1 .. i - 1
        BY <1>2, <2>2
      <4> QED
        BY <1>3, <4>1
    <3>2. currentVend' = soda'[p] \/ Line("request", p) \in lost'
      <4>1. CASE j < n
        <5>1. j \in 1 .. n - 1
          BY <1>2, <4>1
        <5> QED
          BY <1>1, <5>1 DEF Taken
      <4>2. CASE j = n
        <5>1. l.kind = "request" /\ l.of = p /\ l = Line("request", p)
          BY <4>2, LineFacts
        <5> QED
          BY <1>1, <5>1 DEF Handle
      <4> QED
        BY <1>2, <2>2, <4>1, <4>2
    <3> QED
      BY <3>1, <3>2 DEF Follows, Line
  <2> QED
    BY <1>2, <2>1, <2>2
<1>5. CASE /\ \A k \in 1 .. i - 1 : toServer[k].kind # "request"
           /\ currentVend = soda[p] \/ Line("request", p) \in lost
  <2>1. n \in 1 .. i - 1
    BY <1>2
  <2>2. currentVend' = currentVend
    BY <1>1, <1>5, <2>1 DEF Handle
  <2>3. ASSUME NEW k \in 1 .. (i - n) - 1
        PROVE  toServer'[k].kind # "request"
    <3>1. k + n \in 1 .. i - 1
      BY <1>2
    <3> QED
      BY <1>3, <1>5, <3>1
  <2> QED
    BY <1>1, <1>2, <1>5, <2>2, <2>3 DEF Follows, Line
<1> QED
  BY <1>4, <1>5 DEF Follows

(* The report that 'data' may make names what the machine vended.            *)
LEMMA DataReportsNamed ==
  ASSUME AskedInv, NamesInv, NEW n \in 1 .. MaxChunk, Data(n)
  PROVE  ReportsNamed'
<1> DEFINE l == toServer[n]
           q == [of |-> l.of, success |-> l.kind = "ok", soda |-> currentVend]
<1>1. /\ Taken(n) /\ UNCHANGED <<soda, turn>>
      /\ UNCHANGED reports \/ Handle(l)
  BY DataTakes DEF AskedInv, board, Answer
<1>2. /\ n \in 1 .. Len(toServer) /\ l \in ToServerLines /\ lost \subseteq lost'
  BY <1>1 DEF Taken
<1>3. \A r : Named(r) => Named(r)'
  BY <1>1, <1>2 DEF Named, Line
<1>4. CASE UNCHANGED reports
  BY <1>3, <1>4 DEF NamesInv, ReportsNamed
<1>5. CASE reports' # reports
  <2>1. Handle(l) /\ l.kind \in {"ok", "fail"} /\ reports' = Append(reports, q)
    BY <1>1, <1>5 DEF Handle
  <2>2. l.of \in Presses /\ soda[l.of] # Nothing /\ Follows(n, l.of)
    BY <1>2, <2>1, ServerLineFacts DEF AskedInv, KnownPresses, NamesInv, ResultsFollow
  <2>3. q \in Reports /\ q.of = l.of /\ q.soda = currentVend
    BY <2>2 DEF Reports, AskedInv, TypeOK
  <2>4. currentVend = soda[l.of] \/ Line("request", l.of) \in lost'
    <3>1. CASE \E j \in 1 .. n - 1 : toServer[j] = Line("request", l.of)
      BY <1>1, <3>1 DEF Taken
    <3> QED
      BY <1>2, <2>2, <3>1 DEF Follows
  <2>5. /\ Len(reports) \in Nat /\ Len(reports') = Len(reports) + 1
        /\ \A k \in 1 .. Len(reports) : reports'[k] = reports[k]
        /\ reports'[Len(reports) + 1] = q
    BY <2>1, <2>3, AppendProperties, LenProperties DEF AskedInv, TypeOK
  <2> HIDE DEF q
  <2> SUFFICES ASSUME NEW i \in 1 .. Len(reports'), NEW r \in Reports, reports'[i] = r
               PROVE  Named(r)'
    BY DEF ReportsNamed
  <2>6. CASE i = Len(reports) + 1
    BY <1>1, <2>2, <2>3, <2>4, <2>5, <2>6 DEF Named, Line
  <2>7. CASE i # Len(reports) + 1
    <3>1. i \in 1 .. Len(reports) /\ reports'[i] = reports[i]
      BY <2>5, <2>7
    <3> QED
      BY <1>3, <3>1 DEF NamesInv, ReportsNamed
  <2> QED
    BY <2>6, <2>7
<1> QED
  BY <1>4, <1>5

LEMMA DataNames ==
  ASSUME AskedInv, NamesInv, NEW n \in 1 .. MaxChunk, Data(n)
  PROVE  NamesInv'
<1>0. TypeOK
  BY DEF AskedInv
<1>1. Taken(n) /\ UNCHANGED turn
  BY <1>0, DataTakes DEF board
<1>2. /\ n \in Int /\ Len(toServer) \in Nat /\ Len(toServer') = Len(toServer) - n
  BY <1>1 DEF Taken
<1>3. ResultsFollow'
  <2> SUFFICES ASSUME NEW i \in 1 .. Len(toServer'), NEW p \in Presses,
                      toServer'[i].kind \in {"ok", "fail"}, toServer'[i].of = p
               PROVE  Follows(i, p)'
    BY DEF ResultsFollow
  <2>1. /\ i + n \in n + 1 .. Len(toServer) /\ toServer'[i] = toServer[i + n]
    BY <1>1 DEF Taken
  <2>2. i + n \in 1 .. Len(toServer) /\ i + n \in n + 1 .. Len(toServer) + 1 /\ (i + n) - n = i
    BY <1>2, <2>1
  <2>3. Follows(i + n, p)
    BY <2>1, <2>2 DEF NamesInv, ResultsFollow
  <2>4. Follows((i + n) - n, p)'
    BY <1>0, <2>2, <2>3, FollowsData
  <2> QED
    BY <2>2, <2>4
<1>4. TurnFollows'
  <2> SUFFICES ASSUME NEW p \in Presses, NEW m \in Nat, turn = p, m = Len(toServer') + 1
               PROVE  Follows(m, p)'
    BY <1>1 DEF TurnFollows
  <2>1. m + n \in Nat /\ m + n = Len(toServer) + 1 /\ (m + n) - n = m
        /\ m + n \in n + 1 .. Len(toServer) + 1
    BY <1>2
  <2>2. Follows(m + n, p)
    BY <2>1 DEF NamesInv, TurnFollows
  <2>3. Follows((m + n) - n, p)'
    BY <1>0, <2>1, <2>2, FollowsData
  <2> QED
    BY <2>1, <2>3
<1> QED
  BY <1>3, <1>4, DataReportsNamed DEF NamesInv

(* The lines of an earlier vend still follow their request when lines that   *)
(* are not of p are put behind them.                                         *)
LEMMA GrownFollows ==
  ASSUME NamesInv, NEW new, Grown(new), NEW p \in Presses, \A l \in new : ~ Result(l, p),
         UNCHANGED <<currentVend, lost>>, soda'[p] = soda[p],
         NEW i \in 1 .. Len(toServer'), toServer'[i].kind \in {"ok", "fail"}, toServer'[i].of = p
  PROVE  Follows(i, p)'
<1>1. i \in 1 .. Len(toServer) /\ toServer'[i] = toServer[i]
  <2>1. i \notin (Len(toServer) + 1) .. Len(toServer')
    BY DEF Grown, Result
  <2> QED
    BY <2>1 DEF Grown
<1>2. Follows(i, p)
  BY <1>1 DEF NamesInv, ResultsFollow
<1>3. /\ i \in 1 .. Len(toServer) + 1 /\ i \in i .. Len(toServer') + 1
      /\ \A k \in i .. i - 1 : toServer'[k].kind # "request"
  BY <1>1 DEF Grown
<1> QED
  BY <1>2, <1>3, FollowsGrown

LEMMA OtherStepNames ==
  ASSUME AskedInv, NamesInv,
         \/ \E c \in Requests : Command(c)
         \/ \E q \in Presses : VdbauthReply(q)
         \/ Timeout \/ GiveUp \/ Board \/ UNCHANGED vars
  PROVE  NamesInv'
<1>1. ASSUME NEW p \in Presses
      PROVE  /\ \E new : Grown(new) /\ \A l \in new : l.kind = "reply"
             /\ UNCHANGED <<reports, lost, currentVend, soda>>
             /\ turn' \in {turn, Nothing}
  BY OtherStepGrows
<1>2. ResultsFollow'
  <2> SUFFICES ASSUME NEW i \in 1 .. Len(toServer'), NEW p \in Presses,
                      toServer'[i].kind \in {"ok", "fail"}, toServer'[i].of = p
               PROVE  Follows(i, p)'
    BY DEF ResultsFollow
  <2> PICK new : Grown(new) /\ \A l \in new : l.kind = "reply"
    BY <1>1
  <2>1. \A l \in new : ~ Result(l, p)
    BY DEF Result
  <2> QED
    BY <1>1, <2>1, GrownFollows
<1>3. TurnFollows'
  <2> SUFFICES ASSUME NEW p \in Presses, NEW m \in Nat, turn' = p, m = Len(toServer') + 1
               PROVE  Follows(m, p)'
    BY DEF TurnFollows
  <2> PICK new : Grown(new) /\ \A l \in new : l.kind = "reply"
    BY <1>1
  <2> DEFINE i == Len(toServer) + 1
  <2>1. turn = p /\ UNCHANGED <<lost, currentVend, soda>>
    BY <1>1, NothingAssumption
  <2>2. i \in Nat /\ i \in 1 .. i /\ m \in i .. Len(toServer') + 1
        /\ \A k \in i .. m - 1 : toServer'[k].kind # "request"
    BY DEF Grown
  <2>3. Follows(i, p)
    BY <2>1, <2>2 DEF NamesInv, TurnFollows
  <2> QED
    BY <2>1, <2>2, <2>3, FollowsGrown
<1>4. ReportsNamed'
  <2> SUFFICES ASSUME NEW i \in 1 .. Len(reports'), NEW r \in Reports, reports'[i] = r
               PROVE  Named(r)'
    BY DEF ReportsNamed
  <2>1. r.of \in Presses
    BY DEF Reports
  <2>2. UNCHANGED <<reports, lost, soda>>
    BY <1>1, <2>1
  <2> QED
    BY <2>2 DEF NamesInv, ReportsNamed, Named, Line
<1> QED
  BY <1>2, <1>3, <1>4 DEF NamesInv

LEMMA PressNames ==
  ASSUME AskedInv, NamesInv, NEW q \in Presses, Press(q)
  PROVE  NamesInv'
<1> DEFINE l == Line("request", q)
<1>1. /\ l \in ToServerLines /\ l.kind = "request" /\ l.of = q
      /\ Grown({l}) /\ Len(toServer') = Len(toServer) + 1
      /\ toServer'[Len(toServer) + 1] = l
      /\ UNCHANGED <<reports, lost, currentVend>>
      /\ turn' = q /\ soda[q] = Nothing
      /\ \A p \in Presses : p # q => soda'[p] = soda[p]
  BY PressGrows
<1>2. ResultsFollow'
  <2> SUFFICES ASSUME NEW i \in 1 .. Len(toServer'), NEW p \in Presses,
                      toServer'[i].kind \in {"ok", "fail"}, toServer'[i].of = p
               PROVE  Follows(i, p)'
    BY DEF ResultsFollow
  <2>1. \A m \in {l} : ~ Result(m, p)
    BY <1>1 DEF Result
  <2>2. i \in 1 .. Len(toServer) /\ toServer'[i] = toServer[i]
    BY <1>1 DEF Grown
  <2>3. soda[p] # Nothing
    BY <2>2 DEF AskedInv, KnownPresses
  <2> QED
    BY <1>1, <2>1, <2>3, GrownFollows
<1>3. TurnFollows'
  <2> SUFFICES ASSUME NEW m \in Nat, m = Len(toServer') + 1
               PROVE  Follows(m, q)'
    BY <1>1 DEF TurnFollows
  <2> DEFINE j == Len(toServer) + 1
  <2>1. j \in 1 .. m - 1 /\ \A k \in j + 1 .. m - 1 : toServer'[k].kind # "request"
    BY <1>1 DEF Grown
  <2> QED
    BY <1>1, <2>1 DEF Follows, Line
<1>4. ReportsNamed'
  <2> SUFFICES ASSUME NEW i \in 1 .. Len(reports'), NEW r \in Reports, reports'[i] = r
               PROVE  Named(r)'
    BY DEF ReportsNamed
  <2>1. Named(r)
    BY <1>1 DEF NamesInv, ReportsNamed
  <2> QED
    BY <1>1, <2>1 DEF Named, Line
<1> QED
  BY <1>2, <1>3, <1>4 DEF NamesInv

LEMMA VendEndsNames ==
  ASSUME AskedInv, NamesInv, VendEnds
  PROVE  NamesInv'
<1>1. PICK k \in {"ok", "fail"} : toServer' = Append(toServer, Line(k, turn))
  BY DEF VendEnds
<1> DEFINE l == Line(k, turn)
<1>2. turn \in Presses
  BY DEF VendEnds, AskedInv, TypeOK
<1>3. l \in ToServerLines /\ l.kind = k /\ l.of = turn
  BY <1>2, LineFacts
<1>4. /\ Grown({l}) /\ Len(toServer') = Len(toServer) + 1
      /\ toServer'[Len(toServer) + 1] = l
  BY <1>1, <1>3, AppendGrows DEF AskedInv, TypeOK
<1>5. turn' = Nothing /\ UNCHANGED <<reports, lost, currentVend, soda>>
  BY DEF VendEnds, server
<1> HIDE DEF l
<1>6. ResultsFollow'
  <2> SUFFICES ASSUME NEW i \in 1 .. Len(toServer'), NEW p \in Presses,
                      toServer'[i].kind \in {"ok", "fail"}, toServer'[i].of = p
               PROVE  Follows(i, p)'
    BY DEF ResultsFollow
  <2>0. /\ Len(toServer) \in Nat
        /\ \A m \in 1 .. Len(toServer) : toServer'[m] = toServer[m]
    BY <1>4 DEF Grown
  <2>1. CASE i = Len(toServer) + 1
    <3>1. turn = p /\ i \in Nat
      BY <1>3, <1>4, <2>0, <2>1
    <3>2. Follows(i, p)
      BY <2>1, <3>1 DEF NamesInv, TurnFollows
    <3>3. /\ i \in 1 .. Len(toServer) + 1 /\ i \in i .. Len(toServer') + 1
          /\ \A m \in i .. i - 1 : toServer'[m].kind # "request"
      BY <1>4, <2>0, <2>1
    <3> QED
      BY <1>4, <1>5, <3>2, <3>3, FollowsGrown
  <2>2. CASE i # Len(toServer) + 1
    <3>1. i \in 1 .. Len(toServer) /\ toServer'[i] = toServer[i]
      BY <1>4, <2>0, <2>2
    <3>2. Follows(i, p)
      BY <3>1 DEF NamesInv, ResultsFollow
    <3>3. /\ i \in 1 .. Len(toServer) + 1 /\ i \in i .. Len(toServer') + 1
          /\ \A m \in i .. i - 1 : toServer'[m].kind # "request"
      BY <1>4, <2>0, <3>1
    <3> QED
      BY <1>4, <1>5, <3>2, <3>3, FollowsGrown
  <2> QED
    BY <2>1, <2>2
<1>7. TurnFollows'
  BY <1>5, NothingAssumption DEF TurnFollows
<1>8. ReportsNamed'
  BY <1>5 DEF NamesInv, ReportsNamed, Named, Line
<1> QED
  BY <1>6, <1>7, <1>8 DEF NamesInv

(* sodad is told the soda that came out, however late the answers were,      *)
(* unless the line that requested it did not get through.                    *)
THEOREM ReportsNameDispensed == Spec => []ReportNamesDispensed
<1>1. Init => NamesInv
  BY EmptySeq, NothingAssumption
     DEF Init, NamesInv, ResultsFollow, TurnFollows, ReportsNamed
<1>2. AskedInv /\ NamesInv /\ [Next]_vars => NamesInv'
  BY DataNames, OtherStepNames, PressNames, VendEndsNames DEF Next
<1>3. AskedInv /\ NamesInv => ReportNamesDispensed
  <2> SUFFICES ASSUME AskedInv, NamesInv, NEW r \in ToSet(reports)
               PROVE  r.soda = soda[r.of] \/ Line("request", r.of) \in lost
    BY DEF ReportNamesDispensed
  <2>1. PICK i \in 1 .. Len(reports) : r = reports[i]
    BY LenProperties DEF AskedInv, TypeOK, ToSet
  <2>2. r \in Reports
    BY <2>1, ElementOfSeq DEF AskedInv, TypeOK
  <2> QED
    BY <2>1, <2>2 DEF NamesInv, ReportsNamed, Named
<1> QED
  BY <1>1, <1>2, <1>3, AskedInit, AskedStep, PTL DEF Spec

-----------------------------------------------------------------------------
(* The legacy machine.  What is in a queue, and in which order.              *)
Before(s, x, y) == \E i, j \in DOMAIN s : i < j /\ s[i] = x /\ s[j] = y

LEMMA BeforeIn == ASSUME NEW s, NEW x, NEW y, Before(s, x, y) PROVE x \in ToSet(s) /\ y \in ToSet(s)
  BY DEF Before, ToSet

LEMMA TailOf ==
  ASSUME NEW S, NEW s \in Seq(S), s # <<>>
  PROVE  /\ Tail(s) \in Seq(S) /\ Head(s) \in ToSet(s)
         /\ ToSet(Tail(s)) \subseteq ToSet(s)
         /\ \A x \in ToSet(s) : x = Head(s) \/ x \in ToSet(Tail(s))
         /\ \A x \in ToSet(Tail(s)) : Before(s, Head(s), x)
         /\ \A x, y : Before(Tail(s), x, y) => Before(s, x, y)
<1> DEFINE t == Tail(s)
           n == Len(s)
<1>1. /\ n \in Nat /\ n >= 1 /\ t \in Seq(S) /\ Head(s) = s[1] /\ \A i \in 1 .. n - 1 : t[i] = s[i + 1]
      /\ DOMAIN s = 1 .. n /\ DOMAIN t = 1 .. n - 1
  BY HeadTailProperties, LenProperties
<1> HIDE DEF t, n
<1>2. \A i \in 1 .. n - 1 : i + 1 \in 1 .. n /\ 1 < i + 1 /\ 1 \in 1 .. n
  BY <1>1
<1>3. \A i \in 1 .. n : i = 1 \/ (i - 1 \in 1 .. n - 1 /\ (i - 1) + 1 = i)
  BY <1>1
<1>4. Head(s) \in ToSet(s)
  BY <1>1 DEF ToSet
<1>5. ASSUME NEW x \in ToSet(t) PROVE x \in ToSet(s) /\ Before(s, Head(s), x)
  <2>1. PICK i \in 1 .. n - 1 : t[i] = x
    BY <1>1 DEF ToSet
  <2>2. s[i + 1] = x /\ i + 1 \in 1 .. n /\ 1 < i + 1 /\ 1 \in 1 .. n
    BY <1>1, <1>2, <2>1
  <2> QED
    BY <1>1, <2>2 DEF ToSet, Before
<1>6. ASSUME NEW x \in ToSet(s) PROVE x = Head(s) \/ x \in ToSet(t)
  <2>1. PICK i \in 1 .. n : s[i] = x
    BY <1>1 DEF ToSet
  <2>2. i = 1 \/ (i - 1 \in 1 .. n - 1 /\ t[i - 1] = x)
    BY <1>1, <1>3, <2>1
  <2> QED
    BY <1>1, <2>1, <2>2 DEF ToSet
<1>7. ASSUME NEW x, NEW y, Before(t, x, y) PROVE Before(s, x, y)
  <2>1. PICK i \in 1 .. n - 1, j \in 1 .. n - 1 : i < j /\ t[i] = x /\ t[j] = y
    BY <1>1, <1>7 DEF Before
  <2>2. s[i + 1] = x /\ s[j + 1] = y /\ i + 1 < j + 1 /\ i + 1 \in 1 .. n /\ j + 1 \in 1 .. n
    BY <1>1, <2>1
  <2> QED
    BY <1>1, <2>2 DEF Before
<1> QED
  BY <1>1, <1>4, <1>5, <1>6, <1>7 DEF t

LEMMA CatOf ==
  ASSUME NEW S, NEW s \in Seq(S), NEW T, NEW t \in Seq(T)
  PROVE  /\ s \o t \in Seq(S \cup T)
         /\ ToSet(s \o t) = ToSet(s) \cup ToSet(t)
         /\ \A x, y : Before(s \o t, x, y) => Before(s, x, y) \/ Before(t, x, y) \/ (x \in ToSet(s) /\ y \in ToSet(t))
<1> DEFINE r == s \o t
           m == Len(s)
           n == Len(t)
<1>1. s \in Seq(S \cup T) /\ t \in Seq(S \cup T)
  OBVIOUS
<1>2. /\ m \in Nat /\ n \in Nat /\ r \in Seq(S \cup T)
      /\ DOMAIN r = 1 .. m + n /\ DOMAIN s = 1 .. m /\ DOMAIN t = 1 .. n
      /\ \A i \in 1 .. m + n : r[i] = IF i <= m THEN s[i] ELSE t[i - m]
  BY <1>1, ConcatProperties, LenProperties
<1> HIDE DEF r, m, n
<1>3. \A i \in 1 .. m : i \in 1 .. m + n /\ r[i] = s[i]
  BY <1>2
<1>4. \A i \in 1 .. n : m + i \in 1 .. m + n /\ r[m + i] = t[i]
  BY <1>2
<1>5. \A i \in 1 .. m + n : i \in 1 .. m \/ (i - m \in 1 .. n /\ m + (i - m) = i)
  BY <1>2
<1>6. ToSet(r) = ToSet(s) \cup ToSet(t)
  <2>1. ASSUME NEW x \in ToSet(r) PROVE x \in ToSet(s) \cup ToSet(t)
    <3>1. PICK i \in 1 .. m + n : r[i] = x
      BY <1>2 DEF ToSet
    <3>2. CASE i \in 1 .. m
      BY <1>2, <1>3, <3>1, <3>2 DEF ToSet
    <3>3. CASE i - m \in 1 .. n /\ m + (i - m) = i
      BY <1>2, <1>4, <3>1, <3>3 DEF ToSet
    <3> QED
      BY <1>5, <3>2, <3>3
  <2>2. \A x \in ToSet(s) : x \in ToSet(r)
    BY <1>2, <1>3 DEF ToSet
  <2>3. ASSUME NEW x \in ToSet(t) PROVE x \in ToSet(r)
    <3>1. PICK i \in 1 .. n : t[i] = x
      BY <1>2 DEF ToSet
    <3>2. m + i \in 1 .. m + n /\ r[m + i] = x
      BY <1>4, <3>1
    <3> QED
      BY <1>2, <3>2 DEF ToSet
  <2> QED
    BY <2>1, <2>2, <2>3
<1>7. ASSUME NEW x, NEW y, Before(r, x, y)
      PROVE Before(s, x, y) \/ Before(t, x, y) \/ (x \in ToSet(s) /\ y \in ToSet(t))
  <2>1. PICK i \in 1 .. m + n, j \in 1 .. m + n : i < j /\ r[i] = x /\ r[j] = y
    BY <1>2, <1>7 DEF Before
  <2>2. CASE j \in 1 .. m
    <3>1. i \in 1 .. m
      BY <1>2, <2>1, <2>2
    <3> QED
      BY <1>2, <1>3, <2>1, <2>2, <3>1 DEF Before
  <2>3. CASE i \in 1 .. m /\ j - m \in 1 .. n /\ m + (j - m) = j
    BY <1>2, <1>3, <1>4, <2>1, <2>3 DEF ToSet
  <2>4. CASE i - m \in 1 .. n /\ m + (i - m) = i /\ j - m \in 1 .. n /\ m + (j - m) = j
    <3>1. i - m < j - m
      BY <1>2, <2>1
    <3> QED
      <4>1. t[i - m] = x /\ t[j - m] = y
        BY <1>4, <2>1, <2>4
      <4> QED
        BY <1>2, <2>4, <3>1, <4>1 DEF Before
  <2> QED
    BY <1>5, <2>1, <2>2, <2>3, <2>4
<1> QED
  BY <1>2, <1>6, <1>7 DEF r

LEMMA OneOf == ASSUME NEW m PROVE <<m>> \in Seq({m}) /\ ToSet(<<m>>) = {m} /\ \A x, y : ~Before(<<m>>, x, y)
<1>1. Len(<<m>>) = 1 /\ <<m>>[1] = m /\ 1 .. 1 = {1} /\ DOMAIN <<m>> = 1 .. 1
  OBVIOUS
<1> QED
  BY <1>1 DEF ToSet, Before
LEMMA NoneOf == <<>> \in Seq({}) /\ ToSet(<<>>) = {} /\ \A x, y : ~Before(<<>>, x, y)
<1>1. DOMAIN <<>> = {}
  OBVIOUS
<1> QED
  BY <1>1 DEF ToSet, Before

(* What of that which is said an application gets to read.                   *)
LEMMA ForIs ==
  ASSUME NEW S, NEW says \in Seq(S), NEW a
  PROVE  LET T == {x \in S : Reader(x[1]) = a}
         IN  \E f : IsKeptTo(f, says, T, Len(says)) /\ For(says, a) = f[Len(says)]
<1> DEFINE n == Len(says)
           T == {x \in S : Reader(x[1]) = a}
           f == CHOOSE f : IsKeptTo(f, says, T, n)
<1>1. n \in Nat /\ \A i \in 1 .. n : says[i] \in S
  OBVIOUS
<1>2. \A k \in 1 .. n : says[k] \in T <=> Reader(says[k][1]) = a
  BY <1>1
<1> HIDE DEF n, T
<1>3. IsKeptTo(f, says, T, n)
  <2>1. \E h : IsKeptTo(h, says, T, n)
    BY <1>1, KeptToExists
  <2> QED
    BY <2>1
<1>4. For(says, a) = f[n]
  <2>1. \A k \in 0 .. n : k # 0 => k \in 1 .. n
    BY <1>1
  <2>2. \A h : IsKeptTo(h, says, T, n)
               <=> h = [k \in 0 .. n |-> IF k = 0 THEN <<>>
                          ELSE IF Reader(says[k][1]) = a THEN Append(h[k - 1], says[k]) ELSE h[k - 1]]
    BY <1>2, <2>1, Zenon DEF IsKeptTo
  <2> QED
    BY <2>2, Zenon DEF For, n
<1> QED
  BY <1>3, <1>4 DEF n, T

LEMMA ForSays ==
  ASSUME NEW S, NEW says \in Seq(S), NEW a
  PROVE  /\ For(says, a) \in Seq(S)
         /\ \A x \in ToSet(For(says, a)) : x \in S /\ Reader(x[1]) = a
<1> DEFINE n == Len(says)
           T == {x \in S : Reader(x[1]) = a}
<1>1. n \in Nat /\ T \subseteq S
  OBVIOUS
<1>2. PICK f : IsKeptTo(f, says, T, n) /\ For(says, a) = f[n]
  BY ForIs
<1> HIDE DEF n, T
<1>3. f[n] \in Seq(T)
  <2> DEFINE N == {m \in Nat : m <= n => f[m] \in Seq(T)}
  <2>1. 0 \in N
    <3>1. 0 \in 0 .. n
      BY <1>1
    <3>2. f[0] = <<>>
      <4> HIDE DEF N
      <4> QED
        BY <1>1, <1>2, <3>1, KeptToAt
    <3>3. <<>> \in Seq(T)
      OBVIOUS
    <3> QED
      BY <3>2, <3>3
  <2>2. ASSUME NEW m \in N PROVE m + 1 \in N
    <3> SUFFICES ASSUME m + 1 <= n PROVE f[m + 1] \in Seq(T)
      OBVIOUS
    <3>1. m + 1 \in 0 .. n /\ m + 1 # 0 /\ (m + 1) - 1 = m /\ f[m] \in Seq(T)
      BY <1>1
    <3>2. f[m + 1] = IF says[m + 1] \in T THEN Append(f[m], says[m + 1]) ELSE f[m]
      <4>1. f[m + 1] = IF says[m + 1] \in T THEN Append(f[(m + 1) - 1], says[m + 1]) ELSE f[(m + 1) - 1]
        <5> HIDE DEF N
        <5> QED
          BY <1>1, <1>2, <3>1, KeptToAt
      <4> QED
        BY <3>1, <4>1
    <3>3. \A y \in T : Append(f[m], y) \in Seq(T)
      BY <3>1
    <3> QED
      BY <3>1, <3>2, <3>3
  <2> HIDE DEF N
  <2>3. N = Nat
    BY <2>1, <2>2, FromZero DEF N
  <2> QED
    BY <1>1, <2>3 DEF N
<1>4. f[n] \in Seq(S)
  BY <1>1, <1>3
<1>5. \A x \in ToSet(f[n]) : x \in T
  BY <1>3 DEF ToSet
<1> QED
  BY <1>2, <1>4, <1>5 DEF T

(* One message, and none.                                                    *)
LEMMA ForOne == ASSUME NEW m, NEW a PROVE For(<<m>>, a) = IF Reader(m[1]) = a THEN <<m>> ELSE <<>>
<1> DEFINE T == {x \in {m} : Reader(x[1]) = a}
<1>1. <<m>> \in Seq({m}) /\ Len(<<m>>) = 1 /\ <<m>>[1] = m
  OBVIOUS
<1>2. PICK f : IsKeptTo(f, <<m>>, T, 1) /\ For(<<m>>, a) = f[1]
  BY <1>1, ForIs
<1>3. m \in T <=> Reader(m[1]) = a
  OBVIOUS
<1> HIDE DEF T
<1>4. 0 \in 0 .. 1 /\ 1 \in 0 .. 1 /\ 1 # 0 /\ 1 - 1 = 0 /\ 1 \in Nat
  OBVIOUS
<1>5. f[0] = <<>>
  BY <1>2, <1>4, KeptToAt
<1>6. f[1] = IF <<m>>[1] \in T THEN Append(f[1 - 1], <<m>>[1]) ELSE f[1 - 1]
  BY <1>2, <1>4, KeptToAt
<1>7. Append(<<>>, m) = <<m>>
  OBVIOUS
<1> QED
  BY <1>1, <1>2, <1>3, <1>4, <1>5, <1>6, <1>7
LEMMA ForNone == ASSUME NEW a PROVE For(<<>>, a) = <<>>
<1> DEFINE T == {x \in {NoTag} : Reader(x[1]) = a}
<1>1. <<>> \in Seq({NoTag}) /\ Len(<<>>) = 0
  OBVIOUS
<1>2. PICK f : IsKeptTo(f, <<>>, T, 0) /\ For(<<>>, a) = f[0]
  <2>1. \E f : IsKeptTo(f, <<>>, T, Len(<<>>)) /\ For(<<>>, a) = f[Len(<<>>)]
    BY <1>1, ForIs, Zenon
  <2> QED
    BY <1>1, <2>1, Zenon
<1> HIDE DEF T
<1>3. 0 \in 0 .. 0 /\ 0 \in Nat
  OBVIOUS
<1> QED
  BY <1>2, <1>3, KeptToAt

-----------------------------------------------------------------------------
(* The messages that a can depends on.                                       *)
Weighty ==
  {"VEND-REQUEST", "VEND-SUCCESS", "VEND-FAILED", "VEND-APPROVED", "VEND-DENIED",
   "BOBDB-QUERYUSER", "BOBDB-QUERYPRODUCT", "BOBDB-PRODUCTINFO", "BOBDB-FAIL"}
(* What is said, of which only E matters.                                    *)
Carries(says, E) == (\E S : says \in Seq(S)) /\ \A x \in ToSet(says) : x[1] \in Weighty => x \in E

LEMMA CarriesNone == ASSUME NEW E PROVE Carries(<<>>, E)
  BY NoneOf DEF Carries
LEMMA CarriesOne == ASSUME NEW m, NEW E, m[1] \in Weighty => m \in E PROVE Carries(<<m>>, E)
  BY OneOf DEF Carries
LEMMA CarriesCat == ASSUME NEW s, NEW t, NEW E, Carries(s, E), Carries(t, E) PROVE Carries(s \o t, E)
<1>1. PICK S : s \in Seq(S)
  BY DEF Carries
<1>2. PICK T : t \in Seq(T)
  BY DEF Carries
<1>3. s \o t \in Seq(S \cup T) /\ ToSet(s \o t) = ToSet(s) \cup ToSet(t)
  BY <1>1, <1>2, CatOf
<1> QED
  BY <1>3 DEF Carries
LEMMA ItsOwn == ASSUME NEW S, NEW s \in Seq(S) PROVE s \in Seq(ToSet(s))
<1>1. DOMAIN s = 1 .. Len(s) /\ \A i \in 1 .. Len(s) : s[i] \in ToSet(s)
  BY DEF ToSet
<1> QED
  BY <1>1

(* Every queue is a sequence.                                                *)
Queues(b) == DOMAIN b = Apps /\ \A a \in Apps : \E S : b[a] \in Seq(S)
(* A queue has lost something, or has got some of E.                         *)
Less(s, t, E) ==
  /\ \A x \in ToSet(t) : x[1] \in Weighty => x \in ToSet(s) \cup E
  /\ \A x, y : x[1] \in Weighty /\ x \notin E /\ y[1] \in Weighty /\ y \notin E /\ Before(t, x, y) => Before(s, x, y)

LEMMA LessSame == ASSUME NEW s, NEW E PROVE Less(s, s, E)
  BY DEF Less
LEMMA LessTwice ==
  ASSUME NEW s, NEW t, NEW r, NEW E, Less(s, t, E), Less(t, r, E) PROVE Less(s, r, E)
  BY DEF Less

LEMMA SentOf ==
  ASSUME NEW b, Queues(b), NEW says, NEW up \in BOOLEAN
  PROVE  /\ DOMAIN Sent(b, says, up) = Apps
         /\ \A a \in Apps : a # "backend" \/ up => Sent(b, says, up)[a] = b[a] \o For(says, a)
         /\ ~up => Sent(b, says, up)["backend"] = <<>>
  BY DEF Sent, Apps

LEMMA SentLess ==
  ASSUME NEW b, Queues(b), NEW says, NEW E, Carries(says, E), NEW up \in BOOLEAN
  PROVE  /\ Queues(Sent(b, says, up))
         /\ \A a \in Apps : Less(b[a], Sent(b, says, up)[a], E)
         /\ \A a \in Apps : a # "backend" \/ up => ToSet(b[a]) \subseteq ToSet(Sent(b, says, up)[a])
         /\ ~up => Sent(b, says, up)["backend"] = <<>>
<1> DEFINE r == Sent(b, says, up)
<1>1. /\ DOMAIN r = Apps
      /\ \A a \in Apps : a # "backend" \/ up => r[a] = b[a] \o For(says, a)
      /\ ~up => r["backend"] = <<>>
  BY SentOf
<1> HIDE DEF r
<1>2. ASSUME NEW a \in Apps
      PROVE  /\ \E T : r[a] \in Seq(T)
             /\ Less(b[a], r[a], E)
             /\ a # "backend" \/ up => ToSet(b[a]) \subseteq ToSet(r[a])
  <2> DEFINE f == For(says, a)
  <2>1. PICK T : b[a] \in Seq(T)
    BY DEF Queues
  <2>2. f \in Seq(ToSet(says)) /\ \A x \in ToSet(f) : x \in ToSet(says)
    <3>1. says \in Seq(ToSet(says))
      BY ItsOwn DEF Carries
    <3> QED
      BY <3>1, ForSays
  <2>3. \A x \in ToSet(f) : x[1] \in Weighty => x \in E
    BY <2>2 DEF Carries
  <2> HIDE DEF f
  <2>4. CASE a # "backend" \/ up
    <3>1. r[a] = b[a] \o f
      BY <1>1, <2>4 DEF f
    <3>2. /\ b[a] \o f \in Seq(T \cup ToSet(says))
          /\ ToSet(b[a] \o f) = ToSet(b[a]) \cup ToSet(f)
          /\ \A x, y : Before(b[a] \o f, x, y) => Before(b[a], x, y) \/ Before(f, x, y) \/ (x \in ToSet(b[a]) /\ y \in ToSet(f))
      BY <2>1, <2>2, CatOf
    <3>3. \A x, y : Before(f, x, y) => y \in ToSet(f)
      BY BeforeIn
    <3>4. Less(b[a], r[a], E)
      BY <2>3, <3>1, <3>2, <3>3 DEF Less
    <3> QED
      BY <3>1, <3>2, <3>4
  <2>5. CASE ~(a # "backend" \/ up)
    <3>1. r[a] = <<>>
      BY <1>1, <2>5
    <3>2. Less(b[a], r[a], E)
      BY <3>1, NoneOf DEF Less
    <3> QED
      BY <2>5, <3>1, <3>2, NoneOf
  <2> QED
    BY <2>4, <2>5
<1> QED
  BY <1>1, <1>2 DEF Queues, r

LEMMA Popped ==
  ASSUME NEW b, Queues(b), NEW a \in Apps, b[a] # <<>>
  PROVE  LET c == [b EXCEPT ![a] = Tail(@)]
         IN  /\ Queues(c) /\ c[a] = Tail(b[a]) /\ \A d \in Apps : d # a => c[d] = b[d]
             /\ \A E : \A d \in Apps : Less(b[d], c[d], E)
             /\ Head(b[a]) \in ToSet(b[a])
             /\ \A x \in ToSet(b[a]) : x = Head(b[a]) \/ x \in ToSet(c[a])
             /\ \A x \in ToSet(c[a]) : x \in ToSet(b[a]) /\ Before(b[a], Head(b[a]), x)
             /\ \A x, y : Before(c[a], x, y) => Before(b[a], x, y)
<1> DEFINE c == [b EXCEPT ![a] = Tail(@)]
<1>1. DOMAIN c = Apps /\ c[a] = Tail(b[a]) /\ \A d \in Apps : d # a => c[d] = b[d]
  BY DEF Queues
<1> HIDE DEF c
<1>2. PICK S : b[a] \in Seq(S)
  BY DEF Queues
<1>3. /\ Tail(b[a]) \in Seq(S) /\ Head(b[a]) \in ToSet(b[a])
      /\ ToSet(Tail(b[a])) \subseteq ToSet(b[a])
      /\ \A x \in ToSet(b[a]) : x = Head(b[a]) \/ x \in ToSet(Tail(b[a]))
      /\ \A x \in ToSet(Tail(b[a])) : Before(b[a], Head(b[a]), x)
      /\ \A x, y : Before(Tail(b[a]), x, y) => Before(b[a], x, y)
  BY <1>2, TailOf
<1>4. Queues(c)
  BY <1>1, <1>3 DEF Queues
<1>5. ASSUME NEW d \in Apps, NEW E PROVE Less(b[d], c[d], E)
  <2>1. CASE d = a
    BY <1>1, <1>3, <2>1 DEF Less
  <2>2. CASE d # a
    BY <1>1, <2>2, LessSame
  <2> QED
    BY <2>1, <2>2
<1> QED
  BY <1>1, <1>3, <1>4, <1>5 DEF c

LEMMA SentOne ==
  ASSUME NEW b, Queues(b), NEW m, NEW up \in BOOLEAN
  PROVE  /\ Queues(Sent(b, <<m>>, up))
         /\ \A a \in Apps : a # "backend" \/ up =>
              Sent(b, <<m>>, up)[a] = IF Reader(m[1]) = a THEN b[a] \o <<m>> ELSE b[a]
         /\ ~up => Sent(b, <<m>>, up)["backend"] = <<>>
<1>1. Carries(<<m>>, {m})
  BY CarriesOne
<1>2. ASSUME NEW a \in Apps, a # "backend" \/ up
      PROVE Sent(b, <<m>>, up)[a] = IF Reader(m[1]) = a THEN b[a] \o <<m>> ELSE b[a]
  <2>1. PICK S : b[a] \in Seq(S)
    BY DEF Queues
  <2>2. b[a] \o <<>> = b[a]
    BY <2>1, ConcatEmptySeq
  <2>3. For(<<m>>, a) = IF Reader(m[1]) = a THEN <<m>> ELSE <<>>
    BY ForOne
  <2>4. Sent(b, <<m>>, up)[a] = b[a] \o For(<<m>>, a)
    BY <1>2, SentOf
  <2> QED
    BY <2>2, <2>3, <2>4
<1> QED
  BY <1>1, <1>2, SentLess
LEMMA SentNone ==
  ASSUME NEW b, Queues(b), NEW up \in BOOLEAN
  PROVE  /\ Queues(Sent(b, <<>>, up))
         /\ \A a \in Apps : a # "backend" \/ up => Sent(b, <<>>, up)[a] = b[a]
         /\ ~up => Sent(b, <<>>, up)["backend"] = <<>>
<1>1. Carries(<<>>, {})
  BY CarriesNone
<1>2. ASSUME NEW a \in Apps, a # "backend" \/ up PROVE Sent(b, <<>>, up)[a] = b[a]
  <2>1. PICK S : b[a] \in Seq(S)
    BY DEF Queues
  <2>2. b[a] \o <<>> = b[a]
    BY <2>1, ConcatEmptySeq
  <2>3. Sent(b, <<>>, up)[a] = b[a] \o For(<<>>, a)
    BY <1>2, SentOf
  <2> QED
    BY <2>2, <2>3, ForNone
<1> QED
  BY <1>1, <1>2, SentLess

(* A message more at the end of a queue.                                     *)
LEMMA PutOf ==
  ASSUME NEW S, NEW s \in Seq(S), NEW m
  PROVE  /\ ToSet(s \o <<m>>) = ToSet(s) \cup {m}
         /\ \A x, y : Before(s \o <<m>>, x, y) => Before(s, x, y) \/ (x \in ToSet(s) /\ y = m)
<1>1. <<m>> \in Seq({m}) /\ ToSet(<<m>>) = {m} /\ \A x, y : ~Before(<<m>>, x, y)
  BY OneOf
<1> QED
  BY <1>1, CatOf

Watched == {"backend", "db", "vmc"}
Inbox == bus["backend"]
Thins(E) == \A a \in Watched : Less(bus[a], bus'[a], E)
RequestsKept == \A x \in ToSet(Inbox) : x[1] = "VEND-REQUEST" => x \in ToSet(Inbox')
Up == alive \in BOOLEAN /\ (~alive => Inbox = <<>>)

LEMMA SaysThins ==
  ASSUME Queues(bus), Up, NEW says, NEW E, Carries(says, E), Says(says)
  PROVE  Queues(bus') /\ Thins(E) /\ RequestsKept /\ (~alive => Inbox' = <<>>)
<1>1. bus' = Sent(bus, says, alive) /\ Watched \subseteq Apps /\ alive \in BOOLEAN /\ "backend" \in Apps
  BY DEF Says, Up, Watched, Apps
<1>2. ~alive => ToSet(Inbox) = {}
  BY NoneOf DEF Up
<1>3. /\ Queues(bus') /\ \A a \in Apps : Less(bus[a], bus'[a], E)
      /\ alive => ToSet(bus["backend"]) \subseteq ToSet(bus'["backend"])
      /\ ~alive => bus'["backend"] = <<>>
  BY <1>1, SentLess
<1> QED
  BY <1>1, <1>2, <1>3 DEF Thins, RequestsKept, Inbox

LEMMA ReadThins ==
  ASSUME Queues(bus), Up, NEW says, NEW E, Carries(says, E), NEW a \in Apps, bus[a] # <<>>, Read(a, says),
         a = "backend" => Head(Inbox)[1] # "VEND-REQUEST"
  PROVE  Queues(bus') /\ Thins(E) /\ RequestsKept /\ (~alive => Inbox' = <<>>)
<1> DEFINE c == [bus EXCEPT ![a] = Tail(@)]
<1>1. bus' = Sent(c, says, alive) /\ Watched \subseteq Apps /\ alive \in BOOLEAN /\ "backend" \in Apps
  BY DEF Read, Up, Watched, Apps
<1>2. ~alive => ToSet(Inbox) = {}
  BY NoneOf DEF Up
<1>3. /\ Queues(c)
      /\ \A d \in Apps : Less(bus[d], c[d], E)
      /\ \A d \in Apps : d # a => c[d] = bus[d]
      /\ \A x \in ToSet(bus[a]) : x = Head(bus[a]) \/ x \in ToSet(c[a])
  BY Popped
<1> HIDE DEF c
<1>4. /\ Queues(bus') /\ \A d \in Apps : Less(c[d], bus'[d], E)
      /\ alive => ToSet(c["backend"]) \subseteq ToSet(bus'["backend"])
      /\ ~alive => bus'["backend"] = <<>>
  BY <1>1, <1>3, SentLess
<1>5. \A d \in Apps : Less(bus[d], bus'[d], E)
  BY <1>3, <1>4, LessTwice
<1>6. \A x \in ToSet(Inbox) : x[1] = "VEND-REQUEST" => x \in ToSet(c["backend"])
  BY <1>1, <1>3 DEF Inbox
<1> QED
  BY <1>1, <1>2, <1>4, <1>5, <1>6 DEF Thins, RequestsKept, Inbox

LEMMA DiesThins ==
  ASSUME Queues(bus), NEW says, Carries(says, {}), Dies(says)
  PROVE  Queues(bus') /\ Thins({}) /\ Inbox' = <<>> /\ alive' = FALSE
<1> DEFINE c == [bus EXCEPT !["backend"] = <<>>]
<1>1. bus' = Sent(c, says, FALSE) /\ Watched \subseteq Apps /\ "backend" \in Apps /\ alive' = FALSE
  BY DEF Dies, Watched, Apps
<1>2. DOMAIN c = Apps /\ c["backend"] = <<>> /\ \A d \in Apps : d # "backend" => c[d] = bus[d]
  BY <1>1 DEF Queues
<1> HIDE DEF c
<1>3. Queues(c)
  <2>1. <<>> \in Seq({})
    OBVIOUS
  <2> QED
    BY <1>2, <2>1 DEF Queues
<1>4. \A d \in Apps : Less(bus[d], c[d], {})
  <2> TAKE d \in Apps
  <2>1. CASE d = "backend"
    BY <1>2, <2>1, NoneOf DEF Less
  <2>2. CASE d # "backend"
    BY <1>2, <2>2, LessSame
  <2> QED
    BY <2>1, <2>2
<1>5. Queues(bus') /\ (\A d \in Apps : Less(c[d], bus'[d], {})) /\ bus'["backend"] = <<>>
  BY <1>1, <1>3, SentLess
<1>6. \A d \in Apps : Less(bus[d], bus'[d], {})
  BY <1>4, <1>5, LessTwice
<1> QED
  BY <1>1, <1>5, <1>6 DEF Thins, Inbox

-----------------------------------------------------------------------------
(* What the messages and the engine owe to a can.  The variables first.      *)
PastFields ==
  {"sessions", "asked", "cans", "cut", "mixed", "both", "gaveup", "inserted", "returned", "credited", "bought", "owed"}
CanFields == {"code", "sid", "dropped", "settled", "paid"}
UserFields ==
  {"login", "balance", "vend", "barcode", "escrow", "item", "should", "tag", "barcodetag", "sid"}
Cans == Len(past.cans)
Shapes ==
  /\ Queues(bus) /\ tags \in Nat /\ alive \in BOOLEAN /\ past.sessions \in Nat /\ past.gaveup \in BOOLEAN
  /\ DOMAIN past = PastFields /\ DOMAIN vending = {"state", "n"}
  /\ \E S : past.cans \in Seq(S)
  /\ \A n \in 1 .. Cans : DOMAIN past.cans[n] = CanFields

(* However often a request was given up: the requests on their way are those *)
(* of the last cans, in order, and a session that waits for a can has asked  *)
(* for the last one before these.                                            *)
Ends == {"VEND-SUCCESS", "VEND-FAILED"}
Verdicts == {"VEND-APPROVED", "VEND-DENIED"}
Answers == {"BOBDB-PRODUCTINFO", "BOBDB-FAIL"}
Tagged == {"BOBDB-QUERYUSER", "BOBDB-QUERYPRODUCT"} \cup Answers
Requested(k) == \E x \in ToSet(Inbox) : x[1] = "VEND-REQUEST" /\ x[2] = k
RequestedAfter(n) == \A k \in n + 1 .. Cans : Requested(k)
RequestRight(x) ==
  /\ x[2] \in 1 .. Cans
  /\ past.cans[x[2]].sid = 0 /\ past.cans[x[2]].paid = {} /\ ~past.cans[x[2]].settled
  /\ past.cans[x[2]].code = CanCode[x[3]]
  /\ RequestedAfter(x[2])
DropRight(x) == x[2] \in 1 .. Cans /\ past.cans[x[2]].dropped /\ RequestedAfter(x[2])
InboxRight ==
  \A x \in ToSet(Inbox) :
    /\ x[1] = "VEND-REQUEST" => RequestRight(x)
    /\ x[1] = "VEND-SUCCESS" => DropRight(x)
Ordered(x, y) ==
  /\ x[1] = "VEND-REQUEST" /\ y[1] = "VEND-REQUEST" => x[2] < y[2]
  /\ x[1] = "VEND-SUCCESS" /\ y[1] = "VEND-REQUEST" => x[2] < y[2]
  /\ x[1] = "VEND-REQUEST" /\ y[1] = "VEND-SUCCESS" => x[2] <= y[2]
InTurn == \A x, y \in ToSet(Inbox) : Before(Inbox, x, y) => Ordered(x, y)
UserRight ==
  user # NoUser =>
    /\ DOMAIN user = UserFields
    /\ user.sid \in 1 .. past.sessions /\ user.sid \notin past.cut
    /\ user.tag[1] = "" /\ user.tag[2] \in 0 .. tags
    /\ user.vend => \E m \in 1 .. Cans : past.cans[m].sid = user.sid /\ RequestedAfter(m)
TagRight(x) == x[2][2] \in 1 .. tags /\ (x[1] = "BOBDB-QUERYUSER" /\ user # NoUser => x[2] # user.tag)
TagsRight == \A x \in ToSet(bus["db"]) \cup ToSet(Inbox) : x[1] \in Tagged => TagRight(x)
RestRight ==
  /\ past.cut \subseteq 1 .. past.sessions
  /\ ~alive => user = NoUser /\ Inbox = <<>>
  /\ vending.state \in {"confirm", "dispense"} => vending.n = Cans /\ Cans > 0
Always == InboxRight /\ InTurn /\ UserRight /\ TagsRight /\ RestRight

(* As long as none was: one thing at most is under way for the last can, and *)
(* until a can that dropped is charged its session waits for it.             *)
Owed(n) ==
  \/ past.cans[n].sid \in past.cut
  \/ /\ user # NoUser /\ user.vend /\ user.sid = past.cans[n].sid
     /\ user.item = past.cans[n].code /\ user.item # NoCode
Live(x) == user # NoUser /\ user.vend /\ x[1] \in {"BOBDB-QUERYPRODUCT"} \cup Answers /\ x[2] = user.tag
NoneLive == \A x \in ToSet(bus["db"]) \cup ToSet(Inbox) : ~Live(x)
NoEnd == \A x \in ToSet(Inbox) : x[1] \notin Ends
NoRequest == \A x \in ToSet(Inbox) : x[1] # "VEND-REQUEST"
NoVerdict == \A x \in ToSet(bus["vmc"]) : x[1] \notin Verdicts
Confirms == vending.state = "confirm"
RequestPhase ==
  \A x \in ToSet(Inbox) : x[1] = "VEND-REQUEST" => x[2] = Cans /\ Confirms /\ NoVerdict /\ NoneLive
AnswerRight(x) ==
  /\ user.sid = past.cans[Cans].sid
  /\ x[1] = "BOBDB-QUERYPRODUCT" => x[3] \in {past.cans[Cans].code, NoCode}
  /\ x[1] = "BOBDB-PRODUCTINFO" => x[3] = past.cans[Cans].code /\ x[3] # NoCode
LivePhase ==
  /\ \A x \in ToSet(bus["db"]) \cup ToSet(Inbox) : Live(x) => Confirms /\ NoEnd /\ NoVerdict /\ AnswerRight(x)
  /\ \A x \in ToSet(bus["db"]), y \in ToSet(Inbox) : ~(Live(x) /\ Live(y))
  /\ \A x, y \in ToSet(bus["db"]) : Live(x) /\ Live(y) => ~Before(bus["db"], x, y)
  /\ \A x, y \in ToSet(Inbox) : Live(x) /\ Live(y) => ~Before(Inbox, x, y)
VerdictPhase ==
  /\ \A x \in ToSet(bus["vmc"]) : x[1] \in Verdicts => Confirms /\ NoEnd
  /\ \A x \in ToSet(bus["vmc"]) : x[1] = "VEND-APPROVED" => Owed(Cans)
  /\ \A x, y \in ToSet(bus["vmc"]) : x[1] \in Verdicts /\ y[1] \in Verdicts => ~Before(bus["vmc"], x, y)
DispensePhase == vending.state = "dispense" => Owed(Cans) /\ NoEnd
EndPhase ==
  /\ \A x \in ToSet(Inbox) : x[1] = "VEND-SUCCESS" => Owed(x[2])
  /\ \A x, y \in ToSet(Inbox) : x[1] \in Ends \cup {"VEND-REQUEST"} /\ y[1] \in Ends => ~Before(Inbox, x, y)
Phases == RequestPhase /\ LivePhase /\ VerdictPhase /\ DispensePhase /\ EndPhase
CansInv == Shapes /\ Always /\ (~past.gaveup => Phases) /\ CansPaid

-----------------------------------------------------------------------------
(* A step that asks for no can and ends none.  What matters on the bus gets  *)
(* less, but for some that is new, and no request that waits is concerned.   *)
Stops == past'.cut = past.cut \/ (user # NoUser /\ past'.cut = past.cut \cup {user.sid})
Stops1 == Stops /\ user' = NoUser /\ past'.sessions = past.sessions
Remains ==
  /\ user # NoUser /\ user' # NoUser /\ DOMAIN user' = UserFields
  /\ user'.sid = user.sid /\ (user'.vend => user.vend)
  /\ user'.tag = user.tag \/ (tags' = tags + 1 /\ user'.tag = <<"", tags'>>)
  /\ past'.cut = past.cut /\ past'.sessions = past.sessions
Comes ==
  /\ user' # NoUser /\ DOMAIN user' = UserFields /\ user'.vend = FALSE
  /\ past'.sessions = past.sessions + 1 /\ user'.sid = past'.sessions
  /\ user'.tag = <<"", 0>>
CansStay ==
  /\ DOMAIN past' = PastFields /\ past'.gaveup \in BOOLEAN
  /\ (\E S : past'.cans \in Seq(S)) /\ Len(past'.cans) = Cans
  /\ \A n \in 1 .. Cans :
       /\ DOMAIN past'.cans[n] = CanFields
       /\ past'.cans[n].sid = past.cans[n].sid /\ past'.cans[n].code = past.cans[n].code
       /\ past'.cans[n].dropped = past.cans[n].dropped
       /\ Requested(n)' => past'.cans[n] = past.cans[n]
NoCan(m) == m[1] \notin Ends \cup {"VEND-REQUEST"} /\ (m[1] \in Tagged => TagRight(m)')
Mild(E) ==
  /\ Queues(bus') /\ Thins(E) /\ (RequestsKept \/ (user' = NoUser /\ Inbox' = <<>>))
  /\ \A m \in E : NoCan(m)
  /\ alive' \in BOOLEAN /\ (~alive' => user' = NoUser /\ Inbox' = <<>>)
  /\ tags' \in Nat /\ tags' >= tags
  /\ CansStay
  /\ DOMAIN vending' = {"state", "n"} /\ vending'.n = vending.n
  /\ vending'.state \in {"confirm", "dispense"} => vending.state \in {"confirm", "dispense"}
  /\ Remains \/ (Stops /\ Comes) \/ Stops1

(* No can is concerned at all: the session goes on, or ends -- cut short, if *)
(* it waited for one -- and what is new asks, and answers, something else.   *)
GoesOn == Remains /\ user'.vend = user.vend /\ user'.item = user.item
Ended == Stops /\ (user # NoUser /\ user.vend => user.sid \in past'.cut)
CalmUser ==
  \/ GoesOn
  \/ Ended /\ Comes
  \/ Ended /\ user' = NoUser /\ past'.sessions = past.sessions
Beside(m) == m[1] \in Tagged /\ m[2][2] \in 1 .. tags' /\ (user' # NoUser /\ (user'.vend \/ m[1] = "BOBDB-QUERYUSER") => m[2] # user'.tag)
Calm(E) ==
  /\ Queues(bus') /\ Thins(E) /\ (RequestsKept \/ (user' = NoUser /\ Inbox' = <<>>))
  /\ \A m \in E : Beside(m)
  /\ alive' \in BOOLEAN /\ (~alive' => user' = NoUser /\ Inbox' = <<>>)
  /\ tags' \in Nat /\ tags' >= tags
  /\ DOMAIN past' = PastFields /\ past'.cans = past.cans /\ past'.gaveup = past.gaveup
  /\ vending' = vending
  /\ CalmUser

LEMMA TagIs == \A n : <<"", n>>[1] = "" /\ <<"", n>>[2] = n
  OBVIOUS

LEMMA CalmMild == ASSUME CansInv, NEW E, Calm(E) PROVE Mild(E)
<1>1. \A m \in E : NoCan(m)
  BY DEF Calm, Beside, NoCan, TagRight, Tagged, Answers, Ends
<1>2. CansStay /\ DOMAIN vending' = {"state", "n"}
  BY DEF Calm, CansStay, CansInv, Shapes, Cans
<1>3. Remains \/ (Stops /\ Comes) \/ Stops1
  BY DEF Calm, CalmUser, GoesOn, Ended, Stops1
<1> QED
  BY <1>1, <1>2, <1>3 DEF Calm, Mild

LEMMA MildSees ==
  ASSUME CansInv, NEW E, Mild(E)
  PROVE  /\ \A x \in ToSet(Inbox') : x[1] \in Ends \cup {"VEND-REQUEST"} => x \in ToSet(Inbox)
         /\ \A x \in ToSet(Inbox') : x[1] \in Tagged => x \in ToSet(Inbox) \/ x \in E
         /\ \A x \in ToSet(bus["db"]') : x[1] \in Tagged => x \in ToSet(bus["db"]) \/ x \in E
         /\ \A x \in ToSet(bus["vmc"]') : x[1] \in Verdicts => x \in ToSet(bus["vmc"]) \/ x \in E
         /\ \A a \in Watched : \A x, y : Before(bus[a]', x, y) /\ x[1] \in Weighty /\ x \notin E /\ y[1] \in Weighty /\ y \notin E => Before(bus[a], x, y)
         /\ \A k : Inbox' # <<>> /\ Requested(k) => Requested(k)'
         /\ \A x, y : Before(Inbox', x, y) /\ x[1] \in Ends \cup {"VEND-REQUEST"} /\ y[1] \in Ends \cup {"VEND-REQUEST"}
                         => Before(Inbox, x, y)
<1>1. "backend" \in Watched /\ "db" \in Watched /\ "vmc" \in Watched
  BY DEF Watched
<1>2. \A x \in E : x[1] \notin Ends \cup {"VEND-REQUEST"}
  BY DEF Mild, NoCan
<1>3. Ends \cup {"VEND-REQUEST"} \subseteq Weighty /\ Verdicts \subseteq Weighty /\ Tagged \subseteq Weighty
  BY DEF Ends, Verdicts, Weighty, Tagged, Answers
<1>4. \A a \in Watched : Less(bus[a], bus'[a], E)
  BY DEF Mild, Thins
<1>5. ASSUME NEW a \in Watched
      PROVE  /\ \A x \in ToSet(bus'[a]) : x[1] \in Weighty => x \in ToSet(bus[a]) \/ x \in E
             /\ \A x, y : Before(bus'[a], x, y) /\ x[1] \in Weighty /\ x \notin E /\ y[1] \in Weighty /\ y \notin E
                            => Before(bus[a], x, y)
  BY <1>4 DEF Less
<1>6. \A k : Inbox' # <<>> /\ Requested(k) => Requested(k)'
  <2>1. Inbox' # <<>> => RequestsKept
    BY DEF Mild
  <2> QED
    BY <2>1 DEF RequestsKept, Requested
<1> QED
  BY <1>1, <1>2, <1>3, <1>5, <1>6 DEF Inbox

LEMMA MildShapes == ASSUME CansInv, NEW E, Mild(E) PROVE Shapes'
<1>1. past'.sessions \in Nat
  <2>1. past'.sessions = past.sessions \/ past'.sessions = past.sessions + 1
    BY DEF Mild, Remains, Comes, Stops1
  <2>2. past.sessions \in Nat
    BY DEF CansInv, Shapes
  <2> QED
    BY <2>1, <2>2
<1>2. Cans' = Cans
  BY DEF Mild, CansStay, Cans
<1> QED
  BY <1>1, <1>2 DEF Mild, CansStay, CansInv, Shapes

LEMMA MildAlways ==
  ASSUME CansInv, NEW E, Mild(E)
  PROVE  Always'
<1>1. /\ Cans' = Cans
      /\ \A n \in 1 .. Cans :
           /\ past'.cans[n].sid = past.cans[n].sid /\ past'.cans[n].dropped = past.cans[n].dropped
           /\ Requested(n)' => past'.cans[n] = past.cans[n]
  BY DEF Mild, CansStay, Cans
<1>2. /\ \A x \in ToSet(Inbox') : x[1] \in Ends \cup {"VEND-REQUEST"} => x \in ToSet(Inbox)
      /\ \A x \in ToSet(Inbox') : x[1] \in Tagged => x \in ToSet(Inbox) \/ x \in E
      /\ \A x \in ToSet(bus["db"]') : x[1] \in Tagged => x \in ToSet(bus["db"]) \/ x \in E
      /\ \A k : Inbox' # <<>> /\ Requested(k) => Requested(k)'
      /\ \A x, y : Before(Inbox', x, y) /\ x[1] \in Ends \cup {"VEND-REQUEST"} /\ y[1] \in Ends \cup {"VEND-REQUEST"}
                    => Before(Inbox, x, y)
  BY MildSees
<1>3. Inbox' # <<>> => \A n : RequestedAfter(n) => RequestedAfter(n)'
  BY <1>1, <1>2 DEF RequestedAfter
<1>4. Inbox' = <<>> => ToSet(Inbox') = {}
  BY NoneOf
<1>5. InboxRight'
  <2> SUFFICES ASSUME NEW x \in ToSet(Inbox')
               PROVE (x[1] = "VEND-REQUEST" => RequestRight(x)') /\ (x[1] = "VEND-SUCCESS" => DropRight(x)')
    BY DEF InboxRight
  <2>1. x[1] \in {"VEND-REQUEST", "VEND-SUCCESS"} => x \in ToSet(Inbox)
    BY <1>2 DEF Ends
  <2>2. x[1] = "VEND-REQUEST" => RequestRight(x) /\ Requested(x[2])'
    BY <2>1 DEF CansInv, Always, InboxRight, Requested
  <2>3. x[1] = "VEND-SUCCESS" => DropRight(x)
    BY <2>1 DEF CansInv, Always, InboxRight
  <2> QED
    BY <1>1, <1>3, <1>4, <2>2, <2>3 DEF RequestRight, DropRight
<1>6. InTurn'
  <2> SUFFICES ASSUME NEW x \in ToSet(Inbox'), NEW y \in ToSet(Inbox'), Before(Inbox', x, y) PROVE Ordered(x, y)
    BY DEF InTurn, Ordered
  <2>1. CASE x[1] \in Ends \cup {"VEND-REQUEST"} /\ y[1] \in Ends \cup {"VEND-REQUEST"}
    BY <1>2, <2>1 DEF CansInv, Always, InTurn
  <2>2. CASE ~(x[1] \in Ends \cup {"VEND-REQUEST"} /\ y[1] \in Ends \cup {"VEND-REQUEST"})
    BY <2>2 DEF Ordered, Ends
  <2> QED
    BY <2>1, <2>2
<1>7. ASSUME user' # NoUser
      PROVE  /\ DOMAIN user' = UserFields
             /\ user'.sid \in 1 .. past'.sessions /\ user'.sid \notin past'.cut
             /\ user'.tag[1] = "" /\ user'.tag[2] \in 0 .. tags'
  <2>1. tags \in Nat /\ tags' \in Nat /\ tags' >= tags /\ past.sessions \in Nat /\ past.cut \subseteq 1 .. past.sessions
    BY DEF CansInv, Shapes, Always, RestRight, Mild
  <2>4. \A i \in 0 .. tags : i \in 0 .. tags'
    BY <2>1
  <2>5. 0 \in 0 .. tags' /\ tags' \in 0 .. tags'
    BY <2>1
  <2>2. CASE Remains
    <3>1. /\ user.sid \in 1 .. past.sessions /\ user.sid \notin past.cut
          /\ user.tag[1] = "" /\ user.tag[2] \in 0 .. tags
      BY <2>2 DEF Remains, CansInv, Always, UserRight
    <3>2. user'.tag[1] = "" /\ user'.tag[2] \in 0 .. tags'
      <4>1. CASE user'.tag = user.tag
        BY <2>4, <3>1, <4>1
      <4>2. CASE user'.tag = <<"", tags'>>
        <5>1. user'.tag[1] = "" /\ user'.tag[2] = tags'
          BY <4>2, TagIs
        <5> QED
          BY <2>5, <5>1
      <4> QED
        BY <2>2, <4>1, <4>2 DEF Remains
    <3> QED
      BY <2>2, <3>1, <3>2 DEF Remains
  <2>3. CASE Stops /\ Comes
    <3>1. user # NoUser => user.sid \in 1 .. past.sessions
      BY DEF CansInv, Always, UserRight
    <3>2. past'.cut \subseteq 1 .. past.sessions
      BY <2>1, <2>3, <3>1 DEF Stops
    <3>3. user'.tag[1] = "" /\ user'.tag[2] \in 0 .. tags'
      <4>1. user'.tag[1] = "" /\ user'.tag[2] = 0
        BY <2>3, TagIs DEF Comes
      <4> QED
        BY <2>5, <4>1
    <3>4. past'.sessions = past.sessions + 1 /\ user'.sid = past'.sessions /\ DOMAIN user' = UserFields
      BY <2>3 DEF Comes
    <3>5. past'.sessions \in 1 .. past'.sessions /\ past'.sessions \notin 1 .. past.sessions
      BY <2>1, <3>4
    <3> QED
      BY <3>2, <3>3, <3>4, <3>5
  <2> QED
    BY <1>7, <2>2, <2>3 DEF Mild, Stops1
<1>8. ASSUME user' # NoUser, user'.vend
      PROVE  \E m \in 1 .. Cans : past.cans[m].sid = user'.sid /\ RequestedAfter(m)'
  <2>1. Remains
    BY <1>8 DEF Mild, Comes, Stops1
  <2>2. \E m \in 1 .. Cans : past.cans[m].sid = user'.sid /\ RequestedAfter(m)
    BY <1>8, <2>1 DEF Remains, CansInv, Always, UserRight
  <2>3. Inbox' # <<>> \/ RequestsKept
    BY <1>8 DEF Mild
  <2>4. RequestsKept => \A k : Requested(k) => Requested(k)'
    BY DEF RequestsKept, Requested
  <2>5. \A m : RequestedAfter(m) => RequestedAfter(m)'
    BY <1>1, <1>3, <2>3, <2>4 DEF RequestedAfter
  <2> QED
    BY <2>2, <2>5
<1>9. UserRight'
  BY <1>1, <1>7, <1>8 DEF UserRight
<1>10. TagsRight'
  <2> SUFFICES ASSUME NEW x \in ToSet(bus["db"]') \cup ToSet(Inbox'), x[1] \in Tagged PROVE TagRight(x)'
    BY DEF TagsRight
  <2>1. tags \in Nat /\ tags' \in Nat /\ tags' >= tags
    BY DEF CansInv, Shapes, Mild
  <2>2. CASE x \in E
    BY <2>2 DEF Mild, NoCan
  <2>3. CASE x \in ToSet(bus["db"]) \cup ToSet(Inbox)
    <3>1. TagRight(x)
      BY <2>3 DEF CansInv, Always, TagsRight
    <3>2. x[2][2] \in 1 .. tags'
      BY <2>1, <3>1 DEF TagRight
    <3>3. ASSUME x[1] = "BOBDB-QUERYUSER", user' # NoUser PROVE x[2] # user'.tag
      <4>1. CASE user'.tag[2] = 0 \/ user'.tag[2] = tags + 1
        BY <2>1, <3>1, <4>1 DEF TagRight
      <4>2. CASE Remains /\ user'.tag = user.tag
        BY <3>1, <3>3, <4>2 DEF TagRight, Remains
      <4>3. CASE Comes
        <5>1. user'.tag[2] = 0
          BY <4>3, TagIs DEF Comes
        <5>2. x[2][2] \in 1 .. tags
          BY <3>1 DEF TagRight
        <5> QED
          BY <2>1, <3>3, <5>1, <5>2
      <4> QED
        BY <3>3, <4>1, <4>2, <4>3, TagIs DEF Mild, Remains, Stops1
    <3> QED
      BY <3>2, <3>3 DEF TagRight
  <2> QED
    BY <1>2, <2>2, <2>3
<1>11. RestRight'
  <2>1. past'.cut \subseteq 1 .. past'.sessions
    <3>1. past.sessions \in Nat /\ past.cut \subseteq 1 .. past.sessions /\ (user # NoUser => user.sid \in 1 .. past.sessions)
      BY DEF CansInv, Shapes, Always, RestRight, UserRight
    <3>2. past'.cut \subseteq 1 .. past.sessions
      BY <3>1 DEF Mild, Remains, Stops, Stops1
    <3>3. past'.sessions = past.sessions \/ past'.sessions = past.sessions + 1
      BY DEF Mild, Remains, Comes, Stops1
    <3> QED
      BY <3>1, <3>2, <3>3
  <2> QED
    BY <1>1, <2>1 DEF Mild, CansInv, Always, RestRight
<1> QED
  BY <1>5, <1>6, <1>9, <1>10, <1>11 DEF Always

LEMMA CalmPaid == ASSUME CansInv, NEW E, Calm(E) PROVE CansPaid'
<1>1. past.cut \subseteq past'.cut
  BY DEF Calm, CalmUser, GoesOn, Remains, Ended, Stops
<1> QED
  BY <1>1 DEF Calm, CansInv, CansPaid

LEMMA CalmPhases ==
  ASSUME CansInv, NEW E, Calm(E), Phases
  PROVE  Phases'
<1>1. Cans' = Cans /\ past'.cans = past.cans /\ Confirms' = Confirms /\ vending' = vending
  BY DEF Calm, Cans, Confirms
<1>2. /\ \A x \in ToSet(Inbox') : x[1] \in Ends \cup {"VEND-REQUEST"} => x \in ToSet(Inbox)
      /\ \A x \in ToSet(Inbox') : x[1] \in Tagged => x \in ToSet(Inbox) \/ x \in E
      /\ \A x \in ToSet(bus["db"]') : x[1] \in Tagged => x \in ToSet(bus["db"]) \/ x \in E
      /\ \A x \in ToSet(bus["vmc"]') : x[1] \in Verdicts => x \in ToSet(bus["vmc"])
      /\ \A a \in Watched : \A x, y : Before(bus[a]', x, y) /\ x[1] \in Weighty /\ x \notin E /\ y[1] \in Weighty /\ y \notin E
                                    => Before(bus[a], x, y)
  <2>1. \A x \in E : x[1] \notin Verdicts
    BY DEF Calm, Beside, Tagged, Answers, Verdicts
  <2> QED
    BY <2>1, CalmMild, MildSees
<1>3. /\ \A x \in E : x[1] \in Tagged /\ (user' # NoUser /\ user'.vend => x[2] # user'.tag)
      /\ Tagged \cap (Ends \cup {"VEND-REQUEST"} \cup Verdicts) = {}
      /\ Tagged \cup Ends \cup {"VEND-REQUEST"} \cup Verdicts \subseteq Weighty
      /\ {"BOBDB-QUERYPRODUCT"} \cup Answers \subseteq Tagged
  BY DEF Calm, Beside, Tagged, Answers, Ends, Verdicts, Weighty
<1>4. \A n : Owed(n) => Owed(n)'
  <2> SUFFICES ASSUME NEW n, Owed(n) PROVE Owed(n)'
    OBVIOUS
  <2>1. CASE GoesOn
    BY <1>1, <2>1 DEF GoesOn, Remains, Owed
  <2>2. CASE Ended
    BY <1>1, <2>2 DEF Ended, Stops, Owed
  <2> QED
    BY <2>1, <2>2 DEF Calm, CalmUser
<1>5. ASSUME NEW x, x \in ToSet(bus["db"]') \cup ToSet(Inbox'), Live(x)'
      PROVE  /\ x \notin E /\ x[1] \in Weighty /\ Live(x) /\ user'.sid = user.sid
             /\ x \in ToSet(bus["db"]') => x \in ToSet(bus["db"])
             /\ x \in ToSet(Inbox') => x \in ToSet(Inbox)
  <2>1. user' # NoUser /\ user'.vend /\ x[1] \in {"BOBDB-QUERYPRODUCT"} \cup Answers /\ x[2] = user'.tag
    BY <1>5 DEF Live
  <2>2. x \notin E /\ x[1] \in Weighty /\ x[1] \in Tagged
    BY <1>3, <2>1
  <2>3. /\ x \in ToSet(bus["db"]') => x \in ToSet(bus["db"])
        /\ x \in ToSet(Inbox') => x \in ToSet(Inbox)
    BY <1>2, <2>2
  <2>4. TagRight(x) /\ tags \in Nat
    BY <1>5, <2>2, <2>3 DEF CansInv, Shapes, Always, TagsRight
  <2>5. GoesOn
    BY <2>1 DEF Calm, CalmUser, Comes
  <2>6. user'.tag = user.tag
    <3>1. x[2][2] \in 1 .. tags
      BY <2>4 DEF TagRight
    <3>2. ASSUME user'.tag = <<"", tags'>>, tags' = tags + 1 PROVE FALSE
      <4>1. x[2][2] = tags + 1
        BY <2>1, <3>2, TagIs
      <4> QED
        BY <2>4, <3>1, <4>1
    <3> QED
      BY <2>5, <3>2 DEF GoesOn, Remains
  <2> QED
    BY <2>1, <2>2, <2>3, <2>5, <2>6 DEF GoesOn, Remains, Live
<1>6. NoneLive => NoneLive'
  BY <1>5 DEF NoneLive
<1>7. NoEnd => NoEnd'
  BY <1>2 DEF NoEnd
<1>8. NoVerdict => NoVerdict'
  BY <1>2 DEF NoVerdict
<1>9. RequestPhase'
  BY <1>1, <1>2, <1>6, <1>8 DEF Phases, RequestPhase
<1>10. LivePhase'
  <2>1. ASSUME NEW x \in ToSet(bus["db"]') \cup ToSet(Inbox'), Live(x)'
        PROVE  Confirms' /\ NoEnd' /\ NoVerdict' /\ AnswerRight(x)'
    <3>1. Live(x) /\ x \in ToSet(bus["db"]) \cup ToSet(Inbox) /\ user'.sid = user.sid
      BY <1>5, <2>1
    <3>2. Confirms /\ NoEnd /\ NoVerdict /\ AnswerRight(x)
      BY <3>1 DEF Phases, LivePhase
    <3>3. AnswerRight(x)'
      BY <1>1, <3>1, <3>2 DEF AnswerRight
    <3> QED
      BY <1>1, <1>7, <1>8, <3>2, <3>3
  <2>2. ASSUME NEW x \in ToSet(bus["db"]'), NEW y \in ToSet(Inbox') PROVE ~(Live(x)' /\ Live(y)')
    BY <1>5 DEF Phases, LivePhase
  <2>3. ASSUME NEW x \in ToSet(bus["db"]'), NEW y \in ToSet(bus["db"]'), Live(x)', Live(y)' PROVE ~Before(bus["db"]', x, y)
    <3>1. Live(x) /\ Live(y) /\ x \in ToSet(bus["db"]) /\ y \in ToSet(bus["db"])
      BY <1>5, <2>3
    <3>2. ~Before(bus["db"], x, y)
      BY <3>1 DEF Phases, LivePhase
    <3>3. x \notin E /\ y \notin E /\ x[1] \in Weighty /\ y[1] \in Weighty /\ "db" \in Watched
      BY <1>5, <2>3 DEF Watched
    <3> QED
      BY <1>2, <3>2, <3>3
  <2>4. ASSUME NEW x \in ToSet(Inbox'), NEW y \in ToSet(Inbox'), Live(x)', Live(y)' PROVE ~Before(Inbox', x, y)
    <3>1. Live(x) /\ Live(y) /\ x \in ToSet(Inbox) /\ y \in ToSet(Inbox)
      BY <1>5, <2>4
    <3>2. ~Before(Inbox, x, y)
      BY <3>1 DEF Phases, LivePhase
    <3>3. x \notin E /\ y \notin E /\ x[1] \in Weighty /\ y[1] \in Weighty /\ "backend" \in Watched
      BY <1>5, <2>4 DEF Watched
    <3> QED
      BY <1>2, <3>2, <3>3 DEF Inbox
  <2> QED
    BY <2>1, <2>2, <2>3, <2>4 DEF LivePhase
<1>11. VerdictPhase'
  <2>1. \A x \in ToSet(bus["vmc"]') : x[1] \in Verdicts => Confirms' /\ NoEnd'
    BY <1>1, <1>2, <1>7 DEF Phases, VerdictPhase
  <2>2. \A x \in ToSet(bus["vmc"]') : x[1] = "VEND-APPROVED" => Owed(Cans)'
    BY <1>1, <1>2, <1>4 DEF Phases, VerdictPhase, Verdicts
  <2>3. ASSUME NEW x \in ToSet(bus["vmc"]'), NEW y \in ToSet(bus["vmc"]'), x[1] \in Verdicts, y[1] \in Verdicts
        PROVE ~Before(bus["vmc"]', x, y)
    <3>1. x \in ToSet(bus["vmc"]) /\ y \in ToSet(bus["vmc"]) /\ x \notin E /\ y \notin E /\ "vmc" \in Watched
          /\ x[1] \in Weighty /\ y[1] \in Weighty
      BY <1>2, <1>3, <2>3 DEF Watched
    <3>2. ~Before(bus["vmc"], x, y)
      BY <2>3, <3>1 DEF Phases, VerdictPhase
    <3> QED
      BY <1>2, <3>1, <3>2
  <2> QED
    BY <2>1, <2>2, <2>3 DEF VerdictPhase
<1>12. DispensePhase'
  BY <1>1, <1>4, <1>7 DEF Phases, DispensePhase
<1>13. EndPhase'
  <2>1. \A x \in ToSet(Inbox') : x[1] = "VEND-SUCCESS" => Owed(x[2])'
    <3>1. \A x \in ToSet(Inbox') : x[1] = "VEND-SUCCESS" => Owed(x[2])
      BY <1>2 DEF Phases, EndPhase, Ends
    <3> QED
      BY <1>4, <3>1
  <2>2. ASSUME NEW x \in ToSet(Inbox'), NEW y \in ToSet(Inbox'), x[1] \in Ends \cup {"VEND-REQUEST"}, y[1] \in Ends
        PROVE ~Before(Inbox', x, y)
    <3>1. x \in ToSet(Inbox) /\ y \in ToSet(Inbox) /\ x \notin E /\ y \notin E /\ "backend" \in Watched
          /\ x[1] \in Weighty /\ y[1] \in Weighty
      BY <1>2, <1>3, <2>2 DEF Watched
    <3>2. ~Before(Inbox, x, y)
      BY <2>2, <3>1 DEF Phases, EndPhase
    <3> QED
      BY <1>2, <3>1, <3>2 DEF Inbox
  <2> QED
    BY <2>1, <2>2 DEF EndPhase
<1> QED
  BY <1>9, <1>10, <1>11, <1>12, <1>13 DEF Phases

LEMMA CalmKeeps == ASSUME CansInv, NEW E, Calm(E) PROVE CansInv'
  BY CalmMild, MildShapes, MildAlways, CalmPhases, CalmPaid DEF CansInv, Calm

-----------------------------------------------------------------------------
(* What is said about money, sessions and the screen carries nothing.        *)
LEMMA Pair == ASSUME NEW m, NEW n PROVE <<m, n>> = <<m>> \o <<n>>
<1> DEFINE S == {m, n}
<1>1. <<m>> \in Seq(S) /\ <<n>> \in Seq(S) /\ <<m, n>> \in Seq(S) /\ Len(<<m>>) = 1 /\ Len(<<n>>) = 1 /\ Len(<<m, n>>) = 2
  OBVIOUS
<1>2. <<m, n>>[1] = m /\ <<m, n>>[2] = n /\ <<m>>[1] = m /\ <<n>>[1] = n
  OBVIOUS
<1> HIDE DEF S
<1>3. /\ <<m>> \o <<n>> \in Seq(S) /\ Len(<<m>> \o <<n>>) = 2
      /\ \A i \in 1 .. 2 : (<<m>> \o <<n>>)[i] = IF i <= 1 THEN <<m>>[i] ELSE <<n>>[i - 1]
  BY <1>1, ConcatProperties
<1>4. \A i \in 1 .. 2 : <<m, n>>[i] = (<<m>> \o <<n>>)[i]
  <2>1. \A i \in 1 .. 2 : i = 1 \/ (i = 2 /\ i - 1 = 1)
    OBVIOUS
  <2> QED
    BY <1>2, <1>3, <2>1
<1> QED
  BY <1>1, <1>3, <1>4, SeqEqual
LEMMA Concats ==
  ASSUME NEW m, NEW n, NEW o PROVE <<m, n>> = <<m>> \o <<n>> /\ <<m, n, o>> = <<m>> \o <<n, o>>
<1> DEFINE S == {m, n, o}
<1>1. <<m, n>> = <<m>> \o <<n>>
  BY Pair
<1>2. <<m, n, o>> = <<m>> \o <<n, o>>
  <2>1. <<m>> \in Seq(S) /\ <<n, o>> \in Seq(S) /\ <<m, n, o>> \in Seq(S) /\ Len(<<m>>) = 1 /\ Len(<<n, o>>) = 2 /\ Len(<<m, n, o>>) = 3
    OBVIOUS
  <2>2. /\ <<m, n, o>>[1] = m /\ <<m, n, o>>[2] = n /\ <<m, n, o>>[3] = o
        /\ <<m>>[1] = m /\ <<n, o>>[1] = n /\ <<n, o>>[2] = o
    OBVIOUS
  <2> HIDE DEF S
  <2>3. /\ <<m>> \o <<n, o>> \in Seq(S) /\ Len(<<m>> \o <<n, o>>) = 3
        /\ \A i \in 1 .. 3 : (<<m>> \o <<n, o>>)[i] = IF i <= 1 THEN <<m>>[i] ELSE <<n, o>>[i - 1]
    BY <2>1, ConcatProperties
  <2>4. \A i \in 1 .. 3 : <<m, n, o>>[i] = (<<m>> \o <<n, o>>)[i]
    <3>1. \A i \in 1 .. 3 : i = 1 \/ (i = 2 /\ i - 1 = 1) \/ (i = 3 /\ i - 1 = 2)
      OBVIOUS
    <3> QED
      BY <2>2, <2>3, <3>1
  <2> QED
    BY <2>1, <2>3, <2>4, SeqEqual
<1> QED
  BY <1>1, <1>2
LEMMA CarriesTwo ==
  ASSUME NEW m, NEW n, NEW E, m[1] \notin Weighty, n[1] \notin Weighty PROVE Carries(<<m, n>>, E)
<1>1. Carries(<<m>>, E) /\ Carries(<<n>>, E)
  BY CarriesOne
<1>2. <<m, n>> = <<m>> \o <<n>>
  BY Concats
<1> QED
  BY <1>1, <1>2, CarriesCat
LEMMA CarriesMore ==
  ASSUME NEW m, NEW n, NEW o, NEW E, m[1] \notin Weighty, Carries(<<n, o>>, E) PROVE Carries(<<m, n, o>>, E)
<1>1. Carries(<<m>>, E)
  BY CarriesOne
<1>2. <<m, n, o>> = <<m>> \o <<n, o>>
  BY Concats
<1> QED
  BY <1>1, <1>2, CarriesCat
LEMMA LogsIn == ASSUME NEW u, NEW E PROVE Carries(LoggedIn(u), E)
<1>1. Carries(<<<<"UI-LOGGEDIN", u.login, u.balance>>>>, E) /\ Carries(<<<<"BOBDB-QUERYUSERPREF", u.login>>>>, E)
  <2>1. <<"UI-LOGGEDIN", u.login, u.balance>>[1] \notin Weighty /\ <<"BOBDB-QUERYUSERPREF", u.login>>[1] \notin Weighty
    BY DEF Weighty
  <2> QED
    BY <2>1, CarriesOne
<1> QED
  BY <1>1, CarriesNone, CarriesCat DEF LoggedIn
LEMMA LogsOut == ASSUME NEW u, NEW E PROVE Carries(LoggedOut(u), E)
<1>1. /\ <<"CASH-REJECT">>[1] \notin Weighty /\ <<"CASH-CHANGE", u.balance>>[1] \notin Weighty
      /\ <<"UI-LOGGEDOUT">>[1] \notin Weighty
  BY DEF Weighty
<1>2. Carries(<<<<"CASH-REJECT">>, <<"CASH-CHANGE", u.balance>>>>, E) /\ Carries(<<<<"UI-LOGGEDOUT">>>>, E)
  BY <1>1, CarriesOne, CarriesTwo
<1> QED
  BY <1>2, CarriesNone, CarriesCat DEF LoggedOut
LEMMA SaysPurchase == ASSUME NEW u, NEW code, NEW E PROVE Carries(PurchaseSays(u, code), E)
<1> DEFINE price == PriceFor(u, code)
<1> HIDE DEF price
<1>1. /\ <<"BOBDB-DEPOSIT", u.login, price>>[1] \notin Weighty /\ <<"BOBDB-PURCHASE", u.login, price>>[1] \notin Weighty
      /\ <<"UI-BALANCE", u.balance - price>>[1] \notin Weighty /\ <<"UI-BOUGHT", u.balance - price>>[1] \notin Weighty
  BY DEF Weighty
<1>2. /\ Carries(<<<<"BOBDB-DEPOSIT", u.login, price>>>>, E) /\ Carries(<<<<"BOBDB-PURCHASE", u.login, price>>>>, E)
      /\ Carries(<<<<"UI-BALANCE", u.balance - price>>, <<"UI-BOUGHT", u.balance - price>>>>, E)
  BY <1>1, CarriesOne, CarriesTwo
<1>4. Carries(<<<<"BOBDB-PURCHASE", u.login, price>>, <<"UI-BALANCE", u.balance - price>>, <<"UI-BOUGHT", u.balance - price>>>>, E)
  BY <1>1, <1>2, CarriesMore
<1>5. Carries(IF IsAnon(u) THEN <<<<"BOBDB-DEPOSIT", u.login, price>>>> ELSE <<>>, E)
  BY <1>2, CarriesNone
<1>6. PurchaseSays(u, code) =
        (IF IsAnon(u) THEN <<<<"BOBDB-DEPOSIT", u.login, price>>>> ELSE <<>>)
          \o <<<<"BOBDB-PURCHASE", u.login, price>>, <<"UI-BALANCE", u.balance - price>>, <<"UI-BOUGHT", u.balance - price>>>>
  BY Zenon DEF PurchaseSays, price
<1> QED
  BY <1>4, <1>5, <1>6, CarriesCat
LEMMA SaysDeposit == ASSUME NEW u, NEW amount, NEW E PROVE Carries(DepositSays(u, amount), E)
<1>1. <<"BOBDB-DEPOSIT", u.login, amount>>[1] \notin Weighty /\ <<"UI-BALANCE", u.balance + amount>>[1] \notin Weighty
  BY DEF Weighty
<1>2. Carries(<<<<"BOBDB-DEPOSIT", u.login, amount>>>>, E) /\ Carries(<<<<"UI-BALANCE", u.balance + amount>>>>, E)
  BY <1>1, CarriesOne
<1> QED
  BY <1>2, CarriesNone, CarriesCat DEF DepositSays
LEMMA SaysPlain ==
  ASSUME NEW E, NEW kind, kind \notin Weighty
  PROVE  /\ Carries(<<<<kind>>>>, E)
         /\ \A a : Carries(<<<<kind, a>>>>, E)
         /\ \A a, b : Carries(<<<<kind, a, b>>>>, E)
         /\ \A a, b, c : Carries(<<<<kind, a, b, c>>>>, E)
         /\ \A a, b, c, d : Carries(<<<<kind, a, b, c, d>>>>, E)
<1>1. /\ <<kind>>[1] = kind /\ (\A a : <<kind, a>>[1] = kind) /\ (\A a, b : <<kind, a, b>>[1] = kind)
      /\ (\A a, b, c : <<kind, a, b, c>>[1] = kind) /\ (\A a, b, c, d : <<kind, a, b, c, d>>[1] = kind)
  OBVIOUS
<1> QED
  BY <1>1, CarriesOne

-----------------------------------------------------------------------------
(* Sessions that go on, begin and end.                                       *)
LEMMA RealUsers == \A u : DOMAIN u = UserFields => u # NoUser
<1>1. DOMAIN NoUser = {"login"}
  BY DEF NoUser
<1> QED
  BY <1>1 DEF UserFields
LEMMA NewUsers ==
  ASSUME NEW login, NEW balance
  PROVE  LET u == NewUser(login, balance)
         IN  /\ DOMAIN u = UserFields /\ u.vend = FALSE /\ u.sid = past.sessions + 1 /\ u.tag = <<"", 0>>
             /\ u.login = login /\ u.item = NoCode
  BY DEF NewUser, UserFields, NoTag

CansSame == DOMAIN past' = PastFields /\ past'.cans = past.cans /\ past'.gaveup = past.gaveup
Elsewhere == past'.cut = past.cut /\ past'.sessions = past.sessions
Later == tags' \in Nat /\ tags' >= tags

LEMMA SameUser == ASSUME CansInv, user' = user, Elsewhere PROVE CalmUser
  BY DEF CalmUser, GoesOn, Remains, Ended, Stops, Elsewhere, CansInv, Always, UserRight
LEMMA GoneCalm ==
  ASSUME user' = NoUser, past'.sessions = past.sessions,
         past'.cut = past.cut \cup {user.sid} \/ (past'.cut = past.cut /\ ~(user # NoUser /\ user.vend)), user # NoUser
  PROVE  CalmUser
  BY DEF CalmUser, Ended, Stops
LEMMA OverPast ==
  ASSUME CansInv, NEW u
  PROVE  /\ DOMAIN Over(u) = PastFields /\ Over(u).cans = past.cans /\ Over(u).gaveup = past.gaveup
         /\ Over(u).cut = past.cut /\ Over(u).sessions = past.sessions
<1>1. DOMAIN past = PastFields
  BY DEF CansInv, Shapes
<1> QED
  BY <1>1 DEF Over, Closed, PastFields

LEMMA ReadCalm ==
  ASSUME CansInv, NEW E, NEW says, Carries(says, E), alive, Inbox # <<>>, Head(Inbox)[1] # "VEND-REQUEST",
         Read("backend", says), alive' = alive, \A m \in E : Beside(m), Later, CansSame, vending' = vending, CalmUser
  PROVE  CansInv'
<1>1. Queues(bus) /\ Up /\ "backend" \in Apps /\ bus["backend"] = Inbox
  BY DEF CansInv, Shapes, Always, RestRight, Up, Apps, Inbox
<1>2. Queues(bus') /\ Thins(E) /\ RequestsKept
  BY <1>1, ReadThins
<1>3. Calm(E)
  BY <1>1, <1>2 DEF Calm, Later, CansSame, Up
<1> QED
  BY <1>3, CalmKeeps
LEMMA DieCalm ==
  ASSUME CansInv, NEW says, Carries(says, {}), Dies(says), user' = NoUser, Later, CansSame, vending' = vending, CalmUser
  PROVE  CansInv'
<1>1. Queues(bus)
  BY DEF CansInv, Shapes
<1>2. Queues(bus') /\ Thins({}) /\ Inbox' = <<>> /\ alive' = FALSE
  BY <1>1, DiesThins
<1>3. Calm({})
  BY <1>2 DEF Calm, Later, CansSame
<1> QED
  BY <1>3, CalmKeeps
LEMMA AroundCalm ==
  ASSUME CansInv, NEW E, NEW says, Carries(says, E),
         \/ Says(says)
         \/ \E a \in Apps \ {"backend"} : bus[a] # <<>> /\ Read(a, says),
         \A m \in E : Beside(m), user' = user, alive' = alive, tags' = tags, CansSame, Elsewhere, vending' = vending
  PROVE  CansInv'
<1>1. Queues(bus) /\ Up /\ tags \in Nat /\ (~alive => user = NoUser)
  BY DEF CansInv, Shapes, Always, RestRight, Up
<1>2. Queues(bus') /\ Thins(E) /\ RequestsKept /\ (~alive => Inbox' = <<>>)
  <2>1. CASE Says(says)
    BY <1>1, <2>1, SaysThins
  <2>2. CASE \E a \in Apps \ {"backend"} : bus[a] # <<>> /\ Read(a, says)
    BY <1>1, <2>2, ReadThins
  <2> QED
    BY <2>1, <2>2
<1>3. CalmUser
  BY SameUser
<1>4. Calm(E)
  BY <1>1, <1>2, <1>3 DEF Calm, CansSame, Up
<1> QED
  BY <1>4, CalmKeeps

-----------------------------------------------------------------------------
(* How the engine's handlers end.                                            *)
LEMMA Takes1 ==
  ASSUME CansInv, NEW kind, Takes(kind)
  PROVE  alive /\ Inbox # <<>> /\ Head(Inbox)[1] = kind /\ Message = Head(Inbox)
  BY DEF Takes, Next1, Message, Inbox
LEMMA TagsSame ==
  ASSUME CansInv PROVE tags \in Nat /\ past.sessions \in Nat /\ (tags' = tags \/ tags' = tags + 1 => Later)
<1>1. tags \in Nat /\ past.sessions \in Nat
  BY DEF CansInv, Shapes
<1> QED
  BY <1>1 DEF Later
LEMMA FreshBeside ==
  ASSUME CansInv, tags' = tags + 1, user' = user \/ (user # NoUser /\ user'.tag = user.tag), NEW m, NEW k,
         m[1] \in Tagged, m[2] = <<k, tags + 1>>
  PROVE  Beside(m)
<1>1. tags \in Nat /\ (user # NoUser => user.tag[2] \in 0 .. tags)
  BY DEF CansInv, Shapes, Always, UserRight
<1>2. m[2][2] = tags + 1
  OBVIOUS
<1>3. user # NoUser => m[2] # user.tag
  BY <1>1, <1>2
<1>4. m[2][2] \in 1 .. tags'
  BY <1>1, <1>2
<1> QED
  BY <1>3, <1>4 DEF Beside

(* What a handler that concerns no can leaves behind.                        *)
Calmly(kind, says, E) ==
  /\ Takes(kind) /\ kind # "VEND-REQUEST" /\ Carries(says, E) /\ \A m \in E : Beside(m)
  /\ tags' = tags \/ tags' = tags + 1
  /\ CansSame /\ vending' = vending
Alike(u) ==
  /\ user # NoUser /\ DOMAIN u = UserFields /\ u.sid = user.sid /\ u.vend = user.vend /\ u.item = user.item
  /\ u.tag = user.tag \/ (tags' = tags + 1 /\ u.tag = Tag(""))
Fresh(u) == DOMAIN u = UserFields /\ u.sid = past.sessions + 1 /\ u.vend = FALSE /\ u.tag = <<"", 0>>
Instead ==
  /\ past'.sessions = past.sessions + 1
  /\ (user = NoUser /\ past'.cut = past.cut) \/ (user # NoUser /\ past'.cut = past.cut \cup {user.sid})

LEMMA StaysSame ==
  ASSUME CansInv, NEW kind, NEW says, NEW E, Calmly(kind, says, E), Stays(user, says), Elsewhere PROVE CansInv'
<1>1. CalmUser /\ Later
  BY SameUser, TagsSame DEF Stays, Calmly
<1> QED
  BY <1>1, Takes1, ReadCalm DEF Stays, Calmly
LEMMA StaysOn ==
  ASSUME CansInv, NEW kind, NEW says, NEW E, Calmly(kind, says, E), NEW u, Stays(u, says), Alike(u), Elsewhere PROVE CansInv'
<1>1. CalmUser /\ Later
  BY TagsSame, RealUsers DEF Stays, CalmUser, GoesOn, Remains, Elsewhere, Tag, Calmly, Alike
<1> QED
  BY <1>1, Takes1, ReadCalm DEF Stays, Calmly
LEMMA Newly ==
  ASSUME CansInv, NEW kind, NEW says, NEW E, Calmly(kind, says, E), NEW u, user' = u, Read("backend", says), alive' = alive,
         Fresh(u), Instead
  PROVE  CansInv'
<1>1. CalmUser /\ Later
  BY TagsSame, RealUsers DEF CalmUser, Comes, Ended, Stops, Calmly, Fresh, Instead
<1> QED
  BY <1>1, Takes1, ReadCalm DEF Calmly
LEMMA StaysNew ==
  ASSUME CansInv, NEW kind, NEW says, NEW E, Calmly(kind, says, E), NEW u, Stays(u, says), Fresh(u), Instead PROVE CansInv'
  BY Newly DEF Stays
LEMMA DepartsReads ==
  ASSUME NEW u, NEW says, Carries(says, {}), Departs(u, says)
  PROVE  \E heard : Carries(heard, {}) /\ Read("backend", heard)
<1>1. Carries(says \o LoggedOut(u), {})
  BY LogsOut, CarriesCat
<1> QED
  BY <1>1 DEF Departs
LEMMA LeavesCalm ==
  ASSUME CansInv, NEW kind, NEW says, Calmly(kind, says, {}), NEW u, Leaves(u, says), Elsewhere, user # NoUser, ~user.vend
  PROVE  CansInv'
<1>1. Carries(says \o LoggedOut(u), {}) /\ Carries(says, {})
  BY LogsOut, CarriesCat DEF Calmly
<1>2. user' = NoUser /\ CalmUser /\ Later
  BY TagsSame, GoneCalm DEF Leaves, Elsewhere, Calmly
<1>3. CASE Departs(u, says) /\ alive' = TRUE
  <2>1. alive' = alive
    BY <1>3, Takes1 DEF CansInv, Shapes, Calmly
  <2>2. PICK heard : Carries(heard, {}) /\ Read("backend", heard)
    BY <1>1, <1>3, DepartsReads
  <2> QED
    BY <1>2, <2>1, <2>2, Takes1, ReadCalm DEF Calmly
<1>4. CASE Dies(says \o LoggedOut(u))
  BY <1>1, <1>2, <1>4, DieCalm DEF Calmly
<1> QED
  BY <1>3, <1>4 DEF Leaves
(* The history is left alone, or the session is counted.                     *)
LEMMA PastSame == ASSUME CansInv, past' = past PROVE CansSame /\ Elsewhere
  BY DEF CansInv, Shapes, CansSame, Elsewhere
LEMMA PastMixed ==
  ASSUME CansInv, NEW b, past' = [past EXCEPT !.mixed = b] \/ past' = [past EXCEPT !.both = b] \/ past' = [past EXCEPT !.asked = b]
                         \/ past' = [past EXCEPT !.owed = b]
  PROVE  CansSame /\ Elsewhere
<1>1. DOMAIN past = PastFields
  BY DEF CansInv, Shapes
<1> QED
  BY <1>1 DEF CansSame, Elsewhere, PastFields
LEMMA PastOver == ASSUME CansInv, NEW u, past' = Over(u) PROVE CansSame /\ Elsewhere
  BY OverPast DEF CansSame, Elsewhere
LEMMA PastBegan ==
  ASSUME CansInv, user = NoUser, NEW b, past' = Began \/ past' = BeganBy(b) PROVE CansSame /\ Instead
<1>1. DOMAIN past = PastFields
  BY DEF CansInv, Shapes
<1> QED
  BY <1>1 DEF CansSame, Began, BeganBy, PastFields, Instead
LEMMA UserIs == ASSUME CansInv, user # NoUser PROVE DOMAIN user = UserFields
  BY DEF CansInv, Always, UserRight

-----------------------------------------------------------------------------
(* The handlers no can is concerned by.                                      *)
LEMMA LoginKeeps == ASSUME CansInv, HandleLogin, vending' = vending PROVE CansInv'
<1>1. Takes("LOGIN") /\ (tags' = tags \/ tags' = tags + 1)
  BY DEF HandleLogin, NoTags
<1>2. CASE Stays(user, <<>>) /\ UNCHANGED past
  <2>1. CansSame /\ Elsewhere
    BY <1>2, PastSame
  <2>2. Calmly("LOGIN", <<>>, {})
    BY <1>1, <2>1, CarriesNone DEF Calmly
  <2> QED
    BY <1>2, <2>1, <2>2, StaysSame
<1>3. CASE /\ user = NoUser /\ Begins(NewUser(Message[2], Message[3]), <<>>)
           /\ past' = BeganBy(Message[4])
  <2> DEFINE u == NewUser(Message[2], Message[3])
  <2>1. Fresh(u)
    BY DEF Fresh, NewUser, UserFields, NoTag
  <2>2. Carries(LoggedIn(u) \o <<>>, {}) /\ Stays(u, LoggedIn(u) \o <<>>)
    BY <1>3, LogsIn, CarriesNone, CarriesCat DEF Begins
  <2> HIDE DEF u
  <2>3. CansSame /\ Instead
    BY <1>3, PastBegan
  <2>4. Calmly("LOGIN", LoggedIn(u) \o <<>>, {})
    BY <1>1, <2>2, <2>3 DEF Calmly
  <2> QED
    BY <2>1, <2>2, <2>3, <2>4, StaysNew
<1>4. CASE /\ tags' = tags + 1
           /\ Stays(user, <<<<"BOBDB-QUERYUSER", Tag(""), Message[2]>>>>) /\ past' = Asked
  <2> DEFINE m == <<"BOBDB-QUERYUSER", Tag(""), Message[2]>>
  <2>1. m[1] \in Tagged /\ m[2] = <<"", tags + 1>>
    BY DEF Tagged, Tag
  <2>2. Stays(user, <<m>>) /\ user' = user
    BY <1>4 DEF Stays
  <2> HIDE DEF m
  <2>3. Beside(m)
    BY <1>4, <2>1, <2>2, FreshBeside
  <2>4. CansSame /\ Elsewhere
    BY <1>4, PastMixed DEF Asked
  <2>5. Calmly("LOGIN", <<m>>, {m})
    BY <1>1, <2>3, <2>4, CarriesOne DEF Calmly
  <2> QED
    BY <2>2, <2>4, <2>5, StaysSame
<1> QED
  BY <1>2, <1>3, <1>4 DEF HandleLogin, NoTags

LEMMA AsksKeeps ==
  ASSUME CansInv, NEW taken, taken # "VEND-REQUEST", Takes(taken), NEW kind, NEW who, Asks(kind, who), vending' = vending
  PROVE  CansInv'
<1> DEFINE m == <<"BOBDB-QUERYUSER", Tag(kind), who>>
<1>1. m[1] \in Tagged /\ m[2] = <<kind, tags + 1>>
  BY DEF Tagged, Tag
<1>2. Stays(user, <<m>>) /\ user' = user /\ tags' = tags + 1
  BY DEF Asks, Stays
<1> HIDE DEF m
<1>3. Beside(m)
  BY <1>1, <1>2, FreshBeside
<1>4. CansSame /\ Elsewhere
  BY PastMixed DEF Asks, Asked
<1>5. Calmly(taken, <<m>>, {m})
  BY <1>2, <1>3, <1>4, CarriesOne DEF Calmly
<1> QED
  BY <1>2, <1>4, <1>5, StaysSame

LEMMA FpGoodReadKeeps == ASSUME CansInv, HandleFpGoodRead, vending' = vending PROVE CansInv'
<1>1. Takes("FP-GOODREAD")
  BY DEF HandleFpGoodRead
<1>2. CASE Asks("F", Message[2])
  BY <1>1, <1>2, AsksKeeps
<1>3. CASE Stays(user, <<>>) /\ UNCHANGED past /\ NoTags
  <2>1. CansSame /\ Elsewhere
    BY <1>3, PastSame
  <2>2. Calmly("FP-GOODREAD", <<>>, {})
    BY <1>1, <1>3, <2>1, CarriesNone DEF Calmly, NoTags
  <2> QED
    BY <1>3, <2>1, <2>2, StaysSame
<1> QED
  BY <1>2, <1>3 DEF HandleFpGoodRead

LEMMA UserInfoKeeps == ASSUME CansInv, HandleBobDBUserInfo, vending' = vending PROVE CansInv'
<1>1. Takes("BOBDB-USERINFO") /\ tags' = tags
  BY DEF HandleBobDBUserInfo, NoTags
<1>2. CASE Stays(user, <<>>) /\ UNCHANGED past
  <2>1. CansSame /\ Elsewhere
    BY <1>2, PastSame
  <2>2. Calmly("BOBDB-USERINFO", <<>>, {})
    BY <1>1, <2>1, CarriesNone DEF Calmly
  <2> QED
    BY <1>2, <2>1, <2>2, StaysSame
<1> DEFINE u == NewUser(Message[3], Message[4])
<1>6. Fresh(u)
  BY DEF Fresh, NewUser, UserFields, NoTag
<1> HIDE DEF u
<1>0. Fresh(u) /\ Carries(LoggedIn(u), {}) /\ Carries(LoggedIn(u) \o <<>>, {})
  <2>1. Carries(LoggedIn(u), {}) /\ Carries(<<>>, {})
    BY LogsIn, CarriesNone
  <2> QED
    BY <1>6, <2>1, CarriesCat
<1>3. CASE user = NoUser /\ Begins(u, <<>>) /\ past' = BeganBy(past.asked)
  <2>1. CansSame /\ Instead
    BY <1>3, PastBegan
  <2>2. Calmly("BOBDB-USERINFO", LoggedIn(u) \o <<>>, {})
    BY <1>0, <1>1, <2>1 DEF Calmly
  <2> QED
    BY <1>0, <1>3, <2>1, <2>2, StaysNew DEF Begins
<1>5. CASE /\ user # NoUser /\ user' = u /\ Departs(user, LoggedIn(u)) /\ UNCHANGED alive
           /\ past' = [Over(user) EXCEPT !.sessions = @ + 1, !.cut = @ \cup {user.sid}, !.mixed = {"replaced", "stale"}]
  <2>1. CansSame /\ Instead
    BY <1>5, OverPast DEF CansSame, PastFields, Instead
  <2>2. PICK heard : Carries(heard, {}) /\ Read("backend", heard)
    BY <1>0, <1>5, DepartsReads
  <2>3. Calmly("BOBDB-USERINFO", heard, {})
    BY <1>1, <2>1, <2>2 DEF Calmly
  <2> QED
    BY <1>0, <1>5, <2>1, <2>2, <2>3, Newly
<1>4. CASE /\ Stays(user, <<<<"UI-PASSWORD", Message[3], Message[4], past.asked>>>>)
           /\ past' = IF user = NoUser THEN past ELSE [past EXCEPT !.mixed = @ \cup {"prompted"}]
  <2> DEFINE m == <<"UI-PASSWORD", Message[3], Message[4], past.asked>>
  <2>1. m[1] \notin Weighty
    BY DEF Weighty
  <2> HIDE DEF m
  <2>2. CansSame /\ Elsewhere
    BY <1>4, PastMixed, PastSame
  <2>3. Calmly("BOBDB-USERINFO", <<m>>, {})
    BY <1>1, <2>1, <2>2, CarriesOne DEF Calmly
  <2>4. Stays(user, <<m>>)
    BY <1>4 DEF m
  <2> QED
    BY <2>2, <2>3, <2>4, StaysSame
<1> QED
  BY <1>2, <1>3, <1>4, <1>5 DEF HandleBobDBUserInfo, u

LEMMA LogoutKeeps == ASSUME CansInv, HandleLogout, vending' = vending PROVE CansInv'
<1>1. PICK kind \in {"LOGOUT", "CASH-RETURN"} : Takes(kind)
  BY DEF HandleLogout
<1>2. CansSame /\ Elsewhere
  BY PastSame, PastOver DEF HandleLogout
<1>3. Calmly(kind, <<>>, {})
  BY <1>1, <1>2, CarriesNone DEF HandleLogout, Calmly
<1>4. CASE Stays(user, <<>>)
  BY <1>2, <1>3, <1>4, StaysSame
<1>5. CASE user # NoUser /\ CanLogout(user) /\ Leaves(user, <<>>)
  <2>1. ~user.vend
    BY <1>5 DEF CanLogout
  <2> QED
    BY <1>2, <1>3, <1>5, <2>1, LeavesCalm
<1>6. CASE user # NoUser /\ Stays([user EXCEPT !.should = TRUE], <<>>)
  <2>1. Alike([user EXCEPT !.should = TRUE])
    BY <1>6, UserIs DEF Alike, UserFields
  <2> QED
    BY <1>2, <1>3, <1>6, <2>1, StaysOn
<1> QED
  BY <1>4, <1>5, <1>6 DEF HandleLogout

LEMMA UserPrefKeeps == ASSUME CansInv, HandleBobDBUserPref, vending' = vending PROVE CansInv'
<1>1. CansSame /\ Elsewhere
  BY PastSame DEF HandleBobDBUserPref
<1>2. Calmly("BOBDB-USERPREF", <<>>, {})
  BY <1>1, CarriesNone DEF HandleBobDBUserPref, Calmly, NoTags
<1>3. CASE Stays(user, <<>>)
  BY <1>1, <1>2, <1>3, StaysSame
<1>4. CASE user # NoUser /\ Stays([user EXCEPT !.should = TRUE], <<>>)
  <2>1. Alike([user EXCEPT !.should = TRUE])
    BY <1>4, UserIs DEF Alike, UserFields
  <2> QED
    BY <1>1, <1>2, <1>4, <2>1, StaysOn
<1> QED
  BY <1>3, <1>4 DEF HandleBobDBUserPref

LEMMA VendReadyKeeps == ASSUME CansInv, HandleVendReady, vending' = vending PROVE CansInv'
<1>1. CansSame /\ Elsewhere
  BY PastSame DEF HandleVendReady
<1>2. Carries(<<<<"VEND-SSTART">>>>, {})
  BY SaysPlain DEF Weighty
<1>3. Calmly("VEND-READY", <<<<"VEND-SSTART">>>>, {})
  BY <1>1, <1>2 DEF HandleVendReady, Calmly, NoTags
<1> QED
  BY <1>1, <1>3, StaysSame DEF HandleVendReady

LEMMA ScanKeeps == ASSUME CansInv, HandleBarCodeScan, vending' = vending PROVE CansInv'
<1>1. Takes("BARCODE-SCAN")
  BY DEF HandleBarCodeScan
<1>2. CASE Asks("B", Message[2])
  BY <1>1, <1>2, AsksKeeps
<1>3. CASE /\ user # NoUser
           /\ Stays([user EXCEPT !.barcode = TRUE, !.barcodetag = Tag("B")], <<<<"BOBDB-QUERYPRODUCT", Tag("B"), Message[2]>>>>)
           /\ UNCHANGED past /\ NewTag
  <2> DEFINE u == [user EXCEPT !.barcode = TRUE, !.barcodetag = Tag("B")]
             m == <<"BOBDB-QUERYPRODUCT", Tag("B"), Message[2]>>
  <2>1. Alike(u) /\ u.tag = user.tag
    BY <1>3, UserIs DEF Alike, UserFields
  <2>2. m[1] \in Tagged /\ m[2] = <<"B", tags + 1>>
    BY DEF Tagged, Tag
  <2>3. Stays(u, <<m>>) /\ user' = u /\ tags' = tags + 1
    BY <1>3 DEF NewTag, Stays
  <2> HIDE DEF u, m
  <2>4. Beside(m)
    BY <1>3, <2>1, <2>2, <2>3, FreshBeside
  <2>5. CansSame /\ Elsewhere
    BY <1>3, PastSame
  <2>6. Calmly("BARCODE-SCAN", <<m>>, {m})
    BY <1>1, <2>3, <2>4, <2>5, CarriesOne DEF Calmly
  <2> QED
    BY <2>1, <2>3, <2>5, <2>6, StaysOn
<1> QED
  BY <1>2, <1>3 DEF HandleBarCodeScan

LEMMA EscrowKeeps == ASSUME CansInv, HandleEscrow, vending' = vending PROVE CansInv'
<1>1. Takes("CASH-ESCROW") /\ tags' = tags
  BY DEF HandleEscrow, NoTags
<1>2. Carries(<<<<"CASH-ACCEPT">>>>, {}) /\ Carries(<<<<"CASH-REJECT">>>>, {}) /\ Carries(<<>>, {})
  BY SaysPlain, CarriesNone DEF Weighty
<1>3. CASE (Stays(user, <<<<"CASH-REJECT">>>>) \/ Stays(user, <<>>)) /\ UNCHANGED past
  <2>1. CansSame /\ Elsewhere
    BY <1>3, PastSame
  <2>2. Calmly("CASH-ESCROW", <<<<"CASH-REJECT">>>>, {}) /\ Calmly("CASH-ESCROW", <<>>, {})
    BY <1>1, <1>2, <2>1 DEF Calmly
  <2> QED
    BY <1>3, <2>1, <2>2, StaysSame
<1>4. CASE user = NoUser /\ Begins([NewUser(Anonymous, 0) EXCEPT !.escrow = TRUE], <<<<"CASH-ACCEPT">>>>) /\ past' = Began
  <2> DEFINE u == [NewUser(Anonymous, 0) EXCEPT !.escrow = TRUE]
  <2>1. Fresh(u)
    BY DEF Fresh, NewUser, UserFields, NoTag
  <2>2. Stays(u, LoggedIn(u) \o <<<<"CASH-ACCEPT">>>>) /\ Carries(LoggedIn(u) \o <<<<"CASH-ACCEPT">>>>, {})
    BY <1>2, <1>4, LogsIn, CarriesCat DEF Begins
  <2> HIDE DEF u
  <2>3. CansSame /\ Instead
    BY <1>4, PastBegan
  <2>4. Calmly("CASH-ESCROW", LoggedIn(u) \o <<<<"CASH-ACCEPT">>>>, {})
    BY <1>1, <2>2, <2>3 DEF Calmly
  <2> QED
    BY <2>1, <2>2, <2>3, <2>4, StaysNew
<1>5. CASE user # NoUser /\ Stays([user EXCEPT !.escrow = TRUE], <<<<"CASH-ACCEPT">>>>) /\ UNCHANGED past
  <2>1. Alike([user EXCEPT !.escrow = TRUE])
    BY <1>5, UserIs DEF Alike, UserFields
  <2>2. CansSame /\ Elsewhere
    BY <1>5, PastSame
  <2>3. Calmly("CASH-ESCROW", <<<<"CASH-ACCEPT">>>>, {})
    BY <1>1, <1>2, <2>2 DEF Calmly
  <2> QED
    BY <1>5, <2>1, <2>2, <2>3, StaysOn
<1> QED
  BY <1>3, <1>4, <1>5 DEF HandleEscrow

LEMMA DepositKeeps == ASSUME CansInv, HandleDeposit, vending' = vending PROVE CansInv'
<1>1. Takes("CASH-DEPOSIT") /\ tags' = tags + 1
  BY DEF HandleDeposit, NewTag
<1>2. CASE /\ user = NoUser /\ past' = Began
           /\ user' = Deposited(NewUser(Anonymous, 0), Message[2]) /\ UNCHANGED <<alive, farewell>>
           /\ Read("backend", LoggedIn(NewUser(Anonymous, 0)) \o DepositSays(NewUser(Anonymous, 0), Message[2]))
  <2> DEFINE v == NewUser(Anonymous, 0)
             u == Deposited(v, Message[2])
             says == LoggedIn(v) \o DepositSays(v, Message[2])
  <2>1. Fresh(v) /\ IsAnon(v)
    BY DEF Fresh, NewUser, UserFields, NoTag, IsAnon
  <2>2. Stays(u, says) /\ Carries(says, {})
    BY <1>2, LogsIn, SaysDeposit, CarriesCat DEF Stays
  <2> HIDE DEF v, says
  <2>3. Fresh(u)
    BY <2>1 DEF Deposited, Fresh, UserFields
  <2> HIDE DEF u
  <2>4. CansSame /\ Instead
    BY <1>2, PastBegan
  <2>5. Calmly("CASH-DEPOSIT", says, {})
    BY <1>1, <2>2, <2>4 DEF Calmly
  <2> QED
    BY <2>2, <2>3, <2>4, <2>5, StaysNew
<1>3. CASE user # NoUser /\ Stays(Deposited(user, Message[2]), DepositSays(user, Message[2])) /\ UNCHANGED past
  <2> DEFINE u == Deposited(user, Message[2])
             says == DepositSays(user, Message[2])
  <2>1. Alike(u)
    BY <1>1, <1>3, UserIs DEF Deposited, Alike, UserFields
  <2>2. Stays(u, says) /\ Carries(says, {})
    BY <1>3, SaysDeposit
  <2> HIDE DEF u, says
  <2>3. CansSame /\ Elsewhere
    BY <1>3, PastSame
  <2>4. Calmly("CASH-DEPOSIT", says, {})
    BY <1>1, <2>2, <2>3 DEF Calmly
  <2> QED
    BY <2>1, <2>2, <2>3, <2>4, StaysOn
<1> QED
  BY <1>2, <1>3 DEF HandleDeposit

LEMMA LearnKeeps ==
  ASSUME CansInv, HandleLearnStart \/ HandleLearnEnd \/ HandleFpLearnGood \/ HandleSysSet, vending' = vending
  PROVE  CansInv'
<1>1. /\ Carries(<<>>, {}) /\ Carries(<<<<"FP-LEARN-START", user.login>>>>, {}) /\ Carries(<<<<"FP-LEARN-STOP">>>>, {})
      /\ Carries(<<<<"UI-FP-NOTICE", TRUE>>, <<"FP-LEARN-STOP">>>>, {})
  <2>1. <<"UI-FP-NOTICE", TRUE>>[1] \notin Weighty /\ <<"FP-LEARN-STOP">>[1] \notin Weighty
        /\ <<"FP-LEARN-START", user.login>>[1] \notin Weighty
    BY DEF Weighty
  <2> QED
    BY <2>1, CarriesNone, CarriesOne, CarriesTwo
<1>2. CansSame /\ Elsewhere /\ tags' = tags
  BY PastSame DEF HandleLearnStart, HandleLearnEnd, HandleFpLearnGood, HandleSysSet
<1>3. PICK kind \in {"LEARNSTART", "LEARNEND", "FP-LEARN-GOOD", "SYS-VALUE"} : Takes(kind)
  BY DEF HandleLearnStart, HandleLearnEnd, HandleFpLearnGood, HandleSysSet
<1>4. /\ Calmly(kind, <<>>, {}) /\ Calmly(kind, <<<<"FP-LEARN-START", user.login>>>>, {})
      /\ Calmly(kind, <<<<"FP-LEARN-STOP">>>>, {}) /\ Calmly(kind, <<<<"UI-FP-NOTICE", TRUE>>, <<"FP-LEARN-STOP">>>>, {})
  BY <1>1, <1>2, <1>3 DEF Calmly
<1>5. \/ Stays(user, <<>>) \/ Stays(user, <<<<"FP-LEARN-START", user.login>>>>)
      \/ Stays(user, <<<<"FP-LEARN-STOP">>>>) \/ Stays(user, <<<<"UI-FP-NOTICE", TRUE>>, <<"FP-LEARN-STOP">>>>)
  BY DEF HandleLearnStart, HandleLearnEnd, HandleFpLearnGood, HandleSysSet
<1> QED
  BY <1>2, <1>4, <1>5, StaysSame

(* The main loop ends a session, or the process ends.                        *)
LEMMA CutIs ==
  ASSUME CansInv, user # NoUser, Cut
  PROVE  user' = NoUser /\ CansSame /\ CalmUser /\ tags' = tags
<1>1. past' = [Over(user) EXCEPT !.cut = @ \cup {user.sid}]
  BY DEF Cut
<1>2. CansSame /\ past'.cut = past.cut \cup {user.sid} /\ past'.sessions = past.sessions
  BY <1>1, OverPast DEF CansSame, PastFields
<1> QED
  BY <1>2, GoneCalm DEF Cut
LEMMA TimedOutKeeps == ASSUME CansInv, TimedOut, vending' = vending PROVE CansInv'
<1>1. user # NoUser /\ alive /\ Cut /\ bus' = bus /\ alive' = alive
  BY DEF TimedOut
<1>2. user' = NoUser /\ CansSame /\ CalmUser /\ Later
  BY <1>1, CutIs, TagsSame
<1>3. Queues(bus) /\ Up
  BY DEF CansInv, Shapes, Always, RestRight, Up
<1>4. Queues(bus') /\ Thins({}) /\ RequestsKept
  BY <1>1, <1>3, LessSame DEF Thins, RequestsKept, Inbox
<1>5. Calm({})
  BY <1>1, <1>2, <1>3, <1>4 DEF Calm, Later, CansSame, Up
<1> QED
  BY <1>5, CalmKeeps
LEMMA CutDies ==
  ASSUME CansInv, user # NoUser, Cut, Dies(<<>>), vending' = vending PROVE CansInv'
<1>1. user' = NoUser /\ CansSame /\ CalmUser /\ Later
  BY CutIs, TagsSame
<1> QED
  BY <1>1, CarriesNone, DieCalm
LEMMA RestartKeeps == ASSUME CansInv, Restart, vending' = vending PROVE CansInv'
<1>1. ~alive /\ alive' = TRUE /\ bus' = Sent(bus, <<<<"UI-LOGGEDOUT">>>>, TRUE) /\ user' = user /\ past' = past /\ tags' = tags
  BY DEF Restart
<1>2. Queues(bus) /\ Watched \subseteq Apps /\ "backend" \in Apps
  BY DEF CansInv, Shapes, Watched, Apps
<1>3. Carries(<<<<"UI-LOGGEDOUT">>>>, {})
  BY SaysPlain DEF Weighty
<1>4. /\ Queues(bus') /\ \A a \in Apps : Less(bus[a], bus'[a], {})
      /\ ToSet(bus["backend"]) \subseteq ToSet(bus'["backend"])
  BY <1>1, <1>2, <1>3, SentLess
<1>5. Thins({}) /\ RequestsKept
  BY <1>2, <1>4 DEF Thins, RequestsKept, Inbox
<1>6. CansSame /\ CalmUser /\ Later
  BY <1>1, PastSame, SameUser, TagsSame
<1>7. Calm({})
  BY <1>1, <1>4, <1>5, <1>6 DEF Calm, CansSame, Later
<1> QED
  BY <1>7, CalmKeeps

-----------------------------------------------------------------------------
(* What is left of the engine in which no can is concerned.                  *)
LEMMA OvertakenKeeps == ASSUME CansInv, Overtaken, vending' = vending PROVE CansInv'
  BY CutDies DEF Overtaken
LEMMA NobodyFailedKeeps ==
  ASSUME CansInv, Takes("VEND-FAILED"), user = NoUser, Dies(<<>>), UNCHANGED <<user, tags, past, vending>> PROVE CansInv'
<1>1. CansSame /\ Elsewhere /\ Later
  BY PastSame, TagsSame
<1>2. CalmUser
  BY <1>1, SameUser
<1> QED
  BY <1>1, <1>2, CarriesNone, DieCalm
LEMMA NotForCanKeeps ==
  ASSUME CansInv, HandleBobDBProductInfo, vending' = vending, user # NoUser => ~IsForCan(Message[2])
  PROVE  CansInv'
<1> DEFINE code == Message[3]
<1>1. Takes("BOBDB-PRODUCTINFO")
  BY DEF HandleBobDBProductInfo
<1>2. Carries(<<>>, {})
  BY CarriesNone
<1>3. CASE Stays(user, <<>>) /\ UNCHANGED past /\ NoTags
  <2>1. CansSame /\ Elsewhere
    BY <1>3, PastSame
  <2>2. Calmly("BOBDB-PRODUCTINFO", <<>>, {})
    BY <1>1, <1>2, <1>3, <2>1 DEF Calmly, NoTags
  <2> QED
    BY <1>3, <2>1, <2>2, StaysSame
<1>4. CASE user # NoUser /\ ReadScanInfo(code)
  <2> DEFINE u == Pays(user, code)
             says == PurchaseSays(user, code)
             scanned == [past EXCEPT !.both = @ \/ user.item # NoCode]
  <2>1. Carries(says, {})
    BY SaysPurchase
  <2>2. /\ u # NoUser /\ DOMAIN u = UserFields /\ u.sid = user.sid /\ u.vend = user.vend /\ u.item = user.item
        /\ u.tag = Tag("") /\ u.should = user.should
    <3>1. DOMAIN user = UserFields
      BY <1>4, UserIs
    <3>2. DOMAIN u = UserFields
      BY <3>1 DEF Pays, Bought
    <3> QED
      BY <3>1, <3>2, RealUsers DEF Pays, Bought, UserFields
  <2>3. CASE Stays([user EXCEPT !.barcode = FALSE], <<>>) /\ UNCHANGED past /\ NoTags
    <3>1. CansSame /\ Elsewhere
      BY <2>3, PastSame
    <3>2. Calmly("BOBDB-PRODUCTINFO", <<>>, {})
      BY <1>1, <1>2, <2>3, <3>1 DEF Calmly, NoTags
    <3>3. Alike([user EXCEPT !.barcode = FALSE])
      BY <1>4, UserIs DEF Alike, UserFields
    <3> QED
      BY <2>3, <3>1, <3>2, <3>3, StaysOn
  <2> DEFINE gone == CanLogout(u) /\ Leaves(u, says) /\ tags' = tags + 1 /\ past' = Closed(scanned, u)
             on == Stays(u, says) /\ past' = scanned /\ NewTag
  <2>4. gone \/ on \/ (Stays([user EXCEPT !.barcode = FALSE], <<>>) /\ UNCHANGED past /\ NoTags)
    BY <1>4 DEF ReadScanInfo
  <2>5. CASE gone
    <3>1. ~user.vend
      BY <2>2, <2>5 DEF CanLogout
    <3>2. CansSame /\ Elsewhere
      <4>1. DOMAIN past = PastFields
        BY DEF CansInv, Shapes
      <4> QED
        BY <2>5, <4>1 DEF CansSame, Closed, Elsewhere, PastFields
    <3>3. Calmly("BOBDB-PRODUCTINFO", says, {})
      BY <1>1, <2>1, <2>5, <3>2 DEF Calmly
    <3> HIDE DEF u, says
    <3> QED
      BY <1>4, <2>5, <3>1, <3>2, <3>3, LeavesCalm
  <2>6. CASE on
    <3>1. CansSame /\ Elsewhere
      BY <2>6, PastMixed
    <3>2. Calmly("BOBDB-PRODUCTINFO", says, {})
      BY <1>1, <2>1, <2>6, <3>1 DEF Calmly, NewTag
    <3>3. Alike(u)
      BY <1>4, <2>2, <2>6 DEF Alike, NewTag
    <3> HIDE DEF u, says
    <3> QED
      BY <2>6, <3>1, <3>2, <3>3, StaysOn
  <2> HIDE DEF gone, on
  <2> QED
    BY <2>3, <2>4, <2>5, <2>6
<1> QED
  BY <1>3, <1>4 DEF HandleBobDBProductInfo
LEMMA NotForCanFailKeeps ==
  ASSUME CansInv, HandleBobDBFail, vending' = vending, user # NoUser => ~IsForCan(Message[2])
  PROVE  CansInv'
<1>1. CansSame /\ Elsewhere
  BY PastSame DEF HandleBobDBFail
<1>2. Calmly("BOBDB-FAIL", <<>>, {})
  BY <1>1, CarriesNone DEF HandleBobDBFail, Calmly, NoTags
<1>3. CASE Stays(user, <<>>)
  BY <1>1, <1>2, <1>3, StaysSame
<1>4. CASE user # NoUser /\ Stays([user EXCEPT !.barcode = FALSE], <<>>)
  <2>1. Alike([user EXCEPT !.barcode = FALSE])
    BY <1>4, UserIs DEF Alike, UserFields
  <2> QED
    BY <1>1, <1>2, <1>4, <2>1, StaysOn
<1> QED
  BY <1>3, <1>4 DEF HandleBobDBFail

-----------------------------------------------------------------------------
(* The screen, the money, the scanners and most of the database.             *)
Untouched == UNCHANGED <<user, tags, alive, vending>>
LEMMA StillKeeps == ASSUME CansInv, UNCHANGED bus, Untouched, CansSame, Elsewhere PROVE CansInv'
<1>1. Queues(bus) /\ Up /\ tags \in Nat /\ (~alive => user = NoUser)
  BY DEF CansInv, Shapes, Always, RestRight, Up
<1>2. Thins({}) /\ RequestsKept
  BY LessSame DEF Thins, RequestsKept, Inbox
<1>3. CalmUser
  BY SameUser DEF Untouched
<1>4. (~alive' => Inbox' = <<>>) /\ Queues(bus')
  BY <1>1 DEF Up, Inbox, Untouched
<1>5. Calm({})
  BY <1>1, <1>2, <1>3, <1>4 DEF Calm, CansSame, Untouched, Up
<1> QED
  BY <1>5, CalmKeeps
LEMMA SaysKeeps ==
  ASSUME CansInv, NEW says, Carries(says, {}), Says(says), Untouched, CansSame, Elsewhere PROVE CansInv'
  BY AroundCalm DEF Untouched
LEMMA ReadsKeeps ==
  ASSUME CansInv, NEW says, Carries(says, {}), NEW a \in Apps \ {"backend"}, bus[a] # <<>>, Read(a, says), Untouched, CansSame, Elsewhere
  PROVE  CansInv'
  BY AroundCalm DEF Untouched

(* What a session has yet to say as it goes concerns no can.                 *)
Parting == Carries(farewell, {})
LEMMA GoodbyeKeeps == ASSUME CansInv, Parting, Goodbye, vending' = vending PROVE CansInv'
<1>1. CansSame /\ Elsewhere /\ Untouched
  BY PastSame DEF Goodbye, Untouched
<1>2. PICK S : farewell \in Seq(S)
  BY DEF Parting, Carries
<1>3. Head(farewell) \in ToSet(farewell)
  BY <1>2, TailOf DEF Goodbye
<1>4. Carries(<<Head(farewell)>>, {})
  BY <1>3, CarriesOne DEF Parting, Carries
<1> QED
  BY <1>1, <1>4, SaysKeeps DEF Goodbye
LEMMA PartingLeaves == ASSUME Parting, NEW u, NEW says, Leaves(u, says) PROVE Parting'
  BY LogsOut DEF Leaves, Departs, Parting
LEMMA PartingCut == ASSUME Parting, Cut PROVE Parting'
  BY LogsOut, CarriesCat DEF Cut, Parting
LEMMA PartingStays == ASSUME Parting, NEW u, NEW says, Stays(u, says) PROVE Parting'
  BY DEF Stays, Parting
LEMMA PartingEngine == ASSUME Parting, BackendNext PROVE Parting'
<1>1. CASE HandleLogin \/ HandleFpGoodRead
  BY <1>1, PartingStays DEF HandleLogin, HandleFpGoodRead, Asks, Begins
<1>2. CASE HandleBobDBUserInfo
  <2>1. CASE \E u : Departs(user, LoggedIn(u))
    BY <2>1, LogsOut DEF Departs, Parting
  <2> QED
    BY <1>2, <2>1, PartingStays DEF HandleBobDBUserInfo, Begins
<1>3. CASE HandleLogout \/ HandleBobDBUserPref \/ HandleVendReady \/ HandleBarCodeScan \/ HandleEscrow \/ HandleBobDBFail
  BY <1>3, PartingStays, PartingLeaves
     DEF HandleLogout, HandleBobDBUserPref, HandleVendReady, HandleBarCodeScan, HandleEscrow, HandleBobDBFail, Asks, Begins
<1>4. CASE HandleVendRequest \/ HandleVendFailed
  BY <1>4, PartingStays, PartingLeaves, PartingCut DEF HandleVendRequest, HandleVendFailed, Parting
<1>5. CASE HandleBobDBProductInfo
  BY <1>5, PartingStays, PartingLeaves DEF HandleBobDBProductInfo, ReadCanInfo, ReadScanInfo
<1>6. CASE HandleVendSuccess
  BY <1>6, PartingStays, PartingLeaves DEF HandleVendSuccess
<1>7. CASE HandleDeposit
  BY <1>7, PartingStays DEF HandleDeposit, Parting
<1>8. CASE HandleLearnStart \/ HandleLearnEnd \/ HandleFpLearnGood \/ HandleSysSet
  BY <1>8, PartingStays DEF HandleLearnStart, HandleLearnEnd, HandleFpLearnGood, HandleSysSet
<1>9. CASE TimedOut \/ Overtaken \/ Restart
  BY <1>9, PartingCut DEF TimedOut, Overtaken, Restart, Parting
<1>10. CASE Goodbye
  <2>1. PICK S : farewell \in Seq(S)
    BY DEF Parting, Carries
  <2>2. Tail(farewell) \in Seq(S) /\ ToSet(Tail(farewell)) \subseteq ToSet(farewell) /\ farewell' = Tail(farewell)
    BY <1>10, <2>1, TailOf DEF Goodbye
  <2> QED
    BY <2>2 DEF Parting, Carries
<1> QED
  BY <1>1, <1>2, <1>3, <1>4, <1>5, <1>6, <1>7, <1>8, <1>9, <1>10 DEF BackendNext
LEMMA PartingStep == ASSUME Parting, [MachineNext]_everything PROVE Parting'
<1>1. CASE Engine
  BY <1>1, PartingEngine DEF Engine
<1>2. CASE farewell' = farewell
  BY <1>2 DEF Parting
<1> QED
  BY <1>1, <1>2 DEF MachineNext, Screen, Around, everything, backend

LEMMA SaysChange == ASSUME NEW g, NEW state PROVE Carries(ChangeSays(g, state), {})
<1>1. Carries(<<>>, {}) /\ Carries(<<<<"LEARNEND">>>>, {}) /\ Carries(<<<<"LEARNSTART">>>>, {})
  BY CarriesNone, SaysPlain DEF Weighty
<1> QED
  BY <1>1 DEF ChangeSays
LEMMA ScreenKeeps == ASSUME CansInv, Screen PROVE CansInv'
<1>1. Untouched /\ CansSame /\ Elsewhere /\ "gui" \in Apps \ {"backend"}
  BY PastSame DEF Screen, backend, outside, Untouched, Apps
<1>2. /\ Carries(<<>>, {}) /\ Carries(<<<<"LOGOUT">>>>, {}) /\ Carries(<<<<"LOGIN", Touch[2]>>>>, {})
      /\ Carries(<<<<"LOGIN", gui.user, gui.balance, gui.asked>>>>, {})
      /\ \A g, state : Carries(ChangeSays(g, state), {}) /\ Carries(ChangeSays(g, state) \o <<>>, {})
  BY CarriesNone, CarriesCat, SaysChange, SaysPlain DEF Weighty
<1>3. CASE OnTouch
  <2>1. UNCHANGED bus \/ (\E says : Says(says) /\ Carries(says, {}))
    BY <1>2, <1>3 DEF OnTouch, OnLogin, OnDoLogin, OnLoginCancel, OnDoPassword, OnLogout, OnFpLearn, OnFpCancel, Goes
  <2> QED
    BY <1>1, <2>1, StillKeeps, SaysKeeps
<1>4. CASE OnEvent
  <2>1. bus["gui"] # <<>> /\ \E says : Read("gui", says) /\ Carries(says, {})
    BY <1>2, <1>4 DEF OnEvent, OnLoginEvent, OnPasswordEvent, OnLogoutEvent, OnFpEvent, OnBalanceEvent, Takes2, Next1
  <2> QED
    BY <1>1, <2>1, ReadsKeeps
<1> QED
  BY <1>3, <1>4 DEF Screen

LEMMA MoneyKeeps == ASSUME CansInv, Money, UNCHANGED <<user, tags, alive>> PROVE CansInv'
<1>1. Untouched /\ "cash" \in Apps \ {"backend"} /\ DOMAIN past = PastFields
  BY DEF Money, Untouched, Apps, CansInv, Shapes
<1>2. CansSame /\ Elsewhere
  BY <1>1 DEF Money, Insert, CashReads, Lever, CansSame, Elsewhere, PastFields
<1>3. /\ Carries(<<>>, {}) /\ Carries(<<<<"CASH-ESCROW", Head(plan.bills)>>>>, {}) /\ Carries(<<<<"CASH-RETURN">>>>, {})
      /\ Carries(<<<<"CASH-ESCROW", 0>>>>, {})
  BY CarriesNone, SaysPlain DEF Weighty
<1>4. Carries(<<<<"CASH-ESCROW", 0>>, <<"CASH-DEPOSIT", escrow>>>>, {})
  <2>1. <<"CASH-ESCROW", 0>>[1] \notin Weighty /\ <<"CASH-DEPOSIT", escrow>>[1] \notin Weighty
    BY DEF Weighty
  <2> QED
    BY <2>1, CarriesTwo
<1>5. CASE Insert
  BY <1>1, <1>2, <1>3, <1>5, SaysKeeps DEF Insert
<1>6. CASE CashReads
  <2>1. bus["cash"] # <<>> /\ \E says : Read("cash", says) /\ Carries(says, {})
    BY <1>3, <1>4, <1>6 DEF CashReads
  <2> QED
    BY <1>1, <1>2, <2>1, ReadsKeeps
<1>7. CASE Lever
  BY <1>1, <1>2, <1>3, <1>7, SaysKeeps DEF Lever
<1> QED
  BY <1>5, <1>6, <1>7 DEF Money
LEMMA DevicesKeep == ASSUME CansInv, Devices, UNCHANGED <<user, tags, alive>> PROVE CansInv'
<1>1. Untouched /\ "reader" \in Apps \ {"backend"} /\ CansSame /\ Elsewhere
  BY PastSame DEF Devices, Untouched, Apps
<1>2. /\ Carries(<<>>, {}) /\ Carries(<<<<"BARCODE-SCAN", Head(plan.scans)>>>>, {}) /\ Carries(<<<<"FP-LEARN-GOOD">>>>, {})
      /\ Carries(<<<<"FP-GOODREAD", Head(plan.fingers)>>>>, {}) /\ Carries(<<<<"SYS-VALUE", Head(plan.late)>>>>, {})
  BY CarriesNone, SaysPlain DEF Weighty
<1>3. \/ \E says : Says(says) /\ Carries(says, {})
      \/ bus["reader"] # <<>> /\ Read("reader", <<>>)
  BY <1>2 DEF Devices, Scan, Finger, ReaderReads, SendsVars
<1> QED
  BY <1>1, <1>2, <1>3, SaysKeeps, ReadsKeeps

LEMMA DbHas ==
  ASSUME CansInv, NEW kind, Next1("db", kind)
  PROVE  bus["db"] # <<>> /\ Query[1] = kind /\ Query \in ToSet(bus["db"]) /\ "db" \in Apps \ {"backend"} /\ Queues(bus)
<1>1. Queues(bus) /\ "db" \in Apps \ {"backend"}
  BY DEF CansInv, Shapes, Apps
<1> QED
  BY <1>1, Popped DEF Next1, Query
LEMMA BooksKeep == ASSUME CansInv, QueryUserPref \/ DbPurchase \/ DbDeposit, Untouched PROVE CansInv'
<1>1. bus["db"] # <<>> /\ "db" \in Apps \ {"backend"} /\ DOMAIN past = PastFields
  BY DEF QueryUserPref, DbPurchase, DbDeposit, Next1, Apps, CansInv, Shapes
<1>2. CansSame /\ Elsewhere
  BY <1>1 DEF QueryUserPref, DbPurchase, DbDeposit, CansSame, Elsewhere, PastFields
<1>3. Carries(<<>>, {}) /\ Carries(<<<<"BOBDB-USERPREF", Query[2] \in AutoLogout>>>>, {})
  BY CarriesNone, SaysPlain DEF Weighty
<1>4. \E says : Read("db", says) /\ Carries(says, {})
  BY <1>3 DEF QueryUserPref, DbPurchase, DbDeposit
<1> QED
  BY <1>1, <1>2, <1>4, ReadsKeeps
LEMMA QueryUserKeeps == ASSUME CansInv, QueryUser, Untouched PROVE CansInv'
<1>1. bus["db"] # <<>> /\ Query[1] = "BOBDB-QUERYUSER" /\ Query \in ToSet(bus["db"]) /\ "db" \in Apps \ {"backend"}
  BY DbHas DEF QueryUser
<1>2. CansSame /\ Elsewhere
  BY PastSame DEF QueryUser
<1> DEFINE name == Known(Query[3])
           yes == <<"BOBDB-USERINFO", Query[2], name, accounts[name], name \in HasPassword>>
           no == <<"BOBDB-FAIL", Query[2]>>
<1>3. Read("db", <<yes>>) \/ Read("db", <<no>>)
  BY DEF QueryUser
<1>4. yes[1] \notin Weighty /\ no[1] \in Tagged /\ no[2] = Query[2]
  BY DEF Weighty, Tagged, Answers
<1> HIDE DEF yes, no
<1>5. CASE Read("db", <<yes>>)
  BY <1>1, <1>2, <1>4, <1>5, CarriesOne, ReadsKeeps
<1>6. CASE Read("db", <<no>>)
  <2>1. TagRight(Query)
    BY <1>1 DEF CansInv, Always, TagsRight, Tagged
  <2>2. Beside(no)
    BY <1>1, <1>4, <2>1 DEF TagRight, Beside, Untouched
  <2>3. Carries(<<no>>, {no})
    BY CarriesOne
  <2> QED
    BY <1>1, <1>2, <1>6, <2>2, <2>3, AroundCalm DEF Untouched
<1> QED
  BY <1>3, <1>5, <1>6
LEMMA QueryDeadKeeps == ASSUME CansInv, QueryProduct, ~Live(Query), Untouched PROVE CansInv'
<1>1. bus["db"] # <<>> /\ Query[1] = "BOBDB-QUERYPRODUCT" /\ Query \in ToSet(bus["db"]) /\ "db" \in Apps \ {"backend"}
  BY DbHas DEF QueryProduct
<1>2. CansSame /\ Elsewhere
  BY PastSame DEF QueryProduct
<1> DEFINE yes == <<"BOBDB-PRODUCTINFO", Query[2], Query[3]>>
           no == <<"BOBDB-FAIL", Query[2]>>
<1>3. Read("db", <<yes>>) \/ Read("db", <<no>>)
  BY DEF QueryProduct
<1>4. yes[1] \in Tagged /\ yes[2] = Query[2] /\ no[1] \in Tagged /\ no[2] = Query[2]
  BY DEF Tagged, Answers
<1> HIDE DEF yes, no
<1>5. TagRight(Query)
  BY <1>1 DEF CansInv, Always, TagsRight, Tagged
<1> QED
  <2>1. user # NoUser /\ user.vend => Query[2] # user.tag
    BY <1>1 DEF Live
  <2>2. yes[1] # "BOBDB-QUERYUSER" /\ no[1] # "BOBDB-QUERYUSER"
    BY DEF yes, no
  <2>3. Beside(yes) /\ Beside(no)
    BY <1>4, <1>5, <2>1, <2>2 DEF TagRight, Beside, Untouched
  <2>4. Carries(<<yes>>, {yes}) /\ Carries(<<no>>, {no})
    BY CarriesOne
  <2>5. CASE Read("db", <<yes>>)
    BY <1>1, <1>2, <2>3, <2>4, <2>5, AroundCalm DEF Untouched
  <2>6. CASE Read("db", <<no>>)
    BY <1>1, <1>2, <2>3, <2>4, <2>6, AroundCalm DEF Untouched
  <2> QED
    BY <1>3, <2>5, <2>6

-----------------------------------------------------------------------------
(* The engine takes a message that a can depends on.                         *)
Thinner(E) == \A x \in ToSet(Inbox') : x[1] \in Weighty /\ x \notin E => x \in ToSet(Inbox) /\ Before(Inbox, Message, x)

LEMMA MessageTaken ==
  ASSUME CansInv, NEW kind, Takes(kind), NEW says, NEW E, Carries(says, E), Read("backend", says)
  PROVE  /\ Queues(bus') /\ Thins(E) /\ Thinner(E)
         /\ \A x \in ToSet(Inbox) : x = Message \/ x \in ToSet(Inbox')
         /\ kind # "VEND-REQUEST" => RequestsKept
<1> DEFINE c == [bus EXCEPT !["backend"] = Tail(@)]
<1>1. /\ bus' = Sent(c, says, alive) /\ "backend" \in Apps /\ Watched \subseteq Apps /\ alive = TRUE
      /\ Queues(bus) /\ bus["backend"] # <<>> /\ Message = Head(bus["backend"]) /\ Message[1] = kind
  <2>1. bus' = Sent(c, says, alive)
    BY Zenon DEF Read
  <2>2. alive = TRUE
    BY DEF CansInv, Shapes, Takes
  <2> QED
    BY <2>1, <2>2 DEF Takes, Next1, Message, Apps, Watched, CansInv, Shapes
<1>2. /\ Queues(c) /\ \A d \in Apps : Less(bus[d], c[d], E)
      /\ \A x \in ToSet(Inbox) : x = Message \/ x \in ToSet(c["backend"])
      /\ \A x \in ToSet(c["backend"]) : x \in ToSet(Inbox) /\ Before(Inbox, Message, x)
  BY <1>1, Popped DEF Inbox
<1> HIDE DEF c
<1>3. /\ Queues(bus') /\ (\A d \in Apps : Less(c[d], bus'[d], E))
      /\ ToSet(c["backend"]) \subseteq ToSet(Inbox')
  BY <1>1, <1>2, SentLess DEF Inbox
<1>4. Thins(E)
  BY <1>1, <1>2, <1>3, LessTwice DEF Thins
<1>5. Thinner(E)
  BY <1>1, <1>2, <1>3 DEF Thinner, Less, Inbox
<1> QED
  BY <1>1, <1>2, <1>3, <1>4, <1>5 DEF RequestsKept
LEMMA HeadIs ==
  ASSUME CansInv, NEW kind, Takes(kind)
  PROVE  Message \in ToSet(Inbox) /\ Message[1] = kind /\ Queues(bus) /\ "backend" \in Apps /\ Inbox # <<>>
<1>1. Queues(bus) /\ "backend" \in Apps
  BY DEF CansInv, Shapes, Apps
<1> QED
  BY <1>1, Popped DEF Takes, Next1, Message, Inbox
LEMMA MildKeeps == ASSUME CansInv, NEW E, Mild(E), CansPaid', ~past'.gaveup => Phases' PROVE CansInv'
  BY MildShapes, MildAlways DEF CansInv
LEMMA FewPhases ==
  ASSUME RequestPhase', NoneLive', NoVerdict', NoEnd', vending'.state # "dispense" PROVE Phases'
<1>1. LivePhase'
  BY BeforeIn DEF LivePhase, NoneLive
<1>2. VerdictPhase'
  <2>1. \A x : x[1] = "VEND-APPROVED" => x[1] \in Verdicts
    BY DEF Verdicts
  <2> QED
    BY <2>1 DEF VerdictPhase, NoVerdict
<1>3. EndPhase'
  <2>1. \A x : x[1] = "VEND-SUCCESS" => x[1] \in Ends
    BY DEF Ends
  <2> QED
    BY <2>1 DEF EndPhase, NoEnd
<1> QED
  BY <1>1, <1>2, <1>3 DEF Phases, DispensePhase

-----------------------------------------------------------------------------
(* The end of a can: the session it is for, if there is one, waits no more.  *)
LEMMA EndPhases ==
  ASSUME CansInv, Phases, NEW kind \in Ends, Takes(kind), NEW E, Mild(E), Thinner({}), E = {},
         vending' = vending, user' = NoUser \/ ~user'.vend
  PROVE  Phases'
<1>1. Message \in ToSet(Inbox) /\ Message[1] \in Ends
  BY HeadIs
<1>2. NoneLive /\ NoVerdict /\ vending.state # "dispense"
  BY <1>1 DEF Phases, LivePhase, VerdictPhase, DispensePhase, NoEnd, NoneLive, NoVerdict
<1>3. Ends \subseteq Weighty /\ Verdicts \subseteq Weighty /\ "VEND-REQUEST" \in Weighty
  BY DEF Ends, Verdicts, Weighty
<1>4. NoEnd'
  BY <1>1, <1>3 DEF Thinner, Phases, EndPhase, NoEnd
<1>5. NoneLive'
  BY DEF NoneLive, Live
<1>6. NoVerdict'
  BY <1>2, MildSees DEF NoVerdict
<1>7. Cans' = Cans
  BY DEF Mild, CansStay, Cans
<1>8. RequestPhase'
  BY <1>3, <1>5, <1>6, <1>7 DEF Thinner, Phases, RequestPhase, Confirms
<1> QED
  BY <1>2, <1>4, <1>5, <1>6, <1>8, FewPhases
(* What the session is after the end of its can, if it goes on.              *)
Rests(u) ==
  /\ DOMAIN u = UserFields /\ u.sid = user.sid /\ ~u.vend
  /\ u.tag = user.tag \/ (tags' = tags + 1 /\ u.tag = Tag(""))
Ending(kind, says) ==
  /\ kind \in Ends /\ Takes(kind) /\ Carries(says, {}) /\ vending' = vending
  /\ tags' = tags \/ tags' = tags + 1
  /\ (Stops /\ past'.sessions = past.sessions) /\ past'.gaveup = past.gaveup
  /\ DOMAIN past' = PastFields
(* The cans after it: only those nobody asks for any more have changed.      *)
CansOf ==
  /\ \E S : past'.cans \in Seq(S)
  /\ Len(past'.cans) = Cans
  /\ \A n \in 1 .. Cans :
       /\ DOMAIN past'.cans[n] = CanFields
       /\ past'.cans[n].sid = past.cans[n].sid /\ past'.cans[n].code = past.cans[n].code
       /\ past'.cans[n].dropped = past.cans[n].dropped
       /\ past'.cans[n] = past.cans[n] \/ ~Requested(n)'
LEMMA EndStays ==
  ASSUME CansInv, NEW kind, NEW says, Ending(kind, says), CansOf, NEW u, Stays(u, says), CansPaid',
         (user = NoUser /\ u = NoUser) \/ (user # NoUser /\ Rests(u) /\ past'.cut = past.cut)
  PROVE  CansInv'
<1>1. Takes(kind) /\ kind \in Ends /\ kind # "VEND-REQUEST" /\ Carries(says, {}) /\ vending' = vending /\ Read("backend", says) /\ user' = u
  BY DEF Ending, Ends, Stays
<1>2. Queues(bus') /\ Thins({}) /\ Thinner({}) /\ RequestsKept
  BY <1>1, MessageTaken
<1>3. CansStay
  BY DEF CansStay, CansOf, Ending, CansInv, Shapes
<1>4. alive' = TRUE
  BY <1>1 DEF CansInv, Shapes, Takes, Stays
<1>5. Later
  BY TagsSame DEF Ending
<1>6. Remains \/ Stops1
  BY <1>1, RealUsers DEF Remains, Stops1, Rests, Ending, Tag
<1>7. Mild({})
  BY <1>1, <1>2, <1>3, <1>4, <1>5, <1>6 DEF Mild, Later, CansInv, Shapes
<1>8. user' = NoUser \/ ~user'.vend
  BY <1>1 DEF Rests
<1>9. ~past'.gaveup => Phases'
  BY <1>1, <1>2, <1>7, <1>8, EndPhases DEF Ending, CansInv
<1> QED
  BY <1>7, <1>9, MildKeeps
LEMMA LeavesThin ==
  ASSUME CansInv, NEW kind, Takes(kind), kind # "VEND-REQUEST", NEW says, Carries(says, {}), NEW u, Leaves(u, says)
  PROVE  /\ Queues(bus') /\ Thins({}) /\ Thinner({}) /\ (RequestsKept \/ Inbox' = <<>>)
         /\ alive' \in BOOLEAN /\ (~alive' => Inbox' = <<>>)
<1>1. Carries(says \o LoggedOut(u), {})
  BY LogsOut, CarriesCat
<1>2. CASE Departs(u, says) /\ alive' = TRUE
  <2>1. PICK heard : Carries(heard, {}) /\ Read("backend", heard)
    BY <1>2, DepartsReads
  <2> QED
    BY <1>2, <2>1, MessageTaken
<1>3. CASE Dies(says \o LoggedOut(u))
  <2>1. Queues(bus)
    BY DEF CansInv, Shapes
  <2>2. Queues(bus') /\ Thins({}) /\ Inbox' = <<>> /\ alive' = FALSE
    BY <1>1, <1>3, <2>1, DiesThins
  <2>3. Thinner({})
    BY <2>2, NoneOf DEF Thinner
  <2> QED
    BY <2>2, <2>3
<1> QED
  BY <1>2, <1>3 DEF Leaves
LEMMA EndLeaves ==
  ASSUME CansInv, NEW kind, NEW says, Ending(kind, says), CansOf, NEW u, Leaves(u, says), CansPaid'
  PROVE  CansInv'
<1>1. Takes(kind) /\ kind \in Ends /\ kind # "VEND-REQUEST" /\ vending' = vending /\ user' = NoUser
  BY DEF Ending, Ends, Leaves
<1>3. CansStay
  BY DEF CansStay, CansOf, Ending, CansInv, Shapes
<1>4. Later /\ Stops1
  BY <1>1, TagsSame DEF Ending, Stops1
<1>5. /\ Queues(bus') /\ Thins({}) /\ Thinner({}) /\ (RequestsKept \/ Inbox' = <<>>)
      /\ alive' \in BOOLEAN /\ (~alive' => Inbox' = <<>>)
  BY <1>1, LeavesThin DEF Ending
<1>6. Mild({})
  BY <1>1, <1>3, <1>4, <1>5 DEF Mild, Later, CansInv, Shapes
<1>7. ~past'.gaveup => Phases'
  BY <1>1, <1>5, <1>6, EndPhases DEF Ending, CansInv
<1> QED
  BY <1>6, <1>7, MildKeeps

LEMMA VendFailedKeeps == ASSUME CansInv, HandleVendFailed, vending' = vending PROVE CansInv'
<1> DEFINE u == [user EXCEPT !.vend = FALSE, !.item = NoCode]
<1>1. Takes("VEND-FAILED") /\ "VEND-FAILED" \in Ends /\ Carries(<<>>, {})
  BY CarriesNone DEF HandleVendFailed, Ends
<1>2. CASE user = NoUser /\ Dies(<<>>) /\ UNCHANGED <<user, querytag, tags, sysvars, inLearnMode, farewell, past>>
  BY <1>1, <1>2, NobodyFailedKeeps
<1>3. CASE user # NoUser /\ ((Leaves(u, <<>>) /\ past' = Over(u) /\ UNCHANGED tags) \/ (Stays(u, <<>>) /\ UNCHANGED past /\ NoTags))
  <2>1. CansSame /\ Elsewhere
    BY <1>3, PastOver, PastSame
  <2>2. CansOf
    BY <2>1 DEF CansSame, CansOf, CansInv, Shapes, Cans
  <2>3. Ending("VEND-FAILED", <<>>)
    BY <1>1, <1>3, <2>1 DEF Ending, Elsewhere, CansSame, Stops, NoTags
  <2>4. CansPaid'
    BY <2>1 DEF CansSame, Elsewhere, CansInv, CansPaid
  <2>5. Rests(u)
    <3>1. DOMAIN user = UserFields
      BY <1>3, UserIs
    <3> QED
      BY <3>1 DEF Rests, UserFields
  <2> HIDE DEF u
  <2>6. CASE Leaves(u, <<>>)
    BY <2>2, <2>3, <2>4, <2>6, EndLeaves
  <2>7. CASE Stays(u, <<>>)
    BY <1>3, <2>1, <2>2, <2>3, <2>4, <2>5, <2>7, EndStays DEF Elsewhere
  <2> QED
    BY <1>3, <2>6, <2>7
<1> QED
  BY <1>2, <1>3 DEF HandleVendFailed

-----------------------------------------------------------------------------
(* One can of the history changes.                                           *)
LEMMA OneCan ==
  ASSUME CansInv, NEW n \in 1 .. Cans, NEW can, DOMAIN can = CanFields
  PROVE  LET q == [past.cans EXCEPT ![n] = can]
         IN  /\ \E S : q \in Seq(S)
             /\ Len(q) = Cans /\ \A k \in 1 .. Cans : q[k] = IF k = n THEN can ELSE past.cans[k]
             /\ \A k \in 1 .. Cans : DOMAIN q[k] = CanFields
<1> DEFINE q == [past.cans EXCEPT ![n] = can]
<1>1. PICK S : past.cans \in Seq(S)
  BY DEF CansInv, Shapes
<1>2. past.cans \in Seq(S \cup {can})
  BY <1>1
<1>3. /\ q \in Seq(S \cup {can}) /\ Len(q) = Cans
      /\ \A k \in 1 .. Cans : q[k] = IF k = n THEN can ELSE past.cans[k]
  BY <1>2, ExceptSeq DEF Cans
<1>4. \A k \in 1 .. Cans : DOMAIN past.cans[k] = CanFields
  BY DEF CansInv, Shapes
<1> HIDE DEF q
<1> QED
  BY <1>3, <1>4 DEF q
Paid(n, payers) == [past.cans[n] EXCEPT !.settled = TRUE, !.paid = @ \cup payers]
LEMMA PaidIs ==
  ASSUME CansInv, NEW n \in 1 .. Cans, NEW payers
  PROVE  /\ DOMAIN Paid(n, payers) = CanFields /\ Paid(n, payers).settled = TRUE
         /\ Paid(n, payers).paid = past.cans[n].paid \cup payers
         /\ Paid(n, payers).sid = past.cans[n].sid /\ Paid(n, payers).code = past.cans[n].code
         /\ Paid(n, payers).dropped = past.cans[n].dropped
<1>1. DOMAIN past.cans[n] = CanFields
  BY DEF CansInv, Shapes
<1> QED
  BY <1>1 DEF Paid, CanFields
LEMMA SettledIs ==
  ASSUME CansInv, NEW n \in 1 .. Cans, NEW payers, NEW p, DOMAIN p = PastFields, p.cans = past.cans
  PROVE  LET q == Settled(p, n, payers)
         IN  /\ DOMAIN q = PastFields
             /\ q.cut = p.cut /\ q.sessions = p.sessions /\ q.gaveup = p.gaveup
             /\ q.cans = [past.cans EXCEPT ![n] = Paid(n, payers)]
<1>1. DOMAIN past.cans[n] = CanFields /\ n \in DOMAIN past.cans
  BY DEF CansInv, Shapes, Cans
<1> QED
  BY <1>1 DEF Settled, Paid, PastFields, CanFields

-----------------------------------------------------------------------------
(* The can that was dropped is the one the session that waits has asked for. *)
LEMMA DroppedIs ==
  ASSUME CansInv, Takes("VEND-SUCCESS")
  PROVE  /\ Message[2] \in 1 .. Cans /\ past.cans[Message[2]].dropped
         /\ \A x \in ToSet(Inbox) : Before(Inbox, Message, x) /\ x[1] = "VEND-REQUEST" => Message[2] < x[2]
         /\ ~past.gaveup => Owed(Message[2])
<1>1. Message \in ToSet(Inbox) /\ Message[1] = "VEND-SUCCESS"
  BY HeadIs
<1>2. DropRight(Message)
  BY <1>1 DEF CansInv, Always, InboxRight
<1>3. \A x \in ToSet(Inbox) : Before(Inbox, Message, x) => Ordered(Message, x)
  BY <1>1 DEF CansInv, Always, InTurn
<1>4. ~past.gaveup => Owed(Message[2])
  BY <1>1 DEF CansInv, Phases, EndPhase
<1> QED
  BY <1>1, <1>2, <1>3, <1>4 DEF DropRight, Ordered
LEMMA WaitsForIt ==
  ASSUME CansInv, Takes("VEND-SUCCESS"), user # NoUser, user.vend
  PROVE  past.cans[Message[2]].sid = user.sid /\ user.sid \notin past.cut
<1> DEFINE n == Message[2]
<1>1. n \in 1 .. Cans /\ \A x \in ToSet(Inbox) : Before(Inbox, Message, x) /\ x[1] = "VEND-REQUEST" => n < x[2]
  BY DroppedIs
<1>2. PICK m \in 1 .. Cans : past.cans[m].sid = user.sid /\ RequestedAfter(m)
  BY DEF CansInv, Always, UserRight
<1>3. Message \in ToSet(Inbox) /\ Message[1] = "VEND-SUCCESS" /\ DropRight(Message)
  BY HeadIs DEF CansInv, Always, InboxRight
<1>4. user.sid \in 1 .. past.sessions /\ user.sid \notin past.cut /\ Cans \in Nat
  <2>1. user.sid \in 1 .. past.sessions /\ user.sid \notin past.cut
    BY DEF CansInv, Always, UserRight
  <2>2. PICK S : past.cans \in Seq(S)
    BY DEF CansInv, Shapes
  <2>3. Cans \in Nat
    BY <2>2 DEF Cans
  <2> QED
    BY <2>1, <2>3
<1>5. ASSUME m < n PROVE FALSE
  <2>1. n \in m + 1 .. Cans
    BY <1>1, <1>4, <1>5
  <2>2. PICK x \in ToSet(Inbox) : x[1] = "VEND-REQUEST" /\ x[2] = n
    BY <1>2, <2>1 DEF RequestedAfter, Requested
  <2>3. x # Message
    BY <1>3, <2>2
  <2>4. Before(Inbox, Message, x)
    BY <2>2, <2>3, HeadIs, Popped, TailOf DEF Message, Inbox
  <2> QED
    BY <1>1, <2>2, <2>4
<1>6. ASSUME n < m PROVE FALSE
  <2>1. m \in n + 1 .. Cans
    BY <1>1, <1>4, <1>6
  <2>2. PICK x \in ToSet(Inbox) : x[1] = "VEND-REQUEST" /\ x[2] = m
    BY <1>3, <2>1 DEF DropRight, RequestedAfter, Requested
  <2>3. past.cans[m].sid = 0
    BY <2>2 DEF CansInv, Always, InboxRight, RequestRight
  <2> QED
    BY <1>2, <1>4, <2>3
<1>7. m = n
  BY <1>1, <1>4, <1>5, <1>6
<1> QED
  BY <1>2, <1>4, <1>7
LEMMA SuccessPaid ==
  ASSUME CansInv, Takes("VEND-SUCCESS"), NEW payers, NEW p, p = past \/ (\E v : p = Over(v)),
         past' = Settled(p, Message[2], payers),
         \/ payers = {} /\ ~(user # NoUser /\ user.vend /\ user.item # NoCode)
         \/ payers = {<<user.sid, user.item>>} /\ user # NoUser /\ user.vend /\ user.item # NoCode,
         Thinner({})
  PROVE  CansOf /\ CansPaid' /\ DOMAIN past' = PastFields /\ past'.gaveup = past.gaveup /\ Elsewhere
<1>0. PICK n : n = Message[2]
  OBVIOUS
<1> DEFINE q == past'.cans
           can == Paid(n, payers)
<1>1. n \in 1 .. Cans /\ past.cans[n].dropped /\ (~past.gaveup => Owed(n))
      /\ \A x \in ToSet(Inbox) : Before(Inbox, Message, x) /\ x[1] = "VEND-REQUEST" => n < x[2]
  BY <1>0, DroppedIs
<1>2. DOMAIN p = PastFields /\ p.cans = past.cans /\ p.cut = past.cut /\ p.sessions = past.sessions /\ p.gaveup = past.gaveup
  <2>1. DOMAIN past = PastFields
    BY DEF CansInv, Shapes
  <2>2. CASE p = past
    BY <2>1, <2>2
  <2>3. CASE \E v : p = Over(v)
    BY <2>3, OverPast
  <2> QED
    BY <2>2, <2>3
<1>3. /\ DOMAIN past' = PastFields /\ past'.gaveup = past.gaveup /\ past'.cut = past.cut /\ past'.sessions = past.sessions
      /\ q = [past.cans EXCEPT ![n] = can]
  <2>1. past' = Settled(p, n, payers)
    BY <1>0
  <2> QED
    BY <1>1, <1>2, <2>1, SettledIs
<1>4. /\ DOMAIN can = CanFields /\ can.settled = TRUE /\ can.paid = past.cans[n].paid \cup payers
      /\ can.sid = past.cans[n].sid /\ can.code = past.cans[n].code /\ can.dropped = past.cans[n].dropped
  BY <1>1, PaidIs
<1> HIDE DEF can
<1>5. /\ \E S : q \in Seq(S)
      /\ Len(q) = Cans /\ \A k \in 1 .. Cans : q[k] = IF k = n THEN can ELSE past.cans[k]
      /\ \A k \in 1 .. Cans : DOMAIN q[k] = CanFields
  BY <1>1, <1>3, <1>4, OneCan
<1>6. ~Requested(n)'
  <2>1. \A x \in ToSet(Inbox') : x[1] = "VEND-REQUEST" => n < x[2]
    BY <1>1 DEF Thinner, Weighty
  <2>2. n \in Nat
    BY <1>1
  <2> QED
    BY <2>1, <2>2 DEF Requested
<1>7. CansOf
  BY <1>4, <1>5, <1>6 DEF CansOf
<1>8. ASSUME NEW k \in DOMAIN q
      PROVE  /\ \A payment \in q[k].paid : q[k].dropped /\ payment[1] = q[k].sid
             /\ ~past.gaveup =>
                  /\ q[k].paid \subseteq {<<q[k].sid, q[k].code>>}
                  /\ q[k].settled /\ q[k].paid = {} => q[k].sid \in past.cut
  <2>1. DOMAIN q = 1 .. Cans /\ DOMAIN past.cans = 1 .. Cans
    BY <1>5 DEF CansInv, Shapes, Cans
  <2>2. /\ \A payment \in past.cans[k].paid : past.cans[k].dropped /\ payment[1] = past.cans[k].sid
        /\ ~past.gaveup =>
             /\ past.cans[k].paid \subseteq {<<past.cans[k].sid, past.cans[k].code>>}
             /\ past.cans[k].settled /\ past.cans[k].paid = {} => past.cans[k].sid \in past.cut
    BY <2>1 DEF CansInv, CansPaid
  <2>3. CASE k # n
    BY <1>5, <2>1, <2>2, <2>3
  <2>4. CASE k = n /\ payers = {} /\ ~(user # NoUser /\ user.vend /\ user.item # NoCode)
    <3>1. ~past.gaveup => past.cans[n].sid \in past.cut
      BY <1>1, <2>4 DEF Owed
    <3>2. q[k] = can /\ can.paid = past.cans[k].paid
      BY <1>4, <1>5, <2>1, <2>4
    <3> QED
      BY <1>4, <2>2, <2>4, <3>1, <3>2
  <2>5. CASE k = n /\ payers = {<<user.sid, user.item>>} /\ user # NoUser /\ user.vend /\ user.item # NoCode
    <3>1. past.cans[n].sid = user.sid /\ user.sid \notin past.cut
      BY <1>0, <2>5, WaitsForIt
    <3>2. ~past.gaveup => user.item = past.cans[n].code
      BY <1>1, <3>1 DEF Owed
    <3>3. q[k] = can
      BY <1>5, <2>1, <2>5
    <3>4. <<user.sid, user.item>>[1] = user.sid
      OBVIOUS
    <3>5. q[k].sid = user.sid /\ q[k].code = past.cans[k].code /\ q[k].dropped /\ q[k].paid = past.cans[k].paid \cup {<<user.sid, user.item>>}
      BY <1>1, <1>4, <2>5, <3>1, <3>3
    <3> QED
      BY <2>2, <2>5, <3>1, <3>2, <3>4, <3>5
  <2> QED
    BY <2>3, <2>4, <2>5
<1>9. CansPaid'
  BY <1>3, <1>8 DEF CansPaid
<1> QED
  BY <1>3, <1>7, <1>9 DEF Elsewhere
LEMMA VendSuccessKeeps == ASSUME CansInv, HandleVendSuccess, vending' = vending PROVE CansInv'
<1> DEFINE u == [Bought(user, user.item) EXCEPT !.vend = FALSE, !.item = NoCode]
           says == PurchaseSays(user, user.item)
           pays == {<<user.sid, user.item>>}
<1>1. Takes("VEND-SUCCESS") /\ "VEND-SUCCESS" \in Ends /\ Carries(<<>>, {}) /\ Carries(says, {})
  BY CarriesNone, SaysPurchase DEF HandleVendSuccess, Ends
<1>2. user # NoUser /\ ~user.vend => Rests(user)
  BY DEF Rests, CansInv, Shapes, Always, UserRight
<1>3. user # NoUser /\ tags' = tags + 1 => Rests(u)
  <2>1. ASSUME user # NoUser PROVE DOMAIN user = UserFields
    BY <2>1, UserIs
  <2> QED
    BY <2>1 DEF Rests, Bought, UserFields
<1> HIDE DEF u, says, pays
<1> DEFINE After(p, payers, w) ==
             /\ past' = Settled(p, Message[2], payers)
             /\ p = past \/ (\E v : p = Over(v))
             /\ \/ payers = {} /\ ~(user # NoUser /\ user.vend /\ user.item # NoCode) /\ w = <<>>
                \/ payers = pays /\ user # NoUser /\ user.vend /\ user.item # NoCode /\ w = says
             /\ tags' = tags \/ tags' = tags + 1
<1>4. ASSUME NEW p, NEW payers, NEW w, After(p, payers, w), Thinner({})
      PROVE  CansOf /\ CansPaid' /\ Elsewhere /\ Ending("VEND-SUCCESS", w)
  <2>1. CansOf /\ CansPaid' /\ DOMAIN past' = PastFields /\ past'.gaveup = past.gaveup /\ Elsewhere
    BY <1>1, <1>4, SuccessPaid DEF pays
  <2> QED
    BY <1>1, <1>4, <2>1 DEF Ending, Elsewhere, Stops
<1>5. ASSUME NEW p, NEW payers, NEW w, After(p, payers, w), NEW v, Stays(v, w),
             (user = NoUser /\ v = NoUser) \/ (user # NoUser /\ Rests(v))
      PROVE  CansInv'
  <2>1. Carries(w, {}) /\ Read("backend", w)
    BY <1>1, <1>5 DEF Stays
  <2>2. Thinner({})
    BY <1>1, <2>1, MessageTaken
  <2>3. CansOf /\ CansPaid' /\ Elsewhere /\ Ending("VEND-SUCCESS", w)
    BY <1>4, <1>5, <2>2
  <2> HIDE DEF After
  <2> QED
    BY <1>5, <2>3, EndStays DEF Elsewhere
<1>6. ASSUME NEW p, NEW payers, NEW w, After(p, payers, w), NEW v, Leaves(v, w) PROVE CansInv'
  <2>1. Carries(w, {})
    BY <1>1, <1>6
  <2>2. Thinner({})
    BY <1>1, <1>6, <2>1, LeavesThin
  <2>3. CansOf /\ CansPaid' /\ Ending("VEND-SUCCESS", w)
    BY <1>4, <1>6, <2>2
  <2> HIDE DEF After
  <2> QED
    BY <1>6, <2>3, EndLeaves
<1>7. \/ user = NoUser /\ After(past, {}, <<>>) /\ Stays(user, <<>>)
      \/ user # NoUser /\ After(Over(user), {}, <<>>) /\ Leaves(user, <<>>)
      \/ user # NoUser /\ Rests(user) /\ After(past, {}, <<>>) /\ Stays(user, <<>>)
      \/ user # NoUser /\ After(Over(u), pays, says) /\ Leaves(u, says)
      \/ user # NoUser /\ Rests(u) /\ After(past, pays, says) /\ Stays(u, says)
  BY <1>2, <1>3 DEF HandleVendSuccess, NewTag, NoTags, u, says, pays
<1> HIDE DEF After
<1> QED
  BY <1>5, <1>6, <1>7

-----------------------------------------------------------------------------
(* The answer for the can that the session waits for.                        *)
LEMMA Exact ==
  ASSUME CansInv, NEW kind, Takes(kind), NEW m, Read("backend", <<m>>)
  PROVE  /\ \A a \in Apps \ {"backend"} : bus'[a] = IF Reader(m[1]) = a THEN bus[a] \o <<m>> ELSE bus[a]
         /\ Reader(m[1]) # "backend" => ToSet(Inbox') \subseteq ToSet(Inbox)
<1> DEFINE c == [bus EXCEPT !["backend"] = Tail(@)]
<1>1. bus' = Sent(c, <<m>>, alive)
  BY Zenon DEF Read
<1>2. Queues(c) /\ (\A d \in Apps : d # "backend" => c[d] = bus[d]) /\ alive = TRUE
      /\ ToSet(c["backend"]) \subseteq ToSet(Inbox)
  BY HeadIs, Popped DEF CansInv, Shapes, Inbox, Takes
<1> HIDE DEF c
<1>3. \A a \in Apps : bus'[a] = IF Reader(m[1]) = a THEN c[a] \o <<m>> ELSE c[a]
  BY <1>1, <1>2, SentOne
<1> QED
  BY <1>2, <1>3, HeadIs DEF Inbox
LEMMA LiveHead ==
  ASSUME CansInv, NEW kind \in Answers, Takes(kind), user # NoUser, IsForCan(Message[2])
  PROVE  /\ Message \in ToSet(Inbox) /\ Live(Message)
         /\ Phases => Confirms /\ NoEnd /\ NoVerdict /\ NoRequest /\ AnswerRight(Message)
<1>1. Message \in ToSet(Inbox) /\ Live(Message)
  BY HeadIs DEF Live, IsForCan
<1> QED
  BY <1>1 DEF Phases, LivePhase, RequestPhase, NoneLive, NoRequest
LEMMA AnswerPhases ==
  ASSUME CansInv, Phases, NEW kind \in Answers, Takes(kind), user # NoUser, IsForCan(Message[2]), NEW E, Mild(E), Thinner(E),
         \A m \in E : m[1] \in Verdicts, vending' = vending, user' # NoUser, user'.tag = user.tag
  PROVE  NoneLive' /\ NoEnd' /\ RequestPhase'
<1>1. Message \in ToSet(Inbox) /\ Live(Message) /\ NoEnd /\ NoRequest
  BY LiveHead
<1>2. Ends \cap Verdicts = {} /\ "VEND-REQUEST" \notin Verdicts /\ Answers \cap Verdicts = {} /\ "BOBDB-QUERYPRODUCT" \notin Verdicts
      /\ Ends \cup {"VEND-REQUEST", "BOBDB-QUERYPRODUCT"} \cup Answers \subseteq Weighty
      /\ {"BOBDB-QUERYPRODUCT"} \cup Answers \subseteq Tagged
  BY DEF Ends, Verdicts, Answers, Weighty, Tagged
<1>3. NoEnd' /\ NoRequest'
  BY <1>1, MildSees DEF NoEnd, NoRequest
<1>4. RequestPhase'
  BY <1>3 DEF RequestPhase, NoRequest
<1>5. ASSUME NEW x \in ToSet(bus["db"]') \cup ToSet(Inbox'), Live(x)' PROVE FALSE
  <2>1. x[1] \in {"BOBDB-QUERYPRODUCT"} \cup Answers /\ x \notin E /\ Live(x)
    BY <1>2, <1>5 DEF Live, IsForCan
  <2>2. x \in ToSet(bus["db"]) \/ (x \in ToSet(Inbox) /\ Before(Inbox, Message, x))
    <3>1. x \in ToSet(bus["db"]') => x \in ToSet(bus["db"])
      BY <1>2, <2>1, MildSees
    <3>2. x \in ToSet(Inbox') => x \in ToSet(Inbox) /\ Before(Inbox, Message, x)
      BY <1>2, <2>1 DEF Thinner
    <3> QED
      BY <1>5, <3>1, <3>2
  <2> QED
    BY <1>1, <2>1, <2>2 DEF Phases, LivePhase
<1>6. NoneLive'
  BY <1>5 DEF NoneLive
<1> QED
  BY <1>3, <1>4, <1>6
(* The session is what it was, but for the can.                              *)
Unlike(u) == DOMAIN u = UserFields /\ u.sid = user.sid /\ u.tag = user.tag /\ (u.vend => user.vend)
LEMMA AnswerMild ==
  ASSUME CansInv, NEW kind \in Answers, Takes(kind), user # NoUser, NEW says, NEW E, Carries(says, E), NEW u, Stays(u, says), Unlike(u),
         \A m \in E : m[1] \in Verdicts, UNCHANGED <<past, vending, tags>>
  PROVE  Mild(E) /\ Thinner(E) /\ user' # NoUser /\ user' = u
<1>1. Read("backend", says) /\ user' = u /\ alive' = alive /\ kind # "VEND-REQUEST"
  BY DEF Stays, Answers
<1>2. Queues(bus') /\ Thins(E) /\ Thinner(E) /\ RequestsKept
  BY <1>1, MessageTaken
<1>3. alive' = TRUE
  BY <1>1 DEF CansInv, Shapes, Takes
<1>4. CansStay
  BY DEF CansInv, Shapes, CansStay, Cans
<1>5. Remains
  BY <1>1, RealUsers DEF Remains, Unlike
<1>6. \A m \in E : NoCan(m)
  BY DEF NoCan, Verdicts, Ends, Tagged, Answers
<1>7. Mild(E)
  BY <1>2, <1>3, <1>4, <1>5, <1>6 DEF Mild, CansInv, Shapes
<1> QED
  BY <1>1, <1>2, <1>5, <1>7 DEF Remains
LEMMA SamePaid == ASSUME CansInv, past'.cans = past.cans, past'.cut = past.cut, past.gaveup => past'.gaveup PROVE CansPaid'
  BY DEF CansInv, CansPaid

LEMMA FailForCanKeeps ==
  ASSUME CansInv, HandleBobDBFail, vending' = vending, user # NoUser, IsForCan(Message[2]) PROVE CansInv'
<1> DEFINE u == [user EXCEPT !.vend = FALSE]
<1>1. Takes("BOBDB-FAIL") /\ "BOBDB-FAIL" \in Answers /\ Stays(u, <<>>) /\ UNCHANGED <<past, vending, tags>> /\ Carries(<<>>, {})
  BY CarriesNone DEF HandleBobDBFail, Answers, NoTags
<1>2. Unlike(u)
  BY UserIs DEF Unlike, UserFields
<1> HIDE DEF u
<1>3. Mild({}) /\ Thinner({}) /\ user' # NoUser /\ user' = u
  BY <1>1, <1>2, AnswerMild
<1>4. ~past'.gaveup => Phases'
  <2> SUFFICES ASSUME ~past.gaveup PROVE Phases'
    BY <1>1
  <2>1. Phases
    BY DEF CansInv
  <2>2. NoneLive' /\ NoEnd' /\ RequestPhase'
    BY <1>1, <1>2, <1>3, <2>1, AnswerPhases DEF Unlike
  <2>3. Confirms /\ NoVerdict
    BY <1>1, <2>1, LiveHead
  <2>4. NoVerdict' /\ vending'.state # "dispense"
    BY <1>3, <2>3, MildSees DEF NoVerdict, Confirms
  <2> QED
    BY <2>2, <2>4, FewPhases
<1> QED
  BY <1>1, <1>3, <1>4, SamePaid, MildKeeps

LEMMA CanInfoKeeps ==
  ASSUME CansInv, HandleBobDBProductInfo, vending' = vending, user # NoUser, IsForCan(Message[2]) PROVE CansInv'
<1> DEFINE code == Message[3]
           approved == [user EXCEPT !.item = code]
           denied == [user EXCEPT !.vend = FALSE, !.item = NoCode]
<1>1. Takes("BOBDB-PRODUCTINFO") /\ "BOBDB-PRODUCTINFO" \in Answers /\ UNCHANGED <<past, vending, tags>>
      /\ (Stays(approved, <<<<"VEND-APPROVED">>>>) \/ Stays(denied, <<<<"VEND-DENIED">>>>))
  BY DEF HandleBobDBProductInfo, Answers, NoTags, ReadCanInfo
<1>2. Unlike(approved) /\ Unlike(denied) /\ approved.vend /\ approved.item = code /\ approved.sid = user.sid
  <2>1. DOMAIN user = UserFields /\ user.vend
    BY UserIs DEF IsForCan
  <2> QED
    BY <2>1 DEF Unlike, UserFields
<1> HIDE DEF approved, denied
<1>3. PICK u, m : /\ Stays(u, <<m>>) /\ Unlike(u) /\ m[1] \in Verdicts
                  /\ m[1] = "VEND-APPROVED" => u = approved
  <2>1. <<"VEND-APPROVED">>[1] \in Verdicts /\ <<"VEND-DENIED">>[1] \in Verdicts /\ <<"VEND-DENIED">>[1] # "VEND-APPROVED"
    BY DEF Verdicts
  <2> QED
    BY <1>1, <1>2, <2>1
<1>4. Carries(<<m>>, {m}) /\ Read("backend", <<m>>)
  BY <1>3, CarriesOne DEF Stays
<1>5. Mild({m}) /\ Thinner({m}) /\ user' # NoUser /\ user' = u
  BY <1>1, <1>3, <1>4, AnswerMild
<1>6. ~past'.gaveup => Phases'
  <2> SUFFICES ASSUME ~past.gaveup PROVE Phases'
    BY <1>1
  <2>1. Phases
    BY DEF CansInv
  <2>2. NoneLive' /\ NoEnd' /\ RequestPhase'
    BY <1>1, <1>3, <1>5, <2>1, AnswerPhases DEF Unlike
  <2>3. Confirms /\ NoVerdict /\ AnswerRight(Message) /\ Message[1] = "BOBDB-PRODUCTINFO"
    BY <1>1, <2>1, LiveHead, HeadIs
  <2>4. Confirms' /\ vending'.state # "dispense" /\ Cans' = Cans
    BY <1>1, <2>3 DEF Confirms, Cans
  <2>5. bus'["vmc"] = bus["vmc"] \o <<m>>
    <3>1. Reader(m[1]) = "vmc" /\ "vmc" \in Apps \ {"backend"}
      BY <1>3 DEF Verdicts, Reader, Apps
    <3> QED
      BY <1>1, <1>4, <3>1, Exact
  <2>6. /\ ToSet(bus'["vmc"]) = ToSet(bus["vmc"]) \cup {m}
        /\ \A x, y : Before(bus'["vmc"], x, y) => Before(bus["vmc"], x, y) \/ (x \in ToSet(bus["vmc"]) /\ y = m)
    <3>1. PICK S : bus["vmc"] \in Seq(S)
      BY DEF CansInv, Shapes, Queues, Apps
    <3> QED
      BY <2>5, <3>1, PutOf
  <2>7. m[1] = "VEND-APPROVED" => Owed(Cans)'
    BY <1>1, <1>2, <1>3, <1>5, <2>3, <2>4 DEF Owed, AnswerRight
  <2>8. VerdictPhase'
    <3>1. \A x \in ToSet(bus'["vmc"]) : x[1] \in Verdicts => x = m
      BY <2>3, <2>6 DEF NoVerdict
    <3>2. \A x, y \in ToSet(bus'["vmc"]) : x[1] \in Verdicts /\ y[1] \in Verdicts => ~Before(bus'["vmc"], x, y)
      BY <2>3, <2>6, BeforeIn DEF NoVerdict
    <3> QED
      BY <2>2, <2>4, <2>7, <3>1, <3>2 DEF VerdictPhase, Verdicts
  <2>9. LivePhase'
    BY <2>2, BeforeIn DEF LivePhase, NoneLive
  <2>10. EndPhase'
    BY <2>2 DEF EndPhase, NoEnd, Ends
  <2> QED
    BY <2>2, <2>4, <2>8, <2>9, <2>10 DEF Phases, DispensePhase
<1> QED
  BY <1>1, <1>5, <1>6, SamePaid, MildKeeps

-----------------------------------------------------------------------------
(* The database answers for the can.                                         *)
LEMMA QueryLiveKeeps ==
  ASSUME CansInv, QueryProduct, Live(Query), Untouched, NoCode \notin DOMAIN Price PROVE CansInv'
<1>1. bus["db"] # <<>> /\ Query[1] = "BOBDB-QUERYPRODUCT" /\ Query \in ToSet(bus["db"]) /\ "db" \in Apps \ {"backend"} /\ Queues(bus)
  BY DbHas DEF QueryProduct
<1>2. past' = past /\ user' = user /\ tags' = tags /\ alive' = alive /\ vending' = vending
  BY DEF QueryProduct, Untouched
<1>3. PICK m : /\ Read("db", <<m>>) /\ m[1] \in Answers /\ m[2] = Query[2]
               /\ m[1] = "BOBDB-PRODUCTINFO" => m[3] = Query[3] /\ Query[3] \in DOMAIN Price
  <2>1. CASE Query[3] \in DOMAIN Price
    <3> DEFINE m == <<"BOBDB-PRODUCTINFO", Query[2], Query[3]>>
    <3>1. m[1] \in Answers /\ m[2] = Query[2] /\ m[3] = Query[3] /\ Read("db", <<m>>)
      BY <2>1 DEF Answers, QueryProduct
    <3> QED
      BY <2>1, <3>1
  <2>2. CASE Query[3] \notin DOMAIN Price
    <3> DEFINE m == <<"BOBDB-FAIL", Query[2]>>
    <3>1. m[1] \in Answers /\ m[1] # "BOBDB-PRODUCTINFO" /\ m[2] = Query[2] /\ Read("db", <<m>>)
      BY <2>2 DEF Answers, QueryProduct
    <3> QED
      BY <3>1
  <2> QED
    BY <2>1, <2>2
<1>4. user # NoUser /\ user.vend /\ Query[2] = user.tag /\ alive = TRUE
  <2>1. user # NoUser /\ user.vend /\ Query[2] = user.tag
    BY DEF Live
  <2> QED
    BY <2>1 DEF CansInv, Shapes, Always, RestRight
<1> DEFINE c == [bus EXCEPT !["db"] = Tail(@)]
<1>5. /\ Queues(c) /\ (\A d \in Apps : d # "db" => c[d] = bus[d])
      /\ \A x \in ToSet(c["db"]) : x \in ToSet(bus["db"]) /\ Before(bus["db"], Query, x)
  BY <1>1, Popped DEF Query
<1>6. bus' = Sent(c, <<m>>, TRUE)
  BY <1>3, <1>4, Zenon DEF Read
<1>7. Reader(m[1]) = "backend" /\ {"backend", "db", "vmc"} \subseteq Apps
  BY <1>3 DEF Reader, Answers, Apps
<1> HIDE DEF c
<1>8. bus'["vmc"] = bus["vmc"] /\ bus'["db"] = c["db"] /\ Inbox' = Inbox \o <<m>>
  <2>1. \A a \in Apps : Sent(c, <<m>>, TRUE)[a] = IF Reader(m[1]) = a THEN c[a] \o <<m>> ELSE c[a]
    BY <1>5, SentOne
  <2>2. bus'["vmc"] = c["vmc"] /\ bus'["db"] = c["db"] /\ bus'["backend"] = c["backend"] \o <<m>>
    BY <1>6, <1>7, <2>1
  <2> QED
    BY <1>5, <1>7, <2>2 DEF Inbox
<1>9. /\ ToSet(Inbox') = ToSet(Inbox) \cup {m}
      /\ \A x, y : Before(Inbox', x, y) => Before(Inbox, x, y) \/ (x \in ToSet(Inbox) /\ y = m)
  <2>1. PICK S : Inbox \in Seq(S)
    BY <1>1, <1>7 DEF Queues, Inbox
  <2> QED
    BY <1>8, <2>1, PutOf
<1>10. Mild({m})
  <2>1. Carries(<<m>>, {m})
    BY CarriesOne
  <2>2. Queues(bus') /\ Thins({m}) /\ RequestsKept /\ (~alive => Inbox' = <<>>)
    <3>1. Up
      BY DEF CansInv, Shapes, Always, RestRight, Up
    <3> QED
      BY <1>1, <1>3, <2>1, <3>1, ReadThins
  <2>3. NoCan(m)
    <3>1. TagRight(Query)
      BY <1>1 DEF CansInv, Always, TagsRight, Tagged
    <3> QED
      BY <1>2, <1>3, <3>1 DEF NoCan, TagRight, Tagged, Answers, Ends
  <2>4. CansStay
    BY <1>2 DEF CansInv, Shapes, CansStay, Cans
  <2>5. Remains
    BY <1>2, <1>4, UserIs DEF Remains
  <2> QED
    BY <1>2, <1>4, <2>2, <2>3, <2>4, <2>5 DEF Mild, CansInv, Shapes
<1>11. ~past'.gaveup => Phases'
  <2> SUFFICES ASSUME ~past.gaveup PROVE Phases'
    BY <1>2
  <2>1. Phases
    BY DEF CansInv
  <2>2. Confirms /\ NoEnd /\ NoVerdict /\ AnswerRight(Query) /\ NoRequest
    BY <1>1, <2>1 DEF Phases, LivePhase, RequestPhase, NoneLive, NoRequest
  <2>3. Confirms' /\ vending'.state # "dispense" /\ Cans' = Cans
    BY <1>2, <2>2 DEF Confirms, Cans
  <2>4. NoEnd' /\ NoRequest' /\ NoVerdict'
    <3>1. m[1] \notin Ends /\ m[1] # "VEND-REQUEST"
      BY <1>3 DEF Answers, Ends
    <3> QED
      BY <1>8, <1>9, <2>2, <3>1 DEF NoEnd, NoRequest, NoVerdict
  <2>5. \A x : Live(x)' <=> Live(x)
    BY <1>2 DEF Live
  <2>6. \A x \in ToSet(bus'["db"]) : ~Live(x)
    BY <1>1, <1>5, <1>8, <2>1 DEF Phases, LivePhase
  <2>7. \A x \in ToSet(Inbox) : ~Live(x)
    BY <1>1, <2>1 DEF Phases, LivePhase
  <2>8. AnswerRight(m)'
    <3>1. user'.sid = past'.cans[Cans'].sid /\ past'.cans = past.cans /\ m[1] # "BOBDB-QUERYPRODUCT"
      BY <1>2, <1>3, <2>2, <2>3 DEF AnswerRight, Answers
    <3>2. m[1] = "BOBDB-PRODUCTINFO" => m[3] = past.cans[Cans].code /\ m[3] # NoCode
      BY <1>1, <1>3, <2>2 DEF AnswerRight
    <3> QED
      BY <2>3, <3>1, <3>2 DEF AnswerRight
  <2>9. LivePhase'
    <3>1. \A x \in ToSet(bus'["db"]) \cup ToSet(Inbox') : Live(x)' => x = m
      BY <1>9, <2>5, <2>6, <2>7
    <3>2. \A x \in ToSet(bus'["db"]) : ~Live(x)'
      BY <2>5, <2>6
    <3>3. \A x, y : Live(x)' /\ Live(y)' => ~Before(Inbox', x, y)
      BY <1>9, <2>5, <2>7, BeforeIn
    <3> QED
      BY <2>3, <2>4, <2>8, <3>1, <3>2, <3>3 DEF LivePhase
  <2>10. RequestPhase'
    BY <2>4 DEF RequestPhase, NoRequest
  <2>11. VerdictPhase'
    BY <2>4 DEF VerdictPhase, NoVerdict, Verdicts
  <2>12. EndPhase'
    BY <2>4 DEF EndPhase, NoEnd, Ends
  <2> QED
    BY <2>3, <2>9, <2>10, <2>11, <2>12 DEF Phases, DispensePhase
<1> QED
  BY <1>2, <1>10, <1>11, SamePaid, MildKeeps

-----------------------------------------------------------------------------
(* The engine takes a request.                                               *)
LEMMA RequestHead ==
  ASSUME CansInv, Takes("VEND-REQUEST")
  PROVE  /\ Message \in ToSet(Inbox) /\ Message[1] = "VEND-REQUEST" /\ RequestRight(Message) /\ Message[2] \in 1 .. Cans
         /\ \A x \in ToSet(Inbox) : Before(Inbox, Message, x) => Ordered(Message, x)
         /\ Phases => Message[2] = Cans /\ Confirms /\ NoVerdict /\ NoneLive
<1>1. Message \in ToSet(Inbox) /\ Message[1] = "VEND-REQUEST"
  BY HeadIs
<1>2. RequestRight(Message)
  BY <1>1 DEF CansInv, Always, InboxRight
<1>3. \A x \in ToSet(Inbox) : Before(Inbox, Message, x) => Ordered(Message, x)
  BY <1>1 DEF CansInv, Always, InTurn
<1> QED
  BY <1>1, <1>2, <1>3 DEF Phases, RequestPhase, RequestRight
(* The cans after it: only the one that was asked for has changed.           *)
CansFrom(n) ==
  /\ \E S : past'.cans \in Seq(S)
  /\ Len(past'.cans) = Cans
  /\ \A k \in 1 .. Cans :
       /\ DOMAIN past'.cans[k] = CanFields
       /\ past'.cans[k].code = past.cans[k].code /\ past'.cans[k].dropped = past.cans[k].dropped
       /\ past'.cans[k].settled = past.cans[k].settled /\ past'.cans[k].paid = past.cans[k].paid
       /\ k # n => past'.cans[k] = past.cans[k]
LEMMA RequestGone ==
  ASSUME CansInv, Takes("VEND-REQUEST"), NEW m, m[1] \notin Ends \cup {"VEND-REQUEST"}, Read("backend", <<m>>),
         NEW n, n = Message[2], CansFrom(n)
  PROVE  /\ Queues(bus') /\ InboxRight' /\ InTurn' /\ RequestedAfter(n)'
         /\ \A x \in ToSet(Inbox') : x[1] \in Tagged => x \in ToSet(Inbox) \/ x = m
         /\ Phases => NoRequest' /\ NoEnd'
<1>1. Carries(<<m>>, {m})
  BY CarriesOne
<1>2. Queues(bus') /\ Thins({m}) /\ Thinner({m}) /\ \A x \in ToSet(Inbox) : x = Message \/ x \in ToSet(Inbox')
  BY <1>1, MessageTaken
<1>3. Ends \cup {"VEND-REQUEST"} \cup Tagged \subseteq Weighty /\ Answers \subseteq Tagged
  BY DEF Ends, Tagged, Answers, Weighty
<1>4. \A x \in ToSet(Inbox') : x[1] \in Ends \cup {"VEND-REQUEST"} \cup Tagged => (x \in ToSet(Inbox) /\ Before(Inbox, Message, x)) \/ x = m
  BY <1>2, <1>3 DEF Thinner
<1>5. /\ Message \in ToSet(Inbox) /\ Message[1] = "VEND-REQUEST" /\ RequestRight(Message) /\ n \in 1 .. Cans
      /\ \A x \in ToSet(Inbox) : Before(Inbox, Message, x) => Ordered(Message, x)
  BY RequestHead
<1>6. Cans \in Nat /\ Cans' = Cans
  <2>1. PICK S : past.cans \in Seq(S)
    BY DEF CansInv, Shapes
  <2> QED
    BY <2>1 DEF Cans, CansFrom
<1>7. ASSUME NEW k \in n .. Cans, RequestedAfter(k) PROVE RequestedAfter(k)'
  <2> SUFFICES ASSUME NEW j \in k + 1 .. Cans PROVE Requested(j)'
    BY <1>6 DEF RequestedAfter
  <2>1. PICK x \in ToSet(Inbox) : x[1] = "VEND-REQUEST" /\ x[2] = j
    BY <1>7 DEF RequestedAfter, Requested
  <2>2. x # Message
    BY <1>5, <1>6, <2>1
  <2> QED
    BY <1>2, <2>1, <2>2 DEF Requested
<1>8. RequestedAfter(n)'
  <2>1. RequestedAfter(n) /\ n \in n .. Cans
    BY <1>5, <1>6 DEF RequestRight
  <2> QED
    BY <1>7, <2>1
<1>9. InboxRight'
  <2> SUFFICES ASSUME NEW x \in ToSet(Inbox') PROVE (x[1] = "VEND-REQUEST" => RequestRight(x)') /\ (x[1] = "VEND-SUCCESS" => DropRight(x)')
    BY DEF InboxRight
  <2>1. CASE x[1] = "VEND-REQUEST"
    <3>1. RequestRight(x) /\ n < x[2]
      BY <1>4, <1>5, <2>1 DEF Ordered, CansInv, Always, InboxRight
    <3>2. x[2] \in n .. Cans /\ x[2] # n
      BY <1>5, <1>6, <3>1 DEF RequestRight
    <3>3. RequestedAfter(x[2])'
      BY <1>7, <3>1, <3>2 DEF RequestRight
    <3> QED
      BY <1>6, <2>1, <3>1, <3>2, <3>3 DEF RequestRight, CansFrom
  <2>2. CASE x[1] = "VEND-SUCCESS"
    <3>1. DropRight(x) /\ n <= x[2]
      BY <1>4, <1>5, <2>2 DEF Ordered, CansInv, Always, InboxRight, Ends
    <3>2. x[2] \in n .. Cans
      BY <1>5, <1>6, <3>1 DEF DropRight
    <3>3. RequestedAfter(x[2])'
      BY <1>7, <3>1, <3>2 DEF DropRight
    <3> QED
      BY <1>6, <2>2, <3>1, <3>3 DEF DropRight, CansFrom
  <2> QED
    BY <2>1, <2>2
<1>10. InTurn'
  <2> SUFFICES ASSUME NEW x \in ToSet(Inbox'), NEW y \in ToSet(Inbox'), Before(Inbox', x, y) PROVE Ordered(x, y)
    BY DEF InTurn, Ordered
  <2>1. CASE x[1] \in Ends \cup {"VEND-REQUEST"} /\ y[1] \in Ends \cup {"VEND-REQUEST"}
    <3>1. Less(Inbox, Inbox', {m})
      BY <1>2 DEF Thins, Watched, Inbox
    <3>2. Before(Inbox, x, y)
      BY <1>3, <2>1, <3>1 DEF Less
    <3>3. x \in ToSet(Inbox) /\ y \in ToSet(Inbox)
      BY <1>4, <2>1
    <3> QED
      BY <3>2, <3>3 DEF CansInv, Always, InTurn
  <2>2. CASE ~(x[1] \in Ends \cup {"VEND-REQUEST"} /\ y[1] \in Ends \cup {"VEND-REQUEST"})
    BY <2>2 DEF Ordered, Ends
  <2> QED
    BY <2>1, <2>2
<1>11. ASSUME Phases PROVE NoRequest' /\ NoEnd'
  <2>1. \A x \in ToSet(Inbox') : x[1] # "VEND-REQUEST"
    <3> SUFFICES ASSUME NEW x \in ToSet(Inbox'), x[1] = "VEND-REQUEST" PROVE FALSE
      OBVIOUS
    <3>1. n < x[2] /\ x \in ToSet(Inbox)
      BY <1>4, <1>5 DEF Ordered
    <3>2. n = Cans /\ x[2] = Cans
      BY <1>5, <1>11, <3>1 DEF Phases, RequestPhase
    <3> QED
      BY <1>6, <3>1, <3>2
  <2>2. \A x \in ToSet(Inbox') : x[1] \notin Ends
    BY <1>4, <1>5, <1>11 DEF Phases, EndPhase
  <2> QED
    BY <2>1, <2>2 DEF NoRequest, NoEnd
<1> QED
  BY <1>2, <1>3, <1>4, <1>8, <1>9, <1>10, <1>11

LEMMA DeniedKeeps ==
  ASSUME CansInv, Takes("VEND-REQUEST"), user = NoUser, Stays(user, <<<<"VEND-DENIED">>>>), UNCHANGED <<past, tags, vending>>
  PROVE  CansInv'
<1> DEFINE m == <<"VEND-DENIED">>
<1>1. m[1] \notin Ends \cup {"VEND-REQUEST"} \cup Tagged /\ m[1] = "VEND-DENIED" /\ m[1] \in Verdicts
  BY DEF Ends, Tagged, Answers, Verdicts
<1>2. Read("backend", <<m>>) /\ user' = NoUser /\ alive' = alive
  BY DEF Stays
<1> HIDE DEF m
<1>3. PICK n : n = Message[2]
  OBVIOUS
<1>4. CansFrom(n)
  BY DEF CansInv, Shapes, CansFrom, Cans
<1>5. /\ Queues(bus') /\ InboxRight' /\ InTurn'
      /\ \A x \in ToSet(Inbox') : x[1] \in Tagged => x \in ToSet(Inbox) \/ x = m
      /\ Phases => NoRequest' /\ NoEnd'
  BY <1>1, <1>2, <1>3, <1>4, RequestGone
<1>6. alive' = TRUE
  BY <1>2 DEF CansInv, Shapes, Takes
<1>7. Shapes'
  BY <1>5, <1>6 DEF CansInv, Shapes, Cans
<1>8. bus'["db"] = bus["db"] /\ bus'["vmc"] = bus["vmc"] \o <<m>>
  <2>1. Reader(m[1]) = "vmc" /\ {"db", "vmc"} \subseteq Apps \ {"backend"}
    BY <1>1 DEF Reader, Apps
  <2> QED
    BY <1>2, <2>1, Exact
<1>9. Always'
  <2>1. UserRight'
    BY <1>2 DEF UserRight
  <2>2. TagsRight'
    BY <1>1, <1>2, <1>5, <1>8 DEF CansInv, Always, TagsRight, TagRight
  <2>3. RestRight'
    BY <1>6 DEF CansInv, Always, RestRight, Cans
  <2> QED
    BY <1>5, <2>1, <2>2, <2>3 DEF Always
<1>10. ~past'.gaveup => Phases'
  <2> SUFFICES ASSUME ~past.gaveup PROVE Phases'
    OBVIOUS
  <2>1. Phases
    BY DEF CansInv
  <2>2. NoVerdict /\ Confirms
    BY <2>1, RequestHead
  <2>3. NoRequest' /\ NoEnd' /\ Confirms' /\ vending'.state # "dispense"
    BY <1>5, <2>1, <2>2 DEF Confirms
  <2>4. NoneLive'
    BY <1>2 DEF NoneLive, Live
  <2>5. /\ ToSet(bus'["vmc"]) = ToSet(bus["vmc"]) \cup {m}
        /\ \A x, y : Before(bus'["vmc"], x, y) => Before(bus["vmc"], x, y) \/ (x \in ToSet(bus["vmc"]) /\ y = m)
    <3>1. PICK S : bus["vmc"] \in Seq(S)
      BY DEF CansInv, Shapes, Queues, Apps
    <3> QED
      BY <1>8, <3>1, PutOf
  <2>6. VerdictPhase'
    <3>1. \A x \in ToSet(bus'["vmc"]) : x[1] \in Verdicts => x = m
      BY <2>2, <2>5 DEF NoVerdict
    <3>2. \A x, y \in ToSet(bus'["vmc"]) : x[1] \in Verdicts /\ y[1] \in Verdicts => ~Before(bus'["vmc"], x, y)
      BY <2>2, <2>5, BeforeIn DEF NoVerdict
    <3> QED
      BY <1>1, <2>3, <3>1, <3>2 DEF VerdictPhase, Verdicts
  <2>7. LivePhase'
    BY <2>4, BeforeIn DEF LivePhase, NoneLive
  <2>8. EndPhase'
    BY <2>3 DEF EndPhase, NoEnd, Ends
  <2>9. RequestPhase'
    BY <2>3 DEF RequestPhase, NoRequest
  <2> QED
    BY <2>3, <2>6, <2>7, <2>8, <2>9 DEF Phases, DispensePhase
<1> QED
  BY <1>7, <1>9, <1>10, SamePaid DEF CansInv

AsksFor(code) ==
  /\ Takes("VEND-REQUEST") /\ user # NoUser /\ code \in {CanCode[Message[3]], NoCode}
  /\ Stays([user EXCEPT !.vend = TRUE, !.tag = Tag("")], <<<<"BOBDB-QUERYPRODUCT", Tag(""), code>>>>)
  /\ past' = [past EXCEPT !.cans[Message[2]].sid = user.sid] /\ tags' = tags + 1
LEMMA AskedKeeps == ASSUME CansInv, NEW code, AsksFor(code), vending' = vending PROVE CansInv'
<1> DEFINE u == [user EXCEPT !.vend = TRUE, !.tag = Tag("")]
<1>0. Takes("VEND-REQUEST") /\ user # NoUser /\ code \in {CanCode[Message[3]], NoCode} /\ tags' = tags + 1
  BY DEF AsksFor
<1>1. PICK m : /\ m = <<"BOBDB-QUERYPRODUCT", Tag(""), code>>
                /\ m[1] = "BOBDB-QUERYPRODUCT" /\ m[2] = <<"", tags + 1>> /\ m[3] = code /\ m[2][2] = tags + 1
  <2> DEFINE m == <<"BOBDB-QUERYPRODUCT", Tag(""), code>>
  <2>1. m[1] = "BOBDB-QUERYPRODUCT" /\ m[2] = <<"", tags + 1>> /\ m[3] = code /\ m[2][2] = tags + 1
    BY DEF Tag
  <2> HIDE DEF m
  <2> QED
    BY <2>1 DEF m
<1>2. m[1] \in Tagged \ (Ends \cup {"VEND-REQUEST"} \cup Verdicts)
  BY <1>1 DEF Ends, Tagged, Answers, Verdicts
<1>3. Read("backend", <<m>>) /\ user' = u /\ alive' = alive
  BY <1>1 DEF AsksFor, Stays
<1>4. /\ DOMAIN u = UserFields /\ u # NoUser /\ u.sid = user.sid /\ u.vend = TRUE /\ u.tag = <<"", tags + 1>>
      /\ u.tag[1] = "" /\ u.tag[2] = tags + 1
  <2>1. DOMAIN user = UserFields
    BY <1>0, UserIs
  <2>2. u.tag = <<"", tags + 1>>
    BY <2>1 DEF UserFields, Tag
  <2> QED
    BY <2>1, <2>2, TagIs, RealUsers DEF UserFields
<1> HIDE DEF u
<1>5. PICK n : n = Message[2]
  OBVIOUS
<1>6. n \in 1 .. Cans /\ RequestRight(Message) /\ (Phases => n = Cans /\ Confirms /\ NoVerdict /\ NoneLive)
  BY <1>0, <1>5, RequestHead
<1> DEFINE can == [past.cans[n] EXCEPT !.sid = user.sid]
<1>7. /\ DOMAIN can = CanFields /\ can.sid = user.sid /\ can.code = past.cans[n].code
      /\ can.dropped = past.cans[n].dropped /\ can.settled = past.cans[n].settled /\ can.paid = past.cans[n].paid
  <2>1. DOMAIN past.cans[n] = CanFields
    BY <1>6 DEF CansInv, Shapes
  <2> QED
    BY <2>1 DEF CanFields
<1>8. /\ DOMAIN past' = PastFields /\ past'.cut = past.cut /\ past'.sessions = past.sessions /\ past'.gaveup = past.gaveup
      /\ past'.cans = [past.cans EXCEPT ![n] = can]
  <2>1. DOMAIN past = PastFields
    BY DEF CansInv, Shapes
  <2>2. past' = [past EXCEPT !.cans[n].sid = user.sid]
    BY <1>5 DEF AsksFor
  <2> QED
    BY <1>6, <2>1, <2>2 DEF PastFields
<1> HIDE DEF can
<1>9. /\ \E S : past'.cans \in Seq(S)
      /\ Len(past'.cans) = Cans /\ \A k \in 1 .. Cans : past'.cans[k] = IF k = n THEN can ELSE past.cans[k]
      /\ \A k \in 1 .. Cans : DOMAIN past'.cans[k] = CanFields
  <2>1. LET q == [past.cans EXCEPT ![n] = can]
        IN  /\ \E S : q \in Seq(S)
            /\ Len(q) = Cans /\ \A k \in 1 .. Cans : q[k] = IF k = n THEN can ELSE past.cans[k]
            /\ \A k \in 1 .. Cans : DOMAIN q[k] = CanFields
    BY <1>6, <1>7, OneCan
  <2> QED
    BY <1>8, <2>1
<1>10. CansFrom(n)
  BY <1>7, <1>9 DEF CansFrom
<1>11. /\ Queues(bus') /\ InboxRight' /\ InTurn' /\ RequestedAfter(n)'
       /\ \A x \in ToSet(Inbox') : x[1] \in Tagged => x \in ToSet(Inbox) \/ x = m
       /\ Phases => NoRequest' /\ NoEnd'
  BY <1>0, <1>2, <1>3, <1>5, <1>10, RequestGone
<1>12. alive' = TRUE /\ tags \in Nat /\ tags' \in Nat /\ Cans' = Cans /\ past'.cans[n].sid = user.sid
  <2>1. tags \in Nat /\ alive = TRUE
    BY <1>0 DEF CansInv, Shapes, Takes
  <2>2. Cans' = Cans
    BY <1>9 DEF Cans
  <2> QED
    BY <1>0, <1>3, <1>6, <1>7, <1>9, <2>1, <2>2
<1>13. Shapes'
  BY <1>8, <1>9, <1>11, <1>12 DEF CansInv, Shapes, Cans
<1>14. bus'["vmc"] = bus["vmc"] /\ bus'["db"] = bus["db"] \o <<m>> /\ ToSet(Inbox') \subseteq ToSet(Inbox)
  <2>1. Reader(m[1]) = "db" /\ {"db", "vmc"} \subseteq Apps \ {"backend"}
    BY <1>1 DEF Reader, Apps
  <2> QED
    BY <1>0, <1>3, <2>1, Exact
<1>15. /\ ToSet(bus'["db"]) = ToSet(bus["db"]) \cup {m}
       /\ \A x, y : Before(bus'["db"], x, y) => Before(bus["db"], x, y) \/ (x \in ToSet(bus["db"]) /\ y = m)
  <2>1. PICK S : bus["db"] \in Seq(S)
    BY DEF CansInv, Shapes, Queues, Apps
  <2> QED
    BY <1>14, <2>1, PutOf
<1>16. \A x \in ToSet(bus["db"]) \cup ToSet(Inbox) : x[1] \in Tagged => x[2][2] \in 1 .. tags
  BY DEF CansInv, Always, TagsRight, TagRight
<1>17. Always'
  <2>1. UserRight'
    <3>1. u.tag[2] \in 0 .. tags'
      <4>1. tags + 1 \in 0 .. tags'
        BY <1>0, <1>12
      <4> QED
        BY <1>3, <1>4, <4>1
    <3>2. user.sid \in 1 .. past.sessions /\ user.sid \notin past.cut
      BY <1>0 DEF CansInv, Always, UserRight
    <3> QED
      BY <1>3, <1>4, <1>6, <1>8, <1>11, <1>12, <3>1, <3>2 DEF UserRight
  <2>2. TagsRight'
    <3> SUFFICES ASSUME NEW x \in ToSet(bus'["db"]) \cup ToSet(Inbox'), x[1] \in Tagged PROVE TagRight(x)'
      BY DEF TagsRight
    <3>1. CASE x = m
      <4>1. tags + 1 \in 1 .. tags'
        BY <1>0, <1>12
      <4> QED
        BY <1>1, <3>1, <4>1 DEF TagRight
    <3>2. CASE x \in ToSet(bus["db"]) \cup ToSet(Inbox)
      <4>1. x[2][2] \in 1 .. tags
        BY <1>16, <3>2
      <4>2. x[2][2] \in 1 .. tags' /\ x[2][2] # tags + 1
        BY <1>0, <1>12, <4>1
      <4> QED
        BY <1>3, <1>4, <4>2 DEF TagRight
    <3> QED
      BY <1>11, <1>15, <3>1, <3>2
  <2>3. RestRight'
    BY <1>8, <1>12 DEF CansInv, Always, RestRight
  <2> QED
    BY <1>11, <2>1, <2>2, <2>3 DEF Always
<1>18. ~past'.gaveup => Phases'
  <2> SUFFICES ASSUME ~past.gaveup PROVE Phases'
    BY <1>8
  <2>1. Phases
    BY DEF CansInv
  <2>2. NoRequest' /\ NoEnd' /\ Confirms' /\ NoVerdict' /\ vending'.state # "dispense"
    BY <1>6, <1>11, <1>14, <2>1 DEF Confirms, NoVerdict
  <2>3. \A x \in ToSet(bus'["db"]) \cup ToSet(Inbox') : Live(x)' => x = m
    <3> SUFFICES ASSUME NEW x \in ToSet(bus'["db"]) \cup ToSet(Inbox'), Live(x)', x # m PROVE FALSE
      OBVIOUS
    <3>1. x[1] \in Tagged /\ x[2] = u.tag
      BY <1>3 DEF Live, Tagged
    <3>2. x[2][2] \in 1 .. tags
      BY <1>11, <1>15, <1>16, <3>1
    <3>3. x[2][2] = tags + 1
      BY <1>4, <3>1
    <3> QED
      BY <1>12, <3>2, <3>3
  <2>4. m \notin ToSet(bus["db"]) \cup ToSet(Inbox)
    <3>1. tags + 1 \notin 1 .. tags
      BY <1>12
    <3> QED
      BY <1>1, <1>2, <1>16, <3>1
  <2>5. m \notin ToSet(Inbox')
    BY <1>14, <2>4
  <2>6. AnswerRight(m)'
    <3>1. past.cans[n].code = CanCode[Message[3]] /\ past'.cans[n].code = past.cans[n].code
      BY <1>5, <1>6, <1>10 DEF RequestRight, CansFrom
    <3>2. Cans' = n /\ user'.sid = user.sid /\ past'.cans[n].sid = user.sid
      BY <1>3, <1>4, <1>6, <1>12, <2>1
    <3>3. m[3] \in {past'.cans[n].code, NoCode} /\ m[1] # "BOBDB-PRODUCTINFO"
      BY <1>0, <1>1, <3>1
    <3> QED
      BY <3>2, <3>3 DEF AnswerRight
  <2>7. LivePhase'
    <3>1. \A x, y : Live(x)' /\ Live(y)' => ~Before(bus'["db"], x, y)
      BY <1>15, <2>3, <2>4, BeforeIn
    <3>2. \A x, y : Live(x)' /\ Live(y)' => ~Before(Inbox', x, y)
      BY <2>3, <2>5, BeforeIn
    <3> QED
      <4>1. \A x \in ToSet(bus'["db"]) \cup ToSet(Inbox') : Live(x)' => Confirms' /\ NoEnd' /\ NoVerdict' /\ AnswerRight(x)'
        BY <2>2, <2>3, <2>6
      <4>2. \A x \in ToSet(bus'["db"]), y \in ToSet(Inbox') : ~(Live(x)' /\ Live(y)')
        BY <2>3, <2>5
      <4> QED
        BY <3>1, <3>2, <4>1, <4>2 DEF LivePhase
  <2>8. RequestPhase'
    BY <2>2 DEF RequestPhase, NoRequest
  <2>9. VerdictPhase'
    BY <2>2 DEF VerdictPhase, NoVerdict, Verdicts
  <2>10. EndPhase'
    BY <2>2 DEF EndPhase, NoEnd, Ends
  <2> QED
    BY <2>2, <2>7, <2>8, <2>9, <2>10 DEF Phases, DispensePhase
<1>19. CansPaid'
  <2> SUFFICES ASSUME NEW k \in DOMAIN past'.cans
               PROVE  /\ \A payment \in past'.cans[k].paid : past'.cans[k].dropped /\ payment[1] = past'.cans[k].sid
                      /\ ~past'.gaveup =>
                           /\ past'.cans[k].paid \subseteq {<<past'.cans[k].sid, past'.cans[k].code>>}
                           /\ past'.cans[k].settled /\ past'.cans[k].paid = {} => past'.cans[k].sid \in past'.cut
    BY DEF CansPaid
  <2>1. DOMAIN past'.cans = 1 .. Cans /\ DOMAIN past.cans = 1 .. Cans
    BY <1>9 DEF CansInv, Shapes, Cans
  <2>2. CASE k = n
    BY <1>6, <1>10, <2>1, <2>2, <1>5 DEF RequestRight, CansFrom
  <2>3. CASE k # n
    <3>1. past'.cans[k] = past.cans[k]
      BY <1>9, <2>1, <2>3
    <3> QED
      BY <1>8, <2>1, <3>1 DEF CansInv, CansPaid
  <2> QED
    BY <2>2, <2>3
<1> QED
  BY <1>13, <1>17, <1>18, <1>19 DEF CansInv
LEMMA VendRequestKeeps == ASSUME CansInv, HandleVendRequest, vending' = vending PROVE CansInv'
<1>1. Takes("VEND-REQUEST")
  BY DEF HandleVendRequest
<1>2. CASE user = NoUser /\ Stays(user, <<<<"VEND-DENIED">>>>) /\ UNCHANGED past /\ NoTags
  BY <1>1, <1>2, DeniedKeeps DEF NoTags
<1>3. CASE user # NoUser /\ Cut /\ Dies(<<>>)
  BY <1>3, CutDies
<1> DEFINE code == IF sysvars = "values" THEN CanCode[Message[3]] ELSE NoCode
<1>4. CASE /\ user # NoUser
           /\ Stays([user EXCEPT !.vend = TRUE, !.tag = Tag("")], <<<<"BOBDB-QUERYPRODUCT", Tag(""), code>>>>)
           /\ past' = [past EXCEPT !.cans[Message[2]].sid = user.sid]
           /\ NewTag
  <2>1. code \in {CanCode[Message[3]], NoCode}
    OBVIOUS
  <2> HIDE DEF code
  <2> QED
    BY <1>1, <1>4, <2>1, AskedKeeps DEF NewTag, AsksFor
<1> QED
  BY <1>2, <1>3, <1>4 DEF HandleVendRequest

-----------------------------------------------------------------------------
(* The controller.                                                           *)
Idle == UNCHANGED <<user, tags, alive>>
LEMMA IdleUser == ASSUME CansInv, Idle, Elsewhere PROVE Remains \/ Stops1
  BY DEF Remains, Stops, Stops1, Idle, Elsewhere, CansInv, Always, UserRight
LEMMA IdleMild ==
  ASSUME CansInv, Idle, UNCHANGED bus, CansSame \/ (DOMAIN past' = PastFields /\ past'.cans = past.cans /\ past'.gaveup \in BOOLEAN), Elsewhere,
         DOMAIN vending' = {"state", "n"}, vending'.n = vending.n,
         vending'.state \in {"confirm", "dispense"} => vending.state \in {"confirm", "dispense"}
  PROVE  Mild({})
<1>1. Remains \/ Stops1
  BY IdleUser
<1>2. Queues(bus) /\ Up /\ tags \in Nat /\ (~alive => user = NoUser)
  BY DEF CansInv, Shapes, Always, RestRight, Up
<1>3. Thins({}) /\ RequestsKept
  BY LessSame DEF Thins, RequestsKept, Inbox
<1>4. CansStay
  BY DEF CansInv, Shapes, CansStay, CansSame, Cans
<1> QED
  BY <1>1, <1>2, <1>3, <1>4 DEF Mild, Idle, Up, Inbox
LEMMA CancelKeeps == ASSUME CansInv, CancelVend, Idle PROVE CansInv'
<1>1. DOMAIN past = PastFields /\ DOMAIN vending = {"state", "n"}
  BY DEF CansInv, Shapes
<1>2. /\ DOMAIN past' = PastFields /\ past'.cans = past.cans /\ past'.gaveup = TRUE /\ Elsewhere
      /\ DOMAIN vending' = {"state", "n"} /\ vending'.n = vending.n /\ vending'.state = "session" /\ UNCHANGED bus
  BY <1>1 DEF CancelVend, PastFields, Elsewhere
<1>3. Mild({})
  BY <1>2, IdleMild
<1>4. CansPaid'
  BY <1>2, SamePaid DEF Elsewhere
<1> QED
  BY <1>2, <1>3, <1>4, MildKeeps
(* Away from a request there is nothing to wait for.                         *)
LEMMA NotConfirm ==
  ASSUME CansInv, Phases, ~Confirms PROVE NoneLive /\ NoVerdict /\ NoRequest
  BY DEF Phases, RequestPhase, LivePhase, VerdictPhase, NoneLive, NoVerdict, NoRequest
LEMMA ResetKeeps == ASSUME CansInv, Reset, Idle PROVE CansInv'
<1>1. DOMAIN past = PastFields /\ DOMAIN vending = {"state", "n"} /\ past.gaveup \in BOOLEAN /\ Queues(bus) /\ Up /\ tags \in Nat
      /\ (~alive => user = NoUser)
  BY DEF CansInv, Shapes, Always, RestRight, Up
<1>2. /\ DOMAIN past' = PastFields /\ past'.cans = past.cans /\ Elsewhere
      /\ past'.gaveup = (past.gaveup \/ Confirms)
      /\ DOMAIN vending' = {"state", "n"} /\ vending'.n = vending.n /\ vending'.state = "off" /\ Says(<<<<"VEND-READY">>>>)
  BY <1>1 DEF Reset, PastFields, Elsewhere, Confirms
<1>3. Carries(<<<<"VEND-READY">>>>, {})
  BY SaysPlain DEF Weighty
<1>4. Queues(bus') /\ Thins({}) /\ RequestsKept /\ (~alive => Inbox' = <<>>)
  BY <1>1, <1>2, <1>3, SaysThins
<1>5. CansStay
  BY <1>2 DEF CansInv, Shapes, CansStay, Cans, Confirms
<1>6. Remains \/ Stops1
  BY <1>2, IdleUser
<1>7. Mild({})
  BY <1>1, <1>2, <1>4, <1>5, <1>6 DEF Mild, Idle, Up
<1>8. CansPaid'
  BY <1>2, SamePaid DEF Elsewhere
<1>9. ~past'.gaveup => Phases'
  <2> SUFFICES ASSUME ~past.gaveup, ~Confirms PROVE Phases'
    BY <1>2
  <2>1. Phases /\ NoneLive /\ NoVerdict /\ NoRequest
    BY NotConfirm DEF CansInv
  <2>2. \A x : Live(x)' <=> Live(x)
    BY DEF Idle, Live
  <2>3. NoRequest' /\ NoVerdict' /\ NoneLive'
    <3>1. {"BOBDB-QUERYPRODUCT"} \cup Answers \subseteq Tagged
      BY DEF Tagged, Answers
    <3> QED
      BY <1>7, <2>1, <2>2, <3>1, MildSees DEF NoRequest, NoVerdict, NoneLive, Live
  <2>4. \A k : Owed(k) => Owed(k)'
    BY <1>2 DEF Owed, Idle, Elsewhere
  <2>5. EndPhase'
    <3>1. \A x \in ToSet(Inbox') : x[1] = "VEND-SUCCESS" => Owed(x[2])
      BY <1>7, <2>1, MildSees DEF Phases, EndPhase, Ends
    <3>2. \A x, y \in ToSet(Inbox') : x[1] \in Ends \cup {"VEND-REQUEST"} /\ y[1] \in Ends => ~Before(Inbox', x, y)
      BY <1>7, <2>1, MildSees DEF Phases, EndPhase
    <3> QED
      BY <2>4, <3>1, <3>2 DEF EndPhase
  <2>6. RequestPhase' /\ LivePhase' /\ VerdictPhase' /\ DispensePhase'
    <3>1. RequestPhase'
      BY <2>3 DEF RequestPhase, NoRequest
    <3>2. LivePhase'
      BY <2>3 DEF LivePhase, NoneLive
    <3>3. VerdictPhase'
      BY <2>3 DEF VerdictPhase, NoVerdict, Verdicts
    <3> QED
      BY <1>2, <3>1, <3>2, <3>3 DEF DispensePhase
  <2> QED
    BY <2>5, <2>6 DEF Phases
<1> QED
  BY <1>7, <1>8, <1>9, MildKeeps

LEMMA VmcReadsKeeps == ASSUME CansInv, VmcReads, Idle PROVE CansInv'
<1> DEFINE kind == Head(bus["vmc"])[1]
<1>1. /\ bus["vmc"] # <<>> /\ Read("vmc", <<>>) /\ past' = past
      /\ vending' = [vending EXCEPT !.state =
           IF kind = "VEND-SSTART" /\ @ = "off" THEN "session"
           ELSE IF @ # "confirm" THEN @
           ELSE IF kind = "VEND-APPROVED" THEN "dispense" ELSE IF kind = "VEND-DENIED" THEN "session" ELSE @]
  BY DEF VmcReads
<1>2. /\ Queues(bus) /\ {"vmc", "db", "backend"} \subseteq Apps /\ Up /\ tags \in Nat /\ DOMAIN vending = {"state", "n"}
      /\ alive \in BOOLEAN /\ (~alive => user = NoUser)
  BY DEF CansInv, Shapes, Always, RestRight, Up, Apps
<1> DEFINE c == [bus EXCEPT !["vmc"] = Tail(@)]
<1>3. /\ Queues(c) /\ c["vmc"] = Tail(bus["vmc"]) /\ (\A d \in Apps : d # "vmc" => c[d] = bus[d])
      /\ Head(bus["vmc"]) \in ToSet(bus["vmc"])
      /\ \A x \in ToSet(c["vmc"]) : x \in ToSet(bus["vmc"]) /\ Before(bus["vmc"], Head(bus["vmc"]), x)
      /\ \A x, y : Before(c["vmc"], x, y) => Before(bus["vmc"], x, y)
  BY <1>1, <1>2, Popped
<1>4. bus' = Sent(c, <<>>, alive)
  BY <1>1, Zenon DEF Read
<1> HIDE DEF c
<1>5. /\ bus'["vmc"] = c["vmc"] /\ bus'["db"] = bus["db"] /\ Inbox' = Inbox
  <2>1. \A a \in Apps : a # "backend" \/ alive => Sent(c, <<>>, alive)[a] = c[a]
    BY <1>2, <1>3, SentNone
  <2>2. ~alive => Sent(c, <<>>, alive)["backend"] = <<>>
    BY <1>2, <1>3, SentNone
  <2>3. ~alive => Inbox = <<>>
    BY <1>2 DEF Up
  <2> QED
    BY <1>2, <1>3, <1>4, <2>1, <2>2, <2>3 DEF Inbox
<1>6. Mild({})
  <2>1. Carries(<<>>, {})
    BY CarriesNone
  <2>2. Queues(bus') /\ Thins({}) /\ RequestsKept /\ (~alive => Inbox' = <<>>)
    BY <1>1, <1>2, <2>1, ReadThins
  <2>3. CansStay /\ Elsewhere
    BY <1>1, PastSame DEF CansInv, Shapes, CansStay, Cans
  <2>4. Remains \/ Stops1
    BY <2>3, IdleUser
  <2>5. DOMAIN vending' = {"state", "n"} /\ vending'.n = vending.n
        /\ (vending'.state \in {"confirm", "dispense"} => vending.state \in {"confirm", "dispense"})
    BY <1>1, <1>2
  <2> QED
    BY <1>2, <2>2, <2>3, <2>4, <2>5 DEF Mild, Idle
<1>7. CansPaid'
  BY <1>1, SamePaid
<1>8. ~past'.gaveup => Phases'
  <2> SUFFICES ASSUME ~past.gaveup PROVE Phases'
    BY <1>1
  <2>1. Phases
    BY DEF CansInv
  <2>2. (\A x : Live(x)' <=> Live(x)) /\ (\A k : Owed(k)' <=> Owed(k)) /\ Cans' = Cans /\ (\A x : AnswerRight(x)' <=> AnswerRight(x))
    BY <1>1 DEF Idle, Live, Owed, Cans, AnswerRight
  <2>3. NoEnd' <=> NoEnd
    BY <1>5 DEF NoEnd
  <2>4. NoneLive' <=> NoneLive
    BY <1>5, <2>2 DEF NoneLive
  <2>5. NoVerdict => NoVerdict'
    BY <1>3, <1>5 DEF NoVerdict
  <2>6. EndPhase'
    BY <1>5, <2>1, <2>2 DEF Phases, EndPhase
  <2>7. /\ \A x \in ToSet(bus'["vmc"]) : x \in ToSet(bus["vmc"]) /\ Before(bus["vmc"], Head(bus["vmc"]), x)
        /\ \A x, y : Before(bus'["vmc"], x, y) => Before(bus["vmc"], x, y)
    BY <1>3, <1>5
  <2>8. CASE ~(Confirms /\ kind \in Verdicts)
    <3>1. Confirms' <=> Confirms
      BY <1>1, <1>2, <2>8 DEF Confirms, Verdicts
    <3>2. vending'.state = "dispense" => vending.state = "dispense"
      BY <1>1, <1>2, <2>8 DEF Confirms, Verdicts
    <3>3. RequestPhase'
      BY <1>5, <2>1, <2>2, <2>4, <2>5, <3>1 DEF Phases, RequestPhase
    <3>4. LivePhase'
      BY <1>5, <2>1, <2>2, <2>3, <2>5, <3>1 DEF Phases, LivePhase
    <3>5. VerdictPhase'
      BY <2>1, <2>2, <2>3, <2>7, <3>1 DEF Phases, VerdictPhase
    <3>6. DispensePhase'
      BY <2>1, <2>2, <2>3, <3>2 DEF Phases, DispensePhase
    <3> QED
      BY <2>6, <3>3, <3>4, <3>5, <3>6 DEF Phases
  <2>9. CASE Confirms /\ kind \in Verdicts
    <3>1. ~NoVerdict /\ NoEnd /\ NoneLive /\ NoRequest
      BY <1>3, <2>1, <2>9 DEF Phases, VerdictPhase, RequestPhase, LivePhase, NoVerdict, NoneLive, NoRequest
    <3>2. NoVerdict'
      BY <1>3, <2>1, <2>7, <2>9 DEF Phases, VerdictPhase, NoVerdict
    <3>3. NoRequest'
      BY <1>5, <3>1 DEF NoRequest
    <3>4. vending'.state = "dispense" => kind = "VEND-APPROVED"
      BY <1>1, <1>2, <2>9 DEF Confirms
    <3>5. DispensePhase'
      BY <1>3, <2>1, <2>2, <2>3, <3>1, <3>4 DEF Phases, VerdictPhase, DispensePhase
    <3>6. RequestPhase'
      BY <3>3 DEF RequestPhase, NoRequest
    <3>7. LivePhase'
      BY <2>4, <3>1 DEF LivePhase, NoneLive
    <3>8. VerdictPhase'
      BY <3>2 DEF VerdictPhase, NoVerdict, Verdicts
    <3> QED
      BY <2>6, <3>5, <3>6, <3>7, <3>8 DEF Phases
  <2> QED
    BY <2>8, <2>9
<1> QED
  BY <1>6, <1>7, <1>8, MildKeeps

LEMMA PutsIn ==
  ASSUME CansInv, NEW m, Says(<<m>>), Reader(m[1]) = "backend"
  PROVE  /\ Queues(bus') /\ bus'["vmc"] = bus["vmc"] /\ bus'["db"] = bus["db"]
         /\ \A x \in ToSet(Inbox') : x \in ToSet(Inbox) \/ x = m
         /\ \A x \in ToSet(Inbox) : x \in ToSet(Inbox')
         /\ alive => m \in ToSet(Inbox')
         /\ ~alive => Inbox' = <<>>
         /\ \A x, y : Before(Inbox', x, y) => Before(Inbox, x, y) \/ (x \in ToSet(Inbox) /\ y = m)
<1>1. Queues(bus) /\ {"vmc", "db", "backend"} \subseteq Apps /\ Up /\ alive \in BOOLEAN
  BY DEF CansInv, Shapes, Always, RestRight, Up, Apps
<1>2. bus' = Sent(bus, <<m>>, alive)
  BY DEF Says
<1>3. /\ Queues(bus') /\ \A a \in Apps : a # "backend" \/ alive => bus'[a] = IF Reader(m[1]) = a THEN bus[a] \o <<m>> ELSE bus[a]
      /\ ~alive => bus'["backend"] = <<>>
  BY <1>1, <1>2, SentOne
<1>4. CASE alive
  <2>1. Inbox' = Inbox \o <<m>>
    BY <1>1, <1>3, <1>4 DEF Inbox
  <2>2. PICK S : Inbox \in Seq(S)
    BY <1>1 DEF Queues, Inbox
  <2>3. /\ ToSet(Inbox') = ToSet(Inbox) \cup {m}
        /\ \A x, y : Before(Inbox', x, y) => Before(Inbox, x, y) \/ (x \in ToSet(Inbox) /\ y = m)
    BY <2>1, <2>2, PutOf
  <2> QED
    BY <1>1, <1>3, <1>4, <2>3
<1>5. CASE ~alive
  <2>1. Inbox' = <<>> /\ Inbox = <<>>
    BY <1>1, <1>3, <1>5 DEF Inbox, Up
  <2>2. ToSet(Inbox') = {} /\ ToSet(Inbox) = {} /\ \A x, y : ~Before(Inbox', x, y)
    BY <2>1, NoneOf
  <2> QED
    BY <1>1, <1>3, <1>5, <2>1, <2>2
<1> QED
  BY <1>1, <1>4, <1>5
LEMMA IdleUserRight ==
  ASSUME CansInv, Idle, Elsewhere, \A k \in 1 .. Cans : RequestedAfter(k) /\ alive => RequestedAfter(k)',
         Cans \in Nat, Cans' \in Nat, Cans <= Cans', \A k \in 1 .. Cans : past'.cans[k].sid = past.cans[k].sid
  PROVE  UserRight'
<1>1. user # NoUser => alive
  BY DEF CansInv, Shapes, Always, RestRight
<1>2. \A k \in 1 .. Cans : k \in 1 .. Cans'
  OBVIOUS
<1>3. user # NoUser /\ user.vend => \E m \in 1 .. Cans' : past'.cans[m].sid = user.sid /\ RequestedAfter(m)'
  BY <1>1, <1>2 DEF CansInv, Always, UserRight
<1> QED
  BY <1>3 DEF UserRight, Idle, Elsewhere, CansInv, Always
LEMMA IdleTags ==
  ASSUME CansInv, Idle, bus'["db"] = bus["db"], NEW m, m[1] \notin Tagged, \A x \in ToSet(Inbox') : x \in ToSet(Inbox) \/ x = m
  PROVE  TagsRight'
  BY DEF TagsRight, TagRight, CansInv, Always, Idle

LEMMA DispenseKeeps == ASSUME CansInv, Dispense, Idle PROVE CansInv'
<1>1. /\ vending.state = "dispense" /\ vending.n = Cans /\ Cans > 0 /\ DOMAIN vending = {"state", "n"}
      /\ vending' = [vending EXCEPT !.state = "session"]
  BY DEF Dispense, CansInv, Shapes, Always, RestRight
<1>2. Cans \in Nat
  <2>1. PICK S : past.cans \in Seq(S)
    BY DEF CansInv, Shapes
  <2> QED
    BY <2>1 DEF Cans
<1>3. PICK n : n = Cans
  OBVIOUS
<1>4. n \in 1 .. Cans /\ n = vending.n
  BY <1>1, <1>2, <1>3
<1>5. PICK m : /\ Says(<<m>>) /\ m[1] \in Ends
               /\ \/ m[1] = "VEND-SUCCESS" /\ m[2] = n /\ past' = [past EXCEPT !.cans[n].dropped = TRUE]
                  \/ m[1] = "VEND-FAILED" /\ past' = past
  <2>1. CASE Says(<<<<"VEND-SUCCESS", vending.n>>>>) /\ past' = [past EXCEPT !.cans[vending.n].dropped = TRUE]
    <3> DEFINE m == <<"VEND-SUCCESS", n>>
    <3>1. m[1] \in Ends /\ m[1] = "VEND-SUCCESS" /\ m[2] = n
      BY DEF Ends
    <3>2. Says(<<m>>) /\ past' = [past EXCEPT !.cans[n].dropped = TRUE]
      BY <1>4, <2>1
    <3> QED
      BY <3>1, <3>2
  <2>2. CASE Says(<<<<"VEND-FAILED">>>>) /\ past' = past
    <3> DEFINE m == <<"VEND-FAILED">>
    <3>1. m[1] \in Ends /\ m[1] = "VEND-FAILED"
      BY DEF Ends
    <3> QED
      BY <2>2, <3>1
  <2> QED
    BY <2>1, <2>2 DEF Dispense
<1>6. Reader(m[1]) = "backend" /\ m[1] \notin Tagged \cup {"VEND-REQUEST"}
  BY <1>5 DEF Reader, Ends, Tagged, Answers
<1>7. /\ Queues(bus') /\ bus'["vmc"] = bus["vmc"] /\ bus'["db"] = bus["db"]
      /\ \A x \in ToSet(Inbox') : x \in ToSet(Inbox) \/ x = m
      /\ \A x \in ToSet(Inbox) : x \in ToSet(Inbox')
      /\ ~alive => Inbox' = <<>>
      /\ \A x, y : Before(Inbox', x, y) => Before(Inbox, x, y) \/ (x \in ToSet(Inbox) /\ y = m)
  BY <1>5, <1>6, PutsIn
<1>8. /\ DOMAIN past' = PastFields /\ Elsewhere /\ past'.gaveup = past.gaveup
      /\ \E S : past'.cans \in Seq(S)
      /\ Cans' = Cans
      /\ \A k \in 1 .. Cans :
           /\ DOMAIN past'.cans[k] = CanFields
           /\ past'.cans[k].sid = past.cans[k].sid /\ past'.cans[k].code = past.cans[k].code
           /\ past'.cans[k].settled = past.cans[k].settled /\ past'.cans[k].paid = past.cans[k].paid
           /\ past.cans[k].dropped => past'.cans[k].dropped
           /\ k = n /\ m[1] = "VEND-SUCCESS" => past'.cans[k].dropped
  <2>1. CASE m[1] = "VEND-FAILED" /\ past' = past
    BY <2>1, PastSame DEF CansInv, Shapes, Cans
  <2>2. CASE past' = [past EXCEPT !.cans[n].dropped = TRUE]
    <3> DEFINE can == [past.cans[n] EXCEPT !.dropped = TRUE]
    <3>1. DOMAIN past.cans[n] = CanFields /\ DOMAIN past = PastFields
      BY <1>4 DEF CansInv, Shapes
    <3>2. /\ DOMAIN can = CanFields /\ can.dropped = TRUE /\ can.sid = past.cans[n].sid /\ can.code = past.cans[n].code
          /\ can.settled = past.cans[n].settled /\ can.paid = past.cans[n].paid
      BY <3>1 DEF CanFields
    <3>3. /\ DOMAIN past' = PastFields /\ Elsewhere /\ past'.gaveup = past.gaveup
          /\ past'.cans = [past.cans EXCEPT ![n] = can]
      BY <2>2, <3>1 DEF PastFields, Elsewhere
    <3> HIDE DEF can
    <3>4. LET q == [past.cans EXCEPT ![n] = can]
          IN  /\ \E S : q \in Seq(S)
              /\ Len(q) = Cans /\ \A k \in 1 .. Cans : q[k] = IF k = n THEN can ELSE past.cans[k]
              /\ \A k \in 1 .. Cans : DOMAIN q[k] = CanFields
      BY <1>4, <3>2, OneCan
    <3>5. /\ \E S : past'.cans \in Seq(S)
          /\ Cans' = Cans /\ \A k \in 1 .. Cans : past'.cans[k] = IF k = n THEN can ELSE past.cans[k]
          /\ \A k \in 1 .. Cans : DOMAIN past'.cans[k] = CanFields
      BY <3>3, <3>4 DEF Cans
    <3> QED
      BY <3>2, <3>3, <3>5
  <2> QED
    BY <1>5, <2>1, <2>2
<1>9. Shapes'
  BY <1>1, <1>7, <1>8 DEF CansInv, Shapes, Idle, Elsewhere
<1>10. \A k \in 1 .. Cans : RequestedAfter(k) => RequestedAfter(k)'
  BY <1>7, <1>8 DEF RequestedAfter, Requested
<1>11. InboxRight'
  <2> SUFFICES ASSUME NEW x \in ToSet(Inbox') PROVE (x[1] = "VEND-REQUEST" => RequestRight(x)') /\ (x[1] = "VEND-SUCCESS" => DropRight(x)')
    BY DEF InboxRight
  <2>1. CASE x \in ToSet(Inbox)
    BY <1>8, <1>10, <2>1 DEF CansInv, Always, InboxRight, RequestRight, DropRight
  <2>2. CASE x = m
    <3>1. RequestedAfter(n)'
      BY <1>2, <1>3, <1>8 DEF RequestedAfter
    <3> QED
      BY <1>4, <1>5, <1>6, <1>8, <2>2, <3>1 DEF DropRight, Ends
  <2> QED
    BY <1>7, <2>1, <2>2
<1>12. InTurn'
  <2> SUFFICES ASSUME NEW x \in ToSet(Inbox'), NEW y \in ToSet(Inbox'), Before(Inbox', x, y) PROVE Ordered(x, y)
    BY DEF InTurn, Ordered
  <2>1. CASE Before(Inbox, x, y)
    BY <2>1, BeforeIn DEF CansInv, Always, InTurn
  <2>2. CASE x \in ToSet(Inbox) /\ y = m
    <3>1. x[1] = "VEND-REQUEST" => x[2] \in 1 .. Cans
      BY <2>2 DEF CansInv, Always, InboxRight, RequestRight
    <3>2. y[1] # "VEND-REQUEST" /\ (y[1] = "VEND-SUCCESS" => y[2] = Cans)
      BY <1>3, <1>5, <1>6, <2>2
    <3> QED
      BY <1>2, <3>1, <3>2 DEF Ordered
  <2> QED
    BY <1>7, <2>1, <2>2
<1>13. Always'
  <2>1. UserRight'
    BY <1>2, <1>8, <1>10, IdleUserRight
  <2>2. TagsRight'
    BY <1>6, <1>7, IdleTags
  <2>3. RestRight'
    BY <1>1, <1>7, <1>8 DEF CansInv, Always, RestRight, Idle, Elsewhere
  <2> QED
    BY <1>11, <1>12, <2>1, <2>2, <2>3 DEF Always
<1>14. CansPaid'
  <2>1. DOMAIN past'.cans = 1 .. Cans /\ DOMAIN past.cans = 1 .. Cans
    BY <1>8 DEF CansInv, Shapes, Cans
  <2> QED
    BY <1>8, <2>1 DEF CansInv, CansPaid, Elsewhere
<1>15. ~past'.gaveup => Phases'
  <2> SUFFICES ASSUME ~past.gaveup PROVE Phases'
    BY <1>8
  <2>1. Phases /\ NoneLive /\ NoVerdict /\ NoRequest /\ NoEnd /\ Owed(n)
    BY <1>1, <1>3, NotConfirm DEF CansInv, Phases, DispensePhase, Confirms
  <2>2. (\A x : Live(x)' <=> Live(x)) /\ (\A k \in 1 .. Cans : Owed(k) => Owed(k)')
    BY <1>8 DEF Idle, Live, Owed, Elsewhere
  <2>3. NoVerdict' /\ NoRequest'
    BY <1>6, <1>7, <2>1 DEF NoVerdict, NoRequest
  <2>4. NoneLive'
    BY <1>6, <1>7, <2>1, <2>2 DEF NoneLive, Live, Tagged
  <2>5. EndPhase'
    <3>1. \A x \in ToSet(Inbox') : x[1] \in Ends \cup {"VEND-REQUEST"} => x = m
      BY <1>7, <2>1 DEF NoEnd, NoRequest
    <3>2. \A x \in ToSet(Inbox') : x[1] = "VEND-SUCCESS" => Owed(x[2])'
      BY <1>4, <1>5, <2>1, <2>2, <3>1 DEF Ends
    <3>3. m \notin ToSet(Inbox)
      BY <1>5, <2>1 DEF NoEnd
    <3>4. \A x, y \in ToSet(Inbox') : x[1] \in Ends \cup {"VEND-REQUEST"} /\ y[1] \in Ends => ~Before(Inbox', x, y)
      BY <1>7, <3>1, <3>3, BeforeIn
    <3> QED
      BY <3>2, <3>4 DEF EndPhase
  <2>6. RequestPhase' /\ LivePhase' /\ VerdictPhase' /\ DispensePhase'
    <3>1. RequestPhase'
      BY <2>3 DEF RequestPhase, NoRequest
    <3>2. LivePhase'
      BY <2>4 DEF LivePhase, NoneLive
    <3>3. VerdictPhase'
      BY <2>3 DEF VerdictPhase, NoVerdict, Verdicts
    <3> QED
      BY <1>1, <3>1, <3>2, <3>3 DEF DispensePhase
  <2> QED
    BY <2>5, <2>6 DEF Phases
<1> QED
  BY <1>9, <1>13, <1>14, <1>15 DEF CansInv

LEMMA CanMore ==
  ASSUME CansInv, NEW can, DOMAIN can = CanFields, past' = [past EXCEPT !.cans = Append(@, can)]
  PROVE  /\ DOMAIN past' = PastFields /\ Elsewhere /\ past'.gaveup = past.gaveup
         /\ \E S : past'.cans \in Seq(S)
         /\ Cans \in Nat /\ Cans' = Cans + 1
         /\ \A k \in 1 .. Cans : past'.cans[k] = past.cans[k] /\ DOMAIN past.cans[k] = CanFields
         /\ past'.cans[Cans + 1] = can
<1>1. DOMAIN past = PastFields
  BY DEF CansInv, Shapes
<1>2. PICK S : past.cans \in Seq(S)
  BY DEF CansInv, Shapes
<1>3. /\ DOMAIN past' = PastFields /\ Elsewhere /\ past'.gaveup = past.gaveup
      /\ past'.cans = Append(past.cans, can)
  BY <1>1 DEF PastFields, Elsewhere
<1>4. past.cans \in Seq(S \cup {can}) /\ can \in S \cup {can}
  BY <1>2
<1>5. /\ Append(past.cans, can) \in Seq(S \cup {can})
      /\ Len(Append(past.cans, can)) = Cans + 1 /\ Cans \in Nat
      /\ \A k \in 1 .. Cans : Append(past.cans, can)[k] = past.cans[k]
      /\ Append(past.cans, can)[Cans + 1] = can
  BY <1>4, AppendProperties DEF Cans
<1>6. \A k \in 1 .. Cans : DOMAIN past.cans[k] = CanFields
  BY DEF CansInv, Shapes
<1>7. Cans' = Cans + 1
  BY <1>3, <1>5 DEF Cans
<1> QED
  BY <1>3, <1>5, <1>6, <1>7
LEMMA ButtonKeeps == ASSUME CansInv, Button, Idle PROVE CansInv'
<1>1. PICK o : o = Cans
  OBVIOUS
<1>2. PICK button : button = Head(plan.cans)
  OBVIOUS
<1>3. PICK n : n = Len(past.cans) + 1
  OBVIOUS
<1>4. PICK m : m = <<"VEND-REQUEST", n, button>>
  OBVIOUS
<1>5. PICK can : can = [code |-> CanCode[button], sid |-> 0, dropped |-> FALSE, settled |-> FALSE, paid |-> {}]
  OBVIOUS
<1>6. /\ vending.state = "session" /\ vending' = [state |-> "confirm", n |-> n]
      /\ Says(<<m>>) /\ past' = [past EXCEPT !.cans = Append(@, can)]
  BY <1>2, <1>3, <1>4, <1>5 DEF Button
<1>7. /\ DOMAIN can = CanFields /\ can.code = CanCode[button] /\ can.sid = 0 /\ can.dropped = FALSE
      /\ can.settled = FALSE /\ can.paid = {}
  BY <1>5 DEF CanFields
<1>8. m[1] = "VEND-REQUEST" /\ m[2] = n /\ m[3] = button
  BY <1>4
<1>9. /\ DOMAIN past' = PastFields /\ Elsewhere /\ past'.gaveup = past.gaveup
      /\ \E S : past'.cans \in Seq(S)
      /\ o \in Nat /\ Cans = o /\ Cans' = n /\ n = o + 1
      /\ \A k \in 1 .. o : past'.cans[k] = past.cans[k] /\ DOMAIN past.cans[k] = CanFields
      /\ past'.cans[n] = can
  BY <1>1, <1>3, <1>6, <1>7, CanMore DEF Cans
<1>10. /\ \A k \in 1 .. n : k \in 1 .. o \/ k = n
       /\ \A k \in 1 .. o : k \in 1 .. n
       /\ n \in 1 .. n /\ n > 0 /\ ~(n \in 1 .. o)
       /\ \A k \in 1 .. o : k < n
       /\ \A k \in n + 1 .. n : FALSE
       /\ \A j, k \in Int : k \in j + 1 .. n => k \in j + 1 .. o \/ k = n
  BY <1>9
<1>11. m[1] \notin Ends \cup Tagged /\ Reader(m[1]) = "backend"
  BY <1>8 DEF Reader, Ends, Tagged, Answers
<1>12. /\ Queues(bus') /\ bus'["vmc"] = bus["vmc"] /\ bus'["db"] = bus["db"]
       /\ \A x \in ToSet(Inbox') : x \in ToSet(Inbox) \/ x = m
       /\ \A x \in ToSet(Inbox) : x \in ToSet(Inbox')
       /\ alive => m \in ToSet(Inbox')
       /\ ~alive => Inbox' = <<>>
       /\ \A x, y : Before(Inbox', x, y) => Before(Inbox, x, y) \/ (x \in ToSet(Inbox) /\ y = m)
  BY <1>6, <1>11, PutsIn
<1>13. ~alive => ToSet(Inbox) = {} /\ ToSet(Inbox') = {}
  BY <1>12, NoneOf DEF CansInv, Always, RestRight
<1>14. Shapes'
  <2>1. \A k \in 1 .. n : DOMAIN past'.cans[k] = CanFields
    BY <1>7, <1>9, <1>10
  <2>2. DOMAIN vending' = {"state", "n"}
    BY <1>6
  <2>3. past'.sessions \in Nat /\ past'.gaveup \in BOOLEAN /\ tags' \in Nat /\ alive' \in BOOLEAN
    BY <1>9 DEF CansInv, Shapes, Idle, Elsewhere
  <2> QED
    BY <1>9, <1>12, <2>1, <2>2, <2>3 DEF Shapes
<1>15. alive => \A k \in 1 .. o : RequestedAfter(k) => RequestedAfter(k)'
  <2> SUFFICES ASSUME alive, NEW k \in 1 .. o, RequestedAfter(k), NEW j \in k + 1 .. n PROVE Requested(j)'
    BY <1>9 DEF RequestedAfter
  <2>1. j \in k + 1 .. o \/ j = n
    BY <1>9
  <2>2. j \in k + 1 .. o => Requested(j)
    BY <1>9 DEF RequestedAfter
  <2> QED
    BY <1>8, <1>12, <2>1, <2>2 DEF Requested
<1>16. InboxRight'
  <2> SUFFICES ASSUME NEW x \in ToSet(Inbox') PROVE (x[1] = "VEND-REQUEST" => RequestRight(x)') /\ (x[1] = "VEND-SUCCESS" => DropRight(x)')
    BY DEF InboxRight
  <2>1. alive
    BY <1>13
  <2>2. CASE x \in ToSet(Inbox)
    <3>1. (x[1] = "VEND-REQUEST" => RequestRight(x)) /\ (x[1] = "VEND-SUCCESS" => DropRight(x))
      BY <2>2 DEF CansInv, Always, InboxRight
    <3> QED
      BY <1>9, <1>10, <1>15, <2>1, <3>1 DEF RequestRight, DropRight
  <2>3. CASE x = m
    <3>1. RequestedAfter(n)'
      BY <1>9, <1>10 DEF RequestedAfter
    <3> QED
      BY <1>7, <1>8, <1>9, <1>10, <2>3, <3>1 DEF RequestRight
  <2> QED
    BY <1>12, <2>2, <2>3
<1>17. InTurn'
  <2> SUFFICES ASSUME NEW x \in ToSet(Inbox'), NEW y \in ToSet(Inbox'), Before(Inbox', x, y) PROVE Ordered(x, y)
    BY DEF InTurn, Ordered
  <2>1. CASE Before(Inbox, x, y)
    BY <2>1, BeforeIn DEF CansInv, Always, InTurn
  <2>2. CASE x \in ToSet(Inbox) /\ y = m
    <3>1. x[1] \in {"VEND-REQUEST", "VEND-SUCCESS"} => x[2] \in 1 .. o
      BY <1>9, <2>2 DEF CansInv, Always, InboxRight, RequestRight, DropRight
    <3>2. x[1] \in {"VEND-REQUEST", "VEND-SUCCESS"} => x[2] < n
      BY <1>10, <3>1
    <3> QED
      BY <1>8, <2>2, <3>2 DEF Ordered
  <2> QED
    BY <1>12, <2>1, <2>2
<1>18. Always'
  <2>1. UserRight'
    <3>1. \A k \in 1 .. Cans : RequestedAfter(k) /\ alive => RequestedAfter(k)'
      BY <1>9, <1>15
    <3>2. Cans \in Nat /\ Cans' \in Nat /\ Cans <= Cans' /\ \A k \in 1 .. Cans : past'.cans[k].sid = past.cans[k].sid
      BY <1>9
    <3> QED
      BY <1>9, <3>1, <3>2, IdleUserRight
  <2>2. TagsRight'
    BY <1>11, <1>12, IdleTags
  <2>3. RestRight'
    BY <1>6, <1>9, <1>10, <1>12 DEF CansInv, Always, RestRight, Idle, Elsewhere
  <2> QED
    BY <1>16, <1>17, <2>1, <2>2, <2>3 DEF Always
<1>19. CansPaid'
  <2>1. DOMAIN past'.cans = 1 .. n /\ DOMAIN past.cans = 1 .. o
    BY <1>9 DEF CansInv, Shapes, Cans
  <2> SUFFICES ASSUME NEW k \in 1 .. n
               PROVE  LET c == past'.cans[k]
                      IN  /\ \A payment \in c.paid : c.dropped /\ payment[1] = c.sid
                          /\ ~past'.gaveup =>
                               /\ c.paid \subseteq {<<c.sid, c.code>>}
                               /\ c.settled /\ c.paid = {} => c.sid \in past'.cut
    BY <2>1 DEF CansPaid
  <2>2. CASE k \in 1 .. o
    BY <1>9, <2>1, <2>2 DEF CansInv, CansPaid, Elsewhere
  <2>3. CASE k = n
    BY <1>7, <1>9, <2>3
  <2> QED
    BY <1>10, <2>2, <2>3
<1>20. ~past'.gaveup => Phases'
  <2> SUFFICES ASSUME ~past.gaveup PROVE Phases'
    BY <1>9
  <2>1. Phases /\ NoneLive /\ NoVerdict /\ NoRequest
    BY <1>6, NotConfirm DEF CansInv, Confirms
  <2>2. (\A x : Live(x)' <=> Live(x)) /\ (\A k \in 1 .. o : Owed(k) => Owed(k)')
    BY <1>9 DEF Idle, Live, Owed, Elsewhere
  <2>3. NoVerdict' /\ Confirms'
    BY <1>6, <1>12, <2>1 DEF NoVerdict, Confirms
  <2>4. NoneLive'
    BY <1>11, <1>12, <2>1, <2>2 DEF NoneLive, Live, Tagged
  <2>5. RequestPhase'
    BY <1>8, <1>9, <1>12, <2>1, <2>3, <2>4 DEF RequestPhase, NoRequest
  <2>6. LivePhase' /\ VerdictPhase' /\ DispensePhase'
    <3>1. LivePhase'
      BY <2>4 DEF LivePhase, NoneLive
    <3>2. VerdictPhase'
      BY <2>3 DEF VerdictPhase, NoVerdict, Verdicts
    <3>3. DispensePhase'
      BY <2>3 DEF DispensePhase, Confirms
    <3> QED
      BY <3>1, <3>2, <3>3
  <2>7. EndPhase'
    <3>1. \A x \in ToSet(Inbox') : x[1] \in Ends => x \in ToSet(Inbox)
      BY <1>11, <1>12
    <3>2. \A x \in ToSet(Inbox) : x[1] = "VEND-SUCCESS" => x[2] \in 1 .. o
      BY <1>9 DEF CansInv, Always, InboxRight, DropRight
    <3>3. \A x \in ToSet(Inbox') : x[1] = "VEND-SUCCESS" => Owed(x[2])'
      BY <2>1, <2>2, <3>1, <3>2 DEF Phases, EndPhase, Ends
    <3>4. \A x, y \in ToSet(Inbox') : x[1] \in Ends \cup {"VEND-REQUEST"} /\ y[1] \in Ends => ~Before(Inbox', x, y)
      BY <1>11, <1>12, <2>1, BeforeIn DEF Phases, EndPhase
    <3> QED
      BY <3>3, <3>4 DEF EndPhase
  <2> QED
    BY <2>5, <2>6, <2>7 DEF Phases
<1> QED
  BY <1>14, <1>18, <1>19, <1>20 DEF CansInv

LEMMA CansStart == ASSUME MachineInit PROVE CansInv
<1>1. /\ \A a \in Apps : bus[a] = <<>>
      /\ DOMAIN bus = Apps /\ user = NoUser /\ tags = 0 /\ alive = TRUE /\ vending = [state |-> "session", n |-> 0]
      /\ past = [sessions |-> 0, asked |-> 0, cans |-> <<>>, cut |-> {}, mixed |-> {}, both |-> FALSE, gaveup |-> FALSE,
                 inserted |-> 0, returned |-> 0, credited |-> 0, bought |-> 0, owed |-> 0]
  BY DEF MachineInit
<1>2. /\ DOMAIN past = PastFields /\ past.sessions = 0 /\ past.cans = <<>> /\ past.cut = {} /\ past.gaveup = FALSE
      /\ DOMAIN vending = {"state", "n"} /\ vending.state = "session"
  BY <1>1 DEF PastFields
<1>3. bus["backend"] = <<>> /\ bus["db"] = <<>> /\ bus["vmc"] = <<>>
  BY <1>1 DEF Apps
<1>4. ToSet(bus["backend"]) = {} /\ ToSet(bus["db"]) = {} /\ ToSet(bus["vmc"]) = {}
  BY <1>3, NoneOf
<1>5. past.cans \in Seq({}) /\ Len(past.cans) = 0 /\ DOMAIN past.cans = {}
  BY <1>2
<1>6. Queues(bus)
  BY <1>1, NoneOf DEF Queues
<1>7. Shapes
  <2>1. Cans = 0 /\ 1 .. 0 = {}
    BY <1>5 DEF Cans
  <2> QED
    BY <1>1, <1>2, <1>5, <1>6, <2>1 DEF Shapes
<1>8. Always
  BY <1>1, <1>2, <1>4 DEF Always, InboxRight, InTurn, UserRight, TagsRight, RestRight, Inbox
<1>9. Phases
  BY <1>2, <1>4 DEF Phases, RequestPhase, LivePhase, VerdictPhase, DispensePhase, EndPhase, Inbox
<1>10. CansPaid
  BY <1>5 DEF CansPaid
<1> QED
  BY <1>7, <1>8, <1>9, <1>10 DEF CansInv

LEMMA EngineKeeps == ASSUME CansInv, Parting, Engine PROVE CansInv'
<1>1. vending' = vending /\ BackendNext
  BY DEF Engine, outside
<1>2. CASE \/ HandleLogin \/ HandleFpGoodRead \/ HandleBobDBUserInfo \/ HandleLogout \/ HandleBobDBUserPref
           \/ HandleBarCodeScan \/ HandleEscrow \/ HandleDeposit
  BY <1>1, <1>2, LoginKeeps, FpGoodReadKeeps, UserInfoKeeps, LogoutKeeps, UserPrefKeeps, ScanKeeps, EscrowKeeps, DepositKeeps
<1>3. CASE HandleLearnStart \/ HandleLearnEnd \/ HandleFpLearnGood \/ HandleSysSet
  BY <1>1, <1>3, LearnKeeps
<1>4. CASE HandleVendRequest \/ HandleVendSuccess \/ HandleVendFailed \/ HandleVendReady
  BY <1>1, <1>4, VendRequestKeeps, VendSuccessKeeps, VendFailedKeeps, VendReadyKeeps
<1>5. CASE HandleBobDBProductInfo
  BY <1>1, <1>5, CanInfoKeeps, NotForCanKeeps
<1>6. CASE HandleBobDBFail
  BY <1>1, <1>6, FailForCanKeeps, NotForCanFailKeeps
<1>7. CASE TimedOut \/ Goodbye \/ Overtaken \/ Restart
  BY <1>1, <1>7, TimedOutKeeps, GoodbyeKeeps, OvertakenKeeps, RestartKeeps
<1> QED
  BY <1>1, <1>2, <1>3, <1>4, <1>5, <1>6, <1>7 DEF BackendNext

LEMMA AroundKeeps == ASSUME CansInv, Around PROVE CansInv'
<1>1. Idle /\ UNCHANGED <<user, tags, alive>>
  BY DEF Around, backend, Idle
<1>2. CASE BobDb
  <2>1. Untouched
    BY <1>1, <1>2 DEF BobDb, Untouched
  <2>2. CASE QueryProduct
    BY <2>1, <2>2, QueryLiveKeeps, QueryDeadKeeps, NoCodeAssumption
  <2> QED
    BY <1>2, <2>1, <2>2, BooksKeep, QueryUserKeeps DEF BobDb
<1>3. CASE Vmc
  BY <1>1, <1>3, ButtonKeeps, VmcReadsKeeps, DispenseKeeps, CancelKeeps, ResetKeeps DEF Vmc
<1>4. CASE Money
  BY <1>1, <1>4, MoneyKeeps
<1>5. CASE Devices
  BY <1>1, <1>5, DevicesKeep
<1> QED
  BY <1>2, <1>3, <1>4, <1>5 DEF Around

LEMMA CansStep == ASSUME CansInv, Parting, [MachineNext]_everything PROVE CansInv'
<1>1. CASE UNCHANGED everything
  <2>1. UNCHANGED bus /\ Untouched /\ CansSame /\ Elsewhere
    BY <1>1, PastSame DEF everything, backend, Untouched
  <2> QED
    BY <2>1, StillKeeps
<1> QED
  BY <1>1, EngineKeeps, ScreenKeeps, AroundKeeps DEF MachineNext

(* A can is charged to the session that asked for it, at the price of what   *)
(* was asked for, and is free only when its session was cut short, whatever  *)
(* customers and devices do, and however often the engine dies and restarts. *)
THEOREM CansCharged == MachineSpec => []CansPaid
<1>1. MachineInit => CansInv /\ Parting
  BY CansStart, CarriesNone DEF MachineInit, Parting
<1>2. CansInv /\ Parting /\ [MachineNext]_everything => CansInv' /\ Parting'
  BY CansStep, PartingStep
<1>3. CansInv => CansPaid
  BY DEF CansInv
<1> QED
  BY <1>1, <1>2, <1>3, PTL DEF MachineSpec
-----------------------------------------------------------------------------
(* The cash.  What the messages on their way are worth: coins and bills that *)
(* the engine is told of or has the changer give, what goes into a person's  *)
(* account, and what somebody anonymous pays for.                            *)
Worth(x) ==
  CASE x[1] \in {"CASH-DEPOSIT", "CASH-CHANGE"} -> x[2]
    [] x[1] = "BOBDB-PURCHASE" /\ x[2] = Anonymous -> x[3]
    [] x[1] = "BOBDB-DEPOSIT" /\ x[2] # Anonymous -> x[3]
    [] OTHER -> 0
Worths(s) == [i \in 1 .. Len(s) |-> Worth(s[i])]
Total(s) == LET f == CHOOSE f : IsSumTo(f, Worths(s), Len(s)) IN f[Len(s)]
Countable(s) == (\E S : s \in Seq(S)) /\ \A x \in ToSet(s) : Worth(x) \in Int

LEMMA TotalIs ==
  ASSUME NEW s, Countable(s)
  PROVE  \E f : IsSumTo(f, Worths(s), Len(s)) /\ Total(s) = f[Len(s)] /\ Len(s) \in Nat
<1>1. PICK S : s \in Seq(S)
  BY DEF Countable
<1>2. Len(s) \in Nat
  BY <1>1
<1>3. \E f : IsSumTo(f, Worths(s), Len(s))
  BY <1>2, SumToExists
<1> QED
  BY <1>2, <1>3 DEF Total
LEMMA WorthsOf ==
  ASSUME NEW s, Countable(s)
  PROVE  Len(s) \in Nat /\ \A i \in 1 .. Len(s) : Worths(s)[i] = Worth(s[i]) /\ Worth(s[i]) \in Int
<1>1. PICK S : s \in Seq(S)
  BY DEF Countable
<1>2. DOMAIN s = 1 .. Len(s) /\ Len(s) \in Nat
  BY <1>1
<1>3. \A i \in 1 .. Len(s) : s[i] \in ToSet(s)
  BY <1>2 DEF ToSet
<1> QED
  BY <1>2, <1>3 DEF Worths, Countable
LEMMA TotalInt == ASSUME NEW s, Countable(s) PROVE Total(s) \in Int
<1>1. PICK f : IsSumTo(f, Worths(s), Len(s)) /\ Total(s) = f[Len(s)] /\ Len(s) \in Nat
  BY TotalIs
<1>2. \A i \in 1 .. Len(s) : Worths(s)[i] \in Int
  BY WorthsOf
<1>3. f[Len(s)] \in Int
  BY <1>1, <1>2, SumToInt
<1> QED
  BY <1>1, <1>3
LEMMA TotalNone == Countable(<<>>) /\ Total(<<>>) = 0
<1>1. Countable(<<>>) /\ Len(<<>>) = 0
  BY NoneOf DEF Countable
<1>2. PICK f : IsSumTo(f, Worths(<<>>), 0) /\ Total(<<>>) = f[0]
  BY <1>1, TotalIs
<1>3. f[0] = 0
  BY <1>2, SumToAt
<1> QED
  BY <1>1, <1>2, <1>3

(* One message more.                                                         *)
LEMMA TotalPut ==
  ASSUME NEW s, Countable(s), NEW m, Worth(m) \in Int
  PROVE  Countable(Append(s, m)) /\ Total(Append(s, m)) = Total(s) + Worth(m)
<1> DEFINE t == Append(s, m)
           n == Len(s)
<1>1. PICK S : s \in Seq(S)
  BY DEF Countable
<1>2. s \in Seq(S \cup {m}) /\ m \in S \cup {m}
  BY <1>1
<1>3. /\ t \in Seq(S \cup {m}) /\ n \in Nat /\ Len(t) = n + 1
      /\ \A i \in 1 .. n : t[i] = s[i]
      /\ t[n + 1] = m /\ DOMAIN t = 1 .. n + 1 /\ DOMAIN s = 1 .. n
  BY <1>2, AppendProperties, LenProperties
<1> HIDE DEF t, n
<1>4. \A i \in 1 .. n + 1 : i \in 1 .. n \/ i = n + 1
  BY <1>3
<1>5. Countable(t)
  <2>1. ASSUME NEW x \in ToSet(t) PROVE Worth(x) \in Int
    <3>1. PICK i \in 1 .. n + 1 : t[i] = x
      BY <1>3 DEF ToSet
    <3> QED
      BY <1>3, <1>4, <3>1 DEF Countable, ToSet
  <2> QED
    BY <1>3, <2>1 DEF Countable
<1>6. PICK f : IsSumTo(f, Worths(t), n + 1) /\ Total(t) = f[n + 1]
  BY <1>3, <1>5, TotalIs
<1>7. PICK h : IsSumTo(h, Worths(s), n) /\ Total(s) = h[n]
  BY TotalIs DEF n
<1>8. /\ \A i \in 1 .. n : Worths(s)[i] = Worth(s[i])
      /\ \A i \in 1 .. n + 1 : Worths(t)[i] = Worth(t[i])
  BY <1>3, <1>5, WorthsOf DEF n
<1>9. \A k \in 0 .. n : f[k] = h[k]
  <2> DEFINE N == {k \in Nat : k <= n => f[k] = h[k]}
  <2>1. 0 \in N
    <3>1. 0 \in 0 .. n /\ 0 \in 0 .. n + 1 /\ n + 1 \in Nat
      BY <1>3
    <3>2. f[0] = 0
      BY <1>6, <3>1, SumToAt
    <3>3. h[0] = 0
      BY <1>3, <1>7, <3>1, SumToAt
    <3> QED
      BY <3>2, <3>3
  <2>2. ASSUME NEW k \in N PROVE k + 1 \in N
    <3> SUFFICES ASSUME k + 1 <= n PROVE f[k + 1] = h[k + 1]
      OBVIOUS
    <3>1. k + 1 \in 0 .. n /\ k + 1 \in 0 .. n + 1 /\ n + 1 \in Nat /\ k + 1 # 0 /\ (k + 1) - 1 = k /\ k + 1 \in 1 .. n /\ k + 1 \in 1 .. n + 1
      BY <1>3
    <3>2. f[k] = h[k]
      BY <1>3, <3>1
    <3> HIDE DEF N
    <3>3. f[k + 1] = f[(k + 1) - 1] + Worths(t)[k + 1]
      BY <1>6, <3>1, SumToAt
    <3>4. h[k + 1] = h[(k + 1) - 1] + Worths(s)[k + 1]
      BY <1>3, <1>7, <3>1, SumToAt
    <3>5. Worths(t)[k + 1] = Worths(s)[k + 1]
      BY <1>3, <1>8, <3>1
    <3> QED
      BY <3>1, <3>2, <3>3, <3>4, <3>5
  <2> HIDE DEF N
  <2>3. N = Nat
    BY <2>1, <2>2, FromZero DEF N
  <2> QED
    BY <1>3, <2>3 DEF N
<1>10. f[n + 1] = f[n] + Worth(m)
  <2>1. n + 1 \in 0 .. n + 1 /\ n + 1 \in Nat /\ n + 1 # 0 /\ (n + 1) - 1 = n /\ n + 1 \in 1 .. n + 1
    BY <1>3
  <2>2. f[n + 1] = f[(n + 1) - 1] + Worths(t)[n + 1]
    BY <1>6, <2>1, SumToAt
  <2> QED
    BY <1>3, <1>8, <2>1, <2>2
<1>11. n \in 0 .. n
  BY <1>3
<1> QED
  BY <1>5, <1>6, <1>7, <1>9, <1>10, <1>11 DEF t

LEMMA CatPut ==
  ASSUME NEW S, NEW s \in Seq(S), NEW t \in Seq(S), NEW m \in S
  PROVE  s \o Append(t, m) = Append(s \o t, m)
  OBVIOUS
LEMMA TotalCat ==
  ASSUME NEW s, NEW t, Countable(s), Countable(t)
  PROVE  Countable(s \o t) /\ Total(s \o t) = Total(s) + Total(t)
<1>1. PICK S0 : s \in Seq(S0)
  BY DEF Countable
<1>2. PICK T0 : t \in Seq(T0)
  BY DEF Countable
<1> DEFINE S == S0 \cup T0
           n == Len(t)
           p(k) == SubSeq(t, 1, k)
<1>3. s \in Seq(S) /\ t \in Seq(S) /\ n \in Nat
  BY <1>1, <1>2
<1>4. \A k \in 1 .. n : t[k] \in S /\ t[k] \in ToSet(t) /\ Worth(t[k]) \in Int
  <2>1. DOMAIN t = 1 .. n
    BY <1>3
  <2>2. \A k \in 1 .. n : t[k] \in ToSet(t)
    BY <2>1 DEF ToSet
  <2> QED
    BY <1>3, <2>2, ElementOfSeq DEF Countable
<1> HIDE DEF S
<1> DEFINE N == {k \in Nat : k <= n => /\ p(k) \in Seq(S) /\ Countable(p(k)) /\ Countable(s \o p(k))
                                       /\ Total(s \o p(k)) = Total(s) + Total(p(k))}
<1>5. 0 \in N
  <2>1. p(0) = <<>> /\ s \o <<>> = s /\ <<>> \in Seq(S)
    BY <1>3, ConcatEmptySeq
  <2>2. Total(s) + 0 = Total(s)
    BY TotalInt
  <2> HIDE DEF p
  <2> QED
    BY <2>1, <2>2, TotalNone
<1>6. ASSUME NEW k \in N PROVE k + 1 \in N
  <2> SUFFICES ASSUME k + 1 <= n
               PROVE  /\ p(k + 1) \in Seq(S) /\ Countable(p(k + 1)) /\ Countable(s \o p(k + 1))
                      /\ Total(s \o p(k + 1)) = Total(s) + Total(p(k + 1))
    OBVIOUS
  <2>1. k \in Nat /\ k <= n /\ k + 1 \in 1 .. n
    BY <1>3
  <2>2. /\ p(k) \in Seq(S) /\ Countable(p(k)) /\ Countable(s \o p(k))
        /\ Total(s \o p(k)) = Total(s) + Total(p(k))
    BY <2>1
  <2> DEFINE m == t[k + 1]
  <2>3. m \in S /\ Worth(m) \in Int
    BY <1>4, <2>1
  <2>4. p(k + 1) = Append(p(k), m)
    BY <1>3, <2>1
  <2>5. s \o p(k + 1) = Append(s \o p(k), m)
    <3> HIDE DEF p, N, m
    <3> QED
      BY <1>3, <2>2, <2>3, <2>4, CatPut
  <2> HIDE DEF p, m, N
  <2>6. Append(p(k), m) \in Seq(S)
    BY <2>2, <2>3
  <2>7. Countable(Append(p(k), m)) /\ Total(Append(p(k), m)) = Total(p(k)) + Worth(m)
    BY <2>2, <2>3, TotalPut
  <2>8. Countable(Append(s \o p(k), m)) /\ Total(Append(s \o p(k), m)) = Total(s \o p(k)) + Worth(m)
    BY <2>2, <2>3, TotalPut
  <2>9. Total(s) \in Int /\ Total(p(k)) \in Int
    BY <2>2, TotalInt
  <2>10. Total(s \o p(k)) + Worth(m) = Total(s) + (Total(p(k)) + Worth(m))
    BY <2>2, <2>3, <2>9
  <2> QED
    BY <2>4, <2>5, <2>6, <2>7, <2>8, <2>10, Zenon
<1>7. p(n) = t
  BY <1>3
<1> HIDE DEF N, p
<1>8. N = Nat
  BY <1>5, <1>6, FromZero DEF N
<1> QED
  BY <1>3, <1>7, <1>8 DEF N
LEMMA TotalOne == ASSUME NEW m, Worth(m) \in Int PROVE Countable(<<m>>) /\ Total(<<m>>) = Worth(m)
<1>1. Append(<<>>, m) = <<m>>
  OBVIOUS
<1>2. Countable(Append(<<>>, m)) /\ Total(Append(<<>>, m)) = Total(<<>>) + Worth(m)
  BY TotalNone, TotalPut
<1> QED
  BY <1>1, <1>2, TotalNone
LEMMA TotalTail ==
  ASSUME NEW s, Countable(s), s # <<>>
  PROVE  /\ Countable(Tail(s)) /\ Head(s) \in ToSet(s) /\ Worth(Head(s)) \in Int
         /\ Total(s) = Worth(Head(s)) + Total(Tail(s))
<1>1. PICK S : s \in Seq(S)
  BY DEF Countable
<1>2. Tail(s) \in Seq(S) /\ Head(s) \in ToSet(s) /\ ToSet(Tail(s)) \subseteq ToSet(s)
  BY <1>1, TailOf
<1>3. Countable(Tail(s)) /\ Worth(Head(s)) \in Int
  BY <1>2 DEF Countable
<1>4. s = <<Head(s)>> \o Tail(s)
  BY <1>1
<1>5. Countable(<<Head(s)>>) /\ Total(<<Head(s)>>) = Worth(Head(s))
  BY <1>3, TotalOne
<1>6. Total(<<Head(s)>> \o Tail(s)) = Total(<<Head(s)>>) + Total(Tail(s))
  BY <1>3, <1>5, TotalCat
<1> QED
  BY <1>2, <1>3, <1>4, <1>5, <1>6

-----------------------------------------------------------------------------
(* Money comes in nickels and multiples of them.                             *)
Nickels == {m \in Nat : m % 5 = 0}
MessageRight(x) ==
  /\ Worth(x) \in Int
  /\ x[1] = "CASH-DEPOSIT" => x[2] \in Nickels
  /\ x[1] = "BOBDB-PRODUCTINFO" => x[3] \in DOMAIN Price
  /\ x[1] = "BOBDB-USERINFO" => x[3] # Anonymous
  /\ x[1] = "UI-PASSWORD" => x[2] # Anonymous
  /\ x[1] = "LOGIN" /\ Len(x) = 4 => x[2] # Anonymous
Tills == {"backend", "db", "cash"}

LEMMA NickelsInt == \A x \in Nickels : x \in Int /\ x >= 0
  BY DEF Nickels
LEMMA WorthElsewhere == ASSUME NEW x, Reader(x[1]) \notin Tills PROVE Worth(x) = 0
  BY DEF Reader, Tills, Worth

Sifted(f, says, S, a, n) == IsKeptTo(f, says, {x \in S : Reader(x[1]) = a}, n)
Sifting(f, says, S, a, n, k) ==
  /\ Sifted(f, says, S, a, n) /\ n \in Nat /\ k \in Nat /\ k + 1 <= n
  /\ says[k + 1] \in S /\ Countable(f[k]) /\ Worth(says[k + 1]) \in Int
LEMMA KeptTotal ==
  ASSUME NEW S, NEW says, NEW n, NEW a, NEW f, NEW k, Sifting(f, says, S, a, n, k)
  PROVE  /\ Countable(f[k + 1])
         /\ Total(f[k + 1]) = Total(f[k]) + IF Reader(says[k + 1][1]) = a THEN Worth(says[k + 1]) ELSE 0
<1> DEFINE T == {x \in S : Reader(x[1]) = a}
           m == says[k + 1]
<1>1. m \in T <=> Reader(m[1]) = a
  BY DEF Sifting
<1> HIDE DEF T
<1>2. n \in Nat /\ k \in Nat /\ k + 1 \in 0 .. n /\ k + 1 # 0 /\ (k + 1) - 1 = k
  BY DEF Sifting
<1>3. IsKeptTo(f, says, T, n)
  BY DEF T, Sifted, Sifting
<1>4. f[k + 1] = IF says[k + 1] \in T THEN Append(f[(k + 1) - 1], says[k + 1]) ELSE f[(k + 1) - 1]
  BY <1>2, <1>3, KeptToAt
<1>5. f[k + 1] = IF Reader(m[1]) = a THEN Append(f[k], m) ELSE f[k]
  BY <1>1, <1>2, <1>4
<1>6. Total(f[k]) \in Int /\ Countable(f[k]) /\ Worth(m) \in Int
  BY TotalInt DEF Sifting
<1>7. Countable(Append(f[k], m)) /\ Total(Append(f[k], m)) = Total(f[k]) + Worth(m)
  BY <1>6, TotalPut
<1>8. Total(f[k]) + 0 = Total(f[k])
  BY <1>6
<1>9. CASE Reader(m[1]) = a
  BY <1>5, <1>7, <1>9
<1>10. CASE Reader(m[1]) # a
  BY <1>5, <1>6, <1>8, <1>10
<1> QED
  BY <1>9, <1>10

(* What is said gets where it is worth something.                            *)
LEMMA ForTotals ==
  ASSUME NEW says, Countable(says)
  PROVE  /\ \A a \in Tills : Countable(For(says, a))
         /\ Total(For(says, "backend")) + Total(For(says, "db")) + Total(For(says, "cash")) = Total(says)
<1>1. PICK S : says \in Seq(S)
  BY DEF Countable
<1> DEFINE n == Len(says)
<1>2. n \in Nat /\ (\A i \in 1 .. n : says[i] \in S /\ Worths(says)[i] = Worth(says[i]) /\ Worth(says[i]) \in Int)
  BY <1>1, WorthsOf, ElementOfSeq
<1>3. PICK f : Sifted(f, says, S, "backend", n) /\ For(says, "backend") = f[n]
  BY <1>1, ForIs DEF Sifted
<1>4. PICK g : Sifted(g, says, S, "db", n) /\ For(says, "db") = g[n]
  BY <1>1, ForIs DEF Sifted
<1>5. PICK h : Sifted(h, says, S, "cash", n) /\ For(says, "cash") = h[n]
  BY <1>1, ForIs DEF Sifted
<1>6. PICK t : IsSumTo(t, Worths(says), n) /\ Total(says) = t[n]
  BY TotalIs
<1> HIDE DEF n
<1> DEFINE N == {k \in Nat : k <= n => /\ Countable(f[k]) /\ Countable(g[k]) /\ Countable(h[k])
                                       /\ Total(f[k]) + Total(g[k]) + Total(h[k]) = t[k]}
<1>7. 0 \in N
  <2>1. 0 \in 0 .. n
    BY <1>2
  <2>2. f[0] = <<>> /\ g[0] = <<>> /\ h[0] = <<>>
    <3> HIDE DEF N
    <3>1. f[0] = <<>>
      BY <1>2, <1>3, <2>1, KeptToAt DEF Sifted
    <3>2. g[0] = <<>>
      BY <1>2, <1>4, <2>1, KeptToAt DEF Sifted
    <3>3. h[0] = <<>>
      BY <1>2, <1>5, <2>1, KeptToAt DEF Sifted
    <3> QED
      BY <3>1, <3>2, <3>3
  <2>3. t[0] = 0
    <3> HIDE DEF N
    <3> QED
      BY <1>2, <1>6, <2>1, SumToAt
  <2> QED
    BY <2>2, <2>3, TotalNone
<1>8. ASSUME NEW k \in N PROVE k + 1 \in N
  <2> SUFFICES ASSUME k + 1 <= n
               PROVE  /\ Countable(f[k + 1]) /\ Countable(g[k + 1]) /\ Countable(h[k + 1])
                      /\ Total(f[k + 1]) + Total(g[k + 1]) + Total(h[k + 1]) = t[k + 1]
    OBVIOUS
  <2>1. k \in Nat /\ k + 1 \in 1 .. n /\ k + 1 \in 0 .. n /\ k + 1 # 0 /\ (k + 1) - 1 = k
    BY <1>2
  <2>2. /\ Countable(f[k]) /\ Countable(g[k]) /\ Countable(h[k])
        /\ Total(f[k]) + Total(g[k]) + Total(h[k]) = t[k]
    BY <1>2, <2>1
  <2> HIDE DEF N
  <2> DEFINE m == says[k + 1]
             w(a) == IF Reader(m[1]) = a THEN Worth(m) ELSE 0
  <2>3. m \in S /\ Worths(says)[k + 1] = Worth(m) /\ Worth(m) \in Int
    BY <1>2, <2>1
  <2>4. Countable(f[k + 1]) /\ Total(f[k + 1]) = Total(f[k]) + w("backend")
    <3>1. Sifting(f, says, S, "backend", n, k)
      BY <1>2, <1>3, <2>1, <2>2, <2>3 DEF Sifting
    <3> QED
      BY <3>1, KeptTotal
  <2>5. Countable(g[k + 1]) /\ Total(g[k + 1]) = Total(g[k]) + w("db")
    <3>1. Sifting(g, says, S, "db", n, k)
      BY <1>2, <1>4, <2>1, <2>2, <2>3 DEF Sifting
    <3> QED
      BY <3>1, KeptTotal
  <2>6. Countable(h[k + 1]) /\ Total(h[k + 1]) = Total(h[k]) + w("cash")
    <3>1. Sifting(h, says, S, "cash", n, k)
      BY <1>2, <1>5, <2>1, <2>2, <2>3 DEF Sifting
    <3> QED
      BY <3>1, KeptTotal
  <2>7. t[k + 1] = t[k] + Worth(m)
    <3>1. t[k + 1] = t[(k + 1) - 1] + Worths(says)[k + 1]
      BY <1>2, <1>6, <2>1, SumToAt
    <3> QED
      BY <2>1, <2>3, <3>1
  <2>8. w("backend") + w("db") + w("cash") = Worth(m) /\ w("backend") \in Int /\ w("db") \in Int /\ w("cash") \in Int
    <3>1. Reader(m[1]) \in Tills \/ Worth(m) = 0
      BY WorthElsewhere
    <3>2. Worth(m) + 0 + 0 = Worth(m) /\ 0 + Worth(m) + 0 = Worth(m) /\ 0 + 0 + Worth(m) = Worth(m)
      BY <2>3
    <3> HIDE DEF m
    <3> QED
      BY <2>3, <3>1, <3>2 DEF Tills
  <2>9. Total(f[k]) \in Int /\ Total(g[k]) \in Int /\ Total(h[k]) \in Int
    BY <2>2, TotalInt
  <2> HIDE DEF w, m
  <2>10. \A a, b, c, x, y, z, v \in Int : (a + x) + (b + y) + (c + z) = (a + b + c) + (x + y + z)
    OBVIOUS
  <2>11. Total(f[k + 1]) + Total(g[k + 1]) + Total(h[k + 1]) = (Total(f[k]) + Total(g[k]) + Total(h[k])) + (w("backend") + w("db") + w("cash"))
    BY <2>4, <2>5, <2>6, <2>8, <2>9
  <2> QED
    BY <2>2, <2>4, <2>5, <2>6, <2>7, <2>8, <2>11
<1>9. Countable(f[n]) /\ Countable(g[n]) /\ Countable(h[n]) /\ Total(f[n]) + Total(g[n]) + Total(h[n]) = t[n]
  <2> HIDE DEF N
  <2>1. N = Nat
    BY <1>7, <1>8, FromZero DEF N
  <2> QED
    BY <1>2, <2>1 DEF N
<1> QED
  BY <1>3, <1>4, <1>5, <1>6, <1>9 DEF Tills

-----------------------------------------------------------------------------
(* What is said, and what it is worth altogether.                            *)
Proper(says) == (\E S : says \in Seq(S)) /\ \A x \in ToSet(says) : MessageRight(x)
Tells(says, w) == Proper(says) /\ Total(says) = w /\ w \in Int

LEMMA ProperCountable == ASSUME NEW says, Proper(says) PROVE Countable(says)
  BY DEF Proper, Countable, MessageRight
LEMMA TellsNone == Tells(<<>>, 0)
  BY NoneOf, TotalNone DEF Tells, Proper
LEMMA TellsOne == ASSUME NEW m, MessageRight(m) PROVE Tells(<<m>>, Worth(m))
<1>1. Worth(m) \in Int
  BY DEF MessageRight
<1>2. <<m>> \in Seq({m}) /\ ToSet(<<m>>) = {m}
  BY OneOf
<1>3. Total(<<m>>) = Worth(m)
  BY <1>1, TotalOne
<1> QED
  BY <1>1, <1>2, <1>3 DEF Tells, Proper
LEMMA TellsCat ==
  ASSUME NEW s, NEW t, NEW v, NEW w, Tells(s, v), Tells(t, w)
  PROVE  Tells(s \o t, v + w)
<1>1. PICK S : s \in Seq(S)
  BY DEF Tells, Proper
<1>2. PICK T : t \in Seq(T)
  BY DEF Tells, Proper
<1>3. s \o t \in Seq(S \cup T) /\ ToSet(s \o t) = ToSet(s) \cup ToSet(t)
  BY <1>1, <1>2, CatOf
<1>4. Total(s \o t) = Total(s) + Total(t)
  BY ProperCountable, TotalCat DEF Tells
<1>5. Proper(s \o t)
  BY <1>3 DEF Proper, Tells
<1> QED
  BY <1>4, <1>5 DEF Tells

(* The messages that matter here; the others are worth nothing.              *)
Priced ==
  {"CASH-DEPOSIT", "CASH-CHANGE", "BOBDB-PURCHASE", "BOBDB-DEPOSIT", "BOBDB-PRODUCTINFO", "BOBDB-USERINFO", "UI-PASSWORD", "LOGIN"}
Free == {"BOBDB-PRODUCTINFO", "BOBDB-USERINFO", "UI-PASSWORD", "LOGIN"}
LEMMA FreeWorth == ASSUME NEW x, x[1] \notin Priced \/ x[1] \in Free PROVE Worth(x) = 0
  BY DEF Priced, Free, Worth
LEMMA PlainRight == ASSUME NEW x, x[1] \notin Priced PROVE MessageRight(x) /\ Worth(x) = 0
<1>1. Worth(x) = 0
  BY FreeWorth
<1> QED
  BY <1>1 DEF MessageRight, Priced
LEMMA TellsPlain ==
  ASSUME NEW kind, kind \notin Priced
  PROVE  /\ Tells(<<<<kind>>>>, 0)
         /\ \A a : Tells(<<<<kind, a>>>>, 0)
         /\ \A a, b : Tells(<<<<kind, a, b>>>>, 0)
<1>1. /\ <<kind>>[1] = kind /\ (\A a : <<kind, a>>[1] = kind) /\ (\A a, b : <<kind, a, b>>[1] = kind)
  OBVIOUS
<1>2. \A m : m[1] \notin Priced => Tells(<<m>>, 0)
  BY PlainRight, TellsOne
<1> QED
  BY <1>1, <1>2
LEMMA TellsLearn == Tells(<<<<"UI-FP-NOTICE", TRUE>>, <<"FP-LEARN-STOP">>>>, 0)
<1>1. Tells(<<<<"UI-FP-NOTICE", TRUE>>>>, 0) /\ Tells(<<<<"FP-LEARN-STOP">>>>, 0)
  BY TellsPlain DEF Priced
<1>2. Tells(<<<<"UI-FP-NOTICE", TRUE>>>> \o <<<<"FP-LEARN-STOP">>>>, 0 + 0)
  BY <1>1, TellsCat
<1>3. <<<<"UI-FP-NOTICE", TRUE>>>> \o <<<<"FP-LEARN-STOP">>>> = <<<<"UI-FP-NOTICE", TRUE>>, <<"FP-LEARN-STOP">>>>
  BY Concats
<1>4. 0 + 0 = 0
  OBVIOUS
<1> QED
  BY <1>2, <1>3, <1>4, Zenon

-----------------------------------------------------------------------------
(* Every message is where it is read, and as it should be.                   *)
Sound(b) == Queues(b) /\ \A a \in Apps : \A x \in ToSet(b[a]) : Reader(x[1]) = a /\ MessageRight(x)
Due(b) == Total(b["backend"]) + Total(b["db"]) + Total(b["cash"])

LEMMA SoundCountable == ASSUME NEW b, Sound(b), NEW a \in Apps PROVE Countable(b[a])
<1>1. PICK S : b[a] \in Seq(S)
  BY DEF Sound, Queues
<1> QED
  BY <1>1 DEF Sound, Countable, MessageRight
LEMMA DueInt == ASSUME NEW b, Sound(b) PROVE Due(b) \in Int /\ Total(b["backend"]) \in Int /\ Total(b["db"]) \in Int /\ Total(b["cash"]) \in Int
<1>1. "backend" \in Apps /\ "db" \in Apps /\ "cash" \in Apps
  BY DEF Apps
<1>2. Total(b["backend"]) \in Int /\ Total(b["db"]) \in Int /\ Total(b["cash"]) \in Int
  BY <1>1, SoundCountable, TotalInt
<1> QED
  BY <1>2 DEF Due

LEMMA SentRight ==
  ASSUME NEW b, Sound(b), NEW says, Proper(says), NEW up \in BOOLEAN
  PROVE  Sound(Sent(b, says, up))
<1> DEFINE r == Sent(b, says, up)
<1>1. /\ DOMAIN r = Apps
      /\ \A a \in Apps : a # "backend" \/ up => r[a] = b[a] \o For(says, a)
      /\ ~up => r["backend"] = <<>>
  BY SentOf DEF Sound
<1> HIDE DEF r
<1>2. ASSUME NEW a \in Apps
      PROVE  (\E T : r[a] \in Seq(T)) /\ \A x \in ToSet(r[a]) : Reader(x[1]) = a /\ MessageRight(x)
  <2>1. PICK T : b[a] \in Seq(T)
    BY DEF Queues, Sound
  <2>2. For(says, a) \in Seq(ToSet(says)) /\ \A x \in ToSet(For(says, a)) : x \in ToSet(says) /\ Reader(x[1]) = a
    <3>1. says \in Seq(ToSet(says))
      BY ItsOwn DEF Proper
    <3> QED
      BY <3>1, ForSays
  <2>3. CASE a # "backend" \/ up
    <3>1. r[a] = b[a] \o For(says, a)
      BY <1>1, <2>3
    <3> DEFINE f == For(says, a)
    <3>2. f \in Seq(ToSet(says)) /\ r[a] = b[a] \o f
      BY <2>2, <3>1
    <3> HIDE DEF f
    <3>3. b[a] \o f \in Seq(T \cup ToSet(says)) /\ ToSet(b[a] \o f) = ToSet(b[a]) \cup ToSet(f)
      BY <2>1, <3>2, CatOf
    <3> QED
      BY <2>2, <3>2, <3>3 DEF Sound, Proper, f
  <2>4. CASE ~(a # "backend" \/ up)
    BY <1>1, <2>4, NoneOf
  <2> QED
    BY <2>3, <2>4
<1> QED
  BY <1>1, <1>2 DEF Sound, Queues, r

LEMMA SentDue ==
  ASSUME NEW b, Sound(b), NEW says, Proper(says)
  PROVE  Due(Sent(b, says, TRUE)) = Due(b) + Total(says)
<1> DEFINE r == Sent(b, says, TRUE)
<1>1. \A a \in Apps : r[a] = b[a] \o For(says, a)
  BY SentOf DEF Sound
<1> HIDE DEF r
<1>2. Tills \subseteq Apps
  BY DEF Tills, Apps
<1>3. /\ \A a \in Tills : Countable(For(says, a))
      /\ Total(For(says, "backend")) + Total(For(says, "db")) + Total(For(says, "cash")) = Total(says)
  BY ProperCountable, ForTotals
<1>4. ASSUME NEW a \in Tills PROVE Total(r[a]) = Total(b[a]) + Total(For(says, a)) /\ Total(b[a]) \in Int /\ Total(For(says, a)) \in Int
  <2>1. Countable(b[a]) /\ Countable(For(says, a))
    BY <1>2, <1>3, SoundCountable
  <2>2. Total(b[a] \o For(says, a)) = Total(b[a]) + Total(For(says, a))
    BY <2>1, TotalCat
  <2>3. Total(b[a]) \in Int /\ Total(For(says, a)) \in Int
    BY <2>1, TotalInt
  <2> QED
    BY <1>1, <1>2, <2>2, <2>3
<1>5. /\ Total(r["backend"]) = Total(b["backend"]) + Total(For(says, "backend"))
      /\ Total(b["backend"]) \in Int /\ Total(For(says, "backend")) \in Int
      /\ Total(r["db"]) = Total(b["db"]) + Total(For(says, "db"))
      /\ Total(b["db"]) \in Int /\ Total(For(says, "db")) \in Int
      /\ Total(r["cash"]) = Total(b["cash"]) + Total(For(says, "cash"))
      /\ Total(b["cash"]) \in Int /\ Total(For(says, "cash")) \in Int
  BY <1>4 DEF Tills
<1>6. \A x, y, z, u, v, w \in Int : (x + u) + (y + v) + (z + w) = (x + y + z) + (u + v + w)
  OBVIOUS
<1>7. Due(r) = (Total(b["backend"]) + Total(b["db"]) + Total(b["cash"])) + (Total(For(says, "backend")) + Total(For(says, "db")) + Total(For(says, "cash")))
  BY <1>5, <1>6 DEF Due
<1> QED
  BY <1>3, <1>7 DEF Due, r

LEMMA PoppedRight ==
  ASSUME NEW b, Sound(b), NEW a \in Apps, b[a] # <<>>
  PROVE  LET c == [b EXCEPT ![a] = Tail(@)]
         IN  /\ Sound(c) /\ Due(c) = Due(b) - Worth(Head(b[a]))
             /\ MessageRight(Head(b[a])) /\ Reader(Head(b[a])[1]) = a
<1> DEFINE c == [b EXCEPT ![a] = Tail(@)]
           x == Head(b[a])
<1>1. /\ Queues(c) /\ c[a] = Tail(b[a]) /\ (\A d \in Apps : d # a => c[d] = b[d])
      /\ x \in ToSet(b[a]) /\ (\A y \in ToSet(c[a]) : y \in ToSet(b[a]))
  BY Popped DEF Sound
<1> HIDE DEF c
<1>2. MessageRight(x) /\ Reader(x[1]) = a
  BY <1>1 DEF Sound
<1>3. Sound(c)
  <2>1. ASSUME NEW d \in Apps, NEW y \in ToSet(c[d]) PROVE y \in ToSet(b[d])
    BY <1>1, <2>1
  <2> QED
    BY <1>1, <2>1 DEF Sound
<1>4. Worth(x) \in Int /\ Total(b[a]) = Worth(x) + Total(c[a])
  BY <1>1, SoundCountable, TotalTail
<1>5. /\ Total(b["backend"]) \in Int /\ Total(b["db"]) \in Int /\ Total(b["cash"]) \in Int
      /\ Total(c["backend"]) \in Int /\ Total(c["db"]) \in Int /\ Total(c["cash"]) \in Int
  BY <1>3, DueInt
<1>6. "backend" \in Apps /\ "db" \in Apps /\ "cash" \in Apps
  BY DEF Apps
<1> HIDE DEF x
<1>7. CASE a = "backend"
  <2>1. c["db"] = b["db"] /\ c["cash"] = b["cash"]
    BY <1>1, <1>6, <1>7
  <2> QED
    BY <1>2, <1>3, <1>4, <1>5, <1>7, <2>1 DEF Due, c, x
<1>8. CASE a = "db"
  <2>1. c["backend"] = b["backend"] /\ c["cash"] = b["cash"]
    BY <1>1, <1>6, <1>8
  <2> QED
    BY <1>2, <1>3, <1>4, <1>5, <1>8, <2>1 DEF Due, c, x
<1>9. CASE a = "cash"
  <2>1. c["backend"] = b["backend"] /\ c["db"] = b["db"]
    BY <1>1, <1>6, <1>9
  <2> QED
    BY <1>2, <1>3, <1>4, <1>5, <1>9, <2>1 DEF Due, c, x
<1>10. CASE a \notin Tills
  <2>1. c["backend"] = b["backend"] /\ c["db"] = b["db"] /\ c["cash"] = b["cash"]
    BY <1>1, <1>6, <1>10 DEF Tills
  <2>2. Worth(x) = 0
    BY <1>2, <1>10, WorthElsewhere
  <2>3. Due(c) = Due(b) /\ Due(b) \in Int
    BY <1>5, <2>1 DEF Due
  <2> QED
    BY <1>2, <1>3, <2>2, <2>3 DEF c, x
<1> QED
  BY <1>7, <1>8, <1>9, <1>10 DEF Tills

(* What is due changes by w, as long as the process lives.                   *)
Shifts(w) == Sound(bus') /\ w \in Int /\ (alive => Due(bus') = Due(bus) + w)
LEMMA SaysShifts ==
  ASSUME Sound(bus), alive \in BOOLEAN, NEW says, NEW w, Tells(says, w), Says(says)
  PROVE  Shifts(w)
<1>1. bus' = Sent(bus, says, alive)
  BY DEF Says
<1>2. Sound(bus')
  BY <1>1, SentRight DEF Tells
<1>3. Due(Sent(bus, says, TRUE)) = Due(bus) + w
  BY SentDue DEF Tells
<1> QED
  BY <1>1, <1>2, <1>3 DEF Shifts, Tells
LEMMA ReadShifts ==
  ASSUME Sound(bus), alive \in BOOLEAN, NEW a \in Apps, bus[a] # <<>>, NEW says, NEW w, Tells(says, w), Read(a, says)
  PROVE  /\ Shifts(w - Worth(Head(bus[a]))) /\ MessageRight(Head(bus[a])) /\ Reader(Head(bus[a])[1]) = a
         /\ Worth(Head(bus[a])) \in Int
<1> DEFINE c == [bus EXCEPT ![a] = Tail(@)]
<1>1. bus' = Sent(c, says, alive)
  BY DEF Read
<1>2. Sound(c) /\ Due(c) = Due(bus) - Worth(Head(bus[a])) /\ MessageRight(Head(bus[a])) /\ Reader(Head(bus[a])[1]) = a
  BY PoppedRight
<1> HIDE DEF c
<1>3. Sound(bus')
  BY <1>1, <1>2, SentRight DEF Tells
<1>4. Due(Sent(c, says, TRUE)) = Due(c) + w
  BY <1>2, SentDue DEF Tells
<1>5. Worth(Head(bus[a])) \in Int /\ Due(bus) \in Int /\ w \in Int
  BY <1>2, DueInt DEF MessageRight, Tells
<1>6. ASSUME alive PROVE Due(bus') = Due(bus) + (w - Worth(Head(bus[a])))
  <2>1. Due(bus') = Due(c) + w
    BY <1>1, <1>4, <1>6
  <2> QED
    BY <1>2, <1>5, <2>1
<1> QED
  BY <1>2, <1>3, <1>5, <1>6 DEF Shifts

(* What is due, with what is still to be said for who has gone.              *)
Owing == Due(bus) + Total(farewell)
Moves(w) == Sound(bus') /\ Proper(farewell') /\ w \in Int /\ (alive => Owing' = Owing + w)
LEMMA OwingInt == ASSUME Sound(bus), Proper(farewell) PROVE Due(bus) \in Int /\ Total(farewell) \in Int /\ Owing \in Int
<1>1. Due(bus) \in Int /\ Total(farewell) \in Int
  BY DueInt, ProperCountable, TotalInt
<1> QED
  BY <1>1 DEF Owing
LEMMA ShiftMoves ==
  ASSUME Sound(bus), Proper(farewell), Proper(farewell'), NEW w, Shifts(w), NEW v \in Int, Total(farewell') = Total(farewell) + v
  PROVE  Moves(w + v)
<1>1. Due(bus) \in Int /\ Total(farewell) \in Int /\ w \in Int
  BY OwingInt DEF Shifts
<1>2. Owing' = Due(bus') + Total(farewell')
  BY DEF Owing
<1>3. ASSUME alive PROVE Owing' = Owing + (w + v)
  <2>1. Due(bus') = Due(bus) + w
    BY <1>3 DEF Shifts
  <2>2. Owing = Due(bus) + Total(farewell)
    BY DEF Owing
  <2> QED
    BY <1>1, <1>2, <2>1, <2>2
<1> QED
  BY <1>1, <1>3 DEF Moves, Shifts
LEMMA ShiftStays ==
  ASSUME Sound(bus), Proper(farewell), farewell' = farewell, NEW w, Shifts(w)
  PROVE  Moves(w)
<1>1. Total(farewell) \in Int /\ w \in Int
  BY OwingInt DEF Shifts
<1>2. Total(farewell') = Total(farewell) + 0 /\ Proper(farewell') /\ 0 \in Int /\ w + 0 = w
  BY <1>1
<1>3. Moves(w + 0)
  BY <1>2, ShiftMoves
<1> QED
  BY <1>2, <1>3
LEMMA SaysMoves ==
  ASSUME Sound(bus), Proper(farewell), farewell' = farewell, alive \in BOOLEAN, NEW says, NEW w, Tells(says, w), Says(says)
  PROVE  Moves(w)
  BY SaysShifts, ShiftStays
LEMMA ReadMoves ==
  ASSUME Sound(bus), Proper(farewell), farewell' = farewell, alive \in BOOLEAN, NEW a \in Apps, bus[a] # <<>>,
         NEW says, NEW w, Tells(says, w), Read(a, says)
  PROVE  /\ Moves(w - Worth(Head(bus[a]))) /\ MessageRight(Head(bus[a])) /\ Reader(Head(bus[a])[1]) = a
         /\ Worth(Head(bus[a])) \in Int
<1>1. /\ Shifts(w - Worth(Head(bus[a]))) /\ MessageRight(Head(bus[a])) /\ Reader(Head(bus[a])[1]) = a
      /\ Worth(Head(bus[a])) \in Int
  BY ReadShifts
<1> QED
  BY <1>1, ShiftStays
LEMMA DiesSound ==
  ASSUME Sound(bus), NEW says, NEW w, Tells(says, w), Dies(says) PROVE Sound(bus')
<1> DEFINE c == [bus EXCEPT !["backend"] = <<>>]
<1>1. bus' = Sent(c, says, FALSE) /\ "backend" \in Apps
  BY DEF Dies, Apps
<1>2. DOMAIN c = Apps /\ c["backend"] = <<>> /\ \A d \in Apps : d # "backend" => c[d] = bus[d]
  BY <1>1 DEF Queues, Sound
<1> HIDE DEF c
<1>3. Sound(c)
  BY <1>2, NoneOf DEF Sound, Queues
<1> QED
  BY <1>1, <1>3, SentRight DEF Tells

-----------------------------------------------------------------------------
(* The money that came in and has not gone out.                              *)
Outside(p) == p.inserted + p.owed - p.returned - p.credited - p.bought
Counted(p) == p.inserted \in Int /\ p.owed \in Int /\ p.returned \in Int /\ p.credited \in Int /\ p.bought \in Int
AnonHas(u) == IF IsAnon(u) THEN u.balance ELSE 0
PurseRight(u) == IsAnon(u) => u.balance \in Int /\ u.item \in DOMAIN Price \cup {NoCode}
Covers(u) == IsAnon(u) => u.balance \in Nickels /\ (u.item # NoCode => u.balance >= PriceFor(u, u.item))
Planned(p) == {"bills", "died"} \subseteq DOMAIN p /\ p.bills \in Seq(Nickels) /\ p.died \in BOOLEAN
PanelRight(g) == {"state", "user"} \subseteq DOMAIN g /\ (g.state = "password" => g.user # Anonymous)
Even == Outside(past) = escrow + AnonHas(user) + Owing
CashInv ==
  /\ Sound(bus) /\ Proper(farewell) /\ escrow \in Nickels /\ Planned(plan) /\ Counted(past) /\ PurseRight(user) /\ PanelRight(gui)
  /\ ~plan.died => alive /\ Even
  /\ ~past.both => past.owed = 0 /\ Covers(user)

LEMMA Kept ==
  ASSUME CashInv
  PROVE  CashKept
<1>1. ASSUME Quiet PROVE Owing = 0
  <2>1. bus["backend"] = <<>> /\ bus["db"] = <<>> /\ bus["cash"] = <<>> /\ farewell = <<>>
    BY <1>1 DEF Quiet, Apps
  <2>2. Total(<<>>) = 0
    BY TotalNone
  <2> QED
    BY <2>1, <2>2 DEF Owing, Due
<1>2. AnonHas(user) \in Int /\ escrow \in Int
  BY NickelsInt DEF CashInv, PurseRight, AnonHas
<1>3. AnonHas(user) = IF user # NoUser /\ IsAnon(user) THEN user.balance ELSE 0
  <2>1. ~IsAnon(NoUser)
    BY DEF IsAnon, NoUser, Anonymous
  <2> QED
    BY <2>1 DEF AnonHas
<1>4. ASSUME Quiet, ~plan.died
      PROVE past.inserted + past.owed = escrow + past.returned + past.credited + past.bought + AnonHas(user)
  <2>1. Outside(past) = escrow + AnonHas(user) + 0
    BY <1>1, <1>4 DEF CashInv, Even
  <2>2. Counted(past)
    BY DEF CashInv
  <2> HIDE DEF AnonHas
  <2> QED
    BY <1>2, <2>1, <2>2 DEF Outside, Counted
<1>5. past.owed > 0 => past.both
  BY DEF CashInv
<1> HIDE DEF AnonHas
<1> QED
  BY <1>3, <1>4, <1>5 DEF CashKept

(* A step that is in balance.                                                *)
Square(w) ==
  /\ escrow' \in Nickels /\ Planned(plan') /\ Counted(past') /\ PurseRight(user') /\ PanelRight(gui')
  /\ plan'.died = plan.died /\ alive' = alive
  /\ Outside(past') - escrow' - AnonHas(user') = Outside(past) - escrow - AnonHas(user) + w
  /\ ~past'.both => ~past.both /\ past'.owed = 0 /\ Covers(user')
LEMMA PurseInt == ASSUME NEW u, PurseRight(u) PROVE AnonHas(u) \in Int
  BY DEF PurseRight, AnonHas
LEMMA OutsideInt == ASSUME NEW p, Counted(p) PROVE Outside(p) \in Int
  BY DEF Counted, Outside
LEMMA SquareKeeps == ASSUME CashInv, NEW w, Moves(w), Square(w) PROVE CashInv'
<1>1. ASSUME ~plan'.died PROVE alive' /\ Outside(past') = escrow' + AnonHas(user') + Owing'
  <2>1. ~plan.died /\ alive' = alive
    BY <1>1 DEF Square
  <2>2. alive /\ Outside(past) = escrow + AnonHas(user) + Owing
    BY <2>1 DEF CashInv, Even
  <2>3. Owing' = Owing + w /\ w \in Int
    BY <2>2 DEF Moves
  <2>4. Outside(past') - escrow' - AnonHas(user') = Outside(past) - escrow - AnonHas(user) + w
    BY DEF Square
  <2>5. /\ Outside(past') \in Int /\ escrow' \in Int /\ AnonHas(user') \in Int /\ Owing \in Int
        /\ Outside(past) \in Int /\ escrow \in Int /\ AnonHas(user) \in Int
    BY PurseInt, OutsideInt, NickelsInt, OwingInt DEF Square, CashInv
  <2> HIDE DEF Outside, AnonHas, Owing
  <2> QED
    BY <2>1, <2>2, <2>3, <2>4, <2>5
<1> QED
  BY <1>1 DEF CashInv, Square, Moves, Even

(* What a handler of the engine has to see to.                               *)
Fits == Counted(past') /\ PurseRight(user') /\ (~past'.both => ~past.both /\ past'.owed = 0 /\ Covers(user'))
Clears(v) == Fits /\ Outside(past') - AnonHas(user') = Outside(past) - AnonHas(user) + v
Replies(says) == UNCHANGED farewell /\ ((Read("backend", says) /\ alive' = alive /\ plan' = plan) \/ Dies(says))
LEMMA MovesKeep ==
  ASSUME CashInv, NEW w, Moves(w), Clears(w), UNCHANGED <<gui, escrow, plan, alive>>
  PROVE  CashInv'
<1>1. /\ Outside(past') - AnonHas(user') = Outside(past) - AnonHas(user) + w
      /\ Outside(past') \in Int /\ AnonHas(user') \in Int /\ Outside(past) \in Int /\ AnonHas(user) \in Int
      /\ escrow \in Int /\ escrow' = escrow /\ w \in Int
  BY PurseInt, OutsideInt, NickelsInt DEF Clears, Fits, CashInv, Moves
<1>2. Outside(past') - escrow' - AnonHas(user') = Outside(past) - escrow - AnonHas(user) + w
  <2> HIDE DEF Outside, AnonHas
  <2> QED
    BY <1>1
<1>3. Square(w)
  BY <1>2 DEF Square, Clears, Fits, CashInv
<1> QED
  BY <1>3, SquareKeeps
LEMMA DiesKeeps ==
  ASSUME CashInv, UNCHANGED <<gui, escrow>>, Proper(farewell'), NEW says, NEW w, Tells(says, w), Dies(says), Fits
  PROVE  CashInv'
<1>1. Sound(bus')
  BY DiesSound DEF CashInv
<1>2. Planned(plan') /\ plan'.died = TRUE
  <2>1. Planned(plan) /\ plan' = [plan EXCEPT !.deaths = @ - 1, !.died = TRUE]
    BY DEF CashInv, Dies
  <2> QED
    BY <2>1 DEF Planned
<1> QED
  BY <1>1, <1>2 DEF CashInv, Fits
LEMMA RepliesKeep ==
  ASSUME CansInv, CashInv, NEW kind, Takes(kind), UNCHANGED <<gui, escrow>>,
         NEW says, NEW w, Tells(says, w), Replies(says), Clears(w - Worth(Message))
  PROVE  CashInv'
<1>1. /\ Sound(bus) /\ alive \in BOOLEAN /\ "backend" \in Apps /\ bus["backend"] # <<>>
      /\ Proper(farewell) /\ farewell' = farewell /\ Proper(farewell')
  BY DEF CashInv, CansInv, Shapes, Apps, Takes, Next1, Replies
<1>2. CASE Read("backend", says) /\ alive' = alive /\ plan' = plan
  <2>1. Moves(w - Worth(Message))
    BY <1>1, <1>2, ReadMoves DEF Message
  <2> QED
    BY <1>2, <2>1, MovesKeep
<1>3. CASE Dies(says)
  BY <1>1, <1>3, DiesKeeps DEF Clears
<1> QED
  BY <1>2, <1>3 DEF Replies

(* The session's money, and the history's, are as they were.                 *)
SameMoney(p) ==
  /\ p.inserted = past.inserted /\ p.returned = past.returned /\ p.credited = past.credited
  /\ p.bought = past.bought /\ p.owed = past.owed /\ p.both = past.both
SamePurse(u) == u.login = user.login /\ u.balance = user.balance /\ u.item = user.item
LEMMA SameClears == ASSUME CashInv, SameMoney(past'), SamePurse(user') PROVE Clears(0)
<1>1. Counted(past') /\ Outside(past') = Outside(past)
  BY DEF CashInv, Counted, Outside, SameMoney
<1>2. PurseRight(user') /\ AnonHas(user') = AnonHas(user) /\ (Covers(user) => Covers(user'))
  BY DEF CashInv, SamePurse, PurseRight, AnonHas, Covers, IsAnon, PriceFor
<1>3. Outside(past) \in Int /\ AnonHas(user) \in Int
  BY PurseInt, OutsideInt DEF CashInv
<1> QED
  BY <1>1, <1>2, <1>3 DEF Clears, Fits, CashInv, SameMoney
LEMMA StaysWith ==
  ASSUME CansInv, CashInv, NEW kind, kind \notin Priced \/ kind \in Free, Takes(kind), UNCHANGED <<gui, escrow, plan>>,
         NEW u, NEW says, Tells(says, 0), Stays(u, says), SamePurse(u), SameMoney(past')
  PROVE  CashInv'
<1>1. Worth(Message) = 0
  BY FreeWorth DEF Takes, Next1, Message
<1>2. Clears(0)
  BY SameClears DEF Stays
<1>3. Clears(0 - Worth(Message))
  BY <1>1, <1>2
<1>4. Replies(says)
  BY DEF Replies, Stays
<1> QED
  BY <1>3, <1>4, RepliesKeep

-----------------------------------------------------------------------------
(* What sessions say is worth what they have, pay or get.                    *)
LEMMA TellsAlso ==
  ASSUME NEW s, NEW t, NEW w, Tells(s, w), Tells(t, 0) PROVE Tells(s \o t, w) /\ Tells(t \o s, w)
<1>1. Tells(s \o t, w + 0) /\ Tells(t \o s, 0 + w)
  BY TellsCat
<1>2. w + 0 = w /\ 0 + w = w
  BY DEF Tells
<1> QED
  BY <1>1, <1>2
LEMMA TellsLoggedIn == ASSUME NEW u PROVE Tells(LoggedIn(u), 0)
<1>1. Tells(<<<<"UI-LOGGEDIN", u.login, u.balance>>>>, 0) /\ Tells(<<<<"BOBDB-QUERYUSERPREF", u.login>>>>, 0)
  BY TellsPlain DEF Priced
<1> QED
  BY <1>1, TellsNone, TellsAlso DEF LoggedIn
LEMMA TellsLoggedOut == ASSUME NEW u, PurseRight(u) PROVE Tells(LoggedOut(u), AnonHas(u) + Owes(u))
<1>1. Tells(<<<<"CASH-REJECT">>>>, 0) /\ Tells(<<<<"UI-LOGGEDOUT">>>>, 0)
  BY TellsPlain DEF Priced
<1>2. CASE IsAnon(u) /\ u.balance > 0
  <2> DEFINE m == <<"CASH-CHANGE", u.balance>>
  <2>1. u.balance \in Int
    BY <1>2 DEF PurseRight
  <2>2. Worth(m) = u.balance
    BY DEF Worth
  <2>3. MessageRight(m)
    BY <2>1, <2>2 DEF MessageRight
  <2>4. Tells(<<m>>, u.balance)
    BY <2>2, <2>3, TellsOne
  <2>5. <<<<"CASH-REJECT">>, m>> = <<<<"CASH-REJECT">>>> \o <<m>>
    BY Concats
  <2> HIDE DEF m
  <2>6. Tells(<<<<"CASH-REJECT">>, m>> \o <<<<"UI-LOGGEDOUT">>>>, u.balance)
    BY <1>1, <2>4, <2>5, TellsAlso
  <2>7. AnonHas(u) + Owes(u) = u.balance
    BY <1>2, <2>1 DEF AnonHas, Owes
  <2> QED
    BY <1>2, <2>6, <2>7 DEF LoggedOut, m
<1>3. CASE ~(IsAnon(u) /\ u.balance > 0)
  <2>1. Tells(<<>> \o <<<<"UI-LOGGEDOUT">>>>, 0)
    BY <1>1, TellsNone, TellsAlso
  <2>2. AnonHas(u) + Owes(u) = 0
    BY <1>3 DEF AnonHas, Owes, PurseRight
  <2> QED
    BY <1>3, <2>1, <2>2 DEF LoggedOut
<1> QED
  BY <1>2, <1>3
Costs(u, code) == IF IsAnon(u) THEN PriceFor(u, code) ELSE 0
LEMMA PriceInt ==
  ASSUME NEW u, NEW code, IsAnon(u) => code \in DOMAIN Price
  PROVE  Costs(u, code) \in Int /\ (IsAnon(u) => PriceFor(u, code) \in Int)
<1>1. IsAnon(u) => Price[code] \in Int
  BY PricesAssumption
<1> QED
  BY <1>1 DEF PriceFor, Costs
LEMMA Triad == ASSUME NEW m, NEW n, NEW o PROVE <<m, n, o>> = <<m>> \o (<<n>> \o <<o>>)
<1>1. <<m, n, o>> = <<m>> \o <<n, o>>
  BY Concats
<1>2. <<n, o>> = <<n>> \o <<o>>
  BY Pair
<1> QED
  BY <1>1, <1>2, Zenon
LEMMA TellsPurchase ==
  ASSUME NEW u, NEW code, IsAnon(u) => code \in DOMAIN Price PROVE Tells(PurchaseSays(u, code), Costs(u, code))
<1> DEFINE price == PriceFor(u, code)
           d == <<"BOBDB-DEPOSIT", u.login, price>>
           p == <<"BOBDB-PURCHASE", u.login, price>>
           a == <<"UI-BALANCE", u.balance - price>>
           b == <<"UI-BOUGHT", u.balance - price>>
<1> HIDE DEF price
<1>1. Tells(<<a>>, 0) /\ Tells(<<b>>, 0)
  BY TellsPlain DEF Priced
<1>2. IsAnon(u) => Tells(<<d>>, 0)
  <2>1. IsAnon(u) => Worth(d) = 0
    BY DEF Worth, IsAnon
  <2>2. IsAnon(u) => MessageRight(d)
    BY <2>1 DEF MessageRight
  <2> QED
    BY <2>1, <2>2, TellsOne
<1>3. Tells(<<p>>, Costs(u, code))
  <2>1. Worth(p) = Costs(u, code)
    BY DEF Worth, IsAnon, Costs, price
  <2>2. MessageRight(p)
    BY <2>1, PriceInt DEF MessageRight
  <2> QED
    BY <2>1, <2>2, TellsOne
<1>4. PurchaseSays(u, code) = (IF IsAnon(u) THEN <<d>> ELSE <<>>) \o <<p, a, b>>
  BY Zenon DEF PurchaseSays, price
<1> HIDE DEF d, p, a, b
<1>5. <<p, a, b>> = <<p>> \o (<<a>> \o <<b>>)
  BY Triad
<1>6. Tells(<<a>> \o <<b>>, 0)
  BY <1>1, TellsAlso
<1>7. Tells(<<p, a, b>>, Costs(u, code))
  BY <1>3, <1>5, <1>6, TellsAlso
<1>8. Tells(IF IsAnon(u) THEN <<d>> ELSE <<>>, 0)
  <2>1. CASE IsAnon(u)
    BY <1>2, <2>1
  <2>2. CASE ~IsAnon(u)
    BY <2>2, TellsNone
  <2> QED
    BY <2>1, <2>2
<1> QED
  BY <1>4, <1>7, <1>8, TellsAlso
Earns(u, amount) == IF IsAnon(u) THEN 0 ELSE amount
LEMMA TellsDeposit == ASSUME NEW u, NEW amount \in Int PROVE Tells(DepositSays(u, amount), Earns(u, amount))
<1> DEFINE d == <<"BOBDB-DEPOSIT", u.login, amount>>
           b == <<"UI-BALANCE", u.balance + amount>>
<1>1. Tells(<<b>>, 0)
  BY TellsPlain DEF Priced
<1>2. Tells(<<d>>, Earns(u, amount))
  <2>1. Worth(d) = Earns(u, amount)
    BY DEF Worth, IsAnon, Earns
  <2>2. MessageRight(d)
    BY <2>1 DEF MessageRight, Earns
  <2> QED
    BY <2>1, <2>2, TellsOne
<1>3. DepositSays(u, amount) = (IF IsAnon(u) THEN <<>> ELSE <<d>>) \o <<b>>
  BY Zenon DEF DepositSays
<1> HIDE DEF b, d
<1>4. Tells(IF IsAnon(u) THEN <<>> ELSE <<d>>, Earns(u, amount))
  BY <1>2, TellsNone DEF Earns
<1> QED
  BY <1>1, <1>3, <1>4, TellsAlso

-----------------------------------------------------------------------------
(* The session that is over leaves nothing behind.                           *)
LEMMA NobodyHas == PurseRight(NoUser) /\ AnonHas(NoUser) = 0 /\ Owes(NoUser) = 0 /\ Covers(NoUser)
  BY DEF PurseRight, AnonHas, Owes, Covers, IsAnon, NoUser, Anonymous
LEMMA OwesInt == ASSUME NEW u, PurseRight(u) PROVE Owes(u) \in Int /\ (Covers(u) => Owes(u) = 0)
  BY NickelsInt DEF PurseRight, Owes, Covers
(* past', and what it owes more.                                             *)
MoreOwed(p, d) ==
  /\ p.inserted = past.inserted /\ p.returned = past.returned /\ p.credited = past.credited
  /\ p.bought = past.bought /\ p.owed = past.owed + d /\ (~p.both => ~past.both)
LEMMA MoreClears ==
  ASSUME CashInv, NEW d \in Int, MoreOwed(past', d), PurseRight(user'), ~past'.both => d = 0 /\ Covers(user'),
         NEW v \in Int, AnonHas(user') = AnonHas(user) + d - v
  PROVE  Clears(v)
<1>1. Counted(past') /\ Outside(past') = Outside(past) + d /\ Outside(past) \in Int
  BY OutsideInt DEF CashInv, MoreOwed, Counted, Outside
<1>2. AnonHas(user) \in Int
  BY PurseInt DEF CashInv
<1>3. Outside(past') - AnonHas(user') = Outside(past) - AnonHas(user) + v
  BY <1>1, <1>2
<1>4. ~past'.both => past'.owed = 0
  BY DEF CashInv, MoreOwed, Counted
<1> QED
  BY <1>1, <1>3, <1>4 DEF Clears, Fits, MoreOwed

LEMMA DepartsMoves ==
  ASSUME CansInv, CashInv, NEW kind, Takes(kind), NEW u, PurseRight(u), NEW says, NEW w, Tells(says, w), Departs(u, says)
  PROVE  Moves((w + (AnonHas(u) + Owes(u))) - Worth(Message))
<1> DEFINE v == AnonHas(u) + Owes(u)
           heard == says \o LoggedOut(u)
           m == Worth(Message)
<1>1. /\ Sound(bus) /\ Proper(farewell) /\ alive \in BOOLEAN /\ "backend" \in Apps /\ bus["backend"] # <<>>
  BY DEF CashInv, CansInv, Shapes, Apps, Takes, Next1
<1>2. Tells(LoggedOut(u), v) /\ Tells(heard, w + v)
  BY TellsLoggedOut, TellsCat
<1>3. v \in Int /\ w \in Int
  BY <1>2 DEF Tells
<1> HIDE DEF v
<1>4. CASE Read("backend", heard) /\ UNCHANGED farewell
  <2> HIDE DEF heard
  <2> QED
    BY <1>1, <1>2, <1>4, ReadMoves DEF Message, v
<1>5. CASE farewell = <<>> /\ Read("backend", says) /\ farewell' = LoggedOut(u)
  <2>1. Shifts(w - m) /\ m \in Int
    BY <1>1, <1>5, ReadShifts DEF Message
  <2>2. Proper(farewell') /\ Total(farewell') = v /\ Total(farewell) = 0
    BY <1>2, <1>5, TotalNone DEF Tells
  <2>3. Total(farewell') = Total(farewell) + v
    BY <1>3, <2>2
  <2>4. Moves((w - m) + v)
    BY <1>1, <1>3, <2>1, <2>2, <2>3, ShiftMoves
  <2>5. (w - m) + v = (w + v) - m
    BY <1>3, <2>1
  <2> HIDE DEF m
  <2> QED
    BY <2>4, <2>5 DEF m, v
<1> QED
  BY <1>4, <1>5 DEF Departs, heard
LEMMA LeavesClear ==
  ASSUME CansInv, CashInv, NEW kind, Takes(kind), UNCHANGED <<gui, escrow>>,
         NEW u, PurseRight(u), NEW says, NEW w, Tells(says, w), Leaves(u, says),
         MoreOwed(past', Owes(u)), ~past'.both => Covers(u),
         AnonHas(u) + w = AnonHas(user) + Worth(Message), Worth(Message) \in Int
  PROVE  CashInv'
<1> DEFINE t == w + (AnonHas(u) + Owes(u))
<1>1. Tells(says \o LoggedOut(u), t)
  BY TellsLoggedOut, TellsCat
<1>2. alive = TRUE
  BY DEF Takes, CansInv, Shapes
<1>3. /\ AnonHas(u) \in Int /\ Owes(u) \in Int /\ w \in Int /\ AnonHas(user) \in Int
      /\ AnonHas(user') = 0 /\ PurseRight(user') /\ Covers(user')
  BY PurseInt, OwesInt, NobodyHas DEF Leaves, Tells, CashInv
<1> HIDE DEF AnonHas
<1>4. AnonHas(user') = AnonHas(user) + Owes(u) - (t - Worth(Message)) /\ t - Worth(Message) \in Int
  BY <1>3
<1>5. ~past'.both => Owes(u) = 0 /\ Covers(user')
  BY <1>3, OwesInt
<1> HIDE DEF t
<1>6. Clears(t - Worth(Message))
  BY <1>3, <1>4, <1>5, MoreClears
<1>7. CASE Departs(u, says) /\ alive' = TRUE /\ plan' = plan
  <2>1. Moves(t - Worth(Message))
    BY <1>7, DepartsMoves DEF t
  <2> QED
    BY <1>2, <1>6, <1>7, <2>1, MovesKeep
<1>8. CASE Dies(says \o LoggedOut(u)) /\ UNCHANGED farewell
  <2>1. Replies(says \o LoggedOut(u))
    BY <1>8 DEF Replies
  <2> QED
    BY <1>1, <1>6, <2>1, RepliesKeep
<1> QED
  BY <1>7, <1>8 DEF Leaves
LEMMA FreeMessage ==
  ASSUME NEW kind, kind \notin Priced \/ kind \in Free, Takes(kind) PROVE Worth(Message) = 0 /\ Worth(Message) \in Int
<1>1. Worth(Message) = 0
  BY FreeWorth DEF Takes, Next1, Message
<1> QED
  BY <1>1

-----------------------------------------------------------------------------
(* A session that goes on, with what it pays or gets.                        *)
LEMMA StaysPaying ==
  ASSUME CansInv, CashInv, NEW kind, Takes(kind), UNCHANGED <<gui, escrow, plan>>,
         NEW u, PurseRight(u), NEW says, NEW w, Tells(says, w), Stays(u, says),
         NEW d \in Int, MoreOwed(past', d), ~past'.both => d = 0 /\ Covers(u),
         AnonHas(u) + w = AnonHas(user) + Worth(Message) + d, Worth(Message) \in Int
  PROVE  CashInv'
<1>1. Replies(says) /\ user' = u
  BY DEF Replies, Stays
<1>2. AnonHas(u) \in Int /\ AnonHas(user) \in Int /\ w \in Int
  BY PurseInt DEF CashInv, Tells
<1> HIDE DEF AnonHas
<1>3. AnonHas(user') = AnonHas(user) + d - (w - Worth(Message)) /\ w - Worth(Message) \in Int
  BY <1>1, <1>2
<1>4. Clears(w - Worth(Message))
  BY <1>1, <1>3, MoreClears
<1> QED
  BY <1>1, <1>4, RepliesKeep
LEMMA MessageIs ==
  ASSUME CashInv, NEW kind, Takes(kind)
  PROVE  MessageRight(Message) /\ Message[1] = kind /\ Worth(Message) \in Int
<1>1. Message[1] = kind /\ bus["backend"] # <<>> /\ "backend" \in Apps
  BY DEF Takes, Next1, Message, Apps
<1>2. MessageRight(Message)
  BY <1>1, PoppedRight DEF CashInv, Message
<1> QED
  BY <1>1, <1>2 DEF MessageRight

(* What a handler does to the history and leaves of the money in it.         *)
LEMMA MoneySame ==
  ASSUME CansInv, NEW b, NEW c, NEW n,
         \/ past' = past \/ past' = [past EXCEPT !.mixed = b] \/ past' = Asked \/ past' = Began
         \/ past' = BeganBy(b) \/ past' = Settled(past, n, c) \/ past' = [past EXCEPT !.cans[n].sid = b]
  PROVE  SameMoney(past')
<1>1. DOMAIN past = PastFields
  BY DEF CansInv, Shapes
<1> QED
  BY <1>1 DEF SameMoney, PastFields, Asked, Began, BeganBy, Settled
LEMMA MoneySameMore ==
  ASSUME CashInv, SameMoney(past') PROVE MoreOwed(past', 0) /\ (~past'.both => ~past.both)
  BY DEF MoreOwed, SameMoney, CashInv, Counted
LEMMA MoneyOver ==
  ASSUME CansInv, NEW u, NEW b, NEW c, NEW d,
         past' = Over(u) \/ past' = [Over(u) EXCEPT !.cut = b] \/ past' = [Over(u) EXCEPT !.sessions = d, !.cut = b, !.mixed = {"replaced", "stale"}]
         \/ past' = Settled(Over(u), b, c)
  PROVE  MoreOwed(past', Owes(u)) /\ (~past'.both => ~past.both)
<1>1. DOMAIN past = PastFields
  BY DEF CansInv, Shapes
<1>2. /\ Over(u).inserted = past.inserted /\ Over(u).returned = past.returned /\ Over(u).credited = past.credited
      /\ Over(u).bought = past.bought /\ Over(u).owed = past.owed + Owes(u) /\ Over(u).both = past.both
      /\ DOMAIN Over(u) = PastFields
  BY <1>1 DEF Over, Closed, PastFields
<1> QED
  BY <1>2 DEF MoreOwed, PastFields, Settled

(* Logins and logouts.                                                       *)
LEMMA NewPurse ==
  ASSUME NEW login, NEW balance
  PROVE  LET u == NewUser(login, balance)
         IN  /\ login # Anonymous => PurseRight(u) /\ AnonHas(u) = 0 /\ Covers(u)
             /\ DOMAIN u = UserFields /\ u.login = login /\ u.balance = balance /\ u.item = NoCode
<1> DEFINE u == NewUser(login, balance)
<1>1. DOMAIN u = UserFields /\ u.login = login /\ u.balance = balance /\ u.item = NoCode
  BY DEF NewUser, UserFields
<1> QED
  BY <1>1 DEF PurseRight, AnonHas, Covers, IsAnon
LEMMA LoginCash == ASSUME CansInv, CashInv, HandleLogin, UNCHANGED <<gui, escrow>> PROVE CashInv'
<1>1. Takes("LOGIN") /\ "LOGIN" \in Free /\ plan' = plan
  BY DEF HandleLogin, Free, NoTags, Same
<1>2. CASE Stays(user, <<>>) /\ UNCHANGED past
  BY <1>1, <1>2, TellsNone, MoneySame, StaysWith DEF SamePurse
<1>3. CASE /\ user = NoUser /\ Len(Message) = 4 /\ Begins(NewUser(Message[2], Message[3]), <<>>)
           /\ past' = BeganBy(Message[4])
  <2> DEFINE u == NewUser(Message[2], Message[3])
  <2>1. Message[2] # Anonymous /\ Worth(Message) = 0
    BY <1>1, <1>3, MessageIs, FreeMessage DEF MessageRight
  <2>2. PurseRight(u) /\ AnonHas(u) = 0 /\ Covers(u)
    BY <2>1, NewPurse
  <2>3. Tells(LoggedIn(u) \o <<>>, 0) /\ Stays(u, LoggedIn(u) \o <<>>)
    BY <1>3, TellsLoggedIn, TellsNone, TellsAlso DEF Begins
  <2> HIDE DEF u
  <2>4. MoreOwed(past', 0)
    BY <1>3, MoneySame, MoneySameMore
  <2>5. AnonHas(u) + 0 = AnonHas(user) + Worth(Message) + 0
    BY <1>3, <2>1, <2>2, NobodyHas
  <2> QED
    BY <1>1, <2>1, <2>2, <2>3, <2>4, <2>5, StaysPaying
<1>4. CASE Stays(user, <<<<"BOBDB-QUERYUSER", Tag(""), Message[2]>>>>) /\ past' = Asked
  <2>1. Tells(<<<<"BOBDB-QUERYUSER", Tag(""), Message[2]>>>>, 0)
    BY TellsPlain DEF Priced
  <2> QED
    BY <1>1, <1>4, <2>1, MoneySame, StaysWith DEF SamePurse
<1> QED
  BY <1>2, <1>3, <1>4 DEF HandleLogin
LEMMA AsksCash ==
  ASSUME CansInv, CashInv, NEW taken, taken \notin Priced, Takes(taken), NEW kind, NEW who, Asks(kind, who), UNCHANGED <<gui, escrow>>
  PROVE  CashInv'
<1>1. Tells(<<<<"BOBDB-QUERYUSER", Tag(kind), who>>>>, 0)
  BY TellsPlain DEF Priced
<1> QED
  BY <1>1, MoneySame, StaysWith DEF SamePurse, Asks
LEMMA FpGoodReadCash == ASSUME CansInv, CashInv, HandleFpGoodRead, UNCHANGED <<gui, escrow>> PROVE CashInv'
<1>1. Takes("FP-GOODREAD") /\ "FP-GOODREAD" \notin Priced
  BY DEF HandleFpGoodRead, Priced
<1>2. CASE Asks("F", Message[2])
  BY <1>1, <1>2, AsksCash
<1>3. CASE Stays(user, <<>>) /\ UNCHANGED past /\ NoTags
  BY <1>1, <1>3, TellsNone, MoneySame, StaysWith DEF SamePurse, NoTags, Same
<1> QED
  BY <1>2, <1>3 DEF HandleFpGoodRead
LEMMA UserInfoCash == ASSUME CansInv, CashInv, HandleBobDBUserInfo, UNCHANGED <<gui, escrow>> PROVE CashInv'
<1>1. Takes("BOBDB-USERINFO") /\ "BOBDB-USERINFO" \in Free /\ plan' = plan
  BY DEF HandleBobDBUserInfo, Free, NoTags, Same
<1>2. Message[3] # Anonymous /\ Worth(Message) = 0
  BY <1>1, MessageIs, FreeMessage DEF MessageRight
<1>3. CASE Stays(user, <<>>) /\ UNCHANGED past
  BY <1>1, <1>3, TellsNone, MoneySame, StaysWith DEF SamePurse
<1> DEFINE u == NewUser(Message[3], Message[4])
<1>4. PurseRight(u) /\ AnonHas(u) = 0 /\ Covers(u) /\ Tells(LoggedIn(u), 0)
  BY <1>2, NewPurse, TellsLoggedIn
<1> HIDE DEF u
<1>5. CASE user = NoUser /\ Begins(u, <<>>) /\ past' = BeganBy(past.asked)
  <2>1. Tells(LoggedIn(u) \o <<>>, 0) /\ Stays(u, LoggedIn(u) \o <<>>)
    BY <1>4, <1>5, TellsNone, TellsAlso DEF Begins
  <2>2. MoreOwed(past', 0)
    BY <1>5, MoneySame, MoneySameMore
  <2>3. AnonHas(u) + 0 = AnonHas(user) + Worth(Message) + 0 /\ Worth(Message) \in Int
    BY <1>2, <1>4, <1>5, NobodyHas
  <2> QED
    BY <1>1, <1>4, <2>1, <2>2, <2>3, StaysPaying
<1>6. CASE /\ user # NoUser /\ user' = u /\ Departs(user, LoggedIn(u)) /\ UNCHANGED alive
           /\ past' = [Over(user) EXCEPT !.sessions = @ + 1, !.cut = @ \cup {user.sid}, !.mixed = {"replaced", "stale"}]
  <2> DEFINE w == AnonHas(user) + Owes(user)
  <2>1. PurseRight(user) /\ Owes(user) \in Int /\ AnonHas(user) \in Int /\ (~past.both => Owes(user) = 0)
    BY OwesInt, PurseInt DEF CashInv
  <2>2. Moves((0 + w) - Worth(Message))
    BY <1>1, <1>4, <1>6, <2>1, DepartsMoves
  <2>3. (0 + w) - Worth(Message) = w /\ w \in Int
    BY <1>2, <2>1
  <2>4. MoreOwed(past', Owes(user)) /\ (~past'.both => ~past.both)
    BY <1>6, MoneyOver
  <2>5. AnonHas(user') = AnonHas(user) + Owes(user) - w /\ PurseRight(user') /\ Covers(user')
    BY <1>4, <1>6, <2>1
  <2> HIDE DEF w
  <2>6. Clears(w)
    BY <2>1, <2>3, <2>4, <2>5, MoreClears
  <2> QED
    BY <1>1, <1>6, <2>2, <2>3, <2>6, MovesKeep
<1>7. CASE /\ Stays(user, <<<<"UI-PASSWORD", Message[3], Message[4], past.asked>>>>)
           /\ past' = IF user = NoUser THEN past ELSE [past EXCEPT !.mixed = @ \cup {"prompted"}]
  <2> DEFINE m == <<"UI-PASSWORD", Message[3], Message[4], past.asked>>
  <2>1. Worth(m) = 0
    BY DEF Worth
  <2>2. MessageRight(m)
    BY <1>2, <2>1 DEF MessageRight
  <2>3. Tells(<<m>>, 0)
    BY <2>1, <2>2, TellsOne
  <2> HIDE DEF m
  <2>4. Stays(user, <<m>>)
    BY <1>7 DEF m
  <2>5. SameMoney(past') /\ SamePurse(user)
    BY <1>7, MoneySame DEF SamePurse
  <2> QED
    BY <1>1, <2>3, <2>4, <2>5, StaysWith
<1> QED
  BY <1>3, <1>5, <1>6, <1>7 DEF HandleBobDBUserInfo, u

-----------------------------------------------------------------------------
(* The session is over: all there is to say of it is said.                   *)
LEMMA LeavesNow ==
  ASSUME CansInv, CashInv, NEW kind, kind \notin Priced \/ kind \in Free, Takes(kind), UNCHANGED <<gui, escrow>>,
         Leaves(user, <<>>), MoreOwed(past', Owes(user))
  PROVE  CashInv'
<1>1. PurseRight(user) /\ (~past'.both => Covers(user))
  BY DEF CashInv, MoreOwed
<1>2. Worth(Message) = 0 /\ Worth(Message) \in Int
  BY FreeMessage
<1>3. AnonHas(user) + 0 = AnonHas(user) + Worth(Message)
  BY <1>2
<1> QED
  BY <1>1, <1>2, <1>3, TellsNone, LeavesClear
(* The same purse under other flags.                                         *)
LEMMA FlagsPurse ==
  ASSUME CansInv, user # NoUser, NEW b, NEW c
  PROVE  /\ SamePurse([user EXCEPT !.should = b]) /\ SamePurse([user EXCEPT !.vend = b, !.tag = c])
         /\ SamePurse([user EXCEPT !.vend = b]) /\ SamePurse([user EXCEPT !.barcode = b])
         /\ SamePurse([user EXCEPT !.barcode = b, !.barcodetag = c]) /\ SamePurse([user EXCEPT !.escrow = b])
<1>1. DOMAIN user = UserFields
  BY UserIs
<1> QED
  BY <1>1 DEF SamePurse, UserFields

LEMMA LogoutCash == ASSUME CansInv, CashInv, HandleLogout, UNCHANGED <<gui, escrow>> PROVE CashInv'
<1>1. PICK kind \in {"LOGOUT", "CASH-RETURN"} : Takes(kind)
  BY DEF HandleLogout
<1>2. kind \notin Priced
  BY DEF Priced
<1>3. CASE Stays(user, <<>>) /\ UNCHANGED past /\ Same
  BY <1>1, <1>2, <1>3, TellsNone, MoneySame, StaysWith DEF SamePurse, Same
<1>4. CASE Leaves(user, <<>>) /\ past' = Over(user)
  BY <1>1, <1>2, <1>4, MoneyOver, LeavesNow
<1>5. CASE user # NoUser /\ Stays([user EXCEPT !.should = TRUE], <<>>) /\ UNCHANGED past /\ Same
  BY <1>1, <1>2, <1>5, TellsNone, MoneySame, FlagsPurse, StaysWith DEF Same
<1> QED
  BY <1>3, <1>4, <1>5 DEF HandleLogout
LEMMA UserPrefCash == ASSUME CansInv, CashInv, HandleBobDBUserPref, UNCHANGED <<gui, escrow>> PROVE CashInv'
<1> DEFINE u == IF user # NoUser /\ Message[2] THEN [user EXCEPT !.should = TRUE] ELSE user
<1>1. /\ Takes("BOBDB-USERPREF") /\ "BOBDB-USERPREF" \notin Priced /\ plan' = plan /\ UNCHANGED past
      /\ Stays(u, <<>>)
  BY DEF HandleBobDBUserPref, Priced, NoTags, Same
<1>2. SamePurse(u)
  BY FlagsPurse DEF SamePurse
<1> HIDE DEF u
<1> QED
  BY <1>1, <1>2, TellsNone, MoneySame, StaysWith

(* The session is cut short, and the process dies of it.                     *)
LEMMA CutTells ==
  ASSUME CashInv, Cut
  PROVE  /\ Proper(farewell') /\ Total(farewell') = Total(farewell) + (AnonHas(user) + Owes(user))
         /\ AnonHas(user) + Owes(user) \in Int
<1>1. Tells(farewell, Total(farewell))
  BY OwingInt DEF Tells, CashInv
<1>2. Tells(LoggedOut(user), AnonHas(user) + Owes(user))
  BY TellsLoggedOut DEF CashInv
<1>3. Tells(farewell \o LoggedOut(user), Total(farewell) + (AnonHas(user) + Owes(user)))
  BY <1>1, <1>2, TellsCat
<1> QED
  BY <1>2, <1>3 DEF Tells, Cut
LEMMA CutDiesCash == ASSUME CansInv, CashInv, Cut, Dies(<<>>), UNCHANGED <<gui, escrow>> PROVE CashInv'
<1>1. MoreOwed(past', Owes(user)) /\ user' = NoUser
  BY MoneyOver DEF Cut
<1>2. Owes(user) \in Int /\ (~past.both => Owes(user) = 0)
  BY OwesInt DEF CashInv
<1>3. Fits
  BY <1>1, <1>2, NobodyHas DEF Fits, CashInv, MoreOwed, Counted
<1> QED
  BY <1>3, CutTells, TellsNone, DiesKeeps
LEMMA VendRequestCash == ASSUME CansInv, CashInv, HandleVendRequest, UNCHANGED <<gui, escrow>> PROVE CashInv'
<1>1. Takes("VEND-REQUEST") /\ "VEND-REQUEST" \notin Priced
  BY DEF HandleVendRequest, Priced
<1>2. CASE Stays(user, <<<<"VEND-DENIED">>>>) /\ UNCHANGED past /\ NoTags
  <2>1. Tells(<<<<"VEND-DENIED">>>>, 0)
    BY TellsPlain DEF Priced
  <2> QED
    BY <1>1, <1>2, <2>1, MoneySame, StaysWith DEF SamePurse, NoTags, Same
<1>3. ASSUME user # NoUser, NEW code, Stays([user EXCEPT !.vend = TRUE, !.tag = Tag("")], <<<<"BOBDB-QUERYPRODUCT", Tag(""), code>>>>),
             past' = [past EXCEPT !.cans[Message[2]].sid = user.sid], NewTag
      PROVE CashInv'
  <2>1. Tells(<<<<"BOBDB-QUERYPRODUCT", Tag(""), code>>>>, 0)
    BY TellsPlain DEF Priced
  <2>2. SamePurse([user EXCEPT !.vend = TRUE, !.tag = Tag("")])
    BY <1>3, FlagsPurse
  <2>3. SameMoney(past')
    BY <1>3, MoneySame
  <2>4. plan' = plan
    BY <1>3 DEF NewTag, Same
  <2> QED
    BY <1>1, <1>3, <2>1, <2>2, <2>3, <2>4, StaysWith
<1>4. CASE Cut /\ Dies(<<>>)
  BY <1>4, CutDiesCash
<1> QED
  BY <1>2, <1>3, <1>4 DEF HandleVendRequest

-----------------------------------------------------------------------------
(* Money in nickels: what covers a price covers it rounded up.               *)
LEMMA Rounding ==
  /\ \A b \in Nickels, p \in Int : b >= p => b >= ((p + 4) \div 5) * 5 /\ b - ((p + 4) \div 5) * 5 \in Nickels
  /\ \A a, b \in Nickels : a + b \in Nickels
  /\ 0 \in Nickels
<1>1. ASSUME NEW b \in Nickels, NEW p \in Int, b >= p PROVE b >= ((p + 4) \div 5) * 5 /\ b - ((p + 4) \div 5) * 5 \in Nickels
  <2>1. PICK q \in Int : q = (p + 4) \div 5
    OBVIOUS
  <2>2. 5 * q <= p + 4 /\ p + 4 < 5 * q + 5
    BY <2>1
  <2>3. PICK k \in Int : b = 5 * k
    BY DEF Nickels
  <2>4. b \in Nat /\ k >= q
    BY <1>1, <2>2, <2>3 DEF Nickels
  <2>5. b - q * 5 = 5 * (k - q) /\ b - q * 5 \in Nat /\ b - q * 5 \in Int
    BY <2>3, <2>4
  <2>6. (b - q * 5) % 5 = 0
    BY <2>5
  <2> QED
    BY <2>1, <2>5, <2>6 DEF Nickels
<1>2. \A a, b \in Nickels : a + b \in Nickels
  BY DEF Nickels
<1> QED
  BY <1>1, <1>2 DEF Nickels
(* Who can pay and has nothing else under way can pay what is asked.         *)
LEMMA AffordsPays ==
  ASSUME NEW u, Covers(u), NEW code, IsAnon(u) => code \in DOMAIN Price, Affords(u, code)
  PROVE  IsAnon(u) => u.balance >= PriceFor(u, code) /\ u.balance - PriceFor(u, code) \in Nickels
<1>1. IsAnon(u) => Price[code] \in Int /\ u.balance \in Nickels /\ u.balance >= Price[code]
  BY PricesAssumption DEF Affords, Covers
<1> QED
  BY <1>1, Rounding DEF PriceFor

(* A session that stays with as much money.                                  *)
LEMMA StaysRich ==
  ASSUME CansInv, CashInv, NEW kind, kind \notin Priced \/ kind \in Free, Takes(kind), UNCHANGED <<gui, escrow, plan>>,
         NEW u, PurseRight(u), AnonHas(u) = AnonHas(user), Covers(user) => Covers(u),
         NEW says, Tells(says, 0), Stays(u, says), SameMoney(past')
  PROVE  CashInv'
<1>1. MoreOwed(past', 0) /\ (~past'.both => ~past.both) /\ (~past.both => Covers(user))
  BY MoneySameMore DEF CashInv
<1>2. Worth(Message) = 0 /\ Worth(Message) \in Int
  BY FreeMessage
<1>3. AnonHas(user) \in Int
  BY PurseInt DEF CashInv
<1> HIDE DEF AnonHas
<1>4. AnonHas(u) + 0 = AnonHas(user) + Worth(Message) + 0
  BY <1>2, <1>3
<1> QED
  BY <1>1, <1>2, <1>4, StaysPaying
LEMMA ItemPurse ==
  ASSUME CansInv, CashInv, user # NoUser, NEW code, NEW u, u = [user EXCEPT !.item = code],
         IsAnon(user) => code \in DOMAIN Price
  PROVE  AnonHas(u) = AnonHas(user) /\ PurseRight(u) /\ (Covers(user) /\ Affords(user, code) => Covers(u))
<1>1. DOMAIN user = UserFields
  BY UserIs
<1>2. u.login = user.login /\ u.balance = user.balance /\ u.item = code
  BY <1>1 DEF UserFields
<1>3. AnonHas(u) = AnonHas(user)
  BY <1>2 DEF AnonHas, IsAnon
<1>4. PurseRight(u)
  BY <1>2 DEF PurseRight, IsAnon, CashInv
<1>5. Covers(user) /\ Affords(user, code) => Covers(u)
  BY <1>2, AffordsPays DEF Covers, IsAnon, PriceFor
<1> QED
  BY <1>3, <1>4, <1>5
LEMMA NoItemPurse ==
  ASSUME CansInv, CashInv, user # NoUser, NEW b, NEW v, v = [user EXCEPT !.vend = b, !.item = NoCode]
  PROVE  AnonHas(v) = AnonHas(user) /\ PurseRight(v) /\ (Covers(user) => Covers(v))
<1>1. DOMAIN user = UserFields
  BY UserIs
<1>2. v.login = user.login /\ v.balance = user.balance /\ v.item = NoCode
  BY <1>1 DEF UserFields
<1>3. AnonHas(v) = AnonHas(user)
  BY <1>2 DEF AnonHas, IsAnon
<1>4. PurseRight(v)
  BY <1>2 DEF PurseRight, IsAnon, CashInv
<1>5. Covers(user) => Covers(v)
  BY <1>2 DEF Covers, IsAnon
<1> QED
  BY <1>3, <1>4, <1>5
LEMMA CanInfoCash ==
  ASSUME CansInv, CashInv, Takes("BOBDB-PRODUCTINFO"), user # NoUser, NEW code \in DOMAIN Price, ReadCanInfo(code), UNCHANGED <<gui, escrow>>
  PROVE  CashInv'
<1>1. "BOBDB-PRODUCTINFO" \in Free /\ plan' = plan /\ SameMoney(past')
  BY MoneySame DEF ReadCanInfo, NoTags, Same, Free
<1>2. CASE Affords(user, code) /\ Stays([user EXCEPT !.item = code], <<<<"VEND-APPROVED">>>>)
  <2> DEFINE u == [user EXCEPT !.item = code]
  <2>1. PurseRight(u) /\ AnonHas(u) = AnonHas(user) /\ (Covers(user) => Covers(u))
    BY <1>2, ItemPurse
  <2>2. Stays(u, <<<<"VEND-APPROVED">>>>) /\ Tells(<<<<"VEND-APPROVED">>>>, 0)
    BY <1>2, TellsPlain DEF Priced
  <2> HIDE DEF u
  <2> QED
    BY <1>1, <2>1, <2>2, StaysRich
<1>3. CASE Stays([user EXCEPT !.vend = FALSE, !.item = NoCode], <<<<"VEND-DENIED">>>>)
  <2> DEFINE u == [user EXCEPT !.vend = FALSE, !.item = NoCode]
  <2>1. PurseRight(u) /\ AnonHas(u) = AnonHas(user) /\ (Covers(user) => Covers(u))
    BY NoItemPurse
  <2>2. Stays(u, <<<<"VEND-DENIED">>>>) /\ Tells(<<<<"VEND-DENIED">>>>, 0)
    BY <1>3, TellsPlain DEF Priced
  <2> HIDE DEF u
  <2> QED
    BY <1>1, <2>1, <2>2, StaysRich
<1> QED
  BY <1>2, <1>3 DEF ReadCanInfo

-----------------------------------------------------------------------------
(* Who buys u.item or what was scanned is left with the rest.                *)
LEMMA Purchased ==
  ASSUME CashInv, NEW code, IsAnon(user) => code \in DOMAIN Price, NEW u,
         u.login = user.login, u.balance = user.balance - PriceFor(user, code), u.item \in {user.item, NoCode}
  PROVE  /\ PurseRight(u) /\ AnonHas(u) + Costs(user, code) = AnonHas(user)
         /\ Tells(PurchaseSays(user, code), Costs(user, code))
         /\ IsAnon(user) /\ Covers(user) /\ user.balance >= PriceFor(user, code) /\ u.item = NoCode => Covers(u)
<1>1. IsAnon(user) => PriceFor(user, code) \in Int /\ user.balance \in Int /\ user.item \in DOMAIN Price \cup {NoCode}
  BY PriceInt DEF CashInv, PurseRight
<1>2. Tells(PurchaseSays(user, code), Costs(user, code))
  BY TellsPurchase
<1>3. PurseRight(u) /\ AnonHas(u) + Costs(user, code) = AnonHas(user)
  BY <1>1 DEF PurseRight, AnonHas, Costs, IsAnon
<1>4. ASSUME IsAnon(user), Covers(user), user.balance >= PriceFor(user, code), u.item = NoCode PROVE Covers(u)
  <2>1. user.balance \in Nickels /\ Price[code] \in Int /\ PriceFor(user, code) = ((Price[code] + 4) \div 5) * 5
    BY <1>4, PricesAssumption DEF Covers, PriceFor
  <2>2. PICK p \in Int : p = (Price[code] + 4) \div 5
    BY <2>1
  <2>3. PICK k \in Int : user.balance = 5 * k /\ user.balance \in Int
    BY <2>1 DEF Nickels
  <2>4. user.balance - p * 5 \in Nat /\ user.balance - p * 5 = 5 * (k - p)
    BY <1>4, <2>1, <2>2, <2>3
  <2>5. (user.balance - p * 5) % 5 = 0
    BY <2>2, <2>3, <2>4
  <2>6. u.balance \in Nickels
    BY <2>1, <2>2, <2>4, <2>5 DEF Nickels
  <2> QED
    BY <1>4, <2>6 DEF Covers
<1> QED
  BY <1>2, <1>3, <1>4
LEMMA PayerIs ==
  ASSUME CansInv, user # NoUser, NEW code
  PROVE  LET v == Pays(user, code)
             w == [Bought(user, code) EXCEPT !.vend = FALSE, !.item = NoCode]
         IN  /\ v.login = user.login /\ v.balance = user.balance - PriceFor(user, code) /\ v.item = user.item
             /\ w.login = user.login /\ w.balance = user.balance - PriceFor(user, code) /\ w.item = NoCode
<1>1. DOMAIN user = UserFields
  BY UserIs
<1> DEFINE u == [user EXCEPT !.barcode = FALSE]
<1>2. DOMAIN u = UserFields /\ u.login = user.login /\ u.balance = user.balance /\ u.item = user.item
  BY <1>1 DEF UserFields
<1>3. PriceFor(u, code) = PriceFor(user, code)
  BY <1>2 DEF PriceFor, IsAnon
<1> HIDE DEF u
<1>4. Pays(user, code) = Bought(u, code)
  BY DEF Pays, u
<1>5. Bought(u, code).login = user.login /\ Bought(u, code).balance = user.balance - PriceFor(user, code) /\ Bought(u, code).item = user.item
  BY <1>2, <1>3 DEF Bought, UserFields
<1>6. /\ DOMAIN Bought(user, code) = UserFields /\ Bought(user, code).login = user.login
      /\ Bought(user, code).balance = user.balance - PriceFor(user, code)
  BY <1>1 DEF Bought, UserFields
<1> QED
  BY <1>4, <1>5, <1>6 DEF UserFields
LEMMA NobodyCovers == ASSUME NEW u, ~IsAnon(u) PROVE Covers(u)
  BY DEF Covers

LEMMA ScanInfoCash ==
  ASSUME CansInv, CashInv, Takes("BOBDB-PRODUCTINFO"), user # NoUser, NEW code \in DOMAIN Price, ReadScanInfo(code), UNCHANGED <<gui, escrow>>
  PROVE  CashInv'
<1> DEFINE u == Pays(user, code)
           says == PurchaseSays(user, code)
           scanned == [past EXCEPT !.both = @ \/ user.item # NoCode]
<1>1. "BOBDB-PRODUCTINFO" \in Free
  BY DEF Free
<1>2. u.login = user.login /\ u.balance = user.balance - PriceFor(user, code) /\ u.item = user.item
  BY PayerIs
<1>3. DOMAIN past = PastFields
  BY DEF CansInv, Shapes
<1>4. Worth(Message) = 0 /\ Worth(Message) \in Int
  BY <1>1, FreeMessage
<1>5. CASE Stays([user EXCEPT !.barcode = FALSE], <<>>) /\ UNCHANGED past /\ NoTags
  BY <1>1, <1>5, TellsNone, MoneySame, FlagsPurse, StaysWith DEF NoTags, Same
<1>6. ASSUME NEW p, p = scanned
      PROVE  /\ DOMAIN p = PastFields /\ p.inserted = past.inserted /\ p.returned = past.returned /\ p.credited = past.credited
             /\ p.bought = past.bought /\ p.owed = past.owed /\ (~p.both => ~past.both /\ user.item = NoCode)
  BY <1>3, <1>6 DEF PastFields
<1> HIDE DEF scanned, says, u
<1>7. PurseRight(u) /\ AnonHas(u) + Costs(user, code) = AnonHas(user) /\ Tells(says, Costs(user, code))
  BY <1>2, Purchased DEF says
<1>8. ASSUME Affords(user, code), ~scanned.both PROVE Covers(u)
  <2>1. ~past.both /\ user.item = NoCode
    BY <1>6, <1>8
  <2>2. Covers(user)
    BY <2>1 DEF CashInv
  <2>3. CASE IsAnon(user)
    BY <1>2, <1>8, <2>1, <2>2, <2>3, AffordsPays, Purchased
  <2>4. CASE ~IsAnon(user)
    BY <1>2, <2>4, NobodyCovers DEF IsAnon
  <2> QED
    BY <2>3, <2>4
<1>9. CASE Affords(user, code) /\ Leaves(u, says) /\ past' = Closed(scanned, u)
  <2>1. MoreOwed(past', Owes(u)) /\ (~past'.both => ~scanned.both)
    BY <1>6, <1>9 DEF MoreOwed, Closed, PastFields
  <2>2. AnonHas(u) + Costs(user, code) = AnonHas(user) + Worth(Message)
    <3>1. AnonHas(user) \in Int
      BY PurseInt DEF CashInv
    <3> HIDE DEF AnonHas
    <3> QED
      BY <1>4, <1>7, <3>1
  <2> QED
    BY <1>4, <1>7, <1>8, <1>9, <2>1, <2>2, LeavesClear
<1>10. CASE Affords(user, code) /\ Stays(u, says) /\ past' = scanned /\ NewTag
  <2>1. MoreOwed(past', 0)
    <3>1. past.owed \in Int
      BY DEF CashInv, Counted
    <3> QED
      BY <1>6, <1>10, <3>1 DEF MoreOwed
  <2>2. AnonHas(u) + Costs(user, code) = AnonHas(user) + Worth(Message) + 0
    <3>1. AnonHas(user) \in Int
      BY PurseInt DEF CashInv
    <3> HIDE DEF AnonHas
    <3> QED
      BY <1>4, <1>7, <3>1
  <2>3. plan' = plan
    BY <1>10 DEF NewTag, Same
  <2> QED
    BY <1>4, <1>7, <1>8, <1>10, <2>1, <2>2, <2>3, StaysPaying
<1> QED
  BY <1>5, <1>9, <1>10 DEF ReadScanInfo, u, says, scanned
LEMMA ProductInfoCash == ASSUME CansInv, CashInv, HandleBobDBProductInfo, UNCHANGED <<gui, escrow>> PROVE CashInv'
<1>1. Takes("BOBDB-PRODUCTINFO") /\ "BOBDB-PRODUCTINFO" \in Free
  BY DEF HandleBobDBProductInfo, Free
<1>2. Message[3] \in DOMAIN Price
  BY <1>1, MessageIs DEF MessageRight
<1>3. CASE user # NoUser /\ ReadCanInfo(Message[3])
  BY <1>1, <1>2, <1>3, CanInfoCash
<1>4. CASE user # NoUser /\ ReadScanInfo(Message[3])
  BY <1>1, <1>2, <1>4, ScanInfoCash
<1>5. CASE Stays(user, <<>>) /\ UNCHANGED past /\ NoTags
  BY <1>1, <1>5, TellsNone, MoneySame, StaysWith DEF SamePurse, NoTags, Same
<1> QED
  BY <1>3, <1>4, <1>5 DEF HandleBobDBProductInfo
LEMMA FailCash == ASSUME CansInv, CashInv, HandleBobDBFail, UNCHANGED <<gui, escrow>> PROVE CashInv'
<1>1. Takes("BOBDB-FAIL") /\ "BOBDB-FAIL" \notin Priced /\ plan' = plan /\ UNCHANGED past
  BY DEF HandleBobDBFail, Priced, NoTags, Same
<1>2. PICK u : Stays(u, <<>>) /\ (u = user \/ (user # NoUser /\ u = [user EXCEPT !.vend = FALSE]) \/ (user # NoUser /\ u = [user EXCEPT !.barcode = FALSE]))
  BY DEF HandleBobDBFail
<1>3. SamePurse(u)
  <2>1. SamePurse(user)
    BY DEF SamePurse
  <2> QED
    BY <1>2, <2>1, FlagsPurse
<1> QED
  BY <1>1, <1>2, <1>3, TellsNone, MoneySame, StaysWith

-----------------------------------------------------------------------------
LEMMA SuccessCash == ASSUME CansInv, CashInv, HandleVendSuccess, UNCHANGED <<gui, escrow>> PROVE CashInv'
<1> DEFINE n == Message[2]
           item == user.item
           u == [Bought(user, user.item) EXCEPT !.vend = FALSE, !.item = NoCode]
           says == PurchaseSays(user, user.item)
           paid == {<<user.sid, user.item>>}
<1>1. Takes("VEND-SUCCESS") /\ "VEND-SUCCESS" \notin Priced
  BY DEF HandleVendSuccess, Priced
<1>2. Worth(Message) = 0 /\ Worth(Message) \in Int
  BY <1>1, FreeMessage
<1>3. ASSUME NEW c, Stays(user, <<>>), past' = Settled(past, n, c), NoTags PROVE CashInv'
  <2>1. SameMoney(past') /\ SamePurse(user) /\ plan' = plan
    BY <1>3, MoneySame DEF SamePurse, NoTags, Same
  <2> QED
    BY <1>1, <1>3, <2>1, TellsNone, StaysWith
<1>4. ASSUME NEW c, Leaves(user, <<>>), past' = Settled(Over(user), n, c) PROVE CashInv'
  <2>1. MoreOwed(past', Owes(user))
    BY <1>4, MoneyOver
  <2> QED
    BY <1>1, <1>4, <2>1, LeavesNow
<1>5. ASSUME user # NoUser, item # NoCode
      PROVE  /\ PurseRight(u) /\ AnonHas(u) + Costs(user, item) = AnonHas(user)
             /\ Tells(says, Costs(user, item)) /\ (~past.both => Covers(u))
  <2>1. u.login = user.login /\ u.balance = user.balance - PriceFor(user, item) /\ u.item = NoCode
    BY <1>5, PayerIs
  <2>2. IsAnon(user) => item \in DOMAIN Price
    BY <1>5 DEF CashInv, PurseRight
  <2> HIDE DEF u
  <2>3. /\ PurseRight(u) /\ AnonHas(u) + Costs(user, item) = AnonHas(user) /\ Tells(says, Costs(user, item))
        /\ IsAnon(user) /\ Covers(user) /\ user.balance >= PriceFor(user, item) /\ u.item = NoCode => Covers(u)
    BY <2>1, <2>2, Purchased
  <2>4. ASSUME ~past.both PROVE Covers(u)
    <3>1. Covers(user)
      BY <2>4 DEF CashInv
    <3>2. CASE IsAnon(user)
      BY <1>5, <2>1, <2>3, <3>1, <3>2 DEF Covers
    <3>3. CASE ~IsAnon(user)
      BY <2>1, <3>3, NobodyCovers DEF IsAnon
    <3> QED
      BY <3>2, <3>3
  <2> QED
    BY <2>3, <2>4
<1> HIDE DEF u, says
<1>6. AnonHas(user) \in Int
  BY PurseInt DEF CashInv
<1>7. ASSUME user # NoUser, item # NoCode, Leaves(u, says), past' = Settled(Over(u), n, paid) PROVE CashInv'
  <2>1. MoreOwed(past', Owes(u)) /\ (~past'.both => ~past.both)
    BY <1>7, MoneyOver
  <2>2. AnonHas(u) + Costs(user, item) = AnonHas(user) + Worth(Message)
    <3> HIDE DEF AnonHas
    <3> QED
      BY <1>2, <1>5, <1>6, <1>7
  <2> QED
    BY <1>1, <1>2, <1>5, <1>7, <2>1, <2>2, LeavesClear
<1>8. ASSUME user # NoUser, item # NoCode, Stays(u, says), past' = Settled(past, n, paid), NewTag PROVE CashInv'
  <2>1. SameMoney(past')
    BY <1>8, MoneySame
  <2>2. MoreOwed(past', 0) /\ (~past'.both => ~past.both)
    BY <2>1, MoneySameMore
  <2>3. AnonHas(u) + Costs(user, item) = AnonHas(user) + Worth(Message) + 0
    <3> HIDE DEF AnonHas
    <3> QED
      BY <1>2, <1>5, <1>6, <1>8
  <2>4. plan' = plan
    BY <1>8 DEF NewTag, Same
  <2> QED
    BY <1>1, <1>2, <1>5, <1>8, <2>2, <2>3, <2>4, StaysPaying
<1> QED
  BY <1>3, <1>4, <1>7, <1>8 DEF HandleVendSuccess, u, says
LEMMA VendFailedCash == ASSUME CansInv, CashInv, HandleVendFailed, UNCHANGED <<gui, escrow>> PROVE CashInv'
<1> DEFINE u == [user EXCEPT !.vend = FALSE, !.item = NoCode]
<1>1. Takes("VEND-FAILED") /\ "VEND-FAILED" \notin Priced
  BY DEF HandleVendFailed, Priced
<1>2. Worth(Message) = 0 /\ Worth(Message) \in Int
  BY <1>1, FreeMessage
<1>3. CASE Dies(<<>>) /\ UNCHANGED <<user, farewell, past>>
  <2>1. Fits /\ Proper(farewell')
    BY <1>3 DEF Fits, CashInv
  <2> QED
    BY <1>3, <2>1, TellsNone, DiesKeeps
<1>4. user # NoUser => PurseRight(u) /\ AnonHas(u) = AnonHas(user) /\ (Covers(user) => Covers(u))
  BY NoItemPurse
<1>5. u.login = user.login
  OBVIOUS
<1> HIDE DEF u
<1>6. CASE user # NoUser /\ Leaves(u, <<>>) /\ past' = Over(u)
  <2>1. MoreOwed(past', Owes(u)) /\ (~past'.both => ~past.both)
    BY <1>6, MoneyOver
  <2>2. ~past'.both => Covers(u)
    BY <1>4, <1>6, <2>1 DEF CashInv
  <2>3. AnonHas(u) + 0 = AnonHas(user) + Worth(Message)
    BY <1>2, <1>4, <1>6
  <2> QED
    BY <1>1, <1>2, <1>4, <1>6, <2>1, <2>2, <2>3, TellsNone, LeavesClear
<1>7. CASE user # NoUser /\ Stays(u, <<>>) /\ UNCHANGED past /\ NoTags
  <2>1. SameMoney(past') /\ plan' = plan
    BY <1>7, MoneySame DEF NoTags, Same
  <2> QED
    BY <1>1, <1>4, <1>7, <2>1, TellsNone, StaysRich
<1> QED
  BY <1>3, <1>6, <1>7 DEF HandleVendFailed, u
LEMMA VendReadyCash == ASSUME CansInv, CashInv, HandleVendReady, UNCHANGED <<gui, escrow>> PROVE CashInv'
<1>1. Takes("VEND-READY") /\ "VEND-READY" \notin Priced /\ plan' = plan /\ SameMoney(past') /\ SamePurse(user)
  BY MoneySame DEF HandleVendReady, Priced, NoTags, Same, SamePurse
<1>2. Stays(user, <<<<"VEND-SSTART">>>>) /\ Tells(<<<<"VEND-SSTART">>>>, 0)
  BY TellsPlain DEF HandleVendReady, Priced
<1> QED
  BY <1>1, <1>2, StaysWith
LEMMA ScanCash == ASSUME CansInv, CashInv, HandleBarCodeScan, UNCHANGED <<gui, escrow>> PROVE CashInv'
<1>1. Takes("BARCODE-SCAN") /\ "BARCODE-SCAN" \notin Priced
  BY DEF HandleBarCodeScan, Priced
<1>2. CASE Asks("B", Message[2])
  BY <1>1, <1>2, AsksCash
<1>3. CASE /\ user # NoUser
           /\ Stays([user EXCEPT !.barcode = TRUE, !.barcodetag = Tag("B")],
                    <<<<"BOBDB-QUERYPRODUCT", Tag("B"), Message[2]>>>>)
           /\ UNCHANGED past /\ NewTag
  <2>1. SameMoney(past') /\ plan' = plan
    BY <1>3, MoneySame DEF NewTag, Same
  <2>2. Tells(<<<<"BOBDB-QUERYPRODUCT", Tag("B"), Message[2]>>>>, 0)
    BY TellsPlain DEF Priced
  <2>3. SamePurse([user EXCEPT !.barcode = TRUE, !.barcodetag = Tag("B")])
    BY <1>3, FlagsPurse
  <2> QED
    BY <1>1, <1>3, <2>1, <2>2, <2>3, StaysWith
<1> QED
  BY <1>2, <1>3 DEF HandleBarCodeScan

-----------------------------------------------------------------------------
(* Money.                                                                    *)
LEMMA EscrowCash == ASSUME CansInv, CashInv, HandleEscrow, UNCHANGED <<gui, escrow>> PROVE CashInv'
<1>1. Takes("CASH-ESCROW") /\ "CASH-ESCROW" \notin Priced /\ plan' = plan
  BY DEF HandleEscrow, Priced, NoTags, Same
<1>2. Tells(<<<<"CASH-REJECT">>>>, 0) /\ Tells(<<<<"CASH-ACCEPT">>>>, 0)
  BY TellsPlain DEF Priced
<1>3. CASE Stays(user, <<<<"CASH-REJECT">>>>) /\ UNCHANGED past
  BY <1>1, <1>2, <1>3, MoneySame, StaysWith DEF SamePurse
<1>4. CASE Stays(user, <<>>) /\ UNCHANGED past
  BY <1>1, <1>4, TellsNone, MoneySame, StaysWith DEF SamePurse
<1>5. CASE user = NoUser /\ Begins([NewUser(Anonymous, 0) EXCEPT !.escrow = TRUE], <<<<"CASH-ACCEPT">>>>) /\ past' = Began
  <2> DEFINE u == [NewUser(Anonymous, 0) EXCEPT !.escrow = TRUE]
  <2>1. u.login = Anonymous /\ u.balance = 0 /\ u.item = NoCode
    BY NewPurse DEF UserFields
  <2>2. Stays(u, LoggedIn(u) \o <<<<"CASH-ACCEPT">>>>) /\ Tells(LoggedIn(u) \o <<<<"CASH-ACCEPT">>>>, 0)
    BY <1>2, <1>5, TellsLoggedIn, TellsAlso DEF Begins
  <2> HIDE DEF u
  <2>3. PurseRight(u) /\ AnonHas(u) = 0 /\ Covers(u)
    BY <2>1, Rounding DEF PurseRight, AnonHas, Covers
  <2>4. AnonHas(u) = AnonHas(user) /\ SameMoney(past')
    BY <1>5, <2>3, NobodyHas, MoneySame
  <2> QED
    BY <1>1, <2>2, <2>3, <2>4, StaysRich
<1>6. CASE user # NoUser /\ Stays([user EXCEPT !.escrow = TRUE], <<<<"CASH-ACCEPT">>>>) /\ UNCHANGED past
  BY <1>1, <1>2, <1>6, MoneySame, FlagsPurse, StaysWith
<1> QED
  BY <1>3, <1>4, <1>5, <1>6 DEF HandleEscrow
LEMMA DepositedPurse ==
  ASSUME NEW u, DOMAIN u = UserFields, PurseRight(u), NEW amount \in Nickels
  PROVE  LET v == Deposited(u, amount)
         IN  /\ PurseRight(v) /\ AnonHas(v) + Earns(u, amount) = AnonHas(u) + amount
             /\ Covers(u) => Covers(v)
<1> DEFINE v == Deposited(u, amount)
<1>1. v.login = u.login /\ v.balance = u.balance + amount /\ v.item = u.item
  BY DEF Deposited, UserFields
<1>2. amount \in Int /\ amount >= 0
  BY NickelsInt
<1> HIDE DEF v
<1>3. PurseRight(v) /\ AnonHas(v) + Earns(u, amount) = AnonHas(u) + amount
  BY <1>1, <1>2 DEF PurseRight, AnonHas, Earns, IsAnon
<1>4. ASSUME Covers(u), IsAnon(u) PROVE Covers(v)
  <2>1. u.balance \in Nickels /\ u.balance + amount \in Nickels /\ u.balance \in Int
    BY <1>4, Rounding, NickelsInt DEF Covers
  <2>2. ASSUME v.item # NoCode PROVE v.balance >= PriceFor(v, v.item)
    <3>1. u.balance >= PriceFor(u, u.item) /\ PriceFor(v, v.item) = PriceFor(u, u.item)
      BY <1>1, <1>4, <2>2 DEF Covers, PriceFor, IsAnon
    <3>2. PriceFor(u, u.item) \in Int
      BY <1>1, <1>4, <2>2, PriceInt DEF PurseRight
    <3> QED
      BY <1>1, <1>2, <2>1, <3>1, <3>2
  <2> QED
    BY <1>1, <2>1, <2>2 DEF Covers
<1>5. ~IsAnon(u) => Covers(v)
  BY <1>1 DEF Covers, IsAnon
<1> QED
  BY <1>3, <1>4, <1>5 DEF v
LEMMA DepositCash == ASSUME CansInv, CashInv, HandleDeposit, UNCHANGED <<gui, escrow>> PROVE CashInv'
<1> DEFINE amount == Message[2]
           anon == NewUser(Anonymous, 0)
<1>1. Takes("CASH-DEPOSIT") /\ plan' = plan
  BY DEF HandleDeposit, NewTag, Same
<1>2. amount \in Nickels /\ Worth(Message) = amount
  BY <1>1, MessageIs DEF MessageRight, Worth
<1>3. amount \in Int
  BY <1>2, NickelsInt
<1> HIDE DEF amount
<1>4. ASSUME NEW v, DOMAIN v = UserFields, PurseRight(v), AnonHas(v) = AnonHas(user), ~past.both => Covers(v), SameMoney(past'),
             NEW says, Tells(says, Earns(v, amount)), Stays(Deposited(v, amount), says)
      PROVE  CashInv'
  <2> DEFINE u == Deposited(v, amount)
  <2>1. PurseRight(u) /\ AnonHas(u) + Earns(v, amount) = AnonHas(user) + amount /\ (Covers(v) => Covers(u))
    BY <1>2, <1>4, DepositedPurse
  <2> HIDE DEF u
  <2>2. MoreOwed(past', 0) /\ (~past'.both => ~past.both)
    BY <1>4, MoneySameMore
  <2>3. AnonHas(user) \in Int
    BY PurseInt DEF CashInv
  <2>4. AnonHas(u) + Earns(v, amount) = AnonHas(user) + Worth(Message) + 0
    <3> HIDE DEF AnonHas
    <3> QED
      BY <1>2, <1>3, <2>1, <2>3
  <2>5. Stays(u, says) /\ Worth(Message) \in Int
    BY <1>2, <1>3, <1>4 DEF u
  <2> QED
    BY <1>1, <1>4, <2>1, <2>2, <2>4, <2>5, StaysPaying
<1>5. CASE /\ user = NoUser /\ past' = Began /\ user' = Deposited(anon, amount) /\ UNCHANGED <<alive, farewell>>
           /\ Read("backend", LoggedIn(anon) \o DepositSays(anon, amount))
  <2>1. anon.login = Anonymous /\ anon.balance = 0 /\ anon.item = NoCode /\ DOMAIN anon = UserFields
    BY NewPurse
  <2> HIDE DEF anon
  <2>2. PurseRight(anon) /\ AnonHas(anon) = 0 /\ Covers(anon)
    BY <2>1, Rounding DEF PurseRight, AnonHas, Covers
  <2>3. Tells(LoggedIn(anon) \o DepositSays(anon, amount), Earns(anon, amount))
    BY <1>3, TellsLoggedIn, TellsDeposit, TellsAlso
  <2>4. Stays(Deposited(anon, amount), LoggedIn(anon) \o DepositSays(anon, amount))
    BY <1>5 DEF Stays
  <2>5. AnonHas(anon) = AnonHas(user) /\ SameMoney(past')
    BY <1>5, <2>2, NobodyHas, MoneySame
  <2> QED
    BY <1>4, <2>1, <2>2, <2>3, <2>4, <2>5
<1>6. CASE user # NoUser /\ Stays(Deposited(user, amount), DepositSays(user, amount)) /\ UNCHANGED past
  <2>1. DOMAIN user = UserFields /\ SameMoney(past') /\ Tells(DepositSays(user, amount), Earns(user, amount))
    BY <1>3, <1>6, UserIs, MoneySame, TellsDeposit
  <2>2. PurseRight(user) /\ (~past.both => Covers(user))
    BY DEF CashInv
  <2> QED
    BY <1>4, <1>6, <2>1, <2>2
<1> QED
  BY <1>5, <1>6 DEF HandleDeposit, amount

-----------------------------------------------------------------------------
LEMMA LearnCash ==
  ASSUME CansInv, CashInv, HandleLearnStart \/ HandleLearnEnd \/ HandleFpLearnGood \/ HandleSysSet, UNCHANGED <<gui, escrow>>
  PROVE  CashInv'
<1>1. PICK kind \in {"LEARNSTART", "LEARNEND", "FP-LEARN-GOOD", "SYS-VALUE"} : Takes(kind)
  BY DEF HandleLearnStart, HandleLearnEnd, HandleFpLearnGood, HandleSysSet
<1>2. kind \notin Priced
  BY DEF Priced
<1>3. plan' = plan /\ past' = past
  BY DEF HandleLearnStart, HandleLearnEnd, HandleFpLearnGood, HandleSysSet
<1>4. \E says : Stays(user, says) /\ Tells(says, 0)
  <2>1. /\ Tells(<<<<"FP-LEARN-START", user.login>>>>, 0) /\ Tells(<<<<"FP-LEARN-STOP">>>>, 0)
        /\ Tells(<<<<"UI-FP-NOTICE", TRUE>>, <<"FP-LEARN-STOP">>>>, 0) /\ Tells(<<>>, 0)
    BY TellsPlain, TellsLearn, TellsNone DEF Priced
  <2> QED
    BY <2>1 DEF HandleLearnStart, HandleLearnEnd, HandleFpLearnGood, HandleSysSet
<1>5. SameMoney(past') /\ SamePurse(user)
  BY <1>3, MoneySame DEF SamePurse
<1> QED
  BY <1>1, <1>2, <1>3, <1>4, <1>5, StaysWith
LEMMA TimedOutCash == ASSUME CansInv, CashInv, TimedOut, UNCHANGED <<gui, escrow>> PROVE CashInv'
<1> DEFINE w == AnonHas(user) + Owes(user)
<1>1. Cut /\ UNCHANGED <<bus, alive, plan, gui, escrow>> /\ user' = NoUser
  BY DEF TimedOut, Cut
<1>2. Shifts(0) /\ Sound(bus) /\ Proper(farewell)
  <2>1. Sound(bus) /\ Due(bus) \in Int
    BY DueInt DEF CashInv
  <2> QED
    BY <1>1, <2>1 DEF Shifts, CashInv
<1>3. MoreOwed(past', Owes(user)) /\ (~past'.both => ~past.both)
  BY <1>1, MoneyOver DEF Cut
<1>4. Owes(user) \in Int /\ AnonHas(user) \in Int /\ (~past.both => Owes(user) = 0)
  BY OwesInt, PurseInt DEF CashInv
<1>5. AnonHas(user') = 0 /\ PurseRight(user') /\ Covers(user')
  BY <1>1, NobodyHas
<1>6. AnonHas(user') = AnonHas(user) + Owes(user) - w /\ w \in Int
  BY <1>4, <1>5
<1>7. Proper(farewell') /\ Total(farewell') = Total(farewell) + w
  BY <1>1, CutTells
<1> HIDE DEF w
<1>8. Moves(0 + w) /\ 0 + w = w
  BY <1>2, <1>6, <1>7, ShiftMoves
<1>9. Clears(w)
  BY <1>3, <1>4, <1>5, <1>6, MoreClears
<1> QED
  BY <1>1, <1>8, <1>9, MovesKeep
LEMMA GoodbyeCash == ASSUME CansInv, CashInv, Goodbye, UNCHANGED <<gui, escrow>> PROVE CashInv'
<1> DEFINE m == Head(farewell)
<1>1. /\ UNCHANGED <<user, alive, plan, past, gui, escrow>> /\ alive \in BOOLEAN /\ Sound(bus) /\ Proper(farewell)
      /\ farewell # <<>> /\ farewell' = Tail(farewell) /\ Says(<<m>>)
  BY DEF Goodbye, CashInv, CansInv, Shapes
<1>2. PICK S : farewell \in Seq(S)
  BY <1>1 DEF Proper
<1>3. m \in ToSet(farewell) /\ Tail(farewell) \in Seq(S) /\ ToSet(Tail(farewell)) \subseteq ToSet(farewell)
  BY <1>1, <1>2, TailOf
<1>4. MessageRight(m) /\ Proper(farewell') /\ Worth(m) \in Int
  BY <1>1, <1>3 DEF Proper, MessageRight
<1>5. Total(farewell) = Worth(m) + Total(Tail(farewell)) /\ Total(farewell) \in Int /\ Total(Tail(farewell)) \in Int
  BY <1>1, <1>4, ProperCountable, TotalTail, TotalInt
<1>6. Total(farewell') = Total(farewell) + (0 - Worth(m)) /\ 0 - Worth(m) \in Int /\ Worth(m) + (0 - Worth(m)) = 0
  BY <1>1, <1>4, <1>5
<1>7. Tells(<<m>>, Worth(m))
  BY <1>4, TellsOne
<1> HIDE DEF m
<1>8. Shifts(Worth(m))
  BY <1>1, <1>7, SaysShifts
<1>9. Moves(Worth(m) + (0 - Worth(m)))
  BY <1>1, <1>4, <1>6, <1>8, ShiftMoves
<1>10. Clears(0)
  <2>1. SameMoney(past') /\ SamePurse(user')
    BY <1>1 DEF SameMoney, SamePurse
  <2> QED
    BY <2>1, SameClears
<1> QED
  BY <1>1, <1>6, <1>9, <1>10, MovesKeep
LEMMA OvertakenCash == ASSUME CansInv, CashInv, Overtaken, UNCHANGED <<gui, escrow>> PROVE CashInv'
  BY CutDiesCash DEF Overtaken
LEMMA RestartCash == ASSUME CansInv, CashInv, Restart, UNCHANGED <<gui, escrow>> PROVE CashInv'
<1>1. plan.died /\ UNCHANGED <<user, farewell, plan, past, gui, escrow>> /\ bus' = Sent(bus, <<<<"UI-LOGGEDOUT">>>>, TRUE)
  BY DEF Restart, CashInv
<1>2. Tells(<<<<"UI-LOGGEDOUT">>>>, 0)
  BY TellsPlain DEF Priced
<1>3. Sound(bus')
  BY <1>1, <1>2, SentRight DEF Tells, CashInv
<1> QED
  BY <1>1, <1>3 DEF CashInv
LEMMA EngineCash == ASSUME CansInv, CashInv, Engine PROVE CashInv'
<1>1. BackendNext /\ UNCHANGED <<gui, escrow>>
  BY DEF Engine, outside
<1> QED
  BY <1>1, LoginCash, FpGoodReadCash, UserInfoCash, LogoutCash, UserPrefCash, VendRequestCash, ProductInfoCash, FailCash,
     SuccessCash, VendFailedCash, VendReadyCash, ScanCash, EscrowCash, DepositCash, LearnCash, TimedOutCash,
     GoodbyeCash, OvertakenCash, RestartCash DEF BackendNext

-----------------------------------------------------------------------------
(* Around the engine.                                                        *)
Calls(w) ==
  /\ user' = user /\ alive' = alive
  /\ escrow' \in Nickels /\ Planned(plan') /\ plan'.died = plan.died /\ PanelRight(gui')
  /\ Counted(past') /\ past'.owed = past.owed /\ past'.both = past.both
  /\ Outside(past') - escrow' = Outside(past) - escrow + w
LEMMA CallsKeep == ASSUME CansInv, CashInv, NEW w, Moves(w), Calls(w) PROVE CashInv'
<1>1. /\ Outside(past') \in Int /\ Outside(past) \in Int /\ AnonHas(user) \in Int /\ AnonHas(user') = AnonHas(user)
      /\ escrow \in Int /\ escrow' \in Int /\ w \in Int
  BY PurseInt, OutsideInt, NickelsInt DEF Calls, CashInv, Moves
<1>2. Outside(past') - escrow' = Outside(past) - escrow + w
  BY DEF Calls
<1>3. Outside(past') - escrow' - AnonHas(user') = Outside(past) - escrow - AnonHas(user) + w
  <2> HIDE DEF AnonHas
  <2> QED
    BY <1>1, <1>2
<1>4. Square(w)
  BY <1>3 DEF Square, Calls, CashInv
<1> QED
  BY <1>4, SquareKeeps

(* Nobody's money changes hands.                                             *)
EngineRests == UNCHANGED <<user, alive, farewell>>
PlanKept(p) == Planned(p) /\ p.died = plan.died
LEMMA NothingMoves ==
  ASSUME CansInv, CashInv, EngineRests, UNCHANGED escrow, PlanKept(plan'), PanelRight(gui'), SameMoney(past'), Moves(0)
  PROVE  CashInv'
<1>1. Counted(past') /\ Outside(past') = Outside(past) /\ Outside(past) \in Int /\ escrow \in Int
  BY OutsideInt, NickelsInt DEF CashInv, SameMoney, Counted, Outside
<1>2. Outside(past') - escrow' = Outside(past) - escrow + 0
  BY <1>1
<1>3. Calls(0)
  BY <1>1, <1>2 DEF Calls, EngineRests, PlanKept, SameMoney, CashInv
<1> QED
  BY <1>3, CallsKeep
LEMMA MovesHere ==
  ASSUME CansInv, CashInv, EngineRests, NEW says, Tells(says, 0),
         \/ Says(says)
         \/ \E a \in Apps : bus[a] # <<>> /\ Worth(Head(bus[a])) = 0 /\ Read(a, says)
  PROVE  Moves(0)
<1>1. Sound(bus) /\ Proper(farewell) /\ farewell' = farewell /\ alive \in BOOLEAN
  BY DEF CashInv, CansInv, Shapes, EngineRests
<1>2. CASE Says(says)
  BY <1>1, <1>2, SaysMoves
<1>3. CASE \E a \in Apps : bus[a] # <<>> /\ Worth(Head(bus[a])) = 0 /\ Read(a, says)
  <2>1. PICK a \in Apps : bus[a] # <<>> /\ Worth(Head(bus[a])) = 0 /\ Read(a, says)
    BY <1>3
  <2>2. Moves(0 - Worth(Head(bus[a])))
    BY <1>1, <2>1, ReadMoves
  <2> QED
    BY <2>1, <2>2
<1> QED
  BY <1>2, <1>3
LEMMA Still == ASSUME CansInv, CashInv, EngineRests, bus' = bus PROVE Moves(0)
<1>1. Sound(bus) /\ Due(bus) \in Int /\ Proper(farewell) /\ farewell' = farewell
  BY DueInt DEF CashInv, EngineRests
<1>2. Shifts(0)
  BY <1>1 DEF Shifts
<1> QED
  BY <1>1, <1>2, ShiftStays
LEMMA HeadWorth ==
  ASSUME CashInv, NEW a \in Apps, bus[a] # <<>>
  PROVE  /\ MessageRight(Head(bus[a])) /\ Reader(Head(bus[a])[1]) = a /\ Worth(Head(bus[a])) \in Int
         /\ a \notin Tills => Worth(Head(bus[a])) = 0
<1>1. MessageRight(Head(bus[a])) /\ Reader(Head(bus[a])[1]) = a
  BY PoppedRight DEF CashInv
<1> QED
  BY <1>1, WorthElsewhere DEF MessageRight
LEMMA PlanSame ==
  ASSUME CashInv, NEW b,
         \/ plan' = plan \/ plan' = [plan EXCEPT !.touches = b] \/ plan' = [plan EXCEPT !.cans = b] \/ plan' = [plan EXCEPT !.cancels = b]
         \/ plan' = [plan EXCEPT !.resets = b] \/ plan' = [plan EXCEPT !.levers = b] \/ plan' = [plan EXCEPT !.scans = b]
         \/ plan' = [plan EXCEPT !.fingers = b] \/ plan' = [plan EXCEPT !.late = b]
  PROVE  PlanKept(plan')
  BY DEF CashInv, Planned, PlanKept

-----------------------------------------------------------------------------
(* The screen.                                                               *)
LEMMA TellsChange == ASSUME NEW g, NEW state PROVE Tells(ChangeSays(g, state), 0)
<1>1. Tells(<<<<"LEARNEND">>>>, 0) /\ Tells(<<<<"LEARNSTART">>>>, 0) /\ Tells(<<>>, 0)
  BY TellsPlain, TellsNone DEF Priced
<1> QED
  BY <1>1 DEF ChangeSays
LEMMA PanelChange ==
  ASSUME NEW g, {"state", "user"} \subseteq DOMAIN g, NEW state, state = "password" => g.user # Anonymous
  PROVE  PanelRight(ChangeState(g, state))
<1>1. CASE g.state = state
  BY <1>1 DEF ChangeState, PanelRight
<1>2. CASE g.state # state
  <2> DEFINE h == End(g)
             k == Begin(h, state)
  <2>1. DOMAIN h = DOMAIN g /\ h.user = g.user
    BY DEF End
  <2> HIDE DEF h
  <2>2. DOMAIN k = DOMAIN h /\ k.user = h.user
    BY <2>1 DEF Begin
  <2> HIDE DEF k
  <2>3. ChangeState(g, state) = [k EXCEPT !.state = state]
    BY <1>2 DEF ChangeState, h, k
  <2> QED
    BY <2>1, <2>2, <2>3 DEF PanelRight
<1> QED
  BY <1>1, <1>2
LEMMA PanelGui == ASSUME CashInv PROVE {"state", "user"} \subseteq DOMAIN gui /\ (gui.state = "password" => gui.user # Anonymous) /\ PanelRight(gui)
  BY DEF CashInv, PanelRight
LEMMA EventCash == ASSUME CansInv, CashInv, OnEvent, EngineRests, UNCHANGED <<escrow, past>> PROVE CashInv'
<1>1. plan' = plan /\ SameMoney(past') /\ PlanKept(plan')
  BY MoneySame, PlanSame DEF OnEvent
<1>2. {"state", "user"} \subseteq DOMAIN gui /\ (gui.state = "password" => gui.user # Anonymous) /\ PanelRight(gui)
  BY PanelGui
<1>3. \E says : Read("gui", says) /\ Tells(says, 0) /\ bus["gui"] # <<>>
  BY TellsChange, TellsNone
     DEF OnEvent, OnLoginEvent, OnPasswordEvent, OnLogoutEvent, OnFpEvent, OnBalanceEvent, Takes2, Next1
<1>4. "gui" \in Apps /\ "gui" \notin Tills
  BY DEF Apps, Tills
<1>5. Moves(0)
  BY <1>3, <1>4, HeadWorth, MovesHere
<1>6. PanelRight(gui')
  <2>1. CASE OnLoginEvent
    <3>1. PICK g : g = [gui EXCEPT !.user = Event[2], !.balance = Event[3]] /\ gui' = ChangeState(g, "purchase")
      BY <2>1 DEF OnLoginEvent, Takes2
    <3>2. {"state", "user"} \subseteq DOMAIN g
      BY <1>2, <3>1
    <3> QED
      BY <3>1, <3>2, PanelChange
  <2>2. CASE OnPasswordEvent
    <3>1. PICK g : g = [gui EXCEPT !.user = Event[2], !.balance = Event[3], !.hashOf = Event[2], !.asked = Event[4]] /\ gui' = ChangeState(g, "password")
      BY <2>2 DEF OnPasswordEvent, Takes2
    <3>2. {"state", "user"} \subseteq DOMAIN g /\ g.user = Event[2]
      BY <1>2, <3>1
    <3>3. Event[2] # Anonymous
      <4>1. Event[1] = "UI-PASSWORD"
        BY <2>2 DEF OnPasswordEvent, Takes2, Next1, Event
      <4>2. MessageRight(Event)
        BY <1>3, <1>4, HeadWorth DEF Event
      <4> QED
        BY <4>1, <4>2 DEF MessageRight
    <3> QED
      BY <3>1, <3>2, <3>3, PanelChange
  <2>3. CASE OnLogoutEvent
    BY <1>2, <2>3, PanelChange DEF OnLogoutEvent, Takes2
  <2>4. CASE OnFpEvent
    BY <1>2, <2>4, PanelChange DEF OnFpEvent, Takes2
  <2>5. CASE OnBalanceEvent
    BY <1>2, <2>5 DEF OnBalanceEvent, PanelRight
  <2> QED
    BY <2>1, <2>2, <2>3, <2>4, <2>5 DEF OnEvent
<1> QED
  BY <1>1, <1>5, <1>6, NothingMoves
LEMMA TouchCash == ASSUME CansInv, CashInv, OnTouch, EngineRests, UNCHANGED <<escrow, past>> PROVE CashInv'
<1>1. plan' = [plan EXCEPT !.touches = Tail(@)] /\ SameMoney(past')
  BY MoneySame DEF OnTouch, OnLogin, OnDoLogin, OnLoginCancel, OnDoPassword, OnLogout, OnFpLearn, OnFpCancel, Touched
<1>2. PlanKept(plan')
  BY <1>1, PlanSame
<1>3. {"state", "user"} \subseteq DOMAIN gui /\ (gui.state = "password" => gui.user # Anonymous) /\ PanelRight(gui)
  BY PanelGui
<1>4. SUFFICES PanelRight(gui') /\ Moves(0)
  BY <1>1, <1>2, NothingMoves
<1>5. ASSUME NEW state, state # "password", Goes(state, <<>>) PROVE PanelRight(gui') /\ Moves(0)
  <2>1. Tells(ChangeSays(gui, state) \o <<>>, 0)
    BY TellsChange, TellsNone, TellsAlso
  <2> QED
    BY <1>3, <1>5, <2>1, PanelChange, MovesHere DEF Goes
<1>6. ASSUME UNCHANGED gui, NEW says, Says(says), Tells(says, 0) PROVE PanelRight(gui') /\ Moves(0)
  BY <1>3, <1>6, MovesHere
<1>7. CASE OnLogin \/ OnLoginCancel \/ OnFpCancel
  BY <1>5, <1>7 DEF OnLogin, OnLoginCancel, OnFpCancel
<1>8. CASE OnDoLogin
  <2> DEFINE m == <<"LOGIN", Touch[2]>>
  <2>1. Worth(m) = 0 /\ Len(m) = 2
    BY DEF Worth
  <2>2. MessageRight(m)
    BY <2>1 DEF MessageRight
  <2>3. Tells(<<m>>, 0)
    BY <2>1, <2>2, TellsOne
  <2> QED
    BY <1>6, <1>8, <2>3 DEF OnDoLogin
<1>9. CASE OnDoPassword
  <2>1. CASE /\ Touched("password", "right") /\ UNCHANGED gui
             /\ Says(<<<<"LOGIN", gui.user, gui.balance, gui.asked>>>>)
    <3> DEFINE m == <<"LOGIN", gui.user, gui.balance, gui.asked>>
    <3>1. Worth(m) = 0 /\ m[2] = gui.user
      BY DEF Worth
    <3>2. gui.user # Anonymous
      BY <1>3, <2>1 DEF Touched
    <3>3. MessageRight(m)
      BY <3>1, <3>2 DEF MessageRight
    <3>4. Tells(<<m>>, 0)
      BY <3>1, <3>3, TellsOne
    <3> QED
      BY <1>6, <2>1, <3>4
  <2>2. CASE \E g : g = [gui EXCEPT !.tries = @ - 1] /\ (gui' = ChangeState(g, "idle") \/ gui' = g) /\ UNCHANGED bus
    <3>1. PICK g : g = [gui EXCEPT !.tries = @ - 1] /\ (gui' = ChangeState(g, "idle") \/ gui' = g)
      BY <2>2
    <3>2. {"state", "user"} \subseteq DOMAIN g /\ PanelRight(g)
      BY <1>3, <3>1 DEF PanelRight
    <3> QED
      BY <2>2, <3>1, <3>2, PanelChange, Still
  <2> QED
    BY <1>9, <2>1, <2>2 DEF OnDoPassword
<1>10. CASE OnLogout
  <2>1. Tells(<<<<"LOGOUT">>>>, 0)
    BY TellsPlain DEF Priced
  <2> QED
    BY <1>6, <1>10, <2>1 DEF OnLogout
<1>11. CASE OnFpLearn
  BY <1>3, <1>5, <1>11, Still DEF OnFpLearn
<1> QED
  BY <1>7, <1>8, <1>9, <1>10, <1>11 DEF OnTouch
LEMMA ScreenCash == ASSUME CansInv, CashInv, Screen PROVE CashInv'
  BY EventCash, TouchCash DEF Screen, EngineRests, backend, outside

-----------------------------------------------------------------------------
(* The database.                                                             *)
LEMMA BooksCash == ASSUME CansInv, CashInv, BobDb, UNCHANGED <<backend, gui>> PROVE CashInv'
<1>1. EngineRests /\ UNCHANGED <<gui, escrow>> /\ plan' = plan /\ PlanKept(plan') /\ PanelRight(gui') /\ bus["db"] # <<>> /\ "db" \in Apps
  BY PlanSame, PanelGui
     DEF BobDb, backend, EngineRests, QueryUser, QueryUserPref, QueryProduct, DbPurchase, DbDeposit, Next1, Apps
<1>2. Sound(bus) /\ Proper(farewell) /\ farewell' = farewell /\ alive \in BOOLEAN
  BY <1>1 DEF CashInv, CansInv, Shapes, EngineRests
<1>3. ASSUME NEW kind, kind \notin Priced, Query[1] = kind, NEW says, Read("db", says), Tells(says, 0), past' = past PROVE CashInv'
  <2>1. Worth(Query) = 0
    BY <1>3, FreeWorth
  <2>2. Moves(0)
    BY <1>1, <1>3, <2>1, MovesHere DEF Query
  <2>3. SameMoney(past')
    BY <1>3, MoneySame
  <2> QED
    BY <1>1, <2>2, <2>3, NothingMoves
<1>4. CASE QueryUser
  <2> DEFINE name == Known(Query[3])
             m == <<"BOBDB-USERINFO", Query[2], name, accounts[name], name \in HasPassword>>
  <2>1. Tells(<<<<"BOBDB-FAIL", Query[2]>>>>, 0)
    BY TellsPlain DEF Priced
  <2>2. name # Anonymous
    BY NamesAssumption DEF Known, Anonymous
  <2> HIDE DEF name
  <2>3. Worth(m) = 0 /\ m[1] = "BOBDB-USERINFO" /\ m[3] = name
    BY DEF Worth
  <2> HIDE DEF m
  <2>4. MessageRight(m)
    BY <2>2, <2>3 DEF MessageRight
  <2>5. Tells(<<m>>, 0)
    BY <2>3, <2>4, TellsOne
  <2>6. \E says : Read("db", says) /\ Tells(says, 0)
    BY <1>4, <2>1, <2>5 DEF QueryUser, m, name
  <2>7. Query[1] = "BOBDB-QUERYUSER" /\ "BOBDB-QUERYUSER" \notin Priced /\ past' = past
    BY <1>4 DEF QueryUser, Next1, Query, Priced
  <2> QED
    BY <1>3, <2>6, <2>7
<1>5. CASE QueryUserPref
  <2>1. Read("db", <<<<"BOBDB-USERPREF", Query[2] \in AutoLogout>>>>) /\ Tells(<<<<"BOBDB-USERPREF", Query[2] \in AutoLogout>>>>, 0)
    BY <1>5, TellsPlain DEF QueryUserPref, Priced
  <2>2. Query[1] = "BOBDB-QUERYUSERPREF" /\ "BOBDB-QUERYUSERPREF" \notin Priced /\ past' = past
    BY <1>5 DEF QueryUserPref, Next1, Query, Priced
  <2> QED
    BY <1>3, <2>1, <2>2
<1>6. CASE QueryProduct
  <2> DEFINE m == <<"BOBDB-PRODUCTINFO", Query[2], Query[3]>>
  <2>1. Tells(<<<<"BOBDB-FAIL", Query[2]>>>>, 0)
    BY TellsPlain DEF Priced
  <2>2. Worth(m) = 0 /\ m[1] = "BOBDB-PRODUCTINFO" /\ m[3] = Query[3]
    BY DEF Worth
  <2> HIDE DEF m
  <2>3. Query[3] \in DOMAIN Price => Tells(<<m>>, 0)
    <3>1. Query[3] \in DOMAIN Price => MessageRight(m)
      BY <2>2 DEF MessageRight
    <3> QED
      BY <2>2, <3>1, TellsOne
  <2>4. \E says : Read("db", says) /\ Tells(says, 0)
    BY <1>6, <2>1, <2>3 DEF QueryProduct, m
  <2>5. Query[1] = "BOBDB-QUERYPRODUCT" /\ "BOBDB-QUERYPRODUCT" \notin Priced /\ past' = past
    BY <1>6 DEF QueryProduct, Next1, Query, Priced
  <2> QED
    BY <1>3, <2>4, <2>5
<1>7. ASSUME Read("db", <<>>), Counted(past'), past'.owed = past.owed, past'.both = past.both, Outside(past') = Outside(past) + (0 - Worth(Query))
      PROVE  CashInv'
  <2>1. Moves(0 - Worth(Query)) /\ Worth(Query) \in Int
    BY <1>1, <1>2, <1>7, TellsNone, ReadMoves DEF Query
  <2>2. Outside(past) \in Int /\ escrow \in Int /\ escrow \in Nickels
    BY OutsideInt, NickelsInt DEF CashInv
  <2>3. Outside(past') - escrow' = Outside(past) - escrow + (0 - Worth(Query))
    BY <1>1, <1>7, <2>1, <2>2
  <2>4. Calls(0 - Worth(Query))
    BY <1>1, <1>7, <2>2, <2>3 DEF Calls, EngineRests, PlanKept
  <2> QED
    BY <2>1, <2>4, CallsKeep
<1>8. DOMAIN past = PastFields /\ Counted(past)
  BY DEF CashInv, CansInv, Shapes
<1>9. Worth(Query) \in Int
  BY <1>1, HeadWorth DEF Query
<1>10. CASE DbPurchase
  <2>1. Worth(Query) = IF Query[2] = Anonymous THEN Query[3] ELSE 0
    BY <1>10 DEF DbPurchase, Next1, Query, Worth
  <2>2. Counted(past') /\ past'.owed = past.owed /\ past'.both = past.both /\ Outside(past') = Outside(past) + (0 - Worth(Query))
    <3>1. CASE Query[2] = Anonymous
      BY <1>8, <1>9, <1>10, <2>1, <3>1 DEF DbPurchase, Counted, Outside, PastFields
    <3>2. CASE Query[2] # Anonymous
      BY <1>8, <1>10, <2>1, <3>2 DEF DbPurchase, Counted, Outside
    <3> QED
      BY <3>1, <3>2
  <2> QED
    BY <1>7, <1>10, <2>2 DEF DbPurchase
<1>11. CASE DbDeposit
  <2>1. Worth(Query) = IF Query[2] = Anonymous THEN 0 ELSE Query[3]
    BY <1>11 DEF DbDeposit, Next1, Query, Worth
  <2>2. Counted(past') /\ past'.owed = past.owed /\ past'.both = past.both /\ Outside(past') = Outside(past) + (0 - Worth(Query))
    <3>1. CASE Query[2] # Anonymous
      BY <1>8, <1>9, <1>11, <2>1, <3>1 DEF DbDeposit, Counted, Outside, PastFields
    <3>2. CASE Query[2] = Anonymous
      BY <1>8, <1>11, <2>1, <3>2 DEF DbDeposit, Counted, Outside
    <3> QED
      BY <3>1, <3>2
  <2> QED
    BY <1>7, <1>11, <2>2 DEF DbDeposit
<1> QED
  BY <1>4, <1>5, <1>6, <1>10, <1>11 DEF BobDb

-----------------------------------------------------------------------------
(* The controllers, and the other devices.                                   *)
LEMMA HistorySame ==
  ASSUME CansInv, NEW b, NEW n,
         past' = past \/ past' = [past EXCEPT !.cans = b] \/ past' = [past EXCEPT !.gaveup = b] \/ past' = [past EXCEPT !.cans[n].dropped = b]
  PROVE  SameMoney(past')
<1>1. DOMAIN past = PastFields
  BY DEF CansInv, Shapes
<1> QED
  BY <1>1 DEF SameMoney, PastFields
LEMMA VmcCash == ASSUME CansInv, CashInv, Vmc, UNCHANGED <<backend, gui>> PROVE CashInv'
<1>1. EngineRests /\ UNCHANGED <<gui, escrow>> /\ PanelRight(gui')
  BY PanelGui DEF Vmc, backend, EngineRests
<1>2. PlanKept(plan')
  BY PlanSame DEF Vmc, Button, VmcReads, Dispense, CancelVend, Reset
<1>3. SameMoney(past')
  BY HistorySame DEF Vmc, Button, VmcReads, Dispense, CancelVend, Reset
<1>4. Moves(0)
  <2>1. CASE Button
    <3>1. PICK n, button : Says(<<<<"VEND-REQUEST", n, button>>>>)
      BY <2>1 DEF Button
    <3>2. Tells(<<<<"VEND-REQUEST", n, button>>>>, 0)
      BY TellsPlain DEF Priced
    <3> QED
      BY <1>1, <3>1, <3>2, MovesHere
  <2>2. CASE VmcReads
    <3>1. bus["vmc"] # <<>> /\ Read("vmc", <<>>) /\ "vmc" \in Apps /\ "vmc" \notin Tills
      BY <2>2 DEF VmcReads, Apps, Tills
    <3>2. Worth(Head(bus["vmc"])) = 0
      BY <3>1, HeadWorth
    <3> QED
      BY <1>1, <3>1, <3>2, TellsNone, MovesHere
  <2>3. CASE Dispense
    <3>1. Tells(<<<<"VEND-SUCCESS", vending.n>>>>, 0) /\ Tells(<<<<"VEND-FAILED">>>>, 0)
      BY TellsPlain DEF Priced
    <3> QED
      BY <1>1, <2>3, <3>1, MovesHere DEF Dispense
  <2>4. CASE CancelVend
    BY <1>1, <2>4, Still DEF CancelVend
  <2>5. CASE Reset
    <3>1. Tells(<<<<"VEND-READY">>>>, 0)
      BY TellsPlain DEF Priced
    <3> QED
      BY <1>1, <2>5, <3>1, MovesHere DEF Reset
  <2> QED
    BY <2>1, <2>2, <2>3, <2>4, <2>5 DEF Vmc
<1> QED
  BY <1>1, <1>2, <1>3, <1>4, NothingMoves
LEMMA DevicesCash == ASSUME CansInv, CashInv, Devices, UNCHANGED <<backend, gui>> PROVE CashInv'
<1>1. EngineRests /\ UNCHANGED <<gui, escrow>> /\ PanelRight(gui') /\ past' = past
  BY PanelGui DEF Devices, backend, EngineRests
<1>2. PlanKept(plan')
  BY PlanSame DEF Devices, Scan, Finger, ReaderReads, SendsVars
<1>3. SameMoney(past')
  BY <1>1, HistorySame
<1>4. Moves(0)
  <2>1. CASE Scan
    <3>1. Tells(<<<<"BARCODE-SCAN", Head(plan.scans)>>>>, 0)
      BY TellsPlain DEF Priced
    <3> QED
      BY <1>1, <2>1, <3>1, MovesHere DEF Scan
  <2>2. CASE Finger
    <3>1. Tells(<<<<"FP-GOODREAD", Head(plan.fingers)>>>>, 0) /\ Tells(<<<<"FP-LEARN-GOOD">>>>, 0)
      BY TellsPlain DEF Priced
    <3> QED
      BY <1>1, <2>2, <3>1, MovesHere DEF Finger
  <2>3. CASE ReaderReads
    <3>1. bus["reader"] # <<>> /\ Read("reader", <<>>) /\ "reader" \in Apps /\ "reader" \notin Tills
      BY <2>3 DEF ReaderReads, Apps, Tills
    <3>2. Worth(Head(bus["reader"])) = 0
      BY <3>1, HeadWorth
    <3> QED
      BY <1>1, <3>1, <3>2, TellsNone, MovesHere
  <2>4. CASE SendsVars
    <3>1. Tells(<<<<"SYS-VALUE", Head(plan.late)>>>>, 0)
      BY TellsPlain DEF Priced
    <3> QED
      BY <1>1, <2>4, <3>1, MovesHere DEF SendsVars
  <2> QED
    BY <2>1, <2>2, <2>3, <2>4 DEF Devices
<1> QED
  BY <1>1, <1>2, <1>3, <1>4, NothingMoves

LEMMA InsertCash == ASSUME CansInv, CashInv, Insert, UNCHANGED <<backend, gui>> PROVE CashInv'
<1> DEFINE bill == Head(plan.bills)
<1>1. /\ EngineRests /\ gui' = gui /\ PanelRight(gui') /\ plan' = [plan EXCEPT !.bills = Tail(@)]
      /\ past' = [past EXCEPT !.inserted = @ + bill] /\ escrow = 0 /\ escrow' = bill /\ plan.bills # <<>>
      /\ Says(<<<<"CASH-ESCROW", bill>>>>)
  BY PanelGui DEF Insert, backend, EngineRests
<1>2. bill \in Nickels /\ Tail(plan.bills) \in Seq(Nickels)
  BY <1>1 DEF CashInv, Planned
<1>3. Planned(plan') /\ plan'.died = plan.died
  BY <1>1, <1>2 DEF CashInv, Planned
<1>4. bill \in Int
  BY <1>2, NickelsInt
<1> HIDE DEF bill
<1>5. DOMAIN past = PastFields /\ Counted(past)
  BY DEF CashInv, CansInv, Shapes
<1>6. Counted(past') /\ past'.owed = past.owed /\ past'.both = past.both /\ Outside(past') - escrow' = Outside(past) - escrow + 0
  BY <1>1, <1>4, <1>5 DEF Counted, Outside, PastFields
<1>7. Calls(0)
  BY <1>1, <1>2, <1>3, <1>6 DEF Calls, EngineRests
<1>8. Moves(0)
  BY <1>1, TellsPlain, MovesHere DEF Priced
<1> QED
  BY <1>7, <1>8, CallsKeep
LEMMA CashReadsCash == ASSUME CansInv, CashInv, CashReads, UNCHANGED <<backend, gui>> PROVE CashInv'
<1> DEFINE m == Head(bus["cash"])
           given == IF m[1] = "CASH-CHANGE" THEN m[2] ELSE IF m[1] = "CASH-REJECT" THEN escrow ELSE 0
           says == IF escrow = 0 \/ m[1] = "CASH-CHANGE" THEN <<>>
                   ELSE IF m[1] = "CASH-REJECT" THEN <<<<"CASH-ESCROW", 0>>>>
                   ELSE <<<<"CASH-ESCROW", 0>>, <<"CASH-DEPOSIT", escrow>>>>
           paid == IF escrow = 0 \/ m[1] = "CASH-CHANGE" \/ m[1] = "CASH-REJECT" THEN 0 ELSE escrow
<1>1. /\ EngineRests /\ gui' = gui /\ PanelRight(gui') /\ plan' = plan
      /\ bus["cash"] # <<>> /\ past' = [past EXCEPT !.returned = @ + given]
      /\ escrow' = (IF m[1] = "CASH-CHANGE" THEN escrow ELSE 0) /\ Read("cash", says)
  BY PanelGui DEF CashReads, backend, EngineRests
<1>2. Worth(m) \in Int /\ Reader(m[1]) = "cash" /\ "cash" \in Apps
  <2>1. "cash" \in Apps
    BY DEF Apps
  <2> QED
    BY <1>1, <2>1, HeadWorth
<1>3. Worth(m) = IF m[1] = "CASH-CHANGE" THEN m[2] ELSE 0
  BY <1>2 DEF Reader, Worth
<1>4. escrow \in Nickels /\ escrow \in Int
  BY NickelsInt DEF CashInv
<1>5. Tells(says, paid)
  <2>1. Tells(<<<<"CASH-ESCROW", 0>>>>, 0)
    BY TellsPlain DEF Priced
  <2> DEFINE d == <<"CASH-DEPOSIT", escrow>>
  <2>2. Worth(d) = escrow
    BY DEF Worth
  <2>3. MessageRight(d)
    BY <1>4, <2>2 DEF MessageRight
  <2>4. Tells(<<d>>, escrow)
    BY <2>2, <2>3, TellsOne
  <2> HIDE DEF d
  <2>5. <<<<"CASH-ESCROW", 0>>, d>> = <<<<"CASH-ESCROW", 0>>>> \o <<d>>
    BY Concats
  <2>6. Tells(<<<<"CASH-ESCROW", 0>>, d>>, escrow)
    BY <2>1, <2>4, <2>5, TellsAlso
  <2> QED
    BY <2>1, <2>6, TellsNone DEF d
<1>6. Sound(bus) /\ Proper(farewell) /\ farewell' = farewell /\ alive \in BOOLEAN
  BY <1>1 DEF CashInv, CansInv, Shapes, EngineRests
<1> HIDE DEF says
<1>7. Moves(paid - Worth(m))
  BY <1>1, <1>2, <1>5, <1>6, ReadMoves
<1>8. DOMAIN past = PastFields /\ Counted(past)
  BY DEF CashInv, CansInv, Shapes
<1> HIDE DEF m
<1>9. given \in Int /\ paid \in Int /\ (IF m[1] = "CASH-CHANGE" THEN escrow ELSE 0) = escrow - given - (paid - Worth(m))
  BY <1>2, <1>3, <1>4
<1>10. /\ Counted(past') /\ past'.owed = past.owed /\ past'.both = past.both
       /\ Outside(past') = Outside(past) - given /\ Outside(past) \in Int
  <2> HIDE DEF given, paid
  <2>1. given \in Int /\ past' = [past EXCEPT !.returned = past.returned + given]
    BY <1>1, <1>9
  <2>2. /\ past'.returned = past.returned + given /\ past'.inserted = past.inserted /\ past'.credited = past.credited
        /\ past'.bought = past.bought /\ past'.owed = past.owed /\ past'.both = past.both
    BY <1>8, <2>1 DEF PastFields
  <2> QED
    BY <1>8, <2>1, <2>2 DEF Counted, Outside
<1> HIDE DEF given, paid
<1>11. Outside(past') - escrow' = Outside(past) - escrow + (paid - Worth(m))
  BY <1>1, <1>2, <1>4, <1>9, <1>10
<1>12. escrow' \in Nickels
  BY <1>1, <1>4, Rounding
<1>13. Calls(paid - Worth(m))
  BY <1>1, <1>10, <1>11, <1>12 DEF Calls, EngineRests, CashInv
<1> QED
  BY <1>7, <1>13, CallsKeep
LEMMA LeverCash == ASSUME CansInv, CashInv, Lever, UNCHANGED <<backend, gui>> PROVE CashInv'
<1>1. EngineRests /\ UNCHANGED <<gui, escrow, past>> /\ PanelRight(gui') /\ Says(<<<<"CASH-RETURN">>>>)
  BY PanelGui DEF Lever, backend, EngineRests
<1>2. PlanKept(plan') /\ SameMoney(past')
  BY <1>1, PlanSame, HistorySame DEF Lever
<1>3. Moves(0)
  BY <1>1, TellsPlain, MovesHere DEF Priced
<1> QED
  BY <1>1, <1>2, <1>3, NothingMoves

-----------------------------------------------------------------------------
(* The whole machine.                                                        *)
LEMMA CashStart == ASSUME MachineInit PROVE CashInv
<1>1. /\ bus = [a \in Apps |-> <<>>] /\ plan \in Plans /\ escrow = 0 /\ user = NoUser /\ alive = TRUE /\ farewell = <<>>
      /\ gui = GuiInit /\ past.inserted = 0 /\ past.returned = 0 /\ past.credited = 0 /\ past.bought = 0 /\ past.owed = 0
  BY DEF MachineInit
<1>2. Sound(bus) /\ Proper(farewell)
  BY <1>1, NoneOf DEF Sound, Queues, Proper
<1>3. Owing = 0
  <2>1. bus["backend"] = <<>> /\ bus["db"] = <<>> /\ bus["cash"] = <<>> /\ Total(<<>>) = 0
    BY <1>1, TotalNone DEF Apps
  <2> QED
    BY <1>1, <2>1 DEF Owing, Due
<1>4. Counted(past) /\ Outside(past) = 0
  BY <1>1 DEF Counted, Outside
<1>5. Planned(plan)
  BY <1>1, PlansAssumption DEF Planned, Nickels
<1>6. PanelRight(gui)
  BY <1>1 DEF PanelRight, GuiInit
<1>7. PurseRight(user) /\ AnonHas(user) = 0 /\ Covers(user)
  BY <1>1, NobodyHas
<1>8. escrow \in Nickels /\ Even
  BY <1>1, <1>3, <1>4, <1>7, Rounding DEF Even
<1> QED
  BY <1>1, <1>2, <1>4, <1>5, <1>6, <1>7, <1>8 DEF CashInv
LEMMA CashStep == ASSUME CansInv, CashInv, [MachineNext]_everything PROVE CashInv'
<1>1. CASE UNCHANGED everything
  <2>1. UNCHANGED <<bus, user, alive, farewell, gui, escrow, plan, past>>
    BY <1>1 DEF everything, backend
  <2> QED
    BY <2>1 DEF CashInv, Even, Owing
<1>2. CASE Engine
  BY <1>2, EngineCash
<1>3. CASE Screen
  BY <1>3, ScreenCash
<1>4. CASE Around
  BY <1>4, BooksCash, VmcCash, DevicesCash, InsertCash, CashReadsCash, LeverCash DEF Around, Money
<1> QED
  BY <1>1, <1>2, <1>3, <1>4 DEF MachineNext

(* Whatever happens to the sessions, no cash is lost or made: once all is    *)
(* delivered and unless the engine died, what was inserted, with what was    *)
(* given beyond it, is in escrow, given back, in the accounts, spent, or the *)
(* balance of who is there; and more than came in is given only after a      *)
(* purchase by barcode beside an approved can on an anonymous balance.       *)
THEOREM CashBalances == MachineSpec => []CashKept
<1>1. MachineInit => CansInv /\ Parting /\ CashInv
  BY CansStart, CarriesNone, CashStart DEF MachineInit, Parting
<1>2. CansInv /\ Parting /\ CashInv /\ [MachineNext]_everything => CansInv' /\ Parting' /\ CashInv'
  BY CansStep, PartingStep, CashStep
<1>3. CansInv /\ CashInv => CashKept
  BY Kept
<1> QED
  BY <1>1, <1>2, <1>3, PTL DEF MachineSpec
=============================================================================
