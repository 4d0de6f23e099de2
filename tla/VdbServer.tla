----------------------------- MODULE VdbServer -----------------------------
(* vdb_server: the serial line to the vending machine (the P115S board).     *)
(* The machine asks before it vends (R), and reports what became of the vend *)
(* (K, L); vdb_server asks sodad for it (Soda.vdbauth), answers A or D, and  *)
(* passes the result on (Soda.vdbvend).  The line also carries commands:     *)
(* like mdb_server, one at a time, and while one waits the next line is its  *)
(* result -- here the line is then not handled otherwise.                    *)
(* Requests of the machine that only call for an acknowledgement (F, G, H,   *)
(* M) change nothing and are left out.                                       *)
EXTENDS Integers, Sequences, SequencesExt, FiniteSets

CONSTANTS
  Script,     \* the commands reset() sends one after the other
  Requests,   \* the calls of Vdb.command
  Presses,    \* a button of the machine is pressed
  Sodas,
  Nothing,    \* no command, no press, no soda
  MaxChunk    \* the most lines one 'data' callback delivers

Commands == ToSet(Script) \cup Requests

ASSUME ScriptAssumption ==
  Script \in Seq(ToSet(Script)) /\ Script # <<>> /\ ToSet(Script) \cap Requests = {}
ASSUME PressesAssumption == Presses \cap Commands = {}
ASSUME NothingAssumption == Nothing \notin Commands \cup Presses \cup Sodas
ASSUME MaxChunkAssumption == MaxChunk \in Nat \ {0}

VARIABLES
  waiting,      \* the command that waits for its line, its timeout armed
  called,       \* the calls of Vdb.command that were made
  currentVend,  \* the soda requested last
  asking,       \* presses for which sodad has been asked and has not answered
  granted,      \* presses sodad has granted
  reports,      \* Soda.vdbvend as it was called, with the press that it is about
  lost,         \* lines that were skipped or taken for the result of a command
  toServer,     \* lines the server has not read, in order
  toMachine,    \* lines the machine has not read, in order
  soda,         \* the soda of each press
  machine,      \* what the machine does with the press `turn'
  turn,
  started       \* presses the machine has begun to vend

server == <<waiting, called, currentVend, asking, granted, reports, lost>>
board == <<soda, machine, turn, started>>
vars == <<server, toServer, toMachine, board>>

Line(k, x) == [kind |-> k, of |-> x]
ToServerLines == [kind : {"reply"}, of : Commands]
                   \cup [kind : {"request", "ok", "fail"}, of : Presses]
ToMachineLines == [kind : {"command"}, of : Commands] \cup [kind : {"A", "D"}, of : Presses]
Reports == [of : Presses, success : BOOLEAN, soda : Sodas \cup {Nothing}]

-----------------------------------------------------------------------------
(* vdb_server *)

(* The command that reset() sends when c is answered; Nothing at the end. *)
AfterReset(c) ==
  IF \E i \in 1 .. Len(Script) - 1 : Script[i] = c
    THEN Script[1 + CHOOSE i \in 1 .. Len(Script) - 1 : Script[i] = c]
    ELSE Nothing

(* reset() runs when the port opens: the newlines clear the line, and its    *)
(* first command waits.                                                      *)
Init ==
  /\ waiting = Script[1]
  /\ called = {}
  /\ currentVend = Nothing
  /\ asking = {}
  /\ granted = {}
  /\ reports = <<>>
  /\ lost = {}
  /\ toServer = <<>>
  /\ toMachine = <<Line("command", Script[1])>>
  /\ soda = [p \in Presses |-> Nothing]
  /\ machine = "idle"
  /\ turn = Nothing
  /\ started = {}

(* Vdb.command: sendread(), or "Request in progress". *)
Command(c) ==
  /\ c \notin called
  /\ called' = called \cup {c}
  /\ IF waiting = Nothing
       THEN waiting' = c /\ toMachine' = Append(toMachine, Line("command", c))
       ELSE UNCHANGED <<waiting, toMachine>>
  /\ UNCHANGED <<currentVend, asking, granted, reports, lost, toServer, board>>

(* No line in time: the callback gets an error, and in reset() it ends the   *)
(* series.                                                                   *)
Timeout ==
  /\ waiting # Nothing
  /\ waiting' = Nothing
  /\ UNCHANGED <<called, currentVend, asking, granted, reports, lost,
                 toServer, toMachine, board>>

(* The line is the result of the command that waits, and nothing else; in    *)
(* reset() the next command is sent at once.                                 *)
Answer(line) ==
  LET next == AfterReset(waiting) IN
  /\ waiting' = next
  /\ toMachine' = IF next = Nothing THEN toMachine
                                    ELSE Append(toMachine, Line("command", next))
  /\ UNCHANGED <<currentVend, asking, reports>>

(* Mutant: vends that failed are not reported. *)
HandleOnlyOk(line) ==
  /\ IF line.kind = "request"
       THEN currentVend' = soda[line.of] /\ asking' = asking \cup {line.of}
       ELSE UNCHANGED <<currentVend, asking>>
  /\ reports' =
       IF line.kind = "ok"
         THEN Append(reports, [of |-> line.of, success |-> TRUE, soda |-> currentVend])
         ELSE reports
  /\ UNCHANGED <<waiting, toMachine>>

(* Mutant: the soda of the first request is kept. *)
HandleFirst(line) ==
  /\ IF line.kind = "request"
       THEN /\ currentVend' = IF currentVend = Nothing THEN soda[line.of] ELSE currentVend
            /\ asking' = asking \cup {line.of}
       ELSE UNCHANGED <<currentVend, asking>>
  /\ reports' =
       IF line.kind \in {"ok", "fail"}
         THEN Append(reports,
                [of |-> line.of, success |-> line.kind = "ok", soda |-> currentVend])
         ELSE reports
  /\ UNCHANGED <<waiting, toMachine>>

(* R: sodad is asked; K and L: it is told, with the soda requested last. *)
Handle(line) ==
  /\ IF line.kind = "request"
       THEN currentVend' = soda[line.of] /\ asking' = asking \cup {line.of}
       ELSE UNCHANGED <<currentVend, asking>>
  /\ reports' =
       IF line.kind \in {"ok", "fail"}
         THEN Append(reports,
                [of |-> line.of, success |-> line.kind = "ok", soda |-> currentVend])
         ELSE reports
  /\ UNCHANGED <<waiting, toMachine>>

(* 'data': of the n lines that arrived together only the last is processed. *)
Data(n) ==
  LET line == toServer[n]
      skipped == {toServer[i] : i \in 1 .. n - 1} IN
  /\ n <= Len(toServer)
  /\ toServer' = SubSeq(toServer, n + 1, Len(toServer))
  /\ IF waiting # Nothing
       THEN Answer(line) /\ lost' = lost \cup skipped \cup {line}
       ELSE Handle(line) /\ lost' = lost \cup skipped
  /\ UNCHANGED <<called, granted, board>>

(* Mutant: an error of sodad is taken for a grant. *)
VdbauthReplyError(p) ==
  /\ p \in asking
  /\ asking' = asking \ {p}
  /\ \/ granted' = granted \cup {p} /\ toMachine' = Append(toMachine, Line("A", p))
     \/ UNCHANGED granted /\ toMachine' = Append(toMachine, Line("A", p))
  /\ UNCHANGED <<waiting, called, currentVend, reports, lost, toServer, board>>

(* sodad answers Soda.vdbauth for p, in its own time, or never: A if it      *)
(* grants the vend, D if it denies it or fails.                              *)
VdbauthReply(p) ==
  /\ p \in asking
  /\ asking' = asking \ {p}
  /\ \/ granted' = granted \cup {p} /\ toMachine' = Append(toMachine, Line("A", p))
     \/ UNCHANGED granted /\ toMachine' = Append(toMachine, Line("D", p))
  /\ UNCHANGED <<waiting, called, currentVend, reports, lost, toServer, board>>

-----------------------------------------------------------------------------
(* The vending machine and its board *)

Press(p) ==
  /\ machine = "idle" /\ soda[p] = Nothing
  /\ \E s \in Sodas : soda' = [soda EXCEPT ![p] = s]
  /\ machine' = "asking" /\ turn' = p
  /\ toServer' = Append(toServer, Line("request", p))
  /\ UNCHANGED <<server, toMachine, started>>

(* "CLINK: Request Authorization (timeout=5000)": no answer in 5 s. *)
GiveUp ==
  /\ machine = "asking"
  /\ machine' = "idle" /\ turn' = Nothing
  /\ UNCHANGED <<server, toServer, toMachine, soda, started>>

(* A command is answered: the reset (ESC) with two lines.  A and D do not    *)
(* name a press: the machine takes either for the press whose turn it is,    *)
(* and ignores it when it is not asking.                                     *)
Board ==
  /\ toMachine # <<>>
  /\ toMachine' = Tail(toMachine)
  /\ LET line == Head(toMachine)
         reply == Line("reply", line.of) IN
     IF line.kind = "command"
       THEN /\ toServer' = toServer \o IF line.of = Script[1] THEN <<reply, reply>> ELSE <<reply>>
            /\ UNCHANGED <<machine, turn, started>>
       ELSE /\ UNCHANGED toServer
            /\ IF machine # "asking" THEN UNCHANGED <<machine, turn, started>>
               ELSE IF line.kind = "A"
                 THEN machine' = "vending" /\ started' = started \cup {turn} /\ UNCHANGED turn
                 ELSE machine' = "idle" /\ turn' = Nothing /\ UNCHANGED started
  /\ UNCHANGED <<server, soda>>

(* A soda came out (K), or the machine could not vend it (L). *)
VendEnds ==
  /\ machine = "vending"
  /\ \E k \in {"ok", "fail"} : toServer' = Append(toServer, Line(k, turn))
  /\ machine' = "idle" /\ turn' = Nothing
  /\ UNCHANGED <<server, toMachine, soda, started>>

-----------------------------------------------------------------------------
Next ==
  \/ \E c \in Requests : Command(c)
  \/ Timeout
  \/ \E n \in 1 .. MaxChunk : Data(n)
  \/ \E p \in Presses : VdbauthReply(p) \/ Press(p)
  \/ GiveUp \/ Board \/ VendEnds

Spec == Init /\ [][Next]_vars
-----------------------------------------------------------------------------
(* The variables keep their shapes; sodad is asked only about presses that   *)
(* were made, once each, and the machine vends only the press of its turn.   *)
TypeOK ==
  /\ waiting \in Commands \cup {Nothing}
  /\ called \in SUBSET Requests
  /\ currentVend \in Sodas \cup {Nothing}
  /\ asking \in SUBSET Presses
  /\ granted \in SUBSET Presses
  /\ reports \in Seq(Reports)
  /\ lost \in SUBSET ToServerLines
  /\ toServer \in Seq(ToServerLines)
  /\ toMachine \in Seq(ToMachineLines)
  /\ soda \in [Presses -> Sodas \cup {Nothing}]
  /\ machine \in {"idle", "asking", "vending"}
  /\ turn \in Presses \cup {Nothing}
  /\ started \in SUBSET Presses
  /\ asking \cap granted = {}
  /\ \A p \in asking \cup granted \cup started : soda[p] # Nothing
  /\ machine = "idle" <=> turn = Nothing
  /\ machine = "vending" => turn \in started

(* Every vend is paid for by a grant of its own, although A names no soda    *)
(* and may come after the machine has given up and asked for another one.    *)
VendsAreGranted == Cardinality(started) <= Cardinality(granted)

(* What the machine did reaches sodad, once, unless its line was skipped or  *)
(* taken for the result of a command.                                        *)
ResultsReachSodad ==
  \A p \in started :
    \/ machine = "vending" /\ turn = p
    \/ \E k \in {"ok", "fail"} : Line(k, p) \in ToSet(toServer) \cup lost
    \/ \E i \in DOMAIN reports : \A j \in DOMAIN reports : reports[j].of = p <=> j = i

(* sodad is told the soda that came out, however late the answers were,      *)
(* unless the line that requested it did not get through.                    *)
ReportNamesDispensed ==
  \A r \in ToSet(reports) : r.soda = soda[r.of] \/ Line("request", r.of) \in lost
=============================================================================
