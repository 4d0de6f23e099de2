----------------------------- MODULE MdbServer -----------------------------
(* mdb_server: the serial line to the coin and bill acceptors.  One command  *)
(* at a time is solicited: sendread() sends it, arms a timer, and takes the  *)
(* next line from the device as its result; a command that comes meanwhile   *)
(* is refused.  Lines also report coins and bills, and every line that is    *)
(* not an error is forwarded to sodad (Soda.remotemdb).                      *)
(* The device answers each command in its own time, and may report an event  *)
(* whenever it likes.                                                        *)
EXTENDS Integers, Sequences, SequencesExt

CONSTANTS
  Script,     \* the sends of reset(), each with a name of its own, in order
  Requests,   \* the calls of Mdb.command
  Events,     \* the coins and bills the device reports
  Nothing,    \* no command, no line
  MaxChunk    \* the most lines one 'data' callback delivers

Commands == ToSet(Script) \cup Requests

ASSUME ScriptAssumption ==
  /\ Script \in Seq(ToSet(Script)) /\ Script # <<>> /\ IsInjective(Script)
  /\ ToSet(Script) \cap Requests = {}
ASSUME EventsAssumption == Events \cap Commands = {}
ASSUME NothingAssumption == Nothing \notin Commands \cup Events
ASSUME MaxChunkAssumption == MaxChunk \in Nat \ {0}

VARIABLES
  solicit,     \* a command waits for its line
  solicitCb,   \* the command whose callback gets the next line
  timers,      \* commands whose timeout is armed
  call,        \* what became of each command
  answer,      \* the line each command got as its result
  toDevice,    \* commands the device has not answered, in order
  fromDevice,  \* lines the server has not read, in order
  reported,    \* events the device has put on the line
  skipped,     \* lines that were read and not processed
  forwarded    \* lines sent to sodad

vars == <<solicit, solicitCb, timers, call, answer, toDevice,
          fromDevice, reported, skipped, forwarded>>

Kinds == {"reply", "error", "event"}
Lines == [kind : Kinds, of : Commands \cup Events]
Line(k, x) == [kind |-> k, of |-> x]
Ended == {"answered", "timedout", "refused"}

-----------------------------------------------------------------------------
(* The command that reset() sends when c is answered; Nothing at the end. *)
AfterReset(c) ==
  IF \E i \in 1 .. Len(Script) - 1 : Script[i] = c
    THEN Script[1 + CHOOSE i \in 1 .. Len(Script) - 1 : Script[i] = c]
    ELSE Nothing

(* reset() runs when the port opens, and the line is busy from then on. *)
Init ==
  /\ solicit = TRUE
  /\ solicitCb = Script[1]
  /\ timers = {Script[1]}
  /\ call = [c \in Commands |-> IF c = Script[1] THEN "sent" ELSE "idle"]
  /\ answer = [c \in Commands |-> Nothing]
  /\ toDevice = <<Script[1]>>
  /\ fromDevice = <<>>
  /\ reported = {}
  /\ skipped = {}
  /\ forwarded = <<>>

device == <<toDevice, fromDevice, reported>>

(* Mutant: the command that waits is forgotten when another comes. *)
CommandAlways(c) ==
  /\ call[c] = "idle"
  /\ solicit' = TRUE /\ solicitCb' = c /\ timers' = timers \cup {c}
  /\ toDevice' = Append(toDevice, c)
  /\ call' = [call EXCEPT ![c] = "sent"]
  /\ UNCHANGED <<answer, fromDevice, reported, skipped, forwarded>>

(* Mutant: the timeout is not armed. *)
CommandNoTimer(c) ==
  /\ call[c] = "idle"
  /\ IF solicit
       THEN /\ call' = [call EXCEPT ![c] = "refused"]
            /\ UNCHANGED <<solicit, solicitCb, toDevice>>
       ELSE /\ solicit' = TRUE /\ solicitCb' = c
            /\ toDevice' = Append(toDevice, c)
            /\ call' = [call EXCEPT ![c] = "sent"]
  /\ UNCHANGED <<timers, answer, fromDevice, reported, skipped, forwarded>>

(* Mdb.command: sendread(), or "Request in progress". *)
Command(c) ==
  /\ call[c] = "idle"
  /\ IF solicit
       THEN /\ call' = [call EXCEPT ![c] = "refused"]
            /\ UNCHANGED <<solicit, solicitCb, timers, toDevice>>
       ELSE /\ solicit' = TRUE /\ solicitCb' = c /\ timers' = timers \cup {c}
            /\ toDevice' = Append(toDevice, c)
            /\ call' = [call EXCEPT ![c] = "sent"]
  /\ UNCHANGED <<answer, fromDevice, reported, skipped, forwarded>>

(* No line in time: the callback gets an error, and in reset() it ends the   *)
(* series.                                                                   *)
Timeout(c) ==
  /\ c \in timers
  /\ timers' = timers \ {c}
  /\ solicit' = FALSE /\ solicitCb' = Nothing
  /\ call' = [call EXCEPT ![c] = "timedout"]
  /\ UNCHANGED <<answer, device, skipped, forwarded>>

(* The callback of c is called with the line; in reset() it sends the next   *)
(* command at once.                                                          *)
Answer(c, line) ==
  LET next == AfterReset(c) IN
  /\ answer' = [answer EXCEPT ![c] = line]
  /\ IF next = Nothing
       THEN /\ solicit' = FALSE /\ solicitCb' = Nothing
            /\ timers' = timers \ {c}
            /\ call' = [call EXCEPT ![c] = "answered"]
            /\ UNCHANGED toDevice
       ELSE /\ solicit' = TRUE /\ solicitCb' = next
            /\ timers' = (timers \ {c}) \cup {next}
            /\ call' = [call EXCEPT ![c] = "answered", ![next] = "sent"]
            /\ toDevice' = Append(toDevice, next)

(* Mutant: the timer of the command is left running. *)
DataKeepsTimer(n) ==
  LET line == fromDevice[n] IN
  /\ n <= Len(fromDevice)
  /\ solicit /\ AfterReset(solicitCb) = Nothing
  /\ fromDevice' = SubSeq(fromDevice, n + 1, Len(fromDevice))
  /\ skipped' = skipped \cup {fromDevice[i] : i \in 1 .. n - 1}
  /\ answer' = [answer EXCEPT ![solicitCb] = line]
  /\ call' = [call EXCEPT ![solicitCb] = "answered"]
  /\ solicit' = FALSE /\ solicitCb' = Nothing
  /\ forwarded' = IF line.kind = "error" THEN forwarded ELSE Append(forwarded, line)
  /\ UNCHANGED <<timers, toDevice, reported>>

(* Mutant: a line that answers a command is not forwarded. *)
DataOnce(n) ==
  LET line == fromDevice[n] IN
  /\ n <= Len(fromDevice)
  /\ fromDevice' = SubSeq(fromDevice, n + 1, Len(fromDevice))
  /\ skipped' = skipped \cup {fromDevice[i] : i \in 1 .. n - 1}
  /\ IF solicit THEN Answer(solicitCb, line)
                ELSE UNCHANGED <<solicit, solicitCb, timers, call, answer, toDevice>>
  /\ forwarded' = IF solicit \/ line.kind = "error" THEN forwarded ELSE Append(forwarded, line)
  /\ UNCHANGED reported

(* 'data': of the n lines that arrived together only the last is processed. *)
(* It answers the command that waits, whatever it says, and goes to sodad.   *)
Data(n) ==
  LET line == fromDevice[n] IN
  /\ n <= Len(fromDevice)
  /\ fromDevice' = SubSeq(fromDevice, n + 1, Len(fromDevice))
  /\ skipped' = skipped \cup {fromDevice[i] : i \in 1 .. n - 1}
  /\ IF solicit THEN Answer(solicitCb, line)
                ELSE UNCHANGED <<solicit, solicitCb, timers, call, answer, toDevice>>
  /\ forwarded' = IF line.kind = "error" THEN forwarded ELSE Append(forwarded, line)
  /\ UNCHANGED reported

(* The device carries out the oldest command, or rejects it (X). *)
Reply ==
  /\ toDevice # <<>>
  /\ \E k \in {"reply", "error"} :
       fromDevice' = Append(fromDevice, Line(k, Head(toDevice)))
  /\ toDevice' = Tail(toDevice)
  /\ UNCHANGED <<solicit, solicitCb, timers, call, answer, reported,
                 skipped, forwarded>>

(* The device reports a coin or a bill. *)
Report(e) ==
  /\ e \notin reported
  /\ reported' = reported \cup {e}
  /\ fromDevice' = Append(fromDevice, Line("event", e))
  /\ UNCHANGED <<solicit, solicitCb, timers, call, answer, toDevice,
                 skipped, forwarded>>

Next ==
  \/ \E c \in Requests : Command(c)
  \/ \E c \in Commands : Timeout(c)
  \/ \E n \in 1 .. MaxChunk : Data(n)
  \/ Reply
  \/ \E e \in Events : Report(e)

Spec == Init /\ [][Next]_vars

(* Timers fire. *)
FairSpec == Spec /\ \A c \in Commands : WF_vars(Timeout(c))
-----------------------------------------------------------------------------
(* The variables keep their shapes, and they agree on who waits: at most one *)
(* command, the one that was sent and whose timer is armed.                  *)
TypeOK ==
  /\ solicit \in BOOLEAN
  /\ solicitCb \in Commands \cup {Nothing}
  /\ timers \in SUBSET Commands
  /\ call \in [Commands -> {"idle", "sent"} \cup Ended]
  /\ answer \in [Commands -> Lines \cup {Nothing}]
  /\ toDevice \in Seq(Commands)
  /\ fromDevice \in Seq(Lines)
  /\ reported \in SUBSET Events
  /\ skipped \in SUBSET Lines
  /\ forwarded \in Seq(Lines)
  /\ solicit <=> solicitCb # Nothing
  /\ \A c \in Commands : c = solicitCb <=> call[c] = "sent"

(* A callback is called once: the timer of a command that has its line does  *)
(* not fire, and a command that timed out gets no line afterwards.           *)
CallbackOnce ==
  [][\A c \in Commands :
       call[c] \in Ended => call'[c] = call[c] /\ answer'[c] = answer[c]]_vars

(* However late the replies come, the line of a command that still waits for *)
(* it is never taken for the result of another one: a wrong result is an     *)
(* event, or belongs to a command that has ended without it.                 *)
WrongAnswersAreLate ==
  \A c \in Commands :
    answer[c] # Nothing /\ answer[c].kind # "event" /\ answer[c].of # c
      => call[answer[c].of] \in Ended

(* A coin or a bill reaches sodad exactly once although its line may be      *)
(* taken for the result of a command, unless more lines came with it.        *)
EventsReachSodad ==
  \A e \in reported :
    LET line == Line("event", e) IN
    \/ line \in ToSet(fromDevice) \cup skipped
    \/ \E i \in DOMAIN forwarded : \A j \in DOMAIN forwarded : forwarded[j] = line <=> j = i

(* No command waits for ever. *)
EveryCommandEnds == \A c \in Commands : call[c] = "sent" ~> call[c] \in Ended

=============================================================================
