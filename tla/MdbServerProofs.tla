--------------------------- MODULE MdbServerProofs ---------------------------
(* Theorems about MdbServer, for any reset series, calls and device.         *)
EXTENDS MdbServer, SequenceTheorems, TLAPS

(* The timer of the command that waits is armed, and no other.               *)
OneTimer == timers = IF solicit THEN {solicitCb} ELSE {}

(* reset() goes on to a command only when the one before it has its line.    *)
ResetOrder ==
  \A i \in 2 .. Len(Script) :
    call[Script[i]] # "idle" => call[Script[i - 1]] = "answered"

(* What travels to the device and back belongs to commands that were sent.   *)
LinesOfSent ==
  /\ \A i \in 1 .. Len(toDevice) : call[toDevice[i]] # "idle"
  /\ \A i \in 1 .. Len(fromDevice) :
       IF fromDevice[i].kind = "event"
         THEN fromDevice[i].of \in reported
         ELSE fromDevice[i].of \in Commands /\ call[fromDevice[i].of] # "idle"

LineInv == TypeOK /\ OneTimer /\ ResetOrder /\ LinesOfSent

-----------------------------------------------------------------------------
(* The reset series: what AfterReset names.                                  *)
LEMMA ScriptFacts ==
  /\ Len(Script) \in Nat /\ Len(Script) >= 1
  /\ \A i \in 1 .. Len(Script) : Script[i] \in Commands /\ Script[i] \notin Requests
  /\ \A i, j \in 1 .. Len(Script) : Script[i] = Script[j] => i = j
<1>1. Script \in Seq(ToSet(Script)) /\ Script # <<>>
  BY ScriptAssumption
<1>2. Len(Script) \in Nat /\ Len(Script) >= 1 /\ DOMAIN Script = 1 .. Len(Script)
  BY <1>1, LenProperties, EmptySeq
<1>3. \A i \in 1 .. Len(Script) : Script[i] \in ToSet(Script)
  BY <1>2 DEF ToSet
<1> QED
  BY <1>2, <1>3, ScriptAssumption DEF Commands, IsInjective

LEMMA AfterResetFacts ==
  ASSUME NEW c, AfterReset(c) # Nothing
  PROVE  \E i \in 1 .. Len(Script) - 1 : c = Script[i] /\ AfterReset(c) = Script[i + 1]
<1> DEFINE P(i) == Script[i] = c
<1>1. \E i \in 1 .. Len(Script) - 1 : P(i)
  BY DEF AfterReset
<1>2. AfterReset(c) = Script[1 + CHOOSE i \in 1 .. Len(Script) - 1 : P(i)]
  BY <1>1 DEF AfterReset
<1>3. PICK k \in 1 .. Len(Script) - 1 : k = CHOOSE i \in 1 .. Len(Script) - 1 : P(i)
  BY <1>1
<1>4. P(k)
  BY <1>1, <1>3
<1>5. 1 + k = k + 1
  BY ScriptFacts
<1> QED
  BY <1>2, <1>3, <1>4, <1>5

LEMMA LineInit == Init => LineInv
<1> SUFFICES ASSUME Init PROVE LineInv
  OBVIOUS
<1>1. Script[1] \in Commands /\ Script[1] # Nothing
  BY ScriptFacts, NothingAssumption
<1>2. TypeOK
  BY <1>1 DEF Init, TypeOK, Ended
<1>3. OneTimer
  BY DEF Init, OneTimer
<1>4. ResetOrder
  BY ScriptFacts DEF Init, ResetOrder
<1>5. LinesOfSent
  BY <1>1, EmptySeq DEF Init, LinesOfSent
<1> QED
  BY <1>2, <1>3, <1>4, <1>5 DEF LineInv

-----------------------------------------------------------------------------
(* Each step keeps the invariant.                                            *)
LEMMA CommandLine ==
  ASSUME LineInv, NEW c \in Requests, Command(c)
  PROVE  LineInv'
<1>0. c \in Commands /\ c # Nothing /\ call[c] = "idle" /\ TypeOK
  BY NothingAssumption DEF Commands, Command, LineInv
<1>1. CASE solicit
  <2>1. /\ call' = [call EXCEPT ![c] = "refused"]
        /\ UNCHANGED <<solicit, solicitCb, timers, answer, device, skipped, forwarded>>
    BY <1>1 DEF Command, device
  <2>2. TypeOK'
    BY <1>0, <2>1 DEF TypeOK, Ended, device
  <2>3. OneTimer'
    BY <2>1 DEF LineInv, OneTimer
  <2>4. ResetOrder'
    BY <1>0, <2>1, ScriptFacts DEF LineInv, ResetOrder, TypeOK
  <2>5. LinesOfSent'
    <3>1. \A x \in Commands : call[x] # "idle" => call'[x] # "idle"
      BY <1>0, <2>1 DEF TypeOK
    <3>2. \A i \in 1 .. Len(toDevice) : toDevice[i] \in Commands
      BY <1>0, ElementOfSeq DEF TypeOK
    <3>3. UNCHANGED <<toDevice, fromDevice, reported>>
      BY <2>1 DEF device
    <3> QED
      BY <3>1, <3>2, <3>3 DEF LineInv, LinesOfSent
  <2> QED
    BY <2>2, <2>3, <2>4, <2>5 DEF LineInv
<1>2. CASE ~ solicit
  <2>1. /\ solicit' = TRUE /\ solicitCb' = c /\ timers' = timers \cup {c}
        /\ call' = [call EXCEPT ![c] = "sent"] /\ toDevice' = Append(toDevice, c)
        /\ UNCHANGED <<answer, fromDevice, reported, skipped, forwarded>>
    BY <1>2 DEF Command
  <2>2. /\ toDevice' \in Seq(Commands) /\ Len(toDevice') = Len(toDevice) + 1
        /\ \A i \in 1 .. Len(toDevice) : toDevice'[i] = toDevice[i]
        /\ toDevice'[Len(toDevice) + 1] = c /\ Len(toDevice) \in Nat
    BY <1>0, <2>1, AppendProperties, LenProperties DEF TypeOK
  <2>3. TypeOK'
    <3>1. \A x \in Commands : call[x] # "sent"
      BY <1>0, <1>2, NothingAssumption DEF TypeOK
    <3> QED
      BY <1>0, <2>1, <2>2, <3>1 DEF TypeOK
  <2>4. OneTimer'
    BY <1>2, <2>1 DEF LineInv, OneTimer
  <2>5. ResetOrder'
    BY <1>0, <2>1, ScriptFacts DEF LineInv, ResetOrder, TypeOK
  <2>6. LinesOfSent'
    BY <1>0, <2>1, <2>2 DEF LineInv, LinesOfSent, TypeOK
  <2> QED
    BY <2>3, <2>4, <2>5, <2>6 DEF LineInv
<1> QED
  BY <1>1, <1>2

LEMMA TimeoutLine ==
  ASSUME LineInv, NEW c \in Commands, Timeout(c)
  PROVE  LineInv'
<1>1. solicit /\ solicitCb = c /\ call[c] = "sent"
  BY DEF LineInv, TypeOK, OneTimer, Timeout
<1>2. TypeOK'
  BY <1>1, NothingAssumption DEF LineInv, TypeOK, Timeout, device, Ended
<1>3. OneTimer'
  BY <1>1 DEF LineInv, OneTimer, Timeout
<1>4. ResetOrder'
  BY <1>1, ScriptFacts DEF LineInv, TypeOK, ResetOrder, Timeout
<1>5. LinesOfSent'
  BY <1>1 DEF LineInv, TypeOK, LinesOfSent, Timeout, device
<1> QED
  BY <1>2, <1>3, <1>4, <1>5 DEF LineInv

LEMMA ReplyLine ==
  ASSUME LineInv, Reply
  PROVE  LineInv'
<1> DEFINE c == Head(toDevice)
<1>1. toDevice \in Seq(Commands) /\ toDevice # <<>> /\ fromDevice \in Seq(Lines)
  BY DEF LineInv, TypeOK, Reply
<1>2. /\ c \in Commands /\ c = toDevice[1] /\ toDevice' \in Seq(Commands)
      /\ Len(toDevice') = Len(toDevice) - 1 /\ Len(toDevice) \in Nat
      /\ \A i \in 1 .. Len(toDevice') : toDevice'[i] = toDevice[i + 1]
      /\ Len(toDevice) >= 1
  BY <1>1, HeadTailProperties, LenProperties, EmptySeq DEF Reply
<1>3. call[c] # "idle"
  BY <1>2 DEF LineInv, LinesOfSent
<1> HIDE DEF c
<1>4. PICK k \in {"reply", "error"} : fromDevice' = Append(fromDevice, Line(k, c))
  BY DEF Reply, c
<1>5. Line(k, c) \in Lines /\ Line(k, c).kind # "event" /\ Line(k, c).of = c
  BY <1>2 DEF Line, Lines, Kinds
<1>6. /\ fromDevice' \in Seq(Lines) /\ Len(fromDevice') = Len(fromDevice) + 1
      /\ \A i \in 1 .. Len(fromDevice) : fromDevice'[i] = fromDevice[i]
      /\ fromDevice'[Len(fromDevice) + 1] = Line(k, c) /\ Len(fromDevice) \in Nat
  BY <1>1, <1>4, <1>5, AppendProperties, LenProperties
<1>7. UNCHANGED <<solicit, solicitCb, timers, call, answer, reported, skipped, forwarded>>
  BY DEF Reply
<1>8. TypeOK'
  BY <1>2, <1>6, <1>7 DEF LineInv, TypeOK
<1>9. LinesOfSent'
  <2>1. \A i \in 1 .. Len(toDevice') : call'[toDevice'[i]] # "idle"
    <3> SUFFICES ASSUME NEW i \in 1 .. Len(toDevice')
                 PROVE  call[toDevice'[i]] # "idle"
      BY <1>7
    <3>1. i + 1 \in 1 .. Len(toDevice) /\ toDevice'[i] = toDevice[i + 1]
      BY <1>2
    <3> QED
      BY <3>1 DEF LineInv, LinesOfSent
  <2> QED
    BY <1>2, <1>3, <1>5, <1>6, <1>7, <2>1 DEF LineInv, LinesOfSent
<1> QED
  BY <1>7, <1>8, <1>9 DEF LineInv, OneTimer, ResetOrder

LEMMA ReportLine ==
  ASSUME LineInv, NEW e \in Events, Report(e)
  PROVE  LineInv'
<1>1. Line("event", e) \in Lines /\ Line("event", e).kind = "event" /\ Line("event", e).of = e
  BY DEF Line, Lines, Kinds
<1>2. /\ fromDevice' \in Seq(Lines) /\ Len(fromDevice') = Len(fromDevice) + 1
      /\ \A i \in 1 .. Len(fromDevice) : fromDevice'[i] = fromDevice[i]
      /\ fromDevice'[Len(fromDevice) + 1] = Line("event", e) /\ Len(fromDevice) \in Nat
  BY <1>1, AppendProperties, LenProperties DEF LineInv, TypeOK, Report
<1>3. /\ UNCHANGED <<solicit, solicitCb, timers, call, answer, toDevice, skipped, forwarded>>
      /\ reported' = reported \cup {e}
  BY DEF Report
<1>4. TypeOK'
  BY <1>2, <1>3 DEF LineInv, TypeOK
<1>5. LinesOfSent'
  BY <1>1, <1>2, <1>3 DEF LineInv, LinesOfSent
<1> QED
  BY <1>3, <1>4, <1>5 DEF LineInv, OneTimer, ResetOrder

(* The next command of reset() is sent for the first time.                   *)
LEMMA NextIsIdle ==
  ASSUME LineInv, solicit, AfterReset(solicitCb) # Nothing
  PROVE  \E i \in 1 .. Len(Script) - 1 :
           /\ solicitCb = Script[i] /\ AfterReset(solicitCb) = Script[i + 1]
           /\ Script[i + 1] \in Commands /\ Script[i + 1] # Script[i]
           /\ call[Script[i + 1]] = "idle"
<1>1. PICK i \in 1 .. Len(Script) - 1 :
        solicitCb = Script[i] /\ AfterReset(solicitCb) = Script[i + 1]
  BY AfterResetFacts
<1>2. i + 1 \in 2 .. Len(Script) /\ (i + 1) - 1 = i /\ i \in 1 .. Len(Script)
      /\ i + 1 \in 1 .. Len(Script) /\ i + 1 # i
  BY ScriptFacts
<1>3. Script[i] \in Commands /\ Script[i + 1] \in Commands /\ Script[i + 1] # Script[i]
  BY <1>2, ScriptFacts
<1>4. call[Script[i]] = "sent"
  BY <1>1, <1>3 DEF LineInv, TypeOK
<1>5. call[Script[i + 1]] = "idle"
  BY <1>2, <1>4 DEF LineInv, ResetOrder
<1> QED
  BY <1>1, <1>3, <1>5

(* What 'data' does to the lines, whoever gets the last one.                 *)
LEMMA DataLines ==
  ASSUME LineInv, NEW n \in 1 .. MaxChunk, Data(n)
  PROVE  /\ n \in 1 .. Len(fromDevice) /\ fromDevice[n] \in Lines
         /\ fromDevice' \in Seq(Lines) /\ Len(fromDevice) \in Nat
         /\ Len(fromDevice') = Len(fromDevice) - n
         /\ \A i \in 1 .. Len(fromDevice') :
              i + n \in 1 .. Len(fromDevice) /\ fromDevice'[i] = fromDevice[i + n]
         /\ skipped' = skipped \cup {fromDevice[i] : i \in 1 .. n - 1}
         /\ skipped' \in SUBSET Lines
         /\ forwarded' = IF fromDevice[n].kind = "error" THEN forwarded
                                                         ELSE Append(forwarded, fromDevice[n])
         /\ forwarded' \in Seq(Lines)
         /\ reported' = reported
<1>1. n \in Nat /\ n >= 1 /\ n <= Len(fromDevice) /\ Len(fromDevice) \in Nat
      /\ fromDevice \in Seq(Lines)
  BY MaxChunkAssumption, LenProperties DEF Data, LineInv, TypeOK
<1>2. \A i \in 1 .. Len(fromDevice) : fromDevice[i] \in Lines
  BY <1>1, ElementOfSeq
<1>3. fromDevice' = SubSeq(fromDevice, n + 1, Len(fromDevice))
  BY DEF Data
<1>4. /\ fromDevice' \in Seq(Lines) /\ Len(fromDevice') = Len(fromDevice) - n
      /\ \A i \in 1 .. Len(fromDevice') : fromDevice'[i] = fromDevice[i + n]
  <2>1. \A i \in (n + 1) .. Len(fromDevice) : fromDevice[i] \in Lines
    BY <1>1, <1>2
  <2>2. /\ fromDevice' \in Seq(Lines)
        /\ Len(fromDevice') = IF n + 1 <= Len(fromDevice) THEN Len(fromDevice) - (n + 1) + 1 ELSE 0
        /\ \A i \in 1 .. Len(fromDevice) - (n + 1) + 1 : fromDevice'[i] = fromDevice[(n + 1) + i - 1]
    BY <1>1, <1>3, <2>1, SubSeqProperties
  <2>3. Len(fromDevice') = Len(fromDevice) - n
    BY <1>1, <2>2
  <2> QED
    BY <1>1, <2>2, <2>3
<1>5. \A i \in 1 .. Len(fromDevice') : i + n \in 1 .. Len(fromDevice)
  BY <1>1, <1>4
<1>6. /\ skipped' = skipped \cup {fromDevice[i] : i \in 1 .. n - 1}
      /\ forwarded' = IF fromDevice[n].kind = "error" THEN forwarded
                                                      ELSE Append(forwarded, fromDevice[n])
      /\ reported' = reported
  BY DEF Data
<1>7. skipped' \in SUBSET Lines
  BY <1>1, <1>2, <1>6 DEF LineInv, TypeOK
<1>8. forwarded' \in Seq(Lines)
  BY <1>1, <1>2, <1>6, AppendProperties DEF LineInv, TypeOK
<1> QED
  BY <1>1, <1>2, <1>4, <1>5, <1>6, <1>7, <1>8

LEMMA DataLine ==
  ASSUME LineInv, NEW n \in 1 .. MaxChunk, Data(n)
  PROVE  LineInv'
<1> DEFINE c == solicitCb
           next == AfterReset(solicitCb)
<1>0. TypeOK
  BY DEF LineInv
<1>1. ASSUME \A x \in Commands : call[x] # "idle" => call'[x] # "idle",
             toDevice' \in Seq(Commands),
             \A i \in 1 .. Len(toDevice') : call'[toDevice'[i]] # "idle"
      PROVE  LinesOfSent'
  <2> SUFFICES ASSUME NEW i \in 1 .. Len(fromDevice')
               PROVE  IF fromDevice'[i].kind = "event"
                        THEN fromDevice'[i].of \in reported'
                        ELSE fromDevice'[i].of \in Commands /\ call'[fromDevice'[i].of] # "idle"
    BY <1>1 DEF LinesOfSent
  <2>1. i + n \in 1 .. Len(fromDevice) /\ fromDevice'[i] = fromDevice[i + n]
        /\ reported' = reported
    BY DataLines
  <2> QED
    BY <1>1, <2>1 DEF LineInv, LinesOfSent
<1>2. CASE ~ solicit
  <2>1. UNCHANGED <<solicit, solicitCb, timers, call, answer, toDevice>>
    BY <1>2 DEF Data
  <2>2. TypeOK'
    BY <1>0, <2>1, DataLines DEF TypeOK
  <2>3. LinesOfSent'
    BY <1>0, <1>1, <2>1 DEF LineInv, LinesOfSent, TypeOK
  <2> QED
    BY <2>1, <2>2, <2>3 DEF LineInv, OneTimer, ResetOrder
<1>3. CASE solicit /\ next = Nothing
  <2>1. /\ solicit' = FALSE /\ solicitCb' = Nothing /\ timers' = timers \ {c}
        /\ call' = [call EXCEPT ![c] = "answered"] /\ UNCHANGED toDevice
        /\ answer' = [answer EXCEPT ![c] = fromDevice[n]]
    BY <1>3 DEF Data, Answer
  <2>2. c \in Commands /\ call[c] = "sent" /\ timers = {c}
    BY <1>3 DEF LineInv, TypeOK, OneTimer
  <2> HIDE DEF c
  <2>3. TypeOK'
    <3>1. \A x \in Commands : call'[x] # "sent"
      BY <1>0, <2>1, <2>2 DEF TypeOK, c
    <3>2. answer' \in [Commands -> Lines \cup {Nothing}] /\ call' \in [Commands -> {"idle", "sent"} \cup Ended]
      BY <1>0, <2>1, <2>2, DataLines DEF TypeOK, Ended
    <3> QED
      BY <1>0, <2>1, <2>2, <3>1, <3>2, DataLines, NothingAssumption DEF TypeOK
  <2>4. OneTimer'
    BY <2>1, <2>2 DEF OneTimer
  <2>5. ResetOrder'
    BY <1>0, <2>1, <2>2, ScriptFacts DEF LineInv, ResetOrder, TypeOK
  <2>6. \A x \in Commands : call[x] # "idle" => call'[x] # "idle"
    BY <1>0, <2>1, <2>2 DEF TypeOK
  <2>7. \A i \in 1 .. Len(toDevice) : toDevice[i] \in Commands
    BY <1>0, ElementOfSeq DEF TypeOK
  <2>8. LinesOfSent'
    BY <1>0, <1>1, <2>1, <2>6, <2>7 DEF LineInv, LinesOfSent, TypeOK
  <2> QED
    BY <2>3, <2>4, <2>5, <2>8 DEF LineInv
<1>4. CASE solicit /\ next # Nothing
  <2>1. /\ solicit' = TRUE /\ solicitCb' = next /\ timers' = (timers \ {c}) \cup {next}
        /\ call' = [call EXCEPT ![c] = "answered", ![next] = "sent"]
        /\ toDevice' = Append(toDevice, next)
        /\ answer' = [answer EXCEPT ![c] = fromDevice[n]]
    BY <1>4 DEF Data, Answer
  <2>2. c \in Commands /\ call[c] = "sent" /\ timers = {c}
    BY <1>4 DEF LineInv, TypeOK, OneTimer
  <2>3. PICK i \in 1 .. Len(Script) - 1 :
          /\ c = Script[i] /\ next = Script[i + 1]
          /\ next \in Commands /\ next # c /\ call[next] = "idle"
    BY <1>4, NextIsIdle
  <2>a. \A x \in Commands : x = c <=> call[x] = "sent"
    BY <1>0 DEF TypeOK
  <2> HIDE DEF c, next
  <2>4. /\ toDevice' \in Seq(Commands) /\ Len(toDevice') = Len(toDevice) + 1
        /\ \A k \in 1 .. Len(toDevice) : toDevice'[k] = toDevice[k] /\ toDevice[k] \in Commands
        /\ toDevice'[Len(toDevice) + 1] = next /\ Len(toDevice) \in Nat
    BY <1>0, <2>1, <2>3, AppendProperties, LenProperties, ElementOfSeq DEF TypeOK
  <2>5. /\ call' \in [Commands -> {"idle", "sent"} \cup Ended]
        /\ call'[c] = "answered" /\ call'[next] = "sent"
        /\ \A x \in Commands \ {c, next} : call'[x] = call[x]
    BY <1>0, <2>1, <2>2, <2>3 DEF TypeOK, Ended
  <2>6. TypeOK'
    <3>1. \A x \in Commands : x = next <=> call'[x] = "sent"
      BY <2>2, <2>3, <2>5, <2>a
    <3>2. next # Nothing
      BY <2>3, NothingAssumption
    <3>3. answer' \in [Commands -> Lines \cup {Nothing}]
      BY <1>0, <2>1, <2>2, DataLines DEF TypeOK
    <3> QED
      BY ZenonT(40), <1>0, <2>1, <2>2, <2>3, <2>4, <2>5, <3>1, <3>2, <3>3, DataLines DEF TypeOK
  <2>7. OneTimer'
    BY <2>1, <2>2 DEF OneTimer
  <2>8. ResetOrder'
    <3> SUFFICES ASSUME NEW j \in 2 .. Len(Script), call'[Script[j]] # "idle"
                 PROVE  call'[Script[j - 1]] = "answered"
      BY DEF ResetOrder
    <3>1. j \in 1 .. Len(Script) /\ j - 1 \in 1 .. Len(Script) /\ i \in 1 .. Len(Script)
          /\ i + 1 \in 1 .. Len(Script)
      BY ScriptFacts
    <3>2. Script[j] \in Commands /\ Script[j - 1] \in Commands
      BY <3>1, ScriptFacts
    <3>3. CASE Script[j] = next
      BY <2>3, <2>5, <3>1, <3>3, ScriptFacts
    <3>4. CASE Script[j] # next
      <4>1. call[Script[j]] # "idle"
        BY <2>2, <2>5, <3>2, <3>4
      <4>2. call[Script[j - 1]] = "answered"
        BY <4>1 DEF LineInv, ResetOrder
      <4> QED
        BY <2>2, <2>3, <2>5, <3>2, <4>2
    <3> QED
      BY <3>3, <3>4
  <2>9. \A x \in Commands : call[x] # "idle" => call'[x] # "idle"
    BY <2>2, <2>3, <2>5
  <2>10. LinesOfSent'
    <3>1. \A k \in 1 .. Len(toDevice') : call'[toDevice'[k]] # "idle"
      BY <2>4, <2>5, <2>9 DEF LineInv, LinesOfSent
    <3> QED
      BY <1>1, <2>4, <2>9, <3>1
  <2> QED
    BY <2>6, <2>7, <2>8, <2>10 DEF LineInv
<1> QED
  BY <1>2, <1>3, <1>4

LEMMA LineStep == LineInv /\ [Next]_vars => LineInv'
<1> SUFFICES ASSUME LineInv, [Next]_vars PROVE LineInv'
  OBVIOUS
<1>1. CASE UNCHANGED vars
  BY <1>1 DEF vars, LineInv, TypeOK, OneTimer, ResetOrder, LinesOfSent
<1> QED
  BY <1>1, CommandLine, TimeoutLine, ReplyLine, ReportLine, DataLine DEF Next

-----------------------------------------------------------------------------
(* The variables have their types, and they agree on who waits: the command  *)
(* that was sent, and no other.                                              *)
THEOREM LineTypeCorrect == Spec => []TypeOK
<1>1. LineInv => TypeOK
  BY DEF LineInv
<1> QED
  BY <1>1, LineInit, LineStep, PTL DEF Spec

(* What a step does to a command that has ended: nothing.                    *)
LEMMA EndedStays ==
  ASSUME LineInv, Next, NEW c \in Commands, call[c] \in Ended
  PROVE  call'[c] = call[c] /\ answer'[c] = answer[c]
<1>0. TypeOK /\ call[c] \notin {"idle", "sent"}
  BY DEF LineInv, Ended
<1>1. ASSUME NEW x \in Requests, Command(x)
      PROVE  call'[c] = call[c] /\ answer'[c] = answer[c]
  BY <1>0, <1>1 DEF Command, TypeOK
<1>2. ASSUME NEW x \in Commands, Timeout(x)
      PROVE  call'[c] = call[c] /\ answer'[c] = answer[c]
  <2>1. call[x] = "sent"
    BY <1>2 DEF LineInv, TypeOK, OneTimer, Timeout
  <2> QED
    BY <1>0, <1>2, <2>1 DEF Timeout, TypeOK
<1>3. ASSUME NEW n \in 1 .. MaxChunk, Data(n)
      PROVE  call'[c] = call[c] /\ answer'[c] = answer[c]
  <2>1. CASE ~ solicit
    BY <1>3, <2>1 DEF Data
  <2>2. CASE solicit
    <3>1. solicitCb # c
      BY <1>0 DEF TypeOK
    <3>2. AfterReset(solicitCb) # Nothing => AfterReset(solicitCb) # c
      BY <1>0, <2>2, NextIsIdle
    <3> QED
      BY <1>0, <1>3, <2>2, <3>1, <3>2 DEF Data, Answer, TypeOK
  <2> QED
    BY <2>1, <2>2
<1>4. CASE Reply
  BY <1>4 DEF Reply
<1>5. ASSUME NEW e \in Events, Report(e)
      PROVE  call'[c] = call[c] /\ answer'[c] = answer[c]
  BY <1>5 DEF Report
<1> QED
  BY <1>1, <1>2, <1>3, <1>4, <1>5 DEF Next

(* Whatever the device sends and when, a callback is called once: neither    *)
(* the timer nor a later line reaches a command that has ended.              *)
THEOREM CallbacksRunOnce == Spec => CallbackOnce
<1>1. LineInv /\ [Next]_vars =>
        [\A c \in Commands :
           call[c] \in Ended => call'[c] = call[c] /\ answer'[c] = answer[c]]_vars
  BY EndedStays
<1> QED
  BY <1>1, LineInit, LineStep, PTL DEF Spec, CallbackOnce

-----------------------------------------------------------------------------
(* A result is an event, or the line of the command it is given to or of one *)
(* that has ended.                                                           *)
AnswersKnown ==
  \A c \in Commands :
    answer[c] # Nothing /\ answer[c].kind # "event"
      => /\ answer[c].of \in Commands
         /\ answer[c].of # c => call[answer[c].of] \in Ended

LEMMA AnswersStep ==
  ASSUME LineInv, AnswersKnown, [Next]_vars
  PROVE  AnswersKnown'
<1> SUFFICES ASSUME NEW c \in Commands, answer'[c] # Nothing, answer'[c].kind # "event"
             PROVE  /\ answer'[c].of \in Commands
                    /\ answer'[c].of # c => call'[answer'[c].of] \in Ended
  BY DEF AnswersKnown
<1>1. CASE answer'[c] = answer[c]
  <2>1. /\ answer[c].of \in Commands
        /\ answer[c].of # c => call[answer[c].of] \in Ended
    BY <1>1 DEF AnswersKnown
  <2> QED
    BY <1>1, <2>1, EndedStays DEF vars
<1>2. CASE answer'[c] # answer[c]
  <2>1. PICK n \in 1 .. MaxChunk : Data(n) /\ solicit /\ Answer(solicitCb, fromDevice[n])
    BY <1>2 DEF Next, vars, Command, Timeout, Reply, Report, Data
  <2> DEFINE d == fromDevice[n].of
  <2>2. c = solicitCb /\ answer'[c] = fromDevice[n]
    BY <1>2, <2>1 DEF Answer, LineInv, TypeOK
  <2>3. d \in Commands /\ call[d] # "idle"
    BY <2>1, <2>2, DataLines DEF LineInv, LinesOfSent
  <2>4. d # c => call[d] \in Ended
    BY <2>2, <2>3 DEF LineInv, TypeOK
  <2> QED
    BY <2>1, <2>2, <2>3, <2>4, EndedStays DEF Next
<1> QED
  BY <1>1, <1>2

(* A reply that reaches a command it does not belong to belongs to one that  *)
(* has ended without it.                                                     *)
THEOREM WrongAnswersLate == Spec => []WrongAnswersAreLate
<1>1. Init => AnswersKnown
  BY DEF Init, AnswersKnown
<1>2. AnswersKnown => WrongAnswersAreLate
  BY DEF AnswersKnown, WrongAnswersAreLate
<1> QED
  BY <1>1, <1>2, LineInit, LineStep, AnswersStep, PTL DEF Spec

-----------------------------------------------------------------------------
(* Where the line of an event is: once on the line or once with sodad, never *)
(* both, unless it was skipped; nowhere before the device reports it.        *)
InTransit(l) == \E i \in 1 .. Len(fromDevice) : fromDevice[i] = l
AtSodad(l) == \E i \in 1 .. Len(forwarded) : forwarded[i] = l

Placed(e) ==
  LET l == Line("event", e) IN
  /\ \A i, j \in 1 .. Len(fromDevice) : fromDevice[i] = l /\ fromDevice[j] = l => i = j
  /\ \A i, j \in 1 .. Len(forwarded) : forwarded[i] = l /\ forwarded[j] = l => i = j
  /\ ~ (InTransit(l) /\ AtSodad(l))
  /\ InTransit(l) \/ AtSodad(l) => e \in reported
  /\ e \in reported => InTransit(l) \/ AtSodad(l) \/ l \in skipped

EventInv == \A e \in Events : Placed(e)

LEMMA ReportPlaced ==
  ASSUME LineInv, NEW x \in Events, Report(x), NEW e \in Events, Placed(e)
  PROVE  Placed(e)'
<1> DEFINE l == Line("event", e)
<1>1. /\ Len(fromDevice') = Len(fromDevice) + 1 /\ Len(fromDevice) \in Nat
      /\ \A i \in 1 .. Len(fromDevice) : fromDevice'[i] = fromDevice[i]
      /\ fromDevice'[Len(fromDevice) + 1] = Line("event", x)
  <2>1. Line("event", x) \in Lines
    BY DEF Line, Lines, Kinds
  <2> QED
    BY <2>1, AppendProperties, LenProperties DEF LineInv, TypeOK, Report
<1>2. l = Line("event", x) <=> e = x
  BY DEF Line
<1>3. UNCHANGED <<skipped, forwarded>> /\ reported' = reported \cup {x} /\ x \notin reported
  BY DEF Report
<1> HIDE DEF l
<1>4. CASE e = x
  <2>1. ~ InTransit(l) /\ ~ AtSodad(l)
    BY <1>3, <1>4 DEF Placed, l
  <2> QED
    BY <1>1, <1>2, <1>3, <1>4, <2>1 DEF Placed, InTransit, AtSodad, l
<1>5. CASE e # x
  <2>1. InTransit(l)' <=> InTransit(l)
    BY <1>1, <1>2, <1>5 DEF InTransit, l
  <2>2. AtSodad(l)' <=> AtSodad(l)
    BY <1>3 DEF AtSodad, l
  <2>3. \A i \in 1 .. Len(fromDevice') : fromDevice'[i] = l =>
           i \in 1 .. Len(fromDevice) /\ fromDevice[i] = l
    BY <1>1, <1>2, <1>5
  <2> QED
    BY <1>3, <1>5, <2>1, <2>2, <2>3 DEF Placed, l
<1> QED
  BY <1>4, <1>5

LEMMA ReplyPlaced ==
  ASSUME LineInv, Reply, NEW e \in Events, Placed(e)
  PROVE  Placed(e)'
<1> DEFINE l == Line("event", e)
<1>1. PICK k \in {"reply", "error"} : fromDevice' = Append(fromDevice, Line(k, Head(toDevice)))
  BY DEF Reply
<1>2. Line(k, Head(toDevice)) \in Lines /\ Line(k, Head(toDevice)) # l
  <2>1. Head(toDevice) \in Commands
    BY HeadTailProperties DEF LineInv, TypeOK, Reply
  <2> QED
    BY <2>1 DEF Line, Lines, Kinds
<1>3. /\ Len(fromDevice') = Len(fromDevice) + 1 /\ Len(fromDevice) \in Nat
      /\ \A i \in 1 .. Len(fromDevice) : fromDevice'[i] = fromDevice[i]
      /\ fromDevice'[Len(fromDevice) + 1] # l
  BY <1>1, <1>2, AppendProperties, LenProperties DEF LineInv, TypeOK
<1>4. UNCHANGED <<skipped, forwarded, reported>>
  BY DEF Reply
<1> HIDE DEF l
<1>5. InTransit(l)' <=> InTransit(l)
  BY <1>3 DEF InTransit, l
<1>6. AtSodad(l)' <=> AtSodad(l)
  BY <1>4 DEF AtSodad, l
<1>7. \A i \in 1 .. Len(fromDevice') : fromDevice'[i] = l =>
         i \in 1 .. Len(fromDevice) /\ fromDevice[i] = l
  BY <1>3
<1> QED
  BY <1>4, <1>5, <1>6, <1>7 DEF Placed, l

LEMMA DataPlaced ==
  ASSUME LineInv, NEW n \in 1 .. MaxChunk, Data(n), NEW e \in Events, Placed(e)
  PROVE  Placed(e)'
<1> DEFINE l == Line("event", e)
<1>1. /\ n \in 1 .. Len(fromDevice) /\ Len(fromDevice) \in Nat
      /\ Len(fromDevice') = Len(fromDevice) - n
      /\ \A i \in 1 .. Len(fromDevice') :
           i + n \in 1 .. Len(fromDevice) /\ fromDevice'[i] = fromDevice[i + n]
      /\ skipped' = skipped \cup {fromDevice[i] : i \in 1 .. n - 1}
      /\ forwarded' = IF fromDevice[n].kind = "error" THEN forwarded
                                                      ELSE Append(forwarded, fromDevice[n])
      /\ reported' = reported /\ fromDevice[n] \in Lines
  BY DataLines
<1>2. l.kind = "event"
  BY DEF Line
<1>3. /\ \A i, j \in 1 .. Len(fromDevice) : fromDevice[i] = l /\ fromDevice[j] = l => i = j
      /\ \A i, j \in 1 .. Len(forwarded) : forwarded[i] = l /\ forwarded[j] = l => i = j
      /\ ~ (InTransit(l) /\ AtSodad(l))
      /\ InTransit(l) \/ AtSodad(l) => e \in reported
      /\ e \in reported => InTransit(l) \/ AtSodad(l) \/ l \in skipped
  BY DEF Placed
<1>4. Len(forwarded) \in Nat
  BY LenProperties DEF LineInv, TypeOK
<1>5. fromDevice[n].kind # "error" =>
        /\ Len(forwarded') = Len(forwarded) + 1
        /\ \A i \in 1 .. Len(forwarded) : forwarded'[i] = forwarded[i]
        /\ forwarded'[Len(forwarded) + 1] = fromDevice[n]
  BY <1>1, AppendProperties DEF LineInv, TypeOK
<1> HIDE DEF l
<1>6. InTransit(l)' => InTransit(l)
  BY <1>1 DEF InTransit, l
<1>7. \A i, j \in 1 .. Len(fromDevice') : fromDevice'[i] = l /\ fromDevice'[j] = l => i = j
  <2> SUFFICES ASSUME NEW i \in 1 .. Len(fromDevice'), NEW j \in 1 .. Len(fromDevice'),
                      fromDevice'[i] = l, fromDevice'[j] = l
               PROVE  i = j
    OBVIOUS
  <2>1. i + n = j + n
    BY <1>1, <1>3
  <2> QED
    BY <1>1, <2>1
<1>8. CASE fromDevice[n] = l
  <2>1. fromDevice[n].kind # "error" /\ InTransit(l) /\ ~ AtSodad(l)
    BY <1>1, <1>2, <1>3, <1>8 DEF InTransit
  <2>2. ~ InTransit(l)'
    <3> SUFFICES ASSUME NEW i \in 1 .. Len(fromDevice'), fromDevice'[i] = l
                 PROVE  FALSE
      BY DEF InTransit, l
    <3>1. i + n = n
      BY <1>1, <1>3, <1>8
    <3> QED
      BY <1>1, <3>1
  <2>3. AtSodad(l)'
    BY <1>4, <1>5, <1>8, <2>1 DEF AtSodad, l
  <2>4. \A i, j \in 1 .. Len(forwarded') : forwarded'[i] = l /\ forwarded'[j] = l => i = j
    BY <1>4, <1>5, <2>1 DEF AtSodad
  <2>5. e \in reported'
    BY <1>1, <1>3, <2>1
  <2> QED
    BY <1>7, <2>2, <2>3, <2>4, <2>5 DEF Placed, l
<1>9. CASE fromDevice[n] # l
  <2>1. \A i \in 1 .. Len(forwarded') : forwarded'[i] = l =>
           i \in 1 .. Len(forwarded) /\ forwarded[i] = l
    BY <1>1, <1>4, <1>5, <1>9
  <2>2. AtSodad(l) => AtSodad(l)'
    BY <1>1, <1>4, <1>5, <1>9 DEF AtSodad, l
  <2>3. AtSodad(l)' => AtSodad(l)
    BY <2>1 DEF AtSodad, l
  <2>4. InTransit(l) => InTransit(l)' \/ l \in skipped'
    <3> SUFFICES ASSUME NEW i \in 1 .. Len(fromDevice), fromDevice[i] = l
                 PROVE  InTransit(l)' \/ l \in skipped'
      BY DEF InTransit
    <3>1. CASE i < n
      BY <1>1, <3>1
    <3>2. CASE i > n
      <4>1. i - n \in 1 .. Len(fromDevice') /\ (i - n) + n = i
        BY <1>1, <3>2
      <4> QED
        BY <1>1, <4>1 DEF InTransit, l
    <3> QED
      BY <1>1, <1>9, <3>1, <3>2
  <2>5. l \in skipped => l \in skipped'
    BY <1>1
  <2> QED
    BY <1>1, <1>3, <1>6, <1>7, <2>1, <2>2, <2>3, <2>4, <2>5 DEF Placed, l
<1> QED
  BY <1>8, <1>9

LEMMA EventStep ==
  ASSUME LineInv, EventInv, [Next]_vars
  PROVE  EventInv'
<1> SUFFICES ASSUME NEW e \in Events, Placed(e) PROVE Placed(e)'
  BY DEF EventInv
<1>1. CASE UNCHANGED <<fromDevice, reported, skipped, forwarded>>
  BY <1>1 DEF Placed, InTransit, AtSodad
<1>2. ASSUME NEW c \in Requests, Command(c)
      PROVE  UNCHANGED <<fromDevice, reported, skipped, forwarded>>
  BY <1>2 DEF Command
<1>3. ASSUME NEW c \in Commands, Timeout(c)
      PROVE  UNCHANGED <<fromDevice, reported, skipped, forwarded>>
  BY <1>3 DEF Timeout, device
<1>4. UNCHANGED vars => UNCHANGED <<fromDevice, reported, skipped, forwarded>>
  BY DEF vars
<1> QED
  BY <1>1, <1>2, <1>3, <1>4, ReplyPlaced, ReportPlaced, DataPlaced DEF Next

(* A coin or a bill the device reports reaches sodad exactly once, also when *)
(* its line was taken for the result of a command, unless it came together   *)
(* with a later line.                                                        *)
THEOREM EventsReachSodadOnce == Spec => []EventsReachSodad
<1>1. Init => EventInv
  BY EmptySeq DEF Init, EventInv, Placed, InTransit, AtSodad
<1>2. LineInv /\ EventInv => EventsReachSodad
  <2> SUFFICES ASSUME LineInv, NEW e \in reported, Placed(e), Line("event", e) \notin skipped,
                      Line("event", e) \notin ToSet(fromDevice)
               PROVE  \E i \in DOMAIN forwarded :
                        \A j \in DOMAIN forwarded : forwarded[j] = Line("event", e) <=> j = i
    BY DEF EventInv, EventsReachSodad, LineInv, TypeOK
  <2>1. DOMAIN forwarded = 1 .. Len(forwarded) /\ DOMAIN fromDevice = 1 .. Len(fromDevice)
    BY LenProperties DEF LineInv, TypeOK
  <2>2. ~ InTransit(Line("event", e))
    BY <2>1 DEF InTransit, ToSet
  <2>3. AtSodad(Line("event", e))
    BY <2>2 DEF Placed
  <2> QED
    BY <2>1, <2>3 DEF AtSodad, Placed
<1> QED
  BY <1>1, <1>2, LineInit, LineStep, EventStep, PTL DEF Spec
=============================================================================
