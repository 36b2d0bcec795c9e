-------------------------- MODULE HiresTimerProofs --------------------------
(***************************************************************************)
(* For every counter width, as long as less than half a period passes      *)
(* between two context switches and in one call: the run-time clock of the *)
(* kernel is exact while only the kernel reads it, and no reading is ever  *)
(* behind when the shell reads too.                                        *)
(***************************************************************************)
EXTENDS HiresTimer, TLAPS

(* The last reading is sinceSwitch counts old: either the counter has not
   wrapped since, or it has wrapped once and is still below that reading,
   which is how the next reading notices. *)
ReadingAge ==
  \/ /\ hiresTimer_upperWord = wraps
     /\ cnt = hiresTimer_lastReading + sinceSwitch
  \/ /\ hiresTimer_upperWord + 1 = wraps
     /\ cnt + Period = hiresTimer_lastReading + sinceSwitch

KernelClock ==
  /\ pc = <<"first", "read">>
  /\ cnt \in 0..Period - 1
  /\ wraps \in Nat
  /\ hiresTimer_upperWord \in Nat
  /\ hiresTimer_lastReading \in 0..Period - 1
  /\ sinceSwitch \in 0..MaxGap
  /\ ReadingAge
  /\ runError = 0

(* The command, once given, may break it. *)
ClockInv == ~timerUsed => KernelClock

(* The counter and both words start at zero. *)
LEMMA InitClockInv == TimerInit => ClockInv
BY HiresTimerAssumption DEF TimerInit, ClockInv, KernelClock, ReadingAge

(* A tick ages the reading; a context switch renews it. *)
LEMMA NextClockInv == ClockInv /\ [TimerNext]_timerVars => ClockInv'
<1> SUFFICES ASSUME KernelClock, ~timerUsed, [TimerNext]_timerVars
             PROVE  KernelClock'
  <2>1. [TimerNext]_timerVars => timerUsed' = timerUsed
    BY DEF TimerNext, Tick, SwitchContext, cmd_timer, ReadCounter, Compare,
       LoadUpper, StoreUpper, StoreLast, ReturnTime, timerVars, shellVars
  <2> QED
    BY <2>1 DEF ClockInv
<1> USE HiresTimerAssumption DEF KernelClock, ReadingAge
<1>1. CASE Tick
  <2>1. sinceSwitch' = sinceSwitch + 1 /\ sinceSwitch' \in 0..MaxGap
    BY <1>1 DEF Tick
  <2>2. UNCHANGED <<hiresTimer_upperWord, hiresTimer_lastReading, runError, pc>>
    BY <1>1 DEF Tick, sharedVars
  <2>3. CASE cnt < Period - 1
    <3>1. cnt' = cnt + 1 /\ wraps' = wraps
      BY <1>1, <2>3 DEF Tick
    <3> QED
      BY <2>1, <2>2, <2>3, <3>1
  <2>4. CASE cnt = Period - 1
    <3>1. cnt' = 0 /\ wraps' = wraps + 1
      BY <1>1, <2>4 DEF Tick
    <3>2. hiresTimer_upperWord = wraps
      BY <2>1, <2>4
    <3> QED
      BY <2>1, <2>2, <2>4, <3>1, <3>2
  <2> QED
    BY <2>3, <2>4
<1>2. CASE SwitchContext
  <2>1. Carry = wraps
    BY DEF Carry
  <2> QED
    BY <1>2, <2>1 DEF SwitchContext, clockVars
<1>3. ~cmd_timer
  BY DEF cmd_timer, ReadCounter, Compare, LoadUpper, StoreUpper, StoreLast,
     ReturnTime, Step
<1>4. CASE UNCHANGED timerVars
  BY <1>4 DEF timerVars, clockVars, sharedVars, kernelVars
<1> QED
  BY <1>1, <1>2, <1>3, <1>4 DEF TimerNext

(* Every reading of the kernel is the true time: hiresTimer_getTime notices
   each wrap of the hardware counter once. *)
THEOREM KernelClockExact == TimerSpec => []RunTimeExact
<1>1. ClockInv => RunTimeExact
  BY DEF ClockInv, KernelClock, RunTimeExact
<1> QED
  BY <1>1, InitClockInv, NextClockInv, PTL DEF TimerSpec

-----------------------------------------------------------------------------
(* Two readers *)

(* The last reading is at most the time since the last context switch and the
   length of one call old. *)
LastReadingAge ==
  \E g \in 0..sinceSwitch + MaxGap :
    cnt = hiresTimer_lastReading + g \/ cnt + Period = hiresTimer_lastReading + g

(* The upper word lags only from a wrap to the next context switch, and then
   every reader can tell. *)
LagIsSeen ==
  \/ hiresTimer_upperWord >= wraps
  \/ /\ hiresTimer_upperWord + 1 = wraps
     /\ cnt < hiresTimer_lastReading
     /\ cnt < sinceSwitch

(* The shell's reading is as old as its call. *)
CallAge ==
  InCall =>
    \/ cnt = current + callTicks /\ wraps = readWraps
    \/ cnt + Period = current + callTicks /\ wraps = readWraps + 1

(* What the shell is about to store does not lag: if it lacked the carry when
   it was loaded, the counter had just wrapped and will not again. *)
StoreInv ==
  pc[2] = "store" =>
    \/ upper + 1 > wraps
    \/ upper + 1 = wraps /\ cnt < MaxGap + callTicks

(* Behind the carry both copies of the upper word are fit to return. *)
ReturnInv ==
  /\ pc[2] \in {"compare", "load", "store"} => ~carried
  /\ pc[2] \in {"last", "return"} =>
       /\ hiresTimer_upperWord >= readWraps
       /\ carried => upper >= readWraps

RaceInv ==
  /\ TimerTypeOK
  /\ LastReadingAge
  /\ LagIsSeen
  /\ CallAge
  /\ StoreInv
  /\ ReturnInv
  /\ NeverBehind

LEMMA InitRaceInv == TimerInit => RaceInv
<1> SUFFICES ASSUME TimerInit PROVE RaceInv
  OBVIOUS
<1>1. TimerTypeOK
  <2>1. pc \in Phases \X Steps
    BY DEF TimerInit, Phases, Steps
  <2>2. 0 \in 0..Period - 1 /\ 0 \in 0..MaxGap
    BY HiresTimerAssumption
  <2>3. timerUsed \in BOOLEAN /\ carried \in BOOLEAN
    BY Zenon DEF TimerInit
  <2> QED
    BY <2>1, <2>2, <2>3 DEF TimerInit, TimerTypeOK
<1>2. LastReadingAge
  <2>1. 0 \in 0..sinceSwitch + MaxGap
    BY HiresTimerAssumption DEF TimerInit
  <2> QED
    BY <2>1 DEF TimerInit, LastReadingAge
<1> QED
  BY <1>1, <1>2 DEF TimerInit, RaceInv, LagIsSeen, CallAge, StoreInv, ReturnInv,
     NeverBehind, InCall

(* A tick ages both readings, and a wrap finds the upper word up to date. *)
LEMMA TickRace ==
  ASSUME RaceInv, Tick PROVE RaceInv'
<1> USE HiresTimerAssumption
<1>1. /\ cnt \in 0..Period - 1 /\ wraps \in Nat /\ hiresTimer_upperWord \in Nat
      /\ hiresTimer_lastReading \in 0..Period - 1 /\ sinceSwitch \in 0..MaxGap
      /\ current \in 0..Period - 1 /\ upper \in Nat /\ callTicks \in 0..MaxGap
      /\ readWraps \in Nat
  BY DEF RaceInv, TimerTypeOK
<1>2. /\ sinceSwitch' = sinceSwitch + 1 /\ sinceSwitch' \in 0..MaxGap
      /\ callTicks' = (IF InCall THEN callTicks + 1 ELSE 0)
      /\ callTicks' \in 0..MaxGap
      /\ UNCHANGED <<hiresTimer_upperWord, hiresTimer_lastReading, runError, pc,
                     current, upper, carried, readWraps, timerUsed, startError,
                     deltaError>>
      /\ InCall' = InCall
  BY <1>1 DEF Tick, sharedVars, shellVars, InCall
<1>3. \/ cnt < Period - 1 /\ cnt' = cnt + 1 /\ wraps' = wraps
      \/ cnt = Period - 1 /\ cnt' = 0 /\ wraps' = wraps + 1
  BY DEF Tick
<1>4. cnt' \in 0..Period - 1 /\ wraps' \in Nat
  BY <1>1, <1>3
<1>5. TimerTypeOK'
  BY <1>2, <1>4 DEF RaceInv, TimerTypeOK
<1>6. LastReadingAge' /\ LagIsSeen'
  <2>1. PICK g \in 0..sinceSwitch + MaxGap :
          cnt = hiresTimer_lastReading + g
          \/ cnt + Period = hiresTimer_lastReading + g
    BY DEF RaceInv, LastReadingAge
  <2>2. g + 1 \in 0..sinceSwitch' + MaxGap /\ g < Period - 1
    BY <1>1, <1>2, <2>1
  <2>3. \/ cnt' = hiresTimer_lastReading + (g + 1)
        \/ cnt' + Period = hiresTimer_lastReading + (g + 1)
    BY <1>1, <1>3, <2>1, <2>2
  <2>4. LastReadingAge'
    BY <1>2, <2>2, <2>3 DEF LastReadingAge
  <2>5. ASSUME cnt < Period - 1 PROVE LagIsSeen'
    <3>1. cnt' = cnt + 1 /\ wraps' = wraps
      BY <1>1, <1>3, <2>5
    <3>2. CASE hiresTimer_upperWord >= wraps
      BY <1>2, <3>1, <3>2 DEF LagIsSeen
    <3>3. CASE /\ hiresTimer_upperWord + 1 = wraps
               /\ cnt < hiresTimer_lastReading /\ cnt < sinceSwitch
      <4>1. cnt + 1 < hiresTimer_lastReading
        BY <1>1, <2>1, <2>2, <3>3
      <4> QED
        BY <1>1, <1>2, <3>1, <3>3, <4>1 DEF LagIsSeen
    <3> QED
      BY <3>2, <3>3 DEF RaceInv, LagIsSeen
  <2>6. ASSUME cnt = Period - 1 PROVE LagIsSeen'
    <3>1. cnt' = 0 /\ wraps' = wraps + 1
      BY <1>1, <1>3, <2>6
    <3>2. hiresTimer_upperWord >= wraps
      BY <1>1, <2>6 DEF RaceInv, LagIsSeen
    <3>3. hiresTimer_lastReading > 0
      BY <1>1, <2>1, <2>2, <2>6
    <3> QED
      BY <1>1, <1>2, <3>1, <3>2, <3>3 DEF LagIsSeen
  <2> QED
    BY <1>1, <2>4, <2>5, <2>6
<1>7. CallAge'
  <2> SUFFICES ASSUME InCall PROVE CallAge'
    BY <1>2 DEF CallAge
  <2>1. callTicks' = callTicks + 1
    BY <1>2
  <2>2. \/ cnt = current + callTicks /\ wraps = readWraps
        \/ cnt + Period = current + callTicks /\ wraps = readWraps + 1
    BY DEF RaceInv, CallAge
  <2>3. \/ cnt' = current + (callTicks + 1) /\ wraps' = readWraps
        \/ cnt' + Period = current + (callTicks + 1) /\ wraps' = readWraps + 1
    BY <1>1, <1>2, <1>3, <2>1, <2>2
  <2> QED
    BY <1>2, <2>1, <2>3 DEF CallAge
<1>8. StoreInv'
  <2> SUFFICES ASSUME pc[2] = "store" PROVE StoreInv'
    BY <1>2 DEF StoreInv
  <2>1. callTicks' = callTicks + 1
    BY <1>2 DEF InCall
  <2>2. upper + 1 > wraps \/ (upper + 1 = wraps /\ cnt < MaxGap + callTicks)
    BY DEF RaceInv, StoreInv
  <2>3. \/ upper + 1 > wraps'
        \/ upper + 1 = wraps' /\ cnt' < MaxGap + callTicks'
    BY <1>1, <1>2, <1>3, <2>1, <2>2
  <2> QED
    BY <1>2, <2>3 DEF StoreInv
<1>9. ReturnInv' /\ NeverBehind'
  BY <1>2 DEF RaceInv, ReturnInv, NeverBehind
<1> QED
  BY <1>5, <1>6, <1>7, <1>8, <1>9 DEF RaceInv

(* A context switch renews the last reading and carries if the word lags. *)
LEMMA SwitchRace ==
  ASSUME RaceInv, SwitchContext PROVE RaceInv'
<1>1. /\ cnt \in 0..Period - 1 /\ wraps \in Nat /\ hiresTimer_upperWord \in Nat
      /\ hiresTimer_lastReading \in 0..Period - 1 /\ readWraps \in Nat
      /\ MaxGap \in Nat
  BY HiresTimerAssumption DEF RaceInv, TimerTypeOK
<1>2. /\ Carry >= wraps /\ Carry >= hiresTimer_upperWord /\ Carry \in Nat
  BY <1>1 DEF RaceInv, LagIsSeen, Carry
<1>3. /\ hiresTimer_upperWord' = Carry /\ hiresTimer_lastReading' = cnt
      /\ runError' = Carry - wraps /\ sinceSwitch' = 0
      /\ UNCHANGED <<cnt, wraps, pc, current, upper, carried, callTicks,
                     readWraps, timerUsed, startError, deltaError>>
      /\ InCall' = InCall
  BY DEF SwitchContext, clockVars, callVars, shellVars, InCall
<1> HIDE DEF Carry
<1>4. TimerTypeOK'
  BY <1>1, <1>2, <1>3 DEF RaceInv, TimerTypeOK
<1>5. LastReadingAge'
  <2>1. 0 \in 0..sinceSwitch' + MaxGap /\ cnt' = hiresTimer_lastReading' + 0
    BY <1>1, <1>3
  <2> QED
    BY <2>1 DEF LastReadingAge
<1>6. LagIsSeen' /\ NeverBehind'
  BY <1>1, <1>2, <1>3 DEF RaceInv, LagIsSeen, NeverBehind
<1>7. CallAge' /\ StoreInv'
  BY <1>3 DEF RaceInv, CallAge, StoreInv
<1>8. ReturnInv'
  BY <1>1, <1>2, <1>3 DEF RaceInv, ReturnInv
<1> QED
  BY <1>4, <1>5, <1>6, <1>7, <1>8 DEF RaceInv

(* The steps of the shell's call, between which anything may happen. *)
LEMMA CallRace ==
  ASSUME RaceInv, cmd_timer PROVE RaceInv'
<1>1. /\ cnt \in 0..Period - 1 /\ wraps \in Nat /\ hiresTimer_upperWord \in Nat
      /\ hiresTimer_lastReading \in 0..Period - 1 /\ sinceSwitch \in 0..MaxGap
      /\ current \in 0..Period - 1 /\ upper \in Nat /\ callTicks \in 0..MaxGap
      /\ readWraps \in Nat /\ pc \in Phases \X Steps /\ MaxGap \in Nat
      /\ Period \in Nat \ {0} /\ 2 * MaxGap < Period
  BY HiresTimerAssumption DEF RaceInv, TimerTypeOK
<1>2. CASE ReadCounter
  <2>1. /\ pc[2] = "read" /\ pc' = <<pc[1], "compare">>
        /\ current' = cnt /\ readWraps' = wraps /\ carried' = FALSE
        /\ callTicks' = 0
        /\ UNCHANGED <<cnt, wraps, hiresTimer_upperWord, hiresTimer_lastReading,
                       sinceSwitch, runError, upper, timerUsed, startError,
                       deltaError>>
    BY <1>2 DEF ReadCounter, Step, clockVars, sharedVars, kernelVars, shellVars
  <2>2. pc' \in Phases \X Steps /\ pc'[2] = "compare"
    BY <1>1, <2>1 DEF Steps
  <2>3. TimerTypeOK'
    <3>1. /\ runError \in Int /\ timerUsed \in BOOLEAN
          /\ startError \in Int /\ deltaError \in Int
      BY DEF RaceInv, TimerTypeOK
    <3>2. callTicks' \in 0..MaxGap
      BY <1>1, <2>1
    <3> QED
      BY <1>1, <2>1, <2>2, <3>1, <3>2 DEF TimerTypeOK
  <2>4. CallAge'
    BY <1>1, <2>1 DEF CallAge
  <2> QED
    BY <2>1, <2>2, <2>3, <2>4
       DEF RaceInv, LastReadingAge, LagIsSeen, StoreInv, ReturnInv, NeverBehind
<1>3. CASE Compare
  <2>1. /\ pc[2] = "compare"
        /\ \/ current < hiresTimer_lastReading /\ pc' = <<pc[1], "load">>
           \/ current >= hiresTimer_lastReading /\ pc' = <<pc[1], "last">>
        /\ UNCHANGED <<cnt, wraps, hiresTimer_upperWord, hiresTimer_lastReading,
                       sinceSwitch, runError, current, upper, carried, callTicks,
                       readWraps, timerUsed, startError, deltaError>>
    BY <1>3 DEF Compare, Step, clockVars, sharedVars, kernelVars, callVars,
       shellVars
  <2>2. pc' \in Phases \X Steps /\ pc'[2] \in {"load", "last"} /\ InCall
    BY <1>1, <2>1 DEF Steps, InCall
  <2>3. TimerTypeOK'
    BY <1>1, <2>1, <2>2 DEF RaceInv, TimerTypeOK
  <2>4. current >= hiresTimer_lastReading => hiresTimer_upperWord >= readWraps
    <3>1. \/ cnt = current + callTicks /\ wraps = readWraps
          \/ cnt + Period = current + callTicks /\ wraps = readWraps + 1
      BY <2>2 DEF RaceInv, CallAge
    <3> QED
      BY <1>1, <3>1 DEF RaceInv, LagIsSeen
  <2> QED
    BY <2>1, <2>2, <2>3, <2>4
       DEF RaceInv, LastReadingAge, LagIsSeen, CallAge, StoreInv, ReturnInv,
           NeverBehind
<1>4. CASE LoadUpper
  <2>1. /\ pc[2] = "load" /\ pc' = <<pc[1], "store">>
        /\ upper' = hiresTimer_upperWord
        /\ UNCHANGED <<cnt, wraps, hiresTimer_upperWord, hiresTimer_lastReading,
                       sinceSwitch, runError, current, carried, callTicks,
                       readWraps, timerUsed, startError, deltaError>>
    BY <1>4 DEF LoadUpper, Step, clockVars, sharedVars, kernelVars, shellVars
  <2>2. pc' \in Phases \X Steps /\ pc'[2] = "store" /\ InCall
    BY <1>1, <2>1 DEF Steps, InCall
  <2>3. TimerTypeOK'
    BY <1>1, <2>1, <2>2 DEF RaceInv, TimerTypeOK
  <2>4. StoreInv'
    BY <1>1, <2>1 DEF RaceInv, LagIsSeen, StoreInv
  <2> QED
    BY <2>1, <2>2, <2>3, <2>4
       DEF RaceInv, LastReadingAge, LagIsSeen, CallAge, ReturnInv, NeverBehind
<1>5. CASE StoreUpper
  <2>1. /\ pc[2] = "store" /\ pc' = <<pc[1], "last">>
        /\ hiresTimer_upperWord' = upper + 1 /\ upper' = upper + 1
        /\ carried' = TRUE
        /\ UNCHANGED <<cnt, wraps, hiresTimer_lastReading, sinceSwitch, runError,
                       current, callTicks, readWraps, timerUsed, startError,
                       deltaError>>
    BY <1>5 DEF StoreUpper, Step, clockVars, kernelVars, shellVars
  <2>2. pc' \in Phases \X Steps /\ pc'[2] = "last" /\ InCall
    BY <1>1, <2>1 DEF Steps, InCall
  <2>3. TimerTypeOK'
    BY <1>1, <2>1, <2>2 DEF RaceInv, TimerTypeOK
  <2>4. upper + 1 >= wraps
    BY <1>1, <2>1 DEF RaceInv, StoreInv
  <2>5. wraps >= readWraps
    BY <1>1, <2>2 DEF RaceInv, CallAge
  <2>6. LagIsSeen' /\ ReturnInv'
    BY <1>1, <2>1, <2>2, <2>4, <2>5 DEF LagIsSeen, ReturnInv
  <2> QED
    BY <2>1, <2>2, <2>3, <2>6
       DEF RaceInv, LastReadingAge, CallAge, StoreInv, NeverBehind
<1>6. CASE StoreLast
  <2>1. /\ pc[2] = "last" /\ pc' = <<pc[1], "return">>
        /\ hiresTimer_lastReading' = current
        /\ UNCHANGED <<cnt, wraps, hiresTimer_upperWord, sinceSwitch, runError,
                       current, upper, carried, callTicks, readWraps, timerUsed,
                       startError, deltaError>>
    BY <1>6 DEF StoreLast, Step, clockVars, kernelVars, callVars, shellVars
  <2>2. pc' \in Phases \X Steps /\ pc'[2] = "return" /\ InCall
    BY <1>1, <2>1 DEF Steps, InCall
  <2>3. TimerTypeOK'
    BY <1>1, <2>1, <2>2 DEF RaceInv, TimerTypeOK
  <2>4. \/ cnt = current + callTicks /\ wraps = readWraps
        \/ cnt + Period = current + callTicks /\ wraps = readWraps + 1
    BY <2>2 DEF RaceInv, CallAge
  <2>5. LastReadingAge'
    <3>1. callTicks \in 0..sinceSwitch + MaxGap
      BY <1>1
    <3> QED
      BY <2>1, <2>4, <3>1 DEF LastReadingAge
  <2>6. hiresTimer_upperWord >= readWraps
    BY <2>1 DEF RaceInv, ReturnInv
  <2>7. LagIsSeen'
    BY <1>1, <2>1, <2>4, <2>6 DEF RaceInv, LagIsSeen
  <2> QED
    BY <2>1, <2>2, <2>3, <2>5, <2>7
       DEF RaceInv, CallAge, StoreInv, ReturnInv, NeverBehind
<1>7. CASE ReturnTime
  <2>1. PICK u \in {hiresTimer_upperWord} \cup (IF carried THEN {upper} ELSE {}) :
          /\ pc[2] = "return"
          /\ \/ /\ startError' = u - readWraps /\ deltaError' = deltaError
                /\ pc' = <<"second", "read">>
             \/ /\ deltaError' = (u - readWraps) - startError
                /\ startError' = startError
                /\ pc' = <<"first", "read">>
    BY <1>7 DEF ReturnTime
  <2>2. UNCHANGED <<cnt, wraps, hiresTimer_upperWord, hiresTimer_lastReading,
                    sinceSwitch, runError, current, upper, carried, callTicks,
                    readWraps, timerUsed>>
    BY <1>7 DEF ReturnTime, clockVars, sharedVars, kernelVars, callVars
  <2>3. pc' \in Phases \X Steps /\ pc'[2] = "read" /\ ~InCall'
    BY <2>1 DEF Phases, Steps, InCall
  <2>4. u \in Nat /\ u >= readWraps
    BY <1>1, <2>1 DEF RaceInv, ReturnInv
  <2>5. /\ startError' \in Int /\ deltaError' \in Int
        /\ startError' >= 0
    BY <1>1, <2>1, <2>4 DEF RaceInv, TimerTypeOK, NeverBehind
  <2>6. TimerTypeOK'
    BY <1>1, <2>2, <2>3, <2>5 DEF RaceInv, TimerTypeOK
  <2> QED
    BY <2>2, <2>3, <2>5, <2>6
       DEF RaceInv, LastReadingAge, LagIsSeen, CallAge, StoreInv, ReturnInv,
           NeverBehind
<1> QED
  BY <1>2, <1>3, <1>4, <1>5, <1>6, <1>7 DEF cmd_timer

LEMMA NextRaceInv == RaceInv /\ [TimerNext]_timerVars => RaceInv'
<1> SUFFICES ASSUME RaceInv, [TimerNext]_timerVars PROVE RaceInv'
  OBVIOUS
<1>1. CASE UNCHANGED timerVars
  <2>1. UNCHANGED <<cnt, wraps, hiresTimer_upperWord, hiresTimer_lastReading,
                    sinceSwitch, runError, pc, current, upper, carried, callTicks,
                    readWraps, timerUsed, startError, deltaError>>
    BY <1>1 DEF timerVars, clockVars, sharedVars, kernelVars, callVars, shellVars
  <2>2. TimerTypeOK'
    BY <2>1 DEF RaceInv, TimerTypeOK
  <2> QED
    BY <2>1, <2>2 DEF RaceInv, LastReadingAge, LagIsSeen, CallAge, InCall,
       StoreInv, ReturnInv, NeverBehind
<1> QED
  BY <1>1, TickRace, SwitchRace, CallRace DEF TimerNext

LEMMA SpecRaceInv == TimerSpec => []RaceInv
BY InitRaceInv, NextRaceInv, PTL DEF TimerSpec

(* Both words of the time keep their types. *)
THEOREM TypeCorrect == TimerSpec => []TimerTypeOK
<1>1. RaceInv => TimerTypeOK
  BY DEF RaceInv
<1> QED
  BY <1>1, SpecRaceInv, PTL

(* Two readers that preempt each other inside hiresTimer_getTime may both count
   a wrap, but never neither: no time returned is behind the true one. *)
THEOREM ClockNotBehind == TimerSpec => []NeverBehind
<1>1. RaceInv => NeverBehind
  BY DEF RaceInv
<1> QED
  BY <1>1, SpecRaceInv, PTL
=============================================================================
