------------------------------ MODULE HiresTimer ------------------------------
(***************************************************************************)
(* The 64-bit time of hiresTimer_getTime, made of a free-running hardware  *)
(* counter and a software upper word, and its two callers: the kernel,     *)
(* which reads it at every context switch, and the shell command "timer",  *)
(* which measures a delay with it and can be preempted inside the call.    *)
(*                                                                         *)
(* The lower word of a reading is the counter itself, so a reading can be  *)
(* wrong in its upper word only: the errors below count whole periods.     *)
(***************************************************************************)
EXTENDS Integers

CONSTANTS Period,    \* counts of the hardware counter (2^32, 179 seconds)
          MaxGap,    \* counts between context switches, or in one call
          MaxWraps   \* bound: times the counter wraps in a behaviour

(* A task runs at least every half second (the LED tasks), and the shell gets
   its turn again as soon: far less than half a period. *)
ASSUME HiresTimerAssumption ==
  /\ Period \in Nat \ {0}
  /\ MaxGap \in Nat
  /\ 2 * MaxGap < Period
  /\ MaxWraps \in Nat

VARIABLES
  cnt,                     \* the hardware counter
  wraps,                   \* how often it has wrapped (no code sees this)
  hiresTimer_upperWord,
  hiresTimer_lastReading,
  sinceSwitch,             \* counts since the last context switch
  runError,                \* error of the kernel's last reading
  pc,                      \* the next step of the shell command
  current,                 \* its local of that name
  upper,                   \* the register that holds upperWord in ++
  carried,                 \* this call has stored an incremented upper word
  callTicks,               \* counts since the call began
  readWraps,               \* wraps when the call read the counter
  timerUsed,               \* the command is given in this behaviour
  startError,              \* error of the first reading
  deltaError               \* error of the difference reported

clockVars  == <<cnt, wraps>>
sharedVars == <<hiresTimer_upperWord, hiresTimer_lastReading>>
kernelVars == <<sinceSwitch, runError>>
callVars   == <<current, upper, carried, callTicks, readWraps>>
shellVars  == <<timerUsed, startError, deltaError>>
timerVars == <<clockVars, sharedVars, kernelVars, pc, callVars, shellVars>>

(* Steps of hiresTimer_getTime, for the reading before the delay and for the
   one after it. *)
Steps == {"read", "compare", "load", "store", "last", "return"}

InCall == pc[2] # "read"

TimerInit ==
  /\ cnt = 0
  /\ wraps = 0
  /\ hiresTimer_upperWord = 0
  /\ hiresTimer_lastReading = 0
  /\ sinceSwitch = 0
  /\ runError = 0
  /\ pc = <<"first", "read">>
  /\ current = 0
  /\ upper = 0
  /\ carried = FALSE
  /\ callTicks = 0
  /\ readWraps = 0
  /\ timerUsed \in BOOLEAN
  /\ startError = 0
  /\ deltaError = 0

-----------------------------------------------------------------------------
(* The counter *)

Tick ==
  /\ sinceSwitch < MaxGap
  /\ InCall => callTicks < MaxGap
  /\ \/ /\ cnt < Period - 1
        /\ cnt' = cnt + 1
        /\ UNCHANGED wraps
     \/ /\ cnt = Period - 1
        /\ wraps < MaxWraps
        /\ cnt' = 0
        /\ wraps' = wraps + 1
  /\ sinceSwitch' = sinceSwitch + 1
  /\ callTicks' = IF InCall THEN callTicks + 1 ELSE 0
  /\ UNCHANGED <<sharedVars, runError, pc, current, upper, carried, readWraps,
                 shellVars>>

-----------------------------------------------------------------------------
(* The kernel: the whole of hiresTimer_getTime, with interrupts masked. *)

Carry_Inclusive == hiresTimer_upperWord +           \* mutation: <= for <
  (IF cnt <= hiresTimer_lastReading THEN 1 ELSE 0)

Carry_Never == hiresTimer_upperWord + 0 * cnt       \* mutation: no carry

Carry == hiresTimer_upperWord + (IF cnt < hiresTimer_lastReading THEN 1 ELSE 0)

SwitchContext ==
  /\ hiresTimer_upperWord' = Carry
  /\ hiresTimer_lastReading' = cnt
  /\ runError' = Carry - wraps
  /\ sinceSwitch' = 0
  /\ UNCHANGED <<clockVars, pc, callVars, shellVars>>

-----------------------------------------------------------------------------
(* The shell command: hiresTimer_getTime, a delay, and hiresTimer_getTime. *)

Step(here, next) == pc[2] = here /\ pc' = <<pc[1], next>>

ReadCounter ==
  /\ timerUsed
  /\ Step("read", "compare")
  /\ current' = cnt
  /\ readWraps' = wraps
  /\ carried' = FALSE
  /\ callTicks' = 0
  /\ UNCHANGED <<clockVars, sharedVars, kernelVars, upper, shellVars>>

Compare ==
  /\ \/ current < hiresTimer_lastReading /\ Step("compare", "load")
     \/ current >= hiresTimer_lastReading /\ Step("compare", "last")
  /\ UNCHANGED <<clockVars, sharedVars, kernelVars, callVars, shellVars>>

LoadUpper ==
  /\ Step("load", "store")
  /\ upper' = hiresTimer_upperWord
  /\ UNCHANGED <<clockVars, sharedVars, kernelVars, current, carried, callTicks,
                 readWraps, shellVars>>

StoreUpper ==
  /\ Step("store", "last")
  /\ hiresTimer_upperWord' = upper + 1
  /\ upper' = upper + 1
  /\ carried' = TRUE
  /\ UNCHANGED <<clockVars, hiresTimer_lastReading, kernelVars, current,
                 callTicks, readWraps, shellVars>>

StoreLast ==
  /\ Step("last", "return")
  /\ hiresTimer_lastReading' = current
  /\ UNCHANGED <<clockVars, hiresTimer_upperWord, kernelVars, callVars, shellVars>>

(* The upper word returned is read again, or is the register of the increment:
   the variable is not volatile. *)
ReturnTime ==
  \E u \in {hiresTimer_upperWord} \cup (IF carried THEN {upper} ELSE {}) :
    /\ pc[2] = "return"
    /\ \/ /\ pc[1] = "first"
          /\ startError' = u - readWraps
          /\ pc' = <<"second", "read">>
          /\ UNCHANGED <<timerUsed, deltaError>>
       \/ /\ pc[1] = "second"
          /\ deltaError' = (u - readWraps) - startError
          /\ pc' = <<"first", "read">>
          /\ UNCHANGED <<timerUsed, startError>>
    /\ UNCHANGED <<clockVars, sharedVars, kernelVars, callVars>>

cmd_timer ==
  ReadCounter \/ Compare \/ LoadUpper \/ StoreUpper \/ StoreLast \/ ReturnTime

-----------------------------------------------------------------------------
TimerNext == Tick \/ SwitchContext \/ cmd_timer

TimerSpec == TimerInit /\ [][TimerNext]_timerVars

-----------------------------------------------------------------------------
(* Properties *)

Phases == {"first", "second"}

TimerTypeOK ==
  /\ cnt \in 0..Period - 1
  /\ wraps \in Nat
  /\ hiresTimer_upperWord \in Nat
  /\ hiresTimer_lastReading \in 0..Period - 1
  /\ sinceSwitch \in 0..MaxGap
  /\ runError \in Int
  /\ pc \in Phases \X Steps
  /\ current \in 0..Period - 1
  /\ upper \in Nat
  /\ carried \in BOOLEAN
  /\ callTicks \in 0..MaxGap
  /\ readWraps \in Nat
  /\ timerUsed \in BOOLEAN
  /\ startError \in Int
  /\ deltaError \in Int

(* Run-time statistics are exact while nobody gives the command: the carry is
   seen although nothing interrupts when the counter wraps. *)
RunTimeExact == ~timerUsed => runError = 0

(* Neither caller ever reads a time behind the true one, even with the calls
   of the shell preempted and interleaved with context switches: a race can
   add a carry but not lose one. *)
NeverBehind == runError >= 0 /\ startError >= 0

(* command.c: " 10 ms = %d us": the difference of the two readings is the
   time between them. *)
DeltaIsElapsed == deltaError = 0
=============================================================================
