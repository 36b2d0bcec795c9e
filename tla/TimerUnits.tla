------------------------------ MODULE TimerUnits ------------------------------
(***************************************************************************)
(* The conversions between counts of the hires timer and microseconds or   *)
(* milliseconds, and the clock the kernel makes of them: at every context  *)
(* switch it converts the whole time since boot and charges the task that  *)
(* ran with the difference (FreeRTOSConfig.h, run-time statistics).        *)
(*                                                                         *)
(* The decimal factors are powers of Ten and the words are modulo Word, so *)
(* that small values of both meet every overflow in the order the real     *)
(* ones do.                                                                *)
(***************************************************************************)
EXTENDS Integers

CONSTANTS Ten,               \* 10
          Thousand,          \* Ten^3
          Word,              \* 2^32
          SystemCoreClock,   \* 96000000
          CORE_CLOCK_SCALE,  \* 4
          Slices,            \* counts between two context switches: seconds
          MaxTime            \* bound: counts since boot

(* The counter makes a whole number of counts in a microsecond: 24. *)
CountsPerUs == SystemCoreClock \div (CORE_CLOCK_SCALE * Thousand * Thousand)

ASSUME TimerUnitsAssumption ==
  /\ Ten \in Nat \ {0}
  /\ Thousand = Ten * Ten * Ten
  /\ CORE_CLOCK_SCALE \in Nat \ {0}
  /\ CountsPerUs > 0
  /\ SystemCoreClock = CountsPerUs * CORE_CLOCK_SCALE * Thousand * Thousand
  /\ Word \in Nat \ {0} /\ Word % 2 = 0
  /\ SystemCoreClock < Word
  /\ \A slice \in Slices : slice \in Nat \ {0} /\ 2 * slice < Word
  /\ MaxTime \in Nat

VARIABLES
  now,                   \* hiresTimer_getTime: counts since boot
  ulTaskSwitchedInTime,  \* the kernel's time at the last context switch
  switchedAt,            \* and what it was in counts
  charged                \* what the task that ran until then was charged

statsVars == <<now, ulTaskSwitchedInTime, switchedAt, charged>>

-----------------------------------------------------------------------------
(* Arithmetic of the machine: words, signed double words, and the division
   of C, which truncates toward zero. *)

Signed(x, modulus) ==
  LET r == x % modulus IN IF r < modulus \div 2 THEN r ELSE r - modulus

Quotient(a, b) == IF a >= 0 THEN a \div b ELSE -((-a) \div b)

us2ticks_Zero(us) ==      \* mutation: one zero more in the first divisor
  (((Ten * us) % Word)
     * (SystemCoreClock \div (CORE_CLOCK_SCALE * Ten * Thousand)) % Word)
  \div (Ten * Thousand)

us2ticks(us) ==
  (((Ten * us) % Word)
     * (SystemCoreClock \div (CORE_CLOCK_SCALE * Thousand)) % Word)
  \div (Ten * Thousand)

ns2ticks(ns) ==
  (ns * (SystemCoreClock \div (CORE_CLOCK_SCALE * Ten * Thousand)) % Word)
  \div (Ten * Ten * Thousand)

(* "delta_tics -= delta_tics": a negative difference becomes zero. *)
Clamp(delta) == IF delta < 0 THEN 0 ELSE delta

(* The product of the difference, the units in a second and the scale. The
   product is signed and 64 bits wide. *)

Scaled_Narrow(delta, units) ==     \* mutation: a product of 32 bits
  Quotient(Signed(delta * units * CORE_CLOCK_SCALE, Word), SystemCoreClock)

Scaled(delta, units) ==
  Quotient(Signed(delta * units * CORE_CLOCK_SCALE, Word * Word),
           SystemCoreClock)

(* rval is unsigned and the result signed. *)
Convert_NoMinimum(delta, units) ==      \* mutation: rval starts at 0
  Signed(IF Clamp(delta) > SystemCoreClock \div (CORE_CLOCK_SCALE * units)
           THEN Scaled(Clamp(delta), units) % Word ELSE 0, Word)

Convert(delta, units) ==
  Signed(IF Clamp(delta) > SystemCoreClock \div (CORE_CLOCK_SCALE * units)
           THEN Scaled(Clamp(delta), units) % Word ELSE 1, Word)

tics2us(delta) == Convert(delta, Thousand * Thousand)

tics2ms(delta) == Convert(delta, Thousand)

-----------------------------------------------------------------------------
ClockInit ==
  /\ now = 0
  /\ ulTaskSwitchedInTime = 0
  /\ switchedAt = 0
  /\ charged = 0

RunTimeCounter_Signed(time) == tics2us(time) + 0   \* mutation: kept signed

(* portGET_RUN_TIME_COUNTER_VALUE, stored in an unsigned word. *)
RunTimeCounter(time) == tics2us(time) % Word

(* The kernel does not charge a difference that is negative. *)
Charge(total) ==
  IF total > ulTaskSwitchedInTime THEN total - ulTaskSwitchedInTime ELSE 0

ChargeSlice ==
  \E slice \in Slices :
    LET total == RunTimeCounter(now + slice) IN
    /\ now + slice <= MaxTime
    /\ now' = now + slice
    /\ switchedAt' = now
    /\ charged' = Charge(total)
    /\ ulTaskSwitchedInTime' = total

ClockNext == ChargeSlice

ClockSpec == ClockInit /\ [][ClockNext]_statsVars

-----------------------------------------------------------------------------
(* Properties *)

ClockTypeOK ==
  /\ now \in 0..MaxTime
  /\ ulTaskSwitchedInTime \in 0..Word - 1
  /\ switchedAt \in 0..MaxTime
  /\ charged \in 0..Word - 1

(* What the conversions stand for, rounded down. *)
Us(delta) == delta \div CountsPerUs

(* The product of tics2us goes round once in 53 hours, first after 27. *)
Turn(time) ==
  (time * Thousand * Thousand * CORE_CLOCK_SCALE + (Word * Word) \div 2)
  \div (Word * Word)

(* The charge differs from the time the task ran by less than 2 us. *)
AboutRight ==
  LET ran == now - switchedAt IN
  /\ charged * CountsPerUs < ran + CountsPerUs
  /\ charged * CountsPerUs > ran - 2 * CountsPerUs

(* The clock went round in this slice: once in 71 minutes. *)
JustWrapped ==
  ulTaskSwitchedInTime * CountsPerUs < now - switchedAt + 2 * CountsPerUs

(* FreeRTOSConfig.h:174: converting the whole time since boot, and not the
   slice, keeps the statistics right but for single slices: a task is charged
   what it ran, nothing when the 32-bit clock has just gone round, and an
   arbitrary time only when the 64-bit product goes round. *)
ChargedElapsed ==
  AboutRight \/ (charged = 0 /\ JustWrapped) \/ Turn(now) # Turn(switchedAt)

(* "minimum return set to 1 to avoid DIV-BY-ZERO" (hiresTimer.c:52), for every
   difference of two times, in whatever order they are subtracted, of less
   than 36 minutes. Later the result is negative or 0. *)
MinimumIsOne ==
  \A delta \in {now, now - switchedAt, switchedAt - now} :
    Us(delta) < Word \div 2 => tics2us(delta) >= 1 /\ tics2ms(delta) >= 1

(* A difference in milliseconds is the one in microseconds, cut: the two
   functions test different limits and multiply by different factors. *)
MsAgreesWithUs ==
  Us(now) \in Thousand..(Word \div 2 - 1)
    => tics2ms(now) = tics2us(now) \div Thousand

(* A delay in microseconds or nanoseconds is exact, but for a fraction of a
   count, up to the 18 ms or 1.8 ms where the product leaves its word; behind
   that it is too short, never too long. *)
DelayInCounts ==
  LET us == now % Word  ns == now % Word IN
  /\ us2ticks(us) <= us * CountsPerUs
  /\ Ten * us * CountsPerUs * Thousand < Word
       => us2ticks(us) = us * CountsPerUs
  /\ ns2ticks(ns) <= (ns * CountsPerUs) \div Thousand
  /\ (ns * CountsPerUs * Thousand) \div Ten < Word
       => ns2ticks(ns) = (ns * CountsPerUs) \div Thousand

(* Waiting as long as an interval has been measured never waits longer than
   the interval was, and at most one microsecond less. *)
MeasuredDelay ==
  Us(now) >= 1 /\ Ten * Us(now) * CountsPerUs * Thousand < Word
    => now - us2ticks(tics2us(now)) \in 0..CountsPerUs - 1
=============================================================================
