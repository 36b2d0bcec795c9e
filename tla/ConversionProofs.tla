--------------------------- MODULE ConversionProofs ---------------------------
(***************************************************************************)
(* The conversions of the hires timer with the factors of the code, for    *)
(* machine words of every width, and the byte order conversions for octets *)
(* of every width.                                                         *)
(***************************************************************************)
EXTENDS MCConversions, HiresTimerProofs, SequenceTheorems, TLAPS

(* The literals of hiresTimer.c and the clock set by main.c. *)
TheFactors ==
  /\ Ten = 10
  /\ Thousand = 1000
  /\ CORE_CLOCK_SCALE = 4
  /\ SystemCoreClock = 96000000

LEMMA Counts == TheFactors => CountsPerUs = 24
BY SMT DEF TheFactors, CountsPerUs

LEMMA Remainder ==
  ASSUME NEW p \in Nat, NEW m \in Nat \ {0}
  PROVE  /\ p % m \in 0 .. m - 1
         /\ p % m <= p
         /\ p < m => p % m = p
<1>1. p = m * (p \div m) + (p % m) /\ p % m \in 0 .. m - 1 /\ p \div m \in Nat
  BY SMT
<1>2. m * (p \div m) \in Nat
  BY SMT, <1>1
<1> QED
  BY SMT, <1>1, <1>2

(* A word is long enough for the clock, so a double word for the product. *)
LEMMA Wide ==
  ASSUME TheFactors, NEW d \in Nat, d \div 24 < Word \div 2
  PROVE  /\ Word \in Nat \ {0} /\ 96000000 < Word
         /\ 4000000 * d < (Word * Word) \div 2
         /\ d \div 24 < Word
<1>1. Word \in Nat \ {0} /\ 96000000 < Word /\ Word % 2 = 0
  BY SMT, TimerUnitsAssumption DEF TheFactors
<1>2. PICK h \in Nat : Word = 2 * h
  BY SMT, <1>1
<1>3. (Word * Word) \div 2 = h * Word
  BY SMT, <1>2
<1>4. d \div 24 <= h - 1 /\ d < 24 * h
  BY SMT, <1>2
<1>5. 4000000 * d < 96000000 * h
  BY SMT, <1>4
<1>6. 96000000 * h <= Word * h
  BY SMT, <1>1, <1>2
<1>7. Word * h = h * Word /\ h * Word \in Nat
  BY SMT, <1>1
<1> QED
  BY SMT, <1>1, <1>2, <1>3, <1>4, <1>5, <1>6, <1>7

LEMMA SmallSigned ==
  ASSUME NEW x \in Nat, NEW m \in Nat \ {0}, x < m \div 2
  PROVE  Signed(x, m) = x
<1>1. x < m
  BY SMT
<1>2. x % m = x
  BY SMT, <1>1, Remainder
<1> QED
  BY SMT, <1>2 DEF Signed

(* tics2us and tics2ms where the microseconds are a positive int32_t. *)
LEMMA Conversions ==
  ASSUME TheFactors, NEW d \in Int, d \div 24 < Word \div 2
  PROVE  /\ tics2us(d) = IF d > 24 THEN d \div 24 ELSE 1
         /\ tics2ms(d) = IF d > 24000 THEN d \div 24000 ELSE 1
<1> DEFINE c == IF d < 0 THEN 0 ELSE d
<1>1. c \in Nat /\ c \div 24 < Word \div 2 /\ Clamp(d) = c
  BY SMT, TimerUnitsAssumption DEF Clamp, TheFactors
<1> HIDE DEF c
<1>2. /\ Word \in Nat \ {0} /\ 96000000 < Word
      /\ 4000000 * c < (Word * Word) \div 2
      /\ c \div 24 < Word
  BY SMT, <1>1, Wide
<1>3. Word * Word \in Nat \ {0}
  BY SMT, <1>2
<1>4. c * (Thousand * Thousand) * CORE_CLOCK_SCALE = 4000000 * c
  BY SMT, <1>1 DEF TheFactors
<1>5. c * Thousand * CORE_CLOCK_SCALE = 4000 * c
  BY SMT, <1>1 DEF TheFactors
<1>6. /\ Signed(4000000 * c, Word * Word) = 4000000 * c
      /\ Signed(4000 * c, Word * Word) = 4000 * c
  BY SMT, <1>1, <1>2, <1>3, SmallSigned
<1>7. /\ Scaled(c, Thousand * Thousand) = c \div 24
      /\ Scaled(c, Thousand) = c \div 24000
  BY SMT, <1>1, <1>4, <1>5, <1>6 DEF Scaled, Quotient, TheFactors
<1>8. /\ (c \div 24) % Word = c \div 24
      /\ (c \div 24000) % Word = c \div 24000
      /\ Signed(c \div 24, Word) = c \div 24
      /\ Signed(c \div 24000, Word) = c \div 24000
      /\ Signed(1, Word) = 1
  <2>1. /\ c \div 24 \in Nat /\ c \div 24000 \in Nat
        /\ c \div 24000 <= c \div 24
        /\ 1 < Word \div 2
    BY SMT, <1>1, <1>2
  <2>2. c \div 24000 < Word /\ c \div 24000 < Word \div 2 /\ Word \div 2 \in Nat
    BY SMT, <1>1, <1>2, <2>1
  <2> DEFINE a == c \div 24  b == c \div 24000
  <2>3. /\ a \in Nat /\ a < Word /\ a < Word \div 2
        /\ b \in Nat /\ b < Word /\ b < Word \div 2
    BY SMT, <1>1, <1>2, <2>1, <2>2
  <2> HIDE DEF a, b
  <2>4. a % Word = a /\ b % Word = b
    <3>1. Word \in Nat \ {0}
      BY SMT, <1>2
    <3> QED
      BY Zenon, <2>3, <3>1, Remainder
  <2>5. Signed(a, Word) = a /\ Signed(b, Word) = b
    BY SMT, <1>2, <2>3, SmallSigned
  <2>6. Signed(1, Word) = 1
    BY SMT, <1>2, <2>1, SmallSigned
  <2> QED
    BY SMT, <2>4, <2>5, <2>6 DEF a, b
<1>9. /\ SystemCoreClock \div (CORE_CLOCK_SCALE * (Thousand * Thousand)) = 24
      /\ SystemCoreClock \div (CORE_CLOCK_SCALE * Thousand) = 24000
  BY SMT DEF TheFactors
<1>10. tics2us(d) = IF c > 24 THEN c \div 24 ELSE 1
  BY SMT, <1>1, <1>7, <1>8, <1>9 DEF tics2us, Convert
<1>11. tics2ms(d) = IF c > 24000 THEN c \div 24000 ELSE 1
  BY SMT, <1>1, <1>7, <1>8, <1>9 DEF tics2ms, Convert
<1> QED
  BY SMT, <1>10, <1>11 DEF c

(* us2ticks and ns2ticks as far as their products are words, and beyond. *)
LEMMA Delays ==
  ASSUME TheFactors, NEW t \in Nat
  PROVE  /\ us2ticks(t) <= t * 24
         /\ 240000 * t < Word => us2ticks(t) = t * 24
         /\ ns2ticks(t) <= (t * 24) \div 1000
         /\ 2400 * t < Word => ns2ticks(t) = (t * 24) \div 1000
<1>1. Word \in Nat \ {0}
  BY SMT, TimerUnitsAssumption
<1> DEFINE w == (10 * t) % Word
<1>2. w \in Nat /\ w <= 10 * t /\ (10 * t < Word => w = 10 * t)
  <2> DEFINE p == 10 * t
  <2>1. p \in Nat
    BY SMT
  <2> HIDE DEF p
  <2>2. p % Word \in Nat /\ p % Word <= p /\ (p < Word => p % Word = p)
    BY SMT, <1>1, <2>1, Remainder
  <2> QED
    BY SMT, <2>2 DEF p
<1>3. us2ticks(t) = ((w * 24000) % Word) \div 10000
  BY SMT DEF us2ticks, TheFactors
<1> HIDE DEF w
<1>4. ns2ticks(t) = ((t * 2400) % Word) \div 100000
  BY SMT DEF ns2ticks, TheFactors
<1> DEFINE u == (w * 24000) % Word  n == (t * 2400) % Word
<1>5. u \in Nat /\ u <= w * 24000 /\ (w * 24000 < Word => u = w * 24000)
  <2> DEFINE p == w * 24000
  <2>1. p \in Nat
    BY SMT, <1>2
  <2> HIDE DEF p
  <2>2. p % Word \in Nat /\ p % Word <= p /\ (p < Word => p % Word = p)
    BY SMT, <1>1, <2>1, Remainder
  <2> QED
    BY SMT, <2>2 DEF p
<1>6. n \in Nat /\ n <= t * 2400 /\ (t * 2400 < Word => n = t * 2400)
  <2> DEFINE p == t * 2400
  <2>1. p \in Nat
    BY SMT
  <2> HIDE DEF p
  <2>2. p % Word \in Nat /\ p % Word <= p /\ (p < Word => p % Word = p)
    BY SMT, <1>1, <2>1, Remainder
  <2> QED
    BY SMT, <2>2 DEF p
<1> HIDE DEF u, n
<1>7. us2ticks(t) = u \div 10000 /\ ns2ticks(t) = n \div 100000
  BY SMT, <1>3, <1>4 DEF u, n
<1> QED
  BY SMT, <1>1, <1>2, <1>5, <1>6, <1>7

-----------------------------------------------------------------------------
(* Properties of the clock *)

LEMMA SignedType ==
  ASSUME NEW x \in Int, NEW m \in Nat \ {0}
  PROVE  Signed(x, m) \in Int
BY SMT DEF Signed

LEMMA CounterType ==
  ASSUME TheFactors, NEW d \in Nat
  PROVE  RunTimeCounter(d) \in 0 .. Word - 1
<1>1. Word \in Nat \ {0}
  BY SMT, TimerUnitsAssumption
<1> DEFINE p == d * (Thousand * Thousand) * CORE_CLOCK_SCALE
           q == Scaled(d, Thousand * Thousand)
           r == IF d > SystemCoreClock \div (CORE_CLOCK_SCALE * (Thousand * Thousand))
                  THEN q % Word ELSE 1
<1>2. p \in Int
  BY SMT DEF TheFactors
<1>3. Signed(p, Word * Word) \in Int
  <2>1. Word * Word \in Nat \ {0}
    BY SMT, <1>1
  <2> QED
    BY SMT, <1>2, <2>1, SignedType
<1>4. q \in Int
  <2> DEFINE g == Signed(p, Word * Word)
  <2>1. q = Quotient(g, 96000000)
    BY SMT DEF Scaled, TheFactors
  <2> HIDE DEF g
  <2>2. g \in Int
    BY SMT, <1>3 DEF g
  <2> QED
    BY SMT, <2>1, <2>2 DEF Quotient
<1> HIDE DEF q
<1>5. r \in Int
  BY SMT, <1>1, <1>4
<1>6. Clamp(d) = d
  BY SMT DEF Clamp
<1>7. tics2us(d) = Signed(r, Word)
  BY SMT, <1>6 DEF tics2us, Convert, q
<1> HIDE DEF r
<1>8. tics2us(d) \in Int
  BY SMT, <1>1, <1>5, <1>7, SignedType
<1> QED
  BY SMT, <1>1, <1>8 DEF RunTimeCounter

LEMMA InitClockType == TheFactors /\ ClockInit => ClockTypeOK
BY SMT, TimerUnitsAssumption DEF ClockInit, ClockTypeOK

LEMMA NextClockType ==
  ASSUME TheFactors, ClockTypeOK, [ClockNext]_statsVars
  PROVE  ClockTypeOK'
<1>1. CASE ClockNext
  <2>1. PICK slice \in Slices :
          LET total == RunTimeCounter(now + slice) IN
          /\ now + slice <= MaxTime
          /\ now' = now + slice
          /\ switchedAt' = now
          /\ charged' = Charge(total)
          /\ ulTaskSwitchedInTime' = total
    BY SMT, <1>1 DEF ClockNext, ChargeSlice
  <2> DEFINE total == RunTimeCounter(now + slice)
  <2>2. slice \in Nat /\ MaxTime \in Nat /\ now \in Nat /\ Word \in Nat \ {0}
    BY SMT, TimerUnitsAssumption DEF ClockTypeOK
  <2>3. total \in 0 .. Word - 1
    BY SMT, <2>2, CounterType
  <2> HIDE DEF total
  <2>4. Charge(total) \in 0 .. Word - 1
    BY SMT, <2>2, <2>3 DEF Charge, ClockTypeOK
  <2> QED
    BY SMT, <2>1, <2>2, <2>3, <2>4 DEF total, ClockTypeOK
<1>2. CASE UNCHANGED statsVars
  BY SMT, <1>2 DEF statsVars, ClockTypeOK
<1> QED
  BY SMT, <1>1, <1>2

(* The kernel's clock and its charges are words, for words of every width. *)
THEOREM ClockTyped == TheFactors => (ClockSpec => []ClockTypeOK)
<1> SUFFICES ASSUME TheFactors PROVE ClockSpec => []ClockTypeOK
  OBVIOUS
<1>1. ClockInit => ClockTypeOK
  BY SMT, InitClockType
<1>2. ClockTypeOK /\ [ClockNext]_statsVars => ClockTypeOK'
  BY SMT, NextClockType
<1> QED
  BY <1>1, <1>2, PTL DEF ClockSpec

(* A conversion of any difference below 36 minutes is at least 1, as the
   comment of tics2us promises. *)
THEOREM MinimumKept == TheFactors => (ClockSpec => []MinimumIsOne)
<1> SUFFICES ASSUME TheFactors PROVE ClockSpec => []MinimumIsOne
  OBVIOUS
<1>1. ClockTypeOK => MinimumIsOne
  <2> SUFFICES ASSUME ClockTypeOK,
                      NEW d \in {now, now - switchedAt, switchedAt - now},
                      Us(d) < Word \div 2
               PROVE  tics2us(d) >= 1 /\ tics2ms(d) >= 1
    BY SMT DEF MinimumIsOne
  <2>1. d \in Int
    BY SMT DEF ClockTypeOK
  <2>2. d \div 24 < Word \div 2
    BY SMT, Counts DEF Us
  <2> QED
    BY SMT, <2>1, <2>2, Conversions
<1> QED
  BY <1>1, ClockTyped, PTL

(* Milliseconds agree with microseconds. *)
THEOREM UnitsAgree == TheFactors => (ClockSpec => []MsAgreesWithUs)
<1> SUFFICES ASSUME TheFactors PROVE ClockSpec => []MsAgreesWithUs
  OBVIOUS
<1>1. ClockTypeOK => MsAgreesWithUs
  <2> SUFFICES ASSUME ClockTypeOK, Us(now) \in Thousand..(Word \div 2 - 1)
               PROVE  tics2ms(now) = tics2us(now) \div Thousand
    BY SMT DEF MsAgreesWithUs
  <2>1. now \in Nat /\ Word \in Nat
    BY SMT, TimerUnitsAssumption DEF ClockTypeOK
  <2>2. now \div 24 < Word \div 2 /\ now \div 24 >= 1000
    BY SMT, <2>1, Counts DEF Us, TheFactors
  <2>3. now >= 24000
    BY SMT, <2>1, <2>2
  <2>4. /\ tics2us(now) = now \div 24
        /\ tics2ms(now) = now \div 24000
    <3>1. /\ tics2us(now) = IF now > 24 THEN now \div 24 ELSE 1
          /\ tics2ms(now) = IF now > 24000 THEN now \div 24000 ELSE 1
      BY SMT, <2>1, <2>2, Conversions
    <3> QED
      BY SMT, <2>1, <2>3, <3>1
  <2> QED
    BY SMT, <2>1, <2>3, <2>4 DEF TheFactors
<1> QED
  BY <1>1, ClockTyped, PTL

(* Delays are exact below the overflow of their product and never too long. *)
THEOREM DelaysNeverLong == TheFactors => (ClockSpec => []DelayInCounts)
<1> SUFFICES ASSUME TheFactors PROVE ClockSpec => []DelayInCounts
  OBVIOUS
<1>1. ClockTypeOK => DelayInCounts
  <2> SUFFICES ASSUME ClockTypeOK PROVE DelayInCounts
    OBVIOUS
  <2> DEFINE t == now % Word
  <2>1. t \in Nat
    BY SMT, TimerUnitsAssumption DEF ClockTypeOK
  <2> HIDE DEF t
  <2>2. Ten * t * CountsPerUs * Thousand = 240000 * t
    BY SMT, <2>1, Counts DEF TheFactors
  <2>3. (t * CountsPerUs * Thousand) \div Ten = 2400 * t
    BY SMT, <2>1, Counts DEF TheFactors
  <2>4. t * CountsPerUs = t * 24 /\ Thousand = 1000
    BY SMT, Counts DEF TheFactors
  <2> QED
    BY SMT, <2>1, <2>2, <2>3, <2>4, Delays DEF DelayInCounts, t
<1> QED
  BY <1>1, ClockTyped, PTL

(* A measured interval waited for again is not exceeded, and missed by less
   than a microsecond. *)
THEOREM MeasuredDelayKept == TheFactors => (ClockSpec => []MeasuredDelay)
<1> SUFFICES ASSUME TheFactors PROVE ClockSpec => []MeasuredDelay
  OBVIOUS
<1>1. ClockTypeOK => MeasuredDelay
  <2> SUFFICES ASSUME ClockTypeOK, Us(now) >= 1,
                      Ten * Us(now) * CountsPerUs * Thousand < Word
               PROVE  now - us2ticks(tics2us(now)) \in 0..CountsPerUs - 1
    BY SMT DEF MeasuredDelay
  <2>1. now \in Nat /\ Word \in Nat /\ CountsPerUs = 24
    BY SMT, TimerUnitsAssumption, Counts DEF ClockTypeOK
  <2> DEFINE u == now \div 24
  <2>2. u \in Nat /\ u >= 1 /\ Us(now) = u
    BY SMT, <2>1 DEF Us
  <2> HIDE DEF u
  <2>3. 240000 * u < Word
    BY SMT, <2>1, <2>2 DEF TheFactors
  <2>4. u < Word \div 2
    BY SMT, <2>1, <2>2, <2>3
  <2>5. tics2us(now) = u
    <3>1. tics2us(now) = IF now > 24 THEN now \div 24 ELSE 1
      BY SMT, <2>1, <2>4, Conversions DEF u
    <3> QED
      BY SMT, <2>1, <2>2, <3>1 DEF u
  <2>6. us2ticks(u) = u * 24
    BY SMT, <2>2, <2>3, Delays
  <2> QED
    BY SMT, <2>1, <2>5, <2>6 DEF u
<1> QED
  BY <1>1, ClockTyped, PTL

-----------------------------------------------------------------------------
(* The charges *)

LEMMA Division ==
  ASSUME NEW x \in Int, NEW m \in Nat \ {0}
  PROVE  /\ x \div m \in Int /\ x % m \in 0 .. m - 1
         /\ x = m * (x \div m) + (x % m)
BY SMT

LEMMA DivisionUnique ==
  ASSUME NEW x \in Int, NEW m \in Nat \ {0}, NEW a \in Int, NEW r \in 0 .. m - 1,
         x = m * a + r
  PROVE  x \div m = a /\ x % m = r
<1>1. /\ x \div m \in Int /\ x % m \in 0 .. m - 1
      /\ x = m * (x \div m) + (x % m)
  BY Zenon, Division
<1> DEFINE b == x \div m  k == x % m
<1>2. b \in Int /\ k \in 0 .. m - 1 /\ m * (b - a) = r - k
  BY SMT, <1>1
<1> HIDE DEF b, k
<1>3. ~(b - a >= 1)
  <2> SUFFICES ASSUME b - a >= 1 PROVE FALSE
    BY SMT
  <2>1. m * (b - a) >= m
    BY SMT, <1>2
  <2> QED
    BY SMT, <1>2, <2>1
<1>4. ~(b - a <= -1)
  <2> SUFFICES ASSUME b - a <= -1 PROVE FALSE
    BY SMT
  <2>1. m * (b - a) <= -m
    BY SMT, <1>2
  <2> QED
    BY SMT, <1>2, <2>1
<1>5. b = a
  BY SMT, <1>2, <1>3, <1>4
<1>6. m * (b - a) = 0
  BY SMT, <1>2, <1>5
<1> QED
  BY SMT, <1>2, <1>5, <1>6 DEF b, k

(* A signed value is the number without the turns completed. *)
LEMMA SignedTurn ==
  ASSUME NEW x \in Nat, NEW m \in Nat \ {0}, NEW h \in Nat, m = 2 * h
  PROVE  Signed(x, m) = x - m * ((x + h) \div m)
<1> DEFINE a == x \div m  r == x % m
<1>1. m \div 2 = h
  BY SMT
<1>2. a \in Int /\ r \in 0 .. m - 1 /\ x = m * a + r
  <2>1. /\ x \div m \in Int /\ x % m \in 0 .. m - 1
        /\ x = m * (x \div m) + (x % m)
    <3>1. x \in Int
      BY SMT
    <3> QED
      BY Zenon, <3>1, Division
  <2> QED
    BY Zenon, <2>1
<1>3. Signed(x, m) = IF r < h THEN r ELSE r - m
  BY SMT, <1>1 DEF Signed
<1> HIDE DEF a, r
<1>4. CASE r < h
  <2>1. x + h = m * a + (r + h) /\ r + h \in 0 .. m - 1 /\ x + h \in Int
    BY SMT, <1>2, <1>4
  <2>2. (x + h) \div m = a
    BY SMT, <1>2, <2>1, DivisionUnique
  <2> QED
    BY SMT, <1>2, <1>3, <1>4, <2>2
<1>5. CASE ~(r < h)
  <2>1. m * (a + 1) = m * a + m
    BY SMT, <1>2
  <2>2. /\ x + h = m * (a + 1) + (r - h) /\ r - h \in 0 .. m - 1
        /\ x + h \in Int /\ a + 1 \in Int
    BY SMT, <1>2, <1>5, <2>1
  <2>3. (x + h) \div m = a + 1
    BY SMT, <2>2, DivisionUnique
  <2> QED
    BY SMT, <1>2, <1>3, <1>5, <2>1, <2>3
<1> QED
  BY SMT, <1>4, <1>5

(* Signed and then taken as a word again, it is the same word. *)
LEMMA SignedWord ==
  ASSUME NEW x \in Int, NEW m \in Nat \ {0}
  PROVE  Signed(x, m) % m = x % m
<1> DEFINE r == x % m
<1>1. r \in 0 .. m - 1
  BY SMT
<1>2. Signed(x, m) = r \/ Signed(x, m) = r - m
  BY SMT DEF Signed
<1> HIDE DEF r
<1>3. r = m * 0 + r /\ r - m = m * (-1) + r
  BY SMT, <1>1
<1>4. r % m = r
  BY SMT, <1>1, <1>3, DivisionUnique
<1>5. (r - m) % m = r
  BY SMT, <1>1, <1>3, DivisionUnique
<1> QED
  BY SMT, <1>2, <1>4, <1>5 DEF r

(* The reading of the kernel: the signed product, cut toward zero. *)
Product(t) == Signed(4000000 * t, Word * Word)

LEMMA Reading ==
  ASSUME TheFactors, NEW t \in Nat
  PROVE  /\ Product(t) = 4000000 * t - Word * Word * Turn(t)
         /\ Turn(t) \in Int
         /\ Product(t) \in Int
         /\ t <= 24 => RunTimeCounter(t) = 1
         /\ t > 24 =>
              RunTimeCounter(t) = Quotient(Product(t), 96000000) % Word
<1>1. Word \in Nat \ {0} /\ Word % 2 = 0 /\ 96000000 < Word
  BY SMT, TimerUnitsAssumption DEF TheFactors
<1>2. PICK g \in Nat : Word = 2 * g
  BY SMT, <1>1
<1> DEFINE m == Word * Word  h == g * Word
<1>3. m \in Nat \ {0} /\ h \in Nat /\ m = 2 * h /\ m \div 2 = h
  BY SMT, <1>1, <1>2
<1>4. t * Thousand * Thousand * CORE_CLOCK_SCALE = 4000000 * t
  BY SMT DEF TheFactors
<1>5. Turn(t) = (4000000 * t + h) \div m
  BY SMT, <1>3, <1>4 DEF Turn
<1> HIDE DEF m, h
<1>6. Turn(t) \in Int
  BY SMT, <1>3, <1>5
<1>7. Product(t) = 4000000 * t - m * Turn(t)
  <2> DEFINE x == 4000000 * t
  <2>1. x \in Nat
    BY SMT
  <2>2. Product(t) = Signed(x, m)
    BY SMT DEF Product, m
  <2> HIDE DEF x
  <2>3. Signed(x, m) = x - m * ((x + h) \div m)
    BY Zenon, <1>3, <2>1, SignedTurn
  <2> QED
    BY SMT, <1>5, <2>2, <2>3 DEF x
<1>8. Product(t) \in Int
  BY SMT, <1>3, <1>6, <1>7
<1>9. Scaled(t, Thousand * Thousand) = Quotient(Product(t), 96000000)
  <2>1. t * (Thousand * Thousand) * CORE_CLOCK_SCALE = 4000000 * t
    BY SMT DEF TheFactors
  <2> QED
    BY SMT, <2>1 DEF Scaled, Product, TheFactors
<1> DEFINE q == Quotient(Product(t), 96000000)
<1>10. q \in Int
  BY SMT, <1>8 DEF Quotient
<1>11. Clamp(t) = t
  BY SMT DEF Clamp
<1>12. SystemCoreClock \div (CORE_CLOCK_SCALE * (Thousand * Thousand)) = 24
  BY SMT DEF TheFactors
<1> HIDE DEF q
<1>13. tics2us(t) = Signed(IF t > 24 THEN q % Word ELSE 1, Word)
  BY SMT, <1>9, <1>11, <1>12 DEF tics2us, Convert, q
<1>14. q % Word \in 0 .. Word - 1
  BY SMT, <1>1, <1>10
<1>15. (q % Word) % Word = q % Word
  <2> DEFINE r == q % Word
  <2>1. r \in 0 .. Word - 1
    BY <1>14
  <2> HIDE DEF r
  <2>2. r \in Nat /\ r < Word
    BY SMT, <1>1, <2>1
  <2>3. Word \in Nat \ {0}
    BY SMT, <1>1
  <2>4. r % Word = r
    BY Zenon, <2>2, <2>3, Remainder
  <2> QED
    BY SMT, <2>4 DEF r
<1>16. 1 % Word = 1
  BY SMT, <1>1, Remainder
<1> DEFINE r == IF t > 24 THEN q % Word ELSE 1
<1>17. r \in Int /\ r % Word = r
  BY SMT, <1>1, <1>14, <1>15, <1>16
<1> HIDE DEF r
<1>18. RunTimeCounter(t) = r
  <2>1. Word \in Nat \ {0}
    BY SMT, <1>1
  <2>2. Signed(r, Word) % Word = r % Word
    BY Zenon, <1>17, <2>1, SignedWord
  <2>3. tics2us(t) = Signed(r, Word)
    BY SMT, <1>13 DEF r
  <2> QED
    BY SMT, <1>17, <2>2, <2>3 DEF RunTimeCounter
<1>19. /\ t <= 24 => RunTimeCounter(t) = 1
       /\ t > 24 => RunTimeCounter(t) = Quotient(Product(t), 96000000) % Word
  BY SMT, <1>18 DEF r, q
<1> QED
  BY SMT, <1>6, <1>7, <1>8, <1>19 DEF m

(* Between two times in the same turn of the product the quotients differ by
   the time in between, to within two microseconds. *)
LEMMA Quotients ==
  ASSUME TheFactors, NEW t \in Nat, NEW slice \in Nat \ {0},
         Turn(t + slice) = Turn(t),
         NEW a, a = Quotient(Product(t), 96000000),
         NEW b, b = Quotient(Product(t + slice), 96000000)
  PROVE  /\ a \in Int /\ b \in Int /\ b >= a
         /\ (b - a) * 24 < slice + 24
         /\ (b - a) * 24 > slice - 48
<1> DEFINE x == Product(t)  y == Product(t + slice)
<1>1. x \in Int /\ y \in Int /\ y = x + 4000000 * slice
  <2> DEFINE k == Word * Word * Turn(t)
  <2>1. t + slice \in Nat
    BY SMT
  <2>2. x = 4000000 * t - k /\ x \in Int
    BY SMT, Reading
  <2>3. y = 4000000 * (t + slice) - k /\ y \in Int
    BY SMT, <2>1, Reading
  <2>4. k \in Int
    <3>1. Word \in Int /\ Turn(t) \in Int
      BY SMT, TimerUnitsAssumption, Reading
    <3> QED
      BY SMT, <3>1
  <2> HIDE DEF k, x, y
  <2> QED
    BY SMT, <2>2, <2>3, <2>4
<1> HIDE DEF x, y
<1>2. a = Quotient(x, 96000000) /\ b = Quotient(y, 96000000)
  BY SMT DEF x, y
<1>3. /\ a \in Int /\ b \in Int
      /\ x >= 0 => 96000000 * a <= x /\ x < 96000000 * a + 96000000
      /\ x < 0 => 96000000 * a >= x /\ x > 96000000 * a - 96000000
      /\ y >= 0 => 96000000 * b <= y /\ y < 96000000 * b + 96000000
      /\ y < 0 => 96000000 * b >= y /\ y > 96000000 * b - 96000000
  BY SMT, <1>1, <1>2 DEF Quotient
<1> QED
  BY SMT, <1>1, <1>3

(* What ChargeSlice charges for a slice. *)
LEMMA SliceCharge ==
  ASSUME TheFactors, NEW t \in Nat, NEW slice \in Slices, NEW before, NEW after,
         before = RunTimeCounter(t) \/ (t = 0 /\ before = 0),
         after = RunTimeCounter(t + slice),
         Turn(t + slice) = Turn(t),
         NEW c, c = IF after > before THEN after - before ELSE 0
  PROVE  \/ c * 24 < slice + 24 /\ c * 24 > slice - 48
         \/ c = 0 /\ after * 24 < slice + 48
<1>1. /\ slice \in Nat \ {0} /\ 2 * slice < Word /\ Word \in Nat \ {0}
      /\ 96000000 < Word /\ t + slice \in Nat
  BY SMT, TimerUnitsAssumption DEF TheFactors
<1> DEFINE a == Quotient(Product(t), 96000000)
           b == Quotient(Product(t + slice), 96000000)
<1>2. /\ a \in Int /\ b \in Int /\ b >= a
      /\ (b - a) * 24 < slice + 24
      /\ (b - a) * 24 > slice - 48
  BY SMT, <1>1, Quotients
<1>3. /\ t <= 24 => RunTimeCounter(t) = 1
      /\ t > 24 => RunTimeCounter(t) = a % Word
  BY SMT, Reading
<1>4. /\ t + slice <= 24 => after = 1
      /\ t + slice > 24 => after = b % Word
  BY SMT, <1>1, Reading
<1> HIDE DEF a, b
<1>5. CASE t > 24
  <2>1. before = a % Word /\ after = b % Word
    BY SMT, <1>1, <1>3, <1>4, <1>5
  <2> DEFINE i == a \div Word  j == b \div Word
  <2>2. /\ i \in Int /\ before \in 0 .. Word - 1 /\ a = Word * i + before
    <3>1. Word \in Nat \ {0}
      BY SMT, <1>1
    <3>2. a \in Int
      BY SMT, <1>2
    <3> QED
      BY Zenon, <2>1, <3>1, <3>2, Division
  <2>3. /\ j \in Int /\ after \in 0 .. Word - 1 /\ b = Word * j + after
    <3>1. Word \in Nat \ {0}
      BY SMT, <1>1
    <3>2. b \in Int
      BY SMT, <1>2
    <3> QED
      BY Zenon, <2>1, <3>1, <3>2, Division
  <2> HIDE DEF i, j
  <2>4. b - a < Word /\ b - a >= 0
    BY SMT, <1>1, <1>2
  <2>5. b - a = Word * (j - i) + (after - before)
    BY SMT, <1>1, <2>2, <2>3
  <2>6. j - i = 0 \/ j - i = 1
    <3>1. ~(j - i >= 2)
      <4> SUFFICES ASSUME j - i >= 2 PROVE FALSE
        BY SMT
      <4>1. Word * (j - i) >= 2 * Word
        BY SMT, <1>1, <2>2, <2>3
      <4> QED
        BY SMT, <1>1, <2>2, <2>3, <2>4, <2>5, <4>1
    <3>2. ~(j - i <= -1)
      <4> SUFFICES ASSUME j - i <= -1 PROVE FALSE
        BY SMT
      <4>1. Word * (j - i) <= -Word
        BY SMT, <1>1, <2>2, <2>3
      <4> QED
        BY SMT, <1>1, <2>2, <2>3, <2>4, <2>5, <4>1
    <3> QED
      BY SMT, <2>2, <2>3, <3>1, <3>2
  <2>7. b - a = after - before \/ b - a = Word + (after - before)
    <3>1. j - i = 0 => Word * (j - i) = 0
      BY SMT, <1>1
    <3>2. j - i = 1 => Word * (j - i) = Word
      BY SMT, <1>1
    <3> QED
      BY SMT, <1>1, <2>5, <2>6, <3>1, <3>2, <2>2, <2>3
  <2> QED
    BY SMT, <1>1, <1>2, <2>2, <2>3, <2>4, <2>7
<1>6. CASE t <= 24
  <2>1. before \in {0, 1} /\ (before = 0 => t = 0)
    BY SMT, <1>3, <1>6
  <2>2. CASE t + slice <= 24
    BY SMT, <1>1, <1>4, <2>1, <2>2
  <2>3. CASE t + slice > 24
    <3>1. (t + slice) \div 24 < Word \div 2
      BY SMT, <1>1, <1>6
    <3>2. after = (t + slice) \div 24
      <4>1. tics2us(t + slice) = (t + slice) \div 24
        BY SMT, <1>1, <2>3, <3>1, Conversions
      <4> DEFINE z == (t + slice) \div 24
      <4>2. z \in Nat /\ z < Word /\ Word \in Nat \ {0}
        BY SMT, <1>1, <3>1
      <4> HIDE DEF z
      <4>3. z % Word = z
        BY Zenon, <4>2, Remainder
      <4> QED
        BY SMT, <4>1, <4>3 DEF RunTimeCounter, z
    <3> QED
      BY SMT, <1>1, <1>6, <2>1, <2>3, <3>2
  <2> QED
    BY SMT, <1>1, <2>2, <2>3
<1> QED
  BY SMT, <1>5, <1>6

(* The kernel holds the reading of the last context switch. *)
ChargeInv ==
  /\ ClockTypeOK
  /\ \/ ulTaskSwitchedInTime = RunTimeCounter(now)
     \/ now = 0 /\ ulTaskSwitchedInTime = 0
  /\ ChargedElapsed

LEMMA InitChargeInv ==
  ASSUME TheFactors, ClockInit
  PROVE  ChargeInv
<1>1. CountsPerUs = 24
  BY Counts
<1>2. AboutRight
  BY SMT, <1>1 DEF ClockInit, AboutRight
<1> QED
  BY <1>2, InitClockType DEF ClockInit, ChargeInv, ChargedElapsed

LEMMA NextChargeInv ==
  ASSUME TheFactors, ChargeInv, [ClockNext]_statsVars
  PROVE  ChargeInv'
<1>1. ClockTypeOK'
  BY NextClockType DEF ChargeInv
<1>2. CASE ClockNext
  <2>1. PICK slice \in Slices :
          /\ now' = now + slice
          /\ switchedAt' = now
          /\ charged' = Charge(RunTimeCounter(now + slice))
          /\ ulTaskSwitchedInTime' = RunTimeCounter(now + slice)
    BY SMT, <1>2 DEF ClockNext, ChargeSlice
  <2>2. ulTaskSwitchedInTime' = RunTimeCounter(now)'
    BY SMT, <2>1 DEF RunTimeCounter, tics2us, Convert, Scaled, Signed, Quotient, Clamp
  <2>3. now \in Nat /\ slice \in Nat
    BY SMT, TimerUnitsAssumption DEF ChargeInv, ClockTypeOK
  <2>4. CASE Turn(now + slice) = Turn(now)
    <3>1. \/ charged' * 24 < slice + 24 /\ charged' * 24 > slice - 48
          \/ charged' = 0 /\ ulTaskSwitchedInTime' * 24 < slice + 48
      BY SMT, <2>1, <2>3, <2>4, SliceCharge DEF ChargeInv, Charge
    <3>2. CountsPerUs = 24 /\ now' - switchedAt' = slice
      BY SMT, <2>1, <2>3, Counts
    <3>3. AboutRight' \/ (charged = 0 /\ JustWrapped)'
      BY SMT, <3>1, <3>2 DEF AboutRight, JustWrapped
    <3> QED
      BY <1>1, <2>2, <3>3 DEF ChargeInv, ChargedElapsed
  <2>5. CASE Turn(now + slice) # Turn(now)
    <3>1. Turn(now)' # Turn(switchedAt)'
      BY <2>1, <2>5 DEF Turn
    <3> QED
      BY <1>1, <2>2, <3>1 DEF ChargeInv, ChargedElapsed
  <2> QED
    BY <2>4, <2>5
<1>3. CASE UNCHANGED statsVars
  BY <1>1, <1>3 DEF statsVars, ChargeInv, ChargedElapsed, AboutRight, JustWrapped,
     RunTimeCounter, Turn
<1> QED
  BY <1>2, <1>3

(* The run-time statistics are right for as long as the machine runs, but for
   the single slices in which the word or the product goes round. *)
THEOREM ChargesRight == TheFactors => (ClockSpec => []ChargedElapsed)
<1> SUFFICES ASSUME TheFactors PROVE ClockSpec => []ChargedElapsed
  OBVIOUS
<1>1. ClockInit => ChargeInv
  BY InitChargeInv
<1>2. ChargeInv /\ [ClockNext]_statsVars => ChargeInv'
  BY NextChargeInv
<1>3. ChargeInv => ChargedElapsed
  BY DEF ChargeInv
<1> QED
  BY <1>1, <1>2, <1>3, PTL DEF ClockSpec

-----------------------------------------------------------------------------
(* Byte order *)

LEMMA ShlBits ==
  ASSUME NEW x \in SUBSET Int, NEW k \in Nat, NEW i \in Int
  PROVE  i \in Shl(x, k) <=> i - k * Bits \in x
<1> DEFINE s == k * Bits
<1>1. s \in Int
  BY EndianAssumption
<1>2. i \in {j + s : j \in x} <=> i - s \in x
  <2> HIDE DEF s
  <2>1. ASSUME i \in {j + s : j \in x} PROVE i - s \in x
    BY <1>1, <2>1
  <2>2. ASSUME i - s \in x PROVE i \in {j + s : j \in x}
    <3>1. (i - s) + s = i
      BY <1>1
    <3> QED
      BY <2>2, <3>1
  <2> QED
    BY <2>1, <2>2
<1> QED
  BY <1>2 DEF Shl

LEMMA ShrBits ==
  ASSUME NEW x \in SUBSET Int, NEW k \in Nat, NEW i \in Int
  PROVE  i \in Shr(x, k) <=> i >= 0 /\ i + k * Bits \in x
<1> DEFINE s == k * Bits
<1>1. s \in Int
  BY EndianAssumption
<1>2. i \in {j - s : j \in {h \in x : h >= s}} <=> i >= 0 /\ i + s \in x
  <2> HIDE DEF s
  <2>1. ASSUME i \in {j - s : j \in {h \in x : h >= s}} PROVE i >= 0 /\ i + s \in x
    <3>1. PICK j \in x : j >= s /\ i = j - s
      BY <2>1
    <3> QED
      BY <1>1, <3>1
  <2>2. ASSUME i >= 0 /\ i + s \in x PROVE i \in {j - s : j \in {h \in x : h >= s}}
    <3>1. (i + s) - s = i /\ i + s >= s
      BY <1>1, <2>2
    <3> QED
      BY <2>2, <3>1
  <2> QED
    BY <2>1, <2>2
<1> QED
  BY <1>2 DEF Shr

LEMMA Swap32Bits ==
  ASSUME NEW x \in SUBSET Int, NEW i \in Int
  PROVE  i \in bswap32(x) <=>
           \/ i \in Octet(3) /\ i - 3 * Bits \in x
           \/ i \in Octet(2) /\ i - 1 * Bits \in x
           \/ i \in Octet(1) /\ i + 1 * Bits \in x
           \/ i \in Octet(0) /\ i + 3 * Bits \in x
<1>1. i \in Octet(1) => i >= 0
  BY EndianAssumption DEF Octet
<1>2. i \in Octet(0) => i >= 0
  BY EndianAssumption DEF Octet
<1> QED
  BY <1>1, <1>2, ShlBits, ShrBits DEF bswap32

LEMMA Swap32Type ==
  ASSUME NEW x \in SUBSET Octets(4)
  PROVE  bswap32(x) \in SUBSET Octets(4)
BY EndianAssumption DEF bswap32, Octet, Octets

LEMMA Swap32Twice ==
  ASSUME NEW x \in SUBSET Octets(4)
  PROVE  bswap32(bswap32(x)) = x
<1>1. x \in SUBSET Int /\ bswap32(x) \in SUBSET Int /\ bswap32(bswap32(x)) \in SUBSET Int
  BY Swap32Type DEF Octets
<1>2. ASSUME NEW i \in Int PROVE i \in bswap32(bswap32(x)) <=> i \in x
  <2>1. Bits \in Nat \ {0}
    BY EndianAssumption
  <2>2. i \in Octet(3) => i - 3 * Bits \in Octet(0) /\ (i - 3 * Bits) + 3 * Bits = i
    BY <2>1 DEF Octet
  <2>3. i \in Octet(2) => i - 1 * Bits \in Octet(1) /\ (i - 1 * Bits) + 1 * Bits = i
    BY <2>1 DEF Octet
  <2>4. i \in Octet(1) => i + 1 * Bits \in Octet(2) /\ (i + 1 * Bits) - 1 * Bits = i
    BY <2>1 DEF Octet
  <2>5. i \in Octet(0) => i + 3 * Bits \in Octet(3) /\ (i + 3 * Bits) - 3 * Bits = i
    BY <2>1 DEF Octet
  <2>6. i \in x => i \in Octet(0) \/ i \in Octet(1) \/ i \in Octet(2) \/ i \in Octet(3)
    BY <2>1 DEF Octet, Octets
  <2> QED
    BY <1>1, <2>1, <2>2, <2>3, <2>4, <2>5, <2>6, Swap32Bits DEF Octet
<1> QED
  BY <1>1, <1>2

LEMMA ShiftType ==
  ASSUME NEW x \in SUBSET Int, NEW k \in Nat
  PROVE  Shl(x, k) \in SUBSET Int
<1> DEFINE s == k * Bits
<1>1. s \in Int
  BY EndianAssumption
<1>2. {i + s : i \in x} \in SUBSET Int
  <2> HIDE DEF s
  <2> QED
    BY <1>1
<1> QED
  BY <1>2 DEF Shl

(* An octet cut out and put back. *)
LEMMA OctetBack ==
  ASSUME NEW x \in SUBSET Int, NEW k \in Nat
  PROVE  Shl(Shr(x, k) \cap Octet(0), k) = x \cap Octet(k)
<1>1. /\ Shl(Shr(x, k) \cap Octet(0), k) \in SUBSET Int
      /\ x \cap Octet(k) \in SUBSET Int
      /\ Shr(x, k) \cap Octet(0) \in SUBSET Int
      /\ k * Bits \in Int /\ Bits \in Nat \ {0}
  <2>1. Bits \in Nat \ {0} /\ k * Bits \in Int
    BY EndianAssumption
  <2>2. Octet(0) \in SUBSET Int
    BY <2>1 DEF Octet
  <2> QED
    BY <2>1, <2>2, ShiftType
<1>2. ASSUME NEW i \in Int
      PROVE  i \in Shl(Shr(x, k) \cap Octet(0), k) <=> i \in x \cap Octet(k)
  <2> DEFINE j == i - k * Bits
  <2>1. j \in Int /\ j + k * Bits = i
    BY <1>1
  <2>2. j \in Octet(0) <=> i \in Octet(k)
    BY <1>1 DEF Octet
  <2>3. j \in Octet(0) => j >= 0
    BY <1>1 DEF Octet
  <2>4. i \in Shl(Shr(x, k) \cap Octet(0), k) <=> j \in Shr(x, k) \cap Octet(0)
    BY <1>1, ShlBits
  <2>5. j \in Shr(x, k) <=> j >= 0 /\ j + k * Bits \in x
    BY <2>1, ShrBits
  <2> HIDE DEF j
  <2> QED
    BY <2>1, <2>2, <2>3, <2>4, <2>5
<1> QED
  BY <1>1, <1>2

LEMMA Word16 == Octets(2) = Octet(1) \cup Octet(0) /\ Octets(2) \in SUBSET Nat
BY EndianAssumption DEF Octet, Octets

LEMMA Word32 ==
  /\ Octets(4) = Octet(3) \cup Octet(2) \cup Octet(1) \cup Octet(0)
  /\ Octets(4) \in SUBSET Nat
BY EndianAssumption DEF Octet, Octets

LEMMA Decode16 ==
  ASSUME NEW x \in SUBSET Octets(2)
  PROVE  be16dec(be16enc(x)) = x /\ le16dec(le16enc(x)) = x
<1>1. Shl(Shr(x, 1) \cap Octet(0), 1) = x \cap Octet(1)
  BY OctetBack, Word16
<1> QED
  BY <1>1, Word16 DEF be16dec, be16enc, le16dec, le16enc

LEMMA Decode32 ==
  ASSUME NEW m, NEW x \in SUBSET Octets(4)
  PROVE  /\ be32dec(m, be32enc(x)) = Widened(m, x)
         /\ le32dec(m, le32enc(x)) = Widened(m, x)
<1>1. /\ Shl(Shr(x, 1) \cap Octet(0), 1) = x \cap Octet(1)
      /\ Shl(Shr(x, 2) \cap Octet(0), 2) = x \cap Octet(2)
      /\ Shl(Shr(x, 3) \cap Octet(0), 3) = x \cap Octet(3)
  BY OctetBack, Word32
<1> QED
  BY <1>1, Word32 DEF be32dec, be32enc, le32dec, le32enc

(* The two halves of a double word. *)
LEMMA Halves ==
  ASSUME NEW x \in SUBSET Octets(8)
  PROVE  /\ x \cap Octets(4) \in SUBSET Octets(4)
         /\ Shr(x, 4) \in SUBSET Octets(4)
         /\ Shl(Shr(x, 4), 4) \cup (x \cap Octets(4)) = x
<1>1. Bits \in Nat \ {0} /\ x \in SUBSET Nat /\ Shr(x, 4) \in SUBSET Int
  BY EndianAssumption DEF Octets, Shr
<1>2. Shr(x, 4) \in SUBSET Octets(4)
  BY <1>1 DEF Octets, Shr
<1>3. Shl(Shr(x, 4), 4) \in SUBSET Int
  BY <1>1 DEF Shl
<1>4. ASSUME NEW i \in Int
      PROVE  i \in Shl(Shr(x, 4), 4) \cup (x \cap Octets(4)) <=> i \in x
  <2>1. i \in Shl(Shr(x, 4), 4) <=> i - 4 * Bits \in Shr(x, 4)
    BY <1>1, ShlBits
  <2>2. i - 4 * Bits \in Shr(x, 4)
          <=> i - 4 * Bits >= 0 /\ (i - 4 * Bits) + 4 * Bits \in x
    BY <1>1, ShrBits
  <2>3. (i - 4 * Bits) + 4 * Bits = i
    BY <1>1
  <2> QED
    BY <1>1, <2>1, <2>2, <2>3 DEF Octets
<1>5. /\ x \in SUBSET Int
      /\ Shl(Shr(x, 4), 4) \cup (x \cap Octets(4)) \in SUBSET Int
  <2>1. x \in SUBSET Int
    BY <1>1
  <2> QED
    BY <1>3, <2>1
<1>6. Shl(Shr(x, 4), 4) \cup (x \cap Octets(4)) = x
  BY Zenon, <1>4, <1>5
<1> QED
  BY <1>2, <1>6

LEMMA Joined ==
  ASSUME NEW a \in SUBSET Octets(4), NEW b \in SUBSET Octets(4)
  PROVE  /\ (Shl(a, 4) \cup b) \cap Octets(4) = b
         /\ Shr(Shl(a, 4) \cup b, 4) = a
         /\ Shl(a, 4) \cup b \in SUBSET Octets(8)
<1> DEFINE u == Shl(a, 4) \cup b
<1>1. Bits \in Nat \ {0} /\ a \in SUBSET Int /\ b \in SUBSET Int
  BY EndianAssumption DEF Octets
<1>2. u \in SUBSET Int
  BY <1>1, ShiftType
<1>3. \A i \in Int : i \in u <=> i - 4 * Bits \in a \/ i \in b
  BY <1>1, ShlBits
<1>4. Shr(u, 4) \in SUBSET Int
  BY <1>1, <1>2 DEF Shr
<1>5. \A i \in Int : i \in Shr(u, 4) <=> i >= 0 /\ i + 4 * Bits \in u
  BY <1>2, ShrBits
<1> HIDE DEF u
<1>6. u \cap Octets(4) = b
  <2>1. ASSUME NEW i \in Int PROVE i \in u /\ i \in Octets(4) <=> i \in b
    BY <1>1, <1>3 DEF Octets
  <2> QED
    BY <1>1, <1>2, <2>1
<1>7. Shr(u, 4) = a
  <2>1. ASSUME NEW i \in Int PROVE i \in Shr(u, 4) <=> i \in a
    <3>1. i + 4 * Bits \in Int /\ (i + 4 * Bits) - 4 * Bits = i
      BY <1>1
    <3>2. i + 4 * Bits \in u <=> i \in a \/ i + 4 * Bits \in b
      BY <1>3, <3>1
    <3>3. i >= 0 => ~(i + 4 * Bits \in b)
      BY <1>1 DEF Octets
    <3>4. i \in a => i >= 0
      BY <1>1 DEF Octets
    <3> QED
      BY <1>5, <3>2, <3>3, <3>4
  <2> QED
    BY Zenon, <1>1, <1>4, <2>1
<1>8. u \in SUBSET Octets(8)
  <2>1. ASSUME NEW i \in Int, i \in u PROVE i \in Octets(8)
    BY <1>1, <1>3, <2>1 DEF Octets
  <2> QED
    BY <1>2, <2>1
<1> QED
  BY <1>6, <1>7, <1>8 DEF u

LEMMA Swap64Twice ==
  ASSUME NEW x \in SUBSET Octets(8)
  PROVE  bswap64(bswap64(x)) = x
<1> DEFINE high == Shr(x, 4)  low == x \cap Octets(4)
           u == Shl(bswap32(low), 4) \cup bswap32(high)
<1>1. /\ high \in SUBSET Octets(4) /\ low \in SUBSET Octets(4)
      /\ Shl(high, 4) \cup low = x
  BY Halves
<1>2. bswap64(x) = u
  BY DEF bswap64
<1> HIDE DEF high, low
<1>3. bswap32(high) \in SUBSET Octets(4) /\ bswap32(low) \in SUBSET Octets(4)
  BY <1>1, Swap32Type
<1>4. u \cap Octets(4) = bswap32(high) /\ Shr(u, 4) = bswap32(low)
  BY <1>3, Joined
<1>5. bswap32(bswap32(high)) = high /\ bswap32(bswap32(low)) = low
  BY <1>1, Swap32Twice
<1> HIDE DEF u
<1> QED
  BY <1>1, <1>2, <1>4, <1>5 DEF bswap64

LEMMA Swap16Twice ==
  ASSUME NEW x \in SUBSET Octets(2)
  PROVE  bswap16(bswap16(x)) = x
<1>1. Bits \in Nat \ {0}
  BY EndianAssumption
<1>2. /\ x \in SUBSET Int
      /\ bswap16(x) \in SUBSET Octets(2) /\ bswap16(x) \in SUBSET Int
  BY <1>1 DEF bswap16, Octet, Octets
<1>3. bswap16(bswap16(x)) \in SUBSET Int
  BY <1>1 DEF bswap16, Octet
<1>4. ASSUME NEW y \in SUBSET Int, NEW i \in Int
      PROVE  i \in bswap16(y) <=>
               \/ i \in Octet(1) /\ i - 1 * Bits \in y
               \/ i \in Octet(0) /\ i + 1 * Bits \in y
  <2>1. i \in Octet(0) => i >= 0
    BY <1>1 DEF Octet
  <2> QED
    BY <2>1, ShlBits, ShrBits DEF bswap16
<1>5. ASSUME NEW i \in Int PROVE i \in bswap16(bswap16(x)) <=> i \in x
  <2>1. i \in Octet(1) => i - 1 * Bits \in Octet(0) /\ (i - 1 * Bits) + 1 * Bits = i
    BY <1>1 DEF Octet
  <2>2. i \in Octet(0) => i + 1 * Bits \in Octet(1) /\ (i + 1 * Bits) - 1 * Bits = i
    BY <1>1 DEF Octet
  <2>3. i \in x => i \in Octet(0) \/ i \in Octet(1)
    BY <1>1 DEF Octet, Octets
  <2> QED
    BY <1>1, <1>2, <1>4, <2>1, <2>2, <2>3 DEF Octet
<1> QED
  BY Zenon, <1>2, <1>3, <1>5

(* A word converted to the order of the wire and back is the same word, on
   every platform, whether the macros of the byte orders are defined or not. *)
THEOREM ConvertedBack ==
  ASSUME NEW n \in {2, 4, 8}, NEW w, NEW m, NEW x \in SUBSET Octets(n)
  PROVE  hto(m, w, n, hto(m, w, n, x)) = x
<1>1. bswap(n, bswap(n, x)) = x
  <2>1. CASE n = 2
    BY <2>1, Swap16Twice DEF bswap
  <2>2. CASE n = 4
    BY <2>2, Swap32Twice DEF bswap
  <2>3. CASE n = 8
    BY <2>3, Swap64Twice DEF bswap
  <2> QED
    BY <2>1, <2>2, <2>3
<1> QED
  BY <1>1 DEF hto

LEMMA Parts ==
  ASSUME NEW a, NEW b, NEW c, NEW d, NEW e, NEW f, NEW g, NEW h
  PROVE  LET p == <<a, b, c, d>> \o <<e, f, g, h>> IN
         /\ p[1] = a /\ p[2] = b /\ p[3] = c /\ p[4] = d
         /\ SubSeq(p, 5, 8)[1] = e /\ SubSeq(p, 5, 8)[2] = f
         /\ SubSeq(p, 5, 8)[3] = g /\ SubSeq(p, 5, 8)[4] = h
OBVIOUS

(* The sign of the upper half is shifted out. *)
LEMMA WidenedHigh ==
  ASSUME NEW m, NEW a \in SUBSET Octets(4)
  PROVE  Shl(Widened(m, a), 4) \cap Octets(8) = Shl(a, 4)
<1> DEFINE u == Shl(Widened(m, a), 4) \cap Octets(8)
<1>1. /\ Bits \in Nat \ {0} /\ a \in SUBSET Int /\ Octets(8) \in SUBSET Int
      /\ Widened(m, a) \in SUBSET Int
  BY EndianAssumption DEF Octets, Widened
<1>2. u \in SUBSET Int /\ Shl(a, 4) \in SUBSET Int
  BY <1>1, ShiftType
<1>3. ASSUME NEW i \in Int PROVE i \in u <=> i \in Shl(a, 4)
  <2>1. i \in Shl(a, 4) <=> i - 4 * Bits \in a
    BY <1>1, ShlBits
  <2>2. i \in u <=> i - 4 * Bits \in Widened(m, a) /\ i \in Octets(8)
    BY <1>1, ShlBits
  <2>3. i - 4 * Bits \in a => i \in Octets(8)
    BY <1>1 DEF Octets
  <2>4. i \in Octets(8) => ~(i - 4 * Bits \in Octets(8) \ Octets(4))
    BY <1>1 DEF Octets
  <2> QED
    BY <2>1, <2>2, <2>3, <2>4 DEF Widened
<1> HIDE DEF u
<1>4. u = Shl(a, 4)
  BY Zenon, <1>2, <1>3
<1> QED
  BY <1>4 DEF u

LEMMA Decode64 ==
  ASSUME NEW m, NEW x \in SUBSET Octets(8), m.lp64 => 4 * Bits - 1 \notin x
  PROVE  be64dec(m, be64enc(x)) = x /\ le64dec(m, le64enc(x)) = x
<1> DEFINE high == Shr(x, 4)  low == x \cap Octets(4)
<1>1. /\ high \in SUBSET Octets(4) /\ low \in SUBSET Octets(4)
      /\ Shl(high, 4) \cup low = x
  BY Halves
<1>5. m.lp64 => 4 * Bits - 1 \notin low
  OBVIOUS
<1> HIDE DEF high, low
<1>6. Widened(m, low) = low
  BY <1>5 DEF Widened
<1>7. Shl(Widened(m, high), 4) \cap Octets(8) = Shl(high, 4)
  BY <1>1, WidenedHigh
<1>2. /\ be32dec(m, be32enc(high)) = Widened(m, high)
      /\ be32dec(m, be32enc(low)) = low
      /\ le32dec(m, le32enc(high)) = Widened(m, high)
      /\ le32dec(m, le32enc(low)) = low
  BY <1>1, <1>6, Decode32
<1>3. be64dec(m, be64enc(x)) = Shl(high, 4) \cup low
  <2> DEFINE p == be32enc(high) \o be32enc(low)
  <2>1. be32dec(m, p) = be32dec(m, be32enc(high))
    BY Parts DEF be32dec, be32enc
  <2>2. be32dec(m, SubSeq(p, 5, 8)) = be32dec(m, be32enc(low))
    <3> DEFINE q == SubSeq(p, 5, 8)
    <3>1. /\ q[1] = be32enc(low)[1] /\ q[2] = be32enc(low)[2]
          /\ q[3] = be32enc(low)[3] /\ q[4] = be32enc(low)[4]
      BY Parts DEF be32enc
    <3> HIDE DEF q
    <3>2. be32dec(m, q) = be32dec(m, be32enc(low))
      BY <3>1 DEF be32dec
    <3> QED
      BY <3>2 DEF q
  <2> QED
    BY <1>2, <1>7, <2>1, <2>2 DEF be64dec, be64enc, high, low
<1>4. le64dec(m, le64enc(x)) = Shl(high, 4) \cup low
  <2> DEFINE p == le32enc(low) \o le32enc(high)
  <2>1. le32dec(m, p) = le32dec(m, le32enc(low))
    BY Parts DEF le32dec, le32enc
  <2>2. le32dec(m, SubSeq(p, 5, 8)) = le32dec(m, le32enc(high))
    <3> DEFINE q == SubSeq(p, 5, 8)
    <3>1. /\ q[1] = le32enc(high)[1] /\ q[2] = le32enc(high)[2]
          /\ q[3] = le32enc(high)[3] /\ q[4] = le32enc(high)[4]
      BY Parts DEF le32enc
    <3> HIDE DEF q
    <3>2. le32dec(m, q) = le32dec(m, le32enc(high))
      BY <3>1 DEF le32dec
    <3> QED
      BY <3>2 DEF q
  <2> QED
    BY <1>2, <1>7, <2>1, <2>2 DEF le64dec, le64enc, high, low
<1> QED
  BY <1>1, <1>3, <1>4

(* A word encoded is decoded again, in both orders and all sizes, for octets
   of every width, unless a 64-bit long takes its bit 31 for a sign. *)
THEOREM DecodeEncode ==
  ASSUME NEW n \in {2, 4, 8}, NEW w \in {"big", "little"},
         NEW x \in SUBSET Octets(n),
         NEW m, m.lp64 => 4 * Bits - 1 \notin x
  PROVE  dec(m, w, n, enc(w, n, x)) = x
<1>1. CASE n = 2
  BY <1>1, Decode16 DEF dec, enc
<1>2. CASE n = 4
  BY <1>2, Decode32 DEF dec, enc, Widened
<1>3. CASE n = 8
  BY <1>3, Decode64 DEF dec, enc
<1> QED
  BY <1>1, <1>2, <1>3

-----------------------------------------------------------------------------
(* Octets in a memory *)

(* An octet cut out, bit by bit. *)
LEMMA OctetOf ==
  ASSUME NEW x \in SUBSET Int, NEW k \in Nat
  PROVE  /\ Shr(x, k) \cap Octet(0) = {j \in Octet(0) : j + k * Bits \in x}
         /\ Shr(x, k) \cap Octet(0) \in SUBSET Octet(0)
<1>1. Octet(0) \in SUBSET Int /\ \A j \in Octet(0) : j >= 0
  BY EndianAssumption DEF Octet
<1>2. ASSUME NEW j \in Octet(0) PROVE j \in Shr(x, k) <=> j + k * Bits \in x
  BY <1>1, ShrBits
<1> QED
  BY <1>1, <1>2

(* Each bit of a word is in one of its octets. *)
LEMMA OctetCover ==
  ASSUME NEW n \in {1, 2, 4, 8}, NEW b \in Octets(n)
  PROVE  \E k \in 0..n - 1 : b \in Octet(k)
<1>1. Bits \in Nat \ {0}
  BY EndianAssumption
<1>2. CASE n = 1
  <2>1. b \in Octet(0)
    BY <1>1, <1>2 DEF Octets, Octet
  <2> QED
    BY <1>2, <2>1
<1>3. CASE n = 2
  <2>1. b \in Octet(0) \/ b \in Octet(1)
    BY <1>1, <1>3 DEF Octets, Octet
  <2> QED
    BY <1>3, <2>1
<1>4. CASE n = 4
  <2>1. b \in Octet(0) \/ b \in Octet(1) \/ b \in Octet(2) \/ b \in Octet(3)
    BY <1>1, <1>4 DEF Octets, Octet
  <2> QED
    BY <1>4, <2>1
<1>5. CASE n = 8
  <2>1. \/ b \in Octet(0) \/ b \in Octet(1) \/ b \in Octet(2) \/ b \in Octet(3)
        \/ b \in Octet(4) \/ b \in Octet(5) \/ b \in Octet(6) \/ b \in Octet(7)
    BY <1>1, <1>5 DEF Octets, Octet
  <2> QED
    BY <1>5, <2>1
<1> QED
  BY <1>2, <1>3, <1>4, <1>5

(* Swapping turns the octets of a word round. *)
LEMMA Swap16Bits ==
  ASSUME NEW x \in SUBSET Int, NEW i \in Int
  PROVE  i \in bswap16(x) <=>
           \/ i \in Octet(1) /\ i - 1 * Bits \in x
           \/ i \in Octet(0) /\ i + 1 * Bits \in x
<1>1. i \in Octet(0) => i >= 0
  BY EndianAssumption DEF Octet
<1> QED
  BY <1>1, ShlBits, ShrBits DEF bswap16

LEMMA SwapBits16 ==
  ASSUME NEW x \in SUBSET Octets(2), NEW j \in Octet(0)
  PROVE  /\ j \in bswap16(x) <=> j + 1 * Bits \in x
         /\ j + 1 * Bits \in bswap16(x) <=> j \in x
<1>1. Bits \in Nat \ {0} /\ j \in Int /\ j >= 0 /\ j < Bits /\ x \in SUBSET Int
  BY EndianAssumption DEF Octet, Octets
<1>2. (j + 1 * Bits) - 1 * Bits = j /\ j + 1 * Bits \in Int
  BY <1>1
<1>3. /\ j \notin Octet(1)
      /\ j + 1 * Bits \in Octet(1) /\ j + 1 * Bits \notin Octet(0)
  BY <1>1 DEF Octet
<1> QED
  BY <1>1, <1>2, <1>3, Swap16Bits

LEMMA SwapBits32 ==
  ASSUME NEW x \in SUBSET Octets(4), NEW j \in Octet(0)
  PROVE  /\ j \in bswap32(x) <=> j + 3 * Bits \in x
         /\ j + 1 * Bits \in bswap32(x) <=> j + 2 * Bits \in x
         /\ j + 2 * Bits \in bswap32(x) <=> j + 1 * Bits \in x
         /\ j + 3 * Bits \in bswap32(x) <=> j \in x
<1>1. Bits \in Nat \ {0} /\ j \in Int /\ j >= 0 /\ j < Bits /\ x \in SUBSET Int
  BY EndianAssumption DEF Octet, Octets
<1>2. /\ (j + 1 * Bits) + 1 * Bits = j + 2 * Bits /\ j + 1 * Bits \in Int
      /\ (j + 2 * Bits) - 1 * Bits = j + 1 * Bits /\ j + 2 * Bits \in Int
      /\ (j + 3 * Bits) - 3 * Bits = j /\ j + 3 * Bits \in Int
  BY <1>1
<1>3. /\ j \notin Octet(1) /\ j \notin Octet(2) /\ j \notin Octet(3)
      /\ j + 1 * Bits \in Octet(1) /\ j + 1 * Bits \notin Octet(0)
      /\ j + 1 * Bits \notin Octet(2) /\ j + 1 * Bits \notin Octet(3)
      /\ j + 2 * Bits \in Octet(2) /\ j + 2 * Bits \notin Octet(0)
      /\ j + 2 * Bits \notin Octet(1) /\ j + 2 * Bits \notin Octet(3)
      /\ j + 3 * Bits \in Octet(3) /\ j + 3 * Bits \notin Octet(0)
      /\ j + 3 * Bits \notin Octet(1) /\ j + 3 * Bits \notin Octet(2)
  BY <1>1 DEF Octet
<1> QED
  BY <1>1, <1>2, <1>3, Swap32Bits

LEMMA Swap64Bits ==
  ASSUME NEW x \in SUBSET Octets(8), NEW i \in Octets(4)
  PROVE  /\ i \in bswap64(x) <=> i \in bswap32(Shr(x, 4))
         /\ i + 4 * Bits \in bswap64(x) <=> i \in bswap32(x \cap Octets(4))
<1>1. Bits \in Nat \ {0} /\ i \in Int /\ i >= 0 /\ i < 4 * Bits
  BY EndianAssumption DEF Octets
<1>2. /\ bswap32(Shr(x, 4)) \in SUBSET Octets(4)
      /\ bswap32(x \cap Octets(4)) \in SUBSET Octets(4)
  BY Halves, Swap32Type
<1> DEFINE a == bswap32(x \cap Octets(4))
           b == bswap32(Shr(x, 4))
<1>3. bswap64(x) = Shl(a, 4) \cup b
  BY DEF bswap64
<1> HIDE DEF a, b
<1>4. /\ a \in SUBSET Octets(4) /\ b \in SUBSET Octets(4)
      /\ a \in SUBSET Int
  <2>1. a \in SUBSET Octets(4) /\ b \in SUBSET Octets(4)
    BY <1>2 DEF a, b
  <2> QED
    BY <2>1 DEF Octets
<1>5. \A k \in Int : k \in Shl(a, 4) <=> k - 4 * Bits \in a
  BY <1>4, ShlBits
<1>6. /\ i - 4 * Bits \in Int /\ i - 4 * Bits \notin Octets(4)
      /\ i + 4 * Bits \in Int /\ i + 4 * Bits \notin Octets(4)
      /\ (i + 4 * Bits) - 4 * Bits = i
  BY <1>1 DEF Octets
<1>7. i - 4 * Bits \notin a /\ i + 4 * Bits \notin b
  BY Zenon, <1>4, <1>6
<1>8. i \notin Shl(a, 4) /\ (i + 4 * Bits \in Shl(a, 4) <=> i \in a)
  BY <1>1, <1>5, <1>6, <1>7
<1>9. /\ i \in bswap64(x) <=> i \in b
      /\ i + 4 * Bits \in bswap64(x) <=> i \in a
  BY <1>3, <1>7, <1>8
<1> QED
  BY <1>9 DEF a, b

LEMMA SwapBits64 ==
  ASSUME NEW x \in SUBSET Octets(8), NEW j \in Octet(0)
  PROVE  /\ j \in bswap64(x) <=> j + 7 * Bits \in x
         /\ j + 1 * Bits \in bswap64(x) <=> j + 6 * Bits \in x
         /\ j + 2 * Bits \in bswap64(x) <=> j + 5 * Bits \in x
         /\ j + 3 * Bits \in bswap64(x) <=> j + 4 * Bits \in x
         /\ j + 4 * Bits \in bswap64(x) <=> j + 3 * Bits \in x
         /\ j + 5 * Bits \in bswap64(x) <=> j + 2 * Bits \in x
         /\ j + 6 * Bits \in bswap64(x) <=> j + 1 * Bits \in x
         /\ j + 7 * Bits \in bswap64(x) <=> j \in x
<1>1. Bits \in Nat \ {0} /\ j \in Int /\ j >= 0 /\ j < Bits /\ x \in SUBSET Int
  BY EndianAssumption DEF Octet, Octets
<1> DEFINE high == Shr(x, 4)
           low == x \cap Octets(4)
<1>2. high \in SUBSET Octets(4) /\ low \in SUBSET Octets(4)
  BY Halves
<1>3. \A i \in Int : i >= 0 => (i \in high <=> i + 4 * Bits \in x)
  BY <1>1, ShrBits
<1>4. \A i \in Octets(4) : i \in low <=> i \in x
  OBVIOUS
<1> HIDE DEF high, low
<1>5. /\ j \in Octets(4) /\ j + 1 * Bits \in Octets(4)
      /\ j + 2 * Bits \in Octets(4) /\ j + 3 * Bits \in Octets(4)
  BY <1>1 DEF Octets
<1>6. \A i \in Octets(4) : /\ i \in bswap64(x) <=> i \in bswap32(high)
                           /\ i + 4 * Bits \in bswap64(x) <=> i \in bswap32(low)
  BY Swap64Bits DEF high, low
<1>7. /\ (j + 1 * Bits) + 4 * Bits = j + 5 * Bits
      /\ (j + 2 * Bits) + 4 * Bits = j + 6 * Bits
      /\ (j + 3 * Bits) + 4 * Bits = j + 7 * Bits
  BY <1>1
<1>8. \A i \in Octets(4) : i \in Int /\ i >= 0
  BY DEF Octets
<1>9. /\ j \in bswap32(high) <=> j + 3 * Bits \in high
      /\ j + 1 * Bits \in bswap32(high) <=> j + 2 * Bits \in high
      /\ j + 2 * Bits \in bswap32(high) <=> j + 1 * Bits \in high
      /\ j + 3 * Bits \in bswap32(high) <=> j \in high
  BY <1>2, SwapBits32
<1>10. /\ j \in bswap32(low) <=> j + 3 * Bits \in low
       /\ j + 1 * Bits \in bswap32(low) <=> j + 2 * Bits \in low
       /\ j + 2 * Bits \in bswap32(low) <=> j + 1 * Bits \in low
       /\ j + 3 * Bits \in bswap32(low) <=> j \in low
  BY <1>2, SwapBits32
<1>11. /\ j \in high <=> j + 4 * Bits \in x
       /\ j + 1 * Bits \in high <=> j + 5 * Bits \in x
       /\ j + 2 * Bits \in high <=> j + 6 * Bits \in x
       /\ j + 3 * Bits \in high <=> j + 7 * Bits \in x
  BY <1>3, <1>5, <1>7, <1>8
<1> QED
  BY <1>4, <1>5, <1>6, <1>7, <1>9, <1>10, <1>11

LEMMA SwapBits ==
  ASSUME NEW n \in {2, 4, 8}, NEW x \in SUBSET Octets(n), NEW k \in 0..n - 1,
         NEW j \in Octet(0)
  PROVE  j + k * Bits \in bswap(n, x) <=> j + (n - 1 - k) * Bits \in x
<1>1. Bits \in Nat \ {0} /\ j \in Int
  BY EndianAssumption DEF Octet
<1>2. j + 0 * Bits = j
  BY <1>1
<1>3. CASE n = 2
  <2>1. bswap(n, x) = bswap16(x)
    BY <1>3 DEF bswap
  <2>2. CASE k = 0
    BY <1>2, <1>3, <2>1, <2>2, SwapBits16
  <2>3. CASE k = 1
    BY <1>2, <1>3, <2>1, <2>3, SwapBits16
  <2> QED
    BY <1>3, <2>2, <2>3
<1>4. CASE n = 4
  <2>1. bswap(n, x) = bswap32(x)
    BY <1>4 DEF bswap
  <2>2. CASE k = 0
    BY <1>2, <1>4, <2>1, <2>2, SwapBits32
  <2>3. CASE k = 1
    BY <1>2, <1>4, <2>1, <2>3, SwapBits32
  <2>4. CASE k = 2
    BY <1>2, <1>4, <2>1, <2>4, SwapBits32
  <2>5. CASE k = 3
    BY <1>2, <1>4, <2>1, <2>5, SwapBits32
  <2> QED
    BY <1>4, <2>2, <2>3, <2>4, <2>5
<1>5. CASE n = 8
  <2>1. bswap(n, x) = bswap64(x)
    BY <1>5 DEF bswap
  <2>2. CASE k = 0
    BY <1>2, <1>5, <2>1, <2>2, SwapBits64
  <2>3. CASE k = 1
    BY <1>2, <1>5, <2>1, <2>3, SwapBits64
  <2>4. CASE k = 2
    BY <1>2, <1>5, <2>1, <2>4, SwapBits64
  <2>5. CASE k = 3
    BY <1>2, <1>5, <2>1, <2>5, SwapBits64
  <2>6. CASE k = 4
    BY <1>2, <1>5, <2>1, <2>6, SwapBits64
  <2>7. CASE k = 5
    BY <1>2, <1>5, <2>1, <2>7, SwapBits64
  <2>8. CASE k = 6
    BY <1>2, <1>5, <2>1, <2>8, SwapBits64
  <2>9. CASE k = 7
    BY <1>2, <1>5, <2>1, <2>9, SwapBits64
  <2> QED
    BY <1>5, <2>2, <2>3, <2>4, <2>5, <2>6, <2>7, <2>8, <2>9
<1> QED
  BY <1>3, <1>4, <1>5

LEMMA OctetTypes ==
  /\ Bits \in Nat \ {0} /\ Octet(0) \in SUBSET Int
  /\ Octets(2) \in SUBSET Int /\ Octets(4) \in SUBSET Int
  /\ Octets(8) \in SUBSET Int
  /\ \A j \in Octet(0) : j \in Int /\ j >= 0 /\ j < Bits
BY EndianAssumption DEF Octet, Octets

LEMMA SwapType ==
  ASSUME NEW n \in {2, 4, 8}, NEW x \in SUBSET Octets(n)
  PROVE  bswap(n, x) \in SUBSET Octets(n)
<1>1. CASE n = 2
  <2>1. bswap16(x) \in SUBSET Octets(2)
    BY EndianAssumption DEF bswap16, Octet, Octets
  <2> QED
    BY <1>1, <2>1 DEF bswap
<1>2. CASE n = 4
  BY <1>2, Swap32Type DEF bswap
<1>3. CASE n = 8
  <2>1. /\ bswap32(x \cap Octets(4)) \in SUBSET Octets(4)
        /\ bswap32(Shr(x, 4)) \in SUBSET Octets(4)
    BY <1>3, Halves, Swap32Type
  <2>2. bswap64(x) \in SUBSET Octets(8)
    BY <2>1, Joined DEF bswap64
  <2> QED
    BY <1>3, <2>2 DEF bswap
<1> QED
  BY <1>1, <1>2, <1>3

LEMMA ConvertedType ==
  ASSUME NEW n \in {2, 4, 8}, NEW x \in SUBSET Octets(n), NEW m, NEW w
  PROVE  hto(m, w, n, x) \in SUBSET Octets(n)
BY SwapType DEF hto

(* The octet of a word that the wire carries as its i-th, and the stream. *)
Rank(w, n, i) == IF w = "big" THEN n - i ELSE i - 1
Stream(w, n, x) == [i \in 1..n |-> Shr(x, Rank(w, n, i)) \cap Octet(0)]

LEMMA RankType ==
  ASSUME NEW w, NEW n \in {1, 2, 4, 8}, NEW i \in 1..n
  PROVE  Rank(w, n, i) \in 0..n - 1
BY DEF Rank

LEMMA StreamType ==
  ASSUME NEW w, NEW n \in {2, 4, 8}, NEW x \in SUBSET Octets(n), NEW i \in 1..n
  PROVE  /\ Stream(w, n, x)[i] = Shr(x, Rank(w, n, i)) \cap Octet(0)
         /\ Stream(w, n, x)[i] \in SUBSET Octet(0)
         /\ Shl(Stream(w, n, x)[i], Rank(w, n, i)) = x \cap Octet(Rank(w, n, i))
<1>1. Rank(w, n, i) \in Nat /\ x \in SUBSET Int
  BY RankType, OctetTypes
<1>2. Stream(w, n, x)[i] = Shr(x, Rank(w, n, i)) \cap Octet(0)
  BY DEF Stream
<1> QED
  BY <1>1, <1>2, OctetBack

(* Swapped by a machine that knows its order, a word lies in memory in the
   order of the wire. *)
LEMMA SwappedOctet ==
  ASSUME NEW n \in {2, 4, 8}, NEW x \in SUBSET Octets(n), NEW k \in 0..n - 1
  PROVE  Shr(bswap(n, x), k) \cap Octet(0) = Shr(x, n - 1 - k) \cap Octet(0)
<1>1. bswap(n, x) \in SUBSET Int /\ x \in SUBSET Int
  BY SwapType, OctetTypes
<1>2. k \in Nat /\ n - 1 - k \in Nat
  OBVIOUS
<1>3. /\ Shr(bswap(n, x), k) \cap Octet(0)
           = {j \in Octet(0) : j + k * Bits \in bswap(n, x)}
      /\ Shr(x, n - 1 - k) \cap Octet(0)
           = {j \in Octet(0) : j + (n - 1 - k) * Bits \in x}
  BY <1>1, <1>2, OctetOf
<1>4. \A j \in Octet(0) :
        j + k * Bits \in bswap(n, x) <=> j + (n - 1 - k) * Bits \in x
  BY SwapBits
<1> QED
  BY Zenon, <1>3, <1>4

LEMMA BytesAreStream ==
  ASSUME NEW m \in Platforms, m.known, NEW w \in {"big", "little"},
         NEW n \in {2, 4, 8}, NEW x \in SUBSET Octets(n)
  PROVE  Bytes(m, n, hto(m, w, n, x)) = Stream(w, n, x)
<1>1. ASSUME NEW i \in 1..n
      PROVE  Shr(hto(m, w, n, x), Place(m, n, i)) \cap Octet(0)
               = Shr(x, Rank(w, n, i)) \cap Octet(0)
  <2>1. BigBranch(m) <=> m.order = "big"
    BY DEF BigBranch
  <2>2. m.order \in {"big", "little"}
    BY DEF Platforms
  <2>3. CASE (w = "big") = BigBranch(m)
    <3>1. hto(m, w, n, x) = x /\ Place(m, n, i) = Rank(w, n, i)
      BY <2>1, <2>3 DEF hto, Place, Rank
    <3> QED
      BY <3>1
  <2>4. CASE (w = "big") # BigBranch(m)
    <3>1. hto(m, w, n, x) = bswap(n, x)
      BY <2>4 DEF hto
    <3>2. Place(m, n, i) \in 0..n - 1 /\ Rank(w, n, i) = n - 1 - Place(m, n, i)
      <4>1. CASE w = "big"
        <5>1. m.order # "big"
          BY <2>1, <2>4, <4>1
        <5>2. Place(m, n, i) = i - 1 /\ Rank(w, n, i) = n - i
          BY <4>1, <5>1 DEF Place, Rank
        <5> QED
          BY <5>2
      <4>2. CASE w # "big"
        <5>1. m.order = "big"
          BY <2>1, <2>4, <4>2 DEF BigBranch
        <5>2. Place(m, n, i) = n - i /\ Rank(w, n, i) = i - 1
          BY <4>2, <5>1 DEF Place, Rank
        <5> QED
          BY <5>2
      <4> QED
        BY <4>1, <4>2
    <3> QED
      BY <3>1, <3>2, SwappedOctet
  <2> QED
    BY <2>3, <2>4
<1> QED
  BY <1>1 DEF Bytes, Stream

(* Encoded octet by octet, it is the same stream on every machine. *)
LEMMA HalfOctets ==
  ASSUME NEW x \in SUBSET Octets(8), NEW k \in 0..3
  PROVE  /\ Shr(Shr(x, 4), k) \cap Octet(0) = Shr(x, k + 4) \cap Octet(0)
         /\ Shr(x \cap Octets(4), k) \cap Octet(0) = Shr(x, k) \cap Octet(0)
<1> DEFINE high == Shr(x, 4)  low == x \cap Octets(4)
<1>1. /\ high \in SUBSET Int /\ low \in SUBSET Int /\ x \in SUBSET Int
      /\ k \in Nat /\ k + 4 \in Nat
  BY Halves, OctetTypes
<1>2. ASSUME NEW j \in Octet(0)
      PROVE  /\ j + k * Bits \in high <=> j + (k + 4) * Bits \in x
             /\ j + k * Bits \in low <=> j + k * Bits \in x
  <2>1. /\ j + k * Bits \in Int /\ j + k * Bits >= 0
        /\ j + k * Bits \in Octets(4)
        /\ (j + k * Bits) + 4 * Bits = j + (k + 4) * Bits
    <3>1. k = 0 \/ k = 1 \/ k = 2 \/ k = 3
      OBVIOUS
    <3>2. j \in Int /\ j >= 0 /\ j < Bits /\ Bits \in Nat
      BY OctetTypes
    <3> QED
      BY <3>1, <3>2 DEF Octets
  <2>2. j + k * Bits \in high <=> (j + k * Bits) + 4 * Bits \in x
    BY <1>1, <2>1, ShrBits
  <2> QED
    BY <2>1, <2>2
<1>3. /\ Shr(high, k) \cap Octet(0) = {j \in Octet(0) : j + k * Bits \in high}
      /\ Shr(low, k) \cap Octet(0) = {j \in Octet(0) : j + k * Bits \in low}
      /\ Shr(x, k) \cap Octet(0) = {j \in Octet(0) : j + k * Bits \in x}
      /\ Shr(x, k + 4) \cap Octet(0) = {j \in Octet(0) : j + (k + 4) * Bits \in x}
  BY <1>1, OctetOf
<1> HIDE DEF high, low
<1>4. /\ Shr(high, k) \cap Octet(0) = Shr(x, k + 4) \cap Octet(0)
      /\ Shr(low, k) \cap Octet(0) = Shr(x, k) \cap Octet(0)
  BY Zenon, <1>2, <1>3
<1> QED
  BY <1>4 DEF high, low

LEMMA LowestOctet ==
  ASSUME NEW x \in SUBSET Int
  PROVE  x \cap Octet(0) = Shr(x, 0) \cap Octet(0)
<1>1. Shr(x, 0) \cap Octet(0) = {j \in Octet(0) : j + 0 * Bits \in x}
  BY OctetOf
<1>2. \A j \in Octet(0) : j + 0 * Bits = j
  BY OctetTypes
<1> QED
  BY <1>1, <1>2

LEMMA Encoded32 ==
  ASSUME NEW x \in SUBSET Int
  PROVE  /\ be32enc(x) = <<Shr(x, 3) \cap Octet(0), Shr(x, 2) \cap Octet(0),
                           Shr(x, 1) \cap Octet(0), Shr(x, 0) \cap Octet(0)>>
         /\ le32enc(x) = <<Shr(x, 0) \cap Octet(0), Shr(x, 1) \cap Octet(0),
                           Shr(x, 2) \cap Octet(0), Shr(x, 3) \cap Octet(0)>>
BY LowestOctet DEF be32enc, le32enc

LEMMA Encoded64 ==
  ASSUME NEW x \in SUBSET Octets(8)
  PROVE  /\ be64enc(x) =
              <<Shr(x, 7) \cap Octet(0), Shr(x, 6) \cap Octet(0),
                Shr(x, 5) \cap Octet(0), Shr(x, 4) \cap Octet(0)>> \o
              <<Shr(x, 3) \cap Octet(0), Shr(x, 2) \cap Octet(0),
                Shr(x, 1) \cap Octet(0), Shr(x, 0) \cap Octet(0)>>
         /\ le64enc(x) =
              <<Shr(x, 0) \cap Octet(0), Shr(x, 1) \cap Octet(0),
                Shr(x, 2) \cap Octet(0), Shr(x, 3) \cap Octet(0)>> \o
              <<Shr(x, 4) \cap Octet(0), Shr(x, 5) \cap Octet(0),
                Shr(x, 6) \cap Octet(0), Shr(x, 7) \cap Octet(0)>>
<1> DEFINE high == Shr(x, 4)  low == x \cap Octets(4)
<1>1. high \in SUBSET Int /\ low \in SUBSET Int
  BY Halves, OctetTypes
<1>2. /\ Shr(high, 0) \cap Octet(0) = Shr(x, 4) \cap Octet(0)
      /\ Shr(high, 1) \cap Octet(0) = Shr(x, 5) \cap Octet(0)
      /\ Shr(high, 2) \cap Octet(0) = Shr(x, 6) \cap Octet(0)
      /\ Shr(high, 3) \cap Octet(0) = Shr(x, 7) \cap Octet(0)
      /\ Shr(low, 0) \cap Octet(0) = Shr(x, 0) \cap Octet(0)
      /\ Shr(low, 1) \cap Octet(0) = Shr(x, 1) \cap Octet(0)
      /\ Shr(low, 2) \cap Octet(0) = Shr(x, 2) \cap Octet(0)
      /\ Shr(low, 3) \cap Octet(0) = Shr(x, 3) \cap Octet(0)
  <2>1. 0 + 4 = 4 /\ 1 + 4 = 5 /\ 2 + 4 = 6 /\ 3 + 4 = 7
    OBVIOUS
  <2>2. 0 \in 0..3 /\ 1 \in 0..3 /\ 2 \in 0..3 /\ 3 \in 0..3
    OBVIOUS
  <2>3. \A k \in 0..3 :
          /\ Shr(high, k) \cap Octet(0) = Shr(x, k + 4) \cap Octet(0)
          /\ Shr(low, k) \cap Octet(0) = Shr(x, k) \cap Octet(0)
    BY HalfOctets
  <2> HIDE DEF high, low
  <2> QED
    BY <2>1, <2>2, <2>3
<1> HIDE DEF high, low
<1>3. /\ be32enc(high) =
           <<Shr(x, 7) \cap Octet(0), Shr(x, 6) \cap Octet(0),
             Shr(x, 5) \cap Octet(0), Shr(x, 4) \cap Octet(0)>>
      /\ le32enc(high) =
           <<Shr(x, 4) \cap Octet(0), Shr(x, 5) \cap Octet(0),
             Shr(x, 6) \cap Octet(0), Shr(x, 7) \cap Octet(0)>>
  BY <1>1, <1>2, Encoded32
<1>4. /\ be32enc(low) =
           <<Shr(x, 3) \cap Octet(0), Shr(x, 2) \cap Octet(0),
             Shr(x, 1) \cap Octet(0), Shr(x, 0) \cap Octet(0)>>
      /\ le32enc(low) =
           <<Shr(x, 0) \cap Octet(0), Shr(x, 1) \cap Octet(0),
             Shr(x, 2) \cap Octet(0), Shr(x, 3) \cap Octet(0)>>
  BY <1>1, <1>2, Encoded32
<1> QED
  BY <1>3, <1>4 DEF be64enc, le64enc, high, low

(* A tuple and a function that agree on every place are equal. *)
LEMMA Two ==
  ASSUME NEW s, s = [i \in 1..2 |-> s[i]]
  PROVE  s = <<s[1], s[2]>>
OBVIOUS

LEMMA Four ==
  ASSUME NEW s, s = [i \in 1..4 |-> s[i]]
  PROVE  s = <<s[1], s[2], s[3], s[4]>>
OBVIOUS

LEMMA Eight ==
  ASSUME NEW s, s = [i \in 1..8 |-> s[i]]
  PROVE  s = <<s[1], s[2], s[3], s[4]>> \o <<s[5], s[6], s[7], s[8]>>
OBVIOUS

LEMMA EncodedIsStream ==
  ASSUME NEW n \in {2, 4, 8}, NEW w \in {"big", "little"},
         NEW x \in SUBSET Octets(n)
  PROVE  enc(w, n, x) = Stream(w, n, x)
<1> DEFINE s == Stream(w, n, x)
<1>1. /\ s = [i \in 1..n |-> s[i]]
      /\ \A i \in 1..n : s[i] = Shr(x, Rank(w, n, i)) \cap Octet(0)
  BY DEF Stream
<1> HIDE DEF s
<1>2. x \in SUBSET Int
  BY OctetTypes
<1>3. CASE w = "big"
  <2>1. \A i \in 1..n : s[i] = Shr(x, n - i) \cap Octet(0)
    BY <1>1, <1>3 DEF Rank
  <2>2. CASE n = 2
    <3>1. s[1] = Shr(x, 1) \cap Octet(0) /\ s[2] = Shr(x, 0) \cap Octet(0)
      BY <2>1, <2>2
    <3>2. be16enc(x) = <<Shr(x, 1) \cap Octet(0), Shr(x, 0) \cap Octet(0)>>
      BY <1>2, LowestOctet DEF be16enc
    <3>4. s = [i \in 1..2 |-> s[i]]
      BY <1>1, <2>2
    <3>3. be16enc(x) = s
      BY Zenon, <3>1, <3>2, <3>4, Two
    <3> QED
      BY <1>3, <2>2, <3>3 DEF enc, s
  <2>3. CASE n = 4
    <3>1. /\ s[1] = Shr(x, 3) \cap Octet(0) /\ s[2] = Shr(x, 2) \cap Octet(0)
          /\ s[3] = Shr(x, 1) \cap Octet(0) /\ s[4] = Shr(x, 0) \cap Octet(0)
      BY <2>1, <2>3
    <3>3. s = [i \in 1..4 |-> s[i]]
      BY <1>1, <2>3
    <3>4. s = <<s[1], s[2], s[3], s[4]>>
      BY <3>3, Four
    <3>2. be32enc(x) = s
      BY Zenon, <1>2, <3>1, <3>4, Encoded32
    <3> QED
      BY <1>3, <2>3, <3>2 DEF enc, s
  <2>4. CASE n = 8
    <3>1. /\ s[1] = Shr(x, 7) \cap Octet(0) /\ s[2] = Shr(x, 6) \cap Octet(0)
          /\ s[3] = Shr(x, 5) \cap Octet(0) /\ s[4] = Shr(x, 4) \cap Octet(0)
          /\ s[5] = Shr(x, 3) \cap Octet(0) /\ s[6] = Shr(x, 2) \cap Octet(0)
          /\ s[7] = Shr(x, 1) \cap Octet(0) /\ s[8] = Shr(x, 0) \cap Octet(0)
      BY <2>1, <2>4
    <3>4. x \in SUBSET Octets(8)
      BY <2>4
    <3>3. s = [i \in 1..8 |-> s[i]]
      BY <1>1, <2>4
    <3>5. s = <<s[1], s[2], s[3], s[4]>> \o <<s[5], s[6], s[7], s[8]>>
      BY <3>3, Eight
    <3>2. be64enc(x) = s
      BY Zenon, <3>1, <3>4, <3>5, Encoded64
    <3> QED
      BY <1>3, <2>4, <3>2 DEF enc, s
  <2> QED
    BY <2>2, <2>3, <2>4
<1>4. CASE w = "little"
  <2>1. \A i \in 1..n : s[i] = Shr(x, i - 1) \cap Octet(0)
    BY <1>1, <1>4 DEF Rank
  <2>2. CASE n = 2
    <3>1. s[1] = Shr(x, 0) \cap Octet(0) /\ s[2] = Shr(x, 1) \cap Octet(0)
      BY <2>1, <2>2
    <3>2. le16enc(x) = <<Shr(x, 0) \cap Octet(0), Shr(x, 1) \cap Octet(0)>>
      BY <1>2, LowestOctet DEF le16enc
    <3>4. s = [i \in 1..2 |-> s[i]]
      BY <1>1, <2>2
    <3>3. le16enc(x) = s
      BY Zenon, <3>1, <3>2, <3>4, Two
    <3> QED
      BY <1>4, <2>2, <3>3 DEF enc, s
  <2>3. CASE n = 4
    <3>1. /\ s[1] = Shr(x, 0) \cap Octet(0) /\ s[2] = Shr(x, 1) \cap Octet(0)
          /\ s[3] = Shr(x, 2) \cap Octet(0) /\ s[4] = Shr(x, 3) \cap Octet(0)
      BY <2>1, <2>3
    <3>3. s = [i \in 1..4 |-> s[i]]
      BY <1>1, <2>3
    <3>4. s = <<s[1], s[2], s[3], s[4]>>
      BY <3>3, Four
    <3>2. le32enc(x) = s
      BY Zenon, <1>2, <3>1, <3>4, Encoded32
    <3> QED
      BY <1>4, <2>3, <3>2 DEF enc, s
  <2>4. CASE n = 8
    <3>1. /\ s[1] = Shr(x, 0) \cap Octet(0) /\ s[2] = Shr(x, 1) \cap Octet(0)
          /\ s[3] = Shr(x, 2) \cap Octet(0) /\ s[4] = Shr(x, 3) \cap Octet(0)
          /\ s[5] = Shr(x, 4) \cap Octet(0) /\ s[6] = Shr(x, 5) \cap Octet(0)
          /\ s[7] = Shr(x, 6) \cap Octet(0) /\ s[8] = Shr(x, 7) \cap Octet(0)
      BY <2>1, <2>4
    <3>4. x \in SUBSET Octets(8)
      BY <2>4
    <3>3. s = [i \in 1..8 |-> s[i]]
      BY <1>1, <2>4
    <3>5. s = <<s[1], s[2], s[3], s[4]>> \o <<s[5], s[6], s[7], s[8]>>
      BY <3>3, Eight
    <3>2. le64enc(x) = s
      BY Zenon, <3>1, <3>4, <3>5, Encoded64
    <3> QED
      BY <1>4, <2>4, <3>2 DEF enc, s
  <2> QED
    BY <2>2, <2>3, <2>4
<1> QED
  BY <1>3, <1>4

(* What a machine loads from bytes it would have stored itself. *)
Holds(mem, first, m, n, x) ==
  \A i \in 1..n :
    ByteAt(mem, first + i - 1) = Shr(x, Place(m, n, i)) \cap Octet(0)

LEMMA ValueOf ==
  ASSUME NEW m, NEW n \in {1, 2, 4, 8}, NEW x \in SUBSET Octets(n),
         NEW mem, NEW first \in Int, Holds(mem, first, m, n, x)
  PROVE  Value(m, n, mem, first) = x
<1>1. x \in SUBSET Int
  BY EndianAssumption DEF Octets
<1>2. ASSUME NEW i \in 1..n
      PROVE  /\ Place(m, n, i) \in 0..n - 1
             /\ Shl(ByteAt(mem, first + i - 1), Place(m, n, i))
                  = x \cap Octet(Place(m, n, i))
  <2>1. Place(m, n, i) \in 0..n - 1 /\ Place(m, n, i) \in Nat
    BY DEF Place
  <2> QED
    BY <1>1, <2>1, OctetBack DEF Holds
<1>3. Value(m, n, mem, first) = UNION {x \cap Octet(Place(m, n, i)) : i \in 1..n}
  BY <1>2 DEF Value
<1>4. ASSUME NEW b \in x PROVE \E i \in 1..n : b \in Octet(Place(m, n, i))
  <2>1. PICK k \in 0..n - 1 : b \in Octet(k)
    BY OctetCover
  <2>2. n - k \in 1..n /\ k + 1 \in 1..n
    OBVIOUS
  <2>3. CASE m.order = "big"
    <3>1. Place(m, n, n - k) = n - (n - k)
      BY <2>3 DEF Place
    <3>2. n - (n - k) = k
      OBVIOUS
    <3> QED
      BY <2>1, <2>2, <3>1, <3>2
  <2>4. CASE m.order # "big"
    <3>1. Place(m, n, k + 1) = (k + 1) - 1
      BY <2>4 DEF Place
    <3>2. (k + 1) - 1 = k
      OBVIOUS
    <3> QED
      BY <2>1, <2>2, <3>1, <3>2
  <2> QED
    BY <2>3, <2>4
<1>5. Value(m, n, mem, first) \subseteq x
  BY Zenon, <1>3
<1>6. x \subseteq Value(m, n, mem, first)
  <2>1. ASSUME NEW b \in x
        PROVE  b \in UNION {x \cap Octet(Place(m, n, i)) : i \in 1..n}
    <3>1. PICK i \in 1..n : b \in Octet(Place(m, n, i))
      BY <1>4
    <3>2. b \in x \cap Octet(Place(m, n, i))
      BY <3>1
    <3> QED
      BY Zenon, <3>2
  <2> QED
    BY Zenon, <1>3, <2>1
<1> QED
  BY Zenon, <1>5, <1>6

LEMMA PlatformKinds ==
  ASSUME NEW m \in Platforms
  PROVE  m.uint8_t \in {1, 2} /\ (m.uint8_t = 2 => m.order = "little")
<1>1. CASE m \in [order : {"big"}, uint8_t : {1}, lp64 : {FALSE}, known : BOOLEAN]
  BY <1>1
<1>2. CASE m \in [order : {"little"}, uint8_t : {2}, lp64 : {FALSE}, known : BOOLEAN]
  BY <1>2
<1>3. CASE m \in [order : {"little"}, uint8_t : {1}, lp64 : BOOLEAN, known : BOOLEAN]
  BY <1>3
<1> QED
  BY <1>1, <1>2, <1>3 DEF Platforms

(* An array of octets: each takes as many bytes as the machine gives it. *)
OctetSize(m, s) == m.uint8_t = s

LEMMA ArrayByte ==
  ASSUME NEW m \in Platforms, NEW p, Len(p) \in Nat,
         NEW s, OctetSize(m, s), NEW i \in 1..Len(p), NEW k \in 1..s
  PROVE  /\ (i - 1) * s + k \in DOMAIN Array(m, p)
         /\ Array(m, p)[(i - 1) * s + k]
              = Shr(p[i], Place(m, s, k)) \cap Octet(0)
<1> DEFINE z == (i - 1) * s + k
<1>1. (s = 1 \/ s = 2) /\ s = m.uint8_t
  BY DEF Platforms, OctetSize
<1>2. DOMAIN Array(m, p) = 1..Len(p) * s
  BY <1>1 DEF Array
<1>3. /\ z \in 1..Len(p) * s
      /\ ((z - 1) \div s) + 1 = i /\ ((z - 1) % s) + 1 = k
  <2>2. CASE s = 1
    BY <2>2
  <2>3. CASE s = 2
    BY <2>3
  <2> QED
    BY <1>1, <2>2, <2>3
<1>4. Array(m, p)[z]
        = Bytes(m, s, p[((z - 1) \div s) + 1])[((z - 1) % s) + 1]
  BY <1>1, <1>2, <1>3 DEF Array
<1> HIDE DEF z
<1>5. Array(m, p)[z] = Bytes(m, s, p[i])[k]
  BY <1>3, <1>4
<1>6. Bytes(m, s, p[i])[k] = Shr(p[i], Place(m, s, k)) \cap Octet(0)
  BY DEF Bytes
<1> QED
  BY <1>2, <1>3, <1>5, <1>6 DEF z

(* Two machines with octets of one size read each other's arrays. *)
LEMMA ArrayRead ==
  ASSUME NEW m \in Platforms, NEW r \in Platforms,
         NEW s, OctetSize(m, s), OctetSize(r, s), NEW p, Len(p) \in Nat,
         NEW i \in 1..Len(p), p[i] \in SUBSET Octet(0)
  PROVE  Elements(r, Len(p), Array(m, p))[i] = p[i]
<1> DEFINE first == (i - 1) * s + 1
           mem == Array(m, p)
<1>1. s \in {1, 2}
  BY PlatformKinds DEF OctetSize
<1>2. first \in Int
  BY <1>1
<1>3. p[i] \in SUBSET Octets(s)
  <2>1. Octet(0) \subseteq Octets(s)
    BY <1>1, EndianAssumption DEF Octet, Octets
  <2> QED
    BY <2>1
<1>4. ASSUME NEW k \in 1..s
      PROVE  ByteAt(mem, first + k - 1) = Shr(p[i], Place(r, s, k)) \cap Octet(0)
  <2>1. first + k - 1 = (i - 1) * s + k
    BY <1>1
  <2>2. /\ (i - 1) * s + k \in DOMAIN mem
        /\ mem[(i - 1) * s + k] = Shr(p[i], Place(m, s, k)) \cap Octet(0)
    BY ArrayByte
  <2>3. Place(m, s, k) = Place(r, s, k)
    <3>1. CASE s = 1
      <4>1. k = 1
        BY <3>1
      <4> QED
        BY <3>1, <4>1 DEF Place
    <3>2. CASE s = 2
      <4>1. m.order = "little" /\ r.order = "little"
        BY <3>2, PlatformKinds DEF OctetSize
      <4> QED
        BY <4>1 DEF Place
    <3> QED
      BY <1>1, <3>1, <3>2
  <2> QED
    BY <2>1, <2>2, <2>3 DEF ByteAt
<1>5. Value(r, s, mem, first) = p[i]
  <2>1. s \in {1, 2, 4, 8}
    BY <1>1
  <2> HIDE DEF first, mem
  <2>2. Holds(mem, first, r, s, p[i])
    BY <1>4 DEF Holds
  <2> QED
    BY <2>1, <2>2, <1>2, <1>3, ValueOf
<1> QED
  BY <1>5 DEF Elements, OctetSize

LEMMA StreamRead ==
  ASSUME NEW m \in Platforms, NEW r \in Platforms,
         NEW s, OctetSize(m, s), OctetSize(r, s),
         NEW n \in {2, 4, 8}, NEW w, NEW x \in SUBSET Octets(n)
  PROVE  Elements(r, n, Array(m, Stream(w, n, x))) = Stream(w, n, x)
<1> DEFINE p == Stream(w, n, x)
           e == Elements(r, n, Array(m, p))
<1>1. Len(p) = n /\ p = [i \in 1..n |-> p[i]]
  BY DEF Stream
<1>2. e = [i \in 1..n |-> e[i]]
  BY DEF Elements
<1>3. \A i \in 1..n : p[i] \in SUBSET Octet(0)
  BY StreamType
<1> HIDE DEF p
<1>4. \A i \in 1..n : e[i] = p[i]
  <2>1. \A i \in 1..Len(p) :
          p[i] \in SUBSET Octet(0) => Elements(r, Len(p), Array(m, p))[i] = p[i]
    BY <1>1, ArrayRead
  <2> QED
    BY <1>1, <1>3, <2>1
<1> HIDE DEF e
<1>5. e = p
  BY <1>1, <1>2, <1>4
<1> QED
  BY <1>5 DEF e, p

(* Where an octet is one byte, the array is the stream. *)
LEMMA ArrayIsStream ==
  ASSUME NEW m \in Platforms, m.uint8_t = 1,
         NEW n \in {2, 4, 8}, NEW w, NEW x \in SUBSET Octets(n)
  PROVE  Array(m, Stream(w, n, x)) = Stream(w, n, x)
<1> DEFINE p == Stream(w, n, x)
           e == Array(m, p)
<1>1. Len(p) = n /\ p = [i \in 1..n |-> p[i]]
  BY DEF Stream
<1>2. e = [i \in 1..n |-> e[i]]
  <2>1. DOMAIN e = 1..n
    BY <1>1 DEF Array
  <2> QED
    BY <2>1 DEF Array
<1>3. \A i \in 1..n : p[i] \in SUBSET Octet(0)
  BY StreamType
<1> HIDE DEF p
<1>4. ASSUME NEW i \in 1..n PROVE e[i] = p[i]
  <2>1. (i - 1) * 1 + 1 = i /\ Place(m, 1, 1) = 0
    BY DEF Place
  <2>2. e[i] = Shr(p[i], 0) \cap Octet(0)
    <3>1. OctetSize(m, 1)
      BY DEF OctetSize
    <3>2. e[(i - 1) * 1 + 1] = Shr(p[i], Place(m, 1, 1)) \cap Octet(0)
      <4>1. 1 \in 1..1 /\ Len(p) \in Nat /\ i \in 1..Len(p)
        BY <1>1
      <4> QED
        BY <3>1, <4>1, ArrayByte
    <3> QED
      BY <2>1, <3>2
  <2>3. p[i] \in SUBSET Int /\ p[i] = p[i] \cap Octet(0)
    BY <1>3, OctetTypes
  <2> QED
    BY <2>2, <2>3, LowestOctet
<1> HIDE DEF e
<1>5. e = p
  BY <1>1, <1>2, <1>4
<1> QED
  BY <1>5 DEF e, p

-----------------------------------------------------------------------------
(* The exchange of a word *)

(* The memory is what the sender stores for the word, in its way, and the
   result is what the receiver makes of the memory, in its own. *)
ExchangeInv ==
  /\ sender \in Platforms /\ receiver \in Platforms
  /\ wire \in {"big", "little"} /\ size \in {2, 4, 8}
  /\ sent \in SUBSET Octets(size)
  /\ storedBy \in {"nobody", "swap", "array"}
  /\ storedBy = "nobody" => memory = <<>>
  /\ storedBy = "swap" =>
       memory = Bytes(sender, size, hto(sender, wire, size, sent))
  /\ storedBy = "array" => memory = Array(sender, enc(wire, size, sent))
  /\ loadedBy \in {"nobody", "swap", "array"}
  /\ loadedBy # "nobody" => storedBy # "nobody"
  /\ loadedBy = "nobody" => received = {}
  /\ loadedBy = "swap" =>
       received = hto(receiver, wire, size, Value(receiver, size, memory, 1))
  /\ loadedBy = "array" =>
       received = dec(receiver, wire, size, Elements(receiver, size, memory))

LEMMA InitExchangeInv == ExchangeInit => ExchangeInv
<1> SUFFICES ASSUME ExchangeInit PROVE ExchangeInv
  OBVIOUS
<1>1. PICK w \in Words : size = w.bytes /\ sent = w.bits
  BY DEF ExchangeInit
<1>2. w.bytes \in {2, 4, 8} /\ w.bits \in SUBSET Octets(w.bytes)
  BY DEF Words
<1> QED
  BY <1>1, <1>2 DEF ExchangeInit, ExchangeInv

LEMMA NextExchangeInv == ExchangeInv /\ [ExchangeNext]_exchangeVars => ExchangeInv'
<1> SUFFICES ASSUME ExchangeInv, [ExchangeNext]_exchangeVars PROVE ExchangeInv'
  OBVIOUS
<1>1. CASE StoreSwapped
  BY <1>1 DEF ExchangeInv, StoreSwapped, Store
<1>2. CASE StoreEncoded
  BY <1>2 DEF ExchangeInv, StoreEncoded, Store
<1>3. CASE LoadSwapped
  BY <1>3 DEF ExchangeInv, LoadSwapped, Load
<1>4. CASE LoadDecoded
  BY <1>4 DEF ExchangeInv, LoadDecoded, Load
<1>5. CASE UNCHANGED exchangeVars
  BY <1>5 DEF ExchangeInv, exchangeVars
<1> QED
  BY <1>1, <1>2, <1>3, <1>4, <1>5 DEF ExchangeNext

LEMMA ExchangeInvariant == ExchangeSpec => []ExchangeInv
BY InitExchangeInv, NextExchangeInv, PTL DEF ExchangeSpec

(* Stored in a way that works there, by a machine whose octets are one byte,
   the word is the stream of the wire. *)
LEMMA StoredStream ==
  ASSUME ExchangeInv, storedBy # "nobody",
         Usable(sender, storedBy), Stride(sender, storedBy) = 1
  PROVE  memory = Stream(wire, size, sent)
<1>1. CASE storedBy = "swap"
  BY <1>1, BytesAreStream DEF ExchangeInv, Usable
<1>2. CASE storedBy = "array"
  <2>1. sender.uint8_t = 1
    BY <1>2 DEF Stride
  <2>2. enc(wire, size, sent) = Stream(wire, size, sent)
    BY EncodedIsStream DEF ExchangeInv
  <2>3. Array(sender, Stream(wire, size, sent)) = Stream(wire, size, sent)
    BY <2>1, ArrayIsStream DEF ExchangeInv
  <2> QED
    BY <1>2, <2>2, <2>3 DEF ExchangeInv
<1> QED
  BY <1>1, <1>2 DEF ExchangeInv

(* What is stored, by either way, is the octets of the word in the order
   agreed, for octets of every width (endian.h's "octet stream"). *)
THEOREM StoredOctets == ExchangeSpec => []OctetStream
<1>1. ExchangeInv => OctetStream
  <2> SUFFICES ASSUME ExchangeInv, storedBy # "nobody",
                      Usable(sender, storedBy), Stride(sender, storedBy) = 1,
                      NEW i \in 1..size
               PROVE  Shl(memory[i], Rank(wire, size, i))
                        = sent \cap Octet(Rank(wire, size, i))
    BY DEF OctetStream, Rank
  <2>1. memory = Stream(wire, size, sent)
    BY StoredStream
  <2>2. size \in {2, 4, 8} /\ sent \in SUBSET Octets(size)
    BY DEF ExchangeInv
  <2> QED
    BY <2>1, <2>2, StreamType
<1> QED
  BY <1>1, ExchangeInvariant, PTL

LEMMA SwappedArrives ==
  ASSUME NEW r \in Platforms, r.known, NEW w \in {"big", "little"},
         NEW n \in {2, 4, 8}, NEW x \in SUBSET Octets(n)
  PROVE  hto(r, w, n, Value(r, n, Stream(w, n, x), 1)) = x
<1> DEFINE z == hto(r, w, n, x)
           mem == Stream(w, n, x)
<1>1. z \in SUBSET Octets(n)
  BY ConvertedType
<1>2. mem = Bytes(r, n, z)
  BY BytesAreStream
<1>3. Holds(mem, 1, r, n, z)
  <2> SUFFICES ASSUME NEW i \in 1..n
               PROVE  ByteAt(mem, i) = Shr(z, Place(r, n, i)) \cap Octet(0)
    <3>1. \A i \in 1..n : 1 + i - 1 = i
      OBVIOUS
    <3> QED
      BY <3>1 DEF Holds
  <2> HIDE DEF z, mem
  <2>1. /\ DOMAIN Bytes(r, n, z) = 1..n
        /\ Bytes(r, n, z)[i] = Shr(z, Place(r, n, i)) \cap Octet(0)
    BY DEF Bytes
  <2> QED
    BY <1>2, <2>1 DEF ByteAt
<1>4. Value(r, n, mem, 1) = z
  <2> HIDE DEF z, mem
  <2> QED
    BY <1>1, <1>3, ValueOf
<1> QED
  BY <1>4, ConvertedBack

LEMMA EncodedArrives ==
  ASSUME NEW m \in Platforms, NEW r \in Platforms,
         NEW s, OctetSize(m, s), OctetSize(r, s),
         NEW w \in {"big", "little"},
         NEW n \in {2, 4, 8}, NEW x \in SUBSET Octets(n),
         r.lp64 => 4 * Bits - 1 \notin x
  PROVE  dec(r, w, n, Elements(r, n, Array(m, enc(w, n, x)))) = x
<1>1. enc(w, n, x) = Stream(w, n, x)
  BY EncodedIsStream
<1>2. Elements(r, n, Array(m, Stream(w, n, x))) = Stream(w, n, x)
  BY StreamRead
<1>3. Elements(r, n, Array(m, enc(w, n, x))) = enc(w, n, x)
  BY <1>1, <1>2
<1>4. dec(r, w, n, enc(w, n, x)) = x
  BY DecodeEncode
<1> QED
  BY <1>3, <1>4

(* A word stored by one machine and loaded by another is the same word, for
   every pair of platforms and of ways that agree on the size of an octet, and
   for octets of every width. *)
THEOREM WordsArrive == ExchangeSpec => []WordArrives
<1>1. ExchangeInv => WordArrives
  <2> SUFFICES ASSUME ExchangeInv, Agree PROVE received = sent
    BY DEF WordArrives
  <2>1. /\ sender \in Platforms /\ receiver \in Platforms
        /\ wire \in {"big", "little"} /\ size \in {2, 4, 8}
        /\ sent \in SUBSET Octets(size)
        /\ storedBy # "nobody"
    BY DEF ExchangeInv, Agree
  <2>2. CASE loadedBy = "swap"
    <3>1. Stride(sender, storedBy) = 1 /\ receiver.known
      BY <2>2 DEF Agree, Stride, Usable
    <3>2. memory = Stream(wire, size, sent)
      BY <2>1, <3>1, StoredStream DEF Agree
    <3>3. received = hto(receiver, wire, size, Value(receiver, size, memory, 1))
      BY <2>2 DEF ExchangeInv
    <3> QED
      BY <2>1, <3>1, <3>2, <3>3, SwappedArrives
  <2>3. CASE loadedBy = "array"
    <3>1. receiver.lp64 => 4 * Bits - 1 \notin sent
      BY <2>3 DEF Agree
    <3>2. \E m \in Platforms : /\ m.uint8_t = receiver.uint8_t
                               /\ memory = Array(m, enc(wire, size, sent))
      <4>1. CASE storedBy = "array"
        BY <2>1, <2>3, <4>1 DEF ExchangeInv, Agree, Stride
      <4>2. CASE storedBy = "swap"
        <5>1. Stride(sender, storedBy) = 1 /\ receiver.uint8_t = 1
          BY <2>3, <4>2 DEF Agree, Stride
        <5>2. memory = Stream(wire, size, sent)
          BY <2>1, <5>1, StoredStream DEF Agree
        <5>3. Array(receiver, Stream(wire, size, sent)) = Stream(wire, size, sent)
          BY <2>1, <5>1, ArrayIsStream
        <5>4. enc(wire, size, sent) = Stream(wire, size, sent)
          BY <2>1, EncodedIsStream
        <5> QED
          BY <2>1, <5>2, <5>3, <5>4
      <4> QED
        BY <2>1, <4>1, <4>2 DEF ExchangeInv
    <3>3. PICK m \in Platforms : /\ m.uint8_t = receiver.uint8_t
                                 /\ memory = Array(m, enc(wire, size, sent))
      BY <3>2
    <3>4. OctetSize(m, receiver.uint8_t) /\ OctetSize(receiver, receiver.uint8_t)
      BY <3>3 DEF OctetSize
    <3>5. received = dec(receiver, wire, size, Elements(receiver, size, memory))
      BY <2>3 DEF ExchangeInv
    <3> QED
      BY <2>1, <3>1, <3>3, <3>4, <3>5, EncodedArrives
  <2> QED
    BY <2>2, <2>3 DEF ExchangeInv, Agree
<1> QED
  BY <1>1, ExchangeInvariant, PTL

(* Types: the memory is octets, one or two bytes each, and no decoding
   overflows a double word. *)
LEMMA OctetsGrow ==
  /\ Octet(0) \subseteq Octets(1) /\ Octets(1) \subseteq Octets(2)
  /\ Octets(2) \subseteq Octets(4) /\ Octets(4) \subseteq Octets(8)
  /\ Octets(8) \subseteq Octets(16)
BY EndianAssumption DEF Octet, Octets

LEMMA ShiftedOctet ==
  ASSUME NEW n \in {1, 2, 4, 8}, NEW k \in 0..n - 1, NEW x \in SUBSET Octet(0)
  PROVE  Shl(x, k) \in SUBSET Octets(n)
<1>1. x \in SUBSET Int /\ k \in Nat
  BY OctetTypes
<1>2. ASSUME NEW i \in Int, i - k * Bits \in x PROVE i \in Octets(n)
  <2>1. i - k * Bits >= 0 /\ i - k * Bits < Bits /\ Bits \in Nat
    BY <1>2, OctetTypes
  <2>2. \/ n = 1 /\ k = 0
        \/ n = 2 /\ (k = 0 \/ k = 1)
        \/ n = 4 /\ (k = 0 \/ k = 1 \/ k = 2 \/ k = 3)
        \/ n = 8 /\ \/ k = 0 \/ k = 1 \/ k = 2 \/ k = 3
                    \/ k = 4 \/ k = 5 \/ k = 6 \/ k = 7
    OBVIOUS
  <2> QED
    BY <2>1, <2>2 DEF Octets
<1>3. Shl(x, k) \in SUBSET Int
  BY <1>1, ShiftType
<1>4. \A i \in Int : i \in Shl(x, k) => i \in Octets(n)
  BY <1>1, <1>2, ShlBits
<1> QED
  BY <1>3, <1>4

LEMMA ValueType ==
  ASSUME NEW m, NEW n \in {1, 2, 4, 8}, NEW mem, NEW first,
         \A i \in DOMAIN mem : mem[i] \in SUBSET Octet(0)
  PROVE  Value(m, n, mem, first) \in SUBSET Octets(n)
<1>1. ASSUME NEW i \in 1..n
      PROVE  Shl(ByteAt(mem, first + i - 1), Place(m, n, i)) \in SUBSET Octets(n)
  <2>1. Place(m, n, i) \in 0..n - 1
    BY DEF Place
  <2>2. ByteAt(mem, first + i - 1) \in SUBSET Octet(0)
    BY DEF ByteAt
  <2> QED
    BY <2>1, <2>2, ShiftedOctet
<1> QED
  BY Zenon, <1>1 DEF Value

LEMMA ElementsType ==
  ASSUME NEW m \in Platforms, NEW n \in Nat, NEW mem,
         \A i \in DOMAIN mem : mem[i] \in SUBSET Octet(0)
  PROVE  \A i \in 1..n : Elements(m, n, mem)[i] \in SUBSET Octets(2)
<1>1. m.uint8_t \in {1, 2}
  BY PlatformKinds
<1>5. m.uint8_t \in {1, 2, 4, 8}
  BY <1>1
<1>2. TAKE i \in 1..n
<1>3. Elements(m, n, mem)[i]
        = Value(m, m.uint8_t, mem, (i - 1) * m.uint8_t + 1)
  BY DEF Elements
<1>4. Elements(m, n, mem)[i] \in SUBSET Octets(m.uint8_t)
  <2> DEFINE s == m.uint8_t
             first == (i - 1) * s + 1
  <2>1. s \in {1, 2, 4, 8} /\ Elements(m, n, mem)[i] = Value(m, s, mem, first)
    BY <1>3, <1>5
  <2> HIDE DEF s, first
  <2>2. Value(m, s, mem, first) \in SUBSET Octets(s)
    BY <2>1, ValueType
  <2> QED
    BY <2>1, <2>2 DEF s
<1> QED
  BY <1>1, <1>4, OctetsGrow

LEMMA DecodedType ==
  ASSUME NEW m, NEW w \in {"big", "little"}, NEW n \in {2, 4, 8}, NEW p,
         \A i \in 1..n : p[i] \in SUBSET Octets(2)
  PROVE  dec(m, w, n, p) \in SUBSET Octets(2 * n)
<1>1. CASE n = 2
  <2>1. p[1] \in SUBSET Octets(2) /\ p[2] \in SUBSET Octets(2)
    BY <1>1
  <2>2. ASSUME NEW x \in SUBSET Octets(2) PROVE Shl(x, 1) \in SUBSET Octets(4)
    <3>1. x \in SUBSET Int
      BY OctetTypes
    <3>2. ASSUME NEW i \in Int, i - 1 * Bits \in x PROVE i \in Octets(4)
      BY <3>2, EndianAssumption DEF Octets
    <3>3. Shl(x, 1) \in SUBSET Int
      BY <3>1, ShiftType
    <3>4. \A i \in Int : i \in Shl(x, 1) => i \in Octets(4)
      BY <3>1, <3>2, ShlBits
    <3> QED
      BY <3>3, <3>4
  <2>3. be16dec(p) \in SUBSET Octets(4) /\ le16dec(p) \in SUBSET Octets(4)
    BY <2>1, <2>2, OctetsGrow DEF be16dec, le16dec
  <2>4. dec(m, w, n, p) \in SUBSET Octets(4)
    BY <1>1, <2>3 DEF dec
  <2>5. 2 * n = 4
    BY <1>1
  <2> QED
    BY <2>4, <2>5
<1>2. \A q : be32dec(m, q) \in SUBSET Octets(8) /\ le32dec(m, q) \in SUBSET Octets(8)
  BY OctetsGrow DEF be32dec, le32dec, Widened
<1>3. CASE n = 4
  <2>1. dec(m, w, n, p) \in SUBSET Octets(8)
    BY <1>2, <1>3 DEF dec
  <2>2. 2 * n = 8
    BY <1>3
  <2> QED
    BY <2>1, <2>2
<1>4. CASE n = 8
  <2>1. be64dec(m, p) \in SUBSET Octets(8) /\ le64dec(m, p) \in SUBSET Octets(8)
    BY <1>2 DEF be64dec, le64dec
  <2>2. dec(m, w, n, p) \in SUBSET Octets(16)
    BY <1>4, <2>1, OctetsGrow DEF dec
  <2>3. 2 * n = 16
    BY <1>4
  <2> QED
    BY <2>2, <2>3
<1> QED
  BY <1>1, <1>3, <1>4

LEMMA MemoryType ==
  ASSUME ExchangeInv, storedBy # "nobody"
  PROVE  /\ Len(memory) = size * Stride(sender, storedBy)
         /\ \A i \in DOMAIN memory : memory[i] \in SUBSET Octet(0)
<1>1. size \in {2, 4, 8} /\ sender \in Platforms
  BY DEF ExchangeInv
<1>2. CASE storedBy = "swap"
  <2>1. memory = Bytes(sender, size, hto(sender, wire, size, sent))
    BY <1>2 DEF ExchangeInv
  <2>2. Len(memory) = size
    BY <1>1, <2>1 DEF Bytes
  <2>3. Stride(sender, storedBy) = 1
    BY <1>2 DEF Stride
  <2>4. \A i \in DOMAIN memory : memory[i] \in SUBSET Octet(0)
    BY <2>1 DEF Bytes
  <2> QED
    BY <1>1, <2>2, <2>3, <2>4
<1>3. CASE storedBy = "array"
  <2> DEFINE p == enc(wire, size, sent)
             s == sender.uint8_t
  <2>1. memory = Array(sender, p)
    BY <1>3 DEF ExchangeInv
  <2>2. Len(p) = size
    <3>1. p = Stream(wire, size, sent)
      BY EncodedIsStream DEF ExchangeInv
    <3> QED
      BY <1>1, <3>1 DEF Stream
  <2>3. s \in {1, 2}
    BY <1>1, PlatformKinds
  <2> HIDE DEF p
  <2>4. Len(memory) = size * s
    BY <1>1, <2>1, <2>2, <2>3 DEF Array
  <2>5. Stride(sender, storedBy) = s
    BY <1>3 DEF Stride
  <2>6. ASSUME NEW i \in DOMAIN memory PROVE memory[i] \in SUBSET Octet(0)
    <3>1. i \in 1..size * s
      BY <2>1, <2>2 DEF Array
    <3>2. i \in Int /\ ((i - 1) % s) + 1 \in 1..s
      <4> HIDE DEF s
      <4> QED
        BY <1>1, <2>3, <3>1
    <3>3. memory[i] = Bytes(sender, s, p[((i - 1) \div s) + 1])[((i - 1) % s) + 1]
      BY <2>1, <2>2, <3>1 DEF Array
    <3> QED
      BY <3>2, <3>3 DEF Bytes
  <2> QED
    BY <2>4, <2>5, <2>6
<1> QED
  BY <1>2, <1>3 DEF ExchangeInv

(* Whatever the two machines are and however they store and load, an array has
   the length of its word, each of its elements is an octet, and no bits appear
   outside the width the code computes with: twice the word's, because of the
   sign extension of an octet shifted to bit 31. *)
THEOREM ExchangeTyped == ExchangeSpec => []ExchangeTypeOK
<1>1. ExchangeInv => ExchangeTypeOK
  <2> SUFFICES ASSUME ExchangeInv PROVE ExchangeTypeOK
    OBVIOUS
  <2>1. \A i \in DOMAIN memory : memory[i] \in SUBSET Octet(0)
    <3>1. storedBy = "nobody" => DOMAIN memory = {}
      BY DEF ExchangeInv
    <3> QED
      BY <3>1, MemoryType
  <2>2. received \in SUBSET Octets(2 * size)
    <3>1. CASE loadedBy = "nobody"
      BY <3>1 DEF ExchangeInv
    <3>2. CASE loadedBy = "swap"
      <4>1. Value(receiver, size, memory, 1) \in SUBSET Octets(size)
        BY <2>1, ValueType DEF ExchangeInv
      <4>2. received \in SUBSET Octets(size)
        BY <3>2, <4>1, ConvertedType DEF ExchangeInv
      <4>3. Octets(size) \subseteq Octets(2 * size)
        BY OctetsGrow DEF ExchangeInv
      <4> QED
        BY <4>2, <4>3
    <3>3. CASE loadedBy = "array"
      <4>1. \A i \in 1..size :
              Elements(receiver, size, memory)[i] \in SUBSET Octets(2)
        BY <2>1, ElementsType DEF ExchangeInv
      <4>2. received = dec(receiver, wire, size, Elements(receiver, size, memory))
        BY <3>3 DEF ExchangeInv
      <4>3. wire \in {"big", "little"} /\ size \in {2, 4, 8}
        BY DEF ExchangeInv
      <4> QED
        BY Zenon, <4>1, <4>2, <4>3, DecodedType
    <3> QED
      BY <3>1, <3>2, <3>3 DEF ExchangeInv
  <2> QED
    BY <2>1, <2>2, MemoryType DEF ExchangeInv, ExchangeTypeOK
<1> QED
  BY <1>1, ExchangeInvariant, PTL

(* The types of the three parts of MCConversions: what the timer keeps and the
   clock and the charges of the kernel are words, and an exchange is typed as
   above. *)
THEOREM Typed == TheFactors => (Spec => []TypeOK)
<1> DEFINE allVars == <<timerVars, statsVars, exchangeVars>>
<1>1. Spec => TimerSpec
  <2>1. Init => TimerInit
    BY DEF Init
  <2>2. [Next]_allVars => [TimerNext]_timerVars
    BY DEF Next
  <2> QED
    BY <2>1, <2>2, PTL DEF Spec, TimerSpec
<1>2. Spec => ClockSpec
  <2>1. Init => ClockInit
    BY DEF Init
  <2>2. [Next]_allVars => [ClockNext]_statsVars
    BY DEF Next
  <2> QED
    BY <2>1, <2>2, PTL DEF Spec, ClockSpec
<1>3. Spec => ExchangeSpec
  <2>1. Init => ExchangeInit
    BY DEF Init
  <2>2. [Next]_allVars => [ExchangeNext]_exchangeVars
    BY DEF Next
  <2> QED
    BY <2>1, <2>2, PTL DEF Spec, ExchangeSpec
<1>4. TimerTypeOK /\ ClockTypeOK /\ ExchangeTypeOK => TypeOK
  BY DEF TypeOK
<1> QED
  BY <1>1, <1>2, <1>3, <1>4, TypeCorrect, ClockTyped, ExchangeTyped, PTL
=============================================================================
