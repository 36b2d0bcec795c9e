----------------------------- MODULE PrintfProofs -----------------------------
(***************************************************************************)
(* Proofs about printf: what the digits, the padding and the fields are,   *)
(* for integers and formats of every kind.                                 *)
(*                                                                         *)
(* The numerals and their values are recursive functions.  Induction is    *)
(* used in the form that every nonempty set of natural numbers has a least *)
(* element.                                                                *)
(***************************************************************************)
EXTENDS Printf, SequenceTheorems, WellFoundedInduction, TLAPS

(* Every nonempty set of natural numbers has a least element. *)
LEMMA LeastNumber ==
  ASSUME NEW T \in SUBSET Nat, T # {}
  PROVE  \E m \in T : \A k \in T : m <= k
<1>1. IsWellFoundedOn(OpToRel(<, Nat), Nat)
  BY NatLessThanWellFounded
<1>2. PICK m \in T : \A k \in T : ~(<<k, m>> \in OpToRel(<, Nat))
  BY <1>1, WFMin
<1>3. \A k \in T : ~(k < m)
  BY <1>2 DEF OpToRel
<1> QED
  BY <1>3

(* A set that has every number all of whose predecessors it has is all of Nat. *)
LEMMA CourseOfValues ==
  ASSUME NEW S, \A n \in Nat : 0..n - 1 \subseteq S => n \in S
  PROVE  Nat \subseteq S
<1> SUFFICES ASSUME Nat \ S # {} PROVE FALSE
  OBVIOUS
<1>1. PICK m \in Nat \ S : \A k \in Nat \ S : m <= k
  BY LeastNumber
<1>2. 0..m - 1 \subseteq S
  BY <1>1
<1> QED
  BY <1>1, <1>2

(* Simple induction. *)
LEMMA Induction ==
  ASSUME NEW S, 0 \in S, \A n \in Nat : n \in S => n + 1 \in S
  PROVE  Nat \subseteq S
<1>1. ASSUME NEW n \in Nat, 0..n - 1 \subseteq S PROVE n \in S
  <2>1. n # 0 => n - 1 \in Nat /\ n - 1 \in 0..n - 1 /\ (n - 1) + 1 = n
    OBVIOUS
  <2> QED
    BY <1>1, <2>1
<1> QED
  BY <1>1, CourseOfValues

-----------------------------------------------------------------------------
(* Recursive functions: value c at 0, and at n what D makes of the value at an
   earlier p[n].  Approximations up to n exist and agree. *)

WellDefined(S, c, D, p) ==
  /\ c \in S /\ D \in [Nat -> [S -> S]] /\ p \in [Nat -> Nat]
  /\ \A n \in Nat \ {0} : p[n] < n

Approximates(g, n, S, c, D, p) ==
  /\ g \in [0..n -> S]
  /\ \A k \in 0..n : g[k] = IF k = 0 THEN c ELSE D[k][g[p[k]]]

LEMMA ApproximationsAgree ==
  ASSUME NEW S, NEW c, NEW D, NEW p, WellDefined(S, c, D, p),
         NEW m \in Nat, NEW n \in Nat, NEW g, NEW h,
         Approximates(g, m, S, c, D, p), Approximates(h, n, S, c, D, p)
  PROVE  \A k \in Nat : k <= m /\ k <= n => g[k] = h[k]
<1> USE DEF WellDefined
<1> DEFINE T == {k \in Nat : k <= m /\ k <= n => g[k] = h[k]}
<1>1. ASSUME NEW k \in Nat, 0..k - 1 \subseteq T PROVE k \in T
  <2> SUFFICES ASSUME k <= m, k <= n PROVE g[k] = h[k]
    OBVIOUS
  <2>1. CASE k = 0
    BY <2>1 DEF Approximates
  <2>2. CASE k # 0
    <3>1. p[k] \in 0..k - 1
      BY <2>2
    <3>2. g[p[k]] = h[p[k]]
      BY <1>1, <3>1
    <3> QED
      BY <2>2, <3>2 DEF Approximates
  <2> QED
    BY <2>1, <2>2
<1>2. Nat \subseteq T
  <2> HIDE DEF T
  <2> QED
    BY <1>1, CourseOfValues
<1> QED
  BY <1>2

LEMMA ApproximationsExist ==
  ASSUME NEW S, NEW c, NEW D, NEW p, WellDefined(S, c, D, p)
  PROVE  \A n \in Nat : \E g : Approximates(g, n, S, c, D, p)
<1> USE DEF WellDefined
<1> DEFINE T == {n \in Nat : \E g : Approximates(g, n, S, c, D, p)}
<1>1. 0 \in T
  <2> DEFINE g == [k \in 0..0 |-> c]
  <2>1. Approximates(g, 0, S, c, D, p)
    BY DEF Approximates
  <2> QED
    BY <2>1
<1>2. ASSUME NEW n \in Nat, n \in T PROVE n + 1 \in T
  <2>1. PICK g : Approximates(g, n, S, c, D, p)
    BY <1>2
  <2> DEFINE h == [k \in 0..n + 1 |-> IF k <= n THEN g[k] ELSE D[n + 1][g[p[n + 1]]]]
  <2>2. g \in [0..n -> S] /\ p[n + 1] \in 0..n
    BY <2>1 DEF Approximates
  <2>3. g[p[n + 1]] \in S
    BY <2>2
  <2>4. D[n + 1][g[p[n + 1]]] \in S
    BY <2>3
  <2>5. h \in [0..n + 1 -> S]
    BY <2>2, <2>4
  <2>6. ASSUME NEW k \in 0..n + 1
        PROVE  h[k] = IF k = 0 THEN c ELSE D[k][h[p[k]]]
    <3>1. k # 0 => p[k] \in 0..n /\ p[k] \in 0..n + 1
      OBVIOUS
    <3>2. k # 0 => h[p[k]] = g[p[k]]
      BY <3>1
    <3>3. CASE k <= n
      BY <2>1, <3>2, <3>3 DEF Approximates
    <3>4. CASE k = n + 1
      BY <3>2, <3>4
    <3> QED
      BY <3>3, <3>4
  <2>7. Approximates(h, n + 1, S, c, D, p)
    BY <2>5, <2>6 DEF Approximates
  <2> QED
    BY <2>7
<1>3. Nat \subseteq T
  <2> HIDE DEF T
  <2> QED
    BY <1>1, <1>2, Induction
<1> QED
  BY <1>3

LEMMA Recursion ==
  ASSUME NEW S, NEW c, NEW D, NEW p, WellDefined(S, c, D, p)
  PROVE  \E f \in [Nat -> S] :
           \A n \in Nat : f[n] = IF n = 0 THEN c ELSE D[n][f[p[n]]]
<1> DEFINE A(g, n) == Approximates(g, n, S, c, D, p)
           G(n) == CHOOSE g : A(g, n)
           f == [n \in Nat |-> G(n)[n]]
<1>1. \A n \in Nat : A(G(n), n)
  BY ApproximationsExist
<1> HIDE DEF G
<1>0. /\ c \in S /\ D \in [Nat -> [S -> S]] /\ p \in [Nat -> Nat]
     /\ \A n \in Nat \ {0} : p[n] < n
  BY DEF WellDefined
<1>2. ASSUME NEW n \in Nat PROVE G(n)[n] \in S
  BY <1>1 DEF Approximates
<1>3. f \in [Nat -> S]
  BY <1>2
<1>4. ASSUME NEW n \in Nat
      PROVE  f[n] = IF n = 0 THEN c ELSE D[n][f[p[n]]]
  <2>0. n # 0 => p[n] \in Nat
    BY <1>0
  <2>1. G(n)[n] = IF n = 0 THEN c ELSE D[n][G(n)[p[n]]]
    BY <1>1 DEF Approximates
  <2>2. n # 0 => G(n)[p[n]] = G(p[n])[p[n]]
    <3> SUFFICES ASSUME n # 0 PROVE G(n)[p[n]] = G(p[n])[p[n]]
      OBVIOUS
    <3>1. p[n] \in Nat /\ p[n] < n
      BY <1>0
    <3>2. A(G(n), n) /\ A(G(p[n]), p[n])
      BY <1>1, <3>1
    <3> HIDE DEF f
    <3>3. \A k \in Nat : k <= n /\ k <= p[n] => G(n)[k] = G(p[n])[k]
      BY <3>1, <3>2, ApproximationsAgree
    <3> QED
      BY <3>1, <3>3
  <2> QED
    BY <2>0, <2>1, <2>2
<1> QED
  BY <1>3, <1>4

-----------------------------------------------------------------------------
(* The digits *)

Letters == {"0", "1", "2", "3", "4", "5", "6", "7", "8", "9",
            "a", "b", "c", "d", "e", "f", "A", "B", "C", "D", "E", "F"}

Alphabets == {Lower, Upper}

Bases == {10, 16}

LEMMA AlphabetType ==
  ASSUME NEW letters \in Alphabets
  PROVE  letters \in Seq(Letters) /\ Len(letters) = 16
<1>1. Lower \in Seq(Letters) /\ Len(Lower) = 16
  BY DEF Lower, Letters
<1>2. Upper \in Seq(Letters) /\ Len(Upper) = 16
  BY DEF Upper, Letters
<1> QED
  BY <1>1, <1>2 DEF Alphabets

(* The letter of a digit has the digit's value. *)
LEMMA DigitOfLetter ==
  ASSUME NEW letters \in Alphabets, NEW d \in 0..15
  PROVE  letters[d + 1] \in Letters /\ DigitValue(letters[d + 1]) = d
<1>1. letters[d + 1] \in Letters
  BY AlphabetType, ElementOfSeq
<1>2. ASSUME NEW v \in 0..15, NEW w \in 0..15, v # w
      PROVE  /\ Lower[v + 1] # Lower[w + 1] /\ Upper[v + 1] # Upper[w + 1]
             /\ Lower[v + 1] # Upper[w + 1]
  BY <1>2 DEF Lower, Upper
<1>3. \A v \in 0..15 : (Lower[v + 1] = letters[d + 1] \/ Upper[v + 1] = letters[d + 1])
                         <=> v = d
  BY <1>2 DEF Alphabets
<1> QED
  BY <1>1, <1>3 DEF DigitValue

(* The recursion of Numeral is well-founded: its equations hold. *)
LEMMA NumeralEquations ==
  ASSUME NEW base \in Bases, NEW letters \in Alphabets, NEW u \in Nat
  PROVE  /\ Numeral(u, base, letters) \in Seq(Letters)
         /\ u = 0 => Numeral(u, base, letters) = <<>>
         /\ u # 0 => /\ u \div base \in Nat /\ u \div base < u
                     /\ u % base \in 0..base - 1
                     /\ Numeral(u, base, letters) =
                          Append(Numeral(u \div base, base, letters),
                                 letters[(u % base) + 1])
<1> DEFINE S == Seq(Letters)
           D == [n \in Nat |-> [s \in S |-> Append(s, letters[(n % base) + 1])]]
           p == [n \in Nat |-> n \div base]
           Eq(f) == f = [n \in Nat |->
                           IF n = 0 THEN <<>>
                           ELSE Append(f[n \div base], letters[(n % base) + 1])]
           num == CHOOSE f : Eq(f)
<1>1. \A n \in Nat : /\ n \div base \in Nat /\ n % base \in 0..base - 1
                     /\ n # 0 => n \div base < n
  BY DEF Bases
<1>2. \A n \in Nat : letters[(n % base) + 1] \in Letters
  <2> TAKE n \in Nat
  <2>1. n % base \in 0..15
    BY DEF Bases
  <2> QED
    BY <2>1, DigitOfLetter
<1>3. WellDefined(S, <<>>, D, p)
  <2>1. <<>> \in S
    OBVIOUS
  <2>2. D \in [Nat -> [S -> S]]
    BY <1>2, AppendProperties
  <2>3. p \in [Nat -> Nat] /\ \A n \in Nat \ {0} : p[n] < n
    BY <1>1
  <2> QED
    BY <2>1, <2>2, <2>3 DEF WellDefined
<1>4. PICK f \in [Nat -> S] :
        \A n \in Nat : f[n] = IF n = 0 THEN <<>> ELSE D[n][f[p[n]]]
  <2> HIDE DEF S, D, p
  <2> QED
    BY <1>3, Recursion
<1>5. \A n \in Nat : f[n] = IF n = 0 THEN <<>>
                            ELSE Append(f[n \div base], letters[(n % base) + 1])
  BY <1>1, <1>4
<1>6. Eq(f)
  <2> HIDE DEF S
  <2> QED
    BY <1>5
<1>7. Eq(num)
  BY <1>6
<1>8. \A x : Numeral(x, base, letters) = num[x]
  BY DEF Numeral
<1> HIDE DEF num
<1>9. \A n \in Nat : num[n] = IF n = 0 THEN <<>>
                              ELSE Append(num[n \div base], letters[(n % base) + 1])
  BY <1>7
<1>10. Nat \subseteq {n \in Nat : num[n] \in Seq(Letters)}
  <2> DEFINE T == {n \in Nat : num[n] \in Seq(Letters)}
  <2>1. ASSUME NEW n \in Nat, 0..n - 1 \subseteq T PROVE n \in T
    <3>1. CASE n = 0
      <4>1. num[n] = <<>>
        BY <1>9, <3>1
      <4>2. num[n] \in Seq(Letters)
        BY <4>1
      <4> QED
        BY <4>2
    <3>2. CASE n # 0
      <4>0. n \div base \in 0..n - 1
        BY <1>1, <3>2
      <4>1. num[n \div base] \in Seq(Letters)
        BY <2>1, <4>0
      <4>2. num[n] = Append(num[n \div base], letters[(n % base) + 1])
        BY <1>9, <3>2
      <4>3. num[n] \in Seq(Letters)
        BY <1>2, <4>1, <4>2, AppendProperties
      <4> QED
        BY <4>3
    <3> QED
      BY <3>1, <3>2
  <2> HIDE DEF T
  <2>2. Nat \subseteq T
    BY <2>1, CourseOfValues
  <2> QED
    BY <2>2 DEF T
<1> QED
  BY <1>1, <1>8, <1>9, <1>10

(* The value of a letter is a digit's. *)
LEMMA DigitValueType ==
  ASSUME NEW c \in Letters
  PROVE  DigitValue(c) \in 0..15
<1>1. \E v \in 0..15 : Lower[v + 1] = c \/ Upper[v + 1] = c
  <2> DEFINE Is(v) == Lower[v + 1] = c \/ Upper[v + 1] = c
  <2>1. \/ Is(0) \/ Is(1) \/ Is(2) \/ Is(3) \/ Is(4) \/ Is(5) \/ Is(6) \/ Is(7)
        \/ Is(8) \/ Is(9) \/ Is(10) \/ Is(11) \/ Is(12) \/ Is(13) \/ Is(14) \/ Is(15)
    BY DEF Letters, Lower, Upper
  <2> HIDE DEF Is
  <2>2. \E v \in 0..15 : Is(v)
    BY <2>1
  <2> QED
    BY <2>2 DEF Is
<1> QED
  BY <1>1 DEF DigitValue

(* The values of the first characters of s, by their number. *)
ValuesOf(f, s, base) ==
  /\ f \in [0..Len(s) -> Nat]
  /\ f[0] = 0
  /\ \A n \in 1..Len(s) : f[n] = base * f[n - 1] + DigitValue(s[n])

(* Positional is the last of them. *)
LEMMA PositionalIsLast ==
  ASSUME NEW base \in Bases, NEW s \in Seq(Letters), NEW f, ValuesOf(f, s, base)
  PROVE  Positional(s, base) = f[Len(s)]
<1> DEFINE Eq(g) == g = [n \in 0..Len(s) |->
                           IF n = 0 THEN 0 ELSE base * g[n - 1] + DigitValue(s[n])]
           value == CHOOSE g : Eq(g)
<1>1. Positional(s, base) = value[Len(s)]
  BY DEF Positional
<1>2. Eq(f)
  BY DEF ValuesOf
<1>3. Eq(value)
  BY <1>2
<1> HIDE DEF value
<1>4. value[0] = 0 /\ \A n \in 1..Len(s) : value[n] = base * value[n - 1] + DigitValue(s[n])
  BY <1>3
<1> DEFINE T == {n \in Nat : n <= Len(s) => value[n] = f[n]}
<1>5. 0 \in T
  BY <1>4 DEF ValuesOf
<1>6. ASSUME NEW n \in Nat, n \in T PROVE n + 1 \in T
  <2> SUFFICES ASSUME n + 1 <= Len(s) PROVE value[n + 1] = f[n + 1]
    OBVIOUS
  <2>1. value[n] = f[n] /\ n + 1 \in 1..Len(s) /\ (n + 1) - 1 = n
    BY <1>6
  <2> QED
    BY <1>4, <2>1 DEF ValuesOf
<1> HIDE DEF T
<1>7. Nat \subseteq T
  BY <1>5, <1>6, Induction
<1> QED
  BY <1>1, <1>7 DEF T

LEMMA ValuesExist ==
  ASSUME NEW base \in Bases, NEW s \in Seq(Letters)
  PROVE  \E f : ValuesOf(f, s, base)
<1> DEFINE d == [n \in Nat |-> IF n \in 1..Len(s) THEN DigitValue(s[n]) ELSE 0]
           D == [n \in Nat |-> [v \in Nat |-> base * v + d[n]]]
           p == [n \in Nat |-> IF n = 0 THEN 0 ELSE n - 1]
<1>1. d \in [Nat -> Nat]
  <2>1. \A n \in 1..Len(s) : DigitValue(s[n]) \in Nat
    BY DigitValueType
  <2> QED
    BY <2>1
<1>2. WellDefined(Nat, 0, D, p)
  <2> HIDE DEF d
  <2>1. \A n, v \in Nat : base * v + d[n] \in Nat
    BY <1>1 DEF Bases
  <2>2. D \in [Nat -> [Nat -> Nat]]
    BY <2>1
  <2>3. p \in [Nat -> Nat] /\ \A n \in Nat \ {0} : p[n] < n
    OBVIOUS
  <2> QED
    BY <2>2, <2>3 DEF WellDefined
<1>3. PICK f \in [Nat -> Nat] :
        \A n \in Nat : f[n] = IF n = 0 THEN 0 ELSE D[n][f[p[n]]]
  <2> HIDE DEF D, p
  <2> QED
    BY <1>2, Recursion
<1>4. \A n \in Nat \ {0} : f[n] = base * f[n - 1] + d[n]
  <2> HIDE DEF d
  <2> TAKE n \in Nat \ {0}
  <2>1. p[n] = n - 1 /\ n - 1 \in Nat /\ f[n - 1] \in Nat
    OBVIOUS
  <2>2. f[n] = D[n][f[n - 1]]
    <3> HIDE DEF D
    <3> QED
      BY <1>3, <2>1
  <2> QED
    BY <2>1, <2>2
<1>5. f[0] = 0
  BY <1>3
<1> DEFINE g == [n \in 0..Len(s) |-> f[n]]
<1>6. ValuesOf(g, s, base)
  <2>1. Len(s) \in Nat
    OBVIOUS
  <2>2. g \in [0..Len(s) -> Nat] /\ g[0] = 0
    BY <1>5, <2>1
  <2>3. ASSUME NEW n \in 1..Len(s)
        PROVE  g[n] = base * g[n - 1] + DigitValue(s[n])
    <3>1. d[n] = DigitValue(s[n])
      OBVIOUS
    <3>2. n \in 0..Len(s) /\ n - 1 \in 0..Len(s) /\ n \in Nat \ {0}
      OBVIOUS
    <3> HIDE DEF d
    <3> QED
      BY <1>4, <3>1, <3>2
  <2> HIDE DEF g
  <2> QED
    BY <2>2, <2>3 DEF ValuesOf
<1> QED
  BY <1>6

(* One more digit. *)
LEMMA PositionalAppend ==
  ASSUME NEW base \in Bases, NEW s \in Seq(Letters), NEW c \in Letters
  PROVE  /\ Positional(s, base) \in Nat
         /\ Positional(Append(s, c), base) = base * Positional(s, base) + DigitValue(c)
<1> DEFINE t == Append(s, c)
<1>1. PICK f : ValuesOf(f, s, base)
  BY ValuesExist
<1>2. Positional(s, base) = f[Len(s)] /\ Positional(s, base) \in Nat
  BY <1>1, PositionalIsLast DEF ValuesOf
<1>3. /\ t \in Seq(Letters) /\ Len(t) = Len(s) + 1 /\ t[Len(s) + 1] = c
      /\ \A n \in 1..Len(s) : t[n] = s[n]
  BY AppendProperties
<1> HIDE DEF t
<1> DEFINE last == base * f[Len(s)] + DigitValue(c)
           g == [n \in 0..Len(t) |-> IF n <= Len(s) THEN f[n] ELSE last]
<1>4. last \in Nat
  <2>1. f[Len(s)] \in Nat /\ DigitValue(c) \in Nat
    BY <1>2, DigitValueType
  <2> QED
    BY <2>1 DEF Bases
<1> HIDE DEF last
<1>5. ValuesOf(g, t, base)
  <2>1. g \in [0..Len(t) -> Nat] /\ g[0] = 0
    BY <1>1, <1>3, <1>4 DEF ValuesOf
  <2>2. ASSUME NEW n \in 1..Len(t)
        PROVE  g[n] = base * g[n - 1] + DigitValue(t[n])
    <3>1. CASE n <= Len(s)
      BY <1>1, <1>3, <3>1 DEF ValuesOf
    <3>2. CASE n = Len(s) + 1
      BY <1>3, <3>2 DEF last
    <3> QED
      BY <1>3, <3>1, <3>2
  <2> HIDE DEF g
  <2> QED
    BY <2>1, <2>2 DEF ValuesOf
<1>6. Positional(t, base) = g[Len(t)]
  <2> HIDE DEF g
  <2> QED
    BY <1>3, <1>5, PositionalIsLast
<1>7. g[Len(t)] = last
  BY <1>3
<1> QED
  BY <1>2, <1>6, <1>7 DEF t, last

(* Zeros in front do not change a value. *)
LEMMA LeadingZeros ==
  ASSUME NEW base \in Bases, NEW s \in Seq(Letters), NEW z \in Nat
  PROVE  Positional(Fill("0", z) \o s, base) = Positional(s, base)
<1> DEFINE zeros == Fill("0", z)
           t == zeros \o s
<1>1. zeros \in Seq(Letters) /\ Len(zeros) = z /\ \A n \in 1..z : zeros[n] = "0"
  <2>1. "0" \in Letters
    BY DEF Letters
  <2> QED
    BY <2>1 DEF Fill
<1> HIDE DEF zeros
<1>2. /\ t \in Seq(Letters) /\ Len(t) = z + Len(s)
      /\ \A n \in 1..z : t[n] = "0"
      /\ \A n \in z + 1..z + Len(s) : t[n] = s[n - z]
  <2>1. /\ t \in Seq(Letters) /\ Len(t) = z + Len(s)
        /\ \A n \in 1..z + Len(s) : t[n] = IF n <= z THEN zeros[n] ELSE s[n - z]
    BY <1>1, ConcatProperties
  <2> HIDE DEF t
  <2>2. Len(s) \in Nat
    OBVIOUS
  <2> QED
    BY <1>1, <2>1, <2>2
<1> HIDE DEF t
<1>3. DigitValue("0") = 0
  <2>1. Lower[0 + 1] = "0"
    BY DEF Lower
  <2> QED
    BY <2>1, DigitOfLetter DEF Alphabets
<1>4. PICK f : ValuesOf(f, s, base)
  BY ValuesExist
<1> DEFINE g == [n \in 0..Len(t) |-> IF n <= z THEN 0 ELSE f[n - z]]
<1>5. ValuesOf(g, t, base)
  <2>1. g \in [0..Len(t) -> Nat] /\ g[0] = 0
    BY <1>2, <1>4 DEF ValuesOf
  <2>2. ASSUME NEW n \in 1..Len(t)
        PROVE  g[n] = base * g[n - 1] + DigitValue(t[n])
    <3>1. CASE n <= z
      BY <1>2, <1>3, <3>1 DEF Bases
    <3>2. CASE n > z
      <4>1. n - z \in 1..Len(s) /\ t[n] = s[n - z] /\ (n - 1) - z = (n - z) - 1
        BY <1>2, <3>2
      <4>2. g[n] = f[n - z] /\ g[n - 1] = f[(n - z) - 1]
        BY <1>2, <1>4, <3>2, <4>1 DEF ValuesOf
      <4>3. f[n - z] = base * f[(n - z) - 1] + DigitValue(s[n - z])
        BY <1>4, <4>1 DEF ValuesOf
      <4> QED
        BY <4>1, <4>2, <4>3
    <3> QED
      BY <3>1, <3>2
  <2> HIDE DEF g
  <2> QED
    BY <2>1, <2>2 DEF ValuesOf
<1>6. Positional(t, base) = g[Len(t)] /\ Positional(s, base) = f[Len(s)]
  <2> HIDE DEF g
  <2> QED
    BY <1>2, <1>4, <1>5, PositionalIsLast
<1>7. g[Len(t)] = f[Len(s)]
  BY <1>2, <1>4 DEF ValuesOf
<1> QED
  BY <1>6, <1>7 DEF t, zeros

(* Dividing and multiplying. *)
LEMMA Division ==
  ASSUME NEW base \in Bases, NEW n \in Nat
  PROVE  /\ n \div base \in Nat /\ n % base \in 0..base - 1 /\ n % base \in 0..15
         /\ n = base * (n \div base) + (n % base)
         /\ n # 0 => n \div base \in 0..n - 1
<1>1. /\ n \div 10 \in Nat /\ n % 10 \in 0..9
      /\ n # 0 => n \div 10 \in 0..n - 1
  OBVIOUS
<1>2. /\ n \div 16 \in Nat /\ n % 16 \in 0..15
      /\ n # 0 => n \div 16 \in 0..n - 1
  OBVIOUS
<1>3. n = 10 * (n \div 10) + (n % 10)
  OBVIOUS
<1>4. n = 16 * (n \div 16) + (n % 16)
  OBVIOUS
<1>5. CASE base = 10
  BY <1>1, <1>3, <1>5
<1>6. CASE base = 16
  BY <1>2, <1>4, <1>6
<1> QED
  BY <1>5, <1>6 DEF Bases

(* The numeral of a number has its value. *)
LEMMA NumeralValue ==
  ASSUME NEW base \in Bases, NEW letters \in Alphabets, NEW u \in Nat
  PROVE  Positional(Numeral(u, base, letters), base) = u
<1> DEFINE T == {n \in Nat : Positional(Numeral(n, base, letters), base) = n}
<1>1. ASSUME NEW n \in Nat, 0..n - 1 \subseteq T PROVE n \in T
  <2>1. CASE n = 0
    <3>1. Numeral(n, base, letters) = <<>>
      BY <2>1, NumeralEquations
    <3> DEFINE f == [k \in 0..0 |-> 0]
    <3>2. <<>> \in Seq(Letters) /\ ValuesOf(f, <<>>, base)
      BY DEF ValuesOf
    <3>3. Positional(<<>>, base) = f[Len(<<>>)]
      <4> HIDE DEF f
      <4> QED
        BY <3>2, PositionalIsLast
    <3>4. Positional(Numeral(n, base, letters), base) = n
      BY <2>1, <3>1, <3>3
    <3> QED
      BY <3>4
  <2>2. CASE n # 0
    <3> DEFINE q == n \div base
               s == Numeral(q, base, letters)
               d == n % base
    <3>1. q \in 0..n - 1 /\ d \in 0..15 /\ n = base * q + d
      BY <2>2, Division, Zenon
    <3>2. Positional(s, base) = q
      BY <1>1, <3>1
    <3>3. Numeral(n, base, letters) = Append(s, letters[d + 1])
      BY <2>2, NumeralEquations
    <3>4. s \in Seq(Letters)
      BY <3>1, NumeralEquations
    <3>5. letters[d + 1] \in Letters /\ DigitValue(letters[d + 1]) = d
      BY <3>1, DigitOfLetter
    <3> HIDE DEF q, s, d
    <3>6. Positional(Append(s, letters[d + 1]), base) = base * q + d
      BY <3>2, <3>4, <3>5, PositionalAppend
    <3>7. Positional(Numeral(n, base, letters), base) = n
      BY <3>1, <3>3, <3>6
    <3> QED
      BY <3>7
  <2> QED
    BY <2>1, <2>2
<1> HIDE DEF T
<1>2. Nat \subseteq T
  BY <1>1, CourseOfValues
<1> QED
  BY <1>2 DEF T

(* The recursion of Power. *)
LEMMA PowerEquations ==
  ASSUME NEW base \in Bases
  PROVE  /\ Power(base, 0) = 1
         /\ \A n \in Nat : /\ Power(base, n) \in Nat \ {0}
                           /\ Power(base, n + 1) = base * Power(base, n)
<1> DEFINE S == Nat \ {0}
           D == [n \in Nat |-> [v \in S |-> base * v]]
           p == [n \in Nat |-> IF n = 0 THEN 0 ELSE n - 1]
           Eq(f) == f = [k \in Nat |-> IF k = 0 THEN 1 ELSE base * f[k - 1]]
           power == CHOOSE f : Eq(f)
<1>1. WellDefined(S, 1, D, p)
  <2>1. \A v \in S : base * v \in S
    BY DEF Bases
  <2>2. D \in [Nat -> [S -> S]]
    BY <2>1
  <2>3. p \in [Nat -> Nat] /\ \A n \in Nat \ {0} : p[n] < n
    OBVIOUS
  <2> QED
    BY <2>2, <2>3 DEF WellDefined
<1>2. PICK f \in [Nat -> S] : \A n \in Nat : f[n] = IF n = 0 THEN 1 ELSE D[n][f[p[n]]]
  <2> HIDE DEF S, D, p
  <2> QED
    BY <1>1, Recursion
<1>3. \A n \in Nat : f[n] = IF n = 0 THEN 1 ELSE base * f[n - 1]
  <2> TAKE n \in Nat
  <2>1. n # 0 => p[n] = n - 1 /\ n - 1 \in Nat /\ f[n - 1] \in S
    OBVIOUS
  <2>2. f[n] = IF n = 0 THEN 1 ELSE D[n][f[p[n]]]
    BY <1>2
  <2> QED
    BY <2>1, <2>2
<1>4. Eq(f)
  <2> HIDE DEF S
  <2> QED
    BY <1>3
<1>5. Eq(power)
  BY <1>4
<1>6. \A n : Power(base, n) = power[n]
  BY DEF Power
<1> HIDE DEF power
<1>7. power[0] = 1 /\ \A n \in Nat : power[n + 1] = base * power[n]
  BY <1>5
<1> DEFINE T == {n \in Nat : power[n] \in Nat \ {0}}
<1>8. 0 \in T
  BY <1>7
<1>9. ASSUME NEW n \in Nat, n \in T PROVE n + 1 \in T
  BY <1>7, <1>9 DEF Bases
<1> HIDE DEF T
<1>10. Nat \subseteq T
  BY <1>8, <1>9, Induction
<1> QED
  BY <1>6, <1>7, <1>10 DEF T

(* A larger exponent, a larger power. *)
LEMMA PowerMonotonic ==
  ASSUME NEW base \in Bases, NEW m \in Nat, NEW n \in Nat, m <= n
  PROVE  Power(base, m) <= Power(base, n)
<1> DEFINE T == {k \in Nat : Power(base, m) <= Power(base, m + k)}
<1>1. 0 \in T
  BY PowerEquations
<1>2. ASSUME NEW k \in Nat, k \in T PROVE k + 1 \in T
  <2>1. Power(base, m + k) \in Nat /\ Power(base, (m + k) + 1) = base * Power(base, m + k)
    BY PowerEquations
  <2>2. Power(base, m) \in Nat /\ m + (k + 1) = (m + k) + 1
    BY PowerEquations
  <2> QED
    BY <1>2, <2>1, <2>2 DEF Bases
<1> HIDE DEF T
<1>3. Nat \subseteq T
  BY <1>1, <1>2, Induction
<1>4. n - m \in T /\ m + (n - m) = n
  BY <1>3
<1> QED
  BY <1>4 DEF T

(* A numeral has a digit for each power of the base that the number reaches. *)
LEMMA NumeralLength ==
  ASSUME NEW base \in Bases, NEW letters \in Alphabets, NEW u \in Nat \ {0}
  PROVE  LET n == Len(Numeral(u, base, letters))
         IN /\ n \in Nat \ {0}
            /\ Power(base, n - 1) <= u
            /\ u < Power(base, n)
<1> DEFINE L(n) == Len(Numeral(n, base, letters))
           Fits(n) == L(n) \in Nat \ {0} /\ Power(base, L(n) - 1) <= n /\ n < Power(base, L(n))
           T == {n \in Nat : n # 0 => Fits(n)}
<1>1. ASSUME NEW n \in Nat, 0..n - 1 \subseteq T PROVE n \in T
  <2> SUFFICES ASSUME n # 0 PROVE Fits(n)
    OBVIOUS
  <2> DEFINE q == n \div base
             d == n % base
  <2>1. q \in 0..n - 1 /\ d \in 0..base - 1 /\ d \in 0..15 /\ n = base * q + d
    BY Division, Zenon
  <2>2. /\ Numeral(n, base, letters) = Append(Numeral(q, base, letters), letters[d + 1])
        /\ Numeral(q, base, letters) \in Seq(Letters) /\ q \in Nat
        /\ q = 0 => Numeral(q, base, letters) = <<>>
    BY <2>1, NumeralEquations
  <2>3. q # 0 => Fits(q)
    BY <1>1, <2>1
  <2>4. L(n) = L(q) + 1 /\ L(q) \in Nat
    BY <2>1, <2>2, DigitOfLetter, AppendProperties
  <2>5. /\ Power(base, 0) = 1 /\ Power(base, 0 + 1) = base * Power(base, 0)
        /\ Power(base, L(q)) \in Nat
        /\ Power(base, L(q) + 1) = base * Power(base, L(q))
        /\ L(q) # 0 => /\ Power(base, L(q) - 1) \in Nat
                       /\ Power(base, L(q)) = base * Power(base, L(q) - 1)
    <3>1. L(q) # 0 => L(q) - 1 \in Nat /\ (L(q) - 1) + 1 = L(q)
      BY <2>4
    <3> HIDE DEF L
    <3> QED
      BY <2>4, <3>1, PowerEquations
  <2>6. CASE q = 0
    <3>1. L(q) = 0
      BY <2>2, <2>6
    <3> HIDE DEF L, q, d
    <3> QED
      BY <2>1, <2>4, <2>5, <2>6, <3>1 DEF Bases
  <2>7. CASE q # 0
    <3>1. Fits(q)
      BY <2>3, <2>7
    <3> HIDE DEF L, q, d
    <3>2. L(n) - 1 = L(q) /\ L(n) = L(q) + 1 /\ L(q) # 0
      BY <2>4, <3>1
    <3>3. base * Power(base, L(q) - 1) <= n /\ n < base * Power(base, L(q))
      BY <2>1, <2>5, <3>1 DEF Bases
    <3> QED
      BY <2>4, <2>5, <3>2, <3>3
  <2> HIDE DEF q
  <2> QED
    BY <2>6, <2>7
<1> HIDE DEF T
<1>2. Nat \subseteq T
  BY <1>1, CourseOfValues
<1> QED
  BY <1>2 DEF T

-----------------------------------------------------------------------------
(* One field *)

(* The characters of a text.  The provers do not know that a literal is in
   STRING. *)
Symbols ==
  STRING \cup Letters \cup {" ", "-", "%", "NUL", "(", "n", "u", "l", ")"}

LEMMA Characters ==
  /\ STRING \subseteq Symbols /\ Letters \subseteq Symbols
  /\ {" ", "0", "-", "%", "NUL"} \subseteq Symbols
  /\ NullString \in Seq(Symbols)
  /\ " " \notin Letters /\ "-" \notin Letters /\ "0" \in Letters
<1>1. /\ STRING \subseteq Symbols /\ Letters \subseteq Symbols
      /\ " " \in Symbols /\ "-" \in Symbols /\ "%" \in Symbols /\ "NUL" \in Symbols
      /\ "(" \in Symbols /\ "n" \in Symbols /\ "u" \in Symbols /\ "l" \in Symbols
      /\ ")" \in Symbols
  BY DEF Symbols
<1>2. " " \notin Letters
  BY DEF Letters
<1>3. "-" \notin Letters
  BY DEF Letters
<1>4. "0" \in Letters
  BY DEF Letters
<1>5. NullString \in Seq(Symbols)
  BY DEF NullString, Symbols
<1> QED
  BY <1>1, <1>2, <1>3, <1>4, <1>5

(* A run of one character. *)
LEMMA FillProperties ==
  ASSUME NEW S, NEW c \in S, NEW n \in Nat
  PROVE  Fill(c, n) \in Seq(S) /\ Len(Fill(c, n)) = n /\ \A k \in 1..n : Fill(c, n)[k] = c
BY DEF Fill

(* The text t is the string, adjusted in a field, character by character. *)
Adjusted(t, string, width, left, zero) ==
  LET c == IF zero THEN "0" ELSE " "
      p == Padding(width, Len(string))
  IN /\ t \in Seq(Symbols)
     /\ p \in Nat /\ Len(t) = Len(string) + p
     /\ Len(t) = IF width > Len(string) THEN width ELSE Len(string)
     /\ left => \A k \in 1..Len(t) :
          t[k] = IF k <= Len(string) THEN string[k] ELSE c
     /\ ~left => \A k \in 1..Len(t) :
          t[k] = IF k <= p THEN c ELSE string[k - p]

LEMMA PrintsAdjusts ==
  ASSUME NEW string \in Seq(Symbols), NEW width \in Nat,
         NEW left \in BOOLEAN, NEW zero \in BOOLEAN
  PROVE  Adjusted(prints(string, width, left, zero), string, width, left, zero)
<1> DEFINE c == IF zero THEN "0" ELSE " "
           p == Padding(width, Len(string))
           fill == Fill(c, p)
<1>1. p \in Nat /\ Len(string) \in Nat
      /\ Len(string) + p = IF width > Len(string) THEN width ELSE Len(string)
  BY DEF Padding
<1>2. c \in Symbols
  BY Characters
<1> HIDE DEF c, p, Adjusted
<1>3. fill \in Seq(Symbols) /\ Len(fill) = p /\ \A k \in 1..p : fill[k] = c
  BY <1>1, <1>2, FillProperties
<1>4. prints(string, width, left, zero) = IF left THEN string \o fill ELSE fill \o string
  BY DEF prints, c, p
<1> HIDE DEF fill
<1>5. CASE left
  <2>1. prints(string, width, left, zero) = string \o fill
    BY <1>4, <1>5
  <2>2. /\ string \o fill \in Seq(Symbols) /\ Len(string \o fill) = Len(string) + p
        /\ \A k \in 1..Len(string) + p :
             (string \o fill)[k] = IF k <= Len(string) THEN string[k] ELSE fill[k - Len(string)]
    BY <1>3, ConcatProperties
  <2>3. \A k \in 1..Len(string) + p : ~(k <= Len(string)) => fill[k - Len(string)] = c
    BY <1>1, <1>3
  <2> QED
    BY <1>1, <1>5, <2>1, <2>2, <2>3 DEF c, p, Adjusted
<1>6. CASE ~left
  <2>1. prints(string, width, left, zero) = fill \o string
    BY <1>4, <1>6
  <2>2. /\ fill \o string \in Seq(Symbols) /\ Len(fill \o string) = p + Len(string)
        /\ \A k \in 1..p + Len(string) :
             (fill \o string)[k] = IF k <= p THEN fill[k] ELSE string[k - p]
    BY <1>3, ConcatProperties
  <2>3. \A k \in 1..p + Len(string) : k <= p => fill[k] = c
    BY <1>1, <1>3
  <2>4. \A k \in 1..p + Len(string) :
          (fill \o string)[k] = IF k <= p THEN c ELSE string[k - p]
    BY <2>2, <2>3
  <2>5. Len(fill \o string) = Len(string) + p /\ p + Len(string) = Len(string) + p
    BY <1>1, <2>2
  <2> QED
    BY <1>1, <1>6, <2>1, <2>2, <2>4, <2>5 DEF c, p, Adjusted
<1> QED
  BY <1>5, <1>6

(* The digits of a number, and what they stand for. *)
Number(conv, i) ==
  IF i = 0 THEN <<"0">>
  ELSE Numeral(Magnitude(conv, i), Base(conv), IF conv = "X" THEN Upper ELSE Lower)

ValueOf(conv, i) == IF Negative(conv, i) THEN -i ELSE i % Word

LEMMA NumberProperties ==
  ASSUME NEW conv \in Conversion, NEW i \in Ints
  PROVE  LET num == Number(conv, i)
             base == Base(conv)
             v == ValueOf(conv, i)
         IN /\ base \in Bases
            /\ num \in Seq(Letters) /\ Len(num) \in Nat \ {0}
            /\ v \in Nat /\ Positional(num, base) = v
            /\ v < Power(base, Len(num))
            /\ Len(num) > 1 => Power(base, Len(num) - 1) <= v
            /\ Negative(conv, i) => v <= Word \div 2
            /\ v < Word
<1> DEFINE base == Base(conv)
           v == ValueOf(conv, i)
           letters == IF conv = "X" THEN Upper ELSE Lower
<1>1. base \in Bases /\ letters \in Alphabets
  BY DEF Base, Bases, Alphabets
<1>2. /\ Word \in Nat \ {0} /\ Word \div 2 \in Nat /\ Word = 2 * (Word \div 2)
      /\ i \in Int /\ -(Word \div 2) <= i /\ i < Word \div 2
  <2>1. Word \in Nat \ {0} /\ Word % 2 = 0
    BY PrintfAssumption
  <2>2. Word \div 2 \in Nat /\ Word = 2 * (Word \div 2)
    BY <2>1
  <2>3. i \in -(Word \div 2)..Word \div 2 - 1
    BY PrintfAssumption
  <2> QED
    BY <2>1, <2>2, <2>3
<1>3. /\ v \in Nat /\ v < Word
      /\ Negative(conv, i) => v <= Word \div 2
      /\ v = Magnitude(conv, i) /\ (v = 0 <=> i = 0)
  <2>1. CASE Negative(conv, i)
    <3>1. i < 0 /\ -i \in 1..Word \div 2 /\ Word \div 2 < Word
      BY <1>2, <2>1 DEF Negative
    <3>2. (-i) % Word = -i
      BY <1>2, <3>1
    <3> QED
      BY <1>2, <2>1, <3>1, <3>2 DEF ValueOf, Magnitude
  <2>2. CASE ~Negative(conv, i)
    <3>1. i % Word \in 0..Word - 1
      BY <1>2
    <3>2. i >= 0 => i % Word = i
      BY <1>2
    <3>3. i < 0 => i % Word = i + Word /\ i + Word # 0
      BY <1>2
    <3> QED
      BY <1>2, <2>2, <3>1, <3>2, <3>3 DEF ValueOf, Magnitude
  <2> QED
    BY <2>1, <2>2
<1> HIDE DEF base, v, letters
<1>4. CASE i = 0
  <2>0. "0" \in Letters
    BY Characters
  <2>1. /\ Number(conv, i) = Append(<<>>, "0") /\ Len(<<>>) = 0
        /\ <<>> \in Seq(Letters)
    BY <1>4 DEF Number
  <2>2. Number(conv, i) \in Seq(Letters) /\ Len(Number(conv, i)) = 1
    BY <2>0, <2>1, AppendProperties
  <2>3. DigitValue("0") = 0
    <3>1. Lower[0 + 1] = "0"
      BY DEF Lower
    <3> QED
      BY <3>1, DigitOfLetter DEF Alphabets
  <2>4. Positional(<<>>, base) = 0
    <3>1. Numeral(0, base, Lower) = <<>> /\ Positional(Numeral(0, base, Lower), base) = 0
      BY <1>1, NumeralEquations, NumeralValue DEF Alphabets
    <3> QED
      BY <3>1
  <2>5. Positional(Number(conv, i), base) = base * 0 + 0
    BY <1>1, <2>0, <2>1, <2>3, <2>4, PositionalAppend
  <2>6. Power(base, 1) = base
    <3>1. Power(base, 0) = 1 /\ Power(base, 0 + 1) = base * Power(base, 0)
      BY <1>1, PowerEquations
    <3> QED
      BY <1>1, <3>1 DEF Bases
  <2>7. Positional(Number(conv, i), base) = 0 /\ 0 < Power(base, 1)
    BY <1>1, <2>5, <2>6 DEF Bases
  <2>8. v = 0 /\ Len(Number(conv, i)) - 1 = 0
    BY <1>3, <1>4, <2>2
  <2>9. v < Power(base, Len(Number(conv, i)))
    BY <2>2, <2>7, <2>8
  <2> QED
    BY <1>1, <1>3, <2>2, <2>7, <2>8, <2>9 DEF base, v
<1>5. CASE i # 0
  <2>1. Number(conv, i) = Numeral(v, base, letters) /\ v \in Nat \ {0}
    BY <1>3, <1>5 DEF Number, base, letters
  <2>2. Number(conv, i) \in Seq(Letters) /\ Positional(Number(conv, i), base) = v
    BY <1>1, <1>3, <2>1, NumeralEquations, NumeralValue
  <2>3. LET n == Len(Numeral(v, base, letters))
        IN n \in Nat \ {0} /\ Power(base, n - 1) <= v /\ v < Power(base, n)
    BY <1>1, <2>1, NumeralLength
  <2> QED
    BY <1>1, <1>3, <2>1, <2>2, <2>3 DEF base, v
<1> QED
  BY <1>4, <1>5

LEMMA PrintBuf ==
  ASSUME NEW conv, NEW i, NEW width, NEW zero
  PROVE  print_buf(conv, i, width, zero) =
           IF Negative(conv, i) /\ ~SignFirst(conv, i, width, zero)
             THEN <<"-">> \o Number(conv, i) ELSE Number(conv, i)
BY DEF print_buf, Number

(* A sign in front of a text. *)
LEMMA SignInFront ==
  ASSUME NEW s \in Seq(Symbols)
  PROVE  LET t == <<"-">> \o s
         IN /\ t \in Seq(Symbols) /\ Len(t) = Len(s) + 1
            /\ \A k \in 1..Len(t) : t[k] = IF k = 1 THEN "-" ELSE s[k - 1]
<1>1. <<"-">> \in Seq(Symbols) /\ Len(<<"-">>) = 1 /\ <<"-">>[1] = "-"
  <2>1. "-" \in Symbols
    BY Characters
  <2> QED
    BY <2>1
<1>2. /\ <<"-">> \o s \in Seq(Symbols) /\ Len(<<"-">> \o s) = 1 + Len(s)
      /\ \A k \in 1..1 + Len(s) : (<<"-">> \o s)[k] =
           IF k <= 1 THEN <<"-">>[k] ELSE s[k - 1]
  BY <1>1, ConcatProperties
<1>3. Len(s) \in Nat
  OBVIOUS
<1> QED
  BY <1>1, <1>2, <1>3

(* The characters that a number and its sign take. *)
Taken(conv, i) == Len(Number(conv, i)) + (IF Negative(conv, i) THEN 1 ELSE 0)

(* The text t is the number in its field, character by character: a sign
   stands in front of zeros and behind blanks. *)
Printed(t, conv, i, width, left, zero) ==
  LET num == Number(conv, i)
      neg == Negative(conv, i)
      n == Taken(conv, i)
      p == Len(t) - n
      c == IF zero THEN "0" ELSE " "
  IN /\ t \in Seq(Symbols)
     /\ Len(t) = IF width > n THEN width ELSE n
     /\ left => \A k \in 1..Len(t) :
          t[k] = IF neg /\ k = 1 THEN "-"
                 ELSE IF k <= n THEN num[k - (n - Len(num))] ELSE c
     /\ ~left /\ neg /\ zero => \A k \in 1..Len(t) :
          t[k] = IF k = 1 THEN "-"
                 ELSE IF k <= p + 1 THEN "0" ELSE num[k - 1 - p]
     /\ ~left /\ ~(neg /\ zero) => \A k \in 1..Len(t) :
          t[k] = IF k <= p THEN c
                 ELSE IF neg /\ k = p + 1 THEN "-"
                 ELSE num[k - p - (n - Len(num))]

LEMMA PrintiLayout ==
  ASSUME NEW conv \in Conversion, NEW i \in Ints, NEW width \in Nat,
         NEW left \in BOOLEAN, NEW zero \in BOOLEAN
  PROVE  Printed(printi(conv, i, width, left, zero), conv, i, width, left, zero)
<1> DEFINE t == printi(conv, i, width, left, zero)
           num == Number(conv, i)
           neg == Negative(conv, i)
           n == Taken(conv, i)
           c == IF zero THEN "0" ELSE " "
<1>1. num \in Seq(Symbols) /\ Len(num) \in Nat \ {0}
  <2>1. num \in Seq(Letters) /\ Len(num) \in Nat \ {0}
    BY NumberProperties
  <2> QED
    BY <2>1, Characters, SeqMonotonic
<1>2. n = Len(num) + (IF neg THEN 1 ELSE 0) /\ n \in Nat
  BY <1>1 DEF Taken
<1>3. CASE SignFirst(conv, i, width, zero)
  <2> DEFINE u == prints(num, width - 1, left, zero)
             q == Padding(width - 1, Len(num))
  <2>1. neg /\ zero /\ width - 1 \in Nat
    BY <1>3 DEF SignFirst
  <2>2. t = <<"-">> \o u
    BY <1>3, PrintBuf DEF printi
  <2>3. /\ u \in Seq(Symbols) /\ q \in Nat /\ Len(u) = Len(num) + q
        /\ Len(u) = IF width - 1 > Len(num) THEN width - 1 ELSE Len(num)
        /\ left => \A k \in 1..Len(u) : u[k] = IF k <= Len(num) THEN num[k] ELSE c
        /\ ~left => \A k \in 1..Len(u) : u[k] = IF k <= q THEN c ELSE num[k - q]
    <3>1. Adjusted(u, num, width - 1, left, zero)
      <4> HIDE DEF num
      <4> QED
        BY <1>1, <2>1, PrintsAdjusts
    <3> HIDE DEF u, num
    <3> QED
      BY <3>1 DEF Adjusted
  <2> HIDE DEF u, q, t, num, neg, n, c
  <2>4. /\ t \in Seq(Symbols) /\ Len(t) = Len(u) + 1
        /\ \A k \in 1..Len(t) : t[k] = IF k = 1 THEN "-" ELSE u[k - 1]
    BY <2>2, <2>3, SignInFront
  <2>5. n = Len(num) + 1 /\ Len(t) = (IF width > n THEN width ELSE n) /\ Len(t) - n = q
    <3>1. n = Len(num) + 1
      BY <1>2, <2>1
    <3>2. Len(t) = Len(num) + q + 1
      BY <2>3, <2>4
    <3>3. CASE width > n
      <4>1. width - 1 > Len(num)
        BY <1>1, <3>1, <3>3
      <4>2. Len(u) = width - 1
        BY <2>3, <4>1
      <4>3. Len(t) = width
        BY <2>4, <4>2
      <4>4. Len(t) - n = q
        BY <1>1, <2>3, <3>1, <3>2
      <4> QED
        BY <3>1, <3>3, <4>3, <4>4
    <3>4. CASE ~(width > n)
      <4>1. ~(width - 1 > Len(num))
        BY <1>1, <3>1, <3>4
      <4> QED
        BY <1>1, <2>3, <2>4, <3>1, <3>2, <3>4, <4>1
    <3> QED
      BY <3>3, <3>4
  <2>6. ASSUME left, NEW k \in 1..Len(t)
        PROVE  t[k] = IF neg /\ k = 1 THEN "-"
                      ELSE IF k <= n THEN num[k - (n - Len(num))] ELSE c
    <3>1. k # 1 => k - 1 \in 1..Len(u)
      BY <1>1, <2>3, <2>4
    <3>2. k # 1 => t[k] = IF k - 1 <= Len(num) THEN num[k - 1] ELSE c
      BY <2>3, <2>4, <2>6, <3>1
    <3>3. k # 1 => t[k] = IF k <= n THEN num[k - 1] ELSE c
      BY <1>1, <2>5, <3>2
    <3> QED
      BY <1>1, <2>1, <2>4, <2>5, <3>3
  <2>7. ASSUME ~left, NEW k \in 1..Len(t)
        PROVE  t[k] = IF k = 1 THEN "-" ELSE IF k <= q + 1 THEN "0" ELSE num[k - 1 - q]
    <3>1. k # 1 => k - 1 \in 1..Len(u)
      BY <1>1, <2>3, <2>4
    <3>2. k # 1 => t[k] = IF k - 1 <= q THEN c ELSE num[(k - 1) - q]
      BY <2>3, <2>4, <2>7, <3>1
    <3>3. c = "0"
      BY <2>1 DEF c
    <3> QED
      BY <2>3, <2>4, <3>2, <3>3
  <2> QED
    BY <2>1, <2>4, <2>5, <2>6, <2>7 DEF t, num, neg, n, c, Printed
<1>4. CASE ~SignFirst(conv, i, width, zero)
  <2> DEFINE s == print_buf(conv, i, width, zero)
             q == Padding(width, Len(s))
  <2>1. t = prints(s, width, left, zero)
    BY <1>4 DEF printi
  <2>2. s = IF neg THEN <<"-">> \o num ELSE num
    BY <1>4, PrintBuf
  <2>3. s \in Seq(Symbols) /\ Len(s) = n
        /\ \A k \in 1..n : s[k] = IF neg /\ k = 1 THEN "-" ELSE num[k - (n - Len(num))]
    <3> HIDE DEF s, n, num, neg
    <3>1. CASE neg
      BY <1>1, <1>2, <2>2, <3>1, SignInFront
    <3>2. CASE ~neg
      BY <1>1, <1>2, <2>2, <3>2
    <3> QED
      BY <3>1, <3>2
  <2>4. /\ t \in Seq(Symbols) /\ q \in Nat /\ Len(t) = n + q
        /\ Len(t) = (IF width > n THEN width ELSE n)
        /\ left => \A k \in 1..Len(t) : t[k] = IF k <= n THEN s[k] ELSE c
        /\ ~left => \A k \in 1..Len(t) : t[k] = IF k <= q THEN c ELSE s[k - q]
    <3> HIDE DEF s, n, t, num, neg
    <3>1. Adjusted(t, s, width, left, zero)
      BY <2>1, <2>3, PrintsAdjusts
    <3> QED
      BY <2>3, <3>1 DEF Adjusted
  <2>5. neg /\ zero => q = 0
    BY <1>4, <2>3, <1>2 DEF SignFirst, Padding
  <2> HIDE DEF s, q, t, num, neg, n, c
  <2>6. Len(t) - n = q
    BY <1>2, <2>4
  <2>7. ASSUME left, NEW k \in 1..Len(t)
        PROVE  t[k] = IF neg /\ k = 1 THEN "-"
                      ELSE IF k <= n THEN num[k - (n - Len(num))] ELSE c
    <3>1. k <= n => k \in 1..n
      OBVIOUS
    <3> QED
      BY <1>1, <1>2, <2>3, <2>4, <2>7, <3>1
  <2>8. ASSUME ~left, NEW k \in 1..Len(t)
        PROVE  t[k] = IF k <= q THEN c
                      ELSE IF neg /\ k = q + 1 THEN "-"
                      ELSE num[k - q - (n - Len(num))]
    <3>1. k > q => k - q \in 1..n /\ (k - q = 1 <=> k = q + 1)
      BY <1>2, <2>4
    <3>2. CASE k <= q
      BY <2>4, <2>8, <3>2
    <3>3. CASE k > q
      <4>1. t[k] = s[k - q]
        BY <2>4, <2>8, <3>3
      <4>2. s[k - q] = IF neg /\ k - q = 1 THEN "-" ELSE num[(k - q) - (n - Len(num))]
        BY <2>3, <3>1, <3>3
      <4> QED
        BY <2>4, <3>1, <3>3, <4>1, <4>2
    <3> QED
      BY <2>4, <3>2, <3>3
  <2>9. ASSUME ~left, neg, zero, NEW k \in 1..Len(t)
        PROVE  t[k] = IF k = 1 THEN "-" ELSE IF k <= q + 1 THEN "0" ELSE num[k - 1 - q]
    <3>1. q = 0 /\ n - Len(num) = 1
      BY <1>1, <1>2, <2>5, <2>9
    <3> QED
      BY <2>8, <2>9, <3>1
  <2> QED
    BY <2>4, <2>6, <2>7, <2>8, <2>9 DEF t, num, neg, n, c, Printed
<1> QED
  BY <1>3, <1>4

(* Where the characters of a text are zeros and then the digits of a number,
   they read back as the number. *)
DigitsAt(t, a, z, num) ==
  /\ a \in Nat \ {0} /\ z \in Nat
  /\ a + z + Len(num) - 1 <= Len(t)
  /\ \A k \in 1..z : t[a + k - 1] = "0"
  /\ \A k \in 1..Len(num) : t[a + z + k - 1] = num[k]

ReadsAs(t, a, b, base, v) ==
  /\ b \in a..Len(t) /\ a \in 1..Len(t)
  /\ \A k \in a..b : t[k] \notin {" ", "-"}
  /\ Positional(SubSeq(t, a, b), base) = v

LEMMA DigitsRead ==
  ASSUME NEW base \in Bases, NEW t \in Seq(Symbols), NEW num \in Seq(Letters),
         Len(num) \in Nat \ {0}, NEW a, NEW z, DigitsAt(t, a, z, num),
         NEW b, b = a + z + Len(num) - 1
  PROVE  ReadsAs(t, a, b, base, Positional(num, base))
<1> DEFINE s == SubSeq(t, a, b)
           zeros == Fill("0", z)
<1>1. /\ a \in Nat \ {0} /\ z \in Nat /\ Len(num) \in Nat \ {0} /\ Len(t) \in Nat
      /\ b <= Len(t)
  BY DEF DigitsAt
<1>2. b \in a..Len(t) /\ a \in 1..Len(t) /\ b - a + 1 = z + Len(num)
  BY <1>1
<1>3. ASSUME NEW k \in 1..z + Len(num)
      PROVE  t[a + k - 1] = IF k <= z THEN "0" ELSE num[k - z]
  <2>1. k <= z => t[a + k - 1] = "0"
    <3>1. \A m \in 1..z : t[a + m - 1] = "0"
      BY DEF DigitsAt
    <3>2. k <= z => k \in 1..z
      BY <1>1
    <3> QED
      BY <3>1, <3>2
  <2>2. ASSUME k > z PROVE t[a + k - 1] = num[k - z]
    <3>1. k - z \in 1..Len(num) /\ a + z + (k - z) - 1 = a + k - 1
      BY <1>1, <2>2
    <3>2. t[a + z + (k - z) - 1] = num[k - z]
      BY <3>1 DEF DigitsAt
    <3> QED
      BY <3>1, <3>2
  <2> QED
    BY <1>1, <2>1, <2>2
<1>4. "0" \in Letters
  BY Characters
<1>5. ASSUME NEW k \in 1..z + Len(num) PROVE t[a + k - 1] \in Letters
  <2>1. k > z => k - z \in 1..Len(num) /\ num[k - z] \in Letters
    BY <1>1
  <2> QED
    BY <1>1, <1>3, <1>4, <2>1
<1>6. ASSUME NEW k \in a..b PROVE t[k] \in Letters
  <2>1. k - a + 1 \in 1..z + Len(num) /\ a + (k - a + 1) - 1 = k
    BY <1>1, <1>2
  <2>2. t[a + (k - a + 1) - 1] \in Letters
    BY <1>5, <2>1
  <2> QED
    BY <2>1, <2>2
<1>7. /\ s \in Seq(Letters) /\ Len(s) = z + Len(num)
      /\ \A k \in 1..z + Len(num) : s[k] = t[a + k - 1]
  <2>1. /\ s \in Seq(Letters)
        /\ Len(s) = (IF a <= b THEN b - a + 1 ELSE 0)
        /\ \A k \in 1..b - a + 1 : s[k] = t[a + k - 1]
    BY <1>1, <1>2, <1>6, SubSeqProperties
  <2> QED
    BY <1>2, <2>1
<1>8. zeros \in Seq(Letters) /\ Len(zeros) = z /\ \A k \in 1..z : zeros[k] = "0"
  BY <1>1, <1>4, FillProperties
<1> HIDE DEF s, zeros
<1>9. /\ zeros \o num \in Seq(Letters) /\ Len(zeros \o num) = z + Len(num)
      /\ \A k \in 1..z + Len(num) :
           (zeros \o num)[k] = IF k <= z THEN zeros[k] ELSE num[k - z]
  BY <1>8, ConcatProperties
<1>10. s = zeros \o num
  <2>1. \A k \in 1..z + Len(num) : s[k] = (zeros \o num)[k]
    <3> TAKE k \in 1..z + Len(num)
    <3>1. s[k] = IF k <= z THEN "0" ELSE num[k - z]
      BY <1>3, <1>7
    <3>2. k <= z => zeros[k] = "0"
      BY <1>1, <1>8
    <3> QED
      BY <1>9, <3>1, <3>2
  <2> QED
    BY <1>7, <1>9, <2>1, SeqEqual
<1>11. Positional(s, base) = Positional(num, base)
  BY <1>1, <1>10, LeadingZeros DEF zeros
<1> QED
  BY <1>2, <1>6, <1>11, Characters DEF s, ReadsAs

ReadsBack(t, base, v, neg) ==
  \E a, b \in 1..Len(t) :
    /\ a <= b
    /\ \A k \in a..b : t[k] \notin {" ", "-"}
    /\ Positional(SubSeq(t, a, b), base) = v
    /\ neg => a > 1 /\ t[a - 1] = "-"
    /\ \A k \in 1..Len(t) \ a..b : t[k] = " " \/ (neg /\ k = a - 1)

(* A number printed reads back, unless zeros stand behind it. *)
LEMMA PrintiReadsBack ==
  ASSUME NEW conv \in Conversion, NEW i \in Ints, NEW width \in Nat,
         NEW left \in BOOLEAN, NEW zero \in BOOLEAN, ~(left /\ zero)
  PROVE  ReadsBack(printi(conv, i, width, left, zero), Base(conv), ValueOf(conv, i),
                   Negative(conv, i))
<1> DEFINE t == printi(conv, i, width, left, zero)
           num == Number(conv, i)
           neg == Negative(conv, i)
           n == Taken(conv, i)
           sign == IF neg THEN 1 ELSE 0
           p == Len(t) - n
           c == IF zero THEN "0" ELSE " "
           z == IF zero THEN p ELSE 0
           a == (IF left \/ zero THEN 0 ELSE p) + sign + 1
           b == a + z + Len(num) - 1
<1>1. /\ t \in Seq(Symbols)
      /\ Len(t) = IF width > n THEN width ELSE n
      /\ left => \A k \in 1..Len(t) :
           t[k] = IF neg /\ k = 1 THEN "-"
                  ELSE IF k <= n THEN num[k - (n - Len(num))] ELSE c
      /\ ~left /\ neg /\ zero => \A k \in 1..Len(t) :
           t[k] = IF k = 1 THEN "-"
                  ELSE IF k <= p + 1 THEN "0" ELSE num[k - 1 - p]
      /\ ~left /\ ~(neg /\ zero) => \A k \in 1..Len(t) :
           t[k] = IF k <= p THEN c
                  ELSE IF neg /\ k = p + 1 THEN "-"
                  ELSE num[k - p - (n - Len(num))]
  <2>1. Printed(t, conv, i, width, left, zero)
    BY PrintiLayout
  <2> HIDE DEF t
  <2> QED
    BY <2>1 DEF Printed
<1>2. /\ Base(conv) \in Bases
      /\ num \in Seq(Letters) /\ Len(num) \in Nat \ {0}
      /\ Positional(num, Base(conv)) = ValueOf(conv, i)
  BY NumberProperties
<1>3. n = Len(num) + sign
  BY DEF Taken
<1> HIDE DEF t, num, neg, n
<1>4. sign \in 0..1 /\ (neg <=> sign = 1) /\ n \in Nat /\ n - Len(num) = sign
  BY <1>2, <1>3
<1> HIDE DEF sign
<1>5. p \in Nat /\ Len(t) = n + p
  <2>1. Len(t) = IF width > n THEN width ELSE n
    BY <1>1
  <2> QED
    BY <1>4, <2>1
<1> HIDE DEF p
<1>10. /\ Len(num) \in Nat \ {0} /\ n \in Nat /\ p \in Nat /\ Len(t) \in Nat
      /\ n = Len(num) + sign /\ n - Len(num) = sign /\ Len(t) = n + p
      /\ sign \in 0..1
  BY <1>2, <1>3, <1>4, <1>5
<1>9. neg <=> sign = 1
  BY <1>4
(* The three shapes of a text. *)
<1>6. /\ DigitsAt(t, a, z, num)
      /\ sign = 1 => a > 1 /\ t[a - 1] = "-"
      /\ \A k \in 1..Len(t) \ a..b : t[k] = " " \/ (sign = 1 /\ k = a - 1)
  <2>1. CASE left
    <3>1. ~zero
      BY <2>1
    <3>2. a = sign + 1 /\ z = 0 /\ b = n
      BY <1>10, <2>1, <3>1
    <3>9. c = " "
      BY <3>1
    <3> HIDE DEF a, b, z, c
    <3>3. \A k \in 1..Len(t) :
            t[k] = IF sign = 1 /\ k = 1 THEN "-" ELSE IF k <= n THEN num[k - sign] ELSE " "
      BY <1>10, <1>1, <1>9, <2>1, <3>9
    <3>4. ASSUME NEW k \in 1..Len(num) PROVE t[a + z + k - 1] = num[k]
      <4>1. a + z + k - 1 = sign + k /\ (sign + k) - sign = k /\ sign + k \in 1..Len(t)
            /\ sign + k <= n /\ ~(sign = 1 /\ sign + k = 1)
        BY <1>10, <3>2
      <4> QED
        BY <3>3, <4>1
    <3>5. DigitsAt(t, a, z, num)
      BY <1>10, <3>2, <3>4 DEF DigitsAt
    <3>6. sign = 1 => a > 1 /\ t[a - 1] = "-"
      <4>1. sign = 1 => a > 1 /\ a - 1 = 1 /\ 1 \in 1..Len(t)
        BY <1>10, <3>2
      <4> QED
        BY <3>3, <4>1
    <3>7. ASSUME NEW k \in 1..Len(t) \ a..b PROVE t[k] = " " \/ (sign = 1 /\ k = a - 1)
      <4>1. \/ sign = 1 /\ k = a - 1
            \/ ~(sign = 1 /\ k = 1) /\ ~(k <= n)
        BY <1>10, <3>2, <3>7
      <4> QED
        BY <3>3, <4>1
    <3> QED
      BY <3>5, <3>6, <3>7
  <2>2. CASE ~left /\ zero
    <3>2. a = sign + 1 /\ z = p /\ b = Len(t)
      BY <1>10, <2>2
    <3>9. c = "0"
      BY <2>2
    <3> HIDE DEF a, b, z, c
    <3>3. \A k \in 1..Len(t) :
            t[k] = IF sign = 1 /\ k = 1 THEN "-"
                   ELSE IF k <= p + sign THEN "0" ELSE num[k - p - sign]
      <4>1. CASE sign = 1
        <5>1. \A k \in 1..Len(t) : k - 1 - p = k - p - sign
          BY <1>4, <1>5, <4>1
        <5> QED
          BY <1>10, <1>1, <1>9, <2>2, <4>1, <5>1
      <4>2. CASE sign # 1
        BY <1>10, <1>1, <1>9, <2>2, <3>9, <4>2
      <4> QED
        BY <4>1, <4>2
    <3>4. ASSUME NEW k \in 1..Len(num) PROVE t[a + z + k - 1] = num[k]
      <4> DEFINE j == a + z + k - 1
      <4>1. j \in 1..Len(t) /\ j - p - sign = k /\ ~(j <= p + sign) /\ ~(sign = 1 /\ j = 1)
        BY <1>10, <3>2
      <4> HIDE DEF j
      <4>2. t[j] = num[k]
        BY <3>3, <4>1
      <4> QED
        BY <4>2 DEF j
    <3>5. ASSUME NEW k \in 1..z PROVE t[a + k - 1] = "0"
      <4> DEFINE j == a + k - 1
      <4>1. j \in 1..Len(t) /\ j <= p + sign /\ ~(sign = 1 /\ j = 1)
        BY <1>10, <3>2
      <4> HIDE DEF j
      <4>2. t[j] = "0"
        BY <3>3, <4>1
      <4> QED
        BY <4>2 DEF j
    <3>6. DigitsAt(t, a, z, num)
      BY <1>10, <3>2, <3>4, <3>5 DEF DigitsAt
    <3>7. sign = 1 => a > 1 /\ t[a - 1] = "-"
      BY <1>10, <3>2, <3>3
    <3>8. ASSUME NEW k \in 1..Len(t) \ a..b PROVE t[k] = " " \/ (sign = 1 /\ k = a - 1)
      <4>1. sign = 1 /\ k = a - 1
        BY <1>10, <3>2, <3>8
      <4> QED
        BY <4>1
    <3> QED
      BY <3>6, <3>7, <3>8
  <2>3. CASE ~left /\ ~zero
    <3>2. a = p + sign + 1 /\ z = 0 /\ b = Len(t)
      BY <1>10, <2>3
    <3>9. c = " "
      BY <2>3
    <3> HIDE DEF a, b, z, c
    <3>3. \A k \in 1..Len(t) :
            t[k] = IF k <= p THEN " " ELSE IF sign = 1 /\ k = p + 1 THEN "-"
                   ELSE num[k - p - sign]
      BY <1>10, <1>1, <1>9, <2>3, <3>9
    <3>4. ASSUME NEW k \in 1..Len(num) PROVE t[a + z + k - 1] = num[k]
      <4> DEFINE j == a + z + k - 1
      <4>1. j \in 1..Len(t) /\ j - p - sign = k /\ ~(j <= p) /\ ~(sign = 1 /\ j = p + 1)
        BY <1>10, <3>2
      <4> HIDE DEF j
      <4>2. t[j] = num[k]
        BY <3>3, <4>1
      <4> QED
        BY <4>2 DEF j
    <3>5. DigitsAt(t, a, z, num)
      BY <1>10, <3>2, <3>4 DEF DigitsAt
    <3>6. sign = 1 => a > 1 /\ t[a - 1] = "-"
      <4>1. sign = 1 => a > 1 /\ a - 1 = p + 1 /\ p + 1 \in 1..Len(t) /\ ~(p + 1 <= p)
        BY <1>10, <3>2
      <4> QED
        BY <3>3, <4>1
    <3>7. ASSUME NEW k \in 1..Len(t) \ a..b PROVE t[k] = " " \/ (sign = 1 /\ k = a - 1)
      <4>1. k <= p \/ (sign = 1 /\ k = a - 1)
        BY <1>10, <3>2, <3>7
      <4> QED
        BY <3>3, <4>1
    <3> QED
      BY <3>5, <3>6, <3>7
  <2> QED
    BY <2>1, <2>2, <2>3
<1> HIDE DEF a, z
<1>7. /\ b \in a..Len(t) /\ a \in 1..Len(t)
      /\ \A k \in a..b : t[k] \notin {" ", "-"}
      /\ Positional(SubSeq(t, a, b), Base(conv)) = ValueOf(conv, i)
  <2>1. t \in Seq(Symbols)
    BY <1>1
  <2>2. DigitsAt(t, a, z, num)
    BY <1>6
  <2>3. Base(conv) \in Bases /\ num \in Seq(Letters) /\ Len(num) \in Nat \ {0}
    BY <1>2
  <2>4. Positional(num, Base(conv)) = ValueOf(conv, i)
    BY <1>2
  <2>5. b = a + z + Len(num) - 1
    OBVIOUS
  <2> HIDE DEF b
  <2>6. ReadsAs(t, a, b, Base(conv), Positional(num, Base(conv)))
    BY <2>1, <2>2, <2>3, <2>5, DigitsRead
  <2> QED
    BY <2>4, <2>6 DEF ReadsAs
<1> HIDE DEF b
<1>8. a \in 1..Len(t) /\ b \in 1..Len(t) /\ a <= b
  <2>1. b \in a..Len(t) /\ a \in 1..Len(t) /\ Len(t) \in Nat
    BY <1>10, <1>7
  <2> QED
    BY <2>1
<1> QED
  BY <1>9, <1>6, <1>7, <1>8 DEF t, neg, ReadsBack

(* A text is as wide as asked or as its n characters need, filled on one side;
   the rest is no blank. *)
AlignedTo(t, n, width, left, zero) ==
  LET Filled == IF left THEN n + 1..Len(t) ELSE 1..Len(t) - n
  IN /\ n \in 0..Len(t)
     /\ Len(t) = IF width > n THEN width ELSE n
     /\ \A k \in Filled : t[k] = " " <=> ~zero
     /\ \A k \in 1..Len(t) \ Filled : t[k] # " "

LEMMA PrintiAligns ==
  ASSUME NEW conv \in Conversion, NEW i \in Ints, NEW width \in Nat,
         NEW left \in BOOLEAN, NEW zero \in BOOLEAN
  PROVE  AlignedTo(printi(conv, i, width, left, zero), Taken(conv, i), width, left, zero)
<1> DEFINE t == printi(conv, i, width, left, zero)
           num == Number(conv, i)
           neg == Negative(conv, i)
           n == Taken(conv, i)
           sign == IF neg THEN 1 ELSE 0
           p == Len(t) - n
           c == IF zero THEN "0" ELSE " "
           Filled == IF left THEN n + 1..Len(t) ELSE 1..Len(t) - n
<1>1. /\ t \in Seq(Symbols)
      /\ Len(t) = IF width > n THEN width ELSE n
      /\ left => \A k \in 1..Len(t) :
           t[k] = IF neg /\ k = 1 THEN "-"
                  ELSE IF k <= n THEN num[k - (n - Len(num))] ELSE c
      /\ ~left /\ neg /\ zero => \A k \in 1..Len(t) :
           t[k] = IF k = 1 THEN "-"
                  ELSE IF k <= p + 1 THEN "0" ELSE num[k - 1 - p]
      /\ ~left /\ ~(neg /\ zero) => \A k \in 1..Len(t) :
           t[k] = IF k <= p THEN c
                  ELSE IF neg /\ k = p + 1 THEN "-"
                  ELSE num[k - p - (n - Len(num))]
  <2>1. Printed(t, conv, i, width, left, zero)
    BY PrintiLayout
  <2> HIDE DEF t
  <2> QED
    BY <2>1 DEF Printed
<1>2. num \in Seq(Letters) /\ Len(num) \in Nat \ {0}
  BY NumberProperties
<1>3. n = Len(num) + sign
  BY DEF Taken
<1> HIDE DEF t, num, neg, n
<1>4. sign \in 0..1 /\ (neg <=> sign = 1)
  OBVIOUS
<1> HIDE DEF sign
<1>5. /\ Len(num) \in Nat \ {0} /\ n \in Nat /\ p \in Nat /\ Len(t) \in Nat
      /\ n - Len(num) = sign /\ n = Len(num) + sign /\ Len(t) = n + p
      /\ sign \in 0..1
  <2>1. Len(t) = IF width > n THEN width ELSE n
    BY <1>1
  <2>2. sign \in 0..1 /\ Len(num) \in Nat \ {0}
    BY <1>2, <1>4
  <2>3. n \in Nat /\ n - Len(num) = sign
    BY <1>3, <2>2
  <2>4. p \in Nat /\ Len(t) \in Nat /\ Len(t) = n + p
    BY <2>1, <2>3
  <2> QED
    BY <1>3, <2>2, <2>3, <2>4
<1> HIDE DEF p
<1>6. \A j \in 1..Len(num) : num[j] # " "
  <2>1. \A j \in 1..Len(num) : num[j] \in Letters
    BY <1>2
  <2> QED
    BY <2>1, Characters
<1>7. /\ \A k \in Filled : t[k] = " " <=> ~zero
      /\ \A k \in 1..Len(t) \ Filled : t[k] # " "
  <2>1. CASE left
    <3>1. ASSUME NEW k \in n + 1..Len(t) PROVE t[k] = c
      <4>1. k \in 1..Len(t) /\ ~(sign = 1 /\ k = 1) /\ ~(k <= n)
        BY <1>5
      <4> QED
        BY <1>1, <1>4, <2>1, <4>1
    <3>2. ASSUME NEW k \in 1..Len(t), k \notin n + 1..Len(t) PROVE t[k] # " "
      <4>1. k <= n /\ (k - sign \in 1..Len(num) \/ (sign = 1 /\ k = 1))
        BY <1>5, <3>2
      <4>2. t[k] = IF sign = 1 /\ k = 1 THEN "-" ELSE num[k - sign]
        BY <1>1, <1>4, <1>5, <2>1, <4>1
      <4> QED
        BY <1>6, <4>1, <4>2
    <3> HIDE DEF c
    <3>3. Filled = n + 1..Len(t)
      BY <2>1
    <3> HIDE DEF Filled
    <3> QED
      BY <3>1, <3>2, <3>3 DEF c
  <2>2. CASE ~left /\ neg /\ zero
    <3>1. \A k \in 1..Len(t) : t[k] = IF k = 1 THEN "-"
                                      ELSE IF k <= p + 1 THEN "0" ELSE num[k - 1 - p]
      BY <1>1, <2>2
    <3>2. sign = 1
      BY <1>4, <2>2
    <3>3. ASSUME NEW k \in 1..Len(t) PROVE t[k] # " "
      <4>1. k = 1 \/ k <= p + 1 \/ k - 1 - p \in 1..Len(num)
        BY <1>5, <3>2
      <4> QED
        BY <1>6, <3>1, <4>1
    <3>4. Filled \subseteq 1..Len(t)
      BY <1>5, <2>2
    <3> HIDE DEF Filled
    <3> QED
      BY <2>2, <3>3, <3>4
  <2>3. CASE ~left /\ ~(neg /\ zero)
    <3>1. \A k \in 1..Len(t) : t[k] = IF k <= p THEN c
                                      ELSE IF sign = 1 /\ k = p + 1 THEN "-"
                                      ELSE num[k - p - sign]
      BY <1>1, <1>4, <1>5, <2>3
    <3>2. Filled = 1..p
      BY <1>5, <2>3
    <3> HIDE DEF Filled
    <3>3. ASSUME NEW k \in 1..p PROVE t[k] = c
      <4>1. k \in 1..Len(t) /\ k <= p
        BY <1>5
      <4> HIDE DEF c
      <4> QED
        BY <3>1, <4>1
    <3>4. ASSUME NEW k \in 1..Len(t), k \notin 1..p PROVE t[k] # " "
      <4>1. ~(k <= p) /\ (k - p - sign \in 1..Len(num) \/ (sign = 1 /\ k = p + 1))
        BY <1>5, <3>4
      <4> QED
        BY <1>6, <3>1, <4>1
    <3> QED
      BY <3>2, <3>3, <3>4
  <2> QED
    BY <2>1, <2>2, <2>3
<1>8. n \in 0..Len(t)
  BY <1>5
<1> QED
  BY <1>1, <1>7, <1>8 DEF t, n, AlignedTo

-----------------------------------------------------------------------------
(* The format *)

(* Only the end of the format reads as NUL. *)
LEMMA FormatEnd ==
  ASSUME fmt \in Formats \cup {<<>>}
  PROVE  /\ fmt \in Seq(STRING \ {"NUL"}) /\ Len(fmt) \in Nat
         /\ \A k \in Nat \ {0} : /\ At(k) = "NUL" <=> k > Len(fmt)
                                 /\ At(k) \in Symbols
<1> DEFINE C == STRING \ {"NUL"}
<1>0. STRING \subseteq Symbols /\ "NUL" \in Symbols
  BY Characters
<1>1. fmt \in Seq(C) /\ Len(fmt) \in Nat
  <2>1. Formats \subseteq Seq(C)
    BY PrintfAssumption
  <2> HIDE DEF C
  <2>2. <<>> \in Seq(C)
    OBVIOUS
  <2>3. fmt \in Seq(C)
    BY <2>1, <2>2, Zenon
  <2> QED
    BY <2>3
<1>2. ASSUME NEW k \in Nat \ {0}
      PROVE  (At(k) = "NUL" <=> k > Len(fmt)) /\ At(k) \in Symbols
  <2>1. CASE k <= Len(fmt)
    <3>1. fmt[k] \in C
      <4> HIDE DEF C
      <4> QED
        BY <1>1, <2>1
    <3>2. At(k) = fmt[k] /\ ~(k > Len(fmt))
      BY <1>1, <2>1 DEF At
    <3> QED
      BY <1>0, <3>1, <3>2
  <2>2. CASE k > Len(fmt)
    <3>1. At(k) = "NUL"
      BY <1>1, <2>2 DEF At
    <3> QED
      BY <1>0, <2>2, <3>1
  <2> QED
    BY <1>1, <2>1, <2>2
<1> QED
  BY <1>1, <1>2

(* The loops over the format stop at its end at the latest. *)
LEMMA BehindStops ==
  ASSUME fmt \in Formats \cup {<<>>}, NEW S, "NUL" \notin S,
         NEW k \in 1..Len(fmt) + 1
  PROVE  /\ Behind(k, S) \in k..Len(fmt) + 1
         /\ At(Behind(k, S)) \notin S
         /\ \A n \in k..Behind(k, S) - 1 : At(n) \in S
<1>1. Len(fmt) \in Nat /\ At(Len(fmt) + 1) \notin S
  BY FormatEnd
<1> DEFINE T == {m \in k..Len(fmt) + 1 : At(m) \notin S}
<1>2. T \in SUBSET Nat /\ T # {}
  BY <1>1
<1>3. PICK m \in T : \A j \in T : m <= j
  <2> HIDE DEF T
  <2> QED
    BY <1>2, LeastNumber
<1>4. \E b \in k..Len(fmt) + 1 : At(b) \notin S /\ \A n \in k..b - 1 : At(n) \in S
  BY <1>1, <1>3
<1> QED
  BY <1>4 DEF Behind

(* Where a directive's flags, width and letter are. *)
LEMMA DirectiveParts ==
  ASSUME TypeOK, InDirective
  PROVE  /\ format \in 1..Len(fmt) /\ Len(fmt) \in Nat
         /\ ConvAt \in format + 1..Len(fmt) + 1
         /\ Width \in Nat
         /\ Left \in BOOLEAN /\ Zero \in BOOLEAN
<1>1. fmt \in Formats \cup {<<>>} /\ format \in 1..Len(fmt) + 1 /\ Len(fmt) \in Nat
  BY FormatEnd DEF TypeOK
<1>2. format \in 1..Len(fmt)
  <2>1. At(format) # "NUL"
    BY DEF InDirective
  <2> QED
    BY <1>1, <2>1, FormatEnd
<1>3. FlagEnd \in format + 1..Len(fmt) + 1
  <2>1. CASE Left
    <3>1. At(format + 1) # "NUL"
      BY <2>1 DEF Left
    <3>2. format + 1 <= Len(fmt)
      BY <1>1, <1>2, <3>1, FormatEnd
    <3> QED
      BY <1>1, <1>2, <2>1, <3>2 DEF FlagEnd
  <2>2. CASE ~Left
    BY <1>1, <1>2, <2>2 DEF FlagEnd
  <2> QED
    BY <2>1, <2>2
<1>4. FlagEnd \in 1..Len(fmt) + 1
  BY <1>1, <1>3
<1>5. WidthAt \in FlagEnd..Len(fmt) + 1
  <2>1. "NUL" \notin {"0"}
    OBVIOUS
  <2> QED
    BY <1>1, <1>4, <2>1, BehindStops DEF WidthAt
<1>6. WidthAt \in 1..Len(fmt) + 1
  BY <1>1, <1>4, <1>5
<1>7. ConvAt \in WidthAt..Len(fmt) + 1 /\ \A k \in WidthAt..ConvAt - 1 : At(k) \in Digits
  <2>1. "NUL" \notin Digits
    BY DEF Digits
  <2> QED
    BY <1>1, <1>6, <2>1, BehindStops DEF ConvAt
<1>8. ASSUME NEW k \in WidthAt..ConvAt - 1 PROVE fmt[k] \in Letters
  <2>1. k \in 1..Len(fmt)
    BY <1>1, <1>6, <1>7
  <2>2. At(k) = fmt[k] /\ At(k) \in Digits
    BY <1>1, <1>7, <2>1 DEF At
  <2>3. Digits \subseteq Letters
    BY DEF Digits, Letters
  <2> QED
    BY <2>2, <2>3
<1>9. SubSeq(fmt, WidthAt, ConvAt - 1) \in Seq(Letters)
  <2>1. WidthAt \in Int /\ ConvAt - 1 \in Int
    BY <1>1, <1>6, <1>7
  <2> QED
    BY <1>8, <2>1, SubSeqProperties
<1>10. Width \in Nat
  <2>1. 10 \in Bases /\ "0" \in Letters
    BY Characters DEF Bases
  <2> QED
    BY <1>9, <2>1, PositionalAppend DEF Width
<1>11. ConvAt \in format + 1..Len(fmt) + 1
  BY <1>1, <1>2, <1>3, <1>5, <1>7
<1>12. Left \in BOOLEAN /\ Zero \in BOOLEAN
  BY DEF Left, Zero
<1> QED
  BY <1>1, <1>2, <1>10, <1>11, <1>12

(* What a field of each kind puts out. *)
LEMMA StringText ==
  ASSUME NEW string \in Seq(Symbols), NEW width \in Nat,
         NEW left \in BOOLEAN, NEW zero \in BOOLEAN
  PROVE  prints(string, width, left, zero) \in Seq(Symbols)
<1>1. Adjusted(prints(string, width, left, zero), string, width, left, zero)
  BY PrintsAdjusts
<1> QED
  BY <1>1 DEF Adjusted

LEMMA NumberText ==
  ASSUME NEW conv \in Conversion, NEW i \in Ints, NEW width \in Nat,
         NEW left \in BOOLEAN, NEW zero \in BOOLEAN
  PROVE  /\ printi(conv, i, width, left, zero) \in Seq(Symbols)
         /\ Len(print_buf(conv, i, width, zero)) \in Nat
         /\ Len(print_buf(conv, i, width, zero)) <= Taken(conv, i)
<1>1. Printed(printi(conv, i, width, left, zero), conv, i, width, left, zero)
  BY PrintiLayout
<1>2. printi(conv, i, width, left, zero) \in Seq(Symbols)
  BY <1>1 DEF Printed
<1>3. Number(conv, i) \in Seq(Symbols)
  <2>1. Number(conv, i) \in Seq(Letters)
    BY NumberProperties
  <2> QED
    BY <2>1, Characters, SeqMonotonic
<1>4. Len(Number(conv, i)) \in Nat /\ Len(<<"-">> \o Number(conv, i)) = Len(Number(conv, i)) + 1
  BY <1>3, SignInFront
<1>5. CASE Negative(conv, i)
  BY <1>2, <1>4, <1>5, PrintBuf DEF Taken
<1>6. CASE ~Negative(conv, i)
  BY <1>2, <1>4, <1>6, PrintBuf DEF Taken
<1> QED
  BY <1>5, <1>6

-----------------------------------------------------------------------------
(* The invariant: the field done last is what prints or printi made of its
   argument. *)

NumberSound ==
  /\ field.conv \in Conversion /\ field.arg \in Ints
  /\ field.width \in Nat /\ field.left \in BOOLEAN /\ field.zero \in BOOLEAN
  /\ field.text = printi(field.conv, field.arg, field.width, field.left, field.zero)
  /\ field.used = Len(print_buf(field.conv, field.arg, field.width, field.zero)) + 1

TextSound ==
  /\ field.conv \in {"s", "c"} /\ field.arg \in Seq(Symbols)
  /\ field.width \in Nat /\ field.left \in BOOLEAN /\ field.zero \in BOOLEAN
  /\ field.text = prints(field.arg, field.width, field.left, field.zero)
  /\ field.used = 0

FieldSound == field = NoField \/ NumberSound \/ TextSound

FormatInv == TypeOK /\ FieldSound

LEMMA InitFormatInv ==
  ASSUME Init PROVE FormatInv
<1>1. fmt = <<>> /\ Len(<<>>) = 0 /\ field = NoField
  BY DEF Init
<1>2. field.width \in Nat /\ field.used \in Nat
  BY <1>1 DEF NoField
<1>3. fmt \in Formats \cup {<<>>} /\ format \in 1..Len(fmt) + 1
  <2>1. format = 1 /\ Len(fmt) = 0
    BY <1>1 DEF Init
  <2>2. format \in 1..Len(fmt) + 1
    BY <2>1
  <2> QED
    BY <1>1, <2>2
<1>4. running \in BOOLEAN /\ toBuffer \in BOOLEAN /\ masked \in BOOLEAN /\ pc \in Nat
  BY DEF Init
<1>5. FieldSound
  BY <1>1 DEF FieldSound
<1> QED
  BY <1>2, <1>3, <1>4, <1>5 DEF FormatInv, TypeOK

(* A directive with a letter that is none of the end of the format. *)
LEMMA DirectiveFits ==
  ASSUME TypeOK, NEW convs, Directive(convs), "NUL" \notin convs
  PROVE  ConvAt + 1 \in 1..Len(fmt) + 1
<1>1. InDirective /\ At(ConvAt) \in convs
  BY DEF Directive
<1>2. ConvAt \in format + 1..Len(fmt) + 1 /\ format \in 1..Len(fmt) /\ Len(fmt) \in Nat
  BY <1>1, DirectiveParts
<1>3. ConvAt \in Nat \ {0} /\ At(ConvAt) # "NUL"
  BY <1>1, <1>2
<1>4. ConvAt <= Len(fmt)
  <2>1. fmt \in Formats \cup {<<>>}
    BY DEF TypeOK
  <2> QED
    BY <1>2, <1>3, <2>1, FormatEnd
<1> QED
  BY <1>2, <1>4

(* What a step that emits a text and moves on leaves well-typed. *)
LEMMA EmitTypes ==
  ASSUME TypeOK, NEW t \in Seq(Symbols), NEW next \in 1..Len(fmt) + 1, Emit(t, next)
  PROVE  /\ running' \in BOOLEAN /\ toBuffer' \in BOOLEAN /\ masked' \in BOOLEAN
         /\ fmt' \in Formats \cup {<<>>}
         /\ format' \in 1..Len(fmt') + 1
         /\ pc' \in Nat
<1>1. Len(t) \in Nat
  OBVIOUS
<1> QED
  BY <1>1 DEF TypeOK, Emit

(* No format holds its own NUL. *)
LEMMA NoNulInFormats ==
  "NUL" \notin AnyChar
<1>1. ASSUME NEW f \in Formats, NEW k \in 1..Len(f) PROVE f[k] # "NUL"
  <2> DEFINE C == STRING \ {"NUL"}
  <2>1. f \in Seq(C)
    BY PrintfAssumption
  <2>2. f[k] \in C
    <3> HIDE DEF C
    <3> QED
      BY <2>1
  <2> QED
    BY <2>2
<1> QED
  BY <1>1 DEF AnyChar

LEMMA NextFormatInv ==
  ASSUME FormatInv, [Next]_vars PROVE FormatInv'
<1> USE DEF FormatInv
<1>1. ASSUME NEW f \in Formats, NEW buffer \in BOOLEAN, Start(f, buffer)
      PROVE  FormatInv'
  <2>1. Len(f) \in Nat
    BY FormatEnd, PrintfAssumption
  <2>2. field'.width \in Nat /\ field'.used \in Nat
    BY <1>1 DEF Start, NoField
  <2>3. TypeOK'
    BY <1>1, <2>1, <2>2 DEF Start, TypeOK
  <2>4. FieldSound'
    BY <1>1 DEF Start, FieldSound, NoField
  <2> QED
    BY <2>3, <2>4
<1>2. ASSUME NEW t \in Seq(Symbols), NEW next \in 1..Len(fmt) + 1, Emit(t, next),
             UNCHANGED field
      PROVE  FormatInv'
  <2>1. TypeOK'
    BY <1>2, EmitTypes DEF TypeOK
  <2>2. FieldSound'
    BY <1>2 DEF FieldSound, NumberSound, TextSound
  <2> QED
    BY <2>1, <2>2
<1>3. format \in 1..Len(fmt) + 1 /\ Len(fmt) \in Nat
      /\ \A k \in Nat \ {0} : (At(k) = "NUL" <=> k > Len(fmt)) /\ At(k) \in Symbols
  BY FormatEnd DEF TypeOK
<1>4. CASE Literal
  <2>1. At(format) # "NUL" /\ Emit(<<At(format)>>, format + 1) /\ UNCHANGED field
    BY <1>4 DEF Literal
  <2>2. format + 1 \in 1..Len(fmt) + 1 /\ At(format) \in Symbols
    BY <1>3, <2>1
  <2>3. <<At(format)>> \in Seq(Symbols)
    BY <2>2
  <2> QED
    BY <1>2, <2>1, <2>2, <2>3
<1>5. CASE PercentSign
  <2>1. At(format + 1) = "%" /\ Emit(<<"%">>, format + 2) /\ UNCHANGED field
    BY <1>5 DEF PercentSign
  <2>2. format + 2 \in 1..Len(fmt) + 1
    <3>1. At(format + 1) # "NUL"
      BY <2>1
    <3> QED
      BY <1>3, <3>1
  <2>3. <<"%">> \in Seq(Symbols)
    <3>1. "%" \in Symbols
      BY Characters
    <3> QED
      BY <3>1
  <2> QED
    BY <1>2, <2>1, <2>2, <2>3
<1>6. CASE LonePercent
  <2>1. At(format) # "NUL" /\ Emit(<<>>, format + 1) /\ UNCHANGED field
    BY <1>6 DEF LonePercent, InDirective
  <2>2. format + 1 \in 1..Len(fmt) + 1
    BY <1>3, <2>1
  <2>3. <<>> \in Seq(Symbols)
    OBVIOUS
  <2> QED
    BY <1>2, <2>1, <2>2, <2>3
<1>7. CASE UnknownField
  <2> DEFINE convs == AnyChar \ ({"s", "c"} \cup Conversion)
  <2>1. Directive(convs) /\ Emit(<<>>, ConvAt + 1) /\ UNCHANGED field
    BY <1>7 DEF UnknownField
  <2>2. "NUL" \notin convs
    BY NoNulInFormats
  <2> HIDE DEF convs
  <2>3. ConvAt + 1 \in 1..Len(fmt) + 1
    BY <2>1, <2>2, DirectiveFits
  <2>4. <<>> \in Seq(Symbols)
    OBVIOUS
  <2> QED
    BY <1>2, <2>1, <2>3, <2>4
<1>8. ASSUME NEW string \in Seq(Symbols), Directive({At(ConvAt)}), At(ConvAt) \in {"s", "c"},
             Field(string, prints(string, Width, Left, Zero), 0)
      PROVE  FormatInv'
  <2> DEFINE w == Width
             l == Left
             z == Zero
             v == At(ConvAt)
             t == prints(string, w, l, z)
  <2>1. w \in Nat /\ l \in BOOLEAN /\ z \in BOOLEAN
    BY <1>8, DirectiveParts DEF Directive
  <2>2. ConvAt + 1 \in 1..Len(fmt) + 1
    BY <1>8, DirectiveFits
  <2>3. /\ Emit(t, ConvAt + 1)
        /\ field' = [conv |-> v, arg |-> string, width |-> w, left |-> l,
                     zero |-> z, text |-> t, used |-> 0]
    BY <1>8 DEF Field
  <2>4. v \in {"s", "c"}
    BY <1>8
  <2> HIDE DEF w, l, z, v
  <2>5. t \in Seq(Symbols)
    BY <2>1, StringText
  <2> HIDE DEF t
  <2>6. field'.width \in Nat /\ field'.used \in Nat
    BY <2>1, <2>3
  <2>7. TypeOK'
    BY <2>2, <2>3, <2>5, <2>6, EmitTypes DEF TypeOK
  <2>8. TextSound'
    BY <2>1, <2>3, <2>4 DEF TextSound, t
  <2> QED
    BY <2>7, <2>8 DEF FieldSound
<1>9. CASE StringField
  <2>1. PICK s \in Strings :
          LET string == IF s = NULL THEN NullString ELSE s
          IN Field(string, prints(string, Width, Left, Zero), 0)
    BY <1>9 DEF StringField
  <2> DEFINE string == IF s = NULL THEN NullString ELSE s
  <2>2. string \in Seq(Symbols)
    <3>1. s \in Seq(STRING) \cup {NULL}
      BY PrintfAssumption
    <3>2. STRING \subseteq Symbols /\ NullString \in Seq(Symbols)
      BY Characters
    <3>3. s \in Seq(STRING) => s \in Seq(Symbols)
      BY <3>2, SeqMonotonic
    <3> QED
      BY <3>1, <3>2, <3>3
  <2>3. Field(string, prints(string, Width, Left, Zero), 0)
    BY <2>1
  <2>4. Directive({At(ConvAt)}) /\ At(ConvAt) \in {"s", "c"}
    BY <1>9 DEF StringField, Directive
  <2> HIDE DEF string
  <2> QED
    BY <1>8, <2>2, <2>3, <2>4
<1>10. CASE CharField
  <2>1. PICK c \in Chars :
          LET scr == IF c = "NUL" THEN <<>> ELSE <<c>>
          IN Field(scr, prints(scr, Width, Left, Zero), 0)
    BY <1>10 DEF CharField
  <2> DEFINE scr == IF c = "NUL" THEN <<>> ELSE <<c>>
  <2>2. scr \in Seq(Symbols)
    <3>1. c \in Symbols
      BY PrintfAssumption, Characters
    <3>2. <<>> \in Seq(Symbols) /\ <<c>> \in Seq(Symbols)
      BY <3>1
    <3> QED
      BY <3>2
  <2>3. Field(scr, prints(scr, Width, Left, Zero), 0)
    BY <2>1
  <2>4. Directive({At(ConvAt)}) /\ At(ConvAt) \in {"s", "c"}
    BY <1>10 DEF CharField, Directive
  <2> HIDE DEF scr
  <2> QED
    BY <1>8, <2>2, <2>3, <2>4
<1>11. CASE NumberField
  <2>1. PICK i \in Ints :
          Field(i, printi(At(ConvAt), i, Width, Left, Zero),
                Len(print_buf(At(ConvAt), i, Width, Zero)) + 1)
    BY <1>11 DEF NumberField
  <2> DEFINE w == Width
             l == Left
             z == Zero
             v == At(ConvAt)
             t == printi(v, i, w, l, z)
             u == Len(print_buf(v, i, w, z)) + 1
  <2>2. w \in Nat /\ l \in BOOLEAN /\ z \in BOOLEAN
    BY <1>11, DirectiveParts DEF NumberField, Directive
  <2>3. ConvAt + 1 \in 1..Len(fmt) + 1
    <3>1. "NUL" \notin Conversion
      BY DEF Conversion
    <3> QED
      BY <1>11, <3>1, DirectiveFits DEF NumberField
  <2>4. /\ Emit(t, ConvAt + 1)
        /\ field' = [conv |-> v, arg |-> i, width |-> w, left |-> l,
                     zero |-> z, text |-> t, used |-> u]
    BY <2>1 DEF Field
  <2>5. v \in Conversion
    BY <1>11 DEF NumberField, Directive
  <2> HIDE DEF w, l, z, v
  <2>6. t \in Seq(Symbols) /\ u \in Nat
    BY <2>2, <2>5, NumberText
  <2> HIDE DEF t, u
  <2>7. field'.width \in Nat /\ field'.used \in Nat
    BY <2>2, <2>4, <2>6
  <2>8. TypeOK'
    BY <2>3, <2>4, <2>6, <2>7, EmitTypes DEF TypeOK
  <2>9. NumberSound'
    BY <2>2, <2>4, <2>5 DEF NumberSound, t, u
  <2> QED
    BY <2>8, <2>9 DEF FieldSound
<1>12. CASE Finish
  <2>1. TypeOK'
    BY <1>12 DEF Finish, TypeOK
  <2>2. FieldSound'
    BY <1>12 DEF Finish, FieldSound, NumberSound, TextSound
  <2> QED
    BY <2>1, <2>2
<1>13. CASE UNCHANGED vars
  <2>1. TypeOK'
    BY <1>13 DEF vars, TypeOK
  <2>2. FieldSound'
    BY <1>13 DEF vars, FieldSound, NumberSound, TextSound
  <2> QED
    BY <2>1, <2>2
<1> QED
  BY <1>1, <1>4, <1>5, <1>6, <1>7, <1>9, <1>10, <1>11, <1>12, <1>13
     DEF Next, print, myprintf, mysprintf

(* The directive done last put out what prints or printi makes of its argument,
   and the format is not overrun. *)
THEOREM FormatInvariant == Spec => []FormatInv
<1>1. Init => FormatInv
  BY InitFormatInv
<1>2. FormatInv /\ [Next]_vars => FormatInv'
  BY NextFormatInv
<1> QED
  BY <1>1, <1>2, PTL DEF Spec

(* The format is not read behind its NUL, whatever stands in it: no loop over
   its characters and no directive at its end steps over the NUL. *)
THEOREM FormatTypes == Spec => []TypeOK
<1>1. FormatInv => TypeOK
  BY DEF FormatInv
<1> QED
  BY <1>1, FormatInvariant, PTL

-----------------------------------------------------------------------------
(* What a caller sees of a field *)

LEMMA NumberValueOf ==
  ASSUME NumberSound
  PROVE  Negated = Negative(field.conv, field.arg) /\ Value = ValueOf(field.conv, field.arg)
BY DEF Negated, Value, ValueOf

LEMMA SoundReadsBack ==
  ASSUME FieldSound PROVE NumberReadsBack
<1> SUFFICES ASSUME IsNumber, ~(field.left /\ field.zero)
             PROVE  ReadsBack(field.text, Base(field.conv), Value, Negated)
  BY DEF NumberReadsBack, ReadsBack
<1>1. NumberSound
  BY DEF FieldSound, NoField, TextSound, IsNumber, Conversion
<1> QED
  BY <1>1, NumberValueOf, PrintiReadsBack DEF NumberSound

(* A number printed reads back as the argument, for integers of every width:
   the text of printi is blanks, a sign for a negative one, digits with the
   value, and blanks. *)
THEOREM NumbersReadBack == Spec => []NumberReadsBack
<1>1. FormatInv => NumberReadsBack
  BY SoundReadsBack DEF FormatInv
<1> QED
  BY <1>1, FormatInvariant, PTL

LEMMA NumberFieldAligned ==
  ASSUME NumberSound PROVE FieldAligned
<1> DEFINE t == field.text
           conv == field.conv
           i == field.arg
           n == Taken(conv, i)
           Filled == IF field.left THEN n + 1..Len(t) ELSE 1..Len(t) - n
<1>1. conv \in Conversion /\ i \in Ints /\ IsNumber
  BY DEF NumberSound, IsNumber
<1>2. /\ n \in 0..Len(t)
      /\ Len(t) = IF field.width > n THEN field.width ELSE n
      /\ \A k \in Filled : t[k] = " " <=> ~field.zero
      /\ \A k \in 1..Len(t) \ Filled : t[k] # " "
  <2>1. AlignedTo(t, n, field.width, field.left, field.zero)
    BY PrintiAligns DEF NumberSound
  <2> HIDE DEF t, n
  <2> QED
    BY <2>1 DEF AlignedTo
<1>3. Needs(n)
  <2>1. /\ Len(Number(conv, i)) \in Nat \ {0}
        /\ ValueOf(conv, i) < Power(Base(conv), Len(Number(conv, i)))
        /\ Len(Number(conv, i)) > 1 =>
             Power(Base(conv), Len(Number(conv, i)) - 1) <= ValueOf(conv, i)
    BY <1>1, NumberProperties
  <2>2. (IF Negated THEN n - 1 ELSE n) = Len(Number(conv, i))
    BY <2>1 DEF Taken, Negated
  <2> QED
    BY <1>1, <2>1, <2>2, NumberValueOf DEF Needs
<1> HIDE DEF n
<1> QED
  BY <1>1, <1>2, <1>3 DEF FieldAligned

LEMMA TextFieldAligned ==
  ASSUME TextSound PROVE FieldAligned
<1> DEFINE t == field.text
           s == field.arg
           n == Len(s)
           p == Padding(field.width, n)
           c == IF field.zero THEN "0" ELSE " "
           Filled == IF field.left THEN n + 1..Len(t) ELSE 1..Len(t) - n
           Before == IF field.left THEN 0 ELSE Len(t) - n
<1>1. ~IsNumber /\ Needs(n)
  BY DEF TextSound, IsNumber, Needs, Conversion
<1>2. Adjusted(t, s, field.width, field.left, field.zero) /\ n \in Nat
  BY PrintsAdjusts DEF TextSound
<1>3. /\ p \in Nat /\ Len(t) = n + p
      /\ Len(t) = IF field.width > n THEN field.width ELSE n
  <2> HIDE DEF t, s
  <2> QED
    BY <1>2 DEF Adjusted
<1>4. /\ field.left => \A k \in 1..Len(t) : t[k] = IF k <= n THEN s[k] ELSE c
      /\ ~field.left => \A k \in 1..Len(t) : t[k] = IF k <= p THEN c ELSE s[k - p]
  <2> HIDE DEF t, s
  <2> QED
    BY <1>2 DEF Adjusted
<1> HIDE DEF t, s, p
<1>5. n \in 0..Len(t)
  BY <1>2, <1>3
<1>6. CASE field.left
  <2>1. ASSUME NEW k \in n + 1..Len(t) PROVE t[k] = c
    <3>1. k \in 1..Len(t) /\ ~(k <= n)
      BY <1>2, <1>3
    <3> QED
      BY <1>4, <1>6, <3>1
  <2>2. ASSUME NEW k \in 1..Len(t), k \notin n + 1..Len(t) PROVE t[k] = s[k - 0]
    <3>1. k <= n /\ k - 0 = k
      BY <1>2, <1>3, <2>2
    <3> QED
      BY <1>4, <1>6, <3>1
  <2> QED
    BY <1>1, <1>3, <1>5, <1>6, <2>1, <2>2 DEF FieldAligned, t, s
<1>7. CASE ~field.left
  <2>0. Len(t) - n = p
    BY <1>2, <1>3
  <2>1. ASSUME NEW k \in 1..Len(t) - n PROVE t[k] = c
    <3>1. k \in 1..Len(t) /\ k <= p
      BY <1>2, <1>3
    <3> QED
      BY <1>4, <1>7, <3>1
  <2>2. ASSUME NEW k \in 1..Len(t), k \notin 1..Len(t) - n PROVE t[k] = s[k - (Len(t) - n)]
    <3>1. ~(k <= p)
      BY <1>2, <1>3, <2>2
    <3> QED
      BY <1>4, <1>7, <2>0, <3>1
  <2> QED
    BY <1>1, <1>3, <1>5, <1>7, <2>1, <2>2 DEF FieldAligned, t, s
<1> QED
  BY <1>6, <1>7

(* A field has the width asked for, or the one its value needs, filled on the
   side it is not adjusted to; what needs the rest is there whole. *)
THEOREM FieldsAligned == Spec => []FieldAligned
<1>1. NoField.conv = "none"
  BY DEF NoField
<1>2. FormatInv => FieldAligned
  BY <1>1, NumberFieldAligned, TextFieldAligned DEF FormatInv, FieldSound, FieldAligned
<1> QED
  BY <1>2, FormatInvariant, PTL

(* The width of the integers and the length of print_buf go together: a sign
   and NUL fit next to the digits of the least integer, and NUL next to those
   of the largest unsigned one in each base. *)
BufferFits ==
  /\ PRINT_BUF_LEN >= 3
  /\ Word \div 2 < Power(10, PRINT_BUF_LEN - 2)
  /\ \A base \in Bases : Word <= Power(base, PRINT_BUF_LEN - 1)

LEMMA NumberFits ==
  ASSUME BufferFits, NumberSound PROVE BufferIsEnough
<1> DEFINE conv == field.conv
           i == field.arg
           num == Number(conv, i)
           base == Base(conv)
           v == ValueOf(conv, i)
<1>1. conv \in Conversion /\ i \in Ints
  BY DEF NumberSound
<1>2. /\ base \in Bases /\ Len(num) \in Nat \ {0}
      /\ v \in Nat /\ v < Word
      /\ Len(num) > 1 => Power(base, Len(num) - 1) <= v
      /\ Negative(conv, i) => v <= Word \div 2
  BY <1>1, NumberProperties
<1>3. PRINT_BUF_LEN \in Nat /\ PRINT_BUF_LEN >= 3 /\ Word \in Nat
  BY PrintfAssumption DEF BufferFits
<1>4. field.used \in Nat /\ field.used <= Taken(conv, i) + 1
  <2> DEFINE w == field.width
             z == field.zero
             l == Len(print_buf(conv, i, w, z))
  <2>1. w \in Nat /\ z \in BOOLEAN /\ field.left \in BOOLEAN /\ field.used = l + 1
    BY DEF NumberSound
  <2>2. l \in Nat /\ l <= Taken(conv, i)
    <3> HIDE DEF conv, i, w, z
    <3> QED
      BY <1>1, <2>1, NumberText
  <2>3. Taken(conv, i) \in Nat
    BY <1>2 DEF Taken
  <2> HIDE DEF l
  <2> QED
    BY <2>1, <2>2, <2>3
<1>5. \A m \in Nat : Power(base, m) \in Nat
  BY <1>2, PowerEquations
<1> HIDE DEF num, base, v
<1>6. CASE Negative(conv, i)
  <2>1. base = 10
    BY <1>6 DEF Negative, Base, base
  <2>2. ASSUME Len(num) > PRINT_BUF_LEN - 2 PROVE FALSE
    <3>1. PRINT_BUF_LEN - 2 \in Nat /\ Len(num) - 1 \in Nat /\ Len(num) > 1
          /\ PRINT_BUF_LEN - 2 <= Len(num) - 1
      BY <1>2, <1>3, <2>2
    <3>2. Power(base, PRINT_BUF_LEN - 2) <= Power(base, Len(num) - 1)
      BY <1>2, <3>1, PowerMonotonic
    <3>3. Word \div 2 < Power(base, PRINT_BUF_LEN - 2)
      BY <2>1 DEF BufferFits
    <3>4. Power(base, Len(num) - 1) <= v /\ v <= Word \div 2 /\ Word \div 2 \in Nat
      BY <1>2, <1>3, <1>6, <3>1
    <3> QED
      BY <1>2, <1>5, <3>1, <3>2, <3>3, <3>4
  <2>3. Taken(conv, i) = Len(num) + 1
    BY <1>6 DEF Taken, num
  <2> QED
    BY <1>2, <1>3, <1>4, <2>2, <2>3 DEF BufferIsEnough
<1>7. CASE ~Negative(conv, i)
  <2>2. ASSUME Len(num) > PRINT_BUF_LEN - 1 PROVE FALSE
    <3>1. PRINT_BUF_LEN - 1 \in Nat /\ Len(num) - 1 \in Nat /\ Len(num) > 1
          /\ PRINT_BUF_LEN - 1 <= Len(num) - 1
      BY <1>2, <1>3, <2>2
    <3>2. Power(base, PRINT_BUF_LEN - 1) <= Power(base, Len(num) - 1)
      BY <1>2, <3>1, PowerMonotonic
    <3>3. Word <= Power(base, PRINT_BUF_LEN - 1)
      BY <1>2 DEF BufferFits
    <3>4. Power(base, Len(num) - 1) <= v /\ v < Word
      BY <1>2, <3>1
    <3> QED
      BY <1>2, <1>3, <1>5, <3>1, <3>2, <3>3, <3>4
  <2>3. Taken(conv, i) = Len(num)
    BY <1>2, <1>7 DEF Taken, num
  <2> QED
    BY <1>2, <1>3, <1>4, <2>2, <2>3 DEF BufferIsEnough
<1> QED
  BY <1>6, <1>7

(* No number overruns print_buf, for integers of every width that goes with its
   length. *)
THEOREM BufferHolds == BufferFits => (Spec => []BufferIsEnough)
<1> SUFFICES ASSUME BufferFits PROVE Spec => []BufferIsEnough
  OBVIOUS
<1>1. NoField.used = 0 /\ PRINT_BUF_LEN \in Nat
  BY PrintfAssumption DEF NoField
<1>2. FormatInv => BufferIsEnough
  BY <1>1, NumberFits DEF FormatInv, FieldSound, TextSound, BufferIsEnough
<1> QED
  BY <1>2, FormatInvariant, PTL

(* The integers and the buffer of the program go together. *)
THEOREM TheBufferHolds ==
  Word = 4294967296 /\ PRINT_BUF_LEN = 12 => (Spec => []BufferIsEnough)
<1> SUFFICES ASSUME Word = 4294967296, PRINT_BUF_LEN = 12 PROVE BufferFits
  BY BufferHolds
<1>1. \A base \in Bases : /\ Power(base, 0) = 1
                          /\ \A n \in Nat : Power(base, n + 1) = base * Power(base, n)
  BY PowerEquations
<1>2. ASSUME NEW base \in Bases
      PROVE  /\ Power(base, 1) = base
             /\ Power(base, 2) = base * Power(base, 1)
             /\ Power(base, 3) = base * Power(base, 2)
             /\ Power(base, 4) = base * Power(base, 3)
             /\ Power(base, 5) = base * Power(base, 4)
             /\ Power(base, 6) = base * Power(base, 5)
             /\ Power(base, 7) = base * Power(base, 6)
             /\ Power(base, 8) = base * Power(base, 7)
             /\ Power(base, 9) = base * Power(base, 8)
             /\ Power(base, 10) = base * Power(base, 9)
             /\ Power(base, 11) = base * Power(base, 10)
  <2>1. /\ Power(base, 0 + 1) = base * Power(base, 0)
        /\ Power(base, 1 + 1) = base * Power(base, 1)
        /\ Power(base, 2 + 1) = base * Power(base, 2)
        /\ Power(base, 3 + 1) = base * Power(base, 3)
        /\ Power(base, 4 + 1) = base * Power(base, 4)
        /\ Power(base, 5 + 1) = base * Power(base, 5)
        /\ Power(base, 6 + 1) = base * Power(base, 6)
        /\ Power(base, 7 + 1) = base * Power(base, 7)
        /\ Power(base, 8 + 1) = base * Power(base, 8)
        /\ Power(base, 9 + 1) = base * Power(base, 9)
        /\ Power(base, 10 + 1) = base * Power(base, 10)
    BY <1>1
  <2>2. base * 1 = base
    BY DEF Bases
  <2> QED
    BY <1>1, <2>1, <2>2
<1>3. Power(10, 10) = 10000000000 /\ Power(10, 11) = 100000000000
  BY <1>2 DEF Bases
<1>4. Power(16, 11) = 17592186044416
  BY <1>2 DEF Bases
<1>5. Word \div 2 < Power(10, PRINT_BUF_LEN - 2)
  BY <1>3
<1>6. Word <= Power(10, PRINT_BUF_LEN - 1) /\ Word <= Power(16, PRINT_BUF_LEN - 1)
  BY <1>3, <1>4
<1> QED
  BY <1>5, <1>6 DEF BufferFits, Bases

-----------------------------------------------------------------------------
(* What the end of a call rests on *)

(* Interrupts are masked by a call that prints, and by nothing else. *)
MaskedByCall == masked => running /\ ~toBuffer

(* A step of a call gets closer to the end of its format, which stays the same,
   or is the last one and leaves the interrupts unmasked. *)
Advance ==
  \/ running' /\ fmt' = fmt /\ format' \in format + 1..Len(fmt) + 1
  \/ ~running' /\ ~masked'

LEMMA PrintSteps ==
  ASSUME TypeOK, print PROVE Advance
<1>1. format \in 1..Len(fmt) + 1 /\ Len(fmt) \in Nat
      /\ \A k \in Nat \ {0} : At(k) = "NUL" <=> k > Len(fmt)
  BY FormatEnd DEF TypeOK
<1>2. ASSUME NEW convs, Directive(convs), "NUL" \notin convs
      PROVE  ConvAt + 1 \in format + 1..Len(fmt) + 1
  <2>1. ConvAt + 1 \in 1..Len(fmt) + 1
    BY <1>2, DirectiveFits
  <2>2. ConvAt \in format + 1..Len(fmt) + 1
    BY <1>2, DirectiveParts DEF Directive
  <2> QED
    BY <1>1, <2>1, <2>2
<1>3. ASSUME NEW t, NEW next \in format + 1..Len(fmt) + 1, Emit(t, next), running
      PROVE  Advance
  BY <1>3 DEF Emit, Advance
<1>4. CASE Literal
  <2>1. running /\ At(format) # "NUL" /\ Emit(<<At(format)>>, format + 1)
    BY <1>4 DEF Literal
  <2>2. format + 1 \in format + 1..Len(fmt) + 1
    BY <1>1, <2>1
  <2> QED
    BY <1>3, <2>1, <2>2
<1>5. CASE PercentSign
  <2>1. running /\ At(format + 1) # "NUL" /\ Emit(<<"%">>, format + 2)
    BY <1>5 DEF PercentSign, InDirective
  <2>2. format + 2 \in format + 1..Len(fmt) + 1
    BY <1>1, <2>1
  <2> QED
    BY <1>3, <2>1, <2>2
<1>6. CASE LonePercent
  <2>1. running /\ At(format) # "NUL" /\ Emit(<<>>, format + 1)
    BY <1>6 DEF LonePercent, InDirective
  <2>2. format + 1 \in format + 1..Len(fmt) + 1
    BY <1>1, <2>1
  <2> QED
    BY <1>3, <2>1, <2>2
<1>7. ASSUME NEW convs, NEW t, Directive(convs), "NUL" \notin convs, Emit(t, ConvAt + 1)
      PROVE  Advance
  <2>1. running
    BY <1>7 DEF Directive, InDirective
  <2> QED
    BY <1>2, <1>3, <1>7, <2>1
<1>8. CASE StringField
  <2>1. PICK t : Emit(t, ConvAt + 1)
    BY <1>8 DEF StringField, Field
  <2>2. Directive({"s"}) /\ "NUL" \notin {"s"}
    BY <1>8 DEF StringField
  <2> QED
    BY <1>7, <2>1, <2>2
<1>9. CASE CharField
  <2>1. PICK t : Emit(t, ConvAt + 1)
    BY <1>9 DEF CharField, Field
  <2>2. Directive({"c"}) /\ "NUL" \notin {"c"}
    BY <1>9 DEF CharField
  <2> QED
    BY <1>7, <2>1, <2>2
<1>10. CASE NumberField
  <2>1. PICK t : Emit(t, ConvAt + 1)
    BY <1>10 DEF NumberField, Field
  <2>2. Directive(Conversion) /\ "NUL" \notin Conversion
    BY <1>10 DEF NumberField, Conversion
  <2> QED
    BY <1>7, <2>1, <2>2
<1>11. CASE UnknownField
  <2> DEFINE convs == AnyChar \ ({"s", "c"} \cup Conversion)
  <2>1. Directive(convs) /\ Emit(<<>>, ConvAt + 1)
    BY <1>11 DEF UnknownField
  <2>2. "NUL" \notin convs
    BY NoNulInFormats
  <2> HIDE DEF convs
  <2> QED
    BY <1>7, <2>1, <2>2
<1>12. CASE Finish
  BY <1>12 DEF Finish, Advance
<1> QED
  BY <1>4, <1>5, <1>6, <1>8, <1>9, <1>10, <1>11, <1>12 DEF print

(* No call goes on for ever or leaves interrupts masked: every step of one goes
   forward in the format, by one character at least and never past its NUL, or
   ends the call and unmasks.  This is what InterruptsComeBack rests on, with
   the fairness of print. *)
THEOREM CallsEnd == Spec => [][running => Advance]_vars
<1>1. TypeOK /\ [Next]_vars => [running => Advance]_vars
  <2> SUFFICES ASSUME TypeOK, Next, running PROVE Advance
    BY DEF vars
  <2>1. print
    BY DEF Next, myprintf, mysprintf, Start
  <2> QED
    BY <2>1, PrintSteps
<1> QED
  BY <1>1, FormatTypes, PTL DEF Spec

(* Interrupts are masked only while a call of myprintf runs: a call that stores
   its text masks none, and none is left behind. *)
THEOREM MaskedOnlyByCall == Spec => []MaskedByCall
<1>1. Init => MaskedByCall
  BY DEF Init, MaskedByCall
<1>2. MaskedByCall /\ [Next]_vars => MaskedByCall'
  <2> SUFFICES ASSUME MaskedByCall, [Next]_vars PROVE MaskedByCall'
    OBVIOUS
  <2>1. ASSUME NEW f, NEW buffer \in BOOLEAN, Start(f, buffer) PROVE MaskedByCall'
    BY <2>1 DEF Start, MaskedByCall
  <2>2. CASE print
    <3>1. CASE Finish
      BY <3>1 DEF Finish, MaskedByCall
    <3>2. CASE UNCHANGED <<running, toBuffer, masked>>
      BY <3>2 DEF MaskedByCall
    <3> QED
      BY <2>2, <3>1, <3>2 DEF print, Literal, PercentSign, LonePercent,
         StringField, NumberField, CharField, UnknownField, Field, Emit
  <2>3. CASE UNCHANGED vars
    BY <2>3 DEF vars, MaskedByCall
  <2> QED
    BY <2>1, <2>2, <2>3 DEF Next, myprintf, mysprintf
<1> QED
  BY <1>1, <1>2, PTL DEF Spec
=============================================================================
