-------------------------------- MODULE Printf --------------------------------
(***************************************************************************)
(* The formatted output of printf-stdarg.c: print goes over a format, one  *)
(* action per character or directive, and prints and printi lay out one    *)
(* field.  myprintf sends the text to _write with interrupts masked,       *)
(* mysprintf (and mysnprintf, which ignores its count) stores it.          *)
(*                                                                         *)
(* The width of an integer is a constant; with it goes PRINT_BUF_LEN.      *)
(***************************************************************************)
EXTENDS Integers, Sequences, FiniteSets

CONSTANTS Word,           \* 2^32, the number of values of an unsigned int
          PRINT_BUF_LEN,  \* characters for a number with its NUL (12)
          Formats,        \* the formats: sequences of characters
          Ints,           \* arguments of the number directives
          Strings,        \* arguments of %s, NULL among them
          Chars,          \* arguments of %c, "NUL" among them
          NULL            \* the null pointer

Digits == {"0", "1", "2", "3", "4", "5", "6", "7", "8", "9"}

(* No format ends inside a directive, save behind a lone percent sign: print
   would look for the rest of it behind the NUL. *)
ASSUME PrintfAssumption ==
  /\ Word \in Nat \ {0} /\ Word % 2 = 0
  /\ PRINT_BUF_LEN \in Nat
  /\ Formats \subseteq Seq(STRING \ {"NUL"})
  /\ \A f \in Formats : f # <<>> /\ f[Len(f)] \notin Digits \cup {"-"}
  /\ Ints \subseteq -(Word \div 2)..Word \div 2 - 1
  /\ Strings \subseteq Seq(STRING) \cup {NULL}
  /\ Chars \subseteq STRING

VARIABLES
  running,   \* print is at work
  toBuffer,  \* it stores its text (out is not null)
  masked,    \* interrupts are masked
  fmt,       \* the format
  format,    \* the index of the next character in it
  text,      \* what has been sent or stored
  pc,        \* the number of characters, which is returned
  field      \* the directive done last: no code sees this

vars == <<running, toBuffer, masked, fmt, format, text, pc, field>>

NoField == [conv |-> "none", arg |-> NULL, width |-> 0, left |-> FALSE,
            zero |-> FALSE, text |-> <<>>, used |-> 0]

Init ==
  /\ running = FALSE /\ toBuffer = FALSE /\ masked = FALSE
  /\ fmt = <<>> /\ format = 1
  /\ text = <<>> /\ pc = 0
  /\ field = NoField

-----------------------------------------------------------------------------
(* One field *)

Fill(c, n) == [k \in 1..n |-> c]

Padding_Inclusive(width, len) ==   \* mutation: one too many
  IF width >= len THEN width - len + 1 ELSE 0

Padding(width, len) == IF width > len THEN width - len ELSE 0

prints(string, width, left, zero) ==
  LET fill == Fill(IF zero THEN "0" ELSE " ", Padding(width, Len(string)))
  IN IF left THEN string \o fill ELSE fill \o string

Lower == <<"0", "1", "2", "3", "4", "5", "6", "7",
           "8", "9", "a", "b", "c", "d", "e", "f">>

Upper == <<"0", "1", "2", "3", "4", "5", "6", "7",
           "8", "9", "A", "B", "C", "D", "E", "F">>

(* The loop that divides by the base; it leaves zero without a digit. *)
Numeral(u, base, letters) ==
  LET num[n \in Nat] ==
        IF n = 0 THEN <<>> ELSE Append(num[n \div base], letters[(n % base) + 1])
  IN num[u]

Base(conv) == IF conv \in {"x", "X"} THEN 16 ELSE 10

Negative(conv, i) == conv = "d" /\ i < 0

Magnitude_Wide(conv, i) ==   \* mutation: the argument is widened first
  (IF Negative(conv, i) THEN -i ELSE i) % (Word * Word)

(* The unsigned u.  Negating the least integer overflows, to itself. *)
Magnitude(conv, i) == (IF Negative(conv, i) THEN -i ELSE i) % Word

(* What printi puts into print_buf, from its end downwards: a minus sign in
   front of zeros is sent before. *)
SignFirst_Never(conv, i, width, zero) == FALSE   \* mutation

SignFirst(conv, i, width, zero) == Negative(conv, i) /\ width # 0 /\ zero

print_buf(conv, i, width, zero) ==
  LET number == IF i = 0 THEN <<"0">>
                ELSE Numeral(Magnitude(conv, i), Base(conv),
                             IF conv = "X" THEN Upper ELSE Lower)
  IN IF Negative(conv, i) /\ ~SignFirst(conv, i, width, zero)
       THEN <<"-">> \o number
       ELSE number

printi(conv, i, width, left, zero) ==
  LET s == print_buf(conv, i, width, zero)
  IN IF SignFirst(conv, i, width, zero)
       THEN <<"-">> \o prints(s, width - 1, left, zero)
       ELSE prints(s, width, left, zero)

-----------------------------------------------------------------------------
(* The format *)

At(k) == IF k <= Len(fmt) THEN fmt[k] ELSE "NUL"

(* Where a loop over the characters of S stops. *)
Behind(k, S) == CHOOSE m \in k..Len(fmt) + 1 :
                  At(m) \notin S /\ \A n \in k..m - 1 : At(n) \in S

Left    == At(format + 1) = "-"
FlagEnd == IF Left THEN format + 2 ELSE format + 1
WidthAt == Behind(FlagEnd, {"0"})
ConvAt  == Behind(WidthAt, Digits)
Zero    == WidthAt > FlagEnd

DigitValue(c) == CHOOSE v \in 0..15 : Lower[v + 1] = c \/ Upper[v + 1] = c

Positional(s, base) ==
  LET value[n \in 0..Len(s)] ==
        IF n = 0 THEN 0 ELSE base * value[n - 1] + DigitValue(s[n])
  IN value[Len(s)]

Width == Positional(SubSeq(fmt, WidthAt, ConvAt - 1), 10)

Emit(t, next) ==
  /\ text' = text \o t
  /\ pc' = pc + Len(t)
  /\ format' = next
  /\ UNCHANGED <<running, toBuffer, masked, fmt>>

(* One call in a behaviour: nothing is kept for the next. *)
Start(f, buffer) ==
  /\ fmt = <<>> /\ ~running
  /\ running' = TRUE /\ toBuffer' = buffer /\ masked' = ~buffer
  /\ fmt' = f /\ format' = 1
  /\ text' = <<>> /\ pc' = 0
  /\ field' = NoField

myprintf(f)  == Start(f, FALSE)
mysprintf(f) == Start(f, TRUE)

Literal ==
  /\ running /\ At(format) \notin {"%", "NUL"}
  /\ Emit(<<At(format)>>, format + 1)
  /\ UNCHANGED field

InDirective == running /\ At(format) = "%"

PercentSign ==
  /\ InDirective /\ At(format + 1) = "%"
  /\ Emit(<<"%">>, format + 2)
  /\ UNCHANGED field

(* The test for the end of the format behind a percent sign. *)
LonePercent_Past ==   \* mutation: no break, the loop steps over the NUL
  /\ InDirective /\ At(format + 1) = "NUL"
  /\ Emit(<<>>, format + 2)
  /\ UNCHANGED field

LonePercent ==
  /\ InDirective /\ At(format + 1) = "NUL"
  /\ Emit(<<>>, format + 1)
  /\ UNCHANGED field

Conversion == {"d", "u", "x", "X"}

AnyChar == UNION {{f[k] : k \in 1..Len(f)} : f \in Formats}

Directive(convs) ==
  /\ InDirective
  /\ At(format + 1) \notin {"%", "NUL"}
  /\ At(ConvAt) \in convs

Field(arg, t, used) ==
  /\ Emit(t, ConvAt + 1)
  /\ field' = [conv |-> At(ConvAt), arg |-> arg, width |-> Width, left |-> Left,
               zero |-> Zero, text |-> t, used |-> used]

NullString == <<"(", "n", "u", "l", "l", ")">>

StringField ==
  /\ Directive({"s"})
  /\ \E s \in Strings :
       LET string == IF s = NULL THEN NullString ELSE s
       IN Field(string, prints(string, Width, Left, Zero), 0)

NumberField ==
  /\ Directive(Conversion)
  /\ \E i \in Ints :
       Field(i, printi(At(ConvAt), i, Width, Left, Zero),
             Len(print_buf(At(ConvAt), i, Width, Zero)) + 1)

(* The character becomes a string, and a NUL the empty one. *)
CharField ==
  /\ Directive({"c"})
  /\ \E c \in Chars :
       LET scr == IF c = "NUL" THEN <<>> ELSE <<c>>
       IN Field(scr, prints(scr, Width, Left, Zero), 0)

UnknownField_Stays ==   \* mutation: the letter is not stepped over
  /\ Directive(AnyChar \ ({"s", "c"} \cup Conversion))
  /\ Emit(<<>>, format)
  /\ UNCHANGED field

(* Other letters are skipped, with their flags and width. *)
UnknownField ==
  /\ Directive(AnyChar \ ({"s", "c"} \cup Conversion))
  /\ Emit(<<>>, ConvAt + 1)
  /\ UNCHANGED field

Finish ==
  /\ running /\ At(format) = "NUL"
  /\ running' = FALSE
  /\ masked' = FALSE
  /\ text' = IF toBuffer THEN Append(text, "NUL") ELSE text
  /\ UNCHANGED <<toBuffer, fmt, format, pc, field>>

print ==
  \/ Literal \/ PercentSign \/ LonePercent
  \/ StringField \/ NumberField \/ CharField \/ UnknownField
  \/ Finish

Next == print \/ \E f \in Formats : myprintf(f) \/ mysprintf(f)

(* A call goes on until it returns: it waits for nothing. *)
Spec == Init /\ [][Next]_vars /\ WF_vars(print)

-----------------------------------------------------------------------------
(* Properties *)

(* The format is not read behind its NUL. *)
TypeOK ==
  /\ running \in BOOLEAN /\ toBuffer \in BOOLEAN /\ masked \in BOOLEAN
  /\ fmt \in Formats \cup {<<>>}
  /\ format \in 1..Len(fmt) + 1
  /\ pc \in Nat
  /\ field.width \in Nat /\ field.used \in Nat

(* printf-stdarg.c, at PRINT_BUF_LEN: "the following should be enough for 32
   bit int".  The least integer with its sign just fits. *)
BufferIsEnough == field.used <= PRINT_BUF_LEN

IsNumber == field.conv \in Conversion

Negated == Negative(field.conv, field.arg)

Value == IF Negated THEN -field.arg ELSE field.arg % Word

(* A number printed reads back as the argument: its text is blanks, the sign of
   a negative one, digits that have its value, and blanks.  Zeros to the right
   of a left-adjusted number would change it: no format of the program has both
   flags. *)
NumberReadsBack ==
  IsNumber /\ ~(field.left /\ field.zero) =>
    LET t == field.text
    IN \E a, b \in 1..Len(t) :
         /\ a <= b
         /\ \A k \in a..b : t[k] \notin {" ", "-"}
         /\ Positional(SubSeq(t, a, b), Base(field.conv)) = Value
         /\ Negated => a > 1 /\ t[a - 1] = "-"
         /\ \A k \in 1..Len(t) \ a..b : t[k] = " " \/ (Negated /\ k = a - 1)

Power(base, n) ==
  LET power[k \in Nat] == IF k = 0 THEN 1 ELSE base * power[k - 1]
  IN power[n]

(* The n characters that the field needs at least: those of a string; a digit
   for each power of the base that a number reaches, with its sign. *)
Needs(n) ==
  LET base == Base(field.conv)
      digits == IF Negated THEN n - 1 ELSE n
  IN IF IsNumber
       THEN /\ digits >= 1
            /\ Value < Power(base, digits)
            /\ digits > 1 => Value >= Power(base, digits - 1)
       ELSE n = Len(field.arg)

(* A field is as wide as asked, or as its value needs; it is filled up with
   blanks on the side it is not adjusted to, and with none if zeros are asked
   for.  What needs the rest is there whole. *)
FieldAligned ==
  LET t == field.text
      Filled(n) == IF field.left THEN n + 1..Len(t) ELSE 1..Len(t) - n
      Before(n) == IF field.left THEN 0 ELSE Len(t) - n
  IN field.conv # "none" =>
       \E n \in 0..Len(t) :
         /\ Needs(n)
         /\ Len(t) = IF field.width > n THEN field.width ELSE n
         /\ \A k \in Filled(n) : t[k] = " " <=> ~field.zero
         /\ \A k \in 1..Len(t) \ Filled(n) :
              IF IsNumber THEN t[k] # " " ELSE t[k] = field.arg[k - Before(n)]

(* myprintf masks interrupts, and unmasks them whatever the format is. *)
InterruptsComeBack == masked ~> ~masked
=============================================================================
