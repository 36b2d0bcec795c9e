---------------------------- MODULE CmdParseProofs ----------------------------
(***************************************************************************)
(* Proofs about CmdParse, for lines of every length and with any quotes.   *)
(***************************************************************************)
EXTENDS CmdParse, SequenceTheorems, FiniteSetTheorems, TLAPS

-----------------------------------------------------------------------------
(* The inductive invariant *)

(* Nothing is put into the line but NUL, and its own NUL stays. *)
OnlyCut ==
  /\ \A k \in 0..Len(input) - 1 : cmdstr[k] \in {input[k + 1], "NUL"}
  /\ cmdstr[Len(input)] = "NUL"

Open == IF argstart >= 0 THEN 1 ELSE 0

(* Every argument, also the one being read, has used up two characters, but
   for the last one, which may be the end of the line.  An index that has passed
   the line did so behind a quoted argument, which uses three. *)
ArgCount ==
  /\ pc = "scan" => 2 * Len(args) + Open <= jj
  /\ pc = "scan" /\ jj > wholeLength => 2 * Len(args) + Open + 1 <= jj
  /\ 2 * Len(args) <= Len(input) + 1

IInv ==
  /\ TypeOK
  /\ OnlyCut
  /\ CutsDelimiters
  /\ ArgCount

-----------------------------------------------------------------------------
(* Lemmas *)

(* The part of the line the tokenizer looks at. *)
LEMMA WholeLength ==
  ASSUME TypeOK
  PROVE  /\ Len(input) \in Nat
         /\ wholeLength \in 0..Len(input)
         /\ Len(input) - 1 <= wholeLength
<1>1. Len(input) \in Nat
  BY LenProperties DEF TypeOK
<1> QED
  BY <1>1, CmdParseAssumption DEF wholeLength

(* A fresh line in its buffer. *)
LEMMA FreshBuffer ==
  ASSUME NEW s \in Seq(Chars)
  PROVE  /\ Buffer(s) \in [0..Len(s) + 2 -> Chars]
         /\ \A k \in 0..Len(s) - 1 : Buffer(s)[k] = s[k + 1]
         /\ Buffer(s)[Len(s)] = "NUL"
<1> DEFINE cell(k) == IF k < Len(s) THEN s[k + 1]
                      ELSE IF k = Len(s) + 1 THEN "LF" ELSE "NUL"
<1>1. Len(s) \in Nat /\ \A k \in 0..Len(s) - 1 : s[k + 1] \in Chars
  BY LenProperties, ElementOfSeq
<1>2. \A k \in 0..Len(s) + 2 : cell(k) \in Chars
  <2> SUFFICES ASSUME NEW k \in 0..Len(s) + 2 PROVE cell(k) \in Chars
    OBVIOUS
  <2>1. CASE k < Len(s)
    BY <1>1, <2>1
  <2>2. "LF" \in Chars /\ "NUL" \in Chars
    BY CmdParseAssumption
  <2>3. CASE ~(k < Len(s))
    BY <2>2, <2>3
  <2> QED
    BY <2>1, <2>3
<1>3. Buffer(s) = [k \in 0..Len(s) + 2 |-> cell(k)]
  BY DEF Buffer
<1>4. cell(Len(s)) = "NUL" /\ \A k \in 0..Len(s) - 1 : cell(k) = s[k + 1]
  BY <1>1
<1> HIDE DEF cell
<1>5. Buffer(s) \in [0..Len(s) + 2 -> Chars]
  BY <1>2, <1>3
<1>6. \A k \in 0..Len(s) - 1 : Buffer(s)[k] = cell(k)
  BY <1>1, <1>3
<1>7. Buffer(s)[Len(s)] = cell(Len(s))
  BY <1>1, <1>3
<1> QED
  BY <1>4, <1>5, <1>6, <1>7

(* A word of one character. *)
LEMMA OneChar ==
  ASSUME NEW S, NEW c \in S PROVE <<c>> \in Seq(S)
OBVIOUS

(* One more argument. *)
LEMMA OneMoreArg ==
  ASSUME TypeOK, NEW a \in 0..Len(input), args' = Append(args, a)
  PROVE  args' \in Seq(0..Len(input)) /\ Len(args') = Len(args) + 1
BY AppendProperties DEF TypeOK

(* Cutting at a character that is no part of a word, at the NUL, or behind the
   part of the line that is looked at. *)
LEMMA CutKeeps ==
  ASSUME TypeOK, OnlyCut, CutsDelimiters, input' = input,
         NEW k \in 0..Len(input) + 1, Cut(k),
         \/ k >= wholeLength
         \/ k < Len(input) /\ input[k + 1] \in Blanks \cup Quotes
  PROVE  /\ cmdstr' \in [0..Len(input) + 2 -> Chars]
         /\ OnlyCut'
         /\ CutsDelimiters'
<1>1. Len(input) \in Nat /\ wholeLength \in 0..Len(input) /\ wholeLength' = wholeLength
  BY WholeLength DEF wholeLength
<1>2. /\ cmdstr' = [cmdstr EXCEPT ![k] = "NUL"]
      /\ cmdstr \in [0..Len(input) + 2 -> Chars]
  BY DEF Cut, TypeOK
<1>3. /\ cmdstr' \in [0..Len(input) + 2 -> Chars]
      /\ \A m \in 0..Len(input) + 2 : cmdstr'[m] = IF m = k THEN "NUL" ELSE cmdstr[m]
  <2>1. "NUL" \in Chars
    BY CmdParseAssumption
  <2> QED
    BY <1>1, <1>2, <2>1
<1>4. OnlyCut'
  BY <1>1, <1>3 DEF OnlyCut
<1>5. CutsDelimiters'
  BY <1>1, <1>3 DEF CutsDelimiters
<1> QED
  BY <1>3, <1>4, <1>5

(* A character that is not NUL is still the one that came. *)
LEMMA StillThere ==
  ASSUME OnlyCut, NEW k \in 0..Len(input) - 1, cmdstr[k] # "NUL"
  PROVE  cmdstr[k] = input[k + 1]
BY DEF OnlyCut

-----------------------------------------------------------------------------
(* Invariance *)

(* An empty or a fresh line, with nothing found yet. *)
LEMMA FreshIInv ==
  ASSUME NEW s \in Seq(Chars), input' = s, cmdstr' = Buffer(s), jj' = 0,
         argstart' = -1, args' = <<>>, called' = NoCall,
         pc' \in {"idle", "scan"}, cmdErr' \in {0, 1, 254, 255}
  PROVE  IInv'
<1>1. Len(s) \in Nat
  BY LenProperties
<1>2. args' \in Seq(0..Len(s)) /\ Len(args') = 0
  BY EmptySeq
<1>3. called' \in [cmd : Seq(Chars), tables : SUBSET (1..2)]
  BY EmptySeq DEF NoCall
<1>4. TypeOK'
  BY <1>1, <1>2, <1>3, FreshBuffer DEF TypeOK
<1>5. OnlyCut'
  BY FreshBuffer DEF OnlyCut
<1>6. CutsDelimiters'
  <2>1. wholeLength' <= Len(s) /\ wholeLength' \in Int
    BY <1>1, CmdParseAssumption DEF wholeLength
  <2>2. \A k \in 0..Len(s) - 1 : cmdstr'[k] = input'[k + 1]
    BY FreshBuffer
  <2>3. \A k \in 0..wholeLength' - 1 : cmdstr'[k] = input'[k + 1]
    BY <1>1, <2>1, <2>2
  <2> QED
    BY <2>3 DEF CutsDelimiters
<1>7. ArgCount'
  <2>1. wholeLength' >= 0 /\ wholeLength' \in Int
    BY <1>1, CmdParseAssumption DEF wholeLength
  <2> QED
    BY <1>1, <1>2, <2>1 DEF ArgCount, Open
<1> QED
  BY <1>4, <1>5, <1>6, <1>7 DEF IInv

LEMMA InitIInv == Init => IInv
<1> SUFFICES ASSUME Init PROVE IInv
  OBVIOUS
<1>1. <<>> \in Seq(Chars) /\ Len(<<>>) = 0
  BY EmptySeq
<1>2. args \in Seq(0..0) /\ Len(args) = 0
  BY EmptySeq DEF Init
<1>3. called \in [cmd : Seq(Chars), tables : SUBSET (1..2)]
  BY EmptySeq DEF Init, NoCall
<1>4. Len(input) = 0 /\ input = <<>> /\ input \in Seq(Chars)
  BY <1>1 DEF Init
<1>5. /\ cmdstr \in [0..Len(input) + 2 -> Chars]
      /\ cmdstr[Len(input)] = "NUL"
  <2>1. /\ Buffer(input) \in [0..Len(input) + 2 -> Chars]
        /\ Buffer(input)[Len(input)] = "NUL"
    BY <1>4, FreshBuffer
  <2> QED
    BY <1>4, <2>1 DEF Init
<1>6. TypeOK
  BY <1>2, <1>3, <1>4, <1>5 DEF Init, TypeOK
<1>7. wholeLength = 0
  BY <1>4, <1>6, WholeLength
<1> QED
  BY <1>2, <1>4, <1>5, <1>6, <1>7
     DEF Init, IInv, OnlyCut, CutsDelimiters, ArgCount

(* A quoted argument: opening quote, closing quote, and the next character. *)
LEMMA QuotedStep ==
  ASSUME IInv, NEW q \in Quotes, Quoted(q) PROVE IInv'
<1>1. /\ InLine /\ cmdstr[jj] = q /\ args' = Append(args, jj + 1)
      /\ UNCHANGED <<pc, input, argstart, cmdErr, called>>
  BY DEF Quoted
<1>2. PICK kk \in jj + 1..Len(input) : cmdstr[kk] = q /\ Cut(kk) /\ jj' = kk + 2
  BY DEF Quoted
<1>3. /\ Len(input) \in Nat /\ jj \in Nat /\ wholeLength \in 0..Len(input)
      /\ jj < wholeLength /\ wholeLength' = wholeLength /\ pc = "scan"
  BY <1>1, WholeLength DEF InLine, IInv, TypeOK, wholeLength
<1>4. kk \in 0..Len(input) - 1 /\ q # "NUL"
  BY <1>2, <1>3 DEF IInv, OnlyCut, Quotes
<1>5. input[kk + 1] = q
  BY <1>2, <1>4, StillThere DEF IInv
<1>6. cmdstr' \in [0..Len(input) + 2 -> Chars] /\ OnlyCut' /\ CutsDelimiters'
  <2>1. kk \in 0..Len(input) + 1 /\ kk < Len(input)
    BY <1>3, <1>4
  <2>2. input[kk + 1] \in Blanks \cup Quotes
    BY <1>5
  <2> QED
    BY <1>1, <1>2, <2>1, <2>2, CutKeeps DEF IInv
<1>7. args' \in Seq(0..Len(input)) /\ Len(args') = Len(args) + 1
  <2>1. jj + 1 \in 0..Len(input)
    BY <1>3
  <2> QED
    BY <1>1, <2>1, OneMoreArg DEF IInv
<1>8. jj' \in 0..Len(input) + 1 /\ jj' >= jj + 3
  BY <1>2, <1>3, <1>4
<1>9. TypeOK'
  BY <1>1, <1>6, <1>7, <1>8 DEF IInv, TypeOK
<1>10. ArgCount'
  <2>1. 2 * Len(args) + Open <= jj /\ Len(args) \in Nat
    BY <1>3, LenProperties DEF IInv, TypeOK, ArgCount
  <2>2. Open \in {0, 1} /\ Open' = Open
    BY <1>1 DEF Open
  <2>3. 2 * Len(args') + Open' + 1 <= jj' /\ 2 * Len(args') <= Len(input) + 1
    BY <1>3, <1>7, <1>8, <2>1, <2>2
  <2>4. Len(args') \in Nat /\ jj' \in Nat
    BY <1>3, <1>7, <1>8, <2>1
  <2> QED
    BY <1>1, <2>2, <2>3, <2>4 DEF ArgCount
<1> QED
  BY <1>6, <1>9, <1>10 DEF IInv

LEMMA UnmatchedStep ==
  ASSUME IInv, NEW q \in Quotes, Unmatched(q) PROVE IInv'
<1>1. /\ pc' = "return" /\ cmdErr' = 255
      /\ UNCHANGED <<input, cmdstr, jj, argstart, args, called>>
  BY DEF Unmatched
<1>2. TypeOK'
  BY <1>1 DEF IInv, TypeOK
<1> QED
  BY <1>1, <1>2 DEF IInv, OnlyCut, CutsDelimiters, ArgCount, wholeLength

(* A blank ends the argument being read, if there is one. *)
LEMMA DelimiterStep ==
  ASSUME IInv, Delimiter PROVE IInv'
<1>1. /\ InLine /\ cmdstr[jj] \in Blanks /\ jj' = jj + 1
      /\ UNCHANGED <<pc, input, cmdErr, called>>
  BY DEF Delimiter
<1>2. /\ Len(input) \in Nat /\ jj \in Nat /\ wholeLength \in 0..Len(input)
      /\ jj < wholeLength /\ wholeLength' = wholeLength /\ pc = "scan"
      /\ jj' \in 0..Len(input) + 1
  BY <1>1, WholeLength DEF InLine, IInv, TypeOK, wholeLength
<1>3. 2 * Len(args) + Open <= jj /\ Len(args) \in Nat
  BY <1>2, LenProperties DEF IInv, TypeOK, ArgCount
<1>4. CASE /\ argstart >= 0 /\ Cut(jj)
           /\ args' = Append(args, argstart) /\ argstart' = -1
  <2>1. jj \in 0..Len(input) - 1 /\ input[jj + 1] \in Blanks
    <3>1. jj \in 0..Len(input) - 1 /\ cmdstr[jj] # "NUL"
      BY <1>1, <1>2 DEF Blanks
    <3> QED
      BY <1>1, <3>1, StillThere DEF IInv
  <2>2. cmdstr' \in [0..Len(input) + 2 -> Chars] /\ OnlyCut' /\ CutsDelimiters'
    BY <1>1, <1>2, <1>4, <2>1, CutKeeps DEF IInv
  <2>3. args' \in Seq(0..Len(input)) /\ Len(args') = Len(args) + 1
    <3>1. argstart \in 0..Len(input)
      BY <1>2, <1>4 DEF IInv, TypeOK
    <3> QED
      BY <1>4, <3>1, OneMoreArg DEF IInv
  <2>4. TypeOK'
    BY <1>1, <1>2, <1>4, <2>2, <2>3 DEF IInv, TypeOK
  <2>5. Open = 1 /\ Open' = 0
    BY <1>4 DEF Open
  <2>6. ArgCount'
    BY <1>1, <1>2, <1>3, <2>3, <2>5 DEF ArgCount
  <2> QED
    BY <2>2, <2>4, <2>6 DEF IInv
<1>5. CASE argstart < 0 /\ UNCHANGED <<cmdstr, args, argstart>>
  <2>1. TypeOK'
    BY <1>1, <1>2, <1>5 DEF IInv, TypeOK
  <2>2. Open = 0 /\ Open' = 0
    BY <1>5 DEF Open, IInv, TypeOK
  <2>3. ArgCount'
    BY <1>1, <1>2, <1>3, <1>5, <2>2 DEF ArgCount
  <2> QED
    BY <1>1, <1>2, <1>5, <2>1, <2>3 DEF IInv, OnlyCut, CutsDelimiters
<1> QED
  BY <1>4, <1>5 DEF Delimiter

LEMMA OtherCharStep ==
  ASSUME IInv, OtherChar PROVE IInv'
<1>1. /\ InLine /\ jj' = jj + 1
      /\ argstart' = IF argstart < 0 THEN jj ELSE argstart
      /\ UNCHANGED <<pc, input, cmdstr, args, cmdErr, called>>
  BY DEF OtherChar
<1>2. /\ Len(input) \in Nat /\ jj \in Nat /\ wholeLength \in 0..Len(input)
      /\ jj < wholeLength /\ wholeLength' = wholeLength /\ pc = "scan"
  BY <1>1, WholeLength DEF InLine, IInv, TypeOK, wholeLength
<1>3. 2 * Len(args) + Open <= jj /\ Len(args) \in Nat
  BY <1>2, LenProperties DEF IInv, TypeOK, ArgCount
<1>4. argstart' \in -1..Len(input) - 1 /\ argstart' >= 0
  BY <1>1, <1>2 DEF IInv, TypeOK
<1>5. TypeOK'
  BY <1>1, <1>2, <1>4 DEF IInv, TypeOK
<1>6. Open \in {0, 1} /\ Open' = 1 /\ (Open = 0 \/ Open = 1)
  BY <1>4 DEF Open
<1>7. ArgCount'
  <2>1. 2 * Len(args') + Open' <= jj'
    BY <1>1, <1>2, <1>3, <1>6
  <2>2. ~(jj' > wholeLength')
    BY <1>1, <1>2
  <2> QED
    BY <1>1, <2>1, <2>2 DEF ArgCount, IInv
<1> QED
  BY <1>1, <1>2, <1>5, <1>7 DEF IInv, OnlyCut, CutsDelimiters

(* The last argument ends with the line. *)
LEMMA EndOfLineStep ==
  ASSUME IInv, EndOfLine PROVE IInv'
<1>1. /\ pc = "scan" /\ jj >= wholeLength /\ pc' = "dispatch"
      /\ UNCHANGED <<input, jj, argstart, cmdErr, called>>
  BY DEF EndOfLine
<1>2. /\ Len(input) \in Nat /\ jj \in 0..Len(input) + 1
      /\ wholeLength \in 0..Len(input) /\ wholeLength' = wholeLength
  BY <1>1, WholeLength DEF IInv, TypeOK, wholeLength
<1>3. CASE argstart >= 0 /\ Cut(jj) /\ args' = Append(args, argstart)
  <2>1. cmdstr' \in [0..Len(input) + 2 -> Chars] /\ OnlyCut' /\ CutsDelimiters'
    BY <1>1, <1>2, <1>3, CutKeeps DEF IInv
  <2>2. args' \in Seq(0..Len(input)) /\ Len(args') = Len(args) + 1
    <3>1. argstart \in 0..Len(input)
      BY <1>2, <1>3 DEF IInv, TypeOK
    <3> QED
      BY <1>3, <3>1, OneMoreArg DEF IInv
  <2>3. TypeOK'
    BY <1>1, <2>1, <2>2 DEF IInv, TypeOK
  <2>4. ArgCount'
    <3>1. Open = 1 /\ Len(args) \in Nat
      BY <1>3, LenProperties DEF Open, IInv, TypeOK
    <3>2. CASE jj = wholeLength
      <4>1. 2 * Len(args) + 1 <= jj
        BY <1>1, <3>1 DEF IInv, ArgCount
      <4> QED
        BY <1>1, <1>2, <2>2, <3>1, <3>2, <4>1 DEF ArgCount
    <3>3. CASE jj > wholeLength
      <4>1. 2 * Len(args) + 2 <= jj
        BY <1>1, <3>1, <3>3 DEF IInv, ArgCount
      <4> QED
        BY <1>1, <1>2, <2>2, <3>1, <4>1 DEF ArgCount
    <3> QED
      BY <1>1, <1>2, <3>2, <3>3
  <2> QED
    BY <2>1, <2>3, <2>4 DEF IInv
<1>4. CASE argstart < 0 /\ UNCHANGED <<cmdstr, args>>
  <2>1. TypeOK'
    BY <1>1, <1>4 DEF IInv, TypeOK
  <2>2. ArgCount'
    BY <1>1, <1>4 DEF IInv, ArgCount
  <2> QED
    BY <1>1, <1>2, <1>4, <2>1, <2>2 DEF IInv, OnlyCut, CutsDelimiters
<1> QED
  BY <1>3, <1>4 DEF EndOfLine

(* What runs is a name of one of the two tables. *)
LEMMA DispatchStep ==
  ASSUME IInv, Dispatch PROVE IInv'
<1>1. /\ pc' = "return" /\ cmdErr' \in {0, 1, 254, 255}
      /\ UNCHANGED <<input, cmdstr, jj, argstart, args>>
  BY DEF Dispatch, Skip, Run, NotRecognized, cmd_help, IInv, TypeOK
<1>2. called' \in [cmd : Seq(Chars), tables : SUBSET (1..2)]
  <2>1. CASE UNCHANGED called
    BY <2>1 DEF IInv, TypeOK
  <2>2. CASE Run
    <3>1. Hits \subseteq 1..2 /\ Hits # {}
      BY <2>2 DEF Run, Hits, dispatchTableTable
    <3>2. PICK t \in 1..2 : Str(args[1]) \in dispatchTableTable[t]
      BY <3>1 DEF Hits
    <3>3. Str(args[1]) \in mainCommands \cup commonCommands
      BY <3>2 DEF dispatchTableTable
    <3>4. mainCommands \cup commonCommands \subseteq Seq(Chars)
      <4>1. "t" \in Chars /\ "f" \in Chars /\ "h" \in Chars /\ "x" \in Chars
        BY CmdParseAssumption
      <4>2. \A c \in Chars : <<c>> \in Seq(Chars)
        BY OneChar
      <4> QED
        BY <4>1, <4>2 DEF mainCommands, commonCommands
    <3>5. Str(args[1]) \in Seq(Chars)
      BY <3>3, <3>4
    <3> QED
      BY <2>2, <3>1, <3>5 DEF Run
  <2> QED
    BY <2>1, <2>2 DEF Dispatch, Skip, NotRecognized
<1>3. TypeOK'
  BY <1>1, <1>2 DEF IInv, TypeOK
<1> QED
  BY <1>1, <1>3 DEF IInv, OnlyCut, CutsDelimiters, ArgCount, wholeLength

(* Every step keeps the invariant. *)
LEMMA NextIInv == IInv /\ [Next]_vars => IInv'
<1> SUFFICES ASSUME IInv, [Next]_vars PROVE IInv'
  OBVIOUS
<1>1. ASSUME NEW s \in Lines, CallCmdParse(s) PROVE IInv'
  <2>1. s \in Seq(Chars)
    BY CmdParseAssumption
  <2> QED
    BY <1>1, <2>1, FreshIInv DEF CallCmdParse
<1>2. ASSUME NEW q \in Quotes, Quoted(q) PROVE IInv'
  BY <1>2, QuotedStep
<1>3. ASSUME NEW q \in Quotes, Unmatched(q) PROVE IInv'
  BY <1>3, UnmatchedStep
<1>4. CASE Delimiter
  BY <1>4, DelimiterStep
<1>5. CASE OtherChar
  BY <1>5, OtherCharStep
<1>6. CASE EndOfLine
  BY <1>6, EndOfLineStep
<1>7. CASE Dispatch
  BY <1>7, DispatchStep
<1>8. CASE Return
  <2>1. <<>> \in Seq(Chars)
    BY EmptySeq
  <2>2. cmdErr' \in {0, 1, 254, 255}
    BY <1>8 DEF Return, IInv, TypeOK
  <2> QED
    BY <1>8, <2>1, <2>2, FreshIInv DEF Return
<1>9. CASE UNCHANGED vars
  BY <1>9 DEF vars, IInv, TypeOK, OnlyCut, CutsDelimiters, ArgCount, Open,
     wholeLength
<1> QED
  BY <1>1, <1>2, <1>3, <1>4, <1>5, <1>6, <1>7, <1>8, <1>9 DEF Next

LEMMA SpecIInv == Spec => []IInv
BY InitIInv, NextIInv, PTL DEF Spec

(* The tokenizer's index passes the NUL of the line by at most one, so that it
   stores inside the buffer, and arguments start inside the line. *)
THEOREM TypeCorrect == Spec => []TypeOK
<1>1. IInv => TypeOK
  BY DEF IInv
<1> QED
  BY <1>1, SpecIInv, PTL

(* A line shorter than twice the array of arguments does not overflow it. *)
THEOREM ArgsFitShortLines == Spec => []ArgsFit
<1>1. IInv => ArgsFit
  <2> SUFFICES ASSUME IInv, Len(input) < 2 * MAXARGS PROVE Len(args) <= MAXARGS
    BY DEF ArgsFit
  <2>1. Len(args) \in Nat /\ Len(input) \in Nat /\ MAXARGS \in Nat
    BY LenProperties, CmdParseAssumption DEF IInv, TypeOK
  <2>2. 2 * Len(args) <= Len(input) + 1
    BY DEF IInv, ArgCount
  <2> QED
    BY <2>1, <2>2
<1> QED
  BY <1>1, SpecIInv, PTL

(* No character of a word is destroyed by the tokenizer. *)
THEOREM WordsKept == Spec => []CutsDelimiters
<1>1. IInv => CutsDelimiters
  BY DEF IInv
<1> QED
  BY <1>1, SpecIInv, PTL

-----------------------------------------------------------------------------
(* No name is in both tables. *)
OneTable == called.tables \in {{}, {1}, {2}}

LEMMA TablesDisjoint ==
  ASSUME NEW name
  PROVE  {t \in 1..Len(dispatchTableTable) : name \in dispatchTableTable[t]}
           \in {{}, {1}, {2}}
<1>1. ~(name \in mainCommands /\ name \in commonCommands)
  BY DEF mainCommands, commonCommands
<1>2. /\ dispatchTableTable[1] = mainCommands
      /\ dispatchTableTable[2] = commonCommands
      /\ 1..Len(dispatchTableTable) = {1, 2}
  BY DEF dispatchTableTable
<1> QED
  BY <1>1, <1>2

LEMMA NextOneTable == OneTable /\ [Next]_vars => OneTable'
<1> SUFFICES ASSUME OneTable, [Next]_vars PROVE OneTable'
  OBVIOUS
<1>1. CASE Run
  <2>1. called'.tables = Hits
    BY <1>1 DEF Run
  <2>2. Hits \in {{}, {1}, {2}}
    BY TablesDisjoint DEF Hits
  <2> QED
    BY <2>1, <2>2 DEF OneTable
<1>2. CASE called' = NoCall
  BY <1>2 DEF NoCall, OneTable
<1>3. CASE UNCHANGED called
  BY <1>3 DEF OneTable
<1>4. Run \/ called' = NoCall \/ UNCHANGED called
  BY DEF Next, vars, CallCmdParse, Quoted, Unmatched, Delimiter, OtherChar,
     EndOfLine, Dispatch, Skip, NotRecognized, Return
<1> QED
  BY <1>1, <1>2, <1>3, <1>4

(* A line runs one command: the search that goes on after the first hit finds
   no second one. *)
THEOREM OneHit == Spec => []FirstHitOnly
<1>1. Init => OneTable
  BY DEF Init, NoCall, OneTable
<1>2. OneTable => FirstHitOnly
  <2>1. /\ Cardinality({}) = 0
        /\ Cardinality({1}) = 1
        /\ Cardinality({2}) = 1
    BY FS_EmptySet, FS_Singleton
  <2> QED
    BY <2>1 DEF OneTable, FirstHitOnly
<1> QED
  BY <1>1, <1>2, NextOneTable, PTL DEF Spec

-----------------------------------------------------------------------------
(* The arguments of a line without quotes *)

Plain == Unquoted(input) /\ Len(input) # COMMAND_SIZE

(* A word begins behind the first a characters and goes on to the e-th. *)
InWord(a, e) ==
  /\ a \in 0..Len(input) - 1 /\ e \in a + 1..Len(input)
  /\ \A k \in a + 1..e : input[k] \notin Blanks
  /\ a = 0 \/ input[a] \in Blanks

Word(a, e) == InWord(a, e) /\ (e = Len(input) \/ input[e + 1] \in Blanks)

(* Words that end before this index have been found. *)
Reached == IF pc = "scan" THEN jj ELSE Len(input) + 1

(* What is not yet looked at is as it came. *)
Ahead ==
  pc = "scan" => /\ jj <= Len(input)
                 /\ \A k \in jj..Len(input) - 1 : cmdstr[k] = input[k + 1]

OpenWord ==
  pc = "scan" =>
    \/ /\ argstart >= 0
       /\ InWord(argstart, jj)
       /\ \A i \in 1..Len(args) : args[i] < argstart
    \/ /\ argstart < 0
       /\ jj = 0 \/ input[jj] \in Blanks

ArgIsWord(i) ==
  \E e \in 1..Len(input) : Word(args[i], e) /\ cmdstr[e] = "NUL" /\ e < Reached

WordFound(a, e) == Word(a, e) /\ e < Reached => \E i \in 1..Len(args) : args[i] = a

InOrder == \A i, k \in 1..Len(args) : i < k => args[i] < args[k]

WordParts ==
  /\ Ahead
  /\ OpenWord
  /\ \A i \in 1..Len(args) : ArgIsWord(i)
  /\ \A a \in 0..Len(input) - 1, e \in 1..Len(input) : WordFound(a, e)
  /\ InOrder

NoNul == \A k \in 1..Len(input) : input[k] # "NUL"

WordInv ==
  /\ IInv
  /\ NoNul
  /\ Plain /\ pc \in {"scan", "dispatch"} => WordParts

(* Two words with an end in common begin together, and so the other way. *)
LEMMA SameWord ==
  ASSUME Len(input) \in Nat, NEW a, NEW b, NEW e, NEW f, Word(a, e), Word(b, f),
         a = b \/ e = f
  PROVE  a = b /\ e = f
<1>1. /\ a \in 0..Len(input) - 1 /\ e \in a + 1..Len(input)
      /\ b \in 0..Len(input) - 1 /\ f \in b + 1..Len(input)
  BY DEF Word, InWord
<1>2. CASE a = b
  <2>1. ~(e < f)
    BY <1>1, <1>2 DEF Word, InWord
  <2>2. ~(f < e)
    BY <1>1, <1>2 DEF Word, InWord
  <2> QED
    BY <1>1, <1>2, <2>1, <2>2
<1>3. CASE e = f
  <2>1. ~(a < b)
    BY <1>1, <1>3 DEF Word, InWord
  <2>2. ~(b < a)
    BY <1>1, <1>3 DEF Word, InWord
  <2> QED
    BY <1>1, <1>3, <2>1, <2>2
<1> QED
  BY <1>2, <1>3

LEMMA NoQuotes ==
  ASSUME Unquoted(input), NEW k \in 1..Len(input)
  PROVE  input[k] \notin Quotes
BY DEF Unquoted, Positions

LEMMA LastOrBefore ==
  ASSUME NEW n \in Nat, NEW k \in 1..n + 1
  PROVE  k \in 1..n \/ k = n + 1
OBVIOUS

(* One more argument, the word from argstart to jj, and the NUL behind it. *)
LEMMA OneMoreWord ==
  ASSUME IInv, WordParts, pc = "scan", argstart >= 0, jj \in 1..Len(input),
         Word(argstart, jj), Cut(jj), args' = Append(args, argstart),
         UNCHANGED input, Reached' = jj + 1
  PROVE  /\ \A i \in 1..Len(args') : ArgIsWord(i)'
         /\ \A a \in 0..Len(input) - 1, e \in 1..Len(input) : WordFound(a, e)'
         /\ InOrder'
<1>1. /\ Len(input) \in Nat /\ args \in Seq(0..Len(input))
      /\ cmdstr \in [0..Len(input) + 2 -> Chars] /\ Len(args) \in Nat
  BY LenProperties DEF IInv, TypeOK
<1>2. /\ Len(args') = Len(args) + 1
      /\ \A i \in 1..Len(args) : args'[i] = args[i]
      /\ args'[Len(args) + 1] = argstart
  BY <1>1, AppendProperties DEF IInv, TypeOK, Word, InWord
<1>3. \A m \in 0..Len(input) + 2 : cmdstr'[m] = IF m = jj THEN "NUL" ELSE cmdstr[m]
  BY <1>1 DEF Cut
<1>4. \A a, e : Word(a, e)' <=> Word(a, e)
  BY DEF Word, InWord
<1>5. /\ Reached = jj
      /\ \A i : ArgIsWord(i)' <=>
           \E e \in 1..Len(input) : Word(args'[i], e) /\ cmdstr'[e] = "NUL" /\ e < jj + 1
  BY DEF Reached, ArgIsWord, Word, InWord
<1>6. ASSUME NEW i \in 1..Len(args') PROVE ArgIsWord(i)'
  <2>1. CASE i \in 1..Len(args)
    <3>1. PICK e \in 1..Len(input) : Word(args[i], e) /\ cmdstr[e] = "NUL" /\ e < jj
      BY <1>5, <2>1 DEF WordParts, ArgIsWord
    <3>2. e \in 0..Len(input) + 2 /\ e < jj + 1
      BY <1>1, <3>1
    <3>3. cmdstr'[e] = "NUL"
      BY <1>3, <3>1, <3>2
    <3>4. args'[i] = args[i]
      BY <1>2, <2>1
    <3> QED
      BY <1>5, <3>1, <3>2, <3>3, <3>4
  <2>2. CASE i = Len(args) + 1
    <3>1. Word(args'[i], jj) /\ cmdstr'[jj] = "NUL" /\ jj < jj + 1
      BY <1>1, <1>2, <1>3, <2>2
    <3> QED
      BY <1>5, <3>1
  <2> QED
    BY <1>1, <1>2, <1>6, <2>1, <2>2
<1>7. ASSUME NEW a \in 0..Len(input) - 1, NEW e \in 1..Len(input) PROVE WordFound(a, e)'
  <2> SUFFICES ASSUME Word(a, e), e < jj + 1
               PROVE  \E i \in 1..Len(args') : args'[i] = a
    BY <1>4 DEF WordFound
  <2>1. CASE e < jj
    <3>1. PICK i \in 1..Len(args) : args[i] = a
      BY <1>5, <2>1 DEF WordParts, WordFound
    <3> QED
      BY <1>1, <1>2, <3>1
  <2>2. CASE e = jj
    <3>1. a = argstart
      BY <1>1, <2>2, SameWord
    <3>2. Len(args) + 1 \in 1..Len(args')
      BY <1>1, <1>2
    <3> QED
      BY <1>2, <3>1, <3>2
  <2> QED
    BY <2>1, <2>2
<1>8. InOrder'
  <2> SUFFICES ASSUME NEW i \in 1..Len(args'), NEW k \in 1..Len(args'), i < k
               PROVE  args'[i] < args'[k]
    BY DEF InOrder
  <2>1. i \in 1..Len(args)
    BY <1>1, <1>2
  <2>2. CASE k \in 1..Len(args)
    BY <1>2, <2>1, <2>2 DEF WordParts, InOrder
  <2>3. CASE k = Len(args) + 1
    <3>1. \A h \in 1..Len(args) : args[h] < argstart
      <4>1. argstart \in Int
        BY DEF Word, InWord
      <4> QED
        BY <4>1 DEF WordParts, OpenWord
    <3> QED
      BY <1>2, <2>1, <2>3, <3>1
  <2>4. k \in 1..Len(args) \/ k = Len(args) + 1
    BY Zenon, <1>1, <1>2, LastOrBefore
  <2> QED
    BY <2>2, <2>3, <2>4
<1> QED
  BY <1>6, <1>7, <1>8

(* No argument and no word more. *)
LEMMA NoMoreWord ==
  ASSUME IInv, WordParts, pc = "scan", UNCHANGED <<input, cmdstr, args>>,
         jj \in 0..Len(input), Reached' = jj + 1,
         \A a \in 0..Len(input) - 1 : ~Word(a, jj)
  PROVE  /\ \A i \in 1..Len(args') : ArgIsWord(i)'
         /\ \A a \in 0..Len(input) - 1, e \in 1..Len(input) : WordFound(a, e)'
         /\ InOrder'
<1>1. Len(input) \in Nat
  BY LenProperties DEF IInv, TypeOK
<1>2. \A a, e : Word(a, e)' <=> Word(a, e)
  BY DEF Word, InWord
<1>3. /\ Reached = jj
      /\ \A i : ArgIsWord(i)' <=>
           \E e \in 1..Len(input) : Word(args'[i], e) /\ cmdstr'[e] = "NUL" /\ e < jj + 1
  BY DEF Reached, ArgIsWord, Word, InWord
<1>4. ASSUME NEW i \in 1..Len(args') PROVE ArgIsWord(i)'
  <2>1. PICK e \in 1..Len(input) : Word(args[i], e) /\ cmdstr[e] = "NUL" /\ e < jj
    BY <1>3 DEF WordParts, ArgIsWord
  <2>2. Word(args'[i], e) /\ cmdstr'[e] = "NUL" /\ e < jj + 1
    BY <1>1, <2>1
  <2> QED
    BY <1>3, <2>2
<1>5. ASSUME NEW a \in 0..Len(input) - 1, NEW e \in 1..Len(input) PROVE WordFound(a, e)'
  <2> SUFFICES ASSUME Word(a, e), e < jj + 1
               PROVE  \E i \in 1..Len(args') : args'[i] = a
    BY <1>2 DEF WordFound
  <2>1. e # jj
    OBVIOUS
  <2>2. e < jj
    BY <1>1, <2>1
  <2> QED
    BY <1>3, <2>2 DEF WordParts, WordFound
<1>6. InOrder'
  BY DEF WordParts, InOrder
<1> QED
  BY <1>4, <1>5, <1>6

(* Nothing is found in a line before its first character. *)
LEMMA FreshWords ==
  ASSUME NEW s \in Seq(Chars), input' = s, cmdstr' = Buffer(s), jj' = 0,
         argstart' = -1, args' = <<>>, pc' = "scan"
  PROVE  WordParts'
<1>1. Len(s) \in Nat /\ \A k \in 0..Len(s) - 1 : Buffer(s)[k] = s[k + 1]
  BY FreshBuffer, LenProperties
<1>2. Ahead'
  BY <1>1 DEF Ahead
<1>3. OpenWord'
  BY DEF OpenWord
<1>4. Len(args') = 0
  OBVIOUS
<1>5. \A a \in 0..Len(s) - 1, e \in 1..Len(s) : WordFound(a, e)'
  BY <1>1 DEF WordFound, Reached
<1>6. InOrder' /\ \A i \in 1..Len(args') : ArgIsWord(i)'
  BY <1>4 DEF InOrder
<1> QED
  BY <1>2, <1>3, <1>5, <1>6 DEF WordParts

LEMMA DelimiterWords ==
  ASSUME IInv, WordParts, Plain, Delimiter
  PROVE  WordParts'
<1>1. /\ Len(input) \in Nat /\ jj \in 0..Len(input) - 1 /\ wholeLength = Len(input)
      /\ cmdstr \in [0..Len(input) + 2 -> Chars] /\ argstart \in Int
  BY LenProperties, CmdParseAssumption
     DEF IInv, TypeOK, Delimiter, InLine, Plain, wholeLength
<1>2. pc = "scan" /\ pc' = "scan" /\ jj' = jj + 1 /\ UNCHANGED input
  BY DEF Delimiter, InLine
<1>3. cmdstr[jj] = input[jj + 1] /\ input[jj + 1] \in Blanks
  BY <1>1, <1>2 DEF WordParts, Ahead, Delimiter
<1>4. Reached' = jj + 1
  BY <1>2 DEF Reached
<1>5. Ahead'
  <2>1. \A k \in jj + 1..Len(input) - 1 : cmdstr'[k] = cmdstr[k]
    BY <1>1 DEF Delimiter, Cut
  <2> QED
    BY <1>1, <1>2, <2>1 DEF WordParts, Ahead
<1>6. CASE argstart >= 0
  <2>1. Cut(jj) /\ args' = Append(args, argstart) /\ argstart' = -1
    BY <1>1, <1>6 DEF Delimiter
  <2>2. InWord(argstart, jj)
    BY <1>1, <1>2, <1>6 DEF WordParts, OpenWord
  <2>3. Word(argstart, jj) /\ jj \in 1..Len(input)
    BY <1>1, <1>3, <2>2 DEF Word, InWord
  <2>4. OpenWord'
    BY <1>2, <1>3, <2>1 DEF OpenWord
  <2>5. /\ \A i \in 1..Len(args') : ArgIsWord(i)'
        /\ \A a \in 0..Len(input) - 1, e \in 1..Len(input) : WordFound(a, e)'
        /\ InOrder'
    BY <1>2, <1>4, <1>6, <2>1, <2>3, OneMoreWord
  <2> QED
    BY <1>2, <1>5, <2>4, <2>5 DEF WordParts
<1>7. CASE argstart < 0
  <2>1. UNCHANGED <<input, cmdstr, args, argstart>>
    BY <1>1, <1>2, <1>7 DEF Delimiter
  <2>2. jj = 0 \/ input[jj] \in Blanks
    BY <1>1, <1>2, <1>7 DEF WordParts, OpenWord
  <2>3. \A a \in 0..Len(input) - 1 : ~Word(a, jj)
    BY <1>1, <2>2 DEF Word, InWord
  <2>4. OpenWord'
    BY <1>2, <1>3, <1>7, <2>1 DEF OpenWord
  <2>5. /\ \A i \in 1..Len(args') : ArgIsWord(i)'
        /\ \A a \in 0..Len(input) - 1, e \in 1..Len(input) : WordFound(a, e)'
        /\ InOrder'
    BY <1>1, <1>2, <1>4, <2>1, <2>3, NoMoreWord
  <2> QED
    BY <1>2, <1>5, <2>4, <2>5 DEF WordParts
<1> QED
  BY <1>1, <1>6, <1>7

LEMMA OtherCharWords ==
  ASSUME IInv, WordParts, Plain, OtherChar
  PROVE  WordParts'
<1>1. /\ Len(input) \in Nat /\ jj \in 0..Len(input) - 1 /\ wholeLength = Len(input)
      /\ argstart \in Int
  BY LenProperties, CmdParseAssumption
     DEF IInv, TypeOK, OtherChar, InLine, Plain, wholeLength
<1>2. /\ pc = "scan" /\ pc' = "scan" /\ jj' = jj + 1
      /\ UNCHANGED <<input, cmdstr, args>>
      /\ argstart' = IF argstart < 0 THEN jj ELSE argstart
  BY DEF OtherChar, InLine
<1>3. input[jj + 1] \notin Blanks
  BY <1>1, <1>2 DEF WordParts, Ahead, OtherChar
<1>4. Reached' = jj + 1
  BY <1>2 DEF Reached
<1>5. Ahead'
  BY <1>1, <1>2 DEF WordParts, Ahead
<1>6. \A a \in 0..Len(input) - 1 : ~Word(a, jj)
  BY <1>1, <1>3 DEF Word, InWord
<1>7. OpenWord'
  <2>1. CASE argstart >= 0
    <3>1. InWord(argstart, jj) /\ \A i \in 1..Len(args) : args[i] < argstart
      BY <1>1, <1>2, <2>1 DEF WordParts, OpenWord
    <3>2. InWord(argstart, jj + 1)
      BY <1>1, <1>3, <3>1 DEF InWord
    <3>3. argstart' = argstart /\ InWord(argstart, jj)'
      BY <1>1, <1>2, <2>1, <3>2 DEF InWord
    <3> QED
      BY <1>2, <2>1, <3>1, <3>3 DEF OpenWord
  <2>2. CASE argstart < 0
    <3>1. jj = 0 \/ input[jj] \in Blanks
      BY <1>1, <1>2, <2>2 DEF WordParts, OpenWord
    <3>2. InWord(jj, jj + 1)
      BY <1>1, <1>3, <3>1 DEF InWord
    <3>3. argstart' = jj /\ InWord(argstart, jj)'
      BY <1>1, <1>2, <2>2, <3>2 DEF InWord
    <3>4. \A i \in 1..Len(args) : args[i] < jj
      <4> SUFFICES ASSUME NEW i \in 1..Len(args) PROVE args[i] < jj
        OBVIOUS
      <4>1. PICK e \in 1..Len(input) : Word(args[i], e) /\ e < jj
        BY <1>2 DEF WordParts, ArgIsWord, Reached
      <4> QED
        BY <1>1, <4>1 DEF Word, InWord
    <3> QED
      BY <1>1, <1>2, <3>3, <3>4 DEF OpenWord
  <2> QED
    BY <1>1, <2>1, <2>2
<1>8. /\ \A i \in 1..Len(args') : ArgIsWord(i)'
      /\ \A a \in 0..Len(input) - 1, e \in 1..Len(input) : WordFound(a, e)'
      /\ InOrder'
  BY <1>1, <1>2, <1>4, <1>6, NoMoreWord
<1> QED
  BY <1>2, <1>5, <1>7, <1>8 DEF WordParts

LEMMA EndOfLineWords ==
  ASSUME IInv, WordParts, Plain, EndOfLine
  PROVE  WordParts'
<1>1. /\ Len(input) \in Nat /\ jj = Len(input) /\ argstart \in Int
  BY LenProperties, CmdParseAssumption
     DEF IInv, TypeOK, EndOfLine, Plain, wholeLength, WordParts, Ahead
<1>2. pc = "scan" /\ pc' = "dispatch" /\ UNCHANGED <<input, jj, argstart>>
  BY DEF EndOfLine
<1>3. Reached' = jj + 1
  BY <1>1, <1>2 DEF Reached
<1>4. Ahead' /\ OpenWord'
  BY <1>2 DEF Ahead, OpenWord
<1>5. /\ \A i \in 1..Len(args') : ArgIsWord(i)'
      /\ \A a \in 0..Len(input) - 1, e \in 1..Len(input) : WordFound(a, e)'
      /\ InOrder'
  <2>1. CASE argstart >= 0
    <3>1. Cut(jj) /\ args' = Append(args, argstart)
      BY <1>1, <2>1 DEF EndOfLine
    <3>2. InWord(argstart, jj)
      BY <1>1, <1>2, <2>1 DEF WordParts, OpenWord
    <3>3. Word(argstart, jj) /\ jj \in 1..Len(input)
      BY <1>1, <3>2 DEF Word, InWord
    <3> QED
      BY <1>2, <1>3, <2>1, <3>1, <3>3, OneMoreWord
  <2>2. CASE argstart < 0
    <3>1. UNCHANGED <<input, cmdstr, args>>
      BY <1>1, <1>2, <2>2 DEF EndOfLine
    <3>2. jj = 0 \/ input[jj] \in Blanks
      BY <1>1, <1>2, <2>2 DEF WordParts, OpenWord
    <3>3. \A a \in 0..Len(input) - 1 : ~Word(a, jj)
      BY <1>1, <3>2 DEF Word, InWord
    <3> QED
      BY <1>1, <1>2, <1>3, <3>1, <3>3, NoMoreWord
  <2> QED
    BY <1>1, <2>1, <2>2
<1> QED
  BY <1>2, <1>4, <1>5 DEF WordParts

LEMMA InitWordInv == Init => WordInv
<1> SUFFICES ASSUME Init PROVE WordInv
  OBVIOUS
<1>1. pc = "idle" /\ Len(input) = 0
  BY DEF Init
<1> QED
  BY <1>1, InitIInv DEF WordInv, NoNul

(* The steps for quotes are taken in lines with quotes only. *)
LEMMA QuotedIsNotPlain ==
  ASSUME WordInv, NEW q \in Quotes, Quoted(q) \/ Unmatched(q)
  PROVE  ~Plain
<1>1. pc = "scan" /\ UNCHANGED input /\ cmdstr[jj] = q /\ jj < wholeLength
  BY DEF Quoted, Unmatched, InLine
<1>2. jj \in 0..Len(input) - 1 /\ Len(input) \in Nat
  BY <1>1, WholeLength DEF WordInv, IInv, TypeOK
<1> SUFFICES ASSUME Plain PROVE FALSE
  OBVIOUS
<1>3. cmdstr[jj] = input[jj + 1]
  BY <1>1, <1>2 DEF WordInv, WordParts, Ahead
<1>4. input[jj + 1] \notin Quotes
  BY <1>2, NoQuotes DEF Plain
<1> QED
  BY <1>1, <1>3, <1>4

LEMMA NextWordInv == WordInv /\ [Next]_vars => WordInv'
<1> SUFFICES ASSUME WordInv, [Next]_vars PROVE WordInv'
  OBVIOUS
<1>1. IInv /\ IInv' /\ NoNul
  BY NextIInv DEF WordInv
<1>2. ASSUME NEW s \in Lines, CallCmdParse(s) PROVE WordInv'
  <2>1. s \in Seq(Chars) /\ \A k \in 1..Len(s) : s[k] # "NUL"
    BY CmdParseAssumption
  <2>2. NoNul'
    BY <1>2, <2>1 DEF NoNul, CallCmdParse
  <2>3. WordParts'
    BY <1>2, <2>1, FreshWords DEF CallCmdParse
  <2> QED
    BY <1>1, <2>2, <2>3 DEF WordInv
<1>3. ASSUME UNCHANGED input, pc = "scan", ~Plain PROVE WordInv'
  BY <1>1, <1>3 DEF WordInv, NoNul, Plain, Unquoted, Positions
<1>4. ASSUME NEW q \in Quotes, Quoted(q) \/ Unmatched(q) PROVE WordInv'
  <2>1. pc = "scan" /\ UNCHANGED input
    BY <1>4 DEF Quoted, Unmatched, InLine
  <2>2. ~Plain
    BY <1>4, QuotedIsNotPlain
  <2> QED
    BY <1>3, <2>1, <2>2
<1>5. ASSUME Delimiter \/ OtherChar \/ EndOfLine PROVE WordInv'
  <2>1. pc = "scan" /\ UNCHANGED input
    BY <1>5 DEF Delimiter, OtherChar, EndOfLine, InLine
  <2>2. ASSUME Plain PROVE WordParts'
    <3>1. WordParts
      BY <2>1, <2>2 DEF WordInv
    <3> QED
      BY <1>1, <1>5, <2>2, <3>1, DelimiterWords, OtherCharWords, EndOfLineWords
  <2>3. CASE Plain
    BY <1>1, <2>1, <2>2, <2>3 DEF WordInv, NoNul
  <2>4. CASE ~Plain
    BY <1>3, <2>1, <2>4
  <2> QED
    BY <2>3, <2>4
<1>6. CASE Dispatch
  <2>1. pc' = "return" /\ UNCHANGED input
    BY <1>6 DEF Dispatch, Skip, Run, NotRecognized
  <2> QED
    BY <1>1, <2>1 DEF WordInv, NoNul
<1>7. CASE Return
  <2>1. pc' = "idle" /\ Len(input') = 0
    BY <1>7 DEF Return
  <2> QED
    BY <1>1, <2>1 DEF WordInv, NoNul
<1>8. CASE UNCHANGED vars
  BY <1>1, <1>8 DEF vars, WordInv, NoNul, Plain, Unquoted, Positions, WordParts,
     Ahead, OpenWord, InWord, Word, ArgIsWord, WordFound, Reached, InOrder
<1> QED
  BY <1>2, <1>4, <1>5, <1>6, <1>7, <1>8 DEF Next

(* An argument is terminated right behind its word. *)
LEMMA EndOfWord ==
  ASSUME IInv, NoNul, Plain, NEW a, NEW e, Word(a, e), cmdstr[e] = "NUL"
  PROVE  End(a) = e
<1>1. /\ Len(input) \in Nat /\ wholeLength = Len(input)
      /\ a \in 0..Len(input) - 1 /\ e \in a + 1..Len(input)
  BY LenProperties DEF IInv, TypeOK, Plain, wholeLength, Word, InWord
<1>2. \A m \in a..e - 1 : cmdstr[m] # "NUL"
  <2> SUFFICES ASSUME NEW m \in a..e - 1, cmdstr[m] = "NUL" PROVE FALSE
    OBVIOUS
  <2>1. m + 1 \in a + 1..e /\ m + 1 \in 1..Len(input) /\ m \in 0..wholeLength - 1
    BY <1>1
  <2>2. input[m + 1] \notin Blanks /\ input[m + 1] \notin Quotes
    BY <2>1, NoQuotes DEF Plain, Word, InWord
  <2>3. cmdstr[m] # input[m + 1]
    BY <2>1 DEF NoNul
  <2> QED
    BY <2>1, <2>2, <2>3 DEF IInv, CutsDelimiters
<1>3. \A k \in a..Len(input) + 2 :
        cmdstr[k] = "NUL" /\ (\A m \in a..k - 1 : cmdstr[m] # "NUL") => k = e
  BY <1>1, <1>2
<1>4. e \in a..Len(input) + 2
  BY <1>1
<1> QED
  BY <1>2, <1>3, <1>4 DEF End

LEMMA WordOf ==
  ASSUME Len(input) \in Nat, NEW a \in Int, NEW e \in Int
  PROVE  <<a + 1, e>> \in Words(input) <=> Word(a, e)
BY DEF Words, Word, InWord

(* The word the i-th argument points to. *)
WordAt(i) == <<args[i] + 1, End(args[i])>>

LEMMA WordsFound ==
  ASSUME WordInv, pc = "dispatch", Plain
  PROVE  {WordAt(i) : i \in 1..Len(args)} = Words(input) /\ InOrder
<1>1. WordParts /\ IInv /\ NoNul /\ Len(input) \in Nat
  BY LenProperties DEF WordInv, IInv, TypeOK
<1>2. ASSUME NEW i \in 1..Len(args)
      PROVE  Word(args[i], End(args[i])) /\ End(args[i]) \in Int /\ args[i] \in Int
  <2>1. PICK e \in 1..Len(input) : Word(args[i], e) /\ cmdstr[e] = "NUL"
    BY <1>1 DEF WordParts, ArgIsWord
  <2>2. End(args[i]) = e
    BY <1>1, <2>1, EndOfWord
  <2> QED
    BY <2>1, <2>2 DEF Word, InWord
<1>3. ASSUME NEW i \in 1..Len(args) PROVE WordAt(i) \in Words(input)
  BY <1>1, <1>2, WordOf DEF WordAt
<1>4. ASSUME NEW w \in Words(input) PROVE \E i \in 1..Len(args) : w = WordAt(i)
  <2>1. /\ w = <<w[1], w[2]>> /\ w[1] \in 1..Len(input) /\ w[2] \in 1..Len(input)
    BY <1>4 DEF Words
  <2> DEFINE a == w[1] - 1
  <2>2. a \in 0..Len(input) - 1 /\ a + 1 = w[1]
    BY <1>1, <2>1
  <2> HIDE DEF a
  <2>3. Word(a, w[2])
    BY <1>1, <1>4, <2>1, <2>2, WordOf
  <2>4. w[2] < Reached
    BY <1>1, <2>1 DEF Reached
  <2>5. PICK i \in 1..Len(args) : args[i] = a
    BY <1>1, <2>1, <2>2, <2>3, <2>4 DEF WordParts, WordFound
  <2>6. End(args[i]) = w[2]
    BY <1>1, <1>2, <2>3, <2>5, SameWord
  <2> QED
    BY <2>1, <2>2, <2>5, <2>6 DEF WordAt
<1> QED
  BY <1>1, <1>3, <1>4 DEF WordParts

(* The arguments of a line without quotes are its words, each terminated where
   it ends, in order, for lines of every length but COMMAND_SIZE. *)
THEOREM ArgsMatchWords == Spec => []ArgsAreWords
<1>1. WordInv => ArgsAreWords
  BY WordsFound DEF ArgsAreWords, WordAt, Plain, InOrder
<1> QED
  BY <1>1, InitWordInv, NextWordInv, PTL DEF Spec

-----------------------------------------------------------------------------
(* The answer to a line without quotes *)

Before(w) == {v \in Words(input) : v[1] < w[1]}

LEMMA CountBefore ==
  ASSUME Len(input) \in Nat, NEW w
  PROVE  /\ Cardinality(Before(w)) = 0 <=> Before(w) = {}
         /\ Cardinality(Before(w)) = 1 <=> \E v : Before(w) = {v}
<1>1. IsFiniteSet(1..Len(input))
  BY FS_Interval
<1>2. IsFiniteSet((1..Len(input)) \X (1..Len(input)))
  BY <1>1, FS_Product
<1>3. Before(w) \in SUBSET ((1..Len(input)) \X (1..Len(input)))
  BY DEF Before, Words
<1>4. IsFiniteSet(Before(w))
  BY <1>2, <1>3, FS_Subset
<1> QED
  BY <1>4, FS_EmptySet, FS_Singleton

(* The k-th word of the line is the one of the k-th argument. *)
LEMMA WordOfArg ==
  ASSUME WordInv, pc = "dispatch", Plain, NEW w \in Words(input)
  PROVE  /\ IsWord(w, 1) <=> Len(args) >= 1 /\ w = WordAt(1)
         /\ IsWord(w, 2) <=> Len(args) >= 2 /\ w = WordAt(2)
<1>1. /\ {WordAt(i) : i \in 1..Len(args)} = Words(input)
      /\ \A i, k \in 1..Len(args) : i < k => args[i] < args[k]
  BY WordsFound DEF InOrder
<1>2. /\ Len(input) \in Nat /\ Len(args) \in Nat
      /\ \A i \in 1..Len(args) : args[i] \in Int
  BY LenProperties, ElementOfSeq DEF WordInv, IInv, TypeOK
<1>3. PICK i \in 1..Len(args) : w = WordAt(i)
  BY <1>1
<1>4. \A k \in 1..Len(args) : WordAt(k) \in Before(w) <=> k < i
  <2> TAKE k \in 1..Len(args)
  <2>1. WordAt(k) \in Before(w) <=> args[k] + 1 < args[i] + 1
    BY <1>1, <1>3 DEF Before, WordAt
  <2>2. k < i \/ k = i \/ i < k
    OBVIOUS
  <2> QED
    BY <1>1, <1>2, <2>1, <2>2
<1>5. \A v \in Before(w) : \E k \in 1..Len(args) : k < i /\ v = WordAt(k)
  <2> TAKE v \in Before(w)
  <2>1. PICK k \in 1..Len(args) : v = WordAt(k)
    BY <1>1 DEF Before
  <2> QED
    BY <1>4, <2>1
<1>6. \A h, k \in 1..Len(args) : WordAt(h) = WordAt(k) => h = k
  <2> TAKE h, k \in 1..Len(args)
  <2>1. WordAt(h) = WordAt(k) => args[h] + 1 = args[k] + 1
    BY DEF WordAt
  <2>2. h < k \/ h = k \/ k < h
    OBVIOUS
  <2> QED
    BY <1>1, <1>2, <2>1, <2>2
<1>7. Before(w) = {} <=> i = 1
  <2>1. i # 1 => WordAt(1) \in Before(w)
    <3>1. i # 1 => 1 \in 1..Len(args) /\ 1 < i
      BY <1>2
    <3> QED
      BY <1>4, <3>1
  <2>2. i = 1 => Before(w) = {}
    <3>1. i = 1 => \A k \in 1..Len(args) : ~(k < i)
      OBVIOUS
    <3> QED
      BY Zenon, <1>5, <3>1
  <2> QED
    BY <2>1, <2>2
<1>8. (\E v : Before(w) = {v}) <=> i = 2
  <2>1. ASSUME i = 2 PROVE Before(w) = {WordAt(1)}
    <3>1. 1 \in 1..Len(args) /\ 1 < i /\ \A k \in 1..Len(args) : k < i => k = 1
      BY <1>2, <2>1
    <3> QED
      BY Zenon, <1>4, <1>5, <3>1
  <2>2. ASSUME NEW v, Before(w) = {v} PROVE i = 2
    <3>1. i # 1
      BY Zenon, <1>7, <2>2
    <3>2. i > 2 => WordAt(1) = v /\ WordAt(2) = v /\ 1 \in 1..Len(args) /\ 2 \in 1..Len(args)
      <4>1. i > 2 => /\ 1 \in 1..Len(args) /\ 1 < i
                     /\ 2 \in 1..Len(args) /\ 2 < i
        BY <1>2
      <4> QED
        BY Zenon, <1>4, <2>2, <4>1
    <3>3. ~(i > 2)
      BY <1>6, <3>2
    <3> QED
      BY <1>2, <3>1, <3>3
  <2> QED
    BY <2>1, <2>2
<1>9. /\ IsWord(w, 1) <=> i = 1
      /\ IsWord(w, 2) <=> i = 2
  <2>1. /\ IsWord(w, 1) <=> Cardinality(Before(w)) = 0
        /\ IsWord(w, 2) <=> Cardinality(Before(w)) = 1
    BY DEF IsWord, Before
  <2> QED
    BY <1>2, <1>7, <1>8, <2>1, CountBefore
<1>10. /\ i = 1 <=> Len(args) >= 1 /\ w = WordAt(1)
       /\ i = 2 <=> Len(args) >= 2 /\ w = WordAt(2)
  <2>1. /\ Len(args) >= 1 <=> 1 \in 1..Len(args)
        /\ Len(args) >= 2 <=> 2 \in 1..Len(args)
    BY <1>2
  <2> QED
    BY <1>3, <1>6, <2>1
<1> QED
  BY <1>9, <1>10

(* The string of an argument is the text of its word. *)
LEMMA TextOfArg ==
  ASSUME WordInv, pc = "dispatch", Plain, NEW i \in 1..Len(args)
  PROVE  Str(args[i]) = Text(WordAt(i)) /\ Str(args[i]) # <<>>
<1> DEFINE a == args[i]
<1>1. PICK e \in 1..Len(input) : Word(a, e) /\ cmdstr[e] = "NUL"
  BY DEF WordInv, WordParts, ArgIsWord
<1>2. End(a) = e
  BY <1>1, EndOfWord DEF WordInv
<1>3. /\ Len(input) \in Nat /\ wholeLength = Len(input)
      /\ a \in 0..Len(input) - 1 /\ e \in a + 1..Len(input)
  BY <1>1, LenProperties
     DEF WordInv, IInv, TypeOK, Plain, wholeLength, Word, InWord
<1> HIDE DEF a
<1>4. ASSUME NEW k \in a..e - 1 PROVE cmdstr[k] = input[k + 1]
  <2>1. k + 1 \in a + 1..e /\ k + 1 \in 1..Len(input) /\ k \in 0..wholeLength - 1
    BY <1>3
  <2>2. input[k + 1] \notin Blanks /\ input[k + 1] \notin Quotes
    BY <1>1, <2>1, NoQuotes DEF Plain, Word, InWord
  <2> QED
    BY <2>1, <2>2 DEF WordInv, IInv, CutsDelimiters
<1>5. Str(a) = [m \in 1..e - a |-> input[a + m]]
  <2>1. ASSUME NEW m \in 1..e - a PROVE cmdstr[a + m - 1] = input[a + m]
    <3>1. a + m - 1 \in a..e - 1 /\ (a + m - 1) + 1 = a + m
      BY <1>3
    <3>2. cmdstr[a + m - 1] = input[(a + m - 1) + 1]
      BY <1>4, <3>1
    <3> QED
      BY <3>1, <3>2
  <2>2. Str(a) = [m \in 1..e - a |-> cmdstr[a + m - 1]]
    BY <1>2 DEF Str
  <2> QED
    BY <2>1, <2>2
<1>6. SubSeq(input, a + 1, e) = [m \in 1..e - a |-> input[a + m]]
  <2>1. SubSeq(input, a + 1, e)
          = [m \in 1..e - (a + 1) + 1 |-> input[(a + 1) + m - 1]]
    BY <1>3 DEF WordInv, IInv, TypeOK
  <2>2. e - (a + 1) + 1 = e - a
    BY <1>3
  <2>3. \A m \in 1..e - a : (a + 1) + m - 1 = a + m
    BY <1>3
  <2> QED
    BY <2>1, <2>2, <2>3
<1>7. Text(WordAt(i)) = SubSeq(input, a + 1, e)
  BY <1>2 DEF Text, WordAt, a
<1>8. Str(a) # <<>>
  <2>1. 1 \in DOMAIN Str(a)
    BY <1>3, <1>5
  <2> QED
    BY <2>1
<1> QED
  BY <1>5, <1>6, <1>7, <1>8 DEF a

(* "No command named" answers a help about a second word that names none. *)
NoSuchCommand == \E v \in Words(input) : IsWord(v, 2) /\ ~Known(Text(v))

LEMMA HelpAnswers ==
  ASSUME WordInv, pc = "dispatch", Plain, Len(args) >= 1
  PROVE  cmd_help = IF NoSuchCommand THEN 1 ELSE 0
<1>1. Len(args) \in Nat
  BY LenProperties DEF WordInv, IInv, TypeOK
<1>2. CASE Len(args) = 1
  <2>1. ~(Len(args) >= 2)
    BY <1>2
  <2>2. ~NoSuchCommand
    BY Zenon, <2>1, WordOfArg DEF NoSuchCommand
  <2> QED
    BY <1>2, <2>2 DEF cmd_help
<1>3. CASE Len(args) # 1
  <2>1. Len(args) >= 2 /\ 2 \in 1..Len(args)
    BY <1>1, <1>3
  <2>2. WordAt(2) \in Words(input)
    BY <2>1, WordsFound
  <2>3. Str(args[2]) = Text(WordAt(2))
    BY <2>1, TextOfArg
  <2>4. NoSuchCommand <=> ~Known(Str(args[2]))
    BY Zenon, <2>1, <2>2, <2>3, WordOfArg DEF NoSuchCommand
  <2> QED
    BY <1>3, <2>4 DEF cmd_help
<1> QED
  BY <1>2, <1>3

LEMMA DispatchAnswers ==
  ASSUME WordInv, Plain, called = NoCall, cmdErr = 0, Dispatch,
         NEW w \in Words(input), IsWord(w, 1), Text(w)[1] # "0xb0"
  PROVE  /\ called'.cmd = IF Known(Text(w)) THEN Text(w) ELSE <<>>
         /\ cmdErr' = 254 <=> ~Known(Text(w))
         /\ cmdErr' = 1 <=> Text(w) = <<"h">> /\ NoSuchCommand
<1>1. pc = "dispatch" /\ called.cmd = <<>>
  BY DEF Dispatch, Skip, Run, NotRecognized, NoCall
<1>2. Len(args) >= 1 /\ w = WordAt(1) /\ Len(args) \in Nat
  BY <1>1, WordOfArg, LenProperties DEF WordInv, IInv, TypeOK
<1>3. Str(args[1]) = Text(w) /\ Text(w) # <<>> /\ args # <<>>
  <2>1. 1 \in 1..Len(args)
    BY <1>2
  <2>2. args # <<>>
    BY <1>2
  <2> QED
    BY <1>1, <1>2, <2>1, <2>2, TextOfArg
<1>4. HasCommand
  BY <1>3 DEF HasCommand
<1>5. Hits = {} <=> ~Known(Text(w))
  BY <1>3 DEF Hits, Known
<1>6. cmd_help = IF NoSuchCommand THEN 1 ELSE 0
  BY <1>1, <1>2, HelpAnswers
<1>7. Known(<<"h">>)
  BY DEF Known, dispatchTableTable, commonCommands
<1>8. CASE Run
  <2>1. Known(Text(w)) /\ called'.cmd = Text(w)
    BY <1>3, <1>5, <1>8 DEF Run
  <2>2. cmdErr' = IF Text(w) = <<"h">> THEN cmd_help ELSE 0
    BY <1>3, <1>8 DEF Run
  <2>3. CASE Text(w) = <<"h">> /\ NoSuchCommand
    <3>1. cmdErr' = 1
      BY <1>6, <2>2, <2>3
    <3> QED
      BY <2>1, <2>3, <3>1
  <2>4. CASE ~(Text(w) = <<"h">> /\ NoSuchCommand)
    <3>1. cmdErr' = 0
      BY Zenon, <1>6, <2>2, <2>4
    <3>2. cmdErr' # 1 /\ cmdErr' # 254
      BY <3>1
    <3> QED
      BY <2>1, <2>4, <3>2
  <2> QED
    BY <2>3, <2>4
<1>9. CASE NotRecognized
  <2>1. ~Known(Text(w)) /\ UNCHANGED called /\ cmdErr' = 254
    BY <1>5, <1>9 DEF NotRecognized
  <2>2. cmdErr' # 1
    BY <2>1
  <2>3. Text(w) # <<"h">>
    BY <1>7, <2>1
  <2> QED
    BY <1>1, <2>1, <2>2, <2>3
<1> QED
  BY <1>4, <1>8, <1>9 DEF Dispatch, Skip

(* Until the dispatch nothing is run and nothing reported. *)
Unanswered ==
  pc \in {"scan", "dispatch"} =>
    called = NoCall /\ (Plain => cmdErr = 0)

AnswerInv == WordInv /\ Unanswered /\ AnswerFitsLine

LEMMA InitAnswerInv == Init => AnswerInv
BY InitWordInv DEF Init, AnswerInv, Unanswered, AnswerFitsLine

LEMMA NextAnswerInv == AnswerInv /\ [Next]_vars => AnswerInv'
<1> SUFFICES ASSUME AnswerInv, [Next]_vars PROVE AnswerInv'
  OBVIOUS
<1>1. WordInv /\ WordInv'
  BY NextWordInv DEF AnswerInv
<1>2. ASSUME NEW s \in Lines, CallCmdParse(s) PROVE AnswerInv'
  BY <1>1, <1>2 DEF AnswerInv, Unanswered, AnswerFitsLine, CallCmdParse
<1>3. ASSUME pc = "scan", pc' \in {"scan", "dispatch"},
             UNCHANGED <<input, cmdErr, called>>
      PROVE  AnswerInv'
  BY <1>1, <1>3 DEF AnswerInv, Unanswered, AnswerFitsLine, Plain, Unquoted,
     Positions
<1>4. ASSUME NEW q \in Quotes, Quoted(q) PROVE AnswerInv'
  BY <1>3, <1>4 DEF Quoted, InLine
<1>5. ASSUME NEW q \in Quotes, Unmatched(q) PROVE AnswerInv'
  <2>1. pc' = "return" /\ UNCHANGED input
    BY <1>5 DEF Unmatched
  <2>2. ~Plain
    BY <1>1, <1>5, QuotedIsNotPlain
  <2> QED
    BY <1>1, <2>1, <2>2 DEF AnswerInv, Unanswered, AnswerFitsLine, Plain,
       Unquoted, Positions
<1>6. CASE Delimiter \/ OtherChar \/ EndOfLine
  BY <1>3, <1>6 DEF Delimiter, OtherChar, EndOfLine, InLine
<1>7. CASE Dispatch
  <2>1. pc = "dispatch" /\ pc' = "return" /\ UNCHANGED input
    BY <1>7 DEF Dispatch, Skip, Run, NotRecognized
  <2>2. AnswerFitsLine'
    <3> SUFFICES ASSUME Plain, NEW w \in Words(input), IsWord(w, 1),
                        Text(w)[1] # "0xb0"
                 PROVE  /\ called'.cmd = IF Known(Text(w)) THEN Text(w) ELSE <<>>
                        /\ cmdErr' = 254 <=> ~Known(Text(w))
                        /\ cmdErr' = 1 <=> Text(w) = <<"h">> /\ NoSuchCommand
      BY <2>1 DEF AnswerFitsLine, Plain, Unquoted, Positions, IsWord, Text,
         NoSuchCommand
    <3> QED
      BY <1>1, <1>7, <2>1, DispatchAnswers DEF AnswerInv, Unanswered
  <2> QED
    BY <1>1, <2>1, <2>2 DEF AnswerInv, Unanswered
<1>8. CASE Return
  BY <1>1, <1>8 DEF AnswerInv, Unanswered, AnswerFitsLine, Return
<1>9. CASE UNCHANGED vars
  BY <1>1, <1>9 DEF vars, AnswerInv, Unanswered, AnswerFitsLine, Plain,
     Unquoted, Positions, IsWord, Text
<1> QED
  BY <1>2, <1>4, <1>5, <1>6, <1>7, <1>8, <1>9 DEF Next

(* What a line without quotes does is read from the line: it runs the command
   its first word names, and reports what does not name one, for lines of
   every length but COMMAND_SIZE. *)
THEOREM AnswersFit == Spec => []AnswerFitsLine
<1>1. AnswerInv => AnswerFitsLine
  BY DEF AnswerInv
<1> QED
  BY <1>1, InitAnswerInv, NextAnswerInv, PTL DEF Spec

-----------------------------------------------------------------------------
(* What the line input may rely on *)

(* A character of the line as it came, or a NUL in place of a blank, a quote or
   the last character of the line or of the rest behind it. *)
CutAt(k) ==
  /\ cmdstr[k] = "NUL"
  /\ Buffer(input)[k] \in Blanks \cup Quotes \/ Buffer(input)[k + 1] = "NUL"

CutsAllowed ==
  \A k \in 0..Len(input) + 2 : cmdstr[k] = Buffer(input)[k] \/ CutAt(k)

(* What is in the buffer at first. *)
LEMMA BufferCells ==
  ASSUME NEW s \in Seq(Chars)
  PROVE  /\ \A k \in 0..Len(s) - 1 : Buffer(s)[k] = s[k + 1]
         /\ Buffer(s)[Len(s)] = "NUL" /\ Buffer(s)[Len(s) + 2] = "NUL"
<1>1. Len(s) \in Nat /\ Len(s) + 2 \in 0..Len(s) + 2
  BY LenProperties
<1>2. Buffer(s)[Len(s) + 2] = "NUL"
  <2>1. ~(Len(s) + 2 < Len(s)) /\ Len(s) + 2 # Len(s) + 1
    BY <1>1
  <2> QED
    BY <1>1, <2>1 DEF Buffer
<1> QED
  BY <1>2, FreshBuffer

LEMMA AllowedCut ==
  ASSUME IInv, CutsAllowed, input' = input, NEW k \in 0..Len(input) + 1, Cut(k),
         \/ k >= wholeLength
         \/ k < Len(input) /\ input[k + 1] \in Blanks \cup Quotes
  PROVE  CutsAllowed'
<1>1. Len(input) \in Nat /\ wholeLength \in 0..Len(input) /\ Len(input) - 1 <= wholeLength
  BY WholeLength DEF IInv
<1>2. \A m \in 0..Len(input) + 2 : cmdstr'[m] = IF m = k THEN "NUL" ELSE cmdstr[m]
  BY DEF Cut, IInv, TypeOK
<1>3. /\ \A m \in 0..Len(input) - 1 : Buffer(input)[m] = input[m + 1]
      /\ Buffer(input)[Len(input)] = "NUL" /\ Buffer(input)[Len(input) + 2] = "NUL"
  BY BufferCells DEF IInv, TypeOK
<1>4. \/ Buffer(input)[k] \in Blanks \cup Quotes
      \/ Buffer(input)[k + 1] = "NUL"
      \/ Buffer(input)[k] = "NUL"
  <2>1. CASE k < Len(input) /\ input[k + 1] \in Blanks \cup Quotes
    BY <1>1, <1>3, <2>1
  <2>2. CASE k >= wholeLength
    <3>1. k = Len(input) - 1 \/ k = Len(input) \/ k = Len(input) + 1
      BY <1>1, <2>2
    <3> QED
      BY <1>1, <1>3, <3>1
  <2> QED
    BY <2>1, <2>2
<1>5. ASSUME NEW m \in 0..Len(input) + 2
      PROVE  cmdstr'[m] = Buffer(input)[m] \/ CutAt(m)'
  <2>1. CASE m = k
    BY <1>2, <1>4, <1>5, <2>1 DEF CutAt
  <2>2. CASE m # k
    <3>1. cmdstr'[m] = cmdstr[m]
      BY <1>2, <1>5, <2>2
    <3> QED
      BY <1>5, <3>1 DEF CutsAllowed, CutAt
  <2> QED
    BY <2>1, <2>2
<1> QED
  BY <1>5 DEF CutsAllowed

LEMMA NextCutsAllowed ==
  ASSUME IInv, CutsAllowed, [Next]_vars PROVE CutsAllowed'
<1>1. CASE UNCHANGED <<input, cmdstr>>
  BY <1>1 DEF CutsAllowed, CutAt
<1>2. CASE cmdstr' = Buffer(input')
  BY <1>2 DEF CutsAllowed
<1>3. ASSUME NEW q \in Quotes, Quoted(q) PROVE CutsAllowed'
  <2>1. PICK kk \in jj + 1..Len(input) : cmdstr[kk] = q /\ Cut(kk)
    BY <1>3 DEF Quoted
  <2>2. jj \in Nat /\ Len(input) \in Nat /\ input' = input
    BY <1>3, LenProperties DEF Quoted, IInv, TypeOK
  <2>3. kk \in 0..Len(input) - 1 /\ q # "NUL"
    BY <2>1, <2>2 DEF IInv, OnlyCut, Quotes
  <2>4. input[kk + 1] = q
    BY <2>1, <2>3, StillThere DEF IInv
  <2> QED
    BY <2>1, <2>2, <2>3, <2>4, AllowedCut
<1>4. CASE Delimiter
  <2>1. InLine /\ cmdstr[jj] \in Blanks /\ input' = input
    BY <1>4 DEF Delimiter
  <2>2. jj \in 0..Len(input) - 1 /\ cmdstr[jj] # "NUL" /\ Len(input) \in Nat
    BY <2>1, WholeLength DEF InLine, IInv, TypeOK, Blanks
  <2>3. input[jj + 1] \in Blanks
    BY <2>1, <2>2, StillThere DEF IInv
  <2>4. CASE Cut(jj)
    BY <2>1, <2>2, <2>3, <2>4, AllowedCut
  <2> QED
    BY <1>1, <1>4, <2>1, <2>4 DEF Delimiter
<1>5. CASE EndOfLine
  <2>1. jj >= wholeLength /\ input' = input /\ jj \in 0..Len(input) + 1
    BY <1>5 DEF EndOfLine, IInv, TypeOK
  <2>2. CASE Cut(jj)
    BY <2>1, <2>2, AllowedCut
  <2> QED
    BY <1>1, <1>5, <2>1, <2>2 DEF EndOfLine
<1>6. ASSUME NEW s \in Lines, CallCmdParse(s) PROVE CutsAllowed'
  BY <1>2, <1>6 DEF CallCmdParse
<1>7. CASE Return
  BY <1>2, <1>7 DEF Return
<1>8. ASSUME NEW q \in Quotes, Unmatched(q) PROVE CutsAllowed'
  BY <1>1, <1>8 DEF Unmatched
<1>9. CASE OtherChar
  BY <1>1, <1>9 DEF OtherChar
<1>10. CASE Dispatch
  BY <1>1, <1>10 DEF Dispatch, Skip, Run, NotRecognized
<1>11. CASE UNCHANGED vars
  BY <1>1, <1>11 DEF vars
<1> QED
  BY <1>3, <1>4, <1>5, <1>6, <1>7, <1>8, <1>9, <1>10, <1>11 DEF Next

(* All that the call leaves different in the buffer are NULs, at a delimiter or
   next to the end of a string: this is the step cmdParse of DebugShell,
   here for every line and for the whole of the buffer it stands in. *)
THEOREM LineInputContract == Spec => []CutsAllowed
<1>1. Init => CutsAllowed
  BY DEF Init, CutsAllowed
<1>2. IInv /\ CutsAllowed /\ [Next]_vars => CutsAllowed'
  BY NextCutsAllowed
<1> QED
  BY <1>1, <1>2, SpecIInv, PTL DEF Spec
=============================================================================
