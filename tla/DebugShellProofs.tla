--------------------------- MODULE DebugShellProofs ---------------------------
(***************************************************************************)
(* Proofs about DebugShell, for every size of the line buffer and every    *)
(* width of the index.                                                     *)
(***************************************************************************)
EXTENDS DebugShell, SequenceTheorems, TLAPS

-----------------------------------------------------------------------------
(* The inductive invariant *)

(* A line without rubouts too many starts with what was entered; CR and LF
   follow when the return key ended it. *)
LengthIsEntered ==
  at = "strip" /\ endedBy # "rubout" =>
    /\ len = Len(entered) + (IF endedBy = "CR" THEN 2 ELSE 0)
    /\ len \in 2..maxlen
    /\ \A k \in 1..Len(entered) : line[k - 1] = entered[k]

(* An index that has gone round has left nothing entered behind. *)
WrappedIsEmpty == at = "get" /\ j = Width - 1 => entered = <<>>

IInv ==
  /\ ShellTypeOK
  /\ StoresInside
  /\ EnteredIsLine
  /\ WrappedIsEmpty
  /\ LengthIsEntered
  /\ ReturnedIsParsed

-----------------------------------------------------------------------------
(* Arithmetic of uint32_t *)

(* One less, and two less, in unsigned arithmetic. *)
LEMMA Decrement ==
  ASSUME NEW w \in Nat \ {0}, NEW n \in 0..w - 1
  PROVE  (n - 1) % w = IF n = 0 THEN w - 1 ELSE n - 1
OBVIOUS

LEMMA TwoLess ==
  ASSUME NEW w \in Nat \ {0}, NEW n \in 2..w - 1
  PROVE  (n - 2) % w = n - 2
OBVIOUS

-----------------------------------------------------------------------------
(* Invariance *)

(* While there is room the index counts the characters entered. *)
LEMMA RoomMeansEntered ==
  ASSUME IInv, at = "get", Room
  PROVE  /\ j \in Nat /\ j + 2 \in Offsets /\ j < LineSize
         /\ j < maxlen - 1
         /\ Len(entered) = j
         /\ \A k \in 1..j : line[k - 1] = entered[k]
BY DebugShellAssumption
   DEF IInv, ShellTypeOK, Room, maxlen, Offsets, EnteredIsLine

(* Cells stored inside the buffer keep its type. *)
LEMMA StoreInside ==
  ASSUME IInv, NEW cells, DOMAIN cells \subseteq Offsets,
         \A k \in DOMAIN cells : cells[k] \in Cells, Store(cells)
  PROVE  /\ line' \in [Offsets -> Cells]
         /\ stray' = FALSE
         /\ \A k \in Offsets \ DOMAIN cells : line'[k] = line[k]
         /\ \A k \in DOMAIN cells : line'[k] = cells[k]
BY DEF IInv, ShellTypeOK, StoresInside, Store

(* The initial states satisfy the invariant. *)
LEMMA InitIInv == ShellInit => IInv
<1> SUFFICES ASSUME ShellInit PROVE IInv
  OBVIOUS
<1>1. ShellTypeOK
  <2>1. entered \in Seq(Stored)
    BY EmptySeq DEF ShellInit
  <2>2. 0 \in 0..maxlen - 1 /\ 0 \in 0..maxlen
    BY DebugShellAssumption DEF maxlen
  <2> QED
    BY <2>1, <2>2 DEF ShellInit, ShellTypeOK
<1> QED
  BY <1>1 DEF ShellInit, IInv, StoresInside, EnteredIsLine, WrappedIsEmpty,
     LengthIsEntered, ReturnedIsParsed

LEMMA CallTermGetStep ==
  ASSUME IInv, CallTermGet PROVE IInv'
<1>1. ShellTypeOK'
  BY DebugShellAssumption DEF IInv, ShellTypeOK, CallTermGet, maxlen, Offsets
<1>2. StoresInside' /\ EnteredIsLine' /\ WrappedIsEmpty'
  BY DebugShellAssumption
     DEF IInv, StoresInside, EnteredIsLine, WrappedIsEmpty, CallTermGet
<1> QED
  BY <1>1, <1>2 DEF CallTermGet, IInv, LengthIsEntered, ReturnedIsParsed

LEMMA LineFullStep ==
  ASSUME IInv, LineFull PROVE IInv'
<1>1. /\ at = "get" /\ ~Room /\ at' = "strip" /\ len' = j
      /\ endedBy' = IF j < LineSize THEN "full" ELSE "rubout"
      /\ UNCHANGED <<line, j, stray, entered>>
  BY DEF LineFull, ReturnLength
<1>2. ShellTypeOK'
  BY <1>1, DebugShellAssumption DEF IInv, ShellTypeOK, maxlen, Offsets
<1>3. LengthIsEntered'
  <2>1. CASE j < LineSize
    <3>1. j \in 2..maxlen
      BY <1>1, <2>1, DebugShellAssumption DEF IInv, ShellTypeOK, Room, maxlen
    <3> QED
      BY <1>1, <2>1, <3>1 DEF IInv, EnteredIsLine, LengthIsEntered
  <2>2. CASE ~(j < LineSize)
    BY <1>1, <2>2 DEF LengthIsEntered
  <2> QED
    BY <2>1, <2>2
<1> QED
  BY <1>1, <1>2, <1>3 DEF IInv, StoresInside, EnteredIsLine, WrappedIsEmpty,
     ReturnedIsParsed

(* CR, LF and NUL fit, and the characters before them stay. *)
LEMMA TypeCRStep ==
  ASSUME IInv, TypeCR PROVE IInv'
<1> DEFINE cells == [k \in j..j + 2 |->
              IF k = j THEN "CR" ELSE IF k = j + 1 THEN "LF" ELSE "NUL"]
<1>1. /\ at = "get" /\ Room /\ Store(cells) /\ j' = j + 1
      /\ at' = "strip" /\ len' = j + 2 /\ endedBy' = "CR" /\ entered' = entered
  BY DEF TypeCR, ReturnLength
<1>2. /\ j \in Nat /\ j + 2 \in Offsets /\ j < maxlen - 1 /\ Len(entered) = j
      /\ \A k \in 1..j : line[k - 1] = entered[k]
  BY <1>1, RoomMeansEntered
<1>3. DOMAIN cells = j..j + 2 /\ \A k \in DOMAIN cells : cells[k] \in Cells
  BY DEF Cells, Stored
<1>4. j..j + 2 \subseteq Offsets
  BY <1>2, DebugShellAssumption DEF Offsets
<1> HIDE DEF cells
<1>5. /\ line' \in [Offsets -> Cells] /\ stray' = FALSE
      /\ \A k \in Offsets \ (j..j + 2) : line'[k] = line[k]
  BY <1>1, <1>3, <1>4, StoreInside
<1>6. \A k \in 1..j : line'[k - 1] = entered[k]
  BY <1>2, <1>5, DebugShellAssumption DEF Offsets
<1>7. j + 1 \in 0..maxlen - 1 /\ j + 2 \in 0..maxlen
  BY <1>2, DebugShellAssumption DEF maxlen
<1>8. ShellTypeOK'
  BY <1>1, <1>5, <1>7 DEF IInv, ShellTypeOK
<1>9. LengthIsEntered'
  BY <1>1, <1>2, <1>6, <1>7 DEF LengthIsEntered
<1> QED
  BY <1>1, <1>5, <1>8, <1>9 DEF IInv, StoresInside, EnteredIsLine,
     WrappedIsEmpty, ReturnedIsParsed

(* The last character goes from the buffer and from what was entered; on an
   empty line the index goes round, and there is no more room. *)
LEMMA RuboutStep ==
  ASSUME IInv, NEW key \in Rubouts, Rubout(key) PROVE IInv'
<1>1. /\ at = "get" /\ Room /\ j' = (j - 1) % Width /\ entered' = Erased
      /\ UNCHANGED <<at, line, len, endedBy, stray>>
  BY DEF Rubout
<1>2. /\ j \in Nat /\ j < maxlen - 1 /\ Len(entered) = j
      /\ \A k \in 1..j : line[k - 1] = entered[k]
  BY <1>1, RoomMeansEntered
<1>3. entered \in Seq(Stored)
  BY DEF IInv, ShellTypeOK
<1>4. CASE j = 0
  <2>1. entered = <<>> /\ entered' = <<>>
    BY <1>1, <1>2, <1>3, <1>4, EmptySeq DEF Erased
  <2>2. j' = Width - 1
    BY <1>1, <1>4, DebugShellAssumption, Decrement
  <2>3. ShellTypeOK'
    BY <1>1, <2>1, <2>2, EmptySeq DEF IInv, ShellTypeOK
  <2> QED
    BY <1>1, <2>1, <2>2, <2>3, DebugShellAssumption DEF IInv, StoresInside,
       EnteredIsLine, WrappedIsEmpty, LengthIsEntered, ReturnedIsParsed
<1>5. CASE j # 0
  <2>1. j' = j - 1 /\ j - 1 \in 0..maxlen - 1
    <3>1. j \in 0..Width - 1 /\ Width \in Nat \ {0}
      BY <1>2, DebugShellAssumption DEF maxlen
    <3>2. (j - 1) % Width = j - 1
      BY <1>5, <3>1, Decrement
    <3> QED
      BY <1>1, <1>2, <1>5, <3>2, DebugShellAssumption DEF maxlen
  <2>2. entered # <<>> /\ entered' = SubSeq(entered, 1, j - 1)
    BY <1>1, <1>2, <1>3, <1>5 DEF Erased
  <2>3. /\ entered' \in Seq(Stored) /\ Len(entered') = j - 1
        /\ \A k \in 1..j - 1 : entered'[k] = entered[k]
    BY <1>2, <1>3, <1>5, <2>2, SubSeqProperties
  <2>4. ShellTypeOK'
    BY <1>1, <2>1, <2>3 DEF IInv, ShellTypeOK
  <2>5. EnteredIsLine'
    BY <1>1, <1>2, <2>1, <2>3 DEF EnteredIsLine
  <2>6. WrappedIsEmpty'
    BY <1>1, <2>1, DebugShellAssumption DEF WrappedIsEmpty, maxlen
  <2> QED
    BY <1>1, <2>4, <2>5, <2>6 DEF IInv, StoresInside, LengthIsEntered,
       ReturnedIsParsed
<1> QED
  BY <1>4, <1>5

LEMMA TypeCharStep ==
  ASSUME IInv, NEW c \in Stored, TypeChar(c) PROVE IInv'
<1> DEFINE cells == [k \in {j} |-> c]
<1>1. /\ at = "get" /\ Room /\ Store(cells) /\ j' = j + 1
      /\ entered' = Append(entered, c)
      /\ UNCHANGED <<at, len, endedBy>>
  BY DEF TypeChar
<1>2. /\ j \in Nat /\ j + 2 \in Offsets /\ j < maxlen - 1 /\ Len(entered) = j
      /\ \A k \in 1..j : line[k - 1] = entered[k]
  BY <1>1, RoomMeansEntered
<1>3. /\ DOMAIN cells = {j} /\ cells[j] = c
      /\ \A k \in DOMAIN cells : cells[k] \in Cells
  BY DEF Cells, Stored
<1>4. {j} \subseteq Offsets
  BY <1>2, DebugShellAssumption DEF Offsets
<1> HIDE DEF cells
<1>5. /\ line' \in [Offsets -> Cells] /\ stray' = FALSE
      /\ \A k \in Offsets \ {j} : line'[k] = line[k]
      /\ line'[j] = c
  BY <1>1, <1>3, <1>4, StoreInside
<1>6. /\ entered' \in Seq(Stored) /\ Len(entered') = j + 1
      /\ \A k \in 1..j : entered'[k] = entered[k]
      /\ entered'[j + 1] = c
  BY <1>1, <1>2, AppendProperties DEF IInv, ShellTypeOK
<1>7. \A k \in 1..j + 1 : line'[k - 1] = entered'[k]
  <2> SUFFICES ASSUME NEW k \in 1..j + 1 PROVE line'[k - 1] = entered'[k]
    OBVIOUS
  <2>1. CASE k = j + 1
    BY <1>2, <1>5, <1>6, <2>1
  <2>2. CASE k \in 1..j
    BY <1>2, <1>5, <1>6, <2>2, DebugShellAssumption DEF Offsets
  <2> QED
    BY <1>2, <2>1, <2>2
<1>8. ShellTypeOK'
  <2>1. j + 1 \in 0..maxlen - 1
    BY <1>2, DebugShellAssumption DEF maxlen
  <2> QED
    BY <1>1, <1>5, <1>6, <2>1 DEF IInv, ShellTypeOK
<1>9. EnteredIsLine'
  BY <1>1, <1>6, <1>7 DEF EnteredIsLine
<1>10. WrappedIsEmpty'
  BY <1>1, <1>2, DebugShellAssumption DEF WrappedIsEmpty, maxlen
<1> QED
  BY <1>1, <1>5, <1>8, <1>9, <1>10 DEF IInv, StoresInside, LengthIsEntered,
     ReturnedIsParsed

(* Stripping puts the NUL right behind what was entered. *)
LEMMA StripStep ==
  ASSUME IInv, Strip PROVE IInv'
<1>1. /\ at = "strip" /\ at' = "parse"
      /\ line' = [k \in Offsets |-> IF k = LineEnd THEN "NUL" ELSE line[k]]
      /\ UNCHANGED <<j, len, endedBy, stray, entered>>
  BY DEF Strip
<1>2. line' \in [Offsets -> Cells]
  BY <1>1 DEF IInv, ShellTypeOK, Cells, Stored
<1>3. ReturnedIsParsed'
  <2> SUFFICES ASSUME endedBy = "CR" PROVE HoldsString(entered)'
    BY <1>1 DEF ReturnedIsParsed
  <2>1. /\ len = Len(entered) + 2
        /\ len \in 2..maxlen
        /\ \A k \in 1..Len(entered) : line[k - 1] = entered[k]
    BY <1>1 DEF IInv, LengthIsEntered
  <2>2. entered \in Seq(Stored) /\ Len(entered) \in Nat
    BY DEF IInv, ShellTypeOK
  <2>3. LineEnd = Len(entered)
    <3>1. len \in 2..Width - 1 /\ Width \in Nat \ {0}
      BY <2>1, DebugShellAssumption DEF maxlen
    <3>2. LineEnd = len - 2
      BY <3>1, TwoLess DEF LineEnd
    <3> QED
      BY <2>1, <2>2, <3>2
  <2>4. Len(entered) < LineSize /\ Len(entered) \in Offsets
    BY <2>1, <2>2, DebugShellAssumption DEF maxlen, Offsets
  <2>5. line'[Len(entered)] = "NUL"
    BY <1>1, <2>3, <2>4
  <2>6. ASSUME NEW k \in 1..Len(entered) PROVE line'[k - 1] = entered[k]
    <3>1. k - 1 \in Offsets /\ k - 1 # Len(entered)
      BY <2>2, <2>4, DebugShellAssumption DEF Offsets
    <3>2. line'[k - 1] = line[k - 1]
      BY <1>1, <2>3, <3>1
    <3> QED
      BY <2>1, <3>2
  <2> QED
    BY <1>1, <2>4, <2>5, <2>6 DEF HoldsString
<1>4. ShellTypeOK'
  BY <1>1, <1>2 DEF IInv, ShellTypeOK
<1> QED
  BY <1>1, <1>3, <1>4 DEF IInv, StoresInside, EnteredIsLine, WrappedIsEmpty,
     LengthIsEntered

LEMMA CallCmdParseStep ==
  ASSUME IInv, cmdParse PROVE IInv'
<1>1. PICK cuts : line' = [k \in Offsets |-> IF k \in cuts THEN "NUL" ELSE line[k]]
  BY DEF cmdParse
<1>2. line' \in [Offsets -> Cells]
  BY <1>1 DEF IInv, ShellTypeOK, Cells, Stored
<1>3. ShellTypeOK'
  BY <1>2 DEF cmdParse, IInv, ShellTypeOK
<1> QED
  BY <1>3 DEF cmdParse, IInv, StoresInside, EnteredIsLine, WrappedIsEmpty,
     LengthIsEntered, ReturnedIsParsed

(* Every step keeps the invariant. *)
LEMMA NextIInv == IInv /\ [ShellNext]_shellVars => IInv'
<1> SUFFICES ASSUME IInv, [ShellNext]_shellVars PROVE IInv'
  OBVIOUS
<1>1. CASE CallTermGet
  BY <1>1, CallTermGetStep
<1>2. CASE LineFull
  BY <1>2, LineFullStep
<1>3. CASE TypeCR
  BY <1>3, TypeCRStep
<1>4. ASSUME NEW key \in Rubouts, Rubout(key) PROVE IInv'
  BY <1>4, RuboutStep
<1>5. ASSUME NEW c \in Stored, TypeChar(c) PROVE IInv'
  BY <1>5, TypeCharStep
<1>6. CASE Strip
  BY <1>6, StripStep
<1>7. CASE cmdParse
  BY <1>7, CallCmdParseStep
<1>8. CASE UNCHANGED shellVars
  BY <1>8 DEF shellVars, IInv, ShellTypeOK, StoresInside, EnteredIsLine, WrappedIsEmpty,
     LengthIsEntered, ReturnedIsParsed, HoldsString
<1> QED
  BY <1>1, <1>2, <1>3, <1>4, <1>5, <1>6, <1>7, <1>8
     DEF ShellNext, cmd_term_get, vDebugShell

LEMMA SpecIInv == ShellSpec => []IInv
BY InitIInv, NextIInv, PTL DEF ShellSpec

(* The index of the line input is below its limit or has gone round once. *)
THEOREM TypeCorrect == ShellSpec => []ShellTypeOK
<1>1. IInv => ShellTypeOK
  BY DEF IInv
<1> QED
  BY <1>1, SpecIInv, PTL

(* cmd_term_get never stores outside the line buffer, also when the index has
   gone round and when CR, LF and NUL come in the last place. *)
THEOREM StoresKeptInside == ShellSpec => []StoresInside
<1>1. IInv => StoresInside
  BY DEF IInv
<1> QED
  BY <1>1, SpecIInv, PTL

(* The buffer holds what was entered while a line is typed. *)
THEOREM LineKept == ShellSpec => []EnteredIsLine
<1>1. IInv => EnteredIsLine
  BY DEF IInv
<1> QED
  BY <1>1, SpecIInv, PTL

(* A line that the return key ended is parsed as it was entered, whole and
   whatever the buffer held before, for every set of keys. *)
THEOREM ParsedAsEntered == ShellSpec => []ReturnedIsParsed
<1>1. IInv => ReturnedIsParsed
  BY DEF IInv
<1> QED
  BY <1>1, SpecIInv, PTL
=============================================================================
