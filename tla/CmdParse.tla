------------------------------- MODULE CmdParse -------------------------------
(***************************************************************************)
(* cmdParse, the command processor of the debug shell: a tokenizer that    *)
(* cuts the line in place and collects pointers to its arguments, and the  *)
(* search of the dispatch tables.  One action per turn of the loop over    *)
(* the line; the line is the one string the shell hands over, followed in  *)
(* its buffer by the rest of the line end (see the module DebugShell).     *)
(*                                                                         *)
(* The array args is modelled without its bound: an element that the array *)
(* of MAXARGS pointers has no room for overwrites what lies behind it.     *)
(***************************************************************************)
EXTENDS Integers, Sequences, FiniteSets

CONSTANTS COMMAND_SIZE,  \* the length the tokenizer takes one off (127)
          MAXARGS,       \* DEBUG_SHELL_MAXARGS (32)
          Chars,         \* the characters of a line buffer
          Lines          \* the lines: sequences of characters

Quotes == {"DQ", "SQ"}

Blanks == {"SP", "TAB"}

(* The dispatch tables, in the order of dispatchTableTable; a name is
   abbreviated to one character: timer, hardfault; help, exit. *)
mainCommands == {<<"t">>, <<"f">>}

commonCommands == {<<"h">>, <<"x">>}

dispatchTableTable == <<mainCommands, commonCommands>>

NoCall == [cmd |-> <<>>, tables |-> {}]

ASSUME CmdParseAssumption ==
  /\ COMMAND_SIZE \in Nat \ {0}
  /\ MAXARGS \in Nat \ {0}
  /\ {"NUL", "LF", "t", "f", "h", "x"} \subseteq Chars
  /\ Lines \subseteq Seq(Chars)
  /\ \A s \in Lines : \A i \in 1..Len(s) : s[i] # "NUL"

VARIABLES
  pc,        \* "scan", "dispatch", "return", or "idle" between two lines
  input,     \* the line as it came
  cmdstr,    \* the buffer
  jj,        \* the index of the loop
  argstart,  \* where the argument being read starts, or -1
  args,      \* offsets of the arguments found (argi is its length)
  cmdErr,    \* what the call reports
  called     \* the command run for this line, and from which tables

vars == <<pc, input, cmdstr, jj, argstart, args, cmdErr, called>>

-----------------------------------------------------------------------------
(* Strings *)

(* The line, its NUL, and what is left of the line end: LF and NUL.  Behind the
   NUL of a full line, or one typed in it, is something else; cmdParse does not
   read it. *)
Buffer(s) == [k \in 0..Len(s) + 2 |->
                IF k < Len(s) THEN s[k + 1]
                ELSE IF k = Len(s) + 1 THEN "LF" ELSE "NUL"]

(* The index of the first NUL from index i on. *)
End(i) == CHOOSE k \in i..Len(input) + 2 :
            /\ cmdstr[k] = "NUL"
            /\ \A m \in i..k - 1 : cmdstr[m] # "NUL"

(* The string an argument points to. *)
Str(i) == [m \in 1..End(i) - i |-> cmdstr[i + m - 1]]

wholeLength ==
  IF Len(input) = COMMAND_SIZE THEN COMMAND_SIZE - 1 ELSE Len(input)

Cut(k) == cmdstr' = [cmdstr EXCEPT ![k] = "NUL"]

Init ==
  /\ pc = "idle"
  /\ input = <<>>
  /\ cmdstr = Buffer(<<>>)
  /\ jj = 0
  /\ argstart = -1
  /\ args = <<>>
  /\ cmdErr = 0
  /\ called = NoCall

-----------------------------------------------------------------------------
(* The tokenizer *)

CallCmdParse(s) ==
  /\ pc = "idle"
  /\ pc' = "scan"
  /\ input' = s
  /\ cmdstr' = Buffer(s)
  /\ jj' = 0
  /\ argstart' = -1
  /\ args' = <<>>
  /\ cmdErr' = 0
  /\ called' = NoCall

InLine == pc = "scan" /\ jj < wholeLength

(* The loop that looks for the closing quote stops at k.  It is bounded by
   strlen of the line as cut so far, which is the length of its first word. *)
Stops(k, q) == cmdstr[k] = q \/ \E m \in 0..k : cmdstr[m] = "NUL"

StopsFirst(k, q) == Stops(k, q) /\ \A m \in jj + 1..k - 1 : ~Stops(m, q)

Quoted_Unchecked(q) ==   \* mutation: running off the end goes unnoticed
  /\ InLine
  /\ cmdstr[jj] = q
  /\ \E kk \in jj + 1..Len(input) :
       /\ StopsFirst(kk, q)
       /\ Cut(kk)
       /\ jj' = kk + 2
  /\ args' = Append(args, jj + 1)
  /\ UNCHANGED <<pc, input, argstart, cmdErr, called>>

(* jj is set after the closing quote, and the loop then adds one more. *)
Quoted(q) ==
  /\ InLine
  /\ cmdstr[jj] = q
  /\ \E kk \in jj + 1..Len(input) :
       /\ StopsFirst(kk, q)
       /\ cmdstr[kk] = q
       /\ Cut(kk)
       /\ jj' = kk + 2
  /\ args' = Append(args, jj + 1)
  /\ UNCHANGED <<pc, input, argstart, cmdErr, called>>

(* "Command parse error, no matching" *)
Unmatched(q) ==
  /\ InLine
  /\ cmdstr[jj] = q
  /\ \E kk \in jj + 1..Len(input) : StopsFirst(kk, q) /\ cmdstr[kk] # q
  /\ cmdErr' = 255
  /\ pc' = "return"
  /\ UNCHANGED <<input, cmdstr, jj, argstart, args, called>>

(* Mutation: the argument stays open after its delimiter. *)
Delimiter_NoReset ==
  /\ InLine
  /\ cmdstr[jj] \in Blanks
  /\ jj' = jj + 1
  /\ \/ /\ argstart >= 0
        /\ Cut(jj)
        /\ args' = Append(args, argstart)
        /\ UNCHANGED argstart
     \/ /\ argstart < 0
        /\ UNCHANGED <<cmdstr, args, argstart>>
  /\ UNCHANGED <<pc, input, cmdErr, called>>

Delimiter ==
  /\ InLine
  /\ cmdstr[jj] \in Blanks
  /\ jj' = jj + 1
  /\ \/ /\ argstart >= 0
        /\ Cut(jj)
        /\ args' = Append(args, argstart)
        /\ argstart' = -1
     \/ /\ argstart < 0
        /\ UNCHANGED <<cmdstr, args, argstart>>
  /\ UNCHANGED <<pc, input, cmdErr, called>>

OtherChar ==
  /\ InLine
  /\ cmdstr[jj] \notin Blanks \cup Quotes
  /\ jj' = jj + 1
  /\ argstart' = IF argstart < 0 THEN jj ELSE argstart
  /\ UNCHANGED <<pc, input, cmdstr, args, cmdErr, called>>

EndOfLine_Early ==   \* mutation: the last character is cut off
  /\ pc = "scan" /\ jj >= wholeLength
  /\ pc' = "dispatch"
  /\ \/ /\ argstart >= 0
        /\ Cut(jj - 1)
        /\ args' = Append(args, argstart)
     \/ /\ argstart < 0
        /\ UNCHANGED <<cmdstr, args>>
  /\ UNCHANGED <<input, jj, argstart, cmdErr, called>>

EndOfLine ==
  /\ pc = "scan" /\ jj >= wholeLength
  /\ pc' = "dispatch"
  /\ \/ /\ argstart >= 0
        /\ Cut(jj)
        /\ args' = Append(args, argstart)
     \/ /\ argstart < 0
        /\ UNCHANGED <<cmdstr, args>>
  /\ UNCHANGED <<input, jj, argstart, cmdErr, called>>

-----------------------------------------------------------------------------
(* The dispatch.  With no argument args[0] is NULL; the byte at address 0 is
   the low byte of the initial stack pointer, which is zero, so the string
   there is empty as well. *)

HasCommand ==
  /\ args # <<>>
  /\ Str(args[1]) # <<>>
  /\ Str(args[1])[1] # "0xb0"

Hits == {t \in 1..Len(dispatchTableTable) : Str(args[1]) \in dispatchTableTable[t]}

Skip ==
  /\ pc = "dispatch"
  /\ ~HasCommand
  /\ pc' = "return"
  /\ UNCHANGED <<input, cmdstr, jj, argstart, args, cmdErr, called>>

Known(name) ==
  \E t \in 1..Len(dispatchTableTable) : name \in dispatchTableTable[t]

cmd_help_Main ==   \* mutation: searches the first table only
  IF Len(args) = 1 \/ Str(args[2]) \in mainCommands THEN 0 ELSE 1

(* Without an argument all commands are listed; "No command named" otherwise,
   for a name that is in no table. *)
cmd_help == IF Len(args) = 1 \/ Known(Str(args[2])) THEN 0 ELSE 1

(* The break leaves the loop over one table, not the loop over the tables. The
   commands other than help report 0. *)
Run ==
  /\ pc = "dispatch"
  /\ HasCommand
  /\ Hits # {}
  /\ called' = [cmd |-> Str(args[1]), tables |-> Hits]
  /\ cmdErr' = IF Str(args[1]) = <<"h">> THEN cmd_help ELSE 0
  /\ pc' = "return"
  /\ UNCHANGED <<input, cmdstr, jj, argstart, args>>

NotRecognized ==
  /\ pc = "dispatch"
  /\ HasCommand
  /\ Hits = {}
  /\ cmdErr' = 254
  /\ pc' = "return"
  /\ UNCHANGED <<input, cmdstr, jj, argstart, args, called>>

(* The locals are gone; the next call clears args and cmdErr. *)
Return ==
  /\ pc = "return"
  /\ pc' = "idle"
  /\ input' = <<>>
  /\ cmdstr' = Buffer(<<>>)
  /\ jj' = 0
  /\ argstart' = -1
  /\ args' = <<>>
  /\ called' = NoCall
  /\ UNCHANGED cmdErr

Dispatch == Skip \/ Run \/ NotRecognized

Next ==
  \/ \E s \in Lines : CallCmdParse(s)
  \/ \E q \in Quotes : Quoted(q) \/ Unmatched(q)
  \/ Delimiter \/ OtherChar \/ EndOfLine
  \/ Dispatch
  \/ Return

Spec == Init /\ [][Next]_vars

-----------------------------------------------------------------------------
(* Properties *)

(* Also what keeps the stores inside the line's buffer: the index passes the
   NUL by at most one. *)
TypeOK ==
  /\ pc \in {"idle", "scan", "dispatch", "return"}
  /\ input \in Seq(Chars)
  /\ cmdstr \in [0..Len(input) + 2 -> Chars]
  /\ jj \in 0..Len(input) + 1
  /\ argstart \in -1..Len(input) - 1
  /\ args \in Seq(0..Len(input))
  /\ cmdErr \in {0, 1, 254, 255}
  /\ called \in [cmd : Seq(Chars), tables : SUBSET (1..2)]

(* The array of arguments is large enough for every line shorter than twice
   its length, whatever quotes and delimiters it has. *)
ArgsFit == Len(input) < 2 * MAXARGS => Len(args) <= MAXARGS

(* The tokenizer destroys no character that belongs to a word: it cuts at
   blanks and quotes only, and behind the part of the line it looks at. *)
CutsDelimiters ==
  \A k \in 0..wholeLength - 1 :
    cmdstr[k] # input[k + 1] => cmdstr[k] = "NUL" /\ input[k + 1] \in Blanks \cup Quotes

(* First and last index of the words of a line: what is between two blanks. *)
Words(s) ==
  {w \in (1..Len(s)) \X (1..Len(s)) :
     /\ w[1] <= w[2]
     /\ \A i \in w[1]..w[2] : s[i] \notin Blanks
     /\ w[1] = 1 \/ s[w[1] - 1] \in Blanks
     /\ w[2] = Len(s) \/ s[w[2] + 1] \in Blanks}

Positions(s, c) == {i \in 1..Len(s) : s[i] = c}

Unquoted(s) == \A q \in Quotes : Positions(s, q) = {}

(* The arguments of a line without quotes are its words, each whole and
   terminated, in order. *)
ArgsAreWords ==
  pc = "dispatch" /\ Unquoted(input) /\ Len(input) # COMMAND_SIZE =>
    /\ {<<args[i] + 1, End(args[i])>> : i \in 1..Len(args)} = Words(input)
    /\ \A i, k \in 1..Len(args) : i < k => args[i] < args[k]

(* debug_shell.c, at the dispatch: "We take the FIRST hit in the command
   dispatch table".  A command runs once, although the search goes on in the
   second table: no name is in both. *)
FirstHitOnly == Cardinality(called.tables) <= 1

IsWord(w, k) ==
  w \in Words(input) /\ Cardinality({v \in Words(input) : v[1] < w[1]}) = k - 1

Text(w) == SubSeq(input, w[1], w[2])

(* What a line without quotes does, read from the line alone: it runs the
   command its first word names, and is "not recognized" if that names none;
   "No command named" is the answer to help about a second word that would
   not be recognized either. *)
AnswerFitsLine ==
  pc = "return" /\ Unquoted(input) /\ Len(input) # COMMAND_SIZE =>
    \A w \in Words(input) : IsWord(w, 1) /\ Text(w)[1] # "0xb0" =>
      /\ called.cmd = IF Known(Text(w)) THEN Text(w) ELSE <<>>
      /\ cmdErr = 254 <=> ~Known(Text(w))
      /\ cmdErr = 1 <=> /\ Text(w) = <<"h">>
                        /\ \E v \in Words(input) : IsWord(v, 2) /\ ~Known(Text(v))

(* debug_shell.c: "Command parse error, no matching", then the quote.  A line
   with this error has an unmatched quote: it is not one with two double
   quotes and nothing else to match. *)
ErrorMeansUnmatched ==
  cmdErr = 255 =>
    ~(Cardinality(Positions(input, "DQ")) = 2 /\ Positions(input, "SQ") = {})
=============================================================================
