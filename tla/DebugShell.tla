------------------------------ MODULE DebugShell ------------------------------
(***************************************************************************)
(* The task vDebugShell and its line input, cmd_term_get: one line buffer, *)
(* filled key by key with echo and rubout, stripped of its line end and    *)
(* handed to cmdParse, which cuts it in place.  The buffer is the same for *)
(* every command and keeps what the last one left in it.                   *)
(*                                                                         *)
(* Nobody else uses the buffer, so the steps of other tasks do not matter  *)
(* here; cmdParse is in detail in the module CmdParse.                     *)
(***************************************************************************)
EXTENDS Integers, Sequences

CONSTANTS LineSize,   \* bytes allocated for the line (1024)
          Width,      \* values of uint32_t (2^32)
          Printable,  \* the keys of characters, but for NUL, CR and LF
          Delimiters, \* those of them that cmdParse cuts at
          Rubouts     \* the keys that take a character back: BS and DEL

ASSUME DebugShellAssumption ==
  /\ LineSize \in Nat /\ LineSize >= 4
  /\ Width \in Nat /\ Width > LineSize + 2
  /\ Printable \cap {"NUL", "CR", "LF"} = {}
  /\ Delimiters \subseteq Printable

VARIABLES
  at,      \* "prompt", "get", "strip" or "parse"
  line,    \* the buffer
  j,       \* the index of cmd_term_get
  len,     \* the length it has returned
  endedBy, \* what ended the line: "CR", "full" or "rubout"
  stray,   \* cmd_term_get has stored outside the buffer
  entered  \* the keys stored since the prompt, less those taken back

shellVars == <<at, line, j, len, endedBy, stray, entered>>

(* cmd_term_get gives CR, BS and DEL a meaning; it stores every other key, the
   NUL of ctrl-@ and the LF of ctrl-J among them. *)
Stored == Printable \cup {"NUL", "LF"}

Cells == Stored \cup {"CR"}

Offsets == 0..LineSize - 1

maxlen == LineSize - 1

(* The memory malloc returns holds anything. *)
ShellInit ==
  /\ at = "prompt"
  /\ line \in [Offsets -> Cells]
  /\ j = 0
  /\ len = 0
  /\ endedBy = "CR"
  /\ stray = FALSE
  /\ entered = <<>>

-----------------------------------------------------------------------------
(* cmd_term_get *)

CallTermGet ==
  /\ at = "prompt"
  /\ at' = "get"
  /\ j' = 0
  /\ entered' = <<>>
  /\ UNCHANGED <<line, len, endedBy, stray>>

(* Mutation: room is left for one byte too few. *)
Room_OffByOne == j < maxlen

(* The test at the top of the loop. *)
Room == j < maxlen - 1

ReturnLength(n, why) ==
  /\ at' = "strip"
  /\ len' = n
  /\ endedBy' = why

LineFull ==
  /\ at = "get"
  /\ ~Room
  /\ ReturnLength(j, IF j < LineSize THEN "full" ELSE "rubout")
  /\ UNCHANGED <<line, j, stray, entered>>

(* Stores through the pointer line; those outside the buffer are noted. *)
Store(cells) ==
  /\ line' = [k \in Offsets |-> IF k \in DOMAIN cells THEN cells[k] ELSE line[k]]
  /\ stray' = (stray \/ ~(DOMAIN cells \subseteq Offsets))

TypeCR ==
  /\ at = "get"
  /\ Room
  /\ Store([k \in j..j + 2 |->
              IF k = j THEN "CR" ELSE IF k = j + 1 THEN "LF" ELSE "NUL"])
  /\ j' = j + 1
  /\ ReturnLength(j + 2, "CR")
  /\ UNCHANGED entered

Erased == IF entered = <<>> THEN <<>> ELSE SubSeq(entered, 1, Len(entered) - 1)

(* The index goes back without a test; the erase sequence BS, SP, BS takes the
   last key away, if there is one. *)
Rubout_NoStep(key) ==   \* mutation: the index is not taken back
  /\ at = "get"
  /\ Room
  /\ key \in Rubouts
  /\ j' = j
  /\ entered' = Erased
  /\ UNCHANGED <<at, line, len, endedBy, stray>>

Rubout(key) ==
  /\ at = "get"
  /\ Room
  /\ key \in Rubouts
  /\ j' = (j - 1) % Width
  /\ entered' = Erased
  /\ UNCHANGED <<at, line, len, endedBy, stray>>

TypeChar(c) ==
  /\ at = "get"
  /\ Room
  /\ Store([k \in {j} |-> c])
  /\ j' = j + 1
  /\ entered' = Append(entered, c)
  /\ UNCHANGED <<at, len, endedBy>>

cmd_term_get ==
  \/ CallTermGet
  \/ LineFull
  \/ TypeCR
  \/ \E key \in Rubouts : Rubout(key)
  \/ \E c \in Stored : TypeChar(c)

-----------------------------------------------------------------------------
(* vDebugShell *)

(* Where line[len-2] is, seen from the start of the buffer: beyond its end
   stands for before its start, the addition to a pointer wraps too. *)
LineEnd == (len - 2) % Width

Strip_OneByte ==   \* mutation: only the LF is stripped
  /\ at = "strip"
  /\ at' = "parse"
  /\ line' = [k \in Offsets |-> IF k = (len - 1) % Width THEN "NUL" ELSE line[k]]
  /\ UNCHANGED <<j, len, endedBy, stray, entered>>

Strip ==
  /\ at = "strip"
  /\ at' = "parse"
  /\ line' = [k \in Offsets |-> IF k = LineEnd THEN "NUL" ELSE line[k]]
  /\ UNCHANGED <<j, len, endedBy, stray, entered>>

(* The command runs; the tokenizer has cut the line at some delimiters, a line
   of COMMAND_SIZE before its last character, and a line that ends with a quote
   one place behind its NUL, whatever is there. *)
cmdParse ==
  /\ at = "parse"
  /\ at' = "prompt"
  /\ \E cuts \in SUBSET {k \in 0..LineSize - 2 :
                          \/ line[k] \in Delimiters
                          \/ line[k + 1] = "NUL"
                          \/ k > 0 /\ line[k - 1] = "NUL"} :
       line' = [k \in Offsets |-> IF k \in cuts THEN "NUL" ELSE line[k]]
  /\ UNCHANGED <<j, len, endedBy, stray, entered>>

vDebugShell == Strip \/ cmdParse

ShellNext == cmd_term_get \/ vDebugShell

ShellSpec == ShellInit /\ [][ShellNext]_shellVars

-----------------------------------------------------------------------------
(* Properties *)

(* The buffer starts with the sequence s and a NUL: cmdParse, which reads to the
   first NUL, is given s, or s up to the first NUL typed in it. *)
HoldsString(s) ==
  /\ Len(s) < LineSize
  /\ \A k \in 1..Len(s) : line[k - 1] = s[k]
  /\ line[Len(s)] = "NUL"

ShellTypeOK ==
  /\ at \in {"prompt", "get", "strip", "parse"}
  /\ line \in [Offsets -> Cells]
  /\ j \in 0..maxlen - 1 \cup {Width - 1}
  /\ len \in 0..maxlen \cup {Width - 1}
  /\ endedBy \in {"CR", "full", "rubout"}
  /\ stray \in BOOLEAN
  /\ entered \in Seq(Stored)

(* cmd_term_get stores into the buffer only: CR, LF and NUL fit even when the
   CR is the last key there is room for, and an index that a rubout has taken
   below zero is never stored through. *)
StoresInside == ~stray

(* While a line is typed the buffer holds exactly the keys echoed and not taken
   back, unless a rubout on an empty line has sent the index round. *)
EnteredIsLine ==
  at = "get" /\ j < LineSize
    => /\ Len(entered) = j
       /\ \A k \in 1..j : line[k - 1] = entered[k]

(* A line that the return key ended is parsed whole, as it was entered and
   nothing else, whatever earlier lines and the tokenizer left in the buffer. *)
ReturnedIsParsed ==
  at = "parse" /\ endedBy = "CR" => HoldsString(entered)

(* debug_shell.c, at the call of cmdParse: "strip off cr-lf".  Nothing but the
   line end is taken off, so that what was entered is parsed, the end of the
   line being the return key or a full buffer.  (A rubout on an empty line is
   the subject of ParsedIsTyped, and no string of C holds a typed NUL.) *)
EnteredIsParsed ==
  at = "parse" /\ endedBy # "rubout" /\ (\A k \in 1..Len(entered) : entered[k] # "NUL")
    => HoldsString(entered)

(* debug_shell.h, at cmd_term_get: "Get character(s) from a terminal based
   cmd".  What is parsed has come from the terminal: it is the start of what
   was entered. *)
ParsedIsTyped ==
  at = "parse" => \E n \in 0..Len(entered) : HoldsString(SubSeq(entered, 1, n))
=============================================================================
