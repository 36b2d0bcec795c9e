----------------------------- MODULE MCDebugShell -----------------------------
(***************************************************************************)
(* Line input and tokenizer of the debug shell, on every sequence of keys  *)
(* and every short line over the kinds of characters the tokenizer and the *)
(* dispatch tell apart.  Each abstracts the other to what it is given, so  *)
(* each is explored while the other rests in one initial state.            *)
(***************************************************************************)
EXTENDS CmdParse, DebugShell

Kinds == {"t", "h", "SP", "DQ", "SQ", "0xb0"}

AllChars == Kinds \cup {"f", "x", "TAB", "LF", "NUL"}

ShortLines == UNION {[1..n -> Kinds] : n \in 0..5}

ShellRests ==
  /\ at = "prompt" /\ len = 0 /\ entered = <<>>
  /\ line = [k \in Offsets |-> "NUL"]

ParserRests == pc = "idle" /\ input = <<>> /\ jj = 0 /\ args = <<>>

MCInit == Init /\ ShellInit

MCNext ==
  \/ ShellRests /\ Next /\ UNCHANGED shellVars
  \/ ParserRests /\ ShellNext /\ UNCHANGED vars

MCSpec == MCInit /\ [][MCNext]_<<vars, shellVars>>
=============================================================================
