---------------------------- MODULE MCWriteBuffer ----------------------------
(* What the shell writes: single characters (each character of myprintf is a
   call of its own), newlines, and the erase sequence of a backspace. *)
EXTENDS WriteBuffer

ShellTexts == {<<"x">>, <<"LF">>, <<"BS", "SP", "BS">>}
=============================================================================
