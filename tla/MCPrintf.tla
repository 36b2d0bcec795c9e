------------------------------- MODULE MCPrintf -------------------------------
(***************************************************************************)
(* Integers of eight bits in every directive, and the formats of the       *)
(* self-test in printf-stdarg.c and of the debug shell, their literal text *)
(* shortened.                                                              *)
(***************************************************************************)
EXTENDS Printf

Flags == {<<>>, <<"4">>, <<"1", "0">>, <<"-", "4">>, <<"0", "2">>, <<"0", "4">>,
          <<"-", "0", "4">>}

Single == {<<"%">> \o fl \o <<c>> : fl \in Flags, c \in {"s", "c", "q"} \cup Conversion}

Texts == {<<"a">>, <<"a", "%">>, <<"%", "%", "a">>,
          <<"%", "s", ">">>, <<"a", "%", "1", "0", "s", "%", "s">>,
          <<"%", "d", "%", "s", "%">>, <<"%", "c", "%", "%">>}

AllFormats == Single \cup Texts

(* Around zero, the bases and their squares, and both ends. *)
SomeInts == -17..17 \cup {-128, -127, -100, -99, 99, 100, 101, 126, 127}

SomeStrings == {NULL, <<>>, <<"l", "e", "f", "t">>}
=============================================================================
