-------------------------------- MODULE MCBoot --------------------------------
(***************************************************************************)
(* An instance of Boot: every block takes less than one or two units of    *)
(* alignment, and the end of the heap is anywhere, so that memory runs out *)
(* at each allocation, or not at all.                                      *)
(***************************************************************************)
EXTENDS Boot

MCSize == [o \in Owners |-> IF o \in {"Shell", "Line", "Outbuf"} THEN 3 ELSE 2]
=============================================================================
