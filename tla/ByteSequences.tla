---------------------------- MODULE ByteSequences ----------------------------
(* Sequences of bytes that are numbered in the order they were sent. *)
EXTENDS Naturals, Sequences

(* In the order of sending, and none twice. *)
InOrder(s) == \A i, j \in 1..Len(s) : i < j => s[i] < s[j]

(* ... and none sent after byte k. *)
OrderedUpTo(s, k) == InOrder(s) /\ \A i \in 1..Len(s) : s[i] <= k
=============================================================================
