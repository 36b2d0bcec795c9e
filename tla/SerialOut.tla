------------------------------ MODULE SerialOut ------------------------------
(***************************************************************************)
(* What the comments in _write promise of standard output, with no mention *)
(* of calls or pointers: output is chunked into packets of at most         *)
(* BUFFER_SIZE characters and sent out, and all of it is written.          *)
(*                                                                         *)
(* Characters wait until they are shipped to the host in one packet.  The  *)
(* port holds one packet, and ships nothing more until the host has        *)
(* collected it; when BUFFER_SIZE characters wait there is no room for     *)
(* another one.  Character n is the n-th ever written.                     *)
(***************************************************************************)
EXTENDS Naturals, Sequences

CONSTANT BUFFER_SIZE   \* characters that may wait, and the size of a packet

VARIABLES written,     \* number of characters written
          pending,     \* characters that wait
          busy,        \* the port holds a packet
          packet,      \* that packet
          got          \* characters the host has collected, oldest first

vars == <<written, pending, busy, packet, got>>

Init ==
  /\ written = 0
  /\ pending = <<>>
  /\ busy = FALSE
  /\ packet = <<>>
  /\ got = <<>>

Write ==
  /\ Len(pending) < BUFFER_SIZE
  /\ written' = written + 1
  /\ pending' = Append(pending, written + 1)
  /\ UNCHANGED <<busy, packet, got>>

(* All that waits goes into the packet. *)
Ship ==
  /\ ~busy
  /\ busy' = TRUE
  /\ packet' = pending
  /\ pending' = <<>>
  /\ UNCHANGED <<written, got>>

Collect ==
  /\ busy
  /\ busy' = FALSE
  /\ packet' = <<>>
  /\ got' = got \o packet
  /\ UNCHANGED <<written, pending>>

Next == Write \/ Ship \/ Collect

Spec == Init /\ [][Next]_vars
=============================================================================
