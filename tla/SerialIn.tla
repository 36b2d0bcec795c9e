------------------------------ MODULE SerialIn ------------------------------
(***************************************************************************)
(* What the USB receive path promises the debug shell, with no mention of  *)
(* interrupts, semaphores or tasks.                                        *)
(*                                                                         *)
(* The host puts bytes on a line.  Bytes leave the line in order; each one *)
(* either joins the input queue or, when the queue holds QueueLength       *)
(* bytes, is discarded (cdcacm.c ignores the result of the enqueue).  The  *)
(* shell takes bytes from the head of the queue.  Byte n is the n-th byte  *)
(* the host ever sent.                                                     *)
(***************************************************************************)
EXTENDS Naturals, Sequences

CONSTANTS QueueLength,   \* bytes the input queue holds
          MaxPacket      \* bytes the host may send at once

VARIABLES sent,          \* number of bytes the host has sent
          line,          \* bytes sent, not yet offered to the queue
          queue,         \* bytes waiting for the shell
          received       \* bytes the shell has taken, oldest first

vars == <<sent, line, queue, received>>

Init ==
  /\ sent = 0
  /\ line = <<>>
  /\ queue = <<>>
  /\ received = <<>>

Send(n) ==
  /\ sent' = sent + n
  /\ line' = line \o [i \in 1..n |-> sent + i]
  /\ UNCHANGED <<queue, received>>

Enqueue ==
  /\ line # <<>>
  /\ Len(queue) < QueueLength
  /\ line' = Tail(line)
  /\ queue' = Append(queue, Head(line))
  /\ UNCHANGED <<sent, received>>

Discard ==
  /\ line # <<>>
  /\ Len(queue) = QueueLength
  /\ line' = Tail(line)
  /\ UNCHANGED <<sent, queue, received>>

Receive ==
  /\ queue # <<>>
  /\ queue' = Tail(queue)
  /\ received' = Append(received, Head(queue))
  /\ UNCHANGED <<sent, line>>

Next ==
  \/ \E n \in 1..MaxPacket : Send(n)
  \/ Enqueue
  \/ Discard
  \/ Receive

Spec == Init /\ [][Next]_vars

(* Every byte on the line is eventually enqueued or discarded. *)
FairSpec == Spec /\ WF_vars(Enqueue \/ Discard)
=============================================================================
