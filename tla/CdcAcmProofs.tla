---------------------------- MODULE CdcAcmProofs ----------------------------
(***************************************************************************)
(* Proofs about CdcAcm, for every queue length, packet size and number of  *)
(* bytes: its invariants, and that it implements SerialIn.                 *)
(***************************************************************************)
EXTENDS CdcAcm, SequenceTheorems, TLAPS

-----------------------------------------------------------------------------
(* The inductive invariant *)

Holds(fifo, kind) == \E i \in 1..Len(fifo) : fifo[i] = kind

(* What each statement of the start-up has already established. *)
StartupOrder ==
  /\ pc # "queue" => uartQCreated
  /\ CDCACM_dev => pc \notin {"queue", "init", "dev"}
  /\ configured => pc \notin Startup
  /\ pc = "nvic" => usbInterrupted = "empty"

(* The pending bit follows the interrupt line. *)
LineIsPending == InterruptLine => irqPending

(* The data of a transaction is there while the FIFO holds it, and no longer;
   the receive buffer is in use only while the receive callback runs. *)
FifoContents ==
  /\ setup # "none" <=> Holds(rxFifo, "setup")
  /\ outPkt # <<>> => Holds(rxFifo, "out")
  /\ pc # "rx" => buf = <<>>

IInv ==
  /\ TypeOK
  /\ StartupOrder
  /\ InterruptToken
  /\ LineIsPending
  /\ FifoContents

-----------------------------------------------------------------------------
(* Lemmas about sequences of numbered bytes *)

(* The n bytes that follow byte k. *)
LEMMA FreshBytes ==
  ASSUME NEW k \in Nat, NEW n \in Nat
  PROVE  /\ [i \in 1..n |-> k + i] \in Seq(Nat)
         /\ Len([i \in 1..n |-> k + i]) = n
         /\ n = 0 => [i \in 1..n |-> k + i] = <<>>
<1> DEFINE s == [i \in 1..n |-> k + i]
<1>1. s \in [1..n -> Nat]
  OBVIOUS
<1>2. s \in Seq(Nat)
  BY <1>1, SeqDef
<1>3. Len(s) = n
  BY <1>2, LenProperties
<1>4. ASSUME n = 0 PROVE s = <<>>
  BY <1>2, <1>3, <1>4, EmptySeq
<1> QED
  BY <1>2, <1>3, <1>4

(* A read that asks for max bytes gets a packet no longer than that whole. *)
LEMMA WholePacket ==
  ASSUME NEW s \in Seq(Nat), NEW max \in Nat, Len(s) <= max
  PROVE  SubSeq(s, 1, IF Len(s) < max THEN Len(s) ELSE max) = s
<1>1. (IF Len(s) < max THEN Len(s) ELSE max) = Len(s)
  BY LenProperties
<1> QED
  BY <1>1, SubSeqFull

(* Taking the first byte of what was read takes it from the whole line. *)
LEMMA HeadTailConcat ==
  ASSUME NEW s \in Seq(Nat), NEW t \in Seq(Nat), s # <<>>
  PROVE  /\ s \o t # <<>>
         /\ Head(s \o t) = Head(s)
         /\ Tail(s \o t) = Tail(s) \o t
<1>1. s \o t \in Seq(Nat) /\ Len(s \o t) = Len(s) + Len(t) /\ Len(s) \in Nat \ {0}
      /\ Len(t) \in Nat
  BY ConcatProperties, EmptySeq, LenProperties
<1>2. s \o t # <<>>
  BY <1>1, EmptySeq
<1>3. Head(s \o t) = Head(s)
  BY <1>1, ConcatProperties
<1>4. /\ Tail(s) \in Seq(Nat) /\ Len(Tail(s)) = Len(s) - 1
      /\ \A i \in 1..Len(Tail(s)) : Tail(s)[i] = s[i + 1]
  BY HeadTailProperties
<1>5. /\ Tail(s \o t) \in Seq(Nat) /\ Len(Tail(s \o t)) = Len(s) + Len(t) - 1
      /\ \A i \in 1..Len(Tail(s \o t)) : Tail(s \o t)[i] = (s \o t)[i + 1]
  BY <1>1, <1>2, HeadTailProperties
<1>6. /\ Tail(s) \o t \in Seq(Nat)
      /\ Len(Tail(s) \o t) = Len(s) + Len(t) - 1
  BY <1>1, <1>4, ConcatProperties
<1>7. ASSUME NEW i \in 1..Len(Tail(s \o t))
      PROVE  Tail(s \o t)[i] = (Tail(s) \o t)[i]
  <2>1. Tail(s \o t)[i] = (s \o t)[i + 1]
    BY <1>5
  <2>2. (s \o t)[i + 1] = IF i + 1 <= Len(s) THEN s[i + 1] ELSE t[i + 1 - Len(s)]
    BY <1>1, <1>5, ConcatProperties
  <2>3. (Tail(s) \o t)[i] =
          IF i <= Len(Tail(s)) THEN Tail(s)[i] ELSE t[i - Len(Tail(s))]
    BY <1>1, <1>4, <1>5, ConcatProperties
  <2> QED
    BY <1>1, <1>4, <1>5, <2>1, <2>2, <2>3
<1>8. Tail(s \o t) = Tail(s) \o t
  BY <1>5, <1>6, <1>7, SeqEqual
<1> QED
  BY <1>2, <1>3, <1>8

(* Concatenation of bytes may be regrouped. *)
LEMMA Regroup ==
  \A r, s, t \in Seq(Nat) : r \o (s \o t) = (r \o s) \o t
<1> TAKE r, s, t \in Seq(Nat)
<1> QED
  BY ConcatAssociative

(* The order of appending and concatenating does not matter. *)
LEMMA AppendLast ==
  \A r, s \in Seq(Nat), b \in Nat : r \o Append(s, b) = Append(r \o s, b)
<1> SUFFICES ASSUME NEW r \in Seq(Nat), NEW s \in Seq(Nat), NEW b \in Nat
             PROVE  r \o Append(s, b) = Append(r \o s, b)
  OBVIOUS
<1>1. r \o s \in Seq(Nat) /\ <<b>> \in Seq(Nat)
  BY ConcatProperties
<1>2. Append(s, b) = s \o <<b>>
  BY AppendIsConcat
<1>3. Append(r \o s, b) = (r \o s) \o <<b>>
  BY <1>1, AppendIsConcat
<1>4. r \o (s \o <<b>>) = (r \o s) \o <<b>>
  BY <1>1, Regroup
<1> QED
  BY <1>2, <1>3, <1>4

(* Moving the head of t to the end of s leaves the two together as they were. *)
LEMMA MoveHead ==
  ASSUME NEW s \in Seq(Nat), NEW t \in Seq(Nat), t # <<>>
  PROVE  Append(s, Head(t)) \o Tail(t) = s \o t
<1>1. Head(t) \in Nat /\ Tail(t) \in Seq(Nat) /\ <<Head(t)>> \in Seq(Nat)
  BY HeadTailProperties
<1>2. Append(s, Head(t)) = s \o <<Head(t)>>
  BY <1>1, AppendIsConcat
<1>3. (s \o <<Head(t)>>) \o Tail(t) = s \o (<<Head(t)>> \o Tail(t))
  BY <1>1, ConcatAssociative
<1>4. <<Head(t)>> \o Tail(t) = t
  <2>1. Len(t) \in Nat \ {0} /\ 1 \in 1..Len(t) /\ Len(t) \in 1..Len(t)
    BY EmptySeq
  <2>2. SubSeq(t, 1, Len(t)) = <<t[1]>> \o SubSeq(t, 1 + 1, Len(t))
    BY <2>1, SubSeqRecursiveFirst
  <2>3. Tail(t) = SubSeq(t, 2, Len(t)) /\ Head(t) = t[1]
    BY TailIsSubSeq
  <2> QED
    BY <2>2, <2>3, SubSeqFull
<1> QED
  BY <1>2, <1>3, <1>4

(* Dropping the head of t from s \o t keeps the rest in order. *)
LEMMA DropHead ==
  ASSUME NEW s \in Seq(Nat), NEW t \in Seq(Nat), t # <<>>, NEW k \in Nat,
         OrderedUpTo(s \o t, k)
  PROVE  OrderedUpTo(s \o Tail(t), k)
<1> DEFINE p == s \o t
           q == s \o Tail(t)
           from(i) == IF i <= Len(s) THEN i ELSE i + 1
<1>1. /\ Tail(t) \in Seq(Nat) /\ Len(Tail(t)) = Len(t) - 1
      /\ \A i \in 1..Len(Tail(t)) : Tail(t)[i] = t[i + 1]
      /\ Len(s) \in Nat /\ Len(t) \in Nat \ {0}
  BY HeadTailProperties, EmptySeq, LenProperties
<1>2. /\ p \in Seq(Nat) /\ Len(p) = Len(s) + Len(t)
      /\ \A i \in 1..Len(s) + Len(t) : p[i] = IF i <= Len(s) THEN s[i] ELSE t[i - Len(s)]
  BY ConcatProperties
<1>3. /\ q \in Seq(Nat) /\ Len(q) = Len(s) + Len(t) - 1
      /\ \A i \in 1..Len(s) + Len(Tail(t)) :
           q[i] = IF i <= Len(s) THEN s[i] ELSE Tail(t)[i - Len(s)]
  BY <1>1, ConcatProperties
<1>4. ASSUME NEW i \in 1..Len(q)
      PROVE  q[i] = p[from(i)] /\ from(i) \in 1..Len(p)
  <2>1. CASE i <= Len(s)
    BY <1>1, <1>2, <1>3, <2>1
  <2>2. CASE ~(i <= Len(s))
    <3>1. i - Len(s) \in 1..Len(Tail(t)) /\ q[i] = Tail(t)[i - Len(s)]
      BY <1>1, <1>3, <2>2
    <3>2. Tail(t)[i - Len(s)] = t[(i - Len(s)) + 1]
      BY <1>1, <3>1
    <3>3. p[i + 1] = t[(i + 1) - Len(s)]
      BY <1>1, <1>2, <1>3, <2>2
    <3>4. (i - Len(s)) + 1 = (i + 1) - Len(s)
      BY <1>1
    <3> QED
      BY <1>1, <1>2, <1>3, <2>2, <3>1, <3>2, <3>3, <3>4
  <2> QED
    BY <2>1, <2>2
<1>5. \A i, j \in 1..Len(q) : i < j => from(i) < from(j)
  BY <1>1, <1>3
<1>6. InOrder(p) /\ \A i \in 1..Len(p) : p[i] <= k
  BY DEF OrderedUpTo
<1> HIDE DEF p, q, from
<1>7. InOrder(q)
  BY <1>4, <1>5, <1>6 DEF InOrder
<1>8. \A i \in 1..Len(q) : q[i] <= k
  BY <1>4, <1>6
<1> QED
  BY <1>7, <1>8 DEF OrderedUpTo, q

(* The bytes the host sends next come after all it has sent. *)
LEMMA AppendFresh ==
  ASSUME NEW s \in Seq(Nat), NEW k \in Nat, NEW n \in Nat, OrderedUpTo(s, k)
  PROVE  OrderedUpTo(s \o [i \in 1..n |-> k + i], k + n)
<1> DEFINE f == [i \in 1..n |-> k + i]
           p == s \o f
<1>1. f \in Seq(Nat) /\ Len(f) = n /\ \A i \in 1..n : f[i] = k + i
  BY FreshBytes
<1>2. Len(s) \in Nat /\ \A i \in 1..Len(s) : s[i] \in Nat
  BY LenProperties, ElementOfSeq
<1> HIDE DEF f
<1>3. /\ Len(p) = Len(s) + n
      /\ \A i \in 1..Len(s) + n : p[i] = IF i <= Len(s) THEN s[i] ELSE f[i - Len(s)]
  BY <1>1, ConcatProperties
<1> HIDE DEF p
<1>4. \A i \in 1..Len(p) : p[i] = IF i <= Len(s) THEN s[i] ELSE k + (i - Len(s))
  BY <1>1, <1>2, <1>3
<1>5. InOrder(p)
  BY <1>2, <1>3, <1>4 DEF OrderedUpTo, InOrder
<1>6. \A i \in 1..Len(p) : p[i] <= k + n
  BY <1>2, <1>3, <1>4 DEF OrderedUpTo
<1> QED
  BY <1>5, <1>6 DEF OrderedUpTo, p, f

-----------------------------------------------------------------------------
(* Lemmas about the sequences of the model *)

(* Taking the oldest transaction from the receive FIFO: setup and OUT
   transactions are held at most once, so the one taken is gone. *)
LEMMA FifoTail ==
  ASSUME NEW fifo \in Transactions, fifo # <<>>
  PROVE  /\ Tail(fifo) \in Transactions
         /\ Head(fifo) \in {"setup", "out"}
         /\ ~Holds(Tail(fifo), Head(fifo))
         /\ \A kind : kind # Head(fifo) =>
              (Holds(Tail(fifo), kind) <=> Holds(fifo, kind))
<1>1. CASE fifo = <<"setup">>
  BY <1>1 DEF Transactions, Holds
<1>2. CASE fifo = <<"out">>
  BY <1>2 DEF Transactions, Holds
<1>3. CASE fifo = <<"setup", "out">>
  BY <1>3 DEF Transactions, Holds
<1>4. CASE fifo = <<"out", "setup">>
  BY <1>4 DEF Transactions, Holds
<1> QED
  BY <1>1, <1>2, <1>3, <1>4 DEF Transactions

(* Adding a transaction to a FIFO that holds one of the other kind. *)
LEMMA AppendSecond ==
  ASSUME NEW a \in {"setup", "out"}, NEW b \in {"setup", "out"}
  PROVE  Append(<<a>>, b) = <<a, b>>
<1> DEFINE K == {"setup", "out"}
<1>1. <<a>> \in Seq(K) /\ <<a, b>> \in Seq(K) /\ Len(<<a>>) = 1 /\ Len(<<a, b>>) = 2
  OBVIOUS
<1>2. /\ Append(<<a>>, b) \in Seq(K)
      /\ Len(Append(<<a>>, b)) = 2
      /\ Append(<<a>>, b)[1] = a
      /\ Append(<<a>>, b)[2] = b
  BY <1>1, AppendProperties
<1> HIDE DEF K
<1>3. \A i \in 1..2 : Append(<<a>>, b)[i] = <<a, b>>[i]
  BY <1>2
<1> QED
  BY <1>1, <1>2, <1>3, SeqEqual

(* Adding a transaction of a kind the FIFO does not hold. *)
LEMMA FifoAppend ==
  ASSUME NEW fifo \in Transactions, NEW kind \in {"setup", "out"},
         ~Holds(fifo, kind)
  PROVE  /\ Append(fifo, kind) \in Transactions
         /\ Append(fifo, kind) # <<>>
         /\ Holds(Append(fifo, kind), kind)
         /\ \A other : other # kind =>
              (Holds(Append(fifo, kind), other) <=> Holds(fifo, other))
<1>1. CASE fifo = <<>>
  BY <1>1 DEF Transactions, Holds
<1>2. ASSUME NEW a \in {"setup", "out"}, fifo = <<a>>
      PROVE  /\ Append(fifo, kind) = <<a, kind>>
             /\ a # kind
             /\ \A other : Holds(<<a>>, other) <=> other = a
             /\ \A other : Holds(<<a, kind>>, other) <=> other \in {a, kind}
  <2>1. Append(fifo, kind) = <<a, kind>>
    BY <1>2, AppendSecond
  <2>2. a # kind
    BY <1>2 DEF Holds
  <2>3. ASSUME NEW other PROVE Holds(<<a>>, other) <=> other = a
    BY DEF Holds
  <2>4. ASSUME NEW other PROVE Holds(<<a, kind>>, other) <=> other \in {a, kind}
    <3> DEFINE p == <<a, kind>>
    <3>1. Len(p) = 2 /\ p[1] = a /\ p[2] = kind
      OBVIOUS
    <3> HIDE DEF p
    <3>2. Holds(p, other) <=> other \in {p[1], p[2]}
      BY <3>1 DEF Holds
    <3> QED
      BY <3>1, <3>2 DEF p
  <2> QED
    BY <2>1, <2>2, <2>3, <2>4
<1>3. CASE fifo \in {<<"setup">>, <<"out">>}
  <2>1. PICK a \in {"setup", "out"} : fifo = <<a>>
    BY <1>3
  <2>2. <<a, kind>> \in Transactions /\ <<a, kind>> # <<>>
    BY <1>2, <2>1 DEF Transactions
  <2> QED
    BY <1>2, <2>1, <2>2
<1>4. CASE fifo \in {<<"setup", "out">>, <<"out", "setup">>}
  <2>1. Holds(fifo, kind)
    BY <1>4 DEF Holds
  <2> QED
    BY <2>1
<1> QED
  BY <1>1, <1>3, <1>4 DEF Transactions


-----------------------------------------------------------------------------
(* Invariance *)

(* The state before the task first runs satisfies the invariant. *)
LEMMA InitIInv == Init => IInv
<1> SUFFICES ASSUME Init PROVE IInv
  OBVIOUS
<1>1. TypeOK
  <2>1. /\ UARTinQ \in Seq(Nat) /\ Len(UARTinQ) <= QueueLength
        /\ outPkt \in Seq(Nat) /\ Len(outPkt) <= wMaxPacketSize
        /\ buf \in Seq(Nat) /\ received \in Seq(Nat)
    BY CdcAcmAssumption, EmptySeq DEF Init, wMaxPacketSize
  <2>2. reply \in [req : Requests \cup {"none"}, ok : BOOLEAN]
    BY DEF Init, NoReply
  <2> QED
    BY <2>1, <2>2 DEF Init, TypeOK, Startup, Transactions
<1>2. ~Holds(rxFifo, "setup")
  BY DEF Init, Holds
<1> QED
  BY <1>1, <1>2 DEF Init, IInv, StartupOrder, InterruptToken, LineIsPending,
     FifoContents, Startup, Serving, InterruptLine

(* Every step of the task, the handler, the shell and the host keeps it. *)
LEMMA NextIInv == IInv /\ [Next]_vars => IInv'
<1> SUFFICES ASSUME IInv, [Next]_vars PROVE IInv'
  OBVIOUS
<1> USE DEF IInv
<1>1. CASE CreateQueue
  BY <1>1 DEF CreateQueue, At, irqVars, usbVars, dataVars, TypeOK, StartupOrder,
     InterruptToken, LineIsPending, FifoContents, InterruptLine, Startup, Serving
<1>2. CASE UsbInit
  BY <1>2 DEF UsbInit, At, irqVars, usbVars, dataVars, TypeOK, StartupOrder,
     InterruptToken, LineIsPending, FifoContents, InterruptLine, Startup, Serving
<1>3. CASE SetDevice
  BY <1>3 DEF SetDevice, At, irqVars, usbVars, dataVars, TypeOK, StartupOrder,
     InterruptToken, LineIsPending, FifoContents, InterruptLine, Startup, Serving
<1>4. CASE CreateSemaphore
  BY <1>4 DEF CreateSemaphore, At, usbVars, dataVars, TypeOK, StartupOrder,
     InterruptToken, LineIsPending, FifoContents, InterruptLine, Startup, Serving
<1>5. CASE DrainSemaphore
  BY <1>5 DEF DrainSemaphore, At, usbVars, dataVars, TypeOK, StartupOrder,
     InterruptToken, LineIsPending, FifoContents, InterruptLine, Startup, Serving
<1>6. CASE FirstEnable
  BY <1>6 DEF FirstEnable, At, usbVars, dataVars, TypeOK, StartupOrder,
     InterruptToken, LineIsPending, FifoContents, InterruptLine, Startup, Serving
<1>7. CASE TakeSemaphore
  BY <1>7 DEF TakeSemaphore, At, usbVars, dataVars, TypeOK, StartupOrder,
     InterruptToken, LineIsPending, FifoContents, InterruptLine, Startup, Serving
<1>8. CASE PollIdle
  BY <1>8 DEF PollIdle, At, irqVars, usbVars, dataVars, TypeOK, StartupOrder,
     InterruptToken, LineIsPending, FifoContents, InterruptLine, Startup, Serving
<1>9. CASE PollSetup
  <2>1. /\ rxFifo' \in Transactions
        /\ ~Holds(rxFifo', "setup")
        /\ Holds(rxFifo', "out") <=> Holds(rxFifo, "out")
    BY <1>9, FifoTail DEF PollSetup, TypeOK
  <2>2. reply' \in [req : Requests \cup {"none"}, ok : BOOLEAN] /\ configured' \in BOOLEAN
    <3>1. ASSUME NEW r \in Requests \cup {"none"}, NEW b \in BOOLEAN
          PROVE  [req |-> r, ok |-> b] \in [req : Requests \cup {"none"}, ok : BOOLEAN]
      OBVIOUS
    <3>2. CASE setup = "set_config"
      BY <1>9, <3>1, <3>2 DEF PollSetup, TypeOK, cdcacm_set_config
    <3>3. CASE setup # "set_config"
      <4> DEFINE accepted == configured /\ cdcacm_control_request(setup)
      <4>1. accepted \in BOOLEAN
        OBVIOUS
      <4>2. reply' = [req |-> setup, ok |-> accepted] /\ configured' = configured
        BY <1>9, <3>3 DEF PollSetup
      <4> HIDE DEF accepted
      <4> QED
        BY <3>1, <4>1, <4>2 DEF TypeOK
    <3> QED
      BY <3>2, <3>3
  <2>3. TypeOK'
    BY <1>9, <2>1, <2>2 DEF PollSetup, At, irqVars, dataVars, TypeOK, Serving
  <2>4. FifoContents'
    BY <1>9, <2>1 DEF PollSetup, At, irqVars, dataVars, FifoContents
  <2>5. StartupOrder' /\ InterruptToken'
    BY <1>9 DEF PollSetup, At, irqVars, dataVars, StartupOrder, InterruptToken,
       Startup, Serving
  <2>6. LineIsPending'
    BY <1>9 DEF PollSetup, irqVars, LineIsPending, InterruptLine
  <2> QED
    BY <2>3, <2>4, <2>5, <2>6
<1>10. CASE PollOut
  <2>1. /\ rxFifo' \in Transactions
        /\ Holds(rxFifo', "setup") <=> Holds(rxFifo, "setup")
    BY <1>10, FifoTail DEF PollOut, TypeOK
  <2>2. buf' \in Seq(Nat)
    BY <1>10, WholePacket, CdcAcmAssumption
    DEF PollOut, TypeOK, ReadLength, wMaxPacketSize
  <2>3. TypeOK'
    BY <1>10, <2>1, <2>2, CdcAcmAssumption, EmptySeq
    DEF PollOut, At, irqVars, TypeOK, Serving, wMaxPacketSize
  <2>4. FifoContents'
    BY <1>10, <2>1 DEF PollOut, At, FifoContents
  <2>5. StartupOrder' /\ InterruptToken'
    BY <1>10 DEF PollOut, At, irqVars, StartupOrder, InterruptToken, Startup, Serving
  <2>6. LineIsPending'
    BY <1>10 DEF PollOut, irqVars, LineIsPending, InterruptLine
  <2> QED
    BY <2>3, <2>4, <2>5, <2>6
<1>11. CASE RxByte
  <2>1. buf' \in Seq(Nat) /\ Head(buf) \in Nat
    BY <1>11, HeadTailProperties DEF RxByte, TypeOK
  <2>2. UARTinQ' \in Seq(Nat) /\ Len(UARTinQ') <= QueueLength
    <3>1. CASE Len(UARTinQ) < QueueLength
      <4>1. UARTinQ' = Append(UARTinQ, Head(buf))
        BY <1>11, <3>1, CdcAcmAssumption DEF RxByte
      <4>2. Append(UARTinQ, Head(buf)) \in Seq(Nat)
            /\ Len(Append(UARTinQ, Head(buf))) = Len(UARTinQ) + 1
        BY <2>1, AppendProperties DEF TypeOK
      <4> QED
        BY <3>1, <4>1, <4>2, LenProperties, CdcAcmAssumption DEF TypeOK
    <3>2. CASE ~(Len(UARTinQ) < QueueLength)
      BY <1>11, <3>2 DEF RxByte, TypeOK
    <3> QED
      BY <3>1, <3>2
  <2>3. TypeOK'
    BY <1>11, <2>1, <2>2 DEF RxByte, irqVars, taskVars, usbVars, TypeOK
  <2>4. FifoContents'
    BY <1>11 DEF RxByte, taskVars, usbVars, FifoContents
  <2>5. StartupOrder' /\ InterruptToken' /\ LineIsPending'
    BY <1>11 DEF RxByte, irqVars, taskVars, usbVars, StartupOrder, InterruptToken,
       LineIsPending, InterruptLine
  <2> QED
    BY <2>3, <2>4, <2>5
<1>12. CASE RxDone
  BY <1>12 DEF RxDone, At, irqVars, usbVars, dataVars, TypeOK, StartupOrder,
     InterruptToken, LineIsPending, FifoContents, InterruptLine, Startup, Serving
<1>13. CASE PollTail
  BY <1>13 DEF PollTail, At, irqVars, dataVars, TypeOK, StartupOrder,
     InterruptToken, LineIsPending, FifoContents, InterruptLine, Startup, Serving
<1>14. CASE EnableIrq
  BY <1>14 DEF EnableIrq, At, usbVars, dataVars, TypeOK, StartupOrder,
     InterruptToken, LineIsPending, FifoContents, InterruptLine, Startup, Serving
<1>15. CASE otg_fs_isr
  BY <1>15 DEF otg_fs_isr, taskVars, usbVars, dataVars, TypeOK, StartupOrder,
     InterruptToken, LineIsPending, FifoContents, InterruptLine, Startup, Serving
<1>16. CASE _read
  <2>1. /\ UARTinQ' \in Seq(Nat) /\ Len(UARTinQ') <= QueueLength
        /\ received' \in Seq(Nat)
    BY <1>16, HeadTailProperties, AppendProperties, LenProperties, CdcAcmAssumption
    DEF _read, TypeOK
  <2>2. TypeOK'
    BY <1>16, <2>1 DEF _read, irqVars, taskVars, usbVars, TypeOK
  <2> QED
    BY <1>16, <2>2 DEF _read, irqVars, taskVars, usbVars, StartupOrder,
       InterruptToken, LineIsPending, FifoContents, InterruptLine
<1>17. ASSUME NEW req \in Requests, HostSetup(req) PROVE IInv'
  <2>1. ~Holds(rxFifo, "setup") /\ req # "none"
    BY <1>17 DEF HostSetup, FifoContents, Requests
  <2>2. /\ rxFifo' \in Transactions
        /\ Holds(rxFifo', "setup")
        /\ Holds(rxFifo', "out") <=> Holds(rxFifo, "out")
    BY <1>17, <2>1, FifoAppend DEF HostSetup, TypeOK
  <2>3. TypeOK'
    BY <1>17, <2>2 DEF HostSetup, taskVars, dataVars, TypeOK, NoReply
  <2>4. FifoContents'
    BY <1>17, <2>1, <2>2 DEF HostSetup, taskVars, dataVars, FifoContents
  <2>5. StartupOrder' /\ InterruptToken' /\ LineIsPending'
    BY <1>17 DEF HostSetup, taskVars, StartupOrder, InterruptToken, LineIsPending
  <2> QED
    BY <2>3, <2>4, <2>5
<1>18. ASSUME NEW n \in 0..wMaxPacketSize, HostOut(n) PROVE IInv'
  <2>1. ~Holds(rxFifo, "out")
    BY <1>18 DEF HostOut, Holds
  <2>2. /\ rxFifo' \in Transactions
        /\ Holds(rxFifo', "out")
        /\ Holds(rxFifo', "setup") <=> Holds(rxFifo, "setup")
    BY <1>18, <2>1, FifoAppend DEF HostOut, TypeOK
  <2>3. n \in Nat /\ n <= wMaxPacketSize
    BY <1>18, CdcAcmAssumption DEF wMaxPacketSize
  <2>4. outPkt' \in Seq(Nat) /\ Len(outPkt') <= wMaxPacketSize /\ sent' \in Nat
    BY <1>18, <2>3, FreshBytes DEF HostOut, TypeOK
  <2>5. TypeOK'
    BY <1>18, <2>2, <2>4 DEF HostOut, taskVars, TypeOK, wMaxPacketSize
  <2>6. FifoContents'
    BY <1>18, <2>2 DEF HostOut, taskVars, FifoContents
  <2>7. StartupOrder' /\ InterruptToken' /\ LineIsPending'
    BY <1>18 DEF HostOut, taskVars, StartupOrder, InterruptToken, LineIsPending
  <2> QED
    BY <2>5, <2>6, <2>7
<1>19. CASE HostTookIn
  BY <1>19 DEF HostTookIn, taskVars, dataVars, TypeOK, StartupOrder,
     InterruptToken, LineIsPending, FifoContents
<1>20. CASE UNCHANGED vars
  BY <1>20 DEF vars, irqVars, taskVars, usbVars, dataVars, TypeOK, StartupOrder,
     InterruptToken, LineIsPending, FifoContents, InterruptLine
<1> QED
  BY <1>1, <1>2, <1>3, <1>4, <1>5, <1>6, <1>7, <1>8, <1>9, <1>10, <1>11, <1>12,
     <1>13, <1>14, <1>15, <1>16, <1>17, <1>18, <1>19, <1>20
  DEF Next, UsbTask, Host

(* So it holds throughout. *)
LEMMA SpecIInv == Spec => []IInv
BY InitIInv, NextIInv, PTL DEF Spec

(* Every variable keeps its type: in particular UARTinQ never holds more than
   QueueLength bytes and a packet is never longer than the receive buffer. *)
THEOREM TypeCorrect == Spec => []TypeOK
<1>1. IInv => TypeOK
  BY DEF IInv
<1> QED
  BY <1>1, SpecIInv, PTL

(* The interrupt, the semaphore and the task hand each other the one right to
   serve the device: otg_fs_isr never gives a semaphore that is NULL or full. *)
THEOREM TokenHeld == Spec => []InterruptToken
<1>1. IInv => InterruptToken
  BY DEF IInv
<1> QED
  BY <1>1, SpecIInv, PTL

(* vUSBCDCACMTask never blocks on usbInterrupted with the device waiting and
   the interrupt unable to wake it. *)
THEOREM WakeupKept == Spec => []NoLostWakeup
<1>1. IInv => NoLostWakeup
  BY DEF IInv, InterruptToken, LineIsPending, NoLostWakeup
<1> QED
  BY <1>1, SpecIInv, PTL

(* UARTinQ is created before anything that sends to it or receives from it. *)
THEOREM QueueCreatedFirst == Spec => []QueueBeforeUse
<1>1. IInv => QueueBeforeUse
  BY DEF IInv, StartupOrder, QueueBeforeUse, Startup
<1> QED
  BY <1>1, SpecIInv, PTL

-----------------------------------------------------------------------------
(* Refinement *)

(* The line and the queue of SerialIn start empty. *)
LEMMA InitRefines == Init => SI!Init
BY EmptySeq, ConcatEmptySeq DEF Init, SI!Init

(* A step that leaves what the shell and the line see is a stutter. *)
LEMMA QuietStep ==
  ASSUME UNCHANGED <<sent, buf, outPkt, UARTinQ, received>>
  PROVE  UNCHANGED SI!vars
BY DEF SI!vars

(* Every step is a step of SerialIn or a stutter. *)
LEMMA StepRefines == IInv /\ [Next]_vars => [SI!Next]_(SI!vars)
<1> SUFFICES ASSUME IInv, [Next]_vars PROVE [SI!Next]_(SI!vars)
  OBVIOUS
<1>1. buf \in Seq(Nat) /\ outPkt \in Seq(Nat) /\ sent \in Nat /\ UARTinQ \in Seq(Nat)
  BY DEF IInv, TypeOK
<1>2. CASE PollOut
  <2>1. buf = <<>> /\ buf' = outPkt /\ outPkt' = <<>>
    BY <1>2, WholePacket, CdcAcmAssumption
    DEF PollOut, At, IInv, TypeOK, FifoContents, ReadLength, wMaxPacketSize
  <2>2. (buf \o outPkt)' = buf \o outPkt
    BY <1>1, <2>1, ConcatEmptySeq
  <2> QED
    BY <1>2, <2>2 DEF PollOut, SI!vars
<1>3. CASE RxByte
  <2>1. /\ buf # <<>>
        /\ buf \o outPkt # <<>>
        /\ Head(buf \o outPkt) = Head(buf)
        /\ (buf \o outPkt)' = Tail(buf \o outPkt)
    BY <1>1, <1>3, HeadTailConcat DEF RxByte, usbVars
  <2>2. UNCHANGED <<sent, received>>
    BY <1>3 DEF RxByte
  <2>3. CASE Len(UARTinQ) < QueueLength /\ UARTinQ' = Append(UARTinQ, Head(buf))
    BY <2>1, <2>2, <2>3 DEF SI!Next, SI!Enqueue
  <2>4. CASE Len(UARTinQ) = QueueLength /\ UNCHANGED UARTinQ
    BY <2>1, <2>2, <2>4 DEF SI!Next, SI!Discard
  <2> QED
    BY <1>3, <2>3, <2>4 DEF RxByte
<1>4. CASE _read
  BY <1>4 DEF _read, usbVars, SI!Next, SI!Receive
<1>5. ASSUME NEW n \in 0..wMaxPacketSize, HostOut(n) PROVE [SI!Next]_(SI!vars)
  <2>1. outPkt = <<>>
    BY <1>5 DEF HostOut, IInv, FifoContents, Holds
  <2>2. n \in Nat /\ n <= MaxPacket
    BY <1>5, CdcAcmAssumption DEF wMaxPacketSize
  <2>3. outPkt' = [i \in 1..n |-> sent + i] /\ sent' = sent + n
        /\ UNCHANGED <<buf, UARTinQ, received>>
    BY <1>5 DEF HostOut
  <2>4. (buf \o outPkt)' = (buf \o outPkt) \o [i \in 1..n |-> sent + i]
    BY <1>1, <2>1, <2>3, ConcatEmptySeq
  <2>5. CASE n = 0
    BY <1>1, <2>1, <2>2, <2>3, <2>5, FreshBytes DEF SI!vars
  <2>6. CASE n # 0
    BY <2>2, <2>3, <2>4, <2>6 DEF SI!Next, SI!Send
  <2> QED
    BY <2>5, <2>6
<1>6. CASE ~(PollOut \/ RxByte \/ _read \/ \E n \in 0..wMaxPacketSize : HostOut(n))
  <2>1. UNCHANGED <<sent, buf, outPkt, UARTinQ, received>>
    BY <1>6 DEF Next, UsbTask, Host, CreateQueue, UsbInit, SetDevice,
       CreateSemaphore, DrainSemaphore, FirstEnable, TakeSemaphore, PollIdle,
       PollSetup, RxDone, PollTail, EnableIrq, otg_fs_isr, HostSetup, HostTookIn,
       usbVars, dataVars, vars
  <2> QED
    BY <2>1, QuietStep
<1> QED
  BY <1>2, <1>3, <1>4, <1>5, <1>6

(* The receive path of the USB task is the lossy FIFO of SerialIn: no byte is
   duplicated, reordered or invented, and one is lost only to a full queue. *)
THEOREM RefinesSerialIn == Spec => SI!Spec
<1>1. Init => SI!Init
  BY InitRefines
<1>2. IInv /\ [Next]_vars => [SI!Next]_(SI!vars)
  BY StepRefines
<1> QED
  BY <1>1, <1>2, SpecIInv, PTL DEF Spec, SI!Spec

-----------------------------------------------------------------------------
(* Order *)

Path == (received \o UARTinQ) \o (buf \o outPkt)

PathInOrder == OrderedUpTo(Path, sent)

(* At the start there is nothing on the path. *)
LEMMA InitPathInOrder == Init => PathInOrder
BY EmptySeq, ConcatEmptySeq DEF Init, PathInOrder, Path, OrderedUpTo, InOrder

(* It is enough that every step is one of SerialIn's. *)
LEMMA StepPathInOrder ==
  IInv /\ IInv' /\ PathInOrder /\ [SI!Next]_(SI!vars) => PathInOrder'
<1> SUFFICES ASSUME IInv, IInv', PathInOrder, [SI!Next]_(SI!vars)
             PROVE  PathInOrder'
  OBVIOUS
<1> DEFINE line == buf \o outPkt
<1>1. /\ received \in Seq(Nat) /\ UARTinQ \in Seq(Nat) /\ sent \in Nat
      /\ buf \in Seq(Nat) /\ outPkt \in Seq(Nat)
  BY DEF IInv, TypeOK
<1>2. line \in Seq(Nat) /\ received \o UARTinQ \in Seq(Nat)
  BY <1>1, ConcatProperties
<1>3. ASSUME NEW n \in 1..MaxPacket, SI!Send(n) PROVE PathInOrder'
  <2> DEFINE fresh == [i \in 1..n |-> sent + i]
  <2>1. n \in Nat /\ fresh \in Seq(Nat)
    BY <1>1, FreshBytes, CdcAcmAssumption
  <2>2. Path' = (received \o UARTinQ) \o (line \o fresh) /\ sent' = sent + n
    BY <1>3 DEF SI!Send, Path
  <2>3. Path' = Path \o fresh
    <3> DEFINE read == received \o UARTinQ
    <3>0. read \in Seq(Nat) /\ line \in Seq(Nat) /\ fresh \in Seq(Nat)
      BY <1>2, <2>1
    <3> HIDE DEF read, line, fresh
    <3>1. read \o (line \o fresh) = (read \o line) \o fresh
      BY <3>0, Regroup
    <3> QED
      BY <2>2, <3>1 DEF Path, read, line
  <2>4. OrderedUpTo(Path \o fresh, sent + n)
    <3>1. Path \in Seq(Nat)
      BY <1>2, ConcatProperties DEF Path
    <3> HIDE DEF fresh
    <3>2. OrderedUpTo(Path \o [i \in 1..n |-> sent + i], sent + n)
      BY <1>1, <2>1, <3>1, AppendFresh DEF PathInOrder
    <3> QED
      BY <3>2 DEF fresh
  <2> QED
    BY <2>2, <2>3, <2>4 DEF PathInOrder
<1>4. CASE SI!Enqueue
  <2>1. /\ line # <<>> /\ line' = Tail(line) /\ UARTinQ' = Append(UARTinQ, Head(line))
        /\ received' = received /\ sent' = sent
    BY <1>4 DEF SI!Enqueue
  <2> HIDE DEF line
  <2>2. Head(line) \in Nat /\ <<Head(line)>> \in Seq(Nat)
    BY <1>2, <2>1, HeadTailProperties
  <2>3. received \o Append(UARTinQ, Head(line)) = Append(received \o UARTinQ, Head(line))
    BY <1>1, <2>2, AppendLast
  <2>4. Path' = Append(received \o UARTinQ, Head(line)) \o Tail(line)
    BY <2>1, <2>3 DEF Path, line
  <2>5. Path' = Path
    BY <1>2, <2>1, <2>4, MoveHead DEF Path, line
  <2> QED
    BY <2>1, <2>5 DEF PathInOrder
<1>5. CASE SI!Discard
  <2>1. /\ line # <<>> /\ line' = Tail(line)
        /\ UNCHANGED <<sent, UARTinQ, received>>
    BY <1>5 DEF SI!Discard
  <2>2. Path' = (received \o UARTinQ) \o Tail(line)
    BY <2>1 DEF Path
  <2>3. OrderedUpTo((received \o UARTinQ) \o Tail(line), sent)
    BY <1>1, <1>2, <2>1, DropHead DEF PathInOrder, Path
  <2> QED
    BY <2>1, <2>2, <2>3 DEF PathInOrder
<1>6. CASE SI!Receive
  <2>1. /\ UARTinQ # <<>> /\ UARTinQ' = Tail(UARTinQ)
        /\ received' = Append(received, Head(UARTinQ))
        /\ line' = line /\ sent' = sent
    BY <1>6 DEF SI!Receive
  <2>2. (received \o UARTinQ)' = received \o UARTinQ
    BY <1>1, <2>1, MoveHead
  <2> QED
    BY <2>1, <2>2 DEF PathInOrder, Path
<1>7. CASE UNCHANGED SI!vars
  BY <1>7 DEF SI!vars, PathInOrder, Path
<1> QED
  BY <1>3, <1>4, <1>5, <1>6, <1>7 DEF SI!Next

(* What the shell reads, and all that is still on its way, is in the order the
   host sent it and holds no byte twice. *)
THEOREM OrderKept == Spec => []BytesInOrder
<1>1. IInv /\ PathInOrder => BytesInOrder
  <2> SUFFICES ASSUME IInv, PathInOrder PROVE BytesInOrder
    OBVIOUS
  <2>1. /\ received \in Seq(Nat) /\ UARTinQ \in Seq(Nat)
        /\ buf \in Seq(Nat) /\ outPkt \in Seq(Nat)
    BY DEF IInv, TypeOK
  <2>2. received \o UARTinQ \in Seq(Nat)
    BY <2>1, ConcatProperties
  <2>3. ((received \o UARTinQ) \o buf) \o outPkt = Path
    <3> DEFINE read == received \o UARTinQ
    <3>1. read \in Seq(Nat)
      BY <2>2
    <3> HIDE DEF read
    <3>2. read \o (buf \o outPkt) = (read \o buf) \o outPkt
      BY <2>1, <3>1, Regroup
    <3> QED
      BY <3>2 DEF Path, read
  <2> QED
    BY <2>3 DEF PathInOrder, OrderedUpTo, BytesInOrder
<1>2. IInv /\ IInv' /\ PathInOrder /\ [Next]_vars => PathInOrder'
  BY StepRefines, StepPathInOrder
<1> QED
  BY <1>1, <1>2, InitPathInOrder, SpecIInv, PTL DEF Spec

-----------------------------------------------------------------------------
(* The control line *)

(* Only a configured device is asked for anything but its configuration. *)
LineInv ==
  /\ setup \notin {"none", "set_config"} => configured
  /\ LineStateAccepted

LEMMA InitLineInv == Init => LineInv
BY DEF Init, LineInv, LineStateAccepted, NoReply

LEMMA NextLineInv == LineInv /\ [Next]_vars => LineInv'
<1> SUFFICES ASSUME LineInv, [Next]_vars PROVE LineInv'
  OBVIOUS
<1> USE DEF LineInv, LineStateAccepted
<1>1. CASE PollSetup
  <2>1. CASE setup = "set_config"
    BY <1>1, <2>1 DEF PollSetup
  <2>2. CASE setup # "set_config"
    <3>1. configured' = configured /\ setup' = "none"
          /\ reply' = [req |-> setup,
                       ok |-> configured /\ cdcacm_control_request(setup)]
      BY <1>1, <2>2 DEF PollSetup
    <3>2. setup = "line_state" => configured /\ cdcacm_control_request(setup)
      BY DEF cdcacm_control_request
    <3>3. reply'.req = setup
          /\ reply'.ok = (configured /\ cdcacm_control_request(setup))
      BY <3>1
    <3> QED
      BY <3>1, <3>2, <3>3
  <2> QED
    BY <2>1, <2>2
<1>2. ASSUME NEW req \in Requests, HostSetup(req) PROVE LineInv'
  <2>1. setup' = req /\ (req # "set_config" => configured)
        /\ reply' = NoReply /\ configured' = configured
    BY <1>2 DEF HostSetup, taskVars
  <2>2. reply'.req # "line_state"
    BY <2>1 DEF NoReply
  <2> QED
    BY <2>1, <2>2
<1>3. CASE ~(PollSetup \/ \E req \in Requests : HostSetup(req))
  <2>1. UNCHANGED <<setup, reply, configured>>
    BY <1>3 DEF Next, UsbTask, Host, CreateQueue, UsbInit, SetDevice,
       CreateSemaphore, DrainSemaphore, FirstEnable, TakeSemaphore, PollIdle,
       PollOut, RxByte, RxDone, PollTail, EnableIrq, otg_fs_isr, HostOut,
       HostTookIn, _read, usbVars, taskVars, vars
  <2> QED
    BY <2>1
<1> QED
  BY <1>1, <1>2, <1>3

(* SET_CONTROL_LINE_STATE, which the Linux driver insists on, is acknowledged
   whenever the host sends it. *)
THEOREM LineStateKept == Spec => []LineStateAccepted
<1>1. LineInv => LineStateAccepted
  BY DEF LineInv
<1> QED
  BY <1>1, InitLineInv, NextLineInv, PTL DEF Spec
=============================================================================
