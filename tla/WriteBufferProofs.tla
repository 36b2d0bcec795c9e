-------------------------- MODULE WriteBufferProofs --------------------------
(***************************************************************************)
(* Proofs about WriteBuffer, for every buffer size and every text written. *)
(***************************************************************************)
EXTENDS WriteBuffer, SequenceTheorems, TLAPS

-----------------------------------------------------------------------------
(* The inductive invariant *)

(* There is one run of characters in the buffer and it starts at 0, because
   sendPacket resets both pointers and nothing else moves rPtr. *)
RingShape == ringBuffer.rPtr = 0 /\ ringBuffer.wPtr = ringBuffer.size

FreeIsEmpty == ~epBusy => epPacket = <<>>

(* Everything handed to the endpoint is older than everything buffered. *)
HandedOver == OrderedUpTo(hostGot \o epPacket, written - ringBuffer.size)

LossLaw == \E k \in Nat : Lost = k * BUFFER_SIZE

IInv ==
  /\ TypeOK
  /\ RingShape
  /\ HoldsNewest
  /\ FreeIsEmpty
  /\ ringBuffer.size <= written
  /\ HandedOver
  /\ LossLaw

-----------------------------------------------------------------------------
(* Sequences of numbered bytes *)

(* The n bytes that follow byte k. *)
LEMMA FreshBytes ==
  ASSUME NEW k \in Nat, NEW n \in Nat
  PROVE  /\ [i \in 1..n |-> k + i] \in Seq(Nat)
         /\ Len([i \in 1..n |-> k + i]) = n
         /\ n = 0 => [i \in 1..n |-> k + i] = <<>>
<1> DEFINE s == [i \in 1..n |-> k + i]
<1>1. s \in [1..n -> Nat]
  OBVIOUS
<1>2. s \in Seq(Nat)
  BY <1>1, SeqDef
<1>3. Len(s) = n
  BY <1>2, LenProperties
<1>4. ASSUME n = 0 PROVE s = <<>>
  BY <1>2, <1>3, <1>4, EmptySeq
<1> QED
  BY <1>2, <1>3, <1>4

(* Bytes numbered on come after all that are there. *)
LEMMA AppendFresh ==
  ASSUME NEW s \in Seq(Nat), NEW k \in Nat, NEW n \in Nat, OrderedUpTo(s, k)
  PROVE  OrderedUpTo(s \o [i \in 1..n |-> k + i], k + n)
<1> DEFINE f == [i \in 1..n |-> k + i]
           p == s \o f
<1>1. f \in Seq(Nat) /\ Len(f) = n /\ \A i \in 1..n : f[i] = k + i
  BY FreshBytes
<1>2. Len(s) \in Nat /\ \A i \in 1..Len(s) : s[i] \in Nat
  BY LenProperties, ElementOfSeq
<1> HIDE DEF f
<1>3. /\ Len(p) = Len(s) + n
      /\ \A i \in 1..Len(s) + n : p[i] = IF i <= Len(s) THEN s[i] ELSE f[i - Len(s)]
  BY <1>1, ConcatProperties
<1> HIDE DEF p
<1>4. \A i \in 1..Len(p) : p[i] = IF i <= Len(s) THEN s[i] ELSE k + (i - Len(s))
  BY <1>1, <1>2, <1>3
<1>5. InOrder(p)
  BY <1>2, <1>3, <1>4 DEF OrderedUpTo, InOrder
<1>6. \A i \in 1..Len(p) : p[i] <= k + n
  BY <1>2, <1>3, <1>4 DEF OrderedUpTo
<1> QED
  BY <1>5, <1>6 DEF OrderedUpTo, p, f

-----------------------------------------------------------------------------
(* Arithmetic *)

(* The increment of a pointer or size either adds one or wraps to zero. *)
LEMMA Increment ==
  ASSUME NEW m \in Nat \ {0}, NEW n \in 0..m - 1
  PROVE  (n + 1) % m = IF n + 1 = m THEN 0 ELSE n + 1
OBVIOUS

(* One more buffer lost. *)
LEMMA OneMore ==
  ASSUME NEW k \in Nat, NEW m \in Nat
  PROVE  (k + 1) * m = k * m + m /\ k + 1 \in Nat
OBVIOUS

(* At least as many characters are lost as buffers. *)
LEMMA Multiple ==
  ASSUME NEW k \in Nat, NEW m \in Nat \ {0}
  PROVE  k <= k * m
OBVIOUS

-----------------------------------------------------------------------------
(* The ring buffer *)

(* What enq does to a buffer of the right shape: the size of BUFFER_SIZE that
   _write tests for does not occur, and the last place wraps to an empty one. *)
LEMMA Enqueued ==
  ASSUME TypeOK, RingShape, NEW ch \in Nat, NEW rb, rb = enq(ringBuffer, ch)
  PROVE  /\ rb \in [buffer : [0..BUFFER_SIZE - 1 -> Nat],
                    rPtr : 0..BUFFER_SIZE - 1,
                    wPtr : 0..BUFFER_SIZE - 1,
                    size : 0..BUFFER_SIZE - 1]
         /\ rb.rPtr = 0 /\ rb.wPtr = rb.size
         /\ rb.size # BUFFER_SIZE
         /\ rb.size = IF ringBuffer.size + 1 = BUFFER_SIZE THEN 0
                      ELSE ringBuffer.size + 1
         /\ rb.buffer = [ringBuffer.buffer EXCEPT ![ringBuffer.size] = ch]
<1> DEFINE s == ringBuffer.size
           next == (s + 1) % BUFFER_SIZE
<1>1. s \in 0..BUFFER_SIZE - 1 /\ ringBuffer.wPtr = s /\ ringBuffer.rPtr = 0
  BY DEF TypeOK, RingShape
<1>2. next = (IF s + 1 = BUFFER_SIZE THEN 0 ELSE s + 1)
      /\ next \in 0..BUFFER_SIZE - 1 /\ next # BUFFER_SIZE
  BY <1>1, Increment, WriteBufferAssumption
<1>3. [ringBuffer.buffer EXCEPT ![s] = ch] \in [0..BUFFER_SIZE - 1 -> Nat]
  BY <1>1 DEF TypeOK
<1>4. enq(ringBuffer, ch) = [buffer |-> [ringBuffer.buffer EXCEPT ![s] = ch],
                             rPtr |-> 0, wPtr |-> next, size |-> next]
  BY <1>1 DEF enq
<1>5. 0 \in 0..BUFFER_SIZE - 1
  BY WriteBufferAssumption
<1> HIDE DEF s, next
<1>6. enq(ringBuffer, ch) \in [buffer : [0..BUFFER_SIZE - 1 -> Nat],
                              rPtr : 0..BUFFER_SIZE - 1,
                              wPtr : 0..BUFFER_SIZE - 1,
                              size : 0..BUFFER_SIZE - 1]
  BY <1>2, <1>3, <1>4, <1>5
<1> QED
  BY <1>2, <1>4, <1>6 DEF s

(* The packet made of a buffer that holds the newest characters. *)
LEMMA PacketContents ==
  ASSUME IInv
  PROVE  /\ Contents(ringBuffer) =
              [i \in 1..ringBuffer.size |-> (written - ringBuffer.size) + i]
         /\ Contents(ringBuffer) \in Seq(Nat)
         /\ Len(Contents(ringBuffer)) = ringBuffer.size
<1> DEFINE s == ringBuffer.size
<1>1. s \in Nat /\ written - s \in Nat
  BY WriteBufferAssumption DEF IInv, TypeOK
<1>2. \A i \in 1..s : ringBuffer.buffer[ringBuffer.rPtr + i - 1] = (written - s) + i
  BY DEF IInv, HoldsNewest
<1>3. Contents(ringBuffer) = [i \in 1..s |-> (written - s) + i]
  BY <1>2 DEF Contents
<1> QED
  BY <1>1, <1>3, FreshBytes

-----------------------------------------------------------------------------
(* Invariance *)

(* The initial state satisfies the invariant. *)
LEMMA InitIInv == Init => IInv
<1> SUFFICES ASSUME Init PROVE IInv
  OBVIOUS
<1>1. TypeOK
  <2>1. EmptyRing \in [buffer : [0..BUFFER_SIZE - 1 -> Nat],
                       rPtr : 0..BUFFER_SIZE - 1,
                       wPtr : 0..BUFFER_SIZE - 1,
                       size : 0..BUFFER_SIZE - 1]
    BY WriteBufferAssumption DEF EmptyRing, NoChar
  <2> QED
    BY <2>1, EmptySeq DEF Init, TypeOK
<1>2. RingShape /\ HoldsNewest /\ FreeIsEmpty /\ ringBuffer.size <= written
  BY WriteBufferAssumption DEF Init, RingShape, HoldsNewest, FreeIsEmpty, EmptyRing
<1>3. HandedOver
  BY EmptySeq, ConcatEmptySeq DEF Init, HandedOver, OrderedUpTo, InOrder, EmptyRing
<1>4. Lost = 0
  BY EmptySeq DEF Init, Lost, EmptyRing
<1>5. LossLaw
  BY <1>4, WriteBufferAssumption DEF LossLaw
<1> QED
  BY <1>1, <1>2, <1>3, <1>5 DEF IInv

(* Putting one character keeps the part of the invariant it touches. *)
LEMMA PutKeeps ==
  ASSUME IInv, Put, UNCHANGED hostGot, text' \in Seq(STRING), afterCR' \in BOOLEAN,
         inCall' \in BOOLEAN
  PROVE  IInv'
<1> DEFINE rb == enq(ringBuffer, written + 1)
           b == ringBuffer.buffer
           s == ringBuffer.size
           n == rb.size
           atHost == Len(hostGot) + Len(epPacket)
<1>1. written \in Nat /\ s \in 0..BUFFER_SIZE - 1 /\ s <= written
      /\ BUFFER_SIZE \in Nat \ {0}
  BY WriteBufferAssumption DEF IInv, TypeOK
<1>2. b \in [0..BUFFER_SIZE - 1 -> Nat]
  BY DEF IInv, TypeOK
<1>3. hostGot \in Seq(Nat) /\ epPacket \in Seq(Nat) /\ atHost \in Nat
  BY LenProperties DEF IInv, TypeOK
<1>4. written + 1 \in Nat /\ TypeOK /\ RingShape
  BY <1>1 DEF IInv
<1>5. rb \in [buffer : [0..BUFFER_SIZE - 1 -> Nat], rPtr : 0..BUFFER_SIZE - 1,
             wPtr : 0..BUFFER_SIZE - 1, size : 0..BUFFER_SIZE - 1]
  BY <1>4, Enqueued
<1>6. rb.rPtr = 0 /\ rb.wPtr = rb.size /\ rb.buffer = [b EXCEPT ![s] = written + 1]
  BY <1>4, Enqueued
<1>7. n = (IF s + 1 = BUFFER_SIZE THEN 0 ELSE s + 1) /\ n # BUFFER_SIZE
  BY <1>4, Enqueued
<1>8. ringBuffer' = rb /\ written' = written + 1 /\ UNCHANGED usbVars
  BY <1>7 DEF Put
<1>9. s' = n /\ hostGot' = hostGot /\ epPacket' = epPacket /\ atHost' = atHost
  BY <1>8 DEF usbVars
<1> HIDE DEF rb
<1>10. TypeOK'
  <2>1. ringBuffer' \in [buffer : [0..BUFFER_SIZE - 1 -> Nat],
                         rPtr : 0..BUFFER_SIZE - 1,
                         wPtr : 0..BUFFER_SIZE - 1,
                         size : 0..BUFFER_SIZE - 1]
    BY <1>5, <1>8
  <2>2. written' \in Nat
    BY <1>4, <1>8
  <2> QED
    BY <1>8, <2>1, <2>2 DEF IInv, TypeOK, usbVars
<1>11. RingShape' /\ FreeIsEmpty'
  BY <1>6, <1>8 DEF IInv, RingShape, FreeIsEmpty, usbVars
<1>12. rb.rPtr + n <= BUFFER_SIZE /\ n <= written + 1
  <2> HIDE DEF n, s
  <2> QED
    BY <1>1, <1>6, <1>7
<1>13. ASSUME NEW i \in 1..n
       PROVE  rb.buffer[rb.rPtr + i - 1] = (written + 1) - n + i
  <2>1. rb.rPtr + i - 1 = i - 1
    BY <1>6
  <2>2. n = s + 1 /\ i \in 1..s + 1 /\ s + 1 # BUFFER_SIZE
    <3> HIDE DEF n, s
    <3> QED
      BY <1>1, <1>7
  <2>3. CASE i = s + 1
    <3>1. rb.buffer[s] = written + 1
      <4> HIDE DEF b, s
      <4> QED
        BY <1>1, <1>2, <1>6
    <3>2. i - 1 = s /\ (written + 1) - n + i = written + 1
      <4> HIDE DEF n, s
      <4> QED
        BY <1>1, <2>2, <2>3
    <3> QED
      BY <2>1, <3>1, <3>2
  <2>4. CASE i # s + 1
    <3>1. i \in 1..s /\ i - 1 \in 0..BUFFER_SIZE - 1 /\ i - 1 # s
          /\ (written + 1) - n + i = written - s + i
      <4> HIDE DEF n, s
      <4> QED
        BY <1>1, <2>2, <2>4
    <3>2. b[ringBuffer.rPtr + i - 1] = written - s + i
      BY <3>1 DEF IInv, HoldsNewest
    <3>3. ringBuffer.rPtr + i - 1 = i - 1
      BY DEF IInv, RingShape
    <3>4. rb.buffer[i - 1] = b[i - 1]
      <4> HIDE DEF b, s
      <4> QED
        BY <1>2, <1>6, <3>1
    <3> QED
      BY <2>1, <3>1, <3>2, <3>3, <3>4
  <2> QED
    BY <2>3, <2>4
<1>14. HoldsNewest' /\ (ringBuffer.size <= written)'
  BY <1>8, <1>12, <1>13 DEF HoldsNewest
<1>15. HandedOver'
  <2> DEFINE p == hostGot \o epPacket
             old == written - s
             new == (written + 1) - n
  <2>1. p \in Seq(Nat) /\ \A i \in 1..Len(p) : p[i] \in Nat
    BY <1>3, ConcatProperties, ElementOfSeq
  <2>2. old \in Nat /\ new \in Nat /\ old <= new
    <3> HIDE DEF n, s
    <3> QED
      BY <1>1, <1>7
  <2>3. OrderedUpTo(p, old)
    BY DEF IInv, HandedOver
  <2> HIDE DEF p, old, new
  <2>4. OrderedUpTo(p, new)
    BY <2>1, <2>2, <2>3 DEF OrderedUpTo
  <2> QED
    BY <1>8, <1>9, <2>4 DEF HandedOver, p, new
<1>16. LossLaw'
  <2>1. PICK k \in Nat : Lost = k * BUFFER_SIZE
    BY DEF IInv, LossLaw
  <2>2. Lost = written - (atHost + s) /\ Lost' = (written + 1) - (atHost + n)
    BY <1>8, <1>9 DEF Lost
  <2> HIDE DEF n, s, atHost
  <2>3. CASE s + 1 = BUFFER_SIZE
    <3>1. Lost' = k * BUFFER_SIZE + BUFFER_SIZE
      BY <1>1, <1>3, <1>7, <2>1, <2>2, <2>3
    <3>2. Lost' = (k + 1) * BUFFER_SIZE /\ k + 1 \in Nat
      BY <1>1, <3>1, OneMore
    <3> QED
      BY <3>2 DEF LossLaw
  <2>4. CASE s + 1 # BUFFER_SIZE
    <3>1. Lost' = Lost
      BY <1>1, <1>3, <1>7, <2>2, <2>4
    <3> QED
      BY <2>1, <3>1 DEF LossLaw
  <2> QED
    BY <2>3, <2>4
<1> QED
  BY <1>10, <1>11, <1>14, <1>15, <1>16 DEF IInv

(* Handing the buffer to the endpoint, or having it refused, keeps the
   invariant. *)
LEMMA SendKeeps ==
  ASSUME IInv, sendPacket(ringBuffer), UNCHANGED <<hostGot, written>>,
         UNCHANGED <<text, afterCR>>, inCall' \in BOOLEAN
  PROVE  IInv'
<1> DEFINE s == ringBuffer.size
           packet == Contents(ringBuffer)
<1>1. /\ written \in Nat /\ s \in Nat /\ s <= written
      /\ hostGot \in Seq(Nat) /\ 0 \in 0..BUFFER_SIZE - 1
  BY WriteBufferAssumption DEF IInv, TypeOK
<1>2. CASE epBusy
  <2>1. UNCHANGED <<ringBuffer, epBusy, epPacket>>
    BY <1>2 DEF sendPacket, usbVars
  <2> QED
    BY <2>1 DEF IInv, TypeOK, RingShape, HoldsNewest, FreeIsEmpty, HandedOver,
       LossLaw, Lost
<1>3. CASE ~epBusy
  <2>1. epBusy' = TRUE /\ epPacket' = packet /\ epPacket = <<>>
    BY <1>3 DEF sendPacket, IInv, FreeIsEmpty
  <2>2. /\ packet = [i \in 1..s |-> (written - s) + i]
        /\ packet \in Seq(Nat) /\ Len(packet) = s
    BY PacketContents
  <2>3. /\ ringBuffer' = [ringBuffer EXCEPT !.rPtr = 0, !.wPtr = 0, !.size = 0]
        /\ ringBuffer' \in [buffer : [0..BUFFER_SIZE - 1 -> Nat],
                            rPtr : 0..BUFFER_SIZE - 1,
                            wPtr : 0..BUFFER_SIZE - 1,
                            size : 0..BUFFER_SIZE - 1]
        /\ s' = 0
    <3>1. CASE s # 0
      BY <1>1, <1>3, <3>1 DEF sendPacket, IInv, TypeOK
    <3>2. CASE s = 0
      <4>1. ringBuffer' = ringBuffer
        BY <1>3, <3>2 DEF sendPacket
      <4>2. ringBuffer.rPtr = 0 /\ ringBuffer.wPtr = 0
        BY <3>2 DEF IInv, RingShape
      <4> QED
        BY <1>1, <3>2, <4>1, <4>2 DEF IInv, TypeOK
    <3> QED
      BY <3>1, <3>2
  <2>4. TypeOK'
    BY <2>1, <2>2, <2>3 DEF IInv, TypeOK
  <2>5. RingShape' /\ HoldsNewest' /\ FreeIsEmpty' /\ (ringBuffer.size <= written)'
    BY <1>1, <2>1, <2>3, WriteBufferAssumption
    DEF IInv, TypeOK, RingShape, HoldsNewest, FreeIsEmpty
  <2>6. HandedOver'
    <3>1. OrderedUpTo(hostGot, written - s)
      BY <1>1, <2>1, ConcatEmptySeq DEF IInv, HandedOver
    <3>2. written - s \in Nat /\ (written - s) + s = written /\ written - 0 = written
      BY <1>1
    <3>3. OrderedUpTo(hostGot \o [i \in 1..s |-> (written - s) + i], (written - s) + s)
      <4> HIDE DEF s
      <4> QED
        BY <1>1, <3>1, <3>2, AppendFresh
    <3> HIDE DEF packet
    <3> QED
      BY <2>1, <2>2, <2>3, <3>2, <3>3 DEF HandedOver
  <2>7. Lost' = Lost
    <3>1. Len(epPacket) = 0 /\ Len(epPacket') = s /\ Len(hostGot) \in Nat
      BY <1>1, <2>1, <2>2, EmptySeq, LenProperties
    <3> HIDE DEF s
    <3> QED
      BY <1>1, <2>3, <3>1 DEF Lost, s
  <2>8. LossLaw'
    BY <2>7 DEF IInv, LossLaw
  <2> QED
    BY <2>4, <2>5, <2>6, <2>8 DEF IInv
<1> QED
  BY <1>2, <1>3

(* Every step of the writer and of the host keeps the invariant. *)
LEMMA NextIInv == IInv /\ [Next]_vars => IInv'
<1> SUFFICES ASSUME IInv, [Next]_vars PROVE IInv'
  OBVIOUS
<1>1. ASSUME NEW t \in Texts, CallWrite(t) PROVE IInv'
  <2>1. t \in Seq(STRING)
    BY WriteBufferAssumption
  <2> QED
    BY <1>1, <2>1 DEF CallWrite, usbVars, IInv, TypeOK, RingShape, HoldsNewest,
       FreeIsEmpty, HandedOver, LossLaw, Lost
<1>2. CASE PutCR
  BY <1>2, PutKeeps DEF PutCR, IInv, TypeOK
<1>3. CASE PutChar
  <2>1. text' \in Seq(STRING)
    BY <1>3, HeadTailProperties DEF PutChar, IInv, TypeOK
  <2> QED
    BY <1>3, <2>1, PutKeeps DEF PutChar, IInv, TypeOK
<1>4. CASE FinalSend
  BY <1>4, SendKeeps DEF FinalSend
<1>5. CASE HostCollect
  <2>1. hostGot \in Seq(Nat) /\ epPacket \in Seq(Nat) /\ epPacket' = <<>>
        /\ hostGot' = hostGot \o epPacket /\ epBusy' = FALSE
        /\ UNCHANGED <<ringBuffer, text, afterCR, inCall, written>>
    BY <1>5 DEF HostCollect, callVars, IInv, TypeOK
  <2>2. hostGot' \in Seq(Nat) /\ hostGot' \o epPacket' = hostGot \o epPacket
    BY <2>1, ConcatProperties, ConcatEmptySeq
  <2>3. Len(hostGot') = Len(hostGot) + Len(epPacket) /\ Len(epPacket') = 0
        /\ Len(hostGot) \in Nat /\ Len(epPacket) \in Nat
    BY <2>1, ConcatProperties, EmptySeq, LenProperties
  <2>4. Lost' = Lost
    BY <2>1, <2>3 DEF Lost
  <2>5. TypeOK' /\ FreeIsEmpty'
    BY <2>1, <2>2, EmptySeq DEF IInv, TypeOK, FreeIsEmpty
  <2>6. HandedOver'
    BY <2>1, <2>2 DEF IInv, HandedOver
  <2>7. LossLaw'
    BY <2>1, <2>4 DEF IInv, LossLaw
  <2> QED
    BY <2>1, <2>5, <2>6, <2>7 DEF IInv, RingShape, HoldsNewest
<1>6. CASE UNCHANGED vars
  BY <1>6 DEF vars, callVars, usbVars, IInv, TypeOK, RingShape, HoldsNewest,
     FreeIsEmpty, HandedOver, LossLaw, Lost
<1> QED
  BY <1>1, <1>2, <1>3, <1>4, <1>5, <1>6 DEF Next, _write

(* So the invariant holds throughout. *)
LEMMA SpecIInv == Spec => []IInv
BY InitIInv, NextIInv, PTL DEF Spec

(* The pointers and the size of the ring buffer stay inside the array, and the
   size never becomes the BUFFER_SIZE that _write waits for. *)
THEOREM TypeCorrect == Spec => []TypeOK
<1>1. IInv => TypeOK
  BY DEF IInv
<1> QED
  BY <1>1, SpecIInv, PTL

(* sendPacket hands over the newest characters, from inside the array. *)
THEOREM NewestHeld == Spec => []HoldsNewest
<1>1. IInv => HoldsNewest
  BY DEF IInv
<1> QED
  BY <1>1, SpecIInv, PTL

(* The host gets characters in the order of _write, none twice. *)
THEOREM OrderKept == Spec => []HostInOrder
<1>1. IInv => HostInOrder
  BY DEF IInv, HandedOver, OrderedUpTo, HostInOrder
<1> QED
  BY <1>1, SpecIInv, PTL

(* Output is lost by the whole buffer or not at all. *)
THEOREM LossIsWhole == Spec => []LossInWholeBuffers
<1>1. ASSUME IInv PROVE LossInWholeBuffers
  <2>1. PICK k \in Nat : Lost = k * BUFFER_SIZE
    BY <1>1 DEF IInv, LossLaw
  <2>2. Lost <= written /\ Lost \in Int /\ written \in Nat
    <3>1. /\ written \in Nat /\ ringBuffer.size \in Nat
          /\ Len(hostGot) \in Nat /\ Len(epPacket) \in Nat
      BY <1>1, LenProperties, WriteBufferAssumption DEF IInv, TypeOK
    <3> QED
      BY <3>1 DEF Lost
  <2>3. k <= k * BUFFER_SIZE
    BY Multiple, WriteBufferAssumption
  <2>4. k * BUFFER_SIZE \in Int
    BY WriteBufferAssumption
  <2>5. k \in 0..written
    <3> DEFINE m == k * BUFFER_SIZE
    <3> HIDE DEF m
    <3> QED
      BY <2>1, <2>2, <2>3, <2>4 DEF m
  <2> QED
    BY <2>1, <2>5 DEF LossInWholeBuffers
<1> QED
  BY <1>1, SpecIInv, PTL
-----------------------------------------------------------------------------
(* Refinement *)

(* One character more waits, if it does not fill the buffer. *)
LEMMA PutRefines ==
  ASSUME IInv, IInv', Put, UNCHANGED hostGot, ~FillsBuffer
  PROVE  SO!Next
<1> DEFINE s == ringBuffer.size
           old == Contents(ringBuffer)
<1>1. s \in Nat /\ written \in Nat /\ written - s \in Nat /\ BUFFER_SIZE \in Nat \ {0}
      /\ s + 1 <= BUFFER_SIZE
  <2>1. s \in 0..BUFFER_SIZE - 1 /\ s <= written /\ written \in Nat
    BY DEF IInv, TypeOK
  <2> HIDE DEF s
  <2> QED
    BY <2>1, WriteBufferAssumption
<1>2. /\ written + 1 \in Nat /\ TypeOK /\ RingShape
  BY <1>1 DEF IInv
<1>3. /\ enq(ringBuffer, written + 1).size # BUFFER_SIZE
      /\ enq(ringBuffer, written + 1).size =
           IF s + 1 = BUFFER_SIZE THEN 0 ELSE s + 1
  BY <1>2, Enqueued
<1>4. /\ s' = (IF s + 1 = BUFFER_SIZE THEN 0 ELSE s + 1)
      /\ written' = written + 1
      /\ UNCHANGED <<epBusy, epPacket, hostGot>>
  BY <1>3 DEF Put, usbVars
<1>5. old = [i \in 1..s |-> (written - s) + i] /\ old \in Seq(Nat) /\ Len(old) = s
  BY PacketContents
<1>6. /\ ringBuffer'.size = s'
      /\ Contents(ringBuffer)' = [i \in 1..s' |-> ringBuffer.buffer[ringBuffer.rPtr + i - 1]']
  BY DEF Contents
<1>7. \A i \in 1..s' : ringBuffer.buffer[ringBuffer.rPtr + i - 1]' = written' - s' + i
  BY DEF IInv, HoldsNewest
<1>8. Contents(ringBuffer)' = [i \in 1..s' |-> written' - s' + i]
  BY <1>6, <1>7
<1>9. s + 1 # BUFFER_SIZE
  <2>1. s # BUFFER_SIZE - 1
    BY <1>4 DEF FillsBuffer
  <2> HIDE DEF s
  <2> QED
    BY <1>1, <2>1
<1> HIDE DEF s, old
<1>10. s' = s + 1 /\ s + 1 < BUFFER_SIZE
  BY <1>1, <1>4, <1>9
<1>11. Contents(ringBuffer)' = Append(old, written + 1)
  <2>1. \A i \in 1..s + 1 : written' - s' + i = (written - s) + i
    BY <1>1, <1>4, <1>10
  <2>2. Contents(ringBuffer)' = [i \in 1..s + 1 |-> (written - s) + i]
    BY <1>8, <1>10, <2>1
  <2>3. (written - s) + (s + 1) = written + 1
    BY <1>1
  <2>4. Append(old, written + 1)
          = [i \in 1..s + 1 |-> IF i = s + 1 THEN written + 1 ELSE old[i]]
    BY <1>1, <1>2, <1>5, AppendProperties
  <2>5. \A i \in 1..s + 1 :
          (written - s) + i = IF i = s + 1 THEN written + 1 ELSE old[i]
    BY <1>1, <1>5, <2>3
  <2> QED
    BY <2>2, <2>4, <2>5
<1>12. Len(old) < BUFFER_SIZE
  BY <1>1, <1>5, <1>10
<1> QED
  BY <1>4, <1>11, <1>12 DEF SO!Next, SO!Write, old

(* The packet is what waited; a refused one goes on waiting. *)
LEMMA SendRefines ==
  ASSUME IInv, IInv', sendPacket(ringBuffer), UNCHANGED <<hostGot, written>>
  PROVE  [SO!Next]_(SO!vars)
<1>1. CASE epBusy
  <2>1. UNCHANGED <<ringBuffer, epBusy, epPacket>>
    BY <1>1 DEF sendPacket, usbVars
  <2> QED
    BY <2>1 DEF SO!vars, Contents
<1>2. CASE ~epBusy
  <2>1. epBusy' = TRUE /\ epPacket' = Contents(ringBuffer)
    BY <1>2 DEF sendPacket
  <2>2. ringBuffer'.size = 0
    BY <1>2 DEF sendPacket, IInv, TypeOK
  <2>3. Contents(ringBuffer)' = <<>>
    <3>1. Contents(ringBuffer)' =
            [i \in 1..ringBuffer'.size |-> ringBuffer'.buffer[ringBuffer'.rPtr + i - 1]]
      BY DEF Contents
    <3>2. 1..ringBuffer'.size = {}
      BY <2>2
    <3>3. <<>> = [i \in {} |-> ringBuffer'.buffer[ringBuffer'.rPtr + i - 1]]
      OBVIOUS
    <3> QED
      BY <3>1, <3>2, <3>3
  <2> QED
    BY <1>2, <2>1, <2>3 DEF SO!Next, SO!Ship
<1> QED
  BY <1>1, <1>2

(* Every step of _write and of the host is a step of the port or a stutter,
   but for the step that fills the buffer. *)
LEMMA StepRefines ==
  IInv /\ IInv' /\ [Next]_vars => [~FillsBuffer => [SO!Next]_(SO!vars)]_vars
<1> SUFFICES ASSUME IInv, IInv', [Next]_vars, ~FillsBuffer
             PROVE  [SO!Next]_(SO!vars)
  OBVIOUS
<1>1. ASSUME NEW t \in Texts, CallWrite(t) PROVE [SO!Next]_(SO!vars)
  BY <1>1 DEF CallWrite, usbVars, SO!vars, Contents
<1>2. CASE PutCR
  BY <1>2, PutRefines DEF PutCR
<1>3. CASE PutChar
  BY <1>3, PutRefines DEF PutChar
<1>4. CASE FinalSend
  BY <1>4, SendRefines DEF FinalSend
<1>5. CASE HostCollect
  BY <1>5 DEF HostCollect, SO!Next, SO!Collect, Contents
<1>6. CASE UNCHANGED vars
  BY <1>6 DEF vars, callVars, usbVars, SO!vars, Contents
<1> QED
  BY <1>1, <1>2, <1>3, <1>4, <1>5, <1>6 DEF Next, _write

(* Every behaviour of _write starts like the port of its comments and takes
   only steps of that port, but for the character that fills the buffer. *)
THEOREM PortButWhenFilled == Spec => SO!Init /\ PortUntilFull
<1>1. Init => SO!Init
  <2>1. Init => Contents(ringBuffer) = <<>>
    <3>1. Init => Contents(ringBuffer) = [i \in 1..0 |-> ringBuffer.buffer[ringBuffer.rPtr + i - 1]]
      BY DEF Init, EmptyRing, Contents
    <3>2. 1..0 = {}
      OBVIOUS
    <3>3. <<>> = [i \in {} |-> ringBuffer.buffer[ringBuffer.rPtr + i - 1]]
      OBVIOUS
    <3> QED
      BY <3>1, <3>2, <3>3
  <2> QED
    BY <2>1 DEF Init, SO!Init
<1>2. IInv /\ IInv' /\ [Next]_vars => [~FillsBuffer => [SO!Next]_(SO!vars)]_vars
  BY StepRefines
<1> QED
  BY <1>1, <1>2, SpecIInv, PTL DEF Spec, PortUntilFull
=============================================================================
