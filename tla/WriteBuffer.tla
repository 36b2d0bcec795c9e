----------------------------- MODULE WriteBuffer -----------------------------
(***************************************************************************)
(* Standard output of the debug shell: _write, the ring buffer it fills    *)
(* and the packets it hands to the bulk IN endpoint of the USB device.     *)
(*                                                                         *)
(* One task writes (the shell); the host collects packets at any time,     *)
(* also in the middle of a call, whether or not interrupts are masked.     *)
(* Characters are numbered in the order they enter the buffer, carriage    *)
(* returns included.                                                       *)
(***************************************************************************)
EXTENDS Integers, Sequences, ByteSequences

CONSTANTS BUFFER_SIZE,   \* characters the ring buffer and a packet hold (64)
          Texts,         \* the arguments of _write; "LF" is the newline
          MaxChars       \* bound: characters put in the buffer

ASSUME WriteBufferAssumption ==
  /\ BUFFER_SIZE \in Nat \ {0}
  /\ Texts \subseteq Seq(STRING)
  /\ MaxChars \in Nat

VARIABLES
  ringBuffer,   \* record: buffer, rPtr, wPtr, size
  text,         \* characters of the call that _write has still to put
  afterCR,      \* the carriage return before Head(text) is in
  inCall,       \* _write is running
  epBusy,       \* the endpoint holds a packet the host has not collected
  epPacket,     \* that packet
  hostGot,      \* characters the host has collected
  written       \* number of characters ever put in the buffer

callVars == <<text, afterCR, inCall>>
usbVars  == <<epBusy, epPacket>>
vars     == <<ringBuffer, callVars, usbVars, hostGot, written>>

-----------------------------------------------------------------------------
(* The ring buffer *)

(* A character that is not there: the buffer starts zeroed. *)
NoChar == 0

EmptyRing == [buffer |-> [k \in 0..BUFFER_SIZE - 1 |-> NoChar],
              rPtr |-> 0, wPtr |-> 0, size |-> 0]

(* What sendPacket hands to the endpoint. *)
Contents(rb) == [i \in 1..rb.size |-> rb.buffer[rb.rPtr + i - 1]]

(* Mutation: the write pointer does not wrap. *)
enq_NoWrap(rb, ch) ==
  [buffer |-> [rb.buffer EXCEPT ![rb.wPtr] = ch],
   rPtr   |-> rb.rPtr,
   wPtr   |-> rb.wPtr + 1,
   size   |-> (rb.size + 1) % BUFFER_SIZE]

enq(rb, ch) ==
  [buffer |-> [rb.buffer EXCEPT ![rb.wPtr] = ch],
   rPtr   |-> rb.rPtr,
   wPtr   |-> (rb.wPtr + 1) % BUFFER_SIZE,
   size   |-> (rb.size + 1) % BUFFER_SIZE]

(* usbd_ep_write_packet takes no packet while it holds one.  It returns the
   length it took, so a call that arms an empty packet looks refused. *)
sendPacket_NoReset(rb) ==   \* mutation: the size is not reset
  \/ /\ epBusy
     /\ ringBuffer' = rb
     /\ UNCHANGED usbVars
  \/ /\ ~epBusy
     /\ epBusy' = TRUE
     /\ epPacket' = Contents(rb)
     /\ ringBuffer' = [rb EXCEPT !.rPtr = 0, !.wPtr = 0]

sendPacket_Ignored(rb) ==   \* mutation: a refused packet counts as sent
  /\ ringBuffer' = [rb EXCEPT !.rPtr = 0, !.wPtr = 0, !.size = 0]
  /\ \/ epBusy /\ UNCHANGED usbVars
     \/ ~epBusy /\ epBusy' = TRUE /\ epPacket' = Contents(rb)

sendPacket(rb) ==
  \/ /\ epBusy
     /\ ringBuffer' = rb
     /\ UNCHANGED usbVars
  \/ /\ ~epBusy
     /\ epBusy' = TRUE
     /\ epPacket' = Contents(rb)
     /\ ringBuffer' = IF rb.size # 0
                        THEN [rb EXCEPT !.rPtr = 0, !.wPtr = 0, !.size = 0]
                        ELSE rb

(* enq, and the test of the size that follows each of the two calls of it. *)
Put ==
  LET rb == enq(ringBuffer, written + 1) IN
  /\ written' = written + 1
  /\ IF rb.size = BUFFER_SIZE
       THEN sendPacket(rb)
       ELSE ringBuffer' = rb /\ UNCHANGED usbVars

Init ==
  /\ ringBuffer = EmptyRing
  /\ text = <<>>
  /\ afterCR = FALSE
  /\ inCall = FALSE
  /\ epBusy = FALSE
  /\ epPacket = <<>>
  /\ hostGot = <<>>
  /\ written = 0

-----------------------------------------------------------------------------
(* _write *)

(* Characters a text adds: one more for each newline in it. *)
Cost(t) == 2 * Len(t)

CallWrite(t) ==
  /\ ~inCall
  /\ written + Cost(t) <= MaxChars
  /\ inCall' = TRUE
  /\ text' = t
  /\ UNCHANGED <<ringBuffer, afterCR, usbVars, hostGot, written>>

PutCR ==
  /\ inCall
  /\ text # <<>>
  /\ Head(text) = "LF" /\ ~afterCR
  /\ Put
  /\ afterCR' = TRUE
  /\ UNCHANGED <<text, inCall, hostGot>>

PutChar ==
  /\ inCall
  /\ text # <<>>
  /\ Head(text) = "LF" => afterCR
  /\ Put
  /\ text' = Tail(text)
  /\ afterCR' = FALSE
  /\ UNCHANGED <<inCall, hostGot>>

(* The partial-full write at the end, and the return. *)
FinalSend ==
  /\ inCall
  /\ text = <<>>
  /\ sendPacket(ringBuffer)
  /\ inCall' = FALSE
  /\ UNCHANGED <<text, afterCR, hostGot, written>>

_write == PutCR \/ PutChar \/ FinalSend

(* The host collects the packet; the endpoint is free for the next. *)
HostCollect ==
  /\ epBusy
  /\ epBusy' = FALSE
  /\ epPacket' = <<>>
  /\ hostGot' = hostGot \o epPacket
  /\ UNCHANGED <<ringBuffer, callVars, written>>

Next ==
  \/ \E t \in Texts : CallWrite(t)
  \/ _write
  \/ HostCollect

Spec == Init /\ [][Next]_vars

(* A call runs to its end, and the host polls the endpoint; the shell need not
   write again. *)
FairSpec == Spec /\ WF_vars(_write) /\ WF_vars(HostCollect)

-----------------------------------------------------------------------------
(* Properties *)

TypeOK ==
  /\ ringBuffer \in [buffer : [0..BUFFER_SIZE - 1 -> Nat],
                     rPtr : 0..BUFFER_SIZE - 1,
                     wPtr : 0..BUFFER_SIZE - 1,
                     size : 0..BUFFER_SIZE - 1]
  /\ text \in Seq(STRING)
  /\ afterCR \in BOOLEAN
  /\ inCall \in BOOLEAN
  /\ epBusy \in BOOLEAN
  /\ epPacket \in Seq(Nat)
  /\ hostGot \in Seq(Nat)
  /\ written \in Nat

(* The buffer always holds the newest characters written, in order, from rPtr
   on and inside the array: sendPacket never sends stale or foreign bytes. *)
HoldsNewest ==
  /\ ringBuffer.rPtr + ringBuffer.size <= BUFFER_SIZE
  /\ \A i \in 1..ringBuffer.size :
       ringBuffer.buffer[ringBuffer.rPtr + i - 1] = written - ringBuffer.size + i

(* What the host gets is in the order of writing, no character twice, whatever
   was lost in between and whenever it collects. *)
HostInOrder == InOrder(hostGot \o epPacket)

(* Characters that are neither with the host nor on their way to it. *)
Lost == written - (Len(hostGot) + Len(epPacket) + ringBuffer.size)

(* How much is lost when the buffer fills: whole buffers, as enq counts the
   character that fills the buffer back to an empty one. *)
LossInWholeBuffers == \E k \in 0..written : Lost = k * BUFFER_SIZE

(* The output port the comments describe. *)
SO == INSTANCE SerialOut WITH pending <- Contents(ringBuffer), busy <- epBusy,
                              packet <- epPacket, got <- hostGot

(* syscalls.c, in _write: "We'll chunk into 64 byte pieces and send it out",
   "Did we just fill a packet??" and "We wrote it all". A character written
   waits, or is in a packet, or is with the host, and none is ever dropped. *)
ImplementsSerialOut == SO!Spec

(* The step that puts the last character the buffer has room for. *)
FillsBuffer == ringBuffer.size = BUFFER_SIZE - 1 /\ written' = written + 1

(* Every other step of _write, its endpoint and the host is one of that port:
   a packet is all that waited, in order and once; a refused packet goes on
   waiting, also one refused in the middle of a call; nothing else drops,
   repeats or changes a character. *)
PortUntilFull == [][~FillsBuffer => [SO!Next]_(SO!vars)]_vars

(* syscalls.c, at the last sendPacket of _write: "Final partial-full write".
   What a call leaves in the buffer goes out. *)
FinalPartialWrite ==
  (~inCall /\ ringBuffer.size > 0) ~> (ringBuffer.size = 0)
=============================================================================
