------------------------------- MODULE CdcAcm -------------------------------
(***************************************************************************)
(* The USB CDC-ACM serial port: the interrupt handler otg_fs_isr, the task *)
(* vUSBCDCACMTask it wakes through the binary semaphore usbInterrupted,    *)
(* the callbacks usbd_poll runs in that task, the input queue UARTinQ and  *)
(* the read of the debug shell at its other end.                           *)
(*                                                                         *)
(* One processor runs everything, so a behaviour interleaves the steps of  *)
(* the task, the handler, the reader and the USB hardware.  The handler is *)
(* one step: no task runs while it does.  The task may be preempted        *)
(* between any two of its steps.                                           *)
(***************************************************************************)
EXTENDS Naturals, Sequences, ByteSequences

CONSTANTS QueueLength,   \* length of UARTinQ (256 in the code)
          MaxPacket,     \* bulk packet size (64 in the code)
          MaxBytes       \* bound: bytes the host sends in a behaviour

ASSUME CdcAcmAssumption ==
  /\ QueueLength \in Nat \ {0}
  /\ MaxPacket \in Nat \ {0}
  /\ MaxBytes \in Nat

VARIABLES
  pc,             \* the next statement of vUSBCDCACMTask
  uartQCreated,   \* UARTinQ # NULL
  UARTinQ,        \* contents of the queue, oldest byte first
  CDCACM_dev,     \* the global device handle is set
  usbInterrupted, \* the binary semaphore: "NULL", "empty" or "full"
  irqEnabled,     \* NVIC enable bit of the USB interrupt
  irqPending,     \* NVIC pending bit of the USB interrupt
  configured,     \* cdcacm_set_config has set up endpoints and callbacks
  rxFifo,         \* transactions in the receive FIFO, oldest first
  setup,          \* request of the SETUP transaction in the FIFO
  outPkt,         \* data of the OUT transaction in the FIFO
  txDone,         \* an IN packet was collected: status not yet cleared
  buf,            \* bytes cdcacm_data_rx_cb has read and not yet offered
  reply,          \* how the last control request was answered
  sent,           \* number of bytes the host has sent
  received        \* bytes the shell has read, oldest first

irqVars  == <<irqEnabled, irqPending, usbInterrupted>>
taskVars == <<pc, uartQCreated, CDCACM_dev, configured>>
usbVars  == <<rxFifo, setup, outPkt, txDone, reply>>
dataVars == <<UARTinQ, buf, sent, received>>
vars     == <<irqVars, taskVars, usbVars, dataVars>>

-----------------------------------------------------------------------------
(* Data *)

Requests == {"set_config", "line_state", "line_coding", "short_line_coding",
             "other"}

NoReply == [req |-> "none", ok |-> FALSE]

(* The bulk OUT endpoint as the descriptors declare it to the host, and the
   length cdcacm_data_rx_cb asks for when it reads a packet from it. *)
wMaxPacketSize == MaxPacket

ReadLength_Short == MaxPacket - 1   \* mutation: off by one

ReadLength == MaxPacket

(* cdcacm_control_request returns 1 for the requests it accepts.  The request
   "short_line_coding" is a SET_LINE_CODING whose data stage is shorter than
   the line coding structure. *)

cdcacm_control_request(req) == req \in {"line_state", "line_coding"}

(* Statements of the task before its endless loop. *)
Startup == {"queue", "init", "dev", "sem", "drain", "nvic"}

(* Statements of the loop between the take and the enable. *)
Serving == {"poll", "rx", "tail", "enable"}

(* The interrupt line is a level: high while the device has status to serve. *)
InterruptLine == rxFifo # <<>> \/ txDone

Init ==
  /\ pc = "queue"
  /\ uartQCreated = FALSE
  /\ UARTinQ = <<>>
  /\ CDCACM_dev = FALSE
  /\ usbInterrupted = "NULL"
  /\ irqEnabled = FALSE
  /\ irqPending = FALSE
  /\ configured = FALSE
  /\ rxFifo = <<>>
  /\ setup = "none"
  /\ outPkt = <<>>
  /\ txDone = FALSE
  /\ buf = <<>>
  /\ reply = NoReply
  /\ sent = 0
  /\ received = <<>>

-----------------------------------------------------------------------------
(* vUSBCDCACMTask, start-up *)

At(here, next) == pc = here /\ pc' = next

(* Mutation: the queue is not created. *)
CreateQueue_Missing ==
  /\ At("queue", "init")
  /\ UNCHANGED <<irqVars, uartQCreated, CDCACM_dev, configured, usbVars, dataVars>>

CreateQueue ==
  /\ At("queue", "init")
  /\ uartQCreated' = TRUE
  /\ UNCHANGED <<irqVars, CDCACM_dev, configured, usbVars, dataVars>>

(* After usbd_init the device is attached and the host may talk to it. *)
UsbInit ==
  /\ At("init", "dev")
  /\ UNCHANGED <<irqVars, uartQCreated, CDCACM_dev, configured, usbVars, dataVars>>

SetDevice ==
  /\ At("dev", "sem")
  /\ CDCACM_dev' = TRUE
  /\ UNCHANGED <<irqVars, uartQCreated, configured, usbVars, dataVars>>

(* vSemaphoreCreateBinary leaves the new semaphore given. *)
CreateSemaphore ==
  /\ At("sem", "drain")
  /\ usbInterrupted' = "full"
  /\ UNCHANGED <<irqEnabled, irqPending, uartQCreated, CDCACM_dev, configured,
                 usbVars, dataVars>>

(* Mutation: the non-blocking take is left out. *)
DrainSemaphore_Missing ==
  /\ At("drain", "nvic")
  /\ UNCHANGED <<irqVars, uartQCreated, CDCACM_dev, configured, usbVars, dataVars>>

DrainSemaphore ==
  /\ At("drain", "nvic")
  /\ usbInterrupted' = "empty"
  /\ UNCHANGED <<irqEnabled, irqPending, uartQCreated, CDCACM_dev, configured,
                 usbVars, dataVars>>

FirstEnable ==
  /\ At("nvic", "take")
  /\ irqEnabled' = TRUE
  /\ UNCHANGED <<irqPending, usbInterrupted, uartQCreated, CDCACM_dev,
                 configured, usbVars, dataVars>>

-----------------------------------------------------------------------------
(* vUSBCDCACMTask, the loop *)

(* The take blocks until the semaphore is given. *)
TakeSemaphore ==
  /\ At("take", "poll")
  /\ usbInterrupted = "full"
  /\ usbInterrupted' = "empty"
  /\ UNCHANGED <<irqEnabled, irqPending, uartQCreated, CDCACM_dev, configured,
                 usbVars, dataVars>>

(* usbd_poll serves the oldest transaction of the receive FIFO, if any, then
   acknowledges the end of IN transfers. *)
PollIdle ==
  /\ At("poll", "tail")
  /\ rxFifo = <<>>
  /\ UNCHANGED <<irqVars, uartQCreated, CDCACM_dev, configured, usbVars, dataVars>>

cdcacm_set_config == configured' = TRUE

PollSetup ==
  /\ At("poll", "tail")
  /\ rxFifo # <<>> /\ Head(rxFifo) = "setup"
  /\ rxFifo' = Tail(rxFifo)
  /\ setup' = "none"
  /\ \/ /\ setup = "set_config"
        /\ cdcacm_set_config
        /\ reply' = [req |-> setup, ok |-> TRUE]
     \/ /\ setup # "set_config"
        /\ reply' = [req |-> setup,
                     ok  |-> configured /\ cdcacm_control_request(setup)]
        /\ UNCHANGED configured
  /\ UNCHANGED <<irqVars, uartQCreated, CDCACM_dev, outPkt, txDone, dataVars>>

(* cdcacm_data_rx_cb reads the packet; the endpoint can then take another. *)
PollOut ==
  /\ At("poll", "rx")
  /\ rxFifo # <<>> /\ Head(rxFifo) = "out"
  /\ rxFifo' = Tail(rxFifo)
  /\ outPkt' = <<>>
  /\ buf' = SubSeq(outPkt, 1,
                   IF Len(outPkt) < ReadLength THEN Len(outPkt) ELSE ReadLength)
  /\ UNCHANGED <<irqVars, uartQCreated, CDCACM_dev, configured, setup, txDone,
                 reply, UARTinQ, sent, received>>

(* Mutation: a full queue takes the byte all the same. *)
RxByte_Unbounded ==
  /\ pc = "rx"
  /\ buf # <<>>
  /\ buf' = Tail(buf)
  /\ UARTinQ' = Append(UARTinQ, Head(buf))
  /\ UNCHANGED <<irqVars, taskVars, usbVars, sent, received>>

(* One turn of its loop: xQueueSendFromISR, whose result is ignored. *)
RxByte ==
  /\ pc = "rx"
  /\ buf # <<>>
  /\ buf' = Tail(buf)
  /\ \/ /\ Len(UARTinQ) < QueueLength
        /\ UARTinQ' = Append(UARTinQ, Head(buf))
     \/ /\ Len(UARTinQ) = QueueLength
        /\ UNCHANGED UARTinQ
  /\ UNCHANGED <<irqVars, taskVars, usbVars, sent, received>>

RxDone ==
  /\ At("rx", "tail")
  /\ buf = <<>>
  /\ UNCHANGED <<irqVars, uartQCreated, CDCACM_dev, configured, usbVars, dataVars>>

PollTail ==
  /\ At("tail", "enable")
  /\ txDone' = FALSE
  /\ UNCHANGED <<irqVars, uartQCreated, CDCACM_dev, configured, rxFifo, setup,
                 outPkt, reply, dataVars>>

(* Mutation: the interrupt stays disabled after the poll. *)
EnableIrq_Missing ==
  /\ At("enable", "take")
  /\ UNCHANGED <<irqVars, uartQCreated, CDCACM_dev, configured, usbVars, dataVars>>

EnableIrq ==
  /\ At("enable", "take")
  /\ irqEnabled' = TRUE
  /\ UNCHANGED <<irqPending, usbInterrupted, uartQCreated, CDCACM_dev,
                 configured, usbVars, dataVars>>

UsbTask ==
  \/ CreateQueue \/ UsbInit \/ SetDevice
  \/ CreateSemaphore \/ DrainSemaphore \/ FirstEnable
  \/ TakeSemaphore
  \/ PollIdle \/ PollSetup \/ PollOut \/ RxByte \/ RxDone \/ PollTail
  \/ EnableIrq

-----------------------------------------------------------------------------
(* The interrupt handler.  Entering it clears the pending bit; the line is
   sampled again on return, and the handler does not touch the device. *)
otg_fs_isr_NoGive ==   \* mutation: the semaphore is not given
  /\ irqEnabled
  /\ irqPending
  /\ irqEnabled' = FALSE
  /\ irqPending' = InterruptLine
  /\ UNCHANGED <<usbInterrupted, taskVars, usbVars, dataVars>>

otg_fs_isr ==
  /\ irqEnabled
  /\ irqPending
  /\ irqEnabled' = FALSE
  /\ usbInterrupted' = "full"
  /\ irqPending' = InterruptLine
  /\ UNCHANGED <<taskVars, usbVars, dataVars>>

-----------------------------------------------------------------------------
(* The shell: _read of one byte from the queue, blocking while it is empty.  The
   number returned, which cmd_term_get does not look at, is left out. *)
_read ==
  /\ uartQCreated
  /\ UARTinQ # <<>>
  /\ UARTinQ' = Tail(UARTinQ)
  /\ received' = Append(received, Head(UARTinQ))
  /\ UNCHANGED <<irqVars, taskVars, usbVars, buf, sent>>

-----------------------------------------------------------------------------
(* The host and the USB core.  Each of these raises the interrupt line, which
   sets the pending bit whether or not the interrupt is enabled. *)

Attached == pc \notin {"queue", "init"}

(* One control request at a time; class requests go to a configured device. *)
HostSetup(req) ==
  /\ Attached
  /\ setup = "none"
  /\ req # "set_config" => configured
  /\ setup' = req
  /\ rxFifo' = Append(rxFifo, "setup")
  /\ reply' = NoReply
  /\ irqPending' = TRUE
  /\ UNCHANGED <<irqEnabled, usbInterrupted, taskVars, outPkt, txDone, dataVars>>

(* The OUT endpoint holds one packet and refuses more until it is read. *)
HostOut(n) ==
  /\ configured
  /\ \A i \in 1..Len(rxFifo) : rxFifo[i] # "out"
  /\ sent + n <= MaxBytes
  /\ sent' = sent + n
  /\ outPkt' = [i \in 1..n |-> sent + i]
  /\ rxFifo' = Append(rxFifo, "out")
  /\ irqPending' = TRUE
  /\ UNCHANGED <<irqEnabled, usbInterrupted, taskVars, setup, txDone, reply,
                 UARTinQ, buf, received>>

(* The host collected an IN packet the shell had sent. *)
HostTookIn ==
  /\ configured
  /\ txDone' = TRUE
  /\ irqPending' = TRUE
  /\ UNCHANGED <<irqEnabled, usbInterrupted, taskVars, rxFifo, setup, outPkt,
                 reply, dataVars>>

Host ==
  \/ \E req \in Requests : HostSetup(req)
  \/ \E n \in 0..wMaxPacketSize : HostOut(n)
  \/ HostTookIn

-----------------------------------------------------------------------------
Next == UsbTask \/ otg_fs_isr \/ _read \/ Host

Spec == Init /\ [][Next]_vars

(* The scheduler time-slices tasks of one priority and the hardware takes a
   pending, enabled interrupt; the host and the shell owe nothing. *)
Fairness == WF_vars(UsbTask) /\ WF_vars(otg_fs_isr)

FairSpec == Spec /\ Fairness

-----------------------------------------------------------------------------
(* Properties *)

Transactions == {<<>>, <<"setup">>, <<"out">>,
                 <<"setup", "out">>, <<"out", "setup">>}

TypeOK ==
  /\ pc \in Startup \cup {"take"} \cup Serving
  /\ uartQCreated \in BOOLEAN
  /\ UARTinQ \in Seq(Nat) /\ Len(UARTinQ) <= QueueLength
  /\ CDCACM_dev \in BOOLEAN
  /\ usbInterrupted \in {"NULL", "empty", "full"}
  /\ irqEnabled \in BOOLEAN
  /\ irqPending \in BOOLEAN
  /\ configured \in BOOLEAN
  /\ rxFifo \in Transactions
  /\ setup \in Requests \cup {"none"}
  /\ outPkt \in Seq(Nat) /\ Len(outPkt) <= wMaxPacketSize
  /\ txDone \in BOOLEAN
  /\ buf \in Seq(Nat)
  /\ reply \in [req : Requests \cup {"none"}, ok : BOOLEAN]
  /\ sent \in Nat
  /\ received \in Seq(Nat)

(* The right to serve the device is in one place at a time: the interrupt is
   enabled, or the semaphore is full, or the task is serving.  So the handler
   never gives a semaphore that is already given (it ignores the result), and
   never runs before the semaphore exists. *)
InterruptToken ==
  /\ pc \in Startup => ~irqEnabled
  /\ pc = "take" => (irqEnabled <=> usbInterrupted = "empty")
  /\ pc \in Serving => ~irqEnabled /\ usbInterrupted = "empty"
  /\ irqEnabled => usbInterrupted # "NULL"

(* The task never blocks on the semaphore while the device waits to be served
   and nothing is under way to wake it. *)
NoLostWakeup ==
  pc = "take" /\ usbInterrupted = "empty" /\ InterruptLine
    => irqEnabled /\ irqPending

(* What the other parts take for granted once the device handle is set or the
   receive callback runs: the queue exists.  With it _read never falls back to
   the polled branch, which would query a queue that is NULL. *)
QueueBeforeUse ==
  CDCACM_dev \/ configured \/ pc = "rx" => uartQCreated

(* Along the whole path, from what the shell has read back to the packet still
   in the USB core, bytes are in the order the host sent them, none twice. *)
BytesInOrder == InOrder(received \o UARTinQ \o buf \o outPkt)

(* The comment in cdcacm_control_request: the Linux cdc_acm driver requires
   SET_CONTROL_LINE_STATE to be implemented.  It is never refused. *)
LineStateAccepted == reply.req = "line_state" => reply.ok

(* The receive path is a lossy FIFO that loses only what finds it full. *)
SI == INSTANCE SerialIn WITH line <- buf \o outPkt, queue <- UARTinQ

ImplementsSerialIn == SI!FairSpec

(* A control request is answered, and the end of an IN transfer is
   acknowledged, however the handler and the task interleave. *)
StatusServed ==
  /\ setup # "none" ~> setup = "none"
  /\ txDone ~> ~txDone

(* A byte in the queue is eventually read by a shell that keeps reading. *)
InputReachesShell ==
  WF_vars(_read) => \A n \in 1..MaxBytes :
    (\E i \in 1..Len(UARTinQ) : UARTinQ[i] = n)
      ~> (\E i \in 1..Len(received) : received[i] = n)
=============================================================================
