--------------------------------- MODULE Boot ---------------------------------
(***************************************************************************)
(* From reset to the prompt: main creates the tasks and starts the         *)
(* scheduler, the USB task makes its port, the shell allocates its line    *)
(* buffer and prompts on that port, and two tasks blink one LED.  At the   *)
(* prompt the commands stack and tasks allocate again, and reboot starts   *)
(* anew.  All memory comes from _sbrk, which takes no lock.  The kernel's  *)
(* allocations suspend the scheduler (heap_3.c); the shell's malloc does   *)
(* not.                                                                    *)
(*                                                                         *)
(* The kernel first runs the tasks in the order of their creation, so the  *)
(* shell begins behind the USB task - unless a tick interrupts that task   *)
(* before it is done.  Both kinds of behaviour are here, see usbFirst.     *)
(***************************************************************************)
EXTENDS Integers, Sequences

CONSTANTS heap_start,  \* &__heap_start, behind the variables of the program
          MaxHeapEnd,  \* bound of __heap_end
          Align,       \* _sbrk aligns to this (8 bytes)
          Size         \* bytes that each owner of a block asks for

Owners == {"LED1", "LED2", "USB", "Shell", "Kernel", "Queue", "Semaphore", "Line",
           "Outbuf", "Status"}

ASSUME BootAssumption ==
  /\ heap_start \in Nat \ {0}
  /\ MaxHeapEnd \in Nat /\ MaxHeapEnd >= heap_start
  /\ Align \in Nat \ {0}
  /\ Size \in [Owners -> Nat \ {0}]

VARIABLES
  phase,      \* "reset", "main", "running", or stopped: "hook", "fault"
  created,    \* how far main and vTaskStartScheduler are in CreationOrder
  usb,        \* next statement of vUSBCDCACMTask; "hook" when it is stuck
  shell,      \* next statement of vDebugShell
  led,        \* which half of its loop each LED task is in
  pin,        \* the green LED
  heap_ptr,
  heap_end,   \* &__heap_end, where the linker has put it
  block,      \* where the block of each owner begins, 0 without one
  base,       \* local of the shell's _sbrk
  spare,      \* owners whose blocks are freed: malloc has them to give again
  UARTinQ,    \* the queue exists
  CDCACM_dev, \* the device handle is set
  usbFirst    \* the USB task is done before the shell begins

mainVars == <<phase, created>>
heapVars == <<heap_ptr, block>>
shellHeap == <<base, spare>>
portVars == <<UARTinQ, CDCACM_dev>>
ledVars  == <<led, pin>>
fixed    == <<heap_end, usbFirst>>
vars == <<mainVars, usb, shell, ledVars, heapVars, shellHeap, portVars, fixed>>

LEDTasks == {"LED1", "LED2"}

(* The stack and the TCB of a task are one block here; the idle task and the
   timer task of vTaskStartScheduler are one owner. *)
CreationOrder == <<"LED1", "LED2", "USB", "Shell", "Kernel">>

Init ==
  /\ phase = "reset"
  /\ created = 0
  /\ usb = "queue"
  /\ shell = "sbrk"
  /\ led = [t \in LEDTasks |-> "dark"]
  /\ pin = FALSE
  /\ heap_ptr = 0
  /\ heap_end \in heap_start..MaxHeapEnd
  /\ block = [o \in Owners |-> 0]
  /\ base = 0
  /\ spare = {}
  /\ UARTinQ = FALSE
  /\ CDCACM_dev = FALSE
  /\ usbFirst \in BOOLEAN

-----------------------------------------------------------------------------
(* The heap: _sbrk and _sbrk_r are the same. *)

AlignUp_Down(n) == n - (n % Align)   \* mutation: 7 is not added

AlignUp(n) == ((n + Align - 1) \div Align) * Align

HeapTop == IF heap_ptr = 0 THEN heap_start ELSE heap_ptr

(* The first call sets heap_ptr even if it fails then. *)
TouchHeap == heap_ptr' = HeapTop /\ UNCHANGED block

NewTop(from, o) == AlignUp(from + Size[o])

Fits_Unaligned(from, o) == from + Size[o] <= heap_end   \* mutation

Fits_Current(from, o) == from <= heap_end + 0 * Size[o] \* mutation

Fits(from, o) == NewTop(from, o) <= heap_end

Take(from, o) ==
  /\ Fits(from, o)
  /\ heap_ptr' = NewTop(from, o)
  /\ block' = [block EXCEPT ![o] = from]

(* pvPortMalloc: no other task runs meanwhile. *)
Allocate(o) == Take(HeapTop, o)

CannotAllocate(o) == ~Fits(HeapTop, o) /\ TouchHeap

-----------------------------------------------------------------------------
(* main.  All LEDs are lit and put out again before anything else. *)

LampsOn ==
  /\ phase = "reset"
  /\ ~pin
  /\ pin' = TRUE
  /\ UNCHANGED <<mainVars, usb, shell, led, heapVars, shellHeap, portVars, fixed>>

LampsOff ==
  /\ phase = "reset"
  /\ pin
  /\ pin' = FALSE
  /\ phase' = "main"
  /\ UNCHANGED <<created, usb, shell, led, heapVars, shellHeap, portVars, fixed>>

NextOwner == CreationOrder[created + 1]

CreateTask ==
  /\ phase = "main"
  /\ Allocate(NextOwner)
  /\ created' = created + 1
  /\ phase' = IF created + 1 = Len(CreationOrder) THEN "running" ELSE "main"
  /\ UNCHANGED <<usb, shell, ledVars, shellHeap, portVars, fixed>>

(* vApplicationMallocFailedHook loops, and there is no other task yet. *)
MallocFailed ==
  /\ phase = "main"
  /\ CannotAllocate(NextOwner)
  /\ phase' = "hook"
  /\ UNCHANGED <<created, usb, shell, ledVars, shellHeap, portVars, fixed>>

main == LampsOn \/ LampsOff \/ CreateTask \/ MallocFailed

-----------------------------------------------------------------------------
(* vUSBCDCACMTask up to its loop. *)

UsbRuns(here) == phase = "running" /\ usb = here

CreateQueue_Unset ==   \* mutation: the handle is not stored
  /\ UsbRuns("queue")
  /\ \/ Allocate("Queue") /\ usb' = "device" /\ UNCHANGED UARTinQ
     \/ CannotAllocate("Queue") /\ usb' = "hook" /\ UNCHANGED UARTinQ
  /\ UNCHANGED <<mainVars, shell, ledVars, shellHeap, CDCACM_dev, fixed>>

CreateQueue ==
  /\ UsbRuns("queue")
  /\ \/ Allocate("Queue") /\ usb' = "device" /\ UARTinQ' = TRUE
     \/ CannotAllocate("Queue") /\ usb' = "hook" /\ UNCHANGED UARTinQ
  /\ UNCHANGED <<mainVars, shell, ledVars, shellHeap, CDCACM_dev, fixed>>

SetDevice_Local ==   \* mutation: only the local handle is set
  /\ UsbRuns("device")
  /\ usb' = "semaphore"
  /\ UNCHANGED <<mainVars, shell, ledVars, heapVars, shellHeap, portVars, fixed>>

SetDevice ==
  /\ UsbRuns("device")
  /\ usb' = "semaphore"
  /\ CDCACM_dev' = TRUE
  /\ UNCHANGED <<mainVars, shell, ledVars, heapVars, shellHeap, UARTinQ, fixed>>

CreateSemaphore ==
  /\ UsbRuns("semaphore")
  /\ \/ Allocate("Semaphore") /\ usb' = "serving"
     \/ CannotAllocate("Semaphore") /\ usb' = "hook"
  /\ UNCHANGED <<mainVars, shell, ledVars, shellHeap, portVars, fixed>>

UsbStartup == CreateQueue \/ SetDevice \/ CreateSemaphore

-----------------------------------------------------------------------------
(* vDebugShell: its line buffer, then prompts, lines and commands. *)

ShellRuns(here) ==
  /\ phase = "running"
  /\ shell = here
  /\ usbFirst => usb \in {"serving", "hook"}

(* malloc(1024) of vDebugShell and malloc(2048) of a command: _sbrk may lose
   the processor between its load and its store of heap_ptr. *)
SbrkLoad ==
  /\ \/ ShellRuns("sbrk") /\ shell' = "store"
     \/ ShellRuns("outbuf") /\ shell' = "storeOutbuf"
  /\ base' = HeapTop
  /\ TouchHeap
  /\ UNCHANGED <<mainVars, usb, ledVars, spare, portVars, fixed>>

SbrkStore ==
  /\ ShellRuns("store")
  /\ \/ Take(base, "Line") /\ shell' = "prompt"
     \/ ~Fits(base, "Line") /\ shell' = "sorry" /\ UNCHANGED heapVars
  /\ UNCHANGED <<mainVars, usb, ledVars, shellHeap, portVars, fixed>>

(* A prompt, or "!".  Without a device sendPacket calls through a null
   pointer: it faults, or returns. *)
Prompt ==
  /\ \/ ShellRuns("prompt") /\ shell' = "read"
     \/ ShellRuns("sorry") /\ shell' = "returned"
  /\ phase' \in IF CDCACM_dev THEN {"running"} ELSE {"running", "fault"}
  /\ UNCHANGED <<created, usb, ledVars, heapVars, shellHeap, portVars, fixed>>

(* _read waits on the queue; without one Board_UARTGetChar asks for the number
   of messages in a null queue, which the kernel asserts against. *)
Read ==
  /\ ShellRuns("read")
  /\ shell' = IF UARTinQ THEN "reading" ELSE "asserted"
  /\ UNCHANGED <<mainVars, usb, ledVars, heapVars, shellHeap, portVars, fixed>>

(* A line arrives only if the USB task polls the device. *)
LineTyped == ShellRuns("reading") /\ usb = "serving"

(* The commands stack and tasks.  malloc gives a block that was freed to the
   next request of its size, without _sbrk. *)
ListTasks ==
  /\ LineTyped
  /\ shell' = IF "Outbuf" \in spare THEN "list" ELSE "outbuf"
  /\ spare' = spare \ {"Outbuf"}
  /\ UNCHANGED <<mainVars, usb, ledVars, heapVars, base, portVars, fixed>>

(* Without memory for the text there is no answer, only the next prompt. *)
OutbufStore ==
  /\ ShellRuns("storeOutbuf")
  /\ \/ Take(base, "Outbuf") /\ shell' = "list"
     \/ ~Fits(base, "Outbuf") /\ shell' = "prompt" /\ UNCHANGED heapVars
  /\ UNCHANGED <<mainVars, usb, ledVars, shellHeap, portVars, fixed>>

(* vTaskList and vTaskGetRunTimeStats allocate an array of the states of all
   tasks with pvPortMalloc.  If there is no memory for it the shell is stuck in
   vApplicationMallocFailedHook; the other tasks run on. *)
vTaskList ==
  /\ ShellRuns("list")
  /\ \/ /\ "Status" \in spare
        /\ shell' = "listed"
        /\ spare' = spare \ {"Status"}
        /\ UNCHANGED heapVars
     \/ /\ "Status" \notin spare
        /\ \/ Allocate("Status") /\ shell' = "listed"
           \/ CannotAllocate("Status") /\ shell' = "hook"
        /\ UNCHANGED spare
  /\ UNCHANGED <<mainVars, usb, ledVars, base, portVars, fixed>>

(* Both functions give the array back before they return. *)
FreeStatus ==
  /\ ShellRuns("listed")
  /\ shell' = "printed"
  /\ spare' = spare \cup {"Status"}
  /\ UNCHANGED <<mainVars, usb, ledVars, heapVars, base, portVars, fixed>>

FreeOutbuf_Missing ==   \* mutation: the text is not freed
  /\ ShellRuns("printed")
  /\ shell' = "prompt"
  /\ UNCHANGED <<mainVars, usb, ledVars, heapVars, shellHeap, portVars, fixed>>

(* The text is printed and its memory freed. *)
FreeOutbuf ==
  /\ ShellRuns("printed")
  /\ shell' = "prompt"
  /\ spare' = spare \cup {"Outbuf"}
  /\ UNCHANGED <<mainVars, usb, ledVars, heapVars, base, portVars, fixed>>

(* Any other line. *)
OtherLine ==
  /\ LineTyped
  /\ shell' = "prompt"
  /\ UNCHANGED <<mainVars, usb, ledVars, heapVars, shellHeap, portVars, fixed>>

(* The command reboot resets the processor, whose start-up code clears all
   variables; the order of the tasks is open again. *)
Reboot ==
  /\ LineTyped
  /\ phase' = "reset" /\ created' = 0
  /\ usb' = "queue" /\ shell' = "sbrk"
  /\ led' = [t \in LEDTasks |-> "dark"] /\ pin' = FALSE
  /\ heap_ptr' = 0 /\ block' = [o \in Owners |-> 0]
  /\ base' = 0 /\ spare' = {}
  /\ UARTinQ' = FALSE /\ CDCACM_dev' = FALSE
  /\ usbFirst' \in BOOLEAN
  /\ UNCHANGED heap_end

vDebugShell ==
  \/ SbrkLoad \/ SbrkStore \/ Prompt \/ Read
  \/ OutbufStore \/ vTaskList \/ FreeStatus \/ FreeOutbuf

Lines == ListTasks \/ OtherLine \/ Reboot

-----------------------------------------------------------------------------
(* The LED tasks: each lights and clears the same pin, in its own time. *)

Light_Nothing(t) ==   \* mutation: the pin is not set
  /\ phase = "running"
  /\ led[t] = "dark"
  /\ led' = [led EXCEPT ![t] = "lit"]
  /\ UNCHANGED <<mainVars, usb, shell, pin, heapVars, shellHeap, portVars, fixed>>

Light(t) ==
  /\ phase = "running"
  /\ led[t] = "dark"
  /\ led' = [led EXCEPT ![t] = "lit"]
  /\ pin' = TRUE
  /\ UNCHANGED <<mainVars, usb, shell, heapVars, shellHeap, portVars, fixed>>

Clear_Nothing(t) ==   \* mutation: the pin is not cleared
  /\ phase = "running"
  /\ led[t] = "lit"
  /\ led' = [led EXCEPT ![t] = "dark"]
  /\ UNCHANGED <<mainVars, usb, shell, pin, heapVars, shellHeap, portVars, fixed>>

Clear(t) ==
  /\ phase = "running"
  /\ led[t] = "lit"
  /\ led' = [led EXCEPT ![t] = "dark"]
  /\ pin' = FALSE
  /\ UNCHANGED <<mainVars, usb, shell, heapVars, shellHeap, portVars, fixed>>

vLEDTask(t) == Light(t) \/ Clear(t)

-----------------------------------------------------------------------------
Next ==
  \/ main
  \/ UsbStartup
  \/ vDebugShell
  \/ Lines
  \/ \E t \in LEDTasks : vLEDTask(t)

Spec == Init /\ [][Next]_vars

(* Tasks of one priority share the processor in time slices.  Nobody has to
   type a line. *)
Fairness ==
  /\ WF_vars(main)
  /\ WF_vars(UsbStartup)
  /\ WF_vars(vDebugShell)
  /\ \A t \in LEDTasks : WF_vars(vLEDTask(t))

FairSpec == Spec /\ Fairness

-----------------------------------------------------------------------------
(* Properties *)

TypeOK ==
  /\ phase \in {"reset", "main", "running", "hook", "fault"}
  /\ created \in 0..Len(CreationOrder)
  /\ phase \in {"reset", "main"} => created < Len(CreationOrder)
  /\ usb \in {"queue", "device", "semaphore", "serving", "hook"}
  /\ shell \in {"sbrk", "store", "prompt", "sorry", "read", "reading",
                "asserted", "returned", "outbuf", "storeOutbuf", "list",
                "listed", "printed", "hook"}
  /\ led \in [LEDTasks -> {"dark", "lit"}]
  /\ pin \in BOOLEAN
  /\ heap_end \in heap_start..MaxHeapEnd
  /\ heap_ptr \in {0} \cup heap_start..heap_end
  /\ block \in [Owners -> {0} \cup heap_start..heap_end]
  /\ base \in {0} \cup heap_start..heap_end
  /\ spare \subseteq {"Outbuf", "Status"}
  /\ UARTinQ \in BOOLEAN
  /\ CDCACM_dev \in BOOLEAN
  /\ usbFirst \in BOOLEAN

Allocated == {o \in Owners : block[o] # 0}

(* Every block lies inside the heap, and is aligned unless it is the first,
   whatever allocations were interleaved. *)
BlocksInHeap ==
  \A o \in Allocated : /\ block[o] + Size[o] <= heap_end
                       /\ block[o] = heap_start \/ block[o] % Align = 0

Disjoint(o, p) ==
  block[o] + Size[o] <= block[p] \/ block[p] + Size[p] <= block[o]

(* No two owners share memory, provided that the shell's unlocked malloc does
   not interleave with the allocations of the USB task. *)
BlocksDisjoint ==
  usbFirst => \A o \in Allocated, p \in Allocated : o # p => Disjoint(o, p)

(* A task that begins behind the USB task finds its device and its queue;
   without them it faults or is stuck only when there was no memory for the
   queue. *)
PromptHasPort ==
  usbFirst /\ (phase = "fault" \/ shell = "asserted")
    => usb = "hook" /\ block["Queue"] = 0

(* After every reset the shell waits for input at last, unless memory ran out;
   the device it prompts on exists by then. *)
ShellGetsReady ==
  usbFirst /\ phase = "reset"
    ~> \/ shell = "reading" /\ CDCACM_dev /\ UARTinQ
       \/ phase = "hook" \/ usb = "hook" \/ shell = "returned"

(* A command is refused the memory for its text, or the shell is stuck in the
   hook because there is none for the array behind it. *)
Refused ==
  \/ shell = "storeOutbuf" /\ shell' = "prompt"
  \/ shell = "list" /\ shell' = "hook"

(* The commands stack and tasks may run out of memory, in two places; but once
   one of them has been answered all are, until a reset: each gives back what
   it has taken, in the command and in the kernel. *)
ListsAgain == [][Refused => block["Status"] = 0]_vars

(* Two tasks, one pin: while it is lit one of them is in the lit half of its
   loop, though the other way round it need not be. *)
LitByATask == phase = "running" /\ pin => \E t \in LEDTasks : led[t] = "lit"

(* The LED goes on blinking as long as the system runs. *)
Blinks ==
  /\ phase = "running" ~> pin \/ phase = "fault"
  /\ phase = "running" ~> ~pin \/ phase = "fault"
=============================================================================
