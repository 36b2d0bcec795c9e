------------------------------ MODULE BootProofs ------------------------------
(***************************************************************************)
(* Proofs about Boot, for every size of the heap, of the blocks and of the *)
(* alignment, and for both orders of the USB task and the shell.           *)
(***************************************************************************)
EXTENDS Boot, TLAPS

-----------------------------------------------------------------------------
(* Arithmetic of the alignment *)

(* A multiple of a positive number leaves no remainder. *)
LEMMA MultipleMod ==
  ASSUME NEW a \in Nat \ {0}, NEW q \in Nat
  PROVE  (a * q) % a = 0
<1> DEFINE n == a * q
           d == q - (n \div a)
<1>1. n \in Nat
  OBVIOUS
<1>2. /\ n \div a \in Int /\ n % a \in 0..a - 1
      /\ n = a * (n \div a) + (n % a)
  BY <1>1
<1>3. d \in Int /\ a * d = n % a
  BY <1>1, <1>2
<1> HIDE DEF d
<1>4. d = 0
  <2>1. d >= 1 => a * d >= a
    BY <1>3
  <2>2. d <= -1 => a * d <= -a
    BY <1>3
  <2> QED
    BY <1>2, <1>3, <2>1, <2>2
<1> QED
  BY <1>3, <1>4

(* What is aligned does not shrink, and is a multiple of the alignment. *)
LEMMA AlignUpProperties ==
  ASSUME NEW n \in Nat
  PROVE  AlignUp(n) \in Nat /\ AlignUp(n) >= n /\ AlignUp(n) % Align = 0
<1> DEFINE q == (n + Align - 1) \div Align
           r == (n + Align - 1) % Align
<1>1. Align \in Nat /\ Align >= 1
  BY BootAssumption
<1>2. /\ q \in Nat /\ r \in 0..Align - 1
      /\ n + Align - 1 = Align * q + r
  BY <1>1
<1> HIDE DEF q, r
<1>3. q * Align = Align * q /\ q * Align \in Nat
  BY <1>1, <1>2
<1>4. q * Align >= n
  BY <1>1, <1>2, <1>3
<1>5. (q * Align) % Align = 0
  <2>1. (Align * q) % Align = 0
    <3>1. Align \in Nat \ {0} /\ q \in Nat
      BY <1>2, BootAssumption
    <3> QED
      BY <3>1, MultipleMod, Zenon
  <2> QED
    BY <1>3, <2>1
<1> QED
  BY <1>3, <1>4, <1>5 DEF AlignUp, q

-----------------------------------------------------------------------------
(* The inductive invariant *)

(* Where a block may begin. *)
Start(n) == n \in heap_start..heap_end /\ (n = heap_start \/ n % Align = 0)

HeapSound ==
  /\ heap_end \in heap_start..MaxHeapEnd
  /\ heap_ptr = 0 \/ Start(heap_ptr)
  /\ block \in [Owners -> {0} \cup heap_start..heap_end]
  /\ BlocksInHeap

(* Nothing is allocated above heap_ptr. *)
BelowTop == \A o \in Allocated : block[o] + Size[o] <= HeapTop

NoOverlap == \A o \in Allocated, p \in Allocated : o # p => Disjoint(o, p)

(* The tasks have not begun while main runs. *)
MainFirst == phase \in {"reset", "main", "hook"} => shell = "sbrk" /\ usb = "queue"

(* The shell has not begun while the USB task is not done. *)
UsbBeforeShell == usbFirst => shell = "sbrk" \/ usb \in {"serving", "hook"}

(* What the shell has loaded is where a block may begin, and still the end of
   what is allocated if nobody can come in between. *)
LoadedTop ==
  shell \in {"store", "storeOutbuf"} => Start(base) /\ (usbFirst => base = HeapTop)

IInv ==
  /\ TypeOK
  /\ HeapSound
  /\ usbFirst => BelowTop /\ NoOverlap
  /\ MainFirst
  /\ UsbBeforeShell
  /\ LoadedTop

-----------------------------------------------------------------------------
(* The heap *)

(* The end of the heap is where a block may begin. *)
LEMMA TopIsStart ==
  ASSUME HeapSound PROVE Start(HeapTop)
<1>1. heap_start \in Nat \ {0} /\ heap_start \in heap_start..heap_end
  BY BootAssumption DEF HeapSound
<1>2. CASE heap_ptr = 0
  BY <1>1, <1>2 DEF HeapTop, Start
<1>3. CASE heap_ptr # 0
  BY <1>3 DEF HeapSound, HeapTop, Start
<1> QED
  BY <1>2, <1>3

(* A block that fits is sound and leaves the others alone, wherever in the
   heap it begins. *)
LEMMA TakeSound ==
  ASSUME HeapSound, NEW from, Start(from), NEW o \in Owners, Take(from, o),
         UNCHANGED heap_end
  PROVE  /\ HeapSound'
         /\ heap_ptr' >= from + Size[o] /\ heap_ptr' \in Nat \ {0}
         /\ block' = [block EXCEPT ![o] = from]
         /\ from \in Nat \ {0}
<1>1. /\ from \in Nat /\ from >= heap_start /\ from <= heap_end
      /\ heap_start \in Nat \ {0} /\ heap_end \in Nat
      /\ Size[o] \in Nat \ {0}
  BY BootAssumption DEF HeapSound, Start
<1>2. /\ heap_ptr' = AlignUp(from + Size[o]) /\ heap_ptr' <= heap_end
      /\ block' = [block EXCEPT ![o] = from]
  BY DEF Take, Fits, NewTop
<1>3. heap_ptr' \in Nat /\ heap_ptr' >= from + Size[o] /\ heap_ptr' % Align = 0
  <2>1. from + Size[o] \in Nat
    BY <1>1
  <2> QED
    BY <1>2, <2>1, AlignUpProperties
<1>4. block' \in [Owners -> {0} \cup heap_start..heap_end]
  BY <1>1, <1>2 DEF HeapSound
<1>5. BlocksInHeap'
  <2> SUFFICES ASSUME NEW p \in Owners, block'[p] # 0
               PROVE  /\ block'[p] + Size[p] <= heap_end
                      /\ block'[p] = heap_start \/ block'[p] % Align = 0
    BY DEF BlocksInHeap, Allocated
  <2>1. CASE p = o
    BY <1>1, <1>2, <1>3, <2>1 DEF HeapSound, Start
  <2>2. CASE p # o
    <3>1. block'[p] = block[p]
      BY <1>2, <2>2 DEF HeapSound
    <3> QED
      BY <3>1 DEF HeapSound, BlocksInHeap, Allocated
  <2> QED
    BY <2>1, <2>2
<1> QED
  BY <1>1, <1>2, <1>3, <1>4, <1>5 DEF HeapSound, Start

(* A block taken from the end of the heap shares nothing with the others. *)
LEMMA TakeDisjoint ==
  ASSUME HeapSound, BelowTop, NoOverlap, NEW o \in Owners, Take(HeapTop, o),
         UNCHANGED heap_end
  PROVE  BelowTop' /\ NoOverlap'
<1> DEFINE top == HeapTop
<1>1. /\ HeapSound' /\ top \in Nat \ {0}
      /\ heap_ptr' >= top + Size[o] /\ heap_ptr' \in Nat \ {0}
      /\ block' = [block EXCEPT ![o] = top]
  BY TopIsStart, TakeSound
<1>2. Size \in [Owners -> Nat \ {0}]
  BY BootAssumption
<1>3. /\ block'[o] = top
      /\ \A p \in Owners \ {o} : block'[p] = block[p]
      /\ \A p \in Owners : block'[p] \in Nat
  BY <1>1, BootAssumption DEF HeapSound
<1>4. HeapTop' = heap_ptr'
  BY <1>1 DEF HeapTop
<1>5. \A p \in Owners \ {o} : block[p] # 0 => block[p] + Size[p] <= top
  BY DEF BelowTop, Allocated
<1> HIDE DEF top
<1>6. ASSUME NEW p \in Owners, block'[p] # 0
      PROVE  block'[p] + Size[p] <= heap_ptr'
  <2>1. CASE p = o
    BY <1>1, <1>2, <1>3, <2>1
  <2>2. CASE p # o
    <3>1. block'[p] + Size[p] <= top
      BY <1>3, <1>5, <1>6, <2>2
    <3> QED
      BY <1>1, <1>2, <1>3, <3>1
  <2> QED
    BY <2>1, <2>2
<1>7. ASSUME NEW p \in Owners, NEW r \in Owners, p # r,
             block'[p] # 0, block'[r] # 0
      PROVE  Disjoint(p, r)'
  <2>1. CASE p = o
    <3>1. block'[r] + Size[r] <= block'[p]
      BY <1>3, <1>5, <1>7, <2>1
    <3> QED
      BY <3>1 DEF Disjoint
  <2>2. CASE r = o
    <3>1. block'[p] + Size[p] <= block'[r]
      BY <1>3, <1>5, <1>7, <2>2
    <3> QED
      BY <3>1 DEF Disjoint
  <2>3. CASE p # o /\ r # o
    <3>1. block'[p] = block[p] /\ block'[r] = block[r]
      BY <1>3, <2>3
    <3>2. Disjoint(p, r)
      BY <1>7, <3>1 DEF NoOverlap, Allocated
    <3> QED
      BY <3>1, <3>2 DEF Disjoint
  <2> QED
    BY <2>1, <2>2, <2>3
<1> QED
  BY <1>4, <1>6, <1>7 DEF BelowTop, NoOverlap, Allocated

(* Without an allocation the heap is as it was, but that heap_ptr is set. *)
LEMMA HeapUnchanged ==
  ASSUME HeapSound, UNCHANGED heapVars \/ TouchHeap, UNCHANGED heap_end
  PROVE  /\ HeapSound'
         /\ BelowTop => BelowTop'
         /\ NoOverlap => NoOverlap'
         /\ HeapTop' = HeapTop
<1>1. /\ UNCHANGED block /\ heap_ptr' \in {heap_ptr, HeapTop}
      /\ Start(HeapTop)
  BY TopIsStart DEF heapVars, TouchHeap
<1>2. HeapTop' = HeapTop
  BY <1>1, BootAssumption DEF HeapTop, Start, HeapSound
<1>3. heap_ptr' = 0 \/ Start(heap_ptr)'
  BY <1>1 DEF HeapSound, Start
<1> QED
  BY <1>1, <1>2, <1>3 DEF HeapSound, BlocksInHeap, BelowTop, NoOverlap, Disjoint,
     Allocated

(* An allocation with the scheduler suspended. *)
LEMMA AllocateKeeps ==
  ASSUME IInv, NEW o \in Owners, Allocate(o), UNCHANGED fixed
  PROVE  /\ HeapSound'
         /\ usbFirst => BelowTop' /\ NoOverlap'
         /\ block' = [block EXCEPT ![o] = HeapTop]
BY TopIsStart, TakeSound, TakeDisjoint DEF IInv, Allocate, fixed

-----------------------------------------------------------------------------
(* Invariance *)

(* The types of the heap follow from its soundness. *)
LEMMA HeapTypes ==
  ASSUME HeapSound
  PROVE  /\ heap_end \in heap_start..MaxHeapEnd
         /\ heap_ptr \in {0} \cup heap_start..heap_end
         /\ block \in [Owners -> {0} \cup heap_start..heap_end]
BY DEF HeapSound, Start

(* What is left of the types when the tasks' own variables stay. *)
LEMMA TypesKept ==
  ASSUME TypeOK, HeapSound', UNCHANGED <<usb, shell, led, base, spare, UARTinQ,
                                         CDCACM_dev, fixed>>,
         pin' \in BOOLEAN \/ UNCHANGED pin,
         phase' \in {"reset", "main", "running", "hook", "fault"},
         created' \in 0..Len(CreationOrder),
         phase' \in {"reset", "main"} => created' < Len(CreationOrder)
  PROVE  TypeOK'
BY HeapTypes DEF TypeOK, HeapSound, Start, fixed

LEMMA InitIInv == Init => IInv
<1> SUFFICES ASSUME Init PROVE IInv
  OBVIOUS
<1>1. Allocated = {}
  BY DEF Init, Allocated
<1>2. HeapSound
  BY <1>1 DEF Init, HeapSound, BlocksInHeap
<1>3. TypeOK
  <2>1. Len(CreationOrder) = 5
    BY DEF CreationOrder
  <2>2. created \in 0..Len(CreationOrder) /\ created < Len(CreationOrder)
    BY <2>1 DEF Init
  <2>3. led \in [LEDTasks -> {"dark", "lit"}]
    BY DEF Init
  <2> QED
    BY <1>2, <2>2, <2>3, HeapTypes DEF Init, TypeOK
<1> QED
  BY <1>1, <1>2, <1>3 DEF Init, IInv, BelowTop, NoOverlap, MainFirst,
     UsbBeforeShell, LoadedTop

(* The owners main allocates for. *)
LEMMA CreationOwners ==
  ASSUME TypeOK, phase = "main"
  PROVE  /\ NextOwner \in {"LED1", "LED2", "USB", "Shell", "Kernel"}
         /\ NextOwner \in Owners
         /\ created + 1 \in 0..Len(CreationOrder)
         /\ created + 1 # Len(CreationOrder) => created + 1 < Len(CreationOrder)
<1>1. Len(CreationOrder) = 5
  BY DEF CreationOrder
<1>2. created \in 0..4
  BY <1>1 DEF TypeOK
<1>3. CreationOrder[created + 1] \in {"LED1", "LED2", "USB", "Shell", "Kernel"}
  BY <1>2 DEF CreationOrder
<1> QED
  BY <1>1, <1>2, <1>3 DEF NextOwner, Owners

LEMMA MainStep ==
  ASSUME IInv, main PROVE IInv'
<1>1. ASSUME LampsOn \/ LampsOff PROVE IInv'
  <2>1. UNCHANGED heapVars /\ UNCHANGED heap_end
    BY <1>1 DEF LampsOn, LampsOff, fixed
  <2>2. HeapSound' /\ (usbFirst => BelowTop' /\ NoOverlap')
    BY <2>1, HeapUnchanged DEF IInv
  <2>3. phase = "reset" /\ phase' \in {"reset", "main"}
    BY <1>1 DEF LampsOn, LampsOff, mainVars
  <2>4. UNCHANGED <<created, usb, shell, led, base, spare, UARTinQ, CDCACM_dev,
                    fixed>>
        /\ pin' \in BOOLEAN
    BY <1>1 DEF LampsOn, LampsOff, mainVars, shellHeap, portVars
  <2>5. TypeOK'
    BY <2>2, <2>3, <2>4, TypesKept DEF IInv, TypeOK
  <2> QED
    BY <2>2, <2>3, <2>4, <2>5
       DEF IInv, MainFirst, UsbBeforeShell, LoadedTop, fixed
<1>2. CASE CreateTask
  <2>1. Allocate(NextOwner) /\ phase = "main" /\ created' = created + 1
    BY <1>2 DEF CreateTask
  <2>2. phase' = IF created + 1 = Len(CreationOrder) THEN "running" ELSE "main"
    BY <1>2 DEF CreateTask
  <2>3. UNCHANGED <<usb, shell, led, pin, base, spare, UARTinQ, CDCACM_dev, fixed>>
    BY <1>2 DEF CreateTask, ledVars, shellHeap, portVars
  <2>4. NextOwner \in Owners
    BY <2>1, CreationOwners DEF IInv
  <2>5. HeapSound' /\ (usbFirst => BelowTop' /\ NoOverlap')
    BY <2>1, <2>3, <2>4, AllocateKeeps
  <2>6. TypeOK'
    <3>1. created' \in 0..Len(CreationOrder)
      BY <2>1, CreationOwners DEF IInv
    <3>2. phase' \in {"main", "running"}
          /\ (phase' = "main" => created' < Len(CreationOrder))
      BY <2>1, <2>2, CreationOwners DEF IInv
    <3> QED
      BY <2>3, <2>5, <3>1, <3>2, TypesKept DEF IInv
  <2> QED
    BY <2>1, <2>2, <2>3, <2>5, <2>6
       DEF IInv, MainFirst, UsbBeforeShell, LoadedTop, fixed
<1>3. CASE MallocFailed
  <2>1. phase' = "hook" /\ phase = "main"
        /\ UNCHANGED <<created, usb, shell, led, pin, base, spare, UARTinQ,
                       CDCACM_dev, fixed>>
        /\ TouchHeap
    BY <1>3 DEF MallocFailed, CannotAllocate, ledVars, shellHeap, portVars
  <2>2. HeapSound' /\ (usbFirst => BelowTop' /\ NoOverlap')
    BY <2>1, HeapUnchanged DEF IInv, fixed
  <2>3. TypeOK'
    BY <2>1, <2>2, TypesKept DEF IInv, TypeOK
  <2> QED
    BY <2>1, <2>2, <2>3
       DEF IInv, MainFirst, UsbBeforeShell, LoadedTop, fixed
<1> QED
  BY <1>1, <1>2, <1>3 DEF main

(* The USB task allocates with the scheduler suspended, and if it comes first
   the shell has not loaded the end of the heap yet. *)
LEMMA UsbStep ==
  ASSUME IInv, UsbStartup PROVE IInv'
<1>1. /\ phase = "running" /\ usb \in {"queue", "device", "semaphore"}
      /\ UNCHANGED <<phase, created, shell, led, pin, base, spare, fixed>>
  BY DEF UsbStartup, CreateQueue, SetDevice, CreateSemaphore, UsbRuns,
     mainVars, ledVars, shellHeap
<1>2. /\ usb' \in {"device", "semaphore", "serving", "hook"}
      /\ UARTinQ' \in BOOLEAN /\ CDCACM_dev' \in BOOLEAN
  BY DEF UsbStartup, CreateQueue, SetDevice, CreateSemaphore, portVars, IInv,
     TypeOK
<1>3. \/ \E o \in Owners : Allocate(o)
      \/ UNCHANGED heapVars \/ TouchHeap
  BY DEF UsbStartup, CreateQueue, SetDevice, CreateSemaphore, CannotAllocate,
     Owners
<1>4. HeapSound' /\ (usbFirst => BelowTop' /\ NoOverlap')
  BY <1>1, <1>3, AllocateKeeps, HeapUnchanged DEF IInv, fixed
<1>5. TypeOK'
  BY <1>1, <1>2, <1>4, HeapTypes DEF IInv, TypeOK, HeapSound, Start, fixed
<1>6. LoadedTop'
  <2>1. usbFirst => shell = "sbrk"
    BY <1>1 DEF IInv, UsbBeforeShell
  <2> QED
    BY <1>1, <2>1 DEF IInv, LoadedTop, Start, fixed
<1> QED
  BY <1>1, <1>4, <1>5, <1>6 DEF IInv, MainFirst, UsbBeforeShell, fixed

(* The shell stores the end of the heap it has loaded. *)
LEMMA ShellStep ==
  ASSUME IInv, vDebugShell \/ ListTasks \/ OtherLine PROVE IInv'
<1> USE DEF vDebugShell
<1>1. /\ phase = "running" /\ UNCHANGED <<created, usb, led, pin, UARTinQ,
                                          CDCACM_dev, fixed>>
      /\ usbFirst => usb \in {"serving", "hook"}
  BY DEF SbrkLoad, SbrkStore, Prompt, Read, ListTasks, OutbufStore, vTaskList,
     FreeStatus, FreeOutbuf, OtherLine, LineTyped, ShellRuns, mainVars, ledVars,
     portVars
<1>2. /\ shell' \in {"store", "prompt", "sorry", "read", "reading", "asserted",
                     "returned", "outbuf", "storeOutbuf", "list", "listed",
                     "printed", "hook"}
      /\ phase' \in {"running", "fault"}
  <2>1. CASE SbrkLoad \/ SbrkStore \/ Prompt \/ Read
    BY <2>1 DEF SbrkLoad, SbrkStore, Prompt, Read, ShellRuns, mainVars
  <2>2. CASE ListTasks \/ OutbufStore \/ FreeOutbuf \/ OtherLine
    BY <2>2 DEF ListTasks, OutbufStore, FreeOutbuf, OtherLine, LineTyped,
       ShellRuns, mainVars
  <2>3. CASE vTaskList \/ FreeStatus
    BY <2>3 DEF vTaskList, FreeStatus, ShellRuns, mainVars
  <2> QED
    BY <2>1, <2>2, <2>3
<1>3. CASE SbrkLoad
  <2>1. TouchHeap /\ base' = HeapTop /\ spare' = spare
        /\ shell' \in {"store", "storeOutbuf"}
    BY <1>3 DEF SbrkLoad
  <2>2. Start(HeapTop) /\ UNCHANGED heap_end
    BY <1>1, TopIsStart DEF IInv, fixed
  <2>3. HeapSound' /\ (usbFirst => BelowTop' /\ NoOverlap') /\ HeapTop' = HeapTop
    BY <2>1, <2>2, HeapUnchanged DEF IInv
  <2>4. TypeOK'
    BY <1>1, <1>2, <2>1, <2>2, <2>3, HeapTypes
       DEF IInv, TypeOK, HeapSound, Start, fixed
  <2>5. LoadedTop'
    BY <2>1, <2>2, <2>3 DEF LoadedTop, Start
  <2> QED
    BY <1>1, <1>2, <2>3, <2>4, <2>5 DEF IInv, MainFirst, UsbBeforeShell, fixed
<1>4. CASE ~SbrkLoad
  <2>1. UNCHANGED base /\ shell' \notin {"store", "storeOutbuf"}
        /\ spare' \subseteq {"Outbuf", "Status"}
    BY <1>4 DEF SbrkStore, Prompt, Read, ListTasks, OutbufStore, vTaskList,
       FreeStatus, FreeOutbuf, OtherLine, shellHeap, IInv, TypeOK
  <2>2. \/ UNCHANGED heapVars \/ TouchHeap
        \/ Allocate("Status")
        \/ shell = "store" /\ Take(base, "Line")
        \/ shell = "storeOutbuf" /\ Take(base, "Outbuf")
    BY <1>4 DEF SbrkStore, Prompt, Read, ListTasks, OutbufStore, vTaskList,
       FreeStatus, FreeOutbuf, OtherLine, ShellRuns, CannotAllocate
  <2>3. HeapSound' /\ (usbFirst => BelowTop' /\ NoOverlap')
    <3>1. CASE UNCHANGED heapVars \/ TouchHeap
      BY <1>1, <3>1, HeapUnchanged DEF IInv, fixed
    <3>2. ASSUME NEW o \in Owners, shell \in {"store", "storeOutbuf"}, Take(base, o)
          PROVE  HeapSound' /\ (usbFirst => BelowTop' /\ NoOverlap')
      <4>1. Start(base) /\ UNCHANGED heap_end
        BY <1>1, <3>2 DEF IInv, LoadedTop, fixed
      <4>2. HeapSound'
        BY <3>2, <4>1, TakeSound DEF IInv
      <4>3. usbFirst => BelowTop' /\ NoOverlap'
        BY <3>2, <4>1, TakeDisjoint DEF IInv, LoadedTop
      <4> QED
        BY <1>1, <4>2, <4>3 DEF fixed
    <3>3. CASE Allocate("Status")
      BY <1>1, <3>3, AllocateKeeps DEF Owners
    <3> QED
      BY <2>2, <3>1, <3>2, <3>3 DEF Owners
  <2>4. TypeOK'
    BY <1>1, <1>2, <2>1, <2>3, HeapTypes DEF IInv, TypeOK, HeapSound, Start, fixed
  <2> QED
    BY <1>1, <1>2, <2>1, <2>3, <2>4
       DEF IInv, MainFirst, UsbBeforeShell, LoadedTop, fixed
<1> QED
  BY <1>3, <1>4

(* A reset is a new beginning, with the heap where the linker has put it. *)
LEMMA RebootIsInit == IInv /\ Reboot => Init'
BY DEF IInv, TypeOK, Reboot, Init

LEMMA RebootStep ==
  ASSUME IInv, Reboot PROVE IInv'
<1>1. Init' => IInv'
  BY InitIInv, PTL
<1> QED
  BY <1>1, RebootIsInit

LEMMA LEDStep ==
  ASSUME IInv, NEW t \in LEDTasks, vLEDTask(t) PROVE IInv'
<1>1. /\ UNCHANGED <<phase, created, usb, shell, heapVars, base, spare, UARTinQ,
                     CDCACM_dev, fixed>>
      /\ pin' \in BOOLEAN /\ led' \in [LEDTasks -> {"dark", "lit"}]
  BY DEF vLEDTask, Light, Clear, mainVars, shellHeap, portVars, IInv, TypeOK
<1>2. /\ HeapSound' /\ (usbFirst => BelowTop' /\ NoOverlap')
      /\ HeapTop' = HeapTop
  BY <1>1, HeapUnchanged DEF IInv, fixed
<1>3. TypeOK'
  BY <1>1, <1>2, HeapTypes DEF IInv, TypeOK, HeapSound, Start, fixed
<1> QED
  BY <1>1, <1>2, <1>3
     DEF IInv, MainFirst, UsbBeforeShell, LoadedTop, Start, fixed

LEMMA NextIInv == IInv /\ [Next]_vars => IInv'
<1> SUFFICES ASSUME IInv, [Next]_vars PROVE IInv'
  OBVIOUS
<1>1. CASE main
  BY <1>1, MainStep
<1>2. CASE UsbStartup
  BY <1>2, UsbStep
<1>3. CASE vDebugShell \/ Lines
  BY <1>3, ShellStep, RebootStep DEF Lines
<1>4. ASSUME NEW t \in LEDTasks, vLEDTask(t) PROVE IInv'
  BY <1>4, LEDStep
<1>5. CASE UNCHANGED vars
  <2>1. UNCHANGED <<phase, created, usb, shell, led, pin, heapVars, base, spare,
                    UARTinQ, CDCACM_dev, fixed>>
    BY <1>5 DEF vars, mainVars, ledVars, shellHeap, portVars
  <2>2. /\ HeapSound' /\ (usbFirst => BelowTop' /\ NoOverlap')
        /\ HeapTop' = HeapTop
    BY <2>1, HeapUnchanged DEF IInv, fixed
  <2>3. TypeOK'
    BY <2>1, <2>2, HeapTypes DEF IInv, TypeOK, HeapSound, Start, fixed
  <2> QED
    BY <2>1, <2>2, <2>3
       DEF IInv, MainFirst, UsbBeforeShell, LoadedTop, Start, fixed
<1> QED
  BY <1>1, <1>2, <1>3, <1>4, <1>5 DEF Next

LEMMA SpecIInv == Spec => []IInv
BY InitIInv, NextIInv, PTL DEF Spec

(* Every variable of the start-up keeps its type; heap_ptr never passes the end
   of the heap. *)
THEOREM TypeCorrect == Spec => []TypeOK
<1>1. IInv => TypeOK
  BY DEF IInv
<1> QED
  BY <1>1, SpecIInv, PTL

(* Whatever allocations interleave, _sbrk returns blocks inside the heap, and
   aligned ones but for the first. *)
THEOREM BlocksStayInHeap == Spec => []BlocksInHeap
<1>1. IInv => BlocksInHeap
  BY DEF IInv, HeapSound
<1> QED
  BY <1>1, SpecIInv, PTL

(* When the USB task is done before the shell begins, _sbrk gives no byte to
   two owners. *)
THEOREM BlocksStayApart == Spec => []BlocksDisjoint
<1>1. IInv => BlocksDisjoint
  BY DEF IInv, NoOverlap, BlocksDisjoint
<1> QED
  BY <1>1, SpecIInv, PTL

-----------------------------------------------------------------------------
(* The port of the first prompt *)

(* What exists at each statement of the USB task; it is stuck before the device
   handle is set only if there was no memory for the queue. *)
PortProgress ==
  /\ usb \in {"device", "semaphore", "serving"} => UARTinQ
  /\ usb \in {"semaphore", "serving"} => CDCACM_dev
  /\ usb = "queue" => block["Queue"] = 0
  /\ usb = "hook" => (UARTinQ /\ CDCACM_dev) \/ block["Queue"] = 0

PortInv == PortProgress /\ PromptHasPort

LEMMA InitPortInv == Init => PortInv
BY DEF Init, PortInv, PortProgress, PromptHasPort, Owners

LEMMA NextPortInv == IInv /\ PortInv /\ [Next]_vars => PortInv'
<1> SUFFICES ASSUME IInv, PortInv, [Next]_vars PROVE PortInv'
  OBVIOUS
<1> USE DEF PortInv, PortProgress, PromptHasPort
<1>1. /\ block \in [Owners -> {0} \cup heap_start..heap_end]
      /\ "Queue" \in Owners
  BY DEF IInv, HeapSound, Owners
<1>2. CASE main
  <2>1. UNCHANGED <<usb, shell, UARTinQ, CDCACM_dev, usbFirst>>
        /\ phase \in {"reset", "main"} /\ phase' # "fault"
    BY <1>2 DEF main, LampsOn, LampsOff, CreateTask, MallocFailed, portVars,
       fixed, mainVars
  <2>2. block'["Queue"] = block["Queue"]
    <3>1. CASE CreateTask
      BY <1>1, <3>1, CreationOwners DEF CreateTask, Allocate, Take, IInv
    <3>2. CASE ~CreateTask
      BY <1>2, <3>2 DEF main, LampsOn, LampsOff, MallocFailed, CannotAllocate,
         TouchHeap, heapVars
    <3> QED
      BY <3>1, <3>2
  <2> QED
    BY <2>1, <2>2 DEF IInv, MainFirst
<1>3. CASE UsbStartup
  <2>1. UNCHANGED <<phase, shell, usbFirst>> /\ phase = "running"
    BY <1>3 DEF UsbStartup, CreateQueue, SetDevice, CreateSemaphore, UsbRuns,
       mainVars, fixed
  <2>2. usbFirst => shell = "sbrk"
    BY <1>3 DEF IInv, UsbBeforeShell, UsbStartup, CreateQueue, SetDevice,
       CreateSemaphore, UsbRuns
  <2>3. PortProgress'
    <3>1. CASE CreateQueue
      BY <1>1, <3>1 DEF CreateQueue, UsbRuns, CannotAllocate, TouchHeap
    <3>2. CASE SetDevice
      BY <3>2 DEF SetDevice, UsbRuns, heapVars
    <3>3. CASE CreateSemaphore
      BY <3>3 DEF CreateSemaphore, UsbRuns, portVars
    <3> QED
      BY <1>3, <3>1, <3>2, <3>3 DEF UsbStartup
  <2> QED
    BY <2>1, <2>2, <2>3
<1>4. CASE vDebugShell \/ ListTasks \/ OtherLine
  <2> USE DEF vDebugShell
  <2>1. UNCHANGED <<usb, UARTinQ, CDCACM_dev, usbFirst>> /\ phase = "running"
        /\ (usbFirst => usb \in {"serving", "hook"})
    BY <1>4 DEF SbrkLoad, SbrkStore, Prompt, Read, ListTasks, OutbufStore,
       vTaskList, FreeStatus, FreeOutbuf, OtherLine, LineTyped, ShellRuns,
       portVars, fixed
  <2>2. block'["Queue"] = block["Queue"]
    BY <1>1, <1>4 DEF SbrkLoad, SbrkStore, Prompt, Read, ListTasks, OutbufStore,
       vTaskList, FreeStatus, FreeOutbuf, OtherLine, Take, Allocate,
       CannotAllocate, TouchHeap, heapVars
  <2>3. /\ phase' = "fault" => ~CDCACM_dev
        /\ shell' = "asserted" => ~UARTinQ
    BY <1>4, <2>1 DEF SbrkLoad, SbrkStore, Prompt, Read, ListTasks, OutbufStore,
       vTaskList, FreeStatus, FreeOutbuf, OtherLine, mainVars
  <2> QED
    BY <2>1, <2>2, <2>3
<1>5. ASSUME NEW t \in LEDTasks, vLEDTask(t) PROVE PortInv'
  BY <1>5 DEF vLEDTask, Light, Clear, mainVars, heapVars, portVars, fixed
<1>6. CASE UNCHANGED vars
  BY <1>6 DEF vars, mainVars, heapVars, portVars, fixed
<1>7. CASE Reboot
  <2>1. Init' => PortInv'
    BY InitPortInv, PTL
  <2> QED
    BY <1>7, <2>1, RebootIsInit
<1> QED
  BY <1>2, <1>3, <1>4, <1>5, <1>6, <1>7 DEF Next, Lines

(* A shell that begins behind the USB task prompts on a device that exists and
   waits on a queue that exists, unless there was no memory for the queue. *)
THEOREM PortBeforePrompt == Spec => []PromptHasPort
<1>1. PortInv => PromptHasPort
  BY DEF PortInv
<1> QED
  BY <1>1, SpecIInv, InitPortInv, NextPortInv, PTL DEF Spec

-----------------------------------------------------------------------------
(* The memory of the commands stack and tasks *)

(* A block once given to a command or to vTaskList is with malloc again or
   still in use; the array is asked for only behind the text. *)
SpareInv ==
  /\ block["Outbuf"] # 0
       <=> "Outbuf" \in spare \/ shell \in {"list", "listed", "printed", "hook"}
  /\ block["Status"] # 0 <=> "Status" \in spare \/ shell = "listed"
  /\ block["Status"] # 0 => block["Outbuf"] # 0
  /\ shell \in {"outbuf", "storeOutbuf"} => block["Outbuf"] = 0

LEMMA InitSpareInv == Init => SpareInv
BY DEF Init, SpareInv, Owners

(* Actions that touch neither block and are no step of a command. *)
LEMMA SpareKept ==
  ASSUME SpareInv, UNCHANGED spare,
         block'["Outbuf"] = block["Outbuf"], block'["Status"] = block["Status"],
         \/ shell' = shell
         \/ /\ shell \notin {"list", "listed", "printed", "hook"}
            /\ shell' \notin {"list", "listed", "printed", "hook", "outbuf"}
            /\ shell' = "storeOutbuf" => shell = "outbuf"
  PROVE  SpareInv'
BY DEF SpareInv

LEMMA NextSpareInv == IInv /\ SpareInv /\ [Next]_vars => SpareInv'
<1> SUFFICES ASSUME IInv, SpareInv, [Next]_vars PROVE SpareInv'
  OBVIOUS
<1>1. /\ block \in [Owners -> {0} \cup heap_start..heap_end]
      /\ {"Outbuf", "Status"} \subseteq Owners
      /\ heap_start \in Nat \ {0} /\ spare \subseteq {"Outbuf", "Status"}
  BY BootAssumption DEF IInv, TypeOK, HeapSound, Owners
<1>2. CASE main
  <2>1. UNCHANGED <<shell, spare>>
    BY <1>2 DEF main, LampsOn, LampsOff, CreateTask, MallocFailed, shellHeap
  <2>2. block'["Outbuf"] = block["Outbuf"] /\ block'["Status"] = block["Status"]
    <3>1. CASE CreateTask
      BY <1>1, <3>1, CreationOwners DEF CreateTask, Allocate, Take, IInv
    <3>2. CASE ~CreateTask
      BY <1>2, <3>2 DEF main, LampsOn, LampsOff, MallocFailed, CannotAllocate,
         TouchHeap, heapVars
    <3> QED
      BY <3>1, <3>2
  <2> QED
    BY <2>1, <2>2, SpareKept
<1>3. CASE UsbStartup
  <2>1. UNCHANGED <<shell, spare>> /\ block'["Outbuf"] = block["Outbuf"]
        /\ block'["Status"] = block["Status"]
    BY <1>1, <1>3 DEF UsbStartup, CreateQueue, SetDevice, CreateSemaphore,
       Allocate, Take, CannotAllocate, TouchHeap, heapVars, shellHeap
  <2> QED
    BY <2>1, SpareKept
<1>4. CASE SbrkLoad \/ SbrkStore \/ Prompt \/ Read \/ OtherLine
  <2>1. spare' = spare /\ block'["Outbuf"] = block["Outbuf"]
        /\ block'["Status"] = block["Status"]
    BY <1>1, <1>4 DEF SbrkLoad, SbrkStore, Prompt, Read, OtherLine, Take,
       TouchHeap, heapVars, shellHeap
  <2>2. /\ shell \notin {"list", "listed", "printed", "hook"}
        /\ shell' \notin {"list", "listed", "printed", "hook", "outbuf"}
        /\ shell' = "storeOutbuf" => shell = "outbuf"
    BY <1>4 DEF SbrkLoad, SbrkStore, Prompt, Read, OtherLine, LineTyped, ShellRuns
  <2> QED
    BY <2>1, <2>2, SpareKept
<1>5. CASE ListTasks
  BY <1>1, <1>5 DEF ListTasks, LineTyped, ShellRuns, heapVars, SpareInv
<1>6. CASE OutbufStore
  <2>1. shell = "storeOutbuf" /\ UNCHANGED spare
    BY <1>6 DEF OutbufStore, ShellRuns, shellHeap
  <2>2. CASE Take(base, "Outbuf") /\ shell' = "list"
    <3>1. base # 0
      BY <1>1, <2>1 DEF IInv, LoadedTop, Start
    <3>2. block'["Outbuf"] = base /\ block'["Status"] = block["Status"]
      BY <1>1, <2>2 DEF Take
    <3> QED
      BY <2>1, <2>2, <3>1, <3>2 DEF SpareInv
  <2>3. CASE shell' = "prompt" /\ UNCHANGED heapVars
    BY <2>1, <2>3 DEF SpareInv, heapVars
  <2> QED
    BY <1>6, <2>2, <2>3 DEF OutbufStore
<1>7. CASE vTaskList
  <2>1. shell = "list"
    BY <1>7 DEF vTaskList, ShellRuns
  <2>2. CASE "Status" \in spare
    BY <1>7, <2>1, <2>2 DEF vTaskList, heapVars, SpareInv
  <2>3. CASE Allocate("Status") /\ shell' = "listed" /\ UNCHANGED spare
    <3>1. block' = [block EXCEPT !["Status"] = HeapTop]
      BY <2>3 DEF Allocate, Take
    <3>2. HeapTop # 0
      BY <1>1, TopIsStart DEF IInv, Start
    <3> QED
      BY <1>1, <2>1, <2>3, <3>1, <3>2 DEF SpareInv
  <2>4. CASE CannotAllocate("Status") /\ shell' = "hook" /\ UNCHANGED spare
    BY <2>1, <2>4 DEF CannotAllocate, TouchHeap, SpareInv
  <2> QED
    BY <1>7, <2>2, <2>3, <2>4 DEF vTaskList
<1>8. CASE FreeStatus
  BY <1>8 DEF FreeStatus, ShellRuns, heapVars, SpareInv
<1>9. CASE FreeOutbuf
  BY <1>9 DEF FreeOutbuf, ShellRuns, heapVars, SpareInv
<1>10. CASE Reboot
  <2>1. Init' => SpareInv'
    BY InitSpareInv, PTL
  <2> QED
    BY <1>10, <2>1, RebootIsInit
<1>11. ASSUME NEW t \in LEDTasks, vLEDTask(t) PROVE SpareInv'
  BY <1>11, SpareKept DEF vLEDTask, Light, Clear, heapVars, shellHeap
<1>12. CASE UNCHANGED vars
  BY <1>12, SpareKept DEF vars, heapVars, shellHeap
<1> QED
  BY <1>2, <1>3, <1>4, <1>5, <1>6, <1>7, <1>8, <1>9, <1>10, <1>11, <1>12
     DEF Next, vDebugShell, Lines

(* A command is refused its text, or is stuck in the hook without the array of
   vTaskList, only if no array was allocated since the last reset: once a
   command has been answered, no later one runs out of memory.  An array that
   is spare is taken again, and one that is not is in use. *)
THEOREM NoLeak == Spec => ListsAgain
<1>1. ASSUME IInv, SpareInv, [Next]_vars, Refused PROVE block["Status"] = 0
  <2>1. CASE shell = "storeOutbuf"
    BY <1>1, <2>1 DEF SpareInv
  <2>2. CASE shell = "list" /\ shell' = "hook"
    <3>1. vTaskList
      BY <1>1, <2>2 DEF Next, main, LampsOn, LampsOff, CreateTask, MallocFailed,
         UsbStartup, CreateQueue, SetDevice, CreateSemaphore, vDebugShell,
         SbrkLoad, SbrkStore, Prompt, Read, OutbufStore, FreeStatus, FreeOutbuf,
         Lines, ListTasks, OtherLine, Reboot, LineTyped, ShellRuns, vLEDTask,
         Light, Clear, vars
    <3>2. "Status" \notin spare
      BY <2>2, <3>1 DEF vTaskList
    <3> QED
      BY <1>1, <2>2, <3>2 DEF SpareInv
  <2> QED
    BY <1>1, <2>1, <2>2 DEF Refused
<1>2. IInv /\ SpareInv /\ [Next]_vars => [Refused => block["Status"] = 0]_vars
  BY <1>1
<1> QED
  BY <1>2, SpecIInv, InitSpareInv, NextSpareInv, PTL DEF Spec, ListsAgain

-----------------------------------------------------------------------------
(* The LED *)

LitInv == (phase = "main" => ~pin) /\ LitByATask

LEMMA InitLitInv == Init => LitInv
BY DEF Init, LitInv, LitByATask

LEMMA NextLitInv == IInv /\ LitInv /\ [Next]_vars => LitInv'
<1> SUFFICES ASSUME IInv, LitInv, [Next]_vars PROVE LitInv'
  OBVIOUS
<1> USE DEF LitInv, LitByATask
<1>1. led \in [LEDTasks -> {"dark", "lit"}]
  BY DEF IInv, TypeOK
<1>2. CASE main
  BY <1>2 DEF main, LampsOn, LampsOff, CreateTask, MallocFailed, mainVars, ledVars
<1>3. CASE UsbStartup
  BY <1>3 DEF UsbStartup, CreateQueue, SetDevice, CreateSemaphore, UsbRuns,
     mainVars, ledVars
<1>4. CASE vDebugShell \/ ListTasks \/ OtherLine
  <2>1. phase = "running" /\ phase' # "main" /\ UNCHANGED ledVars
    BY <1>4 DEF vDebugShell, SbrkLoad, SbrkStore, Prompt, Read, ListTasks,
       OutbufStore, vTaskList, FreeStatus, FreeOutbuf, OtherLine, LineTyped,
       ShellRuns, mainVars
  <2> QED
    BY <2>1 DEF ledVars
<1>5. CASE Reboot
  BY <1>5 DEF Reboot
<1>6. ASSUME NEW t \in LEDTasks, vLEDTask(t) PROVE LitInv'
  <2>1. phase = "running" /\ phase' = phase
    BY <1>6 DEF vLEDTask, Light, Clear, mainVars
  <2>2. CASE Light(t)
    <3>1. led'[t] = "lit"
      BY <1>1, <2>2 DEF Light
    <3> QED
      BY <2>1, <3>1
  <2>3. CASE Clear(t)
    BY <2>1, <2>3 DEF Clear
  <2> QED
    BY <1>6, <2>2, <2>3 DEF vLEDTask
<1>7. CASE UNCHANGED vars
  BY <1>7 DEF vars, mainVars, ledVars
<1> QED
  BY <1>2, <1>3, <1>4, <1>5, <1>6, <1>7 DEF Next, Lines

(* The LED is on only while one of the tasks that share it has lit it. *)
THEOREM LitByOwner == Spec => []LitByATask
<1>1. LitInv => LitByATask
  BY DEF LitInv
<1> QED
  BY <1>1, SpecIInv, InitLitInv, NextLitInv, PTL DEF Spec
=============================================================================
