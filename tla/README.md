# A verification project for the STM32F4 Discovery FreeRTOS demo

The program under `src/app` runs FreeRTOS and libopencm3 on an STM32F407. It offers
a debug shell on a USB serial port (CDC-ACM), blinks LEDs, and keeps a 64-bit
time from a free-running hardware counter, which also serves the kernel's run-time
statistics. This directory holds TLA+ modules of
that code, TLC configurations that check them on small instances, and proofs
for every value of the constants.

To check a module: `tlc -config CdcAcm.cfg CdcAcm.tla`. To check proofs:
`tlapm CdcAcmProofs.tla`.

## 1. The system

One processor runs four tasks of the program, all of one priority (time-sliced, preemptive):
the USB task, the debug shell, and two LED tasks; `main` creates them and starts
the scheduler, which adds the kernel's own idle and timer tasks. Those two take memory and do nothing the program
sees: the idle hook waits for an interrupt, and no software timer is created. One interrupt of the program's own,
that of the USB core, runs above them.

| Part | State | Operations | Talks to |
|---|---|---|---|
| USB serial port (`cdcacm.c`) | `UARTinQ`, `CDCACM_dev`, semaphore `usbInterrupted`, NVIC bits, endpoint state | `vUSBCDCACMTask`, `otg_fs_isr`, `cdcacm_set_config`, `cdcacm_control_request`, `cdcacm_data_rx_cb` | host (USB), shell (queue) |
| Standard input (`syscalls.c`, `_read`) | none (reads `UARTinQ`) | `_read` | shell, queue |
| Standard output (`syscalls.c`, `_write`) | `ringBuffer` | `_write`, `enq`, `sendPacket` | shell, bulk IN endpoint |
| Hires timer (`hiresTimer.c`) | `hiresTimer_upperWord`, `hiresTimer_lastReading`, the counter TIM2 | `init_hiresTimer`, `hiresTimer_getTime`, conversions (`us2ticks` and `ns2ticks` are called by nothing) | kernel (run-time statistics), shell command `timer` |
| Shell line input (`debug_shell.c`, `cmd_term_get`, `vDebugShell`) | the line buffer `line`, indices | `cmd_term_get`, the task loop | `_read`, `_write`, parser |
| Shell parser (`debug_shell.c`, `cmdParse`) | `args`, `argi`, the dispatch tables | tokenizer, dispatch, `cmd_help`, `cmd_exit` | commands |
| Shell memory and statistics commands | none of their own | `r8`..`w32`, `stack`, `tasks`, `heap`, `i`, `reboot` | raw memory, kernel (which allocates for `stack` and `tasks`), malloc |
| printf (`printf-stdarg.c`) | none (an output pointer); masks interrupts | `print`, `prints`, `printi`, `myprintf`, `mysprintf` | `_write`, one character a call |
| Heap (`syscalls.c`, `_sbrk`) | `heap_ptr` | `_sbrk`, `_sbrk_r` | malloc |
| Start-up and LEDs (`main.c`) | the pins | `main`, hooks, `vLEDTask1`, `vLEDTask2` | kernel |
| Byte order (`endian.h`) | none | pure functions, included by no file | none |
| FreeRTOS, libopencm3 | queues, semaphore, NVIC, endpoints | the API calls used | external, not in the sources |

### What is hard here

* **Interrupt against task.** The handler masks its own interrupt and wakes the
  task; the task polls the device and unmasks. Events arrive in between.
* **Queues and buffers at their limit.** The receive callback ignores the
  result of the queue send; the output buffer wraps its size at the moment it
  becomes full; a packet refused by a busy endpoint is kept.
* **Preempted updates.** `hiresTimer_getTime` reads and writes three words; the
  kernel calls it at each context switch, the shell calls it preemptibly.
* **Order of start-up.** Queue, device, semaphore and interrupt must appear in
  one order, and the tasks have equal priorities.
* **Boundaries.** Backspace at column zero, a line cut at its maximum length, too
  many arguments, times truncated to 32 bits in a product of 64, a number buffer of
  exactly the length the least integer needs.
* **Long runs.** The run-time clock goes round every 71 minutes, the product it is made
  from every 53 hours; the shell may be sent through allocations and resets for ever.

### What makes each part correct

* USB serial port: no lost wake-up, one server at a time, status served
  eventually; the queue exists before use; bytes arrive in order, none twice,
  and only a full queue loses any.
* Output: the host gets characters in order, none twice; the buffer never sends
  what was not written; nothing is lost, and what is written goes out eventually (neither
  is so: see the findings).
* Timer: a reading is never behind the true time; a difference is the time that
  elapsed (not always: see the findings). Conversions round down, and the statistics
  charge a task what it ran but for single slices in which a word goes round.
* Line input: no store leaves the buffer; what is dispatched is what was entered (not
  for a full line or after a rubout on an empty one: see the findings).
* Parser: arguments are the words of the line; what is answered follows from the words.
* printf: a printed number reads back as the argument, fields have their width, the
  buffers suffice, a call ends and interrupts are unmasked again.
* Heap: blocks are disjoint, aligned and below the limit; a command gives back what it took.
* Byte order: what one machine encodes another decodes.
* Start-up: no task uses what another has not created.

## 2. The modules

| Module | Role |
|---|---|
| `ByteSequences` | order of a sequence of numbered bytes, used by two components |
| `SerialIn` | abstract: a serial line into a bounded queue that drops what finds it full |
| `CdcAcm` | the USB task, its handler, host and shell reader; implements `SerialIn` |
| `SerialOut` | abstract: the port the comments of `_write` promise, which ships what waits in one packet and loses nothing |
| `WriteBuffer`, `MCWriteBuffer` | `_write` and its ring buffer, compared with `SerialOut`; the texts the shell writes |
| `HiresTimer` | the 64-bit time, its two callers and the counter |
| `TimerUnits` | conversions between counts and time, and the kernel's run-time statistics |
| `DebugShell` | the line buffer of `vDebugShell` and the line input `cmd_term_get` |
| `CmdParse` | the tokenizer and the dispatch of `cmdParse`, and `cmd_help` |
| `MCDebugShell` | `DebugShell`, and `CmdParse` with all short lines, in one instance |
| `Printf`, `MCPrintf` | `print` over its format, fields and numbers; the formats checked |
| `Endian` | `endian.h`: two machines exchange a word |
| `MCConversions` | `HiresTimer`, `TimerUnits` and `Endian` in one instance |
| `Boot`, `MCBoot` | from reset to the prompt, and the commands that allocate or reboot: task creation, `_sbrk`, order of the tasks, LEDs |
| `CdcAcmProofs`, `WriteBufferProofs`, `HiresTimerProofs`, `ConversionProofs`, `DebugShellProofs`, `CmdParseProofs`, `PrintfProofs`, `BootProofs` | theorems |

### CdcAcm

State is that of the code by name (`UARTinQ`, `CDCACM_dev`, `usbInterrupted`);
`pc` is the next statement of `vUSBCDCACMTask`; the NVIC enable and pending bits,
the receive FIFO and the two data buffers of the device are external. The
actions of the task follow its statements in order: `CreateQueue`, `UsbInit`,
`SetDevice`, `CreateSemaphore` (a binary semaphore is created *given*),
`DrainSemaphore`, `FirstEnable`, then the loop `TakeSemaphore`, one of
`PollIdle`/`PollSetup`/`PollOut`, the receive callback byte by byte (`RxByte`,
`RxDone`), `PollTail`, `EnableIrq`. `otg_fs_isr` is one step, as no task runs while
it does. `_read` is the queue branch of the system call, for one byte; the number it returns (one more than it
has read) is left out, as `cmd_term_get`, its only caller, ignores it. The host sends control
requests and packets and collects IN packets whenever the device allows it.

Bytes are numbered in the order the host sends them, so that loss, duplication and
reordering are visible. Requests of one kind are one member of `Requests`. Not
modelled: USB bus reset and the discarding of packets during endpoint set-up (inside
libopencm3), the descriptors beyond the packet size, baud-rate contents.

### WriteBuffer

`ringBuffer` has the fields of the C structure. `enq` and `sendPacket` are
operators on it. `PutCR` and `PutChar` are the two calls of `enq` in the loop of
`_write`, each with the test of the size that follows; `FinalSend` is the last
`sendPacket` and the return. The host collects between any two characters: the
interrupt masking of `myprintf` does not stop the USB core from emptying an endpoint. The
branch of `Put` for `size = BUFFER_SIZE` is written as in the code and never taken:
`enq` counts the size modulo 64, so the 64th character makes the buffer look empty, and
64 characters vanish although `_write` reports them all as written.

`SerialOut` says with sequences what the comments of `_write` say: what waits is shipped in one packet when the
port is free, goes on waiting when it is not, and nothing is dropped; while a whole buffer waits there is no
room for another character. With `pending` as `Contents(ringBuffer)` a call of `_write` is many steps of that port, all but
one: the step that puts the character which fills the buffer (`FillsBuffer`). `ImplementsSerialOut` is violated by it,
`PortUntilFull` says that nothing else is wrong. Not modelled: `_write` to other descriptors than standard
output (nobody does), and the two `Board_UART` wrappers that nobody calls.

### HiresTimer

The lower word of a reading is the counter itself, so a reading can be wrong in the
upper word only; errors are counted in whole periods. `SwitchContext` is the kernel's
call, whole, as interrupts are masked there. `cmd_timer` is the shell's call in steps
that follow the reads and writes of the compiled code: counter, comparison with
the last reading, load and store of the upper word, store of the last reading,
return; `timerUsed` tells the behaviours in which the command is given at all from those
in which it is not. The return may use the register of the increment or read memory again
because the variable is not volatile. `MaxGap` bounds the counts between two
context switches and within one call, with `2 * MaxGap < Period` (`HiresTimerAssumption`): half a
second, the delay of an LED task, against the 179 seconds of the counter at 24 MHz.

### DebugShell

`line` is the buffer of `vDebugShell`, with any contents at the start, as malloc
leaves it. `j` is the unsigned index of `cmd_term_get`, modulo `Width`. Each turn of
its loop is one action: `LineFull` (the test at the top), `TypeCR`, `Rubout`,
`TypeChar`; then `Strip` is the store at `line[len-2]` and `cmdParse` runs the
command. No other task uses the buffer, so the steps of a turn need not be
separated. `stray` notes a store outside the buffer, `entered` the keys stored since the prompt and not
taken back; the code knows neither. Only CR, BS and DEL are special: the keys `NUL` (ctrl-@) and `LF` (ctrl-J) are
stored as they come (`Stored`). `cmdParse` reads to the first NUL and cuts the line in
place: here at any set of its delimiters and next to any NUL, in detail in `CmdParse` (property
`CutsDelimiters`). `maxlen` is `LineSize - 1`, as 1023 is to 1024.

### CmdParse

One action per turn of the loop over the line: `Quoted` and `Unmatched` for the two
kinds of quote, `Delimiter`, `OtherChar`, then `EndOfLine` and the dispatch (`Skip`,
`Run`, `NotRecognized`). `args` holds offsets into `cmdstr`, and `argi` is its
length; the array is modelled without its bound so that exceeding it is seen.
The oddities of the code are kept: the length that is taken again from the line
already cut (`strlen` in the search for a closing quote), the index advanced twice behind a closing quote, and the
line of `COMMAND_SIZE` whose last character is not looked at. Each table has two
of its names, each abbreviated to a character. The context is left out: it is the empty string, since
nothing sets another. With no argument the code takes `strlen` of a null
pointer; address 0 holds the initial stack pointer, whose lowest byte is zero, so
the call returns.

`cmd_help` is an operator of `Run`: it searches the tables with its own copy of the
loops of the dispatch, and its result becomes `cmdErr`; the other commands return 0.

### TimerUnits

`us2ticks`, `ns2ticks`, `tics2us` and `tics2ms` are operators with the widths of the
code: unsigned words, a signed product of two words, the division of C. Nothing in the program calls `us2ticks`
and `ns2ticks`, the way back from a time to counts. `tics2us` is used by
`ChargeSlice`, which is what the kernel does with `portGET_RUN_TIME_COUNTER_VALUE` at
each context switch. The decimal factors are powers of a constant `Ten` and the words
are modulo a constant `Word`, so that a small instance meets all overflows in the order
the real constants do: first the minimum, then the sign of the 32-bit result (36
minutes), its wrap (71 minutes), the sign of the 64-bit product (27 hours) and its wrap
(every 53 hours after that). `Clamp` is `delta_tics -= delta_tics`, which is zero where
a change of sign was meant: a negative difference gives the minimum.

### Printf

`print` goes over its format with one action per literal, percent sign or directive;
`prints` and `printi` are operators on one field. `myprintf` masks interrupts for the whole
of its output, `mysprintf` and `mysnprintf` store into a buffer (the second ignores its
count). One call is one behaviour: nothing is kept from one call to the next. `PRINT_BUF_LEN`
is a constant, with `Word` the number of values of an integer. Left adjustment and zero padding
together put zeros on the right of a number; no format of the program has both. A
format that ends inside its flags or width is read past its NUL, as only the character
behind the percent sign is compared with it: `PrintfAssumption` leaves such formats out,
and a format that is just `%` is in.

### Endian

A word is the set of its one-bits, `Bits` to an octet. Two machines of any of the
platforms that `endian.h` names exchange a word of two, four or eight bytes through
memory; each either swaps the word and stores it whole (`htobe32` and the like) or goes
octet by octet (`be32enc`, `be32dec`). Three oddities are in the model. The macros `LITTLE_ENDIAN`
and `BIG_ENDIAN` are commented out; without a header of the system they
are both 0 to the preprocessor and every machine counts as big-endian (`known`). On the
STM32 (`-D__STM32__`, `Makefile:24`) `uint8_t` is an `unsigned short`, so that encoding
puts each octet in two bytes. And where `uint32_t` is a 64-bit `unsigned long` (`lp64`),
an octet shifted to bit 31 is sign-extended. No source file includes the header, so none of this is
seen in the program. On the little-endian platforms `uint16_t` and `uint32_t` may be
wider than 2 and 4 bytes; the bytes behind a stored word are taken as zero.

### Boot

`phase` is where the system is: in the lamp test of `main`, creating tasks, running, or
stopped (in the hook for a failed allocation, or by a fault). `usb` and `shell` are the next
statements of the two tasks that start up; `led` the halves of the two LED loops. `heap_ptr`
is that of `syscalls.c`; `block` notes where each owner's memory begins. The build
uses `heap_3.c` (`mk/freertos.mk`), whose `pvPortMalloc` suspends the scheduler around `malloc`:
`Allocate` is one step. The shell calls `malloc` itself (`debug_shell.c:379`), without
that protection and with no lock of the C library's: `SbrkLoad` and `SbrkStore` are the two
accesses to `heap_ptr`. Each `malloc` is one call of `_sbrk`; the C library may take more at a time
and round it.

At the prompt a line may arrive: `ListTasks` is the commands `stack` and `tasks`, whose `malloc(2048)`
goes through the same two accesses the first time. With that text in hand they call `vTaskList` or
`vTaskGetRunTimeStats`, which take an array with one entry for each task from `pvPortMalloc` (`vTaskList`) and give it back
(`FreeStatus`); if there is no memory for it the shell task stays in `vApplicationMallocFailedHook` for ever (`shell = "hook"`),
with the other tasks running on. `FreeOutbuf` gives the text back. The C library has a freed block for the next request
of its owner (`spare`); that one freed block could serve another owner, or be split, is left out. `Reboot` is the command of that name: all variables
of the program start anew, at any moment of the other tasks, but the heap's end stays where it is.
`OtherLine` stands for all other commands.

`usbFirst` tells two kinds of behaviour apart. FreeRTOS first runs tasks of equal
priority in the order of creation, and the start-up of the USB task is far shorter
than a time slice; then the shell finds the port and nobody allocates at the same time as it does. If the
USB task loses the processor before it is done (a tick in the wrong place, or an order
of tasks that another version of the kernel chooses), the shell may allocate, prompt and
read at any point of its start-up. Then, as TLC shows when the hypothesis is dropped from
`BlocksDisjoint` and `PromptHasPort`, `_sbrk` gives the same block to the shell and to the queue, the
prompt goes through a null device handle, and the first read ends in the kernel's assertion.

## 3. What the runs check

| Run | Question | Result |
|---|---|---|
| `CdcAcm.cfg` | the handshake and the receive path in every interleaving; queued input is read by a shell that reads | holds |
| `WriteBuffer.cfg` | is output in order, the buffer sound; is every step but the one that fills the buffer a step of `SerialOut` | yes |
| `WriteBufferFull.cfg` | is the buffer the port its comments promise | violated |
| `WriteBufferTail.cfg` | does the end of a text go out | violated |
| `HiresTimerDelta.cfg` | is a difference of readings the elapsed time | violated |
| `Conversions.cfg` | is a reading of the timer ever behind the true time; are the kernel's exact without the shell command; do conversions round down and agree; what do the statistics charge past every overflow; does a word arrive | never; yes; holds |
| `DebugShell.cfg` | does line input stay in its buffer, is a returned line parsed as entered; does the tokenizer return the words, destroy none, stay inside; does the answer follow from the words | yes |
| `DebugShellFull.cfg` | is what was entered parsed, also when it fills the buffer | violated |
| `DebugShellRubout.cfg` | is what is parsed what was typed | violated |
| `CmdParseQuotes.cfg` | does the error for an unmatched quote mean one | violated |
| `Printf.cfg` | does a number read back, is a field as wide as asked, are the buffers long enough | yes |
| `Boot.cfg` | is memory handed out once and inside the heap and given back, does the shell find its port after every reset, do the LEDs blink | yes, if the USB task starts first |

`MCDebugShell` and `MCConversions` check modules that share no variable in one run: each part moves while the others are in
one initial state, so the states are the sum of those of the parts and not their product.

**Properties that hold.** `InterruptToken`: the right to serve the device is in one
place (interrupt enabled, semaphore full, or task serving), so the handler never
gives a NULL or a full semaphore. `NoLostWakeup`: a task that blocks while status
waits is going to be woken. `QueueBeforeUse`: nothing uses
the queue before it exists. `ImplementsSerialIn`: the receive path, with its fairness,
implements the lossy FIFO, so that bytes keep their order; the theorems `OrderKept` and `LineStateKept` say that of the whole
path, and that SET_CONTROL_LINE_STATE is always acknowledged. `StatusServed`: every control request and end of
transfer is served. `InputReachesShell`: a byte in the queue is read if the shell keeps reading.

`HostInOrder`, `PortUntilFull` for output: the host gets characters in order, and only the step that fills the buffer
loses any. The theorem `LossIsWhole` says that it loses the whole buffer, `NewestHeld` what is left in it.

`NeverBehind`, `RunTimeExact` for the timer. The clock of the kernel is not
monotone either once the shell command runs: the step in which a preempted call
stores an older upper word takes it back by a period it had gained.
`ChargedElapsed`: because the kernel converts the whole time since boot, a task is charged
what it ran, to within 2 us; nothing, in the slice in which the 32-bit clock goes
round; and an arbitrary time only in the slice in which the 64-bit product does. `MinimumIsOne` holds up
to 36 minutes, `DelayInCounts` up to delays of 18 ms (1.8 ms for `ns2ticks`);
behind that a delay is too short, never too long. The theorem `MeasuredDelayKept` composes the two
directions, `UnitsAgree` compares the two units.

`StoresInside`, `EnteredIsLine`, `ReturnedIsParsed` for line input: the guard leaves room for CR, LF and NUL, the
buffer holds what was entered and not taken back, and a line that the return key ended is parsed whole, with nothing of
the old contents. A typed NUL or LF is part of the line; the parser, like every reader of a C string, stops at the NUL.

`ArgsFit`: a line of fewer than 64 characters cannot overflow the arguments. (The number of arguments is
never compared with the size of their array; a longer line, of one-letter words, has more than
it holds.) `CutsDelimiters`, `ArgsAreWords`: without
quotes the arguments are exactly the words. The theorem `OneHit`: one command per line. `AnswerFitsLine` relates
the command run and the value reported, those of `help` included, to the words of the line alone.

`NumberReadsBack`, `FieldAligned`, `BufferIsEnough`, `InterruptsComeBack` for `print`: the
least integer, negated to itself, still prints as it should and just fits.

`OctetStream`, `WordArrives`: each way of each platform produces the octets in the order agreed, and every
pair of machines understands each other, provided they agree on the size of an octet in memory, the macros are
defined, and a machine with a 64-bit long does not decode a word with bit 31 set. Drop any of the three
conditions and TLC finds a word that arrives changed.

`BlocksInHeap` for every interleaving,
`BlocksDisjoint`, `PromptHasPort`, `ShellGetsReady` for a USB task that starts first: a failed
allocation stops `main` in the hook, or the USB task, or ends the shell task; and if the queue was
refused, the shell's "!" finds no device. `ListsAgain`: a `stack` or `tasks` may find no memory for its text, and print
nothing, or none for the array behind it, and never prompt again; but once one has been answered,
every later one is, until a reset. `LitByATask`, `Blinks`: the pin may be dark while a
task believes it lit, never lit while neither does.

**Findings.**

1. `ImplementsSerialOut`. "We'll chunk into 64 byte pieces and send it out", "We wrote it all"
   (`syscalls.c:170-188`): while the endpoint is busy the buffer fills, its size wraps from 63 to 0, the test
   "Did we just fill a packet??" is never true, and the 64 characters are dropped.
2. `FinalPartialWrite`. When the endpoint is busy at the last `sendPacket` the rest
   stays in the buffer until the shell writes again; no callback of the IN
   endpoint sends it.
3. `DeltaIsElapsed`. A context switch between the read of the counter and the
   comparison renews `hiresTimer_lastReading`; the older count then looks like a
   wrap, and the time jumps ahead by 2^32 counts, for good.
4. `EnteredIsParsed`. A line that fills the buffer is returned without CR and LF; "strip off
   cr-lf" (`debug_shell.c:390`) takes its last two characters, and what is typed next becomes another command.
5. `ParsedIsTyped`. A backspace on an empty line takes the unsigned index below
   zero; the length returned is 2^32-1, the strip stores before the buffer, and
   the command before (or memory never initialised) is parsed.
6. `ErrorMeansUnmatched`. A quoted argument is refused as unmatched unless it is
   the first word, because the search for its end is bounded by the length of
   the line already cut.

### Bounds

* `QueueLength = 2`, `MaxPacket = 2`, `MaxBytes = 4` (256, 64, unbounded in the code):
  a packet can fill the queue, overtake its limit by one or two bytes, and arrive while
  the previous one is half-way.
* `BUFFER_SIZE = 4`, `MaxChars = 12` (64, unbounded): three times round the ring, so that a
  whole buffer can be lost and the next one sent.
* `Period = 7`, `MaxGap = 3`, `MaxWraps = 3`: wraps within a call, between the two calls, and before the first.
  Counts stand for larger steps; only the order of reads and wraps matters.
* `Ten = 2`, `Thousand = 8`, `Word = 2048`, `SystemCoreClock = 768` (3 counts to the microsecond instead of
  24), `MaxTime = 18000`: the 32-bit clock goes round twice, and the 64-bit product past its sign and
  once all the way round. Slices of 1, 7 and 100 counts: less than
  a microsecond, a few, many.
* `Bits = 1`: an octet is one bit, so that all words of up to eight octets are tried between all pairs of eight
  platforms; nothing in the header depends on the number of bits, and the theorems are for every number.
* `LineSize = 6`, `Width = 16`: a line of up to four keys, so that it can be full, be
  ended in its last place, be emptied by rubouts, hold a NUL or LF, and follow a longer one; every former contents.
* Lines of up to five characters of six kinds (two letters, a blank, both quotes, the
  character 0xb0), `COMMAND_SIZE = 5`, `MAXARGS = 2`: three words, a
  quoted argument before, behind and inside a word, one quote inside the other, and the
  line of `COMMAND_SIZE`.
* Integers of eight bits with `PRINT_BUF_LEN = 5` (the least, -128, takes four characters and the NUL, as -2147483648
  takes 11 of 12): around zero, the bases and their squares, and both ends; every
  directive with seven choices of flags and width, and mixed formats.
* `heap_start = 1`, `Align = 2`, blocks of two and three bytes, `heap_end` anywhere up to 30: the first
  block unaligned, every allocation failing for some heap, both of a command among them, and heaps with room to spare.

`CHECK_DEADLOCK FALSE` appears where a bound ends every behaviour (the number of
characters, of wraps, of counts), or where one call is a behaviour (`Printf.cfg`): there the model stops, the program
does not. In `Boot.cfg` the system itself may stop: in the hook for a failed allocation, or by a fault.

### Fairness

* `WF(UsbTask)`: the kernel time-slices tasks of equal priority, so a ready task runs.
* `WF(otg_fs_isr)`: the NVIC takes a pending, enabled interrupt.
* `WF(_read)`: only as the hypothesis of `InputReachesShell`, a shell that keeps reading.
* `WF(_write)` and `WF(HostCollect)` in `WriteBuffer`: a call runs to its end and an open
  port is polled by the host. `CallWrite` has none: the shell need not write again. Only finding 2 needs them.
* `WF(print)` in `Printf`: a call waits for nothing.
* In `Boot`, weak fairness of `main` and of each task, again time slicing. The lines typed at
  the prompt (`Lines`) have none.
* The host owes nothing in `CdcAcm`; the timers' properties are safety only.

## 4. What is proved

All theorems hold for every value of the constants allowed by the named
assumptions (`CdcAcmAssumption`, `WriteBufferAssumption`, `HiresTimerAssumption`, `TimerUnitsAssumption`,
`EndianAssumption`, `DebugShellAssumption`, `CmdParseAssumption`, `PrintfAssumption`, `BootAssumption`); those of `ConversionProofs` about the
timer name the factors of the code (`TheFactors`: 10, 1000, 96 MHz, a scale of 4) and leave the width of the words open, and
`BufferHolds` of `PrintfProofs` says by `BufferFits` how long the buffer of a number has to be for an integer of that width
(`TheBufferHolds` shows that 12 characters are for 32 bits). Every invariant and action property of a passing run is the subject of a theorem.

* **CdcAcmProofs.** The inductive invariant `IInv` is `TypeOK` with `StartupOrder`
  (which object exists at which statement), `InterruptToken`, `LineIsPending`
  and `FifoContents` (the OUT data is there exactly while the FIFO says so, and so for SETUP).
  `NoLostWakeup` is not inductive alone: the pending bit may be lost in the
  handler unless it is known to follow the line (`LineIsPending`). `QueueBeforeUse`
  follows from the order of start-up. `RefinesSerialIn` proves that each step is
  a step of `SerialIn` or leaves its variables alone; `ReadLength` is the packet
  size, so `PollOut` only moves bytes from the packet to `buf`. `OrderKept` is proved on `CdcAcm`
  itself: the path `received \o UARTinQ \o buf \o outPkt` is increasing and bounded
  by `sent`, and each action regroups it, drops one element or appends new ones
  (`OrderedUpTo` of `ByteSequences`; its lemmas are in the same module). `LineStateKept` has an invariant of its own (`LineInv`).
* **WriteBufferProofs.** Type correctness gives index safety: pointers never
  leave the array, for every buffer size. `NewestHeld` needs to know that `wPtr`
  is `rPtr + size` modulo the size and that `rPtr` is zero; `OrderKept` needs
  the newest-characters invariant to know what a packet holds; `LossIsWhole` counts.
  `PortButWhenFilled` maps the ring to the sequence of its contents and proves of every step but `FillsBuffer` that it is one
  of `SerialOut`: `PutRefines` is one call of `enq`, `SendRefines` one of `sendPacket`, shipped or refused.
* **HiresTimerProofs.** `KernelClockExact`: while nobody gives the command (`timerUsed`), the upper
  word equals the number of wraps at each reading. The invariant relates counter, last
  reading and the counts since it, which are less than a period. `ClockNotBehind` is for the
  whole specification: `RaceInv` bounds the age of the last reading by the gap since the switch and that of the call
  (`LastReadingAge`), says that the upper word lags by at most one and that the counter is then still below the
  last reading, so that the next comparison sees it (`LagIsSeen`), and follows what a preempted
  call holds in its registers from step to step (`CallAge`, `StoreInv`, `ReturnInv`).
* **ConversionProofs.** For words of every width: `ClockTyped`, `MinimumKept`, `UnitsAgree`,
  `DelaysNeverLong`, `MeasuredDelayKept`, and `ChargesRight`, whose core is that two readings of the clock
  between which the product has not gone round differ by the rounded slice or by that less a whole `Word`. For octets of every width:
  `ConvertedBack` (swapping twice is nothing) and `DecodeEncode` (decoding undoes encoding). A word is
  a set of bit numbers, and each equality is shown bit by bit. `StoredOctets` and `WordsArrive` are about two machines:
  `ExchangeInv` says by which expression memory and the loaded word came about. Both ways of storing are shown to
  produce one sequence of octets, the `Stream` of the word in the order agreed (`BytesAreStream`, `EncodedIsStream`), and both ways
  of loading to recover a word from its stream (`ValueOf`, `StreamRead`), so that any pair of ways and
  of platforms composes. Only a machine with two-byte octets needs an argument of its own (`ArrayRead`).
  `Typed` is the type invariant of all parts of the run.
* **DebugShellProofs.** The invariant adds to the checked properties that an index that has gone round comes with
  nothing entered (`WrappedIsEmpty`), and that between the end of a line and the strip the length is that of what was entered,
  and two more if the return key ended it (`LengthIsEntered`). Each action has its lemma; `RoomMeansEntered` says that
  behind the guard the index is the number of keys entered, which is what makes the stores safe. `ParsedAsEntered` follows for
  a returned line, as the strip then takes off the CR and LF just stored; for a full line the same two facts give finding 4.
* **CmdParseProofs.** The invariant says that only NULs are put into the line and that its
  own NUL stays (`OnlyCut`), and counts: two characters of the line for each argument, three
  once the index has passed the end (`ArgCount`). The second keeps the index one behind the
  NUL at most and gives `ArgsFit`. `ArgsMatchWords` adds what has been found of the words (`WordParts`): what is not yet
  looked at is as it came, the open argument is the beginning of a word, each argument is a word with its NUL behind it,
  and each word that ends before the index is an argument. `OneHit` needs only that no name is in both tables. `AnswersFit`
  joins tokenizer and dispatch: the k-th argument is the k-th word, by counting the words that begin before it (`CountBefore`,
  `WordOfArg`), and the string it points to is the text of that word (`TextOfArg`); `AnswerInv` adds that
  nothing has been called or reported before the dispatch. `LineInputContract` proves of the whole buffer what
  `cmdParse` of `DebugShell` allows it: NULs at delimiters or in the last character of a string. This is what
  lets the proofs about `DebugShell` take the tokenizer as a choice.
* **PrintfProofs.** `Numeral`, `Positional` and `Power` are recursive functions. The induction theorems of the library cannot be
  used, so the module starts from the least element of a set of numbers (`LeastNumber`, `CourseOfValues`, `Induction`) and
  shows that a function of the form used here satisfies its equation (`Recursion`: approximations up to n exist and agree). From
  the equations follow the value of a numeral, which is the number (`NumeralValue`), and its length, which is where the number lies
  between the powers of the base (`NumeralLength`). `PrintiLayout` says where blanks, sign and digits of a field are, in the four cases
  of sign and padding. `FormatInv` is inductive: the loops over the characters of the format stop before its NUL
  (`DirectiveParts`), and the field done last is what `prints` or `printi` makes of its argument; `NumbersReadBack` and
  `FieldsAligned` hold of any such field, and `BufferHolds` adds `BufferFits`. `CallsEnd` and `MaskedOnlyByCall` are the safety
  half of `InterruptsComeBack`: a call that prints goes forward in its format at each step, and the step that ends it unmasks.
* **BootProofs.** The invariant says that `heap_ptr` is where a block may begin, that
  every block ends below it (`BelowTop`), and that what the shell has loaded is still
  the end of the heap when nobody can come in between (`LoadedTop`, from `UsbBeforeShell`). `TakeSound` needs none
  of the last two, so `BlocksInHeap` holds for every interleaving; `TakeDisjoint` needs them.
  `PortProgress` lists what exists at each statement of the USB task. `NoLeak` follows from where the two blocks of a command are: the text and the array are with malloc again or in
  use, and the array was never taken without the text (`SpareInv`), so that neither can be refused once the array exists. `LitByOwner` that a lit pin has a task that lit it.

Only model-checked: the liveness properties `StatusServed`, `InputReachesShell`, `ShellGetsReady`, `Blinks`, `InterruptsComeBack` and
the liveness half of `ImplementsSerialIn`. Fairness and ENABLED are outside the prover's reach.

## 5. Plan

All components with a state of their own are modelled, and all invariants proved. What could follow:

1. The safety halves of the other liveness properties, as `CallsEnd` is for `InterruptsComeBack`: that a request once
   pending stays until it is served (`StatusServed`), that each step of the start-up of `Boot` goes forward to the prompt or
   to one of its ends (`ShellGetsReady`).
2. A composition of `DebugShell` and `CmdParse` on one buffer. `LineInputContract` already justifies that
   `DebugShell` cuts the line at any set of delimiters.
3. A composition in which the IN endpoint of `WriteBuffer` and the acknowledged transfers of `CdcAcm` are one.

## 6. What is not modelled, and why

`r8`..`w32` read or write the address the user gives, without a look at the number of their arguments (a missing
one is a null pointer, since `args` is cleared for each line); `heap` and `i` print what the library
returns. None of them keeps a state. Of the configuration headers only `portGET_RUN_TIME_COUNTER_VALUE`
behaves. Clocks, pin modes and interrupt priorities are set once by `main`; the stack overflow hook and the fault
handler of the shell command `hardfault` end the program. The polled branch of `_read`
(`Board_UARTGetChar`) is entered only by a shell that runs before the USB task, and ends in an assertion at
its first call. Linker script and make files have no
run-time behaviour beyond the constants used. FreeRTOS and libopencm3 are submodules whose
code is not here; what the program relies on is modelled and marked external in
`PROJECT.json`.
