# DOSBox-X: a verification of the machine core

This directory holds TLA+ specifications of the parts of DOSBox-X (the remc2
fork) that decide *when*, *to whom* and *out of what* things happen in the
emulated machine: the interrupt controllers, the event queue with the loop that
drives it, the memory arena of DOS, the page allocator under XMS, EMS and VCPI,
the files that DOS processes share, and three devices driven by events: the
keyboard controller with its mouse, the serial port, and the Sound Blaster on a
DMA channel. TLC checks them on small instances; the facts that matter most are
proved for every instance with TLAPS.

Paths are relative to the root of the repository, whose own code is in `src/`
(`hardware/pic.cpp` below is `src/src/hardware/pic.cpp` in `PROJECT.json`,
which starts one directory higher).

## 1. The system

DOSBox-X is one emulation thread. `Normal_Loop` (dosbox.cpp) alternates three
things: it runs due events and pending interrupts (`PIC_RunQueue`,
`PIC_runIRQs`), it lets the CPU core execute for a granted number of cycles, and
once per emulated millisecond it advances the timer tick (`TIMER_AddTick`).
Devices are passive: port handlers that the guest's IN and OUT instructions call,
and events they queue for later. DOS, BIOS, XMS and EMS are native functions that
the guest reaches through callbacks. There are no data races between devices, but
a great deal of *interleaving*: an event, a port write, a nested interrupt, a
reset or another program's allocation may come between any two instructions of
the guest, and handlers queue and remove events while the queue is being run.

| Component | State | Operations | What is hard | What makes it correct |
|---|---|---|---|---|
| Interrupt controllers (hardware/pic.cpp) | two `PIC_Controller`s, `PIC_IRQCheck`, `PIC_IRQCheckPending` | raise, lower, command and data ports, dispatch, reset | edge-triggered hand-over in four hops, a cached priority, the cascade | no deliverable request is forgotten; nesting follows priority |
| NMI latch (cpu/cpu.cpp, hardware/cmos.cpp) | pending, active, gate | raise, check, take, IRET, two mask ports | shares `PIC_IRQCheck` with the IRQs | an NMI raised in another's handler is remembered |
| Event queue (hardware/pic.cpp, dosbox.cpp) | sorted list and free list of 512 entries, the entry in service, cycle counters | add, remove, run, tick | handlers change the queue being run; the CPU runs ahead of it; a full queue | each event is served once, on time, in order; time is not lost |
| Ticker list (hardware/pic.cpp) | linked list of handlers | add, delete, tick | the list is changed while it is walked | every ticker is called once per tick |
| DOS arena (dos/dos_memory.cpp) | memory control blocks in guest memory, strategy, UMB link | allocate, resize, free, free a process, link | fragments, stale headers, two chains that become one | blocks tile memory; held blocks stay; free memory can be had |
| Page handles (hardware/memory.cpp) | one word per 4K page of extended memory | allocate, reallocate, release | blocks that move, three drivers on one table | no page is shared or lost |
| XMS (ints/xms.cpp) | 50 handles, lock counts, A20 counters, HMA flag | allocate, resize, lock, free, move, A20 | locks, sizes of zero | a block keeps its data and lies in a row |
| EMS and VCPI (ints/ems.cpp) | handles, frame mappings, saved maps | allocate, reallocate, release, map | handles without pages, mappings that outlive them | a handle keeps its data; a request fails with an error code |
| DOS files and processes (dos/dos_files.cpp, dos_classes.cpp, dos_execute.cpp) | system file table with counts, job file tables | open, duplicate, close, inherit, exit, resize | counts against references; a handle outlives its file | a file is closed when its last handle is |
| DMA (hardware/dma.cpp) | channels, masks, counts, callbacks | program, mask, read | the terminal count in the middle of a request, callbacks into the device | device and channel count the same units |
| Keyboard controller (hardware/keyboard.cpp) | scan code buffer, output byte, aux buffer, pending commands | keys, mouse, ports 60h and 64h, transfer and reset events | two devices on one output byte, each with a line | bytes arrive whole, in order and at the right device's handler |
| Serial ports (hardware/serialport/) | registers, two fifos, error fifo, guard time, events | registers, bytes, lines, events | five causes on one line; a transmitter driven by its own events | the line follows the causes; the transmitter never stops or doubles |
| Sound Blaster (hardware/sblaster.cpp, mixer.cpp) | mode, block, speaker, interrupt, events | DSP commands, status, mixing, events, DMA callback | mixer, events and callback all move one transfer | one interrupt per block, with its last unit |
| Interval timer, MPU-401, IDE, floppy, NE2000 | registers, FIFOs, delayed events | port I/O, events | FIFO limits, IRQ edges | one IRQ per cause |
| Other sound cards, mixer arithmetic, video | buffers, positions | port I/O, mixing, drawing | the audio thread, wrapping positions | buffers are neither overrun nor repeated |
| CPU cores, FPU, paging, callbacks | registers, TLB, code caches | instruction execution | the order of flags and faults | instruction semantics |
| Front end, shell, debugger, saved states, the native engine | host state | user interaction, files | host I/O | - |

How they interact:

* a device calls `PIC_ActivateIRQ`; the slave controller raises the cascade line
  of the master, the master queues `PIC_IRQCheckDelayed` in the **event queue**,
  that event sets `PIC_IRQCheck`, and `PIC_runIRQs` delivers to the **CPU**;
* `CPU_Raise_NMI` sets the same flag `PIC_IRQCheck` directly;
* `PIC_AddEvent` takes granted cycles back from the **CPU** when the new event is
  the first; an event handler may call the whole emulator loop (`CALLBACK_Idle`);
* `DOS_Execute` allocates from the **arena** and hands the blocks to the new
  program; `DOS_FreeProcessMemory` takes them back at its end;
* **XMS**, **EMS** and **VCPI** allocate from one table of **page handles**;
* processes reach **files** through handles of their job file table, which hold
  numbers of the one system file table; a child inherits them, DUP2 and exit
  change the counts of both tables;
* keyboard, serial port and Sound Blaster queue their own **events** and raise and
  lower one line each (the keyboard controller two) of the **interrupt
  controllers**; the Sound Blaster reads a **DMA** channel, which calls it back
  when a program or the terminal count masks it.

`PROJECT.json` names the remaining parts with the reason each is left out, and
lists every hazard at its line.

## 2. Plan

Most important behaviour first; each module before what composes it.

1. `Pic` - the interrupt path; `PicGuest` - it under a guest that ends its
   interrupts; `PicProofs` - its safety for every instance. *Done.*
2. `EventQueue` with `EventSchedule` as its abstract specification and
   `EventQueueRefines` as the mapping; `EventQueueProofs` - lists, order, time
   and the refinement for every instance. *Done.*
3. `DosMemory` - the arena; `DosMemoryProofs` - all that its run checks, for every
   layout of memory. *Done*, for programs that keep to their own blocks.
4. `PageHandles` and `ExtendedMemory` - allocator and its three drivers;
   `ExtendedMemoryProofs` - all that their run checks, for every amount of memory.
   *Done*, without the mapping of EMS pages.
5. `FileReferences` - a set of references, a file open while one is left - and
   `DosFiles`, its implementation by counts; `DosFilesProofs` - that it is one,
   for every number of processes, handles and files. *Done.*
6. `Keyboard` over `DeviceBytes`, which says what two devices on one output byte
   promise; `KeyboardProofs` - that it keeps it, for every size of the ring.
   *Done.*
7. `Serial` - a port and its events; `SerialProofs` - all it promises, for every
   size of the fifos. *Done.*
8. `SoundBlaster` over `DmaChannel`, implementing `BlockTransfer`;
   `SoundBlasterProofs` - that it does, for every counter, block and rate, but for
   the fairness. *Done.*

Every invariant and every step property that a run checks is now a theorem. What
would come next: the mapping of EMS pages, the timer and the ticker list, and the
devices of section 9.

A dozen runs is what the project wants to keep: all of them can be repeated in
minutes after a change. The runs are one per component, two where a component
needs a different guest or fairness, and one disagreement. Questions that had a
run before and have none now, because another says more:

* the PC-98's cascade (last line, ignored while in service): the theorems of
  `PicProofs` cover every cascade position and setting;
* the queue's lists under nested loops, changed speeds and single steps: now
  checked by `evq_live`, whose system has these disturbances;
* the resize that fails to report the maximum and the reallocation that exits:
  section 8 has them.

Types (`TypeOK` of `EventQueue`, `DosMemory`, `ExtendedMemory`, `PicGuest`) hold
in the configurations of these modules too, and can be checked by naming them in
the cfg. No run spends time on them.

## 3. Modules and the code they model

### Pic, MCPic

`pic` holds the two controllers as records with the fields of `PIC_Controller`;
`imrr`, `isrr` and `isr_ignore` are derived in the code and are operators here.
The methods (`raise_irq`, `lower_irq`, `check_for_irq`, `set_imr`, `activate`,
`deactivate`, `start_irq`) call each other across the two chips, so they are
operators from a state of both chips to the next (`RaiseIrq`, `LowerIrq`,
`CheckForIrq`, `SetImr`, `EndOfInterrupt`, `StartIrq`), and an action applies the
whole chain of calls at once, as the code does. Actions:

* devices: `PIC_ActivateIRQ`, `PIC_DeActivateIRQ` (with the rerouting of IRQ 2
  and 9 in `Route`), `CPU_Raise_NMI`;
* the guest's ports: `Icw1`, `WriteIcw`, `WriteMask`, `SpecificEoi`,
  `NonspecificEoi`, `SetSpecialMask`, `pc_xt_nmi_write`, `cmos_selreg`;
* the guest's CPU: `SetIF`, `CPU_IRET`;
* the emulator: `PIC_runIRQs` (with `DispatchIrq` and `CPU_NMI_Interrupt`),
  `PIC_IRQCheckDelayed`, `CPU_Check_NMI`, `PIC_Reset`.

The guest is arbitrary: any write in any order with IF set or clear. The number
of lines, the cascade line, the machine (XT, AT, PC-98) and the three settings
that change behaviour (`never mark cascade in service`, `ignore cascade in
service`, the cs=ds hack) are constants. The order of the two chips' checks, and
of clearing `PIC_IRQCheck` and queueing the event again, are as in the code.
Left out: rotation of priorities (the code ignores it too), the poll command and
register reads, which change nothing, and vectors, which no decision reads.

### PicGuest, MCPicGuest

Composes `Pic` with a guest: `stack` holds one frame per handler being executed,
with the chips it has still to send an EOI to. `GEoi` ends the interrupt at the
slave first, then at the master; `GIret` returns. Requests are counted down by
`raises`, so that the devices alone cannot starve a line.

### EventQueue, EventSchedule, EventQueueRefines, their instances and proofs

`queue` and `free` are the two lists linked through `pic_queue.entries`, as
sequences; `entry` is the array. `passes` is the stack of activations of
`PIC_RunQueue` with the local `index_nd` of each and the entry whose handler
runs. `left`, `cyc` and `cmax` are `CPU_CycleLeft`, `CPU_Cycles` and
`CPU_CycleMax`; `TickIndexND` and `MakeCycles` are the macros of pic.h. Time is a
whole number of units, `U` to the millisecond, and every speed divides `U`, so
the floating-point division of the code is exact here while the truncations to
whole cycles stay (`MakeCycles` truncates toward zero, as the cast does).

`mode` says where the innermost `Normal_Loop` stands. `PIC_RunQueue` is cut into
`BeginPass`, `Serve`, `HandlerReturns` and `EndPass`, because handlers run in
between; `Execute`, `CPU_HLT` and `CpuReturns` are the core; `TIMER_AddTick` and
`AdjustCycles` are the tick. Devices act (`PIC_AddEvent`, `Activate`,
`PIC_RemoveEvents`, `PIC_RemoveSpecificEvents`) wherever their code can run. The
set `Disturbances` turns on what breaks the accounting of time: a change of the
cycles setting, a forfeited tick, single steps; `Idlers` names the handlers that
run the emulator loop inside themselves.

`EventSchedule` is what the queue promises devices, without lists or cycles: a
sequence of events in order of arrival and a clock. `EventQueueRefines` adds a
history variable (the order of arrival, which the list does not keep) and maps
the history and the entry in service to `waiting` and `current`.

### DosMemory, DosMemoryProofs, MCDosMemory

`mcb` gives the header that each paragraph holds *or once held*: merged headers
are not cleared, as in guest memory, and `Chain` walks types and sizes the way
the code does. `Compress`, `CarveFront`, `CarveBack`, `Shrink`, `Grow` and
`Released` are the surgery of `DOS_CompressMemory`, `DOS_AllocateMemory`,
`DOS_ResizeMemory` and `DOS_FreeProcessMemory`; each action contains the
compression the code does before or after it, with the argument it passes.
`held` is what programs were told: the reference the chain is compared with.
`SetPSPSeg` is the hand-over of blocks by `DOS_Execute`.

### PageHandles, ExtendedMemory, ExtendedMemoryProofs, MCExtendedMemory

`PageHandles` has the functions of memory.cpp as operators on the table of
words: best match, allocation in a row or gathered, reallocation in place, by
extension or by moving, release. `ExtendedMemory` has one variable for each
driver's handles and one for the table, an action per driver function, and
`content`: each program fills each page it gets with its own name, and
`MEM_BlockCopy` copies that, so that the contents tell whether pages were mixed
up. `stopped` records the `E_Exit` that ends the emulator.

### FileReferences, DosFiles, MCDosFiles, DosFilesProofs

`FileReferences` knows references, the handles of processes and the file control
blocks: what each refers to, and that an entry is open exactly while something
refers to it. `DosFiles` has what the code has: `files`, the table `Files[]` with a
count per entry; `refersTo`, the bytes of the job file tables and FCBs; the size
of each table, the parent of each process, and the current one. Its actions are
the DOS calls with the order of their steps: `DOS_OpenFile` takes the first free
entry and the first free handle, `DOS_ForceDuplicateEntry` drops what the target
referred to first, `DOS_ChildPSP` and `DOS_Execute` copy and count the handles
that may be inherited, `DOS_Terminate` closes as many handles as the process has,
but of the current one. Opening by FCB writes the number of the entry into the job
file table as if it were a handle, and the byte stays; `fcbBytes` has these bytes,
apart from `refersTo`, because no count stands for them. `Misuses` names the
requests that the code gets wrong (section 8); the run and the proofs leave them
out. An FCB that is opened or created is none of them as long as the byte is not
that of a handle in use.

### DeviceBytes, Keyboard, KeyboardProofs, MCKeyboard

`DeviceBytes` says what a program that reads port 60h may rely on: bytes come in
the order they were sent, one at a time; no device's byte replaces an unread one;
and a movement of the mouse goes into the ring whole or loses its beginning with
all that waited. An answer of the controller does replace an unread byte of a
device, as in the code, but only one that was asked for after that byte came on
offer: a program that commands the controller without a look at the port loses a
byte of a key or a packet. `Keyboard` has `keyb`, the
struct of keyboard.cpp with the number of transfer events in the queue: the ring
(`buffer`), the controller's own answers (`len8042`, `pos8042`), the byte on offer
(`port`) and the flag `scheduled`. Its actions are keys, repeats and movements
from the host, `KEYBOARD_TransferBuffer` and `KEYBOARD_ResetDelay`, and the reads
and writes of ports 60h and 64h with the byte a command waits for. Bytes are told
apart by device and place in their message, so that torn messages are seen. That
no more than `MaxAnswers` answers wait is a rule for programs, so the branch for a
full `buf8042` is left out; so is the test of `reset` for parameters of the keyboard,
since a reset forgets the command. The
interrupts that go with each byte are left to `Pic`.

### Serial, SerialProofs, MCSerial

One record holds the registers of a 16550, both fifos as counts with the errors
of the receiver, and the events that are due. The helpers are the methods of
`CSerial` (`rise`, `clear`, `ComputeInterrupts`, `receiveByteEx`,
`ByteTransmitting`, `ByteTransmitted`), the actions are the registers a program
reads and writes, the bytes and lines of the far end, and the events. `owed` and
`untold` are history: the bytes that wait in the fifo to be sent, and room that no
program was told of. A byte written to a full fifo overwrites the last one there
and is not counted in `owed`: as many wait as before.

### DmaChannel, SoundBlaster, BlockTransfer, SoundBlasterProofs, MCSoundBlaster

`DmaChannel` is one channel: `Read` in closed form is the loop of
`DmaChannel::Read`, which cuts at the terminal count, reloads or masks. `SoundBlaster`
has the card: `GenerateDMASound`, `SB_OnEndOfDMA`, `CheckDMAEnd`, the callback
(`OnMask`), the commands of the DSP. Every command that calls `FillUp` first lets
the mixer take what it needs up to now, so a block may end inside a command.
`ends`, `silents` and `irqs` are the events queued. `aligned` is history: block
and channel began together. `BlockTransfer` knows none of that: a block, whether
it plays, and a signal. The callback's "Catch up to current time" never takes
anything, because the channel is masked before it is called.

## 4. Runs

| Run | Question | Answer |
|---|---|---|
| `pic_at` | arbitrary guest on a PC/AT: is a request lost, is `active_irq` right, do interrupts nest by priority? | holds |
| `pic_xt` | one controller, every initialization, special mask mode, NMI ports, resets: is a request lost? | holds |
| `pic_guest` | does a well-behaved guest get every request and every NMI? | holds, if no slave device withdraws a request |
| `pic_spurious` | is a cascade request cleared when the slave has none? | no: the wrong chip's line is lowered |
| `evq` | lists, order, times, cut of the grant, and the refinement of `EventSchedule` | holds |
| `evq_live` | do the lists survive nested loops, changed speeds and single steps, and does every event leave the queue? | they do, and it does, if handlers queue with positive delays |
| `dosmem` | do the chains tile memory, keep held blocks, give out what is free and resize to the maximum in low memory? | holds |
| `xmem` | do XMS, EMS and VCPI keep each other's pages and their own contents? | holds |
| `dosfiles` | do counts implement references, through inheritance, duplication and exit? | holds, for programs that section 8 does not exclude |
| `keyboard` | are bytes handed over in order, none replaced but by an answer asked for meanwhile, and do they keep coming? | holds, with the mouse enabled |
| `serial` | does the line follow its causes, is nothing left untold, does the transmitter go on? | holds, for programs that leave the byte alone that is about to be sent and do not read again what was received with an error |
| `sound` | is a transfer driven by exactly one thing, in step with its channel, with one interrupt per block? | holds, for programs that keep the rules in `SoundBlaster` |

The properties, by what they would catch:

* **A lost interrupt.** `NoLostIrq` and `NoLostSlaveIrq` say that something is on
  its way for each deliverable request. They need every path that makes a request
  deliverable (raise, unmask, EOI, mode, automatic EOI, dispatch of another) to
  look again. `RequestServed` says the same end to end.
* **Wrong nesting.** `ActiveIrqInService`, `ActiveIrqIsHighest`,
  `DispatchInPriority` tie the cached `active_irq` to the lines in service, and
  `InServiceMatchesStack` ties those to the handlers the guest is in.
* **A corrupted queue.** `Partition`, `Sorted`; **a check that never comes**:
  `CheckLostOnlyWhenFull`.
* **Wrong time.** `GrantEndsAtFirstEvent` (the CPU never runs past the first
  event), `ServedOnTime`, `ClockConserved` and, all together, `KeepsSchedule`.
* **A corrupted arena.** `ChainsTile`, `HeldIntact`; **memory that is free and
  cannot be had**: `NoFalseFailure`, which compares the chain with the gaps
  between held blocks, and `ResizedToMaximumLow`.
* **Mixed-up pages.** `DataKept`, `NoPageLost`, `XmsInARow`; **exits**:
  `AllocationSucceeds`.
* **A file closed too early or never.** `RefsCounted`, `KeepsReferences`.
* **Torn, repeated or misdirected bytes.** `EventsMatch` (one event for what waits,
  none for nothing), `KeepsBytes` (the refinement of `DeviceBytes`), `Drains`.
* **A port that falls silent.** `IrqFollows`, `NothingUntold`, `TxGoesOn`; **bytes
  dropped or errors miscounted**: `GuardHoldsByte`, `ErrorsCounted`.
* **A transfer that runs double, stops or ends at the wrong place.** `Driven`,
  `InStep`, `Transfers`.

Each property has a mutant: an operator beside the one it replaces, marked
"mutant", that errs the way a slip in that code would, and that TLC finds
violating the property in the same configuration.

## 5. Bounds, and why they are enough

* **Controllers of three lines** (`N`), the cascade on the middle one: a line
  above, the cascade itself and a line below are all the positions that priority
  can tell apart, and two slave lines nest. The theorems of section 7 remove this
  bound.
* **Four requests** in `pic_guest`: enough for one on each line, nested, with one
  repeated.
* **Three entries** in the queue, two in `evq_live`, so that it is full again and
  again and drops events and checks; delays 0, 1 and 5 in units of a quarter
  millisecond (now, within the grant, after the tick), speeds of 2 and 4 cycles
  per millisecond (an index is or is not a whole number of cycles), instructions
  of up to 2 cycles, so that the last one overruns its grant. `evq` has no handler
  that runs the loop (`Idlers`), since a grant does not end in time under one;
  `evq_live` has, but one speed: two would take it beyond minutes, so a change of
  the setting there drops the cycles and leaves the speed.
* **Nine paragraphs** of arena, three blocks held, two owners, requests of 0, 1
  and 3: blocks of size zero, a free block between two held ones, three free
  neighbours, and the MCB over the ROM area with none of its own all occur. The theorems
  remove this bound.
* **Four pages**, EMS pages of two, two handles of each kind: blocks that grow in
  place, that move down and up, that are gathered around another's, and a table
  that is full. The theorems remove this bound, too.
* `Past = 0` says that the word behind the table of pages is not zero: the walk
  of `MEM_AllocatePages` over free pages does not look for the end of memory, so
  its result depends on that word. With `Past = 1`, `DataKept` fails.
* `Strays = FALSE` is about XMS blocks without size, which the run has: programs
  free or resize one only while the page it names is free, not to just that page,
  nor so that it moves over it. With `TRUE`, `NoPageLost` and `DataKept` fail
  (section 8).
* **Two processes, three entries, two or three handles each and an FCB**: a file
  with a handle in each, duplicates within one, a table that grows by one handle,
  entries that run out, and FCBs that open files first or after a handle has.
  `Misuses` is empty: with any of them `RefsCounted` fails (an end after the
  parent's needs a third process). The theorems remove the bounds, not the rule.
* **A ring of six bytes**, keys of two, packets of three, at most three answers:
  messages that just fit, that do not and tear, a full ring, answers between the
  bytes of a message.
* **Fifos of two bytes**, thresholds of one and of the whole fifo: bytes below, at
  and above the threshold, overrun with and without an error in the last place,
  a transmitter with a byte in the fifo behind the one that is being sent.
  `Careful` and `Rereads = FALSE` are rules for programs (section 8); without either
  a property fails in a few steps.
* **Blocks of two and four units over a channel of two or four**, rates at which a
  block is shorter than three milliseconds and longer: blocks that end in several
  pieces, one END event or none, a channel that masks itself in the middle of a
  block, at its end, or starts again. Counts are modulo four, as they are modulo
  65536 in the code, so that a channel that ran out stands at the highest count.

Symmetry is used where the code compares for equality only: owners of blocks,
entries of the queue (their initial order in the free list is arbitrary in the
model). Views drop what no action reads before writing it: headers that no chain
reaches, contents of free pages, the index of a free entry and `srv_lag` while
nothing is served. The runs with liveness use neither.

Deadlock is checked except in `xmem`, where `stopped` models the end of the
program.

## 6. Fairness

* `FairSpec` of `EventQueue`: `Normal_Loop` calls `PIC_RunQueue`, the core and
  `TIMER_AddTick` in turn for as long as the emulator runs, and handlers return,
  so each of these steps is weakly fair; so is `EndTrap`, because a single step
  ends with its instruction. `Execute` is strongly fair: the core takes a cycle off
  before an instruction can reach a device, so that no stream of queued events
  that cut the grant can keep it from executing.
* `GFairness` of `PicGuest`: the emulator's own steps are fair for the reason
  above; `GInterrupt` strongly, because the loop calls `PIC_runIRQs` between any
  two runs of the core whatever the guest does with IF. That a handler sends its
  EOIs and returns, and that a guest sets IF again, is an assumption about the
  guest: DOS programs that do not, lose interrupts on real machines too.
* `Fairness` of `Keyboard`: an event that is queued is served, as `evq_live` shows
  of the queue; and a program reads what is on offer, which its handler of
  interrupts 1 and 12 does. `Drains` further supposes that keys and commands
  cease: a program that asks the controller forever starves the keyboard
  (section 8).
* `Fairness` of `SoundBlaster`: `MIXER_Mix` is a handler of the tick and renders
  every millisecond, so an enabled channel is asked for samples again and again,
  and Silent events are served like all others. `BlockTransfer` states its fairness
  without ENABLED: a card that plays takes units until its signal is up.

Nothing is assumed of devices and hosts: they may raise, withdraw, type and send
at will.

## 7. What is proved

`PicProofs` proves, for every number of lines, every cascade position, every
machine and setting, and every guest (where the table says so, every guest
that behaves):

| Theorem | Statement |
|---|---|
| `TypeCorrect` | `Spec => []TypeOK` |
| `ActiveIrqCorrect` | `Spec => []ActiveIrqInService` |
| `MasterLosesNone` | `Spec => []NoLostIrq`, if no master line has the cs=ds hack |
| `SlaveLosesNone` | `Spec => []NoLostSlaveIrq`, if no slave line has it; the property speaks of a slave that is not in special mask mode |
| `ActiveIrqHighest` | `Spec => []ActiveIrqIsHighest`, without special mask mode |
| `PriorityRespected` | `Spec => DispatchInPriority`, without special mask mode |
| `StackMatches` | `GSpec => []InServiceMatchesStack`, where handlers end their interrupts |

Assumptions: `LinesAssumption` and `ConfigAssumption` of `Pic` and
`GuestAssumption` of `PicGuest`, which TLC evaluates in every run of these modules. The hack must be excluded where it is,
because the code itself gives up there: a line that is passed over loses the flag
and no event is queued again. Special mask mode must be excluded from the other
two because it exists to let lower lines interrupt: `start_irq` then sets
`active_irq` to a line that is not the highest in service.

The argument. `NoLostIrq` is not inductive. The invariant `IInv` says of the two
chips together

* `Sound`: types; `active_irq` in service (`ActiveOK`); a slave that is not there
  is silent; and the master's `Ready` implies an event queued or, for the state as
  a whole, the flag;
* `Linked`: the slave's `Ready` implies the cascade request at the master.

The difficulty is that between the calls of one action neither half holds: an
operation on the slave may leave `Linked` broken until the slave's check, and one
on the master leaves `Sound` broken until the master's. So each method has a
lemma that says under which half it may be called and which it restores
(`RaiseEither`, `LowerEither`, `CheckEither`, `SetImrEither`, `EoiEither`,
`StartOne`, `SlaveStart`, `DispatchOne`, `AutoEoiEither`), with a parameter that
says whether the caller answers for the flag. The step lemmas (`DeviceStep`,
`PortStep`, `CpuStep`, `EmulatorStep`) chain them as the actions chain the calls.
`ReadyRaise` and `ReadyLess` carry the real content: the condition under which
`raise_irq` forwards is exactly the one under which a chip that was not ready
becomes so, and nothing else makes it ready without a check.

For the priorities `PicProofs` strengthens `IInv` with `Ordered`: no controller is in special
mask mode, and `active_irq` is what `update_active_irq` would compute. Two
relations between chip states carry the argument: `Keeps` (the methods that raise,
lower, mask and look leave what is in service) and `Rises` (lines that entered
service were requested, unmasked and above the others), with one lemma per
method. `CandidateAbove` is the step that matters: the ceiling of the search is
`active_irq` or, with the cascade ignored in service, one more, so what the search
finds is above every line in service or is the cascade itself.

For the handlers it shows that every step of the guest is a step of `Pic`, so
that `IInv` holds, and counts: `Starts` says that a pass of `PIC_runIRQs` adds at
most one line at each controller, whether it ends in a handler, in a spurious
cascade or in nothing, and `EoiServes` that an EOI takes away exactly one if any
is in service. `PushHandling`, `EndHandling` and `PopHandling` count the frames that
name a controller. A guest that sends one EOI too many, or none, is outside of this.

`DosFilesProofs` proves, for every number of processes, handles, entries and FCBs,
and programs that make none of the requests in `Misuses` (change the number of
handles twice, DUP2 beyond the table, a volume label through a handle, an FCB over
a handle in use or the use of the byte it left, INT 20h of another process, an end
after the parent's):

| Theorem | Statement |
|---|---|
| `ReferencesCounted` | `Spec => [](TypeOK /\ RefsCounted)` |
| `CountingImplements` | `Spec => KeepsReferences` |

from `SizesAssumption` and `OwnersAssumption`, which TLC evaluates. `RefsCounted`
is inductive together with `TypeOK` and facts about processes (`IInv`): the
current one is live, the table of one that is not has its first size, so that
the process `DOS_NewPSP` makes starts with a table of known bounds, and a byte
written for an FCB is in a table and stands for no handle. The argument is about how the set of holders of one entry
changes: each call adds or removes a named set of references (`Holders`), and the
count is changed by the size of that set, which the lemmas on `Cardinality`
at the head of the module turn into arithmetic. The one case with content is
`DOS_Terminate`, whose loop stops closing an entry when its count is exhausted:
with the invariant, no handle is passed over. The refinement follows from the
invariant: an entry is in use exactly while its set of holders is not empty.

`EventQueueProofs` proves, for every set of entries and handlers, every table of
speeds, delays and lengths of instructions, and every depth of nesting:

| Theorem | Statement | Assuming |
|---|---|---|
| `TypeCorrect` | `Spec => []TypeOK` | |
| `EntriesAccountedFor` | `Spec => []Partition` | |
| `QueueSorted` | `Spec => []Sorted` | |
| `CheckLostByRequest` | `Spec => CheckLostOnlyWhenFull` | |
| `TimeConserved` | `Spec => ClockConserved`, which is about steps of devices and of the queue | no handler runs the loop |
| `GrantEnds` | `Spec => []GrantEndsAtFirstEvent` | no handler runs the loop |
| `EventsOnTime` | `Spec => []ServedOnTime` | nor does the guest change the cycles or give up a tick |

The assumptions that limit the last three are needed, and the code is the reason:
a nested loop leaves `index_nd` of the outer pass stale; a change of the cycles setting drops `CPU_Cycles` and keeps
`CPU_CycleLeft`, and a forfeited tick drops both, so that events are early or
late (section 8, and the hazards). `EventsOnTime` covers single steps and speeds
that change from tick to tick.

The argument is in four layers, each an invariant that uses those before it.

* `Sound`: `Typed`, `Nested` (the mode fits the innermost pass), `Placed` (each
  list and the passes hold an entry once, no two of them share one, and together
  they hold all) and `Sorted`. Nothing weaker is inductive: that `AddEntry` keeps
  the order needs that the entry it takes from `free` is not in `queue`, since
  writing its index would move it there.
* `Awaited`, for the check: once a pending check has its event, every step keeps it
  queued until it is served, which ends the pending. Only the request itself, when
  no entry is free, sets the one without the other.
* `Paced`: without nested loops one pass at most is running, and while it runs all
  cycles are back in `CPU_CycleLeft`, so that its `index_nd` is the present time.
  `Granting`: while the CPU runs, each queued event lies beyond the end of the grant
  but for less than one cycle. `MakeCycles` truncates, which is where the cycle
  comes from, and `CutGrant` must reach the same bound from the event that arrives
  in the middle of a grant.
* `Timely`: every queued event lies after the time that has passed but for what the
  last instruction overran its grant, taken at the slowest speed; the tick carries
  the bound over to the next millisecond and to its speed.

The lemmas under them say what the operators on lists do: `Kept`, a recursive
function, keeps in order the members that pass its test; insertion, removal,
concatenation and reversal keep entries single; the cardinalities of
`Partition` follow from disjointness. Facts about all numbers are proved from
their least counterexample (`LeastNat`), so what `Kept` computes is proved for
lists of every length.

`EventQueueProofs` also proves `ScheduleKept`: `HSpec => KeepsSchedule`, the whole
refinement (`EventSchedule` states no fairness), assuming that no handler runs the
loop and that there are no `Disturbances`. These are needed: a forfeited tick or a
changed setting makes events later than `Late`, and a single step sets the clock
back by what `oldCycles` hid, which is no step of a schedule. To the four layers
above it adds

* `Aged`: the history holds what the queue holds, once, and entries of the same
  time stand in the queue in their order in the history. `Arrives` has the reason:
  `AddEntry` passes over entries of the same time and stops before the first later one;
* `Calm`: while a handler runs, `srv_lag` is the index of the event being served,
  so that delays count from there; and every entry names a task of the schedule.

Then one lemma for each kind of step says what the schedule sees of it: `AddShown`
(an event at the end, or nothing if the list is full, which `RoomLeft` shows to
happen only at the capacity), `CancelShown`, `ServeShown` (the head of the list is
the earliest and, by `Aged`, the first of its time; by `TimesU` it is due),
`RunQueueShown`, `CpuShown` and `TickShown` (time moves on, and `Timely` keeps every
event within `Late`). `KeptButOne` and `ShownKept` compute the schedule that is left
when entries leave the list.

`SerialProofs` proves, for every size and threshold of the fifos, and every
order of registers, bytes, lines and events:

| Theorem | Statement | Assuming |
|---|---|---|
| `LineFollowsCauses` | `Spec => []IrqFollows` | |
| `ErrorsAreCounted` | `Spec => []ErrorsCounted` | programs do not read an empty receiver again after an error (`~Rereads`) |
| `TransmitterGoesOn` | `Spec => []TxGoesOn` | |
| `NothingIsUntold` | `Spec => []NothingUntold` | programs write no changes into the MSR |
| `FifoHoldsBytes` | `Spec => []GuardHoldsByte` | programs leave a byte alone that warms up (`Careful`) |

The invariant is `Good`: types; `Wired` (the line is what OUT2 lets through of the
interrupt computed last) and `Settled` (which still fits causes and enables);
`Counted` (the error count against the waiting bytes); `Goes` (a busy transmitter
has one event, which while the guard time is held is that of the warm-up); and
`ToldRx`, `ToldErrors`, `ToldTx`, one for each kind of cause.
`ToldLines` joins them for
`NothingIsUntold`, since writing the MSR sets the changes that a program is
owed without the interrupt; `Held` joins them for `FifoHoldsBytes`, since clearing
the fifo in the warm-up leaves the guard time running (section 8). Every method of
`CSerial` has a lemma that says which parts it needs and restores; `OnlyReceives`
and `OnlySends` are the frames of the two halves of the port.

`KeyboardProofs` proves, for every size of the ring, of scan codes and of packets,
and with `EnableAux`:

| Theorem | Statement |
|---|---|
| `EventsAreNeeded` | `Spec => []EventsMatch` |
| `RingImplements` | `Spec => KeepsBytes`: order kept, no unread byte replaced but by an answer asked for after it came on offer |

from `SizesAssumption` and `CommandsAssumption`. Without `EnableAux` the first is
false (section 8). The invariant is `Good`: `EventsMatch`, the order of the two
positions in the answers' buffer, and that no byte of a device is on offer while
the ring is scheduled; the last is what the refinement needs, since an event of
the ring replaces what is on offer. The content is in `AddsMessage`: a message
goes into the ring whole or, when the ring is full on the way, only its end stays,
which its proof follows byte by byte through the recursive function of `AddAll`;
and in `PolledPacket`, the one command that sends two messages.

`SoundBlasterProofs` proves, for every range of the channel's counter, every size
of block, every rate and both kinds of card, and for programs that keep the rules
(`Careful`):

| Theorem | Statement | Assuming |
|---|---|---|
| `TypeCorrect` | `Spec => [](sb \in Card)`; without the rule on rates `dma.left` would wrap | |
| `OneDriver` | `Spec => []Driven` | |
| `StaysInStep` | `Spec => []InStep` | sizes of blocks divide `Counts` |
| `TransfersSafely` | `Spec => Block!Init /\ [][Block!Next]_Shown` | |

from `SoundAssumption` and `CountsAssumption`. The rules are those that TLC finds
to be needed (section 8); the range matters because a channel that runs out without
auto-init is left at the end of it, not of a block. `TransfersSafely` is the safety
half of `Transfers`; its other half is fairness.

The invariant is `Good` - types; `Ordered`, which says of each mode and kind of
event what it needs (a running mode has a transfer, a transfer has units left, at
most one Silent event and then no mixer, END events only where the mixer plays and
for less than three milliseconds); `Fed`, that a transfer that plays has a driver -
and `Stepped`, the two counters modulo the block. Each operator of the card has a
lemma that it `Keeps` these: the transfer it leaves was there before, and in step if
it was. The arithmetic is in `Reads`: a channel that reloads any number of times
within one read is where the block is, because the memory is whole blocks. For the
refinement `Waits` adds that a masked transfer waits for its callback and that
events belong to modes that play, or would unmasked; `Played` turns units taken
into a step of `BlockTransfer`, and one lemma for each command (`HaltsPlays`,
`ContinuesPlays`, ...) says what it shows, a `FillUp` before it included.

`DosMemoryProofs` proves, for every layout of memory (with or without upper
memory), every set of programs, requests and strategies, and every order of
calls, from `ArenaAssumption` alone:

| Theorem | Statement |
|---|---|
| `Tiling` | `Spec => []ChainsTile` |
| `Intact` | `Spec => []HeldIntact` |
| `NoneFailsFalsely` | `Spec => []NoFalseFailure` |
| `ResizedToMaximum` | `Spec => ResizedToMaximumLow` |
| `TypeCorrect` | `Spec => []TypeOK` |

`ChainsTile` is about what the code's walk finds, and headers that were merged lie
about in memory, so that it says nothing of them; neither it nor `HeldIntact` is
inductive. The invariant is that *some set of paragraphs* `S` makes an `Arena`:

* `Tiled`: each block of `S` ends where another begins or memory ends; no two overlap;
  and a header has a `Z` exactly where a chain ends, which depends on `linked`;
* `Owned`: only the header over video memory is the system's, and it is as it was set;
* `Told`: the blocks of `S` that programs own are those they were told.

`ChainUnfolds` and `ChainIs` then say that the walk finds the members of `S` up to
the first `Z`. `Chain` is a recursive function, for which the provers have no
induction: the least sets closed under "the next header" are shown to meet its
equation, and facts about walks follow from the least or greatest counterexample
(`LeastNat`, `GreatestNat`). The content of the operations is in four pieces of
surgery on a tiling: `JoinTiles` (two neighbours become one), `SplitTiles` (a header
in the middle of one), `SameTiles` and `LinkTiles` (the Z before upper memory comes
and goes). `JoinArena`, `DivideArena`, `DropArena` and `RetypeArena` carry over to who
owns what, and one lemma per operation puts them together. `CompressIs` says what
`DOS_CompressMemory` leaves: another tiling, by a subset of the blocks, without free
neighbours in the chain; and `CompressKeeps` that the blocks of programs are in it
as they were. For `NoneFailsFalsely` that turns gaps between held
blocks into single free blocks and back (`FitLeavesGap`, `GapFits`); for
`ResizedToMaximum`, `ReachEnds` says that the block that is grown stops at a held
one or at the end.

`ExtendedMemoryProofs` proves, for every number of pages, handles and pages to an
EMS page, every set of sizes, and every order of calls of the three drivers:

| Theorem | Statement | Assuming |
|---|---|---|
| `ContentsKept` | `Spec => []DataKept` | `Past = 0` or no EMS handles; no `Strays` |
| `NoneLost` | `Spec => []NoPageLost` | the same |
| `XmsStaysInARow` | `Spec => []XmsInARow` | the same |
| `EmsAllocationSucceeds` | `Spec => []AllocationSucceeds` | the same |
| `TypeCorrect` | `Spec => []TypeOK` | the same |

Both assumptions are needed, and the code is the reason: with a zero behind the table
the walk over free pages, which only EMS handles take, leaves memory, and a block of
no size names a page that it does not own (sections 5 and 8); TLC finds `DataKept`
violated without either. Blocks of no size themselves are covered: of the calls on
them only those are left out that the drivers get wrong.

No property is inductive: each speaks of what the links of the table spell, and an
operation on one block must be known not to touch the links of another. The
invariant `IInv` says that *some division* `own` of the pages among owners (an XMS
handle, an EMS handle, a page of VCPI) is a `Heap` - each owner's pages are one linked
block, hold what their owner wrote, and every page taken is somebody's - and that
the drivers' variables `Matches` it: a handle names the first page of its owner's
block and its size is the block's. That no page has two owners need not be said:
it follows, because a page's content names one. Every function of memory.cpp is then
one change of a heap, `Turns`: the block of one owner becomes another sequence, made
of its own pages and free ones, and every other word stays (`LinkedTurns`,
`ReleasedTurns`, `ReallocatedTurns`); with `Filled`, what is written into the new
pages, `HeapTurns` gives back a heap. Below that are the walks of the code:
`PagesOfBlock` (the links of a block spell it), `BestMatchIs` (the run that is chosen
is free and long enough, and a single page is found wherever one is free), `WalkIs`, and
`GatheredIs`: allocation in pieces takes run after run and, since each round takes
a whole run or what is missing, ends with as many pages as asked, all different and
all free, if so many are free. That is `EmsAllocationSucceeds`. `MovedFills` is the
case in which a block moves while its contents are copied.

Only model-checked: everything temporal but invariants, step properties and the
refinements of `EventSchedule`, `FileReferences`, `DeviceBytes` and `BlockTransfer`:
`RequestServed` and `NmiReachesGuest`, `EventServed`, `Drains`, and the fairness in
`Transfers`. Liveness, fairness and ENABLED are out of this prover's reach, and so
is what a RECURSIVE operator computes: the modules with proofs have none, and
recursive functions in their place.

## 8. Disagreements met

With a run:

* `pic_spurious`: `slave_startIRQ` lowers line `master_cascade_irq` of the *slave*
  ("clear it"), so the cascade request of the master stays.

Seen while modelling; where a constant or a property is named, TLC shows it when
that is changed.

Interrupts and events:

* With `Withdraws` holding slave devices, `RequestServed` fails in `pic_guest`:
  the spurious cascade of `pic_spurious` stays in the master's register, is found
  first in every pass, delivers nothing, and starves the lines below it.
* An NMI is only taken while IF is set, and one that became pending before its
  gate was closed is still taken, since `PIC_runIRQs` does not read the gate.
* In single mode without ICW4, `icw_index` is left at 3 and the next mask write
  is taken for an ICW4.
* A line with the cs=ds hack that is passed over is not looked at again
  (`NoLostIrq` fails with a master line in `HackIrqs`).
* A handler that runs the emulator loop (`Idlers`) returns into a pass whose
  `index_nd` is old and whose `InEventService` is false: "PIC_AddEvent by design
  caps CPU_Cycles to make the event happen on time" (hardware/pic.cpp:166) then
  fails (`GrantEndsAtFirstEvent`).
* `PIC_AddEvent` with the queue full logs a line and returns (pic.cpp:636), but
  `activate` has set `PIC_IRQCheckPending` by then (pic.cpp:166): no check is asked
  for again, and requests wait until something else sets `PIC_IRQCheck`, which only
  an NMI does (cpu.cpp:529); a reset of the machine leaves the pending flag alone.
  `CheckLostOnlyWhenFull` says that there is no other way to this.
* A slave in special mask mode loses a hand-over: the cascade request is lowered
  with the slave line that is dispatched, and another line that stands, which is
  deliverable at once in that mode, waits for the slave's next EOI. `NoLostSlaveIrq`
  therefore excludes the mode.
* In auto-EOI mode `update_active_irq` asserts that no line is in service
  (pic.cpp:67), but ICW1 leaves the lines in service there are, so a guest that
  then sends an EOI fails the assertion. `EndOfInterrupt` is the build without.

Memory:

* A resize that fails promises the maximum (dos/dos_memory.cpp:366), but only the
  chain from `dos.firstMCB` is ever compressed, so in upper memory that is not
  linked free neighbours stay apart and the block gets less.
* "Bit 7 set: try high memory first, then low": with last fit the low block
  replaces the high one, with best fit a smaller low one does.
* An XMS block of no size, which ints/xms.cpp:227 makes on purpose, keeps the number
  of a page it does not own. Freeing or resizing it acts on whoever got that page
  meanwhile; resizing it to that one page does not take the page; and moving it over
  the page releases what was just taken (`Strays`).
* `MEM_cut_RAM_up_to` (hardware/memory.cpp:1872, called from ints/bios.cpp:9903)
  lowers `reported_pages` and leaves zero words behind the table. An EMS allocation
  that is gathered from pieces may then walk into them: with `Past = 1` `DataKept`
  fails.
* EMS function 51h on a handle without pages ends the emulator (ints/ems.cpp:420)
  when it asks for none, or for more than there are.

Files (`Misuses` of `DosFiles`):

* `"fcb"`: opening by FCB takes the number of the entry for a handle and writes it
  into the job file table, over what is there (dos/dos_files.cpp:792). The byte stays
  when the FCB is closed, and then means the next file in that entry: a program that
  uses it as a handle closes another's file, and the exit of the process closes
  through it too. `ClosesMore` says when an exit closes more than the process was
  given, which is part of the misuse.
* `"dup2"`: DUP2 to a handle that the process does not have counts a reference
  that nobody holds, so the file is never closed (dos_files.cpp:1166).
* `"volume"`: a create with the volume attribute returns a handle to an entry
  without a file (dos_files.cpp:722).
* `"regrow"`: a job file table that grows a second time keeps its first 20 handles
  and forgets the rest; one that is asked for less shrinks without closing
  (dos_classes.cpp:384).
* `"int20"`: INT 20h from a program that is not the current one closes the current
  one's handles (dos_classes.cpp:328).
* `"orphan"`: a process that ends after its parent returns to a process that is no
  longer there (`DOS_Terminate` does not test it), in whose table the next calls
  write.
* Function 26h copies handles without counting them; deleting an open file drops
  its references (drive_local.cpp:925); "fail if it exists" of function 6Ch leaves
  the file open; files opened by FCB stay open when their process ends.

Keyboard:

* A reset answers with ACK and, later, the result of its test, but both wait in
  the buffer whose position is tested instead of its length, so the second answer
  can take the place of the first. For the same reason "8042 Buffer full"
  (keyboard.cpp:304) tests how much was read, not how much waits: nine answers asked
  for in a row are written past the buffer. `MaxAnswers` keeps programs from it.
* An answer takes the place of a byte of a device that nobody has read: neither
  `KEYBOARD_TransferBuffer` (keyboard.cpp:267) nor command D0h (keyboard.cpp:762)
  tests `p60changed`, so a command in the middle of a packet loses a byte of it.
* Without `enable_aux`, answers of the controller are never handed over, while
  their events hand over keys early: `EventsMatch` fails with `EnableAux = FALSE`.
* Command D3h stays in force: every later byte is echoed to the mouse's queue.
* A full ring is emptied before a byte is dropped, so the rest of a scan code
  comes without its beginning; commands of the keyboard also drop half-read
  packets of the mouse.
* Disabling the keyboard (ADh) stops repeats, not transfers.
* A program that asks the controller again and again is answered first each time,
  and keys wait forever.

Serial port:

* Clearing the transmit fifo while a byte warms up leaves the guard time running,
  which then drops the next byte: `GuardHoldsByte` fails with `Careful = FALSE`;
  the warning "FIFO empty when it should not" (serialport.cpp:465) is about this.
* The loopback compares DTR twice; the line commented "RTS->CTS" tests DSR.
* Reading an empty receiver again counts an error of its last byte down twice
  (serialport.cpp:562): the unsigned count wraps and FIFO_ERROR stays up.
  `ErrorsCounted` fails with `Rereads = TRUE`.
* A byte written to a full transmit fifo overwrites the last one in it
  (serialport.cpp:536); the loss is only logged.
* Enabling interrupts before the fifo leaves timeouts disabled.
* The error bits of the line status are those of the byte that arrives, not of the
  byte at the head.

Sound Blaster (`Careful`; each is found in a few steps when the rule is dropped):

* The Silent events of a card whose speaker is off know nothing of masks, halts
  and resets. Unmasking, continuing or starting while one is queued adds a second
  chain, which plays twice as fast; a halt does not stop the chain; and a reset
  leaves the event, which then calls an interrupt for a block of size 0.
* Switching the speaker off while a transfer plays stops the mixer and starts
  nothing, so the transfer stalls. Switching it on while one is halted queues the
  event that ends a short block, so the halted transfer ends.
* A lower rate lowers `dma.min`; an END event queued before may then be larger
  than what is left of a single block, and the unsigned `dma.left` wraps.
* 0x1c takes its size from the last two bytes of parameters of *any* command: after
  0x48 ("Set DMA Block Size", sblaster.cpp:1753), a 0x40 changes the size.
* A reset lowers the line before it lets the mixer catch up, so a block that ends
  there raises it again, without the flag by which a program could answer.
* "Catch up to current time" (sblaster.cpp:428) never takes a sample, because the
  channel is masked before the callback is called.

## 9. Not modelled, and why

Data without control of its own (instruction semantics, drawing, mixing, FPU,
file contents), generated and vendored code, and the host's user interface are
left out for good. The timers of the 8253 are arithmetic on floating-point time;
the events they queue are those of `EventQueue`. Shell, BIOS services and most
DOS calls are sequential. IDE, floppy, network adapters, MPU-401 and the other
sound cards have protocols of the kind of `Serial` and `SoundBlaster` and are not
reached; `PROJECT.json` names each.

Within the modelled components: `CPU_Check_NMI` and `CPU_Raise_NMI` also end the
grant of cycles (cpu.cpp:524, called from dosbox.cpp:341), which gives all of it back
to `CPU_CycleLeft` and keeps one cycle besides: no property of `Pic` reads cycles, and
`EventQueue` has no NMI. The core leaves `CPU_Cycles` at -1, not 0, when its grant is
cut under it (core_normal.cpp:172). Options that set `dsp.require_irq_ack` apart from
the kind of card, and auto-init blocks of size 0 (sblaster.cpp:583; sizes start at 1).

What single runs and properties leave out: the NMI gate stays open in `pic_guest`
and closes only in `pic_xt` and the theorems; no handler runs the emulator loop in
`evq`, and the speed stays the same in `evq_live`; `EventSchedule` says nothing of
when a request is refused or an event removed; `NoFalseFailure` says what
compressing achieves and compresses by itself; `ResizedToMaximumLow` is about
conventional memory, not about upper memory that is not linked; and `dosfiles`
runs with no `Misuses`.

Not modelled either: register reads and the poll command of the
interrupt controllers; interrupts in `CPU_Core_Normal_Trap_Run`, where
`PIC_runIRQs` returns at once; the debugger's and the saved states' use of the
queue; PC-98 without a slave controller; corrupt chains and the exits they cause;
programs that write to headers, or free and resize what they do not hold; the
PCjr's split of conventional memory; EMS mapping, the system handle and block
moves; UMBs requested through XMS; A20 and the HMA; reads, writes, locks and
searches of files; scan code sets, the BIOS mouse services and the PC-98 keyboard;
baud rates and the modem and null-modem back ends of serial ports; ADPCM, 16-bit
and stereo samples, recording, direct output and Goldplay of the Sound Blaster;
addresses and pages of DMA.

## 10. Running it

    tlc -workers 2 -config pic_at.cfg MCPic.tla
    tlapm PicProofs.tla
    tlapm EventQueueProofs.tla
    tlapm DosMemoryProofs.tla
    tlapm ExtendedMemoryProofs.tla
    tlapm DosFilesProofs.tla
    tlapm KeyboardProofs.tla
    tlapm SerialProofs.tla
    tlapm SoundBlasterProofs.tla

`PROJECT.json` pairs each configuration with its module and properties, maps each
definition to the lines it models, and lists the mutants, hazards and theorems.
