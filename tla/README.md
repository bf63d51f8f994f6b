# avrilx: TLA+ specifications, model checking and proofs

avrilx is a library of C++ templates and a little C for the AVR XMega
microcontrollers: register wrappers, buffered serial and two-wire drivers, a
display, an SD card and FAT reader, user-interface helpers. There is no operating
system. The concurrency is that of the processor: a *main program*, *interrupt
handlers* that suspend it at any instruction and run to completion (a handler of a
higher level may also suspend one of a lower level), and *hardware* (bus, DMA,
display, memory card) that goes on by itself. What makes this code hard is that
almost nothing is locked: correctness rests on which side writes which byte, and
in which order a check and the access it protects come.

This directory models that code in TLA+, checks the models with TLC, and proves
with TLAPS what matters most for every size and every interleaving.

## 1. Inventory

| Part | Module | State | Operations | What is hard | What makes it correct |
|---|---|---|---|---|---|
| `io/ring_buffer.h` | `RingBuffer`, `Fifo` | two 8-bit indices, the slots | Write, NonBlockingWrite, Overwrite, Overwrite2, Read, NonBlockingRead, ImmediateRead, Flush | one side in a handler; stale indices; unmasked second slot | it is a bounded queue; no store out of bounds |
| `io/twi.h` | `Twi` | transfer state, counters, two rings | Init, Done, Request, Send, Wait, buffer operations, interrupt handler | check-then-act against the handler; failed transfers | a transfer whose room was checked at rest is never overrun; every transfer ends |
| `devices/twi_eeprom.h` | `TwiEeprom` | bank | SetAddress, Read, Write, WriteWithinBlock | retries and partial failures of transfers, blocks, banks | what is written is what is read; calls return |
| `devices/hd44780_lcd.h`, `devices/buffered_display.h` | `Display` | nibble ring; local and remote text, scan position, cursor, status | Tick of both, Print, Clear, set_status, ForceStatus, SetCustomCharMap | the shadow of the display must agree with the display after every queued command; commands that do not fit are dropped | the display shows the requested text in the end |
| `filesystem/fat_file_reader.h` | `FatFileReader` | one sector of cache, layout, file handles | Init, OpenRootDir, Next, Open, Read | one cache for several handles; failed reads; cluster chains | a file is read byte for byte, in order, once |
| `system/time.h`, `time.cc` | `Timekeeping`, `Clock` | a 32-bit count in two words, the interrupt flag | Tick (handler), milliseconds, Delay | the count is torn by a tick; wrap-around; nested critical sections | a clock; Delay waits long enough; the flag is given back |
| `devices/sd_card.h` | `SdCard` | card type, chip select | Init, ReadSectors, GetNumSectors, the waits | lost commands and answers, errors in the middle, 16-bit times | deselected on every path; right sectors; calls return |
| `filesystem/file.*`, `directory.*`, `filesystem.*` | `FileSession` | FatFS objects, opened flag | Open, Close, Read, Write, Seek, Truncate, Sync, Mkdirs, Init | a retry that remounts the volume under open files | what is not saved can still be saved; a session with the disk left alone goes well |
| `ui/event_queue.h` | `EventQueue` | ring of packed events, time of the last event | AddEvent, PullEvent, available, Flush, Touch, idle_time | unguarded overwrite, packing in 4 bits, 16-bit difference | an event comes out as it went in |
| `devices/rotary_encoder.h`, `devices/switch.h` | `Controls`, `SwitchBank` | sampled bits, increment, click state | Read, Flush, increment, clicked, event | bouncing contacts; Flush against the handler | one event for each movement |
| `devices/adc_scanner.h`, `io/adc.h` | `AdcScanner` | scan index, values, thresholds | Init, Read (handler), Lock, index | the conversion and the index are one step apart; thresholds of two bytes | a value belongs to its channel; a lock holds |
| `io/dma.h` | `DmaBuffers` | index of the program, the controller's count | readable, ImmediateRead, writable, Overwrite | the hardware goes round whatever the program does | a queue, unless lapped |
| `io/spi.h`, `io/usart_spi.h`, `io/usart.h` | `SpiMaster`, `Usart` | status flags | Init, Send, Receive, ImmediateWrite, Wait, Write, Read | flags nobody clears, a register set by or-ing into an unset variable | an exchange ends before the slave is deselected |
| `devices/bicolor_led_array.h`, `devices/shift_register.h` | `LedArray`, `ShiftRegister` | PWM counter, two frames | Write (handler), Sync, set_pixel, ShiftOut, Read | a frame half copied; order of the bits | duty cycles |
| `io/gpio.h`, `io/parallel_io.h`, `system/timer.h` | `Ports`, `Timers` | registers with several users | setters, set_value, StartPWM, StopPWM | read-modify-write against a handler | a user's bits are those it asked for |
| `io/dac.h`, `system/clock.h` | `Dac`, `Startup` | flags of two channels; oscillators | Write, Wait; SetupClock | which flag is waited for; the order of the switch-over | samples not overwritten; a stable clock |
| `utils/op.h`, `random.h`, `string.h`, `string.cc`, `output_stream.h` | `Arithmetic`, `Random`, `Strings` | none; the register; the digits of UnsafeItoa | 40 routines in assembly; Update, Seed; Itoa, AlignLeft, AlignRight, Print | carries and signs; static digits shared with a handler | equality with a reference definition |
| `third_party/ff/ff.c`, `mmc.c` | (contract in `FileSession`) | FatFS: window, FAT, objects; disk status, timers | f_open ... f_mkdir; disk_initialize ... | crash between two sector writes | |
| `third_party/eeprom_driver`, `sp_driver`, `system/event_system.h`, `resources`, `tools/*` | not modelled | | | | |

**How they interact.** A ring buffer lies between each handler and the main program
(TWI, LCD, event queue), or a buffer of the DMA controller. `TwiEeprom` is a client of
`TwiMaster`; both displays share the LCD's ring; `BufferedDisplay::Tick` runs in the
main program or a slow handler while `Hd44780Lcd::Tick` drains the ring in a fast
one. `FATFileReader` reads sectors through a media class such as `SdCard`, whose waits
are timed by `milliseconds()`. `Filesystem`, `File` and `Directory` call FatFS, which
calls `mmc.c`. Switches and LEDs sit behind shift registers. Where a component only
uses what another one promises, the other is replaced by its promise, and the
promise is checked, mostly proved, in its own module.

## 2. The models

Every model has the same shape: the state of the class and of what it shares with
its surroundings as variables, one action for each operation, handler or step at
which something else may come in between, and a part marked external for what is
not code (a bus, a display, a memory chip, a card), modelled from the way the code
uses it. An interrupt handler runs to completion before the main program goes on.

**`RingOps`, `Fifo`, `RingBuffer` (`io/ring_buffer.h`).** `RingOps` has the index
arithmetic; the mask `& (size - 1)` is a remainder, also for negative
differences. `RingBuffer` has two sides; a step is one access to a shared byte, and
an index that has been read is kept in the control state of its side until it is
used: this is where staleness is modelled. The constant `IsrSide` says which side
is the handler; `ProducerOps` and `ConsumerOps` say what each side calls, and
`OpsAssumption` what the code requires of the two (a handler may not spin, `Flush`
is called by a consumer in the main program, `Overwrite2` needs an even size and
is not mixed). The buffer has one cell more than the ring, so that a store out of
bounds can be seen. `Fifo` is the abstract specification, a bounded queue;
`RefinesFifo` is `Fifo!Spec` under the mapping `queue <- Queue`, the slots between
the two indices.

**`Twi` (`io/twi.h`).** Rings are counts of bytes, as `RingBuffer` shows them to be
queues. The handler is one action per branch of its cascade of status flags, with the last
`else` (`OnUnexpected`). In the main program, `Request` and `Send` are cut where the handler may
run: the first check (room in the input ring, something to send), the check of `state_`, the
assignments, and the store into ADDR. The hardware is the operation it executes and the
flags it raises at the end of it; any operation may end in a fault. Only a command lowers the
flags: on a fault the handler gives none, so it runs again and again until the next transfer is
started, also between the assignment of `state_` and that start. Two histories: `granted`, was
the bus at rest when `Request` found room; `tracked`, was `state_` still the one assigned when
the hardware was started.

**`TwiEeprom` (`devices/twi_eeprom.h`).** A client of `Twi`: here a whole transfer is
one step, which completes, or ends anywhere in the middle. Two facts about
transfers are taken from `Twi`: a transfer that ends without an error is complete
(`CompletesInFull`), and a `Send` that comes after a failed `Request` does not end
well (`TransfersEnd`, and finding 1): the variable `stale`. The chips
have a pointer, wrap around in a block when they are written and in the chip when
they are read. `known` is what the program may rely on: written when a Write has
said so, unknown when it has failed.

**`Display` (`devices/hd44780_lcd.h`, `devices/buffered_display.h`).** The ring of
nibbles is the sequence of the commands whose second nibble has not reached the
LCD, with two bits for where the handler is in the first of them. The handler
(`TickEndWrite`, `TickStartWrite`) may run between any two steps of the
background task (`TickBlink`, then `TickDraw`: the two places where the task reads
the blink counter). A command that does not fit into the ring is dropped, as in the code
(`WithCommand`). The LCD executes commands: move the cursor, store a character
and move on. The initialisation of the LCD and its busy times are left out.

**`FatFileReader` (`filesystem/fat_file_reader.h`).** Each step has at most one access to the
media, which may fail. The sector in memory is the number of the sector, and a byte is its place on
the disk, so that a byte that comes from the wrong place is seen. The disk is given by constants:
areas, links, directory entries. `Safe` is the template parameter: in safe mode a handle finds out
whether its sector is still in memory (`SyncCache`), otherwise it is taken for granted, and the
program has one handle. What a listing and a file should be is defined from the disk alone, without
what the reader keeps of its place: `Walk` follows the links from the first cluster, `ChainPlace`
is where the n-th item of a chain lies, `Slot` the n-th entry of the root directory, `Listing` the
files and directories among the entries before the end. In safe mode, `Next` of a file and `Read`
of a directory are refused. `DiskAsExpected` says what the properties
need of the disk: its areas lie as the boot sector says, the root directory comes to an end,
nothing but free entries follows that end, no deleted entry comes before it. `MCFatFileReader` has
it evaluated on its disks.

**`Clock`, `Timekeeping` (`system/time.h`, `time.cc`).** One step is one access to a word
of the count or to SREG. The handler may come between any two steps of the main
program while the flag is up, and stops between its own two words
(`TickLow`, `TickHigh`); the program also masks interrupts by itself, so that
`milliseconds` is called both ways. `Delay` is `milliseconds` again and again. `Clock` is
the abstract specification: a count that goes up by one, and a value read that is
the count of that moment; `RefinesClock` is `Clock!Spec` under
`count <- Count`, where `Count` is the two words plus the carry a half-done tick owes.

**`SdCard` (`devices/sd_card.h`).** One action per command or wait of `Init`,
`ReadSectors` and `GetNumSectors`. The card is external: there may be none, it is
of one of three kinds, obeys or loses a command, sends or loses an answer, and goes on
sending blocks until it obeys the command that stops it. Waits end by the clock or
after so many attempts (the two time-out policies). `clean` is a history: the card was
silent, and its type known, when the read began. A byte has three values, so that
`num_sectors` wraps.

**`FileSession` (`filesystem/*.cc`).** A FatFS object is valid as long as its mount number is
that of the volume (external: `chk_mounted` and `validate` of `ff.c`). `File::Open` first closes
the file it has open, whatever that returns. With a time-out it mounts the volume again when the
disk has failed, under all other objects; a background process may disable the disk (the comment
in `file.cc`). `Mkdirs` is one step per directory; `f_mkdir` answers FR_EXIST for a directory and
for a regular file, and a path through a regular file is not found. Two histories: `calm` has the
files that were opened since the disk layer was last disturbed or the volume registered anew,
and `lost` those whose last session ended with writes that never came to the disk.

**`MCStorage`** puts these three side by side. In the code they share nothing but the value of
the clock, which `SdCard` has as a 16-bit `now` of its own; so a behaviour is about one
of them, `part`, and the product of their states is not explored, since it shows nothing
that the parts do not.

**`Controls`, `SwitchBank`, `ShiftRegister`, `LedArray`.** `Controls` is an encoder whose
contacts bounce for at most `Bounce` samples, fewer than a switch keeps, and then rest until it
has seen them at rest (`Dwell` samples between two moves, `KnobAssumption`); it is sampled
by the program, or by a handler between any two accesses of the program's `increment`,
`clicked` and `Flush`. `increment()` returns a `uint8_t`: the program is given 255 for a step back
(`AsByte`). `missed` is a history: a sample was not taken because an increment was waiting, or
`Flush` has thrown away something the program had not seen. `ShiftRegister` has the four
operations as operators on sequences of bits, with the edges of the clock pin as the external
part; `SwitchBank` and `LedArray` are built on it. `LedArray` interrupts `Sync` between any
two bytes.

**`AdcScanner`, `EventQueue`, `DmaBuffers`.** What is stored, and what it should have been,
are kept side by side: the pin a value was measured on; the events that are
due; the values the peripheral has made. In `DmaBuffers` the hardware steps whenever it
likes and reloads at the end of the block in repeating mode; `missed` says that one
side was lapped.

**`SpiMaster`, `Usart`, `Ports`, `Timers`, `Startup`, `Dac`.** The hardware's flags are external
and move by themselves; each access of the program is a step. `Ports` and `Timers` have a handler
with a pin or a channel of its own that comes between a read and the write that depends on it.
`set_value` takes any number and does not mask it: what does not fit is ored into the pins above
the group. The histories `disturbed` and `spoilt` have the pins, the channels and the interrupt
levels to which something of the kind has happened, until their owner sets them again.

**`Arithmetic`, `Random`, `Strings`.** `Arithmetic` has an operator for each routine in
assembly, from what its instructions do to bytes and carry, and under `Ref` its C
version. Bytes have four bits instead of eight in TLC, so that every pair of words is
compared; the proof is for the chip's eight. `Random` has its full 16 bits. In `Strings`, `Itoa`
and `UnsafeItoa` produce one digit per step; the handler calls `UnsafeItoa` in between. `TextsFit`
says that a text is no longer than its type has it, and has a place in the destination.

**`Drivers`** puts twelve of them (all but the three utilities) side by side and states what a
program relies on in several: `ChainsAgree`, `UsedWhenReady`, `RegistersAsAsked`. **`MCDevices`**
adds the utilities and chooses one of the fifteen at the start (`part`), for the reason given for
`MCStorage`: they have no variable in common in the code. **`MCRingTx`** chooses which of the two
buffers a handler empties is meant: one written byte by byte, or that of the LCD, written by
`Overwrite2`; no buffer is both.

Definitions marked "faulty" are variants of the definition that follows them, with a
mistake that is easily made; no specification uses them. They are there to try the
properties: each property of a passing run is violated when one definition is
replaced by such a variant.

## 3. What is checked

| Run | Instance | States | What it shows |
|---|---|---|---|
| `ring_rx` | 4 slots, 2 values, handler produces, program reads and flushes | 95 000 | `RingInv`: the inductive invariant of the proofs, with `Reservations`: what a side has seen when it decided to store or to load still holds when it does. `RefinesFifo`: a queue; `Flush` empties it in one step |
| `ring_tx` | 4 slots, program writes and spins, or writes pairs, handler consumes | 70 000 | `InBounds`: the unmasked second slot. `RefinesFifo`. `WriteReturns` |
| `twi_bus` | input ring of 4, output ring of 3, requests up to 4 | 607 000 | `TwiInv` (with `ReadyMeansIdle`, `GrantKept`), `CompletesInFull`, `TransfersEnd` |
| `twi_stale` | the same | | finding 1: `WaitReturns` is violated by a Send after a failed Request |
| `eeprom` | 2 chips of 2 blocks of 2 bytes, both kinds of banking | 941 000 | `WrittenIsStored`, `ReadIsStored`, `CallsLeaveNothing`, `CallsReturn` |
| `display_text` | 2 by 2 characters, ring of 8 nibbles, 2 changes | 1 088 000 | `DisplaySound` (types, `ScanAgrees`, `NothingDropped`), `RemoteIsTrueUnlessMoved`, `ShowsPage` |
| `display_misplaced` | 3 changes, `ForceStatus` | | finding 2: `RemoteIsTrue` is violated |
| `fat_safe` | FAT32 in a partition, 2 handles, sectors of 2 bytes | 1 289 000 | `HandlesSound` (types, `KnowsTheRest`), `ReadInOrder` (listings and contents), `EndIsTheEnd` |
| `fat_single` | FAT16, 1 handle, not safe | 4 800 | `ReadInOrder`, `CallsReturn` |
| `fat_deleted` | the same with a deleted file | | finding 3: `ListsInOrder` is violated |
| `storage` | words of 3 values, 3 kinds of card, 2 policies, 1 file, 3 mounts | 1 025 000 | `TimeInv`, `RefinesClock`, `TimeIsGiven`; `CardIsServed`, `SdCallsReturn`; `FilesSound`, `AnswersAreTrue` |
| `devices` | one driver in each behaviour | 1 672 000 | `KnobIsCounted`, `PotsAreTrue`, `UserIsHeard`, `ChainsAgree`, `DmaIsAQueue`, `UsedWhenReady`, `RegistersAsAsked`, `OperatorsRight`, `PeriodIsWhole`, `TextStaysWhole` |

Some of these properties are conjunctions of named parts, each with its own comment in its
module and a faulty variant that breaks it. What some of them say:

- `NothingDropped` (in `DisplaySound`): `WriteData` and `WriteCommand` drop what does not fit and
  nobody looks; the one test for room, made before the handler runs again, is enough for
  all that `Tick` and `ForceStatus` send. A test for two nibbles instead of four breaks it.
- `TimeInv`: a word that `milliseconds` has read is still the word when interrupts come
  back, and they come back as the program had them. `DelayLongEnough` (in
  `TimeIsGiven`): a delay lasts, unless its target is past the wrap of the count.
- `CardIsServed`: `Deselected`, `InitFindsType`, `ReadIsRight`, `SilentAfterOk`,
  `SizeIsRight`. `GivesTheCardItsTime` (in `TimeIsGiven`): a wait that gives up
  lasted its time-out, if it began within the first 65 seconds.
- `FilesSound`: when Sync or Close says OK all is in the file (`SavedWhenTold`), and what is not in
  the file can still be saved as long as its volume stays mounted (`UnsavedIsPending`). It says
  nothing of the writes that Open drops when the Close before it fails. `AnswersAreTrue` does:
  in a session during which the disk layer was left alone, no call on the file fails for want of
  the disk or of a valid object, and no later Open drops a write (`CalmSessions`); Open with a
  time-out gives up with a disk error at its second attempt only, and only while the layer fails
  (`RetriedAfterInit`); what Mkdirs promises, and the regular file it takes for a directory
  (`MkdirsMakesAll`).
- `KnobIsCounted`: a steady turn counts once per detent, behind a tracker too unless one was
  `missed`; never more than there were; a click is seen once, and is seen unless `missed`. The
  count is in what the program is given, 255 for a step back behind a tracker.
- `PotsAreTrue`: a value was measured on the pin of its input; a locked pot keeps its
  value until it is moved past its threshold, unless a scan met it between the two bytes of that
  threshold. `UserIsHeard`: events in order, each once,
  while there are no more than the queue holds; the idle time modulo its 16 bits.
- `DmaIsAQueue`: in order unless one side is lapped, and never stuck.
- `ChainsAgree`: duty cycles (`DutyRight`), one switch per event (`EventsAreSeparate`), the
  two bit orders are mirror images (`OrdersAgree`).
- `UsedWhenReady`: `ExchangesComplete` (of `UsartSPIMaster` the first byte only), `BytesInOrder`
  (those that go out), `ClockIsStable`, `DacSamplesKept` (a sample is lost in channel 1 only,
  after a Wait for both channels). `RegistersAsAsked`: `PinsAsWanted`, `TimerAsAsked`: what each user asked
  for, and exactly which pins, modes, channels and levels may differ, and until when.
- `OperatorsRight`: clips, shifts, 24-bit words, mixes and products agree with their C
  versions over all operands. `PeriodIsWhole`: the register comes back to its seed after
  65535 steps and not before. `TextStaysWhole`: conversions and alignment.

**Bounds, and why they are enough.** A ring of four slots is the smallest in which the indices
wrap in the middle of a pair of values and in which "full", "one free" and "empty" differ; the
proofs take over for every size. The TWI rings hold 4 and 3 bytes and requests go up to 4, one
more than can be granted: every refusal and every last byte occurs. A text of two lines of two
characters has an end of line, an end of page and neighbours in a line; two changes are enough to
change a cell again while its old value is queued or on the wires, and `BlinkPeriod = 2` makes the
counter wrap all the time. A chip of two blocks of two bytes has writes over the end of a block
and of a chip; a text of three bytes touches two or three blocks. The disks have a file of two
clusters that are not in order, a file that fits its cluster exactly, an empty file, volume labels
at the end of a sector and of a cluster, a root directory of two clusters; `Sizes = {1, 3, 8}`
reads less than a sector, over the end of one, and more than the file. A clock of nine values
wraps many times, and within a delay of three ticks; its proofs take over for every size of a
word. A card of three sectors and a byte of three values make a read of one, of two, and of 0
(three) sectors; `Range = 8` and `Word = 4` are a clock that outgrows `now`, and `MaxTries = 2`
tells the first attempt, a later one and the last apart. Mount numbers of two values wrap within
`MaxMounts = 3`. Four samples (`Bits`) still have the two that make an edge and two more; a queue
of 4 with at most 4 events due can be filled, overfilled and emptied in all positions; a nibble of
two bits, a byte of four, keep every carry, borrow and sign of `op.h`, whose routines do the same
to each byte. The full 65535 states of `Random` are explored.

**Fairness.** `Twi`: a call of the main program goes on, since handlers return; the
bus hardware ends each operation with one flag or another; a handler whose flag is
up runs. Nothing says that the program waits, reads or writes anything.
`RingBuffer` (and `MCRingTx`): weak fairness of the handler, which goes on
taking values, as its interrupt stays pending while it does not, and *strong* fairness of
the main program's step: the handler disables it each time it runs, and a processor
that always returns from its handlers gives the main program a turn again and again, which is
infinitely often enabled and not continuously. This is the only strong fairness. `Display`: the
handler is called by a timer; the task is called by the main loop for ever.
`FatFileReader`: the media answers, one way or another (`SdCallsReturn` is where that is
checked).
`TwiEeprom`: `WF(CallStep)`, what a call does when the bus ends its transfers; a Send
that is stale is not enabled there, as `Twi` shows that it may go on for ever.
`SdCard`: the clock goes on and the call goes on; nothing of the card, which need not answer.
The runs' other properties need no fairness.

**Where the system may stop.** Nowhere: deadlock is checked in every run.

### Findings

1. `received_` and `requested_` outlive a Request that failed; the handler of the next
   Send addresses the slave again and again, and `Wait` does not return
   (`io/twi.h:192`).
2. `ForceStatus` moves the LCD's cursor but not the position of the last write
   (`devices/buffered_display.h:103`): the next redraw goes to another cell, and
   `remote_` hides the mistake.
3. `name[0] == 0xe5` compares a signed char (`filesystem/fat_file_reader.h:275`): deleted
   files are listed, and can be opened.

### Seen while modelling

With no run of their own: the models do what the code does, and the properties say, by their
hypotheses, where they hold.

- *TWI.* `Request` compares sizes before it looks at `state_` (`io/twi.h:124`): a transfer that
  ends in between has taken the room that was granted, and `Overwrite` makes a full
  ring an empty one. A transfer whose room was checked with the bus at rest is safe, whatever the
  others did, and this is proved (`granted`). On a fault the handler leaves the flag up: if it
  runs between the assignments of the next transfer and its start, that transfer runs with
  `state_` READY and the old fault in `error_`, and `Wait` does not wait for it (`tracked`).
- *Ring.* `Flush` is written for the consuming side; called by the producing side it moves an
  index the handler may be using. `OpsAssumption` excludes it, and nothing in the library does it.
- *FAT.* In safe mode, a failed `SyncCache` makes `Read` return the error code 2 as
  if it were a count;
  `Next` does not stop at the end of a FAT16 root directory that is full.
- *Display.* A `?` that is printed before the first scan of its cell is never drawn.
- *EEPROM.* A `Read` with auto-banking that passes the end of a chip goes on in the same chip;
  after an error `TwiEeprom::Read` returns `size - read` with `size` already reduced; the
  `FlushInputBuffer` of `SetAddress` makes no difference, since the transfer that could have left
  bytes behind is the one after which no Send completes.
- *Clock.* `Delay` close to the wrap of the count, after 49 days, returns at once.
- *SD card.* `now` has 16 bits: a wait that begins after the first 65 seconds has one attempt. An
  error in a read of several blocks leaves the card sending. No answer at all reads as 0xff, an
  illegal command, so that a card of version 2 that loses one is taken for one of version 1.
  `num_sectors = 0` reads 256 sectors; `c_size_mid` from 0x80 on spoils the size.
- *Files.* A second Close of a file, or its destructor, closes the FatFS object again; `opened_`
  stays set. Open ignores what closing the file that was open before returned: when it failed, the
  writes it could not save are gone. Open tries again after a disk error only, and not after a
  drive that is not ready. Mkdirs takes a regular file for a directory when it comes last.
- *Events.* `CONTROL_REFRESH` (0xff) comes out as 15. An event added to a full queue makes it an
  empty one.
- *Encoder.* `Flush` of a tracker clears a detent that came after the program looked.
  `increment()` returns a `uint8_t`: a step back is 255 for a program that takes it as it comes.
- *Ports.* `set_value` does not mask its number: what does not fit sets pins above the group.
- *ADC.* The two bytes of a threshold are stored apart: a scan in between uses half of each.
- *SPI.* `UsartSPIMaster::Wait` polls a flag that nobody clears, and returns at once from the
  second byte on; `dma_tx_trigger` of `spi.h` gives the receive trigger. `Usart::Init` ors into a
  variable it has not set, and the declared `baud_rate` is not the one used.
- *Timers.* `DisableChannelInterrupt` shifts by two bits for each channel what the enabling shifts
  by one field; `set_pwm_resolution(16)` shifts a 16-bit 1 out of its word; two users of event
  channel 0.
- *DAC.* `status & mask == mask` is `status & 1`: a wait for both channels looks at channel 0 only.
- *LEDs.* The two descriptions of an intensity in `bicolor_led_array.h` differ: 1 of a colour
  that is on in odd phases gives two phases out of 2 `Levels`.
- *Clock set-up.* The waits have no time-out; an external 16 MHz crystal is given the range of a 2
  to 9 MHz one.
- *Switches.* `DebouncedSwitches` with more than 16 inputs shifts a 16-bit 1 out of its word.
- *op.h.* The assembly of `U8U4MixU8` reads a register that is output only; the C versions of
  `U24Sub` and of the 12-bit routines use names that are not declared; `S16ClipS8` wraps above
  32639; `S16U12MulShift12` changes registers it declares as inputs.
- *Strings.* The width of `Itoa` is not a limit; the lowest negative number prints as `-`.

## 4. What is proved

`Utils_proofs`, `Twi_proofs`, `TwiEeprom_proofs`, `Display_proofs`, `FatFileReader_proofs`,
`Storage_proofs` and `Drivers_proofs` are checked by TLAPS, for every value of the constants that
the named assumptions admit; `RemainderTheorems` has the lemmas on remainders and on induction that
several of them need. Each assumption is also evaluated by TLC on the instances above, and each
inductive invariant, or the property it proves, holds there.

**`RemainderTheorems`.** The code goes round everywhere: indices of rings (masks), clocks of 8, 16
and 32 bits, places within a block of a chip. The provers know a division by a constant and little
else, so what the proofs use is stated once, for every divisor: the remainder of a number written
as a multiple and a rest (`RemainderIs`, `Digits`), of the next number (`NextRemainder`), of a
difference of two clocks one of which goes round (`ModuloDifference`, `TickedDistance`), and the
distance between two indices of a ring when one of them moves (`RingSlots`, `RingGrows`,
`RingShrinks`).

The same module has the induction. Theorems that take an operator as a parameter cannot be used
here, but one about a *set* can: proper inclusion of finite sets is well-founded, a theorem of the
library; so a set of numbers has a least one (`LeastOf`), and a set that has 0, and n + 1 with n,
has all of them (`SetInduction`). `IterationExists` and `IterationIs` follow: what is defined step
by step is defined for every number of steps, by one function only. The proofs about chains of
clusters, chains of bits and decimal numbers rest on these.

**`Utils_proofs`, the ring buffer.** `RingInvariance`: `RingInv` is inductive. Besides the types it
says that the room, or the values, a side has seen are still there
(`Reservations`: the other side can only make more of them), that a side's own
index has not moved since it was read (`Latched`), that a handler in progress finds
the main program suspended, and that `Overwrite2` leaves the write index even. From
it follow `TypeCorrectness`, `ReservationsHold`, `Overwrite2InBounds` and
`RingImplementsFifo`: each publishing of an index is a `Put`, a `Get` or a `Clear` of
`Fifo`, every other step a stutter. The last needs that a store touches a slot
outside the queue (`StoreSparesQueue`), and modular arithmetic on slots
(`PublishGrows`, `TakeShrinks`).

**`Utils_proofs`, the arithmetic.** `OperatorsStayRight`: every routine of `op.h` agrees with its C
version for every operand, with bytes of eight bits (`NibbleBits = 4`, a hypothesis: the provers
know nothing of 2 to an unknown power; TLC compares the same routines with bytes of four bits).
Nothing is expanded into cases: an addition with carry and a subtraction with borrow are one byte
modulo its size and a carry (`AdcIs`, `SbcIs`), a chain of them is the sum or the difference of the
words (`SumChain`, `DifferenceChain`, `AddWordsIs`), and a product is the value of three bytes
modulo 2^24 as partial products are added to it (`AccumulateIs`, `UpperWord`, `UpperSigned`). A
factor with a sign has to be borrowed back from the byte above, which is what the `sbc` after a
`muls` is for (`SignBorrowed`, `ThirdBorrows`). The 24-bit words are compared for all bytes
(`NumbersAgree`), of which the property takes those at the edges.

**`Utils_proofs`, the texts.** `TextsStayWhole`: the texts that `Itoa` leaves are whole, and so are
those of `UnsafeItoa` when no handler stored digits of its own in between; alignment keeps them so
in their field. `StrInv` is inductive: what has been written is the beginning of the text, what is
in the digits is its end, and the number left is what is between the two (`Between`, which each
digit shortens by one: `RestShrinks`). The hypothesis `TextsFit` is about the types only:
`max_size` is the length of the longest text, and there is room for it, as there is for those of
all six types of `string.h` (12 cells). TLC evaluates it for the two types of a byte. The recursive
function that defines a text in decimal is the one that satisfies its equation (`DecimalExists`,
`DecimalUnique`, both by a least counterexample). `LengthFound` and `PadIs` are the two loops of
the alignment, `FieldIsWhole` what they make of a text that is whole.

**`Twi_proofs`.** `TwiInvariance`: `TwiInv` is inductive. Its parts: the types; `ReadyMeansIdle`,
of every transfer that was `tracked`; `OnlyFaultsMislead`, which says how one comes not to be
(the flag of a fault was up when it was started, or the one before it was not tracked either);
`StartsAtRest` and `StatusFits`, the agreement of the flags with the operation; `GrantKept`, the
room reserved from the check of `Request` to the last byte, for each transfer whose room was
checked with the bus at rest; without `granted` it is not inductive, and there is a
counterexample. `StateTellsTheTruth` and `InputNeverOverrun` (a byte that arrives finds room:
`ByteFits`, which is not one of the parts) follow. `TransfersComplete`: a transfer that ends
without an error has moved all its bytes, an action property.

**`Display_proofs`.** `ScanStaysTrue`: row, column and position agree, for every size of the text
(`row * Width + column` needs a little non-linear arithmetic). `NoCommandDropped`,
`DisplayTypes` and `DisplayStaysSound` from `DisplayInv`, the conjunction of the types, the scan
and the room: commands that do not fit are dropped without a word, but one test for four nibbles
is enough for two commands of two, as the handler only makes more room between the test and the
sending. `RemoteStaysTrue`: what `Tick` stores in `remote_`
is what the LCD will show once the queue is sent. `RemoteInv` speaks of every *trace* of the queue,
a sequence of states of the LCD that begins with what it shows and takes one command at a time:
each ends in a text that agrees with `remote_` and, unless the address was moved, in an address
just after the last cell written. A command queued makes a trace longer by one (`OneMore`) and one
sent makes it shorter by one (`OneLess`), so the steps of the specification take the place of an
induction over the queue; `Drained`, the recursive function of the model, is the end of a trace
(`SentIsATrace`). It uses that a position is a byte (`SizeAssumption`: no more than 256 cells).

**`FatFileReader_proofs`.** `FileInv` is the types, `CallInv` (a call works on a handle of its
kind; Read has stored nothing before its handle's sector is back; what it has stored and what it
has left make up the size in the entry) and `RestInv` (for each handle, bytes read plus bytes left
is the size of the file, but for what the call in progress has not yet entered). It is inductive
for every disk whose links and entries have types, so none of it depends on the disk being
consistent. `FileTypes`, `RestIsKnown` and `HandlesStaySound` follow.

`ReadIsInOrder` and `TheEndIsTheEnd` rest on `OrderInv`, which adds what is in memory (`MemoryInv`)
and, for each handle, where it stands. `HandleInv`: its cluster is the one that a `Walk` of so many
links reaches, its sector lies in that cluster, and what it has done is just what the sectors
behind it hold, or all but the last of them (`Placed`). A link followed is one more step of the
walk; so the arithmetic of sectors per cluster and items per sector is done once, in the lemmas on
`Placed`, and each action adds one of them. `FoundInv` and `ReadInv`: what has been found, or read,
is what the entries and the chain hold up to there. Both theorems are for every size of sector and
cluster, any links and entries, and any access that fails, under two hypotheses. `DiskAsExpected`:
a root directory without end is never listed, and a deleted entry is listed when it should not be
(finding 3). Safe mode, or a single handle: otherwise another handle has changed the sector that a
handle takes for granted.

**`TwiEeprom_proofs`.** `EepromInv` is inductive for every number of chips, size of chip, block
and byte that `ChipAssumption` admits (a block divides a chip, an address fits in two bytes), and
every text and address. Besides the types it has three parts. `CallInv`: a call stays below
`Limit`, and a transfer that has been prepared is for the chip of the call's address and is the
two bytes of that address and the data for one block. `OutputInv`: the output ring is that
transfer while it is sent, and empty otherwise. `PlaceInv`: while the program knows where it reads
from, the input ring holds what is stored from there on, and the chip's pointer is just after that;
without it a byte of an earlier transfer could be the first that `Read` returns. `WrittenIsStored`
and `ReadIsStored` are needed for themselves. The argument for Write is that a write which ends
within its block is stored in order (`StoredIs`: the wrap in the block is never used), that the
addresses which follow are in the same chip up to the end of the block (`PlacesInBlock`), and that
what the program knows changes at the same places as the memory, or is unknown there
(`KnownWhenDone`, `KnownWhenFailed`, for any prefix that the chip may have taken). The three
theorems are `WrittenStaysStored`, `ReadStaysTrue`, `NothingIsLeftOver`.

**`Storage_proofs`, the clock.** `TimeInvariance`: `TimeInv` is inductive for words of every size
(two values at least) and every set of delays. It needs three parts at once: no handler is half
done while the flag is down (`QuietWhenMasked`), so a word that has been read stays the word
(`ReadIsCurrent`), and the flag is what the program wants outside `milliseconds` and saved as that
inside (`FlagRestored`). `WordsImplementTheClock`: each step of the words is a step of `Clock` or
a stutter; `TickLow` is the tick, whether or not it owes a carry, `TickHigh` is a stutter, and
`Restore` is the reading, at the count of that moment because of `ReadIsCurrent`. The arithmetic
is that of a remainder by a product, stated once in `WordFacts`. `DelaysLast` adds two parts: the
count is no further from the start of a Delay than the time that has passed (`DelayInv`; modulo
the range, since the count goes round), and a Delay that is over has lasted (`DelayDone`).

**`Storage_proofs`, the card.** `SdInvariance`: `SdInv` is inductive for every card, number of
sectors, range of the clock, time-out and number of attempts, whatever commands and answers are
lost. It says of each point of each call how far it has come and what the card is doing: which
call can be there, with how much read (`PhaseInv`); that the card is selected exactly while a call
lasts (`Deselected`); that `Init` has a card that sends no data, and a type that fits it where it
goes on to the next command (`InitInv`); that a read that began with a silent card and the card
itself are at the same block (`ReadInv`); that the size is that of the card's register
(`SizeInv`); that a wait which began within the 16 bits knows what it has spent (`WaitInv`).
`CardStaysServed` follows, and `CardIsGivenItsTime`: a wait that gives up has lasted its time-out,
within the limits of the 16 bits of `now`. `TimeStaysGiven` joins it with `DelaysLast`, for the
composition.

**`Storage_proofs`, the files.** `FsInv` is inductive for any files, number of mounts and range of
mount numbers (`NamesAssumption`, `BoundsAssumption`). Its parts: the mount number of the volume
and of every object is the count of mounts modulo `IdSize` (`NextRemainder`); what has not been
saved waits to be flushed, in an object that is open; a retry has a mount left; `Mkdirs` has made
what it has passed. `FilesStayInOrder` follows at once. `AnswersStayTrue` is about steps, and needs
`CalmInv` besides: while a session is calm the disk works and is initialised, its volume is
mounted, its object has the number of the volume and no error, and no retry is in progress, since
a look-up on a mounted volume with such a disk cannot fail for want of it (so no Open mounts
again). That the Close of the old file cannot fail then is why the next Open drops nothing.

**`Drivers_proofs`.** One inductive invariant for each of the twelve drivers, and a theorem for
each of the properties of the `devices` run they make up.

- `RegistersStayAsAsked`. For the ports, `PortInv`: what `set_value` has read of the output
  register is still what is wanted of every other pin, but for the handler's pin when it has come
  in between (`ReadIsWanted`) and the pins above the group that a number too large has set;
  `MPCMASK` is up only during `set_mode`, and if a handler's write has used it up, the pins it was
  meant for count as disturbed (`ModeMasked`). For the timers, `TimerInv`: the same for the
  register of modes and channels (`ReadIsAsked`), since calls of the program and of the handler
  are for different channels (`OthersCall`).
- `HardwareIsReady`. The master of `spi.h` finds the flag as its last wait has left it (`AtRest`)
  and waits for this exchange alone (`InWait`); that of `usart_spi.h` does so for the first byte,
  before the flag that nobody clears is set (`FirstByte`), and the hypothesis of
  `ExchangesComplete` is just that. The bytes the serial port holds are, in order, those written
  and not yet sent (`HeldInOrder`); the source of the clock has been waited for (`SourceIsReady`);
  whoever is about to feed channel 0 of the DAC, or a channel asked by itself, knows it is empty
  (`FeederKnows`). It says nothing of bytes that come in.
- `PotsStayTrue`. The conversion in progress is that of the pin of the next scan
  (`PinIsNext`); the threshold of a locked input is the one asked for, or, between the two
  stores of a Lock, has its low byte (`InForce`); an input met just there is excepted.
- `UserStaysHeard`. The slots between the two indices hold the events that are due, in
  order (`SlotsHoldDue`), the slot that `PullEvent` has read is the first of them
  (`PulledIsFirst`), an index that `Flush` has latched is the one it was (`LatchedIsRead`), and
  the time kept is the clock's, modulo its width (`AgeIsDistance`).
- `DmaStaysAQueue`. Unless one side has been lapped, the slots between the program's index and
  the hardware's hold the numbers in order (`RingHeld`, kept by a push and by a pop:
  `HeldPush`, `HeldPop`), and a slot that was granted stays granted while the hardware goes on
  (`GrantLasts`). `HardwareIs` finds the hardware's index in the low byte of its
  counter of bytes, which holds as long as the block is no more than `DmaByte` (`BlockAssumption`).
- `KnobStaysCounted`, for the eight samples that the code keeps of a switch (`Bits = 8`, a
  hypothesis of the theorem: the provers know nothing of a power of two with an unknown exponent),
  and for every `Bounce` and `Dwell` that `KnobAssumption` admits. A word is the sum of its
  samples (`IsWord`), and each sample is the level of its contact when it was taken, unless the
  contact was bouncing (`Taken`, kept by a sample and by a turn: `SampleTaken`, `TurnTaken`). As
  the bounces are shorter than the word, only the contact that lags, after its detent, can leave
  seven 0 after a 1 while the other one has long been low (`EdgeIsADetent`); so there is one
  increment for each detent, or none when the tracker was pending, which `missed` remembers
  (`TurnsCounted`). All is counted in what the program is given, so that no remainder is needed.
  `ClicksCounted` has, besides the clicks seen, the one a frozen switch would set again: after
  `Flush` it can only be a new one. A bounce as long as the word could make the same edge twice,
  which is what `KnobAssumption` excludes.
- `ChainsStayAgreed`, for the eight samples that the code keeps of a switch (`Samples = 8`), any
  number of switches, of LEDs and of levels. For the LEDs, `LedInv`: the refreshes in which a
  colour was lit are those of the last so many counts (`LastOf`), which after a whole cycle are
  the duty, wherever in the cycle one begins to count. For the switches, `SwInv`: a word is the
  last eight levels of its own switch, so its edge is never that of a neighbour. Both need that a
  chain of any length delivers each bit to its place: `ShiftedOut`, by `SetInduction` over the
  bits shifted.

**Only model-checked.** Liveness (`WriteReturns`, `TransfersEnd`, `WaitReturns`, `ShowsPage`,
`SdCallsReturn`, both `CallsReturn`): fairness and ENABLED are out of the prover's reach.
`PeriodIsWhole`: `Random` uses `Bitwise`, which the provers have no theory of, and the period is a
fact about 65535 numbers that TLC computes. No module uses a RECURSIVE operator.

## 5. What is not modelled, and why

- Register values: baud rates, clock dividers, tables of pins, references of the converters,
  wording of texts, the LCD's start-up sequence and the delays between its commands. No
  property depends on them.
- `Hd44780Lcd::Flush`, which calls the handler's `Tick` from the main program: nothing in the
  library says whether the handler runs then. `SetCustomCharMap` requires the ring to be drained.
- The value that `TwiEeprom::Read` and `Write` return after an error: nothing says what it should
  be.
- `SPISlave`, the event system, `Resources`: one register access or one look-up per function.
- `Log2` (evaluated by the compiler), `Mul16Scale8`, and the assembly of `U8U4MixU8`, which
  depends on a register it has not set.
- `ff.c`, `mmc.c`, the EEPROM and self-programming drivers: third-party. What `File` relies on in
  `ff.c` is external in `FileSession`; `mmc.c` is written for another processor. The order of
  FatFS's sector writes under a loss of power is FatFS's, and the library keeps nothing on disk
  itself.
- The Python tools run on the developer's machine.

## 6. Plan

Done: every component with state and an order of events; a refinement for the two
that the others rest on (the queue and the clock); an inductive invariant, proved, for every
component but the random generator.

What could still be added, the most useful first:

1. Abstract specifications: a transfer of the bus (all bytes or an error), implemented by
   `Twi` and used by `TwiEeprom`; a block device, implemented by `SdCard` and used by
   `FatFileReader`.
2. `Flush` of the LCD, with the handler running and with the handler stopped.
3. `TwiEeprom`: the values that calls return, and a `Read` over the end of a chip.
4. `Timers`: counting and capture, whose values depend on when a handler reads them.
