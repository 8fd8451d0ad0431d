# Formal models of the Tessel firmware

The Tessel 1 is a microcontroller board (LPC1830) that runs JavaScript, compiled to Lua, under
a small event loop. Its firmware (`src/src`, C) connects the script to USB, UART, SPI, GPIO,
WiFi and other peripherals; `src/builtin/tessel.js` is the JS library on top. This directory
holds TLA+ models of it, the TLC configurations that check them, and theorems that TLAPS proves.

    tlc -config MCUsbMsg.cfg MCUsbMsg      # any run of the table below
    tlapm MainProofs.tla                   # any module *Proofs

`PROJECT.json` maps every definition to the lines it models and lists components, runs,
mutants, findings, hazards and theorems.

## 1. The system

One thread, called the *main thread* here, runs `main_body`; interrupt handlers preempt it.
They meet in three ways: handlers trigger `tm_event`s, which the main loop (and the event loop of
a running script) pops one at a time; both touch hardware registers by read-modify-write; and
both touch static variables, without locks. JS callbacks are called from event callbacks, so a
callback never preempts another but any interrupt may preempt it. The host computer is at the
other end of USB and may stop, give up a message, send something else than it announced, or reconnect
at any point; the firmware checks none of this while a message comes in.

| component (source under `src/`) | state | operations | hard behaviour | what makes it correct |
|---|---|---|---|---|
| main loop (`src/main.c`: main_body, hw_wait_for_event) | event queue, interrupt mask | trigger, wait, process | interrupt between check and WFI | no sleep on work, every interrupt served |
| USB messages (`src/usb/msg_interface.c`) | OUT: buffer, length, position; IN: list of messages, position; connected | arm, completion interrupt, three event callbacks, send, connect, disconnect | short, zero-length and exact packets; messages given up, or longer or shorter than announced; stale events after a reconnect | framing as long as the host keeps to it, no loss, no freed buffer written, no deaf endpoint |
| script life cycle (`src/main.c`: tessel_cmd_process, load_script) | script_buf, script_buf_lock, the Lua state, flash | upload, refuse, other commands, load, run, end | uploads while one is pending or running; early returns | buffers owned once, every accepted upload loaded once in order |
| UART (`src/hw/hw_uart.c`) | two rings per port, IER, TxIntStat | send, receive callback, interrupt, init, disable | ring full and wrapped; IER read-modify-write; closing with interrupts pending | bytes in order, none lost, none stuck, no freed ring touched |
| SPI queue (`builtin/tessel.js` SPI) | transfers, locks, listeners of one global event | queue, lock, release, raw transfer, completion | one event for all owners; immediates; locks between transfers | exclusion, own result, everyone served |
| SPI over DMA (`src/hw/hw_spi_async.c`) | spi_async_status, linked lists, two channels, chip select | transfer, interrupt, completion event, cleanup | two channels in any order, exact packet sizes, errors, script end and the completion it leaves behind | all bytes, right frames, errors reported, release |
| GPIO interrupts (`src/hw/hw_interrupt.c`, `hw_digital.c`, `builtin/tessel.js`) | seven slots, pin interrupt registers, records and listeners in JS | on, once, remove, restart, interrupt, event | stale events, registers that outlive a slot, two records of one state | library and firmware agree, no leak, no storm, levels served |
| CC3000 driver and WiFi (`src/cc3000/`, `src/tessel_wifi.c`, `src/tm/tm_net.c`, `src/hw/hw_net.c`) | SPI state, interrupt flag, awaited opcode, connection and in-use flags | enable, connect, look up, receive, disable; interrupt, polls, unsolicited events | late and missing answers; interrupt inside a write; commands sent from inside a wait; failures that return early | an answer goes to its command, the chip's line is seen, calls return, the in-use flag is true |
| timer 3 (`src/tm/tm_uptime.c`, `tm_timestamp.c`) | match and overflow, the list of timers with its base, the time-of-day base | arm, tick, wrap, both interrupts, read and set the clock | deadline that passes while it is armed; wrap inside a reading | no timer sleeps through its time, the clock keeps time |
| state configurable timer (`src/addons/neopixel.c`, `hw_readpulse.c`, `hw_pwm.c`) | owner, animation with its double buffer, completions | read a pulse, animate, PWM, interrupts, completion events, reset | three users of one timer; completions of the script before | one owner with a handler, right pixels, true answers |
| audio (`src/module_shims/audio-vs1053b.c`) | state, list of buffers, recording, references | play, queue, pause, resume, stop, record; DREQ and timer interrupts; shift event | calls that overtake events; a cancel under way when a script ends | completions and pauses are true, each script's buffers are its own, every buffer ends |
| USB log (`src/usb/log_interface.c`) | two banks, position | log, flush, in event | handler and main thread on one bank | order, no overflow |
| boot loader and USB core (`boot/`, `src/usb/usb.c`, `src/sys/spi_flash.c`) | DFU state, block count | download blocks, control requests | blocks out of order, size limits | only the image region is written |
| GPS, software UART (`gps-nmea.c`, `hw_swuart.c`) | sentence buffer; bit counters | receive, parse; send | count shared with the interrupt | whole sentences, whole bytes |
| analog, I2C, Lua bindings, random, board start, patch programmer, erase, OTP, tests, vendored drivers | registers, or none | | straight-line code | not modelled, see section 7 |

## 2. The modules

| module | models | composed of |
|---|---|---|
| `EventLoop` | the main loop and tm_event | |
| `UsbMsg` | USB messages, with host and endpoint | refines `MsgChannel`, a FIFO of whole messages |
| `ByteRing` | the ring macros of the UART, as operators | |
| `Uart` | UART, its interrupt and line | extends `ByteRing` |
| `SpiQueue` | the JS queue and locks above one asynchronous transfer | |
| `SpiDma` | the asynchronous transfer | |
| `ScriptHost` | uploads and the life cycle of scripts | |
| `GpioInterrupt` | slots, pin hardware, listeners | |
| `Cc3000` | the wireless chip, its transport, the wait for answers, the calls of the net bindings | |
| `Uptime` | timer 3, the script's timers, the time of day | |
| `Sct` | the state configurable timer and its users | |
| `Audio` | player and recorder of the audio module | |
| `*Proofs` | theorems about the module of that name; `MainProofs` is about `EventLoop`, `ScriptHost` and `GpioInterrupt`, `SpiProofs` about `SpiQueue` and `SpiDma`, `UartProofs` about `Uart` with `ByteRing` | the modules named |
| `MC*` | values of constants for TLC; each `MC*.cfg` is a run | |

Modules that one proof module extends together must not share names: the specification of
`EventLoop` is `LoopSpec` (with `LoopInit`, `loopVars` and so on), that of `SpiDma` `DmaSpec`, that
of `GpioInterrupt` `GpioSpec`.

Correspondence with the code, beyond `map`:

- **EventLoop.** `hw_wait_for_event` is taken apart into its instructions (`DisableIrq`,
  `TestPending`, `Wfi`, `EnableIrq`), since an interrupt fits between any two. WFI wakes on an
  asserted interrupt even when it is masked, as the comment at main.c:437 says. `tm_event` is in
  a submodule that the repository does not contain; it is a FIFO with idempotent trigger.
- **UsbMsg.** A byte is known by the message it is part of, so that mixing two messages shows.
  `out` gathers the `msg_out_*` variables and the endpoint, `in` the list, `msg_in_pos` and the
  endpoint. `handle_msg_completion` runs in the interrupt and is one action per endpoint;
  `msg_out_handler` is taken apart where it spins or dispatches, since the completion interrupt
  fits in between. A host's message is the length it announces and the length it sends, and neither
  says anything about the other. A firmware that writes outside of a buffer is at `overrun` and is
  not followed any further: what it does then is undefined.
- **Uart.** Each `UART_IntConfig` of the main thread is a load of IER and, in the next
  step, a store: the handler clears THRE in between. `hw_uart_send` and `hw_uart_receive` are
  taken apart there; the interrupt handler is one action for receive and one for transmit.
- **SpiQueue.** `immediates` and `emitting` are the JS runtime's queues. An `emit` calls the
  listeners registered when it began, one after the other, as node's does.
- **SpiDma.** A packet is moved at once; the order of packets of the two channels is free.
  Buffers are sequences of byte positions. `Transfer` looks at the references alone, as l_hw.c:125
  does; a completion event that a script left behind may be pending, since the next script is
  itself started by an event that may be ahead of it in the queue.
- **ScriptHost.** A message is known by its number; its buffer is allocated, freed or leaked
  in `heap`. `OpenRuntime` is the assertion of main.c:512: with a runtime open, main aborts.
- **GpioInterrupt.** `hw` is the slot's bit in each register: writing zeros to the set and
  clear registers (`SIENF`, `CIENF`) does nothing, clearing an edge clears both, edges are
  detected whether enabled or not. `Emitted` is one `pin.emit`; the callbacks' own calls to
  `on`, `once` and `remove...` come as steps of the script between the `change` and the trigger
  emit, or after it. A flags mask is a set; `-1` is the set of all.
- **Cc3000.** There is one thread, and a call blocks in a loop that polls the interrupt flag.
  What the poll reads may be an unsolicited event whose callback sends commands of its own from
  inside the wait, so the thread is a `stack` of frames. Every access to the flag, to the
  chip select and to the awaited opcode that an interrupt may separate from the next is a step.
  The chip is external and as friendly as its manual allows: it answers in order, late, or never.
- **Uptime.** `hw_timer_update_interrupt` is four actions, one per access to the timer, and the
  counter ticks between any two. A reading of the clock adds base and counter in two
  steps, in either order, as C leaves it open. The list of timers belongs to the runtime; `timers`
  holds delays from the base.
- **Sct.** A pixel is its place in the animation's data, three bytes in the code. `anim` keeps
  `framesSent`, `bytesSent`, `bytesPending` and the double buffer the timer selects from. Frames
  are whole pixels, as neopixels.js:12 asks for them; `AnimateNothing` is the call without pixels or
  without data, where l_hw.c:798 is not taken and the uninitialised pointer is followed all the
  same: it finds nothing, or something left on the stack.
- **Audio.** Sending a buffer is a loop of the main thread and of the DREQ handler
  alike (`Send(t)`); the handler preempts it anywhere. Bytes are counted in chunks, and a
  reference of the Lua registry is the number of the call that took it.

`UsbMsg`, `SpiDma`, `Cc3000`, `Uptime`, `Sct` and `Audio` have *history variables*, which no guard
reads: what was handed over last and whether the host has broken the framing since it connected
(`dispatched`, `host.broke`), what a transfer found left over (`past`), commands with what came back
(`cmds`, `hist`), the day the clock shows (`day`), and `slips`, the orders of calls for which the
code has no answer. A property of the form "bad implies slip" says
that the named order is the *only* way to the bad outcome; each slip does occur in the run.

## 3. The runs

| run | distinct states | shows |
|---|---|---|
| `event_loop` | 255 | `NoSleepOnPending`, `IrqServed` |
| `usb_msg` | 173,110 | whatever the host sends, no use of what is freed (`BuffersSafe`) and neither direction stuck (`NeverStuck`); until it breaks the framing, messages neither mixed nor lost nor written past their buffer (`OutFraming`), `EventuallyDispatched`; `InIsChannel` (refinement) |
| `uart` | 120,390 | every byte accounted for on both sides of the interrupt (`RingsAccounted`), `FreedNeverTouched`, `EventuallySent` |
| `spi_queue` | 27,584 | `BusExclusive`, `OwnResult`, `EveryoneServed` |
| `spi_dma` | 9,498 | until a transfer meets a stale completion: `AllBytesMoved`, chip select and channels agree (`WireFramed`), `ErrorReported`; always `EventuallyFree` |
| `script_host` | 1,804 | `ScriptBufAlive`; with known commands only, every upload is loaded once and in order (`KnownUploadsRun`) |
| `gpio` | 210,468 | script, library and firmware agree (`BooksAgree`), `NothingWentWrong`, `LevelServed` |
| `cc3000` | 945,829 | `OwnAnswer`, `DeviceHeard`, `BusyIsTrue`, `CallsReturn` |
| `audio` | 68,207 | `PlaybackIsTrue`, `RecorderKnowsItsScript`, `BuffersEnd`, `CancelCompletes` |
| `uptime` | 3,795,070 | `WakeupNotLost`, `ClockKept` |
| `sct` | 263,234 | `InterruptHasHandler`, `PixelsInOrder`, `AnsweredInTime`, `TimerReleased` |
| `audio_refs` | violation | finding: `PlayingIsReferenced` |

The type invariant is an invariant of its own (`LoopTypeOK` of `event_loop`, `TypeOK` of
`script_host`, `cc3000` and `audio`), a conjunct of `BuffersSafe`, `RingsAccounted`,
`BusExclusive`, `WireFramed` and `BooksAgree`, or (`Uptime`, `Sct`) a theorem. Every
property has a mutant: a plausible slip in a mapped definition, kept beside it, under which TLC
finds the property violated.

Bounds, and why they reach the cases that matter:

- `event_loop`: two events and three lines, one of which triggers nothing: queue order,
  repeated triggers and a wakeup without work.
- `usb_msg`: header 1, packet 3, block 6 instead of 8, 512 and 16384. Lengths below, at and
  above one packet, one block and two blocks; hosts that give up before the header, in the first
  packet, after a block; that send a short first packet and announce more, or more than they
  announced, in the first packet or in the rest; two messages each way and one disconnect.
- `uart`: a ring of 4 with 5 bytes wraps and fills; FIFO of 2; two openings, so that one follows
  a close; one port.
- `spi_queue`: three transfers and two locks with two raw transfers: a lock between transfers, a
  transfer between locks, two waiters behind a holder.
- `spi_dma`: packet limit 3, lengths below and above it, one or two chunks, batches of two, three
  transfers in a row, so that one of a later script meets a completion left behind and another
  follows it; repeat counter of width 4, so that its wrap is near.
- `script_host`: four messages: one running, one pending, one refused, one unknown.
- `gpio`: two pins that compete for the only slot, three modes: exhaustion, handover of
  a slot with an event pending, edge and level on one slot in turn. With two slots and two
  modes (341,948 states), and with one pin and two slots (46,468 states), the same properties hold.
- `cc3000`: three calls, so that a late answer finds one command of its kind and one of another;
  two unsolicited events and two nested reports, so that a report is asked inside a report.
- `audio`: four calls of two scripts, buffers of none, one and two chunks: a queue that
  moves on twice, a call between a buffer's end and its event, a cancel at a script's end.
- `uptime`: a counter of four values that wraps twice; two timers, with delays of no tick to
  almost the range; the clock used twice and set to 2.
- `sct`: four calls of two scripts; animations of nothing, of less than a frame, of one frame, of
  one pixel, and of three frames, so that a later frame begins in each of the two buffers.

Deadlock is checked in `event_loop`. In the others a script, chip or host may fall silent for ever
and the bounds end: the system really may stop.

**Assumptions that runs make**, because properties fail without them, as we found by
dropping each:

- `HostWaits` in `usb_msg`: the host lets completions be handled before it disconnects, and
  reconnects after the cleanup has run. A disconnect only *triggers* the cleanup
  (msg_interface.c:38); a reconnect before it runs finds old buffers and lists. With
  `HostWaits = FALSE`, `BuffersSafe` and `OutFraming` are violated.
- `Framed` in `usb_msg`: `OutFraming` and `EventuallyDispatched` speak of a connection up to the
  first message that is longer than it announces, or that announces more than a packet and begins
  with a short one. Such hosts are in the run, and the other properties hold with them.
- `Sane` in `spi_dma`: the three invariants promise nothing once a transfer has met the
  completion event of one that a script abandoned. Such scripts are in the run.
- `EnableFlushes`: enabling an endpoint discards a transfer left on it. The USB stack is a
  submodule that is not here.
- One port in `uart`: all ports share `TxIntStat` (hw_uart.c:62), and with two `EventuallySent`
  fails. `EnableRaises = FALSE` is the hardware as the comment at hw_uart.c:279 has it.
- `BadChunks = {}` in `spi_queue`: a chunk size that does not divide the length throws after
  the listener is added (tessel.js:1181) and wedges the queue. (The two safety properties hold with
  bad chunks too, see section 6.) `HoldersWait`: a lock is not released under its own running
  transfer.
- Requests of `spi_dma`: no exact multiples of the packet limit; no empty buffers, which JS sends
  in chunks if asked to (tessel.js:1302): the end is then triggered before the transfer starts
  (hw_spi_async.c:320); errors only in single-chunk transfers without a receive buffer, since each
  chunk resets the error counter. The theorems name them `NoFullPacket`, `NoEmptyBuffer` and
  `FaultsAlone`.
- Modes of `gpio`: without `change` and `high` (`QuietModes` in the theorems).
- Commands of `cc3000`: only `hw_net_initialize` starts the chip, and first thing
  (`OpsAssumption`; hw_net.c:232, 251).

**Deviations seen with these assumptions dropped.** Adding one of these to a cfg, or dropping the
condition named, makes TLC find a counterexample; each with the line that is behind it:

| property | in | what happens |
|---|---|---|
| `NothingLeaks` | `ScriptHost` | main.c:150 returns without freeing the buffer of a refused upload |
| `RawErrorIsOwn` | `SpiQueue` | tessel.js:995 assigns a global `err` and never clears it: after one failed raw transfer each later one reports the error |
| `AllBytesMoved` with `Requests <- MCFullPackets` | `SpiDma` | hw_spi_async.c:138 computes the last packet's size as `len % 0xFFF`, 0 for an exact multiple |
| `BooksAgree` with `change` in `Modes` | `GpioInterrupt` | tessel.js:246 passes the whole of `change` to the firmware: a remaining listener of `rise` is dead |
| `NothingWentWrong` with `high` in `Modes` | `GpioInterrupt` | hw_digital.c:143 leaves IENF set after a high level; the slot, reused for a rising edge, meets the case of hw_interrupt.c:224 and the interrupt stays asserted |
| `OneMessageDispatched`, `NothingLost` (`OutFraming` without `~host.broke`) | `UsbMsg` | msg_interface.c:178 copies the whole first packet into a buffer of the announced length (:177), :118 arms whole packets beyond its end, and after a short first packet :180-182 waits for a rest and takes the next message for it |
| `QuietAtEnd`, `ChipSelectFrames` (`WireFramed` without `Sane`) | `SpiDma` | the cleanup (hw_spi_async.c:174-193) leaves `async_spi_event` in the queue, l_hw.c:125 looks at references only: the next script's transfer is reported complete, and its buffers released, before its bytes have moved |
| `TimerReleased` without `"nothing_to_animate"` | `Sct` | l_hw.c:785 takes the timer, :798 skips an animation without pixels or data, and the -1 of neopixel.c:425-427 is ignored at :824: the timer stays taken and the script waits until it ends |
| `UnsolicitedOnce` | `Cc3000` | an event handled from inside a wait is still in the buffer and handled again |
| `FramesShown` | `Sct` | the last pixel of a frame goes out again as the first of the next |
| `StoppedAtEnd` | `Audio` | a script that ends while its recording is cancelled leaves the timer running |

## 4. Fairness

- Interrupts are taken (weak fairness on handlers where nothing masks them for good; strong
  where the main thread masks them again and again: the lines of the event loop, THRE of the UART).
- The main loop and the event loop of a script run (weak fairness). Events of GPIO need strong
  fairness, because handlers preempt the loop again and again: a pin that toggles faster than
  the loop turns starves it, on the board too, and strong fairness leaves that case out.
- Hardware makes progress: the DMA ends, the UART shifts, the timer of `Sct` counts, the audio
  chip raises DREQ again and ends a recording it is told to end. A pulse that has started
  ends, since the code has no timeout for it.
- Nothing makes the wireless chip answer (`FairSpec` of `Cc3000`: thread, interrupt, start-up):
  `CallsReturn` rests on the timeouts of the code alone.
- The host and the script owe nothing, with one exception: in `spi_queue`, a lock that is held is
  released some day, without which no other could ever be ready.

## 5. Findings

`audio_refs` is a run that must fail. When the queue moves on, `shift_buffer`
(audio-vs1053b.c:161) drops the Lua reference of the buffer that *begins* to play and keeps
that of the one that ended; the comment at :158 has it the other way round.

The deviations of section 3 were found the same way.

## 6. What is proved

By TLAPS, for every value of the constants that satisfies the named assumptions of the modules.
Every safety invariant of the passing runs is a theorem, and so is the refinement of `usb_msg`.

- **The loop never sleeps on work** (`MainProofs`). `NoSleepOnPending` is not inductive: that the
  queue is empty *asleep* depends on its being empty since the check. `SleepInv` adds that
  interrupts are masked exactly from the check to the wakeup, and that the queue is empty after a
  check that found it so. Only `Isr` adds to the queue outside callbacks, and it needs the mask off.
- **Scripts and uploads** (`MainProofs`). The bundle in use is never freed
  (`ScriptBufStaysAlive`). `Inv` is `TypeOK` with `ScriptBufAlive`, which is inductive: the running
  bundle and the one that waits are the two buffers that matter. `ReturnInv` is the delicate case,
  as main_body frees the global pointer and not what it loaded: an unknown command resets the
  lock, and an upload may then replace the pointer while a script runs. `UploadsRunInOrder` is about
  histories without unknown commands: `InOrder` says that what was accepted is what ran followed
  by at most one upload, the one that runs or the one that waits.
- **Pin interrupts** (`MainProofs`), for any number of pins and slots, *assuming* `QuietModes`:
  `BooksAlwaysAgree`, `HandlerExpectsEdges`. `Books` says that each record is watched by the
  slot it names, and that each slot is named by a record or `Idle`. Idle includes that the
  enable bits are off, which `BooksAgree` does not say: the slot's next user inherits the
  registers, and `Watch` only sets bits. `Once` says that a record of a level has a `once()`
  listener, so that the emit removes the record; `Armed` that a level which is off has its event
  pending, as a *low* one, or is being emitted, so that a stale event of the slot's former user
  cannot take its place. The hypothesis is needed in both halves, see the deviations: `change`
  breaks `Books` when one of two edges is dropped, a `high` level leaves a bit on in an idle slot.
- **UART** (`UartProofs`), for every size of ring and FIFO and any number of ports:
  `BytesAccounted`, `FreedRingsUntouched`. The ring is a bounded queue: count, empty
  and full agree (`CountIsFill`), a put appends (`PutAppends`), a take removes the oldest
  (`TakeRemovesOldest`), although indices wrap. The handler's loops over the FIFO are recursive
  functions; what each preserves is proved by the least step at which it would fail
  (`LoopKeeps`). `Sound` says per port where each byte is: `Sent` and `Received` account for those in
  the rings, the FIFOs and on the wire, `Opening` for those that come in while
  `hw_uart_initialize` is half through, `Announced` that a filled ring has its event, `Closing` in
  which order a port goes down, on which `FreedNeverTouched` rests.
- **USB messages** (`UsbMsgProofs`), for every size of header, packet, block and message,
  *assuming* `HostWaits` and `EnableFlushes`: whatever the host announces and sends, nothing freed is
  used (`NothingFreedIsUsed`), neither direction gets stuck (`AlwaysOnTheWay`) and the IN direction
  implements `MsgChannel` (`InImplementsChannel`); and from a connection until the host breaks the
  framing (`host.broke`), messages are neither mixed nor lost nor written past their buffer
  (`MessagesKeepTheirFrames`). The constants say nothing of the sizes a host sends: what the framing
  needs is in the property. `IInv` says where a message can be: the OUT direction is in one of five
  states (`Waits`, `Fills`, `Filled`, `Told`, `Handled`), told apart by what is pending; the IN
  direction sends, has sent or drops; and `Apart` says what is left of either between a
  disconnection and its cleanup, which is what `HostWaits` is needed for. `FrameState` relates the
  handler's position to the host's in the same message, at each place of the handler, for as long as
  the host has not broken the framing; it needs that the last transfer is armed for *more* than
  what is left (`ArmRestEnds`), so that it ends where the message does. `Named` says that buffer, header and what is handed over are of one message.
- **The SPI bus has one user** (`SpiProofs`), for any number of transfers and locks, bad chunk
  sizes included, *assuming* `HoldersWait`: `OneUserAtATime`, `ToldOwnResult`. Neither property is
  inductive. `Turn` lists the six situations of the queue, from `Nothing` through `Granting`,
  `Held`, `Resuming` and `Transferring` to `Wedged`; in each there is at most one job in
  `immediates`, one listener, one user of the bus. `Told` adds that what is on the bus or told is
  the head of the queue, and unanswered until then.
- **SPI over DMA** (`SpiProofs`), for packets and buffers of any size, any chunks and repetitions,
  *assuming* `NoEmptyBuffer` and `FaultsAlone`, and for the last also `NoFullPacket`:
  `TransferFramed`, `ErrorsReported`, `EveryByteMoved`, each until a transfer meets a stale
  completion (`Sane`). `Leftovers` says that only an abandoned transfer leaves a completion or a
  channel behind, so that those of other scripts do not lose what they are promised. A transfer is
  `Idle`, `UnderWay`, `Ended` or `Faulty`. `UnderWay` ties the count of channels that are done to
  the channels that are off, the packets left of each to the end of the chunk's list, and the bytes
  that have moved to chunk and repetition; `Aligned` says that chunks start on multiples, so that
  the last one ends with the buffer. Arithmetic on products and remainders is in lemmas of its own.
- **Timers and clock** (`UptimeProofs`), for every range of the counter: `WakeupsNotLost` and
  `ClockIsKept`. `WakeInv` says what `hw_timer_update_interrupt` has done at each of its places, so
  that at the end either the match is ahead or the wakeup is under way. `ClockInv` counts the
  ticks that a wrap's handler still owes. The lemmas about `%` come first.
- **The state configurable timer** (`SctProofs`), for animations of any length, of nothing and of
  less than a frame too: its interrupt has a handler (`HandlerKnown`), the pixels of frames of more
  than one pixel go out in order if there is a whole frame (`PixelsGoOutInOrder`), answers are true
  (`AnswersInTime`). `Owned` ties the interrupt to the
  owner; `Pipeline` says which two pixels are in the double buffer at each point.
- **The audio module** (`AudioProofs`), for buffers of any length, any number of calls and scripts:
  `ScriptIsToldTrue` and `HandlerKeepsToItsScript`. `Sent` says that a pending shift event is for a
  head of which all was sent; `Still` that a paused player has nothing left to do;
  `OwnRecording` that the timer runs only for the recording of the running script. Each holds until
  the slip that its property names.
- **The wireless driver** (`Cc3000Proofs`), for any calls, commands, unsolicited events and nesting:
  `ChipIsHeard`, `BusyIsKnown`, `AnswersAreOwn`. `Sound` is what all three stand on: `Frames` says
  which frames can be on the stack and below which (the one that runs is at any place, one below
  it in a wait or at its end); `Phase` that the chip is off, starting or started, so that a
  handshake is not taken for an event; `LineInv` which accesses to the flag and the chip select
  can be under way. `UseInv` is the in-use flag. For `OwnAnswer`, every step is first shown to be
  one of `Kinds` (`EveryKind`): it sends, starts to wait, hears, gets an answer or data, gives up,
  returns and so on. Then three invariants, each kept by every kind: `Packets` (an answer on
  its way is for a command that went out, and is there once), `Waiters` (frames further down
  are older, and once those above wait they have been given up; the awaited opcode is the
  frame's own or was left by a later report) and `Owners` (an answer on its way is for the command
  that waits or is about to, or for one of a kind that was given up; and so for data).
  `OwnAnswer` without `TakenOver` holds within the bounds of the run and is false: with one more
  unsolicited event, a command whose wait was taken over by a report that is then given up itself
  may be given the answer to the report. The attempt to prove it found that.

`MainProofs`, `UptimeProofs`, `SctProofs`, `AudioProofs` and `Cc3000Proofs` also prove the type
invariant (that of `GpioInterrupt` as a part of `BooksAgree`); in the others it is part of a property
proved. `NULL` is assumed to be none of the values it is told apart from.

Only model-checked: liveness (`IrqServed`, `EventuallyDispatched`, `EventuallySent`,
`EveryoneServed`, `EventuallyFree`, `LevelServed`, `CallsReturn`, `BuffersEnd`, `CancelCompletes`,
`TimerReleased`), since fairness and ENABLED are out of the prover's reach, and the finding of
section 5. Beyond the prover also: induction over data. Where an action runs a recursive function
(the loops of the UART) the proofs use what each of its steps preserves.

## 7. Not modelled

- In the modelled components: what commands other than uploads do to the hardware; line errors
  of the UART (an LED); synchronous SPI; in `GpioInterrupt`, slots watched with a C callback, and
  `error` listeners, other than that `on` adds a listener without a slot. One listener per pin and
  mode. Register read-modify-writes of the GPIO slots are atomic: that the main thread writes back
  the bit of another slot which a handler has cleared in between is not modelled. In `Cc3000`, the
  bytes of packets, the list of open sockets and their status bits, the count of free buffers and
  the patch request; in `Sct`, lengths of pulses and registers; in `Audio`, the registers of the
  chip, volume, stream ids and the SPI transfers under a chunk.
- The components are modelled one by one. What they share (the event queue, the SPI bus, the slots)
  appears in each as its environment: an event is a flag that the main loop takes some day.
- USB log, boot loader and USB core, GPS and software UART: see the plan.
- Left out: analog, I2C, clock, memory and pin set-up are straight-line register
  writes; the Lua bindings convert arguments (the transfer binding, which holds buffers, is in
  `SpiQueue` and `SpiDma`); the patch programmer, erase and OTP images run once, sequentially;
  random numbers have statistical properties; drivers and USB stack are vendored or submodules.

## 8. Plan

What is left, in order of what can go wrong: a module for the log interface, whose two banks are
filled by the main thread and by handlers; the block download of the boot loader above the flash;
the software UART's bit counter. Then compositions: `SpiQueue` above `SpiDma` (the
transfer of the one is the `hw.spi_transfer` of the other), and `Audio` above the slots of
`GpioInterrupt`, which it acquires without reserving.

Proofs: the invariants of the runs are done. What is left is to need less: `BooksAlwaysAgree` for
scripts that listen for `change` or `high`, with the two deviations named as slips in the manner of
`Audio`, instead of `QuietModes`; `TransferFramed` for faults in any chunk; `UsbMsg` without
`HostWaits`, up to the first early reconnect. Then that `SpiDma` implements the transfer that
`SpiQueue` takes for granted.
