-------------------------------- MODULE SpiDma --------------------------------
(***************************************************************************)
(* The asynchronous SPI transfer (src/src/hw/hw_spi_async.c): a buffer is  *)
(* sent in chunks, several times over, each chunk as linked lists for a    *)
(* transmit and a receive DMA channel; the DMA interrupt starts the next   *)
(* chunk or triggers the event that reports the end to the script.         *)
(***************************************************************************)
EXTENDS Integers, Sequences

CONSTANTS
  MaxDmaSize,     (* SPI_MAX_DMA_SIZE, 0xFFF in the code                   *)
  Requests,       (* [len, chunk, repeat, rx, faults]: rx, there is a      *)
                  (* receive buffer; faults, the DMA may report errors and *)
                  (* the script may end before the transfer does           *)
  RepeatWidth,    (* repeat counts modulo this, 2^32 in the code           *)
  MaxTransfers,   (* bound: transfers started                              *)
  NoRequest

ASSUME SpiDmaAssumption ==
  /\ MaxDmaSize \in Nat \ {0} /\ RepeatWidth \in Nat \ {0} /\ NoRequest \notin Requests
  /\ Requests \subseteq [len : Nat, chunk : Nat \ {0}, repeat : Nat,
                        rx : BOOLEAN, faults : BOOLEAN]
  /\ \A r \in Requests : r.len % r.chunk = 0 /\ r.repeat \in 1..(RepeatWidth - 1)

VARIABLES
  st,       (* spi_async_status: request, offset, repeat, counters         *)
  chan,     (* per channel the packets left to move, and its interrupt     *)
  cs,       (* level of the chip select pin                                *)
  event,    (* async_spi_event is pending                                  *)
  main,     (* where the main thread is in hw_spi_async_cleanup            *)
  moved,    (* bytes of the buffer each channel has moved, in order        *)
  errored,  (* an error interrupt of this transfer was served              *)
  report,   (* what the script was told of the last one                    *)
  past,     (* history: "abandoned", a script ended during its transfer;   *)
            (* "stale", the next transfer met the completion of that one   *)
  count

dmaVars == <<st, chan, cs, event, main, moved, errored, report, past, count>>

Channels == {"tx", "rx"}
Off == [packets |-> <<>>, irq |-> "none"]
Free == [req |-> NoRequest, held |-> FALSE, length |-> 0, offset |-> 0,
         repeat |-> 0, done |-> 0, error |-> 0]

DmaInit ==
  /\ st = Free /\ chan = [c \in Channels |-> Off] /\ cs = "high"
  /\ event = FALSE /\ main = "idle"
  /\ moved = [c \in Channels |-> <<>>]
  /\ errored = FALSE /\ report = NoRequest /\ past = "clean" /\ count = 0

-----------------------------------------------------------------------------
(* Beside some operators stands a mutated form, a plausible slip: the       *)
(* remainder forgotten, one channel awaited instead of two, an error or a  *)
(* buffer forgotten.                                                       *)

(* hw_spi_dma_num_linked_lists and hw_spi_dma_packetize_step: the last     *)
(* packet interrupts and has the remainder as its size, which is 0 when    *)
(* the length is a multiple of the maximum.                                *)
NumLinkedListsFloor(n) == n \div MaxDmaSize
NumLinkedLists(n) == (n \div MaxDmaSize) + (IF n % MaxDmaSize # 0 THEN 1 ELSE 0)

Packets(from, n) ==
  [i \in 1..NumLinkedLists(n) |->
     [from |-> from + (i - 1) * MaxDmaSize,
      size |-> IF i < NumLinkedLists(n) THEN MaxDmaSize ELSE n % MaxDmaSize]]

Used(s) == IF s.req.rx THEN Channels ELSE {"tx"}

(* Handlers run on a record of the state they share.                       *)
World == [st |-> st, chan |-> chan, cs |-> cs, event |-> event]

(* The counters of a chunk, and the interrupts that end it.                *)
Fresh(s) == [s EXCEPT !.done = 0, !.error = 0]
ExpectedOne(s) == 1
Expected(s) == IF s.req.rx THEN 2 ELSE 1
FailedUncounted(s) == s
Failed(s) == [s EXCEPT !.error = @ + 1]

(* hw_spi_transfer_step.                                                   *)
Select(w) == [w EXCEPT !.cs = "low"]

Step(w) ==
  [Select(w) EXCEPT
            !.st = Fresh(@),
            !.chan = [c \in Channels |->
                        IF c \in Used(w.st)
                        THEN [w.chan[c] EXCEPT !.packets = Packets(w.st.offset, w.st.req.chunk)]
                        ELSE w.chan[c]]]

(* default_complete_cb.                                                    *)
Complete(w) ==
  LET next == w.st.offset + w.st.req.chunk
      wraps == next + w.st.req.chunk > w.st.length
      again == (w.st.repeat - 1) % RepeatWidth
      place == [w.st EXCEPT !.offset = IF wraps THEN 0 ELSE next,
                            !.repeat = IF wraps THEN again ELSE @]
      after == [w EXCEPT !.cs = "high", !.st = place]
  IN IF wraps /\ again = 0 THEN [after EXCEPT !.event = TRUE] ELSE Step(after)

(* hw_spi_dma_counter.                                                     *)
DmaCounter(w, c) ==
  LET clear == [w EXCEPT !.chan[c].irq = "none"]
      counted == [clear EXCEPT !.st.done = @ + 1]
  IN IF w.chan[c].irq = "none" THEN w
     ELSE IF w.chan[c].irq = "error" THEN Complete([clear EXCEPT !.st = Failed(@)])
     ELSE IF counted.st.done = Expected(w.st) THEN Complete(counted)
     ELSE counted

Become(w) ==
  /\ st' = w.st /\ chan' = w.chan /\ cs' = w.cs /\ event' = w.event

-----------------------------------------------------------------------------
(* hw.spi_transfer: refused while the buffers of a transfer are held       *)
(* (l_hw.c:125).  Nothing looks at async_spi_event, which the cleanup does *)
(* not take from the queue: the completion of a transfer that its script   *)
(* abandoned may still be pending when the next script, itself started by  *)
(* an event, transfers, and is then taken for the end of this transfer.    *)
Transfer(r) ==
  /\ main = "idle" /\ ~st.held
  /\ count < MaxTransfers
  /\ count' = count + 1
  /\ Become(Step(
       [st |-> [req |-> r, held |-> TRUE, length |-> r.len, offset |-> 0,
                repeat |-> r.repeat, done |-> 0, error |-> 0],
        chan |-> [c \in Channels |-> IF c = "tx" \/ r.rx THEN Off ELSE chan[c]],
        cs |-> "high",
        event |-> event \/ r.repeat = 0 \/ r.chunk > r.len]))
  /\ moved' = [c \in Channels |-> <<>>]
  /\ errored' = FALSE
  /\ past' = IF past = "stale" \/ (past = "abandoned" /\ event) THEN "stale" ELSE "clean"
  /\ UNCHANGED <<main, report>>

(* The DMA moves a packet; a receive packet can only follow what was sent. *)
MovePacket(c) ==
  LET p == Head(chan[c].packets)
  IN /\ chan[c].packets # <<>> /\ chan[c].irq = "none"
     /\ c = "rx" => Len(moved["rx"]) + p.size <= Len(moved["tx"])
     /\ chan' = [chan EXCEPT ![c] =
                    [packets |-> Tail(@.packets),
                     irq |-> IF Len(@.packets) = 1 THEN "tc" ELSE "none"]]
     /\ moved' = [moved EXCEPT ![c] = @ \o [k \in 1..p.size |-> p.from + k]]
     /\ UNCHANGED <<st, cs, event, main, errored, report, past, count>>

DmaError(c) ==
  /\ st.req # NoRequest /\ st.req.faults
  /\ chan[c].packets # <<>> /\ chan[c].irq = "none"
  /\ chan' = [chan EXCEPT ![c] = [packets |-> <<>>, irq |-> "error"]]
  /\ UNCHANGED <<st, cs, event, main, moved, errored, report, past, count>>

(* _hw_spi_irq_interrupt: channel 0, then channel 1.                       *)
SpiIrq ==
  /\ \E c \in Channels : chan[c].irq # "none"
  /\ Become(DmaCounter(DmaCounter(World, "tx"), "rx"))
  /\ errored' = (errored \/ \E c \in Channels : chan[c].irq = "error")
  /\ UNCHANGED <<main, moved, report, past, count>>

(* async_spi_callback reads the error; the cleanup frees the buffers and   *)
(* the lists and resets the status, then cancels the channels; the script  *)
(* is called last.  With nothing transferred nobody listens: between       *)
(* scripts there is no runtime, and a new one has not asked for anything.  *)
AsyncCallback ==
  /\ main = "idle" /\ event
  /\ event' = FALSE
  /\ \/ /\ st.held
        /\ report' = [error |-> st.error, failed |-> errored]
        /\ main' = "cleanup"
     \/ /\ ~st.held
        /\ UNCHANGED <<report, main>>
  /\ UNCHANGED <<st, chan, cs, moved, errored, past, count>>

(* The script ends: load_script cleans up, whatever is under way.          *)
ScriptEnds ==
  /\ main = "idle" /\ st.held /\ st.req.faults
  /\ main' = "cleanup"
  /\ past' = IF past = "stale" THEN "stale" ELSE "abandoned"
  /\ UNCHANGED <<st, chan, cs, event, moved, errored, report, count>>

ReleaseNothing == [st EXCEPT !.length = 0]
Release == [st EXCEPT !.held = FALSE, !.length = 0]

CleanupFree ==
  /\ main = "cleanup"
  /\ st' = Release
  /\ main' = "cancel"
  /\ UNCHANGED <<chan, cs, event, moved, errored, report, past, count>>

CleanupCancel ==
  /\ main = "cancel"
  /\ chan' = [c \in Channels |-> [chan[c] EXCEPT !.packets = <<>>]]
  /\ main' = "idle"
  /\ UNCHANGED <<st, cs, event, moved, errored, report, past, count>>

DmaNext ==
  \/ \E r \in Requests : Transfer(r)
  \/ \E c \in Channels : MovePacket(c) \/ DmaError(c)
  \/ SpiIrq \/ AsyncCallback \/ ScriptEnds \/ CleanupFree \/ CleanupCancel

(* The DMA, its interrupt and the event loop make progress.                *)
DmaSpec ==
  /\ DmaInit /\ [][DmaNext]_dmaVars
  /\ WF_dmaVars(SpiIrq) /\ WF_dmaVars(AsyncCallback \/ CleanupFree \/ CleanupCancel)
  /\ \A c \in Channels : WF_dmaVars(MovePacket(c))

-----------------------------------------------------------------------------
DmaTypeOK ==
  /\ st.req = NoRequest \/ st.req \in Requests
  /\ st.held \in BOOLEAN
  /\ st.done \in 0..2 /\ st.error \in 0..2
  /\ st.repeat \in 0..(RepeatWidth - 1)
  /\ \A c \in Channels : chan[c].irq \in {"none", "tc", "error"}
  /\ main \in {"idle", "cleanup", "cancel"}

(* The buffer as often as asked for, in order.                             *)
Wanted(r) == [k \in 1..(r.len * r.repeat) |-> ((k - 1) % r.len) + 1]

(* Nothing is promised once a transfer was ended by the completion of an   *)
(* abandoned one: its buffers and lists are freed while the DMA uses them. *)
Sane == past # "stale"

(* When the end is reported, every used channel has moved every byte of    *)
(* every chunk, in order, as often as asked (hw_spi_async.c:72-79, and     *)
(* the packets "of 0xFFF bytes" of :89), unless the report is stale.       *)
AllBytesMoved ==
  Sane /\ event /\ st.req # NoRequest /\ ~st.req.faults =>
    \A c \in Used(st) : moved[c] = Wanted(st.req)

(* The end is only reported with the channels quiet: nothing moves in or   *)
(* out of buffers that the script gets back, or reads freed lists.         *)
QuietAtEnd ==
  (event \/ ~st.held) /\ ~(st.req # NoRequest /\ st.req.faults) =>
    \A c \in Channels : chan[c] = Off

(* The chip select frames each chunk: low while bytes move, and high again *)
(* before the end is reported.                                             *)
ChipSelectFrames ==
  /\ st.held /\ (\E c \in Channels : chan[c].packets # <<>>) => cs = "low"
  /\ event => cs = "high"

(* On the wire: chip select, channels and what the driver believes agree,  *)
(* also after abandoned transfers, until a stale completion is met.        *)
WireFramed == Sane => DmaTypeOK /\ QuietAtEnd /\ ChipSelectFrames

(* The script is told whether there was an error (hw_spi_async.c:204-205), *)
(* of this transfer and not of an earlier one: for one chunk into no       *)
(* receive buffer, the next chunk forgets the error; and unless the report *)
(* is stale.                                                               *)
ErrorReported == Sane /\ report # NoRequest => (report.failed <=> report.error > 0)

(* A transfer ends and its buffers are free for the next one.              *)
EventuallyFree == st.held ~> ~st.held
=============================================================================
