--------------------------------- MODULE Uart ---------------------------------
(***************************************************************************)
(* The hardware UARTs (src/src/hw/hw_uart.c): per port a transmit and a    *)
(* receive ring between the main thread and the UART interrupt.  The main  *)
(* thread changes IER by read-modify-write, so every IntConfig of it is a  *)
(* load and, in the next step, a store.                                    *)
(***************************************************************************)
EXTENDS ByteRing, SequencesExt

CONSTANTS
  Ports,
  FifoSize,            (* bytes the transmit and receive FIFOs hold, 16    *)
  SendSizes,           (* buffer lengths the script sends                  *)
  MaxTx, MaxRx, MaxOpens,  (* bounds: bytes each way, initialisations      *)
  EnableRaises         (* TRUE: enabling THRE on an empty FIFO interrupts; *)
                       (* FALSE: only a FIFO that drains does, as the      *)
                       (* comment at hw_uart.c:279 has it                  *)

ASSUME UartAssumption == FifoSize \in Nat \ {0} /\ SendSizes \subseteq Nat

VARIABLES
  rb,         (* rb[p]: the tx and rx rings, and whether they are allocated *)
  hw,         (* hw[p]: IER, NVIC enable, TXEN, FIFOs, THRE interrupt latch *)
  TxIntStat,  (* the one flag all ports share                              *)
  rxEvents,   (* ports whose rx_event is pending                           *)
  main,       (* main thread: where it is, port, bytes left, IER it loaded *)
  tx,         (* bytes accepted, on the wire, per port since it was opened *)
  rx,         (* bytes arrived, dropped, delivered, in order, likewise     *)
  opens

vars == <<rb, hw, TxIntStat, rxEvents, main, tx, rx, opens>>

-----------------------------------------------------------------------------
Blank == [head |-> 0, tail |-> 0, slot |-> [i \in Index |-> 0]]
Idle == [at |-> "idle"]

Init ==
  /\ rb = [p \in Ports |-> [tx |-> Blank, rx |-> Blank, mem |-> FALSE]]
  /\ hw = [p \in Ports |-> [ier |-> {}, nvic |-> FALSE, txen |-> FALSE, thre |-> FALSE,
                            out |-> <<>>, in |-> <<>>]]
  /\ TxIntStat = "RESET"
  /\ rxEvents = {}
  /\ main = Idle
  /\ tx = [p \in Ports |-> [accepted |-> 0, wire |-> 0]]
  /\ rx = [p \in Ports |-> [arrived |-> 0, dropped |-> {}, delivered |-> <<>>]]
  /\ opens = 0

Goto(at, p, left) == main' = [at |-> at, port |-> p, left |-> left, ier |-> hw[p].ier]
On(at) == main.at = at

-----------------------------------------------------------------------------
(* UART_IntTransmit past its busy wait: move what fits into the FIFO.      *)
Transmitted(p) ==
  LET n == IF Count(rb[p].tx) < FifoSize THEN Count(rb[p].tx) ELSE FifoSize
      move == [k \in 1..n |-> At(rb[p].tx, k)]
      drop[k \in 0..n] == IF k = 0 THEN rb[p].tx ELSE Take(drop[k - 1])
  IN [ring |-> drop[n], out |-> move, more |-> ~IsEmpty(drop[n]),
      thre |-> IF n = 0 THEN hw[p].thre ELSE FALSE]

(* UART_IntReceive: a byte that finds the ring full is dropped.            *)
IntReceive(p) ==
  LET in == hw[p].in
      got[k \in 0..Len(in)] ==
        IF k = 0 THEN [ring |-> rb[p].rx, dropped |-> rx[p].dropped]
        ELSE LET acc == got[k - 1]
             IN IF IsFull(acc.ring) THEN [acc EXCEPT !.dropped = @ \union {in[k]}]
                                    ELSE [acc EXCEPT !.ring = Put(@, in[k])]
  IN got[Len(in)]

(* The interrupt sources: received data comes before THRE in IIR.          *)
RxPending(p) == hw[p].nvic /\ "RBR" \in hw[p].ier /\ hw[p].in # <<>>
TxPending(p) ==
  /\ hw[p].nvic /\ "THRE" \in hw[p].ier /\ ~RxPending(p)
  /\ hw[p].thre \/ (EnableRaises /\ hw[p].out = <<>>)

RxIsr(p) ==
  /\ RxPending(p)
  /\ rb' = [rb EXCEPT ![p].rx = IntReceive(p).ring]
  /\ rx' = [rx EXCEPT ![p].dropped = IntReceive(p).dropped]
  /\ hw' = [hw EXCEPT ![p].in = <<>>]
  /\ rxEvents' = rxEvents \union {p}
  /\ UNCHANGED <<TxIntStat, main, tx, opens>>

(* Reading IIR and writing THR both end the THRE interrupt.                *)
TxIsr(p) ==
  LET t == Transmitted(p)
  IN /\ TxPending(p)
     /\ rb' = [rb EXCEPT ![p].tx = t.ring]
     /\ hw' = [hw EXCEPT ![p].out = t.out, ![p].thre = FALSE,
                         ![p].ier = IF t.more THEN @ ELSE @ \ {"THRE"}]
     /\ TxIntStat' = IF t.more THEN "SET" ELSE "RESET"
     /\ UNCHANGED <<rxEvents, main, tx, rx, opens>>

(* The line: a byte leaves the FIFO, a byte arrives.                       *)
Shift(p) ==
  /\ hw[p].txen /\ hw[p].out # <<>>
  /\ hw' = [hw EXCEPT ![p].out = Tail(@), ![p].thre = @ \/ Len(hw[p].out) = 1]
  /\ tx' = [tx EXCEPT ![p].wire = Head(hw[p].out)]
  /\ UNCHANGED <<rb, TxIntStat, rxEvents, main, rx, opens>>

Arrive(p) ==
  /\ rb[p].mem /\ rx[p].arrived < MaxRx /\ Len(hw[p].in) < FifoSize
  /\ hw' = [hw EXCEPT ![p].in = Append(@, rx[p].arrived + 1)]
  /\ rx' = [rx EXCEPT ![p].arrived = @ + 1]
  /\ UNCHANGED <<rb, TxIntStat, rxEvents, main, tx, opens>>

-----------------------------------------------------------------------------
(* hw_uart_initialize, which may find the port open: the peripheral, the   *)
(* receive interrupt and rx_head first, then the rest of the rings.        *)
InitUart(p) ==
  /\ On("idle") /\ opens < MaxOpens
  /\ opens' = opens + 1
  /\ hw' = [hw EXCEPT ![p].ier = {"RBR"}, ![p].txen = TRUE, ![p].thre = FALSE,
                      ![p].out = <<>>, ![p].in = <<>>]
  /\ TxIntStat' = "RESET"
  /\ rb' = [rb EXCEPT ![p].rx.head = 0]
  /\ main' = [at |-> "init", port |-> p]
  /\ UNCHANGED <<rxEvents, tx, rx>>

InitRings(p) ==
  /\ On("init") /\ main.port = p
  /\ LET ring == [rb[p].rx EXCEPT !.tail = 0]
     IN /\ rb' = [rb EXCEPT ![p] = [tx |-> [@.tx EXCEPT !.head = 0, !.tail = 0],
                                    rx |-> ring, mem |-> TRUE]]
        /\ rx' = [rx EXCEPT ![p].delivered = <<>>, ![p].dropped =
                    (1..rx[p].arrived) \ ToSet(Contents(ring) \o hw[p].in)]
  /\ hw' = [hw EXCEPT ![p].nvic = TRUE]
  /\ main' = Idle
  /\ tx' = [tx EXCEPT ![p] = [accepted |-> 0, wire |-> 0]]
  /\ UNCHANGED <<TxIntStat, rxEvents, opens>>

(* hw_uart_disable of an open port: RBR off, then the indices, then free,  *)
(* then the interrupt in the NVIC.  THRE stays as it is.                   *)
DisableStart(p) ==
  /\ On("idle") /\ rb[p].mem
  /\ hw' = [hw EXCEPT ![p].txen = FALSE]
  /\ Goto("disable", p, 0)
  /\ UNCHANGED <<rb, TxIntStat, rxEvents, tx, rx, opens>>

(* A mutated form: the receive interrupt stays on.                         *)
DisableRbrLeftOn(p) ==
  /\ On("disable") /\ main.port = p
  /\ rb' = [rb EXCEPT ![p].rx.head = 0, ![p].rx.tail = 0, ![p].tx.head = 0]
  /\ main' = [main EXCEPT !.at = "free"]
  /\ UNCHANGED <<hw, TxIntStat, rxEvents, tx, rx, opens>>

DisableRbr(p) ==
  /\ On("disable") /\ main.port = p
  /\ hw' = [hw EXCEPT ![p].ier = main.ier \ {"RBR"}]
  /\ rb' = [rb EXCEPT ![p].rx.head = 0, ![p].rx.tail = 0, ![p].tx.head = 0]
  /\ main' = [main EXCEPT !.at = "free"]
  /\ UNCHANGED <<TxIntStat, rxEvents, tx, rx, opens>>

DisableFree(p) ==
  /\ On("free") /\ main.port = p
  /\ rb' = [rb EXCEPT ![p].tx.tail = 0, ![p].mem = FALSE]
  /\ main' = [main EXCEPT !.at = "nvic"]
  /\ UNCHANGED <<hw, TxIntStat, rxEvents, tx, rx, opens>>

DisableNvic(p) ==
  /\ On("nvic") /\ main.port = p
  /\ hw' = [hw EXCEPT ![p].nvic = FALSE]
  /\ main' = Idle
  /\ UNCHANGED <<rb, TxIntStat, rxEvents, tx, rx, opens>>

-----------------------------------------------------------------------------
(* hw_uart_send: THRE off, fill the ring, then transmit or THRE on.        *)
SendStart(p, n) ==
  /\ On("idle") /\ rb[p].mem /\ tx[p].accepted + n <= MaxTx
  /\ Goto("thre off", p, n)
  /\ UNCHANGED <<rb, hw, TxIntStat, rxEvents, tx, rx, opens>>

SendThreOff(p) ==
  /\ On("thre off") /\ main.port = p
  /\ hw' = [hw EXCEPT ![p].ier = main.ier \ {"THRE"}]
  /\ main' = [main EXCEPT !.at = "fill"]
  /\ UNCHANGED <<rb, TxIntStat, rxEvents, tx, rx, opens>>

(* Transmit at once unless the interrupt is at it; a mutated form never.   *)
AfterFillNoKick == "thre on"
AfterFill == IF TxIntStat = "RESET" THEN "kick" ELSE "thre on"

SendFill(p) ==
  /\ On("fill") /\ main.port = p
  /\ \/ /\ main.left > 0 /\ ~IsFull(rb[p].tx)
        /\ rb' = [rb EXCEPT ![p].tx = Put(@, tx[p].accepted + 1)]
        /\ tx' = [tx EXCEPT ![p].accepted = @ + 1]
        /\ main' = [main EXCEPT !.left = @ - 1]
     \/ /\ main.left = 0 \/ IsFull(rb[p].tx)
        /\ Goto(AfterFill, p, 0)
        /\ UNCHANGED <<rb, tx>>
  /\ UNCHANGED <<hw, TxIntStat, rxEvents, rx, opens>>

SendThreOn(p) ==
  /\ On("thre on") /\ main.port = p
  /\ hw' = [hw EXCEPT ![p].ier = main.ier \union {"THRE"}]
  /\ main' = Idle
  /\ UNCHANGED <<rb, TxIntStat, rxEvents, tx, rx, opens>>

(* UART_IntTransmit called from the main thread, which spins until the     *)
(* transmitter is empty.                                                   *)
SendKick(p) ==
  /\ On("kick") /\ main.port = p
  /\ hw' = [hw EXCEPT ![p].ier = main.ier \ {"THRE"}]
  /\ main' = [main EXCEPT !.at = "transmit"]
  /\ UNCHANGED <<rb, TxIntStat, rxEvents, tx, rx, opens>>

SendTransmit(p) ==
  LET t == Transmitted(p)
  IN /\ On("transmit") /\ main.port = p
     /\ hw[p].out = <<>>
     /\ rb' = [rb EXCEPT ![p].tx = t.ring]
     /\ hw' = [hw EXCEPT ![p].out = t.out, ![p].thre = t.thre]
     /\ TxIntStat' = IF t.more THEN "SET" ELSE "RESET"
     /\ IF t.more THEN Goto("thre on", p, 0) ELSE main' = Idle
     /\ UNCHANGED <<rxEvents, tx, rx, opens>>

-----------------------------------------------------------------------------
(* uart_rx_event_callback: count what is available, then hw_uart_receive   *)
(* takes that many with RBR off.                                           *)
RxCallback(p) ==
  /\ On("idle") /\ p \in rxEvents
  /\ rxEvents' = rxEvents \ {p}
  /\ Goto("rbr off", p, Count(rb[p].rx))
  /\ UNCHANGED <<rb, hw, TxIntStat, tx, rx, opens>>

ReceiveRbrOff(p) ==
  /\ On("rbr off") /\ main.port = p
  /\ hw' = [hw EXCEPT ![p].ier = main.ier \ {"RBR"}]
  /\ main' = [main EXCEPT !.at = "take"]
  /\ UNCHANGED <<rb, TxIntStat, rxEvents, tx, rx, opens>>

ReceiveTake(p) ==
  /\ On("take") /\ main.port = p
  /\ \/ /\ main.left > 0 /\ ~IsEmpty(rb[p].rx)
        /\ rb' = [rb EXCEPT ![p].rx = Take(@)]
        /\ rx' = [rx EXCEPT ![p].delivered = Append(@, First(rb[p].rx))]
        /\ main' = [main EXCEPT !.left = @ - 1]
     \/ /\ main.left = 0 \/ IsEmpty(rb[p].rx)
        /\ Goto("rbr on", p, main.left)
        /\ UNCHANGED <<rb, rx>>
  /\ UNCHANGED <<hw, TxIntStat, rxEvents, tx, opens>>

ReceiveRbrOn(p) ==
  /\ On("rbr on") /\ main.port = p
  /\ hw' = [hw EXCEPT ![p].ier = main.ier \union {"RBR"}]
  /\ main' = Idle
  /\ UNCHANGED <<rb, TxIntStat, rxEvents, tx, rx, opens>>

-----------------------------------------------------------------------------
(* What the main thread does once it is in a function, or has an event.    *)
MainSteps(p) ==
  \/ InitRings(p) \/ DisableRbr(p) \/ DisableFree(p) \/ DisableNvic(p)
  \/ SendThreOff(p) \/ SendFill(p) \/ SendThreOn(p) \/ SendKick(p) \/ SendTransmit(p)
  \/ RxCallback(p) \/ ReceiveRbrOff(p) \/ ReceiveTake(p) \/ ReceiveRbrOn(p)

Hardware(p) == TxIsr(p) \/ RxIsr(p) \/ Shift(p)

Next ==
  \E p \in Ports :
    \/ InitUart(p) \/ DisableStart(p) \/ \E n \in SendSizes : SendStart(p, n)
    \/ MainSteps(p) \/ Hardware(p) \/ Arrive(p)

(* The main thread runs and the line shifts; an interrupt that the script  *)
(* masks again and again, by sending into a full ring, is taken as soon as *)
(* it is enabled and pending.                                              *)
Spec ==
  /\ Init /\ [][Next]_vars
  /\ \A p \in Ports : /\ WF_vars(MainSteps(p)) /\ SF_vars(TxIsr(p))
                      /\ WF_vars(RxIsr(p)) /\ WF_vars(Shift(p))

-----------------------------------------------------------------------------
Bytes == Nat

TypeOK ==
  /\ \A p \in Ports :
       /\ rb[p].mem \in BOOLEAN /\ rb[p].tx \in Rings(Bytes) /\ rb[p].rx \in Rings(Bytes)
       /\ hw[p].ier \subseteq {"RBR", "THRE"}
       /\ Len(hw[p].out) <= FifoSize /\ Len(hw[p].in) <= FifoSize
  /\ TxIntStat \in {"SET", "RESET"}
  /\ rxEvents \subseteq Ports

(* The main thread is between operations on p.                             *)
Settled(p) == main.at = "idle" \/ main.port # p
Live(p) == rb[p].mem /\ (Settled(p) \/ main.at \notin {"init", "disable", "free", "nvic"})

(* What was accepted leaves in order, none lost and none twice: FIFO and   *)
(* ring hold exactly the bytes after the last one on the wire, although    *)
(* the ring is filled and emptied on both sides of the interrupt.          *)
TxInFlight ==
  \A p \in Ports : Live(p) =>
    hw[p].out \o Contents(rb[p].tx) =
      [k \in 1..(tx[p].accepted - tx[p].wire) |-> tx[p].wire + k]

(* Every byte that arrived is delivered once, in order, or waits, or was   *)
(* dropped because the ring was full.                                      *)
RxAccounted ==
  \A p \in Ports : Live(p) =>
    LET kept == rx[p].delivered \o Contents(rb[p].rx) \o hw[p].in
    IN /\ ToSet(kept) = (1..rx[p].arrived) \ rx[p].dropped
       /\ \A i, j \in 1..Len(kept) : i < j => kept[i] < kept[j]

(* assert(bytes_read == bytes_available), hw_uart.c:181, although receive  *)
(* interrupts come between the two.                                        *)
ReadAssert == main.at = "rbr on" => main.left = 0

(* No interrupt touches a ring that hw_uart_disable has freed, or that     *)
(* hw_uart_initialize has not allocated: reads and writes go to memory.    *)
FreedNeverTouched ==
  \A p \in Ports : ~rb[p].mem =>
    /\ ~RxPending(p)
    /\ TxPending(p) => IsEmpty(rb[p].tx)

(* Received bytes are never forgotten: some event or interrupt will read   *)
(* what is in the ring.                                                    *)
RxNeverForgotten ==
  \A p \in Ports : Live(p) /\ Settled(p) /\ ~IsEmpty(rb[p].rx) => p \in rxEvents

(* The account of every byte on both sides of the interrupt.               *)
RingsAccounted == TypeOK /\ TxInFlight /\ RxAccounted /\ ReadAssert /\ RxNeverForgotten

(* Every accepted byte reaches the wire unless the port is closed or       *)
(* opened again.                                                           *)
EventuallySent ==
  \A p \in Ports : \A k \in 1..MaxTx :
    tx[p].accepted >= k ~> tx[p].wire >= k \/ tx[p].accepted < k \/ ~rb[p].mem
=============================================================================
