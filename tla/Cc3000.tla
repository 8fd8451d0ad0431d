-------------------------------- MODULE Cc3000 --------------------------------
(***************************************************************************)
(* The wireless chip and its driver: the SPI transport with its interrupt  *)
(* flag (src/src/cc3000/host_spi.c, src/src/tessel_wifi.c), the wait for   *)
(* an answer (src/src/cc3000/utility/evnt_handler.c) and the calls that    *)
(* use them (src/src/hw/hw_net.c, src/src/tm/tm_net.c).                    *)
(*                                                                         *)
(* There is one thread.  A call of a script blocks in a loop that polls    *)
(* the interrupt flag; what the poll reads may be an unsolicited event,    *)
(* whose callback may send commands of its own, from inside the wait.  The *)
(* thread is a stack of frames, the running one first.                     *)
(*                                                                         *)
(* The chip is external.  It pulls its line low to be read, or to accept a *)
(* write once it is selected; a transfer lets the line go, and the chip    *)
(* asserts it again only after it has been deselected.  It answers         *)
(* commands in order, late, or never.  A write while the chip waits to be  *)
(* read is taken as a write: the friendliest reading of its manual.        *)
(***************************************************************************)
EXTENDS Naturals, Sequences, SequencesExt

CONSTANTS
  Calls,      (* the calls of scripts and of the host computer             *)
  Ops,        (* the commands each call, and the status report, sends      *)
  MaxCalls,   (* bound: calls made                                         *)
  MaxUnsol,   (* bound: unsolicited events of the chip                     *)
  MaxDepth    (* bound: status reports nested on the stack                 *)

ASSUME CallAssumption ==
  /\ Calls \subseteq {"enable", "disable", "connect", "disconnect", "select", "recv", "lookup"}
  /\ DOMAIN Ops = Calls \union {"report"}

Unsolicited == {"unsol_connect", "unsol_disconnect", "dhcp_ok", "dhcp_failed"}

(* Only hw_net_initialize starts the chip, first thing and once more       *)
(* (hw_net.c:232, 251).                                                    *)
ASSUME OpsAssumption ==
  \A call \in DOMAIN Ops :
    /\ Ops[call] \in Seq(STRING \ (Unsolicited \union {"none", "data"}))
    /\ call = "enable" => Ops[call] # <<>> /\ Head(Ops[call]) = "start"
    /\ call # "enable" => \A i \in 1..Len(Ops[call]) : Ops[call][i] # "start"

VARIABLES
  spi,      (* sSpiInformation.ulSpiState                                  *)
  cs,       (* TRUE while the chip is selected                             *)
  irq,      (* flag: CC3K_IRQ_FLAG; enabled: CC3K_EVENT_ENABLED, the event *)
            (* is queued; edge: latched by the pin; nvic: line enabled     *)
  wait,     (* usRxEventOpcode, "none" for 0                               *)
  pending,  (* usRxDataPending                                             *)
  rx,       (* the packet usEventOrDataReceived announces, or NoPacket     *)
  stack,    (* the frames of the main thread, the running one first        *)
  wifi,     (* ulCC3000Connected, ulCC3000DHCP, wifi_initialized, inuse    *)
  chip,     (* external: the chip and its line                             *)
  cmds,     (* history: the commands, what was sent and what came back     *)
  hist      (* history: what has gone wrong, and the events handled        *)

host == <<spi, cs, irq, wait, pending, rx, stack, wifi>>
vars == <<host, chip, cmds, hist>>

NoPacket == [kind |-> "none", id |-> 0]
Event(op, id) == [kind |-> op, id |-> id]
Data(id) == [kind |-> "data", id |-> id]

Busy == stack # <<>>
Top == Head(stack)
Online == wifi.connected /\ wifi.dhcp

(* The main thread runs at a place unless an interrupt is to be served.    *)
At(place) == Busy /\ Top.at = place /\ ~(irq.edge /\ irq.nvic)
Moved(place) == <<[Top EXCEPT !.at = place]>> \o Tail(stack)
Goto(place) == stack' = Moved(place)

Depth(frames) == Len(SelectSeq(frames, LAMBDA f : f.call = "report"))

Init ==
  /\ spi = "powerup" /\ cs = FALSE
  /\ irq = [flag |-> FALSE, enabled |-> FALSE, edge |-> FALSE, nvic |-> TRUE]
  /\ wait = "none" /\ pending = FALSE /\ rx = NoPacket
  /\ stack = <<>>
  /\ wifi = [connected |-> FALSE, dhcp |-> FALSE, initialized |-> FALSE, inuse |-> FALSE]
  /\ chip = [state |-> "off", line |-> FALSE, missed |-> FALSE, served |-> FALSE,
             out |-> NoPacket, todo |-> <<>>, unsol |-> 0]
  /\ cmds = <<>>
  /\ hist = [calls |-> 0, abandoned |-> FALSE, crashed |-> FALSE,
             noEnd |-> FALSE, blind |-> FALSE, forsaken |-> {}, handled |-> {}, again |-> FALSE]

-----------------------------------------------------------------------------
(* The chip.  Selected or deselected by a transfer or by hand.             *)

Deselected(ch) ==
  [ch EXCEPT !.served = FALSE, !.line = @ /\ ch.out # NoPacket,
             !.missed = @ /\ ch.out # NoPacket]

(* A chip that is switched off or on forgets what it was doing.            *)
Silent ==
  [chip EXCEPT !.line = FALSE, !.missed = FALSE, !.served = FALSE,
               !.out = NoPacket, !.todo = <<>>]

(* The last command marshalled: there is one buffer for all.               *)
Tx == Len(cmds)

Owed(id) == Event(cmds[id].op, id)

Written(ch) ==
  IF cs /\ ch.state = "up"
    THEN [ch EXCEPT !.line = FALSE, !.missed = FALSE, !.served = TRUE, !.todo = Append(@, Owed(Tx))]
    ELSE [ch EXCEPT !.missed = ch.line]

Sent == IF cs /\ chip.state = "up" THEN [cmds EXCEPT ![Tx].sent = @ + 1] ELSE cmds

ChipUp ==
  /\ chip.state = "booting"
  /\ chip' = [chip EXCEPT !.state = "up", !.line = TRUE]
  /\ irq' = [irq EXCEPT !.edge = TRUE]
  /\ UNCHANGED <<spi, cs, wait, pending, rx, stack, wifi, cmds, hist>>

(* The line falls: the chip has a packet, or lets itself be written.       *)
Asserts(ch) ==
  /\ chip.state = "up" /\ ~chip.line /\ ~chip.served
  /\ chip' = [ch EXCEPT !.line = TRUE]
  /\ irq' = [irq EXCEPT !.edge = TRUE]
  /\ UNCHANGED <<spi, cs, wait, pending, rx, stack, wifi, hist>>

(* It lets itself be written, or has kept a packet over a write.           *)
ChipReady == (cs \/ chip.out # NoPacket) /\ Asserts(chip) /\ UNCHANGED cmds

(* An answer to recv says whether data follow.                             *)
ChipAnswers ==
  /\ chip.todo # <<>> /\ chip.out = NoPacket
  /\ LET p == Head(chip.todo)
         rest == Tail(chip.todo)
     IN  \/ /\ Asserts([chip EXCEPT !.out = p, !.todo = rest])
            /\ UNCHANGED cmds
         \/ /\ p.kind = "recv"
            /\ Asserts([chip EXCEPT !.out = p, !.todo = <<Data(p.id)>> \o rest])
            /\ cmds' = [cmds EXCEPT ![p.id].owes = TRUE]

ChipTells(kind) ==
  /\ chip.unsol < MaxUnsol /\ chip.out = NoPacket
  /\ LET n == chip.unsol + 1 IN
       Asserts([chip EXCEPT !.unsol = n, !.out = Event(kind, n)])
  /\ UNCHANGED cmds

-----------------------------------------------------------------------------
(* The interrupt and the event of the main loop.                           *)

(* _tessel_cc3000_irq_interrupt: the flag, and the event unless queued.    *)
Interrupt ==
  /\ irq.edge /\ irq.nvic
  /\ irq' = [irq EXCEPT !.edge = FALSE, !.flag = TRUE, !.enabled = TRUE]
  /\ UNCHANGED <<spi, cs, wait, pending, rx, stack, wifi, chip, cmds, hist>>

Frame(call, at) == [call |-> call, ops |-> <<>>, cmd |-> 0, data |-> FALSE, at |-> at]

(* Mutated: the event's callback takes the flag away with the mark.        *)
IrqEventClearsFlag ==
  /\ ~Busy /\ irq.enabled /\ ~irq.edge
  /\ irq' = [irq EXCEPT !.enabled = FALSE, !.flag = FALSE]
  /\ stack' = <<Frame("irq", "test")>>
  /\ UNCHANGED <<spi, cs, wait, pending, rx, wifi, chip, cmds, hist>>

(* SPI_IRQ_CALLBACK_EVENT clears the queued mark, then tests the flag.     *)
IrqEvent ==
  /\ ~Busy /\ irq.enabled /\ ~irq.edge
  /\ irq' = [irq EXCEPT !.enabled = FALSE]
  /\ stack' = <<Frame("irq", "test")>>
  /\ UNCHANGED <<spi, cs, wait, pending, rx, wifi, chip, cmds, hist>>

-----------------------------------------------------------------------------
(* What the driver does with a packet.                                     *)

(* tessel_wifi_check, called for an address: the status report asks the    *)
(* chip, from inside the callback.  The stack is finite.                   *)
Report(place) ==
  IF Depth(stack) < MaxDepth
    THEN /\ stack' = <<[Frame("report", "next") EXCEPT !.ops = Ops["report"]]>> \o Moved(place)
         /\ hist' = [hist EXCEPT !.handled = @ \union {rx'.id},
                                 !.again = @ \/ rx'.id \in hist.handled]
    ELSE /\ stack' = Moved("crashed")
         /\ hist' = [hist EXCEPT !.crashed = TRUE]

(* hci_unsol_event_handler and CC3000_UsynchCallback.  The mark that a     *)
(* packet is there (rx) goes only when the callback has returned.          *)
HandleUnsolicited(packet, place) ==
  /\ wifi' = CASE packet.kind = "unsol_connect" -> [wifi EXCEPT !.connected = TRUE, !.dhcp = FALSE]
               [] packet.kind = "unsol_disconnect" ->
                    [wifi EXCEPT !.connected = FALSE, !.dhcp = FALSE]
               [] packet.kind = "dhcp_ok" -> [wifi EXCEPT !.dhcp = TRUE]
               [] OTHER -> [wifi EXCEPT !.dhcp = FALSE]
  /\ IF packet.kind = "dhcp_ok" /\ wifi.connected /\ wifi.initialized
       THEN rx' = packet /\ Report(place)
       ELSE /\ rx' = NoPacket /\ Goto(place)
            /\ hist' = [hist EXCEPT !.handled = @ \union {packet.id},
                                    !.again = @ \/ packet.id \in hist.handled]

(* Mutated: any answer will do.                                            *)
AnyAnswer(packet) == TRUE

Awaited(packet) == packet.kind = wait

(* SpiReceiveHandler: an event nobody waits for is dropped here, an answer *)
(* or data stay in the buffer.                                             *)
Receive(packet, place) ==
  \/ packet.kind \in Unsolicited /\ HandleUnsolicited(packet, place)
  \/ /\ packet.kind \notin Unsolicited
     /\ rx' = IF packet.kind = "data" \/ Awaited(packet) THEN packet ELSE NoPacket
     /\ Goto(place) /\ UNCHANGED <<wifi, hist>>

(* SPI_IRQ, called by whoever finds the flag set; the caller goes on at    *)
(* a place.  A read ends with the flag cleared and the chip deselected, a  *)
(* write with the interrupt enabled again, which clears a latched edge.    *)
SpiIrq(place) ==
  /\ irq.flag
  /\ irq' = [irq EXCEPT !.flag = FALSE]
  /\ UNCHANGED <<wait, pending>>
  /\ \/ /\ spi \in {"powerup", "initialized"}
        /\ spi' = "initialized" /\ Goto(place)
        /\ UNCHANGED <<cs, rx, wifi, chip, cmds, hist>>
     \/ /\ spi = "write_irq"
        /\ spi' = "idle" /\ chip' = Written(chip) /\ cmds' = Sent
        /\ Goto(place)
        /\ UNCHANGED <<cs, rx, wifi, hist>>
     \/ /\ spi = "idle"
        /\ cs' = FALSE
        /\ IF chip.out # NoPacket
             THEN /\ chip' = [chip EXCEPT !.out = NoPacket, !.line = FALSE,
                                          !.missed = FALSE, !.served = FALSE]
                  /\ Receive(chip.out, place)
             ELSE /\ chip' = Deselected(chip) /\ Goto(place)
                  /\ hist' = [hist EXCEPT !.blind = @ \/ chip.state = "up"]
                  /\ UNCHANGED <<rx, wifi>>
        /\ UNCHANGED <<spi, cmds>>

-----------------------------------------------------------------------------
(* The calls.                                                              *)

(* A lookup fails at once without a network, as does the opening of a      *)
(* socket, which would be one more call with one command.  The board       *)
(* enables the chip before anything else, and the model makes no call      *)
(* while the chip is disabled.                                             *)
Begin(call) ==
  /\ ~Busy /\ hist.calls < MaxCalls
  /\ call = "lookup" => Online
  /\ call # "enable" => wifi.initialized
  /\ hist' = [hist EXCEPT !.calls = @ + 1]
  /\ stack' = <<[Frame(call, "next") EXCEPT !.ops = Ops[call]]>>
  /\ wifi' = IF call \in {"enable", "disable"}
               THEN [wifi EXCEPT !.inuse = TRUE, !.initialized = FALSE,
                                 !.connected = FALSE, !.dhcp = FALSE]
               ELSE [wifi EXCEPT !.inuse = TRUE]
  /\ UNCHANGED <<spi, cs, irq, wait, pending, rx, chip, cmds>>

(* The network's name, the last query of a report, is asked only on line.  *)
Skipped == Top.call = "report" /\ Len(Top.ops) = 1 /\ ~Online

NewCommand(op) == [op |-> op, sent |-> 0, answer |-> 0, datum |-> 0, owes |-> FALSE]

(* A command is marshalled into the buffer; wlan_stop and wlan_start come  *)
(* before the first command of a chip that is started.  A call has taken   *)
(* the in-use flag as it began; the queries of a report are calls of their *)
(* own and each takes it.                                                  *)
Command ==
  /\ At("next") /\ Top.ops # <<>> /\ ~Skipped
  /\ LET op == Head(Top.ops)
         frame(at) == [Top EXCEPT !.ops = Tail(@), !.cmd = Len(cmds) + 1,
                                  !.data = FALSE, !.at = at]
         go(at) == stack' = <<frame(at)>> \o Tail(stack)
     IN  /\ cmds' = Append(cmds, NewCommand(op))
         /\ IF op = "start"
              THEN /\ go("boot")
                   /\ spi' = "powerup" /\ wait' = "none" /\ pending' = FALSE /\ rx' = NoPacket
                   /\ chip' = [Silent EXCEPT !.state = "booting"]
              ELSE /\ go(IF spi \in {"powerup", "initialized"} THEN "power" ELSE "idle")
                   /\ UNCHANGED <<spi, wait, pending, rx, chip>>
  /\ wifi' = [wifi EXCEPT !.inuse = @ \/ Top.call = "report"]
  /\ UNCHANGED <<cs, irq, hist>>

(* wlan_start spins until the chip pulls the line low.                     *)
Boot ==
  /\ At("boot") /\ chip.line
  /\ Goto("power")
  /\ UNCHANGED <<spi, cs, irq, wait, pending, rx, wifi, chip, cmds, hist>>

-----------------------------------------------------------------------------
(* SpiWrite.                                                               *)

(* Mutated: the wait is for the call, not for its command's answer.        *)
WaitForCall ==
  /\ wait' = Top.call
  /\ cs' = FALSE
  /\ Goto("await")

(* SimpleLinkWaitEvent: the awaited opcode is one variable, so a command   *)
(* sent from inside a wait takes the wait over.                            *)
WaitEvent ==
  /\ wait' = cmds[Top.cmd].op
  /\ cs' = FALSE
  /\ Goto("await")

Below == {Tail(stack)[i].cmd : i \in 1..(Len(stack) - 1)}
Forsake(ids) == [hist EXCEPT !.forsaken = @ \union (ids \ {0})]

PowerPoll ==
  /\ At("power") /\ spi = "powerup" /\ SpiIrq("power")

(* SpiFirstWrite selects the chip for the write alone.                     *)
FirstWrite ==
  /\ At("power") /\ spi = "initialized"
  /\ spi' = "idle" /\ WaitEvent
  /\ chip' = [chip EXCEPT !.line = FALSE, !.missed = FALSE, !.todo = Append(@, Owed(Tx))]
  /\ cmds' = [cmds EXCEPT ![Tx].sent = @ + 1]
  /\ hist' = Forsake(Below)
  /\ UNCHANGED <<irq, pending, rx, wifi>>

IdlePoll ==
  /\ At("idle") /\ spi # "idle" /\ SpiIrq("idle")

(* The state changes and hw_interrupt_enable disables the interrupt ...    *)
TakeBus ==
  /\ At("idle") /\ spi = "idle"
  /\ spi' = "write_irq"
  /\ irq' = [irq EXCEPT !.nvic = FALSE]
  /\ Goto("window")
  /\ UNCHANGED <<cs, wait, pending, rx, wifi, chip, cmds, hist>>

(* ... clears an edge that came meanwhile, and enables it again.           *)
EnableIrq ==
  /\ At("window")
  /\ irq' = [irq EXCEPT !.edge = FALSE, !.nvic = TRUE]
  /\ chip' = [chip EXCEPT !.missed = @ \/ irq.edge]
  /\ Goto("select")
  /\ UNCHANGED <<spi, cs, wait, pending, rx, wifi, cmds, hist>>

Select ==
  /\ At("select")
  /\ cs' = TRUE
  /\ Goto("written")
  /\ UNCHANGED <<spi, irq, wait, pending, rx, wifi, chip, cmds, hist>>

WritePoll ==
  /\ At("written") /\ spi # "idle" /\ SpiIrq("written")

WriteDone ==
  /\ At("written") /\ spi = "idle"
  /\ WaitEvent /\ chip' = Deselected(chip)
  /\ hist' = Forsake(Below)
  /\ UNCHANGED <<spi, irq, pending, rx, wifi, cmds>>

(* The write times out: the state stays, and the wait begins all the same. *)
WriteTimeout ==
  /\ At("written") /\ spi # "idle"
  /\ WaitEvent /\ chip' = Deselected(chip)
  /\ hist' = [Forsake(Below) EXCEPT !.abandoned = TRUE]
  /\ UNCHANGED <<spi, irq, pending, rx, wifi, cmds>>

-----------------------------------------------------------------------------
(* hci_event_handler.                                                      *)

Loops == At("await") \/ (At("check") /\ rx = NoPacket)

AwaitPoll == Loops /\ SpiIrq("check")

Looks == At("check") \/ (At("await") /\ ~irq.flag)

(* Where a command goes on when its wait returns.                          *)
AfterWait == IF cmds[Top.cmd].op \in {"recv", "lookup"} THEN "returned" ELSE "next"

(* The packet in the buffer is an unsolicited event whose callback is      *)
(* still running below: it is handled again.                               *)
LookUnsolicited ==
  /\ Looks /\ rx.kind \in Unsolicited
  /\ HandleUnsolicited(rx, "handled")
  /\ UNCHANGED <<spi, cs, irq, wait, pending, chip, cmds>>

LookEvent ==
  /\ Looks /\ rx.kind \notin Unsolicited \union {"none", "data"}
  /\ rx' = NoPacket
  /\ IF Awaited(rx)
       THEN /\ wait' = "none"
            /\ cmds' = [cmds EXCEPT ![Top.cmd].answer = rx.id]
            /\ Goto(IF pending THEN "await" ELSE AfterWait)
       ELSE Goto("await") /\ UNCHANGED <<wait, cmds>>
  /\ UNCHANGED <<spi, cs, irq, pending, wifi, chip, hist>>

(* Data are copied to whatever the wait was given for its answer.          *)
LookData ==
  /\ Looks /\ rx.kind = "data"
  /\ rx' = NoPacket /\ pending' = FALSE
  /\ cmds' = [cmds EXCEPT ![Top.cmd].datum = rx.id]
  /\ Goto(IF wait = "none" THEN AfterWait ELSE "await")
  /\ UNCHANGED <<spi, cs, irq, wait, wifi, chip, hist>>

(* Mutated: only a loop that awaits an answer times out.                   *)
LookTimeoutAwaited ==
  /\ Looks /\ rx = NoPacket /\ wait # "none"
  /\ Goto(AfterWait)
  /\ hist' = Forsake({Top.cmd})
  /\ UNCHANGED <<spi, cs, irq, wait, pending, rx, wifi, chip, cmds>>

(* Nothing came: the loop times out, leaving what it waited for set.       *)
LookTimeout ==
  /\ Looks /\ rx = NoPacket
  /\ Goto(AfterWait)
  /\ hist' = Forsake({Top.cmd})
  /\ UNCHANGED <<spi, cs, irq, wait, pending, rx, wifi, chip, cmds>>

(* After an unsolicited event the loop ends if nothing is waited for, and  *)
(* a nested command has left nothing to wait for.                          *)
Handled ==
  /\ At("handled")
  /\ IF wait = "none" /\ ~pending
       THEN Goto(AfterWait) /\ hist' = Forsake({Top.cmd})
       ELSE Goto("await") /\ UNCHANGED hist
  /\ UNCHANGED <<spi, cs, irq, wait, pending, rx, wifi, chip, cmds>>

-----------------------------------------------------------------------------
(* What the calls do with the outcome.                                     *)

(* simple_link_recv waits for data when the answer counts bytes.  Without  *)
(* an answer the count is whatever the stack held.                         *)
WaitData ==
  /\ At("returned") /\ cmds[Top.cmd].op = "recv" /\ ~Top.data
  /\ LET a == cmds[Top.cmd].answer IN a # 0 => cmds[a].owes
  /\ pending' = TRUE /\ cs' = FALSE /\ chip' = Deselected(chip)
  /\ stack' = <<[Top EXCEPT !.at = "await", !.data = TRUE]>> \o Tail(stack)
  /\ UNCHANGED <<spi, irq, wait, rx, wifi, cmds, hist>>

Returned ==
  /\ At("returned")
  /\ LET c == cmds[Top.cmd] IN
       c.op = "recv" /\ ~Top.data /\ c.answer # 0 => ~cmds[c.answer].owes
  /\ Goto("next")
  /\ UNCHANGED <<spi, cs, irq, wait, pending, rx, wifi, chip, cmds, hist>>

(* tm_hostname_lookup returns at once when the lookup fails.               *)
LookupFails ==
  /\ At("returned") /\ Top.call = "lookup" /\ cmds[Top.cmd].op = "lookup"
  /\ stack' = Tail(stack)
  /\ hist' = [hist EXCEPT !.noEnd = TRUE]
  /\ UNCHANGED <<spi, cs, irq, wait, pending, rx, wifi, chip, cmds>>

(* Mutated: a call that gets no answer returns early.                      *)
EndUnanswered ==
  /\ At("next") /\ (Top.ops = <<>> \/ Skipped)
  /\ stack' = Tail(stack)
  /\ wifi' = IF Top.call # "irq" /\ wait = "none" THEN [wifi EXCEPT !.inuse = FALSE] ELSE wifi
  /\ UNCHANGED <<spi, cs, irq, wait, pending, rx, chip, cmds, hist>>

(* The end of a call, of the event's callback, or of a report: the last    *)
(* releases the packet whose callback it was.                              *)
End ==
  /\ At("next") /\ (Top.ops = <<>> \/ Skipped)
  /\ stack' = Tail(stack)
  /\ rx' = IF Top.call = "report" THEN NoPacket ELSE rx
  /\ wifi' = CASE Top.call = "irq" -> wifi
               [] Top.call = "enable" -> [wifi EXCEPT !.inuse = FALSE, !.initialized = TRUE]
               [] Top.call = "disconnect" ->
                    [wifi EXCEPT !.inuse = FALSE, !.connected = FALSE, !.dhcp = FALSE]
               [] OTHER -> [wifi EXCEPT !.inuse = FALSE]
  /\ chip' = IF Top.call = "disable"
               THEN [Silent EXCEPT !.state = "off"]
               ELSE chip
  /\ UNCHANGED <<spi, cs, irq, wait, pending, cmds, hist>>

IrqTest ==
  /\ At("test")
  /\ IF irq.flag THEN SpiIrq("next")
       ELSE stack' = Tail(stack)
            /\ UNCHANGED <<spi, cs, irq, wait, pending, rx, wifi, chip, cmds, hist>>

Thread ==
  \/ IrqEvent \/ IrqTest \/ Command \/ Boot \/ PowerPoll \/ FirstWrite
  \/ IdlePoll \/ TakeBus \/ EnableIrq \/ Select \/ WritePoll \/ WriteDone \/ WriteTimeout
  \/ AwaitPoll \/ LookUnsolicited \/ LookEvent \/ LookData \/ LookTimeout
  \/ Handled \/ WaitData \/ Returned \/ LookupFails \/ End

Next ==
  \/ \E call \in Calls : Begin(call)
  \/ Thread \/ Interrupt
  \/ ChipUp \/ ChipReady \/ ChipAnswers \/ \E kind \in Unsolicited : ChipTells(kind)

Spec == Init /\ [][Next]_vars

(* The processor runs the thread and serves interrupts, and a chip that is *)
(* powered starts.  Nothing makes the chip answer.                         *)
FairSpec == Spec /\ WF_vars(Thread) /\ WF_vars(Interrupt) /\ WF_vars(ChipUp)

-----------------------------------------------------------------------------
(* The driver's state has its type; the awaited opcode is that of a        *)
(* command, and every frame works for a command that was sent.             *)
TypeOK ==
  /\ spi \in {"powerup", "initialized", "idle", "write_irq"}
  /\ irq \in [flag : BOOLEAN, enabled : BOOLEAN, edge : BOOLEAN, nvic : BOOLEAN]
  /\ wifi \in [connected : BOOLEAN, dhcp : BOOLEAN, initialized : BOOLEAN, inuse : BOOLEAN]
  /\ {cs, pending} \subseteq BOOLEAN
  /\ wait = "none" \/ \E i \in 1..Len(cmds) : wait = cmds[i].op
  /\ \A i \in 1..Len(stack) : stack[i].cmd \in 0..Len(cmds)

(* Has the thread given up the wait of a command of the kind?  And has a   *)
(* report asked from inside the wait of c taken it over, for good?         *)
GivenUp(op) == \E d \in hist.forsaken : cmds[d].op = op
TakenOver(c, op) ==
  c \in hist.forsaken /\ \E d \in hist.forsaken : d > c /\ cmds[d].op = op

(* What a command is given is its own answer, and once.  It gets another   *)
(* command's answer or data only after a wait of that kind was given up: a *)
(* timeout leaves the awaited opcode set, a report asked from inside a     *)
(* wait takes the wait over, and the chip answers late.  A command never   *)
(* goes out twice.                                                         *)
OwnAnswer ==
  /\ \A c \in 1..Len(cmds) :
       LET a == cmds[c].answer
           b == cmds[c].datum
       IN  /\ cmds[c].sent <= 1
           /\ \/ a \in {0, c}
              \/ cmds[a].op = cmds[c].op /\ GivenUp(cmds[c].op)
              \/ TakenOver(c, cmds[a].op)
           /\ b \in {0, c} \/ GivenUp("recv")
  /\ \A c, d \in 1..Len(cmds) :
       c # d /\ cmds[c].answer = cmds[d].answer => cmds[c].answer = 0

(* Whenever the chip holds its line low somebody is going to see it: the   *)
(* edge is latched, or the flag is up, or this is the start-up handshake,  *)
(* or the edge fell into one of two holes: it was cleared while a write    *)
(* enabled the interrupt, or spent on a write with the chip deselected.    *)
(* A raised flag has its event queued or is about to be tested.  A chip    *)
(* that is up is never read without a packet.                              *)
DeviceHeard ==
  /\ chip.line => irq.edge \/ irq.flag \/ spi = "initialized" \/ chip.missed
  /\ ~hist.blind
  /\ irq.flag => irq.enabled \/ (Busy /\ stack[Len(stack)].at = "test")

(* With no call running the driver says it is busy only if a name lookup   *)
(* failed (src/src/tm/tm_net.c:103 returns without CC3000_END).            *)
BusyIsTrue == ~Busy /\ wifi.inuse => hist.noEnd

(* An event of the chip is handled once: "here the handling finished"      *)
(* (src/src/cc3000/utility/evnt_handler.c:273).                            *)
UnsolicitedOnce == hist.again => hist.abandoned

(* Every call returns, with or without an answer of the chip, unless a     *)
(* write was abandoned (the wait for the idle state has no timeout) or     *)
(* status reports nested until the stack was full.                         *)
CallsReturn == Busy ~> (~Busy \/ hist.abandoned \/ hist.crashed)
=============================================================================
