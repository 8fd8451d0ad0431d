-------------------------------- MODULE UsbMsg --------------------------------
(***************************************************************************)
(* The USB message interface (src/src/usb/msg_interface.c): framed         *)
(* messages over a bulk endpoint pair, shared by the USB interrupt handler *)
(* and the event callbacks of the main loop.  Sizes are parameters; a byte *)
(* is known by the id of the message it belongs to.                        *)
(***************************************************************************)
EXTENDS Integers, Sequences

CONSTANTS
  HeaderSize, EpSize, MaxBlock, (* 8, 512 and 16384 in the code            *)
  HostShapes,  (* what a host sends: [tag, len, total], total on the wire  *)
  SendLens,    (* payload lengths the firmware sends                       *)
  MaxHost, MaxSent, MaxDrops,   (* bounds: messages each way, disconnects  *)
  HostWaits,   (* TRUE: the host lets completions be handled before it     *)
               (* disconnects and reconnects after the main loop's cleanup *)
  EnableFlushes, (* TRUE: usb_enable_ep, in the USB submodule, discards a  *)
               (* transfer left on the endpoint                            *)
  NULL

ASSUME SizeAssumption ==
  /\ {HeaderSize, EpSize, MaxBlock} \subseteq Nat \ {0}
  /\ HeaderSize < EpSize /\ EpSize <= MaxBlock /\ MaxBlock % EpSize = 0
  /\ SendLens \subseteq Nat /\ {MaxHost, MaxSent, MaxDrops} \subseteq Nat
  /\ HostShapes \subseteq [tag : {"command", "echo", "other"}, len : Nat, total : Nat]

(* A transfer on the IN endpoint, and what else is not NULL: a message of  *)
(* the host, one that is handed over, the ids of the bytes in a buffer.    *)
InTransfer == [id : Nat, size : Nat, last : BOOLEAN]
ASSUME NullAssumption ==
  /\ NULL \notin Nat \union InTransfer
  /\ NULL \notin [id : Nat, left : Nat, shape : HostShapes]
  /\ NULL \notin [id : Nat, from : SUBSET Nat]
  /\ \A ids \in SUBSET (0..MaxHost) : NULL # ids

VARIABLES
  connected,   (* usb_msg_connected                                        *)
  events,      (* the tm_events triggered and not yet processed            *)
  pc,          (* main thread: "loop", a point of msg_out_handler, "fault";*)
               (* "overrun" once bytes have landed outside of a buffer     *)
  out,         (* msg_out_length, _pos, _buf (NULL or the ids of its       *)
               (* bytes), _initial (the header in the first packet), and   *)
               (* the endpoint: transfer armed, length done and unhandled  *)
  in,          (* in_head .. in_tail, msg_in_pos, and the endpoint         *)
  host,        (* the message being sent, the id of the last complete one, *)
               (* bytes of the IN message being read, last one received,   *)
               (* and a history: whether it broke the framing since it     *)
               (* connected                                                *)
  dispatched,  (* history: the last OUT message handed over since then:    *)
               (* header id, byte ids                                      *)
  count        (* messages and disconnections so far                       *)

vars == <<connected, events, pc, out, in, host, dispatched, count>>

-----------------------------------------------------------------------------
(* tm_event_trigger keeps one pending occurrence of an event.              *)
Add(q, e) == IF \E i \in 1..Len(q) : q[i] = e THEN q ELSE Append(q, e)
Pending(e) == \E i \in 1..Len(events) : events[i] = e

RoundToEndpoint(size) == ((size + EpSize) \div EpSize) * EpSize

(* Beside some operators stands a mutated form, a plausible slip in the    *)
(* code: a strict comparison, an event too early, a buffer not cleared.    *)
Idle == [to |-> "none", size |-> 0]
ArmInitial == [to |-> "initial", size |-> EpSize]

(* msg_out_start_ep: a full block, or whole packets with room for the      *)
(* short packet that ends the message.                                     *)
ArmRest(remaining) ==
  [to |-> "buf",
   size |-> IF remaining < MaxBlock THEN RoundToEndpoint(remaining) ELSE MaxBlock]

(* msg_in_start_ep: send the next block of the head, or trigger msg_in.    *)
Left(i) == Head(i.list).len + HeaderSize - i.pos
EndsMessageStrict(i) == Left(i) < MaxBlock
EndsMessage(i) == Left(i) <= MaxBlock

StartIn(i) ==
  LET size == IF Left(i) > MaxBlock THEN MaxBlock ELSE Left(i)
  IN IF Left(i) = 0 THEN i
     ELSE [i EXCEPT !.ep = [id |-> Head(i.list).id, size |-> size,
                            last |-> EndsMessage(i)],
                    !.pos = @ + size]
InEventsEarly(q, i) == IF Left(i) <= EpSize THEN Add(q, "in") ELSE q
InEvents(q, i) == IF Left(i) = 0 THEN Add(q, "in") ELSE q

(* The next message of the list, if there is one.                          *)
NextInIdle(i) == i
NextIn(i) == IF i.list = <<>> THEN i ELSE StartIn(i)

(* The completion of a first packet, and whether it has a header; whether  *)
(* the transfer that completed is the last of its message; no message.     *)
HasHeader == out.done >= HeaderSize
FirstOut == [out EXCEPT !.done = NULL, !.pos = out.done - HeaderSize]

OutEndsByLength(pos) == pos > out.length
OutEnds(pos) == out.done < MaxBlock \/ pos > out.length

NoOutButBuf == [out EXCEPT !.pos = 0, !.length = 0]
NoOut == [out EXCEPT !.buf = NULL, !.pos = 0, !.length = 0]

(* hw_send_usb_msg, which refuses while the host is not connected.         *)
SendItem(len) ==
  LET item == [id |-> count.sent + 1, len |-> len]
  IN /\ connected
     /\ count.sent < MaxSent
     /\ count' = [count EXCEPT !.sent = @ + 1]
     /\ in' = IF in.list = <<>>
              THEN StartIn([in EXCEPT !.list = <<item>>, !.pos = 0])
              ELSE [in EXCEPT !.list = Append(@, item)]

HostReset == [msg |-> NULL, whole |-> 0, bytes |-> 0, received |-> NULL, broke |-> FALSE]

(* Nothing is known of a program that has faulted, or has written outside  *)
(* of a buffer: it is not followed any further.                            *)
Running == pc \notin {"fault", "overrun"}

Init ==
  /\ connected = FALSE
  /\ events = <<>>
  /\ pc = "loop"
  /\ out = [length |-> 0, pos |-> 0, buf |-> NULL, initial |-> NULL,
            ep |-> Idle, done |-> NULL]
  /\ in = [list |-> <<>>, pos |-> 0, ep |-> NULL, done |-> FALSE]
  /\ host = HostReset
  /\ dispatched = NULL
  /\ count = [host |-> 0, sent |-> 0, drops |-> 0]

-----------------------------------------------------------------------------
(* The host and the endpoint hardware.                                     *)

(* What the firmware takes for granted of a message and never checks: it   *)
(* is no longer than it announces, and if it announces more than a packet  *)
(* it is not given up within the first.                                    *)
Framed(s) ==
  /\ s.total <= HeaderSize + s.len
  /\ s.total >= EpSize \/ HeaderSize + s.len < EpSize

HostBegin(s) ==
  /\ Running
  /\ connected
  /\ host.msg = NULL
  /\ count.host < MaxHost
  /\ count' = [count EXCEPT !.host = @ + 1]
  /\ host' = [host EXCEPT !.msg = [id |-> count.host + 1, left |-> s.total, shape |-> s],
                          !.broke = @ \/ ~Framed(s)]
  /\ UNCHANGED <<connected, events, pc, out, in, dispatched>>

(* The first packet of a message carries its header; any other packet that *)
(* lands in msg_out_initial is read as one all the same.                   *)
Header(m) ==
  IF m.left = m.shape.total THEN {[id |-> m.id, shape |-> m.shape]}
                            ELSE [id : {0}, shape : HostShapes]

(* An armed OUT transfer completes when it is full, or at the short packet *)
(* that ends the host's message.  It may be longer than what is left of    *)
(* the buffer (msg_interface.c:118, :177), which the host should not use.  *)
HostOut ==
  LET m == host.msg
      n == IF m.left < out.ep.size THEN m.left ELSE out.ep.size
      ends == m.left < out.ep.size
      sound == m.shape.total = HeaderSize + m.shape.len
  IN /\ Running
     /\ connected
     /\ m # NULL
     /\ out.ep.to # "none"
     /\ out.done = NULL
     /\ \/ /\ out.ep.to = "initial"
           /\ \E h \in Header(m) :
                out' = [out EXCEPT !.ep = Idle, !.done = n, !.initial = h]
           /\ UNCHANGED pc
        \/ /\ out.ep.to = "buf" /\ out.pos + n <= out.length
           /\ out' = [out EXCEPT !.ep = Idle, !.done = n,
                !.buf = IF @ = NULL \/ n = 0 THEN @ ELSE @ \union {m.id}]
           /\ UNCHANGED pc
        \/ /\ out.ep.to = "buf" /\ out.pos + n > out.length
           /\ out' = [out EXCEPT !.ep = Idle]
           /\ pc' = "overrun"
     /\ host' = [host EXCEPT !.msg = IF ends THEN NULL ELSE [m EXCEPT !.left = @ - n],
                             !.whole = IF ends /\ sound THEN m.id ELSE @]
     /\ UNCHANGED <<connected, events, in, dispatched, count>>

(* The host reads an IN transfer; the one flagged as last ends a message.  *)
HostIn ==
  /\ Running
  /\ connected
  /\ in.ep # NULL
  /\ ~in.done
  /\ in' = [in EXCEPT !.ep = NULL, !.done = TRUE]
  /\ LET bytes == host.bytes + in.ep.size
     IN host' = IF in.ep.last
                THEN [host EXCEPT !.bytes = 0,
                        !.received = [id |-> in.ep.id, len |-> bytes - HeaderSize]]
                ELSE [host EXCEPT !.bytes = bytes]
  /\ UNCHANGED <<connected, events, pc, out, dispatched, count>>

-----------------------------------------------------------------------------
(* The USB interrupt handler.                                              *)

(* usb_msg_init(0): the endpoints stall, what they were transferring is    *)
(* dropped, and the main loop is asked to clean up.                        *)
SetInterfaceOff ==
  /\ Running
  /\ connected
  /\ HostWaits => ~in.done /\ out.done = NULL
  /\ count.drops < MaxDrops
  /\ count' = [count EXCEPT !.drops = @ + 1]
  /\ connected' = FALSE
  /\ events' = Add(events, "cleanup")
  /\ out' = [out EXCEPT !.ep = Idle]
  /\ in' = [in EXCEPT !.ep = NULL]
  /\ host' = [HostReset EXCEPT !.broke = host.broke]
  /\ UNCHANGED <<pc, dispatched>>

(* usb_msg_init(1): the OUT endpoint is armed, nothing is cleaned up.      *)
SetInterfaceOn ==
  /\ Running
  /\ HostWaits => ~connected /\ ~Pending("cleanup")
  /\ connected' = TRUE
  /\ out' = [out EXCEPT !.ep = ArmInitial]
  /\ in' = IF EnableFlushes THEN [in EXCEPT !.ep = NULL] ELSE in
  /\ host' = HostReset /\ dispatched' = NULL
  /\ UNCHANGED <<events, pc, count>>

(* The OUT half of handle_msg_completion, after the IN half left events q. *)
CompleteOut(q) ==
  LET handled == [out EXCEPT !.done = NULL]
      pos == out.pos + out.done
  IN \/ out.done = NULL /\ events' = q /\ out' = out
     \/ /\ out.done # NULL /\ out.buf = NULL
        /\ \/ /\ HasHeader
              /\ out' = FirstOut
              /\ events' = Add(q, "out")
           \/ /\ ~HasHeader
              /\ out' = [handled EXCEPT !.ep = ArmInitial]
              /\ events' = q
     \/ /\ out.done # NULL /\ out.buf # NULL
        /\ IF OutEnds(pos)
           THEN out' = [handled EXCEPT !.pos = pos] /\ events' = Add(q, "out")
           ELSE out' = [handled EXCEPT !.pos = pos, !.ep = ArmRest(out.length - pos)]
                /\ events' = q

(* handle_msg_completion reads in_head without checking it.                *)
CompletionIsr ==
  /\ Running
  /\ \/ ~in.done /\ out.done # NULL /\ CompleteOut(events) /\ UNCHANGED <<pc, in>>
     \/ /\ in.done /\ in.list # <<>>
        /\ in' = StartIn([in EXCEPT !.done = FALSE])
        /\ CompleteOut(InEvents(events, in))
        /\ UNCHANGED pc
     \/ /\ in.done /\ in.list = <<>>
        /\ pc' = "fault"
        /\ UNCHANGED <<events, in, out>>
  /\ UNCHANGED <<connected, host, dispatched, count>>

-----------------------------------------------------------------------------
(* The main thread.                                                        *)

Send(len) ==
  /\ pc = "loop"
  /\ SendItem(len)
  /\ UNCHANGED <<connected, events, pc, out, host, dispatched>>

Pop(e) == pc = "loop" /\ events # <<>> /\ Head(events) = e

(* msg_in_handler also takes item->next of in_head unchecked.              *)
MsgInHandler ==
  /\ Pop("in")
  /\ LET rest == [in EXCEPT !.list = Tail(@), !.pos = 0]
     IN \/ /\ in.list = <<>>
           /\ pc' = "fault"
           /\ UNCHANGED <<events, in>>
        \/ /\ in.list # <<>>
           /\ in' = NextIn(rest)
           /\ events' = Tail(events)
           /\ UNCHANGED pc
  /\ UNCHANGED <<connected, out, host, dispatched, count>>

MsgCleanupHandler ==
  /\ Pop("cleanup")
  /\ events' = Tail(events)
  /\ out' = NoOut
  /\ in' = [in EXCEPT !.list = <<>>, !.pos = 0]
  /\ UNCHANGED <<connected, pc, host, dispatched, count>>

(* msg_out_handler, in the steps between which the interrupt handler may   *)
(* run: allocate, arm the endpoint for the rest, dispatch, rearm.  All of  *)
(* the first packet is copied, whatever length was announced.              *)
MsgOutHandler ==
  /\ Pop("out")
  /\ events' = Tail(events)
  /\ IF out.buf # NULL THEN pc' = "check" /\ out' = out
     ELSE LET length == out.initial.shape.len
          IN /\ out' = [out EXCEPT !.length = length,
                          !.buf = IF out.pos > 0 THEN {out.initial.id} ELSE {}]
             /\ pc' = CASE out.pos > length -> "overrun"
                        [] out.pos <= length /\ length + HeaderSize >= EpSize -> "rest"
                        [] OTHER -> "check"
  /\ UNCHANGED <<connected, in, host, dispatched, count>>

(* msg_out_start_ep spins until the endpoint is ready.                     *)
MsgOutRest ==
  /\ pc = "rest"
  /\ out.ep.to = "none"
  /\ out' = [out EXCEPT !.ep = ArmRest(out.length - out.pos)]
  /\ pc' = "loop"
  /\ UNCHANGED <<connected, events, in, host, dispatched, count>>

(* A message of the announced length is handed to the command processor or *)
(* echoed; any other is dropped.                                           *)
MsgOutCheck ==
  /\ pc = "check"
  /\ pc' = "reset"
  /\ LET complete == out.pos = out.length
     IN /\ dispatched' = IF complete THEN [id |-> out.initial.id, from |-> out.buf]
                                     ELSE dispatched
        /\ IF complete /\ out.initial.shape.tag = "echo" /\ connected /\ count.sent < MaxSent
           THEN SendItem(out.length)
           ELSE UNCHANGED <<in, count>>
  /\ UNCHANGED <<connected, events, out, host>>

MsgOutReset ==
  /\ pc = "reset"
  /\ pc' = "loop"
  /\ out' = [NoOut EXCEPT !.ep = ArmInitial]
  /\ UNCHANGED <<connected, events, in, host, dispatched, count>>

Main ==
  \/ MsgInHandler \/ MsgCleanupHandler
  \/ MsgOutHandler \/ MsgOutRest \/ MsgOutCheck \/ MsgOutReset

Next ==
  \/ Main \/ \E len \in SendLens : Send(len)
  \/ CompletionIsr \/ SetInterfaceOff \/ SetInterfaceOn
  \/ HostOut \/ HostIn \/ \E s \in HostShapes : HostBegin(s)

(* The main loop processes pending events and interrupts are served; the   *)
(* host owes nothing.                                                      *)
Spec == Init /\ [][Next]_vars /\ WF_vars(Main) /\ WF_vars(CompletionIsr)

-----------------------------------------------------------------------------
Ids == 0..MaxHost

TypeOK ==
  /\ connected \in BOOLEAN
  /\ events \in Seq({"in", "out", "cleanup"}) /\ Len(events) <= 3
  /\ pc \in {"loop", "rest", "check", "reset", "fault", "overrun"}
  /\ out.length \in Nat /\ out.pos \in Nat
  /\ out.buf = NULL \/ out.buf \subseteq Ids
  /\ in.pos \in Nat /\ in.done \in BOOLEAN
  /\ dispatched = NULL \/ dispatched \in [id : Ids, from : SUBSET Ids]

(* Neither handler meets an empty list: a completion, or the event it      *)
(* triggers, never outlives the message it is about (msg_interface.c:69,   *)
(* :217 dereference in_head unchecked).                                    *)
NoFault == pc # "fault"

(* The hardware never writes into a buffer that has been freed: an armed   *)
(* OUT transfer into msg_out_buf has a buffer to go to, and begins inside  *)
(* of it or at its end.  Whether it ends there is up to the host, see      *)
(* OutFraming.                                                             *)
NoTransferIntoFreed ==
  connected /\ out.ep.to = "buf" => out.buf # NULL /\ out.pos <= out.length

(* Whatever the host sends, and whatever the order of completions, cleanup *)
(* and reconnects, no handler and no transfer uses a message that has been *)
(* freed.                                                                  *)
BuffersSafe == TypeOK /\ NoFault /\ NoTransferIntoFreed

(* The OUT endpoint never goes deaf: while connected it is armed, or a     *)
(* completion, an event or the handler is there to arm it again.           *)
OutNeverDeaf ==
  connected /\ Running =>
    \/ out.ep.to # "none" \/ out.done # NULL
    \/ Pending("out") \/ pc \in {"rest", "check", "reset"}

(* A queued IN message never waits on nothing: a transfer is in flight or  *)
(* an event that starts the next one is on its way.                        *)
InNeverStalls ==
  connected /\ in.list # <<>> =>
    in.ep # NULL \/ in.done \/ Pending("in") \/ Pending("cleanup")

(* Neither direction gets stuck, whatever the host sends: there is always  *)
(* something on the way that arms its endpoint again.                      *)
NeverStuck == OutNeverDeaf /\ InNeverStalls

(* What is dispatched is one message of the host, the one whose header was *)
(* read, never bytes of two.                                               *)
OneMessageDispatched ==
  dispatched # NULL => dispatched.id # 0 /\ dispatched.from \subseteq {dispatched.id}

(* Once the endpoint waits for a new message, the last complete message    *)
(* has been dispatched: zero length packets, exact multiples of a packet   *)
(* and messages the host gave up included.                                 *)
NothingLost ==
  connected /\ out.ep.to = "initial" /\ host.whole # 0 /\ Running =>
    dispatched # NULL /\ dispatched.id = host.whole

(* Packets are framed into messages as the host meant them, for as long as *)
(* it does not break the framing, and again once it has connected anew:    *)
(* none is mixed with another, none is lost, and no byte is written        *)
(* outside of a message's buffer.  The host may give up a message of one   *)
(* packet anywhere, and a longer one anywhere behind its first packet.     *)
OutFraming == ~host.broke => OneMessageDispatched /\ NothingLost /\ pc # "overrun"

(* A complete message is eventually dispatched unless the host disconnects,*)
(* sends on or breaks the framing.                                         *)
EventuallyDispatched ==
  \A k \in 1..MaxHost :
    host.whole = k ~> \/ host.whole # k \/ host.broke
                      \/ dispatched # NULL /\ dispatched.id = k

-----------------------------------------------------------------------------
(* The IN direction is a FIFO of whole messages: the head leaves the       *)
(* channel when the host has all of it, which is before in_head is popped. *)
HeadTaken == in.ep = NULL /\ in.list # <<>> /\ Left(in) = 0

Channel == INSTANCE MsgChannel WITH
  Messages <- [id : 1..MaxSent, len : SendLens \union {s.len : s \in HostShapes}],
  NoMessage <- NULL,
  chan <- IF ~connected THEN <<>> ELSE IF HeadTaken THEN Tail(in.list) ELSE in.list,
  received <- host.received

InIsChannel == Channel!Spec
=============================================================================
