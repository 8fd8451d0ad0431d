----------------------------- MODULE Cc3000Proofs -----------------------------
(***************************************************************************)
(* Theorems about the wireless driver, for any calls and commands, any     *)
(* number of them, and however late the chip answers: the driver's state   *)
(* keeps its type, the chip is heard, the driver knows when it is busy,    *)
(* and a command is given its own answer, but for the orders named.        *)
(***************************************************************************)
EXTENDS Cc3000, SequenceTheorems, TLAPS

Op == STRING \ (Unsolicited \union {"none", "data"})
Packet == [kind : Op \union Unsolicited \union {"none", "data"}, id : Nat]
CommandType == [op : Op, sent : Nat, answer : Nat, datum : Nat, owes : BOOLEAN]
Places == {"test", "next", "boot", "power", "idle", "window", "select", "written",
           "await", "check", "handled", "returned", "crashed"}
FrameType == [call : Calls \union {"irq", "report"}, ops : Seq(Op), cmd : Nat,
              data : BOOLEAN, at : Places]

IrqType == [flag : BOOLEAN, enabled : BOOLEAN, edge : BOOLEAN, nvic : BOOLEAN]
WifiType == [connected : BOOLEAN, dhcp : BOOLEAN, initialized : BOOLEAN, inuse : BOOLEAN]
ChipType == [state : {"off", "booting", "up"}, line : BOOLEAN, missed : BOOLEAN,
             served : BOOLEAN, out : Packet, todo : Seq(Packet), unsol : Nat]
HistType == [calls : Nat, abandoned : BOOLEAN, crashed : BOOLEAN, noEnd : BOOLEAN,
             blind : BOOLEAN, forsaken : SUBSET Nat, handled : SUBSET Nat, again : BOOLEAN]

Types ==
  /\ spi \in {"powerup", "initialized", "idle", "write_irq"}
  /\ cs \in BOOLEAN /\ pending \in BOOLEAN
  /\ irq \in IrqType
  /\ wait \in Op \union {"none"}
  /\ rx \in Packet
  /\ stack \in Seq(FrameType)
  /\ wifi \in WifiType
  /\ chip \in ChipType
  /\ cmds \in Seq(CommandType)
  /\ hist \in HistType

-----------------------------------------------------------------------------
(* The stack: the running frame is replaced, pushed or popped.             *)

LEMMA PutOf ==
  ASSUME NEW S, NEW s \in Seq(S), s # <<>>, NEW f \in S
  PROVE  LET t == <<f>> \o Tail(s) IN
         /\ t \in Seq(S) /\ t # <<>> /\ Len(t) = Len(s) /\ t[1] = f /\ Head(t) = f
         /\ \A i \in 2..Len(s) : t[i] = s[i]
OBVIOUS

LEMMA PushOf ==
  ASSUME NEW S, NEW s \in Seq(S), NEW f \in S
  PROVE  LET t == <<f>> \o s IN
         /\ t \in Seq(S) /\ t # <<>> /\ Len(t) = Len(s) + 1 /\ t[1] = f /\ Head(t) = f
         /\ \A i \in 1..Len(s) : t[i + 1] = s[i]
OBVIOUS

LEMMA PopOf ==
  ASSUME NEW S, NEW s \in Seq(S), s # <<>>
  PROVE  /\ Head(s) = s[1] /\ s[1] \in S /\ Len(s) \in Nat \ {0}
         /\ Tail(s) \in Seq(S) /\ Len(Tail(s)) = Len(s) - 1
         /\ \A i \in 1..(Len(s) - 1) : Tail(s)[i] = s[i + 1]
OBVIOUS

(* What a step does to the stack.                                          *)
Puts(f) ==
  /\ f \in FrameType /\ stack # <<>> /\ stack' \in Seq(FrameType)
  /\ Len(stack') = Len(stack) /\ stack'[1] = f /\ \A i \in 2..Len(stack) : stack'[i] = stack[i]
Moves(at) == Puts([Top EXCEPT !.at = at])

LEMMA TopIs ==
  ASSUME Types, Busy
  PROVE  /\ Top = stack[1] /\ Top \in FrameType /\ Len(stack) \in Nat \ {0}
BY DEF Types, Busy, Top

LEMMA GotoMoves ==
  ASSUME Types, Busy, NEW at \in Places, Goto(at)
  PROVE  Moves(at)
<1>1. [Top EXCEPT !.at = at] \in FrameType
  BY TopIs DEF FrameType
<1>2. QED
  BY <1>1, PutOf DEF Types, Busy, Goto, Moved, Moves, Puts

Pushes(f, at) ==
  /\ f \in FrameType /\ stack # <<>> /\ stack' \in Seq(FrameType)
  /\ Len(stack') = Len(stack) + 1 /\ stack'[1] = f /\ stack'[2] = [Top EXCEPT !.at = at]
  /\ \A i \in 2..Len(stack) : stack'[i + 1] = stack[i]
Pops ==
  /\ stack # <<>> /\ stack' \in Seq(FrameType) /\ Len(stack') = Len(stack) - 1
  /\ \A i \in 1..(Len(stack) - 1) : stack'[i] = stack[i + 1]

LEMMA TailPops == ASSUME Types, Busy, stack' = Tail(stack) PROVE Pops
BY PopOf DEF Types, Busy, Pops

(* A frame that is pushed.                                                 *)
Asked == [Frame("report", "next") EXCEPT !.ops = Ops["report"]]
Called(call) == [Frame(call, "next") EXCEPT !.ops = Ops[call]]

LEMMA FrameTypes ==
  /\ Frame("irq", "test") \in FrameType
  /\ \A call \in Calls \union {"report"} : Called(call) \in FrameType
<1>1. \A call \in Calls \union {"report"} : Ops[call] \in Seq(Op)
  BY OpsAssumption, CallAssumption DEF Op
<1>2. \A call \in Calls \union {"irq", "report"}, at \in {"test", "next"} : Frame(call, at) \in FrameType
  <2>1. <<>> \in Seq(Op)
    OBVIOUS
  <2>2. QED
    BY <2>1 DEF Frame, FrameType, Places
<1>3. ASSUME NEW call \in Calls \union {"report"} PROVE Called(call) \in FrameType
  <2> DEFINE f == Frame(call, "next")
  <2>1. f \in FrameType
    BY <1>2
  <2> HIDE DEF f
  <2>2. Ops[call] \in Seq(Op) /\ Called(call) = [f EXCEPT !.ops = Ops[call]]
    BY <1>1 DEF Called, f
  <2>3. QED
    BY <2>1, <2>2 DEF FrameType
<1>4. QED
  BY <1>2, <1>3

-----------------------------------------------------------------------------
(* A packet is handled: its effect, without the wording of the callback.   *)

HistKept ==
  /\ hist' \in HistType
  /\ hist'.forsaken = hist.forsaken /\ hist'.noEnd = hist.noEnd /\ hist'.blind = hist.blind

Handles(packet, place) ==
  /\ wifi' \in WifiType /\ wifi'.initialized = wifi.initialized /\ wifi'.inuse = wifi.inuse
  /\ HistKept
  /\ \/ rx' = NoPacket /\ Moves(place)
     \/ rx' = packet /\ Moves("crashed")
     \/ rx' = packet /\ wifi.initialized /\ Pushes(Asked, place)

LEMMA HandleAs ==
  ASSUME Types, Busy, NEW packet \in Packet, NEW place \in Places,
         HandleUnsolicited(packet, place)
  PROVE  Handles(packet, place)
<1>1. wifi' \in WifiType /\ wifi'.initialized = wifi.initialized /\ wifi'.inuse = wifi.inuse
  BY DEF Types, WifiType, HandleUnsolicited
<1>2. CASE packet.kind = "dhcp_ok" /\ wifi.connected /\ wifi.initialized
  <2>1. rx' = packet /\ Report(place)
    BY <1>2 DEF HandleUnsolicited
  <2>2. CASE Depth(stack) < MaxDepth
    <3>1. stack' = <<Asked>> \o Moved(place)
          /\ hist' = [hist EXCEPT !.handled = @ \union {rx'.id},
                                  !.again = @ \/ rx'.id \in hist.handled]
      BY <2>1, <2>2 DEF Report, Asked
    <3>2. HistKept
      BY <2>1, <3>1 DEF HistKept, Types, HistType, Packet
    <3>3. [Top EXCEPT !.at = place] \in FrameType
      BY TopIs DEF FrameType
    <3>4. /\ Moved(place) \in Seq(FrameType) /\ Len(Moved(place)) = Len(stack)
          /\ Moved(place)[1] = [Top EXCEPT !.at = place]
          /\ \A i \in 2..Len(stack) : Moved(place)[i] = stack[i]
      BY <3>3, PutOf DEF Types, Busy, Moved
    <3>5. Asked \in FrameType
      BY FrameTypes DEF Asked, Called
    <3> DEFINE m == Moved(place)
    <3> HIDE DEF m
    <3>6. /\ stack' \in Seq(FrameType) /\ Len(stack') = Len(m) + 1 /\ stack'[1] = Asked
          /\ \A i \in 1..Len(m) : stack'[i + 1] = m[i]
      BY <3>1, <3>4, <3>5, PushOf DEF m
    <3>7. Pushes(Asked, place)
      BY <3>4, <3>5, <3>6, TopIs DEF m, Pushes, Busy
    <3>8. QED
      BY <1>1, <1>2, <2>1, <3>2, <3>7 DEF Handles
  <2>3. CASE ~(Depth(stack) < MaxDepth)
    <3>1. Goto("crashed") /\ hist' = [hist EXCEPT !.crashed = TRUE]
      BY <2>1, <2>3 DEF Report, Goto
    <3>2. Moves("crashed")
      BY <3>1, GotoMoves DEF Places
    <3>3. HistKept
      BY <3>1 DEF HistKept, Types, HistType
    <3>4. QED
      BY <1>1, <2>1, <3>2, <3>3 DEF Handles
  <2>4. QED
    BY <2>2, <2>3
<1>3. CASE ~(packet.kind = "dhcp_ok" /\ wifi.connected /\ wifi.initialized)
  <2>1. /\ rx' = NoPacket /\ Goto(place)
        /\ hist' = [hist EXCEPT !.handled = @ \union {packet.id},
                                !.again = @ \/ packet.id \in hist.handled]
    BY <1>3 DEF HandleUnsolicited
  <2>2. HistKept
    BY <2>1 DEF HistKept, Types, HistType, Packet
  <2>3. QED
    BY <1>1, <2>1, <2>2, GotoMoves DEF Handles
<1>4. QED
  BY <1>2, <1>3

-----------------------------------------------------------------------------
(* What a step does to the commands and to the chip.                       *)

Changes(c, r) ==
  /\ r \in CommandType /\ cmds' \in Seq(CommandType) /\ Len(cmds') = Len(cmds)
  /\ cmds'[c] = r /\ \A k \in 1..Len(cmds) : k # c => cmds'[k] = cmds[k]

LEMMA ChangeOf ==
  ASSUME Types, NEW c \in 1..Len(cmds)
  PROVE  /\ cmds[c] \in CommandType
         /\ cmds' = [cmds EXCEPT ![c].sent = @ + 1] =>
              Changes(c, [cmds[c] EXCEPT !.sent = cmds[c].sent + 1])
         /\ cmds' = [cmds EXCEPT ![c].owes = TRUE] => Changes(c, [cmds[c] EXCEPT !.owes = TRUE])
         /\ \A n \in Nat : cmds' = [cmds EXCEPT ![c].answer = n] =>
              Changes(c, [cmds[c] EXCEPT !.answer = n])
         /\ \A n \in Nat : cmds' = [cmds EXCEPT ![c].datum = n] =>
              Changes(c, [cmds[c] EXCEPT !.datum = n])
<1>1. cmds[c] \in CommandType /\ cmds \in Seq(CommandType)
  BY DEF Types
<1>2. ASSUME NEW r \in CommandType, cmds' = [cmds EXCEPT ![c] = r] PROVE Changes(c, r)
  BY <1>1, <1>2 DEF Changes
<1>3. /\ [cmds[c] EXCEPT !.sent = cmds[c].sent + 1] \in CommandType
      /\ [cmds[c] EXCEPT !.owes = TRUE] \in CommandType
      /\ \A n \in Nat : [cmds[c] EXCEPT !.answer = n] \in CommandType
      /\ \A n \in Nat : [cmds[c] EXCEPT !.datum = n] \in CommandType
  <2> DEFINE r == cmds[c]
  <2>1. r \in CommandType
    BY <1>1
  <2> HIDE DEF r
  <2>2. [r EXCEPT !.sent = r.sent + 1] \in CommandType
    BY <2>1 DEF CommandType
  <2>3. [r EXCEPT !.owes = TRUE] \in CommandType
    BY <2>1 DEF CommandType
  <2>4. ASSUME NEW n \in Nat
        PROVE  [r EXCEPT !.answer = n] \in CommandType /\ [r EXCEPT !.datum = n] \in CommandType
    BY <2>1 DEF CommandType
  <2>5. QED
    BY <2>2, <2>3, <2>4 DEF r
<1>4. /\ [cmds EXCEPT ![c].sent = @ + 1] = [cmds EXCEPT ![c] = [cmds[c] EXCEPT !.sent = cmds[c].sent + 1]]
      /\ [cmds EXCEPT ![c].owes = TRUE] = [cmds EXCEPT ![c] = [cmds[c] EXCEPT !.owes = TRUE]]
      /\ \A n \in Nat : [cmds EXCEPT ![c].answer = n] = [cmds EXCEPT ![c] = [cmds[c] EXCEPT !.answer = n]]
      /\ \A n \in Nat : [cmds EXCEPT ![c].datum = n] = [cmds EXCEPT ![c] = [cmds[c] EXCEPT !.datum = n]]
  BY <1>1 DEF CommandType
<1>5. QED
  BY <1>1, <1>2, <1>3, <1>4

(* The buffer is written to the chip, or the chip takes no notice.         *)
Takes ==
  /\ cs /\ chip.state = "up" /\ Tx # 0
  /\ ~chip'.line /\ ~chip'.missed /\ chip'.served /\ chip'.todo = Append(chip.todo, Owed(Tx))
  /\ Changes(Tx, [cmds[Tx] EXCEPT !.sent = cmds[Tx].sent + 1])
Ignores ==
  /\ ~(cs /\ chip.state = "up")
  /\ chip'.missed = chip.line /\ chip'.line = chip.line /\ chip'.served = chip.served
  /\ chip'.todo = chip.todo /\ cmds' = cmds
ChipKept ==
  chip' \in ChipType /\ chip'.state = chip.state /\ chip'.unsol = chip.unsol

LEMMA OwedIs ==
  ASSUME Types, NEW c \in 1..Len(cmds)
  PROVE  Owed(c) \in Packet /\ Owed(c).kind = cmds[c].op /\ Owed(c).id = c
<1>1. cmds[c] \in CommandType /\ c \in Nat
  BY DEF Types
<1>2. cmds[c].op \in Op
  BY <1>1 DEF CommandType
<1>3. QED
  BY <1>1, <1>2 DEF Owed, Event, Packet

LEMMA WriteAs ==
  ASSUME Types, cs => Tx # 0, chip' = Written(chip), cmds' = Sent
  PROVE  ChipKept /\ chip'.out = chip.out /\ (Takes \/ Ignores)
<1>1. CASE cs /\ chip.state = "up"
  <2>1. Tx \in 1..Len(cmds)
    BY <1>1 DEF Types, Tx
  <2>2. Append(chip.todo, Owed(Tx)) \in Seq(Packet)
    BY <2>1, OwedIs DEF Types, ChipType
  <2>3. chip' = [chip EXCEPT !.line = FALSE, !.missed = FALSE, !.served = TRUE,
                             !.todo = Append(chip.todo, Owed(Tx))]
    BY <1>1 DEF Written
  <2>4. ChipKept /\ chip'.out = chip.out
        /\ ~chip'.line /\ ~chip'.missed /\ chip'.served /\ chip'.todo = Append(chip.todo, Owed(Tx))
    BY <2>2, <2>3 DEF Types, ChipType, ChipKept
  <2>5. QED
    BY <1>1, <2>1, <2>4, ChangeOf DEF Sent, Takes
<1>2. CASE ~(cs /\ chip.state = "up")
  <2>1. chip' = [chip EXCEPT !.missed = chip.line] /\ cmds' = cmds
    BY <1>2 DEF Written, Sent
  <2>2. QED
    BY <1>2, <2>1 DEF Types, ChipType, ChipKept, Ignores
<1>3. QED
  BY <1>1, <1>2

LEMMA DeselectAs ==
  ASSUME Types, chip' = Deselected(chip)
  PROVE  /\ ChipKept /\ chip'.out = chip.out /\ chip'.todo = chip.todo /\ ~chip'.served
         /\ chip'.line = (chip.line /\ chip.out # NoPacket)
         /\ chip'.missed = (chip.missed /\ chip.out # NoPacket)
BY DEF Types, ChipType, Deselected, ChipKept

(* The interrupt handler of the driver, at its caller's place.             *)
ReadsPacket(place) ==
  /\ chip.out # NoPacket /\ chip'.out = NoPacket
  /\ ~chip'.line /\ ~chip'.missed /\ chip'.todo = chip.todo
  /\ \/ chip.out.kind \in Unsolicited /\ Handles(chip.out, place)
     \/ /\ chip.out.kind \notin Unsolicited
        /\ rx' = IF chip.out.kind = "data" \/ Awaited(chip.out) THEN chip.out ELSE NoPacket
        /\ Moves(place) /\ UNCHANGED <<wifi, hist>>
ReadsNothing(place) ==
  /\ chip.out = NoPacket /\ chip'.out = NoPacket /\ chip'.todo = chip.todo
  /\ ~chip'.line /\ ~chip'.missed
  /\ Moves(place) /\ UNCHANGED <<rx, wifi>>
  /\ hist' = [hist EXCEPT !.blind = hist.blind \/ chip.state = "up"]

Serves(place) ==
  /\ irq.flag /\ irq' = [irq EXCEPT !.flag = FALSE] /\ UNCHANGED <<wait, pending>>
  /\ \/ /\ spi \in {"powerup", "initialized"} /\ spi' = "initialized"
        /\ Moves(place) /\ UNCHANGED <<cs, rx, wifi, chip, cmds, hist>>
     \/ /\ spi = "write_irq" /\ spi' = "idle"
        /\ ChipKept /\ chip'.out = chip.out /\ (Takes \/ Ignores)
        /\ Moves(place) /\ UNCHANGED <<cs, rx, wifi, hist>>
     \/ /\ spi = "idle" /\ cs' = FALSE /\ UNCHANGED <<spi, cmds>>
        /\ ChipKept /\ ~chip'.served /\ (ReadsPacket(place) \/ ReadsNothing(place))

LEMMA SpiIrqAs ==
  ASSUME Types, Busy, cs => Tx # 0, NEW place \in Places, SpiIrq(place)
  PROVE  Serves(place)
<1>1. /\ irq.flag /\ irq' = [irq EXCEPT !.flag = FALSE] /\ UNCHANGED <<wait, pending>>
  BY DEF SpiIrq
<1>2. CASE /\ spi \in {"powerup", "initialized"}
           /\ spi' = "initialized" /\ Goto(place)
           /\ UNCHANGED <<cs, rx, wifi, chip, cmds, hist>>
  BY <1>1, <1>2, GotoMoves DEF Serves
<1>3. CASE /\ spi = "write_irq"
           /\ spi' = "idle" /\ chip' = Written(chip) /\ cmds' = Sent
           /\ Goto(place)
           /\ UNCHANGED <<cs, rx, wifi, hist>>
  BY <1>1, <1>3, GotoMoves, WriteAs DEF Serves
<1>4. CASE spi = "idle" /\ cs' = FALSE /\ UNCHANGED <<spi, cmds>> /\ chip.out # NoPacket
  <2>1. /\ chip' = [chip EXCEPT !.out = NoPacket, !.line = FALSE, !.missed = FALSE, !.served = FALSE]
        /\ Receive(chip.out, place)
    BY <1>4 DEF SpiIrq
  <2>2. NoPacket \in Packet /\ chip.out \in Packet
    BY DEF Types, ChipType, NoPacket, Packet
  <2>3. /\ ChipKept /\ chip'.out = NoPacket /\ chip'.todo = chip.todo
        /\ ~chip'.line /\ ~chip'.missed /\ ~chip'.served
    BY <2>1, <2>2 DEF Types, ChipType, ChipKept
  <2>4. ReadsPacket(place)
    BY <1>4, <2>1, <2>2, <2>3, HandleAs, GotoMoves DEF ReadsPacket, Receive
  <2>5. QED
    BY <1>1, <1>4, <2>3, <2>4 DEF Serves
<1>5. CASE spi = "idle" /\ cs' = FALSE /\ UNCHANGED <<spi, cmds>> /\ chip.out = NoPacket
  <2>1. /\ chip' = Deselected(chip) /\ Goto(place) /\ UNCHANGED <<rx, wifi>>
        /\ hist' = [hist EXCEPT !.blind = hist.blind \/ chip.state = "up"]
    BY <1>5 DEF SpiIrq
  <2>2. ReadsNothing(place)
    BY <1>5, <2>1, DeselectAs, GotoMoves DEF ReadsNothing
  <2>3. QED
    BY <1>1, <1>5, <2>1, <2>2, DeselectAs DEF Serves
<1>6. QED
  BY <1>2, <1>3, <1>4, <1>5 DEF SpiIrq

-----------------------------------------------------------------------------
(* The frames.  Those below the top are in the callback of a packet.       *)

Before == {"boot", "power", "idle", "window", "select", "written"}
Waits == {"await", "check", "handled", "crashed"}

FrameOK(f, i) ==
  /\ f.call = "report" <=> i # Len(stack)
  /\ f.call = "report" => wifi.initialized
  /\ f.call = "disable" => ~wifi.initialized
  /\ f.call = "irq" => f.ops = <<>> /\ f.cmd = 0 /\ f.at \in {"test", "next", "crashed"}
  /\ f.at = "test" => f.call = "irq"
  /\ i # 1 => f.at \in {"check", "handled"} \/ (f.call = "irq" /\ f.at = "next")
  /\ f.cmd \in 0..Len(cmds)
  /\ f.at \notin {"next", "test", "crashed"} => f.cmd # 0
  /\ f.at \in Before => f.cmd = Len(cmds)
  /\ f.call # "enable" => \A k \in 1..Len(f.ops) : f.ops[k] # "start"

Frames == \A i \in 1..Len(stack) : FrameOK(stack[i], i)

(* The chip is off, or starting, or started.                               *)
Off ==
  /\ chip.state = "off" /\ ~chip.line /\ chip.out = NoPacket /\ chip.todo = <<>>
  /\ ~wifi.initialized
  /\ Busy => Top.call = "irq" \/ Top = Called("enable")

Starting ==
  /\ Busy /\ Top.at \in {"boot", "power"}
  /\ chip.out = NoPacket /\ chip.todo = <<>>
  /\ spi \in {"powerup", "initialized"}
  /\ Top.at = "boot" => spi = "powerup"
  /\ chip.state = "booting" => Top.at = "boot"
  /\ chip.state \in {"booting", "up"}
  /\ chip.line <=> chip.state = "up"
  /\ spi = "initialized" => ~irq.flag /\ ~irq.edge

Started ==
  /\ chip.state = "up" /\ spi \in {"idle", "write_irq"}
  /\ Busy => Top.at \notin {"boot", "power"}

Phase == Off \/ Starting \/ Started

-----------------------------------------------------------------------------
(* The line of the chip.                                                   *)

LineInv ==
  /\ irq.nvic \/ (Busy /\ Top.at = "window")
  /\ cs => Busy /\ Top.at = "written"
  /\ cs /\ spi = "idle" => chip.served
  /\ spi = "idle" /\ chip.state = "up" /\ (irq.flag \/ irq.edge) => chip.out # NoPacket
  /\ Busy /\ Top.at \in {"window", "select"} => spi = "write_irq"
  /\ \A k \in 1..Len(chip.todo) : chip.todo[k] # NoPacket

(* The in-use flag.                                                        *)
UseInv ==
  wifi.inuse => hist.noEnd \/ \E i \in 1..Len(stack) : stack[i].call # "irq"

LEMMA TopFrame ==
  ASSUME Types, Frames, Busy
  PROVE  /\ Top = stack[1] /\ Top \in FrameType /\ Len(stack) \in Nat \ {0}
         /\ FrameOK(Top, 1)
BY TopIs DEF Frames

LEMMA Working ==
  ASSUME Types, Frames, Busy, Top.at \notin {"next", "test", "crashed"}
  PROVE  /\ Top.cmd \in 1..Len(cmds) /\ cmds[Top.cmd] \in CommandType
         /\ cmds[Top.cmd].op \in Op /\ Owed(Top.cmd) \in Packet
         /\ Top.at \in Before => Top.cmd = Tx
<1>1. Top.cmd \in 0..Len(cmds) /\ Top.cmd # 0 /\ (Top.at \in Before => Top.cmd = Len(cmds))
  BY TopFrame DEF FrameOK
<1>2. Top.cmd \in 1..Len(cmds) /\ Len(cmds) \in Nat
  BY <1>1 DEF Types
<1>3. cmds[Top.cmd] \in CommandType
  BY <1>2 DEF Types
<1>4. cmds[Top.cmd].op \in Op
  BY <1>3 DEF CommandType
<1>5. QED
  BY <1>1, <1>2, <1>3, <1>4, OwedIs DEF Tx

LEMMA SelectedTx ==
  ASSUME Types, Frames, LineInv
  PROVE  cs => Tx # 0
<1>1. cs => Busy /\ Top.at = "written"
  BY DEF LineInv
<1>2. QED
  BY <1>1, Working DEF Before, Types, Tx

LEMMA BelowIs ==
  ASSUME Types, Busy
  PROVE  /\ Below \subseteq Nat
         /\ \A i \in 2..Len(stack) : stack[i].cmd \in Below
         /\ \A c \in Below : \E i \in 2..Len(stack) : c = stack[i].cmd
<1>1. /\ Len(stack) \in Nat \ {0} /\ stack \in Seq(FrameType)
      /\ \A i \in 1..(Len(stack) - 1) : Tail(stack)[i] = stack[i + 1]
  BY PopOf DEF Types, Busy
<1>2. ASSUME NEW c \in Below PROVE c \in Nat /\ \E i \in 2..Len(stack) : c = stack[i].cmd
  <2>1. PICK i \in 1..(Len(stack) - 1) : c = Tail(stack)[i].cmd
    BY DEF Below
  <2>2. c = stack[i + 1].cmd /\ i + 1 \in 2..Len(stack) /\ stack[i + 1] \in FrameType
    BY <1>1, <2>1
  <2>3. QED
    BY <2>2 DEF FrameType
<1>3. ASSUME NEW i \in 2..Len(stack) PROVE stack[i].cmd \in Below
  <2>1. i - 1 \in 1..(Len(stack) - 1) /\ Tail(stack)[i - 1] = stack[i]
    BY <1>1
  <2>2. QED
    BY <2>1 DEF Below
<1>4. QED
  BY <1>2, <1>3

LEMMA ForsakeAs ==
  ASSUME Types, NEW ids \in SUBSET Nat
  PROVE  /\ Forsake(ids) \in HistType /\ Forsake(ids).forsaken = hist.forsaken \union (ids \ {0})
         /\ Forsake(ids).noEnd = hist.noEnd /\ Forsake(ids).blind = hist.blind
BY DEF Types, HistType, Forsake

(* The wait of the running frame's command begins.                         *)
Begins(place) ==
  /\ wait' = cmds[Top.cmd].op /\ cs' = FALSE /\ Moves(place)
  /\ hist' \in HistType /\ hist'.noEnd = hist.noEnd /\ hist'.blind = hist.blind
  /\ hist'.forsaken = hist.forsaken \union (Below \ {0})

LEMMA FirstWriteAs ==
  ASSUME Types, Frames, FirstWrite
  PROVE  /\ Busy /\ Top.at = "power" /\ Tx = Top.cmd /\ spi = "initialized" /\ spi' = "idle"
         /\ ~(irq.edge /\ irq.nvic)
         /\ Begins("await") /\ UNCHANGED <<irq, pending, rx, wifi>>
         /\ ChipKept /\ chip'.out = chip.out /\ chip'.served = chip.served
         /\ ~chip'.line /\ ~chip'.missed /\ chip'.todo = Append(chip.todo, Owed(Tx))
         /\ Changes(Tx, [cmds[Tx] EXCEPT !.sent = cmds[Tx].sent + 1])
<1>1. Busy /\ Top.at = "power" /\ ~(irq.edge /\ irq.nvic)
  BY DEF FirstWrite, At
<1>2. Top.cmd = Tx /\ Tx \in 1..Len(cmds) /\ Owed(Tx) \in Packet
  BY <1>1, Working DEF Before
<1>3. Append(chip.todo, Owed(Tx)) \in Seq(Packet)
  BY <1>2 DEF Types, ChipType
<1>4. chip' = [chip EXCEPT !.line = FALSE, !.missed = FALSE, !.todo = Append(chip.todo, Owed(Tx))]
  BY DEF FirstWrite
<1>5. /\ ChipKept /\ chip'.out = chip.out /\ chip'.served = chip.served
      /\ ~chip'.line /\ ~chip'.missed /\ chip'.todo = Append(chip.todo, Owed(Tx))
  BY <1>3, <1>4 DEF Types, ChipType, ChipKept
<1>6. Begins("await")
  BY <1>1, ForsakeAs, BelowIs, GotoMoves DEF FirstWrite, WaitEvent, Begins, Places
<1>7. Changes(Tx, [cmds[Tx] EXCEPT !.sent = cmds[Tx].sent + 1])
  BY <1>2, ChangeOf DEF FirstWrite
<1>8. QED
  BY <1>1, <1>2, <1>5, <1>6, <1>7 DEF FirstWrite

LEMMA WriteEndsAs ==
  ASSUME Types, Frames, WriteDone \/ WriteTimeout
  PROVE  /\ Busy /\ Top.at = "written" /\ Tx = Top.cmd
         /\ Begins("await") /\ UNCHANGED <<spi, irq, pending, rx, wifi, cmds>>
         /\ ChipKept /\ chip'.out = chip.out /\ chip'.todo = chip.todo /\ ~chip'.served
         /\ chip'.line = (chip.line /\ chip.out # NoPacket)
         /\ chip'.missed = (chip.missed /\ chip.out # NoPacket)
<1>1. Busy /\ Top.at = "written"
  BY DEF WriteDone, WriteTimeout, At
<1>2. Top.cmd = Tx
  BY <1>1, Working DEF Before
<1>3. /\ hist' \in HistType /\ hist'.noEnd = hist.noEnd /\ hist'.blind = hist.blind
      /\ hist'.forsaken = hist.forsaken \union (Below \ {0})
  <2>1. CASE WriteDone
    BY <1>1, <2>1, ForsakeAs, BelowIs DEF WriteDone
  <2>2. CASE WriteTimeout
    <3> DEFINE h == Forsake(Below)
    <3>1. /\ h \in HistType /\ h.forsaken = hist.forsaken \union (Below \ {0})
          /\ h.noEnd = hist.noEnd /\ h.blind = hist.blind
      BY <1>1, ForsakeAs, BelowIs
    <3> HIDE DEF h
    <3>2. hist' = [h EXCEPT !.abandoned = TRUE]
      BY <2>2 DEF WriteTimeout, h
    <3>3. QED
      BY <3>1, <3>2 DEF HistType
  <2>3. QED
    BY <2>1, <2>2
<1>4. Begins("await")
  BY <1>1, <1>3, GotoMoves DEF WriteDone, WriteTimeout, WaitEvent, Begins, Places
<1>5. QED
  BY <1>1, <1>2, <1>4, DeselectAs DEF WriteDone, WriteTimeout

(* A command is marshalled.                                                *)
Adds(op) ==
  /\ op \in Op /\ cmds' \in Seq(CommandType) /\ Len(cmds') = Len(cmds) + 1
  /\ cmds'[Len(cmds) + 1] = NewCommand(op) /\ \A k \in 1..Len(cmds) : cmds'[k] = cmds[k]

Switched(state) ==
  /\ chip' \in ChipType /\ chip'.state = state /\ chip'.out = NoPacket /\ chip'.todo = <<>>
  /\ ~chip'.line /\ ~chip'.missed /\ ~chip'.served

LEMMA SwitchAs ==
  ASSUME Types, NEW state \in {"off", "booting"}, chip' = [Silent EXCEPT !.state = state]
  PROVE  Switched(state)
<1> DEFINE quiet == [chip EXCEPT !.line = FALSE, !.missed = FALSE, !.served = FALSE]
           empty == [quiet EXCEPT !.out = NoPacket, !.todo = <<>>]
<1>1. quiet \in ChipType /\ ~quiet.line /\ ~quiet.missed /\ ~quiet.served
  BY DEF Types, ChipType
<1>2. Silent = empty
  BY <1>1 DEF Silent, Types, ChipType
<1> HIDE DEF quiet
<1>3. NoPacket \in Packet /\ <<>> \in Seq(Packet)
  BY DEF NoPacket, Packet
<1>4. /\ empty \in ChipType /\ empty.out = NoPacket /\ empty.todo = <<>>
      /\ ~empty.line /\ ~empty.missed /\ ~empty.served
  BY <1>1, <1>3 DEF ChipType
<1> HIDE DEF empty
<1>5. QED
  BY <1>2, <1>4 DEF Switched, ChipType

NextFrame(at) ==
  [Top EXCEPT !.ops = Tail(@), !.cmd = Len(cmds) + 1, !.data = FALSE, !.at = at]

LEMMA CommandAs ==
  ASSUME Types, Frames, Command
  PROVE  /\ Busy /\ Top.at = "next" /\ Top.ops # <<>> /\ ~Skipped
         /\ Adds(Head(Top.ops)) /\ UNCHANGED <<cs, irq, hist>>
         /\ wifi' = [wifi EXCEPT !.inuse = @ \/ Top.call = "report"]
         /\ Puts(stack'[1]) /\ stack'[1].call = Top.call /\ stack'[1].ops = Tail(Top.ops)
         /\ stack'[1].cmd = Len(cmds) + 1 /\ ~stack'[1].data
         /\ \/ /\ Head(Top.ops) = "start" /\ stack'[1].at = "boot"
               /\ spi' = "powerup" /\ wait' = "none" /\ pending' = FALSE /\ rx' = NoPacket
               /\ Switched("booting")
            \/ /\ Head(Top.ops) # "start"
               /\ stack'[1].at = IF spi \in {"powerup", "initialized"} THEN "power" ELSE "idle"
               /\ UNCHANGED <<spi, wait, pending, rx, chip>>
<1> DEFINE op == Head(Top.ops)
<1>1. /\ Busy /\ Top.at = "next" /\ Top.ops # <<>> /\ ~Skipped
      /\ cmds' = Append(cmds, NewCommand(op)) /\ UNCHANGED <<cs, irq, hist>>
      /\ wifi' = [wifi EXCEPT !.inuse = @ \/ Top.call = "report"]
  BY DEF Command, At
<1>2. op \in Op /\ Tail(Top.ops) \in Seq(Op) /\ Top \in FrameType
  BY <1>1, TopFrame DEF FrameType
<1>3. NewCommand(op) \in CommandType
  BY <1>2 DEF NewCommand, CommandType
<1>4. Adds(op)
  BY <1>1, <1>2, <1>3 DEF Adds, Types
<1>5. ASSUME NEW at \in Places, stack' = <<NextFrame(at)>> \o Tail(stack)
      PROVE  /\ Puts(stack'[1]) /\ stack'[1].call = Top.call /\ stack'[1].ops = Tail(Top.ops)
             /\ stack'[1].cmd = Len(cmds) + 1 /\ ~stack'[1].data /\ stack'[1].at = at
  <2> DEFINE n == NextFrame(at)
  <2>1. Len(cmds) + 1 \in Nat
    BY DEF Types
  <2>2. /\ n \in FrameType /\ n.call = Top.call /\ n.ops = Tail(Top.ops)
        /\ n.cmd = Len(cmds) + 1 /\ ~n.data /\ n.at = at
    <3> DEFINE l == Len(cmds) + 1
    <3>1. l \in Nat /\ n = [Top EXCEPT !.ops = Tail(@), !.cmd = l, !.data = FALSE, !.at = at]
      BY <2>1 DEF NextFrame
    <3> HIDE DEF l, n
    <3> DEFINE a == [Top EXCEPT !.ops = Tail(@), !.cmd = l]
    <3>2. a \in FrameType /\ a.call = Top.call /\ a.ops = Tail(Top.ops) /\ a.cmd = l
      BY <1>2, <3>1 DEF FrameType
    <3>3. n = [a EXCEPT !.data = FALSE, !.at = at]
      BY <1>2, <3>1 DEF FrameType
    <3> HIDE DEF a
    <3>4. n \in FrameType /\ n.call = a.call /\ n.ops = a.ops /\ n.cmd = a.cmd /\ ~n.data /\ n.at = at
      BY <3>2, <3>3 DEF FrameType
    <3>5. QED
      BY <3>2, <3>4 DEF l
  <2> HIDE DEF n
  <2>3. stack' = <<n>> \o Tail(stack)
    BY <1>5 DEF n
  <2>4. Puts(n)
    BY <1>1, <2>2, <2>3, PutOf DEF Puts, Types, Busy
  <2>5. stack'[1] = n
    BY <2>4 DEF Puts
  <2>6. QED
    BY <2>2, <2>4, <2>5
<1>6. CASE op = "start"
  <2>1. /\ stack' = <<NextFrame("boot")>> \o Tail(stack)
        /\ spi' = "powerup" /\ wait' = "none" /\ pending' = FALSE /\ rx' = NoPacket
        /\ chip' = [Silent EXCEPT !.state = "booting"]
    BY <1>6 DEF Command, NextFrame
  <2>2. "boot" \in Places
    BY DEF Places
  <2>3. QED
    BY <1>1, <1>4, <1>5, <1>6, <2>1, <2>2, SwitchAs
<1>7. CASE op # "start"
  <2> DEFINE at == IF spi \in {"powerup", "initialized"} THEN "power" ELSE "idle"
  <2>1. stack' = <<NextFrame(at)>> \o Tail(stack) /\ UNCHANGED <<spi, wait, pending, rx, chip>>
    BY <1>7 DEF Command, NextFrame
  <2>2. at \in Places
    BY DEF Places
  <2> HIDE DEF at
  <2>3. /\ Puts(stack'[1]) /\ stack'[1].call = Top.call /\ stack'[1].ops = Tail(Top.ops)
        /\ stack'[1].cmd = Len(cmds) + 1 /\ ~stack'[1].data /\ stack'[1].at = at
    BY <1>5, <2>1, <2>2
  <2>4. QED
    BY <1>1, <1>4, <1>7, <2>1, <2>3 DEF at
<1>8. QED
  BY <1>6, <1>7

(* A frame is the only one.                                                *)
Starts(f) ==
  /\ stack = <<>> /\ f \in FrameType /\ stack' \in Seq(FrameType)
  /\ Len(stack') = 1 /\ stack'[1] = f

LEMMA BeginAs ==
  ASSUME Types, NEW call \in Calls, Begin(call)
  PROVE  /\ Starts(Called(call)) /\ UNCHANGED <<spi, cs, irq, wait, pending, rx, chip, cmds>>
         /\ call # "enable" => wifi.initialized
         /\ wifi' \in WifiType /\ wifi'.inuse
         /\ wifi'.initialized = (wifi.initialized /\ call \notin {"enable", "disable"})
         /\ hist' \in HistType /\ hist'.noEnd = hist.noEnd /\ hist'.blind = hist.blind
         /\ hist'.forsaken = hist.forsaken
<1>0. /\ wifi \in WifiType /\ hist \in HistType
      /\ hist' = [hist EXCEPT !.calls = @ + 1]
      /\ wifi' = IF call \in {"enable", "disable"}
                   THEN [wifi EXCEPT !.inuse = TRUE, !.initialized = FALSE,
                                     !.connected = FALSE, !.dhcp = FALSE]
                   ELSE [wifi EXCEPT !.inuse = TRUE]
  BY DEF Begin, Types
<1>1. wifi' \in WifiType /\ wifi'.inuse
      /\ wifi'.initialized = (wifi.initialized /\ call \notin {"enable", "disable"})
  BY <1>0 DEF WifiType
<1>2. /\ hist' \in HistType /\ hist'.noEnd = hist.noEnd /\ hist'.blind = hist.blind
      /\ hist'.forsaken = hist.forsaken
  BY <1>0 DEF HistType
<1>3. Called(call) \in FrameType /\ stack' = <<Called(call)>> /\ stack = <<>>
  BY FrameTypes DEF Begin, Called, Busy
<1>4. /\ UNCHANGED <<spi, cs, irq, wait, pending, rx, chip, cmds>>
      /\ call # "enable" => wifi.initialized
  BY DEF Begin
<1>5. Starts(Called(call))
  BY <1>3 DEF Starts
<1>6. QED
  BY <1>1, <1>2, <1>4, <1>5

LEMMA IrqEventAs ==
  ASSUME Types, IrqEvent
  PROVE  /\ Starts(Frame("irq", "test")) /\ irq.enabled
         /\ irq' \in IrqType /\ irq' = [irq EXCEPT !.enabled = FALSE]
         /\ UNCHANGED <<spi, cs, wait, pending, rx, wifi, chip, cmds, hist>>
<1> DEFINE f == Frame("irq", "test")
<1>1. f \in FrameType
  BY FrameTypes
<1> HIDE DEF f
<1>2. stack = <<>> /\ stack' = <<f>>
  BY DEF IrqEvent, Busy, f
<1>3. Starts(f)
  BY <1>1, <1>2 DEF Starts
<1>4. QED
  BY <1>3 DEF IrqEvent, Types, IrqType, f

LEMMA LookEventAs ==
  ASSUME Types, Frames, LookEvent
  PROVE  /\ Busy /\ Top.at \in {"await", "check"} /\ Looks
         /\ rx.kind \notin Unsolicited \union {"none", "data"} /\ rx' = NoPacket
         /\ UNCHANGED <<spi, cs, irq, pending, wifi, chip, hist>>
         /\ \/ /\ rx.kind = wait /\ wait' = "none"
               /\ Changes(Top.cmd, [cmds[Top.cmd] EXCEPT !.answer = rx.id])
               /\ Moves(IF pending THEN "await" ELSE AfterWait)
            \/ rx.kind # wait /\ Moves("await") /\ UNCHANGED <<wait, cmds>>
<1>1. Busy /\ Top.at \in {"await", "check"}
  BY DEF LookEvent, Looks, At
<1>2. Top.cmd \in 1..Len(cmds) /\ rx.id \in Nat
  BY <1>1, Working DEF Types, Packet
<1>3. AfterWait \in Places /\ "await" \in Places
  BY DEF AfterWait, Places
<1>4. cmds' = [cmds EXCEPT ![Top.cmd].answer = rx.id] =>
         Changes(Top.cmd, [cmds[Top.cmd] EXCEPT !.answer = rx.id])
  BY <1>2, ChangeOf
<1>5. QED
  BY <1>1, <1>3, <1>4, GotoMoves DEF LookEvent, Awaited

LEMMA LookDataAs ==
  ASSUME Types, Frames, LookData
  PROVE  /\ Busy /\ Top.at \in {"await", "check"} /\ Looks
         /\ rx.kind = "data" /\ rx' = NoPacket /\ pending' = FALSE
         /\ UNCHANGED <<spi, cs, irq, wait, wifi, chip, hist>>
         /\ Changes(Top.cmd, [cmds[Top.cmd] EXCEPT !.datum = rx.id])
         /\ Moves(IF wait = "none" THEN AfterWait ELSE "await")
<1>1. Busy /\ Top.at \in {"await", "check"}
  BY DEF LookData, Looks, At
<1>2. Top.cmd \in 1..Len(cmds) /\ rx.id \in Nat
  BY <1>1, Working DEF Types, Packet
<1>3. AfterWait \in Places /\ "await" \in Places
  BY DEF AfterWait, Places
<1>4. Changes(Top.cmd, [cmds[Top.cmd] EXCEPT !.datum = rx.id])
  BY <1>2, ChangeOf DEF LookData
<1>5. QED
  BY <1>1, <1>3, <1>4, GotoMoves DEF LookData

LEMMA WaitDataAs ==
  ASSUME Types, Frames, WaitData
  PROVE  /\ Busy /\ Top.at = "returned" /\ cmds[Top.cmd].op = "recv" /\ ~Top.data
         /\ cmds[Top.cmd].answer # 0 => cmds[cmds[Top.cmd].answer].owes
         /\ pending' = TRUE /\ cs' = FALSE /\ UNCHANGED <<spi, irq, wait, rx, wifi, cmds, hist>>
         /\ ChipKept /\ chip'.out = chip.out /\ chip'.todo = chip.todo /\ ~chip'.served
         /\ chip'.line = (chip.line /\ chip.out # NoPacket)
         /\ chip'.missed = (chip.missed /\ chip.out # NoPacket)
         /\ Puts([Top EXCEPT !.at = "await", !.data = TRUE])
<1>1. Busy /\ Top.at = "returned" /\ "await" \in Places
  BY DEF WaitData, At, Places
<1>2. [Top EXCEPT !.at = "await", !.data = TRUE] \in FrameType
  BY <1>1, TopIs DEF FrameType
<1>3. Puts([Top EXCEPT !.at = "await", !.data = TRUE])
  BY <1>1, <1>2, PutOf DEF WaitData, Puts, Types, Busy
<1>4. QED
  BY <1>1, <1>3, DeselectAs DEF WaitData

LEMMA EndAs ==
  ASSUME Types, End
  PROVE  /\ Busy /\ Top.at = "next" /\ (Top.ops = <<>> \/ Skipped) /\ Pops
         /\ UNCHANGED <<spi, cs, irq, wait, pending, cmds, hist>>
         /\ rx' = IF Top.call = "report" THEN NoPacket ELSE rx
         /\ IF Top.call = "disable" THEN Switched("off") ELSE chip' = chip
         /\ wifi' \in WifiType
         /\ Top.call # "irq" => ~wifi'.inuse
         /\ Top.call = "irq" => wifi' = wifi
         /\ Top.call # "enable" => wifi'.initialized = wifi.initialized
         /\ Top.call = "enable" => wifi'.initialized
<1>1. Busy /\ Top.at = "next" /\ (Top.ops = <<>> \/ Skipped) /\ Pops
  BY TailPops DEF End, At
<1>2. /\ wifi' \in WifiType
      /\ Top.call # "irq" => ~wifi'.inuse
      /\ Top.call = "irq" => wifi' = wifi
      /\ Top.call # "enable" => wifi'.initialized = wifi.initialized
      /\ Top.call = "enable" => wifi'.initialized
  BY DEF End, Types, WifiType
<1>3. QED
  BY <1>1, <1>2, SwitchAs DEF End

-----------------------------------------------------------------------------
(* The state keeps its type.                                               *)

LEMMA HandlesTypes ==
  ASSUME Types, NEW packet \in Packet, NEW place, Handles(packet, place)
  PROVE  wifi' \in WifiType /\ hist' \in HistType /\ rx' \in Packet /\ stack' \in Seq(FrameType)
<1>1. NoPacket \in Packet
  BY DEF NoPacket, Packet
<1>2. QED
  BY <1>1 DEF Handles, HistKept, Moves, Puts, Pushes

LEMMA ServesTypes ==
  ASSUME Types, NEW place, Serves(place)
  PROVE  Types'
<1>1. irq' \in IrqType /\ wait' = wait /\ pending' = pending
  BY DEF Serves, Types, IrqType
<1>2. CASE /\ spi \in {"powerup", "initialized"} /\ spi' = "initialized"
           /\ Moves(place) /\ UNCHANGED <<cs, rx, wifi, chip, cmds, hist>>
  BY <1>1, <1>2 DEF Types, Moves, Puts
<1>3. CASE /\ spi = "write_irq" /\ spi' = "idle"
           /\ ChipKept /\ chip'.out = chip.out /\ (Takes \/ Ignores)
           /\ Moves(place) /\ UNCHANGED <<cs, rx, wifi, hist>>
  BY <1>1, <1>3 DEF Types, Moves, Puts, ChipKept, Takes, Ignores, Changes
<1>4. CASE /\ spi = "idle" /\ cs' = FALSE /\ UNCHANGED <<spi, cmds>> /\ ChipKept
           /\ ReadsPacket(place)
  <2>1. NoPacket \in Packet /\ chip.out \in Packet
    BY DEF Types, ChipType, NoPacket, Packet
  <2>2. wifi' \in WifiType /\ hist' \in HistType /\ rx' \in Packet /\ stack' \in Seq(FrameType)
    BY <1>4, <2>1, HandlesTypes DEF ReadsPacket, Moves, Puts, Types
  <2>3. QED
    BY <1>1, <1>4, <2>2 DEF Types, ChipKept
<1>5. CASE /\ spi = "idle" /\ cs' = FALSE /\ UNCHANGED <<spi, cmds>> /\ ChipKept
           /\ ReadsNothing(place)
  <2>1. hist' \in HistType
    BY <1>5 DEF ReadsNothing, Types, HistType
  <2>2. QED
    BY <1>1, <1>5, <2>1 DEF Types, ChipKept, ReadsNothing, Moves, Puts
<1>6. QED
  BY <1>2, <1>3, <1>4, <1>5 DEF Serves

(* Who polls the flag, and where it goes on.                               *)
Polls(place) ==
  \/ PowerPoll /\ place = "power"
  \/ IdlePoll /\ place = "idle"
  \/ WritePoll /\ place = "written"
  \/ AwaitPoll /\ place = "check"
  \/ IrqTest /\ irq.flag /\ place = "next"

LEMMA PollAs ==
  ASSUME Types, Frames, LineInv, NEW place, Polls(place)
  PROVE  /\ Busy /\ Serves(place) /\ place \in Places
         /\ \/ place = Top.at /\ place \in {"power", "idle", "written"} /\ spi # "idle"
            \/ place = "check" /\ Top.at \in {"await", "check"} /\ Loops
            \/ place = "next" /\ Top.at = "test"
         /\ ~(irq.edge /\ irq.nvic)
<1>1. Busy /\ SpiIrq(place) /\ place \in Places /\ ~(irq.edge /\ irq.nvic)
  BY DEF Polls, PowerPoll, IdlePoll, WritePoll, AwaitPoll, IrqTest, At, Loops, Places
<1>2. QED
  BY <1>1, SpiIrqAs, SelectedTx
    DEF Polls, PowerPoll, IdlePoll, WritePoll, AwaitPoll, IrqTest, At, Loops

(* A wait that returns with nothing, or with what another frame got.       *)
Leaves ==
  /\ Moves(AfterWait) /\ hist' \in HistType
  /\ hist'.noEnd = hist.noEnd /\ hist'.blind = hist.blind
  /\ hist'.forsaken = hist.forsaken \union {Top.cmd}
  /\ UNCHANGED <<spi, cs, irq, wait, pending, rx, wifi, chip, cmds>>

LEMMA LeaveAs ==
  ASSUME Types, Frames, Busy, Top.at \in {"await", "check", "handled"},
         Goto(AfterWait), hist' = Forsake({Top.cmd}),
         UNCHANGED <<spi, cs, irq, wait, pending, rx, wifi, chip, cmds>>
  PROVE  Leaves
<1>1. Top.cmd \in Nat \ {0} /\ AfterWait \in Places
  BY Working DEF AfterWait, Places, Types
<1>2. /\ hist' \in HistType /\ hist'.noEnd = hist.noEnd /\ hist'.blind = hist.blind
      /\ hist'.forsaken = hist.forsaken \union {Top.cmd}
  BY <1>1, ForsakeAs
<1>3. QED
  BY <1>1, <1>2, GotoMoves DEF Leaves

LEMMA TimeoutAs ==
  ASSUME Types, Frames, LookTimeout
  PROVE  Busy /\ Top.at \in {"await", "check"} /\ rx = NoPacket /\ Leaves
<1>1. Busy /\ Top.at \in {"await", "check"}
  BY DEF LookTimeout, Looks, At
<1>2. QED
  BY <1>1, LeaveAs DEF LookTimeout

LEMMA HandledAs ==
  ASSUME Types, Frames, Handled
  PROVE  /\ Busy /\ Top.at = "handled"
         /\ \/ wait = "none" /\ ~pending /\ Leaves
            \/ /\ Moves("await")
               /\ UNCHANGED <<spi, cs, irq, wait, pending, rx, wifi, chip, cmds, hist>>
<1>1. Busy /\ Top.at = "handled" /\ "await" \in Places
  BY DEF Handled, At, Places
<1>2. CASE wait = "none" /\ ~pending
  BY <1>1, <1>2, LeaveAs DEF Handled
<1>3. CASE ~(wait = "none" /\ ~pending)
  BY <1>1, <1>3, GotoMoves DEF Handled
<1>4. QED
  BY <1>2, <1>3

LEMMA UnsolicitedAs ==
  ASSUME Types, Frames, LookUnsolicited
  PROVE  /\ Busy /\ Top.at \in {"await", "check"} /\ rx.kind \in Unsolicited
         /\ Handles(rx, "handled") /\ UNCHANGED <<spi, cs, irq, wait, pending, chip, cmds>>
<1>1. Busy /\ Top.at \in {"await", "check"} /\ rx \in Packet /\ "handled" \in Places
  BY DEF LookUnsolicited, Looks, At, Types, Places
<1>2. QED
  BY <1>1, HandleAs DEF LookUnsolicited

(* Steps that only move the running frame, or the interrupt.               *)
Strolls ==
  \/ Boot /\ Moves("power")
  \/ Select /\ Moves("written")
  \/ Returned /\ Moves("next")
  \/ TakeBus /\ Moves("window")
  \/ EnableIrq /\ Moves("select")

LEMMA StrollAs ==
  ASSUME Types, Boot \/ Select \/ Returned \/ TakeBus \/ EnableIrq
  PROVE  Busy /\ Strolls
<1>1. Busy
  BY DEF Boot, Select, Returned, TakeBus, EnableIrq, At
<1>2. {"power", "written", "next", "window", "select"} \subseteq Places
  BY DEF Places
<1>3. \A at \in Places : Goto(at) => Moves(at)
  BY <1>1, GotoMoves
<1>4. Boot => Goto("power")
  BY DEF Boot
<1>5. Select => Goto("written")
  BY DEF Select
<1>6. Returned => Goto("next")
  BY DEF Returned
<1>7. TakeBus => Goto("window")
  BY DEF TakeBus
<1>8. EnableIrq => Goto("select")
  BY DEF EnableIrq
<1>9. QED
  BY <1>1, <1>2, <1>3, <1>4, <1>5, <1>6, <1>7, <1>8 DEF Strolls

(* The chip asserts its line.                                              *)
Sets(out, todo) ==
  /\ chip.state = "up" /\ ~chip.line /\ ~chip.served
  /\ chip' \in ChipType /\ chip'.state = "up" /\ chip'.line
  /\ chip'.missed = chip.missed /\ ~chip'.served /\ chip'.out = out /\ chip'.todo = todo
  /\ irq' = [irq EXCEPT !.edge = TRUE]
  /\ UNCHANGED <<spi, cs, wait, pending, rx, stack, wifi, hist>>

Announces ==
  /\ chip.todo # <<>> /\ chip.out = NoPacket /\ Head(chip.todo).kind = "recv"
  /\ Sets(Head(chip.todo), <<Data(Head(chip.todo).id)>> \o Tail(chip.todo))
  /\ \/ /\ Head(chip.todo).id \in 1..Len(cmds)
        /\ Changes(Head(chip.todo).id, [cmds[Head(chip.todo).id] EXCEPT !.owes = TRUE])
     \/ Head(chip.todo).id \notin 1..Len(cmds) /\ cmds' = cmds

LEMMA ReadyAs ==
  ASSUME Types, ChipReady
  PROVE  (cs \/ chip.out # NoPacket) /\ Sets(chip.out, chip.todo) /\ cmds' = cmds
BY DEF Types, ChipType, IrqType, ChipReady, Asserts, Sets

LEMMA TellsAs ==
  ASSUME Types, NEW kind \in Unsolicited, ChipTells(kind)
  PROVE  /\ chip.out = NoPacket /\ cmds' = cmds
         /\ \E n \in Nat : Event(kind, n) \in Packet /\ Sets(Event(kind, n), chip.todo)
<1> DEFINE n == chip.unsol + 1
           ch == [chip EXCEPT !.unsol = n, !.out = Event(kind, n)]
<1>1. n \in Nat /\ Event(kind, n) \in Packet
  BY DEF Types, ChipType, Event, Packet
<1>2. Asserts(ch) /\ chip.out = NoPacket /\ cmds' = cmds
  BY DEF ChipTells
<1> HIDE DEF n
<1>3. /\ ch \in ChipType /\ ch.state = chip.state /\ ch.missed = chip.missed
      /\ ch.served = chip.served /\ ch.out = Event(kind, n) /\ ch.todo = chip.todo
  BY <1>1 DEF Types, ChipType
<1> HIDE DEF ch
<1>4. Sets(Event(kind, n), chip.todo)
  BY <1>2, <1>3 DEF Types, ChipType, Asserts, Sets
<1>5. QED
  BY <1>1, <1>2, <1>4

LEMMA AnswersAs ==
  ASSUME Types, ChipAnswers
  PROVE  \/ /\ chip.todo # <<>> /\ chip.out = NoPacket /\ cmds' = cmds
            /\ Sets(Head(chip.todo), Tail(chip.todo))
         \/ Announces
<1> DEFINE p == Head(chip.todo)
           rest == Tail(chip.todo)
           plain == [chip EXCEPT !.out = p, !.todo = rest]
           more == [chip EXCEPT !.out = p, !.todo = <<Data(p.id)>> \o rest]
<1>1. chip.todo # <<>> /\ chip.out = NoPacket
  BY DEF ChipAnswers
<1>2. p \in Packet /\ rest \in Seq(Packet) /\ Data(p.id) \in Packet
  <2>1. p \in Packet /\ rest \in Seq(Packet)
    BY <1>1 DEF Types, ChipType
  <2>2. QED
    BY <2>1 DEF Packet, Data
<1>3. <<Data(p.id)>> \o rest \in Seq(Packet)
  BY <1>2
<1>4. \/ Asserts(plain) /\ cmds' = cmds
      \/ p.kind = "recv" /\ Asserts(more) /\ cmds' = [cmds EXCEPT ![p.id].owes = TRUE]
  BY DEF ChipAnswers
<1>5. /\ plain \in ChipType /\ plain.state = chip.state /\ plain.missed = chip.missed
      /\ plain.served = chip.served /\ plain.out = p /\ plain.todo = rest
  BY <1>2 DEF Types, ChipType
<1>6. /\ more \in ChipType /\ more.state = chip.state /\ more.missed = chip.missed
      /\ more.served = chip.served /\ more.out = p /\ more.todo = <<Data(p.id)>> \o rest
  BY <1>2, <1>3 DEF Types, ChipType
<1> HIDE DEF plain, more
<1>7. CASE Asserts(plain) /\ cmds' = cmds
  BY <1>1, <1>5, <1>7 DEF Types, ChipType, Asserts, Sets
<1>8. CASE p.kind = "recv" /\ Asserts(more) /\ cmds' = [cmds EXCEPT ![p.id].owes = TRUE]
  <2>1. Sets(p, <<Data(p.id)>> \o rest)
    BY <1>6, <1>8 DEF Types, ChipType, Asserts, Sets
  <2>2. CASE p.id \in 1..Len(cmds)
    BY <1>1, <1>8, <2>1, <2>2, ChangeOf DEF Announces
  <2>3. CASE p.id \notin 1..Len(cmds)
    <3>1. cmds' = cmds
      BY <1>8, <2>3 DEF Types
    <3>2. QED
      BY <1>1, <1>8, <2>1, <2>3, <3>1 DEF Announces
  <2>4. QED
    BY <2>2, <2>3
<1>9. QED
  BY <1>4, <1>7, <1>8

LEMMA SetsTypes ==
  ASSUME Types, NEW out, NEW todo, Sets(out, todo), cmds' \in Seq(CommandType)
  PROVE  Types'
BY DEF Types, IrqType, Sets

LEMMA TypesStep ==
  ASSUME Types, Frames, LineInv, Next
  PROVE  Types'
<1>0. "none" \in Op \union {"none"} /\ NoPacket \in Packet
  BY DEF NoPacket, Packet
<1>1. ASSUME NEW call \in Calls, Begin(call) PROVE Types'
  BY <1>1, BeginAs DEF Types, Starts
<1>2. CASE IrqEvent
  BY <1>2, IrqEventAs DEF Types, Starts
<1>3. CASE IrqTest /\ ~irq.flag
  BY <1>3, TailPops DEF IrqTest, At, Types, Pops
<1>4. ASSUME NEW place, Polls(place) PROVE Types'
  BY <1>4, PollAs, ServesTypes
<1>5. CASE Command
  <2>1. wifi' \in WifiType
    BY <1>5, CommandAs DEF Types, WifiType
  <2>2. QED
    BY <1>0, <1>5, <2>1, CommandAs DEF Types, Adds, Puts, Switched
<1>6. CASE FirstWrite
  BY <1>6, Working, FirstWriteAs DEF Types, Begins, Moves, Puts, ChipKept, Changes
<1>7. CASE WriteDone \/ WriteTimeout
  BY <1>7, Working, WriteEndsAs DEF Types, Begins, Moves, Puts, ChipKept, Changes
<1>8. CASE Boot \/ Select \/ Returned \/ TakeBus \/ EnableIrq
  <2>1. stack' \in Seq(FrameType)
    BY <1>8, StrollAs DEF Strolls, Moves, Puts
  <2>2. irq' \in IrqType /\ chip' \in ChipType
    BY <1>8 DEF Types, IrqType, ChipType, Boot, Select, Returned, TakeBus, EnableIrq
  <2>3. QED
    BY <1>8, <2>1, <2>2 DEF Types, Boot, Select, Returned, TakeBus, EnableIrq
<1>9. CASE LookUnsolicited
  <2>1. rx \in Packet
    BY DEF Types
  <2>2. QED
    BY <1>9, <2>1, UnsolicitedAs, HandlesTypes DEF Types
<1>10. CASE LookEvent
  BY <1>0, <1>10, LookEventAs DEF Types, Changes, Moves, Puts
<1>11. CASE LookData
  BY <1>0, <1>11, LookDataAs DEF Types, Changes, Moves, Puts
<1>12. CASE LookTimeout
  BY <1>12, TimeoutAs DEF Types, Leaves, Moves, Puts
<1>13. CASE Handled
  BY <1>13, HandledAs DEF Types, Leaves, Moves, Puts
<1>14. CASE WaitData
  BY <1>14, WaitDataAs DEF Types, ChipKept, Puts
<1>15. CASE LookupFails
  <2>1. hist' \in HistType
    BY <1>15 DEF LookupFails, Types, HistType
  <2>2. QED
    BY <1>15, <2>1, TailPops DEF LookupFails, At, Types, Pops
<1>16. CASE End
  BY <1>0, <1>16, EndAs DEF Types, Pops, Switched
<1>17. CASE Interrupt
  BY <1>17 DEF Interrupt, Types, IrqType
<1>18. CASE ChipUp
  BY <1>18 DEF ChipUp, Types, IrqType, ChipType
<1>19. CASE ChipReady
  BY <1>19, ReadyAs, SetsTypes DEF Types
<1>20. CASE ChipAnswers
  <2>1. cmds' \in Seq(CommandType)
    BY <1>20, AnswersAs DEF Types, Announces, Changes
  <2>2. QED
    BY <1>20, <2>1, AnswersAs, SetsTypes DEF Announces
<1>21. ASSUME NEW kind \in Unsolicited, ChipTells(kind) PROVE Types'
  BY <1>21, TellsAs, SetsTypes DEF Types
<1>22. QED
  BY <1>1, <1>2, <1>3, <1>4, <1>5, <1>6, <1>7, <1>8, <1>9, <1>10, <1>11, <1>12, <1>13,
     <1>14, <1>15, <1>16, <1>17, <1>18, <1>19, <1>20, <1>21
     DEF Next, Thread, Polls

-----------------------------------------------------------------------------
(* The frames keep their order.                                            *)

LEMMA FrameKept ==
  ASSUME Types, Types', NEW f \in FrameType, NEW i \in Nat, NEW j \in Nat, FrameOK(f, i),
         i # Len(stack) <=> j # Len(stack'),
         j # 1 => i # 1 \/ f.at \in {"check", "handled"} \/ (f.call = "irq" /\ f.at = "next"),
         f.call = "report" => wifi'.initialized, f.call = "disable" => ~wifi'.initialized,
         Len(cmds) <= Len(cmds'), f.at \in Before => Len(cmds) = Len(cmds')
  PROVE  FrameOK(f, j)'
<1>1. Len(cmds) \in Nat /\ Len(cmds') \in Nat
  BY DEF Types
<1>2. f.cmd \in 0..Len(cmds) => f.cmd \in 0..Len(cmds')
  BY <1>1
<1>3. QED
  BY <1>1, <1>2 DEF FrameOK

LEMMA PutFrames ==
  ASSUME Types, Types', Frames, NEW f, Puts(f), FrameOK(f, 1)',
         Len(cmds) <= Len(cmds'), wifi'.initialized = wifi.initialized
  PROVE  Frames'
<1>1. Len(stack') = Len(stack) /\ stack'[1] = f /\ \A i \in 2..Len(stack) : stack'[i] = stack[i]
  BY DEF Puts
<1>2. ASSUME NEW i \in 2..Len(stack) PROVE FrameOK(stack[i], i)'
  <2>1. stack[i] \in FrameType /\ i \in 1..Len(stack) /\ i \in Nat
    BY DEF Types
  <2>2. FrameOK(stack[i], i)
    BY <2>1 DEF Frames
  <2>3. stack[i].at \notin Before
    BY <2>2 DEF FrameOK, Before
  <2>4. /\ stack[i].call = "report" => wifi'.initialized
        /\ stack[i].call = "disable" => ~wifi'.initialized
    BY <2>2 DEF FrameOK
  <2> DEFINE g == stack[i]
  <2> HIDE DEF g
  <2>5. FrameOK(g, i)'
    BY <1>1, <2>1, <2>2, <2>3, <2>4, FrameKept DEF g
  <2>6. stack'[i] = stack[i]
    BY <1>1
  <2>7. QED
    BY <2>5, <2>6 DEF g
<1>3. QED
  BY <1>1, <1>2 DEF Frames

LEMMA MovedFrames ==
  ASSUME Types, Types', Frames, Busy, NEW at \in Places \ {"test"}, Moves(at),
         Len(cmds') = Len(cmds), wifi'.initialized = wifi.initialized,
         Top.call = "irq" => at \in {"next", "crashed"},
         at \notin {"next", "crashed"} => Top.cmd # 0, at \in Before => Top.at \in Before
  PROVE  Frames'
<1>1. PICK f : f = [Top EXCEPT !.at = at]
  OBVIOUS
<1>2. Puts(f)
  BY <1>1 DEF Moves
<1>3. /\ f \in FrameType /\ f.call = Top.call /\ f.ops = Top.ops /\ f.cmd = Top.cmd /\ f.at = at
      /\ Len(stack') = Len(stack)
  BY <1>1, <1>2, TopFrame DEF FrameType, Puts
<1>4. FrameOK(Top, 1)
  BY TopFrame
<1>5. FrameOK(f, 1)'
  BY <1>3, <1>4 DEF FrameOK
<1>6. Len(cmds) <= Len(cmds')
  BY DEF Types
<1>7. QED
  BY <1>2, <1>5, <1>6, PutFrames

LEMMA PushedFrames ==
  ASSUME Types, Types', Frames, Busy, NEW at, Pushes(Asked, at), wifi.initialized,
         wifi'.initialized = wifi.initialized, Len(cmds') = Len(cmds),
         (at \in {"check", "handled"} /\ Top.cmd # 0) \/ (at = "next" /\ Top.call = "irq")
  PROVE  Frames'
<1>1. PICK f : f = [Top EXCEPT !.at = at]
  OBVIOUS
<1>2. /\ Len(stack') = Len(stack) + 1 /\ stack'[1] = Asked /\ stack'[2] = f
      /\ \A i \in 2..Len(stack) : stack'[i + 1] = stack[i]
      /\ Len(stack) \in Nat \ {0}
  BY <1>1, TopIs DEF Pushes
<1>3. /\ f.call = Top.call /\ f.ops = Top.ops /\ f.cmd = Top.cmd /\ f.at = at
  BY <1>1, TopFrame DEF FrameType
<1>4. FrameOK(Top, 1)
  BY TopFrame
<1>5. FrameOK(f, 2)'
  <2>1. f.call = "report" <=> 2 # Len(stack')
    <3>1. Top.call = "report" <=> 1 # Len(stack)
      BY <1>4 DEF FrameOK
    <3>2. Len(stack) \in Nat /\ Len(stack') = Len(stack) + 1
      BY <1>2
    <3>3. 2 = Len(stack') <=> 1 = Len(stack)
      <4>1. \A n, m \in Nat : m = n + 1 => (2 = m <=> 1 = n)
        OBVIOUS
      <4>2. Len(stack') \in Nat
        BY <3>2
      <4>3. QED
        BY <3>2, <4>1, <4>2, Zenon
    <3>4. QED
      BY <1>3, <3>1, <3>3
  <2>2. f.at \notin Before /\ f.at # "test"
    BY <1>3 DEF Before
  <2>3. f.call = "irq" => f.ops = <<>> /\ f.cmd = 0 /\ f.at = "next"
    BY <1>3, <1>4 DEF FrameOK
  <2>4. f.at # "next" => f.cmd # 0 /\ f.at \in {"check", "handled"}
    BY <1>3
  <2>5. f.cmd \in 0..Len(cmds') /\ (f.call # "enable" => \A k \in 1..Len(f.ops) : f.ops[k] # "start")
    BY <1>3, <1>4 DEF FrameOK
  <2>6. f.call # "disable"
    BY <1>3, <1>4 DEF FrameOK
  <2>7. QED
    BY <1>3, <2>1, <2>2, <2>3, <2>4, <2>5, <2>6 DEF FrameOK
<1>6. FrameOK(Asked, 1)'
  <2>1. PICK a : a = Asked
    OBVIOUS
  <2>2. a \in FrameType /\ a.call = "report" /\ a.at = "next" /\ a.cmd = 0
        /\ \A k \in 1..Len(a.ops) : a.ops[k] # "start"
    <3> DEFINE n == Frame("report", "next")
    <3>1. n \in FrameType /\ n.call = "report" /\ n.at = "next" /\ n.cmd = 0
      <4>1. <<>> \in Seq(Op)
        OBVIOUS
      <4>2. QED
        BY <4>1 DEF Frame, FrameType, Places
    <3> HIDE DEF n
    <3>2. Ops["report"] \in Seq(Op) /\ \A i \in 1..Len(Ops["report"]) : Ops["report"][i] # "start"
      BY OpsAssumption, CallAssumption DEF Op
    <3>3. a = [n EXCEPT !.ops = Ops["report"]]
      BY <2>1 DEF Asked, n
    <3>4. QED
      BY <3>1, <3>2, <3>3 DEF FrameType
  <2>3. FrameOK(a, 1)'
    BY <1>2, <2>2 DEF FrameOK, Before, Types
  <2>4. Asked' = Asked
    BY DEF Asked, Frame
  <2>5. QED
    BY <2>1, <2>3, <2>4
<1>7. ASSUME NEW i \in 2..Len(stack), NEW g, g = stack[i] PROVE FrameOK(g, i + 1)'
  <2>1. g \in FrameType /\ i \in 1..Len(stack) /\ i \in Nat /\ i + 1 \in Nat
    BY <1>2, <1>7 DEF Types
  <2>2. FrameOK(g, i)
    BY <1>7, <2>1 DEF Frames
  <2>3. /\ g.at \notin Before
        /\ g.call = "report" => wifi.initialized
        /\ g.call = "disable" => ~wifi.initialized
    BY <2>1, <2>2 DEF FrameOK, Before
  <2>4. i # Len(stack) <=> i + 1 # Len(stack')
    BY <1>2
  <2>5. QED
    BY <2>1, <2>2, <2>3, <2>4, FrameKept DEF Types
<1>8. ASSUME NEW j \in 1..Len(stack') PROVE FrameOK(stack[j], j)'
  <2>1. j = 1 \/ j = 2 \/ \E i \in 2..Len(stack) : j = i + 1
    <3>1. j \notin {1, 2} => j - 1 \in 2..Len(stack) /\ j = (j - 1) + 1
      BY <1>2
    <3>2. QED
      BY <3>1
  <2>2. CASE j = 1
    BY <1>2, <1>6, <2>2
  <2>3. CASE j = 2
    BY <1>2, <1>5, <2>3
  <2>4. CASE \E i \in 2..Len(stack) : j = i + 1
    <3>1. PICK i \in 2..Len(stack) : j = i + 1
      BY <2>4
    <3>2. PICK g : g = stack[i]
      OBVIOUS
    <3>3. FrameOK(g, j)' /\ stack'[j] = g
      BY <1>2, <1>7, <3>1, <3>2
    <3>4. QED
      BY <3>3
  <2>5. QED
    BY <2>1, <2>2, <2>3, <2>4
<1>9. QED
  BY <1>8 DEF Frames


LEMMA PoppedFrames ==
  ASSUME Types, Types', Frames, Busy, Pops, Len(cmds') = Len(cmds),
         wifi'.initialized = wifi.initialized
  PROVE  Frames'
<1>1. /\ Len(stack) \in Nat \ {0} /\ Len(stack') = Len(stack) - 1
      /\ \A i \in 1..(Len(stack) - 1) : stack'[i] = stack[i + 1]
  BY TopIs DEF Pops
<1>2. ASSUME NEW i \in 1..Len(stack') PROVE FrameOK(stack[i], i)'
  <2>1. PICK g : g = stack[i + 1]
    OBVIOUS
  <2>2. /\ i \in Nat /\ i + 1 \in Nat /\ i + 1 \in 1..Len(stack) /\ i + 1 # 1
        /\ stack'[i] = g /\ g \in FrameType
    BY <1>1, <2>1 DEF Types
  <2>3. FrameOK(g, i + 1)
    BY <2>1, <2>2 DEF Frames
  <2>4. /\ g.at \notin Before
        /\ g.call = "report" => wifi.initialized
        /\ g.call = "disable" => ~wifi.initialized
    BY <2>2, <2>3 DEF FrameOK, Before
  <2>5. i + 1 # Len(stack) <=> i # Len(stack')
    BY <1>1, <2>2
  <2>6. FrameOK(g, i)'
    BY <2>2, <2>3, <2>4, <2>5, FrameKept DEF Types
  <2>7. QED
    BY <2>2, <2>6
<1>3. QED
  BY <1>2 DEF Frames

LEMMA StartedFrames ==
  ASSUME Types, Types', NEW f, Starts(f), FrameOK(f, 1)'
  PROVE  Frames'
BY DEF Starts, Frames

(* The running frame works for a command, and goes on.                     *)
LEMMA WorkMoves ==
  ASSUME Types, Types', Frames, Busy, Top.at \notin {"next", "test", "crashed"},
         NEW at \in Places \ {"test"}, Moves(at), at \in Before => Top.at \in Before,
         Len(cmds') = Len(cmds), wifi'.initialized = wifi.initialized
  PROVE  Frames'
<1>1. Top.cmd # 0
  BY Working
<1>2. Top.call # "irq"
  <2>1. FrameOK(Top, 1)
    BY TopFrame
  <2>2. QED
    BY <1>1, <2>1 DEF FrameOK
<1>3. QED
  BY <1>1, <1>2, MovedFrames

LEMMA ServesFrames ==
  ASSUME Types, Types', Frames, LineInv, NEW place, Polls(place)
  PROVE  Frames'
<1>1. /\ Busy /\ Serves(place) /\ place \in Places
      /\ \/ place = Top.at /\ place \in {"power", "idle", "written"} /\ spi # "idle"
         \/ place = "check" /\ Top.at \in {"await", "check"}
         \/ place = "next" /\ Top.at = "test"
  BY PollAs
<1>2. Len(cmds') = Len(cmds)
  BY <1>1 DEF Serves, Takes, Ignores, Changes
<1>3. /\ Top.call = "irq" => place = "next"
      /\ place # "next" => Top.cmd # 0
      /\ place \in Before => Top.at \in Before
      /\ place = "next" => Top.call = "irq"
  <2>1. FrameOK(Top, 1)
    BY <1>1, TopFrame
  <2>2. QED
    BY <1>1, <2>1 DEF FrameOK, Before
<1>4. Moves(place) /\ wifi'.initialized = wifi.initialized => Frames'
  BY <1>1, <1>2, <1>3, MovedFrames
<1>5. Moves("crashed") /\ wifi'.initialized = wifi.initialized => Frames'
  BY <1>1, <1>2, MovedFrames DEF Places, Before
<1>6. wifi'.initialized = wifi.initialized
      /\ (Moves(place) \/ Moves("crashed") \/ (spi = "idle" /\ wifi.initialized /\ Pushes(Asked, place)))
  BY <1>1 DEF Serves, ReadsPacket, ReadsNothing, Handles
<1>7. spi = "idle" /\ wifi.initialized /\ Pushes(Asked, place) => Frames'
  BY <1>1, <1>2, <1>3, <1>6, PushedFrames
<1>8. QED
  BY <1>4, <1>5, <1>6, <1>7

LEMMA FramesStep ==
  ASSUME Types, Types', Frames, LineInv, Next
  PROVE  Frames'
<1>1. ASSUME NEW call \in Calls, Begin(call) PROVE Frames'
  <2>1. PICK f : f = Called(call)
    OBVIOUS
  <2>2. /\ f.call = call /\ f.ops = Ops[call] /\ f.at = "next" /\ f.cmd = 0
        /\ call \notin {"irq", "report"}
    BY <2>1, CallAssumption DEF Called, Frame
  <2>3. f.call # "enable" => \A k \in 1..Len(f.ops) : f.ops[k] # "start"
    BY <2>2, OpsAssumption, CallAssumption
  <2>4. Len(stack') = 1 /\ Starts(f)
    BY <1>1, <2>1, BeginAs DEF Starts
  <2>5. 0 \in 0..Len(cmds')
    BY DEF Types
  <2>6. f.call = "disable" => ~wifi'.initialized
    BY <1>1, <2>2, BeginAs
  <2>7. FrameOK(f, 1)'
    BY <2>2, <2>3, <2>4, <2>5, <2>6 DEF FrameOK, Before
  <2>8. QED
    BY <2>4, <2>7, StartedFrames
<1>2. CASE IrqEvent
  <2>1. PICK f : f = Frame("irq", "test")
    OBVIOUS
  <2>2. /\ f.call = "irq" /\ f.ops = <<>> /\ f.at = "test" /\ f.cmd = 0
    BY <2>1 DEF Frame
  <2>3. Len(stack') = 1 /\ Starts(f) /\ 0 \in 0..Len(cmds')
    BY <1>2, <2>1, IrqEventAs DEF Starts, Types
  <2>4. FrameOK(f, 1)'
    BY <2>2, <2>3 DEF FrameOK, Before
  <2>5. QED
    BY <2>3, <2>4, StartedFrames
<1>3. CASE IrqTest /\ ~irq.flag
  BY <1>3, TailPops, PoppedFrames DEF IrqTest, At
<1>4. ASSUME NEW place, Polls(place) PROVE Frames'
  BY <1>4, ServesFrames
<1>5. CASE Command
  <2>1. PICK f : f = stack'[1]
    OBVIOUS
  <2>2. /\ Puts(f) /\ f.call = Top.call /\ f.ops = Tail(Top.ops) /\ f.cmd = Len(cmds')
        /\ f.at \in {"boot", "power", "idle"} /\ Top.ops # <<>>
        /\ Len(cmds') = Len(cmds) + 1 /\ Len(stack') = Len(stack) /\ Busy
        /\ wifi'.initialized = wifi.initialized
    BY <1>5, <2>1, CommandAs DEF Adds, Puts, Types, WifiType
  <2>3. FrameOK(Top, 1) /\ Top \in FrameType
    BY <2>2, TopFrame
  <2>4. f.call # "enable" => \A k \in 1..Len(f.ops) : f.ops[k] # "start"
    <3>1. SUFFICES ASSUME f.call # "enable", NEW k \in 1..Len(f.ops) PROVE f.ops[k] # "start"
      OBVIOUS
    <3>2. Top.ops \in Seq(Op) /\ k + 1 \in 1..Len(Top.ops) /\ f.ops[k] = Top.ops[k + 1]
      BY <2>2, <2>3, PopOf DEF FrameType
    <3>3. QED
      BY <2>2, <2>3, <3>1, <3>2 DEF FrameOK
  <2>5. /\ f.call # "irq" /\ (f.call = "report" <=> 1 # Len(stack'))
        /\ f.call = "report" => wifi'.initialized
        /\ f.call = "disable" => ~wifi'.initialized
    BY <2>2, <2>3 DEF FrameOK
  <2>6. Len(cmds') \in 0..Len(cmds') /\ Len(cmds') # 0 /\ Len(cmds) <= Len(cmds')
    BY <2>2 DEF Types
  <2>7. FrameOK(f, 1)'
    BY <2>2, <2>4, <2>5, <2>6 DEF FrameOK
  <2>8. QED
    BY <2>2, <2>6, <2>7, PutFrames
<1>6. CASE FirstWrite \/ WriteDone \/ WriteTimeout
  <2>1. /\ Busy /\ Top.at \in {"power", "written"} /\ Moves("await")
        /\ Len(cmds') = Len(cmds) /\ wifi' = wifi
    BY <1>6, FirstWriteAs, WriteEndsAs DEF Begins, Changes
  <2>2. QED
    BY <2>1, WorkMoves DEF Places, Before
<1>7. ASSUME Boot \/ Select \/ TakeBus \/ EnableIrq \/ Returned
      PROVE  Frames'
  <2>1. PICK at \in {"power", "written", "window", "select", "next"} :
           /\ Moves(at) /\ Busy /\ Top.at \in {"boot", "idle", "window", "select", "returned"}
           /\ at = "next" <=> Top.at = "returned"
    BY <1>7, StrollAs DEF Strolls, Boot, Select, Returned, TakeBus, EnableIrq, At
  <2>2. wifi' = wifi /\ cmds' = cmds
    BY <1>7 DEF Boot, Select, Returned, TakeBus, EnableIrq
  <2>3. QED
    BY <2>1, <2>2, WorkMoves DEF Places, Before
<1>8. CASE LookUnsolicited
  <2>1. /\ Busy /\ Top.at \in {"await", "check"} /\ Handles(rx, "handled") /\ cmds' = cmds
    BY <1>8, UnsolicitedAs
  <2>2. Top.cmd # 0 /\ wifi'.initialized = wifi.initialized
    BY <2>1, Working DEF Handles
  <2>3. \/ \E at \in {"handled", "crashed"} : Moves(at)
        \/ wifi.initialized /\ Pushes(Asked, "handled")
    BY <2>1 DEF Handles
  <2>4. QED
    BY <2>1, <2>2, <2>3, WorkMoves, PushedFrames DEF Places, Before
<1>9. CASE LookEvent \/ LookData \/ LookTimeout \/ Handled
  <2>1. \A at \in {AfterWait, "await"} : at \in Places \ {"test"} /\ at \notin Before
    BY DEF AfterWait, Places, Before
  <2>2. Busy /\ Top.at \in {"await", "check", "handled"} /\ wifi' = wifi /\ Len(cmds') = Len(cmds)
    BY <1>9, LookEventAs, LookDataAs, TimeoutAs, HandledAs DEF Leaves, Changes
  <2>3. \E at \in {AfterWait, "await"} : Moves(at)
    BY <1>9, LookEventAs, LookDataAs, TimeoutAs, HandledAs DEF Leaves
  <2>4. PICK at \in {AfterWait, "await"} : Moves(at)
    BY <2>3
  <2>5. QED
    BY <2>1, <2>2, <2>4, WorkMoves
<1>10. CASE WaitData
  <2>1. PICK f : f = [Top EXCEPT !.at = "await", !.data = TRUE]
    OBVIOUS
  <2>2. Puts(f) /\ Busy /\ Top.at = "returned" /\ UNCHANGED <<cmds, wifi>>
    BY <1>10, <2>1, WaitDataAs
  <2>3. f.call = Top.call /\ f.ops = Top.ops /\ f.cmd = Top.cmd /\ f.at = "await"
    BY <2>1, <2>2, TopFrame DEF FrameType
  <2>4. FrameOK(Top, 1) /\ Len(stack') = Len(stack)
    BY <2>2, TopFrame DEF Puts
  <2>5. FrameOK(f, 1)'
    BY <2>2, <2>3, <2>4 DEF FrameOK, Before
  <2>6. QED
    BY <2>2, <2>5, PutFrames DEF Types
<1>11. CASE LookupFails
  BY <1>11, TailPops, PoppedFrames DEF LookupFails, At
<1>12. CASE End
  <2>1. Busy /\ Pops /\ Len(cmds') = Len(cmds)
    BY <1>12, EndAs
  <2>2. CASE Top.call = "enable"
    <3>1. FrameOK(Top, 1)
      BY <2>1, TopFrame
    <3>2. Len(stack) = 1
      BY <2>2, <3>1 DEF FrameOK
    <3>3. Len(stack') = 0
      BY <2>1, <3>2 DEF Pops
    <3>4. QED
      BY <3>3 DEF Frames
  <2>3. CASE Top.call # "enable"
    BY <1>12, <2>1, <2>3, EndAs, PoppedFrames
  <2>4. QED
    BY <2>2, <2>3
<1>13. CASE UNCHANGED <<stack, wifi>> /\ Len(cmds') = Len(cmds)
  BY <1>13 DEF Frames, FrameOK
<1>14. CASE Interrupt \/ ChipUp
  BY <1>13, <1>14 DEF Interrupt, ChipUp
<1>15. CASE ChipReady
  BY <1>13, <1>15, ReadyAs DEF Sets
<1>16. CASE ChipAnswers
  BY <1>13, <1>16, AnswersAs DEF Sets, Announces, Changes
<1>17. ASSUME NEW kind \in Unsolicited, ChipTells(kind) PROVE Frames'
  BY <1>13, <1>17, TellsAs DEF Sets
<1>18. QED
  BY <1>1, <1>2, <1>3, <1>4, <1>5, <1>6, <1>7, <1>8, <1>9,
     <1>10, <1>11, <1>12, <1>14, <1>15, <1>16, <1>17
     DEF Next, Thread, Polls

-----------------------------------------------------------------------------
(* The chip is off, starting or started, and its line is seen.             *)

(* What frames the running one can be while the chip is off.               *)
LEMMA OffTop ==
  ASSUME Types, Frames, Off, Busy
  PROVE  /\ Top.at \in {"test", "next", "crashed"} /\ Top.call \notin {"report", "disable"}
         /\ Top.ops # <<>> => Top.at = "next" /\ Top.call = "enable" /\ Head(Top.ops) = "start"
         /\ Len(stack) = 1
<1>1. FrameOK(Top, 1)
  BY TopFrame
<1>2. CASE Top.call = "irq"
  BY <1>1, <1>2 DEF FrameOK
<1>3. CASE Top = Called("enable")
  <2>1. Top.call = "enable" /\ Top.at = "next" /\ Top.ops = Ops["enable"]
    BY <1>3 DEF Called, Frame
  <2>2. "enable" \in Calls
    <3>1. Top \in FrameType
      BY TopFrame
    <3>2. QED
      BY <2>1, <3>1 DEF FrameType
  <2>3. Ops["enable"] # <<>> => Head(Ops["enable"]) = "start"
    BY <2>2, CallAssumption, OpsAssumption
  <2>4. QED
    BY <1>1, <2>1, <2>3 DEF FrameOK
<1>4. QED
  BY <1>2, <1>3 DEF Off

LEMMA MovesTop ==
  ASSUME Types, Types', NEW at, Moves(at)
  PROVE  /\ Busy /\ Busy' /\ Len(stack') = Len(stack) /\ Top' = [Top EXCEPT !.at = at]
         /\ Top'.at = at /\ Top'.call = Top.call /\ Top'.cmd = Top.cmd /\ Top'.data = Top.data
<1>1. Busy /\ Len(stack') = Len(stack) /\ stack'[1] = [Top EXCEPT !.at = at]
  BY DEF Moves, Puts, Busy
<1>2. Top \in FrameType /\ Len(stack) \in Nat \ {0}
  BY <1>1, TopIs
<1>3. Busy'
  BY <1>1, <1>2 DEF Busy
<1>4. Top' = stack'[1]
  BY <1>3 DEF Types, Busy, Top
<1>5. QED
  BY <1>1, <1>2, <1>3, <1>4 DEF FrameType

(* A handler that is served leaves the chip in its phase.                  *)
LEMMA ServesPhase ==
  ASSUME Types, Types', Frames, LineInv, Phase, NEW place, Polls(place)
  PROVE  Phase'
<1>1. /\ Busy /\ Serves(place) /\ place \in Places
      /\ \/ place = Top.at /\ place \in {"power", "idle", "written"} /\ spi # "idle"
         \/ place = "check" /\ Top.at \in {"await", "check"}
         \/ place = "next" /\ Top.at = "test"
      /\ ~(irq.edge /\ irq.nvic)
  BY PollAs
<1>2. FrameOK(Top, 1)
  BY <1>1, TopFrame
<1>3. CASE Off
  <2>1. Top.at = "test" /\ place = "next" /\ Top.call = "irq"
    BY <1>1, <1>2, <1>3, OffTop DEF FrameOK
  <2>2. /\ Moves(place) /\ wifi' = wifi
        /\ chip'.state = "off" /\ ~chip'.line /\ chip'.out = NoPacket /\ chip'.todo = <<>>
    BY <1>1, <1>3 DEF Off, Serves, Takes, Ignores, ChipKept, ReadsPacket, ReadsNothing
  <2>3. Top'.call = "irq"
    BY <2>1, <2>2, MovesTop
  <2>4. QED
    BY <1>3, <2>2, <2>3 DEF Off, Phase
<1>4. CASE Starting
  <2>1. Top.at = "power" /\ place = "power"
    BY <1>1, <1>4 DEF Starting
  <2>2. /\ Moves(place) /\ spi' = "initialized" /\ chip' = chip /\ irq' = [irq EXCEPT !.flag = FALSE]
    BY <1>1, <1>4 DEF Starting, Serves
  <2>3. irq.nvic
    BY <2>1 DEF LineInv
  <2>4. ~irq'.flag /\ ~irq'.edge
    BY <1>1, <2>2, <2>3 DEF Types, IrqType
  <2>5. Busy' /\ Top'.at = "power"
    BY <2>1, <2>2, MovesTop
  <2>6. chip.state # "booting" /\ chip'.state = chip.state /\ chip'.line = chip.line
    BY <1>4, <2>1, <2>2 DEF Starting
  <2>7. Starting'
    BY <1>4, <2>2, <2>4, <2>5, <2>6 DEF Starting
  <2>8. QED
    BY <2>7 DEF Phase
<1>5. CASE Started
  <2>1. chip'.state = "up" /\ spi' \in {"idle", "write_irq"}
    BY <1>1, <1>5 DEF Started, Serves, ChipKept
  <2>2. place \notin {"boot", "power"}
    BY <1>1, <1>5 DEF Started
  <2>3. Moves(place) \/ Moves("crashed") \/ Pushes(Asked, place)
    BY <1>1 DEF Serves, ReadsPacket, ReadsNothing, Handles
  <2>4. Pushes(Asked, place) => Top'.at = "next"
    BY DEF Pushes, Asked, Frame, Top, Types
  <2>5. Top'.at \notin {"boot", "power"}
    BY <2>2, <2>3, <2>4, MovesTop
  <2>6. QED
    BY <2>1, <2>5 DEF Started, Phase
<1>6. QED
  BY <1>3, <1>4, <1>5 DEF Phase

LEMMA PopsTop ==
  ASSUME Types, Types', Frames, Busy, Pops, Busy'
  PROVE  Top'.at \in {"check", "handled", "next"} /\ Len(stack) >= 2
<1>1. /\ Len(stack) \in Nat \ {0} /\ Len(stack') = Len(stack) - 1
      /\ \A i \in 1..(Len(stack) - 1) : stack'[i] = stack[i + 1]
  BY TopIs DEF Pops
<1>2. Len(stack') \in Nat \ {0} /\ Top' = stack'[1]
  BY DEF Types, Busy, Top
<1>3. 2 \in 1..Len(stack) /\ Top' = stack[2]
  BY <1>1, <1>2
<1>4. FrameOK(stack[2], 2)
  BY <1>3 DEF Frames
<1>5. QED
  BY <1>1, <1>3, <1>4 DEF FrameOK

LEMMA StartsTop ==
  ASSUME Types', NEW f, Starts(f)
  PROVE  Busy' /\ Top' = f
<1>1. stack' \in Seq(FrameType) /\ Len(stack') = 1 /\ stack'[1] = f
  BY DEF Starts
<1>2. stack' # <<>>
  BY <1>1
<1>3. QED
  BY <1>1, <1>2 DEF Busy, Top

LEMMA PhaseStep ==
  ASSUME Types, Types', Frames, LineInv, Phase, Next
  PROVE  Phase'
<1>1. ASSUME NEW call \in Calls, Begin(call) PROVE Phase'
  <2>1. /\ ~Busy /\ Starts(Called(call)) /\ UNCHANGED <<spi, irq, chip>>
        /\ call # "enable" => wifi.initialized
        /\ wifi'.initialized = (wifi.initialized /\ call \notin {"enable", "disable"})
    BY <1>1, BeginAs DEF Starts, Busy
  <2>2. Busy' /\ Top' = Called(call)
    BY <2>1, StartsTop
  <2>3. CASE Off
    <3>1. call = "enable" /\ ~wifi'.initialized
      BY <2>1, <2>3 DEF Off
    <3>2. Top' = Called("enable")'
      BY <2>2, <3>1 DEF Called, Frame
    <3>3. QED
      BY <2>1, <2>3, <3>1, <3>2 DEF Off, Phase
  <2>4. CASE Started
    BY <2>1, <2>2, <2>4 DEF Started, Phase, Called, Frame
  <2>5. QED
    BY <2>1, <2>3, <2>4 DEF Phase, Starting
<1>2. CASE IrqEvent
  <2>1. /\ ~Busy /\ Starts(Frame("irq", "test")) /\ UNCHANGED <<spi, wifi, chip>>
    BY <1>2, IrqEventAs DEF Starts, Busy
  <2>2. Busy' /\ Top'.call = "irq" /\ Top'.at = "test"
    BY <2>1, StartsTop DEF Frame
  <2>3. QED
    BY <2>1, <2>2 DEF Phase, Off, Starting, Started
<1>3. ASSUME Busy, Pops, UNCHANGED <<spi, wifi, chip>>, Top.at \notin {"boot", "power"}
      PROVE  Phase'
  <2>1. Off => ~Busy'
    <3>1. SUFFICES ASSUME Off, Busy' PROVE FALSE
      OBVIOUS
    <3>2. Len(stack) = 1
      BY <1>3, <3>1, OffTop
    <3>3. Len(stack) >= 2
      BY <1>3, <3>1, PopsTop
    <3>4. QED
      BY <3>2, <3>3
  <2>2. Busy' => Top'.at \notin {"boot", "power"}
    BY <1>3, PopsTop
  <2>3. QED
    BY <1>3, <2>1, <2>2 DEF Phase, Off, Starting, Started
<1>4. CASE (IrqTest /\ ~irq.flag) \/ LookupFails
  BY <1>3, <1>4, TailPops DEF IrqTest, LookupFails, At
<1>5. ASSUME NEW place, Polls(place) PROVE Phase'
  BY <1>5, ServesPhase
<1>6. CASE Command
  <2>1. /\ Busy /\ Top.at = "next" /\ Top.ops # <<>> /\ wifi'.initialized = wifi.initialized
        /\ Puts(stack'[1])
        /\ \/ /\ Head(Top.ops) = "start" /\ stack'[1].at = "boot"
              /\ spi' = "powerup" /\ Switched("booting")
           \/ /\ Head(Top.ops) # "start"
              /\ stack'[1].at = IF spi \in {"powerup", "initialized"} THEN "power" ELSE "idle"
              /\ UNCHANGED <<spi, chip>>
    BY <1>6, CommandAs DEF Types, WifiType
  <2>2. Busy' /\ Top' = stack'[1]
    BY <2>1, TopIs DEF Puts, Busy, Top, Types
  <2>3. CASE Head(Top.ops) = "start"
    BY <2>1, <2>2, <2>3 DEF Phase, Starting, Switched
  <2>4. CASE Head(Top.ops) # "start"
    <3>1. Started
      BY <2>1, <2>4, OffTop DEF Phase, Starting
    <3>2. QED
      BY <2>1, <2>2, <2>4, <3>1 DEF Phase, Started
  <2>5. QED
    BY <2>3, <2>4
<1>7. CASE Boot
  <2>1. Busy /\ Top.at = "boot" /\ Moves("power") /\ chip.line /\ UNCHANGED <<spi, irq, wifi, chip>>
    <3>1. Busy /\ Top.at = "boot" /\ Goto("power") /\ chip.line /\ UNCHANGED <<spi, irq, wifi, chip>>
      BY <1>7 DEF Boot, At
    <3>2. QED
      BY <3>1, GotoMoves DEF Places
  <2>2. Starting
    BY <2>1, OffTop DEF Phase, Started
  <2>3. Busy' /\ Top'.at = "power"
    BY <2>1, MovesTop
  <2>4. QED
    BY <2>1, <2>2, <2>3 DEF Phase, Starting
<1>8. CASE FirstWrite
  <2>1. /\ Busy /\ Top.at = "power" /\ Moves("await") /\ spi' = "idle" /\ chip'.state = chip.state
    BY <1>8, FirstWriteAs DEF Begins, ChipKept
  <2>2. Starting
    BY <2>1, OffTop DEF Phase, Started
  <2>3. Busy' /\ Top'.at = "await"
    BY <2>1, MovesTop
  <2>4. QED
    BY <2>1, <2>2, <2>3 DEF Phase, Starting, Started
<1>9. ASSUME Busy, Top.at \notin {"boot", "power", "next", "test", "crashed"},
             chip'.state = chip.state, spi' \in {spi, "write_irq"},
             Busy' => Top'.at \notin {"boot", "power"}
      PROVE  Phase'
  <2>1. Started
    BY <1>9, OffTop DEF Phase, Starting
  <2>2. QED
    BY <1>9, <2>1 DEF Phase, Started
<1>10. CASE WriteDone \/ WriteTimeout
  <2>1. Busy /\ Top.at = "written" /\ Moves("await") /\ chip'.state = chip.state /\ spi' = spi
    BY <1>10, WriteEndsAs DEF Begins, ChipKept
  <2>2. Top'.at = "await"
    BY <2>1, MovesTop
  <2>3. QED
    BY <1>9, <2>1, <2>2
<1>11. CASE Select \/ Returned \/ TakeBus \/ EnableIrq
  <2>1. PICK at \in {"written", "window", "select", "next"} :
           Moves(at) /\ Top.at \in {"idle", "window", "select", "returned"}
    BY <1>11, StrollAs DEF Strolls, Boot, Select, Returned, TakeBus, EnableIrq, At
  <2>2. chip'.state = chip.state /\ spi' \in {spi, "write_irq"}
    BY <1>11 DEF Select, Returned, TakeBus, EnableIrq, Types, ChipType
  <2>3. QED
    BY <1>9, <2>1, <2>2, MovesTop
<1>12. CASE LookUnsolicited
  <2>1. Busy /\ Top.at \in {"await", "check"} /\ Handles(rx, "handled") /\ UNCHANGED <<spi, chip>>
    BY <1>12, UnsolicitedAs
  <2>2. Pushes(Asked, "handled") => Top'.at = "next"
    BY DEF Pushes, Asked, Frame, Top, Types
  <2>3. Top'.at \notin {"boot", "power"}
    BY <2>1, <2>2, MovesTop DEF Handles
  <2>4. QED
    BY <1>9, <2>1, <2>3
<1>13. CASE LookEvent \/ LookData \/ LookTimeout \/ Handled
  <2>1. /\ Busy /\ Top.at \in {"await", "check", "handled"} /\ UNCHANGED <<spi, chip>>
        /\ \E at \in {AfterWait, "await"} : Moves(at)
    BY <1>13, LookEventAs, LookDataAs, TimeoutAs, HandledAs DEF Leaves
  <2>2. Top'.at \notin {"boot", "power"}
    BY <2>1, MovesTop DEF AfterWait
  <2>3. QED
    BY <1>9, <2>1, <2>2
<1>14. CASE WaitData
  <2>1. Busy /\ Top.at = "returned" /\ chip'.state = chip.state /\ spi' = spi
        /\ Puts([Top EXCEPT !.at = "await", !.data = TRUE])
    BY <1>14, WaitDataAs DEF ChipKept
  <2>2. Top'.at = "await"
    <3>1. Top \in FrameType /\ Top' = [Top EXCEPT !.at = "await", !.data = TRUE]
      BY <2>1, TopIs DEF Puts, Top, Types
    <3>2. QED
      BY <3>1 DEF FrameType
  <2>3. QED
    BY <1>9, <2>1, <2>2
<1>15. CASE End
  <2>1. Busy /\ Top.at = "next" /\ (Top.ops = <<>> \/ Skipped) /\ Pops /\ UNCHANGED <<spi, irq>>
    BY <1>15, EndAs
  <2>2. FrameOK(Top, 1)
    BY <2>1, TopFrame
  <2>3. CASE Top.call = "disable"
    <3>1. Len(stack) = 1 /\ ~wifi.initialized
      BY <2>2, <2>3 DEF FrameOK
    <3>2. ~Busy'
      BY <2>1, <3>1, PopsTop
    <3>3. Switched("off") /\ wifi'.initialized = wifi.initialized
      BY <1>15, <2>3, EndAs
    <3>4. QED
      BY <3>1, <3>2, <3>3 DEF Phase, Off, Switched
  <2>4. CASE Off /\ Top.call # "disable"
    <3>1. Top.call = "irq"
      <4>1. Top.call # "report"
        BY <2>1, <2>4, OffTop
      <4>2. Top.ops = <<>>
        BY <2>1, <4>1 DEF Skipped
      <4>3. Top # Called("enable")
        BY <4>2, OpsAssumption, CallAssumption, TopIs, <2>1 DEF Called, Frame, FrameType
      <4>4. QED
        BY <2>1, <2>4, <4>3 DEF Off
    <3>2. wifi' = wifi /\ chip' = chip
      BY <1>15, <2>4, <3>1, EndAs
    <3>3. QED
      BY <1>3, <2>1, <3>2
  <2>5. CASE Started /\ Top.call # "disable"
    <3>1. chip' = chip
      BY <1>15, <2>5, EndAs
    <3>2. Busy' => Top'.at \notin {"boot", "power"}
      BY <2>1, PopsTop
    <3>3. QED
      BY <2>1, <2>5, <3>1, <3>2 DEF Phase, Started
  <2>6. QED
    BY <2>1, <2>3, <2>4, <2>5 DEF Phase, Starting
<1>16. CASE Interrupt
  <2>1. UNCHANGED <<spi, stack, wifi, chip>> /\ irq.edge
    BY <1>16 DEF Interrupt
  <2>2. QED
    BY <2>1 DEF Phase, Off, Starting, Started, Busy, Top, Called, Frame
<1>17. CASE ChipUp
  <2>1. UNCHANGED <<spi, stack, wifi>> /\ chip.state = "booting"
    BY <1>17 DEF ChipUp
  <2>2. /\ chip'.state = "up" /\ chip'.line /\ chip'.out = chip.out /\ chip'.todo = chip.todo
    BY <1>17 DEF ChipUp, Types, ChipType
  <2>3. QED
    BY <2>1, <2>2 DEF Phase, Off, Starting, Started, Busy, Top
<1>18. ASSUME NEW out, NEW todo, Sets(out, todo), Starting => FALSE PROVE Phase'
  BY <1>18 DEF Phase, Off, Started, Sets, Busy, Top
<1>19. CASE ChipReady
  <2>1. Starting => FALSE
    BY <1>19, ReadyAs DEF Starting, LineInv
  <2>2. QED
    BY <1>18, <1>19, <2>1, ReadyAs
<1>20. CASE ChipAnswers
  <2>1. Starting => FALSE
    BY <1>20 DEF Starting, ChipAnswers
  <2>2. QED
    BY <1>18, <1>20, <2>1, AnswersAs DEF Announces
<1>21. ASSUME NEW kind \in Unsolicited, ChipTells(kind) PROVE Phase'
  <2>1. Starting => FALSE
    BY <1>21, TellsAs DEF Starting, Sets
  <2>2. QED
    BY <1>18, <1>21, <2>1, TellsAs
<1>22. QED
  BY <1>1, <1>2, <1>4, <1>5, <1>6, <1>7, <1>8, <1>10, <1>11, <1>12, <1>13,
     <1>14, <1>15, <1>16, <1>17, <1>19, <1>20, <1>21
     DEF Next, Thread, Polls

-----------------------------------------------------------------------------
(* The invariant of the line and the chip select.                          *)

LEMMA OwedIsPacket ==
  ASSUME Types, NEW c \in 1..Len(cmds), \A k \in 1..Len(chip.todo) : chip.todo[k] # NoPacket,
         chip'.todo = Append(chip.todo, Owed(c))
  PROVE  \A k \in 1..Len(chip'.todo) : chip'.todo[k] # NoPacket
<1>1. Owed(c) # NoPacket /\ Owed(c) \in Packet
  <2>1. Owed(c) \in Packet /\ Owed(c).kind = cmds[c].op /\ cmds[c] \in CommandType
    BY OwedIs DEF Types
  <2>2. Owed(c).kind # "none"
    BY <2>1 DEF CommandType, Op
  <2>3. QED
    BY <2>1, <2>2 DEF NoPacket
<1> DEFINE p == Owed(c)
<1>2. p # NoPacket /\ p \in Packet /\ chip'.todo = Append(chip.todo, p) /\ chip.todo \in Seq(Packet)
  BY <1>1 DEF Types, ChipType
<1> HIDE DEF p
<1>3. QED
  BY <1>2

LEMMA ServesLine ==
  ASSUME Types, Types', Frames, LineInv, Phase, NEW place, Polls(place)
  PROVE  LineInv'
<1>1. /\ Busy /\ Serves(place) /\ place \in Places
      /\ \/ place = Top.at /\ place \in {"power", "idle", "written"} /\ spi # "idle"
         \/ place = "check" /\ Top.at \in {"await", "check"}
         \/ place = "next" /\ Top.at = "test"
      /\ ~(irq.edge /\ irq.nvic)
  BY PollAs
<1>2. irq.nvic /\ ~irq.edge
  BY <1>1 DEF LineInv
<1>3. irq'.nvic /\ ~irq'.edge /\ ~irq'.flag
  BY <1>1, <1>2 DEF Serves, Types, IrqType
<1>4. /\ Moves(place) \/ Moves("crashed") \/ Pushes(Asked, place)
      /\ spi # "idle" => Moves(place)
      /\ spi = "idle" => ~cs'
      /\ cs' => cs
  BY <1>1 DEF Serves, ReadsPacket, ReadsNothing, Handles
<1>5. Pushes(Asked, place) => Top'.at = "next"
  BY DEF Pushes, Asked, Frame, Top, Types
<1>6. Top'.at \notin {"window", "select"}
  BY <1>1, <1>4, <1>5, MovesTop
<1>7. cs' => Busy' /\ Top'.at = "written"
  BY <1>1, <1>4, MovesTop DEF LineInv
<1>8. cs' /\ spi' = "idle" => chip'.served
  <2>1. SUFFICES ASSUME cs', spi' = "idle" PROVE chip'.served
    OBVIOUS
  <2>2. cs /\ Busy /\ Top.at = "written" /\ spi = "write_irq"
    BY <1>1, <1>4, <2>1 DEF LineInv, Serves
  <2>3. chip.state = "up"
    BY <2>2, OffTop DEF Phase, Starting, Started
  <2>4. QED
    BY <1>1, <2>2, <2>3 DEF Serves, Takes, Ignores
<1>9. \A k \in 1..Len(chip'.todo) : chip'.todo[k] # NoPacket
  <2>1. CASE chip'.todo = chip.todo
    BY <2>1 DEF LineInv
  <2>2. CASE Takes
    <3>1. Tx \in 1..Len(cmds)
      BY <2>2 DEF Takes, Types, Tx
    <3>2. QED
      BY <2>2, <3>1, OwedIsPacket DEF Takes, LineInv
  <2>3. QED
    BY <1>1, <2>1, <2>2 DEF Serves, Ignores, ReadsPacket, ReadsNothing
<1>10. QED
  BY <1>3, <1>6, <1>7, <1>8, <1>9 DEF LineInv

(* The chip and its line stay as they are, or only let go.                 *)
LEMMA QuietLine ==
  ASSUME Types, Types', LineInv, irq.nvic, irq'.nvic,
         irq'.flag => irq.flag, irq'.edge => irq.edge,
         ~cs', spi' = spi, chip'.state = "up" => chip.state = "up", chip'.out = chip.out \/ chip'.state # "up",
         chip'.todo \in {chip.todo, <<>>}, Busy' => Top'.at \notin {"window", "select"}
  PROVE  LineInv'
BY DEF LineInv

LEMMA LineStep ==
  ASSUME Types, Types', Frames, LineInv, Phase, Next
  PROVE  LineInv'
<1>1. ASSUME NEW call \in Calls, Begin(call) PROVE LineInv'
  <2>1. Busy' /\ Top'.at = "next" /\ ~Busy /\ UNCHANGED <<spi, cs, irq, chip>>
    <3>1. Starts(Called(call)) /\ UNCHANGED <<spi, cs, irq, chip>>
      BY <1>1, BeginAs
    <3>2. Called(call).at = "next"
      BY DEF Called, Frame
    <3>3. QED
      BY <3>1, <3>2, StartsTop DEF Starts, Busy
  <2>2. QED
    BY <2>1, QuietLine DEF LineInv
<1>2. CASE IrqEvent
  <2>1. /\ Busy' /\ Top'.at = "test" /\ ~Busy /\ UNCHANGED <<spi, cs, chip>>
        /\ irq' = [irq EXCEPT !.enabled = FALSE]
    BY <1>2, IrqEventAs, StartsTop DEF Starts, Frame, Busy
  <2>2. irq'.nvic = irq.nvic /\ irq'.flag = irq.flag /\ irq'.edge = irq.edge
    BY <2>1 DEF Types, IrqType
  <2>3. QED
    BY <2>1, <2>2, QuietLine DEF LineInv
<1>3. ASSUME Busy, Pops, UNCHANGED <<spi, cs, irq, chip>>, Top.at \in {"test", "returned"}
      PROVE  LineInv'
  <2>1. Busy' => Top'.at \notin {"window", "select"}
    BY <1>3, PopsTop
  <2>2. ~cs /\ irq.nvic
    BY <1>3 DEF LineInv
  <2>3. QED
    BY <1>3, <2>1, <2>2, QuietLine
<1>4. CASE (IrqTest /\ ~irq.flag) \/ LookupFails
  BY <1>3, <1>4, TailPops DEF IrqTest, LookupFails, At
<1>5. ASSUME NEW place, Polls(place) PROVE LineInv'
  BY <1>5, ServesLine
<1>6. CASE Command
  <2>1. /\ Busy /\ Top.at = "next" /\ Puts(stack'[1]) /\ UNCHANGED <<cs, irq>>
        /\ stack'[1].at \in {"boot", "power", "idle"}
        /\ (spi' = "powerup" /\ Switched("booting")) \/ UNCHANGED <<spi, chip>>
    BY <1>6, CommandAs
  <2>2. Busy' /\ Top' = stack'[1]
    BY <2>1, TopIs DEF Puts, Busy, Top, Types
  <2>3. ~cs /\ irq.nvic
    BY <2>1 DEF LineInv
  <2>4. CASE UNCHANGED <<spi, chip>>
    BY <2>1, <2>2, <2>3, <2>4, QuietLine
  <2>5. CASE spi' = "powerup" /\ Switched("booting")
    BY <2>1, <2>2, <2>3, <2>5 DEF LineInv, Switched
  <2>6. QED
    BY <2>1, <2>4, <2>5
<1>7. CASE FirstWrite
  <2>1. /\ Busy /\ Top.at = "power" /\ Moves("await") /\ ~cs' /\ irq' = irq /\ spi = "initialized"
        /\ chip'.todo = Append(chip.todo, Owed(Tx)) /\ Tx = Top.cmd
    BY <1>7, FirstWriteAs DEF Begins
  <2>2. Top'.at = "await"
    BY <2>1, MovesTop
  <2>3. irq.nvic /\ ~irq.flag /\ ~irq.edge
    BY <2>1, OffTop DEF LineInv, Phase, Starting, Started
  <2>4. \A k \in 1..Len(chip'.todo) : chip'.todo[k] # NoPacket
    BY <2>1, Working, OwedIsPacket DEF LineInv
  <2>5. QED
    BY <2>1, <2>2, <2>3, <2>4 DEF LineInv
<1>8. CASE WriteDone \/ WriteTimeout
  <2>1. /\ Busy /\ Top.at = "written" /\ Moves("await") /\ ~cs' /\ UNCHANGED <<spi, irq>>
        /\ chip'.state = chip.state /\ chip'.out = chip.out /\ chip'.todo = chip.todo
    BY <1>8, WriteEndsAs DEF Begins, ChipKept
  <2>2. Top'.at = "await" /\ irq.nvic
    BY <2>1, MovesTop DEF LineInv
  <2>3. QED
    BY <2>1, <2>2, QuietLine
<1>9. CASE Boot \/ Returned
  <2>1. PICK at \in {"power", "next"} : Goto(at) /\ Busy /\ Top.at \in {"boot", "returned"}
    BY <1>9 DEF Boot, Returned, At
  <2>2. Top'.at \notin {"window", "select"} /\ ~cs /\ irq.nvic
    BY <2>1, GotoMoves, MovesTop DEF Places, LineInv
  <2>3. UNCHANGED <<spi, cs, irq, chip>>
    BY <1>9 DEF Boot, Returned
  <2>4. QED
    BY <2>2, <2>3, QuietLine
<1>10. CASE TakeBus
  <2>1. Busy /\ Top.at = "idle" /\ Goto("window") /\ spi' = "write_irq" /\ UNCHANGED <<cs, chip>>
    BY <1>10 DEF TakeBus, At
  <2>2. Busy' /\ Top'.at = "window" /\ ~cs
    BY <2>1, GotoMoves, MovesTop DEF Places, LineInv
  <2>3. QED
    BY <2>1, <2>2 DEF LineInv
<1>11. CASE EnableIrq
  <2>1. /\ Busy /\ Top.at = "window" /\ Goto("select") /\ UNCHANGED <<spi, cs>>
        /\ irq' = [irq EXCEPT !.edge = FALSE, !.nvic = TRUE]
        /\ chip' = [chip EXCEPT !.missed = @ \/ irq.edge]
    BY <1>11 DEF EnableIrq, At
  <2>2. Busy' /\ Top'.at = "select" /\ ~cs /\ spi = "write_irq"
    BY <2>1, GotoMoves, MovesTop DEF Places, LineInv
  <2>3. irq'.nvic /\ chip'.todo = chip.todo
    BY <2>1 DEF Types, IrqType, ChipType
  <2>4. QED
    BY <2>1, <2>2, <2>3 DEF LineInv
<1>12. CASE Select
  <2>1. Busy /\ Top.at = "select" /\ Goto("written") /\ UNCHANGED <<spi, irq, chip>>
    BY <1>12 DEF Select, At
  <2>2. Busy' /\ Top'.at = "written" /\ spi = "write_irq"
    BY <2>1, GotoMoves, MovesTop DEF Places, LineInv
  <2>3. QED
    BY <2>1, <2>2 DEF LineInv
<1>13. CASE LookUnsolicited
  <2>1. /\ Busy /\ Top.at \in {"await", "check"} /\ Handles(rx, "handled")
        /\ UNCHANGED <<spi, cs, irq, chip>>
    BY <1>13, UnsolicitedAs
  <2>2. Pushes(Asked, "handled") => Top'.at = "next"
    BY DEF Pushes, Asked, Frame, Top, Types
  <2>3. Top'.at \notin {"window", "select"} /\ ~cs /\ irq.nvic
    BY <2>1, <2>2, MovesTop DEF Handles, LineInv
  <2>4. QED
    BY <2>1, <2>3, QuietLine
<1>14. CASE LookEvent \/ LookData \/ LookTimeout \/ Handled
  <2>1. /\ Busy /\ Top.at \in {"await", "check", "handled"} /\ UNCHANGED <<spi, cs, irq, chip>>
        /\ \E at \in {AfterWait, "await"} : Moves(at)
    BY <1>14, LookEventAs, LookDataAs, TimeoutAs, HandledAs DEF Leaves
  <2>2. Top'.at \notin {"window", "select"} /\ ~cs /\ irq.nvic
    BY <2>1, MovesTop DEF AfterWait, LineInv
  <2>3. QED
    BY <2>1, <2>2, QuietLine
<1>15. CASE WaitData
  <2>1. /\ Busy /\ Top.at = "returned" /\ ~cs' /\ UNCHANGED <<spi, irq>>
        /\ chip'.state = chip.state /\ chip'.out = chip.out /\ chip'.todo = chip.todo
        /\ Puts([Top EXCEPT !.at = "await", !.data = TRUE])
    BY <1>15, WaitDataAs DEF ChipKept
  <2>2. Top'.at = "await"
    <3>1. Top \in FrameType /\ Top' = [Top EXCEPT !.at = "await", !.data = TRUE]
      BY <2>1, TopIs DEF Puts, Top, Types
    <3>2. QED
      BY <3>1 DEF FrameType
  <2>3. irq.nvic
    BY <2>1 DEF LineInv
  <2>4. QED
    BY <2>1, <2>2, <2>3, QuietLine
<1>16. CASE End
  <2>1. /\ Busy /\ Top.at = "next" /\ Pops /\ UNCHANGED <<spi, cs, irq>>
        /\ Switched("off") \/ chip' = chip
    BY <1>16, EndAs
  <2>2. Busy' => Top'.at \notin {"window", "select"}
    BY <2>1, PopsTop
  <2>3. ~cs /\ irq.nvic
    BY <2>1 DEF LineInv
  <2>4. QED
    BY <2>1, <2>2, <2>3, QuietLine DEF Switched
<1>17. CASE Interrupt
  <2>1. /\ UNCHANGED <<spi, cs, stack, chip>> /\ irq.edge
        /\ irq' = [irq EXCEPT !.edge = FALSE, !.flag = TRUE, !.enabled = TRUE]
    BY <1>17 DEF Interrupt
  <2>2. irq'.nvic = irq.nvic
    BY <2>1 DEF Types, IrqType
  <2>3. QED
    BY <2>1, <2>2 DEF LineInv, Busy, Top
<1>18. CASE ChipUp
  <2>1. UNCHANGED <<spi, cs, stack>> /\ chip.state = "booting" /\ irq' = [irq EXCEPT !.edge = TRUE]
    BY <1>18 DEF ChipUp
  <2>2. chip'.todo = chip.todo /\ chip'.served = chip.served /\ irq'.nvic = irq.nvic
    BY <1>18, <2>1 DEF ChipUp, Types, ChipType, IrqType
  <2>3. spi # "idle"
    BY <2>1 DEF Phase, Off, Starting, Started
  <2>4. QED
    BY <2>1, <2>2, <2>3 DEF LineInv, Busy, Top
<1>19. ASSUME NEW out, NEW todo, Sets(out, todo), \A k \in 1..Len(todo) : todo[k] # NoPacket,
              out # NoPacket \/ cs
       PROVE  LineInv'
  <2>1. /\ UNCHANGED <<spi, cs, stack>> /\ irq' = [irq EXCEPT !.edge = TRUE] /\ ~chip.served
        /\ chip'.out = out /\ chip'.todo = todo
    BY <1>19 DEF Sets
  <2>2. irq'.nvic = irq.nvic
    BY <2>1 DEF Types, IrqType
  <2>3. spi = "idle" => ~cs
    BY <2>1 DEF LineInv
  <2>4. QED
    BY <1>19, <2>1, <2>2, <2>3 DEF LineInv, Busy, Top
<1>20. CASE ChipReady
  BY <1>19, <1>20, ReadyAs DEF LineInv
<1>21. CASE ChipAnswers
  <2>1. chip.todo # <<>> /\ chip.todo \in Seq(Packet) /\ \A k \in 1..Len(chip.todo) : chip.todo[k] # NoPacket
    BY <1>21 DEF ChipAnswers, Types, ChipType, LineInv
  <2> DEFINE t == chip.todo
             d == Data(Head(t).id)
  <2>2. t # <<>> /\ t \in Seq(Packet) /\ \A k \in 1..Len(t) : t[k] # NoPacket
    BY <2>1
  <2> HIDE DEF t
  <2>3. Head(t) # NoPacket /\ Head(t) \in Packet /\ Tail(t) \in Seq(Packet)
        /\ \A k \in 1..Len(Tail(t)) : Tail(t)[k] # NoPacket
    BY <2>2
  <2>4. d # NoPacket /\ d \in Packet
    BY <2>3 DEF Data, NoPacket, Packet
  <2> HIDE DEF d
  <2>5. \A k \in 1..Len(<<d>> \o Tail(t)) : (<<d>> \o Tail(t))[k] # NoPacket
    <3> DEFINE r == Tail(t)
               u == <<d>> \o r
    <3>1. r \in Seq(Packet) /\ \A k \in 1..Len(r) : r[k] # NoPacket
      BY <2>3
    <3> HIDE DEF r
    <3>2. u[1] = d /\ Len(u) = Len(r) + 1 /\ \A i \in 1..Len(r) : u[i + 1] = r[i]
      BY <2>4, <3>1, PushOf
    <3> HIDE DEF u
    <3>3. ASSUME NEW k \in 1..Len(u), k # 1 PROVE u[k] # NoPacket
      <4>1. k - 1 \in 1..Len(r) /\ u[k] = r[k - 1]
        BY <3>1, <3>2, <3>3
      <4>2. QED
        BY <3>1, <4>1
    <3>4. \A k \in 1..Len(u) : u[k] # NoPacket
      BY <2>4, <3>2, <3>3
    <3>5. QED
      BY <3>4 DEF u, r
  <2>6. Sets(Head(t), Tail(t)) \/ Sets(Head(t), <<d>> \o Tail(t))
    BY <1>21, AnswersAs DEF t, d, Announces
  <2>7. QED
    BY <1>19, <2>3, <2>5, <2>6
<1>22. ASSUME NEW kind \in Unsolicited, ChipTells(kind) PROVE LineInv'
  <2>1. PICK n \in Nat : Sets(Event(kind, n), chip.todo)
    BY <1>22, TellsAs
  <2>2. Event(kind, n) # NoPacket
    BY DEF Event, NoPacket, Unsolicited
  <2>3. QED
    BY <1>19, <2>1, <2>2 DEF LineInv
<1>23. QED
  BY <1>1, <1>2, <1>4, <1>5, <1>6, <1>7, <1>8, <1>9, <1>10, <1>11, <1>12, <1>13,
     <1>14, <1>15, <1>16, <1>17, <1>18, <1>20, <1>21, <1>22
     DEF Next, Thread, Polls

-----------------------------------------------------------------------------
(* The chip is heard.                                                      *)

LEMMA ServesHeard ==
  ASSUME Types, Types', Frames, LineInv, Phase, DeviceHeard, NEW place, Polls(place)
  PROVE  DeviceHeard'
<1>1. Busy /\ Serves(place) /\ (place = "power" => Top.at = "power")
  BY PollAs
<1>2. ~irq'.flag /\ irq'.edge = irq.edge
  BY <1>1 DEF Serves, Types, IrqType
<1>3. chip'.line => irq'.edge \/ spi' = "initialized" \/ chip'.missed
  <2>1. CASE spi \in {"powerup", "initialized"}
    BY <1>1, <2>1 DEF Serves
  <2>2. CASE spi = "write_irq"
    BY <1>1, <2>2 DEF Serves, Takes, Ignores
  <2>3. CASE spi = "idle"
    BY <1>1, <2>3 DEF Serves, ReadsPacket, ReadsNothing
  <2>4. QED
    BY <2>1, <2>2, <2>3 DEF Types
<1>4. ~hist'.blind
  <2>1. CASE spi # "idle"
    BY <1>1, <2>1 DEF Serves, DeviceHeard
  <2>2. CASE spi = "idle" /\ ReadsPacket(place)
    BY <2>2 DEF ReadsPacket, Handles, HistKept, DeviceHeard
  <2>3. CASE spi = "idle" /\ ReadsNothing(place)
    <3>1. chip.state # "up"
      BY <1>1, <2>3 DEF Serves, ReadsNothing, LineInv
    <3>2. QED
      BY <2>3, <3>1 DEF ReadsNothing, DeviceHeard, Types, HistType
  <2>4. QED
    BY <1>1, <2>1, <2>2, <2>3 DEF Serves
<1>5. QED
  BY <1>2, <1>3, <1>4 DEF DeviceHeard

(* The event's callback is alone when it tests the flag.                   *)
LEMMA TestAlone ==
  ASSUME Types, Frames, Busy, stack[Len(stack)].at = "test"
  PROVE  Top.at = "test" /\ Len(stack) = 1
<1>1. Len(stack) \in Nat \ {0} /\ Top = stack[1]
  BY TopIs
<1>2. FrameOK(stack[Len(stack)], Len(stack))
  BY <1>1 DEF Frames
<1>3. Len(stack) = 1
  BY <1>2 DEF FrameOK
<1>4. QED
  BY <1>1, <1>3

LEMMA HeardKept ==
  ASSUME Types, Types', Frames, DeviceHeard, hist'.blind = hist.blind,
         irq'.flag = irq.flag, irq'.edge = irq.edge, irq'.enabled = irq.enabled,
         chip'.line => chip.line /\ chip'.missed = chip.missed,
         spi' = spi \/ ~chip'.line, Busy => Top.at # "test"
  PROVE  DeviceHeard'
BY TestAlone DEF DeviceHeard

LEMMA HeardStep ==
  ASSUME Types, Types', Frames, LineInv, Phase, DeviceHeard, Next
  PROVE  DeviceHeard'
<1>1. ASSUME NEW call \in Calls, Begin(call) PROVE DeviceHeard'
  BY <1>1, BeginAs, HeardKept DEF Starts, Busy
<1>2. CASE IrqEvent
  <2>1. /\ ~Busy /\ Starts(Frame("irq", "test")) /\ UNCHANGED <<spi, chip, hist>>
        /\ irq' = [irq EXCEPT !.enabled = FALSE]
    BY <1>2, IrqEventAs DEF Starts, Busy
  <2>2. irq'.flag = irq.flag /\ irq'.edge = irq.edge
    BY <2>1 DEF Types, IrqType
  <2>3. Busy' /\ Len(stack') = 1 /\ stack'[1].at = "test"
    BY <2>1, StartsTop DEF Starts, Frame
  <2>4. QED
    BY <2>1, <2>2, <2>3 DEF DeviceHeard
<1>3. CASE IrqTest /\ ~irq.flag
  BY <1>3 DEF IrqTest, DeviceHeard
<1>4. CASE LookupFails
  <2>1. hist'.blind = hist.blind /\ Busy /\ Top.at = "returned" /\ UNCHANGED <<spi, irq, chip>>
    BY <1>4 DEF LookupFails, Types, HistType, At
  <2>2. QED
    BY <2>1, HeardKept
<1>5. ASSUME NEW place, Polls(place) PROVE DeviceHeard'
  BY <1>5, ServesHeard
<1>6. CASE Command
  <2>1. /\ Busy /\ Top.at = "next" /\ UNCHANGED <<irq, hist>>
        /\ (spi' = "powerup" /\ Switched("booting")) \/ UNCHANGED <<spi, chip>>
    BY <1>6, CommandAs
  <2>2. QED
    BY <2>1, HeardKept DEF Switched
<1>7. CASE FirstWrite \/ WriteDone \/ WriteTimeout
  <2>1. /\ Busy /\ Top.at \in {"power", "written"} /\ irq' = irq /\ hist'.blind = hist.blind
        /\ chip'.line => chip.line /\ chip'.missed = chip.missed
        /\ spi' = spi \/ ~chip'.line
    <3>1. CASE FirstWrite
      BY <3>1, FirstWriteAs DEF Begins
    <3>2. CASE WriteDone \/ WriteTimeout
      <4>1. /\ Busy /\ Top.at = "written" /\ irq' = irq /\ spi' = spi /\ hist'.blind = hist.blind
            /\ chip'.line = (chip.line /\ chip.out # NoPacket)
            /\ chip'.missed = (chip.missed /\ chip.out # NoPacket)
        BY <3>2, WriteEndsAs DEF Begins
      <4>2. chip'.line => chip.line /\ chip'.missed = chip.missed
        BY <4>1 DEF Types, ChipType
      <4>3. QED
        BY <4>1, <4>2
    <3>3. QED
      BY <1>7, <3>1, <3>2
  <2>2. QED
    BY <2>1, HeardKept
<1>8. CASE Boot \/ Select \/ Returned
  <2>1. Busy /\ Top.at \in {"boot", "select", "returned"} /\ UNCHANGED <<spi, irq, chip, hist>>
    BY <1>8 DEF Boot, Select, Returned, At
  <2>2. QED
    BY <2>1, HeardKept
<1>9. CASE TakeBus
  <2>1. /\ Busy /\ Top.at = "idle" /\ spi = "idle" /\ UNCHANGED <<chip, hist>>
        /\ irq' = [irq EXCEPT !.nvic = FALSE]
    BY <1>9 DEF TakeBus, At
  <2>2. irq'.flag = irq.flag /\ irq'.edge = irq.edge /\ irq'.enabled = irq.enabled
    BY <2>1 DEF Types, IrqType
  <2>3. QED
    BY <2>1, <2>2, TestAlone DEF DeviceHeard
<1>10. CASE EnableIrq
  <2>1. /\ Busy /\ Top.at = "window" /\ UNCHANGED <<spi, hist>>
        /\ irq' = [irq EXCEPT !.edge = FALSE, !.nvic = TRUE]
        /\ chip' = [chip EXCEPT !.missed = @ \/ irq.edge]
    BY <1>10 DEF EnableIrq, At
  <2>2. /\ irq'.flag = irq.flag /\ irq'.enabled = irq.enabled
        /\ chip'.line = chip.line /\ (chip.missed \/ irq.edge => chip'.missed)
    BY <2>1 DEF Types, IrqType, ChipType
  <2>3. QED
    BY <2>1, <2>2, TestAlone DEF DeviceHeard
<1>11. CASE LookUnsolicited
  <2>1. /\ Busy /\ Top.at \in {"await", "check"} /\ hist'.blind = hist.blind
        /\ UNCHANGED <<spi, irq, chip>>
    BY <1>11, UnsolicitedAs DEF Handles, HistKept
  <2>2. QED
    BY <2>1, HeardKept
<1>12. CASE LookEvent \/ LookData \/ LookTimeout \/ Handled
  <2>1. /\ Busy /\ Top.at \in {"await", "check", "handled"} /\ UNCHANGED <<spi, irq, chip>>
        /\ hist'.blind = hist.blind
    BY <1>12, LookEventAs, LookDataAs, TimeoutAs, HandledAs DEF Leaves
  <2>2. QED
    BY <2>1, HeardKept
<1>13. CASE WaitData
  <2>1. /\ Busy /\ Top.at = "returned" /\ UNCHANGED <<spi, irq, hist>>
        /\ chip'.line = (chip.line /\ chip.out # NoPacket)
        /\ chip'.missed = (chip.missed /\ chip.out # NoPacket)
    BY <1>13, WaitDataAs
  <2>2. chip'.line => chip.line /\ chip'.missed = chip.missed
    BY <2>1 DEF Types, ChipType
  <2>3. QED
    BY <2>1, <2>2, HeardKept
<1>14. CASE End
  <2>1. /\ Busy /\ Top.at = "next" /\ UNCHANGED <<spi, irq, hist>>
        /\ Switched("off") \/ chip' = chip
    BY <1>14, EndAs
  <2>2. QED
    BY <2>1, HeardKept DEF Switched
<1>15. CASE Interrupt
  <2>1. /\ UNCHANGED <<spi, stack, chip, hist>> /\ irq.edge
        /\ irq' = [irq EXCEPT !.edge = FALSE, !.flag = TRUE, !.enabled = TRUE]
    BY <1>15 DEF Interrupt
  <2>2. irq'.flag /\ irq'.enabled
    BY <2>1 DEF Types, IrqType
  <2>3. QED
    BY <2>1, <2>2 DEF DeviceHeard
<1>16. ASSUME UNCHANGED <<stack, hist>>, irq' = [irq EXCEPT !.edge = TRUE] PROVE DeviceHeard'
  <2>1. irq'.edge /\ irq'.flag = irq.flag /\ irq'.enabled = irq.enabled
    BY <1>16 DEF Types, IrqType
  <2>2. QED
    BY <1>16, <2>1 DEF DeviceHeard, Busy
<1>17. CASE ChipUp
  BY <1>16, <1>17 DEF ChipUp
<1>18. CASE ChipReady
  BY <1>16, <1>18, ReadyAs DEF Sets
<1>19. CASE ChipAnswers
  BY <1>16, <1>19, AnswersAs DEF Sets, Announces
<1>20. ASSUME NEW kind \in Unsolicited, ChipTells(kind) PROVE DeviceHeard'
  BY <1>16, <1>20, TellsAs DEF Sets
<1>21. QED
  BY <1>1, <1>2, <1>3, <1>4, <1>5, <1>6, <1>7, <1>8, <1>9, <1>10, <1>11, <1>12, <1>13,
     <1>14, <1>15, <1>17, <1>18, <1>19, <1>20
     DEF Next, Thread, Polls

-----------------------------------------------------------------------------
(* The in-use flag and the awaited opcode.                                 *)

LEMMA UseKept ==
  ASSUME UseInv, wifi'.inuse => wifi.inuse, hist'.noEnd = hist.noEnd,
         Len(stack') = Len(stack), \A i \in 1..Len(stack) : stack'[i].call = stack[i].call
  PROVE  UseInv'
BY DEF UseInv

LEMMA PutUse ==
  ASSUME Types, UseInv, NEW f, Puts(f), f.call = Top.call, wifi'.inuse => wifi.inuse,
         hist'.noEnd = hist.noEnd
  PROVE  UseInv'
<1>1. Len(stack) \in Nat \ {0} /\ Top = stack[1]
  BY TopIs DEF Puts, Busy
<1>2. ASSUME NEW i \in 1..Len(stack) PROVE stack'[i].call = stack[i].call
  <2>1. i = 1 \/ i \in 2..Len(stack)
    BY <1>1
  <2>2. QED
    BY <1>1, <2>1 DEF Puts
<1>3. QED
  BY <1>2, UseKept DEF Puts

LEMMA MovesUse ==
  ASSUME Types, UseInv, NEW at, Moves(at), wifi'.inuse => wifi.inuse, hist'.noEnd = hist.noEnd
  PROVE  UseInv'
<1>1. PICK f : f = [Top EXCEPT !.at = at]
  OBVIOUS
<1>2. Puts(f) /\ f.call = Top.call
  BY <1>1, TopIs DEF Moves, Puts, Busy, FrameType
<1>3. QED
  BY <1>2, PutUse

LEMMA HandlesUse ==
  ASSUME Types, UseInv, NEW packet, NEW place, Handles(packet, place)
  PROVE  UseInv'
<1>1. wifi'.inuse = wifi.inuse /\ hist'.noEnd = hist.noEnd
  BY DEF Handles, HistKept
<1>2. CASE Pushes(Asked, place)
  <2>1. 1 \in 1..Len(stack') /\ stack'[1].call = "report"
    <3>1. Asked.call = "report"
      BY DEF Asked, Frame
    <3>2. QED
      BY <1>2, <3>1, TopIs DEF Pushes, Busy
  <2>2. QED
    BY <2>1 DEF UseInv
<1>3. QED
  BY <1>1, <1>2, MovesUse DEF Handles

LEMMA PopsUse ==
  ASSUME Types, UseInv, Busy, Pops, Top.call = "irq" \/ ~wifi'.inuse,
         wifi'.inuse => wifi.inuse, hist'.noEnd = hist.noEnd
  PROVE  UseInv'
<1>1. SUFFICES ASSUME wifi'.inuse, ~hist'.noEnd
      PROVE  \E i \in 1..Len(stack') : stack'[i].call # "irq"
  BY DEF UseInv
<1>2. PICK i \in 1..Len(stack) : stack[i].call # "irq"
  BY <1>1 DEF UseInv
<1>3. i # 1 /\ Len(stack) \in Nat
  BY <1>1, <1>2, TopIs
<1>4. i - 1 \in 1..Len(stack') /\ stack'[i - 1] = stack[i]
  BY <1>3 DEF Pops
<1>5. QED
  BY <1>2, <1>4

LEMMA UseStep ==
  ASSUME Types, Types', Frames, LineInv, UseInv, Next
  PROVE  UseInv'
<1>1. ASSUME NEW call \in Calls, Begin(call) PROVE UseInv'
  <2>1. Starts(Called(call)) /\ Called(call).call # "irq"
    BY <1>1, BeginAs, CallAssumption DEF Called, Frame
  <2>2. QED
    BY <2>1 DEF Starts, UseInv
<1>2. CASE IrqEvent
  BY <1>2, IrqEventAs DEF Starts, UseInv
<1>3. CASE IrqTest /\ ~irq.flag
  <2>1. Busy /\ Top.at = "test" /\ Pops /\ UNCHANGED <<wifi, hist>>
    BY <1>3, TailPops DEF IrqTest, At
  <2>2. Top.call = "irq"
    BY <2>1, TopFrame DEF FrameOK
  <2>3. QED
    BY <2>1, <2>2, PopsUse
<1>4. CASE LookupFails
  <2>1. hist'.noEnd
    BY <1>4 DEF LookupFails, Types, HistType
  <2>2. QED
    BY <2>1 DEF UseInv
<1>5. ASSUME NEW place, Polls(place) PROVE UseInv'
  <2>1. Serves(place)
    BY <1>5, PollAs
  <2>2. CASE Moves(place) /\ UNCHANGED <<wifi, hist>>
    BY <2>2, MovesUse
  <2>3. CASE ReadsNothing(place)
    <3>1. hist'.noEnd = hist.noEnd /\ wifi' = wifi /\ Moves(place)
      BY <2>3 DEF ReadsNothing, Types, HistType
    <3>2. QED
      BY <3>1, MovesUse
  <2>4. CASE Handles(chip.out, place)
    BY <2>4, HandlesUse
  <2>5. QED
    BY <2>1, <2>2, <2>3, <2>4 DEF Serves, ReadsPacket
<1>6. CASE Command
  <2>1. /\ Busy /\ Puts(stack'[1]) /\ stack'[1].call = Top.call /\ Top.ops # <<>> /\ hist' = hist
    BY <1>6, CommandAs
  <2>2. Top.call # "irq"
    BY <2>1, TopFrame DEF FrameOK
  <2>3. 1 \in 1..Len(stack') /\ stack'[1].call # "irq"
    BY <2>1, <2>2, TopIs DEF Puts
  <2>4. QED
    BY <2>3 DEF UseInv
<1>7. ASSUME NEW at, Moves(at), wifi' = wifi, hist'.noEnd = hist.noEnd PROVE UseInv'
  BY <1>7, MovesUse
<1>8. CASE FirstWrite \/ WriteDone \/ WriteTimeout
  BY <1>7, <1>8, FirstWriteAs, WriteEndsAs DEF Begins
<1>9. CASE Boot \/ Select \/ Returned \/ TakeBus \/ EnableIrq
  <2>1. UNCHANGED <<wifi, hist>>
    BY <1>9 DEF Boot, Select, Returned, TakeBus, EnableIrq
  <2>2. \E at : Moves(at)
    BY <1>9, StrollAs DEF Strolls
  <2>3. QED
    BY <1>7, <2>1, <2>2
<1>10. CASE LookUnsolicited
  BY <1>10, UnsolicitedAs, HandlesUse
<1>11. CASE LookEvent \/ LookData \/ LookTimeout \/ Handled
  BY <1>7, <1>11, LookEventAs, LookDataAs, TimeoutAs, HandledAs DEF Leaves
<1>12. CASE WaitData
  <2>1. PICK f : f = [Top EXCEPT !.at = "await", !.data = TRUE]
    OBVIOUS
  <2>2. Puts(f) /\ Busy /\ UNCHANGED <<wifi, hist>>
    BY <1>12, <2>1, WaitDataAs
  <2>3. f.call = Top.call
    BY <2>1, <2>2, TopIs DEF FrameType
  <2>4. QED
    BY <2>2, <2>3, PutUse
<1>13. CASE End
  BY <1>13, EndAs, PopsUse
<1>14. CASE UNCHANGED <<stack, wifi, hist>>
  BY <1>14 DEF UseInv
<1>15. CASE Interrupt \/ ChipUp
  BY <1>14, <1>15 DEF Interrupt, ChipUp
<1>16. CASE ChipReady \/ ChipAnswers
  BY <1>14, <1>16, ReadyAs, AnswersAs DEF Sets, Announces
<1>17. ASSUME NEW kind \in Unsolicited, ChipTells(kind) PROVE UseInv'
  BY <1>14, <1>17, TellsAs DEF Sets
<1>18. QED
  BY <1>1, <1>2, <1>3, <1>4, <1>5, <1>6, <1>8, <1>9, <1>10, <1>11, <1>12, <1>13,
     <1>15, <1>16, <1>17
     DEF Next, Thread, Polls

WaitKnown == wait = "none" \/ \E i \in 1..Len(cmds) : wait = cmds[i].op

(* A command keeps its opcode.                                             *)
OpsKept ==
  /\ cmds' \in Seq(CommandType) /\ Len(cmds) <= Len(cmds')
  /\ \A c \in 1..Len(cmds) : cmds'[c].op = cmds[c].op

LEMMA OpsStep ==
  ASSUME Types, Types', Frames, LineInv, Next
  PROVE  OpsKept
<1>1. ASSUME UNCHANGED cmds PROVE OpsKept
  BY <1>1 DEF OpsKept, Types
<1>2. ASSUME NEW c \in 1..Len(cmds), NEW r, Changes(c, r), r.op = cmds[c].op PROVE OpsKept
  BY <1>2 DEF OpsKept, Changes, Types
<1>3. ASSUME NEW c \in 1..Len(cmds)
      PROVE  /\ [cmds[c] EXCEPT !.sent = cmds[c].sent + 1].op = cmds[c].op
             /\ [cmds[c] EXCEPT !.owes = TRUE].op = cmds[c].op
             /\ \A n : [cmds[c] EXCEPT !.answer = n].op = cmds[c].op
             /\ \A n : [cmds[c] EXCEPT !.datum = n].op = cmds[c].op
  <2>1. cmds[c] \in CommandType
    BY DEF Types
  <2>2. QED
    BY <2>1 DEF CommandType
<1>4. ASSUME NEW call \in Calls, Begin(call) PROVE OpsKept
  BY <1>1, <1>4 DEF Begin
<1>5. CASE IrqTest /\ ~irq.flag
  BY <1>1, <1>5 DEF IrqTest
<1>6. ASSUME NEW place, Polls(place) PROVE OpsKept
  <2>1. Serves(place)
    BY <1>6, PollAs
  <2>2. CASE Takes
    <3>1. Tx \in 1..Len(cmds)
      BY <2>2 DEF Takes, Types, Tx
    <3>2. QED
      BY <1>2, <1>3, <2>2, <3>1 DEF Takes
  <2>3. QED
    BY <1>1, <2>1, <2>2 DEF Serves, Ignores
<1>7. CASE Command
  <2>1. Adds(Head(Top.ops))
    BY <1>7, CommandAs
  <2>2. /\ cmds' \in Seq(CommandType) /\ Len(cmds') = Len(cmds) + 1
        /\ \A k \in 1..Len(cmds) : cmds'[k] = cmds[k]
    BY <2>1 DEF Adds
  <2>3. QED
    BY <2>2 DEF OpsKept, Types
<1>8. CASE FirstWrite
  <2>1. Tx \in 1..Len(cmds) /\ Changes(Tx, [cmds[Tx] EXCEPT !.sent = cmds[Tx].sent + 1])
    BY <1>8, FirstWriteAs, Working
  <2>2. QED
    BY <1>2, <1>3, <2>1
<1>9. CASE LookEvent \/ LookData
  <2>1. Busy /\ Top.at \in {"await", "check"}
    BY <1>9, LookEventAs, LookDataAs
  <2>2. Top.cmd \in 1..Len(cmds)
    BY <2>1, Working
  <2>3. \/ Changes(Top.cmd, [cmds[Top.cmd] EXCEPT !.answer = rx.id])
        \/ Changes(Top.cmd, [cmds[Top.cmd] EXCEPT !.datum = rx.id])
        \/ UNCHANGED cmds
    BY <1>9, LookEventAs, LookDataAs
  <2>4. QED
    BY <1>1, <1>2, <1>3, <2>2, <2>3
<1>10. CASE ChipAnswers
  BY <1>1, <1>2, <1>3, <1>10, AnswersAs DEF Announces
<1>11. CASE \/ IrqEvent \/ WriteDone \/ WriteTimeout \/ Boot \/ Select \/ Returned \/ TakeBus
            \/ EnableIrq \/ LookUnsolicited \/ LookTimeout \/ Handled \/ WaitData \/ LookupFails
            \/ End \/ Interrupt \/ ChipUp \/ ChipReady \/ \E kind \in Unsolicited : ChipTells(kind)
  BY <1>1, <1>11
    DEF IrqEvent, WriteDone, WriteTimeout, Boot, Select, Returned, TakeBus, EnableIrq,
        LookUnsolicited, LookTimeout, Handled, WaitData, LookupFails, End, Interrupt, ChipUp,
        ChipReady, ChipTells
<1>12. QED
  BY <1>4, <1>5, <1>6, <1>7, <1>8, <1>9, <1>10, <1>11 DEF Next, Thread, Polls

LEMMA WaitStep ==
  ASSUME Types, Types', Frames, LineInv, WaitKnown, Next
  PROVE  WaitKnown'
<1>1. OpsKept
  BY OpsStep
<1>2. wait' = wait \/ wait' = "none" => WaitKnown'
  BY <1>1 DEF OpsKept, WaitKnown, Types
<1>3. ASSUME Busy, Top.at \in {"power", "written"}, wait' = cmds[Top.cmd].op PROVE WaitKnown'
  <2>1. Top.cmd \in 1..Len(cmds)
    BY <1>3, Working
  <2>2. Top.cmd \in 1..Len(cmds') /\ cmds'[Top.cmd].op = wait'
    BY <1>1, <1>3, <2>1 DEF OpsKept, Types
  <2>3. QED
    BY <2>2 DEF WaitKnown
<1>4. CASE FirstWrite \/ WriteDone \/ WriteTimeout
  BY <1>3, <1>4, FirstWriteAs, WriteEndsAs DEF Begins
<1>5. ASSUME NEW place, Polls(place) PROVE wait' = wait
  BY <1>5, PollAs DEF Serves
<1>6. CASE Command
  BY <1>2, <1>6, CommandAs
<1>7. CASE LookEvent
  BY <1>2, <1>7, LookEventAs
<1>8. ASSUME NEW call \in Calls, Begin(call) PROVE wait' = wait
  BY <1>8 DEF Begin
<1>9. CASE IrqTest /\ ~irq.flag
  BY <1>2, <1>9 DEF IrqTest
<1>10. CASE ChipAnswers
  BY <1>2, <1>10, AnswersAs DEF Sets, Announces
<1>11. CASE ChipReady \/ \E kind \in Unsolicited : ChipTells(kind)
  BY <1>2, <1>11 DEF ChipReady, ChipTells, Asserts
<1>12. CASE \/ IrqEvent \/ Boot \/ Select \/ Returned \/ TakeBus
            \/ EnableIrq \/ LookUnsolicited \/ LookData \/ LookTimeout \/ Handled \/ WaitData
            \/ LookupFails \/ End \/ Interrupt \/ ChipUp
  BY <1>2, <1>12
    DEF IrqEvent, Boot, Select, Returned, TakeBus, EnableIrq,
        LookUnsolicited, LookData, LookTimeout, Handled, WaitData, LookupFails, End, Interrupt, ChipUp
<1>13. QED
  BY <1>2, <1>4, <1>5, <1>6, <1>7, <1>8, <1>9, <1>10, <1>11, <1>12 DEF Next, Thread, Polls

-----------------------------------------------------------------------------
(* The theorems of the driver's state.                                     *)

Sound == Types /\ Frames /\ Phase /\ LineInv

LEMMA InitSound == Init => Sound /\ DeviceHeard /\ UseInv /\ WaitKnown
<1>1. SUFFICES ASSUME Init PROVE Sound /\ DeviceHeard /\ UseInv /\ WaitKnown
  OBVIOUS
<1>2. <<>> \in Seq(FrameType) /\ <<>> \in Seq(CommandType) /\ <<>> \in Seq(Packet) /\ NoPacket \in Packet
  BY DEF NoPacket, Packet
<1>3. chip \in ChipType
  BY <1>1, <1>2 DEF Init, ChipType
<1>4. irq \in IrqType /\ wifi \in WifiType /\ hist \in HistType
  BY <1>1 DEF Init, IrqType, WifiType, HistType
<1>5. Types
  BY <1>1, <1>2, <1>3, <1>4 DEF Init, Types
<1>6. Len(stack) = 0 /\ ~Busy
  BY <1>1 DEF Init, Busy
<1>7. Frames /\ UseInv /\ WaitKnown
  BY <1>1, <1>6 DEF Init, Frames, UseInv, WaitKnown
<1>8. Phase /\ LineInv
  BY <1>1, <1>6 DEF Init, Phase, Off, LineInv
<1>9. DeviceHeard
  BY <1>1 DEF Init, DeviceHeard
<1>10. QED
  BY <1>5, <1>7, <1>8, <1>9 DEF Sound

LEMMA SoundStep == Sound /\ [Next]_vars => Sound'
<1>1. ASSUME Sound, Next PROVE Sound'
  <2>1. Types'
    BY <1>1, TypesStep DEF Sound
  <2>2. QED
    BY <1>1, <2>1, FramesStep, PhaseStep, LineStep DEF Sound
<1>2. ASSUME Sound, UNCHANGED vars PROVE Sound'
  BY <1>2 DEF Sound, vars, host, Types, Frames, FrameOK, Phase, Off, Starting, Started, LineInv,
     Busy, Top, Called, Frame
<1>3. QED
  BY <1>1, <1>2

LEMMA AlwaysSound == Spec => []Sound
BY InitSound, SoundStep, PTL DEF Spec

(* Every frame works for a command that was sent, and the opcode awaited   *)
(* is that of a command, whatever the calls send and the chip tells.       *)
THEOREM TypeCorrect == Spec => []TypeOK
<1>1. Sound /\ WaitKnown => TypeOK
  <2>1. SUFFICES ASSUME Sound, WaitKnown PROVE TypeOK
    OBVIOUS
  <2>2. \A i \in 1..Len(stack) : stack[i].cmd \in 0..Len(cmds)
    BY <2>1 DEF Sound, Frames, FrameOK
  <2>3. QED
    BY <2>1, <2>2 DEF Sound, Types, WaitKnown, TypeOK, IrqType, WifiType
<1>2. Sound /\ Sound' /\ WaitKnown /\ [Next]_vars => WaitKnown'
  <2>1. ASSUME Sound, Sound', WaitKnown, Next PROVE WaitKnown'
    BY <2>1, WaitStep DEF Sound
  <2>2. ASSUME WaitKnown, UNCHANGED vars PROVE WaitKnown'
    BY <2>2 DEF WaitKnown, vars, host
  <2>3. QED
    BY <2>1, <2>2
<1>3. QED
  BY <1>1, <1>2, AlwaysSound, InitSound, PTL DEF Spec

(* The line of the chip is seen, and a chip that is up is read only when   *)
(* it has a packet: src/src/cc3000/host_spi.c, src/src/tessel_wifi.c.      *)
THEOREM ChipIsHeard == Spec => []DeviceHeard
<1>1. Sound /\ Sound' /\ DeviceHeard /\ [Next]_vars => DeviceHeard'
  <2>1. ASSUME Sound, Sound', DeviceHeard, Next PROVE DeviceHeard'
    BY <2>1, HeardStep DEF Sound
  <2>2. ASSUME DeviceHeard, UNCHANGED vars PROVE DeviceHeard'
    BY <2>2 DEF DeviceHeard, vars, host, Busy
  <2>3. QED
    BY <2>1, <2>2
<1>2. QED
  BY <1>1, AlwaysSound, InitSound, PTL DEF Spec

(* With no call running, only a failed name lookup leaves the driver busy. *)
THEOREM BusyIsKnown == Spec => []BusyIsTrue
<1>1. UseInv => BusyIsTrue
  BY DEF UseInv, BusyIsTrue, Busy
<1>2. Sound /\ Sound' /\ UseInv /\ [Next]_vars => UseInv'
  <2>1. ASSUME Sound, Sound', UseInv, Next PROVE UseInv'
    BY <2>1, UseStep DEF Sound
  <2>2. ASSUME UseInv, UNCHANGED vars PROVE UseInv'
    BY <2>2 DEF UseInv, vars, host
  <2>3. QED
    BY <2>1, <2>2
<1>3. QED
  BY <1>1, <1>2, AlwaysSound, InitSound, PTL DEF Spec

-----------------------------------------------------------------------------
(* The answers on their way.                                               *)

(* What the driver holds, or the chip, or the chip will hold.              *)
Flying(p) == p = rx \/ p = chip.out \/ \E k \in 1..Len(chip.todo) : p = chip.todo[k]
Answer(a) == Event(cmds[a].op, a)
Known(p) == p.kind \in Unsolicited \union {"none"}

(* An answer is for a command that went out and was not answered yet, data *)
(* are for a recv.                                                         *)
Flight ==
  \A p \in Packet : Flying(p) /\ ~Known(p) =>
    /\ p.id \in 1..Len(cmds) /\ cmds[p.id].sent = 1
    /\ p.kind = "data" => cmds[p.id].op = "recv"
    /\ p.kind # "data" => /\ p.kind = cmds[p.id].op
                          /\ \A c \in 1..Len(cmds) : cmds[c].answer # p.id

(* Each is there once, and data come after their answer.                   *)
Once ==
  /\ ~Known(rx) => rx # chip.out /\ \A k \in 1..Len(chip.todo) : rx # chip.todo[k]
  /\ ~Known(chip.out) => \A k \in 1..Len(chip.todo) : chip.out # chip.todo[k]
  /\ \A k, l \in 1..Len(chip.todo) : chip.todo[k] = chip.todo[l] => k = l
  /\ \A k \in 1..Len(chip.todo) : ~Known(chip.todo[k])
  /\ \A a \in 1..Len(cmds) : Flying(Data(a)) =>
       \A k \in 1..Len(chip.todo) : chip.todo[k] # Answer(a)

(* The command in the buffer has not been taken by the chip.               *)
Unsent ==
  Busy /\ stack[1].at \in Before /\ (stack[1].at = "written" => spi = "write_irq")

Sending ==
  /\ \A c \in 1..Len(cmds) : cmds[c].sent \in {0, 1}
  /\ \A c \in 1..Len(cmds) : cmds[c].answer # 0 =>
       cmds[c].answer \in 1..Len(cmds) /\ cmds[cmds[c].answer].sent = 1
  /\ Unsent => cmds[stack[1].cmd].sent = 0

Packets == Flight /\ Once /\ Sending

-----------------------------------------------------------------------------
(* Commands of frames further up are younger, and once they wait those     *)
(* below have been given up.                                               *)
Nested ==
  /\ hist.forsaken \subseteq 1..Len(cmds)
  /\ \A i, j \in 1..Len(stack) : i < j /\ stack[i].cmd # 0 =>
       /\ stack[j].cmd < stack[i].cmd
       /\ stack[i].at \notin Before => stack[j].cmd \in hist.forsaken \union {0}

(* A frame that waits for data sent a recv.                                *)
DataWaits ==
  \A i \in 1..Len(stack) : stack[i].data =>
    stack[i].cmd # 0 /\ cmds[stack[i].cmd].op = "recv" /\ stack[i].at \notin Before

(* Data are awaited by a frame, or were.                                   *)
PendingKnown ==
  pending => GivenUp("recv") \/ \E i \in 1..Len(stack) : stack[i].data /\ stack[i].at \in Waits

(* The opcode a frame waits for is its own, or was left by a report.       *)
Later(c) ==
  \E d \in 1..Len(cmds) :
    /\ d > c /\ cmds[d].op = wait
    /\ d \in hist.forsaken \/ \E j \in 1..Len(stack) : stack[j].cmd = d /\ stack[j].at \in Waits

WaitOwned ==
  \A i \in 1..Len(stack) : stack[i].at \in Waits \union {"returned"} /\ stack[i].cmd # 0 =>
    \/ wait \in {"none", cmds[stack[i].cmd].op}
    \/ stack[i].cmd \in hist.forsaken /\ Later(stack[i].cmd)

Waiters == Nested /\ DataWaits /\ PendingKnown /\ WaitOwned

-----------------------------------------------------------------------------
(* A command's answer is on its way: the command is the one waited for, or *)
(* it is about to be, or a nested call has not sent its own yet.           *)
Waiting(f, a) == f.cmd = a /\ f.at \in Waits
Resumes(a) ==
  Len(stack) >= 2 /\ (stack[1].cmd = 0 \/ stack[1].at \in Before) /\ Waiting(stack[2], a)

Current(a) ==
  /\ Busy
  /\ \/ stack[1].cmd = a /\ stack[1].at \in Before
     \/ Waiting(stack[1], a) /\ ~stack[1].data /\ wait = cmds[a].op
     \/ Resumes(a) /\ ~stack[2].data /\ wait = cmds[a].op

OwnsAnswer(a) == Flying(Answer(a)) => GivenUp(cmds[a].op) \/ Current(a)

(* The answer of the current command is in the buffer only when looked at. *)
LookedAt(a) ==
  rx = Answer(a) => GivenUp(cmds[a].op) \/ (Busy /\ stack[1].at = "check")

(* Data on their way: the command is going to wait for them.               *)
Counted(a) ==
  stack[1].cmd = a /\ stack[1].at = "returned" /\ ~stack[1].data /\ cmds[a].answer = a
Pends(a) ==
  /\ pending
  /\ \/ Waiting(stack[1], a) /\ stack[1].data
     \/ Resumes(a) /\ stack[2].data
Expects(a) == Busy /\ ((Flying(Answer(a)) /\ Current(a)) \/ Counted(a) \/ Pends(a))
OwnsData(a) == Flying(Data(a)) => cmds[a].owes /\ (GivenUp("recv") \/ Expects(a))

Owned(a) == OwnsAnswer(a) /\ LookedAt(a) /\ OwnsData(a)
Owners == \A a \in 1..Len(cmds) : Owned(a)
-----------------------------------------------------------------------------
(* The steps, by what they do to the answers: who holds packets, which     *)
(* frame goes where, what is waited for.                                   *)

Turns(at) ==
  /\ Len(stack) >= 1 /\ Len(stack') = Len(stack)
  /\ stack'[1].cmd = stack[1].cmd /\ stack'[1].data = stack[1].data /\ stack'[1].at = at
  /\ \A i \in 2..Len(stack) : stack'[i] = stack[i]
Grows(at) ==
  /\ Len(stack) >= 1 /\ Len(stack') = Len(stack) + 1
  /\ stack'[1].cmd = 0 /\ ~stack'[1].data /\ stack'[1].at = "next"
  /\ stack'[2].cmd = stack[1].cmd /\ stack'[2].data = stack[1].data /\ stack'[2].at = at
  /\ \A i \in 2..Len(stack) : stack'[i + 1] = stack[i]
TurnsOrGrows(at) == Turns(at) \/ Turns("crashed") \/ Grows(at)

SameWait == wait' = wait /\ pending' = pending /\ hist'.forsaken = hist.forsaken
Quiet == SameWait /\ cmds' = cmds
Still == rx' = rx /\ chip'.out = chip.out /\ chip'.todo = chip.todo

ChipActs ==
  /\ SameWait /\ UNCHANGED <<stack, spi, rx>>
  /\ \/ /\ cmds' = cmds /\ chip'.todo = chip.todo
        /\ chip'.out = chip.out \/ (chip.out = NoPacket /\ Known(chip'.out))
     \/ /\ chip.todo # <<>> /\ chip.out = NoPacket /\ chip'.out = Head(chip.todo)
        /\ \/ cmds' = cmds /\ chip'.todo = Tail(chip.todo)
           \/ Announces

Enters ==
  /\ Quiet /\ Still
  /\ Len(stack) = 0 /\ Len(stack') = 1
  /\ stack'[1].cmd = 0 /\ ~stack'[1].data /\ stack'[1].at \in {"next", "test"}

Commands ==
  /\ Len(stack) >= 1 /\ stack[1].at = "next" /\ Len(stack') = Len(stack)
  /\ stack'[1].cmd = Len(cmds) + 1 /\ ~stack'[1].data /\ stack'[1].at \in Before
  /\ \A i \in 2..Len(stack) : stack'[i] = stack[i]
  /\ \E op \in Op : Adds(op)
  /\ hist'.forsaken = hist.forsaken
  /\ \/ SameWait /\ Still
     \/ /\ wait' = "none" /\ pending' = FALSE
        /\ rx' = NoPacket /\ chip'.out = NoPacket /\ chip'.todo = <<>>

Works ==
  /\ Quiet /\ Still
  /\ stack[1].at \in Before /\ \E at \in Before : Turns(at)
  /\ Unsent' => Unsent

(* The command in the buffer goes out.                                     *)
Posts ==
  /\ Unsent /\ stack[1].cmd = Tx /\ Tx # 0
  /\ chip'.todo = Append(chip.todo, Owed(Tx)) /\ chip'.out = chip.out /\ rx' = rx
  /\ Changes(Tx, [cmds[Tx] EXCEPT !.sent = cmds[Tx].sent + 1])

Sends == Posts /\ SameWait /\ Turns("written") /\ ~Unsent'

StartsWaiting ==
  /\ Len(stack) >= 1 /\ stack[1].at \in Before /\ stack[1].cmd = Tx /\ Tx # 0
  /\ Turns("await") /\ wait' = cmds[Tx].op /\ pending' = pending
  /\ hist'.forsaken = hist.forsaken \union (Below \ {0})
  /\ Posts \/ (Still /\ cmds' = cmds)

(* A poll, or the event of the interrupt, reads what the chip has.         *)
Hears(at) ==
  /\ Quiet /\ chip'.todo = chip.todo
  /\ Len(stack) >= 1
  /\ \/ /\ at = "check" /\ stack[1].at \in {"await", "check"}
        /\ stack[1].cmd \in 1..Len(cmds) /\ (stack[1].at = "check" => rx = NoPacket)
     \/ at = "next" /\ stack[1].at = "test" /\ Len(stack) = 1 /\ stack[1].cmd = 0
  /\ \/ Turns(at) /\ rx' = rx /\ chip'.out = chip.out
     \/ TurnsOrGrows(at) /\ Known(chip.out) /\ Known(rx') /\ chip'.out = NoPacket
     \/ /\ Turns(at) /\ chip'.out = NoPacket /\ ~Known(chip.out)
        /\ rx' = IF chip.out.kind = "data" \/ Awaited(chip.out) THEN chip.out ELSE NoPacket

(* What the loop of a wait does with the buffer.                           *)
InLoop == Len(stack) >= 1 /\ stack[1].at \in {"await", "check"} /\ stack[1].cmd \in 1..Len(cmds)
Beside == chip'.out = chip.out /\ chip'.todo = chip.todo /\ hist'.forsaken = hist.forsaken
Finishes ==
  \E at \in {"returned", "next"} :
    Turns(at) /\ (cmds[stack[1].cmd].op = "recv" => at = "returned")

HandlesAgain ==
  InLoop /\ Quiet /\ Beside /\ Known(rx) /\ Known(rx') /\ TurnsOrGrows("handled")
Gets ==
  /\ InLoop /\ Beside /\ ~Known(rx) /\ rx.kind # "data" /\ rx.kind = wait
  /\ wait' = "none" /\ pending' = pending /\ rx' = NoPacket
  /\ Changes(stack[1].cmd, [cmds[stack[1].cmd] EXCEPT !.answer = rx.id])
  /\ IF pending THEN Turns("await") ELSE Finishes
Drops ==
  /\ InLoop /\ Beside /\ ~Known(rx) /\ rx.kind # "data" /\ rx.kind # wait
  /\ Quiet /\ rx' = NoPacket /\ Turns("await")
GetsData ==
  /\ InLoop /\ Beside /\ rx.kind = "data"
  /\ wait' = wait /\ pending' = FALSE /\ rx' = NoPacket
  /\ Changes(stack[1].cmd, [cmds[stack[1].cmd] EXCEPT !.datum = rx.id])
  /\ IF wait = "none" THEN Finishes ELSE Turns("await")
GivesUp ==
  /\ Len(stack) >= 1 /\ stack[1].at \in {"await", "check", "handled"}
  /\ stack[1].cmd \in 1..Len(cmds) /\ (stack[1].at = "check" => rx = NoPacket)
  /\ Still /\ wait' = wait /\ pending' = pending /\ cmds' = cmds
  /\ hist'.forsaken = hist.forsaken \union {stack[1].cmd}
  /\ Finishes
GoesOn == Quiet /\ Still /\ Len(stack) >= 1 /\ stack[1].at = "handled" /\ Turns("await")

(* What the calls do after the wait.                                       *)
WaitsForData ==
  /\ Still /\ cmds' = cmds /\ wait' = wait /\ pending' /\ hist'.forsaken = hist.forsaken
  /\ Len(stack) >= 1 /\ stack[1].at = "returned" /\ stack[1].cmd \in 1..Len(cmds)
  /\ cmds[stack[1].cmd].op = "recv" /\ ~stack[1].data
  /\ Len(stack') = Len(stack) /\ stack'[1].cmd = stack[1].cmd
  /\ stack'[1].data /\ stack'[1].at = "await"
  /\ \A i \in 2..Len(stack) : stack'[i] = stack[i]
Returns ==
  /\ Quiet /\ Still /\ Len(stack) >= 1 /\ stack[1].at = "returned" /\ Turns("next")
  /\ LET c == cmds[stack[1].cmd] IN
       c.op = "recv" /\ ~stack[1].data /\ c.answer # 0 => ~cmds[c.answer].owes
Releases ==
  /\ Quiet /\ Pops /\ Len(stack) >= 1 /\ stack[1].at \in {"test", "next", "returned"}
  /\ stack[1].at = "returned" => cmds[stack[1].cmd].op = "lookup"
  /\ rx' \in {rx, NoPacket}
  /\ \/ chip'.out = chip.out /\ chip'.todo = chip.todo
     \/ chip'.out = NoPacket /\ chip'.todo = <<>> /\ Len(stack) = 1

LEMMA MovesTurns ==
  ASSUME Types, Busy, NEW at, Moves(at)
  PROVE  Turns(at)
BY TopIs DEF Moves, Puts, Turns, FrameType

LEMMA PushesGrows ==
  ASSUME Types, Busy, NEW at, Pushes(Asked, at)
  PROVE  Grows(at)
<1>1. Asked.cmd = 0 /\ ~Asked.data /\ Asked.at = "next"
  BY DEF Asked, Frame
<1>2. QED
  BY <1>1, TopIs, SMTT(30) DEF Pushes, Grows, FrameType

LEMMA HandlesTurns ==
  ASSUME Types, Busy, NEW packet \in Packet, NEW at, packet.kind \in Unsolicited,
         Handles(packet, at)
  PROVE  /\ TurnsOrGrows(at) /\ Known(rx') /\ hist'.forsaken = hist.forsaken
<1>1. Known(NoPacket) /\ Known(packet)
  BY DEF Known, NoPacket
<1>2. QED
  BY <1>1, MovesTurns, PushesGrows DEF Handles, TurnsOrGrows, HistKept

LEMMA PollHears ==
  ASSUME Types, Types', Frames, LineInv, NEW place, Polls(place)
  PROVE  (\E at \in {"check", "next"} : Hears(at)) \/ Works \/ Sends
<1>1. /\ Busy /\ Serves(place) /\ place \in Places
      /\ \/ place = Top.at /\ place \in {"power", "idle", "written"} /\ spi # "idle"
         \/ place = "check" /\ Top.at \in {"await", "check"} /\ Loops
         \/ place = "next" /\ Top.at = "test"
  BY PollAs
<1>2. /\ Top = stack[1] /\ Len(stack) \in Nat \ {0} /\ UNCHANGED <<wait, pending>>
  BY <1>1, TopIs DEF Serves
<1>3. ASSUME Moves(place) PROVE Turns(place)
  BY <1>1, <1>3, MovesTurns
<1>4. CASE place = Top.at /\ place \in {"power", "idle", "written"} /\ spi # "idle"
  <2>1. CASE spi' = "initialized" /\ UNCHANGED <<rx, chip, cmds, hist>> /\ Moves(place)
    <3>1. Turns(place) /\ place \in Before /\ ~(place = "written" /\ spi' = "write_irq")
      BY <1>3, <1>4, <2>1 DEF Before
    <3>2. Quiet /\ Still
      BY <1>2, <2>1 DEF Quiet, SameWait, Still
    <3>3. Unsent' => Unsent
      BY <1>2, <1>4, <2>1, <3>1 DEF Unsent, Turns, Before, Types, Busy
    <3>4. QED
      BY <1>2, <1>4, <3>1, <3>2, <3>3 DEF Works
  <2>2. CASE /\ spi = "write_irq" /\ spi' = "idle" /\ chip'.out = chip.out /\ (Takes \/ Ignores)
             /\ Moves(place) /\ UNCHANGED <<rx, hist>>
    <3>1. Turns(place) /\ place \in Before
      BY <1>3, <1>4, <2>2 DEF Before
    <3>2. Unsent /\ (place = "written" => ~Unsent')
      BY <1>1, <1>2, <1>4, <2>2, <3>1 DEF Unsent, Turns, Before
    <3>3. CASE Takes
      <4>1. place = "written"
        BY <1>4, <3>3 DEF Takes, LineInv
      <4>2. stack[1].cmd = Tx
        BY <1>1, <1>2, <1>4, <3>1, Working DEF Before
      <4>3. Posts
        BY <2>2, <3>2, <3>3, <4>2 DEF Posts, Takes
      <4>4. QED
        BY <1>2, <2>2, <3>1, <3>2, <4>1, <4>3 DEF Sends, SameWait
    <3>4. CASE Ignores
      <4>1. Quiet /\ Still
        BY <1>2, <2>2, <3>4 DEF Quiet, SameWait, Still, Ignores
      <4>2. QED
        BY <1>2, <1>4, <3>1, <3>2, <4>1 DEF Works
    <3>5. QED
      BY <2>2, <3>3, <3>4
  <2>3. QED
    BY <1>1, <1>4, <2>1, <2>2 DEF Serves
<1>5. CASE \/ place = "check" /\ Top.at \in {"await", "check"} /\ Loops
           \/ place = "next" /\ Top.at = "test"
  <2>1. \/ place = "check" /\ stack[1].at \in {"await", "check"} /\ stack[1].cmd \in 1..Len(cmds)
           /\ (stack[1].at = "check" => rx = NoPacket)
        \/ place = "next" /\ stack[1].at = "test" /\ Len(stack) = 1 /\ stack[1].cmd = 0
    <3>1. CASE place = "check" /\ Top.at \in {"await", "check"} /\ Loops
      BY <1>1, <1>2, <3>1, Working DEF Loops, At
    <3>2. CASE place = "next" /\ Top.at = "test"
      BY <1>1, <1>2, <3>2, TopFrame DEF FrameOK
    <3>3. QED
      BY <1>5, <3>1, <3>2
  <2>2. ~cs /\ place \in {"check", "next"}
    BY <1>1, <1>5 DEF LineInv
  <2>3. CASE Moves(place) /\ UNCHANGED <<rx, chip, cmds, hist>>
    <3>1. Quiet /\ Turns(place)
      BY <1>2, <1>3, <2>3 DEF Quiet, SameWait
    <3>2. QED
      BY <1>2, <2>1, <2>2, <2>3, <3>1 DEF Hears
  <2>4. CASE /\ Moves(place) /\ chip'.out = chip.out /\ (Takes \/ Ignores)
             /\ UNCHANGED <<rx, hist>>
    <3>1. Ignores
      BY <2>2, <2>4 DEF Takes
    <3>2. Quiet /\ Turns(place) /\ chip'.todo = chip.todo
      BY <1>2, <1>3, <2>4, <3>1 DEF Quiet, SameWait, Ignores
    <3>3. QED
      BY <1>2, <2>1, <2>2, <2>4, <3>2 DEF Hears
  <2>5. CASE ReadsNothing(place) /\ cmds' = cmds
    <3>1. hist'.forsaken = hist.forsaken
      BY <2>5 DEF ReadsNothing, Types, HistType
    <3>2. Quiet /\ Turns(place)
      BY <1>2, <1>3, <2>5, <3>1 DEF Quiet, SameWait, ReadsNothing
    <3>3. QED
      BY <1>2, <2>1, <2>2, <2>5, <3>2 DEF Hears, ReadsNothing
  <2>6. CASE ReadsPacket(place) /\ cmds' = cmds
    <3>1. chip.out \in Packet
      BY DEF Types, ChipType
    <3>2. CASE chip.out.kind \in Unsolicited /\ Handles(chip.out, place)
      <4>1. TurnsOrGrows(place) /\ Known(rx') /\ hist'.forsaken = hist.forsaken
        BY <1>1, <3>1, <3>2, HandlesTurns
      <4>2. Quiet /\ Known(chip.out)
        BY <1>2, <2>6, <3>2, <4>1 DEF Quiet, SameWait, Known
      <4>3. QED
        BY <1>2, <2>1, <2>2, <2>6, <4>1, <4>2 DEF Hears, ReadsPacket
    <3>3. CASE /\ chip.out.kind \notin Unsolicited
               /\ rx' = IF chip.out.kind = "data" \/ Awaited(chip.out) THEN chip.out ELSE NoPacket
               /\ Moves(place) /\ UNCHANGED <<wifi, hist>>
      <4>1. Quiet /\ Turns(place)
        BY <1>2, <1>3, <2>6, <3>3 DEF Quiet, SameWait
      <4>2. ~Known(chip.out) \/ chip.out.kind = "none"
        BY <3>3 DEF Known
      <4>3. CASE chip.out.kind = "none"
        <5>1. rx' = NoPacket \/ rx' = chip.out
          BY <3>3
        <5>2. Known(rx') /\ Known(chip.out)
          BY <4>3, <5>1 DEF Known, NoPacket
        <5>3. QED
          BY <1>2, <2>1, <2>2, <2>6, <4>1, <5>2 DEF Hears, ReadsPacket, TurnsOrGrows
      <4>4. QED
        BY <1>2, <2>1, <2>2, <2>6, <3>3, <4>1, <4>2, <4>3 DEF Hears, ReadsPacket
    <3>4. QED
      BY <2>6, <3>2, <3>3 DEF ReadsPacket
  <2>7. QED
    BY <1>1, <1>5, <2>3, <2>4, <2>5, <2>6 DEF Serves
<1>6. QED
  BY <1>1, <1>4, <1>5

Kinds ==
  \/ ChipActs \/ Enters \/ Commands \/ Works \/ Sends \/ StartsWaiting
  \/ Hears("check") \/ Hears("next") \/ HandlesAgain \/ Gets \/ Drops \/ GetsData
  \/ GivesUp \/ GoesOn \/ WaitsForData \/ Returns \/ Releases

LEMMA OutsideKinds ==
  ASSUME Types, Types', Frames, LineInv,
         \/ \E call \in Calls : Begin(call)
         \/ IrqEvent \/ Interrupt \/ ChipUp \/ ChipReady \/ ChipAnswers
         \/ \E kind \in Unsolicited : ChipTells(kind)
  PROVE  ChipActs \/ Enters
<1>1. ASSUME NEW call \in Calls, Begin(call) PROVE Enters
  <2>1. /\ Starts(Called(call)) /\ UNCHANGED <<wait, pending, rx, chip, cmds>>
        /\ hist'.forsaken = hist.forsaken
    BY <1>1, BeginAs
  <2>2. Called(call).cmd = 0 /\ ~Called(call).data /\ Called(call).at = "next"
    BY DEF Called, Frame
  <2>3. QED
    BY <2>1, <2>2 DEF Enters, Starts, Quiet, SameWait, Still
<1>2. CASE IrqEvent
  <2>1. Starts(Frame("irq", "test")) /\ UNCHANGED <<wait, pending, rx, chip, cmds, hist>>
    BY <1>2, IrqEventAs
  <2>2. QED
    BY <2>1 DEF Enters, Starts, Quiet, SameWait, Still, Frame
<1>3. CASE Interrupt
  BY <1>3 DEF Interrupt, ChipActs, SameWait
<1>4. CASE ChipUp
  <2>1. chip'.out = chip.out /\ chip'.todo = chip.todo
    BY <1>4 DEF ChipUp, Types, ChipType
  <2>2. QED
    BY <1>4, <2>1 DEF ChipUp, ChipActs, SameWait
<1>5. ASSUME NEW out, NEW todo, Sets(out, todo)
      PROVE  SameWait /\ UNCHANGED <<stack, spi, rx>> /\ chip'.out = out /\ chip'.todo = todo
  BY <1>5 DEF Sets, SameWait
<1>6. CASE ChipReady
  BY <1>5, <1>6, ReadyAs DEF ChipActs
<1>7. ASSUME NEW kind \in Unsolicited, ChipTells(kind) PROVE ChipActs
  <2>1. PICK n \in Nat : Sets(Event(kind, n), chip.todo)
    BY <1>7, TellsAs
  <2>2. cmds' = cmds /\ chip.out = NoPacket /\ Known(Event(kind, n))
    BY <1>7, TellsAs DEF Known, Event
  <2>3. QED
    BY <1>5, <2>1, <2>2 DEF ChipActs
<1>8. CASE ChipAnswers
  <2>1. CASE /\ chip.todo # <<>> /\ chip.out = NoPacket /\ cmds' = cmds
             /\ Sets(Head(chip.todo), Tail(chip.todo))
    BY <1>5, <2>1 DEF ChipActs
  <2>2. CASE Announces
    <3>1. /\ chip.todo # <<>> /\ chip.out = NoPacket
          /\ Sets(Head(chip.todo), <<Data(Head(chip.todo).id)>> \o Tail(chip.todo))
      BY <2>2 DEF Announces
    <3>2. QED
      BY <1>5, <2>2, <3>1 DEF ChipActs
  <2>3. QED
    BY <1>8, <2>1, <2>2, AnswersAs
<1>9. QED
  BY <1>1, <1>2, <1>3, <1>4, <1>6, <1>7, <1>8

LEMMA WriteKinds ==
  ASSUME Types, Types', Frames, LineInv,
         Command \/ Boot \/ FirstWrite \/ TakeBus \/ EnableIrq \/ Select \/ WriteDone \/ WriteTimeout
  PROVE  Commands \/ Works \/ StartsWaiting
<1>1. CASE Command
  <2>1. /\ Busy /\ Top.at = "next" /\ Top.ops # <<>> /\ Adds(Head(Top.ops)) /\ hist' = hist
        /\ Puts(stack'[1]) /\ stack'[1].cmd = Len(cmds) + 1 /\ ~stack'[1].data
        /\ \/ /\ stack'[1].at = "boot" /\ wait' = "none" /\ pending' = FALSE /\ rx' = NoPacket
              /\ Switched("booting")
           \/ /\ stack'[1].at = IF spi \in {"powerup", "initialized"} THEN "power" ELSE "idle"
              /\ UNCHANGED <<wait, pending, rx, chip>>
    BY <1>1, CommandAs
  <2>2. Top = stack[1] /\ Len(stack) \in Nat \ {0} /\ Len(stack') = Len(stack)
    BY <2>1, TopIs DEF Puts
  <2>3. \E op \in Op : Adds(op)
    BY <2>1 DEF Adds
  <2>4. stack'[1].at \in Before
    BY <2>1 DEF Before
  <2>5. QED
    BY <2>1, <2>2, <2>3, <2>4 DEF Commands, Puts, Switched, SameWait, Still
<1>2. ASSUME NEW at \in Before \ {"written"}, Busy, Top.at \in Before \ {"written"}, Goto(at),
             Quiet, Still
      PROVE  Works
  <2>1. Turns(at) /\ Top = stack[1]
    BY <1>2, GotoMoves, MovesTurns, TopIs DEF Before, Places
  <2>2. Unsent' => Unsent
    BY <1>2, <2>1 DEF Unsent
  <2>3. QED
    BY <1>2, <2>1, <2>2 DEF Works
<1>3. CASE Boot
  <2>1. Busy /\ Top.at = "boot" /\ Goto("power") /\ UNCHANGED <<wait, pending, rx, chip, cmds, hist>>
    BY <1>3 DEF Boot, At
  <2>2. QED
    BY <1>2, <2>1 DEF Before, Quiet, SameWait, Still
<1>4. CASE TakeBus
  <2>1. Busy /\ Top.at = "idle" /\ Goto("window") /\ UNCHANGED <<wait, pending, rx, chip, cmds, hist>>
    BY <1>4 DEF TakeBus, At
  <2>2. QED
    BY <1>2, <2>1 DEF Before, Quiet, SameWait, Still
<1>5. CASE EnableIrq
  <2>1. /\ Busy /\ Top.at = "window" /\ Goto("select") /\ UNCHANGED <<wait, pending, rx, cmds, hist>>
        /\ chip' = [chip EXCEPT !.missed = @ \/ irq.edge]
    BY <1>5 DEF EnableIrq, At
  <2>2. chip'.out = chip.out /\ chip'.todo = chip.todo
    BY <2>1 DEF Types, ChipType
  <2>3. QED
    BY <1>2, <2>1, <2>2 DEF Before, Quiet, SameWait, Still
<1>6. CASE Select
  <2>1. Busy /\ Top.at = "select" /\ Goto("written") /\ UNCHANGED <<wait, pending, rx, chip, cmds, hist>>
    BY <1>6 DEF Select, At
  <2>2. Turns("written") /\ Top = stack[1]
    BY <2>1, GotoMoves, MovesTurns, TopIs DEF Places
  <2>3. Unsent
    BY <2>1, <2>2 DEF Unsent, Before
  <2>4. QED
    BY <2>1, <2>2, <2>3 DEF Works, Before, Quiet, SameWait, Still
<1>7. CASE FirstWrite
  <2>1. /\ Busy /\ Top.at = "power" /\ Tx = Top.cmd /\ Begins("await") /\ UNCHANGED <<pending, rx>>
        /\ chip'.out = chip.out /\ chip'.todo = Append(chip.todo, Owed(Tx))
        /\ Changes(Tx, [cmds[Tx] EXCEPT !.sent = cmds[Tx].sent + 1])
    BY <1>7, FirstWriteAs
  <2>2. Turns("await") /\ Top = stack[1] /\ Tx # 0 /\ Len(stack) >= 1
    BY <2>1, MovesTurns, TopIs, Working DEF Begins
  <2>3. Posts
    BY <2>1, <2>2 DEF Posts, Unsent, Before
  <2>4. QED
    BY <2>1, <2>2, <2>3 DEF StartsWaiting, Begins, Before
<1>8. CASE WriteDone \/ WriteTimeout
  <2>1. /\ Busy /\ Top.at = "written" /\ Tx = Top.cmd /\ Begins("await")
        /\ UNCHANGED <<pending, rx, cmds>> /\ chip'.out = chip.out /\ chip'.todo = chip.todo
    BY <1>8, WriteEndsAs
  <2>2. Turns("await") /\ Top = stack[1] /\ Tx # 0 /\ Len(stack) >= 1
    BY <2>1, MovesTurns, TopIs, Working DEF Begins
  <2>3. QED
    BY <2>1, <2>2 DEF StartsWaiting, Begins, Before, Still
<1>9. QED
  BY <1>1, <1>3, <1>4, <1>5, <1>6, <1>7, <1>8

LEMMA LoopKinds ==
  ASSUME Types, Types', Frames, LineInv,
         \/ LookUnsolicited \/ LookEvent \/ LookData \/ LookTimeout \/ Handled
  PROVE  HandlesAgain \/ Gets \/ Drops \/ GetsData \/ GivesUp \/ GoesOn
<1>1. Busy /\ Top.at \in {"await", "check", "handled"}
  BY UnsolicitedAs, LookEventAs, LookDataAs, TimeoutAs, HandledAs
<1>2. /\ Top = stack[1] /\ Len(stack) \in Nat \ {0} /\ Len(stack) >= 1
      /\ stack[1].cmd \in 1..Len(cmds)
  BY <1>1, TopIs, Working
<1>3. \A at : Moves(at) => Turns(at)
  BY <1>1, MovesTurns
<1>4. Moves(AfterWait) => Finishes
  <2>1. AfterWait \in {"returned", "next"} /\ (cmds[Top.cmd].op = "recv" => AfterWait = "returned")
    BY DEF AfterWait
  <2>2. QED
    BY <1>2, <1>3, <2>1 DEF Finishes
<1>5. CASE LookUnsolicited
  <2>1. /\ Top.at \in {"await", "check"} /\ rx.kind \in Unsolicited /\ Handles(rx, "handled")
        /\ UNCHANGED <<wait, pending, chip, cmds>>
    BY <1>5, UnsolicitedAs
  <2>2. TurnsOrGrows("handled") /\ Known(rx') /\ hist'.forsaken = hist.forsaken
    BY <1>1, <2>1, HandlesTurns DEF Types
  <2>3. Known(rx)
    BY <2>1 DEF Known
  <2>4. QED
    BY <1>2, <2>1, <2>2, <2>3 DEF HandlesAgain, InLoop, Quiet, SameWait, Beside
<1>6. CASE LookEvent
  <2>1. /\ Top.at \in {"await", "check"} /\ ~Known(rx) /\ rx.kind # "data" /\ rx' = NoPacket
        /\ UNCHANGED <<pending, chip, hist>>
        /\ \/ /\ rx.kind = wait /\ wait' = "none"
              /\ Changes(Top.cmd, [cmds[Top.cmd] EXCEPT !.answer = rx.id])
              /\ Moves(IF pending THEN "await" ELSE AfterWait)
           \/ rx.kind # wait /\ Moves("await") /\ UNCHANGED <<wait, cmds>>
    BY <1>6, LookEventAs DEF Known
  <2>2. InLoop /\ Beside
    BY <1>2, <2>1 DEF InLoop, Beside
  <2>3. CASE rx.kind = wait
    <3>1. IF pending THEN Turns("await") ELSE Finishes
      BY <1>3, <1>4, <2>1, <2>3
    <3>2. QED
      BY <1>2, <2>1, <2>2, <2>3, <3>1 DEF Gets
  <2>4. CASE rx.kind # wait
    BY <1>3, <2>1, <2>2, <2>4 DEF Drops, Quiet, SameWait
  <2>5. QED
    BY <2>3, <2>4
<1>7. CASE LookData
  <2>1. /\ Top.at \in {"await", "check"} /\ rx.kind = "data" /\ rx' = NoPacket /\ pending' = FALSE
        /\ UNCHANGED <<wait, chip, hist>>
        /\ Changes(Top.cmd, [cmds[Top.cmd] EXCEPT !.datum = rx.id])
        /\ Moves(IF wait = "none" THEN AfterWait ELSE "await")
    BY <1>7, LookDataAs
  <2>2. InLoop /\ Beside
    BY <1>2, <2>1 DEF InLoop, Beside
  <2>3. IF wait = "none" THEN Finishes ELSE Turns("await")
    BY <1>3, <1>4, <2>1
  <2>4. QED
    BY <1>2, <2>1, <2>2, <2>3 DEF GetsData
<1>8. ASSUME Leaves, Top.at = "check" => rx = NoPacket PROVE GivesUp
  <2>1. Finishes /\ Still /\ hist'.forsaken = hist.forsaken \union {stack[1].cmd}
    BY <1>2, <1>4, <1>8 DEF Leaves, Still
  <2>2. QED
    BY <1>1, <1>2, <1>8, <2>1 DEF GivesUp, Leaves
<1>9. CASE LookTimeout
  BY <1>8, <1>9, TimeoutAs
<1>10. CASE Handled
  <2>1. CASE Leaves
    BY <1>8, <1>10, <2>1, HandledAs
  <2>2. CASE Moves("await") /\ UNCHANGED <<wait, pending, rx, chip, cmds, hist>>
    BY <1>2, <1>3, <1>10, <2>2, HandledAs DEF GoesOn, Quiet, SameWait, Still
  <2>3. QED
    BY <1>10, <2>1, <2>2, HandledAs
<1>11. QED
  BY <1>5, <1>6, <1>7, <1>9, <1>10

LEMMA CallKinds ==
  ASSUME Types, Types', Frames, LineInv,
         WaitData \/ Returned \/ LookupFails \/ End \/ (IrqTest /\ ~irq.flag)
  PROVE  WaitsForData \/ Returns \/ Releases
<1>1. Busy
  BY DEF WaitData, Returned, LookupFails, End, IrqTest, At
<1>2. Top = stack[1] /\ Len(stack) \in Nat \ {0} /\ Len(stack) >= 1 /\ Top \in FrameType
  BY <1>1, TopIs
<1>3. CASE WaitData
  <2>1. /\ Top.at = "returned" /\ cmds[Top.cmd].op = "recv" /\ ~Top.data
        /\ pending' = TRUE /\ UNCHANGED <<wait, rx, cmds, hist>>
        /\ chip'.out = chip.out /\ chip'.todo = chip.todo
        /\ Puts([Top EXCEPT !.at = "await", !.data = TRUE])
    BY <1>3, WaitDataAs
  <2>2. /\ Len(stack') = Len(stack) /\ stack'[1].cmd = stack[1].cmd /\ stack'[1].data
        /\ stack'[1].at = "await" /\ \A i \in 2..Len(stack) : stack'[i] = stack[i]
    BY <1>2, <2>1 DEF Puts, FrameType
  <2>3. stack[1].cmd \in 1..Len(cmds)
    BY <1>1, <1>2, <2>1, Working
  <2>4. QED
    BY <1>2, <2>1, <2>2, <2>3 DEF WaitsForData, Still
<1>4. CASE Returned
  <2>1. /\ Top.at = "returned" /\ Goto("next") /\ UNCHANGED <<wait, pending, rx, chip, cmds, hist>>
        /\ cmds[Top.cmd].op = "recv" /\ ~Top.data /\ cmds[Top.cmd].answer # 0 =>
             ~cmds[cmds[Top.cmd].answer].owes
    BY <1>4 DEF Returned, At
  <2>2. Turns("next")
    BY <1>1, <2>1, GotoMoves, MovesTurns DEF Places
  <2>3. QED
    BY <1>2, <2>1, <2>2 DEF Returns, Quiet, SameWait, Still
<1>5. CASE LookupFails
  <2>1. /\ Top.at = "returned" /\ cmds[Top.cmd].op = "lookup" /\ stack' = Tail(stack)
        /\ hist' = [hist EXCEPT !.noEnd = TRUE] /\ UNCHANGED <<wait, pending, rx, chip, cmds>>
    BY <1>5 DEF LookupFails, At
  <2>2. hist'.forsaken = hist.forsaken /\ Pops
    BY <1>1, <2>1, TailPops DEF Types, HistType
  <2>3. QED
    BY <1>2, <2>1, <2>2 DEF Releases, Quiet, SameWait
<1>6. CASE End
  <2>1. /\ Top.at = "next" /\ Pops /\ UNCHANGED <<wait, pending, cmds, hist>>
        /\ rx' \in {rx, NoPacket}
        /\ IF Top.call = "disable" THEN Switched("off") ELSE chip' = chip
    BY <1>6, EndAs
  <2>2. Top.call = "disable" => Len(stack) = 1
    BY <1>1, <1>2, TopFrame DEF FrameOK
  <2>3. QED
    BY <1>2, <2>1, <2>2 DEF Releases, Quiet, SameWait, Switched
<1>7. CASE IrqTest /\ ~irq.flag
  <2>1. Top.at = "test" /\ stack' = Tail(stack) /\ UNCHANGED <<wait, pending, rx, chip, cmds, hist>>
    BY <1>7 DEF IrqTest, At
  <2>2. Pops
    BY <1>1, <2>1, TailPops
  <2>3. QED
    BY <1>2, <2>1, <2>2 DEF Releases, Quiet, SameWait
<1>8. QED
  BY <1>3, <1>4, <1>5, <1>6, <1>7

LEMMA EveryKind ==
  ASSUME Types, Types', Frames, LineInv, Next
  PROVE  Kinds
<1>1. ASSUME NEW place, Polls(place) PROVE Kinds
  BY <1>1, PollHears DEF Kinds
<1>2. IrqTest => Polls("next") \/ (IrqTest /\ ~irq.flag)
  BY DEF Polls
<1>3. PowerPoll \/ IdlePoll \/ WritePoll \/ AwaitPoll => \E place : Polls(place)
  BY DEF Polls
<1>4. CASE \/ \E call \in Calls : Begin(call)
           \/ IrqEvent \/ Interrupt \/ ChipUp \/ ChipReady \/ ChipAnswers
           \/ \E kind \in Unsolicited : ChipTells(kind)
  BY <1>4, OutsideKinds DEF Kinds
<1>5. CASE \/ Command \/ Boot \/ FirstWrite \/ TakeBus \/ EnableIrq \/ Select
           \/ WriteDone \/ WriteTimeout
  BY <1>5, WriteKinds DEF Kinds
<1>6. CASE LookUnsolicited \/ LookEvent \/ LookData \/ LookTimeout \/ Handled
  BY <1>6, LoopKinds DEF Kinds
<1>7. CASE WaitData \/ Returned \/ LookupFails \/ End \/ (IrqTest /\ ~irq.flag)
  BY <1>7, CallKinds DEF Kinds
<1>8. QED
  BY <1>1, <1>2, <1>3, <1>4, <1>5, <1>6, <1>7 DEF Next, Thread

-----------------------------------------------------------------------------
(* Packets: each answers a command that went out, and is there once.       *)

LEMMA PacketIs ==
  ASSUME NEW p \in Packet, NEW q \in Packet, p.kind = q.kind, p.id = q.id
  PROVE  p = q
BY DEF Packet

LEMMA DataIs ==
  ASSUME NEW a \in Nat
  PROVE  Data(a) \in Packet /\ ~Known(Data(a)) /\ Data(a).kind = "data" /\ Data(a).id = a
BY DEF Data, Packet, Known, Unsolicited

LEMMA AnswerIs ==
  ASSUME Types, NEW a \in 1..Len(cmds)
  PROVE  /\ Answer(a) \in Packet /\ ~Known(Answer(a))
         /\ Answer(a).kind = cmds[a].op /\ Answer(a).id = a
         /\ cmds[a].op \in Op /\ cmds[a].op \notin Unsolicited \union {"none", "data"}
<1>1. cmds[a] \in CommandType /\ a \in Nat
  BY DEF Types
<1>2. cmds[a].op \in Op
  BY <1>1 DEF CommandType
<1>3. cmds[a].op \notin Unsolicited \union {"none", "data"}
  BY <1>2 DEF Op
<1>4. Answer(a) \in Packet /\ Answer(a).kind = cmds[a].op /\ Answer(a).id = a
  BY <1>1, <1>2 DEF Answer, Event, Packet
<1>5. QED
  BY <1>2, <1>3, <1>4 DEF Known

LEMMA FlyingIs ==
  ASSUME Types
  PROVE  /\ rx \in Packet /\ chip.out \in Packet /\ chip.todo \in Seq(Packet)
         /\ \A k \in 1..Len(chip.todo) : chip.todo[k] \in Packet
         /\ \A p : Flying(p) => p \in Packet
         /\ Known(NoPacket)
<1>1. rx \in Packet /\ chip.out \in Packet /\ chip.todo \in Seq(Packet)
  BY DEF Types, ChipType
<1>2. \A k \in 1..Len(chip.todo) : chip.todo[k] \in Packet
  BY <1>1
<1>3. QED
  BY <1>1, <1>2 DEF Flying, Known, NoPacket

(* What flies that is not known is the answer of a command, or its data.   *)
LEMMA FlyingOf ==
  ASSUME Types, Flight, NEW p, Flying(p), ~Known(p)
  PROVE  /\ p.id \in 1..Len(cmds)
         /\ \/ p.kind = "data" /\ p = Data(p.id)
            \/ p.kind # "data" /\ p = Answer(p.id)
<1>1. p \in Packet /\ p.id \in 1..Len(cmds) /\ (p.kind # "data" => p.kind = cmds[p.id].op)
  BY FlyingIs DEF Flight
<1>2. p.id \in Nat
  BY <1>1 DEF Packet
<1>3. CASE p.kind = "data"
  BY <1>1, <1>2, <1>3, PacketIs, DataIs
<1>4. CASE p.kind # "data"
  BY <1>1, <1>4, PacketIs, AnswerIs
<1>5. QED
  BY <1>1, <1>3, <1>4

Settles == \A p \in Packet : ~Known(p) /\ Flying(p)' => Flying(p)
CmdsKept ==
  /\ Len(cmds) <= Len(cmds')
  /\ \A c \in 1..Len(cmds) : /\ cmds'[c].op = cmds[c].op /\ cmds'[c].sent = cmds[c].sent
                             /\ cmds'[c].answer = cmds[c].answer
  /\ \A c \in 1..Len(cmds') : c > Len(cmds) => cmds'[c].sent = 0 /\ cmds'[c].answer = 0
UnsentKept == Unsent' => cmds'[stack'[1].cmd].sent = 0

LEMMA FlightKept ==
  ASSUME Types, Types', Flight, Settles, CmdsKept
  PROVE  Flight'
<1>1. SUFFICES ASSUME NEW p \in Packet, Flying(p)', ~Known(p)
      PROVE  /\ p.id \in 1..Len(cmds') /\ cmds'[p.id].sent = 1
             /\ p.kind = "data" => cmds'[p.id].op = "recv"
             /\ p.kind # "data" => /\ p.kind = cmds'[p.id].op
                                   /\ \A c \in 1..Len(cmds') : cmds'[c].answer # p.id
  BY DEF Flight, Known
<1>2. Flying(p)
  BY <1>1 DEF Settles
<1>3. /\ p.id \in 1..Len(cmds) /\ cmds[p.id].sent = 1
      /\ p.kind = "data" => cmds[p.id].op = "recv"
      /\ p.kind # "data" => /\ p.kind = cmds[p.id].op
                            /\ \A c \in 1..Len(cmds) : cmds[c].answer # p.id
  BY <1>1, <1>2 DEF Flight
<1>4. Len(cmds) \in Nat /\ Len(cmds') \in Nat
  BY DEF Types
<1>5. p.id \in 1..Len(cmds') /\ p.id # 0
  BY <1>3, <1>4 DEF CmdsKept
<1>6. \A c \in 1..Len(cmds') : c \in 1..Len(cmds) \/ c > Len(cmds)
  BY <1>4
<1>7. QED
  BY <1>3, <1>5, <1>6 DEF CmdsKept

LEMMA SendingKept ==
  ASSUME Types, Types', Sending, CmdsKept, UnsentKept
  PROVE  Sending'
<1>1. Len(cmds) \in Nat /\ Len(cmds') \in Nat
  BY DEF Types
<1>2. \A c \in 1..Len(cmds') : c \in 1..Len(cmds) \/ c > Len(cmds)
  BY <1>1
<1>3. 1..Len(cmds) \subseteq 1..Len(cmds')
  BY <1>1 DEF CmdsKept
<1>4. QED
  BY <1>2, <1>3, SMTT(30) DEF Sending, CmdsKept, UnsentKept

(* Nothing new is to come, and what was read or taken has left its place.  *)
LEMMA OnceKept ==
  ASSUME Types, Types', Flight, Once, Settles, CmdsKept, chip'.todo = chip.todo,
         \/ (rx' = rx \/ Known(rx')) /\ (chip'.out = chip.out \/ Known(chip'.out))
         \/ rx' = chip.out /\ Known(chip'.out)
  PROVE  Once'
<1>1. /\ ~Known(rx') => rx' # chip'.out /\ \A k \in 1..Len(chip.todo) : rx' # chip.todo[k]
      /\ ~Known(chip'.out) => \A k \in 1..Len(chip.todo) : chip'.out # chip.todo[k]
  BY DEF Once
<1>2. ASSUME NEW a \in 1..Len(cmds'), Flying(Data(a))', NEW k \in 1..Len(chip.todo)
      PROVE  chip.todo[k] # Answer(a)'
  <2>1. a \in Nat
    OBVIOUS
  <2>2. Flying(Data(a)) /\ a \in 1..Len(cmds)
    BY <1>2, <2>1, DataIs DEF Settles, Flight, Data
  <2>3. Answer(a)' = Answer(a)
    BY <2>2 DEF Answer, CmdsKept
  <2>4. QED
    BY <1>2, <2>2, <2>3 DEF Once
<1>3. QED
  BY <1>1, <1>2 DEF Once, Known

LEMMA SettledTodo ==
  ASSUME Types, Types', Packets, CmdsKept, UnsentKept, chip'.todo = chip.todo,
         \/ (rx' = rx \/ Known(rx')) /\ (chip'.out = chip.out \/ Known(chip'.out))
         \/ rx' = chip.out /\ Known(chip'.out)
  PROVE  Packets'
<1>1. Settles
  BY DEF Settles, Flying
<1>2. QED
  BY <1>1, FlightKept, SendingKept, OnceKept DEF Packets

LEMMA HeadOut ==
  ASSUME Types, Types', Packets, cmds' = cmds, UnsentKept, rx' = rx,
         chip.todo # <<>>, chip'.out = Head(chip.todo), chip'.todo = Tail(chip.todo)
  PROVE  Packets'
<1>1. /\ chip'.out = chip.todo[1] /\ Len(chip.todo) \in Nat \ {0}
      /\ Len(chip'.todo) = Len(chip.todo) - 1
      /\ \A k \in 1..(Len(chip.todo) - 1) : chip'.todo[k] = chip.todo[k + 1]
  BY FlyingIs, PopOf
<1>2. \A k \in 1..Len(chip'.todo) : k + 1 \in 1..Len(chip.todo) /\ chip'.todo[k] = chip.todo[k + 1]
  BY <1>1
<1>3. 1 \in 1..Len(chip.todo) /\ \A k \in 1..Len(chip'.todo) : k + 1 # 1
  BY <1>1
<1>4. Settles
  BY <1>1, <1>2, <1>3 DEF Settles, Flying
<1>5. CmdsKept
  BY DEF CmdsKept, Types
<1>6. Once'
  <2>1. ~Known(rx) => rx # chip'.out /\ \A k \in 1..Len(chip'.todo) : rx # chip'.todo[k]
    BY <1>1, <1>2, <1>3 DEF Packets, Once
  <2>2. \A k \in 1..Len(chip'.todo) : chip'.out # chip'.todo[k] /\ ~Known(chip'.todo[k])
    BY <1>1, <1>2, <1>3 DEF Packets, Once
  <2>3. \A k, l \in 1..Len(chip'.todo) : chip'.todo[k] = chip'.todo[l] => k = l
    <3>1. \A k, l \in 1..Len(chip'.todo) : k + 1 = l + 1 => k = l
      OBVIOUS
    <3>2. QED
      BY <1>2, <3>1 DEF Packets, Once
  <2>4. ASSUME NEW a \in 1..Len(cmds), Flying(Data(a))', NEW k \in 1..Len(chip'.todo)
        PROVE  chip'.todo[k] # Answer(a)
    <3>1. Flying(Data(a))
      BY <1>4, <2>4, DataIs DEF Settles, Data
    <3>2. QED
      BY <1>2, <3>1 DEF Packets, Once
  <2>5. QED
    BY <2>1, <2>2, <2>3, <2>4 DEF Once, Answer, Known
<1>7. QED
  BY <1>4, <1>5, <1>6, FlightKept, SendingKept DEF Packets

LEMMA AnnouncesPackets ==
  ASSUME Types, Types', Packets, UnsentKept, rx' = rx, Announces, chip'.out = Head(chip.todo)
  PROVE  Packets'
<1> DEFINE h == chip.todo[1]
<1>1. /\ h = Head(chip.todo) /\ Len(chip.todo) \in Nat \ {0} /\ 1 \in 1..Len(chip.todo)
      /\ h \in Packet /\ ~Known(h) /\ Flying(h)
  BY FlyingIs, PopOf DEF Announces, Packets, Once, Flying
<1>2. /\ h.id \in 1..Len(cmds) /\ h = Answer(h.id) /\ h.kind = "recv"
      /\ cmds[h.id].sent = 1 /\ cmds[h.id].op = "recv"
  BY <1>1, FlyingOf DEF Announces, Packets, Flight
<1> DEFINE d == Data(h.id)
<1>3. d \in Packet /\ ~Known(d) /\ d.kind = "data" /\ d.id = h.id
  BY <1>2, DataIs
<1>4. chip'.todo = <<d>> \o Tail(chip.todo)
  BY <1>1 DEF Announces, Sets
<1>5. /\ Len(chip'.todo) = Len(chip.todo) /\ chip'.todo[1] = d
      /\ \A k \in 2..Len(chip.todo) : chip'.todo[k] = chip.todo[k]
  BY <1>1, <1>3, <1>4, FlyingIs, PutOf, SMTT(30) DEF Announces
<1>6. Changes(h.id, [cmds[h.id] EXCEPT !.owes = TRUE])
  BY <1>1, <1>2 DEF Announces
<1>7. CmdsKept
  <2>1. Len(cmds') = Len(cmds) /\ cmds[h.id] \in CommandType
    BY <1>2, <1>6 DEF Changes, Types
  <2>2. /\ cmds'[h.id].op = cmds[h.id].op /\ cmds'[h.id].sent = cmds[h.id].sent
        /\ cmds'[h.id].answer = cmds[h.id].answer
    BY <1>6, <2>1 DEF Changes, CommandType
  <2>3. Len(cmds) <= Len(cmds') /\ \A c \in 1..Len(cmds') : ~(c > Len(cmds))
    BY <2>1 DEF Types
  <2>4. QED
    BY <1>6, <2>2, <2>3 DEF CmdsKept, Changes
<1> HIDE DEF h, d
<1>8. \A k \in 1..Len(chip.todo) : k = 1 \/ k \in 2..Len(chip.todo)
  BY <1>1
<1>9. \A p : Flying(p)' => p = d \/ Flying(p)
  <2>1. \A k \in 1..Len(chip'.todo) : chip'.todo[k] = d \/ chip'.todo[k] = chip.todo[k]
    BY <1>5, <1>8
  <2>2. chip'.out = chip.todo[1]
    BY <1>1 DEF h
  <2>3. QED
    BY <1>1, <1>5, <2>1, <2>2 DEF Flying
<1>10. ~Flying(d)
  <2>1. chip.todo[1] = Answer(h.id)
    BY <1>2 DEF h
  <2>2. QED
    BY <1>1, <1>2, <2>1 DEF Packets, Once, d
<1>11. Flight'
  <2>1. SUFFICES ASSUME NEW p \in Packet, Flying(p)', ~Known(p)
        PROVE  /\ p.id \in 1..Len(cmds') /\ cmds'[p.id].sent = 1
               /\ p.kind = "data" => cmds'[p.id].op = "recv"
               /\ p.kind # "data" => /\ p.kind = cmds'[p.id].op
                                     /\ \A c \in 1..Len(cmds') : cmds'[c].answer # p.id
    BY DEF Flight, Known
  <2>2. Len(cmds') = Len(cmds)
    BY <1>6 DEF Changes
  <2>3. CASE p = d
    BY <1>2, <1>3, <1>7, <2>2, <2>3 DEF CmdsKept
  <2>4. CASE Flying(p)
    <3>1. /\ p.id \in 1..Len(cmds) /\ cmds[p.id].sent = 1
          /\ p.kind = "data" => cmds[p.id].op = "recv"
          /\ p.kind # "data" => /\ p.kind = cmds[p.id].op
                                /\ \A c \in 1..Len(cmds) : cmds[c].answer # p.id
      BY <2>1, <2>4 DEF Packets, Flight
    <3>2. QED
      BY <1>7, <2>2, <3>1 DEF CmdsKept
  <2>5. QED
    BY <1>9, <2>1, <2>3, <2>4
<1>12. Once'
  <2>1. \A k \in 2..Len(chip.todo) : chip.todo[k] # h /\ chip.todo[k] # d
    <3>1. \A k \in 2..Len(chip.todo) : k \in 1..Len(chip.todo) /\ k # 1
      BY <1>1
    <3>2. QED
      BY <1>1, <1>10, <3>1 DEF Packets, Once, Flying, h
  <2>2. h # d
    BY <1>2, <1>3
  <2>3. chip'.out = h
    BY <1>1
  <2>4. ~Known(rx) => rx # chip'.out /\ \A k \in 1..Len(chip'.todo) : rx # chip'.todo[k]
    BY <1>1, <1>5, <1>8, <1>10, <2>3 DEF Packets, Once, Flying, h
  <2>5. \A k \in 1..Len(chip'.todo) : chip'.out # chip'.todo[k] /\ ~Known(chip'.todo[k])
    BY <1>3, <1>5, <1>8, <2>1, <2>2, <2>3 DEF Packets, Once
  <2>6. \A k, l \in 1..Len(chip'.todo) : chip'.todo[k] = chip'.todo[l] => k = l
    BY <1>5, <1>8, <2>1 DEF Packets, Once
  <2>7. ASSUME NEW a \in 1..Len(cmds), Flying(Data(a))', NEW k \in 1..Len(chip'.todo)
        PROVE  chip'.todo[k] # Answer(a)
    <3>1. a \in Nat /\ Data(a).id = a /\ Answer(a).kind # "data"
      BY DataIs, AnswerIs
    <3>2. CASE k = 1
      BY <1>3, <1>5, <3>1, <3>2
    <3>3. CASE k \in 2..Len(chip.todo)
      <4>1. k \in 1..Len(chip.todo) /\ chip'.todo[k] = chip.todo[k]
        BY <1>1, <1>5, <3>3
      <4>2. CASE Data(a) = d
        BY <1>2, <1>3, <2>1, <3>1, <3>3, <4>1, <4>2
      <4>3. CASE Flying(Data(a))
        BY <4>1, <4>3 DEF Packets, Once
      <4>4. QED
        BY <1>9, <2>7, <4>2, <4>3
    <3>4. QED
      BY <1>5, <1>8, <3>2, <3>3
  <2>8. \A a \in 1..Len(cmds') : a \in 1..Len(cmds) /\ Answer(a)' = Answer(a)
    BY <1>6, <1>7 DEF Changes, CmdsKept, Answer
  <2>9. QED
    BY <2>4, <2>5, <2>6, <2>7, <2>8 DEF Once, Known
<1>13. QED
  BY <1>7, <1>11, <1>12, SendingKept DEF Packets

LEMMA PostsPackets ==
  ASSUME Types, Types', Packets, Posts, Unsent' => FALSE
  PROVE  Packets'
<1> DEFINE n == Tx
<1> DEFINE o == Owed(Tx)
<1>1. /\ n \in 1..Len(cmds) /\ n \in Nat /\ Len(cmds') = Len(cmds) /\ cmds[n] \in CommandType
      /\ cmds[n].sent = 0
  BY DEF Posts, Types, Tx, Packets, Sending, Changes
<1>2. /\ o \in Packet /\ o = Answer(n) /\ ~Known(o) /\ o.id = n /\ o.kind = cmds[n].op
      /\ o.kind # "data"
  BY <1>1, AnswerIs DEF Owed, Answer
<1>3. /\ Len(chip'.todo) = Len(chip.todo) + 1 /\ Len(chip.todo) \in Nat
      /\ chip'.todo[Len(chip.todo) + 1] = o
      /\ \A k \in 1..Len(chip.todo) : chip'.todo[k] = chip.todo[k]
      /\ chip'.out = chip.out /\ rx' = rx
  BY <1>2, FlyingIs DEF Posts
<1>4. /\ \A c \in 1..Len(cmds) : cmds'[c].op = cmds[c].op /\ cmds'[c].answer = cmds[c].answer
      /\ \A c \in 1..Len(cmds) : c # n => cmds'[c].sent = cmds[c].sent
      /\ cmds'[n].sent = 1
  <2>1. Changes(n, [cmds[n] EXCEPT !.sent = cmds[n].sent + 1])
    BY DEF Posts
  <2>2. cmds'[n].op = cmds[n].op /\ cmds'[n].answer = cmds[n].answer /\ cmds'[n].sent = 1
    BY <1>1, <2>1 DEF Changes, CommandType
  <2>3. QED
    BY <2>1, <2>2 DEF Changes
<1> HIDE DEF n, o
<1>5. ASSUME NEW p \in Packet, Flying(p), ~Known(p)
      PROVE  /\ p.id \in 1..Len(cmds) /\ p.id # n
  BY <1>1, <1>5 DEF Packets, Flight
<1>6. ~Flying(o)
  BY <1>2, <1>5
<1>7. \A k \in 1..Len(chip'.todo) : k \in 1..Len(chip.todo) \/ k = Len(chip.todo) + 1
  BY <1>3
<1>8. \A p : Flying(p)' => p = o \/ Flying(p)
  BY <1>3, <1>7 DEF Flying
<1>9. Flight'
  <2>1. SUFFICES ASSUME NEW p \in Packet, Flying(p)', ~Known(p)
        PROVE  /\ p.id \in 1..Len(cmds') /\ cmds'[p.id].sent = 1
               /\ p.kind = "data" => cmds'[p.id].op = "recv"
               /\ p.kind # "data" => /\ p.kind = cmds'[p.id].op
                                     /\ \A c \in 1..Len(cmds') : cmds'[c].answer # p.id
    BY DEF Flight, Known
  <2>2. CASE p = o
    <3>1. \A c \in 1..Len(cmds) : cmds[c].answer # n
      BY <1>1 DEF Packets, Sending
    <3>2. QED
      BY <1>1, <1>2, <1>4, <2>2, <3>1
  <2>3. CASE Flying(p)
    <3>1. /\ p.id \in 1..Len(cmds) /\ cmds[p.id].sent = 1
          /\ p.kind = "data" => cmds[p.id].op = "recv"
          /\ p.kind # "data" => /\ p.kind = cmds[p.id].op
                                /\ \A c \in 1..Len(cmds) : cmds[c].answer # p.id
      BY <2>1, <2>3 DEF Packets, Flight
    <3>2. QED
      BY <1>1, <1>4, <1>5, <2>1, <2>3, <3>1
  <2>4. QED
    BY <1>8, <2>1, <2>2, <2>3
<1>10. Once'
  <2>1. ~Known(rx) => rx # chip'.out /\ \A k \in 1..Len(chip'.todo) : rx # chip'.todo[k]
    BY <1>3, <1>6, <1>7 DEF Packets, Once, Flying
  <2>2. ~Known(chip'.out) => \A k \in 1..Len(chip'.todo) : chip'.out # chip'.todo[k]
    BY <1>3, <1>6, <1>7 DEF Packets, Once, Flying
  <2>3. \A k, l \in 1..Len(chip'.todo) : chip'.todo[k] = chip'.todo[l] => k = l
    BY <1>3, <1>6, <1>7 DEF Packets, Once, Flying
  <2>4. \A k \in 1..Len(chip'.todo) : ~Known(chip'.todo[k])
    BY <1>2, <1>3, <1>7 DEF Packets, Once
  <2>5. ASSUME NEW a \in 1..Len(cmds), Flying(Data(a))', NEW k \in 1..Len(chip'.todo)
        PROVE  chip'.todo[k] # Answer(a)
    <3>1. Data(a) \in Packet /\ ~Known(Data(a)) /\ Data(a).id = a /\ Data(a).kind = "data"
      BY DataIs
    <3>2. Flying(Data(a)) /\ a # n
      BY <1>2, <1>5, <1>8, <2>5, <3>1
    <3>3. Answer(a) # o
      BY <1>2, <3>2, AnswerIs
    <3>4. QED
      BY <1>3, <1>7, <3>2, <3>3 DEF Packets, Once
  <2>6. \A a \in 1..Len(cmds') : a \in 1..Len(cmds) /\ Answer(a)' = Answer(a)
    BY <1>1, <1>4 DEF Answer
  <2>7. QED
    BY <1>3, <2>1, <2>2, <2>3, <2>4, <2>5, <2>6 DEF Once, Known
<1>11. Sending'
  <2>1. \A c \in 1..Len(cmds) : cmds'[c].sent \in {0, 1} /\ (cmds[c].sent = 1 => cmds'[c].sent = 1)
    BY <1>4 DEF Packets, Sending
  <2>2. QED
    BY <1>1, <1>4, <2>1 DEF Packets, Sending
<1>12. QED
  BY <1>9, <1>10, <1>11 DEF Packets

(* An answer is taken by a command; a packet of data is.                   *)
LEMMA TakenPackets ==
  ASSUME Types, Types', Packets, Gets \/ GetsData, ~Unsent'
  PROVE  Packets'
<1> DEFINE c == stack[1].cmd
<1>1. /\ c \in 1..Len(cmds) /\ cmds[c] \in CommandType /\ rx' = NoPacket /\ chip'.out = chip.out
      /\ chip'.todo = chip.todo /\ ~Known(rx) /\ rx \in Packet /\ Known(rx')
  <2>1. rx.kind = "data" => ~Known(rx)
    BY DEF Known, Unsolicited
  <2>2. QED
    BY <2>1, FlyingIs DEF Gets, GetsData, InLoop, Beside, Types
<1>2. /\ rx.id \in 1..Len(cmds) /\ rx.id \in Nat /\ cmds[rx.id].sent = 1
      /\ rx.kind # "data" => \A e \in 1..Len(cmds) : cmds[e].answer # rx.id
  BY <1>1 DEF Packets, Flight, Flying, Packet
<1>3. Settles
  BY <1>1 DEF Settles, Flying
<1>4. /\ Len(cmds') = Len(cmds) /\ Len(cmds) \in Nat
      /\ \A e \in 1..Len(cmds) : cmds'[e].op = cmds[e].op /\ cmds'[e].sent = cmds[e].sent
  <2>1. CASE Gets
    <3>1. Changes(c, [cmds[c] EXCEPT !.answer = rx.id])
      BY <2>1 DEF Gets
    <3>2. cmds'[c].op = cmds[c].op /\ cmds'[c].sent = cmds[c].sent
      BY <1>1, <3>1 DEF Changes, CommandType
    <3>3. \A e \in 1..Len(cmds) : e # c => cmds'[e] = cmds[e]
      BY <3>1 DEF Changes
    <3>4. Len(cmds') = Len(cmds) /\ Len(cmds) \in Nat
      BY <3>1 DEF Changes, Types
    <3>5. QED
      BY <3>2, <3>3, <3>4
  <2>2. CASE GetsData
    <3>1. Changes(c, [cmds[c] EXCEPT !.datum = rx.id])
      BY <2>2 DEF GetsData
    <3>2. cmds'[c].op = cmds[c].op /\ cmds'[c].sent = cmds[c].sent
      BY <1>1, <3>1 DEF Changes, CommandType
    <3>3. \A e \in 1..Len(cmds) : e # c => cmds'[e] = cmds[e]
      BY <3>1 DEF Changes
    <3>4. Len(cmds') = Len(cmds) /\ Len(cmds) \in Nat
      BY <3>1 DEF Changes, Types
    <3>5. QED
      BY <3>2, <3>3, <3>4
  <2>3. QED
    BY <2>1, <2>2
<1>5. /\ \A e \in 1..Len(cmds) : e # c => cmds'[e].answer = cmds[e].answer
      /\ cmds'[c].answer = cmds[c].answer \/ (cmds'[c].answer = rx.id /\ rx.kind # "data")
  <2>1. CASE Gets
    <3>1. Changes(c, [cmds[c] EXCEPT !.answer = rx.id]) /\ rx.kind # "data"
      BY <2>1 DEF Gets
    <3>2. cmds'[c].answer = rx.id
      BY <1>1, <3>1 DEF Changes, CommandType
    <3>3. \A e \in 1..Len(cmds) : e # c => cmds'[e].answer = cmds[e].answer
      BY <3>1 DEF Changes
    <3>4. QED
      BY <3>1, <3>2, <3>3
  <2>2. CASE GetsData
    <3>1. Changes(c, [cmds[c] EXCEPT !.datum = rx.id])
      BY <2>2 DEF GetsData
    <3>2. cmds'[c].answer = cmds[c].answer
      BY <1>1, <3>1 DEF Changes, CommandType
    <3>3. \A e \in 1..Len(cmds) : e # c => cmds'[e].answer = cmds[e].answer
      BY <3>1 DEF Changes
    <3>4. QED
      BY <3>2, <3>3
  <2>3. QED
    BY <2>1, <2>2
<1> HIDE DEF c
<1>6. Flight'
  <2>1. SUFFICES ASSUME NEW p \in Packet, Flying(p)', ~Known(p)
        PROVE  /\ p.id \in 1..Len(cmds') /\ cmds'[p.id].sent = 1
               /\ p.kind = "data" => cmds'[p.id].op = "recv"
               /\ p.kind # "data" => /\ p.kind = cmds'[p.id].op
                                     /\ \A e \in 1..Len(cmds') : cmds'[e].answer # p.id
    BY DEF Flight, Known
  <2>2. /\ p.id \in 1..Len(cmds) /\ cmds[p.id].sent = 1
        /\ p.kind = "data" => cmds[p.id].op = "recv"
        /\ p.kind # "data" => /\ p.kind = cmds[p.id].op
                              /\ \A e \in 1..Len(cmds) : cmds[e].answer # p.id
    BY <1>3, <2>1 DEF Packets, Flight, Settles
  <2>3. p # rx
    BY <1>1, <2>1 DEF Packets, Once, Flying
  <2>4. p.kind # "data" /\ rx.kind # "data" => p.id # rx.id
    <3>1. rx.kind # "data" => rx.kind = cmds[rx.id].op
      BY <1>1 DEF Packets, Flight, Flying
    <3>2. QED
      BY <1>1, <2>2, <2>3, <3>1, PacketIs
  <2>5. QED
    BY <1>4, <1>5, <2>2, <2>4
<1>7. Sending'
  BY <1>2, <1>4, <1>5 DEF Packets, Sending
<1>8. Once'
  <2>1. /\ Known(rx') /\ chip'.out = chip.out /\ chip'.todo = chip.todo
        /\ \A a : Flying(Data(a))' /\ a \in 1..Len(cmds) => Flying(Data(a))
    BY <1>1, <1>3, DataIs DEF Settles, Data
  <2>2. \A a \in 1..Len(cmds') : a \in 1..Len(cmds) /\ Answer(a)' = Answer(a)
    BY <1>4 DEF Answer
  <2>3. QED
    BY <2>1, <2>2 DEF Packets, Once, Known
<1>9. QED
  BY <1>6, <1>7, <1>8 DEF Packets

(* Nothing is left where the chip is switched on or off.                   *)
LEMMA WipedPackets ==
  ASSUME Types, Types', Packets, CmdsKept, UnsentKept,
         rx' \in {rx, NoPacket}, chip'.out = NoPacket, chip'.todo = <<>>
  PROVE  Packets'
<1>1. \A p : Flying(p)' => p = NoPacket \/ p = rx
  BY DEF Flying
<1>2. Known(NoPacket) /\ Len(chip'.todo) = 0
  BY DEF Known, NoPacket
<1>3. Settles
  BY <1>1, <1>2 DEF Settles, Flying
<1>4. Once'
  BY <1>2 DEF Once, Known
<1>5. QED
  BY <1>3, <1>4, FlightKept, SendingKept DEF Packets

LEMMA AddsKept ==
  ASSUME Types, Types', NEW op \in Op, Adds(op)
  PROVE  CmdsKept /\ cmds'[Len(cmds) + 1].sent = 0
<1>1. /\ Len(cmds') = Len(cmds) + 1 /\ cmds'[Len(cmds) + 1] = NewCommand(op)
      /\ \A c \in 1..Len(cmds) : cmds'[c] = cmds[c]
      /\ Len(cmds) \in Nat
  BY DEF Adds, Types
<1>2. NewCommand(op).sent = 0 /\ NewCommand(op).answer = 0
  BY DEF NewCommand
<1>3. \A c \in 1..Len(cmds') : c > Len(cmds) => c = Len(cmds) + 1
  BY <1>1
<1>4. QED
  BY <1>1, <1>2, <1>3 DEF CmdsKept

LEMMA SameCmds ==
  ASSUME Types, cmds' = cmds
  PROVE  CmdsKept
BY DEF CmdsKept, Types

LEMMA ReleasesTop ==
  ASSUME Types, Frames, Releases, Len(stack') >= 1
  PROVE  /\ Len(stack) >= 2 /\ stack'[1] = stack[2]
         /\ stack[2].at \in {"check", "handled", "next"}
<1>1. Len(stack) \in Nat /\ Len(stack') = Len(stack) - 1
  BY DEF Releases, Pops, Types
<1>2. 1 \in 1..(Len(stack) - 1) /\ 2 \in 1..Len(stack) /\ Len(stack) >= 2
  BY <1>1
<1>3. stack'[1] = stack[2]
  BY <1>2 DEF Releases, Pops
<1>4. QED
  BY <1>2, <1>3 DEF Frames, FrameOK

LEMMA PacketsStep ==
  ASSUME Types, Types', Frames, Packets, Kinds
  PROVE  Packets'
<1>1. Unsent => cmds[stack[1].cmd].sent = 0
  BY DEF Packets, Sending
<1>2. Known(NoPacket)
  BY FlyingIs
<1>3. ASSUME NEW at \in Places \ Before, Turns(at) \/ Grows(at) PROVE ~Unsent'
  BY <1>3 DEF Turns, Grows, Unsent, Before
<1>4. CASE ChipActs
  <2>1. UNCHANGED <<stack, spi, rx>>
    BY <1>4 DEF ChipActs
  <2>2. CASE cmds' = cmds
    <3>1. CmdsKept /\ UnsentKept
      BY <1>1, <2>1, <2>2, SameCmds DEF UnsentKept, Unsent, Busy
    <3>2. QED
      BY <1>4, <2>1, <2>2, <3>1, SettledTodo, HeadOut, AnnouncesPackets DEF ChipActs
  <2>3. CASE Announces
    <3>1. Unsent => cmds'[stack[1].cmd].sent = 0
      <4>1. Unsent => stack[1].cmd \in 1..Len(cmds)
        BY TopIs, Working DEF Unsent, Before
      <4>2. \A i \in 1..Len(cmds) : cmds[i] \in CommandType
        BY DEF Types
      <4>3. \A i \in 1..Len(cmds) : cmds'[i].sent = cmds[i].sent
        BY <2>3, <4>2 DEF Announces, Changes, CommandType
      <4>4. QED
        BY <1>1, <4>1, <4>3
    <3>2. UnsentKept
      BY <2>1, <3>1 DEF UnsentKept, Unsent, Busy
    <3>3. QED
      BY <1>2, <1>4, <2>1, <2>3, <3>2, AnnouncesPackets DEF ChipActs, Announces, Sets
  <2>4. QED
    BY <1>4, <2>2, <2>3 DEF ChipActs
<1>5. ASSUME cmds' = cmds, UnsentKept, chip'.todo = chip.todo,
             \/ (rx' = rx \/ Known(rx')) /\ (chip'.out = chip.out \/ Known(chip'.out))
             \/ rx' = chip.out /\ Known(chip'.out)
      PROVE  Packets'
  BY <1>5, SameCmds, SettledTodo
<1>6. CASE Enters
  BY <1>5, <1>6 DEF Enters, Quiet, Still, UnsentKept, Unsent, Before
<1>7. CASE Commands
  <2>1. CmdsKept /\ UnsentKept
    BY <1>7, AddsKept DEF Commands, UnsentKept
  <2>2. QED
    BY <1>7, <2>1, SettledTodo, WipedPackets DEF Commands, Still, Packets
<1>8. CASE Works
  <2>1. stack'[1].cmd = stack[1].cmd /\ (Unsent' => Unsent)
    BY <1>8 DEF Works, Turns
  <2>2. UnsentKept
    BY <1>1, <1>8, <2>1 DEF Works, Quiet, UnsentKept
  <2>3. QED
    BY <1>5, <1>8, <2>2 DEF Works, Quiet, Still
<1>9. CASE Sends
  BY <1>9, PostsPackets DEF Sends
<1>10. CASE StartsWaiting
  <2>1. ~Unsent'
    BY <1>3, <1>10 DEF StartsWaiting, Before, Places
  <2>2. QED
    BY <1>5, <1>10, <2>1, PostsPackets DEF StartsWaiting, Still, UnsentKept
<1>11. ASSUME NEW at \in Places \ Before, TurnsOrGrows(at) PROVE ~Unsent'
  BY <1>3, <1>11 DEF TurnsOrGrows, Before, Places
<1>12. ASSUME NEW at \in {"check", "next"}, Hears(at) PROVE Packets'
  <2>1. at \in Places \ Before
    BY DEF Places, Before
  <2>2. ~Unsent'
    BY <1>11, <1>12, <2>1 DEF Hears, TurnsOrGrows
  <2>3. QED
    BY <1>2, <1>5, <1>12, <2>2 DEF Hears, Quiet, UnsentKept
<1>13. CASE HandlesAgain
  <2>1. ~Unsent'
    BY <1>11, <1>13 DEF HandlesAgain, Places, Before
  <2>2. QED
    BY <1>5, <1>13, <2>1 DEF HandlesAgain, Quiet, Beside, UnsentKept
<1>14. Finishes \/ Turns("await") => ~Unsent'
  BY <1>3 DEF Finishes, Places, Before
<1>15. CASE Gets \/ GetsData
  BY <1>14, <1>15, TakenPackets DEF Gets, GetsData
<1>16. CASE Drops
  BY <1>2, <1>5, <1>14, <1>16 DEF Drops, Quiet, Beside, UnsentKept
<1>17. CASE GivesUp \/ GoesOn
  BY <1>5, <1>14, <1>17 DEF GivesUp, GoesOn, Quiet, Still, UnsentKept
<1>18. CASE WaitsForData
  <2>1. ~Unsent'
    BY <1>18 DEF WaitsForData, Unsent, Before
  <2>2. QED
    BY <1>5, <1>18, <2>1 DEF WaitsForData, Still, UnsentKept
<1>19. CASE Returns
  <2>1. ~Unsent'
    BY <1>3, <1>19 DEF Returns, Places, Before
  <2>2. QED
    BY <1>5, <1>19, <2>1 DEF Returns, Quiet, Still, UnsentKept
<1>20. CASE Releases
  <2>1. Len(stack') \in Nat /\ (Len(stack') >= 1 \/ ~Busy')
    BY DEF Busy, Types
  <2>2. ~Unsent'
    BY <1>20, <2>1, ReleasesTop DEF Unsent, Before
  <2>3. CmdsKept /\ UnsentKept
    BY <1>20, <2>2, SameCmds DEF Releases, Quiet, UnsentKept
  <2>4. QED
    BY <1>2, <1>20, <2>3, SettledTodo, WipedPackets DEF Releases
<1>21. QED
  BY <1>4, <1>6, <1>7, <1>8, <1>9, <1>10, <1>12, <1>13, <1>15, <1>16, <1>17, <1>18, <1>19, <1>20
     DEF Kinds

-----------------------------------------------------------------------------
(* Frames and waits, for each change of the stack.                         *)

(* What the steps have in common: commands keep their opcode, and what is  *)
(* given up stays so.                                                      *)
Onward ==
  /\ OpsKept
  /\ hist.forsaken \subseteq hist'.forsaken
  /\ hist'.forsaken \subseteq hist.forsaken \union (1..Len(cmds))

LEMMA GivenUpStays ==
  ASSUME Types, hist.forsaken \subseteq 1..Len(cmds), Onward, NEW op, GivenUp(op)
  PROVE  GivenUp(op)'
BY DEF GivenUp, Onward, OpsKept

LEMMA ForsakenIs ==
  ASSUME Types, Types', hist.forsaken \subseteq 1..Len(cmds), Onward
  PROVE  hist'.forsaken \subseteq 1..Len(cmds')
<1>1. Len(cmds) \in Nat /\ Len(cmds') \in Nat /\ Len(cmds) <= Len(cmds')
  BY DEF Types, Onward, OpsKept
<1>2. 1..Len(cmds) \subseteq 1..Len(cmds')
  BY <1>1
<1>3. QED
  BY <1>2 DEF Onward

LEMMA FrameIs ==
  ASSUME Types, Frames, NEW i \in 1..Len(stack)
  PROVE  /\ stack[i] \in FrameType /\ stack[i].cmd \in 0..Len(cmds) /\ stack[i].cmd \in Nat
         /\ stack[i].cmd # 0 => stack[i].cmd \in 1..Len(cmds)
         /\ stack[i].data \in BOOLEAN
<1>1. stack[i] \in FrameType /\ stack[i].cmd \in 0..Len(cmds) /\ Len(cmds) \in Nat
  BY DEF Types, Frames, FrameOK
<1>2. QED
  BY <1>1 DEF FrameType

(* The running frame changes its place.                                    *)
Steers ==
  /\ Len(stack) >= 1 /\ Len(stack') = Len(stack) /\ stack'[1].cmd = stack[1].cmd
  /\ \A i \in 2..Len(stack) : stack'[i] = stack[i]
BelowForsaken == \A j \in 2..Len(stack) : stack[j].cmd \in hist'.forsaken \union {0}

LEMMA SteersNested ==
  ASSUME Types, Types', Frames, Nested, Onward, Steers,
         stack'[1].at \notin Before => stack[1].at \notin Before \/ BelowForsaken
  PROVE  Nested'
<1>1. Len(stack) \in Nat /\ \A i \in 1..Len(stack) : i = 1 \/ i \in 2..Len(stack)
  BY DEF Types
<1>2. ASSUME NEW i \in 1..Len(stack), NEW j \in 1..Len(stack), i < j, stack'[i].cmd # 0
      PROVE  /\ stack'[j].cmd < stack'[i].cmd
             /\ stack'[i].at \notin Before => stack'[j].cmd \in hist'.forsaken \union {0}
  <2>1. j \in 2..Len(stack) /\ stack'[j] = stack[j] /\ stack'[i].cmd = stack[i].cmd
    BY <1>1, <1>2 DEF Steers
  <2>2. stack[j].cmd < stack[i].cmd
    BY <1>2, <2>1 DEF Nested
  <2>3. CASE i = 1
    BY <1>2, <2>1, <2>2, <2>3 DEF Nested, Onward, BelowForsaken
  <2>4. CASE i \in 2..Len(stack)
    BY <1>2, <2>1, <2>2, <2>4 DEF Nested, Onward, Steers
  <2>5. QED
    BY <1>1, <1>2, <2>3, <2>4
<1>3. QED
  BY <1>2, ForsakenIs DEF Nested, Steers

LEMMA SteersData ==
  ASSUME Types, Types', Frames, DataWaits, Onward, Steers,
         stack'[1].data => /\ stack[1].data \/ (stack[1].cmd # 0 /\ cmds[stack[1].cmd].op = "recv")
                           /\ stack'[1].at \notin Before
  PROVE  DataWaits'
<1>1. Len(stack) \in Nat /\ \A i \in 1..Len(stack) : i = 1 \/ i \in 2..Len(stack)
  BY DEF Types
<1>2. ASSUME NEW i \in 1..Len(stack), stack'[i].data
      PROVE  stack'[i].cmd # 0 /\ cmds'[stack'[i].cmd].op = "recv" /\ stack'[i].at \notin Before
  <2>1. stack'[i].cmd = stack[i].cmd
    BY <1>1 DEF Steers
  <2>2. stack[i].cmd # 0 /\ cmds[stack[i].cmd].op = "recv" /\ stack'[i].at \notin Before
    BY <1>1, <1>2 DEF Steers, DataWaits
  <2>3. stack[i].cmd \in 1..Len(cmds)
    BY <2>2, FrameIs
  <2>4. QED
    BY <2>1, <2>2, <2>3 DEF Onward, OpsKept
<1>3. QED
  BY <1>2 DEF DataWaits, Steers

LEMMA SteersPending ==
  ASSUME Types, Types', Frames, Nested, DataWaits, PendingKnown, Onward, Steers,
         \/ ~pending'
         \/ pending /\ (stack[1].data /\ stack[1].at \in Waits =>
                          \/ stack'[1].data /\ stack'[1].at \in Waits
                          \/ stack[1].cmd \in hist'.forsaken)
         \/ stack'[1].data /\ stack'[1].at \in Waits
  PROVE  PendingKnown'
<1>1. Len(stack) \in Nat /\ 1 \in 1..Len(stack) /\ \A i \in 1..Len(stack) : i = 1 \/ i \in 2..Len(stack)
  BY DEF Types, Steers
<1>2. CASE GivenUp("recv")
  BY <1>2, GivenUpStays DEF PendingKnown, Nested
<1>3. CASE stack'[1].data /\ stack'[1].at \in Waits
  BY <1>1, <1>3 DEF PendingKnown, Steers
<1>4. CASE /\ pending /\ ~GivenUp("recv")
           /\ stack[1].data /\ stack[1].at \in Waits => stack[1].cmd \in hist'.forsaken
  <2>1. PICK i \in 1..Len(stack) : stack[i].data /\ stack[i].at \in Waits
    BY <1>4 DEF PendingKnown
  <2>2. CASE i = 1
    <3>1. stack[1].cmd \in hist'.forsaken /\ stack[1].cmd \in 1..Len(cmds)
          /\ cmds[stack[1].cmd].op = "recv"
      BY <1>1, <1>4, <2>1, <2>2, FrameIs DEF DataWaits
    <3>2. cmds'[stack[1].cmd].op = "recv"
      BY <3>1 DEF Onward, OpsKept
    <3>3. QED
      BY <3>1, <3>2 DEF PendingKnown, GivenUp
  <2>3. CASE i \in 2..Len(stack)
    BY <2>1, <2>3 DEF PendingKnown, Steers
  <2>4. QED
    BY <1>1, <2>2, <2>3
<1>5. QED
  BY <1>2, <1>3, <1>4 DEF PendingKnown

LEMMA SteersWait ==
  ASSUME Types, Types', Frames, Nested, WaitOwned, Onward, Steers,
         \/ wait' = "none"
         \/ /\ wait' = wait
            /\ stack[1].at \in Waits => stack'[1].at \in Waits \/ stack[1].cmd \in hist'.forsaken
            /\ stack'[1].at \in Waits \union {"returned"} /\ stack[1].cmd # 0 =>
                 stack[1].at \in Waits \union {"returned"}
         \/ /\ stack[1].cmd # 0 /\ wait' = cmds[stack[1].cmd].op /\ stack'[1].at = "await"
            /\ BelowForsaken
  PROVE  WaitOwned'
<1>1. /\ Len(stack) \in Nat /\ 1 \in 1..Len(stack) /\ Len(cmds) \in Nat /\ Len(cmds) <= Len(cmds')
      /\ \A i \in 1..Len(stack) : i = 1 \/ i \in 2..Len(stack)
  BY DEF Types, Steers, Onward, OpsKept
<1>2. SUFFICES ASSUME NEW i \in 1..Len(stack), stack'[i].at \in Waits \union {"returned"},
                      stack'[i].cmd # 0, wait' # "none"
      PROVE  \/ wait' = cmds'[stack'[i].cmd].op
             \/ stack'[i].cmd \in hist'.forsaken /\ Later(stack[i].cmd)'
  BY DEF WaitOwned, Steers
<1>3. stack'[i].cmd = stack[i].cmd /\ stack[i].cmd \in 1..Len(cmds)
  BY <1>1, <1>2, FrameIs DEF Steers
<1>4. cmds'[stack[i].cmd].op = cmds[stack[i].cmd].op
  BY <1>3 DEF Onward, OpsKept
<1> PICK c : c = stack[i].cmd
  OBVIOUS
<1>5. Later(c)' => Later(stack[i].cmd)'
  BY <1>3 DEF Later
<1>6. CASE /\ wait' = wait
           /\ stack[1].at \in Waits => stack'[1].at \in Waits \/ stack[1].cmd \in hist'.forsaken
           /\ stack'[1].at \in Waits \union {"returned"} /\ stack[1].cmd # 0 =>
                stack[1].at \in Waits \union {"returned"}
  <2>1. stack[i].at \in Waits \union {"returned"}
    BY <1>1, <1>2, <1>3, <1>6 DEF Steers
  <2>2. CASE wait = cmds[stack[i].cmd].op
    BY <1>3, <1>4, <1>6, <2>2
  <2>3. CASE stack[i].cmd \in hist.forsaken /\ Later(stack[i].cmd)
    <3>1. PICK d \in 1..Len(cmds) :
            /\ d > stack[i].cmd /\ cmds[d].op = wait
            /\ d \in hist.forsaken \/ \E j \in 1..Len(stack) : stack[j].cmd = d /\ stack[j].at \in Waits
      BY <2>3 DEF Later
    <3>2. d \in 1..Len(cmds') /\ cmds'[d].op = wait'
      BY <1>1, <1>6, <3>1 DEF Onward, OpsKept
    <3>3. d \in hist'.forsaken \/ \E j \in 1..Len(stack') : stack'[j].cmd = d /\ stack'[j].at \in Waits
      BY <1>1, <1>6, <3>1 DEF Onward, Steers
    <3>4. Later(c)'
      BY <3>1, <3>2, <3>3 DEF Later
    <3>5. QED
      BY <1>3, <1>5, <2>3, <3>4 DEF Onward
  <2>4. QED
    BY <1>2, <1>3, <1>6, <2>1, <2>2, <2>3 DEF WaitOwned
<1>7. CASE /\ stack[1].cmd # 0 /\ wait' = cmds[stack[1].cmd].op /\ stack'[1].at = "await"
           /\ BelowForsaken
  <2>1. CASE i = 1
    BY <1>3, <1>4, <1>7, <2>1
  <2>2. CASE i \in 2..Len(stack)
    <3>1. stack[i].cmd \in hist'.forsaken /\ stack[1].cmd \in 1..Len(cmds)
      BY <1>1, <1>3, <1>7, <2>2, FrameIs DEF BelowForsaken
    <3>2. stack[i].cmd < stack[1].cmd
      BY <1>1, <1>7, <2>2 DEF Nested
    <3>3. stack[1].cmd \in 1..Len(cmds') /\ cmds'[stack[1].cmd].op = wait'
      BY <1>1, <1>7, <3>1 DEF Onward, OpsKept
    <3>4. stack'[1].cmd = stack[1].cmd /\ stack'[1].at \in Waits /\ 1 \in 1..Len(stack')
      BY <1>1, <1>7 DEF Steers, Waits
    <3>5. stack[1].cmd > stack[i].cmd
      BY <3>1, <3>2, FrameIs
    <3>6. Later(c)'
      BY <3>3, <3>4, <3>5 DEF Later
    <3>7. QED
      BY <1>3, <1>5, <3>1, <3>6
  <2>3. QED
    BY <1>1, <2>1, <2>2
<1>8. QED
  BY <1>2, <1>6, <1>7

LEMMA SteersWaiters ==
  ASSUME Types, Types', Frames, Waiters, Onward, Steers,
         stack'[1].at \notin Before => stack[1].at \notin Before \/ BelowForsaken,
         stack'[1].data => /\ stack[1].data \/ (stack[1].cmd # 0 /\ cmds[stack[1].cmd].op = "recv")
                           /\ stack'[1].at \notin Before,
         \/ ~pending'
         \/ pending /\ (stack[1].data /\ stack[1].at \in Waits =>
                          \/ stack'[1].data /\ stack'[1].at \in Waits
                          \/ stack[1].cmd \in hist'.forsaken)
         \/ stack'[1].data /\ stack'[1].at \in Waits,
         \/ wait' = "none"
         \/ /\ wait' = wait
            /\ stack[1].at \in Waits => stack'[1].at \in Waits \/ stack[1].cmd \in hist'.forsaken
            /\ stack'[1].at \in Waits \union {"returned"} /\ stack[1].cmd # 0 =>
                 stack[1].at \in Waits \union {"returned"}
         \/ /\ stack[1].cmd # 0 /\ wait' = cmds[stack[1].cmd].op /\ stack'[1].at = "await"
            /\ BelowForsaken
  PROVE  Waiters'
BY SteersNested, SteersData, SteersPending, SteersWait DEF Waiters

(* A report is called from inside a callback.                              *)
LEMMA GrowsWaiters ==
  ASSUME Types, Types', Frames, Waiters, Quiet, NEW at, Grows(at),
         stack[1].at \notin Before, at \notin Before \union {"returned"},
         stack[1].at \in Waits <=> at \in Waits
  PROVE  Waiters'
<1>1. /\ Len(stack) \in Nat /\ 1 \in 1..Len(stack) /\ Len(stack') = Len(stack) + 1
      /\ \A i \in 1..Len(stack) : i = 1 \/ i \in 2..Len(stack)
      /\ \A i \in 1..Len(stack') : i = 1 \/ (i - 1 \in 1..Len(stack) /\ (i - 1) + 1 = i)
      /\ \A i \in 1..Len(stack) : i + 1 \in 1..Len(stack')
  BY DEF Types, Grows
<1>2. stack'[1].cmd = 0 /\ ~stack'[1].data /\ stack'[1].at = "next" /\ "next" \notin Waits
  BY DEF Grows, Waits
<1>3. ASSUME NEW i \in 1..Len(stack)
      PROVE  /\ stack'[i + 1].cmd = stack[i].cmd /\ stack'[i + 1].data = stack[i].data
             /\ stack'[i + 1].at \in Waits <=> stack[i].at \in Waits
             /\ stack'[i + 1].at \in Before <=> stack[i].at \in Before
             /\ stack'[i + 1].at = "returned" => stack[i].at = "returned"
  <2>1. CASE i = 1
    BY <2>1 DEF Grows
  <2>2. CASE i \in 2..Len(stack)
    BY <2>2 DEF Grows
  <2>3. QED
    BY <1>1, <2>1, <2>2
<1>4. /\ wait' = wait /\ pending' = pending /\ cmds' = cmds /\ hist'.forsaken = hist.forsaken
  BY DEF Quiet, SameWait
<1>5. Nested'
  <2>1. ASSUME NEW i \in 1..Len(stack'), NEW j \in 1..Len(stack'), i < j, stack'[i].cmd # 0
        PROVE  /\ stack'[j].cmd < stack'[i].cmd
               /\ stack'[i].at \notin Before => stack'[j].cmd \in hist'.forsaken \union {0}
    <3>1. PICK k \in 1..Len(stack) : k = i - 1 /\ i = k + 1
      BY <1>1, <1>2, <2>1
    <3>2. PICK l \in 1..Len(stack) : l = j - 1 /\ j = l + 1
      BY <1>1, <2>1
    <3>3. k < l
      BY <2>1, <3>1, <3>2
    <3>4. /\ stack'[i].cmd = stack[k].cmd /\ (stack'[i].at \in Before <=> stack[k].at \in Before)
          /\ stack'[j].cmd = stack[l].cmd
      BY <1>3, <3>1, <3>2
    <3>5. /\ stack[l].cmd < stack[k].cmd
          /\ stack[k].at \notin Before => stack[l].cmd \in hist.forsaken \union {0}
      BY <2>1, <3>3, <3>4 DEF Waiters, Nested
    <3>6. QED
      BY <1>4, <3>4, <3>5
  <2>2. QED
    BY <1>4, <2>1 DEF Waiters, Nested
<1>6. DataWaits'
  <2>1. ASSUME NEW i \in 1..Len(stack'), stack'[i].data
        PROVE  stack'[i].cmd # 0 /\ cmds'[stack'[i].cmd].op = "recv" /\ stack'[i].at \notin Before
    <3>1. PICK k \in 1..Len(stack) : k = i - 1 /\ i = k + 1
      BY <1>1, <1>2, <2>1
    <3>2. /\ stack'[i].cmd = stack[k].cmd /\ (stack'[i].at \in Before <=> stack[k].at \in Before)
          /\ stack[k].data
      BY <1>3, <2>1, <3>1
    <3>3. QED
      BY <1>4, <3>2 DEF Waiters, DataWaits
  <2>2. QED
    BY <2>1 DEF DataWaits
<1>7. PendingKnown'
  BY <1>1, <1>3, <1>4 DEF Waiters, PendingKnown, GivenUp
<1>8. \A c : Later(c) => Later(c)'
  BY <1>1, <1>3, <1>4, SMTT(30) DEF Later
<1>9. WaitOwned'
  <2>1. ASSUME NEW i \in 1..Len(stack'), stack'[i].at \in Waits \union {"returned"},
               stack'[i].cmd # 0
        PROVE  \/ wait' \in {"none", cmds'[stack'[i].cmd].op}
               \/ stack'[i].cmd \in hist'.forsaken /\ Later(stack[i].cmd)'
    <3>1. PICK k \in 1..Len(stack) : k = i - 1 /\ i = k + 1
      BY <1>1, <1>2, <2>1
    <3>2. PICK c : c = stack[k].cmd
      OBVIOUS
    <3>3. stack'[i].cmd = c
      BY <1>3, <3>1, <3>2
    <3>4. Later(c)' => Later(stack[i].cmd)'
      BY <3>3 DEF Later
    <3>5. stack[k].at \in Waits \union {"returned"} /\ c # 0
      BY <1>3, <2>1, <3>1, <3>3
    <3>6. QED
      BY <1>4, <1>8, <3>2, <3>3, <3>4, <3>5 DEF Waiters, WaitOwned
  <2>2. QED
    BY <2>1 DEF WaitOwned
<1>10. QED
  BY <1>5, <1>6, <1>7, <1>9 DEF Waiters

(* The running frame is left.                                              *)
LEMMA ReleasesWaiters ==
  ASSUME Types, Types', Frames, Waiters, Releases
  PROVE  Waiters'
<1>1. /\ Len(stack) \in Nat /\ 1 \in 1..Len(stack) /\ Len(stack') = Len(stack) - 1
      /\ stack[1].at \notin Waits
      /\ \A i \in 1..Len(stack') : i + 1 \in 1..Len(stack) /\ stack'[i] = stack[i + 1]
      /\ \A i \in 1..Len(stack) : i = 1 \/ (i - 1 \in 1..Len(stack') /\ (i - 1) + 1 = i)
  BY DEF Types, Releases, Pops, Waits
<1>2. /\ wait' = wait /\ pending' = pending /\ cmds' = cmds /\ hist'.forsaken = hist.forsaken
  BY DEF Releases, Quiet, SameWait
<1>3. Nested'
  <2>1. \A i, j \in 1..Len(stack') : i < j => i + 1 < j + 1
    OBVIOUS
  <2>2. QED
    BY <1>1, <1>2, <2>1, SMTT(30) DEF Waiters, Nested
<1>4. DataWaits'
  BY <1>1, <1>2 DEF Waiters, DataWaits
<1>5. ASSUME NEW i \in 1..Len(stack), i # 1
      PROVE  i - 1 \in 1..Len(stack') /\ stack'[i - 1] = stack[i]
  BY <1>1, <1>5
<1>6. PendingKnown'
  BY <1>1, <1>2, <1>5 DEF Waiters, PendingKnown, GivenUp
<1>7. \A c : Later(c) => Later(c)'
  BY <1>1, <1>2, <1>5 DEF Later
<1>8. WaitOwned'
  <2>1. ASSUME NEW i \in 1..Len(stack'), stack'[i].at \in Waits \union {"returned"},
               stack'[i].cmd # 0
        PROVE  \/ wait' \in {"none", cmds'[stack'[i].cmd].op}
               \/ stack'[i].cmd \in hist'.forsaken /\ Later(stack[i].cmd)'
    <3>1. PICK c : c = stack[i + 1].cmd
      OBVIOUS
    <3>2. stack'[i].cmd = c /\ (Later(c)' => Later(stack[i].cmd)')
      BY <1>1, <3>1 DEF Later
    <3>3. QED
      BY <1>1, <1>2, <1>7, <2>1, <3>1, <3>2 DEF Waiters, WaitOwned
  <2>2. QED
    BY <2>1 DEF WaitOwned
<1>9. QED
  BY <1>3, <1>4, <1>6, <1>8 DEF Waiters

(* The chip acts, or a call begins.                                        *)
LEMMA StackSameWaiters ==
  ASSUME Types, Types', Frames, Waiters, Onward, SameWait, stack' = stack
  PROVE  Waiters'
<1>1. /\ wait' = wait /\ pending' = pending /\ hist'.forsaken = hist.forsaken
      /\ Len(cmds) \in Nat /\ Len(cmds) <= Len(cmds') /\ 1..Len(cmds) \subseteq 1..Len(cmds')
      /\ \A c \in 1..Len(cmds) : cmds'[c].op = cmds[c].op
  BY DEF SameWait, Onward, OpsKept, Types
<1>2. Nested'
  BY <1>1 DEF Waiters, Nested
<1>3. DataWaits'
  BY <1>1, FrameIs DEF Waiters, DataWaits
<1>4. PendingKnown'
  BY <1>1, GivenUpStays DEF Waiters, PendingKnown, Nested
<1>5. WaitOwned'
  <2>1. ASSUME NEW i \in 1..Len(stack), stack[i].at \in Waits \union {"returned"}, stack[i].cmd # 0
        PROVE  \/ wait \in {"none", cmds'[stack[i].cmd].op}
               \/ stack[i].cmd \in hist.forsaken /\ Later(stack[i].cmd)'
    <3>1. stack[i].cmd \in 1..Len(cmds)
      BY <2>1, FrameIs
    <3>2. Later(stack[i].cmd) => Later(stack[i].cmd)'
      BY <1>1 DEF Later
    <3>3. QED
      BY <1>1, <2>1, <3>1, <3>2 DEF Waiters, WaitOwned
  <2>2. QED
    BY <1>1, <2>1 DEF WaitOwned
<1>6. QED
  BY <1>2, <1>3, <1>4, <1>5 DEF Waiters

LEMMA EntersWaiters ==
  ASSUME Types, Types', Frames, Waiters, Enters
  PROVE  Waiters'
<1>1. /\ Len(stack) = 0 /\ Len(stack') = 1 /\ stack'[1].cmd = 0 /\ ~stack'[1].data
      /\ cmds' = cmds /\ pending' = pending /\ hist'.forsaken = hist.forsaken
  BY DEF Enters, Quiet, SameWait
<1>2. \A i \in 1..Len(stack') : i = 1
  BY <1>1
<1>3. ~\E i \in 1..Len(stack) : TRUE
  BY <1>1
<1>4. Nested' /\ DataWaits' /\ WaitOwned'
  BY <1>1, <1>2 DEF Waiters, Nested, DataWaits, WaitOwned
<1>5. PendingKnown'
  BY <1>1, <1>3 DEF Waiters, PendingKnown, GivenUp
<1>6. QED
  BY <1>4, <1>5 DEF Waiters

(* The running frame takes a new command, younger than all others.         *)
LEMMA CommandsWaiters ==
  ASSUME Types, Types', Frames, Waiters, Onward, Commands
  PROVE  Waiters'
<1>1. /\ Len(stack) \in Nat /\ 1 \in 1..Len(stack) /\ Len(stack') = Len(stack)
      /\ \A i \in 1..Len(stack) : i = 1 \/ i \in 2..Len(stack)
      /\ \A i \in 2..Len(stack) : i \in 1..Len(stack) /\ i # 1 /\ stack'[i] = stack[i]
      /\ stack'[1].cmd = Len(cmds) + 1 /\ ~stack'[1].data /\ stack'[1].at \in Before
      /\ stack[1].at = "next" /\ hist'.forsaken = hist.forsaken
  <2>1. Len(stack) \in Nat
    BY DEF Types
  <2>2. /\ Len(stack) >= 1 /\ Len(stack') = Len(stack) /\ stack[1].at = "next"
        /\ stack'[1].cmd = Len(cmds) + 1 /\ ~stack'[1].data /\ stack'[1].at \in Before
        /\ hist'.forsaken = hist.forsaken
        /\ \A i \in 2..Len(stack) : stack'[i] = stack[i]
    BY DEF Commands
  <2>3. QED
    BY <2>1, <2>2
<1>2. /\ Len(cmds) \in Nat /\ Len(cmds) <= Len(cmds') /\ 1..Len(cmds) \subseteq 1..Len(cmds')
      /\ \A c \in 1..Len(cmds) : cmds'[c].op = cmds[c].op
  BY DEF Onward, OpsKept, Types
<1>3. /\ stack[1].at \notin Waits /\ stack'[1].at \notin Waits \union {"returned"}
      /\ wait' = wait \/ wait' = "none"
      /\ pending' => pending
  <2>1. (wait' = wait /\ pending' = pending) \/ (wait' = "none" /\ pending' = FALSE)
    BY DEF Commands, SameWait
  <2>2. QED
    BY <1>1, <2>1 DEF Waits, Before
<1>4. Nested'
  <2>1. ASSUME NEW i \in 1..Len(stack), NEW j \in 1..Len(stack), i < j, stack'[i].cmd # 0
        PROVE  /\ stack'[j].cmd < stack'[i].cmd
               /\ stack'[i].at \notin Before => stack'[j].cmd \in hist'.forsaken \union {0}
    <3>1. j \in 2..Len(stack) /\ stack'[j] = stack[j]
      BY <1>1, <2>1
    <3>2. CASE i = 1
      <4>1. stack[j].cmd \in 0..Len(cmds)
        BY FrameIs
      <4>2. QED
        BY <1>1, <1>2, <3>1, <3>2, <4>1
    <3>3. CASE i \in 2..Len(stack)
      BY <1>1, <2>1, <3>1, <3>3 DEF Waiters, Nested
    <3>4. QED
      BY <1>1, <3>2, <3>3
  <2>2. QED
    BY <1>1, <2>1, ForsakenIs DEF Waiters, Nested
<1>5. DataWaits'
  <2>1. ASSUME NEW i \in 1..Len(stack'), stack'[i].data
        PROVE  stack'[i].cmd # 0 /\ cmds'[stack'[i].cmd].op = "recv" /\ stack'[i].at \notin Before
    <3>1. i \in 1..Len(stack) /\ stack'[i] = stack[i]
      BY <1>1, <2>1
    <3>2. QED
      BY <1>2, <2>1, <3>1, FrameIs DEF Waiters, DataWaits
  <2>2. QED
    BY <2>1 DEF DataWaits
<1>6. PendingKnown'
  <2>1. ASSUME NEW i \in 1..Len(stack), stack[i].at \in Waits PROVE stack'[i] = stack[i]
    BY <1>1, <1>3, <2>1
  <2>2. QED
    BY <1>1, <1>3, <2>1, GivenUpStays DEF Waiters, PendingKnown, Nested
<1>7. WaitOwned'
  <2>1. SUFFICES ASSUME NEW i \in 1..Len(stack), stack'[i].at \in Waits \union {"returned"},
                        stack'[i].cmd # 0, wait' # "none"
        PROVE  \/ wait' = cmds'[stack'[i].cmd].op
               \/ stack'[i].cmd \in hist'.forsaken /\ Later(stack[i].cmd)'
    BY <1>1 DEF WaitOwned
  <2>2. stack'[i] = stack[i] /\ stack[i].cmd \in 1..Len(cmds) /\ wait' = wait
    BY <1>1, <1>3, <2>1, FrameIs
  <2>3. \A j \in 1..Len(stack) : stack[j].at \in Waits => stack'[j] = stack[j]
    BY <1>1, <1>3
  <2>4. PICK c : c = stack[i].cmd
    OBVIOUS
  <2>5. Later(c) => Later(c)'
    BY <1>1, <1>2, <2>2, <2>3 DEF Later
  <2>6. Later(c)' => Later(stack[i].cmd)'
    BY <2>2, <2>4 DEF Later
  <2>7. QED
    BY <1>1, <1>2, <2>1, <2>2, <2>4, <2>5, <2>6 DEF Waiters, WaitOwned
<1>8. QED
  BY <1>4, <1>5, <1>6, <1>7 DEF Waiters

LEMMA OnwardStep ==
  ASSUME Types, Types', Frames, LineInv, Next, Kinds
  PROVE  Onward
<1>1. OpsKept
  BY OpsStep
<1>2. CASE hist'.forsaken = hist.forsaken
  BY <1>1, <1>2 DEF Onward
<1>3. CASE StartsWaiting
  <2>1. hist'.forsaken = hist.forsaken \union (Below \ {0}) /\ Busy
    BY <1>3 DEF StartsWaiting, Busy
  <2>2. Below \ {0} \subseteq 1..Len(cmds)
    <3>1. ASSUME NEW c \in Below \ {0} PROVE c \in 1..Len(cmds)
      <4>1. PICK i \in 2..Len(stack) : c = stack[i].cmd
        BY <2>1, BelowIs
      <4>2. i \in 1..Len(stack)
        BY DEF Types
      <4>3. QED
        BY <4>1, <4>2, FrameIs
    <3>2. QED
      BY <3>1
  <2>3. QED
    BY <1>1, <2>1, <2>2 DEF Onward
<1>4. CASE GivesUp
  BY <1>1, <1>4 DEF Onward, GivesUp
<1>5. \/ StartsWaiting \/ GivesUp \/ hist'.forsaken = hist.forsaken
  BY DEF Kinds, ChipActs, Enters, Commands, Works, Sends, Hears, HandlesAgain, Gets, Drops, GetsData,
         GoesOn, WaitsForData, Returns, Releases, Quiet, SameWait, Beside
<1>6. QED
  BY <1>2, <1>3, <1>4, <1>5

LEMMA TurnsSteers ==
  ASSUME NEW at, Turns(at)
  PROVE  Steers /\ stack'[1].at = at /\ stack'[1].data = stack[1].data
BY DEF Turns, Steers

(* The running frame changes its place, nothing else changes.              *)
LEMMA QuietWaiters ==
  ASSUME Types, Types', Frames, Waiters, Onward, NEW at, Turns(at),
         wait' = wait, pending' = pending,
         at \in Before <=> stack[1].at \in Before,
         stack[1].at \in Waits => at \in Waits,
         at \in Waits \union {"returned"} /\ stack[1].cmd # 0 => stack[1].at \in Waits \union {"returned"}
  PROVE  Waiters'
<1>1. Steers /\ stack'[1].at = at /\ stack'[1].data = stack[1].data
  BY TurnsSteers
<1>2. stack[1].data => stack[1].at \notin Before
  BY <1>1 DEF Waiters, DataWaits, Steers, Types
<1>3. CASE pending'
  BY <1>1, <1>2, <1>3, SteersWaiters
<1>4. CASE ~pending'
  BY <1>1, <1>2, <1>4, SteersWaiters
<1>5. QED
  BY <1>3, <1>4

LEMMA TurnsOrGrowsWaiters ==
  ASSUME Types, Types', Frames, Waiters, Onward, Quiet, NEW at \in {"check", "next", "handled"},
         TurnsOrGrows(at), stack[1].at \in {"await", "check", "test"},
         stack[1].at = "test" <=> at = "next", stack[1].at = "test" => stack[1].cmd = 0
  PROVE  Waiters'
<1>1. /\ at \notin Before \union {"returned"} /\ stack[1].at \notin Before
      /\ stack[1].at \in Waits <=> at \in Waits
      /\ "crashed" \in Waits /\ "crashed" \notin Before
  BY DEF Before, Waits
<1>2. CASE Grows(at)
  BY <1>1, <1>2, GrowsWaiters
<1>3. ASSUME NEW place \in {at, "crashed"}, Turns(place) PROVE Waiters'
  <2>1. stack[1].at = "test" => stack[1].cmd = 0 /\ stack[1].at \notin Waits
    BY DEF Waits
  <2>2. /\ place \in Before <=> stack[1].at \in Before
        /\ stack[1].at \in Waits => place \in Waits
        /\ place \in Waits \union {"returned"} /\ stack[1].cmd # 0 => stack[1].at \in Waits \union {"returned"}
    BY <1>1, <1>3, <2>1 DEF Waits
  <2>3. QED
    BY <1>3, <2>2, QuietWaiters DEF Quiet, SameWait
<1>4. QED
  BY <1>2, <1>3 DEF TurnsOrGrows

LEMMA FinishesSteers ==
  ASSUME Types, Finishes
  PROVE  /\ Steers /\ stack'[1].at \in {"returned", "next"} /\ stack'[1].data = stack[1].data
         /\ cmds[stack[1].cmd].op = "recv" => stack'[1].at = "returned"
BY TurnsSteers DEF Finishes

LEMMA WaitersStep ==
  ASSUME Types, Types', Frames, Waiters, Onward, Kinds
  PROVE  Waiters'
<1>1. Len(stack) >= 1 /\ stack[1].data => stack[1].at \notin Before
  BY DEF Waiters, DataWaits, Types
<1>2. CASE ChipActs
  BY <1>2, StackSameWaiters DEF ChipActs
<1>3. CASE Enters \/ Commands \/ Releases
  BY <1>3, EntersWaiters, CommandsWaiters, ReleasesWaiters
<1>4. CASE Works
  <2>1. PICK at \in Before : Turns(at)
    BY <1>4 DEF Works
  <2>2. at \notin Waits \union {"returned"} /\ stack[1].at \in Before /\ stack[1].at \notin Waits
    BY <1>4 DEF Works, Before, Waits
  <2>3. QED
    BY <1>4, <2>1, <2>2, QuietWaiters DEF Works, Quiet, SameWait
<1>5. CASE Sends
  <2>1. "written" \in Before /\ "written" \notin Waits \union {"returned"}
        /\ stack[1].at \in Before /\ stack[1].at \notin Waits
    BY <1>5 DEF Sends, Posts, Unsent, Before, Waits
  <2>2. QED
    BY <1>5, <2>1, QuietWaiters DEF Sends, SameWait
<1>6. CASE StartsWaiting
  <2>1. /\ Turns("await") /\ wait' = cmds[stack[1].cmd].op /\ stack[1].cmd # 0
        /\ Len(stack) >= 1 /\ stack[1].at \in Before /\ pending' = pending
        /\ hist'.forsaken = hist.forsaken \union (Below \ {0})
    BY <1>6 DEF StartsWaiting
  <2>2. Steers /\ stack'[1].at = "await" /\ ~stack[1].data /\ stack'[1].data = stack[1].data
    BY <1>1, <2>1, TurnsSteers, FrameIs DEF Types
  <2>3. BelowForsaken
    BY <2>1, BelowIs DEF BelowForsaken, Busy
  <2>4. CASE pending'
    BY <2>1, <2>2, <2>3, <2>4, SteersWaiters
  <2>5. CASE ~pending'
    BY <2>1, <2>2, <2>3, <2>5, SteersWaiters
  <2>6. QED
    BY <2>4, <2>5
<1>7. CASE Hears("check")
  BY <1>7, TurnsOrGrowsWaiters DEF Hears, TurnsOrGrows
<1>8. CASE Hears("next")
  BY <1>8, TurnsOrGrowsWaiters DEF Hears, TurnsOrGrows
<1>9. CASE HandlesAgain
  BY <1>9, TurnsOrGrowsWaiters DEF HandlesAgain, InLoop
<1>10. "await" \in Waits /\ "await" \notin Before /\ "returned" \notin Before /\ "next" \notin Before
  BY DEF Waits, Before
<1>11. CASE Gets
  <2>1. wait' = "none" /\ pending' = pending /\ IF pending THEN Turns("await") ELSE Finishes
    BY <1>11 DEF Gets
  <2>2. stack[1].at \notin Before
    BY <1>11 DEF Gets, InLoop, Before
  <2>3. CASE pending
    <3>1. Steers /\ stack'[1].at = "await" /\ stack'[1].data = stack[1].data
      BY <2>1, <2>3, TurnsSteers
    <3>2. QED
      BY <1>10, <2>1, <2>2, <2>3, <3>1, SteersWaiters
  <2>4. CASE ~pending
    <3>1. /\ Steers /\ stack'[1].at \in {"returned", "next"} /\ stack'[1].data = stack[1].data
      BY <2>1, <2>4, FinishesSteers
    <3>2. QED
      BY <1>10, <2>1, <2>2, <2>4, <3>1, SteersWaiters
  <2>5. QED
    BY <2>3, <2>4
<1>12. ASSUME Turns("await"), stack[1].at \in {"await", "check", "handled"}, wait' = wait, pending' = pending
       PROVE  Waiters'
  <2>1. /\ "await" \in Before <=> stack[1].at \in Before
        /\ stack[1].at \in Waits
    BY <1>12 DEF Waits, Before
  <2>2. QED
    BY <1>10, <1>12, <2>1, QuietWaiters
<1>13. CASE Drops
  BY <1>12, <1>13 DEF Drops, InLoop, Quiet, SameWait
<1>14. CASE GetsData
  <2>1. wait' = wait /\ ~pending' /\ IF wait = "none" THEN Finishes ELSE Turns("await")
    BY <1>14 DEF GetsData
  <2>2. stack[1].at \notin Before /\ stack[1].at \in Waits
    BY <1>14 DEF GetsData, InLoop, Before, Waits
  <2>3. CASE wait = "none"
    <3>1. /\ Steers /\ stack'[1].at \in {"returned", "next"} /\ stack'[1].data = stack[1].data
      BY <2>1, <2>3, FinishesSteers
    <3>2. QED
      BY <1>10, <2>1, <2>2, <2>3, <3>1, SteersWaiters
  <2>4. CASE wait # "none"
    <3>1. Steers /\ stack'[1].at = "await" /\ stack'[1].data = stack[1].data
      BY <2>1, <2>4, TurnsSteers
    <3>2. QED
      BY <1>10, <2>1, <2>2, <2>4, <3>1, SteersWaiters
  <2>5. QED
    BY <2>3, <2>4
<1>15. CASE GivesUp
  <2>1. /\ Steers /\ stack'[1].at \in {"returned", "next"} /\ stack'[1].data = stack[1].data
    BY <1>15, FinishesSteers DEF GivesUp
  <2>2. /\ stack[1].at \notin Before /\ stack[1].at \in Waits
        /\ wait' = wait /\ pending' = pending /\ stack[1].cmd \in hist'.forsaken
    BY <1>15 DEF GivesUp, Before, Waits
  <2>3. CASE pending'
    BY <1>10, <2>1, <2>2, <2>3, SteersWaiters
  <2>4. CASE ~pending'
    BY <1>10, <2>1, <2>2, <2>4, SteersWaiters
  <2>5. QED
    BY <2>3, <2>4
<1>16. CASE GoesOn
  BY <1>12, <1>16 DEF GoesOn, Quiet, SameWait
<1>17. CASE WaitsForData
  <2>1. /\ Steers /\ stack'[1].at = "await" /\ stack'[1].data /\ wait' = wait
        /\ stack[1].at = "returned" /\ stack[1].cmd # 0 /\ cmds[stack[1].cmd].op = "recv"
    BY <1>17 DEF WaitsForData, Steers
  <2>2. "returned" \notin Waits
    BY DEF Waits
  <2>3. QED
    BY <1>10, <2>1, <2>2, SteersWaiters
<1>18. CASE Returns
  <2>1. /\ "next" \in Before <=> stack[1].at \in Before
        /\ stack[1].at \notin Waits /\ "next" \notin Waits \union {"returned"}
    BY <1>18 DEF Returns, Waits, Before
  <2>2. QED
    BY <1>18, <2>1, QuietWaiters DEF Returns, Quiet, SameWait
<1>19. QED
  BY <1>2, <1>3, <1>4, <1>5, <1>6, <1>7, <1>8, <1>9, <1>11, <1>13, <1>14, <1>15, <1>16, <1>17, <1>18
     DEF Kinds

-----------------------------------------------------------------------------
(* Who waits for an answer and for data, for each kind of step.            *)

LEMMA AnswerStays ==
  ASSUME Types, Types', Nested, Onward, NEW a \in 1..Len(cmds)
  PROVE  /\ a \in 1..Len(cmds') /\ cmds'[a].op = cmds[a].op /\ Answer(a)' = Answer(a)
         /\ GivenUp(cmds[a].op) => GivenUp(cmds[a].op)'
         /\ GivenUp("recv") => GivenUp("recv")'
         /\ a \in hist'.forsaken => GivenUp(cmds[a].op)'
         /\ GivenUp(cmds[a].op)' /\ cmds[a].op = "recv" => GivenUp("recv")'
<1>1. /\ a \in 1..Len(cmds') /\ cmds'[a].op = cmds[a].op
  BY DEF Types, Onward, OpsKept
<1>2. Answer(a)' = Answer(a)
  BY <1>1 DEF Answer
<1>3. PICK op : op = cmds[a].op
  OBVIOUS
<1>4. GivenUp(op) => GivenUp(op)'
  BY GivenUpStays DEF Nested
<1>5. GivenUp(op)' <=> GivenUp(cmds[a].op)'
  BY <1>1, <1>3 DEF GivenUp
<1>6. GivenUp("recv") => GivenUp("recv")'
  BY GivenUpStays DEF Nested
<1>7. a \in hist'.forsaken => GivenUp(cmds[a].op)'
  BY DEF GivenUp
<1>8. GivenUp(cmds[a].op)' /\ cmds[a].op = "recv" => GivenUp("recv")'
  BY <1>1 DEF GivenUp
<1>9. QED
  BY <1>1, <1>2, <1>3, <1>4, <1>5, <1>6, <1>7, <1>8

LEMMA DataRecv ==
  ASSUME Types, Packets, NEW a \in 1..Len(cmds), Flying(Data(a))
  PROVE  cmds[a].op = "recv"
<1>1. a \in Nat
  BY DEF Types
<1>2. QED
  BY <1>1, DataIs DEF Packets, Flight

(* What flies goes on to do so, or was read over when given up.            *)
LEMMA Passes ==
  ASSUME Types, Types', Packets, Nested, Onward, NEW a \in 1..Len(cmds), Owned(a),
         Flying(Answer(a))' => Flying(Answer(a)),
         Flying(Data(a))' => Flying(Data(a)) /\ (cmds[a].owes => cmds'[a].owes),
         Flying(Answer(a)) /\ Current(a) =>
           \/ GivenUp(cmds[a].op)' \/ (Flying(Answer(a))' /\ Current(a)')
           \/ ~Flying(Answer(a))' /\ (Flying(Data(a))' => Expects(a)'),
         Flying(Data(a))' /\ Busy /\ Pends(a) => Expects(a)' \/ GivenUp(cmds[a].op)',
         Flying(Data(a))' /\ Busy /\ Counted(a) /\ cmds[a].owes =>
           Expects(a)' \/ GivenUp(cmds[a].op)',
         rx' = Answer(a) => GivenUp(cmds[a].op)' \/ (Busy' /\ stack'[1].at = "check")
  PROVE  Owned(a)'
<1>1. /\ cmds'[a].op = cmds[a].op /\ Answer(a)' = Answer(a)
      /\ GivenUp(cmds[a].op) => GivenUp(cmds[a].op)'
      /\ GivenUp("recv") => GivenUp("recv")'
      /\ GivenUp(cmds[a].op)' /\ cmds[a].op = "recv" => GivenUp("recv")'
  BY AnswerStays
<1>2. OwnsAnswer(a)'
  <2>1. Flying(Answer(a))' => GivenUp(cmds[a].op)' \/ Current(a)'
    BY <1>1 DEF Owned, OwnsAnswer
  <2>2. QED
    BY <2>1 DEF OwnsAnswer
<1>3. LookedAt(a)'
  BY <1>1 DEF LookedAt
<1>4. ASSUME Flying(Data(a))' PROVE cmds'[a].owes /\ (GivenUp("recv")' \/ Expects(a)')
  <2>1. Flying(Data(a)) /\ cmds[a].op = "recv" /\ cmds[a].owes /\ cmds'[a].owes
    BY <1>4, DataRecv DEF Owned, OwnsData
  <2>2. CASE GivenUp("recv")
    BY <1>1, <2>1, <2>2
  <2>3. CASE Expects(a)
    <3>1. CASE Flying(Answer(a)) /\ Current(a)
      <4>1. GivenUp(cmds[a].op)' \/ Expects(a)' \/ (Flying(Answer(a))' /\ Current(a)')
        BY <1>4, <3>1
      <4>2. Current(a)' => Busy'
        BY DEF Current
      <4>3. Flying(Answer(a))' /\ Current(a)' => Expects(a)'
        BY <4>2 DEF Expects
      <4>4. QED
        BY <1>1, <2>1, <4>1, <4>3
    <3>2. CASE Busy /\ Counted(a)
      BY <1>1, <1>4, <2>1, <3>2
    <3>3. CASE Busy /\ Pends(a)
      BY <1>1, <1>4, <2>1, <3>3
    <3>4. QED
      BY <2>3, <3>1, <3>2, <3>3 DEF Expects
  <2>4. QED
    BY <2>1, <2>2, <2>3, <1>4 DEF Owned, OwnsData
<1>5. OwnsData(a)'
  BY <1>4 DEF OwnsData
<1>6. QED
  BY <1>2, <1>3, <1>5 DEF Owned

(* The running frame changes its place, or a report is put above it.       *)
LEMMA TurnsCurrent ==
  ASSUME Types, Types', NEW a \in 1..Len(cmds), cmds'[a].op = cmds[a].op,
         NEW at, Turns(at), wait' = wait, pending' = pending,
         stack[1].at \in Before => at \in Before, stack[1].at \in Waits => at \in Waits
  PROVE  Busy /\ Busy' /\ (Current(a) => Current(a)') /\ (Pends(a) => Pends(a)')
<1>1. Busy /\ Busy' /\ Len(stack) \in Nat
  BY DEF Turns, Busy, Types
<1>2. Len(stack) >= 2 => stack'[2] = stack[2]
  BY <1>1 DEF Turns
<1>3. QED
  BY <1>1, <1>2 DEF Turns, Current, Pends, Resumes, Waiting

LEMMA GrowsCurrent ==
  ASSUME Types, Types', NEW a \in 1..Len(cmds), cmds'[a].op = cmds[a].op,
         NEW at, Grows(at), wait' = wait, pending' = pending,
         stack[1].at \notin Before, stack[1].at \in Waits => at \in Waits,
         stack[1].cmd = 0 => Len(stack) = 1
  PROVE  Busy /\ Busy' /\ (Current(a) => Current(a)') /\ (Pends(a) => Pends(a)')
<1>1. Busy /\ Busy' /\ Len(stack) \in Nat /\ Len(stack') >= 2
  BY DEF Grows, Busy, Types
<1>2. ~Resumes(a)
  BY DEF Resumes
<1>3. QED
  BY <1>1, <1>2 DEF Grows, Current, Pends, Resumes, Waiting

LEMMA TurnsOrGrowsCurrent ==
  ASSUME Types, Types', NEW a \in 1..Len(cmds), cmds'[a].op = cmds[a].op,
         NEW at \in {"check", "next", "handled"}, TurnsOrGrows(at),
         wait' = wait, pending' = pending,
         stack[1].at \in {"await", "check", "test"},
         stack[1].at = "test" <=> at = "next",
         stack[1].cmd = 0 => Len(stack) = 1
  PROVE  Busy /\ Busy' /\ (Current(a) => Current(a)') /\ (Pends(a) => Pends(a)') /\ ~Counted(a)
<1>1. /\ stack[1].at \notin Before /\ ~Counted(a)
      /\ stack[1].at \in Waits => at \in Waits /\ "crashed" \in Waits
  BY DEF Before, Waits, Counted
<1>2. CASE Turns(at)
  <2>1. stack[1].at \in Before => at \in Before
    BY <1>1
  <2>2. QED
    BY <1>1, <1>2, <2>1, TurnsCurrent
<1>3. CASE Turns("crashed")
  <2>1. stack[1].at \in Before => "crashed" \in Before
    BY <1>1
  <2>2. stack[1].at \in Waits => "crashed" \in Waits
    BY <1>1
  <2>3. QED
    BY <1>1, <1>3, <2>1, <2>2, TurnsCurrent
<1>4. CASE Grows(at)
  BY <1>1, <1>4, GrowsCurrent
<1>5. QED
  BY <1>2, <1>3, <1>4 DEF TurnsOrGrows

(* Nothing is sent, read or taken.                                         *)
LEMMA StillFlies ==
  ASSUME Still
  PROVE  \A p : Flying(p)' <=> Flying(p)
<1>1. ASSUME NEW p PROVE Flying(p)' <=> Flying(p)
  BY DEF Still, Flying
<1>2. QED
  BY <1>1

LEMMA StillOwned ==
  ASSUME Types, Types', Packets, Nested, Onward, NEW a \in 1..Len(cmds), Owned(a),
         Still, cmds' = cmds,
         Current(a) => Current(a)' \/ GivenUp(cmds[a].op)',
         Busy /\ Pends(a) => Expects(a)' \/ GivenUp(cmds[a].op)',
         Flying(Data(a)) /\ Busy /\ Counted(a) /\ cmds[a].owes =>
           Expects(a)' \/ GivenUp(cmds[a].op)',
         Busy /\ stack[1].at = "check" /\ rx = Answer(a) =>
           GivenUp(cmds[a].op)' \/ (Busy' /\ stack'[1].at = "check")
  PROVE  Owned(a)'
<1>1. \A p : Flying(p)' <=> Flying(p)
  BY StillFlies
<1>2. /\ Answer(a)' = Answer(a)
      /\ GivenUp(cmds[a].op) => GivenUp(cmds[a].op)'
  BY AnswerStays
<1>3. Flying(Answer(a))' <=> Flying(Answer(a))
  BY <1>1 DEF Answer
<1>4. Flying(Data(a))' <=> Flying(Data(a))
  BY <1>1 DEF Data
<1>5. rx' = Answer(a) => GivenUp(cmds[a].op)' \/ (Busy' /\ stack'[1].at = "check")
  BY <1>2 DEF Still, Owned, LookedAt
<1>6. QED
  BY <1>3, <1>4, <1>5, Passes

(* A frame that polls or that has an answer is the one that waits.         *)
LEMMA LoopCurrent ==
  ASSUME Types, Len(stack) >= 1, stack[1].cmd # 0, stack[1].at \notin Before, NEW a
  PROVE  /\ Current(a) => Waiting(stack[1], a) /\ ~stack[1].data /\ wait = cmds[a].op
         /\ Pends(a) => pending /\ Waiting(stack[1], a) /\ stack[1].data
         /\ ~Resumes(a)
BY DEF Current, Pends, Resumes

LEMMA PlainOwned ==
  ASSUME Types, Types', Frames, Packets, Waiters, Onward, NEW a \in 1..Len(cmds), Owned(a),
         Enters \/ Works \/ GoesOn
  PROVE  Owned(a)'
<1>1. Nested /\ cmds' = cmds /\ Still /\ wait' = wait /\ pending' = pending
  BY DEF Waiters, Enters, Works, GoesOn, Quiet, SameWait
<1>2. CASE Enters
  <2>1. ~Busy
    BY <1>2 DEF Enters, Busy
  <2>2. QED
    BY <1>1, <2>1, StillOwned DEF Current
<1>3. CASE Works
  <2>1. PICK at \in Before : Turns(at)
    BY <1>3 DEF Works
  <2>2. /\ stack[1].at \notin Waits \union {"returned", "check"}
        /\ ~Counted(a)
    BY <1>3 DEF Works, Before, Waits, Counted
  <2>3. Busy' /\ (Current(a) => Current(a)') /\ (Pends(a) => Pends(a)')
    BY <1>1, <2>1, <2>2, TurnsCurrent
  <2>4. QED
    BY <1>1, <2>2, <2>3, StillOwned DEF Expects
<1>4. CASE GoesOn
  <2>1. Turns("await") /\ stack[1].at = "handled"
    BY <1>4 DEF GoesOn
  <2>2. "await" \in Waits /\ stack[1].at \notin Before /\ ~Counted(a) /\ stack[1].at # "check"
    BY <2>1 DEF Before, Waits, Counted
  <2>3. Busy' /\ (Current(a) => Current(a)') /\ (Pends(a) => Pends(a)')
    BY <1>1, <2>1, <2>2, TurnsCurrent
  <2>4. QED
    BY <1>1, <2>2, <2>3, StillOwned DEF Expects
<1>5. QED
  BY <1>2, <1>3, <1>4

(* The wait is over, without the answer or with it.                        *)
LEMMA LeftOwned ==
  ASSUME Types, Types', Frames, Packets, Waiters, Onward, NEW a \in 1..Len(cmds), Owned(a),
         GivesUp \/ WaitsForData \/ Returns
  PROVE  Owned(a)'
<1>1. Nested /\ cmds' = cmds /\ Still /\ wait' = wait
  BY DEF Waiters, GivesUp, WaitsForData, Returns, Quiet, SameWait
<1>2. Answer(a) # NoPacket
  BY AnswerIs, FlyingIs
<1>3. /\ Len(stack) >= 1 /\ stack[1].cmd # 0 /\ Len(stack) \in Nat
      /\ stack[1].at \in {"await", "check", "handled", "returned"}
  <2>1. Len(stack) \in Nat
    BY DEF Types
  <2>2. CASE GivesUp \/ WaitsForData
    BY <2>1, <2>2 DEF GivesUp, WaitsForData
  <2>3. CASE Returns
    BY <2>1, <2>3 DEF Returns, Frames, FrameOK
  <2>4. QED
    BY <2>2, <2>3
<1>4. stack[1].at \notin Before
  BY <1>3 DEF Before
<1>5. Busy' /\ Len(stack') = Len(stack)
  BY <1>3 DEF GivesUp, WaitsForData, Returns, Finishes, Turns, Busy, Types
<1>6. CASE GivesUp
  <2>1. /\ stack[1].cmd \in hist'.forsaken /\ stack[1].at # "returned"
        /\ stack[1].at = "check" => rx = NoPacket
    BY <1>6 DEF GivesUp
  <2>2. /\ Current(a) => stack[1].cmd = a
        /\ Pends(a) => stack[1].cmd = a
        /\ ~Counted(a)
    BY <1>3, <1>4, <2>1, LoopCurrent DEF Waiting, Counted
  <2>3. stack[1].cmd = a => GivenUp(cmds[a].op)'
    BY <1>1, <2>1, AnswerStays
  <2>4. QED
    BY <1>1, <1>2, <2>1, <2>2, <2>3, StillOwned
<1>7. CASE WaitsForData
  <2>1. stack[1].at = "returned"
    BY <1>7 DEF WaitsForData
  <2>2. ~Current(a) /\ ~Pends(a)
    BY <1>3, <1>4, <2>1, LoopCurrent DEF Waiting, Waits
  <2>3. Counted(a) => Pends(a)'
    BY <1>7 DEF WaitsForData, Counted, Pends, Waiting, Waits
  <2>4. QED
    BY <1>1, <1>5, <2>1, <2>2, <2>3, StillOwned DEF Expects
<1>8. CASE Returns
  <2>1. stack[1].at = "returned"
    BY <1>8 DEF Returns
  <2>2. ~Current(a) /\ ~Pends(a)
    BY <1>3, <1>4, <2>1, LoopCurrent DEF Waiting, Waits
  <2>3. Flying(Data(a)) => cmds[a].op = "recv"
    BY DataRecv
  <2>4. Counted(a) /\ cmds[a].op = "recv" => ~cmds[a].owes
    <3>1. a # 0
      OBVIOUS
    <3>2. QED
      BY <1>8, <3>1 DEF Returns, Counted
  <2>5. QED
    BY <1>1, <2>1, <2>2, <2>3, <2>4, StillOwned
<1>9. QED
  BY <1>6, <1>7, <1>8

(* A packet that nobody waits for is dropped, or an event is handled again.*)
LEMMA DropsOwned ==
  ASSUME Types, Types', Frames, Packets, Waiters, Onward, NEW a \in 1..Len(cmds), Owned(a),
         Drops
  PROVE  Owned(a)'
<1>1. /\ Nested /\ cmds' = cmds /\ wait' = wait /\ pending' = pending
      /\ Turns("await") /\ rx' = NoPacket /\ chip'.out = chip.out /\ chip'.todo = chip.todo
      /\ rx.kind # "data" /\ rx.kind # wait
  BY DEF Waiters, Drops, Quiet, SameWait, Beside
<1>2. /\ Len(stack) >= 1 /\ stack[1].cmd # 0 /\ stack[1].at \in {"await", "check"}
  BY DEF Drops, InLoop
<1>3. /\ Answer(a) # NoPacket /\ Answer(a).kind = cmds[a].op
      /\ Data(a) # NoPacket /\ Data(a).kind = "data"
  BY AnswerIs, FlyingIs, DataIs
<1>4. Answer(a)' = Answer(a)
  BY <1>1, AnswerStays
<1>5. \A p : p # NoPacket /\ p # rx => (Flying(p)' <=> Flying(p))
  BY <1>1 DEF Flying
<1>6. \A p : p # NoPacket => (Flying(p)' => Flying(p))
  BY <1>1 DEF Flying
<1>7. Flying(Answer(a))' => Flying(Answer(a))
  BY <1>3, <1>4, <1>6
<1>8. Flying(Data(a))' => Flying(Data(a))
  BY <1>3, <1>6 DEF Data
<1>9. stack[1].at \notin Before /\ "await" \in Waits /\ ~Counted(a)
  BY <1>2 DEF Before, Waits, Counted
<1>10. Busy' /\ (Current(a) => Current(a)') /\ (Pends(a) => Pends(a)')
  BY <1>1, <1>9, TurnsCurrent
<1>11. Current(a) /\ Flying(Answer(a)) => Flying(Answer(a))'
  <2>1. Current(a) => Answer(a) # rx
    BY <1>1, <1>2, <1>3, <1>9, LoopCurrent
  <2>2. Answer(a) # rx => (Flying(Answer(a))' <=> Flying(Answer(a)))
    BY <1>3, <1>4, <1>5
  <2>3. QED
    BY <2>1, <2>2
<1>12. QED
  BY <1>1, <1>3, <1>7, <1>8, <1>9, <1>10, <1>11, Passes DEF Expects

LEMMA HandlesOwned ==
  ASSUME Types, Types', Frames, Packets, Waiters, Onward, NEW a \in 1..Len(cmds), Owned(a),
         HandlesAgain
  PROVE  Owned(a)'
<1>1. /\ Nested /\ cmds' = cmds /\ wait' = wait /\ pending' = pending
      /\ TurnsOrGrows("handled") /\ chip'.out = chip.out /\ chip'.todo = chip.todo
      /\ Known(rx) /\ Known(rx')
  BY DEF Waiters, HandlesAgain, Quiet, SameWait, Beside
<1>2. /\ Len(stack) >= 1 /\ stack[1].cmd # 0 /\ stack[1].at \in {"await", "check"}
  BY DEF HandlesAgain, InLoop
<1>3. ~Known(Answer(a)) /\ ~Known(Data(a))
  BY AnswerIs, DataIs
<1>4. Answer(a)' = Answer(a)
  BY <1>1, AnswerStays
<1>5. ASSUME NEW p, ~Known(p) PROVE Flying(p)' <=> Flying(p)
  <2>1. p # rx /\ p # rx'
    BY <1>1, <1>5 DEF Known
  <2>2. QED
    BY <1>1, <2>1 DEF Flying
<1>6. Flying(Answer(a))' <=> Flying(Answer(a))
  BY <1>3, <1>4, <1>5
<1>7. Flying(Data(a))' <=> Flying(Data(a))
  BY <1>3, <1>5 DEF Data
<1>8. rx' # Answer(a)
  BY <1>1, <1>3 DEF Known
<1>9. Busy' /\ (Current(a) => Current(a)') /\ (Pends(a) => Pends(a)') /\ ~Counted(a)
  BY <1>1, <1>2, TurnsOrGrowsCurrent
<1>10. QED
  BY <1>1, <1>6, <1>7, <1>8, <1>9, Passes DEF Expects

(* A poll.  What it reads over was given up, and what it drops is not for  *)
(* the command that waits.                                                 *)
LEMMA HearsOwned ==
  ASSUME Types, Types', Frames, Packets, Waiters, Onward, NEW a \in 1..Len(cmds), Owned(a),
         NEW at \in {"check", "next"}, Hears(at)
  PROVE  Owned(a)'
<1>1. /\ Nested /\ cmds' = cmds /\ wait' = wait /\ pending' = pending
      /\ TurnsOrGrows(at) /\ chip'.todo = chip.todo
  BY DEF Waiters, Hears, Quiet, SameWait, TurnsOrGrows
<1>2. /\ Len(stack) >= 1
      /\ \/ /\ at = "check" /\ stack[1].at \in {"await", "check"}
            /\ stack[1].cmd \in 1..Len(cmds) /\ (stack[1].at = "check" => rx = NoPacket)
         \/ at = "next" /\ stack[1].at = "test" /\ Len(stack) = 1 /\ stack[1].cmd = 0
  BY DEF Hears
<1>3. /\ Answer(a) # NoPacket /\ ~Known(Answer(a)) /\ Answer(a).kind = cmds[a].op
      /\ cmds[a].op # "data" /\ ~Known(Data(a)) /\ Known(NoPacket)
  BY AnswerIs, DataIs, FlyingIs
<1>4. Answer(a)' = Answer(a)
  BY <1>1, AnswerStays
<1>5. /\ GivenUp(cmds[a].op) => GivenUp(cmds[a].op)'
  BY AnswerStays DEF Waiters
<1>6. \/ rx' = rx /\ chip'.out = chip.out
      \/ Known(chip.out) /\ Known(rx') /\ chip'.out = NoPacket
      \/ /\ Turns(at) /\ chip'.out = NoPacket /\ ~Known(chip.out)
         /\ rx' = IF chip.out.kind = "data" \/ Awaited(chip.out) THEN chip.out ELSE NoPacket
  BY DEF Hears
<1>7. ASSUME NEW p, ~Known(p), Flying(p)' PROVE Flying(p)
  BY <1>1, <1>3, <1>6, <1>7 DEF Flying
<1>8. Flying(Answer(a))' => Flying(Answer(a))
  BY <1>3, <1>4, <1>7
<1>9. Flying(Data(a))' => Flying(Data(a))
  BY <1>3, <1>7 DEF Data
<1>10. Busy /\ Busy' /\ (Current(a) => Current(a)') /\ (Pends(a) => Pends(a)') /\ ~Counted(a)
  BY <1>1, <1>2, TurnsOrGrowsCurrent
<1>11. Current(a) => wait = cmds[a].op
  BY <1>2 DEF Current, Before
<1>12. rx = Answer(a) => GivenUp(cmds[a].op)
  BY <1>2, <1>3 DEF Owned, LookedAt
<1>13. Flying(Answer(a)) /\ Current(a) => GivenUp(cmds[a].op) \/ Flying(Answer(a))'
  <2>1. SUFFICES ASSUME Flying(Answer(a)), Current(a), rx # Answer(a) PROVE Flying(Answer(a))'
    BY <1>12
  <2>2. chip.out = Answer(a) => chip'.out = Answer(a) \/ rx' = Answer(a)
    BY <1>3, <1>6, <1>11, <2>1 DEF Awaited
  <2>3. QED
    BY <1>1, <1>4, <2>1, <2>2 DEF Flying
<1>14. rx' = Answer(a) => GivenUp(cmds[a].op)' \/ (Busy' /\ stack'[1].at = "check")
  <2>1. SUFFICES ASSUME rx' = Answer(a), rx # Answer(a)
        PROVE  GivenUp(cmds[a].op) \/ stack'[1].at = "check"
    BY <1>5, <1>10, <1>12
  <2>2. Turns(at) /\ chip.out = Answer(a)
    BY <1>3, <1>6, <2>1
  <2>3. CASE at = "check"
    BY <2>2, <2>3 DEF Turns
  <2>4. CASE at = "next"
    <3>1. ~Current(a)
      <4>1. stack[1].at = "test" /\ Len(stack) = 1
        BY <1>2, <2>4
      <4>2. ~Resumes(a) /\ stack[1].at \notin Before /\ stack[1].at \notin Waits
        BY <4>1 DEF Resumes, Before, Waits
      <4>3. QED
        BY <4>2 DEF Current, Waiting
    <3>2. QED
      BY <2>2, <3>1 DEF Owned, OwnsAnswer, Flying
  <2>5. QED
    BY <2>3, <2>4
<1>15. QED
  BY <1>1, <1>5, <1>8, <1>9, <1>10, <1>13, <1>14, Passes DEF Expects

(* The chip puts out what it was to say, or an event; the answer to a      *)
(* recv may announce data, which the command is then going to wait for.    *)
LEMMA ChipOwned ==
  ASSUME Types, Types', Frames, Packets, Waiters, Onward, NEW a \in 1..Len(cmds), Owned(a),
         ChipActs
  PROVE  Owned(a)'
<1>1. /\ Nested /\ stack' = stack /\ rx' = rx /\ wait' = wait /\ pending' = pending
      /\ hist'.forsaken = hist.forsaken
  BY DEF Waiters, ChipActs, SameWait
<1>2. /\ a \in 1..Len(cmds') /\ cmds'[a].op = cmds[a].op /\ Answer(a)' = Answer(a)
      /\ GivenUp(cmds[a].op) => GivenUp(cmds[a].op)'
      /\ GivenUp("recv") => GivenUp("recv")'
  BY <1>1, AnswerStays
<1>3. /\ (Busy' <=> Busy) /\ (Current(a)' <=> Current(a)) /\ (Pends(a)' <=> Pends(a))
  BY <1>1, <1>2 DEF Busy, Current, Pends, Resumes, Waiting
<1>4. rx' = Answer(a) => GivenUp(cmds[a].op)' \/ (Busy' /\ stack'[1].at = "check")
  BY <1>1, <1>2, <1>3 DEF Owned, LookedAt
<1>5. ASSUME \A c \in 1..Len(cmds) : cmds'[c] = cmds[c],
             \A p : ~Known(p) => (Flying(p)' <=> Flying(p))
      PROVE  Owned(a)'
  <2>1. ~Known(Answer(a)) /\ ~Known(Data(a))
    BY AnswerIs, DataIs
  <2>2. Flying(Answer(a))' <=> Flying(Answer(a))
    BY <1>2, <1>5, <2>1
  <2>3. Flying(Data(a))' <=> Flying(Data(a))
    BY <1>5, <2>1 DEF Data
  <2>4. Counted(a)' <=> Counted(a)
    BY <1>1, <1>5 DEF Counted
  <2>5. QED
    BY <1>1, <1>3, <1>4, <1>5, <2>2, <2>3, <2>4, Passes DEF Expects
<1>6. CASE cmds' = cmds /\ chip'.todo = chip.todo
           /\ (chip'.out = chip.out \/ (chip.out = NoPacket /\ Known(chip'.out)))
  <2>1. ASSUME NEW p, ~Known(p) PROVE Flying(p)' <=> Flying(p)
    <3>1. chip'.out = chip.out \/ (p # chip.out /\ p # chip'.out)
      BY <1>6, <2>1, FlyingIs DEF Known
    <3>2. QED
      BY <1>1, <1>6, <3>1 DEF Flying
  <2>2. QED
    BY <1>5, <1>6, <2>1
<1>7. CASE chip.todo # <<>> /\ chip.out = NoPacket /\ chip'.out = Head(chip.todo)
           /\ ((cmds' = cmds /\ chip'.todo = Tail(chip.todo)) \/ Announces)
  <2> DEFINE h == Head(chip.todo)
             n == Len(chip.todo)
             rest == Tail(chip.todo)
  <2>1. /\ h = chip.todo[1] /\ h \in Packet /\ n \in Nat /\ n >= 1
        /\ rest \in Seq(Packet) /\ Len(rest) = n - 1
        /\ \A k \in 1..(n - 1) : rest[k] = chip.todo[k + 1]
    BY <1>7, FlyingIs, PopOf
  <2>2. ~Known(h)
    BY <2>1 DEF Packets, Once
  <2> HIDE DEF h, n, rest
  <2>3. \A p : p = h \/ (\E k \in 1..Len(rest) : p = rest[k]) <=> \E k \in 1..n : p = chip.todo[k]
    <3>1. ASSUME NEW p, NEW k \in 1..n, p = chip.todo[k] PROVE p = h \/ \E l \in 1..Len(rest) : p = rest[l]
      <4>1. CASE k = 1
        BY <2>1, <3>1, <4>1
      <4>2. CASE k # 1
        <5>1. k - 1 \in 1..(n - 1) /\ (k - 1) + 1 = k
          BY <2>1, <4>2
        <5>2. QED
          BY <2>1, <3>1, <5>1
      <4>3. QED
        BY <4>1, <4>2
    <3>2. ASSUME NEW p, NEW l \in 1..Len(rest), p = rest[l] PROVE \E k \in 1..n : p = chip.todo[k]
      BY <2>1, <3>2
    <3>3. ASSUME NEW p, p = h PROVE \E k \in 1..n : p = chip.todo[k]
      BY <2>1, <3>3
    <3>4. QED
      BY <3>1, <3>2, <3>3
  <2>4. ASSUME NEW p, ~Known(p)
        PROVE  Flying(p) <=> p = rx \/ p = h \/ \E k \in 1..Len(rest) : p = rest[k]
    <3>1. p # chip.out
      BY <1>7, <2>4, FlyingIs DEF Known
    <3>2. QED
      BY <2>3, <3>1 DEF Flying, n
  <2>5. CASE cmds' = cmds /\ chip'.todo = rest
    <3>1. ASSUME NEW p, ~Known(p) PROVE Flying(p)' <=> Flying(p)
      BY <1>1, <1>7, <2>4, <2>5, <3>1 DEF Flying, h
    <3>2. QED
      BY <1>5, <2>5, <3>1
  <2>6. CASE Announces
    <3> DEFINE d == Data(h.id)
               t == <<d>> \o rest
    <3>1. /\ chip'.todo = t /\ chip'.out = h /\ h.kind = "recv"
          /\ \/ /\ h.id \in 1..Len(cmds)
                /\ Changes(h.id, [cmds[h.id] EXCEPT !.owes = TRUE])
             \/ h.id \notin 1..Len(cmds) /\ cmds' = cmds
      BY <1>7, <2>6 DEF Announces, Sets, h, rest
    <3>2. /\ h.id \in 1..Len(cmds) /\ h = Answer(h.id) /\ h.id \in Nat
      <4>1. Flying(h)
        BY <2>2, <2>4
      <4>2. QED
        BY <2>1, <2>2, <3>1, <4>1, FlyingOf DEF Packets, Packet
    <3>3. d \in Packet /\ d.kind = "data" /\ d.id = h.id
      BY <3>2, DataIs
    <3>4. \A p : (\E k \in 1..Len(t) : p = t[k]) <=> p = d \/ \E k \in 1..Len(rest) : p = rest[k]
      <4>1. /\ Len(t) = Len(rest) + 1 /\ Len(rest) \in Nat /\ t[1] = d
            /\ \A k \in 1..Len(rest) : t[k + 1] = rest[k]
        BY <2>1, <3>3, PushOf
      <4> HIDE DEF t
      <4>2. ASSUME NEW p, NEW k \in 1..Len(t), p = t[k]
            PROVE  p = d \/ \E l \in 1..Len(rest) : p = rest[l]
        <5>1. CASE k = 1
          BY <4>1, <4>2, <5>1
        <5>2. CASE k # 1
          <6>1. k - 1 \in 1..Len(rest) /\ (k - 1) + 1 = k
            BY <4>1, <5>2
          <6>2. QED
            BY <4>1, <4>2, <6>1
        <5>3. QED
          BY <5>1, <5>2
      <4>3. ASSUME NEW p, NEW l \in 1..Len(rest), p = rest[l] PROVE \E k \in 1..Len(t) : p = t[k]
        <5>1. l + 1 \in 1..Len(t)
          BY <4>1
        <5>2. QED
          BY <4>1, <4>3, <5>1
      <4>4. ASSUME NEW p, p = d PROVE \E k \in 1..Len(t) : p = t[k]
        <5>1. 1 \in 1..Len(t)
          BY <4>1
        <5>2. QED
          BY <4>1, <4>4, <5>1
      <4>5. QED
        BY <4>2, <4>3, <4>4
    <3> HIDE DEF d, t
    <3>5. ASSUME NEW p, ~Known(p) PROVE Flying(p)' <=> Flying(p) \/ p = d
      BY <1>1, <2>4, <3>1, <3>4, <3>5 DEF Flying
    <3>6. /\ ~Known(Answer(a)) /\ ~Known(Data(a)) /\ Answer(a).kind = cmds[a].op
          /\ cmds[a].op # "data" /\ Data(a).id = a
      BY AnswerIs, DataIs
    <3>7. Flying(Answer(a))' <=> Flying(Answer(a))
      BY <1>2, <3>3, <3>5, <3>6
    <3>8. CASE a # h.id
      <4>1. Flying(Data(a))' <=> Flying(Data(a))
        <5>1. Data(a) # d
          BY <3>3, <3>6, <3>8
        <5>2. Flying(Data(a))' <=> Flying(Data(a)) \/ Data(a) = d
          BY <3>5, <3>6 DEF Data
        <5>3. QED
          BY <5>1, <5>2
      <4>2. cmds'[a] = cmds[a]
        BY <3>1, <3>2, <3>8 DEF Changes
      <4>3. Counted(a)' <=> Counted(a)
        BY <1>1, <4>2 DEF Counted
      <4>4. QED
        BY <1>1, <1>3, <1>4, <3>7, <4>1, <4>2, <4>3, Passes DEF Expects
    <3>9. CASE a = h.id
      <4>1. cmds'[a].owes
        BY <3>1, <3>2, <3>9 DEF Changes, CommandType, Types
      <4>2. cmds[a].op = "recv" /\ Flying(Answer(a))
        BY <2>2, <2>4, <3>1, <3>2, <3>6, <3>9
      <4>3. GivenUp("recv")' \/ (Current(a)' /\ Flying(Answer(a))')
        BY <1>2, <1>3, <3>7, <4>2 DEF Owned, OwnsAnswer
      <4>4. Current(a) => Busy
        BY DEF Current
      <4>5. OwnsData(a)'
        BY <1>3, <4>1, <4>3, <4>4 DEF OwnsData, Expects
      <4>6. OwnsAnswer(a)'
        <5>1. GivenUp(cmds[a].op)' \/ Current(a)'
          BY <1>2, <1>3, <4>2 DEF Owned, OwnsAnswer
        <5>2. QED
          BY <5>1 DEF OwnsAnswer
      <4>7. LookedAt(a)'
        BY <1>2, <1>4 DEF LookedAt
      <4>8. QED
        BY <4>5, <4>6, <4>7 DEF Owned
    <3>10. QED
      BY <3>8, <3>9
  <2>7. QED
    BY <1>7, <2>5, <2>6 DEF rest
<1>8. QED
  BY <1>6, <1>7 DEF ChipActs

(* The buffer goes out, or not, and the wait begins.                       *)
LEMMA PostsFly ==
  ASSUME Types, Types', Packets, Posts
  PROVE  /\ Tx \in 1..Len(cmds) /\ stack[1].at \in Before
         /\ \A p : Flying(p)' <=> Flying(p) \/ p = Answer(Tx)
         /\ ~Flying(Data(Tx))
         /\ \A c \in 1..Len(cmds) : cmds'[c].owes = cmds[c].owes
<1> DEFINE n == Tx
           o == Owed(Tx)
<1>1. /\ n \in 1..Len(cmds) /\ n \in Nat /\ cmds[n] \in CommandType /\ stack[1].at \in Before
      /\ cmds[n].sent = 0
  BY DEF Posts, Unsent, Types, Tx, Packets, Sending
<1>2. o = Answer(n) /\ o \in Packet
  BY <1>1, AnswerIs DEF Owed, Answer
<1>3. chip.todo \in Seq(Packet) /\ chip'.todo = Append(chip.todo, o) /\ chip'.out = chip.out /\ rx' = rx
  BY FlyingIs DEF Posts
<1>4. ~Flying(Data(n))
  BY <1>1, DataIs DEF Packets, Flight
<1>5. \A c \in 1..Len(cmds) : cmds'[c].owes = cmds[c].owes
  BY <1>1 DEF Posts, Changes, CommandType
<1> HIDE DEF n, o
<1>6. /\ Len(chip'.todo) = Len(chip.todo) + 1 /\ Len(chip.todo) \in Nat
      /\ chip'.todo[Len(chip.todo) + 1] = o
      /\ \A k \in 1..Len(chip.todo) : chip'.todo[k] = chip.todo[k]
  BY <1>2, <1>3
<1>7. ASSUME NEW p PROVE Flying(p)' <=> Flying(p) \/ p = o
  <2>1. ASSUME NEW k \in 1..Len(chip'.todo), p = chip'.todo[k] PROVE Flying(p) \/ p = o
    <3>1. k \in 1..Len(chip.todo) \/ k = Len(chip.todo) + 1
      BY <1>6
    <3>2. QED
      BY <1>6, <2>1, <3>1 DEF Flying
  <2>2. p = o => Flying(p)'
    <3>1. Len(chip.todo) + 1 \in 1..Len(chip'.todo)
      BY <1>6
    <3>2. QED
      BY <1>6, <3>1 DEF Flying
  <2>3. ASSUME NEW k \in 1..Len(chip.todo), p = chip.todo[k] PROVE Flying(p)'
    <3>1. k \in 1..Len(chip'.todo)
      BY <1>6
    <3>2. QED
      BY <1>6, <2>3, <3>1 DEF Flying
  <2>4. QED
    BY <1>3, <2>1, <2>2, <2>3 DEF Flying
<1>8. QED
  BY <1>1, <1>2, <1>4, <1>5, <1>7 DEF n

LEMMA SendsOwned ==
  ASSUME Types, Types', Frames, Packets, Waiters, Onward, NEW a \in 1..Len(cmds), Owned(a),
         Sends
  PROVE  Owned(a)'
<1>1. /\ Posts /\ Turns("written") /\ Nested /\ wait' = wait /\ pending' = pending /\ rx' = rx
      /\ stack[1].cmd = Tx
  BY DEF Waiters, Sends, SameWait, Posts
<1>2. /\ stack[1].at \in Before
      /\ \A p : Flying(p)' <=> Flying(p) \/ p = Answer(Tx)
      /\ ~Flying(Data(Tx))
      /\ \A c \in 1..Len(cmds) : cmds'[c].owes = cmds[c].owes
      /\ Tx \in 1..Len(cmds)
  BY <1>1, PostsFly
<1>3. /\ "written" \in Before
      /\ stack[1].at \notin Waits \union {"returned", "check"}
  BY <1>2 DEF Before, Waits
<1>4. /\ cmds'[a].op = cmds[a].op /\ Answer(a)' = Answer(a)
      /\ GivenUp(cmds[a].op) => GivenUp(cmds[a].op)'
  BY <1>1, AnswerStays
<1>5. Busy' /\ (Current(a) => Current(a)') /\ (Pends(a) => Pends(a)') /\ ~Counted(a)
  BY <1>1, <1>3, <1>4, TurnsCurrent DEF Counted
<1>6. Answer(a).kind # "data" /\ Answer(a).id = a /\ Answer(Tx).id = Tx
      /\ Answer(Tx).kind # "data" /\ Data(a).kind = "data"
  BY <1>2, AnswerIs, DataIs
<1>7. Flying(Data(a))' <=> Flying(Data(a))
  <2>1. Flying(Data(a))' <=> Flying(Data(a)) \/ Data(a) = Answer(Tx)
    BY <1>2 DEF Data
  <2>2. QED
    BY <1>6, <2>1
<1>8. Flying(Answer(a))' <=> Flying(Answer(a)) \/ Answer(a) = Answer(Tx)
  BY <1>2, <1>4
<1>9. rx' = Answer(a) => GivenUp(cmds[a].op)'
  BY <1>1, <1>3, <1>4 DEF Owned, LookedAt
<1>10. CASE a # Tx
  <2>1. Flying(Answer(a))' <=> Flying(Answer(a))
    BY <1>6, <1>8, <1>10
  <2>2. QED
    BY <1>1, <1>2, <1>5, <1>7, <1>9, <2>1, Passes DEF Expects
<1>11. CASE a = Tx
  <2>1. Current(a)'
    BY <1>1, <1>3, <1>5, <1>11 DEF Turns, Current
  <2>2. ~Flying(Data(a))'
    BY <1>2, <1>7, <1>11
  <2>3. OwnsAnswer(a)'
    BY <2>1 DEF OwnsAnswer
  <2>4. LookedAt(a)'
    BY <1>4, <1>9 DEF LookedAt
  <2>5. QED
    BY <2>2, <2>3, <2>4 DEF Owned, OwnsData
<1>12. QED
  BY <1>10, <1>11

LEMMA WaitBeginsOwned ==
  ASSUME Types, Types', Frames, Packets, Waiters, Onward, NEW a \in 1..Len(cmds), Owned(a),
         StartsWaiting
  PROVE  Owned(a)'
<1>1. /\ Turns("await") /\ Nested /\ wait' = cmds[Tx].op /\ pending' = pending /\ rx' = rx
      /\ Len(stack) >= 1 /\ stack[1].cmd = Tx /\ Tx # 0 /\ stack[1].at \in Before
      /\ hist'.forsaken = hist.forsaken \union (Below \ {0})
      /\ Posts \/ (Still /\ cmds' = cmds)
  BY DEF Waiters, StartsWaiting, Posts, Still
<1>2. /\ Tx \in 1..Len(cmds) /\ Len(stack) \in Nat
  BY <1>1 DEF Types, Tx
<1>3. \/ \A p : Flying(p)' <=> Flying(p)
      \/ (\A p : Flying(p)' <=> Flying(p) \/ p = Answer(Tx)) /\ ~Flying(Data(Tx))
  BY <1>1, PostsFly, StillFlies
<1>4. cmds'[a].owes = cmds[a].owes
  BY <1>1, PostsFly
<1>5. /\ cmds'[a].op = cmds[a].op /\ Answer(a)' = Answer(a)
      /\ GivenUp(cmds[a].op) => GivenUp(cmds[a].op)'
      /\ a \in hist'.forsaken => GivenUp(cmds[a].op)'
  BY <1>1, AnswerStays
<1>6. Answer(a).kind # "data" /\ Answer(a).id = a /\ Answer(Tx).id = Tx
      /\ Answer(Tx).kind # "data" /\ Data(a).kind = "data"
  BY <1>2, AnswerIs, DataIs
<1>7. Flying(Data(a))' => Flying(Data(a))
  <2>1. Flying(Data(a))' => Flying(Data(a)) \/ Data(a) = Answer(Tx)
    BY <1>3 DEF Data
  <2>2. QED
    BY <1>6, <2>1
<1>8. /\ Flying(Answer(a)) => Flying(Answer(a))'
      /\ Flying(Answer(a))' => Flying(Answer(a)) \/ Answer(a) = Answer(Tx)
  BY <1>3, <1>5
<1>9. stack[1].at \notin Waits \union {"returned", "check"}
  BY <1>1 DEF Before, Waits
<1>10. rx' = Answer(a) => GivenUp(cmds[a].op)'
  BY <1>1, <1>5, <1>9 DEF Owned, LookedAt
<1>11. Resumes(a) => GivenUp(cmds[a].op)'
  <2>1. SUFFICES ASSUME Resumes(a) PROVE a \in hist'.forsaken
    BY <1>5
  <2>2. 2 \in 2..Len(stack) /\ stack[2].cmd = a /\ Busy
    BY <1>1, <1>2, <2>1 DEF Resumes, Waiting, Busy
  <2>3. QED
    BY <1>1, <2>2, BelowIs
<1>12. Pends(a) => GivenUp(cmds[a].op)'
  BY <1>9, <1>11 DEF Pends, Waiting
<1>13. ~Counted(a)
  BY <1>9 DEF Counted
<1>14. CASE a # Tx
  <2>1. Flying(Answer(a))' => Flying(Answer(a))
    BY <1>6, <1>8, <1>14
  <2>2. Current(a) => GivenUp(cmds[a].op)'
    BY <1>1, <1>9, <1>11, <1>14 DEF Current, Waiting
  <2>3. QED
    BY <1>1, <1>4, <1>7, <1>10, <1>12, <1>13, <2>1, <2>2, Passes
<1>15. CASE a = Tx
  <2>1. Busy'
    BY <1>1, <1>2 DEF Turns, Busy, Types
  <2>2. ~stack[1].data
    <3>1. 1 \in 1..Len(stack)
      BY <1>1, <1>2
    <3>2. QED
      BY <1>1, <3>1 DEF Waiters, DataWaits
  <2>3. Current(a)'
    BY <1>1, <1>5, <1>15, <2>1, <2>2 DEF Turns, Current, Waiting, Waits
  <2>4. OwnsAnswer(a)'
    BY <2>3 DEF OwnsAnswer
  <2>5. LookedAt(a)'
    BY <1>5, <1>10 DEF LookedAt
  <2>6. ASSUME Flying(Data(a))' PROVE cmds'[a].owes /\ (GivenUp("recv")' \/ Expects(a)')
    <3>1. Flying(Data(a)) /\ cmds[a].op = "recv" /\ cmds'[a].owes
      BY <1>4, <1>7, <2>6, DataRecv DEF Owned, OwnsData
    <3>2. GivenUp("recv") => GivenUp(cmds[a].op)'
      BY <1>5, <3>1
    <3>3. GivenUp("recv") \/ Flying(Answer(a)) \/ Pends(a)
      BY <1>13, <3>1 DEF Owned, OwnsData, Expects
    <3>4. GivenUp(cmds[a].op)' => GivenUp("recv")'
      BY <1>5, <3>1 DEF GivenUp
    <3>5. Flying(Answer(a)) => Expects(a)'
      BY <1>8, <2>1, <2>3 DEF Expects
    <3>6. QED
      BY <1>12, <3>1, <3>2, <3>3, <3>4, <3>5
  <2>7. OwnsData(a)'
    BY <2>6 DEF OwnsData
  <2>8. QED
    BY <2>4, <2>5, <2>7 DEF Owned
<1>16. QED
  BY <1>14, <1>15

(* A command is marshalled: a report's is taken up from inside a wait.     *)
LEMMA CommandsOwned ==
  ASSUME Types, Types', Frames, Packets, Waiters, Onward, NEW a \in 1..Len(cmds), Owned(a),
         Commands
  PROVE  Owned(a)'
<1>1. /\ Nested /\ Len(stack) >= 1 /\ stack[1].at = "next" /\ Len(stack') = Len(stack)
      /\ stack'[1].at \in Before /\ hist'.forsaken = hist.forsaken
      /\ \A i \in 2..Len(stack) : stack'[i] = stack[i]
  BY DEF Waiters, Commands
<1>2. /\ stack[1].at \notin Before /\ stack[1].at \notin Waits
      /\ Len(stack) \in Nat
  BY <1>1 DEF Before, Waits, Types
<1>3. /\ cmds'[a].op = cmds[a].op /\ Answer(a)' = Answer(a)
      /\ GivenUp(cmds[a].op) => GivenUp(cmds[a].op)'
  BY <1>1, AnswerStays
<1>4. cmds'[a] = cmds[a]
  BY DEF Commands, Adds
<1>5. Busy'
  BY <1>1, <1>2 DEF Busy, Types
<1>6. CASE SameWait /\ Still
  <2>1. wait' = wait /\ pending' = pending /\ rx' = rx
    BY <1>6 DEF SameWait, Still
  <2>2. Resumes(a) => Resumes(a)' /\ stack'[2] = stack[2]
    BY <1>1, <1>2 DEF Resumes, Waiting
  <2>3. Current(a) => Current(a)'
    BY <1>2, <1>3, <1>5, <2>1, <2>2 DEF Current, Waiting
  <2>4. Pends(a) => Pends(a)'
    BY <1>2, <2>1, <2>2 DEF Pends, Waiting
  <2>5. \A p : Flying(p)' <=> Flying(p)
    BY <1>6, StillFlies
  <2>6. Flying(Answer(a))' <=> Flying(Answer(a))
    BY <1>3, <2>5
  <2>7. Flying(Data(a))' <=> Flying(Data(a))
    BY <2>5 DEF Data
  <2>8. ~Counted(a) /\ (rx' = Answer(a) => GivenUp(cmds[a].op)')
    BY <1>1, <1>3, <2>1 DEF Counted, Owned, LookedAt
  <2>9. QED
    BY <1>1, <1>4, <1>5, <2>3, <2>4, <2>6, <2>7, <2>8, Passes DEF Expects
<1>7. CASE rx' = NoPacket /\ chip'.out = NoPacket /\ chip'.todo = <<>>
  <2>1. ~Known(Answer(a)) /\ ~Known(Data(a)) /\ Known(NoPacket)
    BY AnswerIs, DataIs, FlyingIs
  <2>2. ASSUME NEW p, ~Known(p) PROVE ~Flying(p)'
    BY <1>7, <2>1, <2>2 DEF Flying
  <2>3. ~Flying(Answer(a))' /\ ~Flying(Data(a))' /\ rx' # Answer(a)
    <3>1. ~Flying(Answer(a))'
      BY <1>3, <2>1, <2>2
    <3>2. ~Flying(Data(a))'
      BY <2>1, <2>2 DEF Data
    <3>3. QED
      BY <1>7, <2>1, <3>1, <3>2
  <2>4. OwnsAnswer(a)' /\ OwnsData(a)' /\ LookedAt(a)'
    BY <1>3, <2>3 DEF OwnsAnswer, OwnsData, LookedAt
  <2>5. QED
    BY <2>4 DEF Owned
<1>8. QED
  BY <1>6, <1>7 DEF Commands

(* The running frame ends: the wait below it goes on.                      *)
LEMMA ReleasesOwned ==
  ASSUME Types, Types', Frames, Packets, Waiters, Onward, NEW a \in 1..Len(cmds), Owned(a),
         Releases
  PROVE  Owned(a)'
<1>1. /\ Nested /\ Len(stack) >= 1 /\ stack[1].at \in {"test", "next", "returned"} /\ Pops
      /\ stack[1].at = "returned" => cmds[stack[1].cmd].op = "lookup"
      /\ rx' \in {rx, NoPacket} /\ cmds' = cmds /\ wait' = wait /\ pending' = pending
      /\ \/ chip'.out = chip.out /\ chip'.todo = chip.todo
         \/ chip'.out = NoPacket /\ chip'.todo = <<>> /\ Len(stack) = 1
  BY DEF Waiters, Releases, Quiet, SameWait
<1>2. stack[1].at \notin Before /\ stack[1].at \notin Waits /\ stack[1].at # "check"
  BY <1>1 DEF Before, Waits
<1>3. /\ Answer(a)' = Answer(a)
      /\ GivenUp(cmds[a].op) => GivenUp(cmds[a].op)'
  BY <1>1, AnswerStays
<1>4. ~Known(Answer(a)) /\ ~Known(Data(a)) /\ Known(NoPacket)
  BY AnswerIs, DataIs, FlyingIs
<1>5. ASSUME NEW p, ~Known(p), Flying(p)' PROVE Flying(p)
  BY <1>1, <1>4, <1>5 DEF Flying
<1>6. Flying(Answer(a))' => Flying(Answer(a))
  BY <1>3, <1>4, <1>5
<1>7. Flying(Data(a))' => Flying(Data(a))
  BY <1>4, <1>5 DEF Data
<1>8. Resumes(a) => Busy' /\ stack'[1] = stack[2] /\ Waiting(stack'[1], a) /\ Len(stack) # 1
  <2>1. SUFFICES ASSUME Resumes(a) PROVE Busy' /\ stack'[1] = stack[2] /\ Waiting(stack'[1], a)
    BY DEF Resumes
  <2>2. Len(stack) >= 2 /\ Waiting(stack[2], a) /\ Len(stack) \in Nat
    BY <2>1 DEF Resumes, Types
  <2>3. Len(stack') = Len(stack) - 1 /\ 1 \in 1..(Len(stack) - 1)
    BY <1>1, <2>2 DEF Pops
  <2>4. stack'[1] = stack[2]
    BY <1>1, <2>3 DEF Pops
  <2>5. Busy'
    BY <2>2, <2>3 DEF Busy, Types
  <2>6. QED
    BY <2>2, <2>4, <2>5
<1>9. Current(a) => Resumes(a) /\ Current(a)'
  BY <1>1, <1>2, <1>8 DEF Current, Waiting
<1>10. Pends(a) => Expects(a)'
  <2>1. Pends(a) => Resumes(a) /\ stack[2].data /\ pending
    BY <1>2 DEF Pends, Waiting
  <2>2. Pends(a) => Busy' /\ Pends(a)'
    BY <1>1, <1>8, <2>1 DEF Pends
  <2>3. QED
    BY <2>2 DEF Expects
<1>11. Flying(Data(a))' /\ Counted(a) => FALSE
  <2>1. Flying(Data(a))' => cmds[a].op = "recv"
    BY <1>7, DataRecv
  <2>2. Counted(a) => cmds[a].op = "lookup"
    BY <1>1 DEF Counted
  <2>3. QED
    BY <2>1, <2>2
<1>12. rx = Answer(a) => GivenUp(cmds[a].op)
  BY <1>2 DEF Owned, LookedAt
<1>13. Flying(Answer(a)) /\ Current(a) => GivenUp(cmds[a].op) \/ Flying(Answer(a))'
  <2>1. SUFFICES ASSUME Flying(Answer(a)), Current(a), rx # Answer(a) PROVE Flying(Answer(a))'
    BY <1>12
  <2>2. chip'.out = chip.out /\ chip'.todo = chip.todo
    BY <1>1, <1>8, <1>9, <2>1
  <2>3. QED
    BY <1>3, <2>1, <2>2 DEF Flying
<1>14. rx' = Answer(a) => GivenUp(cmds[a].op)
  BY <1>1, <1>4, <1>12
<1>15. QED
  BY <1>1, <1>3, <1>6, <1>7, <1>9, <1>10, <1>11, <1>13, <1>14, Passes

(* An answer that is awaited is taken.                                     *)
LEMMA GetsOwned ==
  ASSUME Types, Types', Frames, Packets, Waiters, Onward, NEW a \in 1..Len(cmds), Owned(a),
         Owners, Gets
  PROVE  Owned(a)'
<1> DEFINE t == stack[1].cmd
           b == rx.id
<1>1. /\ Nested /\ Len(stack) >= 1 /\ stack[1].at \in {"await", "check"} /\ t \in 1..Len(cmds)
      /\ ~Known(rx) /\ rx.kind # "data" /\ rx.kind = wait /\ rx' = NoPacket
      /\ pending' = pending /\ chip'.out = chip.out /\ chip'.todo = chip.todo
      /\ hist'.forsaken = hist.forsaken
      /\ Changes(t, [cmds[t] EXCEPT !.answer = b])
      /\ IF pending THEN Turns("await") ELSE Finishes
  BY DEF Waiters, Gets, InLoop, Beside
<1>2. Flying(rx) /\ Len(stack) \in Nat
  BY DEF Flying, Types
<1>3. b \in 1..Len(cmds) /\ rx = Answer(b) /\ cmds[b].op = wait
  <2>1. b \in 1..Len(cmds) /\ rx = Answer(b)
    BY <1>1, <1>2, FlyingOf DEF Packets
  <2>2. QED
    BY <1>1, <2>1, AnswerIs
<1>4. /\ cmds'[a].op = cmds[a].op /\ Answer(a)' = Answer(a)
      /\ GivenUp(cmds[a].op) => GivenUp(cmds[a].op)'
  BY <1>1, AnswerStays
<1>5. /\ ~Known(Answer(a)) /\ ~Known(Data(a)) /\ Known(NoPacket) /\ Answer(a).id = a
      /\ cmds[a].op # "none" /\ Answer(a) # NoPacket
  BY AnswerIs, DataIs, FlyingIs
<1>6. stack[1].at \notin Before /\ t # 0 /\ ~Counted(a) /\ Busy
  BY <1>1, <1>2 DEF Before, Counted, Busy, Types
<1>7. /\ Current(a) => t = a /\ ~stack[1].data /\ wait = cmds[a].op
      /\ Pends(a) => pending /\ Waiting(stack[1], a) /\ stack[1].data
      /\ Current(b) => t = b
  BY <1>1, <1>6, LoopCurrent DEF Waiting
<1>8. b # t => GivenUp(wait)
  <2>1. Owned(b)
    BY <1>3 DEF Owners
  <2>2. QED
    BY <1>2, <1>3, <1>7, <2>1 DEF Owned, OwnsAnswer
<1>9. ASSUME NEW p, ~Known(p), p # rx PROVE Flying(p)' <=> Flying(p)
  <2>1. p # NoPacket
    BY <1>5, <1>9 DEF Known
  <2>2. QED
    BY <1>1, <1>9, <2>1 DEF Flying
<1>10. ~(rx = chip'.out \/ \E k \in 1..Len(chip'.todo) : rx = chip'.todo[k])
  BY <1>1 DEF Packets, Once
<1>11. Flying(Answer(a))' => Flying(Answer(a)) /\ a # b
  <2>1. a = b => ~Flying(Answer(a))'
    BY <1>1, <1>3, <1>4, <1>5, <1>10 DEF Flying
  <2>2. a # b => Answer(a) # rx
    BY <1>3, <1>5
  <2>3. QED
    BY <1>4, <1>5, <1>9, <2>1, <2>2
<1>12. a # b /\ Flying(Answer(a)) => Flying(Answer(a))'
  BY <1>3, <1>4, <1>5, <1>9
<1>13. Flying(Data(a))' => Flying(Data(a))
  <2>1. Data(a) # rx
    BY <1>1 DEF Data
  <2>2. QED
    BY <1>5, <1>9, <2>1 DEF Data
<1>14. cmds'[a].owes = cmds[a].owes
  BY <1>1 DEF Changes, CommandType, Types
<1>15. cmds'[t].answer = b
  BY <1>1 DEF Changes, CommandType, Types
<1>16. Busy' /\ Len(stack') = Len(stack) /\ stack'[1].cmd = t /\ stack'[1].data = stack[1].data
  <2>1. PICK at : Turns(at)
    BY <1>1 DEF Finishes
  <2>2. Len(stack') = Len(stack) /\ stack'[1].cmd = t /\ stack'[1].data = stack[1].data
    BY <2>1 DEF Turns
  <2>3. QED
    BY <1>1, <1>2, <2>2 DEF Busy, Types
<1>17. Pends(a) => Expects(a)'
  <2>1. SUFFICES ASSUME Pends(a) PROVE Pends(a)'
    BY <1>16 DEF Expects
  <2>2. pending /\ t = a /\ stack[1].data /\ Turns("await")
    BY <1>1, <1>7, <2>1 DEF Waiting
  <2>3. stack'[1].at = "await" /\ pending'
    BY <1>1, <2>2 DEF Turns
  <2>4. QED
    BY <1>16, <2>2, <2>3 DEF Pends, Waiting, Waits
<1>18. ASSUME Flying(Answer(a)), Current(a)
       PROVE  GivenUp(cmds[a].op) \/ (a = b /\ (Flying(Data(a))' => Expects(a)'))
  <2>1. a = t /\ ~stack[1].data /\ wait = cmds[a].op
    BY <1>7, <1>18
  <2>2. CASE b # t
    BY <1>8, <2>1, <2>2
  <2>3. CASE b = t
    <3>1. SUFFICES ASSUME Flying(Data(a))', ~GivenUp(cmds[a].op) PROVE Expects(a)'
      BY <2>1, <2>3
    <3>2. cmds[a].op = "recv"
      BY <1>13, <3>1, DataRecv
    <3>3. CASE pending
      <4>1. PICK i \in 1..Len(stack) : stack[i].data /\ stack[i].at \in Waits
        BY <3>1, <3>2, <3>3 DEF Waiters, PendingKnown
      <4>2. i # 1 /\ 1 \in 1..Len(stack) /\ 1 < i
        BY <1>1, <1>2, <2>1, <4>1
      <4>3. stack[i].cmd # 0 /\ cmds[stack[i].cmd].op = "recv"
        BY <4>1 DEF Waiters, DataWaits
      <4>4. stack[i].cmd \in hist.forsaken
        BY <1>1, <1>6, <4>2, <4>3 DEF Nested
      <4>5. GivenUp(cmds[a].op)
        BY <3>2, <4>3, <4>4 DEF GivenUp
      <4>6. QED
        BY <3>1, <4>5
    <3>4. CASE ~pending
      <4>1. stack'[1].at = "returned"
        BY <1>1, <2>1, <3>2, <3>4 DEF Finishes, Turns
      <4>2. Counted(a)'
        BY <1>15, <1>16, <2>1, <2>3, <4>1 DEF Counted
      <4>3. QED
        BY <1>16, <4>2 DEF Expects
    <3>5. QED
      BY <3>3, <3>4
  <2>4. QED
    BY <2>2, <2>3
<1>19. rx' # Answer(a)
  BY <1>1, <1>5
<1> HIDE DEF t, b
<1>20. QED
  BY <1>1, <1>4, <1>6, <1>11, <1>13, <1>14, <1>17, <1>18, <1>19, Passes

(* Data are copied to the frame that runs.                                 *)
LEMMA GetsDataOwned ==
  ASSUME Types, Types', Frames, Packets, Waiters, Onward, NEW a \in 1..Len(cmds), Owned(a),
         Owners, GetsData
  PROVE  Owned(a)'
<1> DEFINE t == stack[1].cmd
           b == rx.id
<1>1. /\ Nested /\ Len(stack) >= 1 /\ stack[1].at \in {"await", "check"} /\ t \in 1..Len(cmds)
      /\ rx.kind = "data" /\ rx' = NoPacket /\ wait' = wait
      /\ chip'.out = chip.out /\ chip'.todo = chip.todo
      /\ Changes(t, [cmds[t] EXCEPT !.datum = b])
      /\ IF wait = "none" THEN Finishes ELSE Turns("await")
  BY DEF Waiters, GetsData, InLoop, Beside
<1>2. Flying(rx) /\ Len(stack) \in Nat
  BY DEF Flying, Types
<1>3. b \in 1..Len(cmds) /\ rx = Data(b) /\ ~Known(rx)
  <2>1. ~Known(rx)
    BY <1>1 DEF Known, Unsolicited
  <2>2. QED
    BY <1>1, <1>2, <2>1, FlyingOf DEF Packets
<1>4. /\ cmds'[a].op = cmds[a].op /\ Answer(a)' = Answer(a)
      /\ GivenUp(cmds[a].op) => GivenUp(cmds[a].op)'
  BY <1>1, AnswerStays
<1>5. /\ ~Known(Answer(a)) /\ ~Known(Data(a)) /\ Known(NoPacket) /\ Answer(a).kind # "data"
      /\ cmds[a].op # "none" /\ Answer(a) # NoPacket /\ Data(b).id = b /\ Data(a).id = a
  BY <1>3, AnswerIs, DataIs, FlyingIs
<1>6. stack[1].at \notin Before /\ t # 0 /\ ~Counted(a) /\ ~Counted(b)
  BY <1>1 DEF Before, Counted
<1>7. /\ Current(a) => t = a /\ ~stack[1].data /\ wait = cmds[a].op
      /\ Pends(a) => t = a /\ stack[1].data
      /\ Current(b) => t = b /\ ~stack[1].data
      /\ Pends(b) => t = b
  BY <1>1, <1>6, LoopCurrent DEF Waiting
<1>8. ASSUME NEW p, ~Known(p), p # rx PROVE Flying(p)' <=> Flying(p)
  <2>1. p # NoPacket
    BY <1>5, <1>8 DEF Known
  <2>2. QED
    BY <1>1, <1>8, <2>1 DEF Flying
<1>9. Flying(Answer(a))' <=> Flying(Answer(a))
  BY <1>1, <1>4, <1>5, <1>8
<1>10. Flying(Data(a))' => Flying(Data(a)) /\ a # b
  <2>1. a = b => ~Flying(Data(a))'
    <3>1. ~(rx = chip'.out \/ \E k \in 1..Len(chip'.todo) : rx = chip'.todo[k])
      BY <1>1, <1>3 DEF Packets, Once
    <3>2. a = b => Data(a) # NoPacket /\ Data(a) = rx
      BY <1>3, <1>5
    <3>3. QED
      BY <1>1, <3>1, <3>2 DEF Flying, Data
  <2>2. a # b => Data(a) # rx
    BY <1>3, <1>5
  <2>3. QED
    BY <1>5, <1>8, <2>1, <2>2 DEF Data
<1>11. cmds'[a].owes = cmds[a].owes
  BY <1>1 DEF Changes, CommandType, Types
<1>12. Current(a) => Current(a)'
  <2>1. SUFFICES ASSUME Current(a) PROVE Current(a)'
    OBVIOUS
  <2>2. /\ t = a /\ ~stack[1].data /\ wait = cmds[a].op /\ Turns("await")
    BY <1>1, <1>5, <1>7, <2>1
  <2>3. stack'[1].cmd = a /\ ~stack'[1].data /\ stack'[1].at = "await" /\ Len(stack') >= 1
    BY <2>2 DEF Turns
  <2>4. Busy'
    BY <2>3 DEF Busy, Types
  <2>5. QED
    BY <1>1, <1>4, <2>2, <2>3, <2>4 DEF Current, Waiting, Waits
<1>13. Flying(Data(a))' /\ Pends(a) => GivenUp(cmds[a].op)
  <2>1. SUFFICES ASSUME Flying(Data(a))', Pends(a) PROVE GivenUp(cmds[a].op)
    OBVIOUS
  <2>2. t = a /\ a # b /\ cmds[a].op = "recv"
    BY <1>7, <1>10, <2>1, DataRecv
  <2>3. Owned(b) /\ Flying(Data(b))
    BY <1>2, <1>3 DEF Owners
  <2>4. GivenUp("recv") \/ Expects(b)
    BY <2>3 DEF Owned, OwnsData
  <2>5. ~Expects(b)
    BY <1>6, <1>7, <2>2 DEF Expects
  <2>6. QED
    BY <2>2, <2>4, <2>5
<1>14. rx' # Answer(a)
  BY <1>1, <1>5
<1> HIDE DEF t, b
<1>15. QED
  BY <1>1, <1>4, <1>6, <1>9, <1>10, <1>11, <1>12, <1>13, <1>14, Passes

LEMMA OwnersStep ==
  ASSUME Types, Types', Frames, Packets, Packets', Waiters, Onward, Owners, Kinds
  PROVE  Owners'
<1>1. ASSUME NEW a \in 1..Len(cmds) PROVE Owned(a)'
  <2>1. Owned(a)
    BY <1>1 DEF Owners
  <2>2. QED
    BY <2>1, PlainOwned, LeftOwned, DropsOwned, HandlesOwned, HearsOwned, ChipOwned, SendsOwned,
       WaitBeginsOwned, CommandsOwned, ReleasesOwned, GetsOwned, GetsDataOwned DEF Kinds
<1>2. ASSUME NEW a \in 1..Len(cmds'), a \notin 1..Len(cmds) PROVE Owned(a)'
  <2>1. a \in Nat /\ a > Len(cmds) /\ Len(cmds) \in Nat /\ Len(cmds') \in Nat
    BY <1>2 DEF Types
  <2>2. CASE Commands
    <3>1. cmds'[a].sent = 0
      <4>1. PICK op \in Op : Adds(op)
        BY <2>2 DEF Commands
      <4>2. QED
        BY <1>2, <2>1, <4>1, AddsKept DEF CmdsKept
    <3>2. Answer(a)' \in Packet /\ Answer(a)'.id = a /\ ~Known(Answer(a)')
      <4>1. cmds'[a].op \in Op
        <5>1. cmds'[a] \in CommandType
          BY <1>2 DEF Types
        <5>2. QED
          BY <5>1 DEF CommandType
      <4>2. QED
        BY <2>1, <4>1 DEF Answer, Event, Packet, Known, Op
    <3>3. Data(a) \in Packet /\ Data(a).id = a /\ ~Known(Data(a))
      BY <2>1, DataIs
    <3>4. ~Flying(Answer(a))'
      BY <3>1, <3>2 DEF Packets, Flight, Known
    <3>5. ~Flying(Data(a))'
      BY <3>1, <3>3 DEF Packets, Flight, Known, Data
    <3>6. OwnsAnswer(a)' /\ OwnsData(a)' /\ LookedAt(a)'
      BY <3>4, <3>5 DEF OwnsAnswer, OwnsData, LookedAt, Flying
    <3>7. QED
      BY <3>6 DEF Owned
  <2>3. CASE Len(cmds') = Len(cmds)
    BY <1>2, <2>3
  <2>4. Commands \/ Len(cmds') = Len(cmds)
    BY DEF Kinds, ChipActs, Announces, Enters, Works, Sends, StartsWaiting, Posts, Hears, HandlesAgain,
       Gets, Drops, GetsData, GivesUp, GoesOn, WaitsForData, Returns, Releases, Quiet, Changes
  <2>5. QED
    BY <2>2, <2>3, <2>4
<1>3. QED
  BY <1>1, <1>2 DEF Owners

(* What a step writes down of answers and data.                            *)
Records(c) ==
  /\ \/ cmds'[c].answer = cmds[c].answer
     \/ Gets /\ c = stack[1].cmd /\ cmds'[c].answer = rx.id
  /\ \/ cmds'[c].datum = cmds[c].datum
     \/ GetsData /\ c = stack[1].cmd /\ cmds'[c].datum = rx.id

LEMMA RecordsStep ==
  ASSUME Types, Types', Kinds
  PROVE  /\ \A c \in 1..Len(cmds) : Records(c)
         /\ \A c \in 1..Len(cmds') : c \notin 1..Len(cmds) =>
              cmds'[c].answer = 0 /\ cmds'[c].datum = 0
<1>1. \A c \in 1..Len(cmds) : cmds[c] \in CommandType
  BY DEF Types
<1>2. CASE \E op \in Op : Adds(op)
  <2>1. PICK op \in Op : Adds(op)
    BY <1>2
  <2>2. NewCommand(op).answer = 0 /\ NewCommand(op).datum = 0
    BY DEF NewCommand
  <2>3. \A c \in 1..Len(cmds') : c \in 1..Len(cmds) \/ c = Len(cmds) + 1
    BY <2>1 DEF Adds, Types
  <2>4. QED
    BY <2>1, <2>2, <2>3 DEF Adds, Records
<1>3. ASSUME NEW k \in 1..Len(cmds), NEW r,
             Changes(k, r), r.answer = cmds[k].answer, r.datum = cmds[k].datum
      PROVE  Len(cmds') = Len(cmds) /\ \A c \in 1..Len(cmds) : Records(c)
  BY <1>3 DEF Changes, Records
<1>4. CASE Announces
  <2>1. CASE cmds' = cmds
    BY <2>1 DEF Records
  <2>2. CASE cmds' # cmds
    <3> DEFINE k == Head(chip.todo).id
               r == [cmds[k] EXCEPT !.owes = TRUE]
    <3>1. k \in 1..Len(cmds) /\ Changes(k, r)
      BY <1>4, <2>2 DEF Announces
    <3>2. r.answer = cmds[k].answer /\ r.datum = cmds[k].datum
      BY <1>1, <3>1 DEF CommandType
    <3> HIDE DEF k, r
    <3>3. QED
      BY <1>3, <3>1, <3>2
  <2>3. QED
    BY <2>1, <2>2
<1>5. CASE Posts
  <2> DEFINE k == Tx
             r == [cmds[k] EXCEPT !.sent = cmds[k].sent + 1]
  <2>1. k \in 1..Len(cmds) /\ Changes(k, r)
    BY <1>5 DEF Posts, Types, Tx
  <2>2. r.answer = cmds[k].answer /\ r.datum = cmds[k].datum
    BY <1>1, <2>1 DEF CommandType
  <2> HIDE DEF k, r
  <2>3. QED
    BY <1>3, <2>1, <2>2
<1>6. CASE Gets
  <2>1. /\ Changes(stack[1].cmd, [cmds[stack[1].cmd] EXCEPT !.answer = rx.id])
        /\ stack[1].cmd \in 1..Len(cmds)
    BY <1>6 DEF Gets, InLoop
  <2>2. /\ cmds'[stack[1].cmd].answer = rx.id
        /\ cmds'[stack[1].cmd].datum = cmds[stack[1].cmd].datum
    BY <1>1, <2>1 DEF Changes, CommandType
  <2>3. QED
    BY <1>6, <2>1, <2>2 DEF Changes, Records
<1>7. CASE GetsData
  <2>1. /\ Changes(stack[1].cmd, [cmds[stack[1].cmd] EXCEPT !.datum = rx.id])
        /\ stack[1].cmd \in 1..Len(cmds)
    BY <1>7 DEF GetsData, InLoop
  <2>2. /\ cmds'[stack[1].cmd].datum = rx.id
        /\ cmds'[stack[1].cmd].answer = cmds[stack[1].cmd].answer
    BY <1>1, <2>1 DEF Changes, CommandType
  <2>3. QED
    BY <1>7, <2>1, <2>2 DEF Changes, Records
<1>8. CASE cmds' = cmds
  BY <1>8 DEF Records
<1>9. \/ \E op \in Op : Adds(op)
      \/ Announces \/ Posts \/ Gets \/ GetsData \/ cmds' = cmds
  BY DEF Kinds, ChipActs, Enters, Commands, Works, Sends, StartsWaiting, Hears, HandlesAgain,
     Drops, GivesUp, GoesOn, WaitsForData, Returns, Releases, Quiet
<1>10. QED
  BY <1>2, <1>4, <1>5, <1>6, <1>7, <1>8, <1>9

(* A command is given its own answer, or that of a kind that was given up. *)
LEMMA AnswerGotten ==
  ASSUME Types, Packets, Waiters, Owners, Gets
  PROVE  LET t == stack[1].cmd
             b == rx.id
         IN  /\ b \in 1..Len(cmds) /\ \A c \in 1..Len(cmds) : cmds[c].answer # b
             /\ \/ b = t
                \/ cmds[b].op = cmds[t].op /\ GivenUp(cmds[t].op)
                \/ TakenOver(t, cmds[b].op)
<1> DEFINE t == stack[1].cmd
           b == rx.id
<1>1. /\ Len(stack) >= 1 /\ stack[1].at \in {"await", "check"} /\ t \in 1..Len(cmds)
      /\ ~Known(rx) /\ rx.kind # "data" /\ rx.kind = wait /\ Len(stack) \in Nat
  BY DEF Gets, InLoop, Types
<1>2. Flying(rx) /\ rx \in Packet
  BY FlyingIs DEF Flying
<1>3. /\ b \in 1..Len(cmds) /\ rx = Answer(b) /\ cmds[b].op = wait /\ wait # "none"
      /\ \A c \in 1..Len(cmds) : cmds[c].answer # b
  <2>1. b \in 1..Len(cmds) /\ rx = Answer(b)
    BY <1>1, <1>2, FlyingOf DEF Packets
  <2>2. \A c \in 1..Len(cmds) : cmds[c].answer # b
    BY <1>1, <1>2 DEF Packets, Flight
  <2>3. QED
    BY <1>1, <2>1, <2>2, AnswerIs
<1>4. stack[1].at \notin Before /\ stack[1].at \in Waits /\ t # 0 /\ t \in Nat
  BY <1>1 DEF Before, Waits
<1>5. b # t => GivenUp(wait)
  <2>1. Owned(b)
    BY <1>3 DEF Owners
  <2>2. Current(b) => t = b
    BY <1>1, <1>4, LoopCurrent DEF Waiting
  <2>3. QED
    BY <1>2, <1>3, <2>1, <2>2 DEF Owned, OwnsAnswer
<1>6. wait = cmds[t].op \/ (t \in hist.forsaken /\ Later(t))
  <2>1. 1 \in 1..Len(stack)
    BY <1>1
  <2>2. QED
    BY <1>3, <1>4, <2>1 DEF Waiters, WaitOwned
<1>7. ASSUME t \in hist.forsaken, Later(t) PROVE TakenOver(t, wait)
  <2>1. PICK d \in 1..Len(cmds) :
          /\ d > t /\ cmds[d].op = wait
          /\ d \in hist.forsaken \/ \E j \in 1..Len(stack) : stack[j].cmd = d /\ stack[j].at \in Waits
    BY <1>7 DEF Later
  <2>2. ASSUME NEW j \in 1..Len(stack), stack[j].cmd = d PROVE FALSE
    <3>1. j # 1
      BY <1>4, <2>1, <2>2
    <3>2. 1 < j /\ 1 \in 1..Len(stack)
      BY <1>1, <3>1
    <3>3. stack[j].cmd < t
      BY <1>4, <3>2 DEF Waiters, Nested
    <3>4. d \in Nat /\ d < t
      BY <2>2, <3>3
    <3>5. QED
      BY <1>4, <2>1, <3>4
  <2>3. QED
    BY <1>7, <2>1, <2>2 DEF TakenOver
<1> HIDE DEF t, b
<1>8. QED
  BY <1>3, <1>5, <1>6, <1>7 DEF t, b

LEMMA DatumGotten ==
  ASSUME Types, Packets, Waiters, Owners, GetsData
  PROVE  rx.id = stack[1].cmd \/ GivenUp("recv")
<1> DEFINE t == stack[1].cmd
           b == rx.id
<1>1. /\ Len(stack) >= 1 /\ stack[1].at \in {"await", "check"} /\ t \in 1..Len(cmds)
      /\ rx.kind = "data" /\ Flying(rx)
  BY DEF GetsData, InLoop, Flying
<1>2. b \in 1..Len(cmds) /\ rx = Data(b)
  <2>1. ~Known(rx)
    BY <1>1 DEF Known, Unsolicited
  <2>2. QED
    BY <1>1, <2>1, FlyingOf DEF Packets
<1>3. stack[1].at \notin Before /\ t # 0 /\ ~Counted(b)
  BY <1>1 DEF Before, Counted
<1>4. (Current(b) => t = b) /\ (Pends(b) => t = b)
  BY <1>1, <1>3, LoopCurrent DEF Waiting
<1>5. GivenUp("recv") \/ Expects(b)
  <2>1. Owned(b)
    BY <1>2 DEF Owners
  <2>2. QED
    BY <1>1, <1>2, <2>1 DEF Owned, OwnsData
<1>6. QED
  BY <1>3, <1>4, <1>5 DEF Expects

LEMMA TakenOverStays ==
  ASSUME Types, Nested, Onward, NEW c, NEW op, TakenOver(c, op)
  PROVE  TakenOver(c, op)'
BY DEF Nested, Onward, OpsKept, TakenOver

LEMMA OwnStep ==
  ASSUME Types, Types', Packets, Packets', Waiters, Onward, Owners, Kinds, OwnAnswer
  PROVE  OwnAnswer'
<1>1. /\ Len(cmds) \in Nat /\ Len(cmds') \in Nat /\ Nested
      /\ \A c \in 1..Len(cmds) : c \in 1..Len(cmds') /\ cmds'[c].op = cmds[c].op
      /\ hist.forsaken \subseteq hist'.forsaken
  BY SMTT(30) DEF Types, Waiters, Onward, OpsKept
<1>2. /\ \A c \in 1..Len(cmds) : Records(c)
      /\ \A c \in 1..Len(cmds') : c \notin 1..Len(cmds) => cmds'[c].answer = 0 /\ cmds'[c].datum = 0
  BY RecordsStep
<1>3. ASSUME NEW c \in 1..Len(cmds') PROVE cmds'[c].sent <= 1
  BY DEF Packets, Sending
<1>4. ASSUME NEW c \in 1..Len(cmds')
      PROVE  \/ cmds'[c].answer \in {0, c}
             \/ cmds'[cmds'[c].answer].op = cmds'[c].op /\ GivenUp(cmds[c].op)'
             \/ TakenOver(c, cmds[cmds[c].answer].op)'
  <2>1. CASE c \notin 1..Len(cmds)
    BY <1>2, <2>1
  <2>2. CASE c \in 1..Len(cmds) /\ cmds'[c].answer = cmds[c].answer
    <3> DEFINE a == cmds[c].answer
    <3>1. a = 0 \/ a \in 1..Len(cmds)
      BY <2>2 DEF Packets, Sending
    <3>2. CASE a \in {0, c}
      BY <2>2, <3>2
    <3>3. CASE a \in 1..Len(cmds) /\ cmds[a].op = cmds[c].op /\ GivenUp(cmds[c].op)
      <4>1. PICK op : op = cmds[c].op
        OBVIOUS
      <4>2. GivenUp(op)'
        BY <1>1, <3>3, <4>1, GivenUpStays DEF Nested
      <4>3. GivenUp(cmds[c].op)'
        BY <1>1, <2>2, <4>1, <4>2 DEF GivenUp
      <4>4. QED
        BY <1>1, <2>2, <3>3, <4>3
    <3>4. CASE a \in 1..Len(cmds) /\ TakenOver(c, cmds[a].op)
      <4>1. PICK op : op = cmds[a].op
        OBVIOUS
      <4>2. TakenOver(c, op)'
        BY <1>1, <3>4, <4>1, TakenOverStays
      <4>3. cmds'[cmds'[c].answer].op = op
        BY <1>1, <2>2, <3>4, <4>1
      <4>4. TakenOver(c, cmds[cmds[c].answer].op)'
        BY <4>2, <4>3 DEF TakenOver
      <4>5. QED
        BY <4>4
    <3>5. QED
      BY <2>2, <3>1, <3>2, <3>3, <3>4 DEF OwnAnswer
  <2>3. CASE c \in 1..Len(cmds) /\ Gets /\ c = stack[1].cmd /\ cmds'[c].answer = rx.id
    <3> DEFINE b == rx.id
    <3>1. /\ b \in 1..Len(cmds)
          /\ \/ b = c
             \/ cmds[b].op = cmds[c].op /\ GivenUp(cmds[c].op)
             \/ TakenOver(c, cmds[b].op)
      BY <2>3, AnswerGotten
    <3>2. CASE b = c
      BY <2>3, <3>2
    <3>3. CASE cmds[b].op = cmds[c].op /\ GivenUp(cmds[c].op)
      <4>1. PICK op : op = cmds[c].op
        OBVIOUS
      <4>2. GivenUp(op)'
        BY <1>1, <3>3, <4>1, GivenUpStays DEF Nested
      <4>3. GivenUp(cmds[c].op)'
        BY <1>1, <2>3, <4>1, <4>2 DEF GivenUp
      <4>4. QED
        BY <1>1, <2>3, <3>1, <3>3, <4>3
    <3>4. CASE TakenOver(c, cmds[b].op)
      <4>1. PICK op : op = cmds[b].op
        OBVIOUS
      <4>2. TakenOver(c, op)'
        BY <1>1, <3>4, <4>1, TakenOverStays
      <4>3. cmds'[cmds'[c].answer].op = op
        BY <1>1, <2>3, <3>1, <4>1
      <4>4. TakenOver(c, cmds[cmds[c].answer].op)'
        BY <4>2, <4>3 DEF TakenOver
      <4>5. QED
        BY <4>4
    <3>5. QED
      BY <3>1, <3>2, <3>3, <3>4
  <2>4. QED
    BY <1>2, <2>1, <2>2, <2>3 DEF Records
<1>5. ASSUME NEW c \in 1..Len(cmds') PROVE cmds'[c].datum \in {0, c} \/ GivenUp("recv")'
  <2>1. CASE c \notin 1..Len(cmds)
    BY <1>2, <2>1
  <2>2. GivenUp("recv") => GivenUp("recv")'
    BY <1>1, GivenUpStays DEF Nested
  <2>3. CASE c \in 1..Len(cmds) /\ cmds'[c].datum = cmds[c].datum
    BY <2>2, <2>3 DEF OwnAnswer
  <2>4. CASE GetsData /\ c = stack[1].cmd /\ cmds'[c].datum = rx.id
    BY <2>2, <2>4, DatumGotten
  <2>5. QED
    BY <1>2, <2>1, <2>3, <2>4 DEF Records
<1>6. ASSUME NEW c \in 1..Len(cmds'), NEW d \in 1..Len(cmds'), c # d,
             cmds'[c].answer = cmds'[d].answer
      PROVE  cmds'[c].answer = 0
  <2>1. CASE c \notin 1..Len(cmds) \/ d \notin 1..Len(cmds)
    BY <1>2, <1>6, <2>1
  <2>2. CASE c \in 1..Len(cmds) /\ d \in 1..Len(cmds)
    <3>1. CASE cmds'[c].answer = cmds[c].answer /\ cmds'[d].answer = cmds[d].answer
      BY <1>6, <2>2, <3>1 DEF OwnAnswer
    <3>2. CASE Gets /\ cmds'[c].answer = rx.id /\ cmds'[d].answer = rx.id
      <4>1. \A e \in 1..Len(cmds) : cmds[e].answer # rx.id
        BY <3>2, AnswerGotten
      <4>2. c = stack[1].cmd /\ d = stack[1].cmd
        BY <1>2, <2>2, <3>2, <4>1 DEF Records
      <4>3. QED
        BY <1>6, <4>2
    <3>3. QED
      BY <1>2, <1>6, <2>2, <3>1, <3>2 DEF Records
  <2>3. QED
    BY <2>1, <2>2
<1>7. QED
  BY <1>3, <1>4, <1>5, <1>6 DEF OwnAnswer

Answers == Packets /\ Waiters /\ Owners /\ OwnAnswer

LEMMA InitAnswers == Init => Answers
<1>1. SUFFICES ASSUME Init PROVE Answers
  OBVIOUS
<1>2. Len(stack) = 0 /\ ~Busy /\ Len(cmds) = 0 /\ Len(chip.todo) = 0
  BY <1>1 DEF Init, Busy
<1>3. rx = NoPacket /\ chip.out = NoPacket /\ hist.forsaken = {} /\ ~pending
  BY <1>1 DEF Init
<1>4. \A p : Flying(p) => Known(p)
  BY <1>2, <1>3 DEF Flying, Known, NoPacket
<1>5. Packets
  BY <1>2, <1>3, <1>4 DEF Packets, Flight, Once, Sending, Unsent, Flying
<1>6. Waiters
  BY <1>2, <1>3 DEF Waiters, Nested, DataWaits, PendingKnown, WaitOwned
<1>7. Owners /\ OwnAnswer
  BY <1>2 DEF Owners, OwnAnswer
<1>8. QED
  BY <1>5, <1>6, <1>7 DEF Answers

(* A command goes out at most once; the answer and the data it is given    *)
(* are its own, and given to no other, unless a wait of that kind was      *)
(* given up or taken over by a report: utility/evnt_handler.c.             *)
THEOREM AnswersAreOwn == Spec => []OwnAnswer
<1>1. Sound /\ Sound' /\ Answers /\ [Next]_vars => Answers'
  <2>1. ASSUME Sound, Sound', Answers, Next PROVE Answers'
    <3>1. Kinds
      BY <2>1, EveryKind DEF Sound
    <3>2. Onward
      BY <2>1, <3>1, OnwardStep DEF Sound
    <3>3. Packets'
      BY <2>1, <3>1, PacketsStep DEF Sound, Answers
    <3>4. Waiters'
      BY <2>1, <3>1, <3>2, WaitersStep DEF Sound, Answers
    <3>5. Owners'
      BY <2>1, <3>1, <3>2, <3>3, OwnersStep DEF Sound, Answers
    <3>6. OwnAnswer'
      BY <2>1, <3>1, <3>2, <3>3, OwnStep DEF Sound, Answers
    <3>7. QED
      BY <3>3, <3>4, <3>5, <3>6 DEF Answers
  <2>2. ASSUME Answers, UNCHANGED vars PROVE Answers'
    <3>1. Packets'
      BY <2>2 DEF Answers, vars, host, Packets, Flight, Once, Sending, Unsent, Flying, Known, Answer,
                  Busy
    <3>2. Waiters'
      BY <2>2 DEF Answers, vars, host, Waiters, Nested, DataWaits, PendingKnown, WaitOwned, Later,
                  GivenUp
    <3>3. Owners'
      BY <2>2 DEF Answers, vars, host, Owners, Owned, OwnsAnswer, LookedAt, OwnsData, Expects, Counted,
                  Pends, Current, Resumes, Waiting, Flying, Answer, GivenUp, Busy
    <3>4. OwnAnswer'
      BY <2>2 DEF Answers, vars, host, OwnAnswer, GivenUp, TakenOver
    <3>5. QED
      BY <3>1, <3>2, <3>3, <3>4 DEF Answers
  <2>3. QED
    BY <2>1, <2>2
<1>2. Answers => OwnAnswer
  BY DEF Answers
<1>3. QED
  BY <1>1, <1>2, InitAnswers, AlwaysSound, PTL DEF Spec

===============================================================================
