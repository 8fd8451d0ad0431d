----------------------------- MODULE UsbMsgProofs -----------------------------
(***************************************************************************)
(* Theorems about the USB message interface, for every size of header,     *)
(* packet, block and message: no handler and no transfer uses a message    *)
(* that has been freed, neither direction gets stuck, the IN direction is  *)
(* a channel of whole messages, and so is the OUT direction until a host   *)
(* breaks the framing.  They assume what the model's run does: the host    *)
(* waits for a completion to be handled before it disconnects, and for the *)
(* cleanup before it reconnects.                                           *)
(***************************************************************************)
EXTENDS UsbMsg, SequenceTheorems, TLAPS

Events == {"in", "out", "cleanup"}
Lens == SendLens \union {s.len : s \in HostShapes}
Items == [id : 1..MaxSent, len : Lens]
Headers == [id : Ids, shape : HostShapes]

Has(q, e) == \E i \in 1..Len(q) : q[i] = e

(* A queue of events: none is there twice, and a cleanup is the last.      *)
Queue(q) ==
  /\ q \in Seq(Events)
  /\ \A i, j \in 1..Len(q) : q[i] = q[j] => i = j
  /\ \A i \in 1..Len(q) : q[i] = "cleanup" => i = Len(q)

Ins == [list : Seq(Items), pos : Nat, ep : {NULL} \union InTransfer, done : BOOLEAN]
Outs == [length : Nat, pos : Nat, buf : {NULL} \union SUBSET Ids,
         initial : {NULL} \union Headers,
         ep : [to : {"none", "initial", "buf"}, size : Int], done : {NULL} \union Nat]

Types ==
  /\ connected \in BOOLEAN
  /\ Queue(events)
  /\ pc \in {"loop", "rest", "check", "reset", "overrun"}
  /\ out \in Outs
  /\ in \in Ins
  /\ host \in [msg : {NULL} \union [id : Ids, left : Nat, shape : HostShapes], whole : Ids,
               bytes : Nat, received : {NULL} \union [id : Nat, len : Int],
               broke : BOOLEAN]
  /\ dispatched \in {NULL} \union [id : Ids, from : SUBSET Ids]
  /\ count \in [host : 0..MaxHost, sent : 0..MaxSent, drops : Nat]

(* Between a disconnection and its cleanup the main loop may still handle  *)
(* what it was told before; after it, all is as in the beginning.          *)
Apart ==
  /\ connected => ~Has(events, "cleanup")
  /\ ~connected => out.done = NULL /\ ~in.done /\ (Has(events, "in") => in.list # <<>>)
  /\ ~connected /\ ~Has(events, "cleanup") =>
       events = <<>> /\ pc = "loop" /\ in.list = <<>> /\ out.buf = NULL /\ out.pos = 0

(* What the main loop is told, and holds, has a header.                    *)
Headed ==
  /\ \/ out.done # NULL \/ out.ep.to = "buf" \/ Has(events, "out")
     \/ pc \in {"rest", "check"} \/ out.buf # NULL
     => out.initial \in Headers
  /\ out.buf # NULL => out.length \in Lens
  /\ pc \in {"rest", "check"} => out.buf # NULL

(* The OUT direction, in one of its five states.                           *)
AtNone == out.ep.to = "none"
Waits == out.ep.to = "initial" /\ out.ep.size = EpSize /\ out.buf = NULL
Fills ==
  out.ep.to = "buf" /\ out.ep.size \in Nat /\ out.buf # NULL /\ out.pos <= out.length
Filled ==
  /\ AtNone /\ out.done # NULL
  /\ IF out.buf = NULL THEN out.done <= EpSize ELSE out.pos <= out.length
Told == AtNone /\ (out.buf = NULL => out.pos <= EpSize - HeaderSize)
Handled == AtNone /\ (pc = "rest" => out.pos <= out.length)

OutState ==
  connected =>
    IF pc # "loop" THEN Handled /\ out.done = NULL /\ ~Has(events, "out")
    ELSE IF Has(events, "out") THEN Told /\ out.done = NULL
    ELSE IF out.done # NULL THEN Filled
    ELSE Waits \/ Fills

(* The IN direction: nothing to send, a transfer under way, one that is    *)
(* done, or the main loop has been told to drop the message.               *)
Sends ==
  /\ ~in.done /\ ~Has(events, "in")
  /\ in.ep.id = Head(in.list).id /\ (in.ep.last <=> Left(in) = 0)
  /\ host.bytes + in.ep.size = in.pos
Sent == ~Has(events, "in") /\ host.bytes = IF Left(in) = 0 THEN 0 ELSE in.pos
Drops == Has(events, "in") /\ Left(in) = 0 /\ host.bytes = 0

InState ==
  connected =>
    IF in.list = <<>>
    THEN in.ep = NULL /\ ~in.done /\ ~Has(events, "in") /\ host.bytes = 0
    ELSE /\ Left(in) >= 0
         /\ IF in.ep # NULL THEN Sends ELSE IF in.done THEN Sent ELSE Drops

IInv == Types /\ Apart /\ Headed /\ OutState /\ InState

-----------------------------------------------------------------------------
(* Queues of events.                                                       *)

LEMMA QueueAdd ==
  ASSUME NEW q, Queue(q), ~Has(q, "cleanup"), NEW e \in Events
  PROVE  Queue(Add(q, e)) /\ \A x : Has(Add(q, e), x) <=> Has(q, x) \/ x = e
<1>1. q \in Seq(Events) /\ Len(q) \in Nat
  BY DEF Queue
<1>2. CASE Has(q, e)
  BY <1>2 DEF Add, Has
<1>3. CASE ~Has(q, e)
  <2>1. Add(q, e) = Append(q, e)
    BY <1>3 DEF Add, Has
  <2> DEFINE r == Append(q, e)
  <2>2. /\ r \in Seq(Events) /\ Len(r) = Len(q) + 1 /\ r[Len(q) + 1] = e
        /\ \A i \in 1..Len(q) : r[i] = q[i]
    BY <1>1, AppendProperties
  <2> HIDE DEF r
  <2>3. ASSUME NEW i \in 1..Len(r), NEW j \in 1..Len(r), r[i] = r[j] PROVE i = j
    BY <1>1, <1>3, <2>2, <2>3 DEF Queue, Has
  <2>4. ASSUME NEW i \in 1..Len(r), r[i] = "cleanup" PROVE i = Len(r)
    BY <1>1, <2>2, <2>4 DEF Has
  <2>5. ASSUME NEW x PROVE Has(r, x) <=> Has(q, x) \/ x = e
    BY <1>1, <2>2 DEF Has
  <2>6. QED
    BY <2>1, <2>2, <2>3, <2>4, <2>5 DEF Queue, r
<1>4. QED
  BY <1>2, <1>3

LEMMA QueueTail ==
  ASSUME NEW q, Queue(q), q # <<>>
  PROVE  /\ Queue(Tail(q)) /\ Has(q, Head(q))
         /\ \A x : Has(Tail(q), x) <=> Has(q, x) /\ x # Head(q)
         /\ Head(q) = "cleanup" => Tail(q) = <<>>
<1> DEFINE t == Tail(q)
<1>1. /\ q \in Seq(Events) /\ Len(q) \in Nat /\ Len(q) >= 1 /\ Head(q) = q[1]
  BY DEF Queue
<1>2. /\ t \in Seq(Events) /\ Len(t) = Len(q) - 1
      /\ \A i \in 1..Len(t) : t[i] = q[i + 1]
  BY <1>1
<1> HIDE DEF t
<1>3. ASSUME NEW i \in 1..Len(t), NEW j \in 1..Len(t), t[i] = t[j] PROVE i = j
  BY <1>1, <1>2, <1>3 DEF Queue
<1>4. ASSUME NEW i \in 1..Len(t), t[i] = "cleanup" PROVE i = Len(t)
  <2>1. q[i + 1] = "cleanup" /\ i + 1 \in 1..Len(q)
    BY <1>1, <1>2, <1>4
  <2>2. QED
    BY <1>1, <1>2, <2>1 DEF Queue
<1>5. ASSUME NEW x PROVE Has(t, x) <=> Has(q, x) /\ x # Head(q)
  <2>1. ASSUME Has(t, x) PROVE Has(q, x) /\ x # Head(q)
    <3>1. PICK i \in 1..Len(t) : t[i] = x
      BY <2>1 DEF Has
    <3>2. i + 1 \in 1..Len(q) /\ q[i + 1] = x /\ 1 \in 1..Len(q) /\ i + 1 # 1
      BY <1>1, <1>2, <3>1
    <3>3. QED
      BY <1>1, <3>2 DEF Queue, Has
  <2>2. ASSUME Has(q, x), x # Head(q) PROVE Has(t, x)
    <3>1. PICK i \in 1..Len(q) : q[i] = x
      BY <2>2 DEF Has
    <3>2. i # 1
      BY <1>1, <2>2, <3>1
    <3>3. i - 1 \in 1..Len(t) /\ t[i - 1] = q[i - 1 + 1] /\ i - 1 + 1 = i
      BY <1>1, <1>2, <3>2
    <3>4. QED
      BY <3>1, <3>3 DEF Has
  <2>3. QED
    BY <2>1, <2>2
<1>6. Has(q, Head(q))
  BY <1>1 DEF Has
<1>7. Head(q) = "cleanup" => t = <<>>
  <2>1. ASSUME Head(q) = "cleanup" PROVE t = <<>>
    <3>1. Len(q) = 1
      <4>1. 1 \in 1..Len(q) /\ q[1] = "cleanup"
        BY <1>1, <2>1
      <4>2. QED
        BY <4>1 DEF Queue
    <3>2. QED
      BY <1>2, <3>1, EmptySeq
  <2>2. QED
    BY <2>1
<1>8. QED
  BY <1>2, <1>3, <1>4, <1>5, <1>6, <1>7 DEF Queue, t

-----------------------------------------------------------------------------
(* The IN direction.                                                       *)

LEMMA LensAreNat ==
  /\ Lens \subseteq Nat /\ HeaderSize \in Nat \ {0} /\ MaxBlock \in Nat \ {0}
  /\ EpSize \in Nat \ {0} /\ MaxSent \in Nat /\ MaxHost \in Nat
  BY SizeAssumption DEF Lens

(* What msg_in_start_ep does: the next block of the head goes out, unless  *)
(* all of it has.                                                          *)
LEMMA StartInAs ==
  ASSUME NEW i \in Ins, i.list # <<>>, Left(i) >= 0
  PROVE  /\ Left(i) \in Nat /\ StartIn(i) \in Ins
         /\ StartIn(i).list = i.list /\ StartIn(i).done = i.done
         /\ Left(i) = 0 => StartIn(i) = i
         /\ Left(i) # 0 =>
              /\ StartIn(i).ep # NULL /\ StartIn(i).ep.id = Head(i.list).id
              /\ Left(StartIn(i)) >= 0 /\ (StartIn(i).ep.last <=> Left(StartIn(i)) = 0)
              /\ StartIn(i).pos = i.pos + StartIn(i).ep.size
<1> DEFINE size == IF Left(i) > MaxBlock THEN MaxBlock ELSE Left(i)
           last == EndsMessage(i)
           ep == [id |-> Head(i.list).id, size |-> size, last |-> last]
           s == [list |-> i.list, pos |-> i.pos + size, ep |-> ep, done |-> i.done]
<1>1. Head(i.list) \in Items /\ i.pos \in Nat
  BY DEF Ins
<1>2. Head(i.list).len \in Nat /\ Head(i.list).id \in Nat
  <2>1. Head(i.list).len \in Lens /\ Head(i.list).id \in 1..MaxSent
    BY <1>1 DEF Items
  <2>2. Lens \subseteq Nat /\ 1..MaxSent \subseteq Nat
    BY LensAreNat
  <2>3. QED
    BY <2>1, <2>2
<1>3. Left(i) \in Nat
  BY <1>1, <1>2, LensAreNat DEF Left
<1>4. CASE Left(i) = 0
  BY <1>3, <1>4 DEF StartIn
<1>5. CASE Left(i) # 0
  <2>1. StartIn(i) = [i EXCEPT !.ep = ep, !.pos = i.pos + size]
    BY <1>5 DEF StartIn
  <2>2. size \in Nat /\ size <= Left(i) /\ (last <=> Left(i) - size = 0)
    BY <1>3, <1>5, LensAreNat DEF EndsMessage
  <2>3. last \in BOOLEAN
    BY <1>3, LensAreNat DEF EndsMessage
  <2> HIDE DEF size, last
  <2>4. ep \in InTransfer /\ ep.size = size /\ ep.last = last /\ ep.id = Head(i.list).id
    BY <1>2, <2>2, <2>3 DEF InTransfer
  <2>5. ep # NULL
    BY <2>4, NullAssumption
  <2> HIDE DEF ep
  <2>6. StartIn(i) = s
    BY <2>1 DEF Ins
  <2>7. s \in Ins
    BY <1>1, <2>2, <2>4 DEF Ins
  <2>8. Left(s) = Left(i) - size
    BY <1>1, <1>2, <2>2, LensAreNat DEF Left
  <2>9. QED
    BY <1>3, <1>5, <2>2, <2>4, <2>5, <2>6, <2>7, <2>8
<1>6. QED
  BY <1>4, <1>5

LEMMA InReplaced ==
  ASSUME NEW i \in Ins, NEW l, NEW p
  PROVE  [i EXCEPT !.list = l, !.pos = p] = [list |-> l, pos |-> p, ep |-> i.ep, done |-> i.done]
<1> DEFINE j == [i EXCEPT !.list = l]
<1>1. j = [list |-> l, pos |-> i.pos, ep |-> i.ep, done |-> i.done]
  BY DEF Ins
<1> HIDE DEF j
<1>2. [j EXCEPT !.pos = p] = [list |-> l, pos |-> p, ep |-> i.ep, done |-> i.done]
  BY <1>1
<1>3. QED
  BY <1>2 DEF j

LEMMA InRestarted ==
  ASSUME NEW i \in Ins, NEW d
  PROVE  [i EXCEPT !.done = d] = [list |-> i.list, pos |-> i.pos, ep |-> i.ep, done |-> d]
  BY DEF Ins

LEMMA InKept ==
  ASSUME InState, in' = in, connected' = connected, host'.bytes = host.bytes,
         Has(events, "in")' <=> Has(events, "in")
  PROVE  InState'
  BY DEF InState, Sends, Sent, Drops, Left

(* A message that is sent starts at once, or waits behind the others.      *)
LEMMA SendKeeps ==
  ASSUME Types, InState, NEW len \in Lens, SendItem(len),
         UNCHANGED <<connected, events, host>>
  PROVE  /\ in' \in Ins /\ in'.list # <<>> /\ in'.done = in.done /\ InState'
         /\ count' \in [host : 0..MaxHost, sent : 0..MaxSent, drops : Nat]
<1> DEFINE item == [id |-> count.sent + 1, len |-> len]
           first == [in EXCEPT !.list = <<item>>, !.pos = 0]
           next == [in EXCEPT !.list = Append(in.list, item)]
<1>1. /\ connected /\ count.sent < MaxSent /\ count' = [count EXCEPT !.sent = count.sent + 1]
      /\ in' = IF in.list = <<>> THEN StartIn(first) ELSE next
  BY DEF SendItem
<1>2. in \in Ins /\ count \in [host : 0..MaxHost, sent : 0..MaxSent, drops : Nat]
  BY DEF Types
<1>3. count' \in [host : 0..MaxHost, sent : 0..MaxSent, drops : Nat]
  BY <1>1, <1>2, LensAreNat
<1>4. item \in Items /\ item.len = len
  BY <1>1, <1>2, LensAreNat DEF Items
<1> HIDE DEF item
<1>5. CASE in.list = <<>>
  <2>1. /\ first = [list |-> <<item>>, pos |-> 0, ep |-> in.ep, done |-> in.done]
        /\ first \in Ins
    <3>1. first = [list |-> <<item>>, pos |-> 0, ep |-> in.ep, done |-> in.done]
      BY <1>2, InReplaced
    <3> HIDE DEF first
    <3>2. <<item>> \in Seq(Items)
      BY <1>4
    <3>3. QED
      BY <1>2, <3>1, <3>2 DEF Ins
  <2>2. first.list # <<>> /\ Head(first.list) = item /\ first.pos = 0 /\ first.done = in.done
    BY <2>1
  <2> HIDE DEF first
  <2>3. Left(first) \in Nat \ {0}
    BY <1>4, <2>2, LensAreNat DEF Left
  <2>4. in' = StartIn(first)
    BY <1>1, <1>5
  <2>5. /\ in' \in Ins /\ in'.list = first.list /\ in'.done = in.done
        /\ in'.ep # NULL /\ in'.ep.id = Head(first.list).id
        /\ Left(in') >= 0 /\ (in'.ep.last <=> Left(in') = 0)
        /\ in'.pos = in'.ep.size
    <3>1. /\ in' \in Ins /\ in'.list = first.list /\ in'.done = first.done
          /\ in'.ep # NULL /\ in'.ep.id = Head(first.list).id
          /\ Left(in') >= 0 /\ (in'.ep.last <=> Left(in') = 0)
          /\ in'.pos = first.pos + in'.ep.size
      <4>1. first \in Ins /\ first.list # <<>> /\ Left(first) >= 0 /\ Left(first) # 0
        BY <2>1, <2>2, <2>3
      <4>2. QED
        BY <2>4, <4>1, StartInAs, Zenon
    <3>2. in'.ep \in InTransfer
      BY <3>1 DEF Ins
    <3>3. in'.ep.size \in Nat
      BY <3>2 DEF InTransfer
    <3>4. QED
      BY <2>2, <3>1, <3>3
  <2>6. ~in.done /\ ~Has(events, "in") /\ host.bytes = 0
    BY <1>1, <1>5 DEF InState
  <2>7. in'.ep.size \in Nat
    BY <2>5 DEF Ins, InTransfer
  <2>8. InState'
    BY <1>1, <2>2, <2>5, <2>6, <2>7 DEF InState, Sends, Left
  <2>9. QED
    BY <1>3, <2>2, <2>5, <2>8
<1>6. CASE in.list # <<>>
  <2>1. in' = [list |-> Append(in.list, item), pos |-> in.pos, ep |-> in.ep, done |-> in.done]
    BY <1>1, <1>2, <1>6 DEF Ins
  <2>2. /\ Append(in.list, item) \in Seq(Items) /\ Append(in.list, item) # <<>>
        /\ Head(Append(in.list, item)) = Head(in.list)
    BY <1>2, <1>4, <1>6 DEF Ins
  <2>3. in' \in Ins
    BY <1>2, <2>1, <2>2 DEF Ins
  <2>4. Left(in)' = Left(in)
    BY <2>1, <2>2 DEF Left
  <2>5. InState'
    BY <1>1, <1>6, <2>1, <2>2, <2>4 DEF InState, Sends, Sent, Drops
  <2>6. QED
    BY <1>3, <2>1, <2>2, <2>3, <2>5
<1>7. QED
  BY <1>5, <1>6

(* The host reads a block.                                                 *)
LEMMA HostInKeeps ==
  ASSUME Types, Apart, InState, HostIn
  PROVE  in' \in Ins /\ in'.list # <<>> /\ InState'
<1>1. /\ connected /\ in.ep # NULL /\ ~in.done
      /\ in' = [in EXCEPT !.ep = NULL, !.done = TRUE]
      /\ UNCHANGED <<connected, events>>
  BY DEF HostIn
<1>2. in.list # <<>> /\ Left(in) >= 0 /\ Sends
  BY <1>1 DEF InState
<1>3. in' = [list |-> in.list, pos |-> in.pos, ep |-> NULL, done |-> TRUE]
  BY <1>1 DEF Types, Ins
<1>4. in' \in Ins
  BY <1>3 DEF Types, Ins
<1>5. host'.bytes = IF in.ep.last THEN 0 ELSE host.bytes + in.ep.size
  BY DEF HostIn, Types
<1>6. Left(in)' = Left(in)
  BY <1>3 DEF Left
<1>7. InState'
  BY <1>1, <1>2, <1>3, <1>5, <1>6 DEF InState, Sends, Sent
<1>8. QED
  BY <1>2, <1>3, <1>4, <1>7

(* A block that is done is followed by the next, or by the event that the  *)
(* message is.                                                             *)
LEMMA BlockDone ==
  ASSUME Types, Apart, InState, in.done, in' = StartIn([in EXCEPT !.done = FALSE]),
         UNCHANGED <<connected, host>>,
         Has(events, "in")' <=> Has(InEvents(events, in), "in")
  PROVE  /\ in.list # <<>> /\ in' \in Ins /\ InState'
         /\ Queue(InEvents(events, in)) /\ ~Has(InEvents(events, in), "cleanup")
         /\ Has(InEvents(events, in), "out") <=> Has(events, "out")
<1> DEFINE r == [in EXCEPT !.done = FALSE]
           q == InEvents(events, in)
<1>1. connected /\ Queue(events) /\ ~Has(events, "cleanup")
  BY DEF Apart, Types
<1>2. in.list # <<>> /\ Left(in) >= 0 /\ in.ep = NULL /\ Sent
  BY <1>1 DEF InState, Sends
<1>3. r = [list |-> in.list, pos |-> in.pos, ep |-> NULL, done |-> FALSE]
  BY <1>2, InRestarted DEF Types
<1>4. r \in Ins
  BY <1>3 DEF Types, Ins
<1> HIDE DEF r
<1>5. Left(r) = Left(in)
  BY <1>3 DEF Left
<1>6. /\ Queue(q) /\ ~Has(q, "cleanup") /\ (Has(q, "out") <=> Has(events, "out"))
      /\ Has(q, "in") <=> Left(in) = 0
  <2>1. CASE Left(in) = 0
    BY <1>1, <2>1, QueueAdd DEF InEvents, Events
  <2>2. CASE Left(in) # 0
    BY <1>1, <1>2, <2>2 DEF InEvents, Sent
  <2>3. QED
    BY <2>1, <2>2
<1> HIDE DEF q
<1>7. in' = StartIn(r)
  BY DEF r
<1>8. /\ in' \in Ins /\ in'.list = in.list /\ in'.done = FALSE
      /\ Left(in) = 0 => in' = r
      /\ Left(in) # 0 =>
           /\ in'.ep # NULL /\ in'.ep.id = Head(in.list).id
           /\ Left(in') >= 0 /\ (in'.ep.last <=> Left(in') = 0)
           /\ in'.pos = in.pos + in'.ep.size
  BY <1>2, <1>3, <1>4, <1>5, <1>7, StartInAs
<1>9. InState'
  <2>1. CASE Left(in) = 0
    <3>1. in'.ep = NULL /\ Left(in') = 0 /\ host.bytes = 0
      BY <1>2, <1>3, <1>5, <1>8, <2>1 DEF Sent
    <3>2. QED
      BY <1>1, <1>2, <1>6, <1>8, <2>1, <3>1 DEF InState, Drops, q
  <2>2. CASE Left(in) # 0
    <3>1. host.bytes = in.pos
      BY <1>2, <2>2 DEF Sent
    <3>2. QED
      BY <1>1, <1>2, <1>6, <1>8, <2>2, <3>1 DEF InState, Sends, q
  <2>3. QED
    BY <2>1, <2>2
<1>10. QED
  BY <1>2, <1>6, <1>8, <1>9 DEF q

(* The main loop drops a message that has gone and starts the next.        *)
LEMMA MsgInKeeps ==
  ASSUME Types, Apart, InState, MsgInHandler
  PROVE  /\ in.list # <<>> /\ in' \in Ins /\ ~in'.done /\ InState'
         /\ Queue(events') /\ (\A x : Has(events', x) <=> Has(events, x) /\ x # "in")
<1> DEFINE r == [in EXCEPT !.list = Tail(in.list), !.pos = 0]
<1>1. /\ pc = "loop" /\ events # <<>> /\ Head(events) = "in" /\ Queue(events)
      /\ UNCHANGED <<connected, host>>
  BY DEF MsgInHandler, Pop, Types
<1>2. Has(events, "in") /\ Queue(Tail(events))
      /\ (\A x : Has(Tail(events), x) <=> Has(events, x) /\ x # "in")
  BY <1>1, QueueTail
<1>3. in.list # <<>> /\ ~in.done
  BY <1>2 DEF Apart, InState, Sends, Sent
<1>4. in' = NextIn(r) /\ events' = Tail(events)
  BY <1>3 DEF MsgInHandler, r
<1>5. r = [list |-> Tail(in.list), pos |-> 0, ep |-> in.ep, done |-> in.done]
  BY InReplaced DEF Types
<1> HIDE DEF r
<1>6. r \in Ins
  <2>1. Tail(in.list) \in Seq(Items)
    BY <1>3 DEF Types, Ins
  <2>2. QED
    BY <1>5, <2>1 DEF Types, Ins
<1>7. connected => in.ep = NULL /\ host.bytes = 0
  BY <1>2, <1>3 DEF InState, Sends, Sent, Drops
<1>8. r.list = Tail(in.list) /\ r.pos = 0 /\ r.ep = in.ep /\ ~r.done
  BY <1>3, <1>5
<1>9. CASE r.list = <<>>
  <2>1. in' = r
    BY <1>4, <1>9 DEF NextIn
  <2>2. InState'
    BY <1>1, <1>2, <1>4, <1>7, <1>9, <1>8, <2>1 DEF InState
  <2>3. QED
    BY <1>2, <1>3, <1>4, <1>6, <1>8, <2>1, <2>2
<1>10. CASE r.list # <<>>
  <2>1. in' = StartIn(r)
    BY <1>4, <1>10 DEF NextIn
  <2>2. Left(r) \in Nat \ {0}
    <3>1. Head(r.list) \in Items
      BY <1>6, <1>10 DEF Ins
    <3>2. Head(r.list).len \in Lens
      BY <3>1 DEF Items
    <3>3. Head(r.list).len \in Nat
      BY <3>2, LensAreNat
    <3>4. r.pos = 0 /\ HeaderSize \in Nat \ {0}
      BY <1>8, LensAreNat
    <3>5. QED
      BY <3>3, <3>4 DEF Left
  <2>3. /\ in' \in Ins /\ in'.list = r.list /\ in'.done = r.done
        /\ in'.ep # NULL /\ in'.ep.id = Head(r.list).id
        /\ Left(in') >= 0 /\ (in'.ep.last <=> Left(in') = 0)
        /\ in'.pos = r.pos + in'.ep.size
    BY <1>6, <1>10, <2>1, <2>2, StartInAs
  <2>4. InState'
    BY <1>1, <1>2, <1>4, <1>7, <1>10, <1>8, <2>3 DEF InState, Sends
  <2>5. QED
    BY <1>2, <1>3, <1>4, <1>8, <2>3, <2>4
<1>11. QED
  BY <1>9, <1>10

-----------------------------------------------------------------------------
(* The OUT direction.                                                      *)

LEMMA ArmRestAs ==
  ASSUME NEW r \in Int
  PROVE  ArmRest(r) \in [to : {"buf"}, size : Int] /\ (r \in Nat => ArmRest(r).size \in Nat)
<1>1. RoundToEndpoint(r) \in Int /\ (r \in Nat => RoundToEndpoint(r) \in Nat)
  <2> DEFINE d == (r + EpSize) \div EpSize
  <2>1. EpSize \in Nat /\ EpSize > 0
    BY LensAreNat
  <2>2. d \in Int /\ (r \in Nat => d \in Nat)
    BY <2>1, SMTT(30)
  <2> HIDE DEF d
  <2>3. d * EpSize \in Int /\ (d \in Nat => d * EpSize \in Nat)
    BY <2>1, <2>2, SMTT(30)
  <2>4. QED
    BY <2>2, <2>3 DEF RoundToEndpoint, d
<1> DEFINE n == IF r < MaxBlock THEN RoundToEndpoint(r) ELSE MaxBlock
<1>2. n \in Int /\ (r \in Nat => n \in Nat)
  BY <1>1, LensAreNat
<1>3. ArmRest(r) = [to |-> "buf", size |-> n]
  BY DEF ArmRest
<1> HIDE DEF n
<1>4. QED
  BY <1>2, <1>3

LEMMA OutKept ==
  ASSUME OutState, Headed, out' = out, connected' = connected, pc' = pc,
         Has(events, "out")' <=> Has(events, "out")
  PROVE  OutState' /\ Headed'
  BY DEF OutState, Headed, AtNone, Waits, Fills, Filled, Told, Handled

(* The host fills the first packet, or a block of the buffer.              *)
LEMMA HostOutKeeps ==
  ASSUME Types, Headed, OutState, HostOut
  PROVE  /\ out' \in Outs /\ OutState' /\ Headed'
         /\ host' \in [msg : {NULL} \union [id : Ids, left : Nat, shape : HostShapes],
                       whole : Ids, bytes : Nat,
                       received : {NULL} \union [id : Nat, len : Int],
                       broke : BOOLEAN]
         /\ host'.bytes = host.bytes /\ host'.received = host.received
         /\ pc' \in {pc, "overrun"}
<1> DEFINE m == host.msg
           n == IF m.left < out.ep.size THEN m.left ELSE out.ep.size
<1>1. /\ connected /\ m # NULL /\ out.ep.to # "none" /\ out.done = NULL
      /\ UNCHANGED <<connected, events>>
  BY DEF HostOut
<1>2. m \in [id : Ids, left : Nat, shape : HostShapes] /\ out \in Outs
  BY <1>1 DEF Types
<1>3. pc = "loop" /\ ~Has(events, "out") /\ (Waits \/ Fills)
  BY <1>1 DEF OutState, Handled, Told, AtNone
<1>4. n \in Nat /\ n # NULL /\ n <= out.ep.size /\ n <= m.left
  BY <1>2, <1>3, LensAreNat, NullAssumption DEF Waits, Fills
<1>5. PICK w \in {NULL, [m EXCEPT !.left = m.left - n]}, k \in {m.id, host.whole} :
        host' = [host EXCEPT !.msg = w, !.whole = k]
  BY Zenon DEF HostOut
<1>6. w \in {NULL} \union [id : Ids, left : Nat, shape : HostShapes] /\ k \in Ids
  BY <1>2, <1>4, <1>5 DEF Types
<1>7. /\ host' \in [msg : {NULL} \union [id : Ids, left : Nat, shape : HostShapes],
                    whole : Ids, bytes : Nat, received : {NULL} \union [id : Nat, len : Int],
                    broke : BOOLEAN]
      /\ host'.bytes = host.bytes /\ host'.received = host.received
  BY <1>5, <1>6 DEF Types
<1>8. CASE out.ep.to = "initial"
  <2>1. PICK h \in Header(m) :
          out' = [out EXCEPT !.ep = Idle, !.done = n, !.initial = h] /\ pc' = pc
    BY <1>8 DEF HostOut
  <2>2. h \in Headers
    BY <1>2, LensAreNat DEF Header, Headers, Ids
  <2> HIDE DEF n
  <2>3. out' = [length |-> out.length, pos |-> out.pos, buf |-> out.buf, initial |-> h,
                ep |-> Idle, done |-> n]
    BY <1>2, <2>1 DEF Outs
  <2>4. out' \in Outs
    BY <1>2, <1>4, <2>2, <2>3 DEF Outs, Idle
  <2>5. out.ep.size = EpSize /\ out.buf = NULL
    BY <1>3, <1>8 DEF Waits, Fills
  <2>6. OutState'
    BY <1>1, <1>3, <1>4, <2>1, <2>3, <2>5 DEF OutState, Filled, AtNone, Idle
  <2>7. Headed'
    BY <1>1, <1>3, <2>1, <2>2, <2>3, <2>5 DEF Headed
  <2>8. QED
    BY <1>7, <2>1, <2>3, <2>4, <2>6, <2>7
<1>9. CASE out.ep.to = "buf" /\ out.pos + n <= out.length
  <2> DEFINE b == IF out.buf = NULL \/ n = 0 THEN out.buf ELSE out.buf \union {m.id}
  <2>1. out' = [out EXCEPT !.ep = Idle, !.done = n, !.buf = b] /\ pc' = pc
    <3>1. out.pos \in Nat /\ out.length \in Nat
      BY <1>2 DEF Outs
    <3>2. ~(out.pos + n > out.length)
      BY <1>4, <1>9, <3>1
    <3>3. QED
      BY <1>9, <3>2 DEF HostOut
  <2>2. out.buf # NULL /\ out.pos <= out.length
    BY <1>3, <1>9 DEF Waits, Fills
  <2>3. b \in SUBSET Ids /\ b # NULL
    <3>1. b \in SUBSET Ids
      BY <1>2, <2>2 DEF Outs
    <3>2. QED
      BY <3>1, NullAssumption DEF Ids
  <2> HIDE DEF n, b
  <2>4. out' = [length |-> out.length, pos |-> out.pos, buf |-> b, initial |-> out.initial,
                ep |-> Idle, done |-> n]
    BY <1>2, <2>1 DEF Outs
  <2>5. out' \in Outs
    BY <1>2, <1>4, <2>3, <2>4 DEF Outs, Idle
  <2>6. OutState'
    BY <1>1, <1>3, <1>4, <2>1, <2>2, <2>3, <2>4 DEF OutState, Filled, AtNone, Idle
  <2>7. out.initial \in Headers /\ out.length \in Lens
    BY <1>9, <2>2 DEF Headed
  <2>8. Headed'
    BY <1>1, <1>3, <2>1, <2>4, <2>7 DEF Headed
  <2>9. QED
    BY <1>7, <2>1, <2>2, <2>5, <2>6, <2>8
<1>10. CASE out.ep.to = "buf" /\ ~(out.pos + n <= out.length)
  <2>1. out' = [out EXCEPT !.ep = Idle] /\ pc' = "overrun"
    BY <1>10 DEF HostOut
  <2> HIDE DEF n
  <2>2. out' = [length |-> out.length, pos |-> out.pos, buf |-> out.buf, initial |-> out.initial,
                ep |-> Idle, done |-> out.done]
    BY <1>2, <2>1 DEF Outs
  <2>3. out' \in Outs
    BY <1>2, <2>2 DEF Outs, Idle
  <2>4. out.initial \in Headers /\ out.buf # NULL /\ out.length \in Lens
    BY <1>3, <1>10 DEF Headed, Waits, Fills
  <2>5. OutState' /\ Headed'
    BY <1>1, <1>3, <2>1, <2>2, <2>4 DEF OutState, Headed, Handled, AtNone, Idle
  <2>6. QED
    BY <1>7, <2>1, <2>3, <2>5
<1>11. QED
  BY <1>1, <1>2, <1>8, <1>9, <1>10 DEF Outs

(* A transfer that is done is followed by another or by the event, unless  *)
(* the first packet is too short for a header.                             *)
LEMMA CompleteOutKeeps ==
  ASSUME Types, Headed, OutState, connected, NEW q, CompleteOut(q),
         Queue(q), ~Has(q, "cleanup"), Has(q, "out") <=> Has(events, "out"),
         UNCHANGED <<connected, pc>>
  PROVE  /\ out' \in Outs /\ OutState' /\ Headed'
         /\ Queue(events') /\ \A x : x # "out" => (Has(events', x) <=> Has(q, x))
<1>1. out \in Outs
  BY DEF Types
<1>2. CASE out.done = NULL
  <2>1. events' = q /\ out' = out
    BY <1>2 DEF CompleteOut
  <2>2. QED
    BY <1>1, <2>1, OutKept
<1>3. CASE out.done # NULL
  <2>1. pc = "loop" /\ ~Has(events, "out") /\ Filled
    BY <1>3 DEF OutState
  <2>2. out.done \in Nat /\ out.pos \in Nat /\ out.length \in Nat /\ out.initial \in Headers
    BY <1>1, <1>3 DEF Outs, Headed
  <2>3. /\ Queue(Add(q, "out")) /\ Has(Add(q, "out"), "out")
        /\ \A x : x # "out" => (Has(Add(q, "out"), x) <=> Has(q, x))
    BY QueueAdd DEF Events
  <2>4. CASE out.buf = NULL /\ HasHeader
    <3>1. events' = Add(q, "out") /\ out' = FirstOut
      BY <1>3, <2>4 DEF CompleteOut
    <3>2. out' = [length |-> out.length, pos |-> out.done - HeaderSize, buf |-> out.buf,
                  initial |-> out.initial, ep |-> out.ep, done |-> NULL]
      BY <1>1, <3>1 DEF FirstOut, Outs
    <3>3. out.done - HeaderSize \in Nat /\ out.done - HeaderSize <= EpSize - HeaderSize
      BY <2>1, <2>2, <2>4, LensAreNat DEF HasHeader, Filled
    <3>4. out' \in Outs
      BY <1>1, <3>2, <3>3 DEF Outs
    <3>5. OutState'
      BY <2>1, <2>3, <3>1, <3>2, <3>3 DEF OutState, Told, AtNone, Filled
    <3>6. Headed'
      BY <2>1, <2>2, <2>4, <3>2 DEF Headed
    <3>7. QED
      BY <2>3, <3>1, <3>4, <3>5, <3>6
  <2>5. CASE out.buf = NULL /\ ~HasHeader
    <3>1. events' = q /\ out' = [[out EXCEPT !.done = NULL] EXCEPT !.ep = ArmInitial]
      BY <1>3, <2>5 DEF CompleteOut
    <3>2. out' = [length |-> out.length, pos |-> out.pos, buf |-> out.buf,
                  initial |-> out.initial, ep |-> ArmInitial, done |-> NULL]
      BY <1>1, <3>1 DEF Outs
    <3>3. out' \in Outs
      BY <1>1, <3>2, LensAreNat DEF Outs, ArmInitial
    <3>4. OutState'
      BY <2>1, <2>5, <3>1, <3>2 DEF OutState, Waits, ArmInitial
    <3>5. Headed'
      BY <2>1, <2>2, <2>5, <3>2 DEF Headed
    <3>6. QED
      BY <3>1, <3>3, <3>4, <3>5
  <2>6. CASE out.buf # NULL
    <3> DEFINE pos == out.pos + out.done
    <3>1. pos \in Nat
      BY <2>2
    <3>2. out.length \in Lens
      BY <2>6 DEF Headed
    <3>3. CASE OutEnds(pos)
      <4>1. events' = Add(q, "out") /\ out' = [[out EXCEPT !.done = NULL] EXCEPT !.pos = pos]
        BY <1>3, <2>6, <3>3 DEF CompleteOut
      <4> HIDE DEF pos
      <4>2. out' = [length |-> out.length, pos |-> pos, buf |-> out.buf,
                    initial |-> out.initial, ep |-> out.ep, done |-> NULL]
        BY <1>1, <4>1 DEF Outs
      <4>3. out' \in Outs
        BY <1>1, <3>1, <4>2 DEF Outs
      <4>4. OutState'
        BY <2>1, <2>3, <2>6, <4>1, <4>2 DEF OutState, Told, AtNone, Filled
      <4>5. Headed'
        BY <2>1, <2>2, <3>2, <4>2 DEF Headed
      <4>6. QED
        BY <2>3, <4>1, <4>3, <4>4, <4>5
    <3>4. CASE ~OutEnds(pos)
      <4> DEFINE arm == ArmRest(out.length - pos)
      <4>1. /\ events' = q
            /\ out' = [[out EXCEPT !.done = NULL] EXCEPT !.pos = pos, !.ep = arm]
        BY <1>3, <2>6, <3>4 DEF CompleteOut
      <4>2. pos <= out.length /\ out.length - pos \in Nat
        BY <2>2, <3>1, <3>4 DEF OutEnds
      <4>3. arm \in [to : {"buf"}, size : Nat]
        BY <4>2, ArmRestAs
      <4> HIDE DEF pos, arm
      <4>4. out' = [length |-> out.length, pos |-> pos, buf |-> out.buf,
                    initial |-> out.initial, ep |-> arm, done |-> NULL]
        BY <1>1, <4>1 DEF Outs
      <4>5. out' \in Outs
        BY <1>1, <3>1, <4>3, <4>4 DEF Outs
      <4>6. OutState'
        BY <2>1, <2>6, <4>1, <4>2, <4>3, <4>4 DEF OutState, Fills
      <4>7. Headed'
        BY <2>1, <2>2, <3>2, <4>4 DEF Headed
      <4>8. QED
        BY <4>1, <4>5, <4>6, <4>7
    <3>5. QED
      BY <3>3, <3>4
  <2>7. QED
    BY <2>4, <2>5, <2>6
<1>4. QED
  BY <1>2, <1>3

(* The main loop takes the message, or asks for the rest of it.            *)
LEMMA MsgOutKeeps ==
  ASSUME Types, Headed, OutState, MsgOutHandler
  PROVE  /\ out' \in Outs /\ OutState' /\ Headed' /\ pc' \in {"rest", "check", "overrun"}
         /\ out'.done = out.done
         /\ Queue(events') /\ \A x : Has(events', x) <=> Has(events, x) /\ x # "out"
<1>1. /\ pc = "loop" /\ events # <<>> /\ Head(events) = "out" /\ Queue(events)
      /\ events' = Tail(events) /\ connected' = connected /\ out \in Outs
  BY DEF MsgOutHandler, Pop, Types
<1>2. /\ Queue(events') /\ Has(events, "out")
      /\ \A x : Has(events', x) <=> Has(events, x) /\ x # "out"
  BY <1>1, QueueTail
<1>3. out.initial \in Headers /\ (connected => Told /\ out.done = NULL)
  BY <1>1, <1>2 DEF Headed, OutState
<1>4. CASE out.buf # NULL
  <2>1. pc' = "check" /\ out' = out
    BY <1>4 DEF MsgOutHandler
  <2>2. OutState'
    BY <1>1, <1>2, <1>3, <2>1 DEF OutState, Handled, Told, AtNone
  <2>3. Headed'
    BY <1>3, <1>4, <2>1 DEF Headed
  <2>4. QED
    BY <1>1, <1>2, <2>1, <2>2, <2>3
<1>5. CASE out.buf = NULL
  <2> DEFINE length == out.initial.shape.len
             b == IF out.pos > 0 THEN {out.initial.id} ELSE {}
  <2>1. /\ out' = [out EXCEPT !.length = length, !.buf = b]
        /\ pc' \in {"rest", "check", "overrun"} /\ (pc' = "rest" => out.pos <= length)
    BY <1>5 DEF MsgOutHandler
  <2>2. out.initial.shape \in HostShapes /\ out.initial.id \in Ids
    BY <1>3 DEF Headers
  <2>3. length \in Lens /\ length \in Nat
    BY <2>2, LensAreNat DEF Lens
  <2>4. b \in SUBSET Ids /\ b # NULL
    <3>1. b \in SUBSET Ids
      BY <2>2
    <3>2. QED
      BY <3>1, NullAssumption DEF Ids
  <2> HIDE DEF length, b
  <2>5. out' = [length |-> length, pos |-> out.pos, buf |-> b,
                initial |-> out.initial, ep |-> out.ep, done |-> out.done]
    BY <1>1, <2>1 DEF Outs
  <2>6. out' \in Outs
    BY <1>1, <2>3, <2>4, <2>5 DEF Outs
  <2>7. connected => AtNone /\ (pc' = "rest" => out.pos <= length)
    BY <1>3, <2>1 DEF Told
  <2>8. OutState'
    BY <1>1, <1>2, <1>3, <2>1, <2>5, <2>7 DEF OutState, Handled, AtNone
  <2>9. Headed'
    BY <1>3, <2>3, <2>4, <2>5 DEF Headed
  <2>10. QED
    BY <1>2, <2>1, <2>5, <2>6, <2>8, <2>9
<1>6. QED
  BY <1>4, <1>5

-----------------------------------------------------------------------------
(* The invariant.                                                          *)

LEMMA InitIInv == Init => IInv
<1> SUFFICES ASSUME Init PROVE IInv
  OBVIOUS
<1> USE DEF Init
<1>1. ~Has(events, "in") /\ ~Has(events, "out") /\ ~Has(events, "cleanup") /\ Queue(events)
  BY DEF Has, Queue
<1>2. connected \in BOOLEAN /\ ~connected
  BY Zenon
<1>3. out \in Outs /\ in \in Ins /\ ~in.done
  BY DEF Outs, Ins, Idle
<1>4. Types
  BY <1>1, <1>2, <1>3, LensAreNat DEF Types, HostReset, Ids
<1>5. Apart /\ Headed /\ OutState /\ InState
  BY <1>1, <1>2, <1>3 DEF Apart, Headed, OutState, InState, Idle
<1>6. QED
  BY <1>4, <1>5 DEF IInv

(* The host and the interrupt handler.                                     *)
LEMMA InterruptStep ==
  ASSUME HostWaits, EnableFlushes, IInv,
         \/ CompletionIsr \/ SetInterfaceOff \/ SetInterfaceOn
         \/ HostOut \/ HostIn \/ \E s \in HostShapes : HostBegin(s)
  PROVE  IInv'
<1> USE DEF IInv
<1>1. ASSUME NEW s \in HostShapes, HostBegin(s) PROVE IInv'
  <2> DEFINE m == [id |-> count.host + 1, left |-> s.total, shape |-> s]
             b == host.broke \/ ~Framed(s)
  <2>1. /\ UNCHANGED <<connected, events, pc, out, in, dispatched>>
        /\ host' = [host EXCEPT !.msg = m, !.broke = b]
        /\ count' = [count EXCEPT !.host = count.host + 1] /\ count.host < MaxHost
    BY <1>1 DEF HostBegin
  <2>2. m \in [id : Ids, left : Nat, shape : HostShapes]
    BY <2>1, SizeAssumption DEF Types, Ids
  <2>3. b \in BOOLEAN
    BY Zenon
  <2> HIDE DEF m, b
  <2>4. Types' /\ host'.bytes = host.bytes
    <3>1. host' = [msg |-> m, whole |-> host.whole, bytes |-> host.bytes,
                   received |-> host.received, broke |-> b]
      BY <2>1 DEF Types
    <3>2. host' \in [msg : {NULL} \union [id : Ids, left : Nat, shape : HostShapes], whole : Ids,
                     bytes : Nat, received : {NULL} \union [id : Nat, len : Int],
                     broke : BOOLEAN]
      BY <2>2, <2>3, <3>1 DEF Types
    <3>3. count' \in [host : 0..MaxHost, sent : 0..MaxSent, drops : Nat]
      BY <2>1, LensAreNat DEF Types
    <3>4. QED
      BY <2>1, <3>1, <3>2, <3>3 DEF Types
  <2>5. Apart' /\ Headed' /\ OutState' /\ InState'
    BY <2>1, <2>4, OutKept, InKept DEF Apart
  <2>6. QED
    BY <2>4, <2>5
<1>2. CASE HostOut
  <2>1. UNCHANGED <<connected, events, in, dispatched, count>> /\ connected
    BY <1>2 DEF HostOut
  <2>2. Types'
    BY <1>2, <2>1, HostOutKeeps DEF Types
  <2>3. Headed' /\ OutState' /\ InState'
    BY <1>2, <2>1, HostOutKeeps, InKept
  <2>4. Apart'
    BY <2>1 DEF Apart
  <2>5. QED
    BY <2>2, <2>3, <2>4
<1>3. CASE HostIn
  <2>1. UNCHANGED <<connected, events, pc, out, dispatched, count>> /\ connected
    BY <1>3 DEF HostIn
  <2>2. in' \in Ins /\ InState'
    BY <1>3, HostInKeeps
  <2>3. host' \in [msg : {NULL} \union [id : Ids, left : Nat, shape : HostShapes], whole : Ids,
                   bytes : Nat, received : {NULL} \union [id : Nat, len : Int],
                   broke : BOOLEAN]
    <3>1. /\ in.ep \in InTransfer /\ in.ep.size \in Nat /\ in.ep.id \in Nat
          /\ host.bytes \in Nat
      BY <1>3 DEF HostIn, Types, Ins, InTransfer
    <3> DEFINE r == [id |-> in.ep.id, len |-> (host.bytes + in.ep.size) - HeaderSize]
    <3>2. r \in [id : Nat, len : Int]
      <4> DEFINE l == (host.bytes + in.ep.size) - HeaderSize
      <4>1. l \in Int /\ in.ep.id \in Nat
        BY <3>1, LensAreNat
      <4> HIDE DEF l
      <4>2. [id |-> in.ep.id, len |-> l] \in [id : Nat, len : Int]
        BY <4>1
      <4>3. QED
        BY <4>2 DEF l
    <3>3. CASE in.ep.last
      <4>1. host' = [host EXCEPT !.bytes = 0, !.received = r]
        BY <1>3, <3>3 DEF HostIn
      <4> HIDE DEF r
      <4>2. host' = [msg |-> host.msg, whole |-> host.whole, bytes |-> 0, received |-> r,
                     broke |-> host.broke]
        BY <4>1 DEF Types
      <4>3. QED
        BY <3>2, <4>2 DEF Types
    <3>4. CASE ~in.ep.last
      <4>1. host' = [host EXCEPT !.bytes = host.bytes + in.ep.size]
        BY <1>3, <3>4 DEF HostIn
      <4>2. QED
        BY <3>1, <4>1 DEF Types
    <3>5. QED
      BY <3>3, <3>4
  <2>4. Types'
    BY <2>1, <2>2, <2>3 DEF Types
  <2>5. Headed' /\ OutState'
    BY <2>1, OutKept
  <2>6. Apart'
    BY <2>1 DEF Apart
  <2>7. QED
    BY <2>2, <2>4, <2>5, <2>6
<1>4. CASE SetInterfaceOff
  <2>1. /\ connected /\ ~in.done /\ out.done = NULL
        /\ connected' = FALSE /\ UNCHANGED <<pc, dispatched>>
        /\ count' = [count EXCEPT !.drops = count.drops + 1]
        /\ events' = Add(events, "cleanup")
        /\ out' = [out EXCEPT !.ep = Idle] /\ in' = [in EXCEPT !.ep = NULL]
        /\ host' = [HostReset EXCEPT !.broke = host.broke]
    BY <1>4 DEF SetInterfaceOff
  <2>2. /\ Queue(events')
        /\ \A x : Has(events', x) <=> Has(events, x) \/ x = "cleanup"
    BY <2>1, QueueAdd DEF Types, Apart, Events
  <2>3. out' \in Outs /\ out'.done = NULL /\ out'.ep.to = "none" /\ out'.buf = out.buf
        /\ out'.initial = out.initial /\ out'.length = out.length
    BY <2>1 DEF Types, Outs, Idle
  <2>4. in' \in Ins /\ ~in'.done /\ in'.list = in.list
    BY <2>1 DEF Types, Ins
  <2>5. Types'
    <3>1. /\ host' \in [msg : {NULL} \union [id : Ids, left : Nat, shape : HostShapes],
                        whole : Ids, bytes : Nat, received : {NULL} \union [id : Nat, len : Int],
                        broke : BOOLEAN]
          /\ count' \in [host : 0..MaxHost, sent : 0..MaxSent, drops : Nat]
      BY <2>1, LensAreNat DEF Types, HostReset, Ids
    <3>2. connected' \in BOOLEAN
      BY <2>1, Zenon
    <3>3. QED
      BY <2>1, <2>2, <2>3, <2>4, <3>1, <3>2 DEF Types
  <2>6. Headed'
    BY <2>1, <2>2, <2>3 DEF Headed
  <2>7. Has(events, "in") => in.list # <<>>
    BY <2>1 DEF InState
  <2>8. Apart' /\ OutState' /\ InState'
    BY <2>1, <2>2, <2>3, <2>4, <2>7 DEF Apart, OutState, InState
  <2>9. QED
    BY <2>5, <2>6, <2>8
<1>5. CASE SetInterfaceOn
  <2>1. /\ ~connected /\ ~Has(events, "cleanup") /\ connected' = TRUE
        /\ out' = [out EXCEPT !.ep = ArmInitial] /\ in' = [in EXCEPT !.ep = NULL]
        /\ host' = HostReset /\ dispatched' = NULL /\ UNCHANGED <<events, pc, count>>
    BY <1>5 DEF SetInterfaceOn, Pending, Has
  <2>2. /\ events = <<>> /\ pc = "loop" /\ in.list = <<>> /\ out.buf = NULL
        /\ out.done = NULL /\ ~in.done
    BY <2>1 DEF Apart
  <2>3. ~Has(events', "in") /\ ~Has(events', "out") /\ ~Has(events', "cleanup")
    BY <2>1, <2>2 DEF Has
  <2>4. out' \in Outs /\ out'.done = NULL /\ out'.ep = ArmInitial /\ out'.buf = NULL
    BY <2>1, <2>2, LensAreNat DEF Types, Outs, ArmInitial
  <2>5. in' \in Ins /\ ~in'.done /\ in'.list = <<>> /\ in'.ep = NULL
    BY <2>1, <2>2 DEF Types, Ins
  <2>6. Types'
    <3>1. host' \in [msg : {NULL} \union [id : Ids, left : Nat, shape : HostShapes],
                     whole : Ids, bytes : Nat, received : {NULL} \union [id : Nat, len : Int],
                     broke : BOOLEAN]
      BY <2>1, LensAreNat DEF HostReset, Ids
    <3>2. connected' \in BOOLEAN
      BY <2>1, Zenon
    <3>3. QED
      BY <2>1, <2>4, <2>5, <3>1, <3>2 DEF Types
  <2>7. Headed' /\ OutState'
    BY <2>1, <2>2, <2>3, <2>4 DEF Headed, OutState, Waits, ArmInitial
  <2>8. Apart' /\ InState'
    BY <2>1, <2>3, <2>5 DEF Apart, InState, HostReset
  <2>9. QED
    BY <2>6, <2>7, <2>8
<1>6. CASE CompletionIsr
  <2>1. connected /\ ~Has(events, "cleanup") /\ UNCHANGED <<connected, host, dispatched, count>>
    BY <1>6 DEF CompletionIsr, Apart
  <2>2. in.done => in.list # <<>>
    BY <2>1 DEF InState
  <2>3. CASE ~in.done
    <3>1. CompleteOut(events) /\ UNCHANGED <<pc, in>>
      BY <1>6, <2>3 DEF CompletionIsr
    <3>2. /\ out' \in Outs /\ OutState' /\ Headed' /\ Queue(events')
          /\ \A x : x # "out" => (Has(events', x) <=> Has(events, x))
      BY <2>1, <3>1, CompleteOutKeeps DEF Types
    <3>3. InState'
      BY <2>1, <3>1, <3>2, InKept
    <3>4. Types' /\ Apart'
      BY <2>1, <3>1, <3>2 DEF Types, Apart
    <3>5. QED
      BY <3>2, <3>3, <3>4
  <2>4. CASE in.done
    <3> DEFINE q == InEvents(events, in)
    <3>1. /\ CompleteOut(q) /\ in' = StartIn([in EXCEPT !.done = FALSE]) /\ pc' = pc
      BY <1>6, <2>2, <2>4 DEF CompletionIsr
    <3>2. Queue(q) /\ ~Has(q, "cleanup") /\ (Has(q, "out") <=> Has(events, "out"))
      <4>1. CASE Left(in) = 0
        BY <2>1, <4>1, QueueAdd DEF InEvents, Events, Types
      <4>2. CASE Left(in) # 0
        BY <2>1, <4>2 DEF InEvents, Types
      <4>3. QED
        BY <4>1, <4>2
    <3> HIDE DEF q
    <3>3. /\ out' \in Outs /\ OutState' /\ Headed' /\ Queue(events')
          /\ \A x : x # "out" => (Has(events', x) <=> Has(q, x))
      BY <2>1, <3>1, <3>2, CompleteOutKeeps
    <3>4. in' \in Ins /\ InState'
      BY <2>1, <2>4, <3>1, <3>3, BlockDone DEF q
    <3>5. Types' /\ Apart'
      BY <2>1, <3>1, <3>2, <3>3, <3>4 DEF Types, Apart
    <3>6. QED
      BY <3>3, <3>4, <3>5
  <2>5. QED
    BY <2>3, <2>4
<1>7. QED
  BY <1>1, <1>2, <1>3, <1>4, <1>5, <1>6

(* The main thread.                                                        *)
LEMMA MainStep ==
  ASSUME IInv, Main \/ \E len \in SendLens : Send(len)
  PROVE  IInv'
<1> USE DEF IInv
<1>1. ASSUME NEW len \in SendLens, Send(len) PROVE IInv'
  <2>1. SendItem(len) /\ UNCHANGED <<connected, events, pc, out, host, dispatched>>
    BY <1>1 DEF Send
  <2>2. /\ in' \in Ins /\ in'.list # <<>> /\ in'.done = in.done /\ InState'
        /\ count' \in [host : 0..MaxHost, sent : 0..MaxSent, drops : Nat]
    BY <2>1, SendKeeps DEF Lens
  <2>3. Types' /\ Apart'
    BY <2>1, <2>2 DEF Types, Apart, SendItem
  <2>4. QED
    BY <2>1, <2>2, <2>3, OutKept
<1>2. CASE MsgInHandler
  <2>1. UNCHANGED <<connected, out, host, dispatched, count>>
    BY <1>2 DEF MsgInHandler
  <2>2. /\ in.list # <<>> /\ in' \in Ins /\ ~in'.done /\ InState' /\ Queue(events')
        /\ (\A x : Has(events', x) <=> Has(events, x) /\ x # "in")
    BY <1>2, MsgInKeeps
  <2>3. pc' = pc
    BY <1>2, <2>2 DEF MsgInHandler
  <2>4. Headed' /\ OutState'
    BY <2>1, <2>2, <2>3, OutKept
  <2>5. events # <<>> /\ (~connected => Has(events, "cleanup"))
    BY <1>2 DEF MsgInHandler, Pop, Apart
  <2>6. Types' /\ Apart'
    BY <2>1, <2>2, <2>3, <2>5 DEF Types, Apart
  <2>7. QED
    BY <2>2, <2>4, <2>6
<1>3. CASE MsgCleanupHandler
  <2>1. /\ pc = "loop" /\ events # <<>> /\ Head(events) = "cleanup" /\ events' = Tail(events)
        /\ out' = NoOut /\ in' = [in EXCEPT !.list = <<>>, !.pos = 0]
        /\ UNCHANGED <<connected, pc, host, dispatched, count>>
    BY <1>3 DEF MsgCleanupHandler, Pop
  <2>2. events' = <<>> /\ ~connected /\ Queue(events')
    BY <2>1, QueueTail DEF Types, Apart
  <2>3. ~Has(events', "in") /\ ~Has(events', "out") /\ ~Has(events', "cleanup")
    BY <2>2 DEF Has
  <2>4. /\ out' \in Outs /\ out'.buf = NULL /\ out'.pos = 0 /\ out'.done = out.done
        /\ out'.ep = out.ep /\ out'.initial = out.initial
    BY <2>1, LensAreNat DEF Types, Outs, NoOut
  <2>5. in' = [list |-> <<>>, pos |-> 0, ep |-> in.ep, done |-> in.done]
    BY <2>1, InReplaced DEF Types
  <2>6. in' \in Ins /\ in'.list = <<>> /\ ~in'.done
    <3>1. ~in.done
      BY <2>2 DEF Apart
    <3>2. in' \in Ins
      BY <2>5 DEF Types, Ins
    <3>3. QED
      BY <2>5, <3>1, <3>2
  <2>7. Types' /\ Apart'
    BY <2>1, <2>2, <2>3, <2>4, <2>6 DEF Types, Apart
  <2>8. Headed' /\ OutState' /\ InState'
    BY <2>1, <2>2, <2>3, <2>4 DEF Headed, OutState, InState
  <2>9. QED
    BY <2>7, <2>8
<1>4. CASE MsgOutHandler
  <2>1. UNCHANGED <<connected, in, host, dispatched, count>>
    BY <1>4 DEF MsgOutHandler
  <2>2. /\ out' \in Outs /\ OutState' /\ Headed' /\ pc' \in {"rest", "check", "overrun"}
        /\ out'.done = out.done /\ Queue(events')
        /\ \A x : Has(events', x) <=> Has(events, x) /\ x # "out"
    BY <1>4, MsgOutKeeps
  <2>3. events # <<>> /\ (~connected => Has(events, "cleanup"))
    BY <1>4 DEF MsgOutHandler, Pop, Apart
  <2>4. Types' /\ Apart'
    BY <2>1, <2>2, <2>3 DEF Types, Apart
  <2>5. InState'
    BY <2>1, <2>2, InKept
  <2>6. QED
    BY <2>2, <2>4, <2>5
<1>5. CASE MsgOutRest
  <2> DEFINE arm == ArmRest(out.length - out.pos)
  <2>1. /\ pc = "rest" /\ pc' = "loop" /\ out' = [out EXCEPT !.ep = arm]
        /\ UNCHANGED <<connected, events, in, host, dispatched, count>>
    BY <1>5 DEF MsgOutRest
  <2>2. out.length \in Nat /\ out.pos \in Nat
    BY DEF Types, Outs
  <2>3. arm \in [to : {"buf"}, size : Int] /\ (out.pos <= out.length => arm.size \in Nat)
    BY <2>2, ArmRestAs
  <2>4. out.buf # NULL /\ out.initial \in Headers /\ out.length \in Lens
    BY <2>1 DEF Headed
  <2> HIDE DEF arm
  <2>5. out' = [length |-> out.length, pos |-> out.pos, buf |-> out.buf,
                initial |-> out.initial, ep |-> arm, done |-> out.done]
    BY <2>1 DEF Types, Outs
  <2>6. out' \in Outs
    BY <2>3, <2>5 DEF Types, Outs
  <2>7. OutState' /\ Headed'
    BY <2>1, <2>3, <2>4, <2>5 DEF OutState, Headed, Handled, Fills
  <2>8. Types' /\ Apart'
    BY <2>1, <2>5, <2>6 DEF Types, Apart
  <2>9. QED
    BY <2>1, <2>7, <2>8, InKept
<1>6. CASE MsgOutCheck
  <2>1. pc = "check" /\ pc' = "reset" /\ UNCHANGED <<connected, events, out, host>>
    BY <1>6 DEF MsgOutCheck
  <2>2. out.buf # NULL /\ out.initial \in Headers /\ out.length \in Lens
    BY <2>1 DEF Headed
  <2>3. dispatched' \in {NULL} \union [id : Ids, from : SUBSET Ids]
    <3>1. [id |-> out.initial.id, from |-> out.buf] \in [id : Ids, from : SUBSET Ids]
      BY <2>2 DEF Types, Outs, Headers
    <3>2. dispatched' \in {dispatched, [id |-> out.initial.id, from |-> out.buf]}
      BY <1>6 DEF MsgOutCheck
    <3>3. QED
      BY <3>1, <3>2 DEF Types
  <2>4. SendItem(out.length) \/ UNCHANGED <<in, count>>
    BY <1>6 DEF MsgOutCheck
  <2>5. /\ in' \in Ins /\ InState' /\ in'.done = in.done /\ (in'.list # <<>> \/ in' = in)
        /\ connected \/ in' = in
        /\ count' \in [host : 0..MaxHost, sent : 0..MaxSent, drops : Nat]
    <3>1. CASE SendItem(out.length)
      BY <2>1, <2>2, <3>1, SendKeeps DEF SendItem
    <3>2. CASE UNCHANGED <<in, count>>
      BY <2>1, <3>2, InKept DEF Types
    <3>3. QED
      BY <2>4, <3>1, <3>2
  <2>6. Types' /\ Apart'
    BY <2>1, <2>3, <2>5 DEF Types, Apart
  <2>7. Headed' /\ OutState'
    BY <2>1, <2>2 DEF Headed, OutState, Handled, AtNone
  <2>8. QED
    BY <2>5, <2>6, <2>7
<1>7. CASE MsgOutReset
  <2>1. /\ pc = "reset" /\ pc' = "loop" /\ out' = [NoOut EXCEPT !.ep = ArmInitial]
        /\ UNCHANGED <<connected, events, in, host, dispatched, count>>
    BY <1>7 DEF MsgOutReset
  <2>2. out' = [length |-> 0, pos |-> 0, buf |-> NULL, initial |-> out.initial,
                ep |-> ArmInitial, done |-> out.done]
    BY <2>1 DEF Types, Outs, NoOut
  <2>3. out' \in Outs
    BY <2>2, LensAreNat DEF Types, Outs, ArmInitial
  <2>4. OutState' /\ Headed'
    BY <2>1, <2>2 DEF OutState, Headed, Waits, ArmInitial
  <2>5. Types' /\ Apart'
    BY <2>1, <2>2, <2>3 DEF Types, Apart
  <2>6. QED
    BY <2>1, <2>4, <2>5, InKept
<1>8. QED
  BY <1>1, <1>2, <1>3, <1>4, <1>5, <1>6, <1>7 DEF Main

LEMMA IInvStep ==
  ASSUME HostWaits, EnableFlushes, IInv, [Next]_vars
  PROVE  IInv'
<1>1. CASE UNCHANGED vars
  <2>1. host'.bytes = host.bytes /\ UNCHANGED <<connected, events, pc, out, in, host>>
    BY <1>1 DEF vars
  <2>2. Types' /\ Apart'
    BY <1>1 DEF IInv, Types, Apart, vars
  <2>3. QED
    BY <2>1, <2>2, OutKept, InKept DEF IInv
<1>2. QED
  BY <1>1, InterruptStep, MainStep DEF Next

LEMMA EventsBounded ==
  ASSUME NEW q, Queue(q)
  PROVE  Len(q) <= 3
<1>1. q \in Seq(Events) /\ Len(q) \in Nat
  BY DEF Queue
<1> SUFFICES ASSUME Len(q) > 3 PROVE FALSE
  BY <1>1
<1>2. 1 \in 1..Len(q) /\ 2 \in 1..Len(q) /\ 3 \in 1..Len(q) /\ 4 \in 1..Len(q)
  BY <1>1
<1>3. q[1] \in Events /\ q[2] \in Events /\ q[3] \in Events /\ q[4] \in Events
  BY <1>1, <1>2
<1>4. /\ q[1] # q[2] /\ q[1] # q[3] /\ q[1] # q[4]
      /\ q[2] # q[3] /\ q[2] # q[4] /\ q[3] # q[4]
  BY <1>2 DEF Queue
<1>5. QED
  BY <1>3, <1>4 DEF Events

(* For every size of packet, block and message, and whatever the order of  *)
(* completions, disconnections and cleanups, no handler and no transfer    *)
(* uses a message that has been freed.                                     *)
THEOREM NothingFreedIsUsed ==
  ASSUME HostWaits, EnableFlushes
  PROVE  Spec => []BuffersSafe
<1>1. Init => IInv
  BY InitIInv
<1>2. IInv /\ [Next]_vars => IInv'
  BY IInvStep
<1>3. IInv => BuffersSafe
  <2> SUFFICES ASSUME IInv PROVE BuffersSafe
    OBVIOUS
  <2>1. TypeOK
    <3>1. events \in Seq({"in", "out", "cleanup"}) /\ Len(events) <= 3
      BY EventsBounded DEF IInv, Types, Queue, Events
    <3>2. /\ out.length \in Nat /\ out.pos \in Nat /\ (out.buf = NULL \/ out.buf \subseteq Ids)
          /\ in.pos \in Nat /\ in.done \in BOOLEAN
      BY DEF IInv, Types, Outs, Ins
    <3>3. QED
      BY <3>1, <3>2 DEF IInv, Types, TypeOK
  <2>2. NoFault
    BY DEF IInv, Types, NoFault
  <2>3. NoTransferIntoFreed
    BY DEF IInv, OutState, NoTransferIntoFreed, Handled, Told, Filled, AtNone, Waits, Fills
  <2>4. QED
    BY <2>1, <2>2, <2>3 DEF BuffersSafe
<1>4. QED
  BY <1>1, <1>2, <1>3, PTL DEF Spec

(* For every size, neither direction waits for something that does not     *)
(* come: there is a transfer, a completion or an event on its way.         *)
THEOREM AlwaysOnTheWay ==
  ASSUME HostWaits, EnableFlushes
  PROVE  Spec => []NeverStuck
<1>1. Init => IInv
  BY InitIInv
<1>2. IInv /\ [Next]_vars => IInv'
  BY IInvStep
<1>3. IInv => NeverStuck
  <2> SUFFICES ASSUME IInv PROVE NeverStuck
    OBVIOUS
  <2>1. OutNeverDeaf
    BY DEF IInv, Types, OutState, OutNeverDeaf, Running, Filled, Waits, Fills, Has, Pending
  <2>2. InNeverStalls
    BY DEF IInv, InState, InNeverStalls, Drops, Has, Pending
  <2>3. QED
    BY <2>1, <2>2 DEF NeverStuck
<1>4. QED
  BY <1>1, <1>2, <1>3, PTL DEF Spec

-----------------------------------------------------------------------------
(* The OUT direction hands over messages as the host meant them.           *)

Shape == out.initial.shape
Whole == Shape.total = HeaderSize + Shape.len

(* The host is between messages, as far as the endpoint has seen.          *)
Fresh == host.msg = NULL \/ host.msg.left = host.msg.shape.total
(* The last message that arrived whole has been dispatched.                *)
Reported == host.whole # 0 => dispatched # NULL /\ dispatched.id = host.whole

(* The host has sent so much of the message whose header was read: and no  *)
(* more, or all that it will send of it.                                   *)
MidWay(sent) ==
  /\ host.msg # NULL /\ host.msg.id = out.initial.id /\ host.msg.shape = Shape
  /\ host.msg.left = Shape.total - sent
  /\ Reported
Ended(sent) ==
  /\ Fresh /\ Shape.total = sent
  /\ IF Whole THEN host.whole = out.initial.id ELSE Reported

FirstPacket(sent) ==
  \/ sent = EpSize /\ MidWay(sent)
  \/ sent < EpSize /\ Ended(sent)

(* Where the host is in its message when the handler is where it is.       *)
FrameState ==
  connected =>
    IF pc = "rest" THEN out.length = Shape.len /\ out.pos + HeaderSize = EpSize /\ MidWay(EpSize)
    ELSE IF pc = "check" THEN out.length = Shape.len /\ Ended(out.pos + HeaderSize)
    ELSE IF pc = "reset" THEN Fresh /\ Reported
    ELSE IF Has(events, "out")
         THEN IF out.buf = NULL THEN FirstPacket(out.pos + HeaderSize)
              ELSE out.length = Shape.len /\ Ended(out.pos + HeaderSize)
    ELSE IF out.done # NULL
         THEN IF out.buf = NULL THEN FirstPacket(out.done)
              ELSE /\ out.length = Shape.len
                   /\ \/ out.done = MaxBlock /\ MidWay(out.pos + HeaderSize + out.done)
                      \/ out.done < MaxBlock /\ Ended(out.pos + HeaderSize + out.done)
    ELSE IF out.ep.to = "initial" THEN Fresh /\ Reported
    ELSE /\ out.length = Shape.len /\ MidWay(out.pos + HeaderSize)
         /\ out.ep = ArmRest(out.length - out.pos)

(* What is read, held and handed over is of one message, which is framed   *)
(* as the firmware takes for granted.                                      *)
Named ==
  /\ pc # "overrun"
  /\ dispatched # NULL => dispatched.id # 0 /\ dispatched.from \subseteq {dispatched.id}
  /\ host.msg # NULL => host.msg.id # 0 /\ Framed(host.msg.shape)
  /\ \/ out.done # NULL \/ out.ep.to = "buf" \/ Has(events, "out")
     \/ pc \in {"rest", "check"} \/ out.buf # NULL
     => out.initial.id # 0 /\ Framed(out.initial.shape)
  /\ out.buf # NULL => out.buf \subseteq {out.initial.id}
  /\ Has(events, "out") /\ out.buf = NULL => out.pos <= out.initial.shape.len

LEMMA ShapeAs ==
  ASSUME NEW s \in HostShapes
  PROVE  s.len \in Nat /\ s.total \in Nat
<1>1. s \in [tag : {"command", "echo", "other"}, len : Nat, total : Nat]
  BY SizeAssumption
<1>2. QED
  BY <1>1

(* A transfer for less than a block has room for more than what is left,   *)
(* so that it ends with the message.                                       *)
LEMMA ArmRestEnds ==
  ASSUME NEW r \in Nat
  PROVE  /\ ArmRest(r).to = "buf" /\ ArmRest(r).size \in Nat
         /\ IF r < MaxBlock THEN ArmRest(r).size > r ELSE ArmRest(r).size = MaxBlock
<1>1. RoundToEndpoint(r) \in Nat /\ RoundToEndpoint(r) > r
  <2> DEFINE x == r + EpSize
             d == x \div EpSize
  <2>1. EpSize \in Nat /\ EpSize > 0 /\ x \in Nat
    BY LensAreNat
  <2> HIDE DEF x
  <2>2. d \in Nat
    BY <2>1, SMTT(30)
  <2>3. x < EpSize * d + EpSize
    BY <2>1, SMTT(30)
  <2> HIDE DEF d
  <2>4. d * EpSize = EpSize * d /\ d * EpSize \in Nat
    BY <2>1, <2>2, SMTT(30)
  <2>5. d * EpSize > r
    BY <2>1, <2>2, <2>3, <2>4 DEF x
  <2>6. QED
    BY <2>4, <2>5 DEF RoundToEndpoint, d, x
<1> DEFINE n == IF r < MaxBlock THEN RoundToEndpoint(r) ELSE MaxBlock
<1>2. ArmRest(r) = [to |-> "buf", size |-> n]
  BY DEF ArmRest
<1>3. n \in Nat /\ (IF r < MaxBlock THEN n > r ELSE n = MaxBlock)
  BY <1>1, LensAreNat
<1> HIDE DEF n
<1>4. QED
  BY <1>2, <1>3

LEMMA FrameKept ==
  ASSUME FrameState, Named, UNCHANGED <<connected, pc, out, dispatched>>,
         host'.msg = host.msg, host'.whole = host.whole,
         Has(events, "out")' <=> Has(events, "out")
  PROVE  FrameState' /\ Named'
  BY DEF FrameState, Named, MidWay, Ended, FirstPacket, Fresh, Reported, Shape, Whole, ArmRest,
         RoundToEndpoint

(* The first packet brings a header that is the message's own; a later one *)
(* ends the message exactly when it is shorter than was asked for.         *)
LEMMA HostOutFrames ==
  ASSUME IInv, IInv', FrameState, Named, HostOut
  PROVE  FrameState' /\ Named'
<1> USE DEF IInv
<1> DEFINE m == host.msg
           n == IF m.left < out.ep.size THEN m.left ELSE out.ep.size
           ends == m.left < out.ep.size
           sound == m.shape.total = HeaderSize + m.shape.len
           w == IF ends THEN NULL ELSE [m EXCEPT !.left = m.left - n]
           k == IF ends /\ sound THEN m.id ELSE host.whole
<1>1. /\ connected /\ m # NULL /\ out.ep.to # "none" /\ out.done = NULL
      /\ UNCHANGED <<connected, events, dispatched>>
  BY DEF HostOut
<1>2. m \in [id : Ids, left : Nat, shape : HostShapes] /\ out \in Outs
  BY <1>1 DEF Types
<1>3. pc = "loop" /\ ~Has(events, "out") /\ (Waits \/ Fills)
  BY <1>1 DEF OutState, Handled, Told, AtNone
<1>4. host'.msg = w /\ host'.whole = k
  <2>1. host' = [host EXCEPT !.msg = w, !.whole = k]
    BY DEF HostOut
  <2> HIDE DEF w, k
  <2>2. QED
    BY <2>1 DEF Types
<1>5. ~ends => w = [id |-> m.id, left |-> m.left - n, shape |-> m.shape] /\ w # NULL
  <2> SUFFICES ASSUME ~ends
               PROVE  w = [id |-> m.id, left |-> m.left - n, shape |-> m.shape] /\ w # NULL
    OBVIOUS
  <2>1. w = [m EXCEPT !.left = m.left - n]
    OBVIOUS
  <2>2. m.left - n \in Nat
    BY <1>2, <1>3, LensAreNat DEF Waits, Fills
  <2> HIDE DEF w, n, m
  <2>3. w = [id |-> m.id, left |-> m.left - n, shape |-> m.shape]
    BY <1>2, <2>1
  <2>4. m.id \in Nat
    BY <1>2, LensAreNat DEF Ids
  <2>5. w \in [id : Nat, left : Nat, shape : HostShapes]
    BY <1>2, <2>2, <2>3, <2>4
  <2>6. QED
    BY <2>3, <2>5, NullAssumption
<1>6. m.id # 0 /\ m.shape \in HostShapes /\ Framed(m.shape)
  BY <1>1, <1>2 DEF Named
<1>7. /\ m.shape.len \in Nat /\ m.shape.total \in Nat /\ m.shape.total <= HeaderSize + m.shape.len
      /\ m.left \in Nat /\ m.id \in Ids /\ out.pos \in Nat /\ out.length \in Nat
      /\ HeaderSize \in Nat /\ EpSize \in Nat /\ MaxBlock \in Nat
  BY <1>2, <1>6, ShapeAs, LensAreNat DEF Outs, Framed
<1>8. PICK c \in Nat : c = n
  BY <1>3, <1>7 DEF Waits, Fills
<1>9. dispatched' = dispatched /\ (Reported => (k = host.whole => Reported'))
  BY <1>1, <1>4 DEF Reported
<1>10. CASE out.ep.to = "initial"
  <2>1. Fresh /\ Reported /\ out.ep.size = EpSize /\ out.buf = NULL
    BY <1>1, <1>3, <1>10 DEF FrameState, Waits, Fills
  <2>2. m.left = m.shape.total
    BY <1>1, <2>1 DEF Fresh
  <2>3. /\ out' = [out EXCEPT !.ep = Idle, !.done = n,
                     !.initial = [id |-> m.id, shape |-> m.shape]]
        /\ pc' = pc
    BY <1>10, <2>2 DEF HostOut, Header
  <2> HIDE DEF n, w, k
  <2>4. /\ out'.done = c /\ out'.initial.id = m.id /\ Shape' = m.shape /\ out'.buf = NULL
        /\ out'.ep.to = "none"
    BY <1>2, <1>8, <2>1, <2>3 DEF Outs, Shape, Idle
  <2>5. FirstPacket(c)'
    <3>1. CASE ends
      <4>1. host'.msg = NULL /\ c = m.shape.total /\ c < EpSize
        BY <1>4, <1>7, <1>8, <2>1, <2>2, <3>1 DEF w, n
      <4>2. host'.whole = IF m.shape.total = HeaderSize + m.shape.len THEN m.id ELSE host.whole
        BY <1>4, <3>1 DEF k
      <4>3. Ended(c)'
        BY <1>9, <2>1, <2>4, <4>1, <4>2 DEF Ended, Fresh, Whole, Reported
      <4>4. QED
        BY <2>4, <4>1, <4>3 DEF FirstPacket
    <3>2. CASE ~ends
      <4>1. c = EpSize /\ host'.whole = host.whole /\ host'.msg # NULL
            /\ host'.msg = [id |-> m.id, left |-> m.left - c, shape |-> m.shape]
        BY <1>4, <1>5, <1>8, <2>1, <3>2 DEF k, n
      <4>2. MidWay(c)'
        BY <1>9, <2>1, <2>2, <2>4, <4>1 DEF MidWay, Reported
      <4>3. QED
        BY <2>4, <4>1, <4>2 DEF FirstPacket
    <3>3. QED
      BY <3>1, <3>2
  <2>6. FrameState'
    BY <1>1, <1>3, <2>3, <2>4, <2>5, NullAssumption DEF FrameState
  <2>7. host'.msg # NULL => host'.msg.id # 0 /\ Framed(host'.msg.shape)
    BY <1>4, <1>5, <1>6 DEF w
  <2>8. Named'
    BY <1>1, <1>3, <1>6, <2>3, <2>4, <2>7 DEF Named, Shape
  <2>9. QED
    BY <2>6, <2>8
<1>11. CASE out.ep.to = "buf"
  <2> DEFINE b == IF out.buf = NULL \/ n = 0 THEN out.buf ELSE out.buf \union {m.id}
             r == out.length - out.pos
  <2>1. /\ out.buf # NULL /\ out.length = Shape.len /\ MidWay(out.pos + HeaderSize)
        /\ out.ep = ArmRest(r) /\ r \in Nat
    BY <1>1, <1>3, <1>7, <1>11 DEF FrameState, Waits, Fills
  <2>2. /\ m.id = out.initial.id /\ m.shape = Shape /\ Reported
        /\ m.left = m.shape.total - (out.pos + HeaderSize)
    BY <2>1 DEF MidWay
  <2>3. m.left <= r
    BY <1>7, <2>1, <2>2
  <2>4. IF r < MaxBlock THEN out.ep.size > r ELSE out.ep.size = MaxBlock
    BY <2>1, ArmRestEnds
  <2>5. out' = [out EXCEPT !.ep = Idle, !.done = n, !.buf = b] /\ pc' = pc
    <3>1. n <= r
      BY <1>7, <1>8, <2>1, <2>3
    <3>2. ~(out.pos + n > out.length)
      BY <1>7, <1>8, <3>1
    <3>3. QED
      BY <1>11, <3>2 DEF HostOut
  <2>6. b # NULL /\ b \subseteq {m.id}
    <3>1. b \subseteq {m.id}
      BY <2>1, <2>2 DEF Named
    <3>2. m.id \in 0..MaxHost
      BY <1>7 DEF Ids
    <3>3. QED
      BY <3>1, <3>2, NullAssumption
  <2>7. out.ep.size \in Nat
    BY <2>1, ArmRestEnds
  <2> HIDE DEF n, w, k, b
  <2>8. /\ out'.done = c /\ out'.initial = out.initial /\ Shape' = m.shape /\ out'.buf = b
        /\ out'.ep.to = "none" /\ out'.length = out.length /\ out'.pos = out.pos
    BY <1>2, <1>8, <2>2, <2>5 DEF Outs, Shape, Idle
  <2> HIDE DEF r
  <2>9. \/ c = MaxBlock /\ MidWay(out.pos + HeaderSize + c)'
        \/ c < MaxBlock /\ Ended(out.pos + HeaderSize + c)'
    <3>1. CASE ends
      <4>1. host'.msg = NULL /\ c = m.left
        BY <1>4, <1>8, <3>1 DEF w, n
      <4>2. c < MaxBlock
        BY <1>7, <2>1, <2>3, <2>4, <2>7, <3>1, <4>1
      <4>3. host'.whole = IF m.shape.total = HeaderSize + m.shape.len THEN m.id ELSE host.whole
        BY <1>4, <3>1 DEF k
      <4>4. m.shape.total = out.pos + HeaderSize + c
        BY <1>7, <2>2, <4>1
      <4>5. Ended(out.pos + HeaderSize + c)'
        BY <1>9, <2>2, <2>8, <4>1, <4>3, <4>4 DEF Ended, Fresh, Whole, Reported
      <4>6. QED
        BY <4>2, <4>5
    <3>2. CASE ~ends
      <4>1. c = MaxBlock /\ host'.whole = host.whole /\ host'.msg # NULL
            /\ host'.msg = [id |-> m.id, left |-> m.left - c, shape |-> m.shape]
        <5>1. out.ep.size = MaxBlock
          BY <1>7, <2>1, <2>3, <2>4, <2>7, <3>2
        <5>2. QED
          BY <1>4, <1>5, <1>8, <3>2, <5>1 DEF k, n
      <4>2. m.left - c = m.shape.total - (out.pos + HeaderSize + c)
        BY <1>7, <1>8, <2>2
      <4>3. MidWay(out.pos + HeaderSize + c)'
        BY <1>9, <2>2, <2>8, <4>1, <4>2 DEF MidWay, Reported
      <4>4. QED
        BY <4>1, <4>3
    <3>3. QED
      BY <3>1, <3>2
  <2>10. FrameState'
    BY <1>1, <1>3, <2>1, <2>2, <2>5, <2>6, <2>8, <2>9, NullAssumption DEF FrameState
  <2>11. host'.msg # NULL => host'.msg.id # 0 /\ Framed(host'.msg.shape)
    BY <1>4, <1>5, <1>6 DEF w
  <2>12. Named'
    BY <1>1, <1>3, <1>6, <2>2, <2>5, <2>6, <2>8, <2>11 DEF Named, Shape
  <2>13. QED
    BY <2>10, <2>12
<1>12. QED
  BY <1>1, <1>2, <1>10, <1>11 DEF Outs

(* The end of a transfer tells the main loop exactly when the host is      *)
(* through with the message, or has sent a first packet with a header.     *)
LEMMA CompleteOutFrames ==
  ASSUME IInv, FrameState, Named, connected, NEW q, CompleteOut(q),
         Queue(q), ~Has(q, "cleanup"), Has(q, "out") <=> Has(events, "out"),
         UNCHANGED <<connected, pc, host, dispatched>>
  PROVE  FrameState' /\ Named'
<1> USE DEF IInv
<1>1. CASE out.done = NULL
  BY <1>1, FrameKept DEF CompleteOut, Has
<1>2. CASE out.done # NULL
  <2>1. pc = "loop" /\ ~Has(events, "out") /\ Filled /\ out \in Outs
    BY <1>2 DEF OutState, Types
  <2>2. /\ out.done \in Nat /\ out.pos \in Nat /\ out.length \in Nat /\ out.initial \in Headers
        /\ HeaderSize \in Nat /\ EpSize \in Nat /\ MaxBlock \in Nat
    BY <1>2, <2>1, LensAreNat DEF Outs, Headed
  <2>3. Shape \in HostShapes /\ out.initial.id # 0 /\ Framed(out.initial.shape)
    BY <1>2, <2>2 DEF Headers, Shape, Named
  <2>4. /\ Shape.len \in Nat /\ Shape.total \in Nat /\ Shape.total <= HeaderSize + Shape.len
    BY <2>2, <2>3, ShapeAs DEF Framed, Shape
  <2>5. Has(Add(q, "out"), "out")
    BY QueueAdd DEF Events
  <2>6. CASE out.buf = NULL
    <3>1. FirstPacket(out.done)
      BY <1>2, <2>1, <2>6 DEF FrameState
    <3>2. CASE HasHeader
      <4>1. events' = Add(q, "out") /\ out' = FirstOut
        BY <1>2, <2>6, <3>2 DEF CompleteOut
      <4>2. out' = [length |-> out.length, pos |-> out.done - HeaderSize, buf |-> out.buf,
                    initial |-> out.initial, ep |-> out.ep, done |-> NULL]
        BY <2>1, <4>1 DEF FirstOut, Outs
      <4>3. out'.pos + HeaderSize = out.done
        BY <2>2, <4>2
      <4>4. PICK c \in Nat : c = out.done
        BY <2>2
      <4>5. Shape' = Shape /\ out'.initial = out.initial /\ out'.buf = NULL
        BY <2>6, <4>2 DEF Shape
      <4>6. FirstPacket(c)'
        BY <3>1, <4>4, <4>5 DEF FirstPacket, MidWay, Ended, Fresh, Reported, Whole
      <4>7. FirstPacket(out.pos + HeaderSize)'
        BY <4>3, <4>4, <4>6
      <4>8. FrameState'
        BY <2>1, <2>5, <4>1, <4>5, <4>7 DEF FrameState
      <4>9. out.done - HeaderSize <= Shape.len
        <5>1. out.done <= Shape.total
          <6>1. CASE MidWay(out.done)
            BY <2>2, <2>4, <6>1 DEF MidWay, Types
          <6>2. CASE Ended(out.done)
            BY <2>2, <2>4, <6>2 DEF Ended
          <6>3. QED
            BY <3>1, <6>1, <6>2 DEF FirstPacket
        <5>2. QED
          BY <2>2, <2>4, <5>1
      <4>10. Named'
        BY <2>3, <4>2, <4>5, <4>9 DEF Named, Shape
      <4>11. QED
        BY <4>8, <4>10
    <3>3. CASE ~HasHeader
      <4>1. events' = q /\ out' = [[out EXCEPT !.done = NULL] EXCEPT !.ep = ArmInitial]
        BY <1>2, <2>6, <3>3 DEF CompleteOut
      <4>2. out' = [length |-> out.length, pos |-> out.pos, buf |-> out.buf,
                    initial |-> out.initial, ep |-> ArmInitial, done |-> NULL]
        BY <2>1, <4>1 DEF Outs
      <4>3. out.done < EpSize /\ Ended(out.done)
        BY <2>2, <3>1, <3>3, SizeAssumption DEF HasHeader, FirstPacket
      <4>4. ~Whole /\ Fresh /\ Reported
        BY <2>2, <2>4, <3>3, <4>3 DEF Whole, Ended, HasHeader
      <4>5. Fresh' /\ Reported'
        BY <4>4 DEF Fresh, Reported
      <4>6. FrameState'
        BY <2>1, <4>1, <4>2, <4>5 DEF FrameState, ArmInitial, Has
      <4>7. Named'
        BY <2>1, <2>3, <2>6, <4>1, <4>2 DEF Named
      <4>8. QED
        BY <4>6, <4>7
    <3>4. QED
      BY <3>2, <3>3
  <2>7. CASE out.buf # NULL
    <3> DEFINE pos == out.pos + out.done
    <3>1. /\ out.length = Shape.len
          /\ \/ out.done = MaxBlock /\ MidWay(out.pos + HeaderSize + out.done)
             \/ out.done < MaxBlock /\ Ended(out.pos + HeaderSize + out.done)
      BY <1>2, <2>1, <2>7 DEF FrameState
    <3>2. PICK c \in Nat : c = out.pos + HeaderSize + out.done
      BY <2>2
    <3>3. c = pos + HeaderSize /\ pos \in Nat
      BY <2>2, <3>2
    <3>4. CASE OutEnds(pos)
      <4>1. events' = Add(q, "out") /\ out' = [[out EXCEPT !.done = NULL] EXCEPT !.pos = pos]
        BY <1>2, <2>7, <3>4 DEF CompleteOut
      <4>2. Ended(c)
        <5>1. SUFFICES ASSUME out.done = MaxBlock, MidWay(c) PROVE FALSE
          BY <3>1, <3>2
        <5>2. host.msg.left \in Nat /\ host.msg.left = Shape.total - c
          BY <5>1 DEF MidWay, Types
        <5>3. pos > out.length
          BY <2>2, <3>4, <5>1 DEF OutEnds
        <5>4. QED
          BY <2>2, <2>4, <3>1, <3>3, <5>2, <5>3
      <4> HIDE DEF pos
      <4>3. out' = [length |-> out.length, pos |-> pos, buf |-> out.buf,
                    initial |-> out.initial, ep |-> out.ep, done |-> NULL]
        BY <2>1, <4>1 DEF Outs
      <4>4. Shape' = Shape /\ out'.initial = out.initial /\ out'.pos + HeaderSize = c
        BY <3>3, <4>3 DEF Shape
      <4>5. Ended(c)'
        BY <4>2, <4>4 DEF Ended, Fresh, Reported, Whole
      <4>6. FrameState'
        BY <2>1, <2>5, <2>7, <3>1, <4>1, <4>3, <4>4, <4>5 DEF FrameState
      <4>7. Named'
        BY <2>1, <2>3, <2>7, <4>3 DEF Named
      <4>8. QED
        BY <4>6, <4>7
    <3>5. CASE ~OutEnds(pos)
      <4> DEFINE arm == ArmRest(out.length - pos)
      <4>1. /\ events' = q
            /\ out' = [[out EXCEPT !.done = NULL] EXCEPT !.pos = pos, !.ep = arm]
        BY <1>2, <2>7, <3>5 DEF CompleteOut
      <4>2. MidWay(c) /\ pos <= out.length
        BY <2>2, <3>1, <3>2, <3>3, <3>5 DEF OutEnds
      <4>3. arm.to = "buf"
        BY DEF ArmRest
      <4> HIDE DEF pos, arm
      <4>4. out' = [length |-> out.length, pos |-> pos, buf |-> out.buf,
                    initial |-> out.initial, ep |-> arm, done |-> NULL]
        BY <2>1, <4>1 DEF Outs
      <4>5. Shape' = Shape /\ out'.initial = out.initial /\ out'.pos + HeaderSize = c
        BY <3>3, <4>4 DEF Shape
      <4>6. MidWay(c)'
        BY <4>2, <4>5 DEF MidWay, Reported
      <4>7. (out.ep = ArmRest(out.length - out.pos))'
        BY <4>4 DEF arm, ArmRest, RoundToEndpoint
      <4>8. FrameState'
        BY <2>1, <3>1, <4>1, <4>3, <4>4, <4>5, <4>6, <4>7 DEF FrameState, Has
      <4>9. Named'
        BY <2>1, <2>3, <2>7, <4>4 DEF Named
      <4>10. QED
        BY <4>8, <4>9
    <3>6. QED
      BY <3>4, <3>5
  <2>8. QED
    BY <2>6, <2>7
<1>3. QED
  BY <1>1, <1>2

(* The main loop asks for the rest of a message exactly when the host has  *)
(* more of it to send.                                                     *)
LEMMA MsgOutFrames ==
  ASSUME IInv, FrameState, Named, MsgOutHandler
  PROVE  FrameState' /\ Named'
<1> USE DEF IInv
<1>1. /\ pc = "loop" /\ Has(events, "out") /\ out \in Outs
      /\ UNCHANGED <<connected, host, dispatched>>
  BY QueueTail DEF MsgOutHandler, Pop, Types
<1>2. /\ out.initial \in Headers /\ out.initial.id # 0 /\ Framed(out.initial.shape)
      /\ out.pos \in Nat /\ HeaderSize \in Nat /\ EpSize \in Nat
  BY <1>1, LensAreNat DEF Headed, Named, Outs
<1>3. /\ Shape.len \in Nat /\ Shape.total \in Nat /\ Shape.total <= HeaderSize + Shape.len
      /\ Shape.total >= EpSize \/ HeaderSize + Shape.len < EpSize
      /\ out.initial.id \in Ids
  BY <1>2, ShapeAs DEF Headers, Shape, Framed
<1>4. CASE out.buf # NULL
  <2>1. pc' = "check" /\ out' = out
    BY <1>4 DEF MsgOutHandler
  <2>2. connected => out.length = Shape.len /\ Ended(out.pos + HeaderSize)
    BY <1>1, <1>4 DEF FrameState
  <2>3. PICK c \in Nat : c = out.pos + HeaderSize
    BY <1>2
  <2>4. connected => Ended(c)'
    BY <1>1, <2>1, <2>2, <2>3 DEF Ended, Fresh, Reported, Whole, Shape
  <2>5. FrameState'
    BY <1>1, <2>1, <2>2, <2>3, <2>4 DEF FrameState, Shape
  <2>6. Named'
    BY <1>1, <1>2, <1>4, <2>1 DEF Named
  <2>7. QED
    BY <2>5, <2>6
<1>5. CASE out.buf = NULL
  <2> DEFINE b == IF out.pos > 0 THEN {out.initial.id} ELSE {}
  <2>1. /\ out' = [out EXCEPT !.length = Shape.len, !.buf = b]
        /\ pc' = IF Shape.len + HeaderSize >= EpSize THEN "rest" ELSE "check"
    <3>1. out.pos <= Shape.len
      BY <1>1, <1>5 DEF Named, Shape
    <3>2. ~(out.pos > Shape.len)
      BY <1>2, <1>3, <3>1
    <3>3. QED
      BY <1>5, <3>1, <3>2 DEF MsgOutHandler, Shape
  <2>2. b \subseteq {out.initial.id} /\ b # NULL
    <3>1. b \subseteq 0..MaxHost
      BY <1>3 DEF Ids
    <3>2. QED
      BY <3>1, NullAssumption
  <2> HIDE DEF b
  <2>3. out' = [length |-> Shape.len, pos |-> out.pos, buf |-> b,
                initial |-> out.initial, ep |-> out.ep, done |-> out.done]
    BY <1>1, <2>1 DEF Outs
  <2>4. Shape' = Shape /\ out'.initial = out.initial
    BY <2>3 DEF Shape
  <2>5. PICK c \in Nat : c = out.pos + HeaderSize
    BY <1>2
  <2>6. connected => FirstPacket(c)
    BY <1>1, <1>5, <2>5 DEF FrameState
  <2>7. ASSUME pc' = "rest", connected PROVE FrameState'
    <3>1. Shape.total >= EpSize
      BY <1>2, <1>3, <2>1, <2>7
    <3>2. c = EpSize /\ MidWay(c)
      BY <1>2, <1>3, <2>6, <2>7, <3>1 DEF FirstPacket, Ended
    <3>3. MidWay(c)'
      BY <1>1, <2>4, <3>2 DEF MidWay, Reported
    <3>4. MidWay(EpSize)'
      BY <3>2, <3>3
    <3>5. out'.length = Shape'.len /\ out'.pos + HeaderSize = EpSize
      BY <2>3, <2>4, <2>5, <3>2
    <3>6. QED
      BY <2>7, <3>4, <3>5 DEF FrameState
  <2>8. ASSUME pc' = "check", connected PROVE FrameState'
    <3>1. Shape.total < EpSize
      BY <1>2, <1>3, <2>1, <2>8
    <3>2. Ended(c)
      <4>1. SUFFICES ASSUME c = EpSize, MidWay(c) PROVE FALSE
        BY <2>6, <2>8 DEF FirstPacket
      <4>2. host.msg.left \in Nat /\ host.msg.left = Shape.total - c
        BY <4>1 DEF MidWay, Types
      <4>3. QED
        BY <1>2, <1>3, <3>1, <4>1, <4>2
    <3>3. Ended(c)'
      BY <1>1, <2>4, <3>2 DEF Ended, Fresh, Reported, Whole
    <3>4. out'.length = Shape'.len /\ out'.pos + HeaderSize = c
      BY <2>3, <2>4, <2>5
    <3>5. Ended(out.pos + HeaderSize)'
      BY <3>3, <3>4
    <3>6. QED
      BY <2>8, <3>4, <3>5 DEF FrameState
  <2>9. FrameState'
    BY <1>1, <2>1, <2>7, <2>8 DEF FrameState
  <2>10. Named'
    BY <1>1, <1>2, <2>1, <2>2, <2>3 DEF Named
  <2>11. QED
    BY <2>9, <2>10
<1>6. QED
  BY <1>4, <1>5

(* What is dispatched is what the host meant, and a message is dispatched  *)
(* if it arrived whole.                                                    *)
LEMMA MsgCheckFrames ==
  ASSUME IInv, FrameState, Named, MsgOutCheck
  PROVE  FrameState' /\ Named'
<1> USE DEF IInv
<1> DEFINE d == [id |-> out.initial.id, from |-> out.buf]
<1>1. /\ pc = "check" /\ pc' = "reset" /\ UNCHANGED <<connected, events, out, host>>
      /\ dispatched' = IF out.pos = out.length THEN d ELSE dispatched
  BY DEF MsgOutCheck
<1>2. /\ out.initial \in Headers /\ out.initial.id # 0 /\ out.buf # NULL
      /\ out.buf \subseteq {out.initial.id} /\ out.initial.id \in Nat
      /\ out.pos \in Nat /\ HeaderSize \in Nat
  <2>1. /\ out.initial \in Headers /\ out.initial.id # 0 /\ out.buf # NULL
        /\ out.buf \subseteq {out.initial.id}
    BY <1>1 DEF Headed, Named
  <2>2. out.initial.id \in Nat
    BY <2>1, LensAreNat DEF Headers, Ids
  <2>3. QED
    BY <2>1, <2>2, LensAreNat DEF Types, Outs
<1>3. d # NULL /\ d.id = out.initial.id /\ d.from = out.buf
  <2>1. d \in [id : Nat, from : SUBSET Nat]
    BY <1>2
  <2>2. QED
    BY <2>1, NullAssumption
<1> HIDE DEF d
<1>4. Named'
  BY <1>1, <1>2, <1>3 DEF Named
<1>5. ASSUME connected PROVE Fresh' /\ Reported'
  <2>1. out.length = Shape.len /\ Ended(out.pos + HeaderSize)
    BY <1>1, <1>5 DEF FrameState
  <2>2. Shape.len \in Nat
    BY <1>2, ShapeAs DEF Headers, Shape
  <2>3. Whole <=> out.pos = out.length
    BY <1>2, <2>1, <2>2 DEF Ended, Whole
  <2>4. QED
    BY <1>1, <1>3, <2>1, <2>3 DEF Ended, Fresh, Reported
<1>6. FrameState'
  BY <1>1, <1>5 DEF FrameState
<1>7. QED
  BY <1>4, <1>6

LEMMA InitFrames == Init => FrameState /\ Named
  BY DEF Init, FrameState, Named, HostReset, Idle, Has

(* A host that connects anew begins anew, whatever it has broken.          *)
LEMMA FramesAnew ==
  ASSUME HostWaits, EnableFlushes, IInv, IInv', SetInterfaceOn
  PROVE  FrameState' /\ Named'
<1> USE DEF IInv
<1>1. /\ ~connected /\ ~Has(events, "cleanup") /\ UNCHANGED <<events, pc>> /\ dispatched' = NULL
      /\ out' = [out EXCEPT !.ep = ArmInitial] /\ host'.msg = NULL /\ host'.whole = 0
  BY DEF SetInterfaceOn, Pending, Has, HostReset
<1>2. /\ events = <<>> /\ pc = "loop" /\ out.buf = NULL /\ out.done = NULL
  BY <1>1 DEF Apart
<1>3. ~Has(events', "out")
  BY <1>1, <1>2 DEF Has
<1>4. out'.done = NULL /\ out'.ep.to = "initial" /\ out'.buf = NULL
  BY <1>1, <1>2 DEF Types, Outs, ArmInitial
<1>5. Fresh' /\ Reported'
  BY <1>1 DEF Fresh, Reported
<1>6. QED
  BY <1>1, <1>2, <1>3, <1>4, <1>5 DEF FrameState, Named

LEMMA StepFrames ==
  ASSUME HostWaits, EnableFlushes, IInv, IInv', FrameState, Named, [Next]_vars, ~host'.broke
  PROVE  FrameState' /\ Named'
<1> USE DEF IInv
<1>1. CASE UNCHANGED vars
  BY <1>1, FrameKept DEF vars
<1>2. ASSUME NEW s \in HostShapes, HostBegin(s) PROVE FrameState' /\ Named'
  <2> DEFINE m == [id |-> count.host + 1, left |-> s.total, shape |-> s]
             b == host.broke \/ ~Framed(s)
  <2>1. /\ UNCHANGED <<connected, events, pc, out, dispatched>> /\ host.msg = NULL
        /\ host' = [host EXCEPT !.msg = m, !.broke = b]
    BY <1>2 DEF HostBegin
  <2>2. m.left = m.shape.total /\ m.id # 0 /\ m.shape = s
    BY DEF Types
  <2> HIDE DEF m, b
  <2>3. host'.msg = m /\ host'.whole = host.whole /\ Framed(s)
    <3>1. host'.msg = m /\ host'.whole = host.whole /\ host'.broke = b
      BY <2>1 DEF Types
    <3>2. QED
      BY <3>1, Zenon DEF b
  <2>4. \A k : ~MidWay(k)
    BY <2>1 DEF MidWay
  <2>5. /\ Fresh' /\ (Reported' <=> Reported) /\ Shape' = Shape
        /\ \A k : Ended(k) => Ended(k)'
    BY <2>1, <2>2, <2>3 DEF Fresh, Reported, Ended, Whole, Shape
  <2>6. FrameState'
    BY <2>1, <2>4, <2>5 DEF FrameState, FirstPacket, Has
  <2>7. Named'
    BY <2>1, <2>2, <2>3 DEF Named, Has
  <2>8. QED
    BY <2>6, <2>7
<1>3. CASE HostOut
  BY <1>3, HostOutFrames
<1>4. CASE HostIn
  <2>1. UNCHANGED <<connected, events, pc, out, dispatched>>
    BY <1>4 DEF HostIn
  <2>2. host'.msg = host.msg /\ host'.whole = host.whole
    BY <1>4 DEF HostIn, Types
  <2>3. QED
    BY <2>1, <2>2, FrameKept
<1>5. CASE SetInterfaceOff
  <2>1. /\ connected' = FALSE /\ UNCHANGED <<pc, dispatched>> /\ host'.msg = NULL
        /\ events' = Add(events, "cleanup") /\ out' = [out EXCEPT !.ep = Idle] /\ connected
    BY <1>5 DEF SetInterfaceOff, HostReset
  <2>2. Has(events', "out") => Has(events, "out")
    BY <2>1, QueueAdd DEF Types, Apart, Events
  <2>3. /\ out'.done = out.done /\ out'.ep.to = "none" /\ out'.buf = out.buf
        /\ out'.initial = out.initial
    BY <2>1 DEF Types, Outs, Idle
  <2>4. QED
    BY <2>1, <2>2, <2>3 DEF FrameState, Named
<1>6. CASE SetInterfaceOn
  BY <1>6, FramesAnew
<1>7. CASE CompletionIsr
  <2>1. connected /\ ~Has(events, "cleanup") /\ UNCHANGED <<connected, host, dispatched>>
    BY <1>7 DEF CompletionIsr, Apart
  <2>2. in.done => in.list # <<>>
    BY <2>1 DEF InState
  <2>3. CASE ~in.done
    BY <1>7, <2>1, <2>3, CompleteOutFrames DEF CompletionIsr, Types
  <2>4. CASE in.done
    <3> DEFINE q == InEvents(events, in)
    <3>1. CompleteOut(q) /\ pc' = pc
      BY <1>7, <2>2, <2>4 DEF CompletionIsr
    <3>2. Queue(q) /\ ~Has(q, "cleanup") /\ (Has(q, "out") <=> Has(events, "out"))
      <4>1. CASE Left(in) = 0
        BY <2>1, <4>1, QueueAdd DEF InEvents, Events, Types
      <4>2. CASE Left(in) # 0
        BY <2>1, <4>2 DEF InEvents, Types
      <4>3. QED
        BY <4>1, <4>2
    <3> HIDE DEF q
    <3>3. QED
      BY <2>1, <3>1, <3>2, CompleteOutFrames
  <2>5. QED
    BY <2>3, <2>4
<1>8. ASSUME NEW len \in SendLens, Send(len) PROVE FrameState' /\ Named'
  BY <1>8, FrameKept DEF Send, Has
<1>9. CASE MsgInHandler
  <2>1. UNCHANGED <<connected, out, host, dispatched>>
    BY <1>9 DEF MsgInHandler
  <2>2. in.list # <<>> /\ (\A x : Has(events', x) <=> Has(events, x) /\ x # "in")
    BY <1>9, MsgInKeeps
  <2>3. pc' = pc
    BY <1>9, <2>2 DEF MsgInHandler
  <2>4. QED
    BY <2>1, <2>2, <2>3, FrameKept
<1>10. CASE MsgCleanupHandler
  <2>1. /\ events # <<>> /\ Head(events) = "cleanup" /\ events' = Tail(events)
        /\ out' = NoOut /\ UNCHANGED <<connected, pc, host, dispatched>>
    BY <1>10 DEF MsgCleanupHandler, Pop
  <2>2. ~connected /\ ~Has(events', "out")
    <3>1. events' = <<>> /\ ~connected
      BY <2>1, QueueTail DEF Types, Apart
    <3>2. QED
      BY <3>1 DEF Has
  <2>3. /\ out'.buf = NULL /\ out'.done = out.done /\ out'.ep = out.ep
        /\ out'.initial = out.initial
    BY <2>1 DEF Types, Outs, NoOut
  <2>4. QED
    BY <2>1, <2>2, <2>3 DEF FrameState, Named
<1>11. CASE MsgOutHandler
  BY <1>11, MsgOutFrames
<1>12. CASE MsgOutRest
  <2> DEFINE arm == ArmRest(out.length - out.pos)
  <2>1. /\ pc = "rest" /\ pc' = "loop" /\ out' = [out EXCEPT !.ep = arm]
        /\ UNCHANGED <<connected, events, host, dispatched>>
    BY <1>12 DEF MsgOutRest
  <2>2. arm.to = "buf" /\ out.buf # NULL
    BY <2>1 DEF ArmRest, Headed
  <2> HIDE DEF arm
  <2>3. out' = [length |-> out.length, pos |-> out.pos, buf |-> out.buf,
                initial |-> out.initial, ep |-> arm, done |-> out.done]
    BY <2>1 DEF Types, Outs
  <2>4. (out.ep = ArmRest(out.length - out.pos))' /\ Shape' = Shape
    BY <2>3 DEF arm, ArmRest, RoundToEndpoint, Shape
  <2>5. ASSUME connected
        PROVE  /\ out.length = Shape.len /\ out.done = NULL /\ ~Has(events, "out")
               /\ MidWay(out.pos + HeaderSize)'
    <3>1. out.length = Shape.len /\ out.pos + HeaderSize = EpSize /\ MidWay(EpSize)
      BY <2>1, <2>5 DEF FrameState
    <3>2. MidWay(EpSize)' /\ out'.pos + HeaderSize = EpSize
      BY <2>1, <2>3, <2>4, <3>1 DEF MidWay, Reported
    <3>3. MidWay(out.pos + HeaderSize)'
      BY <3>2
    <3>4. out.done = NULL /\ ~Has(events, "out")
      BY <2>1, <2>5 DEF OutState
    <3>5. QED
      BY <3>1, <3>3, <3>4
  <2>6. FrameState'
    BY <2>1, <2>2, <2>3, <2>4, <2>5 DEF FrameState, Has
  <2>7. Named'
    BY <2>1, <2>2, <2>3 DEF Named, Has
  <2>8. QED
    BY <2>6, <2>7
<1>13. CASE MsgOutCheck
  BY <1>13, MsgCheckFrames
<1>14. CASE MsgOutReset
  <2>1. /\ pc = "reset" /\ pc' = "loop" /\ out' = [NoOut EXCEPT !.ep = ArmInitial]
        /\ UNCHANGED <<connected, events, host, dispatched>>
    BY <1>14 DEF MsgOutReset
  <2>2. out' = [length |-> 0, pos |-> 0, buf |-> NULL, initial |-> out.initial,
                ep |-> ArmInitial, done |-> out.done]
    BY <2>1 DEF Types, Outs, NoOut
  <2>3. connected => Fresh' /\ Reported' /\ out.done = NULL /\ ~Has(events, "out")
    BY <2>1 DEF FrameState, OutState, Fresh, Reported
  <2>4. FrameState'
    BY <2>1, <2>2, <2>3 DEF FrameState, ArmInitial, Has
  <2>5. Has(events, "out") => 0 <= out.initial.shape.len
    <3>1. Has(events, "out") => out.initial.shape \in HostShapes
      BY DEF Headed, Headers
    <3>2. QED
      BY <3>1, ShapeAs
  <2>6. Named'
    BY <2>1, <2>2, <2>5 DEF Named, ArmInitial, Has
  <2>7. QED
    BY <2>4, <2>6
<1>15. QED
  BY <1>1, <1>2, <1>3, <1>4, <1>5, <1>6, <1>7, <1>8, <1>9, <1>10, <1>11, <1>12, <1>13, <1>14
  DEF Next, Main

(* A host that has broken the framing has done so until it connects anew.  *)
LEMMA BrokeStays ==
  ASSUME IInv, [Next]_vars, ~SetInterfaceOn, ~host'.broke
  PROVE  ~host.broke
<1>1. CASE UNCHANGED host
  BY <1>1, Zenon
<1>2. ASSUME NEW s \in HostShapes, HostBegin(s) PROVE ~host.broke
  <2> DEFINE b == host.broke \/ ~Framed(s)
  <2>1. host' = [host EXCEPT !.msg = [id |-> count.host + 1, left |-> s.total, shape |-> s],
                             !.broke = b]
    BY <1>2 DEF HostBegin
  <2> HIDE DEF b
  <2>2. host'.broke = b
    BY <2>1 DEF IInv, Types
  <2>3. QED
    BY <2>2, Zenon DEF b
<1>3. CASE HostOut
  <2>1. PICK w, k : host' = [host EXCEPT !.msg = w, !.whole = k]
    BY <1>3, Zenon DEF HostOut
  <2>2. QED
    BY <2>1 DEF IInv, Types
<1>4. CASE HostIn
  <2>1. \/ \E r : host' = [host EXCEPT !.bytes = 0, !.received = r]
        \/ \E r : host' = [host EXCEPT !.bytes = r]
    BY <1>4, Zenon DEF HostIn
  <2>2. QED
    BY <2>1 DEF IInv, Types
<1>5. CASE SetInterfaceOff
  BY <1>5 DEF SetInterfaceOff, HostReset
<1>6. QED
  BY <1>1, <1>2, <1>3, <1>4, <1>5 DEF Next, Main, Send, MsgInHandler, MsgCleanupHandler,
     MsgOutHandler, MsgOutRest, MsgOutCheck, MsgOutReset, CompletionIsr, vars

(* For every size of packet, block and message, wherever the packets of a  *)
(* message end, and whenever the host gives up on one behind its first     *)
(* packet: what is dispatched is bytes of the message whose header was     *)
(* read, each message that arrived whole has been dispatched once the      *)
(* endpoint waits for another, and no byte lands outside of a message's    *)
(* buffer (msg_interface.c:110-204).  That holds from a connection up to   *)
(* the first message whose bytes are more than its header announces or     *)
(* whose first packet is short though it announces more, which the         *)
(* firmware does not check.                                                *)
THEOREM MessagesKeepTheirFrames ==
  ASSUME HostWaits, EnableFlushes
  PROVE  Spec => []OutFraming
<1> DEFINE Frames == ~host.broke => FrameState /\ Named
<1>1. Init => IInv /\ Frames
  BY InitIInv, InitFrames
<1>2. IInv /\ Frames /\ [Next]_vars => IInv' /\ Frames'
  <2> SUFFICES ASSUME IInv, Frames, [Next]_vars PROVE IInv' /\ Frames'
    OBVIOUS
  <2>1. IInv'
    BY IInvStep
  <2>2. CASE SetInterfaceOn
    BY <2>1, <2>2, FramesAnew
  <2>3. CASE ~SetInterfaceOn
    <3>1. ASSUME ~host'.broke PROVE FrameState' /\ Named'
      <4>1. FrameState /\ Named
        BY <2>3, <3>1, BrokeStays
      <4>2. QED
        BY <2>1, <3>1, <4>1, StepFrames
    <3>2. QED
      BY <2>1, <3>1
  <2>4. QED
    BY <2>2, <2>3
<1>3. IInv /\ Frames => OutFraming
  <2> SUFFICES ASSUME IInv, FrameState, Named
               PROVE  OneMessageDispatched /\ NothingLost /\ pc # "overrun"
    BY DEF OutFraming
  <2>1. OneMessageDispatched /\ pc # "overrun"
    BY DEF Named, OneMessageDispatched
  <2>2. NothingLost
    <3>1. connected /\ out.ep.to = "initial" => Reported
      BY DEF IInv, Types, FrameState, OutState, Handled, Told, Filled, AtNone, Waits, Fills
    <3>2. QED
      BY <3>1 DEF NothingLost, Reported
  <2>3. QED
    BY <2>1, <2>2
<1> HIDE DEF Frames
<1>4. QED
  BY <1>1, <1>2, <1>3, PTL DEF Spec

-----------------------------------------------------------------------------
(* The IN direction implements a channel of whole messages.                *)

ChanNow == IF ~connected THEN <<>> ELSE IF HeadTaken THEN Tail(in.list) ELSE in.list
Steps == [Channel!Next]_<<ChanNow, host.received>>

LEMMA SendIsChannel ==
  ASSUME IInv, NEW len \in Lens, SendItem(len), UNCHANGED <<connected, host>>
  PROVE  Steps
<1> DEFINE item == [id |-> count.sent + 1, len |-> len]
           first == [in EXCEPT !.list = <<item>>, !.pos = 0]
           Messages == [id : 1..MaxSent, len : SendLens \union {s.len : s \in HostShapes}]
<1>1. connected /\ connected' = connected /\ host' = host /\ count.sent < MaxSent
      /\ in' = IF in.list = <<>> THEN StartIn(first)
               ELSE [in EXCEPT !.list = Append(in.list, item)]
  BY DEF SendItem
<1>2. item \in Messages /\ item.len = len
  BY <1>1, LensAreNat DEF IInv, Types, Lens
<1>3. ChanNow' = Append(ChanNow, item)
  <2> HIDE DEF item
  <2>1. in \in Ins
    BY DEF IInv, Types
  <2>2. CASE in.list = <<>>
    <3>1. first = [list |-> <<item>>, pos |-> 0, ep |-> in.ep, done |-> in.done]
      BY <2>1, InReplaced
    <3> HIDE DEF first
    <3>2. first \in Ins /\ Head(first.list) = item /\ first.pos = 0 /\ first.list = <<item>>
      <4>1. <<item>> \in Seq(Items)
        BY <1>2 DEF Items, Lens
      <4>2. QED
        BY <2>1, <3>1, <4>1 DEF Ins
    <3>3. first.list # <<>> /\ Left(first) >= 0 /\ Left(first) # 0
      BY <1>2, <3>2, LensAreNat DEF Left
    <3>4. in'.list = <<item>> /\ in'.ep # NULL
      <4>1. in' = StartIn(first)
        BY <1>1, <2>2
      <4>2. QED
        BY <3>2, <3>3, <4>1, StartInAs
    <3>5. ChanNow = <<>> /\ ChanNow' = <<item>>
      BY <1>1, <2>2, <3>4 DEF ChanNow, HeadTaken
    <3>6. QED
      BY <3>5
  <2>3. CASE in.list # <<>>
    <3>1. in' = [list |-> Append(in.list, item), pos |-> in.pos, ep |-> in.ep, done |-> in.done]
      BY <1>1, <2>1, <2>3 DEF Ins
    <3>2. in.list \in Seq(Items) /\ item \in Items
      BY <1>2, <2>1 DEF Ins, Items, Lens
    <3>3. /\ Head(Append(in.list, item)) = Head(in.list) /\ Append(in.list, item) # <<>>
          /\ Tail(Append(in.list, item)) = Append(Tail(in.list), item)
      BY <2>3, <3>2
    <3>4. HeadTaken' <=> HeadTaken
      BY <2>3, <3>1, <3>3 DEF HeadTaken, Left
    <3>5. QED
      BY <1>1, <3>1, <3>3, <3>4 DEF ChanNow
  <2>4. QED
    BY <2>2, <2>3
<1>4. QED
  BY <1>1, <1>2, <1>3 DEF Steps, Channel!Next, Channel!Send, ChanNow

LEMMA StepsAreChannel ==
  ASSUME HostWaits, EnableFlushes, IInv, IInv', [Next]_vars
  PROVE  Steps
<1> USE DEF Steps, ChanNow
<1>1. CASE \/ UNCHANGED vars \/ MsgCleanupHandler \/ MsgOutHandler \/ MsgOutRest \/ MsgOutReset
           \/ HostOut \/ \E s \in HostShapes : HostBegin(s)
  <2>1. UNCHANGED <<connected, host.received>> /\ (in' = in \/ ~connected)
    <3>1. CASE MsgCleanupHandler
      BY <3>1 DEF MsgCleanupHandler, Pop, IInv, Apart, Types, Has, Queue
    <3>2. CASE HostOut
      BY <3>2, HostOutKeeps DEF HostOut, IInv
    <3>3. CASE \E s \in HostShapes : HostBegin(s)
      BY <3>3 DEF HostBegin, IInv, Types
    <3>4. QED
      BY <1>1, <3>1, <3>2, <3>3 DEF MsgOutHandler, MsgOutRest, MsgOutReset, vars
  <2>2. QED
    BY <2>1 DEF HeadTaken, Left
<1>2. ASSUME NEW len \in SendLens, Send(len) PROVE Steps
  BY <1>2, SendIsChannel DEF Send, Lens
<1>3. CASE MsgOutCheck
  <2>1. UNCHANGED <<connected, host>> /\ (SendItem(out.length) \/ in' = in)
    BY <1>3 DEF MsgOutCheck
  <2>2. out.length \in Lens
    BY <1>3 DEF MsgOutCheck, IInv, Headed
  <2>3. QED
    BY <2>1, <2>2, SendIsChannel DEF HeadTaken, Left
<1>4. CASE MsgInHandler
  <2>1. UNCHANGED <<connected, host>> /\ Has(events, "in") /\ in.list # <<>>
    BY <1>4, MsgInKeeps, QueueTail DEF MsgInHandler, Pop, IInv, Types
  <2>2. connected => HeadTaken
    BY <2>1 DEF IInv, InState, Sends, Sent, Drops, HeadTaken
  <2>3. in'.list = Tail(in.list) /\ ~HeadTaken'
    <3> DEFINE r == [in EXCEPT !.list = Tail(in.list), !.pos = 0]
    <3>1. in' = NextIn(r)
      BY <1>4, <2>1 DEF MsgInHandler
    <3>2. r = [list |-> Tail(in.list), pos |-> 0, ep |-> in.ep, done |-> in.done]
      BY InReplaced DEF IInv, Types
    <3> HIDE DEF r
    <3>3. r \in Ins /\ r.list = Tail(in.list) /\ r.pos = 0
      <4>1. Tail(in.list) \in Seq(Items)
        BY <2>1 DEF IInv, Types, Ins
      <4>2. QED
        BY <3>2, <4>1 DEF IInv, Types, Ins
    <3>4. CASE r.list = <<>>
      BY <3>1, <3>3, <3>4 DEF NextIn, HeadTaken
    <3>5. CASE r.list # <<>>
      <4>1. Head(r.list) \in Items
        <5>1. r.list \in Seq(Items)
          BY <3>3 DEF Ins
        <5>2. QED
          BY <3>5, <5>1
      <4>2. Head(r.list).len \in Lens
        BY <4>1 DEF Items
      <4>3. Head(r.list).len \in Nat /\ HeaderSize \in Nat \ {0}
        BY <4>2, LensAreNat
      <4>4. Left(r) >= 0 /\ Left(r) # 0
        <5>1. r.pos = 0
          BY <3>3
        <5>2. QED
          BY <4>3, <5>1 DEF Left
      <4>5. in' = StartIn(r)
        BY <3>1, <3>5 DEF NextIn
      <4>6. in'.list = r.list /\ in'.ep # NULL
        BY <3>3, <3>5, <4>4, <4>5, StartInAs
      <4>7. QED
        BY <3>3, <4>6 DEF HeadTaken
    <3>6. QED
      BY <3>4, <3>5
  <2>4. QED
    BY <2>1, <2>2, <2>3
<1>5. CASE CompletionIsr
  <2>1. connected /\ UNCHANGED <<connected, host>>
    BY <1>5 DEF CompletionIsr, IInv, Apart
  <2>2. CASE ~in.done
    BY <1>5, <2>1, <2>2 DEF CompletionIsr, HeadTaken, Left
  <2>3. CASE in.done
    <3> DEFINE r == [in EXCEPT !.done = FALSE]
    <3>1. in.list # <<>> /\ Left(in) >= 0 /\ in.ep = NULL
      BY <2>1, <2>3 DEF IInv, InState, Sends
    <3>2. in' = StartIn(r)
      BY <1>5, <2>3, <3>1 DEF CompletionIsr
    <3>3. r = [list |-> in.list, pos |-> in.pos, ep |-> NULL, done |-> FALSE] /\ r \in Ins
      <4>1. r = [list |-> in.list, pos |-> in.pos, ep |-> in.ep, done |-> FALSE]
        BY InRestarted DEF IInv, Types
      <4>2. QED
        BY <3>1, <4>1 DEF IInv, Types, Ins
    <3> HIDE DEF r
    <3>4. Left(r) = Left(in) /\ r.list = in.list /\ r.ep = NULL
      BY <3>3 DEF Left
    <3>5. in'.list = in.list /\ (HeadTaken' <=> HeadTaken)
      BY <3>1, <3>2, <3>3, <3>4, StartInAs DEF HeadTaken
    <3>6. QED
      BY <2>1, <3>5
  <2>4. QED
    BY <2>2, <2>3
<1>6. CASE HostIn
  <2>1. /\ connected /\ connected' = connected /\ in.ep # NULL /\ ~in.done
        /\ in' = [in EXCEPT !.ep = NULL, !.done = TRUE]
    BY <1>6 DEF HostIn
  <2>2. in.list # <<>> /\ Sends
    BY <2>1 DEF IInv, InState
  <2>3. in'.list = in.list /\ in'.ep = NULL /\ in'.pos = in.pos
    BY <2>1 DEF IInv, Types, Ins
  <2>4. ChanNow = in.list /\ (HeadTaken' <=> in.ep.last)
    BY <2>1, <2>2, <2>3 DEF HeadTaken, Left, Sends
  <2>5. CASE ~in.ep.last
    <3>1. host' = [host EXCEPT !.bytes = host.bytes + in.ep.size]
      BY <1>6, <2>5 DEF HostIn
    <3>2. host'.received = host.received
      BY <3>1 DEF IInv, Types
    <3>3. QED
      BY <2>1, <2>3, <2>4, <2>5, <3>2
  <2>6. CASE in.ep.last
    <3>1. host' = [host EXCEPT !.bytes = 0, !.received =
                    [id |-> in.ep.id, len |-> (host.bytes + in.ep.size) - HeaderSize]]
      BY <1>6, <2>6 DEF HostIn
    <3>2. host'.received = [id |-> in.ep.id, len |-> (host.bytes + in.ep.size) - HeaderSize]
      BY <3>1 DEF IInv, Types
    <3>3. Head(in.list) \in Items /\ in.pos \in Nat
      BY <2>2 DEF IInv, Types, Ins
    <3>4. Head(in.list).len \in Lens
      BY <3>3 DEF Items
    <3>5. Head(in.list).len \in Nat /\ HeaderSize \in Nat
      BY <3>4, LensAreNat
    <3>6. in.ep.id = Head(in.list).id /\ (host.bytes + in.ep.size) - HeaderSize = Head(in.list).len
      BY <2>2, <2>6, <3>3, <3>5 DEF Sends, Left
    <3>7. host'.received = Head(in.list)
      BY <3>2, <3>3, <3>6 DEF Items
    <3>8. Channel!Receive
      BY <2>1, <2>2, <2>3, <2>4, <2>6, <3>7 DEF Channel!Receive
    <3>9. QED
      BY <3>8 DEF Channel!Next
  <2>7. QED
    BY <2>5, <2>6
<1>7. CASE SetInterfaceOff \/ SetInterfaceOn
  <2>1. host'.received = NULL
    BY <1>7 DEF SetInterfaceOff, SetInterfaceOn, HostReset
  <2>2. ChanNow' = <<>>
    <3>1. CASE SetInterfaceOff
      BY <3>1 DEF SetInterfaceOff
    <3>2. CASE SetInterfaceOn
      <4>1. in' = [in EXCEPT !.ep = NULL] /\ in.list = <<>>
        BY <3>2 DEF SetInterfaceOn, IInv, Apart, Pending, Has
      <4>2. in'.list = <<>>
        BY <4>1 DEF IInv, Types, Ins
      <4>3. QED
        BY <4>2 DEF HeadTaken
    <3>3. QED
      BY <1>7, <3>1, <3>2
  <2>3. Channel!Drop
    BY <2>1, <2>2 DEF Channel!Drop
  <2>4. QED
    BY <2>3 DEF Channel!Next
<1>8. QED
  BY <1>1, <1>2, <1>3, <1>4, <1>5, <1>6, <1>7 DEF Next, Main

(* For every size of packet, block and message the host receives, in each  *)
(* connection, the messages that were sent, whole, once and in order.      *)
THEOREM InImplementsChannel ==
  ASSUME HostWaits, EnableFlushes
  PROVE  Spec => InIsChannel
<1>1. Init => Channel!Init
  BY DEF Init, Channel!Init, HostReset
<1>2. Init => IInv
  BY InitIInv
<1>3. IInv /\ [Next]_vars => IInv'
  BY IInvStep
<1>4. IInv /\ IInv' /\ [Next]_vars => [Channel!Next]_<<ChanNow, host.received>>
  BY StepsAreChannel DEF Steps
<1>5. QED
  BY <1>1, <1>2, <1>3, <1>4, PTL DEF Spec, InIsChannel, Channel!Spec, ChanNow
=============================================================================
