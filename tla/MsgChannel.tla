----------------------------- MODULE MsgChannel -----------------------------
(***************************************************************************)
(* What the IN direction of the USB message interface promises: a FIFO of  *)
(* whole messages.  The host receives the messages the firmware sent in    *)
(* this connection, in order, none twice and none in part.  Dropping the   *)
(* connection discards what the host has not received.                     *)
(***************************************************************************)
EXTENDS Sequences

CONSTANTS
  Messages,  (* the messages the firmware may send                         *)
  NoMessage  (* the host has received nothing in this connection           *)

VARIABLES
  chan,      (* the messages sent and not yet received, oldest first       *)
  received   (* the last message the host received                         *)

Init == chan = <<>> /\ received = NoMessage

Send(m) == chan' = Append(chan, m) /\ UNCHANGED received

Receive ==
  /\ chan # <<>>
  /\ received' = Head(chan)
  /\ chan' = Tail(chan)

Drop == chan' = <<>> /\ received' = NoMessage

Next == Receive \/ Drop \/ \E m \in Messages : Send(m)

Spec == Init /\ [][Next]_<<chan, received>>
=============================================================================
