------------------------------ MODULE MCUsbMsg ------------------------------
(* Sizes scaled down: a 1 byte header, packets of 3, blocks of 6.          *)
EXTENDS UsbMsg

Shape(tag, len, total) == [tag |-> tag, len |-> len, total |-> total]

(* One packet, exactly one packet (a zero length packet follows), several  *)
(* packets, a whole block and its zero length packet, two blocks; a host   *)
(* that gives up before the header, in the first packet, after a block;    *)
(* and one that breaks the framing: a first packet short of a message that *)
(* announces more, a message longer than announced, in its first packet    *)
(* and in the transfer of the rest.                                        *)
MCHostShapes ==
  {Shape("command", l, l + 1) : l \in {0, 2, 8, 9}}
    \union {Shape("echo", 5, 6), Shape("other", 1, 2)}
    \union {Shape("command", 0, 0), Shape("command", 1, 1), Shape("command", 10, 9)}
    \union {Shape("command", 4, 2), Shape("command", 0, 2), Shape("command", 5, 7)}

(* Under a block, exactly a block, and over it. *)
MCSendLens == {0, 5, 7}
=============================================================================
