------------------------------- MODULE ByteRing -------------------------------
(***************************************************************************)
(* The byte ring of the UARTs (src/src/hw/hw_uart.c): the writer moves     *)
(* head, the reader moves tail, and one slot stays empty so that a full    *)
(* ring is told from an empty one.  The code masks with Size - 1.          *)
(***************************************************************************)
EXTENDS Integers, Sequences

CONSTANT Size   (* UART_RING_BUFSIZE, 2048 in the code *)

ASSUME RingSizeAssumption == Size \in Nat /\ Size >= 2

Index == 0..(Size - 1)

Incr(i) == IF i + 1 = Size THEN 0 ELSE i + 1

IsEmpty(r) == r.head = r.tail
IsFull(r) == r.tail = Incr(r.head)

(* hw_uart_rx_available: (head - tail) & mask.  Beside it a mutated form,  *)
(* the difference that is not masked.                                      *)
CountNoWrap(r) == IF r.tail <= r.head THEN r.head - r.tail ELSE 0
Count(r) == IF r.tail <= r.head THEN r.head - r.tail ELSE r.head - r.tail + Size

Put(r, b) == [head |-> Incr(r.head), tail |-> r.tail, slot |-> [r.slot EXCEPT ![r.head] = b]]
First(r) == r.slot[r.tail]
Take(r) == [r EXCEPT !.tail = Incr(@)]

Rings(Bytes) == [head : Index, tail : Index, slot : [Index -> Bytes]]

(* The bytes of the ring, oldest first.                                    *)
At(r, i) == r.slot[IF r.tail + i - 1 < Size THEN r.tail + i - 1 ELSE r.tail + i - 1 - Size]
Contents(r) == [i \in 1..Count(r) |-> At(r, i)]
=============================================================================
