------------------------------- MODULE MCSpiDma -------------------------------
EXTENDS SpiDma

Req(len, chunk, repeat, rx, faults) ==
  [len |-> len, chunk |-> chunk, repeat |-> repeat, rx |-> rx, faults |-> faults]

(* Chunks below and above the size of a packet, with and without a batch,  *)
(* and single chunks that fail or are abandoned.                           *)
MCRequests ==
  {Req(4, 2, 2, TRUE, FALSE), Req(4, 4, 2, TRUE, FALSE), Req(5, 5, 1, FALSE, FALSE),
   Req(8, 4, 1, TRUE, FALSE), Req(2, 2, 1, FALSE, TRUE), Req(5, 5, 1, FALSE, TRUE)}

MCFullPackets == {Req(3, 3, 1, FALSE, FALSE)}
=============================================================================
