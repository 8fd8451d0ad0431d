------------------------------- MODULE MCUptime -------------------------------
(* A counter of four values that wraps twice, two timers with delays of no *)
(* tick to almost its range, and the clock used twice.                     *)
EXTENDS Uptime
=============================================================================
