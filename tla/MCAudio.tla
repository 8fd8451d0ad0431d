-------------------------------- MODULE MCAudio --------------------------------
(* Four calls of at most two scripts, with buffers of no, one and two      *)
(* chunks: a queue of three, and a stop, a pause or a recording among them. *)
EXTENDS Audio
=============================================================================
