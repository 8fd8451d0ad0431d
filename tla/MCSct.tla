--------------------------------- MODULE MCSct ---------------------------------
(* Four calls of two scripts; animations of one frame, of one pixel, of    *)
(* less than a frame, and of three frames, so that a later frame begins in *)
(* each buffer.                                                            *)
EXTENDS Sct

Shapes == {<<2, 1>>, <<1, 2>>, <<2, 0>>, <<3, 3>>}
AnimationsMC == {[length |-> s[1], frames |-> s[2]] : s \in Shapes}
=============================================================================
