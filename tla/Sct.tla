---------------------------------- MODULE Sct ----------------------------------
(***************************************************************************)
(* The state configurable timer and its three users: reading a pulse       *)
(* (src/src/hw/hw_readpulse.c), LED animations (src/src/addons/neopixel.c) *)
(* and PWM (src/src/hw/hw_pwm.c), of which the first two own it by turns,  *)
(* answer a script from an event of the main loop and are reset when a     *)
(* script ends.  An animation is counted in pixels, three bytes each; a    *)
(* pixel is its place in the animation's data.                             *)
(***************************************************************************)
EXTENDS Integers, Sequences

CONSTANTS
  Animations,  (* pixels in a frame and whole frames in the data, as       *)
               (* scripts give them; the data may be shorter than a frame  *)
  MaxOut,      (* bound: pixels sent by a timer that does not halt         *)
  MaxCalls,    (* bound: calls of the scripts                              *)
  MaxScripts,  (* bound: scripts                                           *)
  NULL

ASSUME SctAssumption ==
  /\ Animations \subseteq [length : Nat \ {0}, frames : Nat]
  /\ {MaxOut, MaxCalls, MaxScripts} \subseteq Nat

Users == {"READPULSE", "NEOPIXEL"}

(* What is known of an animation, see anim below.                          *)
AnimStates ==
  [length : Nat \ {0}, frames : Nat, done : Nat, sent : Nat, next : Nat,
   buf : [{0, 1} -> Nat], aux : {0, 1}, out : Seq(Nat)]
ASSUME NullAssumption == NULL \notin AnimStates \union Users

VARIABLES
  owner,    (* hw_sct_status                                               *)
  sct,      (* the timer: what it does, whether it halts after this pixel, *)
            (* and whether an event asks for the handler                   *)
  nvic,     (* the timer's interrupt is enabled                            *)
  pending,  (* the completion events that are pending                      *)
  current,  (* the completion event whose callback begins                  *)
  anim,     (* the animation: its data, framesSent, bytesSent and          *)
            (* bytesPending in pixels, the double buffer, the output AUX   *)
            (* that selects from it, and the pixels sent                   *)
  script,   (* the number of the running script, and of the last one       *)
  waiting,  (* the completions the script waits for                        *)
  calls,
  slips     (* history: orders of calls the code has no answer for, and    *)
            (* what came of them                                           *)

vars == <<owner, sct, nvic, pending, current, anim, script, waiting, calls, slips>>

Idle == [doing |-> "nothing", halt |-> FALSE, flag |-> FALSE]
Note(slip, cond) == IF cond THEN {slip} ELSE {}

Init ==
  /\ owner = "INACTIVE" /\ sct = Idle /\ nvic = FALSE
  /\ pending = {} /\ current = NULL /\ anim = NULL
  /\ script = [now |-> 1, last |-> 1] /\ waiting = {} /\ calls = 0 /\ slips = {}

-----------------------------------------------------------------------------
(* The script's calls.  An owned timer is refused.                         *)

Call ==
  /\ current = NULL /\ script.now # 0 /\ calls < MaxCalls
  /\ calls' = calls + 1
  /\ UNCHANGED <<pending, current, script>>

(* sct_read_pulse.                                                         *)
ReadPulse ==
  /\ Call /\ owner = "INACTIVE"
  /\ owner' = "READPULSE"
  /\ sct' = [Idle EXCEPT !.doing = "timing"]
  /\ nvic' = TRUE
  /\ waiting' = waiting \union {"READPULSE"}
  /\ UNCHANGED <<anim, slips>>

(* LEDDRIVER_writeNextRGBValue writes to the buffer AUX does not select,   *)
(* and knows no end of the frame.                                          *)
Written(a) ==
  [a EXCEPT !.buf[1 - a.aux] = a.done * a.length + a.next, !.next = @ + 1]

(* beginAnimation fills both buffers.                                      *)
Begun(a) ==
  LET first == Written([length |-> a.length, frames |-> a.frames, done |-> 0, sent |-> 0,
                        next |-> 0, buf |-> [x \in {0, 1} |-> 0], aux |-> 1, out |-> <<>>])
  IN Written([first EXCEPT !.aux = 0])

(* writeAnimationBuffers.  The orders that have no answer: the timer does  *)
(* not halt after frames of one pixel, nor without a whole frame, when the *)
(* pixels that go out are what lies behind the data.                       *)
Begins(a) ==
  /\ sct' = [Idle EXCEPT !.doing = "pixels"]
  /\ nvic' = TRUE
  /\ anim' = Begun(a)
Odd(a) == Note("frames_of_one_pixel", a.length = 1) \union Note("no_whole_frame", a.frames = 0)

(* l_neopixel_animation_buffer.  The mutated form does not look whether    *)
(* the timer is free.                                                      *)
AnimateOwned(a) ==
  /\ Call
  /\ owner' = "NEOPIXEL"
  /\ Begins(a)
  /\ waiting' = waiting \union {"NEOPIXEL"}
  /\ slips' = slips \union Odd(a)
Animate(a) ==
  /\ Call /\ owner = "INACTIVE"
  /\ owner' = "NEOPIXEL"
  /\ Begins(a)
  /\ waiting' = waiting \union {"NEOPIXEL"}
  /\ slips' = slips \union Odd(a)

(* The same without pixels or without data: the timer is taken (l_hw.c:785)*)
(* and the animation is never set up (:798), but its uninitialised pointer *)
(* is followed.  Either nothing is found there, and the -1 of              *)
(* writeAnimationBuffers is ignored (:824): the timer was reset and the    *)
(* script waits.  Or what lies on the stack is taken for an animation.     *)
AnimateNothing ==
  /\ Call /\ owner = "INACTIVE"
  /\ owner' = "NEOPIXEL"
  /\ \/ sct' = Idle /\ UNCHANGED <<nvic, anim>>
     \/ \E a \in Animations : Begins(a)
  /\ waiting' = waiting \union {"NEOPIXEL"}
  /\ slips' = slips \union {"nothing_to_animate"}

(* hw_pwm_port_period halts the timer and sets it up anew, whoever owns it *)
(* and without owning it.                                                  *)
Pwm ==
  /\ Call
  /\ sct' = [sct EXCEPT !.doing = "pwm", !.halt = FALSE]
  /\ slips' = slips \union Note("pwm_while_owned", owner # "INACTIVE")
  /\ UNCHANGED <<owner, nvic, anim, waiting>>

-----------------------------------------------------------------------------
(* The timer.                                                              *)

Timer(s) ==
  /\ sct' = s
  /\ UNCHANGED <<owner, nvic, pending, current, script, waiting, calls, slips>>

(* A pulse starts or the timeout ends the wait for it; once it has started *)
(* only its end ends it.                                                   *)
PulseStarts ==
  sct.doing = "timing" /\ Timer([sct EXCEPT !.doing = "active"]) /\ UNCHANGED anim
PulseTimesOut ==
  /\ sct.doing = "timing"
  /\ Timer([Idle EXCEPT !.flag = TRUE]) /\ UNCHANGED anim
PulseEnds ==
  /\ sct.doing = "active"
  /\ Timer([Idle EXCEPT !.flag = TRUE]) /\ UNCHANGED anim

(* COMPLETE_FRAME_EVENT: the selected pixel is out, AUX toggles.  The      *)
(* handler is served within the 30 us of the next pixel.                   *)
PixelOut ==
  /\ sct.doing = "pixels" /\ ~sct.flag /\ Len(anim.out) < MaxOut
  /\ anim' = [anim EXCEPT !.out = Append(@, anim.buf[anim.aux]), !.aux = 1 - @]
  /\ Timer([sct EXCEPT !.flag = TRUE, !.doing = IF sct.halt THEN "nothing" ELSE @])

(* What is left of an owner's events may still happen under PWM.           *)
PwmEvent ==
  /\ sct.doing = "pwm" /\ owner # "INACTIVE" /\ ~sct.flag
  /\ Timer([sct EXCEPT !.flag = TRUE]) /\ UNCHANGED anim

-----------------------------------------------------------------------------
(* The handlers, which the owner selects.                                  *)

SctReadPulseIrq ==
  /\ nvic /\ sct.flag /\ owner = "READPULSE"
  /\ sct' = [sct EXCEPT !.flag = FALSE]
  /\ pending' = pending \union {"READPULSE"}
  /\ UNCHANGED <<owner, nvic, current, anim, script, waiting, calls, slips>>

(* updateChannelAnimation: a pixel is written; one before the last the     *)
(* timer is told to halt; behind the last the next frame is begun.  After  *)
(* the last frame only bytesSent counts on, which nobody reads again.  The *)
(* mutated form never halts the timer.                                     *)
HaltsNever(a) == FALSE
HaltsNext(a) == a.length - a.sent = 1

SctNeopixelIrq ==
  LET a == [anim EXCEPT !.sent = @ + 1]
      w == Written(a)
      f == [w EXCEPT !.done = @ + 1, !.sent = 0, !.next = 0]
      over == a.done >= a.frames
      last == ~over /\ a.sent = a.length
  IN /\ nvic /\ sct.flag /\ owner = "NEOPIXEL"
     /\ \/ /\ over
           /\ sct' = [sct EXCEPT !.flag = FALSE] /\ UNCHANGED anim
           /\ pending' = pending \union {"NEOPIXEL"}
        \/ /\ ~over /\ ~last
           /\ anim' = w /\ sct' = [sct EXCEPT !.flag = FALSE, !.halt = @ \/ HaltsNext(a)]
           /\ UNCHANGED pending
        \/ /\ last /\ f.done = a.frames
           /\ anim' = f /\ sct' = [sct EXCEPT !.flag = FALSE]
           /\ pending' = pending \union {"NEOPIXEL"}
        \/ /\ last /\ f.done < a.frames
           /\ anim' = Written(f)
           /\ sct' = [doing |-> IF sct.doing = "pwm" THEN "pwm" ELSE "pixels",
                      halt |-> FALSE, flag |-> FALSE]
           /\ UNCHANGED pending
     /\ UNCHANGED <<owner, nvic, current, script, waiting, calls, slips>>

-----------------------------------------------------------------------------
(* The completion events.                                                  *)

(* neopixel_reset_animation and sct_read_pulse_reset: neither looks whose  *)
(* the timer is.  Mutated forms leave the interrupt enabled, or the timer  *)
(* owned.                                                                  *)
ResetSctInterrupting ==
  /\ owner' = "INACTIVE"
  /\ sct' = [Idle EXCEPT !.flag = sct.flag]
  /\ UNCHANGED nvic
ResetSctOwned ==
  /\ owner' = owner
  /\ sct' = Idle
  /\ nvic' = FALSE
ResetSct ==
  /\ owner' = "INACTIVE"
  /\ sct' = Idle
  /\ nvic' = FALSE

TakeCompletion(e) ==
  /\ current = NULL /\ e \in pending
  /\ current' = e /\ pending' = pending \ {e}
  /\ UNCHANGED <<owner, sct, nvic, anim, script, waiting, calls, slips>>

(* What has been done of the animation, or of the pulse, of the script.    *)
Finished(e) ==
  owner = e /\ (e = "NEOPIXEL" => anim # NULL /\ anim.done = anim.frames)

(* An animation without frames is not freed (neopixel.c:314).              *)
Freed == IF anim # NULL /\ anim.frames = 0 THEN anim ELSE NULL

Complete ==
  /\ current # NULL
  /\ ResetSct
  /\ anim' = IF current = "NEOPIXEL" /\ script.now # 0 THEN Freed ELSE anim
  /\ waiting' = waiting \ {current}
  /\ slips' = slips
       \union Note("answered_early", current \in waiting /\ ~Finished(current))
       \union Note("timer_of_another_reset", owner \notin {"INACTIVE", current})
  /\ current' = NULL
  /\ UNCHANGED <<pending, script, calls>>

(* The end of a script resets both users; their events stay pending.       *)
EndScript ==
  /\ current = NULL /\ script.now # 0
  /\ script' = [script EXCEPT !.now = 0]
  /\ ResetSct
  /\ anim' = Freed /\ waiting' = {}
  /\ slips' = slips \union Note("completion_outlives_script", pending # {})
  /\ UNCHANGED <<pending, current, calls>>

StartScript ==
  /\ current = NULL /\ script.now = 0 /\ script.last < MaxScripts
  /\ script' = [now |-> script.last + 1, last |-> script.last + 1]
  /\ UNCHANGED <<owner, sct, nvic, pending, current, anim, waiting, calls, slips>>

-----------------------------------------------------------------------------
Main == Complete \/ \E e \in Users : TakeCompletion(e)
Irq == SctReadPulseIrq \/ SctNeopixelIrq
Next ==
  \/ ReadPulse \/ Pwm \/ AnimateNothing \/ \E a \in Animations : Animate(a)
  \/ PulseStarts \/ PulseTimesOut \/ PulseEnds \/ PixelOut \/ PwmEvent
  \/ Irq \/ Main \/ EndScript \/ StartScript

Spec == Init /\ [][Next]_vars

(* The main loop and the handlers run and the timer counts.  A pulse that  *)
(* has started is assumed to end: the code has no timeout for it.          *)
FairSpec ==
  /\ Spec
  /\ WF_vars(Main) /\ WF_vars(Irq) /\ WF_vars(PixelOut)
  /\ WF_vars(PulseTimesOut) /\ WF_vars(PulseEnds)

-----------------------------------------------------------------------------
(* The variables have their types.                                         *)
TypeOK ==
  /\ owner \in {"INACTIVE"} \union Users
  /\ sct \in [doing : {"nothing", "timing", "active", "pixels", "pwm"},
              halt : BOOLEAN, flag : BOOLEAN]
  /\ nvic \in BOOLEAN /\ pending \subseteq Users /\ current \in {NULL} \union Users
  /\ anim \in {NULL} \union AnimStates

(* The timer's interrupt is enabled only while it has an owner, whose      *)
(* handler knows the events the timer was set up for and finds what it     *)
(* works on: otherwise nobody would clear the flag and the interrupt would *)
(* come for ever.  No release or reset in any order breaks that.           *)
InterruptHasHandler ==
  nvic => \/ owner = "READPULSE" /\ sct.doing \in {"nothing", "timing", "active", "pwm"}
          \/ owner = "NEOPIXEL" /\ anim # NULL /\ sct.doing \in {"nothing", "pixels", "pwm"}

(* Of the first frame the right pixels go out; of the later ones each      *)
(* pixel or the one before it; and no more pixels than the animation has,  *)
(* unless its frames are of one pixel, or its data is shorter than one     *)
(* frame, for which the timer does not halt.                               *)
Halting(a) == a.length > 1 /\ a.frames > 0
PixelsInOrder ==
  anim # NULL /\ Halting(anim) /\ sct.doing # "pwm" =>
    /\ \A i \in 1..Len(anim.out) :
         \/ anim.out[i] = i - 1
         \/ anim.out[i] = i - 2 /\ i > anim.length
    /\ Len(anim.out) <= anim.length * anim.frames

(* A script is told that its animation or its pulse is complete only when  *)
(* it is, and the timer is not taken from its owner, unless a completion   *)
(* came in the last moments of the script before, frames have one pixel or *)
(* the data none, there was nothing to animate, or PWM was started.        *)
Excuses ==
  {"completion_outlives_script", "pwm_while_owned", "frames_of_one_pixel", "no_whole_frame",
   "nothing_to_animate"}
AnsweredInTime ==
  slips \cap {"answered_early", "timer_of_another_reset"} # {} => slips \cap Excuses # {}

(* A script that waits gets its answer or ends, and the timer is free      *)
(* again, unless PWM or a late completion stopped the timer or a script    *)
(* asked for an animation of nothing.                                      *)
TimerReleased ==
  (owner # "INACTIVE") ~> \/ owner = "INACTIVE" /\ waiting = {}
                          \/ slips \cap {"pwm_while_owned", "timer_of_another_reset",
                                          "nothing_to_animate"} # {}

(* What the comments say, and the code does not do: an animation continues *)
(* with its next frame, which then goes out as it is.                      *)
FramesShown ==
  anim # NULL /\ Halting(anim) /\ sct.doing # "pwm" =>
    \A i \in 1..Len(anim.out) : i <= anim.length * anim.frames => anim.out[i] = i - 1
=============================================================================
