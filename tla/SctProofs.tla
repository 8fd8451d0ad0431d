------------------------------- MODULE SctProofs -------------------------------
(***************************************************************************)
(* Theorems about the state configurable timer: its interrupt always has a *)
(* handler, the pixels go out in order for every length of frame above one *)
(* pixel and every number of frames, and answers are given in time.        *)
(***************************************************************************)
EXTENDS Sct, SequenceTheorems, TLAPS

-----------------------------------------------------------------------------
(* Types.                                                                  *)

(* A pixel is written to the buffer that AUX does not select.              *)
LEMMA WrittenAs ==
  ASSUME NEW a \in AnimStates
  PROVE  /\ Written(a) \in AnimStates
         /\ Written(a).length = a.length /\ Written(a).frames = a.frames
         /\ Written(a).done = a.done /\ Written(a).sent = a.sent
         /\ Written(a).aux = a.aux /\ Written(a).out = a.out
         /\ Written(a).next = a.next + 1
         /\ Written(a).buf[a.aux] = a.buf[a.aux]
         /\ Written(a).buf[1 - a.aux] = a.done * a.length + a.next
<1> DEFINE p == a.done * a.length + a.next
           b == [a.buf EXCEPT ![1 - a.aux] = p]
<1>1. p \in Nat
  <2>1. a.done \in Nat /\ a.length \in Nat /\ a.next \in Nat
    BY DEF AnimStates
  <2>2. a.done * a.length \in Nat
    BY <2>1
  <2>3. QED
    BY <2>1, <2>2
<1>2. Written(a) = [a EXCEPT !.buf = b, !.next = a.next + 1]
  BY DEF Written
<1>3. a.aux \in {0, 1} /\ a.buf \in [{0, 1} -> Nat]
  BY DEF AnimStates
<1> HIDE DEF p
<1>4. b \in [{0, 1} -> Nat] /\ b[a.aux] = a.buf[a.aux] /\ b[1 - a.aux] = p
  BY <1>1, <1>3
<1> HIDE DEF b
<1>5. Written(a) = [length |-> a.length, frames |-> a.frames, done |-> a.done, sent |-> a.sent,
                    next |-> a.next + 1, buf |-> b, aux |-> a.aux, out |-> a.out]
  BY <1>2, <1>4 DEF AnimStates
<1>6. QED
  BY <1>4, <1>5 DEF AnimStates, p

LEMMA BegunAs ==
  ASSUME NEW a \in Animations
  PROVE  /\ Begun(a) \in AnimStates
         /\ Begun(a).length = a.length /\ Begun(a).frames = a.frames
         /\ Begun(a).done = 0 /\ Begun(a).sent = 0 /\ Begun(a).next = 2
         /\ Begun(a).aux = 0 /\ Begun(a).out = <<>>
         /\ Begun(a).buf[0] = 0 /\ Begun(a).buf[1] = 1
<1> DEFINE z == [length |-> a.length, frames |-> a.frames, done |-> 0, sent |-> 0,
                 next |-> 0, buf |-> [x \in {0, 1} |-> 0], aux |-> 1, out |-> <<>>]
           w == Written(z)
           v == [w EXCEPT !.aux = 0]
<1>1. a.length \in Nat \ {0} /\ a.frames \in Nat
  BY SctAssumption
<1>2. z \in AnimStates
  BY <1>1 DEF AnimStates
<1>3. /\ z.length = a.length /\ z.frames = a.frames /\ z.done = 0 /\ z.sent = 0
      /\ z.next = 0 /\ z.aux = 1 /\ z.out = <<>>
  OBVIOUS
<1> HIDE DEF z
<1>4. /\ w \in AnimStates /\ w.length = a.length /\ w.frames = a.frames
      /\ w.done = 0 /\ w.sent = 0 /\ w.next = 1 /\ w.out = <<>> /\ w.buf[0] = 0
  <2>1. 1 - z.aux = 0 /\ z.done * z.length + z.next = 0
    BY <1>1, <1>3
  <2>2. QED
    BY <1>2, <1>3, <2>1, WrittenAs
<1> HIDE DEF w
<1>5. /\ v \in AnimStates /\ v.length = a.length /\ v.frames = a.frames
      /\ v.done = 0 /\ v.sent = 0 /\ v.next = 1 /\ v.out = <<>> /\ v.aux = 0 /\ v.buf = w.buf
  BY <1>4 DEF AnimStates
<1> HIDE DEF v
<1>6. v.done * v.length + v.next = 1
  BY <1>1, <1>5
<1>7. Begun(a) = Written(v)
  BY DEF Begun, v, w, z
<1>8. QED
  BY <1>4, <1>5, <1>6, <1>7, WrittenAs

LEMMA PixelCounted ==
  ASSUME NEW a \in AnimStates
  PROVE  [a EXCEPT !.sent = @ + 1] =
           [length |-> a.length, frames |-> a.frames, done |-> a.done, sent |-> a.sent + 1,
            next |-> a.next, buf |-> a.buf, aux |-> a.aux, out |-> a.out]
  BY DEF AnimStates

LEMMA FrameCounted ==
  ASSUME NEW a \in AnimStates
  PROVE  [a EXCEPT !.done = @ + 1, !.sent = 0, !.next = 0] =
           [length |-> a.length, frames |-> a.frames, done |-> a.done + 1, sent |-> 0,
            next |-> 0, buf |-> a.buf, aux |-> a.aux, out |-> a.out]
<1> DEFINE b == [a EXCEPT !.done = @ + 1]
           c == [b EXCEPT !.sent = 0]
<1>1. b = [length |-> a.length, frames |-> a.frames, done |-> a.done + 1, sent |-> a.sent,
           next |-> a.next, buf |-> a.buf, aux |-> a.aux, out |-> a.out]
  BY DEF AnimStates
<1> HIDE DEF b
<1>2. c = [length |-> a.length, frames |-> a.frames, done |-> a.done + 1, sent |-> 0,
           next |-> a.next, buf |-> a.buf, aux |-> a.aux, out |-> a.out]
  BY <1>1
<1> HIDE DEF c
<1>3. [a EXCEPT !.done = @ + 1, !.sent = 0, !.next = 0] = [c EXCEPT !.next = 0]
  BY DEF b, c
<1>4. QED
  BY <1>2, <1>3

(* A pixel that goes out.                                                  *)
LEMMA OutReplaced ==
  ASSUME NEW a \in AnimStates, NEW o, NEW x
  PROVE  [a EXCEPT !.out = o, !.aux = x] =
           [length |-> a.length, frames |-> a.frames, done |-> a.done, sent |-> a.sent,
            next |-> a.next, buf |-> a.buf, aux |-> x, out |-> o]
<1> DEFINE b == [a EXCEPT !.out = o]
<1>1. b = [length |-> a.length, frames |-> a.frames, done |-> a.done, sent |-> a.sent,
           next |-> a.next, buf |-> a.buf, aux |-> a.aux, out |-> o]
  BY DEF AnimStates
<1> HIDE DEF b
<1>2. [b EXCEPT !.aux = x] =
        [length |-> a.length, frames |-> a.frames, done |-> a.done, sent |-> a.sent,
         next |-> a.next, buf |-> a.buf, aux |-> x, out |-> o]
  BY <1>1
<1>3. QED
  BY <1>2 DEF b

LEMMA PixelOutAs ==
  ASSUME NEW a \in AnimStates, NEW b,
         b = [a EXCEPT !.out = Append(@, a.buf[a.aux]), !.aux = 1 - @]
  PROVE  /\ b \in AnimStates
         /\ b.length = a.length /\ b.frames = a.frames /\ b.done = a.done
         /\ b.sent = a.sent /\ b.next = a.next /\ b.buf = a.buf
         /\ b.aux = 1 - a.aux /\ b.out = Append(a.out, a.buf[a.aux])
<1>1. a.aux \in {0, 1} /\ a.buf[a.aux] \in Nat /\ a.out \in Seq(Nat)
  BY DEF AnimStates
<1>2. Append(a.out, a.buf[a.aux]) \in Seq(Nat) /\ 1 - a.aux \in {0, 1}
  BY <1>1
<1>3. b = [length |-> a.length, frames |-> a.frames, done |-> a.done, sent |-> a.sent,
           next |-> a.next, buf |-> a.buf, aux |-> 1 - a.aux,
           out |-> Append(a.out, a.buf[a.aux])]
  BY <1>2, OutReplaced
<1>4. QED
  BY <1>2, <1>3 DEF AnimStates

(* The four outcomes of the handler of an animation: it was over before,   *)
(* it goes on in its frame, it ends, or it goes on with the next frame.    *)
Over ==
  /\ anim.done >= anim.frames
  /\ anim' = anim /\ sct' = [sct EXCEPT !.flag = FALSE]
  /\ pending' = pending \union {"NEOPIXEL"}
GoesOn ==
  /\ anim.done < anim.frames /\ anim.sent + 1 # anim.length
  /\ anim'.done = anim.done /\ anim'.sent = anim.sent + 1 /\ anim'.next = anim.next + 1
  /\ anim'.buf[1 - anim.aux] = anim.done * anim.length + anim.next
  /\ sct' = [sct EXCEPT !.flag = FALSE,
                        !.halt = (sct.halt \/ anim.length - (anim.sent + 1) = 1)]
  /\ pending' = pending
Ends ==
  /\ anim.done < anim.frames /\ anim.sent + 1 = anim.length
  /\ anim'.done = anim.done + 1 /\ anim'.done = anim.frames
  /\ sct' = [sct EXCEPT !.flag = FALSE]
  /\ pending' = pending \union {"NEOPIXEL"}
NextFrame ==
  /\ anim.sent + 1 = anim.length
  /\ anim'.done = anim.done + 1 /\ anim'.done < anim.frames
  /\ anim'.sent = 0 /\ anim'.next = 1
  /\ anim'.buf[1 - anim.aux] = (anim.done + 1) * anim.length
  /\ sct' = [doing |-> IF sct.doing = "pwm" THEN "pwm" ELSE "pixels",
             halt |-> FALSE, flag |-> FALSE]
  /\ pending' = pending

LEMMA IrqAs ==
  ASSUME TypeOK, anim # NULL, SctNeopixelIrq
  PROVE  /\ anim' \in AnimStates
         /\ anim'.length = anim.length /\ anim'.frames = anim.frames
         /\ anim'.aux = anim.aux /\ anim'.out = anim.out
         /\ anim'.buf[anim.aux] = anim.buf[anim.aux]
         /\ Over \/ GoesOn \/ Ends \/ NextFrame
<1> DEFINE a == [anim EXCEPT !.sent = @ + 1]
           w == Written(a)
           f == [w EXCEPT !.done = @ + 1, !.sent = 0, !.next = 0]
           g == Written(f)
<1>1. anim \in AnimStates
  BY DEF TypeOK
<1>2. anim.done \in Nat /\ anim.frames \in Nat /\ anim.length \in Nat /\ anim.sent \in Nat
  BY <1>1 DEF AnimStates
<1>3. /\ a \in AnimStates /\ a.length = anim.length /\ a.frames = anim.frames
      /\ a.done = anim.done /\ a.sent = anim.sent + 1 /\ a.next = anim.next
      /\ a.aux = anim.aux /\ a.out = anim.out /\ a.buf = anim.buf
  <2>1. a = [length |-> anim.length, frames |-> anim.frames, done |-> anim.done,
             sent |-> anim.sent + 1, next |-> anim.next, buf |-> anim.buf,
             aux |-> anim.aux, out |-> anim.out]
    BY <1>1, PixelCounted
  <2> HIDE DEF a
  <2>2. QED
    BY <1>1, <2>1 DEF AnimStates
<1>4. \/ /\ a.done >= a.frames
         /\ sct' = [sct EXCEPT !.flag = FALSE] /\ anim' = anim
         /\ pending' = pending \union {"NEOPIXEL"}
      \/ /\ ~(a.done >= a.frames) /\ a.sent # a.length
         /\ anim' = w
         /\ sct' = [sct EXCEPT !.flag = FALSE, !.halt = (sct.halt \/ a.length - a.sent = 1)]
         /\ pending' = pending
      \/ /\ ~(a.done >= a.frames) /\ a.sent = a.length
         /\ f.done = a.frames
         /\ anim' = f /\ sct' = [sct EXCEPT !.flag = FALSE]
         /\ pending' = pending \union {"NEOPIXEL"}
      \/ /\ ~(a.done >= a.frames) /\ a.sent = a.length
         /\ f.done < a.frames
         /\ anim' = g
         /\ sct' = [doing |-> IF sct.doing = "pwm" THEN "pwm" ELSE "pixels",
                    halt |-> FALSE, flag |-> FALSE]
         /\ pending' = pending
  BY Zenon DEF SctNeopixelIrq, HaltsNext
<1> HIDE DEF a
<1>5. /\ w \in AnimStates /\ w.length = a.length /\ w.frames = a.frames
      /\ w.done = a.done /\ w.sent = a.sent /\ w.aux = a.aux /\ w.out = a.out
      /\ w.next = a.next + 1 /\ w.buf[a.aux] = a.buf[a.aux]
      /\ w.buf[1 - a.aux] = a.done * a.length + a.next
  BY <1>3, WrittenAs
<1> HIDE DEF w
<1>6. /\ f \in AnimStates /\ f.length = w.length /\ f.frames = w.frames
      /\ f.done = w.done + 1 /\ f.sent = 0 /\ f.next = 0
      /\ f.aux = w.aux /\ f.out = w.out /\ f.buf = w.buf
  <2>1. w \in AnimStates
    BY <1>5
  <2>2. f = [length |-> w.length, frames |-> w.frames, done |-> w.done + 1,
             sent |-> 0, next |-> 0, buf |-> w.buf, aux |-> w.aux, out |-> w.out]
    BY <2>1, FrameCounted
  <2> HIDE DEF f
  <2>3. QED
    BY <2>1, <2>2 DEF AnimStates
<1> HIDE DEF f
<1>7. /\ g \in AnimStates /\ g.length = f.length /\ g.frames = f.frames
      /\ g.done = f.done /\ g.sent = f.sent /\ g.aux = f.aux /\ g.out = f.out
      /\ g.next = f.next + 1 /\ g.buf[f.aux] = f.buf[f.aux]
      /\ g.buf[1 - f.aux] = f.done * f.length + f.next
  BY <1>6, WrittenAs
<1> HIDE DEF g
<1>8. CASE a.done >= a.frames
  BY <1>1, <1>2, <1>3, <1>4, <1>8 DEF Over
<1>9. CASE ~(a.done >= a.frames) /\ a.sent # a.length
  <2>1. GoesOn
    BY <1>2, <1>3, <1>4, <1>5, <1>9 DEF GoesOn
  <2>2. anim' = w
    BY <1>4, <1>9
  <2>3. QED
    BY <1>3, <1>5, <2>1, <2>2
<1>10. CASE ~(a.done >= a.frames) /\ a.sent = a.length /\ f.done = a.frames
  <2>1. anim' = f
    BY <1>2, <1>3, <1>4, <1>10
  <2>2. Ends
    BY <1>2, <1>3, <1>4, <1>5, <1>6, <1>10, <2>1 DEF Ends
  <2>3. QED
    BY <1>3, <1>5, <1>6, <2>1, <2>2
<1>11. CASE ~(a.done >= a.frames) /\ a.sent = a.length /\ f.done < a.frames
  <2>1. anim' = g /\ pending' = pending
        /\ sct' = [doing |-> IF sct.doing = "pwm" THEN "pwm" ELSE "pixels",
                   halt |-> FALSE, flag |-> FALSE]
    BY <1>2, <1>3, <1>4, <1>11
  <2>2. f.done * f.length + f.next = (anim.done + 1) * anim.length
    BY <1>2, <1>3, <1>5, <1>6
  <2>3. NextFrame
    BY <1>3, <1>5, <1>6, <1>7, <1>11, <2>1, <2>2 DEF NextFrame
  <2>4. QED
    BY <1>3, <1>5, <1>6, <1>7, <2>1, <2>3
<1>12. f.done = a.frames \/ f.done < a.frames \/ a.done >= a.frames
  BY <1>2, <1>3, <1>5, <1>6
<1>13. QED
  BY <1>8, <1>9, <1>10, <1>11, <1>12

-----------------------------------------------------------------------------
(* The owner of the timer knows what the timer does.                       *)

Owned ==
  /\ owner = "INACTIVE" => ~nvic /\ sct.doing \in {"nothing", "pwm"}
  /\ owner = "READPULSE" => sct.doing \in {"nothing", "timing", "active", "pwm"}
  /\ owner = "NEOPIXEL" =>
       /\ sct.doing \in {"nothing", "pixels", "pwm"}
       /\ nvic => anim # NULL
       /\ sct.doing = "pixels" => nvic

LEMMA InitOwned == Init => TypeOK /\ Owned
<1> SUFFICES ASSUME Init PROVE TypeOK /\ Owned
  OBVIOUS
<1>1. nvic \in BOOLEAN /\ ~nvic
  BY Zenon DEF Init
<1>2. QED
  BY <1>1 DEF Init, TypeOK, Owned, Idle

LEMMA OwnedStep == TypeOK /\ Owned /\ [Next]_vars => TypeOK' /\ Owned'
<1> SUFFICES ASSUME TypeOK, Owned, [Next]_vars PROVE TypeOK' /\ Owned'
  OBVIOUS
<1> USE DEF TypeOK, Owned, Users
<1>1. CASE ReadPulse
  <2>1. /\ owner' = "READPULSE" /\ sct' = [doing |-> "timing", halt |-> FALSE, flag |-> FALSE]
        /\ UNCHANGED <<pending, current, anim>>
    BY <1>1 DEF ReadPulse, Call, Idle
  <2>2. nvic' \in BOOLEAN
    BY <1>1, Zenon DEF ReadPulse
  <2>3. QED
    BY <2>1, <2>2
<1>2. ASSUME (\E a \in Animations : Animate(a)) \/ AnimateNothing PROVE TypeOK' /\ Owned'
  <2>1. owner' = "NEOPIXEL" /\ owner = "INACTIVE" /\ UNCHANGED <<pending, current>>
    BY <1>2 DEF Animate, AnimateNothing, Call
  <2>2. ASSUME NEW a \in Animations, Begins(a) PROVE TypeOK' /\ Owned'
    <3>1. anim' \in AnimStates /\ anim' # NULL
      BY <2>2, BegunAs, NullAssumption DEF Begins
    <3>2. sct' = [doing |-> "pixels", halt |-> FALSE, flag |-> FALSE]
      BY <2>2 DEF Begins, Idle
    <3>3. nvic' \in BOOLEAN /\ nvic'
      BY <2>2, Zenon DEF Begins
    <3>4. QED
      BY <2>1, <3>1, <3>2, <3>3
  <2>3. CASE sct' = Idle /\ UNCHANGED <<nvic, anim>>
    BY <2>1, <2>3 DEF Idle
  <2>4. QED
    BY <1>2, <2>2, <2>3 DEF Animate, AnimateNothing
<1>3. CASE Pwm
  <2>1. /\ sct' = [sct EXCEPT !.doing = "pwm", !.halt = FALSE]
        /\ UNCHANGED <<owner, nvic, pending, current, anim>>
    BY <1>3 DEF Pwm, Call
  <2>2. sct' \in [doing : {"pwm"}, halt : BOOLEAN, flag : BOOLEAN]
    BY <2>1
  <2>3. QED
    BY <2>1, <2>2
<1>4. CASE PulseStarts \/ PulseTimesOut \/ PulseEnds \/ PwmEvent
  <2>1. /\ UNCHANGED <<owner, nvic, pending, current, anim>>
        /\ \/ sct' = [sct EXCEPT !.doing = "active"] /\ sct.doing = "timing"
           \/ sct' = [doing |-> "nothing", halt |-> FALSE, flag |-> TRUE]
           \/ sct' = [sct EXCEPT !.flag = TRUE]
    BY <1>4 DEF PulseStarts, PulseTimesOut, PulseEnds, PwmEvent, Timer, Idle
  <2>2. /\ sct' \in [doing : {"nothing", "timing", "active", "pixels", "pwm"},
                     halt : BOOLEAN, flag : BOOLEAN]
        /\ \/ sct'.doing = "active" /\ sct.doing = "timing"
           \/ sct'.doing \in {"nothing", sct.doing}
    <3>1. CASE sct' = [sct EXCEPT !.doing = "active"] /\ sct.doing = "timing"
      BY <3>1
    <3>2. CASE sct' = [doing |-> "nothing", halt |-> FALSE, flag |-> TRUE]
      BY <3>2
    <3>3. CASE sct' = [sct EXCEPT !.flag = TRUE]
      BY <3>3
    <3>4. QED
      BY <2>1, <3>1, <3>2, <3>3
  <2>3. QED
    BY <2>1, <2>2
<1>5. CASE PixelOut
  <2>1. anim \in AnimStates /\ owner = "NEOPIXEL"
    BY <1>5 DEF PixelOut
  <2>2. anim' \in AnimStates /\ anim' # NULL
    BY <1>5, <2>1, PixelOutAs, NullAssumption DEF PixelOut
  <2>3. /\ sct' \in [doing : {"nothing", "pixels"}, halt : BOOLEAN, flag : BOOLEAN]
        /\ UNCHANGED <<owner, nvic, pending, current>>
    BY <1>5 DEF PixelOut, Timer
  <2>4. nvic /\ nvic'
    BY <1>5, <2>1, Zenon DEF PixelOut, Timer
  <2>5. QED
    BY <2>1, <2>2, <2>3, <2>4
<1>6. CASE SctReadPulseIrq
  <2>1. /\ sct' = [sct EXCEPT !.flag = FALSE] /\ pending' = pending \union {"READPULSE"}
        /\ UNCHANGED <<owner, nvic, current, anim>>
    BY <1>6 DEF SctReadPulseIrq
  <2>2. /\ sct' \in [doing : {"nothing", "timing", "active", "pixels", "pwm"},
                     halt : BOOLEAN, flag : BOOLEAN]
        /\ sct'.doing = sct.doing
    BY <2>1
  <2>3. QED
    BY <2>1, <2>2
<1>7. CASE SctNeopixelIrq
  <2>1. owner = "NEOPIXEL" /\ nvic /\ anim # NULL
    BY <1>7 DEF SctNeopixelIrq
  <2>2. anim' \in AnimStates /\ anim' # NULL
    BY <1>7, <2>1, IrqAs, NullAssumption
  <2>3. Over \/ GoesOn \/ Ends \/ NextFrame
    BY <1>7, <2>1, IrqAs
  <2>4. sct' \in [doing : {"nothing", "pixels", "pwm"}, halt : BOOLEAN, flag : BOOLEAN]
    <3>1. sct \in [doing : {"nothing", "pixels", "pwm"}, halt : BOOLEAN, flag : BOOLEAN]
      BY <2>1
    <3>2. CASE Over \/ Ends
      BY <3>1, <3>2 DEF Over, Ends
    <3>3. CASE GoesOn
      <4> DEFINE h == (sct.halt \/ anim.length - (anim.sent + 1) = 1)
      <4>1. sct' = [sct EXCEPT !.flag = FALSE, !.halt = h]
        BY <3>3 DEF GoesOn
      <4>2. h \in BOOLEAN
        BY Zenon
      <4> HIDE DEF h
      <4>3. QED
        BY <3>1, <4>1, <4>2
    <3>4. CASE NextFrame
      BY <3>4 DEF NextFrame
    <3>5. QED
      BY <2>3, <3>2, <3>3, <3>4
  <2>5. pending' \subseteq Users
    BY <2>3 DEF Over, GoesOn, Ends, NextFrame
  <2>6. UNCHANGED <<owner, nvic, current>>
    BY <1>7 DEF SctNeopixelIrq
  <2>7. QED
    BY <2>1, <2>2, <2>4, <2>5, <2>6
<1>8. CASE Complete \/ EndScript
  <2>1. /\ owner' = "INACTIVE" /\ sct' = [doing |-> "nothing", halt |-> FALSE, flag |-> FALSE]
        /\ anim' \in {NULL, anim} /\ pending' = pending /\ current' \in {NULL, current}
    BY <1>8 DEF Complete, EndScript, Freed, ResetSct, Idle
  <2>2. nvic' \in BOOLEAN /\ ~nvic'
    BY <1>8, Zenon DEF Complete, EndScript, ResetSct
  <2>3. QED
    BY <2>1, <2>2
<1>9. ASSUME NEW e \in Users, TakeCompletion(e) PROVE TypeOK' /\ Owned'
  <2>1. /\ current' = e /\ pending' = pending \ {e}
        /\ UNCHANGED <<owner, sct, nvic, anim>>
    BY <1>9 DEF TakeCompletion
  <2>2. QED
    BY <2>1
<1>10. CASE StartScript \/ UNCHANGED vars
  <2>1. UNCHANGED <<owner, sct, nvic, pending, current, anim>>
    BY <1>10 DEF StartScript, vars
  <2>2. QED
    BY <2>1
<1>11. QED
  BY <1>1, <1>2, <1>3, <1>4, <1>5, <1>6, <1>7, <1>8, <1>9, <1>10 DEF Next, Irq, Main

(* The variables have their types, whatever scripts ask for.               *)
THEOREM TypeCorrect == Spec => []TypeOK
<1>1. Init => TypeOK /\ Owned
  BY InitOwned
<1>2. (TypeOK /\ Owned) /\ [Next]_vars => (TypeOK /\ Owned)'
  BY OwnedStep
<1>3. QED
  BY <1>1, <1>2, PTL DEF Spec

(* Whoever's turn it is and whatever is reset when, the timer's interrupt  *)
(* is enabled only for an owner whose handler knows what the timer does.   *)
THEOREM HandlerKnown == Spec => []InterruptHasHandler
<1>1. Init => TypeOK /\ Owned
  BY InitOwned
<1>2. (TypeOK /\ Owned) /\ [Next]_vars => (TypeOK /\ Owned)'
  BY OwnedStep
<1>3. TypeOK /\ Owned => InterruptHasHandler
  BY DEF TypeOK, Owned, Users, InterruptHasHandler
<1>4. QED
  BY <1>1, <1>2, <1>3, PTL DEF Spec

-----------------------------------------------------------------------------
(* The pixels.                                                             *)

(* Frames run on without a pause: the handler has written the first pixel  *)
(* of the next frame behind the last of this one before it begins the next *)
(* frame, with that pixel.  The first frame goes out right and every later *)
(* pixel one place late.                                                   *)
Place(i) == IF i <= anim.length + 1 THEN i - 1 ELSE i - 2

Long == anim # NULL /\ anim.length > 1 /\ anim.frames > 0

OutInOrder ==
  Long => /\ Len(anim.out) <= anim.length * anim.frames
          /\ \A i \in 1..Len(anim.out) : anim.out[i] = Place(i)

(* Where the handler is in an animation that is under way: the buffer that *)
(* goes out next holds the right pixel, and so does the other one when the *)
(* handler has been; the timer halts after the last pixel of a frame.      *)
UnderWay ==
  /\ anim.done < anim.frames /\ anim.sent < anim.length
  /\ Len(anim.out) = anim.done * anim.length + anim.sent + (IF sct.flag THEN 1 ELSE 0)
  /\ anim.next = anim.sent + (IF anim.done = 0 THEN 2 ELSE 1)
  /\ sct.halt <=> anim.sent = anim.length - 1
  /\ sct.doing = "nothing" <=> sct.flag /\ sct.halt
  /\ anim.buf[anim.aux] = Place(Len(anim.out) + 1)
  /\ ~sct.flag => anim.buf[1 - anim.aux] = Place(Len(anim.out) + 2)

Pipeline ==
  owner = "NEOPIXEL" /\ nvic /\ sct.doing # "pwm" /\ Long =>
    \/ UnderWay
    \/ anim.done = anim.frames /\ sct.doing = "nothing" /\ ~sct.flag

LEMMA FrameFits ==
  ASSUME NEW d \in Nat, NEW f \in Nat, NEW l \in Nat, d < f
  PROVE  /\ d * l \in Nat /\ d * l + l <= l * f /\ (d + 1) * l = d * l + l
         /\ d >= 1 => d * l >= l
<1>1. d * l \in Nat
  OBVIOUS
<1>2. (d + 1) * l = d * l + l
  BY SMTT(30)
<1>3. PICK k \in Nat : f = d + 1 + k
  <2>1. f - d - 1 \in Nat /\ f = d + 1 + (f - d - 1)
    OBVIOUS
  <2>2. QED
    BY <2>1
<1>4. l * f = d * l + l + k * l
  BY <1>3, SMTT(30)
<1>5. k * l \in Nat
  BY <1>3
<1>6. d >= 1 => d * l >= l
  <2> SUFFICES ASSUME d >= 1 PROVE d * l >= l
    OBVIOUS
  <2>1. PICK j \in Nat : d = j + 1
    <3>1. d - 1 \in Nat /\ d = (d - 1) + 1
      OBVIOUS
    <3>2. QED
      BY <3>1
  <2>2. d * l = j * l + l /\ j * l \in Nat
    BY <2>1, SMTT(30)
  <2>3. QED
    BY <2>2
<1>7. QED
  BY <1>1, <1>2, <1>4, <1>5, <1>6

(* What has gone out stays in order when only the rest of the animation    *)
(* changes, or when it is forgotten.                                       *)
LEMMA OutKept ==
  ASSUME OutInOrder,
         \/ anim' = NULL
         \/ /\ anim # NULL /\ anim'.length = anim.length /\ anim'.frames = anim.frames
            /\ anim'.out = anim.out
  PROVE  OutInOrder'
  BY DEF OutInOrder, Long, Place

(* A pixel goes out: it is the one that was due.                           *)
LEMMA PixelOutInOrder ==
  ASSUME TypeOK, Owned, OutInOrder, Pipeline, PixelOut
  PROVE  OutInOrder' /\ Pipeline'
<1>1. /\ owner = "NEOPIXEL" /\ owner' = owner /\ nvic /\ sct.doing = "pixels" /\ ~sct.flag
      /\ anim \in AnimStates
  BY DEF PixelOut, Owned, TypeOK, Users, Timer
<1>2. /\ anim' \in AnimStates
      /\ anim'.length = anim.length /\ anim'.frames = anim.frames /\ anim'.done = anim.done
      /\ anim'.sent = anim.sent /\ anim'.next = anim.next /\ anim'.buf = anim.buf
      /\ anim'.aux = 1 - anim.aux /\ anim'.out = Append(anim.out, anim.buf[anim.aux])
  BY <1>1, PixelOutAs DEF PixelOut
<1>3. sct'.flag /\ sct'.halt = sct.halt /\ (sct'.doing = "nothing" <=> sct.halt)
  BY <1>1 DEF PixelOut, Timer, TypeOK
<1>4. CASE ~Long
  <2>1. ~Long'
    BY <1>1, <1>2, <1>4, NullAssumption DEF Long
  <2>2. QED
    BY <2>1 DEF OutInOrder, Pipeline
<1>5. CASE Long
  <2> DEFINE n == Len(anim.out)
             z == anim.done * anim.length
  <2>1. /\ anim.length \in Nat /\ anim.frames \in Nat /\ anim.done \in Nat /\ anim.sent \in Nat
        /\ anim.aux \in {0, 1} /\ anim.out \in Seq(Nat) /\ anim.buf[anim.aux] \in Nat
    BY <1>1 DEF AnimStates
  <2>2. UnderWay
    BY <1>1, <1>5 DEF Pipeline
  <2>3. n \in Nat /\ z \in Nat /\ z + anim.length <= anim.length * anim.frames
    <3>1. anim.done < anim.frames
      BY <2>2 DEF UnderWay
    <3>2. n \in Nat
      BY <2>1
    <3>3. QED
      BY <2>1, <3>1, <3>2, FrameFits
  <2>4. n = z + anim.sent /\ anim.sent < anim.length
    BY <1>1, <2>2, <2>1 DEF UnderWay
  <2>5. /\ Len(anim'.out) = n + 1 /\ anim'.out[n + 1] = Place(n + 1)
        /\ \A i \in 1..n : anim'.out[i] = anim.out[i]
    <3>1. anim.buf[anim.aux] = Place(n + 1)
      BY <2>2 DEF UnderWay
    <3>2. QED
      BY <1>2, <2>1, <3>1, AppendProperties
  <2>6. \A i : Place(i)' = Place(i)
    BY <1>2 DEF Place
  <2>7. OutInOrder'
    <3>1. n + 1 <= anim'.length * anim'.frames
      BY <1>2, <2>1, <2>3, <2>4
    <3>2. ASSUME NEW i \in 1..(n + 1) PROVE anim'.out[i] = Place(i)
      BY <1>5, <2>3, <2>5 DEF OutInOrder
    <3>3. QED
      BY <2>5, <2>6, <3>1, <3>2 DEF OutInOrder
  <2>8. UnderWay'
    <3>1. anim'.buf[anim'.aux] = Place(n + 2)
      BY <1>1, <1>2, <2>2 DEF UnderWay
    <3>2. Len(anim'.out) = anim'.done * anim'.length + anim'.sent + 1
      BY <1>2, <2>1, <2>3, <2>4, <2>5
    <3>3. Place(Len(anim.out) + 1)' = Place(n + 2)
      BY <2>3, <2>5, <2>6
    <3>4. QED
      BY <1>2, <1>3, <2>2, <3>1, <3>2, <3>3 DEF UnderWay
  <2>9. QED
    BY <2>7, <2>8 DEF Pipeline
<1>6. QED
  BY <1>4, <1>5

(* The handler comes: it writes the pixel after the next.                  *)
LEMMA IrqInOrder ==
  ASSUME TypeOK, Owned, OutInOrder, Pipeline, SctNeopixelIrq
  PROVE  OutInOrder' /\ Pipeline'
<1>1. owner = "NEOPIXEL" /\ nvic /\ anim # NULL /\ sct.flag
  BY DEF SctNeopixelIrq, Owned
<1>2. /\ anim' \in AnimStates
      /\ anim'.length = anim.length /\ anim'.frames = anim.frames
      /\ anim'.aux = anim.aux /\ anim'.out = anim.out
      /\ anim'.buf[anim.aux] = anim.buf[anim.aux]
      /\ Over \/ GoesOn \/ Ends \/ NextFrame
  BY <1>1, IrqAs
<1>3. OutInOrder'
  BY <1>1, <1>2, OutKept
<1>4. \A i : Place(i)' = Place(i)
  BY <1>2 DEF Place
<1>5. CASE ~Long \/ sct'.doing = "pwm"
  BY <1>1, <1>2, <1>3, <1>5 DEF Pipeline, Long
<1>6. CASE Long /\ sct'.doing # "pwm"
  <2> DEFINE n == Len(anim.out)
             z == anim.done * anim.length
  <2>1. /\ anim.length \in Nat /\ anim.frames \in Nat /\ anim.done \in Nat /\ anim.sent \in Nat
        /\ anim.aux \in {0, 1} /\ anim.out \in Seq(Nat) /\ anim.next \in Nat
    BY <1>1 DEF AnimStates, TypeOK
  <2>2. sct \in [doing : {"nothing", "pixels"}, halt : BOOLEAN, flag : BOOLEAN]
    <3>1. sct.doing # "pwm"
      <4>1. CASE Over \/ Ends
        BY <1>6, <4>1 DEF Over, Ends, TypeOK
      <4>2. CASE GoesOn
        BY <1>6, <4>2 DEF GoesOn, TypeOK
      <4>3. CASE NextFrame
        BY <1>6, <4>3 DEF NextFrame
      <4>4. QED
        BY <1>2, <4>1, <4>2, <4>3
    <3>2. QED
      BY <1>1, <3>1 DEF TypeOK, Owned
  <2>3. UnderWay
    BY <1>1, <1>6, <2>2 DEF Pipeline
  <2>4. /\ z \in Nat /\ (anim.done + 1) * anim.length = z + anim.length
        /\ anim.done >= 1 => z >= anim.length
        /\ anim.done = 0 => z = 0
    <3>1. anim.done < anim.frames
      BY <2>3 DEF UnderWay
    <3>2. anim.done = 0 => z = 0
      BY <2>1
    <3> HIDE DEF z
    <3>3. QED
      BY <2>1, <3>1, <3>2, FrameFits DEF z
  <2>5. n = z + anim.sent + 1 /\ anim.sent < anim.length /\ n \in Nat
    BY <1>1, <2>1, <2>3 DEF UnderWay
  <2>6. anim'.buf[anim'.aux] = Place(n + 1)
    BY <1>2, <2>3 DEF UnderWay
  <2>7. /\ anim.done < anim.frames
        /\ anim.next = anim.sent + (IF anim.done = 0 THEN 2 ELSE 1)
        /\ sct.halt <=> anim.sent = anim.length - 1
        /\ sct.doing = "nothing" <=> sct.flag /\ sct.halt
    BY <2>3 DEF UnderWay
  <2>8. /\ Len(anim.out)' = n
        /\ Place(Len(anim.out) + 1)' = Place(n + 1) /\ Place(Len(anim.out) + 2)' = Place(n + 2)
    BY <1>2, <1>4
  <2> HIDE DEF n, z
  <2>9. CASE Over
    BY <2>1, <2>3, <2>9 DEF Over, UnderWay
  <2>10. CASE Ends
    <3>1. anim.sent = anim.length - 1 /\ anim'.done = anim'.frames
      BY <1>2, <2>1, <2>10 DEF Ends
    <3>2. sct' = [sct EXCEPT !.flag = FALSE]
      BY <2>10 DEF Ends
    <3>3. sct.doing = "nothing"
      BY <1>1, <3>1, <2>7
    <3>4. sct'.doing = "nothing" /\ ~sct'.flag
      BY <2>2, <3>2, <3>3
    <3>5. QED
      BY <1>3, <3>1, <3>4 DEF Pipeline
  <2>11. CASE GoesOn
    <3>1. /\ anim'.done = anim.done /\ anim'.sent = anim.sent + 1 /\ anim'.next = anim.next + 1
          /\ anim'.buf[1 - anim'.aux] = z + anim.next
          /\ anim.sent + 1 < anim.length
      BY <1>2, <2>1, <2>5, <2>11 DEF GoesOn, z
    <3>2. ~sct.halt /\ sct.doing = "pixels"
      <4>1. anim.sent # anim.length - 1
        BY <2>1, <3>1
      <4>2. QED
        BY <1>1, <2>2, <2>7, <4>1
    <3>3. ~sct'.flag /\ sct'.doing = "pixels" /\ (sct'.halt <=> anim'.sent = anim'.length - 1)
      <4> DEFINE h == (sct.halt \/ anim.length - (anim.sent + 1) = 1)
      <4>1. sct' = [sct EXCEPT !.flag = FALSE, !.halt = h]
        BY <2>11 DEF GoesOn
      <4>2. h \in BOOLEAN
        BY Zenon
      <4>3. h <=> anim'.sent = anim'.length - 1
        <5>1. anim.length - (anim.sent + 1) = 1 <=> anim'.sent = anim'.length - 1
          BY <1>2, <2>1, <3>1
        <5>2. QED
          BY <3>2, <5>1
      <4> HIDE DEF h
      <4>4. sct'.flag = FALSE /\ sct'.doing = "pixels" /\ sct'.halt = h
        BY <2>2, <3>2, <4>1
      <4>5. QED
        BY <4>3, <4>4
    <3>4. z + anim.next = Place(n + 2)
      <4>1. CASE anim.done = 0
        <5>1. z = 0 /\ anim.next = anim.sent + 2 /\ n = anim.sent + 1
          BY <2>1, <2>4, <2>5, <2>7, <4>1
        <5>2. n + 2 <= anim.length + 1
          BY <2>1, <3>1, <5>1
        <5>3. QED
          BY <2>1, <2>5, <5>1, <5>2 DEF Place
      <4>2. CASE anim.done # 0
        <5>1. z >= anim.length /\ anim.next = anim.sent + 1 /\ n = z + anim.sent + 1
          BY <2>1, <2>4, <2>5, <2>7, <4>2
        <5>2. ~(n + 2 <= anim.length + 1)
          BY <2>1, <2>4, <5>1
        <5>3. QED
          BY <2>1, <2>4, <2>5, <5>1, <5>2 DEF Place
      <4>3. QED
        BY <4>1, <4>2
    <3>5. n = anim'.done * anim'.length + anim'.sent
      <4>1. anim'.done * anim'.length = z
        BY <1>2, <3>1 DEF z
      <4>2. QED
        BY <2>1, <2>4, <2>5, <3>1, <4>1
    <3>6. anim'.next = anim'.sent + (IF anim'.done = 0 THEN 2 ELSE 1)
      BY <2>1, <2>7, <3>1
    <3>7. anim'.done < anim'.frames /\ anim'.sent < anim'.length
      BY <1>2, <2>1, <2>7, <3>1
    <3>8. UnderWay'
      BY <2>6, <2>8, <3>1, <3>3, <3>4, <3>5, <3>6, <3>7 DEF UnderWay
    <3>9. QED
      BY <1>3, <3>8 DEF Pipeline
  <2>12. CASE NextFrame
    <3>1. /\ anim'.done = anim.done + 1 /\ anim'.done < anim'.frames
          /\ anim'.sent = 0 /\ anim'.next = 1
          /\ anim'.buf[1 - anim'.aux] = z + anim.length
      BY <1>2, <2>4, <2>12 DEF NextFrame
    <3>2. anim.sent + 1 = anim.length
      BY <2>12 DEF NextFrame
    <3>3. ~sct'.flag /\ ~sct'.halt /\ sct'.doing = "pixels"
      BY <2>2, <2>12 DEF NextFrame
    <3>4. z + anim.length = Place(n + 2)
      <4>1. n = z + anim.length
        <5>1. z + anim.sent + 1 = z + (anim.sent + 1)
          BY <2>1, <2>4
        <5>2. QED
          BY <2>5, <3>2, <5>1
      <4>2. ~(n + 2 <= anim.length + 1)
        BY <2>1, <2>4, <4>1
      <4>3. Place(n + 2) = (n + 2) - 2
        BY <4>2 DEF Place
      <4>4. (n + 2) - 2 = n
        BY <2>5
      <4>5. QED
        BY <4>1, <4>3, <4>4
    <3>5. n = anim'.done * anim'.length + anim'.sent
      <4>1. anim'.done * anim'.length = z + anim.length
        BY <1>2, <2>4, <3>1
      <4>2. n = z + (anim.sent + 1)
        BY <2>1, <2>4, <2>5
      <4>3. z + anim.length \in Nat
        BY <2>1, <2>4
      <4>4. QED
        BY <3>1, <3>2, <4>1, <4>2, <4>3
    <3>6. anim'.sent < anim'.length /\ anim'.sent # anim'.length - 1
      BY <1>2, <1>6, <2>1, <3>1 DEF Long
    <3>7. anim'.next = anim'.sent + (IF anim'.done = 0 THEN 2 ELSE 1)
      BY <2>1, <3>1
    <3>8. UnderWay'
      BY <2>6, <2>8, <3>1, <3>3, <3>4, <3>5, <3>6, <3>7 DEF UnderWay
    <3>9. QED
      BY <1>3, <3>8 DEF Pipeline
  <2>13. QED
    BY <1>2, <2>9, <2>10, <2>11, <2>12
<1>7. QED
  BY <1>5, <1>6

LEMMA InitInOrder == Init => OutInOrder /\ Pipeline
  BY DEF Init, OutInOrder, Pipeline, Long

LEMMA InOrderStep ==
  ASSUME TypeOK, Owned, OutInOrder, Pipeline, [Next]_vars
  PROVE  OutInOrder' /\ Pipeline'
<1>1. ASSUME anim' \in {NULL, anim} PROVE OutInOrder'
  BY <1>1, OutKept
<1>2. CASE ReadPulse \/ Complete \/ EndScript
  BY <1>1, <1>2 DEF ReadPulse, Complete, EndScript, Freed, ResetSct, Pipeline
<1>3. ASSUME NEW a \in Animations, Begins(a) PROVE OutInOrder' /\ Pipeline'
  <2>1. /\ anim' = Begun(a)
        /\ sct' = [doing |-> "pixels", halt |-> FALSE, flag |-> FALSE]
    BY <1>3 DEF Begins, Idle
  <2>2. /\ anim' \in AnimStates
        /\ anim'.length = a.length /\ anim'.frames = a.frames
        /\ anim'.done = 0 /\ anim'.sent = 0 /\ anim'.next = 2 /\ anim'.aux = 0
        /\ anim'.out = <<>> /\ anim'.buf[0] = 0 /\ anim'.buf[1] = 1
    BY <2>1, BegunAs
  <2>3. a.length \in Nat \ {0} /\ a.frames \in Nat /\ a.length * a.frames \in Nat
    BY SctAssumption
  <2>4. OutInOrder'
    BY <2>2, <2>3 DEF OutInOrder
  <2>5. ASSUME Long' PROVE UnderWay'
    <3>1. anim'.length >= 2 /\ anim'.frames > 0
      BY <2>2, <2>3, <2>5 DEF Long
    <3>2. Len(anim.out)' = 0 /\ anim'.done * anim'.length = 0
      BY <2>2, <2>3
    <3>3. Place(Len(anim.out) + 1)' = 0 /\ Place(Len(anim.out) + 2)' = 1
      BY <2>2, <2>3, <3>1, <3>2 DEF Place
    <3>4. QED
      BY <2>1, <2>2, <2>3, <3>1, <3>2, <3>3 DEF UnderWay
  <2>6. QED
    BY <2>4, <2>5 DEF Pipeline
<1>4. CASE Pwm
  <2>1. sct'.doing = "pwm" /\ anim' = anim
    BY <1>4 DEF Pwm, TypeOK
  <2>2. QED
    BY <1>1, <2>1 DEF Pipeline
<1>5. CASE PulseStarts \/ PulseTimesOut \/ PulseEnds \/ SctReadPulseIrq
  <2>1. owner = "READPULSE" /\ owner' = owner /\ anim' = anim
    BY <1>5 DEF PulseStarts, PulseTimesOut, PulseEnds, SctReadPulseIrq, Timer, Owned,
                TypeOK, Users
  <2>2. QED
    BY <1>1, <2>1 DEF Pipeline
<1>6. CASE PwmEvent
  <2>1. sct'.doing = "pwm" /\ anim' = anim
    BY <1>6 DEF PwmEvent, Timer, TypeOK
  <2>2. QED
    BY <1>1, <2>1 DEF Pipeline
<1>7. CASE PixelOut
  BY <1>7, PixelOutInOrder
<1>8. CASE SctNeopixelIrq
  BY <1>8, IrqInOrder
<1>9. CASE StartScript \/ (\E e \in Users : TakeCompletion(e)) \/ UNCHANGED vars
  <2>1. UNCHANGED <<owner, nvic, sct, anim>>
    BY <1>9 DEF StartScript, TakeCompletion, vars
  <2>2. QED
    BY <1>1, <2>1 DEF Pipeline, UnderWay, Long, Place
<1>10. CASE AnimateNothing /\ UNCHANGED <<nvic, anim>>
  <2>1. ~nvic'
    BY <1>10 DEF AnimateNothing, Owned
  <2>2. QED
    BY <1>1, <1>10, <2>1 DEF Pipeline
<1>11. CASE (\E a \in Animations : Animate(a)) \/ AnimateNothing
  BY <1>3, <1>10, <1>11 DEF Animate, AnimateNothing
<1>12. QED
  BY <1>2, <1>4, <1>5, <1>6, <1>7, <1>8, <1>9, <1>11 DEF Next, Irq, Main

(* For every length of frame above one pixel and every number of frames,   *)
(* at least one, the pixels go out in order, the later frames at most one  *)
(* pixel late, and no more of them than there are: the timer is told in    *)
(* time where each frame ends.                                             *)
THEOREM PixelsGoOutInOrder == Spec => []PixelsInOrder
<1> DEFINE Inv == TypeOK /\ Owned /\ OutInOrder /\ Pipeline
<1>1. Init => Inv
  BY InitOwned, InitInOrder
<1>2. Inv /\ [Next]_vars => Inv'
  BY OwnedStep, InOrderStep
<1>3. Inv => PixelsInOrder
  <2> SUFFICES ASSUME TypeOK, OutInOrder, anim # NULL, Halting(anim) PROVE PixelsInOrder
    BY DEF PixelsInOrder
  <2>1. anim.length \in Nat \ {0} /\ anim.out \in Seq(Nat)
    BY DEF TypeOK, AnimStates
  <2>2. /\ Len(anim.out) <= anim.length * anim.frames
        /\ \A i \in 1..Len(anim.out) : anim.out[i] = Place(i)
    BY DEF OutInOrder, Long, Halting
  <2>3. ASSUME NEW i \in 1..Len(anim.out)
        PROVE  anim.out[i] = i - 1 \/ (anim.out[i] = i - 2 /\ i > anim.length)
    <3>1. i \in Nat
      BY <2>1
    <3>2. QED
      BY <2>1, <2>2, <3>1 DEF Place
  <2>4. QED
    BY <2>2, <2>3 DEF PixelsInOrder
<1>4. QED
  BY <1>1, <1>2, <1>3, PTL DEF Spec

-----------------------------------------------------------------------------
(* The answers.                                                            *)

Excused == slips \cap Excuses # {}

(* Without an excuse only the owner has a completion event, one, and it    *)
(* has it when nothing is left to do and no further event can come.        *)
Undisturbed ==
  /\ owner # "INACTIVE" => sct.doing # "pwm"
  /\ owner = "NEOPIXEL" => Long /\ nvic
  /\ sct.doing \in {"timing", "active"} => ~sct.flag
  /\ pending \subseteq {owner} /\ current \in {NULL, owner}
  /\ current # NULL => pending = {}
  /\ pending # {} \/ current # NULL =>
       /\ sct.doing = "nothing" /\ ~sct.flag
       /\ owner = "NEOPIXEL" => anim.done = anim.frames

InTime ==
  ~Excused => /\ slips \cap {"answered_early", "timer_of_another_reset"} = {}
              /\ Undisturbed

LEMMA InitInTime == Init => InTime
  BY NullAssumption DEF Init, InTime, Undisturbed, Idle, Users

LEMMA InTimeStep ==
  ASSUME TypeOK, Owned, Pipeline, InTime, [Next]_vars
  PROVE  InTime'
<1> DEFINE bad == {"answered_early", "timer_of_another_reset"}
<1>1. slips \subseteq slips'
  BY DEF Next, Irq, Main, ReadPulse, Animate, AnimateNothing, Pwm, PulseStarts, PulseTimesOut,
         PulseEnds, PixelOut, PwmEvent, Timer, SctReadPulseIrq, SctNeopixelIrq, Complete,
         TakeCompletion, EndScript, StartScript, vars
<1> SUFFICES ASSUME ~Excused' PROVE slips' \cap bad = {} /\ Undisturbed'
  BY DEF InTime
<1>2. slips \cap Excuses = {} /\ slips \cap bad = {} /\ Undisturbed
  BY <1>1 DEF Excused, InTime
<1>3. owner = "INACTIVE" => pending = {} /\ current = NULL
  BY <1>2 DEF Undisturbed, TypeOK, Users
<1>4. CASE ReadPulse
  <2>1. /\ owner = "INACTIVE" /\ owner' = "READPULSE"
        /\ sct' = [doing |-> "timing", halt |-> FALSE, flag |-> FALSE]
        /\ UNCHANGED <<pending, current, slips>>
    BY <1>4 DEF ReadPulse, Call, Idle
  <2>2. QED
    BY <1>2, <1>3, <2>1 DEF Undisturbed
<1>5. ASSUME NEW a \in Animations, Animate(a) PROVE slips' \cap bad = {} /\ Undisturbed'
  <2>1. /\ owner = "INACTIVE" /\ owner' = "NEOPIXEL" /\ anim' = Begun(a) /\ nvic' = TRUE
        /\ sct' = [doing |-> "pixels", halt |-> FALSE, flag |-> FALSE]
        /\ UNCHANGED <<pending, current>>
        /\ slips' = slips \union Odd(a)
    BY <1>5 DEF Animate, Begins, Call, Idle
  <2>2. a.length # 1 /\ a.frames # 0 /\ slips' = slips
    BY <2>1 DEF Note, Odd, Excused, Excuses
  <2>3. Long'
    <3>1. anim'.length = a.length /\ anim'.frames = a.frames /\ anim' # NULL
      BY <2>1, BegunAs, NullAssumption
    <3>2. a.length \in Nat \ {0} /\ a.frames \in Nat
      BY SctAssumption
    <3>3. QED
      BY <2>2, <3>1, <3>2 DEF Long
  <2>4. QED
    BY <1>2, <1>3, <2>1, <2>2, <2>3 DEF Undisturbed
<1>6. CASE Pwm
  <2>1. /\ sct' = [sct EXCEPT !.doing = "pwm", !.halt = FALSE]
        /\ slips' = slips \union Note("pwm_while_owned", owner # "INACTIVE")
        /\ UNCHANGED <<owner, nvic, anim, pending, current>>
    BY <1>6 DEF Pwm, Call
  <2>2. owner = "INACTIVE" /\ slips' = slips
    BY <2>1 DEF Note, Excused, Excuses
  <2>3. sct'.doing = "pwm"
    BY <2>1 DEF TypeOK
  <2>4. QED
    BY <1>2, <1>3, <2>1, <2>2, <2>3 DEF Undisturbed
<1>7. CASE PulseStarts \/ PulseTimesOut \/ PulseEnds
  <2>1. /\ UNCHANGED <<owner, nvic, pending, current, anim, slips>>
        /\ sct.doing \in {"timing", "active"}
        /\ \/ sct' = [sct EXCEPT !.doing = "active"]
           \/ sct' = [doing |-> "nothing", halt |-> FALSE, flag |-> TRUE]
    BY <1>7 DEF PulseStarts, PulseTimesOut, PulseEnds, Timer, Idle
  <2>2. \/ sct'.doing = "active" /\ ~sct'.flag
        \/ sct'.doing = "nothing"
    <3>1. ~sct.flag
      BY <1>2, <2>1 DEF Undisturbed
    <3>2. CASE sct' = [sct EXCEPT !.doing = "active"]
      BY <3>1, <3>2 DEF TypeOK
    <3>3. CASE sct' = [doing |-> "nothing", halt |-> FALSE, flag |-> TRUE]
      BY <3>3
    <3>4. QED
      BY <2>1, <3>2, <3>3
  <2>3. pending = {} /\ current = NULL
    BY <1>2, <2>1 DEF Undisturbed
  <2>4. QED
    BY <1>2, <2>1, <2>2, <2>3 DEF Undisturbed, Long
<1>8. CASE PixelOut
  <2>1. /\ UNCHANGED <<owner, pending, current, slips>>
        /\ sct.doing = "pixels" /\ sct'.doing \in {"nothing", "pixels"}
        /\ owner = "NEOPIXEL" /\ anim \in AnimStates
    BY <1>8 DEF PixelOut, Timer, TypeOK, Owned, Users
  <2>2. anim'.length = anim.length /\ anim'.frames = anim.frames /\ anim' # NULL /\ nvic' = nvic
    BY <1>8, <2>1, PixelOutAs, NullAssumption DEF PixelOut, Timer
  <2>3. pending = {} /\ current = NULL
    BY <1>2, <2>1 DEF Undisturbed
  <2>4. QED
    BY <1>2, <2>1, <2>2, <2>3 DEF Undisturbed, Long
<1>9. CASE PwmEvent
  BY <1>2, <1>9 DEF PwmEvent, Undisturbed
<1>10. CASE SctReadPulseIrq
  <2>1. /\ owner = "READPULSE" /\ sct.flag /\ sct' = [sct EXCEPT !.flag = FALSE]
        /\ pending' = pending \union {"READPULSE"}
        /\ UNCHANGED <<owner, nvic, current, anim, slips>>
    BY <1>10 DEF SctReadPulseIrq
  <2>2. sct.doing = "nothing" /\ current = NULL
    BY <1>2, <2>1 DEF Undisturbed, TypeOK, Owned
  <2>3. sct'.doing = "nothing" /\ ~sct'.flag
    BY <2>1, <2>2 DEF TypeOK
  <2>4. QED
    BY <1>2, <2>1, <2>2, <2>3 DEF Undisturbed
<1>11. CASE SctNeopixelIrq
  <2>1. /\ owner = "NEOPIXEL" /\ nvic /\ sct.flag /\ anim # NULL
        /\ UNCHANGED <<owner, nvic, current, slips>>
    BY <1>11 DEF SctNeopixelIrq, Owned
  <2>2. pending = {} /\ current = NULL /\ Long /\ sct.doing # "pwm"
    BY <1>2, <2>1 DEF Undisturbed
  <2>3. UnderWay
    BY <2>1, <2>2 DEF Pipeline
  <2>4. /\ anim'.length = anim.length /\ anim'.frames = anim.frames /\ Long'
        /\ Over \/ GoesOn \/ Ends \/ NextFrame
    <3>1. /\ anim' \in AnimStates /\ anim'.length = anim.length /\ anim'.frames = anim.frames
          /\ Over \/ GoesOn \/ Ends \/ NextFrame
      BY <1>11, <2>1, IrqAs
    <3>2. QED
      BY <2>2, <3>1, NullAssumption DEF Long
  <2>5. anim.done \in Nat /\ anim.frames \in Nat /\ anim.sent \in Nat /\ anim.length \in Nat
    BY <2>1 DEF TypeOK, AnimStates
  <2>6. sct \in [doing : {"nothing", "pixels"}, halt : BOOLEAN, flag : BOOLEAN]
    BY <2>1, <2>2 DEF TypeOK, Owned
  <2>7. CASE Over
    <3>1. anim.done < anim.frames
      BY <2>3 DEF UnderWay
    <3>2. anim.done >= anim.frames
      BY <2>7 DEF Over
    <3>3. ~(anim.done >= anim.frames)
      BY <2>5, <3>1
    <3>4. QED
      BY <3>2, <3>3
  <2>8. CASE Ends
    <3>1. /\ anim'.done = anim'.frames /\ anim.sent = anim.length - 1
          /\ sct' = [sct EXCEPT !.flag = FALSE] /\ pending' = pending \union {"NEOPIXEL"}
      BY <2>4, <2>5, <2>8 DEF Ends
    <3>2. sct.doing = "nothing"
      BY <2>1, <2>3, <3>1 DEF UnderWay
    <3>3. sct'.doing = "nothing" /\ ~sct'.flag
      BY <2>6, <3>1, <3>2
    <3>4. QED
      BY <1>2, <2>1, <2>2, <2>4, <3>1, <3>3 DEF Undisturbed
  <2>9. CASE GoesOn
    <3>1. pending' = pending /\ sct'.doing \in {"nothing", "pixels"}
      BY <2>6, <2>9 DEF GoesOn
    <3>2. QED
      BY <1>2, <2>1, <2>2, <2>4, <3>1 DEF Undisturbed
  <2>10. CASE NextFrame
    <3>1. pending' = pending /\ sct'.doing = "pixels"
      BY <2>2, <2>10 DEF NextFrame
    <3>2. QED
      BY <1>2, <2>1, <2>2, <2>4, <3>1 DEF Undisturbed
  <2>11. QED
    BY <2>4, <2>7, <2>8, <2>9, <2>10
<1>12. ASSUME NEW e \in Users, TakeCompletion(e) PROVE slips' \cap bad = {} /\ Undisturbed'
  <2>1. /\ current = NULL /\ e \in pending /\ current' = e /\ pending' = pending \ {e}
        /\ UNCHANGED <<owner, nvic, sct, anim, slips>>
    BY <1>12 DEF TakeCompletion
  <2>2. e = owner /\ pending' = {} /\ pending # {}
    BY <1>2, <2>1 DEF Undisturbed
  <2>3. QED
    BY <1>2, <2>1, <2>2 DEF Undisturbed, Long
<1>13. CASE Complete
  <2>1. /\ current # NULL /\ current' = NULL /\ pending' = pending
        /\ owner' = "INACTIVE" /\ sct' = [doing |-> "nothing", halt |-> FALSE, flag |-> FALSE]
        /\ slips' = slips
             \union Note("answered_early", current \in waiting /\ ~Finished(current))
             \union Note("timer_of_another_reset", owner \notin {"INACTIVE", current})
    BY <1>13 DEF Complete, ResetSct, Idle
  <2>2. current = owner /\ pending = {} /\ (owner = "NEOPIXEL" => anim.done = anim.frames)
    BY <1>2, <2>1 DEF Undisturbed
  <2>3. Finished(current)
    BY <1>2, <2>2 DEF Finished, Undisturbed, Long
  <2>4. slips' = slips
    BY <2>1, <2>2, <2>3 DEF Note
  <2>5. QED
    BY <1>2, <2>1, <2>2, <2>4 DEF Undisturbed
<1>14. CASE EndScript
  <2>1. /\ current = NULL /\ UNCHANGED <<current, pending>>
        /\ owner' = "INACTIVE" /\ sct' = [doing |-> "nothing", halt |-> FALSE, flag |-> FALSE]
        /\ slips' = slips \union Note("completion_outlives_script", pending # {})
    BY <1>14 DEF EndScript, ResetSct, Idle
  <2>2. pending = {} /\ slips' = slips
    BY <2>1 DEF Note, Excused, Excuses
  <2>3. QED
    BY <1>2, <2>1, <2>2 DEF Undisturbed
<1>15. CASE StartScript \/ UNCHANGED vars
  <2>1. UNCHANGED <<owner, nvic, sct, anim, pending, current, slips>>
    BY <1>15 DEF StartScript, vars
  <2>2. QED
    BY <1>2, <2>1 DEF Undisturbed, Long
<1>16. ~AnimateNothing
  BY DEF AnimateNothing, Excused, Excuses
<1>17. QED
  BY <1>4, <1>5, <1>6, <1>7, <1>8, <1>9, <1>10, <1>11, <1>12, <1>13, <1>14, <1>15,
     <1>16
  DEF Next, Irq, Main

(* Scripts are answered when their pulse or animation is done, and nobody  *)
(* takes the timer from its owner, whatever the two users and the ends of  *)
(* scripts do in whatever order, but for the excuses that AnsweredInTime   *)
(* names.                                                                  *)
THEOREM AnswersInTime == Spec => []AnsweredInTime
<1> DEFINE Inv == TypeOK /\ Owned /\ OutInOrder /\ Pipeline /\ InTime
<1>1. Init => Inv
  BY InitOwned, InitInOrder, InitInTime
<1>2. Inv /\ [Next]_vars => Inv'
  BY OwnedStep, InOrderStep, InTimeStep
<1>3. Inv => AnsweredInTime
  BY DEF InTime, Excused, AnsweredInTime
<1>4. QED
  BY <1>1, <1>2, <1>3, PTL DEF Spec
=============================================================================
