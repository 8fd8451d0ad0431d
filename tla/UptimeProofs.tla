----------------------------- MODULE UptimeProofs -----------------------------
(* Proofs about timer 3, for every range of the counter, any timers and    *)
(* any delays below that range.                                            *)
EXTENDS Uptime, TLAPS

(* The counter as the hardware has it: it counts up to its range and       *)
(* starts again, and a difference below the range is what it seems.        *)
LEMMA ModRange ==
  ASSUME NEW a \in Int
  PROVE  a % Modulus \in 0..(Modulus - 1)
BY ModulusAssumption

LEMMA ModSmall ==
  ASSUME NEW a \in 0..(Modulus - 1)
  PROVE  a % Modulus = a
BY ModulusAssumption

LEMMA ModOfSum ==
  ASSUME NEW k \in Int, NEW r \in 0..(Modulus - 1)
  PROVE  (Modulus * k + r) % Modulus = r
<1> DEFINE a == Modulus * k + r
<1>1. a = Modulus * (a \div Modulus) + (a % Modulus) /\ a \div Modulus \in Int
  BY ModulusAssumption, SMTT(30)
<1>2. a % Modulus \in 0..(Modulus - 1)
  BY ModRange, ModulusAssumption
<1>3. QED
  BY <1>1, <1>2, ModulusAssumption, SMTT(30)

LEMMA ModNext ==
  ASSUME NEW a \in Nat
  PROVE  (a + 1) % Modulus = IF a % Modulus = Modulus - 1 THEN 0 ELSE (a % Modulus) + 1
<1> DEFINE q == a \div Modulus
           r == a % Modulus
<1>1. q \in Int /\ r \in 0..(Modulus - 1) /\ a = Modulus * q + r
  BY ModulusAssumption, SMTT(30)
<1> HIDE DEF q
<1>2. CASE r = Modulus - 1
  <2>1. a + 1 = Modulus * (q + 1) + 0
    BY <1>1, <1>2, ModulusAssumption, SMTT(30)
  <2>2. (Modulus * (q + 1) + 0) % Modulus = 0
    <3>1. q + 1 \in Int /\ 0 \in 0..(Modulus - 1)
      BY <1>1, ModulusAssumption
    <3>2. QED
      BY <3>1, ModOfSum
  <2>3. QED
    BY <1>2, <2>1, <2>2
<1>3. CASE r # Modulus - 1
  <2>1. a + 1 = Modulus * q + (r + 1) /\ r + 1 \in 0..(Modulus - 1)
    BY <1>1, <1>3, ModulusAssumption
  <2>2. (Modulus * q + (r + 1)) % Modulus = r + 1
    BY <1>1, <2>1, ModOfSum
  <2>3. QED
    BY <1>3, <2>1, <2>2
<1>4. QED
  BY <1>2, <1>3

-----------------------------------------------------------------------------
(* Types.                                                                  *)

LEMMA InitTypes == Init => TypeOK
<1> SUFFICES ASSUME Init PROVE TypeOK
  OBVIOUS
<1>1. timers \in [DOMAIN timers -> 0..(Modulus - 1)]
  BY DEF Init
<1>2. day \in [start : Int, wraps : Nat, raced : BOOLEAN, uses : Nat, off : Int]
  BY DEF Init
<1>3. /\ now = 0 /\ match = [at |-> 0, on |-> FALSE] /\ ir = {}
      /\ pc = "rest" /\ base = 0 /\ tsbase = 0 /\ clock = NULL
  BY DEF Init
<1>4. match \in [at : 0..(Modulus - 1), on : BOOLEAN]
  BY <1>3, ModulusAssumption
<1>5. event \in BOOLEAN /\ stalled \in BOOLEAN
  BY Zenon DEF Init
<1>6. QED
  BY <1>1, <1>2, <1>3, <1>4, <1>5 DEF TypeOK

LEMMA TypeStep == TypeOK /\ [Next]_vars => TypeOK'
<1> SUFFICES ASSUME TypeOK, [Next]_vars PROVE TypeOK'
  OBVIOUS
<1> USE ModulusAssumption DEF TypeOK
<1>1. CASE Tick
  BY <1>1 DEF Tick, timing
<1>2. CASE Timer3Irq
  BY <1>2 DEF Timer3Irq, Wrapped, timing
<1>3. CASE SetMatch
  <2>1. ASSUME NEW step \in {timers[t] : t \in DOMAIN timers}
        PROVE  MatchFor(step) \in 0..(Modulus - 1)
    BY ModRange DEF MatchFor
  <2>2. match' \in [at : 0..(Modulus - 1), on : BOOLEAN]
    BY <1>3, <2>1 DEF SetMatch
  <2>3. QED
    BY <1>3, <2>2 DEF SetMatch
<1>4. CASE EnableMatch \/ TestElapsed \/ DisableMatch
  BY <1>4 DEF EnableMatch, TestElapsed, DisableMatch
<1>5. ASSUME NEW t \in Timers, NEW d \in Delays, SetTimer(t, d) PROVE TypeOK'
  <2>1. Elapsed \in 0..(Modulus - 1)
    BY ModRange DEF Elapsed
  <2>2. d \in 0..(Modulus - 1)
    BY DelayAssumption
  <2>3. /\ pc' = "update"
        /\ UNCHANGED <<now, match, ir, event, tsbase, clock, day>>
    BY <1>5 DEF SetTimer
  <2>4. CASE ~Waiting
    <3>1. timers' = [u \in {t} |-> d]
      BY <1>5, <2>4 DEF SetTimer
    <3>2. timers' \in [DOMAIN timers' -> 0..(Modulus - 1)]
      BY <2>2, <3>1
    <3>3. base' = now
      BY <1>5, <2>4 DEF SetTimer
    <3>4. stalled' \in BOOLEAN
      BY <1>5, <2>4, Zenon DEF SetTimer
    <3>5. QED
      BY <2>3, <3>2, <3>3, <3>4
  <2>5. CASE Waiting
    <3>1. /\ Elapsed + d \in 0..(Modulus - 1)
          /\ timers' = [u \in DOMAIN timers \union {t} |->
                          IF u = t THEN Elapsed + d ELSE timers[u]]
      BY <1>5, <2>1, <2>2, <2>5 DEF SetTimer
    <3>2. timers' \in [DOMAIN timers' -> 0..(Modulus - 1)]
      BY <3>1
    <3>3. base' = base /\ stalled' = stalled
      BY <1>5, <2>5 DEF SetTimer
    <3>4. QED
      BY <2>3, <3>2, <3>3
  <2>6. QED
    BY <2>4, <2>5
<1>6. ASSUME NEW t \in Timers, ClearTimer(t) PROVE TypeOK'
  BY <1>6 DEF ClearTimer
<1>7. CASE TimerEvent
  <2>1. Elapsed \in 0..(Modulus - 1)
    BY ModRange DEF Elapsed
  <2> DEFINE later == {t \in DOMAIN timers : timers[t] > Elapsed}
  <2>2. timers' = [u \in later |-> timers[u] - Elapsed]
    BY <1>7 DEF TimerEvent
  <2>3. ASSUME NEW u \in later PROVE timers[u] - Elapsed \in 0..(Modulus - 1)
    <3>1. timers[u] \in 0..(Modulus - 1) /\ timers[u] > Elapsed
      BY <2>3
    <3>2. QED
      BY <2>1, <3>1
  <2> HIDE DEF later
  <2>4. timers' \in [DOMAIN timers' -> 0..(Modulus - 1)]
    BY <2>2, <2>3
  <2>5. /\ base' = now /\ pc' = "update"
        /\ UNCHANGED <<now, match, ir, tsbase, clock, day>>
    BY <1>7 DEF TimerEvent
  <2>6. event' \in BOOLEAN /\ stalled' \in BOOLEAN
    BY <1>7, Zenon DEF TimerEvent
  <2>7. QED
    BY <2>4, <2>5, <2>6
<1>8. ASSUME NEW first \in {"base", "tc"}, BeginStamp(first) PROVE TypeOK'
  <2>1. Tc \in Int /\ Shown \in Int
    BY ModRange DEF Tc, Shown
  <2>2. clock' \in Uses
    BY <1>8, <2>1 DEF BeginStamp, Uses
  <2>3. QED
    BY <1>8, <2>2 DEF BeginStamp
<1>9. CASE EndStamp
  <2>1. Tc \in Int /\ Shown \in Int
    BY ModRange DEF Tc, Shown
  <2>2. day' \in [start : Int, wraps : Nat, raced : BOOLEAN, uses : Nat, off : Int]
    BY <1>9, <2>1, NullAssumption DEF EndStamp, Uses
  <2>3. QED
    BY <1>9, <2>2 DEF EndStamp
<1>10. ASSUME NEW micros \in Clocks, BeginSetClock(micros) PROVE TypeOK'
  <2>1. Tc \in Int /\ micros \in Int
    BY ModRange, DelayAssumption DEF Tc
  <2>2. clock' \in Uses
    BY <1>10, <2>1 DEF BeginSetClock, Uses
  <2>3. day' \in [start : Int, wraps : Nat, raced : BOOLEAN, uses : Nat, off : Int]
    BY <1>10, <2>1 DEF BeginSetClock
  <2>4. QED
    BY <1>10, <2>2, <2>3 DEF BeginSetClock
<1>11. CASE EndSetClock
  BY <1>11 DEF EndSetClock, Uses, Undisturbed
<1>12. CASE UNCHANGED vars
  BY <1>12 DEF vars, timing
<1>13. QED
  BY <1>1, <1>2, <1>3, <1>4, <1>5, <1>6, <1>7, <1>8, <1>9, <1>10, <1>11, <1>12
     DEF Next, Update, Clock

-----------------------------------------------------------------------------
(* Wakeups.                                                                *)

(* The match is set for the head of the timers.                            *)
MatchSet == \E step \in Int : IsHead(step) /\ match.at = MatchFor(step)

(* The match is set, enabled and still to come.                            *)
MatchAhead ==
  \E step \in Int : IsHead(step) /\ match.at = MatchFor(step) /\ match.on /\ base + step > now

(* What hw_timer_update_interrupt has done at each of its places, and that *)
(* when it is through either the match will come or the wakeup is on its   *)
(* way, while the base is younger than the counter's range.                *)
WakeInv ==
  /\ Waiting /\ ~stalled => now - base < Modulus
  /\ pc \in {"enable", "test"} => Waiting /\ MatchSet
  /\ pc = "test" => match.on
  /\ pc = "disable" /\ Waiting => event
  /\ pc = "rest" /\ Waiting /\ ~stalled => event \/ "EVT" \in ir \/ MatchAhead

LEMMA HeadUnique ==
  ASSUME TypeOK, NEW s \in Int, NEW t \in Int, IsHead(s), IsHead(t)
  PROVE  s = t
BY DEF TypeOK, IsHead

LEMMA HeadWaits ==
  ASSUME TypeOK, NEW step, IsHead(step)
  PROVE  Waiting /\ step \in 0..(Modulus - 1)
BY DEF TypeOK, IsHead, Waiting

(* The counter ticks: a match that is reached raises its flag.             *)
LEMMA TickWakes == TypeOK /\ WakeInv /\ Tick => WakeInv'
<1> SUFFICES ASSUME TypeOK, WakeInv, Tick PROVE WakeInv'
  OBVIOUS
<1>1. /\ now' = now + 1 /\ UNCHANGED <<match, pc, timers, base, event>>
      /\ "EVT" \in ir => "EVT" \in ir'
      /\ match.on /\ Tc' = match.at => "EVT" \in ir'
  BY DEF Tick, timing
<1>2. Waiting' = Waiting /\ \A step : IsHead(step)' = IsHead(step)
  BY <1>1 DEF Waiting, IsHead
<1>3. Waiting /\ ~stalled' => ~stalled /\ now' - base' < Modulus
  <2>1. Waiting /\ ~stalled' => ~stalled /\ ~(now' - base >= Modulus)
    BY Zenon DEF Tick
  <2>2. ~(now' - base >= Modulus) => now' - base' < Modulus
    BY <1>1, ModulusAssumption DEF TypeOK
  <2>3. QED
    BY <2>1, <2>2
<1>4. MatchSet' = MatchSet
  BY <1>1, <1>2 DEF MatchSet, MatchFor
<1>5. MatchAhead => MatchAhead' \/ "EVT" \in ir'
  <2> SUFFICES ASSUME NEW step \in Int, IsHead(step), match.at = MatchFor(step), match.on,
                      base + step > now
               PROVE  MatchAhead' \/ "EVT" \in ir'
    BY DEF MatchAhead
  <2>1. CASE base + step = now + 1
    <3>1. Tc' = match.at
      BY <1>1, <2>1 DEF Tc, MatchFor
    <3>2. QED
      BY <1>1, <3>1
  <2>2. CASE base + step # now + 1
    <3>1. base' + step > now'
      BY <1>1, <2>2 DEF TypeOK
    <3>2. QED
      BY <1>1, <1>2, <3>1 DEF MatchAhead, MatchFor
  <2>3. QED
    BY <2>1, <2>2
<1>6. QED
  BY <1>1, <1>2, <1>3, <1>4, <1>5 DEF WakeInv

(* The test: a difference below the delay of the head means that the match *)
(* is still to come; otherwise the event is triggered.                     *)
LEMMA TestWakes == TypeOK /\ WakeInv /\ TestElapsed => WakeInv'
<1> SUFFICES ASSUME TypeOK, WakeInv, TestElapsed PROVE WakeInv'
  OBVIOUS
<1>1. PICK step : /\ IsHead(step)
                  /\ pc' = IF Elapsed < step THEN "rest" ELSE "disable"
                  /\ event' = (event \/ Elapsed >= step)
  BY DEF TestElapsed
<1>2. pc = "test" /\ UNCHANGED <<now, match, ir, timers, base, stalled>>
  BY DEF TestElapsed
<1>3. Waiting /\ step \in 0..(Modulus - 1) /\ Elapsed \in 0..(Modulus - 1)
  BY <1>1, HeadWaits, ModRange DEF Elapsed, TypeOK
<1>4. match.on /\ match.at = MatchFor(step)
  <2>1. PICK s \in Int : IsHead(s) /\ match.at = MatchFor(s)
    BY <1>2 DEF WakeInv, MatchSet
  <2>2. s = step
    BY <1>1, <1>3, <2>1, HeadUnique
  <2>3. QED
    BY <1>2, <2>1, <2>2 DEF WakeInv
<1>5. (Waiting <=> Waiting') /\ IsHead(step)' = IsHead(step)
  BY <1>2 DEF Waiting, IsHead
<1>6. CASE Elapsed < step
  <2>1. pc' = "rest"
    BY <1>1, <1>6
  <2>2. ~stalled => MatchAhead'
    <3>1. SUFFICES ASSUME ~stalled PROVE MatchAhead'
      OBVIOUS
    <3>2. now - base \in 0..(Modulus - 1)
      <4>1. now - base < Modulus
        BY <1>3, <3>1, Zenon DEF WakeInv
      <4>2. QED
        BY <4>1, ModulusAssumption DEF TypeOK
    <3>3. Elapsed = now - base
      BY <3>2, ModSmall DEF Elapsed
    <3>4. base' + step > now'
      BY <1>2, <1>3, <1>6, <3>3 DEF TypeOK
    <3>5. match'.at = MatchFor(step)' /\ match'.on /\ IsHead(step)'
      BY <1>1, <1>2, <1>4, <1>5 DEF MatchFor
    <3>6. step \in Int
      BY <1>3
    <3>7. QED
      BY <3>4, <3>5, <3>6 DEF MatchAhead
  <2>3. Waiting' /\ ~stalled' => now' - base' < Modulus
    BY <1>2, <1>5 DEF WakeInv
  <2>4. QED
    BY <1>2, <2>1, <2>2, <2>3 DEF WakeInv
<1>7. CASE ~(Elapsed < step)
  <2>1. pc' = "disable" /\ event'
    <3>1. Elapsed >= step
      BY <1>3, <1>7
    <3>2. QED
      BY <1>1, <1>7, <3>1, Zenon
  <2>2. Waiting' /\ ~stalled' => now' - base' < Modulus
    BY <1>2, <1>5 DEF WakeInv
  <2>3. QED
    BY <2>1, <2>2 DEF WakeInv
<1>8. QED
  BY <1>6, <1>7

(* The other steps: setting the match, enabling it, leaving, the handler   *)
(* and the calls, after which the match is set anew.                       *)
LEMMA WakeStep == TypeOK /\ WakeInv /\ [Next]_vars => WakeInv'
<1> SUFFICES ASSUME TypeOK, WakeInv, [Next]_vars PROVE WakeInv'
  OBVIOUS
<1> DEFINE Same == UNCHANGED <<now, match, timers, base, stalled>>
<1>0. Same => /\ Waiting' = Waiting /\ MatchSet' = MatchSet /\ MatchAhead' = MatchAhead
              /\ Waiting' /\ ~stalled' => now' - base' < Modulus
  BY DEF Waiting, MatchSet, MatchAhead, IsHead, MatchFor, WakeInv
<1>1. CASE Tick
  BY <1>1, TickWakes
<1>2. CASE Timer3Irq
  <2>1. Same /\ pc' = pc
    BY <1>2 DEF Timer3Irq, timing
  <2>2. (event \/ "EVT" \in ir) => event'
    BY <1>2, Zenon DEF Timer3Irq
  <2>3. QED
    BY <1>0, <2>1, <2>2 DEF WakeInv
<1>3. CASE SetMatch
  <2>1. pc = "update" /\ UNCHANGED <<now, timers, base, stalled, event>>
    BY <1>3 DEF SetMatch
  <2>2. Waiting' = Waiting /\ (Waiting' /\ ~stalled' => now' - base' < Modulus)
    BY <2>1 DEF Waiting, WakeInv
  <2>3. CASE ~Waiting
    <3>1. pc' = "disable"
      BY <1>3, <2>3 DEF SetMatch
    <3>2. QED
      BY <2>2, <2>3, <3>1 DEF WakeInv
  <2>4. CASE Waiting
    <3>1. PICK step : IsHead(step) /\ match' = [match EXCEPT !.at = MatchFor(step)]
      BY <1>3, <2>4 DEF SetMatch
    <3>2. step \in Int /\ match'.at = MatchFor(step)
      BY <3>1, HeadWaits DEF TypeOK
    <3>3. MatchSet'
      BY <2>1, <3>1, <3>2 DEF MatchSet, IsHead, MatchFor
    <3>4. pc' = "enable"
      BY <1>3, <2>4 DEF SetMatch
    <3>5. QED
      BY <2>2, <2>4, <3>3, <3>4 DEF WakeInv
  <2>5. QED
    BY <2>3, <2>4
<1>4. CASE EnableMatch
  <2>1. /\ pc = "enable" /\ pc' = "test" /\ match' = [match EXCEPT !.on = TRUE]
        /\ UNCHANGED <<now, timers, base, stalled, event>>
    BY <1>4 DEF EnableMatch
  <2>2. match'.at = match.at /\ match'.on
    BY <2>1 DEF TypeOK
  <2>3. Waiting' = Waiting /\ MatchSet' = MatchSet
    BY <2>1, <2>2 DEF Waiting, MatchSet, IsHead, MatchFor
  <2>4. Waiting' /\ ~stalled' => now' - base' < Modulus
    BY <2>1, <2>3 DEF WakeInv
  <2>5. QED
    BY <2>1, <2>2, <2>3, <2>4 DEF WakeInv
<1>5. CASE TestElapsed
  BY <1>5, TestWakes
<1>6. CASE DisableMatch
  <2>1. /\ pc = "disable" /\ pc' = "rest"
        /\ UNCHANGED <<now, timers, base, stalled, event, ir>>
    BY <1>6 DEF DisableMatch
  <2>2. Waiting' = Waiting /\ (Waiting' /\ ~stalled' => now' - base' < Modulus)
    BY <2>1 DEF Waiting, WakeInv
  <2>3. Waiting => event'
    BY <2>1, Zenon DEF WakeInv
  <2>4. QED
    BY <2>1, <2>2, <2>3 DEF WakeInv
<1>7. ASSUME NEW t \in Timers, NEW d \in Delays, SetTimer(t, d) PROVE WakeInv'
  <2>1. pc' = "update" /\ now' = now
    BY <1>7 DEF SetTimer
  <2>2. \/ base' = now
        \/ Waiting /\ base' = base /\ stalled' = stalled
    BY <1>7, Zenon DEF SetTimer
  <2>3. Waiting' /\ ~stalled' => now' - base' < Modulus
    BY <2>1, <2>2, ModulusAssumption DEF WakeInv, TypeOK
  <2>4. QED
    BY <2>1, <2>3 DEF WakeInv
<1>8. ASSUME NEW t \in Timers, ClearTimer(t) PROVE WakeInv'
  <2>1. pc' = "update" /\ UNCHANGED <<now, base, stalled>> /\ t \in DOMAIN timers
    BY <1>8 DEF ClearTimer
  <2>2. Waiting' /\ ~stalled' => now' - base' < Modulus
    BY <2>1 DEF WakeInv, Waiting
  <2>3. QED
    BY <2>1, <2>2 DEF WakeInv
<1>9. CASE TimerEvent
  <2>1. pc' = "update" /\ now' = now /\ base' = now
    BY <1>9 DEF TimerEvent
  <2>2. QED
    BY <2>1, ModulusAssumption DEF WakeInv, TypeOK
<1>10. CASE Clock
  <2>1. Same /\ UNCHANGED <<pc, event, ir>>
    BY <1>10 DEF Clock, BeginStamp, EndStamp, BeginSetClock, EndSetClock
  <2>2. QED
    BY <1>0, <2>1 DEF WakeInv
<1>11. CASE UNCHANGED vars
  <2>1. Same /\ UNCHANGED <<pc, event, ir>>
    BY <1>11 DEF vars
  <2>2. QED
    BY <1>0, <2>1 DEF WakeInv
<1>12. QED
  BY <1>1, <1>2, <1>3, <1>4, <1>5, <1>6, <1>7, <1>8, <1>9, <1>10, <1>11 DEF Next, Update

(* The variables keep their types.                                         *)
THEOREM TypeCorrect == Spec => []TypeOK
BY InitTypes, TypeStep, PTL DEF Spec

(* For every range of the counter, any timers and any delays, no timer is  *)
(* due without its wakeup being under way, wherever the counter is when    *)
(* hw_timer_update_interrupt sets, enables and tests the match.            *)
THEOREM WakeupsNotLost == Spec => []WakeupNotLost
<1>1. Init => WakeInv
  BY DEF Init, WakeInv, Waiting
<1>2. TypeOK /\ WakeInv => WakeupNotLost
  <2> SUFFICES ASSUME TypeOK, WakeInv, pc = "rest", ~stalled,
                      NEW t \in DOMAIN timers, base + timers[t] <= now, ~event,
                      "EVT" \notin ir
               PROVE  FALSE
    BY Zenon DEF WakeupNotLost
  <2>1. Waiting
    BY DEF Waiting
  <2>2. MatchAhead
    BY <2>1, Zenon DEF WakeInv
  <2>3. PICK step \in Int : IsHead(step) /\ base + step > now
    BY <2>2 DEF MatchAhead
  <2>4. step <= timers[t]
    BY <2>3 DEF IsHead
  <2>5. QED
    BY <2>3, <2>4 DEF TypeOK
<1>3. QED
  BY InitTypes, TypeStep, WakeStep, <1>1, <1>2, PTL DEF Spec

-----------------------------------------------------------------------------
(* The time of day.                                                        *)

Setting == clock # NULL /\ clock.op = "set"
Debt == IF "OVF" \in ir THEN Modulus - 1 ELSE 0

(* The base owes what the handler of a wrap has still to add, and what a   *)
(* use of the clock has read is as it was while the use is undisturbed.    *)
ClockInv ==
  /\ ~day.raced /\ ~Setting => tsbase + Tc + Debt = Shown
  /\ ~day.raced \/ Setting => day.off = 0
  /\ clock # NULL => clock.wraps <= day.wraps
  /\ clock # NULL /\ Undisturbed =>
       /\ "OVF" \notin ir
       /\ clock.op = "base" => clock.value = tsbase
       /\ clock.op = "tc" /\ ~day.raced => clock.value + tsbase = clock.shown
       /\ clock.op = "set" => clock.value + Tc = Shown

LEMMA ClockSame ==
  ASSUME ClockInv, UNCHANGED <<now, tsbase, clock, day>>, ("OVF" \in ir') <=> ("OVF" \in ir)
  PROVE  ClockInv'
BY DEF ClockInv, Setting, Debt, Undisturbed, Tc, Shown

(* A wrap leaves the time shown where it is and a debt of one less than    *)
(* the counter's range; any other tick adds one on both sides.             *)
LEMMA ClockTick == TypeOK /\ ClockInv /\ Tick => ClockInv'
<1> SUFFICES ASSUME TypeOK, ClockInv, Tick PROVE ClockInv'
  OBVIOUS
<1>1. /\ now' = now + 1 /\ UNCHANGED <<tsbase, clock>>
      /\ day' = [day EXCEPT !.wraps = IF Tc' = 0 THEN @ + 1 ELSE @]
      /\ Tc' = 0 => "OVF" \notin ir
      /\ "OVF" \in ir' <=> "OVF" \in ir \/ Tc' = 0
  BY DEF Tick
<1>2. /\ Tc \in 0..(Modulus - 1)
      /\ Tc' = IF Tc = Modulus - 1 THEN 0 ELSE Tc + 1
  BY <1>1, ModRange, ModNext DEF Tc, TypeOK
<1>3. /\ day'.raced = day.raced /\ day'.off = day.off /\ day'.start = day.start
      /\ day'.wraps = IF Tc' = 0 THEN day.wraps + 1 ELSE day.wraps
  BY <1>1 DEF TypeOK
<1>4. Setting' = Setting
  BY <1>1 DEF Setting
<1>5. CASE Tc' = 0
  <2>1. Tc = Modulus - 1 /\ "OVF" \notin ir /\ "OVF" \in ir' /\ day'.wraps = day.wraps + 1
    BY <1>1, <1>2, <1>3, <1>5
  <2>2. Shown' = Shown
    BY <1>1, <1>3, <2>1 DEF Shown, TypeOK
  <2>3. Tc' + Debt' = Tc + Debt
    BY <1>2, <1>5, <2>1, ModulusAssumption DEF Debt
  <2>4. tsbase' + Tc' + Debt' = tsbase + Tc + Debt
    BY <1>1, <1>2, <2>3, ModulusAssumption DEF Debt, TypeOK
  <2>5. clock # NULL => clock.wraps <= day'.wraps /\ clock.wraps # day'.wraps
    BY <2>1 DEF ClockInv, TypeOK, Uses
  <2>6. clock # NULL => ~Undisturbed'
    BY <1>1, <2>5 DEF Undisturbed
  <2>7. QED
    BY <1>1, <1>3, <1>4, <2>2, <2>4, <2>5, <2>6 DEF ClockInv
<1>6. CASE Tc' # 0
  <2>1. /\ Tc' = Tc + 1 /\ day'.wraps = day.wraps
        /\ "OVF" \in ir' <=> "OVF" \in ir
    BY <1>1, <1>2, <1>3, <1>6
  <2>2. Shown' = Shown + 1 /\ Shown \in Int
    BY <1>1, <1>3, <2>1 DEF Shown, TypeOK
  <2>3. Debt' = Debt /\ Debt \in Int
    BY <2>1, ModulusAssumption DEF Debt
  <2>4. tsbase' + Tc' + Debt' = (tsbase + Tc + Debt) + 1
    BY <1>1, <1>2, <2>1, <2>3 DEF TypeOK
  <2>5. Undisturbed' = Undisturbed
    BY <1>1, <2>1 DEF Undisturbed
  <2>6. clock # NULL => clock.value \in Int
    BY DEF TypeOK, Uses
  <2>7. clock # NULL /\ clock.value + Tc = Shown => clock.value + Tc' = Shown'
    BY <1>2, <2>1, <2>2, <2>6
  <2>8. QED
    BY <1>1, <1>3, <1>4, <2>1, <2>2, <2>4, <2>5, <2>7 DEF ClockInv
<1>7. QED
  BY <1>5, <1>6

LEMMA ClockStep == TypeOK /\ ClockInv /\ [Next]_vars => ClockInv'
<1> SUFFICES ASSUME TypeOK, ClockInv, [Next]_vars PROVE ClockInv'
  OBVIOUS
<1>0. Tc \in Int /\ Shown \in Int /\ Debt \in Int
  BY ModRange, ModulusAssumption DEF Tc, Shown, Debt, TypeOK
<1>1. CASE Tick
  BY <1>1, ClockTick
<1>2. CASE Timer3Irq
  <2>1. ir' = {} /\ UNCHANGED <<now, clock, day>>
    BY <1>2 DEF Timer3Irq
  <2>2. Tc' = Tc /\ Shown' = Shown /\ Setting' = Setting /\ Undisturbed' = Undisturbed
    BY <2>1 DEF Tc, Shown, Setting, Undisturbed
  <2>3. tsbase' + Tc' + Debt' = tsbase + Tc + Debt
    BY <1>0, <1>2, <2>1, <2>2, ModulusAssumption DEF Timer3Irq, Wrapped, Debt, TypeOK
  <2>4. clock # NULL /\ Undisturbed => tsbase' = tsbase
    BY <1>2 DEF Timer3Irq, ClockInv
  <2>5. QED
    BY <2>1, <2>2, <2>3, <2>4 DEF ClockInv
<1>3. CASE Update \/ (\E t \in Timers : ClearTimer(t) \/ \E d \in Delays : SetTimer(t, d))
           \/ TimerEvent
  <2>1. UNCHANGED <<now, tsbase, clock, day, ir>>
    BY <1>3 DEF Update, SetMatch, EnableMatch, TestElapsed, DisableMatch, ClearTimer, SetTimer,
                TimerEvent
  <2>2. QED
    BY <2>1, ClockSame
<1>4. ASSUME NEW first \in {"base", "tc"}, BeginStamp(first) PROVE ClockInv'
  <2>1. /\ clock = NULL /\ UNCHANGED <<now, ir, tsbase>>
        /\ day' = [day EXCEPT !.uses = @ + 1]
        /\ clock' = [op |-> first, wraps |-> day.wraps, clean |-> "OVF" \notin ir,
                     shown |-> Shown, value |-> IF first = "base" THEN tsbase ELSE Tc]
    BY <1>4 DEF BeginStamp
  <2>2. /\ day'.raced = day.raced /\ day'.off = day.off /\ day'.start = day.start
        /\ day'.wraps = day.wraps
    BY <2>1 DEF TypeOK
  <2>3. Tc' = Tc /\ Shown' = Shown /\ Debt' = Debt
    BY <2>1, <2>2 DEF Tc, Shown, Debt
  <2>4. ~Setting /\ ~Setting'
    BY <2>1 DEF Setting
  <2>5. /\ clock'.op = first /\ clock'.wraps = day.wraps /\ clock'.shown = Shown
        /\ clock'.value = IF first = "base" THEN tsbase ELSE Tc
    BY <2>1
  <2>6. Undisturbed' => "OVF" \notin ir
    BY <2>1, Zenon DEF Undisturbed
  <2>7. "OVF" \notin ir /\ ~day.raced => Tc + tsbase = Shown
    BY <1>0, <2>4 DEF ClockInv, Debt, TypeOK
  <2>8. QED
    BY <2>1, <2>2, <2>3, <2>4, <2>5, <2>6, <2>7 DEF ClockInv, TypeOK
<1>5. CASE EndStamp
  <2>1. /\ clock \in Uses /\ clock.op \in {"base", "tc"} /\ clock' = NULL
        /\ UNCHANGED <<now, ir, tsbase>>
    BY <1>5 DEF EndStamp, TypeOK
  <2>2. /\ day'.raced = day.raced /\ day'.start = day.start /\ day'.wraps = day.wraps
        /\ day'.off = CASE ~Undisturbed -> 0
                     [] Undisturbed /\ clock.op = "base" -> clock.value + Tc - Shown
                     [] Undisturbed /\ clock.op = "tc" -> clock.value + tsbase - clock.shown
    BY <1>5 DEF EndStamp, TypeOK
  <2>3. Tc' = Tc /\ Shown' = Shown /\ Debt' = Debt /\ ~Setting /\ ~Setting'
    BY <2>1, <2>2, NullAssumption DEF Tc, Shown, Debt, Setting
  <2>4. ~day.raced => day'.off = 0
    <3> SUFFICES ASSUME ~day.raced PROVE day'.off = 0
      OBVIOUS
    <3>1. CASE ~Undisturbed
      BY <2>1, <2>2, <3>1
    <3>2. CASE Undisturbed /\ clock.op = "base"
      <4>1. clock.value = tsbase /\ "OVF" \notin ir
        BY <2>1, <3>2, NullAssumption DEF ClockInv
      <4>2. tsbase + Tc = Shown
        BY <1>0, <2>3, <4>1 DEF ClockInv, Debt, TypeOK
      <4>3. day'.off = clock.value + Tc - Shown
        BY <2>2, <3>2
      <4>4. QED
        BY <1>0, <4>1, <4>2, <4>3 DEF TypeOK
    <3>3. CASE Undisturbed /\ clock.op = "tc"
      <4>1. clock.value + tsbase = clock.shown
        BY <2>1, <3>3, NullAssumption DEF ClockInv
      <4>2. day'.off = clock.value + tsbase - clock.shown
        BY <2>2, <3>3
      <4>3. QED
        BY <2>1, <4>1, <4>2 DEF Uses, TypeOK
    <3>4. QED
      BY <2>1, <3>1, <3>2, <3>3
  <2>5. QED
    BY <2>1, <2>2, <2>3, <2>4 DEF ClockInv
<1>6. ASSUME NEW micros \in Clocks, BeginSetClock(micros) PROVE ClockInv'
  <2>1. /\ micros \in Int /\ clock = NULL /\ UNCHANGED <<now, ir, tsbase>>
        /\ day' = [start |-> micros - now, wraps |-> 0, raced |-> day.raced,
                   uses |-> day.uses + 1, off |-> 0]
        /\ clock' = [op |-> "set", wraps |-> 0, clean |-> "OVF" \notin ir, shown |-> micros,
                     value |-> micros - Tc]
    BY <1>6, DelayAssumption DEF BeginSetClock
  <2>2. /\ day'.off = 0 /\ day'.start = micros - now /\ day'.wraps = 0
        /\ clock'.op = "set" /\ clock'.wraps = 0 /\ clock'.value = micros - Tc
    BY <2>1
  <2>3. Shown' = micros /\ Tc' = Tc
    BY <2>1, <2>2 DEF Shown, Tc, TypeOK
  <2>4. clock'.value + Tc' = Shown'
    BY <1>0, <2>1, <2>2, <2>3
  <2>5. clock' # NULL
    <3>1. clock' \in Uses
      BY <1>0, <2>1 DEF Uses
    <3>2. QED
      BY <3>1, NullAssumption
  <2>6. Setting'
    BY <2>2, <2>5 DEF Setting
  <2>7. Undisturbed' => "OVF" \notin ir'
    BY <2>1, Zenon DEF Undisturbed
  <2>8. QED
    BY <2>2, <2>4, <2>6, <2>7 DEF ClockInv
<1>7. CASE EndSetClock
  <2>1. /\ clock # NULL /\ clock.op = "set" /\ clock' = NULL /\ tsbase' = clock.value
        /\ UNCHANGED <<now, ir>> /\ day' = [day EXCEPT !.raced = ~Undisturbed]
    BY <1>7 DEF EndSetClock
  <2>2. /\ day'.off = day.off /\ day'.start = day.start /\ day'.wraps = day.wraps
        /\ ~day'.raced => Undisturbed
    BY <2>1 DEF TypeOK
  <2>3. Tc' = Tc /\ Shown' = Shown /\ Debt' = Debt /\ Setting /\ ~Setting'
    BY <2>1, <2>2 DEF Tc, Shown, Debt, Setting
  <2>4. Undisturbed => tsbase' + Tc' + Debt' = Shown'
    BY <1>0, <2>1, <2>3 DEF ClockInv, Debt, TypeOK, Uses
  <2>5. QED
    BY <2>1, <2>2, <2>3, <2>4 DEF ClockInv
<1>8. CASE UNCHANGED vars
  BY <1>8, ClockSame DEF vars
<1>9. QED
  BY <1>1, <1>2, <1>3, <1>4, <1>5, <1>6, <1>7, <1>8 DEF Next, Clock

(* For every range of the counter, whenever wraps and uses of the clock    *)
(* fall, the time of day is the time that has passed less one tick for     *)
(* each wrap, once the wrap has been handled.                              *)
THEOREM ClockIsKept == Spec => []ClockKept
<1>1. Init => ClockInv
  <2> SUFFICES ASSUME Init PROVE ClockInv
    OBVIOUS
  <2>1. now = 0 /\ tsbase = 0 /\ clock = NULL /\ ir = {}
    BY DEF Init
  <2>2. day.start = 0 /\ day.wraps = 0 /\ day.off = 0
    BY DEF Init
  <2>3. Tc = 0 /\ Shown = 0 /\ Debt = 0
    BY <2>1, <2>2, ModSmall, ModulusAssumption DEF Tc, Shown, Debt
  <2>4. QED
    BY <2>1, <2>2, <2>3 DEF ClockInv
<1>2. TypeOK /\ ClockInv => ClockKept
  <2> SUFFICES ASSUME TypeOK, ClockInv, ~day.raced, ~Setting
               PROVE  /\ "OVF" \notin ir => tsbase + Tc = Shown
                      /\ day.off = 0
    BY DEF ClockKept, Setting
  <2>1. Tc \in Int
    BY ModRange DEF Tc, TypeOK
  <2>2. QED
    BY <2>1 DEF ClockInv, Debt, TypeOK
<1>3. QED
  BY InitTypes, TypeStep, ClockStep, <1>1, <1>2, PTL DEF Spec
=============================================================================
