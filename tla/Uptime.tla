-------------------------------- MODULE Uptime --------------------------------
(***************************************************************************)
(* Timer 3: the microsecond counter, the match interrupt that wakes the    *)
(* script's timers (src/src/tm/tm_uptime.c) and the time of day built on   *)
(* the counter (src/src/tm/tm_timestamp.c).  The list of timers belongs to *)
(* the runtime and is modelled from how the firmware uses it: delays       *)
(* relative to a base, of which the least is the head.                     *)
(***************************************************************************)
EXTENDS Integers

CONSTANTS
  Modulus,   (* the counter's range, 2^32 in the code                      *)
  Timers,
  Delays,    (* delays scripts ask for                                     *)
  Clocks,    (* times of day the clock is set to                           *)
  MaxTime,   (* bound: ticks                                               *)
  MaxStamps, (* bound: uses of the clock                                   *)
  NULL

ASSUME ModulusAssumption == Modulus \in Nat \ {0}
ASSUME DelayAssumption ==
  /\ Delays \subseteq 0..(Modulus - 1) /\ Clocks \subseteq Int
  /\ {MaxTime, MaxStamps} \subseteq Nat

(* A use of the clock between its two steps: what has been read, the wraps *)
(* then and whether one waited, and what the clock showed.                 *)
Uses == [op : {"base", "tc", "set"}, wraps : Nat, clean : BOOLEAN, shown : Int, value : Int]
ASSUME NullAssumption == NULL \notin Uses

VARIABLES
  now,     (* ticks since the counter was started                          *)
  match,   (* MR[EVT] and, in MCR, whether it interrupts                   *)
  ir,      (* the flags of the timer that ask for its handler              *)
  event,   (* tm_timer_event is pending                                    *)
  pc,      (* where hw_timer_update_interrupt is                           *)
  timers,  (* the timers that wait, with their delays from base            *)
  base,    (* tm_timer_base_time, as the tick it was taken from TC         *)
  stalled, (* history: the base grew older than the counter's range        *)
  tsbase,  (* timestamp_base                                               *)
  clock,   (* what tm_timestamp or tm_timestamp_update has read so far     *)
  day      (* history: the time of day at tick 0, the wraps since it was   *)
           (* set and whether one came while it was set, the uses of the   *)
           (* clock, and how wrong the last reading was                    *)

vars == <<now, match, ir, event, pc, timers, base, stalled, tsbase, clock, day>>
timing == <<match, pc, timers, base>>

(* TC, and the unsigned difference to a tick.                              *)
Tc == now % Modulus
Elapsed == (now - base) % Modulus

(* timers is a function from the timers that wait.                         *)
Waiting == DOMAIN timers # {}
IsHead(step) ==
  /\ \E t \in DOMAIN timers : timers[t] = step
  /\ \A t \in DOMAIN timers : step <= timers[t]

Init ==
  /\ now = 0 /\ match = [at |-> 0, on |-> FALSE] /\ ir = {} /\ event = FALSE
  /\ pc = "rest" /\ timers = [t \in {} |-> 0] /\ base = 0 /\ stalled = FALSE
  /\ tsbase = 0 /\ clock = NULL
  /\ day = [start |-> 0, wraps |-> 0, raced |-> FALSE, uses |-> 0, off |-> 0]

-----------------------------------------------------------------------------
(* The hardware and the handler.                                           *)

(* Interrupts are not masked for the whole range of the counter.           *)
Tick ==
  /\ now < MaxTime
  /\ now' = now + 1
  /\ Tc' = 0 => "OVF" \notin ir
  /\ ir' = ir \union {f \in {"EVT", "OVF"} :
                        \/ (f = "EVT" /\ match.on /\ Tc' = match.at)
                        \/ (f = "OVF" /\ Tc' = 0)}
  /\ stalled' = (stalled \/ (Waiting /\ now' - base >= Modulus))
  /\ day' = [day EXCEPT !.wraps = IF Tc' = 0 THEN @ + 1 ELSE @]
  /\ UNCHANGED <<event, timing, tsbase, clock>>

(* tm_timestamp_wrapped adds one less than the counter's range.  The       *)
(* mutated form adds nothing.                                              *)
NoWrap(b) == b
Wrapped(b) == b + (Modulus - 1)

(* TIMER3_IRQHandler.                                                      *)
Timer3Irq ==
  /\ ir # {}
  /\ ir' = {}
  /\ event' = (event \/ "EVT" \in ir)
  /\ tsbase' = IF "OVF" \in ir THEN Wrapped(tsbase) ELSE tsbase
  /\ UNCHANGED <<now, timing, stalled, clock, day>>

-----------------------------------------------------------------------------
(* hw_timer_update_interrupt, one step per access to the timer.            *)

(* The match is a 32-bit sum.                                              *)
MatchFor(step) == (base + step) % Modulus

SetMatch ==
  /\ pc = "update"
  /\ \/ /\ ~Waiting
        /\ pc' = "disable"
        /\ UNCHANGED match
     \/ /\ Waiting
        /\ \E step \in {timers[t] : t \in DOMAIN timers} :
             /\ IsHead(step)
             /\ match' = [match EXCEPT !.at = MatchFor(step)]
        /\ pc' = "enable"
  /\ UNCHANGED <<now, ir, event, timers, base, stalled, tsbase, clock, day>>

EnableMatch ==
  /\ pc = "enable"
  /\ match' = [match EXCEPT !.on = TRUE]
  /\ pc' = "test"
  /\ UNCHANGED <<now, ir, event, timers, base, stalled, tsbase, clock, day>>

(* The mutated form is content with a match that is due this very tick.    *)
TestElapsedLate ==
  /\ pc = "test"
  /\ \E step \in {timers[t] : t \in DOMAIN timers} :
       /\ IsHead(step)
       /\ pc' = IF Elapsed <= step THEN "rest" ELSE "disable"
       /\ event' = (event \/ Elapsed > step)
  /\ UNCHANGED <<now, match, ir, timers, base, stalled, tsbase, clock, day>>
TestElapsed ==
  /\ pc = "test"
  /\ \E step \in {timers[t] : t \in DOMAIN timers} :
       /\ IsHead(step)
       /\ pc' = IF Elapsed < step THEN "rest" ELSE "disable"
       /\ event' = (event \/ Elapsed >= step)
  /\ UNCHANGED <<now, match, ir, timers, base, stalled, tsbase, clock, day>>

DisableMatch ==
  /\ pc = "disable"
  /\ match' = [match EXCEPT !.on = FALSE]
  /\ pc' = "rest"
  /\ UNCHANGED <<now, ir, event, timers, base, stalled, tsbase, clock, day>>

-----------------------------------------------------------------------------
(* The runtime's timers.                                                   *)

(* A first timer takes a new base.                                         *)
SetTimer(t, d) ==
  /\ pc = "rest" /\ clock = NULL
  /\ t \notin DOMAIN timers
  /\ \/ /\ ~Waiting
        /\ base' = now /\ stalled' = FALSE
        /\ timers' = [u \in {t} |-> d]
     \/ /\ Waiting /\ Elapsed + d < Modulus
        /\ timers' = [u \in DOMAIN timers \union {t} |->
                        IF u = t THEN Elapsed + d ELSE timers[u]]
        /\ UNCHANGED <<base, stalled>>
  /\ pc' = "update"
  /\ UNCHANGED <<now, match, ir, event, tsbase, clock, day>>

ClearTimer(t) ==
  /\ pc = "rest" /\ clock = NULL
  /\ t \in DOMAIN timers
  /\ timers' = [u \in DOMAIN timers \ {t} |-> timers[u]]
  /\ pc' = "update"
  /\ UNCHANGED <<now, match, ir, event, base, stalled, tsbase, clock, day>>

(* The callback of tm_timer_event: what is due is called, the others count *)
(* from now.                                                               *)
TimerEvent ==
  /\ pc = "rest" /\ clock = NULL
  /\ event /\ event' = FALSE
  /\ timers' = [u \in {t \in DOMAIN timers : timers[t] > Elapsed} |-> timers[u] - Elapsed]
  /\ base' = now /\ stalled' = FALSE
  /\ pc' = "update"
  /\ UNCHANGED <<now, match, ir, tsbase, clock, day>>

-----------------------------------------------------------------------------
(* The time of day, in two steps: the handler may come between them.       *)

(* What the clock shows when nothing goes wrong: it loses a tick with each *)
(* wrap.  A use is undisturbed if no wrap falls into it and none waits for *)
(* its handler.                                                            *)
Shown == day.start + now - day.wraps
Undisturbed == clock.clean /\ clock.wraps = day.wraps

(* tm_timestamp: C leaves the order of the two reads open.                 *)
BeginStamp(first) ==
  /\ pc = "rest" /\ clock = NULL /\ day.uses < MaxStamps
  /\ clock' = [op |-> first, wraps |-> day.wraps, clean |-> "OVF" \notin ir, shown |-> Shown,
               value |-> IF first = "base" THEN tsbase ELSE Tc]
  /\ day' = [day EXCEPT !.uses = @ + 1]
  /\ UNCHANGED <<now, match, ir, event, pc, timers, base, stalled, tsbase>>

EndStamp ==
  /\ clock # NULL /\ clock.op \in {"base", "tc"}
  /\ day' = [day EXCEPT !.off =
               CASE ~Undisturbed -> 0
                 [] Undisturbed /\ clock.op = "base" -> clock.value + Tc - Shown
                 [] Undisturbed /\ clock.op = "tc" -> clock.value + tsbase - clock.shown]
  /\ clock' = NULL
  /\ UNCHANGED <<now, match, ir, event, pc, timers, base, stalled, tsbase>>

(* tm_timestamp_update.                                                    *)
BeginSetClock(micros) ==
  /\ pc = "rest" /\ clock = NULL /\ day.uses < MaxStamps
  /\ clock' = [op |-> "set", wraps |-> 0, clean |-> "OVF" \notin ir, shown |-> micros,
               value |-> micros - Tc]
  /\ day' = [start |-> micros - now, wraps |-> 0, raced |-> day.raced, uses |-> day.uses + 1,
             off |-> 0]
  /\ UNCHANGED <<now, match, ir, event, pc, timers, base, stalled, tsbase>>

EndSetClock ==
  /\ clock # NULL /\ clock.op = "set"
  /\ tsbase' = clock.value
  /\ day' = [day EXCEPT !.raced = ~Undisturbed]
  /\ clock' = NULL
  /\ UNCHANGED <<now, match, ir, event, pc, timers, base, stalled>>

-----------------------------------------------------------------------------
Update == SetMatch \/ EnableMatch \/ TestElapsed \/ DisableMatch
Clock ==
  \/ \E first \in {"base", "tc"} : BeginStamp(first)
  \/ \E micros \in Clocks : BeginSetClock(micros)
  \/ EndStamp \/ EndSetClock

Next ==
  \/ Tick \/ Timer3Irq
  \/ Update \/ Clock
  \/ \E t \in Timers : ClearTimer(t) \/ \E d \in Delays : SetTimer(t, d)
  \/ TimerEvent

Spec == Init /\ [][Next]_vars

-----------------------------------------------------------------------------
(* The variables have their types.                                         *)
TypeOK ==
  /\ now \in Nat /\ base \in Nat /\ base <= now
  /\ match \in [at : 0..(Modulus - 1), on : BOOLEAN]
  /\ ir \subseteq {"EVT", "OVF"} /\ event \in BOOLEAN /\ stalled \in BOOLEAN
  /\ pc \in {"rest", "update", "enable", "test", "disable"}
  /\ timers \in [DOMAIN timers -> 0..(Modulus - 1)]
  /\ tsbase \in Int
  /\ clock = NULL \/ clock \in Uses
  /\ day \in [start : Int, wraps : Nat, raced : BOOLEAN, uses : Nat, off : Int]

(* When the time of the first timer has come, its wakeup is under way: the *)
(* match has interrupted or the event is pending, however late the match   *)
(* was set and enabled.  (The main thread must look at its timers once in  *)
(* the counter's range, 71 minutes.)                                       *)
WakeupNotLost ==
  pc = "rest" /\ ~stalled /\ (\E t \in DOMAIN timers : base + timers[t] <= now)
    => event \/ "EVT" \in ir

(* The clock loses a tick at each wrap of the counter and nothing else:    *)
(* readings that no wrap falls into are right, unless a wrap fell into     *)
(* setting the clock, which is then wrong by the whole range for good.     *)
ClockKept ==
  ~day.raced /\ (IF clock = NULL THEN TRUE ELSE clock.op # "set")
    => /\ "OVF" \notin ir => tsbase + Tc = Shown
       /\ day.off = 0
=============================================================================
