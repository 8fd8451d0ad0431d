--------------------------------- MODULE Audio ---------------------------------
(***************************************************************************)
(* The audio module's player and recorder                                  *)
(* (src/src/module_shims/audio-vs1053b.c): a queue of buffers that goes to *)
(* the chip while its DREQ line is high, from the main thread or from the  *)
(* pin interrupt, and a recording read by the repetitive timer's handler.  *)
(* The event loop's shift event moves the queue on.  Data, stream ids and  *)
(* the registers are abstracted; bytes are counted in chunks.              *)
(***************************************************************************)
EXTENDS Integers, Sequences

CONSTANTS
  Lengths,      (* chunks in a buffer                                      *)
  MaxWords,     (* bound: words that wait in the chip                      *)
  RecWords,     (* words that fit in the script's recording buffer         *)
  MaxCalls,     (* bound: calls of the scripts                             *)
  MaxScripts,   (* bound: scripts                                          *)
  NULL

ASSUME AudioAssumption ==
  /\ Lengths \subseteq Nat
  /\ {MaxWords, RecWords, MaxCalls, MaxScripts} \subseteq Nat

VARIABLES
  state,      (* current_state                                             *)
  queue,      (* the list operating_playback_buf: buffer, chunks left      *)
  shift,      (* buffer_shift_event is pending                             *)
  armed,      (* the pin interrupt for a high DREQ is watched, not fired   *)
  dreq,       (* the DREQ line                                             *)
  pc,         (* what the main thread and the pin interrupt are doing      *)
  finished,   (* the buffer whose completion shift_buffer will emit        *)
  rec,        (* operating_recording_buf: its script and its reference     *)
  rit,        (* the repetitive timer interrupts                           *)
  chip,       (* the recording in the chip: words that wait, what it does  *)
  script,     (* the number of the running script, and of the last one     *)
  refs,       (* buffers the Lua registry keeps alive                      *)
  calls,
  slips       (* history: orders of calls the code has no answer for, and  *)
              (* what came of them                                         *)

vars == <<state, queue, shift, armed, dreq, pc, finished, rec, rit, chip, script, refs,
          calls, slips>>
player == <<queue, shift, armed, dreq, pc, finished>>
recorder == <<rec, rit, chip>>
session == <<script, refs, calls>>

Silent == [words |-> 0, doing |-> "nothing"]

Init ==
  /\ state = "STOPPED" /\ queue = <<>> /\ shift = FALSE
  /\ armed = FALSE /\ dreq \in BOOLEAN
  /\ pc = [main |-> "idle", isr |-> "idle"] /\ finished = NULL
  /\ rec = NULL /\ rit = FALSE /\ chip = Silent
  /\ script = [now |-> 1, last |-> 1] /\ refs = {} /\ calls = 0
  /\ slips = {}

(* The main thread runs only when no handler does.                         *)
Thread(t) == t = "main" => pc.isr = "idle"
AtRest == pc.isr = "idle" /\ pc.main = "idle"

(* A slip is noted when its condition holds.                               *)
Note(slip, cond) == IF cond THEN {slip} ELSE {}

-----------------------------------------------------------------------------
(* Sending, in the main thread or in the handler of the pin interrupt.     *)

(* After the watch, shift_buffer has a completion to emit.                 *)
Returned(t) ==
  [pc EXCEPT ![t] = IF t = "main" /\ finished # NULL THEN "emit" ELSE "idle"]

(* audio_watch_dreq: DREQ is read, and watched in a second step.           *)
LookAtDreq(t) ==
  /\ Thread(t) /\ pc[t] = "look"
  /\ pc' = [pc EXCEPT ![t] = IF dreq THEN "send" ELSE "watch"]
  /\ UNCHANGED <<state, queue, shift, armed, dreq, finished, recorder, session, slips>>

(* The interrupt is one of level: a DREQ that has risen since is not lost. *)
(* The mutated form waits for an edge.                                     *)
WatchDreqEdge(t) ==
  /\ Thread(t) /\ pc[t] = "watch"
  /\ armed' = ~dreq
  /\ pc' = Returned(t)
  /\ UNCHANGED <<state, queue, shift, dreq, finished, recorder, session, slips>>
WatchDreq(t) ==
  /\ Thread(t) /\ pc[t] = "watch"
  /\ armed' = TRUE
  /\ pc' = Returned(t)
  /\ UNCHANGED <<state, queue, shift, dreq, finished, recorder, session, slips>>

(* A chunk is sent while DREQ is high; the chip may be full after it.      *)
SendChunk(t) ==
  /\ Thread(t) /\ pc[t] = "send"
  /\ queue # <<>> /\ dreq /\ queue[1].left > 0
  /\ queue' = [queue EXCEPT ![1].left = @ - 1]
  /\ dreq' \in BOOLEAN
  /\ slips' = slips \union Note("sent_while_paused", state = "PAUSED")
  /\ UNCHANGED <<state, shift, armed, pc, finished, recorder, session>>

(* The end of audio_continue_spi.  The mutated form takes a chip that is   *)
(* full for the end of the buffer.                                         *)
StopSendingWhenFull(t) ==
  /\ Thread(t) /\ pc[t] = "send"
  /\ queue # <<>> => ~dreq \/ queue[1].left = 0
  /\ shift' = (shift \/ queue # <<>>)
  /\ pc' = Returned(t)
  /\ UNCHANGED <<state, queue, armed, dreq, finished, recorder, session, slips>>
StopSending(t) ==
  /\ Thread(t) /\ pc[t] = "send"
  /\ queue # <<>> => ~dreq \/ queue[1].left = 0
  /\ IF queue # <<>> /\ queue[1].left > 0
     THEN /\ pc' = [pc EXCEPT ![t] = "look"]
          /\ UNCHANGED shift
     ELSE /\ shift' = (shift \/ queue # <<>>)
          /\ pc' = Returned(t)
  /\ UNCHANGED <<state, queue, armed, dreq, finished, recorder, session, slips>>

(* The pin interrupt: place_awaiting_interrupt disables the level and      *)
(* calls audio_continue_spi.                                               *)
DreqInterrupt ==
  /\ pc.isr = "idle" /\ armed /\ dreq
  /\ armed' = FALSE
  /\ pc' = [pc EXCEPT !.isr = "send"]
  /\ UNCHANGED <<state, queue, shift, dreq, finished, recorder, session, slips>>

-----------------------------------------------------------------------------
(* The calls that stop the player, as operators on its part of the state.  *)

(* audio_pause_buffer.                                                     *)
Paused ==
  /\ armed' = FALSE
  /\ state' = "PAUSED"
  /\ slips' = slips \union Note("pause_before_shift", shift)

(* audio_stop_buffer: the queue is freed, its references are not dropped,  *)
(* and a shift event stays pending.  The mutated form stays paused, as     *)
(* audio_pause_buffer leaves it.                                           *)
CanStop == queue # <<>> /\ state # "RECORDING"
StoppedAsPaused ==
  /\ armed' = FALSE
  /\ queue' = <<>>
  /\ state' = "PAUSED"
  /\ slips' = slips \union Note("stale_shift", shift)
Stopped ==
  /\ armed' = FALSE
  /\ queue' = <<>>
  /\ state' = "STOPPED"
  /\ slips' = slips \union Note("stale_shift", shift)

-----------------------------------------------------------------------------
(* The shift event.                                                        *)

TakeShift ==
  /\ AtRest /\ shift
  /\ shift' = FALSE
  /\ pc' = [pc EXCEPT !.main = "shift"]
  /\ UNCHANGED <<state, queue, armed, dreq, finished, recorder, session, slips>>

(* The references are the new head's, not those of the buffer that ends.   *)
ShiftBuffer ==
  /\ Thread("main") /\ pc.main = "shift"
  /\ \/ /\ queue = <<>>
        /\ pc' = [pc EXCEPT !.main = "idle"]
        /\ UNCHANGED <<state, queue, armed, finished, refs, slips>>
     \/ /\ Len(queue) = 1
        /\ Stopped
        /\ finished' = Head(queue) /\ pc' = [pc EXCEPT !.main = "emit"]
        /\ UNCHANGED refs
     \/ /\ Len(queue) > 1
        /\ queue' = Tail(queue)
        /\ refs' = IF script.now # 0 THEN refs \ {queue[2].b} ELSE refs
        /\ finished' = Head(queue) /\ pc' = [pc EXCEPT !.main = "look"]
        /\ slips' = slips \union Note("stale_shift", shift)
        /\ UNCHANGED <<state, armed>>
  /\ UNCHANGED <<shift, dreq, recorder, script, calls>>

(* audio_emit_completion.                                                  *)
EmitCompletion ==
  /\ Thread("main") /\ pc.main = "emit"
  /\ slips' = slips \union Note("completed_early", script.now # 0 /\ finished.left > 0)
  /\ finished' = NULL
  /\ pc' = [pc EXCEPT !.main = "idle"]
  /\ UNCHANGED <<state, queue, shift, armed, dreq, recorder, session>>

-----------------------------------------------------------------------------
(* The script's calls (src/src/hw/l_hw.c).                                 *)

Call ==
  /\ AtRest /\ script.now # 0 /\ calls < MaxCalls
  /\ calls' = calls + 1

(* audio_queue_buffer after the stop, if any: the queue is q.  The first   *)
(* buffer needs a pin interrupt.                                           *)
Queued(q, len, was) ==
  LET buf == [b |-> calls + 1, left |-> len]
  IN /\ refs' = refs \union {calls + 1}
     /\ \/ /\ was # "RECORDING"
           /\ state' = "PLAYING"
           /\ queue' = Append(q, buf)
           /\ pc' = IF q = <<>> THEN [pc EXCEPT !.main = "look"] ELSE pc
        \/ /\ was = "RECORDING" \/ q = <<>>
           /\ state' = was /\ queue' = q
           /\ UNCHANGED pc
     /\ UNCHANGED <<shift, dreq, finished, recorder, script>>

QueueBuffer(len) ==
  /\ Call
  /\ Queued(queue, len, state)
  /\ slips' = slips \union Note("queued_while_paused", state = "PAUSED")
                    \union Note("played_while_cancelling", state = "CANCELLING")
  /\ UNCHANGED armed

PlayBuffer(len) ==
  /\ Call /\ len > 0
  /\ IF queue # <<>> /\ state \notin {"STOPPED", "RECORDING"}
     THEN /\ armed' = FALSE
          /\ slips' = slips \union Note("stale_shift", shift)
          /\ Queued(<<>>, len, "STOPPED")
     ELSE /\ slips' = slips \union Note("played_while_cancelling", state = "CANCELLING")
          /\ Queued(queue, len, state)
          /\ UNCHANGED armed

StopBuffer ==
  /\ Call /\ CanStop
  /\ Stopped
  /\ UNCHANGED <<shift, dreq, pc, finished, recorder, script, refs>>

PauseBuffer ==
  /\ Call /\ queue # <<>> /\ state # "STOPPED"
  /\ Paused
  /\ UNCHANGED <<queue, shift, dreq, pc, finished, recorder, script, refs>>

(* A play of no data is a resume.                                          *)
ResumeBuffer ==
  /\ Call /\ queue # <<>> /\ state = "PAUSED"
  /\ state' = "PLAYING" /\ armed' = TRUE
  /\ UNCHANGED <<queue, shift, dreq, pc, finished, recorder, script, refs, slips>>

(* audio_start_recording: a plugin that does not load leaves the recording *)
(* structure behind.                                                       *)
StartRecording ==
  /\ Call /\ state = "STOPPED"
  /\ rec' = [script |-> script.now, ref |-> calls + 1]
  /\ refs' = refs \union {calls + 1}
  /\ \/ /\ state' = "RECORDING" /\ rit' = TRUE
        /\ chip' = [Silent EXCEPT !.doing = "recording"]
     \/ /\ chip' = Silent
        /\ UNCHANGED <<state, rit>>
  /\ UNCHANGED <<player, script, slips>>

(* audio_stop_recording(true): the chip is told, the timer goes on.  The   *)
(* mutated form stops the timer.                                           *)
StopRecordingStopsTimer ==
  /\ Call /\ rec # NULL /\ state = "RECORDING"
  /\ chip' = [chip EXCEPT !.doing = "ending"]
  /\ state' = "CANCELLING" /\ rit' = FALSE
  /\ UNCHANGED <<player, rec, script, refs, slips>>
StopRecording ==
  /\ Call /\ rec # NULL /\ state = "RECORDING"
  /\ chip' = [chip EXCEPT !.doing = "ending"]
  /\ state' = "CANCELLING"
  /\ UNCHANGED <<player, rec, rit, script, refs, slips>>

-----------------------------------------------------------------------------
(* The handler of the repetitive timer.                                    *)

(* freeRecordingResources: the reference is dropped in the Lua state of    *)
(* the moment.                                                             *)
Freed ==
  /\ rec' = NULL /\ rit' = FALSE /\ chip' = Silent
  /\ refs' = IF rec.script = script.now THEN refs \ {rec.ref} ELSE refs
  /\ slips' = slips \union
       Note("reference_of_another_script_dropped", rec.script # script.now)

Lesser(a, b) == IF a < b THEN a ELSE b

(* recording_register_check, read_recorded_data and                        *)
(* audio_recording_stop_complete.  One word is left until the end.         *)
RitInterrupt ==
  /\ pc.isr = "idle" /\ rit
  /\ \/ /\ rec # NULL /\ chip.words > 2
        /\ chip' = [chip EXCEPT !.words = @ - Lesser(@ - 1, RecWords)]
        /\ slips' = slips \union Note("written_after_the_script", rec.script # script.now)
        /\ UNCHANGED <<state, rec, rit, refs>>
     \/ /\ rec # NULL /\ chip.words <= 2
        /\ state = "CANCELLING" /\ chip.doing = "ended"
        /\ Freed
        /\ state' = "STOPPED"
  /\ UNCHANGED <<player, script, calls>>

-----------------------------------------------------------------------------
(* The chip.                                                               *)

DreqRises ==
  /\ ~dreq /\ dreq' = TRUE
  /\ UNCHANGED <<state, queue, shift, armed, pc, finished, recorder, session, slips>>

ChipRecords ==
  /\ chip.doing = "recording" /\ chip.words < MaxWords
  /\ chip' = [chip EXCEPT !.words = @ + 1]
  /\ UNCHANGED <<state, player, rec, rit, session, slips>>

ChipEnds ==
  /\ chip.doing = "ending"
  /\ chip' = [chip EXCEPT !.doing = "ended"]
  /\ UNCHANGED <<state, player, rec, rit, session, slips>>

-----------------------------------------------------------------------------
(* The end of a script and the start of the next (src/src/main.c).         *)

(* audio_reset: audio_stop_recording refuses a recording that is being     *)
(* cancelled, and the Lua state is closed.  The mutated form forgets the   *)
(* recordings.                                                             *)
EndScriptPlayerOnly ==
  /\ AtRest /\ script.now # 0
  /\ script' = [script EXCEPT !.now = 0]
  /\ \/ /\ state \in {"PLAYING", "PAUSED"} /\ CanStop
        /\ Stopped
     \/ /\ state \notin {"PLAYING", "PAUSED"}
        /\ UNCHANGED <<state, queue, armed, slips>>
  /\ refs' = {}
  /\ UNCHANGED <<shift, dreq, pc, finished, calls, recorder>>
EndScript ==
  /\ AtRest /\ script.now # 0
  /\ script' = [script EXCEPT !.now = 0]
  /\ \/ /\ state \in {"PLAYING", "PAUSED"} /\ CanStop
        /\ Stopped
        /\ UNCHANGED recorder
     \/ /\ state = "RECORDING" /\ rec # NULL
        /\ rec' = NULL /\ rit' = FALSE /\ chip' = Silent
        /\ state' = "STOPPED"
        /\ UNCHANGED <<queue, armed, slips>>
     \/ /\ state \in {"STOPPED", "CANCELLING"}
        /\ slips' = slips \union Note("ended_while_cancelling", state = "CANCELLING")
        /\ UNCHANGED <<state, queue, armed, recorder>>
  /\ refs' = {}
  /\ UNCHANGED <<shift, dreq, pc, finished, calls>>

StartScript ==
  /\ AtRest /\ script.now = 0 /\ script.last < MaxScripts
  /\ script' = [now |-> script.last + 1, last |-> script.last + 1]
  /\ UNCHANGED <<state, player, recorder, refs, calls, slips>>

-----------------------------------------------------------------------------
Send(t) == LookAtDreq(t) \/ WatchDreq(t) \/ SendChunk(t) \/ StopSending(t)
Main == Send("main") \/ TakeShift \/ ShiftBuffer \/ EmitCompletion
Script ==
  \/ \E len \in Lengths : QueueBuffer(len) \/ PlayBuffer(len)
  \/ StopBuffer \/ PauseBuffer \/ ResumeBuffer
  \/ StartRecording \/ StopRecording
  \/ EndScript \/ StartScript

Next ==
  \/ Main \/ Script
  \/ Send("isr") \/ DreqInterrupt \/ RitInterrupt
  \/ DreqRises \/ ChipRecords \/ ChipEnds

Spec == Init /\ [][Next]_vars

(* The event loop and the handlers run, DREQ rises again and the chip ends *)
(* a recording it is told to end; scripts call when they like.             *)
FairSpec ==
  /\ Spec
  /\ WF_vars(Main) /\ WF_vars(Send("isr")) /\ WF_vars(DreqInterrupt)
  /\ WF_vars(RitInterrupt) /\ WF_vars(DreqRises) /\ WF_vars(ChipEnds)

-----------------------------------------------------------------------------
States == {"PLAYING", "STOPPED", "PAUSED", "RECORDING", "CANCELLING"}

(* The variables have their types, and the queue has buffers exactly when  *)
(* the state says so: the handlers change one without the other nowhere.   *)
TypeOK ==
  /\ state \in States
  /\ \A i \in 1..Len(queue) : queue[i].b \in Nat /\ queue[i].left \in Nat
  /\ {shift, armed, dreq, rit} \subseteq BOOLEAN
  /\ pc.main \in {"idle", "look", "watch", "send", "shift", "emit"}
  /\ pc.isr \in {"idle", "look", "watch", "send"}
  /\ chip.words \in 0..MaxWords
  /\ (queue # <<>>) <=> (state \in {"PLAYING", "PAUSED"})

(* The script is told that a buffer is complete only when all of it has    *)
(* been sent, unless a shift event outlived the buffer it was meant for:   *)
(* then it ends the next one, of which nothing need have been sent.        *)
CompletedWasSent == "completed_early" \in slips => "stale_shift" \in slips

(* A paused player sends nothing, unless the pause came between the end of *)
(* a buffer and its shift event: then the next buffer plays on.            *)
PauseHolds == "sent_while_paused" \in slips => "pause_before_shift" \in slips

(* The player does what its script was told, as far as shift events are    *)
(* not overtaken by the script's calls.                                    *)
PlaybackIsTrue == CompletedWasSent /\ PauseHolds

(* The handler of the recording timer writes to no buffer and drops no     *)
(* reference of a script that has ended, unless the script ended, or the   *)
(* player was started, while the recording was being cancelled.            *)
RecorderKnowsItsScript ==
  slips \cap {"written_after_the_script", "reference_of_another_script_dropped"} # {}
    => slips \cap {"ended_while_cancelling", "played_while_cancelling"} # {}

(* A buffer that plays ends, unless one was queued while the player was    *)
(* paused: that makes it playing with nobody to continue it.               *)
BuffersEnd ==
  \A b \in 1..MaxCalls :
    (state = "PLAYING" /\ \E i \in 1..Len(queue) : queue[i].b = b)
      ~> \/ state # "PLAYING" \/ \A i \in 1..Len(queue) : queue[i].b # b
         \/ "queued_while_paused" \in slips

(* A cancelled recording is completed and its buffers are freed, unless    *)
(* the player was started in the meantime: then the timer runs for ever.   *)
CancelCompletes ==
  (state = "CANCELLING") ~> (rec = NULL \/ "played_while_cancelling" \in slips)

(* What the comments say, and the code does not do.  The references that   *)
(* are dropped when the queue moves on are those of the previous transfer: *)
(* the buffer that plays keeps its own.                                    *)
PlayingIsReferenced == queue # <<>> /\ script.now # 0 => Head(queue).b \in refs

(* Playback and recording are stopped when a script has ended.             *)
StoppedAtEnd == script.now = 0 => ~armed /\ ~rit /\ queue = <<>>
=============================================================================
