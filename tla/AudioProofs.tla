------------------------------- MODULE AudioProofs ------------------------------
(***************************************************************************)
(* Theorems about the audio module's player and recorder, for buffers of   *)
(* any length, any number of calls and of scripts: what the script is told *)
(* of its playback is true, and the recorder's handler keeps to its own    *)
(* script, but for the orders of calls that "slips" names.                 *)
(***************************************************************************)
EXTENDS Audio, SequenceTheorems, TLAPS

Buffers == [b : Nat, left : Nat]
Mains == {"idle", "look", "watch", "send", "shift", "emit"}
Handlers == {"idle", "look", "watch", "send"}

Chips == [words : 0..MaxWords, doing : {"nothing", "recording", "ending", "ended"}]

Types ==
  /\ state \in States
  /\ queue \in Seq(Buffers)
  /\ shift \in BOOLEAN /\ armed \in BOOLEAN /\ dreq \in BOOLEAN /\ rit \in BOOLEAN
  /\ pc \in [main : Mains, isr : Handlers]
  /\ chip \in Chips
  /\ calls \in Nat
  /\ (queue # <<>>) <=> (state \in {"PLAYING", "PAUSED"})

(* A shift event is for the buffer at the head, of which all is sent, and  *)
(* so is all of the buffer whose completion is to be emitted.              *)
Pending == shift \/ pc.main = "shift"
HeadSent == queue # <<>> /\ queue[1].left = 0
Emitting == finished # NULL \/ pc.main = "emit"
Sent ==
  "stale_shift" \notin slips =>
    (Pending => HeadSent) /\ (Emitting => finished.left = 0)

(* A paused player has nothing left to do.                                 *)
Still ==
  state = "PAUSED" /\ "pause_before_shift" \notin slips =>
    ~armed /\ ~shift /\ pc.main = "idle" /\ pc.isr = "idle"

(* The timer runs for the recording of the running script.                 *)
Astray == slips \cap {"ended_while_cancelling", "played_while_cancelling"} # {}
OwnRecording ==
  ~Astray =>
    (rit => state \in {"RECORDING", "CANCELLING"} /\ script.now # 0 /\ rec.script = script.now)

IInv ==
  /\ Types
  /\ Sent /\ Still /\ OwnRecording
  /\ CompletedWasSent /\ PauseHolds /\ RecorderKnowsItsScript

-----------------------------------------------------------------------------
LEMMA Reduced ==
  ASSUME NEW q \in Seq(Buffers), q # <<>>, q[1].left > 0
  PROVE  /\ [q EXCEPT ![1].left = @ - 1] \in Seq(Buffers)
         /\ [q EXCEPT ![1].left = @ - 1] # <<>>
<1>1. /\ Len(q) \in Nat /\ DOMAIN q = 1..Len(q) /\ 1 \in DOMAIN q
      /\ \A i \in 1..Len(q) : q[i] \in Buffers
  OBVIOUS
<1>2. [q[1] EXCEPT !.left = @ - 1] \in Buffers
  BY <1>1 DEF Buffers
<1>3. PICK b \in Buffers : b = [q[1] EXCEPT !.left = @ - 1]
  BY <1>2
<1>4. [q EXCEPT ![1].left = @ - 1] = [q EXCEPT ![1] = b]
  BY <1>1, <1>3
<1>5. QED
  BY <1>1, <1>4

LEMMA HeadBuffer ==
  ASSUME NEW q \in Seq(Buffers), q # <<>>
  PROVE  Head(q) = q[1] /\ q[1] \in Buffers /\ q[1].left \in Nat
<1>1. Head(q) = q[1] /\ q[1] \in Buffers
  OBVIOUS
<1>2. QED
  BY <1>1 DEF Buffers

LEMMA Threads == ASSUME Types, NEW t \in {"main", "isr"}
  PROVE  /\ pc[t] \in Mains /\ Returned(t) \in [main : Mains, isr : Handlers]
         /\ \A x \in Handlers : [pc EXCEPT ![t] = x] \in [main : Mains, isr : Handlers]
  BY DEF Types, Mains, Handlers, Returned

LEMMA Initials ==
  /\ <<>> \in Seq(Buffers) /\ Silent \in Chips
  /\ \A d \in {"recording", "ending", "ended"} : [Silent EXCEPT !.doing = d] \in Chips
<1>1. <<>> \in Seq(Buffers)
  OBVIOUS
<1>2. 0 \in 0..MaxWords
  BY AudioAssumption
<1>3. QED
  BY <1>1, <1>2 DEF Silent, Chips

LEMMA InitInv == Init => IInv
<1> SUFFICES ASSUME Init PROVE IInv
  OBVIOUS
<1>1. Types
  BY Initials DEF Init, Types, States, Mains, Handlers
<1>2. Sent /\ Still /\ OwnRecording
  BY DEF Init, Sent, Pending, Emitting, Still, OwnRecording
<1>3. CompletedWasSent /\ PauseHolds /\ RecorderKnowsItsScript
  BY DEF Init, CompletedWasSent, PauseHolds, RecorderKnowsItsScript
<1>4. QED
  BY <1>1, <1>2, <1>3 DEF IInv

-----------------------------------------------------------------------------
(* The types.                                                              *)

LEMMA QueuedTypes ==
  ASSUME Types, NEW q \in Seq(Buffers), NEW len \in Nat, NEW was \in States,
         q # <<>> <=> was \in {"PLAYING", "PAUSED"}, Queued(q, len, was)
  PROVE  /\ state' \in States /\ queue' \in Seq(Buffers)
         /\ (queue' # <<>>) <=> (state' \in {"PLAYING", "PAUSED"})
         /\ pc' \in [main : Mains, isr : Handlers]
         /\ UNCHANGED <<shift, dreq, rit, chip>>
<1>1. UNCHANGED <<shift, dreq, rit, chip>>
  BY DEF Queued, recorder
<1>2. pc' \in [main : Mains, isr : Handlers]
  BY DEF Queued, Types, Mains
<1>3. PICK buf : /\ buf = [b |-> calls + 1, left |-> len]
                 /\ \/ was # "RECORDING" /\ state' = "PLAYING" /\ queue' = Append(q, buf)
                    \/ (was = "RECORDING" \/ q = <<>>) /\ state' = was /\ queue' = q
  BY DEF Queued
<1>4. buf \in Buffers
  BY <1>3 DEF Buffers, Types
<1>5. Append(q, buf) \in Seq(Buffers) /\ Append(q, buf) # <<>>
  BY <1>4, AppendProperties
<1>6. QED
  BY <1>1, <1>2, <1>3, <1>5 DEF States

LEMMA TypeStep ==
  ASSUME Types, [Next]_vars
  PROVE  Types'
<1> USE DEF Types
<1>1. ASSUME NEW t \in {"main", "isr"}, LookAtDreq(t) \/ WatchDreq(t) \/ StopSending(t)
      PROVE  Types'
  <2>1. UNCHANGED <<state, queue, dreq, rit, chip, calls>>
    BY <1>1 DEF LookAtDreq, WatchDreq, StopSending, recorder, session
  <2>2. pc' \in [main : Mains, isr : Handlers]
    <3>1. {"send", "watch", "look"} \subseteq Handlers
      BY DEF Handlers
    <3>2. pc' = Returned(t) \/ \E x \in {"send", "watch", "look"} : pc' = [pc EXCEPT ![t] = x]
      BY <1>1 DEF LookAtDreq, WatchDreq, StopSending
    <3>3. QED
      BY <3>1, <3>2, Threads
  <2>3. shift' \in BOOLEAN
    BY <1>1, Zenon DEF LookAtDreq, WatchDreq, StopSending
  <2>4. armed' \in BOOLEAN
    BY <1>1 DEF LookAtDreq, WatchDreq, StopSending
  <2>5. QED
    BY <2>1, <2>2, <2>3, <2>4
<1>2. ASSUME NEW t \in {"main", "isr"}, SendChunk(t) PROVE Types'
  <2>1. /\ queue # <<>> /\ queue[1].left > 0
        /\ queue' = [queue EXCEPT ![1].left = @ - 1]
        /\ dreq' \in BOOLEAN
        /\ UNCHANGED <<state, shift, armed, pc, rit, chip, calls>>
    BY <1>2 DEF SendChunk, recorder, session
  <2>2. queue' \in Seq(Buffers) /\ queue' # <<>>
    BY <2>1, Reduced
  <2>3. QED
    BY <2>1, <2>2
<1>3. CASE DreqInterrupt
  BY <1>3 DEF DreqInterrupt, Handlers, recorder, session
<1>4. CASE TakeShift
  BY <1>4 DEF TakeShift, Mains, recorder, session
<1>5. CASE ShiftBuffer
  <2>1. /\ pc' \in [main : Mains, isr : Handlers]
        /\ UNCHANGED <<shift, dreq, rit, chip, calls>>
    BY <1>5 DEF ShiftBuffer, recorder, Mains
  <2>2. CASE queue = <<>> /\ UNCHANGED <<state, queue, armed>>
    BY <2>1, <2>2
  <2>3. CASE Stopped
    BY <2>1, <2>3, Initials DEF Stopped, States
  <2>4. CASE Len(queue) > 1 /\ queue' = Tail(queue) /\ UNCHANGED <<state, armed>>
    <3>1. queue # <<>> /\ queue' \in Seq(Buffers) /\ queue' # <<>>
      <4>1. Len(queue) \in Nat /\ queue # <<>>
        BY <2>4
      <4>2. queue' \in Seq(Buffers) /\ Len(queue') = Len(queue) - 1
        BY <2>4, <4>1, HeadTailProperties
      <4>3. Len(queue') > 0 /\ Len(<<>>) = 0
        BY <2>4, <4>1, <4>2
      <4>4. QED
        BY <4>1, <4>2, <4>3
    <3>2. QED
      BY <2>1, <2>4, <3>1
  <2>5. QED
    BY <1>5, <2>2, <2>3, <2>4 DEF ShiftBuffer
<1>6. CASE EmitCompletion
  BY <1>6 DEF EmitCompletion, Mains, recorder, session
<1>7. ASSUME NEW len \in Lengths, QueueBuffer(len) PROVE Types'
  <2>1. Queued(queue, len, state) /\ UNCHANGED armed /\ calls' = calls + 1
    BY <1>7 DEF QueueBuffer, Call
  <2>2. QED
    BY <2>1, QueuedTypes, AudioAssumption
<1>8. ASSUME NEW len \in Lengths, PlayBuffer(len) PROVE Types'
  <2>1. /\ \/ armed' = FALSE /\ Queued(<<>>, len, "STOPPED")
           \/ armed' = armed /\ Queued(queue, len, state)
        /\ calls' = calls + 1
    BY <1>8 DEF PlayBuffer, Call
  <2>2. <<>> \in Seq(Buffers) /\ "STOPPED" \in States /\ len \in Nat
    BY AudioAssumption DEF States
  <2>3. CASE Queued(<<>>, len, "STOPPED") /\ armed' = FALSE
    <3>1. armed' \in BOOLEAN
      BY <2>3, Zenon
    <3>2. PICK q \in Seq(Buffers), was \in States : q = <<>> /\ was = "STOPPED"
      BY <2>2
    <3>3. (q # <<>> <=> was \in {"PLAYING", "PAUSED"}) /\ Queued(q, len, was)
      BY <2>3, <3>2
    <3>4. QED
      BY <2>1, <2>2, <3>1, <3>3, QueuedTypes
  <2>4. CASE Queued(queue, len, state) /\ armed' = armed
    BY <2>1, <2>2, <2>4, QueuedTypes
  <2>5. QED
    BY <2>1, <2>3, <2>4
<1>9. CASE StopBuffer
  <2>1. /\ queue' = <<>> /\ state' = "STOPPED" /\ calls' = calls + 1
        /\ UNCHANGED <<shift, dreq, pc, rit, chip>>
    BY <1>9 DEF StopBuffer, Stopped, Call, recorder
  <2>2. armed' \in BOOLEAN
    BY <1>9, Zenon DEF StopBuffer, Stopped
  <2>3. QED
    BY <2>1, <2>2, Initials DEF States
<1>10. CASE PauseBuffer
  <2>1. /\ queue # <<>> /\ state' = "PAUSED" /\ calls' = calls + 1
        /\ UNCHANGED <<queue, shift, dreq, pc, rit, chip>>
    BY <1>10 DEF PauseBuffer, Paused, Call, recorder
  <2>2. armed' \in BOOLEAN
    BY <1>10, Zenon DEF PauseBuffer, Paused
  <2>3. QED
    BY <2>1, <2>2 DEF States
<1>11. CASE ResumeBuffer
  BY <1>11 DEF ResumeBuffer, Call, States, recorder
<1>12. CASE StartRecording
  <2>1. /\ state = "STOPPED" /\ calls' = calls + 1
        /\ UNCHANGED <<queue, shift, armed, dreq, pc>>
    BY <1>12 DEF StartRecording, Call, player
  <2>2. state' \in {"STOPPED", "RECORDING"} /\ rit' \in BOOLEAN /\ chip' \in Chips
    BY <1>12, <2>1, Initials DEF StartRecording
  <2>3. QED
    BY <2>1, <2>2 DEF States
<1>13. CASE StopRecording
  <2>1. /\ state = "RECORDING" /\ state' = "CANCELLING" /\ calls' = calls + 1
        /\ UNCHANGED <<queue, shift, armed, dreq, pc, rit>>
    BY <1>13 DEF StopRecording, Call, player
  <2>2. chip' \in Chips
    BY <1>13 DEF StopRecording, Chips
  <2>3. QED
    BY <2>1, <2>2 DEF States
<1>14. CASE RitInterrupt
  <2>1. UNCHANGED <<queue, shift, armed, dreq, pc, calls>>
    BY <1>14 DEF RitInterrupt, player
  <2>2. CASE Freed /\ state = "CANCELLING" /\ state' = "STOPPED"
    BY <2>1, <2>2, Initials DEF Freed, States
  <2>3. CASE /\ chip.words > 2 /\ UNCHANGED <<state, rit>>
             /\ chip' = [chip EXCEPT !.words = @ - Lesser(@ - 1, RecWords)]
    <3>1. chip.words \in 0..MaxWords /\ MaxWords \in Nat /\ RecWords \in Nat
      BY AudioAssumption DEF Chips
    <3>2. chip.words - Lesser(chip.words - 1, RecWords) \in 0..MaxWords
      BY <2>3, <3>1 DEF Lesser
    <3>3. QED
      BY <2>1, <2>3, <3>2 DEF Chips
  <2>4. QED
    BY <1>14, <2>2, <2>3 DEF RitInterrupt
<1>15. CASE DreqRises
  BY <1>15 DEF DreqRises, recorder, session
<1>16. CASE ChipRecords
  BY <1>16, AudioAssumption DEF ChipRecords, Chips, player, session
<1>17. CASE ChipEnds
  BY <1>17 DEF ChipEnds, Chips, player, session
<1>18. CASE EndScript
  BY <1>18, Initials DEF EndScript, Stopped, States, recorder
<1>19. CASE StartScript
  BY <1>19 DEF StartScript, player, recorder
<1>20. CASE UNCHANGED vars
  BY <1>20 DEF vars
<1>21. QED
  BY <1>1, <1>2, <1>3, <1>4, <1>5, <1>6, <1>7, <1>8, <1>9, <1>10, <1>11, <1>12, <1>13, <1>14,
     <1>15, <1>16, <1>17, <1>18, <1>19, <1>20 DEF Next, Main, Send, Script

-----------------------------------------------------------------------------
(* What the script is told of its buffers.                                 *)

(* Steps of the sender keep the head, or take a chunk of it.               *)
LEMMA SentStep ==
  ASSUME Types, Sent, CompletedWasSent, [Next]_vars
  PROVE  Sent' /\ CompletedWasSent'
<1> USE DEF Sent, CompletedWasSent
<1>1. ASSUME NEW t \in {"main", "isr"}, LookAtDreq(t) \/ WatchDreq(t)
      PROVE  Sent' /\ CompletedWasSent'
  <2>1. UNCHANGED <<queue, shift, finished, slips>>
    BY <1>1 DEF LookAtDreq, WatchDreq
  <2>2. Pending' => Pending
    BY <1>1, <2>1 DEF LookAtDreq, WatchDreq, Returned, Types, Pending, Mains, Handlers
  <2>3. Emitting' => Emitting
    BY <1>1, <2>1 DEF LookAtDreq, WatchDreq, Returned, Types, Emitting, Mains, Handlers
  <2>4. QED
    BY <2>1, <2>2, <2>3 DEF HeadSent
<1>2. ASSUME NEW t \in {"main", "isr"}, SendChunk(t) PROVE Sent' /\ CompletedWasSent'
  <2>1. /\ queue # <<>> /\ queue[1].left > 0
        /\ UNCHANGED <<shift, pc, finished>>
        /\ slips' = slips \union Note("sent_while_paused", state = "PAUSED")
    BY <1>2 DEF SendChunk
  <2>2. ~HeadSent
    BY <2>1, HeadBuffer DEF HeadSent, Types
  <2>3. (Pending' <=> Pending) /\ (Emitting' <=> Emitting)
    BY <2>1 DEF Pending, Emitting
  <2>4. "stale_shift" \notin slips' => "stale_shift" \notin slips
    BY <2>1
  <2>5. "completed_early" \in slips' => "completed_early" \in slips
    BY <2>1 DEF Note
  <2>6. slips \subseteq slips'
    BY <2>1
  <2>7. QED
    BY <2>1, <2>2, <2>3, <2>4, <2>5, <2>6
<1>3. ASSUME NEW t \in {"main", "isr"}, StopSending(t) PROVE Sent' /\ CompletedWasSent'
  <2>1. UNCHANGED <<queue, finished, slips>> /\ pc[t] = "send"
    BY <1>3 DEF StopSending
  <2>2. pc'.main = "shift" => pc.main = "shift"
    BY <1>3 DEF StopSending, Returned, Types
  <2>3. Emitting' => Emitting
    BY <1>3, <2>1 DEF StopSending, Returned, Types, Emitting
  <2>4. shift' => shift \/ HeadSent
    <3>1. queue # <<>> => queue[1].left \in Nat
      BY HeadBuffer DEF Types
    <3>2. CASE queue # <<>> /\ queue[1].left > 0
      BY <1>3, <3>2 DEF StopSending
    <3>3. CASE queue # <<>> /\ ~(queue[1].left > 0)
      BY <3>1, <3>3 DEF HeadSent
    <3>4. CASE queue = <<>>
      BY <1>3, <3>4 DEF StopSending
    <3>5. QED
      BY <3>2, <3>3, <3>4
  <2>5. QED
    BY <2>1, <2>2, <2>3, <2>4 DEF Pending, HeadSent
<1>4. CASE DreqInterrupt \/ TakeShift \/ DreqRises
  <2>1. UNCHANGED <<queue, finished, slips>>
    BY <1>4 DEF DreqInterrupt, TakeShift, DreqRises
  <2>2. Pending' => Pending
    BY <1>4 DEF DreqInterrupt, TakeShift, DreqRises, Types, Pending
  <2>3. Emitting' => Emitting
    BY <1>4 DEF DreqInterrupt, TakeShift, DreqRises, Types, Emitting
  <2>4. QED
    BY <2>1, <2>2, <2>3 DEF HeadSent
<1>5. CASE ShiftBuffer
  <2>1. pc.main = "shift" /\ UNCHANGED shift
    BY <1>5 DEF ShiftBuffer
  <2>2. CASE queue = <<>>
    <3>1. UNCHANGED slips
      <4>1. ~(Len(queue) = 1) /\ ~(Len(queue) > 1)
        BY <2>2
      <4>2. QED
        BY <1>5, <4>1 DEF ShiftBuffer
    <3>2. Pending /\ ~HeadSent
      BY <2>1, <2>2 DEF Pending, HeadSent
    <3>3. QED
      BY <3>1, <3>2
  <2>3. CASE queue # <<>>
    <3>1. /\ finished' = Head(queue) /\ pc'.main \in {"look", "emit"}
          /\ slips' = slips \union Note("stale_shift", shift)
      BY <1>5, <2>3 DEF ShiftBuffer, Stopped, Types
    <3>2. "stale_shift" \notin slips' => "stale_shift" \notin slips /\ ~shift'
      BY <2>1, <3>1 DEF Note
    <3>3. "stale_shift" \notin slips => finished'.left = 0
      BY <2>1, <2>3, <3>1, HeadBuffer DEF Pending, HeadSent, Types
    <3>4. "completed_early" \in slips' => "completed_early" \in slips
      BY <3>1 DEF Note
    <3>5. ~shift' => ~Pending'
      BY <3>1 DEF Pending
    <3>6. QED
      BY <3>1, <3>2, <3>3, <3>4, <3>5
  <2>4. QED
    BY <2>2, <2>3
<1>6. CASE EmitCompletion
  <2>1. /\ pc.main = "emit" /\ pc'.main = "idle" /\ finished' = NULL
        /\ UNCHANGED <<queue, shift>>
        /\ slips' = slips \union
             Note("completed_early", script.now # 0 /\ finished.left > 0)
    BY <1>6 DEF EmitCompletion, Types
  <2>2. "stale_shift" \notin slips => finished.left = 0
    BY <2>1 DEF Emitting
  <2>3. (Pending' => Pending) /\ ~Emitting' /\ (HeadSent => HeadSent')
    BY <2>1 DEF Pending, Emitting, HeadSent
  <2>4. slips \subseteq slips' /\ ("stale_shift" \in slips' => "stale_shift" \in slips)
    BY <2>1 DEF Note
  <2>5. "completed_early" \in slips' => "completed_early" \in slips \/ finished.left > 0
    BY <2>1 DEF Note
  <2>6. ~(0 > 0)
    OBVIOUS
  <2>7. QED
    BY <2>2, <2>3, <2>4, <2>5, <2>6
<1>7. ASSUME NEW len \in Lengths, NEW q, NEW was, Queued(q, len, was),
             \/ q = queue
             \/ q = <<>> /\ (shift => "stale_shift" \in slips'),
             slips \subseteq slips', "completed_early" \in slips' => "completed_early" \in slips,
             pc.main = "idle"
      PROVE  Sent' /\ CompletedWasSent'
  <2>1. /\ UNCHANGED <<shift, finished>> /\ pc'.main # "shift" /\ pc'.main # "emit"
    BY <1>7 DEF Queued, Types
  <2>2. "stale_shift" \notin slips' /\ shift => HeadSent'
    <3> SUFFICES ASSUME "stale_shift" \notin slips', shift
                 PROVE  HeadSent'
      OBVIOUS
    <3>1. q = queue /\ HeadSent
      BY <1>7 DEF Pending
    <3>2. PICK buf : /\ buf = [b |-> calls + 1, left |-> len]
                     /\ queue' \in {Append(queue, buf), queue}
      BY <1>7, <3>1 DEF Queued
    <3>3. buf \in Buffers
      <4>1. calls + 1 \in Nat /\ len \in Nat
        BY AudioAssumption DEF Types
      <4>2. QED
        BY <3>2, <4>1 DEF Buffers
    <3>4. Append(queue, buf) # <<>> /\ Append(queue, buf)[1] = queue[1]
      <4>1. queue \in Seq(Buffers)
        BY DEF Types
      <4>2. 1 \in 1..Len(queue)
        BY <3>1, <4>1 DEF HeadSent
      <4>3. QED
        BY <3>3, <4>1, <4>2, AppendProperties
    <3>5. QED
      BY <3>1, <3>2, <3>4 DEF HeadSent
  <2>3. (Pending' => shift) /\ (Emitting' => Emitting)
    BY <2>1 DEF Pending, Emitting
  <2>4. QED
    BY <1>7, <2>1, <2>2, <2>3
<1>8. ASSUME NEW len \in Lengths, QueueBuffer(len) PROVE Sent' /\ CompletedWasSent'
  <2>1. /\ Queued(queue, len, state) /\ pc.main = "idle"
        /\ slips' = slips \union Note("queued_while_paused", state = "PAUSED")
                          \union Note("played_while_cancelling", state = "CANCELLING")
    BY <1>8 DEF QueueBuffer, Call, AtRest
  <2>2. slips \subseteq slips' /\ ("completed_early" \in slips' => "completed_early" \in slips)
    BY <2>1 DEF Note
  <2>3. QED
    BY <1>7, <2>1, <2>2
<1>9. ASSUME NEW len \in Lengths, PlayBuffer(len) PROVE Sent' /\ CompletedWasSent'
  <2>1. /\ pc.main = "idle"
        /\ \/ /\ slips' = slips \union Note("stale_shift", shift)
              /\ Queued(<<>>, len, "STOPPED")
           \/ /\ slips' = slips \union Note("played_while_cancelling", state = "CANCELLING")
              /\ Queued(queue, len, state)
    BY <1>9 DEF PlayBuffer, Call, AtRest
  <2>2. slips \subseteq slips' /\ ("completed_early" \in slips' => "completed_early" \in slips)
    BY <2>1 DEF Note
  <2>3. CASE Queued(queue, len, state)
    BY <1>7, <2>1, <2>2, <2>3
  <2>4. CASE slips' = slips \union Note("stale_shift", shift) /\ Queued(<<>>, len, "STOPPED")
    <3>1. shift => "stale_shift" \in slips'
      BY <2>4 DEF Note
    <3>2. QED
      BY <1>7, <2>1, <2>2, <2>4, <3>1
  <2>5. QED
    BY <2>1, <2>3, <2>4
<1>10. ASSUME Stopped, UNCHANGED <<shift, pc, finished>>, pc.main = "idle"
       PROVE  Sent' /\ CompletedWasSent'
  <2>1. slips' = slips \union Note("stale_shift", shift)
    BY <1>10 DEF Stopped
  <2>2. "stale_shift" \notin slips' => "stale_shift" \notin slips /\ ~shift
    BY <2>1 DEF Note
  <2>3. (Pending' => shift) /\ (Emitting' => Emitting)
    BY <1>10 DEF Pending, Emitting
  <2>4. "completed_early" \in slips' => "completed_early" \in slips
    BY <2>1 DEF Note
  <2>5. QED
    BY <1>10, <2>2, <2>3, <2>4
<1>11. CASE StopBuffer
  BY <1>10, <1>11 DEF StopBuffer, Call, AtRest
<1>12. CASE PauseBuffer
  BY <1>12 DEF PauseBuffer, Paused, Note, Pending, Emitting, HeadSent
<1>13. CASE ResumeBuffer \/ StartRecording \/ StopRecording \/ StartScript
                \/ ChipRecords \/ ChipEnds
  <2>1. UNCHANGED <<queue, shift, pc, finished, slips>>
    BY <1>13 DEF ResumeBuffer, StartRecording, StopRecording, StartScript, ChipRecords, ChipEnds,
                 player, session
  <2>2. QED
    BY <2>1 DEF Pending, Emitting, HeadSent
<1>14. CASE RitInterrupt
  BY <1>14 DEF RitInterrupt, Freed, Note, player, Pending, Emitting, HeadSent
<1>15. CASE EndScript
  <2>1. pc.main = "idle" /\ UNCHANGED <<shift, pc, finished>>
    BY <1>15 DEF EndScript, AtRest
  <2>2. CASE Stopped
    BY <1>10, <2>1, <2>2
  <2>3. CASE ~Stopped
    <3>1. /\ queue' = queue
          /\ \/ slips' = slips
             \/ slips' = slips \union Note("ended_while_cancelling", state = "CANCELLING")
      BY <1>15, <2>3 DEF EndScript
    <3>2. QED
      BY <2>1, <3>1 DEF Note, Pending, Emitting, HeadSent
  <2>4. QED
    BY <2>2, <2>3
<1>16. CASE UNCHANGED vars
  BY <1>16 DEF vars, Pending, Emitting, HeadSent
<1>17. QED
  BY <1>1, <1>2, <1>3, <1>4, <1>5, <1>6, <1>8, <1>9, <1>11, <1>12, <1>13, <1>14, <1>15, <1>16
     DEF Next, Main, Send, Script

-----------------------------------------------------------------------------
(* What a pause holds back.                                                *)

(* A paused player takes no step of its own; only a pause makes it paused. *)
LEMMA StillStep ==
  ASSUME Types, Still, PauseHolds, [Next]_vars
  PROVE  Still' /\ PauseHolds'
<1> DEFINE Bad == "pause_before_shift" \in slips
<1>1. ASSUME NEW t \in {"main", "isr"},
             LookAtDreq(t) \/ WatchDreq(t) \/ SendChunk(t) \/ StopSending(t)
      PROVE  Still' /\ PauseHolds'
  <2>1. pc[t] # "idle" /\ state' = state
    BY <1>1 DEF LookAtDreq, WatchDreq, SendChunk, StopSending
  <2>2. pc.main # "idle" \/ pc.isr # "idle"
    BY <2>1
  <2>3. state = "PAUSED" => Bad
    BY <2>2 DEF Still
  <2>4. \/ slips' = slips
        \/ slips' = slips \union Note("sent_while_paused", state = "PAUSED")
    BY <1>1 DEF LookAtDreq, WatchDreq, SendChunk, StopSending
  <2>5. Bad => Bad'
    BY <2>4
  <2>6. "sent_while_paused" \in slips' => "sent_while_paused" \in slips \/ state = "PAUSED"
    BY <2>4 DEF Note
  <2>7. QED
    BY <2>1, <2>3, <2>5, <2>6 DEF Still, PauseHolds
<1>2. CASE DreqInterrupt \/ TakeShift
  <2>1. (armed \/ shift) /\ UNCHANGED <<state, slips>>
    BY <1>2 DEF DreqInterrupt, TakeShift
  <2>2. QED
    BY <2>1 DEF Still, PauseHolds
<1>3. CASE ShiftBuffer \/ EmitCompletion
  <2>1. pc.main # "idle" /\ state' \in {state, "STOPPED"}
    BY <1>3 DEF ShiftBuffer, EmitCompletion, Stopped
  <2>2. \/ slips' = slips
        \/ slips' = slips \union Note("stale_shift", shift)
        \/ slips' = slips \union
             Note("completed_early", script.now # 0 /\ finished.left > 0)
    BY <1>3 DEF ShiftBuffer, EmitCompletion, Stopped
  <2>3. (Bad => Bad') /\ ("sent_while_paused" \in slips' => "sent_while_paused" \in slips)
    BY <2>2 DEF Note
  <2>4. state = "PAUSED" => Bad
    BY <2>1 DEF Still
  <2>5. state' = "PAUSED" => Bad'
    BY <2>1, <2>3, <2>4
  <2>6. Still'
    BY <2>5 DEF Still
  <2>7. PauseHolds'
    BY <2>3 DEF PauseHolds
  <2>8. QED
    BY <2>6, <2>7
<1>4. ASSUME NEW len, QueueBuffer(len) \/ PlayBuffer(len) PROVE Still' /\ PauseHolds'
  <2>1. PICK q, was :
          /\ Queued(q, len, was)
          /\ (was = state /\ q = queue) \/ (was = "STOPPED" /\ q = <<>>)
    BY <1>4 DEF QueueBuffer, PlayBuffer
  <2>2. state' # "PAUSED"
    <3>1. state = "PAUSED" => queue # <<>>
      BY DEF Types
    <3>2. state' = "PLAYING" \/ (state' = was /\ (was = "RECORDING" \/ q = <<>>))
      BY <2>1 DEF Queued
    <3>3. QED
      BY <2>1, <3>1, <3>2
  <2>3. slips \subseteq slips'
          /\ ("sent_while_paused" \in slips' => "sent_while_paused" \in slips)
    BY <1>4 DEF QueueBuffer, PlayBuffer, Note
  <2>4. QED
    BY <2>2, <2>3 DEF Still, PauseHolds
<1>5. CASE StopBuffer \/ ResumeBuffer \/ StopRecording
  <2>1. state' # "PAUSED" /\ (slips' = slips \/ slips' = slips \union Note("stale_shift", shift))
    BY <1>5 DEF StopBuffer, ResumeBuffer, StopRecording, Stopped
  <2>2. QED
    BY <2>1 DEF Note, Still, PauseHolds
<1>6. CASE PauseBuffer
  <2>1. /\ pc.main = "idle" /\ pc.isr = "idle" /\ armed' = FALSE /\ UNCHANGED <<shift, pc>>
        /\ slips' = slips \union Note("pause_before_shift", shift)
    BY <1>6 DEF PauseBuffer, Paused, Call, AtRest
  <2>2. shift => Bad'
    BY <2>1 DEF Note
  <2>3. (Bad => Bad') /\ ("sent_while_paused" \in slips' => "sent_while_paused" \in slips)
    BY <2>1 DEF Note
  <2>4. QED
    BY <2>1, <2>2, <2>3 DEF Still, PauseHolds
<1>7. CASE StartRecording \/ RitInterrupt
  <2>1. /\ UNCHANGED <<shift, armed, pc>>
        /\ state' = state \/ state' # "PAUSED"
    BY <1>7 DEF StartRecording, RitInterrupt, player
  <2>2. slips \subseteq slips'
          /\ ("sent_while_paused" \in slips' => "sent_while_paused" \in slips)
    BY <1>7 DEF StartRecording, RitInterrupt, Freed, Note
  <2>3. QED
    BY <2>1, <2>2 DEF Still, PauseHolds
<1>8. CASE DreqRises \/ ChipRecords \/ ChipEnds \/ StartScript \/ UNCHANGED vars
  <2>1. UNCHANGED <<state, shift, armed, pc, slips>>
    BY <1>8 DEF DreqRises, ChipRecords, ChipEnds, StartScript, vars, player
  <2>2. QED
    BY <2>1 DEF Still, PauseHolds
<1>9. CASE EndScript
  <2>1. state' # "PAUSED"
    BY <1>9 DEF EndScript, Stopped
  <2>2. \/ slips' = slips \/ slips' = slips \union Note("stale_shift", shift)
        \/ slips' = slips \union Note("ended_while_cancelling", state = "CANCELLING")
    BY <1>9 DEF EndScript, Stopped
  <2>3. QED
    BY <2>1, <2>2 DEF Note, Still, PauseHolds
<1>10. QED
  BY <1>1, <1>2, <1>3, <1>4, <1>5, <1>6, <1>7, <1>8, <1>9 DEF Next, Main, Send, Script

-----------------------------------------------------------------------------
(* What the recording timer works for.                                     *)

Wrongs == {"written_after_the_script", "reference_of_another_script_dropped"}

(* The timer and its recording stay as they are, or are excused.           *)
LEMMA OwnKept ==
  ASSUME OwnRecording, RecorderKnowsItsScript, UNCHANGED <<rit, rec, script>>,
         slips \subseteq slips', slips' \cap Wrongs \subseteq slips,
         state' = state \/ ~rit \/ Astray' \/ state' \in {"RECORDING", "CANCELLING"}
  PROVE  OwnRecording' /\ RecorderKnowsItsScript'
<1>1. Astray => Astray'
  BY DEF Astray
<1>2. OwnRecording'
  BY <1>1 DEF OwnRecording
<1>3. RecorderKnowsItsScript'
  BY <1>1 DEF RecorderKnowsItsScript, Astray, Wrongs
<1>4. QED
  BY <1>2, <1>3

LEMMA OwnStep ==
  ASSUME Types, OwnRecording, RecorderKnowsItsScript, [Next]_vars
  PROVE  OwnRecording' /\ RecorderKnowsItsScript'
<1>1. ~Astray => (state \in {"PLAYING", "PAUSED", "STOPPED"} => ~rit)
  BY DEF OwnRecording
<1>2. ASSUME NEW t \in {"main", "isr"},
             LookAtDreq(t) \/ WatchDreq(t) \/ SendChunk(t) \/ StopSending(t)
      PROVE  OwnRecording' /\ RecorderKnowsItsScript'
  <2>1. UNCHANGED <<state, rit, rec, script>>
    BY <1>2 DEF LookAtDreq, WatchDreq, SendChunk, StopSending, recorder, session
  <2>2. slips \subseteq slips' /\ slips' \cap Wrongs \subseteq slips
    BY <1>2 DEF LookAtDreq, WatchDreq, SendChunk, StopSending, Note, Wrongs
  <2>3. QED
    BY <2>1, <2>2, OwnKept
<1>3. CASE DreqInterrupt \/ TakeShift \/ DreqRises \/ EmitCompletion \/ ChipRecords \/ ChipEnds
  <2>1. UNCHANGED <<state, rit, rec, script>>
    BY <1>3 DEF DreqInterrupt, TakeShift, DreqRises, EmitCompletion, ChipRecords, ChipEnds,
                recorder, session
  <2>2. slips \subseteq slips' /\ slips' \cap Wrongs \subseteq slips
    BY <1>3 DEF DreqInterrupt, TakeShift, DreqRises, EmitCompletion, ChipRecords, ChipEnds,
                Note, Wrongs
  <2>3. QED
    BY <2>1, <2>2, OwnKept
<1>4. CASE ShiftBuffer \/ StopBuffer
  <2>1. UNCHANGED <<rit, rec, script>>
    BY <1>4 DEF ShiftBuffer, StopBuffer, recorder
  <2>2. slips \subseteq slips' /\ slips' \cap Wrongs \subseteq slips
    BY <1>4 DEF ShiftBuffer, StopBuffer, Stopped, Note, Wrongs
  <2>3. state' = state \/ (queue # <<>> /\ state \in {"PLAYING", "PAUSED"})
    <3>1. Len(<<>>) = 0
      OBVIOUS
    <3>2. QED
      BY <1>4, <3>1 DEF ShiftBuffer, StopBuffer, CanStop, Types
  <2>4. Astray => Astray'
    BY <2>2 DEF Astray
  <2>5. QED
    BY <1>1, <2>1, <2>2, <2>3, <2>4, OwnKept
<1>5. ASSUME NEW len, QueueBuffer(len) \/ PlayBuffer(len)
      PROVE  OwnRecording' /\ RecorderKnowsItsScript'
  <2>1. UNCHANGED <<rit, rec, script>>
    BY <1>5 DEF QueueBuffer, PlayBuffer, Queued, recorder
  <2>2. slips \subseteq slips' /\ slips' \cap Wrongs \subseteq slips
    BY <1>5 DEF QueueBuffer, PlayBuffer, Note, Wrongs
  <2>3. state = "CANCELLING" => Astray'
    <3>1. state = "CANCELLING" => queue = <<>>
      BY DEF Types
    <3>2. QED
      BY <1>5, <3>1 DEF QueueBuffer, PlayBuffer, Note, Astray
  <2>4. state = "RECORDING" => state' = "RECORDING"
    <3>1. state = "RECORDING" => queue = <<>>
      BY DEF Types
    <3>2. QED
      BY <1>5, <3>1 DEF QueueBuffer, PlayBuffer, Queued
  <2>5. Astray => Astray'
    BY <2>2 DEF Astray
  <2>6. QED
    BY <1>1, <2>1, <2>2, <2>3, <2>4, <2>5, OwnKept DEF Types, States
<1>6. CASE PauseBuffer \/ ResumeBuffer
  <2>1. UNCHANGED <<rit, rec, script>> /\ queue # <<>>
    BY <1>6 DEF PauseBuffer, ResumeBuffer, recorder
  <2>2. slips \subseteq slips' /\ slips' \cap Wrongs \subseteq slips
    BY <1>6 DEF PauseBuffer, ResumeBuffer, Paused, Note, Wrongs
  <2>3. Astray => Astray'
    BY <2>2 DEF Astray
  <2>4. QED
    BY <1>1, <2>1, <2>2, <2>3, OwnKept DEF Types
<1>7. CASE StartRecording
  <2>1. /\ state = "STOPPED" /\ script.now # 0 /\ UNCHANGED <<script, slips>>
        /\ rec' = [script |-> script.now, ref |-> calls + 1]
        /\ state' = "RECORDING" \/ (state' = state /\ rit' = rit)
    BY <1>7 DEF StartRecording, Call, player
  <2>2. rec'.script = script.now
    BY <2>1
  <2>3. OwnRecording'
    BY <1>1, <2>1, <2>2 DEF OwnRecording, Astray
  <2>4. QED
    BY <2>1, <2>3 DEF RecorderKnowsItsScript
<1>8. CASE StopRecording
  <2>1. UNCHANGED <<rit, rec, script, slips>> /\ state' = "CANCELLING"
    BY <1>8 DEF StopRecording
  <2>2. QED
    BY <2>1, OwnKept
<1>9. CASE RitInterrupt
  <2>1. rit /\ UNCHANGED script
    BY <1>9 DEF RitInterrupt
  <2>2. ~Astray => rec.script = script.now
    BY <2>1 DEF OwnRecording
  <2>3. CASE slips' = slips \union Note("written_after_the_script", rec.script # script.now)
             /\ UNCHANGED <<state, rec, rit>>
    <3>1. OwnRecording'
      BY <2>1, <2>3 DEF OwnRecording, Astray
    <3>2. RecorderKnowsItsScript'
      BY <2>2, <2>3 DEF RecorderKnowsItsScript, Astray, Note
    <3>3. QED
      BY <3>1, <3>2
  <2>4. CASE Freed
    <3>1. ~rit'
      BY <2>4 DEF Freed
    <3>2. slips' = slips \union
            Note("reference_of_another_script_dropped", rec.script # script.now)
      BY <2>4 DEF Freed
    <3>3. OwnRecording'
      BY <3>1 DEF OwnRecording
    <3>4. RecorderKnowsItsScript'
      BY <2>2, <3>2 DEF RecorderKnowsItsScript, Astray, Note
    <3>5. QED
      BY <3>3, <3>4
  <2>5. QED
    BY <1>9, <2>3, <2>4 DEF RitInterrupt
<1>10. CASE EndScript
  <2>1. slips \subseteq slips' /\ slips' \cap Wrongs \subseteq slips
    BY <1>10 DEF EndScript, Stopped, Note, Wrongs
  <2>2. Astray => Astray'
    BY <2>1 DEF Astray
  <2>3. RecorderKnowsItsScript'
    BY <2>1, <2>2 DEF RecorderKnowsItsScript, Astray, Wrongs
  <2>4. state = "CANCELLING" => Astray'
    BY <1>10 DEF EndScript, Note, Astray
  <2>5. ~rit' \/ (rit' = rit /\ state \in {"PLAYING", "PAUSED", "STOPPED", "CANCELLING"})
    BY <1>10 DEF EndScript, recorder
  <2>6. OwnRecording'
    BY <1>1, <2>2, <2>4, <2>5 DEF OwnRecording
  <2>7. QED
    BY <2>3, <2>6
<1>11. CASE StartScript
  <2>1. script.now = 0 /\ UNCHANGED <<state, rec, rit, slips>>
    BY <1>11 DEF StartScript, recorder
  <2>2. Astray \/ ~rit
    BY <2>1 DEF OwnRecording
  <2>3. QED
    BY <2>1, <2>2 DEF OwnRecording, Astray, RecorderKnowsItsScript
<1>12. CASE UNCHANGED vars
  BY <1>12, OwnKept DEF vars
<1>13. QED
  BY <1>2, <1>3, <1>4, <1>5, <1>6, <1>7, <1>8, <1>9, <1>10, <1>11, <1>12
     DEF Next, Main, Send, Script

-----------------------------------------------------------------------------
LEMMA Invariance == Spec => []IInv
<1>1. IInv /\ [Next]_vars => IInv'
  BY TypeStep, SentStep, StillStep, OwnStep DEF IInv
<1>2. QED
  BY <1>1, InitInv, PTL DEF Spec

(* The variables have their types, and the player's state agrees with its  *)
(* queue.                                                                  *)
THEOREM TypeCorrect == Spec => []TypeOK
<1>1. IInv => TypeOK
  <2> SUFFICES ASSUME Types PROVE TypeOK
    BY DEF IInv
  <2>1. \A i \in 1..Len(queue) : queue[i].b \in Nat /\ queue[i].left \in Nat
    <3>1. \A i \in 1..Len(queue) : queue[i] \in Buffers
      BY DEF Types
    <3>2. QED
      BY <3>1 DEF Buffers
  <2>2. {shift, armed, dreq, rit} \subseteq BOOLEAN
    BY Zenon DEF Types
  <2>3. QED
    BY <2>1, <2>2 DEF Types, TypeOK, Chips, Mains, Handlers
<1>2. QED
  BY <1>1, Invariance, PTL

(* A buffer is complete only when all of it was sent, and a paused player  *)
(* sends nothing, but for a shift event that a call of the script overtook.*)
THEOREM ScriptIsToldTrue == Spec => []PlaybackIsTrue
<1>1. IInv => PlaybackIsTrue
  BY DEF IInv, PlaybackIsTrue
<1>2. QED
  BY <1>1, Invariance, PTL

(* The handler of the recording timer touches what belongs to its script.  *)
THEOREM HandlerKeepsToItsScript == Spec => []RecorderKnowsItsScript
<1>1. IInv => RecorderKnowsItsScript
  BY DEF IInv
<1>2. QED
  BY <1>1, Invariance, PTL
================================================================================
