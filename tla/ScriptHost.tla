------------------------------ MODULE ScriptHost ------------------------------
(***************************************************************************)
(* How a script gets from the USB command interface to the runtime         *)
(* (src/src/main.c): tessel_cmd_process takes or frees each message        *)
(* buffer, main_body waits for an upload, flashes it, loads and runs it.   *)
(* Commands are processed by the loop of main_body and by the event loop   *)
(* of a running script.                                                    *)
(***************************************************************************)
EXTENDS Integers, Sequences, SequencesExt

CONSTANT MaxMessages   (* bound: messages the host sends *)

ASSUME ScriptAssumption == MaxMessages \in Nat

VARIABLES
  lock,      (* script_buf_lock: "EMPTY" or "READING", the states that last *)
  script,    (* script_buf, the message it points to, and script_buf_flash *)
  heap,      (* message buffers allocated                                  *)
  main,      (* "wait", "load", "run" or "abort"; boot may load from flash *)
  current,   (* the message being loaded or run, 0 for the bundle in flash *)
  lua,       (* tm_lua_state is set                                        *)
  flash,     (* message whose bundle is in flash                           *)
  accepted, ran,   (* uploads taken, and loaded to an end, in order        *)
  unknown,   (* a command nobody knows has been received                   *)
  count

vars == <<lock, script, heap, main, current, lua, flash, accepted, ran, unknown, count>>

Init ==
  /\ lock = "EMPTY"
  /\ script = [buf |-> 0, flash |-> FALSE]
  /\ heap = {}
  /\ main \in {"load", "wait"}
  /\ current = 0
  /\ lua = FALSE
  /\ flash = 0
  /\ accepted = <<>> /\ ran = <<>>
  /\ unknown = FALSE
  /\ count = 0

-----------------------------------------------------------------------------
(* A message arrives in a buffer of its own while events are processed: by *)
(* the loop of main_body, which tests the lock before each round, or by    *)
(* the script that runs.                                                   *)
Message ==
  /\ main = "run" \/ (main = "wait" /\ lock # "READING")
  /\ count < MaxMessages
  /\ count' = count + 1

(* Whether an upload is taken, and what that makes of the lock and of the  *)
(* buffer.  Mutated forms take a second one, stop half way, free the buffer. *)
AcceptingAnother == lock = "EMPTY" \/ main = "run"
Accepting == lock = "EMPTY"
TakenLockHalfway == "DOWNLOADING"
TakenLock == "READING"
KeptBufferNone == heap
KeptBuffer == heap \union {count'}

(* 'U' or 'P' while no script is pending or running.                       *)
TakeUpload(toFlash) ==
  /\ Message
  /\ Accepting
  /\ lock' = TakenLock
  /\ script' = [buf |-> count', flash |-> toFlash]
  /\ heap' = KeptBuffer
  /\ accepted' = Append(accepted, count')
  /\ UNCHANGED <<main, current, lua, flash, ran, unknown>>

(* Any other upload returns at once, and its buffer with it.               *)
RefuseUpload ==
  /\ Message
  /\ ~Accepting
  /\ heap' = heap \union {count'}
  /\ UNCHANGED <<lock, script, main, current, lua, flash, accepted, ran, unknown>>

(* The other commands use the buffer and free it; an unknown one also      *)
(* resets the lock.                                                        *)
OtherCommand ==
  /\ Message
  /\ UNCHANGED <<lock, script, heap, main, current, lua, flash, accepted, ran, unknown>>

UnknownCommand ==
  /\ Message
  /\ lock' = "EMPTY"
  /\ unknown' = TRUE
  /\ UNCHANGED <<script, heap, main, current, lua, flash, accepted, ran>>

-----------------------------------------------------------------------------
(* main_body leaves its loop; a 'P' bundle is written to flash first.      *)
StartScript ==
  /\ main = "wait"
  /\ lock = "READING"
  /\ main' = "load"
  /\ current' = script.buf
  /\ flash' = IF script.flash THEN script.buf ELSE flash
  /\ UNCHANGED <<lock, script, heap, lua, accepted, ran, unknown, count>>

(* Back from load_script: after the one at boot nothing is freed or reset; *)
(* otherwise what script_buf points to by now is freed.                    *)
Return ==
  /\ main' = "wait"
  /\ IF current = 0 THEN UNCHANGED <<lock, heap, ran>>
     ELSE /\ heap' = heap \ {script.buf}
          /\ lock' = "EMPTY"
          /\ ran' = Append(ran, current)
  /\ UNCHANGED <<script, current, flash, accepted, unknown, count>>

(* The tar file does not parse, or has neither _start.js nor index.js.     *)
BadBundle ==
  /\ main = "load"
  /\ Return
  /\ UNCHANGED lua

(* load_script asserts that no runtime is open, and opens one.             *)
OpenRuntime ==
  /\ main = "load"
  /\ main' = IF lua THEN "abort" ELSE "run"
  /\ lua' = TRUE
  /\ UNCHANGED <<lock, script, heap, current, flash, accepted, ran, unknown, count>>

(* A builtin library does not load: the early return keeps the runtime.    *)
LibraryFails ==
  /\ main = "load" /\ ~lua
  /\ Return
  /\ lua' = TRUE

ScriptEnds ==
  /\ main = "run"
  /\ Return
  /\ lua' = FALSE

Next ==
  \/ \E toFlash \in BOOLEAN : TakeUpload(toFlash)
  \/ RefuseUpload \/ OtherCommand \/ UnknownCommand
  \/ StartScript \/ BadBundle \/ OpenRuntime \/ LibraryFails \/ ScriptEnds

Spec == Init /\ [][Next]_vars

-----------------------------------------------------------------------------
TypeOK ==
  /\ lock \in {"EMPTY", "READING"}
  /\ script.buf \in 0..MaxMessages
  /\ heap \subseteq 1..MaxMessages
  /\ main \in {"wait", "load", "run", "abort"}
  /\ current \in 0..MaxMessages /\ flash \in 0..MaxMessages
  /\ count \in 0..MaxMessages /\ lua \in BOOLEAN /\ script.flash \in BOOLEAN

Busy == main \in {"load", "run"}

(* The bundle that is loaded or run, whose files point into the buffer, is *)
(* not freed under it, and neither is an upload that waits for its turn:   *)
(* "So it won't get freed" (main.c:158).                                   *)
ScriptBufAlive ==
  /\ Busy /\ current # 0 => current \in heap
  /\ lock = "READING" => script.buf \in heap

(* Every upload accepted is loaded once, in the order accepted: what has   *)
(* not been is in use or is the one that waits.  An unknown command, which *)
(* resets the lock, is what it does not survive (main.c:276).              *)
KnownUploadsRun ==
  ~unknown =>
    accepted = ran \o (IF Busy /\ current # 0 THEN <<current>> ELSE <<>>)
                   \o (IF lock = "READING" /\ ~(Busy /\ current # 0)
                       THEN <<script.buf>> ELSE <<>>)

(* The buffer of a command is freed unless it is needed, which is the case *)
(* that main.c:158 ("So it won't get freed") excepts from the free at :279. *)
NothingLeaks ==
  heap \subseteq (IF lock = "READING" THEN {script.buf} ELSE {})
                 \union (IF Busy THEN {current} ELSE {})
=============================================================================
