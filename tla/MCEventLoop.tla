----------------------------- MODULE MCEventLoop -----------------------------
(* Two events with a line each and one line, the system tick, without.     *)
EXTENDS EventLoop, TLC

CONSTANTS usbEvent, timerEvent, usbIrq, timerIrq, tickIrq

MCEvents == {usbEvent, timerEvent}
MCIrqs == {usbIrq, timerIrq, tickIrq}
MCEventOf == usbIrq :> usbEvent @@ timerIrq :> timerEvent @@ tickIrq :> NoEvent
=============================================================================
