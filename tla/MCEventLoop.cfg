CONSTANTS
  NoEvent = NoEvent
  usbEvent = usbEvent
  timerEvent = timerEvent
  usbIrq = usbIrq
  timerIrq = timerIrq
  tickIrq = tickIrq
  Events <- MCEvents
  Irqs <- MCIrqs
  EventOf <- MCEventOf
SPECIFICATION LoopSpec
INVARIANTS
  LoopTypeOK
  NoSleepOnPending
PROPERTY IrqServed
