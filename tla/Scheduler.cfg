SPECIFICATION FairSpec
CONSTANTS
  disp = disp
  sig = sig
  e1 = e1
  e2 = e2
  e3 = e3
  NoEvent = NoEvent
  Callers = {disp, sig}
  Events = {e1, e2, e3}
  Delays <- MCDelays
  MinTicks = 2
  MaxId = 3
  MaxTime = 3
INVARIANTS
  IdsMatchQueue
  StopIsDecisive
  SleepsUntilDue
PROPERTY
  EventDispatched
\* The thread exits, or sleeps for ever once the clock has stopped.
CHECK_DEADLOCK FALSE
