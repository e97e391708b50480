SPECIFICATION FairSpec
CONSTANTS
  io = io
  sig = sig
  t1 = t1
  t2 = t2
  quit = quit
  term = term
  halt = halt
  NoTask = NoTask
  Threads = {io, sig}
  Tasks <- MCTasks
  Timed = {t1}
  Closers = {quit}
  Halters <- MCHalters
  HaltOf <- MCHaltOf
\* The process exits, or blocks for ever inside shutdown().
CHECK_DEADLOCK FALSE
PROPERTY
  ShutdownCompletes
