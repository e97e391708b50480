SPECIFICATION FairSpec
CONSTANTS
  a = a
  b = b
  c = c
  Msgs = {a, b, c}
  NoMsg = NoMsg
\* Nothing is left to do once the connection is gone, or the lock is lost.
CHECK_DEADLOCK FALSE
INVARIANTS
  RefsCountMessages
  DeletedConnectionIsQuiet
  ProtocolOutlivesItsTasks
  ClosesInOrder
PROPERTY
  ClosedIsDeleted
