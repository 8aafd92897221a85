SPECIFICATION Spec
CONSTANTS
  u1 = u1
  u2 = u2
  a1 = a1
  a2 = a2
  Capacity = 2
  MaxSeq = 4
  MaxLagSlots = 1
  MaxQueuedOps = 2
  MaxSlot = 2
  Users = {u1, u2}
  DefaultKey = DefaultKey
  Accounts = {a1}
  NoAccount = NoAccount
  Owner <- MCOwner
  Requests <- MCRequests
  MarketMayReject = TRUE
INVARIANTS
  IndInv
  RingHoldsPending
  AcceptedInSequence
  ExecutedInOrder
  NoStaleHead
  CursorIsLastExecuted
  UnparsableBlocksForever
PROPERTIES
  
  ImplementsLog
CHECK_DEADLOCK FALSE
