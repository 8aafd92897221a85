SPECIFICATION Spec
CONSTANTS
  a1 = a1
  a2 = a2
  Accounts = {a1, a2}
  NoAccount = NoAccount
  NumSlots = 2
  Requests <- ValidityRequests
  MaxNodes = 4
  MaxEvents = 4
  DropLimit = 1
  MaxTif = 2
  MaxPrice = 5
  OraclePrices = {2, 3}
  AssetWeight = 50
  LiabWeight = 150
  CancelLimits = {}
  ReduceOnlyModes = {}
  MaxOrders = 4
  MaxTime = 2
SYMMETRY AccountSymmetry
CHECK_DEADLOCK FALSE
INVARIANTS
  IndInv
PROPERTIES
  PostsDoNotCross
