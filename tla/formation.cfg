SPECIFICATION Spec
CONSTANTS
  pA = pA
  pB = pB
  pC = pC
  kB = kB
  kC = kC
  kOn = kOn
  kWrap = kWrap
  v1 = v1
  v2 = v2
  NULL = NULL
  GarbageAnswer = GarbageAnswer
  Id <- MCId
  Hash <- MCHash
  Peers <- ThreePeers
  Clients = {c1, c2}
  Keys = {kB}
  Values = {v1}
  StackFlags <- Clean
  StackIds = {0}
  Requests <- StoresAndMore
  JoinAt <- AtNext
  Restartable = {}
  Injected <- NoMessages
  MaxInject = 0
  Backlog = 7
  CloseListener = FALSE
INVARIANTS
  RingFormed
CHECK_DEADLOCK FALSE
