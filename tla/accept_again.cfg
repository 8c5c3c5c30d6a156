SPECIFICATION Spec
CONSTANTS
  pA = pA
  pB = pB
  pC = pC
  kB = kB
  kC = kC
  kOn = kOn
  kWrap = kWrap
  v1 = v1
  v2 = v2
  NULL = NULL
  GarbageAnswer = GarbageAnswer
  Id <- MCId
  Hash <- MCHash
  Peers = {pA, pB}
  Clients = {c1}
  Keys = {kB, kC}
  Values = {v1}
  StackFlags <- Clean
  StackIds = {0}
  Requests <- Single
  JoinAt <- AtBase
  Restartable = {}
  Injected <- NoMessages
  MaxInject = 0
  Backlog = 4
  CloseListener = TRUE
INVARIANTS
  AcceptsAgain
CHECK_DEADLOCK FALSE
