SPECIFICATION Spec
CONSTANTS
  pA = pA
  pB = pB
  pC = pC
  kB = kB
  kC = kC
  kOn = kOn
  kWrap = kWrap
  v1 = v1
  v2 = v2
  NULL = NULL
  GarbageAnswer = GarbageAnswer
  Id <- MCId
  Hash <- MCHash
  Peers = {pA, pB}
  Clients = {}
  Keys = {kB}
  Values = {v1}
  StackFlags <- Dirty
  StackIds = {0, 15}
  Requests <- Single
  JoinAt <- AtBase
  Restartable = {pB}
  Injected <- Plain
  MaxInject = 2
  Backlog = 2
  CloseListener = FALSE
INVARIANTS
  TypeOK
  LinkedPeerSurvives
CHECK_DEADLOCK FALSE
