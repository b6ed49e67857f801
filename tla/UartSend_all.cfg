CONSTANTS
  ping = ping
  handler = handler
  app = app
  h1 = h1
  m1 = m1
  m2 = m2
  m3 = m3
  NoTask = NoTask
  NoMsg = NoMsg
  Tasks <- AllTasks
  Linkers <- BothLinkers
  Pinger = ping
  Msgs <- AllMsgs
  Handshakes <- OneHandshake
  QueueLen = 1
SPECIFICATION FairSpec
INVARIANTS
  TypeOK
  MutexOK
  NoneStranded
PROPERTIES
  OutboxSpec
  Delivery
