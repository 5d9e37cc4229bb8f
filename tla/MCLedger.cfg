SPECIFICATION FairSpec
CONSTANTS
  w1 = w1
  w2 = w2
  w3 = w3
  heartbeat = heartbeat
  logon = logon
  count = count
  stored = stored
  info = info
  utc = utc
  naive = naive
  plus2 = plus2
  NoWriter = NoWriter
  Writers = {w1, w2, w3}
  Body = {heartbeat, logon, count, stored}
  Jsonb <- MCJsonb
  Aux = {info}
  Instant = {0, 1}
  Offset = {utc, plus2}
  Naive = naive
  UTC = utc
  LocalOffset = utc
  Batches <- MCBatches
  MaxSequence = 1
  MaxClock = 1
INVARIANTS
  TypeOK
  ChainIntact
  ReceivedInOrder
  AcksDurable
  DivergencesExplained
PROPERTIES
  ImplementsLog
  RequestsFinish
