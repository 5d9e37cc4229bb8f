SPECIFICATION EditSpec
CONSTANTS
  w1 = w1
  logon = logon
  count = count
  stored = stored
  info = info
  utc = utc
  naive = naive
  NoWriter = NoWriter
  Writers = {w1}
  Body = {logon, count, stored}
  Jsonb <- MCJsonb
  Aux = {info}
  Instant = {0}
  Offset = {utc}
  Naive = naive
  UTC = utc
  LocalOffset = utc
  Batches <- MCBatches
  MaxSequence = 2
  MaxClock = 0
  Numbers = {0, 1, 2, 3}
  MaxEdits = 2
INVARIANT
  HashVouchesForPast
