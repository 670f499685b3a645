SPECIFICATION FairSpec
CONSTANTS
  callback = callback
  batch = batch
  single = single
  Calls = {callback, batch, single}
  Kind <- OneOfEach
  Careless = {}
  Conns = {c1, c2}
  Nobody = Nobody
  CodedBreaks = TRUE
  MaxRetries = 3
  MaxFaults = 2
INVARIANTS
  TypeOK
  OwnConnection
  PoolIsClean
PROPERTIES
  KeepsPromise
  Settles
CHECK_DEADLOCK FALSE
