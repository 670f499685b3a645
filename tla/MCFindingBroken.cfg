SPECIFICATION Spec
CONSTANTS
  callback = callback
  batch = batch
  single = single
  Calls = {callback, batch, single}
  Kind <- OneOfEach
  Careless = {}
  Conns = {c1, c2}
  Nobody = Nobody
  CodedBreaks = TRUE
  MaxRetries = 3
  MaxFaults = 2
INVARIANT PoolIsSound
CHECK_DEADLOCK FALSE
