SPECIFICATION Spec
CONSTANTS
  s1 = s1
  s2 = s2
  k1 = k1
  k2 = k2
  Sessions <- MCSessions
  Streams <- MCStreams
  Capacity = 1
  MaxQueries <- MCMaxQueries
INVARIANTS TypeOK StreamInOrder BurstKept
PROPERTIES QueriesGoOn StreamsEnd
