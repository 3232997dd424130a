CONSTANTS
  m1 = m1
  m2 = m2
  m3 = m3
  l1 = l1
  l2 = l2
  Mids = {m1, m2}
  Lists = {l1, l2}
  Contents <- SomeContents
  Batches <- SomeBatches
  Filterings <- SomeFilterings
  Absent = Absent
  Limits = {1, 3}
  Factor = 2
  MinFetch = 1
  MaxCandidates = 2
  MaxFiles = 2
  Parsed <- SomeParsed
  PageLimit = 1
  ConciseHits = 2
  Concise = FALSE
  MidOrder <- Order
  Relevance <- Relevant
SPECIFICATION SearchSpec
CHECK_DEADLOCK FALSE
INVARIANT ListSearchFinds
