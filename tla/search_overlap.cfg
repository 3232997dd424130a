CONSTANTS
  m1 = m1
  m2 = m2
  m3 = m3
  l1 = l1
  l2 = l2
  Mids = {m1, m2, m3}
  Lists = {l1}
  Contents <- Dated
  Batches <- OneBatch
  Filterings = {}
  Absent = Absent
  Limits = {1}
  Factor = 2
  MinFetch = 1
  MaxCandidates = 4
  MaxFiles = 1
  Parsed <- ThreeTiers
  PageLimit = 1
  ConciseHits = 2
  Concise = FALSE
  MidOrder <- Order3
  Relevance <- Relevant3
SPECIFICATION SearchSpec
CHECK_DEADLOCK FALSE
INVARIANT PagesDisjoint
