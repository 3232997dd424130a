CONSTANTS
  m1 = m1
  m2 = m2
  l1 = l1
  l2 = l2
  Mids = {m1, m2}
  Lists = {l1, l2}
  Undated = {m2}
  NoRow = NoRow
  OldRows <- OneRowPerList
  OldMails <- DenseMails
  Parsers = {1}
  Chunk = 1
  Window = 2
  MaxJobs = 3
  MaxFiles = 3
SPECIFICATION Spec
CHECK_DEADLOCK FALSE
INVARIANTS
  SideTablesFresh
  TrustedIndexWhole
  NoTrailerLost
PROPERTIES
  EnvelopesKept
  BackfillEnds
