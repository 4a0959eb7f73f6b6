\* Two sessions over one in-memory store, turns of both (and of one) in flight
\* together.
SPECIFICATION Spec
CONSTANTS
  Sessions = {s1, s2}
  Docs = {d1}
  Turns = {t1, t2}
  Backend = "memory"
  ArtifactBucket = FALSE
  FlakyDocs = {}
  IndexFaults = FALSE
  ReadsBlocks = FALSE
  Concurrent = TRUE
  MaxRestarts = 0
  Shared = Shared
  None = None
SYMMETRY FullSymmetry
INVARIANTS AskedDocsIndexed
PROPERTIES RowKeepsHistory EmissionSurvivesTurn
CHECK_DEADLOCK FALSE
