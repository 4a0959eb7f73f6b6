\* One session on Agent Engine, one turn at a time; artifacts are lost by a
\* restart, one of the documents may fail to load, and every call on the index may
\* fail.
SPECIFICATION Spec
CONSTANTS
  Sessions = {s1}
  Docs = {d1, d2}
  Turns = {t1, t2}
  Backend = "vertex"
  ArtifactBucket = FALSE
  FlakyDocs = {d2}
  IndexFaults = TRUE
  ReadsBlocks = TRUE
  Concurrent = FALSE
  MaxRestarts = 1
  Shared = Shared
  None = None
SYMMETRY TurnSymmetry
INVARIANTS
  TypeOK
  LoadedHasArtifact
  FreshAfterNewDoc
  EmittedCoversLoaded
  ErrorsMatchLoads
  InitializedHasRow
PROPERTIES
  CountNeverDrops
CHECK_DEADLOCK FALSE
