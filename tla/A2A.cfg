\* Two contexts on Agent Engine, messages of a context one by one.
SPECIFICATION Spec
CONSTANTS
  Requests = {r1, r2, r3}
  Contexts = {c1, c2}
  Messages <- MCMessages
  Catalogs <- MCCatalogs
  Root = "orchestrator"
  Agents = {"orchestrator", "pipeline", "inner", "extractor", "validator", "poster"}
  AuthRequired = TRUE
  FileInput = TRUE
  Shared = FALSE
  Serial = TRUE
  Objects <- MCObjects
  Base <- NoPrefix
  ListLimit = 1
  MaxOrg = 1
  None = None
SYMMETRY ContextSymmetry
INVARIANTS TypeOK ListedHaveArtifacts FilesReachAgents AnswerReachesPeer
PROPERTIES DocumentsAccumulate
CHECK_DEADLOCK FALSE
