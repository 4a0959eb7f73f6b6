\* One user and folder, two names the parser reads, two requests at once, two uploads.
SPECIFICATION Spec
CONSTANTS
  Users = {u1}
  Names = {docx, md}
  Parsable = {docx, md}
  FolderNames = {"uploads"}
  DefaultName = "uploads"
  Jobs = {j1, j2}
  Ttl = 1
  MaxFolders = 1
  MaxDocs = 2
  MaxVersion = 2
  MaxTime = 2
  None = None
SYMMETRY Symmetries
INVARIANTS ParsesAreRecent CountedOnce PendingIsAtWorkOrBroken
CHECK_DEADLOCK FALSE
