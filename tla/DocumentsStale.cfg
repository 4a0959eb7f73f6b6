\* One request at a time; a file uploaded over another within the hour.
SPECIFICATION Spec
CONSTANTS
  Users = {u1}
  Names = {docx}
  Parsable = {docx}
  FolderNames = {"uploads"}
  DefaultName = "uploads"
  Jobs = {j1}
  Ttl = 1
  MaxFolders = 1
  MaxDocs = 2
  MaxVersion = 2
  MaxTime = 2
  None = None
INVARIANTS BlocksAreOfFile
CHECK_DEADLOCK FALSE
