\* One bucket and folder, two users, two threads.
SPECIFICATION Spec
CONSTANTS
  Users <- MCUsers
  Controls <- MCControls
  BucketIds <- MCBucketIds
  FolderIds <- MCFolderIds
  Refs <- MCRefs
  Threads = {t1, t2}
  Ttls = {4}
  MaxTtl = 2
  MaxTime = 3
  MaxWrites = 4
  None = None
SYMMETRY ThreadSymmetry
INVARIANTS EffectiveHasOrigin UrlsFollowAccess
CHECK_DEADLOCK FALSE
