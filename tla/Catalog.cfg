\* One user, two threads, two templates of which one parses, caches of two units.
SPECIFICATION CatalogSpec
CONSTANTS
  Users = {"u"}
  Threads = {t1, t2}
  Templates = {"ap", "broken"}
  Parsed = {"ap"}
  Ttl = 2
  MaxSkills = 2
  MaxWrites = 2
  MaxTime = 3
  Platform = "platform"
  Legacy = "legacy"
  None = None
SYMMETRY ThreadSymmetry
INVARIANTS ServedIsRecent CardIsRecent
PROPERTIES SeedLeavesTemplates
CHECK_DEADLOCK FALSE
