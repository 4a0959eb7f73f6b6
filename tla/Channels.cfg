SPECIFICATION Spec
CONSTANTS
  Deliveries = {d1, d2}
  Messages <- MCMessages
  Users = {"t", "d", "e"}
  Registered = {"telegram", "discord", "email"}
  Catalog = {"s"}
  Readable = {"s"}
  TitleOf <- MCTitleOf
  General = "general-assistant"
  Replies <- MCReplies
  MaxLength = 3
  Known = {"t"}
  Planned = {"t"}
  Blank = Blank
  None = None
INVARIANTS TypeOK OneAccountPerUser DocsAreOwn ReplyFaithful LockMeansRegistered
PROPERTIES DeliveriesEnd
CHECK_DEADLOCK FALSE
