SPECIFICATION FairWorkspaceSpec
CONSTANTS
  Nil = Nil
  Keep = Keep
  Request = {"r1", "r2"}
  Message = {"m1", "m2"}
  MAX_CAPTURED = 3
  FAULTS = 3
  Mail = {"clear", "stranger", "vague", "spam", "supplied"}
  Supplied = {"supplied"}
  Event = {"e1", "e2"}
  Status = {"s1"}
  Marks <- MCMarks
  Score <- MCScore
  Trusted = {"clear", "vague", "spam", "supplied"}
  DELIVERIES = 3
  EVENT_EDITS = 1
  Document = {"d1", "d2"}
  Slug = {"s1", "team"}
  RESERVED = {"team"}
  PATCHES = 3
  AgendaItems = {"a1"}
  Token = {"t1", "t2"}
  ASKS = 3
  Image = {"f1"}
  Attachment = {"f2"}
  Person = {"p1", "p2"}
  Teams <- MCTeams
  UPDATES = 3
  Credentials <- MCCredentials
  Attribute = {"name", "note"}
  Value = {"v1"}
  Blank = Blank
  Blankable = {"note"}
  FEED_EDITS = 1
  Email = {"e1"}
  Booking = {"b1"}
  SENDS = 4
  Account = {"a1", "a2"}
  DiscordUser = {"u1"}
  CLAIMS = 4
  Project = {"p1", "p2"}
  ProjectSlug = {"s1"}
  Form = {"f1", "f2", "f3"}
  Amount = {100, 200}
  Rate = {25, 50}
  TreeLink = {"l1", "l2"}
  Title = {"t1", "t2"}
  Position = {1, 2}
  Orders <- MCOrders
  WRITES = 3
INVARIANTS
  TypeOK
  RepeatsCountOnce
  OnlyTheEntitled
  OnlyThePublicShown
  AddressesHold
  LastRequestHolds
  PlacesAgree
PROPERTIES
  EveryMessageProcessed
  SettledStays
CHECK_DEADLOCK FALSE
