CONSTANTS
  a = a
  b = b
  Conn = {c1, c2}
  Seg = {a, b}
  Empty = Empty
  SplitLimit = 3
  MediaType <- MediaTypes
  Turtle <- TurtleType
  Body = {b1}
  NoBody = NoBody
  Target <- Targets
  Accept <- NoAccepts
  NoAccept = NoAccept
  SentType <- PlainOnly
  Slug = {}
  Unprintable = {}
  None = None
  PassThrough = TRUE
SPECIFICATION LifeSpec
SYMMETRY ConnSymmetry
INVARIANTS TypeOK HierarchyClosed RootUnlessDeleted
