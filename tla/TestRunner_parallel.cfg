CONSTANTS
  r1 = r1
  r2 = r2
  u1 = u1
  Run = {r1, r2}
  Conn <- Connections
  MaxTimeouts <- OneTimeout
  Filters <- OneSuite
  LiveStore <- Seeded
  Uuid <- Drawn
  File = File
  Plain <- PlainType
  JsonLd <- JsonLdType
  Unheard <- UnheardType
  Original = Original
  Updated = Updated
  Seg <- Segments
  Empty = Empty
  SplitLimit = 100
  MediaType <- Types
  Turtle <- TurtleType
  Body = {Original, Updated}
  NoBody = NoBody
  Target <- Targets
  Accept <- Accepts
  NoAccept = NoAccept
  SentType <- SentTypes
  Slug = {u1}
  Unprintable = {}
  None = None
  PassThrough = TRUE
SPECIFICATION RunSpec
INVARIANTS OnlyAclCasesFail LeftByDesign
PROPERTIES ForeignDataStays RunsEnd
