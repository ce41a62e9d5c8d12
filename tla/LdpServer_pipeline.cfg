CONSTANTS
  a = a
  b = b
  u1 = u1
  u2 = u2
  ctl = ctl
  Conn = {c1, c2}
  Seg = {a, b, u1}
  Empty = Empty
  SplitLimit = 100
  MediaType <- TwoTypes
  Turtle <- TurtleType
  Body = {b1}
  NoBody = NoBody
  Target <- ChildTargets
  Accept <- SomeAccepts
  NoAccept = NoAccept
  SentType <- PlainOnly
  Slug = {u1}
  Unprintable = {}
  None = None
  PassThrough = FALSE
SPECIFICATION FairSpec
INVARIANTS AcceptedStays ContainersByPath ErrorLeavesNoTrace 
PROPERTIES OnlyTargetedEntriesChange Answered
