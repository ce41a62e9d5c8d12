CONSTANTS
  a = a
  b = b
  u1 = u1
  u2 = u2
  ctl = ctl
  Conn = {c1}
  Seg = {a, ctl, u1, u2}
  Empty = Empty
  SplitLimit = 100
  MediaType <- TwoTypes
  Turtle <- TurtleType
  Body = {b1}
  NoBody = NoBody
  Target <- RootOnly
  Accept <- SomeAccepts
  NoAccept = NoAccept
  SentType <- PlainOnly
  Slug = {u1, u2}
  Unprintable = {ctl}
  None = None
  PassThrough = TRUE
SPECIFICATION Spec
PROPERTY CreationIsTold
