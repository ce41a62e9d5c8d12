CONSTANTS
  Client = {c1, c2}
  Key = {k1, k2}
  Value = {v1, v2}
  Present = Present
  Lost = Lost
  None = None
  NoFile = NoFile
  Blank = Blank
  Garbled = Garbled
  Faults = {"cancel"}
SPECIFICATION Spec
PROPERTY OneUpdateAtATime
