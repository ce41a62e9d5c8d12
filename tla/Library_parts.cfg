CONSTANTS
  Client = {c1, c2}
  Faults <- AllButCancel
  Holder = {c1, c2, c3}
  Key <- Names
  Value = {v1, v2}
  Present = Present
  Lost = Lost
  None = None
  Rewriter = {"own", "beside"}
  Observed = "own"
  StorageOf <- Owners
  SourceKey <- Places
  NewKey <- Prefixed
  OriginalKey <- Stripped
  Slash = Slash
  Piece = {http, host, a, b}
  NoIdentifier = NoIdentifier
  Origin <- TheOrigin
  Name = {a, b}
  MaxDepth = 4
  c1 = c1
  c2 = c2
  c3 = c3
  v1 = v1
  http = http
  host = host
  a = a
  b = b
  Absent = Absent
  Nothing = Nothing
  Separator = Slash
  Dots = Dots
  Question = Question
  NoType = NoType
  Ranges <- AllRanges
  LowerCase <- Lower
  Quality = {5, 15}
  MaxTokens = 3
  Entries <- Mappings
  Text = {a, b}
  MaxUrl = 6
  NoQuality = NoQuality
  NaN = NaN
  NoFile = NoFile
  Blank = Blank
  Garbled = Garbled
  Caller = {c1, c2, c3}
  Layers <- Stacks
  State = {1, 2}
  Outcome = {"done", "failed"}
  Unset = Unset
SPECIFICATION LibrarySpec
INVARIANTS TypeOK OnlyTrailingSlashesVary FirstIsBest PreferencesAreServed PipelineAsksForNoLess MappedFilesAreFound ToldWhatWasDone
PROPERTIES ImplementsKeyValue Completes PointCallsKeepApart Climbs ReadOnlyShields
