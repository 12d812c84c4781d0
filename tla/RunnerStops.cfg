CONSTANTS
  MaxWork = 4
  MaxOutput = 4
  PipeCapacity = 2
  Timeout = 6
  Grace = 3
  Reap = 2
  Helpers = {TRUE, FALSE}
  OutputCap = 3
  RecordCap = 2
  LookupCap = 1
SPECIFICATION FairToolSpec
INVARIANTS
  ToolTypeOK
  OutcomeIsTrue
  OnlyTheMuteSurvive
  ReturnsInTime
  OkIsEarned
  LinesAreAccountedFor
PROPERTIES
  EventuallyReplies
CHECK_DEADLOCK FALSE
