\* The tool calls of a turn, two at a time, on one file.
SPECIFICATION Spec
CONSTANTS
  Callers = {t1, t2}
  Empty = "empty"
  Bytes <- Lengths
  MaxLines = 3
  MaxBytes = 5
  Context = 1
  Files <- SomeFiles
  OldTexts <- SomeOld
  NewTexts <- SomeNew
  Contents <- SomeContents
  Limits = {0, 2}
  Outputs <- SomeOutputs
  ExitCodes = {0, 1}
  MaxCalls = 3
SYMMETRY Symmetry
INVARIANTS
  TypeOK
  EditTellsTruth
  PagesCoverFile
  BashTellsTruth
\* MaxCalls bounds the calls: once they are used up the system may stop.
CHECK_DEADLOCK FALSE
