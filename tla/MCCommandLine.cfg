CONSTANTS
  Text <- MCText
  Dashed <- MCDashed
  Inline <- MCInline
  Pieces <- MCPieces
  Process <- MCProcess
  LinesOf <- MCLinesOf
  File = {"in", "out", "half"}
  FileOf <- MCFileOf
  Sheet <- MCSheet
  Originals <- MCOriginals
  MaxRuns = 1
SPECIFICATION Spec
CHECK_DEADLOCK FALSE
INVARIANTS
  LinesAreUnderstood
  SuccessIsWhatWasAsked
  FilesChangeOnlyAsNamed
