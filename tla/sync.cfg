SPECIFICATION Spec
CONSTANTS
  EntryOf <- MCEntryOf
  WordOf <- MCWordOf
  NotebookOf <- MCNotebookOf
  BookOf <- MCBookOf
  Editions <- MCEditions
  Etymology <- MCEtymology
  None = None
  Unpinned = Unpinned
  sense = sense
  one = one
  other = other
  MaxAnswers = 1
  MaxEdits = 1
  MaxImports = 3
INVARIANTS
  DefinitionsMirrored
  AnswersMirrored
  TwoImportsSettle
  ExportsRoundTrip
  EtymologyMirrored
CHECK_DEADLOCK FALSE
