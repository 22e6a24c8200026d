SPECIFICATION Spec
CONSTANTS
  NumSources = 1
  Entries <- MCPlainEntries
  NumLists = 2
  MaxVersion = 2
PROPERTY FailedLoadKeepsOld
