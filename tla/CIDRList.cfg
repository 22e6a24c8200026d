SPECIFICATION FairSpec
CONSTANTS
  NumSources = 1
  Entries <- MCEntries
  NumLists = 2
  MaxVersion = 2
CHECK_DEADLOCK FALSE
INVARIANT TypeOK
PROPERTIES KeepsPreviousList RefreshedUrlConverges RefreshedFileConverges
           StoppedListsEnd
