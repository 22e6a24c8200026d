SPECIFICATION FairSpec
CONSTANTS
  Requests = {r1, r2}
  NumUpstreams = 2
  MaxWeight = 2
  IntMax = 3
  MaxPicks = 7
CHECK_DEADLOCK FALSE
INVARIANT PicksAreWeighted
PROPERTY PicksReturnUnlessPanic
