\* Two connections that end while they are on the list.
CONSTANTS
  N = 2
  Delay = 2
  FreeListed = TRUE
SPECIFICATION FairSpec
PROPERTY FlushEnds
