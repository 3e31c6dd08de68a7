SPECIFICATION FairSpec
CONSTANTS
  MaxParts = 2
  BufferParts = 2
  MaxOffered = 3
  MaxSent = 2
  MaxWaiting = 1
INVARIANTS
  TypeOK
  NothingToTidy
  WritesInOrder
PROPERTIES
  ImplementsChannel
  OnlyTornIsLost
  ChunksAreRead
