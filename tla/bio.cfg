SPECIFICATION FairSpec
CONSTANTS
  Offset <- MCOffset
  Readers <- MCReaders
  Position <- MCPosition
  Blocks <- MCBlocks
  Sizes = {512}
  NoReader = NoReader
  MaxEvents = 3
INVARIANTS TimeOrdered AllConsumed
PROPERTIES NoNeedlessDrop FinalizeReturns
