SPECIFICATION FairSpec
CONSTANTS
  BlockSize <- MCBlockSize
  Blocks <- MCBlocks
  MaxOwned <- MCMaxOwned
  Requests <- MCRequests
INVARIANTS TypeOK AlignedCommitFresh NoOrphanTail
PROPERTY ScanTerminates
