SPECIFICATION FairSpec
CONSTANTS
  BlockSize <- MCBlockSize
  Blocks <- MCBlocks
  MaxOwned <- MCMaxOwned
  Requests <- MCRequests
INVARIANTS CommitFresh TableMatchesOwners
PROPERTIES NoMemMeansFull AllocatorSpec
