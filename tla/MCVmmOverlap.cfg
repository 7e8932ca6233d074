SPECIFICATION FairSpec
CONSTANTS
  BlockSize <- MCBlockSize
  Blocks <- MCBlocks
  MaxOwned <- MCMaxOwned
  Requests <- MCRequests
INVARIANT PagesExclusive
