SPECIFICATION Spec
CONSTANTS
  LeafHash <- TermLeaf
  NodeHash <- TermNode
  Requests <- MCRequests
  Histories <- MCHistories
  Entries <- MCEntries
  MaxSize = 3
  Ops = {"inclusion"}
  ForkAt = 1
INVARIANT AcceptedIsAtIndex
