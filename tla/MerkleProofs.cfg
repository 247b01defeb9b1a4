SPECIFICATION FairSpec
CONSTANTS
  LeafHash <- TermLeaf
  NodeHash <- TermNode
  Requests <- MCRequests
  Histories <- MCHistories
  Entries <- MCEntries
  MaxSize = 5
  Ops = {"inclusion", "consistency"}
  ForkAt = 2
INVARIANTS TypeOK NeverSpins HonestInclusionAccepted AcceptedIsMember HonestConsistencyAccepted AcceptedIsPast FullProofIsExact
PROPERTY Terminates
