------------------------------ MODULE MCMerkle ------------------------------
(* Instances of MerkleLog: a log and a fork of it, and requests made from   *)
(* their roots and proofs, in all combinations.                            *)
EXTENDS MerkleLog

CONSTANTS
  Ops,     \* the operations considered
  ForkAt   \* the fork shares the log's first ForkAt entries

\* Split is what RFC 6962 words as the largest power of two smaller than n.
ASSUME SplitIsLargestPower ==
  \A n \in 2..MaxSize : \E e \in 0..n : Split[n] = 2^e /\ 2^e < n /\ n <= 2^(e + 1)

Log == [i \in 0..MaxSize - 1 |-> i]

Fork == [i \in 0..MaxSize - 1 |-> IF i < ForkAt THEN i ELSE 100 + i]

MCHistories == {Log, Fork}

MCEntries == 0..MaxSize - 1

\* A proof as computed, without its last or first sibling, or with one too many.
Variants(path) ==
  {path, Append(path, LeafHash(0)), <<LeafHash(0)>> \o path}
    \cup (IF path = <<>> THEN {} ELSE {Tail(path), SubSeq(path, 1, Len(path) - 1)})

RootsOf(D) == {Roots[D][n] : n \in 1..MaxSize}

InclusionRequests ==
  [op : {"inclusion"}, at : -1..MaxSize, size : Sizes,
   from : {LeafHash(e) : e \in Entries},
   root : RootsOf(Log),
   path : UNION {Variants(AuditPaths[Log][c]) : c \in Spans}]

ConsistencyRequests ==
  [op : {"consistency"}, at : -1..MaxSize, size : Sizes,
   from : RootsOf(Log) \cup RootsOf(Fork), root : RootsOf(Log) \cup RootsOf(Fork),
   path : UNION {Variants(Extensions[D][c]) : c \in OldSpans, D \in Histories}]

MCRequests == {r \in InclusionRequests \cup ConsistencyRequests : r.op \in Ops}
=============================================================================
