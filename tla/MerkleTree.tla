----------------------------- MODULE MerkleTree -----------------------------
(***************************************************************************)
(* The Merkle tree, the audit path and the consistency proof of RFC 6962,  *)
(* section 2.1: what the log service computes and merkle.py says it        *)
(* mirrors.  A log D is a function from 0..MaxSize - 1; the cut <<a, b>>   *)
(* stands for its entries a to b - 1.                                      *)
(***************************************************************************)
EXTENDS Integers, Sequences, MerkleDigest

CONSTANT MaxSize  \* bound: leaves in a log

ASSUME SizeAssumption == MaxSize \in Nat

\* The largest power of two smaller than n: twice that of its half, rounded up.
Split[n \in 2..MaxSize] == IF n = 2 THEN 1 ELSE 2 * Split[(n + 1) \div 2]

Cuts == {c \in (0..MaxSize) \X (0..MaxSize) : c[1] < c[2]}

IsLeaf(c) == c[2] = c[1] + 1
Middle(c) == c[1] + Split[c[2] - c[1]]
Left(c) == <<c[1], Middle(c)>>
Right(c) == <<Middle(c), c[2]>>

\* MTH(D[a:b]).
Subtree(D) ==
  LET mth[c \in Cuts] ==
        IF IsLeaf(c) THEN LeafHash(D[c[1]]) ELSE NodeHash(mth[Left(c)], mth[Right(c)])
  IN  mth

Root(D, n) == Subtree(D)[<<0, n>>]

\* PATH(m, D[a:b]), siblings from the leaf up.
Path(D, m) ==
  LET path[c \in Cuts] ==
        IF IsLeaf(c) THEN <<>>
        ELSE IF m < Middle(c) THEN Append(path[Left(c)], Subtree(D)[Right(c)])
                              ELSE Append(path[Right(c)], Subtree(D)[Left(c)])
  IN  path

AuditPath(D, m, n) == Path(D, m)[<<0, n>>]

\* SUBPROOF(m, D[a:b], whole), m counted from the start of the log.  The flag is TRUE
\* for as long as the recursion has only gone left, that is for the cuts from entry 0.
Subproof(D, m) ==
  LET sub[c \in Cuts] ==
        IF m = c[2] \/ IsLeaf(c) THEN IF c[1] = 0 THEN <<>> ELSE <<Subtree(D)[c]>>
        ELSE IF m <= Middle(c) THEN Append(sub[Left(c)], Subtree(D)[Right(c)])
                               ELSE Append(sub[Right(c)], Subtree(D)[Left(c)])
  IN  sub

\* PROOF(m, D[0:n]).
ConsistencyProof(D, m, n) == Subproof(D, m)[<<0, n>>]
=============================================================================
