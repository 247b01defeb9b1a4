---------------------------- MODULE MerkleDigest ----------------------------
(***************************************************************************)
(* The two digests of crypto/merkle.py.  Their tags, 0x00 and 0x01, keep a *)
(* leaf apart from a node.                                                 *)
(***************************************************************************)
CONSTANTS
  LeafHash(_),    \* leaf_hash
  NodeHash(_, _)  \* _node_hash

\* What the theorems ask of SHA-256: digests are equal only if what was hashed is.
CollisionFree ==
  /\ \A d, e : LeafHash(d) = LeafHash(e) => d = e
  /\ \A l, r, l2, r2 : NodeHash(l, r) = NodeHash(l2, r2) => l = l2 /\ r = r2
  /\ \A e, l, r : LeafHash(e) # NodeHash(l, r)

\* Digests as terms, which are so: a leaf holds what was hashed, a node the pair.
TermLeaf(entry) == <<entry>>
TermNode(left, right) == <<left, right>>
=============================================================================
