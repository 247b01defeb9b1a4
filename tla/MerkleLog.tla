------------------------------ MODULE MerkleLog -----------------------------
(***************************************************************************)
(* MerkleVerify against the trees and proofs of RFC 6962: what it accepts, *)
(* of honest proofs and of proofs presented for the wrong leaf, position,  *)
(* size, root or history.                                                  *)
(***************************************************************************)
EXTENDS MerkleVerify, MerkleTree

CONSTANTS
  Histories,  \* logs, of which one may contradict another
  Entries     \* what may be hashed as a leaf

Sizes == 0..MaxSize

Spans == {c \in Sizes \X Sizes : c[1] < c[2]}

OldSpans == {c \in Spans : c[1] > 0}

\* Tables, so that each tree and proof is computed once.
Roots == [D \in Histories |-> [n \in 1..MaxSize |-> Root(D, n)]]
AuditPaths == [D \in Histories |-> [c \in Spans |-> AuditPath(D, c[1], c[2])]]
Extensions == [D \in Histories |-> [c \in OldSpans |-> ConsistencyProof(D, c[1], c[2])]]

Accepted(op) == request.op = op /\ verdict = "accepted"
Rejected(op) == request.op = op /\ verdict = "rejected"

\* The request is about a tree of D, of the size that it states.
StatesTree(D) == request.size \in 1..MaxSize /\ request.root = Roots[D][request.size]

AtItsIndex(D) == request.from = LeafHash(D[request.at])

-----------------------------------------------------------------------------
(* Properties. *)

(***************************************************************************)
(* The audit path RFC 6962 defines for a leaf is accepted, in a tree of    *)
(* any size (merkle.py:38-40).                                             *)
(***************************************************************************)
HonestInclusionAccepted ==
  Rejected("inclusion") =>
    \A D \in Histories :
      ~ /\ StatesTree(D) /\ InRange /\ AtItsIndex(D)
        /\ request.path = AuditPaths[D][<<request.at, request.size>>]

(***************************************************************************)
(* A leaf accepted as included under the root of a log is a leaf of that   *)
(* tree, at some position, whatever index and size were stated             *)
(* (merkle.py:48-69).                                                      *)
(***************************************************************************)
AcceptedIsMember ==
  Accepted("inclusion") /\ request.from \in {LeafHash(e) : e \in Entries} =>
    \A D \in Histories, n \in 1..MaxSize :
      request.root = Roots[D][n] => \E i \in 0..n - 1 : request.from = LeafHash(D[i])

(***************************************************************************)
(* A leaf accepted at an index of a tree of that size is the leaf at that  *)
(* index (merkle.py:38, "Verify an RFC 6962 inclusion proof").             *)
(***************************************************************************)
AcceptedIsAtIndex ==
  Accepted("inclusion") => \A D \in Histories : StatesTree(D) => AtItsIndex(D)

(***************************************************************************)
(* The consistency proof RFC 6962 defines is accepted (merkle.py:80-83).   *)
(***************************************************************************)
HonestConsistencyAccepted ==
  Rejected("consistency") =>
    \A D \in Histories :
      ~ /\ StatesTree(D) /\ <<request.at, request.size>> \in OldSpans
        /\ request.from = Roots[D][request.at]
        /\ request.path = Extensions[D][<<request.at, request.size>>]

(***************************************************************************)
(* A root accepted as an older one of a log is the root of a prefix of it, *)
(* never of a history that forks from it, whatever sizes were stated       *)
(* (merkle.py:113-137).                                                    *)
(***************************************************************************)
AcceptedIsPast ==
  Accepted("consistency") /\ request.at > 0 =>
    \A D, E \in Histories, n, k \in 1..MaxSize :
      request.root = Roots[D][n] /\ request.from = Roots[E][k]
        => k <= n /\ \A i \in 0..k - 1 : E[i] = D[i]

(***************************************************************************)
(* Whenever a path was long enough to reach the level of the root, what it *)
(* proves is exact: the leaf is the one at leaf_index, and the old root is *)
(* that of the first from_size entries.  So the comparison of sn with 0    *)
(* that RFC 9162 ends with is all that the code leaves out (merkle.py:     *)
(* 64-69, 130-137).                                                        *)
(***************************************************************************)
FullProofIsExact ==
  sn = 0 =>
    \A D \in Histories : StatesTree(D) =>
      /\ Accepted("inclusion") => AtItsIndex(D)
      /\ Accepted("consistency") /\ request.at > 0 => request.from = Roots[D][request.at]
=============================================================================
