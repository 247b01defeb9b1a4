---------------------------- MODULE MerkleVerify ----------------------------
(***************************************************************************)
(* verify_inclusion() and verify_consistency() of crypto/merkle.py: the    *)
(* walk from a leaf, or from an old root, up a path of siblings, one       *)
(* iteration of a loop at a time.                                          *)
(***************************************************************************)
EXTENDS Integers, Sequences, MerkleDigest

CONSTANT Requests  \* bound: the calls considered

\* A call.  For "inclusion": at is leaf_index, size tree_size, from leaf_hash_bytes,
\* root expected_root.  For "consistency": at is from_size, size to_size, from
\* from_root, root to_root.
ASSUME RequestAssumption ==
  \A r \in Requests :
    /\ r.op \in {"inclusion", "consistency"}
    /\ r.at \in Int /\ r.size \in Int

VARIABLES
  request,  \* the call
  pc,       \* the loop that runs
  fn, sn,   \* the position on this level, and the last one
  low,      \* h, or fr_hash
  high,     \* tr_hash
  rest,     \* siblings not consumed yet
  verdict   \* "open" until the call returns or raises

vars == <<request, pc, fn, sn, low, high, rest, verdict>>

Init ==
  /\ request \in Requests
  /\ pc = "begin"
  /\ fn = 0 /\ sn = 0
  /\ low = request.from /\ high = request.root
  /\ rest = <<>>
  /\ verdict = "open"

Return(v) ==
  /\ verdict' = v /\ pc' = "done"
  /\ UNCHANGED <<request, fn, sn, low, high, rest>>

Halve ==
  /\ fn' = fn \div 2
  /\ sn' = sn \div 2

\* Mutant: the last node of a level is not taken for a right one.
RightOnly == fn % 2 = 1

RightEdge == fn % 2 = 1 \/ fn = sn

-----------------------------------------------------------------------------
\* Mutant: off by one.
InRangeOrNext == 0 <= request.at /\ request.at <= request.size

InRange == 0 <= request.at /\ request.at < request.size

BeginInclusion ==
  /\ pc = "begin" /\ request.op = "inclusion"
  /\ \/ ~InRange /\ Return("rejected")
     \/ /\ InRange
        /\ fn' = request.at /\ sn' = request.size - 1
        /\ rest' = request.path
        /\ pc' = "walk"
        /\ UNCHANGED <<request, low, high, verdict>>

BeginConsistency ==
  LET m == request.at  n == request.size
      equal == request.from = request.root /\ request.path = <<>>
  IN  /\ pc = "begin" /\ request.op = "consistency"
      /\ \/ (m < 0 \/ n < m) /\ Return("rejected")
         \/ m = 0 /\ m <= n /\ Return("accepted")
         \/ m > 0 /\ m = n /\ Return(IF equal THEN "accepted" ELSE "rejected")
         \/ m > 0 /\ m < n /\ request.path = <<>> /\ Return("rejected")
         \/ /\ m > 0 /\ m < n /\ request.path # <<>>
            /\ fn' = m - 1 /\ sn' = n - 1
            /\ pc' = "trim"
            /\ UNCHANGED <<request, low, high, rest, verdict>>

\* Mutant: the full subtree at the end of the old tree is not trimmed.
TrimNothing ==
  /\ pc = "trim"
  /\ pc' = "walk"
  /\ IF fn = 0 THEN low' = request.from /\ rest' = request.path
               ELSE low' = Head(request.path) /\ rest' = Tail(request.path)
  /\ high' = low'
  /\ UNCHANGED <<request, fn, sn, verdict>>

\* while fn is odd: the old tree ends on a full subtree, whose root the walk starts
\* from; it is the old root itself if that is all of it.
Trim ==
  /\ pc = "trim"
  /\ \/ fn % 2 = 1 /\ Halve /\ UNCHANGED <<pc, low, high, rest>>
     \/ /\ fn % 2 = 0
        /\ pc' = "walk"
        /\ IF fn = 0 THEN low' = request.from /\ rest' = request.path
                     ELSE low' = Head(request.path) /\ rest' = Tail(request.path)
        /\ high' = low'
        /\ UNCHANGED <<fn, sn>>
  /\ UNCHANGED <<request, verdict>>

-----------------------------------------------------------------------------
\* What a sibling does to the digests.
Combine(sibling) ==
  IF RightEdge
  THEN /\ low' = NodeHash(sibling, low)
       /\ high' = IF request.op = "consistency" THEN NodeHash(sibling, high) ELSE high
  ELSE /\ low' = IF request.op = "inclusion" THEN NodeHash(low, sibling) ELSE low
       /\ high' = IF request.op = "consistency" THEN NodeHash(high, sibling) ELSE high

\* Mutant: a path may go on above the root.
WalkPastRoot ==
  /\ pc = "walk" /\ rest # <<>>
  /\ Combine(Head(rest))
  /\ rest' = Tail(rest)
  /\ \/ RightEdge /\ fn % 2 = 0 /\ pc' = "climb" /\ UNCHANGED <<fn, sn>>
     \/ ~(RightEdge /\ fn % 2 = 0) /\ Halve /\ UNCHANGED pc
  /\ UNCHANGED <<request, verdict>>

\* One iteration of the for loop over the path.
Walk ==
  /\ pc = "walk" /\ rest # <<>>
  /\ \/ sn = 0 /\ Return("rejected")
     \/ /\ sn # 0
        /\ Combine(Head(rest))
        /\ rest' = Tail(rest)
        /\ \/ RightEdge /\ fn % 2 = 0 /\ pc' = "climb" /\ UNCHANGED <<fn, sn>>
           \/ ~(RightEdge /\ fn % 2 = 0) /\ Halve /\ UNCHANGED pc
        /\ UNCHANGED <<request, verdict>>

\* One iteration of the inner while loop, or its end and the halving after it.  Only
\* verify_consistency looks out for fn = 0.
Climbs == fn % 2 = 0 /\ (request.op = "inclusion" \/ fn # 0)

Climb ==
  /\ pc = "climb"
  /\ Halve
  /\ pc' = IF Climbs THEN "climb" ELSE "walk"
  /\ UNCHANGED <<request, low, high, rest, verdict>>

\* Mutant: only the new root is compared.
MatchesNewRoot ==
  CASE request.op = "inclusion" -> low = request.root
    [] request.op = "consistency" -> high = request.root

\* Mutant: a path with no sibling is taken for a tree of one leaf.
MatchesEmptyPath ==
  CASE request.op = "inclusion" -> low = request.root \/ request.path = <<>>
    [] request.op = "consistency" -> low = request.from /\ high = request.root

\* The path is used up: compare, without looking at sn.
Matches ==
  CASE request.op = "inclusion" -> low = request.root
    [] request.op = "consistency" -> low = request.from /\ high = request.root

Finish ==
  /\ pc = "walk" /\ rest = <<>>
  /\ Return(IF Matches THEN "accepted" ELSE "rejected")

Done == pc = "done" /\ UNCHANGED vars

Step == BeginInclusion \/ BeginConsistency \/ Trim \/ Walk \/ Climb \/ Finish

Next == Step \/ Done

Spec == Init /\ [][Next]_vars

FairSpec == Spec /\ WF_vars(Step)

-----------------------------------------------------------------------------
(* Properties. *)

(***************************************************************************)
(* Types, and that the position stays on its level: 0 <= fn <= sn while a  *)
(* walk is under way (merkle.py:48-65, 103-131).                           *)
(***************************************************************************)
TypeOK ==
  /\ request.op \in {"inclusion", "consistency"}
  /\ request.at \in Int /\ request.size \in Int
  /\ pc \in {"begin", "trim", "walk", "climb", "done"}
  /\ fn \in Nat /\ sn \in Nat /\ fn <= sn
  /\ verdict \in {"open", "accepted", "rejected"}
  /\ (pc = "done") <=> (verdict # "open")

(***************************************************************************)
(* verify_inclusion never enters its unguarded inner loop with fn = 0, on  *)
(* which it would spin for ever (merkle.py:59-61).                         *)
(***************************************************************************)
NeverSpins == pc = "climb" /\ request.op = "inclusion" => fn # 0

(***************************************************************************)
(* Every call returns or raises, whatever the path (merkle.py:51-65,       *)
(* 105-107, 119-131).                                                      *)
(***************************************************************************)
Terminates == <>(pc = "done")
=============================================================================
