--------------------------- MODULE MerkleLogProofs --------------------------
(***************************************************************************)
(* What merkle.py accepts of a Merkle log, for trees of any size, any set  *)
(* of logs and any requests, as long as digests do not collide.            *)
(***************************************************************************)
EXTENDS MerkleLog, MerkleVerifyProofs, MerkleTreeProofs

(* Digests can be so: as terms they are.                                   *)
LEMMA TermsDoNotCollide ==
  /\ \A d, e : TermLeaf(d) = TermLeaf(e) => d = e
  /\ \A l, r, l2, r2 : TermNode(l, r) = TermNode(l2, r2) => l = l2 /\ r = r2
  /\ \A e, l, r : TermLeaf(e) # TermNode(l, r)
BY DEF TermLeaf, TermNode

(* A subtree is a leaf or a node.                                          *)
LEMMA SubtreeLeaf ==
  ASSUME NEW D, NEW c \in Cuts, IsLeaf(c)
  PROVE  Subtree(D)[c] = LeafHash(D[c[1]])
BY SubtreeDef

LEMMA SubtreeNode ==
  ASSUME NEW D, NEW c \in Cuts, ~IsLeaf(c)
  PROVE  Subtree(D)[c] = NodeHash(Subtree(D)[Left(c)], Subtree(D)[Right(c)])
BY SubtreeDef

(* What hashes to a subtree as a node does is two subtrees.                *)
LEMMA SplitsOnly ==
  ASSUME CollisionFree, NEW D, NEW c \in Cuts, NEW l, NEW r, NodeHash(l, r) = Subtree(D)[c]
  PROVE  ~IsLeaf(c) /\ l = Subtree(D)[Left(c)] /\ r = Subtree(D)[Right(c)]
<1>1. ~IsLeaf(c)
  BY SubtreeLeaf DEF CollisionFree
<1>2. NodeHash(l, r) = NodeHash(Subtree(D)[Left(c)], Subtree(D)[Right(c)])
  BY <1>1, SubtreeNode
<1>3. QED BY <1>1, <1>2 DEF CollisionFree

-----------------------------------------------------------------------------
(* AcceptedIsMember: whichever subtree the digest of the walk is, the leaf *)
(* that the walk began with lies below it.                                 *)
Below(D, c) == \E i \in c[1]..c[2] - 1 : request.from = LeafHash(D[i])

Member ==
  /\ pc = "trim" => request.op = "consistency"
  /\ request.op = "inclusion" =>
       /\ verdict = "accepted" => low = request.root
       /\ request.from \in {LeafHash(e) : e \in Entries} =>
            \A D \in Histories, c \in Cuts : low = Subtree(D)[c] => Below(D, c)

LEMMA MemberInit == CollisionFree /\ Init => Member
<1> SUFFICES ASSUME CollisionFree, Init PROVE Member
  OBVIOUS
<1>1. ASSUME NEW D \in Histories, NEW c \in Cuts, NEW e \in Entries,
             request.from = LeafHash(e), low = Subtree(D)[c]
      PROVE  Below(D, c)
  <2>1. IsLeaf(c)
    BY <1>1, SubtreeNode DEF Init, CollisionFree
  <2>2. request.from = LeafHash(D[c[1]])
    BY <1>1, <2>1, SubtreeLeaf DEF Init
  <2>3. c[1] \in c[1]..c[2] - 1
    BY <2>1, SizeAssumption DEF IsLeaf, Cuts
  <2>4. QED BY <2>2, <2>3 DEF Below
<1>2. pc = "begin" /\ verdict = "open"
  BY DEF Init
<1>3. QED BY <1>1, <1>2 DEF Member

LEMMA MemberStep == CollisionFree /\ OnTree /\ Member /\ [Next]_vars => Member'
<1> SUFFICES ASSUME CollisionFree, OnTree, Member, [Next]_vars PROVE Member'
  OBVIOUS
<1>a. ASSUME UNCHANGED <<request, low>>, pc' # "trim" \/ request.op = "consistency",
             request.op = "inclusion" /\ verdict' = "accepted" => low = request.root
      PROVE  Member'
  BY <1>a DEF Member, Below
<1>1. CASE BeginInclusion
  BY <1>1, <1>a DEF BeginInclusion, Return, Member
<1>2. CASE BeginConsistency
  BY <1>2, <1>a DEF BeginConsistency, Return, Member
<1>3. CASE Trim
  BY <1>3 DEF Trim, Member
<1>4. CASE Walk
  <2>1. CASE UNCHANGED <<request, low>> /\ pc' = "done" /\ verdict' = "rejected"
    BY <1>a, <2>1
  <2>2. CASE Combine(Head(rest)) /\ pc' # "trim" /\ UNCHANGED <<request, verdict>>
    <3>1. ASSUME NEW D \in Histories, NEW c \in Cuts, request.op = "inclusion",
                 request.from \in {LeafHash(e) : e \in Entries}, low' = Subtree(D)[c]
          PROVE  Below(D, c)
      <4>1. low' = NodeHash(Head(rest), low) \/ low' = NodeHash(low, Head(rest))
        BY <2>2, <3>1 DEF Combine
      <4>2. ~IsLeaf(c) /\ (low = Subtree(D)[Left(c)] \/ low = Subtree(D)[Right(c)])
        BY <3>1, <4>1, SplitsOnly
      <4>3. Below(D, Left(c)) \/ Below(D, Right(c))
        BY <3>1, <4>2, CutParts DEF Member
      <4>4. c[1] \in Int /\ c[2] \in Int /\ Middle(c) \in Int /\ c[1] < Middle(c) /\ Middle(c) < c[2]
        BY <4>2, CutParts, SizeAssumption DEF Cuts
      <4>5. QED BY <4>3, <4>4 DEF Below, Left, Right
    <3>2. request.op = "inclusion" => verdict' # "accepted"
      BY <1>4, <2>2 DEF Walk, OnTree, TypeOK
    <3>3. QED BY <2>2, <3>1, <3>2 DEF Member, Below
  <2>3. QED BY <1>4, <2>1, <2>2 DEF Walk, Return
<1>5. CASE Climb
  BY <1>5, <1>a DEF Climb, Member
<1>6. CASE Finish
  BY <1>6, <1>a DEF Finish, Return, Matches
<1>7. CASE Done \/ UNCHANGED vars
  BY <1>7, <1>a DEF Done, vars, Member
<1>8. QED BY <1>1, <1>2, <1>3, <1>4, <1>5, <1>6, <1>7 DEF Next, Step

(***************************************************************************)
(* A leaf accepted as included under the root of a log is a leaf of that   *)
(* tree, whatever index, size and path were given (merkle.py:48-69).       *)
(***************************************************************************)
THEOREM OnlyMembersAccepted ==
  ASSUME CollisionFree
  PROVE  Spec => []AcceptedIsMember
<1>1. OnTree /\ Member => AcceptedIsMember
  <2> SUFFICES ASSUME Member, Accepted("inclusion"),
                      request.from \in {LeafHash(e) : e \in Entries},
                      NEW D \in Histories, NEW n \in 1..MaxSize, request.root = Roots[D][n]
               PROVE  \E i \in 0..n - 1 : request.from = LeafHash(D[i])
    BY DEF AcceptedIsMember
  <2>1. <<0, n>> \in Cuts
    BY SizeAssumption DEF Cuts
  <2>2. low = Subtree(D)[<<0, n>>]
    BY DEF Member, Accepted, Roots, Root
  <2>3. Below(D, <<0, n>>)
    BY <2>1, <2>2 DEF Member, Accepted
  <2>4. QED BY <2>3 DEF Below
<1>2. Init => OnTree /\ Member
  BY OnTreeInit, MemberInit
<1>3. OnTree /\ Member /\ [Next]_vars => (OnTree /\ Member)'
  BY OnTreeStep, MemberStep
<1>4. QED BY <1>1, <1>2, <1>3, PTL DEF Spec

-----------------------------------------------------------------------------
(* AcceptedIsPast.  Trees with the same root are of the same leaves.       *)
Extends(D, c, E, d) ==
  /\ Width(d) <= Width(c)
  /\ \A i \in 0..Width(d) - 1 : E[d[1] + i] = D[c[1] + i]

LEMMA SameLeaves ==
  ASSUME CollisionFree, NEW D, NEW E,
         NEW c \in Cuts, NEW d \in Cuts, Subtree(D)[c] = Subtree(E)[d]
  PROVE  Width(c) = Width(d) /\ Extends(D, c, E, d)
<1> DEFINE Same(u, v) == Width(u) = Width(v) /\ Extends(D, u, E, v)
           T == {k \in Nat : \E u, v \in Cuts : /\ Width(u) <= k
                                                /\ Subtree(D)[u] = Subtree(E)[v]
                                                /\ ~Same(u, v)}
<1>1. 0 \notin T
  BY WidthOf, SizeAssumption
<1>2. ASSUME NEW k \in Nat, k \notin T PROVE k + 1 \notin T
  <2>1. ASSUME NEW u \in Cuts, NEW v \in Cuts, Width(u) <= k + 1, Subtree(D)[u] = Subtree(E)[v]
        PROVE  Same(u, v)
    <3>1. CASE IsLeaf(u)
      <4>1. IsLeaf(v)
        BY <2>1, <3>1, SubtreeLeaf, SubtreeNode DEF CollisionFree
      <4>2. D[u[1]] = E[v[1]]
        BY <2>1, <3>1, <4>1, SubtreeLeaf DEF CollisionFree
      <4>3. Width(u) = 1 /\ Width(v) = 1 /\ u[1] \in Nat /\ v[1] \in Nat
        BY <3>1, <4>1, SizeAssumption DEF IsLeaf, Width, Cuts
      <4>4. QED BY <4>2, <4>3 DEF Extends
    <3>2. CASE ~IsLeaf(u)
      <4>1. /\ ~IsLeaf(v)
            /\ Subtree(D)[Left(u)] = Subtree(E)[Left(v)]
            /\ Subtree(D)[Right(u)] = Subtree(E)[Right(v)]
        BY <2>1, <3>2, SubtreeNode, SplitsOnly
      <4>2. /\ Left(u) \in Cuts /\ Right(u) \in Cuts /\ Left(v) \in Cuts /\ Right(v) \in Cuts
            /\ Width(Left(u)) <= k /\ Width(Right(u)) <= k
        BY <2>1, <3>2, <4>1, CutParts, WidthOf, SizeAssumption
      <4>3. Same(Left(u), Left(v)) /\ Same(Right(u), Right(v))
        BY <1>2, <4>1, <4>2
      <4> DEFINE a == u[1]  b == v[1]  j == Width(Left(u))  w == Width(Right(u))
      <4>4. /\ a \in Nat /\ b \in Nat /\ j \in Nat /\ w \in Nat
            /\ Left(u)[1] = a /\ Right(u)[1] = a + j /\ Width(u) = j + w
            /\ Left(v)[1] = b /\ Right(v)[1] = b + j /\ Width(v) = j + w
        <5>1. /\ u[1] \in Nat /\ u[2] \in Nat /\ Middle(u) \in Nat /\ u[1] < Middle(u) /\ Middle(u) < u[2]
              /\ v[1] \in Nat /\ v[2] \in Nat /\ Middle(v) \in Nat /\ v[1] < Middle(v) /\ Middle(v) < v[2]
          BY <3>2, <4>1, CutParts, SizeAssumption DEF Cuts
        <5>2. Width(Left(v)) = Width(Left(u)) /\ Width(Right(v)) = Width(Right(u))
          BY <4>3
        <5>3. QED BY <5>1, <5>2 DEF Width, Left, Right
      <4>5. /\ \A i \in 0..j - 1 : E[b + i] = D[a + i]
            /\ \A i \in 0..w - 1 : E[(b + j) + i] = D[(a + j) + i]
        BY <4>3, <4>4 DEF Extends
      <4>6. \A i \in 0..(j + w) - 1 : E[b + i] = D[a + i]
        <5> TAKE i \in 0..(j + w) - 1
        <5>1. CASE i < j
          BY <4>4, <4>5, <5>1
        <5>2. CASE ~(i < j)
          <6>1. i - j \in 0..w - 1 /\ (b + j) + (i - j) = b + i /\ (a + j) + (i - j) = a + i
            BY <4>4, <5>2
          <6>2. QED BY <4>5, <6>1
        <5>3. QED BY <5>1, <5>2
      <4>7. QED BY <4>4, <4>6 DEF Extends
    <3>3. QED BY <3>1, <3>2
  <2>2. QED BY <2>1
<1>3. T = {}
  <2> HIDE DEF T
  <2>1. T \subseteq Nat
    BY DEF T
  <2>2. QED BY <1>1, <1>2, <2>1, Induction
<1>4. Width(c) \in Nat
  BY WidthOf, SizeAssumption
<1>5. QED BY <1>3, <1>4

LEMMA PartsOf ==
  ASSUME NEW c \in Cuts, ~IsLeaf(c)
  PROVE  /\ c[1] \in Nat /\ Width(Left(c)) \in Nat /\ Width(Right(c)) \in Nat
         /\ Left(c) \in Cuts /\ Right(c) \in Cuts
         /\ Left(c)[1] = c[1] /\ Right(c)[1] = c[1] + Width(Left(c))
         /\ Width(c) = Width(Left(c)) + Width(Right(c))
<1>1. /\ c[1] \in Nat /\ c[2] \in Nat /\ Middle(c) \in Nat /\ c[1] < Middle(c) /\ Middle(c) < c[2]
      /\ Left(c) \in Cuts /\ Right(c) \in Cuts
  BY CutParts, SizeAssumption DEF Cuts
<1>2. QED BY <1>1 DEF Width, Left, Right

(* Prepending the same to both keeps a prefix a prefix, and so does        *)
(* appending to the longer.                                                *)
LEMMA ExtendsBoth ==
  ASSUME CollisionFree, NEW D, NEW E, NEW c \in Cuts, NEW d \in Cuts, ~IsLeaf(c), ~IsLeaf(d),
         Subtree(D)[Left(c)] = Subtree(E)[Left(d)], Extends(D, Right(c), E, Right(d))
  PROVE  Extends(D, c, E, d)
<1> DEFINE a == c[1]  b == d[1]  j == Width(Left(c))  w == Width(Right(d))
<1>1. /\ a \in Nat /\ b \in Nat /\ j \in Nat /\ w \in Nat /\ Width(Left(d)) = j
      /\ Left(c)[1] = a /\ Right(c)[1] = a + j /\ Width(c) = j + Width(Right(c))
      /\ Left(d)[1] = b /\ Right(d)[1] = b + j /\ Width(d) = j + w /\ Width(Right(c)) \in Nat
  <2>1. Left(c) \in Cuts /\ Left(d) \in Cuts
    BY PartsOf
  <2>2. Width(Left(c)) = Width(Left(d))
    BY <2>1, SameLeaves
  <2>3. /\ a \in Nat /\ j \in Nat /\ Left(c)[1] = a /\ Right(c)[1] = a + j
        /\ Width(c) = j + Width(Right(c)) /\ Width(Right(c)) \in Nat
    BY PartsOf
  <2>4. /\ b \in Nat /\ w \in Nat /\ Left(d)[1] = b /\ Right(d)[1] = b + Width(Left(d))
        /\ Width(d) = Width(Left(d)) + w
    BY PartsOf
  <2>5. QED BY <2>2, <2>3, <2>4
<1>2. /\ \A i \in 0..j - 1 : E[b + i] = D[a + i]
      /\ \A i \in 0..w - 1 : E[(b + j) + i] = D[(a + j) + i]
      /\ w <= Width(Right(c))
  <2>1. Extends(D, Left(c), E, Left(d))
    BY PartsOf, SameLeaves
  <2>2. QED BY <1>1, <2>1 DEF Extends
<1>3. \A i \in 0..(j + w) - 1 : E[b + i] = D[a + i]
  <2> TAKE i \in 0..(j + w) - 1
  <2>1. CASE i < j
    BY <1>1, <1>2, <2>1
  <2>2. CASE ~(i < j)
    <3>1. i - j \in 0..w - 1 /\ (b + j) + (i - j) = b + i /\ (a + j) + (i - j) = a + i
      BY <1>1, <2>2
    <3>2. QED BY <1>2, <3>1
  <2>3. QED BY <2>1, <2>2
<1>4. QED BY <1>1, <1>2, <1>3 DEF Extends

LEMMA ExtendsLeft ==
  ASSUME NEW D, NEW E, NEW c \in Cuts, NEW d \in Cuts, ~IsLeaf(c), Extends(D, Left(c), E, d)
  PROVE  Extends(D, c, E, d)
<1>1. /\ Left(c)[1] = c[1] /\ Width(Left(c)) \in Nat /\ Width(Right(c)) \in Nat
      /\ Width(c) = Width(Left(c)) + Width(Right(c))
  BY PartsOf
<1>2. Width(d) \in Nat
  BY WidthOf, SizeAssumption
<1>3. QED BY <1>1, <1>2 DEF Extends

\* Whenever the two digests are those of subtrees, the one is of a prefix of the other.
IsPrefixOf(older, newer) ==
  \A D, E \in Histories, c, d \in Cuts :
    newer = Subtree(D)[c] /\ older = Subtree(E)[d] => Extends(D, c, E, d)

Past ==
  request.op = "consistency" =>
    /\ pc \in {"walk", "climb"} => IsPrefixOf(low, high)
    /\ verdict = "accepted" /\ request.at > 0 => IsPrefixOf(request.from, request.root)

LEMMA RequestKept == [Next]_vars => request' = request
<1>1. BeginInclusion \/ Trim \/ Climb \/ Done \/ UNCHANGED vars => request' = request
  BY DEF BeginInclusion, Trim, Climb, Done, Return, vars
<1>2. BeginConsistency => request' = request
  BY DEF BeginConsistency, Return
<1>3. Walk \/ Finish => request' = request
  BY DEF Walk, Finish, Return
<1>4. QED BY <1>1, <1>2, <1>3 DEF Next, Step

LEMMA PastStep == CollisionFree /\ OnTree /\ Past /\ [Next]_vars => Past'
<1> SUFFICES ASSUME CollisionFree, OnTree, Past, [Next]_vars, request.op = "consistency",
                    request' = request
             PROVE  Past'
  BY RequestKept DEF Past
<1>a. pc # "done" => verdict = "open"
  BY DEF OnTree, TypeOK
<1>b. IsPrefixOf(low, high)' <=> IsPrefixOf(low', high')
  BY DEF IsPrefixOf
<1>c. \A x : IsPrefixOf(x, x)
  BY SameLeaves DEF IsPrefixOf
<1>d. IsPrefixOf(request.from, request.root)' <=> IsPrefixOf(request.from, request.root)
  BY DEF IsPrefixOf
<1>1. CASE BeginInclusion
  BY <1>1 DEF BeginInclusion
<1>2. CASE BeginConsistency
  <2>1. pc' \notin {"walk", "climb"}
    BY <1>2 DEF BeginConsistency, Return
  <2>2. verdict' = "accepted" /\ request.at > 0 => request.from = request.root
    BY <1>2, <1>a, RequestAssumption DEF BeginConsistency, Return, OnTree, TypeOK
  <2>3. QED BY <2>1, <2>2, <1>c, <1>d DEF Past
<1>3. CASE Trim
  <2>1. verdict' = "open"
    BY <1>3, <1>a DEF Trim
  <2>2. pc' = "walk" => high' = low'
    BY <1>3 DEF Trim
  <2>3. pc' # "climb"
    BY <1>3 DEF Trim
  <2>4. QED BY <2>1, <2>2, <2>3, <1>b, <1>c DEF Past
<1>4. CASE Walk
  <2>1. CASE pc' = "done" /\ verdict' = "rejected"
    BY <2>1 DEF Past
  <2>2. CASE Combine(Head(rest)) /\ UNCHANGED verdict
    <3>1. IsPrefixOf(low, high)
      BY <1>4 DEF Walk, Past
    <3>2. ASSUME NEW D \in Histories, NEW E \in Histories, NEW c \in Cuts, NEW d \in Cuts,
                 high' = Subtree(D)[c], low' = Subtree(E)[d]
          PROVE  Extends(D, c, E, d)
      <4> DEFINE sibling == Head(rest)
      <4>c. Combine(sibling)
        BY <2>2
      <4> HIDE DEF sibling
      <4>1. CASE RightEdge
        <5>1. low' = NodeHash(sibling, low) /\ high' = NodeHash(sibling, high)
          BY <4>c, <4>1 DEF Combine
        <5>2. /\ ~IsLeaf(c) /\ ~IsLeaf(d)
              /\ Subtree(D)[Left(c)] = Subtree(E)[Left(d)]
              /\ high = Subtree(D)[Right(c)] /\ low = Subtree(E)[Right(d)]
          <6>1. NodeHash(sibling, high) = Subtree(D)[c] /\ NodeHash(sibling, low) = Subtree(E)[d]
            BY <3>2, <5>1
          <6>a. \A l, r : NodeHash(l, r) = Subtree(D)[c]
                  => ~IsLeaf(c) /\ l = Subtree(D)[Left(c)] /\ r = Subtree(D)[Right(c)]
            BY SplitsOnly
          <6>b. \A l, r : NodeHash(l, r) = Subtree(E)[d]
                  => ~IsLeaf(d) /\ l = Subtree(E)[Left(d)] /\ r = Subtree(E)[Right(d)]
            BY SplitsOnly
          <6>2. ~IsLeaf(c) /\ sibling = Subtree(D)[Left(c)] /\ high = Subtree(D)[Right(c)]
            BY <6>1, <6>a
          <6>3. ~IsLeaf(d) /\ sibling = Subtree(E)[Left(d)] /\ low = Subtree(E)[Right(d)]
            BY <6>1, <6>b
          <6>4. QED BY <6>2, <6>3
        <5>3. Extends(D, Right(c), E, Right(d))
          BY <3>1, <5>2, CutParts DEF IsPrefixOf
        <5>4. QED BY <5>2, <5>3, ExtendsBoth
      <4>2. CASE ~RightEdge
        <5>1. low' = low /\ high' = NodeHash(high, sibling)
          BY <4>c, <4>2 DEF Combine
        <5>2. ~IsLeaf(c) /\ high = Subtree(D)[Left(c)]
          BY <3>2, <5>1, SplitsOnly
        <5>3. Extends(D, Left(c), E, d)
          BY <3>1, <3>2, <5>1, <5>2, CutParts DEF IsPrefixOf
        <5>4. QED BY <5>2, <5>3, ExtendsLeft
      <4>3. QED BY <4>1, <4>2
    <3>3. verdict' = "open"
      BY <1>4, <1>a, <2>2 DEF Walk
    <3>4. QED BY <3>2, <3>3, <1>b DEF Past, IsPrefixOf
  <2>3. QED BY <1>4, <2>1, <2>2 DEF Walk, Return
<1>5. CASE Climb
  <2>1. IsPrefixOf(low, high) /\ low' = low /\ high' = high /\ verdict' = "open"
    BY <1>5, <1>a DEF Climb, Past
  <2>2. QED BY <2>1, <1>b DEF Past
<1>6. CASE Finish
  <2>1. IsPrefixOf(low, high) /\ pc' = "done"
    BY <1>6 DEF Finish, Return, Past
  <2>2. verdict' = "accepted" => low = request.from /\ high = request.root
    BY <1>6 DEF Finish, Return, Matches
  <2>3. QED BY <2>1, <2>2, <1>d DEF Past
<1>7. CASE Done \/ UNCHANGED vars
  BY <1>7, <1>b, <1>d DEF Done, vars, Past
<1>8. QED BY <1>1, <1>2, <1>3, <1>4, <1>5, <1>6, <1>7 DEF Next, Step

(***************************************************************************)
(* An old root accepted under the root of a log is that of a prefix of the *)
(* log, whatever sizes and path were given: no history that forks from it  *)
(* is taken for its past (merkle.py:113-137).                              *)
(***************************************************************************)
THEOREM OnlyPrefixesAccepted ==
  ASSUME CollisionFree
  PROVE  Spec => []AcceptedIsPast
<1>1. Past => AcceptedIsPast
  <2> SUFFICES ASSUME Past, Accepted("consistency"), request.at > 0,
                      NEW D \in Histories, NEW E \in Histories,
                      NEW n \in 1..MaxSize, NEW k \in 1..MaxSize,
                      request.root = Roots[D][n], request.from = Roots[E][k]
               PROVE  k <= n /\ \A i \in 0..k - 1 : E[i] = D[i]
    BY DEF AcceptedIsPast
  <2>1. <<0, n>> \in Cuts /\ <<0, k>> \in Cuts
    BY SizeAssumption DEF Cuts
  <2>2. Extends(D, <<0, n>>, E, <<0, k>>)
    BY <2>1 DEF Past, IsPrefixOf, Accepted, Roots, Root
  <2>3. QED BY <2>2 DEF Extends, Width
<1>2. Init => OnTree /\ Past
  BY OnTreeInit DEF Init, Past
<1>3. OnTree /\ Past /\ [Next]_vars => (OnTree /\ Past)'
  BY OnTreeStep, PastStep
<1>4. QED BY <1>1, <1>2, <1>3, PTL DEF Spec

-----------------------------------------------------------------------------
(* FullProofIsExact.  On a level of the tree: the walk is at the node that *)
(* holds the leaf or the old tree's last one, and sn at the last of all.   *)
Seat == IF request.op = "inclusion" THEN request.at ELSE request.at - 1

On(p) == At(p, fn, Seat) /\ At(p, sn, request.size - 1)

\* The subtrees above the node: of the tree stated, and of its first n leaves.
Over(D, p, n) == Subtree(D)[Cover(p, fn, n)]

ExactInclusion(D, p) ==
  /\ pc = "walk" => (low = Over(D, p, request.size) => AtItsIndex(D))
  /\ pc = "climb" => \A x : low = NodeHash(x, Over(D, p, request.size)) => AtItsIndex(D)

ExactConsistency(D, p) ==
  /\ pc = "trim" => (fn + 1) * p = request.at
  /\ pc = "walk" => (high = Over(D, p, request.size) => low = Over(D, p, request.at))
  /\ pc = "climb" => \A x : high = NodeHash(x, Over(D, p, request.size))
                              => low = NodeHash(x, Over(D, p, request.at))

Under(D) ==
  /\ pc = "begin" => low = request.from
  /\ pc = "climb" => fn = sn /\ fn # 0
  /\ pc = "trim" => request.op = "consistency"
  /\ pc \in {"trim", "walk", "climb"} =>
       /\ Seat \in Nat /\ Seat + 1 <= request.size
       /\ request.op = "consistency" => request.at < request.size
       /\ \E p : /\ On(p)
                 /\ request.op = "inclusion" => ExactInclusion(D, p)
                 /\ request.op = "consistency" => ExactConsistency(D, p)

\* What the comparison of sn with 0 would make sure of.
ExactWhenFull(D) ==
  pc = "done" /\ sn = 0 =>
    /\ Accepted("inclusion") => AtItsIndex(D)
    /\ Accepted("consistency") /\ request.at > 0 =>
         request.at <= request.size /\ request.from = Root(D, request.at)

Exact ==
  \A D \in Histories :
    request.size \in 1..MaxSize /\ request.root = Root(D, request.size) => Under(D) /\ ExactWhenFull(D)

(* Halving goes up a level, to a node with two parts or, at the right edge *)
(* of the tree, to the same subtree again.                                 *)
LEMMA UpOne ==
  ASSUME TypeOK, NEW p, On(p), Seat \in Nat, Seat < request.size, request.size \in 1..MaxSize, Halve
  PROVE  At(2 * p, fn', Seat) /\ At(2 * p, sn', request.size - 1)
BY AtHalve DEF On, Halve

LEMMA OverOdd ==
  ASSUME TypeOK, NEW D, NEW p, On(p), Seat \in Nat, NEW n \in 1..MaxSize, Seat < n, fn % 2 = 1
  PROVE  LET c == Cover(2 * p, fn \div 2, n)
         IN  /\ c \in Cuts /\ ~IsLeaf(c)
             /\ Left(c) = Cover(p, fn - 1, n) /\ Right(c) = Cover(p, fn, n)
             /\ Subtree(D)[c] = NodeHash(Subtree(D)[Cover(p, fn - 1, n)], Over(D, p, n))
<1> DEFINE c == Cover(2 * p, fn \div 2, n)
<1>1. c \in Cuts /\ ~IsLeaf(c) /\ Left(c) = Cover(p, fn - 1, n) /\ Right(c) = Cover(p, fn, n)
  BY AboveOdd DEF On
<1>2. Subtree(D)[c] = NodeHash(Subtree(D)[Left(c)], Subtree(D)[Right(c)])
  BY <1>1, SubtreeNode
<1> HIDE DEF c
<1>3. QED BY <1>1, <1>2 DEF Over, c

LEMMA OverEven ==
  ASSUME TypeOK, NEW D, NEW p, On(p), Seat \in Nat, Seat < request.size,
         request.size \in 1..MaxSize, fn % 2 = 0, fn < sn
  PROVE  LET c == Cover(2 * p, fn \div 2, request.size)
         IN  /\ c \in Cuts /\ ~IsLeaf(c)
             /\ Left(c) = Cover(p, fn, request.size) /\ Right(c) = Cover(p, fn + 1, request.size)
             /\ Subtree(D)[c] = NodeHash(Over(D, p, request.size),
                                         Subtree(D)[Cover(p, fn + 1, request.size)])
<1> DEFINE c == Cover(2 * p, fn \div 2, request.size)
<1>1. /\ c \in Cuts /\ ~IsLeaf(c)
      /\ Left(c) = Cover(p, fn, request.size) /\ Right(c) = Cover(p, fn + 1, request.size)
  BY AboveEven DEF On
<1>2. Subtree(D)[c] = NodeHash(Subtree(D)[Left(c)], Subtree(D)[Right(c)])
  BY <1>1, SubtreeNode
<1> HIDE DEF c
<1>3. QED BY <1>1, <1>2 DEF Over, c

LEMMA ExactInit == Init => Exact
BY DEF Init, Exact, Under, ExactWhenFull

LEMMA Moved ==
  ASSUME request' = request, NEW D, NEW p
  PROVE  /\ Seat' = Seat
         /\ On(p)' <=> At(p, fn', Seat) /\ At(p, sn', request.size - 1)
         /\ Over(D, p, request.size)' = Subtree(D)[Cover(p, fn', request.size)]
         /\ Over(D, p, request.at)' = Subtree(D)[Cover(p, fn', request.at)]
         /\ AtItsIndex(D)' <=> AtItsIndex(D)
<1>1. Seat' = Seat
  BY DEF Seat
<1>2. On(p)' <=> At(p, fn', Seat) /\ At(p, sn', request.size - 1)
  BY <1>1 DEF On, At
<1>3. /\ Over(D, p, request.size)' = Subtree(D)[Cover(p, fn', request.size)]
      /\ Over(D, p, request.at)' = Subtree(D)[Cover(p, fn', request.at)]
  BY DEF Over, Cover
<1>4. QED BY <1>1, <1>2, <1>3 DEF AtItsIndex

\* What the digests h and g would show, were they NodeHash(x, ...) of the subtrees.
Hashed(D, p, h, g) ==
  /\ request.op = "inclusion" =>
       \A x : h = NodeHash(x, Over(D, p, request.size)) => AtItsIndex(D)
  /\ request.op = "consistency" =>
       \A x : g = NodeHash(x, Over(D, p, request.size)) => h = NodeHash(x, Over(D, p, request.at))

(* A sibling on the left is hashed into both digests.                      *)
LEMMA PairUp ==
  ASSUME CollisionFree, NEW D, NEW p, pc = "walk",
         request.op = "inclusion" => ExactInclusion(D, p),
         request.op = "consistency" => ExactConsistency(D, p),
         NEW sibling, RightEdge, Combine(sibling)
  PROVE  Hashed(D, p, low', high')
<1>1. low' = NodeHash(sibling, low)
  BY DEF Combine
<1>2. ASSUME request.op = "inclusion", NEW x, low' = NodeHash(x, Over(D, p, request.size))
      PROVE  AtItsIndex(D)
  <2>1. NodeHash(sibling, low) = NodeHash(x, Over(D, p, request.size))
    BY <1>1, <1>2
  <2>2. low = Over(D, p, request.size)
    BY <2>1 DEF CollisionFree
  <2>3. QED BY <1>2, <2>2 DEF ExactInclusion
<1>3. ASSUME request.op = "consistency", NEW x, high' = NodeHash(x, Over(D, p, request.size))
      PROVE  low' = NodeHash(x, Over(D, p, request.at))
  <2>1. NodeHash(sibling, high) = NodeHash(x, Over(D, p, request.size))
    BY <1>3 DEF Combine
  <2>2. sibling = x /\ high = Over(D, p, request.size)
    BY <2>1 DEF CollisionFree
  <2>3. low = Over(D, p, request.at)
    BY <1>3, <2>2 DEF ExactConsistency
  <2>4. QED BY <1>1, <2>2, <2>3
<1>4. QED BY <1>2, <1>3 DEF Hashed

(* From there the walk is one level up.                                    *)
LEMMA WalkOn ==
  ASSUME TypeOK, NEW D, NEW p, On(p), Seat \in Nat, Seat + 1 <= request.size,
         request.op = "consistency" => request.at < request.size,
         request.size \in 1..MaxSize,
         fn % 2 = 1, Halve, request' = request, Hashed(D, p, low', high')
  PROVE  /\ request.op = "inclusion" =>
              (low' = Over(D, 2 * p, request.size)' => AtItsIndex(D))
         /\ request.op = "consistency" =>
              (high' = Over(D, 2 * p, request.size)' => low' = Over(D, 2 * p, request.at)')
<1>1. /\ Over(D, 2 * p, request.size)' = Subtree(D)[Cover(2 * p, fn \div 2, request.size)]
      /\ Over(D, 2 * p, request.at)' = Subtree(D)[Cover(2 * p, fn \div 2, request.at)]
  BY Moved DEF Halve
<1>2. Over(D, 2 * p, request.size)'
        = NodeHash(Subtree(D)[Cover(p, fn - 1, request.size)], Over(D, p, request.size))
  <2>1. Seat < request.size
    BY DEF TypeOK
  <2>2. QED BY <1>1, <2>1, OverOdd
<1>3. ASSUME request.op = "consistency"
      PROVE  /\ Over(D, 2 * p, request.at)'
                  = NodeHash(Subtree(D)[Cover(p, fn - 1, request.at)], Over(D, p, request.at))
             /\ Cover(p, fn - 1, request.size) = Cover(p, fn - 1, request.at)
  <2>1. request.at \in 1..MaxSize /\ Seat < request.at /\ Seat = request.at - 1
    BY <1>3, SizeAssumption DEF Seat, TypeOK
  <2>2. Over(D, 2 * p, request.at)'
          = NodeHash(Subtree(D)[Cover(p, fn - 1, request.at)], Over(D, p, request.at))
    BY <1>1, <2>1, OverOdd
  <2>3. fn * p <= Seat /\ fn * p \in Nat /\ ((fn - 1) + 1) * p = fn * p
    BY DEF On, At, Levels, TypeOK
  <2>4. fn * p <= request.at /\ fn * p <= request.size
    BY <2>1, <2>3
  <2>5. Cover(p, fn - 1, request.size) = Cover(p, fn - 1, request.at)
    BY <2>3, <2>4 DEF Cover
  <2>6. QED BY <2>2, <2>5
<1>4. ASSUME request.op = "inclusion", low' = Over(D, 2 * p, request.size)' PROVE AtItsIndex(D)
  BY <1>2, <1>4 DEF Hashed
<1>5. ASSUME request.op = "consistency", high' = Over(D, 2 * p, request.size)'
      PROVE  low' = Over(D, 2 * p, request.at)'
  BY <1>2, <1>3, <1>5 DEF Hashed
<1>6. QED BY <1>4, <1>5

LEMMA UnderStep ==
  ASSUME CollisionFree, OnTree, NEW D, request.size \in 1..MaxSize, Under(D), [Next]_vars
  PROVE  Under(D)'
<1>r. request' = request
  BY RequestKept
<1>t. TypeOK /\ request.size \in Int /\ request.at \in Int
  BY DEF OnTree, TypeOK
<1>m. \A p : /\ On(p)' <=> At(p, fn', Seat) /\ At(p, sn', request.size - 1)
             /\ Over(D, p, request.size)' = Subtree(D)[Cover(p, fn', request.size)]
             /\ Over(D, p, request.at)' = Subtree(D)[Cover(p, fn', request.at)]
             /\ Seat' = Seat /\ (AtItsIndex(D)' <=> AtItsIndex(D))
  BY <1>r, Moved
<1>a. ASSUME pc' = "done" PROVE Under(D)'
  BY <1>a DEF Under
<1>b. ASSUME pc' \in {"trim", "walk", "climb"},
             pc' = "climb" => fn' = sn' /\ fn' # 0,
             pc' = "trim" => request.op = "consistency",
             Seat \in Nat, Seat + 1 <= request.size,
             request.op = "consistency" => request.at < request.size,
             NEW p, At(p, fn', Seat), At(p, sn', request.size - 1),
             request.op = "inclusion" => ExactInclusion(D, p)',
             request.op = "consistency" => ExactConsistency(D, p)'
      PROVE  Under(D)'
  BY <1>r, <1>m, <1>b DEF Under
<1>1. CASE BeginInclusion /\ pc' = "walk"
  <2>1. /\ request.op = "inclusion" /\ Seat = request.at /\ Seat \in Nat /\ Seat + 1 <= request.size
        /\ fn' = Seat /\ sn' = request.size - 1 /\ low' = request.from
    BY <1>1, <1>t DEF BeginInclusion, Return, InRange, Seat, Under
  <2>2. At(1, fn', Seat) /\ At(1, sn', request.size - 1)
    BY <2>1, <1>t, AtLeaf
  <2>3. ASSUME low' = Over(D, 1, request.size)' PROVE AtItsIndex(D)
    <3>1. Cover(1, Seat, request.size) = <<Seat, Seat + 1>>
      BY <2>1, AtLeaf
    <3>2. <<Seat, Seat + 1>> \in Cuts /\ IsLeaf(<<Seat, Seat + 1>>)
      BY <2>1, SizeAssumption DEF Cuts, IsLeaf
    <3>3. Subtree(D)[<<Seat, Seat + 1>>] = LeafHash(D[Seat])
      BY <3>2, SubtreeLeaf
    <3>4. QED BY <1>m, <2>1, <2>3, <3>1, <3>3 DEF AtItsIndex
  <2>4. ExactInclusion(D, 1)'
    BY <1>1, <1>m, <2>3 DEF ExactInclusion
  <2>5. QED BY <1>1, <1>b, <2>1, <2>2, <2>4
<1>2. CASE BeginConsistency /\ pc' = "trim"
  <2>1. /\ request.op = "consistency" /\ Seat = request.at - 1 /\ Seat \in Nat
        /\ Seat + 1 <= request.size /\ request.at < request.size
        /\ fn' = Seat /\ sn' = request.size - 1
    BY <1>2, <1>t DEF BeginConsistency, Return, Seat
  <2>2. At(1, fn', Seat) /\ At(1, sn', request.size - 1)
    BY <2>1, <1>t, AtLeaf
  <2>3. (fn' + 1) * 1 = request.at
    BY <2>1, <1>t
  <2>4. ExactConsistency(D, 1)'
    BY <1>2, <1>r, <2>3 DEF ExactConsistency
  <2>5. QED BY <1>2, <1>b, <2>1, <2>2, <2>4
<1>3. ASSUME pc \in {"trim", "walk", "climb"}
      PROVE  /\ Seat \in Nat /\ Seat + 1 <= request.size /\ Seat < request.size
             /\ request.op = "consistency" => request.at < request.size
             /\ pc = "trim" => request.op = "consistency"
             /\ pc = "climb" => fn = sn /\ fn # 0
             /\ fn \in Nat /\ sn \in Nat /\ fn <= sn
             /\ \E p : /\ On(p)
                       /\ request.op = "inclusion" => ExactInclusion(D, p)
                       /\ request.op = "consistency" => ExactConsistency(D, p)
  BY <1>3, <1>t DEF Under, TypeOK
<1>4. CASE Trim
  <2>1. PICK p : On(p) /\ (fn + 1) * p = request.at
    BY <1>3, <1>4 DEF Trim, ExactConsistency
  <2>s. request.op = "consistency" /\ Seat \in Nat /\ Seat < request.size /\ Seat = request.at - 1
    BY <1>3, <1>4 DEF Trim, Seat
  <2>2. CASE fn % 2 = 1 /\ Halve /\ pc' = "trim"
    <3>1. At(2 * p, fn', Seat) /\ At(2 * p, sn', request.size - 1)
      BY <1>t, <2>1, <2>2, <2>s, UpOne
    <3>2. (fn' + 1) * (2 * p) = request.at
      <4>1. fn = 2 * fn' + 1 /\ fn' \in Nat /\ p \in Nat
        BY <1>t, <2>1, <2>2, <2>s, AtHalve DEF On, Halve, TypeOK, At, Levels
      <4>2. (fn + 1) * p = (fn' + 1) * (2 * p)
        BY <4>1
      <4>3. QED BY <2>1, <4>2
    <3>3. ExactConsistency(D, 2 * p)'
      BY <1>r, <2>2, <3>2 DEF ExactConsistency
    <3>4. QED BY <1>b, <1>3, <1>4, <2>2, <2>s, <3>1, <3>3 DEF Trim
  <2>3. CASE pc' = "walk" /\ high' = low' /\ UNCHANGED <<fn, sn>>
    <3>1. Cover(p, fn, request.size) = Cover(p, fn, request.at)
      BY <1>t, <1>3, <1>4, <2>1, <2>s DEF Cover, Trim
    <3>2. ExactConsistency(D, p)'
      BY <1>m, <2>3, <3>1 DEF ExactConsistency
    <3>3. QED BY <1>b, <1>3, <1>4, <2>1, <2>3, <2>s, <3>2 DEF Trim, On
  <2>4. QED BY <1>4, <2>2, <2>3 DEF Trim
<1>5. CASE Walk /\ pc' # "done"
  <2>p. pc = "walk"
    BY <1>5 DEF Walk
  <2>1. PICK p : /\ On(p)
                 /\ request.op = "inclusion" => ExactInclusion(D, p)
                 /\ request.op = "consistency" => ExactConsistency(D, p)
    BY <1>3, <2>p
  <2>2. PICK sibling : Combine(sibling)
    BY <1>5 DEF Walk, Return
  <2>s. Seat \in Nat /\ Seat + 1 <= request.size /\ Seat < request.size
    BY <1>3, <2>p
  <2>3. CASE RightEdge
    <3>1. Hashed(D, p, low', high')
      BY <2>p, <2>1, <2>2, <2>3, PairUp
    <3>2. CASE fn % 2 = 0 /\ pc' = "climb" /\ UNCHANGED <<fn, sn>>
      <4>1. fn = sn /\ fn # 0
        BY <1>5, <1>3, <2>p, <2>3, <3>2 DEF RightEdge, Walk, Return
      <4>2. /\ request.op = "inclusion" => ExactInclusion(D, p)'
            /\ request.op = "consistency" => ExactConsistency(D, p)'
        BY <1>m, <3>1, <3>2 DEF Hashed, ExactInclusion, ExactConsistency, Over
      <4>3. QED BY <1>b, <1>3, <2>p, <2>1, <2>s, <3>2, <4>1, <4>2 DEF On
    <3>3. CASE fn % 2 = 1 /\ pc' = "walk" /\ Halve
      <4>1. At(2 * p, fn', Seat) /\ At(2 * p, sn', request.size - 1)
        BY <1>t, <2>1, <3>3, <2>s, UpOne
      <4>2. /\ request.op = "inclusion" =>
                 (low' = Over(D, 2 * p, request.size)' => AtItsIndex(D))
            /\ request.op = "consistency" =>
                 (high' = Over(D, 2 * p, request.size)' => low' = Over(D, 2 * p, request.at)')
        BY <1>r, <1>t, <1>3, <2>p, <2>1, <2>s, <3>1, <3>3, WalkOn
      <4>3. /\ request.op = "inclusion" => ExactInclusion(D, 2 * p)'
            /\ request.op = "consistency" => ExactConsistency(D, 2 * p)'
        BY <1>m, <1>r, <3>3, <4>2 DEF ExactInclusion, ExactConsistency
      <4>4. QED BY <1>b, <1>3, <2>p, <2>s, <3>3, <4>1, <4>3
    <3>4. QED BY <1>5, <1>3, <2>p, <2>3, <3>2, <3>3 DEF Walk, Return
  <2>4. CASE ~RightEdge
    <3>1. fn % 2 = 0 /\ fn < sn /\ pc' = "walk" /\ Halve
      BY <1>5, <1>3, <2>p, <2>4 DEF RightEdge, Walk, Return
    <3>2. At(2 * p, fn', Seat) /\ At(2 * p, sn', request.size - 1)
      BY <1>t, <2>1, <3>1, <2>s, UpOne
    <3>3. Over(D, 2 * p, request.size)'
            = NodeHash(Over(D, p, request.size), Subtree(D)[Cover(p, fn + 1, request.size)])
      BY <1>m, <1>t, <2>1, <2>s, <3>1, OverEven DEF Halve
    <3>4. ASSUME request.op = "inclusion", low' = Over(D, 2 * p, request.size)' PROVE AtItsIndex(D)
      <4>1. NodeHash(low, sibling)
              = NodeHash(Over(D, p, request.size), Subtree(D)[Cover(p, fn + 1, request.size)])
        BY <2>2, <2>4, <3>3, <3>4 DEF Combine
      <4>2. low = Over(D, p, request.size)
        BY <4>1 DEF CollisionFree
      <4>3. QED BY <2>p, <2>1, <3>4, <4>2 DEF ExactInclusion
    <3>5. ASSUME request.op = "consistency", high' = Over(D, 2 * p, request.size)'
          PROVE  low' = Over(D, 2 * p, request.at)'
      <4>1. NodeHash(high, sibling)
              = NodeHash(Over(D, p, request.size), Subtree(D)[Cover(p, fn + 1, request.size)])
        BY <2>2, <2>4, <3>3, <3>5 DEF Combine
      <4>2. high = Over(D, p, request.size)
        BY <4>1 DEF CollisionFree
      <4>3. low = Over(D, p, request.at) /\ low' = low
        BY <2>p, <2>1, <2>2, <2>4, <3>5, <4>2 DEF ExactConsistency, Combine
      <4>4. Cover(2 * p, fn \div 2, request.at) = Cover(p, fn, request.at)
        <5>1. request.at \in 1..MaxSize /\ At(p, fn, request.at - 1)
          BY <1>3, <1>t, <2>p, <2>1, <2>s, <3>5, SizeAssumption DEF Seat, On
        <5>2. QED BY <3>1, <5>1, AboveLast
      <4>5. QED BY <1>m, <3>1, <4>3, <4>4 DEF Over, Halve
    <3>6. /\ request.op = "inclusion" => ExactInclusion(D, 2 * p)'
          /\ request.op = "consistency" => ExactConsistency(D, 2 * p)'
      BY <1>m, <1>r, <3>1, <3>4, <3>5 DEF ExactInclusion, ExactConsistency
    <3>7. QED BY <1>b, <1>3, <2>p, <2>s, <3>1, <3>2, <3>6
  <2>5. QED BY <2>3, <2>4
<1>6. CASE Climb
  <2>p. pc = "climb" /\ Halve /\ low' = low /\ high' = high
    BY <1>6 DEF Climb
  <2>1. PICK p : /\ On(p)
                 /\ request.op = "inclusion" => ExactInclusion(D, p)
                 /\ request.op = "consistency" => ExactConsistency(D, p)
    BY <1>3, <2>p
  <2>s. Seat \in Nat /\ Seat + 1 <= request.size /\ Seat < request.size /\ fn = sn /\ fn # 0
    BY <1>3, <2>p
  <2>2. At(2 * p, fn', Seat) /\ At(2 * p, sn', request.size - 1)
    BY <1>t, <2>p, <2>1, <2>s, UpOne
  <2>3. Hashed(D, p, low', high')
    BY <2>p, <2>1 DEF Hashed, ExactInclusion, ExactConsistency
  <2>4. CASE fn % 2 = 1
    <3>1. pc' = "walk"
      BY <1>6, <2>4 DEF Climb, Climbs
    <3>2. /\ request.op = "inclusion" =>
               (low' = Over(D, 2 * p, request.size)' => AtItsIndex(D))
          /\ request.op = "consistency" =>
               (high' = Over(D, 2 * p, request.size)' => low' = Over(D, 2 * p, request.at)')
      BY <1>r, <1>t, <1>3, <2>p, <2>1, <2>s, <2>3, <2>4, WalkOn
    <3>3. /\ request.op = "inclusion" => ExactInclusion(D, 2 * p)'
          /\ request.op = "consistency" => ExactConsistency(D, 2 * p)'
      BY <1>m, <1>r, <3>1, <3>2 DEF ExactInclusion, ExactConsistency
    <3>4. QED BY <1>b, <1>3, <2>p, <2>s, <2>2, <3>1, <3>3
  <2>5. CASE fn % 2 = 0
    <3>1. pc' = "climb" /\ fn' = sn' /\ fn' # 0
      <4>1. pc' = "climb"
        BY <1>6, <1>t, <2>s, <2>5 DEF Climb, Climbs, TypeOK
      <4>2. fn' = sn'
        BY <2>p, <2>s DEF Halve
      <4>3. fn' # 0
        BY <1>t, <2>p, <2>s, <2>5 DEF Halve, TypeOK
      <4>4. QED BY <4>1, <4>2, <4>3
    <3>2. Over(D, 2 * p, request.size)' = Over(D, p, request.size)
      <4>1. At(p, fn, request.size - 1)
        BY <2>1, <2>s DEF On
      <4>2. Cover(2 * p, fn \div 2, request.size) = Cover(p, fn, request.size)
        BY <2>5, <4>1, AboveLast
      <4>3. QED BY <1>m, <2>p, <4>2 DEF Over, Halve
    <3>3. request.op = "consistency" => Over(D, 2 * p, request.at)' = Over(D, p, request.at)
      <4> SUFFICES ASSUME request.op = "consistency"
                   PROVE  Over(D, 2 * p, request.at)' = Over(D, p, request.at)
        OBVIOUS
      <4>1. request.at \in 1..MaxSize /\ At(p, fn, request.at - 1)
        BY <1>3, <1>t, <2>p, <2>1, <2>s, SizeAssumption DEF Seat, On
      <4>2. Cover(2 * p, fn \div 2, request.at) = Cover(p, fn, request.at)
        BY <2>5, <4>1, AboveLast
      <4>3. QED BY <1>m, <2>p, <4>2 DEF Over, Halve
    <3>4. /\ request.op = "inclusion" => ExactInclusion(D, 2 * p)'
          /\ request.op = "consistency" => ExactConsistency(D, 2 * p)'
      BY <1>m, <1>r, <2>3, <3>1, <3>2, <3>3 DEF Hashed, ExactInclusion, ExactConsistency
    <3>5. QED BY <1>b, <1>3, <2>p, <2>s, <2>2, <3>1, <3>4
  <2>6. fn % 2 = 0 \/ fn % 2 = 1
    BY <1>t DEF TypeOK
  <2>7. QED BY <2>4, <2>5, <2>6
<1>7. CASE Done \/ UNCHANGED vars
  <2>1. UNCHANGED vars
    BY <1>7 DEF Done
  <2>2. \A p : /\ On(p)' <=> On(p)
               /\ ExactInclusion(D, p)' <=> ExactInclusion(D, p)
               /\ ExactConsistency(D, p)' <=> ExactConsistency(D, p)
    BY <1>m, <2>1 DEF vars, On, ExactInclusion, ExactConsistency, Over
  <2>3. QED BY <1>m, <2>1, <2>2 DEF vars, Under
<1>8. QED
  <2>1. Finish \/ (Walk /\ pc' = "done") \/ (BeginInclusion /\ pc' # "walk")
          \/ (BeginConsistency /\ pc' # "trim") => pc' = "done"
    BY DEF Finish, BeginInclusion, BeginConsistency, Return
  <2>2. QED BY <1>1, <1>2, <1>4, <1>5, <1>6, <1>7, <1>a, <2>1 DEF Next, Step

LEMMA ExactReturn ==
  ASSUME OnTree, NEW D, request.size \in 1..MaxSize, request.root = Root(D, request.size),
         Under(D), ExactWhenFull(D), [Next]_vars
  PROVE  ExactWhenFull(D)'
<1>r. request' = request
  BY RequestKept
<1>t. TypeOK /\ request.size \in Int /\ request.at \in Int
  BY DEF OnTree, TypeOK
<1>o. pc # "done" => verdict = "open"
  BY <1>t DEF TypeOK
<1>m. /\ AtItsIndex(D)' <=> AtItsIndex(D)
      /\ Root(D, request.at)' = Root(D, request.at)
  BY <1>r, Moved DEF AtItsIndex, Root
<1>a. ASSUME pc' # "done" \/ verdict' = "rejected" PROVE ExactWhenFull(D)'
  BY <1>a DEF ExactWhenFull, Accepted
<1>1. CASE BeginInclusion
  BY <1>1, <1>a DEF BeginInclusion, Return
<1>2. CASE BeginConsistency
  <2>1. CASE request.at = 0 \/ pc' = "trim" \/ verdict' = "rejected"
    BY <1>2, <1>r, <1>a, <2>1 DEF BeginConsistency, ExactWhenFull, Accepted
  <2>2. CASE request.at = request.size /\ request.from = request.root
    BY <1>2, <1>r, <1>m, <2>2 DEF BeginConsistency, ExactWhenFull, Accepted
  <2>3. QED BY <1>2, <2>1, <2>2 DEF BeginConsistency, Return
<1>3. CASE Trim
  BY <1>3, <1>a, <1>o, <1>t DEF Trim, TypeOK
<1>4. CASE Walk
  <2>1. pc' # "done" \/ verdict' = "rejected"
    BY <1>4 DEF Walk, Return
  <2>2. QED BY <1>a, <2>1
<1>5. CASE Climb
  BY <1>5, <1>a DEF Climb
<1>6. CASE Finish
  <2> SUFFICES ASSUME sn = 0, Matches
               PROVE  /\ request.op = "inclusion" => AtItsIndex(D)
                      /\ request.op = "consistency" /\ request.at > 0
                           => request.at <= request.size /\ request.from = Root(D, request.at)
    BY <1>6, <1>r, <1>m, <1>a DEF Finish, Return, ExactWhenFull, Accepted
  <2>1. pc = "walk" /\ fn = 0
    BY <1>6, <1>t DEF Finish, TypeOK
  <2>2. PICK p : /\ On(p)
                 /\ request.op = "inclusion" => ExactInclusion(D, p)
                 /\ request.op = "consistency" => ExactConsistency(D, p)
    BY <2>1 DEF Under
  <2>3. Over(D, p, request.size) = Root(D, request.size)
    <3>1. Cover(p, 0, request.size) = <<0, request.size>>
      BY <2>2, AtRoot DEF On
    <3>2. QED BY <2>1, <3>1 DEF Over, Root
  <2>4. ASSUME request.op = "inclusion" PROVE AtItsIndex(D)
    BY <2>1, <2>2, <2>3, <2>4 DEF ExactInclusion, Matches
  <2>5. ASSUME request.op = "consistency", request.at > 0
        PROVE  request.at <= request.size /\ request.from = Root(D, request.at)
    <3>1. request.at \in 1..MaxSize /\ At(p, 0, request.at - 1)
      BY <1>t, <2>1, <2>2, <2>5, SizeAssumption DEF Under, On, Seat
    <3>2. Cover(p, 0, request.at) = <<0, request.at>>
      BY <3>1, AtRoot
    <3>3. Over(D, p, request.at) = Root(D, request.at)
      BY <2>1, <3>2 DEF Over, Root
    <3>4. low = request.from /\ high = request.root
      BY <2>5 DEF Matches
    <3>5. QED BY <1>t, <2>1, <2>2, <2>3, <2>5, <3>3, <3>4 DEF ExactConsistency, Under
  <2>6. QED BY <2>4, <2>5
<1>7. CASE Done \/ UNCHANGED vars
  <2>1. UNCHANGED vars
    BY <1>7 DEF Done
  <2>2. QED BY <1>m, <2>1 DEF vars, ExactWhenFull, Accepted
<1>8. QED BY <1>1, <1>2, <1>3, <1>4, <1>5, <1>6, <1>7 DEF Next, Step

LEMMA ExactStep == CollisionFree /\ OnTree /\ Exact /\ [Next]_vars => Exact'
<1> SUFFICES ASSUME CollisionFree, OnTree, Exact, [Next]_vars, NEW D \in Histories,
                    request.size \in 1..MaxSize, request.root = Root(D, request.size)
             PROVE  Under(D)' /\ ExactWhenFull(D)'
  BY RequestKept DEF Exact, Root
<1>1. QED BY UnderStep, ExactReturn DEF Exact

(***************************************************************************)
(* A path long enough to reach the level of the root proves exactly what   *)
(* was stated: the leaf at leaf_index, the root of the first from_size     *)
(* leaves (merkle.py:64-69, 130-137).                                      *)
(***************************************************************************)
THEOREM FullPathsExact ==
  ASSUME CollisionFree
  PROVE  Spec => []FullProofIsExact
<1>1. OnTree /\ Exact => FullProofIsExact
  <2> SUFFICES ASSUME OnTree, Exact, sn = 0, NEW D \in Histories, StatesTree(D)
               PROVE  /\ Accepted("inclusion") => AtItsIndex(D)
                      /\ Accepted("consistency") /\ request.at > 0
                           => request.from = Roots[D][request.at]
    BY DEF FullProofIsExact
  <2>1. request.size \in 1..MaxSize /\ request.root = Root(D, request.size)
    BY DEF StatesTree, Roots
  <2>2. ExactWhenFull(D)
    BY <2>1 DEF Exact
  <2>3. verdict = "accepted" => pc = "done"
    BY DEF OnTree, TypeOK
  <2>4. Accepted("consistency") /\ request.at > 0 => request.at \in 1..MaxSize
    BY <2>1, <2>2, <2>3, SizeAssumption DEF ExactWhenFull, Accepted, OnTree, TypeOK
  <2>5. QED BY <2>2, <2>3, <2>4 DEF ExactWhenFull, Accepted, Roots
<1>2. Init => OnTree /\ Exact
  BY OnTreeInit, ExactInit
<1>3. OnTree /\ Exact /\ [Next]_vars => (OnTree /\ Exact)'
  BY OnTreeStep, ExactStep
<1>4. QED BY <1>1, <1>2, <1>3, PTL DEF Spec

-----------------------------------------------------------------------------
(* HonestInclusionAccepted, HonestConsistencyAccepted.  The digests of the *)
(* walk are those of the subtrees above the node it is at, and what it has *)
(* used of the path is what the path has for this node.                    *)
HonestRequest(D) ==
  /\ request.size \in 1..MaxSize /\ request.root = Root(D, request.size)
  /\ request.op = "inclusion" =>
       /\ InRange /\ AtItsIndex(D)
       /\ request.path = AuditPath(D, request.at, request.size)
  /\ request.op = "consistency" =>
       /\ 0 < request.at /\ request.at < request.size
       /\ request.from = Root(D, request.at)
       /\ request.path = ConsistencyProof(D, request.at, request.size)

OldSize == IF request.op = "inclusion" THEN request.size ELSE request.at

Route(D) == IF request.op = "inclusion" THEN Path(D, request.at) ELSE Subproof(D, request.at)

Here(D, p) == Route(D)[Cover(p, fn, request.size)]

OnRoute(p, i) == request.op = "consistency" => <<p, i>> \in Trimmed(request.at)

Used(D, k) ==
  /\ rest \in Seq(Digests(D))
  /\ Len(request.path) = k + Len(rest)
  /\ \A j \in 1..Len(rest) : rest[j] = request.path[k + j]

Computed(D, p) ==
  /\ pc = "trim" => (fn + 1) * p = request.at
  /\ pc = "walk" =>
       /\ OnRoute(p, fn) /\ Used(D, Len(Here(D, p)))
       /\ low = Over(D, p, OldSize)
       /\ request.op = "consistency" => high = Over(D, p, request.size)
  /\ pc = "climb" =>
       LET k == Len(Here(D, p)) + 1
       IN  /\ OnRoute(p, fn) /\ Used(D, k)
           /\ low = NodeHash(request.path[k], Over(D, p, OldSize))
           /\ request.op = "consistency"
                => high = NodeHash(request.path[k], Over(D, p, request.size))

Accepts(D) ==
  /\ pc = "begin" => low = request.from
  /\ pc = "climb" => fn = sn /\ fn # 0
  /\ pc = "trim" => request.op = "consistency"
  /\ pc \in {"trim", "walk", "climb"} => \E p : On(p) /\ Computed(D, p)
  /\ verdict # "rejected"

Honest == \A D \in Histories : HonestRequest(D) => Accepts(D)

LEMMA HonestFacts ==
  ASSUME TypeOK, NEW D, HonestRequest(D)
  PROVE  /\ Seat \in Nat /\ Seat < request.size /\ request.size \in 1..MaxSize
         /\ OldSize \in 1..MaxSize /\ OldSize <= request.size /\ Seat < OldSize
         /\ request.op = "inclusion" => OldSize = request.size /\ Seat = request.at
         /\ request.op = "consistency" => OldSize = request.at /\ Seat = request.at - 1
         /\ Root(D, request.size) = request.root
         /\ request.op = "consistency" => Root(D, OldSize) = request.from
<1>1. request.op \in {"inclusion", "consistency"} /\ request.at \in Int /\ request.size \in 1..MaxSize
  BY DEF TypeOK, HonestRequest
<1>2. CASE request.op = "inclusion"
  <2>1. 0 <= request.at /\ request.at < request.size
    BY <1>2 DEF HonestRequest, InRange
  <2>2. QED BY <1>1, <1>2, <2>1, SizeAssumption DEF HonestRequest, Seat, OldSize
<1>3. CASE request.op = "consistency"
  BY <1>1, <1>3, SizeAssumption DEF HonestRequest, Seat, OldSize
<1>4. QED BY <1>1, <1>2, <1>3

LEMMA RouteSeq ==
  ASSUME TypeOK, NEW D, HonestRequest(D)
  PROVE  /\ \A c \in Cuts : Route(D)[c] \in Seq(Digests(D))
         /\ request.path = Route(D)[<<0, request.size>>]
         /\ request.path \in Seq(Digests(D))
<1>1. \A c \in Cuts : Route(D)[c] \in Seq(Digests(D))
  <2>1. CASE request.op = "inclusion"
    BY <2>1, PathSeq DEF Route
  <2>2. CASE request.op # "inclusion"
    BY <2>2, SubproofSeq DEF Route
  <2>3. QED BY <2>1, <2>2
<1>2. request.path = Route(D)[<<0, request.size>>]
  BY DEF TypeOK, HonestRequest, Route, AuditPath, ConsistencyProof
<1>3. <<0, request.size>> \in Cuts
  BY HonestFacts, SizeAssumption DEF Cuts
<1>4. QED BY <1>1, <1>2, <1>3

(* On the way to the root the path goes on as the walk does.               *)
LEMMA RouteOn ==
  ASSUME TypeOK, NEW D, HonestRequest(D), NEW p, NEW i, NEW s,
         OnWay(p, i, s, Seat, request.size), OnRoute(p, i)
  PROVE  /\ Grows(D, Route(D), p, i, s, request.size)
         /\ OnRoute(2 * p, i \div 2)
         /\ Begins(Route(D)[Cover(p, i, request.size)], request.path)
         /\ s # 0 => Len(Route(D)[Cover(p, i, request.size)]) < Len(request.path)
<1>f. /\ Seat \in Nat /\ request.size \in 1..MaxSize /\ Seat < request.size
      /\ request.path = Route(D)[<<0, request.size>>]
      /\ \A c \in Cuts : Route(D)[c] \in Seq(Digests(D))
  BY HonestFacts, RouteSeq
<1> DEFINE n == request.size
           N == IF request.op = "inclusion" THEN {<<q, j>> : q \in Nat, j \in Nat} ELSE Trimmed(request.at)
<1>1. ASSUME NEW q, NEW j, NEW t, <<q, j>> \in N, OnWay(q, j, t, Seat, n)
      PROVE  Grows(D, Route(D), q, j, t, n) /\ <<2 * q, j \div 2>> \in N
  <2>1. CASE request.op = "inclusion"
    <3>1. Seat = request.at
      BY <2>1 DEF Seat
    <3>2. Grows(D, Path(D, Seat), q, j, t, n)
      BY <1>f, <1>1, PathGrows
    <3>3. q \in Nat /\ j \in Nat
      BY <1>1 DEF OnWay, At, Levels
    <3>4. 2 * q \in Nat /\ j \div 2 \in Nat
      BY <3>3
    <3>5. QED BY <2>1, <3>1, <3>2, <3>4 DEF Route
  <2>2. CASE request.op # "inclusion"
    <3>1. request.at \in Nat \ {0} /\ request.at < n /\ Seat = request.at - 1
      BY <2>2, HonestFacts DEF TypeOK, HonestRequest
    <3>2. <<q, j>> \in Trimmed(request.at) /\ OnWay(q, j, t, request.at - 1, n)
      BY <1>1, <2>2, <3>1
    <3>3. /\ Grows(D, Subproof(D, request.at), q, j, t, n)
          /\ <<2 * q, j \div 2>> \in Trimmed(request.at)
      BY <1>f, <3>1, <3>2, SubproofGrows
    <3>4. QED BY <2>2, <3>3 DEF Route
  <2>3. QED BY <2>1, <2>2
<1>2. <<p, i>> \in N
  <2>1. p \in Nat /\ i \in Nat
    BY DEF OnWay, At, Levels
  <2>2. QED BY <2>1 DEF OnRoute, TypeOK
<1> HIDE DEF N
<1>3. Grows(D, Route(D), p, i, s, n) /\ <<2 * p, i \div 2>> \in N
  BY <1>1, <1>2
<1>4. OnRoute(2 * p, i \div 2)
  BY <1>3 DEF OnRoute, N
<1>5. /\ Begins(Route(D)[Cover(p, i, n)], Route(D)[<<0, n>>])
      /\ s # 0 => Len(Route(D)[Cover(p, i, n)]) < Len(Route(D)[<<0, n>>])
  <2>1. Built(D, Route(D), N, Seat, n) /\ Lists(Route(D), Digests(D))
    BY <1>f, <1>1 DEF Built, Lists
  <2>2. QED BY <1>f, <1>2, <2>1, Prefixes
<1>6. QED BY <1>f, <1>3, <1>4, <1>5

LEMMA HonestMoved ==
  ASSUME request' = request, NEW D, NEW p
  PROVE  /\ HonestRequest(D)' <=> HonestRequest(D)
         /\ Seat' = Seat /\ OldSize' = OldSize
         /\ On(p)' <=> At(p, fn', Seat) /\ At(p, sn', request.size - 1)
         /\ OnRoute(p, fn)' <=> OnRoute(p, fn')
         /\ Over(D, p, request.size)' = Subtree(D)[Cover(p, fn', request.size)]
         /\ Over(D, p, OldSize)' = Subtree(D)[Cover(p, fn', OldSize)]
         /\ Here(D, p)' = Route(D)[Cover(p, fn', request.size)]
<1>1. HonestRequest(D)' <=> HonestRequest(D)
  BY DEF HonestRequest, Root, AuditPath, ConsistencyProof, InRange, AtItsIndex
<1>2. Seat' = Seat /\ OldSize' = OldSize
  BY DEF Seat, OldSize
<1>3. Route(D)' = Route(D)
  BY DEF Route
<1>4. Here(D, p)' = Route(D)[Cover(p, fn', request.size)]
  BY <1>3 DEF Here
<1>5. Over(D, p, OldSize)' = Subtree(D)[Cover(p, fn', OldSize)]
  BY <1>2 DEF Over, Cover
<1>6. OnRoute(p, fn)' <=> OnRoute(p, fn')
  BY DEF OnRoute, Trimmed
<1>7. QED BY <1>1, <1>2, <1>4, <1>5, <1>6, Moved

(* Taking the first of what is left of a path.                             *)
LEMMA Taken ==
  ASSUME NEW D, NEW k \in Nat, Used(D, k), rest # <<>>, rest' = Tail(rest), request' = request
  PROVE  Head(rest) = request.path[k + 1] /\ Used(D, k + 1)'
<1>1. rest \in Seq(Digests(D)) /\ Len(rest) \in Nat /\ Len(rest) # 0
  BY DEF Used
<1>2. Head(rest) = rest[1] /\ rest[1] = request.path[k + 1]
  BY <1>1 DEF Used
<1>3. /\ rest' \in Seq(Digests(D)) /\ Len(rest') = Len(rest) - 1
      /\ \A j \in 1..Len(rest') : rest'[j] = rest[j + 1]
  BY <1>1
<1>4. Len(request.path) = (k + 1) + Len(rest')
  BY <1>1, <1>3 DEF Used
<1>5. \A j \in 1..Len(rest') : rest'[j] = request.path[(k + 1) + j]
  <2> TAKE j \in 1..Len(rest')
  <2>1. j + 1 \in 1..Len(rest) /\ k + (j + 1) = (k + 1) + j
    BY <1>1, <1>3
  <2>2. QED BY <1>3, <2>1 DEF Used
<1>6. Used(D, k + 1)'
  BY <1>3, <1>4, <1>5 DEF Used, Digests
<1>7. QED BY <1>2, <1>6

(* What the path has next for a node with a sibling is that sibling.       *)
LEMMA NextIs ==
  ASSUME NEW V, NEW here \in Seq(V), NEW up \in Seq(V), NEW path \in Seq(V), NEW x,
         up = Append(here, x), Begins(up, path)
  PROVE  Len(here) \in Nat /\ Len(up) = Len(here) + 1 /\ path[Len(here) + 1] = x
<1>1. Len(here) \in Nat /\ Len(up) = Len(here) + 1 /\ up[Len(here) + 1] = x
  OBVIOUS
<1>2. Len(here) + 1 \in 1..Len(up)
  BY <1>1
<1>3. QED BY <1>1, <1>2 DEF Begins

(* What the path has above node fn, and what it has next.                  *)
LEMMA Onward ==
  ASSUME TypeOK, NEW D, HonestRequest(D), NEW p, On(p), OnRoute(p, fn)
  PROVE  LET i == fn \div 2
             here == Here(D, p)
             up == Route(D)[Cover(2 * p, i, request.size)]
             next == request.path[Len(here) + 1]
         IN  /\ Len(here) \in Nat /\ OnRoute(2 * p, i)
             /\ sn # 0 => Len(here) < Len(request.path)
             /\ fn % 2 = 1 => /\ Len(up) = Len(here) + 1
                              /\ next = Subtree(D)[Cover(p, fn - 1, request.size)]
             /\ fn % 2 = 0 /\ fn < sn => /\ Len(up) = Len(here) + 1
                                         /\ next = Subtree(D)[Cover(p, fn + 1, request.size)]
             /\ fn % 2 = 0 /\ fn = sn => up = here
<1> DEFINE n == request.size
           i == fn \div 2
           here == Route(D)[Cover(p, fn, n)]
           up == Route(D)[Cover(2 * p, i, n)]
<1>1. /\ Seat \in Nat /\ Seat < n /\ n \in 1..MaxSize /\ n - 1 \in Nat
      /\ fn \in Nat /\ sn \in Nat /\ fn <= sn
  BY HonestFacts DEF TypeOK
<1>2. OnWay(p, fn, sn, Seat, n)
  BY <1>1 DEF OnWay, On
<1>3. OnWay(2 * p, i, sn \div 2, Seat, n)
  <2>1. At(2 * p, i, Seat)
    BY <1>1, <1>2, AtHalve DEF OnWay
  <2>2. At(2 * p, sn \div 2, n - 1)
    BY <1>1, <1>2, AtHalve DEF OnWay
  <2>3. i <= sn \div 2
    BY <1>1
  <2>4. QED BY <2>1, <2>2, <2>3 DEF OnWay
<1>4. /\ Grows(D, Route(D), p, fn, sn, n) /\ OnRoute(2 * p, i)
      /\ sn # 0 => Len(here) < Len(request.path)
  BY <1>2, RouteOn
<1>5. Begins(up, request.path)
  BY <1>3, <1>4, RouteOn
<1>6. here \in Seq(Digests(D)) /\ up \in Seq(Digests(D)) /\ request.path \in Seq(Digests(D))
  <2>1. Cover(p, fn, n) \in Cuts
    BY <1>1, <1>2, AtCover DEF OnWay
  <2>2. Cover(2 * p, i, n) \in Cuts
    BY <1>1, <1>3, AtCover DEF OnWay
  <2>3. QED BY <2>1, <2>2, RouteSeq
<1>7. ASSUME NEW x, up = Append(here, x)
      PROVE  Len(up) = Len(here) + 1 /\ request.path[Len(here) + 1] = x
  <2> DEFINE path == request.path  V == Digests(D)
  <2>1. here \in Seq(V) /\ up \in Seq(V) /\ path \in Seq(V) /\ up = Append(here, x) /\ Begins(up, path)
    BY <1>5, <1>6, <1>7
  <2> HIDE DEF up, here, path, V
  <2>2. Len(up) = Len(here) + 1 /\ path[Len(here) + 1] = x
    BY <2>1, NextIs
  <2>3. QED BY <2>2 DEF path
<1>8. Len(here) \in Nat
  BY <1>6
<1>9. /\ fn % 2 = 1 => up = Append(here, Subtree(D)[Cover(p, fn - 1, n)])
      /\ fn % 2 = 0 /\ fn < sn => up = Append(here, Subtree(D)[Cover(p, fn + 1, n)])
      /\ fn % 2 = 0 /\ fn = sn => up = here
  BY <1>4 DEF Grows
<1>10. here = Here(D, p)
  BY DEF Here
<1> HIDE DEF here, up
<1>11. /\ fn % 2 = 1 => /\ Len(up) = Len(here) + 1
                        /\ request.path[Len(here) + 1] = Subtree(D)[Cover(p, fn - 1, n)]
       /\ fn % 2 = 0 /\ fn < sn => /\ Len(up) = Len(here) + 1
                                   /\ request.path[Len(here) + 1] = Subtree(D)[Cover(p, fn + 1, n)]
  BY <1>7, <1>9
<1>12. QED BY <1>4, <1>8, <1>9, <1>10, <1>11 DEF up

LEMMA HonestWalksOn ==
  ASSUME TypeOK, NEW D, HonestRequest(D), NEW p, On(p), OnRoute(p, fn),
         NEW k, k = Len(Here(D, p)) + 1, Used(D, k)',
         fn % 2 = 1, Halve, request' = request,
         low' = NodeHash(request.path[k], Over(D, p, OldSize)),
         request.op = "consistency" => high' = NodeHash(request.path[k], Over(D, p, request.size))
  PROVE  /\ OnRoute(2 * p, fn') /\ Used(D, Len(Here(D, 2 * p)))'
         /\ low' = Over(D, 2 * p, OldSize)'
         /\ request.op = "consistency" => high' = Over(D, 2 * p, request.size)'
<1> DEFINE i == fn \div 2
           S(c) == Subtree(D)[c]
<1>f. /\ Seat \in Nat /\ Seat < request.size /\ request.size \in 1..MaxSize
      /\ OldSize \in 1..MaxSize /\ OldSize <= request.size /\ Seat < OldSize
  BY HonestFacts
<1>m. /\ Over(D, 2 * p, request.size)' = S(Cover(2 * p, i, request.size))
      /\ Over(D, 2 * p, OldSize)' = S(Cover(2 * p, i, OldSize))
      /\ Here(D, 2 * p)' = Route(D)[Cover(2 * p, i, request.size)]
      /\ fn' = i
  BY HonestMoved DEF Halve
<1>1. /\ OnRoute(2 * p, i)
      /\ Len(Route(D)[Cover(2 * p, i, request.size)]) = Len(Here(D, p)) + 1
      /\ request.path[Len(Here(D, p)) + 1] = S(Cover(p, fn - 1, request.size))
  BY Onward
<1>2. /\ S(Cover(2 * p, i, request.size))
           = NodeHash(S(Cover(p, fn - 1, request.size)), Over(D, p, request.size))
      /\ S(Cover(2 * p, i, OldSize)) = NodeHash(S(Cover(p, fn - 1, OldSize)), Over(D, p, OldSize))
  BY <1>f, OverOdd
<1>3. Cover(p, fn - 1, request.size) = Cover(p, fn - 1, OldSize)
  <2>1. fn * p <= Seat /\ fn * p \in Nat /\ ((fn - 1) + 1) * p = fn * p
    BY DEF On, At, Levels, TypeOK
  <2>2. fn * p <= OldSize /\ fn * p <= request.size
    BY <1>f, <2>1
  <2>3. QED BY <2>1, <2>2 DEF Cover
<1>4. Used(D, Len(Here(D, 2 * p)))'
  <2>1. Len(Here(D, 2 * p)') = k
    BY <1>m, <1>1
  <2>2. QED BY <2>1 DEF Used
<1>5. QED BY <1>m, <1>1, <1>2, <1>3, <1>4

LEMMA AcceptsStep ==
  ASSUME OnTree, NEW D, HonestRequest(D), Accepts(D), [Next]_vars
  PROVE  Accepts(D)'
<1>r. request' = request
  BY RequestKept
<1>t. TypeOK /\ fn \in Nat /\ sn \in Nat /\ fn <= sn /\ request.op \in {"inclusion", "consistency"}
  BY DEF OnTree, TypeOK
<1>f. /\ Seat \in Nat /\ Seat < request.size /\ request.size \in 1..MaxSize
      /\ OldSize \in 1..MaxSize /\ OldSize <= request.size /\ Seat < OldSize
      /\ request.op = "inclusion" => OldSize = request.size /\ Seat = request.at
      /\ request.op = "consistency" => OldSize = request.at /\ Seat = request.at - 1
      /\ Root(D, request.size) = request.root
      /\ request.op = "consistency" => Root(D, OldSize) = request.from
  BY <1>t, HonestFacts
<1>p. /\ request.path \in Seq(Digests(D)) /\ Len(request.path) \in Nat
      /\ request.path = Route(D)[<<0, request.size>>]
      /\ \A c \in Cuts : Route(D)[c] \in Seq(Digests(D))
  BY <1>t, RouteSeq
<1>m. \A p : /\ On(p)' <=> At(p, fn', Seat) /\ At(p, sn', request.size - 1)
             /\ OnRoute(p, fn)' <=> OnRoute(p, fn')
             /\ Over(D, p, request.size)' = Subtree(D)[Cover(p, fn', request.size)]
             /\ Over(D, p, OldSize)' = Subtree(D)[Cover(p, fn', OldSize)]
             /\ Here(D, p)' = Route(D)[Cover(p, fn', request.size)]
             /\ Seat' = Seat /\ OldSize' = OldSize
  BY <1>r, HonestMoved
<1>b. ASSUME pc' \in {"trim", "walk", "climb"}, verdict' # "rejected",
             pc' = "climb" => fn' = sn' /\ fn' # 0,
             pc' = "trim" => request.op = "consistency",
             NEW p, At(p, fn', Seat), At(p, sn', request.size - 1), Computed(D, p)'
      PROVE  Accepts(D)'
  BY <1>r, <1>m, <1>b DEF Accepts
<1>o. pc # "done" => verdict = "open"
  BY <1>t DEF TypeOK
<1>n. verdict # "rejected"
  BY DEF Accepts
<1>w. ASSUME pc \in {"trim", "walk", "climb"} PROVE \E p : On(p) /\ Computed(D, p)
  BY <1>w DEF Accepts
\* The node that the old tree or the leaf starts from.
<1>s. ASSUME NEW q, At(q, fn', Seat), At(q, sn', request.size - 1), pc' = "walk",
             OnRoute(q, fn'), Used(D, Len(Here(D, q)))', verdict' # "rejected",
             low' = Subtree(D)[Cover(q, fn', OldSize)],
             request.op = "consistency" => high' = Subtree(D)[Cover(q, fn', request.size)]
      PROVE  Accepts(D)'
  <2>1. Computed(D, q)'
    BY <1>r, <1>m, <1>s DEF Computed
  <2>2. QED BY <1>b, <1>s, <2>1
<1>1. CASE BeginInclusion
  <2>1. /\ request.op = "inclusion" /\ InRange /\ pc' = "walk" /\ verdict' = verdict
        /\ fn' = Seat /\ sn' = request.size - 1 /\ low' = request.from /\ rest' = request.path
    BY <1>1, <1>f DEF BeginInclusion, HonestRequest, Accepts
  <2>2. At(1, fn', Seat) /\ At(1, sn', request.size - 1)
    BY <2>1, <1>f, AtLeaf
  <2> DEFINE c == <<Seat, Seat + 1>>
  <2>3. Cover(1, fn', request.size) = c /\ c \in Cuts /\ IsLeaf(c)
    BY <1>f, <2>1, AtLeaf, SizeAssumption DEF Cuts, IsLeaf
  <2>4. Subtree(D)[c] = low'
    BY <1>f, <2>1, <2>3, SubtreeLeaf DEF HonestRequest, AtItsIndex
  <2>5. Route(D)[c] = <<>>
    BY <2>1, <2>3, PathDef DEF Route
  <2>6. Len(Here(D, 1)') = 0
    BY <1>m, <2>3, <2>5
  <2>7. Used(D, Len(Here(D, 1)))'
    BY <1>r, <1>p, <2>1, <2>6 DEF Used, Digests
  <2>8. OnRoute(1, fn')
    BY <2>1 DEF OnRoute
  <2>9. QED BY <1>f, <1>n, <1>s, <2>1, <2>2, <2>3, <2>4, <2>7, <2>8
<1>2. CASE BeginConsistency
  <2>1. /\ request.op = "consistency" /\ 0 < request.at /\ request.at < request.size
        /\ request.at \in Nat /\ request.size \in Nat
    BY <1>2, <1>f DEF BeginConsistency, HonestRequest
  <2>2. request.path # <<>>
    <3> DEFINE c == <<0, request.size>>
    <3>1. c \in Cuts /\ ~IsLeaf(c) /\ request.at # c[2]
      BY <1>f, <2>1, SizeAssumption DEF Cuts, IsLeaf
    <3>2. Subproof(D, request.at)[c] # <<>>
      BY <3>1, SubproofNotEmpty
    <3>3. QED BY <1>p, <2>1, <3>2 DEF Route
  <2>3. pc' = "trim" /\ fn' = Seat /\ sn' = request.size - 1 /\ verdict' = verdict
    BY <1>2, <1>f, <2>1, <2>2 DEF BeginConsistency
  <2>4. At(1, fn', Seat) /\ At(1, sn', request.size - 1)
    BY <1>f, <2>3, AtLeaf
  <2>5. (fn' + 1) * 1 = request.at
    BY <1>f, <2>1, <2>3
  <2>6. Computed(D, 1)'
    BY <1>r, <2>3, <2>5 DEF Computed
  <2>7. QED BY <1>b, <1>n, <2>1, <2>3, <2>4, <2>6
<1>3. CASE Trim
  <2>1. PICK p : On(p) /\ (fn + 1) * p = request.at
    BY <1>3, <1>w DEF Trim, Computed
  <2>2. request.op = "consistency" /\ verdict' = verdict
    BY <1>3 DEF Trim, Accepts
  <2>l. p \in Levels /\ p \in Nat
    BY <2>1 DEF On, At, Levels
  <2>3. CASE fn % 2 = 1 /\ Halve /\ pc' = "trim"
    <3>1. At(2 * p, fn', Seat) /\ At(2 * p, sn', request.size - 1)
      BY <1>t, <1>f, <2>1, <2>3, UpOne
    <3>2. (fn' + 1) * (2 * p) = request.at
      <4>1. fn = 2 * fn' + 1 /\ fn' \in Nat
        BY <1>t, <1>f, <2>1, <2>3, AtHalve DEF On, Halve
      <4>2. (fn + 1) * p = (fn' + 1) * (2 * p)
        BY <2>l, <4>1
      <4>3. QED BY <2>1, <4>2
    <3>3. Computed(D, 2 * p)'
      BY <1>r, <2>3, <3>2 DEF Computed
    <3>4. QED BY <1>b, <1>n, <2>2, <2>3, <3>1, <3>3
  <2>4. CASE fn % 2 = 0 /\ pc' = "walk" /\ UNCHANGED <<fn, sn>>
    <3> DEFINE c == Cover(p, fn, request.size)
    <3>1. Cover(p, fn, OldSize) = c /\ c[1] = fn * p /\ c[2] = request.at
      BY <1>t, <1>f, <2>1, <2>2 DEF Cover
    <3>2. c \in Cuts
      BY <1>f, <2>1, AtCover DEF On
    <3>3. OnRoute(p, fn)
      BY <1>t, <2>4, <2>l DEF OnRoute, Trimmed
    <3>4. fn * p = 0 <=> fn = 0
      BY <1>t, <2>1, <2>l DEF On, At, Levels
    <3> HIDE DEF c
    <3>5. Route(D)[c] = IF fn = 0 THEN <<>> ELSE <<Subtree(D)[c]>>
      BY <2>2, <3>1, <3>2, <3>4, SubproofDef DEF Route
    <3>6. OnWay(p, fn, sn, Seat, request.size)
      BY <1>t, <2>1 DEF OnWay, On
    <3>7. Begins(Route(D)[c], request.path)
      BY <1>t, <3>3, <3>6, RouteOn DEF c
    <3>8. low' = Subtree(D)[c] /\ Used(D, Len(Here(D, p)))'
      <4>1. CASE fn = 0
        <5>1. low' = request.from /\ rest' = request.path
          BY <1>3, <2>4, <4>1 DEF Trim
        <5>2. c = <<0, OldSize>>
          BY <1>f, <2>2, <3>1, <3>4, <4>1 DEF c, Cover
        <5>3. low' = Subtree(D)[c]
          BY <1>f, <2>2, <5>1, <5>2 DEF Root
        <5>4. Len(Here(D, p)') = 0
          BY <1>m, <2>4, <3>5, <4>1 DEF c
        <5>5. Used(D, Len(Here(D, p)))'
          BY <1>r, <1>p, <5>1, <5>4 DEF Used, Digests
        <5>6. QED BY <5>3, <5>5
      <4>2. CASE fn # 0
        <5>1. low' = Head(request.path) /\ rest' = Tail(request.path)
          BY <1>3, <2>4, <4>2 DEF Trim
        <5>2. Len(Route(D)[c]) = 1 /\ Route(D)[c][1] = Subtree(D)[c]
          BY <3>5, <4>2
        <5>3. 1 <= Len(request.path) /\ request.path[1] = Subtree(D)[c]
          BY <3>7, <5>2 DEF Begins
        <5>4. low' = Subtree(D)[c]
          BY <1>p, <5>1, <5>3
        <5>5. Len(Here(D, p)') = 1
          BY <1>m, <2>4, <5>2 DEF c
        <5>6. /\ rest' \in Seq(Digests(D)) /\ Len(request.path) = 1 + Len(rest')
              /\ \A j \in 1..Len(rest') : rest'[j] = request.path[1 + j]
          BY <1>p, <5>1, <5>3
        <5>7. Used(D, Len(Here(D, p)))'
          BY <1>r, <5>5, <5>6 DEF Used, Digests
        <5>8. QED BY <5>4, <5>7
      <4>3. QED BY <4>1, <4>2
    <3>9. high' = low'
      BY <1>3, <2>4 DEF Trim
    <3>10. At(p, fn', Seat) /\ At(p, sn', request.size - 1)
      BY <2>1, <2>4 DEF On
    <3>11. QED BY <1>n, <1>s, <2>2, <2>4, <3>1, <3>3, <3>8, <3>9, <3>10 DEF c
  <2>5. QED BY <1>3, <2>3, <2>4 DEF Trim
<1>4. CASE Walk
  <2>p. pc = "walk" /\ rest # <<>>
    BY <1>4 DEF Walk
  <2>1. PICK p : On(p) /\ Computed(D, p)
    BY <1>w, <2>p
  <2> DEFINE k == Len(Here(D, p))
             next == request.path[Len(Here(D, p)) + 1]
  <2>2. /\ OnRoute(p, fn) /\ Used(D, k)
        /\ low = Over(D, p, OldSize)
        /\ request.op = "consistency" => high = Over(D, p, request.size)
    BY <2>p, <2>1 DEF Computed
  <2>3. /\ k \in Nat /\ OnRoute(2 * p, fn \div 2)
        /\ fn % 2 = 0 /\ fn < sn =>
             /\ Len(Route(D)[Cover(2 * p, fn \div 2, request.size)]) = k + 1
             /\ next = Subtree(D)[Cover(p, fn + 1, request.size)]
    BY <1>t, <2>1, <2>2, Onward
  <2>4. sn # 0
    <3> SUFFICES ASSUME sn = 0 PROVE FALSE
      OBVIOUS
    <3>1. fn = 0 /\ Cover(p, fn, request.size) = <<0, request.size>>
      BY <1>t, <1>f, <2>1, AtRoot DEF On
    <3>2. Here(D, p) = request.path
      BY <1>p, <3>1 DEF Here
    <3>3. rest \in Seq(Digests(D)) /\ Len(rest) = 0
      BY <1>p, <2>2, <3>2 DEF Used
    <3>4. QED BY <2>p, <3>3
  <2>5. /\ Combine(Head(rest)) /\ rest' = Tail(rest) /\ verdict' = verdict
        /\ \/ RightEdge /\ fn % 2 = 0 /\ pc' = "climb" /\ UNCHANGED <<fn, sn>>
           \/ ~(RightEdge /\ fn % 2 = 0) /\ Halve /\ pc' = "walk"
    BY <1>4, <2>4 DEF Walk
  <2>6. PICK j \in Nat : j = k
    BY <2>3
  <2>7. Head(rest) = next /\ Used(D, j + 1)'
    <3>1. Used(D, j)
      BY <2>2, <2>6
    <3>2. Head(rest) = request.path[j + 1] /\ Used(D, j + 1)'
      BY <1>r, <2>p, <2>5, <3>1, Taken
    <3>3. QED BY <2>6, <3>2
  <2>8. Combine(next)
    BY <2>5, <2>7
  <2>9. CASE RightEdge
    <3>1. /\ low' = NodeHash(next, Over(D, p, OldSize))
          /\ request.op = "consistency" => high' = NodeHash(next, Over(D, p, request.size))
      BY <2>2, <2>8, <2>9 DEF Combine
    <3>2. CASE fn % 2 = 0 /\ pc' = "climb" /\ UNCHANGED <<fn, sn>>
      <4>1. fn = sn
        BY <2>9, <3>2 DEF RightEdge
      <4>2. Here(D, p)' = Here(D, p)
        BY <1>m, <3>2 DEF Here
      <4>3. Used(D, Len(Here(D, p)) + 1)'
        BY <2>6, <2>7, <4>2 DEF Used
      <4>4. /\ OnRoute(p, fn)'
            /\ low' = NodeHash(request.path[Len(Here(D, p)') + 1], Over(D, p, OldSize)')
            /\ request.op = "consistency"
                 => high' = NodeHash(request.path[Len(Here(D, p)') + 1], Over(D, p, request.size)')
        BY <1>m, <2>2, <3>1, <3>2, <4>2 DEF Over
      <4>5. Computed(D, p)'
        BY <1>r, <3>2, <4>3, <4>4 DEF Computed
      <4>6. QED BY <1>b, <1>n, <2>1, <2>4, <2>5, <3>2, <4>1, <4>5 DEF On
    <3>3. CASE fn % 2 = 1 /\ pc' = "walk" /\ Halve
      <4>1. At(2 * p, fn', Seat) /\ At(2 * p, sn', request.size - 1)
        BY <1>t, <1>f, <2>1, <3>3, UpOne
      <4>2. /\ OnRoute(2 * p, fn') /\ Used(D, Len(Here(D, 2 * p)))'
            /\ low' = Over(D, 2 * p, OldSize)'
            /\ request.op = "consistency" => high' = Over(D, 2 * p, request.size)'
        <5> DEFINE l == j + 1
        <5>1. l = Len(Here(D, p)) + 1 /\ Used(D, l)' /\ request.path[l] = next
          BY <2>6, <2>7
        <5>2. /\ low' = NodeHash(request.path[l], Over(D, p, OldSize))
              /\ request.op = "consistency"
                   => high' = NodeHash(request.path[l], Over(D, p, request.size))
          BY <3>1, <5>1
        <5> HIDE DEF l
        <5>3. QED BY <1>r, <1>t, <2>1, <2>2, <3>3, <5>1, <5>2, HonestWalksOn
      <4>3. QED BY <1>m, <1>n, <1>s, <2>5, <3>3, <4>1, <4>2
    <3>4. fn % 2 = 0 \/ fn % 2 = 1
      BY <1>t
    <3>5. QED BY <2>5, <2>9, <3>2, <3>3, <3>4
  <2>10. CASE ~RightEdge
    <3>1. fn % 2 = 0 /\ fn < sn /\ pc' = "walk" /\ Halve
      BY <1>t, <2>5, <2>10 DEF RightEdge
    <3>2. At(2 * p, fn', Seat) /\ At(2 * p, sn', request.size - 1)
      BY <1>t, <1>f, <2>1, <3>1, UpOne
    <3>3. Subtree(D)[Cover(2 * p, fn', request.size)] = NodeHash(Over(D, p, request.size), next)
      BY <1>t, <1>f, <2>1, <2>3, <3>1, OverEven DEF Halve
    <3>4. low' = Subtree(D)[Cover(2 * p, fn', OldSize)]
      <4>1. CASE request.op = "inclusion"
        BY <1>f, <2>2, <2>8, <2>10, <3>3, <4>1 DEF Combine
      <4>2. CASE request.op = "consistency"
        <5>1. low' = low
          BY <2>8, <2>10, <4>2 DEF Combine
        <5>2. At(p, fn, OldSize - 1)
          BY <1>f, <2>1, <4>2 DEF On
        <5>3. Cover(2 * p, fn', OldSize) = Cover(p, fn, OldSize)
          BY <1>f, <3>1, <5>2, AboveLast DEF Halve
        <5>4. QED BY <2>2, <5>1, <5>3 DEF Over
      <4>3. QED BY <1>t, <4>1, <4>2
    <3>5. request.op = "consistency" => high' = Subtree(D)[Cover(2 * p, fn', request.size)]
      BY <2>2, <2>8, <2>10, <3>3 DEF Combine
    <3>6. Used(D, Len(Here(D, 2 * p)))'
      <4>1. Len(Here(D, 2 * p)') = j + 1
        BY <1>m, <2>3, <2>6, <3>1 DEF Halve
      <4>2. QED BY <2>7, <4>1 DEF Used
    <3>7. OnRoute(2 * p, fn')
      BY <2>3, <3>1 DEF Halve
    <3>8. QED BY <1>n, <1>s, <2>5, <3>1, <3>2, <3>4, <3>5, <3>6, <3>7
  <2>11. QED BY <2>9, <2>10
<1>5. CASE Climb
  <2>p. /\ pc = "climb" /\ Halve /\ UNCHANGED <<low, high, rest, verdict>>
        /\ fn = sn /\ fn # 0
    BY <1>5 DEF Climb, Accepts
  <2>1. PICK p : On(p) /\ Computed(D, p)
    BY <1>w, <2>p
  <2> DEFINE k == Len(Here(D, p)) + 1
  <2>2. /\ OnRoute(p, fn) /\ Used(D, k)
        /\ low = NodeHash(request.path[k], Over(D, p, OldSize))
        /\ request.op = "consistency" => high = NodeHash(request.path[k], Over(D, p, request.size))
    BY <2>p, <2>1 DEF Computed
  <2>3. /\ k \in Nat /\ OnRoute(2 * p, fn \div 2)
        /\ fn % 2 = 0 => Route(D)[Cover(2 * p, fn \div 2, request.size)] = Here(D, p)
    BY <1>t, <2>p, <2>1, <2>2, Onward
  <2>4. At(2 * p, fn', Seat) /\ At(2 * p, sn', request.size - 1)
    BY <1>t, <1>f, <2>p, <2>1, UpOne
  <2>5. PICK j \in Nat : j = k
    BY <2>3
  <2>6. Used(D, j)'
    BY <1>r, <2>p, <2>2, <2>5 DEF Used, Digests
  <2>7. CASE fn % 2 = 1
    <3>1. pc' = "walk"
      BY <1>5, <2>7 DEF Climb, Climbs
    <3>2. /\ OnRoute(2 * p, fn') /\ Used(D, Len(Here(D, 2 * p)))'
          /\ low' = Over(D, 2 * p, OldSize)'
          /\ request.op = "consistency" => high' = Over(D, 2 * p, request.size)'
      BY <1>r, <1>t, <2>p, <2>1, <2>2, <2>5, <2>6, <2>7, HonestWalksOn
    <3>3. QED BY <1>m, <1>n, <1>s, <2>p, <2>4, <3>1, <3>2
  <2>8. CASE fn % 2 = 0
    <3>1. pc' = "climb" /\ fn' = sn' /\ fn' # 0
      <4>1. pc' = "climb"
        BY <1>5, <2>p, <2>8 DEF Climb, Climbs
      <4>2. fn' = sn'
        BY <2>p DEF Halve
      <4>3. fn' # 0
        BY <1>t, <2>p, <2>8 DEF Halve
      <4>4. QED BY <4>1, <4>2, <4>3
    <3>2. Over(D, 2 * p, request.size)' = Over(D, p, request.size)
      <4>1. At(p, fn, request.size - 1)
        BY <2>p, <2>1 DEF On
      <4>2. Cover(2 * p, fn', request.size) = Cover(p, fn, request.size)
        BY <1>f, <2>p, <2>8, <4>1, AboveLast DEF Halve
      <4>3. QED BY <1>m, <4>2 DEF Over
    <3>3. Over(D, 2 * p, OldSize)' = Over(D, p, OldSize)
      <4>1. At(p, fn, OldSize - 1)
        BY <1>t, <1>f, <2>p, <2>1 DEF On
      <4>2. Cover(2 * p, fn', OldSize) = Cover(p, fn, OldSize)
        BY <1>f, <2>p, <2>8, <4>1, AboveLast DEF Halve
      <4>3. QED BY <1>m, <4>2 DEF Over
    <3>4. Len(Here(D, 2 * p)') + 1 = j
      BY <1>m, <2>p, <2>3, <2>5, <2>8 DEF Halve
    <3>5. OnRoute(2 * p, fn)'
      BY <1>m, <2>p, <2>3 DEF Halve
    <3>6. Used(D, Len(Here(D, 2 * p)) + 1)'
      BY <2>6, <3>4 DEF Used
    <3>7. /\ low' = NodeHash(request.path[j], Over(D, 2 * p, OldSize)')
          /\ request.op = "consistency"
               => high' = NodeHash(request.path[j], Over(D, 2 * p, request.size)')
      BY <2>p, <2>2, <2>5, <3>2, <3>3
    <3>8. Computed(D, 2 * p)'
      BY <1>r, <3>1, <3>4, <3>5, <3>6, <3>7 DEF Computed
    <3>9. QED BY <1>b, <1>n, <2>p, <2>4, <3>1, <3>8
  <2>9. fn % 2 = 0 \/ fn % 2 = 1
    BY <1>t
  <2>10. QED BY <2>7, <2>8, <2>9
<1>6. CASE Finish
  <2>p. pc = "walk" /\ rest = <<>>
    BY <1>6 DEF Finish
  <2>1. PICK p : On(p) /\ Computed(D, p)
    BY <1>w, <2>p
  <2>2. /\ OnRoute(p, fn) /\ Used(D, Len(Here(D, p)))
        /\ low = Over(D, p, OldSize)
        /\ request.op = "consistency" => high = Over(D, p, request.size)
    BY <2>p, <2>1 DEF Computed
  <2>3. Len(Here(D, p)) \in Nat /\ (sn # 0 => Len(Here(D, p)) < Len(request.path))
    BY <1>t, <2>1, <2>2, Onward
  <2>4. Len(request.path) = Len(Here(D, p))
    BY <2>p, <2>2, <2>3 DEF Used
  <2>5. fn = 0 /\ sn = 0
    BY <1>t, <2>3, <2>4
  <2>6. Cover(p, fn, request.size) = <<0, request.size>>
    BY <1>f, <2>1, <2>5, AtRoot DEF On
  <2>7. Cover(p, fn, OldSize) = <<0, OldSize>>
    <3>1. At(p, 0, OldSize - 1)
      BY <1>t, <1>f, <2>1, <2>5 DEF On
    <3>2. QED BY <1>f, <2>5, <3>1, AtRoot
  <2>8. Matches
    BY <1>t, <1>f, <2>2, <2>6, <2>7 DEF Matches, Over, Root
  <2>9. pc' = "done" /\ verdict' = "accepted"
    BY <1>6, <2>8 DEF Finish, Return
  <2>10. QED BY <2>9 DEF Accepts
<1>7. CASE Done \/ UNCHANGED vars
  <2>1. UNCHANGED vars
    BY <1>7 DEF Done
  <2>2. \A p : On(p)' <=> On(p)
    BY <1>m, <2>1 DEF vars, On
  <2>3. \A p : Computed(D, p)' <=> Computed(D, p)
    <3> TAKE p
    <3>1. /\ Here(D, p)' = Here(D, p) /\ Over(D, p, OldSize)' = Over(D, p, OldSize)
          /\ Over(D, p, request.size)' = Over(D, p, request.size)
          /\ OnRoute(p, fn)' <=> OnRoute(p, fn)
      BY <1>m, <2>1 DEF vars, Here, Over
    <3>2. /\ Used(D, Len(Here(D, p)))' <=> Used(D, Len(Here(D, p)))
          /\ Used(D, Len(Here(D, p)) + 1)' <=> Used(D, Len(Here(D, p)) + 1)
      BY <1>r, <2>1, <3>1 DEF vars, Used, Digests
    <3>3. QED BY <1>r, <2>1, <3>1, <3>2 DEF vars, Computed
  <2>4. QED BY <2>1, <2>2, <2>3 DEF vars, Accepts
<1>8. QED BY <1>1, <1>2, <1>3, <1>4, <1>5, <1>6, <1>7 DEF Next, Step

LEMMA HonestInit == Init => Honest
BY DEF Init, Honest, Accepts

LEMMA HonestStep == OnTree /\ Honest /\ [Next]_vars => Honest'
<1> SUFFICES ASSUME OnTree, Honest, [Next]_vars, NEW D \in Histories, HonestRequest(D)
             PROVE  Accepts(D)'
  BY RequestKept, HonestMoved DEF Honest
<1>1. QED BY AcceptsStep DEF Honest

(***************************************************************************)
(* The audit path of RFC 6962 is accepted, for a leaf of a tree of any     *)
(* size, whatever the digest (merkle.py:38-40).                            *)
(***************************************************************************)
THEOREM AuditPathsAccepted == Spec => []HonestInclusionAccepted
<1>1. OnTree /\ Honest => HonestInclusionAccepted
  <2> SUFFICES ASSUME OnTree, Honest, Rejected("inclusion"), NEW D \in Histories,
                      StatesTree(D), InRange, AtItsIndex(D),
                      request.path = AuditPaths[D][<<request.at, request.size>>]
               PROVE  FALSE
    BY DEF HonestInclusionAccepted
  <2>1. request.size \in 1..MaxSize /\ request.root = Root(D, request.size)
    BY DEF StatesTree, Roots
  <2>2. request.op = "inclusion" /\ verdict = "rejected" /\ request.at \in Int
    BY DEF Rejected, OnTree, TypeOK
  <2>3. <<request.at, request.size>> \in Spans
    BY <2>1, <2>2, SizeAssumption DEF InRange, Spans, Sizes
  <2>4. request.path = AuditPath(D, request.at, request.size)
    BY <2>3 DEF AuditPaths
  <2>5. HonestRequest(D)
    BY <2>1, <2>2, <2>4 DEF HonestRequest
  <2>6. QED BY <2>2, <2>5 DEF Honest, Accepts
<1>2. Init => OnTree /\ Honest
  BY OnTreeInit, HonestInit
<1>3. OnTree /\ Honest /\ [Next]_vars => (OnTree /\ Honest)'
  BY OnTreeStep, HonestStep
<1>4. QED BY <1>1, <1>2, <1>3, PTL DEF Spec

(***************************************************************************)
(* So is its consistency proof, between trees of any sizes (merkle.py:     *)
(* 80-83).                                                                 *)
(***************************************************************************)
THEOREM ConsistencyProofsAccepted == Spec => []HonestConsistencyAccepted
<1>1. OnTree /\ Honest => HonestConsistencyAccepted
  <2> SUFFICES ASSUME OnTree, Honest, Rejected("consistency"), NEW D \in Histories,
                      StatesTree(D), <<request.at, request.size>> \in OldSpans,
                      request.from = Roots[D][request.at],
                      request.path = Extensions[D][<<request.at, request.size>>]
               PROVE  FALSE
    BY DEF HonestConsistencyAccepted
  <2>1. request.size \in 1..MaxSize /\ request.root = Root(D, request.size)
    BY DEF StatesTree, Roots
  <2>2. request.op = "consistency" /\ verdict = "rejected"
    BY DEF Rejected
  <2>3. 0 < request.at /\ request.at < request.size /\ request.at \in 1..MaxSize
    BY SizeAssumption DEF OldSpans, Spans, Sizes
  <2>4. request.path = ConsistencyProof(D, request.at, request.size)
    BY DEF Extensions
  <2>5. request.from = Root(D, request.at)
    BY <2>3 DEF Roots
  <2>6. HonestRequest(D)
    BY <2>1, <2>2, <2>3, <2>4, <2>5 DEF HonestRequest
  <2>7. QED BY <2>2, <2>6 DEF Honest, Accepts
<1>2. Init => OnTree /\ Honest
  BY OnTreeInit, HonestInit
<1>3. OnTree /\ Honest /\ [Next]_vars => (OnTree /\ Honest)'
  BY OnTreeStep, HonestStep
<1>4. QED BY <1>1, <1>2, <1>3, PTL DEF Spec
=============================================================================
