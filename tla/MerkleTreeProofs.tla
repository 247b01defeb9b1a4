-------------------------- MODULE MerkleTreeProofs --------------------------
(***************************************************************************)
(* What the tree, path and proof of RFC 6962 are on each level of the      *)
(* tree, for any number of leaves.                                         *)
(***************************************************************************)
EXTENDS MerkleTree, TLAPS, WellFoundedInduction

(* A set of naturals has a least element: induction, with no operator as   *)
(* parameter.                                                              *)
LEMMA Least ==
  ASSUME NEW T, T \subseteq Nat, T # {}
  PROVE  \E x \in T : \A y \in T : x <= y
<1>1. PICK x \in T : \A y \in T : ~(<<y, x>> \in OpToRel(<, Nat))
  BY NatLessThanWellFounded, WFMin
<1>2. OpToRel(<, Nat) = {s \in Nat \X Nat : s[1] < s[2]}
  BY DEF OpToRel
<1>3. \A y \in T : ~(y < x)
  <2> TAKE y \in T
  <2>1. x \in Nat /\ y \in Nat /\ <<y, x>> \in Nat \X Nat
    OBVIOUS
  <2>2. y < x => <<y, x>> \in {s \in Nat \X Nat : s[1] < s[2]}
    BY <2>1
  <2>3. QED BY <1>1, <1>2, <2>2
<1>4. QED BY <1>3

LEMMA Induction ==
  ASSUME NEW T, T \subseteq Nat, 0 \notin T, \A n \in Nat : n \notin T => n + 1 \notin T
  PROVE  T = {}
<1> SUFFICES ASSUME T # {} PROVE FALSE
  OBVIOUS
<1>1. PICK x \in T : \A y \in T : x <= y
  BY Least
<1>2. x - 1 \in Nat /\ x - 1 \notin T /\ x = (x - 1) + 1
  BY <1>1
<1>3. QED BY <1>2

-----------------------------------------------------------------------------
(* Split satisfies its equation.                                           *)
LEMMA SplitDef ==
  Split = [n \in 2..MaxSize |-> IF n = 2 THEN 1 ELSE 2 * Split[(n + 1) \div 2]]
<1> DEFINE Body(f, n) == IF n = 2 THEN 1 ELSE 2 * f[(n + 1) \div 2]
           Solves(f, k) == /\ f = [n \in 2..MaxSize |-> f[n]]
                           /\ \A n \in 2..MaxSize : n <= k => f[n] = Body(f, n)
           T == {k \in Nat : ~\E f : Solves(f, k)}
<1>1. 0 \notin T
  <2>1. Solves([n \in 2..MaxSize |-> 0], 0)
    OBVIOUS
  <2>2. QED BY <2>1
<1>2. ASSUME NEW k \in Nat, k \notin T PROVE k + 1 \notin T
  <2>1. PICK f : Solves(f, k)
    BY <1>2
  <2> DEFINE g == [n \in 2..MaxSize |-> Body(f, n)]
  <2>2. Solves(g, k + 1)
    <3>1. ASSUME NEW n \in 2..MaxSize, n <= k + 1 PROVE g[n] = Body(g, n)
      <4>1. n # 2 => (n + 1) \div 2 \in 2..MaxSize /\ (n + 1) \div 2 <= k
        BY <3>1, SizeAssumption
      <4>2. QED BY <2>1, <4>1
    <3>2. QED BY <3>1
  <2>3. QED BY <2>2
<1>3. T = {}
  <2> HIDE DEF T
  <2>1. T \subseteq Nat
    BY DEF T
  <2>2. QED BY <1>1, <1>2, <2>1, Induction
<1>4. PICK f : Solves(f, MaxSize)
  BY <1>3, SizeAssumption
<1>5. f = [n \in 2..MaxSize |-> Body(f, n)]
  <2>1. \A n \in 2..MaxSize : f[n] = Body(f, n)
    BY <1>4, SizeAssumption
  <2>2. [n \in 2..MaxSize |-> f[n]] = [n \in 2..MaxSize |-> Body(f, n)]
    BY <2>1
  <2>3. QED BY <1>4, <2>2
<1>6. QED BY <1>5 DEF Split

(* A split leaves a leaf on either side.                                   *)
LEMMA SplitRange ==
  ASSUME NEW n \in 2..MaxSize
  PROVE  Split[n] \in 1..n - 1
<1> DEFINE T == {k \in Nat : \E w \in 2..MaxSize : w <= k /\ Split[w] \notin 1..w - 1}
<1>1. 0 \notin T
  OBVIOUS
<1>2. ASSUME NEW k \in Nat, k \notin T PROVE k + 1 \notin T
  <2>1. ASSUME NEW w \in 2..MaxSize, w <= k + 1 PROVE Split[w] \in 1..w - 1
    <3>1. Split[w] = IF w = 2 THEN 1 ELSE 2 * Split[(w + 1) \div 2]
      BY SplitDef
    <3>2. CASE w = 2
      BY <3>1, <3>2
    <3>3. CASE w # 2
      <4>1. (w + 1) \div 2 \in 2..MaxSize /\ (w + 1) \div 2 <= k
        BY <2>1, <3>3, SizeAssumption
      <4>2. Split[(w + 1) \div 2] \in 1..((w + 1) \div 2) - 1
        BY <1>2, <4>1
      <4>3. QED BY <3>1, <3>3, <4>2
    <3>4. QED BY <3>2, <3>3
  <2>2. QED BY <2>1
<1>3. T = {}
  <2> HIDE DEF T
  <2>1. T \subseteq Nat
    BY DEF T
  <2>2. QED BY <1>1, <1>2, <2>1, Induction
<1>4. QED BY <1>3, SizeAssumption

LEMMA CutParts ==
  ASSUME NEW c \in Cuts, ~IsLeaf(c)
  PROVE  /\ Left(c) \in Cuts /\ Right(c) \in Cuts
         /\ c[1] < Middle(c) /\ Middle(c) < c[2] /\ Middle(c) \in 1..MaxSize
<1>1. c[1] \in 0..MaxSize /\ c[2] \in 0..MaxSize /\ c[2] - c[1] \in 2..MaxSize
  BY SizeAssumption DEF Cuts, IsLeaf
<1>2. Split[c[2] - c[1]] \in 1..(c[2] - c[1]) - 1
  BY <1>1, SplitRange
<1>3. Middle(c) \in Int /\ c[1] < Middle(c) /\ Middle(c) < c[2]
  BY <1>1, <1>2 DEF Middle
<1>4. QED BY <1>1, <1>3, SizeAssumption DEF Left, Right, Cuts

\* What the recursion over cuts descends on.
Width(c) == c[2] - c[1]

LEMMA WidthOf ==
  ASSUME NEW c \in Cuts
  PROVE  /\ Width(c) \in 1..MaxSize
         /\ ~IsLeaf(c) => Width(Left(c)) < Width(c) /\ Width(Right(c)) < Width(c)
<1>1. c[1] \in 0..MaxSize /\ c[2] \in 0..MaxSize /\ c[1] < c[2]
  BY DEF Cuts
<1>2. Width(c) \in 1..MaxSize
  BY <1>1, SizeAssumption DEF Width
<1>3. ASSUME ~IsLeaf(c) PROVE Width(Left(c)) < Width(c) /\ Width(Right(c)) < Width(c)
  <2>1. Middle(c) \in Int /\ c[1] < Middle(c) /\ Middle(c) < c[2]
    BY <1>3, CutParts, SizeAssumption
  <2>2. QED BY <1>1, <2>1 DEF Width, Left, Right
<1>4. QED BY <1>2, <1>3

-----------------------------------------------------------------------------
(* So do the tree, the audit path and the consistency proof.               *)
LEMMA SubtreeDef ==
  ASSUME NEW D
  PROVE  Subtree(D) = [c \in Cuts |-> IF IsLeaf(c) THEN LeafHash(D[c[1]])
                                      ELSE NodeHash(Subtree(D)[Left(c)], Subtree(D)[Right(c)])]
<1> DEFINE Body(f, c) == IF IsLeaf(c) THEN LeafHash(D[c[1]])
                                     ELSE NodeHash(f[Left(c)], f[Right(c)])
           Solves(f, k) == /\ f = [c \in Cuts |-> f[c]]
                           /\ \A c \in Cuts : Width(c) <= k => f[c] = Body(f, c)
           T == {k \in Nat : ~\E f : Solves(f, k)}
<1>1. 0 \notin T
  <2>1. Solves([c \in Cuts |-> 0], 0)
    BY WidthOf, SizeAssumption
  <2>2. QED BY <2>1
<1>2. ASSUME NEW k \in Nat, k \notin T PROVE k + 1 \notin T
  <2>1. PICK f : Solves(f, k)
    BY <1>2
  <2> DEFINE g == [c \in Cuts |-> Body(f, c)]
  <2>2. Solves(g, k + 1)
    <3>1. ASSUME NEW c \in Cuts, Width(c) <= k + 1 PROVE g[c] = Body(g, c)
      <4>1. CASE IsLeaf(c)
        BY <4>1
      <4>2. CASE ~IsLeaf(c)
        <5>1. /\ Left(c) \in Cuts /\ Width(Left(c)) <= k
              /\ Right(c) \in Cuts /\ Width(Right(c)) <= k
          BY <3>1, <4>2, CutParts, WidthOf, SizeAssumption
        <5>2. g[Left(c)] = f[Left(c)] /\ g[Right(c)] = f[Right(c)]
          BY <2>1, <5>1
        <5>3. QED BY <4>2, <5>2
      <4>3. QED BY <4>1, <4>2
    <3>2. QED BY <3>1
  <2>3. QED BY <2>2
<1>3. T = {}
  <2> HIDE DEF T
  <2>1. T \subseteq Nat
    BY DEF T
  <2>2. QED BY <1>1, <1>2, <2>1, Induction
<1>4. PICK f : Solves(f, MaxSize)
  BY <1>3, SizeAssumption
<1>5. f = [c \in Cuts |-> Body(f, c)]
  <2>1. \A c \in Cuts : f[c] = Body(f, c)
    BY <1>4, WidthOf, SizeAssumption
  <2>2. [c \in Cuts |-> f[c]] = [c \in Cuts |-> Body(f, c)]
    BY <2>1
  <2>3. QED BY <1>4, <2>2
<1>6. QED BY <1>5 DEF Subtree

LEMMA PathDef ==
  ASSUME NEW D, NEW m
  PROVE  Path(D, m) =
           [c \in Cuts |->
             IF IsLeaf(c) THEN <<>>
             ELSE IF m < Middle(c) THEN Append(Path(D, m)[Left(c)], Subtree(D)[Right(c)])
                                   ELSE Append(Path(D, m)[Right(c)], Subtree(D)[Left(c)])]
<1> DEFINE Body(f, c) ==
             IF IsLeaf(c) THEN <<>>
             ELSE IF m < Middle(c) THEN Append(f[Left(c)], Subtree(D)[Right(c)])
                                   ELSE Append(f[Right(c)], Subtree(D)[Left(c)])
           Solves(f, k) == /\ f = [c \in Cuts |-> f[c]]
                           /\ \A c \in Cuts : Width(c) <= k => f[c] = Body(f, c)
           T == {k \in Nat : ~\E f : Solves(f, k)}
<1>1. 0 \notin T
  <2>1. Solves([c \in Cuts |-> 0], 0)
    BY WidthOf, SizeAssumption
  <2>2. QED BY <2>1
<1>2. ASSUME NEW k \in Nat, k \notin T PROVE k + 1 \notin T
  <2>1. PICK f : Solves(f, k)
    BY <1>2
  <2> DEFINE g == [c \in Cuts |-> Body(f, c)]
  <2>2. Solves(g, k + 1)
    <3>1. ASSUME NEW c \in Cuts, Width(c) <= k + 1 PROVE g[c] = Body(g, c)
      <4>1. CASE IsLeaf(c)
        BY <4>1
      <4>2. CASE ~IsLeaf(c)
        <5>1. /\ Left(c) \in Cuts /\ Width(Left(c)) <= k
              /\ Right(c) \in Cuts /\ Width(Right(c)) <= k
          BY <3>1, <4>2, CutParts, WidthOf, SizeAssumption
        <5>2. g[Left(c)] = f[Left(c)] /\ g[Right(c)] = f[Right(c)]
          BY <2>1, <5>1
        <5>3. QED BY <4>2, <5>2
      <4>3. QED BY <4>1, <4>2
    <3>2. QED BY <3>1
  <2>3. QED BY <2>2
<1>3. T = {}
  <2> HIDE DEF T
  <2>1. T \subseteq Nat
    BY DEF T
  <2>2. QED BY <1>1, <1>2, <2>1, Induction
<1>4. PICK f : Solves(f, MaxSize)
  BY <1>3, SizeAssumption
<1>5. f = [c \in Cuts |-> Body(f, c)]
  <2>1. \A c \in Cuts : f[c] = Body(f, c)
    <3> TAKE c \in Cuts
    <3>1. Width(c) <= MaxSize
      BY WidthOf, SizeAssumption
    <3> HIDE DEF Body
    <3>2. QED BY <1>4, <3>1
  <2>2. [c \in Cuts |-> f[c]] = [c \in Cuts |-> Body(f, c)]
    BY <2>1
  <2>3. QED BY <1>4, <2>2
<1>6. QED BY <1>5 DEF Path

LEMMA SubproofDef ==
  ASSUME NEW D, NEW m
  PROVE  Subproof(D, m) =
           [c \in Cuts |->
             IF m = c[2] \/ IsLeaf(c) THEN IF c[1] = 0 THEN <<>> ELSE <<Subtree(D)[c]>>
             ELSE IF m <= Middle(c) THEN Append(Subproof(D, m)[Left(c)], Subtree(D)[Right(c)])
                                   ELSE Append(Subproof(D, m)[Right(c)], Subtree(D)[Left(c)])]
<1> DEFINE Body(f, c) ==
             IF m = c[2] \/ IsLeaf(c) THEN IF c[1] = 0 THEN <<>> ELSE <<Subtree(D)[c]>>
             ELSE IF m <= Middle(c) THEN Append(f[Left(c)], Subtree(D)[Right(c)])
                                   ELSE Append(f[Right(c)], Subtree(D)[Left(c)])
           Solves(f, k) == /\ f = [c \in Cuts |-> f[c]]
                           /\ \A c \in Cuts : Width(c) <= k => f[c] = Body(f, c)
           T == {k \in Nat : ~\E f : Solves(f, k)}
<1>1. 0 \notin T
  <2>1. Solves([c \in Cuts |-> 0], 0)
    BY WidthOf, SizeAssumption
  <2>2. QED BY <2>1
<1>2. ASSUME NEW k \in Nat, k \notin T PROVE k + 1 \notin T
  <2>1. PICK f : Solves(f, k)
    BY <1>2
  <2> DEFINE g == [c \in Cuts |-> Body(f, c)]
  <2>2. Solves(g, k + 1)
    <3>1. ASSUME NEW c \in Cuts, Width(c) <= k + 1 PROVE g[c] = Body(g, c)
      <4>1. CASE IsLeaf(c)
        BY <4>1
      <4>2. CASE ~IsLeaf(c)
        <5>1. /\ Left(c) \in Cuts /\ Width(Left(c)) <= k
              /\ Right(c) \in Cuts /\ Width(Right(c)) <= k
          BY <3>1, <4>2, CutParts, WidthOf, SizeAssumption
        <5>2. g[Left(c)] = f[Left(c)] /\ g[Right(c)] = f[Right(c)]
          BY <2>1, <5>1
        <5>3. QED BY <4>2, <5>2
      <4>3. QED BY <4>1, <4>2
    <3>2. QED BY <3>1
  <2>3. QED BY <2>2
<1>3. T = {}
  <2> HIDE DEF T
  <2>1. T \subseteq Nat
    BY DEF T
  <2>2. QED BY <1>1, <1>2, <2>1, Induction
<1>4. PICK f : Solves(f, MaxSize)
  BY <1>3, SizeAssumption
<1>5. f = [c \in Cuts |-> Body(f, c)]
  <2>1. \A c \in Cuts : f[c] = Body(f, c)
    <3> TAKE c \in Cuts
    <3>1. Width(c) <= MaxSize
      BY WidthOf, SizeAssumption
    <3> HIDE DEF Body
    <3>2. QED BY <1>4, <3>1
  <2>2. [c \in Cuts |-> f[c]] = [c \in Cuts |-> Body(f, c)]
    BY <2>1
  <2>3. QED BY <1>4, <2>2
<1>6. QED BY <1>5 DEF Subproof

-----------------------------------------------------------------------------
(* The tree level by level.  A level is given by the leaves p below each   *)
(* of its nodes, the last excepted: Split cuts all that is wider than p,   *)
(* but no wider than 2p, after p leaves.                                   *)
Levels == {p \in Nat \ {0} : \A w \in 2..MaxSize : p < w /\ w <= 2 * p => Split[w] = p}

\* The cut below node i of that level, in a tree of n leaves.
Cover(p, i, n) == <<i * p, IF (i + 1) * p <= n THEN (i + 1) * p ELSE n>>

LEMMA LevelOne == 1 \in Levels
BY SplitDef DEF Levels

LEMMA LevelUp ==
  ASSUME NEW p \in Levels
  PROVE  2 * p \in Levels
<1>1. ASSUME NEW w \in 2..MaxSize, 2 * p < w, w <= 4 * p
      PROVE  Split[w] = 2 * p
  <2>1. p \in Nat \ {0}
    BY DEF Levels
  <2>2. (w + 1) \div 2 \in 2..MaxSize /\ p < (w + 1) \div 2 /\ (w + 1) \div 2 <= 2 * p
    BY <1>1, <2>1, SizeAssumption
  <2>3. Split[(w + 1) \div 2] = p
    BY <2>2 DEF Levels
  <2>4. w # 2
    BY <1>1, <2>1
  <2>5. Split[w] = 2 * Split[(w + 1) \div 2]
    BY <2>4, SplitDef
  <2>6. QED BY <2>3, <2>5
<1>2. QED BY <1>1 DEF Levels

LEMMA CoverIsCut ==
  ASSUME NEW p \in Levels, NEW i \in Nat, NEW n \in 1..MaxSize, i * p < n
  PROVE  /\ Cover(p, i, n) \in Cuts
         /\ i * p \in Nat /\ Cover(p, i, n)[1] = i * p
         /\ Cover(p, i, n)[2] = IF (i + 1) * p <= n THEN (i + 1) * p ELSE n
<1>1. p \in Nat \ {0}
  BY DEF Levels
<1>2. i * p \in Nat /\ (i + 1) * p = i * p + p
  BY <1>1
<1>3. QED BY <1>1, <1>2, SizeAssumption DEF Cover, Cuts

\* Two nodes next to each other are the parts of the one above them.
LEMMA Paired ==
  ASSUME NEW p \in Levels, NEW j \in Nat, NEW n \in 1..MaxSize, (2 * j + 1) * p < n
  PROVE  LET c == Cover(2 * p, j, n)
         IN  /\ c \in Cuts /\ ~IsLeaf(c) /\ Middle(c) = (2 * j + 1) * p
             /\ Left(c) = Cover(p, 2 * j, n) /\ Right(c) = Cover(p, 2 * j + 1, n)
             /\ c[1] = (2 * j) * p /\ (2 * j + 1) * p < c[2]
<1> DEFINE t == j * p
           c == Cover(2 * p, j, n)
<1>1. p \in Nat \ {0} /\ 2 * p \in Levels
  BY LevelUp DEF Levels
<1>2. /\ t \in Nat /\ j * (2 * p) = 2 * t /\ (j + 1) * (2 * p) = 2 * t + 2 * p
      /\ (2 * j) * p = 2 * t /\ (2 * j + 1) * p = 2 * t + p /\ ((2 * j + 1) + 1) * p = 2 * t + 2 * p
  BY <1>1
<1> HIDE DEF t
<1>3. /\ c = <<2 * t, IF 2 * t + 2 * p <= n THEN 2 * t + 2 * p ELSE n>>
      /\ Cover(p, 2 * j, n) = <<2 * t, 2 * t + p>>
      /\ Cover(p, 2 * j + 1, n) = <<2 * t + p, IF 2 * t + 2 * p <= n THEN 2 * t + 2 * p ELSE n>>
  BY <1>1, <1>2 DEF Cover
<1> HIDE DEF c
<1>4. c[2] - c[1] \in 2..MaxSize /\ p < c[2] - c[1] /\ c[2] - c[1] <= 2 * p
  BY <1>1, <1>2, <1>3, SizeAssumption
<1>5. Split[c[2] - c[1]] = p
  BY <1>4 DEF Levels
<1>6. Middle(c) = 2 * t + p
  BY <1>3, <1>5 DEF Middle
<1>7. c \in Cuts
  BY <1>1, <1>2, <1>3, SizeAssumption DEF Cuts
<1>8. ~IsLeaf(c) /\ c[1] = 2 * t /\ 2 * t + p < c[2]
  BY <1>1, <1>2, <1>3, <1>4, SizeAssumption DEF IsLeaf
<1>9. Left(c) = Cover(p, 2 * j, n) /\ Right(c) = Cover(p, 2 * j + 1, n)
  BY <1>3, <1>6 DEF Left, Right
<1>10. QED BY <1>2, <1>6, <1>7, <1>8, <1>9 DEF c

\* A last node without a neighbour is the one above it.
LEMMA Promoted ==
  ASSUME NEW p \in Levels, NEW j \in Nat, NEW n \in 1..MaxSize,
         (2 * j) * p < n, n <= (2 * j + 1) * p
  PROVE  Cover(2 * p, j, n) = Cover(p, 2 * j, n)
<1>1. p \in Nat \ {0}
  BY DEF Levels
<1>2. /\ j * p \in Nat /\ j * (2 * p) = 2 * (j * p) /\ (j + 1) * (2 * p) = 2 * (j * p) + 2 * p
      /\ (2 * j) * p = 2 * (j * p) /\ (2 * j + 1) * p = 2 * (j * p) + p
  BY <1>1
<1>3. QED BY <1>1, <1>2 DEF Cover

-----------------------------------------------------------------------------
(* What lies above the node that holds leaf m, in the tree of n leaves     *)
(* whose last node on this level is s.                                     *)
At(p, i, m) == p \in Levels /\ i \in Nat /\ i * p <= m /\ m < (i + 1) * p

LEMMA AtHalve ==
  ASSUME NEW p, NEW i, NEW m \in Nat, At(p, i, m)
  PROVE  /\ At(2 * p, i \div 2, m)
         /\ i % 2 = 1 => i = 2 * (i \div 2) + 1
         /\ i % 2 = 0 => i = 2 * (i \div 2)
         /\ i % 2 = 0 \/ i % 2 = 1
<1> DEFINE j == i \div 2
<1>1. p \in Nat \ {0} /\ i \in Nat /\ j \in Nat /\ 2 * p \in Levels
  BY LevelUp DEF At, Levels
<1>2. /\ i % 2 = 1 => i = 2 * j + 1
      /\ i % 2 = 0 => i = 2 * j
      /\ i % 2 = 0 \/ i % 2 = 1
  BY <1>1
<1>3. i * p <= m /\ m < (i + 1) * p
  BY DEF At
<1> HIDE DEF j
<1>4. j * p \in Nat /\ j * (2 * p) = 2 * (j * p) /\ (j + 1) * (2 * p) = 2 * (j * p) + 2 * p
  BY <1>1
<1>5. i = 2 * j => i * p = 2 * (j * p) /\ (i + 1) * p = 2 * (j * p) + p
  BY <1>1
<1>6. i = 2 * j + 1 => i * p = 2 * (j * p) + p /\ (i + 1) * p = 2 * (j * p) + 2 * p
  BY <1>1
<1>7. j * (2 * p) <= m /\ m < (j + 1) * (2 * p)
  BY <1>1, <1>2, <1>3, <1>4, <1>5, <1>6
<1>8. At(2 * p, j, m)
  BY <1>1, <1>7 DEF At
<1>9. QED BY <1>2, <1>8 DEF j

LEMMA AtCover ==
  ASSUME NEW p, NEW i, NEW m \in Nat, At(p, i, m), NEW n \in 1..MaxSize, m < n
  PROVE  Cover(p, i, n) \in Cuts
<1>1. p \in Levels /\ i \in Nat /\ p \in Nat /\ i * p \in Nat /\ i * p < n
  BY DEF At, Levels
<1>2. QED BY <1>1, CoverIsCut

LEMMA AboveOdd ==
  ASSUME NEW p, NEW i, NEW m \in Nat, At(p, i, m), NEW n \in 1..MaxSize, m < n, i % 2 = 1
  PROVE  LET c == Cover(2 * p, i \div 2, n)
         IN  /\ c \in Cuts /\ ~IsLeaf(c) /\ Middle(c) = i * p
             /\ Left(c) = Cover(p, i - 1, n) /\ Right(c) = Cover(p, i, n)
             /\ c[1] = (i - 1) * p
<1> DEFINE j == i \div 2
<1>1. p \in Levels /\ p \in Nat /\ j \in Nat /\ i = 2 * j + 1 /\ i - 1 = 2 * j /\ i * p < n
  BY AtHalve DEF At, Levels
<1> HIDE DEF j
<1>2. QED BY <1>1, Paired DEF j

LEMMA AboveEven ==
  ASSUME NEW p, NEW i, NEW m \in Nat, At(p, i, m), NEW n \in 1..MaxSize, m < n,
         NEW s, At(p, s, n - 1), i < s, i % 2 = 0
  PROVE  LET c == Cover(2 * p, i \div 2, n)
         IN  /\ c \in Cuts /\ ~IsLeaf(c) /\ Middle(c) = (i + 1) * p
             /\ Left(c) = Cover(p, i, n) /\ Right(c) = Cover(p, i + 1, n)
             /\ (i + 1) * p < c[2] /\ c[1] = i * p
<1> DEFINE j == i \div 2
<1>1. p \in Levels /\ p \in Nat \ {0} /\ j \in Nat /\ i = 2 * j
  BY AtHalve DEF At, Levels
<1>2. s \in Nat /\ s * p <= n - 1 /\ i + 1 <= s
  BY DEF At
<1>3. (i + 1) * p <= s * p
  <2>1. s - (i + 1) \in Nat /\ (s - (i + 1)) * p \in Nat
    BY <1>1, <1>2
  <2>2. (s - (i + 1)) * p = s * p - (i + 1) * p
    BY <1>1, <1>2
  <2>3. s * p \in Nat /\ (i + 1) * p \in Nat
    BY <1>1, <1>2
  <2>4. QED BY <2>1, <2>2, <2>3
<1>4. (i + 1) * p \in Nat /\ s * p \in Nat
  BY <1>1, <1>2
<1>5. (i + 1) * p < n
  BY <1>2, <1>3, <1>4
<1> HIDE DEF j
<1>6. QED BY <1>1, <1>5, Paired DEF j

LEMMA AboveLast ==
  ASSUME NEW p, NEW i, NEW n \in 1..MaxSize, At(p, i, n - 1), i % 2 = 0
  PROVE  Cover(2 * p, i \div 2, n) = Cover(p, i, n)
<1> DEFINE j == i \div 2
<1>1. p \in Levels /\ p \in Nat \ {0} /\ j \in Nat /\ i = 2 * j
  BY AtHalve DEF At, Levels
<1>2. i * p <= n - 1 /\ n - 1 < (i + 1) * p /\ i * p \in Int /\ (i + 1) * p \in Int
  BY <1>1 DEF At
<1> HIDE DEF j
<1>3. (2 * j) * p < n /\ n <= (2 * j + 1) * p
  BY <1>1, <1>2
<1>4. QED BY <1>1, <1>3, Promoted DEF j

LEMMA AtRoot ==
  ASSUME NEW p, NEW n \in 1..MaxSize, At(p, 0, n - 1)
  PROVE  Cover(p, 0, n) = <<0, n>>
<1>1. p \in Nat /\ n <= p /\ 0 * p = 0 /\ (0 + 1) * p = p
  BY DEF At, Levels
<1>2. QED BY <1>1 DEF Cover

LEMMA AtLeaf ==
  ASSUME NEW m \in Nat
  PROVE  /\ At(1, m, m)
         /\ \A n \in 1..MaxSize : m < n => Cover(1, m, n) = <<m, m + 1>>
BY LevelOne DEF At, Cover

-----------------------------------------------------------------------------
(* A proof is built from the leaf up: what it has for a node begins what   *)
(* it has for the nodes above, up to the root.  R gives it for each cut.   *)
Digests(D) == {Subtree(D)[c] : c \in Cuts}

Grows(D, R, p, i, s, n) ==
  LET here == R[Cover(p, i, n)]
      up == R[Cover(2 * p, i \div 2, n)]
  IN  /\ i % 2 = 1 => up = Append(here, Subtree(D)[Cover(p, i - 1, n)])
      /\ i % 2 = 0 /\ i < s => up = Append(here, Subtree(D)[Cover(p, i + 1, n)])
      /\ i % 2 = 0 /\ i = s => up = here

Begins(t, u) == Len(t) <= Len(u) /\ \A k \in 1..Len(t) : u[k] = t[k]

\* Nodes on the way from leaf m to the root; s is the last one of the level.
OnWay(p, i, s, m, n) == At(p, i, m) /\ At(p, s, n - 1) /\ i <= s

\* It is built so at the nodes N, which the way does not leave.
Built(D, R, N, m, n) ==
  \A p, i, s : <<p, i>> \in N /\ OnWay(p, i, s, m, n)
    => Grows(D, R, p, i, s, n) /\ <<2 * p, i \div 2>> \in N

Lists(R, V) == \A c \in Cuts : R[c] \in Seq(V)

LEMMA Prefixes ==
  ASSUME NEW D, NEW V, NEW R, Lists(R, V),
         NEW m \in Nat, NEW n \in 1..MaxSize, m < n, NEW N, Built(D, R, N, m, n),
         NEW q, NEW j, NEW t, <<q, j>> \in N, OnWay(q, j, t, m, n)
  PROVE  /\ Begins(R[Cover(q, j, n)], R[<<0, n>>])
         /\ t # 0 => Len(R[Cover(q, j, n)]) < Len(R[<<0, n>>])
<1> DEFINE Whole == R[<<0, n>>]
           Fine(p, i, s) == /\ Begins(R[Cover(p, i, n)], Whole)
                            /\ s # 0 => Len(R[Cover(p, i, n)]) < Len(Whole)
           T == {k \in Nat : \E p, i, s : /\ s <= k /\ <<p, i>> \in N
                                          /\ OnWay(p, i, s, m, n) /\ ~Fine(p, i, s)}
<1>w. Whole \in Seq(V) /\ Len(Whole) \in Nat
  <2>1. <<0, n>> \in Cuts
    BY SizeAssumption DEF Cuts
  <2>2. QED BY <2>1 DEF Lists
<1>0. ASSUME NEW p, NEW i, OnWay(p, i, 0, m, n) PROVE Fine(p, i, 0)
  <2>1. i = 0 /\ At(p, 0, n - 1)
    BY <1>0 DEF OnWay, At
  <2>2. Cover(p, i, n) = <<0, n>>
    BY <2>1, AtRoot
  <2> HIDE DEF Whole
  <2>3. Begins(Whole, Whole)
    BY <1>w DEF Begins
  <2>4. QED BY <2>2, <2>3 DEF Whole
<1>1. 0 \notin T
  <2>1. \A p, i, s : OnWay(p, i, s, m, n) /\ s <= 0 => s = 0
    BY DEF OnWay, At
  <2> HIDE DEF Fine
  <2>2. QED BY <1>0, <2>1
<1>2. ASSUME NEW k \in Nat, k \notin T PROVE k + 1 \notin T
  <2>1. ASSUME NEW p, NEW i, NEW s, s <= k + 1, <<p, i>> \in N, OnWay(p, i, s, m, n)
        PROVE  Fine(p, i, s)
    <3>1. CASE s = 0
      <4> HIDE DEF Fine
      <4>1. QED BY <1>0, <2>1, <3>1
    <3>2. CASE s # 0
      <4> DEFINE here == R[Cover(p, i, n)]
                 up == R[Cover(2 * p, i \div 2, n)]
      <4>1. s \in Nat /\ i \in Nat /\ i <= s /\ At(p, i, m) /\ At(p, s, n - 1)
        BY <2>1 DEF OnWay, At
      <4>2. OnWay(2 * p, i \div 2, s \div 2, m, n)
        <5>1. At(2 * p, i \div 2, m) /\ At(2 * p, s \div 2, n - 1)
          <6>1. n - 1 \in Nat
            OBVIOUS
          <6>2. At(2 * p, i \div 2, m)
            BY <4>1, AtHalve
          <6>3. At(2 * p, s \div 2, n - 1)
            BY <4>1, <6>1, AtHalve
          <6>4. QED BY <6>2, <6>3
        <5>2. i \div 2 <= s \div 2
          BY <4>1
        <5>3. QED BY <5>1, <5>2 DEF OnWay
      <4>3. Grows(D, R, p, i, s, n) /\ <<2 * p, i \div 2>> \in N
        BY <2>1 DEF Built
      <4>4. Fine(2 * p, i \div 2, s \div 2)
        <5>1. s \div 2 <= k
          BY <2>1, <3>2, <4>1
        <5> HIDE DEF Fine
        <5>2. QED BY <1>2, <4>2, <4>3, <5>1
      <4>5. here \in Seq(V) /\ up \in Seq(V)
        <5>1. Cover(p, i, n) \in Cuts
          BY <4>1, AtCover
        <5>2. Cover(2 * p, i \div 2, n) \in Cuts
          BY <4>2, AtCover DEF OnWay
        <5>3. QED BY <5>1, <5>2 DEF Lists
      <4>6. Begins(up, Whole) /\ (s \div 2 # 0 => Len(up) < Len(Whole))
        BY <4>4
      <4>7. (i % 2 = 0 /\ i = s) \/ \E x : up = Append(here, x)
        <5>1. i % 2 = 1 \/ (i % 2 = 0 /\ i < s) \/ (i % 2 = 0 /\ i = s)
          BY <4>1
        <5>2. i % 2 = 1 => up = Append(here, Subtree(D)[Cover(p, i - 1, n)])
          BY <4>3 DEF Grows
        <5>3. i % 2 = 0 /\ i < s => up = Append(here, Subtree(D)[Cover(p, i + 1, n)])
          BY <4>3 DEF Grows
        <5> HIDE DEF here, up
        <5>4. QED BY <5>1, <5>2, <5>3, Zenon
      <4>8. i % 2 = 0 /\ i = s => up = here /\ s \div 2 # 0
        BY <3>2, <4>1, <4>3 DEF Grows
      <4> HIDE DEF Whole, here, up
      <4>9. CASE i % 2 = 0 /\ i = s
        BY <4>6, <4>8, <4>9 DEF here, Whole
      <4>10. CASE \E x : up = Append(here, x)
        <5>1. PICK x : up = Append(here, x)
          BY <4>10
        <5>2. Len(here) \in Nat /\ Len(up) = Len(here) + 1 /\ \A h \in 1..Len(here) : up[h] = here[h]
          BY <4>5, <5>1
        <5>3. Len(here) < Len(Whole) /\ \A h \in 1..Len(here) : Whole[h] = here[h]
          BY <1>w, <4>6, <5>2 DEF Begins
        <5>4. QED BY <1>w, <5>2, <5>3 DEF Begins, here, Whole
      <4>11. QED BY <4>7, <4>9, <4>10
    <3>3. QED BY <3>1, <3>2
  <2> HIDE DEF Fine
  <2>2. QED BY <2>1
<1>3. T = {}
  <2> HIDE DEF T
  <2>1. T \subseteq Nat
    BY DEF T
  <2>2. QED BY <1>1, <1>2, <2>1, Induction
<1>4. \A p, i, s : OnWay(p, i, s, m, n) => s \in Nat
  BY DEF OnWay, At
<1> HIDE DEF Fine
<1>5. Fine(q, j, t)
  BY <1>3, <1>4
<1>6. QED BY <1>5 DEF Fine

LEMMA SeqGrows ==
  ASSUME NEW V
  PROVE  /\ <<>> \in Seq(V)
         /\ \A x \in V : <<x>> \in Seq(V)
         /\ \A t \in Seq(V), x \in V : Append(t, x) \in Seq(V)
OBVIOUS

(* The audit path.                                                         *)
LEMMA PathSeq ==
  ASSUME NEW D, NEW m
  PROVE  \A c \in Cuts : Path(D, m)[c] \in Seq(Digests(D))
<1> DEFINE T == {k \in Nat : \E c \in Cuts : Width(c) <= k /\ Path(D, m)[c] \notin Seq(Digests(D))}
<1>1. 0 \notin T
  BY WidthOf, SizeAssumption
<1>2. ASSUME NEW k \in Nat, k \notin T PROVE k + 1 \notin T
  <2>1. ASSUME NEW c \in Cuts, Width(c) <= k + 1 PROVE Path(D, m)[c] \in Seq(Digests(D))
    <3>1. CASE IsLeaf(c)
      <4>1. Path(D, m)[c] = <<>>
        BY <3>1, PathDef
      <4>2. QED BY <4>1
    <3>2. CASE ~IsLeaf(c)
      <4>1. /\ Left(c) \in Cuts /\ Width(Left(c)) <= k
            /\ Right(c) \in Cuts /\ Width(Right(c)) <= k
        BY <2>1, <3>2, CutParts, WidthOf, SizeAssumption
      <4>2. /\ Path(D, m)[Left(c)] \in Seq(Digests(D)) /\ Path(D, m)[Right(c)] \in Seq(Digests(D))
            /\ Subtree(D)[Left(c)] \in Digests(D) /\ Subtree(D)[Right(c)] \in Digests(D)
        BY <1>2, <4>1 DEF Digests
      <4>3. \/ Path(D, m)[c] = Append(Path(D, m)[Left(c)], Subtree(D)[Right(c)])
            \/ Path(D, m)[c] = Append(Path(D, m)[Right(c)], Subtree(D)[Left(c)])
        BY <3>2, PathDef
      <4>4. QED BY <4>2, <4>3, SeqGrows, Zenon
    <3>3. QED BY <3>1, <3>2
  <2>2. QED BY <2>1
<1>3. T = {}
  <2> HIDE DEF T
  <2>1. T \subseteq Nat
    BY DEF T
  <2>2. QED BY <1>1, <1>2, <2>1, Induction
<1>4. \A c \in Cuts : Width(c) \in Nat
  BY WidthOf, SizeAssumption
<1>5. QED BY <1>3, <1>4

LEMMA PathGrows ==
  ASSUME NEW D, NEW m \in Nat, NEW n \in 1..MaxSize, m < n,
         NEW p, NEW i, NEW s, OnWay(p, i, s, m, n)
  PROVE  Grows(D, Path(D, m), p, i, s, n)
<1> DEFINE c == Cover(2 * p, i \div 2, n)
<1>1. /\ At(p, i, m) /\ At(p, s, n - 1) /\ i \in Nat /\ p \in Nat
      /\ i * p \in Nat /\ i * p <= m /\ (i + 1) * p \in Nat /\ m < (i + 1) * p
  BY DEF OnWay, At, Levels
<1>2. ASSUME i % 2 = 1
      PROVE  Path(D, m)[c] = Append(Path(D, m)[Cover(p, i, n)], Subtree(D)[Cover(p, i - 1, n)])
  <2>1. /\ c \in Cuts /\ ~IsLeaf(c) /\ Middle(c) = i * p
        /\ Left(c) = Cover(p, i - 1, n) /\ Right(c) = Cover(p, i, n)
    BY <1>1, <1>2, AboveOdd
  <2>2. ~(m < Middle(c))
    BY <1>1, <2>1
  <2> HIDE DEF c
  <2>3. Path(D, m)[c] = Append(Path(D, m)[Right(c)], Subtree(D)[Left(c)])
    BY <2>1, <2>2, PathDef
  <2>4. QED BY <2>1, <2>3
<1>3. ASSUME i % 2 = 0, i < s
      PROVE  Path(D, m)[c] = Append(Path(D, m)[Cover(p, i, n)], Subtree(D)[Cover(p, i + 1, n)])
  <2>1. /\ c \in Cuts /\ ~IsLeaf(c) /\ Middle(c) = (i + 1) * p
        /\ Left(c) = Cover(p, i, n) /\ Right(c) = Cover(p, i + 1, n)
    BY <1>1, <1>3, AboveEven
  <2>2. m < Middle(c)
    BY <1>1, <2>1
  <2> HIDE DEF c
  <2>3. Path(D, m)[c] = Append(Path(D, m)[Left(c)], Subtree(D)[Right(c)])
    BY <2>1, <2>2, PathDef
  <2>4. QED BY <2>1, <2>3
<1>4. ASSUME i % 2 = 0, i = s PROVE c = Cover(p, i, n)
  BY <1>1, <1>4, AboveLast
<1> HIDE DEF c
<1>5. QED BY <1>2, <1>3, <1>4 DEF Grows, c

(* The consistency proof of the first m leaves, from the node up that ends *)
(* a full subtree of them: the nodes whose right edge m is are left ones.  *)
Trimmed(m) == {q \in Nat \X Nat : q[2] % 2 = 0 \/ (q[2] + 1) * q[1] # m}

LEMMA SubproofSeq ==
  ASSUME NEW D, NEW m
  PROVE  \A c \in Cuts : Subproof(D, m)[c] \in Seq(Digests(D))
<1> DEFINE T == {k \in Nat : \E c \in Cuts : Width(c) <= k /\ Subproof(D, m)[c] \notin Seq(Digests(D))}
<1>1. 0 \notin T
  BY WidthOf, SizeAssumption
<1>2. ASSUME NEW k \in Nat, k \notin T PROVE k + 1 \notin T
  <2>1. ASSUME NEW c \in Cuts, Width(c) <= k + 1 PROVE Subproof(D, m)[c] \in Seq(Digests(D))
    <3>1. CASE m = c[2] \/ IsLeaf(c)
      <4>1. Subproof(D, m)[c] = <<>> \/ Subproof(D, m)[c] = <<Subtree(D)[c]>>
        BY <3>1, SubproofDef
      <4>2. Subtree(D)[c] \in Digests(D)
        BY DEF Digests
      <4>3. QED BY <4>1, <4>2, SeqGrows, Zenon
    <3>2. CASE ~(m = c[2] \/ IsLeaf(c))
      <4>1. /\ Left(c) \in Cuts /\ Width(Left(c)) <= k
            /\ Right(c) \in Cuts /\ Width(Right(c)) <= k
        BY <2>1, <3>2, CutParts, WidthOf, SizeAssumption
      <4>2. /\ Subproof(D, m)[Left(c)] \in Seq(Digests(D)) /\ Subproof(D, m)[Right(c)] \in Seq(Digests(D))
            /\ Subtree(D)[Left(c)] \in Digests(D) /\ Subtree(D)[Right(c)] \in Digests(D)
        BY <1>2, <4>1 DEF Digests
      <4>3. \/ Subproof(D, m)[c] = Append(Subproof(D, m)[Left(c)], Subtree(D)[Right(c)])
            \/ Subproof(D, m)[c] = Append(Subproof(D, m)[Right(c)], Subtree(D)[Left(c)])
        BY <3>2, SubproofDef
      <4>4. QED BY <4>2, <4>3, SeqGrows, Zenon
    <3>3. QED BY <3>1, <3>2
  <2>2. QED BY <2>1
<1>3. T = {}
  <2> HIDE DEF T
  <2>1. T \subseteq Nat
    BY DEF T
  <2>2. QED BY <1>1, <1>2, <2>1, Induction
<1>4. \A c \in Cuts : Width(c) \in Nat
  BY WidthOf, SizeAssumption
<1>5. QED BY <1>3, <1>4

LEMMA SubproofNotEmpty ==
  ASSUME NEW D, NEW m, NEW c \in Cuts, ~IsLeaf(c), m # c[2]
  PROVE  Subproof(D, m)[c] # <<>>
<1>1. /\ Subproof(D, m)[Left(c)] \in Seq(Digests(D))
      /\ Subproof(D, m)[Right(c)] \in Seq(Digests(D))
  BY CutParts, SubproofSeq
<1>2. ASSUME NEW t \in Seq(Digests(D)), NEW x PROVE Append(t, x) # <<>>
  <2>1. Len(t) \in Nat /\ Len(Append(t, x)) = Len(t) + 1
    OBVIOUS
  <2>2. Len(Append(t, x)) # 0
    BY <2>1
  <2>3. Len(<<>>) = 0
    OBVIOUS
  <2>4. QED BY <2>2, <2>3, Zenon
<1>3. \/ Subproof(D, m)[c] = Append(Subproof(D, m)[Left(c)], Subtree(D)[Right(c)])
      \/ Subproof(D, m)[c] = Append(Subproof(D, m)[Right(c)], Subtree(D)[Left(c)])
  BY SubproofDef
<1>4. QED BY <1>1, <1>2, <1>3

LEMMA SubproofGrows ==
  ASSUME NEW D, NEW m \in Nat \ {0}, NEW n \in 1..MaxSize, m < n,
         NEW p, NEW i, NEW s, <<p, i>> \in Trimmed(m), OnWay(p, i, s, m - 1, n)
  PROVE  /\ Grows(D, Subproof(D, m), p, i, s, n)
         /\ <<2 * p, i \div 2>> \in Trimmed(m)
<1> DEFINE c == Cover(2 * p, i \div 2, n)
           P == Subproof(D, m)
<1>0. m - 1 \in Nat /\ m - 1 < n
  OBVIOUS
<1>1. /\ At(p, i, m - 1) /\ At(p, s, n - 1) /\ i \in Nat /\ p \in Nat \ {0} /\ p \in Levels
      /\ i * p \in Nat /\ i * p <= m - 1 /\ (i + 1) * p \in Nat /\ m - 1 < (i + 1) * p
      /\ i % 2 = 0 \/ (i + 1) * p # m
  BY DEF OnWay, At, Levels, Trimmed
<1>2. ASSUME i % 2 = 1
      PROVE  P[c] = Append(P[Cover(p, i, n)], Subtree(D)[Cover(p, i - 1, n)])
  <2>1. /\ c \in Cuts /\ ~IsLeaf(c) /\ Middle(c) = i * p
        /\ Left(c) = Cover(p, i - 1, n) /\ Right(c) = Cover(p, i, n)
    BY <1>0, <1>1, <1>2, AboveOdd
  <2>2. ~(m <= Middle(c))
    BY <1>1, <2>1
  <2>3. m # c[2]
    <3>1. c[2] = Cover(p, i, n)[2]
      BY <2>1 DEF Right
    <3>2. m < (i + 1) * p
      BY <1>1, <1>2
    <3>3. QED BY <1>1, <3>1, <3>2 DEF Cover
  <2> HIDE DEF c
  <2>4. P[c] = Append(P[Right(c)], Subtree(D)[Left(c)])
    BY <2>1, <2>2, <2>3, SubproofDef
  <2>5. QED BY <2>1, <2>4
<1>3. ASSUME i % 2 = 0, i < s
      PROVE  P[c] = Append(P[Cover(p, i, n)], Subtree(D)[Cover(p, i + 1, n)])
  <2>1. /\ c \in Cuts /\ ~IsLeaf(c) /\ Middle(c) = (i + 1) * p
        /\ Left(c) = Cover(p, i, n) /\ Right(c) = Cover(p, i + 1, n)
        /\ (i + 1) * p < c[2]
    BY <1>0, <1>1, <1>3, AboveEven
  <2>2. m <= Middle(c)
    BY <1>1, <2>1
  <2>3. m # c[2]
    BY <1>1, <2>1
  <2> HIDE DEF c
  <2>4. P[c] = Append(P[Left(c)], Subtree(D)[Right(c)])
    BY <2>1, <2>2, <2>3, SubproofDef
  <2>5. QED BY <2>1, <2>4
<1>4. ASSUME i % 2 = 0, i = s PROVE c = Cover(p, i, n)
  BY <1>1, <1>4, AboveLast
<1>5. <<2 * p, i \div 2>> \in Trimmed(m)
  <2> DEFINE j == i \div 2
  <2>1. j \in Nat /\ (i = 2 * j \/ i = 2 * j + 1)
    BY <1>1
  <2> HIDE DEF j
  <2>2. j * p \in Nat /\ (j + 1) * (2 * p) = 2 * (j * p) + 2 * p
    BY <1>1, <2>1
  <2>3. i = 2 * j => (i + 1) * p = 2 * (j * p) + p
    BY <1>1, <2>1
  <2>4. i = 2 * j + 1 => (i + 1) * p = 2 * (j * p) + 2 * p
    BY <1>1, <2>1
  <2>5. i = 2 * j + 1 => i % 2 = 1
    BY <2>1
  <2>6. (j + 1) * (2 * p) # m
    BY <1>1, <2>1, <2>2, <2>3, <2>4, <2>5
  <2>7. <<2 * p, j>> \in Trimmed(m)
    BY <1>1, <2>1, <2>6 DEF Trimmed
  <2>8. QED BY <2>7 DEF j
<1> HIDE DEF c
<1>6. QED BY <1>2, <1>3, <1>4, <1>5 DEF Grows, c
=============================================================================
