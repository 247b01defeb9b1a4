------------------------- MODULE MerkleVerifyProofs -------------------------
(***************************************************************************)
(* The walk of a Merkle proof stays on the tree, for every request.        *)
(***************************************************************************)
EXTENDS MerkleVerify, TLAPS

OnTree == TypeOK /\ NeverSpins

(* Halving keeps a position on its level; only 0 and 1 halve to 0.         *)
LEMMA Halving ==
  ASSUME NEW a \in Nat, NEW b \in Nat, a <= b
  PROVE  /\ a \div 2 \in Nat /\ b \div 2 \in Nat /\ a \div 2 <= b \div 2
         /\ a % 2 = 0 /\ a # 0 => a \div 2 # 0
OBVIOUS

LEMMA HalveOnTree ==
  ASSUME TypeOK, Halve
  PROVE  fn' \in Nat /\ sn' \in Nat /\ fn' <= sn' /\ (fn % 2 = 0 /\ fn # 0 => fn' # 0)
<1>1. fn \in Nat /\ sn \in Nat /\ fn <= sn
  BY DEF TypeOK
<1>2. QED BY <1>1, Halving DEF Halve

LEMMA OnTreeInit == Init => OnTree
BY RequestAssumption DEF Init, OnTree, TypeOK, NeverSpins

LEMMA OnTreeStep == OnTree /\ [Next]_vars => OnTree'
<1> SUFFICES ASSUME OnTree, [Next]_vars PROVE OnTree'
  OBVIOUS
<1>a. TypeOK /\ NeverSpins
  BY DEF OnTree
<1>b. ASSUME NEW v \in {"accepted", "rejected"}, Return(v) PROVE OnTree'
  BY <1>a, <1>b DEF Return, OnTree, TypeOK, NeverSpins
<1>1. CASE BeginInclusion
  <2>1. CASE /\ InRange
             /\ fn' = request.at /\ sn' = request.size - 1
             /\ pc' = "walk"
             /\ UNCHANGED <<request, verdict>>
    BY <1>1, <1>a, <2>1 DEF BeginInclusion, InRange, OnTree, TypeOK, NeverSpins
  <2>2. QED BY <1>1, <1>b, <2>1 DEF BeginInclusion
<1>2. CASE BeginConsistency
  <2>1. CASE /\ request.at > 0 /\ request.at < request.size
             /\ fn' = request.at - 1 /\ sn' = request.size - 1
             /\ pc' = "trim"
             /\ UNCHANGED <<request, verdict>>
    BY <1>2, <1>a, <2>1 DEF BeginConsistency, OnTree, TypeOK, NeverSpins
  <2>2. QED BY <1>2, <1>b, <2>1 DEF BeginConsistency
<1>3. CASE Trim
  <2>1. CASE fn % 2 = 1 /\ Halve /\ pc' = "trim"
    BY <1>3, <1>a, <2>1, HalveOnTree DEF Trim, OnTree, TypeOK, NeverSpins
  <2>2. CASE pc' = "walk" /\ UNCHANGED <<fn, sn>>
    BY <1>3, <1>a, <2>2 DEF Trim, OnTree, TypeOK, NeverSpins
  <2>3. QED BY <1>3, <2>1, <2>2 DEF Trim
<1>4. CASE Walk
  <2>1. CASE sn # 0 /\ fn % 2 = 0 /\ RightEdge /\ pc' = "climb" /\ UNCHANGED <<fn, sn, request, verdict>>
    <3>1. fn # 0
      BY <1>a, <2>1 DEF RightEdge, TypeOK
    <3>2. QED BY <1>4, <1>a, <2>1, <3>1 DEF Walk, OnTree, TypeOK, NeverSpins
  <2>2. CASE Halve /\ pc' = "walk" /\ UNCHANGED <<request, verdict>>
    BY <1>4, <1>a, <2>2, HalveOnTree DEF Walk, OnTree, TypeOK, NeverSpins
  <2>3. QED BY <1>4, <1>b, <2>1, <2>2 DEF Walk
<1>5. CASE Climb
  <2>1. fn' \in Nat /\ sn' \in Nat /\ fn' <= sn' /\ (fn % 2 = 0 /\ fn # 0 => fn' # 0)
    BY <1>5, <1>a, HalveOnTree DEF Climb
  <2>2. pc' = "climb" /\ request.op = "inclusion" => fn' # 0
    BY <1>5, <1>a, <2>1 DEF Climb, Climbs, NeverSpins
  <2>3. QED BY <1>5, <1>a, <2>1, <2>2 DEF Climb, OnTree, TypeOK, NeverSpins
<1>6. CASE Finish
  BY <1>6, <1>b DEF Finish
<1>7. CASE Done \/ UNCHANGED vars
  BY <1>7, <1>a DEF Done, vars, OnTree, TypeOK, NeverSpins
<1>8. QED
  BY <1>1, <1>2, <1>3, <1>4, <1>5, <1>6, <1>7 DEF Next, Step

(* For every request: the position never leaves its level of the tree.     *)
THEOREM WalkTyped == Spec => []TypeOK
<1>1. OnTree => TypeOK BY DEF OnTree
<1>2. QED BY <1>1, OnTreeInit, OnTreeStep, PTL DEF Spec

(* For every request, of any size and with any path: the inner loop of     *)
(* verify_inclusion, which does not test for 0, is never entered at 0.     *)
THEOREM WalkNeverSpins == Spec => []NeverSpins
<1>1. OnTree => NeverSpins BY DEF OnTree
<1>2. QED BY <1>1, OnTreeInit, OnTreeStep, PTL DEF Spec

-----------------------------------------------------------------------------
(* Termination, but for fairness: each step of a call descends.            *)
Phase == [begin |-> 3, trim |-> 2, walk |-> 1, climb |-> 1, done |-> 0][pc]

Turns == IF pc = "walk" THEN 0 ELSE fn

Descends ==
  \/ Phase' < Phase
  \/ Phase' = Phase /\ Len(rest') < Len(rest)
  \/ Phase' = Phase /\ rest' = rest /\ Turns' < Turns

Finite(Siblings) ==
  /\ OnTree
  /\ request.path \in Seq(Siblings) /\ rest \in Seq(Siblings)
  /\ pc = "climb" => fn # 0
  /\ pc = "trim" => request.path # <<>>

LEMMA FiniteInit ==
  ASSUME NEW Siblings, \A r \in Requests : r.path \in Seq(Siblings)
  PROVE  Init => Finite(Siblings)
<1> SUFFICES ASSUME Init PROVE Finite(Siblings)
  OBVIOUS
<1>1. <<>> \in Seq(Siblings)
  OBVIOUS
<1>2. rest \in Seq(Siblings) /\ request.path \in Seq(Siblings) /\ pc = "begin"
  BY <1>1 DEF Init
<1>3. QED BY <1>2, OnTreeInit DEF Finite

LEMMA FiniteStep ==
  ASSUME NEW Siblings
  PROVE  Finite(Siblings) /\ [Next]_vars => Finite(Siblings)'
<1> SUFFICES ASSUME Finite(Siblings), [Next]_vars PROVE Finite(Siblings)'
  OBVIOUS
<1>a. OnTree'
  BY OnTreeStep DEF Finite
<1>t. fn \in Nat /\ sn \in Nat /\ fn <= sn
  BY DEF Finite, OnTree, TypeOK
<1>p. request.path \in Seq(Siblings) /\ rest \in Seq(Siblings) /\ (pc = "climb" => fn # 0)
  BY DEF Finite
<1>s. \A t \in Seq(Siblings) : t # <<>> => Tail(t) \in Seq(Siblings)
  OBVIOUS
<1>1. CASE BeginInclusion
  BY <1>1, <1>a, <1>p DEF BeginInclusion, Return, Finite
<1>2. CASE BeginConsistency
  BY <1>2, <1>a, <1>p DEF BeginConsistency, Return, Finite
<1>3. CASE Trim
  <2>1. request.path # <<>>
    BY <1>3 DEF Trim, Finite
  <2>2. QED BY <1>3, <1>a, <1>p, <1>s, <2>1 DEF Trim, Finite
<1>4. CASE Walk
  <2>1. pc' = "climb" => fn' # 0
    BY <1>4, <1>t DEF Walk, Return, RightEdge
  <2>2. QED BY <1>4, <1>a, <1>p, <1>s, <2>1 DEF Walk, Return, Finite
<1>5. CASE Climb
  <2>1. pc' = "climb" => fn' # 0
    BY <1>5, <1>t, <1>p DEF Climb, Climbs, Halve
  <2>2. QED BY <1>5, <1>a, <1>p, <2>1 DEF Climb, Finite
<1>6. CASE Finish
  BY <1>6, <1>a, <1>p DEF Finish, Return, Finite
<1>7. CASE Done \/ UNCHANGED vars
  BY <1>7, <1>a, <1>p DEF Done, vars, Finite
<1>8. QED BY <1>1, <1>2, <1>3, <1>4, <1>5, <1>6, <1>7 DEF Next, Step

LEMMA StepDescends ==
  ASSUME NEW Siblings, Finite(Siblings), Step
  PROVE  Descends
<1>t. fn \in Nat /\ sn \in Nat /\ fn <= sn
  BY DEF Finite, OnTree, TypeOK
<1>p. rest \in Seq(Siblings) /\ (pc = "climb" => fn # 0)
  BY DEF Finite
<1>1. CASE BeginInclusion
  BY <1>1 DEF BeginInclusion, Return, Descends, Phase
<1>2. CASE BeginConsistency
  BY <1>2 DEF BeginConsistency, Return, Descends, Phase
<1>3. CASE Trim
  <2>1. CASE fn % 2 = 1 /\ Halve /\ UNCHANGED <<pc, rest>>
    <3>1. fn' < fn
      BY <1>t, <2>1 DEF Halve
    <3>2. QED BY <1>3, <2>1, <3>1 DEF Trim, Descends, Phase, Turns
  <2>2. CASE pc' = "walk"
    BY <1>3, <2>2 DEF Trim, Descends, Phase
  <2>3. QED BY <1>3, <2>1, <2>2 DEF Trim
<1>4. CASE Walk
  <2>1. CASE pc' = "done"
    BY <1>4, <2>1 DEF Walk, Descends, Phase
  <2>2. CASE rest' = Tail(rest) /\ pc' \in {"walk", "climb"}
    <3>1. Len(rest') < Len(rest)
      BY <1>4, <1>p, <2>2 DEF Walk
    <3>2. Phase' = Phase
      BY <1>4, <2>2 DEF Walk, Phase
    <3>3. QED BY <3>1, <3>2 DEF Descends
  <2>3. QED BY <1>4, <2>1, <2>2 DEF Walk, Return
<1>5. CASE Climb
  <2>1. Phase' = Phase /\ rest' = rest
    BY <1>5 DEF Climb, Phase
  <2>2. fn # 0 /\ fn' < fn
    BY <1>5, <1>t, <1>p DEF Climb, Halve
  <2>3. Turns' < Turns
    BY <1>5, <1>t, <2>2 DEF Climb, Turns
  <2>4. QED BY <2>1, <2>3 DEF Descends
<1>6. CASE Finish
  BY <1>6 DEF Finish, Return, Descends, Phase
<1>7. QED BY <1>1, <1>2, <1>3, <1>4, <1>5, <1>6 DEF Step

(* For every request with a path of any length: each iteration of a loop   *)
(* uses a sibling up or halves the position, so that none runs for ever    *)
(* (merkle.py:51-65, 105-107, 119-131).                                    *)
THEOREM WalkDescends ==
  ASSUME NEW Siblings, \A r \in Requests : r.path \in Seq(Siblings)
  PROVE  Spec => [][Step => Descends]_vars
<1>1. Init => Finite(Siblings)
  BY FiniteInit
<1>2. Finite(Siblings) /\ [Next]_vars => Finite(Siblings)'
  BY FiniteStep
<1>3. Finite(Siblings) /\ [Next]_vars => [Step => Descends]_vars
  BY StepDescends
<1>4. QED BY <1>1, <1>2, <1>3, PTL DEF Spec
=============================================================================
