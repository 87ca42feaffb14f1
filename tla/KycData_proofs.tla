---------------------------- MODULE KycData_proofs ----------------------------
(***************************************************************************)
(* Theorems about what becomes of KYC data.                                *)
(*                                                                         *)
(* SelectiveDisclosure: for trees of any fields, a root commits to them,   *)
(* and a proof verifies for what was disclosed and for nothing else.       *)
(* CanonicalJson: for any values, nested to any depth, and objects built   *)
(* in any order, texts are equal where meanings are.  SdkClient: for any   *)
(* callers, requests and number of retries, a call whose accounts are      *)
(* named by its parameters is carried out once at most, and a method that  *)
(* returns was carried out.  The composition keeps what each promises.     *)
(*                                                                         *)
(* The loops and recursions of the code are recursive functions here.  An  *)
(* induction over a set of numbers, a lemma of its own, shows that such a  *)
(* function exists and what it computes, whatever the size of its input.   *)
(***************************************************************************)
EXTENDS MC_KycData, WellFoundedInduction, FiniteSetTheorems, SequenceTheorems, TLAPS

-----------------------------------------------------------------------------
(* Induction, for a set of numbers.                                        *)
LEMMA Induction ==
    ASSUME NEW S, 0 \in S, \A n \in Nat : n \in S => n + 1 \in S
    PROVE  Nat \subseteq S
<1> SUFFICES ASSUME Nat \ S # {} PROVE FALSE
  OBVIOUS
<1>1. PICK x \in Nat \ S : \A y \in Nat \ S : ~(<<y, x>> \in OpToRel(<, Nat))
  BY NatLessThanWellFounded, WFMin
<1>2. x # 0 /\ x - 1 \in Nat /\ x = (x - 1) + 1
  OBVIOUS
<1>3. x - 1 \notin S
  BY <1>2
<1>4. <<x - 1, x>> \in OpToRel(<, Nat)
  BY <1>2 DEF OpToRel
<1> QED
  BY <1>1, <1>2, <1>3, <1>4

(* Induction up to a bound, for loops that run a known number of times.    *)
LEMMA InductionUpTo ==
    ASSUME NEW S, NEW N \in Nat, 0 \in S, \A n \in 0..N : n \in S /\ n < N => n + 1 \in S
    PROVE  0..N \subseteq S
<1> DEFINE T == {n \in Nat : n <= N => n \in S}
<1>1. 0 \in T /\ \A n \in Nat : n \in T => n + 1 \in T
  OBVIOUS
<1> HIDE DEF T
<1>2. Nat \subseteq T
  BY <1>1, Induction
<1> QED
  BY <1>2 DEF T

(* A set of numbers that is not empty has a least.                         *)
LEMMA LeastOf ==
    ASSUME NEW S, S \subseteq Nat, S # {}
    PROVE  \E m \in S : \A n \in S : m <= n
<1>1. PICK m \in S : \A n \in S : ~(<<n, m>> \in OpToRel(<, Nat))
  BY NatLessThanWellFounded, WFMin
<1>2. ASSUME NEW n \in S, n < m
      PROVE  FALSE
  <2>1. <<n, m>> \in OpToRel(<, Nat)
    BY <1>2 DEF OpToRel
  <2> QED
    BY <1>1, <2>1
<1> QED
  BY <1>2

-----------------------------------------------------------------------------
(* Lists: sequences of anything.                                           *)
IsList(s) == Len(s) \in Nat /\ s = [n \in 1..Len(s) |-> s[n]]

(* A function on 1..k is a list of length k.                               *)
LEMMA ListOfLength ==
    ASSUME NEW k \in Nat, NEW s, s = [n \in 1..k |-> s[n]]
    PROVE  IsList(s) /\ Len(s) = k
<1> DEFINE S == {s[n] : n \in 1..k}
<1>1. s \in [1..k -> S]
  OBVIOUS
<1>2. s \in Seq(S)
  BY <1>1, SeqDef
<1>3. DOMAIN s = 1..k /\ DOMAIN s = 1..Len(s) /\ Len(s) \in Nat
  BY <1>1, <1>2, LenProperties
<1>4. Len(s) = k
  BY <1>3
<1> QED
  BY <1>4 DEF IsList

(* A sequence is a list.                                                   *)
LEMMA SequencesAreLists ==
    ASSUME NEW S, NEW s \in Seq(S)
    PROVE  IsList(s)
BY LenProperties DEF IsList

(* Lists of one length and the same elements are equal.                    *)
LEMMA ListsEqual ==
    ASSUME NEW s, NEW t, IsList(s), IsList(t), Len(s) = Len(t),
           \A n \in 1..Len(s) : s[n] = t[n]
    PROVE  s = t
BY DEF IsList

Distinct(s) == \A m, n \in 1..Len(s) : s[m] = s[n] => m = n

-----------------------------------------------------------------------------
(* The next level of a tree.                                               *)
IsLevel(level) == IsList(level) /\ Len(level) # 0

Half(n) == (n + 1) \div 2

(* The next level is shorter, until there is one node.                     *)
LEMMA HalfShrinks ==
    ASSUME NEW n \in Nat \ {0}
    PROVE  Half(n) \in Nat \ {0} /\ 1 \in 1..Half(n) /\ (n = 1 => Half(n) = 1) /\ (n # 1 => Half(n) < n)
BY DEF Half

Pair(level, n) == HashInternal(level[2*n - 1], NodeOr(level, 2*n - 1, 2*n - 2))

(* Every node of the next level is made of a pair of this one, as the loop *)
(* over the pairs does.                                                    *)
LEMMA NextLevelPairs ==
    ASSUME NEW level, IsLevel(level)
    PROVE  /\ IsLevel(NextLevel(level)) /\ Len(NextLevel(level)) = Half(Len(level))
           /\ \A n \in 1..Half(Len(level)) : NextLevel(level)[n] = Pair(level, n)
<1> DEFINE k == Half(Len(level))
<1>1. Len(level) \in Nat /\ k \in Nat /\ k # 0
  BY DEF IsLevel, IsList, Half
<1>2. NextLevel(level) = [n \in 1..k |-> Pair(level, n)]
  BY DEF NextLevel, Half, Pair
<1> HIDE DEF k
<1>3. NextLevel(level) = [n \in 1..k |-> NextLevel(level)[n]]
  BY <1>2
<1>4. IsList(NextLevel(level)) /\ Len(NextLevel(level)) = k
  BY <1>1, <1>3, ListOfLength
<1>5. \A n \in 1..k : NextLevel(level)[n] = Pair(level, n)
  BY <1>2
<1> QED
  BY <1>1, <1>4, <1>5 DEF k, IsLevel

(* A digest is its preimage: parents that are equal have equal children.   *)
LEMMA PairsDiffer ==
    ASSUME NEW a, NEW b, NEW c, NEW d, HashInternal(a, b) = HashInternal(c, d)
    PROVE  a = c /\ b = d
BY DEF HashInternal

(* The nodes of a pair, which are one where the level ends.                *)
LEMMA NodesOfPair ==
    ASSUME NEW level, IsLevel(level), NEW n \in 1..Half(Len(level))
    PROVE  /\ 2*n - 1 \in 1..Len(level)
           /\ 2*n <= Len(level) => Pair(level, n) = HashInternal(level[2*n - 1], level[2*n])
           /\ 2*n > Len(level) => Pair(level, n) = HashInternal(level[2*n - 1], level[2*n - 1])
           /\ 2*n > Len(level) <=> 2*n - 1 = Len(level)
<1>1. Len(level) \in Nat /\ n \in Nat /\ n >= 1 /\ n <= (Len(level) + 1) \div 2
  BY DEF IsLevel, IsList, Half
<1>2. 2*n - 1 \in 1..Len(level) /\ (2*n > Len(level) <=> 2*n - 1 = Len(level))
  BY <1>1
<1>3. (2*n - 1) + 1 = 2*n /\ (2*n - 2) + 1 = 2*n - 1 /\ (2*n - 1 < Len(level) <=> 2*n <= Len(level))
  BY <1>1
<1> QED
  BY <1>1, <1>2, <1>3 DEF Pair, NodeOr

(* Different nodes have different parents, as pairs.                       *)
LEMMA NextLevelDistinct ==
    ASSUME NEW level, IsLevel(level), Distinct(level)
    PROVE  Distinct(NextLevel(level))
<1>1. ASSUME NEW m \in 1..Half(Len(level)), NEW n \in 1..Half(Len(level)),
             Pair(level, m) = Pair(level, n)
      PROVE  m = n
  <2>1. level[2*m - 1] = level[2*n - 1]
    BY <1>1, PairsDiffer DEF Pair
  <2>2. 2*m - 1 = 2*n - 1
    BY <2>1, NodesOfPair DEF Distinct
  <2>3. m \in Int /\ n \in Int
    OBVIOUS
  <2> QED
    BY <2>2, <2>3
<1> QED
  BY <1>1, NextLevelPairs DEF Distinct

(* A level of different nodes follows from the next: where it has an odd   *)
(* length, its last pair is the one of a node with itself.                 *)
LEMMA NextLevelCommits ==
    ASSUME NEW a, NEW b, IsLevel(a), IsLevel(b), Distinct(a), Distinct(b),
           NextLevel(a) = NextLevel(b)
    PROVE  a = b
<1> DEFINE k == Half(Len(a))
<1>1. Half(Len(b)) = k /\ \A n \in 1..k : Pair(a, n) = Pair(b, n)
  BY NextLevelPairs
<1>2. Len(a) \in Nat \ {0} /\ Len(b) \in Nat \ {0} /\ k \in 1..k
  BY DEF IsLevel, IsList, Half
<1>3. \A n \in 1..k : a[2*n - 1] = b[2*n - 1]
  BY <1>1, PairsDiffer DEF Pair
<1>4. \A n \in 1..k : (2*n <= Len(a)) = (2*n <= Len(b))
  <2> TAKE n \in 1..k
  <2>1. CASE 2*n <= Len(a) /\ 2*n > Len(b)
    <3>1. a[2*n - 1] = a[2*n]
      BY <1>1, <2>1, NodesOfPair, PairsDiffer
    <3>2. 2*n - 1 \in 1..Len(a) /\ 2*n \in 1..Len(a) /\ 2*n - 1 # 2*n
      BY <1>2, <2>1, NodesOfPair
    <3> QED
      BY <3>1, <3>2 DEF Distinct
  <2>2. CASE 2*n > Len(a) /\ 2*n <= Len(b)
    <3>1. b[2*n - 1] = b[2*n]
      BY <1>1, <2>2, NodesOfPair, PairsDiffer
    <3>2. 2*n - 1 \in 1..Len(b) /\ 2*n \in 1..Len(b) /\ 2*n - 1 # 2*n
      BY <1>1, <1>2, <2>2, NodesOfPair
    <3> QED
      BY <3>1, <3>2 DEF Distinct
  <2> QED
    BY <1>2, <2>1, <2>2
<1>5. Len(a) = Len(b)
  BY <1>1, <1>2, <1>4 DEF Half
<1>6. ASSUME NEW n \in 1..k, 2*n <= Len(a)
      PROVE  a[2*n] = b[2*n]
  BY <1>1, <1>5, <1>6, NodesOfPair, PairsDiffer
<1>7. ASSUME NEW j \in 1..Len(a)
      PROVE  a[j] = b[j]
  <2>1. PICK n \in 1..k : j = 2*n - 1 \/ j = 2*n
    <3>1. Half(j) \in 1..k /\ (j = 2*Half(j) - 1 \/ j = 2*Half(j))
      BY <1>2 DEF Half
    <3> QED
      BY <3>1
  <2>2. CASE j = 2*n - 1
    BY <1>3, <2>2
  <2>3. CASE j = 2*n
    <3>1. 2*n <= Len(a)
      BY <1>2, <2>3
    <3> QED
      BY <1>6, <2>3, <3>1
  <2> QED
    BY <2>1, <2>2, <2>3
<1> QED
  BY <1>5, <1>7, ListsEqual DEF IsLevel

-----------------------------------------------------------------------------
(* The levels of a tree.                                                   *)
LevelStep(level, leaves, h) == IF h = 0 THEN leaves ELSE NextLevel(level[h - 1])

LevelRule(level, leaves, k) == level = [h \in 0..k |-> LevelStep(level, leaves, h)]

(* The levels of the loop: the leaves, and each the next of the one        *)
(* before.                                                                 *)
LEMMA LevelsExist ==
    ASSUME NEW leaves, Len(leaves) \in Nat
    PROVE  /\ Levels(leaves)[0] = leaves
           /\ \A h \in 1..Len(leaves) : Levels(leaves)[h] = NextLevel(Levels(leaves)[h - 1])
<1> DEFINE T == {k \in Nat : \E f : LevelRule(f, leaves, k)}
<1>1. 0 \in T
  <2> DEFINE f == [h \in 0..0 |-> leaves]
  <2>1. LevelRule(f, leaves, 0)
    BY DEF LevelRule, LevelStep
  <2> QED
    BY <2>1
<1>2. ASSUME NEW k \in Nat, k \in T
      PROVE  k + 1 \in T
  <2>1. PICK f : LevelRule(f, leaves, k)
    BY <1>2
  <2> DEFINE g == [h \in 0..k + 1 |-> LevelStep(f, leaves, h)]
  <2>2. \A h \in 0..k : g[h] = f[h]
    BY <2>1 DEF LevelRule
  <2> HIDE DEF g
  <2>3. \A h \in 0..k + 1 : LevelStep(g, leaves, h) = LevelStep(f, leaves, h)
    BY <2>2 DEF LevelStep
  <2>4. LevelRule(g, leaves, k + 1)
    BY <2>3 DEF LevelRule, g
  <2> QED
    BY <2>4
<1> HIDE DEF T
<1>3. Len(leaves) \in T
  BY <1>1, <1>2, Induction
<1>4. \E f : LevelRule(f, leaves, Len(leaves))
  BY <1>3 DEF T
<1>5. Levels(leaves) = CHOOSE f : LevelRule(f, leaves, Len(leaves))
  BY DEF Levels, LevelRule, LevelStep
<1>6. LevelRule(Levels(leaves), leaves, Len(leaves))
  BY <1>4, <1>5
<1>7. \A h \in 0..Len(leaves) : Levels(leaves)[h] = LevelStep(Levels(leaves), leaves, h)
  BY <1>6 DEF LevelRule
<1> QED
  BY <1>7 DEF LevelStep

(* Every level is one of different nodes, and shorter than the one below   *)
(* until there is one node.                                                *)
LEMMA LevelsShrink ==
    ASSUME NEW leaves, IsLevel(leaves), Distinct(leaves), NEW h \in 0..Len(leaves)
    PROVE  /\ IsLevel(Levels(leaves)[h]) /\ Distinct(Levels(leaves)[h])
           /\ Len(Levels(leaves)[h]) = 1 \/ Len(Levels(leaves)[h]) <= Len(leaves) - h
<1> DEFINE N == Len(leaves)
           Good(k) == /\ IsLevel(Levels(leaves)[k]) /\ Distinct(Levels(leaves)[k])
                      /\ Len(Levels(leaves)[k]) = 1 \/ Len(Levels(leaves)[k]) <= N - k
           T == {k \in 0..N : Good(k)}
<1>1. N \in Nat
  BY DEF IsLevel, IsList
<1>2. Good(0)
  BY <1>1, LevelsExist
<1>3. ASSUME NEW k \in 0..N, Good(k), k < N
      PROVE  Good(k + 1)
  <2> DEFINE below == Levels(leaves)[k]
             above == Levels(leaves)[k + 1]
  <2>1. above = NextLevel(below)
    BY <1>1, <1>3, LevelsExist
  <2>2. IsLevel(above) /\ Distinct(above) /\ Len(above) = Half(Len(below))
    BY <1>3, <2>1, NextLevelPairs, NextLevelDistinct
  <2>3. Len(below) \in Nat \ {0} /\ (Len(below) = 1 \/ Len(below) <= N - k)
    BY <1>3 DEF IsLevel, IsList
  <2> HIDE DEF below, above
  <2>4. Len(above) = 1 \/ Len(above) <= N - (k + 1)
    <3>1. Len(above) \in Nat /\ (Len(below) = 1 => Len(above) = 1) /\ (Len(below) # 1 => Len(above) < Len(below))
      BY <2>2, <2>3, HalfShrinks
    <3> QED
      BY <1>1, <2>3, <3>1
  <2> QED
    BY <2>2, <2>4 DEF above
<1> HIDE DEF Good
<1>4. 0 \in T /\ \A k \in 0..N : k \in T /\ k < N => k + 1 \in T
  BY <1>1, <1>2, <1>3
<1> HIDE DEF T
<1>5. h \in T
  BY <1>1, <1>4, InductionUpTo
<1> QED
  BY <1>5 DEF T, Good

IsHeight(leaves, h) ==
    /\ h \in 0..Len(leaves) /\ Len(Levels(leaves)[h]) = 1
    /\ \A l \in 0..h - 1 : Len(Levels(leaves)[l]) > 1

(* The loop ends.                                                          *)
LEMMA HeightExists ==
    ASSUME NEW leaves, IsLevel(leaves), Distinct(leaves)
    PROVE  IsHeight(leaves, Height(leaves))
<1> DEFINE N == Len(leaves)
           S == {h \in 0..N : Len(Levels(leaves)[h]) = 1}
<1>1. N \in Nat
  BY DEF IsLevel, IsList
<1>2. \A h \in 0..N : Len(Levels(leaves)[h]) \in Nat \ {0}
  BY LevelsShrink DEF IsLevel, IsList
<1>3. N \in S
  BY <1>1, <1>2, LevelsShrink
<1>4. PICK m \in S : \A n \in S : m <= n
  <2>1. S \subseteq Nat /\ S # {}
    BY <1>1, <1>3
  <2> HIDE DEF S
  <2> QED
    BY <2>1, LeastOf
<1>5. IsHeight(leaves, m)
  <2>1. m \in 0..N /\ Len(Levels(leaves)[m]) = 1
    BY <1>4
  <2>2. ASSUME NEW l \in 0..m - 1
        PROVE  Len(Levels(leaves)[l]) > 1
    <3>1. l \in 0..N /\ ~(m <= l)
      BY <1>1, <2>1
    <3>2. Len(Levels(leaves)[l]) # 1
      BY <1>4, <3>1
    <3>3. PICK n \in Nat \ {0} : n = Len(Levels(leaves)[l])
      BY <1>2, <3>1
    <3>4. n # 1
      BY <3>2, <3>3
    <3>5. n > 1
      BY <3>4
    <3> QED
      BY <3>3, <3>5, Zenon
  <2> QED
    BY <2>1, <2>2 DEF IsHeight
<1>6. Height(leaves) = CHOOSE h : IsHeight(leaves, h)
  BY Zenon DEF Height, IsHeight
<1> QED
  BY <1>5, <1>6

(* The one node of the tree's last level.                                  *)
RootOver(leaves) == Levels(leaves)[Height(leaves)][1]

IsLeaves(leaves) ==
    /\ IsLevel(leaves) /\ Distinct(leaves)
    /\ \A n \in 1..Len(leaves) : \E name, v : leaves[n] = HashLeaf(name, v)

(* No inner node is a leaf.                                                *)
LEMMA NodesAreNoLeaves ==
    ASSUME NEW leaves, IsLeaves(leaves), NEW h \in 1..Len(leaves), NEW name, NEW v
    PROVE  Levels(leaves)[h][1] # HashLeaf(name, v)
<1> DEFINE below == Levels(leaves)[h - 1]
<1>1. Levels(leaves)[h] = NextLevel(below) /\ IsLevel(below)
  <2>1. Len(leaves) \in Nat /\ h - 1 \in 0..Len(leaves)
    BY DEF IsLeaves, IsLevel, IsList
  <2> QED
    BY <2>1, LevelsExist, LevelsShrink DEF IsLeaves
<1>2. NextLevel(below)[1] = Pair(below, 1)
  <2>1. 1 \in 1..Half(Len(below))
    BY <1>1, HalfShrinks DEF IsLevel, IsList
  <2> QED
    BY <1>1, <2>1, NextLevelPairs
<1> QED
  BY <1>1, <1>2 DEF Pair, HashInternal, HashLeaf

(* A root commits to the leaves below it, in trees of any two heights.     *)
LEMMA RootCommitsToLeaves ==
    ASSUME NEW a, NEW b, IsLeaves(a), IsLeaves(b), RootOver(a) = RootOver(b)
    PROVE  a = b
<1> DEFINE H == Height(a)
           K == Height(b)
           Agree(n) == n <= H /\ n <= K => Levels(a)[H - n] = Levels(b)[K - n]
           T == {n \in Nat : Agree(n)}
<1>1. /\ H \in 0..Len(a) /\ Len(Levels(a)[H]) = 1
      /\ K \in 0..Len(b) /\ Len(Levels(b)[K]) = 1
  BY HeightExists DEF IsLeaves, IsHeight
<1>2. Len(a) \in Nat \ {0} /\ Len(b) \in Nat \ {0} /\ H \in Nat /\ K \in Nat
  BY <1>1 DEF IsLeaves, IsLevel, IsList
<1>3. /\ \A h \in 0..Len(a) : IsLevel(Levels(a)[h]) /\ Distinct(Levels(a)[h])
      /\ \A h \in 0..Len(b) : IsLevel(Levels(b)[h]) /\ Distinct(Levels(b)[h])
  BY LevelsShrink DEF IsLeaves
<1>4. Levels(a)[H] = Levels(b)[K]
  <2>1. IsList(Levels(a)[H]) /\ IsList(Levels(b)[K])
    BY <1>1, <1>3 DEF IsLevel
  <2>2. Levels(a)[H][1] = Levels(b)[K][1]
    BY DEF RootOver
  <2> QED
    BY <1>1, <2>1, <2>2, ListsEqual
<1> HIDE DEF H, K
<1>5. Agree(0)
  BY <1>2, <1>4
<1>6. ASSUME NEW n \in Nat, Agree(n)
      PROVE  Agree(n + 1)
  <2> SUFFICES ASSUME n + 1 <= H, n + 1 <= K
               PROVE  Levels(a)[H - (n + 1)] = Levels(b)[K - (n + 1)]
    OBVIOUS
  <2> DEFINE h == H - (n + 1)
             k == K - (n + 1)
  <2>1. /\ h \in 0..Len(a) /\ h + 1 \in 1..Len(a) /\ h + 1 = H - n
        /\ k \in 0..Len(b) /\ k + 1 \in 1..Len(b) /\ k + 1 = K - n
    BY <1>1, <1>2
  <2>2. Levels(a)[h + 1] = Levels(b)[k + 1]
    BY <1>2, <1>6, <2>1
  <2>3. (h + 1) - 1 = h /\ (k + 1) - 1 = k
    BY <2>1
  <2> HIDE DEF h, k
  <2>4. Levels(a)[h + 1] = NextLevel(Levels(a)[h]) /\ Levels(b)[k + 1] = NextLevel(Levels(b)[k])
    BY <1>2, <2>1, <2>3, LevelsExist
  <2>5. Levels(a)[h] = Levels(b)[k]
    BY <1>3, <2>1, <2>2, <2>4, NextLevelCommits
  <2> QED
    BY <2>5 DEF h, k
<1> HIDE DEF Agree
<1>7. \A n \in Nat : Agree(n)
  <2>1. 0 \in T /\ \A n \in Nat : n \in T => n + 1 \in T
    BY <1>5, <1>6
  <2> HIDE DEF T
  <2>2. Nat \subseteq T
    BY <2>1, Induction
  <2> QED
    BY <2>2 DEF T
<1>8. /\ \E name, v : a[1] = HashLeaf(name, v)
      /\ \E name, v : b[1] = HashLeaf(name, v)
      /\ Levels(a)[0] = a /\ Levels(b)[0] = b
  BY <1>2, LevelsExist DEF IsLeaves
<1>9. CASE H < K
  <2>1. a = Levels(b)[K - H] /\ K - H \in 1..Len(b)
    <3>1. Agree(H)
      BY <1>2, <1>7
    <3> QED
      BY <1>1, <1>2, <1>8, <1>9, <3>1 DEF Agree
  <2> QED
    BY <1>8, <2>1, NodesAreNoLeaves
<1>10. CASE K < H
  <2>1. b = Levels(a)[H - K] /\ H - K \in 1..Len(a)
    <3>1. Agree(K)
      BY <1>2, <1>7
    <3> QED
      BY <1>1, <1>2, <1>8, <1>10, <3>1 DEF Agree
  <2> QED
    BY <1>8, <2>1, NodesAreNoLeaves
<1>11. CASE H = K
  <2>1. Agree(H)
    BY <1>2, <1>7
  <2> QED
    BY <1>2, <1>8, <1>11, <2>1 DEF Agree
<1> QED
  BY <1>2, <1>9, <1>10, <1>11

-----------------------------------------------------------------------------
(* Paths.  The recursive functions of the path: the indices of a leaf's    *)
(* ancestors, and the hashes on the way up.                                *)
IndexStep(index, leafIndex, h) == IF h = 1 THEN leafIndex ELSE index[h - 1] \div 2

IndexRule(index, leafIndex, k) == index = [h \in 1..k |-> IndexStep(index, leafIndex, h)]

(* The index halves from level to level.                                   *)
LEMMA IndicesExist ==
    ASSUME NEW tree, NEW leafIndex, Len(tree) \in Nat \ {0}
    PROVE  /\ Indices(tree, leafIndex)[1] = leafIndex
           /\ \A h \in 2..Len(tree) :
                 Indices(tree, leafIndex)[h] = Indices(tree, leafIndex)[h - 1] \div 2
<1> DEFINE T == {k \in Nat : \E f : IndexRule(f, leafIndex, k)}
<1>1. 0 \in T
  <2> DEFINE f == [h \in 1..0 |-> leafIndex]
  <2>1. IndexRule(f, leafIndex, 0)
    BY DEF IndexRule
  <2> QED
    BY <2>1
<1>2. ASSUME NEW k \in Nat, k \in T
      PROVE  k + 1 \in T
  <2>1. PICK f : IndexRule(f, leafIndex, k)
    BY <1>2
  <2> DEFINE g == [h \in 1..k + 1 |-> IndexStep(f, leafIndex, h)]
  <2>2. \A h \in 1..k : g[h] = f[h]
    BY <2>1 DEF IndexRule
  <2> HIDE DEF g
  <2>3. \A h \in 1..k + 1 : IndexStep(g, leafIndex, h) = IndexStep(f, leafIndex, h)
    BY <2>2 DEF IndexStep
  <2>4. IndexRule(g, leafIndex, k + 1)
    BY <2>3 DEF IndexRule, g
  <2> QED
    BY <2>4
<1> HIDE DEF T
<1>3. Len(tree) \in T
  BY <1>1, <1>2, Induction
<1>4. \E f : IndexRule(f, leafIndex, Len(tree))
  BY <1>3 DEF T
<1>5. Indices(tree, leafIndex) = CHOOSE f : IndexRule(f, leafIndex, Len(tree))
  BY DEF Indices, IndexRule, IndexStep
<1>6. IndexRule(Indices(tree, leafIndex), leafIndex, Len(tree))
  BY <1>4, <1>5
<1>7. \A h \in 1..Len(tree) :
         Indices(tree, leafIndex)[h] = IndexStep(Indices(tree, leafIndex), leafIndex, h)
  BY <1>6 DEF IndexRule
<1> QED
  BY <1>7 DEF IndexStep

WalkStep(hash, leafHash, siblings, n) ==
    IF n = 0 THEN leafHash ELSE Combined(hash[n - 1], siblings[n])

WalkRule(hash, leafHash, siblings, k) ==
    hash = [n \in 0..k |-> WalkStep(hash, leafHash, siblings, n)]

(* The hash of a verification starts with the leaf and takes in the        *)
(* siblings one by one.                                                    *)
LEMMA WalkExists ==
    ASSUME NEW leafHash, NEW siblings, Len(siblings) \in Nat
    PROVE  /\ Walk(leafHash, siblings)[0] = leafHash
           /\ \A n \in 1..Len(siblings) :
                 Walk(leafHash, siblings)[n] = Combined(Walk(leafHash, siblings)[n - 1], siblings[n])
<1> DEFINE T == {k \in Nat : \E f : WalkRule(f, leafHash, siblings, k)}
<1>1. 0 \in T
  <2> DEFINE f == [n \in 0..0 |-> leafHash]
  <2>1. WalkRule(f, leafHash, siblings, 0)
    BY DEF WalkRule, WalkStep
  <2> QED
    BY <2>1
<1>2. ASSUME NEW k \in Nat, k \in T
      PROVE  k + 1 \in T
  <2>1. PICK f : WalkRule(f, leafHash, siblings, k)
    BY <1>2
  <2> DEFINE g == [n \in 0..k + 1 |-> WalkStep(f, leafHash, siblings, n)]
  <2>2. \A n \in 0..k : g[n] = f[n]
    BY <2>1 DEF WalkRule
  <2> HIDE DEF g
  <2>3. \A n \in 0..k + 1 : WalkStep(g, leafHash, siblings, n) = WalkStep(f, leafHash, siblings, n)
    BY <2>2 DEF WalkStep
  <2>4. WalkRule(g, leafHash, siblings, k + 1)
    BY <2>3 DEF WalkRule, g
  <2> QED
    BY <2>4
<1> HIDE DEF T
<1>3. Len(siblings) \in T
  BY <1>1, <1>2, Induction
<1>4. \E f : WalkRule(f, leafHash, siblings, Len(siblings))
  BY <1>3 DEF T
<1>5. Walk(leafHash, siblings) = CHOOSE f : WalkRule(f, leafHash, siblings, Len(siblings))
  BY DEF Walk, WalkRule, WalkStep
<1>6. WalkRule(Walk(leafHash, siblings), leafHash, siblings, Len(siblings))
  BY <1>4, <1>5
<1>7. \A n \in 0..Len(siblings) :
         Walk(leafHash, siblings)[n] = WalkStep(Walk(leafHash, siblings), leafHash, siblings, n)
  BY <1>6 DEF WalkRule
<1> QED
  BY <1>7 DEF WalkStep

(* A node and its sibling make their parent, the node itself where it is   *)
(* the last of a level of odd length.                                      *)
LEMMA SiblingsMakeTheParent ==
    ASSUME NEW level, IsLevel(level), NEW i \in 0..Len(level) - 1
    PROVE  /\ i \div 2 \in 0..Half(Len(level)) - 1
           /\ Combined(level[i + 1], Sibling(level, i)) = NextLevel(level)[i \div 2 + 1]
<1> DEFINE n == i \div 2 + 1
<1>1. Len(level) \in Nat /\ i \in Nat /\ i < Len(level)
  BY DEF IsLevel, IsList
<1>2. i \div 2 \in 0..Half(Len(level)) - 1 /\ n \in 1..Half(Len(level))
  BY <1>1 DEF Half
<1>3. (i % 2 = 1 /\ i = 2*n - 1) \/ (i % 2 = 0 /\ i = 2*n - 2)
  BY <1>1
<1>4. NextLevel(level)[n] = Pair(level, n)
  BY <1>2, NextLevelPairs
<1>5. n \in Nat
  BY <1>1
<1> HIDE DEF n
<1>6. CASE i % 2 = 1 /\ i = 2*n - 1
  <2>1. Sibling(level, i) = [hash |-> level[2*n - 1], position |-> "left"]
    BY <1>6 DEF Sibling
  <2>2. 2*n <= Len(level) /\ i + 1 = 2*n
    BY <1>1, <1>5, <1>6
  <2>3. Pair(level, n) = HashInternal(level[2*n - 1], level[2*n])
    BY <1>2, <2>2, NodesOfPair
  <2>4. Combined(level[i + 1], Sibling(level, i)) = HashInternal(level[2*n - 1], level[2*n])
    BY <2>1, <2>2 DEF Combined
  <2> QED
    BY <1>2, <1>4, <2>3, <2>4 DEF n
<1>7. CASE i % 2 = 0 /\ i = 2*n - 2
  <2>1. Sibling(level, i) = [hash |-> NodeOr(level, 2*n - 1, 2*n - 2), position |-> "right"]
    <3>1. i % 2 # 1 /\ i + 1 = 2*n - 1
      BY <1>5, <1>7
    <3> QED
      BY <1>7, <3>1 DEF Sibling
  <2>2. i + 1 = 2*n - 1
    BY <1>5, <1>7
  <2>3. Combined(level[i + 1], Sibling(level, i)) = Pair(level, n)
    BY <2>1, <2>2 DEF Combined, Pair
  <2> QED
    BY <1>2, <1>4, <2>3 DEF n
<1> QED
  BY <1>3, <1>6, <1>7

TreeOver(leaves) == [n \in 1..Height(leaves) + 1 |-> Levels(leaves)[n - 1]]

(* The path of a leaf leads to the root.                                   *)
LEMMA PathLeadsToRoot ==
    ASSUME NEW leaves, IsLeaves(leaves), NEW i \in 0..Len(leaves) - 1,
           NEW siblings, siblings = CollectSiblings(TreeOver(leaves), i)
    PROVE  /\ Len(siblings) \in Nat
           /\ Walk(leaves[i + 1], siblings)[Len(siblings)] = RootOver(leaves)
           /\ GetMerkleRoot(TreeOver(leaves)) = RootOver(leaves)
           /\ TreeOver(leaves)[1] = leaves
<1> DEFINE H == Height(leaves)
           tree == TreeOver(leaves)
           index == Indices(tree, i)
           hash == Walk(leaves[i + 1], siblings)
           Reached(n) == /\ index[n + 1] \in 0..Len(Levels(leaves)[n]) - 1
                         /\ hash[n] = Levels(leaves)[n][index[n + 1] + 1]
           T == {n \in 0..H : Reached(n)}
<1>1. /\ H \in 0..Len(leaves) /\ Len(Levels(leaves)[H]) = 1
      /\ Len(leaves) \in Nat /\ H \in Nat
  BY HeightExists DEF IsLeaves, IsLevel, IsList, IsHeight
<1>2. \A h \in 0..Len(leaves) : IsLevel(Levels(leaves)[h])
  BY LevelsShrink DEF IsLeaves
<1>3. /\ Levels(leaves)[0] = leaves
      /\ \A h \in 1..Len(leaves) : Levels(leaves)[h] = NextLevel(Levels(leaves)[h - 1])
  BY <1>1, LevelsExist
<1> HIDE DEF H
<1>4. Len(tree) = H + 1 /\ \A n \in 0..H : tree[n + 1] = Levels(leaves)[n]
  <2>1. tree = [n \in 1..H + 1 |-> Levels(leaves)[n - 1]]
    BY DEF TreeOver, H
  <2> HIDE DEF tree
  <2>2. tree = [n \in 1..H + 1 |-> tree[n]] /\ H + 1 \in Nat
    BY <1>1, <2>1
  <2>3. \A n \in 0..H : n + 1 \in 1..H + 1 /\ (n + 1) - 1 = n
    BY <1>1
  <2> QED
    BY <2>1, <2>2, <2>3, ListOfLength
<1> HIDE DEF tree
<1>5. index[1] = i /\ \A h \in 2..H + 1 : index[h] = index[h - 1] \div 2
  BY <1>1, <1>4, IndicesExist
<1>6. Len(siblings) = H /\ \A h \in 1..H : siblings[h] = Sibling(tree[h], index[h])
  <2>1. Len(tree) - 1 = H
    BY <1>1, <1>4
  <2>2. siblings = [h \in 1..H |-> Sibling(tree[h], index[h])]
    BY <2>1 DEF CollectSiblings, tree
  <2>3. siblings = [h \in 1..H |-> siblings[h]]
    BY <2>2
  <2> QED
    BY <1>1, <2>2, <2>3, ListOfLength
<1> HIDE DEF index
<1>7. hash[0] = leaves[i + 1] /\ \A n \in 1..H : hash[n] = Combined(hash[n - 1], siblings[n])
  BY <1>1, <1>6, WalkExists
<1> HIDE DEF hash
<1>8. Reached(0)
  BY <1>3, <1>5, <1>7
<1>9. ASSUME NEW n \in 0..H, Reached(n), n < H
      PROVE  Reached(n + 1)
  <2> DEFINE level == Levels(leaves)[n]
             j == index[n + 1]
  <2>1. /\ n \in 0..Len(leaves) /\ n + 1 \in 1..Len(leaves) /\ n + 1 \in 1..H
        /\ n + 2 \in 2..H + 1 /\ (n + 1) - 1 = n /\ (n + 2) - 1 = n + 1 /\ (n + 1) + 1 = n + 2
    BY <1>1, <1>9
  <2>2. IsLevel(level) /\ Levels(leaves)[n + 1] = NextLevel(level)
    BY <1>2, <1>3, <2>1
  <2>3. j \in 0..Len(level) - 1 /\ hash[n] = level[j + 1]
    BY <1>9
  <2>4. index[n + 2] = j \div 2
    BY <1>5, <2>1
  <2>5. hash[n + 1] = Combined(level[j + 1], Sibling(level, j))
    BY <1>4, <1>6, <1>7, <2>1, <2>3
  <2> HIDE DEF level, j
  <2>6. /\ j \div 2 \in 0..Half(Len(level)) - 1
        /\ hash[n + 1] = NextLevel(level)[j \div 2 + 1]
    BY <2>2, <2>3, <2>5, SiblingsMakeTheParent
  <2>7. Len(NextLevel(level)) = Half(Len(level))
    BY <2>2, NextLevelPairs
  <2> QED
    BY <2>1, <2>2, <2>4, <2>6, <2>7
<1> HIDE DEF Reached
<1>10. 0 \in T /\ \A n \in 0..H : n \in T /\ n < H => n + 1 \in T
  BY <1>1, <1>8, <1>9
<1> HIDE DEF T
<1>11. Reached(H)
  <2>1. 0..H \subseteq T
    BY <1>1, <1>10, InductionUpTo
  <2>2. H \in T
    BY <1>1, <2>1
  <2> QED
    BY <2>2 DEF T
<1>12. hash[H] = RootOver(leaves)
  <2>1. index[H + 1] = 0 /\ hash[H] = Levels(leaves)[H][index[H + 1] + 1]
    BY <1>1, <1>11 DEF Reached
  <2> QED
    BY <2>1 DEF RootOver, H
<1>13. GetMerkleRoot(tree) = RootOver(leaves) /\ tree[1] = leaves
  <2>1. tree[H + 1] = Levels(leaves)[H] /\ tree[1] = Levels(leaves)[0]
    BY <1>1, <1>4
  <2> QED
    BY <1>3, <1>4, <2>1 DEF GetMerkleRoot, RootOver, H
<1> QED
  BY <1>1, <1>6, <1>12, <1>13 DEF hash, tree

-----------------------------------------------------------------------------
(* Names in order.                                                         *)
Members(s) == {s[n] : n \in 1..Len(s)}

SelectionStep(selected, order, S, n) ==
    IF n = 0 THEN <<>>
    ELSE IF order[n] \in S THEN Append(selected[n - 1], order[n])
    ELSE selected[n - 1]

SelectionRule(selected, order, S, k) ==
    selected = [n \in 0..k |-> SelectionStep(selected, order, S, n)]

(* Going through the names selects each that is in the set.                *)
LEMMA SelectionsExist ==
    ASSUME NEW order, NEW S, Len(order) \in Nat
    PROVE  /\ Selections(order, S)[0] = <<>>
           /\ \A n \in 1..Len(order) :
                 Selections(order, S)[n] = IF order[n] \in S
                                           THEN Append(Selections(order, S)[n - 1], order[n])
                                           ELSE Selections(order, S)[n - 1]
<1> DEFINE T == {k \in Nat : \E f : SelectionRule(f, order, S, k)}
<1>1. 0 \in T
  <2> DEFINE f == [n \in 0..0 |-> <<>>]
  <2>1. SelectionRule(f, order, S, 0)
    BY DEF SelectionRule, SelectionStep
  <2> QED
    BY <2>1
<1>2. ASSUME NEW k \in Nat, k \in T
      PROVE  k + 1 \in T
  <2>1. PICK f : SelectionRule(f, order, S, k)
    BY <1>2
  <2> DEFINE g == [n \in 0..k + 1 |-> SelectionStep(f, order, S, n)]
  <2>2. \A n \in 0..k : g[n] = f[n]
    BY <2>1 DEF SelectionRule
  <2> HIDE DEF g
  <2>3. \A n \in 0..k + 1 : SelectionStep(g, order, S, n) = SelectionStep(f, order, S, n)
    BY <2>2 DEF SelectionStep
  <2>4. SelectionRule(g, order, S, k + 1)
    BY <2>3 DEF SelectionRule, g
  <2> QED
    BY <2>4
<1> HIDE DEF T
<1>3. Len(order) \in T
  BY <1>1, <1>2, Induction
<1>4. \E f : SelectionRule(f, order, S, Len(order))
  BY <1>3 DEF T
<1>5. Selections(order, S) = CHOOSE f : SelectionRule(f, order, S, Len(order))
  BY DEF Selections, SelectionRule, SelectionStep
<1>6. SelectionRule(Selections(order, S), order, S, Len(order))
  BY <1>4, <1>5
<1>7. \A n \in 0..Len(order) :
         Selections(order, S)[n] = SelectionStep(Selections(order, S), order, S, n)
  BY <1>6 DEF SelectionRule
<1> QED
  BY <1>7 DEF SelectionStep

(* The members of what was selected so far, each once.                     *)
LEMMA SelectedSoFar ==
    ASSUME NEW U, NEW order \in Seq(U), Distinct(order), NEW S, NEW k \in 0..Len(order)
    PROVE  /\ Selections(order, S)[k] \in Seq(U)
           /\ Members(Selections(order, S)[k]) = S \cap {order[m] : m \in 1..k}
           /\ Distinct(Selections(order, S)[k])
<1> DEFINE N == Len(order)
           sel(n) == Selections(order, S)[n]
           Good(n) == /\ sel(n) \in Seq(U)
                      /\ \A x : x \in Members(sel(n)) <=> x \in S /\ \E m \in 1..n : x = order[m]
                      /\ Distinct(sel(n))
           T == {n \in 0..N : Good(n)}
<1>1. N \in Nat
  BY LenProperties
<1>2. Good(0)
  <2>1. sel(0) = <<>>
    BY <1>1, SelectionsExist
  <2>2. <<>> \in Seq(U) /\ Len(<<>>) = 0 /\ 1..0 = {}
    OBVIOUS
  <2>3. Members(<<>>) = {} /\ Distinct(<<>>)
    BY <2>2 DEF Members, Distinct
  <2> HIDE DEF sel
  <2> QED
    BY <2>1, <2>2, <2>3
<1>3. ASSUME NEW n \in 0..N, Good(n), n < N
      PROVE  Good(n + 1)
  <2> DEFINE s == sel(n)
             e == order[n + 1]
  <2>1. n + 1 \in 1..N /\ (n + 1) - 1 = n /\ e \in U
    BY <1>1, <1>3, LenProperties
  <2>2. sel(n + 1) = IF e \in S THEN Append(s, e) ELSE s
    BY <1>1, <2>1, SelectionsExist
  <2>3. /\ s \in Seq(U) /\ Distinct(s)
        /\ \A x : x \in Members(s) <=> x \in S /\ \E m \in 1..n : x = order[m]
    BY <1>3
  <2>4. \A m \in 1..n : e # order[m]
    <3>1. \A m \in 1..n : m \in 1..N /\ m # n + 1
      BY <1>1, <2>1
    <3> QED
      BY <2>1, <3>1 DEF Distinct
  <2> HIDE DEF s, e, sel
  <2>5. CASE e \notin S
    <3>1. \A x : (x \in S /\ \E m \in 1..n : x = order[m])
                   <=> (x \in S /\ \E m \in 1..n + 1 : x = order[m])
      <4>1. \A m \in 1..n + 1 : m \in 1..n \/ m = n + 1
        BY <2>1
      <4>2. \A m \in 1..n : m \in 1..n + 1
        BY <2>1
      <4> QED
        BY <2>5, <4>1, <4>2, Zenon DEF e
    <3> QED
      BY <2>2, <2>3, <2>5, <3>1, Zenon
  <2>6. CASE e \in S
    <3> DEFINE t == Append(s, e)
    <3>1. /\ t \in Seq(U) /\ Len(t) = Len(s) + 1 /\ t[Len(s) + 1] = e
          /\ \A j \in 1..Len(s) : t[j] = s[j]
          /\ Len(s) \in Nat
      BY <2>1, <2>3
    <3> HIDE DEF t
    <3>2. \A x : x \in Members(t) <=> x \in Members(s) \/ x = e
      <4>1. \A j \in 1..Len(t) : j \in 1..Len(s) \/ j = Len(s) + 1
        BY <3>1
      <4>2. Len(s) + 1 \in 1..Len(t) /\ \A j \in 1..Len(s) : j \in 1..Len(t)
        BY <3>1
      <4> QED
        BY <3>1, <4>1, <4>2, Zenon DEF Members
    <3>3. \A x : x \in Members(t) <=> x \in S /\ \E m \in 1..n + 1 : x = order[m]
      <4>1. \A m \in 1..n + 1 : m \in 1..n \/ m = n + 1
        BY <2>1
      <4>2. n + 1 \in 1..n + 1 /\ \A m \in 1..n : m \in 1..n + 1
        BY <2>1
      <4> QED
        BY <2>3, <2>6, <3>2, <4>1, <4>2, Zenon DEF e
    <3>4. \A j \in 1..Len(s) : s[j] # e
      BY <2>3, <2>4, Zenon DEF Members
    <3>5. Distinct(t)
      BY <2>3, <3>1, <3>4 DEF Distinct
    <3>6. sel(n + 1) = t
      BY <2>2, <2>6 DEF t
    <3> QED
      BY <3>1, <3>3, <3>5, <3>6, Zenon
  <2> QED
    BY <2>5, <2>6
<1> HIDE DEF Good
<1>4. 0 \in T /\ \A n \in 0..N : n \in T /\ n < N => n + 1 \in T
  BY <1>1, <1>2, <1>3
<1> HIDE DEF T
<1>5. k \in T
  BY <1>1, <1>4, InductionUpTo
<1>6. Good(k)
  BY <1>5 DEF T
<1>7. /\ sel(k) \in Seq(U) /\ Distinct(sel(k))
      /\ \A x : x \in Members(sel(k)) <=> x \in S /\ \E m \in 1..k : x = order[m]
  BY <1>6, Zenon DEF Good
<1> HIDE DEF sel
<1>8. Members(sel(k)) = S \cap {order[m] : m \in 1..k}
  BY <1>7
<1> QED
  BY <1>7, <1>8 DEF sel

(* What is sorted: the names of the set, each once.                        *)
LEMMA InOrderSelects ==
    ASSUME NEW U, NEW order \in Seq(U), Distinct(order), NEW S
    PROVE  /\ InOrder(order, S) \in Seq(U) /\ Distinct(InOrder(order, S))
           /\ Members(InOrder(order, S)) = S \cap Members(order)
<1>1. Len(order) \in 0..Len(order)
  BY LenProperties
<1>2. Selections(order, S)[Len(order)] \in Seq(U)
  BY <1>1, SelectedSoFar
<1>3. Distinct(Selections(order, S)[Len(order)])
  BY <1>1, SelectedSoFar
<1>4. Members(Selections(order, S)[Len(order)]) = S \cap {order[m] : m \in 1..Len(order)}
  BY <1>1, SelectedSoFar
<1> QED
  BY <1>2, <1>3, <1>4 DEF InOrder, Members

(* Sets that agree on the names that are ordered are ordered alike.        *)
LEMMA SelectionsAgree ==
    ASSUME NEW order, Len(order) \in Nat, NEW S, NEW R,
           \A n \in 1..Len(order) : order[n] \in S <=> order[n] \in R
    PROVE  InOrder(order, S) = InOrder(order, R)
<1> DEFINE N == Len(order)
           T == {n \in 0..N : Selections(order, S)[n] = Selections(order, R)[n]}
<1>1. 0 \in T
  BY SelectionsExist
<1>2. ASSUME NEW n \in 0..N, n \in T, n < N
      PROVE  n + 1 \in T
  <2>1. n + 1 \in 1..N /\ (n + 1) - 1 = n
    BY <1>2
  <2>2. Selections(order, S)[n] = Selections(order, R)[n]
    BY <1>2
  <2>3. Selections(order, S)[n + 1] = Selections(order, R)[n + 1]
    BY <2>1, <2>2, SelectionsExist
  <2> QED
    BY <1>2, <2>1, <2>3
<1> HIDE DEF T
<1>3. 0..N \subseteq T
  BY <1>1, <1>2, InductionUpTo
<1>4. N \in T
  BY <1>3
<1> QED
  BY <1>4 DEF T, InOrder

(* Ordering once more, by the order there is, leaves names out.            *)
LEMMA AppendSelects ==
    ASSUME NEW U, NEW s \in Seq(U), NEW e \in U, NEW D
    PROVE  InOrder(Append(s, e), D) = IF e \in D THEN Append(InOrder(s, D), e) ELSE InOrder(s, D)
<1> DEFINE t == Append(s, e)
           N == Len(s)
           T == {n \in 0..N : Selections(t, D)[n] = Selections(s, D)[n]}
<1>1. /\ N \in Nat /\ Len(t) = N + 1 /\ t[N + 1] = e /\ \A j \in 1..N : t[j] = s[j]
  BY LenProperties
<1> HIDE DEF t
<1>2. 0 \in T
  BY <1>1, SelectionsExist
<1>3. ASSUME NEW n \in 0..N, n \in T, n < N
      PROVE  n + 1 \in T
  <2>1. n + 1 \in 1..N /\ n + 1 \in 1..N + 1 /\ (n + 1) - 1 = n
    BY <1>1, <1>3
  <2>2. Selections(t, D)[n] = Selections(s, D)[n] /\ t[n + 1] = s[n + 1]
    BY <1>1, <1>3, <2>1
  <2>3. /\ Selections(t, D)[n + 1] = IF t[n + 1] \in D THEN Append(Selections(t, D)[n], t[n + 1])
                                     ELSE Selections(t, D)[n]
        /\ Selections(s, D)[n + 1] = IF s[n + 1] \in D THEN Append(Selections(s, D)[n], s[n + 1])
                                     ELSE Selections(s, D)[n]
    <3>1. Len(t) \in Nat /\ n + 1 \in 1..Len(t) /\ n + 1 \in 1..Len(s) /\ Len(s) \in Nat
      BY <1>1, <2>1
    <3> QED
      BY <2>1, <3>1, SelectionsExist
  <2> QED
    BY <1>1, <2>1, <2>2, <2>3
<1> HIDE DEF T
<1>4. N \in T
  <2>1. 0..N \subseteq T
    BY <1>1, <1>2, <1>3, InductionUpTo
  <2> QED
    BY <1>1, <2>1
<1>5. Selections(t, D)[N] = InOrder(s, D)
  BY <1>4 DEF T, InOrder
<1>6. N + 1 \in 1..Len(t) /\ (N + 1) - 1 = N
  BY <1>1
<1>7. Selections(t, D)[N + 1] = IF t[N + 1] \in D THEN Append(Selections(t, D)[N], t[N + 1])
                                ELSE Selections(t, D)[N]
  BY <1>1, <1>6, SelectionsExist
<1> QED
  BY <1>1, <1>5, <1>7 DEF InOrder, t

(* Sorting what is sorted already leaves out the names of no interest, and *)
(* no more.                                                                *)
LEMMA InOrderTwice ==
    ASSUME NEW U, NEW order \in Seq(U), Distinct(order), NEW S, NEW D
    PROVE  InOrder(InOrder(order, S), D) = InOrder(order, S \cap D)
<1> DEFINE N == Len(order)
           T == {n \in 0..N : InOrder(Selections(order, S)[n], D) = Selections(order, S \cap D)[n]}
<1>1. N \in Nat
  BY LenProperties
<1>2. 0 \in T
  <2>1. Selections(order, S)[0] = <<>> /\ Selections(order, S \cap D)[0] = <<>>
    BY <1>1, SelectionsExist
  <2>2. InOrder(<<>>, D) = <<>>
    <3>1. Len(<<>>) = 0
      OBVIOUS
    <3> QED
      BY <3>1, SelectionsExist DEF InOrder
  <2> QED
    BY <1>1, <2>1, <2>2
<1>3. ASSUME NEW n \in 0..N, n \in T, n < N
      PROVE  n + 1 \in T
  <2> DEFINE s == Selections(order, S)[n]
             r == Selections(order, S \cap D)[n]
             e == order[n + 1]
  <2>1. n + 1 \in 1..N /\ (n + 1) - 1 = n /\ e \in U
    BY <1>1, <1>3, LenProperties
  <2>2. s \in Seq(U) /\ InOrder(s, D) = r
    BY <1>3, SelectedSoFar
  <2>3. Selections(order, S)[n + 1] = IF e \in S THEN Append(s, e) ELSE s
    BY <1>1, <2>1, SelectionsExist
  <2>4. Selections(order, S \cap D)[n + 1] = IF e \in S /\ e \in D THEN Append(r, e) ELSE r
    BY <1>1, <2>1, SelectionsExist
  <2> HIDE DEF s, r, e
  <2>5. InOrder(Append(s, e), D) = IF e \in D THEN Append(r, e) ELSE r
    BY <2>1, <2>2, AppendSelects
  <2>6. InOrder(Selections(order, S)[n + 1], D) = Selections(order, S \cap D)[n + 1]
    BY <2>2, <2>3, <2>4, <2>5
  <2> QED
    BY <1>1, <2>1, <2>6
<1> HIDE DEF T
<1>4. N \in T
  <2>1. 0..N \subseteq T
    BY <1>1, <1>2, <1>3, InductionUpTo
  <2> QED
    BY <1>1, <2>1
<1> QED
  BY <1>4 DEF T, InOrder

-----------------------------------------------------------------------------
(* Fields and their leaves.                                                *)
LEMMA NamesAreOrdered ==
    /\ FieldNames \in Seq(ToSet(FieldNames)) /\ Len(FieldNames) = 12 /\ Distinct(FieldNames)
    /\ ToSet(FieldNames) = Members(FieldNames)
<1>1. FieldNames \in Seq(ToSet(FieldNames)) /\ Len(FieldNames) = 12
  <2>1. FieldNames = [n \in 1..12 |-> FieldNames[n]]
    BY DEF FieldNames
  <2>2. FieldNames \in [1..12 -> ToSet(FieldNames)]
    BY <2>1 DEF ToSet
  <2>3. FieldNames \in Seq(ToSet(FieldNames))
    BY <2>2, SeqDef
  <2> QED
    BY <2>1, <2>3, ListOfLength
<1> DEFINE place(name) ==
        IF name = "addressCity" THEN 1 ELSE IF name = "addressCountry" THEN 2
        ELSE IF name = "addressLine1" THEN 3 ELSE IF name = "attestingInstitution" THEN 4
        ELSE IF name = "dateOfBirth" THEN 5 ELSE IF name = "entityType" THEN 6
        ELSE IF name = "fullName" THEN 7 ELSE IF name = "governmentIdHash" THEN 8
        ELSE IF name = "governmentIdType" THEN 9 ELSE IF name = "jurisdiction" THEN 10
        ELSE IF name = "kycLevel" THEN 11 ELSE 12
<1>4. \A n \in 1..12 : place(FieldNames[n]) = n
  BY DEF FieldNames
<1> HIDE DEF place
<1>2. \A m, n \in 1..12 : FieldNames[m] = FieldNames[n] => m = n
  BY <1>4
<1>3. DOMAIN FieldNames = 1..12
  BY DEF FieldNames
<1> QED
  BY <1>1, <1>2, <1>3 DEF Distinct, Members, ToSet

IsFields(f) ==
    /\ f = [name \in DOMAIN f |-> f[name]]
    /\ DOMAIN f \subseteq ToSet(FieldNames) /\ DOMAIN f # {}

NamesOf(f) == InOrder(FieldNames, DOMAIN f)

(* The leaves of a map of fields: one for each, all different.             *)
LEMMA LeavesOfFields ==
    ASSUME NEW f, IsFields(f)
    PROVE  /\ IsLeaves(Leaves(f)) /\ Len(Leaves(f)) = Len(NamesOf(f))
           /\ Len(NamesOf(f)) \in Nat /\ IsList(NamesOf(f))
           /\ Members(NamesOf(f)) = DOMAIN f
           /\ \A n \in 1..Len(NamesOf(f)) :
                 Leaves(f)[n] = HashLeaf(NamesOf(f)[n], f[NamesOf(f)[n]])
<1> DEFINE names == NamesOf(f)
           leaves == Leaves(f)
<1>1. names \in Seq(ToSet(FieldNames))
  BY NamesAreOrdered, InOrderSelects DEF NamesOf
<1>2. Distinct(names)
  BY NamesAreOrdered, InOrderSelects DEF NamesOf
<1>3. Members(names) = DOMAIN f
  <2>1. Members(names) = DOMAIN f \cap Members(FieldNames)
    BY NamesAreOrdered, InOrderSelects DEF NamesOf
  <2> QED
    BY <2>1, NamesAreOrdered DEF IsFields
<1>4. leaves = [n \in DOMAIN names |-> HashLeaf(names[n], f[names[n]])]
  BY DEF Leaves, NamesOf
<1> HIDE DEF names, leaves
<1>5. DOMAIN names = 1..Len(names) /\ Len(names) \in Nat
  BY <1>1, LenProperties
<1>6. leaves = [n \in 1..Len(names) |-> leaves[n]]
  BY <1>4, <1>5
<1>7. IsList(leaves) /\ Len(leaves) = Len(names)
  BY <1>5, <1>6, ListOfLength
<1>8. \A n \in 1..Len(names) : leaves[n] = HashLeaf(names[n], f[names[n]])
  BY <1>4, <1>5
<1>9. Distinct(leaves)
  BY <1>2, <1>7, <1>8 DEF Distinct, HashLeaf
<1>10. Len(leaves) # 0
  BY <1>3, <1>7 DEF Members, IsFields
<1>11. IsLeaves(leaves)
  BY <1>7, <1>8, <1>9, <1>10 DEF IsLeaves, IsLevel
<1>12. IsList(names)
  BY <1>1, SequencesAreLists
<1> QED
  BY <1>3, <1>5, <1>7, <1>8, <1>11, <1>12 DEF names, leaves

(* The same leaves are of the same fields.                                 *)
LEMMA LeavesCommitToFields ==
    ASSUME NEW f, NEW g, IsFields(f), IsFields(g), Leaves(f) = Leaves(g)
    PROVE  f = g
<1> DEFINE a == NamesOf(f)
           b == NamesOf(g)
<1>1. /\ Len(a) = Len(b) /\ Members(a) = DOMAIN f /\ Members(b) = DOMAIN g
      /\ \A n \in 1..Len(a) : HashLeaf(a[n], f[a[n]]) = HashLeaf(b[n], g[b[n]])
  BY LeavesOfFields
<1> HIDE DEF a, b
<1>2. \A n \in 1..Len(a) : a[n] = b[n] /\ f[a[n]] = g[b[n]]
  BY <1>1 DEF HashLeaf
<1>3. DOMAIN f = DOMAIN g
  BY <1>1, <1>2 DEF Members
<1>4. \A name \in DOMAIN f : f[name] = g[name]
  BY <1>1, <1>2 DEF Members
<1> QED
  BY <1>3, <1>4 DEF IsFields

RootOf(f) == GetMerkleRoot(BuildKycMerkleTree(f))

(* The root is the one node of the last level over the leaves.             *)
LEMMA RootOfLeaves ==
    ASSUME NEW f, IsFields(f)
    PROVE  RootOf(f) = RootOver(Leaves(f)) /\ BuildKycMerkleTree(f) = TreeOver(Leaves(f))
<1>1. BuildKycMerkleTree(f) = TreeOver(Leaves(f))
  BY DEF BuildKycMerkleTree, TreeOver
<1>2. IsLeaves(Leaves(f)) /\ 0 \in 0..Len(Leaves(f)) - 1
  BY LeavesOfFields DEF IsLeaves, IsLevel, IsList
<1>3. PICK siblings : siblings = CollectSiblings(TreeOver(Leaves(f)), 0)
  OBVIOUS
<1>4. GetMerkleRoot(TreeOver(Leaves(f))) = RootOver(Leaves(f))
  BY <1>2, <1>3, PathLeadsToRoot
<1> QED
  BY <1>1, <1>4 DEF RootOf

(* A root commits to the fields, whatever their number.                    *)
LEMMA RootCommitsToFields ==
    ASSUME NEW f, NEW g, IsFields(f), IsFields(g), RootOf(f) = RootOf(g)
    PROVE  f = g
<1>1. RootOver(Leaves(f)) = RootOver(Leaves(g))
  BY RootOfLeaves
<1>2. Leaves(f) = Leaves(g)
  BY <1>1, LeavesOfFields, RootCommitsToLeaves
<1> QED
  BY <1>2, LeavesCommitToFields

-----------------------------------------------------------------------------
(* Proofs of fields.                                                       *)
LEMMA ItemsOfProof ==
    ASSUME NEW f, IsFields(f), NEW names \in Seq(DOMAIN f), NEW n \in 1..Len(names)
    PROVE  LET item == GenerateProof(f, names).items[n]
           IN  /\ item.fieldName = names[n]
               /\ item.leafHash = HashLeaf(names[n], f[names[n]])
               /\ Walk(item.leafHash, item.siblings)[Len(item.siblings)] = RootOf(f)
<1> DEFINE leaves == Leaves(f)
           tree == BuildKycMerkleTree(f)
           isLeafOf(k) == k \in DOMAIN leaves /\ leaves[k] = HashLeaf(names[n], f[names[n]])
           leaf == CHOOSE k : isLeafOf(k)
           siblings == CollectSiblings(tree, leaf - 1)
           item == [fieldName |-> names[n], fieldValue |-> f[names[n]],
                    leafHash |-> leaves[leaf], siblings |-> siblings]
<1>1. tree = TreeOver(leaves) /\ RootOf(f) = RootOver(leaves)
  BY RootOfLeaves
<1>2. /\ IsLeaves(leaves) /\ DOMAIN leaves = 1..Len(leaves) /\ Len(leaves) \in Nat
      /\ \E k \in 1..Len(leaves) : leaves[k] = HashLeaf(names[n], f[names[n]])
  <2>1. names[n] \in Members(NamesOf(f))
    BY LeavesOfFields, ElementOfSeq
  <2>2. PICK k \in 1..Len(NamesOf(f)) : names[n] = NamesOf(f)[k]
    BY <2>1 DEF Members
  <2>3. IsLeaves(leaves) /\ Len(leaves) = Len(NamesOf(f)) /\ leaves[k] = HashLeaf(names[n], f[names[n]])
    BY <2>2, LeavesOfFields
  <2>4. leaves = [m \in 1..Len(leaves) |-> leaves[m]] /\ Len(leaves) \in Nat
    BY <2>3 DEF IsLeaves, IsLevel, IsList
  <2> HIDE DEF leaves
  <2>5. DOMAIN leaves = 1..Len(leaves)
    BY <2>4
  <2> QED
    BY <2>2, <2>3, <2>4, <2>5
<1>3. tree[1] = leaves
  <2>1. 0 \in 0..Len(leaves) - 1
    BY <1>2 DEF IsLeaves, IsLevel
  <2>2. PICK s : s = CollectSiblings(TreeOver(leaves), 0)
    OBVIOUS
  <2> QED
    BY <1>1, <1>2, <2>1, <2>2, PathLeadsToRoot
<1>4. leaf \in 1..Len(leaves) /\ leaves[leaf] = HashLeaf(names[n], f[names[n]])
  <2>1. \E k : isLeafOf(k)
    BY <1>2
  <2>2. isLeafOf(leaf)
    BY <2>1, Zenon
  <2> QED
    BY <1>2, <2>2
<1>5. GenerateProof(f, names).items[n] = item
  <2>1. n \in DOMAIN names
    BY LenProperties
  <2> QED
    BY <1>3, <2>1, Zenon DEF GenerateProof
<1> HIDE DEF leaf, tree, leaves
<1>6. Walk(leaves[leaf], siblings)[Len(siblings)] = RootOf(f)
  <2>1. leaf - 1 \in 0..Len(leaves) - 1 /\ (leaf - 1) + 1 = leaf
    BY <1>2, <1>4
  <2>2. PICK i \in 0..Len(leaves) - 1 : i = leaf - 1 /\ i + 1 = leaf
    BY <2>1
  <2>3. siblings = CollectSiblings(TreeOver(leaves), i)
    BY <1>1, <2>2
  <2> HIDE DEF siblings
  <2>4. Walk(leaves[i + 1], siblings)[Len(siblings)] = RootOver(leaves)
    BY <1>2, <2>3, PathLeadsToRoot
  <2> QED
    BY <1>1, <2>2, <2>4
<1> HIDE DEF siblings
<1> QED
  BY <1>4, <1>5, <1>6

(* A proof verifies under the root of its fields and no other.             *)
LEMMA ProofVerifies ==
    ASSUME NEW f, IsFields(f), NEW names \in Seq(DOMAIN f), names # <<>>, NEW root
    PROVE  VerifyProof(root, GenerateProof(f, names), [name \in ToSet(names) |-> f[name]])
             <=> root = RootOf(f)
<1> DEFINE items == GenerateProof(f, names).items
           disclosed == [name \in ToSet(names) |-> f[name]]
<1>1. DOMAIN items = 1..Len(names) /\ Len(names) \in Nat /\ 1 \in 1..Len(names)
  <2>1. DOMAIN items = DOMAIN names
    BY DEF GenerateProof
  <2>2. DOMAIN names = 1..Len(names) /\ Len(names) \in Nat \ {0}
    BY LenProperties, EmptySeq
  <2> QED
    BY <2>1, <2>2
<1>2. \A n \in 1..Len(names) :
         /\ items[n].fieldName = names[n]
         /\ items[n].leafHash = HashLeaf(names[n], f[names[n]])
         /\ Walk(items[n].leafHash, items[n].siblings)[Len(items[n].siblings)] = RootOf(f)
  BY ItemsOfProof
<1>3. \A n \in 1..Len(names) : names[n] \in ToSet(names) /\ disclosed[names[n]] = f[names[n]]
  BY LenProperties DEF ToSet
<1>4. DOMAIN disclosed = ToSet(names)
  OBVIOUS
<1>5. VerifyProof(root, GenerateProof(f, names), disclosed) =
        (/\ items # <<>>
         /\ \A item \in ToSet(items) :
              /\ item.fieldName \in DOMAIN disclosed
              /\ HashLeaf(item.fieldName, disclosed[item.fieldName]) = item.leafHash
              /\ root = Walk(item.leafHash, item.siblings)[Len(item.siblings)])
  BY Zenon DEF VerifyProof
<1> HIDE DEF items, disclosed
<1>6. items # <<>>
  BY <1>1
<1>7. ToSet(items) = {items[n] : n \in 1..Len(names)}
  BY <1>1 DEF ToSet
<1>8. \A n \in 1..Len(names) :
         /\ items[n].fieldName \in DOMAIN disclosed
         /\ HashLeaf(items[n].fieldName, disclosed[items[n].fieldName]) = items[n].leafHash
  BY <1>2, <1>3, <1>4
<1>9. CASE root = RootOf(f)
  BY <1>2, <1>5, <1>6, <1>7, <1>8, <1>9 DEF disclosed
<1>10. CASE root # RootOf(f)
  <2>1. items[1] \in ToSet(items) /\ root # Walk(items[1].leafHash, items[1].siblings)[Len(items[1].siblings)]
    BY <1>1, <1>2, <1>7, <1>10
  <2> QED
    BY <1>5, <1>10, <2>1 DEF disclosed
<1> QED
  BY <1>9, <1>10

(* And for no other value of a field.                                      *)
LEMMA OtherValueFails ==
    ASSUME NEW f, IsFields(f), NEW names \in Seq(DOMAIN f), NEW root, NEW v,
           NEW name \in ToSet(names), v # f[name]
    PROVE  ~VerifyProof(root, GenerateProof(f, names),
                        [[m \in ToSet(names) |-> f[m]] EXCEPT ![name] = v])
<1> DEFINE items == GenerateProof(f, names).items
           changed == [[m \in ToSet(names) |-> f[m]] EXCEPT ![name] = v]
<1>1. PICK n \in 1..Len(names) : names[n] = name
  BY LenProperties DEF ToSet
<1>2. DOMAIN items = 1..Len(names)
  <2>1. DOMAIN items = DOMAIN names
    BY DEF GenerateProof
  <2> QED
    BY <2>1, LenProperties
<1>3. items[n].fieldName = name /\ items[n].leafHash = HashLeaf(name, f[name])
  BY <1>1, ItemsOfProof
<1>4. changed[name] = v
  OBVIOUS
<1>5. VerifyProof(root, GenerateProof(f, names), changed) =>
         \A item \in ToSet(items) : HashLeaf(item.fieldName, changed[item.fieldName]) = item.leafHash
  BY Zenon DEF VerifyProof
<1> HIDE DEF items, changed
<1>6. items[n] \in ToSet(items)
  BY <1>2 DEF ToSet
<1>7. HashLeaf(name, v) # HashLeaf(name, f[name])
  BY DEF HashLeaf
<1> QED
  BY <1>3, <1>4, <1>5, <1>6, <1>7 DEF changed

-----------------------------------------------------------------------------
(* The fields of a row.                                                    *)
LEMMA FieldsOfRow ==
    ASSUME NEW pii \in PiiChoices \cup {<<>>}, NEW level \in KycLevels, NEW i \in Holders
    PROVE  /\ IsFields(WithPublicFields(pii, level, i))
           /\ WithPublicFields(pii, level, i)["kycLevel"] = LevelText(level)
           /\ WithPublicFields(pii, level, i)["attestingInstitution"] = i
           /\ \A name \in DOMAIN WithPublicFields(pii, level, i) :
                 WithPublicFields(pii, level, i)[name] # OtherValue
<1> DEFINE f == WithPublicFields(pii, level, i)
           D == DOMAIN pii \cup {"kycLevel", "attestingInstitution"}
                  \cup (IF "addressCountry" \in DOMAIN pii THEN {"jurisdiction"} ELSE {})
           e(name) == IF name = "kycLevel" THEN LevelText(level)
                      ELSE IF name = "attestingInstitution" THEN i
                      ELSE IF name = "jurisdiction" THEN pii["addressCountry"]
                      ELSE pii[name]
<1>1. f = [name \in D |-> e(name)]
  BY Zenon DEF WithPublicFields
<1> HIDE DEF f
<1>2. DOMAIN pii \subseteq PrivateFields
  <2>1. CASE pii = <<>>
    <3>1. DOMAIN pii = {}
      BY <2>1
    <3> QED
      BY <3>1
  <2>2. CASE pii \in PiiChoices
    BY <2>2, ChoicesArePrivate
  <2> QED
    BY <2>1, <2>2
<1>3. DOMAIN f \subseteq ToSet(FieldNames) /\ DOMAIN f # {}
  <2>1. {"kycLevel", "attestingInstitution", "jurisdiction"} \subseteq ToSet(FieldNames)
    <3>1. /\ 11 \in DOMAIN FieldNames /\ FieldNames[11] = "kycLevel"
          /\ 4 \in DOMAIN FieldNames /\ FieldNames[4] = "attestingInstitution"
          /\ 10 \in DOMAIN FieldNames /\ FieldNames[10] = "jurisdiction"
      BY DEF FieldNames
    <3> QED
      BY <3>1, Zenon DEF ToSet
  <2>2. PrivateFields \subseteq ToSet(FieldNames)
    BY DEF PrivateFields
  <2> QED
    BY <1>1, <1>2, <2>1, <2>2
<1>4. level \in 0..3 /\ LevelText(level) \in {"0", "1", "2", "3"}
  BY LevelsAreSmall DEF LevelText
<1>5. \A name \in DOMAIN pii : pii[name] # OtherValue
  <2>1. CASE pii = <<>>
    <3>1. DOMAIN pii = {}
      BY <2>1
    <3> QED
      BY <3>1
  <2>2. CASE pii \in PiiChoices
    BY <2>2, OthersAreOther
  <2> QED
    BY <2>1, <2>2
<1>6. \A name \in D : e(name) # OtherValue
  <2> TAKE name \in D
  <2>1. CASE name = "kycLevel"
    BY <1>4, <2>1, OthersAreOther
  <2>2. CASE name = "attestingInstitution"
    BY <2>2, OthersAreOther
  <2>3. CASE name = "jurisdiction"
    <3>1. "addressCountry" \in DOMAIN pii
      BY <1>2, <2>3 DEF PrivateFields
    <3> QED
      BY <1>5, <2>3, <3>1
  <2>4. CASE name \notin {"kycLevel", "attestingInstitution", "jurisdiction"}
    BY <1>5, <2>4
  <2> QED
    BY <2>1, <2>2, <2>3, <2>4
<1>7. f["kycLevel"] = LevelText(level) /\ f["attestingInstitution"] = i
  BY <1>1
<1>8. f = [name \in DOMAIN f |-> f[name]]
  BY <1>1
<1>9. \A name \in DOMAIN f : f[name] # OtherValue
  BY <1>1, <1>6
<1> QED
  BY <1>3, <1>7, <1>8, <1>9 DEF IsFields, f

(* Different levels have different texts.                                  *)
LEMMA LevelTextsDiffer ==
    ASSUME NEW k \in KycLevels, NEW l \in KycLevels, LevelText(k) = LevelText(l)
    PROVE  k = l
<1>1. k \in 0..3 /\ l \in 0..3
  BY LevelsAreSmall
<1> QED
  BY <1>1 DEF LevelText

-----------------------------------------------------------------------------
(* A row: its hash is the root of its fields when it was created, or, of   *)
(* an accepted one without PII, that of another institution's row.         *)
RootFor(pii, level, i) == RootOf(WithPublicFields(pii, level, i))

Origin(row, i, pii, level) == row.institution # i /\ row.kycHash = RootFor(pii, level, i)

RowOK(row) ==
    /\ row \in Rows
    /\ ~row.accepted =>
          row.pii \in PiiChoices /\ row.kycHash = RootFor(row.pii, row.createdAt, row.institution)
    /\ row.accepted =>
          /\ row.pii = <<>>
          /\ \E i \in Holders, pii \in PiiChoices, level \in KycLevels : Origin(row, i, pii, level)

AnswerFor(row, names) ==
    [merkleRoot |-> RootOf(RowFieldMap(row)),
     disclosedFields |-> [name \in ToSet(names) |-> RowFieldMap(row)[name]],
     proof |-> GenerateProof(RowFieldMap(row), names)]

RequestOK(r) ==
    /\ DOMAIN r = {"step", "of", "names", "row", "answer"}
    /\ r.step \in {"idle", "reading", "decrypting", "answered", "refused"}
    /\ r.step \in {"reading", "decrypting", "answered"} =>
          r.of \in Holders \X Persons /\ r.names \in FieldLists /\ r.names # <<>>
    /\ r.step \in {"decrypting", "answered"} => RowOK(r.row)
    /\ r.step = "answered" =>
          /\ ToSet(r.names) \subseteq DOMAIN RowFieldMap(r.row)
          /\ r.answer = AnswerFor(r.row, r.names)

(* An accepted row's hash is that of an own row of the same wallet.        *)
HasRow(i, w) == entity[<<i, w>>] # Nothing

SameHash(i, j, w) ==
    /\ HasRow(j, w) /\ ~entity[<<j, w>>].accepted
    /\ entity[<<i, w>>].kycHash = entity[<<j, w>>].kycHash

EntityOK(i, w) ==
    HasRow(i, w) =>
        /\ RowOK(entity[<<i, w>>]) /\ entity[<<i, w>>].institution = i
        /\ entity[<<i, w>>].accepted => \E j \in Holders : SameHash(i, j, w)

DisclosureInv ==
    /\ entity \in [Holders \X Persons -> Rows \cup {Nothing}]
    /\ \A i \in Holders, w \in Persons : EntityOK(i, w)
    /\ disclosure = [d \in Disclosures |-> disclosure[d]]
    /\ \A d \in Disclosures : RequestOK(disclosure[d])

-----------------------------------------------------------------------------
(* No rows and no requests at first.                                       *)
LEMMA DisclosureInitInv == DisclosureInit => DisclosureInv
<1> SUFFICES ASSUME DisclosureInit PROVE DisclosureInv
  OBVIOUS
<1>1. entity \in [Holders \X Persons -> Rows \cup {Nothing}]
  BY DEF DisclosureInit
<1>2. \A i \in Holders, w \in Persons : EntityOK(i, w)
  BY DEF DisclosureInit, EntityOK, HasRow
<1>3. /\ disclosure = [d \in Disclosures |-> disclosure[d]]
      /\ \A d \in Disclosures : RequestOK(disclosure[d])
  BY DEF DisclosureInit, RequestOK
<1> QED
  BY <1>1, <1>2, <1>3 DEF DisclosureInv

(* The hash that a new row gets.                                           *)
LEMMA RootsOfRows ==
    ASSUME NEW pii \in PiiChoices, NEW level \in KycLevels, NEW i \in Holders
    PROVE  /\ RootFor(pii, level, i) \in Roots
           /\ GetMerkleRoot(BuildKycMerkleTree(BuildKycFieldMap(pii, level, i))) = RootFor(pii, level, i)
<1>1. GetMerkleRoot(BuildKycMerkleTree(BuildKycFieldMap(pii, level, i))) = RootFor(pii, level, i)
  BY DEF RootFor, RootOf, BuildKycFieldMap
<1> QED
  BY <1>1 DEF Roots

(* A row is made where there was none.                                     *)
LEMMA RowMade ==
    ASSUME DisclosureInv, NEW i \in Holders, NEW w \in Persons, NEW row,
           ~HasRow(i, w), entity' = [entity EXCEPT ![<<i, w>>] = row],
           RowOK(row), row.institution = i,
           row.accepted => \E j \in Holders :
               HasRow(j, w) /\ ~entity[<<j, w>>].accepted /\ row.kycHash = entity[<<j, w>>].kycHash,
           UNCHANGED disclosure
    PROVE  DisclosureInv'
<1>1. /\ entity' \in [Holders \X Persons -> Rows \cup {Nothing}]
      /\ entity'[<<i, w>>] = row /\ row # Nothing
      /\ \A j \in Holders, v \in Persons : <<j, v>> # <<i, w>> => entity'[<<j, v>>] = entity[<<j, v>>]
  BY NothingIsNoRow DEF DisclosureInv, RowOK
<1>2. \A j \in Holders, v \in Persons : HasRow(j, v) => entity'[<<j, v>>] = entity[<<j, v>>]
  BY <1>1 DEF HasRow
<1>3. ASSUME NEW j \in Holders, NEW v \in Persons
      PROVE  EntityOK(j, v)'
  <2>1. CASE <<j, v>> # <<i, w>>
    BY <1>1, <1>2, <2>1 DEF DisclosureInv, EntityOK, HasRow, SameHash
  <2>2. CASE j = i /\ v = w
    BY <1>1, <1>2, <2>2 DEF EntityOK, HasRow, SameHash
  <2> QED
    BY <2>1, <2>2
<1> QED
  BY <1>1, <1>3 DEF DisclosureInv

(* A row is created with the root of its fields.                           *)
LEMMA CreateEntityInv ==
    ASSUME DisclosureInv, NEW i \in Holders, NEW w \in Persons,
           NEW pii \in PiiChoices, NEW level \in KycLevels, CreateEntity(i, w, pii, level)
    PROVE  DisclosureInv'
<1> DEFINE row == [institution |-> i, kycLevel |-> level, pii |-> pii, accepted |-> FALSE,
                   createdAt |-> level, kycHash |-> RootFor(pii, level, i)]
<1>1. /\ entity[<<i, w>>] = Nothing /\ UNCHANGED disclosure
      /\ entity' = [entity EXCEPT ![<<i, w>>] = row]
  BY RootsOfRows DEF CreateEntity
<1>2. RootFor(pii, level, i) \in Roots
  BY RootsOfRows
<1>3. row \in Rows
  BY <1>2 DEF Rows
<1>4. RowOK(row) /\ row.institution = i /\ ~row.accepted
  BY <1>3 DEF RowOK
<1> HIDE DEF row
<1> QED
  BY <1>1, <1>4, RowMade DEF HasRow

(* An accepted row has the hash of a row of another institution, which     *)
(* named itself in it.                                                     *)
LEMMA AcceptEntityInv ==
    ASSUME DisclosureInv, NEW i \in Holders, NEW j \in Holders, NEW w \in Persons,
           AcceptExternalEntity(i, j, w)
    PROVE  DisclosureInv'
<1> DEFINE source == entity[<<j, w>>]
           row == [institution |-> i, kycLevel |-> source.kycLevel, pii |-> <<>>, accepted |-> TRUE,
                   createdAt |-> source.kycLevel, kycHash |-> source.kycHash]
<1>1. /\ ~HasRow(i, w) /\ HasRow(j, w) /\ UNCHANGED disclosure
      /\ entity' = [entity EXCEPT ![<<i, w>>] = row]
  BY DEF AcceptExternalEntity, HasRow
<1>2. RowOK(source)
  BY <1>1 DEF DisclosureInv, EntityOK
<1>3. PICK o \in Holders : /\ HasRow(o, w) /\ ~entity[<<o, w>>].accepted
                           /\ source.kycHash = entity[<<o, w>>].kycHash
  BY <1>1 DEF DisclosureInv, EntityOK, SameHash
<1>4. RowOK(entity[<<o, w>>]) /\ entity[<<o, w>>].institution = o /\ o # i
  BY <1>1, <1>3 DEF DisclosureInv, EntityOK, HasRow
<1>5. PICK pii \in PiiChoices, level \in KycLevels : source.kycHash = RootFor(pii, level, o)
  BY <1>3, <1>4 DEF RowOK, Rows
<1>6. source.kycLevel \in KycLevels /\ source.kycHash \in Roots
  BY <1>2 DEF RowOK, Rows
<1> HIDE DEF source
<1>7. row \in Rows
  BY <1>6 DEF Rows
<1>8. row.accepted /\ row.pii = <<>> /\ row.institution = i /\ row.kycHash = source.kycHash
  OBVIOUS
<1> HIDE DEF row
<1>9. RowOK(row)
  BY <1>4, <1>5, <1>7, <1>8 DEF RowOK, Origin
<1> QED
  BY <1>1, <1>3, <1>8, <1>9, RowMade

(* A change of level leaves the hash as it was.                            *)
LEMMA SetKycLevelInv ==
    ASSUME DisclosureInv, NEW i \in Holders, NEW w \in Persons, NEW level \in KycLevels,
           SetKycLevel(i, w, level)
    PROVE  DisclosureInv'
<1> DEFINE old == entity[<<i, w>>]
           row == [old EXCEPT !.kycLevel = level]
<1>1. HasRow(i, w) /\ UNCHANGED disclosure /\ entity' = [entity EXCEPT ![<<i, w>>] = row]
  BY Zenon DEF SetKycLevel, HasRow
<1>2. RowOK(old) /\ old.institution = i /\ (old.accepted => \E j \in Holders : SameHash(i, j, w))
  BY <1>1 DEF DisclosureInv, EntityOK
<1>3. /\ row \in Rows /\ row.institution = old.institution /\ row.pii = old.pii
      /\ row.accepted = old.accepted /\ row.createdAt = old.createdAt /\ row.kycHash = old.kycHash
  BY <1>2 DEF RowOK, Rows
<1>4. /\ entity' \in [Holders \X Persons -> Rows \cup {Nothing}]
      /\ \A j \in Holders, v \in Persons :
            entity'[<<j, v>>] = IF <<j, v>> = <<i, w>> THEN row ELSE entity[<<j, v>>]
  BY <1>1, <1>3 DEF DisclosureInv
<1> HIDE DEF row
<1>5. RowOK(row) /\ row # Nothing
  BY <1>2, <1>3, NothingIsNoRow DEF RowOK, Origin
<1>6. \A j \in Holders, v \in Persons :
         /\ HasRow(j, v)' <=> HasRow(j, v)
         /\ HasRow(j, v) => /\ entity'[<<j, v>>].accepted = entity[<<j, v>>].accepted
                            /\ entity'[<<j, v>>].kycHash = entity[<<j, v>>].kycHash
                            /\ entity'[<<j, v>>].institution = entity[<<j, v>>].institution
  BY <1>1, <1>3, <1>4, <1>5 DEF HasRow
<1>7. ASSUME NEW j \in Holders, NEW v \in Persons
      PROVE  EntityOK(j, v)'
  <2>1. EntityOK(j, v)
    BY DEF DisclosureInv
  <2>2. HasRow(j, v) => RowOK(entity'[<<j, v>>])
    BY <1>4, <1>5, <2>1 DEF EntityOK
  <2>3. HasRow(j, v) => \A k \in Holders : SameHash(j, k, v) => SameHash(j, k, v)'
    BY <1>6 DEF SameHash
  <2> QED
    BY <1>6, <2>1, <2>2, <2>3 DEF EntityOK
<1> QED
  BY <1>1, <1>4, <1>7 DEF DisclosureInv

-----------------------------------------------------------------------------
(* A step of a request.                                                    *)
LEMMA RequestMoves ==
    ASSUME DisclosureInv, NEW d \in Disclosures, NEW r,
           disclosure' = [disclosure EXCEPT ![d] = r], RequestOK(r), UNCHANGED entity
    PROVE  DisclosureInv'
<1>1. /\ disclosure' = [c \in Disclosures |-> disclosure'[c]]
      /\ \A c \in Disclosures : RequestOK(disclosure'[c])
  BY DEF DisclosureInv
<1>2. ASSUME NEW i \in Holders, NEW w \in Persons
      PROVE  EntityOK(i, w)'
  <2>1. EntityOK(i, w) /\ entity' = entity
    BY DEF DisclosureInv
  <2> QED
    BY <2>1 DEF EntityOK, HasRow, SameHash
<1>3. entity' \in [Holders \X Persons -> Rows \cup {Nothing}]
  BY DEF DisclosureInv
<1> QED
  BY <1>1, <1>2, <1>3 DEF DisclosureInv

(* A request for no fields is refused.                                     *)
LEMMA AskForProofInv ==
    ASSUME DisclosureInv, NEW d \in Disclosures, NEW i \in Holders, NEW w \in Persons,
           NEW names \in FieldLists, AskForProof(d, i, w, names)
    PROVE  DisclosureInv'
<1> DEFINE step == IF names = <<>> THEN "refused" ELSE "reading"
           r1 == [disclosure[d] EXCEPT !.of = <<i, w>>]
           r2 == [r1 EXCEPT !.names = names]
           r3 == [r2 EXCEPT !.step = step]
<1>1. disclosure' = [disclosure EXCEPT ![d] = r3] /\ UNCHANGED entity
  BY Zenon DEF AskForProof
<1>2. DOMAIN disclosure[d] = {"step", "of", "names", "row", "answer"}
  BY DEF DisclosureInv, RequestOK
<1>3. DOMAIN r1 = {"step", "of", "names", "row", "answer"} /\ r1.of = <<i, w>>
  BY <1>2
<1> HIDE DEF r1
<1>4. DOMAIN r2 = {"step", "of", "names", "row", "answer"} /\ r2.of = <<i, w>> /\ r2.names = names
  BY <1>3
<1> HIDE DEF r2
<1>5. /\ DOMAIN r3 = {"step", "of", "names", "row", "answer"}
      /\ r3.of = <<i, w>> /\ r3.names = names /\ r3.step = step
  BY <1>4
<1> HIDE DEF r3
<1>6. RequestOK(r3)
  BY <1>5 DEF RequestOK
<1> QED
  BY <1>1, <1>6, RequestMoves

(* A request keeps the row as it was read.                                 *)
LEMMA ReadEntityInv ==
    ASSUME DisclosureInv, NEW d \in Disclosures, ReadEntity(d)
    PROVE  DisclosureInv'
<1> DEFINE me == disclosure[d]
           row == entity[me.of]
           step == IF row = Nothing THEN "refused" ELSE "decrypting"
           r1 == [me EXCEPT !.row = row]
           r2 == [r1 EXCEPT !.step = step]
<1>1. disclosure' = [disclosure EXCEPT ![d] = r2] /\ UNCHANGED entity
  BY Zenon DEF ReadEntity
<1>2. /\ DOMAIN me = {"step", "of", "names", "row", "answer"} /\ me.of \in Holders \X Persons
      /\ me.names \in FieldLists /\ me.names # <<>>
  BY DEF DisclosureInv, RequestOK, ReadEntity
<1>3. row # Nothing => RowOK(row)
  BY <1>2 DEF DisclosureInv, EntityOK, HasRow
<1>4. step \in {"refused", "decrypting"} /\ (step = "decrypting" => RowOK(row))
  BY <1>3
<1> HIDE DEF me, row, step
<1>5. /\ DOMAIN r1 = {"step", "of", "names", "row", "answer"}
      /\ r1.of = me.of /\ r1.names = me.names /\ r1.row = row
  BY <1>2
<1> HIDE DEF r1
<1>6. /\ DOMAIN r2 = {"step", "of", "names", "row", "answer"}
      /\ r2.of = me.of /\ r2.names = me.names /\ r2.row = row /\ r2.step = step
  BY <1>5
<1> HIDE DEF r2
<1>7. RequestOK(r2)
  BY <1>2, <1>4, <1>6 DEF RequestOK
<1> QED
  BY <1>1, <1>7, RequestMoves

(* An answer is made of the row that was read, whatever the row has become *)
(* since.                                                                  *)
LEMMA GenerateProofInv ==
    ASSUME DisclosureInv, NEW d \in Disclosures, GenerateDisclosureProof(d)
    PROVE  DisclosureInv'
<1> DEFINE me == disclosure[d]
           answer == AnswerFor(me.row, me.names)
           r1 == [me EXCEPT !.step = "answered"]
           r2 == [r1 EXCEPT !.answer = answer]
<1>1. /\ disclosure' = [disclosure EXCEPT ![d] = r2] /\ UNCHANGED entity
      /\ me.step = "decrypting" /\ ToSet(me.names) \subseteq DOMAIN RowFieldMap(me.row)
  BY Zenon DEF GenerateDisclosureProof, AnswerFor, RootOf
<1>2. /\ DOMAIN me = {"step", "of", "names", "row", "answer"} /\ me.of \in Holders \X Persons
      /\ me.names \in FieldLists /\ me.names # <<>> /\ RowOK(me.row)
  BY <1>1 DEF DisclosureInv, RequestOK
<1> HIDE DEF me, answer
<1>3. /\ DOMAIN r1 = {"step", "of", "names", "row", "answer"}
      /\ r1.of = me.of /\ r1.names = me.names /\ r1.row = me.row /\ r1.step = "answered"
  BY <1>2
<1> HIDE DEF r1
<1>4. /\ DOMAIN r2 = {"step", "of", "names", "row", "answer"}
      /\ r2.of = me.of /\ r2.names = me.names /\ r2.row = me.row /\ r2.step = "answered"
      /\ r2.answer = answer
  BY <1>3
<1> HIDE DEF r2
<1>5. RequestOK(r2)
  BY <1>1, <1>2, <1>4 DEF RequestOK, answer
<1> QED
  BY <1>1, <1>5, RequestMoves

(* A request that fails has no answer.                                     *)
LEMMA DisclosureFailsInv ==
    ASSUME DisclosureInv, NEW d \in Disclosures, DisclosureFails(d)
    PROVE  DisclosureInv'
<1> DEFINE r == [disclosure[d] EXCEPT !.step = "refused"]
<1>1. disclosure' = [disclosure EXCEPT ![d] = r] /\ UNCHANGED entity
  BY Zenon DEF DisclosureFails
<1>2. DOMAIN disclosure[d] = {"step", "of", "names", "row", "answer"}
  BY DEF DisclosureInv, RequestOK
<1>3. DOMAIN r = {"step", "of", "names", "row", "answer"} /\ r.step = "refused"
  BY <1>2
<1> HIDE DEF r
<1>4. RequestOK(r)
  BY <1>3 DEF RequestOK
<1> QED
  BY <1>1, <1>4, RequestMoves

(* Every step keeps the invariant.                                         *)
LEMMA DisclosureStepInv == DisclosureInv /\ [DisclosureNext]_disclosureVars => DisclosureInv'
<1> SUFFICES ASSUME DisclosureInv, [DisclosureNext]_disclosureVars PROVE DisclosureInv'
  OBVIOUS
<1>1. CASE UNCHANGED <<entity, disclosure>>
  BY <1>1 DEF DisclosureInv, EntityOK, HasRow, SameHash
<1>2. ASSUME NEW i \in Holders, NEW w \in Persons, CreateKycAttestationOnChain(i, w)
      PROVE  DisclosureInv'
  BY <1>1, <1>2 DEF CreateKycAttestationOnChain
<1>3. CASE UNCHANGED disclosureVars
  BY <1>1, <1>3 DEF disclosureVars
<1> QED
  BY <1>2, <1>3, CreateEntityInv, AcceptEntityInv, SetKycLevelInv, AskForProofInv, ReadEntityInv,
     GenerateProofInv, DisclosureFailsInv DEF DisclosureNext

(* The invariant holds of the specification.                               *)
LEMMA DisclosureInvariant == DisclosureSpec => []DisclosureInv
BY DisclosureInitInv, DisclosureStepInv, PTL DEF DisclosureSpec

-----------------------------------------------------------------------------
(* What the invariant says of an answer and of a row.                      *)
LEMMA AnswerOfRequest ==
    ASSUME DisclosureInv, NEW d \in Answered
    PROVE  LET r == disclosure[d]
               f == RowFieldMap(r.row)
           IN  /\ RowOK(r.row) /\ IsFields(f)
               /\ f = WithPublicFields(r.row.pii, r.row.kycLevel, r.row.institution)
               /\ r.names \in Seq(DOMAIN f) /\ r.names # <<>>
               /\ r.answer = AnswerFor(r.row, r.names)
               /\ \A name \in ToSet(r.names) : f[name] # OtherValue
<1> DEFINE r == disclosure[d]
           f == RowFieldMap(r.row)
<1>1. /\ RowOK(r.row) /\ r.names \in FieldLists /\ r.names # <<>>
      /\ ToSet(r.names) \subseteq DOMAIN f /\ r.answer = AnswerFor(r.row, r.names)
  BY DEF DisclosureInv, RequestOK, Answered
<1>2. f = WithPublicFields(r.row.pii, r.row.kycLevel, r.row.institution)
  BY DEF RowFieldMap
<1>3. r.row.pii \in PiiChoices \cup {<<>>} /\ r.row.kycLevel \in KycLevels /\ r.row.institution \in Holders
  BY <1>1 DEF RowOK, Rows
<1> HIDE DEF r, f
<1>4. IsFields(f) /\ \A name \in DOMAIN f : f[name] # OtherValue
  BY <1>2, <1>3, FieldsOfRow
<1>5. r.names \in Seq(DOMAIN f)
  <2>1. r.names \in Seq(ToSet(r.names))
    BY <1>1, NamesAreSequences
  <2> QED
    BY <1>1, <2>1, SeqMonotonic
<1> QED
  BY <1>1, <1>2, <1>4, <1>5 DEF r, f

(* What an answer proves.                                                  *)
LEMMA ProofsFollow == DisclosureInv => ProofsVerify
<1> SUFFICES ASSUME DisclosureInv, NEW d \in Answered
             PROVE  LET answer == disclosure[d].answer
                    IN  /\ VerifyProof(answer.merkleRoot, answer.proof, answer.disclosedFields)
                        /\ \A name \in ToSet(disclosure[d].names) :
                              ~VerifyProof(answer.merkleRoot, answer.proof,
                                           [answer.disclosedFields EXCEPT ![name] = OtherValue])
  BY DEF ProofsVerify
<1> DEFINE r == disclosure[d]
           f == RowFieldMap(r.row)
           disclosed == [name \in ToSet(r.names) |-> f[name]]
<1>1. /\ IsFields(f) /\ r.names \in Seq(DOMAIN f) /\ r.names # <<>>
      /\ r.answer = AnswerFor(r.row, r.names) /\ \A name \in ToSet(r.names) : f[name] # OtherValue
  BY AnswerOfRequest
<1>2. /\ r.answer.merkleRoot = RootOf(f) /\ r.answer.proof = GenerateProof(f, r.names)
      /\ r.answer.disclosedFields = disclosed
  BY <1>1 DEF AnswerFor
<1>3. VerifyProof(RootOf(f), GenerateProof(f, r.names), disclosed)
  <2> HIDE DEF f, r
  <2> QED
    BY <1>1, ProofVerifies
<1>4. ASSUME NEW name \in ToSet(r.names)
      PROVE  ~VerifyProof(RootOf(f), GenerateProof(f, r.names), [disclosed EXCEPT ![name] = OtherValue])
  <2>1. OtherValue # f[name]
    BY <1>1
  <2> HIDE DEF f, r
  <2> QED
    BY <1>1, <2>1, OtherValueFails, Zenon
<1> HIDE DEF f, disclosed
<1> QED
  BY <1>2, <1>3, <1>4

(* What a stored hash commits to.                                          *)
LEMMA RootsFollow == DisclosureInv => RootsCommit
<1> SUFFICES ASSUME DisclosureInv PROVE RootsCommit
  OBVIOUS
<1> DEFINE OwnRows == {e \in Holders \X Persons : entity[e] # Nothing /\ ~entity[e].accepted}
           fieldsOf(e) == BuildKycFieldMap(entity[e].pii, entity[e].createdAt, entity[e].institution)
<1>1. ASSUME NEW g \in OwnRows
      PROVE  entity[g].kycHash = RootOf(fieldsOf(g)) /\ IsFields(fieldsOf(g))
  <2>1. PICK i \in Holders, w \in Persons : g = <<i, w>>
    OBVIOUS
  <2>2. RowOK(entity[g]) /\ ~entity[g].accepted
    BY <1>1, <2>1 DEF DisclosureInv, EntityOK, HasRow
  <2>3. /\ entity[g].pii \in PiiChoices \cup {<<>>} /\ entity[g].createdAt \in KycLevels
        /\ entity[g].institution \in Holders
    BY <2>2 DEF RowOK, Rows
  <2> QED
    BY <2>2, <2>3, FieldsOfRow DEF RowOK, RootFor, BuildKycFieldMap
<1> HIDE DEF fieldsOf, OwnRows
<1>2. \A e, f \in OwnRows : entity[e].kycHash = entity[f].kycHash => fieldsOf(e) = fieldsOf(f)
  BY <1>1, RootCommitsToFields
<1>3. ASSUME NEW d \in Answered, NEW e \in OwnRows,
             VerifyProof(entity[e].kycHash, disclosure[d].answer.proof,
                         disclosure[d].answer.disclosedFields)
      PROVE  RowFieldMap(disclosure[d].row) = fieldsOf(e)
  <2> DEFINE r == disclosure[d]
             f == RowFieldMap(r.row)
  <2>1. /\ IsFields(f) /\ r.names \in Seq(DOMAIN f) /\ r.names # <<>>
        /\ r.answer = AnswerFor(r.row, r.names)
    BY AnswerOfRequest
  <2>2. /\ r.answer.proof = GenerateProof(f, r.names)
        /\ r.answer.disclosedFields = [name \in ToSet(r.names) |-> f[name]]
    BY <2>1 DEF AnswerFor
  <2>3. VerifyProof(entity[e].kycHash, r.answer.proof, r.answer.disclosedFields)
    BY <1>3
  <2> HIDE DEF f, r
  <2>4. entity[e].kycHash = RootOf(f)
    BY <2>1, <2>2, <2>3, ProofVerifies
  <2>5. f = fieldsOf(e)
    BY <1>1, <2>1, <2>4, RootCommitsToFields
  <2> QED
    BY <2>5 DEF f, r
<1> QED
  BY <1>2, <1>3, Zenon DEF RootsCommit, OwnRows, fieldsOf

(* When the stored hash is the root of the fields as they are.             *)
LEMMA StoredHashFollows == DisclosureInv => StoredHashHoldsAtItsLevel
<1> SUFFICES ASSUME DisclosureInv, NEW d \in Answered
             PROVE  LET row == disclosure[d].row
                    IN  VerifyProof(row.kycHash, disclosure[d].answer.proof,
                                    disclosure[d].answer.disclosedFields)
                          <=> ~row.accepted /\ row.kycLevel = row.createdAt
  BY DEF StoredHashHoldsAtItsLevel
<1> DEFINE r == disclosure[d]
           row == r.row
           f == RowFieldMap(row)
<1>1. /\ RowOK(row) /\ IsFields(f) /\ r.names \in Seq(DOMAIN f) /\ r.names # <<>>
      /\ f = WithPublicFields(row.pii, row.kycLevel, row.institution)
      /\ r.answer = AnswerFor(row, r.names)
  BY AnswerOfRequest
<1>2. /\ r.answer.proof = GenerateProof(f, r.names)
      /\ r.answer.disclosedFields = [name \in ToSet(r.names) |-> f[name]]
  BY <1>1 DEF AnswerFor
<1> HIDE DEF f, row, r
<1>3. VerifyProof(row.kycHash, r.answer.proof, r.answer.disclosedFields) <=> row.kycHash = RootOf(f)
  BY <1>1, <1>2, ProofVerifies
<1>4. /\ row.pii \in PiiChoices \cup {<<>>} /\ row.kycLevel \in KycLevels
      /\ row.createdAt \in KycLevels /\ row.institution \in Holders /\ row.accepted \in BOOLEAN
  BY <1>1 DEF RowOK, Rows
<1>5. f["kycLevel"] = LevelText(row.kycLevel) /\ f["attestingInstitution"] = row.institution
  BY <1>1, <1>4, FieldsOfRow
<1>6. CASE row.accepted
  <2>1. PICK i \in Holders, pii \in PiiChoices, level \in KycLevels : Origin(row, i, pii, level)
    BY <1>1, <1>6 DEF RowOK
  <2> DEFINE g == WithPublicFields(pii, level, i)
  <2>2. IsFields(g) /\ g["attestingInstitution"] = i
    BY FieldsOfRow
  <2>3. row.kycHash = RootOf(g) /\ row.institution # i
    BY <2>1 DEF Origin, RootFor
  <2> HIDE DEF g
  <2>4. row.kycHash # RootOf(f)
    BY <1>1, <1>5, <2>2, <2>3, RootCommitsToFields
  <2> QED
    BY <1>3, <1>6, <2>4 DEF r, row
<1>7. CASE ~row.accepted
  <2> DEFINE g == WithPublicFields(row.pii, row.createdAt, row.institution)
  <2>1. row.kycHash = RootOf(g) /\ IsFields(g) /\ g["kycLevel"] = LevelText(row.createdAt)
    BY <1>1, <1>4, <1>7, FieldsOfRow DEF RowOK, RootFor
  <2>2. row.kycLevel = row.createdAt => f = g
    BY <1>1
  <2> HIDE DEF g
  <2>3. row.kycHash = RootOf(f) <=> row.kycLevel = row.createdAt
    BY <1>1, <1>4, <1>5, <2>1, <2>2, RootCommitsToFields, LevelTextsDiffer
  <2> QED
    BY <1>3, <1>7, <2>3 DEF r, row
<1> QED
  BY <1>6, <1>7 DEF r, row

(* A proof of fields verifies under the root it came with, and not for     *)
(* another value of any field, for any rows, fields, and orders of the     *)
(* requests' steps among the changes of the rows.                          *)
THEOREM ProofsVerifyCorrect == DisclosureSpec => []ProofsVerify
BY ProofsFollow, DisclosureInvariant, PTL

(* Rows with one hash were created of the same fields, and a proof under a *)
(* row's hash is one of that row's fields, in trees of any number of       *)
(* leaves: no tree can be read as one of other height.                     *)
THEOREM RootsCommitCorrect == DisclosureSpec => []RootsCommit
BY RootsFollow, DisclosureInvariant, PTL

(* The hash stored with a row verifies its proofs exactly while the row is *)
(* an institution's own and at the level it was created with.              *)
THEOREM StoredHashCorrect == DisclosureSpec => []StoredHashHoldsAtItsLevel
BY StoredHashFollows, DisclosureInvariant, PTL

-----------------------------------------------------------------------------
(* The text of a value, and its meaning.                                   *)
TextStep(text, v) ==
    IF v.type = "array" THEN ArrayText([n \in DOMAIN v.of |-> text[v.of[n]]])
    ELSE IF v.type = "object"
    THEN ObjectText(v.of, [key \in KeysOf(v.of) |-> text[ValueOf(v.of, key)]])
    ELSE ScalarText(v)

ScalarMeaning(v) ==
    IF v.type \in {"null", "undefined", "function", "symbol"} THEN <<"null">>
    ELSE IF v.type \in {"string", "date"} THEN <<"string", v.of>>
    ELSE <<v.type, v.of>>

MeaningStep(meaning, v) ==
    IF v.type = "array" THEN <<"array", [n \in DOMAIN v.of |-> meaning[v.of[n]]]>>
    ELSE IF v.type = "object"
    THEN <<"object", [key \in SerializedKeys(v.of) |-> meaning[ValueOf(v.of, key)]]>>
    ELSE ScalarMeaning(v)

PairsOK(pairs) == pairs \in Seq(PropertyNames \X Values)

(* The pair found for a key is the one of that key.                        *)
LEMMA PairsHold ==
    ASSUME NEW pairs, PairsOK(pairs)
    PROVE  /\ KeysOf(pairs) \subseteq PropertyNames
           /\ SerializedKeys(pairs) \subseteq KeysOf(pairs)
           /\ \A key \in KeysOf(pairs) :
                 /\ PositionOf(pairs, key) \in DOMAIN pairs
                 /\ pairs[PositionOf(pairs, key)][1] = key
                 /\ pairs[PositionOf(pairs, key)] \in PropertyNames \X Values
                 /\ ValueOf(pairs, key) \in Values
<1>1. \A n \in DOMAIN pairs : pairs[n] \in PropertyNames \X Values
  BY DEF PairsOK
<1>2. \A x \in PropertyNames \X Values : x[1] \in PropertyNames /\ x[2] \in Values
  OBVIOUS
<1>3. KeysOf(pairs) \subseteq PropertyNames
  BY <1>1, <1>2, Zenon DEF KeysOf
<1>4. ASSUME NEW key \in KeysOf(pairs)
      PROVE  PositionOf(pairs, key) \in DOMAIN pairs /\ pairs[PositionOf(pairs, key)][1] = key
  <2>1. \E n \in DOMAIN pairs : pairs[n][1] = key
    BY Zenon DEF KeysOf
  <2> QED
    BY <2>1, Zenon DEF PositionOf
<1> QED
  BY <1>1, <1>2, <1>3, <1>4, Zenon DEF SerializedKeys, ValueOf

(* The parts of an array and of an object, by position and by key.         *)
LEMMA PartsHold ==
    ASSUME NEW v \in Values
    PROVE  /\ PartsOf(v) \subseteq Values
           /\ v.type = "array" => \A n \in DOMAIN v.of : v.of[n] \in PartsOf(v)
           /\ v.type = "object" => PairsOK(v.of)
           /\ v.type = "object" => \A key \in KeysOf(v.of) : ValueOf(v.of, key) \in PartsOf(v)
<1>1. CASE v.type = "array"
  <2>1. PartsOf(v) = {v.of[n] : n \in DOMAIN v.of}
    BY <1>1 DEF PartsOf
  <2>2. \A n \in DOMAIN v.of : v.of[n] \in Values
    BY <1>1, ValuesAreJson
  <2> QED
    BY <1>1, <2>1, <2>2
<1>2. CASE v.type = "object"
  <2>1. PartsOf(v) = {v.of[n][2] : n \in DOMAIN v.of}
    BY <1>2 DEF PartsOf
  <2>2. PairsOK(v.of)
    BY <1>2, ValuesAreJson DEF PairsOK
  <2>3. \A n \in DOMAIN v.of : v.of[n][2] \in Values
    BY <2>2 DEF PairsOK
  <2>4. \A key \in KeysOf(v.of) : PositionOf(v.of, key) \in DOMAIN v.of
    BY <2>2, PairsHold
  <2>5. \A key \in KeysOf(v.of) : ValueOf(v.of, key) \in PartsOf(v)
    BY <2>1, <2>4 DEF ValueOf
  <2> QED
    BY <1>2, <2>1, <2>2, <2>3, <2>5
<1>3. CASE v.type # "array" /\ v.type # "object"
  <2>1. PartsOf(v) = {}
    BY <1>3 DEF PartsOf
  <2> QED
    BY <1>3, <2>1
<1> QED
  BY <1>1, <1>2, <1>3

IsDepth(depth) ==
    /\ depth \in [Values -> 0..MaxDepth]
    /\ \A v \in Values : \A part \in PartsOf(v) : depth[part] < depth[v]

(* Values are nested to some depth.                                        *)
LEMMA DepthExists == \E depth : IsDepth(depth)
BY ValuesAreFinite DEF IsDepth

Shallow(depth, k) == {v \in Values : depth[v] < k}

(* The parts of a value are less deep than it is.                          *)
LEMMA ShallowGrows ==
    ASSUME NEW depth, IsDepth(depth), NEW k \in Nat
    PROVE  /\ Shallow(depth, 0) = {}
           /\ Shallow(depth, k) \subseteq Shallow(depth, k + 1)
           /\ \A v \in Shallow(depth, k + 1) : PartsOf(v) \subseteq Shallow(depth, k)
           /\ Shallow(depth, MaxDepth + 1) = Values
<1>1. MaxDepth \in Nat
  BY BoundsAreNumbers
<1>2. \A v \in Values : depth[v] \in Nat /\ depth[v] <= MaxDepth
  BY <1>1 DEF IsDepth
<1>3. Shallow(depth, 0) = {}
  BY <1>2 DEF Shallow
<1>4. Shallow(depth, k) \subseteq Shallow(depth, k + 1)
  BY <1>2 DEF Shallow
<1>5. \A v \in Values : depth[v] < MaxDepth + 1
  BY <1>1, <1>2
<1>6. ASSUME NEW v \in Values, depth[v] < k + 1, NEW part \in PartsOf(v)
      PROVE  part \in Values /\ depth[part] < k
  <2>1. part \in Values /\ depth[part] < depth[v]
    BY <1>6, PartsHold DEF IsDepth
  <2>2. depth[v] \in Nat /\ depth[part] \in Nat
    BY <1>2, <2>1
  <2> QED
    BY <1>6, <2>1, <2>2
<1> QED
  BY <1>3, <1>4, <1>5, <1>6 DEF Shallow

(* A text follows from those of the parts, and so does a meaning.          *)
LEMMA TextStepAgrees ==
    ASSUME NEW f, NEW g, NEW v \in Values, \A part \in PartsOf(v) : f[part] = g[part]
    PROVE  TextStep(f, v) = TextStep(g, v) /\ MeaningStep(f, v) = MeaningStep(g, v)
<1>1. CASE v.type # "array" /\ v.type # "object"
  BY <1>1 DEF TextStep, MeaningStep
<1>2. CASE v.type = "array"
  <2>1. \A n \in DOMAIN v.of : f[v.of[n]] = g[v.of[n]]
    BY <1>2, PartsHold
  <2>2. [n \in DOMAIN v.of |-> f[v.of[n]]] = [n \in DOMAIN v.of |-> g[v.of[n]]]
    BY <2>1
  <2> QED
    BY <1>2, <2>2, Zenon DEF TextStep, MeaningStep
<1>3. CASE v.type = "object"
  <2>1. \A key \in KeysOf(v.of) : f[ValueOf(v.of, key)] = g[ValueOf(v.of, key)]
    BY <1>3, PartsHold
  <2>2. SerializedKeys(v.of) \subseteq KeysOf(v.of)
    BY <1>3, PartsHold, PairsHold
  <2>3. [key \in KeysOf(v.of) |-> f[ValueOf(v.of, key)]] = [key \in KeysOf(v.of) |-> g[ValueOf(v.of, key)]]
    BY <2>1, Zenon
  <2>4. [key \in SerializedKeys(v.of) |-> f[ValueOf(v.of, key)]]
          = [key \in SerializedKeys(v.of) |-> g[ValueOf(v.of, key)]]
    BY <2>1, <2>2
  <2>5. v.type # "array"
    BY <1>3
  <2>6. TextStep(f, v) = TextStep(g, v)
    BY <1>3, <2>3, <2>5, Zenon DEF TextStep
  <2>7. MeaningStep(f, v) = MeaningStep(g, v)
    BY <1>3, <2>4, <2>5, Zenon DEF MeaningStep
  <2> QED
    BY <2>6, <2>7
<1> QED
  BY <1>1, <1>2, <1>3

(* The recursion of the serializer ends, for every value.                  *)
LEMMA SerializeExists ==
    ASSUME NEW v \in Values
    PROVE  Serialize[v] = TextStep(Serialize, v)
<1> DEFINE Rule(f, S) == f = [u \in S |-> TextStep(f, u)]
<1>1. PICK depth : IsDepth(depth)
  BY DepthExists
<1> DEFINE T == {k \in Nat : \E f : Rule(f, Shallow(depth, k))}
<1>2. 0 \in T
  <2> DEFINE f == [u \in {} |-> 0]
  <2>1. Rule(f, Shallow(depth, 0))
    BY <1>1, ShallowGrows
  <2> QED
    BY <2>1
<1>3. ASSUME NEW k \in Nat, k \in T
      PROVE  k + 1 \in T
  <2>1. PICK f : Rule(f, Shallow(depth, k))
    BY <1>3
  <2> DEFINE g == [u \in Shallow(depth, k + 1) |-> TextStep(f, u)]
  <2>2. \A u \in Shallow(depth, k) : g[u] = f[u]
    BY <1>1, <2>1, ShallowGrows
  <2>3. DOMAIN g = Shallow(depth, k + 1)
    OBVIOUS
  <2> HIDE DEF g
  <2>4. \A u \in Shallow(depth, k + 1) : TextStep(g, u) = TextStep(f, u)
    <3>1. \A u \in Shallow(depth, k + 1) :
             u \in Values /\ \A part \in PartsOf(u) : g[part] = f[part]
      BY <1>1, <2>2, ShallowGrows DEF Shallow
    <3> QED
      BY <3>1, TextStepAgrees
  <2>5. Rule(g, Shallow(depth, k + 1))
    BY <2>4 DEF g
  <2> QED
    BY <2>5
<1> HIDE DEF T
<1>4. MaxDepth + 1 \in T
  BY <1>2, <1>3, Induction, BoundsAreNumbers
<1>5. \E f : Rule(f, Values)
  BY <1>1, <1>4, ShallowGrows, BoundsAreNumbers DEF T
<1>6. Serialize = CHOOSE f : Rule(f, Values)
  BY DEF Serialize, TextStep
<1>7. Rule(Serialize, Values)
  BY <1>5, <1>6
<1> QED
  BY <1>7

(* And so does that of the meaning.                                        *)
LEMMA MeaningExists ==
    ASSUME NEW v \in Values
    PROVE  Meaning[v] = MeaningStep(Meaning, v)
<1> DEFINE Rule(f, S) == f = [u \in S |-> MeaningStep(f, u)]
<1>1. PICK depth : IsDepth(depth)
  BY DepthExists
<1> DEFINE T == {k \in Nat : \E f : Rule(f, Shallow(depth, k))}
<1>2. 0 \in T
  <2> DEFINE f == [u \in {} |-> 0]
  <2>1. Rule(f, Shallow(depth, 0))
    BY <1>1, ShallowGrows
  <2> QED
    BY <2>1
<1>3. ASSUME NEW k \in Nat, k \in T
      PROVE  k + 1 \in T
  <2>1. PICK f : Rule(f, Shallow(depth, k))
    BY <1>3
  <2> DEFINE g == [u \in Shallow(depth, k + 1) |-> MeaningStep(f, u)]
  <2>2. \A u \in Shallow(depth, k) : g[u] = f[u]
    BY <1>1, <2>1, ShallowGrows
  <2>3. DOMAIN g = Shallow(depth, k + 1)
    OBVIOUS
  <2> HIDE DEF g
  <2>4. \A u \in Shallow(depth, k + 1) : MeaningStep(g, u) = MeaningStep(f, u)
    <3>1. \A u \in Shallow(depth, k + 1) :
             u \in Values /\ \A part \in PartsOf(u) : g[part] = f[part]
      BY <1>1, <2>2, ShallowGrows DEF Shallow
    <3> QED
      BY <3>1, TextStepAgrees
  <2>5. Rule(g, Shallow(depth, k + 1))
    BY <2>4 DEF g
  <2> QED
    BY <2>5
<1> HIDE DEF T
<1>4. MaxDepth + 1 \in T
  BY <1>2, <1>3, Induction, BoundsAreNumbers
<1>5. \E f : Rule(f, Values)
  BY <1>1, <1>4, ShallowGrows, BoundsAreNumbers DEF T
<1>6. Meaning = CHOOSE f : Rule(f, Values)
  BY DEF Meaning, MeaningStep, ScalarMeaning
<1>7. Rule(Meaning, Values)
  BY <1>5, <1>6
<1> QED
  BY <1>7

-----------------------------------------------------------------------------
Scalar(v) == v.type # "array" /\ v.type # "object"

(* What the text of a value is, and its meaning.                           *)
LEMMA ScalarNames ==
    ASSUME NEW v \in Values, NEW w \in Values, Scalar(v), Scalar(w),
           ScalarText(v) # Thrown, ScalarText(w) # Thrown
    PROVE  ScalarText(v) = ScalarText(w) <=> ScalarMeaning(v) = ScalarMeaning(w)
<1> DEFINE T(kind, x) == [token |-> kind, text |-> x]
           Z == [token |-> "null"]
           Kinds == {"string", "boolean", "number"}
<1>1. ASSUME NEW u \in Values, Scalar(u), ScalarText(u) # Thrown
      PROVE  \/ ScalarText(u) = Z /\ ScalarMeaning(u) = <<"null">>
             \/ \E kind \in Kinds : ScalarText(u) = T(kind, u.of) /\ ScalarMeaning(u) = <<kind, u.of>>
  <2>1. u.type \in {"null", "boolean", "number", "string", "bigint", "undefined", "function",
                   "symbol", "date"}
    BY <1>1, ValuesAreJson DEF Scalar
  <2>2. CASE u.type \in {"null", "undefined", "function", "symbol"}
    BY <2>2 DEF ScalarText, ScalarMeaning
  <2>3. CASE u.type = "boolean"
    BY <2>3 DEF ScalarText, ScalarMeaning
  <2>4. CASE u.type = "string"
    BY <2>4 DEF ScalarText, ScalarMeaning, SerializeString
  <2>5. CASE u.type = "date"
    BY <1>1, <2>5 DEF ScalarText, ScalarMeaning, SerializeString
  <2>6. CASE u.type = "number"
    BY <1>1, <2>6 DEF ScalarText, ScalarMeaning
  <2>7. CASE u.type = "bigint"
    BY <1>1, <2>7 DEF ScalarText
  <2> QED
    BY <2>1, <2>2, <2>3, <2>4, <2>5, <2>6, <2>7
<1>2. \A s, t : <<"null">> # <<s, t>>
  <2>1. \A s, t : Len(<<"null">>) = 1 /\ Len(<<s, t>>) = 2
    OBVIOUS
  <2> QED
    BY <2>1
<1>3. \A s, t, x, y : <<s, x>> = <<t, y>> <=> s = t /\ x = y
  OBVIOUS
<1>4. \A s, t, x, y : T(s, x) = T(t, y) <=> s = t /\ x = y
  <2>1. \A s, x : T(s, x).token = s /\ T(s, x).text = x
    OBVIOUS
  <2> QED
    BY <2>1, Zenon
<1>5. \A s \in Kinds : \A x : Z # T(s, x)
  <2>1. \A s \in Kinds : \A x : T(s, x).token # Z.token
    OBVIOUS
  <2> QED
    BY <2>1, Zenon
<1>6. \A u \in {v, w} :
         \/ ScalarText(u) = Z /\ ScalarMeaning(u) = <<"null">>
         \/ \E kind \in Kinds : ScalarText(u) = T(kind, u.of) /\ ScalarMeaning(u) = <<kind, u.of>>
  BY <1>1, Zenon
<1> HIDE DEF T, Z, Kinds
<1> QED
  BY <1>2, <1>3, <1>4, <1>5, <1>6

(* An array with a text has elements with texts.                           *)
LEMMA ArrayTexts ==
    ASSUME NEW items, ArrayText(items) # Thrown
    PROVE  /\ ArrayText(items) = [token |-> "array", items |-> items]
           /\ \A n \in DOMAIN items : items[n] # Thrown
BY Zenon DEF ArrayText, OrThrown, ToSet

(* No array or object reads as a scalar.                                   *)
LEMMA ScalarsAreNoTrees ==
    ASSUME NEW v \in Values, Scalar(v), NEW items, NEW pairs
    PROVE  /\ ScalarText(v) # [token |-> "array", items |-> items]
           /\ ScalarText(v) # [token |-> "object", pairs |-> pairs]
           /\ ScalarMeaning(v) # <<"array", items>>
           /\ ScalarMeaning(v) # <<"object", pairs>>
<1>1. v.type \in {"null", "boolean", "number", "string", "bigint", "undefined", "function",
                 "symbol", "date"}
  BY ValuesAreJson DEF Scalar
<1>2. ScalarText(v).token \in {"null", "boolean", "number", "string", "thrown"}
  BY <1>1 DEF ScalarText, SerializeString, Thrown
<1>3. /\ [token |-> "array", items |-> items].token = "array"
      /\ [token |-> "object", pairs |-> pairs].token = "object"
  OBVIOUS
<1>4. ScalarMeaning(v)[1] \notin {"array", "object"}
  BY <1>1 DEF ScalarMeaning
<1>5. <<"array", items>>[1] = "array" /\ <<"object", pairs>>[1] = "object"
  OBVIOUS
<1> QED
  BY <1>2, <1>3, <1>4, <1>5

(* Nor does an array read as an object.                                    *)
LEMMA ArraysAreNoObjects ==
    ASSUME NEW x, NEW y
    PROVE  /\ [token |-> "array", items |-> x] # [token |-> "object", pairs |-> y]
           /\ <<"array", x>> # <<"object", y>>
<1>1. /\ [token |-> "array", items |-> x].token = "array"
      /\ [token |-> "object", pairs |-> y].token = "object"
      /\ <<"array", x>>[1] = "array" /\ <<"object", y>>[1] = "object"
  OBVIOUS
<1> QED
  BY <1>1

(* Two texts are the same exactly when they mean the same.                 *)
TextsAgree(v, w) ==
    Serialize[v] # Thrown /\ Serialize[w] # Thrown =>
        (Serialize[v] = Serialize[w] <=> Meaning[v] = Meaning[w])

(* Arrays of elements whose texts name their meanings.                     *)
LEMMA ArraysAgree ==
    ASSUME NEW v \in Values, NEW w \in Values, v.type = "array", w.type = "array",
           \A n \in DOMAIN v.of, m \in DOMAIN w.of : TextsAgree(v.of[n], w.of[m])
    PROVE  TextsAgree(v, w)
<1> SUFFICES ASSUME Serialize[v] # Thrown, Serialize[w] # Thrown
             PROVE  Serialize[v] = Serialize[w] <=> Meaning[v] = Meaning[w]
  BY DEF TextsAgree
<1> DEFINE A == [n \in DOMAIN v.of |-> Serialize[v.of[n]]]
           B == [n \in DOMAIN w.of |-> Serialize[w.of[n]]]
           a == [n \in DOMAIN v.of |-> Meaning[v.of[n]]]
           b == [n \in DOMAIN w.of |-> Meaning[w.of[n]]]
<1>1. Serialize[v] = ArrayText(A) /\ Serialize[w] = ArrayText(B)
  BY SerializeExists DEF TextStep
<1>2. Meaning[v] = <<"array", a>> /\ Meaning[w] = <<"array", b>>
  BY MeaningExists DEF MeaningStep
<1>3. DOMAIN A = DOMAIN v.of /\ DOMAIN B = DOMAIN w.of
  OBVIOUS
<1>4. /\ \A n \in DOMAIN v.of : A[n] = Serialize[v.of[n]]
      /\ \A n \in DOMAIN w.of : B[n] = Serialize[w.of[n]]
  OBVIOUS
<1>5. A = B <=> DOMAIN v.of = DOMAIN w.of /\ \A n \in DOMAIN v.of : Serialize[v.of[n]] = Serialize[w.of[n]]
  OBVIOUS
<1>6. a = b <=> DOMAIN v.of = DOMAIN w.of /\ \A n \in DOMAIN v.of : Meaning[v.of[n]] = Meaning[w.of[n]]
  OBVIOUS
<1> HIDE DEF A, B, a, b
<1>7. ArrayText(A) = [token |-> "array", items |-> A] /\ \A n \in DOMAIN A : A[n] # Thrown
  BY <1>1, ArrayTexts
<1>8. ArrayText(B) = [token |-> "array", items |-> B] /\ \A n \in DOMAIN B : B[n] # Thrown
  BY <1>1, ArrayTexts
<1>9. Serialize[v] = Serialize[w] <=> A = B
  <2>1. [token |-> "array", items |-> A].items = A /\ [token |-> "array", items |-> B].items = B
    OBVIOUS
  <2> QED
    BY <1>1, <1>7, <1>8, <2>1, Zenon
<1>10. Meaning[v] = Meaning[w] <=> a = b
  <2>1. <<"array", a>>[2] = a /\ <<"array", b>>[2] = b
    OBVIOUS
  <2> QED
    BY <1>2, <2>1, Zenon
<1>11. ASSUME DOMAIN v.of = DOMAIN w.of, NEW n \in DOMAIN v.of
       PROVE  Serialize[v.of[n]] = Serialize[w.of[n]] <=> Meaning[v.of[n]] = Meaning[w.of[n]]
  BY <1>3, <1>4, <1>7, <1>8, <1>11 DEF TextsAgree
<1> QED
  BY <1>5, <1>6, <1>9, <1>10, <1>11, Zenon

-----------------------------------------------------------------------------
(* Objects.                                                                *)

(* All property names are in the order, each once.                         *)
LEMMA KeysOrdered ==
    /\ KeyOrder \in Seq(ToSet(KeyOrder)) /\ Distinct(KeyOrder)
    /\ Members(KeyOrder) = PropertyNames /\ Keys \subseteq PropertyNames
<1>1. KeyOrder \in Seq(ToSet(KeyOrder)) /\ DOMAIN KeyOrder = 1..Len(KeyOrder)
  BY KeysAreOrdered, LenProperties
<1>2. Distinct(KeyOrder)
  BY <1>1, KeysAreOrdered DEF Distinct, IsInjective
<1>3. Members(KeyOrder) = ToSet(KeyOrder)
  BY <1>1, Zenon DEF Members, ToSet
<1> QED
  BY <1>1, <1>2, <1>3, KeysAreOrdered DEF PropertyNames

(* The keys of an object's text, in order.                                 *)
TextKeys(pairs) == InOrder(KeyOrder, SerializedKeys(pairs))

(* An object's text has the keys of values that JSON has words for,        *)
(* sorted, whatever the order they came in.                                *)
LEMMA KeysOfText ==
    ASSUME NEW pairs, PairsOK(pairs)
    PROVE  /\ InOrder(SortedKeys(pairs), SerializedKeys(pairs)) = TextKeys(pairs)
           /\ DOMAIN TextKeys(pairs) = 1..Len(TextKeys(pairs))
           /\ SerializedKeys(pairs) = {TextKeys(pairs)[n] : n \in DOMAIN TextKeys(pairs)}
<1>1. KeysOf(pairs) \cap SerializedKeys(pairs) = SerializedKeys(pairs)
  BY PairsHold
<1>2. InOrder(InOrder(KeyOrder, KeysOf(pairs)), SerializedKeys(pairs))
        = InOrder(KeyOrder, KeysOf(pairs) \cap SerializedKeys(pairs))
  BY KeysOrdered, InOrderTwice
<1>3. TextKeys(pairs) \in Seq(ToSet(KeyOrder))
  BY KeysOrdered, InOrderSelects DEF TextKeys
<1>4. Members(TextKeys(pairs)) = SerializedKeys(pairs) \cap Members(KeyOrder)
  BY KeysOrdered, InOrderSelects DEF TextKeys
<1>5. SerializedKeys(pairs) \subseteq Members(KeyOrder)
  BY KeysOrdered, PairsHold
<1>6. DOMAIN TextKeys(pairs) = 1..Len(TextKeys(pairs))
  BY <1>3, LenProperties
<1>7. SerializedKeys(pairs) = {TextKeys(pairs)[n] : n \in DOMAIN TextKeys(pairs)}
  <2>1. Members(TextKeys(pairs)) = SerializedKeys(pairs)
    BY <1>4, <1>5
  <2> QED
    BY <1>6, <2>1, Zenon DEF Members
<1> QED
  BY <1>1, <1>2, <1>6, <1>7 DEF SortedKeys, TextKeys

PairTexts(pairs, text) ==
    [n \in DOMAIN TextKeys(pairs) |->
        <<SerializeString(TextKeys(pairs)[n]), text[TextKeys(pairs)[n]]>>]

(* An object with a text has values with texts.                            *)
LEMMA ObjectHasText ==
    ASSUME NEW pairs, PairsOK(pairs), NEW text, ObjectText(pairs, text) # Thrown
    PROVE  /\ ObjectText(pairs, text) = [token |-> "object", pairs |-> PairTexts(pairs, text)]
           /\ \A key \in SerializedKeys(pairs) : text[key] # Thrown
<1> DEFINE keys == TextKeys(pairs)
           items == [n \in DOMAIN keys |-> text[keys[n]]]
           whole == [token |-> "object",
                     pairs |-> [n \in DOMAIN keys |-> <<SerializeString(keys[n]), items[n]>>]]
<1>1. ObjectText(pairs, text) = OrThrown(items, whole)
  <2>1. InOrder(SortedKeys(pairs), SerializedKeys(pairs)) = keys
    BY KeysOfText
  <2> QED
    BY <2>1 DEF ObjectText
<1>2. whole = [token |-> "object", pairs |-> PairTexts(pairs, text)]
  BY Zenon DEF PairTexts
<1>3. DOMAIN items = DOMAIN keys /\ \A n \in DOMAIN keys : items[n] = text[keys[n]]
  OBVIOUS
<1> HIDE DEF whole, items
<1>4. ObjectText(pairs, text) = whole /\ \A n \in DOMAIN keys : items[n] # Thrown
  BY <1>1, <1>3, Zenon DEF OrThrown, ToSet
<1>5. \A key \in SerializedKeys(pairs) : \E n \in DOMAIN keys : key = keys[n]
  BY KeysOfText
<1> QED
  BY <1>2, <1>3, <1>4, <1>5

(* Two objects' texts are the same exactly when they have the same keys    *)
(* and these the same texts.                                               *)
LEMMA ObjectTextsEqual ==
    ASSUME NEW p, NEW q, PairsOK(p), PairsOK(q), NEW f, NEW g,
           ObjectText(p, f) # Thrown, ObjectText(q, g) # Thrown
    PROVE  ObjectText(p, f) = ObjectText(q, g)
             <=> /\ SerializedKeys(p) = SerializedKeys(q)
                 /\ \A key \in SerializedKeys(p) : f[key] = g[key]
<1> DEFINE Same == /\ SerializedKeys(p) = SerializedKeys(q)
                   /\ \A key \in SerializedKeys(p) : f[key] = g[key]
<1>1. ObjectText(p, f) = ObjectText(q, g) <=> PairTexts(p, f) = PairTexts(q, g)
  <2>1. /\ ObjectText(p, f) = [token |-> "object", pairs |-> PairTexts(p, f)]
        /\ ObjectText(q, g) = [token |-> "object", pairs |-> PairTexts(q, g)]
    BY ObjectHasText
  <2>2. \A x : [token |-> "object", pairs |-> x].pairs = x
    OBVIOUS
  <2> QED
    BY <2>1, <2>2, Zenon
<1>2. ASSUME Same
      PROVE  PairTexts(p, f) = PairTexts(q, g)
  <2>1. TextKeys(p) = TextKeys(q)
    BY <1>2 DEF TextKeys
  <2>2. \A n \in DOMAIN TextKeys(p) : TextKeys(p)[n] \in SerializedKeys(p)
    BY KeysOfText
  <2>3. \A n \in DOMAIN TextKeys(p) : f[TextKeys(p)[n]] = g[TextKeys(p)[n]]
    BY <1>2, <2>2, Zenon
  <2> QED
    BY <2>1, <2>3, Zenon DEF PairTexts
<1>3. ASSUME PairTexts(p, f) = PairTexts(q, g)
      PROVE  Same
  <2> DEFINE a == TextKeys(p)
             b == TextKeys(q)
  <2>1. DOMAIN PairTexts(p, f) = DOMAIN a /\ DOMAIN PairTexts(q, g) = DOMAIN b
    BY DEF PairTexts
  <2>2. /\ \A n \in DOMAIN a : PairTexts(p, f)[n] = <<SerializeString(a[n]), f[a[n]]>>
        /\ \A n \in DOMAIN b : PairTexts(q, g)[n] = <<SerializeString(b[n]), g[b[n]]>>
    BY DEF PairTexts
  <2>3. \A n \in DOMAIN a : a[n] = b[n] /\ f[a[n]] = g[b[n]]
    <3>1. \A x, y, u, v : <<x, u>> = <<y, v>> => x = y /\ u = v
      OBVIOUS
    <3>2. \A x, y : SerializeString(x) = SerializeString(y) => x = y
      <4>1. \A x : SerializeString(x).text = x
        BY DEF SerializeString
      <4> QED
        BY <4>1
    <3>3. \A n \in DOMAIN a : <<SerializeString(a[n]), f[a[n]]>> = <<SerializeString(b[n]), g[b[n]]>>
      BY <1>3, <2>1, <2>2
    <3>4. \A n \in DOMAIN a : SerializeString(a[n]) = SerializeString(b[n]) /\ f[a[n]] = g[b[n]]
      BY <3>1, <3>3
    <3> QED
      BY <3>2, <3>4
  <2>4. DOMAIN a = DOMAIN b
    BY <1>3, <2>1
  <2>5. SerializedKeys(p) = {a[n] : n \in DOMAIN a} /\ SerializedKeys(q) = {b[n] : n \in DOMAIN b}
    BY KeysOfText
  <2> HIDE DEF a, b
  <2>6. {a[n] : n \in DOMAIN a} = {b[n] : n \in DOMAIN b}
    BY <2>3, <2>4
  <2>7. \A key \in {a[n] : n \in DOMAIN a} : f[key] = g[key]
    BY <2>3
  <2> QED
    BY <2>5, <2>6, <2>7, Zenon
<1> HIDE DEF Same
<1> QED
  BY <1>1, <1>2, <1>3, Zenon DEF Same

TextOf(pairs) == [key \in KeysOf(pairs) |-> Serialize[ValueOf(pairs, key)]]

Says(pairs) == [key \in SerializedKeys(pairs) |-> Meaning[ValueOf(pairs, key)]]

(* Objects of values whose texts name their meanings.                      *)
LEMMA ObjectsNameContent ==
    ASSUME NEW p, NEW q, PairsOK(p), PairsOK(q),
           \A k \in KeysOf(p), l \in KeysOf(q) : TextsAgree(ValueOf(p, k), ValueOf(q, l)),
           ObjectText(p, TextOf(p)) # Thrown, ObjectText(q, TextOf(q)) # Thrown
    PROVE  ObjectText(p, TextOf(p)) = ObjectText(q, TextOf(q)) <=> Says(p) = Says(q)
<1> DEFINE Same(f, g) == /\ SerializedKeys(p) = SerializedKeys(q)
                         /\ \A key \in SerializedKeys(p) : f[key] = g[key]
<1>1. /\ SerializedKeys(p) \subseteq KeysOf(p)
      /\ SerializedKeys(q) \subseteq KeysOf(q)
  BY PairsHold
<1>2. /\ \A key \in KeysOf(p) : TextOf(p)[key] = Serialize[ValueOf(p, key)]
      /\ \A key \in KeysOf(q) : TextOf(q)[key] = Serialize[ValueOf(q, key)]
  BY DEF TextOf
<1>3. /\ \A key \in SerializedKeys(p) : TextOf(p)[key] # Thrown
      /\ \A key \in SerializedKeys(q) : TextOf(q)[key] # Thrown
  BY ObjectHasText
<1>4. ObjectText(p, TextOf(p)) = ObjectText(q, TextOf(q)) <=> Same(TextOf(p), TextOf(q))
  BY ObjectTextsEqual
<1>5. Says(p) = Says(q) <=> Same(Says(p), Says(q))
  BY DEF Says
<1>6. ASSUME SerializedKeys(p) = SerializedKeys(q), NEW key \in SerializedKeys(p)
      PROVE  TextOf(p)[key] = TextOf(q)[key] <=> Says(p)[key] = Says(q)[key]
  <2>1. key \in KeysOf(p) /\ key \in KeysOf(q) /\ key \in SerializedKeys(q)
    BY <1>1, <1>6
  <2>2. TextsAgree(ValueOf(p, key), ValueOf(q, key))
    BY <2>1
  <2>3. Says(p)[key] = Meaning[ValueOf(p, key)] /\ Says(q)[key] = Meaning[ValueOf(q, key)]
    BY <1>6, <2>1 DEF Says
  <2>4. /\ TextOf(p)[key] = Serialize[ValueOf(p, key)] /\ TextOf(q)[key] = Serialize[ValueOf(q, key)]
        /\ TextOf(p)[key] # Thrown /\ TextOf(q)[key] # Thrown
    BY <1>2, <1>3, <1>6, <2>1
  <2> QED
    BY <2>2, <2>3, <2>4, Zenon DEF TextsAgree
<1>7. Same(TextOf(p), TextOf(q)) <=> Same(Says(p), Says(q))
  <2>1. CASE SerializedKeys(p) = SerializedKeys(q)
    BY <1>6, <2>1
  <2>2. CASE SerializedKeys(p) # SerializedKeys(q)
    BY <2>2
  <2> QED
    BY <2>1, <2>2
<1> HIDE DEF Same
<1> QED
  BY <1>4, <1>5, <1>7

(* And so the values that are objects.                                     *)
LEMMA ObjectsAgree ==
    ASSUME NEW v \in Values, NEW w \in Values, v.type = "object", w.type = "object",
           \A x \in PartsOf(v), y \in PartsOf(w) : TextsAgree(x, y)
    PROVE  TextsAgree(v, w)
<1> SUFFICES ASSUME Serialize[v] # Thrown, Serialize[w] # Thrown
             PROVE  Serialize[v] = Serialize[w] <=> Meaning[v] = Meaning[w]
  BY DEF TextsAgree
<1>1. PairsOK(v.of) /\ PairsOK(w.of)
  BY PartsHold
<1>2. \A k \in KeysOf(v.of), l \in KeysOf(w.of) : TextsAgree(ValueOf(v.of, k), ValueOf(w.of, l))
  BY PartsHold
<1>3. v.type # "array" /\ w.type # "array"
  OBVIOUS
<1>4. Serialize[v] = ObjectText(v.of, TextOf(v.of)) /\ Serialize[w] = ObjectText(w.of, TextOf(w.of))
  BY <1>3, SerializeExists, Zenon DEF TextStep, TextOf
<1>5. Meaning[v] = <<"object", Says(v.of)>> /\ Meaning[w] = <<"object", Says(w.of)>>
  BY <1>3, MeaningExists, Zenon DEF MeaningStep, Says
<1>6. Meaning[v] = Meaning[w] <=> Says(v.of) = Says(w.of)
  <2>1. \A x, y : <<"object", x>> = <<"object", y>> <=> x = y
    OBVIOUS
  <2> QED
    BY <1>5, <2>1
<1>7. Serialize[v] = Serialize[w] <=> Says(v.of) = Says(w.of)
  BY <1>1, <1>2, <1>4, ObjectsNameContent
<1> QED
  BY <1>6, <1>7

-----------------------------------------------------------------------------
(* What a value with a text reads as.                                      *)
LEMMA Readings ==
    ASSUME NEW v \in Values, Serialize[v] # Thrown
    PROVE  /\ v.type = "array" =>
                 \E x, y : Serialize[v] = [token |-> "array", items |-> x] /\ Meaning[v] = <<"array", y>>
           /\ v.type = "object" =>
                 \E x, y : Serialize[v] = [token |-> "object", pairs |-> x] /\ Meaning[v] = <<"object", y>>
           /\ Scalar(v) => Serialize[v] = ScalarText(v) /\ Meaning[v] = ScalarMeaning(v)
<1>1. ASSUME v.type = "array"
      PROVE  \E x, y : Serialize[v] = [token |-> "array", items |-> x] /\ Meaning[v] = <<"array", y>>
  <2> DEFINE items == [n \in DOMAIN v.of |-> Serialize[v.of[n]]]
             meanings == [n \in DOMAIN v.of |-> Meaning[v.of[n]]]
  <2>1. Serialize[v] = ArrayText(items) /\ Meaning[v] = <<"array", meanings>>
    BY <1>1, SerializeExists, MeaningExists DEF TextStep, MeaningStep
  <2> HIDE DEF items, meanings
  <2>2. Serialize[v] = [token |-> "array", items |-> items]
    BY <2>1, ArrayTexts
  <2> QED
    BY <2>1, <2>2
<1>2. ASSUME v.type = "object"
      PROVE  \E x, y : Serialize[v] = [token |-> "object", pairs |-> x] /\ Meaning[v] = <<"object", y>>
  <2>1. v.type # "array" /\ PairsOK(v.of)
    BY <1>2, PartsHold
  <2>2. Serialize[v] = ObjectText(v.of, TextOf(v.of))
    BY <1>2, <2>1, SerializeExists, Zenon DEF TextStep, TextOf
  <2>3. Meaning[v] = <<"object", Says(v.of)>>
    BY <1>2, <2>1, MeaningExists, Zenon DEF MeaningStep, Says
  <2>4. Serialize[v] = [token |-> "object", pairs |-> PairTexts(v.of, TextOf(v.of))]
    BY <2>1, <2>2, ObjectHasText
  <2> QED
    BY <2>3, <2>4
<1>3. Scalar(v) => Serialize[v] = ScalarText(v) /\ Meaning[v] = ScalarMeaning(v)
  BY SerializeExists, MeaningExists, Zenon DEF TextStep, MeaningStep, Scalar
<1> QED
  BY <1>1, <1>2, <1>3

(* Values of different kinds have different texts, and different meanings. *)
LEMMA KindsDiffer ==
    ASSUME NEW v \in Values, NEW w \in Values, Serialize[v] # Thrown, Serialize[w] # Thrown,
           \/ v.type = "array" /\ w.type # "array"
           \/ v.type = "object" /\ w.type # "object"
    PROVE  Serialize[v] # Serialize[w] /\ Meaning[v] # Meaning[w]
<1>1. ASSUME NEW u \in Values, Serialize[u] # Thrown, u.type = "array"
      PROVE  \E x, y : Serialize[u] = [token |-> "array", items |-> x] /\ Meaning[u] = <<"array", y>>
  BY <1>1, Readings
<1>2. ASSUME NEW u \in Values, Serialize[u] # Thrown, u.type = "object"
      PROVE  \E x, y : Serialize[u] = [token |-> "object", pairs |-> x] /\ Meaning[u] = <<"object", y>>
  BY <1>2, Readings
<1>3. CASE Scalar(w)
  <2>1. Serialize[w] = ScalarText(w) /\ Meaning[w] = ScalarMeaning(w)
    BY <1>3, Readings
  <2>2. CASE v.type = "array"
    <3>1. PICK x, y : Serialize[v] = [token |-> "array", items |-> x] /\ Meaning[v] = <<"array", y>>
      BY <1>1, <2>2
    <3> QED
      BY <1>3, <2>1, <3>1, ScalarsAreNoTrees, Zenon
  <2>3. CASE v.type = "object"
    <3>1. PICK x, y : Serialize[v] = [token |-> "object", pairs |-> x] /\ Meaning[v] = <<"object", y>>
      BY <1>2, <2>3
    <3> QED
      BY <1>3, <2>1, <3>1, ScalarsAreNoTrees, Zenon
  <2> QED
    BY <2>2, <2>3
<1>4. ASSUME NEW t \in Values, NEW u \in Values, Serialize[t] # Thrown, Serialize[u] # Thrown,
             t.type = "array", u.type = "object"
      PROVE  Serialize[t] # Serialize[u] /\ Meaning[t] # Meaning[u]
  <2>1. PICK x, y : Serialize[t] = [token |-> "array", items |-> x] /\ Meaning[t] = <<"array", y>>
    BY <1>1, <1>4
  <2>2. PICK z, m : Serialize[u] = [token |-> "object", pairs |-> z] /\ Meaning[u] = <<"object", m>>
    BY <1>2, <1>4
  <2> QED
    BY <2>1, <2>2, ArraysAreNoObjects, Zenon
<1> QED
  BY <1>3, <1>4 DEF Scalar

(* By induction on the depth of the values.                                *)
LEMMA TextNamesMeaning == \A v, w \in Values : TextsAgree(v, w)
<1>1. PICK depth : IsDepth(depth)
  BY DepthExists
<1> DEFINE T == {k \in Nat : \A v, w \in Shallow(depth, k) : TextsAgree(v, w)}
<1>2. 0 \in T
  BY <1>1, ShallowGrows
<1>3. ASSUME NEW k \in Nat, k \in T
      PROVE  k + 1 \in T
  <2>1. ASSUME NEW v \in Shallow(depth, k + 1), NEW w \in Shallow(depth, k + 1)
        PROVE  TextsAgree(v, w)
    <3>1. v \in Values /\ w \in Values
      BY DEF Shallow
    <3>2. \A x \in PartsOf(v), y \in PartsOf(w) : TextsAgree(x, y)
      <4>1. PartsOf(v) \subseteq Shallow(depth, k) /\ PartsOf(w) \subseteq Shallow(depth, k)
        BY <1>1, ShallowGrows
      <4> QED
        BY <1>3, <4>1
    <3>3. CASE v.type = "array" /\ w.type = "array"
      <4>1. \A n \in DOMAIN v.of, m \in DOMAIN w.of : TextsAgree(v.of[n], w.of[m])
        BY <3>1, <3>2, <3>3, PartsHold
      <4> QED
        BY <3>1, <3>3, <4>1, ArraysAgree
    <3>4. CASE v.type = "object" /\ w.type = "object"
      BY <3>1, <3>2, <3>4, ObjectsAgree
    <3>5. CASE Scalar(v) /\ Scalar(w)
      <4>1. ASSUME Serialize[v] # Thrown, Serialize[w] # Thrown
            PROVE  Serialize[v] = Serialize[w] <=> Meaning[v] = Meaning[w]
        <5>1. Serialize[v] = ScalarText(v) /\ Meaning[v] = ScalarMeaning(v)
          BY <3>1, <3>5, <4>1, Readings
        <5>2. Serialize[w] = ScalarText(w) /\ Meaning[w] = ScalarMeaning(w)
          BY <3>1, <3>5, <4>1, Readings
        <5> QED
          BY <3>1, <3>5, <4>1, <5>1, <5>2, ScalarNames
      <4> QED
        BY <4>1 DEF TextsAgree
    <3>6. ASSUME \/ v.type = "array" /\ w.type # "array"
                 \/ v.type = "object" /\ w.type # "object"
                 \/ w.type = "array" /\ v.type # "array"
                 \/ w.type = "object" /\ v.type # "object"
          PROVE  TextsAgree(v, w)
      <4>1. ASSUME Serialize[v] # Thrown, Serialize[w] # Thrown
            PROVE  Serialize[v] # Serialize[w] /\ Meaning[v] # Meaning[w]
        BY <3>1, <3>6, <4>1, KindsDiffer
      <4> QED
        BY <4>1 DEF TextsAgree
    <3> QED
      BY <3>3, <3>4, <3>5, <3>6 DEF Scalar
  <2> QED
    BY <2>1
<1> HIDE DEF T
<1>4. MaxDepth + 1 \in T
  BY <1>2, <1>3, Induction, BoundsAreNumbers
<1>5. \A v, w \in Shallow(depth, MaxDepth + 1) : TextsAgree(v, w)
  BY <1>4 DEF T
<1> QED
  BY <1>1, <1>5, ShallowGrows, BoundsAreNumbers

(* What the object of a side says.                                         *)
LEMMA TextNamesContent ==
    ASSUME NEW p, NEW q, PairsOK(p), PairsOK(q),
           SerializeObject(p) # Thrown, SerializeObject(q) # Thrown
    PROVE  SerializeObject(p) = SerializeObject(q)
             <=> Content(p, PropertyNames) = Content(q, PropertyNames)
<1>1. /\ SerializeObject(p) = ObjectText(p, TextOf(p))
      /\ SerializeObject(q) = ObjectText(q, TextOf(q))
  BY Zenon DEF SerializeObject, TextOf
<1>2. /\ PropertyNames \cap SerializedKeys(p) = SerializedKeys(p)
      /\ PropertyNames \cap SerializedKeys(q) = SerializedKeys(q)
  BY PairsHold
<1>3. Content(p, PropertyNames) = Says(p) /\ Content(q, PropertyNames) = Says(q)
  BY <1>2, Zenon DEF Content, Says
<1>4. \A k \in KeysOf(p), l \in KeysOf(q) : TextsAgree(ValueOf(p, k), ValueOf(q, l))
  BY PairsHold, TextNamesMeaning
<1> QED
  BY <1>1, <1>3, <1>4, ObjectsNameContent

-----------------------------------------------------------------------------
(* The KYC fields of an object.                                            *)
LEMMA KycFieldsDiffer ==
    /\ KYC_HASH_FIELDS_V1 \in Seq(ToSet(KYC_HASH_FIELDS_V1)) /\ Distinct(KYC_HASH_FIELDS_V1)
    /\ Members(KYC_HASH_FIELDS_V1) = ToSet(KYC_HASH_FIELDS_V1)
<1>1. DOMAIN KYC_HASH_FIELDS_V1 = 1..8
  BY DEF KYC_HASH_FIELDS_V1
<1>2. KYC_HASH_FIELDS_V1 \in Seq(ToSet(KYC_HASH_FIELDS_V1)) /\ Len(KYC_HASH_FIELDS_V1) = 8
  <2>1. KYC_HASH_FIELDS_V1 = [n \in 1..8 |-> KYC_HASH_FIELDS_V1[n]]
    BY DEF KYC_HASH_FIELDS_V1
  <2>2. KYC_HASH_FIELDS_V1 \in [1..8 -> ToSet(KYC_HASH_FIELDS_V1)]
    BY <2>1 DEF ToSet
  <2>3. KYC_HASH_FIELDS_V1 \in Seq(ToSet(KYC_HASH_FIELDS_V1))
    BY <2>2, SeqDef
  <2> QED
    BY <2>1, <2>3, ListOfLength
<1> DEFINE place(name) ==
        IF name = "addressCity" THEN 1 ELSE IF name = "addressCountry" THEN 2
        ELSE IF name = "addressLine1" THEN 3 ELSE IF name = "dateOfBirth" THEN 4
        ELSE IF name = "fullName" THEN 5 ELSE IF name = "governmentIdHash" THEN 6
        ELSE IF name = "governmentIdType" THEN 7 ELSE 8
<1>3. \A n \in 1..8 : place(KYC_HASH_FIELDS_V1[n]) = n
  BY DEF KYC_HASH_FIELDS_V1
<1> HIDE DEF place
<1>4. \A m, n \in 1..8 : KYC_HASH_FIELDS_V1[m] = KYC_HASH_FIELDS_V1[n] => m = n
  BY <1>3
<1> QED
  BY <1>1, <1>2, <1>4 DEF Distinct, Members, ToSet

KycFields(pairs) == InOrder(KYC_HASH_FIELDS_V1, DefinedKeys(pairs))

Extracted(pairs) ==
    [n \in DOMAIN KycFields(pairs) |-> pairs[PositionOf(pairs, KycFields(pairs)[n])]]

(* The object that is hashed says what the given one says of the KYC       *)
(* fields.                                                                 *)
LEMMA ExtractedPairs ==
    ASSUME NEW pairs, PairsOK(pairs)
    PROVE  /\ PairsOK(Extracted(pairs))
           /\ Content(Extracted(pairs), PropertyNames)
                = Content(pairs, PropertyNames \cap ToSet(KYC_HASH_FIELDS_V1))
<1> DEFINE fields == KycFields(pairs)
           e == Extracted(pairs)
           kyc == ToSet(KYC_HASH_FIELDS_V1)
<1>1. fields \in Seq(kyc) /\ DOMAIN fields = 1..Len(fields) /\ Len(fields) \in Nat
  BY KycFieldsDiffer, InOrderSelects, LenProperties DEF KycFields
<1>2. Members(fields) = DefinedKeys(pairs) \cap kyc
  BY KycFieldsDiffer, InOrderSelects DEF KycFields
<1>3. \A n \in DOMAIN fields : fields[n] \in DefinedKeys(pairs)
  BY <1>1, <1>2, Zenon DEF Members
<1>4. DOMAIN e = DOMAIN fields /\ \A n \in DOMAIN fields : e[n] = pairs[PositionOf(pairs, fields[n])]
  BY DEF Extracted
<1>5. \A n \in DOMAIN fields : e[n] \in PropertyNames \X Values /\ e[n][1] = fields[n]
  BY <1>3, <1>4, PairsHold DEF DefinedKeys
<1>6. PairsOK(e)
  <2>1. e = [n \in 1..Len(fields) |-> e[n]]
    BY <1>1, <1>4 DEF Extracted
  <2> HIDE DEF e, fields
  <2>2. e \in [1..Len(fields) -> PropertyNames \X Values]
    BY <1>1, <1>5, <2>1
  <2> QED
    BY <1>1, <2>2, SeqDef DEF PairsOK
<1> HIDE DEF e, fields
<1>7. KeysOf(e) = DefinedKeys(pairs) \cap kyc
  <2>1. KeysOf(e) = {fields[n] : n \in DOMAIN fields}
    BY <1>4, <1>5 DEF KeysOf
  <2> QED
    BY <1>1, <1>2, <2>1, Zenon DEF Members
<1>8. ASSUME NEW key \in KeysOf(e)
      PROVE  ValueOf(e, key) = ValueOf(pairs, key)
  <2>1. PositionOf(e, key) \in DOMAIN fields /\ e[PositionOf(e, key)][1] = key
    BY <1>4, <1>6, PairsHold
  <2>2. e[PositionOf(e, key)] = pairs[PositionOf(pairs, key)]
    BY <1>4, <1>5, <2>1
  <2> QED
    BY <2>2, Zenon DEF ValueOf
<1>9. SerializedKeys(e) = SerializedKeys(pairs) \cap kyc
  <2>1. SerializedKeys(pairs) \subseteq DefinedKeys(pairs)
    BY DEF SerializedKeys, DefinedKeys
  <2>2. SerializedKeys(e)
          = {key \in KeysOf(e) : ValueOf(pairs, key).type \notin {"undefined", "function", "symbol"}}
    BY <1>8 DEF SerializedKeys
  <2>3. DefinedKeys(pairs) \subseteq KeysOf(pairs)
    BY DEF DefinedKeys
  <2> QED
    BY <1>7, <2>1, <2>2, <2>3 DEF SerializedKeys
<1>10. PropertyNames \cap SerializedKeys(e) = (PropertyNames \cap kyc) \cap SerializedKeys(pairs)
  BY <1>9
<1>11. \A key \in PropertyNames \cap SerializedKeys(e) : ValueOf(e, key) = ValueOf(pairs, key)
  BY <1>8 DEF SerializedKeys
<1>12. [key \in PropertyNames \cap SerializedKeys(e) |-> Meaning[ValueOf(e, key)]]
         = [key \in PropertyNames \cap SerializedKeys(e) |-> Meaning[ValueOf(pairs, key)]]
  BY <1>11
<1> QED
  BY <1>6, <1>10, <1>12, Zenon DEF Content, e, kyc

(* A digest is its preimage: hashes are equal where the texts are.         *)
LEMMA HashesFollow ==
    ASSUME NEW p, NEW q, PairsOK(p), PairsOK(q)
    PROVE  /\ CanonicalHash(p) # Thrown /\ CanonicalHash(q) # Thrown =>
                 (CanonicalHash(p) = CanonicalHash(q) <=> Content(p, PropertyNames) = Content(q, PropertyNames))
           /\ HashKycCanonical(p) # Thrown /\ HashKycCanonical(q) # Thrown =>
                 (HashKycCanonical(p) = HashKycCanonical(q)
                    <=> Content(p, PropertyNames \cap ToSet(KYC_HASH_FIELDS_V1))
                          = Content(q, PropertyNames \cap ToSet(KYC_HASH_FIELDS_V1)))
<1>1. \A x, y : [token |-> "sha256", text |-> x] = [token |-> "sha256", text |-> y] <=> x = y
  <2>1. \A x : [token |-> "sha256", text |-> x].text = x
    OBVIOUS
  <2> QED
    BY <2>1, Zenon
<1>2. \A r : CanonicalHash(r) = IF SerializeObject(r) = Thrown THEN Thrown
                                ELSE [token |-> "sha256", text |-> SerializeObject(r)]
  BY Zenon DEF CanonicalHash
<1>3. \A r : HashKycCanonical(r) =
                 IF SerializeObject(Extracted(r)) = Thrown THEN Thrown
                 ELSE [token |-> "sha256", text |-> <<HASH_VERSION, SerializeObject(Extracted(r))>>]
  BY Zenon DEF HashKycCanonical, Extracted, KycFields
<1>4. ASSUME CanonicalHash(p) # Thrown, CanonicalHash(q) # Thrown
      PROVE  CanonicalHash(p) = CanonicalHash(q) <=> Content(p, PropertyNames) = Content(q, PropertyNames)
  BY <1>1, <1>2, <1>4, TextNamesContent
<1>5. ASSUME HashKycCanonical(p) # Thrown, HashKycCanonical(q) # Thrown
      PROVE  HashKycCanonical(p) = HashKycCanonical(q)
               <=> Content(Extracted(p), PropertyNames) = Content(Extracted(q), PropertyNames)
  <2>1. /\ SerializeObject(Extracted(p)) # Thrown /\ SerializeObject(Extracted(q)) # Thrown
        /\ HashKycCanonical(p) = [token |-> "sha256", text |-> <<HASH_VERSION, SerializeObject(Extracted(p))>>]
        /\ HashKycCanonical(q) = [token |-> "sha256", text |-> <<HASH_VERSION, SerializeObject(Extracted(q))>>]
    BY <1>3, <1>5, Zenon
  <2>2. \A x, y : <<HASH_VERSION, x>> = <<HASH_VERSION, y>> <=> x = y
    OBVIOUS
  <2>3. HashKycCanonical(p) = HashKycCanonical(q)
          <=> SerializeObject(Extracted(p)) = SerializeObject(Extracted(q))
    BY <1>1, <2>1, <2>2
  <2>4. PairsOK(Extracted(p)) /\ PairsOK(Extracted(q))
    BY ExtractedPairs
  <2> QED
    BY <2>1, <2>3, <2>4, TextNamesContent
<1>6. /\ Content(Extracted(p), PropertyNames) = Content(p, PropertyNames \cap ToSet(KYC_HASH_FIELDS_V1))
      /\ Content(Extracted(q), PropertyNames) = Content(q, PropertyNames \cap ToSet(KYC_HASH_FIELDS_V1))
  BY ExtractedPairs
<1> QED
  BY <1>4, <1>5, <1>6, Zenon

-----------------------------------------------------------------------------
JsonInv == object = [s \in Sides |-> object[s]] /\ \A s \in Sides : PairsOK(object[s])

(* Two empty objects at first.                                             *)
LEMMA JsonInitInv == JsonInit => JsonInv
BY DEF JsonInit, JsonInv, PairsOK

(* An assignment leaves an object of keys and values.                      *)
LEMMA AssignInv ==
    ASSUME JsonInv, NEW s \in Sides, NEW key \in Keys, NEW v \in Assigned, Assign(s, key, v)
    PROVE  JsonInv'
<1> DEFINE pairs == object[s]
           new == IF key \in KeysOf(pairs) THEN [pairs EXCEPT ![PositionOf(pairs, key)] = <<key, v>>]
                  ELSE Append(pairs, <<key, v>>)
<1>1. object' = [object EXCEPT ![s] = new]
  BY Zenon DEF Assign
<1>2. pairs \in Seq(PropertyNames \X Values) /\ <<key, v>> \in PropertyNames \X Values
  BY KeysOrdered, AssignedAreValues DEF JsonInv, PairsOK
<1>3. PairsOK(new)
  <2>1. CASE key \in KeysOf(pairs)
    <3>2. \A n \in 1..Len(pairs) : [pairs EXCEPT ![n] = <<key, v>>] \in Seq(PropertyNames \X Values)
      BY <1>2, ExceptSeq
    <3>3. PositionOf(pairs, key) \in 1..Len(pairs)
      BY <1>2, <2>1, PairsHold, LenProperties DEF PairsOK
    <3>1. [pairs EXCEPT ![PositionOf(pairs, key)] = <<key, v>>] \in Seq(PropertyNames \X Values)
      BY <3>2, <3>3, Zenon
    <3> QED
      BY <2>1, <3>1 DEF PairsOK
  <2>2. CASE key \notin KeysOf(pairs)
    BY <1>2, <2>2, AppendProperties DEF PairsOK
  <2> QED
    BY <2>1, <2>2
<1> HIDE DEF new
<1> QED
  BY <1>1, <1>3 DEF JsonInv

(* And so does a deletion.                                                 *)
LEMMA DeleteInv ==
    ASSUME JsonInv, NEW s \in Sides, NEW key \in Keys, Delete(s, key)
    PROVE  JsonInv'
<1> DEFINE pairs == object[s]
           n == PositionOf(pairs, key)
           new == RemoveAt(pairs, n)
<1>1. object' = [object EXCEPT ![s] = new]
  BY Zenon DEF Delete
<1>2. PairsOK(pairs) /\ key \in KeysOf(pairs)
  BY DEF JsonInv, Delete
<1>3. n \in 1..Len(pairs) /\ Len(pairs) \in Nat /\ pairs \in Seq(PropertyNames \X Values)
  BY <1>2, PairsHold, LenProperties DEF PairsOK
<1> HIDE DEF n, pairs
<1>4. SubSeq(pairs, 1, n - 1) \in Seq(PropertyNames \X Values)
  <2>1. \A m \in 1..n - 1 : m \in 1..Len(pairs)
    BY <1>3
  <2> QED
    BY <1>3, <2>1, SubSeqProperties
<1>5. SubSeq(pairs, n + 1, Len(pairs)) \in Seq(PropertyNames \X Values)
  <2>1. \A m \in n + 1..Len(pairs) : m \in 1..Len(pairs)
    BY <1>3
  <2> QED
    BY <1>3, <2>1, SubSeqProperties
<1>6. PairsOK(new)
  BY <1>4, <1>5, ConcatProperties DEF PairsOK, RemoveAt
<1> HIDE DEF new
<1> QED
  BY <1>1, <1>6 DEF JsonInv

(* Every step keeps the invariant.                                         *)
LEMMA JsonStepInv == JsonInv /\ [JsonNext]_jsonVars => JsonInv'
<1> SUFFICES ASSUME JsonInv, [JsonNext]_jsonVars PROVE JsonInv'
  OBVIOUS
<1>1. CASE UNCHANGED jsonVars
  BY <1>1 DEF jsonVars, JsonInv
<1> QED
  BY <1>1, AssignInv, DeleteInv DEF JsonNext

(* The invariant holds of the specification.                               *)
LEMMA JsonInvariant == JsonSpec => []JsonInv
BY JsonInitInv, JsonStepInv, PTL DEF JsonSpec

(* What the hashes of two sides say.                                       *)
LEMMA HashesNameContent == JsonInv => HashNamesContent
BY HashesFollow, Zenon DEF JsonInv, HashNamesContent

(* Two sides that get a hash get the same one exactly when their objects   *)
(* say the same, for values nested in one another to any depth, and any    *)
(* history of edits on each side.                                          *)
THEOREM HashNamesContentCorrect == JsonSpec => []HashNamesContent
BY HashesNameContent, JsonInvariant, PTL

-----------------------------------------------------------------------------
(* The calls of the SDK.                                                   *)
CallerRecord == [step : {"idle", "waiting", "returned", "threw"},
                 request : Requests \cup {Absent}, try : Nat]

(* A transaction is a try of its caller's one request.                     *)
SentByCaller(tx) ==
    LET me == caller[tx.by]
    IN  /\ tx.by \in Callers /\ me.request \in Requests
        /\ tx.try \in 1..me.try
        /\ tx.instruction = Instruction(me.request, KeyOf(me.request, tx.by, tx.try))

SdkInv ==
    /\ caller \in [Callers -> CallerRecord]
    /\ \A c \in Callers : caller[c].step = "idle" => caller[c].try = 0
    /\ \A c \in Callers : caller[c].step # "idle" => caller[c].request \in Requests
    /\ \A tx \in flying \cup executed : SentByCaller(tx)
    /\ \A tx \in executed : tx.instruction.init \cup tx.instruction.open \subseteq accounts
    /\ \A t, u \in executed : t # u => t.instruction.init \cap u.instruction.init = {}
    /\ \A c \in Callers : caller[c].step = "returned" =>
          \E tx \in executed : tx.by = c /\ tx.try = caller[c].try

-----------------------------------------------------------------------------
(* Of the methods that initialise an account, two alone derive its address *)
(* from a nonce.                                                           *)
LEMMA AddressFollowsFromRequest ==
    ASSUME NEW r \in Requests, NEW k, NEW l,
           r.method \notin {"executeCompliantTransfer", "recordTravelRule"}
    PROVE  Instruction(r, k).init = Instruction(r, l).init
<1>1. CASE r.method = "setCompliancePolicy"
  <2>1. \A m : Instruction(r, m) = SetCompliancePolicyCall(r, m)
    BY <1>1 DEF Instruction
  <2>2. \A m : SetCompliancePolicyCall(r, m).init = {}
    BY DEF SetCompliancePolicyCall, Opening
  <2> QED
    BY <2>1, <2>2
<1>2. CASE r.method # "setCompliancePolicy"
  BY <1>2, RequestsNameMethods DEF Instruction, Methods
<1> QED
  BY <1>1, <1>2

(* A set any two elements of which are equal has at most one.              *)
LEMMA AtMostOne ==
    ASSUME NEW S, \A t, u \in S : t = u
    PROVE  Cardinality(S) <= 1
<1>1. CASE S = {}
  BY <1>1, FS_EmptySet
<1>2. CASE S # {}
  <2>1. PICK t : S = {t}
    BY <1>2
  <2>2. Cardinality({t}) = 1
    BY FS_Singleton
  <2> QED
    BY <2>1, <2>2
<1> QED
  BY <1>1, <1>2

-----------------------------------------------------------------------------
(* No call is made at first.                                               *)
LEMMA SdkInitInv == SdkInit => SdkInv
BY DEF SdkInit, SdkInv, CallerRecord

(* A call sends one transaction more, of the request it retries.           *)
LEMMA CallMethodInv ==
    ASSUME SdkInv, NEW c \in Callers, NEW r \in Requests, CallMethod(c, r)
    PROVE  SdkInv'
<1> USE DEF SdkInv
<1> DEFINE try == caller[c].try + 1
           sent == [by |-> c, try |-> try, key |-> KeyOf(r, c, try),
                    instruction |-> Instruction(r, KeyOf(r, c, try))]
<1>1. /\ try \in Nat /\ try >= 1
      /\ \/ caller[c].try = 0
         \/ caller[c].request = r /\ r \in Requests
      /\ caller' = [caller EXCEPT ![c] = [step |-> "waiting", request |-> r, try |-> try]]
      /\ flying' = flying \cup {sent}
      /\ UNCHANGED <<executed, accounts>>
  BY DEF CallMethod, CallerRecord
<1>2. /\ caller' \in [Callers -> CallerRecord]
      /\ caller'[c] = [step |-> "waiting", request |-> r, try |-> try]
      /\ \A d \in Callers \ {c} : caller'[d] = caller[d]
  BY <1>1 DEF CallerRecord
<1> HIDE DEF try
<1>3. ASSUME NEW tx, tx = sent
      PROVE  SentByCaller(tx)'
  <2>1. /\ tx.by = c /\ tx.try = try
        /\ tx.instruction = Instruction(r, KeyOf(r, c, try))
    BY <1>3
  <2>2. caller'[c].request = r /\ caller'[c].try = try
    BY <1>2
  <2> QED
    BY <1>1, <2>1, <2>2 DEF SentByCaller
<1> HIDE DEF sent
<1>4. ASSUME NEW tx \in flying \cup executed
      PROVE  SentByCaller(tx)'
  <2>1. SentByCaller(tx)
    OBVIOUS
  <2>2. CASE tx.by = c
    <3>1. caller[c].try \in Nat /\ tx.try \in 1..caller[c].try /\ caller[c].request = r
      BY <1>1, <2>1, <2>2 DEF SentByCaller, CallerRecord
    <3>2. tx.try \in 1..try
      BY <3>1 DEF try
    <3> QED
      BY <1>2, <2>1, <2>2, <3>1, <3>2 DEF SentByCaller
  <2>3. CASE tx.by # c
    BY <1>2, <2>1, <2>3 DEF SentByCaller
  <2> QED
    BY <2>2, <2>3
<1>5. \A tx \in (flying \cup executed)' : SentByCaller(tx)'
  BY <1>1, <1>3, <1>4
<1> QED
  BY <1>1, <1>2, <1>5

(* A transaction is executed where none of its accounts is there.          *)
LEMMA ExecuteInv ==
    ASSUME SdkInv, NEW tx \in flying, Execute(tx)
    PROVE  SdkInv'
<1> USE DEF SdkInv
<1>1. /\ executed' = executed \cup {tx} /\ flying' = flying \ {tx} /\ UNCHANGED caller
      /\ accounts' = accounts \cup tx.instruction.init \cup tx.instruction.open
      /\ tx.instruction.init \cap accounts = {}
  BY DEF Execute
<1>2. \A t \in (flying \cup executed)' : SentByCaller(t)'
  BY <1>1 DEF SentByCaller
<1>3. \A t \in executed' : t.instruction.init \cup t.instruction.open \subseteq accounts'
  BY <1>1
<1>4. \A t \in executed : t.instruction.init \cap tx.instruction.init = {}
  BY <1>1
<1>5. \A t, u \in executed' : t # u => t.instruction.init \cap u.instruction.init = {}
  BY <1>1, <1>4
<1>6. \A c \in Callers : caller'[c].step = "returned" =>
         \E t \in executed' : t.by = c /\ t.try = caller'[c].try
  BY <1>1
<1> QED
  BY <1>1, <1>2, <1>3, <1>5, <1>6

(* The caller's own steps change nothing but where it is.                  *)
LEMMA AnswerInv ==
    ASSUME SdkInv, NEW c \in Callers, Return(c) \/ Throw(c)
    PROVE  SdkInv'
<1> USE DEF SdkInv
<1>1. /\ caller[c].step = "waiting"
      /\ \E step \in {"returned", "threw"} : caller' = [caller EXCEPT ![c].step = step]
      /\ UNCHANGED <<flying, executed, accounts>>
  BY DEF Return, Throw
<1>2. /\ caller' \in [Callers -> CallerRecord]
      /\ \A d \in Callers : caller'[d].request = caller[d].request /\ caller'[d].try = caller[d].try
      /\ \A d \in Callers \ {c} : caller'[d] = caller[d]
      /\ caller'[c].step # "idle"
  BY <1>1 DEF CallerRecord
<1>3. \A tx \in flying \cup executed : SentByCaller(tx)'
  BY <1>2 DEF SentByCaller
<1>4. caller'[c].step = "returned" => \E tx \in executed : tx.by = c /\ tx.try = caller[c].try
  <2>1. CASE Return(c)
    BY <2>1 DEF Return, Confirmed, Of
  <2>2. CASE Throw(c)
    BY <2>2 DEF Throw
  <2> QED
    BY <2>1, <2>2
<1> QED
  BY <1>1, <1>2, <1>3, <1>4

(* Every step keeps the invariant.                                         *)
LEMMA SdkStepInv == SdkInv /\ [SdkNext]_sdkVars => SdkInv'
<1> SUFFICES ASSUME SdkInv, [SdkNext]_sdkVars
             PROVE  SdkInv'
  OBVIOUS
<1>1. ASSUME NEW tx \in flying, Lapse(tx)
      PROVE  SdkInv'
  BY <1>1 DEF Lapse, SdkInv, SentByCaller
<1>2. CASE UNCHANGED sdkVars
  BY <1>2 DEF sdkVars, SdkInv, SentByCaller
<1> QED
  BY <1>1, <1>2, CallMethodInv, ExecuteInv, AnswerInv DEF SdkNext

(* The invariant holds of the specification.                               *)
LEMMA SdkInvariant == SdkSpec => []SdkInv
BY SdkInitInv, SdkStepInv, PTL DEF SdkSpec

-----------------------------------------------------------------------------
(* Two tries under one key would initialise the same accounts.             *)
LEMMA OnceFollows == SdkInv => OnceUnderItsKey
<1> SUFFICES ASSUME SdkInv, NEW c \in Callers, caller[c].request # Absent,
                    \/ caller[c].request.key # Absent
                    \/ caller[c].request.method \notin {"executeCompliantTransfer", "recordTravelRule"}
             PROVE  Cardinality({tx \in Executions(c) : tx.instruction.init # {}}) <= 1
  BY DEF OnceUnderItsKey
<1> DEFINE r == caller[c].request
<1>1. r \in Requests
  BY DEF SdkInv, CallerRecord
<1>2. ASSUME NEW k \in Nat, NEW l \in Nat
      PROVE  Instruction(r, KeyOf(r, c, k)).init = Instruction(r, KeyOf(r, c, l)).init
  <2>1. CASE r.key # Absent
    <3>1. KeyOf(r, c, k) = r.key /\ KeyOf(r, c, l) = r.key
      BY <2>1 DEF KeyOf
    <3> QED
      BY <3>1
  <2>2. CASE r.method \notin {"executeCompliantTransfer", "recordTravelRule"}
    BY <1>1, <2>2, AddressFollowsFromRequest
  <2> QED
    BY <2>1, <2>2
<1>3. ASSUME NEW t \in Executions(c), NEW u \in Executions(c),
             t.instruction.init # {}, u.instruction.init # {}
      PROVE  t = u
  <2>1. /\ t \in executed /\ u \in executed /\ SentByCaller(t) /\ SentByCaller(u)
        /\ t.by = c /\ u.by = c
    BY DEF Executions, SdkInv
  <2>2. /\ t.try \in Nat /\ t.instruction = Instruction(r, KeyOf(r, c, t.try))
        /\ u.try \in Nat /\ u.instruction = Instruction(r, KeyOf(r, c, u.try))
    BY <2>1 DEF SentByCaller, SdkInv, CallerRecord
  <2>3. t.instruction.init = u.instruction.init
    BY <1>2, <2>2
  <2> QED
    BY <1>3, <2>1, <2>3 DEF SdkInv
<1> DEFINE S == {tx \in Executions(c) : tx.instruction.init # {}}
<1>4. \A t, u \in S : t = u
  BY <1>3
<1> QED
  BY <1>4, AtMostOne

(* A method returns after its transaction was confirmed.                   *)
LEMMA ReturnedFollows == SdkInv => ReturnedIsExecuted
BY DEF SdkInv, ReturnedIsExecuted, Executions

(* A retry after a lost answer never moves tokens or attests again, when   *)
(* the caller chose the key or the address follows from its request.       *)
THEOREM OnceCorrect == SdkSpec => []OnceUnderItsKey
BY OnceFollows, SdkInvariant, PTL

(* No two transactions initialise one account, and a method returns only   *)
(* after its own transaction made the account it names.                    *)
THEOREM ReturnedCorrect == SdkSpec => []ReturnedIsExecuted
BY ReturnedFollows, SdkInvariant, PTL

-----------------------------------------------------------------------------
(* The composition.  Each of its steps is one of a single component, which *)
(* leaves the variables of the others alone.                               *)
KycDataInv == JsonInv /\ DisclosureInv /\ SdkInv

kycDataVars == <<jsonVars, disclosureVars, sdkVars>>

(* The components start as they do alone.                                  *)
LEMMA KycDataInitInv == KycDataInit => KycDataInv
BY JsonInitInv, DisclosureInitInv, SdkInitInv DEF KycDataInit, KycDataInv

(* A step of one component, or of none.                                    *)
LEMMA KycDataStepInv == KycDataInv /\ [KycDataNext]_kycDataVars => KycDataInv'
<1> SUFFICES ASSUME KycDataInv, [KycDataNext]_kycDataVars PROVE KycDataInv'
  OBVIOUS
<1>1. [JsonNext]_jsonVars /\ [DisclosureNext]_disclosureVars /\ [SdkNext]_sdkVars
  BY DEF KycDataNext, kycDataVars
<1> QED
  BY <1>1, JsonStepInv, DisclosureStepInv, SdkStepInv DEF KycDataInv

(* The invariant holds of the composition.                                 *)
LEMMA KycDataInvariant == KycDataSpec => []KycDataInv
<1>1. KycDataSpec => KycDataInit /\ [][KycDataNext]_kycDataVars
  BY DEF KycDataSpec, kycDataVars
<1> QED
  BY <1>1, KycDataInitInv, KycDataStepInv, PTL

(* What each component promises by itself it promises in the composition,  *)
(* which is the specification that the run of the three checks.            *)
THEOREM KycDataCorrect ==
    KycDataSpec => [](/\ HashNamesContent /\ ProofsVerify /\ RootsCommit
                      /\ StoredHashHoldsAtItsLevel /\ OnceUnderItsKey /\ ReturnedIsExecuted)
<1>1. KycDataInv => /\ HashNamesContent /\ ProofsVerify /\ RootsCommit
                    /\ StoredHashHoldsAtItsLevel /\ OnceUnderItsKey /\ ReturnedIsExecuted
  BY HashesNameContent, ProofsFollow, RootsFollow, StoredHashFollows, OnceFollows, ReturnedFollows
     DEF KycDataInv
<1> QED
  BY <1>1, KycDataInvariant, PTL
=============================================================================
