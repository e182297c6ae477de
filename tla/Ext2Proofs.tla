----------------------------- MODULE Ext2Proofs -----------------------------
(***************************************************************************)
(* For every size of the disk, of its groups, of the block maps and of the *)
(* directory blocks, any names, paths, links and sizes of files: blocks    *)
(* have one owner, free and link counts are right, names lead to inodes in *)
(* use and directories back, after every operation of lib/ext2.beer, one   *)
(* that threw half-way included, up to the first that freed blocks which   *)
(* are still mapped (spoiled); and until one threw half-way, nothing leaks.*)
(*                                                                         *)
(* The invariant, Fit and Whole, is a property of one disk.  One lemma per *)
(* helper says what it does to a disk, one per operation that a fit disk   *)
(* stays fit and a whole one whole.                                        *)
(***************************************************************************)
EXTENDS Ext2, FiniteSetTheorems, SequenceTheorems, WellFoundedInduction, TLAPS

\* Disks
Links == [absolute : BOOLEAN, long : BOOLEAN, path : Seq(AnyName)]
Inode == [type : {"none", "file", "dir", "symlink"}, links : Int,
          data : Seq(Block), ind : Seq(Block), target : Links]
Disk == [blocks : SUBSET Block, inodes : SUBSET Ino,
         gd_blocks : [Group -> Int], gd_inodes : [Group -> Int], gd_dirs : [Group -> Int],
         sb_blocks : Int, sb_inodes : Int,
         inode : [Ino -> Inode], entries : [Block -> [AnyName -> 0 .. NInodes]]]

\* What the free counts of blocks are to be
BlocksCounted(d) ==
  /\ \A g \in Group : d.gd_blocks[g] = Cardinality({b \in Block \ d.blocks : GroupOf(b) = g})
  /\ d.sb_blocks = Cardinality(Block \ d.blocks)

InodesCounted(d) ==
  /\ \A g \in Group : d.gd_inodes[g] = Cardinality({i \in Ino \ d.inodes : group_of_inode(i) = g})
  /\ d.sb_inodes = Cardinality(Ino \ d.inodes)

DirsOf(d) == {i \in d.inodes : d.inode[i].type = "dir"}
DirsCounted(d) ==
  \A g \in Group : d.gd_dirs[g] = Cardinality({i \in DirsOf(d) : group_of_inode(i) = g})

\* Only blocks, their counts and entries differ.
SameFiles(d, e) ==
  /\ e.inode = d.inode /\ e.inodes = d.inodes
  /\ e.gd_inodes = d.gd_inodes /\ e.gd_dirs = d.gd_dirs /\ e.sb_inodes = d.sb_inodes

-----------------------------------------------------------------------------
\* The sizes are positive numbers.
LEMMA Constants ==
  /\ NBlocks \in Nat \ {0} /\ BlocksPerGroup \in Nat \ {0}
  /\ NInodes \in Nat \ {0} /\ InodesPerGroup \in Nat \ {0}
  /\ NDirect \in Nat \ {0} /\ PtrsPerBlock \in Nat \ {0}
BY Ext2Assumption

\* Sets of blocks are finite.
LEMMA FiniteBlocks ==
  ASSUME NEW S \in SUBSET Block
  PROVE  IsFiniteSet(S) /\ Cardinality(S) \in Nat
<1>1. IsFiniteSet(Block)
  BY Constants, FS_Interval DEF Block
<1>2. IsFiniteSet(S)
  BY <1>1, FS_Subset
<1> QED BY <1>2, FS_CardinalityType

\* The root is an inode; 0 stands for none.
LEMMA RootIn == Root \in Ino /\ 0 \notin Ino
BY Constants DEF Root, Ino

\* Sets of inodes are finite.
LEMMA FiniteInodes ==
  ASSUME NEW S \in SUBSET Ino
  PROVE  IsFiniteSet(S) /\ Cardinality(S) \in Nat
<1>1. IsFiniteSet(Ino)
  BY Constants, FS_Interval DEF Ino
<1>2. IsFiniteSet(S)
  BY <1>1, FS_Subset
<1> QED BY <1>2, FS_CardinalityType

\* No two blocks have the same rank.
LEMMA RanksDiffer ==
  ASSUME NEW goal \in Int, NEW a \in Block, NEW b \in Block, a # b
  PROVE  Rank(goal, a) \in Int /\ Rank(goal, a) # Rank(goal, b)
<1> DEFINE x == (GroupOf(a) + NGroups - goal) % NGroups
           y == (GroupOf(b) + NGroups - goal) % NGroups
<1>1. x \in Int /\ y \in Int
  <2>1. NGroups \in Nat \ {0}
    BY Constants DEF NGroups, GroupOf
  <2>2. GroupOf(a) \in Int /\ GroupOf(b) \in Int
    BY Constants DEF GroupOf, Block
  <2> QED BY <2>1, <2>2
<1>2. Rank(goal, a) = x * NBlocks + a /\ Rank(goal, b) = y * NBlocks + b
  BY DEF Rank
<1> HIDE DEF x, y
<1>3. a \in 1 .. NBlocks /\ b \in 1 .. NBlocks /\ NBlocks \in Nat
  BY Constants DEF Block
<1>4. x * NBlocks \in Int /\ y * NBlocks \in Int
  BY <1>1, <1>3
<1>5. x * NBlocks + a # y * NBlocks + b
  <2>1. CASE x = y
    BY <1>3, <1>4, <2>1
  <2>2. CASE x > y
    <3>1. PICK k \in Nat : x = y + 1 + k
      BY <1>1, <2>2
    <3>2. x * NBlocks = y * NBlocks + NBlocks + k * NBlocks /\ k * NBlocks \in Nat
      BY <1>1, <1>3, <3>1
    <3> QED BY <1>3, <1>4, <3>2
  <2>3. CASE y > x
    <3>1. PICK k \in Nat : y = x + 1 + k
      BY <1>1, <2>3
    <3>2. y * NBlocks = x * NBlocks + NBlocks + k * NBlocks /\ k * NBlocks \in Nat
      BY <1>1, <1>3, <3>1
    <3> QED BY <1>3, <1>4, <3>2
  <2> QED BY <1>1, <2>1, <2>2, <2>3
<1> QED BY <1>2, <1>4, <1>5, <1>3

\* The search finds n different free blocks if there are that many.
LEMMA FirstFreeIs ==
  ASSUME NEW free \in SUBSET Block, NEW goal \in Int, NEW n \in Nat, n <= Cardinality(free)
  PROVE  LET got == FirstFree(free, goal, n)
         IN  got \in Seq(free) /\ Len(got) = n /\ IsInjective(got)
<1> DEFINE low(b) == {a \in free : Rank(goal, a) < Rank(goal, b)}
           h == [b \in free |-> Cardinality(low(b))]
           m == Cardinality(free)
<1>0. IsFiniteSet(free) /\ m \in Nat
  BY FiniteBlocks
<1>1. ASSUME NEW b \in free
      PROVE  low(b) \subseteq free /\ b \notin low(b) /\ IsFiniteSet(low(b)) /\ h[b] \in 0 .. m - 1
  <2>1. low(b) \subseteq free /\ b \notin low(b)
    <3>1. Rank(goal, b) \in Int
      <4>1. GroupOf(b) \in Int /\ NGroups \in Nat \ {0}
        BY Constants DEF GroupOf, Block, NGroups
      <4> QED BY <4>1, Constants DEF Rank, Block
    <3>2. ~(Rank(goal, b) < Rank(goal, b))
      BY <3>1
    <3> QED BY <3>2
  <2>2. IsFiniteSet(low(b)) /\ Cardinality(low(b)) \in Nat /\ Cardinality(low(b)) < m
    <3> HIDE DEF low
    <3>1. low(b) # free
      BY <2>1
    <3> QED BY <1>0, <2>1, <3>1, FS_Subset, FS_CardinalityType
  <2> QED BY <1>0, <2>1, <2>2
<1>2. ASSUME NEW a \in free, NEW b \in free, a # b PROVE h[a] # h[b]
  <2>1. ASSUME NEW u \in free, NEW v \in free, Rank(goal, u) \in Int, Rank(goal, v) \in Int,
               Rank(goal, u) < Rank(goal, v)
        PROVE  h[u] < h[v]
    <3>1. low(u) \subseteq low(v)
      <4>1. ASSUME NEW w \in low(u) PROVE w \in low(v)
        <5>1. w \in free /\ Rank(goal, w) < Rank(goal, u)
          OBVIOUS
        <5>2. Rank(goal, w) \in Int
          <6>1. GroupOf(w) \in Int /\ NGroups \in Nat \ {0}
            BY <5>1, Constants DEF GroupOf, Block, NGroups
          <6> QED BY <5>1, <6>1, Constants DEF Rank, Block
        <5>3. Rank(goal, w) < Rank(goal, v)
          BY <2>1, <5>1, <5>2
        <5> QED BY <5>1, <5>3
      <4> QED BY <4>1
    <3>2. u \in low(v) /\ u \notin low(u)
      BY <1>1, <2>1
    <3>3. IsFiniteSet(low(v))
      BY <1>1
    <3>4. Cardinality(low(u)) < Cardinality(low(v))
      <4> HIDE DEF low
      <4>1. low(u) # low(v)
        BY <3>2
      <4>2. /\ IsFiniteSet(low(u)) /\ Cardinality(low(u)) <= Cardinality(low(v))
            /\ Cardinality(low(v)) # Cardinality(low(u))
        BY <3>1, <3>3, <4>1, FS_Subset
      <4>3. Cardinality(low(u)) \in Nat /\ Cardinality(low(v)) \in Nat
        BY <3>3, <4>2, FS_CardinalityType
      <4> QED BY <4>2, <4>3
    <3> QED BY <3>4
  <2>2. Rank(goal, a) \in Int /\ Rank(goal, b) \in Int /\ Rank(goal, a) # Rank(goal, b)
    BY <1>2, RanksDiffer
  <2>3. h[a] \in Int /\ h[b] \in Int
    BY <1>1
  <2>4. CASE Rank(goal, a) < Rank(goal, b)
    BY <2>1, <2>2, <2>3, <2>4
  <2>5. CASE Rank(goal, b) < Rank(goal, a)
    BY <2>1, <2>2, <2>3, <2>5
  <2> QED BY <2>2, <2>4, <2>5
<1>3. ASSUME NEW k \in 0 .. m - 1 PROVE \E b \in free : h[b] = k
  <2> DEFINE R == Range(h)
  <2>1. h \in [free -> 0 .. m - 1] /\ DOMAIN h = free
    BY <1>1
  <2>2. \A a, b \in free : a # b => h[a] # h[b]
    BY <1>2
  <2> HIDE DEF h
  <2>3. R \subseteq 0 .. m - 1
    BY <2>1 DEF Range
  <2>4. h \in Bijection(free, R)
    BY <2>1, <2>2 DEF Bijection, Injection, Surjection, IsInjective, Range
  <2>5. Cardinality(R) = m
    <3>1. ExistsBijection(free, R)
      BY <2>4 DEF ExistsBijection
    <3> HIDE DEF R
    <3> QED BY <1>0, <3>1, FS_Bijection
  <2>6. IsFiniteSet(0 .. m - 1) /\ Cardinality(0 .. m - 1) = m
    BY <1>0, FS_Interval
  <2>7. R = 0 .. m - 1
    BY <2>3, <2>5, <2>6, <1>0, FS_Subset
  <2> QED BY <2>1, <2>7 DEF Range
<1> DEFINE got == FirstFree(free, goal, n)
<1>4. got = [k \in 1 .. n |-> CHOOSE b \in free : Cardinality(low(b)) = k - 1]
  BY DEF FirstFree
<1>h. \A b \in free : h[b] = Cardinality(low(b))
  OBVIOUS
<1> HIDE DEF h, got, low
<1>5. ASSUME NEW k \in 1 .. n PROVE got[k] \in free /\ h[got[k]] = k - 1
  <2>1. k - 1 \in 0 .. m - 1
    BY <1>0
  <2>2. \E b \in free : Cardinality(low(b)) = k - 1
    BY <1>3, <1>h, <2>1
  <2>3. got[k] \in free /\ Cardinality(low(got[k])) = k - 1
    BY <1>4, <2>2
  <2> QED BY <1>h, <2>3
<1>6. got \in [1 .. n -> free]
  BY <1>4, <1>5
<1>7. got \in Seq(free) /\ Len(got) = n
  BY <1>6
<1>8. IsInjective(got)
  BY <1>5, <1>6 DEF IsInjective
<1> QED BY <1>7, <1>8 DEF got

-----------------------------------------------------------------------------
\* Sequences of blocks, and their sets

\* What a sequence has at its positions.
LEMMA ToSetIs ==
  ASSUME NEW T, NEW s \in Seq(T)
  PROVE  /\ Len(s) \in Nat /\ DOMAIN s = 1 .. Len(s)
         /\ ToSet(s) \subseteq T
         /\ \A x : x \in ToSet(s) <=> \E k \in 1 .. Len(s) : s[k] = x
BY DEF ToSet

\* What a concatenation has, and when without repetition.
LEMMA ToSetConcat ==
  ASSUME NEW T, NEW s \in Seq(T), NEW t \in Seq(T)
  PROVE  /\ s \o t \in Seq(T) /\ Len(s \o t) = Len(s) + Len(t)
         /\ ToSet(s \o t) = ToSet(s) \cup ToSet(t)
         /\ IsInjective(s \o t) <=>
              IsInjective(s) /\ IsInjective(t) /\ ToSet(s) \cap ToSet(t) = {}
<1> DEFINE u == s \o t
<1>1. /\ u \in Seq(T) /\ Len(u) = Len(s) + Len(t) /\ Len(s) \in Nat /\ Len(t) \in Nat
      /\ DOMAIN u = 1 .. Len(s) + Len(t) /\ DOMAIN s = 1 .. Len(s) /\ DOMAIN t = 1 .. Len(t)
  OBVIOUS
<1>2. \A k \in 1 .. Len(s) : u[k] = s[k]
  OBVIOUS
<1>3. \A k \in 1 .. Len(t) : u[Len(s) + k] = t[k]
  <2> TAKE k \in 1 .. Len(t)
  <2>1. Len(s) + k \in 1 .. Len(s) + Len(t) /\ ~(Len(s) + k <= Len(s)) /\ (Len(s) + k) - Len(s) = k
    BY <1>1
  <2> QED BY <2>1, <1>1
<1> HIDE DEF u
<1>4. \A k \in 1 .. Len(s) + Len(t) :
        k \in 1 .. Len(s) \/ \E j \in 1 .. Len(t) : k = Len(s) + j
  <2> TAKE k \in 1 .. Len(s) + Len(t)
  <2>1. CASE k > Len(s)
    <3>1. k - Len(s) \in 1 .. Len(t) /\ k = Len(s) + (k - Len(s))
      BY <1>1, <2>1
    <3> QED BY <3>1
  <2>2. CASE ~(k > Len(s))
    BY <1>1, <2>2
  <2> QED BY <2>1, <2>2
<1>5. ToSet(u) = ToSet(s) \cup ToSet(t)
  <2>1. ASSUME NEW x \in ToSet(u) PROVE x \in ToSet(s) \cup ToSet(t)
    <3>1. PICK k \in 1 .. Len(s) + Len(t) : x = u[k]
      BY <1>1 DEF ToSet
    <3> QED BY <3>1, <1>1, <1>2, <1>3, <1>4 DEF ToSet
  <2>2. ASSUME NEW x \in ToSet(s) PROVE x \in ToSet(u)
    <3>1. PICK k \in 1 .. Len(s) : x = s[k]
      BY <1>1 DEF ToSet
    <3>2. k \in 1 .. Len(s) + Len(t) /\ x = u[k]
      BY <1>1, <1>2, <3>1
    <3> QED BY <1>1, <3>2 DEF ToSet
  <2>3. ASSUME NEW x \in ToSet(t) PROVE x \in ToSet(u)
    <3>1. PICK k \in 1 .. Len(t) : x = t[k]
      BY <1>1 DEF ToSet
    <3>2. Len(s) + k \in 1 .. Len(s) + Len(t) /\ x = u[Len(s) + k]
      BY <1>1, <1>3, <3>1
    <3> QED BY <1>1, <3>2 DEF ToSet
  <2> QED BY <2>1, <2>2, <2>3
<1>6. ASSUME IsInjective(u)
      PROVE  IsInjective(s) /\ IsInjective(t) /\ ToSet(s) \cap ToSet(t) = {}
  <2>0. \A a, b \in 1 .. Len(s) + Len(t) : u[a] = u[b] => a = b
    BY <1>6, <1>1 DEF IsInjective
  <2>1. IsInjective(s)
    <3>1. \A a \in 1 .. Len(s) : a \in 1 .. Len(s) + Len(t)
      BY <1>1
    <3> QED BY <2>0, <1>1, <1>2, <3>1 DEF IsInjective
  <2>2. ASSUME NEW a \in 1 .. Len(t), NEW b \in 1 .. Len(t), t[a] = t[b] PROVE a = b
    <3>1. Len(s) + a \in 1 .. Len(s) + Len(t) /\ Len(s) + b \in 1 .. Len(s) + Len(t)
      BY <1>1
    <3>2. Len(s) + a = Len(s) + b
      BY <2>0, <1>3, <3>1, <2>2
    <3> QED BY <3>2, <1>1
  <2>3. ASSUME NEW a \in 1 .. Len(s), NEW b \in 1 .. Len(t) PROVE s[a] # t[b]
    <3>1. a \in 1 .. Len(s) + Len(t) /\ Len(s) + b \in 1 .. Len(s) + Len(t) /\ a # Len(s) + b
      BY <1>1
    <3> QED BY <2>0, <1>2, <1>3, <3>1
  <2> QED BY <2>1, <2>2, <2>3, <1>1 DEF IsInjective, ToSet
<1>7. ASSUME IsInjective(s), IsInjective(t), ToSet(s) \cap ToSet(t) = {}
      PROVE  IsInjective(u)
  <2>1. \A a, b \in 1 .. Len(s) : s[a] = s[b] => a = b
    BY <1>7, <1>1 DEF IsInjective
  <2>2. \A a, b \in 1 .. Len(t) : t[a] = t[b] => a = b
    BY <1>7, <1>1 DEF IsInjective
  <2>3. \A a \in 1 .. Len(s), b \in 1 .. Len(t) : s[a] # t[b]
    BY <1>7, <1>1 DEF ToSet
  <2>4. ASSUME NEW a \in 1 .. Len(s) + Len(t), NEW b \in 1 .. Len(s) + Len(t), u[a] = u[b]
        PROVE  a = b
    <3>1. CASE a \in 1 .. Len(s) /\ b \in 1 .. Len(s)
      BY <2>1, <2>4, <1>2, <3>1
    <3>2. CASE a \in 1 .. Len(s) /\ \E j \in 1 .. Len(t) : b = Len(s) + j
      BY <2>3, <2>4, <1>2, <1>3, <3>2
    <3>3. CASE b \in 1 .. Len(s) /\ \E j \in 1 .. Len(t) : a = Len(s) + j
      BY <2>3, <2>4, <1>2, <1>3, <3>3
    <3>4. CASE /\ \E j \in 1 .. Len(t) : a = Len(s) + j
               /\ \E j \in 1 .. Len(t) : b = Len(s) + j
      BY <2>2, <2>4, <1>3, <3>4
    <3> QED BY <1>4, <3>1, <3>2, <3>3, <3>4
  <2> QED BY <2>4, <1>1 DEF IsInjective
<1> QED BY <1>1, <1>5, <1>6, <1>7 DEF u

\* How many of the blocks of s are in T
LEMMA CountIn ==
  ASSUME NEW s \in Seq(Block), IsInjective(s), NEW T \in SUBSET Block
  PROVE  Cardinality({k \in DOMAIN s : s[k] \in T}) = Cardinality(T \cap ToSet(s))
<1> DEFINE K == {k \in DOMAIN s : s[k] \in T}
           R == T \cap ToSet(s)
           f == [k \in K |-> s[k]]
<1>1. Len(s) \in Nat /\ DOMAIN s = 1 .. Len(s)
  OBVIOUS
<1>2. f \in Bijection(K, R)
  <2>1. f \in [K -> R]
    BY <1>1 DEF ToSet
  <2>2. \A a, b \in K : f[a] = f[b] => a = b
    BY DEF IsInjective
  <2>3. \A r \in R : \E k \in K : f[k] = r
    BY DEF ToSet
  <2> HIDE DEF K, R, f
  <2>4. DOMAIN f = K
    BY <2>1
  <2> QED BY <2>1, <2>2, <2>3, <2>4 DEF Bijection, Injection, Surjection, IsInjective
<1>3. IsFiniteSet(K)
  <2>1. IsFiniteSet(1 .. Len(s))
    BY <1>1, FS_Interval
  <2> QED BY <1>1, <2>1, FS_Subset
<1>4. ExistsBijection(K, R)
  BY <1>2 DEF ExistsBijection
<1> HIDE DEF K, R
<1>5. Cardinality(R) = Cardinality(K)
  BY <1>3, <1>4, FS_Bijection
<1> QED BY <1>5 DEF K, R

\* Taking R away from T
LEMMA CountWithout ==
  ASSUME NEW T, IsFiniteSet(T), NEW R
  PROVE  /\ Cardinality(T \ R) = Cardinality(T) - Cardinality(T \cap R)
         /\ Cardinality(T) \in Nat /\ Cardinality(T \cap R) \in Nat /\ Cardinality(T \ R) \in Nat
<1>1. IsFiniteSet(T \cap R) /\ IsFiniteSet(T \ R)
  BY FS_Subset
<1>2. Cardinality(T) \in Nat /\ Cardinality(T \cap R) \in Nat /\ Cardinality(T \ R) \in Nat
  BY <1>1, FS_CardinalityType
<1>3. (T \cap R) \cap (T \ R) = {} /\ (T \cap R) \cup (T \ R) = T
  OBVIOUS
<1>4. Cardinality({}) = 0
  BY FS_EmptySet
<1> DEFINE A == T \cap R
           B == T \ R
<1>5. Cardinality(A \cup B) = Cardinality(A) + Cardinality(B) - Cardinality(A \cap B)
  <2> HIDE DEF A, B
  <2>1. IsFiniteSet(A) /\ IsFiniteSet(B)
    BY <1>1 DEF A, B
  <2> QED BY <2>1, FS_Union
<1>6. Cardinality(A \cup B) = Cardinality(T) /\ Cardinality(A \cap B) = 0
  BY <1>3, <1>4
<1>7. Cardinality(A) \in Nat /\ Cardinality(B) \in Nat
  BY <1>2
<1>8. Cardinality(B) = Cardinality(T) - Cardinality(A)
  <2> HIDE DEF A, B
  <2> QED BY <1>2, <1>5, <1>6, <1>7
<1> QED BY <1>2, <1>8

-----------------------------------------------------------------------------
\* Allocation

\* The count of blocks changes in each group by the blocks of that group.
LEMMA CountBlocksIs ==
  ASSUME NEW d \in Disk, NEW s \in Seq(Block), IsInjective(s), NEW sign \in {1, -1}
  PROVE  LET e == CountBlocks(d, s, sign) IN
         /\ e \in Disk /\ SameFiles(d, e) /\ e.blocks = d.blocks /\ e.entries = d.entries
         /\ \A g \in Group : e.gd_blocks[g] =
              d.gd_blocks[g] + sign * Cardinality({b \in ToSet(s) : GroupOf(b) = g})
         /\ e.sb_blocks = d.sb_blocks + sign * Cardinality(ToSet(s))
<1> DEFINE InGroup(g) == Cardinality({k \in DOMAIN s : GroupOf(s[k]) = g})
           gd == [g \in Group |-> d.gd_blocks[g] + sign * InGroup(g)]
           sb == d.sb_blocks + sign * Len(s)
           e == [d EXCEPT !.gd_blocks = gd, !.sb_blocks = sb]
<1>1. CountBlocks(d, s, sign) = e
  BY DEF CountBlocks
<1>2. d.gd_blocks \in [Group -> Int] /\ d.sb_blocks \in Int
  BY DEF Disk
<1>3. ASSUME NEW g \in Group
      PROVE  InGroup(g) = Cardinality({b \in ToSet(s) : GroupOf(b) = g}) /\ InGroup(g) \in Nat
  <2> DEFINE T == {b \in Block : GroupOf(b) = g}
  <2>1. {k \in DOMAIN s : GroupOf(s[k]) = g} = {k \in DOMAIN s : s[k] \in T}
    OBVIOUS
  <2>2. {b \in ToSet(s) : GroupOf(b) = g} = T \cap ToSet(s)
    BY ToSetIs
  <2>3. T \in SUBSET Block /\ T \cap ToSet(s) \in SUBSET Block
    OBVIOUS
  <2> HIDE DEF T
  <2>4. Cardinality({k \in DOMAIN s : s[k] \in T}) = Cardinality(T \cap ToSet(s))
    BY <2>3, CountIn
  <2>5. Cardinality(T \cap ToSet(s)) \in Nat
    BY <2>3, FiniteBlocks
  <2> QED BY <2>1, <2>2, <2>4, <2>5
<1>4. Len(s) = Cardinality(ToSet(s)) /\ Len(s) \in Nat
  <2>1. Len(s) \in Nat /\ DOMAIN s = 1 .. Len(s) /\ \A k \in DOMAIN s : s[k] \in Block
    OBVIOUS
  <2>2. {k \in DOMAIN s : s[k] \in Block} = 1 .. Len(s)
    BY <2>1
  <2>3. Block \cap ToSet(s) = ToSet(s)
    BY <2>1 DEF ToSet
  <2>4. Cardinality(1 .. Len(s)) = Len(s)
    BY <2>1, FS_Interval
  <2> QED BY <2>1, <2>2, <2>3, <2>4, CountIn
<1>5. gd \in [Group -> Int] /\ sb \in Int
  <2> HIDE DEF InGroup
  <2>1. \A c \in Nat : sign * c \in Int
    OBVIOUS
  <2>2. sb \in Int
    BY <1>2, <1>4, <2>1
  <2>3. \A g \in Group : d.gd_blocks[g] + sign * InGroup(g) \in Int
    <3> TAKE g \in Group
    <3>1. InGroup(g) \in Nat
      BY <1>3
    <3>2. sign * InGroup(g) \in Int
      BY <2>1, <3>1
    <3> QED BY <1>2, <3>2
  <2> QED BY <2>2, <2>3
<1>6. \A g \in Group : gd[g] = d.gd_blocks[g] + sign * Cardinality({b \in ToSet(s) : GroupOf(b) = g})
  <2> HIDE DEF InGroup
  <2> QED BY <1>3
<1> HIDE DEF gd
<1>7. e \in Disk
  BY <1>5 DEF Disk
<1>8. SameFiles(d, e) /\ e.blocks = d.blocks /\ e.entries = d.entries /\ e.gd_blocks = gd /\ e.sb_blocks = sb
  BY DEF Disk, SameFiles
<1> QED BY <1>1, <1>4, <1>6, <1>7, <1>8

\* Blocks got were free on d and are taken on e, and nothing else changed.
Took(d, e, got) ==
  /\ e \in Disk /\ SameFiles(d, e) /\ e.entries = d.entries
  /\ got \in Seq(Block) /\ ToSet(got) \cap d.blocks = {} /\ IsInjective(got)
  /\ e.blocks = d.blocks \cup ToSet(got)

\* Some blocks that were free on d may be taken on e.
Leaked(d, e) ==
  /\ e \in Disk /\ SameFiles(d, e) /\ e.entries = d.entries /\ d.blocks \subseteq e.blocks

\* alloc-blocks! takes n free blocks and counts them, or leaves the disk alone.
LEMMA AllocBlocks ==
  ASSUME NEW d \in Disk, BlocksCounted(d), NEW goal \in Int, NEW n \in Nat
  PROVE  LET r == alloc_blocks(d, goal, n) IN
         /\ r.err # "none" => r.disk = d
         /\ r.err = "none" => Took(d, r.disk, r.val) /\ BlocksCounted(r.disk) /\ Len(r.val) = n
<1> DEFINE free == Block \ d.blocks
           got == FirstFree(free, goal, n)
           r == alloc_blocks(d, goal, n)
           d1 == [d EXCEPT !.blocks = @ \cup ToSet(got)]
           e == CountBlocks(d1, got, -1)
<1>0. d.blocks \subseteq Block /\ free \subseteq Block
  BY DEF Disk
<1>1. r = IF Cardinality(free) < n THEN Throw(d, "disk-full") ELSE Ok(e, got)
  BY DEF alloc_blocks
<1>2. CASE Cardinality(free) < n
  BY <1>1, <1>2 DEF Throw
<1>3. CASE ~(Cardinality(free) < n)
  <2>0. Cardinality(free) \in Nat
    BY <1>0, FiniteBlocks
  <2>1. got \in Seq(free) /\ Len(got) = n /\ IsInjective(got)
    <3> HIDE DEF free
    <3> QED BY <1>0, <1>3, <2>0, FirstFreeIs
  <2>2. r.err = "none" /\ r.disk = e /\ r.val = got
    BY <1>1, <1>3 DEF Ok
  <2> HIDE DEF got, e, r
  <2>3. got \in Seq(Block) /\ ToSet(got) \subseteq free
    BY <1>0, <2>1, ToSetIs
  <2>4. d1 \in Disk /\ SameFiles(d, d1) /\ d1.entries = d.entries /\ d1.blocks = d.blocks \cup ToSet(got)
        /\ d1.gd_blocks = d.gd_blocks /\ d1.sb_blocks = d.sb_blocks
    BY <1>0, <2>3 DEF Disk, SameFiles
  <2> HIDE DEF d1
  <2>5. -1 \in {1, -1}
    OBVIOUS
  <2>6. /\ e \in Disk /\ SameFiles(d1, e) /\ e.blocks = d1.blocks /\ e.entries = d1.entries
        /\ \A g \in Group : e.gd_blocks[g] =
             d1.gd_blocks[g] + (-1) * Cardinality({b \in ToSet(got) : GroupOf(b) = g})
        /\ e.sb_blocks = d1.sb_blocks + (-1) * Cardinality(ToSet(got))
    BY <2>1, <2>3, <2>4, <2>5, CountBlocksIs DEF e
  <2>7. Took(d, e, got)
    BY <2>1, <2>3, <2>4, <2>6 DEF Took, SameFiles
  <2>8. ASSUME NEW g \in Group
        PROVE  e.gd_blocks[g] = Cardinality({b \in Block \ e.blocks : GroupOf(b) = g})
    <3> DEFINE T == {b \in free : GroupOf(b) = g}
    <3>1. IsFiniteSet(T)
      BY <1>0, FiniteBlocks
    <3>2. T \ ToSet(got) = {b \in Block \ e.blocks : GroupOf(b) = g}
      BY <2>4, <2>6
    <3>3. T \cap ToSet(got) = {b \in ToSet(got) : GroupOf(b) = g}
      BY <2>3
    <3>4. d.gd_blocks[g] = Cardinality(T)
      BY DEF BlocksCounted
    <3> HIDE DEF T
    <3>5. /\ Cardinality(T \ ToSet(got)) = Cardinality(T) - Cardinality(T \cap ToSet(got))
          /\ Cardinality(T) \in Nat /\ Cardinality(T \cap ToSet(got)) \in Nat
      BY <3>1, CountWithout
    <3>6. e.gd_blocks[g] = Cardinality(T) + (-1) * Cardinality(T \cap ToSet(got))
      BY <2>4, <2>6, <3>3, <3>4
    <3>7. \A c, a \in Nat : a + (-1) * c = a - c
      OBVIOUS
    <3>8. e.gd_blocks[g] = Cardinality(T) - Cardinality(T \cap ToSet(got))
      BY <3>5, <3>6, <3>7
    <3> QED BY <3>2, <3>5, <3>8
  <2>9. e.sb_blocks = Cardinality(Block \ e.blocks)
    <3>1. IsFiniteSet(free)
      BY <1>0, FiniteBlocks
    <3>2. free \ ToSet(got) = Block \ e.blocks /\ free \cap ToSet(got) = ToSet(got)
      BY <2>3, <2>4, <2>6
    <3>3. d.sb_blocks = Cardinality(free)
      BY DEF BlocksCounted
    <3> HIDE DEF free
    <3>4. /\ Cardinality(free \ ToSet(got)) = Cardinality(free) - Cardinality(free \cap ToSet(got))
          /\ Cardinality(free \cap ToSet(got)) \in Nat
      BY <3>1, CountWithout
    <3>5. e.sb_blocks = Cardinality(free) + (-1) * Cardinality(ToSet(got))
      BY <2>4, <2>6, <3>3
    <3>6. \A c, a \in Nat : a + (-1) * c = a - c
      OBVIOUS
    <3>7. e.sb_blocks = Cardinality(free) - Cardinality(ToSet(got))
      BY <2>0, <3>2, <3>4, <3>5, <3>6
    <3> QED BY <3>2, <3>4, <3>7
  <2>10. BlocksCounted(e)
    BY <2>8, <2>9 DEF BlocksCounted
  <2> QED BY <2>1, <2>2, <2>7, <2>10 DEF r
<1> QED BY <1>2, <1>3

\* free-blocks! gives used blocks back and counts them.
LEMMA FreeBlocks ==
  ASSUME NEW d \in Disk, BlocksCounted(d), NEW s \in Seq(Block), IsInjective(s),
         ToSet(s) \subseteq d.blocks
  PROVE  LET e == free_blocks(d, s) IN
         /\ e \in Disk /\ SameFiles(d, e) /\ BlocksCounted(e)
         /\ e.blocks = d.blocks \ ToSet(s)
         /\ \A b \in Block \ ToSet(s) : e.entries[b] = d.entries[b]
<1> DEFINE E == [b \in Block |-> IF b \in ToSet(s) THEN NoEntries ELSE d.entries[b]]
           d1 == [d EXCEPT !.blocks = @ \ ToSet(s), !.entries = E]
           e == CountBlocks(d1, s, 1)
<1>0. d.blocks \subseteq Block /\ d.entries \in [Block -> [AnyName -> 0 .. NInodes]]
  BY DEF Disk
<1>1. free_blocks(d, s) = e
  BY DEF free_blocks
<1>2. E \in [Block -> [AnyName -> 0 .. NInodes]]
  BY <1>0, Constants DEF NoEntries
<1>3. \A b \in Block \ ToSet(s) : E[b] = d.entries[b]
  OBVIOUS
<1> HIDE DEF E
<1>4. /\ d1 \in Disk /\ SameFiles(d, d1) /\ d1.entries = E /\ d1.blocks = d.blocks \ ToSet(s)
      /\ d1.gd_blocks = d.gd_blocks /\ d1.sb_blocks = d.sb_blocks
  BY <1>0, <1>2 DEF Disk, SameFiles
<1> HIDE DEF d1
<1>5. /\ e \in Disk /\ SameFiles(d1, e) /\ e.blocks = d1.blocks /\ e.entries = d1.entries
      /\ \A g \in Group : e.gd_blocks[g] =
           d1.gd_blocks[g] + 1 * Cardinality({b \in ToSet(s) : GroupOf(b) = g})
      /\ e.sb_blocks = d1.sb_blocks + 1 * Cardinality(ToSet(s))
  BY <1>4, CountBlocksIs
<1> HIDE DEF e
<1>6. ASSUME NEW g \in Group
      PROVE  e.gd_blocks[g] = Cardinality({b \in Block \ e.blocks : GroupOf(b) = g})
  <2> DEFINE T == {b \in Block \ e.blocks : GroupOf(b) = g}
  <2>1. IsFiniteSet(T)
    BY FiniteBlocks
  <2>2. T \ ToSet(s) = {b \in Block \ d.blocks : GroupOf(b) = g}
    BY <1>4, <1>5
  <2>3. T \cap ToSet(s) = {b \in ToSet(s) : GroupOf(b) = g}
    BY <1>0, <1>4, <1>5
  <2>4. d.gd_blocks[g] = Cardinality(T \ ToSet(s))
    BY <2>2 DEF BlocksCounted
  <2> HIDE DEF T
  <2>5. /\ Cardinality(T \ ToSet(s)) = Cardinality(T) - Cardinality(T \cap ToSet(s))
        /\ Cardinality(T) \in Nat /\ Cardinality(T \cap ToSet(s)) \in Nat
    BY <2>1, CountWithout
  <2>6. e.gd_blocks[g] = Cardinality(T \ ToSet(s)) + 1 * Cardinality(T \cap ToSet(s))
    BY <1>4, <1>5, <2>3, <2>4
  <2>7. e.gd_blocks[g] = Cardinality(T)
    BY <2>5, <2>6
  <2> QED BY <2>7 DEF T
<1>7. e.sb_blocks = Cardinality(Block \ e.blocks)
  <2> DEFINE T == Block \ e.blocks
  <2>1. IsFiniteSet(T)
    BY FiniteBlocks
  <2>2. T \ ToSet(s) = Block \ d.blocks /\ T \cap ToSet(s) = ToSet(s)
    BY <1>0, <1>4, <1>5
  <2>3. d.sb_blocks = Cardinality(T \ ToSet(s))
    BY <2>2 DEF BlocksCounted
  <2> HIDE DEF T
  <2>4. /\ Cardinality(T \ ToSet(s)) = Cardinality(T) - Cardinality(T \cap ToSet(s))
        /\ Cardinality(T) \in Nat /\ Cardinality(T \cap ToSet(s)) \in Nat
    BY <2>1, CountWithout
  <2>5. e.sb_blocks = Cardinality(T \ ToSet(s)) + 1 * Cardinality(T \cap ToSet(s))
    BY <1>4, <1>5, <2>2, <2>3
  <2>6. e.sb_blocks = Cardinality(T)
    BY <2>4, <2>5
  <2> QED BY <2>6 DEF T
<1>8. BlocksCounted(e)
  BY <1>6, <1>7 DEF BlocksCounted
<1> QED BY <1>1, <1>3, <1>4, <1>5, <1>8 DEF SameFiles

\* Two allocations are one.
LEMMA TookMore ==
  ASSUME NEW d \in Disk, NEW e, NEW f, NEW s, NEW t, Took(d, e, s), Took(e, f, t)
  PROVE  Took(d, f, s \o t)
<1>1. s \in Seq(Block) /\ t \in Seq(Block) /\ IsInjective(s) /\ IsInjective(t)
  BY DEF Took
<1>2. ToSet(t) \cap ToSet(s) = {}
  BY DEF Took
<1>3. s \o t \in Seq(Block) /\ IsInjective(s \o t) /\ ToSet(s \o t) = ToSet(s) \cup ToSet(t)
  BY <1>1, <1>2, ToSetConcat
<1>4. ToSet(s \o t) \cap d.blocks = {} /\ f.blocks = d.blocks \cup ToSet(s \o t)
  BY <1>3 DEF Took
<1>5. f \in Disk /\ SameFiles(d, f) /\ f.entries = d.entries
  BY DEF Took, SameFiles
<1> QED BY <1>3, <1>4, <1>5 DEF Took

\* No blocks are an allocation too.
LEMMA TookNone ==
  ASSUME NEW d \in Disk
  PROVE  Took(d, d, <<>>)
<1>1. <<>> \in Seq(Block) /\ ToSet(<<>>) = {} /\ IsInjective(<<>>)
  BY DEF ToSet, IsInjective
<1>2. SameFiles(d, d)
  BY DEF SameFiles
<1>3. d.blocks = d.blocks \cup ToSet(<<>>)
  BY <1>1
<1> QED BY <1>1, <1>2, <1>3 DEF Took

\* Whether or not it throws, build_map only takes blocks.
LEMMA BuildMap ==
  ASSUME NEW d \in Disk, BlocksCounted(d), NEW goal \in Int, NEW n \in Nat
  PROVE  LET r == build_map(d, goal, n) IN
         /\ Leaked(d, r.disk) /\ BlocksCounted(r.disk)
         /\ r.err = "none" => Took(d, r.disk, r.val)
<1> DEFINE double == n - NDirect - PtrsPerBlock
           seconds == (double + PtrsPerBlock - 1) \div PtrsPerBlock
           r1 == IF n > NDirect THEN alloc_blocks(d, goal, 1) ELSE Ok(d, <<>>)
           r2 == alloc_blocks(r1.disk, goal, seconds)
           r3 == alloc_blocks(r2.disk, goal, 1)
           r == build_map(d, goal, n)
<1>1. r = IF double > PtrsPerBlock * PtrsPerBlock THEN Throw(d, "file-too-large")
          ELSE IF r1.err # "none" THEN r1
          ELSE IF double <= 0 THEN Ok(r1.disk, r1.val)
          ELSE IF r2.err # "none" THEN r2
          ELSE IF r3.err # "none" THEN r3
          ELSE Ok(r3.disk, r1.val \o r2.val \o r3.val)
  BY DEF build_map, Then
<1>2. Leaked(d, d)
  BY DEF Leaked, SameFiles
<1>3. \A e, got : Took(d, e, got) => Leaked(d, e)
  BY DEF Took, Leaked
<1>4. /\ r1.err # "none" => r1.disk = d
      /\ r1.err = "none" => Took(d, r1.disk, r1.val) /\ BlocksCounted(r1.disk)
  <2>1. CASE n > NDirect
    BY <2>1, AllocBlocks
  <2>2. CASE ~(n > NDirect)
    <3>1. r1.err = "none" /\ r1.disk = d /\ r1.val = <<>>
      BY <2>2 DEF Ok
    <3> QED BY <3>1, TookNone
  <2> QED BY <2>1, <2>2
<1> HIDE DEF r1
<1>5. ASSUME r1.err = "none", double > 0
      PROVE  /\ r2.err # "none" => r2.disk = r1.disk
             /\ r2.err = "none" => Took(r1.disk, r2.disk, r2.val) /\ BlocksCounted(r2.disk)
  <2>1. seconds \in Nat
    BY <1>5, Constants
  <2>2. r1.disk \in Disk /\ BlocksCounted(r1.disk)
    BY <1>4, <1>5 DEF Took
  <2> HIDE DEF seconds
  <2> QED BY <2>1, <2>2, AllocBlocks
<1> HIDE DEF r2
<1>6. ASSUME r1.err = "none", double > 0, r2.err = "none"
      PROVE  /\ r3.err # "none" => r3.disk = r2.disk
             /\ r3.err = "none" => Took(r2.disk, r3.disk, r3.val) /\ BlocksCounted(r3.disk)
  <2>1. r2.disk \in Disk /\ BlocksCounted(r2.disk)
    BY <1>5, <1>6 DEF Took
  <2> QED BY <2>1, AllocBlocks
<1> HIDE DEF r3, r
<1> SUFFICES /\ Leaked(d, r.disk) /\ BlocksCounted(r.disk)
             /\ r.err = "none" => Took(d, r.disk, r.val)
  BY DEF r
<1>7. CASE double > PtrsPerBlock * PtrsPerBlock
  BY <1>1, <1>2, <1>7 DEF Throw
<1>8. CASE ~(double > PtrsPerBlock * PtrsPerBlock) /\ r1.err # "none"
  BY <1>1, <1>2, <1>4, <1>8
<1>9. CASE ~(double > PtrsPerBlock * PtrsPerBlock) /\ r1.err = "none" /\ double <= 0
  <2>1. r.err = "none" /\ r.disk = r1.disk /\ r.val = r1.val
    BY <1>1, <1>9 DEF Ok
  <2> QED BY <1>3, <1>4, <1>9, <2>1
<1>10. CASE ~(double > PtrsPerBlock * PtrsPerBlock) /\ r1.err = "none" /\ double > 0
  <2>0. ~(double <= 0)
    BY <1>10, Constants
  <2>1. Took(d, r1.disk, r1.val) /\ BlocksCounted(r1.disk)
    BY <1>4, <1>10
  <2>2. CASE r2.err # "none"
    <3>1. r = r2
      BY <1>1, <1>10, <2>0, <2>2
    <3> QED BY <1>3, <1>5, <1>10, <2>1, <2>2, <3>1
  <2>3. CASE r2.err = "none"
    <3>1. Took(r1.disk, r2.disk, r2.val) /\ BlocksCounted(r2.disk)
      BY <1>5, <1>10, <2>3
    <3>2. Took(d, r2.disk, r1.val \o r2.val)
      BY <2>1, <3>1, TookMore
    <3>3. CASE r3.err # "none"
      <4>1. r = r3
        BY <1>1, <1>10, <2>0, <2>3, <3>3
      <4>2. r.err # "none" /\ r.disk = r2.disk
        BY <1>6, <1>10, <2>3, <3>3, <4>1
      <4> QED BY <1>3, <3>1, <3>2, <4>2
    <3>4. CASE r3.err = "none"
      <4>1. r.err = "none" /\ r.disk = r3.disk /\ r.val = r1.val \o r2.val \o r3.val
        BY <1>1, <1>10, <2>0, <2>3, <3>4 DEF Ok
      <4>2. Took(r2.disk, r3.disk, r3.val) /\ BlocksCounted(r3.disk)
        BY <1>6, <1>10, <2>3, <3>4
      <4>3. Took(d, r3.disk, r1.val \o r2.val \o r3.val)
        BY <3>2, <4>2, TookMore
      <4> QED BY <1>3, <4>1, <4>2, <4>3
    <3> QED BY <3>3, <3>4
  <2> QED BY <2>2, <2>3
<1>11. double \in Int
  BY Constants
<1> HIDE DEF double
<1> QED BY <1>7, <1>8, <1>9, <1>10, <1>11

-----------------------------------------------------------------------------
\* Inodes

\* A set of numbers has a least one.
LEMMA Least ==
  ASSUME NEW S \in SUBSET Nat, S # {}
  PROVE  \E x \in S : \A y \in S : x <= y
<1>1. IsWellFoundedOn(OpToRel(<, Nat), Nat)
  BY NatLessThanWellFounded
<1>2. PICK x \in S : \A y \in S : ~ (<<y, x>> \in OpToRel(<, Nat))
  BY <1>1, WFMin
<1>3. \A y \in S : ~(y < x)
  BY <1>2 DEF OpToRel
<1>4. \A y \in S : x <= y
  BY <1>3
<1> QED BY <1>4

\* Every inode is in a group.
LEMMA InodeGroup ==
  ASSUME NEW i \in Ino
  PROVE  group_of_inode(i) \in Group
<1>1. i \in 1 .. NInodes /\ (i - 1) \div InodesPerGroup <= (NBlocks - 1) \div BlocksPerGroup
  BY Ext2Assumption DEF Ino
<1>2. (i - 1) \div InodesPerGroup \in Nat /\ (NBlocks - 1) \div BlocksPerGroup \in Nat
  BY <1>1, Constants
<1> QED BY <1>1, <1>2 DEF group_of_inode, Group, NGroups, GroupOf

\* All but the inodes' bitmap and counts is the same.
SameBlocks(d, e) ==
  /\ e.inode = d.inode /\ e.blocks = d.blocks /\ e.entries = d.entries
  /\ e.gd_blocks = d.gd_blocks /\ e.sb_blocks = d.sb_blocks

\* d with the bitmap N, and the counts of inode i's group and the superblock's
\* changed by di and dd
Adjusted(d, e, N, i, di, dd) ==
  LET g == group_of_inode(i) IN
  /\ e \in Disk /\ SameBlocks(d, e) /\ e.inodes = N
  /\ e.gd_inodes[g] = d.gd_inodes[g] + di
  /\ \A h \in Group \ {g} : e.gd_inodes[h] = d.gd_inodes[h]
  /\ e.sb_inodes = d.sb_inodes + di
  /\ e.gd_dirs[g] = d.gd_dirs[g] + dd
  /\ \A h \in Group \ {g} : e.gd_dirs[h] = d.gd_dirs[h]

\* adjust-counts! changes the counts of one group and of the superblock.
LEMMA AdjustCounts ==
  ASSUME NEW d \in Disk, NEW i \in Ino, NEW N \in SUBSET Ino, NEW di \in Int, NEW dd \in Int
  PROVE  Adjusted(d, adjust_counts([d EXCEPT !.inodes = N], group_of_inode(i), 0, di, dd),
                  N, i, di, dd)
<1> DEFINE g == group_of_inode(i)
           e == adjust_counts([d EXCEPT !.inodes = N], g, 0, di, dd)
           gb == [d.gd_blocks EXCEPT ![g] = @ + 0]
           gi == [d.gd_inodes EXCEPT ![g] = @ + di]
           gd == [d.gd_dirs EXCEPT ![g] = @ + dd]
<1>1. g \in Group
  BY InodeGroup
<1>2. /\ d.gd_blocks \in [Group -> Int] /\ d.gd_inodes \in [Group -> Int]
      /\ d.gd_dirs \in [Group -> Int] /\ d.sb_blocks \in Int /\ d.sb_inodes \in Int
  BY DEF Disk
<1> HIDE DEF g
<1>3. e = [d EXCEPT !.inodes = N, !.gd_blocks = gb, !.sb_blocks = d.sb_blocks + 0,
                    !.gd_inodes = gi, !.sb_inodes = d.sb_inodes + di, !.gd_dirs = gd]
  BY DEF adjust_counts, Disk
<1>4. gb = d.gd_blocks /\ d.sb_blocks + 0 = d.sb_blocks
  BY <1>1, <1>2
<1>5. gi \in [Group -> Int] /\ gd \in [Group -> Int]
  BY <1>1, <1>2
<1>6. gi[g] = d.gd_inodes[g] + di /\ \A h \in Group \ {g} : gi[h] = d.gd_inodes[h]
  BY <1>1, <1>2
<1>7. gd[g] = d.gd_dirs[g] + dd /\ \A h \in Group \ {g} : gd[h] = d.gd_dirs[h]
  BY <1>1, <1>2
<1> HIDE DEF gb, gi, gd, e
<1>8. e = [d EXCEPT !.inodes = N, !.gd_blocks = d.gd_blocks, !.sb_blocks = d.sb_blocks,
                    !.gd_inodes = gi, !.sb_inodes = d.sb_inodes + di, !.gd_dirs = gd]
  BY <1>3, <1>4
<1>9. d.sb_inodes + di \in Int
  BY <1>2
<1>10. e \in Disk
  BY <1>5, <1>8, <1>9 DEF Disk
<1>11. SameBlocks(d, e)
  BY <1>8 DEF Disk, SameBlocks
<1>12. e.inodes = N /\ e.gd_inodes = gi /\ e.sb_inodes = d.sb_inodes + di /\ e.gd_dirs = gd
  BY <1>8 DEF Disk
<1> QED BY <1>6, <1>7, <1>10, <1>11, <1>12 DEF g, e, Adjusted

\* One inode more or less in a set of inodes, group by group
LEMMA CountInode ==
  ASSUME NEW S \in SUBSET Ino, NEW i \in Ino \ S, NEW h \in Group
  PROVE  /\ Cardinality({j \in S \cup {i} : group_of_inode(j) = h}) =
              Cardinality({j \in S : group_of_inode(j) = h})
                + (IF h = group_of_inode(i) THEN 1 ELSE 0)
         /\ Cardinality(S \cup {i}) = Cardinality(S) + 1
         /\ Cardinality(S) \in Nat /\ Cardinality({j \in S : group_of_inode(j) = h}) \in Nat
<1> DEFINE T == {j \in S : group_of_inode(j) = h}
           U == {j \in S \cup {i} : group_of_inode(j) = h}
<1>1. IsFiniteSet(S) /\ Cardinality(S) \in Nat /\ Cardinality(S \cup {i}) = Cardinality(S) + 1
  BY FiniteInodes, FS_AddElement
<1>2. IsFiniteSet(T) /\ Cardinality(T) \in Nat /\ i \notin T
  BY FiniteInodes
<1>3. U = IF h = group_of_inode(i) THEN T \cup {i} ELSE T
  OBVIOUS
<1> HIDE DEF T, U
<1>4. Cardinality(T \cup {i}) = Cardinality(T) + 1
  BY <1>2, FS_AddElement
<1>5. Cardinality(U) = Cardinality(T) + (IF h = group_of_inode(i) THEN 1 ELSE 0)
  BY <1>2, <1>3, <1>4
<1> QED BY <1>1, <1>2, <1>5 DEF T, U

\* Inode i is taken, and dd directories more are counted in its group.
TookInode(d, e, i, dd) ==
  /\ e \in Disk /\ SameBlocks(d, e) /\ InodesCounted(e)
  /\ i \in Ino \ d.inodes /\ e.inodes = d.inodes \cup {i}
  /\ e.gd_dirs[group_of_inode(i)] = d.gd_dirs[group_of_inode(i)] + dd
  /\ \A h \in Group \ {group_of_inode(i)} : e.gd_dirs[h] = d.gd_dirs[h]

\* alloc-inode! takes a free inode, or leaves the disk alone.
LEMMA AllocInode ==
  ASSUME NEW d \in Disk, InodesCounted(d), NEW goal \in Int, NEW dd \in Int
  PROVE  LET r == alloc_inode(d, goal, dd) IN
         /\ r.err # "none" => r.disk = d
         /\ r.err = "none" => TookInode(d, r.disk, r.val, dd)
<1> DEFINE key(j) == ((group_of_inode(j) + NGroups - goal) % NGroups) * NInodes + j
           free == Ino \ d.inodes
           i == CHOOSE j \in free : \A k \in free : key(j) <= key(k)
           r == alloc_inode(d, goal, dd)
           e == adjust_counts([d EXCEPT !.inodes = @ \cup {i}], group_of_inode(i), 0, -1, dd)
<1>0. d.inodes \subseteq Ino
  BY DEF Disk
<1>1. r = IF free = {} THEN Throw(d, "no-free-inodes") ELSE Ok(e, i)
  BY DEF alloc_inode
<1>2. CASE free = {}
  BY <1>1, <1>2 DEF Throw
<1>3. CASE free # {}
  <2>1. \A j \in free : key(j) \in Nat
    <3> TAKE j \in free
    <3>1. group_of_inode(j) \in Int /\ NGroups \in Nat \ {0} /\ j \in Nat /\ NInodes \in Nat
      BY Constants DEF group_of_inode, NGroups, GroupOf, Ino
    <3> DEFINE x == (group_of_inode(j) + NGroups - goal) % NGroups
    <3>2. x \in Nat
      BY <3>1
    <3> HIDE DEF x
    <3>3. x * NInodes \in Nat
      BY <3>1, <3>2
    <3> QED BY <3>1, <3>3 DEF x
  <2>2. i \in free
    <3> HIDE DEF key, free
    <3> DEFINE S == {key(j) : j \in free}
    <3>1. S \subseteq Nat /\ S # {}
      BY <1>3, <2>1
    <3>2. PICK x \in S : \A y \in S : x <= y
      <4> HIDE DEF S
      <4> QED BY <3>1, Least
    <3>3. PICK j \in free : x = key(j)
      OBVIOUS
    <3>4. \A k \in free : key(j) <= key(k)
      BY <3>2, <3>3
    <3> QED BY <3>4
  <2> HIDE DEF i
  <2>3. r.err = "none" /\ r.disk = e /\ r.val = i
    BY <1>1, <1>3 DEF Ok
  <2> DEFINE N == d.inodes \cup {i}
             g == group_of_inode(i)
  <2>4. e = adjust_counts([d EXCEPT !.inodes = N], g, 0, -1, dd)
    BY DEF Disk
  <2>5. N \subseteq Ino /\ i \in Ino /\ i \notin d.inodes
    BY <1>0, <2>2
  <2> HIDE DEF e, r, N
  <2>a. PICK less \in Int : less = -1
    OBVIOUS
  <2>b. e = adjust_counts([d EXCEPT !.inodes = N], g, 0, less, dd)
    BY <2>4, <2>a
  <2>6. /\ e \in Disk /\ SameBlocks(d, e) /\ e.inodes = N
        /\ e.gd_inodes[g] = d.gd_inodes[g] + (-1)
        /\ \A h \in Group \ {g} : e.gd_inodes[h] = d.gd_inodes[h]
        /\ e.sb_inodes = d.sb_inodes + (-1)
        /\ e.gd_dirs[g] = d.gd_dirs[g] + dd
        /\ \A h \in Group \ {g} : e.gd_dirs[h] = d.gd_dirs[h]
    <3>1. Adjusted(d, e, N, i, less, dd)
      BY <2>b, <2>5, AdjustCounts
    <3> QED BY <2>a, <3>1 DEF Adjusted
  <2> DEFINE S == Ino \ e.inodes
  <2>7. Ino \ d.inodes = S \cup {i} /\ S \in SUBSET Ino /\ i \in Ino \ S
    BY <2>5, <2>6 DEF N
  <2>8. InodesCounted(e)
    <3> HIDE DEF S
    <3>1. g \in Group
      BY <2>5, InodeGroup
    <3>2. ASSUME NEW h \in Group
          PROVE  e.gd_inodes[h] = Cardinality({j \in S : group_of_inode(j) = h})
      <4>1. d.gd_inodes[h] = Cardinality({j \in S \cup {i} : group_of_inode(j) = h})
        BY <2>7 DEF InodesCounted
      <4>2. /\ Cardinality({j \in S \cup {i} : group_of_inode(j) = h}) =
                 Cardinality({j \in S : group_of_inode(j) = h}) + (IF h = g THEN 1 ELSE 0)
            /\ Cardinality({j \in S : group_of_inode(j) = h}) \in Nat
        BY <2>7, CountInode
      <4>3. e.gd_inodes[h] = IF h = g THEN d.gd_inodes[h] + (-1) ELSE d.gd_inodes[h]
        BY <2>6
      <4> QED BY <4>1, <4>2, <4>3
    <3>3. e.sb_inodes = Cardinality(S)
      <4>1. d.sb_inodes = Cardinality(S \cup {i})
        BY <2>7 DEF InodesCounted
      <4>2. Cardinality(S \cup {i}) = Cardinality(S) + 1 /\ Cardinality(S) \in Nat
        BY <2>7, <3>1, CountInode
      <4> QED BY <2>6, <4>1, <4>2
    <3> QED BY <3>2, <3>3 DEF InodesCounted, S
  <2> QED BY <2>3, <2>5, <2>6, <2>8 DEF TookInode, N, r
<1> QED BY <1>2, <1>3

\* Inode i is free again, and dd directories less are counted in its group.
FreedInode(d, e, i, dd) ==
  /\ e \in Disk /\ SameBlocks(d, e) /\ InodesCounted(e)
  /\ e.inodes = d.inodes \ {i}
  /\ e.gd_dirs[group_of_inode(i)] = d.gd_dirs[group_of_inode(i)] - dd
  /\ \A h \in Group \ {group_of_inode(i)} : e.gd_dirs[h] = d.gd_dirs[h]

\* free-inode! gives one back.
LEMMA FreeInode ==
  ASSUME NEW d \in Disk, InodesCounted(d), NEW i \in d.inodes, NEW dd \in Int
  PROVE  FreedInode(d, free_inode(d, i, dd), i, dd)
<1> DEFINE N == d.inodes \ {i}
           g == group_of_inode(i)
           e == free_inode(d, i, dd)
<1>0. d.inodes \subseteq Ino /\ i \in Ino /\ N \subseteq Ino
  BY DEF Disk
<1>1. e = adjust_counts([d EXCEPT !.inodes = N], g, 0, 1, -dd)
  BY DEF free_inode, Disk
<1> HIDE DEF e, N
<1>2. PICK less \in Int : less = -dd
  OBVIOUS
<1>a. e = adjust_counts([d EXCEPT !.inodes = N], g, 0, 1, less)
  BY <1>1, <1>2
<1>3. /\ e \in Disk /\ SameBlocks(d, e) /\ e.inodes = N
      /\ e.gd_inodes[g] = d.gd_inodes[g] + 1
      /\ \A h \in Group \ {g} : e.gd_inodes[h] = d.gd_inodes[h]
      /\ e.sb_inodes = d.sb_inodes + 1
      /\ e.gd_dirs[g] = d.gd_dirs[g] + less
      /\ \A h \in Group \ {g} : e.gd_dirs[h] = d.gd_dirs[h]
  <2>1. Adjusted(d, e, N, i, 1, less)
    BY <1>0, <1>a, AdjustCounts
  <2> QED BY <2>1 DEF Adjusted
<1>4. g \in Group
  BY <1>0, InodeGroup
<1>5. e.gd_dirs[g] = d.gd_dirs[g] - dd
  <2>1. d.gd_dirs[g] \in Int
    BY <1>4 DEF Disk
  <2> QED BY <1>2, <1>3, <2>1
<1> DEFINE S == Ino \ d.inodes
<1>6. Ino \ e.inodes = S \cup {i} /\ S \in SUBSET Ino /\ i \in Ino \ S
  BY <1>0, <1>3 DEF N
<1>7. InodesCounted(e)
  <2> HIDE DEF S
  <2>1. ASSUME NEW h \in Group
        PROVE  e.gd_inodes[h] = Cardinality({j \in S \cup {i} : group_of_inode(j) = h})
    <3>1. d.gd_inodes[h] = Cardinality({j \in S : group_of_inode(j) = h})
      BY DEF InodesCounted, S
    <3>2. /\ Cardinality({j \in S \cup {i} : group_of_inode(j) = h}) =
               Cardinality({j \in S : group_of_inode(j) = h}) + (IF h = g THEN 1 ELSE 0)
          /\ Cardinality({j \in S : group_of_inode(j) = h}) \in Nat
      BY <1>6, CountInode
    <3>3. e.gd_inodes[h] = IF h = g THEN d.gd_inodes[h] + 1 ELSE d.gd_inodes[h]
      BY <1>3
    <3> QED BY <3>1, <3>2, <3>3
  <2>2. e.sb_inodes = Cardinality(S \cup {i})
    <3>1. d.sb_inodes = Cardinality(S)
      BY DEF InodesCounted, S
    <3>2. Cardinality(S \cup {i}) = Cardinality(S) + 1 /\ Cardinality(S) \in Nat
      BY <1>4, <1>6, CountInode
    <3> QED BY <1>3, <3>1, <3>2
  <2> QED BY <1>6, <2>1, <2>2 DEF InodesCounted
<1> QED BY <1>3, <1>5, <1>7 DEF FreedInode, N, e

-----------------------------------------------------------------------------
\* What every operation keeps

Own(d, i) == ToSet(all_blocks(d, i))

\* A free inode is marked so, and has no blocks.
Fresh(d) ==
  \A i \in Ino : /\ i \notin d.inodes => d.inode[i].type = "none"
                 /\ d.inode[i].type = "none" => d.inode[i].data = <<>> /\ d.inode[i].ind = <<>>

\* Inodes have used blocks of their own.
Apart(d) ==
  /\ \A i \in Ino : IsInjective(all_blocks(d, i)) /\ Own(d, i) \subseteq d.blocks
  /\ \A i, j \in Ino : i # j => Own(d, i) \cap Own(d, j) = {}

\* The entries in the directories' blocks; other blocks may hold old ones.
Live(d, b) == \E i \in Ino : d.inode[i].type = "dir" /\ b \in ToSet(d.inode[i].data)
Entry(d, b, n) == IF Live(d, b) THEN d.entries[b][n] ELSE 0

\* A name leads to an inode in use, and no two to the same.
Leads(d) ==
  \A b \in Block, n \in Name : Entry(d, b, n) # 0 =>
    Entry(d, b, n) \in d.inodes /\ d.inode[Entry(d, b, n)].type # "none"
Single(d) ==
  \A b, c \in Block, m, n \in Name :
    Entry(d, b, m) # 0 /\ Entry(d, b, m) = Entry(d, c, n) => b = c /\ m = n

\* Directory i has c under the name n.
Child(d, i, n, c) ==
  d.inode[i].type = "dir" /\ \E b \in ToSet(d.inode[i].data) : Entry(d, b, n) = c

\* The first block of a directory, and no other, has its . and its ..
First(d, i) == d.inode[i].data[1]
Parent(d, i) == Entry(d, First(d, i), "..")
Dots(d) ==
  \A i \in Ino : d.inode[i].type = "dir" =>
    /\ d.inode[i].data # <<>> /\ Entry(d, First(d, i), ".") = i
    /\ \A b \in ToSet(d.inode[i].data) \ {First(d, i)} :
         Entry(d, b, ".") = 0 /\ Entry(d, b, "..") = 0

\* A name is in one block of its directory, and .. leads back to it.
Once(d) ==
  \A i \in Ino, n \in Name : d.inode[i].type = "dir" =>
    \A b, c \in ToSet(d.inode[i].data) : Entry(d, b, n) # 0 /\ Entry(d, c, n) # 0 => b = c
Back(d) ==
  \A i, c \in Ino, n \in Name :
    Child(d, i, n, c) /\ d.inode[c].type = "dir" => Parent(d, c) = i

Tree(d) == Dots(d) /\ Once(d) /\ Back(d)

Sound(d) ==
  /\ d \in Disk /\ BlocksCounted(d) /\ InodesCounted(d)
  /\ Fresh(d) /\ Apart(d) /\ Leads(d) /\ Single(d) /\ Tree(d)

\* Inode c has a name; the root is a directory and has none.
Named(d, c) == \E i \in Ino, n \in Name : Child(d, i, n, c)
Rooted(d) == d.inode[Root].type = "dir" /\ ~Named(d, Root)

\* The directories of directory i, and the link counts: a file has one, a
\* directory two, one for each of its directories, and off[i] that are still
\* to be taken away.
Kids(d, i) == {c \in Ino : d.inode[c].type = "dir" /\ \E n \in Name : Child(d, i, n, c)}
Owed(d, off) ==
  /\ Rooted(d)
  /\ \A i \in Ino :
       /\ d.inode[i].type \in {"file", "symlink"} => d.inode[i].links = 1
       /\ d.inode[i].type = "dir" => d.inode[i].links = 2 + Cardinality(Kids(d, i)) + off[i]
Linked(d) == Owed(d, [j \in Ino |-> 0])

\* Inodes that are marked used have a name, but for inode i, and blocks an owner.
Reached(d, i) ==
  /\ \A j \in d.inodes \ {i} : d.inode[j].type # "none" /\ (j = Root \/ Named(d, j))
  /\ \A b \in d.blocks : \E j \in Ino : b \in Own(d, j)

\* What every operation keeps, and what is kept until one throws half-way
Fit(d) == Sound(d) /\ Linked(d)
Whole(d) == DirsCounted(d) /\ Reached(d, 0)

\* The parts of an inode.
LEMMA InodeIs ==
  ASSUME NEW d \in Disk, NEW i \in Ino
  PROVE  /\ d.inode[i] \in Inode
         /\ d.inode[i].data \in Seq(Block) /\ d.inode[i].ind \in Seq(Block)
         /\ all_blocks(d, i) \in Seq(Block)
         /\ Own(d, i) = ToSet(d.inode[i].data) \cup ToSet(d.inode[i].ind)
         /\ Own(d, i) \subseteq Block
<1>1. d.inode[i] \in Inode
  BY DEF Disk
<1>2. d.inode[i].data \in Seq(Block) /\ d.inode[i].ind \in Seq(Block)
  BY <1>1 DEF Inode
<1>3. /\ all_blocks(d, i) \in Seq(Block)
      /\ ToSet(all_blocks(d, i)) = ToSet(d.inode[i].data) \cup ToSet(d.inode[i].ind)
  BY <1>2, ToSetConcat DEF all_blocks
<1>4. ToSet(d.inode[i].data) \subseteq Block /\ ToSet(d.inode[i].ind) \subseteq Block
  BY <1>2, ToSetIs
<1> QED BY <1>1, <1>2, <1>3, <1>4 DEF Own

\* Data and indirect blocks of an inode differ.
LEMMA PartsApart ==
  ASSUME NEW d \in Disk, Apart(d), NEW i \in Ino
  PROVE  /\ IsInjective(d.inode[i].data) /\ IsInjective(d.inode[i].ind)
         /\ ToSet(d.inode[i].data) \cap ToSet(d.inode[i].ind) = {}
         /\ ToSet(d.inode[i].data) \subseteq d.blocks /\ ToSet(d.inode[i].ind) \subseteq d.blocks
<1>1. IsInjective(d.inode[i].data \o d.inode[i].ind) /\ Own(d, i) \subseteq d.blocks
  BY DEF Apart, all_blocks
<1>2. d.inode[i].data \in Seq(Block) /\ d.inode[i].ind \in Seq(Block)
  BY InodeIs
<1> QED BY <1>1, <1>2, InodeIs, ToSetConcat

\* A live block belongs to one directory.
LEMMA LiveOwner ==
  ASSUME NEW d \in Disk, Apart(d), NEW i \in Ino, NEW b \in Own(d, i), Live(d, b)
  PROVE  d.inode[i].type = "dir" /\ b \in ToSet(d.inode[i].data)
<1>1. PICK j \in Ino : d.inode[j].type = "dir" /\ b \in ToSet(d.inode[j].data)
  BY DEF Live
<1>2. b \in Own(d, j)
  BY <1>1, InodeIs
<1>3. i = j
  BY <1>2 DEF Apart
<1> QED BY <1>1, <1>3

\* The blocks of directories are used.
LEMMA LiveUsed ==
  ASSUME NEW d \in Disk, Apart(d), NEW b, Live(d, b)
  PROVE  b \in d.blocks /\ b \in Block
<1>1. PICK j \in Ino : d.inode[j].type = "dir" /\ b \in ToSet(d.inode[j].data)
  BY DEF Live
<1>2. b \in d.blocks
  BY <1>1, PartsApart
<1> QED BY <1>2 DEF Disk

\* An entry that lookup finds, or that there is none
LEMMA LookupIs ==
  ASSUME NEW d \in Disk, NEW dir \in Ino, d.inode[dir].type = "dir", NEW n \in AnyName
  PROVE  \/ /\ lookup(d, dir, n) = 0
            /\ \A b \in ToSet(d.inode[dir].data) : Entry(d, b, n) = 0
         \/ /\ lookup(d, dir, n) \in Ino
            /\ \E b \in ToSet(d.inode[dir].data) : Entry(d, b, n) = lookup(d, dir, n)
<1> DEFINE B == {b \in ToSet(d.inode[dir].data) : d.entries[b][n] # 0}
<1>1. lookup(d, dir, n) = IF B = {} THEN 0 ELSE d.entries[CHOOSE b \in B : TRUE][n]
  BY DEF lookup
<1>2. \A b \in ToSet(d.inode[dir].data) : Entry(d, b, n) = d.entries[b][n] /\ b \in Block
  <2>1. ToSet(d.inode[dir].data) \subseteq Block
    BY InodeIs
  <2> QED BY <2>1 DEF Entry, Live
<1>3. CASE B = {}
  BY <1>1, <1>2, <1>3
<1>4. CASE B # {}
  <2>1. PICK b \in B : b = CHOOSE c \in B : TRUE
    BY <1>4
  <2>2. lookup(d, dir, n) = d.entries[b][n] /\ d.entries[b][n] # 0 /\ b \in ToSet(d.inode[dir].data)
    BY <1>1, <1>4, <2>1
  <2>3. d.entries[b][n] \in 0 .. NInodes
    BY <1>2, <2>2 DEF Disk
  <2>4. d.entries[b][n] \in Ino
    BY <2>2, <2>3, Constants DEF Ino
  <2> QED BY <1>2, <2>2, <2>4
<1> QED BY <1>3, <1>4

-----------------------------------------------------------------------------
\* Entries

\* The inodes' bitmap and counts are the same.
SameCounts(d, e) ==
  /\ e.inodes = d.inodes /\ e.gd_inodes = d.gd_inodes
  /\ e.sb_inodes = d.sb_inodes /\ e.gd_dirs = d.gd_dirs

\* e is d with i under the name nm in block c of directory dir.
Added(d, e, dir, nm, i, c) ==
  /\ e \in Disk /\ BlocksCounted(e) /\ SameCounts(d, e) /\ Apart(e)
  /\ \A j \in Ino \ {dir} : e.inode[j] = d.inode[j]
  /\ e.inode[dir].type = d.inode[dir].type /\ e.inode[dir].links = d.inode[dir].links
  /\ ToSet(d.inode[dir].data) \subseteq ToSet(e.inode[dir].data)
  /\ c \in ToSet(e.inode[dir].data)
  /\ d.inode[dir].data # <<>> => First(e, dir) = First(d, dir)
  /\ e.blocks \ Own(e, dir) \subseteq d.blocks \ Own(d, dir)
  /\ \A b \in Block, n \in AnyName :
       Entry(e, b, n) = IF b = c /\ n = nm THEN i ELSE Entry(d, b, n)

\* No entry was added, and the indirect blocks of dir may be free.
NotAdded(d, e, dir) ==
  /\ e \in Disk /\ BlocksCounted(e) /\ SameFiles(d, e)
  /\ d.blocks \ ToSet(d.inode[dir].ind) \subseteq e.blocks
  /\ \A b \in Block, n \in AnyName : Entry(e, b, n) = Entry(d, b, n)

\* A directory that grows has the entry in a block of its own, or, on a throw,
\* nothing new.
LEMMA GrowDirectoryIs ==
  ASSUME NEW d \in Disk, BlocksCounted(d), Apart(d), NEW dir \in Ino, d.inode[dir].type = "dir",
         NEW nm \in AnyName, NEW i \in Ino
  PROVE  LET r == GrowDirectory(d, dir, nm, i) IN
         /\ r.err # "none" => NotAdded(d, r.disk, dir)
         /\ r.err = "none" => \E c \in Block : Added(d, r.disk, dir, nm, i, c)
<1> DEFINE goal == group_of_inode(dir)
           r == GrowDirectory(d, dir, nm, i)
           r1 == alloc_blocks(d, goal, 1)
           e == r1.disk
           got == r1.val
           ind == e.inode[dir].ind
           data == e.inode[dir].data \o got
           new == [NoEntries EXCEPT ![nm] = i]
           e2 == [e EXCEPT !.entries[got[1]] = new]
           full == free_blocks(e2, ind)
           r3 == build_map(full, goal, Len(data))
           f == [r3.disk EXCEPT !.inode[dir].data = data, !.inode[dir].ind = r3.val]
<1>1. r = IF r1.err = "none" THEN IF r3.err = "none" THEN Ok(f, 0) ELSE r3 ELSE r1
  BY Zenon DEF GrowDirectory, Then
<1>2. goal \in Int
  BY Constants DEF group_of_inode, Ino
<1> HIDE DEF goal
<1>3. /\ r1.err # "none" => e = d
      /\ r1.err = "none" => Took(d, e, got) /\ BlocksCounted(e) /\ Len(got) = 1
  BY <1>2, AllocBlocks
<1>4. \A b \in Block, n \in AnyName : Entry(d, b, n) = Entry(d, b, n)
  OBVIOUS
<1> HIDE DEF r1, r
<1> SUFFICES /\ r.err # "none" => NotAdded(d, r.disk, dir)
             /\ r.err = "none" => \E c \in Block : Added(d, r.disk, dir, nm, i, c)
  BY DEF r
<1>5. CASE r1.err # "none"
  <2>1. r.err # "none" /\ r.disk = d
    BY <1>1, <1>3, <1>5
  <2> QED BY <2>1 DEF NotAdded, SameFiles
<1>6. CASE r1.err = "none"
  <2>1. Took(d, e, got) /\ BlocksCounted(e) /\ Len(got) = 1 /\ e \in Disk /\ got \in Seq(Block)
    BY <1>3, <1>6 DEF Took
  <2> DEFINE c == got[1]
  <2>2. c \in Block /\ ToSet(got) = {c} /\ c \notin d.blocks
    <3>1. c \in Block /\ DOMAIN got = {1}
      BY <2>1
    <3>2. ToSet(got) = {c}
      BY <3>1 DEF ToSet
    <3> QED BY <2>1, <3>1, <3>2 DEF Took
  <2>3. /\ e.inode = d.inode /\ e.blocks = d.blocks \cup {c} /\ e.entries = d.entries
        /\ SameCounts(d, e)
    BY <2>1, <2>2 DEF Took, SameFiles, SameCounts
  <2> HIDE DEF e, got
  <2>4. new \in [AnyName -> 0 .. NInodes] /\ new[nm] = i /\ \A n \in AnyName \ {nm} : new[n] = 0
    BY Constants DEF NoEntries, Ino
  <2> HIDE DEF new
  <2>5. /\ e2 \in Disk /\ BlocksCounted(e2) /\ SameFiles(e, e2) /\ e2.blocks = e.blocks
        /\ e2.entries[c] = new /\ \A b \in Block \ {c} : e2.entries[b] = e.entries[b]
    <3> DEFINE E == [e.entries EXCEPT ![c] = new]
    <3>1. e.entries \in [Block -> [AnyName -> 0 .. NInodes]]
      BY <2>1 DEF Disk
    <3>2. E \in [Block -> [AnyName -> 0 .. NInodes]] /\ E[c] = new /\ \A b \in Block \ {c} : E[b] = e.entries[b]
      BY <2>2, <2>4, <3>1
    <3>3. e2 = [e EXCEPT !.entries = E]
      BY <2>1 DEF Disk
    <3> HIDE DEF E, e2, c
    <3>4. /\ e2 \in Disk /\ SameFiles(e, e2) /\ e2.blocks = e.blocks /\ e2.entries = E
          /\ e2.gd_blocks = e.gd_blocks /\ e2.sb_blocks = e.sb_blocks
      BY <2>1, <3>2, <3>3 DEF Disk, SameFiles
    <3> QED BY <2>1, <3>2, <3>4 DEF BlocksCounted
  <2> HIDE DEF e2, c
  <2>6. /\ ind \in Seq(Block) /\ IsInjective(ind) /\ ToSet(ind) \subseteq d.blocks
        /\ ind = d.inode[dir].ind /\ c \notin ToSet(ind)
    BY <2>2, <2>3, InodeIs, PartsApart
  <2> HIDE DEF ind
  <2>7. /\ full \in Disk /\ SameFiles(e2, full) /\ BlocksCounted(full)
        /\ full.blocks = e2.blocks \ ToSet(ind)
        /\ \A b \in Block \ ToSet(ind) : full.entries[b] = e2.entries[b]
    BY <2>3, <2>5, <2>6, FreeBlocks
  <2> HIDE DEF full
  <2>8. full.blocks = (d.blocks \cup {c}) \ ToSet(ind) /\ full.inode = d.inode /\ SameCounts(d, full)
    BY <2>3, <2>5, <2>7 DEF SameFiles, SameCounts
  <2> DEFINE old == d.inode[dir].data
  <2>9. /\ old \in Seq(Block) /\ data = old \o got /\ data \in Seq(Block) /\ Len(data) \in Nat
        /\ IsInjective(data) /\ ToSet(data) = ToSet(old) \cup {c}
        /\ ToSet(old) \cap ToSet(ind) = {} /\ ToSet(old) \subseteq d.blocks
    <3>1. old \in Seq(Block) /\ IsInjective(old) /\ ToSet(old) \subseteq d.blocks
      BY InodeIs, PartsApart
    <3>2. IsInjective(got) /\ ToSet(old) \cap ToSet(got) = {}
      BY <2>1, <2>2, <3>1 DEF Took
    <3>3. data = old \o got
      BY <2>3
    <3>4. ToSet(old) \cap ToSet(ind) = {}
      BY <2>6, PartsApart
    <3> HIDE DEF old
    <3>5. /\ old \o got \in Seq(Block) /\ IsInjective(old \o got)
          /\ ToSet(old \o got) = ToSet(old) \cup ToSet(got)
      BY <2>1, <3>1, <3>2, ToSetConcat
    <3> HIDE DEF data
    <3>6. Len(data) \in Nat
      BY <3>3, <3>5
    <3> QED BY <2>2, <3>1, <3>3, <3>4, <3>5, <3>6
  <2> HIDE DEF data
  <2>10. /\ Leaked(full, r3.disk) /\ BlocksCounted(r3.disk)
         /\ r3.err = "none" => Took(full, r3.disk, r3.val)
    BY <1>2, <2>7, <2>9, BuildMap
  <2> HIDE DEF r3
  <2>11. ASSUME NEW b \in Block, NEW n \in AnyName, Live(d, b)
         PROVE  r3.disk.entries[b] = d.entries[b]
    <3>1. b \notin ToSet(ind) /\ b # c
      <4>1. b \in d.blocks
        BY <2>11, LiveUsed
      <4>2. ASSUME b \in ToSet(ind) PROVE FALSE
        <5>1. b \in Own(d, dir)
          BY <2>6, <4>2, InodeIs
        <5>2. b \in ToSet(old)
          BY <2>11, <5>1, LiveOwner
        <5> QED BY <2>9, <4>2, <5>2
      <4> QED BY <2>2, <4>1, <4>2
    <3>2. r3.disk.entries = full.entries
      BY <2>10 DEF Leaked
    <3> QED BY <2>3, <2>5, <2>7, <3>1, <3>2
  <2>12. CASE r3.err # "none"
    <3>1. r = r3
      BY <1>1, <1>6, <2>12
    <3>2. r3.disk \in Disk /\ SameFiles(d, r3.disk) /\ full.blocks \subseteq r3.disk.blocks
      BY <2>8, <2>10 DEF Leaked, SameFiles, SameCounts
    <3>3. \A b \in Block : Live(r3.disk, b) <=> Live(d, b)
      BY <3>2 DEF Live, SameFiles
    <3>4. \A b \in Block, n \in AnyName : Entry(r3.disk, b, n) = Entry(d, b, n)
      BY <2>11, <3>3 DEF Entry
    <3>5. d.blocks \ ToSet(d.inode[dir].ind) \subseteq r3.disk.blocks
      BY <2>6, <2>8, <3>2
    <3> QED BY <2>10, <2>12, <3>1, <3>2, <3>4, <3>5 DEF NotAdded
  <2>13. CASE r3.err = "none"
    <3> DEFINE g == r3.disk
               x == [d.inode[dir] EXCEPT !.data = data, !.ind = r3.val]
    <3>1. r.err = "none" /\ r.disk = f
      BY <1>1, <1>6, <2>13 DEF Ok
    <3>2. /\ g \in Disk /\ SameFiles(full, g) /\ g.entries = full.entries /\ BlocksCounted(g)
          /\ r3.val \in Seq(Block) /\ ToSet(r3.val) \cap full.blocks = {} /\ IsInjective(r3.val)
          /\ g.blocks = full.blocks \cup ToSet(r3.val)
      BY <2>10, <2>13 DEF Took
    <3>3. /\ x \in Inode /\ x.type = d.inode[dir].type /\ x.data = data /\ x.ind = r3.val
          /\ x.links = d.inode[dir].links
      <4>1. d.inode[dir] \in Inode
        BY InodeIs
      <4> QED BY <2>9, <3>2, <4>1 DEF Inode
    <3>4. g.inode = d.inode
      BY <2>8, <3>2 DEF SameFiles
    <3>5. f = [g EXCEPT !.inode = [d.inode EXCEPT ![dir] = x]]
      <4>1. d.inode \in [Ino -> Inode]
        BY DEF Disk
      <4> QED BY <3>2, <3>4, <4>1 DEF Disk, Inode
    <3> HIDE DEF g, f, x
    <3>6. /\ f \in Disk /\ f.inode[dir] = x /\ \A j \in Ino \ {dir} : f.inode[j] = d.inode[j]
          /\ SameCounts(g, f) /\ f.blocks = g.blocks /\ f.entries = g.entries
          /\ f.gd_blocks = g.gd_blocks /\ f.sb_blocks = g.sb_blocks
      <4> DEFINE I == [d.inode EXCEPT ![dir] = x]
      <4>1. I \in [Ino -> Inode] /\ I[dir] = x /\ \A j \in Ino \ {dir} : I[j] = d.inode[j]
        BY <3>3 DEF Disk
      <4> HIDE DEF I
      <4>2. f = [g EXCEPT !.inode = I]
        BY <3>5 DEF I
      <4>3. f \in Disk /\ f.inode = I
        BY <3>2, <4>1, <4>2 DEF Disk
      <4>4. /\ SameCounts(g, f) /\ f.blocks = g.blocks /\ f.entries = g.entries
            /\ f.gd_blocks = g.gd_blocks /\ f.sb_blocks = g.sb_blocks
        BY <3>2, <4>2 DEF Disk, SameCounts
      <4> QED BY <4>1, <4>3, <4>4
    <3>7. BlocksCounted(f)
      BY <3>2, <3>6 DEF BlocksCounted
    <3>8. SameCounts(d, f)
      BY <2>8, <3>2, <3>6 DEF SameCounts, SameFiles
    <3>9. f.blocks = ((d.blocks \cup {c}) \ ToSet(ind)) \cup ToSet(r3.val)
      BY <2>8, <3>2, <3>6
    <3>10. /\ all_blocks(f, dir) = data \o r3.val /\ IsInjective(all_blocks(f, dir))
           /\ Own(f, dir) = ToSet(old) \cup {c} \cup ToSet(r3.val)
           /\ Own(f, dir) \subseteq f.blocks
      <4>1. all_blocks(f, dir) = data \o r3.val
        BY <3>3, <3>6 DEF all_blocks
      <4>2. ToSet(data) \subseteq full.blocks
        BY <2>6, <2>8, <2>9
      <4>3. ToSet(data) \cap ToSet(r3.val) = {}
        BY <3>2, <4>2
      <4>4. /\ IsInjective(data \o r3.val)
            /\ ToSet(data \o r3.val) = ToSet(data) \cup ToSet(r3.val)
        <5>1. PICK s \in Seq(Block), t \in Seq(Block) : s = data /\ t = r3.val
          BY <2>9, <3>2
        <5>2. IsInjective(s) /\ IsInjective(t) /\ ToSet(s) \cap ToSet(t) = {}
          BY <2>9, <3>2, <4>3, <5>1
        <5>3. IsInjective(s \o t) /\ ToSet(s \o t) = ToSet(s) \cup ToSet(t)
          BY <5>2, ToSetConcat
        <5> QED BY <5>1, <5>3
      <4>5. ToSet(data) \cup ToSet(r3.val) \subseteq f.blocks
        BY <2>8, <3>9, <4>2
      <4> QED BY <2>9, <4>1, <4>4, <4>5 DEF Own
    <3>11. ASSUME NEW j \in Ino \ {dir}
           PROVE  /\ IsInjective(all_blocks(f, j)) /\ Own(f, j) = Own(d, j)
                  /\ Own(f, j) \subseteq f.blocks /\ Own(f, j) \cap Own(f, dir) = {}
      <4>1. all_blocks(f, j) = all_blocks(d, j) /\ Own(f, j) = Own(d, j)
        BY <3>6 DEF all_blocks, Own
      <4>2. /\ IsInjective(all_blocks(d, j)) /\ Own(d, j) \subseteq d.blocks
            /\ Own(d, j) \cap Own(d, dir) = {}
        BY DEF Apart
      <4>3. Own(d, dir) = ToSet(old) \cup ToSet(ind)
        BY <2>6, InodeIs
      <4>4. Own(d, j) \subseteq full.blocks
        BY <2>8, <4>2, <4>3
      <4>5. Own(d, j) \subseteq f.blocks
        BY <2>8, <3>9, <4>4
      <4>6. Own(d, j) \cap ToSet(r3.val) = {}
        BY <3>2, <4>4
      <4>7. Own(d, j) \cap Own(f, dir) = {}
        BY <2>2, <3>10, <4>2, <4>3, <4>6
      <4> QED BY <4>1, <4>2, <4>5, <4>7
    <3>12. Apart(f)
      <4>1. \A j \in Ino : IsInjective(all_blocks(f, j)) /\ Own(f, j) \subseteq f.blocks
        BY <3>10, <3>11
      <4>2. ASSUME NEW j \in Ino, NEW k \in Ino, j # k PROVE Own(f, j) \cap Own(f, k) = {}
        <5>1. CASE j = dir \/ k = dir
          BY <3>11, <4>2, <5>1
        <5>2. CASE j # dir /\ k # dir
          <6>1. Own(f, j) = Own(d, j) /\ Own(f, k) = Own(d, k)
            BY <3>11, <5>2
          <6> QED BY <4>2, <6>1 DEF Apart
        <5> QED BY <5>1, <5>2
      <4> QED BY <4>1, <4>2 DEF Apart
    <3>13. /\ f.inode[dir].type = d.inode[dir].type /\ f.inode[dir].links = d.inode[dir].links
           /\ ToSet(f.inode[dir].data) = ToSet(old) \cup {c}
      BY <2>9, <3>3, <3>6
    <3>14. \A b \in Block : Live(f, b) <=> Live(d, b) \/ b = c
      <4> TAKE b \in Block
      <4>1. \A j \in Ino \ {dir} : (f.inode[j].type = "dir" /\ b \in ToSet(f.inode[j].data))
                              <=> (d.inode[j].type = "dir" /\ b \in ToSet(d.inode[j].data))
        BY <3>6
      <4>2. (f.inode[dir].type = "dir" /\ b \in ToSet(f.inode[dir].data))
              <=> (d.inode[dir].type = "dir" /\ b \in ToSet(d.inode[dir].data)) \/ b = c
        BY <3>13
      <4> QED BY <4>1, <4>2 DEF Live
    <3>15. ASSUME NEW b \in Block, NEW n \in AnyName
           PROVE  Entry(f, b, n) = IF b = c /\ n = nm THEN i ELSE Entry(d, b, n)
      <4>0. f.entries = r3.disk.entries /\ f.entries = full.entries
        BY <3>2, <3>6 DEF g
      <4>1. CASE b = c
        <5>1. ~Live(d, b)
          BY <2>2, <4>1, LiveUsed
        <5>2. Live(f, b) /\ f.entries[b] = new
          BY <2>2, <2>5, <2>6, <2>7, <3>14, <4>0, <4>1
        <5> QED BY <2>4, <4>1, <5>1, <5>2 DEF Entry
      <4>2. CASE b # c
        <5>1. Live(f, b) <=> Live(d, b)
          BY <3>14, <4>2
        <5>2. Live(d, b) => f.entries[b] = d.entries[b]
          BY <2>11, <4>0
        <5> QED BY <4>2, <5>1, <5>2 DEF Entry
      <4> QED BY <4>1, <4>2
    <3>16. old # <<>> => First(f, dir) = First(d, dir)
      <4>1. f.inode[dir].data = old \o got
        BY <2>9, <3>3, <3>6
      <4>2. got \in Seq(Block)
        BY <2>1
      <4>3. old # <<>> => (old \o got)[1] = old[1]
        BY <2>9, <4>2
      <4> QED BY <4>1, <4>3 DEF First
    <3>17. f.blocks \ Own(f, dir) \subseteq d.blocks \ Own(d, dir)
      <4>1. Own(d, dir) = ToSet(old) \cup ToSet(ind)
        BY <2>6, InodeIs
      <4> QED BY <3>9, <3>10, <4>1
    <3>18. Added(d, f, dir, nm, i, c)
      BY <3>6, <3>7, <3>8, <3>12, <3>13, <3>15, <3>16, <3>17 DEF Added
    <3> QED BY <2>2, <3>1, <3>18
  <2> QED BY <2>12, <2>13
<1> QED BY <1>5, <1>6

\* A disk with other entries, or other inodes
LEMMA WithEntries ==
  ASSUME NEW d \in Disk, NEW E \in [Block -> [AnyName -> 0 .. NInodes]], NEW e,
         e = [d EXCEPT !.entries = E]
  PROVE  /\ e \in Disk /\ SameFiles(d, e) /\ SameCounts(d, e)
         /\ e.blocks = d.blocks /\ e.entries = E /\ e.inode = d.inode
         /\ BlocksCounted(d) => BlocksCounted(e)
<1>1. e \in Disk /\ e.entries = E
  BY DEF Disk
<1>2. SameFiles(d, e) /\ SameCounts(d, e) /\ e.blocks = d.blocks
  BY DEF Disk, SameFiles, SameCounts
<1>3. e.gd_blocks = d.gd_blocks /\ e.sb_blocks = d.sb_blocks
  BY DEF Disk
<1> QED BY <1>1, <1>2, <1>3 DEF BlocksCounted, SameFiles

\* Inodes are written without touching bitmaps and counts.
LEMMA WithInodes ==
  ASSUME NEW d \in Disk, NEW I \in [Ino -> Inode], NEW e, e = [d EXCEPT !.inode = I]
  PROVE  /\ e \in Disk /\ SameCounts(d, e)
         /\ e.blocks = d.blocks /\ e.entries = d.entries /\ e.inode = I
         /\ BlocksCounted(d) => BlocksCounted(e)
<1>1. e \in Disk /\ e.inode = I
  BY DEF Disk
<1>2. SameCounts(d, e) /\ e.blocks = d.blocks /\ e.entries = d.entries
  BY DEF Disk, SameCounts
<1>3. e.gd_blocks = d.gd_blocks /\ e.sb_blocks = d.sb_blocks
  BY DEF Disk
<1> QED BY <1>1, <1>2, <1>3 DEF BlocksCounted

\* Block maps that are left alone stay apart while their blocks are used.
LEMMA StaysApart ==
  ASSUME NEW d, NEW e, Apart(d),
         \A i \in Ino : e.inode[i].data = d.inode[i].data /\ e.inode[i].ind = d.inode[i].ind,
         \A i \in Ino : Own(d, i) \subseteq e.blocks
  PROVE  Apart(e)
<1>1. \A i \in Ino : all_blocks(e, i) = all_blocks(d, i) /\ Own(e, i) = Own(d, i)
  BY DEF all_blocks, Own
<1> QED BY <1>1 DEF Apart

\* add-entry! stores the name in one block of the directory, or throws.
LEMMA AddEntry ==
  ASSUME NEW d \in Disk, BlocksCounted(d), Apart(d), NEW dir \in Ino, d.inode[dir].type = "dir",
         NEW nm \in AnyName, NEW i \in Ino
  PROVE  LET r == add_entry(d, dir, nm, i) IN
         /\ r.err # "none" => NotAdded(d, r.disk, dir)
         /\ r.err = "none" => \E c \in Block : Added(d, r.disk, dir, nm, i, c)
<1> DEFINE data == d.inode[dir].data
           room == {k \in DOMAIN data : EntryCount(d, data[k]) < DirCap}
           c == data[Min(room)]
           e == [d EXCEPT !.entries[c][nm] = i]
           r == add_entry(d, dir, nm, i)
<1>1. r = IF room = {} THEN GrowDirectory(d, dir, nm, i) ELSE Ok(e, 0)
  BY DEF add_entry
<1>2. CASE room = {}
  BY <1>1, <1>2, GrowDirectoryIs
<1>3. CASE room # {}
  <2>1. data \in Seq(Block)
    BY InodeIs
  <2>2. Min(room) \in DOMAIN data
    <3>1. room \subseteq DOMAIN data /\ DOMAIN data \subseteq Nat
      BY <2>1
    <3> HIDE DEF room
    <3>2. \E x \in room : \A y \in room : x <= y
      BY <1>3, <3>1, Least
    <3> QED BY <3>1, <3>2 DEF Min
  <2>3. c \in ToSet(data) /\ c \in Block
    <3> HIDE DEF room
    <3>1. c \in ToSet(data)
      BY <2>2 DEF ToSet
    <3> QED BY <2>1, <3>1, ToSetIs
  <2>4. r.err = "none" /\ r.disk = e
    <3> HIDE DEF room, e, r
    <3> QED BY <1>1, <1>3 DEF Ok
  <2> HIDE DEF c, r
  <2> DEFINE E == [d.entries EXCEPT ![c] = [@ EXCEPT ![nm] = i]]
  <2>5. d.entries \in [Block -> [AnyName -> 0 .. NInodes]]
    BY DEF Disk
  <2>6. e = [d EXCEPT !.entries = E]
    BY <2>3, <2>5 DEF Disk
  <2>7. /\ E \in [Block -> [AnyName -> 0 .. NInodes]]
        /\ \A b \in Block, n \in AnyName : E[b][n] = IF b = c /\ n = nm THEN i ELSE d.entries[b][n]
    <3>1. i \in 0 .. NInodes
      BY Constants DEF Ino
    <3>2. d.entries[c] \in [AnyName -> 0 .. NInodes]
      BY <2>3, <2>5
    <3>3. [d.entries[c] EXCEPT ![nm] = i] \in [AnyName -> 0 .. NInodes]
      BY <3>1, <3>2
    <3> QED BY <2>3, <2>5, <3>1, <3>2, <3>3
  <2> HIDE DEF E, e
  <2>8. /\ e \in Disk /\ SameFiles(d, e) /\ SameCounts(d, e) /\ e.blocks = d.blocks
        /\ e.entries = E /\ e.inode = d.inode /\ BlocksCounted(e)
    BY <2>6, <2>7, WithEntries
  <2>9. Apart(e)
    <3>1. \A j \in Ino : Own(d, j) \subseteq e.blocks
      BY <2>8 DEF Apart
    <3> QED BY <2>8, <3>1, StaysApart
  <2>10. ASSUME NEW b \in Block, NEW n \in AnyName
         PROVE  Entry(e, b, n) = IF b = c /\ n = nm THEN i ELSE Entry(d, b, n)
    <3>1. Live(e, b) <=> Live(d, b)
      BY <2>8 DEF Live
    <3>2. b = c => Live(d, b)
      BY <2>3 DEF Live
    <3>3. e.entries[b][n] = IF b = c /\ n = nm THEN i ELSE d.entries[b][n]
      BY <2>7, <2>8
    <3> QED BY <3>1, <3>2, <3>3 DEF Entry
  <2>11. First(e, dir) = First(d, dir) /\ e.blocks \ Own(e, dir) \subseteq d.blocks \ Own(d, dir)
    BY <2>8 DEF First, Own, all_blocks
  <2>12. Added(d, e, dir, nm, i, c)
    BY <2>3, <2>8, <2>9, <2>10, <2>11 DEF Added
  <2> QED BY <2>3, <2>4, <2>12 DEF r
<1> QED BY <1>2, <1>3

\* e is d without the name nm in directory dir.
Removed(d, e, dir, nm) ==
  /\ e \in Disk /\ SameFiles(d, e) /\ e.blocks = d.blocks
  /\ BlocksCounted(d) => BlocksCounted(e)
  /\ Apart(d) => Apart(e)
  /\ \A b \in Block, n \in AnyName :
       Entry(e, b, n) = IF b \in ToSet(d.inode[dir].data) /\ n = nm THEN 0 ELSE Entry(d, b, n)

\* remove-entry! takes away a name that is there.
LEMMA RemoveEntry ==
  ASSUME NEW d \in Disk, NEW dir \in Ino, d.inode[dir].type = "dir", NEW nm \in AnyName,
         lookup(d, dir, nm) # 0
  PROVE  LET r == remove_entry(d, dir, nm) IN r.err = "none" /\ Removed(d, r.disk, dir, nm)
<1> DEFINE B == ToSet(d.inode[dir].data)
           E == [b \in Block |-> IF b \in B THEN [d.entries[b] EXCEPT ![nm] = 0] ELSE d.entries[b]]
           e == [d EXCEPT !.entries = E]
           r == remove_entry(d, dir, nm)
<1>1. r.err = "none" /\ r.disk = e
  BY DEF remove_entry, Ok
<1>2. /\ E \in [Block -> [AnyName -> 0 .. NInodes]]
      /\ \A b \in Block, n \in AnyName : E[b][n] = IF b \in B /\ n = nm THEN 0 ELSE d.entries[b][n]
  <2> HIDE DEF B
  <2>1. d.entries \in [Block -> [AnyName -> 0 .. NInodes]] /\ 0 \in 0 .. NInodes
    BY Constants DEF Disk
  <2>2. \A b \in Block : d.entries[b] \in [AnyName -> 0 .. NInodes]
    BY <2>1
  <2>3. \A b \in Block : [d.entries[b] EXCEPT ![nm] = 0] \in [AnyName -> 0 .. NInodes]
    BY <2>1, <2>2
  <2> QED BY <2>1, <2>2, <2>3
<1> HIDE DEF E
<1>3. /\ e \in Disk /\ SameFiles(d, e) /\ e.blocks = d.blocks /\ e.entries = E /\ e.inode = d.inode
      /\ BlocksCounted(d) => BlocksCounted(e)
  BY <1>2, WithEntries
<1> HIDE DEF e, r
<1>4. Apart(d) => Apart(e)
  <2>1. Apart(d) => \A j \in Ino : Own(d, j) \subseteq e.blocks
    BY <1>3 DEF Apart
  <2> QED BY <1>3, <2>1, StaysApart
<1>5. ASSUME NEW b \in Block, NEW n \in AnyName
      PROVE  Entry(e, b, n) = IF b \in B /\ n = nm THEN 0 ELSE Entry(d, b, n)
  <2>1. Live(e, b) <=> Live(d, b)
    BY <1>3 DEF Live
  <2>2. e.entries[b][n] = IF b \in B /\ n = nm THEN 0 ELSE d.entries[b][n]
    BY <1>2, <1>3
  <2> QED BY <2>1, <2>2 DEF Entry
<1>6. Removed(d, e, dir, nm)
  BY <1>3, <1>4, <1>5 DEF Removed
<1> QED BY <1>1, <1>6 DEF r

\* e is d without inode i and its blocks.
Released(d, e, i) ==
  /\ e \in Disk /\ BlocksCounted(e) /\ InodesCounted(e) /\ Apart(e) /\ Fresh(e)
  /\ e.inodes = d.inodes \ {i} /\ e.blocks = d.blocks \ Own(d, i)
  /\ e.inode[i] = FreshInode("none", 0)
  /\ \A j \in Ino \ {i} : e.inode[j] = d.inode[j]
  /\ \A b \in Block, n \in AnyName :
       Entry(e, b, n) = IF b \in Own(d, i) THEN 0 ELSE Entry(d, b, n)
  /\ DirsCounted(d) => DirsCounted(e)

\* A new inode has no blocks.
LEMMA FreshIsInode ==
  ASSUME NEW type \in {"none", "file", "dir", "symlink"}, NEW links \in Int
  PROVE  /\ FreshInode(type, links) \in Inode
         /\ FreshInode(type, links).type = type /\ FreshInode(type, links).links = links
         /\ FreshInode(type, links).data = <<>> /\ FreshInode(type, links).ind = <<>>
<1>1. NoLink \in Links
  BY DEF NoLink, Links
<1>2. <<>> \in Seq(Block)
  OBVIOUS
<1> QED BY <1>1, <1>2 DEF FreshInode, Inode

\* release-inode! frees the inode and its blocks.
LEMMA ReleaseInode ==
  ASSUME NEW d \in Disk, BlocksCounted(d), InodesCounted(d), Apart(d), Fresh(d), NEW i \in d.inodes
  PROVE  Released(d, release_inode(d, i), i)
<1> DEFINE dd == IF d.inode[i].type = "dir" THEN 1 ELSE 0
           s == all_blocks(d, i)
           e == free_blocks(d, s)
           none == FreshInode("none", 0)
           e2 == [e EXCEPT !.inode[i] = none]
           f == free_inode(e2, i, dd)
<1>0. d.inodes \subseteq Ino /\ i \in Ino
  BY DEF Disk
<1>1. release_inode(d, i) = f
  BY DEF release_inode
<1>2. dd \in Int
  OBVIOUS
<1>3. s \in Seq(Block) /\ IsInjective(s) /\ ToSet(s) = Own(d, i) /\ Own(d, i) \subseteq d.blocks
  BY <1>0, InodeIs DEF Apart, Own
<1> HIDE DEF s
<1>4. /\ e \in Disk /\ SameFiles(d, e) /\ BlocksCounted(e)
      /\ e.blocks = d.blocks \ Own(d, i)
      /\ \A b \in Block \ Own(d, i) : e.entries[b] = d.entries[b]
  BY <1>3, FreeBlocks
<1> HIDE DEF e
<1>5. none \in Inode /\ none.type = "none" /\ none.data = <<>> /\ none.ind = <<>>
  BY FreshIsInode
<1> HIDE DEF none
<1> DEFINE I == [d.inode EXCEPT ![i] = none]
<1>6. I \in [Ino -> Inode] /\ I[i] = none /\ \A j \in Ino \ {i} : I[j] = d.inode[j]
  BY <1>0, <1>5 DEF Disk
<1>7. e2 = [e EXCEPT !.inode = I]
  BY <1>4 DEF Disk, SameFiles
<1> HIDE DEF I, e2
<1>8. /\ e2 \in Disk /\ SameCounts(e, e2) /\ BlocksCounted(e2)
      /\ e2.blocks = e.blocks /\ e2.entries = e.entries /\ e2.inode = I
  BY <1>4, <1>6, <1>7, WithInodes
<1>9. SameCounts(d, e2) /\ InodesCounted(e2)
  BY <1>4, <1>8 DEF SameCounts, SameFiles, InodesCounted
<1>10. FreedInode(e2, f, i, dd)
  <2>1. i \in e2.inodes
    BY <1>9 DEF SameCounts
  <2> HIDE DEF dd
  <2> QED BY <1>2, <1>8, <1>9, <2>1, FreeInode
<1> HIDE DEF f
<1>11. /\ f \in Disk /\ InodesCounted(f) /\ f.inode = I /\ f.inodes = d.inodes \ {i}
       /\ f.blocks = d.blocks \ Own(d, i) /\ f.entries = e.entries
  BY <1>4, <1>8, <1>9, <1>10 DEF FreedInode, SameBlocks, SameCounts
<1>12. BlocksCounted(f)
  BY <1>8, <1>10 DEF FreedInode, SameBlocks, BlocksCounted
<1>13. Apart(f)
  <2>1. all_blocks(f, i) = <<>>
    BY <1>5, <1>6, <1>11 DEF all_blocks
  <2>2. Own(f, i) = {} /\ IsInjective(all_blocks(f, i))
    BY <2>1 DEF Own, ToSet, IsInjective
  <2>3. \A j \in Ino \ {i} : all_blocks(f, j) = all_blocks(d, j) /\ Own(f, j) = Own(d, j)
    BY <1>6, <1>11 DEF all_blocks, Own
  <2>4. \A j \in Ino \ {i} : Own(d, j) \subseteq f.blocks
    BY <1>0, <1>11 DEF Apart
  <2>5. \A j \in Ino : IsInjective(all_blocks(f, j)) /\ Own(f, j) \subseteq f.blocks
    BY <2>2, <2>3, <2>4 DEF Apart
  <2>6. ASSUME NEW j \in Ino, NEW k \in Ino, j # k PROVE Own(f, j) \cap Own(f, k) = {}
    BY <2>2, <2>3, <2>6 DEF Apart
  <2> QED BY <2>5, <2>6 DEF Apart
<1>14. Fresh(f)
  BY <1>5, <1>6, <1>11 DEF Fresh
<1>15. ASSUME NEW b \in Block, NEW n \in AnyName
       PROVE  Entry(f, b, n) = IF b \in Own(d, i) THEN 0 ELSE Entry(d, b, n)
  <2>1. CASE b \in Own(d, i)
    <3>1. ~Live(f, b)
      <4> SUFFICES ASSUME NEW j \in Ino, f.inode[j].type = "dir", b \in ToSet(f.inode[j].data)
                   PROVE  FALSE
        BY DEF Live
      <4>1. j # i
        BY <1>5, <1>6, <1>11
      <4>2. b \in Own(d, j)
        BY <1>6, <1>11, <4>1, InodeIs
      <4> QED BY <1>0, <2>1, <4>1, <4>2 DEF Apart
    <3> QED BY <2>1, <3>1 DEF Entry
  <2>2. CASE b \notin Own(d, i)
    <3>1. f.entries[b] = d.entries[b]
      BY <1>4, <1>11, <2>2
    <3>2. Live(f, b) => Live(d, b)
      <4> SUFFICES ASSUME NEW j \in Ino, f.inode[j].type = "dir", b \in ToSet(f.inode[j].data)
                   PROVE  Live(d, b)
        BY DEF Live
      <4>1. j # i
        BY <1>5, <1>6, <1>11
      <4> QED BY <1>6, <1>11, <4>1 DEF Live
    <3>3. Live(d, b) => Live(f, b)
      <4> SUFFICES ASSUME NEW j \in Ino, d.inode[j].type = "dir", b \in ToSet(d.inode[j].data)
                   PROVE  Live(f, b)
        BY DEF Live
      <4>1. j # i
        BY <1>0, <2>2, InodeIs
      <4> QED BY <1>6, <1>11, <4>1 DEF Live
    <3> QED BY <2>2, <3>1, <3>2, <3>3 DEF Entry
  <2> QED BY <2>1, <2>2
<1>16. ASSUME DirsCounted(d) PROVE DirsCounted(f)
  <2> DEFINE g == group_of_inode(i)
             S == DirsOf(f)
  <2>1. /\ f.gd_dirs[g] = d.gd_dirs[g] - dd
        /\ \A h \in Group \ {g} : f.gd_dirs[h] = d.gd_dirs[h]
    BY <1>9, <1>10 DEF FreedInode, SameCounts
  <2>2. S \in SUBSET Ino /\ i \notin S
    BY <1>0, <1>11 DEF DirsOf
  <2>3. DirsOf(d) = IF d.inode[i].type = "dir" THEN S \cup {i} ELSE S
    BY <1>0, <1>6, <1>11 DEF DirsOf
  <2> HIDE DEF S
  <2>4. ASSUME NEW h \in Group
        PROVE  f.gd_dirs[h] = Cardinality({j \in S : group_of_inode(j) = h})
    <3>1. /\ Cardinality({j \in S \cup {i} : group_of_inode(j) = h}) =
               Cardinality({j \in S : group_of_inode(j) = h}) + (IF h = g THEN 1 ELSE 0)
          /\ Cardinality({j \in S : group_of_inode(j) = h}) \in Nat
      <4>1. i \in Ino \ S /\ S \in SUBSET Ino
        BY <1>0, <2>2
      <4> QED BY <4>1, CountInode
    <3>2. d.gd_dirs[h] = Cardinality({j \in DirsOf(d) : group_of_inode(j) = h})
      BY <1>16 DEF DirsCounted
    <3>3. f.gd_dirs[h] = IF h = g THEN d.gd_dirs[h] - dd ELSE d.gd_dirs[h]
      BY <2>1
    <3>4. CASE d.inode[i].type = "dir"
      BY <2>3, <3>1, <3>2, <3>3, <3>4
    <3>5. CASE d.inode[i].type # "dir"
      BY <2>3, <3>1, <3>2, <3>3, <3>5
    <3> QED BY <3>4, <3>5
  <2> QED BY <2>4 DEF DirsCounted, S
<1>17. f.inode[i] = FreshInode("none", 0)
  BY <1>6, <1>11 DEF none
<1> HIDE DEF dd
<1>18. Released(d, f, i)
  BY <1>6, <1>11, <1>12, <1>13, <1>14, <1>15, <1>16, <1>17 DEF Released
<1> QED BY <1>1, <1>18 DEF f

-----------------------------------------------------------------------------
\* Paths

\* Induction, without an operator as a parameter: a set of numbers that holds 0
\* and the successor of each of its members holds them all.
LEMMA Induction ==
  ASSUME NEW T, 0 \in T, \A n \in Nat : n \in T => n + 1 \in T
  PROVE  \A n \in Nat : n \in T
<1> DEFINE U == Nat \ T
<1> SUFFICES ASSUME U # {} PROVE FALSE
  OBVIOUS
<1>1. U \subseteq Nat
  OBVIOUS
<1>2. PICK x \in U : \A y \in U : x <= y
  <2> HIDE DEF U
  <2> QED BY <1>1, Least
<1>3. x \in Nat /\ x # 0
  OBVIOUS
<1>4. x - 1 \in Nat /\ (x - 1) + 1 = x /\ ~(x <= x - 1)
  BY <1>3
<1> QED BY <1>2, <1>4

\* A function on inodes has a greatest value.
LEMMA Greatest ==
  ASSUME NEW f \in [Ino -> Nat]
  PROVE  Max({f[i] : i \in Ino}) \in Nat
<1> DEFINE T == {n \in Nat : n + 1 \in Ino => \E i \in 1 .. n + 1 : \A j \in 1 .. n + 1 : f[i] >= f[j]}
<1>1. 0 \in T
  BY DEF Ino
<1>2. ASSUME NEW n \in Nat, n \in T PROVE n + 1 \in T
  <2> SUFFICES ASSUME n + 1 + 1 \in Ino
               PROVE  \E i \in 1 .. n + 1 + 1 : \A j \in 1 .. n + 1 + 1 : f[i] >= f[j]
    OBVIOUS
  <2>1. n + 1 \in Ino /\ \A j \in 1 .. n + 1 + 1 : j \in Ino /\ (j \in 1 .. n + 1 \/ j = n + 1 + 1)
    BY Constants DEF Ino
  <2>2. PICK i \in 1 .. n + 1 : \A j \in 1 .. n + 1 : f[i] >= f[j]
    BY <1>2, <2>1
  <2>3. i \in 1 .. n + 1 + 1 /\ i \in Ino
    BY <2>1
  <2>4. f[i] \in Nat /\ f[n + 1 + 1] \in Nat /\ \A j \in 1 .. n + 1 + 1 : f[j] \in Nat
    BY <2>1, <2>3
  <2>5. CASE f[i] >= f[n + 1 + 1]
    <3>1. \A j \in 1 .. n + 1 + 1 : f[i] >= f[j]
      BY <2>1, <2>2, <2>5
    <3> QED BY <2>3, <3>1
  <2>6. CASE ~(f[i] >= f[n + 1 + 1])
    <3>1. \A j \in 1 .. n + 1 + 1 : f[n + 1 + 1] >= f[j]
      BY <2>1, <2>2, <2>4, <2>6
    <3>2. n + 1 + 1 \in 1 .. n + 1 + 1
      OBVIOUS
    <3> QED BY <3>1, <3>2
  <2> QED BY <2>5, <2>6
<1>3. \A n \in Nat : n \in T
  <2> HIDE DEF T
  <2> QED BY <1>1, <1>2, Induction
<1>4. NInodes - 1 \in Nat /\ (NInodes - 1) + 1 = NInodes /\ NInodes \in Ino
  BY Constants DEF Ino
<1>5. PICK i \in Ino : \A j \in Ino : f[i] >= f[j]
  <2>1. NInodes - 1 \in T
    BY <1>3, <1>4
  <2>2. \E i \in 1 .. NInodes : \A j \in 1 .. NInodes : f[i] >= f[j]
    BY <1>4, <2>1
  <2> QED BY <2>2 DEF Ino
<1> DEFINE S == {f[j] : j \in Ino}
<1>6. f[i] \in S /\ \A y \in S : f[i] >= y
  BY <1>5
<1>7. Max(S) \in S
  <2> HIDE DEF S
  <2> QED BY <1>6 DEF Max
<1>8. S \subseteq Nat
  OBVIOUS
<1> QED BY <1>7, <1>8

WalkStates ==
  [cur : Ino, comps : Seq(AnyName), hops : Int,
   err : {"none", "not-a-directory", "not-found", "too-many-links"}]

\* One component or one symbolic link leads from a state of the walk to a
\* state of the walk.
LEMMA WalkRoundIs ==
  ASSUME NEW d \in Disk, NEW w \in WalkStates
  PROVE  WalkRound(d, w) \in WalkStates
<1> DEFINE i == lookup(d, w.cur, Head(w.comps))
           to == d.inode[i].target
<1>0. w.cur \in Ino /\ w.comps \in Seq(AnyName) /\ w.hops \in Int
  BY DEF WalkStates
<1>1. CASE w.err # "none" \/ w.comps = <<>>
  BY <1>1 DEF WalkRound
<1>2. CASE ~(w.err # "none" \/ w.comps = <<>>) /\ d.inode[w.cur].type # "dir"
  <2>1. WalkRound(d, w) = [w EXCEPT !.err = "not-a-directory"]
    BY <1>2 DEF WalkRound
  <2> QED BY <2>1 DEF WalkStates
<1>3. CASE ~(w.err # "none" \/ w.comps = <<>>) /\ d.inode[w.cur].type = "dir"
  <2>1. Head(w.comps) \in AnyName /\ Tail(w.comps) \in Seq(AnyName)
    BY <1>0, <1>3
  <2>2. i = 0 \/ i \in Ino
    BY <1>0, <1>3, <2>1, LookupIs
  <2> HIDE DEF i
  <2>3. WalkRound(d, w) =
          IF i = 0 THEN [w EXCEPT !.err = "not-found"]
          ELSE IF d.inode[i].type # "symlink" THEN [w EXCEPT !.cur = i, !.comps = Tail(@)]
          ELSE IF w.hops >= MaxHops THEN [w EXCEPT !.err = "too-many-links"]
          ELSE [w EXCEPT !.cur = IF to.absolute THEN Root ELSE @,
                         !.comps = to.path \o Tail(@), !.hops = @ + 1]
    BY <1>3 DEF WalkRound, i
  <2>4. CASE i = 0
    <3>1. WalkRound(d, w) = [w EXCEPT !.err = "not-found"]
      BY <2>3, <2>4
    <3> QED BY <3>1 DEF WalkStates
  <2>5. CASE i # 0 /\ d.inode[i].type # "symlink"
    <3>1. WalkRound(d, w) = [w EXCEPT !.cur = i, !.comps = Tail(w.comps)]
      BY <2>3, <2>5 DEF WalkStates
    <3> QED BY <2>1, <2>2, <2>5, <3>1 DEF WalkStates
  <2>6. CASE i # 0 /\ d.inode[i].type = "symlink" /\ w.hops >= MaxHops
    <3>1. WalkRound(d, w) = [w EXCEPT !.err = "too-many-links"]
      BY <2>3, <2>6
    <3> QED BY <3>1 DEF WalkStates
  <2>7. CASE i # 0 /\ d.inode[i].type = "symlink" /\ ~(w.hops >= MaxHops)
    <3> DEFINE cur == IF to.absolute THEN Root ELSE w.cur
               comps == to.path \o Tail(w.comps)
               hops == w.hops + 1
    <3>1. to.path \in Seq(AnyName)
      <4>1. d.inode[i] \in Inode
        BY <2>2, <2>7, InodeIs
      <4>2. to \in Links
        BY <4>1 DEF Inode
      <4> QED BY <4>2 DEF Links
    <3>2. cur \in Ino /\ comps \in Seq(AnyName) /\ hops \in Int
      BY <1>0, <2>1, <3>1, Constants DEF Root, Ino
    <3>3. WalkRound(d, w) = [w EXCEPT !.cur = cur, !.comps = comps, !.hops = hops]
      BY <2>3, <2>7 DEF WalkStates
    <3> HIDE DEF cur, comps, hops
    <3> QED BY <3>2, <3>3 DEF WalkStates
  <2> QED BY <2>2, <2>4, <2>5, <2>6, <2>7
<1> QED BY <1>1, <1>2, <1>3

\* f holds the states of m rounds on disk d.
WalkFrom(path) == [cur |-> Root, comps |-> path, hops |-> 0, err |-> "none"]
IsWalk(f, d, path, m) ==
  f = [k \in 0 .. m |-> IF k = 0 THEN WalkFrom(path) ELSE WalkRound(d, f[k - 1])]

\* The rounds of a walk, any number of them, are a function.
LEMMA WalkExists ==
  ASSUME NEW d, NEW path
  PROVE  \A m \in Nat : \E f : IsWalk(f, d, path, m)
<1> DEFINE T == {m \in Nat : \E f : IsWalk(f, d, path, m)}
<1>1. 0 \in T
  <2> DEFINE f == [k \in 0 .. 0 |-> WalkFrom(path)]
  <2>1. f = [k \in 0 .. 0 |-> IF k = 0 THEN WalkFrom(path) ELSE WalkRound(d, f[k - 1])]
    OBVIOUS
  <2> QED BY <2>1 DEF IsWalk
<1>2. ASSUME NEW m \in Nat, m \in T PROVE m + 1 \in T
  <2>1. PICK f : IsWalk(f, d, path, m)
    BY <1>2
  <2> DEFINE g == [k \in 0 .. m + 1 |-> IF k = m + 1 THEN WalkRound(d, f[m]) ELSE f[k]]
  <2>2. ASSUME NEW k \in 0 .. m + 1
        PROVE  g[k] = IF k = 0 THEN WalkFrom(path) ELSE WalkRound(d, g[k - 1])
    BY <2>1 DEF IsWalk
  <2>3. IsWalk(g, d, path, m + 1)
    BY <2>2 DEF IsWalk
  <2> QED BY <2>3
<1>3. \A m \in Nat : m \in T
  <2> HIDE DEF T
  <2> QED BY <1>1, <1>2, Induction
<1> QED BY <1>3

\* A walk that does not throw ends in an inode, and changes nothing.
LEMMA WalkIs ==
  ASSUME NEW d \in Disk, NEW path \in Seq(AnyName)
  PROVE  LET r == Walk(d, path) IN r.disk = d /\ (r.err = "none" => r.val \in Ino)
<1> DEFINE F == [i \in Ino |-> Len(d.inode[i].target.path)]
           rounds == Len(path) + MaxHops * Max({Len(d.inode[i].target.path) : i \in Ino})
           f == CHOOSE f : f = [k \in 0 .. rounds |-> IF k = 0 THEN WalkFrom(path)
                                                       ELSE WalkRound(d, f[k - 1])]
           r == Walk(d, path)
<1>1. rounds \in Nat
  <2>1. F \in [Ino -> Nat]
    <3> SUFFICES ASSUME NEW i \in Ino PROVE Len(d.inode[i].target.path) \in Nat
      OBVIOUS
    <3>1. d.inode[i] \in Inode
      BY InodeIs
    <3>2. d.inode[i].target \in Links
      BY <3>1 DEF Inode
    <3>3. d.inode[i].target.path \in Seq(AnyName)
      BY <3>2 DEF Links
    <3> QED BY <3>3
  <2>2. {Len(d.inode[i].target.path) : i \in Ino} = {F[i] : i \in Ino}
    OBVIOUS
  <2> HIDE DEF F
  <2>3. Max({F[i] : i \in Ino}) \in Nat
    BY <2>1, Greatest
  <2>4. MaxHops \in Nat /\ Len(path) \in Nat
    BY Ext2Assumption
  <2>5. PICK m \in Nat : m = Max({F[i] : i \in Ino})
    BY <2>3
  <2>6. MaxHops * m \in Nat
    BY <2>4
  <2>7. rounds = Len(path) + MaxHops * m
    BY <2>2, <2>5
  <2> HIDE DEF rounds
  <2> QED BY <2>4, <2>6, <2>7
<1>2. r = IF f[rounds].err = "none" THEN Ok(d, f[rounds].cur) ELSE Throw(d, f[rounds].err)
  BY Zenon DEF Walk, WalkFrom
<1> HIDE DEF rounds
<1>3. IsWalk(f, d, path, rounds)
  <2>1. PICK g : IsWalk(g, d, path, rounds)
    BY <1>1, WalkExists
  <2>2. g = [k \in 0 .. rounds |-> IF k = 0 THEN WalkFrom(path) ELSE WalkRound(d, g[k - 1])]
    BY <2>1 DEF IsWalk
  <2>3. f = [k \in 0 .. rounds |-> IF k = 0 THEN WalkFrom(path) ELSE WalkRound(d, f[k - 1])]
    BY Zenon, <2>2
  <2> QED BY Zenon, <2>3 DEF IsWalk
<1> HIDE DEF f, r
<1> DEFINE T == {n \in Nat : n <= rounds => f[n] \in WalkStates}
<1>4. 0 \in T
  <2>1. f[0] = WalkFrom(path)
    BY <1>1, <1>3 DEF IsWalk
  <2>2. Root \in Ino
    BY Constants DEF Root, Ino
  <2>3. WalkFrom(path) \in WalkStates
    BY <2>2 DEF WalkFrom, WalkStates
  <2> QED BY <2>1, <2>3
<1>5. ASSUME NEW n \in Nat, n \in T PROVE n + 1 \in T
  <2> SUFFICES ASSUME n + 1 <= rounds PROVE f[n + 1] \in WalkStates
    OBVIOUS
  <2>1. n + 1 \in 0 .. rounds /\ n + 1 # 0 /\ (n + 1) - 1 = n /\ n <= rounds
    BY <1>1
  <2>2. f[n + 1] = WalkRound(d, f[n])
    BY <1>3, <2>1 DEF IsWalk
  <2> QED BY <1>5, <2>1, <2>2, WalkRoundIs
<1>6. \A n \in Nat : n \in T
  <2> HIDE DEF T
  <2> QED BY <1>4, <1>5, Induction
<1>7. f[rounds].cur \in Ino
  <2>1. f[rounds] \in WalkStates
    BY <1>1, <1>6
  <2> QED BY <2>1 DEF WalkStates
<1>8. CASE f[rounds].err = "none"
  BY <1>2, <1>7, <1>8 DEF Ok, r
<1>9. CASE f[rounds].err # "none"
  <2>1. r.disk = d /\ r.err # "none"
    BY <1>2, <1>9 DEF Throw
  <2> QED BY <2>1 DEF r
<1> QED BY <1>8, <1>9

\* A path ends in a name.
LEMMA PathIs ==
  ASSUME NEW path \in Paths, path # <<>>
  PROVE  Last(path) \in Name /\ Front(path) \in Seq(AnyName) /\ Last(path) \in AnyName
<1>1. path \in Seq(AnyName) /\ path[Len(path)] \in Name
  BY Ext2Assumption DEF AnyName
<1>2. Front(path) \in Seq(AnyName)
  <2>1. Len(path) \in Nat /\ \A k \in 1 .. Len(path) : path[k] \in AnyName
    BY <1>1
  <2>2. \A k \in 1 .. Len(path) - 1 : k \in 1 .. Len(path)
    BY <2>1
  <2> QED BY <2>1, <2>2, <1>1 DEF Front
<1> QED BY <1>1, <1>2 DEF Last, AnyName

\* The parent of a path is a directory.
LEMMA ParentAndName ==
  ASSUME NEW d \in Disk, NEW path \in Paths
  PROVE  LET r == parent_and_name(d, path) IN
         /\ r.disk = d
         /\ r.err = "none" => /\ r.val \in Ino /\ d.inode[r.val].type = "dir"
                              /\ Last(path) \in Name
<1> DEFINE r == parent_and_name(d, path)
           r1 == Walk(d, Front(path))
<1>1. r = IF path = <<>> THEN Throw(d, "is-root")
          ELSE IF r1.err = "none"
               THEN IF r1.disk.inode[r1.val].type # "dir" THEN Throw(r1.disk, "not-a-directory")
                    ELSE Ok(r1.disk, r1.val)
               ELSE r1
  BY DEF parent_and_name, Then
<1>2. CASE path = <<>>
  BY <1>1, <1>2 DEF Throw
<1>3. CASE path # <<>>
  <2>1. Front(path) \in Seq(AnyName) /\ Last(path) \in Name
    BY <1>3, PathIs
  <2>2. r1.disk = d /\ (r1.err = "none" => r1.val \in Ino)
    BY <2>1, WalkIs
  <2> HIDE DEF r1, r
  <2>3. CASE r1.err = "none" /\ d.inode[r1.val].type = "dir"
    <3>1. r.disk = d /\ r.val = r1.val
      BY <1>1, <1>3, <2>2, <2>3 DEF Ok
    <3> QED BY <2>1, <2>2, <2>3, <3>1 DEF r
  <2>4. CASE r1.err = "none" /\ d.inode[r1.val].type # "dir"
    <3>1. r.disk = d /\ r.err # "none"
      BY <1>1, <1>3, <2>2, <2>4 DEF Throw
    <3> QED BY <3>1 DEF r
  <2>5. CASE r1.err # "none"
    <3>1. r = r1
      BY <1>1, <1>3, <2>5
    <3> QED BY <2>2, <2>5, <3>1 DEF r
  <2> QED BY <2>3, <2>4, <2>5
<1> QED BY <1>2, <1>3

-----------------------------------------------------------------------------
\* Sound disks stay sound

\* No name leads to inode i.
Nameless(d, i) == \A b \in Block, n \in Name : Entry(d, b, n) # i

\* A name is none of . and ..
LEMMA NameIsAny == Name \subseteq AnyName
BY DEF AnyName

\* Directories stay counted while types and counts are left alone.
LEMMA SameDirs ==
  ASSUME NEW d, NEW e, d.inodes \subseteq Ino, SameCounts(d, e), DirsCounted(d),
         \A j \in Ino : e.inode[j].type = d.inode[j].type
  PROVE  DirsCounted(e)
<1>1. DirsOf(e) = DirsOf(d)
  BY DEF DirsOf, SameCounts
<1> QED BY <1>1 DEF DirsCounted, SameCounts

\* The first block of a directory is one of its blocks.
LEMMA FirstIn ==
  ASSUME NEW d \in Disk, NEW i \in Ino, d.inode[i].data # <<>>
  PROVE  First(d, i) \in ToSet(d.inode[i].data) /\ First(d, i) \in Block
<1>1. d.inode[i].data \in Seq(Block)
  BY InodeIs
<1>2. 1 \in DOMAIN d.inode[i].data
  BY <1>1
<1>3. First(d, i) \in ToSet(d.inode[i].data)
  BY <1>2 DEF First, ToSet
<1> QED BY <1>1, <1>3, ToSetIs

\* Directories and names may be gone, all else in directories is the same.
LEMMA FewerNames ==
  ASSUME NEW d \in Disk, NEW e \in Disk, Dots(d), Once(d),
         \A j \in Ino : e.inode[j].type = "dir" =>
           /\ d.inode[j].type = "dir" /\ e.inode[j].data = d.inode[j].data
           /\ \A b \in ToSet(d.inode[j].data) :
                Entry(e, b, ".") = Entry(d, b, ".") /\ Entry(e, b, "..") = Entry(d, b, ".."),
         \A b \in Block, n \in Name : Entry(e, b, n) = 0 \/ Entry(e, b, n) = Entry(d, b, n)
  PROVE  /\ Dots(e) /\ Once(e) /\ (Back(d) => Back(e))
         /\ \A i, c \in Ino, n \in Name : Child(e, i, n, c) => Child(d, i, n, c)
<1>1. ASSUME NEW j \in Ino, e.inode[j].type = "dir"
      PROVE  /\ d.inode[j].type = "dir" /\ e.inode[j].data = d.inode[j].data
             /\ First(e, j) = First(d, j) /\ First(d, j) \in ToSet(d.inode[j].data)
             /\ Parent(e, j) = Parent(d, j)
  <2>1. d.inode[j].type = "dir" /\ e.inode[j].data = d.inode[j].data
    BY <1>1
  <2>2. First(e, j) = First(d, j) /\ First(d, j) \in ToSet(d.inode[j].data)
    BY <2>1, FirstIn DEF First, Dots
  <2> QED BY <1>1, <2>1, <2>2 DEF Parent
<1>2. Dots(e)
  <2> SUFFICES ASSUME NEW j \in Ino, e.inode[j].type = "dir"
               PROVE  /\ e.inode[j].data # <<>> /\ Entry(e, First(e, j), ".") = j
                      /\ \A b \in ToSet(e.inode[j].data) \ {First(e, j)} :
                           Entry(e, b, ".") = 0 /\ Entry(e, b, "..") = 0
    BY DEF Dots
  <2> QED BY <1>1 DEF Dots
<1>3. \A j \in Ino : ToSet(d.inode[j].data) \subseteq Block
  BY InodeIs
<1>4. Once(e)
  <2> SUFFICES ASSUME NEW j \in Ino, NEW n \in Name, e.inode[j].type = "dir",
                      NEW a \in ToSet(e.inode[j].data), NEW b \in ToSet(e.inode[j].data),
                      Entry(e, a, n) # 0, Entry(e, b, n) # 0
               PROVE  a = b
    BY DEF Once
  <2>1. a \in ToSet(d.inode[j].data) /\ b \in ToSet(d.inode[j].data) /\ d.inode[j].type = "dir"
    BY <1>1
  <2>2. Entry(d, a, n) # 0 /\ Entry(d, b, n) # 0
    BY <1>3, <2>1
  <2> QED BY <2>1, <2>2 DEF Once
<1>5. ASSUME NEW i \in Ino, NEW c \in Ino, NEW n \in Name, Child(e, i, n, c)
      PROVE  Child(d, i, n, c)
  <2>1. PICK b \in ToSet(e.inode[i].data) : Entry(e, b, n) = c /\ e.inode[i].type = "dir"
    BY <1>5 DEF Child
  <2>2. b \in ToSet(d.inode[i].data) /\ d.inode[i].type = "dir" /\ b \in Block
    BY <1>1, <1>3, <2>1
  <2>3. c # 0
    BY Constants DEF Ino
  <2> QED BY <2>1, <2>2, <2>3 DEF Child
<1>6. ASSUME Back(d) PROVE Back(e)
  <2> SUFFICES ASSUME NEW i \in Ino, NEW c \in Ino, NEW n \in Name, Child(e, i, n, c),
                      e.inode[c].type = "dir"
               PROVE  Parent(e, c) = i
    BY DEF Back
  <2>1. Child(d, i, n, c) /\ d.inode[c].type = "dir" /\ Parent(e, c) = Parent(d, c)
    BY <1>1, <1>5
  <2> QED BY <1>6, <2>1 DEF Back
<1> QED BY <1>2, <1>4, <1>5, <1>6

\* Directories and their entries left alone, the tree stays one.
LEMMA SameTree ==
  ASSUME NEW d \in Disk, NEW e \in Disk, Tree(d),
         \A j \in Ino : /\ e.inode[j].type = d.inode[j].type
                        /\ d.inode[j].type = "dir" => e.inode[j].data = d.inode[j].data,
         \A b \in Block, n \in AnyName : Entry(e, b, n) = Entry(d, b, n)
  PROVE  Tree(e)
<1>1. \A j \in Ino : ToSet(d.inode[j].data) \subseteq Block
  BY InodeIs
<1>2. "." \in AnyName /\ ".." \in AnyName
  BY DEF AnyName
<1> QED BY <1>1, <1>2, FewerNames, NameIsAny DEF Tree

\* All names are the same.
SameNames(d, e) == \A j, k \in Ino, n \in Name : Child(e, j, n, k) <=> Child(d, j, n, k)

\* Directories and their entries left alone, so are the children.
LEMMA SameNamesIs ==
  ASSUME NEW d \in Disk, NEW e \in Disk,
         \A j \in Ino : /\ e.inode[j].type = d.inode[j].type
                        /\ d.inode[j].type = "dir" => e.inode[j].data = d.inode[j].data,
         \A b \in Block, n \in Name : Entry(e, b, n) = Entry(d, b, n)
  PROVE  SameNames(d, e)
<1>1. \A j \in Ino : ToSet(d.inode[j].data) \subseteq Block
  BY InodeIs
<1> QED BY <1>1 DEF SameNames, Child

\* Names and link counts left alone, the counts stay right.
LEMMA SameLinks ==
  ASSUME NEW d, NEW e, SameNames(d, e),
         \A j \in Ino : e.inode[j].type = d.inode[j].type /\ e.inode[j].links = d.inode[j].links
  PROVE  \A off : Owed(d, off) => Owed(e, off)
<1>1. \A j \in Ino : Kids(e, j) = Kids(d, j)
  BY DEF SameNames, Kids
<1>2. Rooted(d) => Rooted(e)
  BY RootIn DEF Rooted, Named, SameNames
<1> QED BY <1>1, <1>2 DEF Owed

\* Names left alone and no block disowned, nothing is lost.
LEMMA SameReached ==
  ASSUME NEW d, NEW e, SameNames(d, e), d.inodes \subseteq Ino, e.inodes = d.inodes,
         \A j \in Ino : e.inode[j].type = d.inode[j].type,
         \A b \in e.blocks : b \in d.blocks \/ \E j \in Ino : b \in Own(e, j),
         \A b \in e.blocks, j \in Ino : b \in Own(d, j) => \E k \in Ino : b \in Own(e, k)
  PROVE  \A i : Reached(d, i) => Reached(e, i)
<1>1. \A j \in Ino : Named(d, j) => Named(e, j)
  BY DEF Named, SameNames
<1> TAKE i
<1> SUFFICES ASSUME Reached(d, i) PROVE Reached(e, i)
  OBVIOUS
<1>2. \A j \in e.inodes \ {i} : e.inode[j].type # "none" /\ (j = Root \/ Named(e, j))
  BY <1>1 DEF Reached
<1>3. \A b \in e.blocks : \E j \in Ino : b \in Own(e, j)
  BY DEF Reached
<1> QED BY <1>2, <1>3 DEF Reached

\* Subdirectories can be counted.
LEMMA KidsFinite ==
  ASSUME NEW d, NEW i
  PROVE  IsFiniteSet(Kids(d, i)) /\ Cardinality(Kids(d, i)) \in Nat
<1>1. Kids(d, i) \in SUBSET Ino
  BY DEF Kids
<1> QED BY <1>1, FiniteInodes

\* Links to be taken away from p alone
Off(p, k) == [j \in Ino |-> IF j = p THEN k ELSE 0]

\* A disk on which only link counts and targets differ
LEMMA SameShape ==
  ASSUME NEW d \in Disk, NEW e \in Disk, SameCounts(d, e), e.blocks = d.blocks,
         BlocksCounted(d) => BlocksCounted(e),
         \A j \in Ino : /\ e.inode[j].type = d.inode[j].type /\ e.inode[j].data = d.inode[j].data
                        /\ e.inode[j].ind = d.inode[j].ind,
         \A b \in Block, n \in AnyName : e.entries[b][n] = d.entries[b][n]
  PROVE  /\ Sound(d) => Sound(e)
         /\ DirsCounted(d) => DirsCounted(e)
         /\ \A b \in Block, n \in Name : Entry(e, b, n) = Entry(d, b, n)
<1>1. \A b \in Block : Live(e, b) <=> Live(d, b)
  BY DEF Live
<1>2. \A b \in Block, n \in AnyName : Entry(e, b, n) = Entry(d, b, n)
  BY <1>1 DEF Entry
<1>3. d.inodes \subseteq Ino
  BY DEF Disk
<1>4. DirsCounted(d) => DirsCounted(e)
  BY <1>3, SameDirs
<1>5. ASSUME Sound(d) PROVE Sound(e)
  <2>1. BlocksCounted(e) /\ InodesCounted(e)
    BY <1>5 DEF Sound, InodesCounted, SameCounts
  <2>2. Apart(e)
    <3>1. Apart(d) /\ \A j \in Ino : Own(d, j) \subseteq e.blocks
      BY <1>5 DEF Sound, Apart
    <3> QED BY <3>1, StaysApart
  <2>3. Fresh(e)
    BY <1>5 DEF Sound, Fresh, SameCounts
  <2>4. Leads(e)
    <3>1. Leads(d)
      BY <1>5 DEF Sound
    <3> QED BY <1>2, <1>3, <3>1, NameIsAny DEF Leads, SameCounts
  <2>5. Single(e)
    <3>1. Single(d)
      BY <1>5 DEF Sound
    <3> QED BY <1>2, <3>1, NameIsAny DEF Single
  <2>6. Tree(e)
    <3>1. Tree(d)
      BY <1>5 DEF Sound
    <3> QED BY <1>2, <3>1, SameTree
  <2> QED BY <2>1, <2>2, <2>3, <2>4, <2>5, <2>6 DEF Sound
<1> QED BY <1>2, <1>4, <1>5, NameIsAny

\* The names are the old ones and the one that was added.
LEMMA AddedTree ==
  ASSUME NEW d \in Disk, Apart(d), Dots(d), Once(d), NEW dir \in Ino, d.inode[dir].type = "dir",
         NEW nm \in Name, NEW i \in Ino, NEW e, NEW c \in Block, Added(d, e, dir, nm, i, c),
         \A b \in ToSet(d.inode[dir].data) : Entry(d, b, nm) = 0
  PROVE  /\ Dots(e) /\ Once(e)
         /\ \A j \in Ino : d.inode[j].type = "dir" => Parent(e, j) = Parent(d, j)
         /\ \A j, k \in Ino, n \in Name :
              Child(e, j, n, k) <=> Child(d, j, n, k) \/ (j = dir /\ n = nm /\ k = i)
<1>1. /\ e \in Disk /\ Apart(e) /\ \A j \in Ino \ {dir} : e.inode[j] = d.inode[j]
      /\ e.inode[dir].type = "dir" /\ ToSet(d.inode[dir].data) \subseteq ToSet(e.inode[dir].data)
      /\ c \in ToSet(e.inode[dir].data)
  BY DEF Added
<1>2. \A b \in Block, n \in AnyName :
        Entry(e, b, n) = IF b = c /\ n = nm THEN i ELSE Entry(d, b, n)
  BY DEF Added
<1>3. \A j \in Ino : ToSet(d.inode[j].data) \subseteq Block /\ ToSet(e.inode[j].data) \subseteq Block
  BY <1>1, InodeIs
<1>4. ASSUME NEW j \in Ino \ {dir}, NEW b \in ToSet(e.inode[dir].data)
      PROVE  b \notin ToSet(d.inode[j].data)
  <2>1. b \in Own(e, dir)
    BY <1>1, InodeIs
  <2>2. b \notin Own(e, j)
    BY <1>1, <2>1 DEF Apart
  <2> QED BY <1>1, <2>2, InodeIs
<1>5. ASSUME NEW b \in ToSet(e.inode[dir].data), b \notin ToSet(d.inode[dir].data), NEW n
      PROVE  Entry(d, b, n) = 0
  BY <1>4, <1>5 DEF Entry, Live
<1>6. "." \in AnyName /\ ".." \in AnyName /\ "." # nm /\ ".." # nm
  BY Ext2Assumption DEF AnyName
<1>7. ASSUME NEW j \in Ino, d.inode[j].type = "dir"
      PROVE  /\ First(e, j) = First(d, j) /\ First(d, j) \in ToSet(d.inode[j].data)
             /\ First(d, j) \in Block /\ e.inode[j].data # <<>>
  <2>1. d.inode[j].data # <<>>
    BY <1>7 DEF Dots
  <2>2. First(d, j) \in ToSet(d.inode[j].data) /\ First(d, j) \in Block
    BY <2>1, FirstIn
  <2>3. First(e, j) = First(d, j)
    BY <2>1 DEF Added, First
  <2>4. First(d, j) \in ToSet(e.inode[j].data)
    BY <1>1, <2>2
  <2> QED BY <2>2, <2>3, <2>4 DEF ToSet
<1>8. \A j \in Ino : e.inode[j].type = d.inode[j].type
  BY DEF Added
<1>9. Dots(e)
  <2> SUFFICES ASSUME NEW j \in Ino, d.inode[j].type = "dir"
               PROVE  /\ e.inode[j].data # <<>> /\ Entry(e, First(e, j), ".") = j
                      /\ \A b \in ToSet(e.inode[j].data) \ {First(e, j)} :
                           Entry(e, b, ".") = 0 /\ Entry(e, b, "..") = 0
    BY <1>8 DEF Dots
  <2>1. Entry(e, First(e, j), ".") = j
    BY <1>2, <1>6, <1>7 DEF Dots
  <2>2. ASSUME NEW b \in ToSet(e.inode[j].data) \ {First(e, j)}
        PROVE  Entry(d, b, ".") = 0 /\ Entry(d, b, "..") = 0
    <3>1. CASE b \in ToSet(d.inode[j].data)
      BY <1>7, <3>1 DEF Dots
    <3>2. CASE b \notin ToSet(d.inode[j].data)
      BY <1>1, <1>5, <3>2
    <3> QED BY <3>1, <3>2
  <2> QED BY <1>2, <1>3, <1>6, <1>7, <2>1, <2>2
<1>10. ASSUME NEW j \in Ino, NEW n \in Name, d.inode[j].type = "dir", NEW b \in ToSet(e.inode[j].data)
       PROVE  \/ j = dir /\ n = nm /\ b = c
              \/ Entry(e, b, n) = 0
              \/ /\ b \in ToSet(d.inode[j].data) /\ Entry(e, b, n) = Entry(d, b, n)
                 /\ ~(j = dir /\ n = nm)
  <2>1. b = c => j = dir
    BY <1>1, <1>4
  <2>2. ~(b = c /\ n = nm) => Entry(e, b, n) = Entry(d, b, n)
    BY <1>2, <1>3, NameIsAny
  <2>3. b \notin ToSet(d.inode[j].data) => Entry(d, b, n) = 0
    BY <1>1, <1>5
  <2> QED BY <2>1, <2>2, <2>3
<1>11. Once(e)
  <2> SUFFICES ASSUME NEW j \in Ino, NEW n \in Name, d.inode[j].type = "dir",
                      NEW a \in ToSet(e.inode[j].data), NEW b \in ToSet(e.inode[j].data),
                      Entry(e, a, n) # 0, Entry(e, b, n) # 0
               PROVE  a = b
    BY <1>8 DEF Once
  <2>1. CASE j = dir /\ n = nm
    BY <1>10, <2>1
  <2>2. CASE ~(j = dir /\ n = nm)
    <3>1. /\ a \in ToSet(d.inode[j].data) /\ Entry(d, a, n) # 0
          /\ b \in ToSet(d.inode[j].data) /\ Entry(d, b, n) # 0
      BY <1>10, <2>2
    <3> QED BY <3>1 DEF Once
  <2> QED BY <2>1, <2>2
<1>12. \A j \in Ino : d.inode[j].type = "dir" => Parent(e, j) = Parent(d, j)
  BY <1>2, <1>6, <1>7 DEF Parent
<1>13. ASSUME NEW j \in Ino, NEW k \in Ino, NEW n \in Name
       PROVE  Child(e, j, n, k) <=> Child(d, j, n, k) \/ (j = dir /\ n = nm /\ k = i)
  <2>0. k # 0
    BY Constants DEF Ino
  <2>1. ASSUME Child(e, j, n, k) PROVE Child(d, j, n, k) \/ (j = dir /\ n = nm /\ k = i)
    <3>1. PICK b \in ToSet(e.inode[j].data) : Entry(e, b, n) = k /\ d.inode[j].type = "dir"
      BY <1>8, <2>1 DEF Child
    <3>2. CASE j = dir /\ n = nm /\ b = c
      BY <1>2, <3>1, <3>2, NameIsAny
    <3>3. CASE b \in ToSet(d.inode[j].data) /\ Entry(e, b, n) = Entry(d, b, n)
      BY <3>1, <3>3 DEF Child
    <3> QED BY <1>10, <2>0, <3>1, <3>2, <3>3
  <2>2. ASSUME Child(d, j, n, k) PROVE Child(e, j, n, k)
    <3>1. PICK b \in ToSet(d.inode[j].data) : Entry(d, b, n) = k /\ d.inode[j].type = "dir"
      BY <2>2 DEF Child
    <3>2. b \in ToSet(e.inode[j].data) /\ b \in Block
      BY <1>1, <1>3
    <3>3. ~(b = c /\ n = nm)
      BY <1>1, <1>4, <2>0, <3>1
    <3> QED BY <1>2, <1>8, <3>1, <3>2, <3>3, NameIsAny DEF Child
  <2>3. ASSUME j = dir, n = nm, k = i PROVE Child(e, j, n, k)
    BY <1>1, <1>2, <2>3, NameIsAny DEF Child
  <2> QED BY <2>1, <2>2, <2>3
<1> QED BY <1>9, <1>11, <1>12, <1>13

\* A new name: what it adds to the link counts, and what it reaches.
LEMMA AddedLinks ==
  ASSUME NEW d, Sound(d), NEW dir \in Ino, d.inode[dir].type = "dir", NEW nm \in Name,
         NEW i \in Ino, d.inode[i].type # "none", Nameless(d, i), i # Root,
         \A b \in ToSet(d.inode[dir].data) : Entry(d, b, nm) = 0,
         NEW e, NEW c \in Block, Added(d, e, dir, nm, i, c)
  PROVE  /\ Linked(d) /\ d.inode[i].type = "dir" => Owed(e, Off(dir, -1))
         /\ Linked(d) /\ d.inode[i].type # "dir" => Linked(e)
         /\ Reached(d, i) => Reached(e, 0)
<1>0. d \in Disk /\ Apart(d) /\ Dots(d) /\ Once(d)
  BY DEF Sound, Tree
<1>1. \A j, k \in Ino, n \in Name :
        Child(e, j, n, k) <=> Child(d, j, n, k) \/ (j = dir /\ n = nm /\ k = i)
  BY <1>0, AddedTree
<1>2. \A j \in Ino, n \in Name : ~Child(d, j, n, i)
  <2>1. \A j \in Ino : ToSet(d.inode[j].data) \subseteq Block
    BY <1>0, InodeIs
  <2> QED BY <2>1 DEF Child, Nameless
<1>3. \A j \in Ino : e.inode[j].type = d.inode[j].type /\ e.inode[j].links = d.inode[j].links
  BY DEF Added
<1>r. Linked(d) => Rooted(e)
  BY <1>1, <1>3, RootIn DEF Linked, Owed, Rooted, Named
<1>4. ASSUME Linked(d), d.inode[i].type = "dir" PROVE Owed(e, Off(dir, -1))
  <2>1. ASSUME NEW j \in Ino, d.inode[j].type = "dir"
        PROVE  d.inode[j].links = 2 + Cardinality(Kids(e, j)) + Off(dir, -1)[j]
    <3>1. d.inode[j].links = 2 + Cardinality(Kids(d, j))
      BY <1>4, <2>1, KidsFinite DEF Linked, Owed
    <3>2. CASE j = dir
      <4>1. Kids(e, j) = Kids(d, j) \cup {i} /\ i \notin Kids(d, j)
        BY <1>1, <1>2, <1>3, <1>4, <3>2 DEF Kids
      <4>2. Cardinality(Kids(e, j)) = Cardinality(Kids(d, j)) + 1 /\ Cardinality(Kids(d, j)) \in Nat
        BY <4>1, KidsFinite, FS_AddElement
      <4>3. Off(dir, -1)[j] = -1
        BY <3>2 DEF Off
      <4> QED BY <3>1, <4>2, <4>3
    <3>3. CASE j # dir
      <4>1. Kids(e, j) = Kids(d, j)
        BY <1>1, <1>3, <3>3 DEF Kids
      <4>2. Off(dir, -1)[j] = 0
        BY <3>3 DEF Off
      <4> QED BY <3>1, <4>1, <4>2, KidsFinite
    <3> QED BY <3>2, <3>3
  <2>2. \A j \in Ino : d.inode[j].type \in {"file", "symlink"} => d.inode[j].links = 1
    BY <1>4 DEF Linked, Owed
  <2> QED BY <1>3, <1>4, <1>r, <2>1, <2>2 DEF Owed
<1>5. ASSUME Linked(d), d.inode[i].type # "dir" PROVE Linked(e)
  <2>1. \A j \in Ino : Kids(e, j) = Kids(d, j)
    BY <1>1, <1>3, <1>5 DEF Kids
  <2> QED BY <1>3, <1>5, <1>r, <2>1 DEF Linked, Owed
<1>6. ASSUME Reached(d, i) PROVE Reached(e, 0)
  <2>1. d.inodes \subseteq Ino /\ e.inodes = d.inodes /\ e \in Disk
    BY <1>0 DEF Disk, Added, SameCounts
  <2>2. \A j \in Ino : Named(d, j) \/ j = i => Named(e, j)
    BY <1>1 DEF Named
  <2>3. \A j \in e.inodes \ {0} : e.inode[j].type # "none" /\ (j = Root \/ Named(e, j))
    BY <1>3, <1>6, <2>1, <2>2 DEF Reached
  <2>4. ASSUME NEW b \in e.blocks PROVE \E j \in Ino : b \in Own(e, j)
    <3>1. CASE b \in Own(e, dir)
      BY <3>1
    <3>2. CASE b \notin Own(e, dir)
      <4>1. b \in d.blocks /\ b \notin Own(d, dir)
        BY <3>2 DEF Added
      <4>2. PICK j \in Ino : b \in Own(d, j)
        BY <1>6, <4>1 DEF Reached
      <4>3. e.inode[j] = d.inode[j]
        BY <4>1, <4>2 DEF Added
      <4> QED BY <4>2, <4>3 DEF Own, all_blocks
    <3> QED BY <3>1, <3>2
  <2> QED BY <2>3, <2>4 DEF Reached
<1> QED BY <1>4, <1>5, <1>6

\* i is a new entry of a sound disk.
LEMMA AddedSound ==
  ASSUME NEW d, Sound(d), NEW dir \in Ino, d.inode[dir].type = "dir", NEW nm \in Name,
         NEW i \in d.inodes, d.inode[i].type # "none", Nameless(d, i),
         d.inode[i].type = "dir" => Parent(d, i) = dir,
         \A b \in ToSet(d.inode[dir].data) : Entry(d, b, nm) = 0,
         NEW e, NEW c \in Block, Added(d, e, dir, nm, i, c)
  PROVE  Sound(e) /\ (DirsCounted(d) => DirsCounted(e))
<1>0. d \in Disk /\ d.inodes \subseteq Ino /\ i \in Ino
  BY DEF Sound, Disk
<1>1. \A j \in Ino : e.inode[j].type = d.inode[j].type
  BY DEF Added
<1>2. e \in Disk /\ BlocksCounted(e) /\ SameCounts(d, e) /\ Apart(e)
  BY DEF Added
<1>3. InodesCounted(e)
  BY <1>2 DEF Sound, InodesCounted, SameCounts
<1>4. Fresh(e)
  <2> SUFFICES ASSUME NEW j \in Ino
               PROVE  /\ j \notin e.inodes => e.inode[j].type = "none"
                      /\ e.inode[j].type = "none" => e.inode[j].data = <<>> /\ e.inode[j].ind = <<>>
    BY DEF Fresh
  <2>1. CASE j = dir
    BY <1>1, <1>2, <2>1 DEF Sound, Fresh, SameCounts
  <2>2. CASE j # dir
    <3>1. e.inode[j] = d.inode[j]
      BY <2>2 DEF Added
    <3> QED BY <1>2, <3>1 DEF Sound, Fresh, SameCounts
  <2> QED BY <2>1, <2>2
<1>5. \A b \in Block, n \in Name :
        Entry(e, b, n) = IF b = c /\ n = nm THEN i ELSE Entry(d, b, n)
  BY NameIsAny DEF Added
<1>6. Leads(e)
  <2>1. Leads(d)
    BY DEF Sound
  <2>2. e.inodes = d.inodes
    BY <1>2 DEF SameCounts
  <2> QED BY <1>0, <1>1, <1>5, <2>1, <2>2 DEF Leads
<1>7. Single(e)
  <2> SUFFICES ASSUME NEW b \in Block, NEW b2 \in Block, NEW m \in Name, NEW n \in Name,
                      Entry(e, b, m) # 0, Entry(e, b, m) = Entry(e, b2, n)
               PROVE  b = b2 /\ m = n
    BY DEF Single
  <2>0. \A k \in Block, l \in Name : Entry(e, k, l) = i => k = c /\ l = nm
    BY <1>5 DEF Nameless
  <2>1. CASE b = c /\ m = nm
    <3>1. Entry(e, b, m) = i
      BY <1>5, <2>1
    <3>2. b2 = c /\ n = nm
      BY <2>0, <3>1
    <3> QED BY <2>1, <3>2
  <2>2. CASE b2 = c /\ n = nm
    <3>1. Entry(e, b2, n) = i
      BY <1>5, <2>2
    <3>2. b = c /\ m = nm
      BY <2>0, <3>1
    <3> QED BY <2>2, <3>2
  <2>3. CASE ~(b = c /\ m = nm) /\ ~(b2 = c /\ n = nm)
    <3>1. Entry(e, b, m) = Entry(d, b, m) /\ Entry(e, b2, n) = Entry(d, b2, n)
      BY <1>5, <2>3
    <3>2. Single(d)
      BY DEF Sound
    <3>3. Entry(d, b, m) # 0 /\ Entry(d, b, m) = Entry(d, b2, n)
      BY <3>1
    <3> QED BY <3>2, <3>3 DEF Single
  <2> QED BY <2>1, <2>2, <2>3
<1>8. DirsCounted(d) => DirsCounted(e)
  BY <1>0, <1>1, <1>2, SameDirs
<1>9. Tree(e)
  <2>1. Apart(d) /\ Dots(d) /\ Once(d) /\ Back(d)
    BY DEF Sound, Tree
  <2>2. /\ Dots(e) /\ Once(e)
        /\ \A j \in Ino : d.inode[j].type = "dir" => Parent(e, j) = Parent(d, j)
        /\ \A j, k \in Ino, n \in Name :
             Child(e, j, n, k) => Child(d, j, n, k) \/ (j = dir /\ n = nm /\ k = i)
    BY <1>0, <2>1, AddedTree
  <2>3. Back(e)
    BY <1>1, <2>1, <2>2 DEF Back
  <2> QED BY <2>2, <2>3 DEF Tree
<1> QED BY <1>2, <1>3, <1>4, <1>6, <1>7, <1>8, <1>9 DEF Sound

\* An add-entry! that throws keeps the disk sound if it freed no indirect
\* block.
LEMMA NotAddedSound ==
  ASSUME NEW d, Sound(d), NEW dir \in Ino, NEW e, NotAdded(d, e, dir),
         ToSet(d.inode[dir].ind) \subseteq e.blocks
  PROVE  Sound(e) /\ (Linked(d) => Linked(e))
<1>0. d \in Disk /\ d.inodes \subseteq Ino
  BY DEF Sound, Disk
<1>1. e \in Disk /\ BlocksCounted(e) /\ SameFiles(d, e)
  BY DEF NotAdded
<1>2. d.blocks \subseteq e.blocks
  BY DEF NotAdded
<1>3. Apart(e)
  <2>1. Apart(d) /\ \A j \in Ino : Own(d, j) \subseteq e.blocks
    BY <1>2 DEF Sound, Apart
  <2> QED BY <1>1, <2>1, StaysApart DEF SameFiles
<1>4. InodesCounted(e) /\ Fresh(e)
  BY <1>1 DEF Sound, InodesCounted, Fresh, SameFiles
<1>5. \A b \in Block, n \in Name : Entry(e, b, n) = Entry(d, b, n)
  BY NameIsAny DEF NotAdded
<1>6. Leads(e)
  <2>1. Leads(d)
    BY DEF Sound
  <2> QED BY <1>1, <1>5, <2>1 DEF Leads, SameFiles
<1>7. Single(e)
  <2>1. Single(d)
    BY DEF Sound
  <2> QED BY <1>5, <2>1 DEF Single
<1>8. Tree(e)
  <2>1. Tree(d) /\ \A b \in Block, n \in AnyName : Entry(e, b, n) = Entry(d, b, n)
    BY DEF Sound, NotAdded
  <2> QED BY <1>0, <1>1, <2>1, SameTree DEF SameFiles
<1>9. Linked(d) => Linked(e)
  <2>1. SameNames(d, e)
    BY <1>0, <1>1, <1>5, SameNamesIs DEF SameFiles
  <2> QED BY <1>1, <2>1, SameLinks DEF Linked, SameFiles
<1> QED BY <1>1, <1>3, <1>4, <1>6, <1>7, <1>8, <1>9 DEF Sound

\* A new inode has no name, no blocks and no type.
LEMMA TookInodeSound ==
  ASSUME NEW d, Sound(d), NEW e, NEW i, NEW dd, TookInode(d, e, i, dd)
  PROVE  /\ Sound(e) /\ Nameless(e, i) /\ i \in Ino /\ i \in e.inodes /\ e.inode[i].type = "none"
         /\ \A b \in Block, n \in Name : Entry(e, b, n) = Entry(d, b, n)
         /\ (Linked(d) => Linked(e)) /\ (Reached(d, 0) => Reached(e, i))
<1>0. /\ d \in Disk /\ e \in Disk /\ SameBlocks(d, e) /\ InodesCounted(e)
      /\ i \in Ino /\ i \notin d.inodes /\ e.inodes = d.inodes \cup {i}
  BY DEF TookInode, Sound
<1>1. e.inode = d.inode /\ e.blocks = d.blocks /\ e.entries = d.entries
  BY <1>0 DEF SameBlocks
<1>2. BlocksCounted(e)
  BY <1>0 DEF Sound, BlocksCounted, SameBlocks
<1>3. Apart(e)
  <2>1. Apart(d) /\ \A j \in Ino : Own(d, j) \subseteq e.blocks
    BY <1>1 DEF Sound, Apart
  <2> QED BY <1>1, <2>1, StaysApart
<1>4. Fresh(e) /\ e.inode[i].type = "none"
  BY <1>0, <1>1 DEF Sound, Fresh
<1>5. \A b \in Block : \A n : Entry(e, b, n) = Entry(d, b, n)
  BY <1>1 DEF Entry, Live
<1>6. Leads(d) /\ Single(d) /\ Tree(d)
  BY DEF Sound
<1>7. Leads(e)
  BY <1>0, <1>1, <1>5, <1>6 DEF Leads
<1>8. Single(e)
  BY <1>5, <1>6 DEF Single
<1>9. Nameless(e, i)
  <2>1. i # 0
    BY <1>0, Constants DEF Ino
  <2> QED BY <1>0, <1>5, <1>6, <2>1 DEF Nameless, Leads
<1>10. Tree(e)
  BY <1>0, <1>1, <1>5, <1>6, SameTree
<1>11. SameNames(d, e)
  BY <1>0, <1>1, <1>5, SameNamesIs
<1>12. Linked(d) => Linked(e)
  BY <1>1, <1>11, SameLinks DEF Linked
<1>13. ASSUME Reached(d, 0) PROVE Reached(e, i)
  <2>1. d.inodes \subseteq Ino /\ \A j \in Ino : Own(e, j) = Own(d, j)
    BY <1>0, <1>1 DEF Disk, Own, all_blocks
  <2>2. \A j \in Ino : Named(d, j) => Named(e, j)
    BY <1>11 DEF SameNames, Named
  <2>3. 0 \notin Ino
    BY Constants DEF Ino
  <2>4. \A j \in e.inodes \ {i} : e.inode[j].type # "none" /\ (j = Root \/ Named(e, j))
    BY <1>0, <1>1, <1>13, <2>1, <2>2, <2>3 DEF Reached
  <2>5. \A b \in e.blocks : \E j \in Ino : b \in Own(e, j)
    BY <1>1, <1>13, <2>1 DEF Reached
  <2> QED BY <2>4, <2>5 DEF Reached
<1>14. Sound(e)
  BY <1>0, <1>2, <1>3, <1>4, <1>7, <1>8, <1>10 DEF Sound
<1> QED BY <1>0, <1>4, <1>5, <1>9, <1>12, <1>13, <1>14

\* e is sound and has no name that d has not; if i is a directory, .. is in place.
Made(d, e, i) ==
  /\ Sound(e) /\ Nameless(e, i)
  /\ \A b \in Block, n \in Name : Entry(e, b, n) = Entry(d, b, n)
  /\ e.inode[i].type = "dir" =>
       \A b \in Block, p \in Ino :
         e.inode[i].data = <<b>> /\ e.entries[b] = DotEntries(i, p) => Parent(e, i) = p
  /\ Linked(d) /\ e.inode[i].links = (IF e.inode[i].type = "dir" THEN 2 ELSE 1) => Linked(e)
  /\ Reached(d, i) => Reached(e, i)

\* The new inode i becomes a file, directory or link whose blocks got were free.
LEMMA NewFile ==
  ASSUME NEW d, Sound(d), NEW i \in Ino, i \in d.inodes, d.inode[i].type = "none", Nameless(d, i),
         NEW e \in Disk, BlocksCounted(e), SameCounts(d, e), NEW got \in Seq(Block),
         IsInjective(got), ToSet(got) \cap d.blocks = {}, e.blocks = d.blocks \cup ToSet(got),
         e.inode[i].type # "none", e.inode[i].data = got, e.inode[i].ind = <<>>,
         \A j \in Ino \ {i} : e.inode[j] = d.inode[j],
         \A b \in Block \ ToSet(got) : e.entries[b] = d.entries[b],
         e.inode[i].type = "dir" =>
           \E b \in Block, p \in Ino : got = <<b>> /\ e.entries[b] = DotEntries(i, p)
  PROVE  Made(d, e, i)
<1>0. d \in Disk
  BY DEF Sound
<1>1. InodesCounted(e)
  BY DEF Sound, InodesCounted, SameCounts
<1>2. /\ all_blocks(e, i) = got /\ Own(e, i) = ToSet(got)
      /\ \A j \in Ino \ {i} : all_blocks(e, j) = all_blocks(d, j) /\ Own(e, j) = Own(d, j)
  <2>1. got \o <<>> = got
    OBVIOUS
  <2> QED BY <2>1 DEF all_blocks, Own
<1>3. Apart(e)
  <2>1. Apart(d)
    BY DEF Sound
  <2>2. \A j \in Ino : IsInjective(all_blocks(e, j)) /\ Own(e, j) \subseteq e.blocks
    BY <1>2, <2>1 DEF Apart
  <2>3. \A j \in Ino \ {i} : Own(e, j) \cap Own(e, i) = {}
    BY <1>2, <2>1 DEF Apart
  <2>4. \A j, k \in Ino : j # k => Own(e, j) \cap Own(e, k) = {}
    BY <1>2, <2>1, <2>3 DEF Apart
  <2> QED BY <2>2, <2>4 DEF Apart
<1>4. Fresh(e)
  BY DEF Sound, Fresh, SameCounts
<1>d. ASSUME NEW p \in Ino
      PROVE  /\ DotEntries(i, p)["."] = i /\ DotEntries(i, p)[".."] = p
             /\ \A n \in Name : DotEntries(i, p)[n] = 0
  BY Ext2Assumption DEF DotEntries, NoEntries, AnyName
<1>e. ASSUME NEW b \in Block, NEW n, b \notin ToSet(got) PROVE Entry(e, b, n) = Entry(d, b, n)
  <2>1. Live(e, b) <=> Live(d, b)
    <3>1. \A j \in Ino : (e.inode[j].type = "dir" /\ b \in ToSet(e.inode[j].data))
                     <=> (d.inode[j].type = "dir" /\ b \in ToSet(d.inode[j].data))
      BY <1>e
    <3> QED BY <3>1 DEF Live
  <2> QED BY <1>e, <2>1 DEF Entry
<1>5. ASSUME NEW b \in Block, NEW n \in Name PROVE Entry(e, b, n) = Entry(d, b, n)
  <2>1. CASE b \in ToSet(got)
    <3>1. ~Live(d, b)
      BY <1>0, <2>1, LiveUsed DEF Sound
    <3>2. Live(e, b) => e.entries[b][n] = 0
      <4> SUFFICES ASSUME NEW j \in Ino, e.inode[j].type = "dir", b \in ToSet(e.inode[j].data)
                   PROVE  e.entries[b][n] = 0
        BY DEF Live
      <4>1. j = i
        BY <3>1 DEF Live
      <4>2. PICK a \in Block, p \in Ino : got = <<a>> /\ e.entries[a] = DotEntries(i, p)
        BY <4>1
      <4>3. b = a
        BY <2>1, <4>2 DEF ToSet
      <4> QED BY <1>d, <4>2, <4>3
    <3> QED BY <3>1, <3>2 DEF Entry
  <2>2. CASE b \notin ToSet(got)
    BY <1>e, <2>2
  <2> QED BY <2>1, <2>2
<1>6. Leads(e)
  <2>1. Leads(d) /\ e.inodes = d.inodes /\ d.inodes \subseteq Ino
    BY <1>0 DEF Sound, SameCounts, Disk
  <2> QED BY <1>5, <2>1 DEF Leads
<1>7. Single(e)
  <2>1. Single(d)
    BY DEF Sound
  <2> QED BY <1>5, <2>1 DEF Single
<1>8. Nameless(e, i)
  BY <1>5 DEF Nameless
<1>9. ASSUME e.inode[i].type = "dir", NEW b \in Block, NEW p \in Ino, got = <<b>>,
             e.entries[b] = DotEntries(i, p)
      PROVE  /\ First(e, i) = b /\ ToSet(e.inode[i].data) = {b}
             /\ Entry(e, b, ".") = i /\ Parent(e, i) = p
  <2>1. First(e, i) = b /\ ToSet(e.inode[i].data) = {b}
    BY <1>9 DEF First, ToSet
  <2>2. Live(e, b)
    BY <1>9, <2>1 DEF Live
  <2> QED BY <1>9, <1>d, <2>1, <2>2 DEF Entry, Parent
<1>10. ASSUME NEW j \in Ino, j # i
       PROVE  /\ First(e, j) = First(d, j) /\ e.inode[j] = d.inode[j]
              /\ \A b \in ToSet(d.inode[j].data) : \A n : b \in Block /\ Entry(e, b, n) = Entry(d, b, n)
  <2>1. ToSet(d.inode[j].data) \subseteq d.blocks /\ ToSet(d.inode[j].data) \subseteq Block
    BY <1>0, InodeIs, PartsApart DEF Sound
  <2> QED BY <1>10, <1>e, <2>1 DEF First
<1>11. Dots(d) /\ Once(d) /\ Back(d)
  BY DEF Sound, Tree
<1>12. Dots(e)
  <2> SUFFICES ASSUME NEW j \in Ino, e.inode[j].type = "dir"
               PROVE  /\ e.inode[j].data # <<>> /\ Entry(e, First(e, j), ".") = j
                      /\ \A b \in ToSet(e.inode[j].data) \ {First(e, j)} :
                           Entry(e, b, ".") = 0 /\ Entry(e, b, "..") = 0
    BY DEF Dots
  <2>1. CASE j = i
    <3>1. PICK b \in Block, p \in Ino : got = <<b>> /\ e.entries[b] = DotEntries(i, p)
      BY <2>1
    <3> QED BY <1>9, <2>1, <3>1
  <2>2. CASE j # i
    <3>1. d.inode[j].data # <<>>
      BY <1>10, <1>11, <2>2 DEF Dots
    <3>2. First(d, j) \in ToSet(d.inode[j].data)
      BY <1>0, <3>1, FirstIn
    <3> QED BY <1>10, <1>11, <2>2, <3>1, <3>2 DEF Dots
  <2> QED BY <2>1, <2>2
<1>13. Once(e)
  <2> SUFFICES ASSUME NEW j \in Ino, NEW n \in Name, e.inode[j].type = "dir",
                      NEW a \in ToSet(e.inode[j].data), NEW b \in ToSet(e.inode[j].data),
                      Entry(e, a, n) # 0, Entry(e, b, n) # 0
               PROVE  a = b
    BY DEF Once
  <2>1. CASE j = i
    BY <1>9, <2>1
  <2>2. CASE j # i
    BY <1>10, <1>11, <2>2 DEF Once
  <2> QED BY <2>1, <2>2
<1>14. Back(e)
  <2> SUFFICES ASSUME NEW j \in Ino, NEW k \in Ino, NEW n \in Name, Child(e, j, n, k),
                      e.inode[k].type = "dir"
               PROVE  Parent(e, k) = j
    BY DEF Back
  <2>1. PICK b \in ToSet(e.inode[j].data) : Entry(e, b, n) = k /\ e.inode[j].type = "dir"
    BY DEF Child
  <2>2. b \in Block /\ Entry(d, b, n) = k /\ k # i
    <3>1. e.inode[j].data \in Seq(Block)
      BY InodeIs
    <3>2. b \in Block
      BY <3>1, ToSetIs
    <3> QED BY <1>5, <2>1, <3>2 DEF Nameless
  <2>3. j # i
    <3>1. k # 0 /\ Live(d, b)
      BY <2>2, Constants DEF Ino, Entry
    <3>2. b \notin ToSet(got)
      BY <1>0, <3>1, LiveUsed DEF Sound
    <3> QED BY <2>1, <3>2
  <2>4. Child(d, j, n, k) /\ d.inode[k].type = "dir"
    BY <1>10, <2>1, <2>2, <2>3 DEF Child
  <2>5. Parent(d, k) = j /\ d.inode[k].data # <<>>
    BY <1>11, <2>4 DEF Back, Dots
  <2>6. First(d, k) \in ToSet(d.inode[k].data)
    BY <1>0, <2>5, FirstIn
  <2> QED BY <1>10, <2>2, <2>5, <2>6 DEF Parent
<1>15. Tree(e)
  BY <1>12, <1>13, <1>14 DEF Tree
<1>16. Sound(e)
  BY <1>1, <1>3, <1>4, <1>6, <1>7, <1>15 DEF Sound
<1>17. /\ SameNames(d, e)
       /\ \A n \in Name, k \in Ino : ~Child(e, i, n, k) /\ ~Child(e, k, n, i) /\ ~Child(d, k, n, i)
  <2>0. \A j \in Ino : /\ ToSet(e.inode[j].data) \subseteq Block
                       /\ ToSet(d.inode[j].data) \subseteq Block
    BY <1>0, InodeIs
  <2>1. \A j \in Ino \ {i}, k \in Ino, n \in Name : Child(e, j, n, k) <=> Child(d, j, n, k)
    BY <1>5, <2>0 DEF Child
  <2>2. \A k \in Ino, n \in Name : ~Child(d, i, n, k)
    BY DEF Child
  <2>3. ASSUME NEW k \in Ino, NEW n \in Name, NEW b \in ToSet(got), Entry(e, b, n) = k PROVE FALSE
    <3>1. b \in Block /\ Entry(d, b, n) = k /\ k # 0
      BY <1>5, <2>0, <2>3, Constants DEF Ino
    <3>2. ~Live(d, b)
      BY <1>0, LiveUsed DEF Sound
    <3> QED BY <3>1, <3>2 DEF Entry
  <2>4. \A k \in Ino, n \in Name : ~Child(e, i, n, k)
    BY <2>3 DEF Child
  <2>5. \A k \in Ino, n \in Name : ~Child(e, k, n, i) /\ ~Child(d, k, n, i)
    BY <1>8, <2>0 DEF Child, Nameless
  <2>6. SameNames(d, e)
    BY <2>1, <2>2, <2>4 DEF SameNames
  <2> QED BY <2>4, <2>5, <2>6
<1>18. ASSUME Linked(d), e.inode[i].links = IF e.inode[i].type = "dir" THEN 2 ELSE 1
       PROVE  Linked(e)
  <2> SUFFICES ASSUME NEW j \in Ino
               PROVE  /\ e.inode[j].type \in {"file", "symlink"} => e.inode[j].links = 1
                      /\ e.inode[j].type = "dir" => e.inode[j].links = 2 + Cardinality(Kids(e, j)) + 0
    <3>1. Rooted(e)
      <4>1. Rooted(d) /\ Root # i
        BY <1>18 DEF Linked, Owed, Rooted
      <4> QED BY <1>17, <4>1, RootIn DEF Rooted, Named, SameNames
    <3> QED BY <3>1 DEF Linked, Owed
  <2>1. CASE j = i
    <3>1. Kids(e, i) = {}
      BY <1>17 DEF Kids
    <3>2. Cardinality(Kids(e, i)) = 0
      BY <3>1, FS_EmptySet
    <3> QED BY <1>18, <2>1, <3>2
  <2>2. CASE j # i
    <3>1. Kids(e, j) = Kids(d, j)
      <4>1. \A k \in Ino \ {i} : e.inode[k].type = d.inode[k].type
        OBVIOUS
      <4> QED BY <1>17, <4>1 DEF Kids, SameNames
    <3>2. e.inode[j] = d.inode[j]
      BY <2>2
    <3> QED BY <1>18, <3>1, <3>2 DEF Linked, Owed
  <2> QED BY <2>1, <2>2
<1>19. ASSUME Reached(d, i) PROVE Reached(e, i)
  <2>1. e.inodes = d.inodes /\ d.inodes \subseteq Ino
    BY <1>0 DEF SameCounts, Disk
  <2>2. \A j \in Ino : Named(d, j) => Named(e, j)
    BY <1>17 DEF SameNames, Named
  <2>3. \A j \in e.inodes \ {i} : e.inode[j].type # "none" /\ (j = Root \/ Named(e, j))
    BY <1>19, <2>1, <2>2 DEF Reached
  <2>4. Own(d, i) = {}
    <3>1. all_blocks(d, i) = <<>>
      BY DEF Sound, Fresh, all_blocks
    <3> QED BY <3>1 DEF Own, ToSet
  <2>5. \A b \in e.blocks : \E j \in Ino : b \in Own(e, j)
    BY <1>2, <1>19, <2>4 DEF Reached
  <2> QED BY <2>3, <2>5 DEF Reached
<1> QED BY <1>5, <1>8, <1>9, <1>16, <1>18, <1>19 DEF Made

\* The count of directories after a new inode has its type
LEMMA NewDirs ==
  ASSUME NEW d, Sound(d), DirsCounted(d), NEW e, NEW i, NEW dd \in {0, 1}, TookInode(d, e, i, dd),
         NEW f, SameCounts(e, f), f.inode[i].type = "dir" <=> dd = 1,
         \A j \in Ino \ {i} : f.inode[j].type = d.inode[j].type
  PROVE  DirsCounted(f)
<1> DEFINE S == DirsOf(d)
           g == group_of_inode(i)
<1>1. /\ i \in Ino \ d.inodes /\ f.inodes = d.inodes \cup {i} /\ f.gd_dirs[g] = d.gd_dirs[g] + dd
      /\ \A h \in Group \ {g} : f.gd_dirs[h] = d.gd_dirs[h]
  BY DEF TookInode, SameCounts
<1>2. d.inodes \subseteq Ino
  BY DEF Sound, Disk
<1>3. S \in SUBSET Ino /\ i \in Ino \ S
  BY <1>1, <1>2 DEF DirsOf
<1>4. DirsOf(f) = IF dd = 1 THEN S \cup {i} ELSE S
  BY <1>1, <1>2 DEF DirsOf
<1>5. ASSUME NEW h \in Group
      PROVE  f.gd_dirs[h] = Cardinality({j \in DirsOf(f) : group_of_inode(j) = h})
  <2>1. d.gd_dirs[h] = Cardinality({j \in S : group_of_inode(j) = h})
    BY DEF DirsCounted
  <2> HIDE DEF S
  <2>2. /\ Cardinality({j \in S \cup {i} : group_of_inode(j) = h}) =
             Cardinality({j \in S : group_of_inode(j) = h}) + (IF h = g THEN 1 ELSE 0)
        /\ Cardinality({j \in S : group_of_inode(j) = h}) \in Nat
    BY <1>3, CountInode
  <2>3. f.gd_dirs[h] = IF h = g THEN d.gd_dirs[h] + dd ELSE d.gd_dirs[h]
    BY <1>1
  <2>4. CASE dd = 1
    BY <1>4, <2>1, <2>2, <2>3, <2>4
  <2>5. CASE dd = 0
    BY <1>4, <2>1, <2>2, <2>3, <2>5
  <2> QED BY <2>4, <2>5
<1> QED BY <1>5 DEF DirsCounted

-----------------------------------------------------------------------------
\* write-file!

\* A disk on which i has other blocks: the old ones are free or not, the new ones were.
LEMMA ReplaceDataIs ==
  ASSUME NEW d, Fit(d), NEW i \in Ino, d.inode[i].type = "file", NEW n \in Nat
  PROVE  LET r == ReplaceData(d, i, n) IN
         /\ r.err = "none" => Fit(r.disk) /\ (Whole(d) => Whole(r.disk))
         /\ r.err # "none" /\ all_blocks(d, i) = <<>> => Fit(r.disk)
<1> DEFINE goal == group_of_inode(i)
           s == all_blocks(d, i)
           d1 == free_blocks(d, s)
           r1 == alloc_blocks(d1, goal, n)
           r2 == build_map(r1.disk, goal, n)
           f == [r2.disk EXCEPT !.inode[i].data = r1.val, !.inode[i].ind = r2.val]
           r == ReplaceData(d, i, n)
<1>0. /\ d \in Disk /\ BlocksCounted(d) /\ InodesCounted(d) /\ Apart(d) /\ Fresh(d)
      /\ Leads(d) /\ Single(d) /\ Tree(d) /\ Linked(d) /\ Sound(d)
  BY DEF Fit, Sound
<1>1. r = IF r1.err = "none" THEN IF r2.err = "none" THEN Ok(f, i) ELSE r2 ELSE r1
  BY Zenon DEF ReplaceData, Then
<1>2. goal \in Int
  BY Constants DEF group_of_inode, Ino
<1> HIDE DEF goal
<1>3. s \in Seq(Block) /\ IsInjective(s) /\ ToSet(s) = Own(d, i) /\ Own(d, i) \subseteq d.blocks
  BY <1>0, InodeIs DEF Apart, Own
<1>4. /\ d1 \in Disk /\ SameFiles(d, d1) /\ BlocksCounted(d1) /\ d1.blocks = d.blocks \ Own(d, i)
      /\ \A b \in Block \ Own(d, i) : d1.entries[b] = d.entries[b]
  <2> HIDE DEF s
  <2> QED BY <1>0, <1>3, FreeBlocks
<1> HIDE DEF d1
<1>5. /\ r1.err # "none" => r1.disk = d1
      /\ r1.err = "none" => Took(d1, r1.disk, r1.val) /\ BlocksCounted(r1.disk)
  BY <1>2, <1>4, AllocBlocks
<1> HIDE DEF r1
<1>6. ASSUME r1.err = "none"
      PROVE  /\ Leaked(r1.disk, r2.disk) /\ BlocksCounted(r2.disk)
             /\ r2.err = "none" => Took(r1.disk, r2.disk, r2.val)
  <2>1. r1.disk \in Disk /\ BlocksCounted(r1.disk)
    BY <1>5, <1>6 DEF Took
  <2> QED BY <1>2, <2>1, BuildMap
<1> HIDE DEF r2, r
<1> SUFFICES /\ r.err = "none" => Fit(r.disk) /\ (Whole(d) => Whole(r.disk))
             /\ r.err # "none" /\ s = <<>> => Fit(r.disk)
  BY DEF r
<1> HIDE DEF f, s
<1>7. ASSUME NEW b \in Block, Live(d, b) PROVE b \notin Own(d, i)
  BY <1>0, <1>7, LiveOwner
<1>8. ASSUME r.err # "none", s = <<>> PROVE Fit(r.disk)
  <2> DEFINE g == r.disk
  <2>1. Own(d, i) = {}
    BY <1>3, <1>8 DEF ToSet
  <2>2. g \in Disk /\ BlocksCounted(g) /\ SameFiles(d, g) /\ g.entries = d1.entries
        /\ d.blocks \subseteq g.blocks
    <3>1. CASE r1.err # "none"
      BY <1>1, <1>4, <1>5, <2>1, <3>1
    <3>2. CASE r1.err = "none"
      <4>1. r2.err # "none" /\ r = r2
        BY <1>1, <1>8, <3>2 DEF Ok
      <4>2. Leaked(r1.disk, g) /\ BlocksCounted(g) /\ Took(d1, r1.disk, r1.val)
        BY <1>5, <1>6, <3>2, <4>1
      <4>3. d1.blocks = d.blocks
        BY <1>4, <2>1
      <4> QED BY <1>4, <4>2, <4>3 DEF Leaked, Took, SameFiles
    <3> QED BY <3>1, <3>2
  <2>3. \A b \in Block : g.entries[b] = d.entries[b]
    BY <1>4, <2>1, <2>2
  <2>4. NotAdded(d, g, i)
    <3>1. \A b \in Block, m \in AnyName : Entry(g, b, m) = Entry(d, b, m)
      BY <2>2, <2>3 DEF Entry, Live, SameFiles
    <3> QED BY <2>2, <3>1 DEF NotAdded
  <2>5. ToSet(d.inode[i].ind) \subseteq g.blocks
    BY <1>0, <2>2, PartsApart
  <2> HIDE DEF g
  <2>6. Fit(g)
    BY <1>0, <2>4, <2>5, NotAddedSound DEF Fit
  <2> QED BY <2>6 DEF g
<1>9. ASSUME r.err = "none" PROVE Fit(r.disk) /\ (Whole(d) => Whole(r.disk))
  <2>1. r1.err = "none" /\ r2.err = "none" /\ r.disk = f
    BY <1>1, <1>9 DEF Ok
  <2>2. /\ Took(d1, r1.disk, r1.val) /\ Took(r1.disk, r2.disk, r2.val) /\ BlocksCounted(r2.disk)
        /\ Took(d1, r2.disk, r1.val \o r2.val)
    BY <1>4, <1>5, <1>6, <2>1, TookMore
  <2> DEFINE g == r2.disk
             x == [d.inode[i] EXCEPT !.data = r1.val, !.ind = r2.val]
             I == [d.inode EXCEPT ![i] = x]
             new == r1.val \o r2.val
  <2>3. g \in Disk /\ g.inode = d.inode /\ g.entries = d1.entries /\ SameCounts(d, g)
        /\ g.blocks = d1.blocks \cup ToSet(new)
    BY <1>4, <2>2 DEF Took, SameFiles, SameCounts
  <2>4. x \in Inode /\ x.type = "file" /\ x.data = r1.val /\ x.ind = r2.val
        /\ x.links = d.inode[i].links
    <3>1. d.inode[i] \in Inode /\ r1.val \in Seq(Block) /\ r2.val \in Seq(Block)
      BY <1>0, <2>2, InodeIs DEF Took
    <3> QED BY <3>1 DEF Inode
  <2>5. f = [g EXCEPT !.inode = I]
    <3>1. d.inode \in [Ino -> Inode]
      BY <1>0 DEF Disk
    <3> QED BY <2>3, <3>1 DEF Disk, Inode, f
  <2> HIDE DEF x
  <2>6. I \in [Ino -> Inode] /\ I[i] = x /\ \A j \in Ino \ {i} : I[j] = d.inode[j]
    BY <1>0, <2>4 DEF Disk
  <2> HIDE DEF I, g, new
  <2>7. /\ f \in Disk /\ SameCounts(g, f) /\ BlocksCounted(f)
        /\ f.blocks = g.blocks /\ f.entries = g.entries /\ f.inode = I
    BY <2>2, <2>3, <2>5, <2>6, WithInodes DEF g
  <2>8. SameCounts(d, f) /\ InodesCounted(f)
    BY <1>0, <2>3, <2>7 DEF SameCounts, InodesCounted
  <2>9. all_blocks(f, i) = new /\ Own(f, i) = ToSet(new) /\ IsInjective(new)
        /\ ToSet(new) \cap d1.blocks = {}
    BY <2>2, <2>4, <2>6, <2>7 DEF all_blocks, Own, new, Took
  <2>10. \A j \in Ino \ {i} : all_blocks(f, j) = all_blocks(d, j) /\ Own(f, j) = Own(d, j)
    BY <2>6, <2>7 DEF all_blocks, Own
  <2>11. Apart(f)
    <3>1. \A j \in Ino \ {i} : IsInjective(all_blocks(d, j)) /\ Own(d, j) \subseteq d1.blocks
      BY <1>0, <1>4 DEF Apart
    <3>2. \A j \in Ino : IsInjective(all_blocks(f, j)) /\ Own(f, j) \subseteq f.blocks
      BY <2>3, <2>7, <2>9, <2>10, <3>1
    <3>3. \A j \in Ino \ {i} : Own(f, j) \cap Own(f, i) = {}
      BY <2>9, <2>10, <3>1
    <3>4. ASSUME NEW j \in Ino, NEW k \in Ino, j # k PROVE Own(f, j) \cap Own(f, k) = {}
      BY <1>0, <2>10, <3>3, <3>4 DEF Apart
    <3> QED BY <3>2, <3>4 DEF Apart
  <2>12. \A j \in Ino : f.inode[j].type = d.inode[j].type
    BY <2>4, <2>6, <2>7
  <2>13. Fresh(f)
    <3>1. \A j \in Ino \ {i} : f.inode[j] = d.inode[j]
      BY <2>6, <2>7
    <3>2. f.inode[i].type = "file" /\ i \in d.inodes
      BY <1>0, <2>12 DEF Fresh
    <3> QED BY <1>0, <2>8, <3>1, <3>2 DEF Fresh, SameCounts
  <2>14. ASSUME NEW b \in Block, NEW m PROVE Entry(f, b, m) = Entry(d, b, m)
    <3>1. Live(f, b) <=> Live(d, b)
      <4>1. \A j \in Ino : (f.inode[j].type = "dir" /\ b \in ToSet(f.inode[j].data))
                       <=> (d.inode[j].type = "dir" /\ b \in ToSet(d.inode[j].data))
        BY <2>4, <2>6, <2>7
      <4> QED BY <4>1 DEF Live
    <3>2. Live(d, b) => f.entries[b] = d.entries[b]
      BY <1>4, <1>7, <2>3, <2>7
    <3> QED BY <3>1, <3>2 DEF Entry
  <2>15. Leads(f)
    <3>1. f.inodes = d.inodes /\ d.inodes \subseteq Ino
      BY <1>0, <2>8 DEF SameCounts, Disk
    <3> QED BY <1>0, <2>12, <2>14, <3>1 DEF Leads
  <2>16. Single(f)
    BY <1>0, <2>14 DEF Single
  <2>17. DirsCounted(d) => DirsCounted(f)
    BY <1>0, <2>8, <2>12, SameDirs DEF Disk
  <2>18. Tree(f)
    <3>1. \A j \in Ino : d.inode[j].type = "dir" => f.inode[j].data = d.inode[j].data
      BY <2>6, <2>7
    <3> QED BY <1>0, <2>7, <2>12, <2>14, <3>1, SameTree
  <2>19. SameNames(d, f)
    <3>1. \A j \in Ino : d.inode[j].type = "dir" => f.inode[j].data = d.inode[j].data
      BY <2>6, <2>7
    <3> QED BY <1>0, <2>7, <2>12, <2>14, <3>1, SameNamesIs
  <2>20. Linked(f)
    <3>1. \A j \in Ino : f.inode[j].links = d.inode[j].links
      BY <2>4, <2>6, <2>7
    <3> QED BY <1>0, <2>12, <2>19, <3>1, SameLinks DEF Linked
  <2>21. Reached(d, 0) => Reached(f, 0)
    <3>1. d.inodes \subseteq Ino /\ f.inodes = d.inodes
      BY <1>0, <2>8 DEF Disk, SameCounts
    <3>2. \A b \in f.blocks : b \in d.blocks \/ \E j \in Ino : b \in Own(f, j)
      BY <1>4, <2>3, <2>7, <2>9
    <3>3. ASSUME NEW b \in f.blocks, NEW j \in Ino, b \in Own(d, j)
          PROVE  \E k \in Ino : b \in Own(f, k)
      BY <1>4, <2>3, <2>7, <2>9, <2>10, <3>3
    <3> QED BY <2>12, <2>19, <3>1, <3>2, <3>3, SameReached
  <2>22. Sound(f)
    BY <2>7, <2>8, <2>11, <2>13, <2>15, <2>16, <2>18 DEF Sound
  <2> QED BY <2>1, <2>17, <2>20, <2>21, <2>22 DEF Fit, Whole
<1> QED BY <1>8, <1>9

\* A new file, with its name or, on a throw, without.
LEMMA CreateFileIs ==
  ASSUME NEW d, Fit(d), NEW p \in Ino, d.inode[p].type = "dir", NEW nm \in Name,
         lookup(d, p, nm) = 0
  PROVE  LET r == CreateFile(d, p, nm) IN
         /\ r.err = "none" => /\ Fit(r.disk) /\ (Whole(d) => Whole(r.disk))
                              /\ r.val \in Ino /\ all_blocks(r.disk, r.val) = <<>>
         /\ r.err # "none" /\ ToSet(d.inode[p].ind) \subseteq r.disk.blocks => Fit(r.disk)
<1> DEFINE r1 == alloc_inode(d, group_of_inode(p), 0)
           e == r1.disk
           i == r1.val
           x == FreshInode("file", 1)
           e2 == [e EXCEPT !.inode[i] = x]
           r2 == add_entry(e2, p, nm, i)
           r == CreateFile(d, p, nm)
<1>0. Sound(d) /\ Linked(d)
  BY DEF Fit
<1>1. r = IF r1.err = "none" THEN IF r2.err = "none" THEN Ok(r2.disk, i) ELSE r2 ELSE r1
  BY Zenon DEF CreateFile, Then
<1>2. /\ r1.err # "none" => e = d
      /\ r1.err = "none" => TookInode(d, e, i, 0)
  <2>1. group_of_inode(p) \in Int /\ 0 \in Int
    BY Constants DEF group_of_inode, Ino
  <2> QED BY <1>0, <2>1, AllocInode DEF Sound
<1> HIDE DEF r1, r
<1> SUFFICES /\ r.err = "none" => /\ Fit(r.disk) /\ (Whole(d) => Whole(r.disk))
                                  /\ r.val \in Ino /\ all_blocks(r.disk, r.val) = <<>>
             /\ r.err # "none" /\ ToSet(d.inode[p].ind) \subseteq r.disk.blocks => Fit(r.disk)
  BY DEF r
<1>3. CASE r1.err # "none"
  BY <1>1, <1>2, <1>3
<1>4. CASE r1.err = "none"
  <2>1. TookInode(d, e, i, 0)
    BY <1>2, <1>4
  <2> HIDE DEF e, i, e2
  <2>2. /\ Sound(e) /\ Nameless(e, i) /\ i \in Ino /\ i \in e.inodes /\ e.inode[i].type = "none"
        /\ \A b \in Block, n \in Name : Entry(e, b, n) = Entry(d, b, n)
        /\ Linked(e) /\ (Reached(d, 0) => Reached(e, i)) /\ i # Root
    BY <1>0, <2>1, TookInodeSound DEF Linked, Owed, Rooted
  <2>3. e \in Disk /\ BlocksCounted(e) /\ e.inode = d.inode
    BY <2>1, <2>2 DEF Sound, TookInode, SameBlocks
  <2>4. x \in Inode /\ x.type = "file" /\ x.data = <<>> /\ x.ind = <<>> /\ x.links = 1
    BY FreshIsInode
  <2> HIDE DEF x
  <2> DEFINE I == [e.inode EXCEPT ![i] = x]
  <2>5. I \in [Ino -> Inode] /\ I[i] = x /\ \A j \in Ino \ {i} : I[j] = e.inode[j]
    BY <2>2, <2>3, <2>4 DEF Disk
  <2>6. e2 = [e EXCEPT !.inode = I]
    BY <2>3 DEF Disk, e2
  <2> HIDE DEF I
  <2>7. /\ e2 \in Disk /\ SameCounts(e, e2) /\ BlocksCounted(e2)
        /\ e2.blocks = e.blocks /\ e2.entries = e.entries /\ e2.inode = I
    BY <2>3, <2>5, <2>6, WithInodes
  <2>8. /\ Sound(e2) /\ Nameless(e2, i)
        /\ \A b \in Block, n \in Name : Entry(e2, b, n) = Entry(e, b, n)
        /\ Linked(e2) /\ (Reached(e, i) => Reached(e2, i))
    <3>1. <<>> \in Seq(Block) /\ ToSet(<<>>) = {} /\ IsInjective(<<>>)
      BY DEF ToSet, IsInjective
    <3>2. ToSet(<<>>) \cap e.blocks = {} /\ e2.blocks = e.blocks \cup ToSet(<<>>)
      BY <2>7, <3>1
    <3>3. e2.inode[i].type = "file" /\ e2.inode[i].data = <<>> /\ e2.inode[i].ind = <<>>
      BY <2>4, <2>5, <2>7
    <3>4. \A j \in Ino \ {i} : e2.inode[j] = e.inode[j]
      BY <2>5, <2>7
    <3>5. \A b \in Block \ ToSet(<<>>) : e2.entries[b] = e.entries[b]
      BY <2>7
    <3>6. e2.inode[i].type # "none" /\ e2.inode[i].type # "dir"
      BY <3>3
    <3>7. Made(e, e2, i)
      BY <2>2, <2>7, <3>1, <3>2, <3>3, <3>4, <3>5, <3>6, NewFile
    <3>8. e2.inode[i].links = 1
      BY <2>4, <2>5, <2>7
    <3> QED BY <2>2, <3>6, <3>7, <3>8 DEF Made
  <2>9. p # i /\ e2.inode[p] = d.inode[p] /\ e2.inode[p].type = "dir"
    BY <2>2, <2>3, <2>5, <2>7
  <2>10. i \in e2.inodes /\ e2.inode[i].type # "none" /\ Apart(e2)
    BY <2>2, <2>4, <2>5, <2>7, <2>8 DEF SameCounts, Sound
  <2>11. /\ r2.err # "none" => NotAdded(e2, r2.disk, p)
         /\ r2.err = "none" => \E c \in Block : Added(e2, r2.disk, p, nm, i, c)
    BY <2>2, <2>7, <2>9, <2>10, AddEntry, NameIsAny
  <2> HIDE DEF r2
  <2>12. CASE r2.err # "none"
    <3>1. r = r2
      BY <1>1, <1>4, <2>12
    <3>2. ToSet(d.inode[p].ind) \subseteq r2.disk.blocks => Fit(r2.disk)
      BY <2>8, <2>9, <2>11, <2>12, NotAddedSound DEF Fit
    <3> QED BY <2>12, <3>1, <3>2
  <2>13. CASE r2.err = "none"
    <3>1. r.err = "none" /\ r.disk = r2.disk /\ r.val = i
      BY <1>1, <1>4, <2>13 DEF Ok
    <3>2. PICK c \in Block : Added(e2, r2.disk, p, nm, i, c)
      BY <2>11, <2>13
    <3>n. \A b \in ToSet(e2.inode[p].data) : Entry(e2, b, nm) = 0
      <4>1. d \in Disk /\ nm \in AnyName
        BY <1>0, NameIsAny DEF Sound
      <4>2. lookup(d, p, nm) \notin Ino
        BY Constants DEF Ino
      <4>3. \A b \in ToSet(d.inode[p].data) : Entry(d, b, nm) = 0 /\ b \in Block
        BY <4>1, <4>2, LookupIs, InodeIs
      <4> QED BY <2>2, <2>8, <2>9, <4>3
    <3>d. e2.inode[i].type # "dir"
      BY <2>4, <2>5, <2>7
    <3>3. Sound(r2.disk) /\ (DirsCounted(e2) => DirsCounted(r2.disk))
      BY <2>8, <2>9, <2>10, <3>2, <3>d, <3>n, AddedSound
    <3>l. Linked(r2.disk) /\ (Reached(d, 0) => Reached(r2.disk, 0))
      BY <2>2, <2>8, <2>9, <2>10, <3>2, <3>d, <3>n, AddedLinks
    <3>4. DirsCounted(d) => DirsCounted(e2)
      <4>1. e2.inode[i].type # "dir" /\ \A j \in Ino \ {i} : e2.inode[j].type = d.inode[j].type
        BY <2>3, <2>4, <2>5, <2>7
      <4>2. 0 \in {0, 1} /\ (e2.inode[i].type = "dir" <=> 0 = 1)
        BY <4>1
      <4> QED BY <1>0, <2>1, <2>7, <4>1, <4>2, NewDirs
    <3>5. all_blocks(r2.disk, i) = <<>>
      <4>1. r2.disk.inode[i] = x
        BY <2>2, <2>5, <2>7, <2>9, <3>2 DEF Added
      <4> QED BY <2>4, <4>1 DEF all_blocks
    <3> QED BY <2>2, <3>1, <3>3, <3>4, <3>5, <3>l DEF Fit, Whole
  <2> QED BY <2>12, <2>13
<1> QED BY <1>3, <1>4

\* What an operation on path keeps: the disk stays fit and whole, unless it threw
\* with some indirect blocks of the parent directory free.
Kept(d, r, path) ==
  LET p == parent_and_name(d, path) IN
  /\ r.err = "none" => Fit(r.disk) /\ (Whole(d) => Whole(r.disk))
  /\ r.err # "none" /\ (p.err = "none" => ToSet(d.inode[p.val].ind) \subseteq r.disk.blocks)
       => Fit(r.disk)

\* write-file! keeps a disk fit, on a throw if it freed nothing that is still
\* mapped.
LEMMA WriteFileIs ==
  ASSUME NEW d, Fit(d), NEW path \in Paths, NEW n \in Nat
  PROVE  LET r == WriteFile(d, path, n)
             p == parent_and_name(d, path)
             i == lookup(d, p.val, Last(path)) IN
         /\ r.err = "none" => Fit(r.disk) /\ (Whole(d) => Whole(r.disk))
         /\ /\ r.err # "none"
            /\ p.err = "none" =>
                 /\ ToSet(d.inode[p.val].ind) \subseteq r.disk.blocks
                 /\ i # 0 /\ d.inode[i].type = "file" => all_blocks(d, i) = <<>>
            => Fit(r.disk)
<1> DEFINE r == WriteFile(d, path, n)
           r1 == parent_and_name(d, path)
           p == r1.val
           i == lookup(r1.disk, p, Last(path))
           r2 == IF i # 0 THEN Ok(r1.disk, i) ELSE CreateFile(r1.disk, p, Last(path))
           r3 == ReplaceData(r2.disk, r2.val, n)
<1>0. d \in Disk
  BY DEF Fit, Sound
<1>1. r = IF r1.err = "none"
          THEN IF r2.err = "none"
               THEN IF r2.disk.inode[r2.val].type # "file" THEN Throw(r2.disk, "not-a-file") ELSE r3
               ELSE r2
          ELSE r1
  BY Zenon DEF WriteFile, Then
<1>2. /\ r1.disk = d
      /\ r1.err = "none" => p \in Ino /\ d.inode[p].type = "dir" /\ Last(path) \in Name
  BY <1>0, ParentAndName
<1> SUFFICES /\ r.err = "none" => Fit(r.disk) /\ (Whole(d) => Whole(r.disk))
             /\ /\ r.err # "none"
                /\ r1.err = "none" =>
                     /\ ToSet(d.inode[p].ind) \subseteq r.disk.blocks
                     /\ i # 0 /\ d.inode[i].type = "file" => all_blocks(d, i) = <<>>
                => Fit(r.disk)
  BY <1>2
<1> HIDE DEF r1, r, r2, r3
<1>3. CASE r1.err # "none"
  <2>1. r = r1
    BY <1>1, <1>3
  <2> QED BY <1>2, <1>3, <2>1
<1>4. CASE r1.err = "none" /\ i # 0
  <2>1. p \in Ino /\ d.inode[p].type = "dir" /\ Last(path) \in AnyName /\ i = lookup(d, p, Last(path))
    BY <1>2, <1>4, NameIsAny
  <2>2. i \in Ino
    BY <1>0, <1>4, <2>1, LookupIs
  <2> HIDE DEF i
  <2>3. r2.err = "none" /\ r2.disk = d /\ r2.val = i
    BY <1>2, <1>4 DEF r2, Ok
  <2>4. CASE d.inode[i].type # "file"
    <3>1. r.err # "none" /\ r.disk = d
      BY <1>1, <1>4, <2>3, <2>4 DEF Throw
    <3> QED BY <3>1
  <2>5. CASE d.inode[i].type = "file"
    <3>1. r = ReplaceData(d, i, n)
      BY <1>1, <1>4, <2>3, <2>5 DEF r3
    <3>2. /\ r.err = "none" => Fit(r.disk) /\ (Whole(d) => Whole(r.disk))
          /\ r.err # "none" /\ all_blocks(d, i) = <<>> => Fit(r.disk)
      BY <2>2, <2>5, <3>1, ReplaceDataIs
    <3> QED BY <1>4, <2>5, <3>2
  <2> QED BY <2>4, <2>5
<1>5. CASE r1.err = "none" /\ i = 0
  <2>0. p \in Ino /\ d.inode[p].type = "dir" /\ Last(path) \in Name /\ lookup(d, p, Last(path)) = 0
    BY <1>2, <1>5
  <2> HIDE DEF i, p
  <2>1. r2 = CreateFile(d, p, Last(path))
    BY <1>2, <1>5 DEF r2
  <2>2. /\ r2.err = "none" => /\ Fit(r2.disk) /\ (Whole(d) => Whole(r2.disk))
                              /\ r2.val \in Ino /\ all_blocks(r2.disk, r2.val) = <<>>
        /\ r2.err # "none" /\ ToSet(d.inode[p].ind) \subseteq r2.disk.blocks => Fit(r2.disk)
    BY <2>0, <2>1, CreateFileIs
  <2>3. CASE r2.err # "none"
    <3>1. r = r2
      BY <1>1, <1>5, <2>3
    <3> QED BY <1>5, <2>2, <2>3, <3>1
  <2>4. CASE r2.err = "none" /\ r2.disk.inode[r2.val].type # "file"
    <3>1. r.err # "none" /\ r.disk = r2.disk
      BY <1>1, <1>5, <2>4 DEF Throw
    <3> QED BY <2>2, <2>4, <3>1
  <2>5. CASE r2.err = "none" /\ r2.disk.inode[r2.val].type = "file"
    <3>1. r = ReplaceData(r2.disk, r2.val, n)
      BY <1>1, <1>5, <2>5 DEF r3
    <3>2. /\ r.err = "none" => Fit(r.disk) /\ (Whole(r2.disk) => Whole(r.disk))
          /\ r.err # "none" => Fit(r.disk)
      BY <2>2, <2>5, <3>1, ReplaceDataIs
    <3> QED BY <2>2, <2>5, <3>2
  <2> QED BY <2>3, <2>4, <2>5
<1> QED BY <1>3, <1>4, <1>5

-----------------------------------------------------------------------------
\* mkdir! and symlink!

\* A link count that changes is the only change.
LEMMA AddLinksIs ==
  ASSUME NEW d \in Disk, NEW i \in Ino, NEW n \in Int
  PROVE  LET e == AddLinks(d, i, n) IN
         /\ e \in Disk /\ e.entries = d.entries
         /\ \A j \in Ino : /\ e.inode[j].type = d.inode[j].type
                           /\ e.inode[j].data = d.inode[j].data
                           /\ e.inode[j].ind = d.inode[j].ind
         /\ Sound(d) => Sound(e)
         /\ DirsCounted(d) => DirsCounted(e)
         /\ \A b \in Block, m \in Name : Entry(e, b, m) = Entry(d, b, m)
         /\ \A off \in [Ino -> Int] :
              Owed(d, off) /\ d.inode[i].type = "dir" => Owed(e, [off EXCEPT ![i] = @ + n])
         /\ \A k : Reached(d, k) => Reached(e, k)
<1> DEFINE x == [d.inode[i] EXCEPT !.links = @ + n]
           I == [d.inode EXCEPT ![i] = x]
           e == AddLinks(d, i, n)
<1>0. d.inode[i] \in Inode /\ d.inode \in [Ino -> Inode]
  BY DEF Disk
<1>1. /\ x \in Inode /\ x.type = d.inode[i].type /\ x.data = d.inode[i].data
      /\ x.ind = d.inode[i].ind /\ x.links = d.inode[i].links + n
  <2>1. PICK l \in Int : l = d.inode[i].links + n
    BY <1>0 DEF Inode
  <2>2. x = [d.inode[i] EXCEPT !.links = l]
    BY <2>1
  <2> HIDE DEF x
  <2> QED BY <1>0, <2>1, <2>2 DEF Inode
<1>2. e = [d EXCEPT !.inode = I]
  BY <1>0 DEF AddLinks, Disk, Inode
<1> HIDE DEF x, e
<1>3. I \in [Ino -> Inode] /\ I[i] = x /\ \A j \in Ino \ {i} : I[j] = d.inode[j]
  BY <1>0, <1>1
<1> HIDE DEF I
<1>4. e \in Disk /\ SameCounts(d, e) /\ e.blocks = d.blocks /\ e.entries = d.entries /\ e.inode = I
  BY <1>2, <1>3, WithInodes
<1>7. BlocksCounted(d) => BlocksCounted(e)
  BY <1>2, <1>3, WithInodes
<1>5. \A j \in Ino : /\ e.inode[j].type = d.inode[j].type
                     /\ e.inode[j].data = d.inode[j].data
                     /\ e.inode[j].ind = d.inode[j].ind
  BY <1>1, <1>3, <1>4
<1>6. /\ Sound(d) => Sound(e)
      /\ DirsCounted(d) => DirsCounted(e)
      /\ \A b \in Block, m \in Name : Entry(e, b, m) = Entry(d, b, m)
  BY <1>4, <1>7, <1>5, SameShape
<1>8. SameNames(d, e)
  BY <1>4, <1>5, <1>6, SameNamesIs
<1>9. ASSUME NEW off \in [Ino -> Int], Owed(d, off), d.inode[i].type = "dir"
      PROVE  Owed(e, [off EXCEPT ![i] = @ + n])
  <2> DEFINE o == [off EXCEPT ![i] = @ + n]
  <2>1. \A j \in Ino : Kids(e, j) = Kids(d, j)
    BY <1>5, <1>8 DEF SameNames, Kids
  <2>2. o[i] = off[i] + n /\ off[i] \in Int /\ \A j \in Ino \ {i} : o[j] = off[j]
    OBVIOUS
  <2> HIDE DEF o
  <2>3. e.inode[i].links = d.inode[i].links + n /\ \A j \in Ino \ {i} : e.inode[j] = d.inode[j]
    BY <1>1, <1>3, <1>4
  <2>4. e.inode[i].links = 2 + Cardinality(Kids(e, i)) + o[i]
    <3>1. Cardinality(Kids(d, i)) \in Nat /\ d.inode[i].links = 2 + Cardinality(Kids(d, i)) + off[i]
      BY <1>9, KidsFinite DEF Owed
    <3> QED BY <2>1, <2>2, <2>3, <3>1
  <2>6. Rooted(e)
    BY <1>5, <1>8, <1>9, RootIn DEF Owed, Rooted, Named, SameNames
  <2>5. Owed(e, o)
    BY <2>6, <1>5, <1>9, <2>1, <2>2, <2>3, <2>4 DEF Owed
  <2> QED BY <2>5 DEF o
<1>10. \A k : Reached(d, k) => Reached(e, k)
  <2>1. d.inodes \subseteq Ino /\ e.inodes = d.inodes
    BY <1>4 DEF Disk, SameCounts
  <2>2. \A j \in Ino : Own(e, j) = Own(d, j)
    BY <1>5 DEF Own, all_blocks
  <2> QED BY <1>4, <1>5, <1>8, <2>1, <2>2, SameReached
<1> QED BY <1>4, <1>5, <1>6, <1>9, <1>10 DEF e

\* Nothing is owed any more.
LEMMA OwedNone ==
  ASSUME NEW d, NEW off, Owed(d, off), \A j \in Ino : off[j] = 0
  PROVE  Linked(d)
BY DEF Linked, Owed

\* mkdir! keeps a disk fit.
LEMMA MkdirIs ==
  ASSUME NEW d, Fit(d), NEW path \in Paths
  PROVE  Kept(d, Mkdir(d, path), path)
<1> DEFINE r == Mkdir(d, path)
           r1 == parent_and_name(d, path)
           p == r1.val
           nm == Last(path)
           r2 == alloc_inode(r1.disk, group_of_inode(p), 1)
           i == r2.val
           r3 == alloc_blocks(r2.disk, group_of_inode(i), 1)
           got == r3.val
           dot == DotEntries(i, p)
           x == [FreshInode("dir", 2) EXCEPT !.data = got]
           g == [r3.disk EXCEPT !.entries[got[1]] = dot, !.inode[i] = x]
           r4 == add_entry(g, p, nm, i)
<1>0. d \in Disk /\ Sound(d) /\ Linked(d)
  BY DEF Fit, Sound
<1>1. r = IF r1.err = "none"
          THEN IF lookup(r1.disk, p, nm) # 0 THEN Throw(r1.disk, "exists")
               ELSE IF r2.err = "none"
                    THEN IF r3.err = "none"
                         THEN IF r4.err = "none" THEN Ok(AddLinks(r4.disk, p, 1), i) ELSE r4
                         ELSE r3
                    ELSE r2
          ELSE r1
  BY Zenon DEF Mkdir, Then
<1>2. /\ r1.disk = d
      /\ r1.err = "none" => p \in Ino /\ d.inode[p].type = "dir" /\ nm \in Name
  BY <1>0, ParentAndName
<1> HIDE DEF r1, r, r2, r3, r4
<1> SUFFICES /\ r.err = "none" => Fit(r.disk) /\ (Whole(d) => Whole(r.disk))
             /\ r.err # "none" /\ (r1.err = "none" => ToSet(d.inode[p].ind) \subseteq r.disk.blocks)
                  => Fit(r.disk)
  BY DEF Kept, r, r1
<1>3. CASE r1.err # "none"
  <2>1. r = r1
    BY <1>1, <1>3
  <2> QED BY <1>2, <1>3, <2>1
<1>4. CASE r1.err = "none" /\ lookup(d, p, nm) # 0
  <2>1. r.err # "none" /\ r.disk = d
    BY <1>1, <1>2, <1>4 DEF Throw
  <2> QED BY <2>1
<1>5. CASE r1.err = "none" /\ lookup(d, p, nm) = 0
  <2>0. p \in Ino /\ d.inode[p].type = "dir" /\ nm \in Name
    BY <1>2, <1>5
  <2>1. r = IF r2.err = "none"
            THEN IF r3.err = "none"
                 THEN IF r4.err = "none" THEN Ok(AddLinks(r4.disk, p, 1), i) ELSE r4
                 ELSE r3
            ELSE r2
    BY <1>1, <1>2, <1>5
  <2> HIDE DEF p, nm
  <2>n. \A b \in ToSet(d.inode[p].data) : Entry(d, b, nm) = 0 /\ b \in Block
    <3>1. nm \in AnyName /\ lookup(d, p, nm) \notin Ino
      BY <1>5, <2>0, NameIsAny, Constants DEF Ino
    <3> QED BY <1>0, <2>0, <3>1, LookupIs, InodeIs
  <2>2. /\ r2.err # "none" => r2.disk = d
        /\ r2.err = "none" => TookInode(d, r2.disk, i, 1)
    <3>1. group_of_inode(p) \in Int /\ 1 \in Int
      BY <2>0, Constants DEF group_of_inode, Ino
    <3> QED BY <1>0, <1>2, <3>1, AllocInode DEF Sound, r2
  <2>3. CASE r2.err # "none"
    <3>1. r = r2
      BY <2>1, <2>3
    <3> QED BY <2>2, <2>3, <3>1
  <2>4. CASE r2.err = "none"
    <3> DEFINE f == r2.disk
    <3>1. TookInode(d, f, i, 1)
      BY <2>2, <2>4
    <3> HIDE DEF i
    <3>2. /\ Sound(f) /\ Nameless(f, i) /\ i \in Ino /\ i \in f.inodes /\ f.inode[i].type = "none"
          /\ \A b \in Block, n \in Name : Entry(f, b, n) = Entry(d, b, n)
          /\ Linked(f) /\ (Reached(d, 0) => Reached(f, i)) /\ i # Root
      BY <1>0, <3>1, TookInodeSound DEF Linked, Owed, Rooted
    <3>3. f \in Disk /\ BlocksCounted(f) /\ f.inode = d.inode
      BY <3>1, <3>2 DEF Sound, TookInode, SameBlocks
    <3>4. /\ r3.err # "none" => r3.disk = f
          /\ r3.err = "none" => /\ Took(f, r3.disk, got) /\ BlocksCounted(r3.disk) /\ Len(got) = 1
      <4>1. group_of_inode(i) \in Int
        BY <3>2, Constants DEF group_of_inode, Ino
      <4> QED BY <3>3, <4>1, AllocBlocks DEF r3
    <3>5. CASE r3.err # "none"
      <4>1. r = r3
        BY <2>1, <2>4, <3>5
      <4> QED BY <3>2, <3>4, <3>5, <4>1 DEF Fit
    <3>6. CASE r3.err = "none"
      <4>0. r = IF r4.err = "none" THEN Ok(AddLinks(r4.disk, p, 1), i) ELSE r4
        BY <2>1, <2>4, <3>6
      <4> DEFINE h == r3.disk
                 c == got[1]
      <4>1. /\ h \in Disk /\ BlocksCounted(h) /\ SameFiles(f, h) /\ h.entries = f.entries
            /\ got \in Seq(Block) /\ IsInjective(got) /\ ToSet(got) \cap f.blocks = {}
            /\ h.blocks = f.blocks \cup ToSet(got) /\ Len(got) = 1
        BY <3>4, <3>6 DEF Took
      <4> HIDE DEF h, got
      <4>2. c \in Block /\ ToSet(got) = {c} /\ got = <<c>>
        <5>1. got \in Seq(Block) /\ Len(got) = 1
          BY <4>1
        <5>2. c \in Block /\ DOMAIN got = {1} /\ got = <<c>>
          BY <5>1
        <5> QED BY <5>2 DEF ToSet
      <4>3. dot \in [AnyName -> 0 .. NInodes] /\ \A n \in Name : dot[n] = 0
        <5>1. i \in 0 .. NInodes /\ p \in 0 .. NInodes /\ 0 \in 0 .. NInodes
          BY <2>0, <3>2, Constants DEF Ino
        <5>2. NoEntries \in [AnyName -> 0 .. NInodes] /\ \A n \in Name : NoEntries[n] = 0
          BY <5>1, NameIsAny DEF NoEntries
        <5>3. \A n \in Name : n \in AnyName /\ n # "." /\ n # ".."
          BY Ext2Assumption DEF AnyName
        <5> QED BY <5>1, <5>2, <5>3 DEF DotEntries
      <4>4. x \in Inode /\ x.type = "dir" /\ x.data = got /\ x.ind = <<>> /\ x.links = 2
        <5>1. /\ FreshInode("dir", 2) \in Inode /\ FreshInode("dir", 2).type = "dir"
              /\ FreshInode("dir", 2).ind = <<>> /\ FreshInode("dir", 2).links = 2
          BY FreshIsInode
        <5> QED BY <4>1, <5>1 DEF Inode
      <4> HIDE DEF dot, x, c
      <4> DEFINE E == [h.entries EXCEPT ![c] = dot]
                 I == [h.inode EXCEPT ![i] = x]
      <4>5. /\ E \in [Block -> [AnyName -> 0 .. NInodes]]
            /\ E[c] = dot /\ \A b \in Block \ {c} : E[b] = f.entries[b]
        <5>1. h.entries \in [Block -> [AnyName -> 0 .. NInodes]]
          BY <4>1 DEF Disk
        <5> QED BY <4>1, <4>2, <4>3, <5>1
      <4>6. I \in [Ino -> Inode] /\ I[i] = x /\ \A j \in Ino \ {i} : I[j] = d.inode[j]
        <5>1. h.inode \in [Ino -> Inode] /\ h.inode = d.inode
          BY <3>3, <4>1 DEF Disk, SameFiles
        <5> QED BY <3>2, <4>4, <5>1
      <4> DEFINE h1 == [h EXCEPT !.entries = E]
      <4>7. g = [h1 EXCEPT !.inode = I]
        BY <4>1 DEF Disk, h, c
      <4> HIDE DEF E, I, g
      <4>8. /\ h1 \in Disk /\ SameCounts(h, h1) /\ BlocksCounted(h1) /\ h1.blocks = h.blocks
            /\ h1.entries = E
        BY <4>1, <4>5, WithEntries
      <4> HIDE DEF h1
      <4>9. /\ g \in Disk /\ SameCounts(h1, g) /\ BlocksCounted(g) /\ g.blocks = h1.blocks
            /\ g.entries = h1.entries /\ g.inode = I
        BY <4>6, <4>7, <4>8, WithInodes
      <4>10. SameCounts(f, g)
        BY <4>1, <4>8, <4>9 DEF SameCounts, SameFiles
      <4>11. /\ Sound(g) /\ Nameless(g, i) /\ Parent(g, i) = p
             /\ \A b \in Block, n \in Name : Entry(g, b, n) = Entry(f, b, n)
             /\ Linked(g) /\ (Reached(d, 0) => Reached(g, i))
        <5>1. g.blocks = f.blocks \cup ToSet(got)
          BY <4>1, <4>8, <4>9
        <5>2. g.inode[i].type = "dir" /\ g.inode[i].data = got /\ g.inode[i].ind = <<>>
          BY <4>4, <4>6, <4>9
        <5>3. \A j \in Ino \ {i} : g.inode[j] = f.inode[j]
          BY <3>3, <4>6, <4>9
        <5>4. \A b \in Block \ ToSet(got) : g.entries[b] = f.entries[b]
          BY <4>2, <4>5, <4>8, <4>9
        <5>5. g.entries[c] = DotEntries(i, p)
          BY <4>5, <4>8, <4>9 DEF dot
        <5>6. \E b \in Block, q \in Ino : got = <<b>> /\ g.entries[b] = DotEntries(i, q)
          BY <2>0, <4>2, <5>5
        <5>7. g.inode[i].type # "none"
          BY <5>2
        <5>8. Made(f, g, i)
          BY <3>2, <4>1, <4>9, <4>10, <5>1, <5>2, <5>3, <5>4, <5>6, <5>7, NewFile
        <5>9. g.inode[i].links = 2
          BY <4>4, <4>6, <4>9
        <5> QED BY <2>0, <3>2, <4>2, <5>2, <5>5, <5>8, <5>9 DEF Made
      <4>12. p # i /\ g.inode[p] = d.inode[p] /\ g.inode[p].type = "dir"
        BY <2>0, <3>2, <3>3, <4>6, <4>9
      <4>13. i \in g.inodes /\ g.inode[i].type = "dir" /\ Apart(g)
        BY <3>2, <4>4, <4>6, <4>9, <4>10, <4>11 DEF SameCounts, Sound
      <4>14. /\ r4.err # "none" => NotAdded(g, r4.disk, p)
             /\ r4.err = "none" => \E a \in Block : Added(g, r4.disk, p, nm, i, a)
        BY <2>0, <3>2, <4>9, <4>12, <4>13, AddEntry, NameIsAny DEF r4
      <4>15. CASE r4.err # "none"
        <5>1. r = r4
          BY <4>0, <4>15
        <5>2. ToSet(d.inode[p].ind) \subseteq r4.disk.blocks => Fit(r4.disk)
          BY <2>0, <4>11, <4>12, <4>14, <4>15, NotAddedSound DEF Fit
        <5> QED BY <1>5, <4>15, <5>1, <5>2
      <4>16. CASE r4.err = "none"
        <5> DEFINE k == r4.disk
        <5>1. r.err = "none" /\ r.disk = AddLinks(k, p, 1)
          BY <4>0, <4>16 DEF Ok
        <5>2. PICK a \in Block : Added(g, k, p, nm, i, a)
          BY <4>14, <4>16
        <5>n. \A b \in ToSet(g.inode[p].data) : Entry(g, b, nm) = 0
          BY <2>0, <2>n, <3>2, <4>11, <4>12
        <5>t. g.inode[i].type # "none"
          BY <4>13
        <5>3. Sound(k) /\ (DirsCounted(g) => DirsCounted(k))
          BY <2>0, <4>11, <4>12, <4>13, <5>2, <5>n, <5>t, AddedSound
        <5>4. DirsCounted(d) => DirsCounted(g)
          <6>1. \A j \in Ino \ {i} : g.inode[j].type = d.inode[j].type
            BY <4>6, <4>9
          <6>2. 1 \in {0, 1} /\ (g.inode[i].type = "dir" <=> 1 = 1)
            BY <4>13
          <6> QED BY <1>0, <3>1, <4>10, <6>1, <6>2, NewDirs
        <5>5. Owed(k, Off(p, -1)) /\ (Reached(d, 0) => Reached(k, 0))
          BY <2>0, <3>2, <4>11, <4>12, <4>13, <5>2, <5>n, <5>t, AddedLinks
        <5>6. k \in Disk /\ 1 \in Int /\ k.inode[p].type = "dir"
          BY <4>12, <5>2, <5>3 DEF Sound, Added
        <5>7. Off(p, -1) \in [Ino -> Int] /\ \A j \in Ino : [Off(p, -1) EXCEPT ![p] = @ + 1][j] = 0
          BY <2>0 DEF Off
        <5> DEFINE l == AddLinks(k, p, 1)
        <5>8. /\ Sound(l) /\ (DirsCounted(k) => DirsCounted(l))
              /\ Owed(l, [Off(p, -1) EXCEPT ![p] = @ + 1]) /\ (Reached(k, 0) => Reached(l, 0))
          BY <2>0, <5>3, <5>5, <5>6, <5>7, AddLinksIs
        <5>9. Linked(l)
          BY <5>7, <5>8, OwedNone
        <5> QED BY <5>1, <5>3, <5>4, <5>5, <5>8, <5>9 DEF Fit, Whole
      <4> QED BY <4>15, <4>16
    <3> QED BY <3>5, <3>6
  <2> QED BY <2>3, <2>4
<1> QED BY <1>3, <1>4, <1>5

\* symlink! keeps a disk fit.
LEMMA SymlinkIs ==
  ASSUME NEW d, Fit(d), NEW path \in Paths, NEW target \in Targets
  PROVE  Kept(d, Symlink(d, target, path), path)
<1> DEFINE r == Symlink(d, target, path)
           r1 == parent_and_name(d, path)
           p == r1.val
           nm == Last(path)
           r2 == alloc_inode(r1.disk, group_of_inode(p), 0)
           f == r2.disk
           i == r2.val
           x == FreshInode("symlink", 1)
           fresh == [f EXCEPT !.inode[i] = x]
           r3 == IF target.long THEN alloc_blocks(fresh, group_of_inode(i), 1)
                                ELSE Ok(fresh, <<>>)
           got == r3.val
           g == [r3.disk EXCEPT !.inode[i].data = got, !.inode[i].target = target]
           r4 == add_entry(g, p, nm, i)
<1>0. d \in Disk /\ Sound(d) /\ Linked(d)
  BY DEF Fit, Sound
<1>1. r = IF r1.err = "none"
          THEN IF lookup(r1.disk, p, nm) # 0 THEN Throw(r1.disk, "exists")
               ELSE IF r2.err = "none"
                    THEN IF r3.err = "none" THEN r4 ELSE r3
                    ELSE r2
          ELSE r1
  BY Zenon DEF Symlink, Then
<1>2. /\ r1.disk = d
      /\ r1.err = "none" => p \in Ino /\ d.inode[p].type = "dir" /\ nm \in Name
  BY <1>0, ParentAndName
<1> HIDE DEF r1, r, r2, r3, r4
<1> SUFFICES /\ r.err = "none" => Fit(r.disk) /\ (Whole(d) => Whole(r.disk))
             /\ r.err # "none" /\ (r1.err = "none" => ToSet(d.inode[p].ind) \subseteq r.disk.blocks)
                  => Fit(r.disk)
  BY DEF Kept, r, r1
<1>3. CASE r1.err # "none"
  <2>1. r = r1
    BY <1>1, <1>3
  <2> QED BY <1>2, <1>3, <2>1
<1>4. CASE r1.err = "none" /\ lookup(d, p, nm) # 0
  <2>1. r.err # "none" /\ r.disk = d
    BY <1>1, <1>2, <1>4 DEF Throw
  <2> QED BY <2>1
<1>5. CASE r1.err = "none" /\ lookup(d, p, nm) = 0
  <2>0. p \in Ino /\ d.inode[p].type = "dir" /\ nm \in Name
    BY <1>2, <1>5
  <2>1. r = IF r2.err = "none" THEN IF r3.err = "none" THEN r4 ELSE r3 ELSE r2
    BY <1>1, <1>2, <1>5
  <2> HIDE DEF p, nm
  <2>n. \A b \in ToSet(d.inode[p].data) : Entry(d, b, nm) = 0 /\ b \in Block
    <3>1. nm \in AnyName /\ lookup(d, p, nm) \notin Ino
      BY <1>5, <2>0, NameIsAny, Constants DEF Ino
    <3> QED BY <1>0, <2>0, <3>1, LookupIs, InodeIs
  <2>2. /\ r2.err # "none" => r2.disk = d
        /\ r2.err = "none" => TookInode(d, r2.disk, i, 0)
    <3>1. group_of_inode(p) \in Int /\ 0 \in Int
      BY <2>0, Constants DEF group_of_inode, Ino
    <3> QED BY <1>0, <1>2, <3>1, AllocInode DEF Sound, r2
  <2>3. CASE r2.err # "none"
    <3>1. r = r2
      BY <2>1, <2>3
    <3> QED BY <2>2, <2>3, <3>1
  <2>4. CASE r2.err = "none"
    <3>1. TookInode(d, f, i, 0)
      BY <2>2, <2>4
    <3> HIDE DEF i, f, fresh
    <3>2. /\ Sound(f) /\ Nameless(f, i) /\ i \in Ino /\ i \in f.inodes /\ f.inode[i].type = "none"
          /\ \A b \in Block, n \in Name : Entry(f, b, n) = Entry(d, b, n)
          /\ Linked(f) /\ (Reached(d, 0) => Reached(f, i)) /\ i # Root
      BY <1>0, <3>1, TookInodeSound DEF Linked, Owed, Rooted
    <3>3. f \in Disk /\ BlocksCounted(f) /\ f.inode = d.inode
      BY <3>1, <3>2 DEF Sound, TookInode, SameBlocks
    <3>4. x \in Inode /\ x.type = "symlink" /\ x.data = <<>> /\ x.ind = <<>> /\ x.links = 1
      BY FreshIsInode
    <3> HIDE DEF x
    <3> DEFINE I == [f.inode EXCEPT ![i] = x]
    <3>5. I \in [Ino -> Inode] /\ I[i] = x /\ \A j \in Ino \ {i} : I[j] = d.inode[j]
      BY <3>2, <3>3, <3>4 DEF Disk
    <3>6. fresh = [f EXCEPT !.inode = I]
      BY <3>3 DEF Disk, fresh
    <3> HIDE DEF I
    <3>7. /\ fresh \in Disk /\ SameCounts(f, fresh) /\ BlocksCounted(fresh)
          /\ fresh.blocks = f.blocks /\ fresh.entries = f.entries /\ fresh.inode = I
      BY <3>3, <3>5, <3>6, WithInodes
    <3>8. Sound(fresh) /\ Linked(fresh)
      <4>1. <<>> \in Seq(Block) /\ ToSet(<<>>) = {} /\ IsInjective(<<>>)
        BY DEF ToSet, IsInjective
      <4>2. ToSet(<<>>) \cap f.blocks = {} /\ fresh.blocks = f.blocks \cup ToSet(<<>>)
        BY <3>7, <4>1
      <4>3. fresh.inode[i].type = "symlink" /\ fresh.inode[i].data = <<>> /\ fresh.inode[i].ind = <<>>
        BY <3>4, <3>5, <3>7
      <4>4. \A j \in Ino \ {i} : fresh.inode[j] = f.inode[j]
        BY <3>3, <3>5, <3>7
      <4>5. \A b \in Block \ ToSet(<<>>) : fresh.entries[b] = f.entries[b]
        BY <3>7
      <4>6. fresh.inode[i].type # "none" /\ fresh.inode[i].type # "dir"
        BY <4>3
      <4>7. Made(f, fresh, i)
        BY <3>2, <3>7, <4>1, <4>2, <4>3, <4>4, <4>5, <4>6, NewFile
      <4>8. fresh.inode[i].links = 1
        BY <3>4, <3>5, <3>7
      <4> QED BY <3>2, <4>6, <4>7, <4>8 DEF Made
    <3>9. /\ r3.err # "none" => r3.disk = fresh
          /\ r3.err = "none" => Took(fresh, r3.disk, got) /\ BlocksCounted(r3.disk)
      <4>1. CASE target.long
        <5>1. group_of_inode(i) \in Int /\ 1 \in Nat
          BY <3>2, Constants DEF group_of_inode, Ino
        <5>2. r3 = alloc_blocks(fresh, group_of_inode(i), 1)
          BY <4>1 DEF r3
        <5> QED BY <3>7, <5>1, <5>2, AllocBlocks
      <4>2. CASE ~target.long
        <5>1. r3.disk = fresh /\ r3.val = <<>> /\ r3.err = "none"
          BY <4>2 DEF r3, Ok
        <5> QED BY <3>7, <5>1, TookNone
      <4> QED BY <4>1, <4>2
    <3>10. CASE r3.err # "none"
      <4>1. r = r3
        BY <2>1, <2>4, <3>10
      <4> QED BY <3>8, <3>9, <3>10, <4>1 DEF Fit
    <3>11. CASE r3.err = "none"
      <4>0. r = r4
        BY <2>1, <2>4, <3>11
      <4> DEFINE h == r3.disk
      <4>1. /\ h \in Disk /\ BlocksCounted(h) /\ SameFiles(fresh, h) /\ h.entries = f.entries
            /\ got \in Seq(Block) /\ IsInjective(got) /\ ToSet(got) \cap f.blocks = {}
            /\ h.blocks = f.blocks \cup ToSet(got)
        BY <3>7, <3>9, <3>11 DEF Took
      <4> HIDE DEF h, got
      <4> DEFINE y == [h.inode[i] EXCEPT !.data = got, !.target = target]
                 J == [h.inode EXCEPT ![i] = y]
      <4>2. h.inode = I /\ h.inode[i] = x
        BY <3>5, <3>7, <4>1 DEF SameFiles
      <4>3. y \in Inode /\ y.type = "symlink" /\ y.data = got /\ y.ind = <<>> /\ y.links = 1
        <5>1. target \in Links
          BY Ext2Assumption DEF Links, AnyName
        <5>2. y = [x EXCEPT !.data = got, !.target = target]
          BY <4>2
        <5> HIDE DEF y
        <5> QED BY <3>4, <4>1, <5>1, <5>2 DEF Inode
      <4>4. g = [h EXCEPT !.inode = J]
        BY <3>2, <3>5, <4>1, <4>2 DEF Disk, Inode, h
      <4> HIDE DEF y
      <4>5. J \in [Ino -> Inode] /\ J[i] = y /\ \A j \in Ino \ {i} : J[j] = d.inode[j]
        BY <3>2, <3>5, <4>2, <4>3
      <4> HIDE DEF J, g
      <4>6. /\ g \in Disk /\ SameCounts(h, g) /\ BlocksCounted(g) /\ g.blocks = h.blocks
            /\ g.entries = h.entries /\ g.inode = J
        BY <4>1, <4>4, <4>5, WithInodes
      <4>7. SameCounts(f, g)
        BY <3>7, <4>1, <4>6 DEF SameCounts, SameFiles
      <4>8. g.inode[i].type = "symlink" /\ g.inode[i].data = got /\ g.inode[i].ind = <<>>
        BY <4>3, <4>5, <4>6
      <4>9. \A j \in Ino \ {i} : g.inode[j] = f.inode[j] /\ g.inode[j] = d.inode[j]
        BY <3>3, <4>5, <4>6
      <4>10. /\ Sound(g) /\ Nameless(g, i)
             /\ \A b \in Block, n \in Name : Entry(g, b, n) = Entry(f, b, n)
             /\ Linked(g) /\ (Reached(d, 0) => Reached(g, i))
        <5>1. g.blocks = f.blocks \cup ToSet(got)
          BY <4>1, <4>6
        <5>2. g.inode[i].type # "none" /\ g.inode[i].type # "dir"
          BY <4>8
        <5>3. \A b \in Block \ ToSet(got) : g.entries[b] = f.entries[b]
          BY <4>1, <4>6
        <5>4. Made(f, g, i)
          BY <3>2, <4>1, <4>6, <4>7, <4>8, <4>9, <5>1, <5>2, <5>3, NewFile
        <5>5. g.inode[i].links = 1
          BY <4>3, <4>5, <4>6
        <5> QED BY <3>2, <5>2, <5>4, <5>5 DEF Made
      <4>11. p # i /\ g.inode[p] = d.inode[p] /\ g.inode[p].type = "dir"
        BY <2>0, <3>2, <3>3, <4>9
      <4>12. i \in g.inodes /\ g.inode[i].type # "none" /\ Apart(g)
        BY <3>2, <4>7, <4>8, <4>10 DEF SameCounts, Sound
      <4>13. /\ r4.err # "none" => NotAdded(g, r4.disk, p)
             /\ r4.err = "none" => \E a \in Block : Added(g, r4.disk, p, nm, i, a)
        BY <2>0, <3>2, <4>6, <4>11, <4>12, AddEntry, NameIsAny DEF r4
      <4>14. CASE r4.err # "none"
        <5>1. ToSet(d.inode[p].ind) \subseteq r4.disk.blocks => Fit(r4.disk)
          BY <2>0, <4>10, <4>11, <4>13, <4>14, NotAddedSound DEF Fit
        <5> QED BY <1>5, <4>0, <4>14, <5>1
      <4>15. CASE r4.err = "none"
        <5> DEFINE k == r4.disk
        <5>1. PICK a \in Block : Added(g, k, p, nm, i, a)
          BY <4>13, <4>15
        <5>n. \A b \in ToSet(g.inode[p].data) : Entry(g, b, nm) = 0
          BY <2>0, <2>n, <3>2, <4>10, <4>11
        <5>t. g.inode[i].type # "dir"
          BY <4>8
        <5>2. Sound(k) /\ (DirsCounted(g) => DirsCounted(k))
          BY <2>0, <4>10, <4>11, <4>12, <5>1, <5>n, <5>t, AddedSound
        <5>3. DirsCounted(d) => DirsCounted(g)
          <6>1. \A j \in Ino \ {i} : g.inode[j].type = d.inode[j].type
            BY <4>9
          <6>2. 0 \in {0, 1} /\ (g.inode[i].type = "dir" <=> 0 = 1)
            BY <4>8
          <6> QED BY <1>0, <3>1, <4>7, <6>1, <6>2, NewDirs
        <5>4. Linked(k) /\ (Reached(d, 0) => Reached(k, 0))
          BY <2>0, <3>2, <4>10, <4>11, <4>12, <5>1, <5>n, <5>t, AddedLinks
        <5> QED BY <4>0, <4>15, <5>2, <5>3, <5>4 DEF Fit, Whole
      <4> QED BY <4>14, <4>15
    <3> QED BY <3>10, <3>11
  <2> QED BY <2>3, <2>4
<1> QED BY <1>3, <1>4, <1>5

-----------------------------------------------------------------------------
\* rm! and rmdir!

\* Directory i has no names.
Childless(d, i) == \A n \in Name, k \in Ino : ~Child(d, i, n, k)

\* e is the sound disk d without the one name of i, which was in dir.
NameGone(d, e, i, dir) ==
  /\ Sound(e) /\ Nameless(e, i) /\ i \in Ino /\ i \in e.inodes
  /\ e.inode = d.inode /\ d.inode[i].type # "none"
  /\ DirsCounted(d) => DirsCounted(e)
  /\ Linked(d) => IF d.inode[i].type = "dir" THEN Owed(e, Off(dir, 1)) ELSE Linked(e)
  /\ Reached(d, 0) => Reached(e, i)
  /\ Childless(d, i) => Childless(e, i)
  /\ Linked(d) => i # Root

\* An empty directory has no children.
LEMMA EmptyChildless ==
  ASSUME NEW d \in Disk, NEW i \in Ino, d.inode[i].type = "dir" => IsEmptyDir(d, i)
  PROVE  Childless(d, i)
<1> SUFFICES ASSUME NEW n \in Name, NEW k \in Ino, Child(d, i, n, k) PROVE FALSE
  BY DEF Childless
<1>1. d.inode[i].type = "dir" /\ n \in AnyName /\ lookup(d, i, n) = 0
  BY NameIsAny DEF Child, IsEmptyDir
<1>2. 0 \notin Ino
  BY Constants DEF Ino
<1> QED BY <1>1, <1>2, LookupIs DEF Child

\* The names are the old ones but for that of i.
LEMMA RemovedLinks ==
  ASSUME NEW d, Sound(d), NEW dir \in Ino, NEW nm \in Name, NEW i \in Ino, Child(d, dir, nm, i),
         NEW e, Removed(d, e, dir, nm)
  PROVE  /\ \A j, k \in Ino, n \in Name : Child(e, j, n, k) <=> Child(d, j, n, k) /\ k # i
         /\ Linked(d) => IF d.inode[i].type = "dir" THEN Owed(e, Off(dir, 1)) ELSE Linked(e)
         /\ Reached(d, 0) => Reached(e, i)
<1>0. d \in Disk /\ Apart(d) /\ Once(d) /\ Single(d) /\ 0 \notin Ino
  BY Constants DEF Sound, Tree, Ino
<1>1. e.inode = d.inode /\ e.inodes = d.inodes /\ e.blocks = d.blocks /\ d.inodes \subseteq Ino
  BY <1>0 DEF Removed, SameFiles, Disk
<1>2. \A b \in Block, n \in Name :
        Entry(e, b, n) = IF b \in ToSet(d.inode[dir].data) /\ n = nm THEN 0 ELSE Entry(d, b, n)
  BY NameIsAny DEF Removed
<1>3. \A j \in Ino : ToSet(d.inode[j].data) \subseteq Block /\ ToSet(d.inode[j].data) \subseteq Own(d, j)
  BY <1>0, InodeIs
<1>4. \A j \in Ino, b \in ToSet(d.inode[dir].data) : b \in ToSet(d.inode[j].data) => j = dir
  BY <1>0, <1>3 DEF Apart
<1>5. PICK c \in ToSet(d.inode[dir].data) : Entry(d, c, nm) = i /\ d.inode[dir].type = "dir"
  BY DEF Child
<1>6. ASSUME NEW j \in Ino, NEW n \in Name, NEW k \in Ino, NEW b \in ToSet(d.inode[j].data)
      PROVE  Entry(e, b, n) = k <=> Entry(d, b, n) = k /\ k # i
  <2>0. b \in Block /\ c \in Block
    BY <1>3
  <2>1. CASE b \in ToSet(d.inode[dir].data) /\ n = nm
    <3>1. Entry(e, b, n) = 0 /\ k # 0 /\ i # 0
      BY <1>0, <1>2, <2>0, <2>1
    <3>2. Entry(d, b, n) = k => b = c
      BY <1>0, <1>5, <2>1, <3>1 DEF Once
    <3> QED BY <1>5, <2>1, <3>1, <3>2
  <2>2. CASE ~(b \in ToSet(d.inode[dir].data) /\ n = nm)
    <3>1. Entry(e, b, n) = Entry(d, b, n)
      BY <1>2, <2>0, <2>2
    <3>2. Entry(d, b, n) # i
      BY <1>0, <1>5, <2>0, <2>2 DEF Single
    <3> QED BY <3>1, <3>2
  <2> QED BY <2>1, <2>2
<1>7. \A j, k \in Ino, n \in Name : Child(e, j, n, k) <=> Child(d, j, n, k) /\ k # i
  BY <1>1, <1>6 DEF Child
<1>8. \A j \in Ino, n \in Name : Child(d, j, n, i) => j = dir
  <2> SUFFICES ASSUME NEW j \in Ino, NEW n \in Name, Child(d, j, n, i) PROVE j = dir
    OBVIOUS
  <2>1. PICK b \in ToSet(d.inode[j].data) : Entry(d, b, n) = i
    BY DEF Child
  <2>2. b = c
    BY <1>0, <1>3, <1>5, <2>1 DEF Single
  <2> QED BY <1>4, <1>5, <2>1, <2>2
<1>r. Linked(d) => Rooted(e)
  BY <1>1, <1>7, RootIn DEF Linked, Owed, Rooted, Named
<1>9. ASSUME Linked(d), d.inode[i].type = "dir" PROVE Owed(e, Off(dir, 1))
  <2>1. ASSUME NEW j \in Ino, d.inode[j].type = "dir"
        PROVE  d.inode[j].links = 2 + Cardinality(Kids(e, j)) + Off(dir, 1)[j]
    <3>1. d.inode[j].links = 2 + Cardinality(Kids(d, j)) /\ Cardinality(Kids(e, j)) \in Nat
      BY <1>9, <2>1, KidsFinite DEF Linked, Owed
    <3>2. CASE j = dir
      <4>1. Kids(d, j) = Kids(e, j) \cup {i} /\ i \notin Kids(e, j)
        BY <1>1, <1>7, <1>9, <3>2 DEF Kids
      <4>2. Cardinality(Kids(d, j)) = Cardinality(Kids(e, j)) + 1
        BY <4>1, KidsFinite, FS_AddElement
      <4>3. Off(dir, 1)[j] = 1
        BY <3>2 DEF Off
      <4> QED BY <3>1, <4>2, <4>3
    <3>3. CASE j # dir
      <4>1. Kids(e, j) = Kids(d, j)
        BY <1>1, <1>7, <1>8, <3>3 DEF Kids
      <4>2. Off(dir, 1)[j] = 0
        BY <3>3 DEF Off
      <4> QED BY <3>1, <4>1, <4>2
    <3> QED BY <3>2, <3>3
  <2>2. \A j \in Ino : d.inode[j].type \in {"file", "symlink"} => d.inode[j].links = 1
    BY <1>9 DEF Linked, Owed
  <2> QED BY <1>1, <1>9, <1>r, <2>1, <2>2 DEF Owed
<1>10. ASSUME Linked(d), d.inode[i].type # "dir" PROVE Linked(e)
  <2>1. \A j \in Ino : Kids(e, j) = Kids(d, j)
    BY <1>1, <1>7, <1>10 DEF Kids
  <2> QED BY <1>1, <1>10, <1>r, <2>1 DEF Linked, Owed
<1>11. ASSUME Reached(d, 0) PROVE Reached(e, i)
  <2>1. \A j \in Ino \ {i} : Named(d, j) => Named(e, j)
    BY <1>7 DEF Named
  <2>2. \A j \in e.inodes \ {i} : e.inode[j].type # "none" /\ (j = Root \/ Named(e, j))
    BY <1>0, <1>1, <1>11, <2>1 DEF Reached
  <2>3. \A b \in e.blocks : \E j \in Ino : b \in Own(e, j)
    BY <1>1, <1>11 DEF Reached, Own, all_blocks
  <2> QED BY <2>2, <2>3 DEF Reached
<1> QED BY <1>7, <1>9, <1>10, <1>11

\* Without its one name, an inode is nameless.
LEMMA RemoveName ==
  ASSUME NEW d, Sound(d), NEW dir \in Ino, d.inode[dir].type = "dir", NEW nm \in Name,
         lookup(d, dir, nm) # 0
  PROVE  LET r == remove_entry(d, dir, nm) IN
         /\ r.err = "none" /\ NameGone(d, r.disk, lookup(d, dir, nm), dir)
         /\ Removed(d, r.disk, dir, nm)
<1> DEFINE i == lookup(d, dir, nm)
           r == remove_entry(d, dir, nm)
           e == r.disk
<1>0. d \in Disk /\ nm \in AnyName /\ Leads(d) /\ Single(d) /\ Apart(d) /\ Tree(d)
  BY NameIsAny DEF Sound
<1>1. r.err = "none" /\ Removed(d, e, dir, nm)
  BY <1>0, RemoveEntry
<1>2. PICK c \in ToSet(d.inode[dir].data) : Entry(d, c, nm) = i /\ i \in Ino
  BY <1>0, LookupIs
<1> HIDE DEF i, r
<1>3. c \in Block
  <2>1. ToSet(d.inode[dir].data) \subseteq Block
    BY <1>0, InodeIs
  <2> QED BY <2>1
<1>4. i # 0
  BY <1>2, Constants DEF Ino
<1>5. i \in d.inodes /\ d.inode[i].type # "none"
  BY <1>0, <1>2, <1>3, <1>4 DEF Leads
<1>6. /\ e \in Disk /\ SameFiles(d, e) /\ e.blocks = d.blocks /\ BlocksCounted(e) /\ Apart(e)
      /\ e.inode = d.inode /\ e.inodes = d.inodes
  BY <1>1 DEF Removed, Sound, SameFiles
<1>7. \A b \in Block, n \in Name :
        Entry(e, b, n) = IF b \in ToSet(d.inode[dir].data) /\ n = nm THEN 0 ELSE Entry(d, b, n)
  BY <1>1, NameIsAny DEF Removed
<1>8. Leads(e)
  BY <1>0, <1>6, <1>7 DEF Leads
<1>9. Single(e)
  BY <1>0, <1>7 DEF Single
<1>10. Nameless(e, i)
  <2> SUFFICES ASSUME NEW b \in Block, NEW n \in Name, Entry(e, b, n) = i PROVE FALSE
    BY DEF Nameless
  <2>1. Entry(d, b, n) = i /\ ~(b \in ToSet(d.inode[dir].data) /\ n = nm)
    BY <1>4, <1>7
  <2>2. b = c /\ n = nm
    BY <1>0, <1>2, <1>3, <1>4, <2>1 DEF Single
  <2> QED BY <2>1, <2>2
<1>11. InodesCounted(e) /\ Fresh(e)
  BY <1>6 DEF Sound, InodesCounted, Fresh, SameFiles
<1>12. DirsCounted(d) => DirsCounted(e)
  <2>1. SameCounts(d, e) /\ d.inodes \subseteq Ino
    BY <1>0, <1>6 DEF SameFiles, SameCounts, Disk
  <2> QED BY <1>6, <2>1, SameDirs
<1>13. Tree(e)
  <2>1. "." \in AnyName /\ ".." \in AnyName /\ "." # nm /\ ".." # nm
    BY Ext2Assumption DEF AnyName
  <2>2. \A b \in Block : Entry(e, b, ".") = Entry(d, b, ".") /\ Entry(e, b, "..") = Entry(d, b, "..")
    BY <1>1, <2>1 DEF Removed
  <2>3. \A j \in Ino : ToSet(d.inode[j].data) \subseteq Block
    BY <1>0, InodeIs
  <2>4. \A b \in Block, n \in Name : Entry(e, b, n) = 0 \/ Entry(e, b, n) = Entry(d, b, n)
    BY <1>7
  <2> QED BY <1>0, <1>6, <2>2, <2>3, <2>4, FewerNames DEF Tree
<1>15. /\ \A j, k \in Ino, n \in Name : Child(e, j, n, k) <=> Child(d, j, n, k) /\ k # i
       /\ Linked(d) => IF d.inode[i].type = "dir" THEN Owed(e, Off(dir, 1)) ELSE Linked(e)
       /\ Reached(d, 0) => Reached(e, i)
  <2>1. Child(d, dir, nm, i)
    BY <1>2 DEF Child
  <2> QED BY <1>1, <1>2, <2>1, RemovedLinks
<1>16. Childless(d, i) => Childless(e, i)
  BY <1>2, <1>15 DEF Childless
<1>17. Linked(d) => i # Root
  BY <1>2, RootIn DEF Linked, Owed, Rooted, Named, Child
<1>14. NameGone(d, e, i, dir)
  BY <1>17, <1>15, <1>16, <1>2, <1>5, <1>6, <1>8, <1>9, <1>10, <1>11, <1>12, <1>13 DEF NameGone, Sound
<1> QED BY <1>1, <1>14 DEF r, i

\* Releasing an inode no name leads to keeps the disk sound.
LEMMA ReleasedSound ==
  ASSUME NEW d, Sound(d), NEW i \in Ino, Nameless(d, i), NEW e, Released(d, e, i)
  PROVE  Sound(e)
<1>1. \A b \in Block, n \in Name : Entry(e, b, n) = 0 \/ Entry(e, b, n) = Entry(d, b, n)
  BY NameIsAny DEF Released
<1>2. Leads(e)
  <2> SUFFICES ASSUME NEW b \in Block, NEW n \in Name, Entry(e, b, n) # 0
               PROVE  Entry(e, b, n) \in e.inodes /\ e.inode[Entry(e, b, n)].type # "none"
    BY DEF Leads
  <2>1. Entry(e, b, n) = Entry(d, b, n) /\ Entry(d, b, n) # i
    BY <1>1 DEF Nameless
  <2>2. Entry(d, b, n) \in d.inodes /\ d.inode[Entry(d, b, n)].type # "none"
    BY <2>1 DEF Sound, Leads
  <2>3. d.inodes \subseteq Ino /\ e.inodes = d.inodes \ {i}
    BY DEF Sound, Disk, Released
  <2>4. \A j \in Ino \ {i} : e.inode[j] = d.inode[j]
    BY DEF Released
  <2> QED BY <2>1, <2>2, <2>3, <2>4
<1>3. Single(e)
  <2>1. Single(d)
    BY DEF Sound
  <2> QED BY <1>1, <2>1 DEF Single
<1>4. Tree(e)
  <2>1. d \in Disk /\ Apart(d) /\ Tree(d) /\ e \in Disk
    BY DEF Sound, Released
  <2>2. ASSUME NEW j \in Ino, e.inode[j].type = "dir"
        PROVE  /\ d.inode[j].type = "dir" /\ e.inode[j].data = d.inode[j].data
               /\ \A b \in ToSet(d.inode[j].data), n \in AnyName : Entry(e, b, n) = Entry(d, b, n)
    <3>1. j # i /\ e.inode[j] = d.inode[j]
      BY <2>2, FreshIsInode DEF Released
    <3>2. ToSet(d.inode[j].data) \subseteq Own(d, j) /\ Own(d, j) \subseteq Block
      BY <2>1, InodeIs
    <3>3. Own(d, j) \cap Own(d, i) = {}
      BY <2>1, <3>1 DEF Apart
    <3> QED BY <2>2, <3>1, <3>2, <3>3 DEF Released
  <2>3. "." \in AnyName /\ ".." \in AnyName
    BY DEF AnyName
  <2> QED BY <1>1, <2>1, <2>2, <2>3, FewerNames DEF Tree
<1> QED BY <1>2, <1>3, <1>4 DEF Sound, Released

\* With its blocks, the names in a directory go; an empty one has none.
LEMMA ReleasedLinks ==
  ASSUME NEW d, Sound(d), NEW i \in Ino, i # Root, Nameless(d, i), Childless(d, i),
         NEW e, Released(d, e, i)
  PROVE  /\ \A off : Owed(d, off) => Owed(e, off)
         /\ Reached(d, i) => Reached(e, 0)
<1>0. d \in Disk /\ Apart(d) /\ d.inodes \subseteq Ino
  BY DEF Sound, Disk
<1>1. /\ e.inode[i].type = "none" /\ e.inodes = d.inodes \ {i} /\ e.blocks = d.blocks \ Own(d, i)
      /\ \A j \in Ino \ {i} : e.inode[j] = d.inode[j]
  BY FreshIsInode DEF Released
<1>2. \A j \in Ino : ToSet(d.inode[j].data) \subseteq Block /\ ToSet(d.inode[j].data) \subseteq Own(d, j)
  BY <1>0, InodeIs
<1>3. SameNames(d, e)
  <2> SUFFICES ASSUME NEW j \in Ino, NEW k \in Ino, NEW n \in Name
               PROVE  Child(e, j, n, k) <=> Child(d, j, n, k)
    BY DEF SameNames
  <2>1. CASE j = i
    BY <1>1, <2>1 DEF Childless, Child
  <2>2. CASE j # i
    <3>1. \A b \in ToSet(d.inode[j].data) : b \in Block /\ b \notin Own(d, i)
      BY <1>0, <1>2, <2>2 DEF Apart
    <3>2. \A b \in ToSet(d.inode[j].data) : Entry(e, b, n) = Entry(d, b, n)
      BY <3>1, NameIsAny DEF Released
    <3> QED BY <1>1, <2>2, <3>2 DEF Child
  <2> QED BY <2>1, <2>2
<1>4. \A j \in Ino, n \in Name : ~Child(d, j, n, i)
  BY <1>2 DEF Child, Nameless
<1>5. \A j \in Ino : Kids(e, j) = Kids(d, j)
  BY <1>1, <1>3, <1>4 DEF SameNames, Kids
<1>6. ASSUME NEW off, Owed(d, off) PROVE Owed(e, off)
  <2>1. Rooted(e)
    BY <1>1, <1>3, <1>6, RootIn DEF Owed, Rooted, Named, SameNames
  <2> QED BY <1>1, <1>5, <1>6, <2>1 DEF Owed
<1>7. ASSUME Reached(d, i) PROVE Reached(e, 0)
  <2>1. \A j \in Ino : Named(d, j) => Named(e, j)
    BY <1>3 DEF Named, SameNames
  <2>2. \A j \in e.inodes \ {0} : e.inode[j].type # "none" /\ (j = Root \/ Named(e, j))
    BY <1>0, <1>1, <1>7, <2>1 DEF Reached
  <2>3. ASSUME NEW b \in e.blocks PROVE \E j \in Ino : b \in Own(e, j)
    <3>1. PICK j \in Ino : b \in Own(d, j)
      BY <1>1, <1>7, <2>3 DEF Reached
    <3>2. e.inode[j] = d.inode[j]
      BY <1>1, <2>3, <3>1
    <3> QED BY <3>1, <3>2 DEF Own, all_blocks
  <2> QED BY <2>2, <2>3 DEF Reached
<1> QED BY <1>6, <1>7

\* An inode that no name leads to is released, or one link is taken off.
Dropped(d, e, i) ==
  /\ Sound(e) /\ (DirsCounted(d) => DirsCounted(e))
  /\ \A j \in Ino \ {i} : /\ e.inode[j].type = d.inode[j].type
                          /\ e.inode[j].data = d.inode[j].data
                          /\ e.inode[j].ind = d.inode[j].ind
  /\ \A b \in Block, n \in Name :
       b \notin ToSet(d.inode[i].data) => Entry(e, b, n) = Entry(d, b, n)
  /\ \A off : Owed(d, off) => Owed(e, off) /\ (Reached(d, i) => Reached(e, 0))

\* An inode without name and children goes without a trace.
LEMMA ReleaseDrops ==
  ASSUME NEW d, Sound(d), NEW i \in Ino, i \in d.inodes, Nameless(d, i), Childless(d, i),
         i # Root
  PROVE  Dropped(d, release_inode(d, i), i)
<1> DEFINE e == release_inode(d, i)
<1>0. d \in Disk /\ Apart(d)
  BY DEF Sound
<1>1. Released(d, e, i)
  BY ReleaseInode DEF Sound
<1> HIDE DEF e
<1>2. Sound(e)
  BY <1>1, ReleasedSound
<1>3. \A j \in Ino \ {i} : e.inode[j] = d.inode[j]
  BY <1>1 DEF Released
<1>4. ASSUME NEW b \in Block, NEW n \in Name, b \notin ToSet(d.inode[i].data)
      PROVE  Entry(e, b, n) = Entry(d, b, n)
  <2>1. Entry(e, b, n) = IF b \in Own(d, i) THEN 0 ELSE Entry(d, b, n)
    BY <1>1, NameIsAny DEF Released
  <2>2. b \in Own(d, i) => ~Live(d, b)
    BY <1>0, <1>4, LiveOwner
  <2> QED BY <2>1, <2>2 DEF Entry
<1>5. DirsCounted(d) => DirsCounted(e)
  BY <1>1 DEF Released
<1>6. \A off : Owed(d, off) => Owed(e, off) /\ (Reached(d, i) => Reached(e, 0))
  BY <1>1, ReleasedLinks
<1> QED BY <1>2, <1>3, <1>4, <1>5, <1>6 DEF Dropped, e

\* So does a file at its last link.
LEMMA DropLinkIs ==
  ASSUME NEW d, Sound(d), NEW i \in Ino, i \in d.inodes, Nameless(d, i),
         d.inode[i].type \in {"file", "symlink"}, i # Root
  PROVE  Dropped(d, DropLink(d, i), i)
<1>1. CASE d.inode[i].links <= 1
  <2>1. Childless(d, i)
    BY DEF Childless, Child
  <2> QED BY <1>1, <2>1, ReleaseDrops DEF DropLink
<1>2. CASE ~(d.inode[i].links <= 1)
  <2>1. PICK m \in Int : m = -1
    OBVIOUS
  <2>2. DropLink(d, i) = AddLinks(d, i, m)
    BY <1>2, <2>1 DEF DropLink
  <2>3. d \in Disk
    BY DEF Sound
  <2>4. \A off : ~Owed(d, off)
    BY <1>2 DEF Owed
  <2> QED BY <2>1, <2>2, <2>3, <2>4, AddLinksIs DEF Dropped
<1> QED BY <1>1, <1>2

\* An operation that throws leaves the disk as it was.
Atomic(d, r) ==
  /\ r.err = "none" => Fit(r.disk) /\ (Whole(d) => Whole(r.disk))
  /\ r.err # "none" => r.disk = d

\* rm! keeps a disk fit, and leaves it alone on a throw.
LEMMA RmIs ==
  ASSUME NEW d, Fit(d), NEW path \in Paths
  PROVE  Atomic(d, Rm(d, path))
<1> DEFINE r == Rm(d, path)
           r1 == parent_and_name(d, path)
           p == r1.val
           nm == Last(path)
           i == lookup(r1.disk, p, nm)
           r2 == remove_entry(r1.disk, p, nm)
           g == DropLink(r2.disk, i)
<1>0. d \in Disk /\ Sound(d) /\ Linked(d)
  BY DEF Fit, Sound
<1>1. r = IF r1.err = "none"
          THEN IF i = 0 THEN Throw(r1.disk, "not-found")
               ELSE IF r1.disk.inode[i].type = "dir" THEN Throw(r1.disk, "is-a-directory")
               ELSE IF r2.err = "none" THEN Ok(g, 0) ELSE r2
          ELSE r1
  BY Zenon DEF Rm, Then
<1>2. /\ r1.disk = d
      /\ r1.err = "none" => p \in Ino /\ d.inode[p].type = "dir" /\ nm \in Name
  BY <1>0, ParentAndName
<1> HIDE DEF r1, r, r2, g
<1> SUFFICES Atomic(d, r)
  BY DEF r
<1>3. CASE r1.err # "none"
  <2>1. r = r1
    BY <1>1, <1>3
  <2> QED BY <1>2, <1>3, <2>1 DEF Atomic
<1>4. CASE r1.err = "none" /\ (i = 0 \/ r1.disk.inode[i].type = "dir")
  <2>1. r.err # "none" /\ r.disk = d
    BY <1>1, <1>2, <1>4 DEF Throw
  <2> QED BY <2>1 DEF Atomic
<1>5. CASE r1.err = "none" /\ i # 0 /\ r1.disk.inode[i].type # "dir"
  <2>0. p \in Ino /\ d.inode[p].type = "dir" /\ nm \in Name /\ i = lookup(d, p, nm)
    BY <1>2, <1>5
  <2>1. r2.err = "none" /\ NameGone(d, r2.disk, lookup(d, p, nm), p)
    BY <1>0, <1>2, <1>5, <2>0, RemoveName DEF r2
  <2>2. r.err = "none" /\ r.disk = g
    BY <1>1, <1>5, <2>1 DEF Ok
  <2>3. NameGone(d, r2.disk, i, p)
    BY <2>0, <2>1
  <2> HIDE DEF i
  <2>4. r2.disk.inode[i].type \in {"file", "symlink"}
    <3>1. d.inode[i] \in Inode /\ d.inode[i].type # "none" /\ r2.disk.inode = d.inode
      BY <1>0, <2>3, InodeIs DEF NameGone
    <3>2. d.inode[i].type # "dir"
      BY <1>2, <1>5
    <3> QED BY <3>1, <3>2 DEF Inode
  <2>5. Dropped(r2.disk, g, i)
    BY <1>0, <2>3, <2>4, DropLinkIs DEF NameGone, g
  <2>6. Linked(r2.disk) /\ (Reached(d, 0) => Reached(r2.disk, i))
    BY <1>0, <1>2, <1>5, <2>3 DEF NameGone
  <2>7. Linked(g) /\ (Reached(d, 0) => Reached(g, 0))
    BY <2>5, <2>6 DEF Linked, Dropped
  <2>8. Sound(g) /\ (DirsCounted(d) => DirsCounted(g))
    BY <2>3, <2>5 DEF NameGone, Dropped
  <2> QED BY <2>2, <2>7, <2>8 DEF Atomic, Fit, Whole
<1> QED BY <1>3, <1>4, <1>5

\* rmdir! keeps a disk fit, and leaves it alone on a throw.
LEMMA RmdirIs ==
  ASSUME NEW d, Fit(d), NEW path \in Paths
  PROVE  Atomic(d, Rmdir(d, path))
<1> DEFINE r == Rmdir(d, path)
           r1 == parent_and_name(d, path)
           p == r1.val
           nm == Last(path)
           i == lookup(r1.disk, p, nm)
           r2 == remove_entry(r1.disk, p, nm)
           f == release_inode(r2.disk, i)
           g == AddLinks(f, p, -1)
<1>0. d \in Disk /\ Sound(d) /\ Linked(d)
  BY DEF Fit, Sound
<1>1. r = IF r1.err = "none"
          THEN IF i = 0 THEN Throw(r1.disk, "not-found")
               ELSE IF r1.disk.inode[i].type # "dir" THEN Throw(r1.disk, "not-a-directory")
               ELSE IF ~IsEmptyDir(r1.disk, i) THEN Throw(r1.disk, "not-empty")
               ELSE IF r2.err = "none" THEN Ok(g, 0) ELSE r2
          ELSE r1
  BY Zenon DEF Rmdir, Then
<1>2. /\ r1.disk = d
      /\ r1.err = "none" => p \in Ino /\ d.inode[p].type = "dir" /\ nm \in Name
  BY <1>0, ParentAndName
<1> HIDE DEF r1, r, r2, f, g
<1> SUFFICES Atomic(d, r)
  BY DEF r
<1>3. CASE r1.err # "none"
  <2>1. r = r1
    BY <1>1, <1>3
  <2> QED BY <1>2, <1>3, <2>1 DEF Atomic
<1>4. CASE r1.err = "none" /\ (i = 0 \/ r1.disk.inode[i].type # "dir" \/ ~IsEmptyDir(r1.disk, i))
  <2>1. r.err # "none" /\ r.disk = d
    BY <1>1, <1>2, <1>4 DEF Throw
  <2> QED BY <2>1 DEF Atomic
<1>5. CASE r1.err = "none" /\ ~(i = 0 \/ r1.disk.inode[i].type # "dir" \/ ~IsEmptyDir(r1.disk, i))
  <2>0. p \in Ino /\ d.inode[p].type = "dir" /\ nm \in Name /\ i = lookup(d, p, nm) /\ i # 0
    BY <1>2, <1>5
  <2>1. r2.err = "none" /\ NameGone(d, r2.disk, lookup(d, p, nm), p)
    BY <1>0, <1>2, <2>0, RemoveName DEF r2
  <2>2. r.err = "none" /\ r.disk = g
    BY <1>1, <1>5, <2>1 DEF Ok
  <2>3. NameGone(d, r2.disk, i, p)
    BY <2>0, <2>1
  <2> HIDE DEF i
  <2>4. Dropped(r2.disk, f, i)
    <3>1. i \in Ino /\ IsEmptyDir(d, i)
      BY <1>2, <1>5, <2>3 DEF NameGone
    <3>2. Childless(r2.disk, i)
      BY <1>0, <2>3, <3>1, EmptyChildless DEF NameGone
    <3> QED BY <1>0, <2>3, <3>2, ReleaseDrops DEF NameGone, f
  <2>5. PICK m \in Int : m = -1
    OBVIOUS
  <2>6. g = AddLinks(f, p, m)
    BY <2>5 DEF g
  <2>7. f \in Disk /\ Sound(f) /\ (DirsCounted(d) => DirsCounted(f))
    BY <2>3, <2>4 DEF Dropped, NameGone, Sound
  <2>8. d.inode[i].type = "dir" /\ p # i
    BY <1>2, <1>5, <2>0 DEF IsEmptyDir
  <2>9. f.inode[p].type = "dir"
    BY <2>0, <2>3, <2>4, <2>8 DEF Dropped, NameGone
  <2>10. Owed(r2.disk, Off(p, 1)) /\ (Reached(d, 0) => Reached(r2.disk, i))
    BY <1>0, <2>3, <2>8 DEF NameGone
  <2>11. Owed(f, Off(p, 1)) /\ (Reached(d, 0) => Reached(f, 0))
    BY <2>4, <2>10 DEF Dropped
  <2>12. Off(p, 1) \in [Ino -> Int] /\ \A j \in Ino : [Off(p, 1) EXCEPT ![p] = @ + m][j] = 0
    BY <2>0, <2>5 DEF Off
  <2>13. /\ Sound(g) /\ (DirsCounted(d) => DirsCounted(g))
         /\ Owed(g, [Off(p, 1) EXCEPT ![p] = @ + m]) /\ (Reached(f, 0) => Reached(g, 0))
    BY <2>0, <2>6, <2>7, <2>9, <2>11, <2>12, AddLinksIs
  <2>14. Linked(g)
    BY <2>12, <2>13, OwedNone
  <2> QED BY <2>2, <2>11, <2>13, <2>14 DEF Atomic, Fit, Whole
<1> QED BY <1>3, <1>4, <1>5

-----------------------------------------------------------------------------
\* mv!

\* g is a sound disk on which p1 still has i under the name n1, and p2 is
\* still a directory and has nothing under the name n2.
Ready(d, g, p1, n1, p2, n2, i) ==
  /\ Sound(g) /\ (DirsCounted(d) => DirsCounted(g))
  /\ g.inode[p1].type = "dir" /\ g.inode[p2].type = "dir"
  /\ g.inode[p2].ind = d.inode[p2].ind
  /\ \E b \in ToSet(g.inode[p1].data) : Entry(g, b, n1) = i
  /\ \A b \in ToSet(g.inode[p2].data) : Entry(g, b, n2) = 0

\* What mv! replaces is gone before the entry is moved; on a throw, all is as
\* before.
LEMMA ReplaceIs ==
  ASSUME NEW d, Fit(d), NEW p1 \in Ino, d.inode[p1].type = "dir", NEW n1 \in Name,
         NEW p2 \in Ino, d.inode[p2].type = "dir", NEW n2 \in Name,
         NEW i, i = lookup(d, p1, n1), i # 0, lookup(d, p2, n2) # i
  PROVE  LET r == Replace(d, p2, n2, i) IN
         /\ r.err # "none" => r.disk = d
         /\ r.err = "none" => /\ Ready(d, r.disk, p1, n1, p2, n2, i) /\ Linked(r.disk)
                              /\ Reached(d, 0) => Reached(r.disk, 0)
<1> DEFINE r == Replace(d, p2, n2, i)
           old == lookup(d, p2, n2)
           isDir == d.inode[i].type = "dir"
           oldDir == d.inode[old].type = "dir"
           r2 == remove_entry(d, p2, n2)
           e == r2.disk
           g == IF isDir THEN AddLinks(release_inode(e, old), p2, -1) ELSE DropLink(e, old)
<1>0. d \in Disk /\ Sound(d) /\ Linked(d) /\ Apart(d) /\ n1 \in AnyName /\ n2 \in AnyName
  BY NameIsAny DEF Fit, Sound
<1>1. r = IF old = 0 THEN Ok(d, 0)
          ELSE IF isDir /\ ~oldDir THEN Throw(d, "not-a-directory")
          ELSE IF ~isDir /\ oldDir THEN Throw(d, "is-a-directory")
          ELSE IF isDir /\ ~IsEmptyDir(d, old) THEN Throw(d, "not-empty")
          ELSE IF r2.err = "none" THEN Ok(g, 0) ELSE r2
  BY Zenon DEF Replace, Then
<1>2. PICK b \in ToSet(d.inode[p1].data) : Entry(d, b, n1) = i
  BY <1>0, LookupIs
<1>3. ToSet(d.inode[p1].data) \subseteq Own(d, p1) /\ ToSet(d.inode[p2].data) \subseteq Own(d, p2)
  BY <1>0, InodeIs
<1>4. b \in Block /\ b \in Own(d, p1)
  <2>1. Own(d, p1) \subseteq Block
    BY <1>0, InodeIs
  <2> QED BY <1>3, <2>1
<1> HIDE DEF r, g, r2
<1> SUFFICES /\ r.err # "none" => r.disk = d
             /\ r.err = "none" => /\ Ready(d, r.disk, p1, n1, p2, n2, i) /\ Linked(r.disk)
                                  /\ Reached(d, 0) => Reached(r.disk, 0)
  BY DEF r
<1>5. CASE old = 0
  <2>1. r.err = "none" /\ r.disk = d
    BY <1>1, <1>5 DEF Ok
  <2>2. \A c \in ToSet(d.inode[p2].data) : Entry(d, c, n2) = 0
    <3>1. lookup(d, p2, n2) \notin Ino
      BY <1>5, Constants DEF Ino
    <3> QED BY <1>0, <3>1, LookupIs
  <2> QED BY <1>0, <1>2, <2>1, <2>2 DEF Ready
<1>6. CASE old # 0 /\ ((isDir /\ ~oldDir) \/ (~isDir /\ oldDir) \/ (isDir /\ ~IsEmptyDir(d, old)))
  <2>1. r.err # "none" /\ r.disk = d
    BY <1>1, <1>6 DEF Throw
  <2> QED BY <2>1
<1>7. CASE old # 0 /\ ~((isDir /\ ~oldDir) \/ (~isDir /\ oldDir) \/ (isDir /\ ~IsEmptyDir(d, old)))
  <2>1. r2.err = "none" /\ NameGone(d, e, old, p2) /\ Removed(d, e, p2, n2)
    BY <1>0, <1>7, RemoveName DEF r2
  <2>2. r.err = "none" /\ r.disk = g
    <3> HIDE DEF old, isDir, oldDir
    <3>1. r = IF r2.err = "none" THEN Ok(g, 0) ELSE r2
      BY <1>1, <1>7
    <3> QED BY <2>1, <3>1 DEF Ok
  <2>3. old # p1 /\ old # p2
    <3>1. lookup(d, p1, n1) # 0 /\ lookup(d, p2, n2) # 0
      BY <1>7
    <3>2. (\A n \in Name : lookup(d, old, n) = 0) \/ ~oldDir
      <4> HIDE DEF old, isDir, oldDir
      <4> QED BY <1>7 DEF IsEmptyDir
    <3> HIDE DEF old
    <3> QED BY <3>1, <3>2
  <2>4. Entry(e, b, n1) = i
    <3>1. ~(b \in ToSet(d.inode[p2].data) /\ n1 = n2)
      <4>1. b \in ToSet(d.inode[p2].data) => p1 = p2
        BY <1>0, <1>3, <1>4 DEF Apart
      <4> QED BY <4>1
    <3> QED BY <1>0, <1>2, <1>4, <2>1, <3>1 DEF Removed
  <2>k. (isDir => oldDir /\ IsEmptyDir(d, old)) /\ (~isDir => ~oldDir)
    <3> HIDE DEF old, isDir, oldDir
    <3> QED BY <1>7
  <2> HIDE DEF old
  <2>5. Sound(e) /\ Nameless(e, old) /\ old \in Ino /\ old \in e.inodes /\ e.inode = d.inode
        /\ (Reached(d, 0) => Reached(e, old)) /\ d.inode[old].type # "none" /\ old # Root
        /\ IF oldDir THEN Owed(e, Off(p2, 1)) ELSE Linked(e)
    BY <1>0, <2>1 DEF NameGone
  <2>6. b \notin ToSet(e.inode[old].data)
    <3>1. ToSet(d.inode[old].data) \subseteq Own(d, old)
      BY <1>0, <2>5, InodeIs
    <3>2. Own(d, old) \cap Own(d, p1) = {}
      BY <1>0, <2>3, <2>5 DEF Apart
    <3> QED BY <1>4, <2>5, <3>1, <3>2
  <2>7. ASSUME NEW f, Dropped(e, f, old)
        PROVE  Ready(d, f, p1, n1, p2, n2, i)
    <3>1. /\ f.inode[p1].type = d.inode[p1].type /\ f.inode[p1].data = d.inode[p1].data
          /\ f.inode[p2].type = d.inode[p2].type /\ f.inode[p2].ind = d.inode[p2].ind
          /\ f.inode[p2].data = d.inode[p2].data
      BY <2>3, <2>5, <2>7 DEF Dropped
    <3>2. Entry(f, b, n1) = i
      BY <1>4, <2>4, <2>6, <2>7 DEF Dropped
    <3>3. Sound(f) /\ (DirsCounted(d) => DirsCounted(f))
      BY <2>1, <2>7 DEF Dropped, NameGone
    <3>4. \A c \in ToSet(d.inode[p2].data) : Entry(f, c, n2) = 0
      <4>1. /\ ToSet(d.inode[old].data) \subseteq Own(d, old) /\ Own(d, p2) \subseteq Block
            /\ Own(d, old) \cap Own(d, p2) = {}
        BY <1>0, <2>3, <2>5, InodeIs DEF Apart
      <4>2. \A c \in ToSet(d.inode[p2].data) : Entry(e, c, n2) = 0
        BY <1>0, <1>3, <2>1, <4>1 DEF Removed
      <4> QED BY <1>3, <2>5, <2>7, <4>1, <4>2 DEF Dropped
    <3> QED BY <3>1, <3>2, <3>3, <3>4 DEF Ready
  <2>8. CASE isDir
    <3> DEFINE f == release_inode(e, old)
    <3>d. Dropped(e, f, old)
      <4>1. Childless(e, old)
        BY <1>0, <2>1, <2>5, <2>8, <2>k, EmptyChildless DEF NameGone
      <4> QED BY <2>5, <4>1, ReleaseDrops
    <3>1. Ready(d, f, p1, n1, p2, n2, i)
      BY <2>7, <3>d
    <3> HIDE DEF f
    <3>2. PICK m \in Int : m = -1
      OBVIOUS
    <3>3. g = AddLinks(f, p2, m)
      BY <2>8, <3>2 DEF g, f
    <3>4. f \in Disk
      BY <3>1 DEF Ready, Sound
    <3>o. Owed(f, Off(p2, 1)) /\ (Reached(d, 0) => Reached(f, 0))
      BY <2>5, <2>8, <2>k, <3>d DEF Dropped
    <3>z. /\ Off(p2, 1) \in [Ino -> Int] /\ f.inode[p2].type = "dir"
          /\ \A j \in Ino : [Off(p2, 1) EXCEPT ![p2] = @ + m][j] = 0
      BY <3>1, <3>2 DEF Off, Ready
    <3>5. /\ Sound(g) /\ (DirsCounted(f) => DirsCounted(g))
          /\ \A j \in Ino : /\ g.inode[j].type = f.inode[j].type
                            /\ g.inode[j].data = f.inode[j].data
                            /\ g.inode[j].ind = f.inode[j].ind
          /\ \A c \in Block, n \in Name : Entry(g, c, n) = Entry(f, c, n)
      <4>1. Sound(f)
        BY <3>1 DEF Ready
      <4> QED BY <3>3, <3>4, <4>1, AddLinksIs
    <3>l. Linked(g) /\ (Reached(f, 0) => Reached(g, 0))
      <4>1. /\ Owed(g, [Off(p2, 1) EXCEPT ![p2] = @ + m])
            /\ Reached(f, 0) => Reached(g, 0)
        BY <3>3, <3>4, <3>o, <3>z, AddLinksIs
      <4> QED BY <3>z, <4>1, OwedNone
    <3>6. \E c \in ToSet(g.inode[p1].data) : Entry(g, c, n1) = i
      <4>1. PICK c \in ToSet(f.inode[p1].data) : Entry(f, c, n1) = i
        BY <3>1 DEF Ready
      <4>2. ToSet(f.inode[p1].data) \subseteq Block
        BY <3>4, InodeIs
      <4>3. Entry(g, c, n1) = i /\ g.inode[p1].data = f.inode[p1].data
        BY <3>5, <4>1, <4>2
      <4> QED BY <4>1, <4>3
    <3>7. \A c \in ToSet(g.inode[p2].data) : Entry(g, c, n2) = 0
      <4>1. ToSet(f.inode[p2].data) \subseteq Block
        BY <3>4, InodeIs
      <4> QED BY <3>1, <3>5, <4>1 DEF Ready
    <3> QED BY <2>2, <3>1, <3>5, <3>6, <3>7, <3>l, <3>o DEF Ready
  <2>9. CASE ~isDir
    <3>1. g = DropLink(e, old)
      BY <2>9 DEF g
    <3>2. Dropped(e, g, old)
      <4>1. d.inode[old] \in Inode /\ d.inode[old].type # "dir"
        BY <1>0, <2>5, <2>9, <2>k, InodeIs
      <4>2. e.inode[old].type \in {"file", "symlink"}
        BY <2>5, <4>1 DEF Inode
      <4> QED BY <2>5, <3>1, <4>2, DropLinkIs
    <3>3. Linked(e)
      BY <2>5, <2>9, <2>k
    <3>4. Linked(g) /\ (Reached(d, 0) => Reached(g, 0))
      BY <2>5, <3>2, <3>3 DEF Dropped, Linked
    <3> QED BY <2>2, <2>7, <3>2, <3>4
  <2> QED BY <2>8, <2>9
<1> QED BY <1>5, <1>6, <1>7

\* A sound disk, but for the .. of directory i, all of whose names are in p.
Astray(d, i, p) ==
  /\ d \in Disk /\ BlocksCounted(d) /\ InodesCounted(d)
  /\ Fresh(d) /\ Apart(d) /\ Leads(d) /\ Single(d) /\ Dots(d) /\ Once(d)
  /\ \A j, k \in Ino, n \in Name :
       Child(d, j, n, k) /\ d.inode[k].type = "dir" => IF k = i THEN j = p ELSE Parent(d, k) = j

\* A moved directory whose .. leads to the old parent is set right.
LEMMA SetDotdotIs ==
  ASSUME NEW d, NEW i \in Ino, NEW p \in Ino, Astray(d, i, p), d.inode[i].type = "dir"
  PROVE  LET e == set_dotdot(d, i, p) IN
         /\ e \in Disk /\ Sound(e)
         /\ DirsCounted(d) => DirsCounted(e)
         /\ e.inode = d.inode
         /\ \A off : Owed(d, off) => Owed(e, off)
         /\ Reached(d, 0) => Reached(e, 0)
<1> DEFINE c == d.inode[i].data[1]
           E == [d.entries EXCEPT ![c] = [@ EXCEPT ![".."] = p]]
           e == set_dotdot(d, i, p)
<1>0. /\ d \in Disk /\ BlocksCounted(d) /\ InodesCounted(d)
      /\ Fresh(d) /\ Apart(d) /\ Leads(d) /\ Single(d) /\ Dots(d) /\ Once(d)
  BY DEF Astray
<1>1. e = [d EXCEPT !.entries = E]
  BY <1>0 DEF set_dotdot, Disk
<1>2. c = First(d, i) /\ c \in Block /\ c \in ToSet(d.inode[i].data)
  <2>1. d.inode[i].data # <<>>
    BY <1>0 DEF Dots
  <2> QED BY <1>0, <2>1, FirstIn DEF First
<1> HIDE DEF e, c
<1>3. d.entries \in [Block -> [AnyName -> 0 .. NInodes]]
  BY <1>0 DEF Disk
<1>4. ".." \in AnyName /\ "." \in AnyName /\ "." # ".." /\ \A n \in Name : n \in AnyName /\ n # ".."
  BY Ext2Assumption DEF AnyName
<1>5. /\ E \in [Block -> [AnyName -> 0 .. NInodes]]
      /\ \A b \in Block, n \in AnyName : E[b][n] = IF b = c /\ n = ".." THEN p ELSE d.entries[b][n]
  <2>1. d.entries[c] \in [AnyName -> 0 .. NInodes] /\ p \in 0 .. NInodes
    BY <1>2, <1>3, Constants DEF Ino
  <2> DEFINE x == [d.entries[c] EXCEPT ![".."] = p]
  <2>2. /\ x \in [AnyName -> 0 .. NInodes]
        /\ \A n \in AnyName : x[n] = IF n = ".." THEN p ELSE d.entries[c][n]
    BY <1>4, <2>1
  <2>3. E = [d.entries EXCEPT ![c] = x]
    OBVIOUS
  <2> HIDE DEF x
  <2> QED BY <1>2, <1>3, <2>2, <2>3
<1> HIDE DEF E
<1>6. /\ e \in Disk /\ SameCounts(d, e) /\ SameFiles(d, e) /\ e.blocks = d.blocks /\ e.entries = E
      /\ e.inode = d.inode /\ BlocksCounted(e)
  BY <1>0, <1>1, <1>5, WithEntries
<1>7. ASSUME NEW b \in Block, NEW n \in AnyName
      PROVE  Entry(e, b, n) = IF b = c /\ n = ".." THEN p ELSE Entry(d, b, n)
  <2>1. Live(e, b) <=> Live(d, b)
    BY <1>6 DEF Live
  <2>2. Live(d, c)
    BY <1>2 DEF Live
  <2> QED BY <1>5, <1>6, <2>1, <2>2 DEF Entry
<1>8. \A b \in Block, n \in Name : Entry(e, b, n) = Entry(d, b, n)
  BY <1>4, <1>7
<1>9. Apart(e)
  <2>1. \A j \in Ino : Own(d, j) \subseteq e.blocks
    BY <1>0, <1>6 DEF Apart
  <2> QED BY <1>0, <1>6, <2>1, StaysApart
<1>10. InodesCounted(e) /\ Fresh(e)
  BY <1>0, <1>6 DEF InodesCounted, Fresh, SameFiles
<1>11. Leads(e) /\ Single(e)
  <2>1. Leads(e)
    BY <1>0, <1>6, <1>8 DEF Leads, SameFiles
  <2> QED BY <1>0, <1>8, <2>1 DEF Single
<1>12. \A j \in Ino : ToSet(d.inode[j].data) \subseteq Block
  BY <1>0, InodeIs
<1>13. ASSUME NEW j \in Ino, d.inode[j].type = "dir"
       PROVE  /\ First(e, j) = First(d, j) /\ First(d, j) \in ToSet(d.inode[j].data)
              /\ c \in ToSet(d.inode[j].data) => j = i
              /\ d.inode[j].data # <<>>
  <2>1. d.inode[j].data # <<>>
    BY <1>0, <1>13 DEF Dots
  <2>2. First(e, j) = First(d, j) /\ First(d, j) \in ToSet(d.inode[j].data)
    BY <1>0, <1>6, <2>1, FirstIn DEF First
  <2>3. c \in ToSet(d.inode[j].data) => c \in Own(d, j) /\ c \in Own(d, i)
    BY <1>0, <1>2, InodeIs
  <2> QED BY <1>0, <2>1, <2>2, <2>3 DEF Apart
<1>14. Dots(e)
  <2> SUFFICES ASSUME NEW j \in Ino, d.inode[j].type = "dir"
               PROVE  /\ e.inode[j].data # <<>> /\ Entry(e, First(e, j), ".") = j
                      /\ \A b \in ToSet(e.inode[j].data) \ {First(e, j)} :
                           Entry(e, b, ".") = 0 /\ Entry(e, b, "..") = 0
    BY <1>6 DEF Dots
  <2>1. Entry(e, First(e, j), ".") = j
    BY <1>0, <1>4, <1>7, <1>12, <1>13 DEF Dots
  <2>2. ASSUME NEW b \in ToSet(d.inode[j].data) \ {First(d, j)}
        PROVE  Entry(e, b, ".") = 0 /\ Entry(e, b, "..") = 0
    <3>1. b \in Block /\ b # c
      BY <1>2, <1>12, <1>13
    <3> QED BY <1>0, <1>4, <1>7, <3>1 DEF Dots
  <2> QED BY <1>6, <1>13, <2>1, <2>2
<1>15. Once(e)
  BY <1>0, <1>6, <1>8, <1>12 DEF Once
<1>16. Back(e)
  <2> SUFFICES ASSUME NEW j \in Ino, NEW k \in Ino, NEW n \in Name, Child(e, j, n, k),
                      e.inode[k].type = "dir"
               PROVE  Parent(e, k) = j
    BY DEF Back
  <2>1. Child(d, j, n, k)
    BY <1>6, <1>8, <1>12 DEF Child
  <2>2. IF k = i THEN j = p ELSE Parent(d, k) = j
    BY <1>6, <2>1 DEF Astray
  <2>3. First(e, k) = First(d, k) /\ First(d, k) \in Block
    BY <1>6, <1>12, <1>13
  <2>4. CASE k = i
    BY <1>2, <1>4, <1>7, <2>2, <2>3, <2>4 DEF Parent
  <2>5. CASE k # i
    <3>1. First(d, k) # c
      BY <1>6, <1>13, <2>5
    <3> QED BY <1>4, <1>7, <2>2, <2>3, <2>5, <3>1 DEF Parent
  <2> QED BY <2>4, <2>5
<1>17. DirsCounted(d) => DirsCounted(e)
  BY <1>0, <1>6, SameDirs DEF Disk
<1>18. Sound(e)
  BY <1>6, <1>9, <1>10, <1>11, <1>14, <1>15, <1>16 DEF Sound, Tree
<1>19. SameNames(d, e)
  BY <1>0, <1>6, <1>8, SameNamesIs
<1>20. \A off : Owed(d, off) => Owed(e, off)
  BY <1>6, <1>19, SameLinks
<1>21. Reached(d, 0) => Reached(e, 0)
  <2>1. d.inodes \subseteq Ino /\ e.inodes = d.inodes /\ \A j \in Ino : Own(e, j) = Own(d, j)
    BY <1>0, <1>6 DEF Disk, SameFiles, Own, all_blocks
  <2> QED BY <1>6, <1>19, <2>1, SameReached
<1> QED BY <1>6, <1>17, <1>18, <1>20, <1>21 DEF e

\* A directory moved from p1 to p2, and the link counts are still the old ones.
Shift(p1, p2) == [j \in Ino |-> IF j = p1 THEN 1 ELSE IF j = p2 THEN -1 ELSE 0]

\* After the entry was moved, only the two parents' link counts are off by one.
LEMMA MovedLinks ==
  ASSUME NEW d, Sound(d), NEW p1 \in Ino, d.inode[p1].type = "dir", NEW n1 \in Name,
         NEW p2 \in Ino, d.inode[p2].type = "dir", NEW n2 \in Name, NEW i \in Ino,
         Child(d, p1, n1, i),
         \A b \in ToSet(d.inode[p2].data) : Entry(d, b, n2) = 0,
         NEW e, NEW c \in Block, Added(d, e, p2, n2, i, c),
         NEW f, Removed(e, f, p1, n1)
  PROVE  /\ Linked(d) => IF d.inode[i].type = "dir" /\ p1 # p2
                          THEN Owed(f, Shift(p1, p2)) ELSE Linked(f)
         /\ Reached(d, 0) => Reached(f, 0)
<1>0. d \in Disk /\ Apart(d) /\ Dots(d) /\ Once(d) /\ Single(d) /\ d.inodes \subseteq Ino
  BY DEF Sound, Tree, Disk
<1>1. e \in Disk /\ Apart(e) /\ e.inodes = d.inodes
  BY DEF Added, SameCounts
<1>2. f.inode = e.inode /\ f.inodes = d.inodes /\ f.blocks = e.blocks
  BY <1>1 DEF Removed, SameFiles
<1>3. \A j \in Ino : f.inode[j].type = d.inode[j].type /\ f.inode[j].links = d.inode[j].links
  BY <1>2 DEF Added
<1>4. \A j, k \in Ino, n \in Name :
        Child(e, j, n, k) <=> Child(d, j, n, k) \/ (j = p2 /\ n = n2 /\ k = i)
  BY <1>0, AddedTree
<1>5. \A j, k \in Ino, n \in Name : Child(f, j, n, k) <=> Child(e, j, n, k) /\ ~(j = p1 /\ n = n1)
  <2> SUFFICES ASSUME NEW j \in Ino, NEW k \in Ino, NEW n \in Name, NEW b \in ToSet(e.inode[j].data)
               PROVE  Entry(f, b, n) = k <=> Entry(e, b, n) = k /\ ~(j = p1 /\ n = n1)
    BY <1>2 DEF Child
  <2>1. b \in Block /\ b \in Own(e, j) /\ ToSet(e.inode[p1].data) \subseteq Own(e, p1)
    BY <1>1, InodeIs
  <2>2. Entry(f, b, n) = IF b \in ToSet(e.inode[p1].data) /\ n = n1 THEN 0 ELSE Entry(e, b, n)
    BY <2>1, NameIsAny DEF Removed
  <2>3. b \in ToSet(e.inode[p1].data) <=> j = p1
    BY <1>1, <2>1 DEF Apart
  <2> QED BY <2>2, <2>3, RootIn
<1>6. \A j \in Ino : ToSet(d.inode[j].data) \subseteq Block /\ ToSet(d.inode[j].data) \subseteq Own(d, j)
  BY <1>0, InodeIs
<1>7. PICK a \in ToSet(d.inode[p1].data) : Entry(d, a, n1) = i
  BY DEF Child
<1>8. \A j \in Ino, n \in Name : Child(d, j, n, i) => j = p1 /\ n = n1
  <2> SUFFICES ASSUME NEW j \in Ino, NEW n \in Name, Child(d, j, n, i) PROVE j = p1 /\ n = n1
    OBVIOUS
  <2>1. PICK b \in ToSet(d.inode[j].data) : Entry(d, b, n) = i
    BY DEF Child
  <2>2. b = a /\ n = n1
    BY <1>0, <1>6, <1>7, <2>1, RootIn DEF Single
  <2>3. b \in Own(d, j) /\ b \in Own(d, p1)
    BY <1>6, <1>7, <2>1, <2>2
  <2> QED BY <1>0, <2>2, <2>3 DEF Apart
<1>9. \A k \in Ino : Child(d, p1, n1, k) => k = i
  <2> SUFFICES ASSUME NEW k \in Ino, Child(d, p1, n1, k) PROVE k = i
    OBVIOUS
  <2>1. PICK b \in ToSet(d.inode[p1].data) : Entry(d, b, n1) = k
    BY DEF Child
  <2>2. b = a
    BY <1>0, <1>7, <2>1, RootIn DEF Once
  <2> QED BY <1>7, <2>1, <2>2
<1>10. ~(p1 = p2 /\ n1 = n2)
  BY <1>7, RootIn
<1>11. \A j, k \in Ino, n \in Name :
         Child(f, j, n, k) <=> IF k = i THEN j = p2 /\ n = n2 ELSE Child(d, j, n, k)
  BY <1>4, <1>5, <1>8, <1>9, <1>10
<1>12. Rooted(d) => Rooted(f)
  <2>1. Rooted(d) => i # Root
    BY RootIn DEF Rooted, Named
  <2> QED BY <1>3, <1>11, <2>1, RootIn DEF Rooted, Named
<1>13. ASSUME Linked(d), d.inode[i].type = "dir", p1 # p2 PROVE Owed(f, Shift(p1, p2))
  <2>1. ASSUME NEW j \in Ino, d.inode[j].type = "dir"
        PROVE  d.inode[j].links = 2 + Cardinality(Kids(f, j)) + Shift(p1, p2)[j]
    <3>1. /\ d.inode[j].links = 2 + Cardinality(Kids(d, j))
          /\ Cardinality(Kids(d, j)) \in Nat /\ Cardinality(Kids(f, j)) \in Nat
      BY <1>13, <2>1, KidsFinite DEF Linked, Owed
    <3>2. CASE j = p1
      <4>1. Kids(d, j) = Kids(f, j) \cup {i} /\ i \notin Kids(f, j)
        BY <1>3, <1>11, <1>13, <3>2 DEF Kids
      <4>2. Cardinality(Kids(d, j)) = Cardinality(Kids(f, j)) + 1
        BY <4>1, KidsFinite, FS_AddElement
      <4>3. Shift(p1, p2)[j] = 1
        BY <3>2 DEF Shift
      <4> QED BY <3>1, <4>2, <4>3
    <3>3. CASE j = p2
      <4>1. Kids(f, j) = Kids(d, j) \cup {i} /\ i \notin Kids(d, j)
        BY <1>3, <1>8, <1>11, <1>13, <3>3 DEF Kids
      <4>2. Cardinality(Kids(f, j)) = Cardinality(Kids(d, j)) + 1
        BY <4>1, KidsFinite, FS_AddElement
      <4>3. Shift(p1, p2)[j] = -1
        BY <1>13, <3>3 DEF Shift
      <4> QED BY <3>1, <4>2, <4>3
    <3>4. CASE j # p1 /\ j # p2
      <4>1. Kids(f, j) = Kids(d, j)
        BY <1>3, <1>8, <1>11, <3>4 DEF Kids
      <4>2. Shift(p1, p2)[j] = 0
        BY <3>4 DEF Shift
      <4> QED BY <3>1, <4>1, <4>2
    <3> QED BY <3>2, <3>3, <3>4
  <2>2. \A j \in Ino : d.inode[j].type \in {"file", "symlink"} => d.inode[j].links = 1
    BY <1>13 DEF Linked, Owed
  <2>3. Rooted(f)
    BY <1>12, <1>13 DEF Linked, Owed
  <2> QED BY <1>3, <2>1, <2>2, <2>3 DEF Owed
<1>14. ASSUME Linked(d), ~(d.inode[i].type = "dir" /\ p1 # p2) PROVE Linked(f)
  <2>1. ASSUME NEW j \in Ino PROVE Kids(f, j) = Kids(d, j)
    <3>1. CASE d.inode[i].type # "dir"
      BY <1>3, <1>11, <3>1 DEF Kids
    <3>2. CASE d.inode[i].type = "dir"
      <4>1. p1 = p2
        BY <1>14, <3>2
      <4>2. \A k \in Ino : (\E n \in Name : Child(f, j, n, k)) <=> (\E n \in Name : Child(d, j, n, k))
        BY <1>8, <1>11, <4>1
      <4> QED BY <1>3, <4>2 DEF Kids
    <3> QED BY <3>1, <3>2
  <2>2. Rooted(f)
    BY <1>12, <1>14 DEF Linked, Owed
  <2> QED BY <1>3, <1>14, <2>1, <2>2 DEF Linked, Owed
<1>15. ASSUME Reached(d, 0) PROVE Reached(f, 0)
  <2>1. \A j \in Ino : Named(d, j) => Named(f, j)
    BY <1>11 DEF Named
  <2>2. \A j \in f.inodes \ {0} : f.inode[j].type # "none" /\ (j = Root \/ Named(f, j))
    BY <1>0, <1>2, <1>3, <1>15, <2>1 DEF Reached
  <2>3. ASSUME NEW b \in f.blocks PROVE \E j \in Ino : b \in Own(f, j)
    <3>0. \A j \in Ino : Own(f, j) = Own(e, j)
      BY <1>2 DEF Own, all_blocks
    <3>1. CASE b \in Own(e, p2)
      BY <3>0, <3>1
    <3>2. CASE b \notin Own(e, p2)
      <4>1. b \in d.blocks /\ b \notin Own(d, p2)
        BY <1>2, <2>3, <3>2 DEF Added
      <4>2. PICK j \in Ino : b \in Own(d, j)
        BY <1>15, <4>1 DEF Reached
      <4>3. e.inode[j] = d.inode[j]
        BY <4>1, <4>2 DEF Added
      <4>4. b \in Own(e, j)
        BY <4>2, <4>3 DEF Own, all_blocks
      <4> QED BY <3>0, <4>4
    <3> QED BY <3>1, <3>2
  <2> QED BY <2>2, <2>3 DEF Reached
<1> QED BY <1>13, <1>14, <1>15

\* The new name is there before the old one goes: only the two together leave
\* i with one name.
LEMMA MovedSound ==
  ASSUME NEW d, Sound(d), NEW p1 \in Ino, d.inode[p1].type = "dir", NEW n1 \in Name,
         NEW p2 \in Ino, d.inode[p2].type = "dir", NEW n2 \in Name, NEW i \in Ino,
         \E b \in ToSet(d.inode[p1].data) : Entry(d, b, n1) = i,
         \A b \in ToSet(d.inode[p2].data) : Entry(d, b, n2) = 0,
         NEW e, NEW c \in Block, Added(d, e, p2, n2, i, c)
  PROVE  LET r == remove_entry(e, p1, n1) IN
         /\ r.err = "none" /\ Astray(r.disk, i, p2) /\ (DirsCounted(d) => DirsCounted(r.disk))
         /\ ~(r.disk.inode[i].type = "dir" /\ p1 # p2) => Sound(r.disk)
         /\ \A j \in Ino : r.disk.inode[j].type = d.inode[j].type
         /\ Linked(d) => IF d.inode[i].type = "dir" /\ p1 # p2
                         THEN Owed(r.disk, Shift(p1, p2)) ELSE Linked(r.disk)
         /\ Reached(d, 0) => Reached(r.disk, 0)
<1> DEFINE r == remove_entry(e, p1, n1)
           f == r.disk
<1>0. d \in Disk /\ d.inodes \subseteq Ino /\ Leads(d) /\ Single(d) /\ n1 \in AnyName /\ i # 0
  BY NameIsAny, Constants DEF Sound, Disk, Ino
<1>1. PICK a \in ToSet(d.inode[p1].data) : Entry(d, a, n1) = i
  OBVIOUS
<1>2. a \in Block
  <2>1. ToSet(d.inode[p1].data) \subseteq Block
    BY <1>0, InodeIs
  <2> QED BY <2>1
<1>3. i \in d.inodes /\ d.inode[i].type # "none"
  BY <1>0, <1>1, <1>2 DEF Leads
<1>4. e \in Disk /\ BlocksCounted(e) /\ SameCounts(d, e) /\ Apart(e)
  BY DEF Added
<1>5. \A j \in Ino : e.inode[j].type = d.inode[j].type
  BY DEF Added
<1>6. a \in ToSet(e.inode[p1].data)
  BY <1>1 DEF Added
<1>7. \A b \in Block, n \in Name :
        Entry(e, b, n) = IF b = c /\ n = n2 THEN i ELSE Entry(d, b, n)
  BY NameIsAny DEF Added
<1>8. lookup(e, p1, n1) # 0
  <2>1. Entry(e, a, n1) = i
    BY <1>1, <1>2, <1>7
  <2>2. e.inode[p1].type = "dir"
    BY <1>5
  <2>3. \/ \A b \in ToSet(e.inode[p1].data) : Entry(e, b, n1) = 0
        \/ lookup(e, p1, n1) \in Ino
    BY <1>0, <1>4, <2>2, LookupIs
  <2>4. 0 \notin Ino
    BY Constants DEF Ino
  <2> QED BY <1>0, <1>6, <2>1, <2>3, <2>4
<1>9. r.err = "none" /\ Removed(e, f, p1, n1)
  BY <1>0, <1>4, <1>5, <1>8, RemoveEntry
<1> HIDE DEF r
<1>10. f \in Disk /\ BlocksCounted(f) /\ Apart(f) /\ SameFiles(e, f)
  BY <1>4, <1>9 DEF Removed
<1>11. \A b \in Block, n \in Name :
        Entry(f, b, n) = IF b \in ToSet(e.inode[p1].data) /\ n = n1 THEN 0 ELSE Entry(e, b, n)
  BY <1>9, NameIsAny DEF Removed
<1>12. f.inodes = d.inodes /\ f.inode = e.inode /\ SameCounts(d, f)
  BY <1>4, <1>10 DEF SameCounts, SameFiles
<1>13. InodesCounted(f)
  BY <1>12 DEF Sound, InodesCounted, SameCounts
<1>14. Fresh(f)
  <2> SUFFICES ASSUME NEW j \in Ino
               PROVE  /\ j \notin f.inodes => f.inode[j].type = "none"
                      /\ f.inode[j].type = "none" => f.inode[j].data = <<>> /\ f.inode[j].ind = <<>>
    BY DEF Fresh
  <2>1. CASE j = p2
    BY <1>5, <1>12, <2>1 DEF Sound, Fresh
  <2>2. CASE j # p2
    <3>1. f.inode[j] = d.inode[j]
      BY <1>12, <2>2 DEF Added
    <3> QED BY <1>12, <3>1 DEF Sound, Fresh
  <2> QED BY <2>1, <2>2
<1>15. Leads(f)
  <2> SUFFICES ASSUME NEW b \in Block, NEW n \in Name, Entry(f, b, n) # 0
               PROVE  Entry(f, b, n) \in f.inodes /\ f.inode[Entry(f, b, n)].type # "none"
    BY DEF Leads
  <2>1. Entry(f, b, n) = i \/ Entry(f, b, n) = Entry(d, b, n)
    BY <1>7, <1>11
  <2>2. Entry(f, b, n) \in d.inodes /\ d.inode[Entry(f, b, n)].type # "none"
    BY <1>0, <1>3, <2>1 DEF Leads
  <2> QED BY <1>0, <1>5, <1>12, <2>2
<1>n. ASSUME NEW k \in Block, NEW l \in Name, Entry(f, k, l) # 0
      PROVE  Entry(f, k, l) = IF k = c /\ l = n2 THEN i ELSE Entry(d, k, l)
  BY <1>7, <1>11, <1>n
<1>i. ASSUME NEW k \in Block, NEW l \in Name, Entry(f, k, l) = i
      PROVE  k = c /\ l = n2
  <2> SUFFICES ASSUME ~(k = c /\ l = n2) PROVE FALSE
    OBVIOUS
  <2>1. Entry(d, k, l) = i
    BY <1>0, <1>n, <1>i
  <2>2. k = a /\ l = n1
    BY <1>0, <1>1, <1>2, <2>1 DEF Single
  <2> QED BY <1>0, <1>6, <1>11, <1>i, <2>2
<1>16. Single(f)
  <2> SUFFICES ASSUME NEW b \in Block, NEW b2 \in Block, NEW m \in Name, NEW n \in Name,
                      Entry(f, b, m) # 0, Entry(f, b, m) = Entry(f, b2, n)
               PROVE  b = b2 /\ m = n
    BY DEF Single
  <2>3. CASE Entry(f, b, m) = i
    <3>1. b = c /\ m = n2 /\ b2 = c /\ n = n2
      BY <1>i, <2>3
    <3> QED BY <3>1
  <2>4. CASE Entry(f, b, m) # i
    <3>1. Entry(f, b, m) = Entry(d, b, m) /\ Entry(f, b2, n) = Entry(d, b2, n)
      BY <1>n, <2>4
    <3>2. Entry(d, b, m) # 0 /\ Entry(d, b, m) = Entry(d, b2, n)
      BY <3>1
    <3> QED BY <1>0, <3>2 DEF Single
  <2> QED BY <2>3, <2>4
<1>17. DirsCounted(d) => DirsCounted(f)
  BY <1>0, <1>5, <1>12, SameDirs
<1>18. Apart(d) /\ Dots(d) /\ Once(d) /\ Back(d)
  BY DEF Sound, Tree
<1>19. /\ Dots(e) /\ Once(e)
       /\ \A j \in Ino : d.inode[j].type = "dir" => Parent(e, j) = Parent(d, j)
       /\ \A j, k \in Ino, n \in Name :
            Child(e, j, n, k) => Child(d, j, n, k) \/ (j = p2 /\ n = n2 /\ k = i)
  BY <1>0, <1>18, AddedTree
<1>20. \A j \in Ino : ToSet(e.inode[j].data) \subseteq Block
  BY <1>4, InodeIs
<1>21. \A b \in Block : Entry(f, b, ".") = Entry(e, b, ".") /\ Entry(f, b, "..") = Entry(e, b, "..")
  <2>1. "." \in AnyName /\ ".." \in AnyName /\ "." # n1 /\ ".." # n1
    BY Ext2Assumption DEF AnyName
  <2> QED BY <1>9, <2>1 DEF Removed
<1>22. /\ Dots(f) /\ Once(f)
       /\ \A j, k \in Ino, n \in Name : Child(f, j, n, k) => Child(e, j, n, k)
  <2>1. \A b \in Block, n \in Name : Entry(f, b, n) = 0 \/ Entry(f, b, n) = Entry(e, b, n)
    BY <1>11
  <2> QED BY <1>4, <1>10, <1>12, <1>19, <1>20, <1>21, <2>1, FewerNames
<1>23. ASSUME NEW j \in Ino, d.inode[j].type = "dir" PROVE Parent(f, j) = Parent(d, j)
  <2>1. e.inode[j].data # <<>>
    BY <1>5, <1>19, <1>23 DEF Dots
  <2>2. First(e, j) \in Block /\ First(f, j) = First(e, j)
    BY <1>4, <1>12, <2>1, FirstIn DEF First
  <2> QED BY <1>19, <1>21, <1>23, <2>2 DEF Parent
<1>24. ASSUME NEW j \in Ino, NEW k \in Ino, NEW n \in Name, Child(f, j, n, k), f.inode[k].type = "dir"
       PROVE  IF k = i THEN j = p2 ELSE Parent(f, k) = j
  <2>1. CASE k = i
    <3>1. PICK b \in ToSet(f.inode[j].data) : Entry(f, b, n) = i
      BY <1>24, <2>1 DEF Child
    <3>2. b = c
      BY <1>12, <1>20, <1>i, <3>1
    <3>3. c \in Own(f, j) /\ c \in Own(f, p2)
      <4>1. c \in ToSet(f.inode[p2].data)
        BY <1>12 DEF Added
      <4> QED BY <1>10, <3>1, <3>2, <4>1, InodeIs
    <3> QED BY <1>10, <2>1, <3>3 DEF Apart
  <2>2. CASE k # i
    <3>1. Child(d, j, n, k) /\ d.inode[k].type = "dir"
      BY <1>5, <1>12, <1>19, <1>22, <1>24, <2>2
    <3>2. Parent(d, k) = j
      BY <1>18, <3>1 DEF Back
    <3> QED BY <1>23, <2>2, <3>1, <3>2
  <2> QED BY <2>1, <2>2
<1>25. Astray(f, i, p2)
  BY <1>10, <1>13, <1>14, <1>15, <1>16, <1>22, <1>24 DEF Astray
<1>26. ASSUME ~(f.inode[i].type = "dir" /\ p1 # p2) PROVE Sound(f)
  <2>1. ASSUME d.inode[i].type = "dir" PROVE Parent(f, i) = p2
    <3>1. p1 = p2 /\ Child(d, p1, n1, i)
      BY <1>1, <1>5, <1>12, <1>26, <2>1 DEF Child
    <3> QED BY <1>18, <1>23, <2>1, <3>1 DEF Back
  <2>2. Back(f)
    BY <1>5, <1>12, <1>24, <2>1 DEF Back
  <2> QED BY <1>10, <1>13, <1>14, <1>15, <1>16, <1>22, <2>2 DEF Sound, Tree
<1>27. Child(d, p1, n1, i)
  BY <1>1 DEF Child
<1>28. /\ Linked(d) => IF d.inode[i].type = "dir" /\ p1 # p2
                       THEN Owed(f, Shift(p1, p2)) ELSE Linked(f)
       /\ Reached(d, 0) => Reached(f, 0)
  BY <1>9, <1>27, MovedLinks
<1> QED BY <1>5, <1>9, <1>12, <1>17, <1>25, <1>26, <1>28 DEF r

\* Moving an entry keeps a disk fit.
LEMMA MoveEntryIs ==
  ASSUME NEW d, Fit(d), NEW p1 \in Ino, d.inode[p1].type = "dir", NEW n1 \in Name,
         NEW p2 \in Ino, d.inode[p2].type = "dir", NEW n2 \in Name, NEW i \in Ino,
         \E b \in ToSet(d.inode[p1].data) : Entry(d, b, n1) = i,
         \A b \in ToSet(d.inode[p2].data) : Entry(d, b, n2) = 0
  PROVE  LET r == MoveEntry(d, p1, n1, p2, n2, i) IN
         /\ r.err = "none" => Fit(r.disk) /\ (Whole(d) => Whole(r.disk))
         /\ r.err # "none" /\ ToSet(d.inode[p2].ind) \subseteq r.disk.blocks => Fit(r.disk)
<1> DEFINE r == MoveEntry(d, p1, n1, p2, n2, i)
           r1 == add_entry(d, p2, n2, i)
           r2 == remove_entry(r1.disk, p1, n1)
           f == r2.disk
           g == IF f.inode[i].type = "dir" /\ p1 # p2
                THEN AddLinks(AddLinks(set_dotdot(f, i, p2), p1, -1), p2, 1) ELSE f
<1>0. Sound(d) /\ Linked(d)
  BY DEF Fit
<1>1. r = IF r1.err = "none" THEN IF r2.err = "none" THEN Ok(g, 0) ELSE r2 ELSE r1
  BY Zenon DEF MoveEntry, Then
<1>2. /\ r1.err # "none" => NotAdded(d, r1.disk, p2)
      /\ r1.err = "none" => \E c \in Block : Added(d, r1.disk, p2, n2, i, c)
  BY <1>0, AddEntry, NameIsAny DEF Sound
<1> HIDE DEF r, r1, r2, g
<1> SUFFICES /\ r.err = "none" => Fit(r.disk) /\ (Whole(d) => Whole(r.disk))
             /\ r.err # "none" /\ ToSet(d.inode[p2].ind) \subseteq r.disk.blocks => Fit(r.disk)
  BY DEF r
<1>3. CASE r1.err # "none"
  <2>1. r = r1
    BY <1>1, <1>3
  <2>2. ToSet(d.inode[p2].ind) \subseteq r1.disk.blocks => Fit(r1.disk)
    BY <1>0, <1>2, <1>3, NotAddedSound DEF Fit
  <2> QED BY <1>3, <2>1, <2>2
<1>4. CASE r1.err = "none"
  <2>1. PICK c \in Block : Added(d, r1.disk, p2, n2, i, c)
    BY <1>2, <1>4
  <2>2. /\ r2.err = "none" /\ Astray(f, i, p2) /\ (DirsCounted(d) => DirsCounted(f))
        /\ ~(f.inode[i].type = "dir" /\ p1 # p2) => Sound(f)
        /\ \A j \in Ino : f.inode[j].type = d.inode[j].type
        /\ IF d.inode[i].type = "dir" /\ p1 # p2 THEN Owed(f, Shift(p1, p2)) ELSE Linked(f)
        /\ Reached(d, 0) => Reached(f, 0)
    BY <1>0, <2>1, MovedSound DEF r2
  <2> HIDE DEF f
  <2>3. r.err = "none" /\ r.disk = g
    BY <1>1, <1>4, <2>2 DEF Ok
  <2>4. CASE f.inode[i].type = "dir" /\ p1 # p2
    <3>1. PICK m \in Int : m = -1
      OBVIOUS
    <3> DEFINE g1 == set_dotdot(f, i, p2)
               g2 == AddLinks(g1, p1, m)
               o1 == Shift(p1, p2)
               o2 == [o1 EXCEPT ![p1] = @ + m]
               o3 == [o2 EXCEPT ![p2] = @ + 1]
    <3>2. g = AddLinks(g2, p2, 1)
      BY <2>4, <3>1 DEF g
    <3>3. /\ o1 \in [Ino -> Int] /\ o2 \in [Ino -> Int]
          /\ \A j \in Ino : o3[j] = 0
      BY <2>4, <3>1 DEF Shift
    <3> HIDE DEF o1
    <3>4. /\ g1 \in Disk /\ Sound(g1) /\ (DirsCounted(f) => DirsCounted(g1))
          /\ g1.inode = f.inode /\ Owed(g1, o1) /\ (Reached(f, 0) => Reached(g1, 0))
      BY <2>2, <2>4, SetDotdotIs DEF o1
    <3> HIDE DEF g1
    <3>5. /\ g2 \in Disk /\ Sound(g2) /\ (DirsCounted(g1) => DirsCounted(g2))
          /\ Owed(g2, o2) /\ (Reached(g1, 0) => Reached(g2, 0))
          /\ g2.inode[p2].type = "dir"
      <4>1. g1.inode[p1].type = "dir" /\ g1.inode[p2].type = "dir"
        BY <2>2, <3>4
      <4>2. Owed(g2, o2)
        BY <3>3, <3>4, <4>1, AddLinksIs
      <4> QED BY <3>4, <4>1, <4>2, AddLinksIs
    <3> HIDE DEF g2, o2
    <3>6. 1 \in Int
      OBVIOUS
    <3>7. Owed(g, o3)
      BY <3>2, <3>3, <3>5, <3>6, AddLinksIs
    <3>8. Sound(g) /\ (DirsCounted(g2) => DirsCounted(g)) /\ (Reached(g2, 0) => Reached(g, 0))
      BY <3>2, <3>5, <3>6, AddLinksIs
    <3>9. Linked(g)
      <4> HIDE DEF o3
      <4> QED BY <3>3, <3>7, OwedNone
    <3> QED BY <2>2, <2>3, <3>4, <3>5, <3>8, <3>9 DEF Fit, Whole
  <2>5. CASE ~(f.inode[i].type = "dir" /\ p1 # p2)
    <3>1. g = f
      BY <2>5 DEF g
    <3>2. Linked(f)
      BY <2>2, <2>5
    <3> QED BY <2>2, <2>3, <2>5, <3>1, <3>2 DEF Fit, Whole
  <2> QED BY <2>4, <2>5
<1> QED BY <1>3, <1>4

\* mv! keeps a disk fit.
LEMMA MvIs ==
  ASSUME NEW d, Fit(d), NEW from \in Paths, NEW to \in Paths
  PROVE  Kept(d, Mv(d, from, to), to)
<1> DEFINE r == Mv(d, from, to)
           r1 == parent_and_name(d, from)
           p1 == r1.val
           n1 == Last(from)
           i == lookup(r1.disk, p1, n1)
           r2 == parent_and_name(r1.disk, to)
           p2 == r2.val
           n2 == Last(to)
           r3 == Replace(r2.disk, p2, n2, i)
           r4 == MoveEntry(r3.disk, p1, n1, p2, n2, i)
           inside == r1.disk.inode[i].type = "dir" /\ IntoItself(from, to)
<1>0. d \in Disk /\ Sound(d) /\ Linked(d)
  BY DEF Fit, Sound
<1>1. r = IF r1.err = "none"
          THEN IF i = 0 THEN Throw(r1.disk, "not-found")
               ELSE IF inside THEN Throw(r1.disk, "into-itself")
               ELSE IF r2.err = "none"
                    THEN IF lookup(r2.disk, p2, n2) = i THEN Ok(r2.disk, 0)
                         ELSE IF r3.err = "none" THEN r4 ELSE r3
                    ELSE r2
          ELSE r1
  BY Zenon DEF Mv, Then
<1>2. /\ r1.disk = d
      /\ r1.err = "none" => p1 \in Ino /\ d.inode[p1].type = "dir" /\ n1 \in Name
  BY <1>0, ParentAndName
<1>3. r2 = parent_and_name(d, to)
  BY <1>2
<1>4. /\ r2.disk = d
      /\ r2.err = "none" => p2 \in Ino /\ d.inode[p2].type = "dir" /\ n2 \in Name
  BY <1>0, <1>3, ParentAndName
<1> HIDE DEF r, r1, r2, r3, r4, inside
<1> SUFFICES /\ r.err = "none" => Fit(r.disk) /\ (Whole(d) => Whole(r.disk))
             /\ r.err # "none" /\ (r2.err = "none" => ToSet(d.inode[p2].ind) \subseteq r.disk.blocks)
                  => Fit(r.disk)
  BY <1>3 DEF Kept, r
<1>5. CASE r1.err # "none"
  <2>1. r = r1
    BY <1>1, <1>5
  <2> QED BY <1>2, <1>5, <2>1
<1>6. CASE r1.err = "none" /\ (i = 0 \/ inside)
  <2>1. r.err # "none" /\ r.disk = d
    BY <1>1, <1>2, <1>6 DEF Throw
  <2> QED BY <2>1
<1>7. CASE r1.err = "none" /\ ~(i = 0 \/ inside) /\ r2.err # "none"
  <2>1. r = r2
    BY <1>1, <1>7
  <2> QED BY <1>4, <1>7, <2>1
<1>8. CASE r1.err = "none" /\ ~(i = 0 \/ inside) /\ r2.err = "none" /\ lookup(d, p2, n2) = i
  <2>1. r.err = "none" /\ r.disk = d
    BY <1>1, <1>4, <1>8 DEF Ok
  <2> QED BY <2>1
<1>9. CASE r1.err = "none" /\ ~(i = 0 \/ inside) /\ r2.err = "none" /\ lookup(d, p2, n2) # i
  <2>0. /\ p1 \in Ino /\ d.inode[p1].type = "dir" /\ n1 \in Name
        /\ p2 \in Ino /\ d.inode[p2].type = "dir" /\ n2 \in Name
    BY <1>2, <1>4, <1>9
  <2>1. i = lookup(d, p1, n1) /\ i # 0
    BY <1>2, <1>9
  <2>2. r = IF r3.err = "none" THEN r4 ELSE r3
    BY <1>1, <1>4, <1>9
  <2>3. i \in Ino
    BY <1>0, <2>0, <2>1, LookupIs, NameIsAny
  <2> HIDE DEF i, p1, p2, n1, n2
  <2>4. /\ r3.err # "none" => r3.disk = d
        /\ r3.err = "none" => /\ Ready(d, r3.disk, p1, n1, p2, n2, i) /\ Linked(r3.disk)
                              /\ Reached(d, 0) => Reached(r3.disk, 0)
    <3>1. r3 = Replace(d, p2, n2, i)
      BY <1>4 DEF r3
    <3> QED BY <1>9, <2>0, <2>1, <3>1, ReplaceIs
  <2>5. CASE r3.err # "none"
    <3>1. r = r3
      BY <2>2, <2>5
    <3> QED BY <2>4, <2>5, <3>1
  <2>6. CASE r3.err = "none"
    <3> DEFINE g == r3.disk
    <3>1. r = r4
      BY <2>2, <2>6
    <3>2. /\ Fit(g) /\ (Whole(d) => Whole(g))
          /\ g.inode[p1].type = "dir" /\ g.inode[p2].type = "dir"
          /\ g.inode[p2].ind = d.inode[p2].ind
          /\ \E b \in ToSet(g.inode[p1].data) : Entry(g, b, n1) = i
          /\ \A b \in ToSet(g.inode[p2].data) : Entry(g, b, n2) = 0
      BY <2>4, <2>6 DEF Ready, Fit, Whole
    <3>3. /\ r4.err = "none" => Fit(r4.disk) /\ (Whole(g) => Whole(r4.disk))
          /\ r4.err # "none" /\ ToSet(g.inode[p2].ind) \subseteq r4.disk.blocks => Fit(r4.disk)
      BY <2>0, <2>3, <3>2, MoveEntryIs DEF r4
    <3> QED BY <1>9, <3>1, <3>2, <3>3
  <2> QED BY <2>5, <2>6
<1> QED BY <1>5, <1>6, <1>7, <1>8, <1>9

-----------------------------------------------------------------------------
\* The inductive invariant

SoundDisk == ~spoiled => Fit(disk) /\ (~starved => Whole(disk))

\* A new file system is sound.
LEMMA InitSound == Init => SoundDisk
<1> SUFFICES ASSUME Init PROVE Fit(disk) /\ Whole(disk)
  BY DEF SoundDisk
<1> DEFINE d == disk
           x == [FreshInode("dir", 2) EXCEPT !.data = <<1>>]
           none == FreshInode("none", 0)
<1>1. 1 \in Block /\ Root \in Ino /\ Root = 1
  BY Constants DEF Block, Ino, Root
<1>2. /\ d.blocks = {1} /\ d.inodes = {Root}
      /\ d.gd_blocks = [g \in Group |-> Cardinality({b \in Block \ {1} : GroupOf(b) = g})]
      /\ d.gd_inodes = [g \in Group |-> Cardinality({i \in Ino \ {Root} : group_of_inode(i) = g})]
      /\ d.gd_dirs = [g \in Group |-> IF g = 0 THEN 1 ELSE 0]
      /\ d.sb_blocks = NBlocks - 1 /\ d.sb_inodes = NInodes - 1
      /\ d.inode = [i \in Ino |-> IF i = Root THEN x ELSE none]
      /\ d.entries = [b \in Block |-> IF b = 1 THEN DotEntries(Root, Root) ELSE NoEntries]
  BY DEF Init
<1>3. /\ none \in Inode /\ none.type = "none" /\ none.data = <<>> /\ none.ind = <<>>
      /\ x \in Inode /\ x.type = "dir" /\ x.data = <<1>> /\ x.ind = <<>> /\ x.links = 2
  <2>1. none \in Inode /\ none.type = "none" /\ none.data = <<>> /\ none.ind = <<>>
    BY FreshIsInode
  <2>2. /\ FreshInode("dir", 2) \in Inode /\ FreshInode("dir", 2).type = "dir"
        /\ FreshInode("dir", 2).ind = <<>> /\ FreshInode("dir", 2).links = 2
    BY FreshIsInode
  <2>3. <<1>> \in Seq(Block)
    BY <1>1
  <2> QED BY <2>1, <2>2, <2>3 DEF Inode
<1> HIDE DEF x, none
<1>4. /\ NoEntries \in [AnyName -> 0 .. NInodes] /\ DotEntries(Root, Root) \in [AnyName -> 0 .. NInodes]
      /\ \A n \in Name : NoEntries[n] = 0 /\ DotEntries(Root, Root)[n] = 0
  <2>1. Root \in 0 .. NInodes /\ 0 \in 0 .. NInodes
    BY <1>1, Constants DEF Ino
  <2>2. NoEntries \in [AnyName -> 0 .. NInodes] /\ \A n \in Name : NoEntries[n] = 0
    BY <2>1, NameIsAny DEF NoEntries
  <2>3. \A n \in Name : n \in AnyName /\ n # "." /\ n # ".."
    BY Ext2Assumption DEF AnyName
  <2> QED BY <2>1, <2>2, <2>3 DEF DotEntries
<1>5. d \in Disk
  <2>1. /\ d.gd_blocks \in [Group -> Int] /\ d.gd_inodes \in [Group -> Int]
        /\ d.gd_dirs \in [Group -> Int]
    <3>1. \A g \in Group : Cardinality({b \in Block \ {1} : GroupOf(b) = g}) \in Int
      <4>1. \A g : {b \in Block \ {1} : GroupOf(b) = g} \in SUBSET Block
        OBVIOUS
      <4> QED BY <4>1, FiniteBlocks
    <3>2. \A g \in Group : Cardinality({i \in Ino \ {Root} : group_of_inode(i) = g}) \in Int
      <4>1. \A g : {i \in Ino \ {Root} : group_of_inode(i) = g} \in SUBSET Ino
        OBVIOUS
      <4> QED BY <4>1, FiniteInodes
    <3> QED BY <1>2, <3>1, <3>2
  <2>2. d.sb_blocks \in Int /\ d.sb_inodes \in Int
    BY <1>2, Constants
  <2>3. d.blocks \in SUBSET Block /\ d.inodes \in SUBSET Ino
    BY <1>1, <1>2
  <2>4. d.inode \in [Ino -> Inode]
    BY <1>2, <1>3
  <2>5. d.entries \in [Block -> [AnyName -> 0 .. NInodes]]
    BY <1>2, <1>4
  <2>6. d = [blocks |-> d.blocks, inodes |-> d.inodes, gd_blocks |-> d.gd_blocks,
             gd_inodes |-> d.gd_inodes, gd_dirs |-> d.gd_dirs, sb_blocks |-> d.sb_blocks,
             sb_inodes |-> d.sb_inodes, inode |-> d.inode, entries |-> d.entries]
    BY DEF Init
  <2> QED BY <2>1, <2>2, <2>3, <2>4, <2>5, <2>6 DEF Disk
<1> HIDE DEF d
<1>6. BlocksCounted(d)
  <2>1. IsFiniteSet(Block) /\ Cardinality(Block) = NBlocks
    <3>1. 1 \in Int /\ NBlocks \in Int /\ NBlocks >= 1
      BY Constants
    <3>2. Cardinality(1 .. NBlocks) = IF 1 > NBlocks THEN 0 ELSE NBlocks - 1 + 1
      BY <3>1, FS_Interval
    <3> QED BY <3>1, <3>2, FS_Interval DEF Block
  <2>2. Cardinality(Block \ {1}) = Cardinality(Block) - 1
    BY <1>1, <2>1, FS_RemoveElement
  <2> QED BY <1>2, <2>1, <2>2 DEF BlocksCounted
<1>7. InodesCounted(d)
  <2>1. IsFiniteSet(Ino) /\ Cardinality(Ino) = NInodes
    <3>1. 1 \in Int /\ NInodes \in Int /\ NInodes >= 1
      BY Constants
    <3>2. Cardinality(1 .. NInodes) = IF 1 > NInodes THEN 0 ELSE NInodes - 1 + 1
      BY <3>1, FS_Interval
    <3> QED BY <3>1, <3>2, FS_Interval DEF Ino
  <2>2. Cardinality(Ino \ {Root}) = Cardinality(Ino) - 1
    BY <1>1, <2>1, FS_RemoveElement
  <2> QED BY <1>2, <2>1, <2>2 DEF InodesCounted
<1>8. \A i \in Ino : /\ i = Root => d.inode[i] = x
                     /\ i # Root => d.inode[i] = none
  BY <1>2
<1>9. Fresh(d)
  BY <1>2, <1>3, <1>8 DEF Fresh
<1>10. Apart(d)
  <2>1. <<1>> \o <<>> = <<1>> /\ <<>> \o <<>> = <<>> /\ ToSet(<<1>>) = {1} /\ ToSet(<<>>) = {}
    BY DEF ToSet
  <2>2. \A i \in Ino : /\ i = Root => all_blocks(d, i) = <<1>> /\ Own(d, i) = {1}
                       /\ i # Root => all_blocks(d, i) = <<>> /\ Own(d, i) = {}
    BY <1>3, <1>8, <2>1 DEF all_blocks, Own
  <2>3. IsInjective(<<1>>) /\ IsInjective(<<>>)
    BY DEF IsInjective
  <2>4. \A i \in Ino : IsInjective(all_blocks(d, i)) /\ Own(d, i) \subseteq d.blocks
    BY <1>2, <2>2, <2>3
  <2> QED BY <2>2, <2>4 DEF Apart
<1>11. \A b \in Block, n \in Name : Entry(d, b, n) = 0
  BY <1>2, <1>4 DEF Entry
<1>12. Leads(d) /\ Single(d)
  BY <1>11 DEF Leads, Single
<1>13. DirsCounted(d)
  <2>1. DirsOf(d) = {Root}
    BY <1>1, <1>2, <1>3, <1>8 DEF DirsOf
  <2>2. group_of_inode(Root) = 0
    BY <1>1, Constants DEF group_of_inode
  <2>3. \A g \in Group : {i \in {Root} : group_of_inode(i) = g} = IF g = 0 THEN {Root} ELSE {}
    BY <2>2
  <2>4. Cardinality({Root}) = 1 /\ Cardinality({}) = 0
    BY FS_Singleton, FS_EmptySet
  <2>5. ASSUME NEW g \in Group
        PROVE  d.gd_dirs[g] = Cardinality({i \in DirsOf(d) : group_of_inode(i) = g})
    <3>1. d.gd_dirs[g] = IF g = 0 THEN 1 ELSE 0
      BY <1>2
    <3>2. {i \in DirsOf(d) : group_of_inode(i) = g} = IF g = 0 THEN {Root} ELSE {}
      BY <2>1, <2>3
    <3> QED BY <2>4, <3>1, <3>2
  <2> QED BY <2>5 DEF DirsCounted
<1>15. \A i, c \in Ino, n \in Name : ~Child(d, i, n, c)
  <2>1. \A i \in Ino : ToSet(d.inode[i].data) \subseteq Block
    BY <1>5, InodeIs
  <2> QED BY <1>11, <2>1, RootIn DEF Child
<1>14. Tree(d)
  <2>1. \A i \in Ino : d.inode[i].type = "dir" => i = Root /\ d.inode[i].data = <<1>>
    BY <1>3, <1>8
  <2>2. ToSet(<<1>>) = {1} /\ <<1>>[1] = 1 /\ <<1>> # <<>>
    BY DEF ToSet
  <2>3. Live(d, 1)
    BY <1>1, <1>3, <1>8, <2>2 DEF Live
  <2>4. Entry(d, 1, ".") = Root
    <3>1. DotEntries(Root, Root)["."] = Root
      BY DEF DotEntries, NoEntries, AnyName
    <3> QED BY <1>1, <1>2, <2>3, <3>1 DEF Entry
  <2>5. Dots(d)
    BY <2>1, <2>2, <2>4 DEF Dots, First
  <2>6. Once(d)
    BY <2>1, <2>2 DEF Once
  <2>7. Back(d)
    BY <1>15 DEF Back
  <2> QED BY <2>5, <2>6, <2>7 DEF Tree
<1>16. Linked(d)
  <2>1. \A i \in Ino : Kids(d, i) = {}
    BY <1>15 DEF Kids
  <2>2. \A i \in Ino : Cardinality(Kids(d, i)) = 0
    BY <2>1, FS_EmptySet
  <2>3. Rooted(d)
    BY <1>1, <1>3, <1>8, <1>15 DEF Rooted, Named
  <2>4. \A i \in Ino : /\ d.inode[i].type \in {"file", "symlink"} => d.inode[i].links = 1
                       /\ d.inode[i].type = "dir" => d.inode[i].links = 2 + 0 + 0
    BY <1>3, <1>8
  <2> QED BY <2>2, <2>3, <2>4 DEF Linked, Owed
<1>17. Reached(d, 0)
  <2>1. \A j \in d.inodes : d.inode[j].type # "none" /\ j = Root
    BY <1>1, <1>2, <1>3, <1>8
  <2>2. 1 \in Own(d, Root)
    <3>1. d.inode[Root].data = <<1>> /\ ToSet(<<1>>) = {1}
      BY <1>1, <1>3, <1>8 DEF ToSet
    <3> QED BY <1>1, <1>5, <3>1, InodeIs
  <2> QED BY <1>1, <1>2, <2>1, <2>2 DEF Reached
<1>18. Sound(d)
  BY <1>5, <1>6, <1>7, <1>9, <1>10, <1>12, <1>14 DEF Sound
<1> QED BY <1>13, <1>16, <1>17, <1>18 DEF Fit, Whole, d

\* What an operation leaves when it is over
LEMMA DoneSound ==
  ASSUME SoundDisk, ~spoiled, NEW r, Done(r),
         r.err = "none" => Fit(r.disk) /\ (Whole(disk) => Whole(r.disk)),
         r.err # "none" /\ ~spoiled' => Fit(r.disk)
  PROVE  SoundDisk'
<1>1. Fit(disk) /\ (~starved => Whole(disk))
  BY DEF SoundDisk
<1>2. disk' = r.disk /\ starved' = (starved \/ (r.err # "none" /\ r.disk # disk))
  BY DEF Done
<1>3. ~spoiled' => Fit(disk') /\ (~starved' => Whole(disk'))
  <2>1. CASE r.err = "none"
    BY <1>1, <1>2, <2>1
  <2>2. CASE r.err # "none"
    BY <1>1, <1>2, <2>2
  <2> QED BY <2>1, <2>2
<1> QED BY <1>3 DEF SoundDisk

\* An operation that keeps the disk as promised keeps the invariant.
LEMMA KeptSound ==
  ASSUME SoundDisk, ~spoiled, NEW path \in Paths, NEW r, Kept(disk, r, path), Adding(r, path)
  PROVE  SoundDisk'
<1> DEFINE p == parent_and_name(disk, path)
<1>1. Done(r) /\ spoiled' = (spoiled \/ CutOff(r, path))
  BY DEF Adding
<1>2. CutOff(r, path) <=> /\ r.err # "none" /\ p.err = "none"
                          /\ ~(ToSet(disk.inode[p.val].ind) \subseteq r.disk.blocks)
  BY DEF CutOff
<1>3. r.err = "none" => Fit(r.disk) /\ (Whole(disk) => Whole(r.disk))
  BY DEF Kept
<1>4. r.err # "none" /\ (p.err = "none" => ToSet(disk.inode[p.val].ind) \subseteq r.disk.blocks)
        => Fit(r.disk)
  BY DEF Kept
<1> HIDE DEF p
<1>5. r.err # "none" /\ ~spoiled' => Fit(r.disk)
  BY <1>1, <1>2, <1>4
<1> QED BY <1>1, <1>3, <1>5, DoneSound

\* Every operation keeps the invariant.
LEMMA NextSound == SoundDisk /\ [Next]_vars => SoundDisk'
<1> SUFFICES ASSUME SoundDisk, [Next]_vars PROVE SoundDisk'
  OBVIOUS
<1>1. CASE UNCHANGED vars
  BY <1>1 DEF vars, SoundDisk
<1>2. CASE spoiled'
  BY <1>2 DEF SoundDisk
<1>3. CASE Next /\ ~spoiled'
  <2>0. PICK path \in Paths :
          \/ \E n \in Sizes : write_file(path, n)
          \/ mkdir(path) \/ rm(path) \/ rmdir(path)
          \/ \E to \in Paths : mv(path, to)
          \/ \E target \in Targets : symlink(target, path)
    BY <1>3 DEF Next
  <2> SUFFICES ASSUME ~spoiled PROVE SoundDisk'
    BY <1>3, <2>0 DEF write_file, mkdir, rm, rmdir, mv, symlink, Adding
  <2>1. Fit(disk)
    BY DEF SoundDisk
  <2>2. ASSUME NEW n \in Sizes, write_file(path, n) PROVE SoundDisk'
    <3> DEFINE r == WriteFile(disk, path, n)
               p == parent_and_name(disk, path)
               i == lookup(disk, p.val, Last(path))
    <3>1. n \in Nat
      BY Ext2Assumption
    <3>2. /\ r.err = "none" => Fit(r.disk) /\ (Whole(disk) => Whole(r.disk))
          /\ /\ r.err # "none"
             /\ p.err = "none" =>
                  /\ ToSet(disk.inode[p.val].ind) \subseteq r.disk.blocks
                  /\ i # 0 /\ disk.inode[i].type = "file" => all_blocks(disk, i) = <<>>
             => Fit(r.disk)
      BY <2>1, <3>1, WriteFileIs
    <3>3. Done(r) /\ spoiled' = (spoiled \/ CutOff(r, path) \/ (r.err # "none" /\ Replaced(path)))
      BY <2>2 DEF write_file
    <3>4. CutOff(r, path) <=> /\ r.err # "none" /\ p.err = "none"
                              /\ ~(ToSet(disk.inode[p.val].ind) \subseteq r.disk.blocks)
      BY DEF CutOff
    <3>5. p.err = "none" => (Replaced(path) <=>
            i # 0 /\ disk.inode[i].type = "file" /\ all_blocks(disk, i) # <<>>)
      BY DEF Replaced
    <3> HIDE DEF r, p, i
    <3>6. r.err # "none" /\ ~spoiled' => Fit(r.disk)
      BY <3>2, <3>3, <3>4, <3>5
    <3> QED BY <3>2, <3>3, <3>6, DoneSound
  <2>3. CASE mkdir(path)
    BY <2>1, <2>3, MkdirIs, KeptSound DEF mkdir
  <2>4. CASE rm(path)
    <3> DEFINE r == Rm(disk, path)
    <3>1. Done(r) /\ Atomic(disk, r)
      BY <2>1, <2>4, RmIs DEF rm
    <3> HIDE DEF r
    <3> QED BY <2>1, <3>1, DoneSound DEF Atomic
  <2>5. CASE rmdir(path)
    <3> DEFINE r == Rmdir(disk, path)
    <3>1. Done(r) /\ Atomic(disk, r)
      BY <2>1, <2>5, RmdirIs DEF rmdir
    <3> HIDE DEF r
    <3> QED BY <2>1, <3>1, DoneSound DEF Atomic
  <2>6. ASSUME NEW to \in Paths, mv(path, to) PROVE SoundDisk'
    BY <2>1, <2>6, MvIs, KeptSound DEF mv
  <2>7. ASSUME NEW target \in Targets, symlink(target, path) PROVE SoundDisk'
    BY <2>1, <2>7, SymlinkIs, KeptSound DEF symlink
  <2> QED BY <2>0, <2>2, <2>3, <2>4, <2>5, <2>6, <2>7
<1> QED BY <1>1, <1>2, <1>3

\* As long as no blocks in use were freed under a file or directory, the disk
\* is sound and the link counts are right; and until an operation threw half-way,
\* the directories are counted and what is marked used has a name or an owner.
THEOREM SoundDiskTheorem == Spec => []SoundDisk
BY InitSound, NextSound, PTL DEF Spec

\* The invariant implies what the run checks: of blocks,
LEMMA SoundOwned == SoundDisk => BlocksOwnedOnce
<1> SUFFICES ASSUME Sound(disk)
             PROVE  /\ NoSharedBlock
                    /\ \A i \in InUse : /\ IsInjective(Mapped(i))
                                         /\ ToSet(Mapped(i)) \subseteq disk.blocks
  BY DEF SoundDisk, Fit, BlocksOwnedOnce
<1>1. Apart(disk) /\ InUse \subseteq Ino
  BY DEF Sound, Disk, InUse
<1>2. \A i : ToSet(Mapped(i)) = Own(disk, i)
  BY DEF Mapped, Own
<1>3. \A i, j \in InUse : i # j => Own(disk, i) \cap Own(disk, j) = {}
  BY <1>1 DEF Apart
<1>4. NoSharedBlock
  BY <1>2, <1>3 DEF NoSharedBlock
<1>5. \A i \in InUse : IsInjective(Mapped(i)) /\ Own(disk, i) \subseteq disk.blocks
  BY <1>1 DEF Apart, Mapped
<1> QED BY <1>2, <1>4, <1>5

\* of the counts,
LEMMA SoundCounted == SoundDisk => CountsAgree
<1> SUFFICES ASSUME SoundDisk, ~spoiled
             PROVE  /\ \A g \in Group :
                         /\ disk.gd_blocks[g] = Cardinality({b \in Block \ disk.blocks : GroupOf(b) = g})
                         /\ disk.gd_inodes[g] = Cardinality({i \in Ino \ disk.inodes :
                                                              group_of_inode(i) = g})
                         /\ ~starved => disk.gd_dirs[g] =
                              Cardinality({i \in Dirs : group_of_inode(i) = g})
                    /\ disk.sb_blocks = Cardinality(Block \ disk.blocks)
                    /\ disk.sb_inodes = Cardinality(Ino \ disk.inodes)
  BY DEF CountsAgree
<1>1. BlocksCounted(disk) /\ InodesCounted(disk) /\ (~starved => DirsCounted(disk))
  BY DEF SoundDisk, Fit, Whole, Sound
<1>2. Dirs = DirsOf(disk)
  BY DEF Dirs, DirsOf, InUse
<1> QED BY <1>1, <1>2 DEF BlocksCounted, InodesCounted, DirsCounted

\* However alloc-blocks! and free-blocks! are called, by operations that end or
\* throw, a block in use has one owner and its bit in the bitmap is set, unless
\* the disk is spoiled.
THEOREM BlocksOwnedOnceTheorem == Spec => []BlocksOwnedOnce
BY SoundDiskTheorem, SoundOwned, PTL

\* The read-modify-write counts of adjust-counts! stay those of the bitmaps, and
\* of the directories, through every operation.
THEOREM CountsAgreeTheorem == Spec => []CountsAgree
BY SoundDiskTheorem, SoundCounted, PTL

\* What lookup finds of . and ..
LEMMA DotsFound ==
  ASSUME NEW d \in Disk, Dots(d), NEW i \in Ino, d.inode[i].type = "dir"
  PROVE  lookup(d, i, ".") = i /\ lookup(d, i, "..") = Parent(d, i)
<1>1. "." \in AnyName /\ ".." \in AnyName /\ 0 \notin Ino
  BY Constants DEF AnyName, Ino
<1>2. /\ Entry(d, First(d, i), ".") = i /\ First(d, i) \in ToSet(d.inode[i].data)
      /\ \A b \in ToSet(d.inode[i].data) \ {First(d, i)} :
           Entry(d, b, ".") = 0 /\ Entry(d, b, "..") = 0
  BY FirstIn DEF Dots
<1>3. lookup(d, i, ".") = i
  BY <1>1, <1>2, LookupIs
<1>4. lookup(d, i, "..") = Parent(d, i)
  BY <1>1, <1>2, LookupIs DEF Parent
<1> QED BY <1>3, <1>4

\* of names,
LEMMA SoundLeads == SoundDisk => NamesLead
<1> SUFFICES ASSUME Sound(disk), NEW i \in Dirs
             PROVE  /\ lookup(disk, i, ".") = i
                    /\ \A n \in Name :
                         /\ Cardinality({b \in ToSet(disk.inode[i].data) : disk.entries[b][n] # 0}) <= 1
                         /\ lookup(disk, i, n) \in InUse \cup {0}
                         /\ lookup(disk, i, n) \in Dirs
                              => /\ NamesOf(lookup(disk, i, n)) = {<<i, n>>}
                                 /\ lookup(disk, lookup(disk, i, n), "..") = i
  BY DEF SoundDisk, Fit, NamesLead
<1> DEFINE d == disk
<1>1. d \in Disk /\ Apart(d) /\ Leads(d) /\ Single(d) /\ Dots(d) /\ Once(d) /\ Back(d)
  BY DEF Sound, Tree
<1>2. \A j \in Dirs : j \in Ino /\ d.inode[j].type = "dir"
  BY <1>1 DEF Dirs, InUse, Disk
<1>3. lookup(d, i, ".") = i
  BY <1>1, <1>2, DotsFound
<1>4. \A j \in Ino : ToSet(d.inode[j].data) \subseteq Block /\ ToSet(d.inode[j].data) \subseteq Own(d, j)
  BY <1>1, InodeIs
<1>5. ASSUME NEW n \in Name
      PROVE  /\ Cardinality({b \in ToSet(d.inode[i].data) : d.entries[b][n] # 0}) <= 1
             /\ lookup(d, i, n) \in InUse \cup {0}
             /\ lookup(d, i, n) \in Dirs => /\ NamesOf(lookup(d, i, n)) = {<<i, n>>}
                                            /\ lookup(d, lookup(d, i, n), "..") = i
  <2> DEFINE c == lookup(d, i, n)
  <2>0. n \in AnyName /\ 0 \notin Ino
    BY NameIsAny, Constants DEF Ino
  <2>1. Cardinality({b \in ToSet(d.inode[i].data) : d.entries[b][n] # 0}) <= 1
    <3> DEFINE B == {b \in ToSet(d.inode[i].data) : d.entries[b][n] # 0}
    <3>1. \A b \in ToSet(d.inode[i].data) : Entry(d, b, n) = d.entries[b][n]
      BY <1>2 DEF Entry, Live
    <3>2. \A a, b \in B : a = b
      BY <1>1, <1>2, <3>1 DEF Once
    <3> HIDE DEF B
    <3>3. B = {} \/ \E b : B = {b}
      BY <3>2
    <3>4. Cardinality(B) = 0 \/ Cardinality(B) = 1
      BY <3>3, FS_EmptySet, FS_Singleton
    <3>5. Cardinality(B) <= 1
      BY <3>4
    <3> QED BY <3>5 DEF B
  <2>2. \/ c = 0
        \/ c \in Ino /\ \E b \in ToSet(d.inode[i].data) : Entry(d, b, n) = c
    BY <1>1, <1>2, <2>0, LookupIs
  <2>3. c \in InUse \cup {0}
    BY <1>1, <1>2, <1>4, <2>0, <2>2 DEF Leads, InUse
  <2>4. ASSUME c \in Dirs
        PROVE  NamesOf(c) = {<<i, n>>} /\ lookup(d, c, "..") = i
    <3>1. c \in Ino /\ c # 0 /\ d.inode[c].type = "dir"
      BY <1>2, <2>0, <2>4
    <3>2. PICK b \in ToSet(d.inode[i].data) : Entry(d, b, n) = c
      BY <2>2, <3>1
    <3> HIDE DEF d
    <3>3. ASSUME NEW j \in Dirs, NEW m \in Name, lookup(d, j, m) = c PROVE j = i /\ m = n
      <4>1. PICK a \in ToSet(d.inode[j].data) : Entry(d, a, m) = c
        <5>1. m \in AnyName
          BY NameIsAny
        <5> QED BY <1>1, <1>2, <3>1, <3>3, <5>1, LookupIs
      <4>2. a = b /\ m = n
        BY <1>1, <1>2, <1>4, <3>1, <3>2, <4>1 DEF Single
      <4>3. a \in Own(d, j) /\ a \in Own(d, i)
        BY <1>2, <1>4, <3>2, <4>1, <4>2
      <4> QED BY <1>1, <1>2, <4>2, <4>3 DEF Apart
    <3>4. NamesOf(c) = {<<i, n>>}
      <4>1. NamesOf(c) = {e \in Dirs \X Name : lookup(d, e[1], e[2]) = c}
        BY DEF NamesOf, d
      <4>2. lookup(d, i, n) = c
        OBVIOUS
      <4> HIDE DEF c
      <4> QED BY <3>3, <4>1, <4>2
    <3>5. Child(d, i, n, c)
      BY <1>2, <3>2 DEF Child
    <3>6. Parent(d, c) = i
      BY <1>1, <1>2, <3>1, <3>5 DEF Back
    <3> QED BY <1>1, <3>1, <3>4, <3>6, DotsFound
  <2> QED BY <2>1, <2>3, <2>4
<1> QED BY <1>3, <1>5

\* Whatever mkdir!, rm!, rmdir! and mv! do to the tree, throwing half-way
\* included, a name leads to an inode in use, is in its directory once, and a
\* directory has one name and a .. that leads back to it, unless the disk is spoiled.
THEOREM NamesLeadTheorem == Spec => []NamesLead
BY SoundDiskTheorem, SoundLeads, PTL

\* What lookup finds is what a directory has under a name.
LEMMA ChildFound ==
  ASSUME NEW d, Sound(d), NEW i \in Ino, NEW c \in Ino, NEW n \in Name
  PROVE  Child(d, i, n, c) <=> d.inode[i].type = "dir" /\ lookup(d, i, n) = c
<1>0. d \in Disk /\ Once(d) /\ n \in AnyName
  BY NameIsAny DEF Sound, Tree
<1>1. ASSUME d.inode[i].type = "dir", lookup(d, i, n) = c PROVE Child(d, i, n, c)
  BY <1>0, <1>1, LookupIs, RootIn DEF Child
<1>2. ASSUME Child(d, i, n, c) PROVE d.inode[i].type = "dir" /\ lookup(d, i, n) = c
  <2>1. PICK b \in ToSet(d.inode[i].data) : Entry(d, b, n) = c /\ d.inode[i].type = "dir"
    BY <1>2 DEF Child
  <2>2. lookup(d, i, n) \in Ino /\ \E a \in ToSet(d.inode[i].data) : Entry(d, a, n) = lookup(d, i, n)
    BY <1>0, <2>1, LookupIs, RootIn
  <2>3. PICK a \in ToSet(d.inode[i].data) : Entry(d, a, n) = lookup(d, i, n)
    BY <2>2
  <2>4. a = b
    BY <1>0, <2>1, <2>2, <2>3, RootIn DEF Once
  <2> QED BY <2>1, <2>3, <2>4
<1> QED BY <1>1, <1>2

\* On a sound disk, type and bitmap agree on what is in use.
LEMMA UsedIs ==
  ASSUME Sound(disk)
  PROVE  /\ InUse = {i \in Ino : disk.inode[i].type # "none"}
         /\ Dirs = {i \in Ino : disk.inode[i].type = "dir"}
<1>1. disk.inodes \subseteq Ino /\ Fresh(disk)
  BY DEF Sound, Disk
<1>2. InUse = {i \in Ino : disk.inode[i].type # "none"}
  BY <1>1 DEF InUse, Fresh
<1> QED BY <1>2 DEF Dirs

\* The names of an inode are the places it is a child of.
LEMMA NamesAre ==
  ASSUME Sound(disk), NEW c \in Ino
  PROVE  NamesOf(c) = {e \in Ino \X Name : Child(disk, e[1], e[2], c)}
<1>1. Dirs = {i \in Ino : disk.inode[i].type = "dir"}
  BY UsedIs
<1>2. \A i \in Ino, n \in Name :
        Child(disk, i, n, c) <=> disk.inode[i].type = "dir" /\ lookup(disk, i, n) = c
  BY ChildFound
<1>3. NamesOf(c) \subseteq {e \in Ino \X Name : Child(disk, e[1], e[2], c)}
  <2> SUFFICES ASSUME NEW i \in Dirs, NEW n \in Name, lookup(disk, i, n) = c
               PROVE  i \in Ino /\ Child(disk, i, n, c)
    BY DEF NamesOf
  <2> QED BY <1>1, <1>2
<1>4. {e \in Ino \X Name : Child(disk, e[1], e[2], c)} \subseteq NamesOf(c)
  <2> SUFFICES ASSUME NEW i \in Ino, NEW n \in Name, Child(disk, i, n, c)
               PROVE  i \in Dirs /\ lookup(disk, i, n) = c
    BY DEF NamesOf
  <2> QED BY <1>1, <1>2
<1> QED BY <1>3, <1>4

\* of what is lost,
LEMMA SoundLeakless == SoundDisk => NothingLeaks
<1> SUFFICES ASSUME Sound(disk), Reached(disk, 0)
             PROVE  /\ disk.inodes = InUse
                    /\ \A i \in InUse \ {Root} : NamesOf(i) # {}
                    /\ disk.blocks = UNION {ToSet(Mapped(i)) : i \in InUse}
  BY DEF SoundDisk, Fit, Whole, NothingLeaks
<1>1. disk \in Disk /\ disk.inodes \subseteq Ino /\ Apart(disk) /\ Fresh(disk)
  BY DEF Sound, Disk
<1>2. disk.inodes = InUse
  BY <1>1, RootIn DEF InUse, Reached
<1>3. ASSUME NEW i \in InUse \ {Root} PROVE NamesOf(i) # {}
  <2>1. i \in Ino /\ Named(disk, i)
    BY <1>1, <1>2, RootIn DEF Reached
  <2>2. PICK j \in Ino, n \in Name : Child(disk, j, n, i)
    BY <2>1 DEF Named
  <2>3. <<j, n>> \in NamesOf(i)
    BY <2>1, <2>2, NamesAre
  <2> QED BY <2>3
<1>4. \A i : ToSet(Mapped(i)) = Own(disk, i)
  BY DEF Mapped, Own
<1>5. ASSUME NEW b \in disk.blocks PROVE \E i \in InUse : b \in Own(disk, i)
  <2>1. PICK i \in Ino : b \in Own(disk, i)
    BY DEF Reached
  <2>2. disk.inode[i].type # "none"
    <3> SUFFICES ASSUME disk.inode[i].type = "none" PROVE FALSE
      OBVIOUS
    <3>1. disk.inode[i].data = <<>> /\ disk.inode[i].ind = <<>> /\ ToSet(<<>>) = {}
      BY <1>1 DEF Fresh, ToSet
    <3> QED BY <1>1, <2>1, <3>1, InodeIs
  <2> QED BY <2>1, <2>2, UsedIs
<1>6. \A i \in InUse : Own(disk, i) \subseteq disk.blocks
  BY <1>1, <1>2 DEF Apart
<1> QED BY <1>2, <1>3, <1>4, <1>5, <1>6

\* The subdirectories of a directory by name, and by inode
LEMMA SubdirsAre ==
  ASSUME Sound(disk), NEW i \in Dirs
  PROVE  Cardinality(Subdirs(i)) = Cardinality(Kids(disk, i))
<1>1. Dirs = {j \in Ino : disk.inode[j].type = "dir"} /\ i \in Ino
  BY UsedIs
<1>2. \A c \in Ino, n \in Name :
        Child(disk, i, n, c) <=> disk.inode[i].type = "dir" /\ lookup(disk, i, n) = c
  BY <1>1, ChildFound
<1>3. Subdirs(i) = {n \in Name : \E c \in Kids(disk, i) : Child(disk, i, n, c)}
  BY <1>1, <1>2 DEF Subdirs, Kids
<1>4. ASSUME NEW c \in Ino, NEW m \in Name, NEW n \in Name,
             Child(disk, i, m, c), Child(disk, i, n, c)
      PROVE  m = n
  <2>1. ToSet(disk.inode[i].data) \subseteq Block /\ Single(disk)
    BY <1>1, InodeIs DEF Sound
  <2> QED BY <1>4, <2>1, RootIn DEF Single, Child
<1> DEFINE K == Kids(disk, i)
           S == Subdirs(i)
           f == [c \in K |-> CHOOSE n \in Name : Child(disk, i, n, c)]
<1>5. ASSUME NEW c \in K PROVE c \in Ino /\ f[c] \in Name /\ Child(disk, i, f[c], c)
  <2>1. c \in Ino /\ \E n \in Name : Child(disk, i, n, c)
    BY DEF Kids
  <2> QED BY <2>1
<1>6. f \in [K -> S]
  <2>1. \A c \in K : f[c] \in S
    BY <1>3, <1>5
  <2> QED BY <2>1
<1>7. DOMAIN f = K
  OBVIOUS
<1>8. ASSUME NEW a \in K, NEW b \in K, f[a] = f[b] PROVE a = b
  <2>1. lookup(disk, i, f[a]) = a /\ lookup(disk, i, f[b]) = b
    BY <1>2, <1>5
  <2> QED BY <1>8, <2>1
<1>9. ASSUME NEW n \in S PROVE \E c \in K : f[c] = n
  <2>1. PICK c \in K : n \in Name /\ Child(disk, i, n, c)
    BY <1>3
  <2>2. f[c] = n
    BY <1>4, <1>5, <2>1
  <2> QED BY <2>1, <2>2
<1>10. IsFiniteSet(K)
  BY KidsFinite
<1> HIDE DEF K, S, f
<1>11. f \in Bijection(K, S)
  BY <1>6, <1>7, <1>8, <1>9 DEF Bijection, Injection, Surjection, IsInjective
<1>12. Cardinality(S) = Cardinality(K)
  BY <1>10, <1>11, FS_Bijection DEF ExistsBijection
<1> QED BY <1>12 DEF K, S

\* and of link counts.
LEMMA SoundLinked == SoundDisk => LinksAgree
<1> SUFFICES ASSUME Sound(disk), Linked(disk), NEW i \in InUse, i = Root \/ NamesOf(i) # {}
             PROVE  disk.inode[i].links = IF i \in Dirs THEN 2 + Cardinality(Subdirs(i))
                                          ELSE Cardinality(NamesOf(i))
  BY DEF SoundDisk, Fit, LinksAgree
<1>0. disk \in Disk /\ Apart(disk) /\ Single(disk) /\ Rooted(disk)
  BY DEF Sound, Linked, Owed
<1>1. i \in Ino /\ disk.inode[i].type # "none" /\ (i \in Dirs <=> disk.inode[i].type = "dir")
  BY UsedIs
<1>2. CASE i \in Dirs
  <2>1. disk.inode[i].links = 2 + Cardinality(Kids(disk, i)) + 0
    BY <1>1, <1>2 DEF Linked, Owed
  <2>2. Cardinality(Kids(disk, i)) \in Nat
    BY KidsFinite
  <2>3. Cardinality(Subdirs(i)) = Cardinality(Kids(disk, i))
    BY <1>2, SubdirsAre
  <2> QED BY <1>2, <2>1, <2>2, <2>3
<1>3. CASE i \notin Dirs
  <2>1. disk.inode[i].links = 1
    <3>1. disk.inode[i] \in Inode /\ disk.inode[i].type # "dir"
      BY <1>0, <1>1, <1>3, InodeIs
    <3>2. disk.inode[i].type \in {"file", "symlink"}
      BY <1>1, <3>1 DEF Inode
    <3> QED BY <1>1, <3>2 DEF Linked, Owed
  <2>2. i # Root
    BY <1>0, <1>1, <1>3 DEF Rooted
  <2>3. PICK e \in NamesOf(i) : TRUE
    BY <2>2
  <2>4. ASSUME NEW f \in NamesOf(i), NEW g \in NamesOf(i) PROVE f = g
    <3>1. /\ f \in Ino \X Name /\ Child(disk, f[1], f[2], i)
          /\ g \in Ino \X Name /\ Child(disk, g[1], g[2], i)
      BY <1>1, NamesAre
    <3>2. PICK a \in ToSet(disk.inode[f[1]].data) : Entry(disk, a, f[2]) = i
      BY <3>1 DEF Child
    <3>3. PICK b \in ToSet(disk.inode[g[1]].data) : Entry(disk, b, g[2]) = i
      BY <3>1 DEF Child
    <3>4. a \in Own(disk, f[1]) /\ b \in Own(disk, g[1]) /\ a \in Block /\ b \in Block
      BY <1>0, <3>1, <3>2, <3>3, InodeIs
    <3>5. a = b /\ f[2] = g[2]
      BY <1>0, <1>1, <3>1, <3>2, <3>3, <3>4, RootIn DEF Single
    <3>6. f[1] = g[1]
      BY <1>0, <3>1, <3>4, <3>5 DEF Apart
    <3> QED BY <3>1, <3>5, <3>6
  <2>5. NamesOf(i) = {e}
    BY <2>3, <2>4
  <2>6. Cardinality(NamesOf(i)) = 1
    BY <2>5, FS_Singleton
  <2> QED BY <1>3, <2>1, <2>6
<1> QED BY <1>2, <1>3

\* The link counts that mkdir!, rmdir! and mv! step up and down stay what e2fsck
\* would count in the tree, operations that threw half-way included, unless the
\* disk is spoiled.
THEOREM LinksAgreeTheorem == Spec => []LinksAgree
BY SoundDiskTheorem, SoundLinked, PTL

\* Until an operation threw half-way, every inode that is marked used has a name,
\* and every block an inode: release-inode! and free-blocks! forget nothing.
THEOREM NothingLeaksTheorem == Spec => []NothingLeaks
BY SoundDiskTheorem, SoundLeakless, PTL
=============================================================================
