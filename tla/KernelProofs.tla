---------------------------- MODULE KernelProofs ----------------------------
(***************************************************************************)
(* Proofs about two parts of the kernel that other code builds on, the     *)
(* allocator (Malloc) and the graphics core (Gfx).                         *)
(*                                                                         *)
(* The allocator, for every heap, every set of classes and every sequence  *)
(* of sizes and alignments.  The functions of malloc.c are put together    *)
(* from five moves: take a block, write inside it, give it to the caller,  *)
(* drop it, push it on its list.  Between two moves one block, x, is in    *)
(* the allocator's hands: neither held nor free.  The invariant Good is    *)
(* stated of explicit memory, lists and holdings and of x, one lemma per   *)
(* move says that the move keeps it, and an action is a composition of     *)
(* moves.                                                                  *)
(*                                                                         *)
(* The graphics core, for every screen, pointer and number of surfaces and *)
(* every argument.  An operation draws d, the part of what was asked for   *)
(* that falls on its surface (Fits); DrawInv says that such a drawing      *)
(* keeps the invariant whether or not it meets the pointer, and each       *)
(* operation is shown to draw such a d: by clipping, by scaling, or, for a *)
(* copy, because no row is overwritten before it is read.                  *)
(***************************************************************************)
EXTENDS Malloc, Gfx, WellFoundedInduction, TLAPS

Cell == Headers \cup Links \cup Datums
Held == [n : Nat \cup {-1}, align : Nat, kept : Nat, val : Data]

Types(m, fl, b, bl, hd) ==
  /\ m \in [Heap -> Cell]
  /\ fl \in [Class -> Heap \cup {Null}]
  /\ b \in 1 .. HeapCells + 1
  /\ bl \subseteq Heap
  /\ hd \in [Heap -> Held]

Apart(m, b, bl) ==
  /\ \A h \in bl : m[h] \in Headers /\ m[h].cls \in Class /\ EndOf(m, h) < b
  /\ \A g, h \in bl : g < h => EndOf(m, g) < h

HeldIn(m, bl, hd) ==
  /\ \A p \in LiveIn(hd) :
       /\ p > 1 /\ m[p - 1] \in Headers
       /\ header_of(m, p) \in bl
       /\ header_of(m, p) < p /\ p <= EndOf(m, header_of(m, p))
  /\ \A p, q \in LiveIn(hd) : header_of(m, p) = header_of(m, q) => p = q

\* The free blocks while x is in the allocator's hands
FreeIn(m, bl, hd, x) ==
  {h \in bl : h # x /\ \A p \in LiveIn(hd) : header_of(m, p) # h}

ListsIn(m, fl, bl, hd, x) ==
  /\ \A c \in Class : fl[c] # Null =>
       fl[c] \in FreeIn(m, bl, hd, x) /\ m[fl[c]].cls = c
  /\ \A h \in FreeIn(m, bl, hd, x) :
       /\ m[h + 1] \in Links
       /\ m[h + 1].next # Null =>
            /\ m[h + 1].next \in FreeIn(m, bl, hd, x)
            /\ m[m[h + 1].next].cls = m[h].cls
            /\ m[h + 1].next # fl[m[h].cls]
            /\ \A g \in FreeIn(m, bl, hd, x) : m[g + 1].next = m[h + 1].next => g = h
       /\ h # fl[m[h].cls] => \E g \in FreeIn(m, bl, hd, x) : m[g + 1].next = h

KeptIn(m, hd) ==
  \A p \in LiveIn(hd) :
    /\ hd[p].kept <= EndOf(m, header_of(m, p)) - p + 1
    /\ \A k \in 0 .. hd[p].kept - 1 : m[p + k] = Datum(hd[p].val)

\* r, at p, has the room and the alignment that was asked for, up to cell e.
Room(p, e, r) == r.n <= (e - p + 1) * Align /\ p % r.align = 0
RoomIn(m, hd) == \A p \in LiveIn(hd) : Room(p, EndOf(m, header_of(m, p)), hd[p])

InHand(m, bl, hd, x) ==
  x = Null \/ (x \in bl /\ \A p \in LiveIn(hd) : header_of(m, p) # x)

Good(m, fl, b, bl, hd, x) ==
  /\ Types(m, fl, b, bl, hd)
  /\ Apart(m, b, bl)
  /\ HeldIn(m, bl, hd)
  /\ ListsIn(m, fl, bl, hd, x)
  /\ KeptIn(m, hd) /\ RoomIn(m, hd)
  /\ InHand(m, bl, hd, x)

IInv == Good(mem, free_lists, brk, blocks, held, Null)

-----------------------------------------------------------------------------
\* Sizes and classes

\* The arithmetic part of MallocAssumption
LEMMA Constants ==
  /\ Align \in Nat /\ Align > 0
  /\ SmallCount \in Nat /\ SmallCount > 0 /\ LargeCount \in Nat
  /\ HeapCells \in Nat /\ Sizes \subseteq Nat /\ Zero \in Data
  /\ \A a \in Aligns : a \in Nat /\ a > 1
BY MallocAssumption DEF MallocAssumption

\* A product of positive numbers is positive.
LEMMA Product ==
  ASSUME NEW i \in Nat, NEW j \in Nat, i > 0, j > 0
  PROVE  i * j \in Nat /\ i * j > 0
OBVIOUS

\* A block has at least one cell.
LEMMA ClassCellsType ==
  ASSUME NEW c \in Class
  PROVE  ClassCells(c) \in Nat /\ ClassCells(c) > 0
<1>1. CASE c < SmallCount
  BY <1>1, Constants DEF ClassCells, Class, Classes
<1>2. CASE ~(c < SmallCount)
  <2>1. c - SmallCount \in 0 .. LargeCount
    BY <1>2, Constants DEF Class, Classes
  <2>2. 2 ^ (c - SmallCount) \in Nat /\ 2 ^ (c - SmallCount) > 0
    <3> DEFINE k == c - SmallCount
    <3>1. \A i \in 0 .. LargeCount : 2 ^ i \in Nat \ {0}
      BY MallocAssumption, Zenon DEF MallocAssumption
    <3>2. 2 ^ k \in Nat \ {0}
      BY <2>1, <3>1, Zenon
    <3> HIDE DEF k
    <3>3. 2 ^ k \in Nat /\ 2 ^ k > 0
      BY <3>2
    <3>4. QED
      BY <3>3 DEF k
  <2>3. 2 * SmallCount \in Nat /\ 2 * SmallCount > 0
    BY Constants
  <2>4. QED
    BY <1>2, <2>2, <2>3, Product DEF ClassCells
<1>3. QED
  BY <1>1, <1>2

\* A block of class_of(n) holds n bytes.
LEMMA ClassFits ==
  ASSUME NEW n \in Nat, class_of(n) # Classes
  PROVE  class_of(n) \in Class /\ n <= ClassCells(class_of(n)) * Align
<1>1. CASE n = 0
  BY <1>1, Constants, ClassCellsType, Product DEF class_of, SmallMax, Class, Classes
<1>2. CASE n > 0 /\ n <= SmallMax
  <2> DEFINE c == (n - 1) \div Align
  <2>1. class_of(n) = c
    BY <1>2 DEF class_of
  <2>2. c \in Nat /\ c * Align <= n - 1 /\ n - 1 < (c + 1) * Align
    BY <1>2, Constants
  <2>3. c < SmallCount
    BY <1>2, <2>2, Constants DEF SmallMax
  <2>4. QED
    BY <2>1, <2>2, <2>3, Constants DEF ClassCells, Class, Classes
<1>3. CASE n > SmallMax
  <2> DEFINE fit == {c \in SmallCount .. Classes - 1 : n <= class_size(c)}
  <2>1. n > SmallMax /\ SmallMax \in Nat
    BY <1>3, Constants, Product DEF SmallMax
  <2>2. fit # {} /\ class_of(n) = CHOOSE c \in fit : \A d \in fit : c <= d
    BY <2>1 DEF class_of
  <2>3. \E c \in fit : \A d \in fit : c <= d
    BY <2>2
  <2>4. class_of(n) \in fit
    BY <2>2, <2>3
  <2>5. QED
    BY <2>4, Constants DEF class_size, Class, Classes
<1>4. QED
  <2>1. SmallMax \in Nat
    BY Constants, Product DEF SmallMax
  <2>2. QED
    BY <1>1, <1>2, <1>3, <2>1

-----------------------------------------------------------------------------
\* Cells and blocks

\* The extent of a block is inside the heap.
LEMMA Extent ==
  ASSUME NEW m, NEW fl, NEW b, NEW bl, NEW hd, Types(m, fl, b, bl, hd),
         Apart(m, b, bl), NEW h \in bl
  PROVE  /\ h \in Nat /\ h >= 1 /\ m[h].cls \in Class
         /\ EndOf(m, h) \in Nat /\ h < EndOf(m, h) /\ EndOf(m, h) <= HeapCells
<1>1. h \in Nat /\ h >= 1 /\ b \in Nat /\ b <= HeapCells + 1
  BY Constants DEF Types, Heap
<1>2. m[h].cls \in Class /\ EndOf(m, h) < b
  BY DEF Apart
<1>3. ClassCells(m[h].cls) \in Nat /\ ClassCells(m[h].cls) > 0
  BY <1>2, ClassCellsType
<1>4. QED
  BY <1>1, <1>2, <1>3, Constants DEF EndOf

\* Two blocks have no cell in common.
LEMMA NoCommonCell ==
  ASSUME NEW m, NEW fl, NEW b, NEW bl, NEW hd, Types(m, fl, b, bl, hd),
         Apart(m, b, bl), NEW g \in bl, NEW h \in bl, g # h,
         NEW k \in Int, g <= k, k <= EndOf(m, g)
  PROVE  ~(h <= k /\ k <= EndOf(m, h))
<1>1. g \in Nat /\ h \in Nat /\ EndOf(m, g) \in Nat /\ EndOf(m, h) \in Nat
  BY Extent
<1>2. g < h => EndOf(m, g) < h
  BY DEF Apart
<1>3. h < g => EndOf(m, h) < g
  BY DEF Apart
<1>4. QED
  BY <1>1, <1>2, <1>3

\* The pointer of a caller, the cell before it and what it keeps lie in its
\* block.
LEMMA InBlock ==
  ASSUME NEW m, NEW fl, NEW b, NEW bl, NEW hd, NEW x, Good(m, fl, b, bl, hd, x),
         NEW p \in LiveIn(hd)
  PROVE  /\ header_of(m, p) \in bl /\ header_of(m, p) \in Nat
         /\ EndOf(m, header_of(m, p)) \in Nat
         /\ p \in Nat /\ p - 1 \in Heap
         /\ header_of(m, p) <= p - 1
         /\ p <= EndOf(m, header_of(m, p))
         /\ EndOf(m, header_of(m, p)) <= HeapCells
         /\ hd[p].kept \in Nat
         /\ p + hd[p].kept - 1 <= EndOf(m, header_of(m, p))
<1>1. p \in Heap /\ hd[p] \in Held
  BY DEF Good, Types, LiveIn
<1>2. p > 1 /\ header_of(m, p) \in bl /\ header_of(m, p) < p
      /\ p <= EndOf(m, header_of(m, p))
  BY DEF Good, HeldIn
<1>3. /\ header_of(m, p) \in Nat /\ EndOf(m, header_of(m, p)) \in Nat
      /\ EndOf(m, header_of(m, p)) <= HeapCells
  BY <1>2, Extent DEF Good
<1>4. hd[p].kept \in Nat
  BY <1>1 DEF Held
<1>5. hd[p].kept <= EndOf(m, header_of(m, p)) - p + 1
  BY DEF Good, KeptIn
<1>6. QED
  BY <1>1, <1>2, <1>3, <1>4, <1>5, Constants DEF Heap

-----------------------------------------------------------------------------
\* The five moves

\* Memory m2 differs from m inside block x only, and tells its class.
Inside(m, m2, x) ==
  /\ m2[x] \in Headers /\ m2[x].cls = m[x].cls
  /\ \A k \in Heap : ~(x <= k /\ k <= EndOf(m, x)) => m2[k] = m[k]

\* Writing inside the block in hand disturbs nothing.
LEMMA WriteInside ==
  ASSUME NEW m, NEW m2, NEW fl, NEW b, NEW bl, NEW hd, NEW x,
         Good(m, fl, b, bl, hd, x), x # Null,
         m2 \in [Heap -> Cell], Inside(m, m2, x)
  PROVE  /\ Good(m2, fl, b, bl, hd, x)
         /\ EndOf(m2, x) = EndOf(m, x)
<1> USE DEF Good
<1>0. x \in bl /\ \A p \in LiveIn(hd) : header_of(m, p) # x
  BY DEF InHand
<1>1. \A h \in bl : h # x => m2[h] = m[h]
  <2> SUFFICES ASSUME NEW h \in bl, h # x PROVE m2[h] = m[h]
    OBVIOUS
  <2>1. h \in Heap /\ h <= EndOf(m, h) /\ h \in Int
    BY Extent DEF Types
  <2>2. ~(x <= h /\ h <= EndOf(m, x))
    BY <1>0, <2>1, NoCommonCell
  <2>3. QED
    BY <2>1, <2>2 DEF Inside
<1>2. \A h \in bl : m2[h].cls = m[h].cls /\ EndOf(m2, h) = EndOf(m, h)
  BY <1>1 DEF EndOf, Inside
<1>3. \A g \in bl, k \in Heap : g # x /\ g <= k /\ k <= EndOf(m, g) => m2[k] = m[k]
  <2> SUFFICES ASSUME NEW g \in bl, NEW k \in Heap, g # x, g <= k, k <= EndOf(m, g)
               PROVE  m2[k] = m[k]
    OBVIOUS
  <2>1. ~(x <= k /\ k <= EndOf(m, x))
    BY <1>0, NoCommonCell DEF Heap
  <2>2. QED
    BY <2>1 DEF Inside
<1>4. \A p \in LiveIn(hd) : m2[p - 1] = m[p - 1] /\ header_of(m2, p) = header_of(m, p)
  <2> SUFFICES ASSUME NEW p \in LiveIn(hd) PROVE m2[p - 1] = m[p - 1]
    BY DEF header_of
  <2>1. /\ header_of(m, p) \in bl /\ p - 1 \in Heap /\ header_of(m, p) <= p - 1
        /\ p - 1 <= EndOf(m, header_of(m, p))
    BY InBlock
  <2>2. QED
    BY <2>1, <1>0, <1>3
<1>5. Types(m2, fl, b, bl, hd)
  BY DEF Types
<1>6. Apart(m2, b, bl)
  BY <1>1, <1>2 DEF Apart, Inside
<1>7. HeldIn(m2, bl, hd)
  BY <1>2, <1>4 DEF HeldIn
<1>8. FreeIn(m2, bl, hd, x) = FreeIn(m, bl, hd, x)
  BY <1>4 DEF FreeIn
<1>9. ListsIn(m2, fl, bl, hd, x)
  <2>1. \A h \in FreeIn(m, bl, hd, x) : h \in bl /\ m2[h] = m[h] /\ m2[h + 1] = m[h + 1]
    <3> SUFFICES ASSUME NEW h \in FreeIn(m, bl, hd, x)
                 PROVE  h \in bl /\ m2[h] = m[h] /\ m2[h + 1] = m[h + 1]
      OBVIOUS
    <3>1. h \in bl /\ h # x
      BY DEF FreeIn
    <3>2. h + 1 \in Heap /\ h <= h + 1 /\ h + 1 <= EndOf(m, h)
      BY <3>1, Extent, Constants DEF Heap
    <3>3. QED
      BY <3>1, <3>2, <1>1, <1>3
  <2>2. QED
    BY <2>1, <1>8 DEF ListsIn
<1>10. KeptIn(m2, hd)
  <2> SUFFICES ASSUME NEW p \in LiveIn(hd)
               PROVE  /\ hd[p].kept <= EndOf(m2, header_of(m2, p)) - p + 1
                      /\ \A k \in 0 .. hd[p].kept - 1 : m2[p + k] = Datum(hd[p].val)
    BY DEF KeptIn
  <2>1. header_of(m, p) \in bl /\ header_of(m, p) # x
    BY InBlock, <1>0
  <2>2. hd[p].kept <= EndOf(m2, header_of(m2, p)) - p + 1
    BY <2>1, <1>2, <1>4 DEF KeptIn
  <2>3. ASSUME NEW k \in 0 .. hd[p].kept - 1 PROVE m2[p + k] = m[p + k]
    <3>1. p + k \in Heap /\ header_of(m, p) <= p + k /\ p + k <= EndOf(m, header_of(m, p))
      BY InBlock, Constants DEF Heap
    <3>2. QED
      BY <3>1, <2>1, <1>3
  <2>4. QED
    BY <2>2, <2>3 DEF KeptIn
<1>11. InHand(m2, bl, hd, x)
  BY <1>0, <1>4 DEF InHand
<1>12. RoomIn(m2, hd)
  BY <1>2, <1>4, InBlock DEF RoomIn
<1>13. QED
  BY <1>0, <1>2, <1>5, <1>6, <1>7, <1>9, <1>10, <1>11, <1>12

\* Giving the block in hand to a caller, at an address that leads back to it.
LEMMA Give ==
  ASSUME NEW m, NEW fl, NEW b, NEW bl, NEW hd, NEW x,
         Good(m, fl, b, bl, hd, x), x # Null,
         NEW p \in Heap, p > 1, x < p, p <= EndOf(m, x),
         m[p - 1] \in Headers, header_of(m, p) = x,
         NEW r \in Held, r.n # -1, r.kept <= EndOf(m, x) - p + 1,
         \A k \in 0 .. r.kept - 1 : m[p + k] = Datum(r.val),
         Room(p, EndOf(m, x), r)
  PROVE  Good(m, fl, b, bl, [hd EXCEPT ![p] = r], Null)
<1> DEFINE hd2 == [hd EXCEPT ![p] = r]
<1>0. x \in bl /\ \A q \in LiveIn(hd) : header_of(m, q) # x
  BY DEF Good, InHand
<1>1. hd \in [Heap -> Held] /\ bl \subseteq Heap
  BY DEF Good, Types
<1>2. hd2 \in [Heap -> Held] /\ hd2[p] = r /\ \A q \in Heap : q # p => hd2[q] = hd[q]
  BY <1>1
<1>3. p \notin LiveIn(hd)
  BY <1>0
<1> HIDE DEF hd2
<1>4. LiveIn(hd2) = LiveIn(hd) \cup {p}
  BY <1>2 DEF LiveIn
<1>5. Types(m, fl, b, bl, hd2)
  BY <1>2 DEF Good, Types
<1>6. HeldIn(m, bl, hd2)
  BY <1>0, <1>4 DEF Good, HeldIn
<1>7. FreeIn(m, bl, hd2, Null) = FreeIn(m, bl, hd, x)
  BY <1>0, <1>1, <1>4 DEF FreeIn, Heap, Null
<1>8. ListsIn(m, fl, bl, hd2, Null)
  <2>1. ListsIn(m, fl, bl, hd, x)
    BY DEF Good
  <2>2. QED
    BY <2>1, <1>7 DEF ListsIn
<1>9. KeptIn(m, hd2)
  <2>1. \A q \in LiveIn(hd) : q \in Heap /\ hd2[q] = hd[q]
    BY <1>2, <1>3 DEF LiveIn
  <2>2. KeptIn(m, hd)
    BY DEF Good
  <2>3. QED
    BY <1>2, <1>4, <2>1, <2>2 DEF KeptIn
<1>10. RoomIn(m, hd2)
  <2>1. \A q \in LiveIn(hd) : q \in Heap /\ hd2[q] = hd[q]
    BY <1>2, <1>3 DEF LiveIn
  <2>2. QED
    BY <1>2, <1>4, <2>1 DEF Good, RoomIn
<1>11. QED
  BY <1>5, <1>6, <1>8, <1>9, <1>10 DEF Good, InHand, hd2

\* Taking what a caller holds back in hand.
LEMMA Drop ==
  ASSUME NEW m, NEW fl, NEW b, NEW bl, NEW hd, Good(m, fl, b, bl, hd, Null),
         NEW p \in LiveIn(hd)
  PROVE  Good(m, fl, b, bl, [hd EXCEPT ![p] = NotHeld], header_of(m, p))
<1> DEFINE hd2 == [hd EXCEPT ![p] = NotHeld]
           x == header_of(m, p)
<1>0. /\ x \in bl /\ p \in Heap
      /\ \A q \in LiveIn(hd) : q # p => header_of(m, q) # x
  BY DEF Good, HeldIn, LiveIn
<1>1. hd \in [Heap -> Held] /\ bl \subseteq Heap
  BY DEF Good, Types
<1>2. NotHeld \in Held /\ NotHeld.n = -1
  BY Constants DEF NotHeld, Holding, Held
<1>3. hd2 \in [Heap -> Held] /\ hd2[p].n = -1 /\ \A q \in Heap : q # p => hd2[q] = hd[q]
  BY <1>0, <1>1, <1>2
<1> HIDE DEF hd2
<1>4. LiveIn(hd2) = LiveIn(hd) \ {p}
  BY <1>3 DEF LiveIn
<1>5. Types(m, fl, b, bl, hd2)
  BY <1>3 DEF Good, Types
<1>6. HeldIn(m, bl, hd2)
  BY <1>4 DEF Good, HeldIn
<1>7. FreeIn(m, bl, hd2, x) = FreeIn(m, bl, hd, Null)
  BY <1>0, <1>1, <1>4 DEF FreeIn, Heap, Null
<1>8. ListsIn(m, fl, bl, hd2, x)
  <2>1. ListsIn(m, fl, bl, hd, Null)
    BY DEF Good
  <2>2. QED
    BY <2>1, <1>7 DEF ListsIn
<1>9. KeptIn(m, hd2)
  <2>1. \A q \in LiveIn(hd2) : q \in LiveIn(hd) /\ hd2[q] = hd[q]
    BY <1>3, <1>4 DEF LiveIn
  <2>2. KeptIn(m, hd)
    BY DEF Good
  <2>3. QED
    BY <2>1, <2>2 DEF KeptIn
<1>10. InHand(m, bl, hd2, x)
  BY <1>0, <1>4 DEF InHand
<1>11. RoomIn(m, hd2)
  BY <1>3, <1>4 DEF Good, RoomIn, LiveIn
<1>12. QED
  BY <1>5, <1>6, <1>8, <1>9, <1>10, <1>11 DEF Good, hd2

\* Putting the block in hand, its link written, in front of its list.
LEMMA Push ==
  ASSUME NEW m, NEW fl, NEW b, NEW bl, NEW hd, NEW x,
         Good(m, fl, b, bl, hd, x), x # Null,
         m[x + 1] = Link(fl[m[x].cls])
  PROVE  Good(m, [fl EXCEPT ![m[x].cls] = x], b, bl, hd, Null)
<1> DEFINE c == m[x].cls
           fl2 == [fl EXCEPT ![c] = x]
           F == FreeIn(m, bl, hd, x)
           F2 == FreeIn(m, bl, hd, Null)
<1>0. x \in bl /\ \A q \in LiveIn(hd) : header_of(m, q) # x
  BY DEF Good, InHand
<1>1. fl \in [Class -> Heap \cup {Null}] /\ bl \subseteq Heap
  BY DEF Good, Types
<1>2. c \in Class
  BY <1>0 DEF Good, Apart
<1>3. fl2 \in [Class -> Heap \cup {Null}] /\ fl2[c] = x
      /\ \A d \in Class : d # c => fl2[d] = fl[d]
  BY <1>0, <1>1, <1>2
<1>4. F2 = F \cup {x} /\ x \notin F
  BY <1>0, <1>1 DEF FreeIn, Heap, Null
<1>5. m[x + 1] \in Links /\ m[x + 1].next = fl[c]
  BY <1>1, <1>2 DEF Link, Links
<1>6. ListsIn(m, fl, bl, hd, x)
  BY DEF Good
<1>7. \A h \in F : m[h].cls \in Class
  BY DEF Good, Apart, FreeIn
<1> HIDE DEF fl2, c
<1>8. ListsIn(m, fl2, bl, hd, Null)
  <2>1. ASSUME NEW d \in Class, fl2[d] # Null
        PROVE  fl2[d] \in F2 /\ m[fl2[d]].cls = d
    BY <2>1, <1>3, <1>4, <1>6 DEF ListsIn, c
  <2>2. ASSUME NEW h \in F2 PROVE m[h + 1] \in Links
    BY <1>4, <1>5, <1>6 DEF ListsIn
  <2>3. ASSUME NEW h \in F2, m[h + 1].next # Null
        PROVE  /\ m[h + 1].next \in F /\ m[m[h + 1].next].cls = m[h].cls
               /\ m[h + 1].next # fl2[m[h].cls]
    <3>1. CASE h = x
      BY <3>1, <2>3, <1>2, <1>3, <1>4, <1>5, <1>6 DEF ListsIn, c
    <3>2. CASE h \in F
      BY <3>2, <2>3, <1>3, <1>4, <1>6, <1>7 DEF ListsIn
    <3>3. QED
      BY <3>1, <3>2, <1>4
  <2>4. ASSUME NEW h \in F2, NEW g \in F2, m[h + 1].next # Null,
               m[g + 1].next = m[h + 1].next
        PROVE  g = h
    <3>1. CASE h = x /\ g \in F
      <4>1. m[g + 1].next = fl[c] /\ m[fl[c]].cls = c
        BY <3>1, <2>4, <1>2, <1>5, <1>6 DEF ListsIn
      <4>2. m[m[g + 1].next].cls = m[g].cls /\ m[g + 1].next # fl[m[g].cls]
        BY <3>1, <2>4, <1>6 DEF ListsIn
      <4>3. QED
        BY <4>1, <4>2
    <3>2. CASE g = x /\ h \in F
      <4>1. m[h + 1].next = fl[c] /\ m[fl[c]].cls = c
        BY <3>2, <2>4, <1>2, <1>5, <1>6 DEF ListsIn
      <4>2. m[m[h + 1].next].cls = m[h].cls /\ m[h + 1].next # fl[m[h].cls]
        BY <3>2, <2>4, <1>6 DEF ListsIn
      <4>3. QED
        BY <4>1, <4>2
    <3>3. CASE g \in F /\ h \in F
      BY <3>3, <2>4, <1>6 DEF ListsIn
    <3>4. QED
      BY <3>1, <3>2, <3>3, <1>4
  <2>5. ASSUME NEW h \in F2, h # fl2[m[h].cls]
        PROVE  \E g \in F2 : m[g + 1].next = h
    <3>1. h \in F
      BY <2>5, <1>3, <1>4 DEF c
    <3>2. CASE h = fl[m[h].cls]
      <4>1. m[h].cls = c
        BY <2>5, <3>1, <3>2, <1>3, <1>7
      <4>2. QED
        BY <4>1, <3>2, <1>4, <1>5
    <3>3. CASE h # fl[m[h].cls]
      BY <3>1, <3>3, <1>4, <1>6 DEF ListsIn
    <3>4. QED
      BY <3>2, <3>3
  <2>6. QED
    BY <2>1, <2>2, <2>3, <2>4, <2>5, <1>4 DEF ListsIn
<1>9. Types(m, fl2, b, bl, hd)
  BY <1>3 DEF Good, Types
<1>10. QED
  BY <1>8, <1>9 DEF Good, InHand, fl2, c

\* Taking the first block of a list in hand.
LEMMA Pop ==
  ASSUME NEW m, NEW fl, NEW b, NEW bl, NEW hd, Good(m, fl, b, bl, hd, Null),
         NEW c \in Class, fl[c] # Null
  PROVE  /\ fl[c] \in bl /\ m[fl[c]].cls = c
         /\ Good(m, [fl EXCEPT ![c] = m[fl[c] + 1].next], b, bl, hd, fl[c])
<1> DEFINE x == fl[c]
           fl2 == [fl EXCEPT ![c] = m[x + 1].next]
           F == FreeIn(m, bl, hd, x)
           F2 == FreeIn(m, bl, hd, Null)
<1>0. ListsIn(m, fl, bl, hd, Null)
  BY DEF Good
<1>1. x \in F2 /\ m[x].cls = c /\ m[x + 1] \in Links
  BY <1>0 DEF ListsIn
<1>2. x \in bl /\ \A q \in LiveIn(hd) : header_of(m, q) # x
  BY <1>1 DEF FreeIn
<1>3. fl \in [Class -> Heap \cup {Null}]
  BY DEF Good, Types
<1>4. m[x + 1].next \in Heap \cup {Null}
  BY <1>1 DEF Links
<1>5. fl2 \in [Class -> Heap \cup {Null}] /\ fl2[c] = m[x + 1].next
      /\ \A d \in Class : d # c => fl2[d] = fl[d]
  BY <1>3, <1>4
<1>6. F2 = F \cup {x} /\ x \notin F
  <2>1. \A h \in bl : h # Null
    BY DEF Good, Types, Heap, Null
  <2>2. QED
    BY <1>1, <2>1 DEF FreeIn
<1>7. \A h \in F : m[h].cls \in Class
  BY DEF Good, Apart, FreeIn
<1>8. \A g \in F2 : m[g + 1].next # x
  BY <1>0, <1>1, <1>3 DEF ListsIn, Heap, Null
<1> HIDE DEF fl2, x
<1>9. ListsIn(m, fl2, bl, hd, x)
  <2>1. ASSUME NEW d \in Class, fl2[d] # Null
        PROVE  fl2[d] \in F /\ m[fl2[d]].cls = d
    <3>1. CASE d = c
      BY <2>1, <3>1, <1>0, <1>1, <1>5, <1>6, <1>8 DEF ListsIn
    <3>2. CASE d # c
      <4>1. fl2[d] = fl[d] /\ fl[d] \in F2 /\ m[fl[d]].cls = d
        BY <2>1, <3>2, <1>0, <1>5 DEF ListsIn
      <4>2. QED
        BY <4>1, <3>2, <1>1, <1>6
    <3>3. QED
      BY <3>1, <3>2
  <2>2. ASSUME NEW h \in F
        PROVE  /\ m[h + 1] \in Links
               /\ m[h + 1].next # Null =>
                    /\ m[h + 1].next \in F /\ m[m[h + 1].next].cls = m[h].cls
                    /\ \A g \in F : m[g + 1].next = m[h + 1].next => g = h
    BY <1>0, <1>6, <1>8 DEF ListsIn
  <2>3. ASSUME NEW h \in F, m[h + 1].next # Null
        PROVE  m[h + 1].next # fl2[m[h].cls]
    <3>1. CASE m[h].cls = c
      <4>1. m[x + 1].next = m[h + 1].next => x = h
        BY <2>3, <1>0, <1>1, <1>6 DEF ListsIn
      <4>2. QED
        BY <4>1, <3>1, <1>5, <1>6
    <3>2. CASE m[h].cls # c
      BY <2>3, <3>2, <1>0, <1>5, <1>6, <1>7 DEF ListsIn
    <3>3. QED
      BY <3>1, <3>2
  <2>4. ASSUME NEW h \in F, h # fl2[m[h].cls]
        PROVE  \E g \in F : m[g + 1].next = h
    <3>1. h # fl[m[h].cls]
      <4>1. CASE m[h].cls = c
        BY <4>1, <1>6 DEF x
      <4>2. CASE m[h].cls # c
        BY <4>2, <2>4, <1>5, <1>7
      <4>3. QED
        BY <4>1, <4>2
    <3>2. PICK g \in F2 : m[g + 1].next = h
      BY <3>1, <1>0, <1>6 DEF ListsIn
    <3>3. g # x
      <4>1. ASSUME g = x PROVE FALSE
        <5>1. m[x + 1].next = h /\ h # Null
          BY <4>1, <3>2, <1>6 DEF FreeIn, Good, Types, Heap, Null
        <5>2. m[h].cls = c
          BY <5>1, <1>0, <1>1 DEF ListsIn
        <5>3. QED
          BY <5>1, <5>2, <2>4, <1>5
      <4>2. QED
        BY <4>1
    <3>4. QED
      BY <3>2, <3>3, <1>6
  <2>5. QED
    BY <2>1, <2>2, <2>3, <2>4 DEF ListsIn
<1>10. Types(m, fl2, b, bl, hd)
  BY <1>5 DEF Good, Types
<1>11. InHand(m, bl, hd, x)
  BY <1>2 DEF InHand
<1>12. QED
  BY <1>1, <1>2, <1>9, <1>10, <1>11 DEF Good, fl2, x

\* Getting a new block from _sbrk in hand.
LEMMA Carve ==
  ASSUME NEW m, NEW fl, NEW b, NEW bl, NEW hd, Good(m, fl, b, bl, hd, Null),
         NEW c \in Class, b + 1 + ClassCells(c) <= HeapCells + 1
  PROVE  Good([m EXCEPT ![b] = Header(c, 0)], fl, b + 1 + ClassCells(c),
              bl \cup {b}, hd, b)
<1> DEFINE m2 == [m EXCEPT ![b] = Header(c, 0)]
           b2 == b + 1 + ClassCells(c)
           bl2 == bl \cup {b}
<1>0. ClassCells(c) \in Nat /\ ClassCells(c) > 0
  BY ClassCellsType
<1>1. /\ m \in [Heap -> Cell] /\ bl \subseteq Heap
      /\ b \in Nat /\ b >= 1 /\ b2 \in 1 .. HeapCells + 1 /\ b \in Heap
  BY <1>0, Constants DEF Good, Types, Heap
<1>2. Header(c, 0) \in Headers /\ Header(c, 0).cls = c
  BY Constants DEF Header, Headers, Class, Classes
<1>3. m2 \in [Heap -> Cell] /\ m2[b] = Header(c, 0) /\ \A k \in Heap : k # b => m2[k] = m[k]
  BY <1>1, <1>2 DEF Cell
<1>4. EndOf(m2, b) = b + ClassCells(c)
  BY <1>2, <1>3 DEF EndOf
<1> HIDE DEF m2
<1>5. \A h \in bl : /\ h \in Heap /\ h < b /\ EndOf(m, h) < b /\ m2[h] = m[h]
                    /\ EndOf(m2, h) = EndOf(m, h)
  <2> SUFFICES ASSUME NEW h \in bl
               PROVE  /\ h \in Heap /\ h < b /\ EndOf(m, h) < b /\ m2[h] = m[h]
                      /\ EndOf(m2, h) = EndOf(m, h)
    OBVIOUS
  <2>1. h \in Nat /\ EndOf(m, h) \in Nat /\ h < EndOf(m, h)
    BY Extent DEF Good
  <2>2. EndOf(m, h) < b
    BY DEF Good, Apart
  <2>3. h \in Heap /\ h < b
    BY <1>1, <2>1, <2>2
  <2>4. m2[h] = m[h]
    BY <1>1, <1>3, <2>3
  <2>5. QED
    BY <2>2, <2>3, <2>4 DEF EndOf
<1>6. Types(m2, fl, b2, bl2, hd)
  BY <1>1, <1>3 DEF Good, Types
<1>7. Apart(m2, b2, bl2)
  <2>1. ASSUME NEW h \in bl2
        PROVE  m2[h] \in Headers /\ m2[h].cls \in Class /\ EndOf(m2, h) < b2
    <3>1. CASE h \in bl
      <4>1. EndOf(m, h) \in Nat
        BY <3>1, Extent DEF Good
      <4>2. QED
        BY <3>1, <4>1, <1>0, <1>1, <1>5 DEF Good, Apart
    <3>2. CASE h = b
      BY <3>2, <1>0, <1>1, <1>2, <1>3, <1>4
    <3>3. QED
      BY <3>1, <3>2
  <2>2. ASSUME NEW g \in bl2, NEW h \in bl2, g < h PROVE EndOf(m2, g) < h
    <3>1. CASE g \in bl /\ h \in bl
      BY <3>1, <2>2, <1>5 DEF Good, Apart
    <3>2. CASE g \in bl /\ h = b
      BY <3>2, <1>5
    <3>3. CASE g = b
      BY <3>3, <2>2, <1>1, <1>5 DEF Heap
    <3>4. QED
      BY <3>1, <3>2, <3>3
  <2>3. QED
    BY <2>1, <2>2 DEF Apart
<1>8. \A p \in LiveIn(hd) : m2[p - 1] = m[p - 1] /\ header_of(m2, p) = header_of(m, p)
  <2> SUFFICES ASSUME NEW p \in LiveIn(hd) PROVE m2[p - 1] = m[p - 1]
    BY DEF header_of
  <2>1. p \in Nat /\ p - 1 \in Heap /\ p <= EndOf(m, header_of(m, p))
        /\ header_of(m, p) \in bl /\ EndOf(m, header_of(m, p)) \in Nat
    BY InBlock
  <2>2. p - 1 # b
    BY <2>1, <1>1, <1>5
  <2>3. QED
    BY <2>1, <2>2, <1>3
<1>9. HeldIn(m2, bl2, hd)
  BY <1>5, <1>8 DEF Good, HeldIn
<1>10. FreeIn(m2, bl2, hd, b) = FreeIn(m, bl, hd, Null)
  BY <1>1, <1>5, <1>8 DEF FreeIn, Heap, Null
<1>11. ListsIn(m2, fl, bl2, hd, b)
  <2>1. \A h \in FreeIn(m, bl, hd, Null) : m2[h] = m[h] /\ m2[h + 1] = m[h + 1]
    <3> SUFFICES ASSUME NEW h \in FreeIn(m, bl, hd, Null)
                 PROVE  m2[h] = m[h] /\ m2[h + 1] = m[h + 1]
      OBVIOUS
    <3>1. h \in bl
      BY DEF FreeIn
    <3>2. h \in Nat /\ EndOf(m, h) \in Nat /\ h < EndOf(m, h) /\ EndOf(m, h) <= HeapCells
          /\ EndOf(m, h) < b
      BY <3>1, <1>5, Extent DEF Good
    <3>3. h + 1 \in Heap /\ h + 1 # b
      BY <3>2, <1>1, Constants DEF Heap
    <3>4. QED
      BY <3>1, <3>3, <1>3, <1>5
  <2>2. ListsIn(m, fl, bl, hd, Null)
    BY DEF Good
  <2> DEFINE F == FreeIn(m, bl, hd, Null)
  <2>3. \A d \in Class : fl[d] # Null => fl[d] \in F /\ m2[fl[d]].cls = d
    BY <2>1, <2>2 DEF ListsIn
  <2>4. ASSUME NEW h \in F
        PROVE  /\ m2[h + 1] \in Links
               /\ m2[h + 1].next # Null =>
                    /\ m2[h + 1].next \in F
                    /\ m2[m2[h + 1].next].cls = m2[h].cls
                    /\ m2[h + 1].next # fl[m2[h].cls]
                    /\ \A g \in F : m2[g + 1].next = m2[h + 1].next => g = h
               /\ h # fl[m2[h].cls] => \E g \in F : m2[g + 1].next = h
    BY <2>1, <2>2 DEF ListsIn
  <2> HIDE DEF F
  <2>5. FreeIn(m2, bl2, hd, b) = F
    BY <1>10 DEF F
  <2>6. QED
    BY <2>3, <2>4, <2>5 DEF ListsIn
<1>12. KeptIn(m2, hd)
  <2> SUFFICES ASSUME NEW p \in LiveIn(hd)
               PROVE  /\ hd[p].kept <= EndOf(m2, header_of(m2, p)) - p + 1
                      /\ \A k \in 0 .. hd[p].kept - 1 : m2[p + k] = Datum(hd[p].val)
    BY DEF KeptIn
  <2>1. header_of(m, p) \in bl
    BY InBlock
  <2>2. hd[p].kept <= EndOf(m2, header_of(m2, p)) - p + 1
    BY <2>1, <1>5, <1>8 DEF Good, KeptIn
  <2>3. ASSUME NEW k \in 0 .. hd[p].kept - 1 PROVE m2[p + k] = m[p + k]
    <3>1. p + k \in Heap /\ p + k <= EndOf(m, header_of(m, p))
          /\ EndOf(m, header_of(m, p)) \in Nat
      BY InBlock, Constants DEF Heap
    <3>2. p + k # b
      <4>1. EndOf(m, header_of(m, p)) < b
        BY <2>1, <1>5, Zenon
      <4>2. p + k \in Int /\ b \in Int
        BY <3>1, <1>1 DEF Heap
      <4>3. QED
        BY <3>1, <4>1, <4>2
    <3>3. QED
      BY <3>1, <3>2, <1>3
  <2>4. QED
    BY <2>2, <2>3 DEF Good, KeptIn
<1>13. InHand(m2, bl2, hd, b)
  <2>1. \A p \in LiveIn(hd) : header_of(m2, p) # b
    BY InBlock, <1>5, <1>8, <1>1
  <2>2. QED
    BY <2>1 DEF InHand
<1>14. RoomIn(m2, hd)
  BY InBlock, <1>5, <1>8 DEF Good, RoomIn
<1>15. QED
  BY <1>6, <1>7, <1>9, <1>11, <1>12, <1>13, <1>14 DEF Good, m2

-----------------------------------------------------------------------------
\* The functions of malloc.c

\* malloc's part of every allocation: its block is in hand, with a header of
\* its class that has no offset.
LEMMA Taking ==
  ASSUME IInv, NEW n \in Nat, BlockFor(n) # Null
  PROVE  /\ class_of(n) \in Class
         /\ Good(MemAfter(n), ListsAfter(n), BrkAfter(n), blocks \cup {BlockFor(n)},
                 held, BlockFor(n))
         /\ BlockFor(n) \in Heap
         /\ MemAfter(n)[BlockFor(n)] = Header(class_of(n), 0)
         /\ \A k \in Heap : k # BlockFor(n) => MemAfter(n)[k] = mem[k]
         /\ EndOf(MemAfter(n), BlockFor(n)) = BlockFor(n) + ClassCells(class_of(n))
<1> DEFINE c == class_of(n)
           h == BlockFor(n)
<1>1. c # Classes
  BY DEF BlockFor
<1>2. c \in Class
  BY <1>1, ClassFits
<1>3. mem \in [Heap -> Cell] /\ blocks \subseteq Heap
  BY DEF IInv, Good, Types
<1>4. Header(c, 0) \in Headers /\ Header(c, 0).cls = c /\ Header(c, 0) \in Cell
  BY <1>2, Constants DEF Header, Headers, Class, Classes, Cell
<1>5. CASE Reused(n)
  <2>1. h = free_lists[c] /\ free_lists[c] # Null
    BY <1>1, <1>5 DEF Reused, BlockFor
  <2>2. h \in blocks /\ mem[h].cls = c
        /\ Good(mem, [free_lists EXCEPT ![c] = mem[h + 1].next], brk, blocks, held, h)
    BY <1>2, <2>1, Pop DEF IInv
  <2>3. ListsAfter(n) = [free_lists EXCEPT ![c] = mem[h + 1].next] /\ BrkAfter(n) = brk
        /\ MemAfter(n) = [mem EXCEPT ![h] = Header(c, 0)] /\ blocks \cup {h} = blocks
    BY <1>5, <2>2 DEF ListsAfter, BrkAfter, MemAfter
  <2>4. h \in Heap
    BY <2>2, <1>3
  <2>5. /\ MemAfter(n) \in [Heap -> Cell] /\ MemAfter(n)[h] = Header(c, 0)
        /\ \A k \in Heap : k # h => MemAfter(n)[k] = mem[k]
    BY <2>3, <2>4, <1>3, <1>4
  <2>6. Inside(mem, MemAfter(n), h)
    <3>1. h \in Int /\ h <= EndOf(mem, h)
      BY <2>2, Extent DEF IInv, Good
    <3>2. QED
      BY <2>2, <2>5, <3>1, <1>4 DEF Inside
  <2> HIDE DEF h, c
  <2>7. Good(MemAfter(n), [free_lists EXCEPT ![c] = mem[h + 1].next], brk, blocks, held, h)
    BY <2>1, <2>2, <2>5, <2>6, WriteInside
  <2>8. EndOf(MemAfter(n), h) = h + ClassCells(c)
    BY <2>5, <1>4 DEF EndOf
  <2>9. QED
    BY <1>2, <2>3, <2>4, <2>5, <2>7, <2>8 DEF h, c
<1>6. CASE ~Reused(n)
  <2>1. h = brk /\ ~(brk + 1 + ClassCells(c) > HeapCells + 1)
    BY <1>1, <1>6 DEF Reused, BlockFor
  <2>2. /\ ListsAfter(n) = free_lists /\ BrkAfter(n) = brk + 1 + ClassCells(c)
        /\ MemAfter(n) = [mem EXCEPT ![h] = Header(c, 0)]
    BY <1>6 DEF ListsAfter, BrkAfter, MemAfter
  <2>3. brk \in Nat /\ brk >= 1 /\ ClassCells(c) \in Nat /\ ClassCells(c) > 0
    BY <1>2, ClassCellsType, Constants DEF IInv, Good, Types
  <2>4. brk + 1 + ClassCells(c) <= HeapCells + 1 /\ h \in Heap
    BY <2>1, <2>3, Constants DEF Heap
  <2>5. /\ MemAfter(n)[h] = Header(c, 0)
        /\ \A k \in Heap : k # h => MemAfter(n)[k] = mem[k]
    BY <2>2, <2>4, <1>3
  <2> HIDE DEF h, c
  <2>6. Good(MemAfter(n), free_lists, brk + 1 + ClassCells(c), blocks \cup {brk}, held, brk)
    <3>1. Good([mem EXCEPT ![brk] = Header(c, 0)], free_lists, brk + 1 + ClassCells(c),
               blocks \cup {brk}, held, brk)
      BY <1>2, <2>4, Carve DEF IInv
    <3>2. QED
      BY <3>1, <2>1, <2>2
  <2>7. EndOf(MemAfter(n), h) = h + ClassCells(c)
    BY <2>5, <1>4 DEF EndOf
  <2>8. QED
    BY <1>2, <2>1, <2>2, <2>4, <2>5, <2>6, <2>7 DEF h, c
<1>7. QED
  BY <1>5, <1>6

\* free, in any memory
LEMMA Freeing ==
  ASSUME NEW m, NEW fl, NEW b, NEW bl, NEW hd, Good(m, fl, b, bl, hd, Null),
         NEW p \in LiveIn(hd)
  PROVE  Good(Freed(m, fl, p), Pushed(m, fl, p), b, bl, [hd EXCEPT ![p] = NotHeld], Null)
<1> DEFINE x == header_of(m, p)
           c == m[x].cls
           m2 == [m EXCEPT ![x] = Header(c, 0), ![x + 1] = Link(fl[c])]
           hd2 == [hd EXCEPT ![p] = NotHeld]
<1>1. Good(m, fl, b, bl, hd2, x)
  BY Drop
<1>2. x \in bl
  BY InBlock
<1>3. /\ x \in Nat /\ x >= 1 /\ c \in Class /\ EndOf(m, x) \in Nat
      /\ x + 1 <= EndOf(m, x) /\ x + 1 \in Heap /\ x \in Heap
  BY <1>2, Extent, Constants DEF Good, Heap
<1>4. m \in [Heap -> Cell] /\ fl[c] \in Heap \cup {Null}
  BY <1>3 DEF Good, Types
<1>5. /\ Header(c, 0) \in Headers /\ Header(c, 0).cls = c /\ Header(c, 0) \in Cell
      /\ Link(fl[c]) \in Cell
  BY <1>3, <1>4, Constants DEF Header, Headers, Class, Classes, Link, Links, Cell
<1>6. /\ m2 \in [Heap -> Cell] /\ m2[x] = Header(c, 0) /\ m2[x + 1] = Link(fl[c])
      /\ \A k \in Heap : k # x /\ k # x + 1 => m2[k] = m[k]
  BY <1>3, <1>4, <1>5
<1>7. x # Null
  BY <1>3 DEF Null
<1>8. Freed(m, fl, p) = m2 /\ Pushed(m, fl, p) = [fl EXCEPT ![c] = x]
  BY DEF Freed, Pushed
<1> HIDE DEF m2, hd2
<1>9. Inside(m, m2, x)
  BY <1>3, <1>5, <1>6 DEF Inside
<1>10. Good(m2, fl, b, bl, hd2, x)
  BY <1>1, <1>6, <1>7, <1>9, WriteInside
<1>11. m2[x].cls = c
  BY <1>5, <1>6
<1> HIDE DEF x, c
<1>12. Good(m2, [fl EXCEPT ![c] = x], b, bl, hd2, Null)
  <2>1. m2[x + 1] = Link(fl[m2[x].cls])
    BY <1>6, <1>11
  <2>2. Good(m2, [fl EXCEPT ![m2[x].cls] = x], b, bl, hd2, Null)
    BY <1>7, <1>10, <2>1, Push
  <2>3. QED
    BY <2>2, <1>11
<1>13. QED
  BY <1>8, <1>12 DEF hd2

\* A block of its class has room for what malloc was asked for.
LEMMA RoomForAll ==
  ASSUME NEW n \in Nat, class_of(n) # Classes, NEW h \in Nat, NEW r \in Held,
         r.n = n, r.align = 1
  PROVE  Room(h + 1, h + ClassCells(class_of(n)), r)
<1> DEFINE N == ClassCells(class_of(n))
<1>1. N \in Nat /\ n <= N * Align
  BY ClassFits, ClassCellsType
<1> HIDE DEF N
<1>2. (h + N) - (h + 1) + 1 = N /\ (h + 1) % 1 = 0
  BY <1>1
<1>3. Room(h + 1, h + N, r)
  BY <1>1, <1>2 DEF Room
<1>4. QED
  BY <1>3 DEF N

\* malloc keeps the invariant.
LEMMA MallocStep ==
  ASSUME IInv, NEW n \in Nat, malloc(n)
  PROVE  IInv'
<1> DEFINE h == BlockFor(n)
           r == Holding(n, 1, 0, Zero)
<1>1. h # Null /\ h \in Heap
      /\ Good(MemAfter(n), ListsAfter(n), BrkAfter(n), blocks \cup {h}, held, h)
      /\ MemAfter(n)[h] = Header(class_of(n), 0) /\ class_of(n) \in Class
      /\ EndOf(MemAfter(n), h) = h + ClassCells(class_of(n))
  BY Taking DEF malloc, Take
<1>2. ClassCells(class_of(n)) \in Nat /\ ClassCells(class_of(n)) > 0
  BY <1>1, ClassCellsType
<1>3. EndOf(MemAfter(n), h) <= HeapCells
  BY <1>1, Extent DEF Good
<1>4. /\ h + 1 \in Heap /\ h + 1 > 1 /\ h < h + 1 /\ h + 1 <= EndOf(MemAfter(n), h)
      /\ (h + 1) - 1 = h
  BY <1>1, <1>2, <1>3, Constants DEF Heap
<1>5. Header(class_of(n), 0) \in Headers /\ Header(class_of(n), 0).offset = 0
  BY <1>1, Constants DEF Header, Headers, Class, Classes
<1>6. MemAfter(n)[(h + 1) - 1] \in Headers /\ header_of(MemAfter(n), h + 1) = h
  BY <1>1, <1>4, <1>5 DEF header_of, Heap
<1>7. r \in Held /\ r.n # -1 /\ r.kept = 0
  BY Constants DEF Holding, Held
<1>8. r.kept <= EndOf(MemAfter(n), h) - (h + 1) + 1
      /\ \A k \in 0 .. r.kept - 1 : MemAfter(n)[(h + 1) + k] = Datum(r.val)
  BY <1>1, <1>2, <1>7 DEF Heap
<1>8a. Room(h + 1, EndOf(MemAfter(n), h), r)
  <2>1. class_of(n) # Classes /\ r.n = n /\ r.align = 1 /\ h \in Nat
    BY <1>1 DEF malloc, Take, BlockFor, Holding, Heap
  <2> HIDE DEF h, r
  <2>2. QED
    BY <2>1, <1>1, <1>7, RoomForAll
<1> HIDE DEF h, r
<1>9. Good(MemAfter(n), ListsAfter(n), BrkAfter(n), blocks \cup {h},
           [held EXCEPT ![h + 1] = r], Null)
  BY <1>1, <1>4, <1>6, <1>7, <1>8, <1>8a, Give
<1>10. QED
  BY <1>9 DEF malloc, Take, IInv, h, r

\* calloc keeps the invariant: what it clears is inside the block.
LEMMA CallocStep ==
  ASSUME IInv, NEW n \in Nat, calloc(n)
  PROVE  IInv'
<1> DEFINE h == BlockFor(n)
           m == MemAfter(n)
           cells == (n + Align - 1) \div Align
           p == h + 1
           m2 == [k \in Heap |-> IF k \in p .. p + cells - 1 THEN Datum(Zero) ELSE m[k]]
           r == Holding(n, 1, cells, Zero)
<1>1. h # Null /\ h \in Heap
      /\ Good(m, ListsAfter(n), BrkAfter(n), blocks \cup {h}, held, h)
      /\ m[h] = Header(class_of(n), 0) /\ class_of(n) \in Class
      /\ EndOf(m, h) = h + ClassCells(class_of(n))
  BY Taking DEF calloc, Take
<1>2. ClassCells(class_of(n)) \in Nat /\ ClassCells(class_of(n)) > 0
  BY <1>1, ClassCellsType
<1>3. EndOf(m, h) <= HeapCells
  BY <1>1, Extent DEF Good
<1>4. cells \in Nat /\ cells <= ClassCells(class_of(n))
  <2>1. class_of(n) # Classes
    BY DEF calloc, Take, BlockFor
  <2>2. n <= ClassCells(class_of(n)) * Align
    BY <2>1, ClassFits
  <2>3. cells \in Nat /\ cells * Align <= n + Align - 1
    BY Constants
  <2> DEFINE N == ClassCells(class_of(n))
  <2> HIDE DEF cells, N
  <2>4. N \in Nat /\ n <= N * Align
    BY <2>2, <1>2 DEF N
  <2>5. ASSUME cells > N PROVE FALSE
    <3>1. cells >= N + 1
      BY <2>3, <2>4, <2>5
    <3>2. cells * Align >= (N + 1) * Align
      BY <3>1, <2>3, <2>4, Constants
    <3>3. (N + 1) * Align = N * Align + Align
      BY <2>4, Constants
    <3>4. N * Align \in Nat /\ cells * Align \in Nat
      BY <2>3, <2>4, Constants
    <3>5. QED
      BY <2>3, <2>4, <3>2, <3>3, <3>4, Constants
  <2>6. QED
    BY <2>3, <2>4, <2>5 DEF N
<1> HIDE DEF cells
<1>5. /\ p \in Heap /\ p > 1 /\ h < p /\ p <= EndOf(m, h) /\ p - 1 = h
      /\ p + cells - 1 <= EndOf(m, h)
  BY <1>1, <1>2, <1>3, <1>4, Constants DEF Heap
<1>6. Header(class_of(n), 0) \in Headers /\ Header(class_of(n), 0).offset = 0
  BY <1>1, Constants DEF Header, Headers, Class, Classes
<1>7. m \in [Heap -> Cell] /\ Datum(Zero) \in Cell
  BY <1>1, Constants DEF Good, Types, Cell, Datum, Datums
<1>8. /\ m2 \in [Heap -> Cell] /\ m2[h] = m[h]
      /\ \A k \in Heap : ~(p <= k /\ k <= p + cells - 1) => m2[k] = m[k]
      /\ \A k \in Heap : p <= k /\ k <= p + cells - 1 => m2[k] = Datum(Zero)
  BY <1>1, <1>4, <1>5, <1>7 DEF Heap
<1>8a. EndOf(m, h) \in Int /\ h \in Int /\ p \in Int
  BY <1>1, <1>2, <1>5 DEF Heap
<1> HIDE DEF m2, m, h, p
<1>9. Inside(m, m2, h)
  <2>1. m2[h] \in Headers /\ m2[h].cls = m[h].cls
    BY <1>1, <1>6, <1>8
  <2>2. ASSUME NEW k \in Heap, ~(h <= k /\ k <= EndOf(m, h)) PROVE m2[k] = m[k]
    <3>1. ~(p <= k /\ k <= p + cells - 1)
      BY <2>2, <1>4, <1>5, <1>8a DEF Heap
    <3>2. QED
      BY <3>1, <1>8
  <2>3. QED
    BY <2>1, <2>2 DEF Inside
<1>10. Good(m2, ListsAfter(n), BrkAfter(n), blocks \cup {h}, held, h)
       /\ EndOf(m2, h) = EndOf(m, h)
  BY <1>1, <1>8, <1>9, WriteInside
<1>11. m2[p - 1] \in Headers /\ header_of(m2, p) = h
  BY <1>1, <1>5, <1>6, <1>8 DEF header_of, Heap
<1>12. r \in Held /\ r.n # -1 /\ r.kept = cells /\ r.val = Zero
  BY <1>4, Constants DEF Holding, Held
<1>13. r.kept <= EndOf(m2, h) - p + 1
       /\ \A k \in 0 .. r.kept - 1 : m2[p + k] = Datum(r.val)
  <2> HIDE DEF r
  <2>1. r.kept <= EndOf(m2, h) - p + 1
    BY <1>4, <1>5, <1>8a, <1>10, <1>12
  <2>2. ASSUME NEW k \in 0 .. cells - 1 PROVE m2[p + k] = Datum(Zero)
    <3>1. p + k \in Heap /\ p <= p + k /\ p + k <= p + cells - 1
      BY <1>3, <1>4, <1>5, <1>8a, Constants DEF Heap
    <3>2. QED
      BY <3>1, <1>8
  <2>3. QED
    BY <2>1, <2>2, <1>12
<1>13a. Room(p, EndOf(m2, h), r)
  <2>1. class_of(n) # Classes /\ r.n = n /\ r.align = 1 /\ h \in Nat
    BY <1>1 DEF calloc, Take, BlockFor, Holding, Heap
  <2> HIDE DEF r
  <2>2. QED
    BY <2>1, <1>1, <1>10, <1>12, RoomForAll DEF p
<1> HIDE DEF r
<1>14. Good(m2, ListsAfter(n), BrkAfter(n), blocks \cup {h}, [held EXCEPT ![p] = r], Null)
  BY <1>1, <1>5, <1>10, <1>11, <1>12, <1>13, <1>13a, Give
<1>15. QED
  BY <1>14 DEF calloc, Take, IInv, h, r, p, m2, m, cells

LEMMA MoreTimes ==
  ASSUME NEW i \in Int, NEW j \in Int, NEW k \in Nat, i <= j
  PROVE  i * k <= j * k
OBVIOUS

\* RoundUp gives a multiple of the alignment.
LEMMA RoundUpDivides ==
  ASSUME NEW base \in Nat, NEW a \in Nat, a > 1
  PROVE  RoundUp(base, a) % a = 0
<1> DEFINE q == base \div a
           d == base % a
<1>1. q \in Nat /\ d \in 0 .. a - 1 /\ base = a * q + d
  OBVIOUS
<1>2. CASE d = 0
  BY <1>2 DEF RoundUp
<1>3. CASE d # 0
  <2>1. RoundUp(base, a) = base + a - d
    BY <1>3 DEF RoundUp
  <2> HIDE DEF q, d
  <2>2. base + a - d = a * (q + 1) /\ q + 1 \in Nat
    BY <1>1
  <2>3. (a * (q + 1)) % a = 0
    BY <2>2
  <2>4. QED
    BY <2>1, <2>2, <2>3
<1>4. QED
  BY <1>2, <1>3

\* aligned_alloc keeps the invariant: the aligned address and the header in
\* front of it are inside the block.
LEMMA AlignedStep ==
  ASSUME IInv, NEW n \in Nat, NEW a \in Aligns, aligned_alloc(a, n)
  PROVE  IInv'
<1> DEFINE more == n + a * Align
           h == BlockFor(more)
           m == MemAfter(more)
           N == ClassCells(class_of(more))
           base == h + 1
           p == RoundUp(base, a)
           m2 == IF p = base THEN m ELSE [m EXCEPT ![p - 1] = Header(Classes, p - base)]
           r == Holding(n, a, 0, Zero)
<1>0. a \in Nat /\ a > 1 /\ a * Align \in Nat /\ more \in Nat
  BY Constants
<1>1. h # Null /\ h \in Heap
      /\ Good(m, ListsAfter(more), BrkAfter(more), blocks \cup {h}, held, h)
      /\ m[h] = Header(class_of(more), 0) /\ class_of(more) \in Class
      /\ EndOf(m, h) = h + N
  <2>1. BlockFor(more) # Null
    BY DEF aligned_alloc, Take
  <2> HIDE DEF more
  <2>2. QED
    BY <2>1, <1>0, Taking
<1>2. N \in Nat /\ N > 0
  BY <1>1, ClassCellsType
<1>3. EndOf(m, h) <= HeapCells
  BY <1>1, Extent DEF Good
<1>4. a <= N
  <2>1. class_of(more) # Classes
    BY DEF aligned_alloc, Take, BlockFor
  <2>2. more <= N * Align
    <3> HIDE DEF more
    <3>1. QED
      BY <2>1, <1>0, ClassFits
  <2> HIDE DEF N
  <2>3. a * Align <= N * Align
    BY <2>2, <1>0, <1>2, Constants
  <2>4. ASSUME N < a PROVE FALSE
    <3>1. N + 1 <= a
      BY <2>4, <1>0, <1>2
    <3>2. (N + 1) * Align <= a * Align
      BY <3>1, <1>0, <1>2, Constants
    <3>3. (N + 1) * Align = N * Align + Align /\ N * Align \in Nat
      BY <1>2, Constants
    <3>4. QED
      BY <2>3, <3>2, <3>3, <1>0, Constants
  <2>5. QED
    BY <2>4, <1>0, <1>2
<1>4a. more <= N * Align
  <2>1. class_of(more) # Classes
    BY DEF aligned_alloc, Take, BlockFor
  <2> HIDE DEF more
  <2>2. QED
    BY <2>1, <1>0, ClassFits
<1>4b. N * Align >= n + a * Align
  BY <1>4a
<1> HIDE DEF N, more, m
<1>5. base \in Nat /\ base > 1 /\ base - 1 = h
  BY <1>1 DEF Heap
<1>6. p \in Nat /\ base <= p /\ p <= base + a - 1
  BY <1>0, <1>5 DEF RoundUp
<1>6a. p % a = 0
  BY <1>0, <1>5, RoundUpDivides
<1>6b. n <= ((h + N) - p + 1) * Align
  <2> HIDE DEF p
  <2> DEFINE left == (h + N) - p + 1
  <2>1. left \in Int /\ N - a \in Int /\ N - a <= left
    BY <1>0, <1>1, <1>2, <1>5, <1>6 DEF Heap
  <2>2. (N - a) * Align = N * Align - a * Align /\ N * Align \in Int
    BY <1>0, <1>2, Constants
  <2>3. n <= (N - a) * Align
    BY <1>0, <1>4b, <2>2
  <2> HIDE DEF left
  <2>4. (N - a) * Align <= left * Align
    BY <2>1, Constants, MoreTimes
  <2>5. left * Align \in Int /\ (N - a) * Align \in Int
    BY <2>1, Constants
  <2>6. n <= left * Align
    BY <2>3, <2>4, <2>5
  <2>7. QED
    BY <2>6 DEF left
<1> HIDE DEF p
<1>7. p \in Heap /\ p > 1 /\ h < p /\ p <= EndOf(m, h)
      /\ (p # base => h + 1 <= p - 1 /\ p - 1 <= EndOf(m, h) /\ p - 1 \in Heap)
  BY <1>1, <1>2, <1>3, <1>4, <1>5, <1>6, <1>0, Constants DEF Heap
<1>8. Header(class_of(more), 0) \in Headers /\ Header(class_of(more), 0).offset = 0
  BY <1>1, Constants DEF Header, Headers, Class, Classes
<1>9. /\ Header(Classes, p - base) \in Headers
      /\ Header(Classes, p - base).offset = p - base
  <2>1. p - base \in Nat /\ Classes \in 0 .. Classes
    BY <1>5, <1>6, Constants DEF Classes
  <2>2. QED
    BY <2>1 DEF Header, Headers
<1>10. m \in [Heap -> Cell]
  BY <1>1 DEF Good, Types
<1>11. /\ m2 \in [Heap -> Cell] /\ m2[h] = m[h]
       /\ \A k \in Heap : k # p - 1 => m2[k] = m[k]
       /\ p # base => m2[p - 1] = Header(Classes, p - base)
       /\ p = base => m2 = m
  BY <1>1, <1>5, <1>7, <1>9, <1>10 DEF Heap, Cell
<1> HIDE DEF m2
<1>12. Inside(m, m2, h)
  <2>1. CASE p = base
    BY <2>1, <1>1, <1>8, <1>11 DEF Inside
  <2>2. CASE p # base
    BY <2>2, <1>1, <1>7, <1>8, <1>11 DEF Inside, Heap
  <2>3. QED
    BY <2>1, <2>2
<1>13. Good(m2, ListsAfter(more), BrkAfter(more), blocks \cup {h}, held, h)
       /\ EndOf(m2, h) = EndOf(m, h)
  BY <1>1, <1>11, <1>12, WriteInside
<1>14. m2[p - 1] \in Headers /\ header_of(m2, p) = h
  <2>1. CASE p = base
    BY <2>1, <1>1, <1>5, <1>8, <1>11 DEF header_of, Heap
  <2>2. CASE p # base
    BY <2>2, <1>1, <1>5, <1>6, <1>9, <1>11 DEF header_of, Heap
  <2>3. QED
    BY <2>1, <2>2
<1>15. r \in Held /\ r.n # -1 /\ r.kept = 0
  BY <1>0, Constants DEF Holding, Held
<1>16. r.kept <= EndOf(m2, h) - p + 1
       /\ \A k \in 0 .. r.kept - 1 : m2[p + k] = Datum(r.val)
  BY <1>1, <1>2, <1>6, <1>7, <1>13, <1>15 DEF Heap
<1>16a. Room(p, EndOf(m2, h), r)
  BY <1>1, <1>13, <1>6a, <1>6b DEF Room, Holding
<1> HIDE DEF h, r, base
<1>17. Good(m2, ListsAfter(more), BrkAfter(more), blocks \cup {h},
            [held EXCEPT ![p] = r], Null)
  BY <1>1, <1>7, <1>13, <1>14, <1>15, <1>16, <1>16a, Give
<1>18. QED
  BY <1>17 DEF aligned_alloc, Take, IInv, h, r, p, m2, m, more, base

\* What a caller holds is put back as it was, or with other contents.
LEMMA GiveBack ==
  ASSUME NEW hd \in [Heap -> Held], NEW p \in Heap, NEW r
  PROVE  [[hd EXCEPT ![p] = NotHeld] EXCEPT ![p] = r] = [hd EXCEPT ![p] = r]
OBVIOUS

\* The cells a caller may use end with its block.
LEMMA UsableEnd ==
  ASSUME IInv, NEW p \in Live
  PROVE  /\ UsableCells(p) \in Nat /\ UsableCells(p) > 0
         /\ p + UsableCells(p) - 1 = EndOf(mem, header_of(mem, p))
<1> DEFINE h == header_of(mem, p)
<1>1. h \in blocks /\ h \in Nat /\ p \in Nat /\ h <= p - 1 /\ p <= EndOf(mem, h)
  BY InBlock DEF IInv, Live
<1>2. ClassCells(mem[h].cls) \in Nat
  BY <1>1, ClassCellsType DEF IInv, Good, Apart
<1> HIDE DEF h
<1>3. QED
  BY <1>1, <1>2 DEF UsableCells, EndOf, h

\* realloc in place keeps the invariant.
LEMMA ReallocStaysStep ==
  ASSUME IInv, NEW n \in Nat, NEW p \in Heap, ReallocStays(p, n)
  PROVE  IInv'
<1> DEFINE x == header_of(mem, p)
           r == [held[p] EXCEPT !.n = n]
           hd2 == [held EXCEPT ![p] = NotHeld]
<1>0. p \in LiveIn(held)
  BY DEF ReallocStays, Live
<1>1. Good(mem, free_lists, brk, blocks, hd2, x)
  BY <1>0, Drop DEF IInv
<1>2. /\ x \in blocks /\ x \in Nat /\ p > 1 /\ x < p /\ p <= EndOf(mem, x)
      /\ mem[p - 1] \in Headers
  BY <1>0, InBlock DEF IInv, Good, HeldIn
<1>3. x # Null
  BY <1>2 DEF IInv, Good, Types, Heap, Null
<1>4. held \in [Heap -> Held] /\ held[p] \in Held
  BY DEF IInv, Good, Types
<1>5. r \in Held /\ r.n # -1 /\ r.kept = held[p].kept /\ r.val = held[p].val
  BY <1>4 DEF Held
<1>6. /\ held[p].kept <= EndOf(mem, x) - p + 1
      /\ \A k \in 0 .. held[p].kept - 1 : mem[p + k] = Datum(held[p].val)
  BY <1>0 DEF IInv, Good, KeptIn
<1>6a. Room(p, EndOf(mem, x), r)
  <2>1. p % held[p].align = 0
    BY <1>0 DEF IInv, Good, RoomIn, Room
  <2>2. /\ UsableCells(p) \in Nat /\ p + UsableCells(p) - 1 = EndOf(mem, x)
        /\ n <= UsableCells(p) * Align
    BY <1>0, UsableEnd DEF Live, ReallocStays, usable
  <2>3. EndOf(mem, x) - p + 1 = UsableCells(p)
    BY <2>2, <1>2, <1>4 DEF Heap
  <2>4. r.n = n /\ r.align = held[p].align
    BY <1>4 DEF Held
  <2> HIDE DEF x, r
  <2>5. QED
    BY <2>1, <2>2, <2>3, <2>4 DEF Room
<1> HIDE DEF hd2, r, x
<1>7. Good(mem, free_lists, brk, blocks, [hd2 EXCEPT ![p] = r], Null)
  BY <1>1, <1>2, <1>3, <1>5, <1>6, <1>6a, Give DEF x
<1>8. [hd2 EXCEPT ![p] = r] = [held EXCEPT ![p] = r]
  BY <1>4, GiveBack DEF hd2
<1>9. QED
  BY <1>7, <1>8 DEF ReallocStays, IInv, r

\* A caller that writes all it may use keeps the invariant.
LEMMA StoreStep ==
  ASSUME IInv, NEW p \in Heap, NEW v \in Data, Store(p, v)
  PROVE  IInv'
<1> DEFINE x == header_of(mem, p)
           U == UsableCells(p)
           m2 == [k \in Heap |-> IF k \in p .. p + U - 1 THEN Datum(v) ELSE mem[k]]
           r == [held[p] EXCEPT !.kept = U, !.val = v]
           hd2 == [held EXCEPT ![p] = NotHeld]
<1>0. p \in LiveIn(held) /\ p \in Live
  BY DEF Store, Live
<1>1. Good(mem, free_lists, brk, blocks, hd2, x)
  BY <1>0, Drop DEF IInv
<1>2. /\ x \in blocks /\ x \in Nat /\ p > 1 /\ x <= p - 1 /\ p <= EndOf(mem, x)
      /\ mem[p - 1] \in Headers /\ EndOf(mem, x) \in Nat /\ EndOf(mem, x) <= HeapCells
      /\ p \in Nat /\ p - 1 \in Heap
  BY <1>0, InBlock DEF IInv, Good, HeldIn
<1>3. x # Null /\ x \in Heap /\ mem[x] \in Headers
  BY <1>2 DEF IInv, Good, Types, Apart, Heap, Null
<1>4. U \in Nat /\ U > 0 /\ p + U - 1 = EndOf(mem, x)
  BY <1>0, UsableEnd
<1>5. held \in [Heap -> Held] /\ held[p] \in Held /\ mem \in [Heap -> Cell]
  BY DEF IInv, Good, Types
<1>6. held[p].n # -1
  BY <1>0 DEF LiveIn
<1> HIDE DEF U, x
<1>7. r \in Held /\ r.n # -1 /\ r.kept = U /\ r.val = v
  BY <1>4, <1>5, <1>6 DEF Held
<1>8. Datum(v) \in Cell
  BY DEF Datum, Datums, Cell
<1>9. /\ m2 \in [Heap -> Cell]
      /\ \A k \in Heap : ~(p <= k /\ k <= p + U - 1) => m2[k] = mem[k]
      /\ \A k \in Heap : p <= k /\ k <= p + U - 1 => m2[k] = Datum(v)
  BY <1>2, <1>4, <1>5, <1>8 DEF Heap
<1> HIDE DEF m2, hd2, r
<1>10. m2[x] = mem[x] /\ m2[p - 1] = mem[p - 1]
  BY <1>2, <1>3, <1>9
<1>11. Inside(mem, m2, x)
  <2>1. ASSUME NEW k \in Heap, ~(x <= k /\ k <= EndOf(mem, x)) PROVE m2[k] = mem[k]
    <3>1. ~(p <= k /\ k <= p + U - 1)
      BY <2>1, <1>2, <1>4 DEF Heap
    <3>2. QED
      BY <3>1, <1>9
  <2>2. QED
    BY <2>1, <1>3, <1>10 DEF Inside
<1>12. Good(m2, free_lists, brk, blocks, hd2, x) /\ EndOf(m2, x) = EndOf(mem, x)
  BY <1>1, <1>3, <1>9, <1>11, WriteInside
<1>13. header_of(m2, p) = x
  BY <1>10 DEF header_of, x
<1>14. /\ r.kept <= EndOf(m2, x) - p + 1
       /\ \A k \in 0 .. r.kept - 1 : m2[p + k] = Datum(r.val)
  <2>1. ASSUME NEW k \in 0 .. U - 1 PROVE m2[p + k] = Datum(v)
    <3>1. p + k \in Heap /\ p <= p + k /\ p + k <= p + U - 1
      BY <1>2, <1>4, Constants DEF Heap
    <3>2. QED
      BY <3>1, <1>9
  <2>2. U <= EndOf(m2, x) - p + 1
    BY <1>2, <1>4, <1>12
  <2>3. QED
    BY <2>1, <2>2, <1>7
<1>15. x < p /\ p <= EndOf(m2, x)
  BY <1>2, <1>12
<1>15a. Room(p, EndOf(m2, x), r)
  <2>1. Room(p, EndOf(mem, x), held[p])
    BY <1>0 DEF IInv, Good, RoomIn, x
  <2>2. r.n = held[p].n /\ r.align = held[p].align
    BY <1>5 DEF r, Held
  <2>3. QED
    BY <2>1, <2>2, <1>12 DEF Room
<1>16. Good(m2, free_lists, brk, blocks, [hd2 EXCEPT ![p] = r], Null)
  BY <1>2, <1>3, <1>7, <1>10, <1>12, <1>13, <1>14, <1>15, <1>15a, Give
<1>17. [hd2 EXCEPT ![p] = r] = [held EXCEPT ![p] = r]
  BY <1>5, GiveBack DEF hd2
<1>18. QED
  BY <1>16, <1>17 DEF Store, IInv, m2, r, U

\* realloc that moves keeps the invariant: the copy fits into the new block, and
\* the caller finds there what it had kept.
LEMMA ReallocMovesStep ==
  ASSUME IInv, NEW n \in Nat, NEW p \in Heap, ReallocMoves(p, n)
  PROVE  IInv'
<1> DEFINE h == BlockFor(n)
           m == MemAfter(n)
           N == ClassCells(class_of(n))
           q == h + 1
           U == UsableCells(p)
           m2 == Copied(p, q, n)
           r == Holding(n, 1, held[p].kept, held[p].val)
           hd2 == [held EXCEPT ![q] = r]
           bl == blocks \cup {h}
<1>0. p \in LiveIn(held) /\ p \in Live
  BY DEF ReallocMoves, Live
<1>1. h # Null /\ h \in Heap
      /\ Good(m, ListsAfter(n), BrkAfter(n), bl, held, h)
      /\ m[h] = Header(class_of(n), 0) /\ class_of(n) \in Class
      /\ (\A k \in Heap : k # h => m[k] = mem[k])
      /\ EndOf(m, h) = h + N
  BY Taking DEF ReallocMoves, Take
<1>2. N \in Nat /\ N > 0
  BY <1>1, ClassCellsType
<1>3. EndOf(m, h) <= HeapCells
  BY <1>1, Extent DEF Good
<1>4. U \in Nat /\ U > 0 /\ p + U - 1 = EndOf(mem, header_of(mem, p))
  BY <1>0, UsableEnd
<1>5. U <= N
  <2>1. class_of(n) # Classes
    BY DEF ReallocMoves, Take, BlockFor
  <2>2. n <= N * Align /\ n > U * Align
    BY <2>1, ClassFits DEF ReallocMoves, usable
  <2> HIDE DEF N, U
  <2>3. ASSUME N < U PROVE FALSE
    <3>1. N * Align <= U * Align
      BY <2>3, <1>2, <1>4, Constants
    <3>2. N * Align \in Nat /\ U * Align \in Nat
      BY <1>2, <1>4, Constants
    <3>3. QED
      BY <2>2, <3>1, <3>2
  <2>4. QED
    BY <2>3, <1>2, <1>4
<1>6. /\ header_of(mem, p) \in Nat /\ header_of(mem, p) \in blocks
      /\ p \in Nat /\ p - 1 \in Heap /\ header_of(mem, p) <= p - 1
      /\ p <= EndOf(mem, header_of(mem, p))
      /\ EndOf(mem, header_of(mem, p)) <= HeapCells
      /\ held[p].kept \in Nat
      /\ p + held[p].kept - 1 <= EndOf(mem, header_of(mem, p))
  BY <1>0, InBlock DEF IInv
<1>7. mem \in [Heap -> Cell] /\ m \in [Heap -> Cell] /\ held \in [Heap -> Held]
  BY <1>1 DEF IInv, Good, Types
<1> HIDE DEF m, N, U
<1>8. /\ q \in Heap /\ q > 1 /\ h < q /\ q <= EndOf(m, h) /\ q - 1 = h
      /\ q + U - 1 <= EndOf(m, h) /\ EndOf(m, h) \in Nat /\ h \in Nat /\ q \in Nat
  BY <1>1, <1>2, <1>3, <1>4, <1>5, Constants DEF Heap
<1>9. ASSUME NEW k \in Heap, q <= k, k <= q + U - 1 PROVE p + (k - q) \in Heap
  BY <1>4, <1>6, <1>8, <1>9, Constants DEF Heap
<1>10. /\ m2 \in [Heap -> Cell]
       /\ \A k \in Heap : ~(q <= k /\ k <= q + U - 1) => m2[k] = m[k]
       /\ \A k \in Heap : q <= k /\ k <= q + U - 1 => m2[k] = mem[p + (k - q)]
  <2>1. m2 = [k \in Heap |-> IF q <= k /\ k <= q + U - 1 THEN mem[p + (k - q)] ELSE m[k]]
    BY <1>4, <1>8 DEF Copied, U, m, Heap
  <2> HIDE DEF m2, q
  <2>2. QED
    BY <2>1, <1>7, <1>9
<1> HIDE DEF m2
<1>11. Header(class_of(n), 0) \in Headers /\ Header(class_of(n), 0).offset = 0
  BY <1>1, Constants DEF Header, Headers, Class, Classes
<1>12. m2[h] = m[h]
  BY <1>1, <1>8, <1>10
<1>13. Inside(m, m2, h)
  <2>1. m2[h] \in Headers /\ m2[h].cls = m[h].cls
    BY <1>1, <1>11, <1>12
  <2>2. ASSUME NEW k \in Heap, ~(h <= k /\ k <= EndOf(m, h)) PROVE m2[k] = m[k]
    <3>1. ~(q <= k /\ k <= q + U - 1)
      BY <2>2, <1>4, <1>8 DEF Heap
    <3>2. QED
      BY <3>1, <1>10
  <2>3. QED
    BY <2>1, <2>2 DEF Inside
<1>14. Good(m2, ListsAfter(n), BrkAfter(n), bl, held, h) /\ EndOf(m2, h) = EndOf(m, h)
  BY <1>1, <1>10, <1>13, WriteInside
<1>15. m2[q - 1] \in Headers /\ header_of(m2, q) = h
  BY <1>1, <1>8, <1>11, <1>12 DEF header_of
<1>16. held[p] \in Held /\ r \in Held /\ r.n # -1 /\ r.kept = held[p].kept /\ r.val = held[p].val
  BY <1>7 DEF Holding, Held
<1>17. \A k \in 0 .. held[p].kept - 1 : mem[p + k] = Datum(held[p].val)
  BY <1>0 DEF IInv, Good, KeptIn
<1>18. /\ r.kept <= EndOf(m2, h) - q + 1
       /\ \A k \in 0 .. r.kept - 1 : m2[q + k] = Datum(r.val)
  <2>1. held[p].kept <= U
    BY <1>4, <1>6
  <2>2. held[p].kept <= EndOf(m2, h) - q + 1
    BY <2>1, <1>4, <1>6, <1>8, <1>14
  <2>3. ASSUME NEW k \in 0 .. held[p].kept - 1 PROVE m2[q + k] = Datum(held[p].val)
    <3>1. q + k \in Heap /\ q <= q + k /\ q + k <= q + U - 1 /\ p + ((q + k) - q) = p + k
      BY <2>1, <1>3, <1>4, <1>6, <1>8, Constants DEF Heap
    <3>2. m2[q + k] = mem[p + k]
      BY <3>1, <1>10
    <3>3. QED
      BY <3>2, <1>17
  <2>4. QED
    BY <2>2, <2>3, <1>16
<1>18a. Room(q, EndOf(m2, h), r)
  <2>1. class_of(n) # Classes /\ r.n = n /\ r.align = 1
    BY DEF ReallocMoves, Take, BlockFor, Holding
  <2> HIDE DEF r, h, q
  <2>2. EndOf(m2, h) = h + ClassCells(class_of(n))
    BY <1>1, <1>14 DEF N
  <2>3. QED
    BY <2>1, <2>2, <1>8, <1>16, RoomForAll DEF q
<1> HIDE DEF r, q, h, hd2, bl
<1>19. Good(m2, ListsAfter(n), BrkAfter(n), bl, hd2, Null)
  <2>1. q <= EndOf(m2, h)
    BY <1>8, <1>14
  <2>2. QED
    BY <2>1, <1>1, <1>8, <1>14, <1>15, <1>16, <1>18, <1>18a, Give DEF hd2
<1>20. p # q
  <2>1. \A s \in LiveIn(held) : header_of(m2, s) # h
    BY <1>1, <1>14 DEF Good, InHand
  <2>2. QED
    BY <2>1, <1>0, <1>15
<1>21. p \in LiveIn(hd2)
  BY <1>0, <1>7, <1>8, <1>20 DEF hd2, LiveIn
<1>22. Good(Freed(m2, ListsAfter(n), p), Pushed(m2, ListsAfter(n), p), BrkAfter(n), bl,
            [hd2 EXCEPT ![p] = NotHeld], Null)
  BY <1>19, <1>21, Freeing
<1>23. [hd2 EXCEPT ![p] = NotHeld] = [held EXCEPT ![p] = NotHeld, ![q] = r]
  BY <1>7, <1>8, <1>20 DEF hd2
<1>24. QED
  BY <1>22, <1>23 DEF ReallocMoves, Take, IInv, m2, q, h, r, bl

-----------------------------------------------------------------------------
\* The invariant holds initially: nothing has been handed out.
LEMMA Initially == Init => IInv
<1> SUFFICES ASSUME Init PROVE IInv
  OBVIOUS
<1>1. LiveIn(held) = {}
  BY DEF Init, LiveIn, NotHeld, Holding
<1>2. NotHeld \in Held /\ Datum(Zero) \in Cell
  BY Constants DEF NotHeld, Holding, Held, Datum, Datums, Cell
<1>3. Types(mem, free_lists, brk, blocks, held)
  BY <1>2, Constants DEF Init, Types, Null
<1>4. Apart(mem, brk, blocks) /\ HeldIn(mem, blocks, held) /\ KeptIn(mem, held)
      /\ RoomIn(mem, held)
  BY <1>1 DEF Init, Apart, HeldIn, KeptIn, RoomIn
<1>5. FreeIn(mem, blocks, held, Null) = {} /\ \A c \in Class : free_lists[c] = Null
  BY DEF Init, FreeIn
<1>6. ListsIn(mem, free_lists, blocks, held, Null)
  BY <1>5 DEF ListsIn
<1>7. QED
  BY <1>3, <1>4, <1>6 DEF IInv, Good, InHand

\* Every call keeps it.
LEMMA Step == IInv /\ [Next]_vars => IInv'
<1> SUFFICES ASSUME IInv, [Next]_vars PROVE IInv'
  OBVIOUS
<1>0. Sizes \subseteq Nat
  BY Constants
<1>1. ASSUME NEW n \in Sizes, malloc(n) PROVE IInv'
  BY <1>0, <1>1, MallocStep
<1>2. ASSUME NEW n \in Sizes, calloc(n) PROVE IInv'
  BY <1>0, <1>2, CallocStep
<1>3. ASSUME NEW n \in Sizes, NEW a \in Aligns, aligned_alloc(a, n) PROVE IInv'
  BY <1>0, <1>3, AlignedStep
<1>4. ASSUME NEW p \in Heap, free(p) PROVE IInv'
  <2>1. p \in LiveIn(held)
    BY <1>4 DEF free, Live
  <2>2. Good(Freed(mem, free_lists, p), Pushed(mem, free_lists, p), brk, blocks,
             [held EXCEPT ![p] = NotHeld], Null)
    BY <2>1, Freeing DEF IInv
  <2>3. QED
    BY <1>4, <2>2 DEF free, IInv
<1>5. ASSUME NEW p \in Heap, NEW n \in Sizes, realloc(p, n) PROVE IInv'
  BY <1>0, <1>5, ReallocStaysStep, ReallocMovesStep DEF realloc
<1>6. ASSUME NEW p \in Heap, NEW v \in Data, Store(p, v) PROVE IInv'
  BY <1>6, StoreStep
<1>7. CASE UNCHANGED vars
  BY <1>7 DEF vars, IInv
<1>8. QED
  BY <1>1, <1>2, <1>3, <1>4, <1>5, <1>6, <1>7 DEF Next, NoMemory

\* The inductive invariant of the allocator: whatever the sequence of calls,
\* blocks, pointers, lists and stored data are as malloc.c means them to be.
THEOREM Invariance == Spec => []IInv
BY Initially, Step, PTL DEF Spec

\* The heap and the callers' holdings are always of their types.
THEOREM TypeCorrect == Spec => []TypeOK
<1>1. IInv => TypeOK
  BY DEF IInv, Good, Types, TypeOK, Cell, Held
<1>2. QED
  BY <1>1, Invariance, PTL

\* Blocks never overlap, their headers are never overwritten, and every pointer
\* handed out leads back to a block that no other pointer leads to.
THEOREM OwnBlockTheorem == Spec => []OwnBlock
<1>1. IInv => BlocksApart
  BY DEF IInv, Good, Apart, BlocksApart
<1>2. IInv => HeldApart
  BY DEF IInv, Good, HeldIn, HeldApart, Live
<1>3. IInv => OwnBlock
  BY <1>1, <1>2 DEF OwnBlock
<1>4. QED
  BY <1>3, Invariance, PTL

\* The free lists hold free blocks of their class, each from one place.
THEOREM FreeListsSoundTheorem == Spec => []FreeListsSound
<1>1. IInv => FreeListsSound
  <2> SUFFICES ASSUME IInv PROVE FreeListsSound
    OBVIOUS
  <2>1. Free = FreeIn(mem, blocks, held, Null)
    BY DEF IInv, Good, Types, Free, FreeIn, Live, Heap, Null
  <2>2. ListsIn(mem, free_lists, blocks, held, Null)
    BY DEF IInv, Good
  <2>3. QED
    BY <2>1, <2>2 DEF ListsIn, FreeListsSound, NextFree
<1>2. QED
  BY <1>1, Invariance, PTL

\* No call of the allocator and no other caller changes what a caller stored.
THEOREM DataKeptTheorem == Spec => []DataKept
<1>1. IInv => DataKept
  BY DEF IInv, Good, KeptIn, DataKept, Live
<1>2. QED
  BY <1>1, Invariance, PTL

\* What malloc, calloc, aligned_alloc and realloc hand out has the size and the
\* alignment that was asked for, for every ALIGN and all sizes and alignments.
THEOREM EnoughRoomTheorem == Spec => []EnoughRoom
<1>1. IInv => EnoughRoom
  BY DEF IInv, Good, RoomIn, Room, EnoughRoom, Live
<1>2. QED
  BY <1>1, Invariance, PTL

-----------------------------------------------------------------------------
\* The graphics core

\* Coordinates, rectangles and functions on them
Plane == Int \X Int
Rectangle == [x : Int, y : Int, w : Int, h : Int]
IsMap(f) == f = [p \in DOMAIN f |-> f[p]]
Pointer(x, y) == Cells(Rect(x, y, CUR_W, CUR_H))

LEMMA Dimensions ==
  /\ g_w \in Nat \ {0} /\ g_h \in Nat \ {0} /\ GFX_SURFACES \in Nat \ {0} /\ 0 \in Ids
  /\ CUR_W \in Nat /\ CUR_H \in Nat /\ Word \in Nat \ {0}
<1>1. /\ g_w \in Nat \ {0} /\ g_h \in Nat \ {0} /\ GFX_SURFACES \in Nat \ {0}
      /\ CUR_W \in Nat /\ CUR_H \in Nat /\ Word \in Nat /\ g_w < Word
  BY GfxAssumption, Zenon
<1>2. QED
  BY <1>1 DEF Ids

LEMMA RectIs ==
  ASSUME NEW x \in Int, NEW y \in Int, NEW w \in Int, NEW h \in Int
  PROVE  /\ Rect(x, y, w, h) \in Rectangle /\ Rect(x, y, w, h).x = x /\ Rect(x, y, w, h).y = y
         /\ Rect(x, y, w, h).w = w /\ Rect(x, y, w, h).h = h
BY DEF Rect, Rectangle

LEMMA CellsIs ==
  ASSUME NEW r \in Rectangle
  PROVE  /\ \A p \in Plane : p \in Cells(r) <=> /\ r.x <= p[1] /\ p[1] < r.x + r.w
                                                /\ r.y <= p[2] /\ p[2] < r.y + r.h
         /\ Cells(r) \subseteq Plane
<1>1. r.x \in Int /\ r.y \in Int /\ r.w \in Int /\ r.h \in Int
  BY DEF Rectangle
<1>2. ASSUME NEW p \in Plane
      PROVE  p \in Cells(r) <=> /\ r.x <= p[1] /\ p[1] < r.x + r.w
                                /\ r.y <= p[2] /\ p[2] < r.y + r.h
  <2>1. p[1] \in Int /\ p[2] \in Int /\ p = <<p[1], p[2]>>
    BY DEF Plane
  <2>2. p \in Cells(r) <=> p[1] \in r.x .. r.x + r.w - 1 /\ p[2] \in r.y .. r.y + r.h - 1
    BY <2>1 DEF Cells
  <2>3. QED
    BY <1>1, <2>1, <2>2
<1>3. Cells(r) \subseteq Plane
  BY <1>1 DEF Cells, Plane
<1>4. QED
  BY <1>2, <1>3

\* The same for a rectangle given by its numbers
LEMMA InRect ==
  ASSUME NEW x \in Int, NEW y \in Int, NEW w \in Int, NEW h \in Int
  PROVE  /\ \A p \in Plane : p \in Cells(Rect(x, y, w, h)) <=> /\ x <= p[1] /\ p[1] < x + w
                                                               /\ y <= p[2] /\ p[2] < y + h
         /\ Cells(Rect(x, y, w, h)) \subseteq Plane
<1> DEFINE r == Rect(x, y, w, h)
<1>1. r \in Rectangle /\ r.x = x /\ r.y = y /\ r.w = w /\ r.h = h
  BY RectIs
<1> HIDE DEF r
<1>2. /\ \A p \in Plane : p \in Cells(r) <=> /\ r.x <= p[1] /\ p[1] < r.x + r.w
                                             /\ r.y <= p[2] /\ p[2] < r.y + r.h
      /\ Cells(r) \subseteq Plane
  BY <1>1, CellsIs, Zenon
<1>3. QED
  BY <1>1, <1>2 DEF r

LEMMA InArea ==
  ASSUME NEW w \in Int, NEW h \in Int
  PROVE  /\ \A p \in Plane : p \in Area(w, h) <=> 0 <= p[1] /\ p[1] < w /\ 0 <= p[2] /\ p[2] < h
         /\ Area(w, h) \subseteq Plane
<1>1. 0 \in Int /\ 0 + w = w /\ 0 + h = h
  OBVIOUS
<1>2. QED
  BY <1>1, InRect DEF Area

LEMMA PlaneIs ==
  ASSUME NEW p \in Plane
  PROVE  p[1] \in Int /\ p[2] \in Int /\ p = <<p[1], p[2]>>
BY DEF Plane

LEMMA SamePoint ==
  ASSUME NEW a \in Int, NEW b \in Int
  PROVE  <<a, b>> \in Plane /\ <<a, b>>[1] = a /\ <<a, b>>[2] = b
BY DEF Plane

LEMMA ScreenIs ==
  /\ \A p \in Plane : p \in ScreenCells <=> 0 <= p[1] /\ p[1] < g_w /\ 0 <= p[2] /\ p[2] < g_h
  /\ ScreenCells \subseteq Plane
BY Dimensions, InArea DEF ScreenCells

LEMMA PointerIs ==
  ASSUME NEW x \in Int, NEW y \in Int
  PROVE  /\ \A p \in Plane : p \in Pointer(x, y) <=>
              x <= p[1] /\ p[1] < x + CUR_W /\ y <= p[2] /\ p[2] < y + CUR_H
         /\ Pointer(x, y) \subseteq Plane
BY Dimensions, InRect DEF Pointer

\* Two functions with the same domain and values
LEMMA SameMap ==
  ASSUME NEW f, NEW g, IsMap(f), IsMap(g), DOMAIN f = DOMAIN g, \A p \in DOMAIN f : f[p] = g[p]
  PROVE  f = g
BY DEF IsMap

\* A frame buffer
IsScreen(fb) == IsMap(fb) /\ DOMAIN fb = ScreenCells

LEMMA OnScreen ==
  ASSUME NEW fb, IsScreen(fb), NEW d, DOMAIN d \subseteq ScreenCells
  PROVE  /\ IsScreen(Over(d, fb)) /\ (\A p \in DOMAIN d : Over(d, fb)[p] = d[p])
         /\ (\A p \in ScreenCells \ DOMAIN d : Over(d, fb)[p] = fb[p])
<1>1. (DOMAIN d) \cup (DOMAIN fb) = ScreenCells
  BY DEF IsScreen
<1> DEFINE g == Over(d, fb)
<1>2. /\ IsMap(g) /\ DOMAIN g = (DOMAIN d) \cup (DOMAIN fb)
      /\ \A p \in DOMAIN d : g[p] = d[p]
      /\ \A p \in (DOMAIN fb) \ DOMAIN d : g[p] = fb[p]
  BY DEF Over, IsMap
<1> HIDE DEF g
<1>3. IsScreen(g) /\ (\A p \in DOMAIN d : g[p] = d[p]) /\ (\A p \in ScreenCells \ DOMAIN d : g[p] = fb[p])
  BY <1>1, <1>2 DEF IsScreen
<1>4. QED
  BY <1>3 DEF g

-----------------------------------------------------------------------------
\* The pointer

Restored(fb, x, y, saved) ==
  Over([p \in Pointer(x, y) \cap ScreenCells |-> saved[<<p[1] - x, p[2] - y>>]], fb)

SavedOf(fb, x, y, old) ==
  [c \in CursorCells |-> IF <<x + c[1], y + c[2]>> \in ScreenCells
                           THEN fb[<<x + c[1], y + c[2]>>] ELSE old[c]]

LEMMA RestoredIs ==
  ASSUME NEW fb, IsScreen(fb), NEW x, NEW y, NEW saved, NEW g, g = Restored(fb, x, y, saved)
  PROVE  /\ IsScreen(g)
         /\ \A p \in ScreenCells : g[p] = IF p \in Pointer(x, y) THEN saved[<<p[1] - x, p[2] - y>>] ELSE fb[p]
<1> DEFINE d == [p \in Pointer(x, y) \cap ScreenCells |-> saved[<<p[1] - x, p[2] - y>>]]
<1>1. g = Over(d, fb)
  BY DEF Restored
<1>2. DOMAIN d = Pointer(x, y) \cap ScreenCells
      /\ \A p \in Pointer(x, y) \cap ScreenCells : d[p] = saved[<<p[1] - x, p[2] - y>>]
  OBVIOUS
<1> HIDE DEF d
<1>3. /\ IsMap(g) /\ DOMAIN g = (DOMAIN d) \cup (DOMAIN fb)
      /\ \A p \in DOMAIN d : g[p] = d[p]
      /\ \A p \in (DOMAIN fb) \ DOMAIN d : g[p] = fb[p]
  BY <1>1 DEF Over, IsMap
<1>4. DOMAIN g = ScreenCells
  BY <1>2, <1>3 DEF IsScreen
<1>5. QED
  BY <1>2, <1>3, <1>4 DEF IsScreen

\* Where the pointer drawn at x, y has ink, and which
Ink(x, y) == {p \in Pointer(x, y) \cap ScreenCells : cursor_art[<<p[1] - x, p[2] - y>>] # " "}
InkOf(p, x, y) == IF cursor_art[<<p[1] - x, p[2] - y>>] = "#" THEN Black ELSE White

LEMMA DrawIs ==
  ASSUME NEW fb, IsScreen(fb), NEW x, NEW y, NEW g, g = cursor_draw(fb, x, y)
  PROVE  /\ IsScreen(g) /\ Ink(x, y) \subseteq Pointer(x, y)
         /\ \A p \in ScreenCells : g[p] = IF p \in Ink(x, y) THEN InkOf(p, x, y) ELSE fb[p]
<1> DEFINE d == [p \in Ink(x, y) |-> InkOf(p, x, y)]
<1>1. g = Over(d, fb)
  BY DEF cursor_draw, Ink, InkOf, Pointer
<1>2. DOMAIN d = Ink(x, y) /\ \A p \in Ink(x, y) : d[p] = InkOf(p, x, y)
  OBVIOUS
<1>3. Ink(x, y) \subseteq ScreenCells /\ Ink(x, y) \subseteq Pointer(x, y)
  BY DEF Ink
<1> HIDE DEF d
<1>4. /\ IsMap(g) /\ DOMAIN g = (DOMAIN d) \cup (DOMAIN fb)
      /\ \A p \in DOMAIN d : g[p] = d[p]
      /\ \A p \in (DOMAIN fb) \ DOMAIN d : g[p] = fb[p]
  BY <1>1 DEF Over, IsMap
<1>5. DOMAIN g = ScreenCells
  BY <1>2, <1>3, <1>4 DEF IsScreen
<1>6. QED
  BY <1>2, <1>3, <1>4, <1>5 DEF IsScreen

\* Taken away again, the pointer leaves the screen as it was.
LEMMA DrawnBack ==
  ASSUME NEW fb, IsScreen(fb), NEW x \in Int, NEW y \in Int, NEW old,
         NEW saved, saved = SavedOf(fb, x, y, old)
  PROVE  Restored(cursor_draw(fb, x, y), x, y, saved) = fb
<1> DEFINE g == cursor_draw(fb, x, y)
           b == Restored(g, x, y, saved)
<1>1. /\ IsScreen(g) /\ Ink(x, y) \subseteq Pointer(x, y)
      /\ \A p \in ScreenCells : g[p] = IF p \in Ink(x, y) THEN InkOf(p, x, y) ELSE fb[p]
  BY DrawIs
<1> HIDE DEF g
<1>2. /\ IsScreen(b)
      /\ \A p \in ScreenCells : b[p] = IF p \in Pointer(x, y) THEN saved[<<p[1] - x, p[2] - y>>] ELSE g[p]
  BY <1>1, RestoredIs
<1> HIDE DEF b
<1>3. ASSUME NEW p \in ScreenCells, p \in Pointer(x, y) PROVE saved[<<p[1] - x, p[2] - y>>] = fb[p]
  <2> DEFINE c == <<p[1] - x, p[2] - y>>
  <2>1. p \in Plane /\ p[1] \in Int /\ p[2] \in Int /\ p = <<p[1], p[2]>>
    BY ScreenIs, PlaneIs
  <2>2. c \in Plane /\ c[1] = p[1] - x /\ c[2] = p[2] - y
    BY <2>1, SamePoint
  <2>3. x + c[1] = p[1] /\ y + c[2] = p[2]
    BY <2>1, <2>2
  <2>4. x <= p[1] /\ p[1] < x + CUR_W /\ y <= p[2] /\ p[2] < y + CUR_H
    BY <1>3, <2>1, PointerIs
  <2>5. 0 <= c[1] /\ c[1] < CUR_W /\ 0 <= c[2] /\ c[2] < CUR_H
    BY <2>1, <2>2, <2>4, Dimensions
  <2>6. c \in CursorCells
    BY <2>2, <2>5, Dimensions, InArea DEF CursorCells
  <2> HIDE DEF c
  <2>7. <<x + c[1], y + c[2]>> = p
    BY <2>1, <2>3
  <2>8. saved[c] = fb[p]
    BY <2>6, <2>7 DEF SavedOf
  <2>9. QED
    BY <2>8 DEF c
<1>4. \A p \in ScreenCells : b[p] = fb[p]
  BY <1>1, <1>2, <1>3
<1>5. b = fb
  BY <1>2, <1>4, SameMap DEF IsScreen
<1>6. QED
  BY <1>5 DEF b, g

\* A drawing that does not meet the pointer can as well be done before it is
\* drawn or after it is taken away.
LEMMA ApartFromPointer ==
  ASSUME NEW fb, IsScreen(fb), NEW x, NEW y, NEW saved,
         NEW d, DOMAIN d \subseteq ScreenCells, (DOMAIN d) \cap Pointer(x, y) = {}
  PROVE  /\ Restored(Over(d, fb), x, y, saved) = Over(d, Restored(fb, x, y, saved))
         /\ cursor_draw(Over(d, fb), x, y) = Over(d, cursor_draw(fb, x, y))
<1> DEFINE a == Over(d, fb)
           r == Restored(fb, x, y, saved)
           s == cursor_draw(fb, x, y)
<1>1. IsScreen(a) /\ (\A p \in DOMAIN d : a[p] = d[p]) /\ (\A p \in ScreenCells \ DOMAIN d : a[p] = fb[p])
  BY OnScreen, Zenon
<1>2. /\ IsScreen(r)
      /\ \A p \in ScreenCells : r[p] = IF p \in Pointer(x, y) THEN saved[<<p[1] - x, p[2] - y>>] ELSE fb[p]
  BY RestoredIs
<1>3. /\ IsScreen(s) /\ Ink(x, y) \subseteq Pointer(x, y)
      /\ \A p \in ScreenCells : s[p] = IF p \in Ink(x, y) THEN InkOf(p, x, y) ELSE fb[p]
  BY DrawIs
<1> HIDE DEF a, r, s
<1>4. Restored(a, x, y, saved) = Over(d, r)
  <2> DEFINE f == Restored(a, x, y, saved)
             g == Over(d, r)
  <2>1. /\ IsScreen(f)
        /\ \A p \in ScreenCells : f[p] = IF p \in Pointer(x, y) THEN saved[<<p[1] - x, p[2] - y>>] ELSE a[p]
    BY <1>1, RestoredIs
  <2>2. IsScreen(g) /\ (\A p \in DOMAIN d : g[p] = d[p]) /\ (\A p \in ScreenCells \ DOMAIN d : g[p] = r[p])
    BY <1>2, OnScreen, Zenon
  <2> HIDE DEF f, g
  <2>3. \A p \in ScreenCells : f[p] = g[p]
    BY <1>1, <1>2, <2>1, <2>2
  <2>4. f = g
    BY <2>1, <2>2, <2>3, SameMap DEF IsScreen
  <2>5. QED
    BY <2>4 DEF f, g
<1>5. cursor_draw(a, x, y) = Over(d, s)
  <2> DEFINE f == cursor_draw(a, x, y)
             g == Over(d, s)
  <2>1. /\ IsScreen(f) /\ \A p \in ScreenCells : f[p] = IF p \in Ink(x, y) THEN InkOf(p, x, y) ELSE a[p]
    BY <1>1, DrawIs
  <2>2. IsScreen(g) /\ (\A p \in DOMAIN d : g[p] = d[p]) /\ (\A p \in ScreenCells \ DOMAIN d : g[p] = s[p])
    BY <1>3, OnScreen, Zenon
  <2> HIDE DEF f, g
  <2>3. \A p \in ScreenCells : f[p] = g[p]
    BY <1>1, <1>3, <2>1, <2>2
  <2>4. f = g
    BY <2>1, <2>2, <2>3, SameMap DEF IsScreen
  <2>5. QED
    BY <2>4 DEF f, g
<1>6. QED
  BY <1>4, <1>5 DEF a, r, s

\* The screen without the pointer, as Bare has it
BareOf(px, x, y, shown, saved) == IF shown THEN Restored(px, x, y, saved) ELSE px

LEMMA WriteToScreen ==
  ASSUME NEW px, IsScreen(px), NEW x \in Int, NEW y \in Int, NEW shown \in BOOLEAN, NEW saved,
         shown => px = cursor_draw(BareOf(px, x, y, shown, saved), x, y),
         NEW hid \in BOOLEAN, hid => shown, NEW d, DOMAIN d \subseteq ScreenCells,
         shown /\ ~hid => (DOMAIN d) \cap Pointer(x, y) = {},
         NEW new, new = Over(d, IF hid THEN Restored(px, x, y, saved) ELSE px),
         NEW px2, px2 = (IF hid THEN cursor_draw(new, x, y) ELSE new),
         NEW saved2, saved2 = (IF hid THEN SavedOf(new, x, y, saved) ELSE saved)
  PROVE  /\ IsScreen(px2)
         /\ BareOf(px2, x, y, shown, saved2) = Over(d, BareOf(px, x, y, shown, saved))
         /\ shown => px2 = cursor_draw(BareOf(px2, x, y, shown, saved2), x, y)
<1> DEFINE b == Restored(px, x, y, saved)
<1>1. IsScreen(b)
  BY RestoredIs
<1> HIDE DEF b
<1>2. CASE hid
  <2>1. shown = TRUE /\ hid = TRUE
    BY <1>2
  <2>2. new = Over(d, b) /\ px2 = cursor_draw(new, x, y) /\ saved2 = SavedOf(new, x, y, saved)
    BY <2>1 DEF b
  <2>3. IsScreen(new)
    BY <1>1, <2>2, OnScreen
  <2>4. IsScreen(px2)
    BY <2>2, <2>3, DrawIs
  <2>5. Restored(px2, x, y, saved2) = new
    BY <2>2, <2>3, DrawnBack
  <2>6. QED
    BY <2>1, <2>2, <2>4, <2>5 DEF BareOf, b
<1>3. CASE ~hid /\ shown
  <2>1. shown = TRUE /\ hid = FALSE
    BY <1>3
  <2>2. new = Over(d, px) /\ px2 = new /\ saved2 = saved /\ px = cursor_draw(b, x, y)
    BY <2>1 DEF b, BareOf
  <2>3. (DOMAIN d) \cap Pointer(x, y) = {}
    BY <2>1
  <2>4. IsScreen(px2)
    BY <2>2, OnScreen
  <2>5. Restored(px2, x, y, saved) = Over(d, b)
    BY <2>2, <2>3, ApartFromPointer DEF b
  <2>6. cursor_draw(Over(d, b), x, y) = Over(d, px)
    BY <1>1, <2>2, <2>3, ApartFromPointer
  <2>7. QED
    BY <2>1, <2>2, <2>4, <2>5, <2>6 DEF BareOf, b
<1>4. CASE ~shown
  <2>1. shown = FALSE /\ hid = FALSE
    BY <1>4
  <2>2. px2 = Over(d, px)
    BY <2>1
  <2>3. IsScreen(px2)
    BY <2>2, OnScreen
  <2>4. QED
    BY <2>1, <2>2, <2>3 DEF BareOf
<1>5. QED
  BY <1>2, <1>3, <1>4

-----------------------------------------------------------------------------
\* The invariant

ImageOk(s) ==
  /\ s = [w |-> s.w, h |-> s.h, px |-> s.px] /\ s.w \in Nat /\ s.h \in Nat
  /\ IsMap(s.px) /\ DOMAIN s.px = Area(s.w, s.h)

GfxTypes ==
  /\ DOMAIN surfaces = Ids /\ DOMAIN asked = Ids /\ \A i \in Ids : ImageOk(surfaces[i])
  /\ surfaces[0].w = g_w /\ surfaces[0].h = g_h /\ DOMAIN asked[0] = {"w", "h", "px"}
  /\ DOMAIN owner = ScreenCells
  /\ cur_x \in Int /\ cur_y \in Int /\ cur_shown \in BOOLEAN

GfxInv == GfxTypes /\ Drawn

LEMMA ImageFields ==
  ASSUME NEW s, ImageOk(s)
  PROVE  DOMAIN s = {"w", "h", "px"} /\ [s EXCEPT !.px = s.px] = s
<1>1. s = [w |-> s.w, h |-> s.h, px |-> s.px]
  BY DEF ImageOk
<1>2. QED
  BY <1>1

LEMMA ScreenPx ==
  ASSUME GfxTypes
  PROVE  IsScreen(surfaces[0].px) /\ DOMAIN surfaces[0].px = ScreenCells /\ ~NULL(0)
<1>1. ImageOk(surfaces[0]) /\ surfaces[0].w = g_w /\ surfaces[0].h = g_h
  BY Dimensions DEF GfxTypes
<1>2. surfaces[0] # NoImage
  BY <1>1, Dimensions DEF NoImage
<1>3. QED
  BY <1>1, <1>2 DEF ImageOk, IsScreen, ScreenCells, NULL

LEMMA BareIs == Bare = BareOf(surfaces[0].px, cur_x, cur_y, cur_shown, cur_saved)
BY DEF Bare, BareOf, cursor_restore, Restored, Pointer

LEMMA BareNextIs == Bare' = BareOf(surfaces'[0].px, cur_x', cur_y', cur_shown', cur_saved')
BY DEF Bare, BareOf, cursor_restore, Restored, Pointer

LEMMA WithPx ==
  ASSUME NEW s, "px" \in DOMAIN s, NEW a, NEW t, t = [s EXCEPT !.px = a]
  PROVE  DOMAIN t = DOMAIN s /\ t.px = a
BY Zenon

LEMMA ImageWithPx ==
  ASSUME NEW s, ImageOk(s), NEW a, IsMap(a), DOMAIN a = DOMAIN s.px, NEW t, t = [s EXCEPT !.px = a]
  PROVE  ImageOk(t) /\ t.w = s.w /\ t.h = s.h /\ t.px = a
<1>1. t = [w |-> s.w, h |-> s.h, px |-> a]
  BY DEF ImageOk
<1>2. t.w = s.w /\ t.h = s.h /\ t.px = a
  BY <1>1
<1>3. t = [w |-> t.w, h |-> t.h, px |-> t.px]
  BY <1>1, <1>2
<1>4. QED
  BY <1>2, <1>3 DEF ImageOk

\* What the code draws, d, is the part of the drawing D asked for that falls
\* on the cells A.
Fits(d, D, A) == DOMAIN d = (DOMAIN D) \cap A /\ \A p \in DOMAIN d : d[p] = D[p]

OntoPx(px, D) == [p \in DOMAIN px |-> IF p \in DOMAIN D THEN D[p] ELSE px[p]]

LEMMA FitsIs ==
  ASSUME NEW px, IsMap(px), NEW d, NEW D, Fits(d, D, DOMAIN px)
  PROVE  /\ Over(d, px) = OntoPx(px, D) /\ IsMap(Over(d, px)) /\ DOMAIN Over(d, px) = DOMAIN px
<1> DEFINE f == Over(d, px)
           g == OntoPx(px, D)
<1>1. (DOMAIN d) \cup (DOMAIN px) = DOMAIN px
  BY DEF Fits
<1>2. /\ IsMap(f) /\ DOMAIN f = (DOMAIN d) \cup (DOMAIN px)
      /\ \A p \in DOMAIN d : f[p] = d[p]
      /\ \A p \in (DOMAIN px) \ DOMAIN d : f[p] = px[p]
  BY DEF Over, IsMap
<1>3. /\ IsMap(g) /\ DOMAIN g = DOMAIN px
      /\ \A p \in (DOMAIN px) \cap DOMAIN D : g[p] = D[p]
      /\ \A p \in (DOMAIN px) \ DOMAIN D : g[p] = px[p]
  BY DEF OntoPx, IsMap
<1> HIDE DEF f, g
<1>4. \A p \in DOMAIN f : f[p] = g[p]
  BY <1>1, <1>2, <1>3 DEF Fits
<1>5. f = g
  BY <1>1, <1>2, <1>3, <1>4, SameMap
<1>6. QED
  BY <1>1, <1>2, <1>5 DEF f, g

LEMMA NothingOnto ==
  ASSUME NEW px, IsMap(px), NEW D, (DOMAIN D) \cap DOMAIN px = {}
  PROVE  OntoPx(px, D) = px
BY DEF OntoPx, IsMap

LEMMA AskIs ==
  ASSUME NEW id \in Ids, NEW D, ~NULL(id), Ask(id, D), DOMAIN asked = Ids, "px" \in DOMAIN asked[id]
  PROVE  /\ DOMAIN asked' = Ids /\ asked'[id] = [asked[id] EXCEPT !.px = OntoPx(asked[id].px, D)]
         /\ DOMAIN asked'[id] = DOMAIN asked[id] /\ asked'[id].px = OntoPx(asked[id].px, D)
         /\ \A i \in Ids : i # id => asked'[i] = asked[i]
<1>1. asked' = [asked EXCEPT ![id] = [asked[id] EXCEPT !.px = OntoPx(asked[id].px, D)]]
  BY DEF Ask, Onto, OntoPx
<1>2. QED
  BY <1>1

\* A drawing on the screen
LEMMA DrawScreenInv ==
  ASSUME GfxInv, NEW hid \in BOOLEAN, hid => cur_shown, NEW d, NEW D, Write(0, hid, d), Ask(0, D),
         Fits(d, D, ScreenCells), cur_shown /\ ~hid => (DOMAIN d) \cap Pointer(cur_x, cur_y) = {}
  PROVE  GfxInv'
<1> DEFINE px == surfaces[0].px
           new == Over(d, Uncovered(0, hid))
           px2 == IF hid THEN cursor_draw(new, cur_x, cur_y) ELSE new
           saved2 == IF hid THEN SavedOf(new, cur_x, cur_y, cur_saved) ELSE cur_saved
           B == BareOf(px, cur_x, cur_y, cur_shown, cur_saved)
           B2 == BareOf(px2, cur_x, cur_y, cur_shown, saved2)
<1>0. 0 \in Ids
  BY Dimensions
<1>1. /\ GfxTypes /\ IsScreen(px) /\ ~NULL(0) /\ ImageOk(surfaces[0]) /\ DOMAIN surfaces = Ids
      /\ cur_x \in Int /\ cur_y \in Int /\ cur_shown \in BOOLEAN /\ DOMAIN asked = Ids
      /\ DOMAIN asked[0] = {"w", "h", "px"} /\ DOMAIN px = ScreenCells
  BY <1>0, ScreenPx DEF GfxInv, GfxTypes
<1>2. asked[0].px = B /\ (cur_shown => px = cursor_draw(B, cur_x, cur_y))
      /\ \A i \in Ids \ {0} : surfaces[i] = asked[i]
  BY BareIs DEF GfxInv, Drawn
<1>3. new = Over(d, IF hid THEN Restored(px, cur_x, cur_y, cur_saved) ELSE px)
  BY DEF Uncovered, cursor_restore, Restored, Pointer
<1>4. /\ surfaces' = [surfaces EXCEPT ![0].px = px2] /\ cur_saved' = saved2
      /\ owner' = owner /\ cur_x' = cur_x /\ cur_y' = cur_y /\ cur_shown' = cur_shown
  BY DEF Write, cursor, Saved, SavedOf
<1>5. DOMAIN d \subseteq ScreenCells
  BY DEF Fits
<1> HIDE DEF px, new
<1>6. IsScreen(px2) /\ B2 = Over(d, B) /\ (cur_shown => px2 = cursor_draw(B2, cur_x, cur_y))
  BY <1>1, <1>2, <1>3, <1>5, WriteToScreen
<1>7. IsScreen(B)
  BY <1>1, RestoredIs DEF BareOf
<1> HIDE DEF px2, saved2, B, B2
<1>8. Over(d, B) = OntoPx(B, D)
  BY <1>7, FitsIs DEF IsScreen
<1>9. /\ DOMAIN asked' = Ids /\ DOMAIN asked'[0] = DOMAIN asked[0] /\ asked'[0].px = OntoPx(asked[0].px, D)
      /\ \A i \in Ids : i # 0 => asked'[i] = asked[i]
  <2>1. "px" \in DOMAIN asked[0]
    BY <1>1
  <2>2. QED
    BY <1>0, <1>1, <2>1, AskIs, Zenon
<1>10. /\ DOMAIN surfaces' = Ids /\ surfaces'[0] = [surfaces[0] EXCEPT !.px = px2]
       /\ \A i \in Ids : i # 0 => surfaces'[i] = surfaces[i]
  BY <1>0, <1>1, <1>4
<1>11. /\ ImageOk(surfaces'[0]) /\ surfaces'[0].w = surfaces[0].w /\ surfaces'[0].h = surfaces[0].h
       /\ surfaces'[0].px = px2
  <2>1. IsMap(px2) /\ DOMAIN px2 = DOMAIN surfaces[0].px
    BY <1>1, <1>6 DEF IsScreen, px
  <2>2. QED
    BY <1>1, <1>10, <2>1, ImageWithPx
<1>12. GfxTypes'
  <2>1. \A i \in Ids : ImageOk(surfaces'[i])
    BY <1>1, <1>10, <1>11 DEF GfxTypes
  <2>2. QED
    BY <1>1, <1>4, <1>9, <1>10, <1>11, <2>1 DEF GfxTypes
<1>13. Bare' = B2
  BY <1>4, <1>11, BareNextIs DEF B2
<1>14. Drawn'
  <2>1. Bare' = asked'[0].px
    BY <1>2, <1>6, <1>8, <1>9, <1>13
  <2>2. \A i \in Ids \ {0} : surfaces'[i] = asked'[i]
    BY <1>2, <1>9, <1>10
  <2>3. cur_shown' => surfaces'[0].px = cursor_draw(Bare', cur_x', cur_y')
    BY <1>4, <1>6, <1>11, <1>13
  <2>4. cur_shown' => surfaces'[0].px = cursor_draw(Bare, cur_x, cur_y)'
    BY <2>3 DEF cursor_draw
  <2>5. QED
    BY <2>1, <2>2, <2>4 DEF Drawn
<1>15. QED
  BY <1>12, <1>14 DEF GfxInv

\* A drawing on another surface
LEMMA DrawSurfaceInv ==
  ASSUME GfxInv, NEW id \in Ids, id # 0, ~NULL(id), NEW hid, NEW d, NEW D, Write(id, hid, d), Ask(id, D),
         Fits(d, D, DOMAIN surfaces[id].px)
  PROVE  GfxInv'
<1> DEFINE px == surfaces[id].px
           px2 == Over(d, px)
<1>0. 0 \in Ids
  BY Dimensions
<1>1. /\ GfxTypes /\ ImageOk(surfaces[id]) /\ DOMAIN surfaces = Ids /\ DOMAIN asked = Ids
      /\ surfaces[id] = asked[id] /\ IsMap(px)
  BY <1>0 DEF GfxInv, GfxTypes, Drawn, ImageOk
<1>2. /\ surfaces' = [surfaces EXCEPT ![id].px = px2] /\ cur_saved' = cur_saved
      /\ owner' = owner /\ cur_x' = cur_x /\ cur_y' = cur_y /\ cur_shown' = cur_shown
  BY DEF Write, cursor, Uncovered
<1>3. px2 = OntoPx(px, D) /\ IsMap(px2) /\ DOMAIN px2 = DOMAIN px
  BY <1>1, FitsIs
<1> HIDE DEF px2
<1>4. /\ DOMAIN surfaces' = Ids /\ surfaces'[id] = [surfaces[id] EXCEPT !.px = px2]
      /\ \A i \in Ids : i # id => surfaces'[i] = surfaces[i]
  BY <1>1, <1>2
<1>5. ImageOk(surfaces'[id])
  BY <1>1, <1>3, <1>4, ImageWithPx
<1>6. /\ DOMAIN asked' = Ids /\ asked'[id] = [asked[id] EXCEPT !.px = OntoPx(asked[id].px, D)]
      /\ \A i \in Ids : i # id => asked'[i] = asked[i]
  <2>1. "px" \in DOMAIN asked[id]
    BY <1>1, ImageFields
  <2>2. QED
    BY <1>1, <2>1, AskIs, Zenon
<1>7. asked'[id] = surfaces'[id]
  BY <1>1, <1>3, <1>4, <1>6
<1>8. surfaces'[0] = surfaces[0] /\ asked'[0] = asked[0]
  BY <1>0, <1>4, <1>6
<1>9. GfxTypes'
  <2>1. \A i \in Ids : ImageOk(surfaces'[i])
    BY <1>4, <1>5 DEF GfxInv, GfxTypes
  <2>2. QED
    BY <1>1, <1>2, <1>4, <1>6, <1>8, <2>1 DEF GfxTypes
<1>10. Bare' = Bare
  BY <1>2, <1>8, BareIs, BareNextIs
<1>11. Drawn'
  <2>1. \A i \in Ids \ {0} : surfaces'[i] = asked'[i]
    BY <1>4, <1>6, <1>7 DEF GfxInv, Drawn
  <2>2. cur_shown' => surfaces'[0].px = cursor_draw(Bare, cur_x, cur_y)'
    BY <1>2, <1>8, <1>10 DEF GfxInv, Drawn, cursor_draw
  <2>3. QED
    BY <1>8, <1>10, <2>1, <2>2 DEF GfxInv, Drawn
<1>12. QED
  BY <1>9, <1>11 DEF GfxInv

\* Nothing is drawn and nothing to draw was asked for.
LEMMA SameInv ==
  ASSUME GfxInv, UNCHANGED <<surfaces, cursor, cur_saved, asked>>, DOMAIN owner' = ScreenCells
  PROVE  GfxInv'
<1>1. /\ surfaces' = surfaces /\ asked' = asked /\ cur_x' = cur_x /\ cur_y' = cur_y
      /\ cur_shown' = cur_shown /\ cur_saved' = cur_saved
  BY DEF cursor
<1>2. GfxTypes'
  BY <1>1 DEF GfxInv, GfxTypes
<1>3. Bare' = Bare
  BY <1>1, BareIs, BareNextIs
<1>4. Drawn'
  BY <1>1, <1>3 DEF GfxInv, Drawn, cursor_draw
<1>5. QED
  BY <1>2, <1>4 DEF GfxInv

LEMMA SkipInv ==
  ASSUME GfxInv, NEW id \in Ids, NEW D, Skip, Ask(id, D),
         NULL(id) \/ (DOMAIN D) \cap DOMAIN surfaces[id].px = {}
  PROVE  GfxInv'
<1>0. 0 \in Ids
  BY Dimensions
<1>1. UNCHANGED <<surfaces, cursor, cur_saved>> /\ DOMAIN owner' = ScreenCells
  BY DEF Skip, GfxInv, GfxTypes
<1>2. CASE NULL(id)
  <2>1. asked' = asked
    BY <1>2 DEF Ask
  <2>2. QED
    BY <1>1, <2>1, SameInv
<1>3. CASE ~NULL(id) /\ (DOMAIN D) \cap DOMAIN surfaces[id].px = {}
  <2>1. DOMAIN asked = Ids /\ "px" \in DOMAIN asked[id]
    BY <1>0, ImageFields DEF GfxInv, GfxTypes, Drawn
  <2>2. IsMap(asked[id].px) /\ DOMAIN asked[id].px = DOMAIN surfaces[id].px
    <3>1. CASE id = 0
      <4>1. IsScreen(surfaces[0].px)
        BY ScreenPx DEF GfxInv
      <4>2. IsScreen(Bare)
        BY <4>1, BareIs, RestoredIs DEF BareOf
      <4>3. QED
        BY <3>1, <4>1, <4>2 DEF GfxInv, Drawn, IsScreen
    <3>2. CASE id # 0
      BY <3>2 DEF GfxInv, GfxTypes, Drawn, ImageOk
    <3>3. QED
      BY <3>1, <3>2
  <2>3. OntoPx(asked[id].px, D) = asked[id].px
    BY <1>3, <2>2, NothingOnto
  <2>4. asked' = [asked EXCEPT ![id] = [asked[id] EXCEPT !.px = OntoPx(asked[id].px, D)]]
    BY <1>3 DEF Ask, Onto, OntoPx
  <2>5. /\ DOMAIN asked' = Ids /\ DOMAIN asked'[id] = DOMAIN asked[id] /\ asked'[id].px = asked[id].px
        /\ \A i \in Ids : i # id => asked'[i] = asked[i]
    BY <2>1, <2>3, <2>4
  <2>6. id # 0 => asked'[id] = asked[id]
    <3> SUFFICES ASSUME id # 0 PROVE asked'[id] = asked[id]
      OBVIOUS
    <3>1. ImageOk(asked[id])
      BY DEF GfxInv, GfxTypes, Drawn
    <3>2. [asked[id] EXCEPT !.px = asked[id].px] = asked[id]
      BY <3>1, ImageFields
    <3>3. QED
      BY <2>1, <2>3, <2>4, <3>2
  <2>7. GfxTypes'
    <3>1. DOMAIN asked'[0] = DOMAIN asked[0]
      BY <1>0, <2>5
    <3>2. DOMAIN asked[0] = {"w", "h", "px"}
      BY DEF GfxInv, GfxTypes
    <3>3. QED
      BY <1>1, <2>5, <3>1, <3>2 DEF GfxInv, GfxTypes, cursor
  <2>8. Bare' = Bare
    BY <1>1, BareIs, BareNextIs DEF cursor
  <2>9. Drawn'
    <3>1. \A i \in Ids \ {0} : surfaces'[i] = asked'[i]
      BY <1>1, <2>5, <2>6 DEF GfxInv, Drawn
    <3>2. asked'[0].px = asked[0].px
      BY <1>0, <2>5
    <3>3. QED
      BY <1>1, <2>8, <3>1, <3>2 DEF GfxInv, Drawn, cursor_draw, cursor
  <2>10. QED
    BY <2>7, <2>9 DEF GfxInv
<1>4. QED
  BY <1>2, <1>3

-----------------------------------------------------------------------------
\* Clipping, and hiding the pointer

LEMMA ClipAxisIs ==
  ASSUME NEW x \in Int, NEW w \in Int, NEW max \in Nat
  PROVE  /\ ClipAxis(x, w, max).at \in Int /\ ClipAxis(x, w, max).len \in Int
         /\ \A i \in Int : ClipAxis(x, w, max).at <= i /\ i < ClipAxis(x, w, max).at + ClipAxis(x, w, max).len
                            <=> x <= i /\ i < x + w /\ 0 <= i /\ i < max
<1> DEFINE a == ClipAxis(x, w, max)
           w1 == IF x < 0 THEN w + x ELSE w
           x1 == IF x < 0 THEN 0 ELSE x
           l1 == IF x1 + w1 > max THEN max - x1 ELSE w1
<1>1. a.at = x1 /\ a.len = l1
  BY DEF ClipAxis
<1>2. x1 \in Int /\ w1 \in Int /\ l1 \in Int
  OBVIOUS
<1>3. \A i \in Int : x1 <= i /\ i < x1 + l1 <=> x <= i /\ i < x + w /\ 0 <= i /\ i < max
  OBVIOUS
<1> HIDE DEF x1, w1, l1, a
<1>4. /\ a.at \in Int /\ a.len \in Int
      /\ \A i \in Int : a.at <= i /\ i < a.at + a.len <=> x <= i /\ i < x + w /\ 0 <= i /\ i < max
  BY <1>1, <1>2, <1>3
<1>5. QED
  BY <1>4 DEF a

LEMMA ClipIs ==
  ASSUME NEW r \in Rectangle, NEW w \in Nat, NEW h \in Nat, NEW k, k = clip(r, w, h)
  PROVE  k \in Rectangle /\ Cells(k) = Cells(r) \cap Area(w, h)
<1> DEFINE a == ClipAxis(r.x, r.w, w)
           b == ClipAxis(r.y, r.h, h)
<1>1. r.x \in Int /\ r.y \in Int /\ r.w \in Int /\ r.h \in Int
  BY DEF Rectangle
<1>4. k = Rect(a.at, b.at, a.len, b.len)
  BY DEF clip
<1>2. /\ a.at \in Int /\ a.len \in Int
      /\ \A i \in Int : a.at <= i /\ i < a.at + a.len <=> r.x <= i /\ i < r.x + r.w /\ 0 <= i /\ i < w
  BY <1>1, ClipAxisIs, Zenon
<1>3. /\ b.at \in Int /\ b.len \in Int
      /\ \A i \in Int : b.at <= i /\ i < b.at + b.len <=> r.y <= i /\ i < r.y + r.h /\ 0 <= i /\ i < h
  BY <1>1, ClipAxisIs, Zenon
<1> HIDE DEF a, b
<1>5. /\ \A p \in Plane : p \in Cells(k) <=> /\ a.at <= p[1] /\ p[1] < a.at + a.len
                                             /\ b.at <= p[2] /\ p[2] < b.at + b.len
      /\ Cells(k) \subseteq Plane /\ k \in Rectangle
  <2>1. /\ \A p \in Plane : p \in Cells(Rect(a.at, b.at, a.len, b.len)) <=>
               /\ a.at <= p[1] /\ p[1] < a.at + a.len /\ b.at <= p[2] /\ p[2] < b.at + b.len
        /\ Cells(Rect(a.at, b.at, a.len, b.len)) \subseteq Plane
    BY <1>2, <1>3, InRect, Zenon
  <2>2. k \in Rectangle
    BY <1>2, <1>3, <1>4, RectIs
  <2>3. QED
    BY <1>4, <2>1, <2>2, Zenon
<1>6. /\ \A p \in Plane : p \in Cells(r) <=> /\ r.x <= p[1] /\ p[1] < r.x + r.w
                                             /\ r.y <= p[2] /\ p[2] < r.y + r.h
      /\ Cells(r) \subseteq Plane
  BY CellsIs
<1>7. /\ \A p \in Plane : p \in Area(w, h) <=> 0 <= p[1] /\ p[1] < w /\ 0 <= p[2] /\ p[2] < h
      /\ Area(w, h) \subseteq Plane
  BY InArea
<1>8. \A p \in Plane : p \in Cells(k) <=> p \in Cells(r) /\ p \in Area(w, h)
  <2> SUFFICES ASSUME NEW p \in Plane PROVE p \in Cells(k) <=> p \in Cells(r) /\ p \in Area(w, h)
    OBVIOUS
  <2>1. p[1] \in Int /\ p[2] \in Int
    BY PlaneIs
  <2>2. a.at <= p[1] /\ p[1] < a.at + a.len <=> r.x <= p[1] /\ p[1] < r.x + r.w /\ 0 <= p[1] /\ p[1] < w
    BY <1>2, <2>1
  <2>3. b.at <= p[2] /\ p[2] < b.at + b.len <=> r.y <= p[2] /\ p[2] < r.y + r.h /\ 0 <= p[2] /\ p[2] < h
    BY <1>3, <2>1
  <2>4. QED
    BY <1>5, <1>6, <1>7, <2>2, <2>3
<1>9. \A p : p \in Cells(k) <=> p \in Cells(r) \cap Area(w, h)
  BY <1>5, <1>6, <1>8
<1>10. QED
  BY <1>5, <1>9

LEMMA NotLeft ==
  ASSUME NEW r \in Rectangle, ~Left(r)
  PROVE  Cells(r) = {}
<1>1. r.x \in Int /\ r.y \in Int /\ r.w \in Int /\ r.h \in Int
  BY DEF Rectangle
<1> SUFFICES ASSUME NEW p \in Cells(r) PROVE FALSE
  OBVIOUS
<1>2. p \in Plane /\ r.x <= p[1] /\ p[1] < r.x + r.w /\ r.y <= p[2] /\ p[2] < r.y + r.h
  BY CellsIs
<1>3. p[1] \in Int /\ p[2] \in Int
  BY <1>2, PlaneIs
<1>4. QED
  BY <1>1, <1>2, <1>3 DEF Left

LEMMA HideIs ==
  ASSUME NEW r \in Rectangle, cur_x \in Int, cur_y \in Int, cur_shown \in BOOLEAN
  PROVE  /\ cursor_hide_for(r) \in BOOLEAN /\ (cursor_hide_for(r) => cur_shown)
         /\ cur_shown /\ ~cursor_hide_for(r) => Cells(r) \cap Pointer(cur_x, cur_y) = {}
<1>1. r.x \in Int /\ r.y \in Int /\ r.w \in Int /\ r.h \in Int
  BY DEF Rectangle
<1>2. cursor_hide_for(r) \in BOOLEAN /\ (cursor_hide_for(r) => cur_shown)
  BY DEF cursor_hide_for
<1>3. ASSUME cur_shown, NEW p \in Cells(r) \cap Pointer(cur_x, cur_y) PROVE cursor_hide_for(r)
  <2>1. p \in Plane /\ r.x <= p[1] /\ p[1] < r.x + r.w /\ r.y <= p[2] /\ p[2] < r.y + r.h
    BY CellsIs
  <2>2. cur_x <= p[1] /\ p[1] < cur_x + CUR_W /\ cur_y <= p[2] /\ p[2] < cur_y + CUR_H
    BY <2>1, PointerIs
  <2>3. p[1] \in Int /\ p[2] \in Int
    BY <2>1, PlaneIs
  <2>4. ~(\/ r.x >= cur_x + CUR_W \/ r.y >= cur_y + CUR_H
          \/ r.x + r.w <= cur_x \/ r.y + r.h <= cur_y)
    BY <1>1, <2>1, <2>2, <2>3, Dimensions
  <2>5. QED
    BY <1>3, <2>4 DEF cursor_hide_for
<1>4. QED
  BY <1>2, <1>3

\* What an operation draws inside rectangle r, which it hides the pointer for
LEMMA DrawInv ==
  ASSUME GfxInv, NEW id \in Ids, ~NULL(id), NEW r \in Rectangle, NEW d, NEW D,
         Write(id, cursor_hide_for(r), d), Ask(id, D),
         Fits(d, D, DOMAIN surfaces[id].px), DOMAIN d \subseteq Cells(r)
  PROVE  GfxInv'
<1>1. cur_x \in Int /\ cur_y \in Int /\ cur_shown \in BOOLEAN
  BY DEF GfxInv, GfxTypes
<1>2. CASE id = 0
  <2>1. Fits(d, D, ScreenCells)
    BY <1>2, ScreenPx DEF GfxInv
  <2> DEFINE hid == cursor_hide_for(r)
  <2>2. hid \in BOOLEAN /\ (hid => cur_shown)
    BY <1>1, HideIs
  <2>3. cur_shown /\ ~hid => (DOMAIN d) \cap Pointer(cur_x, cur_y) = {}
    BY <1>1, HideIs
  <2>4. Write(0, hid, d) /\ Ask(0, D)
    BY <1>2
  <2> HIDE DEF hid
  <2>5. QED
    BY <2>1, <2>2, <2>3, <2>4, DrawScreenInv, Zenon
<1>3. CASE id # 0
  BY <1>3, DrawSurfaceInv
<1>4. QED
  BY <1>2, <1>3

-----------------------------------------------------------------------------
\* gfx_init and the operations that draw nothing

LEMMA Arguments ==
  Rects \subseteq Rectangle /\ Points \subseteq Plane /\ Sides \subseteq Int /\ Scales \subseteq Nat
BY GfxAssumption, Zenon DEF Rectangle, Plane

LEMMA ImageIs ==
  ASSUME NEW w \in Nat, NEW h \in Nat, NEW f, IsMap(f), DOMAIN f = Area(w, h)
  PROVE  ImageOk([w |-> w, h |-> h, px |-> f])
BY DEF ImageOk

LEMMA NoImageIs == ImageOk(NoImage) /\ NoImage.px = [p \in {} |-> 0] /\ DOMAIN NoImage.px = {}
<1>1. Area(0, 0) = {}
  <2> SUFFICES ASSUME NEW p \in Area(0, 0) PROVE FALSE
    OBVIOUS
  <2>1. p \in Plane /\ 0 <= p[1] /\ p[1] < 0
    BY InArea
  <2>2. QED
    BY <2>1, PlaneIs
<1> DEFINE f == [p \in {} |-> 0]
<1>2. IsMap(f) /\ DOMAIN f = {}
  BY DEF IsMap
<1>3. NoImage = [w |-> 0, h |-> 0, px |-> f]
  BY DEF NoImage
<1> HIDE DEF f
<1>4. ImageOk([w |-> 0, h |-> 0, px |-> f])
  BY <1>1, <1>2, ImageIs
<1>5. NoImage.px = f
  BY <1>3
<1>6. QED
  BY <1>2, <1>3, <1>4, <1>5 DEF f

LEMMA GfxInitInv ==
  ASSUME GfxInit
  PROVE  GfxInv
<1> DEFINE f == [p \in ScreenCells |-> p]
           s == [w |-> g_w, h |-> g_h, px |-> f]
<1>0. 0 \in Ids /\ g_w \in Nat /\ g_h \in Nat
  BY Dimensions
<1>1. /\ surfaces = [i \in Ids |-> IF i = 0 THEN s ELSE NoImage] /\ asked = surfaces
      /\ owner = [p \in ScreenCells |-> 0] /\ cur_x = 0 /\ cur_y = 0 /\ cur_shown = FALSE
  BY DEF GfxInit
<1>2. IsMap(f) /\ DOMAIN f = Area(g_w, g_h)
  BY DEF IsMap, ScreenCells
<1> HIDE DEF f
<1>3. ImageOk(s) /\ s.w = g_w /\ s.h = g_h /\ DOMAIN s = {"w", "h", "px"}
  BY <1>0, <1>2, ImageIs
<1> HIDE DEF s
<1>4. surfaces[0] = s /\ \A i \in Ids : i # 0 => surfaces[i] = NoImage
  BY <1>0, <1>1
<1>5. GfxTypes
  <2>1. \A i \in Ids : ImageOk(surfaces[i])
    BY <1>3, <1>4, NoImageIs
  <2>2. DOMAIN surfaces = Ids /\ DOMAIN asked = Ids /\ DOMAIN owner = ScreenCells
    BY <1>1
  <2>3. surfaces[0].w = g_w /\ surfaces[0].h = g_h /\ DOMAIN asked[0] = {"w", "h", "px"}
    BY <1>1, <1>3, <1>4, Zenon
  <2>4. cur_x \in Int /\ cur_y \in Int
    BY <1>1
  <2>5. cur_shown \in BOOLEAN
    BY <1>1, Zenon
  <2>6. QED
    BY <2>1, <2>2, <2>3, <2>4, <2>5 DEF GfxTypes
<1>6. Bare = surfaces[0].px
  BY <1>1 DEF Bare
<1>7. QED
  BY <1>1, <1>5, <1>6 DEF GfxInv, Drawn

LEMMA CursorInv ==
  ASSUME GfxInv, NEW x \in Int, NEW y \in Int, NEW show \in BOOLEAN, gfx_cursor(x, y, show)
  PROVE  GfxInv'
<1> DEFINE px2 == IF show THEN cursor_draw(Bare, x, y) ELSE Bare
           saved2 == IF show THEN SavedOf(Bare, x, y, cur_saved) ELSE cur_saved
<1>0. 0 \in Ids
  BY Dimensions
<1>1. /\ surfaces' = [surfaces EXCEPT ![0].px = px2] /\ cur_saved' = saved2
      /\ owner' = owner /\ asked' = asked /\ cur_x' = x /\ cur_y' = y /\ cur_shown' = show
  BY DEF gfx_cursor, Bare, Saved, SavedOf
<1>2. /\ IsScreen(surfaces[0].px) /\ DOMAIN surfaces[0].px = ScreenCells /\ ImageOk(surfaces[0])
      /\ DOMAIN surfaces = Ids /\ GfxTypes
  BY <1>0, ScreenPx DEF GfxInv, GfxTypes
<1>3. IsScreen(Bare)
  BY <1>2, BareIs, RestoredIs DEF BareOf
<1>4. IsScreen(px2)
  BY <1>3, DrawIs
<1>5. BareOf(px2, x, y, show, saved2) = Bare /\ (show => px2 = cursor_draw(Bare, x, y))
  <2>1. CASE show
    <3>1. show = TRUE
      BY <2>1
    <3>2. Restored(cursor_draw(Bare, x, y), x, y, SavedOf(Bare, x, y, cur_saved)) = Bare
      BY <1>3, DrawnBack
    <3>3. QED
      BY <3>1, <3>2 DEF BareOf
  <2>2. CASE ~show
    <3>1. show = FALSE
      BY <2>2
    <3>2. QED
      BY <3>1 DEF BareOf
  <2>3. QED
    BY <2>1, <2>2
<1> HIDE DEF px2, saved2
<1>6. /\ DOMAIN surfaces' = Ids /\ surfaces'[0] = [surfaces[0] EXCEPT !.px = px2]
      /\ \A i \in Ids : i # 0 => surfaces'[i] = surfaces[i]
  BY <1>0, <1>1, <1>2
<1>7. /\ ImageOk(surfaces'[0]) /\ surfaces'[0].w = surfaces[0].w /\ surfaces'[0].h = surfaces[0].h
      /\ surfaces'[0].px = px2
  <2>1. IsMap(px2) /\ DOMAIN px2 = DOMAIN surfaces[0].px
    BY <1>2, <1>4 DEF IsScreen
  <2>2. QED
    BY <1>2, <1>6, <2>1, ImageWithPx
<1>8. GfxTypes'
  <2>1. \A i \in Ids : ImageOk(surfaces'[i])
    BY <1>6, <1>7 DEF GfxInv, GfxTypes
  <2>2. QED
    BY <1>1, <1>2, <1>6, <1>7, <2>1 DEF GfxTypes
<1>9. Bare' = Bare
  BY <1>1, <1>5, <1>7, BareNextIs
<1>10. Drawn'
  <2>1. Bare' = asked'[0].px /\ \A i \in Ids \ {0} : surfaces'[i] = asked'[i]
    BY <1>1, <1>6, <1>9 DEF GfxInv, Drawn
  <2>2. cur_shown' => surfaces'[0].px = cursor_draw(Bare, cur_x, cur_y)'
    BY <1>1, <1>5, <1>7, <1>9 DEF cursor_draw
  <2>3. QED
    BY <2>1, <2>2 DEF Drawn
<1>11. QED
  BY <1>8, <1>10 DEF GfxInv

\* Another surface is made or freed.
LEMMA NewImageInv ==
  ASSUME GfxInv, NEW i \in Ids, i # 0, NEW s, ImageOk(s),
         surfaces' = [surfaces EXCEPT ![i] = s], asked' = [asked EXCEPT ![i] = s],
         UNCHANGED <<cursor, cur_saved>>, DOMAIN owner' = ScreenCells
  PROVE  GfxInv'
<1>0. 0 \in Ids
  BY Dimensions
<1>1. DOMAIN surfaces = Ids /\ DOMAIN asked = Ids
  BY DEF GfxInv, GfxTypes
<1>2. /\ DOMAIN surfaces' = Ids /\ surfaces'[i] = s /\ \A j \in Ids : j # i => surfaces'[j] = surfaces[j]
      /\ DOMAIN asked' = Ids /\ asked'[i] = s /\ \A j \in Ids : j # i => asked'[j] = asked[j]
  BY <1>1
<1>3. surfaces'[0] = surfaces[0] /\ asked'[0] = asked[0]
  BY <1>0, <1>2
<1>4. cur_x' = cur_x /\ cur_y' = cur_y /\ cur_shown' = cur_shown /\ cur_saved' = cur_saved
  BY DEF cursor
<1>5. GfxTypes'
  <2>1. \A j \in Ids : ImageOk(surfaces'[j])
    BY <1>2 DEF GfxInv, GfxTypes
  <2>2. QED
    BY <1>2, <1>3, <1>4, <2>1 DEF GfxInv, GfxTypes
<1>6. Bare' = Bare
  BY <1>3, <1>4, BareIs, BareNextIs
<1>7. Drawn'
  <2>1. \A j \in Ids \ {0} : surfaces'[j] = asked'[j]
    BY <1>2 DEF GfxInv, Drawn
  <2>2. QED
    BY <1>3, <1>4, <1>6, <2>1 DEF GfxInv, Drawn, cursor_draw
<1>8. QED
  BY <1>5, <1>7 DEF GfxInv

LEMMA SurfaceNewInv ==
  ASSUME GfxInv, NEW w \in Int, NEW h \in Int, native_gfx_surface(w, h)
  PROVE  GfxInv'
<1> SUFFICES ASSUME NEW v \in Nat, NEW g \in Nat, gfx_surface_new(v, g) PROVE GfxInv'
  <2>1. Unsigned(w) \in Nat /\ Unsigned(h) \in Nat
    BY Dimensions DEF Unsigned
  <2>2. QED
    BY <2>1 DEF native_gfx_surface
<1>1. v \in Nat /\ g \in Nat /\ gfx_surface_new(v, g)
  OBVIOUS
<1>2. UNCHANGED <<cursor, cur_saved>> /\ DOMAIN owner' = ScreenCells
  BY <1>1 DEF gfx_surface_new, GfxInv, GfxTypes
<1>3. CASE UNCHANGED <<surfaces, asked>>
  BY <1>2, <1>3, SameInv
<1>4. CASE \E i \in Ids \ {0} : /\ surfaces' = [surfaces EXCEPT ![i] = Image(v, g, Black)]
                                /\ asked' = [asked EXCEPT ![i] = Image(v, g, Black)]
  <2>1. PICK i \in Ids \ {0} : /\ surfaces' = [surfaces EXCEPT ![i] = Image(v, g, Black)]
                               /\ asked' = [asked EXCEPT ![i] = Image(v, g, Black)]
    BY <1>4
  <2> DEFINE f == [p \in Area(v, g) |-> Black]
  <2>2. IsMap(f) /\ DOMAIN f = Area(v, g)
    BY DEF IsMap
  <2>3. Image(v, g, Black) = [w |-> v, h |-> g, px |-> f]
    BY DEF Image
  <2> HIDE DEF f
  <2>4. ImageOk(Image(v, g, Black))
    BY <1>1, <2>2, <2>3, ImageIs
  <2>5. QED
    BY <1>2, <2>1, <2>4, NewImageInv
<1>5. QED
  BY <1>1, <1>3, <1>4 DEF gfx_surface_new

LEMMA SurfaceFreeInv ==
  ASSUME GfxInv, NEW id \in Ids, gfx_surface_free(id)
  PROVE  GfxInv'
<1>1. /\ id # 0 /\ surfaces' = [surfaces EXCEPT ![id] = NoImage] /\ asked' = [asked EXCEPT ![id] = NoImage]
      /\ UNCHANGED <<cursor, cur_saved>> /\ DOMAIN owner' = ScreenCells
  BY DEF gfx_surface_free, Ids
<1>2. QED
  BY <1>1, NoImageIs, NewImageInv

LEMMA OwnInv ==
  ASSUME GfxInv, NEW id \in Ids, NEW r \in Rectangle, gfx_own(id, r)
  PROVE  GfxInv'
<1> DEFINE k == clip(r, g_w, g_h)
<1>1. Cells(k) \subseteq ScreenCells
  BY Dimensions, ClipIs DEF ScreenCells
<1>2. DOMAIN owner' = Cells(k) \cup DOMAIN owner /\ UNCHANGED <<surfaces, cursor, cur_saved, asked>>
  BY DEF gfx_own, Over
<1>3. DOMAIN owner' = ScreenCells
  BY <1>1, <1>2 DEF GfxInv, GfxTypes
<1>4. QED
  BY <1>2, <1>3, SameInv

-----------------------------------------------------------------------------
\* Filling

LEMMA SizesOf ==
  ASSUME GfxInv, NEW id \in Ids
  PROVE  surfaces[id].w \in Nat /\ surfaces[id].h \in Nat
         /\ DOMAIN surfaces[id].px = Area(surfaces[id].w, surfaces[id].h)
BY DEF GfxInv, GfxTypes, ImageOk

LEMMA FillRectInv ==
  ASSUME GfxInv, NEW id \in Ids, NEW r \in Rectangle, NEW c, FillRect(id, r, c), Ask(id, Fill(r, c))
  PROVE  GfxInv'
<1> DEFINE k == clip(r, surfaces[id].w, surfaces[id].h)
           A == DOMAIN surfaces[id].px
<1>1. k \in Rectangle /\ Cells(k) = Cells(r) \cap A
  BY SizesOf, ClipIs
<1>2. DOMAIN Fill(r, c) = Cells(r) /\ \A p \in Cells(r) : Fill(r, c)[p] = c
  BY DEF Fill
<1>3. DOMAIN Fill(k, c) = Cells(k) /\ \A p \in Cells(k) : Fill(k, c)[p] = c
  BY DEF Fill
<1>4. IF NULL(id) \/ ~Left(k) THEN Skip ELSE Write(id, cursor_hide_for(k), Fill(k, c))
  BY DEF FillRect
<1> HIDE DEF k
<1>5. CASE NULL(id) \/ ~Left(k)
  <2>1. NULL(id) \/ (DOMAIN Fill(r, c)) \cap A = {}
    BY <1>1, <1>2, <1>5, NotLeft
  <2>2. QED
    BY <1>4, <1>5, <2>1, SkipInv
<1>6. CASE ~(NULL(id) \/ ~Left(k))
  <2>1. Fits(Fill(k, c), Fill(r, c), A)
    BY <1>1, <1>2, <1>3 DEF Fits
  <2>2. QED
    BY <1>1, <1>3, <1>4, <1>6, <2>1, DrawInv
<1>7. QED
  BY <1>5, <1>6

LEMMA UnsignedIs ==
  ASSUME NEW r \in Rectangle
  PROVE  UnsignedRect(r) \in Rectangle
<1>1. \A i \in Int : Unsigned(i) \in Int
  BY Dimensions DEF Unsigned
<1>2. r.x \in Int /\ r.y \in Int /\ r.w \in Int /\ r.h \in Int
  BY DEF Rectangle
<1>3. QED
  BY <1>1, <1>2, RectIs DEF UnsignedRect

LEMMA FillScreenInv ==
  ASSUME GfxInv, NEW r \in Rectangle, NEW c, gfx_fill_rect(r, c)
  PROVE  GfxInv'
BY Dimensions, UnsignedIs, FillRectInv DEF gfx_fill_rect

LEMMA SetPixelInv ==
  ASSUME GfxInv, NEW x \in Int, NEW y \in Int, NEW c, gfx_set_pixel(x, y, c)
  PROVE  GfxInv'
<1> DEFINE r == Rect(Unsigned(x), Unsigned(y), 1, 1)
<1>1. Unsigned(x) \in Int /\ Unsigned(y) \in Int /\ 1 \in Int
  BY Dimensions DEF Unsigned
<1>2. r \in Rectangle /\ r.x = Unsigned(x) /\ r.y = Unsigned(y)
  BY <1>1 DEF Rect, Rectangle
<1>3. /\ IF <<r.x, r.y>> \notin ScreenCells THEN Skip ELSE Write(0, cursor_hide_for(r), Fill(r, c))
      /\ Ask(0, Fill(r, c))
  BY DEF gfx_set_pixel
<1>4. Cells(r) = {<<r.x, r.y>>}
  <2>1. ASSUME NEW p \in Plane PROVE p \in Cells(r) <=> p = <<r.x, r.y>>
    <3>1. p[1] \in Int /\ p[2] \in Int /\ p = <<p[1], p[2]>>
      BY PlaneIs
    <3>2. p \in Cells(r) <=> /\ Unsigned(x) <= p[1] /\ p[1] < Unsigned(x) + 1 /\ Unsigned(y) <= p[2] /\ p[2] < Unsigned(y) + 1
      BY <1>1, InRect
    <3>3. p \in Cells(r) <=> p[1] = Unsigned(x) /\ p[2] = Unsigned(y)
      BY <1>1, <3>1, <3>2
    <3>4. QED
      BY <1>1, <1>2, <3>1, <3>3
  <2>2. Cells(r) \subseteq Plane /\ <<r.x, r.y>> \in Plane
    BY <1>1, <1>2, CellsIs, SamePoint
  <2> HIDE DEF r
  <2>3. \A p : p \in Cells(r) <=> p = <<r.x, r.y>>
    BY <2>1, <2>2
  <2>4. QED
    BY <2>3
<1>5. DOMAIN Fill(r, c) = Cells(r)
  BY DEF Fill
<1>6. 0 \in Ids /\ ~NULL(0) /\ DOMAIN surfaces[0].px = ScreenCells
  BY Dimensions, ScreenPx DEF GfxInv
<1> HIDE DEF r
<1>7. CASE <<r.x, r.y>> \notin ScreenCells
  BY <1>3, <1>4, <1>5, <1>6, <1>7, SkipInv
<1>8. CASE <<r.x, r.y>> \in ScreenCells
  <2>1. Fits(Fill(r, c), Fill(r, c), ScreenCells)
    BY <1>4, <1>5, <1>8 DEF Fits
  <2>2. QED
    BY <1>2, <1>3, <1>5, <1>6, <1>8, <2>1, DrawInv
<1>9. QED
  BY <1>7, <1>8

LEMMA OwnedIs ==
  ASSUME NEW D, NEW o, NEW id, NEW E, E = Owned(D, o, id)
  PROVE  /\ \A q : q \in DOMAIN E <=> q \in DOMAIN D /\ q \in DOMAIN o /\ o[q] = id
         /\ \A p \in DOMAIN E : E[p] = D[p]
BY DEF Owned, Within

LEMMA FillOwnedInv ==
  ASSUME GfxInv, NEW id \in Ids, NEW r \in Rectangle, NEW c, gfx_fill_owned(id, r, c)
  PROVE  GfxInv'
<1> DEFINE k == clip(r, g_w, g_h)
           d == [p \in {q \in Cells(k) : owner[q] = id} |-> c]
           D == Owned(Fill(r, c), owner, id)
<1>1. k \in Rectangle /\ Cells(k) = Cells(r) \cap ScreenCells
  BY Dimensions, ClipIs DEF ScreenCells
<1>2. (IF ~Left(k) THEN Skip ELSE Write(0, cursor_hide_for(k), d)) /\ Ask(0, D)
  BY DEF gfx_fill_owned
<1>3. DOMAIN Fill(r, c) = Cells(r) /\ \A p \in Cells(r) : Fill(r, c)[p] = c
  BY DEF Fill
<1>4. DOMAIN owner = ScreenCells /\ 0 \in Ids /\ ~NULL(0) /\ DOMAIN surfaces[0].px = ScreenCells
  BY Dimensions, ScreenPx DEF GfxInv, GfxTypes
<1>5. (\A q : q \in DOMAIN D <=> q \in Cells(r) /\ q \in ScreenCells /\ owner[q] = id)
      /\ \A p \in DOMAIN D : D[p] = c
  <2> DEFINE f == Fill(r, c)
  <2> HIDE DEF f
  <2>0. D = Owned(f, owner, id)
    BY DEF f
  <2> HIDE DEF D
  <2>1. /\ \A q : q \in DOMAIN D <=> q \in DOMAIN f /\ q \in DOMAIN owner /\ owner[q] = id
        /\ \A p \in DOMAIN D : D[p] = f[p]
    BY <2>0, OwnedIs
  <2>2. DOMAIN f = Cells(r) /\ \A p \in Cells(r) : f[p] = c
    BY <1>3 DEF f
  <2>3. QED
    BY <1>4, <2>1, <2>2
<1>6. DOMAIN d = {q \in Cells(k) : owner[q] = id} /\ \A p \in DOMAIN d : d[p] = c
  OBVIOUS
<1> HIDE DEF k, d, D
<1>7. CASE ~Left(k)
  <2>1. Cells(r) \cap ScreenCells = {}
    BY <1>1, <1>7, NotLeft
  <2>2. (DOMAIN D) \cap ScreenCells = {}
    BY <1>5, <2>1
  <2>3. QED
    BY <1>2, <1>4, <1>7, <2>2, SkipInv
<1>8. CASE Left(k)
  <2>1. Fits(d, D, ScreenCells)
    <3>1. \A q : q \in DOMAIN d <=> q \in (DOMAIN D) \cap ScreenCells
      BY <1>1, <1>5, <1>6
    <3>2. QED
      BY <1>5, <1>6, <3>1 DEF Fits
  <2>2. DOMAIN d \subseteq Cells(k)
    BY <1>6
  <2>3. QED
    BY <1>1, <1>2, <1>4, <1>8, <2>1, <2>2, DrawInv
<1>9. QED
  BY <1>7, <1>8

LEMMA ClearInv ==
  ASSUME GfxInv, NEW c, native_gfx_clear(c)
  PROVE  GfxInv'
<1>1. Rect(0, 0, g_w, g_h) \in Rectangle
  BY Dimensions DEF Rect, Rectangle
<1>2. QED
  BY <1>1, FillScreenInv DEF native_gfx_clear

-----------------------------------------------------------------------------
\* gfx_present

LEMMA CarryIs ==
  ASSUME NEW p \in Plane, NEW a \in Plane, NEW b \in Plane
  PROVE  /\ Carry(p, a, b) \in Plane /\ Carry(p, a, b) = <<p[1] - a[1] + b[1], p[2] - a[2] + b[2]>>
         /\ Carry(p, a, b)[1] = p[1] - a[1] + b[1] /\ Carry(p, a, b)[2] = p[2] - a[2] + b[2]
<1>1. /\ p[1] \in Int /\ p[2] \in Int /\ a[1] \in Int /\ a[2] \in Int /\ b[1] \in Int /\ b[2] \in Int
  BY PlaneIs
<1>2. p[1] - a[1] + b[1] \in Int /\ p[2] - a[2] + b[2] \in Int
  BY <1>1
<1>3. QED
  BY <1>2, SamePoint DEF Carry

LEMMA CornerIs ==
  ASSUME NEW r \in Rectangle
  PROVE  <<r.x, r.y>> \in Plane /\ <<r.x, r.y>>[1] = r.x /\ <<r.x, r.y>>[2] = r.y
BY DEF Rectangle, Plane

\* A rectangle carried to at
LEMMA CarriedIn ==
  ASSUME NEW r \in Rectangle, NEW at \in Plane, NEW q \in Plane
  PROVE  q \in Cells(Rect(at[1], at[2], r.w, r.h)) <=> Carry(q, at, <<r.x, r.y>>) \in Cells(r)
<1> DEFINE o == Carry(q, at, <<r.x, r.y>>)
<1>1. /\ q[1] \in Int /\ q[2] \in Int /\ at[1] \in Int /\ at[2] \in Int
      /\ r.x \in Int /\ r.y \in Int /\ r.w \in Int /\ r.h \in Int
  BY PlaneIs DEF Rectangle
<1>2. o \in Plane /\ o[1] = q[1] - at[1] + r.x /\ o[2] = q[2] - at[2] + r.y
  BY CornerIs, CarryIs
<1> HIDE DEF o
<1>3. o \in Cells(r) <=> /\ r.x <= o[1] /\ o[1] < r.x + r.w /\ r.y <= o[2] /\ o[2] < r.y + r.h
  BY <1>2, CellsIs
<1>4. q \in Cells(Rect(at[1], at[2], r.w, r.h)) <=>
        at[1] <= q[1] /\ q[1] < at[1] + r.w /\ at[2] <= q[2] /\ q[2] < at[2] + r.h
  BY <1>1, InRect
<1>5. q \in Cells(Rect(at[1], at[2], r.w, r.h)) <=> o \in Cells(r)
  BY <1>1, <1>2, <1>3, <1>4
<1>6. QED
  BY <1>5 DEF o

IsMoved(M, img, r, at) ==
  /\ \A q : q \in DOMAIN M <=> /\ q \in Plane /\ Carry(q, at, <<r.x, r.y>>) \in Cells(r)
                               /\ Carry(q, at, <<r.x, r.y>>) \in DOMAIN img.px
  /\ \A q \in DOMAIN M : M[q] = img.px[Carry(q, at, <<r.x, r.y>>)]

LEMMA MovedIs ==
  ASSUME NEW img, NEW r \in Rectangle, NEW at \in Plane
  PROVE  IsMoved(Moved(img, r, at), img, r, at)
<1> DEFINE R == Cells(Rect(at[1], at[2], r.w, r.h))
           In == {q \in R : Carry(q, at, <<r.x, r.y>>) \in DOMAIN img.px}
<1>1. at[1] \in Int /\ at[2] \in Int /\ r.w \in Int /\ r.h \in Int
  BY PlaneIs DEF Rectangle
<1>2. R \subseteq Plane
  BY <1>1, InRect
<1>3. Moved(img, r, at) = [p \in In |-> img.px[Carry(p, at, <<r.x, r.y>>)]]
  BY DEF Moved
<1> DEFINE M == Moved(img, r, at)
<1>4. \A q \in Plane : q \in R <=> Carry(q, at, <<r.x, r.y>>) \in Cells(r)
  BY CarriedIn
<1>5. \A q : q \in In <=> q \in R /\ Carry(q, at, <<r.x, r.y>>) \in DOMAIN img.px
  OBVIOUS
<1> HIDE DEF R, In, M
<1>6. DOMAIN M = In /\ \A q \in In : M[q] = img.px[Carry(q, at, <<r.x, r.y>>)]
  BY <1>3 DEF M
<1>7. IsMoved(M, img, r, at)
  BY <1>2, <1>4, <1>5, <1>6 DEF IsMoved
<1>8. QED
  BY <1>7 DEF M

LEMMA PresentInv ==
  ASSUME GfxInv, NEW id \in Ids, NEW s \in Rectangle, NEW at \in Plane, gfx_present(id, s, at)
  PROVE  GfxInv'
<1> DEFINE W == surfaces[id].w
           H == surfaces[id].h
           c == clip(s, W, H)
           ox == at[1] + c.x - s.x
           oy == at[2] + c.y - s.y
           R == Rect(ox, oy, c.w, c.h)
           d == clip(R, g_w, g_h)
           from == <<c.x + d.x - ox, c.y + d.y - oy>>
           mine == [p \in {q \in Cells(d) : owner[q] = id} |->
                      surfaces[id].px[Carry(p, <<d.x, d.y>>, from)]]
           D == IF id = 0 THEN NoImage.px ELSE Owned(Moved(asked[id], s, at), owner, id)
<1>1. /\ IF NULL(id) \/ id = 0 \/ ~Left(c) \/ ~Left(d) THEN Skip ELSE Write(0, cursor_hide_for(d), mine)
      /\ Ask(0, D)
  BY DEF gfx_present
<1>2. /\ W \in Nat /\ H \in Nat /\ DOMAIN surfaces[id].px = Area(W, H) /\ DOMAIN owner = ScreenCells
      /\ 0 \in Ids /\ ~NULL(0) /\ DOMAIN surfaces[0].px = ScreenCells
      /\ id # 0 => asked[id] = surfaces[id]
  BY Dimensions, SizesOf, ScreenPx DEF GfxInv, GfxTypes, Drawn
<1> HIDE DEF W, H
<1>3. c \in Rectangle /\ Cells(c) = Cells(s) \cap Area(W, H)
  BY <1>2, ClipIs
<1>4. at[1] \in Int /\ at[2] \in Int /\ s.x \in Int /\ s.y \in Int
  BY PlaneIs DEF Rectangle
<1> HIDE DEF c
<1>5. c.x \in Int /\ c.y \in Int /\ c.w \in Int /\ c.h \in Int
  BY <1>3 DEF Rectangle
<1>6. ox \in Int /\ oy \in Int
  BY <1>4, <1>5
<1>7. R \in Rectangle
  <2> HIDE DEF ox, oy
  <2>1. QED
    BY <1>5, <1>6 DEF Rect, Rectangle
<1>8. d \in Rectangle /\ Cells(d) = Cells(R) \cap ScreenCells
  <2> HIDE DEF R
  <2>1. QED
    BY <1>7, Dimensions, ClipIs DEF ScreenCells
<1>9. ASSUME NEW q \in Plane
      PROVE  /\ Carry(q, <<d.x, d.y>>, from) = Carry(q, at, <<s.x, s.y>>)
             /\ q \in Cells(R) <=> Carry(q, at, <<s.x, s.y>>) \in Cells(c)
  <2> DEFINE o == Carry(q, at, <<s.x, s.y>>)
             corner == <<ox, oy>>
  <2>1. q[1] \in Int /\ q[2] \in Int /\ d.x \in Int /\ d.y \in Int
    BY <1>8, PlaneIs DEF Rectangle
  <2>2. o = <<q[1] - at[1] + s.x, q[2] - at[2] + s.y>>
    BY CornerIs, CarryIs
  <2>3. Carry(q, <<d.x, d.y>>, from) = <<q[1] - d.x + (c.x + d.x - ox), q[2] - d.y + (c.y + d.y - oy)>>
    BY DEF Carry
  <2> HIDE DEF d
  <2>4. /\ q[1] - d.x + (c.x + d.x - ox) = q[1] - at[1] + s.x
        /\ q[2] - d.y + (c.y + d.y - oy) = q[2] - at[2] + s.y
    BY <1>4, <1>5, <1>6, <2>1
  <2>5. corner \in Plane /\ corner[1] = ox /\ corner[2] = oy
    BY <1>6, SamePoint
  <2>6. Carry(q, corner, <<c.x, c.y>>) = <<q[1] - ox + c.x, q[2] - oy + c.y>>
    BY <2>5 DEF Carry
  <2>7. q[1] - ox + c.x = q[1] - at[1] + s.x /\ q[2] - oy + c.y = q[2] - at[2] + s.y
    BY <1>4, <1>5, <1>6, <2>1
  <2>8. q \in Cells(Rect(corner[1], corner[2], c.w, c.h)) <=> Carry(q, corner, <<c.x, c.y>>) \in Cells(c)
    <3> HIDE DEF corner
    <3>1. QED
      BY <1>3, <2>5, CarriedIn
  <2>9. Carry(q, corner, <<c.x, c.y>>) = o
    BY <2>2, <2>6, <2>7
  <2>10. Carry(q, <<d.x, d.y>>, from) = o
    BY <2>2, <2>3, <2>4
  <2> HIDE DEF o, ox, oy
  <2>11. QED
    BY <2>5, <2>8, <2>9, <2>10 DEF o
<1>10. /\ \A q : q \in DOMAIN mine <=> q \in Cells(d) /\ owner[q] = id
       /\ \A q \in DOMAIN mine : mine[q] = surfaces[id].px[Carry(q, <<d.x, d.y>>, from)]
  OBVIOUS
<1> HIDE DEF d, mine, from, R, ox, oy
<1>11. Cells(d) \subseteq Plane /\ Cells(R) \subseteq Plane
  BY <1>7, <1>8, CellsIs
<1>12. id # 0 => /\ \A q : q \in DOMAIN D <=> q \in Cells(R) /\ q \in ScreenCells /\ owner[q] = id
                 /\ \A q \in DOMAIN D : D[q] = surfaces[id].px[Carry(q, at, <<s.x, s.y>>)]
  <2> SUFFICES ASSUME id # 0
               PROVE  /\ \A q : q \in DOMAIN D <=> q \in Cells(R) /\ q \in ScreenCells /\ owner[q] = id
                      /\ \A q \in DOMAIN D : D[q] = surfaces[id].px[Carry(q, at, <<s.x, s.y>>)]
    OBVIOUS
  <2> DEFINE M == Moved(surfaces[id], s, at)
  <2>1. D = Owned(M, owner, id) /\ M = Moved(surfaces[id], s, at)
    BY <1>2
  <2> HIDE DEF D, M
  <2>2. /\ \A q : q \in DOMAIN M <=> /\ q \in Plane /\ Carry(q, at, <<s.x, s.y>>) \in Cells(s)
                                     /\ Carry(q, at, <<s.x, s.y>>) \in DOMAIN surfaces[id].px
        /\ \A q \in DOMAIN M : M[q] = surfaces[id].px[Carry(q, at, <<s.x, s.y>>)]
    <3>1. IsMoved(M, surfaces[id], s, at)
      BY <2>1, MovedIs, Zenon
    <3>2. QED
      BY <3>1 DEF IsMoved
  <2>3. /\ \A q : q \in DOMAIN D <=> q \in DOMAIN M /\ q \in DOMAIN owner /\ owner[q] = id
        /\ \A p \in DOMAIN D : D[p] = M[p]
    BY <2>1, OwnedIs
  <2>4. \A q : q \in DOMAIN M <=> q \in Plane /\ Carry(q, at, <<s.x, s.y>>) \in Cells(c)
    BY <1>2, <1>3, <2>2
  <2>5. \A q : q \in DOMAIN M <=> q \in Cells(R)
    BY <1>9, <1>11, <2>4
  <2>6. QED
    BY <1>2, <2>2, <2>3, <2>5
<1>13. id = 0 => DOMAIN D = {}
  BY NoImageIs
<1> HIDE DEF D
<1>14. CASE NULL(id) \/ id = 0 \/ ~Left(c) \/ ~Left(d)
  <2>1. (DOMAIN D) \cap ScreenCells = {}
    <3>1. CASE id = 0
      BY <1>13, <3>1
    <3>2. CASE id # 0 /\ ~Left(d)
      BY <1>8, <1>12, <3>2, NotLeft
    <3>3. CASE id # 0 /\ (NULL(id) \/ ~Left(c))
      <4>1. Cells(c) = {}
        <5>1. NULL(id) => Area(W, H) = {}
          BY <1>2, NoImageIs DEF NULL
        <5>2. QED
          BY <1>3, <3>3, <5>1, NotLeft
      <4>2. \A q \in Plane : q \notin Cells(R)
        BY <1>9, <4>1
      <4>3. QED
        BY <1>11, <1>12, <3>3, <4>2
    <3>4. QED
      BY <1>14, <3>1, <3>2, <3>3
  <2>2. QED
    BY <1>1, <1>2, <1>14, <2>1, SkipInv
<1>15. CASE ~(NULL(id) \/ id = 0 \/ ~Left(c) \/ ~Left(d))
  <2>1. \A q : q \in DOMAIN mine <=> q \in (DOMAIN D) \cap ScreenCells
    BY <1>8, <1>10, <1>12, <1>15
  <2>2. \A q \in DOMAIN mine : mine[q] = D[q]
    BY <1>9, <1>10, <1>11, <1>12, <1>15, <2>1
  <2>3. Fits(mine, D, ScreenCells)
    BY <2>1, <2>2 DEF Fits
  <2>4. DOMAIN mine \subseteq Cells(d)
    BY <1>10
  <2>5. QED
    BY <1>1, <1>2, <1>8, <1>15, <2>3, <2>4, DrawInv
<1>16. QED
  BY <1>14, <1>15

-----------------------------------------------------------------------------
\* Scaling: pixel p of the target shows pixel SourceOf(p) of the drawing.

LEMMA DivIs ==
  ASSUME NEW a \in Int, NEW k \in Nat \ {0}
  PROVE  /\ a \div k \in Int /\ (a \div k) * k <= a /\ a < (a \div k) * k + k
         /\ \A m \in Int : m * k <= a /\ a < m * k + k <=> m = a \div k
<1> DEFINE q == a \div k
<1>1. q \in Int /\ q * k <= a /\ a < q * k + k
  <2>1. a = k * q + (a % k) /\ q \in Int /\ a % k \in 0 .. k - 1
    OBVIOUS
  <2>2. QED
    BY <2>1
<1> HIDE DEF q
<1>2. ASSUME NEW m \in Int, m * k <= a, a < m * k + k PROVE m = q
  <2>1. CASE m >= q + 1
    <3>1. PICK j \in Nat : m = q + 1 + j
      <4>1. m - q - 1 \in Nat /\ m = q + 1 + (m - q - 1)
        BY <1>1, <2>1
      <4>2. QED
        BY <4>1
    <3>2. m * k = q * k + k + j * k /\ j * k >= 0
      BY <1>1, <3>1
    <3>3. m * k \in Int /\ q * k \in Int /\ j * k \in Int
      BY <1>1
    <3>4. QED
      BY <1>1, <1>2, <3>2, <3>3
  <2>2. CASE q >= m + 1
    <3>1. PICK j \in Nat : q = m + 1 + j
      <4>1. q - m - 1 \in Nat /\ q = m + 1 + (q - m - 1)
        BY <1>1, <2>2
      <4>2. QED
        BY <4>1
    <3>2. q * k = m * k + k + j * k /\ j * k >= 0
      BY <1>1, <3>1
    <3>3. m * k \in Int /\ q * k \in Int /\ j * k \in Int
      BY <1>1
    <3>4. QED
      BY <1>1, <1>2, <3>2, <3>3
  <2>3. QED
    BY <1>1, <2>1, <2>2
<1>3. q \in Int /\ q * k <= a /\ a < q * k + k /\ \A m \in Int : m * k <= a /\ a < m * k + k <=> m = q
  BY <1>1, <1>2
<1>4. QED
  BY <1>3 DEF q

LEMMA AxisScaled ==
  ASSUME NEW a \in Int, NEW k \in Nat \ {0}, NEW n \in Int
  PROVE  0 <= a /\ a < n * k <=> 0 <= a \div k /\ a \div k < n
<1> DEFINE q == a \div k
<1>1. q \in Int /\ q * k <= a /\ a < q * k + k
  BY DivIs
<1> HIDE DEF q
<1>2. q * k \in Int /\ n * k \in Int
  BY <1>1
<1>3. q >= 0 => q * k >= 0
  BY <1>1
<1>4. ~(q >= 0) => q * k + k <= 0
  <2> SUFFICES ASSUME ~(q >= 0) PROVE q * k + k <= 0
    OBVIOUS
  <2>1. PICK j \in Nat : q = 0 - 1 - j
    <3>1. 0 - q - 1 \in Nat /\ q = 0 - 1 - (0 - q - 1)
      BY <1>1
    <3>2. QED
      BY <3>1
  <2>2. q * k = 0 - k - j * k /\ j * k >= 0
    BY <2>1
  <2>3. QED
    BY <1>2, <2>2
<1>5. q < n => q * k + k <= n * k
  <2> SUFFICES ASSUME q < n PROVE q * k + k <= n * k
    OBVIOUS
  <2>1. PICK j \in Nat : n = q + 1 + j
    <3>1. n - q - 1 \in Nat /\ n = q + 1 + (n - q - 1)
      BY <1>1
    <3>2. QED
      BY <3>1
  <2>2. n * k = q * k + k + j * k /\ j * k >= 0
    BY <1>1, <2>1
  <2>3. QED
    BY <1>2, <2>2
<1>6. ~(q < n) => n * k <= q * k
  <2> SUFFICES ASSUME ~(q < n) PROVE n * k <= q * k
    OBVIOUS
  <2>1. PICK j \in Nat : q = n + j
    <3>1. q - n \in Nat /\ q = n + (q - n)
      BY <1>1
    <3>2. QED
      BY <3>1
  <2>2. q * k = n * k + j * k /\ j * k >= 0
    BY <1>1, <2>1
  <2>3. QED
    BY <1>2, <2>2
<1>7. 0 <= a /\ a < n * k <=> 0 <= q /\ q < n
  BY <1>1, <1>2, <1>3, <1>4, <1>5, <1>6
<1>8. QED
  BY <1>7 DEF q

SourceOf(p, from, at, k) == <<from[1] + (p[1] - at[1]) \div k, from[2] + (p[2] - at[2]) \div k>>
SquareOf(q, from, at, k) ==
  Cells(Rect(at[1] + (q[1] - from[1]) * k, at[2] + (q[2] - from[2]) * k, k, k))

LEMMA SourceIs ==
  ASSUME NEW p \in Plane, NEW from \in Plane, NEW at \in Plane, NEW k \in Nat \ {0}
  PROVE  /\ SourceOf(p, from, at, k) \in Plane
         /\ SourceOf(p, from, at, k)[1] = from[1] + (p[1] - at[1]) \div k
         /\ SourceOf(p, from, at, k)[2] = from[2] + (p[2] - at[2]) \div k
<1>1. p[1] \in Int /\ p[2] \in Int /\ at[1] \in Int /\ at[2] \in Int /\ from[1] \in Int /\ from[2] \in Int
  BY PlaneIs
<1>2. p[1] - at[1] \in Int /\ p[2] - at[2] \in Int
  BY <1>1
<1>3. (p[1] - at[1]) \div k \in Int /\ (p[2] - at[2]) \div k \in Int
  BY <1>2, DivIs
<1>4. from[1] + (p[1] - at[1]) \div k \in Int /\ from[2] + (p[2] - at[2]) \div k \in Int
  BY <1>1, <1>3
<1>5. QED
  BY <1>4, SamePoint DEF SourceOf

LEMMA SquareIs ==
  ASSUME NEW p \in Plane, NEW q \in Plane, NEW from \in Plane, NEW at \in Plane, NEW k \in Nat
  PROVE  p \in SquareOf(q, from, at, k) <=> k # 0 /\ q = SourceOf(p, from, at, k)
<1> DEFINE m1 == q[1] - from[1]
           m2 == q[2] - from[2]
           a1 == p[1] - at[1]
           a2 == p[2] - at[2]
<1>1. /\ p[1] \in Int /\ p[2] \in Int /\ at[1] \in Int /\ at[2] \in Int /\ from[1] \in Int /\ from[2] \in Int
      /\ q[1] \in Int /\ q[2] \in Int /\ q = <<q[1], q[2]>>
  BY PlaneIs
<1>2. m1 \in Int /\ m2 \in Int /\ a1 \in Int /\ a2 \in Int
  BY <1>1
<1>3. q[1] = from[1] + m1 /\ q[2] = from[2] + m2 /\ p[1] = at[1] + a1 /\ p[2] = at[2] + a2
  BY <1>1
<1>4. SquareOf(q, from, at, k) = Cells(Rect(at[1] + m1 * k, at[2] + m2 * k, k, k))
  BY DEF SquareOf
<1>5. SourceOf(p, from, at, k) = <<from[1] + a1 \div k, from[2] + a2 \div k>>
  BY DEF SourceOf
<1> HIDE DEF m1, m2, a1, a2
<1>6. m1 * k \in Int /\ m2 * k \in Int /\ at[1] + m1 * k \in Int /\ at[2] + m2 * k \in Int
  BY <1>1, <1>2
<1>7. p \in SquareOf(q, from, at, k) <=>
         /\ at[1] + m1 * k <= p[1] /\ p[1] < at[1] + m1 * k + k
         /\ at[2] + m2 * k <= p[2] /\ p[2] < at[2] + m2 * k + k
  BY <1>4, <1>6, InRect
<1>8. p \in SquareOf(q, from, at, k) <=>
         m1 * k <= a1 /\ a1 < m1 * k + k /\ m2 * k <= a2 /\ a2 < m2 * k + k
  BY <1>1, <1>2, <1>3, <1>6, <1>7
<1>9. CASE k = 0
  BY <1>2, <1>6, <1>8, <1>9
<1>10. CASE k # 0
  <2>1. (m1 * k <= a1 /\ a1 < m1 * k + k <=> m1 = a1 \div k) /\ a1 \div k \in Int
    BY <1>2, <1>10, DivIs
  <2>2. (m2 * k <= a2 /\ a2 < m2 * k + k <=> m2 = a2 \div k) /\ a2 \div k \in Int
    BY <1>2, <1>10, DivIs
  <2>3. p \in SquareOf(q, from, at, k) <=> m1 = a1 \div k /\ m2 = a2 \div k
    BY <1>8, <2>1, <2>2
  <2>4. \A e \in Int : (m1 = e <=> q[1] = from[1] + e) /\ (m2 = e <=> q[2] = from[2] + e)
    <3>1. ASSUME NEW f \in Int, NEW m \in Int, NEW e \in Int PROVE m = e <=> f + m = f + e
      OBVIOUS
    <3>2. \A e \in Int : m1 = e <=> from[1] + m1 = from[1] + e
      BY <1>1, <1>2, <3>1
    <3>3. \A e \in Int : m2 = e <=> from[2] + m2 = from[2] + e
      BY <1>1, <1>2, <3>1
    <3>4. QED
      BY <1>3, <3>2, <3>3, Zenon
  <2>5. (m1 = a1 \div k <=> q[1] = from[1] + a1 \div k) /\ (m2 = a2 \div k <=> q[2] = from[2] + a2 \div k)
    BY <2>1, <2>2, <2>4, Zenon
  <2>6. QED
    BY <1>1, <1>5, <1>10, <2>3, <2>5
<1>11. QED
  BY <1>9, <1>10

IsScaled(S, d, from, at, k) ==
  /\ \A p : p \in DOMAIN S <=> p \in Plane /\ k # 0 /\ SourceOf(p, from, at, k) \in DOMAIN d
  /\ \A p \in DOMAIN S : S[p] = d[SourceOf(p, from, at, k)]

LEMMA ScaledIs ==
  ASSUME NEW d, DOMAIN d \subseteq Plane, NEW from \in Plane, NEW at \in Plane, NEW k \in Nat
  PROVE  IsScaled(Scaled(d, from, at, k), d, from, at, k)
<1> DEFINE S == Scaled(d, from, at, k)
           Sq(q) == SquareOf(q, from, at, k)
           Src(p) == SourceOf(p, from, at, k)
           Chosen(p) == CHOOSE q \in DOMAIN d : p \in Sq(q)
           All == UNION {Sq(q) : q \in DOMAIN d}
<1>1. S = [p \in All |-> d[Chosen(p)]]
  BY DEF Scaled, SquareOf
<1>2. \A p \in Plane, q \in Plane : p \in Sq(q) <=> k # 0 /\ q = Src(p)
  BY SquareIs
<1>3. \A q \in Plane : Sq(q) \subseteq Plane
  <2> SUFFICES ASSUME NEW q \in Plane PROVE Sq(q) \subseteq Plane
    OBVIOUS
  <2>1. at[1] \in Int /\ at[2] \in Int /\ from[1] \in Int /\ from[2] \in Int /\ q[1] \in Int /\ q[2] \in Int
    BY PlaneIs
  <2>2. at[1] + (q[1] - from[1]) * k \in Int /\ at[2] + (q[2] - from[2]) * k \in Int
    BY <2>1
  <2>3. QED
    BY <2>2, InRect DEF SquareOf
<1>4. ASSUME NEW p PROVE p \in All <=> \E q \in DOMAIN d : p \in Sq(q)
  OBVIOUS
<1>5. ASSUME NEW p, \E q \in DOMAIN d : p \in Sq(q) PROVE Chosen(p) \in DOMAIN d /\ p \in Sq(Chosen(p))
  BY <1>5
<1> HIDE DEF S, Sq, Src, Chosen, All
<1>6. ASSUME NEW p PROVE p \in All <=> p \in Plane /\ k # 0 /\ Src(p) \in DOMAIN d
  BY <1>2, <1>3, <1>4
<1>7. ASSUME NEW p \in All PROVE Chosen(p) = Src(p)
  BY <1>2, <1>4, <1>5, <1>6
<1>8. DOMAIN S = All /\ \A p \in All : S[p] = d[Chosen(p)]
  BY <1>1
<1>9. /\ \A p : p \in DOMAIN S <=> p \in Plane /\ k # 0 /\ Src(p) \in DOMAIN d
      /\ \A p \in DOMAIN S : S[p] = d[Src(p)]
  BY <1>6, <1>7, <1>8
<1>10. IsScaled(S, d, from, at, k)
  BY <1>9 DEF IsScaled, Src
<1>11. QED
  BY <1>10 DEF S

\* The target of a scaled rectangle
LEMMA ScaledCells ==
  ASSUME NEW r \in Rectangle, NEW at \in Plane, NEW k \in Nat
  PROVE  /\ Rect(at[1], at[2], r.w * k, r.h * k) \in Rectangle
         /\ \A p \in Plane : p \in Cells(Rect(at[1], at[2], r.w * k, r.h * k)) <=>
                               k # 0 /\ SourceOf(p, <<r.x, r.y>>, at, k) \in Cells(r)
<1>1. /\ at[1] \in Int /\ at[2] \in Int /\ r.x \in Int /\ r.y \in Int /\ r.w \in Int /\ r.h \in Int
  BY PlaneIs DEF Rectangle
<1>2. r.w * k \in Int /\ r.h * k \in Int
  BY <1>1
<1>3. Rect(at[1], at[2], r.w * k, r.h * k) \in Rectangle
  <2>1. \A u \in Int, v \in Int : Rect(at[1], at[2], u, v) \in Rectangle
    BY <1>1 DEF Rect, Rectangle
  <2>2. QED
    BY <1>2, <2>1, Zenon
<1>4. ASSUME NEW p \in Plane
      PROVE  p \in Cells(Rect(at[1], at[2], r.w * k, r.h * k)) <=>
               k # 0 /\ SourceOf(p, <<r.x, r.y>>, at, k) \in Cells(r)
  <2> DEFINE a1 == p[1] - at[1]
             a2 == p[2] - at[2]
             o == SourceOf(p, <<r.x, r.y>>, at, k)
  <2>1. p[1] \in Int /\ p[2] \in Int
    BY PlaneIs
  <2>2. a1 \in Int /\ a2 \in Int /\ p[1] = at[1] + a1 /\ p[2] = at[2] + a2
    BY <1>1, <2>1
  <2>3. p \in Cells(Rect(at[1], at[2], r.w * k, r.h * k)) <=>
           at[1] <= p[1] /\ p[1] < at[1] + r.w * k /\ at[2] <= p[2] /\ p[2] < at[2] + r.h * k
    BY <1>1, <1>2, InRect
  <2>4. k # 0 => o \in Plane /\ o[1] = r.x + a1 \div k /\ o[2] = r.y + a2 \div k
    <3> DEFINE corner == <<r.x, r.y>>
    <3>1. corner \in Plane /\ corner[1] = r.x /\ corner[2] = r.y
      BY CornerIs
    <3> HIDE DEF corner
    <3>2. ASSUME k # 0
          PROVE    /\ SourceOf(p, corner, at, k) \in Plane
                   /\ SourceOf(p, corner, at, k)[1] = corner[1] + a1 \div k
                   /\ SourceOf(p, corner, at, k)[2] = corner[2] + a2 \div k
      <4>1. k \in Nat \ {0}
        BY <3>2
      <4>2. QED
        BY <3>1, <4>1, SourceIs, Zenon DEF a1, a2
    <3>3. QED
      BY <3>1, <3>2 DEF corner
  <2> HIDE DEF a1, a2, o
  <2>5. p \in Cells(Rect(at[1], at[2], r.w * k, r.h * k)) <=>
           0 <= a1 /\ a1 < r.w * k /\ 0 <= a2 /\ a2 < r.h * k
    BY <1>1, <1>2, <2>1, <2>2, <2>3
  <2>6. CASE k = 0
    <3>1. r.w * k = 0
      BY <1>1, <2>6
    <3>2. QED
      BY <2>2, <2>5, <2>6, <3>1
  <2>7. CASE k # 0
    <3>1. 0 <= a1 /\ a1 < r.w * k <=> 0 <= a1 \div k /\ a1 \div k < r.w
      BY <1>1, <2>2, <2>7, AxisScaled
    <3>2. 0 <= a2 /\ a2 < r.h * k <=> 0 <= a2 \div k /\ a2 \div k < r.h
      BY <1>1, <2>2, <2>7, AxisScaled
    <3>3. a1 \div k \in Int /\ a2 \div k \in Int
      BY <2>2, <2>7, DivIs
    <3>4. o \in Cells(r) <=> r.x <= o[1] /\ o[1] < r.x + r.w /\ r.y <= o[2] /\ o[2] < r.y + r.h
      BY <2>4, <2>7, CellsIs
    <3>5. o \in Cells(r) <=> 0 <= a1 \div k /\ a1 \div k < r.w /\ 0 <= a2 \div k /\ a2 \div k < r.h
      BY <1>1, <2>4, <2>7, <3>3, <3>4
    <3>6. QED
      BY <2>5, <2>7, <3>1, <3>2, <3>5 DEF o
  <2>8. QED
    BY <2>6, <2>7
<1>5. QED
  BY <1>3, <1>4

LEMMA OriginIs == <<0, 0>> \in Plane /\ <<0, 0>>[1] = 0 /\ <<0, 0>>[2] = 0
BY DEF Plane

\* A rectangle of a glyph or an image
LEMMA AreaRect ==
  ASSUME NEW w \in Int, NEW h \in Int
  PROVE  /\ Rect(0, 0, w, h) \in Rectangle /\ Rect(0, 0, w, h).x = 0 /\ Rect(0, 0, w, h).y = 0
         /\ Rect(0, 0, w, h).w = w /\ Rect(0, 0, w, h).h = h /\ Cells(Rect(0, 0, w, h)) = Area(w, h)
BY DEF Rect, Rectangle, Area

LEMMA OnSurface ==
  ASSUME GfxInv, NEW id \in Ids
  PROVE  /\ \A p \in Plane : p \in DOMAIN surfaces[id].px <=>
              0 <= p[1] /\ p[1] < surfaces[id].w /\ 0 <= p[2] /\ p[2] < surfaces[id].h
         /\ DOMAIN surfaces[id].px \subseteq Plane
<1> DEFINE w == surfaces[id].w
           h == surfaces[id].h
           A == DOMAIN surfaces[id].px
<1>1. w \in Int /\ h \in Int /\ A = Area(w, h)
  BY SizesOf
<1> HIDE DEF w, h, A
<1>2. /\ \A p \in Plane : p \in A <=> 0 <= p[1] /\ p[1] < w /\ 0 <= p[2] /\ p[2] < h
      /\ A \subseteq Plane
  BY <1>1, InArea
<1>3. QED
  BY <1>2 DEF w, h, A

LEMMA BlitBitsInv ==
  ASSUME GfxInv, NEW id \in Ids, NEW at \in Plane, NEW b \in Glyphs, NEW k \in Nat, NEW fg, NEW bg,
         gfx_blit_bits_on(id, at, b, k, fg, bg)
  PROVE  GfxInv'
<1> DEFINE t == surfaces[id]
           all == Rect(at[1], at[2], b.w * k, b.h * k)
           Src(p) == <<(p[1] - at[1]) \div k, (p[2] - at[2]) \div k>>
           inked == {p \in Cells(all) : /\ 0 <= p[1] /\ p[1] < t.w /\ 0 <= p[2] /\ p[2] < t.h
                                        /\ b.bits[Src(p)] \/ bg # NoInk}
           drawn == [p \in inked |-> IF b.bits[Src(p)] THEN fg ELSE bg]
           glyph == [q \in {q \in Area(b.w, b.h) : b.bits[q] \/ bg # NoInk} |->
                       IF b.bits[q] THEN fg ELSE bg]
           D == Scaled(glyph, <<0, 0>>, at, k)
           A == DOMAIN surfaces[id].px
<1>1. /\ IF NULL(id) \/ k = 0 THEN Skip ELSE Write(id, cursor_hide_for(all), drawn)
      /\ Ask(id, D)
  BY DEF gfx_blit_bits_on
<1>2. b.w \in Nat /\ b.h \in Nat
  BY GfxAssumption, Zenon
<1>3. /\ Rect(0, 0, b.w, b.h) \in Rectangle /\ Rect(0, 0, b.w, b.h).x = 0 /\ Rect(0, 0, b.w, b.h).y = 0
      /\ Rect(0, 0, b.w, b.h).w = b.w /\ Rect(0, 0, b.w, b.h).h = b.h
      /\ Cells(Rect(0, 0, b.w, b.h)) = Area(b.w, b.h)
  BY <1>2, AreaRect
<1>4. /\ all \in Rectangle
      /\ \A p \in Plane : p \in Cells(all) <=> k # 0 /\ SourceOf(p, <<0, 0>>, at, k) \in Area(b.w, b.h)
  <2> DEFINE r == Rect(0, 0, b.w, b.h)
  <2> HIDE DEF r
  <2>1. r \in Rectangle /\ r.x = 0 /\ r.y = 0 /\ r.w = b.w /\ r.h = b.h /\ Cells(r) = Area(b.w, b.h)
    BY <1>3 DEF r
  <2>2. /\ Rect(at[1], at[2], r.w * k, r.h * k) \in Rectangle
        /\ \A p \in Plane : p \in Cells(Rect(at[1], at[2], r.w * k, r.h * k)) <=>
                              k # 0 /\ SourceOf(p, <<r.x, r.y>>, at, k) \in Cells(r)
    BY <2>1, ScaledCells, Zenon
  <2>3. QED
    BY <2>1, <2>2, Zenon
<1>5. Area(b.w, b.h) \subseteq Plane /\ Cells(all) \subseteq Plane
  BY <1>2, <1>4, InArea, CellsIs
<1>6. \A p \in Plane : k # 0 => SourceOf(p, <<0, 0>>, at, k) = Src(p)
  <2> SUFFICES ASSUME NEW p \in Plane, k # 0 PROVE SourceOf(p, <<0, 0>>, at, k) = Src(p)
    OBVIOUS
  <2>1. p[1] \in Int /\ p[2] \in Int /\ at[1] \in Int /\ at[2] \in Int
    BY PlaneIs
  <2>2. p[1] - at[1] \in Int /\ p[2] - at[2] \in Int
    BY <2>1
  <2>3. (p[1] - at[1]) \div k \in Int /\ (p[2] - at[2]) \div k \in Int
    BY <2>2, DivIs
  <2>4. \A i \in Int : 0 + i = i
    OBVIOUS
  <2>5. 0 + (p[1] - at[1]) \div k = (p[1] - at[1]) \div k /\ 0 + (p[2] - at[2]) \div k = (p[2] - at[2]) \div k
    BY <2>3, <2>4, Zenon
  <2>6. QED
    BY <2>5, OriginIs DEF SourceOf
<1>7. /\ \A q : q \in DOMAIN glyph <=> q \in Area(b.w, b.h) /\ (b.bits[q] \/ bg # NoInk)
      /\ \A q \in DOMAIN glyph : glyph[q] = IF b.bits[q] THEN fg ELSE bg
  OBVIOUS
<1>8. /\ \A p : p \in DOMAIN drawn <=> /\ p \in Cells(all) /\ 0 <= p[1] /\ p[1] < t.w /\ 0 <= p[2] /\ p[2] < t.h
                                       /\ b.bits[Src(p)] \/ bg # NoInk
      /\ \A p \in DOMAIN drawn : drawn[p] = IF b.bits[Src(p)] THEN fg ELSE bg
  OBVIOUS
<1> HIDE DEF glyph
<1>9. DOMAIN glyph \subseteq Plane
  BY <1>5, <1>7
<1>10. IsScaled(D, glyph, <<0, 0>>, at, k)
  BY <1>9, OriginIs, ScaledIs
<1> HIDE DEF D, drawn, all, Src
<1>11. /\ \A p : p \in DOMAIN D <=> p \in Plane /\ k # 0 /\ Src(p) \in DOMAIN glyph
       /\ \A p \in DOMAIN D : D[p] = glyph[Src(p)]
  BY <1>6, <1>10 DEF IsScaled
<1>12. A \subseteq Plane /\ \A p \in Plane : p \in A <=> 0 <= p[1] /\ p[1] < t.w /\ 0 <= p[2] /\ p[2] < t.h
  BY OnSurface
<1> HIDE DEF A
<1>13. CASE NULL(id) \/ k = 0
  <2>1. NULL(id) \/ (DOMAIN D) \cap A = {}
    BY <1>11, <1>13
  <2>2. QED
    BY <1>1, <1>13, <2>1, SkipInv DEF A
<1>14. CASE ~(NULL(id) \/ k = 0)
  <2>1. \A p : p \in DOMAIN drawn <=> p \in (DOMAIN D) \cap A
    <3>1. \A p : p \in DOMAIN drawn <=> p \in Cells(all) /\ p \in A /\ (b.bits[Src(p)] \/ bg # NoInk)
      BY <1>5, <1>8, <1>12
    <3>2. \A p : p \in Cells(all) <=> p \in Plane /\ Src(p) \in Area(b.w, b.h)
      BY <1>4, <1>5, <1>6, <1>14
    <3>3. \A p : p \in DOMAIN D <=> p \in Plane /\ Src(p) \in Area(b.w, b.h) /\ (b.bits[Src(p)] \/ bg # NoInk)
      BY <1>7, <1>11, <1>14
    <3>4. QED
      BY <3>1, <3>2, <3>3, Zenon
  <2>2. \A p \in DOMAIN drawn : drawn[p] = D[p]
    <3> SUFFICES ASSUME NEW p \in DOMAIN drawn PROVE drawn[p] = D[p]
      OBVIOUS
    <3>1. p \in DOMAIN D
      BY <2>1
    <3>2. Src(p) \in DOMAIN glyph /\ D[p] = glyph[Src(p)]
      BY <1>11, <3>1
    <3>3. QED
      BY <1>7, <1>8, <3>2
  <2>3. Fits(drawn, D, A)
    BY <2>1, <2>2 DEF Fits
  <2>4. DOMAIN drawn \subseteq Cells(all)
    BY <1>8
  <2>5. QED
    BY <1>1, <1>4, <1>14, <2>3, <2>4, DrawInv DEF A
<1>15. QED
  BY <1>13, <1>14

LEMMA BlitPixelsInv ==
  ASSUME GfxInv, NEW id \in Ids, NEW at \in Plane, NEW b \in Pictures, NEW key,
         gfx_blit_pixels_on(id, at, b, key)
  PROVE  GfxInv'
<1> DEFINE r == Rect(at[1], at[2], b.w, b.h)
           k == clip(r, surfaces[id].w, surfaces[id].h)
           Source(p) == Carry(p, at, <<0, 0>>)
           drawn == [p \in {q \in Cells(k) : b.px[Source(q)] # key} |-> b.px[Source(p)]]
           keyed == Within(b.px, {q \in DOMAIN b.px : b.px[q] # key})
           D == Scaled(keyed, <<0, 0>>, at, 1)
           A == DOMAIN surfaces[id].px
           z == Rect(0, 0, b.w, b.h)
<1>1. /\ IF NULL(id) \/ ~Left(k) THEN Skip ELSE Write(id, cursor_hide_for(k), drawn)
      /\ Ask(id, D)
  BY DEF gfx_blit_pixels_on
<1>2. b.w \in Nat /\ b.h \in Nat /\ DOMAIN b.px = Area(b.w, b.h)
  BY GfxAssumption, Zenon
<1>3. z \in Rectangle /\ z.x = 0 /\ z.y = 0 /\ z.w = b.w /\ z.h = b.h /\ Cells(z) = Area(b.w, b.h)
  BY <1>2, AreaRect
<1>4. at[1] \in Int /\ at[2] \in Int
  BY PlaneIs
<1>5. r \in Rectangle
  BY <1>2, <1>4 DEF Rect, Rectangle
<1>6. \A p \in Plane : p \in Cells(r) <=> Source(p) \in Area(b.w, b.h)
  <2> SUFFICES ASSUME NEW p \in Plane PROVE p \in Cells(r) <=> Source(p) \in Area(b.w, b.h)
    OBVIOUS
  <2> HIDE DEF z
  <2>1. p \in Cells(Rect(at[1], at[2], z.w, z.h)) <=> Carry(p, at, <<z.x, z.y>>) \in Cells(z)
    BY <1>3, CarriedIn
  <2>2. QED
    BY <1>3, <2>1
<1>7. k \in Rectangle /\ Cells(k) = Cells(r) \cap A
  <2> HIDE DEF r
  <2>1. QED
    BY <1>5, SizesOf, ClipIs
<1>8. \A p \in Plane : SourceOf(p, <<0, 0>>, at, 1) = Source(p)
  <2> SUFFICES ASSUME NEW p \in Plane PROVE SourceOf(p, <<0, 0>>, at, 1) = Source(p)
    OBVIOUS
  <2>1. p[1] \in Int /\ p[2] \in Int
    BY PlaneIs
  <2>2. \A i \in Int : 0 + i \div 1 = i + 0
    OBVIOUS
  <2>3. p[1] - at[1] \in Int /\ p[2] - at[2] \in Int
    BY <1>4, <2>1
  <2>4. 0 + (p[1] - at[1]) \div 1 = p[1] - at[1] + 0 /\ 0 + (p[2] - at[2]) \div 1 = p[2] - at[2] + 0
    BY <2>2, <2>3, Zenon
  <2>5. QED
    BY <2>4, OriginIs DEF SourceOf, Carry
<1>9. /\ \A q : q \in DOMAIN drawn <=> q \in Cells(k) /\ b.px[Source(q)] # key
      /\ \A q \in DOMAIN drawn : drawn[q] = b.px[Source(q)]
  OBVIOUS
<1>10. /\ \A q : q \in DOMAIN keyed <=> q \in DOMAIN b.px /\ b.px[q] # key
       /\ \A q \in DOMAIN keyed : keyed[q] = b.px[q]
  BY DEF Within
<1> HIDE DEF keyed
<1>11. DOMAIN keyed \subseteq Plane
  BY <1>2, <1>10, InArea
<1>12. IsScaled(D, keyed, <<0, 0>>, at, 1)
  BY <1>11, OriginIs, ScaledIs
<1> HIDE DEF D, drawn, k, r, z, Source
<1>13. /\ \A p : p \in DOMAIN D <=> p \in Plane /\ Source(p) \in DOMAIN keyed
       /\ \A p \in DOMAIN D : D[p] = keyed[Source(p)]
  BY <1>8, <1>12 DEF IsScaled
<1>14. A \subseteq Plane /\ Cells(r) \subseteq Plane
  BY <1>5, OnSurface, CellsIs
<1> HIDE DEF A
<1>15. \A p : p \in DOMAIN D <=> p \in Cells(r) /\ b.px[Source(p)] # key
  BY <1>2, <1>6, <1>10, <1>13, <1>14
<1>16. CASE NULL(id) \/ ~Left(k)
  <2>1. NULL(id) \/ (DOMAIN D) \cap A = {}
    BY <1>7, <1>15, <1>16, NotLeft
  <2>2. QED
    BY <1>1, <1>16, <2>1, SkipInv DEF A
<1>17. CASE ~(NULL(id) \/ ~Left(k))
  <2>1. \A p : p \in DOMAIN drawn <=> p \in (DOMAIN D) \cap A
    BY <1>7, <1>9, <1>15
  <2>2. \A p \in DOMAIN drawn : drawn[p] = D[p]
    BY <1>9, <1>10, <1>13, <2>1
  <2>3. Fits(drawn, D, A)
    BY <2>1, <2>2 DEF Fits
  <2>4. DOMAIN drawn \subseteq Cells(k)
    BY <1>9
  <2>5. QED
    BY <1>1, <1>7, <1>17, <2>3, <2>4, DrawInv DEF A
<1>18. QED
  BY <1>16, <1>17

LEMMA BlitSurfaceInv ==
  ASSUME GfxInv, NEW src \in Ids, NEW r \in Rectangle, NEW dst \in Ids, NEW at \in Plane, NEW k \in Nat,
         gfx_blit_surface(src, r, dst, at, k)
  PROVE  GfxInv'
<1> DEFINE c == clip(r, surfaces[src].w, surfaces[src].h)
           t == surfaces[dst]
           all == Rect(at[1], at[2], c.w * k, c.h * k)
           Source(p) == <<c.x + (p[1] - at[1]) \div k, c.y + (p[2] - at[2]) \div k>>
           in == {p \in Cells(all) : 0 <= p[1] /\ p[1] < t.w /\ 0 <= p[2] /\ p[2] < t.h}
           drawn == [p \in in |-> surfaces[src].px[Source(p)]]
           image == IF src = 0 THEN surfaces[0] ELSE asked[src]
           part == Within(surfaces[src].px, Cells(r))
           D == Scaled(part, <<c.x, c.y>>, at, k)
           A == DOMAIN surfaces[dst].px
           B == DOMAIN surfaces[src].px
<1>1. image = surfaces[src]
  BY DEF GfxInv, Drawn
<1>2. IF NULL(src) \/ NULL(dst) \/ src = dst \/ k < 1 \/ ~Left(c) THEN Skip /\ UNCHANGED asked
      ELSE Write(dst, cursor_hide_for(all), drawn) /\ Ask(dst, D)
  BY <1>1 DEF gfx_blit_surface
<1>3. c \in Rectangle /\ Cells(c) = Cells(r) \cap B
  BY SizesOf, ClipIs
<1>4. /\ \A q : q \in DOMAIN part <=> q \in B /\ q \in Cells(r)
      /\ \A q \in DOMAIN part : part[q] = surfaces[src].px[q]
  BY DEF Within
<1>5. /\ \A p : p \in DOMAIN drawn <=> /\ p \in Cells(all) /\ 0 <= p[1] /\ p[1] < t.w
                                       /\ 0 <= p[2] /\ p[2] < t.h
      /\ \A p \in DOMAIN drawn : drawn[p] = surfaces[src].px[Source(p)]
  OBVIOUS
<1> HIDE DEF c, part, B
<1>6. DOMAIN part = Cells(c) /\ DOMAIN part \subseteq Plane
  BY <1>3, <1>4, CellsIs
<1> DEFINE corner == <<c.x, c.y>>
<1>7. corner \in Plane /\ corner[1] = c.x /\ corner[2] = c.y
  BY <1>3, CornerIs
<1>8. \A p : Source(p) = SourceOf(p, corner, at, k)
  BY <1>7 DEF SourceOf
<1>9. IsScaled(D, part, corner, at, k)
  BY <1>6, <1>7, ScaledIs
<1>10. /\ all \in Rectangle
       /\ \A p \in Plane : p \in Cells(all) <=> k # 0 /\ SourceOf(p, corner, at, k) \in Cells(c)
  BY <1>3, ScaledCells, Zenon
<1> HIDE DEF corner, D, Source, drawn, all
<1>11. /\ \A p : p \in DOMAIN D <=> p \in Plane /\ k # 0 /\ Source(p) \in Cells(c)
       /\ \A p \in DOMAIN D : D[p] = surfaces[src].px[Source(p)]
  BY <1>4, <1>6, <1>8, <1>9 DEF IsScaled
<1>12. A \subseteq Plane /\ \A p \in Plane : p \in A <=> 0 <= p[1] /\ p[1] < t.w /\ 0 <= p[2] /\ p[2] < t.h
  BY OnSurface
<1> HIDE DEF A
<1>13. Cells(all) \subseteq Plane
  BY <1>10, CellsIs
<1>14. CASE NULL(src) \/ NULL(dst) \/ src = dst \/ k < 1 \/ ~Left(c)
  <2>1. UNCHANGED <<surfaces, cursor, cur_saved, asked>> /\ DOMAIN owner' = ScreenCells
    BY <1>2, <1>14 DEF Skip, GfxInv, GfxTypes
  <2>2. QED
    BY <2>1, SameInv
<1>15. CASE ~(NULL(src) \/ NULL(dst) \/ src = dst \/ k < 1 \/ ~Left(c))
  <2>1. \A p : p \in DOMAIN drawn <=> p \in (DOMAIN D) \cap A
    <3>1. \A p : p \in DOMAIN drawn <=> p \in Cells(all) /\ p \in A
      BY <1>5, <1>12, <1>13
    <3>2. \A p : p \in Cells(all) <=> p \in DOMAIN D
      BY <1>8, <1>10, <1>11, <1>13
    <3>3. QED
      BY <3>1, <3>2
  <2>2. \A p \in DOMAIN drawn : drawn[p] = D[p]
    BY <1>5, <1>11, <2>1
  <2>3. Fits(drawn, D, A)
    BY <2>1, <2>2 DEF Fits
  <2>4. DOMAIN drawn \subseteq Cells(all)
    BY <1>5
  <2>5. QED
    BY <1>2, <1>10, <1>15, <2>3, <2>4, DrawInv DEF A
<1>16. QED
  BY <1>14, <1>15

-----------------------------------------------------------------------------
\* gfx_copy_rect_on: rows are copied in an order in which no row is overwritten
\* before it is read.

\* Induction, without an operator as a parameter: a set of numbers that holds 0
\* and with every number its successor holds them all.
LEMMA Induction ==
  ASSUME NEW T, 0 \in T, \A n \in Nat : n \in T => n + 1 \in T
  PROVE  \A n \in Nat : n \in T
<1> DEFINE U1 == Nat \ T
<1> SUFFICES ASSUME U1 # {} PROVE FALSE
  OBVIOUS
<1>1. IsWellFoundedOn(OpToRel(<, Nat), Nat)
  BY NatLessThanWellFounded
<1>2. PICK x \in U1 : \A y \in U1 : ~ (<<y, x>> \in OpToRel(<, Nat))
  <2>1. U1 \subseteq Nat
    OBVIOUS
  <2> HIDE DEF U1
  <2> QED BY <1>1, <2>1, WFMin
<1>3. \A y \in U1 : ~(y < x)
  BY <1>2 DEF OpToRel
<1>4. x \in Nat /\ x # 0
  OBVIOUS
<1>5. x - 1 \in Nat /\ x - 1 < x /\ (x - 1) + 1 = x
  BY <1>4
<1> QED BY <1>3, <1>5

\* Frame buffer f after the i-th copy; whether row r of the target was copied
\* by then; and fb after i copies, in closed form.
Target(s, at) == Cells(Rect(at[1], at[2], s.w, s.h))
RowCopied(f, s, at, i) ==
  Over([p \in Cells(Rect(at[1], at[2] + RowInOrder(s.y, at[2], s.h, i), s.w, 1)) |->
          f[Carry(p, at, <<s.x, s.y>>)]], f)
RowDone(r, s, at, i) == IF at[2] > s.y THEN r >= s.h - i ELSE r < i
Partial(fb, s, at, i) ==
  [p \in DOMAIN fb |-> IF p \in Target(s, at) /\ RowDone(p[2] - at[2], s, at, i)
                         THEN fb[Carry(p, at, <<s.x, s.y>>)] ELSE fb[p]]

LEMMA TargetIs ==
  ASSUME NEW s \in Rectangle, NEW at \in Plane
  PROVE  /\ \A p \in Plane : p \in Target(s, at) <=>
              at[1] <= p[1] /\ p[1] < at[1] + s.w /\ at[2] <= p[2] /\ p[2] < at[2] + s.h
         /\ Target(s, at) \subseteq Plane
         /\ \A p \in Plane : p \in Target(s, at) <=> Carry(p, at, <<s.x, s.y>>) \in Cells(s)
<1>1. at[1] \in Int /\ at[2] \in Int /\ s.w \in Int /\ s.h \in Int
  BY PlaneIs DEF Rectangle
<1>2. QED
  BY <1>1, InRect, CarriedIn DEF Target

LEMMA PartialIs ==
  ASSUME NEW fb, NEW s, NEW at, NEW i, NEW f, f = Partial(fb, s, at, i)
  PROVE  /\ IsMap(f) /\ DOMAIN f = DOMAIN fb
         /\ \A p \in DOMAIN fb : p \in Target(s, at) /\ RowDone(p[2] - at[2], s, at, i)
              => f[p] = fb[Carry(p, at, <<s.x, s.y>>)]
         /\ \A p \in DOMAIN fb : ~(p \in Target(s, at) /\ RowDone(p[2] - at[2], s, at, i)) => f[p] = fb[p]
BY DEF Partial, IsMap

LEMMA PartialStart ==
  ASSUME NEW s \in Rectangle, NEW at \in Plane, NEW fb, IsMap(fb), DOMAIN fb \subseteq Plane
  PROVE  Partial(fb, s, at, 0) = fb
<1> DEFINE f == Partial(fb, s, at, 0)
<1>1. /\ IsMap(f) /\ DOMAIN f = DOMAIN fb
      /\ \A p \in DOMAIN fb : ~(p \in Target(s, at) /\ RowDone(p[2] - at[2], s, at, 0)) => f[p] = fb[p]
  BY DEF Partial, IsMap
<1> HIDE DEF f
<1>2. ASSUME NEW p \in DOMAIN fb, p \in Target(s, at) PROVE ~RowDone(p[2] - at[2], s, at, 0)
  <2>1. p \in Plane /\ p[2] \in Int /\ at[2] \in Int /\ s.h \in Int /\ s.y \in Int
    BY PlaneIs DEF Rectangle
  <2>2. at[2] <= p[2] /\ p[2] < at[2] + s.h
    BY <1>2, <2>1, TargetIs
  <2>3. QED
    BY <2>1, <2>2 DEF RowDone
<1>3. \A p \in DOMAIN f : f[p] = fb[p]
  BY <1>1, <1>2
<1>4. f = fb
  BY <1>1, <1>3, SameMap
<1>5. QED
  BY <1>4 DEF f

LEMMA PartialStep ==
  ASSUME NEW s \in Rectangle, NEW at \in Plane, NEW fb, IsMap(fb), DOMAIN fb \subseteq Plane,
         Target(s, at) \subseteq DOMAIN fb, Cells(s) \subseteq DOMAIN fb,
         NEW i \in Nat, 0 < i, i <= s.h
  PROVE  RowCopied(Partial(fb, s, at, i - 1), s, at, i) = Partial(fb, s, at, i)
<1> DEFINE f == Partial(fb, s, at, i - 1)
           g == Partial(fb, s, at, i)
           n == RowInOrder(s.y, at[2], s.h, i)
           row == Cells(Rect(at[1], at[2] + n, s.w, 1))
           From(p) == Carry(p, at, <<s.x, s.y>>)
           d == [p \in row |-> f[From(p)]]
           A == DOMAIN fb
           Was(p) == RowDone(p[2] - at[2], s, at, i - 1)
           Is(p) == RowDone(p[2] - at[2], s, at, i)
<1>1. /\ at[1] \in Int /\ at[2] \in Int /\ s.x \in Int /\ s.y \in Int /\ s.w \in Int /\ s.h \in Int
  BY PlaneIs DEF Rectangle
<1>2. n \in Int /\ 0 <= n /\ n < s.h
  BY <1>1 DEF RowInOrder
<1>3. (at[2] > s.y => n = s.h - i) /\ (~(at[2] > s.y) => n = i - 1)
  BY DEF RowInOrder
<1>4. RowCopied(f, s, at, i) = Over(d, f)
  BY DEF RowCopied
<1>5. /\ IsMap(f) /\ DOMAIN f = A
      /\ \A p \in A : p \in Target(s, at) /\ Was(p) => f[p] = fb[From(p)]
      /\ \A p \in A : ~(p \in Target(s, at) /\ Was(p)) => f[p] = fb[p]
  BY PartialIs
<1>6. /\ IsMap(g) /\ DOMAIN g = A
      /\ \A p \in A : p \in Target(s, at) /\ Is(p) => g[p] = fb[From(p)]
      /\ \A p \in A : ~(p \in Target(s, at) /\ Is(p)) => g[p] = fb[p]
  BY PartialIs
<1>7. DOMAIN d = row /\ \A p \in row : d[p] = f[From(p)]
  OBVIOUS
<1> HIDE DEF f, g, d, n
<1>8. \A p \in Plane : p \in row <=> p \in Target(s, at) /\ p[2] = at[2] + n
  <2> SUFFICES ASSUME NEW p \in Plane PROVE p \in row <=> p \in Target(s, at) /\ p[2] = at[2] + n
    OBVIOUS
  <2>1. p[1] \in Int /\ p[2] \in Int /\ at[2] + n \in Int /\ 1 \in Int
    BY <1>1, <1>2, PlaneIs
  <2>2. p \in row <=> at[1] <= p[1] /\ p[1] < at[1] + s.w /\ at[2] + n <= p[2] /\ p[2] < at[2] + n + 1
    BY <1>1, <2>1, InRect
  <2>3. p \in Target(s, at) <=> at[1] <= p[1] /\ p[1] < at[1] + s.w /\ at[2] <= p[2] /\ p[2] < at[2] + s.h
    BY TargetIs
  <2> HIDE DEF row
  <2>4. QED
    BY <1>1, <1>2, <2>1, <2>2, <2>3
<1>9. row \subseteq Plane
  <2>1. at[2] + n \in Int /\ 1 \in Int
    BY <1>1, <1>2
  <2>2. QED
    BY <1>1, <2>1, InRect
<1> HIDE DEF row
<1>10. ASSUME NEW p \in A, p \in Target(s, at)
       PROVE  (Is(p) <=> Was(p) \/ p[2] = at[2] + n) /\ (p[2] = at[2] + n => ~Was(p))
  <2>1. p[2] \in Int
    BY PlaneIs
  <2>2. CASE at[2] > s.y
    BY <1>1, <1>3, <2>1, <2>2 DEF RowDone
  <2>3. CASE ~(at[2] > s.y)
    BY <1>1, <1>3, <2>1, <2>3 DEF RowDone
  <2>4. QED
    BY <2>2, <2>3
<1>11. ASSUME NEW p \in row
       PROVE  From(p) \in A /\ ~(From(p) \in Target(s, at) /\ Was(From(p)))
  <2>1. p \in Plane /\ p \in Target(s, at) /\ p[2] = at[2] + n /\ p[2] \in Int
    BY <1>8, <1>9, PlaneIs
  <2>2. From(p) \in Cells(s)
    BY <2>1, TargetIs
  <2>3. From(p)[2] = p[2] - at[2] + s.y
    BY <2>1, CornerIs, CarryIs
  <2>4. ~Was(From(p))
    <3> HIDE DEF From
    <3>1. CASE at[2] > s.y
      BY <1>1, <1>3, <2>1, <2>3, <3>1 DEF RowDone
    <3>2. CASE ~(at[2] > s.y)
      BY <1>1, <1>3, <2>1, <2>3, <3>2 DEF RowDone
    <3>3. QED
      BY <3>1, <3>2
  <2>5. QED
    BY <2>2, <2>4
<1>12. /\ IsMap(Over(d, f)) /\ DOMAIN Over(d, f) = row \cup A
       /\ \A p \in row : Over(d, f)[p] = d[p]
       /\ \A p \in A \ row : Over(d, f)[p] = f[p]
  BY <1>5, <1>7 DEF Over, IsMap
<1>13. row \subseteq A
  BY <1>8, <1>9
<1> DEFINE o == Over(d, f)
<1>14. IsMap(o) /\ DOMAIN o = A /\ (\A p \in row : o[p] = d[p]) /\ (\A p \in A \ row : o[p] = f[p])
  BY <1>12, <1>13
<1> HIDE DEF o, From, Was, Is, A
<1>15. ASSUME NEW p \in A PROVE o[p] = g[p]
  <2>0. p \in Plane
    BY DEF A
  <2>1. CASE p \in row
    <3>1. p \in Target(s, at) /\ Is(p)
      BY <1>8, <1>10, <2>0, <2>1
    <3>2. o[p] = f[From(p)] /\ f[From(p)] = fb[From(p)]
      BY <1>5, <1>7, <1>11, <1>14, <2>1
    <3>3. QED
      BY <1>6, <3>1, <3>2
  <2>2. CASE p \notin row /\ p \in Target(s, at)
    <3>1. Is(p) <=> Was(p)
      BY <1>8, <1>10, <2>0, <2>2
    <3>2. QED
      BY <1>5, <1>6, <1>14, <2>2, <3>1
  <2>3. CASE p \notin Target(s, at)
    BY <1>5, <1>6, <1>8, <1>14, <2>0, <2>3
  <2>4. QED
    BY <2>1, <2>2, <2>3
<1>16. o = g
  BY <1>6, <1>14, <1>15, SameMap
<1>17. QED
  BY <1>4, <1>16 DEF o, f, g

\* The copy as if all rows had been read before any was written
LEMMA CopyRowsIs ==
  ASSUME NEW s \in Rectangle, s.h >= 0, NEW at \in Plane, NEW fb, IsMap(fb), DOMAIN fb \subseteq Plane,
         Target(s, at) \subseteq DOMAIN fb, Cells(s) \subseteq DOMAIN fb
  PROVE  CopyRows(fb, s, at) = Partial(fb, s, at, s.h)
<1> DEFINE F == [i \in 0 .. s.h |-> Partial(fb, s, at, i)]
           after[i \in 0 .. s.h] == IF i = 0 THEN fb ELSE RowCopied(after[i - 1], s, at, i)
<1>1. s.h \in Nat
  BY DEF Rectangle
<1>2. F = [i \in 0 .. s.h |-> IF i = 0 THEN fb ELSE RowCopied(F[i - 1], s, at, i)]
  <2>1. ASSUME NEW i \in 0 .. s.h, i # 0 PROVE RowCopied(F[i - 1], s, at, i) = Partial(fb, s, at, i)
    <3>1. i \in Nat /\ 0 < i /\ i <= s.h /\ i - 1 \in 0 .. s.h
      BY <1>1, <2>1
    <3>2. F[i - 1] = Partial(fb, s, at, i - 1)
      BY <3>1
    <3>3. RowCopied(Partial(fb, s, at, i - 1), s, at, i) = Partial(fb, s, at, i)
      BY <3>1, PartialStep
    <3>4. QED
      BY <3>2, <3>3
  <2>2. Partial(fb, s, at, 0) = fb
    BY PartialStart
  <2>3. \A i \in 0 .. s.h : Partial(fb, s, at, i) = IF i = 0 THEN fb ELSE RowCopied(F[i - 1], s, at, i)
    BY <2>1, <2>2
  <2>4. QED
    BY <2>3
<1> HIDE DEF F
<1>3. after = [i \in 0 .. s.h |-> IF i = 0 THEN fb ELSE RowCopied(after[i - 1], s, at, i)]
  BY <1>2
<1>4. CopyRows(fb, s, at) = after[s.h]
  BY DEF CopyRows, RowCopied
<1> HIDE DEF after
<1> DEFINE T == {i \in Nat : i <= s.h => after[i] = F[i]}
<1>5. 0 \in T
  <2>1. 0 \in 0 .. s.h
    BY <1>1
  <2>2. after[0] = fb /\ F[0] = fb
    BY <1>2, <1>3, <2>1
  <2>3. QED
    BY <2>2
<1>6. ASSUME NEW i \in Nat, i \in T PROVE i + 1 \in T
  <2> SUFFICES ASSUME i + 1 <= s.h PROVE after[i + 1] = F[i + 1]
    OBVIOUS
  <2>1. i + 1 \in 0 .. s.h /\ i + 1 # 0 /\ (i + 1) - 1 = i /\ i <= s.h
    BY <1>1
  <2>2. after[i] = F[i]
    BY <1>6, <2>1
  <2>3. after[i + 1] = RowCopied(after[i], s, at, i + 1)
    BY <1>3, <2>1
  <2>4. F[i + 1] = RowCopied(F[i], s, at, i + 1)
    BY <1>2, <2>1
  <2>5. QED
    BY <2>2, <2>3, <2>4
<1>7. \A i \in Nat : i \in T
  <2> HIDE DEF T
  <2>1. QED
    BY <1>5, <1>6, Induction
<1>8. after[s.h] = F[s.h]
  BY <1>1, <1>7
<1>9. F[s.h] = Partial(fb, s, at, s.h)
  <2>1. s.h \in 0 .. s.h
    BY <1>1
  <2>2. QED
    BY <2>1 DEF F
<1>10. QED
  BY <1>4, <1>8, <1>9

\* The extent of a copy along one axis
Span(a, b, n, max) == IF (IF a > b THEN a ELSE b) + n > max THEN max - (IF a > b THEN a ELSE b) ELSE n

LEMMA SpanIs ==
  ASSUME NEW a \in Nat, NEW b \in Nat, NEW n \in Nat, NEW max \in Nat, a < max, b < max
  PROVE  /\ Span(a, b, n, max) \in Nat /\ Span(a, b, n, max) <= n
         /\ a + Span(a, b, n, max) <= max /\ b + Span(a, b, n, max) <= max
         /\ \A i \in Int : b <= i /\ i < b + n /\ i < max /\ i - b + a < max <=>
                             b <= i /\ i < b + Span(a, b, n, max)
BY DEF Span

\* What the copy writes: the source rectangle moved, and nothing else.
LEMMA CopyIsMove ==
  ASSUME NEW s \in Rectangle, s.h >= 0, NEW at \in Plane, NEW fb, IsMap(fb), DOMAIN fb \subseteq Plane,
         Target(s, at) \subseteq DOMAIN fb, Cells(s) \subseteq DOMAIN fb
  PROVE  Over(CopyRows(fb, s, at), fb)
           = Over([p \in Target(s, at) |-> fb[Carry(p, at, <<s.x, s.y>>)]], fb)
<1> DEFINE c == Partial(fb, s, at, s.h)
           m == [p \in Target(s, at) |-> fb[Carry(p, at, <<s.x, s.y>>)]]
           f == Over(c, fb)
           g == Over(m, fb)
<1>1. CopyRows(fb, s, at) = c
  BY CopyRowsIs
<1>2. ASSUME NEW p \in Target(s, at) PROVE RowDone(p[2] - at[2], s, at, s.h)
  <2>1. p \in Plane /\ p[2] \in Int /\ at[2] \in Int /\ s.h \in Int /\ s.y \in Int
    BY PlaneIs, TargetIs DEF Rectangle
  <2>2. at[2] <= p[2] /\ p[2] < at[2] + s.h
    BY <2>1, TargetIs
  <2>3. QED
    BY <2>1, <2>2 DEF RowDone
<1>3. /\ DOMAIN c = DOMAIN fb
      /\ \A p \in DOMAIN fb : p \in Target(s, at) /\ RowDone(p[2] - at[2], s, at, s.h)
           => c[p] = fb[Carry(p, at, <<s.x, s.y>>)]
      /\ \A p \in DOMAIN fb : ~(p \in Target(s, at) /\ RowDone(p[2] - at[2], s, at, s.h)) => c[p] = fb[p]
  BY DEF Partial
<1>4. DOMAIN m = Target(s, at) /\ \A p \in Target(s, at) : m[p] = fb[Carry(p, at, <<s.x, s.y>>)]
  OBVIOUS
<1> HIDE DEF c, m
<1>5. \A p \in DOMAIN fb : p \in Target(s, at) => c[p] = m[p]
  BY <1>2, <1>3, <1>4
<1>6. \A p \in DOMAIN fb : p \notin Target(s, at) => c[p] = fb[p]
  BY <1>3
<1>7. IsMap(f) /\ DOMAIN f = DOMAIN fb /\ \A p \in DOMAIN fb : f[p] = c[p]
  BY <1>3 DEF Over, IsMap
<1>8. /\ IsMap(g) /\ DOMAIN g = DOMAIN fb
      /\ \A p \in DOMAIN fb : p \in Target(s, at) => g[p] = m[p]
      /\ \A p \in DOMAIN fb : p \notin Target(s, at) => g[p] = fb[p]
  <2>1. DOMAIN m \cup DOMAIN fb = DOMAIN fb
    BY <1>4
  <2>2. QED
    BY <1>4, <2>1 DEF Over, IsMap
<1> HIDE DEF f, g
<1>9. \A p \in DOMAIN f : f[p] = g[p]
  BY <1>5, <1>6, <1>7, <1>8
<1>10. f = g
  BY <1>7, <1>8, <1>9, SameMap
<1>11. QED
  BY <1>1, <1>10 DEF f, g, c, m

\* A sum that does not wrap clips.
LEMMA NoWrap ==
  ASSUME NEW n \in Nat, ~(n >= Word)
  PROVE  Unsigned(n) = n
BY Dimensions DEF Unsigned

LEMMA CopyRectOnInv ==
  ASSUME GfxInv, NEW id \in Ids, NEW s \in Rectangle, NEW at \in Plane,
         s.x \in Nat, s.y \in Nat, s.w \in Nat, s.h \in Nat, at[1] \in Nat, at[2] \in Nat,
         gfx_copy_rect_on(id, s, at), ~far'
  PROVE  GfxInv' /\ wild' = wild
<1> DEFINE t == surfaces[id]
           w == Span(s.x, at[1], s.w, t.w)
           h == Span(s.y, at[2], s.h, t.h)
           R == Rect(s.x, s.y, w, h)
           E == Rect(at[1], at[2], w, h)
           hid == cursor_hide_for(R) \/ cursor_hide_for(E)
           fb == Uncovered(id, hid)
           D == Moved(asked[id], s, at)
           A == DOMAIN surfaces[id].px
           From(p) == Carry(p, at, <<s.x, s.y>>)
           m == [p \in Target(R, at) |-> fb[Carry(p, at, <<R.x, R.y>>)]]
           out == s.x >= t.w \/ s.y >= t.h \/ at[1] >= t.w \/ at[2] >= t.h
<1>1. /\ s.x \in Nat /\ s.y \in Nat /\ s.w \in Nat /\ s.h \in Nat /\ at[1] \in Nat /\ at[2] \in Nat
  OBVIOUS
<1>3. t.w \in Nat /\ t.h \in Nat
  BY SizesOf
<1>2. /\ IF NULL(id) \/ out THEN Skip ELSE Write(id, hid, CopyRows(fb, R, at))
      /\ Ask(id, D) /\ wild' = wild
  <2> DEFINE maxx == IF s.x > at[1] THEN s.x ELSE at[1]
             maxy == IF s.y > at[2] THEN s.y ELSE at[2]
             w1 == IF Unsigned(maxx + s.w) > t.w THEN t.w - maxx ELSE s.w
             h1 == IF Unsigned(maxy + s.h) > t.h THEN t.h - maxy ELSE s.h
             beyond == w1 > 0 /\ h1 > 0 /\ (maxx + w1 > t.w \/ maxy + h1 > t.h)
             R1 == Rect(s.x, s.y, w1, h1)
             E1 == Rect(at[1], at[2], w1, h1)
             hid1 == cursor_hide_for(R1) \/ cursor_hide_for(E1)
  <2>1. maxx \in Nat /\ maxy \in Nat
    BY <1>1
  <2>2. ~(maxx + s.w >= Word) /\ ~(maxy + s.h >= Word)
    BY Zenon DEF gfx_copy_rect_on
  <2>3. /\ IF NULL(id) \/ out THEN Skip /\ UNCHANGED wild
           ELSE IF beyond THEN Skip /\ wild' = TRUE
           ELSE Write(id, hid1, CopyRows(Uncovered(id, hid1), R1, at)) /\ UNCHANGED wild
        /\ Ask(id, D)
    BY Zenon DEF gfx_copy_rect_on
  <2>4. Unsigned(maxx + s.w) = maxx + s.w /\ Unsigned(maxy + s.h) = maxy + s.h
    <3> HIDE DEF maxx, maxy
    <3>1. maxx + s.w \in Nat /\ maxy + s.h \in Nat
      BY <1>1, <2>1
    <3>2. QED
      BY <2>2, <3>1, NoWrap
  <2>5. w1 = w /\ h1 = h
    BY <2>4, Zenon DEF Span
  <2>6. ASSUME ~out PROVE ~beyond
    <3>1. s.x < t.w /\ s.y < t.h /\ at[1] < t.w /\ at[2] < t.h
      BY <1>1, <1>3, <2>6
    <3>2. s.x + w <= t.w /\ at[1] + w <= t.w /\ s.y + h <= t.h /\ at[2] + h <= t.h
      BY <1>1, <1>3, <3>1, SpanIs
    <3>3. maxx + w <= t.w /\ maxy + h <= t.h /\ w \in Nat /\ h \in Nat
      BY <1>1, <1>3, <3>1, <3>2, SpanIs
    <3> HIDE DEF maxx, maxy, w, h, w1, h1
    <3>4. QED
      BY <1>3, <2>1, <2>5, <3>3
  <2> HIDE DEF beyond, w1, h1, w, h, out
  <2>7. hid1 = hid /\ R1 = R
    BY <2>5
  <2> HIDE DEF hid1, R1, hid, R
  <2>8. QED
    BY <2>3, <2>6, <2>7, Zenon
<1>4. A \subseteq Plane /\ \A p \in Plane : p \in A <=> 0 <= p[1] /\ p[1] < t.w /\ 0 <= p[2] /\ p[2] < t.h
  BY OnSurface
<1>5. DOMAIN asked[id].px = A
  <2>1. CASE id = 0
    <3>1. IsScreen(surfaces[0].px)
      BY ScreenPx DEF GfxInv
    <3>2. IsScreen(Bare)
      BY <3>1, BareIs, RestoredIs DEF BareOf
    <3>3. QED
      BY <2>1, <3>1, <3>2 DEF GfxInv, Drawn, IsScreen
  <2>2. CASE id # 0
    BY <2>2 DEF GfxInv, Drawn
  <2>3. QED
    BY <2>1, <2>2
<1>6. IsMoved(D, asked[id], s, at)
  BY MovedIs
<1> HIDE DEF D
<1>7. /\ \A q : q \in DOMAIN D <=> q \in Plane /\ From(q) \in Cells(s) /\ From(q) \in A
      /\ \A q \in DOMAIN D : D[q] = asked[id].px[From(q)]
  BY <1>5, <1>6 DEF IsMoved
<1>8. \A q \in Plane : /\ From(q) \in Plane /\ From(q)[1] = q[1] - at[1] + s.x /\ From(q)[2] = q[2] - at[2] + s.y
  BY CornerIs, CarryIs
<1>9. \A q \in Plane : From(q) \in Cells(s) <=>
         at[1] <= q[1] /\ q[1] < at[1] + s.w /\ at[2] <= q[2] /\ q[2] < at[2] + s.h
  BY TargetIs
<1> HIDE DEF A, From
<1>10. \A q \in Plane : q \in (DOMAIN D) \cap A <=>
         /\ at[1] <= q[1] /\ q[1] < at[1] + s.w /\ q[1] < t.w /\ q[1] - at[1] + s.x < t.w
         /\ at[2] <= q[2] /\ q[2] < at[2] + s.h /\ q[2] < t.h /\ q[2] - at[2] + s.y < t.h
  <2> SUFFICES ASSUME NEW q \in Plane
               PROVE  q \in (DOMAIN D) \cap A <=>
                        /\ at[1] <= q[1] /\ q[1] < at[1] + s.w /\ q[1] < t.w /\ q[1] - at[1] + s.x < t.w
                        /\ at[2] <= q[2] /\ q[2] < at[2] + s.h /\ q[2] < t.h /\ q[2] - at[2] + s.y < t.h
    OBVIOUS
  <2>1. q[1] \in Int /\ q[2] \in Int
    BY PlaneIs
  <2>2. From(q) \in A <=> /\ 0 <= q[1] - at[1] + s.x /\ q[1] - at[1] + s.x < t.w
                          /\ 0 <= q[2] - at[2] + s.y /\ q[2] - at[2] + s.y < t.h
    BY <1>4, <1>8
  <2>3. q \in A <=> 0 <= q[1] /\ q[1] < t.w /\ 0 <= q[2] /\ q[2] < t.h
    BY <1>4
  <2>4. q \in (DOMAIN D) \cap A <=> /\ at[1] <= q[1] /\ q[1] < at[1] + s.w /\ at[2] <= q[2] /\ q[2] < at[2] + s.h
                                    /\ From(q) \in A /\ q \in A
    BY <1>7, <1>9
  <2>5. QED
    BY <1>1, <1>3, <2>1, <2>2, <2>3, <2>4
<1> SUFFICES GfxInv'
  BY <1>2
<1>11. CASE NULL(id) \/ out
  <2>1. NULL(id) \/ (DOMAIN D) \cap A = {}
    <3> SUFFICES ASSUME out, NEW q \in (DOMAIN D) \cap A PROVE FALSE
      BY <1>11
    <3>1. q \in Plane /\ q[1] \in Int /\ q[2] \in Int
      BY <1>4, PlaneIs
    <3>2. QED
      BY <1>1, <1>3, <1>10, <3>1
  <2>2. QED
    BY <1>2, <1>11, <2>1, SkipInv DEF A
<1>12. CASE ~(NULL(id) \/ out)
  <2>1. s.x < t.w /\ s.y < t.h /\ at[1] < t.w /\ at[2] < t.h
    BY <1>1, <1>3, <1>12
  <2>2. /\ w \in Nat /\ s.x + w <= t.w /\ at[1] + w <= t.w
        /\ \A i \in Int : at[1] <= i /\ i < at[1] + s.w /\ i < t.w /\ i - at[1] + s.x < t.w <=>
                            at[1] <= i /\ i < at[1] + w
    BY <1>1, <1>3, <2>1, SpanIs
  <2>3. /\ h \in Nat /\ s.y + h <= t.h /\ at[2] + h <= t.h
        /\ \A i \in Int : at[2] <= i /\ i < at[2] + s.h /\ i < t.h /\ i - at[2] + s.y < t.h <=>
                            at[2] <= i /\ i < at[2] + h
    BY <1>1, <1>3, <2>1, SpanIs
  <2>0. w \in Nat /\ h \in Nat
    BY <2>2, <2>3
  <2> HIDE DEF w, h
  <2>4. R \in Rectangle /\ R.x = s.x /\ R.y = s.y /\ R.w = w /\ R.h = h
    BY <1>1, <2>0 DEF Rect, Rectangle
  <2>5. E \in Rectangle /\ Cells(E) = Target(R, at)
    <3>1. E \in Rectangle
      BY <1>1, <2>0 DEF Rect, Rectangle
    <3> HIDE DEF R
    <3>2. QED
      BY <2>4, <3>1 DEF Target
  <2>6. \A q \in Plane : q \in Target(R, at) <=>
           at[1] <= q[1] /\ q[1] < at[1] + w /\ at[2] <= q[2] /\ q[2] < at[2] + h
    <3> HIDE DEF R
    <3>1. QED
      BY <2>4, TargetIs
  <2>7. \A q \in Plane : q \in Cells(R) <=>
           s.x <= q[1] /\ q[1] < s.x + w /\ s.y <= q[2] /\ q[2] < s.y + h
    <3> HIDE DEF R
    <3>1. QED
      BY <2>4, CellsIs
  <2>8. Target(R, at) \subseteq Plane /\ Cells(R) \subseteq Plane
    <3> HIDE DEF R
    <3>1. QED
      BY <2>4, TargetIs, CellsIs
  <2>9. m = [p \in Target(R, at) |-> fb[From(p)]]
    BY <2>4 DEF From
  <2>10. \A q \in Plane : q \in Target(R, at) <=> From(q) \in Cells(R)
    <3> HIDE DEF R
    <3>1. \A q \in Plane : q \in Target(R, at) <=> Carry(q, at, <<R.x, R.y>>) \in Cells(R)
      BY <2>4, TargetIs
    <3>2. QED
      BY <2>4, <3>1 DEF From
  <2>11. R.h >= 0
    BY <2>3, <2>4
  <2>12. Write(id, hid, CopyRows(fb, R, at))
    BY <1>2, <1>12
  <2>13. \A q : q \in Target(R, at) <=> q \in (DOMAIN D) \cap A
    <3>1. \A q \in Plane : q \in Target(R, at) <=> q \in (DOMAIN D) \cap A
      <4> SUFFICES ASSUME NEW q \in Plane PROVE q \in Target(R, at) <=> q \in (DOMAIN D) \cap A
        OBVIOUS
      <4>1. q[1] \in Int /\ q[2] \in Int
        BY PlaneIs
      <4>2. QED
        BY <1>10, <2>2, <2>3, <2>6, <4>1
    <3>2. QED
      BY <1>4, <2>8, <3>1
  <2>14. \A q : q \in Cells(R) => q \in A
    <3> SUFFICES ASSUME NEW q \in Cells(R) PROVE q \in A
      OBVIOUS
    <3>1. q \in Plane /\ q[1] \in Int /\ q[2] \in Int
      BY <2>8, PlaneIs
    <3>2. s.x <= q[1] /\ q[1] < s.x + w /\ s.y <= q[2] /\ q[2] < s.y + h
      BY <2>7, <3>1
    <3>3. 0 <= q[1] /\ q[1] < t.w /\ 0 <= q[2] /\ q[2] < t.h
      BY <1>1, <1>3, <2>2, <2>3, <3>1, <3>2
    <3>4. QED
      BY <1>4, <3>1, <3>3
  <2>15. cur_x \in Int /\ cur_y \in Int /\ cur_shown \in BOOLEAN
    BY DEF GfxInv, GfxTypes
  <2> HIDE DEF R, E
  <2>16. hid \in BOOLEAN /\ (hid => cur_shown)
    BY <2>4, <2>5, <2>15, HideIs
  <2>17. cur_shown /\ ~hid => /\ Cells(R) \cap Pointer(cur_x, cur_y) = {}
                              /\ Target(R, at) \cap Pointer(cur_x, cur_y) = {}
    BY <2>4, <2>5, <2>15, HideIs
  <2> HIDE DEF hid
  <2>18. /\ IsMap(fb) /\ DOMAIN fb = A
         /\ \A q \in Target(R, at) : fb[From(q)] = asked[id].px[From(q)]
    <3>1. CASE id # 0
      <4>1. fb = asked[id].px /\ fb = surfaces[id].px
        BY <3>1 DEF Uncovered, GfxInv, Drawn
      <4>2. QED
        BY <4>1 DEF GfxInv, GfxTypes, ImageOk, A
    <3>2. CASE id = 0
      <4>1. IsScreen(surfaces[0].px) /\ A = ScreenCells
        BY <3>2, ScreenPx DEF GfxInv, A
      <4>2. asked[0].px = Bare
        BY DEF GfxInv, Drawn
      <4>3. CASE hid \/ ~cur_shown
        <5>1. fb = Bare
          BY <2>16, <3>2, <4>3 DEF Uncovered, Bare
        <5>2. IsScreen(Bare)
          BY <4>1, BareIs, RestoredIs DEF BareOf
        <5>3. QED
          BY <3>2, <4>1, <4>2, <5>1, <5>2 DEF IsScreen
      <4>4. CASE ~hid /\ cur_shown
        <5>1. fb = surfaces[0].px
          BY <3>2, <4>4 DEF Uncovered
        <5>2. Bare = Restored(surfaces[0].px, cur_x, cur_y, cur_saved)
          BY <4>4, BareIs DEF BareOf
        <5>3. \A p \in ScreenCells : p \notin Pointer(cur_x, cur_y) => Bare[p] = surfaces[0].px[p]
          <6> DEFINE px == surfaces[0].px
                     b == Restored(px, cur_x, cur_y, cur_saved)
          <6>1. IsScreen(px) /\ Bare = b
            BY <4>1, <5>2
          <6> HIDE DEF px
          <6>2. \A p \in ScreenCells :
                  b[p] = IF p \in Pointer(cur_x, cur_y) THEN cur_saved[<<p[1] - cur_x, p[2] - cur_y>>] ELSE px[p]
            BY <6>1, RestoredIs
          <6> HIDE DEF b
          <6>3. QED
            BY <6>1, <6>2 DEF px
        <5>4. \A q \in Target(R, at) : From(q) \in ScreenCells /\ From(q) \notin Pointer(cur_x, cur_y)
          BY <2>8, <2>10, <2>14, <2>17, <4>1, <4>4
        <5>5. QED
          BY <3>2, <4>1, <4>2, <5>1, <5>3, <5>4 DEF IsScreen
      <4>5. QED
        BY <4>3, <4>4
    <3>3. QED
      BY <3>1, <3>2
  <2> HIDE DEF fb
  <2>19. Over(CopyRows(fb, R, at), fb) = Over(m, fb)
    BY <1>4, <2>4, <2>11, <2>13, <2>14, <2>18, CopyIsMove
  <2>20. DOMAIN m = Target(R, at) /\ \A q \in Target(R, at) : m[q] = fb[From(q)]
    BY <2>9
  <2> HIDE DEF m
  <2>21. Write(id, hid, m)
    <3>1. Over(CopyRows(fb, R, at), Uncovered(id, hid)) = Over(m, Uncovered(id, hid))
      BY <2>19 DEF fb
    <3>2. QED
      BY <2>12, <3>1 DEF Write
  <2>22. Fits(m, D, A)
    <3>1. \A q \in DOMAIN m : m[q] = D[q]
      BY <1>7, <2>13, <2>18, <2>20
    <3>2. QED
      BY <2>13, <2>20, <3>1 DEF Fits
  <2>23. CASE id = 0
    <3>1. A = ScreenCells
      BY <2>23, ScreenPx DEF GfxInv, A
    <3>2. Write(0, hid, m) /\ Ask(0, D) /\ Fits(m, D, ScreenCells)
      BY <1>2, <2>21, <2>22, <2>23, <3>1
    <3>3. QED
      BY <2>16, <2>17, <2>20, <3>2, DrawScreenInv
  <2>24. CASE id # 0
    BY <1>2, <1>12, <2>21, <2>22, <2>24, DrawSurfaceInv DEF A
  <2>25. QED
    BY <2>23, <2>24
<1>13. QED
  BY <1>11, <1>12

LEMMA CopyRectInv ==
  ASSUME GfxInv, NEW id \in Ids, NEW s \in Rectangle, NEW at \in Plane, copy_rect(id, s, at), ~far'
  PROVE  GfxInv' /\ wild' = wild
<1> DEFINE r == UnsignedRect(s)
           p == <<Unsigned(at[1]), Unsigned(at[2])>>
<1>1. \A i \in Int : Unsigned(i) \in Nat
  BY Dimensions DEF Unsigned
<1>2. s.x \in Int /\ s.y \in Int /\ s.w \in Int /\ s.h \in Int /\ at[1] \in Int /\ at[2] \in Int
  BY PlaneIs DEF Rectangle
<1>3. r \in Rectangle /\ r.x \in Nat /\ r.y \in Nat /\ r.w \in Nat /\ r.h \in Nat
  BY <1>1, <1>2, UnsignedIs DEF UnsignedRect, Rect
<1>4. p \in Plane /\ p[1] \in Nat /\ p[2] \in Nat
  BY <1>1, <1>2, SamePoint
<1>5. gfx_copy_rect_on(id, r, p)
  BY DEF copy_rect
<1> HIDE DEF r, p
<1>6. QED
  BY <1>3, <1>4, <1>5, CopyRectOnInv

-----------------------------------------------------------------------------

\* Once a copy is asked for that ends beyond the 32 bits, it stays so.
LEMMA FarStays ==
  ASSUME GfxNext, far
  PROVE  far'
<1>1. CASE Draws
  BY <1>1 DEF Draws
<1>2. CASE Copies
  <2>1. PICK i \in Ids, r \in Rects, at \in Points : copy_rect(i, r, at)
    BY <1>2 DEF Copies
  <2>2. QED
    BY <2>1, Zenon DEF copy_rect, gfx_copy_rect_on
<1>3. QED
  BY <1>1, <1>2 DEF GfxNext

LEMMA NextGfxInv ==
  ASSUME GfxInv, GfxNext, ~far'
  PROVE  GfxInv' /\ ~wild'
<1>1. ASSUME NEW at \in Points, NEW show \in BOOLEAN, gfx_cursor(at[1], at[2], show) PROVE GfxInv'
  BY <1>1, Arguments, PlaneIs, CursorInv
<1>2. ASSUME NEW w \in Sides, NEW h \in Sides, native_gfx_surface(w, h) PROVE GfxInv'
  BY <1>2, Arguments, SurfaceNewInv
<1>3. ASSUME NEW i \in Ids, gfx_surface_free(i) PROVE GfxInv'
  BY <1>3, SurfaceFreeInv
<1>4. ASSUME NEW i \in Ids, NEW r \in Rects, gfx_own(i, r) PROVE GfxInv'
  BY <1>4, Arguments, OwnInv
<1>5. ASSUME NEW i \in Ids, NEW r \in Rects, NEW c \in Inks, gfx_fill_rect_on(i, r, c) PROVE GfxInv'
  BY <1>5, Arguments, FillRectInv DEF gfx_fill_rect_on
<1>6. ASSUME NEW r \in Rects, NEW c \in Inks, gfx_fill_rect(r, c) PROVE GfxInv'
  BY <1>6, Arguments, FillScreenInv
<1>7. ASSUME NEW c \in Inks, native_gfx_clear(c) PROVE GfxInv'
  BY <1>7, ClearInv
<1>8. ASSUME NEW at \in Points, NEW c \in Inks, gfx_set_pixel(at[1], at[2], c) PROVE GfxInv'
  BY <1>8, Arguments, PlaneIs, SetPixelInv
<1>9. ASSUME NEW i \in Ids, NEW at \in Points, NEW b \in Glyphs, NEW k \in Scales, NEW bg \in Inks \cup {NoInk},
             gfx_blit_bits_on(i, at, b, k, Black, bg)
      PROVE  GfxInv'
  BY <1>9, Arguments, BlitBitsInv
<1>10. ASSUME NEW i \in Ids, NEW r \in Rects, NEW at \in Points, copy_rect(i, r, at) PROVE GfxInv' /\ wild' = wild
  BY <1>10, Arguments, CopyRectInv
<1>11. ASSUME NEW i \in Ids, NEW r \in Rects, NEW at \in Points, gfx_present(i, r, at) PROVE GfxInv'
  BY <1>11, Arguments, PresentInv
<1>12. ASSUME NEW i \in Ids, NEW r \in Rects, NEW c \in Inks, gfx_fill_owned(i, r, c) PROVE GfxInv'
  BY <1>12, Arguments, FillOwnedInv
<1>13. ASSUME NEW i \in Ids, NEW at \in Points, NEW b \in Pictures, NEW key \in Inks \cup {NoInk},
              native_gfx_blit_pixels(i, at, b, key)
       PROVE  GfxInv'
  BY <1>13, Arguments, BlitPixelsInv DEF native_gfx_blit_pixels
<1>14. ASSUME NEW i \in Ids, NEW r \in Rects, NEW j \in Ids, NEW at \in Points, NEW k \in Scales,
              gfx_blit_surface(i, r, j, at, k)
       PROVE  GfxInv'
  BY <1>14, Arguments, BlitSurfaceInv
<1>15. CASE Draws
  <2>1. GfxInv'
    BY <1>1, <1>2, <1>3, <1>4, <1>5, <1>6, <1>7, <1>8, <1>9, <1>11, <1>12, <1>13, <1>14, <1>15 DEF Draws
  <2>2. QED
    BY <1>15, <2>1 DEF Draws, GfxNext
<1>16. CASE Copies
  BY <1>10, <1>16 DEF Copies, GfxNext
<1>17. QED
  BY <1>15, <1>16 DEF GfxNext

\* The invariant, as long as no copy has been asked for that ends beyond the 32 bits
NearInv == ~far => ~wild /\ GfxInv

\* Whatever is drawn, copied, scaled or presented, and wherever the pointer
\* is, every surface and the screen under the pointer hold exactly what the
\* calls asked for, the pointer is drawn whole over it, and nothing is written
\* beyond a surface (cursor_hide_for, clip, the order of rows and the clip of
\* gfx_copy_rect_on), until a copy is asked for whose far edge is beyond 32 bits.
THEOREM DrawnAsAskedTheorem == GfxSpec => []DrawnAsAsked
<1>1. GfxInit => NearInv
  BY GfxInitInv DEF GfxInit, NearInv
<1>2. NearInv /\ [GfxNext]_gfxVars => NearInv'
  <2> SUFFICES ASSUME NearInv, [GfxNext]_gfxVars, ~far' PROVE GfxInv' /\ ~wild'
    BY DEF NearInv
  <2>1. CASE GfxNext
    <3>1. GfxInv
      BY <2>1, FarStays DEF NearInv
    <3>2. QED
      BY <2>1, <3>1, NextGfxInv
  <2>2. CASE UNCHANGED gfxVars
    <3>1. GfxInv /\ ~wild /\ wild' = wild
      BY <2>2 DEF gfxVars, NearInv
    <3>2. UNCHANGED <<surfaces, cursor, cur_saved, asked>> /\ DOMAIN owner' = ScreenCells
      BY <2>2, <3>1 DEF gfxVars, GfxInv, GfxTypes
    <3>3. QED
      BY <3>1, <3>2, SameInv
  <2>3. QED
    BY <2>1, <2>2
<1>3. NearInv => DrawnAsAsked
  BY DEF NearInv, GfxInv, DrawnAsAsked
<1>4. QED
  BY <1>1, <1>2, <1>3, PTL DEF GfxSpec
=============================================================================
