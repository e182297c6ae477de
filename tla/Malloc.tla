------------------------------- MODULE Malloc -------------------------------
(***************************************************************************)
(* kernel/malloc.c: the size-class allocator over _sbrk.                   *)
(*                                                                         *)
(* Memory is a row of cells of ALIGN bytes, the size of a Header; a block  *)
(* of class c is a header cell and class_size(c) / ALIGN cells after it.   *)
(* A cell holds a header, the link of a free block, or data of the caller. *)
(* Addresses are cell numbers, 0 is NULL.  Sizes are in bytes, as the code *)
(* takes them.                                                             *)
(*                                                                         *)
(* No task switch and no trap handler allocates inside one of these        *)
(* functions, so each is one action.  The callers write to what they were  *)
(* given, all of malloc_usable_size, and free only what they hold.         *)
(***************************************************************************)
EXTENDS Integers, FiniteSets

CONSTANTS Align,          \* ALIGN
          SmallCount,     \* SMALL_COUNT
          LargeCount,     \* LARGE_COUNT
          HeapCells,      \* cells from __heap_start to __heap_end
          Sizes,          \* sizes callers ask for
          Aligns,         \* alignments callers ask for, in cells
          Data, Zero      \* what callers store; what calloc stores

\* Alignments are powers of two.  n + align in aligned_alloc does not overflow:
\* Sizes stay below 2^64 by more than any alignment.
ASSUME MallocAssumption ==
  /\ Align \in Nat \ {0} /\ SmallCount \in Nat \ {0} /\ LargeCount \in Nat
  /\ HeapCells \in Nat
  /\ Sizes \subseteq Nat
  /\ Aligns \subseteq Nat \ {0, 1}
  /\ \A k \in 0 .. LargeCount : 2 ^ k \in Nat \ {0}
  /\ Zero \in Data

VARIABLES mem,           \* the heap
          free_lists,    \* the first free block of each class
          brk            \* the static brk of _sbrk

\* History: the headers of all blocks _sbrk gave; and what the caller holds at
\* an address: the size and alignment it asked for (size -1: it holds nothing),
\* and that the first kept cells hold val.
VARIABLES blocks, held

vars == <<mem, free_lists, brk, blocks, held>>

Classes == SmallCount + LargeCount
SmallMax == SmallCount * Align
Class == 0 .. Classes - 1
Heap == 1 .. HeapCells
Null == 0

\* class_size, in cells and in bytes
ClassCells(c) == IF c < SmallCount THEN c + 1
                 ELSE 2 * SmallCount * 2 ^ (c - SmallCount)
class_size(c) == ClassCells(c) * Align

\* The smallest class that holds n bytes, Classes if none does.
class_of(n) ==
  IF n <= SmallMax THEN (IF n = 0 THEN 0 ELSE (n - 1) \div Align)
  ELSE LET fit == {c \in SmallCount .. Classes - 1 : n <= class_size(c)} IN
       IF fit = {} THEN Classes
       ELSE CHOOSE c \in fit : \A d \in fit : c <= d

\* What a cell can hold
Headers == [tag : {"header"}, cls : 0 .. Classes, offset : Nat]
Links == [tag : {"link"}, next : Heap \cup {Null}]
Datums == [tag : {"data"}, val : Data]
Header(c, off) == [tag |-> "header", cls |-> c, offset |-> off]
Link(h) == [tag |-> "link", next |-> h]
Datum(v) == [tag |-> "data", val |-> v]

Holding(n, a, kept, v) == [n |-> n, align |-> a, kept |-> kept, val |-> v]
NotHeld == Holding(-1, 1, 0, Zero)
LiveIn(hd) == {p \in Heap : hd[p].n # -1}
Live == LiveIn(held)

Init ==
  /\ mem = [k \in Heap |-> Datum(Zero)]
  /\ free_lists = [c \in Class |-> Null]
  /\ brk = 1
  /\ blocks = {}
  /\ held = [p \in Heap |-> NotHeld]

-----------------------------------------------------------------------------
\* header_of: the header of the block that p points into, in memory m
header_of(m, p) == (p - 1) - m[p - 1].offset

\* The last cell of the block whose header is at h
EndOf(m, h) == h + ClassCells(m[h].cls)

\* usable, in cells and in bytes: to the end of the block
UsableCells(p) ==
  ClassCells(mem[header_of(mem, p)].cls) - (p - (header_of(mem, p) + 1))
usable(p) == UsableCells(p) * Align

\* The header malloc(n) takes: the first free block of the class, else what
\* _sbrk gives, else NULL.
BlockFor(n) ==
  LET c == class_of(n) IN
  IF c = Classes THEN Null
  ELSE IF free_lists[c] # Null THEN free_lists[c]
  ELSE IF brk + 1 + ClassCells(c) > HeapCells + 1 THEN Null
  ELSE brk

\* What malloc(n) leaves when it takes BlockFor(n).
Reused(n) == free_lists[class_of(n)] # Null
ListsAfterKept(n) == free_lists             \* mutant: the block is not unlinked
ListsAfter(n) ==
  IF Reused(n) THEN [free_lists EXCEPT ![class_of(n)] = mem[BlockFor(n) + 1].next]
  ELSE free_lists
BrkAfter(n) == IF Reused(n) THEN brk ELSE brk + 1 + ClassCells(class_of(n))
MemAfter(n) ==
  [mem EXCEPT ![BlockFor(n)] =
     Header(IF Reused(n) THEN mem[BlockFor(n)].cls ELSE class_of(n), 0)]

\* malloc(n) takes its block.
Take(n) ==
  /\ BlockFor(n) # Null
  /\ brk' = BrkAfter(n)
  /\ blocks' = blocks \cup {BlockFor(n)}

malloc(n) ==
  /\ Take(n)
  /\ mem' = MemAfter(n)
  /\ free_lists' = ListsAfter(n)
  /\ held' = [held EXCEPT ![BlockFor(n) + 1] = Holding(n, 1, 0, Zero)]

\* ENOMEM, from any of the functions: nothing changes.
NoMemory(n) == BlockFor(n) = Null /\ UNCHANGED vars

calloc(n) ==
  LET p == BlockFor(n) + 1
      cells == (n + Align - 1) \div Align
  IN
  /\ Take(n)
  /\ mem' = [k \in Heap |-> IF k \in p .. p + cells - 1 THEN Datum(Zero)
                            ELSE MemAfter(n)[k]]
  /\ free_lists' = ListsAfter(n)
  /\ held' = [held EXCEPT ![p] = Holding(n, 1, cells, Zero)]

\* The first multiple of a at or after base
RoundUp(base, a) == IF base % a = 0 THEN base ELSE base + a - (base % a)

\* Mutant: no header in front of the aligned address.
AlignedBare(a, n) ==
  LET more == n + a * Align
      p == RoundUp(BlockFor(more) + 1, a)
  IN
  /\ Take(more)
  /\ mem' = MemAfter(more)
  /\ free_lists' = ListsAfter(more)
  /\ held' = [held EXCEPT ![p] = Holding(n, a, 0, Zero)]

\* Mutant: no extra room for the alignment.
AlignedTight(a, n) ==
  LET base == BlockFor(n) + 1
      p == RoundUp(base, a)
  IN
  /\ Take(n)
  /\ mem' = IF p = base THEN MemAfter(n)
            ELSE [MemAfter(n) EXCEPT ![p - 1] = Header(Classes, p - base)]
  /\ free_lists' = ListsAfter(n)
  /\ held' = [held EXCEPT ![p] = Holding(n, a, 0, Zero)]

\* An alignment of one cell is malloc.  A larger one: a larger block, and a
\* second header in front of p that leads back to the block's; its cls is not
\* written.
aligned_alloc(a, n) ==
  LET more == n + a * Align
      base == BlockFor(more) + 1
      p == RoundUp(base, a)
  IN
  /\ Take(more)
  /\ mem' = IF p = base THEN MemAfter(more)
            ELSE [MemAfter(more) EXCEPT ![p - 1] = Header(Classes, p - base)]
  /\ free_lists' = ListsAfter(more)
  /\ held' = [held EXCEPT ![p] = Holding(n, a, 0, Zero)]

\* free(p), with memory m and the lists: its block goes to the front of the
\* list of its class.
Freed(m, lists, p) ==
  LET h == header_of(m, p) IN
  [m EXCEPT ![h] = Header(m[h].cls, 0), ![h + 1] = Link(lists[m[h].cls])]
Pushed(m, lists, p) ==
  [lists EXCEPT ![m[header_of(m, p)].cls] = header_of(m, p)]

free(p) ==
  /\ p \in Live
  /\ mem' = Freed(mem, free_lists, p)
  /\ free_lists' = Pushed(mem, free_lists, p)
  /\ held' = [held EXCEPT ![p] = NotHeld]
  /\ UNCHANGED <<brk, blocks>>

\* realloc in place, also to less
ReallocStays(p, n) ==
  /\ p \in Live /\ n <= usable(p)
  /\ held' = [held EXCEPT ![p] = [held[p] EXCEPT !.n = n]]
  /\ UNCHANGED <<mem, free_lists, brk, blocks>>

\* Mutant: memcpy from the start of the block.
CopiedFromBase(p, q, n) ==
  [k \in Heap |-> IF k \in q .. q + UsableCells(p) - 1
                  THEN mem[header_of(mem, p) + 1 + (k - q)] ELSE MemAfter(n)[k]]

\* memcpy to q of all that was usable at p, after malloc(n)
Copied(p, q, n) ==
  [k \in Heap |-> IF k \in q .. q + UsableCells(p) - 1
                  THEN mem[p + (k - q)] ELSE MemAfter(n)[k]]

\* malloc, memcpy, free
ReallocMoves(p, n) ==
  LET q == BlockFor(n) + 1
      copied == Copied(p, q, n)
  IN
  /\ p \in Live /\ n > usable(p)
  /\ Take(n)
  /\ mem' = Freed(copied, ListsAfter(n), p)
  /\ free_lists' = Pushed(copied, ListsAfter(n), p)
  /\ held' = [held EXCEPT ![p] = NotHeld,
                          ![q] = Holding(n, 1, held[p].kept, held[p].val)]

realloc(p, n) == ReallocStays(p, n) \/ ReallocMoves(p, n)

\* The caller fills all it may use.
Store(p, v) ==
  /\ p \in Live
  /\ mem' = [k \in Heap |-> IF k \in p .. p + UsableCells(p) - 1 THEN Datum(v)
                            ELSE mem[k]]
  /\ held' = [held EXCEPT ![p] = [held[p] EXCEPT !.kept = UsableCells(p), !.val = v]]
  /\ UNCHANGED <<free_lists, brk, blocks>>

Next ==
  \/ \E n \in Sizes : malloc(n) \/ calloc(n) \/ NoMemory(n)
  \/ \E a \in Aligns, n \in Sizes : aligned_alloc(a, n)
  \/ \E p \in Heap : free(p)
  \/ \E p \in Heap, n \in Sizes : realloc(p, n)
  \/ \E p \in Heap, v \in Data : Store(p, v)

Spec == Init /\ [][Next]_vars

-----------------------------------------------------------------------------
\* Type invariant of the heap and of what the callers hold.
TypeOK ==
  /\ mem \in [Heap -> Headers \cup Links \cup Datums]
  /\ free_lists \in [Class -> Heap \cup {Null}]
  /\ brk \in 1 .. HeapCells + 1
  /\ blocks \subseteq Heap
  /\ held \in [Heap -> [n : Nat \cup {-1}, align : Nat, kept : Nat, val : Data]]

\* The blocks lie behind one another below brk, each behind a header that
\* tells its class, whatever the callers store in them.
BlocksApart ==
  /\ \A h \in blocks : /\ mem[h] \in Headers /\ mem[h].cls \in Class
                       /\ EndOf(mem, h) < brk
  /\ \A g, h \in blocks : g < h => EndOf(mem, g) < h

\* header_of leads from every pointer a caller holds, aligned or not, into
\* the block it lies in, and no two of them lie in one block.
HeldApart ==
  /\ \A p \in Live :
       /\ p > 1 /\ mem[p - 1] \in Headers
       /\ header_of(mem, p) \in blocks
       /\ header_of(mem, p) < p /\ p <= EndOf(mem, header_of(mem, p))
  /\ \A p, q \in Live : header_of(mem, p) = header_of(mem, q) => p = q

\* Every pointer a caller holds has a block of its own, and no two blocks overlap:
\* what malloc, aligned_alloc and realloc hand out is shared with nobody.
OwnBlock == BlocksApart /\ HeldApart

Free == {h \in blocks : \A p \in Live : header_of(mem, p) # h}
NextFree(h) == mem[h + 1].next

\* A class's list leads only to free blocks of the class, and to each of them
\* from one place: malloc never takes a block that is held, nor one block twice,
\* and no freed block is lost.
FreeListsSound ==
  /\ \A c \in Class : free_lists[c] # Null =>
       free_lists[c] \in Free /\ mem[free_lists[c]].cls = c
  /\ \A h \in Free :
       /\ mem[h + 1] \in Links
       /\ NextFree(h) # Null =>
            /\ NextFree(h) \in Free /\ mem[NextFree(h)].cls = mem[h].cls
            /\ NextFree(h) # free_lists[mem[h].cls]
            /\ \A g \in Free : NextFree(g) = NextFree(h) => g = h
       /\ h # free_lists[mem[h].cls] => \E g \in Free : NextFree(g) = h

\* A caller has at least the room and the alignment it asked for, in the block
\* that is its own, also when aligned_alloc moved its pointer into the block
\* and realloc then decided that it fits.
EnoughRoom ==
  \A p \in Live :
    /\ held[p].n <= (EndOf(mem, header_of(mem, p)) - p + 1) * Align
    /\ p % held[p].align = 0

\* What a caller stored stays as it left it, whatever is allocated, freed,
\* moved or stored elsewhere: no header, link or other caller's data is ever
\* written inside memory that is held, and realloc and calloc keep their word.
DataKept ==
  \A p \in Live : \A k \in 0 .. held[p].kept - 1 : mem[p + k] = Datum(held[p].val)
=============================================================================
