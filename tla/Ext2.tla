-------------------------------- MODULE Ext2 --------------------------------
(***************************************************************************)
(* lib/ext2.beer: the write operations of the ext2 file system.            *)
(*                                                                         *)
(* One lock is held for a whole write operation, so an operation is one    *)
(* action.  Inside it the disk is threaded through the helpers of the      *)
(* source: each takes a disk and returns the disk it leaves, a value and   *)
(* the reason it threw, "none" if it did not.  What a helper did before a  *)
(* later one throws stays done: nothing is rolled back.                    *)
(*                                                                         *)
(* Abstracted: metadata blocks, times, permissions and file contents.  A   *)
(* directory block holds DirCap entries whatever their names.              *)
(***************************************************************************)
EXTENDS Naturals, Integers, Sequences, FiniteSets, SequencesExt, FiniteSetsExt

CONSTANTS NBlocks, BlocksPerGroup,    \* data blocks 1 .. NBlocks
          NInodes, InodesPerGroup,    \* inodes 1 .. NInodes; 1 is root-ino
          NDirect, PtrsPerBlock,      \* 12 and block-size / 4 in the source
          DirCap,                     \* entries of a directory block
          MaxHops,                    \* max-symlink-hops
          Name,                       \* file names
          Paths, Sizes, Targets       \* inputs of the operations

ASSUME Ext2Assumption ==
  /\ {NBlocks, BlocksPerGroup, NInodes, InodesPerGroup, NDirect, PtrsPerBlock}
       \subseteq Nat \ {0}
  /\ \A i \in 1 .. NInodes :       \* each inode's group has blocks
       (i - 1) \div InodesPerGroup <= (NBlocks - 1) \div BlocksPerGroup
  /\ DirCap \in Nat /\ DirCap >= 2 /\ MaxHops \in Nat
  /\ {".", ".."} \cap Name = {}
  /\ Sizes \subseteq Nat
  /\ Paths \subseteq {p \in Seq(Name \cup {".", ".."}) : p # <<>> => p[Len(p)] \in Name}
  /\ Targets \subseteq [absolute : BOOLEAN, long : BOOLEAN,
                    path : Seq(Name \cup {".", ".."})]

VARIABLES disk,      \* what the device holds
          threw,     \* did the last operation throw
          spoiled,   \* history: a file or directory kept blocks that were freed
          starved    \* history: an operation threw half-way through

vars == <<disk, threw, spoiled, starved>>

Root == 1
Block == 1 .. NBlocks
Ino == 1 .. NInodes
AnyName == Name \cup {".", ".."}
GroupOf(b) == (b - 1) \div BlocksPerGroup
group_of_inode(i) == (i - 1) \div InodesPerGroup
NGroups == GroupOf(NBlocks) + 1
Group == 0 .. NGroups - 1

NoLink == [absolute |-> TRUE, long |-> FALSE, path |-> <<>>]
FreshInode(type, links) ==
  [type |-> type, links |-> links, data |-> <<>>, ind |-> <<>>, target |-> NoLink]
NoEntries == [n \in AnyName |-> 0]        \* inode 0: no such entry
DotEntries(i, parent) == [NoEntries EXCEPT !["."] = i, ![".."] = parent]

\* What mke2fs leaves: a root directory of one block.
Init ==
  /\ disk = [blocks |-> {1}, inodes |-> {Root},            \* the bitmaps
             gd_blocks |-> [g \in Group |->
                              Cardinality({b \in Block \ {1} : GroupOf(b) = g})],
             gd_inodes |-> [g \in Group |->
                              Cardinality({i \in Ino \ {Root} : group_of_inode(i) = g})],
             gd_dirs |-> [g \in Group |-> IF g = 0 THEN 1 ELSE 0],
             sb_blocks |-> NBlocks - 1, sb_inodes |-> NInodes - 1,
             inode |-> [i \in Ino |-> IF i = Root
                          THEN [FreshInode("dir", 2) EXCEPT !.data = <<1>>]
                          ELSE FreshInode("none", 0)],
             entries |-> [b \in Block |-> IF b = 1 THEN DotEntries(Root, Root)
                                                   ELSE NoEntries]]
  /\ threw = FALSE /\ spoiled = FALSE /\ starved = FALSE

-----------------------------------------------------------------------------
\* Results: a helper's disk and value, or the disk on which it threw

Ok(d, v) == [disk |-> d, val |-> v, err |-> "none"]
Throw(d, why) == [disk |-> d, val |-> 0, err |-> why]
Then(r, F(_, _)) == IF r.err = "none" THEN F(r.disk, r.val) ELSE r

-----------------------------------------------------------------------------
\* Allocation

adjust_counts(d, g, dblocks, dinodes, ddirs) ==
  [d EXCEPT !.gd_blocks[g] = @ + dblocks, !.sb_blocks = @ + dblocks,
            !.gd_inodes[g] = @ + dinodes, !.sb_inodes = @ + dinodes,
            !.gd_dirs[g] = @ + ddirs]

\* Each group's count changes by the number of these blocks in the group.
CountBlocks(d, blocks, sign) ==
  [d EXCEPT !.gd_blocks = [g \in Group |->
              @[g] + sign * Cardinality({k \in DOMAIN blocks : GroupOf(blocks[k]) = g})],
            !.sb_blocks = @ + sign * Len(blocks)]

\* The order of the search: from group goal on, and by number in a group.
Rank(goal, b) == ((GroupOf(b) + NGroups - goal) % NGroups) * NBlocks + b

FirstFree(free, goal, n) ==
  [k \in 1 .. n |-> CHOOSE b \in free :
     Cardinality({a \in free : Rank(goal, a) < Rank(goal, b)}) = k - 1]

\* Mutant: only the goal group's bitmap is written back.
AllocGoalBitmap(d, goal, n) ==
  LET got == FirstFree(Block \ d.blocks, goal, n)
  IN IF Cardinality(Block \ d.blocks) < n THEN Throw(d, "disk-full")
     ELSE Ok(CountBlocks([d EXCEPT !.blocks =
                            @ \cup {b \in ToSet(got) : GroupOf(b) = goal}], got, -1), got)

alloc_blocks(d, goal, n) ==
  LET got == FirstFree(Block \ d.blocks, goal, n)
  IN IF Cardinality(Block \ d.blocks) < n THEN Throw(d, "disk-full")
     ELSE Ok(CountBlocks([d EXCEPT !.blocks = @ \cup ToSet(got)], got, -1), got)

\* What a freed block holds is not kept.
free_blocks(d, blocks) ==
  CountBlocks([d EXCEPT !.blocks = @ \ ToSet(blocks),
                        !.entries = [b \in Block |-> IF b \in ToSet(blocks)
                                                     THEN NoEntries ELSE @[b]]],
              blocks, 1)

alloc_inode(d, goal, dirs) ==
  LET key(i) == ((group_of_inode(i) + NGroups - goal) % NGroups) * NInodes + i
      free == Ino \ d.inodes
      i == CHOOSE i \in free : \A j \in free : key(i) <= key(j)
  IN IF free = {} THEN Throw(d, "no-free-inodes")
     ELSE Ok(adjust_counts([d EXCEPT !.inodes = @ \cup {i}],
                           group_of_inode(i), 0, -1, dirs), i)

free_inode(d, i, dirs) ==
  adjust_counts([d EXCEPT !.inodes = @ \ {i}], group_of_inode(i), 0, 1, -dirs)

\* The indirect blocks for n data blocks: the single indirect one, the second
\* level, the top of the double indirect.
build_map(d, goal, n) ==
  LET double == n - NDirect - PtrsPerBlock IN
  IF double > PtrsPerBlock * PtrsPerBlock THEN Throw(d, "file-too-large")
  ELSE Then(IF n > NDirect THEN alloc_blocks(d, goal, 1) ELSE Ok(d, <<>>), LAMBDA e, single :
         IF double <= 0 THEN Ok(e, single)
         ELSE Then(alloc_blocks(e, goal, (double + PtrsPerBlock - 1) \div PtrsPerBlock),
                   LAMBDA f, seconds :
                     Then(alloc_blocks(f, goal, 1), LAMBDA g, top :
                            Ok(g, single \o seconds \o top))))

\* Mutant: the indirect blocks are forgotten.
DataBlocks(d, i) == d.inode[i].data

all_blocks(d, i) == d.inode[i].data \o d.inode[i].ind

-----------------------------------------------------------------------------
\* Directories

lookup(d, dir, nm) ==
  LET blocks == {b \in ToSet(d.inode[dir].data) : d.entries[b][nm] # 0}
  IN IF blocks = {} THEN 0 ELSE d.entries[CHOOSE b \in blocks : TRUE][nm]

EntryCount(d, b) == Cardinality({n \in AnyName : d.entries[b][n] # 0})

IsEmptyDir(d, i) == \A n \in Name : lookup(d, i, n) = 0

\* No room in the directory's blocks: one more, and a new block map.
GrowDirectory(d, dir, nm, i) ==
  LET goal == group_of_inode(dir) IN
  Then(alloc_blocks(d, goal, 1), LAMBDA e, got :
    LET data == e.inode[dir].data \o got
        full == free_blocks([e EXCEPT !.entries[got[1]] = [NoEntries EXCEPT ![nm] = i]],
                            e.inode[dir].ind)
    IN Then(build_map(full, goal, Len(data)), LAMBDA f, ind :
         Ok([f EXCEPT !.inode[dir].data = data, !.inode[dir].ind = ind], 0)))

add_entry(d, dir, nm, i) ==
  LET data == d.inode[dir].data
      room == {k \in DOMAIN data : EntryCount(d, data[k]) < DirCap}
  IN IF room = {} THEN GrowDirectory(d, dir, nm, i)
     ELSE Ok([d EXCEPT !.entries[data[Min(room)]][nm] = i], 0)

remove_entry(d, dir, nm) ==
  IF lookup(d, dir, nm) = 0 THEN Throw(d, "not-found")
  ELSE Ok([d EXCEPT !.entries = [b \in Block |->
             IF b \in ToSet(d.inode[dir].data) THEN [@[b] EXCEPT ![nm] = 0] ELSE @[b]]],
          0)

set_dotdot(d, dir, parent) ==
  [d EXCEPT !.entries[d.inode[dir].data[1]][".."] = parent]

\* One round of resolve-inode's loop, symlinks followed to the end
WalkRound(d, w) ==
  LET i == lookup(d, w.cur, Head(w.comps))
      to == d.inode[i].target
  IN  IF w.err # "none" \/ w.comps = <<>> THEN w
      ELSE IF d.inode[w.cur].type # "dir" THEN [w EXCEPT !.err = "not-a-directory"]
      ELSE IF i = 0 THEN [w EXCEPT !.err = "not-found"]
      ELSE IF d.inode[i].type # "symlink" THEN [w EXCEPT !.cur = i, !.comps = Tail(@)]
      ELSE IF w.hops >= MaxHops THEN [w EXCEPT !.err = "too-many-links"]
      ELSE [w EXCEPT !.cur = IF to.absolute THEN Root ELSE @,
                     !.comps = to.path \o Tail(@), !.hops = @ + 1]

\* resolve-inode.  A round takes one name away, and a link adds those of its
\* target: so many rounds are enough.
Walk(d, path) ==
  LET rounds == Len(path) + MaxHops * Max({Len(d.inode[i].target.path) : i \in Ino})
      w[k \in 0 .. rounds] ==
        IF k = 0 THEN [cur |-> Root, comps |-> path, hops |-> 0, err |-> "none"]
        ELSE WalkRound(d, w[k - 1])
  IN  IF w[rounds].err = "none" THEN Ok(d, w[rounds].cur) ELSE Throw(d, w[rounds].err)

\* The directory that holds, or would hold, the last name of path.
parent_and_name(d, path) ==
  IF path = <<>> THEN Throw(d, "is-root")
  ELSE Then(Walk(d, Front(path)), LAMBDA e, p :
         IF e.inode[p].type # "dir" THEN Throw(e, "not-a-directory") ELSE Ok(e, p))

-----------------------------------------------------------------------------
\* The public operations

CreateFile(d, p, nm) ==
  Then(alloc_inode(d, group_of_inode(p), 0), LAMBDA e, i :
    Then(add_entry([e EXCEPT !.inode[i] = FreshInode("file", 1)], p, nm, i),
         LAMBDA f, none : Ok(f, i)))

\* The old blocks are free before the new ones are found.
ReplaceData(d, i, n) ==
  LET goal == group_of_inode(i) IN
  Then(alloc_blocks(free_blocks(d, all_blocks(d, i)), goal, n), LAMBDA e, data :
    Then(build_map(e, goal, n), LAMBDA f, ind :
      Ok([f EXCEPT !.inode[i].data = data, !.inode[i].ind = ind], i)))

WriteFile(d, path, n) ==
  Then(parent_and_name(d, path), LAMBDA e, p :
    LET existing == lookup(e, p, Last(path)) IN
    Then(IF existing # 0 THEN Ok(e, existing) ELSE CreateFile(e, p, Last(path)),
         LAMBDA f, i : IF f.inode[i].type # "file" THEN Throw(f, "not-a-file")
                       ELSE ReplaceData(f, i, n)))

AddLinks(d, i, n) == [d EXCEPT !.inode[i].links = @ + n]

Mkdir(d, path) ==
  Then(parent_and_name(d, path), LAMBDA e, p :
    IF lookup(e, p, Last(path)) # 0 THEN Throw(e, "exists")
    ELSE Then(alloc_inode(e, group_of_inode(p), 1), LAMBDA f, i :
      Then(alloc_blocks(f, group_of_inode(i), 1), LAMBDA g, got :
        Then(add_entry([g EXCEPT !.entries[got[1]] = DotEntries(i, p),
                                 !.inode[i] = [FreshInode("dir", 2) EXCEPT !.data = got]],
                       p, Last(path), i),
             LAMBDA h, none : Ok(AddLinks(h, p, 1), i)))))

\* Mutant: a directory is not counted out.
ReleaseUncounted(d, i) ==
  LET e == free_blocks(d, all_blocks(d, i)) IN
  free_inode([e EXCEPT !.inode[i] = FreshInode("none", 0)], i, 0)

\* A released inode keeps nothing that is read again.
release_inode(d, i) ==
  LET e == free_blocks(d, all_blocks(d, i)) IN
  free_inode([e EXCEPT !.inode[i] = FreshInode("none", 0)], i,
             IF d.inode[i].type = "dir" THEN 1 ELSE 0)

DropLink(d, i) ==
  IF d.inode[i].links <= 1 THEN release_inode(d, i) ELSE AddLinks(d, i, -1)

Rm(d, path) ==
  Then(parent_and_name(d, path), LAMBDA e, p :
    LET i == lookup(e, p, Last(path)) IN
    IF i = 0 THEN Throw(e, "not-found")
    ELSE IF e.inode[i].type = "dir" THEN Throw(e, "is-a-directory")
    ELSE Then(remove_entry(e, p, Last(path)), LAMBDA f, none : Ok(DropLink(f, i), 0)))

Rmdir(d, path) ==
  Then(parent_and_name(d, path), LAMBDA e, p :
    LET i == lookup(e, p, Last(path)) IN
    IF i = 0 THEN Throw(e, "not-found")
    ELSE IF e.inode[i].type # "dir" THEN Throw(e, "not-a-directory")
    ELSE IF ~IsEmptyDir(e, i) THEN Throw(e, "not-empty")
    ELSE Then(remove_entry(e, p, Last(path)), LAMBDA f, none :
           Ok(AddLinks(release_inode(f, i), p, -1), 0)))

\* Mutant: a replaced directory still counts as a link of its parent.
ReplaceKeepsLink(d, p2, n2, i) ==
  LET old == lookup(d, p2, n2)
      isDir == d.inode[i].type = "dir"
      oldDir == d.inode[old].type = "dir"
  IN IF old = 0 THEN Ok(d, 0)
     ELSE IF isDir /\ ~oldDir THEN Throw(d, "not-a-directory")
     ELSE IF ~isDir /\ oldDir THEN Throw(d, "is-a-directory")
     ELSE IF isDir /\ ~IsEmptyDir(d, old) THEN Throw(d, "not-empty")
     ELSE Then(remove_entry(d, p2, n2), LAMBDA e, none :
            Ok(IF isDir THEN release_inode(e, old) ELSE DropLink(e, old), 0))

\* What is at the target gives way to inode i, or the reason it does not.
Replace(d, p2, n2, i) ==
  LET old == lookup(d, p2, n2)
      isDir == d.inode[i].type = "dir"
      oldDir == d.inode[old].type = "dir"
  IN IF old = 0 THEN Ok(d, 0)
     ELSE IF isDir /\ ~oldDir THEN Throw(d, "not-a-directory")
     ELSE IF ~isDir /\ oldDir THEN Throw(d, "is-a-directory")
     ELSE IF isDir /\ ~IsEmptyDir(d, old) THEN Throw(d, "not-empty")
     ELSE Then(remove_entry(d, p2, n2), LAMBDA e, none :
            Ok(IF isDir THEN AddLinks(release_inode(e, old), p2, -1)
                        ELSE DropLink(e, old), 0))

\* into-itself: path to is from or starts with from, name by name as written
IntoItself(from, to) == IsPrefix(from, to)

\* Mutant: .. still names the old parent.
MoveKeepsDotdot(d, p1, n1, p2, n2, i) ==
  Then(add_entry(d, p2, n2, i), LAMBDA e, none1 :
    Then(remove_entry(e, p1, n1), LAMBDA f, none2 :
      Ok(IF f.inode[i].type = "dir" /\ p1 # p2
           THEN AddLinks(AddLinks(f, p1, -1), p2, 1) ELSE f, 0)))

\* Mutant: the old name goes before the new one is there.
MoveRemovesFirst(d, p1, n1, p2, n2, i) ==
  Then(remove_entry(d, p1, n1), LAMBDA e, none1 :
    Then(add_entry(e, p2, n2, i), LAMBDA f, none2 :
      Ok(IF f.inode[i].type = "dir" /\ p1 # p2
           THEN AddLinks(AddLinks(set_dotdot(f, i, p2), p1, -1), p2, 1)
           ELSE f, 0)))

MoveEntry(d, p1, n1, p2, n2, i) ==
  Then(add_entry(d, p2, n2, i), LAMBDA e, none1 :
    Then(remove_entry(e, p1, n1), LAMBDA f, none2 :
      Ok(IF f.inode[i].type = "dir" /\ p1 # p2
           THEN AddLinks(AddLinks(set_dotdot(f, i, p2), p1, -1), p2, 1)
           ELSE f, 0)))

Mv(d, from, to) ==
  Then(parent_and_name(d, from), LAMBDA e, p1 :
    LET i == lookup(e, p1, Last(from)) IN
    IF i = 0 THEN Throw(e, "not-found")
    ELSE IF e.inode[i].type = "dir" /\ IntoItself(from, to) THEN Throw(e, "into-itself")
    ELSE Then(parent_and_name(e, to), LAMBDA f, p2 :
      IF lookup(f, p2, Last(to)) = i THEN Ok(f, 0)
      ELSE Then(Replace(f, p2, Last(to), i), LAMBDA g, none :
             MoveEntry(g, p1, Last(from), p2, Last(to), i))))

\* A target of 60 bytes or more goes to a block of its own.
Symlink(d, target, path) ==
  Then(parent_and_name(d, path), LAMBDA e, p :
    IF lookup(e, p, Last(path)) # 0 THEN Throw(e, "exists")
    ELSE Then(alloc_inode(e, group_of_inode(p), 0), LAMBDA f, i :
      LET fresh == [f EXCEPT !.inode[i] = FreshInode("symlink", 1)] IN
      Then(IF target.long THEN alloc_blocks(fresh, group_of_inode(i), 1) ELSE Ok(fresh, <<>>),
           LAMBDA g, got :
             add_entry([g EXCEPT !.inode[i].data = got, !.inode[i].target = target],
                       p, Last(path), i))))

-----------------------------------------------------------------------------
\* A write operation ends: the disk it leaves and why it threw.
Done(r) ==
  /\ disk' = r.disk
  /\ threw' = (r.err # "none")
  /\ starved' = (starved \/ (r.err # "none" /\ r.disk # disk))

\* The file that write-file! would replace, if it has blocks.
Replaced(path) ==
  LET p == parent_and_name(disk, path)
      i == IF p.err = "none" THEN lookup(disk, p.val, Last(path)) ELSE 0
  IN i # 0 /\ disk.inode[i].type = "file" /\ all_blocks(disk, i) # <<>>

\* add-entry! threw, and the indirect blocks of the directory are free.
CutOff(r, path) ==
  LET p == parent_and_name(disk, path)
  IN  /\ r.err # "none" /\ p.err = "none"
      /\ ~(ToSet(disk.inode[p.val].ind) \subseteq r.disk.blocks)

write_file(path, n) ==
  LET r == WriteFile(disk, path, n) IN
  /\ Done(r)
  /\ spoiled' = (spoiled \/ CutOff(r, path) \/ (r.err # "none" /\ Replaced(path)))

\* The operations that may add an entry for path
Adding(r, path) == Done(r) /\ spoiled' = (spoiled \/ CutOff(r, path))

mkdir(path) == Adding(Mkdir(disk, path), path)
rm(path) == Done(Rm(disk, path)) /\ UNCHANGED spoiled
rmdir(path) == Done(Rmdir(disk, path)) /\ UNCHANGED spoiled
mv(from, to) == Adding(Mv(disk, from, to), to)
symlink(target, path) == Adding(Symlink(disk, target, path), path)

Next ==
  \E path \in Paths :
    \/ \E n \in Sizes : write_file(path, n)
    \/ mkdir(path) \/ rm(path) \/ rmdir(path)
    \/ \E to \in Paths : mv(path, to)
    \/ \E target \in Targets : symlink(target, path)

Spec == Init /\ [][Next]_vars

-----------------------------------------------------------------------------
InUse == {i \in disk.inodes : disk.inode[i].type # "none"}
Dirs == {i \in InUse : disk.inode[i].type = "dir"}
Mapped(i) == all_blocks(disk, i)
NamesOf(c) == {e \in Dirs \X Name : lookup(disk, e[1], e[2]) = c}
Subdirs(i) == {n \in Name : lookup(disk, i, n) \in Dirs}

\* "two tasks never allocate the same blocks" (ext2.beer:325): a block
\* belongs to one inode.
NoSharedBlock ==
  \A i, j \in InUse : i # j => ToSet(Mapped(i)) \cap ToSet(Mapped(j)) = {}

\* No sequence of operations, whatever throws :disk-full on the way, gives a
\* block two owners or frees one that has an owner, unless write-file! threw
\* on a file, or add-entry! on a directory, whose blocks it had already freed.
BlocksOwnedOnce ==
  ~spoiled => /\ NoSharedBlock
              /\ \A i \in InUse : /\ IsInjective(Mapped(i))
                                   /\ ToSet(Mapped(i)) \subseteq disk.blocks

\* "Free counts live on disk ... and are read-modified-written" (ext2.beer:323):
\* after every operation, one that threw included, the group descriptors and
\* the superblock count what the bitmaps say.
CountsAgree ==
  ~spoiled =>
    /\ \A g \in Group :
         /\ disk.gd_blocks[g] = Cardinality({b \in Block \ disk.blocks : GroupOf(b) = g})
         /\ disk.gd_inodes[g] = Cardinality({i \in Ino \ disk.inodes :
                                              group_of_inode(i) = g})
         /\ ~starved => disk.gd_dirs[g] = Cardinality({i \in Dirs : group_of_inode(i) = g})
    /\ disk.sb_blocks = Cardinality(Block \ disk.blocks)
    /\ disk.sb_inodes = Cardinality(Ino \ disk.inodes)

\* Every name leads to an inode in use, is stored once in its directory, and a
\* directory has one name and a .. that leads back: what mv! has to keep when
\* it moves directories and replaces them.
NamesLead ==
  ~spoiled =>
    \A i \in Dirs :
      /\ lookup(disk, i, ".") = i
      /\ \A n \in Name :
           /\ Cardinality({b \in ToSet(disk.inode[i].data) : disk.entries[b][n] # 0}) <= 1
           /\ lookup(disk, i, n) \in InUse \cup {0}
           /\ lookup(disk, i, n) \in Dirs
                => /\ NamesOf(lookup(disk, i, n)) = {<<i, n>>}
                   /\ lookup(disk, lookup(disk, i, n), "..") = i

\* Link counts are what e2fsck would count: the names of a file, the
\* subdirectories of a directory and two more.
LinksAgree ==
  ~spoiled =>
    \A i \in InUse :
      i = Root \/ NamesOf(i) # {}
        => disk.inode[i].links = IF i \in Dirs THEN 2 + Cardinality(Subdirs(i))
                                 ELSE Cardinality(NamesOf(i))

\* Blocks and inodes are lost only by an operation that threw half-way: until
\* one does, inodes that are marked used have a name, and blocks an inode.
NothingLeaks ==
  ~spoiled /\ ~starved =>
    /\ disk.inodes = InUse
    /\ \A i \in InUse \ {Root} : NamesOf(i) # {}
    /\ disk.blocks = UNION {ToSet(Mapped(i)) : i \in InUse}

\* An operation that throws takes no name away and changes no file's type,
\* unless the disk was spoiled before it.
ThrowKeepsNames ==
  [][~spoiled /\ threw' =>
       \A i \in Dirs, n \in Name :
         lookup(disk, i, n) # 0 =>
           /\ lookup(disk', i, n) = lookup(disk, i, n)
           /\ disk'.inode[lookup(disk, i, n)].type = disk.inode[lookup(disk, i, n)].type]_vars

\* "refuses moving a directory into itself" (docs/filesystem.md:184): the root
\* is above every directory.
NoDirInItself ==
  \A i \in Dirs :
    LET up[k \in 0 .. NInodes] ==
          IF k = 0 THEN i ELSE IF up[k - 1] = 0 THEN 0 ELSE lookup(disk, up[k - 1], "..")
    IN up[NInodes] = Root
=============================================================================
