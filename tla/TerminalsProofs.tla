--------------------------- MODULE TerminalsProofs ---------------------------
(***************************************************************************)
(* For any set of terminals, any number of capture slots of any size and   *)
(* however much is written, with tasks that outlive the program that       *)
(* spawned them: a terminal shows foreign output only where a slot was     *)
(* passed on, each writer's in order and in whole characters, and nothing  *)
(* is lost on the way.  The invariant follows every byte from the slot it  *)
(* was printed to through the renderer's hands to the screen.              *)
(***************************************************************************)
EXTENDS Terminals, SequenceTheorems, TLAPS

\* In a sequence of items those of one writer, or given to write!, come in order.
Ordered(s) == \A i, j \in DOMAIN s : i < j /\ s[i].by = s[j].by => s[i].k < s[j].k
Before(s, r) == \A x \in Range(s), y \in Range(r) : x.by = y.by => x.k < y.k

\* The other byte of x, which leads a character, was dropped or torn off (in d).
Cut(x, d) == Byte(x.by, x.k + 1) \in d
Whole(s, d) ==
  \A i \in DOMAIN s : Leads(s[i]) =>
    Cut(s[i], d) \/ (i < Len(s) /\ s[i + 1] = Byte(s[i].by, s[i].k + 1))

LEMMA SeqFacts ==
  ASSUME NEW s \in Seq(Items)
  PROVE  /\ Len(s) \in Nat /\ DOMAIN s = 1 .. Len(s)
         /\ \A i \in 1 .. Len(s) : s[i] \in Items /\ s[i] \in Range(s)
         /\ \A x \in Range(s) : \E i \in 1 .. Len(s) : x = s[i]
         /\ Range(s) \subseteq Items
<1>1. Len(s) \in Nat /\ DOMAIN s = 1 .. Len(s)
  OBVIOUS
<1>2. \A i \in 1 .. Len(s) : s[i] \in Items
  BY ElementOfSeq
<1> QED BY <1>1, <1>2 DEF Range

LEMMA ItemFields ==
  ASSUME NEW t, NEW k
  PROVE  /\ Text(t, k).by = "queue" /\ Text(t, k).k = k
         /\ Byte(t, k).by = t /\ Byte(t, k).k = k
         /\ k \in Nat => Text(t, k) \in Items
         /\ k \in Nat /\ t \in Writers => Byte(t, k) \in Items
BY DEF Text, Byte, Items

LEMMA EmptyFacts ==
  /\ << >> \in Seq(Items) /\ Range(<< >>) = {} /\ Len(<< >>) = 0 /\ Ordered(<< >>)
  /\ \A d : Whole(<< >>, d)
BY DEF Range, Ordered, Whole

LEMMA Appended ==
  ASSUME NEW s \in Seq(Items), NEW x \in Items
  PROVE  /\ Append(s, x) \in Seq(Items) /\ Len(Append(s, x)) = Len(s) + 1
         /\ \A i \in 1 .. Len(s) : Append(s, x)[i] = s[i]
         /\ Append(s, x)[Len(s) + 1] = x
         /\ Range(Append(s, x)) = Range(s) \cup {x}
<1> DEFINE r == Append(s, x)
<1>1. /\ r \in Seq(Items) /\ Len(r) = Len(s) + 1
      /\ \A i \in 1 .. Len(s) : r[i] = s[i]
      /\ r[Len(s) + 1] = x
  BY AppendProperties
<1> HIDE DEF r
<1>2. Len(s) \in Nat
  OBVIOUS
<1>3. Range(r) = Range(s) \cup {x}
  <2>1. ASSUME NEW y \in Range(r) PROVE y \in Range(s) \cup {x}
    <3>1. PICK i \in 1 .. Len(r) : y = r[i]
      BY <1>1, SeqFacts
    <3>2. CASE i \in 1 .. Len(s)
      BY <3>1, <3>2, <1>1, SeqFacts
    <3>3. CASE i = Len(s) + 1
      BY <3>1, <3>3, <1>1
    <3> QED BY <3>2, <3>3, <1>1, <1>2
  <2>2. ASSUME NEW y \in Range(s) PROVE y \in Range(r)
    <3>1. PICK i \in 1 .. Len(s) : y = s[i]
      BY SeqFacts
    <3>2. i \in 1 .. Len(r) /\ y = r[i]
      BY <3>1, <1>1, <1>2
    <3> QED BY <3>2, <1>1, SeqFacts
  <2>3. x \in Range(r)
    <3>1. Len(s) + 1 \in 1 .. Len(r)
      BY <1>1, <1>2
    <3> QED BY <3>1, <1>1, SeqFacts
  <2> QED BY <2>1, <2>2, <2>3
<1> QED BY <1>1, <1>3 DEF r

LEMMA Joined ==
  ASSUME NEW s \in Seq(Items), NEW r \in Seq(Items)
  PROVE  /\ s \o r \in Seq(Items) /\ Len(s \o r) = Len(s) + Len(r)
         /\ \A i \in 1 .. Len(s) : (s \o r)[i] = s[i]
         /\ \A i \in 1 .. Len(r) : (s \o r)[Len(s) + i] = r[i]
         /\ Range(s \o r) = Range(s) \cup Range(r)
<1> DEFINE w == s \o r
<1>1. /\ w \in Seq(Items) /\ Len(w) = Len(s) + Len(r)
      /\ \A i \in 1 .. Len(s) + Len(r) : w[i] = IF i <= Len(s) THEN s[i] ELSE r[i - Len(s)]
  BY ConcatProperties
<1> HIDE DEF w
<1>2. Len(s) \in Nat /\ Len(r) \in Nat
  OBVIOUS
<1>3. \A i \in 1 .. Len(s) : w[i] = s[i]
  BY <1>1, <1>2
<1>4. ASSUME NEW i \in 1 .. Len(r) PROVE w[Len(s) + i] = r[i]
  <2>1. Len(s) + i \in 1 .. Len(s) + Len(r) /\ ~(Len(s) + i <= Len(s)) /\ Len(s) + i - Len(s) = i
    BY <1>2
  <2> QED BY <1>1, <2>1
<1>5. Range(w) = Range(s) \cup Range(r)
  <2>1. ASSUME NEW y \in Range(w) PROVE y \in Range(s) \cup Range(r)
    <3>1. PICK i \in 1 .. Len(w) : y = w[i]
      BY <1>1, SeqFacts
    <3>2. CASE i \in 1 .. Len(s)
      BY <3>1, <3>2, <1>3, SeqFacts
    <3>3. CASE i - Len(s) \in 1 .. Len(r)
      <4>1. i = Len(s) + (i - Len(s))
        BY <1>2
      <4> DEFINE j == i - Len(s)
      <4>2. w[i] = r[j]
        BY <3>3, <4>1, <1>4
      <4> HIDE DEF j
      <4> QED BY <3>1, <4>2, <3>3, SeqFacts DEF j
    <3> QED BY <3>2, <3>3, <1>1, <1>2
  <2>2. ASSUME NEW y \in Range(s) PROVE y \in Range(w)
    <3>1. PICK i \in 1 .. Len(s) : y = s[i]
      BY SeqFacts
    <3>2. i \in 1 .. Len(w) /\ y = w[i]
      BY <3>1, <1>1, <1>2, <1>3
    <3> QED BY <3>2, <1>1, SeqFacts
  <2>3. ASSUME NEW y \in Range(r) PROVE y \in Range(w)
    <3>1. PICK i \in 1 .. Len(r) : y = r[i]
      BY SeqFacts
    <3>2. Len(s) + i \in 1 .. Len(w) /\ y = w[Len(s) + i]
      BY <3>1, <1>1, <1>2, <1>4
    <3> QED BY <3>2, <1>1, SeqFacts
  <2> QED BY <2>1, <2>2, <2>3
<1> QED BY <1>1, <1>3, <1>4, <1>5 DEF w

\* A sequence is cut in two behind its m-th item.
LEMMA CutInTwo ==
  ASSUME NEW s \in Seq(Items), NEW m \in 0 .. Len(s)
  PROVE  LET a == SubSeq(s, 1, m)  b == SubSeq(s, m + 1, Len(s)) IN
         /\ a \in Seq(Items) /\ Len(a) = m /\ \A i \in 1 .. m : a[i] = s[i]
         /\ b \in Seq(Items) /\ Len(b) = Len(s) - m
         /\ \A i \in 1 .. Len(s) - m : b[i] = s[m + i]
         /\ Range(s) = Range(a) \cup Range(b)
<1> DEFINE a == SubSeq(s, 1, m)
           b == SubSeq(s, m + 1, Len(s))
<1>1. Len(s) \in Nat
  OBVIOUS
<1>2. /\ 1 \in 1 .. Len(s) + 1 /\ m \in 0 .. Len(s) /\ m + 1 \in 1 .. Len(s) + 1
      /\ Len(s) \in m + 1 - 1 .. Len(s) /\ m \in 1 - 1 .. Len(s)
  BY <1>1
<1>3. a \in Seq(Items) /\ Len(a) = m /\ \A i \in 1 .. m : a[i] = s[i]
  BY <1>1, <1>2, SubSeqProperties
<1>4. b \in Seq(Items) /\ Len(b) = Len(s) - m /\ \A i \in 1 .. Len(s) - m : b[i] = s[m + i]
  BY <1>1, <1>2, SubSeqProperties
<1> HIDE DEF a, b
<1>5. Range(s) = Range(a) \cup Range(b)
  <2>1. ASSUME NEW y \in Range(s) PROVE y \in Range(a) \cup Range(b)
    <3>1. PICK i \in 1 .. Len(s) : y = s[i]
      BY SeqFacts
    <3>2. CASE i <= m
      <4>1. i \in 1 .. Len(a) /\ y = a[i]
        BY <3>1, <3>2, <1>1, <1>3
      <4> QED BY <4>1, <1>3, SeqFacts
    <3>3. CASE i > m
      <4>1. i - m \in 1 .. Len(b) /\ m + (i - m) = i
        BY <3>1, <3>3, <1>1, <1>4
      <4>2. y = b[i - m]
        BY <3>1, <4>1, <1>4
      <4> QED BY <4>1, <4>2, <1>4, SeqFacts
    <3> QED BY <3>2, <3>3
  <2>2. ASSUME NEW y \in Range(a) PROVE y \in Range(s)
    <3>1. PICK i \in 1 .. m : y = a[i]
      BY <1>3, SeqFacts
    <3>2. i \in 1 .. Len(s) /\ y = s[i]
      BY <3>1, <1>1, <1>3
    <3> QED BY <3>2, SeqFacts
  <2>3. ASSUME NEW y \in Range(b) PROVE y \in Range(s)
    <3>1. PICK i \in 1 .. Len(s) - m : y = b[i]
      BY <1>4, SeqFacts
    <3>2. m + i \in 1 .. Len(s) /\ y = s[m + i]
      BY <3>1, <1>1, <1>4
    <3> QED BY <3>2, SeqFacts
  <2> QED BY <2>1, <2>2, <2>3
<1> QED BY <1>3, <1>4, <1>5 DEF a, b

LEMMA OrderedJoined ==
  ASSUME NEW s \in Seq(Items), NEW r \in Seq(Items), Ordered(s), Ordered(r), Before(s, r)
  PROVE  Ordered(s \o r)
<1> DEFINE w == s \o r
<1>1. /\ w \in Seq(Items) /\ Len(w) = Len(s) + Len(r)
      /\ \A i \in 1 .. Len(s) : w[i] = s[i]
      /\ \A i \in 1 .. Len(r) : w[Len(s) + i] = r[i]
  BY Joined
<1> HIDE DEF w
<1>2. /\ Len(s) \in Nat /\ Len(r) \in Nat /\ DOMAIN w = 1 .. Len(s) + Len(r)
      /\ DOMAIN s = 1 .. Len(s) /\ DOMAIN r = 1 .. Len(r)
  BY <1>1, SeqFacts
<1>3. ASSUME NEW i \in DOMAIN w, NEW j \in DOMAIN w, i < j, w[i].by = w[j].by
      PROVE  w[i].k < w[j].k
  <2>1. CASE j \in 1 .. Len(s)
    <3>1. i \in DOMAIN s /\ j \in DOMAIN s /\ w[i] = s[i] /\ w[j] = s[j]
      BY <1>1, <1>2, <1>3, <2>1
    <3> QED BY <3>1, <1>3 DEF Ordered
  <2>2. CASE i \in 1 .. Len(s) /\ j > Len(s)
    <3> DEFINE n == j - Len(s)
    <3>1. n \in 1 .. Len(r) /\ j = Len(s) + n
      BY <1>2, <2>2
    <3>2. w[j] = r[n]
      BY <1>1, <3>1
    <3> HIDE DEF n
    <3>3. s[i] \in Range(s) /\ r[n] \in Range(r) /\ w[i] = s[i]
      BY <1>1, <2>2, <3>1, SeqFacts
    <3> QED BY <3>2, <3>3, <1>3 DEF Before
  <2>3. CASE i > Len(s) /\ j > Len(s)
    <3> DEFINE n == j - Len(s)
               m == i - Len(s)
    <3>1. n \in 1 .. Len(r) /\ j = Len(s) + n /\ m \in 1 .. Len(r) /\ i = Len(s) + m /\ m < n
      BY <1>2, <1>3, <2>3
    <3>2. w[j] = r[n] /\ w[i] = r[m]
      BY <1>1, <3>1
    <3> HIDE DEF n, m
    <3> QED BY <3>1, <3>2, <1>2, <1>3 DEF Ordered
  <2> QED BY <2>1, <2>2, <2>3, <1>2, <1>3
<1> QED BY <1>3 DEF Ordered, w

LEMMA OrderedAppended ==
  ASSUME NEW s \in Seq(Items), NEW x \in Items, Ordered(s),
         \A y \in Range(s) : y.by = x.by => y.k < x.k
  PROVE  Ordered(Append(s, x))
<1> DEFINE w == Append(s, x)
<1>1. /\ w \in Seq(Items) /\ Len(w) = Len(s) + 1
      /\ \A i \in 1 .. Len(s) : w[i] = s[i]
      /\ w[Len(s) + 1] = x
  BY Appended
<1> HIDE DEF w
<1>2. Len(s) \in Nat /\ DOMAIN w = 1 .. Len(s) + 1 /\ DOMAIN s = 1 .. Len(s)
  BY <1>1, SeqFacts
<1>3. ASSUME NEW i \in DOMAIN w, NEW j \in DOMAIN w, i < j, w[i].by = w[j].by
      PROVE  w[i].k < w[j].k
  <2>1. CASE j \in 1 .. Len(s)
    <3>1. i \in DOMAIN s /\ j \in DOMAIN s /\ w[i] = s[i] /\ w[j] = s[j]
      BY <1>1, <1>2, <1>3, <2>1
    <3> QED BY <3>1, <1>3 DEF Ordered
  <2>2. CASE j = Len(s) + 1
    <3>1. i \in 1 .. Len(s) /\ w[j] = x /\ w[i] = s[i]
      BY <1>1, <1>2, <1>3, <2>2
    <3>2. s[i] \in Range(s)
      BY <3>1, SeqFacts
    <3> QED BY <3>1, <3>2, <1>3
  <2> QED BY <2>1, <2>2, <1>2
<1> QED BY <1>3 DEF Ordered, w

LEMMA OrderedCut ==
  ASSUME NEW s \in Seq(Items), NEW m \in 0 .. Len(s), Ordered(s)
  PROVE  LET a == SubSeq(s, 1, m)  b == SubSeq(s, m + 1, Len(s))
         IN  Ordered(a) /\ Ordered(b) /\ Before(a, b)
<1> DEFINE a == SubSeq(s, 1, m)
           b == SubSeq(s, m + 1, Len(s))
<1>1. /\ a \in Seq(Items) /\ Len(a) = m /\ \A i \in 1 .. m : a[i] = s[i]
      /\ b \in Seq(Items) /\ Len(b) = Len(s) - m
      /\ \A i \in 1 .. Len(s) - m : b[i] = s[m + i]
  BY CutInTwo
<1> HIDE DEF a, b
<1>2. /\ Len(s) \in Nat /\ m \in Nat /\ DOMAIN s = 1 .. Len(s) /\ DOMAIN a = 1 .. m
      /\ DOMAIN b = 1 .. Len(s) - m
  BY <1>1, SeqFacts
<1>3. ASSUME NEW i \in DOMAIN a, NEW j \in DOMAIN a, i < j, a[i].by = a[j].by
      PROVE  a[i].k < a[j].k
  <2>1. i \in DOMAIN s /\ j \in DOMAIN s /\ a[i] = s[i] /\ a[j] = s[j]
    BY <1>1, <1>2
  <2> QED BY <2>1, <1>3 DEF Ordered
<1>4. ASSUME NEW i \in DOMAIN b, NEW j \in DOMAIN b, i < j, b[i].by = b[j].by
      PROVE  b[i].k < b[j].k
  <2>1. m + i \in DOMAIN s /\ m + j \in DOMAIN s /\ b[i] = s[m + i] /\ b[j] = s[m + j] /\ m + i < m + j
    BY <1>1, <1>2, <1>4
  <2> QED BY <2>1, <1>4 DEF Ordered
<1>5. ASSUME NEW x \in Range(a), NEW y \in Range(b), x.by = y.by PROVE x.k < y.k
  <2>1. PICK i \in 1 .. m : x = a[i]
    BY <1>1, SeqFacts
  <2>2. PICK j \in 1 .. Len(s) - m : y = b[j]
    BY <1>1, SeqFacts
  <2>3. i \in DOMAIN s /\ m + j \in DOMAIN s /\ x = s[i] /\ y = s[m + j] /\ i < m + j
    BY <1>1, <1>2, <2>1, <2>2
  <2> QED BY <2>3, <1>5 DEF Ordered
<1> QED BY <1>3, <1>4, <1>5 DEF Ordered, Before, a, b

LEMMA WholeJoined ==
  ASSUME NEW s \in Seq(Items), NEW r \in Seq(Items), NEW d, Whole(s, d), Whole(r, d)
  PROVE  Whole(s \o r, d)
<1> DEFINE w == s \o r
<1>1. /\ w \in Seq(Items) /\ Len(w) = Len(s) + Len(r)
      /\ \A i \in 1 .. Len(s) : w[i] = s[i]
      /\ \A i \in 1 .. Len(r) : w[Len(s) + i] = r[i]
  BY Joined
<1> HIDE DEF w
<1>2. /\ Len(s) \in Nat /\ Len(r) \in Nat /\ DOMAIN w = 1 .. Len(s) + Len(r)
      /\ DOMAIN s = 1 .. Len(s) /\ DOMAIN r = 1 .. Len(r) /\ Len(w) = Len(s) + Len(r)
  BY <1>1, SeqFacts
<1>3. ASSUME NEW i \in DOMAIN w, Leads(w[i])
      PROVE  Cut(w[i], d) \/ (i < Len(w) /\ w[i + 1] = Byte(w[i].by, w[i].k + 1))
  <2>1. CASE i \in 1 .. Len(s)
    <3>1. w[i] = s[i] /\ i \in DOMAIN s
      BY <1>1, <1>2, <2>1
    <3>2. Cut(s[i], d) \/ (i < Len(s) /\ s[i + 1] = Byte(s[i].by, s[i].k + 1))
      BY <3>1, <1>3 DEF Whole
    <3>3. i < Len(s) => i + 1 \in 1 .. Len(s) /\ i < Len(w) /\ w[i + 1] = s[i + 1]
      BY <1>1, <1>2, <2>1
    <3> QED BY <3>1, <3>2, <3>3
  <2>2. CASE i > Len(s)
    <3> DEFINE n == i - Len(s)
    <3>1. n \in 1 .. Len(r) /\ i = Len(s) + n
      BY <1>2, <2>2
    <3> HIDE DEF n
    <3>2. w[i] = r[n]
      BY <1>1, <3>1
    <3>3. Cut(r[n], d) \/ (n < Len(r) /\ r[n + 1] = Byte(r[n].by, r[n].k + 1))
      BY <3>1, <3>2, <1>2, <1>3 DEF Whole
    <3>4. n < Len(r) => n + 1 \in 1 .. Len(r) /\ i + 1 = Len(s) + (n + 1) /\ i < Len(w)
      BY <1>2, <3>1
    <3>5. n < Len(r) => w[i + 1] = r[n + 1]
      BY <1>1, <3>4
    <3> QED BY <3>2, <3>3, <3>4, <3>5
  <2> QED BY <2>1, <2>2, <1>2
<1> QED BY <1>3 DEF Whole, w

\* What was lost stays lost.
LEMMA WholeMore ==
  ASSUME NEW s, NEW d, NEW e, Whole(s, d), d \subseteq e
  PROVE  Whole(s, e)
BY DEF Whole, Cut

-----------------------------------------------------------------------------
\* The inductive invariant

Renderers == [pc : {"none", "idle", "taking", "drawing", "failed", "gone"},
              q : Seq(Items), left : Seq(Slot), outs : Seq(Items)]
Pcs == {"none", "start", "attach", "loop", "form", "release", "gone"}
Programs == [pc : Pcs, slot : Slot \cup {NoSlot}, doomed : BOOLEAN]
Types ==
  /\ captures \in [Slot -> [used : BOOLEAN, buf : Seq(Items)]]
  /\ queue \in [Terms -> Seq(Items)] /\ slots \in [Terms -> Seq(Slot)]
  /\ closing \in [Terms -> BOOLEAN]
  /\ renderer \in [Terms -> Renderers] /\ program \in [Terms -> Programs]
  /\ written \in [Terms -> Nat] /\ drawn \in [Terms -> Seq(Items)] 
  /\ said \in [Writers -> Nat] /\ spawned \subseteq Tasks
  /\ dropped \subseteq Items /\ torn \subseteq Items

Lost == dropped \cup torn

Early(t) == program[t].pc \in {"none", "start", "attach"}
Prints(t) == program[t].pc \in {"loop", "form", "release"}
Holds(t) == Prints(t) \/ program[t].pc = "attach"

\* A program has its slot to itself, and a terminal drains no other.  Nothing is
\* printed before the slot is attached.
Held ==
  /\ \A t \in Terms : Holds(t) => program[t].slot \in Slot /\ captures[program[t].slot].used
  /\ \A t, u \in Terms : Holds(t) /\ Holds(u) /\ program[t].slot = program[u].slot => t = u
  /\ \A w \in spawned : program[Home(w)].slot \in Slot

Silent(t) == \A w \in Writers : Home(w) = t => said[w] = 0 /\ w \notin spawned
Drains(t) ==
  /\ \A i \in Range(renderer[t].left) : i \in Range(slots[t])
  /\ Early(t) => Range(slots[t]) = {} /\ Silent(t)
  /\ \A i \in Range(slots[t]) : i = program[t].slot

\* A program and its interrupts come after its renderer.
Started(t) == renderer[t].pc = "none" => program[t].pc = "none" /\ ~program[t].doomed

\* What a slot holds was printed to a stream that has it, in order, and by the
\* program only that still has it; of a character cut in two the rest comes next.
InSlot(i) ==
  LET buf == captures[i].buf IN
  /\ \A x \in Range(buf) :
       /\ x.by \in Writers /\ program[Home(x.by)].slot = i /\ x.k <= said[x.by]
       /\ ~Early(Home(x.by)) /\ (x.by \in Terms => Prints(x.by))
       /\ captures[i].used
  /\ Ordered(buf)
  /\ \A j \in 1 .. Len(buf) : Leads(buf[j]) =>
       \/ Cut(buf[j], Lost)
       \/ j < Len(buf) /\ buf[j + 1] = Byte(buf[j].by, buf[j].k + 1)
       \/ j = Len(buf) /\ said[buf[j].by] = buf[j].k

\* What is on its way to t was printed, to its own stream or one whose slot was
\* passed on, before all that waits in a slot.
Shown(t) == Range(drawn[t]) \cup Range(renderer[t].outs)
Own(t, x) == Home(x.by) = t \/ (PassedOn(t, Home(x.by)) /\ (x.by \in Terms => Gone(t)))
OnTheWay(t) ==
  /\ \A x \in Range(renderer[t].outs) : x.by \in Writers
  /\ \A x \in Shown(t) : x.by \in Writers =>
       /\ x.k <= said[x.by] /\ ~Early(t) /\ ~Early(Home(x.by)) /\ Own(t, x)
       /\ \A i \in Slot : \A y \in Range(captures[i].buf) : y.by = x.by => x.k < y.k
  /\ Ordered(drawn[t]) /\ Ordered(renderer[t].outs) /\ Before(drawn[t], renderer[t].outs)
  /\ Whole(drawn[t], Lost) /\ Whole(renderer[t].outs, Lost)

\* The texts given to write! before those that are in the queue; and how many of
\* them are drawn
Removed(t) == written[t] - Len(queue[t])
DrawnTexts(t) == IF renderer[t].pc = "taking" THEN Removed(t) ELSE Removed(t) - Len(renderer[t].q)
Queued(t) ==
  /\ DrawnTexts(t) \in Nat
  /\ renderer[t].pc = "taking" => Len(renderer[t].q) <= Len(queue[t])
  /\ renderer[t].pc \in {"none", "idle", "gone"} =>
       renderer[t].q = << >> /\ renderer[t].left = << >> /\ renderer[t].outs = << >>
  /\ renderer[t].pc \in {"drawing", "failed"} => renderer[t].left = << >>
  /\ \A j \in 1 .. Len(queue[t]) : queue[t][j] = Text(t, Removed(t) + j)
  /\ \A j \in 1 .. Len(renderer[t].q) : renderer[t].q[j] = Text(t, DrawnTexts(t) + j)
  /\ \A x \in Range(drawn[t]) : x.by = "queue" => x.k <= DrawnTexts(t)
  /\ \A k \in 1 .. DrawnTexts(t) : Text(t, k) \in Range(drawn[t])

\* No byte is lost.
Kept(w) ==
  \A k \in 1 .. said[w] :
    \/ Byte(w, k) \in dropped
    \/ program[Home(w)].slot \in Slot /\ Byte(w, k) \in Range(captures[program[Home(w)].slot].buf)
    \/ \E u \in Terms : Byte(w, k) \in Shown(u)

IInv ==
  /\ Types /\ Held
  /\ \A t \in Terms : Started(t) /\ Drains(t) /\ OnTheWay(t) /\ Queued(t)
  /\ \A w \in Writers : Kept(w)
  /\ \A i \in Slot : InSlot(i)

LEMMA HomeFacts ==
  /\ \A w \in Writers : Home(w) \in Terms
  /\ \A t \in Terms : t \in Writers /\ Home(t) = t
  /\ "queue" \notin Writers
BY TerminalsAssumption DEF Home, Writers

\* The types of one terminal's, and one slot's, part of the state
LEMMA TypesOf ==
  ASSUME Types, NEW t \in Terms
  PROVE  /\ queue[t] \in Seq(Items) /\ drawn[t] \in Seq(Items) /\ renderer[t].q \in Seq(Items)
         /\ renderer[t].outs \in Seq(Items) /\ renderer[t].left \in Seq(Slot)
         /\ slots[t] \in Seq(Slot) /\ written[t] \in Nat
         /\ Len(queue[t]) \in Nat /\ Len(renderer[t].q) \in Nat
<1>1. /\ queue[t] \in Seq(Items) /\ drawn[t] \in Seq(Items) /\ renderer[t].q \in Seq(Items)
      /\ renderer[t].outs \in Seq(Items) /\ renderer[t].left \in Seq(Slot)
      /\ slots[t] \in Seq(Slot) /\ written[t] \in Nat
  BY DEF Types, Renderers, Programs
<1> QED BY <1>1, SeqFacts

\* The texts in a renderer's hands
LEMMA QueueTexts ==
  ASSUME Types, NEW t \in Terms, Queued(t)
  PROVE  /\ \A x \in Range(renderer[t].q) : x.by = "queue" /\ x.k > DrawnTexts(t)
         /\ Ordered(renderer[t].q) /\ \A d : Whole(renderer[t].q, d)
<1> DEFINE q == renderer[t].q
           n == DrawnTexts(t)
<1>1. /\ q \in Seq(Items) /\ Len(q) \in Nat /\ DOMAIN q = 1 .. Len(q) /\ n \in Nat
      /\ \A x \in Range(q) : \E i \in 1 .. Len(q) : x = q[i]
  BY TypesOf, SeqFacts DEF Queued
<1>2. \A j \in 1 .. Len(q) : q[j] = Text(t, n + j)
  BY DEF Queued
<1> HIDE DEF q, n
<1>3. \A j \in 1 .. Len(q) : q[j].by = "queue" /\ q[j].k = n + j
  <2> TAKE j \in 1 .. Len(q)
  <2>1. q[j] = Text(t, n + j)
    BY <1>2
  <2> QED BY <2>1, ItemFields
<1>4. \A x \in Range(q) : x.by = "queue" /\ x.k > n
  BY <1>1, <1>3
<1>5. Ordered(q)
  BY <1>1, <1>3 DEF Ordered
<1>6. \A d : Whole(q, d)
  BY <1>1, <1>3 DEF Whole, Leads
<1> QED BY <1>4, <1>5, <1>6 DEF q, n

LEMMA FedIs ==
  ASSUME Types, NEW t \in Terms
  PROVE  /\ Fed(t) \in Seq(Items) /\ DOMAIN Fed(t) = 1 .. Len(Fed(t))
         /\ Range(Fed(t)) = Shown(t) \cup Range(renderer[t].q)
         /\ \A i \in DOMAIN Fed(t) : Fed(t)[i] \in Range(Fed(t))
<1>1. PICK w : w = drawn[t] \o renderer[t].outs
  OBVIOUS
<1>2. w \in Seq(Items) /\ Range(w) = Shown(t)
  BY <1>1, TypesOf, Joined DEF Shown
<1>3. Fed(t) = w \o renderer[t].q
  BY Zenon, <1>1 DEF Fed
<1>4. Fed(t) \in Seq(Items) /\ Range(Fed(t)) = Shown(t) \cup Range(renderer[t].q)
  BY <1>2, <1>3, TypesOf, Joined
<1> QED BY <1>4, SeqFacts

LEMMA FedOrdered ==
  ASSUME Types, NEW t \in Terms, OnTheWay(t), Queued(t)
  PROVE  Ordered(Fed(t))
<1>1. PICK w : w = drawn[t] \o renderer[t].outs
  OBVIOUS
<1>2. w \in Seq(Items) /\ Range(w) = Shown(t)
  BY <1>1, TypesOf, Joined DEF Shown
<1>3. Ordered(w)
  BY <1>1, TypesOf, OrderedJoined DEF OnTheWay
<1>4. Fed(t) = w \o renderer[t].q
  BY Zenon, <1>1 DEF Fed
<1>5. ASSUME NEW x \in Range(w), NEW y \in Range(renderer[t].q), x.by = y.by PROVE x.k < y.k
  <2>1. y.by = "queue" /\ y.k > DrawnTexts(t) /\ y \in Items
    BY QueueTexts, TypesOf, SeqFacts
  <2>2. x \in Range(drawn[t]) /\ x \in Items
    <3>1. x \notin Range(renderer[t].outs)
      BY <2>1, <1>5, HomeFacts DEF OnTheWay
    <3> QED BY <3>1, <1>2, SeqFacts DEF Shown
  <2>3. x.k <= DrawnTexts(t) /\ DrawnTexts(t) \in Nat
    BY <2>1, <2>2, <1>5 DEF Queued
  <2> QED BY <2>1, <2>2, <2>3 DEF Items
<1>6. Before(w, renderer[t].q)
  BY <1>5 DEF Before
<1> QED BY <1>2, <1>3, <1>4, <1>6, TypesOf, QueueTexts, OrderedJoined

LEMMA GivesOwnOutput == IInv => OwnOutput
<1> SUFFICES ASSUME IInv, NEW t \in Terms, NEW i \in DOMAIN Fed(t)
             PROVE  Fed(t)[i].by = "queue" \/ Own(t, Fed(t)[i])
  BY DEF OwnOutput, Own
<1>1. Fed(t)[i] \in Shown(t) \cup Range(renderer[t].q) /\ Fed(t)[i] \in Items
  BY FedIs, SeqFacts DEF IInv
<1>2. \A x \in Shown(t) : x.by \in Writers => Own(t, x)
  BY DEF IInv, OnTheWay
<1> QED BY <1>1, <1>2, QueueTexts DEF IInv, Items

LEMMA GivesFedInOrder == IInv => FedInOrder
<1> SUFFICES ASSUME IInv, NEW t \in Terms
             PROVE  /\ Ordered(Fed(t))
                    /\ \A i \in DOMAIN drawn[t] :
                         LET b == drawn[t][i] IN
                         Leads(b) =>
                           \/ Byte(b.by, b.k + 1) \in dropped \cup torn
                           \/ i < Len(drawn[t]) /\ drawn[t][i + 1] = Byte(b.by, b.k + 1)
  BY Zenon DEF FedInOrder, Ordered
<1>1. Ordered(Fed(t))
  BY FedOrdered DEF IInv
<1>2. Whole(drawn[t], Lost)
  BY DEF IInv, OnTheWay
<1> QED BY <1>1, <1>2 DEF Whole, Cut, Lost

LEMMA GivesAccounted == IInv => Accounted
<1> SUFFICES ASSUME IInv PROVE Accounted
  OBVIOUS
<1>1. ASSUME NEW t \in Writers, NEW k \in 1 .. said[t]
      PROVE  \/ Byte(t, k) \in dropped
             \/ Byte(t, k) \in Range(captures[program[Home(t)].slot].buf)
             \/ \E u \in Terms : Byte(t, k) \in Range(Fed(u))
  <2>1. CASE \E u \in Terms : Byte(t, k) \in Shown(u)
    BY <2>1, FedIs DEF IInv
  <2>2. CASE ~\E u \in Terms : Byte(t, k) \in Shown(u)
    BY <2>2 DEF IInv, Kept
  <2> QED BY <2>1, <2>2
<1>2. ASSUME NEW t \in Terms, NEW k \in 1 .. written[t]
      PROVE  Text(t, k) \in Range(queue[t] \o Fed(t))
  <2>1. Range(queue[t] \o Fed(t)) = Range(queue[t]) \cup Shown(t) \cup Range(renderer[t].q)
    <3>1. queue[t] \in Seq(Items) /\ Fed(t) \in Seq(Items)
      BY TypesOf, FedIs DEF IInv
    <3>2. Range(queue[t] \o Fed(t)) = Range(queue[t]) \cup Range(Fed(t))
      BY <3>1, Joined
    <3> QED BY <3>2, FedIs DEF IInv
  <2>2. /\ Len(queue[t]) \in Nat /\ Len(renderer[t].q) \in Nat /\ written[t] \in Nat
        /\ DrawnTexts(t) \in Nat /\ k \in Nat
    BY TypesOf DEF IInv, Queued
  <2>3. CASE k <= DrawnTexts(t)
    BY <2>1, <2>2, <2>3 DEF IInv, Queued, Shown
  <2>4. CASE k > Removed(t)
    <3> DEFINE j == k - Removed(t)
    <3>1. j \in 1 .. Len(queue[t]) /\ Removed(t) + j = k
      BY <2>2, <2>4 DEF Removed
    <3>2. queue[t][j] = Text(t, k)
      BY <3>1 DEF IInv, Queued
    <3> HIDE DEF j
    <3>3. queue[t][j] \in Range(queue[t])
      BY <3>1, TypesOf, SeqFacts DEF IInv
    <3> QED BY <2>1, <3>2, <3>3
  <2>5. CASE k > DrawnTexts(t) /\ k <= Removed(t)
    <3> DEFINE j == k - DrawnTexts(t)
    <3>0. DrawnTexts(t) = Removed(t) - Len(renderer[t].q) /\ Removed(t) \in Int
      <4>1. Removed(t) \in Int
        BY <2>2 DEF Removed
      <4>2. DrawnTexts(t) # Removed(t)
        BY <2>2, <2>5, <4>1
      <4> QED BY <4>1, <4>2 DEF DrawnTexts
    <3>1. j \in 1 .. Len(renderer[t].q) /\ DrawnTexts(t) + j = k
      <4> DEFINE d == DrawnTexts(t)
                 r == Removed(t)
                 l == Len(renderer[t].q)
      <4>1. d \in Nat /\ l \in Nat /\ k \in Nat /\ r \in Int /\ d = r - l /\ k > d /\ k <= r
        BY <2>2, <2>5, <3>0, Zenon
      <4> HIDE DEF d, r, l
      <4>2. k - d \in 1 .. l /\ d + (k - d) = k
        BY <4>1
      <4> QED BY <4>2 DEF d, l
    <3>2. renderer[t].q[j] = Text(t, k)
      BY <3>1 DEF IInv, Queued
    <3> HIDE DEF j
    <3>3. renderer[t].q[j] \in Range(renderer[t].q)
      BY <3>1, TypesOf, SeqFacts DEF IInv
    <3> QED BY <2>1, <3>2, <3>3
  <2> QED BY <2>2, <2>3, <2>4, <2>5 DEF Removed
<1> QED BY <1>1, <1>2 DEF Accounted

-----------------------------------------------------------------------------
\* The steps

\* A program goes to another place in its code.
LEMMA GoesTo ==
  ASSUME Types, NEW t \in Terms, NEW x \in Pcs
  PROVE  /\ [program EXCEPT ![t].pc = x] \in [Terms -> Programs]
         /\ [program EXCEPT ![t].doomed = FALSE, ![t].pc = x] \in [Terms -> Programs]
<1>1. program \in [Terms -> Programs] /\ program[t] \in Programs
  BY DEF Types
<1>2. /\ [program[t] EXCEPT !.pc = x] \in Programs
      /\ [[program[t] EXCEPT !.doomed = FALSE] EXCEPT !.pc = x] \in Programs
  BY <1>1 DEF Programs
<1>3. [program EXCEPT ![t].doomed = FALSE, ![t].pc = x]
        = [program EXCEPT ![t] = [[program[t] EXCEPT !.doomed = FALSE] EXCEPT !.pc = x]]
  BY <1>1
<1> QED BY <1>1, <1>2, <1>3

LEMMA IsDoomed ==
  ASSUME Types, NEW t \in Terms
  PROVE  [program EXCEPT ![t].doomed = TRUE] \in [Terms -> Programs]
<1>1. program \in [Terms -> Programs] /\ program[t] \in Programs
  BY DEF Types
<1>2. [program[t] EXCEPT !.doomed = TRUE] \in Programs
  BY <1>1 DEF Programs
<1> QED BY <1>1, <1>2

\* How a step may move the programs that it gives no slot
Moves ==
  \A u \in Terms :
    /\ program'[u].slot = program[u].slot
    /\ Holds(u)' => Holds(u)
    /\ Prints(u)' <=> Prints(u)
    /\ Early(u)' => Early(u)
    /\ Gone(u) => Gone(u)'

\* Steps of control: nothing is moved between queue, slots and screen.
LEMMA ControlStep ==
  ASSUME IInv, Types', Moves,
         UNCHANGED <<captures, queue, slots, written, drawn, dropped, said, torn>>,
         \A w \in spawned' : w \in spawned \/ Prints(Home(w)),
         \A u \in Terms : Started(u)',
         \A u \in Terms :
           /\ renderer'[u].q = renderer[u].q /\ renderer'[u].left = renderer[u].left
           /\ renderer'[u].outs = renderer[u].outs
           /\ \/ renderer'[u].pc = renderer[u].pc
              \/ renderer[u].pc = "none" /\ renderer'[u].pc = "idle"
              \/ renderer[u].pc = "drawing" /\ renderer'[u].pc = "failed"
  PROVE  IInv'
<1>0. \A w \in spawned' : w \in Writers /\ Home(w) \in Terms
  BY HomeFacts DEF Types, Writers
<1>1. Held'
  <2>1. \A w \in spawned' : program'[Home(w)].slot \in Slot
    BY <1>0 DEF IInv, Held, Holds, Moves
  <2> QED BY <2>1 DEF IInv, Held, Moves
<1>2. ASSUME NEW u \in Terms PROVE Drains(u)'
  <2>1. Drains(u) /\ (Early(u)' => Early(u) /\ ~Prints(u))
    BY DEF IInv, Moves, Early, Prints
  <2>2. Early(u)' => Silent(u)'
    BY <2>1 DEF Drains, Silent
  <2> QED BY <2>1, <2>2 DEF Drains, Moves
<1>3. ASSUME NEW u \in Terms PROVE Shown(u)' = Shown(u)
  BY DEF Shown
<1>4. ASSUME NEW u \in Terms PROVE OnTheWay(u)'
  <2>1. OnTheWay(u)
    BY DEF IInv
  <2>2. ASSUME NEW x \in Shown(u), x.by \in Writers
        PROVE  ~Early(u)' /\ ~Early(Home(x.by))' /\ Own(u, x)'
    <3>1. Home(x.by) \in Terms
      BY <2>2, HomeFacts
    <3>2. ~Early(u) /\ ~Early(Home(x.by)) /\ Own(u, x)
      BY <2>1, <2>2 DEF OnTheWay
    <3> QED BY <3>1, <3>2 DEF Moves, Own, PassedOn
  <2> QED BY <2>1, <2>2, <1>3 DEF OnTheWay, Lost
<1>5. ASSUME NEW u \in Terms PROVE Queued(u)'
  <2>1. Queued(u) /\ DrawnTexts(u)' = DrawnTexts(u) /\ Removed(u)' = Removed(u)
    BY DEF IInv, DrawnTexts, Removed
  <2> QED BY <2>1 DEF Queued
<1>6. ASSUME NEW w \in Writers PROVE Kept(w)'
  <2>1. Kept(w) /\ program'[Home(w)].slot = program[Home(w)].slot
    BY HomeFacts DEF IInv, Moves
  <2> QED BY <2>1, <1>3 DEF Kept
<1>7. ASSUME NEW i \in Slot PROVE InSlot(i)'
  <2>1. InSlot(i)
    BY DEF IInv
  <2>2. ASSUME NEW x \in Range(captures[i].buf)
        PROVE  /\ program'[Home(x.by)].slot = i /\ ~Early(Home(x.by))'
               /\ x.by \in Terms => Prints(x.by)'
    BY <2>1, HomeFacts DEF InSlot, Moves
  <2> QED BY <2>1, <2>2 DEF InSlot, Lost
<1> QED BY <1>1, <1>2, <1>4, <1>5, <1>6, <1>7 DEF IInv

LEMMA StartStep ==
  ASSUME IInv, NEW t \in Terms, start(t)
  PROVE  IInv'
<1>1. /\ UNCHANGED <<captures, queue, slots, closing, written, drawn, dropped, said, torn, spawned>>
      /\ renderer' = [renderer EXCEPT ![t].pc = "idle"]
      /\ program' = [program EXCEPT ![t].pc = "start"]
      /\ renderer[t].pc = "none"
  BY DEF start, in, history
<1>2. program[t].pc = "none"
  BY <1>1 DEF IInv, Started
<1>3. Types'
  <2>1. program' \in [Terms -> Programs]
    BY <1>1, GoesTo DEF IInv, Pcs
  <2>2. renderer' \in [Terms -> Renderers]
    BY <1>1 DEF IInv, Types, Renderers
  <2> QED BY <1>1, <2>1, <2>2 DEF IInv, Types
<1>4. Moves
  BY <1>1, <1>2 DEF Moves, Holds, Prints, Early, Gone, IInv, Types, Programs
<1>5. \A u \in Terms :
           /\ renderer'[u].q = renderer[u].q /\ renderer'[u].left = renderer[u].left
           /\ renderer'[u].outs = renderer[u].outs
           /\ \/ renderer'[u].pc = renderer[u].pc
              \/ renderer[u].pc = "none" /\ renderer'[u].pc = "idle"
  BY <1>1 DEF IInv, Types, Renderers
<1>6. \A u \in Terms : Started(u)'
  BY <1>1 DEF IInv, Types, Started, Programs, Renderers
<1> QED BY <1>1, <1>3, <1>4, <1>5, <1>6, ControlStep

LEMMA ReplStep ==
  ASSUME IInv, NEW t \in Terms, repl(t)
  PROVE  IInv'
<1>1. /\ UNCHANGED <<captures, queue, slots, closing, renderer, written, drawn, dropped, said, torn, spawned>>
      /\ program[t].pc \in {"loop", "form"}
  BY DEF repl, in, At, history
<1>0. PICK x \in {"loop", "form", "release"} : program' = [program EXCEPT ![t].pc = x]
  BY DEF repl, Goto
<1>2. Types'
  <2>1. program' \in [Terms -> Programs]
    BY <1>0, GoesTo DEF IInv, Pcs
  <2> QED BY <1>1, <2>1 DEF IInv, Types
<1>3. Moves
  BY <1>0, <1>1 DEF Moves, Holds, Prints, Early, Gone, IInv, Types, Programs
<1>4. \A u \in Terms : Started(u)'
  BY <1>0, <1>1 DEF IInv, Types, Started, Programs, Renderers
<1> QED BY <1>1, <1>2, <1>3, <1>4, ControlStep

LEMMA InterruptKeyStep ==
  ASSUME IInv, NEW t \in Terms, interrupt_key(t)
  PROVE  IInv'
<1>1. /\ UNCHANGED <<captures, queue, slots, closing, renderer, written, drawn, dropped, said, torn, spawned>>
      /\ program' = [program EXCEPT ![t].doomed = TRUE]
      /\ program[t].pc \in {"loop", "form"}
  BY DEF interrupt_key, in, history
<1>2. Types'
  <2>1. program' \in [Terms -> Programs]
    BY <1>1, IsDoomed DEF IInv
  <2> QED BY <1>1, <2>1 DEF IInv, Types
<1>3. Moves
  BY <1>1 DEF Moves, Holds, Prints, Early, Gone, IInv, Types, Programs
<1>4. \A u \in Terms : Started(u)'
  BY <1>1 DEF IInv, Types, Started, Programs, Renderers
<1> QED BY <1>1, <1>2, <1>3, <1>4, ControlStep

LEMMA CloseStep ==
  ASSUME IInv, NEW t \in Terms, close(t)
  PROVE  IInv'
<1>1. /\ UNCHANGED <<captures, queue, slots, renderer, written, drawn, dropped, said, torn, spawned>>
      /\ closing' = [closing EXCEPT ![t] = TRUE]
      /\ program' = [program EXCEPT ![t].doomed = TRUE]
      /\ renderer[t].pc # "none"
  BY DEF close, history
<1>2. Types'
  <2>1. program' \in [Terms -> Programs]
    BY <1>1, IsDoomed DEF IInv
  <2>2. closing' \in [Terms -> BOOLEAN]
    BY Zenon, <1>1 DEF IInv, Types
  <2> QED BY <1>1, <2>1, <2>2 DEF IInv, Types
<1>3. Moves
  BY <1>1 DEF Moves, Holds, Prints, Early, Gone, IInv, Types, Programs
<1>4. \A u \in Terms : Started(u)'
  BY <1>1 DEF IInv, Types, Started, Programs, Renderers
<1> QED BY <1>1, <1>2, <1>3, <1>4, ControlStep

LEMMA UnwindStep ==
  ASSUME IInv, NEW t \in Terms, Unwind(t)
  PROVE  IInv'
<1> DEFINE p == program[t].pc
           q == CASE p = "form" -> "loop" [] p = "loop" -> "release" [] OTHER -> "gone"
<1>1. /\ UNCHANGED <<captures, queue, slots, closing, renderer, written, drawn, dropped, said, torn, spawned>>
      /\ program' = [program EXCEPT ![t].doomed = FALSE, ![t].pc = q]
      /\ program[t].doomed /\ p # "release"
  BY DEF Unwind, in, history
<1>2. q \in {"loop", "release", "gone"}
  OBVIOUS
<1>3. /\ p = "form" => q = "loop"
      /\ p = "loop" => q = "release"
      /\ p \notin {"form", "loop"} => q = "gone"
  OBVIOUS
<1> HIDE DEF q
<1>4. /\ program'[t].pc = q /\ program'[t].slot = program[t].slot
      /\ \A u \in Terms : u # t => program'[u] = program[u]
  BY <1>1 DEF IInv, Types
<1>5. Types'
  <2>1. program' \in [Terms -> Programs]
    BY <1>1, <1>2, GoesTo DEF IInv, Pcs
  <2> QED BY <1>1, <2>1 DEF IInv, Types
<1>6. Moves
  BY <1>1, <1>3, <1>4 DEF Moves, Holds, Prints, Early, Gone, IInv, Types, Programs
<1>7. \A u \in Terms : Started(u)'
  BY <1>1, <1>4 DEF IInv, Types, Started, Programs, Renderers
<1> QED BY <1>1, <1>5, <1>6, <1>7, ControlStep

LEMMA SpawnStep ==
  ASSUME IInv, NEW w \in Tasks, spawn(w)
  PROVE  IInv'
<1>1. /\ UNCHANGED <<captures, queue, slots, closing, renderer, program, written, drawn, dropped, said, torn>>
      /\ program[ParentOf[w]].pc = "form" /\ spawned' = spawned \cup {w}
  BY DEF spawn, in, history, At
<1>2. Types'
  BY <1>1 DEF IInv, Types
<1>3. Prints(Home(w))
  BY <1>1 DEF Home, Prints
<1>4. Moves /\ \A u \in Terms : Started(u)'
  BY <1>1 DEF Moves, Holds, Prints, Early, Gone, IInv, Started
<1> QED BY <1>1, <1>2, <1>3, <1>4, ControlStep

LEMMA ThrowStep ==
  ASSUME IInv, NEW t \in Terms, Throw(t)
  PROVE  IInv'
<1>1. /\ UNCHANGED <<captures, queue, slots, closing, program, spawned, written, drawn, dropped, said, torn>>
      /\ renderer[t].pc = "drawing" /\ renderer' = [renderer EXCEPT ![t].pc = "failed"]
  BY DEF Throw, in, history
<1>2. Types'
  <2>1. renderer' \in [Terms -> Renderers]
    BY <1>1 DEF IInv, Types, Renderers
  <2> QED BY <1>1, <2>1 DEF IInv, Types
<1>3. \A u \in Terms :
           /\ renderer'[u].q = renderer[u].q /\ renderer'[u].left = renderer[u].left
           /\ renderer'[u].outs = renderer[u].outs
           /\ \/ renderer'[u].pc = renderer[u].pc
              \/ renderer[u].pc = "drawing" /\ renderer'[u].pc = "failed"
  BY <1>1 DEF IInv, Types, Renderers
<1>4. Moves /\ \A u \in Terms : Started(u)'
  BY <1>1, <1>3 DEF Moves, Holds, Prints, Early, Gone, IInv, Started
<1> QED BY <1>1, <1>2, <1>3, <1>4, ControlStep

\* Steps that move texts between the queue and the renderer, and no byte
LEMMA QueueStep ==
  ASSUME IInv, Types', UNCHANGED <<captures, program, slots, drawn, dropped, said, torn, spawned>>,
         \A u \in Terms :
           /\ renderer'[u].outs = renderer[u].outs
           /\ Range(renderer'[u].left) \subseteq Range(slots[u])
           /\ renderer'[u].pc = "none" => renderer[u].pc = "none"
           /\ Queued(u)'
  PROVE  IInv'
<1>1. Held'
  BY DEF IInv, Held, Holds, Prints
<1>2. ASSUME NEW u \in Terms PROVE Drains(u)' /\ Started(u)'
  BY DEF IInv, Drains, Early, Silent, Started
<1>3. ASSUME NEW u \in Terms PROVE Shown(u)' = Shown(u)
  BY DEF Shown
<1>4. ASSUME NEW u \in Terms PROVE OnTheWay(u)'
  <2>1. OnTheWay(u)
    BY DEF IInv
  <2> QED BY <2>1, <1>3 DEF OnTheWay, Lost, Early, Own, PassedOn, Gone
<1>5. ASSUME NEW u \in Writers PROVE Kept(u)'
  <2>1. Kept(u)
    BY DEF IInv
  <2> QED BY <2>1, <1>3 DEF Kept
<1>6. ASSUME NEW i \in Slot PROVE InSlot(i)'
  <2>1. InSlot(i)
    BY DEF IInv
  <2> QED BY <2>1 DEF InSlot, Prints, Early, Lost
<1> QED BY <1>1, <1>2, <1>4, <1>5, <1>6 DEF IInv

\* The texts of a terminal whose part of the state a step leaves alone
LEMMA StillQueued ==
  ASSUME NEW u \in Terms, Queued(u), queue'[u] = queue[u], renderer'[u] = renderer[u],
         written'[u] = written[u], drawn'[u] = drawn[u]
  PROVE  Queued(u)'
<1>1. DrawnTexts(u)' = DrawnTexts(u) /\ Removed(u)' = Removed(u)
  BY DEF DrawnTexts, Removed
<1> QED BY <1>1 DEF Queued

LEMMA WriteStep ==
  ASSUME IInv, NEW t \in Terms, write(t)
  PROVE  IInv'
<1> DEFINE x == Text(t, written[t] + 1)
<1>1. /\ UNCHANGED <<captures, slots, closing, renderer, program, drawn, dropped, said, torn, spawned>>
      /\ written' = [written EXCEPT ![t] = written[t] + 1]
      /\ queue' = [queue EXCEPT ![t] = Append(queue[t], x)]
  BY DEF write
<1>2. /\ queue[t] \in Seq(Items) /\ Len(queue[t]) \in Nat /\ written[t] \in Nat
      /\ queue \in [Terms -> Seq(Items)] /\ written \in [Terms -> Nat]
  BY TypesOf DEF IInv, Types
<1>3. x \in Items
  BY <1>2, ItemFields
<1> HIDE DEF x
<1>4. PICK w : w = Append(queue[t], x)
  OBVIOUS
<1>5. /\ w \in Seq(Items) /\ Len(w) = Len(queue[t]) + 1 /\ w[Len(queue[t]) + 1] = x
      /\ \A i \in 1 .. Len(queue[t]) : w[i] = queue[t][i]
  BY <1>2, <1>3, <1>4, Appended
<1>6. /\ queue'[t] = w /\ written'[t] = written[t] + 1
      /\ \A u \in Terms : u # t => queue'[u] = queue[u] /\ written'[u] = written[u]
  BY <1>1, <1>2, <1>4
<1>7. Types'
  <2>1. queue' \in [Terms -> Seq(Items)] /\ written' \in [Terms -> Nat]
    BY <1>1, <1>2, <1>4, <1>5
  <2> QED BY <1>1, <2>1 DEF IInv, Types
<1>8. Queued(t)'
  <2>1. Queued(t)
    BY DEF IInv
  <2>2. Removed(t)' = Removed(t) /\ Removed(t) + (Len(queue[t]) + 1) = written[t] + 1
    BY <1>2, <1>5, <1>6 DEF Removed
  <2>3. DrawnTexts(t)' = DrawnTexts(t)
    BY <1>1, <2>2 DEF DrawnTexts
  <2>4. \A j \in 1 .. Len(w) : w[j] = Text(t, Removed(t) + j)
    <3> TAKE j \in 1 .. Len(w)
    <3>1. CASE j \in 1 .. Len(queue[t])
      BY <3>1, <1>5, <2>1 DEF Queued
    <3>2. CASE j = Len(queue[t]) + 1
      BY <3>2, <1>5, <2>2 DEF x
    <3> QED BY <3>1, <3>2, <1>2, <1>5
  <2>5. Len(renderer[t].q) <= Len(queue[t]) => Len(renderer[t].q) <= Len(w)
    BY <1>2, <1>5, TypesOf DEF IInv
  <2> QED BY <1>1, <1>6, <2>1, <2>2, <2>3, <2>4, <2>5 DEF Queued
<1>9. ASSUME NEW u \in Terms PROVE Queued(u)'
  <2>1. CASE u = t
    BY <2>1, <1>8
  <2>2. CASE u # t
    BY <2>2, <1>1, <1>6, StillQueued DEF IInv
  <2> QED BY <2>1, <2>2
<1> QED BY <1>1, <1>7, <1>9, QueueStep DEF IInv, Drains

LEMMA IdleFacts ==
  /\ Idle.pc = "idle" /\ Idle.q = << >> /\ Idle.left = << >> /\ Idle.outs = << >>
  /\ Idle \in Renderers /\ [Idle EXCEPT !.pc = "gone"] \in Renderers
<1>1. Idle.pc = "idle" /\ Idle.q = << >> /\ Idle.left = << >> /\ Idle.outs = << >>
  BY DEF Idle
<1>2. << >> \in Seq(Items) /\ << >> \in Seq(Slot)
  OBVIOUS
<1>3. Idle \in Renderers
  BY <1>2 DEF Idle, Renderers
<1>4. [Idle EXCEPT !.pc = "gone"] \in Renderers
  BY <1>3 DEF Renderers
<1> QED BY <1>1, <1>3, <1>4

LEMMA RenderBeginStep ==
  ASSUME IInv, NEW t \in Terms, RenderBegin(t)
  PROVE  IInv'
<1> DEFINE r == IF closing[t] THEN [Idle EXCEPT !.pc = "gone"]
                ELSE [pc |-> "taking", q |-> queue[t], left |-> slots[t], outs |-> << >>]
<1>1. /\ UNCHANGED <<captures, queue, slots, closing, program, written, drawn, dropped, said, torn, spawned>>
      /\ renderer' = [renderer EXCEPT ![t] = r]
      /\ renderer[t].pc = "idle"
  BY DEF RenderBegin, in, history
<1>2. /\ queue[t] \in Seq(Items) /\ slots[t] \in Seq(Slot) /\ renderer \in [Terms -> Renderers]
      /\ Len(queue[t]) \in Nat
  BY TypesOf DEF IInv, Types
<1>3. r \in Renderers
  BY <1>2, IdleFacts DEF Renderers
<1>4. /\ r.outs = << >> /\ Range(r.left) \subseteq Range(slots[t])
      /\ \/ r.pc = "gone" /\ r.q = << >> /\ r.left = << >>
         \/ r.pc = "taking" /\ r.q = queue[t]
  BY IdleFacts DEF Range, Idle
<1> HIDE DEF r
<1>5. renderer'[t] = r /\ \A u \in Terms : u # t => renderer'[u] = renderer[u]
  BY <1>1, <1>2
<1>6. Types'
  <2>1. renderer' \in [Terms -> Renderers]
    BY <1>1, <1>2, <1>3
  <2> QED BY <1>1, <2>1 DEF IInv, Types
<1>7. Queued(t)'
  <2>1. Queued(t) /\ renderer[t].q = << >> /\ renderer[t].outs = << >> /\ renderer[t].left = << >>
    BY <1>1 DEF IInv, Queued
  <2>2. Removed(t)' = Removed(t) /\ Removed(t) \in Int
    BY <1>1, <1>2, TypesOf DEF IInv, Removed
  <2>3. DrawnTexts(t) = Removed(t) - Len(renderer[t].q)
    BY <1>1 DEF DrawnTexts
  <2>4. Len(renderer[t].q) = 0
    BY <2>1
  <2>5. DrawnTexts(t) = Removed(t)
    BY <2>2, <2>3, <2>4
  <2>6. CASE r.pc = "gone" /\ r.q = << >> /\ r.left = << >>
    <3>1. DrawnTexts(t)' = Removed(t) - Len(r.q)
      BY <1>5, <2>2, <2>6 DEF DrawnTexts
    <3>2. DrawnTexts(t)' = DrawnTexts(t) /\ Len(r.q) = 0
      BY <3>1, <2>2, <2>5, <2>6
    <3> QED BY <1>1, <1>4, <1>5, <2>1, <2>2, <2>6, <3>2 DEF Queued
  <2>7. CASE r.pc = "taking" /\ r.q = queue[t]
    <3>1. DrawnTexts(t)' = DrawnTexts(t)
      BY <1>5, <2>2, <2>5, <2>7 DEF DrawnTexts
    <3> QED BY <1>1, <1>2, <1>5, <2>1, <2>2, <2>5, <2>7, <3>1 DEF Queued
  <2> QED BY <1>4, <2>6, <2>7
<1>8. ASSUME NEW u \in Terms PROVE Queued(u)'
  <2>1. CASE u = t
    BY <2>1, <1>7
  <2>2. CASE u # t
    BY <2>2, <1>1, <1>5, StillQueued DEF IInv
  <2> QED BY <2>1, <2>2
<1>9. ASSUME NEW u \in Terms
      PROVE  /\ renderer'[u].outs = renderer[u].outs
             /\ Range(renderer'[u].left) \subseteq Range(slots[u])
             /\ renderer'[u].pc = "none" => renderer[u].pc = "none"
  <2>1. CASE u = t
    BY <2>1, <1>1, <1>4, <1>5 DEF IInv, Queued
  <2>2. CASE u # t
    BY <2>2, <1>5 DEF IInv, Drains
  <2> QED BY <2>1, <2>2
<1> QED BY <1>1, <1>6, <1>8, <1>9, QueueStep

LEMMA PendingTextStep ==
  ASSUME IInv, NEW t \in Terms, PendingText(t)
  PROVE  IInv'
<1> DEFINE q == renderer[t].q
           outs == renderer[t].outs
           r == IF outs \o q = << >> THEN Idle ELSE [renderer[t] EXCEPT !.pc = "drawing"]
           w == IF q = << >> THEN queue[t] ELSE QueueAfter(t)
<1>1. /\ UNCHANGED <<captures, slots, closing, program, written, drawn, dropped, said, torn, spawned>>
      /\ renderer' = [renderer EXCEPT ![t] = r]
      /\ queue' = IF q = << >> THEN queue ELSE [queue EXCEPT ![t] = QueueAfter(t)]
      /\ renderer[t].pc = "taking" /\ renderer[t].left = << >>
  BY DEF PendingText, history
<1>2. /\ queue[t] \in Seq(Items) /\ q \in Seq(Items) /\ outs \in Seq(Items)
      /\ Len(queue[t]) \in Nat /\ Len(q) \in Nat /\ written[t] \in Nat
      /\ renderer \in [Terms -> Renderers] /\ queue \in [Terms -> Seq(Items)]
      /\ renderer[t] \in Renderers
  BY TypesOf DEF IInv, Types
<1>3. Queued(t) /\ Len(q) <= Len(queue[t])
  BY <1>1 DEF IInv, Queued
<1>4. /\ w \in Seq(Items) /\ Len(w) = Len(queue[t]) - Len(q)
      /\ \A j \in 1 .. Len(w) : w[j] = queue[t][Len(q) + j]
  <2>1. CASE q = << >>
    <3>1. Len(q) = 0
      BY <2>1
    <3> QED BY <1>2, <2>1, <3>1
  <2>2. CASE q # << >>
    <3>1. Len(q) \in 0 .. Len(queue[t])
      BY <1>2, <1>3
    <3>2. w = SubSeq(queue[t], Len(q) + 1, Len(queue[t]))
      BY <2>2 DEF QueueAfter
    <3> HIDE DEF w, q
    <3> QED BY <1>2, <3>1, <3>2, CutInTwo
  <2> QED BY <2>1, <2>2
<1>5. r \in Renderers
  BY <1>2, IdleFacts DEF Renderers
<1>6. /\ r.q = q /\ r.outs = outs /\ r.left = << >> /\ r.pc \in {"idle", "drawing"}
      /\ r.pc = "idle" => q = << >> /\ outs = << >>
  <2>1. CASE outs \o q = << >>
    <3>1. Len(outs \o q) = Len(outs) + Len(q) /\ Len(outs) \in Nat
      BY <1>2, Joined, SeqFacts
    <3>2. Len(outs) = 0 /\ Len(q) = 0
      BY <1>2, <2>1, <3>1
    <3>3. outs = << >> /\ q = << >>
      BY <1>2, <3>2, EmptySeq
    <3> QED BY <2>1, <3>3, IdleFacts
  <2>2. CASE outs \o q # << >>
    BY <1>1, <1>2, <2>2 DEF Renderers
  <2> QED BY <2>1, <2>2
<1> HIDE DEF r
<1>7. /\ renderer'[t] = r /\ \A u \in Terms : u # t => renderer'[u] = renderer[u]
      /\ queue'[t] = w /\ \A u \in Terms : u # t => queue'[u] = queue[u]
  BY <1>1, <1>2
<1>8. Types'
  <2>1. renderer' \in [Terms -> Renderers]
    BY <1>1, <1>2, <1>5
  <2>2. queue' \in [Terms -> Seq(Items)]
    BY <1>1, <1>2, <1>4
  <2> QED BY <1>1, <2>1, <2>2 DEF IInv, Types
<1> HIDE DEF w
<1>9. Queued(t)'
  <2>1. DrawnTexts(t) = Removed(t) /\ Removed(t) = written[t] - Len(queue[t])
    BY <1>1 DEF DrawnTexts, Removed
  <2>2. Removed(t)' = Removed(t) + Len(q) /\ Removed(t) \in Int
    <3>1. Removed(t)' = written[t] - Len(w)
      BY <1>1, <1>7 DEF Removed
    <3> HIDE DEF q
    <3> QED BY <1>2, <1>4, <2>1, <3>1
  <2>3. DrawnTexts(t)' = Removed(t)' - Len(q)
    BY <1>6, <1>7 DEF DrawnTexts
  <2>4. DrawnTexts(t)' = DrawnTexts(t)
    BY <1>2, <2>1, <2>2, <2>3
  <2>5. \A j \in 1 .. Len(w) : w[j] = Text(t, Removed(t)' + j)
    <3> TAKE j \in 1 .. Len(w)
    <3>1. w[j] = queue[t][Len(q) + j] /\ Len(q) + j \in 1 .. Len(queue[t])
      BY <1>2, <1>3, <1>4
    <3>2. queue[t][Len(q) + j] = Text(t, Removed(t) + (Len(q) + j))
      BY <3>1, <1>3 DEF Queued
    <3>3. Removed(t) + (Len(q) + j) = Removed(t)' + j
      BY <1>2, <2>2
    <3> QED BY <3>1, <3>2, <3>3
  <2>6. \A j \in 1 .. Len(q) : q[j] = Text(t, DrawnTexts(t) + j)
    BY <1>3 DEF Queued
  <2>7. r.pc \notin {"taking"} /\ (r.pc \in {"none", "idle", "gone"} => r.pc = "idle")
    BY <1>6
  <2> HIDE DEF q, outs
  <2> QED BY <1>1, <1>3, <1>6, <1>7, <2>4, <2>5, <2>6, <2>7 DEF Queued
<1>10. ASSUME NEW u \in Terms PROVE Queued(u)'
  <2>1. CASE u = t
    BY <2>1, <1>9
  <2>2. CASE u # t
    BY <2>2, <1>1, <1>7, StillQueued DEF IInv
  <2> QED BY <2>1, <2>2
<1>11. ASSUME NEW u \in Terms
      PROVE  /\ renderer'[u].outs = renderer[u].outs
             /\ Range(renderer'[u].left) \subseteq Range(slots[u])
             /\ renderer'[u].pc = "none" => renderer[u].pc = "none"
  <2>1. CASE u = t
    BY <2>1, <1>6, <1>7, EmptyFacts
  <2>2. CASE u # t
    BY <2>2, <1>7 DEF IInv, Drains
  <2> QED BY <2>1, <2>2
<1> QED BY <1>1, <1>8, <1>10, <1>11, QueueStep

LEMMA DrawStep ==
  ASSUME IInv, NEW t \in Terms, Draw(t)
  PROVE  IInv'
<1> DEFINE q == renderer[t].q
           outs == renderer[t].outs
<1>1. /\ UNCHANGED <<captures, queue, slots, closing, program, written, dropped, said, torn, spawned>>
      /\ renderer' = [renderer EXCEPT ![t] = Idle]
      /\ drawn' = [drawn EXCEPT ![t] = Fed(t)]
      /\ renderer[t].pc = "drawing"
  BY DEF Draw, in, Fed
<1>2. /\ q \in Seq(Items) /\ outs \in Seq(Items) /\ drawn[t] \in Seq(Items) /\ Len(q) \in Nat
      /\ renderer \in [Terms -> Renderers] /\ drawn \in [Terms -> Seq(Items)]
      /\ Types /\ OnTheWay(t) /\ Queued(t) /\ written[t] \in Nat /\ Len(queue[t]) \in Nat
  BY TypesOf DEF IInv, Types
<1>3. PICK f : f = Fed(t)
  OBVIOUS
<1>4. f \in Seq(Items) /\ Range(f) = Shown(t) \cup Range(q) /\ Ordered(f)
  BY <1>2, <1>3, FedIs, FedOrdered
<1>5. Whole(f, Lost)
  <2>1. PICK w : w = drawn[t] \o outs
    OBVIOUS
  <2>2. w \in Seq(Items) /\ Whole(w, Lost)
    BY <1>2, <2>1, Joined, WholeJoined DEF OnTheWay
  <2>3. f = w \o q
    BY Zenon, <1>3, <2>1 DEF Fed
  <2> QED BY <1>2, <2>2, <2>3, QueueTexts, WholeJoined
<1>6. /\ renderer'[t] = Idle /\ drawn'[t] = f
      /\ \A u \in Terms : u # t => renderer'[u] = renderer[u] /\ drawn'[u] = drawn[u]
  BY <1>1, <1>2, <1>3
<1>7. Types'
  <2>1. renderer' \in [Terms -> Renderers] /\ drawn' \in [Terms -> Seq(Items)]
    BY <1>1, <1>2, <1>3, <1>4, IdleFacts
  <2> QED BY <1>1, <2>1 DEF IInv, Types
<1>8. /\ Shown(t)' = Shown(t) \cup Range(q)
      /\ \A u \in Terms : u # t => Shown(u)' = Shown(u)
  <2>1. Range(renderer'[t].outs) = {}
    BY <1>6, IdleFacts, EmptyFacts
  <2> QED BY <1>4, <1>6, <2>1 DEF Shown
<1>9. \A x \in Range(q) : x.by = "queue" /\ x.k > DrawnTexts(t)
  BY <1>2, QueueTexts
<1>10. Held'
  BY <1>1 DEF IInv, Held, Holds, Prints
<1>11. ASSUME NEW u \in Terms PROVE Drains(u)' /\ Started(u)'
  <2>1. renderer'[u].left = renderer[u].left \/ Range(renderer'[u].left) = {}
    BY <1>6, IdleFacts, EmptyFacts
  <2>2. renderer'[u].pc = "none" => renderer[u].pc = "none"
    BY <1>6, IdleFacts
  <2> QED BY <1>1, <2>1, <2>2 DEF IInv, Drains, Early, Silent, Started
<1>12. ASSUME NEW u \in Terms PROVE OnTheWay(u)'
  <2>1. CASE u = t
    <3>1. /\ renderer'[t].outs = << >> /\ Range(renderer'[t].outs) = {}
          /\ Ordered(renderer'[t].outs) /\ Whole(renderer'[t].outs, Lost)
      BY <1>6, IdleFacts, EmptyFacts
    <3>2. Before(drawn'[t], renderer'[t].outs)
      BY <3>1 DEF Before
    <3>3. \A x \in Shown(t)' : x.by \in Writers => x \in Shown(t)
      BY <1>8, <1>9, HomeFacts
    <3> QED BY <1>1, <1>2, <1>4, <1>5, <1>6, <2>1, <3>1, <3>2, <3>3
            DEF OnTheWay, Lost, Early, Own, PassedOn, Gone
  <2>2. CASE u # t
    <3>1. OnTheWay(u)
      BY DEF IInv
    <3> QED BY <1>1, <1>6, <1>8, <2>2, <3>1 DEF OnTheWay, Lost, Early, Own, PassedOn, Gone
  <2> QED BY <2>1, <2>2
<1>13. ASSUME NEW u \in Writers PROVE Kept(u)'
  <2>1. Kept(u)
    BY DEF IInv
  <2> QED BY <2>1, <1>1, <1>8 DEF Kept
<1>14. ASSUME NEW i \in Slot PROVE InSlot(i)'
  <2>1. InSlot(i)
    BY DEF IInv
  <2> QED BY <2>1, <1>1 DEF InSlot, Prints, Early, Lost
<1>15. ASSUME NEW u \in Terms PROVE Queued(u)'
  <2>1. CASE u # t
    BY <2>1, <1>1, <1>6, StillQueued DEF IInv
  <2>2. CASE u = t
    <3>1. Removed(t)' = Removed(t) /\ Removed(t) \in Int
      BY <1>1, <1>2 DEF Removed
    <3>2. DrawnTexts(t) = Removed(t) - Len(q) /\ DrawnTexts(t) \in Nat
      BY <1>1, <1>2 DEF DrawnTexts, Queued
    <3>3. DrawnTexts(t)' = Removed(t) - Len(renderer'[t].q) /\ Len(renderer'[t].q) = 0
      BY <1>6, <3>1, IdleFacts DEF DrawnTexts
    <3>4. DrawnTexts(t)' = DrawnTexts(t) + Len(q) /\ DrawnTexts(t)' \in Nat
      BY <1>2, <3>1, <3>2, <3>3
    <3>5. ASSUME NEW x \in Range(f), x.by = "queue" PROVE x.k <= DrawnTexts(t)'
      <4>1. CASE x \in Range(q)
        <5>1. PICK j \in 1 .. Len(q) : x = q[j]
          BY <1>2, <4>1, SeqFacts
        <5>2. x = Text(t, DrawnTexts(t) + j)
          BY <1>2, <5>1 DEF Queued
        <5>3. x.k = DrawnTexts(t) + j
          BY <5>2, ItemFields
        <5> QED BY <1>2, <3>2, <3>4, <5>3
      <4>2. CASE x \in Shown(t)
        <5>1. x \in Range(drawn[t])
          BY <1>2, <3>5, <4>2, HomeFacts DEF OnTheWay, Shown
        <5>2. x.k <= DrawnTexts(t) /\ x.k \in Nat
          BY <1>2, <3>5, <5>1, SeqFacts DEF Queued, Items
        <5> QED BY <1>2, <3>2, <3>4, <5>2
      <4> QED BY <1>4, <4>1, <4>2
    <3>6. ASSUME NEW k \in 1 .. DrawnTexts(t)' PROVE Text(t, k) \in Range(f)
      <4>1. CASE k <= DrawnTexts(t)
        BY <1>2, <1>4, <3>2, <3>4, <4>1 DEF Queued, Shown
      <4>2. CASE k > DrawnTexts(t)
        <5>1. PICK j : j = k - DrawnTexts(t)
          OBVIOUS
        <5>2. j \in 1 .. Len(q) /\ DrawnTexts(t) + j = k
          BY <1>2, <3>2, <3>4, <4>2, <5>1
        <5>3. q[j] = Text(t, k) /\ q[j] \in Range(q)
          BY <1>2, <5>2, SeqFacts DEF Queued
        <5> QED BY <1>4, <5>3
      <4> QED BY <3>2, <3>4, <4>1, <4>2
    <3>7. \A j \in 1 .. Len(queue[t]) : queue[t][j] = Text(t, Removed(t) + j)
      BY <1>2 DEF Queued
    <3>8. /\ renderer'[t].q = << >> /\ renderer'[t].left = << >> /\ renderer'[t].outs = << >>
          /\ renderer'[t].pc = "idle"
      BY <1>6, IdleFacts
    <3> QED BY <1>1, <1>6, <2>2, <3>1, <3>3, <3>4, <3>5, <3>6, <3>7, <3>8 DEF Queued
  <2> QED BY <2>1, <2>2
<1> QED BY <1>7, <1>10, <1>11, <1>12, <1>13, <1>14, <1>15 DEF IInv

\* A slot nobody has holds nothing.
LEMMA FreeIsEmpty ==
  ASSUME IInv, NEW i \in Slot, ~captures[i].used
  PROVE  captures[i].buf = << >>
<1>1. captures[i].buf \in Seq(Items)
  BY DEF IInv, Types
<1>2. Range(captures[i].buf) = {}
  <2>1. ASSUME NEW x \in Range(captures[i].buf) PROVE FALSE
    BY <2>1 DEF IInv, InSlot
  <2> QED BY <2>1
<1>3. Len(captures[i].buf) \in Nat /\ \A j \in 1 .. Len(captures[i].buf) : FALSE
  BY <1>1, <1>2, SeqFacts
<1>4. Len(captures[i].buf) = 0
  BY <1>3
<1> QED BY <1>1, <1>4, EmptySeq

LEMMA CaptureStreamStep ==
  ASSUME IInv, NEW t \in Terms, capture_stream(t)
  PROVE  IInv'
<1>1. /\ UNCHANGED <<queue, slots, closing, renderer, written, drawn, dropped, said, torn, spawned>>
      /\ program[t].pc = "start"
  BY DEF capture_stream, in, At, history
<1>2. CASE FreeSlots = {} /\ Goto(t, "gone") /\ UNCHANGED captures
  <2>0. program' = [program EXCEPT ![t].pc = "gone"]
    BY <1>2 DEF Goto
  <2>1. Types'
    <3>1. program' \in [Terms -> Programs]
      BY <2>0, GoesTo DEF IInv, Pcs
    <3> QED BY <1>1, <1>2, <3>1 DEF IInv, Types
  <2>2. Moves
    BY <1>1, <2>0 DEF Moves, Holds, Prints, Early, Gone, IInv, Types, Programs
  <2>3. \A u \in Terms : Started(u)'
    BY <1>1, <2>0 DEF IInv, Types, Started, Programs, Renderers
  <2> QED BY <1>1, <1>2, <2>1, <2>2, <2>3, ControlStep
<1>3. ASSUME NEW i \in FreeSlots,
             captures' = [captures EXCEPT ![i] = [used |-> TRUE, buf |-> << >>]],
             program' = [program EXCEPT ![t].pc = "attach", ![t].slot = i]
      PROVE  IInv'
  <2>1. i \in Slot /\ ~captures[i].used /\ captures[i].buf = << >>
    BY FreeIsEmpty DEF FreeSlots
  <2>2. captures \in [Slot -> [used : BOOLEAN, buf : Seq(Items)]] /\ program \in [Terms -> Programs]
    BY DEF IInv, Types
  <2>3. /\ \A j \in Slot : captures'[j].buf = captures[j].buf
        /\ captures'[i].used /\ \A j \in Slot : captures[j].used => captures'[j].used
    BY <1>3, <2>1, <2>2
  <2>4. /\ program'[t].pc = "attach" /\ program'[t].slot = i
        /\ program'[t].doomed = program[t].doomed
        /\ \A u \in Terms : u # t => program'[u] = program[u]
    BY <1>3, <2>2 DEF Programs
  <2>5. Types'
    <3>1. program' \in [Terms -> Programs]
      <4>1. [[program[t] EXCEPT !.pc = "attach"] EXCEPT !.slot = i] \in Programs
        BY <2>1, <2>2 DEF Programs, Pcs
      <4>2. program' = [program EXCEPT ![t] = [[program[t] EXCEPT !.pc = "attach"] EXCEPT !.slot = i]]
        BY <1>3, <2>2
      <4> QED BY <2>2, <4>1, <4>2
    <3>2. captures' \in [Slot -> [used : BOOLEAN, buf : Seq(Items)]]
      <4>1. << >> \in Seq(Items)
        OBVIOUS
      <4> QED BY <1>3, <2>1, <2>2, <4>1
    <3> QED BY <1>1, <3>1, <3>2 DEF IInv, Types
  <2>6. /\ \A u \in Terms : Holds(u)' => Holds(u) \/ u = t
        /\ \A u \in Terms : Prints(u)' <=> Prints(u)
        /\ \A u \in Terms : Early(u)' <=> Early(u)
        /\ \A u \in Terms : Gone(u) => Gone(u)'
        /\ ~Prints(t) /\ Early(t) /\ Silent(t) /\ Range(slots[t]) = {} /\ ~Gone(t)
    BY <1>1, <2>4 DEF Holds, Prints, Early, Gone, IInv, Drains
  <2>7. Held'
    <3>1. ASSUME NEW u \in Terms, Holds(u)' PROVE program'[u].slot \in Slot /\ captures'[program'[u].slot].used
      BY <2>1, <2>3, <2>4, <2>6, <3>1 DEF IInv, Held
    <3>2. ASSUME NEW u \in Terms, Holds(u)', u # t PROVE program'[u].slot # i
      BY <2>1, <2>4, <2>6, <3>2 DEF IInv, Held
    <3>3. ASSUME NEW u \in Terms, NEW v \in Terms, Holds(u)', Holds(v)',
                 program'[u].slot = program'[v].slot
          PROVE  u = v
      <4>1. CASE u = t \/ v = t
        BY <2>4, <3>2, <3>3, <4>1
      <4>2. CASE u # t /\ v # t
        BY <2>4, <2>6, <3>3, <4>2 DEF IInv, Held
      <4> QED BY <4>1, <4>2
    <3>4. \A w \in spawned : Home(w) # t /\ Home(w) \in Terms
      BY <2>6, HomeFacts DEF Silent, IInv, Types, Writers
    <3>5. \A w \in spawned' : program'[Home(w)].slot \in Slot
      BY <1>1, <2>4, <3>4 DEF IInv, Held
    <3> QED BY <3>1, <3>3, <3>5 DEF Held
  <2>8. ASSUME NEW u \in Terms PROVE Started(u)' /\ Drains(u)'
    <3>1. Started(u) /\ Drains(u)
      BY DEF IInv
    <3>2. CASE u = t
      BY <1>1, <2>4, <2>6, <3>1, <3>2 DEF Started, Drains, Silent
    <3>3. CASE u # t
      BY <1>1, <2>4, <2>6, <3>1, <3>3 DEF Started, Drains, Silent
    <3> QED BY <3>2, <3>3
  <2>9. ASSUME NEW u \in Terms PROVE Shown(u)' = Shown(u)
    BY <1>1 DEF Shown
  <2>11. ASSUME NEW u \in Terms PROVE OnTheWay(u)'
    <3>1. OnTheWay(u)
      BY DEF IInv
    <3>2. ASSUME NEW x \in Shown(u), x.by \in Writers
          PROVE  ~Early(u)' /\ ~Early(Home(x.by))' /\ Own(u, x)'
      <4>1. Home(x.by) \in Terms
        BY <3>2, HomeFacts
      <4>2. ~Early(u) /\ ~Early(Home(x.by)) /\ Own(u, x)
        BY <3>1, <3>2 DEF OnTheWay
      <4>3. u # t /\ Home(x.by) # t
        BY <2>6, <4>2
      <4>4. program'[u].slot = program[u].slot /\ program'[Home(x.by)].slot = program[Home(x.by)].slot
        BY <2>4, <4>1, <4>3
      <4> QED BY <2>6, <4>1, <4>2, <4>4 DEF Own, PassedOn
    <3> QED BY <1>1, <2>3, <2>9, <3>1, <3>2 DEF OnTheWay, Lost
  <2>12. ASSUME NEW u \in Terms PROVE Queued(u)'
    BY <1>1, StillQueued DEF IInv
  <2>13. ASSUME NEW w \in Writers PROVE Kept(w)'
    <3>1. Kept(w) /\ Home(w) \in Terms
      BY HomeFacts DEF IInv
    <3>2. CASE Home(w) = t
      BY <1>1, <2>6, <3>2 DEF Kept, Silent
    <3>3. CASE Home(w) # t
      BY <1>1, <2>3, <2>4, <2>9, <3>1, <3>3 DEF Kept
    <3> QED BY <3>2, <3>3
  <2>14. ASSUME NEW j \in Slot PROVE InSlot(j)'
    <3>1. InSlot(j)
      BY DEF IInv
    <3>2. ASSUME NEW x \in Range(captures[j].buf)
          PROVE  /\ program'[Home(x.by)].slot = j /\ ~Early(Home(x.by))'
                 /\ (x.by \in Terms => Prints(x.by)') /\ captures'[j].used
      <4>1. /\ x.by \in Writers /\ ~Early(Home(x.by)) /\ Home(x.by) \in Terms
            /\ program[Home(x.by)].slot = j /\ (x.by \in Terms => Prints(x.by)) /\ captures[j].used
        BY <3>1, HomeFacts DEF InSlot
      <4> QED BY <2>3, <2>4, <2>6, <4>1
    <3> QED BY <1>1, <2>3, <3>1, <3>2 DEF InSlot, Lost
  <2> QED BY <2>5, <2>7, <2>8, <2>11, <2>12, <2>13, <2>14 DEF IInv
<1> QED BY <1>2, <1>3 DEF capture_stream

LEMMA AttachOutputStep ==
  ASSUME IInv, NEW t \in Terms, attach_output(t)
  PROVE  IInv'
<1>1. /\ UNCHANGED <<captures, queue, closing, renderer, written, drawn, dropped, said, torn, spawned>>
      /\ program[t].pc = "attach" /\ program' = [program EXCEPT ![t].pc = "loop"]
      /\ slots' = [slots EXCEPT ![t] = Append(slots[t], program[t].slot)]
  BY DEF attach_output, At, Goto, history
<1>2. program \in [Terms -> Programs] /\ slots \in [Terms -> Seq(Slot)] /\ slots[t] \in Seq(Slot)
  BY DEF IInv, Types
<1>3. Range(slots[t]) = {} /\ program[t].slot \in Slot
  BY <1>1 DEF IInv, Drains, Early, Held, Holds
<1>4. PICK w : w = Append(slots[t], program[t].slot)
  OBVIOUS
<1>5. w \in Seq(Slot) /\ \A j \in Range(w) : j = program[t].slot
  <2>1. Len(slots[t]) \in Nat /\ \A j \in 1 .. Len(slots[t]) : slots[t][j] \in Range(slots[t])
    BY <1>2 DEF Range
  <2>2. Len(slots[t]) = 0
    BY <1>3, <2>1
  <2>3. w \in Seq(Slot) /\ Len(w) = Len(slots[t]) + 1 /\ w[Len(slots[t]) + 1] = program[t].slot
    BY <1>2, <1>3, <1>4, AppendProperties
  <2>4. DOMAIN w = 1 .. 1 /\ w[1] = program[t].slot
    BY <2>2, <2>3
  <2> QED BY <2>3, <2>4 DEF Range
<1>6. /\ slots'[t] = w /\ \A u \in Terms : u # t => slots'[u] = slots[u]
  BY <1>1, <1>2, <1>4
<1>7. /\ program'[t].pc = "loop" /\ program'[t].slot = program[t].slot
      /\ program'[t].doomed = program[t].doomed
      /\ \A u \in Terms : u # t => program'[u] = program[u]
  BY <1>1, <1>2 DEF Programs
<1>8. Types'
  <2>1. program' \in [Terms -> Programs]
    BY <1>1, GoesTo DEF IInv, Pcs
  <2>2. slots' \in [Terms -> Seq(Slot)]
    BY <1>1, <1>2, <1>4, <1>5
  <2> QED BY <1>1, <2>1, <2>2 DEF IInv, Types
<1>9. /\ \A u \in Terms : Holds(u)' <=> Holds(u)
      /\ \A u \in Terms : Prints(u) => Prints(u)'
      /\ \A u \in Terms : program'[u].slot = program[u].slot
      /\ \A u \in Terms : (Early(u)' => Early(u)) /\ (Gone(u) => Gone(u)')
      /\ ~Early(t)'
  BY <1>1, <1>7 DEF Holds, Prints, Early, Gone
<1>10. Held'
  <2>1. \A v \in spawned : Home(v) \in Terms
    BY HomeFacts DEF IInv, Types, Writers
  <2> QED BY <1>1, <1>9, <2>1 DEF IInv, Held
<1>11. ASSUME NEW u \in Terms PROVE Started(u)' /\ Drains(u)'
  <2>1. Started(u) /\ Drains(u)
    BY DEF IInv
  <2>2. CASE u = t
    BY <1>1, <1>3, <1>5, <1>6, <1>7, <1>9, <2>1, <2>2 DEF Started, Drains
  <2>3. CASE u # t
    BY <1>1, <1>6, <1>7, <1>9, <2>1, <2>3 DEF Started, Drains, Silent
  <2> QED BY <2>2, <2>3
<1>12. ASSUME NEW u \in Terms PROVE Shown(u)' = Shown(u)
  BY <1>1 DEF Shown
<1>13. ASSUME NEW u \in Terms PROVE OnTheWay(u)'
  <2>1. OnTheWay(u)
    BY DEF IInv
  <2>2. ASSUME NEW x \in Shown(u), x.by \in Writers
        PROVE  ~Early(u)' /\ ~Early(Home(x.by))' /\ Own(u, x)'
    <3>1. Home(x.by) \in Terms
      BY <2>2, HomeFacts
    <3>2. ~Early(u) /\ ~Early(Home(x.by)) /\ Own(u, x)
      BY <2>1, <2>2 DEF OnTheWay
    <3> QED BY <1>9, <3>1, <3>2 DEF Own, PassedOn
  <2> QED BY <1>1, <1>12, <2>1, <2>2 DEF OnTheWay, Lost
<1>14. ASSUME NEW u \in Terms PROVE Queued(u)'
  BY <1>1, StillQueued DEF IInv
<1>15. ASSUME NEW u \in Writers PROVE Kept(u)'
  <2>1. Kept(u) /\ Home(u) \in Terms
    BY HomeFacts DEF IInv
  <2> QED BY <1>1, <1>9, <1>12, <2>1 DEF Kept
<1>16. ASSUME NEW j \in Slot PROVE InSlot(j)'
  <2>1. InSlot(j)
    BY DEF IInv
  <2>2. ASSUME NEW x \in Range(captures[j].buf)
        PROVE  /\ program'[Home(x.by)].slot = j /\ ~Early(Home(x.by))'
               /\ x.by \in Terms => Prints(x.by)'
    BY <1>9, <2>1, HomeFacts DEF InSlot
  <2> QED BY <1>1, <2>1, <2>2 DEF InSlot, Lost
<1> QED BY <1>8, <1>10, <1>11, <1>13, <1>14, <1>15, <1>16 DEF IInv

LEMMA ReleaseOutputStep ==
  ASSUME IInv, NEW t \in Terms, release_output(t)
  PROVE  IInv'
<1> DEFINE i == program[t].slot
           buf == captures[i].buf
<1>1. /\ UNCHANGED <<queue, slots, closing, renderer, written, drawn, said, torn, spawned>>
      /\ program[t].pc = "release" /\ program' = [program EXCEPT ![t].pc = "gone"]
      /\ captures' = [captures EXCEPT ![i] = [used |-> FALSE, buf |-> << >>]]
      /\ dropped' = dropped \cup Range(buf)
  BY DEF release_output, At, Goto, in
<1>2. /\ program \in [Terms -> Programs] /\ dropped \subseteq Items
      /\ captures \in [Slot -> [used : BOOLEAN, buf : Seq(Items)]]
  BY DEF IInv, Types
<1>3. Holds(t) /\ i \in Slot
  BY <1>1 DEF IInv, Held, Holds, Prints
<1>4. /\ program'[t].pc = "gone" /\ program'[t].slot = i
      /\ program'[t].doomed = program[t].doomed
      /\ \A u \in Terms : u # t => program'[u] = program[u]
  BY <1>1, <1>2 DEF Programs
<1> HIDE DEF i
<1>5. /\ captures'[i].buf = << >> /\ Range(captures'[i].buf) = {} /\ buf \in Seq(Items)
      /\ \A j \in Slot : j # i => captures'[j] = captures[j]
  BY <1>1, <1>2, <1>3, EmptyFacts
<1>6. Types'
  <2>1. program' \in [Terms -> Programs]
    BY <1>1, GoesTo DEF IInv, Pcs
  <2>2. captures' \in [Slot -> [used : BOOLEAN, buf : Seq(Items)]]
    <3>1. << >> \in Seq(Items)
      OBVIOUS
    <3> QED BY <1>1, <1>2, <3>1
  <2>3. dropped' \subseteq Items
    BY <1>1, <1>2, <1>5, SeqFacts
  <2> QED BY <1>1, <2>1, <2>2, <2>3 DEF IInv, Types
<1>7. /\ \A u \in Terms : Holds(u)' => Holds(u) /\ u # t
      /\ \A u \in Terms : Prints(u)' <=> Prints(u) /\ u # t
      /\ \A u \in Terms : program'[u].slot = program[u].slot
      /\ \A u \in Terms : (Early(u)' => Early(u)) /\ (Gone(u) => Gone(u)')
  BY <1>4 DEF Holds, Prints, Early, Gone, i
<1>8. \A u \in Terms : u # t /\ Holds(u) => program[u].slot # i
  BY <1>3 DEF IInv, Held, i
<1>9. Held'
  <2>1. \A w \in spawned : Home(w) \in Terms
    BY HomeFacts DEF IInv, Types, Writers
  <2> QED BY <1>1, <1>5, <1>7, <1>8, <2>1 DEF IInv, Held
<1>10. ASSUME NEW u \in Terms PROVE Started(u)' /\ Drains(u)'
  <2>1. Started(u) /\ Drains(u)
    BY DEF IInv
  <2>2. CASE u = t
    BY <1>1, <1>4, <1>7, <2>1, <2>2 DEF Started, Drains, Silent
  <2>3. CASE u # t
    BY <1>1, <1>4, <1>7, <2>1, <2>3 DEF Started, Drains, Silent
  <2> QED BY <2>2, <2>3
<1>11. ASSUME NEW u \in Terms PROVE Shown(u)' = Shown(u)
  BY <1>1 DEF Shown
<1>12. \A j \in Slot : Range(captures'[j].buf) \subseteq Range(captures[j].buf)
  BY <1>5
<1>13. ASSUME NEW u \in Terms PROVE OnTheWay(u)'
  <2>1. OnTheWay(u)
    BY DEF IInv
  <2>2. ASSUME NEW x \in Shown(u), x.by \in Writers
        PROVE  ~Early(u)' /\ ~Early(Home(x.by))' /\ Own(u, x)'
    <3>1. Home(x.by) \in Terms
      BY <2>2, HomeFacts
    <3>2. ~Early(u) /\ ~Early(Home(x.by)) /\ Own(u, x)
      BY <2>1, <2>2 DEF OnTheWay
    <3> QED BY <1>7, <3>1, <3>2 DEF Own, PassedOn
  <2>3. Whole(drawn[u], Lost') /\ Whole(renderer[u].outs, Lost')
    BY <1>1, <2>1, WholeMore DEF OnTheWay, Lost
  <2> QED BY <1>1, <1>11, <1>12, <2>1, <2>2, <2>3 DEF OnTheWay
<1>14. ASSUME NEW u \in Terms PROVE Queued(u)'
  BY <1>1, StillQueued DEF IInv
<1>15. ASSUME NEW u \in Writers PROVE Kept(u)'
  <2>1. Kept(u) /\ Home(u) \in Terms
    BY HomeFacts DEF IInv
  <2> QED BY <1>1, <1>5, <1>7, <1>11, <2>1 DEF Kept
<1>16. ASSUME NEW j \in Slot PROVE InSlot(j)'
  <2>1. InSlot(j)
    BY DEF IInv
  <2>2. CASE j = i
    <3>1. captures'[j].buf = << >> /\ Len(captures'[j].buf) = 0
      BY <1>5, <2>2
    <3> QED BY <3>1, EmptyFacts DEF InSlot
  <2>3. CASE j # i
    <3>1. ASSUME NEW x \in Range(captures[j].buf)
          PROVE  /\ program'[Home(x.by)].slot = j /\ ~Early(Home(x.by))'
                 /\ x.by \in Terms => Prints(x.by)'
      BY <1>7, <2>1, <2>3, HomeFacts DEF InSlot, i
    <3>2. \A x : Cut(x, Lost) => Cut(x, Lost')
      BY <1>1 DEF Cut, Lost
    <3> QED BY <1>1, <1>5, <2>1, <2>3, <3>1, <3>2 DEF InSlot
  <2> QED BY <2>2, <2>3
<1> QED BY <1>6, <1>9, <1>10, <1>13, <1>14, <1>15, <1>16 DEF IInv

LEMMA CaptureWriteStep ==
  ASSUME IInv, NEW t \in Writers, console_capture_write(t)
  PROVE  IInv'
<1>0. PICK i : i = program[Home(t)].slot
  OBVIOUS
<1> DEFINE b == Byte(t, said[t] + 1)
           buf == captures[i].buf
           new == captures'[i].buf
<1>1. /\ UNCHANGED <<queue, slots, closing, renderer, program, spawned, written, drawn>>
      /\ t \in spawned \/ (t \in Terms /\ program[t].pc = "form")
      /\ said' = [said EXCEPT ![t] = said[t] + 1]
      /\ captures' = IF captures[i].used THEN [captures EXCEPT ![i].buf = capture_put(buf, b)] ELSE captures
      /\ torn' = IF captures[i].used /\ Len(buf) < CAPTURE_MAX THEN torn \cup Torn(buf, t) ELSE torn
      /\ dropped' = IF captures[i].used /\ Len(buf) < CAPTURE_MAX THEN dropped ELSE dropped \cup {b}
  BY <1>0 DEF console_capture_write, At, in
<1>2. /\ said \in [Writers -> Nat] /\ dropped \subseteq Items /\ torn \subseteq Items
      /\ captures \in [Slot -> [used : BOOLEAN, buf : Seq(Items)]] /\ said[t] \in Nat
      /\ CAPTURE_MAX \in Nat
  BY TerminalsAssumption DEF IInv, Types
<1>3. /\ i \in Slot /\ Home(t) \in Terms /\ ~Early(Home(t)) /\ (t \in Terms => Prints(t))
  <2>1. CASE t \in spawned
    <3>1. i \in Slot /\ Home(t) \in Terms /\ t \notin Terms
      BY <1>0, <2>1, HomeFacts, TerminalsAssumption DEF IInv, Held, Types
    <3> QED BY <2>1, <3>1 DEF IInv, Drains, Silent
  <2>2. CASE t \in Terms /\ program[t].pc = "form"
    BY <1>0, <2>2, HomeFacts DEF IInv, Held, Holds, Prints, Early
  <2> QED BY <1>1, <2>1, <2>2
<1>4. b \in Items /\ b.by = t /\ b.k = said[t] + 1
  BY <1>2, ItemFields
<1>5. buf \in Seq(Items) /\ Len(buf) \in Nat /\ InSlot(i)
  BY <1>2, <1>3, SeqFacts DEF IInv
<1>6. /\ said'[t] = said[t] + 1 /\ \A w \in Writers : w # t => said'[w] = said[w]
      /\ \A w \in Writers : said[w] \in Nat /\ said'[w] \in Nat /\ said[w] <= said'[w]
  BY <1>1, <1>2
<1>7. /\ \A j \in Slot : captures'[j].used = captures[j].used
      /\ \A j \in Slot : j # i => captures'[j] = captures[j]
      /\ captures[i].used => new = capture_put(buf, b)
      /\ ~captures[i].used => new = buf
  BY <1>1, <1>2, <1>3
<1> HIDE DEF b, new, buf
<1>8. \/ new = buf /\ dropped' = dropped \cup {b} /\ torn' = torn
      \/ new = Append(buf, b) /\ dropped' = dropped /\ torn' = torn \cup Torn(buf, t) /\ captures[i].used
  <2>1. CASE captures[i].used /\ Len(buf) < CAPTURE_MAX
    <3>1. ~(Len(buf) >= CAPTURE_MAX)
      BY <1>2, <1>5, <2>1
    <3> QED BY <1>1, <1>7, <2>1, <3>1 DEF capture_put
  <2>2. CASE captures[i].used /\ ~(Len(buf) < CAPTURE_MAX)
    <3>1. Len(buf) >= CAPTURE_MAX
      BY <1>2, <1>5, <2>2
    <3> QED BY <1>1, <1>7, <2>2, <3>1 DEF capture_put
  <2>3. CASE ~captures[i].used
    BY <1>1, <1>7, <2>3
  <2> QED BY <2>1, <2>2, <2>3
<1>9. /\ new \in Seq(Items) /\ Range(buf) \subseteq Range(new) /\ Range(new) \subseteq Range(buf) \cup {b}
      /\ dropped \subseteq dropped' /\ dropped' \subseteq Items /\ b \in Range(new) \cup dropped'
      /\ Lost \subseteq Lost' /\ torn' \subseteq Items
  <2>1. dropped \subseteq dropped' /\ dropped' \subseteq Items /\ Lost \subseteq Lost'
    BY <1>2, <1>4, <1>8 DEF Lost
  <2>2. Torn(buf, t) \subseteq Items
    <3>1. \A x \in Range(buf) : x \in Items /\ x.k \in Nat /\ (x.by # "queue" => x.by \in Writers)
      BY <1>5, SeqFacts DEF Items
    <3>2. \A x \in Range(buf) : x.by # "queue" => Byte(x.by, x.k + 1) \in Items
      BY <3>1, ItemFields
    <3> QED BY <3>2 DEF Torn, Leads
  <2>3. CASE new = buf /\ dropped' = dropped \cup {b} /\ torn' = torn
    BY <1>2, <1>5, <2>1, <2>3
  <2>4. CASE new = Append(buf, b) /\ torn' = torn \cup Torn(buf, t)
    <3>1. Append(buf, b) \in Seq(Items) /\ Range(Append(buf, b)) = Range(buf) \cup {b}
      BY <1>4, <1>5, Appended
    <3> QED BY <1>2, <2>1, <2>2, <2>4, <3>1
  <2> QED BY <1>8, <2>3, <2>4
<1>10. Types'
  <2>1. captures' \in [Slot -> [used : BOOLEAN, buf : Seq(Items)]]
    <3>1. CASE captures[i].used
      <4>1. capture_put(buf, b) \in Seq(Items)
        BY <1>7, <1>9, <3>1
      <4>2. [captures[i] EXCEPT !.buf = capture_put(buf, b)] \in [used : BOOLEAN, buf : Seq(Items)]
        BY <1>2, <1>3, <4>1
      <4> QED BY <1>1, <1>2, <3>1, <4>2
    <3>2. CASE ~captures[i].used
      BY <1>1, <1>2, <3>2
    <3> QED BY <3>1, <3>2
  <2>2. said' \in [Writers -> Nat]
    BY <1>1, <1>2
  <2> QED BY <1>1, <1>9, <2>1, <2>2 DEF IInv, Types
<1>11. Held'
  BY <1>1, <1>7 DEF IInv, Held, Holds, Prints
<1>12. ASSUME NEW u \in Terms PROVE Started(u)' /\ Drains(u)'
  <2>1. Started(u) /\ Drains(u)
    BY DEF IInv
  <2>2. Silent(u) /\ Early(u) => Silent(u)'
    BY <1>1, <1>3, <1>6 DEF Silent
  <2> QED BY <1>1, <2>1, <2>2 DEF Started, Drains, Early
<1>14. ASSUME NEW u \in Terms PROVE Shown(u)' = Shown(u) /\ Shown(u) \subseteq Items
  BY <1>1, TypesOf, SeqFacts DEF Shown, IInv
<1>15. ASSUME NEW u \in Terms PROVE OnTheWay(u)'
  <2>1. OnTheWay(u)
    BY DEF IInv
  <2>2. Whole(drawn[u], Lost') /\ Whole(renderer[u].outs, Lost')
    BY <1>9, <2>1, WholeMore DEF OnTheWay
  <2>3. ASSUME NEW x \in Shown(u), x.by \in Writers
        PROVE  /\ x.k <= said'[x.by] /\ ~Early(u)' /\ ~Early(Home(x.by))' /\ Own(u, x)'
               /\ \A j \in Slot : \A y \in Range(captures'[j].buf) : y.by = x.by => x.k < y.k
    <3>1. /\ x.k \in Nat /\ x.k <= said[x.by] /\ ~Early(u) /\ ~Early(Home(x.by)) /\ Own(u, x)
          /\ \A j \in Slot : \A y \in Range(captures[j].buf) : y.by = x.by => x.k < y.k
      BY <1>14, <2>1, <2>3 DEF OnTheWay, Items
    <3>2. x.k <= said'[x.by]
      BY <1>6, <2>3, <3>1
    <3>3. b.by = x.by => x.k < b.k
      BY <1>2, <1>4, <3>1
    <3>4. ASSUME NEW j \in Slot, NEW y \in Range(captures'[j].buf) PROVE y \in Range(captures[j].buf) \/ y = b
      BY <1>7, <1>9 DEF buf, new
    <3>5. ~Early(u)' /\ ~Early(Home(x.by))' /\ Own(u, x)'
      BY <1>1, <3>1 DEF Early, Own, PassedOn, Gone
    <3> QED BY <3>1, <3>2, <3>3, <3>4, <3>5
  <2> QED BY <1>1, <1>14, <2>1, <2>2, <2>3 DEF OnTheWay
<1>16. ASSUME NEW u \in Terms PROVE Queued(u)'
  BY <1>1, StillQueued DEF IInv
<1>17. ASSUME NEW w \in Writers PROVE Kept(w)'
  <2>1. Kept(w)
    BY DEF IInv
  <2>2. \A j \in Slot : Range(captures[j].buf) \subseteq Range(captures'[j].buf)
    BY <1>7, <1>9 DEF buf, new
  <2>3. ASSUME NEW k \in 1 .. said[w]
        PROVE  \/ Byte(w, k) \in dropped'
               \/ program'[Home(w)].slot \in Slot /\ Byte(w, k) \in Range(captures'[program'[Home(w)].slot].buf)
               \/ \E v \in Terms : Byte(w, k) \in Shown(v)'
    BY <1>1, <1>9, <1>14, <2>1, <2>2 DEF Kept
  <2>4. CASE w # t
    BY <1>6, <2>3, <2>4 DEF Kept
  <2>5. CASE w = t
    <3>1. ASSUME NEW k \in 1 .. said'[t]
          PROVE  k \in 1 .. said[t] \/ k = said[t] + 1
      BY <1>2, <1>6
    <3>2. \/ Byte(t, said[t] + 1) \in dropped'
          \/ program'[Home(t)].slot \in Slot /\ Byte(t, said[t] + 1) \in Range(captures'[program'[Home(t)].slot].buf)
      BY <1>0, <1>1, <1>3, <1>9 DEF b, new
    <3> QED BY <2>3, <2>5, <3>1, <3>2 DEF Kept
  <2> QED BY <2>4, <2>5
<1>18. \A x : Cut(x, Lost) => Cut(x, Lost')
  BY <1>9 DEF Cut
<1>19. ASSUME NEW j \in Slot, j # i PROVE InSlot(j)'
  <2>1. InSlot(j) /\ captures[j].buf \in Seq(Items) /\ captures'[j] = captures[j]
    BY <1>2, <1>7, <1>19 DEF IInv
  <2>2. \A x \in Range(captures[j].buf) : x.by # t /\ x.by \in Writers
    BY <1>0, <1>19, <2>1 DEF InSlot
  <2>3. \A n \in 1 .. Len(captures[j].buf) : captures[j].buf[n] \in Range(captures[j].buf)
    BY <2>1, SeqFacts
  <2>4. \A x \in Range(captures[j].buf) : said'[x.by] = said[x.by]
    BY <1>6, <2>2
  <2>5. \A u : (Early(u)' <=> Early(u)) /\ (Prints(u)' <=> Prints(u)) /\ program'[u] = program[u]
    BY <1>1 DEF Early, Prints
  <2>6. \A n \in 1 .. Len(captures[j].buf) : said'[captures[j].buf[n].by] = said[captures[j].buf[n].by]
    BY <2>3, <2>4
  <2> QED BY <1>18, <2>1, <2>4, <2>5, <2>6 DEF InSlot
<1>20. InSlot(i)'
  <2>1. \A x \in Range(buf) :
          /\ x.by \in Writers /\ program[Home(x.by)].slot = i /\ x.k <= said[x.by] /\ x \in Items
          /\ ~Early(Home(x.by)) /\ (x.by \in Terms => Prints(x.by)) /\ captures[i].used /\ x.k \in Nat
    <3>1. \A x \in Range(buf) : x \in Items /\ x.k \in Nat
      BY <1>5, SeqFacts DEF Items
    <3> QED BY <1>5, <3>1 DEF InSlot, buf
  <2>2. ASSUME NEW x \in Range(new)
        PROVE  /\ x.by \in Writers /\ program'[Home(x.by)].slot = i /\ x.k <= said'[x.by]
               /\ ~Early(Home(x.by))' /\ (x.by \in Terms => Prints(x.by)') /\ captures'[i].used
    <3>1. CASE x \in Range(buf)
      <4>1. x.k <= said'[x.by]
        BY <1>6, <2>1, <3>1
      <4> QED BY <1>1, <1>3, <1>7, <2>1, <3>1, <4>1 DEF Early, Prints
    <3>2. CASE x = b /\ x \notin Range(buf)
      <4>1. captures[i].used
        BY <1>8, <3>2
      <4>2. x.by = t /\ x.k <= said'[t]
        BY <1>2, <1>4, <1>6, <3>2
      <4> QED BY <1>0, <1>1, <1>3, <1>7, <4>1, <4>2 DEF Early, Prints
    <3> QED BY <1>9, <3>1, <3>2
  <2>4. Ordered(new)
    <3>1. Ordered(buf)
      BY <1>5 DEF InSlot, buf
    <3>2. \A y \in Range(buf) : y.by = b.by => y.k < b.k
      BY <1>2, <1>4, <2>1
    <3> QED BY <1>4, <1>5, <1>8, <3>1, <3>2, OrderedAppended
  <2>5. ASSUME NEW n \in 1 .. Len(buf), Leads(buf[n])
        PROVE  \/ Cut(buf[n], Lost)
               \/ n < Len(buf) /\ buf[n + 1] = Byte(buf[n].by, buf[n].k + 1)
               \/ n = Len(buf) /\ said[buf[n].by] = buf[n].k
    BY <1>5, <2>5 DEF InSlot, buf
  <2>6. ASSUME NEW n \in 1 .. Len(buf) PROVE buf[n] \in Range(buf) /\ buf[n].by \in Writers
    BY <1>5, <2>1, SeqFacts
  <2>7. ASSUME NEW n \in 1 .. Len(new), Leads(new[n])
        PROVE  \/ Cut(new[n], Lost')
               \/ n < Len(new) /\ new[n + 1] = Byte(new[n].by, new[n].k + 1)
               \/ n = Len(new) /\ said'[new[n].by] = new[n].k
    <3>1. CASE new = buf /\ dropped' = dropped \cup {b} /\ torn' = torn
      <4>1. CASE buf[n].by = t /\ said[t] = buf[n].k
        BY <3>1, <4>1 DEF Cut, Lost, b
      <4>2. CASE ~(buf[n].by = t /\ said[t] = buf[n].k)
        <5>1. \/ Cut(buf[n], Lost)
              \/ n < Len(buf) /\ buf[n + 1] = Byte(buf[n].by, buf[n].k + 1)
              \/ n = Len(buf) /\ said[buf[n].by] = buf[n].k
          BY <2>5, <2>7, <3>1
        <5>2. buf[n].by # t => said'[buf[n].by] = said[buf[n].by]
          BY <1>6, <2>6, <3>1
        <5> QED BY <1>18, <3>1, <4>2, <5>1, <5>2
      <4> QED BY <4>1, <4>2
    <3>2. CASE new = Append(buf, b) /\ dropped' = dropped /\ torn' = torn \cup Torn(buf, t)
      <4>1. /\ Len(new) = Len(buf) + 1 /\ new[Len(buf) + 1] = b
            /\ \A m \in 1 .. Len(buf) : new[m] = buf[m]
        BY <1>4, <1>5, <3>2, Appended
      <4>2. CASE n = Len(buf) + 1
        BY <1>4, <1>6, <4>1, <4>2
      <4>3. CASE n \in 1 .. Len(buf)
        <5>1. new[n] = buf[n] /\ n < Len(new) /\ (n < Len(buf) => new[n + 1] = buf[n + 1])
          <6>1. new[n] = buf[n]
            BY <4>1, <4>3
          <6>2. n < Len(new) /\ (n < Len(buf) => n + 1 \in 1 .. Len(buf))
            BY <1>5, <4>1, <4>3
          <6> QED BY <4>1, <6>1, <6>2
        <5>2. \/ Cut(buf[n], Lost)
              \/ n < Len(buf) /\ buf[n + 1] = Byte(buf[n].by, buf[n].k + 1)
              \/ n = Len(buf) /\ said[buf[n].by] = buf[n].k
          BY <2>5, <2>7, <4>3, <5>1
        <5>3. CASE n = Len(buf) /\ said[buf[n].by] = buf[n].k /\ buf[n].by = t
          BY <4>1, <5>1, <5>3 DEF b
        <5>4. CASE n = Len(buf) /\ buf[n].by # t
          <6>1. buf[n] \in Range(buf) /\ Leads(buf[n])
            BY <2>6, <2>7, <4>3, <5>1
          <6>2. Byte(buf[n].by, buf[n].k + 1) \in Torn(buf, t)
            BY <5>4, <6>1 DEF Torn
          <6> QED BY <3>2, <5>1, <6>2 DEF Cut, Lost
        <5> QED BY <1>18, <5>1, <5>2, <5>3, <5>4
      <4> QED BY <1>5, <4>1, <4>2, <4>3
    <3> QED BY <1>8, <3>1, <3>2
  <2> QED BY <2>2, <2>4, <2>7 DEF InSlot, new
<1> QED BY <1>10, <1>11, <1>12, <1>15, <1>16, <1>17, <1>19, <1>20 DEF IInv

LEMMA TakeOutputStep ==
  ASSUME IInv, NEW t \in Terms, take_output(t)
  PROVE  IInv'
<1> DEFINE i == Head(renderer[t].left)
           buf == captures[i].buf
           keep == utf8_tail(buf)
           m == Len(buf) - keep
           a == SubSeq(buf, 1, m)
           b == SubSeq(buf, m + 1, Len(buf))
           outs == renderer[t].outs
<1>1. /\ UNCHANGED <<queue, slots, closing, program, written, drawn, dropped, said, torn, spawned>>
      /\ renderer[t].pc = "taking" /\ renderer[t].left # << >>
      /\ captures' = [captures EXCEPT ![i].buf = b]
      /\ renderer' = [renderer EXCEPT ![t].left = Tail(renderer[t].left), ![t].outs = outs \o a]
  BY DEF take_output, in, history
<1>2. /\ captures \in [Slot -> [used : BOOLEAN, buf : Seq(Items)]] /\ renderer \in [Terms -> Renderers]
      /\ renderer[t] \in Renderers /\ renderer[t].left \in Seq(Slot) /\ outs \in Seq(Items)
      /\ drawn[t] \in Seq(Items)
  BY TypesOf DEF IInv, Types
<1>3. /\ i \in Slot /\ i \in Range(renderer[t].left) /\ Tail(renderer[t].left) \in Seq(Slot)
      /\ Range(Tail(renderer[t].left)) \subseteq Range(renderer[t].left)
  <2>1. PICK l \in Seq(Slot) : l = renderer[t].left
    BY <1>2
  <2>2. l # << >> /\ i = l[1] /\ Len(l) \in Nat /\ DOMAIN l = 1 .. Len(l)
    <3>1. l # << >> /\ i = Head(l)
      BY <1>1, <2>1
    <3> HIDE DEF i
    <3> QED BY <2>1, <3>1
  <2>3. 1 \in DOMAIN l
    BY <2>2
  <2>4. Tail(l) \in Seq(Slot) /\ Len(Tail(l)) = Len(l) - 1 /\ \A n \in 1 .. Len(l) - 1 : Tail(l)[n] = l[n + 1]
    BY <2>1, <2>2
  <2>5. DOMAIN Tail(l) = 1 .. Len(l) - 1
    BY <2>2, <2>4
  <2>6. Range(Tail(l)) \subseteq Range(l)
    BY <2>2, <2>4, <2>5 DEF Range
  <2> QED BY <2>1, <2>2, <2>3, <2>4, <2>6 DEF Range
<1> HIDE DEF i
<1>4. buf \in Seq(Items) /\ Len(buf) \in Nat /\ InSlot(i) /\ i \in Range(slots[t])
  BY <1>2, <1>3, SeqFacts DEF IInv, Drains
<1>5. /\ m \in 0 .. Len(buf)
      /\ m = Len(buf) \/ (m + 1 = Len(buf) /\ Leads(buf[m + 1]))
      /\ m = Len(buf) /\ Len(buf) # 0 => ~Leads(buf[m])
  <2>1. CASE buf = << >>
    <3>1. Len(buf) = 0 /\ keep = 0
      BY <2>1 DEF utf8_tail
    <3> QED BY <3>1
  <2>2. CASE buf # << >>
    <3>1. Len(buf) # 0
      BY <1>4, <2>2, EmptySeq
    <3>2. \/ keep = 1 /\ Leads(buf[Len(buf)])
          \/ keep = 0 /\ ~Leads(buf[Len(buf)])
      BY <2>2 DEF utf8_tail
    <3> QED BY <1>4, <3>1, <3>2
  <2> QED BY <2>1, <2>2
<1> HIDE DEF m, buf
<1>6. /\ a \in Seq(Items) /\ Len(a) = m /\ \A n \in 1 .. m : a[n] = buf[n]
      /\ b \in Seq(Items) /\ Len(b) = Len(buf) - m /\ \A n \in 1 .. Len(buf) - m : b[n] = buf[m + n]
      /\ Range(buf) = Range(a) \cup Range(b)
  BY <1>4, <1>5, CutInTwo
<1>7. Ordered(a) /\ Ordered(b) /\ Before(a, b)
  BY <1>4, <1>5, OrderedCut DEF InSlot, buf
<1> HIDE DEF a, b
<1>8. /\ captures'[i].buf = b /\ \A j \in Slot : captures'[j].used = captures[j].used
      /\ \A j \in Slot : j # i => captures'[j] = captures[j]
  BY <1>1, <1>2, <1>3
<1>9. PICK c : c = outs \o a
  OBVIOUS
<1>10. c \in Seq(Items) /\ Range(c) = Range(outs) \cup Range(a)
  BY <1>2, <1>6, <1>9, Joined
<1>11. /\ renderer'[t].pc = "taking" /\ renderer'[t].q = renderer[t].q /\ renderer'[t].outs = c
       /\ renderer'[t].left = Tail(renderer[t].left)
       /\ \A u \in Terms : u # t => renderer'[u] = renderer[u]
  BY <1>1, <1>2, <1>9 DEF Renderers
<1>12. Types'
  <2>1. captures' \in [Slot -> [used : BOOLEAN, buf : Seq(Items)]]
    <3>1. [captures[i] EXCEPT !.buf = b] \in [used : BOOLEAN, buf : Seq(Items)]
      BY <1>2, <1>3, <1>6
    <3> QED BY <1>1, <1>2, <3>1
  <2>2. renderer' \in [Terms -> Renderers]
    <3> DEFINE r == [[renderer[t] EXCEPT !.left = Tail(renderer[t].left)] EXCEPT !.outs = c]
    <3>1. r \in Renderers
      BY <1>2, <1>3, <1>10 DEF Renderers
    <3>2. renderer' = [renderer EXCEPT ![t] = r]
      BY <1>1, <1>2, <1>9
    <3> QED BY <1>2, <3>1, <3>2
  <2> QED BY <1>1, <2>1, <2>2 DEF IInv, Types
<1>13. Held'
  BY <1>1, <1>8 DEF IInv, Held, Holds, Prints
<1>14. ASSUME NEW u \in Terms PROVE Started(u)' /\ Drains(u)'
  <2>1. Started(u) /\ Drains(u)
    BY DEF IInv
  <2>2. CASE u = t
    BY <1>1, <1>3, <1>11, <2>1, <2>2 DEF Started, Drains, Early, Silent
  <2>3. CASE u # t
    BY <1>1, <1>11, <2>1, <2>3 DEF Started, Drains, Early, Silent
  <2> QED BY <2>2, <2>3
<1>15. /\ Shown(t)' = Shown(t) \cup Range(a)
       /\ \A u \in Terms : u # t => Shown(u)' = Shown(u)
  BY <1>1, <1>10, <1>11 DEF Shown
<1>16. \A j \in Slot : Range(captures'[j].buf) \subseteq Range(captures[j].buf)
  BY <1>6, <1>8 DEF buf
<1>17. ASSUME NEW x \in Range(a)
       PROVE  /\ x.by \in Writers /\ program[Home(x.by)].slot = i /\ x.k <= said[x.by]
              /\ ~Early(Home(x.by)) /\ (x.by \in Terms => Prints(x.by))
              /\ x \in Range(captures[i].buf)
              /\ \A j \in Slot : \A y \in Range(captures'[j].buf) : y.by = x.by => x.k < y.k
  <2>1. x \in Range(captures[i].buf)
    BY <1>6 DEF buf
  <2>2. /\ x.by \in Writers /\ program[Home(x.by)].slot = i /\ x.k <= said[x.by]
        /\ ~Early(Home(x.by)) /\ (x.by \in Terms => Prints(x.by))
    BY <1>4, <2>1 DEF InSlot
  <2>3. ASSUME NEW j \in Slot, NEW y \in Range(captures'[j].buf), y.by = x.by PROVE x.k < y.k
    <3>1. CASE j = i
      BY <1>7, <1>8, <2>3, <3>1 DEF Before
    <3>2. CASE j # i
      <4>1. y \in Range(captures[j].buf) /\ InSlot(j)
        BY <1>16 DEF IInv
      <4> QED BY <2>2, <2>3, <3>2, <4>1 DEF InSlot
    <3> QED BY <3>1, <3>2
  <2> QED BY <2>1, <2>2, <2>3
<1>18. Whole(a, Lost)
  <2>1. ASSUME NEW n \in 1 .. m, Leads(a[n])
        PROVE  Cut(a[n], Lost) \/ (n < m /\ a[n + 1] = Byte(a[n].by, a[n].k + 1))
    <3>1. a[n] = buf[n] /\ n \in 1 .. Len(buf) /\ m \in Nat
      BY <1>4, <1>5, <1>6
    <3>2. \/ Cut(buf[n], Lost)
          \/ n < Len(buf) /\ buf[n + 1] = Byte(buf[n].by, buf[n].k + 1)
          \/ n = Len(buf) /\ said[buf[n].by] = buf[n].k
      BY <1>4, <2>1, <3>1 DEF InSlot, buf
    <3>3. Leads(buf[n]) /\ buf[n].k % 2 = 1 /\ buf[n].k \in Nat
      BY <1>4, <2>1, <3>1, SeqFacts DEF Leads, Items
    <3>4. n # Len(buf)
      <4>1. n = Len(buf) => m = Len(buf) /\ Len(buf) # 0 /\ n = m
        BY <1>4, <1>5, <3>1
      <4> QED BY <1>5, <3>3, <4>1
    <3>5. CASE n < Len(buf) /\ buf[n + 1] = Byte(buf[n].by, buf[n].k + 1)
      <4>1. n # m
        <5>1. SUFFICES ASSUME n = m PROVE FALSE
          OBVIOUS
        <5>2. buf[m + 1].k % 2 = 1
          BY <1>5, <3>5, <5>1 DEF Leads
        <5>3. buf[m + 1].k = buf[n].k + 1
          BY <3>5, <5>1, ItemFields
        <5> QED BY <3>3, <5>2, <5>3
      <4>2. n < m /\ n + 1 \in 1 .. m
        BY <3>1, <4>1
      <4> QED BY <1>6, <3>1, <3>5, <4>2
    <3> QED BY <3>1, <3>2, <3>4, <3>5
  <2>2. DOMAIN a = 1 .. m
    BY <1>6, SeqFacts
  <2> QED BY <1>6, <2>1, <2>2 DEF Whole
<1>19. OnTheWay(t)'
  <2>1. OnTheWay(t)
    BY DEF IInv
  <2>2. \A x \in Range(c) : x.by \in Writers
    BY <1>10, <1>17, <2>1 DEF OnTheWay
  <2>3. ASSUME NEW x \in Shown(t), NEW y \in Range(a), x.by = y.by PROVE x.k < y.k
    BY <1>3, <1>17, <2>1, <2>3 DEF OnTheWay
  <2>4. Before(outs, a) /\ Before(drawn[t], c)
    BY <1>10, <2>1, <2>3 DEF Before, Shown, OnTheWay
  <2>5. Ordered(c) /\ Whole(c, Lost)
    BY <1>2, <1>6, <1>7, <1>9, <1>18, <2>1, <2>4, OrderedJoined, WholeJoined DEF OnTheWay
  <2>6. ASSUME NEW x \in Range(a) PROVE ~Early(t) /\ Own(t, x)
    <3>1. ~Early(t) /\ i = program[t].slot
      BY <1>4 DEF IInv, Drains
    <3>2. \A u \in Terms : ~Early(u) => Prints(u) \/ Gone(u)
      BY DEF IInv, Types, Programs, Pcs, Early, Prints, Gone
    <3>3. Home(x.by) \in Terms /\ (x.by \in Terms => Home(x.by) = x.by)
      BY <1>17, HomeFacts
    <3>4. Prints(t) /\ Prints(Home(x.by)) => t = Home(x.by)
      BY <1>17, <3>1, <3>3 DEF IInv, Held, Holds
    <3> QED BY <1>17, <3>1, <3>2, <3>3, <3>4 DEF Own, PassedOn
  <2>7. ASSUME NEW x \in Shown(t), x.by \in Writers
        PROVE  \A j \in Slot : \A y \in Range(captures'[j].buf) : y.by = x.by => x.k < y.k
    BY <1>16, <2>1, <2>7 DEF OnTheWay
  <2>8. ASSUME NEW x \in Shown(t)', x.by \in Writers
        PROVE  /\ x.k <= said[x.by] /\ ~Early(t) /\ ~Early(Home(x.by)) /\ Own(t, x)
               /\ \A j \in Slot : \A y \in Range(captures'[j].buf) : y.by = x.by => x.k < y.k
    BY <1>15, <1>17, <2>1, <2>6, <2>7, <2>8 DEF OnTheWay
  <2> QED BY <1>1, <1>11, <2>1, <2>2, <2>4, <2>5, <2>8 DEF OnTheWay, Lost, Early, Own, PassedOn, Gone
<1>20. ASSUME NEW u \in Terms, u # t PROVE OnTheWay(u)'
  <2>1. OnTheWay(u)
    BY DEF IInv
  <2> QED BY <1>1, <1>11, <1>15, <1>16, <1>20, <2>1 DEF OnTheWay, Lost, Early, Own, PassedOn, Gone
<1>21. ASSUME NEW u \in Terms PROVE Queued(u)'
  <2>1. CASE u # t
    BY <2>1, <1>1, <1>11, StillQueued DEF IInv
  <2>2. CASE u = t
    <3>1. Queued(t) /\ DrawnTexts(t)' = DrawnTexts(t) /\ Removed(t)' = Removed(t)
      BY <1>1, <1>11 DEF IInv, DrawnTexts, Removed
    <3> QED BY <1>1, <1>11, <2>2, <3>1 DEF Queued
  <2> QED BY <2>1, <2>2
<1>22. ASSUME NEW u \in Writers PROVE Kept(u)'
  <2>1. Kept(u)
    BY DEF IInv
  <2>2. \A j \in Slot : \A x \in Range(captures[j].buf) : x \in Range(captures'[j].buf) \/ x \in Shown(t)'
    BY <1>6, <1>8, <1>15 DEF buf
  <2>3. \A v \in Terms : Shown(v) \subseteq Shown(v)'
    BY <1>15
  <2> QED BY <1>1, <2>1, <2>2, <2>3 DEF Kept
<1>23. ASSUME NEW j \in Slot PROVE InSlot(j)'
  <2>1. InSlot(j)
    BY DEF IInv
  <2>0. /\ \A u : (Early(u)' <=> Early(u)) /\ (Prints(u)' <=> Prints(u)) /\ program'[u] = program[u]
        /\ Lost' = Lost /\ said' = said
    BY <1>1 DEF Early, Prints, Lost
  <2>2. CASE j # i
    BY <1>8, <2>0, <2>1, <2>2 DEF InSlot
  <2>3. CASE j = i
    <3>1. \A x \in Range(b) : x \in Range(buf)
      BY <1>6
    <3>2. ASSUME NEW n \in 1 .. Len(b), Leads(b[n])
          PROVE  \/ Cut(b[n], Lost)
                 \/ n < Len(b) /\ b[n + 1] = Byte(b[n].by, b[n].k + 1)
                 \/ n = Len(b) /\ said[b[n].by] = b[n].k
      <4>1. b[n] = buf[m + n] /\ m + n \in 1 .. Len(buf)
        BY <1>4, <1>5, <1>6
      <4>2. \/ Cut(buf[m + n], Lost)
            \/ m + n < Len(buf) /\ buf[m + n + 1] = Byte(buf[m + n].by, buf[m + n].k + 1)
            \/ m + n = Len(buf) /\ said[buf[m + n].by] = buf[m + n].k
        BY <1>4, <3>2, <4>1 DEF InSlot, buf
      <4>3. m + n < Len(buf) => n < Len(b) /\ b[n + 1] = buf[m + (n + 1)] /\ m + (n + 1) = m + n + 1
        BY <1>4, <1>5, <1>6
      <4>4. m + n = Len(buf) => n = Len(b)
        BY <1>4, <1>5, <1>6
      <4> QED BY <4>1, <4>2, <4>3, <4>4
    <3>3. \A x \in Range(b) :
            /\ x.by \in Writers /\ program[Home(x.by)].slot = i /\ x.k <= said[x.by]
            /\ ~Early(Home(x.by)) /\ (x.by \in Terms => Prints(x.by)) /\ captures[i].used
      BY <1>4, <3>1 DEF InSlot, buf
    <3>4. captures'[i].used = captures[i].used
      BY <1>3, <1>8
    <3> QED BY <1>7, <1>8, <2>0, <2>3, <3>2, <3>3, <3>4 DEF InSlot
  <2> QED BY <2>2, <2>3
<1> QED BY <1>12, <1>13, <1>14, <1>19, <1>20, <1>21, <1>22, <1>23 DEF IInv

-----------------------------------------------------------------------------
LEMMA Initially == Init => IInv
<1> SUFFICES ASSUME Init PROVE IInv
  OBVIOUS
<1>1. /\ \A u \in Terms : /\ queue[u] = << >> /\ slots[u] = << >> /\ written[u] = 0 /\ drawn[u] = << >>
                          /\ renderer[u].pc = "none" /\ renderer[u].q = << >>
                          /\ renderer[u].left = << >> /\ renderer[u].outs = << >>
                          /\ program[u].pc = "none" /\ ~program[u].doomed
      /\ spawned = {} /\ \A w \in Writers : said[w] = 0
      /\ \A i \in Slot : captures[i].buf = << >>
  BY DEF Init, Idle
<1>2. Types
  <2>1. << >> \in Seq(Items) /\ << >> \in Seq(Slot)
    OBVIOUS
  <2>2. captures \in [Slot -> [used : BOOLEAN, buf : Seq(Items)]]
    BY <2>1 DEF Init
  <2>3. renderer \in [Terms -> Renderers]
    <3>1. [Idle EXCEPT !.pc = "none"] \in Renderers
      BY <2>1 DEF Idle, Renderers
    <3> QED BY <3>1 DEF Init
  <2>4. program \in [Terms -> Programs]
    <3>1. [pc |-> "none", slot |-> NoSlot, doomed |-> FALSE] \in Programs
      BY DEF Programs, Pcs
    <3> QED BY <3>1 DEF Init
  <2>5. closing \in [Terms -> BOOLEAN]
    BY Zenon DEF Init
  <2> QED BY <2>1, <2>2, <2>3, <2>4, <2>5 DEF Init, Types
<1>3. Held
  BY <1>1 DEF Held, Holds, Prints
<1>4. Len(<< >>) = 0
  OBVIOUS
<1>5. ASSUME NEW u \in Terms PROVE Started(u) /\ Drains(u)
  BY <1>1, EmptyFacts DEF Started, Drains, Silent
<1>6. ASSUME NEW u \in Terms PROVE OnTheWay(u)
  BY <1>1, EmptyFacts DEF OnTheWay, Shown, Before
<1>7. ASSUME NEW u \in Terms PROVE Queued(u)
  BY <1>1, <1>4, EmptyFacts DEF Queued, DrawnTexts, Removed
<1>8. ASSUME NEW i \in Slot PROVE InSlot(i)
  BY <1>1, <1>4, EmptyFacts DEF InSlot
<1>9. \A w \in Writers : Kept(w)
  BY <1>1 DEF Kept
<1> QED BY <1>2, <1>3, <1>5, <1>6, <1>7, <1>8, <1>9 DEF IInv

LEMMA Step == IInv /\ [Next]_vars => IInv'
<1> SUFFICES ASSUME IInv, [Next]_vars PROVE IInv'
  OBVIOUS
<1>1. CASE Next
  <2>1. ASSUME NEW t \in Terms,
               \/ start(t) \/ write(t) \/ capture_stream(t) \/ attach_output(t) \/ repl(t)
               \/ release_output(t) \/ interrupt_key(t) \/ close(t) \/ Unwind(t) \/ render(t)
        PROVE  IInv'
    <3>1. CASE render(t)
      BY <3>1, RenderBeginStep, TakeOutputStep, PendingTextStep, DrawStep, ThrowStep DEF render
    <3> QED BY <2>1, <3>1, StartStep, WriteStep, CaptureStreamStep, AttachOutputStep, ReplStep,
               ReleaseOutputStep, InterruptKeyStep, CloseStep, UnwindStep
  <2> QED BY <1>1, <2>1, SpawnStep, CaptureWriteStep DEF Next
<1>2. CASE UNCHANGED vars
  <2>1. /\ UNCHANGED <<captures, queue, slots, closing, renderer, program, spawned, written, drawn, dropped, said, torn>>
    BY <1>2 DEF vars, in, history
  <2>2. Types' /\ Moves /\ \A u \in Terms : Started(u)'
    BY <2>1 DEF IInv, Types, Moves, Holds, Prints, Early, Gone, Started
  <2> QED BY <2>1, <2>2, ControlStep
<1> QED BY <1>1, <1>2

\* Whoever prints, and a task goes on printing to the slot of a program that is
\* gone: a terminal is fed another terminal's output only when they have had the
\* same slot and one of the programs is gone, and what another program itself
\* prints only when its own is gone (console_capture_write, pending-text).
THEOREM OwnOutputTheorem == Spec => []OwnOutput
BY Initially, Step, GivesOwnOutput, PTL DEF Spec

\* What a terminal is fed of one writer, or of write!, comes in order and
\* nothing of it twice, in characters that are whole unless a full buffer
\* dropped the rest or another writer came in between: what utf8_tail and drop (count q) are for.
THEOREM FedInOrderTheorem == Spec => []FedInOrder
BY Initially, Step, GivesFedInOrder, PTL DEF Spec

\* Every byte a program or its tasks printed and every text given to write! is in its buffer
\* or queue, on its way to a screen, or was dropped at a full buffer or with a
\* released slot, whichever task was preempted where and whichever renderer failed.
THEOREM AccountedTheorem == Spec => []Accounted
BY Initially, Step, GivesAccounted, PTL DEF Spec
=============================================================================
