------------------------ MODULE AddressSpace_proofs ------------------------
(***************************************************************************)
(* The memory of processes, for any number of frames, pages and processes: *)
(* no frame has two uses, none is lost before a preemption or a fault of   *)
(* the kernel, the machine halts before frames run out, and each process   *)
(* has the memory UserMemory promises.                                     *)
(***************************************************************************)
EXTENDS AddressSpace, FiniteSetTheorems, WellFoundedInduction, TLAPS

-----------------------------------------------------------------------------
(***************************************************************************)
(* What points where: a directory, an entry of one, an entry of a table it *)
(* names; NULL where there is nothing.  Link gives the three one form: of  *)
(* process p, without an index the directory, with one the table, with two *)
(* the page.                                                               *)
(***************************************************************************)
TableOf(p, i) == IF cr3[p] = NULL THEN NULL ELSE mem[cr3[p]].table[i]

PageOf(p, i, j) == IF TableOf(p, i) = NULL THEN NULL ELSE mem[TableOf(p, i)].table[j]

Optional == Index \union {NULL}

Link(p, i, j) ==
  IF i = NULL THEN IF j = NULL THEN cr3[p] ELSE NULL
  ELSE IF j = NULL THEN TableOf(p, i) ELSE PageOf(p, i, j)

PageLink(p, va) == PageOf(p, PdIndex(va), PtIndex(va))

Reserved == 0 .. ReservedFrames - 1

(* No frame is pointed to twice, and none the allocator may give out, or   *)
(* that belongs to the kernel, is pointed to.                              *)
Distinct ==
  \A p, q \in Pids : \A i, j, k, l \in Optional :
    Link(p, i, j) # NULL /\ Link(p, i, j) = Link(q, k, l) => p = q /\ i = k /\ j = l

Allocated ==
  \A p \in Pids : \A i, j \in Optional :
    Link(p, i, j) # NULL => Link(p, i, j) \in frame_bitmap \ Reserved

(* Bits are set from the lowest up and stay set.                           *)
InOrder ==
  /\ Reserved \subseteq frame_bitmap
  /\ \A f \in frame_bitmap : \A g \in Frames : g <= f => g \in frame_bitmap

(* Who may execute has a directory; who was not created yet has none, but  *)
(* for the process being created.                                          *)
Rooted ==
  /\ cpu \notin waiting
  /\ \A p \in waiting \union ({cpu} \ {0}) : cr3[p] # NULL
  /\ \A p \in Pids :
       p > last /\ cr3[p] # NULL => Creating /\ p = last + 1 /\ task.step # "directory"
  /\ halted => task = NULL /\ last # 0 /\ (cpu = 0 => waiting = {})

(* What a task is about: its process exists or may be created, its pages   *)
(* are not mapped yet.                                                     *)
TaskOK ==
  task # NULL =>
    /\ Creating => last < MaxPid
    /\ task.op = "create" => last = 0 /\ task.todo \subseteq CodePages
    /\ task.op = "fork" =>
         /\ cpu # 0
         /\ \A va \in task.todo : PageLink(cpu, va) # NULL
    /\ task.op = "fault" => cpu # 0 /\ task.step # "directory"
    /\ task.op = "exit" => cpu # 0 /\ task.step = "page" /\ task.todo = {}
    /\ task.op # "exit" /\ task.step # "directory" => cr3[Target] # NULL
    /\ task.step \in {"map", "fill"} => task.todo # {}
    /\ \A va \in task.todo :
         PageLink(Target, va) # NULL => task.step = "fill" /\ va = Va

(* The frame a task has in hand: before it is mapped nothing points to it, *)
(* then only the entry of its page.  It is the last frame allocated as     *)
(* long as there is no table to map it in, so that a frame the kernel can  *)
(* use is always mapped.                                                   *)
HandOK ==
  task # NULL /\ task.step \in {"map", "fill"} =>
    /\ task.frame \in frame_bitmap \ Reserved
    /\ \A p \in Pids : \A i, j \in Optional :
         Link(p, i, j) = task.frame =>
           task.step = "fill" /\ p = Target /\ i = PdIndex(Va) /\ j = PtIndex(Va)
    /\ task.step = "map" /\ TableOf(Target, PdIndex(Va)) = NULL =>
         \A f \in frame_bitmap : f <= task.frame
    /\ task.step = "fill" /\ Touchable(task.frame) => PageLink(Target, Va) = task.frame

SpaceIInv ==
  /\ TypeOK
  /\ Distinct
  /\ Allocated
  /\ InOrder
  /\ Rooted
  /\ TaskOK
  /\ HandOK

(* Frames the kernel does not map: at most two of them are taken until it  *)
(* halts, and as many again after the preemption.                          *)
Beyond == frame_bitmap \ (0 .. MappedFrames - 1)

BeyondInHand ==
  IF task # NULL /\ task.step \in {"map", "fill"} /\ task.frame >= MappedFrames THEN 1 ELSE 0

BeforePreemption == IF preempted THEN 2 ELSE 0

BeyondNow == IF halted THEN 2 ELSE BeyondInHand

BeyondBounded == Cardinality(Beyond) <= BeforePreemption + BeyondNow

(* What the memory of processes is made of, through links.                 *)
Datum(p, va) ==
  IF PageLink(p, va) # NULL /\ va \notin Unseen(p) THEN mem[PageLink(p, va)].data ELSE "zero"

(* create_process takes frames below the part of the module it has yet to  *)
(* copy: of its own, those for the page it is at and its table.            *)
FramesTaken ==
  (IF task.step = "directory" THEN 0 ELSE IF task.step = "page" THEN 1 ELSE 2)
    + (IF task.step # "directory" /\ TableOf(Target, PdIndex(CodePage)) # NULL THEN 1 ELSE 0)

ModuleIntact(va, n) ==
  /\ mem[ModuleFrame + (va - CodePage)].data = "code"
  /\ \A f \in frame_bitmap : f < ReservedFrames + (va - CodePage) + n

FreshData == task = NULL /\ last = 0 => \A va \in CodePages : ModuleIntact(va, 0)

(* The pages done hold what their process is to find there: the program,   *)
(* or what the parent has.                                                 *)
CreateData ==
  task # NULL /\ task.op = "create" =>
    /\ \A va \in Pages :
         va \notin task.todo /\ PageLink(Target, va) # NULL =>
           va \in CodePages /\ mem[PageLink(Target, va)].data = "code"
    /\ \A va \in CodePages \ task.todo : PageLink(Target, va) # NULL
    /\ \A va \in task.todo : ModuleIntact(va, FramesTaken)

ForkData ==
  task # NULL /\ task.op = "fork" =>
    /\ \A va \in Pages :
         PageLink(Target, va) # NULL =>
           /\ PageLink(cpu, va) # NULL
           /\ mem[PageLink(Target, va)].data = mem[PageLink(cpu, va)].data
    /\ \A va \in Pages :
         PageLink(cpu, va) # NULL => va \in task.todo \/ PageLink(Target, va) # NULL
    /\ task.step \in {"map", "fill"} =>
         mem[task.frame].data = mem[PageLink(cpu, Va)].data

DataOK == FreshData /\ CreateData /\ ForkData

-----------------------------------------------------------------------------
(***************************************************************************)
(* Numbers of pages and frames.                                            *)
(***************************************************************************)

(* A set of naturals that is not empty has a least element.                *)
LEMMA LeastElement ==
  ASSUME NEW S \in SUBSET Nat, S # {}
  PROVE  \E m \in S : \A k \in S : m <= k
PROOF
<1> DEFINE T == {0 .. n : n \in S}
<1>1. IsWellFoundedOn(StrictSubsetOrdering(Nat), FiniteSubsetsOf(Nat))
  BY FS_StrictSubsetOrderingWellFounded
<1>2. T \subseteq FiniteSubsetsOf(Nat) /\ T # {}
  <2>1. \A n \in S : 0 .. n \in SUBSET Nat /\ IsFiniteSet(0 .. n)
    BY FS_Interval
  <2> QED BY <2>1 DEF FiniteSubsetsOf
<1>3. PICK x \in T : \A y \in T : ~ (<<y, x>> \in StrictSubsetOrdering(Nat))
  <2> HIDE DEF T
  <2> QED BY <1>1, <1>2, WFMin
<1>4. PICK m \in S : x = 0 .. m
  OBVIOUS
<1>5. ASSUME NEW k \in S PROVE m <= k
  <2> SUFFICES ASSUME k < m PROVE FALSE
    OBVIOUS
  <2>1. 0 .. k \in T /\ 0 .. k \subseteq 0 .. m /\ m \in 0 .. m /\ m \notin 0 .. k
    OBVIOUS
  <2>2. <<0 .. k, 0 .. m>> \in (SUBSET Nat) \X (SUBSET Nat)
    OBVIOUS
  <2> QED BY <1>3, <1>4, <2>1, <2>2 DEF StrictSubsetOrdering
<1> QED BY <1>5

(* A page number and its two indices determine each other.                 *)
LEMMA PageIndices ==
  ASSUME NEW va \in Pages
  PROVE  /\ PdIndex(va) \in Index
         /\ PtIndex(va) \in Index
         /\ va = Entries * PdIndex(va) + PtIndex(va)
PROOF
<1> USE EntriesAssumption DEF Pages, Index, PdIndex, PtIndex
<1>1. PtIndex(va) \in Index /\ PdIndex(va) \in Int /\ va = Entries * PdIndex(va) + PtIndex(va)
  OBVIOUS
<1>2. PdIndex(va) >= 0
  OBVIOUS
<1>3. PdIndex(va) <= Entries - 1
  <2> SUFFICES ASSUME PdIndex(va) >= Entries PROVE FALSE
    BY <1>1
  <2>1. Entries * PdIndex(va) >= Entries * Entries
    BY <1>1
  <2> QED BY <1>1, <2>1
<1> QED BY <1>1, <1>2, <1>3

(* Two pages with the same two indices are one: PD_INDEX and PT_INDEX keep *)
(* all of the page number.                                                 *)
LEMMA PagesDiffer ==
  ASSUME NEW va \in Pages, NEW w \in Pages,
         PdIndex(va) = PdIndex(w), PtIndex(va) = PtIndex(w)
  PROVE  va = w
PROOF BY PageIndices

(* Division takes the index of an entry out of a page number again.        *)
LEMMA Quotient ==
  ASSUME NEW q \in Nat, NEW r \in Nat, r < Entries
  PROVE  (Entries * q + r) \div Entries = q
PROOF BY EntriesAssumption

(* The program's pages are pages, all of one table.                        *)
LEMMA CodePagesOK ==
  /\ CodePages \subseteq Pages
  /\ \A va \in CodePages : PdIndex(va) = PdIndex(CodePage)
PROOF
<1> USE EntriesAssumption, ModuleAssumption
<1>1. CodePages \subseteq Pages
  <2>1. Entries * Entries \in Nat
    OBVIOUS
  <2> QED BY <2>1 DEF CodePages, Pages
<1>2. ASSUME NEW va \in CodePages PROVE PdIndex(va) = PdIndex(CodePage)
  <2> DEFINE m == va - CodePage
  <2>1. m \in Nat /\ (CodePage % Entries) + m < Entries /\ va = CodePage + m
    BY DEF CodePages
  <2>2. /\ CodePage = Entries * (CodePage \div Entries) + (CodePage % Entries)
        /\ CodePage % Entries \in 0 .. Entries - 1
        /\ CodePage \div Entries \in Nat
    OBVIOUS
  <2>3. va = Entries * (CodePage \div Entries) + ((CodePage % Entries) + m)
    BY <2>1, <2>2
  <2>4. va \div Entries = CodePage \div Entries
    <3> DEFINE q == CodePage \div Entries
               r == (CodePage % Entries) + m
    <3>1. q \in Nat /\ r \in Nat /\ r < Entries /\ va = Entries * q + r
      BY <2>1, <2>2, <2>3
    <3> HIDE DEF q, r, m
    <3>2. va \div Entries = q
      BY <3>1, Quotient
    <3> QED BY <3>2 DEF q
  <2> QED BY <2>4 DEF PdIndex
<1> QED BY <1>1, <1>2

(* alloc_frame returns 0, and every bit is set, or the first clear frame.  *)
LEMMA AllocFrame ==
  ASSUME TypeOK, InOrder
  PROVE  \/ alloc_frame = 0 /\ Frames \subseteq frame_bitmap
         \/ /\ alloc_frame # 0
            /\ alloc_frame \in Frames \ frame_bitmap
            /\ alloc_frame \notin Reserved
            /\ \A f \in frame_bitmap : f < alloc_frame
            /\ \A f \in Frames : f < alloc_frame => f \in frame_bitmap
PROOF
<1> USE FramesAssumption
<1>1. CASE Clear = {}
  BY <1>1 DEF Clear, alloc_frame
<1>2. CASE Clear # {}
  <2>1. Clear \in SUBSET Nat
    BY DEF Clear, Frames
  <2>2. \E f \in Clear : \A g \in Clear : f <= g
    BY <1>2, <2>1, LeastElement
  <2>3. alloc_frame \in Clear /\ \A g \in Clear : alloc_frame <= g
    BY <1>2, <2>2 DEF alloc_frame
  <2>4. alloc_frame \in Frames \ frame_bitmap
    BY <2>3 DEF Clear
  <2>5. 0 \in Reserved
    BY DEF Reserved
  <2>6. alloc_frame \notin Reserved /\ alloc_frame # 0
    BY <2>4, <2>5 DEF InOrder
  <2>7. ASSUME NEW f \in frame_bitmap PROVE f < alloc_frame
    <3>1. f \in Frames
      BY DEF TypeOK
    <3>2. ~ (alloc_frame <= f)
      BY <2>4 DEF InOrder
    <3> QED BY <2>4, <3>1, <3>2 DEF Frames
  <2>8. ASSUME NEW f \in Frames, f < alloc_frame PROVE f \in frame_bitmap
    BY <2>3, <2>4, <2>8 DEF Clear, Frames
  <2> QED BY <2>4, <2>6, <2>7, <2>8
<1> QED BY <1>1, <1>2

(* The page a task is at is the lowest of those it has yet to do.          *)
LEMMA VaLowest ==
  ASSUME TypeOK, task # NULL, task.todo # {}
  PROVE  Va \in task.todo /\ Va \in Pages /\ \A w \in task.todo : Va <= w
PROOF
<1>1. task.todo \in SUBSET Pages
  BY DEF TypeOK, Tasks
<1>2. Pages \subseteq Nat
  BY DEF Pages
<1>3. \E va \in task.todo : \A w \in task.todo : va <= w
  BY <1>1, <1>2, LeastElement
<1> QED BY <1>1, <1>3 DEF Va

-----------------------------------------------------------------------------
(***************************************************************************)
(* How the steps change what points where.                                 *)
(***************************************************************************)

(* Links lead to frames; NULL is no index and no frame.                    *)
LEMMA LinkType ==
  ASSUME TypeOK, NEW p \in Pids
  PROVE  /\ cr3[p] \in Frames \union {NULL}
         /\ \A i \in Index : TableOf(p, i) \in Frames \union {NULL}
         /\ \A i, j \in Index : PageOf(p, i, j) \in Frames \union {NULL}
         /\ \A i, j \in Optional : Link(p, i, j) \in Frames \union {NULL}
PROOF
<1>1. cr3[p] \in Frames \union {NULL}
  BY DEF TypeOK
<1>2. ASSUME NEW i \in Index PROVE TableOf(p, i) \in Frames \union {NULL}
  BY <1>1 DEF TypeOK, TableOf
<1>3. ASSUME NEW i \in Index, NEW j \in Index PROVE PageOf(p, i, j) \in Frames \union {NULL}
  BY <1>2 DEF TypeOK, PageOf
<1> QED BY <1>1, <1>2, <1>3 DEF Link, Optional

(* The absence of a frame or an index is no frame and no index.            *)
LEMMA NullApart == NULL \notin Index /\ NULL \notin Frames
PROOF BY NoFrameAssumption, EntriesAssumption, FramesAssumption DEF Index, Frames

(* The three kinds of links.                                               *)
LEMMA LinkForms ==
  ASSUME NEW p \in Pids
  PROVE  /\ Link(p, NULL, NULL) = cr3[p]
         /\ \A i \in Index : Link(p, i, NULL) = TableOf(p, i)
         /\ \A i, j \in Index : Link(p, i, j) = PageOf(p, i, j)
         /\ \A j \in Index : Link(p, NULL, j) = NULL
PROOF BY NullApart DEF Link

(* Nothing changes as long as directories and tables keep their entries.   *)
LEMMA LinksKept ==
  ASSUME TypeOK, cr3' = cr3,
         \A p \in Pids : cr3[p] # NULL => mem'[cr3[p]].table = mem[cr3[p]].table,
         \A p \in Pids, i \in Index :
           TableOf(p, i) # NULL => mem'[TableOf(p, i)].table = mem[TableOf(p, i)].table
  PROVE  \A p \in Pids :
           /\ \A i \in Index : TableOf(p, i)' = TableOf(p, i)
           /\ \A i, j \in Index : PageOf(p, i, j)' = PageOf(p, i, j)
           /\ \A i, j \in Optional : Link(p, i, j)' = Link(p, i, j)
PROOF
<1> SUFFICES ASSUME NEW p \in Pids
             PROVE /\ \A i \in Index : TableOf(p, i)' = TableOf(p, i)
                   /\ \A i, j \in Index : PageOf(p, i, j)' = PageOf(p, i, j)
                   /\ \A i, j \in Optional : Link(p, i, j)' = Link(p, i, j)
  OBVIOUS
<1>1. ASSUME NEW i \in Index PROVE TableOf(p, i)' = TableOf(p, i)
  BY DEF TableOf
<1>2. ASSUME NEW i \in Index, NEW j \in Index PROVE PageOf(p, i, j)' = PageOf(p, i, j)
  BY <1>1 DEF PageOf
<1> QED BY <1>1, <1>2 DEF Link, Optional

(* A frame that is neither a directory nor a table may change.             *)
LEMMA FrameChanged ==
  ASSUME TypeOK, cr3' = cr3, NEW f \in Frames, NEW r,
         mem' = [mem EXCEPT ![f] = r],
         \A p \in Pids : cr3[p] # f,
         \A p \in Pids, i \in Index : TableOf(p, i) # f
  PROVE  \A p \in Pids :
           /\ \A i \in Index : TableOf(p, i)' = TableOf(p, i)
           /\ \A i, j \in Index : PageOf(p, i, j)' = PageOf(p, i, j)
           /\ \A i, j \in Optional : Link(p, i, j)' = Link(p, i, j)
PROOF
<1>1. \A g \in Frames : g # f => mem'[g] = mem[g]
  BY DEF TypeOK
<1>2. \A p \in Pids : cr3[p] # NULL => mem'[cr3[p]].table = mem[cr3[p]].table
  BY <1>1, LinkType
<1>3. \A p \in Pids, i \in Index :
        TableOf(p, i) # NULL => mem'[TableOf(p, i)].table = mem[TableOf(p, i)].table
  BY <1>1, LinkType
<1> QED BY <1>2, <1>3, LinksKept

(* A frame f nothing points to is now what link (q, k, l) is.              *)
Linked(f, q, k, l) ==
  \A p \in Pids : \A i, j \in Optional :
    Link(p, i, j)' = IF p = q /\ i = k /\ j = l THEN f ELSE Link(p, i, j)

Unlinked(f) == \A p \in Pids : \A i, j \in Optional : Link(p, i, j) # f

(* A new directory, for a process without one.                             *)
LEMMA NewDirectory ==
  ASSUME TypeOK, NEW q \in Pids, cr3[q] = NULL, NEW f \in Frames, Unlinked(f),
         mem' = [mem EXCEPT ![f] = EmptyTable],
         cr3' = [cr3 EXCEPT ![q] = f]
  PROVE  Linked(f, q, NULL, NULL)
PROOF
<1> SUFFICES ASSUME NEW p \in Pids
             PROVE \A i, j \in Optional :
                     Link(p, i, j)' = IF p = q /\ i = NULL /\ j = NULL THEN f ELSE Link(p, i, j)
  BY DEF Linked
<1>1. \A g \in Frames : g # f => mem'[g] = mem[g]
  BY DEF TypeOK
<1>2. mem'[f].table = NoEntries
  BY DEF TypeOK, EmptyTable, Page
<1>3. CASE p = q
  <2>1. cr3'[p] = f /\ cr3[p] = NULL /\ f # NULL
    BY <1>3, NullApart DEF TypeOK
  <2>2. \A i \in Index : TableOf(p, i)' = NULL /\ TableOf(p, i) = NULL
    BY <1>2, <2>1 DEF TableOf, NoEntries
  <2>3. \A i, j \in Index : PageOf(p, i, j)' = NULL /\ PageOf(p, i, j) = NULL
    BY <2>2 DEF PageOf
  <2> QED BY <1>3, <2>1, <2>2, <2>3, NullApart DEF Link, Optional
<1>4. CASE p # q
  <2>1. cr3'[p] = cr3[p] /\ cr3[p] # f
    BY <1>4, LinkForms DEF TypeOK, Unlinked, Optional
  <2>2. \A i \in Index : TableOf(p, i)' = TableOf(p, i) /\ TableOf(p, i) # f
    BY <1>1, <2>1, LinkType, LinkForms DEF TableOf, Unlinked, Optional
  <2>3. \A i, j \in Index : PageOf(p, i, j)' = PageOf(p, i, j)
    BY <1>1, <2>2, LinkType DEF PageOf
  <2> QED BY <1>4, <2>1, <2>2, <2>3 DEF Link, Optional
<1> QED BY <1>3, <1>4

(* A new table, at an entry of a directory without one.                    *)
LEMMA NewTable ==
  ASSUME TypeOK, Distinct, NEW q \in Pids, cr3[q] # NULL, NEW k \in Index, TableOf(q, k) = NULL,
         NEW f \in Frames, Unlinked(f),
         mem' = [mem EXCEPT ![f] = EmptyTable, ![cr3[q]].table[k] = f],
         cr3' = cr3
  PROVE  Linked(f, q, k, NULL)
PROOF
<1> SUFFICES ASSUME NEW p \in Pids
             PROVE \A i, j \in Optional :
                     Link(p, i, j)' = IF p = q /\ i = k /\ j = NULL THEN f ELSE Link(p, i, j)
  BY DEF Linked
<1> DEFINE d == cr3[q]
<1>1. d \in Frames /\ d # f
  BY LinkType, LinkForms DEF Unlinked, Optional
<1>2. \A g \in Frames : g # f /\ g # d => mem'[g] = mem[g]
  BY <1>1 DEF TypeOK
<1>3. mem'[f].table = NoEntries
  BY <1>1 DEF TypeOK, EmptyTable, Page
<1>4. \A i \in Index : mem'[d].table[i] = IF i = k THEN f ELSE mem[d].table[i]
  BY <1>1 DEF TypeOK
<1>5. cr3[p] # f /\ (cr3[p] = d => p = q)
  BY LinkForms, LinkType, NullApart DEF Unlinked, Distinct, Optional
<1>6. ASSUME NEW i \in Index
      PROVE TableOf(p, i)' = IF p = q /\ i = k THEN f ELSE TableOf(p, i)
  <2>1. CASE cr3[p] = NULL
    BY <2>1 DEF TableOf
  <2>2. CASE cr3[p] = d
    BY <1>4, <1>5, <2>2 DEF TableOf
  <2>3. CASE cr3[p] # NULL /\ cr3[p] # d
    <3>1. p # q /\ cr3[p] \in Frames
      BY <2>3, LinkType
    <3>2. mem'[cr3[p]] = mem[cr3[p]]
      BY <1>2, <1>5, <2>3, <3>1
    <3> QED BY <2>3, <3>1, <3>2 DEF TableOf
  <2> QED BY <2>1, <2>2, <2>3
<1>7. ASSUME NEW i \in Index, NEW j \in Index
      PROVE PageOf(p, i, j)' = PageOf(p, i, j)
  <2>1. CASE p = q /\ i = k
    BY <1>3, <1>6, <2>1, NullApart DEF PageOf, NoEntries
  <2>2. CASE ~(p = q /\ i = k)
    <3>1. TableOf(p, i)' = TableOf(p, i)
      BY <1>6, <2>2
    <3>2. TableOf(p, i) # NULL => TableOf(p, i) \in Frames /\ TableOf(p, i) # f /\ TableOf(p, i) # d
      BY LinkForms, LinkType, NullApart DEF Unlinked, Distinct, Optional
    <3>3. TableOf(p, i) # NULL => mem'[TableOf(p, i)] = mem[TableOf(p, i)]
      BY <1>2, <3>2
    <3>4. CASE TableOf(p, i) = NULL
      BY <3>1, <3>4 DEF PageOf
    <3>5. CASE TableOf(p, i) # NULL
      <4>1. mem'[TableOf(p, i)'].table[j] = mem[TableOf(p, i)].table[j]
        BY <3>1, <3>3, <3>5
      <4> QED BY <3>1, <3>5, <4>1 DEF PageOf
    <3> QED BY <3>4, <3>5
  <2> QED BY <2>1, <2>2
<1> QED BY <1>5, <1>6, <1>7, NullApart DEF Link, Optional

(* A new page, at an entry of a table without one.                         *)
LEMMA NewPage ==
  ASSUME TypeOK, Distinct, NEW q \in Pids, NEW k \in Index, NEW l \in Index,
         TableOf(q, k) # NULL, PageOf(q, k, l) = NULL, NEW f \in Frames, Unlinked(f),
         mem' = [mem EXCEPT ![TableOf(q, k)].table[l] = f],
         cr3' = cr3
  PROVE  Linked(f, q, k, l)
PROOF
<1> SUFFICES ASSUME NEW p \in Pids
             PROVE \A i, j \in Optional :
                     Link(p, i, j)' = IF p = q /\ i = k /\ j = l THEN f ELSE Link(p, i, j)
  BY DEF Linked
<1> DEFINE t == TableOf(q, k)
<1>1. t \in Frames
  BY LinkType
<1>2. \A g \in Frames : g # t => mem'[g] = mem[g]
  BY <1>1 DEF TypeOK
<1>3. \A j \in Index : mem'[t].table[j] = IF j = l THEN f ELSE mem[t].table[j]
  BY <1>1 DEF TypeOK
<1>4. cr3[p] # NULL => cr3[p] # t /\ cr3[p] \in Frames
  BY LinkForms, LinkType, NullApart DEF Distinct, Optional
<1>5. ASSUME NEW i \in Index PROVE TableOf(p, i)' = TableOf(p, i)
  BY <1>2, <1>4 DEF TableOf
<1>6. ASSUME NEW i \in Index, NEW j \in Index
      PROVE PageOf(p, i, j)' = IF p = q /\ i = k /\ j = l THEN f ELSE PageOf(p, i, j)
  <2>1. CASE p = q /\ i = k
    BY <1>3, <1>5, <2>1 DEF PageOf
  <2>2. CASE ~(p = q /\ i = k)
    <3>1. TableOf(p, i) # NULL => TableOf(p, i) \in Frames /\ TableOf(p, i) # t
      BY <2>2, LinkForms, LinkType, NullApart DEF Distinct, Optional
    <3> QED BY <1>2, <1>5, <2>2, <3>1 DEF PageOf
  <2> QED BY <2>1, <2>2
<1> QED BY <1>5, <1>6, NullApart DEF Link, Optional

(* A new link to a frame nothing pointed to leaves frames with one use.    *)
LEMMA LinkedOK ==
  ASSUME Distinct, Allocated, NEW q \in Pids, NEW k \in Optional, NEW l \in Optional,
         NEW f \in Frames, Unlinked(f), Linked(f, q, k, l),
         f \in frame_bitmap' \ Reserved, frame_bitmap \subseteq frame_bitmap'
  PROVE  Distinct' /\ Allocated'
PROOF
<1>1. Distinct'
  <2> SUFFICES ASSUME NEW p \in Pids, NEW r \in Pids,
                      NEW i \in Optional, NEW j \in Optional,
                      NEW m \in Optional, NEW n \in Optional,
                      Link(p, i, j)' # NULL, Link(p, i, j)' = Link(r, m, n)'
               PROVE p = r /\ i = m /\ j = n
    BY DEF Distinct, Optional, Index
  <2> QED BY DEF Distinct, Linked, Unlinked
<1>2. Allocated'
  <2> SUFFICES ASSUME NEW p \in Pids, NEW i \in Optional, NEW j \in Optional,
                      Link(p, i, j)' # NULL
               PROVE Link(p, i, j)' \in frame_bitmap' \ Reserved
    BY DEF Allocated, Optional, Index, Reserved
  <2> QED BY DEF Allocated, Linked
<1> QED BY <1>1, <1>2

(* Where links stay and bits stay set, no frame gets a second use.         *)
LEMMA KeptOK ==
  ASSUME Distinct, Allocated, frame_bitmap \subseteq frame_bitmap',
         \A p \in Pids : \A i, j \in Optional : Link(p, i, j)' = Link(p, i, j)
  PROVE  Distinct' /\ Allocated'
PROOF BY DEF Distinct, Allocated, Optional, Index, Reserved

(* Memory that does not change links what it linked.                       *)
LEMMA LinksSame ==
  ASSUME UNCHANGED <<mem, cr3>>
  PROVE  \A p \in Pids :
           /\ \A i \in Index : TableOf(p, i)' = TableOf(p, i)
           /\ \A i, j \in Index : PageOf(p, i, j)' = PageOf(p, i, j)
           /\ \A i, j \in Optional : Link(p, i, j)' = Link(p, i, j)
PROOF BY DEF Link, TableOf, PageOf

(* The frame alloc_frame returns is in no use.                             *)
LEMMA FreshFrame ==
  ASSUME TypeOK, InOrder, Allocated, alloc_frame # 0
  PROVE  /\ alloc_frame \in Frames
         /\ Unlinked(alloc_frame)
PROOF
<1>1. alloc_frame \in Frames \ frame_bitmap /\ alloc_frame # NULL
  BY AllocFrame, NullApart
<1> QED BY <1>1 DEF Unlinked, Allocated

(* set_bit after alloc_frame.                                              *)
LEMMA SetBitOK ==
  ASSUME TypeOK, InOrder, alloc_frame # 0, SetBit(alloc_frame)
  PROVE  /\ InOrder'
         /\ frame_bitmap \subseteq frame_bitmap'
         /\ frame_bitmap' \subseteq Frames
         /\ alloc_frame \in frame_bitmap' \ Reserved
         /\ \A f \in frame_bitmap' : f <= alloc_frame
PROOF
<1>1. /\ alloc_frame \in Frames \ frame_bitmap
      /\ alloc_frame \notin Reserved
      /\ \A f \in frame_bitmap : f < alloc_frame
      /\ \A f \in Frames : f < alloc_frame => f \in frame_bitmap
  BY AllocFrame
<1>2. frame_bitmap' = frame_bitmap \union {alloc_frame} /\ frame_bitmap \subseteq Frames
  BY DEF SetBit, TypeOK
<1> DEFINE f == alloc_frame
<1> HIDE DEF f
<1>3. InOrder'
  <2>1. f \in Frames /\ Frames \subseteq Nat /\ frame_bitmap' = frame_bitmap \union {f}
    BY <1>1, <1>2, FramesAssumption DEF f, Frames
  <2>2. \A g \in Frames : g <= f => g \in frame_bitmap'
    BY <1>1, <2>1 DEF f
  <2> QED BY <2>1, <2>2 DEF InOrder, Reserved, Frames
<1> QED BY <1>1, <1>2, <1>3, FramesAssumption DEF Frames

(* The page of an address, through links and as the processor finds it.    *)
LEMMA PageLinkForm ==
  ASSUME TypeOK, NEW p \in Pids, NEW va \in Pages
  PROVE  /\ PdIndex(va) \in Index /\ PtIndex(va) \in Index
         /\ PageLink(p, va) = Link(p, PdIndex(va), PtIndex(va))
         /\ PageLink(p, va) \in Frames \union {NULL}
         /\ TableOf(p, PdIndex(va)) = NULL => PageLink(p, va) = NULL
         /\ cr3[p] = NULL => TableOf(p, PdIndex(va)) = NULL
         /\ cr3[p] # NULL =>
              /\ TableFrame(p, va) = TableOf(p, PdIndex(va))
              /\ PageFrame(p, va) = PageLink(p, va)
PROOF
<1>1. PdIndex(va) \in Index /\ PtIndex(va) \in Index
  BY PageIndices
<1>2. PageLink(p, va) = Link(p, PdIndex(va), PtIndex(va))
  BY <1>1, LinkForms DEF PageLink
<1>3. PageLink(p, va) \in Frames \union {NULL}
  BY <1>1, LinkType DEF PageLink
<1>4. cr3[p] # NULL => TableFrame(p, va) = TableOf(p, PdIndex(va))
  BY DEF TableFrame, TableOf
<1> QED BY <1>1, <1>2, <1>3, <1>4 DEF PageLink, PageOf, PageFrame, TableOf

(* In short, for addresses.                                                *)
LEMMA PageLinksKept ==
  ASSUME NEW p \in Pids, NEW va \in Pages,
         \A i, j \in Optional : Link(p, i, j)' = Link(p, i, j)
  PROVE  PageLink(p, va)' = PageLink(p, va)
PROOF
<1>1. PdIndex(va) \in Index /\ PtIndex(va) \in Index
  BY PageIndices
<1>2. PageLink(p, va) = Link(p, PdIndex(va), PtIndex(va))
  BY <1>1, LinkForms DEF PageLink
<1>3. PageLink(p, va)' = Link(p, PdIndex(va), PtIndex(va))'
  BY <1>1, NullApart DEF PageLink, Link
<1> QED BY <1>1, <1>2, <1>3 DEF Optional

(* Processes are Pids, the one a task is for among them.                   *)
LEMMA TargetOK ==
  ASSUME SpaceIInv
  PROVE  /\ cpu # 0 => cpu \in Pids /\ cr3[cpu] \in Frames
         /\ \A p \in waiting : p \in Pids /\ p <= last /\ cr3[p] \in Frames
         /\ last \in Nat /\ cpu \in Nat /\ cpu <= last
         /\ task # NULL => task \in Tasks
         /\ task # NULL /\ task.op # "exit" => Target \in Pids
         /\ task # NULL /\ task.op # "exit" /\ task.step # "directory" => cr3[Target] \in Frames
PROOF
<1> USE PidsAssumption
<1>1. last \in 0 .. MaxPid /\ cpu \in 0 .. last /\ waiting \subseteq 1 .. last
  BY DEF SpaceIInv, TypeOK
<1>2. cpu # 0 => cpu \in Pids
  BY <1>1 DEF Pids
<1>3. \A p \in waiting : p \in Pids /\ p <= last
  BY <1>1 DEF Pids
<1>4. \A p \in waiting \union ({cpu} \ {0}) : cr3[p] # NULL
  BY DEF SpaceIInv, Rooted
<1>5. task # NULL => task \in Tasks
  BY DEF SpaceIInv, TypeOK
<1>6. ASSUME task # NULL, task.op # "exit" PROVE Target \in Pids
  <2>1. task.op \in {"create", "fork", "fault"}
    BY <1>5, <1>6 DEF Tasks
  <2>2. CASE Creating
    BY <1>1, <1>6, <2>2 DEF Target, SpaceIInv, TaskOK, Pids
  <2>3. CASE ~Creating
    BY <1>2, <1>6, <2>1, <2>3 DEF Target, Creating, SpaceIInv, TaskOK
  <2> QED BY <2>2, <2>3
<1>7. task # NULL /\ task.op # "exit" /\ task.step # "directory" => cr3[Target] # NULL
  BY DEF SpaceIInv, TaskOK
<1> QED BY <1>1, <1>2, <1>3, <1>4, <1>5, <1>6, <1>7, LinkType DEF SpaceIInv

-----------------------------------------------------------------------------
(***************************************************************************)
(* The invariant, action by action.                                        *)
(***************************************************************************)
LEMMA SpaceInitOK == Init => SpaceIInv
PROOF
<1> SUFFICES ASSUME Init PROVE SpaceIInv
  OBVIOUS
<1>1. TypeOK
  <2>1. mem \in [Frames -> [data : Data, table : [Index -> Frames \union {NULL}]]]
    BY DEF Init, Page, NoEntries, Data
  <2>2. frame_bitmap \subseteq Frames
    BY FramesAssumption DEF Init, Frames
  <2>3. cr3 \in [Pids -> Frames \union {NULL}]
    BY DEF Init
  <2> HIDE DEF Init
  <2>4. /\ last = 0 /\ waiting = {} /\ cpu = 0 /\ done = FALSE /\ preempted = FALSE
        /\ task = NULL /\ halted = FALSE
    BY DEF Init, Sched!Init
  <2>5. done \in BOOLEAN /\ preempted \in BOOLEAN /\ halted \in BOOLEAN
    BY <2>4
  <2>6. last \in 0 .. MaxPid /\ waiting \subseteq 1 .. last /\ cpu \in 0 .. last
    BY <2>4, PidsAssumption
  <2> QED BY <2>1, <2>2, <2>3, <2>4, <2>5, <2>6 DEF TypeOK
<1>2. \A p \in Pids : cr3[p] = NULL
  BY DEF Init
<1>3. \A p \in Pids : \A i, j \in Optional : Link(p, i, j) = NULL
  BY <1>2 DEF Link, PageOf, TableOf
<1>4. Distinct /\ Allocated
  BY <1>3 DEF Distinct, Allocated
<1>5. InOrder
  BY FramesAssumption DEF Init, InOrder, Reserved, Frames
<1>6. Rooted
  BY <1>2 DEF Init, Sched!Init, Rooted
<1> QED BY <1>1, <1>4, <1>5, <1>6 DEF SpaceIInv, TaskOK, HandOK, Init

(* A task that ends before it is done, with or without a bit set.          *)
LEMMA AbandonOK ==
  ASSUME SpaceIInv, task # NULL, Abandon, halted' \in BOOLEAN,
         InOrder', frame_bitmap \subseteq frame_bitmap', frame_bitmap' \subseteq Frames
  PROVE  SpaceIInv'
PROOF
<1> USE PidsAssumption
<1>1. task' = NULL /\ UNCHANGED <<mem, cr3, waiting, cpu, done, preempted>>
  BY DEF Abandon, Sched!Fail, schedVars
<1>2. \/ Creating /\ last' = last + 1 /\ last < MaxPid
      \/ ~Creating /\ last' = last /\ cpu # 0
  <2>1. Creating => last < MaxPid
    BY DEF SpaceIInv, TaskOK
  <2>2. ~Creating => cpu # 0
    <3>1. task.op \in {"create", "fork", "fault", "exit"}
      BY DEF SpaceIInv, TypeOK, Tasks
    <3> QED BY <3>1 DEF Creating, SpaceIInv, TaskOK
  <2> QED BY <2>1, <2>2 DEF Abandon, Sched!Fail, schedVars
<1>3. TypeOK'
  <2>1. last' \in 0 .. MaxPid /\ last <= last'
    BY <1>2 DEF SpaceIInv, TypeOK
  <2>2. waiting' \subseteq 1 .. last' /\ cpu' \in 0 .. last'
    BY <1>1, <2>1 DEF SpaceIInv, TypeOK
  <2> QED BY <1>1, <2>1, <2>2 DEF SpaceIInv, TypeOK, Frames, Pids, Index, Data
<1>4. Distinct' /\ Allocated'
  BY <1>1, KeptOK, LinksSame DEF SpaceIInv
<1>5. Rooted'
  <2>1. cpu' \notin waiting' /\ \A p \in waiting' \union ({cpu'} \ {0}) : cr3'[p] # NULL
    BY <1>1 DEF SpaceIInv, Rooted
  <2>2. ASSUME NEW p \in Pids, p > last', cr3'[p] # NULL PROVE FALSE
    BY <1>1, <1>2, <2>2 DEF SpaceIInv, Rooted, TypeOK, Pids
  <2>3. last' # 0 /\ (cpu' = 0 => waiting' = {})
    <3>1. cpu = 0 => last = 0
      BY <1>2 DEF SpaceIInv, TaskOK, Creating
    <3> QED BY <1>1, <1>2, <3>1 DEF SpaceIInv, TypeOK
  <2> QED BY <1>1, <2>1, <2>2, <2>3 DEF Rooted, Pids
<1> QED BY <1>1, <1>3, <1>4, <1>5 DEF SpaceIInv, TaskOK, HandOK

(* The three ways alloc_frame's result ends or does not end a task.        *)
LEMMA OutOfMemoryOK ==
  ASSUME SpaceIInv, task # NULL, OutOfMemory
  PROVE  SpaceIInv'
PROOF
<1>1. halted' \in BOOLEAN /\ Abandon /\ frame_bitmap' = frame_bitmap
  BY DEF OutOfMemory
<1>2. InOrder'
  BY <1>1 DEF SpaceIInv, InOrder, Reserved, Frames
<1> QED BY <1>1, <1>2, AbandonOK DEF SpaceIInv, TypeOK

(* The kernel faults on the frame it has just allocated: it is lost, and   *)
(* nothing else.                                                           *)
LEMMA KernelFaultOK ==
  ASSUME SpaceIInv, task # NULL, KernelFault, alloc_frame # 0, SetBit(alloc_frame)
  PROVE  SpaceIInv'
PROOF
<1>1. halted' \in BOOLEAN /\ Abandon
  BY DEF KernelFault
<1> QED BY <1>1, SetBitOK, AbandonOK DEF SpaceIInv

(* What a frame may hold.                                                  *)
Contents == [data : Data, table : [Index -> Frames \union {NULL}]]

(* What create_page_directory and map_page clear a frame to.               *)
LEMMA EmptyTableOK == EmptyTable \in Contents
PROOF BY DEF EmptyTable, Page, NoEntries, Contents, Data

(* A step of a task that goes on.                                          *)
LEMMA TypeKept ==
  ASSUME TypeOK, UNCHANGED <<schedVars, halted>>,
         frame_bitmap' \subseteq Frames, mem' \in [Frames -> Contents],
         cr3' \in [Pids -> Frames \union {NULL}],
         task' \in Tasks, task'.frame # NULL <=> task'.step \in {"map", "fill"}
  PROVE  TypeOK'
PROOF BY DEF TypeOK, schedVars, Contents, Frames, Pids, Index, Data, Tasks, Pages

(* Who has the CPU and what the task is for stays the same.                *)
LEMMA TaskContinues ==
  ASSUME SpaceIInv, task # NULL, task.op # "exit", UNCHANGED <<schedVars, halted>>,
         task' \in Tasks, task'.op = task.op
  PROVE  /\ task' # NULL /\ Target' = Target /\ Creating' = Creating /\ (Creating => last < MaxPid)
         /\ last' = last /\ cpu' = cpu /\ waiting' = waiting
         /\ ~halted' /\ ~halted
PROOF
<1>1. ~halted
  BY DEF SpaceIInv, Rooted
<1>2. Creating => last < MaxPid
  BY DEF SpaceIInv, TaskOK
<1> QED BY <1>1, <1>2, NoTaskAssumption DEF Target, Creating, schedVars

(* What create_page_directory does when it succeeds: process q gets frame  *)
(* f for a directory.                                                      *)
DirectoryStep(f, q) ==
  /\ f = alloc_frame /\ f # 0 /\ Touchable(f) /\ SetBit(f)
  /\ Creating /\ q = Target /\ q = last + 1 /\ cr3[q] = NULL
  /\ mem' = [mem EXCEPT ![f] = EmptyTable]
  /\ cr3' = [cr3 EXCEPT ![q] = f]
  /\ task # NULL /\ task \in Tasks /\ task.op \in {"create", "fork"}
  /\ task.step = "directory" /\ task.frame = NULL
  /\ task' \in Tasks /\ task' = [task EXCEPT !.step = "page"]
  /\ UNCHANGED <<schedVars, halted>>
  /\ Unlinked(f) /\ Linked(f, q, NULL, NULL)
  /\ \A p \in Pids, va \in Pages : PageLink(p, va)' = PageLink(p, va)

(* That is all create_page_directory does, unless it ends the task.        *)
LEMMA DirectoryEffect ==
  ASSUME SpaceIInv, CreatePageDirectory, task' # NULL
  PROVE  \E f \in Frames, q \in Pids : DirectoryStep(f, q)
PROOF
<1> DEFINE f == alloc_frame
<1> HIDE DEF f
<1>1. task # NULL /\ task \in Tasks /\ task.op # "exit" /\ task.step = "directory"
  BY TargetOK DEF CreatePageDirectory, At
<1>2. f # 0 /\ Touchable(f)
  BY DEF CreatePageDirectory, OutOfMemory, KernelFault, Abandon, f
<1>3. /\ SetBit(f)
      /\ mem' = [mem EXCEPT ![f] = EmptyTable]
      /\ cr3' = [cr3 EXCEPT ![Target] = f]
      /\ task' = [task EXCEPT !.step = "page"]
      /\ UNCHANGED <<schedVars, halted>>
  BY <1>2 DEF CreatePageDirectory, Continue, f
<1>4. f \in Frames /\ Unlinked(f)
  BY <1>2, FreshFrame DEF SpaceIInv, f
<1>5. Creating /\ task.op \in {"create", "fork"} /\ task.frame = NULL
  <2>1. task.op # "fault" /\ task.frame = NULL
    BY <1>1 DEF SpaceIInv, TaskOK, TypeOK
  <2> QED BY <1>1, <2>1 DEF Creating, Tasks
<1>6. PICK q \in Pids : q = Target /\ q = last + 1
  BY <1>1, <1>5, TargetOK DEF Target
<1>7. cr3[q] = NULL
  BY <1>1, <1>6, TargetOK DEF SpaceIInv, Rooted
<1>8. Linked(f, q, NULL, NULL)
  BY <1>3, <1>4, <1>6, <1>7, NewDirectory DEF SpaceIInv
<1>9. task' \in Tasks
  BY <1>1, <1>3 DEF Tasks
<1>10. ASSUME NEW p \in Pids, NEW va \in Pages
       PROVE PageLink(p, va)' = PageLink(p, va)
  <2>1. PdIndex(va) \in Index /\ PtIndex(va) \in Index
    BY PageIndices
  <2>2. Link(p, PdIndex(va), PtIndex(va))' = Link(p, PdIndex(va), PtIndex(va))
    BY <1>8, <2>1, NullApart DEF Linked, Optional
  <2> QED BY <2>1, <2>2, NullApart DEF PageLink, Link
<1> QED BY <1>1, <1>2, <1>3, <1>4, <1>5, <1>6, <1>7, <1>8, <1>9, <1>10 DEF f, DirectoryStep

(* create_page_directory, the process yet without a directory gets one.    *)
LEMMA CreatePageDirectoryOK ==
  ASSUME SpaceIInv, CreatePageDirectory
  PROVE  SpaceIInv'
PROOF
<1> USE DEF DirectoryStep
<1>1. task # NULL /\ task \in Tasks /\ task.op # "exit" /\ task.step = "directory"
  BY TargetOK DEF CreatePageDirectory, At
<1>2. CASE alloc_frame = 0
  BY <1>1, <1>2, OutOfMemoryOK DEF CreatePageDirectory
<1>3. CASE alloc_frame # 0 /\ ~Touchable(alloc_frame)
  BY <1>1, <1>3, KernelFaultOK DEF CreatePageDirectory
<1>4. CASE alloc_frame # 0 /\ Touchable(alloc_frame)
  <2>1. task' # NULL
    BY <1>1, <1>4, NoTaskAssumption DEF CreatePageDirectory, Continue, Tasks
  <2>2. PICK f \in Frames, q \in Pids : DirectoryStep(f, q)
    BY <2>1, DirectoryEffect
  <2>3. /\ InOrder' /\ frame_bitmap \subseteq frame_bitmap' /\ frame_bitmap' \subseteq Frames
        /\ f \in frame_bitmap' \ Reserved
    BY <2>2, SetBitOK DEF SpaceIInv
  <2>4. Distinct' /\ Allocated'
    BY <2>2, <2>3, LinkedOK DEF SpaceIInv, Optional
  <2>5. /\ task' \in Tasks
        /\ task'.op = task.op /\ task'.step = "page"
        /\ task'.todo = task.todo /\ task'.frame = task.frame
    BY <1>1, <2>2 DEF Tasks
  <2>6. TypeOK'
    <3>1. mem' \in [Frames -> Contents] /\ cr3' \in [Pids -> Frames \union {NULL}]
      BY <2>2, EmptyTableOK DEF SpaceIInv, TypeOK, Contents
    <3>2. task'.frame = NULL
      BY <1>1, <2>5 DEF SpaceIInv, TypeOK
    <3> QED BY <2>2, <2>3, <2>5, <3>1, <3>2, TypeKept DEF SpaceIInv
  <2>7. Rooted'
    <3>1. \A p \in Pids : p # q => cr3'[p] = cr3[p]
      BY <2>2 DEF SpaceIInv, TypeOK
    <3>2. \A p \in waiting \union ({cpu} \ {0}) : p \in Pids /\ p # q
      BY <2>2, TargetOK
    <3>3. \A p \in Pids : p > last' /\ cr3'[p] # NULL => p = last' + 1
      <4>1. \A p \in Pids : p > last /\ cr3[p] # NULL => p = last + 1
        BY DEF SpaceIInv, Rooted
      <4> QED BY <1>1, <2>2, <2>5, <3>1, <4>1, TaskContinues
    <3> QED BY <1>1, <2>2, <2>5, <3>1, <3>2, <3>3, TaskContinues DEF SpaceIInv, Rooted, Pids
  <2>8. TaskOK'
    <3>1. cr3'[q] # NULL
      BY <2>2, NullApart DEF SpaceIInv, TypeOK
    <3>2. \A va \in task.todo : va \in Pages /\ PageLink(q, va)' = NULL
      BY <1>1, <2>2, PageLinkForm DEF SpaceIInv, Tasks
    <3>3. PICK c : c = cpu
      OBVIOUS
    <3>4. task.op = "fork" => c \in Pids /\ c # 0 /\ \A va \in task.todo : PageLink(c, va)' # NULL
      <4>1. task.op = "fork" => c # 0 /\ \A va \in task.todo : PageLink(c, va) # NULL
        BY <1>1, <3>3 DEF SpaceIInv, TaskOK
      <4> QED BY <2>2, <3>2, <3>3, <4>1, TargetOK
    <3>5. last < MaxPid /\ (task.op = "create" => last = 0 /\ task.todo \subseteq CodePages)
      BY <1>1, <2>2 DEF SpaceIInv, TaskOK
    <3>6. task'.op # "fault" /\ task'.op # "exit"
      BY <2>2, <2>5
    <3>7. Target' = q /\ cpu' = c /\ last' = last
      BY <1>1, <2>2, <2>5, <3>3, TaskContinues
    <3> QED BY <2>5, <3>1, <3>2, <3>4, <3>5, <3>6, <3>7 DEF TaskOK, CodePages
  <2> QED BY <2>3, <2>4, <2>5, <2>6, <2>7, <2>8 DEF SpaceIInv, HandOK
<1> QED BY <1>2, <1>3, <1>4

(* Past its first step a task changes neither directories nor processes.   *)
LEMMA RootedKept ==
  ASSUME SpaceIInv, task # NULL, task.op # "exit", UNCHANGED <<schedVars, halted, cr3>>,
         task' \in Tasks, task'.op = task.op, task'.step # "directory"
  PROVE  Rooted'
PROOF
<1>1. \A p \in Pids : p > last /\ cr3[p] # NULL => Creating /\ p = last + 1
  BY DEF SpaceIInv, Rooted
<1>2. cpu \notin waiting /\ \A p \in waiting \union ({cpu} \ {0}) : cr3[p] # NULL
  BY DEF SpaceIInv, Rooted
<1> QED BY <1>1, <1>2, TaskContinues DEF Rooted, Pids

(* Links never vanish; the pages a task has yet to do are not mapped.      *)
LEMMA TaskKept ==
  ASSUME SpaceIInv, task # NULL, task.op # "exit", UNCHANGED <<schedVars, halted, cr3>>,
         task' \in Tasks, task'.op = task.op, task.step # "directory", task'.step # "directory",
         task'.todo \subseteq task.todo, task'.step \in {"map", "fill"} => task'.todo # {},
         NEW q \in Pids, q = Target,
         \A p \in Pids, va \in Pages : PageLink(p, va) # NULL => PageLink(p, va)' # NULL,
         \A va \in task'.todo : PageLink(q, va)' # NULL => task'.step = "fill" /\ va = Va'
  PROVE  TaskOK'
PROOF
<1>1. PICK c : c = cpu
  OBVIOUS
<1>2. Target' = q /\ cpu' = c /\ last' = last /\ Creating' = Creating
  BY <1>1, TaskContinues
<1>3. task.op = "create" => last = 0 /\ task.todo \subseteq CodePages
  BY DEF SpaceIInv, TaskOK
<1>4. task.op = "fork" => c # 0 /\ \A va \in task'.todo : PageLink(c, va)' # NULL
  <2> SUFFICES ASSUME task.op = "fork" PROVE c # 0 /\ \A va \in task'.todo : PageLink(c, va)' # NULL
    OBVIOUS
  <2>1. c # 0 /\ \A va \in task.todo : PageLink(c, va) # NULL
    BY <1>1 DEF SpaceIInv, TaskOK
  <2>2. \A va \in task'.todo : va \in Pages
    BY DEF Tasks, Pages
  <2> QED BY <1>1, <2>1, <2>2, TargetOK
<1>5. task.op = "fault" => c # 0
  BY <1>1 DEF SpaceIInv, TaskOK
<1>6. cr3[q] # NULL
  BY DEF SpaceIInv, TaskOK
<1> QED BY <1>2, <1>3, <1>4, <1>5, <1>6, TaskContinues DEF TaskOK, CodePages

(* Steps that change neither memory nor who may be created.                *)
LEMMA MemoryKept ==
  ASSUME SpaceIInv, UNCHANGED memoryVars
  PROVE  /\ Distinct' /\ Allocated' /\ InOrder'
         /\ \A p \in Pids, va \in Pages : PageLink(p, va)' = PageLink(p, va)
PROOF
<1>1. UNCHANGED <<mem, cr3, frame_bitmap>>
  BY DEF memoryVars
<1>2. \A p \in Pids : \A i, j \in Optional : Link(p, i, j)' = Link(p, i, j)
  BY <1>1, LinksSame
<1>3. Distinct' /\ Allocated'
  BY <1>1, <1>2, KeptOK DEF SpaceIInv
<1>4. InOrder'
  BY <1>1 DEF SpaceIInv, InOrder, Reserved, Frames
<1> QED BY <1>2, <1>3, <1>4, PageLinksKept

(* A task takes frame f for a page of process q.  sys_fork fills it.       *)
TakeStep(f, q) ==
  /\ f = alloc_frame /\ f # 0 /\ f # NULL /\ SetBit(f) /\ q = Target
  /\ task.op = "fork" => Touchable(f)
  /\ mem' = IF task.op = "fork" THEN [mem EXCEPT ![f] = mem[PageFrame(cpu, Va)]] ELSE mem
  /\ mem' \in [Frames -> Contents]
  /\ task # NULL /\ task \in Tasks /\ task.op # "exit" /\ task.step = "page" /\ task.todo # {}
  /\ task' \in Tasks /\ task' = [task EXCEPT !.step = "map", !.frame = f]
  /\ UNCHANGED <<schedVars, halted, cr3>>
  /\ Unlinked(f)
  /\ \A p \in Pids : \A i, j \in Optional : Link(p, i, j)' = Link(p, i, j)
  /\ \A p \in Pids, va \in Pages : PageLink(p, va)' = PageLink(p, va)

(* That is all the allocation for a page does, unless it ends the task.    *)
LEMMA TakeEffect ==
  ASSUME SpaceIInv, TakeFrame, task' # NULL
  PROVE  \E f \in Frames, q \in Pids : TakeStep(f, q)
PROOF
<1> DEFINE f == alloc_frame
<1> HIDE DEF f
<1>1. task # NULL /\ task \in Tasks /\ task.op # "exit" /\ task.step = "page" /\ task.todo # {}
  BY TargetOK DEF TakeFrame, At
<1>2. f # 0 /\ (task.op = "fork" => Touchable(f))
  BY DEF TakeFrame, OutOfMemory, KernelFault, Abandon, f
<1>3. /\ SetBit(f)
      /\ mem' = IF task.op = "fork" THEN [mem EXCEPT ![f] = mem[PageFrame(cpu, Va)]] ELSE mem
      /\ task' = [task EXCEPT !.step = "map", !.frame = f]
      /\ UNCHANGED <<schedVars, halted, cr3>>
  BY <1>2 DEF TakeFrame, Continue, f
<1>4. f \in Frames /\ Unlinked(f) /\ f # NULL
  BY <1>2, FreshFrame, NullApart DEF SpaceIInv, f
<1>5. task' \in Tasks
  BY <1>1, <1>3, <1>4 DEF Tasks
<1>6. mem' \in [Frames -> Contents]
  <2>1. CASE task.op = "fork"
    <3>1. Va \in task.todo /\ Va \in Pages
      BY <1>1, VaLowest DEF SpaceIInv
    <3>2. cpu \in Pids /\ cr3[cpu] # NULL /\ PageLink(cpu, Va) # NULL
      BY <1>1, <2>1, <3>1, TargetOK, NullApart DEF SpaceIInv, TaskOK
    <3>3. PageFrame(cpu, Va) \in Frames
      BY <3>1, <3>2, PageLinkForm DEF SpaceIInv
    <3> QED BY <1>3, <2>1, <3>3 DEF SpaceIInv, TypeOK, Contents
  <2>2. CASE task.op # "fork"
    BY <1>3, <2>2 DEF SpaceIInv, TypeOK, Contents
  <2> QED BY <2>1, <2>2
<1>7. \A p \in Pids : \A i, j \in Optional : Link(p, i, j)' = Link(p, i, j)
  <2>1. CASE task.op = "fork"
    <3>1. \A p \in Pids : cr3[p] # f /\ \A i \in Index : TableOf(p, i) # f
      BY <1>4, LinkForms DEF Unlinked, Optional
    <3> QED BY <1>3, <1>4, <2>1, <3>1, FrameChanged DEF SpaceIInv
  <2>2. CASE task.op # "fork"
    BY <1>3, <2>2, LinksSame
  <2> QED BY <2>1, <2>2
<1>8. \A p \in Pids, va \in Pages : PageLink(p, va)' = PageLink(p, va)
  BY <1>7, PageLinksKept
<1>9. PICK q \in Pids : q = Target
  BY <1>1, TargetOK
<1> QED BY <1>1, <1>2, <1>3, <1>4, <1>5, <1>6, <1>7, <1>8, <1>9 DEF f, TakeStep

(* The frame taken for a page is pointed to by nothing, and the last one   *)
(* allocated.                                                              *)
LEMMA TakeFrameOK ==
  ASSUME SpaceIInv, TakeFrame
  PROVE  SpaceIInv'
PROOF
<1> USE DEF TakeStep
<1>1. task # NULL /\ task \in Tasks
  BY TargetOK DEF TakeFrame, At
<1>2. CASE alloc_frame = 0
  BY <1>1, <1>2, OutOfMemoryOK DEF TakeFrame
<1>3. CASE alloc_frame # 0 /\ task.op = "fork" /\ ~Touchable(alloc_frame)
  BY <1>1, <1>3, KernelFaultOK DEF TakeFrame
<1>4. CASE alloc_frame # 0 /\ ~(task.op = "fork" /\ ~Touchable(alloc_frame))
  <2>1. task' # NULL
    <3>1. alloc_frame \in Frames
      BY <1>4, FreshFrame DEF SpaceIInv
    <3> QED BY <1>1, <1>4, <3>1, NoTaskAssumption DEF TakeFrame, Continue, Tasks
  <2>2. PICK f \in Frames, q \in Pids : TakeStep(f, q)
    BY <2>1, TakeEffect
  <2>3. /\ InOrder' /\ frame_bitmap \subseteq frame_bitmap' /\ frame_bitmap' \subseteq Frames
        /\ f \in frame_bitmap' \ Reserved
        /\ \A g \in frame_bitmap' : g <= f
    BY <2>2, SetBitOK DEF SpaceIInv
  <2>4. task'.op = task.op /\ task'.step = "map" /\ task'.todo = task.todo /\ task'.frame = f
    BY <2>2 DEF Tasks
  <2>5. Distinct' /\ Allocated'
    BY <2>2, <2>3, KeptOK DEF SpaceIInv
  <2>6. TypeOK'
    BY <2>2, <2>3, <2>4, TypeKept DEF SpaceIInv, TypeOK
  <2>7. Rooted'
    BY <2>2, <2>4, RootedKept
  <2>8. TaskOK'
    <3>1. \A va \in task'.todo : PageLink(q, va)' = NULL
      <4>1. \A va \in task.todo : va \in Pages /\ PageLink(q, va) = NULL
        BY <2>2 DEF SpaceIInv, TaskOK, Tasks
      <4> QED BY <2>2, <2>4, <4>1
    <3> QED BY <2>2, <2>4, <3>1, TaskKept
  <2>9. HandOK'
    <3>1. \A p \in Pids : \A i, j \in Optional : Link(p, i, j)' # f
      BY <2>2 DEF Unlinked
    <3>2. \A p \in Pids' : \A i, j \in Optional' : Link(p, i, j)' # task'.frame
      BY <2>4, <3>1 DEF Pids, Optional, Index
    <3> QED BY <2>3, <2>4, <3>2 DEF HandOK, Reserved
  <2> QED BY <2>3, <2>5, <2>6, <2>7, <2>8, <2>9 DEF SpaceIInv
<1> QED BY <1>2, <1>3, <1>4

(* map_page, whatever it does about a table, is at page va of process q.   *)
MappingAt(q, va) ==
  /\ q = Target /\ va = Va /\ va \in task.todo /\ va \in Pages
  /\ cr3[q] # NULL /\ PdIndex(va) \in Index /\ PtIndex(va) \in Index
  /\ PageLink(q, va) = NULL
  /\ TableFrame(Target, Va) = TableOf(q, PdIndex(va))
  /\ task # NULL /\ task \in Tasks /\ task.op # "exit" /\ task.step = "map"
  /\ task.frame \in Frames /\ task.frame # NULL /\ task.frame \in frame_bitmap \ Reserved
  /\ Unlinked(task.frame)
  /\ TableOf(q, PdIndex(va)) = NULL => \A g \in frame_bitmap : g <= task.frame

(* A task that maps is for a process with a directory and a page not       *)
(* mapped.                                                                 *)
LEMMA MappingEffect ==
  ASSUME SpaceIInv, At("map")
  PROVE  \E q \in Pids, va \in Pages : MappingAt(q, va)
PROOF
<1>1. task # NULL /\ task \in Tasks /\ task.op # "exit" /\ task.step = "map" /\ task.todo # {}
  BY TargetOK DEF At, SpaceIInv, TaskOK
<1>2. PICK q \in Pids : q = Target /\ cr3[q] # NULL
  BY <1>1, TargetOK, NullApart
<1>3. PICK va \in task.todo : va = Va /\ va \in Pages
  BY <1>1, VaLowest DEF SpaceIInv
<1>4. /\ task.frame \in frame_bitmap \ Reserved
      /\ Unlinked(task.frame)
      /\ TableOf(q, PdIndex(va)) = NULL => \A g \in frame_bitmap : g <= task.frame
  BY <1>1, <1>2, <1>3 DEF SpaceIInv, HandOK, Unlinked
<1>5. task.frame \in Frames /\ task.frame # NULL
  BY <1>4, NullApart DEF SpaceIInv, TypeOK
<1>6. PageLink(q, va) = NULL
  BY <1>1, <1>2, <1>3 DEF SpaceIInv, TaskOK
<1>7. /\ PdIndex(va) \in Index /\ PtIndex(va) \in Index
      /\ TableFrame(q, va) = TableOf(q, PdIndex(va))
  BY <1>2, <1>3, PageLinkForm DEF SpaceIInv
<1> QED BY <1>1, <1>2, <1>3, <1>4, <1>5, <1>6, <1>7 DEF MappingAt

(* map_page finds a frame f for the table of page va of process q.         *)
TableStep(f, q, va) ==
  /\ MappingAt(q, va)
  /\ TableOf(q, PdIndex(va)) = NULL
  /\ f = alloc_frame /\ f # 0 /\ f # NULL /\ f # task.frame /\ Touchable(f) /\ SetBit(f)
  /\ cr3[q] \in Frames /\ cr3[q] # f
  /\ mem' = [mem EXCEPT ![f] = EmptyTable, ![cr3[q]].table[PdIndex(va)] = f]
  /\ task' = task
  /\ UNCHANGED <<schedVars, halted, cr3>>
  /\ Unlinked(f) /\ Linked(f, q, PdIndex(va), NULL)
  /\ \A p \in Pids, w \in Pages : PageLink(p, w)' = PageLink(p, w)

(* That is all map_page does for a table, unless it ends the task.         *)
LEMMA TableEffect ==
  ASSUME SpaceIInv, MapTable, task' # NULL, alloc_frame # 0
  PROVE  \E f \in Frames, q \in Pids, va \in Pages : TableStep(f, q, va)
PROOF
<1> DEFINE f == alloc_frame
<1> HIDE DEF f
<1>1. PICK q \in Pids, va \in Pages : MappingAt(q, va)
  BY MappingEffect DEF MapTable
<1>2. q = Target /\ va = Va /\ cr3[q] # NULL /\ PdIndex(va) \in Index /\ TableOf(q, PdIndex(va)) = NULL
  BY <1>1 DEF MapTable, MappingAt
<1>3. f # 0 /\ Touchable(f)
  BY DEF MapTable, KernelFault, Abandon, f
<1>4. /\ SetBit(f)
      /\ mem' = [mem EXCEPT ![f] = EmptyTable, ![cr3[q]].table[PdIndex(va)] = f]
      /\ task' = task
      /\ UNCHANGED <<schedVars, halted, cr3>>
  BY <1>2, <1>3 DEF MapTable, Continue, f
<1>5. f \in Frames /\ Unlinked(f) /\ f # NULL
  BY <1>3, FreshFrame, NullApart DEF SpaceIInv, f
<1>6. f # task.frame
  BY <1>1, <1>3, AllocFrame DEF SpaceIInv, MappingAt, f
<1>7. Linked(f, q, PdIndex(va), NULL)
  BY <1>2, <1>4, <1>5, NewTable DEF SpaceIInv
<1>8. cr3[q] \in Frames /\ cr3[q] # f
  BY <1>2, <1>5, LinkType, LinkForms DEF SpaceIInv, Unlinked, Optional
<1>9. ASSUME NEW p \in Pids, NEW w \in Pages
      PROVE PageLink(p, w)' = PageLink(p, w)
  <2>1. PdIndex(w) \in Index /\ PtIndex(w) \in Index
    BY PageIndices
  <2>2. Link(p, PdIndex(w), PtIndex(w))' = Link(p, PdIndex(w), PtIndex(w))
    BY <1>7, <2>1, NullApart DEF Linked, Optional
  <2> QED BY <2>1, <2>2, NullApart DEF PageLink, Link
<1> QED BY <1>1, <1>2, <1>3, <1>4, <1>5, <1>6, <1>7, <1>8, <1>9 DEF f, TableStep

(* map_page's new table has no entry, and is named by the one entry of the *)
(* directory that was empty.                                               *)
LEMMA MapTableOK ==
  ASSUME SpaceIInv, MapTable
  PROVE  SpaceIInv'
PROOF
<1>1. CASE alloc_frame = 0
  <2> USE DEF MappingAt
  <2>1. PICK q \in Pids, va \in Pages : MappingAt(q, va)
    BY MappingEffect DEF MapTable
  <2>2. /\ UNCHANGED <<schedVars, halted, memoryVars, mem, cr3, frame_bitmap>>
        /\ task' = [task EXCEPT !.step = "fill"]
    BY <1>1 DEF MapTable, Continue, memoryVars
  <2>3. /\ task' \in Tasks
        /\ task'.op = task.op /\ task'.step = "fill"
        /\ task'.todo = task.todo /\ task'.frame = task.frame
    BY <2>1, <2>2 DEF Tasks
  <2>4. \A p \in Pids : \A i, j \in Optional : Link(p, i, j)' = Link(p, i, j)
    BY <2>2, LinksSame
  <2>5. Distinct' /\ Allocated' /\ InOrder' /\ \A p \in Pids, w \in Pages : PageLink(p, w)' = PageLink(p, w)
    BY <2>2, MemoryKept
  <2>6. TypeOK'
    BY <2>1, <2>2, <2>3, TypeKept DEF SpaceIInv, TypeOK, Contents
  <2>7. Rooted'
    BY <2>1, <2>2, <2>3, RootedKept
  <2>8. TaskOK'
    <3>1. \A w \in task'.todo : PageLink(q, w)' = NULL
      <4>1. \A w \in task.todo : w \in Pages /\ PageLink(q, w) = NULL
        BY <2>1 DEF SpaceIInv, TaskOK, Tasks
      <4> QED BY <2>3, <2>5, <4>1
    <3> QED BY <2>1, <2>2, <2>3, <2>5, <3>1, TaskKept
  <2>9. ~Touchable(task.frame)
    <3>1. Frames \subseteq frame_bitmap /\ TableOf(q, PdIndex(va)) = NULL
      BY <1>1, <2>1, AllocFrame DEF SpaceIInv, MapTable
    <3>2. MappedFrames \in Frames
      BY FramesAssumption DEF Frames
    <3>3. MappedFrames <= task.frame /\ task.frame \in Frames
      BY <2>1, <3>1, <3>2
    <3> QED BY <3>3, FramesAssumption DEF Touchable, Frames
  <2>10. HandOK'
    <3>1. \A p \in Pids : \A i, j \in Optional : Link(p, i, j)' # task.frame
      BY <2>1, <2>4 DEF Unlinked
    <3>2. \A p \in Pids' : \A i, j \in Optional' : Link(p, i, j)' # task'.frame
      BY <2>3, <3>1 DEF Pids, Optional, Index
    <3> QED BY <2>1, <2>2, <2>3, <2>9, <3>2 DEF HandOK, Reserved, Touchable
  <2> QED BY <2>5, <2>6, <2>7, <2>8, <2>10 DEF SpaceIInv
<1>2. CASE alloc_frame # 0 /\ ~Touchable(alloc_frame)
  BY <1>2, KernelFaultOK DEF MapTable, At
<1>3. CASE alloc_frame # 0 /\ Touchable(alloc_frame)
  <2> USE DEF MappingAt, TableStep
  <2>1. task' # NULL
    BY <1>3 DEF MapTable, Continue, At
  <2>2. PICK f \in Frames, q \in Pids, va \in Pages : TableStep(f, q, va)
    BY <1>3, <2>1, TableEffect
  <2>3. /\ InOrder' /\ frame_bitmap \subseteq frame_bitmap' /\ frame_bitmap' \subseteq Frames
        /\ f \in frame_bitmap' \ Reserved
    BY <2>2, SetBitOK DEF SpaceIInv
  <2>4. Distinct' /\ Allocated'
    BY <2>2, <2>3, LinkedOK DEF SpaceIInv, Optional
  <2>5. TypeOK'
    <3>1. mem' \in [Frames -> Contents]
      BY <2>2, EmptyTableOK DEF SpaceIInv, TypeOK, Contents
    <3> QED BY <2>2, <2>3, <3>1, TypeKept DEF SpaceIInv, TypeOK
  <2>6. Rooted'
    BY <2>2, RootedKept
  <2>7. TaskOK'
    <3>1. \A w \in task'.todo : PageLink(q, w)' = NULL
      <4>1. \A w \in task.todo : w \in Pages /\ PageLink(q, w) = NULL
        BY <2>2 DEF SpaceIInv, TaskOK, Tasks
      <4> QED BY <2>2, <4>1
    <3> QED BY <2>2, <3>1, TaskKept
  <2>8. HandOK'
    <3>1. \A p \in Pids : \A i, j \in Optional : Link(p, i, j)' # task.frame
      BY <2>2 DEF Linked, Unlinked
    <3>2. \A p \in Pids' : \A i, j \in Optional' : Link(p, i, j)' # task'.frame
      BY <2>2, <3>1 DEF Pids, Optional, Index
    <3>3. TableOf(q, PdIndex(va))' # NULL
      <4>1. Link(q, PdIndex(va), NULL)' = f
        BY <2>2 DEF Linked, Optional
      <4> QED BY <2>2, <4>1, NullApart DEF Link
    <3>4. Target' = q /\ Va' = va
      BY <2>2, TaskContinues DEF Va
    <3> QED BY <2>2, <2>3, <3>2, <3>3, <3>4 DEF HandOK, Reserved
  <2> QED BY <2>3, <2>4, <2>5, <2>6, <2>7, <2>8 DEF SpaceIInv
<1> QED BY <1>1, <1>2, <1>3

(* map_page's last step: the frame f in hand becomes page va of process q. *)
EntryStep(f, q, va) ==
  /\ MappingAt(q, va)
  /\ f = task.frame
  /\ TableOf(q, PdIndex(va)) # NULL /\ TableOf(q, PdIndex(va)) \in Frames
  /\ mem' = [mem EXCEPT ![TableOf(q, PdIndex(va))].table[PtIndex(va)] = f]
  /\ task' \in Tasks /\ task' = [task EXCEPT !.step = "fill"]
  /\ UNCHANGED <<schedVars, halted, cr3, frame_bitmap>>
  /\ Linked(f, q, PdIndex(va), PtIndex(va))
  /\ \A p \in Pids, w \in Pages :
       PageLink(p, w)' = IF p = q /\ w = va THEN f ELSE PageLink(p, w)

(* That is all map_page's last step does.                                  *)
LEMMA EntryEffect ==
  ASSUME SpaceIInv, MapEntry
  PROVE  \E f \in Frames, q \in Pids, va \in Pages : EntryStep(f, q, va)
PROOF
<1>1. PICK q \in Pids, va \in Pages : MappingAt(q, va)
  BY MappingEffect DEF MapEntry
<1> DEFINE k == PdIndex(va)
           l == PtIndex(va)
<1>2. PICK f \in Frames : f = task.frame /\ Unlinked(f)
  BY <1>1 DEF MappingAt
<1>3. k \in Index /\ l \in Index /\ TableOf(q, k) # NULL /\ PageOf(q, k, l) = NULL
  BY <1>1 DEF MappingAt, MapEntry, PageLink
<1>4. TableOf(q, k) \in Frames
  BY <1>3, LinkType DEF SpaceIInv
<1>5. /\ mem' = [mem EXCEPT ![TableOf(q, k)].table[l] = f]
      /\ task' = [task EXCEPT !.step = "fill"]
      /\ UNCHANGED <<schedVars, halted, cr3, frame_bitmap>>
  BY <1>1, <1>2 DEF MapEntry, Continue, MappingAt
<1>6. task' \in Tasks
  BY <1>1, <1>5 DEF Tasks, MappingAt
<1> HIDE DEF k, l
<1>7. Linked(f, q, k, l)
  BY <1>2, <1>3, <1>5, NewPage DEF SpaceIInv
<1>8. ASSUME NEW p \in Pids, NEW w \in Pages
      PROVE PageLink(p, w)' = IF p = q /\ w = va THEN f ELSE PageLink(p, w)
  <2>1. PdIndex(w) \in Index /\ PtIndex(w) \in Index
    BY PageIndices
  <2>2. PdIndex(w) = k /\ PtIndex(w) = l <=> w = va
    BY PagesDiffer DEF k, l
  <2>3. PageLink(p, w) = Link(p, PdIndex(w), PtIndex(w))
    BY <2>1, LinkForms DEF PageLink
  <2>4. PageLink(p, w)' = Link(p, PdIndex(w), PtIndex(w))'
    BY <2>1, NullApart DEF PageLink, Link
  <2> QED BY <1>7, <2>1, <2>2, <2>3, <2>4 DEF Linked, Optional
<1> QED BY <1>1, <1>2, <1>3, <1>4, <1>5, <1>6, <1>7, <1>8 DEF EntryStep, k, l

(* The frame in hand gets its one use.                                     *)
LEMMA MapEntryOK ==
  ASSUME SpaceIInv, MapEntry
  PROVE  SpaceIInv'
PROOF
<1> USE DEF MappingAt, EntryStep
<1>1. PICK f \in Frames, q \in Pids, va \in Pages : EntryStep(f, q, va)
  BY EntryEffect
<1>2. task'.op = task.op /\ task'.step = "fill" /\ task'.todo = task.todo /\ task'.frame = f
  BY <1>1 DEF Tasks
<1>3. Distinct' /\ Allocated'
  BY <1>1, LinkedOK DEF SpaceIInv, Optional
<1>4. TypeOK'
  <2>1. mem' \in [Frames -> Contents]
    <3> PICK t \in Frames : t = TableOf(q, PdIndex(va))
      BY <1>1
    <3> PICK j \in Index : j = PtIndex(va)
      BY <1>1, PageIndices
    <3>1. mem' = [mem EXCEPT ![t].table[j] = f] /\ mem \in [Frames -> Contents]
      <4>1. mem' = [mem EXCEPT ![t].table[j] = f]
        BY <1>1, Zenon
      <4>2. mem \in [Frames -> Contents]
        BY DEF SpaceIInv, TypeOK, Contents
      <4> QED BY <4>1, <4>2
    <3>2. mem[t] \in Contents /\ [mem[t] EXCEPT !.table[j] = f] \in Contents
      BY <3>1 DEF Contents
    <3> QED BY <3>1, <3>2
  <2> QED BY <1>1, <1>2, <2>1, TypeKept DEF SpaceIInv, TypeOK
<1>5. Rooted'
  BY <1>1, <1>2, RootedKept
<1>6. Va' = va
  BY <1>1, <1>2 DEF Va
<1>7. TaskOK'
  <2>1. ASSUME NEW w \in task'.todo, PageLink(q, w)' # NULL PROVE w = va
    <3>1. w \in Pages /\ PageLink(q, w) = NULL
      BY <1>1, <1>2 DEF SpaceIInv, TaskOK, Tasks
    <3> QED BY <1>1, <2>1, <3>1
  <2>2. \A p \in Pids, w \in Pages : PageLink(p, w) # NULL => PageLink(p, w)' # NULL
    BY <1>1
  <2> QED BY <1>1, <1>2, <1>6, <2>1, <2>2, TaskKept
<1>8. HandOK'
  <2>1. PICK k : k = PdIndex(va)
    OBVIOUS
  <2>2. PICK l : l = PtIndex(va)
    OBVIOUS
  <2>3. \A p \in Pids : \A i, j \in Optional :
          Link(p, i, j)' = f => p = q /\ i = k /\ j = l
    BY <1>1, <2>1, <2>2 DEF Linked, Unlinked
  <2>4. \A p \in Pids' : \A i, j \in Optional' :
          Link(p, i, j)' = f => p = q /\ i = k /\ j = l
    BY <2>3 DEF Pids, Optional, Index
  <2>5. PageLink(q, va)' = f
    BY <1>1
  <2>6. Target' = q
    BY <1>1, <1>2, TaskContinues
  <2> QED BY <1>1, <1>2, <1>6, <2>1, <2>2, <2>4, <2>5, <2>6 DEF HandOK, Reserved
<1>9. InOrder'
  BY <1>1 DEF SpaceIInv, InOrder, Reserved, Frames
<1> QED BY <1>3, <1>4, <1>5, <1>7, <1>8, <1>9 DEF SpaceIInv

(* What create_process, page_fault_handler and sys_fork leave in a page.   *)
LEMMA FilledOK ==
  ASSUME SpaceIInv, task # NULL, task.op # "exit", task.todo # {}, task.frame \in Frames
  PROVE  Filled \in Contents
PROOF
<1>1. task.op \in {"create", "fault", "fork"}
  BY DEF SpaceIInv, TypeOK, Tasks
<1>2. \A f \in Frames : mem[f] \in Contents
  BY DEF SpaceIInv, TypeOK, Contents
<1>3. CASE task.op = "create"
  <2>1. Va \in CodePages
    BY <1>3, VaLowest DEF SpaceIInv, TaskOK
  <2>2. ModuleFrame + Va - CodePage \in Frames
    BY <2>1, FramesAssumption, ModuleAssumption, EntriesAssumption DEF CodePages, Frames
  <2> QED BY <1>2, <1>3, <2>2 DEF Filled
<1>4. CASE task.op = "fault"
  BY <1>4 DEF Filled, Page, NoEntries, Contents, Data
<1>5. CASE task.op = "fork"
  BY <1>2, <1>5 DEF Filled
<1> QED BY <1>1, <1>3, <1>4, <1>5

(* The frame a task is filling is no directory and no table.               *)
LEMMA FillingOK ==
  ASSUME SpaceIInv, task # NULL, task.step = "fill"
  PROVE  /\ \A p \in Pids : cr3[p] # task.frame
         /\ \A p \in Pids, i \in Index : TableOf(p, i) # task.frame
         /\ task.frame \in Frames \ Reserved
         /\ task.frame \in frame_bitmap
PROOF
<1>1. task.frame \in frame_bitmap \ Reserved /\ task.frame \in Frames
  BY DEF SpaceIInv, HandOK, TypeOK
<1>2. PICK va \in Pages : va = Va
  BY VaLowest DEF SpaceIInv, TaskOK
<1>3. PtIndex(Va) # NULL
  BY <1>2, PageIndices, NullApart
<1>4. \A p \in Pids : \A i, j \in Optional : Link(p, i, j) = task.frame => j # NULL
  BY <1>3 DEF SpaceIInv, HandOK
<1>5. ASSUME NEW p \in Pids PROVE cr3[p] # task.frame /\ \A i \in Index : TableOf(p, i) # task.frame
  BY <1>4, LinkForms DEF Optional
<1> QED BY <1>1, <1>5

(* The frame of page va of process q, which the kernel can use, is filled. *)
FillStep(q, va) ==
  /\ q = Target /\ va = Va /\ va \in task.todo
  /\ task # NULL /\ task \in Tasks /\ task.op # "exit" /\ task.step = "fill"
  /\ task.frame \in Frames /\ Touchable(task.frame) /\ PageLink(q, va) = task.frame
  /\ Filled \in Contents
  /\ mem' = [mem EXCEPT ![task.frame] = Filled]
  /\ task' \in Tasks /\ task' = [task EXCEPT !.step = "page", !.todo = @ \ {va}, !.frame = NULL]
  /\ UNCHANGED <<schedVars, halted, cr3, frame_bitmap>>
  /\ \A p \in Pids : \A i, j \in Optional : Link(p, i, j)' = Link(p, i, j)
  /\ \A p \in Pids, w \in Pages : PageLink(p, w)' = PageLink(p, w)

(* Filling a page ends the task only if the kernel faults on its frame.    *)
LEMMA FillGoesOn ==
  ASSUME SpaceIInv, FillPage, Touchable(task.frame)
  PROVE  task' # NULL
PROOF
<1>1. task \in Tasks
  BY TargetOK DEF FillPage, At
<1>2. task' = [task EXCEPT !.step = "page", !.todo = @ \ {Va}, !.frame = NULL]
  BY DEF FillPage, Continue
<1>3. task' \in Tasks
  BY <1>1, <1>2 DEF Tasks
<1> QED BY <1>3, NoTaskAssumption

(* That is all the filling of a page does, unless the kernel faults.       *)
LEMMA FillEffect ==
  ASSUME SpaceIInv, FillPage, task' # NULL
  PROVE  \E q \in Pids, va \in Pages : FillStep(q, va)
PROOF
<1>1. task # NULL /\ task \in Tasks /\ task.op # "exit" /\ task.step = "fill" /\ task.todo # {}
  BY TargetOK DEF FillPage, At, SpaceIInv, TaskOK
<1>2. Touchable(task.frame)
  BY DEF FillPage, KernelFault, Abandon
<1>3. PICK q \in Pids : q = Target
  BY <1>1, TargetOK
<1>4. PICK va \in task.todo : va = Va /\ va \in Pages
  BY <1>1, VaLowest DEF SpaceIInv
<1>5. /\ mem' = [mem EXCEPT ![task.frame] = Filled]
      /\ task' = [task EXCEPT !.step = "page", !.todo = @ \ {va}, !.frame = NULL]
      /\ UNCHANGED <<schedVars, halted, cr3, frame_bitmap>>
  BY <1>2, <1>4 DEF FillPage, Continue
<1>6. task' \in Tasks
  BY <1>1, <1>5 DEF Tasks
<1>7. \A p \in Pids : \A i, j \in Optional : Link(p, i, j)' = Link(p, i, j)
  BY <1>1, <1>5, FillingOK, FrameChanged DEF SpaceIInv
<1>8. \A p \in Pids, w \in Pages : PageLink(p, w)' = PageLink(p, w)
  BY <1>7, PageLinksKept
<1>9. task.frame \in Frames /\ Filled \in Contents /\ PageLink(q, va) = task.frame
  BY <1>1, <1>2, <1>3, <1>4, FillingOK, FilledOK DEF SpaceIInv, HandOK
<1> QED BY <1>1, <1>2, <1>3, <1>4, <1>5, <1>6, <1>7, <1>8, <1>9 DEF FillStep

(* What a page is filled with goes to no directory and no table.           *)
LEMMA FillPageOK ==
  ASSUME SpaceIInv, FillPage
  PROVE  SpaceIInv'
PROOF
<1> USE DEF FillStep
<1>1. frame_bitmap' = frame_bitmap
  BY DEF FillPage
<1>2. InOrder'
  BY <1>1 DEF SpaceIInv, InOrder, Reserved, Frames
<1>3. CASE ~Touchable(task.frame)
  <2>1. task # NULL /\ Abandon /\ halted' \in BOOLEAN
    BY <1>3 DEF FillPage, KernelFault, At
  <2> QED BY <1>1, <1>2, <2>1, AbandonOK DEF SpaceIInv, TypeOK
<1>4. CASE Touchable(task.frame)
  <2>1. task' # NULL
    BY <1>4, FillGoesOn
  <2>2. PICK q \in Pids, va \in Pages : FillStep(q, va)
    BY <2>1, FillEffect
  <2>3. task'.op = task.op /\ task'.step = "page" /\ task'.todo = task.todo \ {va} /\ task'.frame = NULL
    BY <2>2 DEF Tasks
  <2>4. Distinct' /\ Allocated'
    BY <1>1, <2>2, KeptOK DEF SpaceIInv
  <2>5. TypeOK'
    <3>1. mem' \in [Frames -> Contents]
      BY <2>2 DEF SpaceIInv, TypeOK, Contents
    <3> QED BY <1>1, <2>2, <2>3, <3>1, TypeKept DEF SpaceIInv, TypeOK
  <2>6. Rooted'
    BY <2>2, <2>3, RootedKept
  <2>7. TaskOK'
    <3>1. \A w \in task'.todo : PageLink(q, w)' = NULL
      <4>1. \A w \in task.todo : w \in Pages /\ (PageLink(q, w) # NULL => w = va)
        BY <2>2 DEF SpaceIInv, TaskOK, Tasks
      <4> QED BY <2>2, <2>3, <4>1
    <3> QED BY <2>2, <2>3, <3>1, TaskKept
  <2> QED BY <1>2, <2>3, <2>4, <2>5, <2>6, <2>7 DEF SpaceIInv, HandOK
<1> QED BY <1>3, <1>4

(* The new process is ready, or the page fault handler returns.            *)
LEMMA FinishOK ==
  ASSUME SpaceIInv, Finish
  PROVE  SpaceIInv'
PROOF
<1> USE PidsAssumption
<1>1. task # NULL /\ task \in Tasks /\ task.op # "exit" /\ task.step = "page"
  BY TargetOK DEF Finish, At
<1>2. task' = NULL /\ UNCHANGED <<memoryVars, mem, cr3, frame_bitmap, halted, cpu, done, preempted>>
  BY DEF Finish, Sched!Create, schedVars, memoryVars
<1>3. ~halted
  BY <1>1 DEF SpaceIInv, Rooted
<1>4. PICK q \in Pids : q = Target /\ cr3[q] # NULL
  BY <1>1, TargetOK DEF SpaceIInv, TaskOK
<1>5. \/ q = last + 1 /\ last' = q /\ waiting' = waiting \union {q} /\ last < MaxPid
      \/ last' = last /\ waiting' = waiting /\ ~Creating
  BY <1>1, <1>4 DEF Finish, Sched!Create, schedVars, Target, SpaceIInv, TaskOK
<1>6. TypeOK'
  <2>1. last' \in 0 .. MaxPid /\ last <= last'
    BY <1>5 DEF SpaceIInv, TypeOK
  <2>2. cpu' \in 0 .. last'
    BY <1>2, <2>1 DEF SpaceIInv, TypeOK
  <2>3. waiting' \subseteq 1 .. last'
    <3>1. waiting \subseteq 1 .. last /\ last \in Nat
      BY DEF SpaceIInv, TypeOK
    <3>2. CASE q = last + 1 /\ last' = q /\ waiting' = waiting \union {q}
      BY <3>1, <3>2
    <3>3. CASE last' = last /\ waiting' = waiting
      BY <3>1, <3>3
    <3> QED BY <1>5, <3>2, <3>3
  <2> QED BY <1>2, <2>1, <2>2, <2>3 DEF SpaceIInv, TypeOK, Frames, Pids, Index, Data
<1>7. Rooted'
  <2>1. cpu' \notin waiting' /\ \A p \in waiting' \union ({cpu'} \ {0}) : cr3'[p] # NULL
    <3>1. cpu' = cpu /\ cr3' = cr3
      BY <1>2
    <3>2. cpu \notin waiting /\ \A p \in waiting \union ({cpu} \ {0}) : cr3[p] # NULL
      BY DEF SpaceIInv, Rooted
    <3>3. CASE q = last + 1 /\ waiting' = waiting \union {q}
      <4>1. cpu # q
        BY <3>3 DEF SpaceIInv, TypeOK
      <4> QED BY <1>4, <3>1, <3>2, <3>3, <4>1
    <3>4. CASE waiting' = waiting
      BY <3>1, <3>2, <3>4
    <3> QED BY <1>5, <3>3, <3>4
  <2>2. ASSUME NEW p \in Pids, p > last', cr3'[p] # NULL PROVE FALSE
    BY <1>2, <1>5, <2>2 DEF SpaceIInv, Rooted, TypeOK, Pids
  <2> QED BY <1>2, <1>3, <2>1, <2>2 DEF Rooted, Pids
<1> QED BY <1>2, <1>6, <1>7, MemoryKept DEF SpaceIInv, TaskOK, HandOK

(* A task begins: nothing but the task changes.                            *)
LEMMA TaskBegins ==
  ASSUME SpaceIInv, task = NULL, ~halted, UNCHANGED <<schedVars, memoryVars, halted>>,
         task' \in Tasks, task'.step \in {"directory", "page"}, task'.frame = NULL,
         TaskOK'
  PROVE  SpaceIInv'
PROOF
<1>1. UNCHANGED <<mem, cr3, frame_bitmap>>
  BY DEF memoryVars
<1>2. TypeOK'
  BY <1>1, TypeKept DEF SpaceIInv, TypeOK, Contents
<1>3. Rooted'
  <2>1. UNCHANGED <<last, cpu, waiting>>
    BY DEF schedVars
  <2>2. \A p \in Pids : p > last => cr3[p] = NULL
    BY DEF SpaceIInv, Rooted, Creating
  <2>3. cpu \notin waiting /\ \A p \in waiting \union ({cpu} \ {0}) : cr3[p] # NULL
    BY DEF SpaceIInv, Rooted
  <2> QED BY <1>1, <2>1, <2>2, <2>3 DEF Rooted, Pids
<1> QED BY <1>2, <1>3, MemoryKept DEF SpaceIInv, HandOK

(* create_process begins, for a process without a directory.               *)
LEMMA CreateProcessOK ==
  ASSUME SpaceIInv, CreateProcess
  PROVE  SpaceIInv'
PROOF
<1>1. /\ task = NULL /\ last = 0 /\ task' = Task("create", "directory", CodePages)
      /\ UNCHANGED <<schedVars, memoryVars, halted>>
  BY DEF CreateProcess
<1>2. /\ task' \in Tasks /\ task'.op = "create" /\ task'.step = "directory"
      /\ task'.todo = CodePages /\ task'.frame = NULL
  BY <1>1, CodePagesOK DEF Task, Tasks
<1>3. ~halted
  BY <1>1 DEF SpaceIInv, Rooted
<1>4. UNCHANGED last
  BY <1>1 DEF schedVars
<1>5. 1 \in Pids /\ 0 < MaxPid
  BY PidsAssumption DEF Pids
<1>6. Target' = 1
  BY <1>1, <1>2, <1>4, NoTaskAssumption DEF Target, Creating
<1>7. \A va \in CodePages : PageLink(1, va)' = NULL
  <2>1. cr3[1] = NULL
    BY <1>1, <1>5 DEF SpaceIInv, Rooted, Creating
  <2> QED BY <1>1, <1>5, <2>1, CodePagesOK, PageLinkForm, MemoryKept DEF SpaceIInv
<1>8. TaskOK'
  BY <1>1, <1>2, <1>4, <1>5, <1>6, <1>7 DEF TaskOK, CodePages
<1> QED BY <1>1, <1>2, <1>3, <1>8, TaskBegins

(* What get_physical_address finds of the running process is what its      *)
(* links say.                                                              *)
LEMMA PresentLinked ==
  ASSUME SpaceIInv, cpu # 0, NEW va \in Pages
  PROVE  /\ va \in Present(cpu) <=> PageLink(cpu, va) # NULL
         /\ PageFrame(cpu, va) = PageLink(cpu, va)
PROOF
<1>1. cpu \in Pids /\ cr3[cpu] # NULL
  BY TargetOK, NullApart
<1> QED BY <1>1, PageLinkForm DEF Present, SpaceIInv

(* sys_fork begins.  The number of the child has not been used.            *)
LEMMA SysForkOK ==
  ASSUME SpaceIInv, SysFork
  PROVE  SpaceIInv'
PROOF
<1>1. /\ task = NULL /\ cpu # 0 /\ ~halted /\ last < MaxPid
      /\ task' = Task("fork", "directory", Present(cpu))
      /\ UNCHANGED <<schedVars, memoryVars, halted>>
  BY DEF SysFork, Executing
<1>2. /\ task' \in Tasks /\ task'.op = "fork" /\ task'.step = "directory"
      /\ task'.todo = Present(cpu) /\ task'.frame = NULL
  BY <1>1 DEF Task, Tasks, Present
<1>3. UNCHANGED <<last, cpu>>
  BY <1>1 DEF schedVars
<1>4. PICK q \in Pids : q = last + 1
  BY <1>1, TargetOK, PidsAssumption DEF Pids
<1>5. PICK c \in Pids : c = cpu
  BY <1>1, TargetOK
<1>6. Target' = q /\ cpu' = c
  BY <1>2, <1>1, <1>3, <1>4, <1>5, NoTaskAssumption DEF Target, Creating
<1>7. \A va \in task'.todo : PageLink(q, va)' = NULL
  <2>1. cr3[q] = NULL
    BY <1>1, <1>4, TargetOK DEF SpaceIInv, Rooted, Creating
  <2>2. \A va \in task'.todo : va \in Pages
    BY <1>2 DEF Present
  <2> QED BY <1>1, <2>1, <2>2, PageLinkForm, MemoryKept DEF SpaceIInv
<1>8. \A va \in task'.todo : PageLink(c, va)' # NULL
  <2>1. \A va \in task'.todo : va \in Pages /\ PageLink(c, va) # NULL
    BY <1>1, <1>2, <1>5, PresentLinked DEF Present
  <2> QED BY <1>1, <2>1, MemoryKept
<1>9. TaskOK'
  BY <1>1, <1>2, <1>3, <1>6, <1>7, <1>8 DEF TaskOK
<1> QED BY <1>1, <1>2, <1>9, TaskBegins

(* The page fault handler begins.                                          *)
LEMMA PageFaultOK ==
  ASSUME SpaceIInv, NEW va \in Pages, PageFault(va)
  PROVE  SpaceIInv'
PROOF
<1>1. /\ task = NULL /\ cpu # 0 /\ ~halted /\ va \notin Present(cpu)
      /\ task' = Task("fault", "page", {va})
      /\ UNCHANGED <<schedVars, memoryVars, halted>>
  BY DEF PageFault, Executing
<1>2. /\ task' \in Tasks /\ task'.op = "fault" /\ task'.step = "page"
      /\ task'.todo = {va} /\ task'.frame = NULL
  BY <1>1 DEF Task, Tasks
<1>3. UNCHANGED <<last, cpu>> /\ cr3' = cr3
  BY <1>1 DEF schedVars, memoryVars
<1>4. PICK c \in Pids : c = cpu /\ c # 0 /\ cr3[c] # NULL
  BY <1>1, TargetOK, NullApart
<1>5. Target' = c /\ cpu' = c
  BY <1>2, <1>3, <1>4, NoTaskAssumption DEF Target, Creating
<1>6. PageLink(c, va)' = NULL
  BY <1>1, <1>4, PresentLinked, MemoryKept
<1>7. TaskOK'
  BY <1>2, <1>3, <1>4, <1>5, <1>6 DEF TaskOK, Creating
<1> QED BY <1>1, <1>2, <1>7, TaskBegins

(* A process stores to its page, which is no directory and no table.       *)
LEMMA StoreOK ==
  ASSUME SpaceIInv, NEW va \in Pages, NEW v \in Values, Store(va, v)
  PROVE  /\ SpaceIInv'
         /\ \A p \in Pids : \A i, j \in Optional : Link(p, i, j)' = Link(p, i, j)
         /\ \A p \in Pids, w \in Pages : PageLink(p, w)' = PageLink(p, w)
PROOF
<1>1. /\ task = NULL /\ cpu # 0 /\ va \in Present(cpu)
      /\ UNCHANGED <<schedVars, frame_bitmap, cr3, task, halted>>
  BY DEF Store, Executing
<1>2. PICK c \in Pids : c = cpu /\ cr3[c] # NULL
  BY <1>1, TargetOK, NullApart
<1>3. PICK f \in Frames : f = PageFrame(cpu, va) /\ f = Link(c, PdIndex(va), PtIndex(va))
  BY <1>1, <1>2, PresentLinked, PageLinkForm DEF SpaceIInv
<1>4. mem' = [mem EXCEPT ![f] = Page(v)]
  BY <1>3 DEF Store
<1>5. \A p \in Pids : cr3[p] # f /\ \A i \in Index : TableOf(p, i) # f
  <2>1. PdIndex(va) \in Index /\ PtIndex(va) \in Index /\ PtIndex(va) # NULL /\ f # NULL
    BY PageIndices, NullApart
  <2>2. \A p \in Pids : \A i, j \in Optional : Link(p, i, j) = f => j # NULL
    BY <1>3, <2>1 DEF SpaceIInv, Distinct, Optional
  <2> QED BY <2>2, LinkForms DEF Optional
<1>6. \A p \in Pids : \A i, j \in Optional : Link(p, i, j)' = Link(p, i, j)
  BY <1>1, <1>4, <1>5, FrameChanged DEF SpaceIInv
<1>7. Distinct' /\ Allocated'
  BY <1>1, <1>6, KeptOK DEF SpaceIInv
<1>8. TypeOK'
  <2>1. Page(v) \in Contents
    BY DEF Page, NoEntries, Contents, Data
  <2>2. mem' \in [Frames -> Contents]
    BY <1>4, <2>1 DEF SpaceIInv, TypeOK, Contents
  <2> QED BY <1>1, <2>2 DEF SpaceIInv, TypeOK, schedVars, Contents, Frames, Pids, Index, Data
<1>9. Rooted'
  BY <1>1 DEF SpaceIInv, Rooted, schedVars, Creating, Pids
<1>10. InOrder'
  BY <1>1 DEF SpaceIInv, InOrder, Reserved, Frames
<1> QED BY <1>1, <1>6, <1>7, <1>8, <1>9, <1>10, PageLinksKept DEF SpaceIInv, TaskOK, HandOK

(* The process is terminated, or the machine halts.                        *)
LEMMA ViolationOK ==
  ASSUME SpaceIInv, Violation
  PROVE  SpaceIInv'
PROOF
<1>1. task = NULL /\ cpu # 0 /\ halted' = TRUE /\ UNCHANGED <<schedVars, memoryVars, task>>
  BY DEF Violation, Executing
<1>2. UNCHANGED <<last, cpu, waiting, done, preempted, mem, cr3, frame_bitmap, task>>
  BY <1>1 DEF schedVars, memoryVars
<1>3. TypeOK'
  BY <1>1, <1>2 DEF SpaceIInv, TypeOK, Frames, Pids, Index, Data
<1>4. Rooted'
  BY <1>1, <1>2, TargetOK DEF SpaceIInv, Rooted, Creating, Pids
<1> QED BY <1>1, <1>3, <1>4, MemoryKept DEF SpaceIInv, TaskOK, HandOK

(* sys_exit terminates the process; schedule() is yet to come.             *)
LEMMA SysExitOK ==
  ASSUME SpaceIInv, SysExit
  PROVE  SpaceIInv'
PROOF
<1>1. /\ task = NULL /\ cpu # 0 /\ ~halted
      /\ task' = Task("exit", "page", {})
      /\ done' = TRUE /\ UNCHANGED <<last, waiting, cpu, preempted, memoryVars, halted>>
  BY DEF SysExit, Executing, Sched!Exit
<1>2. /\ task' \in Tasks /\ task'.op = "exit" /\ task'.step = "page"
      /\ task'.todo = {} /\ task'.frame = NULL
  BY <1>1 DEF Task, Tasks
<1>3. UNCHANGED <<mem, cr3, frame_bitmap>>
  BY <1>1 DEF memoryVars
<1>4. TypeOK'
  BY <1>1, <1>2, <1>3 DEF SpaceIInv, TypeOK, Frames, Pids, Index, Data, Tasks, Pages
<1>5. Rooted'
  BY <1>1, <1>3 DEF SpaceIInv, Rooted, Creating, Pids
<1>6. TaskOK'
  BY <1>1, <1>2 DEF TaskOK, Creating
<1> QED BY <1>1, <1>2, <1>4, <1>5, <1>6, MemoryKept DEF SpaceIInv, HandOK

(* schedule() gives the CPU to p, or returns.                              *)
LEMMA ScheduleOK ==
  ASSUME SpaceIInv, NEW p \in waiting, Schedule(p)
  PROVE  SpaceIInv'
PROOF
<1>1. /\ ~Creating
      /\ cpu' = p /\ waiting' = waiting \ {p} /\ task' = NULL /\ done' = FALSE
      /\ UNCHANGED <<last, preempted, memoryVars, halted>>
  BY DEF Schedule, Sched!Yield, Exiting, Creating
<1>2. UNCHANGED <<mem, cr3, frame_bitmap>>
  BY <1>1 DEF memoryVars
<1>3. p \in 1 .. last /\ p \in Pids
  BY TargetOK DEF SpaceIInv, TypeOK
<1>4. TypeOK'
  <2>1. last' \in 0 .. MaxPid /\ cpu' \in 0 .. last' /\ waiting' \subseteq 1 .. last'
    <3>1. last \in 0 .. MaxPid /\ waiting \subseteq 1 .. last /\ last' = last
      BY <1>1 DEF SpaceIInv, TypeOK
    <3>2. cpu' \in 0 .. last'
      BY <1>1, <1>3, <3>1
    <3> QED BY <1>1, <3>1, <3>2
  <2>2. done' \in BOOLEAN /\ preempted' \in BOOLEAN /\ halted' \in BOOLEAN
    BY <1>1 DEF SpaceIInv, TypeOK
  <2> QED BY <1>1, <1>2, <2>1, <2>2 DEF SpaceIInv, TypeOK, Frames, Pids, Index, Data
<1>5. Rooted'
  <2>1. ~halted'
    BY <1>1 DEF SpaceIInv, Rooted, Schedule, Exiting
  <2>2. \A r \in Pids : r > last' => cr3'[r] = NULL
    BY <1>1, <1>2 DEF SpaceIInv, Rooted
  <2>3. cpu' \notin waiting' /\ \A r \in waiting' \union ({cpu'} \ {0}) : cr3'[r] # NULL
    BY <1>1, <1>2 DEF SpaceIInv, Rooted
  <2> QED BY <2>1, <2>2, <2>3 DEF Rooted, Pids
<1> QED BY <1>1, <1>4, <1>5, MemoryKept DEF SpaceIInv, TaskOK, HandOK

(* schedule() finds nobody to run and returns to sys_exit.                 *)
LEMMA ExitReturnsOK ==
  ASSUME SpaceIInv, ExitReturns
  PROVE  SpaceIInv'
PROOF
<1>1. ~Creating /\ task' = NULL /\ UNCHANGED <<schedVars, memoryVars, halted>>
  BY DEF ExitReturns, Exiting, Creating
<1>2. UNCHANGED <<last, cpu, waiting, done, preempted, mem, cr3, frame_bitmap, halted>>
  BY <1>1 DEF schedVars, memoryVars
<1>3. TypeOK'
  BY <1>1, <1>2 DEF SpaceIInv, TypeOK, Frames, Pids, Index, Data
<1>4. Rooted'
  BY <1>1, <1>2 DEF SpaceIInv, Rooted, Creating, Pids
<1> QED BY <1>1, <1>3, <1>4, MemoryKept DEF SpaceIInv, TaskOK, HandOK

(* A tick cuts what the kernel is doing; a process half created keeps its  *)
(* number and its directory.                                               *)
LEMMA PreemptOK ==
  ASSUME SpaceIInv, NEW p \in waiting, Preempt(p)
  PROVE  SpaceIInv'
PROOF
<1> USE PidsAssumption
<1>1. /\ cpu' = p /\ waiting' = {r \in waiting : r < p} /\ task' = NULL /\ done' = FALSE
      /\ halted' = FALSE /\ preempted' = TRUE /\ UNCHANGED memoryVars
      /\ last' = IF Creating THEN last + 1 ELSE last
  BY DEF Preempt, Sched!Preempt
<1>2. UNCHANGED <<mem, cr3, frame_bitmap>>
  BY <1>1 DEF memoryVars
<1>3. p \in 1 .. last /\ p \in Pids
  BY TargetOK DEF SpaceIInv, TypeOK
<1>4. Creating => last < MaxPid
  BY DEF SpaceIInv, TaskOK, Creating
<1>5. TypeOK'
  <2>1. last' \in 0 .. MaxPid /\ last <= last'
    BY <1>1, <1>4 DEF SpaceIInv, TypeOK
  <2>2. waiting \subseteq 1 .. last /\ waiting' \subseteq waiting /\ last \in Nat /\ last' \in Nat
    BY <1>1, <2>1 DEF SpaceIInv, TypeOK
  <2>3. waiting' \subseteq 1 .. last'
    BY <2>1, <2>2
  <2>4. cpu' \in 0 .. last'
    BY <1>1, <1>3, <2>1, <2>2
  <2> QED BY <1>1, <1>2, <2>1, <2>3, <2>4 DEF SpaceIInv, TypeOK, Frames, Pids, Index, Data
<1>6. Rooted'
  <2>1. ASSUME NEW r \in Pids, r > last', cr3'[r] # NULL PROVE FALSE
    BY <1>1, <1>2, <2>1 DEF SpaceIInv, Rooted, TypeOK, Pids
  <2>2. cpu' \notin waiting'
    BY <1>1, <1>3
  <2> QED BY <1>1, <1>2, <2>1, <2>2 DEF SpaceIInv, Rooted, Pids
<1> QED BY <1>1, <1>5, <1>6, MemoryKept DEF SpaceIInv, TaskOK, HandOK

(* Every step keeps the invariant.                                         *)
LEMMA SpaceNextOK == SpaceIInv /\ [Next]_spaceVars => SpaceIInv'
PROOF
<1> SUFFICES ASSUME SpaceIInv, [Next]_spaceVars PROVE SpaceIInv'
  OBVIOUS
<1>1. CASE CreateProcess
  BY <1>1, CreateProcessOK
<1>2. CASE SysFork
  BY <1>2, SysForkOK
<1>3. CASE SysExit
  BY <1>3, SysExitOK
<1>4. CASE ExitReturns
  BY <1>4, ExitReturnsOK
<1>5. CASE Violation
  BY <1>5, ViolationOK
<1>6. CASE CreatePageDirectory
  BY <1>6, CreatePageDirectoryOK
<1>7. CASE TakeFrame
  BY <1>7, TakeFrameOK
<1>8. CASE MapTable
  BY <1>8, MapTableOK
<1>9. CASE MapEntry
  BY <1>9, MapEntryOK
<1>10. CASE FillPage
  BY <1>10, FillPageOK
<1>11. CASE Finish
  BY <1>11, FinishOK
<1>12. ASSUME NEW va \in Pages, PageFault(va) PROVE SpaceIInv'
  BY <1>12, PageFaultOK
<1>13. ASSUME NEW va \in Pages, NEW v \in Values, Store(va, v) PROVE SpaceIInv'
  BY <1>13, StoreOK
<1>14. ASSUME NEW p \in waiting, Schedule(p) PROVE SpaceIInv'
  BY <1>14, ScheduleOK
<1>15. ASSUME NEW p \in waiting, Preempt(p) PROVE SpaceIInv'
  BY <1>15, PreemptOK
<1>16. CASE UNCHANGED spaceVars
  <2>1. /\ UNCHANGED <<last, waiting, cpu, done, preempted, frame_bitmap, mem, cr3, task, halted>>
        /\ UNCHANGED memoryVars
    BY <1>16 DEF spaceVars, schedVars, memoryVars
  <2>2. Distinct' /\ Allocated' /\ InOrder' /\ \A p \in Pids, va \in Pages : PageLink(p, va)' = PageLink(p, va)
    BY <2>1, MemoryKept
  <2>3. TypeOK' /\ Rooted'
    BY <2>1 DEF SpaceIInv, TypeOK, Frames, Pids, Index, Data, Tasks, Pages, Rooted, Creating
  <2>4. Target' = Target /\ Va' = Va /\ Creating' = Creating
    BY <2>1 DEF Target, Creating, Va
  <2>5. /\ \A p \in Pids, i \in Index : TableOf(p, i)' = TableOf(p, i)
        /\ \A p \in Pids : \A i, j \in Optional : Link(p, i, j)' = Link(p, i, j)
    BY <2>1, LinksSame
  <2>6. TaskOK'
    <3>1. CASE task = NULL
      BY <2>1, <3>1 DEF TaskOK
    <3>2. CASE task # NULL
      <4>1. PICK q : q = Target
        OBVIOUS
      <4>2. PICK c : c = cpu
        OBVIOUS
      <4>3. PICK va : va = Va
        OBVIOUS
      <4>4. /\ Target' = q /\ cpu' = c /\ Va' = va
            /\ \A w \in task.todo : PageLink(c, w)' = PageLink(c, w)
            /\ \A w \in task.todo : PageLink(q, w)' = PageLink(q, w)
        BY <2>1, <2>4, <4>1, <4>2, <4>3 DEF PageLink, PageOf, TableOf
      <4> QED BY <2>1, <2>4, <3>2, <4>1, <4>2, <4>3, <4>4 DEF SpaceIInv, TaskOK, CodePages
    <3> QED BY <3>1, <3>2
  <2>7. HandOK'
    <3>1. CASE ~(task # NULL /\ task.step \in {"map", "fill"})
      BY <2>1, <3>1 DEF HandOK
    <3>2. CASE task # NULL /\ task.step \in {"map", "fill"}
      <4>1. PICK q : q = Target
        OBVIOUS
      <4>2. PICK va : va = Va
        OBVIOUS
      <4>3. PICK k : k = PdIndex(va)
        OBVIOUS
      <4>4. PICK l : l = PtIndex(va)
        OBVIOUS
      <4>5. /\ Target' = q /\ Va' = va /\ PageLink(q, va)' = PageLink(q, va)
            /\ TableOf(q, k)' = TableOf(q, k)
        BY <2>1, <2>4, <4>1, <4>2 DEF PageLink, PageOf, TableOf
      <4>6. \A p \in Pids' : \A i, j \in Optional' :
              Link(p, i, j)' = task'.frame =>
                task'.step = "fill" /\ p = q /\ i = k /\ j = l
        BY <2>1, <2>5, <3>2, <4>1, <4>2, <4>3, <4>4 DEF SpaceIInv, HandOK, Pids, Optional, Index
      <4> QED BY <2>1, <3>2, <4>1, <4>2, <4>3, <4>4, <4>5, <4>6
                 DEF SpaceIInv, HandOK, Reserved, Touchable
    <3> QED BY <3>1, <3>2
  <2> QED BY <2>2, <2>3, <2>6, <2>7 DEF SpaceIInv
<1> QED
  BY <1>1, <1>2, <1>3, <1>4, <1>5, <1>6, <1>7, <1>8, <1>9, <1>10, <1>11, <1>12, <1>13, <1>14,
     <1>15, <1>16 DEF Next

-----------------------------------------------------------------------------
(***************************************************************************)
(* Theorems.                                                               *)
(***************************************************************************)

(* Whatever ticks cut, what the structure of memory rests on holds at      *)
(* every step of the allocator, the paging code and their callers.         *)
THEOREM SpaceInvariance == Spec => []SpaceIInv
PROOF
<1>1. Init => SpaceIInv
  BY SpaceInitOK
<1>2. SpaceIInv /\ [Next]_spaceVars => SpaceIInv'
  BY SpaceNextOK
<1> QED BY <1>1, <1>2, PTL DEF Spec

(* Frame numbers, tables and tasks are of the types the code gives them.   *)
THEOREM SpaceTypeCorrect == Spec => []TypeOK
PROOF
<1>1. SpaceIInv => TypeOK
  BY DEF SpaceIInv
<1> QED BY <1>1, SpaceInvariance, PTL

-----------------------------------------------------------------------------
(***************************************************************************)
(* The uses of frames are the links.                                       *)
(***************************************************************************)
LEMMA UsesAreLinks ==
  ASSUME SpaceIInv, NEW u \in Uses
  PROVE  \E p \in Pids :
           \/ u = <<"directory", p, 0, Link(p, NULL, NULL)>> /\ u[4] # NULL
           \/ \E i \in Index : u = <<"table", p, i, Link(p, i, NULL)>> /\ u[4] # NULL
           \/ \E va \in Pages :
                u = <<"page", p, va, Link(p, PdIndex(va), PtIndex(va))>> /\ u[4] # NULL
PROOF
<1>1. CASE \E p \in Pids : cr3[p] # NULL /\ u = <<"directory", p, 0, cr3[p]>>
  BY <1>1 DEF Link
<1>2. CASE \E p \in Pids : cr3[p] # NULL /\
             \E va \in Pages : TableFrame(p, va) # NULL /\ u = <<"table", p, PdIndex(va), TableFrame(p, va)>>
  <2>1. PICK p \in Pids, va \in Pages :
          /\ cr3[p] # NULL /\ TableFrame(p, va) # NULL
          /\ u = <<"table", p, PdIndex(va), TableFrame(p, va)>>
    BY <1>2
  <2>2. PdIndex(va) \in Index /\ TableFrame(p, va) = Link(p, PdIndex(va), NULL)
    BY <2>1, PageLinkForm, LinkForms DEF SpaceIInv
  <2> QED BY <2>1, <2>2
<1>3. CASE \E p \in Pids : cr3[p] # NULL /\
             \E va \in Present(p) : u = <<"page", p, va, PageFrame(p, va)>>
  <2>1. PICK p \in Pids, va \in Pages :
          cr3[p] # NULL /\ PageFrame(p, va) # NULL /\ u = <<"page", p, va, PageFrame(p, va)>>
    BY <1>3 DEF Present
  <2>2. PageFrame(p, va) = Link(p, PdIndex(va), PtIndex(va))
    BY <2>1, PageLinkForm DEF SpaceIInv
  <2> QED BY <2>1, <2>2
<1> QED BY <1>1, <1>2, <1>3 DEF Uses

(* Every pair of indices is that of an address.                            *)
LEMMA IndicesOfPage ==
  ASSUME NEW i \in Index, NEW j \in Index
  PROVE  \E va \in Pages : PdIndex(va) = i /\ PtIndex(va) = j
PROOF
<1> USE EntriesAssumption DEF Index
<1>1. Entries * i + j \in Nat
  OBVIOUS
<1>2. Entries * i + j < Entries * Entries
  <2>1. Entries * i <= Entries * (Entries - 1)
    OBVIOUS
  <2>2. Entries * (Entries - 1) = Entries * Entries - Entries
    OBVIOUS
  <2> QED BY <2>1, <2>2
<1>3. PICK va \in Pages : va = Entries * i + j
  BY <1>1, <1>2 DEF Pages
<1>4. va \div Entries = i
  BY <1>3, Quotient
<1>5. va = Entries * (va \div Entries) + (va % Entries)
  BY <1>3, <1>1
<1>6. Entries * i \in Int /\ va % Entries \in Int
  BY <1>3, <1>1
<1> QED BY <1>3, <1>4, <1>5, <1>6 DEF PdIndex, PtIndex

(* And a frame that a link leads to is in use.                             *)
LEMMA LinksAreUses ==
  ASSUME SpaceIInv, NEW p \in Pids, NEW i \in Optional, NEW j \in Optional, Link(p, i, j) # NULL
  PROVE  Link(p, i, j) \in InUse
PROOF
<1>1. cr3[p] # NULL
  BY DEF Link, PageOf, TableOf
<1>2. CASE i = NULL
  <2>1. Link(p, i, j) = cr3[p] /\ <<"directory", p, 0, cr3[p]>> \in Uses
    BY <1>1, <1>2 DEF Link, Uses
  <2> QED BY <2>1 DEF InUse
<1>3. CASE i # NULL /\ j = NULL
  <2>1. PICK va \in Pages : PdIndex(va) = i
    BY <1>3, IndicesOfPage DEF Optional
  <2>2. TableFrame(p, va) = Link(p, i, j)
    BY <1>1, <1>3, <2>1, PageLinkForm DEF Link, SpaceIInv
  <2>3. <<"table", p, PdIndex(va), TableFrame(p, va)>> \in Uses
    BY <1>1, <2>2 DEF Uses
  <2> QED BY <2>2, <2>3 DEF InUse
<1>4. CASE i # NULL /\ j # NULL
  <2>1. PICK va \in Pages : PdIndex(va) = i /\ PtIndex(va) = j
    BY <1>4, IndicesOfPage DEF Optional
  <2>2. PageFrame(p, va) = Link(p, i, j)
    BY <1>1, <2>1, PageLinkForm DEF SpaceIInv
  <2>3. <<"page", p, va, PageFrame(p, va)>> \in Uses
    BY <1>1, <2>2 DEF Uses, Present
  <2> QED BY <2>2, <2>3 DEF InUse
<1> QED BY <1>2, <1>3, <1>4

(* Frames in use are those something points to.                            *)
Pointed == {f \in Frames : \E p \in Pids : \E i, j \in Optional : Link(p, i, j) = f}

(* So the frames in use are those that are pointed to.                     *)
LEMMA InUseLinked == SpaceIInv => InUse = Pointed
PROOF
<1> SUFFICES ASSUME SpaceIInv PROVE InUse = Pointed
  OBVIOUS
<1>1. ASSUME NEW f \in InUse PROVE f \in Pointed
  <2>1. PICK u \in Uses : f = u[4]
    BY DEF InUse
  <2>2. f # NULL /\ \E p \in Pids : \E i, j \in Optional : Link(p, i, j) = f
    BY <2>1, UsesAreLinks, PageIndices DEF Optional
  <2> QED BY <2>2, LinkType DEF SpaceIInv, Pointed
<1> QED BY <1>1, LinksAreUses, NullApart DEF Pointed

(* Address spaces, dead and abandoned ones included, share no frame with   *)
(* one another, with the kernel or with what alloc_frame may yet return.   *)
THEOREM FramesHaveOneUse == Spec => []OneUse
PROOF
<1>1. SpaceIInv => OneUse
  <2> SUFFICES ASSUME SpaceIInv PROVE OneUse
    OBVIOUS
  <2>1. ASSUME NEW u \in Uses, NEW w \in Uses, u[4] = w[4] PROVE u = w
    <3>1. PICK p \in Pids :
           \/ u = <<"directory", p, 0, Link(p, NULL, NULL)>> /\ u[4] # NULL
           \/ \E i \in Index : u = <<"table", p, i, Link(p, i, NULL)>> /\ u[4] # NULL
           \/ \E va \in Pages :
                u = <<"page", p, va, Link(p, PdIndex(va), PtIndex(va))>> /\ u[4] # NULL
      BY UsesAreLinks
    <3>2. PICK q \in Pids :
           \/ w = <<"directory", q, 0, Link(q, NULL, NULL)>> /\ w[4] # NULL
           \/ \E i \in Index : w = <<"table", q, i, Link(q, i, NULL)>> /\ w[4] # NULL
           \/ \E va \in Pages :
                w = <<"page", q, va, Link(q, PdIndex(va), PtIndex(va))>> /\ w[4] # NULL
      BY UsesAreLinks
    <3>3. \A i, j, k, l \in Optional :
            Link(p, i, j) # NULL /\ Link(p, i, j) = Link(q, k, l) => p = q /\ i = k /\ j = l
      BY DEF SpaceIInv, Distinct
    <3>4. \A va \in Pages : /\ PdIndex(va) \in Optional /\ PtIndex(va) \in Optional
                            /\ PdIndex(va) # NULL /\ PtIndex(va) # NULL
      BY PageIndices, NullApart DEF Optional
    <3>5. NULL \in Optional /\ \A i \in Index : i \in Optional /\ i # NULL
      BY NullApart DEF Optional
    <3>6. CASE u = <<"directory", p, 0, Link(p, NULL, NULL)>>
      BY <2>1, <3>1, <3>2, <3>3, <3>4, <3>5, <3>6
    <3>7. CASE \E i \in Index : u = <<"table", p, i, Link(p, i, NULL)>>
      BY <2>1, <3>1, <3>2, <3>3, <3>4, <3>5, <3>7
    <3>8. ASSUME NEW va \in Pages, u = <<"page", p, va, Link(p, PdIndex(va), PtIndex(va))>>
          PROVE  u = w
      <4>1. PICK v \in Pages : w = <<"page", q, v, Link(q, PdIndex(v), PtIndex(v))>>
        BY <2>1, <3>1, <3>2, <3>3, <3>4, <3>5, <3>8
      <4>2. p = q /\ PdIndex(va) = PdIndex(v) /\ PtIndex(va) = PtIndex(v)
        BY <2>1, <3>1, <3>3, <3>4, <3>8, <4>1
      <4> QED BY <3>8, <4>1, <4>2, PagesDiffer
    <3> QED BY <3>1, <3>6, <3>7, <3>8
  <2>2. InUse \subseteq frame_bitmap \ (0 .. ReservedFrames - 1)
    BY InUseLinked, NullApart DEF SpaceIInv, Allocated, Reserved, Pointed
  <2>3. task # NULL /\ task.step = "map" => task.frame \in frame_bitmap \ InUse
    BY InUseLinked DEF SpaceIInv, HandOK, Pointed
  <2> QED BY <2>1, <2>2, <2>3 DEF OneUse
<1> QED BY <1>1, SpaceInvariance, PTL

-----------------------------------------------------------------------------
(***************************************************************************)
(* No frame is lost.                                                       *)
(***************************************************************************)

(* What is in use after a step that changes no link, or makes one.         *)
LEMMA InUseKept ==
  ASSUME SpaceIInv, SpaceIInv',
         \A p \in Pids : \A i, j \in Optional : Link(p, i, j)' = Link(p, i, j)
  PROVE  InUse' = InUse
PROOF
<1>1. InUse = Pointed
  BY InUseLinked
<1>2. (InUse = Pointed)'
  BY InUseLinked, PTL
<1>3. Pointed' = Pointed
  BY DEF Pointed, Frames, Pids, Optional, Index
<1> QED BY <1>1, <1>2, <1>3

(* A frame newly linked is the one frame that comes into use.              *)
LEMMA InUseGrows ==
  ASSUME SpaceIInv, SpaceIInv', NEW f \in Frames,
         NEW q \in Pids, NEW k \in Optional, NEW l \in Optional,
         Link(q, k, l) = NULL, Linked(f, q, k, l)
  PROVE  InUse' = InUse \union {f}
PROOF
<1>1. InUse = Pointed
  BY InUseLinked
<1>2. (InUse = Pointed)'
  BY InUseLinked, PTL
<1>3. \A g \in Frames : (\E p \in Pids : \E i, j \in Optional : Link(p, i, j)' = g)
        <=> g = f \/ \E p \in Pids : \E i, j \in Optional : Link(p, i, j) = g
  BY NullApart DEF Linked
<1>4. Pointed' = {g \in Frames : \E p \in Pids : \E i, j \in Optional : Link(p, i, j)' = g}
  BY DEF Pointed, Frames, Pids, Optional, Index
<1>5. Pointed' = Pointed \union {f}
  BY <1>3, <1>4 DEF Pointed
<1> QED BY <1>1, <1>2, <1>5

(* The frame the task has allocated and not yet mapped, or is filling.     *)
InHand == IF task = NULL THEN {} ELSE {task.frame} \ {NULL}

(* Every step but the preemption and a fault of the kernel hands on each   *)
(* frame allocated.                                                        *)
LEMMA AccountedNextOK ==
  ASSUME SpaceIInv, SpaceIInv', FramesAccounted, [Next]_spaceVars
  PROVE  FramesAccounted'
PROOF
<1> SUFFICES ASSUME ~preempted', ~halted'
             PROVE  frame_bitmap' = Reserved \union InUse' \union InHand'
  BY DEF FramesAccounted, Reserved, InHand
<1>1. ~preempted /\ ~halted => frame_bitmap = Reserved \union InUse \union InHand
  BY DEF FramesAccounted, Reserved, InHand
<1>2. CASE UNCHANGED memoryVars /\ InHand' = InHand /\ preempted' = preempted /\ halted' = halted
  <2>1. InUse' = InUse
    BY <1>2, InUseKept, LinksSame DEF memoryVars
  <2> QED BY <1>1, <1>2, <2>1 DEF memoryVars
<1>3. CASE CreateProcess \/ SysFork \/ SysExit \/ ExitReturns \/ Finish
             \/ (\E va \in Pages : PageFault(va)) \/ (\E p \in waiting : Schedule(p))
  <2>1. UNCHANGED <<memoryVars, preempted, halted>>
    BY <1>3 DEF CreateProcess, SysFork, SysExit, ExitReturns, Finish, PageFault, Schedule,
                schedVars, Sched!Exit, Sched!Create, Sched!Yield
  <2>2. InHand = {}
    <3>1. task = NULL \/ task.step = "page"
      BY <1>3 DEF CreateProcess, SysFork, SysExit, ExitReturns, Finish, PageFault, Schedule,
                  Executing, At, Exiting, SpaceIInv, TaskOK
    <3> QED BY <3>1 DEF InHand, SpaceIInv, TypeOK
  <2>3. InHand' = {}
    <3>1. task' = NULL \/ task'.frame = NULL
      BY <1>3 DEF CreateProcess, SysFork, SysExit, ExitReturns, Finish, PageFault, Schedule, Task
    <3> QED BY <3>1 DEF InHand
  <2> QED BY <1>2, <2>1, <2>2, <2>3
<1>4. ASSUME NEW p \in waiting, Preempt(p) PROVE FALSE
  BY <1>4 DEF Preempt, Sched!Preempt
<1>5. CASE Violation
  BY <1>5 DEF Violation
<1>6. ASSUME NEW va \in Pages, NEW v \in Values, Store(va, v)
      PROVE frame_bitmap' = Reserved \union InUse' \union InHand'
  <2>1. \A q \in Pids : \A i, j \in Optional : Link(q, i, j)' = Link(q, i, j)
    BY <1>6, StoreOK
  <2>2. InUse' = InUse
    BY <2>1, InUseKept
  <2>3. InHand' = InHand
    BY <1>6 DEF Store, InHand
  <2> QED BY <1>1, <1>6, <2>2, <2>3 DEF Store, schedVars
<1>7. CASE CreatePageDirectory
  <2>1. CASE task' = NULL
    <3>1. /\ task # NULL /\ task.frame = NULL
          /\ UNCHANGED <<mem, cr3, frame_bitmap, preempted>> /\ ~halted
      BY <1>7, <2>1, NoTaskAssumption
         DEF CreatePageDirectory, At, SpaceIInv, Rooted, TypeOK, Tasks,
            KernelFault, OutOfMemory, Abandon, Continue, schedVars, Sched!Fail
    <3>2. InUse' = InUse
      BY <3>1, InUseKept, LinksSame
    <3> QED BY <1>1, <2>1, <3>1, <3>2 DEF InHand
  <2>2. CASE task' # NULL
    <3> USE DEF DirectoryStep
    <3>1. PICK f \in Frames, q \in Pids : DirectoryStep(f, q)
      BY <1>7, <2>2, DirectoryEffect
    <3>2. InUse' = InUse \union {f}
      BY <3>1, InUseGrows, LinkForms DEF Optional
    <3>3. InHand = {} /\ InHand' = {}
      BY <3>1 DEF InHand, Tasks
    <3> QED BY <1>1, <3>1, <3>2, <3>3 DEF SetBit, schedVars
  <2> QED BY <2>1, <2>2
<1>8. CASE TakeFrame
  <2>1. CASE task' = NULL
    <3>1. /\ task # NULL /\ task.frame = NULL
          /\ UNCHANGED <<mem, cr3, frame_bitmap, preempted>> /\ ~halted
      <4>1. task # NULL /\ task \in Tasks /\ task.frame = NULL /\ ~halted
        BY <1>8, TargetOK DEF TakeFrame, At, SpaceIInv, TypeOK, Rooted
      <4>2. alloc_frame # 0 => alloc_frame \in Frames
        BY FreshFrame DEF SpaceIInv
      <4>3. alloc_frame # 0 => [task EXCEPT !.step = "map", !.frame = alloc_frame] # NULL
        BY <4>1, <4>2, NoTaskAssumption DEF Tasks
      <4>4. OutOfMemory
        BY <1>8, <2>1, <4>3 DEF TakeFrame, KernelFault, Continue
      <4> QED BY <4>1, <4>4 DEF OutOfMemory, Abandon, Sched!Fail, schedVars
    <3>2. InUse' = InUse
      BY <3>1, InUseKept, LinksSame
    <3> QED BY <1>1, <2>1, <3>1, <3>2 DEF InHand
  <2>2. CASE task' # NULL
    <3> USE DEF TakeStep
    <3>1. PICK f \in Frames, q \in Pids : TakeStep(f, q)
      BY <1>8, <2>2, TakeEffect
    <3>2. InUse' = InUse
      BY <3>1, InUseKept
    <3>3. InHand = {} /\ InHand' = {f}
      BY <2>2, <3>1 DEF InHand, Tasks, SpaceIInv, TypeOK
    <3> QED BY <1>1, <3>1, <3>2, <3>3 DEF SetBit, schedVars
  <2> QED BY <2>1, <2>2
<1>9. CASE MapTable
  <2>1. task' # NULL
    BY <1>9, NoTaskAssumption, TargetOK DEF MapTable, At, KernelFault, Abandon, Continue, Tasks
  <2>2. CASE alloc_frame = 0
    <3>1. /\ UNCHANGED <<memoryVars, schedVars, halted>>
          /\ task # NULL /\ task \in Tasks /\ task' = [task EXCEPT !.step = "fill"]
      BY <1>9, <2>2, TargetOK DEF MapTable, Continue, At
    <3>2. task'.frame = task.frame
      BY <3>1 DEF Tasks
    <3> QED BY <1>2, <2>1, <3>1, <3>2 DEF InHand, schedVars
  <2>3. CASE alloc_frame # 0
    <3> USE DEF TableStep, MappingAt
    <3>1. PICK f \in Frames, q \in Pids, va \in Pages : TableStep(f, q, va)
      BY <1>9, <2>1, <2>3, TableEffect
    <3>2. Link(q, PdIndex(va), NULL) = NULL
      BY <3>1, LinkForms
    <3>3. InUse' = InUse \union {f}
      BY <3>1, <3>2, InUseGrows DEF Optional
    <3>4. InHand' = InHand
      BY <3>1 DEF InHand
    <3> QED BY <1>1, <3>1, <3>3, <3>4 DEF SetBit, schedVars
  <2> QED BY <2>2, <2>3
<1>10. CASE MapEntry
  <2> USE DEF EntryStep, MappingAt
  <2>1. PICK f \in Frames, q \in Pids, va \in Pages : EntryStep(f, q, va)
    BY <1>10, EntryEffect
  <2>2. Link(q, PdIndex(va), PtIndex(va)) = NULL
    BY <2>1, LinkForms DEF PageLink
  <2>3. InUse' = InUse \union {f}
    BY <2>1, <2>2, InUseGrows DEF Optional
  <2>4. InHand = {f} /\ InHand' = {f}
    BY <2>1, NoTaskAssumption DEF InHand, Tasks
  <2> QED BY <1>1, <2>1, <2>3, <2>4 DEF schedVars
<1>11. CASE FillPage
  <2>1. task' # NULL
    <3>1. CASE Touchable(task.frame)
      BY <1>11, <3>1, FillGoesOn
    <3>2. CASE ~Touchable(task.frame)
      <4>1. KernelFault
        BY <1>11, <3>2 DEF FillPage
      <4> QED BY <1>1, <4>1 DEF KernelFault
    <3> QED BY <3>1, <3>2
  <2> USE DEF FillStep
  <2>2. PICK q \in Pids, va \in Pages : FillStep(q, va)
    BY <1>11, <2>1, FillEffect
  <2>3. InUse' = InUse
    BY <2>2, InUseKept
  <2>4. InHand' = {}
    BY <2>2 DEF InHand, Tasks
  <2>5. task.frame \in InUse
    <3>1. PdIndex(va) \in Index /\ PtIndex(va) \in Index /\ task.frame # NULL
      BY <2>2, PageIndices, NullApart
    <3>2. Link(q, PdIndex(va), PtIndex(va)) = task.frame
      BY <2>2, <3>1, LinkForms DEF PageLink
    <3> QED BY <3>1, <3>2, LinksAreUses DEF Optional
  <2>6. InHand \subseteq InUse
    BY <2>5 DEF InHand
  <2> QED BY <1>1, <2>2, <2>3, <2>4, <2>6 DEF schedVars
<1>12. CASE UNCHANGED spaceVars
  BY <1>2, <1>12 DEF spaceVars, schedVars, InHand
<1> QED BY <1>3, <1>4, <1>5, <1>6, <1>7, <1>8, <1>9, <1>10, <1>11, <1>12 DEF Next

(* A frame is lost only to a preemption or a fault of the kernel.          *)
THEOREM NoFrameIsLost == Spec => []FramesAccounted
PROOF
<1>1. Init => FramesAccounted
  <2> SUFFICES ASSUME Init PROVE FramesAccounted
    OBVIOUS
  <2>1. SpaceIInv /\ InUse = Pointed
    BY SpaceInitOK, InUseLinked
  <2>2. \A p \in Pids : \A i, j \in Optional : Link(p, i, j) = NULL
    BY DEF Init, Link, PageOf, TableOf
  <2>3. Pointed = {}
    BY <2>2, NullApart DEF Pointed
  <2> QED BY <2>1, <2>3 DEF Init, FramesAccounted
<1>2. SpaceIInv /\ SpaceIInv' /\ FramesAccounted /\ [Next]_spaceVars => FramesAccounted'
  BY AccountedNextOK
<1> QED BY <1>1, <1>2, SpaceInvariance, PTL DEF Spec

-----------------------------------------------------------------------------
(***************************************************************************)
(* The machine halts in time.                                              *)
(***************************************************************************)

(* A bit set changes the number of frames taken beyond those the kernel    *)
(* maps by one at most, and not at all if the kernel maps the frame.       *)
LEMMA BeyondCounted ==
  ASSUME SpaceIInv
  PROVE  /\ Cardinality(Beyond) \in Nat
         /\ frame_bitmap' = frame_bitmap => Beyond' = Beyond
         /\ \A f \in Frames :
              SetBit(f) =>
                /\ Cardinality(Beyond') <= Cardinality(Beyond) + 1
                /\ Cardinality(Beyond') \in Nat
                /\ Touchable(f) => Beyond' = Beyond
PROOF
<1>1. IsFiniteSet(Beyond)
  <2>1. IsFiniteSet(Frames)
    BY FS_Interval, FramesAssumption DEF Frames
  <2> QED BY <2>1, FS_Subset DEF Beyond, SpaceIInv, TypeOK
<1>2. Cardinality(Beyond) \in Nat
  BY <1>1, FS_CardinalityType
<1>3. ASSUME NEW f \in Frames, SetBit(f)
      PROVE  /\ Cardinality(Beyond') <= Cardinality(Beyond) + 1
             /\ Cardinality(Beyond') \in Nat
             /\ Touchable(f) => Beyond' = Beyond
  <2>1. Beyond' = IF f \in 0 .. MappedFrames - 1 THEN Beyond ELSE Beyond \union {f}
    BY <1>3 DEF SetBit, Beyond
  <2>2. Touchable(f) => f \in 0 .. MappedFrames - 1
    BY FramesAssumption DEF Touchable, Frames
  <2>3. /\ Cardinality(Beyond \union {f}) <= Cardinality(Beyond) + 1
        /\ Cardinality(Beyond \union {f}) \in Nat
    BY <1>1, <1>2, FS_AddElement
  <2> QED BY <1>2, <2>1, <2>2, <2>3
<1> QED BY <1>2, <1>3 DEF Beyond

(* Every step keeps the bound on the frames taken that the kernel does not *)
(* map.                                                                    *)
LEMMA BeyondNextOK ==
  ASSUME SpaceIInv, BeyondBounded, [Next]_spaceVars
  PROVE  BeyondBounded'
PROOF
<1> DEFINE n == Cardinality(Beyond)
<1>1. n \in Nat /\ n <= BeforePreemption + BeyondNow
  BY BeyondCounted DEF BeyondBounded
<1>2. /\ BeforePreemption \in {0, 2} /\ BeyondNow \in {0, 1, 2} /\ BeyondNow' \in {0, 1, 2}
      /\ BeyondInHand \in {0, 1} /\ BeyondInHand' \in {0, 1}
      /\ task = NULL \/ task.step \in {"directory", "page"} => BeyondInHand = 0
  BY DEF BeforePreemption, BeyondNow, BeyondInHand
<1>3. /\ task # NULL => halted = FALSE
      /\ Abandon => preempted' = preempted
      /\ OutOfMemory => Abandon /\ frame_bitmap' = frame_bitmap
      /\ KernelFault => Abandon /\ halted' = TRUE
  <2>1. task # NULL => ~halted
    BY DEF SpaceIInv, Rooted
  <2> QED BY <2>1 DEF Abandon, KernelFault, OutOfMemory, Sched!Fail, schedVars, SpaceIInv, TypeOK
<1> HIDE DEF n
<1>4. CASE /\ UNCHANGED <<frame_bitmap, preempted>>
           /\ \/ halted' = TRUE
              \/ halted = FALSE /\ BeyondInHand = 0
              \/ halted' = halted /\ BeyondInHand' = BeyondInHand
  <2>1. Cardinality(Beyond') <= n /\ Cardinality(Beyond') \in Nat
    BY <1>1, <1>4, BeyondCounted DEF n
  <2>2. BeforePreemption' = BeforePreemption /\ BeyondNow <= BeyondNow'
    BY <1>2, <1>4 DEF BeforePreemption, BeyondNow
  <2> QED BY <1>1, <1>2, <2>1, <2>2 DEF BeyondBounded
<1>5. CASE /\ SetBit(alloc_frame) /\ alloc_frame # 0 /\ preempted' = preempted /\ halted = FALSE
           /\ \/ halted' = TRUE
              \/ BeyondInHand = 0 /\ BeyondInHand' = 1
  <2>1. alloc_frame \in Frames
    BY <1>5, FreshFrame DEF SpaceIInv
  <2>2. Cardinality(Beyond') <= n + 1 /\ Cardinality(Beyond') \in Nat
    BY <1>5, <2>1, BeyondCounted DEF n
  <2>3. BeforePreemption' = BeforePreemption /\ BeyondNow + 1 <= BeyondNow'
    BY <1>2, <1>5 DEF BeforePreemption, BeyondNow
  <2> QED BY <1>1, <1>2, <2>2, <2>3 DEF BeyondBounded
<1>6. CASE /\ SetBit(alloc_frame) /\ alloc_frame # 0 /\ Touchable(alloc_frame)
           /\ UNCHANGED <<preempted, halted>>
           /\ BeyondInHand = 0 \/ BeyondInHand' = BeyondInHand
  <2>1. alloc_frame \in Frames
    BY <1>6, FreshFrame DEF SpaceIInv
  <2>2. Cardinality(Beyond') <= n /\ Cardinality(Beyond') \in Nat
    BY <1>1, <1>6, <2>1, BeyondCounted DEF n
  <2>3. BeforePreemption' = BeforePreemption /\ BeyondNow <= BeyondNow'
    BY <1>2, <1>6 DEF BeforePreemption, BeyondNow
  <2> QED BY <1>1, <1>2, <2>2, <2>3 DEF BeyondBounded
<1>7. CASE CreateProcess \/ SysFork \/ SysExit \/ ExitReturns \/ Finish \/ Violation
             \/ (\E va \in Pages : PageFault(va) \/ \E v \in Values : Store(va, v))
             \/ (\E p \in waiting : Schedule(p))
  <2>1. UNCHANGED <<frame_bitmap, preempted>> /\ (halted' = TRUE \/ halted' = halted)
    BY <1>7
       DEF CreateProcess, SysFork, SysExit, ExitReturns, Finish, PageFault, Schedule, Store,
           Violation,
                schedVars, memoryVars, Sched!Exit, Sched!Create, Sched!Yield
  <2>2. task = NULL \/ task.step = "page"
    BY <1>7
       DEF CreateProcess, SysFork, SysExit, ExitReturns, Finish, PageFault, Schedule, Store,
           Violation,
                Executing, At, Exiting, SpaceIInv, TaskOK
  <2>3. task' = NULL \/ task'.step \in {"directory", "page"}
    BY <1>7, <2>2
       DEF CreateProcess, SysFork, SysExit, ExitReturns, Finish, PageFault, Schedule, Store,
           Violation,
                Task, Executing
  <2>4. BeyondInHand = 0 /\ BeyondInHand' = 0
    BY <2>2, <2>3 DEF BeyondInHand
  <2> QED BY <1>4, <2>1, <2>4
<1>8. CASE CreatePageDirectory
  <2>1. CASE alloc_frame = 0
    BY <1>2, <1>3, <1>4, <1>8, <2>1 DEF CreatePageDirectory, At
  <2>2. CASE alloc_frame # 0 /\ ~Touchable(alloc_frame)
    BY <1>3, <1>5, <1>8, <2>2 DEF CreatePageDirectory, At
  <2>3. CASE alloc_frame # 0 /\ Touchable(alloc_frame)
    BY <1>2, <1>6, <1>8, <2>3 DEF CreatePageDirectory, Continue, At, schedVars
  <2> QED BY <2>1, <2>2, <2>3
<1>9. CASE TakeFrame
  <2>1. CASE alloc_frame = 0
    BY <1>2, <1>3, <1>4, <1>9, <2>1 DEF TakeFrame, At
  <2>2. CASE alloc_frame # 0 /\ ~Touchable(alloc_frame) /\ task.op = "fork"
    BY <1>3, <1>5, <1>9, <2>2 DEF TakeFrame, At
  <2>3. CASE alloc_frame # 0 /\ Touchable(alloc_frame)
    BY <1>2, <1>6, <1>9, <2>3 DEF TakeFrame, Continue, At, schedVars
  <2>4. CASE alloc_frame # 0 /\ ~Touchable(alloc_frame) /\ task.op # "fork"
    <3>1. alloc_frame \in Frames
      BY <2>4, FreshFrame DEF SpaceIInv
    <3>2. /\ SetBit(alloc_frame) /\ task' = [task EXCEPT !.step = "map", !.frame = alloc_frame]
          /\ UNCHANGED <<schedVars, halted>> /\ task # NULL /\ task \in Tasks /\ task.step = "page"
      BY <1>9, <2>4, TargetOK DEF TakeFrame, Continue, At
    <3>3. task' # NULL /\ task'.step = "map" /\ task'.frame = alloc_frame
      BY <3>1, <3>2, NoTaskAssumption DEF Tasks
    <3>4. BeyondInHand' = 1
      BY <2>4, <3>1, <3>3, FramesAssumption DEF BeyondInHand, Touchable, Frames
    <3> QED BY <1>2, <1>3, <1>5, <2>4, <3>2, <3>4 DEF schedVars
  <2> QED BY <2>1, <2>2, <2>3, <2>4
<1>10. CASE MapTable
  <2>1. CASE alloc_frame = 0
    <3>1. /\ task' = [task EXCEPT !.step = "fill"] /\ task # NULL /\ task \in Tasks /\ task.step = "map"
          /\ UNCHANGED <<schedVars, halted, memoryVars>>
      BY <1>10, <2>1, TargetOK DEF MapTable, Continue, At
    <3>2. task' # NULL /\ task'.step = "fill" /\ task'.frame = task.frame
      BY <3>1, NoTaskAssumption DEF Tasks
    <3>3. BeyondInHand' = BeyondInHand
      BY <3>1, <3>2 DEF BeyondInHand
    <3> QED BY <1>4, <3>1, <3>3 DEF schedVars, memoryVars
  <2>2. CASE alloc_frame # 0 /\ ~Touchable(alloc_frame)
    BY <1>3, <1>5, <1>10, <2>2 DEF MapTable, At
  <2>3. CASE alloc_frame # 0 /\ Touchable(alloc_frame)
    BY <1>6, <1>10, <2>3 DEF MapTable, Continue, At, schedVars, BeyondInHand
  <2> QED BY <2>1, <2>2, <2>3
<1>11. CASE MapEntry
  <2>1. /\ task' = [task EXCEPT !.step = "fill"] /\ task # NULL /\ task \in Tasks /\ task.step = "map"
        /\ UNCHANGED <<schedVars, halted, frame_bitmap>>
    BY <1>11, TargetOK DEF MapEntry, Continue, At
  <2>2. task' # NULL /\ task'.step = "fill" /\ task'.frame = task.frame
    BY <2>1, NoTaskAssumption DEF Tasks
  <2>3. BeyondInHand' = BeyondInHand
    BY <2>1, <2>2 DEF BeyondInHand
  <2> QED BY <1>4, <2>1, <2>3 DEF schedVars
<1>12. CASE FillPage
  <2>1. frame_bitmap' = frame_bitmap /\ task # NULL /\ task.step = "fill" /\ halted = FALSE
    BY <1>3, <1>12 DEF FillPage, At
  <2>2. CASE ~Touchable(task.frame)
    BY <1>3, <1>4, <1>12, <2>1, <2>2 DEF FillPage
  <2>3. CASE Touchable(task.frame)
    <3>1. task.frame \in Frames
      BY <2>1, FillingOK
    <3>2. BeyondInHand = 0
      BY <2>3, <3>1, FramesAssumption DEF BeyondInHand, Touchable, Frames
    <3> QED BY <1>4, <1>12, <2>1, <2>3, <3>2 DEF FillPage, Continue, schedVars
  <2> QED BY <2>2, <2>3
<1>13. ASSUME NEW p \in waiting, Preempt(p) PROVE BeyondBounded'
  <2>1. ~preempted /\ preempted' = TRUE /\ halted' = FALSE /\ task' = NULL /\ frame_bitmap' = frame_bitmap
    BY <1>13 DEF Preempt, Sched!Preempt, memoryVars
  <2>2. Cardinality(Beyond') = n
    BY <2>1, BeyondCounted DEF n
  <2>3. BeforePreemption = 0 /\ BeforePreemption' = 2 /\ BeyondNow' = 0
    BY <2>1 DEF BeforePreemption, BeyondNow, BeyondInHand
  <2> QED BY <1>1, <1>2, <2>2, <2>3 DEF BeyondBounded
<1>14. CASE UNCHANGED spaceVars
  BY <1>4, <1>14 DEF spaceVars, schedVars, memoryVars, BeyondInHand
<1> QED BY <1>7, <1>8, <1>9, <1>10, <1>11, <1>12, <1>13, <1>14 DEF Next

(* alloc_frame never runs out of frames, and never reads past the part of  *)
(* the bitmap that init clears: the machine halts before.                  *)
THEOREM HaltsInTime == Spec => []HaltsBeforeExhausted
PROOF
<1>1. Init => BeyondBounded
  <2> SUFFICES ASSUME Init PROVE BeyondBounded
    OBVIOUS
  <2>1. Beyond = {}
    BY FramesAssumption DEF Init, Beyond
  <2> QED BY <2>1, FS_EmptySet
             DEF Init, Sched!Init, BeyondBounded, BeforePreemption, BeyondNow, BeyondInHand
<1>2. SpaceIInv /\ BeyondBounded /\ [Next]_spaceVars => BeyondBounded'
  BY BeyondNextOK
<1>3. SpaceIInv /\ BeyondBounded => HaltsBeforeExhausted
  <2> SUFFICES ASSUME SpaceIInv, BeyondBounded PROVE HaltsBeforeExhausted
    OBVIOUS
  <2>1. Cardinality(Beyond) \in Nat
    BY BeyondCounted
  <2>2. BeforePreemption \in {0, 2} /\ BeyondNow \in {0, 1, 2}
    BY DEF BeforePreemption, BeyondNow, BeyondInHand
  <2> QED BY <2>1, <2>2 DEF BeyondBounded, HaltsBeforeExhausted, Beyond
<1> QED BY <1>1, <1>2, <1>3, SpaceInvariance, PTL DEF Spec

-----------------------------------------------------------------------------
(***************************************************************************)
(* The memory of each process is its own.                                  *)
(***************************************************************************)

(* Processes that may yet execute exist and have a directory.              *)
LEMMA AliveOK ==
  ASSUME SpaceIInv, NEW p \in Alive
  PROVE  p \in Pids /\ p <= last /\ cr3[p] \in Frames /\ p # 0
PROOF BY TargetOK DEF Alive, Pids

(* The memory of processes, through links.                                 *)
LEMMA SpaceForm ==
  SpaceIInv => Space = [p \in Alive |-> [va \in Pages |-> Datum(p, va)]]
PROOF
<1> SUFFICES ASSUME SpaceIInv PROVE Space = [p \in Alive |-> [va \in Pages |-> Datum(p, va)]]
  OBVIOUS
<1>1. ASSUME NEW p \in Alive, NEW va \in Pages
      PROVE  Datum(p, va) = IF va \in Present(p) \ Unseen(p) THEN mem[PageFrame(p, va)].data ELSE "zero"
  <2>1. p \in Pids /\ cr3[p] # NULL
    BY AliveOK, NullApart
  <2>2. PageFrame(p, va) = PageLink(p, va)
    BY <2>1, PageLinkForm DEF SpaceIInv
  <2> QED BY <2>2 DEF Datum, Present
<1>2. \A p \in Alive : Memory(p) = [va \in Pages |-> Datum(p, va)]
  BY <1>1 DEF Memory
<1> QED BY <1>2 DEF Space

(* The same after a step.                                                  *)
LEMMA SpaceFormNext ==
  ASSUME SpaceIInv'
  PROVE  Space' = [p \in Alive' |-> [va \in Pages |-> Datum(p, va)']]
PROOF
<1>1. (Space = [p \in Alive |-> [va \in Pages |-> Datum(p, va)]])'
  BY SpaceForm, PTL
<1> QED BY <1>1 DEF Pages

(* Processes are lost, and the memory of the others stays as it is.        *)
LEMMA Loses ==
  ASSUME SpaceIInv, SpaceIInv', Alive' \subseteq Alive,
         \A p \in Alive', va \in Pages : Datum(p, va)' = Datum(p, va)
  PROVE  Abstract!Next
PROOF
<1> DEFINE gone == Alive \ Alive'
<1>1. DOMAIN Space = Alive
  BY DEF Space
<1>2. Space' = [p \in Alive \ gone |-> Space[p]]
  <2>1. Alive \ gone = Alive'
    OBVIOUS
  <2>2. \A p \in Alive' : [va \in Pages |-> Datum(p, va)'] = Space[p]
    BY SpaceForm
  <2> QED BY <2>1, <2>2, SpaceFormNext
<1>3. Abstract!Lose(gone)
  BY <1>1, <1>2 DEF Abstract!Lose, Abstract!Processes
<1> QED BY <1>1, <1>3 DEF Abstract!Next, Abstract!Processes

(* A datum changes only with the page, its frame or what has been seen.    *)
LEMMA DatumKept ==
  ASSUME NEW p, NEW va,
         PageLink(p, va)' = PageLink(p, va),
         PageLink(p, va) # NULL => mem'[PageLink(p, va)].data = mem[PageLink(p, va)].data,
         va \in Unseen(p)' <=> va \in Unseen(p)
  PROVE  Datum(p, va)' = Datum(p, va)
PROOF BY DEF Datum

(* Pages of different addresses or processes are in different frames.      *)
LEMMA PageLinksApart ==
  ASSUME SpaceIInv
  PROVE  /\ \A p, q \in Pids : \A v, w \in Pages :
              PageLink(p, v) # NULL /\ PageLink(p, v) = PageLink(q, w) => p = q /\ v = w
         /\ \A p \in Pids, w \in Pages :
              PageLink(p, w) # NULL => PageLink(p, w) \in Frames /\ PageLink(p, w) \in frame_bitmap
         /\ \A f : Unlinked(f) => \A p \in Pids, w \in Pages : PageLink(p, w) # f
         /\ \A p, q \in Pids, w \in Pages : cr3[q] # NULL => PageLink(p, w) # cr3[q]
PROOF
<1>1. ASSUME NEW p \in Pids, NEW q \in Pids, NEW v \in Pages, NEW w \in Pages,
             PageLink(p, v) # NULL, PageLink(p, v) = PageLink(q, w)
      PROVE  p = q /\ v = w
  <2>1. p = q /\ PdIndex(v) = PdIndex(w) /\ PtIndex(v) = PtIndex(w)
    BY <1>1, PageLinkForm DEF SpaceIInv, Distinct, Optional
  <2> QED BY <2>1, PagesDiffer
<1>2. ASSUME NEW p \in Pids, NEW w \in Pages
      PROVE  /\ PageLink(p, w) # NULL => PageLink(p, w) \in Frames /\ PageLink(p, w) \in frame_bitmap
             /\ \A f : Unlinked(f) => PageLink(p, w) # f
             /\ \A q \in Pids : cr3[q] # NULL => PageLink(p, w) # cr3[q]
  <2>1. PdIndex(w) \in Index /\ PtIndex(w) \in Index
    BY PageIndices
  <2>2. PageLink(p, w) = Link(p, PdIndex(w), PtIndex(w))
    BY PageLinkForm DEF SpaceIInv
  <2>3. PageLink(p, w) # NULL => PageLink(p, w) \in Frames /\ PageLink(p, w) \in frame_bitmap
    BY <2>1, <2>2, PageLinkForm DEF SpaceIInv, Allocated, Optional
  <2>4. \A f : Unlinked(f) => PageLink(p, w) # f
    BY <2>1, <2>2 DEF Unlinked, Optional
  <2>5. ASSUME NEW q \in Pids, cr3[q] # NULL PROVE PageLink(p, w) # cr3[q]
    BY <2>1, <2>2, <2>5, LinkForms, NullApart DEF SpaceIInv, Distinct, Optional
  <2> QED BY <2>3, <2>4, <2>5
<1> QED BY <1>1, <1>2

(* A frame taken leaves alone the part of the module that is yet to be     *)
(* copied.                                                                 *)
LEMMA ModuleKept ==
  ASSUME SpaceIInv, NEW va \in CodePages, NEW m \in 0 .. 3, NEW n \in 0 .. 3, ModuleIntact(va, m),
         \/ frame_bitmap' = frame_bitmap /\ m <= n
         \/ alloc_frame # 0 /\ SetBit(alloc_frame) /\ m + 1 <= n,
         \A g \in Frames : g \notin frame_bitmap' => mem'[g].data = mem[g].data
  PROVE  /\ mem'[ModuleFrame + (va - CodePage)].data = "code"
         /\ \A f \in frame_bitmap' : f < ReservedFrames + (va - CodePage) + n
PROOF
<1> USE FramesAssumption, ModuleAssumption, EntriesAssumption
<1> DEFINE d == va - CodePage
<1>1. d \in Nat /\ d < ModulePages
  BY DEF CodePages
<1> HIDE DEF d
<1>2. \A f \in frame_bitmap : f < ReservedFrames + d + m
  BY DEF ModuleIntact, d
<1>3. m <= n => \A f \in frame_bitmap : f \in Nat /\ f < ReservedFrames + d + n
  BY <1>1, <1>2 DEF SpaceIInv, TypeOK, Frames
<1>4. \A f \in frame_bitmap' : f \in Nat /\ f < ReservedFrames + d + n
  <2>1. CASE frame_bitmap' = frame_bitmap /\ m <= n
    BY <1>3, <2>1
  <2>2. CASE alloc_frame # 0 /\ SetBit(alloc_frame) /\ m + 1 <= n
    <3>1. PICK f \in Frames : f = alloc_frame /\ \A g \in Frames : g < f => g \in frame_bitmap
      BY <2>2, AllocFrame DEF SpaceIInv
    <3>2. f <= ReservedFrames + d + m
      <4> SUFFICES ASSUME ReservedFrames + d + m < f PROVE FALSE
        BY <1>1, <3>1 DEF Frames
      <4>1. ReservedFrames + d + m \in Frames
        BY <1>1, <3>1 DEF Frames
      <4> QED BY <1>1, <1>2, <3>1, <4>1
    <3>3. f \in Nat /\ f < ReservedFrames + d + n
      BY <1>1, <2>2, <3>1, <3>2 DEF Frames
    <3>4. m <= n
      BY <2>2
    <3> QED BY <1>3, <2>2, <3>1, <3>3, <3>4 DEF SetBit
  <2> QED BY <2>1, <2>2
<1>5. ModuleFrame + d \in Frames /\ ModuleFrame + d \notin frame_bitmap'
  BY <1>1, <1>4 DEF Frames
<1> QED BY <1>4, <1>5 DEF ModuleIntact, d

(* What is done of a creation stays as it is.                              *)
LEMMA CreateContinues ==
  ASSUME SpaceIInv, DataOK, task # NULL, task.op = "create",
         task' \in Tasks, task'.op = task.op, task'.todo = task.todo,
         UNCHANGED <<schedVars, halted>>, NEW q \in Pids, q = Target,
         \A w \in Pages \ task.todo : PageLink(q, w)' = PageLink(q, w),
         \A w \in Pages \ task.todo :
           PageLink(q, w) # NULL => mem'[PageLink(q, w)].data = mem[PageLink(q, w)].data,
         \A g \in Frames : g \notin frame_bitmap' => mem'[g].data = mem[g].data,
         \/ frame_bitmap' = frame_bitmap /\ (task.todo # {} => FramesTaken <= FramesTaken')
         \/ alloc_frame # 0 /\ SetBit(alloc_frame) /\ (task.todo # {} => FramesTaken + 1 <= FramesTaken')
  PROVE  CreateData' /\ ForkData' /\ FreshData'
PROOF
<1>1. task' # NULL /\ Target' = q
  BY TaskContinues
<1>2. task.todo \subseteq CodePages /\ CodePages' = CodePages
  BY DEF SpaceIInv, TaskOK, CodePages
<1>3. \A w \in Pages : w \notin task.todo /\ PageLink(q, w)' # NULL =>
        w \in CodePages /\ mem'[PageLink(q, w)'].data = "code"
  BY DEF DataOK, CreateData
<1>4. \A w \in CodePages \ task.todo : PageLink(q, w)' # NULL
  BY CodePagesOK DEF DataOK, CreateData
<1>5. PICK m, n \in 0 .. 3 : m = FramesTaken /\ n = FramesTaken'
  BY DEF FramesTaken
<1>6. \A va \in task.todo : ModuleIntact(va, m)
  BY <1>5 DEF DataOK, CreateData
<1>7. \A va \in task.todo :
        /\ mem'[ModuleFrame + (va - CodePage)].data = "code"
        /\ \A f \in frame_bitmap' : f < ReservedFrames + (va - CodePage) + n
  BY <1>2, <1>5, <1>6, ModuleKept
<1>8. \A va \in task.todo : ModuleIntact(va, FramesTaken)'
  BY <1>5, <1>7 DEF ModuleIntact
<1>9. CreateData'
  BY <1>1, <1>2, <1>3, <1>4, <1>8 DEF CreateData, Pages, CodePages
<1> QED BY <1>1, <1>9 DEF ForkData, FreshData

(* sys_fork runs for a process that has the pages it copies.               *)
LEMMA ForkingOK ==
  ASSUME SpaceIInv, task # NULL, task.op = "fork"
  PROVE  \E c \in Pids : c = cpu /\ cr3[c] # NULL /\ \A va \in task.todo : PageLink(c, va) # NULL
PROOF
<1>1. cpu # 0 /\ \A va \in task.todo : PageLink(cpu, va) # NULL
  BY DEF SpaceIInv, TaskOK
<1> QED BY <1>1, TargetOK, NullApart

(* What a fork has copied stays as it is.                                  *)
LEMMA ForkContinues ==
  ASSUME SpaceIInv, DataOK, task # NULL, task.op = "fork",
         task' \in Tasks, task'.op = task.op, task'.todo = task.todo,
         UNCHANGED <<schedVars, halted>>, NEW q \in Pids, q = Target, NEW c \in Pids, c = cpu,
         \A w \in Pages : PageLink(c, w)' = PageLink(c, w),
         \A p \in Pids : \A w \in Pages :
           PageLink(p, w) # NULL => mem'[PageLink(p, w)].data = mem[PageLink(p, w)].data,
         \A w \in Pages :
           \/ PageLink(q, w)' = PageLink(q, w)
           \/ /\ PageLink(q, w) = NULL /\ PageLink(q, w)' # NULL /\ PageLink(c, w) # NULL
              /\ mem'[PageLink(q, w)'].data = mem[PageLink(c, w)].data,
         NEW va, va = Va,
         task'.step \in {"map", "fill"} => mem'[task'.frame].data = mem'[PageLink(c, va)'].data
  PROVE  CreateData' /\ ForkData' /\ FreshData'
PROOF
<1>1. task' # NULL /\ Target' = q /\ cpu' = c
  BY TaskContinues
<1>2. \A w \in Pages : PageLink(q, w)' # NULL =>
        /\ PageLink(c, w)' # NULL
        /\ mem'[PageLink(q, w)'].data = mem'[PageLink(c, w)'].data
  <2> SUFFICES ASSUME NEW w \in Pages, PageLink(q, w)' # NULL
               PROVE  /\ PageLink(c, w)' # NULL
                      /\ mem'[PageLink(q, w)'].data = mem'[PageLink(c, w)'].data
    OBVIOUS
  <2>1. CASE PageLink(q, w)' = PageLink(q, w)
    <3>1. PageLink(c, w) # NULL /\ mem[PageLink(q, w)].data = mem[PageLink(c, w)].data
      BY <2>1 DEF DataOK, ForkData
    <3> QED BY <2>1, <3>1
  <2>2. CASE PageLink(q, w)' # PageLink(q, w)
    BY <2>2
  <2> QED BY <2>1, <2>2
<1>3. \A w \in Pages : PageLink(c, w)' # NULL => w \in task.todo \/ PageLink(q, w)' # NULL
  BY DEF DataOK, ForkData
<1>4. Va' = va
  BY DEF Va
<1>5. ForkData'
  BY <1>1, <1>2, <1>3, <1>4 DEF ForkData, Pages
<1> QED BY <1>1, <1>5 DEF CreateData, FreshData

(* A step of a task that is not the last of a page changes no memory a     *)
(* process has seen.                                                       *)
LEMMA TaskGoesOn ==
  ASSUME SpaceIInv, SpaceIInv', task # NULL, task' # NULL,
         task'.op = task.op, task'.todo = task.todo, UNCHANGED <<schedVars, halted>>,
         \A p \in Pids : \A w \in Pages :
           PageLink(p, w) # NULL => mem'[PageLink(p, w)].data = mem[PageLink(p, w)].data,
         \A p \in Pids : \A w \in Pages :
           PageLink(p, w)' = PageLink(p, w) \/ (p = Target /\ w \in task.todo)
  PROVE  Abstract!Next
PROOF
<1>1. Alive' = Alive /\ cpu' = cpu
  BY DEF Alive, schedVars
<1>2. ASSUME NEW p \in Alive, NEW w \in Pages PROVE Datum(p, w)' = Datum(p, w)
  <2>1. p \in Pids /\ p <= last /\ p # last + 1
    BY AliveOK, TargetOK DEF Pids
  <2>2. Unseen(p)' = Unseen(p)
    BY <1>1 DEF Unseen
  <2>3. CASE PageLink(p, w)' = PageLink(p, w)
    BY <2>1, <2>2, <2>3, DatumKept
  <2>4. CASE p = Target /\ w \in task.todo
    <3>1. task.op = "fault" /\ p = cpu
      <4>1. task.op \in {"create", "fork", "fault", "exit"} /\ task.op # "exit"
        BY <2>4, TargetOK DEF Tasks, SpaceIInv, TaskOK
      <4> QED BY <2>1, <2>4, <4>1 DEF Target, Creating
    <3>2. w \in Unseen(p) /\ w \in Unseen(p)'
      BY <2>2, <2>4, <3>1 DEF Unseen
    <3> QED BY <3>2 DEF Datum
  <2> QED BY <2>1, <2>3, <2>4
<1> QED BY <1>1, <1>2, Loses

(* create_page_directory.                                                  *)
LEMMA DirectoryData ==
  ASSUME SpaceIInv, SpaceIInv', DataOK, CreatePageDirectory, task' # NULL
  PROVE  DataOK' /\ Abstract!Next
PROOF
<1> USE DEF DirectoryStep
<1>1. PICK f \in Frames, q \in Pids : DirectoryStep(f, q)
  BY DirectoryEffect
<1>2. task'.op = task.op /\ task'.step = "page" /\ task'.todo = task.todo
  BY <1>1 DEF Tasks
<1>3. \A g \in Frames : g # f => mem'[g].data = mem[g].data
  BY <1>1 DEF SpaceIInv, TypeOK
<1>4. \A p \in Pids : \A w \in Pages :
        PageLink(p, w) # NULL => mem'[PageLink(p, w)].data = mem[PageLink(p, w)].data
  BY <1>1, <1>3, PageLinksApart
<1>5. PICK c : c = cpu
  OBVIOUS
<1>6. CASE task.op = "create"
  <2>1. FramesTaken = 0
    BY <1>1 DEF FramesTaken
  <2>2. task.todo # {} => FramesTaken + 1 <= FramesTaken'
    <3>1. FramesTaken' \in {1, 2}
      BY <1>2 DEF FramesTaken
    <3> QED BY <2>1, <3>1
  <2>3. \A g \in Frames : g \notin frame_bitmap' => mem'[g].data = mem[g].data
    BY <1>1, <1>3 DEF SetBit
  <2> QED BY <1>1, <1>2, <1>4, <1>6, <2>2, <2>3, CreateContinues, TaskGoesOn DEF DataOK
<1>7. CASE task.op = "fork"
  <2>1. c \in Pids
    BY <1>1, <1>5, <1>7, TargetOK DEF SpaceIInv, TaskOK
  <2>2. PICK va : va = Va
    OBVIOUS
  <2>3. CreateData' /\ ForkData' /\ FreshData'
    BY <1>1, <1>2, <1>4, <1>5, <1>7, <2>1, <2>2, ForkContinues
  <2> QED BY <1>1, <1>2, <1>4, <2>3, TaskGoesOn DEF DataOK
<1> QED BY <1>1, <1>6, <1>7

(* A frame taken for a page.  That of a fork holds the parent's page.      *)
LEMMA TakeData ==
  ASSUME SpaceIInv, SpaceIInv', DataOK, TakeFrame, task' # NULL
  PROVE  DataOK' /\ Abstract!Next
PROOF
<1> USE DEF TakeStep
<1>1. PICK f \in Frames, q \in Pids : TakeStep(f, q)
  BY TakeEffect
<1>2. task'.op = task.op /\ task'.step = "map" /\ task'.todo = task.todo /\ task'.frame = f
  BY <1>1 DEF Tasks
<1>3. \A g \in Frames : g # f => mem'[g].data = mem[g].data
  BY <1>1 DEF SpaceIInv, TypeOK
<1>4. \A p \in Pids : \A w \in Pages :
        PageLink(p, w) # NULL => mem'[PageLink(p, w)].data = mem[PageLink(p, w)].data
  BY <1>1, <1>3, PageLinksApart
<1>5. Abstract!Next
  BY <1>1, <1>2, <1>4, TaskGoesOn
<1>6. CASE task.op = "create"
  <2>1. task.todo # {} => FramesTaken + 1 <= FramesTaken'
    <3> SUFFICES ASSUME task.todo # {} PROVE FramesTaken + 1 <= FramesTaken'
      OBVIOUS
    <3>1. PICK k : k = PdIndex(CodePage)
      OBVIOUS
    <3>2. k \in Index
      <4>1. task.todo \subseteq CodePages
        BY <1>1, <1>6 DEF SpaceIInv, TaskOK
      <4> QED BY <3>1, <4>1, CodePagesOK, PageIndices
    <3>3. TableOf(q, k)' = TableOf(q, k)
      <4>1. Link(q, k, NULL)' = Link(q, k, NULL)
        BY <1>1, <3>2 DEF Optional
      <4> QED BY <3>2, <4>1, NullApart DEF Link
    <3>4. Target' = q
      BY <1>1, <1>2, TaskContinues
    <3> QED BY <1>1, <1>2, <3>1, <3>3, <3>4 DEF FramesTaken
  <2>2. \A g \in Frames : g \notin frame_bitmap' => mem'[g].data = mem[g].data
    BY <1>1, <1>3 DEF SetBit
  <2> QED BY <1>1, <1>2, <1>4, <1>5, <1>6, <2>1, <2>2, CreateContinues DEF DataOK
<1>7. CASE task.op = "fork"
  <2>1. PICK c \in Pids : c = cpu /\ cr3[c] # NULL /\ \A w \in task.todo : PageLink(c, w) # NULL
    BY <1>1, <1>7, ForkingOK
  <2>2. PICK va \in Pages : va = Va /\ va \in task.todo
    BY <1>1, VaLowest DEF SpaceIInv
  <2>3. PageFrame(c, va) = PageLink(c, va) /\ PageLink(c, va) # NULL /\ PageLink(c, va) # f
    BY <1>1, <2>1, <2>2, PageLinkForm, PageLinksApart DEF SpaceIInv
  <2>4. mem'[f].data = mem'[PageLink(c, va)'].data
    <3>1. mem'[f] = mem[PageLink(c, va)]
      BY <1>1, <1>7, <2>1, <2>2, <2>3 DEF SpaceIInv, TypeOK
    <3> QED BY <1>1, <1>4, <2>3, <3>1
  <2>5. CreateData' /\ ForkData' /\ FreshData'
    BY <1>1, <1>2, <1>4, <1>7, <2>1, <2>2, <2>4, ForkContinues
  <2> QED BY <1>5, <2>5 DEF DataOK
<1>8. CASE task.op = "fault"
  BY <1>1, <1>2, <1>5, <1>8 DEF DataOK, CreateData, ForkData, FreshData
<1> QED BY <1>1, <1>6, <1>7, <1>8 DEF Tasks

(* map_page with no frame left for a table: its caller goes on.            *)
LEMMA NoTableData ==
  ASSUME SpaceIInv, SpaceIInv', DataOK, MapTable, alloc_frame = 0, task' # NULL
  PROVE  DataOK' /\ Abstract!Next
PROOF
<1>1. PICK q \in Pids, va \in Pages : MappingAt(q, va)
  BY MappingEffect DEF MapTable
<1>2. /\ task # NULL /\ task \in Tasks /\ task.op # "exit" /\ task.step = "map"
      /\ q = Target /\ va = Va /\ va \in task.todo
  BY <1>1 DEF MappingAt
<1>3. task' = [task EXCEPT !.step = "fill"] /\ UNCHANGED <<schedVars, halted, memoryVars>>
  BY DEF MapTable, Continue
<1>4. /\ task' \in Tasks /\ task'.op = task.op /\ task'.step = "fill" /\ task'.todo = task.todo
      /\ task'.frame = task.frame
  BY <1>2, <1>3 DEF Tasks
<1>5. UNCHANGED <<mem, cr3, frame_bitmap>>
  BY <1>3 DEF memoryVars
<1>6. \A p \in Pids : \A w \in Pages : PageLink(p, w)' = PageLink(p, w)
  BY <1>3, MemoryKept
<1>7. Abstract!Next
  BY <1>2, <1>3, <1>4, <1>5, <1>6, TaskGoesOn
<1>8. CASE task.op = "create"
  <2>1. FramesTaken' = FramesTaken
    <3>1. Target' = q
      BY <1>2, <1>3, <1>4, TaskContinues
    <3> QED BY <1>2, <1>4, <1>5, <3>1 DEF FramesTaken, TableOf
  <2>2. FramesTaken \in 0 .. 3
    BY DEF FramesTaken
  <2> QED BY <1>2, <1>3, <1>4, <1>5, <1>6, <1>7, <1>8, <2>1, <2>2, CreateContinues DEF DataOK
<1>9. CASE task.op = "fork"
  <2>1. PICK c \in Pids : c = cpu /\ cr3[c] # NULL /\ \A w \in task.todo : PageLink(c, w) # NULL
    BY <1>2, <1>9, ForkingOK
  <2>2. mem'[task'.frame].data = mem'[PageLink(c, va)'].data
    BY <1>2, <1>4, <1>5, <1>6, <1>9, <2>1 DEF DataOK, ForkData
  <2>3. CreateData' /\ ForkData' /\ FreshData'
    BY <1>2, <1>3, <1>4, <1>5, <1>6, <1>9, <2>1, <2>2, ForkContinues
  <2> QED BY <1>7, <2>3 DEF DataOK
<1>10. CASE task.op = "fault"
  BY <1>2, <1>4, <1>7, <1>10, NoTaskAssumption DEF DataOK, CreateData, ForkData, FreshData
<1> QED BY <1>2, <1>8, <1>9, <1>10 DEF Tasks

(* A page table.                                                           *)
LEMMA TableData ==
  ASSUME SpaceIInv, SpaceIInv', DataOK, MapTable, alloc_frame # 0, task' # NULL
  PROVE  DataOK' /\ Abstract!Next
PROOF
<1> USE DEF TableStep
<1>1. PICK f \in Frames, q \in Pids, va \in Pages : TableStep(f, q, va)
  BY TableEffect
<1>2. /\ task # NULL /\ task \in Tasks /\ task.op # "exit" /\ task.step = "map"
      /\ q = Target /\ va = Va /\ va \in task.todo /\ task.frame \in Frames /\ cr3[q] # NULL
      /\ PdIndex(va) \in Index /\ TableOf(q, PdIndex(va)) = NULL
  BY <1>1 DEF MappingAt
<1>3. /\ task' \in Tasks /\ task'.op = task.op /\ task'.todo = task.todo /\ task'.step = "map"
      /\ task'.frame = task.frame
  BY <1>1, <1>2
<1>4. \A g \in Frames : g # f => mem'[g].data = mem[g].data
  BY <1>1 DEF SpaceIInv, TypeOK
<1>5. \A p \in Pids : \A w \in Pages :
        PageLink(p, w) # NULL => mem'[PageLink(p, w)].data = mem[PageLink(p, w)].data
  <2>1. ASSUME NEW p \in Pids, NEW w \in Pages, PageLink(p, w) # NULL
        PROVE  PageLink(p, w) \in Frames /\ PageLink(p, w) # f
    BY <1>1, <2>1, PageLinksApart
  <2> QED BY <1>4, <2>1
<1>6. Abstract!Next
  BY <1>1, <1>2, <1>3, <1>5, TaskGoesOn
<1>7. CASE task.op = "create"
  <2>1. FramesTaken + 1 <= FramesTaken'
    <3>1. PICK k : k = PdIndex(CodePage)
      OBVIOUS
    <3>2. k = PdIndex(va)
      BY <1>2, <1>7, <3>1, CodePagesOK DEF SpaceIInv, TaskOK
    <3>3. TableOf(q, k) = NULL /\ TableOf(q, k)' # NULL
      <4>1. Link(q, k, NULL)' = f
        BY <1>1, <1>2, <3>2 DEF Linked, Optional
      <4> QED BY <1>1, <1>2, <3>2, <4>1, NullApart DEF Link
    <3>4. Target' = q
      BY <1>1, <1>2, <1>3, TaskContinues
    <3>5. FramesTaken = 2
      BY <1>2, <3>1, <3>3 DEF FramesTaken
    <3>6. FramesTaken' = 3
      BY <1>3, <3>1, <3>3, <3>4 DEF FramesTaken
    <3> QED BY <3>5, <3>6
  <2>2. \A g \in Frames : g \notin frame_bitmap' => mem'[g].data = mem[g].data
    BY <1>1, <1>4 DEF SetBit
  <2> QED BY <1>1, <1>2, <1>3, <1>5, <1>6, <1>7, <2>1, <2>2, CreateContinues DEF DataOK
<1>8. CASE task.op = "fork"
  <2>1. PICK c \in Pids : c = cpu /\ cr3[c] # NULL /\ \A w \in task.todo : PageLink(c, w) # NULL
    BY <1>2, <1>8, ForkingOK
  <2>2. mem'[task'.frame].data = mem'[PageLink(c, va)'].data
    <3>1. mem[task.frame].data = mem[PageLink(c, va)].data
      BY <1>2, <1>8, <2>1 DEF DataOK, ForkData
    <3>2. PageLink(c, va) # NULL
      BY <1>2, <2>1
    <3>3. PageLink(c, va)' = PageLink(c, va) /\ mem'[PageLink(c, va)].data = mem[PageLink(c, va)].data
      BY <1>1, <1>2, <1>5, <3>2
    <3>4. task'.frame = task.frame /\ mem'[task.frame].data = mem[task.frame].data
      BY <1>1, <1>2, <1>3, <1>4
    <3> QED BY <3>1, <3>3, <3>4
  <2>3. /\ UNCHANGED <<schedVars, halted>>
        /\ \A p \in Pids : \A w \in Pages : PageLink(p, w)' = PageLink(p, w)
    BY <1>1
  <2>4. CreateData' /\ ForkData' /\ FreshData'
    BY <1>2, <1>3, <1>5, <1>8, <2>1, <2>2, <2>3, ForkContinues
  <2> QED BY <1>6, <2>4 DEF DataOK
<1>9. CASE task.op = "fault"
  BY <1>2, <1>3, <1>6, <1>9, NoTaskAssumption DEF DataOK, CreateData, ForkData, FreshData
<1> QED BY <1>2, <1>7, <1>8, <1>9 DEF Tasks

(* map_page's last step: the page is not one a process has seen.           *)
LEMMA EntryData ==
  ASSUME SpaceIInv, SpaceIInv', DataOK, MapEntry
  PROVE  DataOK' /\ Abstract!Next
PROOF
<1>1. PICK f \in Frames, q \in Pids, va \in Pages : EntryStep(f, q, va)
  BY EntryEffect
<1>2. /\ task # NULL /\ task \in Tasks /\ task.op # "exit" /\ task.step = "map"
      /\ q = Target /\ va = Va /\ va \in task.todo /\ f = task.frame
      /\ PageLink(q, va) = NULL
      /\ PdIndex(va) \in Index /\ PtIndex(va) \in Index /\ TableOf(q, PdIndex(va)) # NULL
  BY <1>1 DEF MappingAt, EntryStep
<1>3. /\ task' \in Tasks /\ task'.op = task.op /\ task'.todo = task.todo /\ task'.step = "fill"
      /\ task'.frame = f
  BY <1>1, <1>2 DEF EntryStep, Tasks
<1>4. \A g \in Frames : mem'[g].data = mem[g].data
  BY <1>1 DEF SpaceIInv, TypeOK, EntryStep
<1>5. \A p \in Pids : \A w \in Pages :
        PageLink(p, w) # NULL => mem'[PageLink(p, w)].data = mem[PageLink(p, w)].data
  BY <1>4, PageLinksApart
<1>6. /\ UNCHANGED <<schedVars, halted>> /\ frame_bitmap' = frame_bitmap
      /\ \A p \in Pids, w \in Pages :
           PageLink(p, w)' = IF p = q /\ w = va THEN f ELSE PageLink(p, w)
  BY <1>1 DEF EntryStep
<1>7. \A p \in Pids : \A w \in Pages :
        PageLink(p, w)' = PageLink(p, w) \/ (p = Target /\ w \in task.todo)
  BY <1>2, <1>6
<1>8. task' # NULL
  BY <1>3, NoTaskAssumption
<1>9. Abstract!Next
  BY <1>2, <1>3, <1>5, <1>6, <1>7, <1>8, TaskGoesOn
<1>10. CASE task.op = "create"
  <2>1. FramesTaken <= FramesTaken'
    <3>1. PICK k : k = PdIndex(CodePage)
      OBVIOUS
    <3>2. k = PdIndex(va)
      BY <1>2, <1>10, <3>1, CodePagesOK DEF SpaceIInv, TaskOK
    <3>3. TableOf(q, k)' # NULL
      <4>1. Link(q, k, NULL)' = Link(q, k, NULL)
        BY <1>1, <1>2, <3>2, NullApart DEF EntryStep, Linked, Optional
      <4> QED BY <1>2, <3>2, <4>1, NullApart DEF Link
    <3>4. Target' = q
      BY <1>2, <1>3, <1>6, TaskContinues
    <3>5. FramesTaken' = 3
      BY <1>3, <3>1, <3>3, <3>4 DEF FramesTaken
    <3>6. FramesTaken \in 0 .. 3
      BY DEF FramesTaken
    <3> QED BY <3>5, <3>6
  <2>2. \A w \in Pages \ task.todo : PageLink(q, w)' = PageLink(q, w)
    BY <1>2, <1>6
  <2> QED BY <1>2, <1>3, <1>4, <1>5, <1>6, <1>9, <1>10, <2>1, <2>2, CreateContinues DEF DataOK
<1>11. CASE task.op = "fork"
  <2>1. PICK c \in Pids : c = cpu /\ cr3[c] # NULL /\ \A w \in task.todo : PageLink(c, w) # NULL
    BY <1>2, <1>11, ForkingOK
  <2>2. c # q
    BY <1>2, <1>11, <2>1, TargetOK DEF Target, Creating
  <2>3. \A w \in Pages : PageLink(c, w)' = PageLink(c, w)
    BY <1>6, <2>2
  <2>4. mem[f].data = mem[PageLink(c, va)].data /\ PageLink(c, va) # NULL
    BY <1>2, <1>11, <2>1 DEF DataOK, ForkData
  <2>5. mem'[f].data = mem[PageLink(c, va)].data /\ f # NULL
    BY <1>4, <2>4, NullApart
  <2>6. mem'[task'.frame].data = mem'[PageLink(c, va)'].data
    BY <1>3, <1>5, <2>3, <2>4, <2>5
  <2>7. \A w \in Pages :
           \/ PageLink(q, w)' = PageLink(q, w)
           \/ /\ PageLink(q, w) = NULL /\ PageLink(q, w)' # NULL /\ PageLink(c, w) # NULL
              /\ mem'[PageLink(q, w)'].data = mem[PageLink(c, w)].data
    BY <1>2, <1>6, <2>4, <2>5
  <2>8. CreateData' /\ ForkData' /\ FreshData'
    BY <1>2, <1>3, <1>5, <1>6, <1>11, <2>1, <2>3, <2>6, <2>7, ForkContinues
  <2> QED BY <1>9, <2>8 DEF DataOK
<1>12. CASE task.op = "fault"
  BY <1>3, <1>8, <1>9, <1>12 DEF DataOK, CreateData, ForkData, FreshData
<1> QED BY <1>2, <1>10, <1>11, <1>12 DEF Tasks

(* The page of a creation just filled holds the program's, and those yet   *)
(* to be filled will.                                                      *)
LEMMA ProgramFilled ==
  ASSUME SpaceIInv, DataOK, NEW q \in Pids, NEW va \in Pages, FillStep(q, va), task.op = "create"
  PROVE  CreateData'
PROOF
<1> USE FramesAssumption, ModuleAssumption, EntriesAssumption
<1>1. /\ q = Target /\ va = Va /\ va \in task.todo /\ task # NULL /\ task \in Tasks
      /\ task.step = "fill" /\ task.frame \in Frames /\ PageLink(q, va) = task.frame
      /\ task' \in Tasks /\ task'.op = task.op /\ task'.step = "page" /\ task'.todo = task.todo \ {va}
      /\ UNCHANGED <<schedVars, halted, cr3, frame_bitmap>>
  BY DEF FillStep, Tasks
<1>2. mem' = [mem EXCEPT ![task.frame] = Filled]
  BY DEF FillStep
<1>3. task.todo \subseteq CodePages /\ Target' = q /\ task' # NULL
  BY <1>1, TaskContinues DEF SpaceIInv, TaskOK
<1>4. /\ \A p \in Pids, w \in Pages : PageLink(p, w)' = PageLink(p, w)
      /\ \A p \in Pids : \A i, j \in Optional : Link(p, i, j)' = Link(p, i, j)
  BY DEF FillStep
<1>5. mem'[task.frame].data = "code"
  <2>1. ModuleFrame + Va - CodePage = ModuleFrame + (va - CodePage)
    BY <1>1, <1>3 DEF CodePages
  <2>2. Filled = mem[ModuleFrame + (va - CodePage)]
    BY <2>1 DEF Filled
  <2>3. mem[ModuleFrame + (va - CodePage)].data = "code"
    BY <1>1 DEF DataOK, CreateData, ModuleIntact
  <2> QED BY <1>1, <1>2, <2>2, <2>3 DEF SpaceIInv, TypeOK
<1>6. \A g \in Frames : g # task.frame => mem'[g] = mem[g]
  BY <1>2 DEF SpaceIInv, TypeOK
<1>7. ASSUME NEW w \in Pages, w \notin task'.todo, PageLink(q, w)' # NULL
      PROVE  w \in CodePages /\ mem'[PageLink(q, w)'].data = "code"
  <2>1. CASE w = va
    BY <1>1, <1>3, <1>4, <1>5, <2>1
  <2>2. CASE w # va
    <3>1. w \in CodePages /\ mem[PageLink(q, w)].data = "code" /\ PageLink(q, w) # NULL
      BY <1>1, <1>4, <1>7, <2>2 DEF DataOK, CreateData
    <3>2. PageLink(q, w) \in Frames /\ PageLink(q, w) # task.frame
      BY <1>1, <2>2, <3>1, PageLinksApart
    <3> QED BY <1>4, <1>6, <3>1, <3>2
  <2> QED BY <2>1, <2>2
<1>8. \A w \in CodePages \ task'.todo : PageLink(q, w)' # NULL
  BY <1>1, <1>4, CodePagesOK, NullApart DEF DataOK, CreateData
<1>9. PICK m \in 2 .. 3, n \in 1 .. 2 : m = FramesTaken /\ n = FramesTaken' /\ n + 1 = m
  <2>1. PICK k : k = PdIndex(CodePage)
    OBVIOUS
  <2>2. k \in Index
    BY <1>1, <1>3, <2>1, CodePagesOK, PageIndices
  <2>3. TableOf(q, k)' = TableOf(q, k)
    <3>1. Link(q, k, NULL)' = Link(q, k, NULL)
      BY <1>4, <2>2 DEF Optional
    <3> QED BY <2>2, <3>1, NullApart DEF Link
  <2>4. FramesTaken = 2 + (IF TableOf(q, k) # NULL THEN 1 ELSE 0)
    BY <1>1, <2>1 DEF FramesTaken
  <2>5. FramesTaken' = 1 + (IF TableOf(q, k) # NULL THEN 1 ELSE 0)
    BY <1>1, <1>3, <2>1, <2>3 DEF FramesTaken
  <2>6. CASE TableOf(q, k) # NULL
    BY <2>4, <2>5, <2>6
  <2>7. CASE TableOf(q, k) = NULL
    BY <2>4, <2>5, <2>7
  <2> QED BY <2>6, <2>7
<1>10. \A w \in task.todo : ModuleIntact(w, m)
  BY <1>1, <1>9 DEF DataOK, CreateData
<1>11. ASSUME NEW w \in task'.todo PROVE ModuleIntact(w, n)'
  <2>1. w \in task.todo /\ w \in CodePages /\ w > va /\ va \in CodePages
    <3>1. w \in task.todo /\ w # va /\ w \in CodePages /\ va \in CodePages
      BY <1>1, <1>3
    <3>2. va <= w
      BY <1>1, <3>1, VaLowest DEF SpaceIInv
    <3>3. w \in Int /\ va \in Int
      BY <3>1 DEF CodePages
    <3>4. w > va
      BY <3>1, <3>2, <3>3
    <3> QED BY <3>1, <3>4
  <2>2. \A g \in Frames : g \notin frame_bitmap' => mem'[g].data = mem[g].data
    <3>1. task.frame \in frame_bitmap
      BY <1>1, FillingOK
    <3> QED BY <1>1, <1>6, <3>1
  <2>3. mem'[ModuleFrame + (w - CodePage)].data = "code"
    <3>1. m \in 0 .. 3 /\ m <= m /\ frame_bitmap' = frame_bitmap /\ ModuleIntact(w, m)
      BY <1>1, <1>9, <1>10, <2>1
    <3> QED BY <2>1, <2>2, <3>1, ModuleKept
  <2>4. \A f \in frame_bitmap : f < ReservedFrames + (va - CodePage) + m
    BY <1>1, <1>10 DEF ModuleIntact
  <2>5. \A f \in frame_bitmap : f \in Nat
    BY DEF SpaceIInv, TypeOK, Frames
  <2>6. \A f \in frame_bitmap : f < ReservedFrames + (w - CodePage) + n
    BY <1>9, <2>1, <2>4, <2>5 DEF CodePages
  <2> QED BY <1>1, <2>3, <2>6 DEF ModuleIntact
<1>12. \A w \in task'.todo : ModuleIntact(w, FramesTaken)'
  BY <1>9, <1>11 DEF ModuleIntact
<1> QED BY <1>3, <1>7, <1>8, <1>12 DEF CreateData, Pages, CodePages

(* A page is filled.  A process that faulted on it sees it now, as zeros;  *)
(* the pages of a process being created are seen by nobody.                *)
LEMMA FillData ==
  ASSUME SpaceIInv, SpaceIInv', DataOK, FillPage, task' # NULL
  PROVE  DataOK' /\ Abstract!Next
PROOF
<1>1. PICK q \in Pids, va \in Pages : FillStep(q, va)
  BY FillEffect
<1>2. /\ q = Target /\ va = Va /\ va \in task.todo /\ task # NULL /\ task \in Tasks
      /\ task.step = "fill" /\ task.frame \in Frames /\ PageLink(q, va) = task.frame
      /\ task.op # "exit"
      /\ task' \in Tasks /\ task'.op = task.op /\ task'.step = "page" /\ task'.todo = task.todo \ {va}
      /\ UNCHANGED <<schedVars, halted, cr3, frame_bitmap>>
  BY <1>1 DEF FillStep, Tasks
<1>3. mem' = [mem EXCEPT ![task.frame] = Filled]
  BY <1>1 DEF FillStep
<1>4. \A p \in Pids, w \in Pages : PageLink(p, w)' = PageLink(p, w)
  BY <1>1 DEF FillStep
<1>5. Target' = q /\ task' # NULL
  BY <1>2, TaskContinues
<1>6. \A g \in Frames : g # task.frame => mem'[g] = mem[g]
  BY <1>3 DEF SpaceIInv, TypeOK
<1>7. Alive' = Alive /\ cpu' = cpu
  BY <1>2 DEF Alive, schedVars
<1>8. ASSUME NEW p \in Pids, NEW w \in Pages, p # q \/ w # va, PageLink(p, w) # NULL
      PROVE  mem'[PageLink(p, w)].data = mem[PageLink(p, w)].data
  <2>1. PageLink(p, w) \in Frames /\ PageLink(p, w) # task.frame
    BY <1>2, <1>8, PageLinksApart
  <2> QED BY <1>6, <2>1
<1>9. ASSUME NEW p \in Alive, NEW w \in Pages PROVE Datum(p, w)' = Datum(p, w)
  <2>1. p \in Pids /\ p <= last /\ p # last + 1
    BY AliveOK, TargetOK DEF Pids
  <2>2. CASE p # q \/ w # va
    <3>1. w \in Unseen(p)' <=> w \in Unseen(p)
      <4>1. CASE task.op = "fault"
        <5>1. p = cpu => p = q
          BY <1>2, <4>1 DEF Target, Creating
        <5> QED BY <1>2, <1>5, <1>7, <2>2, <4>1, <5>1 DEF Unseen
      <4>2. CASE task.op # "fault"
        BY <1>2, <4>2 DEF Unseen
      <4> QED BY <4>1, <4>2
    <3> QED BY <1>4, <1>8, <2>1, <2>2, <3>1, DatumKept
  <2>3. CASE p = q /\ w = va
    <3>1. task.op = "fault" /\ p = cpu
      <4>1. task.op \in {"create", "fork", "fault", "exit"}
        BY <1>2 DEF Tasks
      <4> QED BY <1>2, <2>1, <2>3, <4>1 DEF Target, Creating
    <3>2. Datum(p, w) = "zero"
      BY <1>2, <2>3, <3>1 DEF Datum, Unseen
    <3>3. mem'[task.frame].data = "zero"
      BY <1>2, <1>3, <3>1 DEF Filled, Page, SpaceIInv, TypeOK
    <3>4. PageLink(p, w)' = task.frame
      BY <1>2, <1>4, <2>3
    <3> QED BY <3>2, <3>3, <3>4 DEF Datum
  <2> QED BY <2>2, <2>3
<1>10. Abstract!Next
  BY <1>7, <1>9, Loses
<1>11. CASE task.op = "create"
  <2>1. CreateData'
    BY <1>1, <1>11, ProgramFilled
  <2> QED BY <1>2, <1>5, <1>10, <1>11, <2>1 DEF DataOK, ForkData, FreshData
<1>12. CASE task.op = "fork"
  <2>1. PICK c \in Pids : c = cpu
    BY <1>2, <1>12, ForkingOK
  <2>2. mem' = mem
    BY <1>2, <1>3, <1>12 DEF Filled, SpaceIInv, TypeOK
  <2>3. \A w \in Pages : PageLink(q, w) # NULL =>
           PageLink(c, w) # NULL /\ mem[PageLink(q, w)].data = mem[PageLink(c, w)].data
    BY <1>2, <1>12, <2>1 DEF DataOK, ForkData
  <2>4. \A w \in Pages : PageLink(c, w) # NULL => w \in task'.todo \/ PageLink(q, w) # NULL
    BY <1>2, <1>12, <2>1, NullApart DEF DataOK, ForkData
  <2>5. ForkData'
    BY <1>2, <1>4, <1>5, <1>7, <2>1, <2>2, <2>3, <2>4 DEF ForkData, Pages
  <2> QED BY <1>2, <1>5, <1>10, <1>12, <2>5 DEF DataOK, CreateData, FreshData
<1>13. CASE task.op = "fault"
  BY <1>2, <1>5, <1>10, <1>13 DEF DataOK, CreateData, ForkData, FreshData
<1> QED BY <1>2, <1>11, <1>12, <1>13 DEF Tasks

(* No page changes as long as memory does not.                             *)
LEMMA DatumSame ==
  ASSUME UNCHANGED <<mem, cr3>>, NEW p, NEW w, Unseen(p)' = Unseen(p)
  PROVE  Datum(p, w)' = Datum(p, w)
PROOF
<1>1. PageLink(p, w)' = PageLink(p, w)
  BY DEF PageLink, PageOf, TableOf, PdIndex, PtIndex
<1> QED BY <1>1, DatumKept

(* A creation that fails costs nobody any memory; a page fault that fails  *)
(* halts the process.                                                      *)
LEMMA AbandonData ==
  ASSUME SpaceIInv, SpaceIInv', task # NULL, task.op # "exit", Abandon,
         halted' = TRUE \/ (Creating /\ halted' = FALSE)
  PROVE  DataOK' /\ Abstract!Next
PROOF
<1>1. task' = NULL /\ UNCHANGED <<mem, cr3, waiting, cpu>>
  BY DEF Abandon, Sched!Fail, schedVars
<1>2. last' # 0
  <2>1. CASE Creating
    BY <2>1, TargetOK DEF Abandon, Sched!Fail
  <2>2. CASE ~Creating
    <3>1. task.op \in {"create", "fork", "fault", "exit"}
      BY TargetOK DEF Tasks
    <3>2. cpu # 0
      BY <2>2, <3>1 DEF Creating, SpaceIInv, TaskOK
    <3> QED BY <2>2, <3>2, TargetOK, PidsAssumption DEF Abandon, schedVars, Pids
  <2> QED BY <2>1, <2>2
<1>3. DataOK'
  BY <1>1, <1>2 DEF DataOK, FreshData, CreateData, ForkData
<1>4. halted = FALSE
  BY DEF SpaceIInv, Rooted, TypeOK
<1>5. Alive' \subseteq Alive
  BY <1>1, <1>4 DEF Alive
<1>6. ASSUME NEW p \in Alive', NEW w \in Pages PROVE Datum(p, w)' = Datum(p, w)
  <2>1. Unseen(p) = {}
    <3>1. CASE Creating
      BY <3>1 DEF Creating, Unseen
    <3>2. CASE ~Creating
      <4>1. p \in waiting
        BY <1>1, <3>2 DEF Alive
      <4> QED BY <4>1 DEF Unseen, SpaceIInv, Rooted
    <3> QED BY <3>1, <3>2
  <2>2. Unseen(p)' = {}
    BY <1>1 DEF Unseen
  <2> QED BY <1>1, <2>1, <2>2, DatumSame
<1> QED BY <1>3, <1>5, <1>6, Loses

(* What create_process and sys_fork add is the program, or the parent's    *)
(* memory; the page fault handler adds nothing any more.                   *)
LEMMA FinishData ==
  ASSUME SpaceIInv, SpaceIInv', DataOK, Finish
  PROVE  DataOK' /\ Abstract!Next
PROOF
<1>1. /\ task # NULL /\ task \in Tasks /\ task.op # "exit" /\ task.step = "page" /\ task.todo = {}
      /\ task' = NULL /\ UNCHANGED <<mem, cr3, halted, frame_bitmap>> /\ cpu' = cpu
  BY TargetOK DEF Finish, At, memoryVars, Sched!Create, schedVars
<1>2. halted = FALSE
  BY <1>1 DEF SpaceIInv, Rooted, TypeOK
<1>3. last' # 0
  <2>1. CASE Creating
    BY <2>1, TargetOK DEF Finish, Sched!Create
  <2>2. CASE ~Creating
    <3>1. task.op \in {"create", "fork", "fault", "exit"}
      BY <1>1 DEF Tasks
    <3>2. cpu # 0
      BY <1>1, <2>2, <3>1 DEF Creating, SpaceIInv, TaskOK
    <3> QED BY <2>2, <3>2, TargetOK, PidsAssumption DEF Finish, schedVars, Pids
  <2> QED BY <2>1, <2>2
<1>4. DataOK'
  BY <1>1, <1>3 DEF DataOK, FreshData, CreateData, ForkData
<1>5. \A p : Unseen(p) = {} /\ Unseen(p)' = {}
  BY <1>1 DEF Unseen
<1>6. ASSUME NEW p \in Alive, NEW w \in Pages PROVE Datum(p, w)' = Datum(p, w)
  BY <1>1, <1>5, DatumSame
<1>7. CASE task.op = "fault"
  <2>1. Alive' = Alive
    BY <1>1, <1>7 DEF Finish, Creating, Alive, schedVars
  <2> QED BY <1>4, <1>6, <2>1, Loses
<1>8. CASE Creating
  <2>1. PICK q \in Pids : q = Target /\ q = last + 1
    BY <1>1, <1>8, TargetOK DEF Target
  <2>2. Alive' = Alive \union {q} /\ q \notin Alive
    <3>1. waiting' = waiting \union {q}
      BY <1>8, <2>1 DEF Finish, Sched!Create
    <3>2. q \notin Alive
      BY <2>1, AliveOK, TargetOK
    <3> QED BY <1>1, <3>1, <3>2 DEF Alive
  <2>3. DOMAIN Space = Alive
    BY DEF Space
  <2>4. \A p \in Alive : [va \in Pages |-> Datum(p, va)'] = Space[p]
    BY <1>6, SpaceForm
  <2>5. Space' = [p \in Alive \union {q} |->
                    IF p = q THEN [va \in Pages |-> Datum(q, va)'] ELSE Space[p]]
    BY <2>2, <2>4, SpaceFormNext
  <2>6. \A w : PageLink(q, w)' = PageLink(q, w)
    BY <1>1 DEF PageLink, PageOf, TableOf, PdIndex, PtIndex
  <2>7. CASE task.op = "create"
    <3>1. \A w \in Pages : Datum(q, w)' = IF w \in CodePages THEN "code" ELSE "zero"
      BY <1>1, <1>5, <2>1, <2>6, <2>7 DEF Datum, DataOK, CreateData
    <3>2. Abstract!Load(q)
      BY <2>2, <2>3, <2>5, <3>1 DEF Abstract!Load, Abstract!Add, Abstract!Processes
    <3> QED BY <1>4, <3>2 DEF Abstract!Next
  <2>8. CASE task.op = "fork"
    <3>1. PICK c \in Pids : c = cpu
      BY <1>1, <2>8, ForkingOK
    <3>2. c \in Alive
      BY <1>2, <3>1, PidsAssumption DEF Alive, Pids
    <3>3. \A w \in Pages : Datum(q, w)' = Datum(c, w)
      BY <1>1, <1>5, <2>1, <2>6, <2>8, <3>1 DEF Datum, DataOK, ForkData
    <3>4. [va \in Pages |-> Datum(q, va)'] = Space[c]
      BY <3>2, <3>3, SpaceForm
    <3>5. Abstract!Fork(c, q)
      BY <2>2, <2>3, <2>5, <3>4 DEF Abstract!Fork, Abstract!Add, Abstract!Processes
    <3> QED BY <1>4, <2>3, <3>2, <3>5 DEF Abstract!Next, Abstract!Processes
  <2> QED BY <1>8, <2>7, <2>8 DEF Creating
<1> QED BY <1>1, <1>7, <1>8 DEF Tasks, Creating

(* Steps that change no memory, and where no page is being faulted in for  *)
(* a process that may yet execute.                                         *)
LEMMA LosesQuietly ==
  ASSUME SpaceIInv, SpaceIInv', UNCHANGED <<mem, cr3>>, Alive' \subseteq Alive,
         \A p \in Alive' : Unseen(p) = {} /\ Unseen(p)' = {}
  PROVE  Abstract!Next
PROOF
<1>1. ASSUME NEW p \in Alive', NEW w \in Pages PROVE Datum(p, w)' = Datum(p, w)
  BY DatumSame
<1> QED BY <1>1, Loses

(* create_process begins: the module is still intact.                      *)
LEMMA CreateProcessData ==
  ASSUME SpaceIInv, SpaceIInv', DataOK, CreateProcess
  PROVE  DataOK' /\ Abstract!Next
PROOF
<1>1. /\ task = NULL /\ last = 0 /\ task' = Task("create", "directory", CodePages)
      /\ UNCHANGED <<schedVars, memoryVars, halted>>
  BY DEF CreateProcess
<1>2. /\ task' \in Tasks /\ task'.op = "create" /\ task'.step = "directory" /\ task'.todo = CodePages
  BY <1>1, CodePagesOK DEF Task, Tasks
<1>3. task' # NULL
  BY <1>2, NoTaskAssumption
<1>4. last' = 0 /\ UNCHANGED <<mem, cr3, frame_bitmap, waiting, cpu, halted>>
  BY <1>1 DEF schedVars, memoryVars
<1>5. Target' = 1 /\ 1 \in Pids
  BY <1>2, <1>3, <1>4, PidsAssumption DEF Target, Creating, Pids
<1>6. \A w \in Pages : PageLink(1, w)' = NULL
  <2>1. cr3[1] = NULL
    BY <1>1, <1>5 DEF SpaceIInv, Rooted, Creating
  <2> QED BY <1>1, <1>5, <2>1, PageLinkForm, MemoryKept DEF SpaceIInv
<1>7. \A va \in CodePages : ModuleIntact(va, FramesTaken)'
  <2>1. FramesTaken' = 0
    BY <1>2 DEF FramesTaken
  <2>2. \A va \in CodePages : ModuleIntact(va, 0)
    BY <1>1 DEF DataOK, FreshData
  <2> QED BY <1>4, <2>1, <2>2 DEF ModuleIntact
<1>8. DataOK'
  BY <1>2, <1>3, <1>5, <1>6, <1>7 DEF DataOK, FreshData, CreateData, ForkData, Pages, CodePages
<1>9. \A p : Unseen(p) = {} /\ Unseen(p)' = {}
  BY <1>1, <1>2 DEF Unseen
<1> QED BY <1>4, <1>8, <1>9, LosesQuietly DEF Alive

(* sys_fork begins: the child has no page yet.                             *)
LEMMA SysForkData ==
  ASSUME SpaceIInv, SpaceIInv', SysFork
  PROVE  DataOK' /\ Abstract!Next
PROOF
<1>1. /\ task = NULL /\ cpu # 0 /\ last < MaxPid /\ ~halted
      /\ task' = Task("fork", "directory", Present(cpu))
      /\ UNCHANGED <<schedVars, memoryVars, halted>>
  BY DEF SysFork, Executing
<1>2. /\ task' \in Tasks /\ task'.op = "fork" /\ task'.step = "directory" /\ task'.todo = Present(cpu)
  BY <1>1 DEF Task, Tasks, Present
<1>3. task' # NULL
  BY <1>2, NoTaskAssumption
<1>4. UNCHANGED <<mem, cr3, frame_bitmap, waiting, cpu, halted, last>>
  BY <1>1 DEF schedVars, memoryVars
<1>5. PICK q \in Pids : q = last + 1 /\ Target' = q
  BY <1>1, <1>2, <1>3, <1>4, PidsAssumption, TargetOK DEF Target, Creating, Pids
<1>6. PICK c \in Pids : c = cpu
  BY <1>1, TargetOK
<1>7. \A w \in Pages : PageLink(q, w)' = NULL
  <2>1. cr3[q] = NULL
    BY <1>1, <1>5, TargetOK DEF SpaceIInv, Rooted, Creating
  <2> QED BY <1>1, <2>1, PageLinkForm, MemoryKept DEF SpaceIInv
<1>8. \A w \in Pages : PageLink(c, w)' # NULL => w \in task'.todo
  BY <1>1, <1>2, <1>6, PresentLinked, MemoryKept
<1>9. ForkData'
  BY <1>2, <1>4, <1>5, <1>6, <1>7, <1>8 DEF ForkData, Pages
<1>10. \A p : Unseen(p) = {} /\ Unseen(p)' = {}
  BY <1>1, <1>2 DEF Unseen
<1> QED BY <1>2, <1>3, <1>4, <1>9, <1>10, LosesQuietly DEF Alive, DataOK, FreshData, CreateData

(* A page fault begins: the process reads nothing in the page before and   *)
(* after.                                                                  *)
LEMMA PageFaultData ==
  ASSUME SpaceIInv, SpaceIInv', NEW va \in Pages, PageFault(va)
  PROVE  DataOK' /\ Abstract!Next
PROOF
<1>1. /\ task = NULL /\ cpu # 0 /\ va \notin Present(cpu)
      /\ task' = Task("fault", "page", {va})
      /\ UNCHANGED <<schedVars, memoryVars, halted>>
  BY DEF PageFault, Executing
<1>2. /\ task' \in Tasks /\ task'.op = "fault" /\ task'.step = "page" /\ task'.todo = {va}
  BY <1>1 DEF Task, Tasks
<1>3. task' # NULL
  BY <1>2, NoTaskAssumption
<1>4. UNCHANGED <<mem, cr3, frame_bitmap, waiting, cpu, halted, last>>
  BY <1>1 DEF schedVars, memoryVars
<1>5. PageLink(cpu, va) = NULL
  BY <1>1, PresentLinked
<1>6. ASSUME NEW p \in Alive, NEW w \in Pages PROVE Datum(p, w)' = Datum(p, w)
  <2>1. PageLink(p, w)' = PageLink(p, w)
    BY <1>1, AliveOK, MemoryKept
  <2>2. CASE p = cpu /\ w = va
    BY <1>5, <2>1, <2>2 DEF Datum
  <2>3. CASE ~ (p = cpu /\ w = va)
    BY <1>1, <1>2, <1>3, <1>4, <2>1, <2>3 DEF Datum, Unseen
  <2> QED BY <2>2, <2>3
<1>7. Alive' = Alive
  BY <1>4 DEF Alive
<1> QED BY <1>2, <1>3, <1>6, <1>7, Loses DEF DataOK, FreshData, CreateData, ForkData

(* A store of a process changes its own page and no other.                 *)
LEMMA StoreData ==
  ASSUME SpaceIInv, SpaceIInv', NEW va \in Pages, NEW v \in Values, Store(va, v)
  PROVE  DataOK' /\ Abstract!Next
PROOF
<1>1. /\ task = NULL /\ task' = NULL /\ cpu # 0 /\ ~halted /\ va \in Present(cpu)
      /\ UNCHANGED <<schedVars, frame_bitmap, cr3, task, halted>>
  BY DEF Store, Executing
<1>2. UNCHANGED <<last, waiting, cpu>>
  BY <1>1 DEF schedVars
<1>3. last' # 0
  BY <1>1, <1>2, TargetOK, PidsAssumption DEF Pids
<1>4. PICK c \in Pids : c = cpu /\ c \in Alive
  BY <1>1, TargetOK DEF Alive
<1>5. PICK f \in Frames : f = PageLink(c, va) /\ f # NULL
  BY <1>1, <1>4, PresentLinked, PageLinksApart
<1>6. mem' = [mem EXCEPT ![f] = Page(v)]
  BY <1>1, <1>4, <1>5, PresentLinked DEF Store
<1>7. \A p \in Pids, w \in Pages : PageLink(p, w)' = PageLink(p, w)
  BY StoreOK
<1>8. \A p : Unseen(p) = {} /\ Unseen(p)' = {}
  BY <1>1 DEF Unseen
<1>9. mem'[f].data = v /\ \A g \in Frames : g # f => mem'[g] = mem[g]
  BY <1>6 DEF SpaceIInv, TypeOK, Page
<1>10. ASSUME NEW p \in Alive, NEW w \in Pages
       PROVE  Datum(p, w)' = IF p = c /\ w = va THEN v ELSE Datum(p, w)
  <2>1. p \in Pids
    BY AliveOK
  <2>2. CASE p = c /\ w = va
    BY <1>5, <1>7, <1>8, <1>9, <2>2 DEF Datum
  <2>3. CASE ~ (p = c /\ w = va)
    <3>1. PageLink(p, w) # NULL => PageLink(p, w) \in Frames /\ PageLink(p, w) # f
      BY <1>5, <2>1, <2>3, PageLinksApart
    <3>2. Datum(p, w)' = Datum(p, w)
      BY <1>7, <1>8, <1>9, <2>1, <3>1, DatumKept
    <3> QED BY <2>3, <3>2
  <2> QED BY <2>2, <2>3
<1>11. Alive' = Alive /\ DOMAIN Space = Alive
  BY <1>1, <1>2 DEF Alive, Space
<1>12. Space' = [Space EXCEPT ![c][va] = v]
  <2>1. Space' = [p \in Alive |-> [w \in Pages |-> IF p = c /\ w = va THEN v ELSE Datum(p, w)]]
    BY <1>10, <1>11, SpaceFormNext
  <2>2. Space = [p \in Alive |-> [w \in Pages |-> Datum(p, w)]]
    BY SpaceForm
  <2> QED BY <2>1, <2>2
<1>13. Abstract!Store(c, va, v)
  BY <1>12 DEF Abstract!Store
<1>14. Abstract!Next
  BY <1>4, <1>11, <1>13 DEF Abstract!Next, Abstract!Processes
<1> QED BY <1>1, <1>3, <1>14 DEF DataOK, FreshData, CreateData, ForkData

(* Exits, schedule(), the preemption and faults of a process only lose     *)
(* processes.                                                              *)
LEMMA DispatchData ==
  ASSUME SpaceIInv, SpaceIInv',
         SysExit \/ ExitReturns \/ Violation \/ \E p \in waiting : Schedule(p) \/ Preempt(p)
  PROVE  DataOK' /\ Abstract!Next
PROOF
<1>1. waiting \subseteq Alive /\ cpu \notin waiting
  BY DEF Alive, SpaceIInv, Rooted
<1>2. last = 0 => cpu = 0 /\ waiting = {}
  BY TargetOK, PidsAssumption DEF SpaceIInv, TypeOK
<1>3. CASE SysExit
  <2>1. /\ task = NULL /\ cpu # 0 /\ task' = Task("exit", "page", {})
        /\ UNCHANGED <<mem, cr3, halted, last, waiting, cpu>>
    BY <1>3 DEF SysExit, Executing, Sched!Exit, memoryVars
  <2>2. task'.op = "exit" /\ \A p : Unseen(p) = {} /\ Unseen(p)' = {}
    BY <2>1 DEF Task, Unseen
  <2> QED BY <1>2, <2>1, <2>2, LosesQuietly DEF Alive, DataOK, FreshData, CreateData, ForkData
<1>4. CASE ExitReturns
  <2>1. /\ task.op = "exit" /\ task' = NULL /\ UNCHANGED <<mem, cr3, halted, last, waiting, cpu>>
        /\ last # 0
    BY <1>2, <1>4 DEF ExitReturns, Exiting, memoryVars, schedVars, SpaceIInv, TaskOK
  <2>2. \A p : Unseen(p) = {} /\ Unseen(p)' = {}
    BY <2>1 DEF Unseen
  <2> QED BY <2>1, <2>2, LosesQuietly DEF Alive, DataOK, FreshData, CreateData, ForkData
<1>5. CASE Violation
  <2>1. /\ task = NULL /\ task' = NULL /\ halted' = TRUE /\ ~halted /\ last # 0
        /\ UNCHANGED <<mem, cr3, last, waiting, cpu>>
    BY <1>2, <1>5 DEF Violation, Executing, memoryVars, schedVars
  <2>2. \A p : Unseen(p) = {} /\ Unseen(p)' = {}
    BY <2>1 DEF Unseen
  <2> QED BY <2>1, <2>2, LosesQuietly DEF Alive, DataOK, FreshData, CreateData, ForkData
<1>6. ASSUME NEW p \in waiting, Schedule(p) \/ Preempt(p) PROVE DataOK' /\ Abstract!Next
  <2>1. /\ task' = NULL /\ UNCHANGED <<mem, cr3>> /\ last' \in {last, last + 1}
        /\ waiting' \subseteq waiting /\ cpu' = p
    BY <1>6 DEF Schedule, Preempt, Sched!Yield, Sched!Preempt, memoryVars
  <2>2. last' # 0
    BY <1>2, <2>1, TargetOK
  <2>3. Alive' \subseteq waiting
    BY <2>1 DEF Alive
  <2>4. \A q \in Alive' : Unseen(q) = {} /\ Unseen(q)' = {}
    BY <1>1, <2>1, <2>3 DEF Unseen
  <2> QED BY <1>1, <2>1, <2>2, <2>3, <2>4, LosesQuietly
             DEF DataOK, FreshData, CreateData, ForkData
<1> QED BY <1>3, <1>4, <1>5, <1>6

(* Every step is one of UserMemory or none, and leaves what is in the      *)
(* frames as the invariant says.                                           *)
LEMMA SpaceStepOK ==
  ASSUME SpaceIInv, SpaceIInv', DataOK, [Next]_spaceVars
  PROVE  DataOK' /\ [Abstract!Next]_Space
PROOF
<1>1. ASSUME task # NULL, task.op # "exit", task' = NULL,
             CreatePageDirectory \/ TakeFrame \/ MapTable \/ FillPage
      PROVE  DataOK' /\ Abstract!Next
  <2>1. OutOfMemory \/ KernelFault
    <3>1. CASE CreatePageDirectory
      <4>1. [task EXCEPT !.step = "page"] # NULL
        BY <1>1, TargetOK, NoTaskAssumption DEF Tasks
      <4> QED BY <1>1, <3>1, <4>1 DEF CreatePageDirectory, Continue
    <3>2. CASE TakeFrame
      <4>1. alloc_frame # 0 => [task EXCEPT !.step = "map", !.frame = alloc_frame] # NULL
        BY <1>1, TargetOK, FreshFrame, NoTaskAssumption DEF Tasks, SpaceIInv
      <4> QED BY <1>1, <3>2, <4>1 DEF TakeFrame, Continue
    <3>3. CASE MapTable
      <4>1. [task EXCEPT !.step = "fill"] # NULL
        BY <1>1, TargetOK, NoTaskAssumption DEF Tasks
      <4> QED BY <1>1, <3>3, <4>1 DEF MapTable, Continue
    <3>4. CASE FillPage
      <4>1. [task EXCEPT !.step = "page", !.todo = @ \ {Va}, !.frame = NULL] # NULL
        BY <1>1, TargetOK, NoTaskAssumption DEF Tasks
      <4> QED BY <1>1, <3>4, <4>1 DEF FillPage, Continue
    <3> QED BY <1>1, <3>1, <3>2, <3>3, <3>4
  <2>2. Abandon /\ (halted' = TRUE \/ (Creating /\ halted' = FALSE))
    BY <2>1 DEF OutOfMemory, KernelFault, Creating
  <2> QED BY <1>1, <2>2, AbandonData
<1>2. CASE CreatePageDirectory
  BY <1>1, <1>2, DirectoryData DEF CreatePageDirectory, At
<1>3. CASE TakeFrame
  BY <1>1, <1>3, TakeData DEF TakeFrame, At
<1>4. CASE MapTable
  <2>1. task # NULL /\ task.op # "exit"
    BY <1>4 DEF MapTable, At
  <2> QED BY <1>1, <1>4, <2>1, NoTableData, TableData
<1>5. CASE FillPage
  BY <1>1, <1>5, FillData DEF FillPage, At
<1>6. CASE SysExit \/ ExitReturns \/ Violation \/ \E p \in waiting : Schedule(p) \/ Preempt(p)
  BY <1>6, DispatchData
<1>7. CASE UNCHANGED spaceVars
  <2>1. UNCHANGED <<mem, cr3, frame_bitmap, task, halted, last, waiting, cpu>>
    BY <1>7 DEF spaceVars, schedVars, memoryVars
  <2>2. \A p, w : PageLink(p, w)' = PageLink(p, w)
    BY <2>1 DEF PageLink, PageOf, TableOf, PdIndex, PtIndex
  <2>3. Target' = Target /\ Creating' = Creating /\ FramesTaken' = FramesTaken /\ Va' = Va
    BY <2>1 DEF Target, Creating, FramesTaken, TableOf, Va, PdIndex
  <2>4. \A va, n : ModuleIntact(va, n)' <=> ModuleIntact(va, n)
    BY <2>1 DEF ModuleIntact
  <2>5. DataOK'
    BY <2>1, <2>2, <2>3, <2>4 DEF DataOK, FreshData, CreateData, ForkData, Pages, CodePages
  <2>6. Space' = Space
    <3>1. Alive' = Alive /\ \A p : Unseen(p)' = Unseen(p)
      BY <2>1 DEF Alive, Unseen
    <3>2. \A p \in Alive, w \in Pages : Datum(p, w)' = Datum(p, w)
      BY <2>1, <3>1, DatumSame
    <3> QED BY <3>1, <3>2, SpaceForm, SpaceFormNext
  <2> QED BY <2>5, <2>6
<1> QED BY <1>2, <1>3, <1>4, <1>5, <1>6, <1>7, EntryData, FinishData, CreateProcessData,
           SysForkData, PageFaultData, StoreData
        DEF Next

(* create_process, fork and demand paging give each process a memory of    *)
(* its own, wherever ticks cut them, whatever number of frames there is.   *)
THEOREM MemoryIsPrivate == Spec => ImplementsUserMemory
PROOF
<1>1. Init => DataOK /\ Abstract!Init
  <2> SUFFICES ASSUME Init PROVE DataOK /\ Abstract!Init
    OBVIOUS
  <2>1. task = NULL /\ waiting = {} /\ cpu = 0
    BY DEF Init, Sched!Init
  <2>2. \A va \in CodePages : ModuleIntact(va, 0)
    <3> SUFFICES ASSUME NEW va \in CodePages PROVE ModuleIntact(va, 0)
      OBVIOUS
    <3> USE FramesAssumption, ModuleAssumption, EntriesAssumption
    <3>1. va - CodePage \in 0 .. ModulePages - 1
      BY DEF CodePages
    <3>2. /\ ModuleFrame + (va - CodePage) \in Frames
          /\ ModuleFrame + (va - CodePage) \in ModuleFrame .. ModuleFrame + ModulePages - 1
      BY <3>1 DEF Frames
    <3>3. mem[ModuleFrame + (va - CodePage)].data = "code"
      BY <3>2 DEF Init, Page
    <3>4. \A f \in frame_bitmap : f < ReservedFrames + (va - CodePage) + 0
      BY <3>1 DEF Init
    <3> QED BY <3>3, <3>4 DEF ModuleIntact
  <2>3. DataOK
    BY <2>1, <2>2 DEF DataOK, FreshData, CreateData, ForkData
  <2>4. Alive = {}
    BY <2>1 DEF Alive
  <2>5. Abstract!Init
    BY <2>4 DEF Abstract!Init, Space
  <2> QED BY <2>3, <2>5
<1>2. SpaceIInv /\ SpaceIInv' /\ DataOK /\ [Next]_spaceVars => DataOK' /\ [Abstract!Next]_Space
  BY SpaceStepOK
<1> QED BY <1>1, <1>2, SpaceInvariance, PTL DEF Spec, ImplementsUserMemory, Abstract!Spec

=============================================================================
