----------------------------- MODULE UserMemory -----------------------------
(***************************************************************************)
(* The address spaces of the user processes (memory.cpp, handler.cpp,      *)
(* rmap.cpp, and the parts of fork, exit and execve in program.cpp that    *)
(* work on them): page table entries, physical frames with their reference *)
(* counts and reverse maps, copy-on-write, demand-zero pages, the page     *)
(* tables with their entry counts, and the TLB.                            *)
(*                                                                         *)
(* One CPU.  Page faults, fork, exit and execve run with interrupts off    *)
(* and are one step each.  Programs are legal: they touch only pages they  *)
(* were given, and do not write to their text.                             *)
(*                                                                         *)
(* An operator X_Variant is X with a plausible bug.  No specification uses *)
(* it: each shows that some property fails when X is written that way.     *)
(***************************************************************************)
EXTENDS Integers, FiniteSets

CONSTANTS
  Procs, InitProc,   \* the processes, and the one that exists at the start
  Frames,            \* the frames of userPhysical
  KFrame,            \* a reserved frame that holds kernel code
  NoFrame,
  TextPages, DataPages, HeapPages, StackPages,   \* virtual pages, by segment
  StackTop,          \* the stack page that is allocated at once
  LowStackPages,     \* the stack pages under the lower of its page tables
  Values,            \* what a page can contain, 0 included
  CountCap,          \* where the 3-bit count in a PDE saturates: 7
  MaxTables          \* bound: the frames left for page tables

VARIABLES
  alive,     \* the processes that have an address space
  running,   \* programManager.running
  kind,      \* the PTE of each page: "none", "lazy", "ro", "rw" or "cow"
  frame,     \* the frame in the PTE
  anon,      \* the rmap entry of the PTE has pte_vaddr = PTE_ANON_VADDR
  given,     \* the pages of each process's segments and virtual pools
  free,      \* the free frames
  ref,       \* PageInfo::ref
  rmap,      \* the PTEs in the list that starts at PageInfo::extra
  content,   \* the contents of each frame
  tlb,       \* the writable translations the CPU has cached
  table,     \* the entry count in each PDE, or NoTable
  leaked,    \* page tables no PDE points to any more
  down       \* halted by PANIC or ASSERT, or working on a corrupt page table

vars == <<alive, running, kind, frame, anon, given, free, ref, rmap, content,
          tlb, table, leaked, down>>

Image == TextPages \cup DataPages
Pages == Image \cup HeapPages \cup StackPages
AllFrames == Frames \cup {KFrame}
Kinds == {"none", "lazy", "ro", "rw", "cow"}
PresentKinds == {"ro", "rw", "cow"}

(***************************************************************************)
(* The image and the first heap pages lie under PDE 32 (USER_VADDR_START), *)
(* the 4 MB of stack that end at STACK_TOP under PDEs 766 and 767.         *)
(***************************************************************************)
TextTable == 32
LowStackTable == 766
StackTable == 767
Tables == {TextTable, LowStackTable, StackTable}
NoTable == -1

TableOf(v) == CASE v \in LowStackPages -> LowStackTable
                [] v \in StackPages \ LowStackPages -> StackTable
                [] OTHER -> TextTable

ASSUME SegmentsAssumption ==
  /\ LowStackPages \subseteq StackPages
  /\ StackTop \in StackPages \ LowStackPages
  /\ TextPages \cap DataPages = {}
  /\ Image \cap (HeapPages \cup StackPages) = {}
  /\ HeapPages \cap StackPages = {}
  /\ TextPages # {}
ASSUME FiniteAssumption == IsFiniteSet(Procs) /\ IsFiniteSet(Pages)
ASSUME ValuesAssumption == {0, 1} \subseteq Values /\ Values \subseteq Nat
ASSUME FramesAssumption == KFrame \notin Frames /\ NoFrame \notin AllFrames
ASSUME InitProcAssumption == InitProc \in Procs
ASSUME BoundsAssumption ==
  /\ CountCap \in Nat \ {0}
  /\ MaxTables \in Nat /\ MaxTables >= 3   \* those of the first process

Present(p) == {v \in Pages : kind[p][v] \in PresentKinds}

LazyStack == StackPages \ {StackTop}

-----------------------------------------------------------------------------
(***************************************************************************)
(* PDEinc, n times.                                                        *)
(***************************************************************************)
PDEinc_NoCap(count, n) == count + n

PDEinc_Wraps(count, n) == (count + n) % (CountCap + 1)

PDEinc(count, n) == IF count + n > CountCap THEN CountCap ELSE count + n

(***************************************************************************)
(* The tables a new address space gets for the entries of pages S.         *)
(***************************************************************************)
NeededTables(S) == {TableOf(v) : v \in S}

NewTables(S) ==
  [d \in Tables |-> IF d \in NeededTables(S)
                    THEN PDEinc(0, Cardinality({v \in S : TableOf(v) = d}))
                    ELSE NoTable]

TablesUsed ==
  leaked + Cardinality({e \in Procs \X Tables : table[e[1]][e[2]] # NoTable})

(***************************************************************************)
(* The state load_process leaves for the first process, a function of the  *)
(* kernel: its text is kernel code, mapped copy-on-write, and its stack is *)
(* one page and the rest lazy.                                             *)
(***************************************************************************)
Init ==
  \E f \in Frames :
    /\ alive = {InitProc}
    /\ running = InitProc
    /\ kind = [p \in Procs |-> [v \in Pages |->
                CASE p = InitProc /\ v \in TextPages -> "cow"
                  [] p = InitProc /\ v = StackTop -> "rw"
                  [] p = InitProc /\ v \in LazyStack -> "lazy"
                  [] OTHER -> "none"]]
    /\ frame = [p \in Procs |-> [v \in Pages |->
                CASE p = InitProc /\ v \in TextPages -> KFrame
                  [] p = InitProc /\ v = StackTop -> f
                  [] OTHER -> NoFrame]]
    /\ anon = [p \in Procs |-> [v \in Pages |->
                p = InitProc /\ v \in TextPages]]
    /\ given = [p \in Procs |->
                IF p = InitProc THEN TextPages \cup StackPages ELSE {}]
    /\ free = Frames \ {f}
    /\ ref = [g \in AllFrames |-> CASE g = f -> 1
                                    [] g = KFrame -> 1 + Cardinality(TextPages)
                                    [] OTHER -> 0]
    /\ rmap = [g \in AllFrames |-> CASE g = f -> {<<InitProc, StackTop>>}
                                     [] g = KFrame -> {InitProc} \X TextPages
                                     [] OTHER -> {}]
    /\ content = [g \in AllFrames |-> 0]
    /\ tlb = {}
    /\ table = [p \in Procs |->
                NewTables(IF p = InitProc THEN TextPages \cup StackPages ELSE {})]
    /\ leaked = 0
    /\ down = FALSE

Runs(p) == ~down /\ running = p /\ p \in alive

GoDown == down' = TRUE /\ UNCHANGED <<alive, running, kind, frame, anon, given,
                                      free, ref, rmap, content, tlb, table,
                                      leaked>>

-----------------------------------------------------------------------------
Cached(v) == \E f \in Frames : <<v, f>> \in tlb

Invlpg(v) == {e \in tlb : e[1] # v}

(***************************************************************************)
(* A write, by the program or by a system call on its behalf, that needs   *)
(* no fault: the CPU has the translation cached, or finds a writable PTE.  *)
(***************************************************************************)
WriteTo(p, v, f, x) ==
  /\ content' = [content EXCEPT ![f] = x]
  /\ tlb' = Invlpg(v) \cup {<<v, f>>}
  /\ UNCHANGED <<alive, running, kind, frame, anon, given, free, ref, rmap,
                 table, leaked, down>>

Write(p, v, x) ==
  /\ Runs(p)
  /\ v \in given[p] \ TextPages
  /\ \E f \in Frames :
       /\ \/ <<v, f>> \in tlb
          \/ kind[p][v] = "rw" /\ frame[p][v] = f
       /\ WriteTo(p, v, f, x)

(***************************************************************************)
(* RMapManager::detach and attach, on the reference counts and the lists.  *)
(* The order of a list does not matter.                                    *)
(***************************************************************************)
MoveRef(f, g) == [ref EXCEPT ![f] = @ - 1, ![g] = 1]

MoveRMap_OldKept(f, g, p, v) == [rmap EXCEPT ![g] = {<<p, v>>}]

MoveRMap(f, g, p, v) ==
  [rmap EXCEPT ![f] = @ \ {<<p, v>>}, ![g] = {<<p, v>>}]

(***************************************************************************)
(* The copy-on-write fault.  A frame nobody else maps becomes writable;    *)
(* otherwise the page moves to a new frame that gets a copy.  When there   *)
(* is no frame, out_of_memory searches the kernel's pool for a victim and  *)
(* stops at its first assertion.                                           *)
(***************************************************************************)
LastReference_OrPair(f) == ref[f] <= 2

LastReference(f) == ref[f] = 1

CowFault(p, v) ==
  /\ Runs(p)
  /\ v \in given[p] \ TextPages
  /\ kind[p][v] = "cow"
  /\ ~ Cached(v)
  /\ LET f == frame[p][v]
     IN  \/ /\ LastReference(f)
            /\ kind' = [kind EXCEPT ![p][v] = "rw"]
            /\ anon' = [anon EXCEPT ![p][v] = FALSE]
            /\ tlb' = Invlpg(v)
            /\ UNCHANGED <<frame, free, ref, rmap, content, down>>
         \/ /\ ~ LastReference(f)
            /\ \E g \in free :
                 /\ frame' = [frame EXCEPT ![p][v] = g]
                 /\ free' = free \ {g}
                 /\ ref' = MoveRef(f, g)
                 /\ rmap' = MoveRMap(f, g, p, v)
                 /\ content' = [content EXCEPT ![g] = content[f]]
            /\ kind' = [kind EXCEPT ![p][v] = "rw"]
            /\ anon' = [anon EXCEPT ![p][v] = FALSE]
            /\ tlb' = Invlpg(v)
            /\ UNCHANGED down
         \/ /\ ~ LastReference(f)
            /\ free = {}
            /\ down' = TRUE
            /\ UNCHANGED <<kind, frame, anon, free, ref, rmap, content, tlb>>
  /\ UNCHANGED <<alive, running, given, table, leaked>>

(***************************************************************************)
(* A system call that writes to a buffer of its caller (read, waitpid,     *)
(* getcwd) and meets a copy-on-write page: "Kernel Cannot COPY_ON_WRITE".  *)
(***************************************************************************)
KernelCow(p, v) ==
  /\ Runs(p)
  /\ v \in given[p] \ TextPages
  /\ kind[p][v] = "cow"
  /\ ~ Cached(v)
  /\ GoDown

(***************************************************************************)
(* The first touch of a lazy page.  The PDE counts it a second time.       *)
(***************************************************************************)
DemandZero(p, v) ==
  /\ Runs(p)
  /\ kind[p][v] = "lazy"
  /\ \/ /\ \E g \in free :
             /\ frame' = [frame EXCEPT ![p][v] = g]
             /\ free' = free \ {g}
             /\ ref' = [ref EXCEPT ![g] = 1]
             /\ rmap' = [rmap EXCEPT ![g] = {<<p, v>>}]
             /\ content' = [content EXCEPT ![g] = 0]
        /\ kind' = [kind EXCEPT ![p][v] = "rw"]
        /\ anon' = [anon EXCEPT ![p][v] = FALSE]
        /\ table' = [table EXCEPT ![p][TableOf(v)] = PDEinc(@, 1)]
        /\ tlb' = Invlpg(v)
        /\ UNCHANGED down
     \/ /\ free = {}
        /\ down' = TRUE
        /\ UNCHANGED <<kind, frame, anon, free, ref, rmap, content, tlb, table>>
  /\ UNCHANGED <<alive, running, given, leaked>>

(***************************************************************************)
(* The touch of a page the process was given but has no PTE for: the PANIC *)
(* of the handler's default case.                                          *)
(***************************************************************************)
TouchUnmapped(p, v) ==
  /\ Runs(p)
  /\ v \in given[p]
  /\ kind[p][v] = "none"
  /\ GoDown

(***************************************************************************)
(* expandHeap(1): the next heap page becomes lazy.  Its page table exists  *)
(* already, it holds the image.                                            *)
(***************************************************************************)
ExpandHeap(p, v) ==
  /\ Runs(p)
  /\ v \in HeapPages \ given[p]
  /\ \A u \in HeapPages \ given[p] : v <= u
  /\ given' = [given EXCEPT ![p] = @ \cup {v}]
  /\ kind' = [kind EXCEPT ![p][v] = "lazy"]
  /\ table' = [table EXCEPT ![p][TextTable] = PDEinc(@, 1)]
  /\ UNCHANGED <<alive, running, frame, anon, free, ref, rmap, content, tlb,
                 leaked, down>>

-----------------------------------------------------------------------------
(***************************************************************************)
(* setCOW on every frame the parent maps: all PTEs in its list become      *)
(* copy-on-write, and those of the running process are flushed unless they *)
(* are anonymous.                                                          *)
(***************************************************************************)
SharedPTEs(p) == UNION {rmap[frame[p][v]] : v \in Present(p)}

SetCOW_ChildOnly(p) == kind

SetCOW(p) ==
  [q \in Procs |-> [v \in Pages |->
     IF <<q, v>> \in SharedPTEs(p) THEN "cow" ELSE kind[q][v]]]

FlushShared_Never(p) == tlb

FlushShared(p) ==
  {e \in tlb : e[1] \in Present(p) => anon[p][e[1]]}

(***************************************************************************)
(* fork() by p, child c: the child maps every present page of the parent   *)
(* copy-on-write and anonymously; lazy pages are passed over.  Without a   *)
(* page table for the first page nothing was done; without one for a later *)
(* page the roll back walks over unmapped pages and hits an assertion.     *)
(***************************************************************************)
Fork(p, c) ==
  /\ Runs(p)
  /\ c \notin alive
  /\ LET S == Present(p)
         room == MaxTables - TablesUsed
     IN  \/ /\ room >= Cardinality(NeededTables(S))
            /\ alive' = alive \cup {c}
            /\ kind' = [SetCOW(p) EXCEPT ![c] =
                          [v \in Pages |-> IF v \in S THEN "cow" ELSE "none"]]
            /\ frame' = [frame EXCEPT ![c] = frame[p]]
            /\ anon' = [anon EXCEPT ![c] = [v \in Pages |-> v \in S]]
            /\ given' = [given EXCEPT ![c] = given[p]]
            /\ ref' = [f \in AllFrames |->
                 ref[f] + Cardinality({v \in S : frame[p][v] = f})]
            /\ rmap' = [f \in AllFrames |->
                 rmap[f] \cup {<<c, v>> : v \in {u \in S : frame[p][u] = f}}]
            /\ tlb' = FlushShared(p)
            /\ table' = [table EXCEPT ![c] = NewTables(S)]
            /\ UNCHANGED down
         \/ /\ 0 < room
            /\ room < Cardinality(NeededTables(S))
            /\ down' = TRUE
            /\ UNCHANGED <<alive, kind, frame, anon, given, ref, rmap, tlb,
                           table>>
  /\ UNCHANGED <<running, free, content, leaked>>

-----------------------------------------------------------------------------
(***************************************************************************)
(* destroyUserVAPool: every present page is detached and its frame freed   *)
(* with the last reference; a page table is freed when its count reaches   *)
(* 0, which a saturated count never does; then a sweep frees what is left  *)
(* under every fourth PDE (PAGE_SIZE * PAGE_SIZE is 16 MB).                *)
(***************************************************************************)
SweepStep == 4

RefsOf(p, f) == Cardinality({v \in Present(p) : frame[p][v] = f})

RefAfterDestroy(p) == [f \in AllFrames |-> ref[f] - RefsOf(p, f)]

RMapAfterDestroy(p) == [f \in AllFrames |-> {e \in rmap[f] : e[1] # p}]

FreeAfterDestroy(p) ==
  free \cup {f \in Frames : RefsOf(p, f) > 0 /\ RefAfterDestroy(p)[f] = 0}

TablesLeft(p) ==
  {d \in Tables :
     /\ table[p][d] # NoTable
     /\ \/ table[p][d] = CountCap
        \/ table[p][d] # Cardinality({v \in Present(p) : TableOf(v) = d})}

LeakedBy(p) == Cardinality({d \in TablesLeft(p) : d % SweepStep # 0})

TablesAfterDestroy(p) ==
  leaked + LeakedBy(p)
  + Cardinality({e \in (Procs \ {p}) \X Tables : table[e[1]][e[2]] # NoTable})

Empty(x) == [v \in Pages |-> x]

Vanish(p, lost) ==
  /\ alive' = alive \ {p}
  /\ running' \in alive \ {p}
  /\ kind' = [kind EXCEPT ![p] = Empty("none")]
  /\ frame' = [frame EXCEPT ![p] = Empty(NoFrame)]
  /\ anon' = [anon EXCEPT ![p] = Empty(FALSE)]
  /\ given' = [given EXCEPT ![p] = {}]
  /\ free' = FreeAfterDestroy(p)
  /\ ref' = RefAfterDestroy(p)
  /\ rmap' = RMapAfterDestroy(p)
  /\ tlb' = {}
  /\ table' = [table EXCEPT ![p] = [d \in Tables |-> NoTable]]
  /\ leaked' = leaked + LeakedBy(p) + lost
  /\ UNCHANGED down

(***************************************************************************)
(* exit(): the address space goes, and schedule() runs another process.    *)
(***************************************************************************)
Exit(p) ==
  /\ Runs(p)
  /\ p # InitProc
  /\ Vanish(p, 0)
  /\ UNCHANGED content

(***************************************************************************)
(* execve() of an ELF file: the old address space goes, the image is read  *)
(* into new frames mapped anonymously, the top of the stack gets a frame   *)
(* and the rest of the stack is lazy.                                      *)
(***************************************************************************)
Exec(p) ==
  /\ Runs(p)
  /\ p # InitProc
  /\ MaxTables - TablesAfterDestroy(p)
       >= Cardinality(NeededTables(Image \cup StackPages))
  /\ \E g \in [Image \cup {StackTop} -> FreeAfterDestroy(p)] :
       /\ \A u, v \in DOMAIN g : g[u] = g[v] => u = v
       /\ kind' = [kind EXCEPT ![p] = [v \in Pages |->
                     CASE v \in TextPages -> "ro"
                       [] v \in DataPages -> "rw"
                       [] v = StackTop -> "rw"
                       [] v \in LazyStack -> "lazy"
                       [] OTHER -> "none"]]
       /\ frame' = [frame EXCEPT ![p] = [v \in Pages |->
                      IF v \in DOMAIN g THEN g[v] ELSE NoFrame]]
       /\ anon' = [anon EXCEPT ![p] = [v \in Pages |-> v \in Image]]
       /\ given' = [given EXCEPT ![p] = Image \cup StackPages]
       /\ free' = FreeAfterDestroy(p) \ {g[v] : v \in DOMAIN g}
       /\ ref' = [f \in AllFrames |->
            IF \E v \in DOMAIN g : g[v] = f THEN 1 ELSE RefAfterDestroy(p)[f]]
       /\ rmap' = [f \in AllFrames |->
            RMapAfterDestroy(p)[f]
              \cup {<<p, v>> : v \in {u \in DOMAIN g : g[u] = f}}]
       /\ content' = [f \in AllFrames |->
            IF \E v \in Image : g[v] = f THEN 1 ELSE content[f]]
       /\ tlb' = {}
       /\ table' = [table EXCEPT ![p] = NewTables(Image \cup StackPages)]
       /\ leaked' = leaked + LeakedBy(p)
  /\ UNCHANGED <<alive, running, down>>

(***************************************************************************)
(* execve() without the frames or the page table for its image: what was   *)
(* loaded is rolled back, except the page table, and the process is dead.  *)
(* Without those for the stack, whose allocation is not checked, it goes   *)
(* on and down.                                                            *)
(***************************************************************************)
ExecFails(p) ==
  /\ Runs(p)
  /\ p # InitProc
  /\ LET frames == Cardinality(FreeAfterDestroy(p))
         room == MaxTables - TablesAfterDestroy(p)
     IN  \/ /\ room = 0 \/ frames < Cardinality(Image)
            /\ Vanish(p, IF room = 0 \/ frames = 0 THEN 0 ELSE 1)
            /\ UNCHANGED content
         \/ /\ room > 0 /\ frames >= Cardinality(Image)
            /\ \/ room < Cardinality(NeededTables(Image \cup StackPages))
               \/ frames = Cardinality(Image)
            /\ GoDown

(***************************************************************************)
(* A switch to another process loads cr3, which empties the TLB.           *)
(***************************************************************************)
Switch(q) ==
  /\ ~down
  /\ q \in alive \ {running}
  /\ running' = q
  /\ tlb' = {}
  /\ UNCHANGED <<alive, kind, frame, anon, given, free, ref, rmap, content,
                 table, leaked, down>>

Next ==
  \E p \in Procs :
    \/ \E v \in Pages :
         \/ \E x \in Values : Write(p, v, x)
         \/ CowFault(p, v)
         \/ KernelCow(p, v)
         \/ DemandZero(p, v)
         \/ TouchUnmapped(p, v)
         \/ ExpandHeap(p, v)
    \/ \E c \in Procs : Fork(p, c)
    \/ Exit(p)
    \/ Exec(p)
    \/ ExecFails(p)
    \/ Switch(p)

Spec == Init /\ [][Next]_vars

-----------------------------------------------------------------------------
(***************************************************************************)
(* Type correctness.                                                       *)
(***************************************************************************)
TypeOK ==
  /\ alive \in SUBSET Procs
  /\ running \in Procs
  /\ kind \in [Procs -> [Pages -> Kinds]]
  /\ frame \in [Procs -> [Pages -> AllFrames \cup {NoFrame}]]
  /\ anon \in [Procs -> [Pages -> BOOLEAN]]
  /\ given \in [Procs -> SUBSET Pages]
  /\ free \in SUBSET Frames
  /\ ref \in [AllFrames -> Nat]
  /\ rmap \in [AllFrames -> SUBSET (Procs \X Pages)]
  /\ content \in [AllFrames -> Values]
  /\ tlb \in SUBSET (Pages \X Frames)
  /\ table \in [Procs -> [Tables -> {NoTable} \cup 0 .. CountCap]]
  /\ leaked \in 0 .. MaxTables
  /\ down \in BOOLEAN

(***************************************************************************)
(* The bookkeeping of frames is exact: the reverse map of a frame lists    *)
(* the PTEs that point to it and no others, its reference count is their   *)
(* number (a reserved frame has one more, the kernel's), and a frame is    *)
(* free exactly when nothing maps it.  So no mapped frame is ever given    *)
(* out again, and none is lost.                                            *)
(***************************************************************************)
Mappers(f) == {e \in Procs \X Pages :
                 e[2] \in Present(e[1]) /\ frame[e[1]][e[2]] = f}

FramesExact ==
  /\ \A f \in Frames : /\ rmap[f] = Mappers(f)
                       /\ ref[f] = Cardinality(Mappers(f))
                       /\ f \in free <=> Mappers(f) = {}
  /\ rmap[KFrame] = Mappers(KFrame)
  /\ ref[KFrame] = 1 + Cardinality(Mappers(KFrame))

(***************************************************************************)
(* A frame that two PTEs map is writable through neither.                  *)
(***************************************************************************)
SharedReadOnly ==
  \A f \in AllFrames :
    Cardinality(Mappers(f)) > 1 =>
      \A e \in Mappers(f) : kind[e[1]][e[2]] # "rw"

(***************************************************************************)
(* The count in a PDE covers the present entries of its page table, or has *)
(* saturated: a page table is not freed while it still maps a page.        *)
(***************************************************************************)
CountsCover ==
  \A p \in Procs : \A d \in Tables :
    LET mapped == Cardinality({v \in Present(p) : TableOf(v) = d})
    IN  IF table[p][d] = NoTable THEN mapped = 0
        ELSE table[p][d] = CountCap \/ table[p][d] >= mapped

(***************************************************************************)
(* The CPU never writes through a translation that the PTE no longer       *)
(* allows, on the pages of the stack and the heap.                         *)
(***************************************************************************)
TLBCoherent ==
  \A e \in tlb : e[1] \notin DataPages =>
    kind[running][e[1]] = "rw" /\ frame[running][e[1]] = e[2]

(***************************************************************************)
(* What a process sees in its pages, and what execve may put there: the    *)
(* image from the file, a stack page with whatever its frame held, and     *)
(* nothing yet in the rest of the stack and the heap.                      *)
(***************************************************************************)
Fresh == -1
Unmapped == -2

Loaded == [v \in Pages |-> CASE v \in Image -> {1}
                             [] v = StackTop -> Values
                             [] v \in LazyStack -> {Fresh}
                             [] OTHER -> {Unmapped}]

View(p, v) ==
  CASE v \in Present(p) -> content[frame[p][v]]
    [] kind[p][v] = "lazy" -> Fresh
    [] OTHER -> Unmapped

(***************************************************************************)
(* Text, stack and heap of every process are private to it: the shared     *)
(* frames, the faults and the TLB implement PrivateMemory.                 *)
(***************************************************************************)
PM == INSTANCE PrivateMemory WITH
        Pages <- Pages \ DataPages, Zero <- 0,
        mem <- [p \in Procs |-> [v \in Pages \ DataPages |-> View(p, v)]]
StackPrivate == PM!Spec

(***************************************************************************)
(* After fork no page, whatever its segment, can be written through a      *)
(* cached translation while another process maps its frame.                *)
(***************************************************************************)
NoSharedWrite == \A e \in tlb : Cardinality(Mappers(e[2])) <= 1

(***************************************************************************)
(* exit and execve give back every page table of the old address space.    *)
(***************************************************************************)
TablesReturned == leaked = 0
=============================================================================
