# Verification of the SYSU-OS kernel

TLA+ models of the kernel in `src/src/kernel`, of the user heap and of the shell, TLC runs that check them on small
instances, and TLAPS proofs for all sizes. The kernel is a 32-bit x86 teaching
system: one CPU, pre-emptive round robin, `fork` / `execve` / `waitpid`,
copy-on-write and lazily allocated pages, a FAT12 file system, a keyboard and a
shell. It serialises by turning interrupts off, so the interesting interleavings
are those of *whole* handlers, of the places where a handler turns interrupts on
again (`waitpid`, the keyboard `read` loop, file `read` and `write`, `expandHeap`),
and of long sequences
of legal calls.

## Inventory

| part | state | operations | interacts with | what makes it correct |
|---|---|---|---|---|
| process manager (`program.cpp`) | PCB slots, `allPrograms`, `running`, parent pids | `executeThread`, `executeProcess`, `fork`, `exit`, `waitpid`, `execve`, `schedule` | schedulers, memory, files | the lists are exact, one process runs, zombies stay dead and are reaped, parents are alive |
| schedulers (`schduler.cpp`) | ready queue, time slices | `enqueue`, `pickNext`, `onTick` | timer interrupt | every ready process runs |
| physical pages (`buddy.cpp`, `address_pool.cpp`, `memory.cpp`) | free lists per order, bitmap, node pool, page flags | `allocate`, `release`, `initialize` | everything that needs memory | no overlap, no page lost after boot, bitmap and flags agree |
| address spaces (`memory.cpp`, `handler.cpp`, `rmap.cpp`, parts of `program.cpp`) | page tables with 3-bit counts, frame reference counts, reverse maps, TLB | page faults, `setCOW`, copy of an address space, `destroyUserVAPool`, image loading | process manager, buddy | processes see private memory; frames are exactly accounted |
| keyboard (`keyboard.cpp`) | ring buffer, shift key | interrupt, `read` with line editing | `schedule()` | a bounded FIFO; no overrun; readers are served |
| file manager (`file_manager.cpp`) | mounts, open-file nodes, descriptors, working directories | `open`, `close`, `read`, `write`, `fork`/`exec`/`exit` hooks | FAT12, process manager | reference counts are exact, no descriptor outlives its node |
| FAT12 (`fat12_fs.cpp`) | FAT, caches, directory entries, inodes | lookup, read, write, append, create, remove, flush | disk | chains are disjoint and end, sizes match chains |
| loader (ELF) | segments | `parseELF`, `load_segment_page`, roll back | memory | failed loads are undone |
| user heap (`malloc.cpp`) | headers and footers, segregated free lists, the break | `malloc`, `free`, `realloc`, `mem_sbrk` | `expandHeap` | blocks are private and keep their contents, the heap is tiled, lists are sound |
| shell (`osh.cpp`) | job table, next job number | programs in fore- and background, `fg`, `bg`, `exit` | `fork`, `execve`, `waitpid`, `exit`, keyboard | the table is the set of its children, the prompt comes back |
| libc strings and formatting, tools | - | - | system calls | - |
| boot, screen, disk driver, debug | - | hardware access | - | - |

Hard behaviour: a child that is enqueued before it is complete; `execve` past the
point of no return; zombies whose parent died first; pid reuse; copy-on-write
with three or more sharers, stale TLB entries; the page-table count that
saturates; a full key buffer; merging at the largest block order; write-back of
FAT and directory in separate steps, with the power going in between; a heap whose
bookkeeping lies between the program's own data; a job table that names pids which
others may have by now. `PROJECT.json` lists each at its line under
`hazards`.

## Modules

| module | models | state |
|---|---|---|
| `Program` | process manager and both schedulers | `used`, `status`, `parentPid`, `ticks` are PCB fields; `allPrograms`, `ready` the lists; `pc` where a process is between two steps; `argvOwner` the pid under which a PCB's argv page is filed |
| `MCProgram` | the instance for TLC | |
| `ProgramProofs` | theorems about `Program` | |
| `Counting` | lemmas: ranks, smallest and greatest elements of finite sets of integers, sets of at most one element, induction with the property given as a set | |
| `Buddy`, `MCBuddy` | one physical pool and the flags beside it | `freeArea`, `bitmap`, `flags`, and `held`, what callers hold |
| `BuddyProofs` | theorems about `Buddy` | |
| `UserMemory`, `MCUserMemory` | address spaces, frames, faults, TLB, page tables | PTE `kind` and `frame`, `ref`/`rmap` per frame, `tlb`, `table` counts |
| `UserMemoryProofs` | theorems about `UserMemory` | |
| `PrivateMemory` | what user memory promises | the contents each process sees |
| `Keyboard`, `MCKeyboard` | ring buffer, scancodes, line-editing readers | the fields of `KeyboardManager`, plus each reader's line |
| `KeyQueue` | what the ring buffer promises: a bounded FIFO | |
| `KeyboardProofs` | theorems about `Keyboard` | |
| `Fat12` | the FAT12 operations, as operators on a volume | a volume is a record of the FAT, the directory entries and the inode pool |
| `OpenFiles`, `MCOpenFiles` | the file manager over `Fat12`, with fork, exit and the release of a PCB | `fs`, `openfile` (the shared nodes), `fdTable`, and `moved`, a read or write between transfer and update of the offset |
| `OpenFilesProofs` | theorems about `OpenFiles` | |
| `WriteBack`, `MCWriteBack` | when a volume's FAT, directories and data are on the disk; mount, sync, power loss | `vol` in memory, `disk`, `pending` (the images of the transfers to come), `dirty`, `lost` |
| `WriteBackProofs` | theorems about `WriteBack` | |
| `Malloc`, `MCMalloc` | the user heap of one process | `heap` (headers, link words, lists, break), `live` (what the program holds) |
| `Arena` | what the heap promises: private blocks that keep their contents | |
| `Shell`, `MCShell` | shells, the programs they run, and init | `kind` and `parent` per PCB, `mem` (a shell's table and next job number), `call` (what it waits for), `halted` |
| `ShellProofs` | theorems about `Shell` | |

An operator named `X_Variant` is `X` with a plausible bug (a dropped guard, an
off-by-one). No specification uses it; each shows that a property notices.

### Program

One action per handler. `fork`, `exit`, `execve`, `yield`, the tick and
`executeProcess` run with interrupts off and are atomic. `waitpid` is one action
per pass over the list, and a separate `WaitResched` because it restores the
interrupt flag before it calls `schedule()`. `Failures` says which allocations may
fail: the argv page, init's address space, a later step of `fork`, the page
directory and the pools of `execve`. Init (pid 1) behaves as `init.cpp`: one fork,
then `wait`, and `yield` after a -1. Every other process may make any call at any
time. `panicked` and `asserted` are the two ways the machine stops. Reaping a
zombie releases its argv page, which only works for the process under whose pid it
was filed; for anyone else `WaitAsserts` stops the machine.

### Buddy

`log2`, `count2order`, splitting, merging and `initialize` are recursive
functions, one argument per pass of the loop, translated with their order of list
operations (a block is inserted at the head) and with the pool of list nodes.
`releaseBlock` merges at the largest order too, as the code's loop does, and lists what it
gets with half its size: `LostAtBoot` names the pages this costs when `initialize` fills a
pool of several such blocks.

### UserMemory

Each process has a few pages per segment. `fork` makes every present page
copy-on-write for all sharers, as `setCOW` does through the reverse map, and
flushes the entries it flushes. A write goes through the TLB if the translation is
cached. Frames and page tables run out; then the code's roll back, failure or
assertion happens. Programs are legal: they touch what they were given.
`LowStackPages` lie under a page table of their own, as half of the real stack does.

### Keyboard

Scancodes are the classes the handler distinguishes. `Pop` is one iteration of the
`read` loop: the pop is done with interrupts off and the edit touches only the
reader's own buffer.

### Fat12 and OpenFiles

Every call of the file manager is one step, since it runs with interrupts off, except
`read` and `write`: `Transfer` is the call into FAT12, `Advance` the update of the
offset after it. `LookupPath` is `FileManager::lookup`: it walks the path with one
inode reference at a time and ends at an open-file node that may have no descriptor
yet, which the caller keeps or lets go. `InParent` is the frame of `create_file`,
`remove_file`, `mkdir` and `rmdir`. An empty file has no cluster and is found in the
inode pool by the place of its entry; the first `append` gives it one. A path that
leads through an empty file finds nothing, one through a file with clusters would read
its data as entries, which the model leaves out. `RemoveDirs` says whether programs
call `remove_file` on directories: the code lets them, and takes the directory away
with the files in it.

### WriteBack

The operations of `Fat12` again, now with the disk beside the volume. A cluster is
written when its cache is released, so the entries of subdirectories go to the disk
within the call; `append` writes the FAT when it has allocated a cluster and before it uses
it, and not at all when the data fits into the last one (`FatOnDisk`); the root directory
and all other changes of the FAT wait for `sync_all`. Each call leaves the sequence of
images the disk passes through in `pending`, `Transfer` is one of them, and
`PowerCycle` may come at any point: it forgets the memory and mounts what is on the
disk. `FatRead` and `FatWritten` are the entries that `read_fat_table` and
`flush_fat_table` move per three sectors, 256 and 1024 in the code. With `FatRead` at
least the number of clusters, as in `write_back`, the model is a volume of which no
more than the first 256 FAT entries are used.

### Malloc

Addresses are counted in units of 8 bytes and every word the code reads is kept: the
headers, and the low words of a free block, where the next and previous pointers and
the footer share the space the program writes to while it owns the block. So a program's
data, a footer or an old pointer that the allocator takes for a link is visible as such:
a store through a word that is no pointer sets `wild`, and the process is not followed
further. `more` is whether the kernel grants pages. The refinement maps `heap` to the
length of each block and how much of it still holds what the program stored.

### Shell

`kind` is `osh` for a shell started by `execve`, `copy` for the child of a command that
was not found, which returns into the loop of `main` with its parent's table, and
`program` for anything else. fork gives out the lowest free PCB, so pids come back at
once. The return of `waitpid` and the `delete_job` after it are two steps. A zombie that
was handed to init halts the machine when init reaps it, as in `Program`.

## Runs

| run | checks | instance |
|---|---|---|
| `program_safety` | queue, list and running-process invariants, zombies stay dead | 4 slots (idle, init, two others), all failures except a half-done fork; the theorems cover any number of slots |
| `program_live` | parents alive, no panic, every ready process runs, `waitpid` returns, init reaps | 4 slots, fair |
| `program_orphans` | expected violation: reaping an adopted zombie halts the machine | 4 slots |
| `buddy` | no overlap, which pages boot loses and that no other is, exact bitmap and flags, complete merging | 15 pages, orders 0..2, requests of 1, 2 and 3 pages |
| `user_memory` | exact frames, shared pages read-only, counts, TLB, private memory | 3 processes, 4 frames, one page per segment, 6 page tables |
| `keyboard` | bounded FIFO, line editing, readers served | buffer of 3, two readers, 6 interrupts |
| `open_files` | exact counts of nodes and inodes, offsets in the file, open files linked, no cluster shared or lost, private descriptors | 2 processes with 2 descriptors, 2 open-file nodes, 2 clusters, 3 paths, no `remove_file` of a directory |
| `file_append` | expected violation: append overwrites a full last cluster | clusters of two units |
| `write_back` | a clean volume survives a restart unchanged; files in subdirectories keep their clusters whenever the power goes | 6 clusters of two units, one root entry, one entry per directory cluster, 2 names, files of up to 3 units |
| `fat_read` | expected violation: the FAT is read back shifted | clusters of one unit, 4 entries read where 8 are written |
| `malloc` | tiled heap, sound lists, refinement of `Arena` | 2 pages of 8 units, 2 free lists, requests of 0, 1 and 2 units, a growth of at least 6 |
| `shell` | the job table is the set of children; a waiting shell gets its prompt back | 3 PCBs besides idle and init, 2 jobs, job numbers up to 3 |

Why the bounds are enough. Idle, init and two
others are the smallest family with a parent that dies first and a sibling in the
queue; they fill the table, so allocation fails and slots are reused; the theorems
cover every number. Fifteen pages with blocks of up to four are a pair of whole largest blocks,
which boot merges and of which it loses one, as it does in every pool of 2048 pages or more
with the code's order 10; a largest block without a buddy; and a rest of three pages that
holds the smaller orders. Three
processes share one frame, so a copy leaves a frame that is still shared; four
frames run out. A count that saturates at 2 instead of 7 reaches saturation with
two pages. A buffer of three wraps twice with six keys.

Two descriptors let a process open one file twice and run out; a directory of one
entry per cluster must grow for its second file, and two clusters are enough to grow
it, to fail half-way in `mkdir` and to cut an `append` short.

Six clusters hold a directory with two entries and two files of two clusters, so a
cluster that was freed goes to another file before the disk knows; with two units in a
cluster an `append` stays in the last cluster, fills it, or goes on to a new one. Two pages and a
growth of six units give a heap that is extended into a page, past it, and refused;
blocks of three to five units are split, merged on either side and on both, and sorted
into two lists. Three PCBs are a shell, a copy of it or another shell, and a program;
two jobs are a table that fills, and a pid that comes back while a copy still lists it.
Job numbers grow without bound in the code; past the bound a shell runs nothing new.

`MCUserMemory` declares frames and non-initial processes symmetric, `MCOpenFiles` the
processes, `MCWriteBack` the names.

Deadlock is not checked where the system may stop: a halted machine, the end of
the bounded typing, a process that `malloc` ended or that stored through a bad pointer,
the exit of the last shell.

## Fairness

`program_live` assumes weak fairness of the timer tick (the 8253 keeps firing),
and strong fairness of a waiter's pass over the list and of init's loop: such a
process is pre-empted between passes, so its next step is enabled again and again
but not continuously, and each step is far shorter than a tick. Nothing forces any
other process to exit, wait or yield. The properties say "or the machine was halted
by the failed assertion", since that is what the code does with an adopted zombie.
`keyboard` assumes weak fairness of `Pop`: a reader that finds nothing calls
`schedule()` and is resumed by the round robin. Nothing makes anyone type.
`shell` assumes weak fairness of a process that can go on: a program ends (the tools in
`bin` do), and a shell in `waitpid` polls and gets the CPU, which `program_live` shows of
every ready process. There is none of the user's commands: a shell that waits for another
shell waits until the user leaves it.

## Proofs

`ProgramProofs`, for every number of slots of at least two, every initial slice
and both schedulers:

* `QueuesCorrect`: `TypeOK`, `ReadyQueueExact`, `OneRunning`, `AllListed`, with every
  failure but a half-done fork. The inductive invariant is their conjunction: none is
  inductive alone, since the queue is exact after `schedule()` only because the
  process that joins it was the one RUNNING, and a new slot is new to both lists only
  because the lists hold no free slot. Lemmas `AppendFacts`, `TailFacts`,
  `EraseFacts` state what the three list operations do to lists without duplicates,
  `ScheduleFacts` what `schedule()` does. `TypesCorrect`, `OneProcessRuns` and
  `ProgramsListed` restate its parts.
* `ZombiesStayDead`: the action property, from the same invariant.
* `ParentsAlive`: when `fork` and `execve` do not fail half-way. It needs that init is
  alive whenever a third process exists, that idle never dies, that idle is first to
  start anything, and that nobody is his own parent (`FamilyInv`).
* `SchedulerNeverPanics`: idle is RUNNING or in the queue, so a dying process always
  has a successor (`CalmInv`).

The conditions on `Failures` are those under which TLC found the properties to hold;
with "fork" in `Failures` it refutes `NoResurrection`.

`BuddyProofs`, for every pool, number of orders and set of request sizes: `TypeCorrect`,
`BlocksNeverOverlap`, `BitmapIsExact` and `FlagsAlwaysAgree`, the invariants `TypeOK`,
`NoOverlap`, `BitmapExact` and `FlagsAgree` of the run; `OnlyBootLosesPages`, its
`PagesKept`; and `MergingIsComplete`, its `FullyMerged`. None has a hypothesis on the size of
the pool: with the kernel's `MAX_ORDER` of 10 a pool of 2048 pages or more loses pages at boot
(finding 4), and the last two theorems say exactly which, that no later call loses another
one, and that merging is complete on what is left.
The inductive invariant `BuddyInv` speaks of the pages the listed blocks cover (`Covered`):

* the listed blocks are aligned, within the pool, apart and listed once (`Sound`), and no two
  listed blocks are partners (`Merged`);
* the bitmap marks the pages of the blocks held, which are apart, no listed block covers
  a page that is marked, and the pages listed or marked are those not lost at boot (`IsLost`).

`allocateBlock` turns one listed block into the block handed out and the rest of it, one
order at a time (`Splits`). `releaseBlock` carries a block upwards while its partner is listed
(`InHand`); what it inserts at the end finds a free list node (`NodeThere`), because blocks
that are apart are no more than the pages. It adds the pages of the block to the lists
(`Adds`), or drops the second of two partners of the largest order (`Drops`); the latter needs
pages of a block that is lost at boot, so after boot it does not happen (`ReleasedAdds`). For
`initialize` the invariant of the loop (`Filling`) says that the pages before the index are
covered unless lost: where a whole block of the largest order starts, the loop takes it as one
(`TopOrder`), and a second one cannot stay beside the first, which is listed, because no two
partners are (`TopListed`, `BeforeNext`). `FullyMerged` compares the lists with those of
`initialize` when nothing is held: two sets of aligned blocks without partners that cover the
same pages are the same set, by induction on the order (`NoSmaller`, `SameBlock`). The
recursive functions are shown to exist by induction with the property given as a set
(`NatInduct`, `DownInduction` of `Counting`).

`KeyboardProofs`, for every buffer size, set of readers and sizes: `KeyboardTypes`
(indexes in bounds, no line longer than its buffer) and `KeyboardIsQueue`: the ring
buffer refines `KeyQueue`. The invariant adds that `tail` is `head + count` modulo
the size and that a reader in `read` has room. `LinesEdited`, for any number of
keystrokes: the line a reader has is what was typed at it, less every character that a
later backspace took back. The model's `read` edits a stack; the property counts, for
each character, what came after it. The invariant says that the survivors behind a survivor
are the characters behind it less two for every backspace among them (`Balanced`), and
that the line lists the survivors in order (`Edited`): a backspace takes the last survivor
and no other.

`ShellProofs`, for any number of PCBs and of job slots: `ShellTypeCorrect` and
`JobTableExact`. The table of a shell is compared with its children through `Exact`, which
also says where the shell stands between `waitpid` and `delete_job`, and which job is in
the foreground. It is inductive with three facts: only live shells are parents, so a shell
in a reused PCB has no children; the pid being deleted is no child any more; and who is
not a shell waits for nothing. The bound `MaxJid` on job numbers is any number.

`UserMemoryProofs`, for any sets of processes, frames and pages, any `CountCap` and pool
of page tables that holds the first process:

* `MemoryTypeCorrect`, `FrameBooksExact`, `CopyOnWriteSafe`, `TableCountsCover`,
  `StackAndHeapCoherent`: the five invariants of `user_memory`. They need each other: a
  fault makes a page writable when its reference count is 1, which means it is alone
  only while the counts are exact. `IInv` adds what a PTE says about its process
  (`PTEsSound`), that a writable PTE is the only one of its frame (`WriterIsAlone`), that
  all PTEs of a frame are for one page (`SamePage`, on which `setCOW` relies when it walks
  the reverse map), that text is mapped read-only, that a cached translation leads to the
  frame in the PTE (`TLBMapped`), and that the tables in use and those leaked fit in the
  pool.
* `PagesArePrivate`: the refinement of `PrivateMemory`, action by action. `fork` copies the
  contents seen, not the frames, because what is shared is not writable; a write goes
  through a cached translation or a PTE, and either way to a frame of which it is the only
  user; `fork` does not flush pages mapped anonymously, but
  outside the data segment, which `StackPrivate` leaves out (finding 6), none is writable.

The assumptions are those of the code's layout: the segments are disjoint, an image has
text, the sets are finite, contents are numbers, and the pool holds the three tables of
the first process.

`OpenFilesProofs`, for any number of processes, descriptors, nodes, names and clusters:

* `NodesCounted`: a node's reference count is the number of descriptors that name it, and
  a node without descriptors is free. The inductive invariant adds that a PCB not in use
  has no descriptors, which `fork_process_fs` relies on. `lookup` returns a node that is in
  use or one it has just put in a free slot (`LookupPathFacts`), and letting go of it
  leaves the table as it was (`ReleaseLookupFacts`).
* `OwnDescriptors`: the action property `DescriptorsPrivate`. It needs that a read or
  write in progress belongs to a running process and an open descriptor, and that a node
  with references before and after a step keeps its inode.

* `InodesReturned`: `InodesExact`, an inode in the pool belongs to exactly one node, which
  holds its only reference. What a call does to the pool is followed as a count of
  references per inode: `Lookup` takes one (`LookupTakes`), `ReleaseInode` gives one back
  (`ReleaseGives`), and create, remove, mkdir, rmdir and append leave the counts as they
  were (`FsCallKeeps`, `AppendKeeps`). A walk holds one reference, to the inode it has
  reached, however long the path (`WalkTakes`); `lookup` turns it into the reference of a
  new node or gives it back (`LookupPathExact`). The invariant is that no two nodes stand
  for one inode and that the counts are those of the nodes.
* `FilesTypeCorrect` and `OffsetsInFiles`: `TypeOK` and `OffsetInFile`. Between the transfer
  of a `read` or `write` and the update of its offset any other call may run. The invariant
  (`FileInv`) says of every descriptor that its offset, with what is still to be added, is
  within its file. A step keeps it because what a call may do to the inode of a descriptor is
  bounded (`VolumeStep`): an inode that is open before and after the step is not given back
  and gets no smaller. That is followed through the calls like the references above, for the
  sizes of the inodes in use (`Sized`): `lookup` loads only a free slot, `release_inode`
  clears one with its last reference, `append` alone changes a size and makes it larger
  (`AppendGrows`). The sizes are numbers because what `lookup` loads is an entry: a chain
  followed through any FAT is a sequence of clusters (`ChainOfClusters`), and every
  directory place is one of a block that exists (`LocationsArePlaces`).

* `OpenFilesLinked` and `NoPanic`: `OpenIsLinked`, and that `append` never finds the entry
  of its file gone and stops the machine. The invariant (`LinkInv`) is about the FAT. There
  is a set `F` of clusters that hold data (`Linked`): a cluster has one predecessor at most
  and none if an entry starts with it, so that no two chains meet; a chain stays in `F` or
  out of it, and starts in `F` exactly if its entry is a file's; what is not a directory's
  cluster holds no entry. A new cluster joins one chain (`Claims`, `Strung`); `remove` frees
  a chain that no other entry leads to (`ChainTo`, `Freed`), so the entries it empties are
  nobody's; and it leaves an entry alone while an inode in use was made from it.
  Two hypotheses. `~ RemoveDirs`: programs give `remove` no directory; it does not ask, and
  frees the cluster of a directory with files in it (a hazard listed in `PROJECT.json`).
  `EndOfChain \notin Clusters`: the mark that ends a chain, 0xFFF, is no cluster number, as
  on every FAT12 disk.

The first two hold whatever the operations do to the volume; the third asks nothing of
the FAT and the directories, which may be in any state; types and offsets ask that they
hold marks and entries, not that the chains make sense; the last two rest on the chains.
`ReleaseProcess` is written in closed form for these proofs: the references a node loses
are the number of its descriptors, those an inode loses the number of nodes that stand for
it and are left without any. Closing the descriptors one after the other comes to the same.
`Walk` is a recursive function on the length of the path. That it is one, and that what
every step keeps holds at its end, is shown without an induction theorem: the smallest
length for which it failed would be one more than a length for which it does not
(`WalkIsReach`, `SmallestElement` of `Counting`).

`WriteBackProofs`, for any number of clusters, entries, names and sizes, under the
hypothesis `FatFits`, `ClusterCount <= FatRead`: `CleanVolumeDurable`, a volume that is not
dirty is on the disk. `read_fat_table` takes 256 entries from its first three sectors, and
`fat_read` shows the property fail beyond, so the hypothesis is the condition under which the
code is right. The invariant: while the power has not failed in between, a clean and idle
volume is what mounting the disk gives, up to the gaps in the root directory that
`init_root_dir` closes; a clean volume with transfers to come is in a sync that ends there;
and no inode is in use between calls. `PackTwice` shows that closing the gaps twice is
closing them once; `ReadAll`, that a FAT written in groups is read back whole.

Only model-checked, and why:

* all liveness: `ReadyRuns`, `WaitReturns`, `InitReaps`, `ReadersServed`, `PromptReturns`
  (fairness is out of the prover's reach);
* `Malloc`: recursive operators on lists of any length;
* `VolumeConsistent` of `OpenFiles`. Part of it is in the invariant of `OpenFilesLinked`:
  chains do not meet. The rest is that every cluster in use is reached from an entry and
  every entry from the root directory, that is, that no chain and no branch of the tree is
  a cycle: an induction over the chains and the tree.
* `FilesSurvive` of `WriteBack`: it relates a FAT on the disk to directories that may be newer
  than it. It needs an invariant about both volumes at once that has not been worked out.

## Findings

Three are runs that TLC refutes; details and quotations in `PROJECT.json`.

1. `program_orphans`: a zombie adopted by init cannot be reaped. Its argv page is filed
   under its first parent, the assertion in `releasePages` fails and the machine halts.
   A shell that exits with background jobs is enough.
2. `file_append`: `append` to a file that fills its last cluster overwrites that cluster
   and lets the size outgrow the chain.
3. `fat_read`: `read_fat_table` takes 256 FAT entries from three sectors that hold 1024,
   so a volume with more than 256 clusters in use is misread at the next mount.

Four more follow from the same modules. The fourth is part of a property that holds, the
others need other constants or an invariant that no run checks; the hazards quote the code:

4. `releaseBlock` merges two blocks of the largest order into one and lists half of it.
   `initialize` releases a pool block by block, so in every pool of 2048 pages
   or more the second block of each such pair is lost before the first allocation. `PagesKept` says so of
   each of these pages (`LostAtBoot`), in the run `buddy` and for every pool; `NoPageLost`,
   what `buddy.h:4` comes to, is false in the initial state of `MCBuddy.cfg`.
5. `fork` marks a child DEAD that is in the ready queue; it is scheduled later
   (`MCProgramSafety.cfg` with `Failures = {"fork"}`, `NoResurrection`).
6. `setCOW` does not flush pages loaded by `execve`: parent and child share writes
   (`MCUserMemory.cfg` with five frames, `StackPages = {4, 5}`, `LowStackPages = {4}` and
   8 tables, `NoSharedWrite`).
7. `exit` and `execve` leak the page tables of the stack (the same with two processes and
   6 tables, `TablesReturned`).

Behaviour no document contradicts, listed under `hazards`: a child of `fork` cannot
touch lazily allocated pages its parent had not touched; `remove_file` of a directory
orphans the files in it; `create_file` with a full inode pool makes a name twice; the
rest of a block that `malloc` splits is lost when its old words are not zero; `malloc`
after a failed `mm_init` searches a table at address 0; a command that is not found
leaves a second shell; two jobs may have one number; after power loss a directory made
since the last sync has a cluster that the FAT calls free, and a file removed from the
root directory comes back on top of another.

## Not modelled

Of the file system: eviction of cached clusters, sector errors, umount, FATs whose size is
not a multiple of three sectors, working directories
and the text of paths and names, a descriptor for the root directory. ELF header
validation, string and formatting functions, boot code, screen and disk port I/O: no
state of interest.
Semaphores, spin locks, `MESA_WakeUp`, `switch_scheduler`: no running code uses them.
Swapping and file-backed pages: stubs. The kernel's own virtual pool, `mapTemp`, the
pool of rmap entries. The shell's splitting of a line into words.

## Plan

1. Proof of `VolumeConsistent` from the invariant of `OpenFilesLinked`, with a rank for each
   cluster that says its chain ends; the same for both volumes of `WriteBack`.
2. `Malloc` with recursive functions instead of operators, and `HeapTiled` for any heap.
3. `expandHeap` split at its pre-emption points, with the page pool shared by processes;
   first-fit placement in the virtual address pools.
4. Refinement of a map from names to contents by `WriteBack`.
