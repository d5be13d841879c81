----------------------------- MODULE OpenFiles -----------------------------
(***************************************************************************)
(* The file manager (file_manager.cpp) over a FAT12 volume: the descriptor *)
(* table of every process, the open-file nodes they share, and the system  *)
(* calls on them, with fork, exit and the release of a PCB.                *)
(*                                                                         *)
(* Every call runs with interrupts off and is one step, except read and    *)
(* write: they leave them on, so other processes run between the transfer  *)
(* and the update of the offset.  Paths are absolute and normalised.       *)
(***************************************************************************)
EXTENDS Fat12

CONSTANTS
  Procs,          \* processes (PCB slots)
  Paths,          \* the absolute paths in use: sequences of names
  DirPaths,       \* the paths that may be given to mkdir
  RemoveDirs,     \* whether programs call remove_file on directories
  MaxFd,          \* MAX_FD_COUNT: descriptors 3 .. MaxFd - 1 are for files
  MaxOpenFiles,   \* MAX_OPENFILE_COUNT
  Amounts,        \* sizes of a read, write or append
  MaxSize         \* bound on the size of a file

ASSUME OpenFilesAssumption ==
  /\ IsFiniteSet(Procs)
  /\ DirPaths \subseteq Paths
  /\ Paths \subseteq Seq(Names) \ {<<>>}
  /\ RemoveDirs \in BOOLEAN
  /\ MaxFd \in Nat /\ MaxFd > 3
  /\ MaxOpenFiles \in Nat \ {0}
  /\ Amounts \subseteq Nat \ {0}
  /\ MaxSize \in Nat

VARIABLES
  fs,         \* the volume
  openfile,   \* openfile_table
  fdTable,    \* PCB::fd_table of every process
  proc,       \* "none", "alive" or "zombie"
  moved,      \* what a read or write in progress will add to which offset
  panicked    \* PANIC: the machine has stopped

vars == <<fs, openfile, fdTable, proc, moved, panicked>>

Fds == 3 .. MaxFd - 1
Files == 1 .. MaxOpenFiles
NoFile == 0
NoNode == [node |-> NullInode, ref |-> 0]
Closed == [file |-> NoFile, offset |-> 0]
Still == <<0, 0>>

(***************************************************************************)
(* The tables as a record, passed from one step of a call to the next.     *)
(***************************************************************************)
Tables == [fs |-> fs, openfile |-> openfile]

Become(t) == fs' = t.fs /\ openfile' = t.openfile

-----------------------------------------------------------------------------
(***************************************************************************)
(* lookup(path): the walk holds one directory inode at a time; the         *)
(* open-file node of the inode it ends at is found or allocated, without a *)
(* reference of its own.                                                   *)
(***************************************************************************)
StepInto(w, l) ==
  [fs |-> ReleaseInode(l.fs, w.node), node |-> l.node, lost |-> l.node = NullInode]

WalkStep(w, name) ==
  IF w.lost THEN w
  ELSE StepInto(w, Lookup(w.fs, DirCluster(w.fs, w.node), name))

Walk(s, path) ==
  LET reach[k \in 0 .. Len(path)] ==
        IF k = 0 THEN [fs |-> s, node |-> NullInode, lost |-> FALSE]
        ELSE WalkStep(reach[k - 1], path[k])
  IN reach[Len(path)]

FilesOf(t, n) == {f \in Files : t.openfile[f] # NoNode /\ t.openfile[f].node = n}

FreeFiles(t) == {f \in Files : t.openfile[f] = NoNode}

FileFor_InodeKept(t, s, n, same) ==
  IF same = {} /\ FreeFiles(t) # {}
  THEN [t |-> [fs |-> s,
               openfile |-> [t.openfile EXCEPT ![Min(FreeFiles(t))] =
                               [node |-> n, ref |-> 0]]],
        file |-> Min(FreeFiles(t))]
  ELSE [t |-> [t EXCEPT !.fs = s],
        file |-> IF same = {} THEN NoFile ELSE Min(same)]

FileFor(t, s, n, same) ==
  IF same = {} /\ FreeFiles(t) # {}
  THEN [t |-> [fs |-> s,
               openfile |-> [t.openfile EXCEPT ![Min(FreeFiles(t))] =
                               [node |-> n, ref |-> 0]]],
        file |-> Min(FreeFiles(t))]
  ELSE [t |-> [t EXCEPT !.fs = ReleaseInode(s, n)],
        file |-> IF same = {} THEN NoFile ELSE Min(same)]

LookupEnd(t, w) ==
  IF w.lost THEN [t |-> [t EXCEPT !.fs = w.fs], file |-> NoFile]
  ELSE FileFor(t, w.fs, w.node, FilesOf(t, w.node))

LookupPath(t, path) == LookupEnd(t, Walk(t.fs, path))

(***************************************************************************)
(* A node without descriptors gives back its inode and its slot.           *)
(***************************************************************************)
Settle(t, f) ==
  IF t.openfile[f].ref > 0 THEN t
  ELSE [fs |-> ReleaseInode(t.fs, t.openfile[f].node),
        openfile |-> [t.openfile EXCEPT ![f] = NoNode]]

(***************************************************************************)
(* release_lookup_openfile().                                              *)
(***************************************************************************)
ReleaseLookup(t, f) == IF f = NoFile THEN t ELSE Settle(t, f)

(***************************************************************************)
(* close_fd(): the node loses a reference.                                 *)
(***************************************************************************)
CloseFile_NotCounted(t, f) ==
  IF f = NoFile THEN t
  ELSE Settle([t EXCEPT !.openfile[f].ref = 0], f)

CloseFile(t, f) ==
  IF f = NoFile THEN t
  ELSE Settle([t EXCEPT !.openfile[f].ref = @ - 1], f)

(***************************************************************************)
(* release_process_fs(p): every descriptor is closed.  A node loses a      *)
(* reference for each that names it; left without any, it gives back its   *)
(* inode, by as many release_inode() as nodes stand for it, and its slot.  *)
(***************************************************************************)
ReleasedInode(inode, times) ==
  IF times = 0 THEN inode
  ELSE IF inode.ref > times THEN [inode EXCEPT !.ref = @ - times]
  ELSE FreeInode

ReleaseProcess(t, p) ==
  LET named(f) == {i \in Fds : fdTable[p][i].file = f}
      left(f) == t.openfile[f].ref - Cardinality(named(f))
      gone == {f \in Files : named(f) # {} /\ left(f) = 0}
      given(n) == Cardinality({f \in gone : t.openfile[f].node = n})
  IN [fs |-> [t.fs EXCEPT !.inode =
                [n \in Inodes |-> ReleasedInode(@[n], given(n))]],
      openfile |-> [f \in Files |->
                      IF f \in gone THEN NoNode
                      ELSE [t.openfile[f] EXCEPT !.ref = left(f)]]]

-----------------------------------------------------------------------------
(***************************************************************************)
(* One process, the volume empty.                                          *)
(***************************************************************************)
Init ==
  /\ fs = EmptyVolume
  /\ openfile = [f \in Files |-> NoNode]
  /\ fdTable = [p \in Procs |-> [i \in Fds |-> Closed]]
  /\ \E p \in Procs :
       proc = [q \in Procs |-> IF q = p THEN "alive" ELSE "none"]
  /\ moved = [p \in Procs |-> Still]
  /\ panicked = FALSE

Ready(p) == ~panicked /\ proc[p] = "alive" /\ moved[p] = Still

Open(p, path) ==
  /\ Ready(p)
  /\ \E l \in {LookupPath(Tables, path)} :
       LET free == {i \in Fds : fdTable[p][i] = Closed}
       IN IF l.file # NoFile /\ free # {}
          THEN /\ Become([l.t EXCEPT !.openfile[l.file].ref = @ + 1])
               /\ fdTable' = [fdTable EXCEPT ![p][Min(free)] =
                                [file |-> l.file, offset |-> 0]]
          ELSE /\ Become(ReleaseLookup(l.t, l.file))
               /\ UNCHANGED fdTable
  /\ UNCHANGED <<proc, moved, panicked>>

Close(p, i) ==
  /\ Ready(p)
  /\ fdTable[p][i] # Closed
  /\ fdTable' = [fdTable EXCEPT ![p][i] = Closed]
  /\ Become(CloseFile(Tables, fdTable[p][i].file))
  /\ UNCHANGED <<proc, moved, panicked>>

(***************************************************************************)
(* fork_process_fs(): the child gets a copy of the table, offsets          *)
(* included, and a reference for every descriptor.                         *)
(***************************************************************************)
ForkRefs_Once(p) ==
  [f \in Files |->
     IF \E i \in Fds : fdTable[p][i].file = f
     THEN [openfile[f] EXCEPT !.ref = @ + 1] ELSE openfile[f]]

ForkRefs(p) ==
  [f \in Files |->
     [openfile[f] EXCEPT
        !.ref = @ + Cardinality({i \in Fds : fdTable[p][i].file = f})]]

Fork(p, q) ==
  /\ Ready(p)
  /\ proc[q] = "none"
  /\ proc' = [proc EXCEPT ![q] = "alive"]
  /\ fdTable' = [fdTable EXCEPT ![q] = fdTable[p]]
  /\ openfile' = ForkRefs(p)
  /\ UNCHANGED <<fs, moved, panicked>>

(***************************************************************************)
(* exit() closes everything; a process that execve kills half-way keeps    *)
(* its descriptors until its PCB is released, which closes what is open.   *)
(***************************************************************************)
Exit(p) ==
  /\ Ready(p)
  /\ Become(ReleaseProcess(Tables, p))
  /\ fdTable' = [fdTable EXCEPT ![p] = [i \in Fds |-> Closed]]
  /\ proc' = [proc EXCEPT ![p] = "zombie"]
  /\ UNCHANGED <<moved, panicked>>

ExecveFails(p) ==
  /\ Ready(p)
  /\ proc' = [proc EXCEPT ![p] = "zombie"]
  /\ UNCHANGED <<fs, openfile, fdTable, moved, panicked>>

ReleasePCB(p) ==
  /\ ~panicked
  /\ proc[p] = "zombie"
  /\ \E q \in Procs : Ready(q)
  /\ Become(ReleaseProcess(Tables, p))
  /\ fdTable' = [fdTable EXCEPT ![p] = [i \in Fds |-> Closed]]
  /\ proc' = [proc EXCEPT ![p] = "none"]
  /\ UNCHANGED <<moved, panicked>>

-----------------------------------------------------------------------------
(***************************************************************************)
(* read() and write() of k units: the transfer, and the update of the      *)
(* offset after it.                                                        *)
(***************************************************************************)
InodeOf(p, i) == openfile[fdTable[p][i].file].node

Transfer(p, i, k) ==
  LET ret == Transferred(fs, InodeOf(p, i), fdTable[p][i].offset, k)
  IN /\ Ready(p)
     /\ fdTable[p][i] # Closed
     /\ ret > 0
     /\ moved' = [moved EXCEPT ![p] = <<i, ret>>]
     /\ UNCHANGED <<fs, openfile, fdTable, proc, panicked>>

Advance(p) ==
  /\ ~panicked
  /\ moved[p] # Still
  /\ fdTable' = [fdTable EXCEPT ![p][moved[p][1]].offset = @ + moved[p][2]]
  /\ moved' = [moved EXCEPT ![p] = Still]
  /\ UNCHANGED <<fs, openfile, proc, panicked>>

(***************************************************************************)
(* append(): the offset moves to the new end of the file.                  *)
(***************************************************************************)
AppendTo(p, i, k) ==
  /\ Ready(p)
  /\ fdTable[p][i] # Closed
  /\ fs.inode[InodeOf(p, i)].size + k <= MaxSize
  /\ ~ AppendFails(fs, InodeOf(p, i))
  /\ \E s \in {AppendData(fs, InodeOf(p, i), k)} :
       IF EntryLost(s, InodeOf(p, i))
       THEN /\ panicked' = TRUE
            /\ UNCHANGED <<fs, fdTable>>
       ELSE /\ fs' = UpdateEntry(s, InodeOf(p, i))
            /\ fdTable' = [fdTable EXCEPT ![p][i].offset =
                             s.inode[InodeOf(p, i)].size]
            /\ UNCHANGED panicked
  /\ UNCHANGED <<openfile, proc, moved>>

(***************************************************************************)
(* fseek(): anywhere between the start and the end of the file.            *)
(***************************************************************************)
Fseek_Unchecked(p, i, offset) ==
  /\ Ready(p)
  /\ fdTable[p][i] # Closed
  /\ offset # fdTable[p][i].offset
  /\ fdTable' = [fdTable EXCEPT ![p][i].offset = offset]
  /\ UNCHANGED <<fs, openfile, proc, moved, panicked>>

Fseek(p, i, offset) ==
  /\ Ready(p)
  /\ fdTable[p][i] # Closed
  /\ offset <= fs.inode[InodeOf(p, i)].size
  /\ fdTable' = [fdTable EXCEPT ![p][i].offset = offset]
  /\ UNCHANGED <<fs, openfile, proc, moved, panicked>>

(***************************************************************************)
(* resolve_parent(), then an operation of the file system on the parent,   *)
(* then release_lookup_openfile().  The parent of a path of one name is    *)
(* the root directory, for which nothing is looked up.                     *)
(***************************************************************************)
FsCall(call, s, d, name) ==
  CASE call = "create_file" -> CreateFile(s, d, name)
    [] call = "remove" -> FsRemove(s, d, name)
    [] call = "create_directory" -> CreateDirectory(s, d, name)
    [] call = "remove_directory" -> RemoveDirectory(s, d, name)

AtParent(call, l, name) ==
  IF l.file = NoFile THEN l.t
  ELSE ReleaseLookup(
         LET n == l.t.openfile[l.file].node
         IN IF l.t.fs.inode[n].dir
            THEN [l.t EXCEPT !.fs = FsCall(call, @, DirCluster(@, n), name)]
            ELSE l.t,
         l.file)

InParent(call, path) ==
  IF Len(path) = 1 THEN [Tables EXCEPT !.fs = FsCall(call, @, Root, Last(path))]
  ELSE AtParent(call, LookupPath(Tables, Front(path)), Last(path))

Create(p, path) ==
  /\ Ready(p)
  /\ Become(InParent("create_file", path))
  /\ UNCHANGED <<fdTable, proc, moved, panicked>>

Mkdir(p, path) ==
  /\ Ready(p)
  /\ Become(InParent("create_directory", path))
  /\ UNCHANGED <<fdTable, proc, moved, panicked>>

Rmdir(p, path) ==
  /\ Ready(p)
  /\ Become(InParent("remove_directory", path))
  /\ UNCHANGED <<fdTable, proc, moved, panicked>>

(***************************************************************************)
(* remove_file() of a directory takes it away with everything in it: the   *)
(* code has no check against that.                                         *)
(***************************************************************************)
LeadsToDir(path) ==
  LET w == Walk(fs, path) IN ~ w.lost /\ w.fs.inode[w.node].dir

RemoveFile(p, path) ==
  /\ Ready(p)
  /\ LeadsToDir(path) => RemoveDirs
  /\ Become(InParent("remove", path))
  /\ UNCHANGED <<fdTable, proc, moved, panicked>>

(***************************************************************************)
(* chdir() and ls() look a path up and let go of it.                       *)
(***************************************************************************)
Visit(p, path) ==
  /\ Ready(p)
  /\ \E l \in {LookupPath(Tables, path)} : Become(ReleaseLookup(l.t, l.file))
  /\ UNCHANGED <<fdTable, proc, moved, panicked>>

Next ==
  \/ \E p \in Procs, path \in Paths :
       \/ Open(p, path) \/ Create(p, path) \/ RemoveFile(p, path)
       \/ Rmdir(p, path) \/ Visit(p, path)
  \/ \E p \in Procs, path \in DirPaths : Mkdir(p, path)
  \/ \E p \in Procs, i \in Fds :
       \/ Close(p, i)
       \/ \E k \in Amounts : Transfer(p, i, k) \/ AppendTo(p, i, k)
       \/ \E offset \in 0 .. MaxSize : Fseek(p, i, offset)
  \/ \E p \in Procs : Advance(p) \/ Exit(p) \/ ExecveFails(p) \/ ReleasePCB(p)
  \/ \E p, q \in Procs : Fork(p, q)

Spec == Init /\ [][Next]_vars

-----------------------------------------------------------------------------
Entries == [name : Names \cup {NoName}, dir : BOOLEAN,
            start : Clusters \cup {NoCluster}, size : 0 .. MaxSize]

(***************************************************************************)
(* Type correctness.                                                       *)
(***************************************************************************)
TypeOK ==
  /\ fs.fat \in [Clusters -> Clusters \cup {FreeMark, EndOfChain}]
  /\ \A d \in DOMAIN fs.dirs : Range(fs.dirs[d]) \subseteq Entries
  /\ \A n \in Inodes : fs.inode[n].ref \in 0 .. MaxOpenFiles
  /\ openfile \in [Files -> [node : Inodes \cup {NullInode},
                             ref : 0 .. Cardinality(Procs \X Fds)]]
  /\ fdTable \in [Procs -> [Fds -> [file : Files \cup {NoFile},
                                    offset : 0 .. MaxSize]]]
  /\ proc \in [Procs -> {"none", "alive", "zombie"}]
  /\ moved \in [Procs -> (Fds \cup {0}) \X (0 .. MaxSize)]
  /\ panicked \in BOOLEAN

Holders(f) == {h \in Procs \X Fds : fdTable[h[1]][h[2]].file = f}

(***************************************************************************)
(* A node's reference count is the number of descriptors that name it, in  *)
(* all processes, zombies included, and a node without descriptors is      *)
(* free: after any order of open, close, fork, exit and failed calls no    *)
(* descriptor names a freed node and none is leaked.                       *)
(***************************************************************************)
RefcountExact ==
  \A f \in Files :
    /\ openfile[f].ref = Cardinality(Holders(f))
    /\ openfile[f] # NoNode => openfile[f].ref > 0

(***************************************************************************)
(* An inode in the pool belongs to exactly one open-file node, which holds *)
(* its only reference: walks and failed calls return the inodes they took. *)
(***************************************************************************)
InodesExact ==
  \A n \in Inodes :
    /\ fs.inode[n].ref <= 1
    /\ fs.inode[n].ref =
         Cardinality({f \in Files : openfile[f] # NoNode /\ openfile[f].node = n})

(***************************************************************************)
(* No offset is beyond the end of its file, not even the one a read or     *)
(* write in progress is about to store.                                    *)
(***************************************************************************)
OffsetInFile ==
  \A p \in Procs, i \in Fds :
    fdTable[p][i] # Closed =>
      fdTable[p][i].offset + (IF moved[p][1] = i THEN moved[p][2] ELSE 0)
        <= fs.inode[InodeOf(p, i)].size

(***************************************************************************)
(* The entry of every open file is in its directory and agrees with the    *)
(* inode, and no two inodes stand for one entry: what is open is not       *)
(* removed, and every process sees the size the last append left.          *)
(***************************************************************************)
OpenIsLinked ==
  \A n \in Inodes : fs.inode[n].ref > 0 =>
    LET nd == fs.inode[n]
        e == EntryAt(fs, nd.loc)
    IN /\ e.name # NoName
       /\ <<e.start, e.size, e.dir>> = <<nd.start, nd.size, nd.dir>>
       /\ \A m \in Inodes : fs.inode[m].ref > 0 /\ fs.inode[m].loc = nd.loc => m = n

(***************************************************************************)
(* The places of the entries one can reach from the root.                  *)
(***************************************************************************)
Subdirs(d) == {EntryAt(fs, l).start :
                 l \in {x \in Range(Locations(fs, d)) : EntryAt(fs, x).dir}}

LiveLocations ==
  UNION {Range(Locations(fs, d)) : d \in {Root} \cup Subdirs(Root)}

(***************************************************************************)
(* Every cluster that is not free belongs to the chain of exactly one      *)
(* entry, and a directory has a name only once: no cluster is shared, used *)
(* while free, or lost by a call that failed half-way.                     *)
(***************************************************************************)
VolumeConsistent ==
  LET live == {l \in LiveLocations : EntryAt(fs, l) # NoEntry}
      owners(c) == {l \in live : c \in Range(Chain(fs, EntryAt(fs, l).start))}
  IN /\ \A c \in Clusters :
          Cardinality(owners(c)) = IF fs.fat[c] = FreeMark THEN 0 ELSE 1
     /\ \A d \in {Root} \cup Subdirs(Root), name \in Names :
          Cardinality(Named(fs, d, name)) <= 1

(***************************************************************************)
(* A step that changes what a descriptor stands for, its file or its       *)
(* offset, changes no other, unless its process starts or ends: nobody's   *)
(* close or lookup takes the file away from another descriptor, and        *)
(* offsets are not shared after fork (the closing note of information.md). *)
(***************************************************************************)
Seen(p, i) == IF fdTable[p][i] = Closed THEN <<>>
              ELSE <<InodeOf(p, i), fdTable[p][i].offset>>

DescriptorsPrivate ==
  [][\A p, q \in Procs, i, j \in Fds :
       /\ Seen(p, i)' # Seen(p, i) /\ Seen(q, j)' # Seen(q, j)
       /\ proc'[p] = proc[p]
       => <<p, i>> = <<q, j>>]_vars

(***************************************************************************)
(* The chain of every open file is long enough for its size: append puts   *)
(* new data after the old.                                                 *)
(***************************************************************************)
ChainHoldsFile ==
  \A n \in Inodes :
    fs.inode[n].ref > 0 /\ ~ fs.inode[n].dir =>
      fs.inode[n].size <= Len(Chain(fs, fs.inode[n].start)) * ClusterSize
=============================================================================
