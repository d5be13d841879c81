------------------------------- MODULE Fat12 -------------------------------
(***************************************************************************)
(* The FAT12 file system (fat12_fs.cpp) as operators on a mounted volume   *)
(* s, a record of                                                          *)
(*   fat     the FAT table                                                 *)
(*   dirs    the entries of the root directory and of every cluster that   *)
(*           holds a directory (none in a cluster of file data)            *)
(*   inode   the inode pool                                                *)
(* The file manager calls them with interrupts off, so none is divided.    *)
(*                                                                         *)
(* Sizes count a unit that divides the cluster size.  Sector transfers     *)
(* succeed, and the contents of a file are not read as directory entries.  *)
(*                                                                         *)
(* An operator X_Variant is X with a plausible bug, used by no             *)
(* specification.                                                          *)
(***************************************************************************)
EXTENDS Integers, Sequences, FiniteSets, FiniteSetsExt, SequencesExt

CONSTANTS
  ClusterCount,        \* cluster_count: the clusters are 2 .. ClusterCount - 1
  ClusterSize,         \* cluster_size
  RootEntries,         \* root_entries
  EntriesPerCluster,   \* cluster_size / FAT12_ENTRY_BYTES
  MaxInodes,           \* FAT12_MAX_INODES
  Names,               \* file names
  NoName               \* the name of an entry that is empty or deleted

ASSUME Fat12Assumption ==
  /\ ClusterCount \in Nat /\ ClusterCount > 2
  /\ ClusterSize \in Nat \ {0}
  /\ RootEntries \in Nat \ {0}
  /\ EntriesPerCluster \in Nat \ {0}
  /\ MaxInodes \in Nat \ {0}
  /\ NoName \notin Names

Clusters == 2 .. ClusterCount - 1
FreeMark == 0        \* fat_table[c] of a free cluster
EndOfChain == 4095   \* 0xFFF
NoCluster == 0       \* start_cluster of an empty file
Root == 1            \* stands for the root directory; no cluster has this number
Inodes == 1 .. MaxInodes
NullInode == 0       \* nullptr: no inode, or the root directory

NoEntry == [name |-> NoName, dir |-> FALSE, start |-> NoCluster, size |-> 0]
NoLocation == <<Root, 0>>
FreeInode == [start |-> NoCluster, size |-> 0, dir |-> FALSE,
              loc |-> NoLocation, ref |-> 0]

Blank(n) == [i \in 1 .. n |-> NoEntry]

EmptyVolume ==
  [fat |-> [c \in Clusters |-> FreeMark],
   dirs |-> [d \in Clusters \cup {Root} |->
               Blank(IF d = Root THEN RootEntries ELSE EntriesPerCluster)],
   inode |-> [n \in Inodes |-> FreeInode]]

-----------------------------------------------------------------------------
(***************************************************************************)
(* The chain of clusters that starts at c.                                 *)
(***************************************************************************)
Chain(s, c) ==
  LET walk[k \in 0 .. ClusterCount] ==
        IF k = 0 THEN <<c>>
        ELSE LET before == walk[k - 1]
                 next == s.fat[Last(before)]
             IN IF next \in Clusters THEN Append(before, next) ELSE before
  IN IF c = NoCluster THEN <<>> ELSE walk[ClusterCount]

FreeClusters(s) == {c \in Clusters : s.fat[c] = FreeMark}

(***************************************************************************)
(* allocate_cluster() takes the first free cluster.                        *)
(***************************************************************************)
AllocateCluster(s) == Min(FreeClusters(s))

FreeChain_FirstOnly(s, c) ==
  IF c = NoCluster THEN s ELSE [s EXCEPT !.fat[c] = FreeMark]

FreeChain(s, c) ==
  [s EXCEPT !.fat = [x \in Clusters |-> IF x \in Range(Chain(s, c))
                                        THEN FreeMark ELSE @[x]]]

(***************************************************************************)
(* The places of a directory's entries, in the order they are searched; d  *)
(* is its first cluster.                                                   *)
(***************************************************************************)
Locations(s, d) ==
  IF d = Root
  THEN [i \in 1 .. RootEntries |-> <<Root, i>>]
  ELSE LET ch == Chain(s, d)
       IN [k \in 1 .. Len(ch) * EntriesPerCluster |->
             <<ch[((k - 1) \div EntriesPerCluster) + 1],
               ((k - 1) % EntriesPerCluster) + 1>>]

EntryAt(s, loc) == s.dirs[loc[1]][loc[2]]

Named(s, d, name) ==
  {loc \in Range(Locations(s, d)) : EntryAt(s, loc).name = name}

-----------------------------------------------------------------------------
(***************************************************************************)
(* inodepool.get_inode: a file that has clusters is known by the first of  *)
(* them, an empty file by the place of its entry.                          *)
(***************************************************************************)
InodesFor_StartOnly(s, e, loc) ==
  {n \in Inodes : /\ s.inode[n].ref > 0
                  /\ e.start # NoCluster /\ s.inode[n].start = e.start}

InodesFor(s, e, loc) ==
  {n \in Inodes :
     /\ s.inode[n].ref > 0
     /\ s.inode[n].start = e.start
     /\ e.start = NoCluster => s.inode[n].loc = loc}

FreeInodes(s) == {n \in Inodes : s.inode[n].ref = 0}

(***************************************************************************)
(* lookup(): the inode for name in the directory at d, with a reference    *)
(* for the caller, or nullptr, also when the inode pool is full.           *)
(***************************************************************************)
NotFound(s) == [fs |-> s, node |-> NullInode]

ShareInode(s, n, loc) ==
  [fs |-> [s EXCEPT !.inode[n].ref = @ + 1, !.inode[n].loc = loc], node |-> n]

LoadInode(s, n, e, loc) ==
  [fs |-> [s EXCEPT !.inode[n] = [start |-> e.start, size |-> e.size,
                                  dir |-> e.dir, loc |-> loc, ref |-> 1]],
   node |-> n]

LookupEntry(s, e, loc, shared) ==
  IF shared # {} THEN ShareInode(s, Min(shared), loc)
  ELSE IF FreeInodes(s) = {} THEN NotFound(s)
  ELSE LoadInode(s, Min(FreeInodes(s)), e, loc)

LookupAt(s, loc) ==
  LookupEntry(s, EntryAt(s, loc), loc, InodesFor(s, EntryAt(s, loc), loc))

LookupAmong(s, found) ==
  IF found = {} THEN NotFound(s)
  ELSE LookupAt(s, CHOOSE loc \in found : TRUE)

Lookup(s, d, name) == LookupAmong(s, Named(s, d, name))

(***************************************************************************)
(* release_inode(): an inode without references goes back to the pool,     *)
(* whose allocate() clears it.                                             *)
(***************************************************************************)
ReleaseInode(s, n) ==
  IF n = NullInode THEN s
  ELSE IF s.inode[n].ref > 1 THEN [s EXCEPT !.inode[n].ref = @ - 1]
  ELSE [s EXCEPT !.inode[n] = FreeInode]

(***************************************************************************)
(* The first cluster of the directory an inode pointer stands for.         *)
(***************************************************************************)
DirCluster(s, n) == IF n = NullInode THEN Root ELSE s.inode[n].start

-----------------------------------------------------------------------------
(***************************************************************************)
(* find_free_entry(), and the cluster create_file and create_directory     *)
(* add to a directory that is full.  The root directory cannot grow.       *)
(***************************************************************************)
Grow(s, d, c) ==
  [fs |-> [s EXCEPT !.fat[Last(Chain(s, d))] = c,
                    !.fat[c] = EndOfChain,
                    !.dirs[c] = Blank(EntriesPerCluster)],
   loc |-> <<c, 1>>]

FreeEntryAmong(s, d, places, free) ==
  IF free # {} THEN [fs |-> s, loc |-> places[Min(free)]]
  ELSE IF d = Root \/ FreeClusters(s) = {} THEN [fs |-> s, loc |-> NoLocation]
  ELSE Grow(s, d, AllocateCluster(s))

FreeEntry(s, d) ==
  LET places == Locations(s, d)
  IN FreeEntryAmong(s, d, places,
                    {k \in DOMAIN places : EntryAt(s, places[k]) = NoEntry})

(***************************************************************************)
(* Whether the name is there, as create_file and create_directory see it.  *)
(***************************************************************************)
Exists(s, d, name) == Lookup(s, d, name).node # NullInode

(***************************************************************************)
(* create_file(): an entry without clusters.                               *)
(***************************************************************************)
WriteEntry(s, loc, e) == [s EXCEPT !.dirs[loc[1]][loc[2]] = e]

NewFile(s, place, name) ==
  IF place.loc = NoLocation THEN s
  ELSE WriteEntry(place.fs, place.loc,
         [name |-> name, dir |-> FALSE, start |-> NoCluster, size |-> 0])

CreateFile(s, d, name) ==
  IF Exists(s, d, name) THEN s ELSE NewFile(s, FreeEntry(s, d), name)

(***************************************************************************)
(* create_directory(): an entry with one cleared cluster.  Without one the *)
(* growth of the parent is undone.                                         *)
(***************************************************************************)
NewDirectoryAt(s, c, loc, name) ==
  WriteEntry([s EXCEPT !.fat[c] = EndOfChain,
                       !.dirs[c] = Blank(EntriesPerCluster)], loc,
    [name |-> name, dir |-> TRUE, start |-> c, size |-> 0])

NewDirectory(s, place, name) ==
  IF place.loc = NoLocation \/ FreeClusters(place.fs) = {} THEN s
  ELSE NewDirectoryAt(place.fs, AllocateCluster(place.fs), place.loc, name)

CreateDirectory(s, d, name) ==
  IF Exists(s, d, name) THEN s ELSE NewDirectory(s, FreeEntry(s, d), name)

(***************************************************************************)
(* The common end of remove() and remove_directory(): the entry is marked  *)
(* deleted, the chain is freed and the inode released.                     *)
(***************************************************************************)
Delete(s, n) ==
  LET nd == s.inode[n]
      cut == [s EXCEPT !.dirs[nd.loc[1]][nd.loc[2]] = NoEntry]
  IN ReleaseInode(FreeChain(cut, nd.start), n)

(***************************************************************************)
(* remove(): refused while anybody else holds the inode.  It does not ask  *)
(* whether the name is a directory.                                        *)
(***************************************************************************)
RemoveInode(s, n) ==
  IF n = NullInode THEN s
  ELSE IF s.inode[n].ref # 1 THEN ReleaseInode(s, n)
  ELSE Delete(s, n)

FsRemove(s, d, name) ==
  LET l == Lookup(s, d, name) IN RemoveInode(l.fs, l.node)

IsDirEmpty(s, n) ==
  \A loc \in Range(Locations(s, DirCluster(s, n))) : EntryAt(s, loc) = NoEntry

RemoveDirInode(s, n) ==
  IF n = NullInode THEN s
  ELSE IF s.inode[n].dir /\ IsDirEmpty(s, n) /\ s.inode[n].ref = 1
  THEN Delete(s, n)
  ELSE ReleaseInode(s, n)

RemoveDirectory(s, d, name) ==
  LET l == Lookup(s, d, name) IN RemoveDirInode(l.fs, l.node)

-----------------------------------------------------------------------------
(***************************************************************************)
(* append() of k units to the file of inode n.  An empty file gets its     *)
(* first cluster; the data goes into the last cluster from size %          *)
(* cluster_size on, and into new clusters, as many as there are; then the  *)
(* entry gets the new size and start.                                      *)
(***************************************************************************)
FirstN(S, k) == {c \in S : Cardinality({x \in S : x < c}) < k}

AppendData(s, n, k) ==
  LET nd == s.inode[n]
      first == AllocateCluster(s)
      fat1 == IF nd.start # NoCluster THEN s.fat
              ELSE [s.fat EXCEPT ![first] = EndOfChain]
      start == IF nd.start # NoCluster THEN nd.start ELSE first
      s1 == [s EXCEPT !.fat = fat1]
      tail == Last(Chain(s1, start))
      chunk == Min({k, ClusterSize - (nd.size % ClusterSize)})
      wanted == (k - chunk + ClusterSize - 1) \div ClusterSize
      new == FirstN(FreeClusters(s1), wanted)
      more == Min({k - chunk, Cardinality(new) * ClusterSize})
      link(c) == IF \E x \in new : x > c THEN Min({x \in new : x > c})
                 ELSE EndOfChain
      fat2 == [c \in Clusters |->
                 IF c \in new THEN link(c)
                 ELSE IF c = tail /\ new # {} THEN Min(new) ELSE fat1[c]]
  IN [s EXCEPT !.fat = fat2,
               !.dirs = [d \in DOMAIN @ |->
                  IF d \in new \/ (nd.start = NoCluster /\ d = start)
                  THEN Blank(EntriesPerCluster) ELSE @[d]],
               !.inode[n].start = start,
               !.inode[n].size = @ + chunk + more]

AppendFails(s, n) ==
  \/ s.inode[n].dir
  \/ s.inode[n].start = NoCluster /\ FreeClusters(s) = {}

(***************************************************************************)
(* The entry of a file outside the root directory must still be one, else  *)
(* PANIC.                                                                  *)
(***************************************************************************)
EntryLost(s, n) ==
  LET loc == s.inode[n].loc
  IN loc[1] # Root /\ EntryAt(s, loc) = NoEntry

UpdateEntry(s, n) ==
  LET nd == s.inode[n]
  IN [s EXCEPT !.dirs[nd.loc[1]][nd.loc[2]].size = nd.size,
               !.dirs[nd.loc[1]][nd.loc[2]].start = nd.start]

(***************************************************************************)
(* What read() and write() of k units at an offset return when positive:   *)
(* both stop at the end of the file and at the end of its chain.           *)
(***************************************************************************)
Transferred(s, n, offset, k) ==
  LET nd == s.inode[n]
      left == {nd.size - offset,
               Len(Chain(s, nd.start)) * ClusterSize - offset}
  IN IF nd.dir \/ Min(left) <= 0 THEN 0 ELSE Min(left \cup {k})
=============================================================================
