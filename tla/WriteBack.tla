----------------------------- MODULE WriteBack -----------------------------
(***************************************************************************)
(* What of a FAT12 volume is on the disk when: the volume in memory, the   *)
(* image on the disk, and the machine switched off between any two         *)
(* transfers.                                                              *)
(*                                                                         *)
(* A cluster is written when its cache is released (release_cache), append *)
(* writes the FAT before it uses what it allocated, and everything else,   *)
(* the root directory and the FAT changes of create, mkdir and remove,     *)
(* waits for sync_all.  No file is open: an append opens its file and      *)
(* closes it.  The FAT and the root directory go to the disk in one        *)
(* transfer each, and transfers succeed.                                   *)
(***************************************************************************)
EXTENDS Fat12

CONSTANTS
  FatRead,       \* FAT entries read_fat_table takes from three sectors
  FatWritten,    \* FAT entries flush_fat_table puts into three sectors
  Amounts,       \* sizes of an append
  MaxSize        \* bound on the size of a file

ASSUME WriteBackAssumption ==
  /\ FatRead \in Nat \ {0} /\ FatWritten \in Nat \ {0}
  /\ Amounts \subseteq Nat \ {0}
  /\ MaxSize \in Nat

VARIABLES
  vol,       \* the mounted volume
  disk,      \* the FAT and the directories on the disk
  pending,   \* the images the disk still goes through in the current call
  dirty,     \* FileManager::dirty
  lost       \* the machine went off before everything was written

vars == <<vol, disk, pending, dirty, lost>>

-----------------------------------------------------------------------------
(***************************************************************************)
(* mount(): read_fat_table() and init_root_dir(), which closes the gaps    *)
(* that deleted entries leave.                                             *)
(***************************************************************************)
FatSectorGroups == (ClusterCount + FatWritten - 1) \div FatWritten

ReadFatTable(fat) ==
  [c \in Clusters |->
     LET from == (c \div FatRead) * FatWritten + (c % FatRead)
     IN IF c \div FatRead < FatSectorGroups /\ from \in Clusters
        THEN fat[from] ELSE FreeMark]

InitRootDir(entries) ==
  LET used == {i \in DOMAIN entries : entries[i] # NoEntry}
      nth(k) == CHOOSE i \in used : Cardinality({j \in used : j < i}) = k - 1
  IN [k \in 1 .. RootEntries |->
        IF k <= Cardinality(used) THEN entries[nth(k)] ELSE NoEntry]

Mount(d) ==
  [fat |-> ReadFatTable(d.fat),
   dirs |-> [d.dirs EXCEPT ![Root] = InitRootDir(@)],
   inode |-> [n \in Inodes |-> FreeInode]]

(***************************************************************************)
(* The image after the FAT fat and the clusters of dirs were written: the  *)
(* root directory on the disk stays as it is.                              *)
(***************************************************************************)
Image(fat, dirs) ==
  [fat |-> fat, dirs |-> [dirs EXCEPT ![Root] = disk.dirs[Root]]]

(***************************************************************************)
(* The end of a call that changed the volume to s, with the images the     *)
(* disk goes through, transfers that change nothing left out.  A call that *)
(* failed changes nothing.                                                 *)
(***************************************************************************)
Changed(s, images) ==
  /\ s # vol
  /\ vol' = s
  /\ pending' = SelectSeq(images, LAMBDA m : m # disk)
  /\ dirty' = TRUE
  /\ UNCHANGED <<disk, lost>>

(***************************************************************************)
(* The places of a file or directory: the root directory and the           *)
(* directories in it.                                                      *)
(***************************************************************************)
SubdirsOf(s) ==
  {EntryAt(s, l).start : l \in {x \in Range(Locations(s, Root)) : EntryAt(s, x).dir}}

Directories == {Root} \cup SubdirsOf(vol)

-----------------------------------------------------------------------------
Init ==
  /\ vol = EmptyVolume
  /\ disk = [fat |-> vol.fat, dirs |-> vol.dirs]
  /\ pending = <<>>
  /\ dirty = FALSE
  /\ lost = FALSE

Idle == pending = <<>> /\ ~ lost

(***************************************************************************)
(* create_file(): the cluster that is added to a full directory is cleared *)
(* and written, then the one with the entry.                               *)
(***************************************************************************)
Grown(d) ==
  LET s == FreeEntry(vol, d).fs IN IF s = vol THEN <<>> ELSE <<Image(disk.fat, s.dirs)>>

Create(d, name) ==
  /\ Idle
  /\ \E s \in {CreateFile(vol, d, name)} :
       Changed(s, Grown(d) \o <<Image(disk.fat, s.dirs)>>)

(***************************************************************************)
(* create_directory(): the same, then the cluster of the new directory is  *)
(* cleared and written.                                                    *)
(***************************************************************************)
NewCluster(s, d, name) ==
  EntryAt(s, CHOOSE loc \in Named(s, d, name) : TRUE).start

Mkdir_NotDirty(d, name) ==
  /\ Idle
  /\ \E s \in {CreateDirectory(vol, d, name)} :
       /\ s # vol
       /\ vol' = s
       /\ pending' = Grown(d) \o <<Image(disk.fat, s.dirs)>>
  /\ UNCHANGED <<disk, dirty, lost>>

Mkdir(d, name) ==
  /\ Idle
  /\ \E s \in {CreateDirectory(vol, d, name)} :
       Changed(s,
         Grown(d) \o
         <<Image(disk.fat, [s.dirs EXCEPT ![NewCluster(s, d, name)] =
                              vol.dirs[NewCluster(s, d, name)]]),
           Image(disk.fat, s.dirs)>>)

RemoveFile(d, name) ==
  /\ Idle
  /\ ~ \E loc \in Named(vol, d, name) : EntryAt(vol, loc).dir
  /\ \E s \in {FsRemove(vol, d, name)} : Changed(s, <<Image(disk.fat, s.dirs)>>)

Rmdir(d, name) ==
  /\ Idle
  /\ \E s \in {RemoveDirectory(vol, d, name)} :
       Changed(s, <<Image(disk.fat, s.dirs)>>)

(***************************************************************************)
(* append() of k units: the FAT is written once the first cluster of an    *)
(* empty file, or a cluster behind the last one, is allocated, then the    *)
(* data; last the entry.  An append inside the last cluster writes data    *)
(* and entry only, and the FAT on the disk stays as old as it is.          *)
(* part[j] is the volume with j - 1 clusters added to the chain, the last  *)
(* of them the one with all the data.                                      *)
(***************************************************************************)
FatOnDisk(s, fat) == IF fat = s.fat THEN disk.fat ELSE fat

AppendImages_EntryFirst(s, part, done) ==
  <<Image(disk.fat, done.dirs), Image(FatOnDisk(s, done.fat), done.dirs)>>

AppendImages(s, part, done) ==
  [i \in 1 .. 2 * Len(part) |->
     LET j == (i + 1) \div 2
     IN Image(FatOnDisk(s, part[j].fat),
              IF i % 2 = 0 THEN part[j].dirs
              ELSE IF j = 1 THEN s.dirs ELSE part[j - 1].dirs)]
  \o <<Image(FatOnDisk(s, done.fat), done.dirs)>>

Parts(s, n, k) ==
  LET chunk == Min({k, ClusterSize - (s.inode[n].size % ClusterSize)})
      more == (k - chunk + ClusterSize - 1) \div ClusterSize
  IN [j \in 1 .. more + 1 |->
        AppendData(s, n, Min({k, chunk + (j - 1) * ClusterSize}))]

AppendTo(loc, k) ==
  /\ Idle
  /\ EntryAt(vol, loc) # NoEntry
  /\ EntryAt(vol, loc).size + k <= MaxSize
  /\ \E l \in {LookupAt(vol, loc)} :
       /\ ~ AppendFails(l.fs, l.node)
       /\ \E part \in {Parts(l.fs, l.node, k)} :
          \E done \in {UpdateEntry(AppendData(l.fs, l.node, k), l.node)} :
            Changed(ReleaseInode(done, l.node),
                    AppendImages(l.fs, part, done))

(***************************************************************************)
(* sync_all(): nothing when not dirty; flush_all() writes the root         *)
(* directory, then the caches, all of them clean, then the FAT.            *)
(***************************************************************************)
FlushRootDir == [disk EXCEPT !.dirs[Root] = vol.dirs[Root]]

FlushAll == <<FlushRootDir, [fat |-> vol.fat, dirs |-> vol.dirs]>>

SyncAll ==
  /\ Idle
  /\ dirty
  /\ pending' = FlushAll
  /\ dirty' = FALSE
  /\ UNCHANGED <<vol, disk, lost>>

Transfer ==
  /\ pending # <<>>
  /\ disk' = Head(pending)
  /\ pending' = Tail(pending)
  /\ UNCHANGED <<vol, dirty, lost>>

(***************************************************************************)
(* The machine is switched off and on again.  A volume that was not        *)
(* written completely is looked at, and not used further.                  *)
(***************************************************************************)
PowerCycle ==
  /\ vol' = Mount(disk)
  /\ pending' = <<>>
  /\ dirty' = FALSE
  /\ lost' = (lost \/ dirty \/ pending # <<>>)
  /\ UNCHANGED disk

Next ==
  \/ \E d \in Directories, name \in Names :
       Create(d, name) \/ Mkdir(d, name) \/ RemoveFile(d, name) \/ Rmdir(d, name)
  \/ \E d \in Directories : \E loc \in Range(Locations(vol, d)), k \in Amounts :
       AppendTo(loc, k)
  \/ SyncAll \/ Transfer \/ PowerCycle

Spec == Init /\ [][Next]_vars

-----------------------------------------------------------------------------
(***************************************************************************)
(* When nothing is dirty, switching the machine off and on gives the same  *)
(* volume: sync_all may return at once, and what it wrote is everything.   *)
(***************************************************************************)
CleanIsDurable ==
  Idle /\ ~ dirty =>
    Mount(disk) = [vol EXCEPT !.dirs[Root] = InitRootDir(@)]

(***************************************************************************)
(* Whenever the machine goes off, every file that is then found in a       *)
(* subdirectory has its clusters: its chain is allocated, and no other     *)
(* such file has any of it.  append writes the FAT before the entry, and   *)
(* an entry in a subdirectory is gone from the disk before its clusters    *)
(* are given to another file.                                              *)
(***************************************************************************)
SubFiles(s) ==
  {loc \in UNION {Range(Locations(s, d)) : d \in SubdirsOf(s) \ {NoCluster}} :
     EntryAt(s, loc) # NoEntry /\ ~ EntryAt(s, loc).dir}

ChainOf(s, loc) == Range(Chain(s, EntryAt(s, loc).start))

FilesSurvive ==
  lost =>
    /\ \A f \in SubFiles(vol) : \A c \in ChainOf(vol, f) : vol.fat[c] # FreeMark
    /\ \A f, g \in SubFiles(vol) :
         f # g => ChainOf(vol, f) \cap ChainOf(vol, g) = {}
=============================================================================
