-------------------------- MODULE WriteBackProofs --------------------------
(***************************************************************************)
(* Proof that a volume that is not dirty is completely on the disk, for    *)
(* every size of volume, directory and file, every number of calls and of  *)
(* restarts: CleanIsDurable.  It needs that read_fat_table finds every FAT *)
(* entry in the first three sectors it reads; past them it does not hold.  *)
(***************************************************************************)
EXTENDS WriteBack, Counting, TLAPS

USE Fat12Assumption, WriteBackAssumption

(***************************************************************************)
(* A volume with its three fields, its FAT over all clusters, its          *)
(* directories over all clusters and the root, and its inode pool.         *)
(***************************************************************************)
IsFat(f) == f = [c \in Clusters |-> f[c]]

IsDirs(d) ==
  /\ d = [x \in Clusters \cup {Root} |-> d[x]]
  /\ DOMAIN d[Root] = 1 .. RootEntries

IsPool(p) == p = [n \in Inodes |-> p[n]]

Shape(s) ==
  /\ s = [fat |-> s.fat, dirs |-> s.dirs, inode |-> s.inode]
  /\ IsFat(s.fat) /\ IsDirs(s.dirs) /\ IsPool(s.inode)

(***************************************************************************)
(* Between calls no inode is in use; within one only that of the file or   *)
(* directory it is about.                                                  *)
(***************************************************************************)
PoolEmpty(s) == \A n \in Inodes : s.inode[n] = FreeInode

OnlyInode(s, n) ==
  /\ n \in Inodes
  /\ DOMAIN s.inode[n] = DOMAIN FreeInode
  /\ s.inode[n].ref = 1
  /\ \A k \in Inodes \ {n} : s.inode[k] = FreeInode

-----------------------------------------------------------------------------
(***************************************************************************)
(* allocate_cluster() returns a cluster.                                   *)
(***************************************************************************)
LEMMA MinCluster ==
  ASSUME NEW s, FreeClusters(s) # {}
  PROVE  AllocateCluster(s) \in Clusters
  <1>1. ClusterCount \in Nat /\ FreeClusters(s) \in SUBSET (0 .. ClusterCount)
    BY DEF FreeClusters, Clusters
  <1>2. Min(FreeClusters(s)) \in FreeClusters(s)
    BY <1>1, MinIn
  <1> QED BY <1>2 DEF AllocateCluster, FreeClusters

LEMMA ClusterNotRoot == Root \notin Clusters /\ NullInode \notin Inodes
  BY DEF Root, Clusters, NullInode, Inodes

-----------------------------------------------------------------------------
(***************************************************************************)
(* The elementary changes of a volume keep its shape.                      *)
(***************************************************************************)
LEMMA SetFat ==
  ASSUME NEW s, Shape(s), NEW f, IsFat(f)
  PROVE  /\ Shape([s EXCEPT !.fat = f])
         /\ [s EXCEPT !.fat = f].inode = s.inode
         /\ [s EXCEPT !.fat = f].dirs = s.dirs
  BY DEF Shape

LEMMA SetDirs ==
  ASSUME NEW s, Shape(s), NEW d, IsDirs(d)
  PROVE  /\ Shape([s EXCEPT !.dirs = d])
         /\ [s EXCEPT !.dirs = d].inode = s.inode
         /\ [s EXCEPT !.dirs = d].fat = s.fat
  BY DEF Shape

LEMMA SetPool ==
  ASSUME NEW s, Shape(s), NEW p, IsPool(p)
  PROVE  /\ Shape([s EXCEPT !.inode = p])
         /\ [s EXCEPT !.inode = p].inode = p
         /\ [s EXCEPT !.inode = p].fat = s.fat
         /\ [s EXCEPT !.inode = p].dirs = s.dirs
  BY DEF Shape

LEMMA FatEntry ==
  ASSUME NEW f, IsFat(f), NEW c, NEW v
  PROVE  IsFat([f EXCEPT ![c] = v])
  BY DEF IsFat

LEMMA DirEntry ==
  ASSUME NEW d, IsDirs(d), NEW x, NEW i, NEW e
  PROVE  IsDirs([d EXCEPT ![x][i] = e])
  BY DEF IsDirs

LEMMA DirCleared ==
  ASSUME NEW d, IsDirs(d), NEW x \in Clusters, NEW e
  PROVE  IsDirs([d EXCEPT ![x] = e])
  BY ClusterNotRoot DEF IsDirs
LEMMA WriteEntryShape ==
  ASSUME NEW s, Shape(s), NEW loc, NEW e
  PROVE  Shape(WriteEntry(s, loc, e)) /\ WriteEntry(s, loc, e).inode = s.inode
  <1>1. PICK d : d = [s.dirs EXCEPT ![loc[1]][loc[2]] = e]
    OBVIOUS
  <1>2. IsDirs(d)
    BY <1>1, DirEntry DEF Shape
  <1>3. WriteEntry(s, loc, e) = [s EXCEPT !.dirs = d]
    BY <1>1 DEF WriteEntry, Shape
  <1> QED BY <1>2, <1>3, SetDirs

LEMMA GrowShape ==
  ASSUME NEW s, Shape(s), NEW d, NEW c \in Clusters
  PROVE  Shape(Grow(s, d, c).fs) /\ Grow(s, d, c).fs.inode = s.inode
  <1>1. PICK a, B, f, g : /\ a = Last(Chain(s, d)) /\ B = Blank(EntriesPerCluster)
                          /\ f = [s.fat EXCEPT ![a] = c]
                          /\ g = [s.dirs EXCEPT ![c] = B]
    OBVIOUS
  <1>2. IsFat(f) /\ IsDirs(g)
    BY <1>1, FatEntry, DirCleared DEF Shape
  <1>3. PICK h : h = [f EXCEPT ![c] = EndOfChain]
    OBVIOUS
  <1>4. IsFat(h)
    BY <1>2, <1>3, FatEntry
  <1>5. PICK u : u = [s EXCEPT !.fat = h]
    OBVIOUS
  <1>6. Shape(u) /\ u.inode = s.inode /\ u.dirs = s.dirs
    BY <1>4, <1>5, SetFat
  <1>7. Grow(s, d, c).fs = [u EXCEPT !.dirs = g]
    BY <1>1, <1>3, <1>5 DEF Grow, Shape
  <1> QED BY <1>2, <1>6, <1>7, SetDirs

LEMMA FreeEntryShape ==
  ASSUME NEW s, Shape(s), NEW d
  PROVE  Shape(FreeEntry(s, d).fs) /\ FreeEntry(s, d).fs.inode = s.inode
  <1>1. PICK places, free :
          FreeEntry(s, d) = FreeEntryAmong(s, d, places, free)
    BY DEF FreeEntry
  <1>2. CASE FreeEntryAmong(s, d, places, free).fs = s
    BY <1>1, <1>2
  <1>3. CASE FreeEntryAmong(s, d, places, free).fs # s
    <2>1. FreeClusters(s) # {}
          /\ FreeEntryAmong(s, d, places, free) = Grow(s, d, AllocateCluster(s))
      BY <1>3 DEF FreeEntryAmong
    <2>2. AllocateCluster(s) \in Clusters
      BY <2>1, MinCluster
    <2> QED BY <1>1, <2>1, <2>2, GrowShape
  <1> QED BY <1>2, <1>3

LEMMA CreateFileShape ==
  ASSUME NEW s, Shape(s), NEW d, NEW name
  PROVE  /\ Shape(CreateFile(s, d, name))
         /\ CreateFile(s, d, name).inode = s.inode
  <1>1. PICK place : place = FreeEntry(s, d)
    OBVIOUS
  <1>2. Shape(place.fs) /\ place.fs.inode = s.inode
    BY <1>1, FreeEntryShape
  <1>3. PICK e : e = [name |-> name, dir |-> FALSE, start |-> NoCluster, size |-> 0]
    OBVIOUS
  <1>4. /\ Shape(WriteEntry(place.fs, place.loc, e))
        /\ WriteEntry(place.fs, place.loc, e).inode = s.inode
    BY <1>2, WriteEntryShape
  <1>5. CreateFile(s, d, name) = s
          \/ CreateFile(s, d, name) = WriteEntry(place.fs, place.loc, e)
    BY <1>1, <1>3 DEF CreateFile, NewFile
  <1> QED BY <1>4, <1>5

LEMMA CreateDirectoryShape ==
  ASSUME NEW s, Shape(s), NEW d, NEW name
  PROVE  /\ Shape(CreateDirectory(s, d, name))
         /\ CreateDirectory(s, d, name).inode = s.inode
  <1>1. PICK place, u, c : /\ place = FreeEntry(s, d) /\ u = place.fs
                           /\ c = AllocateCluster(u)
    OBVIOUS
  <1>2. Shape(u) /\ u.inode = s.inode
    BY <1>1, FreeEntryShape
  <1>3. CreateDirectory(s, d, name) = s
          \/ (/\ FreeClusters(u) # {}
              /\ CreateDirectory(s, d, name) = NewDirectoryAt(u, c, place.loc, name))
    BY <1>1 DEF CreateDirectory, NewDirectory
  <1>4. ASSUME FreeClusters(u) # {}
        PROVE  /\ Shape(NewDirectoryAt(u, c, place.loc, name))
               /\ NewDirectoryAt(u, c, place.loc, name).inode = s.inode
    <2>1. c \in Clusters
      BY <1>1, <1>4, MinCluster
    <2>2. PICK e, B : /\ e = [name |-> name, dir |-> TRUE, start |-> c, size |-> 0]
                      /\ B = Blank(EntriesPerCluster)
      OBVIOUS
    <2>3. PICK f, g : /\ f = [u.fat EXCEPT ![c] = EndOfChain]
                      /\ g = [u.dirs EXCEPT ![c] = B]
      OBVIOUS
    <2>4. IsFat(f) /\ IsDirs(g)
      BY <1>2, <2>1, <2>3, FatEntry, DirCleared DEF Shape
    <2>5. PICK v : v = [u EXCEPT !.fat = f]
      OBVIOUS
    <2>6. Shape(v) /\ v.inode = s.inode
      BY <1>2, <2>4, <2>5, SetFat
    <2>7. PICK w : w = [v EXCEPT !.dirs = g]
      OBVIOUS
    <2>8. Shape(w) /\ w.inode = s.inode
      BY <2>4, <2>6, <2>7, SetDirs
    <2>9. w = [u EXCEPT !.fat[c] = EndOfChain, !.dirs[c] = B]
      BY <1>2, <2>3, <2>5, <2>7 DEF Shape
    <2>10. NewDirectoryAt(u, c, place.loc, name) = WriteEntry(w, place.loc, e)
      BY <2>2, <2>9 DEF NewDirectoryAt
    <2> QED BY <2>8, <2>10, WriteEntryShape
  <1> QED BY <1>3, <1>4
-----------------------------------------------------------------------------
(***************************************************************************)
(* The elementary changes of the pool when one inode is in use.            *)
(***************************************************************************)
LEMMA ReleaseOnly ==
  ASSUME NEW s, Shape(s), NEW n, OnlyInode(s, n)
  PROVE  /\ Shape(ReleaseInode(s, n)) /\ PoolEmpty(ReleaseInode(s, n))
  <1>1. n \in Inodes /\ n # NullInode /\ ~ (s.inode[n].ref > 1)
    BY ClusterNotRoot DEF OnlyInode
  <1>2. PICK p : p = [s.inode EXCEPT ![n] = FreeInode]
    OBVIOUS
  <1>3. IsPool(p) /\ \A k \in Inodes : p[k] = FreeInode
    BY <1>1, <1>2 DEF Shape, IsPool, OnlyInode
  <1>4. ReleaseInode(s, n) = [s EXCEPT !.inode = p]
    BY <1>1, <1>2 DEF ReleaseInode, Shape
  <1>5. Shape(ReleaseInode(s, n)) /\ ReleaseInode(s, n).inode = p
    BY <1>3, <1>4, SetPool
  <1> QED BY <1>3, <1>5 DEF PoolEmpty

LEMMA LookupAtFacts ==
  ASSUME NEW s, Shape(s), PoolEmpty(s), NEW loc
  PROVE  LET l == LookupAt(s, loc)
         IN  Shape(l.fs) /\ OnlyInode(l.fs, l.node)
  <1>1. PICK e : e = EntryAt(s, loc)
    OBVIOUS
  <1>2. \A n \in Inodes : s.inode[n].ref = 0
    BY DEF PoolEmpty, FreeInode
  <1>3. InodesFor(s, e, loc) = {}
    BY <1>2 DEF InodesFor
  <1>4. FreeInodes(s) = Inodes /\ Inodes # {}
    BY <1>2 DEF FreeInodes, Inodes
  <1>5. Min(Inodes) \in Inodes
    <2>1. MaxInodes \in Nat /\ Inodes \in SUBSET (0 .. MaxInodes)
      BY DEF Inodes
    <2> QED BY <1>4, <2>1, MinIn
  <1>6. PICK n, r : /\ n = Min(Inodes)
                    /\ r = [start |-> e.start, size |-> e.size, dir |-> e.dir,
                            loc |-> loc, ref |-> 1]
    OBVIOUS
  <1>7. LookupAt(s, loc) = LoadInode(s, n, e, loc)
    BY <1>1, <1>3, <1>4, <1>6 DEF LookupAt, LookupEntry
  <1>8. PICK p : p = [s.inode EXCEPT ![n] = r]
    OBVIOUS
  <1>9. /\ LookupAt(s, loc).fs = [s EXCEPT !.inode = p]
        /\ LookupAt(s, loc).node = n
    BY <1>6, <1>7, <1>8 DEF LoadInode, Shape
  <1>10. IsPool(p) /\ p[n] = r /\ \A k \in Inodes \ {n} : p[k] = FreeInode
    BY <1>5, <1>6, <1>8 DEF Shape, IsPool, PoolEmpty
  <1>11. DOMAIN r = DOMAIN FreeInode /\ r.ref = 1
    BY <1>6 DEF FreeInode
  <1>12. Shape(LookupAt(s, loc).fs) /\ LookupAt(s, loc).fs.inode = p
    BY <1>9, <1>10, SetPool
  <1>13. OnlyInode(LookupAt(s, loc).fs, n)
    BY <1>5, <1>6, <1>10, <1>11, <1>12 DEF OnlyInode
  <1> QED BY <1>9, <1>12, <1>13

LEMMA LookupFacts ==
  ASSUME NEW s, Shape(s), PoolEmpty(s), NEW d, NEW name
  PROVE  LET l == Lookup(s, d, name)
         IN  \/ l.fs = s /\ l.node = NullInode
             \/ Shape(l.fs) /\ OnlyInode(l.fs, l.node)
  <1>1. PICK loc : \/ Lookup(s, d, name) = NotFound(s)
                   \/ Lookup(s, d, name) = LookupAt(s, loc)
    BY DEF Lookup, LookupAmong
  <1> QED BY <1>1, LookupAtFacts DEF NotFound

LEMMA FreeChainShape ==
  ASSUME NEW s, Shape(s), NEW c
  PROVE  Shape(FreeChain(s, c)) /\ FreeChain(s, c).inode = s.inode
  <1>1. PICK R : R = Range(Chain(s, c))
    OBVIOUS
  <1>2. PICK f : f = [x \in Clusters |-> IF x \in R THEN FreeMark ELSE s.fat[x]]
    OBVIOUS
  <1>3. IsFat(f)
    BY <1>2 DEF IsFat
  <1>4. FreeChain(s, c) = [s EXCEPT !.fat = f]
    BY <1>1, <1>2 DEF FreeChain, Shape
  <1> QED BY <1>3, <1>4, SetFat

LEMMA DeleteFacts ==
  ASSUME NEW s, Shape(s), NEW n, OnlyInode(s, n)
  PROVE  Shape(Delete(s, n)) /\ PoolEmpty(Delete(s, n))
  <1>1. PICK nd, cut : /\ nd = s.inode[n]
                       /\ cut = [s EXCEPT !.dirs[nd.loc[1]][nd.loc[2]] = NoEntry]
    OBVIOUS
  <1>2. Shape(cut) /\ cut.inode = s.inode
    BY <1>1, WriteEntryShape DEF WriteEntry
  <1>3. PICK u : u = FreeChain(cut, nd.start)
    OBVIOUS
  <1>4. Shape(u) /\ u.inode = s.inode
    BY <1>2, <1>3, FreeChainShape
  <1>5. OnlyInode(u, n)
    BY <1>4 DEF OnlyInode
  <1>6. Delete(s, n) = ReleaseInode(u, n)
    BY <1>1, <1>3 DEF Delete
  <1> QED BY <1>4, <1>5, <1>6, ReleaseOnly

LEMMA RemoveFacts ==
  ASSUME NEW s, Shape(s), PoolEmpty(s), NEW d, NEW name
  PROVE  /\ Shape(FsRemove(s, d, name)) /\ PoolEmpty(FsRemove(s, d, name))
         /\ Shape(RemoveDirectory(s, d, name))
         /\ PoolEmpty(RemoveDirectory(s, d, name))
  <1>1. PICK l, u, n : l = Lookup(s, d, name) /\ u = l.fs /\ n = l.node
    OBVIOUS
  <1>2. /\ FsRemove(s, d, name) = RemoveInode(u, n)
        /\ RemoveDirectory(s, d, name) = RemoveDirInode(u, n)
    BY <1>1 DEF FsRemove, RemoveDirectory
  <1>3. CASE u = s /\ n = NullInode
    BY <1>2, <1>3 DEF RemoveInode, RemoveDirInode
  <1>4. CASE Shape(u) /\ OnlyInode(u, n)
    <2>1. /\ Shape(Delete(u, n)) /\ PoolEmpty(Delete(u, n))
          /\ Shape(ReleaseInode(u, n)) /\ PoolEmpty(ReleaseInode(u, n))
      BY <1>4, DeleteFacts, ReleaseOnly
    <2>2. n # NullInode
      BY <1>4, ClusterNotRoot DEF OnlyInode
    <2>3. /\ RemoveInode(u, n) \in {Delete(u, n), ReleaseInode(u, n)}
          /\ RemoveDirInode(u, n) \in {Delete(u, n), ReleaseInode(u, n)}
      BY <2>2 DEF RemoveInode, RemoveDirInode
    <2> QED BY <1>2, <2>1, <2>3
  <1>5. \/ u = s /\ n = NullInode
        \/ Shape(u) /\ OnlyInode(u, n)
    BY <1>1, LookupFacts
  <1> QED BY <1>3, <1>4, <1>5
-----------------------------------------------------------------------------
(***************************************************************************)
(* append() and its last step, field by field.                             *)
(***************************************************************************)
LEMMA AppendFields ==
  ASSUME NEW s, NEW n, NEW a, NEW z, NEW f, NEW g,
         s = [fat |-> s.fat, dirs |-> s.dirs, inode |-> s.inode]
  PROVE  [s EXCEPT !.fat = f, !.dirs = g, !.inode[n].start = a, !.inode[n].size = z]
           = [fat |-> f, dirs |-> g,
              inode |-> [[s.inode EXCEPT ![n].start = a] EXCEPT ![n].size = z]]
  <1>1. PICK u : u = [s EXCEPT !.fat = f, !.dirs = g]
    OBVIOUS
  <1>2. u = [fat |-> f, dirs |-> g, inode |-> s.inode]
    BY <1>1
  <1>3. PICK v, p : /\ v = [u EXCEPT !.inode[n].start = a]
                    /\ p = [s.inode EXCEPT ![n].start = a]
    OBVIOUS
  <1>4. v = [fat |-> f, dirs |-> g, inode |-> p]
    BY <1>2, <1>3
  <1>5. PICK w : w = [v EXCEPT !.inode[n].size = z]
    OBVIOUS
  <1>6. w = [fat |-> f, dirs |-> g, inode |-> [p EXCEPT ![n].size = z]]
    BY <1>4, <1>5
  <1>7. w = [s EXCEPT !.fat = f, !.dirs = g, !.inode[n].start = a, !.inode[n].size = z]
    BY <1>1, <1>3, <1>5
  <1> QED BY <1>3, <1>6, <1>7

LEMMA UpdateFields ==
  ASSUME NEW s, NEW x, NEW i, NEW a, NEW z,
         s = [fat |-> s.fat, dirs |-> s.dirs, inode |-> s.inode]
  PROVE  [s EXCEPT !.dirs[x][i].size = a, !.dirs[x][i].start = z]
           = [fat |-> s.fat,
              dirs |-> [[s.dirs EXCEPT ![x][i].size = a] EXCEPT ![x][i].start = z],
              inode |-> s.inode]
  <1>1. PICK v, d : /\ v = [s EXCEPT !.dirs[x][i].size = a]
                    /\ d = [s.dirs EXCEPT ![x][i].size = a]
    OBVIOUS
  <1>2. v = [fat |-> s.fat, dirs |-> d, inode |-> s.inode]
    BY <1>1
  <1>3. PICK w : w = [v EXCEPT !.dirs[x][i].start = z]
    OBVIOUS
  <1>4. w = [fat |-> s.fat, dirs |-> [d EXCEPT ![x][i].start = z], inode |-> s.inode]
    BY <1>2, <1>3
  <1>5. w = [s EXCEPT !.dirs[x][i].size = a, !.dirs[x][i].start = z]
    BY <1>1, <1>3
  <1> QED BY <1>1, <1>4, <1>5

(***************************************************************************)
(* They keep the volume's shape and the one inode.                         *)
(***************************************************************************)
LEMMA AppendDataFacts ==
  ASSUME NEW s, Shape(s), NEW n, OnlyInode(s, n), ~ AppendFails(s, n), NEW k
  PROVE  Shape(AppendData(s, n, k)) /\ OnlyInode(AppendData(s, n, k), n)
  <1> DEFINE nd == s.inode[n]
             first == AllocateCluster(s)
             fat1 == IF nd.start # NoCluster THEN s.fat
                     ELSE [s.fat EXCEPT ![first] = EndOfChain]
             start == IF nd.start # NoCluster THEN nd.start ELSE first
             s1 == [s EXCEPT !.fat = fat1]
             tail == Last(Chain(s1, start))
             chunk == Min({k, ClusterSize - (nd.size % ClusterSize)})
             wanted == (k - chunk + ClusterSize - 1) \div ClusterSize
             new == FirstN(FreeClusters(s1), wanted)
             more == Min({k - chunk, Cardinality(new) * ClusterSize})
             link(c) == IF \E x \in new : x > c THEN Min({x \in new : x > c})
                        ELSE EndOfChain
             fat2 == [c \in Clusters |->
                        IF c \in new THEN link(c)
                        ELSE IF c = tail /\ new # {} THEN Min(new) ELSE fat1[c]]
             g == [d \in DOMAIN s.dirs |->
                     IF d \in new \/ (nd.start = NoCluster /\ d = start)
                     THEN Blank(EntriesPerCluster) ELSE s.dirs[d]]
             z == nd.size + chunk + more
             p == [[s.inode EXCEPT ![n].start = start] EXCEPT ![n].size = z]
  <1>1. AppendData(s, n, k)
          = [s EXCEPT !.fat = fat2, !.dirs = g,
                      !.inode[n].start = start, !.inode[n].size = z]
    BY Zenon DEF AppendData
  <1>2. nd.start = NoCluster => start \in Clusters
    BY MinCluster DEF AppendFails
  <1> HIDE DEF nd, first, fat1, start, s1, tail, chunk, wanted, new, more, link, z
  <1>3. IsFat(fat2)
    BY DEF IsFat
  <1>4. new \subseteq Clusters
    BY DEF new, FirstN, FreeClusters
  <1>5. IsDirs(g)
    <2>1. IsDirs(s.dirs) /\ DOMAIN s.dirs = Clusters \cup {Root}
      BY DEF Shape, IsDirs
    <2>2. Root \notin new /\ ~ (nd.start = NoCluster /\ Root = start)
      BY <1>2, <1>4, ClusterNotRoot
    <2>3. g[Root] = s.dirs[Root]
      BY <2>1, <2>2
    <2>4. g = [x \in Clusters \cup {Root} |-> g[x]]
      BY <2>1
    <2> HIDE DEF g
    <2> QED BY <2>1, <2>3, <2>4 DEF IsDirs
  <1> HIDE DEF fat2, g
  <1>6. PICK q : q = [s.inode EXCEPT ![n].start = start]
    OBVIOUS
  <1>7. "ref" \in DOMAIN FreeInode
    BY DEF FreeInode
  <1>8. /\ IsPool(q)
        /\ DOMAIN q[n] = DOMAIN FreeInode /\ q[n].ref = 1
        /\ \A j \in Inodes \ {n} : q[j] = FreeInode
    BY <1>6, <1>7 DEF Shape, IsPool, OnlyInode
  <1>9. p = [q EXCEPT ![n].size = z]
    BY <1>6
  <1> HIDE DEF p
  <1>10. n \in Inodes
    BY DEF OnlyInode
  <1>11. /\ IsPool(p)
         /\ DOMAIN p[n] = DOMAIN FreeInode /\ p[n].ref = 1
         /\ \A j \in Inodes \ {n} : p[j] = FreeInode
    BY <1>7, <1>8, <1>9, <1>10 DEF IsPool
  <1>12. PICK t : t = AppendData(s, n, k)
    OBVIOUS
  <1>13. t = [fat |-> fat2, dirs |-> g, inode |-> p]
    <2>1. s = [fat |-> s.fat, dirs |-> s.dirs, inode |-> s.inode]
      BY DEF Shape
    <2>2. PICK F, G, a, e : F = fat2 /\ G = g /\ a = start /\ e = z
      OBVIOUS
    <2>3. t = [s EXCEPT !.fat = F, !.dirs = G, !.inode[n].start = a, !.inode[n].size = e]
      BY <1>1, <1>12, <2>2
    <2>4. t = [fat |-> F, dirs |-> G,
               inode |-> [[s.inode EXCEPT ![n].start = a] EXCEPT ![n].size = e]]
      BY <2>1, <2>3, AppendFields
    <2>5. p = [[s.inode EXCEPT ![n].start = a] EXCEPT ![n].size = e]
      BY <2>2 DEF p
    <2> QED BY <2>2, <2>4, <2>5
  <1>14. Shape(t) /\ t.inode = p
    BY <1>3, <1>5, <1>11, <1>13 DEF Shape
  <1> QED BY <1>10, <1>11, <1>12, <1>14 DEF OnlyInode

LEMMA UpdateEntryFacts ==
  ASSUME NEW s, Shape(s), NEW n, OnlyInode(s, n)
  PROVE  Shape(UpdateEntry(s, n)) /\ OnlyInode(UpdateEntry(s, n), n)
  <1>1. PICK nd, x, i : nd = s.inode[n] /\ x = nd.loc[1] /\ i = nd.loc[2]
    OBVIOUS
  <1>2. PICK d : d = [[s.dirs EXCEPT ![x][i].size = nd.size]
                        EXCEPT ![x][i].start = nd.start]
    OBVIOUS
  <1>3. IsDirs(d)
    <2>1. IsDirs(s.dirs)
      BY DEF Shape
    <2>2. PICK b : b = [s.dirs EXCEPT ![x][i].size = nd.size]
      OBVIOUS
    <2>3. b = [y \in Clusters \cup {Root} |-> b[y]]
          /\ DOMAIN b[Root] = DOMAIN s.dirs[Root]
      BY <2>1, <2>2 DEF IsDirs
    <2>4. IsDirs(b)
      BY <2>1, <2>3 DEF IsDirs
    <2>5. d = [b EXCEPT ![x][i].start = nd.start]
      BY <1>2, <2>2
    <2>6. d = [y \in Clusters \cup {Root} |-> d[y]]
          /\ DOMAIN d[Root] = DOMAIN b[Root]
      BY <2>4, <2>5 DEF IsDirs
    <2> QED BY <2>4, <2>6 DEF IsDirs
  <1>4. UpdateEntry(s, n)
          = [s EXCEPT !.dirs[x][i].size = nd.size, !.dirs[x][i].start = nd.start]
    BY <1>1, Zenon DEF UpdateEntry
  <1>5. PICK t : t = UpdateEntry(s, n)
    OBVIOUS
  <1>6. t = [fat |-> s.fat, dirs |-> d, inode |-> s.inode]
    BY <1>2, <1>4, <1>5, UpdateFields, ZenonT(30) DEF Shape
  <1>7. Shape(t) /\ t.inode = s.inode
    BY <1>3, <1>6 DEF Shape
  <1> QED BY <1>5, <1>7 DEF OnlyInode
-----------------------------------------------------------------------------
(***************************************************************************)
(* init_root_dir() on a root directory it packed before changes nothing.   *)
(***************************************************************************)
Used(e) == {i \in DOMAIN e : e[i] # NoEntry}

Nth(S, k) == CHOOSE i \in S : Cardinality(Below(S, i)) = k - 1

LEMMA InitRootDirIs ==
  ASSUME NEW e
  PROVE  InitRootDir(e)
           = [k \in 1 .. RootEntries |->
                IF k <= Cardinality(Used(e)) THEN e[Nth(Used(e), k)] ELSE NoEntry]
  BY Zenon DEF InitRootDir, Used, Nth, Below

LEMMA NthIn ==
  ASSUME NEW S, S \subseteq Int, IsFiniteSet(S), NEW k \in 1 .. Cardinality(S)
  PROVE  Nth(S, k) \in S /\ Cardinality(Below(S, Nth(S, k))) = k - 1
  <1>1. Cardinality(S) \in Nat
    BY FS_CardinalityType
  <1>2. PICK r : r = k - 1
    OBVIOUS
  <1>3. r \in 0 .. Cardinality(S) - 1
    BY <1>1, <1>2
  <1>4. \E i \in S : Cardinality(Below(S, i)) = r
    BY <1>3, RankOnto
  <1> QED BY <1>2, <1>4, Zenon DEF Nth

LEMMA NthOfInterval ==
  ASSUME NEW n \in Nat, NEW k \in 1 .. n
  PROVE  Nth(1 .. n, k) = k
  <1>1. PICK S : S = 1 .. n
    OBVIOUS
  <1>2. S \subseteq Int /\ IsFiniteSet(S) /\ Cardinality(S) = n
    <2>1. IsFiniteSet(1 .. n) /\ Cardinality(1 .. n) = IF 1 > n THEN 0 ELSE n - 1 + 1
      BY FS_Interval
    <2> QED BY <1>1, <2>1
  <1>3. k \in S /\ k \in 1 .. Cardinality(S)
    BY <1>1, <1>2
  <1>4. Below(S, k) = 1 .. k - 1
    BY <1>1 DEF Below
  <1>5. Cardinality(Below(S, k)) = k - 1
    <2>1. k - 1 \in Int /\ 1 \in Int
      OBVIOUS
    <2>2. Cardinality(1 .. k - 1) = IF 1 > k - 1 THEN 0 ELSE (k - 1) - 1 + 1
      BY <2>1, FS_Interval
    <2>3. (IF 1 > k - 1 THEN 0 ELSE (k - 1) - 1 + 1) = k - 1
      OBVIOUS
    <2> QED BY <1>4, <2>2, <2>3, Zenon
  <1>6. PICK i : i = Nth(S, k)
    OBVIOUS
  <1>7. i \in S /\ Cardinality(Below(S, i)) = k - 1
    BY <1>2, <1>3, <1>6, NthIn
  <1>8. i = k
    BY <1>2, <1>3, <1>5, <1>7, RankUnique
  <1> QED BY <1>1, <1>6, <1>8

LEMMA PackTwice ==
  ASSUME NEW e, DOMAIN e = 1 .. RootEntries
  PROVE  InitRootDir(InitRootDir(e)) = InitRootDir(e)
  <1>1. PICK S, n, r : S = Used(e) /\ n = Cardinality(S) /\ r = InitRootDir(e)
    OBVIOUS
  <1>2. /\ S \subseteq Int /\ IsFiniteSet(S)
        /\ n \in Nat /\ n <= RootEntries
    <2>1. S \in SUBSET (1 .. RootEntries)
      BY <1>1 DEF Used
    <2>2. IsFiniteSet(1 .. RootEntries) /\ Cardinality(1 .. RootEntries) = RootEntries
      <3>1. /\ IsFiniteSet(1 .. RootEntries)
            /\ Cardinality(1 .. RootEntries)
                 = IF 1 > RootEntries THEN 0 ELSE RootEntries - 1 + 1
        BY FS_Interval
      <3> QED BY <3>1
    <2>3. IsFiniteSet(S) /\ Cardinality(S) <= Cardinality(1 .. RootEntries)
      BY <2>1, <2>2, FS_Subset
    <2>4. Cardinality(S) \in Nat
      BY <2>3, FS_CardinalityType
    <2>5. S \subseteq Int
      BY <2>1
    <2> QED BY <1>1, <2>2, <2>3, <2>4, <2>5
  <1>3. r = [k \in 1 .. RootEntries |->
               IF k <= n THEN e[Nth(S, k)] ELSE NoEntry]
    BY <1>1, InitRootDirIs, Zenon
  <1>4. \A k \in 1 .. n : k \in 1 .. RootEntries /\ r[k] # NoEntry
    <2> SUFFICES ASSUME NEW k \in 1 .. n
                 PROVE  k \in 1 .. RootEntries /\ r[k] # NoEntry
      OBVIOUS
    <2>1. k \in 1 .. RootEntries /\ k <= n
      BY <1>2
    <2>2. Nth(S, k) \in S
      BY <1>1, <1>2, NthIn
    <2>3. e[Nth(S, k)] # NoEntry
      BY <1>1, <2>2 DEF Used
    <2>4. r[k] = e[Nth(S, k)]
      BY <1>3, <2>1
    <2> QED BY <2>1, <2>3, <2>4
  <1>5. Used(r) = 1 .. n
    <2>1. DOMAIN r = 1 .. RootEntries
      BY <1>3
    <2>2. \A k \in 1 .. RootEntries : k \notin 1 .. n => r[k] = NoEntry
      BY <1>2, <1>3
    <2> QED BY <1>4, <2>1, <2>2 DEF Used
  <1>6. Cardinality(1 .. n) = n
    <2>1. Cardinality(1 .. n) = IF 1 > n THEN 0 ELSE n - 1 + 1
      BY <1>2, FS_Interval
    <2> QED BY <1>2, <2>1
  <1>7. InitRootDir(r) = [k \in 1 .. RootEntries |->
                            IF k <= n THEN r[Nth(1 .. n, k)] ELSE NoEntry]
    <2>1. InitRootDir(r)
            = [k \in 1 .. RootEntries |->
                 IF k <= Cardinality(Used(r)) THEN r[Nth(Used(r), k)] ELSE NoEntry]
      BY InitRootDirIs, Zenon
    <2> QED BY <1>5, <1>6, <2>1, Zenon
  <1>8. \A k \in 1 .. RootEntries :
          (IF k <= n THEN r[Nth(1 .. n, k)] ELSE NoEntry) = r[k]
    <2> SUFFICES ASSUME NEW k \in 1 .. RootEntries
                 PROVE  (IF k <= n THEN r[Nth(1 .. n, k)] ELSE NoEntry) = r[k]
      OBVIOUS
    <2>1. CASE k <= n
      <3>1. k \in 1 .. n
        BY <1>2, <2>1
      <3> QED BY <1>2, <2>1, <3>1, NthOfInterval
    <2>2. CASE ~ (k <= n)
      BY <1>3, <2>2
    <2> QED BY <2>1, <2>2
  <1>9. InitRootDir(r) = r
    <2>1. r = [k \in 1 .. RootEntries |-> r[k]]
      BY <1>3
    <2> QED BY <1>7, <1>8, <2>1
  <1> QED BY <1>1, <1>9
(***************************************************************************)
(* read_fat_table() brings back every entry when the FAT fits in the first *)
(* group of sectors.                                                       *)
(***************************************************************************)
FatFits == ClusterCount <= FatRead

LEMMA ReadAll ==
  ASSUME FatFits, NEW f, IsFat(f)
  PROVE  ReadFatTable(f) = f
  <1>1. ASSUME NEW c \in Clusters
        PROVE  /\ c \div FatRead = 0 /\ c % FatRead = c
    BY DEF FatFits, Clusters
  <1>2. FatSectorGroups > 0
    <2>1. PICK a, b : a = ClusterCount + FatWritten - 1 /\ b = FatWritten
      OBVIOUS
    <2>2. a \in Nat /\ b \in Nat \ {0} /\ a >= b
      BY <2>1
    <2>3. a \div b \in Int /\ ~ (a \div b <= 0)
      BY <2>2
    <2> QED BY <2>1, <2>3 DEF FatSectorGroups
  <1>3. ASSUME NEW c \in Clusters
        PROVE  (LET from == (c \div FatRead) * FatWritten + (c % FatRead)
                IN IF c \div FatRead < FatSectorGroups /\ from \in Clusters
                   THEN f[from] ELSE FreeMark) = f[c]
    <2>1. c \div FatRead < FatSectorGroups
      BY <1>1, <1>2
    <2>2. (c \div FatRead) * FatWritten + (c % FatRead) = c
      BY <1>1 DEF Clusters
    <2> QED BY <2>1, <2>2
  <1>4. ReadFatTable(f) = [c \in Clusters |-> f[c]]
    BY <1>3 DEF ReadFatTable
  <1> QED BY <1>4 DEF IsFat

(***************************************************************************)
(* The volume with its root directory packed, and what of it is written.   *)
(***************************************************************************)
Packed(s) == [s EXCEPT !.dirs[Root] = InitRootDir(@)]

Written(s) == [fat |-> s.fat, dirs |-> s.dirs]

LEMMA PackedIs ==
  ASSUME NEW s, Shape(s)
  PROVE  /\ Packed(s) = [fat |-> s.fat, inode |-> s.inode,
                         dirs |-> [s.dirs EXCEPT ![Root] = InitRootDir(s.dirs[Root])]]
         /\ Shape(Packed(s))
         /\ Packed(s).inode = s.inode
         /\ Packed(Packed(s)) = Packed(s)
  <1>1. PICK r, d, p : /\ r = InitRootDir(s.dirs[Root])
                       /\ d = [s.dirs EXCEPT ![Root] = r]
                       /\ p = Packed(s)
    OBVIOUS
  <1>2. p = [fat |-> s.fat, inode |-> s.inode, dirs |-> d]
    BY <1>1 DEF Packed, Shape
  <1>3. DOMAIN r = 1 .. RootEntries
    BY <1>1, InitRootDirIs
  <1>4. IsDirs(d) /\ d[Root] = r
    BY <1>1, <1>3 DEF Shape, IsDirs
  <1>5. Shape(p) /\ p.inode = s.inode
    BY <1>2, <1>4 DEF Shape
  <1>6. InitRootDir(r) = r
    <2>1. DOMAIN s.dirs[Root] = 1 .. RootEntries
      BY DEF Shape, IsDirs
    <2> QED BY <1>1, <2>1, PackTwice
  <1>7. Packed(p) = p
    <2>1. Packed(p) = [p EXCEPT !.dirs[Root] = InitRootDir(p.dirs[Root])]
      BY DEF Packed
    <2>2. InitRootDir(p.dirs[Root]) = r
      BY <1>2, <1>4, <1>6
    <2>3. Packed(p) = [p EXCEPT !.dirs[Root] = r]
      BY <2>1, <2>2, Zenon
    <2>4. [d EXCEPT ![Root] = r] = d
      BY <1>4 DEF IsDirs
    <2> QED BY <1>2, <2>3, <2>4
  <1> QED BY <1>1, <1>2, <1>5, <1>7

LEMMA MountWritten ==
  ASSUME FatFits, NEW s, Shape(s), PoolEmpty(s)
  PROVE  Mount(Written(s)) = Packed(s)
  <1>1. ReadFatTable(s.fat) = s.fat
    BY ReadAll DEF Shape
  <1>2. s.inode = [n \in Inodes |-> FreeInode]
    BY DEF Shape, IsPool, PoolEmpty
  <1>3. PICK r : r = InitRootDir(s.dirs[Root])
    OBVIOUS
  <1>4. Mount(Written(s)) = [fat |-> s.fat, dirs |-> [s.dirs EXCEPT ![Root] = r],
                             inode |-> s.inode]
    BY <1>1, <1>2, <1>3 DEF Mount, Written
  <1>5. Packed(s) = [fat |-> s.fat, inode |-> s.inode,
                     dirs |-> [s.dirs EXCEPT ![Root] = r]]
    BY <1>3, PackedIs
  <1> QED BY <1>4, <1>5

-----------------------------------------------------------------------------
(***************************************************************************)
(* The inductive invariant, while nothing was lost: the volume keeps its   *)
(* shape and its inode pool is empty between calls, and when it is not     *)
(* dirty either the disk has it or the last transfer under way writes it.  *)
(***************************************************************************)
SyncUnderWay ==
  \/ pending = <<Written(vol)>>
  \/ \E m : pending = <<m, Written(vol)>>

DurableInv ==
  ~ lost =>
    /\ Shape(vol) /\ PoolEmpty(vol)
    /\ ~ dirty /\ pending = <<>> => Mount(disk) = Packed(vol)
    /\ ~ dirty /\ pending # <<>> => SyncUnderWay

LEMMA EmptyShape == Shape(EmptyVolume) /\ PoolEmpty(EmptyVolume)
  <1>1. PICK f, d, p :
          /\ f = [c \in Clusters |-> FreeMark]
          /\ d = [x \in Clusters \cup {Root} |->
                    Blank(IF x = Root THEN RootEntries ELSE EntriesPerCluster)]
          /\ p = [n \in Inodes |-> FreeInode]
    OBVIOUS
  <1>2. IsFat(f) /\ IsPool(p)
    BY <1>1 DEF IsFat, IsPool
  <1>3. IsDirs(d)
    <2>1. d = [x \in Clusters \cup {Root} |-> d[x]]
      BY <1>1
    <2>2. d[Root] = Blank(RootEntries)
      BY <1>1
    <2>3. DOMAIN Blank(RootEntries) = 1 .. RootEntries
      BY DEF Blank
    <2> QED BY <2>1, <2>2, <2>3 DEF IsDirs
  <1>4. EmptyVolume = [fat |-> f, dirs |-> d, inode |-> p]
    BY <1>1, Zenon DEF EmptyVolume
  <1> QED BY <1>1, <1>2, <1>3, <1>4 DEF Shape, PoolEmpty

LEMMA InitDurable ==
  ASSUME FatFits, Init
  PROVE  DurableInv
  <1>1. Shape(vol) /\ PoolEmpty(vol)
    BY EmptyShape DEF Init
  <1>2. disk = Written(vol)
    BY DEF Init, Written
  <1>3. Mount(disk) = Packed(vol)
    BY <1>1, <1>2, MountWritten
  <1> QED BY <1>1, <1>3 DEF DurableInv, Init

(***************************************************************************)
(* A call that changes the volume leaves it dirty.                         *)
(***************************************************************************)
LEMMA ChangedDurable ==
  ASSUME NEW s, NEW images, Changed(s, images), Shape(s), PoolEmpty(s)
  PROVE  DurableInv'
  BY DEF Changed, DurableInv

LEMMA NextDurable ==
  ASSUME FatFits, DurableInv, [Next]_vars
  PROVE  DurableInv'
  <1>1. CASE UNCHANGED vars
    BY <1>1 DEF vars, DurableInv, SyncUnderWay
  <1>0. Idle => Shape(vol) /\ PoolEmpty(vol)
    BY DEF Idle, DurableInv
  <1>2. ASSUME NEW d, NEW name, Create(d, name) PROVE DurableInv'
    <2>1. PICK s, images : s = CreateFile(vol, d, name) /\ Changed(s, images)
      BY <1>2 DEF Create
    <2>2. Shape(s) /\ PoolEmpty(s)
      <3>1. Shape(vol) /\ PoolEmpty(vol)
        BY <1>0, <1>2 DEF Create
      <3>2. Shape(s) /\ s.inode = vol.inode
        BY <2>1, <3>1, CreateFileShape
      <3> QED BY <3>1, <3>2 DEF PoolEmpty
    <2> QED BY <2>1, <2>2, ChangedDurable
  <1>3. ASSUME NEW d, NEW name, Mkdir(d, name) PROVE DurableInv'
    <2>1. PICK s, images : s = CreateDirectory(vol, d, name) /\ Changed(s, images)
      BY <1>3 DEF Mkdir
    <2>2. Shape(s) /\ PoolEmpty(s)
      <3>1. Shape(vol) /\ PoolEmpty(vol)
        BY <1>0, <1>3 DEF Mkdir
      <3>2. Shape(s) /\ s.inode = vol.inode
        BY <2>1, <3>1, CreateDirectoryShape
      <3> QED BY <3>1, <3>2 DEF PoolEmpty
    <2> QED BY <2>1, <2>2, ChangedDurable
  <1>4. ASSUME NEW d, NEW name, RemoveFile(d, name) PROVE DurableInv'
    <2>1. PICK s, images : s = FsRemove(vol, d, name) /\ Changed(s, images)
      BY <1>4 DEF RemoveFile
    <2>2. Shape(s) /\ PoolEmpty(s)
      BY <1>0, <1>4, <2>1, RemoveFacts DEF RemoveFile
    <2> QED BY <2>1, <2>2, ChangedDurable
  <1>5. ASSUME NEW d, NEW name, Rmdir(d, name) PROVE DurableInv'
    <2>1. PICK s, images : s = RemoveDirectory(vol, d, name) /\ Changed(s, images)
      BY <1>5 DEF Rmdir
    <2>2. Shape(s) /\ PoolEmpty(s)
      BY <1>0, <1>5, <2>1, RemoveFacts DEF Rmdir
    <2> QED BY <2>1, <2>2, ChangedDurable
  <1>6. ASSUME NEW loc, NEW k, AppendTo(loc, k) PROVE DurableInv'
    <2>1. PICK l, done, images :
            /\ l = LookupAt(vol, loc)
            /\ ~ AppendFails(l.fs, l.node)
            /\ done = UpdateEntry(AppendData(l.fs, l.node, k), l.node)
            /\ Changed(ReleaseInode(done, l.node), images)
      BY <1>6 DEF AppendTo
    <2>2. Shape(vol) /\ PoolEmpty(vol)
      BY <1>0, <1>6 DEF AppendTo
    <2>3. PICK u, n, v : u = l.fs /\ n = l.node /\ v = AppendData(u, n, k)
      OBVIOUS
    <2>4. Shape(u) /\ OnlyInode(u, n)
      BY <2>1, <2>2, <2>3, LookupAtFacts
    <2>5. Shape(v) /\ OnlyInode(v, n)
      BY <2>1, <2>3, <2>4, AppendDataFacts
    <2>6. Shape(done) /\ OnlyInode(done, n)
      BY <2>1, <2>3, <2>5, UpdateEntryFacts
    <2>7. PICK s : s = ReleaseInode(done, n)
      OBVIOUS
    <2>8. Shape(s) /\ PoolEmpty(s)
      BY <2>6, <2>7, ReleaseOnly
    <2> QED BY <2>1, <2>3, <2>7, <2>8, ChangedDurable
  <1>7. CASE SyncAll
    <2>1. PICK m : m = FlushRootDir
      OBVIOUS
    <2>2. /\ pending' = <<m, Written(vol)>> /\ vol' = vol /\ lost' = lost
      BY <1>7, <2>1 DEF SyncAll, FlushAll, Written
    <2>3. SyncUnderWay' /\ pending' # <<>>
      BY <2>2 DEF SyncUnderWay, Written
    <2> QED BY <1>0, <1>7, <2>2, <2>3 DEF DurableInv, SyncAll
  <1>8. CASE Transfer
    <2> SUFFICES ASSUME ~ lost, ~ dirty
                 PROVE  DurableInv'
      BY <1>8 DEF Transfer, DurableInv
    <2>1. /\ Shape(vol) /\ PoolEmpty(vol) /\ SyncUnderWay
          /\ vol' = vol /\ dirty' = dirty /\ lost' = lost
          /\ disk' = Head(pending) /\ pending' = Tail(pending)
      BY <1>8 DEF Transfer, DurableInv
    <2>2. CASE pending = <<Written(vol)>>
      <3>1. disk' = Written(vol) /\ pending' = <<>>
        BY <2>1, <2>2
      <3>2. Mount(Written(vol)) = Packed(vol)
        BY <2>1, MountWritten
      <3>3. Mount(disk') = Packed(vol')
        BY <2>1, <3>1, <3>2
      <3> QED BY <2>1, <3>1, <3>3 DEF DurableInv, Mount
    <2>3. ASSUME NEW m, pending = <<m, Written(vol)>> PROVE DurableInv'
      <3>1. pending' = <<Written(vol)>> /\ pending' # <<>>
        BY <2>1, <2>3
      <3>2. SyncUnderWay'
        BY <2>1, <3>1 DEF SyncUnderWay, Written
      <3> QED BY <2>1, <3>1, <3>2 DEF DurableInv
    <2> QED BY <2>1, <2>2, <2>3 DEF SyncUnderWay
  <1>9. CASE PowerCycle
    <2> SUFFICES ASSUME ~ lost'
                 PROVE  DurableInv'
      BY DEF DurableInv
    <2>1. /\ ~ lost /\ ~ dirty /\ pending = <<>>
          /\ vol' = Mount(disk) /\ disk' = disk /\ pending' = <<>>
      BY <1>9 DEF PowerCycle
    <2>2. Shape(vol) /\ PoolEmpty(vol) /\ Mount(disk) = Packed(vol)
      BY <2>1 DEF DurableInv
    <2>3. PICK s : s = Packed(vol)
      OBVIOUS
    <2>4. Shape(s) /\ s.inode = vol.inode /\ Packed(s) = s
      BY <2>2, <2>3, PackedIs
    <2>5. vol' = s /\ Mount(disk') = s /\ PoolEmpty(s)
      BY <2>1, <2>2, <2>3, <2>4 DEF PoolEmpty, Mount
    <2> QED BY <2>1, <2>4, <2>5 DEF DurableInv
  <1> QED BY <1>1, <1>2, <1>3, <1>4, <1>5, <1>6, <1>7, <1>8, <1>9 DEF Next

(***************************************************************************)
(* A volume that is not dirty is on the disk: mounted again it is what it  *)
(* was, with the gaps of its root directory closed.  For a FAT that        *)
(* read_fat_table takes from one group of sectors, whatever the calls, the *)
(* syncs and the restarts before; MCFatRead shows the volume it reads      *)
(* wrongly when the FAT is larger.                                         *)
(***************************************************************************)
THEOREM CleanVolumeDurable ==
  ASSUME FatFits
  PROVE  Spec => []CleanIsDurable
  <1>1. Init => DurableInv
    BY InitDurable
  <1>2. DurableInv /\ [Next]_vars => DurableInv'
    BY NextDurable
  <1>3. DurableInv => CleanIsDurable
    BY DEF DurableInv, CleanIsDurable, Idle, Packed
  <1> QED BY <1>1, <1>2, <1>3, PTL DEF Spec
=============================================================================
