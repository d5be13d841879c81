-------------------------- MODULE OpenFilesProofs --------------------------
(***************************************************************************)
(* Proofs that the reference count of every open-file node is the number   *)
(* of descriptors that name it (RefcountExact), that no step moves two     *)
(* descriptors unless a process starts or ends (DescriptorsPrivate), and   *)
(* that an inode in the pool belongs to exactly one node, which holds its  *)
(* only reference (InodesExact), that no offset is beyond the end of its   *)
(* file (OffsetInFile), that the tables and the volume keep their types    *)
(* (TypeOK) and that what is open keeps its directory entry (OpenIsLinked, *)
(* and no PANIC in append), for every number of processes, descriptors,    *)
(* nodes, inodes and clusters and paths of any length.  The first two ask  *)
(* nothing of fs, the third nothing of the FAT and the directories.        *)
(***************************************************************************)
EXTENDS OpenFiles, Counting, SequenceTheorems, TLAPS

USE OpenFilesAssumption

(***************************************************************************)
(* A table of open-file nodes and a set of descriptor tables.              *)
(***************************************************************************)
IsNodes(o) ==
  /\ o = [f \in Files |-> o[f]]
  /\ \A f \in Files : /\ o[f] = [node |-> o[f].node, ref |-> o[f].ref]
                      /\ o[f].ref \in Nat

IsFds(T) ==
  /\ T = [p \in Procs |-> T[p]]
  /\ \A p \in Procs :
       /\ T[p] = [i \in Fds |-> T[p][i]]
       /\ \A i \in Fds :
            /\ T[p][i] = [file |-> T[p][i].file, offset |-> T[p][i].offset]
            /\ T[p][i].file \in Files \cup {NoFile}

HoldersIn(T, f) == {h \in Procs \X Fds : T[h[1]][h[2]].file = f}

Counted(o, T) ==
  \A f \in Files : /\ o[f].ref = Cardinality(HoldersIn(T, f))
                   /\ o[f] # NoNode => o[f].ref > 0

(***************************************************************************)
(* The inductive invariant: the counts, and that a PCB that is not in use  *)
(* has no descriptors, which fork relies on when it overwrites its table.  *)
(***************************************************************************)
NoneClosed ==
  /\ proc = [p \in Procs |-> proc[p]]
  /\ \A p \in Procs :
       proc[p] = "none" => \A i \in Fds : fdTable[p][i].file = NoFile

CountInv ==
  /\ IsNodes(openfile) /\ IsFds(fdTable)
  /\ Counted(openfile, fdTable)
  /\ NoneClosed

(***************************************************************************)
(* What a step leaves of the nodes: one that has descriptors before and    *)
(* after it stands for the same inode.                                     *)
(***************************************************************************)
NodesKept ==
  \A f \in Files :
    openfile[f].ref > 0 /\ openfile'[f].ref > 0 => openfile'[f].node = openfile[f].node

-----------------------------------------------------------------------------
LEMMA FileFacts == NoFile \notin Files /\ Closed.file = NoFile /\ NoNode.ref = 0
  BY DEF NoFile, Files, Closed, NoNode

LEMMA HoldersFacts ==
  ASSUME NEW T, NEW f
  PROVE  /\ IsFiniteSet(Procs \X Fds)
         /\ IsFiniteSet(HoldersIn(T, f))
         /\ Cardinality(HoldersIn(T, f)) \in Nat
  <1>1. IsFiniteSet(Fds)
    BY FS_Interval DEF Fds
  <1>2. IsFiniteSet(Procs \X Fds)
    BY <1>1, FS_Product
  <1>3. HoldersIn(T, f) \in SUBSET (Procs \X Fds)
    BY DEF HoldersIn
  <1>4. IsFiniteSet(HoldersIn(T, f))
    BY <1>2, <1>3, FS_Subset
  <1> QED BY <1>2, <1>4, FS_CardinalityType

(***************************************************************************)
(* Two sets of holders with the same pairs are the same set.               *)
(***************************************************************************)
LEMMA SamePairs ==
  ASSUME NEW A, NEW B, A \subseteq Procs \X Fds, B \subseteq Procs \X Fds,
         \A p \in Procs : \A i \in Fds : <<p, i>> \in A <=> <<p, i>> \in B
  PROVE  A = B
  <1>1. ASSUME NEW x \in Procs \X Fds PROVE x \in A <=> x \in B
    <2>1. PICK p \in Procs, i \in Fds : x = <<p, i>>
      OBVIOUS
    <2> QED BY <2>1
  <1> QED BY <1>1

LEMMA SameFiles ==
  ASSUME NEW T, NEW U, NEW o, Counted(o, T),
         \A p \in Procs : \A i \in Fds : T[p][i].file = U[p][i].file
  PROVE  Counted(o, U)
  <1>1. \A f : HoldersIn(T, f) = HoldersIn(U, f)
    BY DEF HoldersIn
  <1> QED BY <1>1 DEF Counted

(***************************************************************************)
(* Descriptor i of p names no file in T and g in U; the others name the    *)
(* same files in both.                                                     *)
(***************************************************************************)
Gains(T, U, p, i, g) ==
  /\ T[p][i].file = NoFile /\ U[p][i].file = g
  /\ \A q \in Procs : \A j \in Fds :
       <<q, j>> # <<p, i>> => T[q][j].file = U[q][j].file

LEMMA OneMoreHolder ==
  ASSUME NEW T, NEW U, NEW p \in Procs, NEW i \in Fds, NEW g \in Files,
         Gains(T, U, p, i, g), NEW f \in Files
  PROVE  /\ f = g => Cardinality(HoldersIn(U, f)) = Cardinality(HoldersIn(T, f)) + 1
         /\ f # g => Cardinality(HoldersIn(U, f)) = Cardinality(HoldersIn(T, f))
  <1>1. PICK A, B, x : A = HoldersIn(T, f) /\ B = HoldersIn(U, f) /\ x = <<p, i>>
    OBVIOUS
  <1>2. A \subseteq Procs \X Fds /\ B \subseteq Procs \X Fds /\ x \in Procs \X Fds
    BY <1>1 DEF HoldersIn
  <1>3. x \notin A /\ (x \in B <=> f = g)
    BY <1>1, FileFacts DEF HoldersIn, Gains
  <1>4. \A q \in Procs : \A j \in Fds :
          <<q, j>> # x => (<<q, j>> \in A <=> <<q, j>> \in B)
    <2> SUFFICES ASSUME NEW q \in Procs, NEW j \in Fds, <<q, j>> # x
                 PROVE  <<q, j>> \in A <=> <<q, j>> \in B
      OBVIOUS
    <2>1. T[q][j].file = U[q][j].file
      BY <1>1 DEF Gains
    <2>2. /\ <<q, j>> \in HoldersIn(T, f) <=> T[q][j].file = f
          /\ <<q, j>> \in HoldersIn(U, f) <=> U[q][j].file = f
      BY DEF HoldersIn
    <2> QED BY <1>1, <2>1, <2>2
  <1>5. IsFiniteSet(A) /\ Cardinality(A) \in Nat
    BY <1>1, HoldersFacts
  <1>6. CASE f = g
    <2>1. PICK C : C = A \cup {x}
      OBVIOUS
    <2>2. C = B
      <3>1. C \subseteq Procs \X Fds
        BY <1>2, <2>1
      <3>2. \A q \in Procs : \A j \in Fds : <<q, j>> \in C <=> <<q, j>> \in B
        BY <1>3, <1>4, <1>6, <2>1
      <3> QED BY <1>2, <3>1, <3>2, SamePairs
    <2>3. Cardinality(A \cup {x}) = Cardinality(A) + 1
      BY <1>3, <1>5, FS_AddElement
    <2> QED BY <1>1, <1>6, <2>1, <2>2, <2>3
  <1>7. CASE f # g
    <2>1. \A q \in Procs : \A j \in Fds : <<q, j>> \in A <=> <<q, j>> \in B
      BY <1>3, <1>4, <1>7
    <2>2. A = B
      BY <1>2, <2>1, SamePairs
    <2> QED BY <1>1, <1>5, <1>7, <2>2
  <1> QED BY <1>6, <1>7

(***************************************************************************)
(* The descriptors of p that name f, and the pairs they make.              *)
(***************************************************************************)
NamedBy(T, p, f) == {i \in Fds : T[p][i].file = f}

LEMMA NamedFacts ==
  ASSUME NEW T, NEW p \in Procs, NEW f
  PROVE  /\ IsFiniteSet(NamedBy(T, p, f))
         /\ Cardinality(NamedBy(T, p, f)) \in Nat
         /\ NamedBy(T, p, f) = {} <=> Cardinality(NamedBy(T, p, f)) = 0
         /\ \A q : /\ IsFiniteSet({q} \X NamedBy(T, p, f))
                   /\ Cardinality({q} \X NamedBy(T, p, f))
                        = Cardinality(NamedBy(T, p, f))
  <1>1. PICK N : N = NamedBy(T, p, f)
    OBVIOUS
  <1>2. IsFiniteSet(Fds)
    BY FS_Interval DEF Fds
  <1>3. N \in SUBSET Fds
    BY <1>1 DEF NamedBy
  <1>4. IsFiniteSet(N)
    BY <1>2, <1>3, FS_Subset
  <1>5. Cardinality(N) \in Nat /\ (Cardinality(N) = 0 <=> N = {})
    BY <1>4, FS_CardinalityType, FS_EmptySet
  <1>6. ASSUME NEW q
        PROVE  IsFiniteSet({q} \X N) /\ Cardinality({q} \X N) = Cardinality(N)
    <2>1. IsFiniteSet({q}) /\ Cardinality({q}) = 1
      BY FS_Singleton
    <2>2. /\ IsFiniteSet({q} \X N)
          /\ Cardinality({q} \X N) = Cardinality({q}) * Cardinality(N)
      BY <1>4, <2>1, FS_Product
    <2> QED BY <1>5, <2>1, <2>2
  <1> QED BY <1>1, <1>4, <1>5, <1>6

(***************************************************************************)
(* q has no files in T; the others have the same in T and in U: fork, and  *)
(* exit read backwards.                                                    *)
(***************************************************************************)
Fills(T, U, q) ==
  /\ \A i \in Fds : T[q][i].file = NoFile
  /\ \A r \in Procs \ {q} : \A i \in Fds : U[r][i].file = T[r][i].file

LEMMA GainedHolders ==
  ASSUME NEW T, NEW U, NEW q \in Procs, NEW f \in Files, Fills(T, U, q)
  PROVE  Cardinality(HoldersIn(U, f))
           = Cardinality(HoldersIn(T, f)) + Cardinality(NamedBy(U, q, f))
  <1>1. PICK A, B, N, C : /\ A = HoldersIn(T, f) /\ B = HoldersIn(U, f)
                          /\ N = NamedBy(U, q, f) /\ C = {q} \X N
    OBVIOUS
  <1>2. /\ A \subseteq Procs \X Fds /\ B \subseteq Procs \X Fds
        /\ C \subseteq Procs \X Fds
    BY <1>1 DEF HoldersIn, NamedBy
  <1>3. ASSUME NEW r \in Procs, NEW i \in Fds
        PROVE  /\ <<r, i>> \in A <=> T[r][i].file = f
               /\ <<r, i>> \in B <=> U[r][i].file = f
               /\ <<r, i>> \in C <=> r = q /\ U[q][i].file = f
    <2>1. /\ <<r, i>> \in HoldersIn(T, f) <=> T[r][i].file = f
          /\ <<r, i>> \in HoldersIn(U, f) <=> U[r][i].file = f
      BY DEF HoldersIn
    <2>2. <<r, i>> \in C <=> r = q /\ U[q][i].file = f
      BY <1>1 DEF NamedBy
    <2> QED BY <1>1, <2>1, <2>2
  <1>4. \A r \in Procs : \A i \in Fds :
          /\ <<r, i>> \in A \cup C <=> <<r, i>> \in B
          /\ ~ (<<r, i>> \in A /\ <<r, i>> \in C)
    <2> SUFFICES ASSUME NEW r \in Procs, NEW i \in Fds
                 PROVE  /\ <<r, i>> \in A \cup C <=> <<r, i>> \in B
                        /\ ~ (<<r, i>> \in A /\ <<r, i>> \in C)
      OBVIOUS
    <2>1. CASE r = q
      BY <1>3, <2>1, FileFacts DEF Fills
    <2>2. CASE r # q
      BY <1>3, <2>2 DEF Fills
    <2> QED BY <2>1, <2>2
  <1>5. PICK D : D = A \cup C
    OBVIOUS
  <1>6. D = B
    <2>1. D \subseteq Procs \X Fds
      BY <1>2, <1>5
    <2>2. \A r \in Procs : \A i \in Fds : <<r, i>> \in D <=> <<r, i>> \in B
      BY <1>4, <1>5
    <2> QED BY <1>2, <2>1, <2>2, SamePairs
  <1>7. A \cap C = {}
    <2>1. PICK E : E = A \cap C
      OBVIOUS
    <2>2. PICK Z : Z = {}
      OBVIOUS
    <2>3. E \subseteq Procs \X Fds /\ Z \subseteq Procs \X Fds
      BY <1>2, <2>1, <2>2
    <2>4. \A r \in Procs : \A i \in Fds : <<r, i>> \in E <=> <<r, i>> \in Z
      BY <1>4, <2>1, <2>2
    <2>5. E = Z
      BY <2>3, <2>4, SamePairs
    <2> QED BY <2>1, <2>2, <2>5
  <1>8. /\ IsFiniteSet(A) /\ Cardinality(A) \in Nat
        /\ IsFiniteSet(C) /\ Cardinality(C) = Cardinality(N) /\ Cardinality(N) \in Nat
    <2>1. IsFiniteSet(A) /\ Cardinality(A) \in Nat
      BY <1>1, HoldersFacts
    <2>2. /\ IsFiniteSet({q} \X NamedBy(U, q, f))
          /\ Cardinality({q} \X NamedBy(U, q, f)) = Cardinality(NamedBy(U, q, f))
          /\ Cardinality(NamedBy(U, q, f)) \in Nat
      BY NamedFacts
    <2> QED BY <1>1, <2>1, <2>2
  <1>9. Cardinality(A \cup C)
          = Cardinality(A) + Cardinality(C) - Cardinality(A \cap C)
    BY <1>8, FS_Union
  <1>10. Cardinality(A \cap C) = 0
    BY <1>7, FS_EmptySet
  <1>11. Cardinality(B) = Cardinality(A) + Cardinality(N)
    <2>1. Cardinality(B) = Cardinality(A \cup C)
      BY <1>5, <1>6
    <2> QED BY <1>8, <1>9, <1>10, <2>1
  <1> QED BY <1>1, <1>11

-----------------------------------------------------------------------------
(***************************************************************************)
(* lookup(path) either changes no node and finds one that is in use, or    *)
(* none, or it puts a node without references into a free slot.            *)
(***************************************************************************)
Found(o, l) ==
  /\ l.t.openfile = o
  /\ l.file \in Files \cup {NoFile}
  /\ l.file # NoFile => o[l.file] # NoNode

Placed(o, l) ==
  /\ l.file \in Files
  /\ o[l.file] = NoNode
  /\ \E n : l.t.openfile = [o EXCEPT ![l.file] = [node |-> n, ref |-> 0]]

IsTables(t) == t = [fs |-> t.fs, openfile |-> t.openfile]

LEMMA LookupPathFacts ==
  ASSUME NEW t, IsTables(t), NEW path
  PROVE  LET l == LookupPath(t, path)
         IN  IsTables(l.t) /\ (Found(t.openfile, l) \/ Placed(t.openfile, l))
  <1>1. PICK w : LookupPath(t, path) = LookupEnd(t, w)
    BY DEF LookupPath
  <1>2. PICK l : l = LookupPath(t, path)
    OBVIOUS
  <1>3. CASE w.lost
    <2>1. l = [t |-> [t EXCEPT !.fs = w.fs], file |-> NoFile]
      BY <1>1, <1>2, <1>3 DEF LookupEnd
    <2>2. IsTables(l.t) /\ Found(t.openfile, l)
      BY <2>1 DEF IsTables, Found
    <2> QED BY <1>2, <2>2
  <1>4. CASE ~ w.lost
    <2>1. PICK s, n, same, free : /\ s = w.fs /\ n = w.node
                                  /\ same = FilesOf(t, n) /\ free = FreeFiles(t)
      OBVIOUS
    <2>2. l = FileFor(t, s, n, same)
      BY <1>1, <1>2, <1>4, <2>1 DEF LookupEnd
    <2>3. /\ free \in SUBSET (0 .. MaxOpenFiles)
          /\ same \in SUBSET (0 .. MaxOpenFiles)
          /\ MaxOpenFiles \in Nat
          /\ \A f \in free : f \in Files /\ t.openfile[f] = NoNode
          /\ \A f \in same : f \in Files /\ t.openfile[f] # NoNode
      BY <2>1 DEF FilesOf, FreeFiles, Files
    <2>4. CASE same = {} /\ free # {}
      <3>1. PICK f : f = Min(free)
        OBVIOUS
      <3>2. f \in free
        BY <2>3, <2>4, <3>1, MinIn
      <3>3. PICK o : o = [t.openfile EXCEPT ![f] = [node |-> n, ref |-> 0]]
        OBVIOUS
      <3>4. l = [t |-> [fs |-> s, openfile |-> o], file |-> f]
        BY <2>1, <2>2, <2>4, <3>1, <3>3 DEF FileFor
      <3>5. IsTables(l.t) /\ l.file = f /\ l.t.openfile = o
        BY <3>4 DEF IsTables
      <3>6. Placed(t.openfile, l)
        BY <2>3, <3>2, <3>3, <3>5 DEF Placed
      <3> QED BY <1>2, <3>5, <3>6
    <2>5. CASE ~ (same = {} /\ free # {})
      <3>1. PICK u, f : u = ReleaseInode(s, n)
                        /\ f = (IF same = {} THEN NoFile ELSE Min(same))
        OBVIOUS
      <3>2. l = [t |-> [t EXCEPT !.fs = u], file |-> f]
        BY <2>1, <2>2, <2>5, <3>1 DEF FileFor
      <3>3. same # {} => Min(same) \in same
        BY <2>3, MinIn
      <3>4. f \in Files \cup {NoFile} /\ (f # NoFile => t.openfile[f] # NoNode)
        BY <2>3, <3>1, <3>3
      <3>5. IsTables(l.t) /\ l.file = f /\ l.t.openfile = t.openfile
        BY <3>2 DEF IsTables
      <3> QED BY <1>2, <3>4, <3>5 DEF Found
    <2> QED BY <2>4, <2>5
  <1> QED BY <1>3, <1>4

(***************************************************************************)
(* release_lookup_openfile() after it: the nodes are what they were.       *)
(***************************************************************************)
LEMMA ReleaseLookupFacts ==
  ASSUME NEW o, IsNodes(o), \A f \in Files : o[f] # NoNode => o[f].ref > 0,
         NEW l, Found(o, l) \/ Placed(o, l),
         NEW x, x.openfile = l.t.openfile
  PROVE  ReleaseLookup(x, l.file).openfile = o
  <1>1. CASE Found(o, l)
    <2>1. x.openfile = o
      BY <1>1 DEF Found
    <2>2. l.file # NoFile => x.openfile[l.file].ref > 0
      BY <1>1, <2>1 DEF Found
    <2> QED BY <2>1, <2>2 DEF ReleaseLookup, Settle
  <1>2. CASE Placed(o, l)
    <2>1. PICK n : l.t.openfile = [o EXCEPT ![l.file] = [node |-> n, ref |-> 0]]
      BY <1>2 DEF Placed
    <2>2. PICK f, e, y : f = l.file /\ e = [node |-> n, ref |-> 0] /\ y = x.openfile
      OBVIOUS
    <2>3. /\ f \in Files /\ f # NoFile /\ o[f] = NoNode
          /\ y = [o EXCEPT ![f] = e]
          /\ o = [g \in Files |-> o[g]]
      BY <1>2, <2>1, <2>2, FileFacts DEF Placed, IsNodes
    <2>4. y[f] = e
      BY <2>3
    <2>5. ~ (y[f].ref > 0)
      BY <2>2, <2>4
    <2>6. ReleaseLookup(x, f).openfile = [y EXCEPT ![f] = NoNode]
      BY <2>2, <2>3, <2>5 DEF ReleaseLookup, Settle
    <2>7. [y EXCEPT ![f] = NoNode] = o
      BY <2>3
    <2> QED BY <2>2, <2>6, <2>7
  <1> QED BY <1>1, <1>2

(***************************************************************************)
(* The calls that work on the directory a path leads to.                   *)
(***************************************************************************)
LEMMA InParentFacts ==
  ASSUME CountInv, NEW call, NEW path
  PROVE  InParent(call, path).openfile = openfile
  <1>1. PICK t : t = Tables
    OBVIOUS
  <1>2. IsTables(t) /\ t.openfile = openfile
    BY <1>1 DEF Tables, IsTables
  <1>3. IsNodes(openfile) /\ \A f \in Files : openfile[f] # NoNode => openfile[f].ref > 0
    BY DEF CountInv, Counted
  <1>4. CASE Len(path) = 1
    <2>1. PICK s : InParent(call, path) = [t EXCEPT !.fs = s]
      BY <1>1, <1>4 DEF InParent
    <2> QED BY <1>2, <2>1 DEF IsTables
  <1>5. CASE Len(path) # 1
    <2>1. PICK l, name : /\ l = LookupPath(t, Front(path)) /\ name = Last(path)
      OBVIOUS
    <2>2. InParent(call, path) = AtParent(call, l, name)
      BY <1>1, <1>5, <2>1 DEF InParent
    <2>3. IsTables(l.t) /\ (Found(openfile, l) \/ Placed(openfile, l))
      BY <1>2, <2>1, LookupPathFacts
    <2>4. CASE l.file = NoFile
      <3>1. l.t.openfile = openfile
        BY <2>3, <2>4, FileFacts DEF Found, Placed
      <3> QED BY <2>2, <2>4, <3>1 DEF AtParent
    <2>5. CASE l.file # NoFile
      <3>1. PICK x : /\ x.openfile = l.t.openfile
                     /\ AtParent(call, l, name) = ReleaseLookup(x, l.file)
        <4>1. PICK n, s : /\ n = l.t.openfile[l.file].node
                          /\ s = FsCall(call, l.t.fs, DirCluster(l.t.fs, n), name)
          OBVIOUS
        <4>2. AtParent(call, l, name)
                = ReleaseLookup(IF l.t.fs.inode[n].dir THEN [l.t EXCEPT !.fs = s]
                                ELSE l.t, l.file)
          BY <2>5, <4>1 DEF AtParent
        <4>3. [l.t EXCEPT !.fs = s].openfile = l.t.openfile
          BY <2>3 DEF IsTables
        <4> QED BY <4>2, <4>3
      <3> QED BY <1>3, <2>2, <2>3, <3>1, ReleaseLookupFacts
    <2> QED BY <2>4, <2>5
  <1> QED BY <1>4, <1>5
-----------------------------------------------------------------------------
(***************************************************************************)
(* U is T with e for descriptor i of p.                                    *)
(***************************************************************************)
FdIs(T, U, p, i, e) ==
  /\ U = [q \in Procs |-> U[q]]
  /\ \A q \in Procs : U[q] = [j \in Fds |-> U[q][j]]
  /\ U[p][i] = e
  /\ \A q \in Procs : \A j \in Fds : <<q, j>> # <<p, i>> => U[q][j] = T[q][j]

LEMMA FdExcept ==
  ASSUME NEW T, IsFds(T), NEW p \in Procs, NEW i \in Fds, NEW e
  PROVE  FdIs(T, [T EXCEPT ![p] = [T[p] EXCEPT ![i] = e]], p, i, e)
  <1>1. PICK r : r = [T[p] EXCEPT ![i] = e]
    OBVIOUS
  <1>2. PICK U : U = [T EXCEPT ![p] = r]
    OBVIOUS
  <1>3. /\ r = [j \in Fds |-> r[j]] /\ r[i] = e
        /\ \A j \in Fds : j # i => r[j] = T[p][j]
    BY <1>1 DEF IsFds
  <1>4. /\ U = [q \in Procs |-> U[q]] /\ U[p] = r
        /\ \A q \in Procs : q # p => U[q] = T[q]
    BY <1>2 DEF IsFds
  <1>5. ASSUME NEW q \in Procs, NEW j \in Fds, <<q, j>> # <<p, i>>
        PROVE  U[q][j] = T[q][j]
    <2>1. CASE q = p
      BY <1>3, <1>4, <1>5, <2>1
    <2>2. CASE q # p
      BY <1>4, <2>2
    <2> QED BY <2>1, <2>2
  <1>6. ASSUME NEW q \in Procs PROVE U[q] = [j \in Fds |-> U[q][j]]
    <2>1. CASE q = p
      BY <1>3, <1>4, <2>1
    <2>2. CASE q # p
      BY <1>4, <2>2 DEF IsFds
    <2> QED BY <2>1, <2>2
  <1>7. FdIs(T, U, p, i, e)
    BY <1>3, <1>4, <1>5, <1>6 DEF FdIs
  <1> QED BY <1>1, <1>2, <1>7

LEMMA FdSet ==
  ASSUME NEW T, IsFds(T), NEW p \in Procs, NEW i \in Fds, NEW e,
         e = [file |-> e.file, offset |-> e.offset], e.file \in Files \cup {NoFile},
         NEW U, FdIs(T, U, p, i, e)
  PROVE  IsFds(U)
  <1>1. ASSUME NEW q \in Procs, NEW j \in Fds
        PROVE  /\ U[q][j] = [file |-> U[q][j].file, offset |-> U[q][j].offset]
               /\ U[q][j].file \in Files \cup {NoFile}
    <2>1. CASE q = p /\ j = i
      BY <2>1 DEF FdIs
    <2>2. CASE ~ (q = p /\ j = i)
      <3>1. U[q][j] = T[q][j]
        BY <2>2 DEF FdIs
      <3>2. /\ T[q][j] = [file |-> T[q][j].file, offset |-> T[q][j].offset]
            /\ T[q][j].file \in Files \cup {NoFile}
        BY DEF IsFds
      <3> QED BY <3>1, <3>2
    <2> QED BY <2>1, <2>2
  <1> QED BY <1>1 DEF IsFds, FdIs

(***************************************************************************)
(* n is the table o with e for node f.                                     *)
(***************************************************************************)
NodeIs(o, n, f, e) ==
  IsNodes(n) /\ n[f] = e /\ \A g \in Files : g # f => n[g] = o[g]

LEMMA NodeSet ==
  ASSUME NEW o, IsNodes(o), NEW f \in Files, NEW e,
         e = [node |-> e.node, ref |-> e.ref], e.ref \in Nat
  PROVE  NodeIs(o, [o EXCEPT ![f] = e], f, e)
  BY DEF IsNodes, NodeIs

(***************************************************************************)
(* A new offset leaves the files of the descriptors as they are, wherever  *)
(* it is put.                                                              *)
(***************************************************************************)
FilesKept(T, U) ==
  IsFds(U) /\ \A q \in Procs : \A j \in Fds : U[q][j].file = T[q][j].file

LEMMA OffsetMoved ==
  ASSUME NEW T, IsFds(T), NEW p \in Procs, NEW i, NEW v
  PROVE  FilesKept(T, [T EXCEPT ![p][i].offset = v])
  <1>1. PICK e : e = [T[p][i] EXCEPT !.offset = v]
    OBVIOUS
  <1>2. PICK U : U = [T EXCEPT ![p] = [T[p] EXCEPT ![i] = e]]
    OBVIOUS
  <1>3. U = [T EXCEPT ![p][i].offset = v]
    BY <1>1, <1>2
  <1>4. CASE i \in Fds
    <2>1. /\ T[p][i] = [file |-> T[p][i].file, offset |-> T[p][i].offset]
          /\ T[p][i].file \in Files \cup {NoFile}
      BY <1>4 DEF IsFds
    <2>2. /\ e = [file |-> e.file, offset |-> e.offset] /\ e.file = T[p][i].file
          /\ e.file \in Files \cup {NoFile}
      BY <1>1, <2>1
    <2>3. FdIs(T, U, p, i, e)
      BY <1>2, <1>4, FdExcept
    <2>4. IsFds(U)
      BY <1>4, <2>2, <2>3, FdSet
    <2>5. ASSUME NEW q \in Procs, NEW j \in Fds PROVE U[q][j].file = T[q][j].file
      <3>1. CASE q = p /\ j = i
        BY <2>2, <2>3, <3>1 DEF FdIs
      <3>2. CASE ~ (q = p /\ j = i)
        BY <2>3, <3>2 DEF FdIs
      <3> QED BY <3>1, <3>2
    <2> QED BY <1>3, <2>4, <2>5 DEF FilesKept
  <1>5. CASE i \notin Fds
    <2>1. [T[p] EXCEPT ![i] = e] = T[p]
      BY <1>5 DEF IsFds
    <2>2. U = T
      BY <1>2, <2>1 DEF IsFds
    <2> QED BY <1>3, <2>2 DEF FilesKept
  <1> QED BY <1>4, <1>5
-----------------------------------------------------------------------------
(***************************************************************************)
(* The steps.  Those that leave the nodes, the processes and the files of  *)
(* the descriptors alone keep the invariant.                               *)
(***************************************************************************)
LEMMA CountInit == Init => CountInv
  <1> SUFFICES ASSUME Init PROVE CountInv
    OBVIOUS
  <1>1. IsNodes(openfile) /\ \A f \in Files : openfile[f] = NoNode
    BY DEF Init, IsNodes, NoNode
  <1>2. \A p \in Procs : \A i \in Fds : fdTable[p][i] = Closed
    BY DEF Init
  <1>3. IsFds(fdTable)
    BY DEF Init, IsFds, Closed
  <1>4. NoneClosed
    BY <1>2, FileFacts DEF Init, NoneClosed
  <1>5. ASSUME NEW f \in Files PROVE Cardinality(HoldersIn(fdTable, f)) = 0
    <2>1. \A p \in Procs : \A i \in Fds : fdTable[p][i].file # f
      BY <1>2, FileFacts
    <2>2. HoldersIn(fdTable, f) = {}
      BY <2>1 DEF HoldersIn
    <2> QED BY <2>2, FS_EmptySet
  <1>6. Counted(openfile, fdTable)
    BY <1>1, <1>5, FileFacts DEF Counted
  <1> QED BY <1>1, <1>3, <1>4, <1>6 DEF CountInv

LEMMA CountSame ==
  ASSUME CountInv, openfile' = openfile, IsFds(fdTable'),
         \A p \in Procs : \A i \in Fds : fdTable'[p][i].file = fdTable[p][i].file,
         \/ proc' = proc
         \/ \E p \in Procs : \E s : s # "none" /\ proc' = [proc EXCEPT ![p] = s]
  PROVE  CountInv'
  <1>1. Counted(openfile', fdTable')
    <2>1. Counted(openfile', fdTable)
      BY DEF CountInv
    <2> QED BY <2>1, SameFiles
  <1>2. IsNodes(openfile')
    BY DEF CountInv
  <1>3. NoneClosed'
    <2>1. CASE proc' = proc
      BY <2>1 DEF CountInv, NoneClosed
    <2>2. CASE \E p \in Procs : \E s : s # "none" /\ proc' = [proc EXCEPT ![p] = s]
      <3>1. PICK p \in Procs : \E s : s # "none" /\ proc' = [proc EXCEPT ![p] = s]
        BY <2>2
      <3>2. /\ proc' = [q \in Procs |-> proc'[q]]
            /\ \A q \in Procs : proc'[q] = "none" => proc[q] = "none"
        BY <3>1 DEF CountInv, NoneClosed
      <3> QED BY <3>2 DEF CountInv, NoneClosed
    <2> QED BY <2>1, <2>2
  <1> QED BY <1>1, <1>2, <1>3 DEF CountInv

LEMMA CountOffset ==
  ASSUME CountInv, NEW p \in Procs, NEW i, NEW v,
         fdTable' = [fdTable EXCEPT ![p][i].offset = v],
         openfile' = openfile, proc' = proc
  PROVE  CountInv'
  <1>1. PICK T : T = fdTable
    OBVIOUS
  <1>2. PICK U : U = [T EXCEPT ![p][i].offset = v]
    OBVIOUS
  <1>3. IsFds(T)
    BY <1>1 DEF CountInv
  <1>4. FilesKept(T, U)
    BY <1>2, <1>3, OffsetMoved
  <1>5. fdTable' = U
    BY <1>1, <1>2
  <1>6. IsFds(fdTable')
        /\ \A q \in Procs : \A j \in Fds : fdTable'[q][j].file = fdTable[q][j].file
    <2>1. FilesKept(fdTable, fdTable')
      BY <1>1, <1>4, <1>5
    <2> QED BY <2>1, Zenon DEF FilesKept
  <1> QED BY <1>6, CountSame

LEMMA CountAdvance ==
  ASSUME CountInv, NEW p \in Procs, Advance(p)
  PROVE  CountInv'
  <1>1. PICK i, v : /\ i = moved[p][1] /\ v = fdTable[p][i].offset + moved[p][2]
    OBVIOUS
  <1>2. fdTable' = [fdTable EXCEPT ![p][i].offset = v]
    BY <1>1 DEF Advance
  <1>3. openfile' = openfile /\ proc' = proc
    BY DEF Advance
  <1> QED BY <1>2, <1>3, CountOffset

LEMMA CountFseek ==
  ASSUME CountInv, NEW p \in Procs, NEW i \in Fds, NEW offset, Fseek(p, i, offset)
  PROVE  CountInv'
  BY CountOffset DEF Fseek

LEMMA CountAppendTo ==
  ASSUME CountInv, NEW p \in Procs, NEW i \in Fds, NEW k, AppendTo(p, i, k)
  PROVE  CountInv'
  <1>1. openfile' = openfile /\ proc' = proc
    BY DEF AppendTo
  <1>2. CASE UNCHANGED fdTable
    BY <1>1, <1>2, CountSame DEF CountInv
  <1>3. CASE \E v : fdTable' = [fdTable EXCEPT ![p][i].offset = v]
    BY <1>1, <1>3, CountOffset
  <1> QED BY <1>2, <1>3 DEF AppendTo

LEMMA CountUntouched ==
  ASSUME CountInv, UNCHANGED <<openfile, fdTable, proc>>
  PROVE  CountInv'
  BY CountSame DEF CountInv

LEMMA CountExecveFails ==
  ASSUME CountInv, NEW p \in Procs, ExecveFails(p)
  PROVE  CountInv'
  BY CountSame DEF CountInv, ExecveFails

LEMMA CountAtParent ==
  ASSUME CountInv, NEW p \in Procs, NEW path,
         \/ Create(p, path) \/ RemoveFile(p, path)
         \/ Rmdir(p, path) \/ Mkdir(p, path)
  PROVE  CountInv' /\ openfile' = openfile
  BY InParentFacts, CountUntouched DEF Create, RemoveFile, Rmdir, Mkdir, Become
(***************************************************************************)
(* chdir() and ls(), and an open() that fails.                             *)
(***************************************************************************)
LEMMA CountReleaseLookup ==
  ASSUME CountInv, NEW path,
         openfile' = ReleaseLookup(LookupPath(Tables, path).t,
                                   LookupPath(Tables, path).file).openfile,
         UNCHANGED <<fdTable, proc>>
  PROVE  CountInv' /\ openfile' = openfile
  <1>1. PICK t, l : t = Tables /\ l = LookupPath(t, path)
    OBVIOUS
  <1>2. IsTables(t) /\ t.openfile = openfile
    BY <1>1 DEF Tables, IsTables
  <1>3. IsNodes(openfile) /\ \A f \in Files : openfile[f] # NoNode => openfile[f].ref > 0
    BY DEF CountInv, Counted
  <1>4. Found(openfile, l) \/ Placed(openfile, l)
    BY <1>1, <1>2, LookupPathFacts
  <1>5. ReleaseLookup(l.t, l.file).openfile = openfile
    BY <1>3, <1>4, ReleaseLookupFacts
  <1> QED BY <1>1, <1>5, CountUntouched

LEMMA CountVisit ==
  ASSUME CountInv, NEW p \in Procs, NEW path, Visit(p, path)
  PROVE  CountInv' /\ openfile' = openfile
  BY CountReleaseLookup DEF Visit, Become

(***************************************************************************)
(* A descriptor more, or less, and a reference more, or less.              *)
(***************************************************************************)
LEMMA CountedMore ==
  ASSUME NEW o, NEW n, IsNodes(o), NEW T, NEW U, Counted(o, T),
         NEW f \in Files, NEW p \in Procs, NEW i \in Fds, Gains(T, U, p, i, f),
         n[f].ref = o[f].ref + 1, \A g \in Files : g # f => n[g] = o[g]
  PROVE  Counted(n, U)
  <1>1. ASSUME NEW g \in Files
        PROVE  /\ n[g].ref = Cardinality(HoldersIn(U, g))
               /\ n[g] # NoNode => n[g].ref > 0
    <2>1. /\ o[g].ref = Cardinality(HoldersIn(T, g)) /\ o[g].ref \in Nat
          /\ o[g] # NoNode => o[g].ref > 0
      BY DEF Counted, IsNodes
    <2>2. /\ g = f => Cardinality(HoldersIn(U, g)) = Cardinality(HoldersIn(T, g)) + 1
          /\ g # f => Cardinality(HoldersIn(U, g)) = Cardinality(HoldersIn(T, g))
      BY OneMoreHolder
    <2> QED BY <2>1, <2>2
  <1> QED BY <1>1 DEF Counted

LEMMA CountedLess ==
  ASSUME NEW o, NEW n, IsNodes(o), NEW T, NEW U, Counted(o, T),
         NEW f \in Files, NEW p \in Procs, NEW i \in Fds, Gains(U, T, p, i, f),
         IF o[f].ref - 1 > 0 THEN n[f].ref = o[f].ref - 1 ELSE n[f] = NoNode,
         \A g \in Files : g # f => n[g] = o[g]
  PROVE  Counted(n, U)
  <1>1. ASSUME NEW g \in Files
        PROVE  /\ n[g].ref = Cardinality(HoldersIn(U, g))
               /\ n[g] # NoNode => n[g].ref > 0
    <2>1. /\ o[g].ref = Cardinality(HoldersIn(T, g)) /\ o[g].ref \in Nat
          /\ o[g] # NoNode => o[g].ref > 0
          /\ Cardinality(HoldersIn(U, g)) \in Nat
      BY HoldersFacts DEF Counted, IsNodes
    <2>2. /\ g = f => Cardinality(HoldersIn(T, g)) = Cardinality(HoldersIn(U, g)) + 1
          /\ g # f => Cardinality(HoldersIn(T, g)) = Cardinality(HoldersIn(U, g))
      BY OneMoreHolder
    <2> QED BY <2>1, <2>2, FileFacts
  <1> QED BY <1>1 DEF Counted
(***************************************************************************)
(* open(): the node lookup returns, found or placed, and the first free    *)
(* descriptor.                                                             *)
(***************************************************************************)
LEMMA LookupNodes ==
  ASSUME NEW o, IsNodes(o), NEW l, Found(o, l) \/ Placed(o, l), l.file # NoFile
  PROVE  /\ l.file \in Files /\ IsNodes(l.t.openfile)
         /\ l.t.openfile[l.file].ref = o[l.file].ref
         /\ o[l.file] # NoNode => l.t.openfile[l.file] = o[l.file]
         /\ \A g \in Files : g # l.file => l.t.openfile[g] = o[g]
  <1>1. CASE Found(o, l)
    BY <1>1 DEF Found
  <1>2. CASE Placed(o, l)
    <2>1. PICK n : l.t.openfile = [o EXCEPT ![l.file] = [node |-> n, ref |-> 0]]
      BY <1>2 DEF Placed
    <2>2. PICK f, e, x : f = l.file /\ e = [node |-> n, ref |-> 0] /\ x = l.t.openfile
      OBVIOUS
    <2>3. f \in Files /\ o[f] = NoNode /\ x = [o EXCEPT ![f] = e]
      BY <1>2, <2>1, <2>2 DEF Placed
    <2>4. e = [node |-> e.node, ref |-> e.ref] /\ e.ref \in Nat /\ e.ref = 0
      BY <2>2
    <2>5. NodeIs(o, x, f, e)
      BY <2>3, <2>4, NodeSet
    <2>6. x[f].ref = o[f].ref
      BY <2>3, <2>4, <2>5, FileFacts DEF NodeIs
    <2> QED BY <2>2, <2>3, <2>5, <2>6 DEF NodeIs
  <1> QED BY <1>1, <1>2

LEMMA CountOpen ==
  ASSUME CountInv, NEW p \in Procs, NEW path, Open(p, path)
  PROVE  CountInv' /\ NodesKept
  <1>1. PICK t, l, free : /\ t = Tables /\ l = LookupPath(t, path)
                          /\ free = {i \in Fds : fdTable[p][i] = Closed}
    OBVIOUS
  <1>2. IsTables(t) /\ t.openfile = openfile
    BY <1>1 DEF Tables, IsTables
  <1>3. IsNodes(openfile) /\ IsFds(fdTable)
    BY DEF CountInv
  <1>4. IsTables(l.t) /\ (Found(openfile, l) \/ Placed(openfile, l))
    BY <1>1, <1>2, LookupPathFacts
  <1>5. proc' = proc /\ proc[p] = "alive"
    BY DEF Open, Ready
  <1>6. CASE l.file # NoFile /\ free # {}
    <2>1. PICK f, i, x, y : /\ f = l.file /\ i = Min(free) /\ x = l.t.openfile
                            /\ y = [x EXCEPT ![f].ref = @ + 1]
      OBVIOUS
    <2>2. /\ openfile' = [l.t EXCEPT !.openfile[f].ref = @ + 1].openfile
          /\ fdTable' = [fdTable EXCEPT ![p][i] = [file |-> f, offset |-> 0]]
      BY <1>1, <1>6, <2>1 DEF Open, Become
    <2>3. openfile' = y
      BY <1>4, <2>1, <2>2 DEF IsTables
    <2>4. /\ f \in Files /\ IsNodes(x) /\ x[f].ref = openfile[f].ref
          /\ openfile[f] # NoNode => x[f] = openfile[f]
          /\ \A g \in Files : g # f => x[g] = openfile[g]
      BY <1>3, <1>4, <1>6, <2>1, LookupNodes
    <2>5. PICK e : e = [node |-> x[f].node, ref |-> x[f].ref + 1]
      OBVIOUS
    <2>6. /\ x[f] = [node |-> x[f].node, ref |-> x[f].ref] /\ x[f].ref \in Nat
          /\ x = [g \in Files |-> x[g]]
      BY <2>4 DEF IsNodes
    <2>7. /\ e = [node |-> e.node, ref |-> e.ref] /\ e.ref \in Nat
          /\ e.ref = x[f].ref + 1
      BY <2>5, <2>6
    <2>8. NodeIs(x, y, f, e)
      <3>1. [x[f] EXCEPT !.ref = @ + 1] = e
        BY <2>5, <2>6, SMTT(30)
      <3>2. y = [x EXCEPT ![f] = e]
        BY <2>1, <3>1
      <3> QED BY <2>4, <2>7, <3>2, NodeSet
    <2>9. i \in Fds /\ fdTable[p][i] = Closed
      <3>1. free \in SUBSET (0 .. MaxFd) /\ MaxFd \in Nat
        BY <1>1 DEF Fds
      <3>2. i \in free
        BY <1>6, <2>1, <3>1, MinIn
      <3> QED BY <1>1, <3>2
    <2>10. PICK T, d : T = fdTable /\ d = [file |-> f, offset |-> 0]
      OBVIOUS
    <2>11. d = [file |-> d.file, offset |-> d.offset] /\ d.file = f
           /\ d.file \in Files \cup {NoFile}
      BY <2>4, <2>10
    <2>12. PICK U : U = [T EXCEPT ![p] = [T[p] EXCEPT ![i] = d]]
      OBVIOUS
    <2>13. FdIs(T, U, p, i, d)
      BY <1>3, <2>9, <2>10, <2>12, FdExcept
    <2>14. fdTable' = U
      BY <2>2, <2>10, <2>12
    <2>15. IsFds(U)
      BY <1>3, <2>9, <2>10, <2>11, <2>13, FdSet
    <2>16. Gains(T, U, p, i, f)
      <3>1. T[p][i].file = NoFile
        BY <2>9, <2>10, FileFacts
      <3>2. U[p][i].file = f
        BY <2>11, <2>13 DEF FdIs
      <3>3. ASSUME NEW q \in Procs, NEW j \in Fds, <<q, j>> # <<p, i>>
            PROVE  T[q][j].file = U[q][j].file
        BY <2>13, <3>3 DEF FdIs
      <3> QED BY <3>1, <3>2, <3>3 DEF Gains
    <2>17. Counted(y, U)
      <3>1. Counted(openfile, T)
        BY <2>10 DEF CountInv
      <3>2. y[f].ref = openfile[f].ref + 1 /\ \A g \in Files : g # f => y[g] = openfile[g]
        BY <2>4, <2>7, <2>8 DEF NodeIs
      <3> QED BY <1>3, <2>4, <2>9, <2>16, <3>1, <3>2, CountedMore
    <2>18. NoneClosed'
      <3>1. ASSUME NEW q \in Procs, proc'[q] = "none", NEW j \in Fds
            PROVE  fdTable'[q][j].file = NoFile
        <4>1. proc[q] = "none" /\ q # p
          BY <1>5, <3>1
        <4>2. fdTable[q][j].file = NoFile
          BY <4>1 DEF CountInv, NoneClosed
        <4>3. T[q][j].file = U[q][j].file
          BY <2>16, <4>1 DEF Gains
        <4> QED BY <2>10, <2>14, <4>2, <4>3
      <3> QED BY <1>5, <3>1 DEF CountInv, NoneClosed
    <2>19. NodesKept
      <3>1. ASSUME NEW g \in Files, openfile[g].ref > 0
            PROVE  y[g].node = openfile[g].node
        <4>1. openfile[g] # NoNode
          BY <3>1, FileFacts
        <4>2. CASE g = f
          BY <2>4, <2>5, <2>8, <4>1, <4>2 DEF NodeIs
        <4>3. CASE g # f
          BY <2>4, <2>8, <4>3 DEF NodeIs
        <4> QED BY <4>2, <4>3
      <3> QED BY <2>3, <3>1 DEF NodesKept
    <2> QED BY <2>3, <2>8, <2>14, <2>15, <2>17, <2>18, <2>19 DEF CountInv, NodeIs
  <1>7. CASE ~ (l.file # NoFile /\ free # {})
    <2>1. /\ openfile' = ReleaseLookup(l.t, l.file).openfile
          /\ fdTable' = fdTable
      BY <1>1, <1>7 DEF Open, Become
    <2>2. CountInv' /\ openfile' = openfile
      BY <1>1, <1>5, <2>1, CountReleaseLookup
    <2> QED BY <2>2 DEF NodesKept
  <1> QED BY <1>6, <1>7
(***************************************************************************)
(* close_fd(): what is left of node f.                                     *)
(***************************************************************************)
LEMMA CloseFileFacts ==
  ASSUME NEW t, IsTables(t), IsNodes(t.openfile), NEW f \in Files
  PROVE  \E e : /\ NodeIs(t.openfile, CloseFile(t, f).openfile, f, e)
                /\ IF t.openfile[f].ref - 1 > 0
                   THEN e = [node |-> t.openfile[f].node, ref |-> t.openfile[f].ref - 1]
                   ELSE e = NoNode
  <1>1. PICK o, d, y, u : /\ o = t.openfile
                          /\ d = [node |-> o[f].node, ref |-> o[f].ref - 1]
                          /\ y = [o EXCEPT ![f] = d]
                          /\ u = [t EXCEPT !.openfile[f].ref = @ - 1]
    OBVIOUS
  <1>2. /\ IsNodes(o) /\ o = [g \in Files |-> o[g]]
        /\ o[f] = [node |-> o[f].node, ref |-> o[f].ref] /\ o[f].ref \in Nat
    BY <1>1 DEF IsNodes
  <1>3. u.openfile = y
    <2>1. [o[f] EXCEPT !.ref = @ - 1] = d
      BY <1>1, <1>2
    <2>2. u.openfile = [o EXCEPT ![f].ref = @ - 1]
      BY <1>1 DEF IsTables
    <2> QED BY <1>1, <2>1, <2>2
  <1>4. CloseFile(t, f) = Settle(u, f)
    BY <1>1, FileFacts DEF CloseFile
  <1>5. y[f] = d /\ d.ref = o[f].ref - 1
    BY <1>1, <1>2
  <1>6. CASE o[f].ref - 1 > 0
    <2>1. CloseFile(t, f).openfile = y
      BY <1>3, <1>4, <1>5, <1>6 DEF Settle
    <2>2. d = [node |-> d.node, ref |-> d.ref] /\ d.ref \in Nat
      BY <1>1, <1>2, <1>5, <1>6
    <2>3. NodeIs(o, y, f, d)
      BY <1>1, <1>2, <2>2, NodeSet
    <2> QED BY <1>1, <1>5, <1>6, <2>1, <2>3
  <1>7. CASE ~ (o[f].ref - 1 > 0)
    <2>1. CloseFile(t, f).openfile = [y EXCEPT ![f] = NoNode]
      BY <1>3, <1>4, <1>5, <1>7 DEF Settle
    <2>2. [y EXCEPT ![f] = NoNode] = [o EXCEPT ![f] = NoNode]
      BY <1>1, <1>2
    <2>3. NoNode = [node |-> NoNode.node, ref |-> NoNode.ref] /\ NoNode.ref \in Nat
      BY DEF NoNode
    <2>4. NodeIs(o, [o EXCEPT ![f] = NoNode], f, NoNode)
      BY <1>2, <2>3, NodeSet
    <2> QED BY <1>1, <1>7, <2>1, <2>2, <2>4
  <1> QED BY <1>6, <1>7

LEMMA CountClose ==
  ASSUME CountInv, NEW p \in Procs, NEW i \in Fds, Close(p, i)
  PROVE  CountInv' /\ NodesKept
  <1>1. PICK t, T, U, f : /\ t = Tables /\ T = fdTable /\ f = T[p][i].file
                          /\ U = [T EXCEPT ![p] = [T[p] EXCEPT ![i] = Closed]]
    OBVIOUS
  <1>2. IsTables(t) /\ t.openfile = openfile
    BY <1>1 DEF Tables, IsTables
  <1>3. /\ IsNodes(openfile) /\ IsFds(T) /\ f \in Files \cup {NoFile}
        /\ Counted(openfile, T)
    BY <1>1 DEF CountInv, IsFds
  <1>4. /\ fdTable' = U /\ proc' = proc
        /\ openfile' = CloseFile(t, f).openfile
    BY <1>1 DEF Close, Become
  <1>5. FdIs(T, U, p, i, Closed)
    BY <1>1, <1>3, FdExcept
  <1>6. /\ Closed = [file |-> Closed.file, offset |-> Closed.offset]
        /\ Closed.file \in Files \cup {NoFile}
    BY DEF Closed
  <1>7. IsFds(U)
    BY <1>3, <1>5, <1>6, FdSet
  <1>8. U[p][i].file = NoFile
    BY <1>5, FileFacts DEF FdIs
  <1>9. \A q \in Procs : \A j \in Fds :
          <<q, j>> # <<p, i>> => U[q][j].file = T[q][j].file
    BY <1>5 DEF FdIs
  <1>10. CASE f = NoFile
    <2>1. openfile' = openfile
      BY <1>2, <1>4, <1>10 DEF CloseFile
    <2>2. \A q \in Procs : \A j \in Fds : fdTable'[q][j].file = fdTable[q][j].file
      <3>1. ASSUME NEW q \in Procs, NEW j \in Fds PROVE U[q][j].file = T[q][j].file
        <4>1. CASE q = p /\ j = i
          BY <1>1, <1>8, <1>10, <4>1
        <4>2. CASE ~ (q = p /\ j = i)
          BY <1>9, <4>2
        <4> QED BY <4>1, <4>2
      <3> QED BY <1>1, <1>4, <3>1
    <2>3. IsFds(fdTable')
      BY <1>4, <1>7
    <2> QED BY <1>4, <2>1, <2>2, <2>3, CountSame DEF NodesKept
  <1>11. CASE f \in Files
    <2>1. PICK e : /\ NodeIs(openfile, openfile', f, e)
                   /\ IF openfile[f].ref - 1 > 0
                      THEN e = [node |-> openfile[f].node, ref |-> openfile[f].ref - 1]
                      ELSE e = NoNode
      BY <1>2, <1>3, <1>4, <1>11, CloseFileFacts
    <2>2. Gains(U, T, p, i, f)
      BY <1>1, <1>8, <1>9 DEF Gains
    <2>3. Counted(openfile', U)
      <3>1. /\ IF openfile[f].ref - 1 > 0
               THEN openfile'[f].ref = openfile[f].ref - 1 ELSE openfile'[f] = NoNode
            /\ \A g \in Files : g # f => openfile'[g] = openfile[g]
        BY <2>1 DEF NodeIs
      <3> QED BY <1>3, <1>11, <2>2, <3>1, CountedLess
    <2>4. NoneClosed'
      <3>1. ASSUME NEW q \in Procs, proc'[q] = "none", NEW j \in Fds
            PROVE  U[q][j].file = NoFile
        <4>1. T[q][j].file = NoFile
          BY <1>1, <1>4, <3>1 DEF CountInv, NoneClosed
        <4>2. CASE q = p /\ j = i
          BY <1>8, <4>2
        <4>3. CASE ~ (q = p /\ j = i)
          BY <1>9, <4>1, <4>3
        <4> QED BY <4>2, <4>3
      <3> QED BY <1>4, <3>1 DEF CountInv, NoneClosed
    <2>5. IsNodes(openfile')
      BY <2>1 DEF NodeIs
    <2>6. NodesKept
      <3>1. ASSUME NEW g \in Files, openfile'[g].ref > 0
            PROVE  openfile'[g].node = openfile[g].node
        BY <2>1, <3>1, FileFacts DEF NodeIs
      <3> QED BY <3>1 DEF NodesKept
    <2> QED BY <1>4, <1>7, <2>3, <2>4, <2>5, <2>6 DEF CountInv
  <1> QED BY <1>3, <1>10, <1>11
(***************************************************************************)
(* Fork: the child's PCB had no descriptors, and gets those of the parent. *)
(***************************************************************************)
LEMMA CountFork ==
  ASSUME CountInv, NEW p \in Procs, NEW q \in Procs, Fork(p, q)
  PROVE  CountInv' /\ NodesKept
  <1>1. PICK o, n, T, U : /\ o = openfile /\ n = ForkRefs(p) /\ T = fdTable
                          /\ U = [T EXCEPT ![q] = T[p]]
    OBVIOUS
  <1>2. /\ IsNodes(o) /\ IsFds(T) /\ Counted(o, T)
    BY <1>1 DEF CountInv
  <1>3. /\ openfile' = n /\ fdTable' = U /\ proc' = [proc EXCEPT ![q] = "alive"]
        /\ proc[q] = "none" /\ proc[p] = "alive"
    BY <1>1 DEF Fork, Ready
  <1>4. /\ U = [r \in Procs |-> U[r]] /\ U[q] = T[p]
        /\ \A r \in Procs : r # q => U[r] = T[r]
    BY <1>1, <1>2 DEF IsFds
  <1>5. IsFds(U)
    <2>1. ASSUME NEW r \in Procs
          PROVE  /\ U[r] = [i \in Fds |-> U[r][i]]
                 /\ \A i \in Fds :
                      /\ U[r][i] = [file |-> U[r][i].file, offset |-> U[r][i].offset]
                      /\ U[r][i].file \in Files \cup {NoFile}
      <3>1. PICK x \in Procs : U[r] = T[x]
        BY <1>4
      <3>2. /\ T[x] = [i \in Fds |-> T[x][i]]
            /\ \A i \in Fds :
                 /\ T[x][i] = [file |-> T[x][i].file, offset |-> T[x][i].offset]
                 /\ T[x][i].file \in Files \cup {NoFile}
        BY <1>2, Zenon DEF IsFds
      <3> QED BY <3>1, <3>2, Zenon
    <2> QED BY <1>4, <2>1, Zenon DEF IsFds
  <1>6. Fills(T, U, q)
    BY <1>1, <1>3, <1>4 DEF Fills, CountInv, NoneClosed
  <1>7. ASSUME NEW f \in Files
        PROVE  /\ n[f] = [node |-> n[f].node, ref |-> n[f].ref]
               /\ n[f].ref = Cardinality(HoldersIn(U, f))
               /\ n[f].ref \in Nat /\ n[f].node = o[f].node
               /\ n[f] # NoNode => n[f].ref > 0
    <2>1. PICK c : c = Cardinality(NamedBy(U, q, f))
      OBVIOUS
    <2>2. NamedBy(U, q, f) = {i \in Fds : fdTable[p][i].file = f}
      BY <1>1, <1>4 DEF NamedBy
    <2>3. n[f] = [o[f] EXCEPT !.ref = @ + c]
      BY <1>1, <2>1, <2>2 DEF ForkRefs
    <2>4. /\ o[f] = [node |-> o[f].node, ref |-> o[f].ref] /\ o[f].ref \in Nat
          /\ o[f].ref = Cardinality(HoldersIn(T, f))
          /\ o[f] # NoNode => o[f].ref > 0
      BY <1>2 DEF IsNodes, Counted
    <2>5. n[f] = [node |-> o[f].node, ref |-> o[f].ref + c]
      BY <2>3, <2>4
    <2>6. c \in Nat
      BY <2>1, NamedFacts
    <2>7. Cardinality(HoldersIn(U, f)) = Cardinality(HoldersIn(T, f)) + c
      BY <1>6, <2>1, GainedHolders
    <2>8. n[f].ref = o[f].ref + c
      BY <2>5
    <2>9. n[f] # NoNode => n[f].ref > 0
      <3>1. CASE o[f] # NoNode
        BY <2>4, <2>6, <2>8, <3>1
      <3>2. CASE o[f] = NoNode /\ c = 0
        BY <2>4, <2>5, <3>2
      <3>3. CASE c # 0
        BY <2>4, <2>6, <2>8, <3>3
      <3> QED BY <3>1, <3>2, <3>3
    <2> QED BY <2>4, <2>5, <2>6, <2>7, <2>8, <2>9
  <1>8. IsNodes(n)
    <2>1. n = [f \in Files |-> n[f]]
      BY <1>1 DEF ForkRefs
    <2> QED BY <1>7, <2>1 DEF IsNodes
  <1>9. Counted(n, U)
    BY <1>7 DEF Counted
  <1>10. NoneClosed'
    <2>1. /\ proc' = [r \in Procs |-> proc'[r]] /\ proc'[q] = "alive"
          /\ \A r \in Procs : r # q => proc'[r] = proc[r]
      BY <1>3 DEF CountInv, NoneClosed
    <2>2. ASSUME NEW r \in Procs, proc'[r] = "none", NEW i \in Fds
          PROVE  U[r][i].file = NoFile
      BY <1>1, <1>4, <2>1, <2>2 DEF CountInv, NoneClosed
    <2> QED BY <1>3, <2>1, <2>2 DEF NoneClosed
  <1>11. NodesKept
    BY <1>1, <1>3, <1>7 DEF NodesKept
  <1> QED BY <1>3, <1>5, <1>8, <1>9, <1>10, <1>11 DEF CountInv
(***************************************************************************)
(* exit() and the release of a PCB: every node loses as many references as *)
(* descriptors of p name it.                                               *)
(***************************************************************************)
LEMMA CountRelease ==
  ASSUME CountInv, NEW p \in Procs, NEW s,
         openfile' = ReleaseProcess(Tables, p).openfile,
         fdTable' = [fdTable EXCEPT ![p] = [i \in Fds |-> Closed]],
         proc' = [proc EXCEPT ![p] = s]
  PROVE  CountInv' /\ NodesKept
  <1>1. PICK o, n, T, U, R : /\ o = openfile /\ n = openfile' /\ T = fdTable
                             /\ R = [i \in Fds |-> Closed]
                             /\ U = [T EXCEPT ![p] = R]
    OBVIOUS
  <1>2. /\ IsNodes(o) /\ IsFds(T) /\ Counted(o, T)
    BY <1>1 DEF CountInv
  <1>3. /\ U = [r \in Procs |-> U[r]] /\ U[p] = R
        /\ \A r \in Procs : r # p => U[r] = T[r]
    BY <1>1, <1>2 DEF IsFds
  <1>4. /\ R = [i \in Fds |-> R[i]]
        /\ \A i \in Fds : /\ R[i] = [file |-> R[i].file, offset |-> R[i].offset]
                          /\ R[i].file = NoFile
    BY <1>1 DEF Closed
  <1>5. IsFds(U)
    <2>1. ASSUME NEW r \in Procs
          PROVE  /\ U[r] = [i \in Fds |-> U[r][i]]
                 /\ \A i \in Fds :
                      /\ U[r][i] = [file |-> U[r][i].file, offset |-> U[r][i].offset]
                      /\ U[r][i].file \in Files \cup {NoFile}
      <3>1. CASE r = p
        BY <1>3, <1>4, <3>1
      <3>2. CASE r # p
        <4>1. /\ T[r] = [i \in Fds |-> T[r][i]]
              /\ \A i \in Fds :
                   /\ T[r][i] = [file |-> T[r][i].file, offset |-> T[r][i].offset]
                   /\ T[r][i].file \in Files \cup {NoFile}
          BY <1>2, Zenon DEF IsFds
        <4>2. U[r] = T[r]
          BY <1>3, <3>2
        <4> QED BY <4>1, <4>2, Zenon
      <3> QED BY <3>1, <3>2
    <2> QED BY <1>3, <2>1, Zenon DEF IsFds
  <1>6. Fills(U, T, p)
    BY <1>3, <1>4 DEF Fills
  <1>7. PICK named, left, gone :
          /\ named = [f \in Files |-> NamedBy(T, p, f)]
          /\ left = [f \in Files |-> o[f].ref - Cardinality(named[f])]
          /\ gone = {f \in Files : named[f] # {} /\ left[f] = 0}
    OBVIOUS
  <1>8. n = [f \in Files |-> IF f \in gone THEN NoNode
                             ELSE [o[f] EXCEPT !.ref = left[f]]]
    <2>1. Tables.openfile = openfile
      BY DEF Tables
    <2>2. n = [f \in Files |->
                 IF f \in {g \in Files : /\ NamedBy(T, p, g) # {}
                                         /\ o[g].ref - Cardinality(NamedBy(T, p, g)) = 0}
                 THEN NoNode
                 ELSE [o[f] EXCEPT !.ref = o[f].ref - Cardinality(NamedBy(T, p, f))]]
      BY <1>1, <2>1 DEF ReleaseProcess, NamedBy
    <2>3. gone = {g \in Files : /\ NamedBy(T, p, g) # {}
                                /\ o[g].ref - Cardinality(NamedBy(T, p, g)) = 0}
      BY <1>7
    <2>4. n = [f \in Files |->
                 IF f \in gone THEN NoNode
                 ELSE [o[f] EXCEPT !.ref = o[f].ref - Cardinality(NamedBy(T, p, f))]]
      BY <2>2, <2>3
    <2>5. \A f \in Files : left[f] = o[f].ref - Cardinality(NamedBy(T, p, f))
      BY <1>7
    <2> QED BY <2>4, <2>5
  <1>9. ASSUME NEW f \in Files
        PROVE  /\ n[f] = [node |-> n[f].node, ref |-> n[f].ref]
               /\ n[f].ref = Cardinality(HoldersIn(U, f))
               /\ n[f].ref \in Nat
               /\ n[f].ref > 0 => n[f].node = o[f].node
               /\ n[f] # NoNode => n[f].ref > 0
    <2>1. PICK c, h : c = Cardinality(named[f]) /\ h = Cardinality(HoldersIn(U, f))
      OBVIOUS
    <2>2. c \in Nat /\ h \in Nat /\ (named[f] = {} <=> c = 0)
      BY <1>7, <2>1, NamedFacts, HoldersFacts
    <2>3. /\ o[f] = [node |-> o[f].node, ref |-> o[f].ref] /\ o[f].ref \in Nat
          /\ o[f].ref = Cardinality(HoldersIn(T, f))
          /\ o[f] # NoNode => o[f].ref > 0
      BY <1>2 DEF IsNodes, Counted
    <2>4. o[f].ref = h + c
      BY <1>6, <1>7, <2>1, <2>3, GainedHolders
    <2>5. left[f] = h
      BY <1>7, <2>1, <2>2, <2>3, <2>4
    <2>6. CASE f \in gone
      <3>1. n[f] = NoNode /\ h = 0
        BY <1>7, <1>8, <2>5, <2>6
      <3> QED BY <2>1, <3>1 DEF NoNode
    <2>7. CASE f \notin gone
      <3>1. n[f] = [o[f] EXCEPT !.ref = h]
        BY <1>8, <2>5, <2>7
      <3>2. n[f] = [node |-> o[f].node, ref |-> h]
        BY <2>3, <3>1
      <3>3. n[f].ref = h
        BY <3>2
      <3>4. n[f] # NoNode => h > 0
        <4>1. CASE c = 0
          <5>1. n[f] = o[f]
            BY <2>2, <2>3, <2>4, <3>2, <4>1
          <5> QED BY <2>2, <2>3, <2>4, <4>1, <5>1
        <4>2. CASE c # 0
          <5>1. h # 0
            BY <1>7, <2>2, <2>5, <2>7, <4>2
          <5> QED BY <2>2, <5>1
        <4> QED BY <4>1, <4>2
      <3> QED BY <2>1, <2>2, <3>2, <3>3, <3>4
    <2> QED BY <2>6, <2>7
  <1>10. IsNodes(n)
    <2>1. n = [f \in Files |-> n[f]]
      BY <1>8
    <2> QED BY <1>9, <2>1 DEF IsNodes
  <1>11. Counted(n, U)
    BY <1>9 DEF Counted
  <1>12. fdTable' = U
    BY <1>1
  <1>13. NoneClosed'
    <2>1. /\ proc' = [r \in Procs |-> proc'[r]]
          /\ \A r \in Procs : r # p => proc'[r] = proc[r]
      BY DEF CountInv, NoneClosed
    <2>2. ASSUME NEW r \in Procs, proc'[r] = "none", NEW i \in Fds
          PROVE  U[r][i].file = NoFile
      <3>1. CASE r = p
        BY <1>3, <1>4, <3>1
      <3>2. CASE r # p
        BY <1>1, <1>3, <2>1, <2>2, <3>2 DEF CountInv, NoneClosed
      <3> QED BY <3>1, <3>2
    <2> QED BY <1>12, <2>1, <2>2, ZenonT(30) DEF NoneClosed
  <1>14. NodesKept
    BY <1>1, <1>9 DEF NodesKept
  <1> QED BY <1>1, <1>5, <1>10, <1>11, <1>12, <1>13, <1>14 DEF CountInv
-----------------------------------------------------------------------------
CountStep == CountInv' /\ NodesKept

LEMMA CountNext == CountInv /\ [Next]_vars => CountStep
  <1> SUFFICES ASSUME CountInv, [Next]_vars PROVE CountStep
    OBVIOUS
  <1>0. CountInv' /\ openfile' = openfile => CountStep
    BY DEF NodesKept, CountStep
  <1>1. ASSUME NEW p \in Procs, NEW path \in Paths, Open(p, path) PROVE CountStep
    BY <1>1, CountOpen DEF CountStep
  <1>2. ASSUME NEW p \in Procs, NEW path \in Paths,
               \/ Create(p, path) \/ RemoveFile(p, path)
               \/ Rmdir(p, path) \/ Mkdir(p, path)
        PROVE  CountStep
    BY <1>0, <1>2, CountAtParent
  <1>3. ASSUME NEW p \in Procs, NEW path \in Paths, Visit(p, path) PROVE CountStep
    BY <1>0, <1>3, CountVisit
  <1>4. ASSUME NEW p \in Procs, NEW i \in Fds, Close(p, i) PROVE CountStep
    BY <1>4, CountClose DEF CountStep
  <1>5. ASSUME NEW p \in Procs, NEW i \in Fds, NEW k \in Amounts, Transfer(p, i, k)
        PROVE  CountStep
    BY <1>0, <1>5, CountUntouched DEF Transfer
  <1>6. ASSUME NEW p \in Procs, NEW i \in Fds, NEW k \in Amounts, AppendTo(p, i, k)
        PROVE  CountStep
    BY <1>0, <1>6, CountAppendTo DEF AppendTo
  <1>7. ASSUME NEW p \in Procs, NEW i \in Fds, NEW offset \in 0 .. MaxSize,
               Fseek(p, i, offset)
        PROVE  CountStep
    BY <1>0, <1>7, CountFseek DEF Fseek
  <1>8. ASSUME NEW p \in Procs, Advance(p) PROVE CountStep
    BY <1>0, <1>8, CountAdvance DEF Advance
  <1>9. ASSUME NEW p \in Procs, Exit(p) PROVE CountStep
    BY <1>9, CountRelease DEF Exit, Become, CountStep
  <1>10. ASSUME NEW p \in Procs, ExecveFails(p) PROVE CountStep
    BY <1>0, <1>10, CountExecveFails DEF ExecveFails
  <1>11. ASSUME NEW p \in Procs, ReleasePCB(p) PROVE CountStep
    BY <1>11, CountRelease DEF ReleasePCB, Become, CountStep
  <1>12. ASSUME NEW p \in Procs, NEW q \in Procs, Fork(p, q) PROVE CountStep
    BY <1>12, CountFork DEF CountStep
  <1>13. CASE UNCHANGED vars
    BY <1>0, <1>13, CountUntouched DEF vars
  <1>14. DirPaths \subseteq Paths
    OBVIOUS
  <1> QED
    BY <1>1, <1>2, <1>3, <1>4, <1>5, <1>6, <1>7, <1>8, <1>9, <1>10, <1>11,
       <1>12, <1>13, <1>14 DEF Next

(***************************************************************************)
(* The reference count of a node is the number of descriptors that name    *)
(* it, and a node without any is free, through every order of open, close, *)
(* fork, exit, the release of a PCB and calls that fail: close_fd() never  *)
(* takes a node from a process that still has it open, and no path through *)
(* lookup, open and release_process_fs leaks a slot of openfile_table.     *)
(***************************************************************************)
THEOREM NodesCounted == Spec => []RefcountExact
  <1>1. CountInv => RefcountExact
    BY DEF CountInv, Counted, RefcountExact, HoldersIn, Holders
  <1>2. CountInv /\ [Next]_vars => CountInv'
    BY CountNext DEF CountStep
  <1> QED BY <1>1, CountInit, <1>2, PTL DEF Spec
-----------------------------------------------------------------------------
(***************************************************************************)
(* For DescriptorsPrivate: a descriptor without a file is closed, and a    *)
(* read or write in progress belongs to a process that runs and an open    *)
(* descriptor of it, for nobody else can close it.                         *)
(***************************************************************************)
OpenNamed ==
  \A p \in Procs : \A i \in Fds :
    fdTable[p][i].file = NoFile => fdTable[p][i] = Closed

MovedOpen ==
  /\ moved = [p \in Procs |-> moved[p]]
  /\ \A p \in Procs :
       moved[p] # Still => /\ proc[p] = "alive" /\ moved[p][1] \in Fds
                           /\ fdTable[p][moved[p][1]].file # NoFile

(***************************************************************************)
(* What a step does to the descriptors: at most one changes, or those of   *)
(* one process that starts or ends.                                        *)
(***************************************************************************)
OneFd ==
  \E p \in Procs : \E i \in Fds :
    \A q \in Procs : \A j \in Fds :
      <<q, j>> # <<p, i>> => fdTable'[q][j] = fdTable[q][j]

OneRow ==
  \E p \in Procs : /\ proc'[p] # proc[p]
                   /\ \A q \in Procs : q # p => fdTable'[q] = fdTable[q]

FdStep == OpenNamed' /\ MovedOpen' /\ (OneFd \/ OneRow \/ UNCHANGED fdTable)

(***************************************************************************)
(* The tables of the other processes and their states stay, and p has no   *)
(* read or write in progress.                                              *)
(***************************************************************************)
OthersStay(p) ==
  /\ moved[p] = Still /\ moved' = moved
  /\ \A q \in Procs : q # p => fdTable'[q] = fdTable[q] /\ proc'[q] = proc[q]

LEMMA MovedStays ==
  ASSUME MovedOpen, NEW p \in Procs, OthersStay(p)
  PROVE  MovedOpen'
  <1>1. ASSUME NEW q \in Procs, moved'[q] # Still
        PROVE  /\ proc'[q] = "alive" /\ moved'[q][1] \in Fds
               /\ fdTable'[q][moved'[q][1]].file # NoFile
    <2>1. q # p /\ moved' = moved
      BY <1>1 DEF OthersStay
    <2>2. fdTable'[q] = fdTable[q] /\ proc'[q] = proc[q]
      BY <2>1 DEF OthersStay
    <2> QED BY <1>1, <2>1, <2>2 DEF MovedOpen
  <1>2. moved' = [q \in Procs |-> moved'[q]]
    BY DEF OthersStay, MovedOpen
  <1> QED BY <1>1, <1>2 DEF MovedOpen

(***************************************************************************)
(* One descriptor is set.                                                  *)
(***************************************************************************)
LEMMA SetFd ==
  ASSUME CountInv, OpenNamed, NEW p \in Procs, NEW i \in Fds, NEW d,
         d.file = NoFile => d = Closed,
         fdTable' = [fdTable EXCEPT ![p] = [fdTable[p] EXCEPT ![i] = d]]
  PROVE  /\ OpenNamed' /\ OneFd
         /\ \A q \in Procs : q # p => fdTable'[q] = fdTable[q]
  <1>1. PICK T, U : T = fdTable /\ U = [T EXCEPT ![p] = [T[p] EXCEPT ![i] = d]]
    OBVIOUS
  <1>2. IsFds(T)
    BY <1>1 DEF CountInv
  <1>3. FdIs(T, U, p, i, d)
    BY <1>1, <1>2, FdExcept
  <1>4. fdTable' = U
    BY <1>1
  <1>5. \A q \in Procs : \A j \in Fds : <<q, j>> # <<p, i>> => U[q][j] = T[q][j]
    BY <1>3 DEF FdIs
  <1>6. OneFd
    BY <1>1, <1>4, <1>5 DEF OneFd
  <1>7. ASSUME NEW q \in Procs, NEW j \in Fds, U[q][j].file = NoFile
        PROVE  U[q][j] = Closed
    <2>1. CASE q = p /\ j = i
      BY <1>3, <1>7, <2>1 DEF FdIs
    <2>2. CASE ~ (q = p /\ j = i)
      BY <1>1, <1>5, <1>7, <2>2 DEF OpenNamed
    <2> QED BY <2>1, <2>2
  <1>8. OpenNamed'
    BY <1>4, <1>7 DEF OpenNamed
  <1>9. \A q \in Procs : q # p => U[q] = T[q]
    BY <1>1, <1>2 DEF IsFds
  <1> QED BY <1>1, <1>4, <1>6, <1>8, <1>9

LEMMA SetOffset ==
  ASSUME CountInv, NEW p \in Procs, NEW i \in Fds, NEW v,
         fdTable' = [fdTable EXCEPT ![p][i].offset = v]
  PROVE  fdTable' = [fdTable EXCEPT ![p] = [fdTable[p] EXCEPT ![i] =
                       [file |-> fdTable[p][i].file, offset |-> v]]]
  <1>1. PICK c, d : c = fdTable[p][i] /\ d = [c EXCEPT !.offset = v]
    OBVIOUS
  <1>2. c = [file |-> c.file, offset |-> c.offset]
    BY <1>1 DEF CountInv, IsFds
  <1>3. d = [file |-> c.file, offset |-> v]
    BY <1>1, <1>2
  <1>4. fdTable' = [fdTable EXCEPT ![p] = [fdTable[p] EXCEPT ![i] = d]]
    BY <1>1
  <1> QED BY <1>1, <1>3, <1>4

(***************************************************************************)
(* All the descriptors of one process are set.                             *)
(***************************************************************************)
LEMMA SetRow ==
  ASSUME CountInv, OpenNamed, NEW p \in Procs, NEW R,
         \A i \in Fds : R[i].file = NoFile => R[i] = Closed,
         fdTable' = [fdTable EXCEPT ![p] = R]
  PROVE  /\ OpenNamed'
         /\ \A q \in Procs : q # p => fdTable'[q] = fdTable[q]
  <1>1. /\ fdTable'[p] = R
        /\ \A q \in Procs : q # p => fdTable'[q] = fdTable[q]
    BY DEF CountInv, IsFds
  <1>2. ASSUME NEW q \in Procs, NEW j \in Fds, fdTable'[q][j].file = NoFile
        PROVE  fdTable'[q][j] = Closed
    <2>1. CASE q = p
      BY <1>1, <1>2, <2>1
    <2>2. CASE q # p
      BY <1>1, <1>2, <2>2 DEF OpenNamed
    <2> QED BY <2>1, <2>2
  <1> QED BY <1>1, <1>2 DEF OpenNamed
(***************************************************************************)
(* The steps, for FdStep.                                                  *)
(***************************************************************************)
DescInv == CountInv /\ OpenNamed /\ MovedOpen

LEMMA FdsUntouched ==
  ASSUME DescInv, UNCHANGED <<fdTable, proc, moved>>
  PROVE  FdStep
  BY DEF DescInv, FdStep, OpenNamed, MovedOpen

LEMMA FdsOne ==
  ASSUME DescInv, NEW p \in Procs, Ready(p), UNCHANGED <<proc, moved>>,
         NEW i \in Fds, NEW d, d.file = NoFile => d = Closed,
         fdTable' = [fdTable EXCEPT ![p] = [fdTable[p] EXCEPT ![i] = d]]
  PROVE  FdStep
  <1>1. /\ OpenNamed' /\ OneFd
        /\ \A q \in Procs : q # p => fdTable'[q] = fdTable[q]
    BY SetFd DEF DescInv
  <1>2. OthersStay(p)
    BY <1>1 DEF OthersStay, Ready
  <1> QED BY <1>1, <1>2, MovedStays DEF FdStep, DescInv

LEMMA FdsOpen ==
  ASSUME DescInv, NEW p \in Procs, NEW path, Open(p, path)
  PROVE  FdStep
  <1>1. PICK f, i, free : /\ f = LookupPath(Tables, path).file /\ i = Min(free)
                          /\ free = {j \in Fds : fdTable[p][j] = Closed}
    OBVIOUS
  <1>2. Ready(p) /\ UNCHANGED <<proc, moved>>
    BY DEF Open
  <1>3. CASE f # NoFile /\ free # {}
    <2>1. free \in SUBSET (0 .. MaxFd) /\ MaxFd \in Nat
      BY <1>1 DEF Fds
    <2>2. i \in Fds
      BY <1>1, <1>3, <2>1, MinIn
    <2>3. PICK d : d = [file |-> f, offset |-> 0]
      OBVIOUS
    <2>4. fdTable' = [fdTable EXCEPT ![p][i] = d]
      BY <1>1, <1>3, <2>3 DEF Open
    <2>5. d.file = f
      BY <2>3
    <2> QED BY <1>2, <1>3, <2>2, <2>4, <2>5, FdsOne
  <1>4. CASE ~ (f # NoFile /\ free # {})
    <2>1. fdTable' = fdTable
      BY <1>1, <1>4 DEF Open
    <2> QED BY <1>2, <2>1, FdsUntouched
  <1> QED BY <1>3, <1>4

LEMMA FdsClose ==
  ASSUME DescInv, NEW p \in Procs, NEW i \in Fds, Close(p, i)
  PROVE  FdStep
  <1>1. /\ Ready(p) /\ UNCHANGED <<proc, moved>>
        /\ fdTable' = [fdTable EXCEPT ![p][i] = Closed]
    BY DEF Close
  <1> QED BY <1>1, FdsOne

LEMMA FdsOffset ==
  ASSUME DescInv, NEW p \in Procs, Ready(p), UNCHANGED <<proc, moved>>,
         NEW i \in Fds, fdTable[p][i] # Closed, NEW v,
         fdTable' = [fdTable EXCEPT ![p][i].offset = v]
  PROVE  FdStep
  <1>1. PICK d : d = [file |-> fdTable[p][i].file, offset |-> v]
    OBVIOUS
  <1>2. fdTable' = [fdTable EXCEPT ![p] = [fdTable[p] EXCEPT ![i] = d]]
    <2>1. CountInv
      BY DEF DescInv
    <2>2. fdTable' = [fdTable EXCEPT ![p] = [fdTable[p] EXCEPT ![i] =
                        [file |-> fdTable[p][i].file, offset |-> v]]]
      BY <2>1, SetOffset, ZenonT(30)
    <2> QED BY <1>1, <2>2, Zenon
  <1>3. d.file # NoFile
    BY <1>1 DEF DescInv, OpenNamed
  <1>4. d.file = NoFile => d = Closed
    BY <1>3
  <1> QED BY <1>2, <1>4, FdsOne, ZenonT(30)

LEMMA FdsFseek ==
  ASSUME DescInv, NEW p \in Procs, NEW i \in Fds, NEW offset, Fseek(p, i, offset)
  PROVE  FdStep
  BY FdsOffset DEF Fseek

LEMMA FdsAppendTo ==
  ASSUME DescInv, NEW p \in Procs, NEW i \in Fds, NEW k, AppendTo(p, i, k)
  PROVE  FdStep
  <1>1. Ready(p) /\ UNCHANGED <<proc, moved>> /\ fdTable[p][i] # Closed
    BY DEF AppendTo
  <1>2. CASE UNCHANGED fdTable
    BY <1>1, <1>2, FdsUntouched
  <1>3. CASE \E v : fdTable' = [fdTable EXCEPT ![p][i].offset = v]
    BY <1>1, <1>3, FdsOffset
  <1> QED BY <1>2, <1>3 DEF AppendTo

LEMMA FdsTransfer ==
  ASSUME DescInv, NEW p \in Procs, NEW i \in Fds, NEW k, Transfer(p, i, k)
  PROVE  FdStep
  <1>1. PICK m, r : m = <<i, r>> /\ moved' = [moved EXCEPT ![p] = m]
    BY DEF Transfer
  <1>2. /\ UNCHANGED <<fdTable, proc>> /\ proc[p] = "alive"
        /\ fdTable[p][i] # Closed
    BY DEF Transfer, Ready
  <1>3. fdTable[p][i].file # NoFile
    BY <1>2 DEF DescInv, OpenNamed
  <1>4. /\ moved' = [q \in Procs |-> moved'[q]] /\ moved'[p] = m
        /\ \A q \in Procs : q # p => moved'[q] = moved[q]
    BY <1>1 DEF DescInv, MovedOpen
  <1>5. m[1] = i
    BY <1>1
  <1>6. ASSUME NEW q \in Procs, moved'[q] # Still
        PROVE  /\ proc[q] = "alive" /\ moved'[q][1] \in Fds
               /\ fdTable[q][moved'[q][1]].file # NoFile
    <2>1. CASE q = p
      BY <1>2, <1>3, <1>4, <1>5, <2>1
    <2>2. CASE q # p
      BY <1>4, <1>6, <2>2 DEF DescInv, MovedOpen
    <2> QED BY <2>1, <2>2
  <1>7. MovedOpen'
    BY <1>2, <1>4, <1>6 DEF MovedOpen
  <1>8. OpenNamed'
    BY <1>2 DEF DescInv, OpenNamed
  <1> QED BY <1>2, <1>7, <1>8 DEF FdStep

LEMMA FdsAdvance ==
  ASSUME DescInv, NEW p \in Procs, Advance(p)
  PROVE  FdStep
  <1>1. PICK i, v : /\ i = moved[p][1]
                    /\ v = fdTable[p][i].offset + moved[p][2]
    OBVIOUS
  <1>2. /\ fdTable' = [fdTable EXCEPT ![p][i].offset = v] /\ proc' = proc
        /\ moved' = [moved EXCEPT ![p] = Still] /\ moved[p] # Still
    BY <1>1 DEF Advance
  <1>3. i \in Fds /\ fdTable[p][i].file # NoFile
    BY <1>1, <1>2 DEF DescInv, MovedOpen
  <1>4. PICK d : d = [file |-> fdTable[p][i].file, offset |-> v]
    OBVIOUS
  <1>5. fdTable' = [fdTable EXCEPT ![p] = [fdTable[p] EXCEPT ![i] = d]]
    <2>1. CountInv
      BY DEF DescInv
    <2>2. fdTable' = [fdTable EXCEPT ![p] = [fdTable[p] EXCEPT ![i] =
                        [file |-> fdTable[p][i].file, offset |-> v]]]
      BY <1>2, <1>3, <2>1, SetOffset, ZenonT(30)
    <2> QED BY <1>4, <2>2, Zenon
  <1>6. d.file # NoFile
    BY <1>3, <1>4
  <1>7. /\ OpenNamed' /\ OneFd
        /\ \A q \in Procs : q # p => fdTable'[q] = fdTable[q]
    BY <1>3, <1>5, <1>6, SetFd DEF DescInv
  <1>8. /\ moved' = [q \in Procs |-> moved'[q]] /\ moved'[p] = Still
        /\ \A q \in Procs : q # p => moved'[q] = moved[q]
    BY <1>2 DEF DescInv, MovedOpen
  <1>9. MovedOpen'
    <2>1. ASSUME NEW q \in Procs, moved'[q] # Still
          PROVE  /\ proc'[q] = "alive" /\ moved'[q][1] \in Fds
                 /\ fdTable'[q][moved'[q][1]].file # NoFile
      <3>1. q # p /\ moved'[q] = moved[q] /\ fdTable'[q] = fdTable[q]
        BY <1>7, <1>8, <2>1
      <3> QED BY <1>2, <2>1, <3>1 DEF DescInv, MovedOpen
    <2> QED BY <1>8, <2>1 DEF MovedOpen
  <1> QED BY <1>7, <1>9 DEF FdStep

(***************************************************************************)
(* A process starts or ends.                                               *)
(***************************************************************************)
LEMMA FdsRow ==
  ASSUME DescInv, NEW p \in Procs, moved[p] = Still, moved' = moved,
         NEW s, proc' = [proc EXCEPT ![p] = s], proc[p] # s,
         NEW R, \A i \in Fds : R[i].file = NoFile => R[i] = Closed,
         fdTable' = [fdTable EXCEPT ![p] = R]
  PROVE  FdStep
  <1>1. OpenNamed' /\ \A q \in Procs : q # p => fdTable'[q] = fdTable[q]
    BY SetRow DEF DescInv
  <1>2. proc'[p] = s /\ \A q \in Procs : q # p => proc'[q] = proc[q]
    BY DEF DescInv, CountInv, NoneClosed
  <1>3. OthersStay(p)
    BY <1>1, <1>2 DEF OthersStay
  <1>4. OneRow
    BY <1>1, <1>2 DEF OneRow
  <1> QED BY <1>1, <1>3, <1>4, MovedStays DEF FdStep, DescInv

LEMMA FdsRelease ==
  ASSUME DescInv, NEW p \in Procs, Exit(p) \/ ReleasePCB(p)
  PROVE  FdStep
  <1>1. PICK R : R = [i \in Fds |-> Closed]
    OBVIOUS
  <1>2. \A i \in Fds : R[i].file = NoFile => R[i] = Closed
    BY <1>1
  <1>3. fdTable' = [fdTable EXCEPT ![p] = R] /\ moved' = moved
    BY <1>1 DEF Exit, ReleasePCB
  <1>4. moved[p] = Still
    BY DEF Exit, ReleasePCB, Ready, DescInv, MovedOpen
  <1>5. CASE Exit(p)
    <2>1. proc' = [proc EXCEPT ![p] = "zombie"] /\ proc[p] # "zombie"
      BY <1>5 DEF Exit, Ready
    <2> QED BY <1>2, <1>3, <1>4, <2>1, FdsRow
  <1>6. CASE ReleasePCB(p)
    <2>1. proc' = [proc EXCEPT ![p] = "none"] /\ proc[p] # "none"
      BY <1>6 DEF ReleasePCB
    <2> QED BY <1>2, <1>3, <1>4, <2>1, FdsRow
  <1> QED BY <1>5, <1>6

LEMMA FdsFork ==
  ASSUME DescInv, NEW p \in Procs, NEW q \in Procs, Fork(p, q)
  PROVE  FdStep
  <1>1. PICK R : R = fdTable[p]
    OBVIOUS
  <1>2. \A i \in Fds : R[i].file = NoFile => R[i] = Closed
    BY <1>1 DEF DescInv, OpenNamed
  <1>3. /\ fdTable' = [fdTable EXCEPT ![q] = R] /\ moved' = moved
        /\ proc' = [proc EXCEPT ![q] = "alive"] /\ proc[q] = "none"
    BY <1>1 DEF Fork
  <1>4. moved[q] = Still
    BY <1>3 DEF DescInv, MovedOpen
  <1> QED BY <1>2, <1>3, <1>4, FdsRow

LEMMA FdsExecveFails ==
  ASSUME DescInv, NEW p \in Procs, ExecveFails(p)
  PROVE  FdStep
  <1>1. /\ moved[p] = Still /\ fdTable' = fdTable /\ moved' = moved
        /\ proc' = [proc EXCEPT ![p] = "zombie"]
    BY DEF ExecveFails, Ready
  <1>2. \A q \in Procs : q # p => proc'[q] = proc[q]
    BY <1>1 DEF DescInv, CountInv, NoneClosed
  <1>3. OthersStay(p)
    BY <1>1, <1>2 DEF OthersStay
  <1>4. OpenNamed'
    BY <1>1 DEF DescInv, OpenNamed
  <1> QED BY <1>1, <1>3, <1>4, MovedStays DEF FdStep, DescInv
LEMMA FdsNext == DescInv /\ [Next]_vars => FdStep
  <1> SUFFICES ASSUME DescInv, [Next]_vars PROVE FdStep
    OBVIOUS
  <1>1. ASSUME NEW p \in Procs, NEW path \in Paths, Open(p, path) PROVE FdStep
    BY <1>1, FdsOpen
  <1>2. ASSUME NEW p \in Procs, NEW path \in Paths,
               \/ Create(p, path) \/ RemoveFile(p, path)
               \/ Rmdir(p, path) \/ Mkdir(p, path) \/ Visit(p, path)
        PROVE  FdStep
    BY <1>2, FdsUntouched DEF Create, RemoveFile, Rmdir, Mkdir, Visit
  <1>3. ASSUME NEW p \in Procs, NEW i \in Fds, Close(p, i) PROVE FdStep
    BY <1>3, FdsClose
  <1>4. ASSUME NEW p \in Procs, NEW i \in Fds, NEW k \in Amounts,
               Transfer(p, i, k) \/ AppendTo(p, i, k)
        PROVE  FdStep
    BY <1>4, FdsTransfer, FdsAppendTo
  <1>5. ASSUME NEW p \in Procs, NEW i \in Fds, NEW offset \in 0 .. MaxSize,
               Fseek(p, i, offset)
        PROVE  FdStep
    BY <1>5, FdsFseek
  <1>6. ASSUME NEW p \in Procs,
               Advance(p) \/ Exit(p) \/ ExecveFails(p) \/ ReleasePCB(p)
        PROVE  FdStep
    BY <1>6, FdsAdvance, FdsRelease, FdsExecveFails
  <1>7. ASSUME NEW p \in Procs, NEW q \in Procs, Fork(p, q) PROVE FdStep
    BY <1>7, FdsFork
  <1>8. CASE UNCHANGED vars
    BY <1>8, FdsUntouched DEF vars
  <1>9. DirPaths \subseteq Paths
    OBVIOUS
  <1> QED
    BY <1>1, <1>2, <1>3, <1>4, <1>5, <1>6, <1>7, <1>8, <1>9 DEF Next

(***************************************************************************)
(* A descriptor that is the same stands for the same: its node has a       *)
(* reference before and after, so it was neither freed nor reused.         *)
(***************************************************************************)
LEMMA NamedHasRef ==
  ASSUME NEW o, NEW T, Counted(o, T), NEW p \in Procs, NEW i \in Fds,
         NEW f \in Files, T[p][i].file = f
  PROVE  o[f].ref > 0
  <1>1. PICK H : H = HoldersIn(T, f)
    OBVIOUS
  <1>2. <<p, i>> \in H
    BY <1>1 DEF HoldersIn
  <1>3. IsFiniteSet(H) /\ Cardinality(H) \in Nat
    BY <1>1, HoldersFacts
  <1>4. Cardinality(H) # 0
    BY <1>2, <1>3, FS_EmptySet
  <1> QED BY <1>1, <1>3, <1>4 DEF Counted

LEMMA SeenSame ==
  ASSUME CountInv, OpenNamed, CountInv', NodesKept,
         NEW p \in Procs, NEW i \in Fds, fdTable'[p][i] = fdTable[p][i]
  PROVE  Seen(p, i)' = Seen(p, i)
  <1>1. CASE fdTable[p][i] = Closed
    BY <1>1 DEF Seen
  <1>2. CASE fdTable[p][i] # Closed
    <2>1. PICK f : f = fdTable[p][i].file
      OBVIOUS
    <2>2. f \in Files
      BY <1>2, <2>1 DEF OpenNamed, CountInv, IsFds
    <2>3. openfile[f].ref > 0
      BY <2>1, <2>2, NamedHasRef DEF CountInv
    <2>4. openfile'[f].ref > 0
      BY <2>1, <2>2, NamedHasRef DEF CountInv
    <2>5. openfile'[f].node = openfile[f].node
      BY <2>2, <2>3, <2>4 DEF NodesKept
    <2> QED BY <1>2, <2>1, <2>5 DEF Seen, InodeOf
  <1> QED BY <1>1, <1>2

(***************************************************************************)
(* A step that changes what a descriptor stands for changes no other,      *)
(* unless its process starts or ends: no close, lookup, failed call, exit  *)
(* or half-done read of one process moves the file or the offset of        *)
(* another's descriptor, though after fork they share the nodes.           *)
(***************************************************************************)
THEOREM OwnDescriptors == Spec => DescriptorsPrivate
  <1>1. Init => DescInv
    <2> SUFFICES ASSUME Init PROVE DescInv
      OBVIOUS
    <2>1. OpenNamed
      BY DEF Init, OpenNamed
    <2>2. MovedOpen
      BY DEF Init, MovedOpen
    <2> QED BY <2>1, <2>2, CountInit DEF DescInv
  <1>2. DescInv /\ [Next]_vars => DescInv'
    BY CountNext, FdsNext DEF DescInv, CountStep, FdStep
  <1>3. ASSUME DescInv, [Next]_vars,
               NEW p \in Procs, NEW q \in Procs, NEW i \in Fds, NEW j \in Fds,
               Seen(p, i)' # Seen(p, i), Seen(q, j)' # Seen(q, j),
               proc'[p] = proc[p]
        PROVE  <<p, i>> = <<q, j>>
    <2>1. CountInv /\ OpenNamed /\ CountInv' /\ NodesKept
      BY <1>3, CountNext DEF DescInv, CountStep
    <2>2. fdTable'[p][i] # fdTable[p][i] /\ fdTable'[q][j] # fdTable[q][j]
      BY <1>3, <2>1, SeenSame
    <2>3. OneFd \/ OneRow \/ UNCHANGED fdTable
      BY <1>3, FdsNext DEF FdStep
    <2>4. CASE OneFd
      BY <2>2, <2>4 DEF OneFd
    <2>5. CASE OneRow
      <3>1. PICK r \in Procs : /\ proc'[r] # proc[r]
                               /\ \A s \in Procs : s # r => fdTable'[s] = fdTable[s]
        BY <2>5 DEF OneRow
      <3> QED BY <1>3, <2>2, <3>1
    <2>6. CASE UNCHANGED fdTable
      BY <2>2, <2>6
    <2> QED BY <2>3, <2>4, <2>5, <2>6
  <1>4. DescInv /\ [Next]_vars =>
          [\A p, q \in Procs, i, j \in Fds :
             /\ Seen(p, i)' # Seen(p, i) /\ Seen(q, j)' # Seen(q, j)
             /\ proc'[p] = proc[p]
             => <<p, i>> = <<q, j>>]_vars
    BY <1>3
  <1> QED BY <1>1, <1>2, <1>4, PTL DEF Spec, DescriptorsPrivate

-----------------------------------------------------------------------------
(***************************************************************************)
(* For InodesExact: what every call takes from the pool of inodes and      *)
(* gives back to it.                                                       *)
(***************************************************************************)
USE Fat12Assumption

(***************************************************************************)
(* A volume with its pool of inodes; nothing is asked of the FAT and the   *)
(* directories.  r[n] are the references of inode n.                       *)
(***************************************************************************)
IsInode(e) ==
  /\ e = [start |-> e.start, size |-> e.size, dir |-> e.dir,
          loc |-> e.loc, ref |-> e.ref]
  /\ e.ref \in Nat

IsPool(P) == P = [n \in Inodes |-> P[n]] /\ \A n \in Inodes : IsInode(P[n])

IsVolume(s) == s = [fat |-> s.fat, dirs |-> s.dirs, inode |-> s.inode]

Counts == [Inodes -> Nat]

HasRefs(s, r) ==
  /\ IsVolume(s) /\ IsPool(s.inode) /\ r \in Counts
  /\ \A n \in Inodes : s.inode[n].ref = r[n]

(***************************************************************************)
(* r with one reference more to n, or r itself when n is nullptr.          *)
(***************************************************************************)
More(r, n) == [m \in Inodes |-> IF m = n THEN r[m] + 1 ELSE r[m]]

Pointers == Inodes \cup {NullInode}

LEMMA PointerFacts == NullInode \notin Inodes /\ IsInode(FreeInode) /\ FreeInode.ref = 0
  BY DEF NullInode, Inodes, IsInode, FreeInode

LEMMA MoreFacts ==
  ASSUME NEW r \in Counts
  PROVE  /\ More(r, NullInode) = r
         /\ \A n : More(r, n) \in Counts
         /\ \A n, m : More(More(r, n), m) = More(More(r, m), n)
  BY PointerFacts DEF Counts, More

(***************************************************************************)
(* u is s with e for inode n.                                              *)
(***************************************************************************)
InodeIs(s, u, n, e) ==
  /\ IsVolume(u) /\ IsPool(u.inode) /\ u.inode[n] = e
  /\ \A m \in Inodes : m # n => u.inode[m] = s.inode[m]

LEMMA InodeSet ==
  ASSUME NEW s, IsVolume(s), IsPool(s.inode), NEW n \in Inodes, NEW e, IsInode(e)
  PROVE  InodeIs(s, [s EXCEPT !.inode = [s.inode EXCEPT ![n] = e]], n, e)
  <1>1. PICK P, u : P = [s.inode EXCEPT ![n] = e] /\ u = [s EXCEPT !.inode = P]
    OBVIOUS
  <1>2. IsPool(P) /\ P[n] = e /\ \A m \in Inodes : m # n => P[m] = s.inode[m]
    BY <1>1 DEF IsPool
  <1>3. IsVolume(u) /\ u.inode = P
    BY <1>1 DEF IsVolume
  <1>4. InodeIs(s, u, n, e)
    BY <1>2, <1>3 DEF InodeIs
  <1> QED BY <1>1, <1>4

LEMMA RefsSet ==
  ASSUME NEW s, NEW r, HasRefs(s, r), NEW n \in Inodes, NEW e, NEW u,
         InodeIs(s, u, n, e), NEW q \in Counts,
         q[n] = e.ref, \A m \in Inodes : m # n => q[m] = r[m]
  PROVE  HasRefs(u, q)
  <1>1. \A m \in Inodes : u.inode[m].ref = q[m]
    BY DEF HasRefs, InodeIs
  <1> QED BY <1>1 DEF HasRefs, InodeIs

(***************************************************************************)
(* lookup() takes one reference to the inode it returns.                   *)
(***************************************************************************)
Takes(l, r) == l.node \in Pointers /\ HasRefs(l.fs, More(r, l.node))

(***************************************************************************)
(* s with e for inode n: what lookup() and release_inode() come to.        *)
(***************************************************************************)
SetInode(s, n, e) == [s EXCEPT !.inode = [s.inode EXCEPT ![n] = e]]

Shared(c, loc) ==
  [start |-> c.start, size |-> c.size, dir |-> c.dir, loc |-> loc, ref |-> c.ref + 1]

Loaded(x, loc) ==
  [start |-> x.start, size |-> x.size, dir |-> x.dir, loc |-> loc, ref |-> 1]

Released(c) ==
  IF c.ref > 1
  THEN [start |-> c.start, size |-> c.size, dir |-> c.dir, loc |-> c.loc, ref |-> c.ref - 1]
  ELSE FreeInode

LEMMA ShareIs ==
  ASSUME NEW s, IsVolume(s), IsPool(s.inode), NEW n \in Inodes, NEW loc
  PROVE  ShareInode(s, n, loc) = [fs |-> SetInode(s, n, Shared(s.inode[n], loc)), node |-> n]
  <1>1. PICK c, e : c = s.inode[n] /\ e = Shared(c, loc)
    OBVIOUS
  <1>2. PICK u : u = SetInode(s, n, e)
    OBVIOUS
  <1>3. c = [start |-> c.start, size |-> c.size, dir |-> c.dir,
             loc |-> c.loc, ref |-> c.ref]
    BY <1>1 DEF IsPool, IsInode
  <1>4. PICK d, v : /\ d = [c EXCEPT !.ref = @ + 1]
                    /\ v = [s EXCEPT !.inode = [s.inode EXCEPT ![n] = d]]
    OBVIOUS
  <1>5. e = [d EXCEPT !.loc = loc]
    <2>1. d = [start |-> c.start, size |-> c.size, dir |-> c.dir,
               loc |-> c.loc, ref |-> c.ref + 1]
      BY <1>3, <1>4
    <2> QED BY <1>1, <2>1 DEF Shared
  <1>6. ShareInode(s, n, loc)
          = [fs |-> [s EXCEPT !.inode[n].ref = @ + 1, !.inode[n].loc = loc],
             node |-> n]
    BY DEF ShareInode
  <1>7. [s EXCEPT !.inode[n].ref = @ + 1] = v
    BY <1>1, <1>4
  <1>8. [s EXCEPT !.inode[n].ref = @ + 1, !.inode[n].loc = loc]
          = [v EXCEPT !.inode[n].loc = loc]
    BY <1>1, <1>4, <1>7
  <1>9. v.inode = [s.inode EXCEPT ![n] = d] /\ v.inode[n] = d
    BY <1>4 DEF IsVolume, IsPool
  <1>10. [v EXCEPT !.inode[n].loc = loc] = [v EXCEPT !.inode = [v.inode EXCEPT ![n] = e]]
    BY <1>5, <1>9
  <1>11. [v.inode EXCEPT ![n] = e] = [s.inode EXCEPT ![n] = e]
    BY <1>9 DEF IsPool
  <1>12. [v EXCEPT !.inode = [s.inode EXCEPT ![n] = e]] = u
    BY <1>2, <1>4 DEF IsVolume, SetInode
  <1> QED BY <1>1, <1>2, <1>6, <1>8, <1>10, <1>11, <1>12

LEMMA ReleaseIs ==
  ASSUME NEW s, IsPool(s.inode), NEW n \in Inodes
  PROVE  ReleaseInode(s, n) = SetInode(s, n, Released(s.inode[n]))
  <1>1. PICK c, e : c = s.inode[n] /\ e = Released(c)
    OBVIOUS
  <1>2. c = [start |-> c.start, size |-> c.size, dir |-> c.dir,
             loc |-> c.loc, ref |-> c.ref]
    BY <1>1 DEF IsPool, IsInode
  <1>3. n # NullInode
    BY PointerFacts
  <1>4. CASE c.ref > 1
    <2>1. e = [c EXCEPT !.ref = @ - 1]
      BY <1>1, <1>2, <1>4 DEF Released
    <2>2. ReleaseInode(s, n) = [s EXCEPT !.inode = [s.inode EXCEPT ![n] = e]]
      BY <1>1, <1>3, <1>4, <2>1 DEF ReleaseInode
    <2> QED BY <1>1, <2>2 DEF SetInode
  <1>5. CASE ~ (c.ref > 1)
    BY <1>1, <1>3, <1>5 DEF ReleaseInode, Released, SetInode
  <1> QED BY <1>4, <1>5

LEMMA ShareTakes ==
  ASSUME NEW s, NEW r, HasRefs(s, r), NEW n \in Inodes, NEW loc
  PROVE  Takes(ShareInode(s, n, loc), r)
  <1>1. PICK c, e, u : c = s.inode[n] /\ e = Shared(c, loc) /\ u = SetInode(s, n, e)
    OBVIOUS
  <1>2. IsVolume(s) /\ IsPool(s.inode) /\ r \in Counts /\ c.ref = r[n] /\ c.ref \in Nat
    BY <1>1 DEF HasRefs, IsPool, IsInode
  <1>3. IsInode(e) /\ e.ref = r[n] + 1
    BY <1>1, <1>2 DEF IsInode, Shared
  <1>4. ShareInode(s, n, loc) = [fs |-> u, node |-> n]
    BY <1>1, <1>2, ShareIs
  <1>5. InodeIs(s, u, n, e)
    BY <1>1, <1>2, <1>3, InodeSet DEF SetInode
  <1>6. PICK q : q = More(r, n)
    OBVIOUS
  <1>7. q \in Counts /\ q[n] = e.ref /\ \A m \in Inodes : m # n => q[m] = r[m]
    BY <1>2, <1>3, <1>6 DEF Counts, More
  <1>8. HasRefs(u, q)
    BY <1>5, <1>7, RefsSet
  <1> QED BY <1>4, <1>6, <1>8 DEF Takes, Pointers

LEMMA LoadTakes ==
  ASSUME NEW s, NEW r, HasRefs(s, r), NEW n \in Inodes, r[n] = 0, NEW x, NEW loc
  PROVE  Takes(LoadInode(s, n, x, loc), r)
  <1>1. PICK e, u : e = Loaded(x, loc) /\ u = SetInode(s, n, e)
    OBVIOUS
  <1>2. IsVolume(s) /\ IsPool(s.inode) /\ r \in Counts
    BY DEF HasRefs
  <1>3. IsInode(e) /\ e.ref = 1
    BY <1>1 DEF IsInode, Loaded
  <1>4. LoadInode(s, n, x, loc) = [fs |-> u, node |-> n]
    BY <1>1 DEF LoadInode, Loaded, SetInode
  <1>5. InodeIs(s, u, n, e)
    BY <1>1, <1>2, <1>3, InodeSet DEF SetInode
  <1>6. PICK q : q = More(r, n)
    OBVIOUS
  <1>7. q \in Counts /\ q[n] = e.ref /\ \A m \in Inodes : m # n => q[m] = r[m]
    BY <1>2, <1>3, <1>6 DEF Counts, More
  <1>8. HasRefs(u, q)
    BY <1>5, <1>7, RefsSet
  <1> QED BY <1>4, <1>6, <1>8 DEF Takes, Pointers

LEMMA NotFoundTakes ==
  ASSUME NEW s, NEW r, HasRefs(s, r)
  PROVE  Takes(NotFound(s), r)
  <1>1. r \in Counts
    BY DEF HasRefs
  <1>2. More(r, NullInode) = r
    BY <1>1, MoreFacts
  <1> QED BY <1>2 DEF NotFound, Takes, Pointers

LEMMA LookupTakes ==
  ASSUME NEW s, NEW r, HasRefs(s, r), NEW d, NEW name
  PROVE  Takes(Lookup(s, d, name), r)
  <1>1. PICK found : found = Named(s, d, name)
    OBVIOUS
  <1>2. CASE found = {}
    BY <1>1, <1>2, NotFoundTakes DEF Lookup, LookupAmong
  <1>3. CASE found # {}
    <2>1. PICK loc, e, shared, free :
            /\ Lookup(s, d, name) = LookupEntry(s, e, loc, shared)
            /\ shared = InodesFor(s, e, loc) /\ free = FreeInodes(s)
      BY <1>1, <1>3 DEF Lookup, LookupAmong, LookupAt
    <2>2. /\ shared \in SUBSET (0 .. MaxInodes) /\ free \in SUBSET (0 .. MaxInodes)
          /\ shared \subseteq Inodes /\ free \subseteq Inodes /\ MaxInodes \in Nat
          /\ \A n \in free : s.inode[n].ref = 0
      BY <2>1 DEF InodesFor, FreeInodes, Inodes
    <2>3. CASE shared # {}
      <3>1. Min(shared) \in Inodes
        BY <2>2, <2>3, MinIn
      <3> QED BY <2>1, <2>3, <3>1, ShareTakes DEF LookupEntry
    <2>4. CASE shared = {} /\ free = {}
      BY <2>1, <2>4, NotFoundTakes DEF LookupEntry
    <2>5. CASE shared = {} /\ free # {}
      <3>1. PICK n : n = Min(free)
        OBVIOUS
      <3>2. n \in free
        BY <2>2, <2>5, <3>1, MinIn
      <3>3. n \in Inodes /\ r[n] = 0
        BY <2>2, <3>2 DEF HasRefs
      <3> QED BY <2>1, <2>5, <3>1, <3>3, LoadTakes DEF LookupEntry
    <2> QED BY <2>3, <2>4, <2>5
  <1> QED BY <1>2, <1>3

(***************************************************************************)
(* release_inode() gives one back.                                         *)
(***************************************************************************)
LEMMA ReleaseGives ==
  ASSUME NEW s, NEW r \in Counts, NEW n \in Pointers, HasRefs(s, More(r, n))
  PROVE  HasRefs(ReleaseInode(s, n), r)
  <1>1. CASE n = NullInode
    BY <1>1, MoreFacts DEF ReleaseInode
  <1>2. CASE n # NullInode
    <2>1. n \in Inodes
      BY <1>2 DEF Pointers
    <2>2. PICK q, c : q = More(r, n) /\ c = s.inode[n]
      OBVIOUS
    <2>3. /\ q \in Counts /\ q[n] = r[n] + 1 /\ r[n] \in Nat
          /\ \A m \in Inodes : m # n => r[m] = q[m]
      BY <2>1, <2>2 DEF Counts, More
    <2>4. /\ HasRefs(s, q) /\ IsVolume(s) /\ IsPool(s.inode) /\ c.ref = r[n] + 1
          /\ c = [start |-> c.start, size |-> c.size, dir |-> c.dir,
                  loc |-> c.loc, ref |-> c.ref]
      BY <2>1, <2>2, <2>3 DEF HasRefs, IsPool, IsInode
    <2>5. PICK e, u : e = Released(c) /\ u = SetInode(s, n, e)
      OBVIOUS
    <2>6. IsInode(e) /\ e.ref = r[n]
      <3>1. CASE c.ref > 1
        BY <2>3, <2>4, <2>5, <3>1 DEF IsInode, Released
      <3>2. CASE ~ (c.ref > 1)
        BY <2>3, <2>4, <2>5, <3>2, PointerFacts DEF Released
      <3> QED BY <3>1, <3>2
    <2>7. ReleaseInode(s, n) = u
      BY <2>1, <2>2, <2>4, <2>5, ReleaseIs
    <2>8. InodeIs(s, u, n, e)
      BY <2>1, <2>4, <2>5, <2>6, InodeSet DEF SetInode
    <2>9. HasRefs(u, r)
      BY <2>1, <2>3, <2>4, <2>6, <2>8, RefsSet
    <2> QED BY <2>7, <2>9
  <1> QED BY <1>1, <1>2

-----------------------------------------------------------------------------
(***************************************************************************)
(* The walk along a path of any length, as a loop: what holds before the   *)
(* first name and is kept by every step holds at the end.  The recursive   *)
(* definition of reach defines a function: the shortest path for which it  *)
(* did not would be one name longer than one for which it does.            *)
(***************************************************************************)
Start(s) == [fs |-> s, node |-> NullInode, lost |-> FALSE]

IsReach(r, s, path, n) ==
  r = [k \in 0 .. n |-> IF k = 0 THEN Start(s) ELSE WalkStep(r[k - 1], path[k])]

LEMMA WalkIsReach ==
  ASSUME NEW s, NEW path, Len(path) \in Nat
  PROVE  \E r : IsReach(r, s, path, Len(path)) /\ Walk(s, path) = r[Len(path)]
  <1>1. PICK N \in Nat : N = Len(path)
    OBVIOUS
  <1>2. \E r : IsReach(r, s, path, N)
    <2> SUFFICES ASSUME ~ \E r : IsReach(r, s, path, N) PROVE FALSE
      OBVIOUS
    <2>1. PICK B : B = {n \in 0 .. N : ~ \E r : IsReach(r, s, path, n)}
      OBVIOUS
    <2>2. B \subseteq Int /\ N \in B /\ B \in SUBSET (0 .. N)
      BY <2>1
    <2>3. IsFiniteSet(B)
      <3>1. IsFiniteSet(0 .. N)
        BY FS_Interval
      <3> QED BY <2>2, <3>1, FS_Subset
    <2>4. PICK m \in B : \A k \in B : m <= k
      BY <2>2, <2>3, SmallestElement
    <2>5. m \in 0 .. N /\ ~ \E r : IsReach(r, s, path, m)
      BY <2>1, <2>4
    <2>6. CASE m = 0
      <3>1. PICK r : r = [k \in 0 .. 0 |-> Start(s)]
        OBVIOUS
      <3>2. IsReach(r, s, path, 0)
        BY <3>1 DEF IsReach
      <3> QED BY <2>5, <2>6, <3>2
    <2>7. CASE m # 0
      <3>1. m - 1 \in 0 .. N /\ m - 1 \notin B
        BY <2>4, <2>5, <2>7
      <3>2. PICK q : IsReach(q, s, path, m - 1)
        BY <2>1, <3>1
      <3>3. PICK r : r = [k \in 0 .. m |->
                            IF k = m THEN WalkStep(q[m - 1], path[m]) ELSE q[k]]
        OBVIOUS
      <3>4. ASSUME NEW k \in 0 .. m
            PROVE  r[k] = IF k = 0 THEN Start(s) ELSE WalkStep(r[k - 1], path[k])
        <4>1. CASE k = m
          <5>1. r[k] = WalkStep(q[m - 1], path[m]) /\ r[k - 1] = q[m - 1]
            BY <2>5, <2>7, <3>3, <4>1
          <5> QED BY <2>7, <4>1, <5>1
        <4>2. CASE k # m /\ k = 0
          <5>1. r[k] = q[k] /\ k \in 0 .. m - 1
            BY <2>5, <2>7, <3>3, <4>2
          <5> QED BY <3>2, <4>2, <5>1 DEF IsReach
        <4>3. CASE k # m /\ k # 0
          <5>1. /\ r[k] = q[k] /\ r[k - 1] = q[k - 1]
                /\ k \in 0 .. m - 1
            BY <2>5, <2>7, <3>3, <4>3
          <5>2. q[k] = WalkStep(q[k - 1], path[k])
            BY <3>2, <4>3, <5>1 DEF IsReach
          <5> QED BY <4>3, <5>1, <5>2
        <4> QED BY <4>1, <4>2, <4>3
      <3>5. IsReach(r, s, path, m)
        BY <3>3, <3>4 DEF IsReach
      <3> QED BY <2>5, <3>5
    <2> QED BY <2>6, <2>7
  <1>3. PICK r : r = CHOOSE x : IsReach(x, s, path, Len(path))
    OBVIOUS
  <1>4. IsReach(r, s, path, Len(path))
    BY <1>1, <1>2, <1>3, Zenon
  <1>5. Walk(s, path) = r[Len(path)]
    BY <1>3, Zenon DEF Walk, IsReach, Start
  <1> QED BY <1>4, <1>5

-----------------------------------------------------------------------------
(***************************************************************************)
(* A walk in progress holds one reference to the inode it has reached, and *)
(* past the first name it has reached one unless it is lost.               *)
(***************************************************************************)
IsWalk(w, r) ==
  /\ w = [fs |-> w.fs, node |-> w.node, lost |-> w.lost]
  /\ Takes(w, r)
  /\ w.lost => w.node = NullInode

LEMMA WalkStepTakes ==
  ASSUME NEW r \in Counts, NEW w, IsWalk(w, r), NEW name
  PROVE  /\ IsWalk(WalkStep(w, name), r)
         /\ ~ WalkStep(w, name).lost => WalkStep(w, name).node \in Inodes
  <1>1. CASE w.lost
    BY <1>1 DEF WalkStep
  <1>2. CASE ~ w.lost
    <2>1. PICK n, s, d, l, u : /\ n = w.node /\ s = w.fs /\ d = DirCluster(s, n)
                               /\ l = Lookup(s, d, name) /\ u = ReleaseInode(l.fs, n)
      OBVIOUS
    <2>2. PICK v : v = WalkStep(w, name)
      OBVIOUS
    <2>3. v = [fs |-> u, node |-> l.node, lost |-> l.node = NullInode]
      BY <1>2, <2>1, <2>2 DEF WalkStep, StepInto
    <2>4. PICK q, z : q = More(r, n) /\ z = More(r, l.node)
      OBVIOUS
    <2>5. n \in Pointers /\ HasRefs(s, q) /\ z \in Counts
      BY <2>1, <2>4, MoreFacts DEF IsWalk, Takes
    <2>6. l.node \in Pointers /\ HasRefs(l.fs, More(q, l.node))
      BY <2>1, <2>5, LookupTakes DEF Takes
    <2>7. More(q, l.node) = More(z, n)
      BY <2>4, MoreFacts
    <2>8. HasRefs(l.fs, More(z, n))
      BY <2>6, <2>7
    <2>9. HasRefs(u, z)
      BY <2>1, <2>5, <2>8, ReleaseGives
    <2>10. v.fs = u /\ v.node = l.node /\ v.lost = (l.node = NullInode)
      BY <2>3
    <2>11. IsWalk(v, r)
      BY <2>3, <2>4, <2>6, <2>9, <2>10 DEF IsWalk, Takes
    <2> QED BY <2>2, <2>6, <2>10, <2>11 DEF Pointers
  <1> QED BY <1>1, <1>2

LEMMA WalkTakes ==
  ASSUME NEW s, NEW r, HasRefs(s, r), NEW path, Len(path) \in Nat \ {0}
  PROVE  /\ IsWalk(Walk(s, path), r)
         /\ ~ Walk(s, path).lost => Walk(s, path).node \in Inodes
  <1>1. PICK N \in Nat : N = Len(path)
    OBVIOUS
  <1>2. r \in Counts
    BY DEF HasRefs
  <1>3. PICK x : IsReach(x, s, path, N) /\ Walk(s, path) = x[N]
    BY <1>1, WalkIsReach
  <1>4. IsWalk(Start(s), r)
    BY <1>2, MoreFacts DEF Start, IsWalk, Takes, Pointers
  <1>5. x[0] = Start(s) /\ \A k \in 1 .. N : x[k] = WalkStep(x[k - 1], path[k])
    BY <1>3 DEF IsReach
  <1>6. \A k \in 0 .. N : IsWalk(x[k], r)
    <2> SUFFICES ASSUME NEW j \in 0 .. N, ~ IsWalk(x[j], r) PROVE FALSE
      OBVIOUS
    <2>1. PICK B : B = {k \in 0 .. N : ~ IsWalk(x[k], r)}
      OBVIOUS
    <2>2. B \subseteq Int /\ j \in B /\ B \in SUBSET (0 .. N)
      BY <2>1
    <2>3. IsFiniteSet(B)
      <3>1. IsFiniteSet(0 .. N)
        BY FS_Interval
      <3> QED BY <2>2, <3>1, FS_Subset
    <2>4. PICK m \in B : \A k \in B : m <= k
      BY <2>2, <2>3, SmallestElement
    <2>5. m \in 0 .. N /\ ~ IsWalk(x[m], r)
      BY <2>1, <2>4
    <2>6. m # 0
      BY <1>4, <1>5, <2>5
    <2>7. m - 1 \in 0 .. N /\ m - 1 \notin B
      BY <2>4, <2>5, <2>6
    <2>8. IsWalk(x[m - 1], r)
      BY <2>1, <2>7
    <2>9. x[m] = WalkStep(x[m - 1], path[m])
      BY <1>5, <2>5, <2>6
    <2> QED BY <1>2, <2>5, <2>8, <2>9, WalkStepTakes
  <1>7. x[N] = WalkStep(x[N - 1], path[N]) /\ IsWalk(x[N - 1], r)
    BY <1>1, <1>5, <1>6
  <1> QED BY <1>2, <1>3, <1>7, WalkStepTakes

-----------------------------------------------------------------------------
(***************************************************************************)
(* The calls of the file system leave every inode with the references it   *)
(* had.  Only lookup() and release_inode() touch them.                     *)
(***************************************************************************)
SamePool(s, u) == IsVolume(u) /\ u.inode = s.inode

LEMMA SamePoolRefs ==
  ASSUME NEW s, NEW u, NEW r, HasRefs(s, r), SamePool(s, u)
  PROVE  HasRefs(u, r)
  BY DEF HasRefs, SamePool

LEMMA WriteEntrySame ==
  ASSUME NEW s, IsVolume(s), NEW loc, NEW e
  PROVE  SamePool(s, WriteEntry(s, loc, e))
  <1>1. PICK D : WriteEntry(s, loc, e) = [s EXCEPT !.dirs = D]
    BY DEF WriteEntry
  <1> QED BY <1>1 DEF SamePool, IsVolume

LEMMA GrowSame ==
  ASSUME NEW s, IsVolume(s), NEW d, NEW c
  PROVE  SamePool(s, Grow(s, d, c).fs)
  BY DEF Grow, SamePool, IsVolume

LEMMA FreeEntrySame ==
  ASSUME NEW s, IsVolume(s), NEW d
  PROVE  SamePool(s, FreeEntry(s, d).fs)
  <1>1. SamePool(s, s)
    BY DEF SamePool
  <1>2. PICK places, free, c : /\ FreeEntry(s, d) = FreeEntryAmong(s, d, places, free)
                               /\ c = AllocateCluster(s)
    BY DEF FreeEntry
  <1>3. SamePool(s, Grow(s, d, c).fs)
    BY GrowSame
  <1> QED BY <1>1, <1>2, <1>3 DEF FreeEntryAmong

LEMMA CreateFileSame ==
  ASSUME NEW s, IsVolume(s), NEW d, NEW name
  PROVE  SamePool(s, CreateFile(s, d, name))
  <1>1. SamePool(s, s)
    BY DEF SamePool
  <1>2. PICK u, place : u = CreateFile(s, d, name) /\ place = FreeEntry(s, d)
    OBVIOUS
  <1>3. SamePool(s, place.fs)
    BY <1>2, FreeEntrySame
  <1>4. PICK e : u = s \/ u = WriteEntry(place.fs, place.loc, e)
    BY <1>2 DEF CreateFile, NewFile
  <1>5. SamePool(place.fs, WriteEntry(place.fs, place.loc, e))
    BY <1>3, WriteEntrySame DEF SamePool
  <1> QED BY <1>1, <1>2, <1>3, <1>4, <1>5 DEF SamePool

LEMMA CreateDirectorySame ==
  ASSUME NEW s, IsVolume(s), NEW d, NEW name
  PROVE  SamePool(s, CreateDirectory(s, d, name))
  <1>1. SamePool(s, s)
    BY DEF SamePool
  <1>2. PICK u, place, c, x :
          /\ u = CreateDirectory(s, d, name) /\ place = FreeEntry(s, d)
          /\ c = AllocateCluster(place.fs)
          /\ x = [place.fs EXCEPT !.fat[c] = EndOfChain,
                                  !.dirs[c] = Blank(EntriesPerCluster)]
    OBVIOUS
  <1>3. SamePool(s, place.fs)
    BY <1>2, FreeEntrySame
  <1>4. SamePool(s, x)
    BY <1>2, <1>3 DEF SamePool, IsVolume
  <1>5. PICK e : u = s \/ u = WriteEntry(x, place.loc, e)
    BY <1>2 DEF CreateDirectory, NewDirectory, NewDirectoryAt
  <1>6. SamePool(x, WriteEntry(x, place.loc, e))
    BY <1>4, WriteEntrySame DEF SamePool
  <1> QED BY <1>1, <1>2, <1>4, <1>5, <1>6 DEF SamePool

LEMMA DeleteGives ==
  ASSUME NEW s, NEW r \in Counts, NEW n \in Pointers, HasRefs(s, More(r, n))
  PROVE  HasRefs(Delete(s, n), r)
  <1>1. PICK loc, c, x, u : /\ loc = s.inode[n].loc /\ c = s.inode[n].start
                            /\ x = [s EXCEPT !.dirs[loc[1]][loc[2]] = NoEntry]
                            /\ u = FreeChain(x, c)
    OBVIOUS
  <1>2. Delete(s, n) = ReleaseInode(u, n)
    BY <1>1 DEF Delete
  <1>3. IsVolume(s)
    BY DEF HasRefs
  <1>4. SamePool(s, x)
    BY <1>1, <1>3, WriteEntrySame DEF WriteEntry
  <1>5. SamePool(x, u)
    <2>1. PICK F : u = [x EXCEPT !.fat = F]
      BY <1>1 DEF FreeChain
    <2> QED BY <1>4, <2>1 DEF SamePool, IsVolume
  <1>6. SamePool(s, u)
    BY <1>4, <1>5 DEF SamePool
  <1>7. HasRefs(u, More(r, n))
    BY <1>6, SamePoolRefs
  <1> QED BY <1>2, <1>7, ReleaseGives

LEMMA RemoveGives ==
  ASSUME NEW s, NEW r, HasRefs(s, r), NEW d, NEW name
  PROVE  /\ HasRefs(FsRemove(s, d, name), r)
         /\ HasRefs(RemoveDirectory(s, d, name), r)
  <1>1. PICK l, n, x : l = Lookup(s, d, name) /\ n = l.node /\ x = l.fs
    OBVIOUS
  <1>2. r \in Counts
    BY DEF HasRefs
  <1>3. n \in Pointers /\ HasRefs(x, More(r, n))
    BY <1>1, LookupTakes DEF Takes
  <1>4. HasRefs(Delete(x, n), r) /\ HasRefs(ReleaseInode(x, n), r)
    BY <1>2, <1>3, DeleteGives, ReleaseGives
  <1>5. n = NullInode => HasRefs(x, r)
    BY <1>2, <1>3, MoreFacts
  <1>6. FsRemove(s, d, name) = RemoveInode(x, n)
    BY <1>1 DEF FsRemove
  <1>7. RemoveDirectory(s, d, name) = RemoveDirInode(x, n)
    BY <1>1 DEF RemoveDirectory
  <1>8. HasRefs(RemoveInode(x, n), r)
    BY <1>4, <1>5 DEF RemoveInode
  <1>9. HasRefs(RemoveDirInode(x, n), r)
    BY <1>4, <1>5 DEF RemoveDirInode
  <1> QED BY <1>6, <1>7, <1>8, <1>9

Calls == {"create_file", "remove", "create_directory", "remove_directory"}

LEMMA FsCallKeeps ==
  ASSUME NEW s, NEW r, HasRefs(s, r), NEW call \in Calls, NEW d, NEW name
  PROVE  HasRefs(FsCall(call, s, d, name), r)
  <1>1. IsVolume(s)
    BY DEF HasRefs
  <1>2. CASE call = "create_file"
    <2>1. HasRefs(CreateFile(s, d, name), r)
      BY <1>1, CreateFileSame, SamePoolRefs
    <2> QED BY <1>2, <2>1 DEF FsCall
  <1>3. CASE call = "remove"
    BY <1>3, RemoveGives DEF FsCall
  <1>4. CASE call = "create_directory"
    <2>1. HasRefs(CreateDirectory(s, d, name), r)
      BY <1>1, CreateDirectorySame, SamePoolRefs
    <2> QED BY <1>4, <2>1 DEF FsCall
  <1>5. CASE call = "remove_directory"
    BY <1>5, RemoveGives DEF FsCall
  <1> QED BY <1>2, <1>3, <1>4, <1>5 DEF Calls

(***************************************************************************)
(* append() changes the start and the size of an inode, update_entry()     *)
(* only the directory.                                                     *)
(***************************************************************************)
LEMMA AppendKeeps ==
  ASSUME NEW s, NEW r, HasRefs(s, r), NEW n, NEW k
  PROVE  /\ HasRefs(AppendData(s, n, k), r)
         /\ HasRefs(UpdateEntry(AppendData(s, n, k), n), r)
  <1>1. IsVolume(s) /\ IsPool(s.inode)
    BY DEF HasRefs
  <1>2. PICK u : u = AppendData(s, n, k)
    OBVIOUS
  <1>3. PICK F, D, a, z :
          u = [s EXCEPT !.fat = F, !.dirs = D, !.inode[n].start = a, !.inode[n].size = z]
    BY <1>2 DEF AppendData
  <1>4. PICK P : /\ P = [s.inode EXCEPT ![n].start = a, ![n].size = z]
                 /\ u = [fat |-> F, dirs |-> D, inode |-> P]
    BY <1>1, <1>3 DEF IsVolume
  <1>5. IsPool(P) /\ \A m \in Inodes : P[m].ref = s.inode[m].ref
    <2>1. PICK Q, c : Q = s.inode /\ c = Q[n]
      OBVIOUS
    <2>2. Q = [m \in Inodes |-> Q[m]] /\ \A m \in Inodes : IsInode(Q[m])
      BY <1>1, <2>1 DEF IsPool
    <2>3. PICK d, R : d = [c EXCEPT !.start = a] /\ R = [Q EXCEPT ![n] = d]
      OBVIOUS
    <2>4. PICK e : e = [d EXCEPT !.size = z]
      OBVIOUS
    <2>5. P = [R EXCEPT ![n].size = z]
      BY <1>4, <2>1, <2>3
    <2>6. CASE n \in Inodes
      <3>1. /\ c = [start |-> c.start, size |-> c.size, dir |-> c.dir,
                    loc |-> c.loc, ref |-> c.ref]
            /\ c.ref \in Nat
        BY <2>1, <2>2, <2>6 DEF IsInode
      <3>2. d = [start |-> a, size |-> c.size, dir |-> c.dir,
                 loc |-> c.loc, ref |-> c.ref]
        BY <2>3, <3>1
      <3>3. e = [start |-> a, size |-> z, dir |-> c.dir, loc |-> c.loc, ref |-> c.ref]
        BY <2>4, <3>2
      <3>4. IsInode(e) /\ e.ref = c.ref
        BY <3>1, <3>3 DEF IsInode
      <3>5. R[n] = d
        BY <2>2, <2>3, <2>6
      <3>6. P = [R EXCEPT ![n] = e]
        BY <2>4, <2>5, <3>5
      <3>7. P = [m \in Inodes |-> IF m = n THEN e ELSE Q[m]]
        BY <2>2, <2>3, <3>6
      <3> QED BY <2>1, <2>2, <3>4, <3>7 DEF IsPool
    <2>7. CASE n \notin Inodes
      <3>1. R = Q
        BY <2>2, <2>3, <2>7
      <3>2. P = Q
        BY <2>2, <2>5, <2>7, <3>1
      <3> QED BY <1>1, <2>1, <3>2
    <2> QED BY <2>6, <2>7
  <1>6. HasRefs(u, r)
    BY <1>4, <1>5 DEF HasRefs, IsVolume
  <1>7. SamePool(u, UpdateEntry(u, n))
    <2>1. IsVolume(u)
      BY <1>6 DEF HasRefs
    <2>2. PICK loc, a2, z2 :
            UpdateEntry(u, n) = [u EXCEPT !.dirs[loc[1]][loc[2]].size = z2,
                                          !.dirs[loc[1]][loc[2]].start = a2]
      BY DEF UpdateEntry
    <2>3. PICK X, Y : /\ X = [u.dirs EXCEPT ![loc[1]][loc[2]].size = z2]
                      /\ Y = [X EXCEPT ![loc[1]][loc[2]].start = a2]
      OBVIOUS
    <2>4. [u EXCEPT !.dirs[loc[1]][loc[2]].size = z2]
            = [fat |-> u.fat, dirs |-> X, inode |-> u.inode]
      BY <2>1, <2>3 DEF IsVolume
    <2>5. UpdateEntry(u, n) = [fat |-> u.fat, dirs |-> Y, inode |-> u.inode]
      BY <2>2, <2>3, <2>4, ZenonT(30)
    <2> QED BY <2>5 DEF SamePool, IsVolume
  <1>8. HasRefs(UpdateEntry(u, n), r)
    BY <1>6, <1>7, SamePoolRefs
  <1> QED BY <1>2, <1>6, <1>8

-----------------------------------------------------------------------------
(***************************************************************************)
(* The inodes the nodes stand for, no two for one inode; Refs(o) are the   *)
(* references they hold.                                                   *)
(***************************************************************************)
Uses(o, n) == \E f \in Files : o[f].node = n

Refs(o) == [n \in Inodes |-> IF Uses(o, n) THEN 1 ELSE 0]

OnePerInode(o) ==
  /\ \A f \in Files : o[f].node \in Pointers
  /\ \A f, g \in Files : o[f].node = o[g].node /\ o[f].node # NullInode => f = g

Exact(s, o) == OnePerInode(o) /\ HasRefs(s, Refs(o))

LEMMA RefsFacts ==
  ASSUME NEW o
  PROVE  /\ Refs(o) \in Counts
         /\ \A n \in Inodes : Refs(o)[n] = IF Uses(o, n) THEN 1 ELSE 0
  BY DEF Refs, Counts

(***************************************************************************)
(* Tables that stand for the same inodes.                                  *)
(***************************************************************************)
SameNodes(o, x) == \A f \in Files : x[f].node = o[f].node

LEMMA ExactSame ==
  ASSUME NEW s, NEW o, NEW x, Exact(s, o), SameNodes(o, x)
  PROVE  Exact(s, x)
  <1>1. Refs(x) = Refs(o)
    BY DEF Refs, SameNodes, Uses
  <1>2. OnePerInode(x)
    BY DEF Exact, SameNodes, OnePerInode
  <1> QED BY <1>1, <1>2 DEF Exact

(***************************************************************************)
(* x is o with inode n for the node f.                                     *)
(***************************************************************************)
Points(o, x, f, n) ==
  /\ x[f].node = n
  /\ \A g \in Files : g # f => x[g].node = o[g].node

LEMMA RefsMore ==
  ASSUME NEW o, NEW x, NEW f \in Files, NEW n \in Inodes,
         OnePerInode(o), o[f].node = NullInode, ~ Uses(o, n), Points(o, x, f, n)
  PROVE  OnePerInode(x) /\ Refs(x) = More(Refs(o), n)
  <1>1. NullInode \notin Inodes
    BY PointerFacts
  <1>2. OnePerInode(x)
    <2>1. \A g \in Files : x[g].node \in Pointers
      BY DEF OnePerInode, Points, Pointers
    <2>2. ASSUME NEW g \in Files, NEW h \in Files,
                 x[g].node = x[h].node, x[g].node # NullInode
          PROVE  g = h
      <3>1. CASE g # f /\ h # f
        BY <2>2, <3>1 DEF OnePerInode, Points
      <3>2. CASE g = f \/ h = f
        BY <2>2, <3>2 DEF Uses, Points
      <3> QED BY <3>1, <3>2
    <2> QED BY <2>1, <2>2 DEF OnePerInode
  <1>3. PICK r, q : r = Refs(o) /\ q = Refs(x)
    OBVIOUS
  <1>4. ASSUME NEW m \in Inodes PROVE q[m] = IF m = n THEN r[m] + 1 ELSE r[m]
    <2>1. /\ q[m] = IF Uses(x, m) THEN 1 ELSE 0
          /\ r[m] = IF Uses(o, m) THEN 1 ELSE 0
      BY <1>3, RefsFacts
    <2>2. CASE m = n
      BY <2>1, <2>2 DEF Uses, Points
    <2>3. CASE m # n
      <3>1. Uses(x, m) <=> Uses(o, m)
        BY <1>1, <2>3 DEF Uses, Points
      <3> QED BY <2>1, <2>3, <3>1
    <2> QED BY <2>2, <2>3
  <1>5. q \in Counts
    BY <1>3, RefsFacts
  <1>6. q = More(r, n)
    BY <1>4, <1>5 DEF More, Counts
  <1> QED BY <1>2, <1>3, <1>6

(***************************************************************************)
(* A node is put into a free slot; a node gives back its inode.            *)
(***************************************************************************)
LEMMA ExactPut ==
  ASSUME NEW s, NEW o, NEW x, NEW f \in Files, NEW n \in Inodes,
         OnePerInode(o), HasRefs(s, More(Refs(o), n)),
         o[f].node = NullInode, ~ Uses(o, n), Points(o, x, f, n)
  PROVE  Exact(s, x)
  BY RefsMore DEF Exact

LEMMA ExactDrop ==
  ASSUME NEW s, NEW o, NEW x, NEW f \in Files, Exact(s, o), Points(o, x, f, NullInode)
  PROVE  Exact(ReleaseInode(s, o[f].node), x)
  <1>1. NullInode \notin Inodes
    BY PointerFacts
  <1>2. CASE o[f].node = NullInode
    <2>1. SameNodes(o, x)
      BY <1>2 DEF Points, SameNodes
    <2>2. ReleaseInode(s, o[f].node) = s
      BY <1>2 DEF ReleaseInode
    <2> QED BY <2>1, <2>2, ExactSame
  <1>3. CASE o[f].node # NullInode
    <2>1. PICK n : n = o[f].node
      OBVIOUS
    <2>2. n \in Inodes /\ n \in Pointers /\ OnePerInode(o) /\ HasRefs(s, Refs(o))
      BY <1>3, <2>1 DEF Exact, OnePerInode, Pointers
    <2>3. /\ x[f].node = NullInode /\ ~ Uses(x, n) /\ Points(x, o, f, n)
      BY <1>3, <2>1, <2>2 DEF Points, Uses, OnePerInode
    <2>4. OnePerInode(x)
      <3>1. \A g \in Files : x[g].node \in Pointers
        BY <2>2, <2>3 DEF OnePerInode, Points, Pointers
      <3>2. ASSUME NEW g \in Files, NEW h \in Files,
                   x[g].node = x[h].node, x[g].node # NullInode
            PROVE  g = h
        <4>1. g # f /\ h # f
          BY <2>3, <3>2
        <4> QED BY <2>2, <3>2, <4>1 DEF OnePerInode, Points
      <3> QED BY <3>1, <3>2 DEF OnePerInode
    <2>5. Refs(o) = More(Refs(x), n)
      BY <2>2, <2>3, <2>4, RefsMore
    <2>6. HasRefs(s, More(Refs(x), n)) /\ Refs(x) \in Counts
      BY <2>2, <2>5, RefsFacts
    <2>7. HasRefs(ReleaseInode(s, n), Refs(x))
      BY <2>2, <2>6, ReleaseGives
    <2> QED BY <2>1, <2>4, <2>7 DEF Exact
  <1> QED BY <1>2, <1>3

(***************************************************************************)
(* The tables a call works on.                                             *)
(***************************************************************************)
ExactTables(t) ==
  /\ IsTables(t)
  /\ t.openfile = [f \in Files |-> t.openfile[f]]
  /\ Exact(t.fs, t.openfile)

LEMMA SettleExact ==
  ASSUME NEW t, ExactTables(t), NEW f \in Files
  PROVE  ExactTables(Settle(t, f))
  <1>1. CASE t.openfile[f].ref > 0
    BY <1>1 DEF Settle
  <1>2. CASE ~ (t.openfile[f].ref > 0)
    <2>1. PICK o, s, x, u : /\ o = t.openfile /\ s = t.fs
                            /\ x = [o EXCEPT ![f] = NoNode]
                            /\ u = ReleaseInode(s, o[f].node)
      OBVIOUS
    <2>2. Settle(t, f) = [fs |-> u, openfile |-> x]
      BY <1>2, <2>1 DEF Settle
    <2>3. o = [g \in Files |-> o[g]] /\ Exact(s, o)
      BY <2>1 DEF ExactTables
    <2>4. x = [g \in Files |-> x[g]] /\ Points(o, x, f, NullInode)
      BY <2>1, <2>3 DEF Points, NoNode
    <2>5. Exact(u, x)
      BY <2>1, <2>3, <2>4, ExactDrop
    <2> QED BY <2>2, <2>4, <2>5 DEF ExactTables, IsTables
  <1> QED BY <1>1, <1>2

LEMMA ReleaseLookupExact ==
  ASSUME NEW t, ExactTables(t), NEW f \in Files \cup {NoFile}
  PROVE  ExactTables(ReleaseLookup(t, f))
  BY SettleExact DEF ReleaseLookup

(***************************************************************************)
(* lookup(path).                                                           *)
(***************************************************************************)
LEMMA LookupPathExact ==
  ASSUME NEW t, ExactTables(t), NEW path, Len(path) \in Nat \ {0}
  PROVE  /\ ExactTables(LookupPath(t, path).t)
         /\ LookupPath(t, path).file \in Files \cup {NoFile}
  <1>1. PICK o, r, w, l : /\ o = t.openfile /\ r = Refs(o) /\ w = Walk(t.fs, path)
                          /\ l = LookupPath(t, path)
    OBVIOUS
  <1>2. /\ IsTables(t) /\ o = [f \in Files |-> o[f]]
        /\ OnePerInode(o) /\ HasRefs(t.fs, r) /\ r \in Counts
    BY <1>1, RefsFacts DEF ExactTables, Exact
  <1>3. IsWalk(w, r) /\ (~ w.lost => w.node \in Inodes)
    BY <1>1, <1>2, WalkTakes
  <1>4. w.node \in Pointers /\ HasRefs(w.fs, More(r, w.node))
    BY <1>3 DEF IsWalk, Takes
  <1>5. l = LookupEnd(t, w)
    BY <1>1 DEF LookupPath
  <1>6. ASSUME NEW s, HasRefs(s, r)
        PROVE  ExactTables([t EXCEPT !.fs = s])
    <2>1. [t EXCEPT !.fs = s] = [fs |-> s, openfile |-> o]
      BY <1>1, <1>2 DEF IsTables
    <2>2. Exact(s, o)
      BY <1>1, <1>2, <1>6 DEF Exact
    <2> QED BY <1>2, <2>1, <2>2 DEF ExactTables, IsTables
  <1>7. CASE w.lost
    <2>1. HasRefs(w.fs, r)
      BY <1>2, <1>3, <1>4, <1>7, MoreFacts DEF IsWalk
    <2>2. l = [t |-> [t EXCEPT !.fs = w.fs], file |-> NoFile]
      BY <1>5, <1>7 DEF LookupEnd
    <2> QED BY <1>1, <1>6, <2>1, <2>2
  <1>8. CASE ~ w.lost
    <2>1. PICK s, n, same, free : /\ s = w.fs /\ n = w.node
                                  /\ same = FilesOf(t, n) /\ free = FreeFiles(t)
      OBVIOUS
    <2>2. l = FileFor(t, s, n, same)
      BY <1>5, <1>8, <2>1 DEF LookupEnd
    <2>3. n \in Inodes /\ HasRefs(s, More(r, n)) /\ n \in Pointers
      BY <1>3, <1>4, <1>8, <2>1
    <2>4. /\ free \in SUBSET (0 .. MaxOpenFiles)
          /\ same \in SUBSET (0 .. MaxOpenFiles)
          /\ MaxOpenFiles \in Nat
          /\ \A f \in free : f \in Files /\ o[f] = NoNode
          /\ \A f \in same : f \in Files
      <3>1. free \subseteq Files /\ \A f \in free : o[f] = NoNode
        BY <1>1, <2>1 DEF FreeFiles
      <3>2. same \subseteq Files
        BY <2>1 DEF FilesOf
      <3>3. Files \subseteq 0 .. MaxOpenFiles /\ MaxOpenFiles \in Nat
        BY DEF Files
      <3> QED BY <3>1, <3>2, <3>3
    <2>5. CASE same = {} /\ free # {}
      <3>1. PICK f, x : f = Min(free) /\ x = [o EXCEPT ![f] = [node |-> n, ref |-> 0]]
        OBVIOUS
      <3>2. f \in free
        BY <2>4, <2>5, <3>1, MinIn
      <3>3. f \in Files /\ o[f].node = NullInode
        BY <2>4, <3>2 DEF NoNode
      <3>4. ~ Uses(o, n)
        BY <1>1, <2>1, <2>3, <2>5, PointerFacts DEF FilesOf, Uses, NoNode
      <3>5. x = [g \in Files |-> x[g]] /\ Points(o, x, f, n)
        BY <1>2, <3>1, <3>3 DEF Points
      <3>6. Exact(s, x)
        BY <1>1, <1>2, <2>3, <3>3, <3>4, <3>5, ExactPut
      <3>7. l = [t |-> [fs |-> s, openfile |-> x], file |-> f]
        BY <1>1, <2>1, <2>2, <2>5, <3>1 DEF FileFor
      <3>8. ExactTables(l.t)
        BY <3>5, <3>6, <3>7 DEF ExactTables, IsTables
      <3> QED BY <1>1, <3>3, <3>7, <3>8
    <2>6. CASE ~ (same = {} /\ free # {})
      <3>1. PICK u, f : /\ u = ReleaseInode(s, n)
                        /\ f = (IF same = {} THEN NoFile ELSE Min(same))
        OBVIOUS
      <3>2. l = [t |-> [t EXCEPT !.fs = u], file |-> f]
        BY <2>1, <2>2, <2>6, <3>1 DEF FileFor
      <3>3. same # {} => Min(same) \in same
        BY <2>4, MinIn
      <3>4. HasRefs(u, r)
        BY <1>2, <2>3, <3>1, ReleaseGives
      <3>5. f \in Files \cup {NoFile}
        BY <2>4, <3>1, <3>3
      <3> QED BY <1>1, <1>6, <3>2, <3>4, <3>5
    <2> QED BY <2>5, <2>6
  <1> QED BY <1>7, <1>8

-----------------------------------------------------------------------------
(***************************************************************************)
(* The inductive invariant, and the actions.                               *)
(***************************************************************************)
InodeInv == CountInv /\ Exact(fs, openfile)

LEMMA TablesExact == InodeInv => ExactTables(Tables) /\ IsNodes(Tables.openfile)
  BY DEF InodeInv, CountInv, IsNodes, ExactTables, Tables, IsTables

LEMMA BecomeExact ==
  ASSUME NEW t, ExactTables(t), Become(t)
  PROVE  Exact(fs, openfile)'
  BY DEF ExactTables, Become

(***************************************************************************)
(* A reference more or less leaves the inodes alone.                       *)
(***************************************************************************)
LEMMA RefExact ==
  ASSUME NEW t, ExactTables(t), IsNodes(t.openfile), NEW f \in Files, NEW d
  PROVE  ExactTables([t EXCEPT !.openfile[f].ref = d])
  <1>1. PICK o, e, x : /\ o = t.openfile /\ e = [node |-> o[f].node, ref |-> d]
                       /\ x = [o EXCEPT ![f] = e]
    OBVIOUS
  <1>2. /\ IsTables(t) /\ Exact(t.fs, o) /\ o = [g \in Files |-> o[g]]
        /\ o[f] = [node |-> o[f].node, ref |-> o[f].ref]
    BY <1>1 DEF ExactTables, IsNodes
  <1>3. [o[f] EXCEPT !.ref = d] = e
    BY <1>1, <1>2
  <1>4. [t EXCEPT !.openfile[f].ref = d] = [fs |-> t.fs, openfile |-> x]
    <2>1. [t EXCEPT !.openfile[f].ref = d]
            = [fs |-> t.fs, openfile |-> [o EXCEPT ![f].ref = d]]
      BY <1>1, <1>2 DEF IsTables
    <2>2. [o EXCEPT ![f].ref = d] = x
      BY <1>1, <1>3
    <2> QED BY <2>1, <2>2
  <1>5. x = [g \in Files |-> x[g]] /\ SameNodes(o, x)
    BY <1>1, <1>2 DEF SameNodes
  <1>6. Exact(t.fs, x)
    BY <1>2, <1>5, ExactSame
  <1> QED BY <1>4, <1>5, <1>6 DEF ExactTables, IsTables

LEMMA PathFacts ==
  ASSUME NEW path \in Paths
  PROVE  /\ Len(path) \in Nat \ {0}
         /\ Len(path) # 1 => Len(Front(path)) \in Nat \ {0}
  <1>1. path \in Seq(Names) /\ path # <<>>
    OBVIOUS
  <1>2. Len(path) \in Nat \ {0}
    BY <1>1
  <1>3. ASSUME Len(path) # 1 PROVE Len(Front(path)) \in Nat \ {0}
    <2>1. Front(path) = SubSeq(path, 1, Len(path) - 1)
      BY DEF Front
    <2>2. Len(SubSeq(path, 1, Len(path) - 1)) = Len(path) - 1
      <3>1. PICK m \in Nat : m = Len(path) - 1
        BY <1>2
      <3>2. \A i \in 1 .. m : path[i] \in Names
        BY <1>1, <3>1
      <3>3. 1 \in Int /\ m \in Int /\ 1 <= m /\ m - 1 + 1 = m
        BY <1>2, <1>3, <3>1
      <3>4. Len(SubSeq(path, 1, m)) = IF 1 <= m THEN m - 1 + 1 ELSE 0
        BY <3>2, <3>3, SubSeqProperties
      <3> QED BY <3>1, <3>3, <3>4
    <2> QED BY <1>2, <1>3, <2>1, <2>2
  <1> QED BY <1>2, <1>3

LEMMA ExactOpen ==
  ASSUME InodeInv, NEW p \in Procs, NEW path \in Paths, Open(p, path)
  PROVE  Exact(fs, openfile)'
  <1>1. PICK t, l : t = Tables /\ l = LookupPath(t, path)
    OBVIOUS
  <1>2. ExactTables(t) /\ IsNodes(t.openfile) /\ IsTables(t)
    BY <1>1, TablesExact DEF ExactTables
  <1>3. ExactTables(l.t) /\ l.file \in Files \cup {NoFile}
    BY <1>1, <1>2, PathFacts, LookupPathExact
  <1>4. CASE Become(ReleaseLookup(l.t, l.file))
    BY <1>3, <1>4, ReleaseLookupExact, BecomeExact
  <1>5. CASE l.file # NoFile /\ Become([l.t EXCEPT !.openfile[l.file].ref = @ + 1])
    <2>1. Found(t.openfile, l) \/ Placed(t.openfile, l)
      BY <1>1, <1>2, LookupPathFacts
    <2>2. l.file \in Files /\ IsNodes(l.t.openfile)
      BY <1>2, <1>5, <2>1, LookupNodes
    <2>3. PICK u, d : /\ d = l.t.openfile[l.file].ref + 1
                      /\ u = [l.t EXCEPT !.openfile[l.file].ref = d]
      OBVIOUS
    <2>4. ExactTables(u)
      BY <1>3, <2>2, <2>3, RefExact
    <2>5. Become(u)
      BY <1>5, <2>3
    <2> QED BY <2>4, <2>5, BecomeExact
  <1> QED BY <1>1, <1>4, <1>5 DEF Open

LEMMA ExactVisit ==
  ASSUME InodeInv, NEW p \in Procs, NEW path \in Paths, Visit(p, path)
  PROVE  Exact(fs, openfile)'
  <1>1. PICK t, l : t = Tables /\ l = LookupPath(t, path)
    OBVIOUS
  <1>2. ExactTables(l.t) /\ l.file \in Files \cup {NoFile}
    BY <1>1, TablesExact, PathFacts, LookupPathExact
  <1>3. Become(ReleaseLookup(l.t, l.file))
    BY <1>1 DEF Visit
  <1> QED BY <1>2, <1>3, ReleaseLookupExact, BecomeExact

LEMMA ExactClose ==
  ASSUME InodeInv, NEW p \in Procs, NEW i \in Fds, Close(p, i)
  PROVE  Exact(fs, openfile)'
  <1>1. PICK t, f : t = Tables /\ f = fdTable[p][i].file
    OBVIOUS
  <1>2. ExactTables(t) /\ IsNodes(t.openfile) /\ f \in Files \cup {NoFile}
    BY <1>1, TablesExact DEF InodeInv, CountInv, IsFds
  <1>3. Become(CloseFile(t, f))
    BY <1>1 DEF Close
  <1>4. ExactTables(CloseFile(t, f))
    <2>1. CASE f = NoFile
      BY <1>2, <2>1 DEF CloseFile
    <2>2. CASE f # NoFile
      <3>1. PICK d, u : /\ d = t.openfile[f].ref - 1
                        /\ u = [t EXCEPT !.openfile[f].ref = d]
        OBVIOUS
      <3>2. ExactTables(u)
        BY <1>2, <2>2, <3>1, RefExact
      <3>3. CloseFile(t, f) = Settle(u, f)
        BY <2>2, <3>1 DEF CloseFile
      <3> QED BY <1>2, <2>2, <3>2, <3>3, SettleExact
    <2> QED BY <2>1, <2>2
  <1> QED BY <1>3, <1>4, BecomeExact

LEMMA ExactFork ==
  ASSUME InodeInv, NEW p \in Procs, NEW q \in Procs, Fork(p, q)
  PROVE  Exact(fs, openfile)'
  <1>1. PICK o, x : o = openfile /\ x = openfile'
    OBVIOUS
  <1>2. /\ Exact(fs, o) /\ fs' = fs
        /\ \A f \in Files : o[f] = [node |-> o[f].node, ref |-> o[f].ref]
    BY <1>1 DEF InodeInv, CountInv, IsNodes, Fork
  <1>3. ASSUME NEW f \in Files PROVE x[f].node = o[f].node
    <2>1. PICK d : x[f] = [o[f] EXCEPT !.ref = d]
      BY <1>1 DEF Fork, ForkRefs
    <2> QED BY <1>2, <2>1
  <1>4. SameNodes(o, x)
    BY <1>3 DEF SameNodes
  <1>5. Exact(fs, x)
    BY <1>2, <1>4, ExactSame
  <1> QED BY <1>1, <1>2, <1>5

LEMMA ExactAppendTo ==
  ASSUME InodeInv, NEW p \in Procs, NEW i \in Fds, NEW k, AppendTo(p, i, k)
  PROVE  Exact(fs, openfile)'
  <1>1. PICK n, s, u, o : /\ n = InodeOf(p, i) /\ s = AppendData(fs, n, k)
                          /\ u = UpdateEntry(s, n) /\ o = openfile
    OBVIOUS
  <1>2. openfile' = o /\ (fs' = fs \/ fs' = u)
    BY <1>1 DEF AppendTo
  <1>3. OnePerInode(o) /\ HasRefs(fs, Refs(o))
    BY <1>1 DEF InodeInv, Exact
  <1>4. HasRefs(u, Refs(o))
    BY <1>1, <1>3, AppendKeeps
  <1> QED BY <1>2, <1>3, <1>4 DEF Exact

(***************************************************************************)
(* The calls that work on the directory a path leads to.                   *)
(***************************************************************************)
LEMMA FsCallExact ==
  ASSUME NEW t, ExactTables(t), NEW call \in Calls, NEW d, NEW name
  PROVE  ExactTables([t EXCEPT !.fs = FsCall(call, t.fs, d, name)])
  <1>1. PICK s, u : s = FsCall(call, t.fs, d, name) /\ u = [t EXCEPT !.fs = s]
    OBVIOUS
  <1>2. HasRefs(s, Refs(t.openfile))
    BY <1>1, FsCallKeeps DEF ExactTables, Exact
  <1>3. u = [fs |-> s, openfile |-> t.openfile]
    BY <1>1 DEF ExactTables, IsTables
  <1>4. ExactTables(u)
    BY <1>2, <1>3 DEF ExactTables, IsTables, Exact
  <1> QED BY <1>1, <1>4

LEMMA InParentExact ==
  ASSUME InodeInv, NEW call \in Calls, NEW path \in Paths
  PROVE  ExactTables(InParent(call, path))
  <1>1. PICK t, name : t = Tables /\ name = Last(path)
    OBVIOUS
  <1>2. ExactTables(t)
    BY <1>1, TablesExact
  <1>3. CASE Len(path) = 1
    <2>1. InParent(call, path) = [t EXCEPT !.fs = FsCall(call, t.fs, Root, name)]
      BY <1>1, <1>3 DEF InParent
    <2>2. ExactTables([t EXCEPT !.fs = FsCall(call, t.fs, Root, name)])
      BY <1>2, FsCallExact
    <2> QED BY <2>1, <2>2
  <1>4. CASE Len(path) # 1
    <2>1. PICK l : l = LookupPath(t, Front(path))
      OBVIOUS
    <2>2. InParent(call, path) = AtParent(call, l, name)
      BY <1>1, <1>4, <2>1 DEF InParent
    <2>3. ExactTables(l.t) /\ l.file \in Files \cup {NoFile}
      BY <1>2, <1>4, <2>1, PathFacts, LookupPathExact
    <2>4. CASE l.file = NoFile
      BY <2>2, <2>3, <2>4 DEF AtParent
    <2>5. CASE l.file # NoFile
      <3>1. PICK n, d, x : /\ n = l.t.openfile[l.file].node /\ d = DirCluster(l.t.fs, n)
                           /\ x = [l.t EXCEPT !.fs = FsCall(call, l.t.fs, d, name)]
        OBVIOUS
      <3>2. ExactTables(x)
        BY <2>3, <3>1, FsCallExact
      <3>3. AtParent(call, l, name)
              = ReleaseLookup(IF l.t.fs.inode[n].dir THEN x ELSE l.t, l.file)
        BY <2>5, <3>1 DEF AtParent
      <3> QED BY <2>2, <2>3, <3>2, <3>3, ReleaseLookupExact
    <2> QED BY <2>4, <2>5
  <1> QED BY <1>3, <1>4

LEMMA ExactAtParent ==
  ASSUME InodeInv, NEW p \in Procs, NEW path \in Paths,
         \/ Create(p, path) \/ RemoveFile(p, path)
         \/ Rmdir(p, path) \/ Mkdir(p, path)
  PROVE  Exact(fs, openfile)'
  <1>1. PICK call \in Calls : Become(InParent(call, path))
    BY DEF Create, RemoveFile, Rmdir, Mkdir, Calls
  <1>2. PICK t : t = InParent(call, path)
    OBVIOUS
  <1>3. ExactTables(t)
    BY <1>2, InParentExact
  <1> QED BY <1>1, <1>2, <1>3, BecomeExact

(***************************************************************************)
(* release_process_fs(): no two nodes give back the same inode, so each    *)
(* that is given back is given back once.                                  *)
(***************************************************************************)
ReleasedPool(t, P) ==
  /\ t.fs = [fs EXCEPT !.inode = P]
  /\ \A n \in Inodes : P[n] = IF Uses(t.openfile, n) \/ ~ Uses(openfile, n)
                             THEN fs.inode[n] ELSE FreeInode

LEMMA ReleaseProcessExact ==
  ASSUME InodeInv, NEW p \in Procs
  PROVE  /\ ExactTables(ReleaseProcess(Tables, p))
         /\ \E P : IsPool(P) /\ ReleasedPool(ReleaseProcess(Tables, p), P)
  <1>1. PICK t, o, s, r : t = Tables /\ o = t.openfile /\ s = t.fs /\ r = Refs(o)
    OBVIOUS
  <1>2. /\ IsTables(t) /\ OnePerInode(o) /\ HasRefs(s, r) /\ r \in Counts
        /\ \A f \in Files : o[f] = [node |-> o[f].node, ref |-> o[f].ref]
    BY <1>1, TablesExact, RefsFacts DEF ExactTables, Exact, IsNodes
  <1>3. PICK left, gone, given, x, P :
          /\ left = [f \in Files |-> o[f].ref
                       - Cardinality({i \in Fds : fdTable[p][i].file = f})]
          /\ gone = {f \in Files : /\ {i \in Fds : fdTable[p][i].file = f} # {}
                                   /\ left[f] = 0}
          /\ given = [n \in Inodes |-> Cardinality({f \in gone : o[f].node = n})]
          /\ x = [f \in Files |-> IF f \in gone THEN NoNode
                                  ELSE [o[f] EXCEPT !.ref = left[f]]]
          /\ P = [n \in Inodes |-> ReleasedInode(s.inode[n], given[n])]
    OBVIOUS
  <1>4. PICK u : u = [s EXCEPT !.inode = P]
    OBVIOUS
  <1>5. ReleaseProcess(t, p) = [fs |-> u, openfile |-> x]
    <2>1. \A f \in Files :
            left[f] = t.openfile[f].ref
                        - Cardinality({i \in Fds : fdTable[p][i].file = f})
      BY <1>1, <1>3
    <2>2. gone = {f \in Files :
                   /\ {i \in Fds : fdTable[p][i].file = f} # {}
                   /\ t.openfile[f].ref
                        - Cardinality({i \in Fds : fdTable[p][i].file = f}) = 0}
      BY <1>3, <2>1
    <2>3. P = [n \in Inodes |->
                 ReleasedInode(t.fs.inode[n],
                               Cardinality({f \in gone : t.openfile[f].node = n}))]
      BY <1>1, <1>3
    <2>4. x = [f \in Files |->
                 IF f \in gone THEN NoNode
                 ELSE [t.openfile[f] EXCEPT !.ref = t.openfile[f].ref
                         - Cardinality({i \in Fds : fdTable[p][i].file = f})]]
      BY <1>1, <1>3, <2>1
    <2>5. u = [t.fs EXCEPT !.inode =
                 [n \in Inodes |->
                    ReleasedInode(t.fs.inode[n],
                                  Cardinality({f \in gone : t.openfile[f].node = n}))]]
      BY <1>1, <1>4, <2>3
    <2> QED BY <2>2, <2>4, <2>5, Zenon DEF ReleaseProcess
  <1>6. \A f \in Files : x[f].node = IF f \in gone THEN NullInode ELSE o[f].node
    <2>1. ASSUME NEW f \in Files, f \notin gone PROVE x[f].node = o[f].node
      <3>1. PICK e, d : e = o[f] /\ d = left[f] /\ x[f] = [e EXCEPT !.ref = d]
        BY <1>3, <2>1
      <3> QED BY <1>2, <3>1
    <2>2. ASSUME NEW f \in Files, f \in gone PROVE x[f].node = NullInode
      BY <1>3, <2>2 DEF NoNode
    <2> QED BY <2>1, <2>2
  <1>7. OnePerInode(x)
    <2>1. \A f \in Files : x[f].node \in Pointers
      BY <1>2, <1>6 DEF OnePerInode, Pointers
    <2>2. \A f \in Files : x[f].node # NullInode => x[f].node = o[f].node
      BY <1>6
    <2> QED BY <1>2, <2>1, <2>2 DEF OnePerInode
  <1>8. ASSUME NEW n \in Inodes
        PROVE  /\ IsInode(P[n]) /\ P[n].ref = Refs(x)[n]
               /\ P[n] = IF Uses(x, n) \/ ~ Uses(o, n) THEN s.inode[n] ELSE FreeInode
    <2>1. PICK S, c : S = {f \in gone : o[f].node = n} /\ c = s.inode[n]
      OBVIOUS
    <2>2. n # NullInode
      BY PointerFacts
    <2>3. \A f, g \in S : f = g
      BY <1>2, <1>3, <2>1, <2>2 DEF OnePerInode
    <2>4. given[n] = IF S = {} THEN 0 ELSE 1
      <3>1. given[n] = Cardinality(S)
        BY <1>3, <2>1
      <3> QED BY <2>3, <3>1, AtMostOne
    <2>5. IsInode(c) /\ c.ref = r[n] /\ r[n] = IF Uses(o, n) THEN 1 ELSE 0
      BY <1>1, <1>2, <2>1, RefsFacts DEF HasRefs, IsPool
    <2>6. P[n] = ReleasedInode(c, given[n])
      BY <1>3, <2>1
    <2>7. Refs(x)[n] = IF Uses(x, n) THEN 1 ELSE 0
      BY RefsFacts
    <2>8. CASE S = {}
      <3>1. Uses(x, n) <=> Uses(o, n)
        BY <1>3, <1>6, <2>1, <2>2, <2>8 DEF Uses
      <3>2. P[n] = c
        BY <2>4, <2>6, <2>8 DEF ReleasedInode
      <3> QED BY <2>1, <2>5, <2>7, <3>1, <3>2
    <2>9. CASE S # {}
      <3>1. PICK f \in Files : f \in gone /\ o[f].node = n
        BY <1>3, <2>1, <2>9
      <3>2. Uses(o, n)
        BY <3>1 DEF Uses
      <3>3. ~ Uses(x, n)
        <4>1. ASSUME NEW g \in Files, x[g].node = n PROVE FALSE
          <5>1. g \notin gone /\ o[g].node = n
            BY <1>6, <2>2, <4>1
          <5>2. g = f
            BY <1>2, <2>2, <3>1, <5>1 DEF OnePerInode
          <5> QED BY <3>1, <5>1, <5>2
        <4> QED BY <4>1 DEF Uses
      <3>4. P[n] = FreeInode
        BY <2>4, <2>5, <2>6, <2>9, <3>2 DEF ReleasedInode
      <3> QED BY <2>7, <3>2, <3>3, <3>4, PointerFacts
    <2> QED BY <2>8, <2>9
  <1>9. IsVolume(u) /\ u.inode = P
    BY <1>2, <1>4 DEF HasRefs, IsVolume
  <1>10. IsPool(P)
    BY <1>3, <1>8 DEF IsPool
  <1>11. HasRefs(u, Refs(x))
    BY <1>8, <1>9, <1>10, RefsFacts DEF HasRefs
  <1>12. x = [f \in Files |-> x[f]]
    BY <1>3
  <1>13. ExactTables([fs |-> u, openfile |-> x])
    BY <1>7, <1>11, <1>12 DEF ExactTables, IsTables, Exact
  <1>14. ReleasedPool([fs |-> u, openfile |-> x], P)
    BY <1>1, <1>4, <1>8 DEF ReleasedPool, Tables
  <1> QED BY <1>1, <1>5, <1>10, <1>13, <1>14

LEMMA ExactRelease ==
  ASSUME InodeInv, NEW p \in Procs, Exit(p) \/ ReleasePCB(p)
  PROVE  Exact(fs, openfile)'
  <1>1. PICK t : t = ReleaseProcess(Tables, p)
    OBVIOUS
  <1>2. ExactTables(t)
    BY <1>1, ReleaseProcessExact
  <1>3. Become(t)
    BY <1>1 DEF Exit, ReleasePCB
  <1> QED BY <1>2, <1>3, BecomeExact

-----------------------------------------------------------------------------
LEMMA InodeInit == Init => InodeInv
  <1> SUFFICES ASSUME Init PROVE InodeInv
    OBVIOUS
  <1>1. \A f \in Files : openfile[f].node = NullInode
    BY DEF Init, NoNode
  <1>2. OnePerInode(openfile)
    BY <1>1 DEF OnePerInode, Pointers
  <1>3. \A n \in Inodes : ~ Uses(openfile, n)
    BY <1>1, PointerFacts DEF Uses
  <1>4. PICK r : r = Refs(openfile)
    OBVIOUS
  <1>5. r \in Counts /\ \A n \in Inodes : r[n] = 0
    BY <1>3, <1>4, RefsFacts
  <1>6. IsVolume(fs) /\ \A n \in Inodes : fs.inode[n] = FreeInode
    BY DEF Init, EmptyVolume, IsVolume
  <1>7. IsPool(fs.inode)
    BY <1>6, PointerFacts DEF Init, EmptyVolume, IsPool
  <1>8. HasRefs(fs, r)
    BY <1>5, <1>6, <1>7, PointerFacts DEF HasRefs
  <1> QED BY <1>2, <1>4, <1>8, CountInit DEF InodeInv, Exact

LEMMA InodeNext == InodeInv /\ [Next]_vars => InodeInv'
  <1> SUFFICES ASSUME InodeInv, [Next]_vars PROVE InodeInv'
    OBVIOUS
  <1>1. CountInv'
    BY CountNext DEF InodeInv, CountStep
  <1> SUFFICES Exact(fs, openfile)'
    BY <1>1 DEF InodeInv
  <1>0. UNCHANGED <<fs, openfile>> => Exact(fs, openfile)'
    BY DEF InodeInv
  <1>2. ASSUME NEW p \in Procs, NEW path \in Paths,
               \/ Open(p, path) \/ Create(p, path) \/ RemoveFile(p, path)
               \/ Rmdir(p, path) \/ Mkdir(p, path) \/ Visit(p, path)
        PROVE  Exact(fs, openfile)'
    BY <1>2, ExactOpen, ExactAtParent, ExactVisit
  <1>3. ASSUME NEW p \in Procs, NEW i \in Fds, Close(p, i)
        PROVE  Exact(fs, openfile)'
    BY <1>3, ExactClose
  <1>4. ASSUME NEW p \in Procs, NEW i \in Fds, NEW k \in Amounts,
               Transfer(p, i, k) \/ AppendTo(p, i, k)
        PROVE  Exact(fs, openfile)'
    BY <1>0, <1>4, ExactAppendTo DEF Transfer
  <1>5. ASSUME NEW p \in Procs, NEW i \in Fds, NEW offset \in 0 .. MaxSize,
               Fseek(p, i, offset)
        PROVE  Exact(fs, openfile)'
    BY <1>0, <1>5 DEF Fseek
  <1>6. ASSUME NEW p \in Procs, Exit(p) \/ ReleasePCB(p)
        PROVE  Exact(fs, openfile)'
    BY <1>6, ExactRelease
  <1>7. ASSUME NEW p \in Procs, Advance(p) \/ ExecveFails(p)
        PROVE  Exact(fs, openfile)'
    BY <1>0, <1>7 DEF Advance, ExecveFails
  <1>8. ASSUME NEW p \in Procs, NEW q \in Procs, Fork(p, q)
        PROVE  Exact(fs, openfile)'
    BY <1>8, ExactFork
  <1>9. CASE UNCHANGED vars
    BY <1>0, <1>9 DEF vars
  <1>10. DirPaths \subseteq Paths
    OBVIOUS
  <1> QED
    BY <1>2, <1>3, <1>4, <1>5, <1>6, <1>7, <1>8, <1>9, <1>10 DEF Next

(***************************************************************************)
(* An inode in the pool belongs to exactly one open-file node, which holds *)
(* its only reference: lookup, open, the calls on a parent directory and   *)
(* release_process_fs give back every inode they take, on paths of any     *)
(* length and whether they succeed or fail, so the pool never fills up     *)
(* with inodes nobody has open, and remove(), which refuses an inode with  *)
(* another reference, refuses exactly the files that are open.             *)
(***************************************************************************)
THEOREM InodesReturned == Spec => []InodesExact
  <1>1. InodeInv => InodesExact
    <2> SUFFICES ASSUME InodeInv, NEW n \in Inodes
                 PROVE  /\ fs.inode[n].ref <= 1
                        /\ fs.inode[n].ref
                             = Cardinality({f \in Files : openfile[f] # NoNode
                                                          /\ openfile[f].node = n})
      BY DEF InodesExact
    <2>1. PICK S : S = {f \in Files : openfile[f] # NoNode /\ openfile[f].node = n}
      OBVIOUS
    <2>2. n # NullInode
      BY PointerFacts
    <2>3. OnePerInode(openfile) /\ HasRefs(fs, Refs(openfile))
      BY DEF InodeInv, Exact
    <2>4. fs.inode[n].ref = IF Uses(openfile, n) THEN 1 ELSE 0
      BY <2>3, RefsFacts DEF HasRefs
    <2>5. Uses(openfile, n) <=> S # {}
      BY <2>1, <2>2 DEF Uses, NoNode
    <2>6. \A f, g \in S : f = g
      BY <2>1, <2>2, <2>3 DEF OnePerInode
    <2>7. Cardinality(S) = IF S = {} THEN 0 ELSE 1
      BY <2>6, AtMostOne
    <2> QED BY <2>1, <2>4, <2>5, <2>7
  <1> QED BY <1>1, InodeInit, InodeNext, PTL DEF Spec
-----------------------------------------------------------------------------
(***************************************************************************)
(* For OffsetInFile: the directory entries that lookup() reads are entries *)
(* and the inodes it loads have the sizes of files.  A chain, whatever the *)
(* FAT, is a sequence of clusters: the recursive definition of walk        *)
(* defines a function.                                                     *)
(***************************************************************************)
Longer(s, before) ==
  IF s.fat[Last(before)] \in Clusters THEN Append(before, s.fat[Last(before)])
  ELSE before

IsChain(r, s, c, n) ==
  r = [k \in 0 .. n |-> IF k = 0 THEN <<c>> ELSE Longer(s, r[k - 1])]

LEMMA ChainExists ==
  ASSUME NEW s, NEW c
  PROVE  \A n \in Nat : \E r : IsChain(r, s, c, n)
  <1>1. PICK S : S = {n \in Nat : \E r : IsChain(r, s, c, n)}
    OBVIOUS
  <1>2. 0 \in S
    <2>1. PICK r : r = [k \in 0 .. 0 |-> <<c>>]
      OBVIOUS
    <2>2. IsChain(r, s, c, 0)
      BY <2>1 DEF IsChain
    <2> QED BY <1>1, <2>2
  <1>3. ASSUME NEW n \in Nat, n \in S PROVE n + 1 \in S
    <2>1. PICK q : IsChain(q, s, c, n)
      BY <1>1, <1>3
    <2>2. PICK r : r = [k \in 0 .. n + 1 |-> IF k = n + 1 THEN Longer(s, q[n]) ELSE q[k]]
      OBVIOUS
    <2>3. ASSUME NEW k \in 0 .. n + 1
          PROVE  r[k] = IF k = 0 THEN <<c>> ELSE Longer(s, r[k - 1])
      <3>1. CASE k = n + 1
        BY <2>2, <3>1
      <3>2. CASE k \in 0 .. n
        <4>1. q[k] = IF k = 0 THEN <<c>> ELSE Longer(s, q[k - 1])
          BY <2>1, <3>2 DEF IsChain
        <4> QED BY <2>2, <3>2, <4>1
      <3> QED BY <3>1, <3>2
    <2>4. IsChain(r, s, c, n + 1)
      BY <2>2, <2>3 DEF IsChain
    <2> QED BY <1>1, <2>4
  <1>4. \A n \in Nat : n \in S
    BY <1>2, <1>3, NatInduct
  <1> QED BY <1>1, <1>4

LEMMA ChainIsLast ==
  ASSUME NEW s, NEW c, c # NoCluster
  PROVE  \E r : IsChain(r, s, c, ClusterCount) /\ Chain(s, c) = r[ClusterCount]
  <1>1. \E r : IsChain(r, s, c, ClusterCount)
    BY ChainExists
  <1>2. PICK r : r = CHOOSE x : IsChain(x, s, c, ClusterCount)
    OBVIOUS
  <1>3. IsChain(r, s, c, ClusterCount)
    BY <1>1, <1>2, Zenon
  <1>4. Chain(s, c) = r[ClusterCount]
    BY <1>2, Zenon DEF Chain, IsChain, Longer
  <1> QED BY <1>3, <1>4

LEMMA ChainOfClusters ==
  ASSUME NEW s, NEW c \in Clusters
  PROVE  Chain(s, c) \in Seq(Clusters) /\ Len(Chain(s, c)) \in Nat
  <1>1. c # NoCluster
    BY DEF Clusters, NoCluster
  <1>2. PICK r : IsChain(r, s, c, ClusterCount) /\ Chain(s, c) = r[ClusterCount]
    BY <1>1, ChainIsLast
  <1>3. r[0] = <<c>> /\ \A k \in 0 .. ClusterCount - 1 : r[k + 1] = Longer(s, r[k])
    <2>1. r[0] = <<c>>
      BY <1>2 DEF IsChain
    <2>2. ASSUME NEW k \in 0 .. ClusterCount - 1 PROVE r[k + 1] = Longer(s, r[k])
      <3>1. PICK l \in 1 .. ClusterCount : l = k + 1
        OBVIOUS
      <3>2. r[l] = Longer(s, r[l - 1])
        BY <1>2 DEF IsChain
      <3> QED BY <3>1, <3>2
    <2> QED BY <2>1, <2>2
  <1>4. PICK S : S = {k \in 0 .. ClusterCount : r[k] \in Seq(Clusters)}
    OBVIOUS
  <1>5. 0 \in S
    <2>1. <<c>> \in Seq(Clusters)
      OBVIOUS
    <2>2. r[0] \in Seq(Clusters)
      BY <1>3, <2>1
    <2>3. 0 \in 0 .. ClusterCount
      OBVIOUS
    <2> QED BY <1>4, <2>2, <2>3
  <1>6. ASSUME NEW k \in 0 .. ClusterCount - 1, k \in S PROVE k + 1 \in S
    <2>1. r[k] \in Seq(Clusters)
      BY <1>4, <1>6
    <2>2. Longer(s, r[k]) \in Seq(Clusters)
      BY <2>1 DEF Longer
    <2>3. PICK l \in 0 .. ClusterCount : l = k + 1
      OBVIOUS
    <2> QED BY <1>3, <1>4, <2>2, <2>3
  <1>7. \A k \in 0 .. ClusterCount : k \in S
    BY <1>5, <1>6, UpInduction
  <1>8. Chain(s, c) \in Seq(Clusters)
    BY <1>2, <1>4, <1>7
  <1> QED BY <1>8, LenProperties

(***************************************************************************)
(* The places of the entries of a directory: Slots(d) in the root          *)
(* directory and in every cluster.                                         *)
(***************************************************************************)
Blocks == Clusters \cup {Root}

Slots(d) == IF d = Root THEN RootEntries ELSE EntriesPerCluster

IsPlace(loc) == loc[1] \in Blocks /\ loc[2] \in 1 .. Slots(loc[1])

LEMMA InCluster ==
  ASSUME NEW L \in Nat, NEW k \in 1 .. L * EntriesPerCluster
  PROVE  /\ ((k - 1) \div EntriesPerCluster) + 1 \in 1 .. L
         /\ ((k - 1) % EntriesPerCluster) + 1 \in 1 .. EntriesPerCluster
  <1>1. PICK E \in Nat \ {0} : E = EntriesPerCluster
    OBVIOUS
  <1>2. PICK q, m : q = (k - 1) \div E /\ m = (k - 1) % E
    OBVIOUS
  <1>3. k \in Nat /\ k >= 1 /\ k <= L * E
    BY <1>1
  <1>4. q \in Int /\ m \in 0 .. E - 1
    BY <1>1, <1>2, <1>3
  <1>5. k - 1 = q * E + m
    BY <1>1, <1>2, <1>3
  <1>6. q >= 0
    BY <1>1, <1>2, <1>3
  <1>7. ~ (q >= L)
    <2> SUFFICES ASSUME q >= L PROVE FALSE
      OBVIOUS
    <2>1. q * E >= L * E
      BY <1>1, <1>4
    <2> QED BY <1>1, <1>3, <1>4, <1>5, <2>1
  <1> QED BY <1>1, <1>2, <1>4, <1>6, <1>7

LEMMA LocationsArePlaces ==
  ASSUME NEW s, NEW d \in Blocks \cup {NoCluster}, NEW loc \in Range(Locations(s, d))
  PROVE  IsPlace(loc)
  <1>1. CASE d = Root
    <2>1. Locations(s, d) = [i \in 1 .. RootEntries |-> <<Root, i>>]
      BY <1>1 DEF Locations
    <2>2. PICK i \in 1 .. RootEntries : loc = <<Root, i>>
      BY <2>1 DEF Range
    <2> QED BY <2>2 DEF IsPlace, Blocks, Slots
  <1>2. CASE d = NoCluster
    <2>1. Chain(s, d) = <<>> /\ d # Root
      BY <1>2 DEF Chain, NoCluster, Root
    <2>2. Len(Chain(s, d)) = 0
      BY <2>1
    <2>3. \A k : k \notin 1 .. 0 * EntriesPerCluster
      OBVIOUS
    <2>4. PICK k \in 1 .. 0 * EntriesPerCluster : TRUE
      BY <2>1, <2>2 DEF Locations, Range
    <2> QED BY <2>3, <2>4
  <1>3. CASE d \in Clusters
    <2>1. d # Root
      BY <1>3 DEF Clusters, Root
    <2>2. PICK ch, L, E : ch = Chain(s, d) /\ L = Len(ch) /\ E = EntriesPerCluster
      OBVIOUS
    <2>3. ch \in Seq(Clusters) /\ L \in Nat
      BY <1>3, <2>2, ChainOfClusters
    <2>4. PICK k \in 1 .. L * E :
            loc = <<ch[((k - 1) \div E) + 1], ((k - 1) % E) + 1>>
      BY <2>1, <2>2 DEF Locations, Range
    <2>5. PICK i, j : i = ((k - 1) \div E) + 1 /\ j = ((k - 1) % E) + 1
      OBVIOUS
    <2>6. i \in 1 .. L /\ j \in 1 .. EntriesPerCluster
      BY <2>2, <2>5, <2>3, InCluster
    <2>7. ch[i] \in Clusters
      BY <2>2, <2>6, <2>3, ElementOfSeq
    <2>8. ch[i] # Root
      BY <2>7 DEF Clusters, Root
    <2>9. loc[1] = ch[i] /\ loc[2] = j
      BY <2>4, <2>5
    <2> QED BY <2>6, <2>7, <2>8, <2>9 DEF IsPlace, Blocks, Slots
  <1> QED BY <1>1, <1>2, <1>3 DEF Blocks

(***************************************************************************)
(* The volume: its FAT, its directories and what a file system call may    *)
(* read in an inode.  The sizes of the inodes in H are those of z.         *)
(***************************************************************************)
FatTyped(F) == F \in [Clusters -> Clusters \cup {FreeMark, EndOfChain}]

RowTyped(R, d) ==
  /\ R = [j \in 1 .. Slots(d) |-> R[j]]
  /\ \A j \in 1 .. Slots(d) : R[j] \in Entries

DirsTyped(D) ==
  /\ D = [d \in Blocks |-> D[d]]
  /\ \A d \in Blocks : RowTyped(D[d], d)

FieldsTyped(e) ==
  /\ e.start \in Clusters \cup {NoCluster}
  /\ e.size \in 0 .. MaxSize
  /\ e.dir \in BOOLEAN

Typed(s) ==
  /\ FatTyped(s.fat) /\ DirsTyped(s.dirs)
  /\ \A n \in Inodes : FieldsTyped(s.inode[n])

Sized(s, H, z) ==
  /\ Typed(s)
  /\ \A n \in Inodes : n \in H => s.inode[n].size = z[n]

LEMMA NoEntryTyped == NoEntry \in Entries
  BY DEF NoEntry, Entries, NoCluster

LEMMA EntryTyped ==
  ASSUME NEW s, DirsTyped(s.dirs), NEW loc, IsPlace(loc)
  PROVE  EntryAt(s, loc) \in Entries
  BY DEF DirsTyped, RowTyped, IsPlace, EntryAt

LEMMA FatSet ==
  ASSUME NEW F, FatTyped(F), NEW c, NEW v \in Clusters \cup {FreeMark, EndOfChain}
  PROVE  FatTyped([F EXCEPT ![c] = v])
  BY DEF FatTyped

LEMMA RowSet ==
  ASSUME NEW D, DirsTyped(D), NEW c, NEW R, c \in Blocks => RowTyped(R, c)
  PROVE  DirsTyped([D EXCEPT ![c] = R])
  <1>1. PICK X : X = [D EXCEPT ![c] = R]
    OBVIOUS
  <1>2. X = [d \in Blocks |-> IF d = c THEN R ELSE D[d]]
    BY <1>1 DEF DirsTyped
  <1>3. ASSUME NEW d \in Blocks PROVE RowTyped(X[d], d)
    <2>1. CASE d = c
      BY <1>2, <2>1
    <2>2. CASE d # c
      BY <1>2, <2>2 DEF DirsTyped
    <2> QED BY <2>1, <2>2
  <1> QED BY <1>1, <1>2, <1>3 DEF DirsTyped

LEMMA EntrySet ==
  ASSUME NEW D, DirsTyped(D), NEW a, NEW b, NEW e,
         a \in Blocks /\ b \in 1 .. Slots(a) => e \in Entries
  PROVE  DirsTyped([D EXCEPT ![a][b] = e])
  <1>1. PICK Q, R : Q = D[a] /\ R = [Q EXCEPT ![b] = e]
    OBVIOUS
  <1>2. [D EXCEPT ![a][b] = e] = [D EXCEPT ![a] = R]
    BY <1>1
  <1>3. ASSUME a \in Blocks PROVE RowTyped(R, a)
    <2>1. RowTyped(Q, a)
      BY <1>1, <1>3 DEF DirsTyped
    <2>2. PICK N : N = Slots(a)
      OBVIOUS
    <2>3. Q = [j \in 1 .. N |-> Q[j]] /\ \A j \in 1 .. N : Q[j] \in Entries
      BY <2>1, <2>2 DEF RowTyped
    <2>4. R = [j \in 1 .. N |-> R[j]]
      BY <1>1, <2>3
    <2>5. \A j \in 1 .. N : R[j] = IF j = b THEN e ELSE Q[j]
      BY <1>1, <2>3
    <2>6. \A j \in 1 .. N : R[j] \in Entries
      BY <1>3, <2>2, <2>3, <2>5
    <2> QED BY <2>2, <2>4, <2>6 DEF RowTyped
  <1> QED BY <1>2, <1>3, RowSet

LEMMA BlankTyped ==
  ASSUME NEW c \in Clusters
  PROVE  RowTyped(Blank(EntriesPerCluster), c)
  <1>1. Slots(c) = EntriesPerCluster
    BY DEF Slots, Clusters, Root
  <1> QED BY <1>1, NoEntryTyped DEF RowTyped, Blank

(***************************************************************************)
(* A change of one inode, and a change of the FAT and the directories.     *)
(***************************************************************************)
LEMMA SizedInode ==
  ASSUME NEW s, NEW H, NEW z, IsVolume(s), IsPool(s.inode), Sized(s, H, z),
         NEW n \in Inodes, NEW e, FieldsTyped(e), n \in H => e.size = z[n]
  PROVE  Sized(SetInode(s, n, e), H, z)
  <1>1. PICK P, u : P = [s.inode EXCEPT ![n] = e] /\ u = SetInode(s, n, e)
    OBVIOUS
  <1>2. u = [fat |-> s.fat, dirs |-> s.dirs, inode |-> P]
    BY <1>1 DEF IsVolume, SetInode
  <1>3. \A m \in Inodes : P[m] = IF m = n THEN e ELSE s.inode[m]
    BY <1>1 DEF IsPool
  <1>4. u.fat = s.fat /\ u.dirs = s.dirs /\ u.inode = P
    BY <1>2
  <1>5. \A m \in Inodes : FieldsTyped(P[m])
    BY <1>3 DEF Sized, Typed
  <1>6. \A m \in Inodes : m \in H => P[m].size = z[m]
    BY <1>3 DEF Sized
  <1>7. Sized(u, H, z)
    BY <1>4, <1>5, <1>6 DEF Sized, Typed
  <1> QED BY <1>1, <1>7

LEMMA SizedSame ==
  ASSUME NEW s, NEW H, NEW z, Sized(s, H, z), NEW u, SamePool(s, u),
         FatTyped(u.fat), DirsTyped(u.dirs)
  PROVE  Sized(u, H, z)
  BY DEF Sized, Typed, SamePool

(***************************************************************************)
(* lookup() of a name in a directory loads an inode only from a free slot, *)
(* release_inode() clears one only with its last reference.                *)
(***************************************************************************)
FirstClusters == Blocks \cup {NoCluster}

LEMMA SharedSized ==
  ASSUME NEW s, NEW H, NEW z, IsVolume(s), IsPool(s.inode), Sized(s, H, z),
         NEW n \in Inodes, NEW loc
  PROVE  Sized(SetInode(s, n, Shared(s.inode[n], loc)), H, z)
  <1>1. PICK e : e = Shared(s.inode[n], loc)
    OBVIOUS
  <1>2. FieldsTyped(e) /\ e.size = s.inode[n].size
    BY <1>1 DEF Shared, FieldsTyped, Sized, Typed
  <1>3. n \in H => e.size = z[n]
    BY <1>2 DEF Sized
  <1>4. Sized(SetInode(s, n, e), H, z)
    BY <1>2, <1>3, SizedInode
  <1> QED BY <1>1, <1>4

LEMMA LookupSized ==
  ASSUME NEW s, NEW H, NEW z, NEW r, HasRefs(s, r), Sized(s, H, z),
         \A n \in Inodes : n \in H => r[n] > 0,
         NEW d \in FirstClusters, NEW name
  PROVE  Sized(Lookup(s, d, name).fs, H, z)
  <1>1. PICK found : found = Named(s, d, name)
    OBVIOUS
  <1>2. IsVolume(s) /\ IsPool(s.inode) /\ DirsTyped(s.dirs)
    BY DEF HasRefs, Sized, Typed
  <1>3. NotFound(s).fs = s
    BY DEF NotFound
  <1>4. CASE found = {}
    BY <1>1, <1>3, <1>4 DEF Lookup, LookupAmong
  <1>5. CASE found # {}
    <2>1. PICK loc : loc = CHOOSE x \in found : TRUE
      OBVIOUS
    <2>2. loc \in found
      BY <1>5, <2>1
    <2>3. IsPlace(loc)
      BY <1>1, <2>2, LocationsArePlaces DEF Named, FirstClusters
    <2>4. PICK e, shared, free : /\ e = EntryAt(s, loc)
                                 /\ shared = InodesFor(s, e, loc) /\ free = FreeInodes(s)
      OBVIOUS
    <2>5. Lookup(s, d, name) = LookupEntry(s, e, loc, shared)
      BY <1>1, <1>5, <2>1, <2>4 DEF Lookup, LookupAmong, LookupAt
    <2>6. e \in Entries
      BY <1>2, <2>3, <2>4, EntryTyped
    <2>7. /\ shared \in SUBSET (0 .. MaxInodes) /\ free \in SUBSET (0 .. MaxInodes)
          /\ shared \subseteq Inodes /\ free \subseteq Inodes /\ MaxInodes \in Nat
          /\ \A n \in free : s.inode[n].ref = 0
      BY <2>4 DEF InodesFor, FreeInodes, Inodes
    <2>8. CASE shared # {}
      <3>1. PICK n \in Inodes : n = Min(shared)
        BY <2>7, <2>8, MinIn
      <3>2. LookupEntry(s, e, loc, shared) = ShareInode(s, n, loc)
        BY <2>8, <3>1 DEF LookupEntry
      <3>3. ShareInode(s, n, loc).fs = SetInode(s, n, Shared(s.inode[n], loc))
        BY <1>2, ShareIs
      <3> QED BY <1>2, <2>5, <3>2, <3>3, SharedSized
    <2>9. CASE shared = {} /\ free = {}
      BY <1>3, <2>4, <2>5, <2>9 DEF LookupEntry
    <2>10. CASE shared = {} /\ free # {}
      <3>1. PICK n : n = Min(free)
        OBVIOUS
      <3>2. n \in free
        BY <2>7, <2>10, <3>1, MinIn
      <3>3. n \in Inodes /\ n \notin H
        BY <2>7, <3>2 DEF HasRefs
      <3>4. PICK x : x = Loaded(e, loc)
        OBVIOUS
      <3>5. FieldsTyped(x)
        BY <2>6, <3>4 DEF Loaded, FieldsTyped, Entries
      <3>6. Sized(SetInode(s, n, x), H, z)
        BY <1>2, <3>3, <3>5, SizedInode
      <3>7. LookupEntry(s, e, loc, shared) = LoadInode(s, n, e, loc)
        BY <2>4, <2>10, <3>1 DEF LookupEntry
      <3>8. LoadInode(s, n, e, loc).fs = SetInode(s, n, x)
        BY <3>4 DEF LoadInode, Loaded, SetInode
      <3> QED BY <2>5, <3>6, <3>7, <3>8
    <2> QED BY <2>8, <2>9, <2>10
  <1> QED BY <1>4, <1>5

LEMMA ReleaseSized ==
  ASSUME NEW s, NEW H, NEW z, IsVolume(s), IsPool(s.inode), Sized(s, H, z),
         NEW n \in Pointers, n \in Inodes /\ n \in H => s.inode[n].ref > 1
  PROVE  Sized(ReleaseInode(s, n), H, z)
  <1>1. CASE n = NullInode
    BY <1>1 DEF ReleaseInode
  <1>2. CASE n # NullInode
    <2>1. n \in Inodes
      BY <1>2 DEF Pointers
    <2>2. PICK c, e : c = s.inode[n] /\ e = Released(c)
      OBVIOUS
    <2>3. FieldsTyped(c) /\ (n \in H => c.size = z[n])
      BY <2>1, <2>2 DEF Sized, Typed
    <2>4. FieldsTyped(e) /\ (n \in H => e.size = z[n])
      <3>1. CASE c.ref > 1
        BY <2>2, <2>3, <3>1 DEF Released, FieldsTyped
      <3>2. CASE ~ (c.ref > 1)
        <4>1. e = FreeInode /\ n \notin H
          BY <2>1, <2>2, <3>2 DEF Released
        <4> QED BY <4>1 DEF FieldsTyped, FreeInode
      <3> QED BY <3>1, <3>2
    <2>5. Sized(SetInode(s, n, e), H, z)
      BY <2>1, <2>4, SizedInode
    <2> QED BY <2>1, <2>2, <2>5, ReleaseIs
  <1> QED BY <1>1, <1>2

(***************************************************************************)
(* A walk along a path, which holds a reference to the directory it is in. *)
(***************************************************************************)
Held(H, r) == \A n \in Inodes : n \in H => r[n] > 0

LEMMA HeldMore ==
  ASSUME NEW H, NEW r \in Counts, Held(H, r), NEW n
  PROVE  Held(H, More(r, n))
  BY DEF Held, More, Counts

LEMMA HeldTwice ==
  ASSUME NEW s, NEW H, NEW r \in Counts, Held(H, r), NEW n \in Pointers,
         HasRefs(s, More(r, n))
  PROVE  n \in Inodes /\ n \in H => s.inode[n].ref > 1
  <1> SUFFICES ASSUME n \in H, n \in Inodes PROVE s.inode[n].ref > 1
    OBVIOUS
  <1>1. More(r, n)[n] = r[n] + 1 /\ r[n] \in Nat /\ r[n] > 0
    BY DEF Held, More, Counts
  <1> QED BY <1>1 DEF HasRefs

LEMMA DirClusterFirst ==
  ASSUME NEW s, Typed(s), NEW n \in Pointers
  PROVE  DirCluster(s, n) \in FirstClusters
  BY DEF DirCluster, Pointers, FirstClusters, Blocks, Typed, FieldsTyped

LEMMA WalkStepSized ==
  ASSUME NEW r \in Counts, NEW H, Held(H, r), NEW z, NEW w, IsWalk(w, r),
         Sized(w.fs, H, z), NEW name
  PROVE  Sized(WalkStep(w, name).fs, H, z)
  <1>1. CASE w.lost
    BY <1>1 DEF WalkStep
  <1>2. CASE ~ w.lost
    <2>1. PICK n, s, d, l : /\ n = w.node /\ s = w.fs /\ d = DirCluster(s, n)
                            /\ l = Lookup(s, d, name)
      OBVIOUS
    <2>2. WalkStep(w, name).fs = ReleaseInode(l.fs, n)
      BY <1>2, <2>1 DEF WalkStep, StepInto
    <2>3. PICK q, y : q = More(r, n) /\ y = More(r, l.node)
      OBVIOUS
    <2>4. n \in Pointers /\ HasRefs(s, q) /\ q \in Counts /\ Held(H, q)
      BY <2>1, <2>3, MoreFacts, HeldMore DEF IsWalk, Takes
    <2>5. d \in FirstClusters
      BY <2>1, <2>4, DirClusterFirst DEF Sized
    <2>6. Sized(l.fs, H, z)
      BY <2>1, <2>4, <2>5, LookupSized DEF Held
    <2>7. HasRefs(l.fs, More(q, l.node))
      BY <2>1, <2>4, LookupTakes DEF Takes
    <2>8. HasRefs(l.fs, More(y, n)) /\ y \in Counts /\ Held(H, y)
      BY <2>3, <2>7, MoreFacts, HeldMore
    <2>9. n \in Inodes /\ n \in H => l.fs.inode[n].ref > 1
      BY <2>4, <2>8, HeldTwice
    <2>10. IsVolume(l.fs) /\ IsPool(l.fs.inode)
      BY <2>8 DEF HasRefs
    <2> QED BY <2>2, <2>4, <2>6, <2>9, <2>10, ReleaseSized
  <1> QED BY <1>1, <1>2

LEMMA WalkSized ==
  ASSUME NEW s, NEW r, HasRefs(s, r), NEW H, Held(H, r), NEW z, Sized(s, H, z),
         NEW path, Len(path) \in Nat
  PROVE  Sized(Walk(s, path).fs, H, z)
  <1>1. PICK N \in Nat : N = Len(path)
    OBVIOUS
  <1>2. r \in Counts
    BY DEF HasRefs
  <1>3. PICK x : IsReach(x, s, path, N) /\ Walk(s, path) = x[N]
    BY <1>1, WalkIsReach
  <1>4. IsWalk(Start(s), r) /\ Start(s).fs = s
    BY <1>2, MoreFacts DEF Start, IsWalk, Takes, Pointers
  <1>5. x[0] = Start(s) /\ \A k \in 1 .. N : x[k] = WalkStep(x[k - 1], path[k])
    BY <1>3 DEF IsReach
  <1>6. PICK S : S = {k \in 0 .. N : IsWalk(x[k], r) /\ Sized(x[k].fs, H, z)}
    OBVIOUS
  <1>7. 0 \in S
    BY <1>4, <1>5, <1>6
  <1>8. ASSUME NEW k \in 0 .. N - 1, k \in S PROVE k + 1 \in S
    <2>1. PICK l \in 1 .. N : l = k + 1
      OBVIOUS
    <2>2. x[l] = WalkStep(x[k], path[l])
      BY <1>5, <2>1
    <2>3. IsWalk(x[k], r) /\ Sized(x[k].fs, H, z)
      BY <1>6, <1>8
    <2>4. IsWalk(x[l], r) /\ Sized(x[l].fs, H, z)
      BY <1>2, <2>2, <2>3, WalkStepTakes, WalkStepSized
    <2> QED BY <1>6, <2>1, <2>4
  <1>9. \A k \in 0 .. N : k \in S
    BY <1>7, <1>8, UpInduction
  <1> QED BY <1>3, <1>6, <1>9

(***************************************************************************)
(* lookup(path), and the release of a node: what is left keeps its sizes.  *)
(***************************************************************************)
Users(o) == {n \in Inodes : Uses(o, n)}

LEMMA UsersHeld ==
  ASSUME NEW o, NEW H, H \subseteq Users(o)
  PROVE  Held(H, Refs(o))
  BY RefsFacts DEF Held, Users

LEMMA LookupPathSized ==
  ASSUME NEW t, ExactTables(t), NEW H, H \subseteq Users(t.openfile),
         NEW z, Sized(t.fs, H, z), NEW path, Len(path) \in Nat \ {0}
  PROVE  LET l == LookupPath(t, path)
         IN  /\ Sized(l.t.fs, H, z)
             /\ H \subseteq Users(l.t.openfile)
             /\ l.file # NoFile => l.t.openfile[l.file].node \in Inodes
  <1>1. PICK o, r, w, l : /\ o = t.openfile /\ r = Refs(o) /\ w = Walk(t.fs, path)
                          /\ l = LookupPath(t, path)
    OBVIOUS
  <1>2. /\ IsTables(t) /\ o = [f \in Files |-> o[f]]
        /\ OnePerInode(o) /\ HasRefs(t.fs, r) /\ r \in Counts /\ Held(H, r)
    BY <1>1, RefsFacts, UsersHeld DEF ExactTables, Exact
  <1>3. /\ IsWalk(w, r) /\ (~ w.lost => w.node \in Inodes)
        /\ w.node \in Pointers /\ HasRefs(w.fs, More(r, w.node))
    BY <1>1, <1>2, WalkTakes DEF IsWalk, Takes
  <1>4. Sized(w.fs, H, z)
    BY <1>1, <1>2, WalkSized
  <1>5. l = LookupEnd(t, w)
    BY <1>1 DEF LookupPath
  <1>6. \A s : [t EXCEPT !.fs = s] = [fs |-> s, openfile |-> o]
    BY <1>1, <1>2 DEF IsTables
  <1>7. CASE w.lost
    <2>1. l = [t |-> [fs |-> w.fs, openfile |-> o], file |-> NoFile]
      BY <1>5, <1>6, <1>7 DEF LookupEnd
    <2> QED BY <1>1, <1>4, <2>1
  <1>8. CASE ~ w.lost
    <2>1. PICK s, n, same, free : /\ s = w.fs /\ n = w.node
                                  /\ same = FilesOf(t, n) /\ free = FreeFiles(t)
      OBVIOUS
    <2>2. l = FileFor(t, s, n, same)
      BY <1>5, <1>8, <2>1 DEF LookupEnd
    <2>3. n \in Inodes /\ n \in Pointers /\ HasRefs(s, More(r, n)) /\ Sized(s, H, z)
      BY <1>3, <1>4, <1>8, <2>1
    <2>4. /\ free \in SUBSET (0 .. MaxOpenFiles)
          /\ same \in SUBSET (0 .. MaxOpenFiles)
          /\ MaxOpenFiles \in Nat
          /\ \A f \in free : f \in Files /\ o[f] = NoNode
          /\ \A f \in same : f \in Files /\ o[f].node = n
      <3>1. free \subseteq Files /\ \A f \in free : o[f] = NoNode
        BY <1>1, <2>1 DEF FreeFiles
      <3>2. same \subseteq Files /\ \A f \in same : o[f].node = n
        BY <1>1, <2>1 DEF FilesOf
      <3>3. Files \subseteq 0 .. MaxOpenFiles /\ MaxOpenFiles \in Nat
        BY DEF Files
      <3> QED BY <3>1, <3>2, <3>3
    <2>5. CASE same = {} /\ free # {}
      <3>1. PICK f, x : f = Min(free) /\ x = [o EXCEPT ![f] = [node |-> n, ref |-> 0]]
        OBVIOUS
      <3>2. f \in Files /\ o[f] = NoNode
        BY <2>4, <2>5, <3>1, MinIn
      <3>3. x[f].node = n /\ \A g \in Files : g # f => x[g] = o[g]
        BY <1>2, <3>1, <3>2
      <3>4. l = [t |-> [fs |-> s, openfile |-> x], file |-> f]
        BY <1>1, <2>1, <2>2, <2>5, <3>1 DEF FileFor
      <3>5. \A m \in Inodes : Uses(o, m) => Uses(x, m)
        BY <3>2, <3>3, PointerFacts DEF Uses, NoNode
      <3>6. Users(o) \subseteq Users(x)
        BY <3>5 DEF Users
      <3>7. H \subseteq Users(x)
        BY <1>1, <3>6
      <3> QED BY <1>1, <2>3, <3>3, <3>4, <3>7
    <2>6. CASE ~ (same = {} /\ free # {})
      <3>1. PICK u, f : /\ u = ReleaseInode(s, n)
                        /\ f = (IF same = {} THEN NoFile ELSE Min(same))
        OBVIOUS
      <3>2. l = [t |-> [fs |-> u, openfile |-> o], file |-> f]
        BY <1>6, <2>1, <2>2, <2>6, <3>1 DEF FileFor
      <3>3. same # {} => Min(same) \in same
        BY <2>4, MinIn
      <3>4. n \in Inodes /\ n \in H => s.inode[n].ref > 1
        BY <1>2, <2>3, HeldTwice
      <3>5. IsVolume(s) /\ IsPool(s.inode)
        BY <2>3 DEF HasRefs
      <3>6. Sized(u, H, z)
        BY <2>3, <3>1, <3>4, <3>5, ReleaseSized
      <3>7. f # NoFile => o[f].node \in Inodes
        BY <2>3, <2>4, <3>1, <3>3
      <3> QED BY <1>1, <3>2, <3>6, <3>7
    <2> QED BY <2>5, <2>6
  <1> QED BY <1>7, <1>8

LEMMA SizedFewer ==
  ASSUME NEW s, NEW H, NEW z, Sized(s, H, z), NEW K, K \subseteq H
  PROVE  Sized(s, K, z)
  BY DEF Sized

LEMMA SettleSized ==
  ASSUME NEW t, ExactTables(t), NEW H, NEW z, Sized(t.fs, H, z), NEW f \in Files
  PROVE  Sized(Settle(t, f).fs, H \cap Users(Settle(t, f).openfile), z)
  <1>1. CASE t.openfile[f].ref > 0
    BY <1>1, SizedFewer DEF Settle
  <1>2. CASE ~ (t.openfile[f].ref > 0)
    <2>1. PICK o, s, n, x, u : /\ o = t.openfile /\ s = t.fs /\ n = o[f].node
                               /\ x = [o EXCEPT ![f] = NoNode]
                               /\ u = ReleaseInode(s, n)
      OBVIOUS
    <2>2. Settle(t, f) = [fs |-> u, openfile |-> x]
      BY <1>2, <2>1 DEF Settle
    <2>3. /\ o = [g \in Files |-> o[g]] /\ OnePerInode(o) /\ n \in Pointers
          /\ IsVolume(s) /\ IsPool(s.inode)
      BY <2>1 DEF ExactTables, Exact, OnePerInode, HasRefs
    <2>4. PICK K : K = H \cap Users(x)
      OBVIOUS
    <2>5. n \notin K
      <3> SUFFICES ASSUME n \in Inodes, Uses(x, n) PROVE FALSE
        BY <2>4 DEF Users
      <3>1. PICK g \in Files : x[g].node = n
        BY DEF Uses
      <3>2. g # f
        BY <2>1, <2>3, <3>1, PointerFacts DEF NoNode
      <3>3. o[g].node = o[f].node
        BY <2>1, <2>3, <3>1, <3>2
      <3> QED BY <2>1, <2>3, <3>2, <3>3, PointerFacts DEF OnePerInode
    <2>6. Sized(s, K, z)
      BY <2>1, <2>4, SizedFewer
    <2>7. Sized(u, K, z)
      BY <2>1, <2>3, <2>5, <2>6, ReleaseSized
    <2> QED BY <2>2, <2>4, <2>7
  <1> QED BY <1>1, <1>2

LEMMA ReleaseLookupSized ==
  ASSUME NEW t, ExactTables(t), NEW H, NEW z, Sized(t.fs, H, z),
         NEW f \in Files \cup {NoFile}
  PROVE  Sized(ReleaseLookup(t, f).fs, H \cap Users(ReleaseLookup(t, f).openfile), z)
  BY SettleSized, SizedFewer DEF ReleaseLookup

(***************************************************************************)
(* The calls of the file system.                                           *)
(***************************************************************************)
LEMMA FreeIn ==
  ASSUME NEW s, FreeClusters(s) # {}
  PROVE  AllocateCluster(s) \in Clusters
  <1>1. FreeClusters(s) \in SUBSET (0 .. ClusterCount) /\ ClusterCount \in Nat
    BY DEF FreeClusters, Clusters
  <1>2. Min(FreeClusters(s)) \in FreeClusters(s)
    BY <1>1, MinIn
  <1> QED BY <1>2 DEF AllocateCluster, FreeClusters

LEMMA WriteEntrySized ==
  ASSUME NEW s, NEW H, NEW z, IsVolume(s), Sized(s, H, z),
         NEW loc, NEW e \in Entries
  PROVE  Sized(WriteEntry(s, loc, e), H, z)
  <1>1. PICK D, u : D = [s.dirs EXCEPT ![loc[1]][loc[2]] = e] /\ u = WriteEntry(s, loc, e)
    OBVIOUS
  <1>2. u = [fat |-> s.fat, dirs |-> D, inode |-> s.inode]
    BY <1>1 DEF WriteEntry, IsVolume
  <1>3. DirsTyped(D)
    BY <1>1, EntrySet DEF Sized, Typed
  <1>4. SamePool(s, u) /\ FatTyped(u.fat) /\ DirsTyped(u.dirs)
    BY <1>2, <1>3 DEF SamePool, IsVolume, Sized, Typed
  <1> QED BY <1>1, <1>4, SizedSame

(***************************************************************************)
(* A cluster for a directory.                                              *)
(***************************************************************************)
LEMMA NewClusterSized ==
  ASSUME NEW s, NEW H, NEW z, IsVolume(s), Sized(s, H, z), NEW c \in Clusters, NEW F,
         FatTyped(F)
  PROVE  Sized([fat |-> F, dirs |-> [s.dirs EXCEPT ![c] = Blank(EntriesPerCluster)],
                inode |-> s.inode], H, z)
  <1>1. PICK D, u : /\ D = [s.dirs EXCEPT ![c] = Blank(EntriesPerCluster)]
                    /\ u = [fat |-> F, dirs |-> D, inode |-> s.inode]
    OBVIOUS
  <1>2. DirsTyped(D)
    BY <1>1, RowSet, BlankTyped DEF Sized, Typed
  <1>3. SamePool(s, u) /\ FatTyped(u.fat) /\ DirsTyped(u.dirs)
    BY <1>1, <1>2 DEF SamePool, IsVolume
  <1>4. Sized(u, H, z)
    BY <1>3, SizedSame
  <1> QED BY <1>1, <1>4

LEMMA FreeEntrySized ==
  ASSUME NEW s, NEW H, NEW z, IsVolume(s), Sized(s, H, z), NEW d
  PROVE  Sized(FreeEntry(s, d).fs, H, z)
  <1>1. PICK places, free, c : /\ FreeEntry(s, d) = FreeEntryAmong(s, d, places, free)
                               /\ c = AllocateCluster(s)
    BY DEF FreeEntry
  <1>2. ASSUME FreeClusters(s) # {} PROVE Sized(Grow(s, d, c).fs, H, z)
    <2>1. PICK a, F, G : /\ a = Last(Chain(s, d))
                         /\ F = [s.fat EXCEPT ![a] = c]
                         /\ G = [F EXCEPT ![c] = EndOfChain]
      OBVIOUS
    <2>2. c \in Clusters
      BY <1>1, <1>2, FreeIn
    <2>3. FatTyped(F)
      BY <2>1, <2>2, FatSet DEF Sized, Typed
    <2>4. FatTyped(G)
      BY <2>1, <2>3, FatSet
    <2>5. Grow(s, d, c).fs
            = [fat |-> G, dirs |-> [s.dirs EXCEPT ![c] = Blank(EntriesPerCluster)],
               inode |-> s.inode]
      BY <2>1 DEF Grow, IsVolume
    <2> QED BY <2>2, <2>4, <2>5, NewClusterSized
  <1> QED BY <1>1, <1>2 DEF FreeEntryAmong

LEMMA CreateFileSized ==
  ASSUME NEW s, NEW H, NEW z, IsVolume(s), Sized(s, H, z), NEW d, NEW name \in Names
  PROVE  Sized(CreateFile(s, d, name), H, z)
  <1>1. PICK place, e : /\ place = FreeEntry(s, d)
                        /\ e = [name |-> name, dir |-> FALSE, start |-> NoCluster, size |-> 0]
    OBVIOUS
  <1>2. e \in Entries
    BY <1>1 DEF Entries
  <1>3. Sized(place.fs, H, z) /\ IsVolume(place.fs)
    BY <1>1, FreeEntrySized, FreeEntrySame DEF SamePool
  <1>4. Sized(WriteEntry(place.fs, place.loc, e), H, z)
    BY <1>2, <1>3, WriteEntrySized
  <1>5. CreateFile(s, d, name) \in {s, WriteEntry(place.fs, place.loc, e)}
    BY <1>1 DEF CreateFile, NewFile
  <1> QED BY <1>4, <1>5

LEMMA CreateDirectorySized ==
  ASSUME NEW s, NEW H, NEW z, IsVolume(s), Sized(s, H, z), NEW d, NEW name \in Names
  PROVE  Sized(CreateDirectory(s, d, name), H, z)
  <1>1. PICK place, x, c : /\ place = FreeEntry(s, d) /\ x = place.fs
                           /\ c = AllocateCluster(x)
    OBVIOUS
  <1>2. Sized(x, H, z) /\ IsVolume(x)
    BY <1>1, FreeEntrySized, FreeEntrySame DEF SamePool
  <1>3. ASSUME FreeClusters(x) # {}
        PROVE  Sized(NewDirectoryAt(x, c, place.loc, name), H, z)
    <2>1. PICK y, e : /\ y = [x EXCEPT !.fat[c] = EndOfChain,
                                       !.dirs[c] = Blank(EntriesPerCluster)]
                      /\ e = [name |-> name, dir |-> TRUE, start |-> c, size |-> 0]
      OBVIOUS
    <2>2. c \in Clusters
      BY <1>1, <1>3, FreeIn
    <2>3. PICK F : F = [x.fat EXCEPT ![c] = EndOfChain]
      OBVIOUS
    <2>4. FatTyped(F)
      BY <1>2, <2>3, FatSet DEF Sized, Typed
    <2>5. y = [fat |-> F, dirs |-> [x.dirs EXCEPT ![c] = Blank(EntriesPerCluster)],
               inode |-> x.inode]
      BY <1>2, <2>1, <2>3 DEF IsVolume
    <2>6. Sized(y, H, z) /\ IsVolume(y)
      BY <1>2, <2>2, <2>4, <2>5, NewClusterSized DEF IsVolume
    <2>7. e \in Entries
      BY <2>1, <2>2 DEF Entries
    <2>8. NewDirectoryAt(x, c, place.loc, name) = WriteEntry(y, place.loc, e)
      BY <2>1 DEF NewDirectoryAt
    <2> QED BY <2>6, <2>7, <2>8, WriteEntrySized
  <1>4. \/ CreateDirectory(s, d, name) = s
        \/ /\ FreeClusters(x) # {}
           /\ CreateDirectory(s, d, name) = NewDirectoryAt(x, c, place.loc, name)
    BY <1>1 DEF CreateDirectory, NewDirectory
  <1> QED BY <1>3, <1>4

LEMMA DeleteSized ==
  ASSUME NEW s, NEW H, NEW z, IsVolume(s), IsPool(s.inode), Sized(s, H, z),
         NEW n \in Pointers, n \in Inodes /\ n \in H => s.inode[n].ref > 1
  PROVE  Sized(Delete(s, n), H, z)
  <1>1. PICK loc, c, x, u : /\ loc = s.inode[n].loc /\ c = s.inode[n].start
                            /\ x = [s EXCEPT !.dirs[loc[1]][loc[2]] = NoEntry]
                            /\ u = FreeChain(x, c)
    OBVIOUS
  <1>2. Delete(s, n) = ReleaseInode(u, n)
    BY <1>1 DEF Delete
  <1>3. x = WriteEntry(s, loc, NoEntry)
    BY <1>1 DEF WriteEntry
  <1>4. SamePool(s, x) /\ Sized(x, H, z)
    BY <1>3, NoEntryTyped, WriteEntrySame, WriteEntrySized
  <1>5. PICK F : F = [y \in Clusters |-> IF y \in Range(Chain(x, c)) THEN FreeMark
                                         ELSE x.fat[y]]
    OBVIOUS
  <1>6. u = [x EXCEPT !.fat = F]
    BY <1>1, <1>5 DEF FreeChain
  <1>7. FatTyped(F)
    BY <1>4, <1>5 DEF FatTyped, Sized, Typed
  <1>8. SamePool(x, u) /\ u.fat = F /\ u.dirs = x.dirs
    BY <1>4, <1>6 DEF SamePool, IsVolume
  <1>9. Sized(u, H, z)
    <2>1. FatTyped(u.fat) /\ DirsTyped(u.dirs)
      BY <1>4, <1>7, <1>8 DEF Sized, Typed
    <2> QED BY <1>4, <1>8, <2>1, SizedSame
  <1>10. IsVolume(u) /\ u.inode = s.inode
    BY <1>4, <1>8 DEF SamePool
  <1> QED BY <1>2, <1>9, <1>10, ReleaseSized

LEMMA RemoveSized ==
  ASSUME NEW s, NEW H, NEW z, NEW r, HasRefs(s, r), Held(H, r), Sized(s, H, z),
         NEW d \in FirstClusters, NEW name
  PROVE  /\ Sized(FsRemove(s, d, name), H, z)
         /\ Sized(RemoveDirectory(s, d, name), H, z)
  <1>1. PICK l, n, x : l = Lookup(s, d, name) /\ n = l.node /\ x = l.fs
    OBVIOUS
  <1>2. r \in Counts
    BY DEF HasRefs
  <1>3. n \in Pointers /\ HasRefs(x, More(r, n))
    BY <1>1, LookupTakes DEF Takes
  <1>4. Sized(x, H, z)
    BY <1>1, LookupSized DEF Held
  <1>5. n \in Inodes /\ n \in H => x.inode[n].ref > 1
    BY <1>2, <1>3, HeldTwice
  <1>6. IsVolume(x) /\ IsPool(x.inode)
    BY <1>3 DEF HasRefs
  <1>7. Sized(Delete(x, n), H, z) /\ Sized(ReleaseInode(x, n), H, z)
    BY <1>3, <1>4, <1>5, <1>6, DeleteSized, ReleaseSized
  <1>8. FsRemove(s, d, name) = RemoveInode(x, n)
    BY <1>1 DEF FsRemove
  <1>9. RemoveDirectory(s, d, name) = RemoveDirInode(x, n)
    BY <1>1 DEF RemoveDirectory
  <1>10. Sized(RemoveInode(x, n), H, z)
    BY <1>4, <1>7 DEF RemoveInode
  <1>11. Sized(RemoveDirInode(x, n), H, z)
    BY <1>4, <1>7 DEF RemoveDirInode
  <1> QED BY <1>8, <1>9, <1>10, <1>11

LEMMA FsCallSized ==
  ASSUME NEW s, NEW H, NEW z, NEW r, HasRefs(s, r), Held(H, r), Sized(s, H, z),
         NEW call \in Calls, NEW d \in FirstClusters, NEW name \in Names
  PROVE  Sized(FsCall(call, s, d, name), H, z)
  <1>1. IsVolume(s)
    BY DEF HasRefs
  <1>2. CASE call = "create_file"
    BY <1>1, <1>2, CreateFileSized DEF FsCall
  <1>3. CASE call = "remove"
    BY <1>3, RemoveSized DEF FsCall
  <1>4. CASE call = "create_directory"
    BY <1>1, <1>4, CreateDirectorySized DEF FsCall
  <1>5. CASE call = "remove_directory"
    BY <1>5, RemoveSized DEF FsCall
  <1> QED BY <1>2, <1>3, <1>4, <1>5 DEF Calls

(***************************************************************************)
(* append(): the new clusters are free ones, the new size is not beyond    *)
(* size + k, and the entry gets it.                                        *)
(***************************************************************************)
AppendFat(fat1, new, tail) ==
  [c \in Clusters |->
     IF c \in new THEN IF \E x \in new : x > c THEN Min({x \in new : x > c})
                       ELSE EndOfChain
     ELSE IF c = tail /\ new # {} THEN Min(new) ELSE fat1[c]]

AppendDirs(D, nd, new, start) ==
  [d \in DOMAIN D |-> IF d \in new \/ (nd.start = NoCluster /\ d = start)
                      THEN Blank(EntriesPerCluster) ELSE D[d]]

IsAppend(s, n, k, u, fat1, start, chunk, more, new, tail) ==
  LET nd == s.inode[n]
  IN  /\ fat1 = IF nd.start # NoCluster THEN s.fat
                ELSE [s.fat EXCEPT ![AllocateCluster(s)] = EndOfChain]
      /\ start = IF nd.start # NoCluster THEN nd.start ELSE AllocateCluster(s)
      /\ chunk = Min({k, ClusterSize - (nd.size % ClusterSize)})
      /\ more = Min({k - chunk, Cardinality(new) * ClusterSize})
      /\ new \subseteq Clusters /\ new \subseteq FreeClusters([s EXCEPT !.fat = fat1])
      /\ tail = Last(Chain([s EXCEPT !.fat = fat1], start))
      /\ u = [s EXCEPT !.fat = AppendFat(fat1, new, tail),
                       !.dirs = AppendDirs(s.dirs, nd, new, start),
                       !.inode[n].start = start,
                       !.inode[n].size = @ + chunk + more]

LEMMA AppendIs ==
  ASSUME NEW s, IsVolume(s), NEW n, NEW k
  PROVE  \E fat1, start, chunk, more, new, tail :
           IsAppend(s, n, k, AppendData(s, n, k), fat1, start, chunk, more, new, tail)
  <1> DEFINE nd == s.inode[n]
             first == AllocateCluster(s)
             fat1 == IF nd.start # NoCluster THEN s.fat
                     ELSE [s.fat EXCEPT ![first] = EndOfChain]
             start == IF nd.start # NoCluster THEN nd.start ELSE first
             s1 == [s EXCEPT !.fat = fat1]
             tail == Last(Chain(s1, start))
             chunk == Min({k, ClusterSize - (nd.size % ClusterSize)})
             new == FirstN(FreeClusters(s1),
                           (k - chunk + ClusterSize - 1) \div ClusterSize)
             more == Min({k - chunk, Cardinality(new) * ClusterSize})
  <1>1. AppendData(s, n, k)
          = [s EXCEPT !.fat = AppendFat(fat1, new, tail),
                      !.dirs = AppendDirs(s.dirs, nd, new, start),
                      !.inode[n].start = start,
                      !.inode[n].size = @ + chunk + more]
    BY Zenon DEF AppendData, AppendFat, AppendDirs
  <1>2. new \subseteq Clusters /\ new \subseteq FreeClusters([s EXCEPT !.fat = fat1])
    BY DEF FirstN, FreeClusters
  <1>3. IsAppend(s, n, k, AppendData(s, n, k), fat1, start, chunk, more, new, tail)
    BY <1>1, <1>2, Zenon DEF IsAppend
  <1> HIDE DEF nd, first, fat1, start, s1, tail, chunk, new, more
  <1> QED BY <1>3

LEMMA AppendFatTyped ==
  ASSUME NEW F, FatTyped(F), NEW new, new \subseteq Clusters, NEW tail
  PROVE  FatTyped(AppendFat(F, new, tail))
  <1>1. PICK G : G = AppendFat(F, new, tail)
    OBVIOUS
  <1>2. G = [c \in Clusters |-> G[c]]
    BY <1>1 DEF AppendFat
  <1>3. ASSUME NEW S, S \subseteq new, S # {} PROVE Min(S) \in Clusters
    <2>1. S \in SUBSET (0 .. ClusterCount) /\ ClusterCount \in Nat
      BY <1>3 DEF Clusters
    <2>2. Min(S) \in S
      BY <1>3, <2>1, MinIn
    <2> QED BY <1>3, <2>2
  <1>4. ASSUME NEW c \in Clusters
        PROVE  G[c] \in Clusters \cup {FreeMark, EndOfChain}
    <2>1. PICK S : S = {x \in new : x > c}
      OBVIOUS
    <2>2. S # {} => Min(S) \in Clusters
      BY <1>3, <2>1
    <2>3. new # {} => Min(new) \in Clusters
      BY <1>3
    <2>4. F[c] \in Clusters \cup {FreeMark, EndOfChain}
      BY DEF FatTyped
    <2>5. G[c] = IF c \in new THEN IF \E x \in new : x > c THEN Min(S) ELSE EndOfChain
                 ELSE IF c = tail /\ new # {} THEN Min(new) ELSE F[c]
      BY <1>1, <2>1 DEF AppendFat
    <2>6. (\E x \in new : x > c) => S # {}
      BY <2>1
    <2> QED BY <2>2, <2>3, <2>4, <2>5, <2>6
  <1> QED BY <1>1, <1>2, <1>4 DEF FatTyped

LEMMA AppendDirsTyped ==
  ASSUME NEW D, DirsTyped(D), NEW nd, NEW new, new \subseteq Clusters,
         NEW start, nd.start = NoCluster => start \in Clusters
  PROVE  DirsTyped(AppendDirs(D, nd, new, start))
  <1>1. PICK X : X = AppendDirs(D, nd, new, start)
    OBVIOUS
  <1>2. DOMAIN D = Blocks
    BY DEF DirsTyped
  <1>3. X = [d \in Blocks |-> X[d]]
    BY <1>1, <1>2 DEF AppendDirs
  <1>4. ASSUME NEW d \in Blocks PROVE RowTyped(X[d], d)
    <2>1. X[d] = IF d \in new \/ (nd.start = NoCluster /\ d = start)
                 THEN Blank(EntriesPerCluster) ELSE D[d]
      BY <1>1, <1>2 DEF AppendDirs
    <2>2. CASE d \in new \/ (nd.start = NoCluster /\ d = start)
      <3>1. d \in Clusters
        BY <2>2
      <3> QED BY <2>1, <2>2, <3>1, BlankTyped
    <2>3. CASE ~ (d \in new \/ (nd.start = NoCluster /\ d = start))
      BY <2>1, <2>3 DEF DirsTyped
    <2> QED BY <2>2, <2>3
  <1> QED BY <1>1, <1>3, <1>4 DEF DirsTyped

(***************************************************************************)
(* How much is appended.                                                   *)
(***************************************************************************)
LEMMA AppendAmount ==
  ASSUME NEW size \in Nat, NEW k \in Nat \ {0}, NEW new, IsFiniteSet(new),
         NEW chunk, chunk = Min({k, ClusterSize - (size % ClusterSize)}),
         NEW more, more = Min({k - chunk, Cardinality(new) * ClusterSize})
  PROVE  chunk + more \in 0 .. k /\ chunk \in Int /\ more \in Int
  <1>1. PICK left : left = ClusterSize - (size % ClusterSize)
    OBVIOUS
  <1>2. left \in Nat
    BY <1>1
  <1>3. chunk \in {k, left} /\ chunk <= k
    <2>1. chunk = Min({k, left}) /\ k \in Int /\ left \in Int
      BY <1>1, <1>2
    <2> QED BY <2>1, MinOfTwo
  <1>4. PICK room : room = Cardinality(new) * ClusterSize
    OBVIOUS
  <1>5. room \in Nat
    <2>1. PICK N \in Nat : N = Cardinality(new)
      BY FS_CardinalityType
    <2>2. N * ClusterSize \in Nat
      BY <2>1
    <2> QED BY <1>4, <2>1, <2>2
  <1>6. k - chunk \in Nat
    BY <1>2, <1>3
  <1>7. more \in {k - chunk, room} /\ more <= k - chunk
    <2>1. PICK rest : rest = k - chunk
      OBVIOUS
    <2>2. more = Min({rest, room}) /\ rest \in Int /\ room \in Int
      BY <1>4, <1>5, <1>6, <2>1
    <2>3. more \in {rest, room} /\ more <= rest
      BY <2>2, MinOfTwo
    <2> QED BY <2>1, <2>3
  <1> QED BY <1>2, <1>3, <1>5, <1>6, <1>7

Appended(s, n, u, fat1, start, new, tail, z) ==
  LET nd == s.inode[n]
  IN  /\ fat1 = IF nd.start # NoCluster THEN s.fat
                ELSE [s.fat EXCEPT ![AllocateCluster(s)] = EndOfChain]
      /\ start = IF nd.start # NoCluster THEN nd.start ELSE AllocateCluster(s)
      /\ new \subseteq FreeClusters([s EXCEPT !.fat = fat1])
      /\ tail = Last(Chain([s EXCEPT !.fat = fat1], start))
      /\ u.fat = AppendFat(fat1, new, tail)
      /\ u.dirs = AppendDirs(s.dirs, nd, new, start)
      /\ InodeIs(s, u, n, [start |-> start, size |-> z, dir |-> nd.dir,
                           loc |-> nd.loc, ref |-> nd.ref])

Grown(s, u, n) ==
  /\ u.inode[n].size >= s.inode[n].size
  /\ \A m \in Inodes : m # n => u.inode[m] = s.inode[m]

LEMMA AppendGrows ==
  ASSUME NEW s, IsVolume(s), IsPool(s.inode), Typed(s), NEW n \in Inodes,
         NEW k \in Nat \ {0}, s.inode[n].size + k <= MaxSize, ~ AppendFails(s, n)
  PROVE  /\ IsVolume(AppendData(s, n, k)) /\ Typed(AppendData(s, n, k))
         /\ Grown(s, AppendData(s, n, k), n)
         /\ \E fat1, start, new, tail, z :
              Appended(s, n, AppendData(s, n, k), fat1, start, new, tail, z)
  <1>1. PICK nd, u : nd = s.inode[n] /\ u = AppendData(s, n, k)
    OBVIOUS
  <1>2. PICK fat1, start, chunk, more, new, tail :
          IsAppend(s, n, k, u, fat1, start, chunk, more, new, tail)
    BY <1>1, AppendIs
  <1>3. /\ nd.start \in Clusters \cup {NoCluster} /\ nd.size \in 0 .. MaxSize
        /\ nd.dir \in BOOLEAN
    BY <1>1 DEF Typed, FieldsTyped
  <1>4. nd.start = NoCluster => AllocateCluster(s) \in Clusters
    BY <1>1, FreeIn DEF AppendFails
  <1>5. FatTyped(fat1)
    <2>1. CASE nd.start # NoCluster
      BY <1>1, <1>2, <2>1 DEF IsAppend, Typed
    <2>2. CASE nd.start = NoCluster
      <3>1. fat1 = [s.fat EXCEPT ![AllocateCluster(s)] = EndOfChain]
        BY <1>1, <1>2, <2>2 DEF IsAppend
      <3> QED BY <3>1, FatSet DEF Typed
    <2> QED BY <2>1, <2>2
  <1>6. new \subseteq Clusters /\ start \in Clusters \cup {NoCluster}
        /\ (nd.start = NoCluster => start \in Clusters)
    BY <1>1, <1>2, <1>3, <1>4 DEF IsAppend
  <1>7. PICK F, D : F = AppendFat(fat1, new, tail) /\ D = AppendDirs(s.dirs, nd, new, start)
    OBVIOUS
  <1>8. FatTyped(F) /\ DirsTyped(D)
    BY <1>5, <1>6, <1>7, AppendFatTyped, AppendDirsTyped DEF Typed
  <1>9. PICK z : z = nd.size + chunk + more
    OBVIOUS
  <1>10. z \in nd.size .. MaxSize /\ z \in 0 .. MaxSize
    <2>1. IsFiniteSet(new)
      <3>1. IsFiniteSet(Clusters)
        <4>1. PICK b \in Int : b = ClusterCount - 1
          OBVIOUS
        <4>2. IsFiniteSet(2 .. b)
          BY FS_Interval
        <4> QED BY <4>1, <4>2 DEF Clusters
      <3> QED BY <1>6, <3>1, FS_Subset
    <2>2. /\ chunk = Min({k, ClusterSize - (nd.size % ClusterSize)})
          /\ more = Min({k - chunk, Cardinality(new) * ClusterSize})
      BY <1>1, <1>2 DEF IsAppend
    <2>3. nd.size \in Nat
      BY <1>3
    <2>4. chunk + more \in 0 .. k /\ chunk \in Int /\ more \in Int
      BY <2>1, <2>2, <2>3, AppendAmount
    <2>5. PICK size : size = nd.size
      OBVIOUS
    <2>6. size \in 0 .. MaxSize /\ z = size + chunk + more /\ size + k <= MaxSize
      BY <1>1, <1>3, <1>9, <2>5
    <2>7. z \in size .. MaxSize /\ z \in 0 .. MaxSize
      BY <2>4, <2>6
    <2> QED BY <2>5, <2>7
  <1>11. PICK Q, P, e : /\ Q = s.inode
                        /\ P = [Q EXCEPT ![n].start = start, ![n].size = z]
                        /\ e = [start |-> start, size |-> z, dir |-> nd.dir,
                                loc |-> nd.loc, ref |-> nd.ref]
    OBVIOUS
  <1>12. u = [fat |-> F, dirs |-> D, inode |-> P]
    <2>1. u = [s EXCEPT !.fat = F, !.dirs = D, !.inode[n].start = start,
                        !.inode[n].size = @ + chunk + more]
      BY <1>1, <1>2, <1>7 DEF IsAppend
    <2>2. PICK R : R = [Q EXCEPT ![n].start = start]
      OBVIOUS
    <2>3. R[n].size = nd.size
      <3>1. nd = [start |-> nd.start, size |-> nd.size, dir |-> nd.dir,
                  loc |-> nd.loc, ref |-> nd.ref]
        BY <1>1 DEF IsPool, IsInode
      <3>2. R[n] = [nd EXCEPT !.start = start]
        BY <1>1, <1>11, <2>2 DEF IsPool
      <3> QED BY <3>1, <3>2
    <2>4. PICK v : v = [fat |-> F, dirs |-> D, inode |-> Q]
      OBVIOUS
    <2>5. [s EXCEPT !.fat = F, !.dirs = D] = v
      <3>1. s = [fat |-> s.fat, dirs |-> s.dirs, inode |-> Q]
        BY <1>11 DEF IsVolume
      <3>2. PICK y : y = [fat |-> F, dirs |-> s.dirs, inode |-> Q]
        OBVIOUS
      <3>3. [s EXCEPT !.fat = F] = y
        BY <3>1, <3>2
      <3>4. [y EXCEPT !.dirs = D] = v
        BY <2>4, <3>2
      <3>5. [[s EXCEPT !.fat = F] EXCEPT !.dirs = D] = v
        BY <3>3, <3>4
      <3> QED BY <3>5
    <2>6. PICK x : x = [fat |-> F, dirs |-> D, inode |-> R]
      OBVIOUS
    <2>7. [v EXCEPT !.inode[n].start = start] = x
      BY <2>2, <2>4, <2>6
    <2>8. [x EXCEPT !.inode[n].size = @ + chunk + more]
            = [fat |-> F, dirs |-> D, inode |-> [R EXCEPT ![n].size = z]]
      <3>1. x.inode[n].size + chunk + more = z
        BY <1>9, <2>3, <2>6
      <3>2. [x EXCEPT !.inode[n].size = z]
              = [fat |-> F, dirs |-> D, inode |-> [R EXCEPT ![n].size = z]]
        BY <2>6
      <3> QED BY <3>1, <3>2
    <2>9. P = [R EXCEPT ![n].size = z]
      BY <1>11, <2>2
    <2>10. u = [[[s EXCEPT !.fat = F, !.dirs = D]
                 EXCEPT !.inode[n].start = start]
                EXCEPT !.inode[n].size = @ + chunk + more]
      BY <2>1, ZenonT(30)
    <2> QED BY <2>5, <2>7, <2>8, <2>9, <2>10
  <1>13. P = [Q EXCEPT ![n] = e]
    <2>1. PICK d : d = [nd EXCEPT !.start = start]
      OBVIOUS
    <2>2. nd = [start |-> nd.start, size |-> nd.size, dir |-> nd.dir,
                loc |-> nd.loc, ref |-> nd.ref]
      BY <1>1 DEF IsPool, IsInode
    <2>3. d = [start |-> start, size |-> nd.size, dir |-> nd.dir,
               loc |-> nd.loc, ref |-> nd.ref]
      BY <2>1, <2>2
    <2>4. e = [d EXCEPT !.size = z]
      BY <1>11, <2>3
    <2>5. PICK R : R = [Q EXCEPT ![n] = d]
      OBVIOUS
    <2>6. R[n] = d /\ Q = [m \in Inodes |-> Q[m]]
      BY <1>11, <2>5 DEF IsPool
    <2>7. P = [R EXCEPT ![n].size = z]
      BY <1>1, <1>11, <2>1, <2>5
    <2>8. P = [R EXCEPT ![n] = e]
      BY <2>4, <2>6, <2>7
    <2> QED BY <2>5, <2>6, <2>8
  <1>14. \A m \in Inodes : P[m] = IF m = n THEN e ELSE Q[m]
    BY <1>11, <1>13 DEF IsPool
  <1>15. FieldsTyped(e)
    BY <1>3, <1>6, <1>10, <1>11 DEF FieldsTyped
  <1>16. \A m \in Inodes : FieldsTyped(P[m])
    BY <1>11, <1>14, <1>15 DEF Typed
  <1>17. u.fat = F /\ u.dirs = D /\ u.inode = P /\ IsVolume(u)
    BY <1>12 DEF IsVolume
  <1>18. Typed(u)
    BY <1>8, <1>16, <1>17 DEF Typed
  <1>19. Grown(s, u, n)
    <2>1. u.inode[n].size = z /\ s.inode[n].size = nd.size
      BY <1>1, <1>11, <1>14, <1>17
    <2>2. z >= nd.size
      BY <1>3, <1>10
    <2>3. \A m \in Inodes : m # n => u.inode[m] = s.inode[m]
      BY <1>11, <1>14, <1>17
    <2> QED BY <2>1, <2>2, <2>3 DEF Grown
  <1>20. Appended(s, n, u, fat1, start, new, tail, z)
    <2>1. InodeIs(s, u, n, e)
      <3>1. IsInode(nd) /\ Q = [m \in Inodes |-> Q[m]] /\ \A m \in Inodes : IsInode(Q[m])
        BY <1>1, <1>11 DEF IsPool
      <3>2. IsInode(e)
        BY <1>11, <3>1 DEF IsInode
      <3>3. P = [m \in Inodes |-> P[m]]
        BY <1>13, <3>1
      <3>4. \A m \in Inodes : IsInode(P[m])
        BY <1>14, <3>1, <3>2
      <3>5. IsPool(P)
        BY <3>3, <3>4 DEF IsPool
      <3>6. P[n] = e /\ \A m \in Inodes : m # n => P[m] = s.inode[m]
        BY <1>11, <1>14
      <3> QED BY <1>17, <3>5, <3>6 DEF InodeIs
    <2>2. /\ fat1 = IF nd.start # NoCluster THEN s.fat
                    ELSE [s.fat EXCEPT ![AllocateCluster(s)] = EndOfChain]
          /\ start = IF nd.start # NoCluster THEN nd.start ELSE AllocateCluster(s)
          /\ new \subseteq FreeClusters([s EXCEPT !.fat = fat1])
          /\ tail = Last(Chain([s EXCEPT !.fat = fat1], start))
      BY <1>1, <1>2, Zenon DEF IsAppend
    <2>3. u.fat = AppendFat(fat1, new, tail) /\ u.dirs = AppendDirs(s.dirs, nd, new, start)
      BY <1>7, <1>17
    <2> QED BY <1>1, <1>11, <2>1, <2>2, <2>3, Zenon DEF Appended
  <1> QED BY <1>1, <1>17, <1>18, <1>19, <1>20

LEMMA UpdateTyped ==
  ASSUME NEW u, IsVolume(u), Typed(u), NEW n \in Inodes
  PROVE  Typed(UpdateEntry(u, n)) /\ UpdateEntry(u, n).inode = u.inode
  <1>1. PICK a, b, z, c : /\ a = u.inode[n].loc[1] /\ b = u.inode[n].loc[2]
                          /\ z = u.inode[n].size /\ c = u.inode[n].start
    OBVIOUS
  <1>2. z \in 0 .. MaxSize /\ c \in Clusters \cup {NoCluster}
    BY <1>1 DEF Typed, FieldsTyped
  <1>3. PICK D, X, Y : /\ D = u.dirs
                       /\ X = [D EXCEPT ![a][b].size = z]
                       /\ Y = [X EXCEPT ![a][b].start = c]
    OBVIOUS
  <1>4. UpdateEntry(u, n) = [fat |-> u.fat, dirs |-> Y, inode |-> u.inode]
    <2>1. UpdateEntry(u, n) = [u EXCEPT !.dirs[a][b].size = z, !.dirs[a][b].start = c]
      BY <1>1 DEF UpdateEntry
    <2>2. [u EXCEPT !.dirs[a][b].size = z] = [fat |-> u.fat, dirs |-> X, inode |-> u.inode]
      BY <1>3, SMTT(30) DEF IsVolume
    <2> QED BY <1>3, <2>1, <2>2, ZenonT(30)
  <1>5. DirsTyped(X)
    <2>1. PICK e, f : e = D[a][b] /\ f = [e EXCEPT !.size = z]
      OBVIOUS
    <2>2. X = [D EXCEPT ![a][b] = f]
      BY <1>3, <2>1
    <2>3. ASSUME a \in Blocks /\ b \in 1 .. Slots(a) PROVE f \in Entries
      <3>1. e \in Entries
        BY <1>3, <2>1, <2>3 DEF Typed, DirsTyped, RowTyped
      <3> QED BY <1>2, <2>1, <3>1 DEF Entries
    <2>4. DirsTyped(D)
      BY <1>3 DEF Typed
    <2> QED BY <2>2, <2>3, <2>4, EntrySet
  <1>6. DirsTyped(Y)
    <2>1. PICK e, f : e = X[a][b] /\ f = [e EXCEPT !.start = c]
      OBVIOUS
    <2>2. Y = [X EXCEPT ![a][b] = f]
      BY <1>3, <2>1
    <2>3. ASSUME a \in Blocks /\ b \in 1 .. Slots(a) PROVE f \in Entries
      <3>1. e \in Entries
        BY <1>5, <2>1, <2>3 DEF DirsTyped, RowTyped
      <3> QED BY <1>2, <2>1, <3>1 DEF Entries
    <2> QED BY <1>5, <2>2, <2>3, EntrySet
  <1> QED BY <1>4, <1>6 DEF Typed
-----------------------------------------------------------------------------
(***************************************************************************)
(* What a step does to the volume: it stays typed, and no inode that is    *)
(* open before and after the step gets smaller.                            *)
(***************************************************************************)
Sizes == [n \in Inodes |-> fs.inode[n].size]

VolumeStep ==
  /\ Typed(fs')
  /\ \A n \in Inodes : Uses(openfile, n) /\ Uses(openfile', n) =>
       fs'.inode[n].size >= fs.inode[n].size

LEMMA SizedStart ==
  ASSUME Typed(fs), NEW H
  PROVE  Sized(fs, H, Sizes)
  BY DEF Sized, Sizes

LEMMA VolumeSame ==
  ASSUME Typed(fs), fs' = fs
  PROVE  VolumeStep
  <1>1. \A n \in Inodes : fs.inode[n].size \in 0 .. MaxSize
    BY DEF Typed, FieldsTyped
  <1> QED BY <1>1 DEF VolumeStep

LEMMA VolumeBecome ==
  ASSUME Typed(fs), NEW t, Become(t),
         Sized(t.fs, Users(openfile) \cap Users(t.openfile), Sizes)
  PROVE  VolumeStep
  <1>1. PICK K : K = Users(openfile) \cap Users(t.openfile)
    OBVIOUS
  <1>2. fs' = t.fs /\ openfile' = t.openfile
    BY DEF Become
  <1>3. Typed(fs') /\ \A n \in Inodes : n \in K => fs'.inode[n].size = Sizes[n]
    BY <1>1, <1>2 DEF Sized
  <1>4. ASSUME NEW n \in Inodes, Uses(openfile, n), Uses(openfile', n)
        PROVE  fs'.inode[n].size >= fs.inode[n].size
    <2>1. n \in K
      BY <1>1, <1>2, <1>4 DEF Users
    <2>2. fs'.inode[n].size = fs.inode[n].size
      BY <1>3, <2>1 DEF Sizes
    <2>3. fs.inode[n].size \in 0 .. MaxSize
      BY DEF Typed, FieldsTyped
    <2> QED BY <2>2, <2>3
  <1> QED BY <1>3, <1>4 DEF VolumeStep

(***************************************************************************)
(* open(), and the calls that look a path up and let go of it.             *)
(***************************************************************************)
LEMMA VolumeLookup ==
  ASSUME InodeInv, Typed(fs), NEW path, Len(path) \in Nat \ {0}
  PROVE  LET l == LookupPath(Tables, path)
         IN  /\ ExactTables(l.t) /\ l.file \in Files \cup {NoFile}
             /\ Sized(l.t.fs, Users(openfile), Sizes)
             /\ Users(openfile) \subseteq Users(l.t.openfile)
             /\ l.file # NoFile => l.t.openfile[l.file].node \in Inodes
  <1>1. PICK t, H, z : t = Tables /\ H = Users(openfile) /\ z = Sizes
    OBVIOUS
  <1>2. ExactTables(t) /\ t.fs = fs /\ t.openfile = openfile
    BY <1>1, TablesExact DEF Tables
  <1>3. Sized(t.fs, H, z) /\ H \subseteq Users(t.openfile)
    BY <1>1, <1>2, SizedStart
  <1>4. PICK l : l = LookupPath(t, path)
    OBVIOUS
  <1>5. ExactTables(l.t) /\ l.file \in Files \cup {NoFile}
    BY <1>2, <1>4, LookupPathExact
  <1>6. /\ Sized(l.t.fs, H, z) /\ H \subseteq Users(l.t.openfile)
        /\ l.file # NoFile => l.t.openfile[l.file].node \in Inodes
    BY <1>2, <1>3, <1>4, LookupPathSized
  <1> QED BY <1>1, <1>4, <1>5, <1>6

LEMMA VolumeReleaseLookup ==
  ASSUME Typed(fs), NEW t, ExactTables(t), Sized(t.fs, Users(openfile), Sizes),
         NEW f \in Files \cup {NoFile}, Become(ReleaseLookup(t, f))
  PROVE  VolumeStep
  BY ReleaseLookupSized, VolumeBecome

LEMMA VolumeOpen ==
  ASSUME InodeInv, Typed(fs), NEW p \in Procs, NEW path \in Paths, Open(p, path)
  PROVE  VolumeStep
  <1>1. PICK l : l = LookupPath(Tables, path)
    OBVIOUS
  <1>2. /\ ExactTables(l.t) /\ l.file \in Files \cup {NoFile}
        /\ Sized(l.t.fs, Users(openfile), Sizes)
    BY <1>1, PathFacts, VolumeLookup
  <1>3. CASE Become(ReleaseLookup(l.t, l.file))
    BY <1>2, <1>3, VolumeReleaseLookup
  <1>4. CASE Become([l.t EXCEPT !.openfile[l.file].ref = @ + 1])
    <2>1. PICK u : u = [l.t EXCEPT !.openfile[l.file].ref = @ + 1]
      OBVIOUS
    <2>2. u.fs = l.t.fs
      BY <1>2, <2>1 DEF ExactTables, IsTables
    <2>3. Sized(u.fs, Users(openfile) \cap Users(u.openfile), Sizes)
      BY <1>2, <2>2, SizedFewer
    <2> QED BY <1>4, <2>1, <2>3, VolumeBecome
  <1> QED BY <1>1, <1>3, <1>4 DEF Open

LEMMA VolumeVisit ==
  ASSUME InodeInv, Typed(fs), NEW p \in Procs, NEW path \in Paths, Visit(p, path)
  PROVE  VolumeStep
  <1>1. PICK l : l = LookupPath(Tables, path)
    OBVIOUS
  <1>2. /\ ExactTables(l.t) /\ l.file \in Files \cup {NoFile}
        /\ Sized(l.t.fs, Users(openfile), Sizes)
    BY <1>1, PathFacts, VolumeLookup
  <1>3. Become(ReleaseLookup(l.t, l.file))
    BY <1>1 DEF Visit
  <1> QED BY <1>2, <1>3, VolumeReleaseLookup

LEMMA VolumeClose ==
  ASSUME InodeInv, Typed(fs), NEW p \in Procs, NEW i \in Fds, Close(p, i)
  PROVE  VolumeStep
  <1>1. PICK t, f, z : t = Tables /\ f = fdTable[p][i].file /\ z = Sizes
    OBVIOUS
  <1>2. ExactTables(t) /\ IsNodes(t.openfile) /\ f \in Files \cup {NoFile}
    BY <1>1, TablesExact DEF InodeInv, CountInv, IsFds
  <1>3. Become(CloseFile(t, f))
    BY <1>1 DEF Close
  <1>4. t.fs = fs
    BY <1>1 DEF Tables
  <1>5. CASE f = NoFile
    <2>1. fs' = fs
      BY <1>3, <1>4, <1>5 DEF CloseFile, Become
    <2> QED BY <2>1, VolumeSame
  <1>6. CASE f # NoFile
    <2>1. PICK d, u : /\ d = t.openfile[f].ref - 1
                      /\ u = [t EXCEPT !.openfile[f].ref = d]
      OBVIOUS
    <2>2. ExactTables(u)
      BY <1>2, <1>6, <2>1, RefExact
    <2>3. u.fs = fs
      BY <1>2, <1>4, <2>1 DEF ExactTables, IsTables
    <2>4. Sized(u.fs, Users(openfile), z)
      BY <1>1, <2>3, SizedStart
    <2>5. CloseFile(t, f) = ReleaseLookup(u, f)
      BY <1>6, <2>1 DEF CloseFile, ReleaseLookup
    <2> QED BY <1>1, <1>2, <1>3, <2>2, <2>4, <2>5, VolumeReleaseLookup
  <1> QED BY <1>5, <1>6

(***************************************************************************)
(* The calls on a parent directory.                                        *)
(***************************************************************************)
LEMMA NameOfPath ==
  ASSUME NEW path \in Paths
  PROVE  Last(path) \in Names
  <1>1. path \in Seq(Names) /\ Len(path) \in Nat \ {0}
    BY PathFacts
  <1>2. Last(path) = path[Len(path)]
    BY DEF Last
  <1> QED BY <1>1, <1>2

LEMMA FsCallTables ==
  ASSUME NEW t, ExactTables(t), NEW H, H \subseteq Users(t.openfile),
         NEW z, Sized(t.fs, H, z),
         NEW call \in Calls, NEW d \in FirstClusters, NEW name \in Names
  PROVE  LET x == [t EXCEPT !.fs = FsCall(call, t.fs, d, name)]
         IN  ExactTables(x) /\ x.openfile = t.openfile /\ Sized(x.fs, H, z)
  <1>1. PICK s, x : s = FsCall(call, t.fs, d, name) /\ x = [t EXCEPT !.fs = s]
    OBVIOUS
  <1>2. x.fs = s /\ x.openfile = t.openfile
    BY <1>1 DEF ExactTables, IsTables
  <1>3. HasRefs(t.fs, Refs(t.openfile)) /\ Held(H, Refs(t.openfile))
    BY UsersHeld DEF ExactTables, Exact
  <1>4. Sized(s, H, z)
    BY <1>1, <1>3, FsCallSized
  <1>5. ExactTables(x)
    BY <1>1, FsCallExact
  <1> QED BY <1>1, <1>2, <1>4, <1>5

LEMMA InParentSized ==
  ASSUME InodeInv, Typed(fs), NEW call \in Calls, NEW path \in Paths
  PROVE  Sized(InParent(call, path).fs,
               Users(openfile) \cap Users(InParent(call, path).openfile), Sizes)
  <1>1. PICK t, name, H, z : /\ t = Tables /\ name = Last(path)
                             /\ H = Users(openfile) /\ z = Sizes
    OBVIOUS
  <1>2. /\ ExactTables(t) /\ t.fs = fs /\ t.openfile = openfile /\ name \in Names
        /\ Sized(t.fs, H, z) /\ H \subseteq Users(t.openfile)
    BY <1>1, TablesExact, NameOfPath, SizedStart DEF Tables
  <1>3. CASE Len(path) = 1
    <2>1. PICK x : x = [t EXCEPT !.fs = FsCall(call, t.fs, Root, name)]
      OBVIOUS
    <2>2. InParent(call, path) = x
      BY <1>1, <1>3, <2>1 DEF InParent
    <2>3. Root \in FirstClusters
      BY DEF FirstClusters, Blocks
    <2>4. Sized(x.fs, H, z)
      BY <1>2, <2>1, <2>3, FsCallTables
    <2> QED BY <1>1, <2>2, <2>4, SizedFewer
  <1>4. CASE Len(path) # 1
    <2>1. PICK l : l = LookupPath(t, Front(path))
      OBVIOUS
    <2>2. InParent(call, path) = AtParent(call, l, name)
      BY <1>1, <1>4, <2>1 DEF InParent
    <2>3. /\ ExactTables(l.t) /\ l.file \in Files \cup {NoFile}
          /\ Sized(l.t.fs, H, z) /\ H \subseteq Users(l.t.openfile)
          /\ l.file # NoFile => l.t.openfile[l.file].node \in Inodes
      BY <1>1, <1>4, <2>1, PathFacts, VolumeLookup
    <2>4. CASE l.file = NoFile
      <3>1. InParent(call, path) = l.t
        BY <2>2, <2>4 DEF AtParent
      <3> QED BY <1>1, <2>3, <3>1, SizedFewer
    <2>5. CASE l.file # NoFile
      <3>1. PICK n, d, x : /\ n = l.t.openfile[l.file].node /\ d = DirCluster(l.t.fs, n)
                           /\ x = [l.t EXCEPT !.fs = FsCall(call, l.t.fs, d, name)]
        OBVIOUS
      <3>2. d \in FirstClusters
        BY <2>3, <2>5, <3>1, DirClusterFirst DEF Pointers, Sized
      <3>3. ExactTables(x) /\ Sized(x.fs, H, z)
        <4>1. PICK u : u = l.t
          OBVIOUS
        <4>2. PICK v : v = [u EXCEPT !.fs = FsCall(call, u.fs, d, name)]
          OBVIOUS
        <4>3. ExactTables(u) /\ H \subseteq Users(u.openfile) /\ Sized(u.fs, H, z)
          BY <2>3, <4>1
        <4>4. name \in Names
          BY <1>2
        <4>5. ExactTables(v) /\ Sized(v.fs, H, z)
          BY <3>2, <4>2, <4>3, <4>4, FsCallTables
        <4>6. x = v
          BY <3>1, <4>1, <4>2
        <4> QED BY <4>5, <4>6
      <3>4. PICK y : /\ y = IF l.t.fs.inode[n].dir THEN x ELSE l.t
        OBVIOUS
      <3>5. AtParent(call, l, name) = ReleaseLookup(y, l.file)
        BY <2>5, <3>1, <3>4 DEF AtParent
      <3>6. ExactTables(y) /\ Sized(y.fs, H, z)
        BY <2>3, <3>3, <3>4
      <3>7. Sized(ReleaseLookup(y, l.file).fs,
                  H \cap Users(ReleaseLookup(y, l.file).openfile), z)
        BY <2>3, <3>6, ReleaseLookupSized
      <3> QED BY <1>1, <2>2, <3>5, <3>7
    <2> QED BY <2>4, <2>5
  <1> QED BY <1>3, <1>4

LEMMA VolumeAtParent ==
  ASSUME InodeInv, Typed(fs), NEW p \in Procs, NEW path \in Paths,
         \/ Create(p, path) \/ RemoveFile(p, path)
         \/ Rmdir(p, path) \/ Mkdir(p, path)
  PROVE  VolumeStep
  <1>1. PICK call \in Calls : Become(InParent(call, path))
    BY DEF Create, RemoveFile, Rmdir, Mkdir, Calls
  <1>2. PICK t : t = InParent(call, path)
    OBVIOUS
  <1>3. Sized(t.fs, Users(openfile) \cap Users(t.openfile), Sizes)
    BY <1>2, InParentSized
  <1> QED BY <1>1, <1>2, <1>3, VolumeBecome

(***************************************************************************)
(* The end of a process, which gives back only inodes nobody else has open.*)
(***************************************************************************)
LEMMA VolumeRelease ==
  ASSUME InodeInv, Typed(fs), NEW p \in Procs, Exit(p) \/ ReleasePCB(p)
  PROVE  VolumeStep
  <1>1. PICK t : t = ReleaseProcess(Tables, p)
    OBVIOUS
  <1>2. Become(t)
    BY <1>1 DEF Exit, ReleasePCB
  <1>3. PICK P : ReleasedPool(t, P)
    BY <1>1, ReleaseProcessExact
  <1>4. IsVolume(fs)
    BY DEF InodeInv, Exact, HasRefs
  <1>5. t.fs = [fat |-> fs.fat, dirs |-> fs.dirs, inode |-> P]
    BY <1>3, <1>4 DEF ReleasedPool, IsVolume
  <1>6. t.fs.fat = fs.fat /\ t.fs.dirs = fs.dirs /\ t.fs.inode = P
    BY <1>5
  <1>7. FieldsTyped(FreeInode)
    BY DEF FieldsTyped, FreeInode
  <1>8. \A n \in Inodes : FieldsTyped(P[n])
    BY <1>3, <1>7 DEF ReleasedPool, Typed
  <1>9. \A n \in Inodes : Uses(t.openfile, n) => P[n].size = fs.inode[n].size
    BY <1>3 DEF ReleasedPool
  <1>10. Typed(t.fs)
    BY <1>6, <1>8 DEF Typed
  <1>11. Sized(t.fs, Users(openfile) \cap Users(t.openfile), Sizes)
    BY <1>6, <1>9, <1>10 DEF Sized, Sizes, Users
  <1> QED BY <1>2, <1>11, VolumeBecome

(***************************************************************************)
(* append().                                                               *)
(***************************************************************************)
LEMMA AppendToTyped ==
  ASSUME InodeInv, Typed(fs), NEW n \in Inodes, NEW k \in Amounts,
         fs.inode[n].size + k <= MaxSize, ~ AppendFails(fs, n)
  PROVE  LET u == UpdateEntry(AppendData(fs, n, k), n)
         IN  /\ Typed(u) /\ Grown(fs, u, n)
             /\ u.inode = AppendData(fs, n, k).inode
  <1>1. PICK s, u : s = AppendData(fs, n, k) /\ u = UpdateEntry(s, n)
    OBVIOUS
  <1>2. IsVolume(fs) /\ IsPool(fs.inode) /\ k \in Nat \ {0}
    BY DEF InodeInv, Exact, HasRefs
  <1>3. IsVolume(s) /\ Typed(s) /\ Grown(fs, s, n)
    BY <1>1, <1>2, AppendGrows
  <1>4. Typed(u) /\ u.inode = s.inode
    BY <1>1, <1>3, UpdateTyped
  <1>5. Grown(fs, u, n)
    BY <1>3, <1>4 DEF Grown
  <1> QED BY <1>1, <1>4, <1>5

LEMMA VolumeAppendTo ==
  ASSUME InodeInv, Typed(fs), NEW p \in Procs, NEW i \in Fds, NEW k \in Amounts,
         InodeOf(p, i) \in Inodes, AppendTo(p, i, k)
  PROVE  VolumeStep
  <1>1. PICK n, u : n = InodeOf(p, i) /\ u = UpdateEntry(AppendData(fs, n, k), n)
    OBVIOUS
  <1>2. CASE fs' = fs
    BY <1>2, VolumeSame
  <1>3. CASE fs' = u
    <2>1. Typed(u) /\ Grown(fs, u, n)
      BY <1>1, AppendToTyped DEF AppendTo
    <2>2. ASSUME NEW m \in Inodes PROVE u.inode[m].size >= fs.inode[m].size
      <3>1. fs.inode[m].size \in 0 .. MaxSize
        BY DEF Typed, FieldsTyped
      <3>2. CASE m = n
        BY <2>1, <3>2 DEF Grown
      <3>3. CASE m # n
        <4>1. u.inode[m] = fs.inode[m]
          BY <2>1, <3>3 DEF Grown
        <4> QED BY <3>1, <4>1
      <3> QED BY <3>2, <3>3
    <2> QED BY <1>3, <2>1, <2>2 DEF VolumeStep
  <1> QED BY <1>1, <1>2, <1>3 DEF AppendTo

-----------------------------------------------------------------------------
(***************************************************************************)
(* The descriptor d, to which a read or write in progress will add m, is   *)
(* within its file.                                                        *)
(***************************************************************************)
FdWithin(d, m, o, s) ==
  d.file # NoFile =>
    /\ o[d.file].node \in Inodes
    /\ d.offset \in Nat /\ m \in Nat
    /\ d.offset + m <= s.inode[o[d.file].node].size

Pending(p, i) == IF moved[p][1] = i THEN moved[p][2] ELSE 0

Offsets ==
  \A p \in Procs : \A i \in Fds : FdWithin(fdTable[p][i], Pending(p, i), openfile, fs)

MovedTyped == moved \in [Procs -> (Fds \cup {0}) \X (0 .. MaxSize)]

ProcTyped ==
  proc \in [Procs -> {"none", "alive", "zombie"}] /\ panicked \in BOOLEAN

(***************************************************************************)
(* The inductive invariant for TypeOK and OffsetInFile: an append can only *)
(* make a file longer, and an inode that is open is not given back, so an  *)
(* offset that was within its file still is, whoever moved the end.        *)
(***************************************************************************)
FileInv == DescInv /\ InodeInv /\ Typed(fs) /\ Offsets /\ MovedTyped /\ ProcTyped

(***************************************************************************)
(* A descriptor that is the same, or a copy, with as much in progress.     *)
(***************************************************************************)
FdKept(q, j) ==
  \E p \in Procs : fdTable'[q][j] = fdTable[p][j] /\ Pending(q, j)' = Pending(p, j)

LEMMA KeptWithin ==
  ASSUME FileInv, CountInv', NodesKept, VolumeStep,
         NEW q \in Procs, NEW j \in Fds, FdKept(q, j)
  PROVE  FdWithin(fdTable'[q][j], Pending(q, j)', openfile', fs')
  <1>1. PICK p \in Procs : /\ fdTable'[q][j] = fdTable[p][j]
                           /\ Pending(q, j)' = Pending(p, j)
    BY DEF FdKept
  <1>2. PICK d, f, m : d = fdTable[p][j] /\ f = d.file /\ m = Pending(p, j)
    OBVIOUS
  <1>3. CASE f = NoFile
    BY <1>1, <1>2, <1>3 DEF FdWithin
  <1>4. CASE f # NoFile
    <2>1. f \in Files
      BY <1>2, <1>4 DEF FileInv, DescInv, CountInv, IsFds
    <2>2. openfile[f].ref > 0
      BY <1>2, <2>1, NamedHasRef DEF FileInv, DescInv, CountInv
    <2>3. openfile'[f].ref > 0
      BY <1>1, <1>2, <2>1, NamedHasRef DEF CountInv
    <2>4. PICK n : n = openfile[f].node
      OBVIOUS
    <2>5. openfile'[f].node = n
      BY <2>1, <2>2, <2>3, <2>4 DEF NodesKept
    <2>6. FdWithin(d, m, openfile, fs)
      BY <1>2 DEF FileInv, Offsets
    <2>7. /\ n \in Inodes /\ d.offset \in Nat /\ m \in Nat
          /\ d.offset + m <= fs.inode[n].size
      BY <1>2, <1>4, <2>4, <2>6 DEF FdWithin
    <2>8. Uses(openfile, n) /\ Uses(openfile', n)
      BY <2>1, <2>4, <2>5 DEF Uses
    <2>9. fs'.inode[n].size >= fs.inode[n].size
      BY <2>7, <2>8 DEF VolumeStep
    <2>10. fs.inode[n].size \in Nat /\ fs'.inode[n].size \in Nat
      <3>1. Typed(fs) /\ Typed(fs')
        BY DEF FileInv, VolumeStep
      <3>2. fs.inode[n].size \in 0 .. MaxSize /\ fs'.inode[n].size \in 0 .. MaxSize
        BY <2>7, <3>1 DEF Typed, FieldsTyped
      <3> QED BY <3>2
    <2>11. d.offset + m <= fs'.inode[n].size
      BY <2>7, <2>9, <2>10
    <2> QED BY <1>1, <1>2, <2>5, <2>7, <2>11 DEF FdWithin
  <1> QED BY <1>3, <1>4

LEMMA OffsetsStep ==
  ASSUME FileInv, CountInv', NodesKept, VolumeStep,
         \A q \in Procs : \A j \in Fds :
           \/ FdKept(q, j)
           \/ FdWithin(fdTable'[q][j], Pending(q, j)', openfile', fs')
  PROVE  Offsets'
  <1>1. ASSUME NEW q \in Procs, NEW j \in Fds
        PROVE  FdWithin(fdTable'[q][j], Pending(q, j)', openfile', fs')
    BY KeptWithin
  <1> QED BY <1>1 DEF Offsets

LEMMA StillPending ==
  ASSUME NEW p \in Procs, moved[p] = Still, NEW i \in Fds
  PROVE  Pending(p, i) = 0
  BY DEF Pending, Still, Fds

(***************************************************************************)
(* Steps that leave the descriptors alone, and that set one of them.       *)
(***************************************************************************)
LEMMA OffsetsUntouched ==
  ASSUME FileInv, CountInv', NodesKept, VolumeStep, UNCHANGED <<fdTable, moved>>
  PROVE  Offsets'
  <1>1. ASSUME NEW q \in Procs, NEW j \in Fds PROVE FdKept(q, j)
    BY DEF FdKept, Pending
  <1> QED BY <1>1, OffsetsStep

LEMMA SetFdIs ==
  ASSUME FileInv, NEW p \in Procs, NEW i \in Fds, NEW d,
         fdTable' = [fdTable EXCEPT ![p] = [fdTable[p] EXCEPT ![i] = d]]
  PROVE  FdIs(fdTable, fdTable', p, i, d)
  <1>1. PICK U : U = [fdTable EXCEPT ![p] = [fdTable[p] EXCEPT ![i] = d]]
    OBVIOUS
  <1>2. IsFds(fdTable)
    BY DEF FileInv, DescInv, CountInv
  <1>3. FdIs(fdTable, U, p, i, d)
    BY <1>1, <1>2, FdExcept
  <1>4. fdTable' = U
    BY <1>1
  <1> QED BY <1>3, <1>4, Zenon

LEMMA OffsetsOne ==
  ASSUME FileInv, CountInv', NodesKept, VolumeStep,
         NEW p \in Procs, moved' = moved, NEW i \in Fds, NEW d,
         fdTable' = [fdTable EXCEPT ![p] = [fdTable[p] EXCEPT ![i] = d]],
         FdWithin(d, Pending(p, i), openfile', fs')
  PROVE  Offsets'
  <1>0. FdIs(fdTable, fdTable', p, i, d)
    BY SetFdIs
  <1>1. /\ fdTable'[p][i] = d
        /\ \A q \in Procs : \A j \in Fds :
             <<q, j>> # <<p, i>> => fdTable'[q][j] = fdTable[q][j]
    BY <1>0 DEF FdIs
  <1>2. \A q \in Procs : \A j \in Fds : Pending(q, j)' = Pending(q, j)
    BY DEF Pending
  <1>3. ASSUME NEW q \in Procs, NEW j \in Fds
        PROVE  \/ FdKept(q, j)
               \/ FdWithin(fdTable'[q][j], Pending(q, j)', openfile', fs')
    <2>1. CASE q = p /\ j = i
      <3>1. FdWithin(fdTable'[p][i], Pending(p, i)', openfile', fs')
        BY <1>1, <1>2
      <3> QED BY <2>1, <3>1
    <2>2. CASE ~ (q = p /\ j = i)
      BY <1>1, <1>2, <2>2 DEF FdKept
    <2> QED BY <2>1, <2>2
  <1> QED BY <1>3, OffsetsStep

(***************************************************************************)
(* What an open descriptor stands for.                                     *)
(***************************************************************************)
LEMMA OpenWithin ==
  ASSUME FileInv, NEW p \in Procs, NEW i \in Fds, fdTable[p][i].file # NoFile
  PROVE  /\ fdTable[p][i].file \in Files /\ InodeOf(p, i) \in Inodes
         /\ fdTable[p][i].offset \in Nat /\ Pending(p, i) \in Nat
         /\ fdTable[p][i].offset + Pending(p, i) <= fs.inode[InodeOf(p, i)].size
  <1>1. FdWithin(fdTable[p][i], Pending(p, i), openfile, fs)
    BY DEF FileInv, Offsets
  <1>2. fdTable[p][i].file \in Files
    BY DEF FileInv, DescInv, CountInv, IsFds
  <1> QED BY <1>1, <1>2 DEF FdWithin, InodeOf

LEMMA NotClosed ==
  ASSUME FileInv, NEW p \in Procs, NEW i \in Fds, fdTable[p][i] # Closed
  PROVE  fdTable[p][i].file # NoFile
  BY DEF FileInv, DescInv, OpenNamed

LEMMA SizeNat ==
  ASSUME NEW s, Typed(s), NEW n \in Inodes
  PROVE  s.inode[n].size \in Nat /\ s.inode[n].size <= MaxSize
  <1>1. s.inode[n].size \in 0 .. MaxSize
    BY DEF Typed, FieldsTyped
  <1> QED BY <1>1

(***************************************************************************)
(* The actions, for the offsets.                                           *)
(***************************************************************************)
LEMMA OffsetsOpen ==
  ASSUME FileInv, CountInv', NodesKept, VolumeStep,
         NEW p \in Procs, NEW path \in Paths, Open(p, path)
  PROVE  Offsets'
  <1>1. PICK l, free : /\ l = LookupPath(Tables, path)
                       /\ free = {i \in Fds : fdTable[p][i] = Closed}
    OBVIOUS
  <1>2. moved' = moved /\ moved[p] = Still
    BY DEF Open, Ready
  <1>3. CASE l.file # NoFile /\ free # {}
    <2>1. PICK f, i, x, d : /\ f = l.file /\ i = Min(free) /\ x = l.t.openfile
                            /\ d = [file |-> f, offset |-> 0]
      OBVIOUS
    <2>2. /\ openfile' = [l.t EXCEPT !.openfile[f].ref = @ + 1].openfile
          /\ fdTable' = [fdTable EXCEPT ![p][i] = d]
      BY <1>1, <1>3, <2>1 DEF Open, Become
    <2>3. i \in Fds
      <3>1. free \in SUBSET (0 .. MaxFd) /\ MaxFd \in Nat
        BY <1>1 DEF Fds
      <3>2. i \in free
        BY <1>3, <2>1, <3>1, MinIn
      <3> QED BY <1>1, <3>2
    <2>4. IsNodes(openfile) /\ InodeInv /\ Typed(fs)
      BY DEF FileInv, InodeInv, CountInv
    <2>5. /\ ExactTables(l.t) /\ f \in Files /\ x[f].node \in Inodes
      BY <1>1, <1>3, <2>1, <2>4, PathFacts, VolumeLookup
    <2>6. Found(openfile, l) \/ Placed(openfile, l)
      <3>1. PICK t : t = Tables
        OBVIOUS
      <3>2. IsTables(t) /\ t.openfile = openfile
        BY <3>1 DEF Tables, IsTables
      <3>3. l = LookupPath(t, path)
        BY <1>1, <3>1
      <3> QED BY <3>2, <3>3, LookupPathFacts
    <2>7. IsNodes(x)
      BY <1>3, <2>1, <2>4, <2>6, LookupNodes
    <2>8. openfile'[f].node = x[f].node
      <3>1. PICK e : e = [node |-> x[f].node, ref |-> x[f].ref + 1]
        OBVIOUS
      <3>2. [x[f] EXCEPT !.ref = @ + 1] = e
        BY <2>5, <2>7, <3>1 DEF IsNodes
      <3>3. openfile' = [x EXCEPT ![f] = e]
        BY <2>1, <2>2, <2>5, <3>2 DEF ExactTables, IsTables
      <3> QED BY <2>5, <2>7, <3>1, <3>3 DEF IsNodes
    <2>9. PICK n \in Inodes : n = x[f].node
      BY <2>5
    <2>10. fs'.inode[n].size \in Nat
      BY SizeNat DEF VolumeStep
    <2>11. Pending(p, i) = 0
      BY <1>2, <2>3, StillPending
    <2>12. FdWithin(d, Pending(p, i), openfile', fs')
      <3>1. d.file = f /\ d.offset = 0 /\ openfile'[f].node = n
        BY <2>1, <2>8, <2>9
      <3> QED BY <2>10, <2>11, <3>1 DEF FdWithin
    <2> QED BY <1>2, <2>2, <2>3, <2>12, OffsetsOne
  <1>4. CASE ~ (l.file # NoFile /\ free # {})
    <2>1. fdTable' = fdTable
      BY <1>1, <1>4 DEF Open
    <2> QED BY <1>2, <2>1, OffsetsUntouched
  <1> QED BY <1>3, <1>4

LEMMA OffsetsClose ==
  ASSUME FileInv, CountInv', NodesKept, VolumeStep,
         NEW p \in Procs, NEW i \in Fds, Close(p, i)
  PROVE  Offsets'
  <1>1. moved' = moved /\ fdTable' = [fdTable EXCEPT ![p][i] = Closed]
    BY DEF Close
  <1>2. FdWithin(Closed, Pending(p, i), openfile', fs')
    BY FileFacts DEF FdWithin
  <1> QED BY <1>1, <1>2, OffsetsOne

LEMMA OffsetsSet ==
  ASSUME FileInv, CountInv', NodesKept, VolumeStep, UNCHANGED <<openfile, moved>>,
         NEW p \in Procs, moved[p] = Still,
         NEW i \in Fds, fdTable[p][i] # Closed, NEW v \in Nat,
         v <= fs'.inode[InodeOf(p, i)].size,
         fdTable' = [fdTable EXCEPT ![p][i].offset = v]
  PROVE  Offsets'
  <1>1. PICK f, d, n : /\ f = fdTable[p][i].file /\ d = [file |-> f, offset |-> v]
                       /\ n = InodeOf(p, i)
    OBVIOUS
  <1>2. CountInv /\ f # NoFile /\ n \in Inodes /\ openfile[f].node = n
    BY <1>1, NotClosed, OpenWithin DEF FileInv, DescInv, InodeOf
  <1>3. fdTable' = [fdTable EXCEPT ![p] = [fdTable[p] EXCEPT ![i] = d]]
    <2>1. fdTable' = [fdTable EXCEPT ![p] = [fdTable[p] EXCEPT ![i] =
                        [file |-> fdTable[p][i].file, offset |-> v]]]
      BY <1>2, SetOffset, ZenonT(30)
    <2> QED BY <1>1, <2>1, Zenon
  <1>4. Pending(p, i) = 0
    BY StillPending
  <1>5. v + 0 <= fs'.inode[n].size
    <2>1. v + 0 = v
      OBVIOUS
    <2> QED BY <1>1, <2>1
  <1>6. d.file = f /\ d.offset = v /\ openfile' = openfile
    BY <1>1
  <1>7. FdWithin(d, Pending(p, i), openfile', fs')
    BY <1>2, <1>4, <1>5, <1>6 DEF FdWithin
  <1> QED BY <1>3, <1>7, OffsetsOne

LEMMA OffsetsAppendTo ==
  ASSUME FileInv, CountInv', NodesKept, VolumeStep,
         NEW p \in Procs, NEW i \in Fds, NEW k \in Amounts, AppendTo(p, i, k)
  PROVE  Offsets'
  <1>1. PICK n, s, u : /\ n = InodeOf(p, i) /\ s = AppendData(fs, n, k)
                       /\ u = UpdateEntry(s, n)
    OBVIOUS
  <1>2. /\ UNCHANGED <<openfile, moved>> /\ moved[p] = Still
        /\ fdTable[p][i] # Closed
    BY DEF AppendTo, Ready
  <1>3. n \in Inodes /\ InodeInv /\ Typed(fs)
    BY <1>1, <1>2, NotClosed, OpenWithin DEF FileInv
  <1>4. CASE fdTable' = fdTable
    BY <1>2, <1>4, OffsetsUntouched
  <1>5. CASE fs' = u /\ fdTable' = [fdTable EXCEPT ![p][i].offset = s.inode[n].size]
    <2>1. Typed(u) /\ u.inode = s.inode
      BY <1>1, <1>3, AppendToTyped DEF AppendTo
    <2>2. PICK v \in Nat : v = s.inode[n].size /\ v <= fs'.inode[n].size
      BY <1>3, <1>5, <2>1, SizeNat
    <2> QED BY <1>1, <1>2, <1>5, <2>2, OffsetsSet
  <1> QED BY <1>1, <1>4, <1>5 DEF AppendTo

LEMMA OffsetsFseek ==
  ASSUME FileInv, CountInv', NodesKept, VolumeStep,
         NEW p \in Procs, NEW i \in Fds, NEW offset \in Nat, Fseek(p, i, offset)
  PROVE  Offsets'
  <1>1. /\ UNCHANGED <<fs, openfile, moved>> /\ moved[p] = Still
        /\ fdTable[p][i] # Closed /\ offset <= fs.inode[InodeOf(p, i)].size
        /\ fdTable' = [fdTable EXCEPT ![p][i].offset = offset]
    BY DEF Fseek, Ready
  <1> QED BY <1>1, OffsetsSet

(***************************************************************************)
(* read() and write() stop at the end of the file.                         *)
(***************************************************************************)
LEMMA TransferredWithin ==
  ASSUME NEW s, Typed(s), NEW n \in Inodes, NEW offset \in Nat, NEW k \in Nat \ {0},
         NEW ret, ret = Transferred(s, n, offset, k), ret > 0
  PROVE  ret \in Nat /\ offset + ret <= s.inode[n].size
  <1>1. PICK nd, ch : nd = s.inode[n] /\ ch = Chain(s, nd.start)
    OBVIOUS
  <1>2. nd.size \in Nat /\ nd.start \in Clusters \cup {NoCluster}
    BY <1>1, SizeNat DEF Typed, FieldsTyped
  <1>3. Len(ch) \in Nat
    <2>1. CASE nd.start \in Clusters
      BY <1>1, <2>1, ChainOfClusters
    <2>2. CASE nd.start = NoCluster
      <3>1. ch = <<>>
        BY <1>1, <2>2 DEF Chain
      <3> QED BY <3>1
    <2> QED BY <1>2, <2>1, <2>2
  <1>4. PICK a, b, S : /\ a = nd.size - offset /\ b = Len(ch) * ClusterSize - offset
                       /\ S = {a, b} \cup {k}
    OBVIOUS
  <1>5. a \in Int /\ b \in Int
    BY <1>2, <1>3, <1>4
  <1>6. Transferred(s, n, offset, k) = IF nd.dir \/ Min({a, b}) <= 0 THEN 0 ELSE Min(S)
    BY <1>1, <1>4 DEF Transferred
  <1>7. ret = Min(S)
    <2>1. ~ (0 > 0)
      OBVIOUS
    <2> QED BY <1>6, <2>1
  <1>8. IsFiniteSet(S)
    <2>1. IsFiniteSet({a}) /\ IsFiniteSet({b}) /\ IsFiniteSet({k})
      BY FS_Singleton
    <2>2. IsFiniteSet(({a} \cup {b}) \cup {k})
      BY <2>1, FS_Union
    <2>3. S = ({a} \cup {b}) \cup {k}
      BY <1>4
    <2> QED BY <2>2, <2>3
  <1>9. S \subseteq Int /\ S # {} /\ a \in S
    BY <1>4, <1>5
  <1>10. ret \in Int /\ ret <= a
    <2>1. Min(S) \in S /\ \A x \in S : Min(S) <= x
      BY <1>8, <1>9, MinLeast
    <2> QED BY <1>7, <1>9, <2>1
  <1> QED BY <1>1, <1>2, <1>4, <1>10

LEMMA OffsetsTransfer ==
  ASSUME FileInv, CountInv', NodesKept, VolumeStep,
         NEW p \in Procs, NEW i \in Fds, NEW k \in Amounts, Transfer(p, i, k)
  PROVE  Offsets' /\ MovedTyped'
  <1>1. PICK d, n, ret : /\ d = fdTable[p][i] /\ n = InodeOf(p, i)
                         /\ ret = Transferred(fs, n, d.offset, k)
    OBVIOUS
  <1>2. /\ moved[p] = Still /\ d # Closed /\ ret > 0
        /\ moved' = [moved EXCEPT ![p] = <<i, ret>>]
        /\ UNCHANGED <<fs, openfile, fdTable>>
    BY <1>1 DEF Transfer, Ready
  <1>3. /\ d.file # NoFile /\ d.file \in Files /\ n \in Inodes /\ d.offset \in Nat
        /\ openfile[d.file].node = n
    BY <1>1, <1>2, NotClosed, OpenWithin DEF InodeOf
  <1>4. Typed(fs) /\ k \in Nat \ {0}
    BY DEF FileInv
  <1>5. ret \in Nat /\ d.offset + ret <= fs.inode[n].size
    BY <1>1, <1>2, <1>3, <1>4, TransferredWithin
  <1>6. fs.inode[n].size \in Nat /\ fs.inode[n].size <= MaxSize
    BY <1>3, <1>4, SizeNat
  <1>7. ret \in 0 .. MaxSize
    BY <1>3, <1>5, <1>6
  <1>8. PICK m : m = <<i, ret>>
    OBVIOUS
  <1>9. m[1] = i /\ m[2] = ret /\ m \in (Fds \cup {0}) \X (0 .. MaxSize)
    BY <1>7, <1>8
  <1>10. /\ moved'[p] = m /\ \A q \in Procs : q # p => moved'[q] = moved[q]
         /\ MovedTyped'
    BY <1>2, <1>8, <1>9 DEF FileInv, MovedTyped
  <1>11. ASSUME NEW q \in Procs, NEW j \in Fds
         PROVE  \/ FdKept(q, j)
                \/ FdWithin(fdTable'[q][j], Pending(q, j)', openfile', fs')
    <2>1. CASE q = p /\ j = i
      <3>1. Pending(p, i)' = ret
        BY <1>9, <1>10 DEF Pending
      <3>2. FdWithin(d, ret, openfile, fs)
        BY <1>3, <1>5 DEF FdWithin
      <3>3. fdTable'[p][i] = d /\ openfile' = openfile /\ fs' = fs
        BY <1>1, <1>2
      <3>4. FdWithin(fdTable'[p][i], Pending(p, i)', openfile', fs')
        BY <3>1, <3>2, <3>3
      <3> QED BY <2>1, <3>4
    <2>2. CASE q = p /\ j # i
      <3>1. Pending(p, j)' = 0
        BY <1>9, <1>10, <2>2 DEF Pending
      <3>2. Pending(p, j) = 0
        BY <1>2, StillPending
      <3> QED BY <1>2, <2>2, <3>1, <3>2 DEF FdKept
    <2>3. CASE q # p
      <3>1. Pending(q, j)' = Pending(q, j)
        BY <1>10, <2>3 DEF Pending
      <3> QED BY <1>2, <3>1 DEF FdKept
    <2> QED BY <2>1, <2>2, <2>3
  <1> QED BY <1>10, <1>11, OffsetsStep

LEMMA OffsetsAdvance ==
  ASSUME FileInv, CountInv', NodesKept, VolumeStep, NEW p \in Procs, Advance(p)
  PROVE  Offsets' /\ MovedTyped'
  <1>1. PICK i, ret, v : /\ i = moved[p][1] /\ ret = moved[p][2]
                         /\ v = fdTable[p][i].offset + ret
    OBVIOUS
  <1>2. /\ moved[p] # Still /\ moved' = [moved EXCEPT ![p] = Still]
        /\ fdTable' = [fdTable EXCEPT ![p][i].offset = v]
        /\ UNCHANGED <<fs, openfile>>
    BY <1>1 DEF Advance
  <1>3. CountInv /\ i \in Fds /\ fdTable[p][i].file # NoFile
    BY <1>1, <1>2 DEF FileInv, DescInv, MovedOpen
  <1>4. PICK f, n, d : /\ f = fdTable[p][i].file /\ n = InodeOf(p, i)
                       /\ d = [file |-> f, offset |-> v]
    OBVIOUS
  <1>5. Pending(p, i) = ret
    BY <1>1 DEF Pending
  <1>6. /\ n \in Inodes /\ openfile[f].node = n /\ fdTable[p][i].offset \in Nat
        /\ ret \in Nat /\ fdTable[p][i].offset + ret <= fs.inode[n].size
    BY <1>3, <1>4, <1>5, OpenWithin DEF InodeOf
  <1>7. v \in Nat /\ v + 0 <= fs.inode[n].size
    BY <1>1, <1>6
  <1>8. fdTable' = [fdTable EXCEPT ![p] = [fdTable[p] EXCEPT ![i] = d]]
    <2>1. fdTable' = [fdTable EXCEPT ![p] = [fdTable[p] EXCEPT ![i] =
                        [file |-> fdTable[p][i].file, offset |-> v]]]
      BY <1>2, <1>3, SetOffset, ZenonT(30)
    <2> QED BY <1>4, <2>1, Zenon
  <1>9. FdIs(fdTable, fdTable', p, i, d)
    BY <1>3, <1>8, SetFdIs
  <1>10. /\ fdTable'[p][i] = d
         /\ \A q \in Procs : \A j \in Fds :
              <<q, j>> # <<p, i>> => fdTable'[q][j] = fdTable[q][j]
    BY <1>9 DEF FdIs
  <1>11. /\ moved'[p] = Still /\ \A q \in Procs : q # p => moved'[q] = moved[q]
         /\ MovedTyped'
    <2>1. Still \in (Fds \cup {0}) \X (0 .. MaxSize)
      BY DEF Still
    <2> QED BY <1>2, <2>1 DEF FileInv, MovedTyped
  <1>12. \A j \in Fds : Pending(p, j)' = 0
    BY <1>11 DEF Pending, Still, Fds
  <1>13. ASSUME NEW q \in Procs, NEW j \in Fds
         PROVE  \/ FdKept(q, j)
                \/ FdWithin(fdTable'[q][j], Pending(q, j)', openfile', fs')
    <2>1. CASE q = p /\ j = i
      <3>1. d.file = f /\ d.offset = v
        BY <1>4
      <3>2. FdWithin(d, 0, openfile, fs)
        BY <1>6, <1>7, <3>1 DEF FdWithin
      <3>3. fdTable'[p][i] = d /\ openfile' = openfile /\ fs' = fs /\ Pending(p, i)' = 0
        BY <1>2, <1>3, <1>10, <1>12
      <3>4. FdWithin(fdTable'[p][i], Pending(p, i)', openfile', fs')
        BY <3>2, <3>3
      <3> QED BY <2>1, <3>4
    <2>2. CASE q = p /\ j # i
      <3>1. Pending(p, j)' = 0
        BY <1>12
      <3>2. Pending(p, j) = 0
        BY <1>1, <2>2 DEF Pending
      <3>3. fdTable'[p][j] = fdTable[p][j]
        BY <1>10, <2>2
      <3> QED BY <2>2, <3>1, <3>2, <3>3 DEF FdKept
    <2>3. CASE q # p
      <3>1. Pending(q, j)' = Pending(q, j)
        BY <1>11, <2>3 DEF Pending
      <3>2. fdTable'[q][j] = fdTable[q][j]
        BY <1>10, <2>3
      <3> QED BY <3>1, <3>2 DEF FdKept
    <2> QED BY <2>1, <2>2, <2>3
  <1> QED BY <1>11, <1>13, OffsetsStep

LEMMA OffsetsRelease ==
  ASSUME FileInv, CountInv', NodesKept, VolumeStep,
         NEW p \in Procs, Exit(p) \/ ReleasePCB(p)
  PROVE  Offsets'
  <1>1. PICK R : R = [i \in Fds |-> Closed]
    OBVIOUS
  <1>2. moved' = moved /\ fdTable' = [fdTable EXCEPT ![p] = R]
    BY <1>1 DEF Exit, ReleasePCB
  <1>3. fdTable'[p] = R /\ \A q \in Procs : q # p => fdTable'[q] = fdTable[q]
    BY <1>2 DEF FileInv, DescInv, CountInv, IsFds
  <1>4. ASSUME NEW q \in Procs, NEW j \in Fds
        PROVE  \/ FdKept(q, j)
               \/ FdWithin(fdTable'[q][j], Pending(q, j)', openfile', fs')
    <2>1. CASE q = p
      <3>1. fdTable'[q][j].file = NoFile
        BY <1>1, <1>3, <2>1, FileFacts
      <3> QED BY <3>1 DEF FdWithin
    <2>2. CASE q # p
      BY <1>2, <1>3, <2>2 DEF FdKept, Pending
    <2> QED BY <2>1, <2>2
  <1> QED BY <1>4, OffsetsStep

LEMMA OffsetsFork ==
  ASSUME FileInv, CountInv', NodesKept, VolumeStep,
         NEW p \in Procs, NEW q \in Procs, Fork(p, q)
  PROVE  Offsets'
  <1>1. /\ moved' = moved /\ moved[p] = Still /\ proc[q] = "none"
        /\ fdTable' = [fdTable EXCEPT ![q] = fdTable[p]]
    BY DEF Fork, Ready
  <1>2. moved[q] = Still
    BY <1>1 DEF FileInv, DescInv, MovedOpen
  <1>3. /\ fdTable'[q] = fdTable[p]
        /\ \A r \in Procs : r # q => fdTable'[r] = fdTable[r]
    BY <1>1 DEF FileInv, DescInv, CountInv, IsFds
  <1>4. ASSUME NEW r \in Procs, NEW j \in Fds PROVE FdKept(r, j)
    <2>1. Pending(r, j)' = Pending(r, j)
      BY <1>1 DEF Pending
    <2>2. CASE r = q
      <3>1. Pending(q, j) = 0 /\ Pending(p, j) = 0
        BY <1>1, <1>2, StillPending
      <3> QED BY <1>3, <2>1, <2>2, <3>1 DEF FdKept
    <2>3. CASE r # q
      BY <1>3, <2>1, <2>3 DEF FdKept
    <2> QED BY <2>2, <2>3
  <1> QED BY <1>4, OffsetsStep

-----------------------------------------------------------------------------
(***************************************************************************)
(* The invariant holds at first: the empty volume, nothing open.           *)
(***************************************************************************)
LEMMA EmptyTyped == Typed(EmptyVolume)
  <1>1. FatTyped(EmptyVolume.fat)
    BY DEF FatTyped, EmptyVolume
  <1>2. ASSUME NEW d \in Blocks PROVE RowTyped(EmptyVolume.dirs[d], d)
    <2>1. EmptyVolume.dirs[d] = Blank(Slots(d))
      BY DEF EmptyVolume, Blocks, Slots
    <2>2. PICK N : N = Slots(d)
      OBVIOUS
    <2> QED BY <2>1, <2>2, NoEntryTyped DEF RowTyped, Blank
  <1>3. DirsTyped(EmptyVolume.dirs)
    <2>1. EmptyVolume.dirs = [d \in Blocks |-> EmptyVolume.dirs[d]]
      BY DEF EmptyVolume, Blocks
    <2> QED BY <1>2, <2>1 DEF DirsTyped
  <1>4. ASSUME NEW n \in Inodes PROVE FieldsTyped(EmptyVolume.inode[n])
    <2>1. EmptyVolume.inode[n] = FreeInode
      BY DEF EmptyVolume
    <2> QED BY <2>1 DEF FieldsTyped, FreeInode
  <1> QED BY <1>1, <1>3, <1>4 DEF Typed

LEMMA FileInit == Init => FileInv
  <1> SUFFICES ASSUME Init PROVE FileInv
    OBVIOUS
  <1>1. OpenNamed /\ MovedOpen
    BY DEF Init, OpenNamed, MovedOpen
  <1>2. DescInv /\ InodeInv
    BY <1>1, CountInit, InodeInit DEF DescInv
  <1>3. Typed(fs)
    BY EmptyTyped DEF Init
  <1>4. \A p \in Procs : \A i \in Fds : fdTable[p][i].file = NoFile
    BY FileFacts DEF Init
  <1>5. Offsets
    BY <1>4 DEF Offsets, FdWithin
  <1>6. MovedTyped
    <2>1. Still \in (Fds \cup {0}) \X (0 .. MaxSize)
      BY DEF Still
    <2> QED BY <2>1 DEF Init, MovedTyped
  <1>7. ProcTyped
    BY DEF Init, ProcTyped
  <1> QED BY <1>2, <1>3, <1>5, <1>6, <1>7 DEF FileInv

(***************************************************************************)
(* Every step keeps it.                                                    *)
(***************************************************************************)
LEMMA ProcTypedNext == ProcTyped /\ [Next]_vars => ProcTyped'
  <1> SUFFICES ASSUME ProcTyped, [Next]_vars PROVE ProcTyped'
    OBVIOUS
  <1>1. ASSUME NEW p \in Procs, NEW path,
               \/ Open(p, path) \/ Create(p, path) \/ RemoveFile(p, path)
               \/ Rmdir(p, path) \/ Mkdir(p, path) \/ Visit(p, path)
        PROVE  ProcTyped'
    BY <1>1 DEF ProcTyped, Open, Create, RemoveFile, Rmdir, Mkdir, Visit
  <1>2. ASSUME NEW p \in Procs, NEW i, NEW k,
               Close(p, i) \/ Transfer(p, i, k) \/ Fseek(p, i, k) \/ Advance(p)
        PROVE  ProcTyped'
    BY <1>2 DEF ProcTyped, Close, Transfer, Fseek, Advance
  <1>3. ASSUME NEW p \in Procs, NEW i, NEW k, AppendTo(p, i, k)
        PROVE  ProcTyped'
    <2>1. proc' = proc /\ (panicked' = TRUE \/ panicked' = panicked)
      BY <1>3 DEF AppendTo
    <2> QED BY <2>1 DEF ProcTyped
  <1>4. ASSUME NEW p \in Procs, Exit(p) \/ ExecveFails(p) \/ ReleasePCB(p)
        PROVE  ProcTyped'
    BY <1>4 DEF ProcTyped, Exit, ExecveFails, ReleasePCB
  <1>5. ASSUME NEW p \in Procs, NEW q \in Procs, Fork(p, q) PROVE ProcTyped'
    BY <1>5 DEF ProcTyped, Fork
  <1>6. CASE UNCHANGED vars
    BY <1>6 DEF vars, ProcTyped
  <1>7. DirPaths \subseteq Paths
    OBVIOUS
  <1> QED BY <1>1, <1>2, <1>3, <1>4, <1>5, <1>6, <1>7 DEF Next

LEMMA VolumeNext == FileInv /\ [Next]_vars => VolumeStep
  <1> SUFFICES ASSUME FileInv, [Next]_vars PROVE VolumeStep
    OBVIOUS
  <1>1. InodeInv /\ Typed(fs)
    BY DEF FileInv
  <1>2. ASSUME NEW p \in Procs, NEW path \in Paths,
               \/ Open(p, path) \/ Create(p, path) \/ RemoveFile(p, path)
               \/ Rmdir(p, path) \/ Mkdir(p, path) \/ Visit(p, path)
        PROVE  VolumeStep
    BY <1>1, <1>2, VolumeOpen, VolumeAtParent, VolumeVisit
  <1>3. ASSUME NEW p \in Procs, NEW i \in Fds, Close(p, i) PROVE VolumeStep
    BY <1>1, <1>3, VolumeClose
  <1>4. ASSUME NEW p \in Procs, NEW i \in Fds, NEW k \in Amounts, AppendTo(p, i, k)
        PROVE  VolumeStep
    <2>1. fdTable[p][i] # Closed
      BY <1>4 DEF AppendTo
    <2>2. InodeOf(p, i) \in Inodes
      BY <2>1, NotClosed, OpenWithin
    <2> QED BY <1>1, <1>4, <2>2, VolumeAppendTo
  <1>5. ASSUME NEW p \in Procs, Exit(p) \/ ReleasePCB(p) PROVE VolumeStep
    BY <1>1, <1>5, VolumeRelease
  <1>6. ASSUME NEW p \in Procs, NEW i, NEW k,
               \/ Transfer(p, i, k) \/ Fseek(p, i, k) \/ Advance(p) \/ ExecveFails(p)
        PROVE  VolumeStep
    BY <1>1, <1>6, VolumeSame DEF Transfer, Fseek, Advance, ExecveFails
  <1>7. ASSUME NEW p \in Procs, NEW q \in Procs, Fork(p, q) PROVE VolumeStep
    BY <1>1, <1>7, VolumeSame DEF Fork
  <1>8. CASE UNCHANGED vars
    BY <1>1, <1>8, VolumeSame DEF vars
  <1>9. DirPaths \subseteq Paths
    OBVIOUS
  <1> QED
    BY <1>2, <1>3, <1>4, <1>5, <1>6, <1>7, <1>8, <1>9 DEF Next

LEMMA FileNext == FileInv /\ [Next]_vars => FileInv'
  <1> SUFFICES ASSUME FileInv, [Next]_vars PROVE FileInv'
    OBVIOUS
  <1>1. CountInv' /\ NodesKept
    BY CountNext DEF FileInv, DescInv, CountStep
  <1>2. DescInv' /\ InodeInv' /\ ProcTyped' /\ VolumeStep
    BY <1>1, FdsNext, InodeNext, ProcTypedNext, VolumeNext DEF FileInv, DescInv, FdStep
  <1>3. moved' = moved => MovedTyped'
    BY DEF FileInv, MovedTyped
  <1> SUFFICES Offsets' /\ MovedTyped'
    BY <1>2 DEF FileInv, VolumeStep
  <1>4. ASSUME NEW p \in Procs, NEW path \in Paths, Open(p, path)
        PROVE  Offsets' /\ MovedTyped'
    BY <1>1, <1>2, <1>3, <1>4, OffsetsOpen DEF Open
  <1>5. ASSUME NEW p \in Procs, NEW path \in Paths,
               \/ Create(p, path) \/ RemoveFile(p, path)
               \/ Rmdir(p, path) \/ Mkdir(p, path) \/ Visit(p, path)
        PROVE  Offsets' /\ MovedTyped'
    BY <1>1, <1>2, <1>3, <1>5, OffsetsUntouched
       DEF Create, RemoveFile, Rmdir, Mkdir, Visit
  <1>6. ASSUME NEW p \in Procs, NEW i \in Fds, Close(p, i)
        PROVE  Offsets' /\ MovedTyped'
    BY <1>1, <1>2, <1>3, <1>6, OffsetsClose DEF Close
  <1>7. ASSUME NEW p \in Procs, NEW i \in Fds, NEW k \in Amounts, Transfer(p, i, k)
        PROVE  Offsets' /\ MovedTyped'
    BY <1>1, <1>2, <1>7, OffsetsTransfer
  <1>8. ASSUME NEW p \in Procs, NEW i \in Fds, NEW k \in Amounts, AppendTo(p, i, k)
        PROVE  Offsets' /\ MovedTyped'
    BY <1>1, <1>2, <1>3, <1>8, OffsetsAppendTo DEF AppendTo
  <1>9. ASSUME NEW p \in Procs, NEW i \in Fds, NEW offset \in 0 .. MaxSize,
               Fseek(p, i, offset)
        PROVE  Offsets' /\ MovedTyped'
    <2>1. offset \in Nat
      OBVIOUS
    <2> QED BY <1>1, <1>2, <1>3, <1>9, <2>1, OffsetsFseek DEF Fseek
  <1>10. ASSUME NEW p \in Procs, Advance(p) PROVE Offsets' /\ MovedTyped'
    BY <1>1, <1>2, <1>10, OffsetsAdvance
  <1>11. ASSUME NEW p \in Procs, Exit(p) \/ ReleasePCB(p)
         PROVE  Offsets' /\ MovedTyped'
    BY <1>1, <1>2, <1>3, <1>11, OffsetsRelease DEF Exit, ReleasePCB
  <1>12. ASSUME NEW p \in Procs, ExecveFails(p) PROVE Offsets' /\ MovedTyped'
    BY <1>1, <1>2, <1>3, <1>12, OffsetsUntouched DEF ExecveFails
  <1>13. ASSUME NEW p \in Procs, NEW q \in Procs, Fork(p, q)
         PROVE  Offsets' /\ MovedTyped'
    BY <1>1, <1>2, <1>3, <1>13, OffsetsFork DEF Fork
  <1>14. CASE UNCHANGED vars
    BY <1>1, <1>2, <1>3, <1>14, OffsetsUntouched DEF vars
  <1>15. DirPaths \subseteq Paths
    OBVIOUS
  <1> QED
    BY <1>4, <1>5, <1>6, <1>7, <1>8, <1>9, <1>10, <1>11, <1>12, <1>13, <1>14, <1>15
       DEF Next

(***************************************************************************)
(* The tables and the volume keep their types: a chain followed through    *)
(* the FAT never leaves the clusters, lookup() never takes an inode from   *)
(* what is not an entry, no node has more descriptors than there are, no   *)
(* inode more references than nodes, and no offset is past the largest     *)
(* file.                                                                   *)
(***************************************************************************)
THEOREM FilesTypeCorrect == Spec => []TypeOK
  <1>1. FileInv => TypeOK
    <2> SUFFICES ASSUME FileInv PROVE TypeOK
      OBVIOUS
    <2>1. Typed(fs) /\ CountInv /\ Exact(fs, openfile)
      BY DEF FileInv, InodeInv
    <2>2. fs.fat \in [Clusters -> Clusters \cup {FreeMark, EndOfChain}]
      BY <2>1 DEF Typed, FatTyped
    <2>3. ASSUME NEW d \in DOMAIN fs.dirs PROVE Range(fs.dirs[d]) \subseteq Entries
      <3>1. d \in Blocks
        BY <2>1, <2>3 DEF Typed, DirsTyped
      <3>2. PICK R, N : R = fs.dirs[d] /\ N = 1 .. Slots(d)
        OBVIOUS
      <3>3. R = [j \in N |-> R[j]] /\ \A j \in N : R[j] \in Entries
        BY <2>1, <3>1, <3>2 DEF Typed, DirsTyped, RowTyped
      <3> QED BY <3>2, <3>3 DEF Range
    <2>4. ASSUME NEW n \in Inodes PROVE fs.inode[n].ref \in 0 .. MaxOpenFiles
      <3>1. fs.inode[n].ref = IF Uses(openfile, n) THEN 1 ELSE 0
        BY <2>1, RefsFacts DEF Exact, HasRefs
      <3> QED BY <3>1
    <2>5. ASSUME NEW f \in Files
          PROVE  openfile[f] \in [node : Inodes \cup {NullInode},
                                  ref : 0 .. Cardinality(Procs \X Fds)]
      <3>1. /\ openfile[f] = [node |-> openfile[f].node, ref |-> openfile[f].ref]
            /\ openfile[f].ref = Cardinality(HoldersIn(fdTable, f))
            /\ openfile[f].node \in Inodes \cup {NullInode}
        BY <2>1 DEF CountInv, IsNodes, Counted, Exact, OnePerInode, Pointers
      <3>2. IsFiniteSet(Procs \X Fds)
        BY HoldersFacts
      <3>3. HoldersIn(fdTable, f) \subseteq Procs \X Fds
        BY DEF HoldersIn
      <3>4. /\ Cardinality(HoldersIn(fdTable, f)) \in Nat
            /\ Cardinality(Procs \X Fds) \in Nat
            /\ Cardinality(HoldersIn(fdTable, f)) <= Cardinality(Procs \X Fds)
        BY <3>2, <3>3, FS_Subset, FS_CardinalityType
      <3> QED BY <3>1, <3>4
    <2>6. openfile = [f \in Files |-> openfile[f]]
      BY <2>1 DEF CountInv, IsNodes
    <2>7. ASSUME NEW p \in Procs, NEW i \in Fds
          PROVE  fdTable[p][i] \in [file : Files \cup {NoFile}, offset : 0 .. MaxSize]
      <3>1. PICK d : d = fdTable[p][i]
        OBVIOUS
      <3>2. d = [file |-> d.file, offset |-> d.offset] /\ d.file \in Files \cup {NoFile}
        BY <2>1, <3>1 DEF CountInv, IsFds
      <3>3. CASE d.file = NoFile
        <4>1. d = Closed
          BY <3>1, <3>3 DEF FileInv, DescInv, OpenNamed
        <4> QED BY <3>1, <4>1 DEF Closed
      <3>4. CASE d.file # NoFile
        <4>1. PICK n, m : n = InodeOf(p, i) /\ m = Pending(p, i)
          OBVIOUS
        <4>2. n \in Inodes /\ d.offset \in Nat /\ m \in Nat
              /\ d.offset + m <= fs.inode[n].size
          BY <3>1, <3>4, <4>1, OpenWithin
        <4>3. fs.inode[n].size \in Nat /\ fs.inode[n].size <= MaxSize
          BY <2>1, <4>2, SizeNat
        <4>4. d.offset \in 0 .. MaxSize
          BY <4>2, <4>3
        <4> QED BY <3>1, <3>2, <4>4
      <3> QED BY <3>3, <3>4
    <2>8. fdTable \in [Procs -> [Fds -> [file : Files \cup {NoFile},
                                         offset : 0 .. MaxSize]]]
      <3>1. /\ fdTable = [p \in Procs |-> fdTable[p]]
            /\ \A p \in Procs : fdTable[p] = [i \in Fds |-> fdTable[p][i]]
        BY <2>1 DEF CountInv, IsFds
      <3> QED BY <2>7, <3>1
    <2> QED BY <2>2, <2>3, <2>4, <2>5, <2>6, <2>8
            DEF FileInv, MovedTyped, ProcTyped, TypeOK
  <1> QED BY <1>1, FileInit, FileNext, PTL DEF Spec

(***************************************************************************)
(* No offset is beyond the end of its file, not even the one a read or     *)
(* write in progress is about to store, though other processes run between *)
(* the transfer and the update: they can close, remove, append to and fork *)
(* over the same file, but what has a descriptor is not given back and     *)
(* never gets shorter.                                                     *)
(***************************************************************************)
THEOREM OffsetsInFiles == Spec => []OffsetInFile
  <1>1. FileInv => OffsetInFile
    <2> SUFFICES ASSUME FileInv, NEW p \in Procs, NEW i \in Fds,
                        fdTable[p][i] # Closed
                 PROVE  fdTable[p][i].offset
                          + (IF moved[p][1] = i THEN moved[p][2] ELSE 0)
                          <= fs.inode[InodeOf(p, i)].size
      BY DEF OffsetInFile
    <2>1. fdTable[p][i].offset + Pending(p, i) <= fs.inode[InodeOf(p, i)].size
      BY NotClosed, OpenWithin
    <2> QED BY <2>1 DEF Pending
  <1> QED BY <1>1, FileInit, FileNext, PTL DEF Spec

-----------------------------------------------------------------------------
(***************************************************************************)
(* For OpenIsLinked: the entry that each inode in use was made from is     *)
(* still there when somebody else's call has changed the volume.  F is the *)
(* set of the clusters that hold file data.  A cluster has one predecessor *)
(* in the FAT at most and none if an entry starts with it, so two entries  *)
(* share no cluster; a chain stays among data or among directories; the    *)
(* entries of a free cluster and of one that holds data are empty.         *)
(***************************************************************************)
Places == {l \in Blocks \X Nat : IsPlace(l)}

At(D, l) == D[l[1]][l[2]]

FatLinked(A, F) ==
  /\ F \subseteq Clusters
  /\ \A a, b \in Clusters : A[a] \in Clusters /\ A[a] = A[b] => a = b
  /\ \A a \in Clusters : A[a] \in Clusters =>
       A[A[a]] # FreeMark /\ (a \in F <=> A[a] \in F)
  /\ \A a \in F : A[a] # FreeMark

IsHead(A, c) == A[c] # FreeMark /\ \A a \in Clusters : A[a] # c

EntryLinked(A, F, e) ==
  /\ e.name = NoName => e = NoEntry
  /\ e.dir => e.start \in Clusters
  /\ e.start \in Clusters => IsHead(A, e.start) /\ (e.start \in F <=> ~ e.dir)

OneStart(D) ==
  \A l, m \in Places :
    At(D, l).start \in Clusters /\ At(D, l).start = At(D, m).start => l = m

(* A block that may hold entries. *)
Holds(A, F, b) == b \in Clusters => A[b] # FreeMark /\ b \notin F

DirsLinked(A, D, F) ==
  /\ \A l \in Places : EntryLinked(A, F, At(D, l))
  /\ OneStart(D)
  /\ \A l \in Places : ~ Holds(A, F, l[1]) => At(D, l) = NoEntry

OpenAt(D, nd) ==
  /\ nd.loc \in Places
  /\ At(D, nd.loc).name # NoName
  /\ At(D, nd.loc).start = nd.start
  /\ At(D, nd.loc).size = nd.size
  /\ At(D, nd.loc).dir = nd.dir

PoolLinked(D, P) ==
  /\ \A n \in Inodes : P[n].ref > 0 => OpenAt(D, P[n])
  /\ \A m, n \in Inodes : P[m].ref > 0 /\ P[n].ref > 0 /\ P[m].loc = P[n].loc => m = n

Linked(s, F) ==
  FatLinked(s.fat, F) /\ DirsLinked(s.fat, s.dirs, F) /\ PoolLinked(s.dirs, s.inode)

Links(s) == \E F : Linked(s, F)

(***************************************************************************)
(* The clusters of a chain are in use, all data or all directories, and    *)
(* each but the first follows another.                                     *)
(***************************************************************************)
ChainTo(A, F, c, q) ==
  /\ q \in Seq(Clusters) /\ Len(q) \in Nat /\ Len(q) >= 1
  /\ \A i \in 1 .. Len(q) :
       /\ A[q[i]] # FreeMark /\ (q[i] \in F <=> c \in F)
       /\ q[i] = c \/ \E j \in 1 .. Len(q) : A[q[j]] = q[i]

LEMMA LongerTo ==
  ASSUME NEW s, NEW F, FatLinked(s.fat, F), NEW c \in Clusters, NEW q,
         ChainTo(s.fat, F, c, q)
  PROVE  ChainTo(s.fat, F, c, Longer(s, q))
  <1>1. PICK A, n, t, x : A = s.fat /\ n = Len(q) /\ t = q[n] /\ x = A[t]
    OBVIOUS
  <1>2. q \in Seq(Clusters) /\ n \in Nat /\ n >= 1 /\ Last(q) = t /\ t \in Clusters
    BY <1>1 DEF ChainTo, Last
  <1>3. CASE x \notin Clusters
    BY <1>1, <1>2, <1>3 DEF Longer
  <1>4. CASE x \in Clusters
    <2>1. PICK u : u = Append(q, x)
      OBVIOUS
    <2>2. Longer(s, q) = u
      BY <1>1, <1>2, <1>4, <2>1 DEF Longer
    <2>3. /\ u \in Seq(Clusters) /\ Len(u) = n + 1 /\ u[n + 1] = x
          /\ \A i \in 1 .. n : u[i] = q[i]
      BY <1>1, <1>2, <1>4, <2>1
    <2>4. A[x] # FreeMark /\ (t \in F <=> x \in F)
      BY <1>1, <1>2, <1>4 DEF FatLinked
    <2>5. t \in F <=> c \in F
      BY <1>1, <1>2 DEF ChainTo
    <2>6. ASSUME NEW i \in 1 .. n + 1
          PROVE  /\ A[u[i]] # FreeMark /\ (u[i] \in F <=> c \in F)
                 /\ u[i] = c \/ \E j \in 1 .. n + 1 : A[u[j]] = u[i]
      <3>1. CASE i = n + 1
        <4>1. n \in 1 .. n + 1 /\ u[n] = t
          BY <1>1, <1>2, <2>3
        <4> QED BY <1>1, <2>3, <2>4, <2>5, <3>1, <4>1
      <3>2. CASE i \in 1 .. n
        <4>1. /\ A[q[i]] # FreeMark /\ (q[i] \in F <=> c \in F)
              /\ q[i] = c \/ \E j \in 1 .. n : A[q[j]] = q[i]
          BY <1>1, <3>2 DEF ChainTo
        <4>2. \A j \in 1 .. n : j \in 1 .. n + 1
          BY <1>2
        <4> QED BY <2>3, <3>2, <4>1, <4>2
      <3> QED BY <1>2, <3>1, <3>2
    <2>7. Len(u) \in Nat /\ Len(u) >= 1
      BY <1>2, <2>3
    <2>8. ChainTo(A, F, c, u)
      BY <2>3, <2>6, <2>7 DEF ChainTo
    <2> QED BY <1>1, <2>2, <2>8
  <1> QED BY <1>3, <1>4

LEMMA ChainLinked ==
  ASSUME NEW s, NEW F, FatLinked(s.fat, F), NEW c \in Clusters, s.fat[c] # FreeMark
  PROVE  ChainTo(s.fat, F, c, Chain(s, c))
  <1>1. c # NoCluster
    BY DEF Clusters, NoCluster
  <1>2. PICK r : IsChain(r, s, c, ClusterCount) /\ Chain(s, c) = r[ClusterCount]
    BY <1>1, ChainIsLast
  <1>3. r[0] = <<c>> /\ \A k \in 0 .. ClusterCount - 1 : r[k + 1] = Longer(s, r[k])
    <2>1. r[0] = <<c>>
      BY <1>2 DEF IsChain
    <2>2. ASSUME NEW k \in 0 .. ClusterCount - 1 PROVE r[k + 1] = Longer(s, r[k])
      <3>1. PICK l \in 1 .. ClusterCount : l = k + 1
        OBVIOUS
      <3>2. r[l] = Longer(s, r[l - 1])
        BY <1>2 DEF IsChain
      <3> QED BY <3>1, <3>2
    <2> QED BY <2>1, <2>2
  <1>4. PICK S : S = {k \in 0 .. ClusterCount : ChainTo(s.fat, F, c, r[k])}
    OBVIOUS
  <1>5. 0 \in S
    <2>1. PICK q : q = <<c>>
      OBVIOUS
    <2>2. q \in Seq(Clusters) /\ Len(q) = 1 /\ q[1] = c
      BY <2>1
    <2>3. ChainTo(s.fat, F, c, q)
      BY <2>2 DEF ChainTo
    <2>4. 0 \in 0 .. ClusterCount
      OBVIOUS
    <2> QED BY <1>3, <1>4, <2>1, <2>3, <2>4
  <1>6. ASSUME NEW k \in 0 .. ClusterCount - 1, k \in S PROVE k + 1 \in S
    <2>1. ChainTo(s.fat, F, c, r[k])
      BY <1>4, <1>6
    <2>2. ChainTo(s.fat, F, c, Longer(s, r[k]))
      BY <2>1, LongerTo
    <2>3. PICK l \in 0 .. ClusterCount : l = k + 1
      OBVIOUS
    <2> QED BY <1>3, <1>4, <2>2, <2>3
  <1>7. \A k \in 0 .. ClusterCount : k \in S
    BY <1>5, <1>6, UpInduction
  <1> QED BY <1>2, <1>4, <1>7

(***************************************************************************)
(* The same of its clusters, as a set; and its last cluster is one.        *)
(***************************************************************************)
ChainSet(A, F, c, K) ==
  /\ K \subseteq Clusters
  /\ \A x \in K : /\ A[x] # FreeMark /\ (x \in F <=> c \in F)
                  /\ x = c \/ \E a \in K : A[a] = x

LEMMA ChainRange ==
  ASSUME NEW s, NEW F, FatLinked(s.fat, F), NEW c \in Clusters, s.fat[c] # FreeMark
  PROVE  /\ ChainSet(s.fat, F, c, Range(Chain(s, c)))
         /\ Last(Chain(s, c)) \in Range(Chain(s, c))
  <1>1. PICK A, q, K : A = s.fat /\ q = Chain(s, c) /\ K = {q[i] : i \in 1 .. Len(q)}
    OBVIOUS
  <1>2. ChainTo(A, F, c, q)
    BY <1>1, ChainLinked
  <1>3. q \in Seq(Clusters) /\ Len(q) \in Nat /\ Len(q) >= 1 /\ DOMAIN q = 1 .. Len(q)
    BY <1>2 DEF ChainTo
  <1>4. Range(q) = K
    BY <1>1, <1>3 DEF Range
  <1>5. K \subseteq Clusters
    BY <1>1, <1>3
  <1>6. ASSUME NEW x \in K
        PROVE  /\ A[x] # FreeMark /\ (x \in F <=> c \in F)
               /\ x = c \/ \E a \in K : A[a] = x
    <2>1. PICK i \in 1 .. Len(q) : x = q[i]
      BY <1>1
    <2>2. \A j \in 1 .. Len(q) : q[j] \in K
      BY <1>1
    <2> QED BY <1>2, <2>1, <2>2 DEF ChainTo
  <1>7. Last(q) \in K
    BY <1>1, <1>3 DEF Last
  <1> QED BY <1>1, <1>4, <1>5, <1>6, <1>7 DEF ChainSet

LEMMA PlaceFacts ==
  /\ NoLocation \notin Places
  /\ \A l \in Places : /\ l = <<l[1], l[2]>> /\ l[1] \in Blocks
                       /\ l[2] \in 1 .. Slots(l[1])
  /\ \A l, m \in Places : l[1] = m[1] /\ l[2] = m[2] => l = m
  /\ \A b \in Blocks : \A j \in 1 .. Slots(b) : <<b, j>> \in Places
  <1>1. NoLocation[2] = 0 /\ \A b : 0 \notin 1 .. Slots(b)
    BY DEF NoLocation
  <1>2. \A b \in Blocks : \A j \in 1 .. Slots(b) : <<b, j>> \in Places
    BY DEF Places, IsPlace
  <1> QED BY <1>1, <1>2 DEF Places, IsPlace

LEMMA RootNoCluster == Root \notin Clusters /\ NoCluster \notin Clusters /\ FreeMark \notin Clusters
  BY DEF Root, Clusters, NoCluster, FreeMark

LEMMA LocationsIn ==
  ASSUME NEW s, NEW d \in FirstClusters, NEW loc \in Range(Locations(s, d))
  PROVE  /\ loc \in Places /\ d # NoCluster
         /\ d = Root => loc[1] = Root
         /\ d \in Clusters => loc[1] \in Range(Chain(s, d))
  <1>1. CASE d = Root
    <2>1. Locations(s, d) = [i \in 1 .. RootEntries |-> <<Root, i>>]
      BY <1>1 DEF Locations
    <2>2. PICK i \in 1 .. RootEntries : loc = <<Root, i>>
      BY <2>1 DEF Range
    <2>3. Root \in Blocks /\ i \in 1 .. Slots(Root)
      BY DEF Blocks, Slots
    <2>4. loc \in Places
      BY <2>2, <2>3, PlaceFacts
    <2>5. loc[1] = Root
      BY <2>2
    <2>6. Root # NoCluster
      BY DEF Root, NoCluster
    <2> QED BY <1>1, <2>4, <2>5, <2>6, RootNoCluster
  <1>2. CASE d = NoCluster
    <2>1. Chain(s, d) = <<>> /\ d # Root
      BY <1>2 DEF Chain, NoCluster, Root
    <2>2. Len(Chain(s, d)) = 0
      BY <2>1
    <2>3. \A k : k \notin 1 .. 0 * EntriesPerCluster
      OBVIOUS
    <2>4. PICK k \in 1 .. 0 * EntriesPerCluster : TRUE
      BY <2>1, <2>2 DEF Locations, Range
    <2> QED BY <2>3, <2>4
  <1>3. CASE d \in Clusters
    <2>1. d # Root /\ d # NoCluster
      BY <1>3, RootNoCluster
    <2>2. PICK ch, L, E : ch = Chain(s, d) /\ L = Len(ch) /\ E = EntriesPerCluster
      OBVIOUS
    <2>3. ch \in Seq(Clusters) /\ L \in Nat
      BY <1>3, <2>2, ChainOfClusters
    <2>4. PICK k \in 1 .. L * E :
            loc = <<ch[((k - 1) \div E) + 1], ((k - 1) % E) + 1>>
      BY <2>1, <2>2 DEF Locations, Range
    <2>5. PICK i, j : i = ((k - 1) \div E) + 1 /\ j = ((k - 1) % E) + 1
      OBVIOUS
    <2>6. i \in 1 .. L /\ j \in 1 .. EntriesPerCluster
      BY <2>2, <2>5, <2>3, InCluster
    <2>7. PICK b : b = ch[i]
      OBVIOUS
    <2>8. b \in Clusters /\ b \in Range(ch)
      BY <2>2, <2>3, <2>6, <2>7 DEF Range
    <2>9. b \in Blocks /\ j \in 1 .. Slots(b)
      BY <2>6, <2>8, RootNoCluster DEF Blocks, Slots
    <2>10. loc = <<b, j>>
      BY <2>4, <2>5, <2>7
    <2>11. loc \in Places
      BY <2>9, <2>10, PlaceFacts
    <2> QED BY <2>1, <2>2, <2>8, <2>10, <2>11
  <1> QED BY <1>1, <1>2, <1>3 DEF FirstClusters, Blocks

LEMMA AllLocations ==
  ASSUME NEW s, NEW d \in Clusters, NEW l \in Places, l[1] \in Range(Chain(s, d))
  PROVE  l \in Range(Locations(s, d))
  <1>1. PICK ch, L, E : ch = Chain(s, d) /\ L = Len(ch) /\ E = EntriesPerCluster
    OBVIOUS
  <1>2. ch \in Seq(Clusters) /\ L \in Nat /\ E \in Nat \ {0}
    BY <1>1, ChainOfClusters
  <1>3. PICK i \in 1 .. L : l[1] = ch[i]
    BY <1>1, <1>2 DEF Range
  <1>4. PICK j : j = l[2]
    OBVIOUS
  <1>5. j \in 1 .. E /\ l = <<ch[i], j>>
    <2>1. ch[i] \in Clusters
      BY <1>1, <1>2, <1>3
    <2> QED BY <1>1, <1>3, <1>4, <2>1, PlaceFacts, RootNoCluster DEF Slots
  <1>6. PICK k : k = (i - 1) * E + j
    OBVIOUS
  <1>7. k \in 1 .. L * E /\ (k - 1) \div E = i - 1 /\ (k - 1) % E = j - 1
    <2>1. PICK a, z : a = i - 1 /\ z = j - 1
      OBVIOUS
    <2>2. a \in Nat /\ a <= L - 1 /\ z \in 0 .. E - 1 /\ k - 1 = a * E + z
      BY <1>2, <1>5, <1>6, <2>1
    <2>3. PICK x : x = a * E
      OBVIOUS
    <2>4. x \in Nat /\ x <= (L - 1) * E
      BY <1>2, <2>2, <2>3
    <2>5. (L - 1) * E = L * E - E
      BY <1>2
    <2>6. k \in 1 .. L * E
      <3>1. PICK y : y = L * E
        OBVIOUS
      <3>2. y \in Int /\ x <= y - E
        BY <1>2, <2>4, <2>5, <3>1
      <3>3. k = x + z + 1
        BY <1>5, <1>6, <2>1, <2>2, <2>3
      <3>4. k >= 1 /\ k <= y /\ k \in Int
        BY <1>2, <2>2, <2>4, <3>2, <3>3
      <3> QED BY <3>1, <3>2, <3>4
    <2>7. (k - 1) \div E = a /\ (k - 1) % E = z
      <3>1. PICK q, m : q = (k - 1) \div E /\ m = (k - 1) % E
        OBVIOUS
      <3>2. k - 1 \in Nat
        BY <1>2, <2>6
      <3>3. q \in Int /\ m \in 0 .. E - 1 /\ k - 1 = E * q + m
        <4>1. PICK y \in Nat : y = k - 1
          BY <3>2
        <4>2. PICK D \in Nat \ {0} : D = E
          BY <1>2
        <4>3. q = y \div D /\ m = y % D
          BY <3>1, <4>1, <4>2
        <4>4. q \in Int /\ m \in 0 .. D - 1
          BY <4>1, <4>2, <4>3
        <4>5. y = D * q + m
          <5>1. y = (y \div D) * D + (y % D)
            BY <4>1, <4>2
          <5> QED BY <4>2, <4>3, <4>4, <5>1
        <4> QED BY <4>1, <4>2, <4>4, <4>5
      <3>4. E * q - E * a = z - m
        BY <1>2, <2>2, <3>3
      <3>5. q = a
        <4>1. ~ (q >= a + 1)
          BY <1>2, <2>2, <3>3, <3>4
        <4>2. ~ (a >= q + 1)
          BY <1>2, <2>2, <3>3, <3>4
        <4> QED BY <2>2, <3>3, <4>1, <4>2
      <3>6. m = z
        BY <1>2, <2>2, <3>3, <3>4, <3>5
      <3> QED BY <3>1, <3>5, <3>6
    <2> QED BY <2>1, <2>6, <2>7
  <1>8. d # Root
    BY RootNoCluster
  <1>9. PICK G : G = [m \in 1 .. L * E |->
                        <<ch[((m - 1) \div E) + 1], ((m - 1) % E) + 1>>]
    OBVIOUS
  <1>10. Locations(s, d) = G
    BY <1>1, <1>8, <1>9 DEF Locations
  <1>11. G[k] = <<ch[i], j>>
    <2>1. G[k] = <<ch[((k - 1) \div E) + 1], ((k - 1) % E) + 1>>
      BY <1>7, <1>9
    <2>2. ((k - 1) \div E) + 1 = i /\ ((k - 1) % E) + 1 = j
      BY <1>5, <1>7, <1>2
    <2> QED BY <2>1, <2>2
  <1>12. k \in DOMAIN G
    BY <1>7, <1>9
  <1> QED BY <1>5, <1>10, <1>11, <1>12 DEF Range

(***************************************************************************)
(* One entry is written; none is.                                          *)
(***************************************************************************)
CellIs(D, E, l, e) ==
  At(E, l) = e /\ \A m \in Places : m # l => At(E, m) = At(D, m)

SameEntries(D, E) == \A l \in Places : At(E, l) = At(D, l)

LEMMA CellSet ==
  ASSUME NEW D, DirsTyped(D), NEW l \in Places, NEW e
  PROVE  CellIs(D, [D EXCEPT ![l[1]][l[2]] = e], l, e)
  <1>1. PICK a, b : a = l[1] /\ b = l[2]
    OBVIOUS
  <1>2. PICK R, E : R = [D[a] EXCEPT ![b] = e] /\ E = [D EXCEPT ![a] = R]
    OBVIOUS
  <1>3. [D EXCEPT ![l[1]][l[2]] = e] = E
    BY <1>1, <1>2
  <1>4. a \in Blocks /\ b \in 1 .. Slots(a)
    BY <1>1, PlaceFacts
  <1>5. /\ D = [d \in Blocks |-> D[d]]
        /\ \A d \in Blocks : D[d] = [j \in 1 .. Slots(d) |-> D[d][j]]
    BY DEF DirsTyped, RowTyped
  <1>6. /\ E[a] = R /\ \A d \in Blocks : d # a => E[d] = D[d]
        /\ R[b] = e /\ \A j \in 1 .. Slots(a) : j # b => R[j] = D[a][j]
    <2>1. E[a] = R /\ \A d \in Blocks : d # a => E[d] = D[d]
      BY <1>2, <1>4, <1>5
    <2>2. D[a] = [j \in 1 .. Slots(a) |-> D[a][j]]
      BY <1>4, <1>5
    <2>3. R[b] = e /\ \A j \in 1 .. Slots(a) : j # b => R[j] = D[a][j]
      BY <1>2, <1>4, <2>2
    <2> QED BY <2>1, <2>3
  <1>7. At(E, l) = e
    BY <1>1, <1>6 DEF At
  <1>8. ASSUME NEW m \in Places, m # l PROVE At(E, m) = At(D, m)
    <2>1. m[1] \in Blocks /\ m[2] \in 1 .. Slots(m[1])
      BY PlaceFacts
    <2>2. CASE m[1] # a
      BY <1>6, <2>1, <2>2 DEF At
    <2>3. CASE m[1] = a
      <3>1. m[2] # b
        BY <1>1, <1>8, <2>3, PlaceFacts
      <3> QED BY <1>6, <2>1, <2>3, <3>1 DEF At
    <2> QED BY <2>2, <2>3
  <1> QED BY <1>3, <1>7, <1>8 DEF CellIs

(***************************************************************************)
(* Clusters without entries are cleared.                                   *)
(***************************************************************************)
Empties(D, S) == \A l \in Places : l[1] \in S => At(D, l) = NoEntry

Cleared(D, E, S) ==
  \A d \in Blocks : E[d] = IF d \in S THEN Blank(EntriesPerCluster) ELSE D[d]

LEMMA ClearedSame ==
  ASSUME NEW D, NEW E, NEW S, S \subseteq Clusters, Empties(D, S), Cleared(D, E, S)
  PROVE  SameEntries(D, E)
  <1> SUFFICES ASSUME NEW l \in Places PROVE At(E, l) = At(D, l)
    BY DEF SameEntries
  <1>1. l[1] \in Blocks /\ l[2] \in 1 .. Slots(l[1])
    BY PlaceFacts
  <1>2. CASE l[1] \in S
    <2>1. E[l[1]] = Blank(EntriesPerCluster) /\ l[2] \in 1 .. EntriesPerCluster
      BY <1>1, <1>2, RootNoCluster DEF Cleared, Slots
    <2>2. At(E, l) = NoEntry
      BY <2>1 DEF At, Blank
    <2> QED BY <1>2, <2>2 DEF Empties
  <1>3. CASE l[1] \notin S
    BY <1>1, <1>3 DEF Cleared, At
  <1> QED BY <1>2, <1>3

(***************************************************************************)
(* The pool after that.                                                    *)
(***************************************************************************)
LEMMA PoolSame ==
  ASSUME NEW D, NEW E, NEW P, PoolLinked(D, P), SameEntries(D, E)
  PROVE  PoolLinked(E, P)
  <1>1. ASSUME NEW n \in Inodes, P[n].ref > 0 PROVE OpenAt(E, P[n])
    <2>1. OpenAt(D, P[n])
      BY <1>1 DEF PoolLinked
    <2> QED BY <2>1 DEF OpenAt, SameEntries
  <1> QED BY <1>1 DEF PoolLinked

Unused(P, l) == \A n \in Inodes : P[n].ref > 0 => P[n].loc # l

LEMMA PoolCell ==
  ASSUME NEW D, NEW E, NEW P, PoolLinked(D, P),
         NEW l, NEW e, CellIs(D, E, l, e), Unused(P, l)
  PROVE  PoolLinked(E, P)
  <1>1. ASSUME NEW n \in Inodes, P[n].ref > 0 PROVE OpenAt(E, P[n])
    <2>1. OpenAt(D, P[n]) /\ P[n].loc # l
      BY <1>1 DEF PoolLinked, Unused
    <2> QED BY <2>1 DEF OpenAt, CellIs
  <1> QED BY <1>1 DEF PoolLinked

(***************************************************************************)
(* One inode is set.                                                       *)
(***************************************************************************)
Fits(D, P, n, e) ==
  e.ref > 0 => /\ OpenAt(D, e)
               /\ \A m \in Inodes : m # n /\ P[m].ref > 0 => P[m].loc # e.loc

LEMMA PoolSet ==
  ASSUME NEW D, NEW P, PoolLinked(D, P), NEW n \in Inodes, NEW e, Fits(D, P, n, e),
         NEW Q, Q[n] = e, \A m \in Inodes : m # n => Q[m] = P[m]
  PROVE  PoolLinked(D, Q)
  <1>1. ASSUME NEW m \in Inodes, Q[m].ref > 0 PROVE OpenAt(D, Q[m])
    BY <1>1 DEF PoolLinked, Fits
  <1>2. ASSUME NEW k \in Inodes, NEW m \in Inodes, Q[k].ref > 0, Q[m].ref > 0,
               Q[k].loc = Q[m].loc
        PROVE  k = m
    <2>1. CASE k # n /\ m # n
      BY <1>2, <2>1 DEF PoolLinked
    <2>2. CASE k = n /\ m # n
      BY <1>2, <2>2 DEF Fits
    <2>3. CASE k # n /\ m = n
      BY <1>2, <2>3 DEF Fits
    <2> QED BY <2>1, <2>2, <2>3
  <1> QED BY <1>1, <1>2 DEF PoolLinked

SameDisk(s, u) == u.fat = s.fat /\ u.dirs = s.dirs

Kept(s, F, u) == Linked(u, F) /\ SameDisk(s, u)

LEMMA SetInodeLinked ==
  ASSUME NEW s, IsVolume(s), IsPool(s.inode), NEW F, Linked(s, F),
         NEW n \in Inodes, NEW e, IsInode(e), Fits(s.dirs, s.inode, n, e)
  PROVE  Kept(s, F, SetInode(s, n, e))
  <1>1. PICK u : u = SetInode(s, n, e)
    OBVIOUS
  <1>2. InodeIs(s, u, n, e)
    BY <1>1, InodeSet DEF SetInode
  <1>3. SameDisk(s, u)
    BY <1>1 DEF SetInode, IsVolume, SameDisk
  <1>4. PoolLinked(s.dirs, s.inode)
    BY DEF Linked
  <1>5. PoolLinked(s.dirs, u.inode)
    BY <1>2, <1>4, PoolSet DEF InodeIs
  <1>6. Linked(u, F)
    BY <1>3, <1>5 DEF Linked, SameDisk
  <1> QED BY <1>1, <1>3, <1>6 DEF Kept

LEMMA ReleaseLinked ==
  ASSUME NEW s, IsVolume(s), IsPool(s.inode), NEW F, Linked(s, F), NEW n \in Pointers
  PROVE  Kept(s, F, ReleaseInode(s, n))
  <1>1. CASE n = NullInode
    BY <1>1 DEF ReleaseInode, Kept, SameDisk
  <1>2. CASE n # NullInode
    <2>1. n \in Inodes
      BY <1>2 DEF Pointers
    <2>2. PICK c, e : c = s.inode[n] /\ e = Released(c)
      OBVIOUS
    <2>3. IsInode(c)
      BY <2>1, <2>2 DEF IsPool
    <2>4. CASE c.ref > 1
      <3>1. /\ e = [start |-> c.start, size |-> c.size, dir |-> c.dir,
                    loc |-> c.loc, ref |-> c.ref - 1]
            /\ c.ref \in Nat
        BY <2>2, <2>3, <2>4 DEF Released, IsInode
      <3>2. /\ e.start = c.start /\ e.size = c.size /\ e.dir = c.dir /\ e.loc = c.loc
            /\ e.ref \in Nat /\ IsInode(e) /\ c.ref > 0
        BY <2>4, <3>1 DEF IsInode
      <3>3. OpenAt(s.dirs, c)
        BY <2>1, <2>2, <3>2 DEF Linked, PoolLinked
      <3>4. OpenAt(s.dirs, e)
        BY <3>2, <3>3 DEF OpenAt
      <3>5. \A m \in Inodes : m # n /\ s.inode[m].ref > 0 => s.inode[m].loc # e.loc
        BY <2>1, <2>2, <3>2 DEF Linked, PoolLinked
      <3>6. Fits(s.dirs, s.inode, n, e)
        BY <3>4, <3>5 DEF Fits
      <3> QED BY <2>1, <2>2, <3>2, <3>6, ReleaseIs, SetInodeLinked
    <2>5. CASE ~ (c.ref > 1)
      <3>1. e = FreeInode
        BY <2>2, <2>5 DEF Released
      <3>2. IsInode(e) /\ Fits(s.dirs, s.inode, n, e)
        BY <3>1, PointerFacts DEF Fits
      <3> QED BY <2>1, <2>2, <3>2, ReleaseIs, SetInodeLinked
    <2> QED BY <2>4, <2>5
  <1> QED BY <1>1, <1>2

(***************************************************************************)
(* lookup(): an inode in use that get_inode() takes for the entry was made *)
(* from it, and the one it loads is made from an entry without one.        *)
(***************************************************************************)
Target(s, d, name) == CHOOSE x \in Named(s, d, name) : TRUE

LEMMA TargetIn ==
  ASSUME NEW s, NEW d \in FirstClusters, NEW name \in Names, Named(s, d, name) # {}
  PROVE  /\ Target(s, d, name) \in Places
         /\ EntryAt(s, Target(s, d, name)).name # NoName
         /\ EntryAt(s, Target(s, d, name)) = At(s.dirs, Target(s, d, name))
  <1>1. PICK found, x : found = Named(s, d, name) /\ x = Target(s, d, name)
    OBVIOUS
  <1>2. x \in found
    BY <1>1 DEF Target
  <1>3. x \in Range(Locations(s, d)) /\ EntryAt(s, x).name = name
    BY <1>1, <1>2 DEF Named
  <1> QED BY <1>1, <1>3, LocationsIn DEF EntryAt, At

LEMMA SharedFits ==
  ASSUME NEW s, IsPool(s.inode), NEW F, Linked(s, F), NEW loc \in Places, NEW e,
         e = At(s.dirs, loc), e.start \in Clusters \cup {NoCluster},
         NEW n \in InodesFor(s, e, loc)
  PROVE  /\ n \in Inodes /\ s.inode[n].loc = loc /\ s.inode[n].dir = e.dir
         /\ Fits(s.dirs, s.inode, n, Shared(s.inode[n], loc))
         /\ IsInode(Shared(s.inode[n], loc))
  <1>1. PICK D, P, c, x : D = s.dirs /\ P = s.inode /\ c = P[n] /\ x = Shared(c, loc)
    OBVIOUS
  <1>2. /\ n \in Inodes /\ c.ref > 0 /\ c.start = e.start
        /\ e.start = NoCluster => c.loc = loc
    BY <1>1 DEF InodesFor
  <1>3. OpenAt(D, c) /\ OneStart(D)
    BY <1>1, <1>2 DEF Linked, PoolLinked, DirsLinked
  <1>4. c.loc = loc
    <2>1. CASE e.start \in Clusters
      <3>1. c.loc \in Places /\ At(D, c.loc).start = e.start
        BY <1>2, <1>3 DEF OpenAt
      <3> QED BY <1>1, <1>3, <2>1, <3>1 DEF OneStart
    <2> QED BY <1>2, <2>1
  <1>5. /\ c.ref \in Nat /\ x.start = c.start /\ x.size = c.size /\ x.dir = c.dir
        /\ x.loc = c.loc /\ IsInode(x)
    <2>1. c.ref \in Nat
      BY <1>1, <1>2 DEF IsPool, IsInode
    <2>2. x = [start |-> c.start, size |-> c.size, dir |-> c.dir,
               loc |-> loc, ref |-> c.ref + 1]
      BY <1>1 DEF Shared
    <2> QED BY <1>4, <2>1, <2>2 DEF IsInode
  <1>6. OpenAt(D, x)
    BY <1>3, <1>5 DEF OpenAt
  <1>7. \A m \in Inodes : m # n /\ P[m].ref > 0 => P[m].loc # x.loc
    BY <1>1, <1>2, <1>5 DEF Linked, PoolLinked
  <1>8. c.dir = e.dir
    BY <1>1, <1>3, <1>4 DEF OpenAt
  <1> QED BY <1>1, <1>2, <1>4, <1>5, <1>6, <1>7, <1>8 DEF Fits

LEMMA LoadedFits ==
  ASSUME NEW s, NEW F, Linked(s, F), NEW loc \in Places, NEW e,
         e = At(s.dirs, loc), e.name # NoName, InodesFor(s, e, loc) = {},
         NEW n \in Inodes
  PROVE  Fits(s.dirs, s.inode, n, Loaded(e, loc)) /\ IsInode(Loaded(e, loc))
  <1>1. PICK D, P, x : D = s.dirs /\ P = s.inode /\ x = Loaded(e, loc)
    OBVIOUS
  <1>2. /\ x.start = e.start /\ x.size = e.size /\ x.dir = e.dir /\ x.loc = loc
        /\ x.ref = 1 /\ IsInode(x)
    BY <1>1 DEF Loaded, IsInode
  <1>3. OpenAt(D, x)
    BY <1>1, <1>2 DEF OpenAt
  <1>4. ASSUME NEW m \in Inodes, P[m].ref > 0, P[m].loc = loc PROVE FALSE
    <2>1. OpenAt(D, P[m])
      BY <1>1, <1>4 DEF Linked, PoolLinked
    <2>2. P[m].start = e.start
      BY <1>1, <1>4, <2>1 DEF OpenAt
    <2>3. m \in InodesFor(s, e, loc)
      BY <1>1, <1>4, <2>2 DEF InodesFor
    <2> QED BY <2>3
  <1> QED BY <1>1, <1>2, <1>3, <1>4 DEF Fits

LookedUp(s, F, e, l) ==
  /\ Kept(s, F, l.fs)
  /\ l.node # NullInode => l.fs.inode[l.node].dir = e.dir

LEMMA SetLookedUp ==
  ASSUME NEW s, IsVolume(s), IsPool(s.inode), NEW F, Linked(s, F),
         NEW n \in Inodes, NEW x, IsInode(x), Fits(s.dirs, s.inode, n, x),
         NEW e, x.dir = e.dir, NEW l, l = [fs |-> SetInode(s, n, x), node |-> n]
  PROVE  LookedUp(s, F, e, l)
  <1>1. Kept(s, F, l.fs)
    BY SetInodeLinked
  <1>2. InodeIs(s, l.fs, n, x) /\ l.node = n
    BY InodeSet DEF SetInode
  <1> QED BY <1>1, <1>2 DEF LookedUp, InodeIs

LEMMA LookupLinked ==
  ASSUME NEW s, IsVolume(s), IsPool(s.inode), NEW F, Linked(s, F), Typed(s),
         NEW d \in FirstClusters, NEW name \in Names
  PROVE  LookedUp(s, F, EntryAt(s, Target(s, d, name)), Lookup(s, d, name))
  <1>1. PICK found, loc, e : /\ found = Named(s, d, name) /\ loc = Target(s, d, name)
                             /\ e = EntryAt(s, loc)
    OBVIOUS
  <1>2. LookedUp(s, F, e, NotFound(s))
    BY DEF NotFound, LookedUp, Kept, SameDisk
  <1>3. CASE found = {}
    BY <1>1, <1>2, <1>3 DEF Lookup, LookupAmong
  <1>4. CASE found # {}
    <2>1. loc \in Places /\ e.name # NoName /\ e = At(s.dirs, loc)
      BY <1>1, <1>4, TargetIn
    <2>2. e.start \in Clusters \cup {NoCluster}
      <3>1. e \in Entries
        BY <1>1, <2>1, EntryTyped DEF Places, Typed
      <3> QED BY <3>1 DEF Entries
    <2>3. PICK shared, free : shared = InodesFor(s, e, loc) /\ free = FreeInodes(s)
      OBVIOUS
    <2>4. Lookup(s, d, name) = LookupEntry(s, e, loc, shared)
      BY <1>1, <1>4, <2>3 DEF Lookup, LookupAmong, LookupAt, Target
    <2>5. /\ shared \in SUBSET (0 .. MaxInodes) /\ free \in SUBSET (0 .. MaxInodes)
          /\ free \subseteq Inodes /\ MaxInodes \in Nat
      BY <2>3 DEF InodesFor, FreeInodes, Inodes
    <2>6. CASE shared # {}
      <3>1. PICK n, x : n = Min(shared) /\ x = Shared(s.inode[n], loc)
        OBVIOUS
      <3>2. n \in InodesFor(s, e, loc)
        BY <2>3, <2>5, <2>6, <3>1, MinIn
      <3>3. /\ n \in Inodes /\ s.inode[n].dir = e.dir
            /\ Fits(s.dirs, s.inode, n, x) /\ IsInode(x)
        BY <2>1, <2>2, <3>1, <3>2, SharedFits
      <3>4. x.dir = e.dir
        BY <3>1, <3>3 DEF Shared
      <3>5. LookupEntry(s, e, loc, shared) = [fs |-> SetInode(s, n, x), node |-> n]
        BY <2>6, <3>1, <3>3, ShareIs DEF LookupEntry
      <3> QED BY <1>1, <2>4, <3>3, <3>4, <3>5, SetLookedUp
    <2>7. CASE shared = {} /\ free = {}
      BY <1>1, <1>2, <2>3, <2>4, <2>7 DEF LookupEntry
    <2>8. CASE shared = {} /\ free # {}
      <3>1. PICK n, x : n = Min(free) /\ x = Loaded(e, loc)
        OBVIOUS
      <3>2. n \in Inodes
        BY <2>5, <2>8, <3>1, MinIn
      <3>3. Fits(s.dirs, s.inode, n, x) /\ IsInode(x)
        BY <2>1, <2>3, <2>8, <3>1, <3>2, LoadedFits
      <3>4. x.dir = e.dir
        BY <3>1 DEF Loaded
      <3>5. LookupEntry(s, e, loc, shared) = [fs |-> SetInode(s, n, x), node |-> n]
        BY <2>3, <2>8, <3>1 DEF LookupEntry, LoadInode, Loaded, SetInode
      <3> QED BY <1>1, <2>4, <3>2, <3>3, <3>4, <3>5, SetLookedUp
    <2> QED BY <2>6, <2>7, <2>8
  <1> QED BY <1>1, <1>3, <1>4

LEMMA KeptTwice ==
  ASSUME NEW s, NEW F, NEW u, Kept(s, F, u), NEW v, Kept(u, F, v)
  PROVE  Kept(s, F, v)
  BY DEF Kept, SameDisk

LEMMA SizedNone ==
  ASSUME NEW s, Typed(s)
  PROVE  \A z : Sized(s, {}, z)
  BY DEF Sized

LEMMA HeldNone == \A r : Held({}, r)
  BY DEF Held

LEMMA ReleaseTyped ==
  ASSUME NEW s, IsVolume(s), IsPool(s.inode), Typed(s), NEW n \in Pointers
  PROVE  Typed(ReleaseInode(s, n))
  <1>1. \A z : Sized(s, {}, z)
    BY SizedNone
  <1>2. \A z : Sized(ReleaseInode(s, n), {}, z)
    BY <1>1, ReleaseSized
  <1> QED BY <1>2 DEF Sized

LEMMA LookupTyped ==
  ASSUME NEW s, NEW r, HasRefs(s, r), Typed(s), NEW d \in FirstClusters, NEW name
  PROVE  Typed(Lookup(s, d, name).fs)
  <1>1. \A z : Sized(s, {}, z)
    BY SizedNone
  <1>2. \A z : Sized(Lookup(s, d, name).fs, {}, z)
    BY <1>1, LookupSized
  <1> QED BY <1>2 DEF Sized

LEMMA WalkStepTyped ==
  ASSUME NEW r \in Counts, NEW w, IsWalk(w, r), Typed(w.fs), NEW name
  PROVE  Typed(WalkStep(w, name).fs)
  <1>1. \A z : Sized(w.fs, {}, z)
    BY SizedNone
  <1>2. \A z : Sized(WalkStep(w, name).fs, {}, z)
    BY <1>1, HeldNone, WalkStepSized
  <1> QED BY <1>2 DEF Sized

LEMMA WalkStepLinked ==
  ASSUME NEW r \in Counts, NEW w, IsWalk(w, r), Typed(w.fs),
         NEW F, Linked(w.fs, F), NEW name \in Names
  PROVE  Kept(w.fs, F, WalkStep(w, name).fs)
  <1>1. CASE w.lost
    BY <1>1 DEF WalkStep, Kept, SameDisk
  <1>2. CASE ~ w.lost
    <2>1. PICK n, s, d, l : /\ n = w.node /\ s = w.fs /\ d = DirCluster(s, n)
                            /\ l = Lookup(s, d, name)
      OBVIOUS
    <2>2. WalkStep(w, name).fs = ReleaseInode(l.fs, n)
      BY <1>2, <2>1 DEF WalkStep, StepInto
    <2>3. PICK q : q = More(r, n)
      OBVIOUS
    <2>4. n \in Pointers /\ HasRefs(s, q) /\ IsVolume(s) /\ IsPool(s.inode)
      BY <2>1, <2>3 DEF IsWalk, Takes, HasRefs
    <2>5. d \in FirstClusters
      BY <2>1, <2>4, DirClusterFirst
    <2>6. Kept(s, F, l.fs)
      BY <2>1, <2>4, <2>5, LookupLinked DEF LookedUp
    <2>7. IsVolume(l.fs) /\ IsPool(l.fs.inode)
      BY <2>1, <2>4, LookupTakes DEF Takes, HasRefs
    <2>8. Kept(l.fs, F, ReleaseInode(l.fs, n))
      BY <2>4, <2>6, <2>7, ReleaseLinked DEF Kept
    <2> QED BY <2>1, <2>2, <2>6, <2>8, KeptTwice
  <1> QED BY <1>1, <1>2

LEMMA WalkLinked ==
  ASSUME NEW s, NEW r, HasRefs(s, r), Typed(s), NEW F, Linked(s, F),
         NEW path \in Seq(Names)
  PROVE  Kept(s, F, Walk(s, path).fs) /\ Typed(Walk(s, path).fs)
  <1>1. PICK N \in Nat : N = Len(path)
    BY LenProperties
  <1>2. r \in Counts
    BY DEF HasRefs
  <1>3. PICK x : IsReach(x, s, path, N) /\ Walk(s, path) = x[N]
    BY <1>1, WalkIsReach
  <1>4. IsWalk(Start(s), r) /\ Start(s).fs = s
    BY <1>2, MoreFacts DEF Start, IsWalk, Takes, Pointers
  <1>5. x[0] = Start(s) /\ \A k \in 1 .. N : x[k] = WalkStep(x[k - 1], path[k])
    BY <1>3 DEF IsReach
  <1>6. PICK S : S = {k \in 0 .. N : /\ IsWalk(x[k], r)
                                     /\ Kept(s, F, x[k].fs) /\ Typed(x[k].fs)}
    OBVIOUS
  <1>7. 0 \in S
    <2>1. Kept(s, F, s)
      BY DEF Kept, SameDisk
    <2> QED BY <1>4, <1>5, <1>6, <2>1
  <1>8. ASSUME NEW k \in 0 .. N - 1, k \in S PROVE k + 1 \in S
    <2>1. PICK l \in 1 .. N : l = k + 1
      OBVIOUS
    <2>2. x[l] = WalkStep(x[k], path[l]) /\ path[l] \in Names
      BY <1>1, <1>5, <2>1, ElementOfSeq
    <2>3. IsWalk(x[k], r) /\ Kept(s, F, x[k].fs) /\ Typed(x[k].fs) /\ Linked(x[k].fs, F)
      BY <1>6, <1>8 DEF Kept
    <2>4. IsWalk(x[l], r) /\ Typed(x[l].fs) /\ Kept(x[k].fs, F, x[l].fs)
      BY <1>2, <2>2, <2>3, WalkStepTakes, WalkStepTyped, WalkStepLinked
    <2>5. Kept(s, F, x[l].fs)
      BY <2>3, <2>4, KeptTwice
    <2> QED BY <1>6, <2>1, <2>4, <2>5
  <1>9. \A k \in 0 .. N : k \in S
    BY <1>7, <1>8, UpInduction
  <1> QED BY <1>3, <1>6, <1>9

(***************************************************************************)
(* To a lookup two volumes with the same entries and the same inodes in    *)
(* use are the same, whoever holds how many references.                    *)
(***************************************************************************)
SameLive(s, u) ==
  /\ SameDisk(s, u)
  /\ \A n \in Inodes : /\ u.inode[n].ref > 0 <=> s.inode[n].ref > 0
                       /\ u.inode[n].ref > 0 => /\ u.inode[n].start = s.inode[n].start
                                                /\ u.inode[n].loc = s.inode[n].loc

LEMMA LookupPathLinked ==
  ASSUME NEW t, ExactTables(t), Typed(t.fs), NEW F, Linked(t.fs, F),
         NEW path \in Seq(Names), path # <<>>
  PROVE  LET l == LookupPath(t, path)
             w == Walk(t.fs, path)
         IN  /\ Kept(t.fs, F, l.t.fs)
             /\ l.file # NoFile => /\ ~ w.lost /\ l.t.openfile[l.file].node = w.node
                                   /\ SameLive(w.fs, l.t.fs)
                                   /\ w.node \in Inodes
  <1>1. PICK o, r, w, l : /\ o = t.openfile /\ r = Refs(o) /\ w = Walk(t.fs, path)
                          /\ l = LookupPath(t, path)
    OBVIOUS
  <1>0. Len(path) \in Nat \ {0}
    BY EmptySeq, LenProperties
  <1>2. /\ IsTables(t) /\ o = [f \in Files |-> o[f]]
        /\ OnePerInode(o) /\ HasRefs(t.fs, r) /\ r \in Counts
    BY <1>1, RefsFacts DEF ExactTables, Exact
  <1>3. /\ IsWalk(w, r) /\ (~ w.lost => w.node \in Inodes)
        /\ w.node \in Pointers /\ HasRefs(w.fs, More(r, w.node))
    BY <1>0, <1>1, <1>2, WalkTakes DEF IsWalk, Takes
  <1>4. Kept(t.fs, F, w.fs) /\ Linked(w.fs, F)
    BY <1>1, <1>2, WalkLinked DEF Kept
  <1>5. l = LookupEnd(t, w)
    BY <1>1 DEF LookupPath
  <1>6. \A s : [t EXCEPT !.fs = s] = [fs |-> s, openfile |-> o]
    BY <1>1, <1>2 DEF IsTables
  <1>7. CASE w.lost
    <2>1. l = [t |-> [fs |-> w.fs, openfile |-> o], file |-> NoFile]
      BY <1>5, <1>6, <1>7 DEF LookupEnd
    <2> QED BY <1>1, <1>4, <2>1
  <1>8. CASE ~ w.lost
    <2>1. PICK s, n, same, free : /\ s = w.fs /\ n = w.node
                                  /\ same = FilesOf(t, n) /\ free = FreeFiles(t)
      OBVIOUS
    <2>2. l = FileFor(t, s, n, same)
      BY <1>5, <1>8, <2>1 DEF LookupEnd
    <2>3. /\ n \in Inodes /\ n \in Pointers /\ HasRefs(s, More(r, n)) /\ Linked(s, F)
          /\ IsVolume(s) /\ IsPool(s.inode)
      BY <1>3, <1>4, <1>8, <2>1 DEF HasRefs
    <2>4. /\ free \in SUBSET (0 .. MaxOpenFiles)
          /\ same \in SUBSET (0 .. MaxOpenFiles)
          /\ MaxOpenFiles \in Nat
          /\ \A f \in free : f \in Files /\ o[f] = NoNode
          /\ \A f \in same : f \in Files /\ o[f].node = n
      <3>1. free \subseteq Files /\ \A f \in free : o[f] = NoNode
        BY <1>1, <2>1 DEF FreeFiles
      <3>2. same \subseteq Files /\ \A f \in same : o[f].node = n
        BY <1>1, <2>1 DEF FilesOf
      <3>3. Files \subseteq 0 .. MaxOpenFiles /\ MaxOpenFiles \in Nat
        BY DEF Files
      <3> QED BY <3>1, <3>2, <3>3
    <2>5. CASE same = {} /\ free # {}
      <3>1. PICK f, x : f = Min(free) /\ x = [o EXCEPT ![f] = [node |-> n, ref |-> 0]]
        OBVIOUS
      <3>2. f \in Files
        BY <2>4, <2>5, <3>1, MinIn
      <3>3. x[f].node = n
        BY <1>2, <3>1, <3>2
      <3>4. l = [t |-> [fs |-> s, openfile |-> x], file |-> f]
        BY <1>1, <2>1, <2>2, <2>5, <3>1 DEF FileFor
      <3>5. SameLive(s, s)
        BY DEF SameLive, SameDisk
      <3> QED BY <1>1, <1>4, <1>8, <2>1, <2>3, <3>3, <3>4, <3>5
    <2>6. CASE ~ (same = {} /\ free # {})
      <3>1. PICK u, f : /\ u = ReleaseInode(s, n)
                        /\ f = (IF same = {} THEN NoFile ELSE Min(same))
        OBVIOUS
      <3>2. l = [t |-> [fs |-> u, openfile |-> o], file |-> f]
        BY <1>6, <2>1, <2>2, <2>6, <3>1 DEF FileFor
      <3>3. Kept(s, F, u)
        BY <2>3, <3>1, ReleaseLinked
      <3>4. Kept(t.fs, F, u)
        BY <1>4, <2>1, <3>3, KeptTwice
      <3>5. CASE same = {}
        BY <1>1, <3>1, <3>2, <3>4, <3>5
      <3>6. CASE same # {}
        <4>1. f \in same /\ f \in Files /\ o[f].node = n
          BY <2>4, <3>1, <3>6, MinIn
        <4>2. r[n] = 1 /\ s.inode[n].ref = 2
          <5>1. r[n] = 1
            BY <1>1, <2>3, <4>1, RefsFacts DEF Uses
          <5>2. s.inode[n].ref = r[n] + 1
            BY <2>3 DEF HasRefs, More
          <5> QED BY <5>1, <5>2
        <4>3. PICK c, e : c = s.inode[n] /\ e = Released(c)
          OBVIOUS
        <4>4. e.start = c.start /\ e.loc = c.loc /\ e.ref = 1 /\ IsInode(e) /\ c.ref = 2
          BY <4>2, <4>3 DEF Released, IsInode
        <4>5. InodeIs(s, u, n, e)
          BY <2>3, <3>1, <4>3, <4>4, InodeSet, ReleaseIs DEF SetInode
        <4>6. SameLive(s, u)
          BY <3>3, <4>3, <4>4, <4>5 DEF SameLive, InodeIs, Kept
        <4> QED BY <1>1, <1>8, <2>1, <2>3, <3>2, <3>4, <4>1, <4>6
      <3> QED BY <3>5, <3>6
    <2> QED BY <2>5, <2>6
  <1> QED BY <1>7, <1>8

LEMMA ReleaseLookupLinked ==
  ASSUME NEW t, ExactTables(t), NEW F, Linked(t.fs, F), NEW f \in Files \cup {NoFile}
  PROVE  Kept(t.fs, F, ReleaseLookup(t, f).fs)
  <1>1. Kept(t.fs, F, t.fs)
    BY DEF Kept, SameDisk
  <1>2. CASE f = NoFile \/ t.openfile[f].ref > 0
    BY <1>1, <1>2 DEF ReleaseLookup, Settle
  <1>3. CASE f # NoFile /\ ~ (t.openfile[f].ref > 0)
    <2>1. PICK n : n = t.openfile[f].node
      OBVIOUS
    <2>2. ReleaseLookup(t, f).fs = ReleaseInode(t.fs, n)
      BY <1>3, <2>1 DEF ReleaseLookup, Settle
    <2>3. n \in Pointers /\ IsVolume(t.fs) /\ IsPool(t.fs.inode)
      BY <1>3, <2>1 DEF ExactTables, Exact, OnePerInode, HasRefs
    <2> QED BY <2>2, <2>3, ReleaseLinked
  <1> QED BY <1>2, <1>3

(***************************************************************************)
(* A free cluster c becomes the end of a chain: of a new one, or after the *)
(* cluster in T of a directory.  FAT12 has fewer clusters than the number  *)
(* that ends a chain, whose mark would be a link otherwise.                *)
(***************************************************************************)
EndIsNoCluster == EndOfChain \notin Clusters

Claims(A, B, F, c, T) ==
  /\ c \in Clusters /\ A[c] = FreeMark /\ B[c] = EndOfChain
  /\ \A a \in Clusters : a # c => B[a] = A[a] \/ (a \in T /\ B[a] = c)
  /\ \A a \in T : A[a] # FreeMark /\ a \notin F
  /\ \A a, b \in T : a = b

LEMMA MarkFacts == FreeMark # EndOfChain /\ NoCluster = FreeMark
  BY DEF FreeMark, EndOfChain, NoCluster

LEMMA ClaimFat ==
  ASSUME EndIsNoCluster, NEW A, NEW F, FatLinked(A, F), NEW B, NEW c, NEW T,
         Claims(A, B, F, c, T)
  PROVE  FatLinked(B, F)
  <1>1. c \in Clusters /\ c \notin F /\ B[c] \notin Clusters /\ B[c] # FreeMark
    BY MarkFacts DEF Claims, FatLinked, EndIsNoCluster
  <1>2. \A a \in Clusters : A[a] # c
    BY <1>1 DEF Claims, FatLinked
  <1>3. ASSUME NEW a \in Clusters, B[a] \in Clusters
        PROVE  a # c /\ ((B[a] = A[a] /\ B[a] # c) \/ (a \in T /\ B[a] = c))
    <2>1. a # c
      BY <1>1, <1>3
    <2>2. B[a] = A[a] \/ (a \in T /\ B[a] = c)
      BY <2>1 DEF Claims
    <2> QED BY <1>2, <2>1, <2>2
  <1>4. ASSUME NEW a \in Clusters, NEW b \in Clusters, B[a] \in Clusters, B[a] = B[b]
        PROVE  a = b
    <2>1. /\ (B[a] = A[a] /\ B[a] # c) \/ (a \in T /\ B[a] = c)
          /\ (B[b] = A[b] /\ B[b] # c) \/ (b \in T /\ B[b] = c)
      BY <1>3, <1>4
    <2>2. CASE B[a] = c
      BY <1>4, <2>1, <2>2 DEF Claims
    <2>3. CASE B[a] # c
      BY <1>4, <2>1, <2>3 DEF FatLinked
    <2> QED BY <2>2, <2>3
  <1>5. \A a \in Clusters : A[a] # FreeMark => B[a] # FreeMark
    BY <1>1, RootNoCluster DEF Claims
  <1>6. ASSUME NEW a \in Clusters, B[a] \in Clusters
        PROVE  B[B[a]] # FreeMark /\ (a \in F <=> B[a] \in F)
    <2>1. CASE B[a] = A[a]
      <3>1. A[A[a]] # FreeMark /\ (a \in F <=> A[a] \in F)
        BY <1>6, <2>1 DEF FatLinked
      <3> QED BY <1>5, <1>6, <2>1, <3>1
    <2>2. CASE a \in T /\ B[a] = c
      BY <1>1, <2>2 DEF Claims
    <2> QED BY <1>3, <1>6, <2>1, <2>2
  <1>7. F \subseteq Clusters /\ \A a \in F : B[a] # FreeMark
    BY <1>5 DEF FatLinked
  <1> QED BY <1>4, <1>6, <1>7 DEF FatLinked

LEMMA ClaimHead ==
  ASSUME EndIsNoCluster, NEW A, NEW B, NEW F, NEW c, NEW T, Claims(A, B, F, c, T),
         NEW x \in Clusters, IsHead(A, x)
  PROVE  IsHead(B, x) /\ x # c
  <1>1. x # c /\ c \in Clusters
    BY DEF Claims, IsHead
  <1>2. B[x] # FreeMark
    BY <1>1, RootNoCluster DEF Claims, IsHead
  <1>3. \A a \in Clusters : B[a] # x
    BY <1>1 DEF Claims, IsHead, EndIsNoCluster
  <1> QED BY <1>1, <1>2, <1>3 DEF IsHead

LEMMA ClaimDirs ==
  ASSUME EndIsNoCluster, NEW A, NEW D, NEW F, DirsLinked(A, D, F),
         NEW B, NEW c, NEW T, Claims(A, B, F, c, T)
  PROVE  DirsLinked(B, D, F)
  <1>1. ASSUME NEW l \in Places PROVE EntryLinked(B, F, At(D, l))
    <2>1. EntryLinked(A, F, At(D, l))
      BY DEF DirsLinked
    <2> QED BY <2>1, ClaimHead DEF EntryLinked
  <1>2. ASSUME NEW l \in Places, ~ Holds(B, F, l[1]) PROVE At(D, l) = NoEntry
    <2>1. ~ Holds(A, F, l[1])
      BY <1>2, MarkFacts, RootNoCluster DEF Holds, Claims
    <2> QED BY <2>1 DEF DirsLinked
  <1> QED BY <1>1, <1>2 DEF DirsLinked

LEMMA DirsSame ==
  ASSUME NEW A, NEW D, NEW F, DirsLinked(A, D, F), NEW E, SameEntries(D, E)
  PROVE  DirsLinked(A, E, F)
  BY DEF DirsLinked, SameEntries, OneStart

ClusterAdded(s, B, c, u) ==
  u = [fat |-> B, dirs |-> [s.dirs EXCEPT ![c] = Blank(EntriesPerCluster)],
       inode |-> s.inode]

LEMMA ClaimLinked ==
  ASSUME EndIsNoCluster, NEW s, NEW F, Linked(s, F), DirsTyped(s.dirs),
         NEW B, NEW c, NEW T, Claims(s.fat, B, F, c, T), NEW u, ClusterAdded(s, B, c, u)
  PROVE  Linked(u, F) /\ SameEntries(s.dirs, u.dirs)
  <1>1. PICK A, D, E : A = s.fat /\ D = s.dirs /\ E = u.dirs
    OBVIOUS
  <1>2. FatLinked(A, F) /\ DirsLinked(A, D, F) /\ PoolLinked(D, s.inode)
    BY <1>1 DEF Linked
  <1>3. c \in Clusters /\ A[c] = FreeMark
    BY <1>1 DEF Claims
  <1>4. Empties(D, {c})
    BY <1>2, <1>3 DEF DirsLinked, Empties, Holds
  <1>5. Cleared(D, E, {c})
    <2>1. D = [d \in Blocks |-> D[d]] /\ E = [D EXCEPT ![c] = Blank(EntriesPerCluster)]
      BY <1>1 DEF DirsTyped, ClusterAdded
    <2> QED BY <2>1 DEF Cleared
  <1>6. SameEntries(D, E)
    BY <1>3, <1>4, <1>5, ClearedSame
  <1>7. FatLinked(B, F)
    BY <1>1, <1>2, ClaimFat
  <1>8. DirsLinked(B, E, F)
    BY <1>1, <1>2, <1>6, ClaimDirs, DirsSame
  <1>9. PoolLinked(E, s.inode)
    BY <1>2, <1>6, PoolSame
  <1>10. u.fat = B /\ u.inode = s.inode
    BY DEF ClusterAdded
  <1> QED BY <1>1, <1>6, <1>7, <1>8, <1>9, <1>10 DEF Linked

(***************************************************************************)
(* An entry is written where there was none.                               *)
(***************************************************************************)
NewEntry(s, F, e) ==
  /\ e.name # NoName
  /\ IF e.start \in Clusters
     THEN /\ e.dir /\ e.start \notin F /\ IsHead(s.fat, e.start)
          /\ \A m \in Places : At(s.dirs, m).start # e.start
     ELSE ~ e.dir

FreePlace(s, F, l) ==
  l \in Places /\ At(s.dirs, l) = NoEntry /\ Holds(s.fat, F, l[1])

LEMMA NoEntryFacts ==
  NoEntry.name = NoName /\ ~ NoEntry.dir /\ NoEntry.start = NoCluster /\ NoEntry.start \notin Clusters
  BY RootNoCluster DEF NoEntry

LEMMA WriteEntryLinked ==
  ASSUME NEW s, IsVolume(s), DirsTyped(s.dirs), NEW F, Linked(s, F),
         NEW l, FreePlace(s, F, l), NEW e, NewEntry(s, F, e)
  PROVE  Linked(WriteEntry(s, l, e), F)
  <1>1. PICK A, D, E, u : /\ A = s.fat /\ D = s.dirs /\ u = WriteEntry(s, l, e)
                          /\ E = [D EXCEPT ![l[1]][l[2]] = e]
    OBVIOUS
  <1>2. u = [fat |-> A, dirs |-> E, inode |-> s.inode]
    BY <1>1 DEF WriteEntry, IsVolume
  <1>3. FatLinked(A, F) /\ DirsLinked(A, D, F) /\ PoolLinked(D, s.inode)
    BY <1>1 DEF Linked
  <1>4. l \in Places /\ At(D, l) = NoEntry /\ Holds(A, F, l[1])
    BY <1>1 DEF FreePlace
  <1>5. CellIs(D, E, l, e)
    BY <1>1, <1>4, CellSet
  <1>6. At(E, l) = e /\ \A m \in Places : m # l => At(E, m) = At(D, m)
    BY <1>5 DEF CellIs
  <1>7. ASSUME NEW m \in Places PROVE EntryLinked(A, F, At(E, m))
    <2>1. CASE m = l
      BY <1>1, <1>6, <2>1 DEF EntryLinked, NewEntry
    <2>2. CASE m # l
      BY <1>3, <1>6, <2>2 DEF DirsLinked
    <2> QED BY <2>1, <2>2
  <1>8. OneStart(E)
    <2> SUFFICES ASSUME NEW m \in Places, NEW k \in Places, At(E, m).start \in Clusters,
                        At(E, m).start = At(E, k).start
                 PROVE  m = k
      BY DEF OneStart
    <2>1. CASE m # l /\ k # l
      BY <1>3, <1>6, <2>1 DEF DirsLinked, OneStart
    <2>2. CASE m = l /\ k # l
      BY <1>1, <1>6, <2>2 DEF NewEntry
    <2>3. CASE m # l /\ k = l
      BY <1>1, <1>6, <2>3 DEF NewEntry
    <2> QED BY <2>1, <2>2, <2>3
  <1>9. ASSUME NEW m \in Places, ~ Holds(A, F, m[1]) PROVE At(E, m) = NoEntry
    <2>1. m # l
      BY <1>4, <1>9
    <2> QED BY <1>3, <1>6, <1>9, <2>1 DEF DirsLinked
  <1>10. DirsLinked(A, E, F)
    BY <1>7, <1>8, <1>9 DEF DirsLinked
  <1>11. Unused(s.inode, l)
    <2> SUFFICES ASSUME NEW n \in Inodes, s.inode[n].ref > 0, s.inode[n].loc = l PROVE FALSE
      BY DEF Unused
    <2>1. OpenAt(D, s.inode[n])
      BY <1>3 DEF PoolLinked
    <2> QED BY <1>4, <2>1, NoEntryFacts DEF OpenAt
  <1>12. PoolLinked(E, s.inode)
    BY <1>3, <1>5, <1>11, PoolCell
  <1> QED BY <1>1, <1>2, <1>3, <1>10, <1>12 DEF Linked

(***************************************************************************)
(* find_free_entry(), which may give the directory another cluster.        *)
(***************************************************************************)
IsDirAt(s, F, d) == d = Root \/ (d \in Clusters /\ s.fat[d] # FreeMark /\ d \notin F)

LEMMA DirPlaces ==
  ASSUME NEW s, NEW F, Linked(s, F), NEW d, IsDirAt(s, F, d),
         NEW l \in Range(Locations(s, d))
  PROVE  l \in Places /\ Holds(s.fat, F, l[1])
  <1>1. d \in FirstClusters
    BY DEF IsDirAt, FirstClusters, Blocks
  <1>2. CASE d = Root
    BY <1>1, <1>2, LocationsIn, RootNoCluster DEF Holds
  <1>3. CASE d # Root
    <2>1. d \in Clusters /\ s.fat[d] # FreeMark /\ d \notin F
      BY <1>3 DEF IsDirAt
    <2>2. l \in Places /\ l[1] \in Range(Chain(s, d))
      BY <1>1, <2>1, LocationsIn
    <2>3. ChainSet(s.fat, F, d, Range(Chain(s, d)))
      BY <2>1, ChainRange DEF Linked
    <2> QED BY <2>1, <2>2, <2>3 DEF ChainSet, Holds
  <1> QED BY <1>2, <1>3

LEMMA FreeIsFree ==
  ASSUME NEW s, FreeClusters(s) # {}
  PROVE  AllocateCluster(s) \in Clusters /\ s.fat[AllocateCluster(s)] = FreeMark
  <1>1. FreeClusters(s) \in SUBSET (0 .. ClusterCount) /\ ClusterCount \in Nat
    BY DEF FreeClusters, Clusters
  <1>2. Min(FreeClusters(s)) \in FreeClusters(s)
    BY <1>1, MinIn
  <1> QED BY <1>2 DEF AllocateCluster, FreeClusters

LEMMA GrowLinked ==
  ASSUME EndIsNoCluster, NEW s, IsVolume(s), Typed(s), NEW F, Linked(s, F),
         NEW d \in Clusters, s.fat[d] # FreeMark, d \notin F, FreeClusters(s) # {},
         NEW c, c = AllocateCluster(s)
  PROVE  Linked(Grow(s, d, c).fs, F) /\ FreePlace(Grow(s, d, c).fs, F, Grow(s, d, c).loc)
  <1>1. PICK A, t, B, u : /\ A = s.fat /\ t = Last(Chain(s, d)) /\ u = Grow(s, d, c).fs
                          /\ B = [[A EXCEPT ![t] = c] EXCEPT ![c] = EndOfChain]
    OBVIOUS
  <1>2. c \in Clusters /\ A[c] = FreeMark
    BY <1>1, FreeIsFree
  <1>3. t \in Clusters /\ A[t] # FreeMark /\ t \notin F
    <2>1. ChainSet(A, F, d, Range(Chain(s, d))) /\ t \in Range(Chain(s, d))
      BY <1>1, ChainRange DEF Linked
    <2> QED BY <2>1 DEF ChainSet
  <1>4. A = [a \in Clusters |-> A[a]] /\ DirsTyped(s.dirs)
    BY <1>1 DEF Typed, FatTyped
  <1>5. PICK T : T = {t}
    OBVIOUS
  <1>50. Claims(s.fat, B, F, c, T)
    <2>1. PICK A1 : A1 = [A EXCEPT ![t] = c]
      OBVIOUS
    <2>2. /\ A1 = [a \in Clusters |-> A1[a]]
          /\ \A a \in Clusters : A1[a] = IF a = t THEN c ELSE A[a]
      BY <1>3, <1>4, <2>1
    <2>3. B = [A1 EXCEPT ![c] = EndOfChain]
      BY <1>1, <2>1
    <2>4. B[c] = EndOfChain /\ \A a \in Clusters : a # c => B[a] = IF a = t THEN c ELSE A[a]
      BY <1>2, <2>2, <2>3
    <2>5. \A a \in Clusters : a # c => B[a] = A[a] \/ (a \in T /\ B[a] = c)
      BY <1>5, <2>4
    <2>6. (\A a \in T : A[a] # FreeMark /\ a \notin F) /\ \A a, b \in T : a = b
      BY <1>3, <1>5
    <2>7. A = s.fat
      BY <1>1
    <2> QED BY <1>2, <2>4, <2>5, <2>6, <2>7 DEF Claims
  <1>6. ClusterAdded(s, B, c, u)
    BY <1>1 DEF Grow, IsVolume, ClusterAdded
  <1>7. Linked(u, F) /\ SameEntries(s.dirs, u.dirs)
    BY <1>4, <1>50, <1>6, ClaimLinked
  <1>8. Grow(s, d, c).loc = <<c, 1>>
    BY DEF Grow
  <1>9. FreePlace(u, F, <<c, 1>>)
    <2>1. c \in Blocks /\ 1 \in 1 .. Slots(c)
      BY <1>2, RootNoCluster DEF Blocks, Slots
    <2>2. PICK l : l = <<c, 1>>
      OBVIOUS
    <2>3. l \in Places /\ l[1] = c
      BY <2>1, <2>2, PlaceFacts
    <2>4. At(s.dirs, l) = NoEntry
      BY <1>1, <1>2, <2>3 DEF Linked, DirsLinked, Holds
    <2>5. At(u.dirs, l) = NoEntry
      BY <1>7, <2>3, <2>4 DEF SameEntries
    <2>6. Holds(u.fat, F, c)
      <3>1. u.fat[c] # FreeMark
        BY <1>50, <1>6, MarkFacts DEF Claims, ClusterAdded
      <3>2. c \notin F
        BY <1>1, <1>2 DEF Linked, FatLinked
      <3> QED BY <3>1, <3>2 DEF Holds
    <2> QED BY <2>2, <2>3, <2>5, <2>6 DEF FreePlace
  <1> QED BY <1>1, <1>7, <1>8, <1>9

LEMMA FreeEntryLinked ==
  ASSUME EndIsNoCluster, NEW s, IsVolume(s), Typed(s), NEW F, Linked(s, F),
         NEW d, IsDirAt(s, F, d), FreeEntry(s, d).loc # NoLocation
  PROVE  Linked(FreeEntry(s, d).fs, F) /\ FreePlace(FreeEntry(s, d).fs, F, FreeEntry(s, d).loc)
  <1>1. PICK places, free, c :
          /\ places = Locations(s, d) /\ c = AllocateCluster(s)
          /\ free = {k \in DOMAIN places : EntryAt(s, places[k]) = NoEntry}
    OBVIOUS
  <1>2. FreeEntry(s, d) = FreeEntryAmong(s, d, places, free)
    BY <1>1 DEF FreeEntry
  <1>3. CASE free # {}
    <2>1. \E n \in Nat : DOMAIN places = 1 .. n
      <3>1. CASE d = Root
        BY <1>1, <3>1 DEF Locations
      <3>2. CASE d # Root
        <4>1. PICK L : L = Len(Chain(s, d))
          OBVIOUS
        <4>2. L \in Nat
          BY <3>2, <4>1, ChainOfClusters DEF IsDirAt
        <4>3. DOMAIN places = 1 .. L * EntriesPerCluster
          BY <1>1, <3>2, <4>1 DEF Locations
        <4>4. L * EntriesPerCluster \in Nat
          BY <4>2
        <4> QED BY <4>3, <4>4
      <3> QED BY <3>1, <3>2
    <2>2. PICK n \in Nat : DOMAIN places = 1 .. n
      BY <2>1
    <2>3. free \in SUBSET (0 .. n)
      BY <1>1, <2>2
    <2>4. PICK k : k = Min(free)
      OBVIOUS
    <2>5. k \in free
      BY <1>3, <2>3, <2>4, MinIn
    <2>6. PICK l : l = places[k]
      OBVIOUS
    <2>7. l \in Range(Locations(s, d)) /\ EntryAt(s, l) = NoEntry
      BY <1>1, <2>5, <2>6 DEF Range
    <2>8. l \in Places /\ Holds(s.fat, F, l[1])
      BY <2>7, DirPlaces
    <2>9. FreeEntry(s, d) = [fs |-> s, loc |-> l]
      BY <1>2, <1>3, <2>4, <2>6 DEF FreeEntryAmong
    <2> QED BY <2>7, <2>8, <2>9 DEF FreePlace, At, EntryAt
  <1>4. CASE free = {}
    <2>1. d # Root /\ FreeClusters(s) # {} /\ FreeEntry(s, d) = Grow(s, d, c)
      BY <1>1, <1>2, <1>4 DEF FreeEntryAmong
    <2>2. d \in Clusters /\ s.fat[d] # FreeMark /\ d \notin F
      BY <2>1 DEF IsDirAt
    <2> QED BY <1>1, <2>1, <2>2, GrowLinked
  <1> QED BY <1>3, <1>4

LEMMA FreeEntryShape ==
  ASSUME NEW s, IsVolume(s), Typed(s), NEW d
  PROVE  IsVolume(FreeEntry(s, d).fs) /\ Typed(FreeEntry(s, d).fs)
  <1>1. \A z : Sized(s, {}, z)
    BY SizedNone
  <1>2. \A z : Sized(FreeEntry(s, d).fs, {}, z)
    BY <1>1, FreeEntrySized
  <1> QED BY <1>2, FreeEntrySame DEF Sized, SamePool

LEMMA CreateFileLinked ==
  ASSUME EndIsNoCluster, NEW s, IsVolume(s), Typed(s), NEW F, Linked(s, F),
         NEW d, IsDirAt(s, F, d), NEW name \in Names
  PROVE  Linked(CreateFile(s, d, name), F)
  <1>1. PICK place, e : /\ place = FreeEntry(s, d)
                        /\ e = [name |-> name, dir |-> FALSE, start |-> NoCluster, size |-> 0]
    OBVIOUS
  <1>2. \/ CreateFile(s, d, name) = s
        \/ /\ place.loc # NoLocation
           /\ CreateFile(s, d, name) = WriteEntry(place.fs, place.loc, e)
    BY <1>1 DEF CreateFile, NewFile
  <1>3. CASE place.loc # NoLocation
    <2>1. Linked(place.fs, F) /\ FreePlace(place.fs, F, place.loc)
      BY <1>1, <1>3, FreeEntryLinked
    <2>2. IsVolume(place.fs) /\ DirsTyped(place.fs.dirs)
      BY <1>1, FreeEntryShape DEF Typed
    <2>3. NewEntry(place.fs, F, e)
      <3>1. e.name = name /\ ~ e.dir /\ e.start = NoCluster
        BY <1>1
      <3> QED BY <3>1, RootNoCluster DEF NewEntry
    <2>4. Linked(WriteEntry(place.fs, place.loc, e), F)
      BY <2>1, <2>2, <2>3, WriteEntryLinked
    <2> QED BY <1>2, <2>4
  <1> QED BY <1>2, <1>3

LEMMA NewDirectoryLinked ==
  ASSUME EndIsNoCluster, NEW s, IsVolume(s), Typed(s), NEW F, Linked(s, F),
         FreeClusters(s) # {}, NEW c, c = AllocateCluster(s),
         NEW l, FreePlace(s, F, l), NEW name \in Names
  PROVE  Linked(NewDirectoryAt(s, c, l, name), F)
  <1>1. PICK A, B, u, e :
          /\ A = s.fat /\ B = [A EXCEPT ![c] = EndOfChain]
          /\ u = [s EXCEPT !.fat[c] = EndOfChain, !.dirs[c] = Blank(EntriesPerCluster)]
          /\ e = [name |-> name, dir |-> TRUE, start |-> c, size |-> 0]
    OBVIOUS
  <1>2. c \in Clusters /\ A[c] = FreeMark
    BY <1>1, FreeIsFree
  <1>3. A = [a \in Clusters |-> A[a]] /\ DirsTyped(s.dirs)
    BY <1>1 DEF Typed, FatTyped
  <1>4. PICK T : T = {}
    OBVIOUS
  <1>40. Claims(s.fat, B, F, c, T)
    <2>1. B[c] = EndOfChain /\ \A a \in Clusters : a # c => B[a] = A[a]
      BY <1>1, <1>2, <1>3
    <2>2. A = s.fat
      BY <1>1
    <2> QED BY <1>2, <1>4, <2>1, <2>2 DEF Claims
  <1>5. ClusterAdded(s, B, c, u)
    BY <1>1 DEF IsVolume, ClusterAdded
  <1>6. Linked(u, F) /\ SameEntries(s.dirs, u.dirs)
    BY <1>3, <1>40, <1>5, ClaimLinked
  <1>7. IsVolume(u) /\ DirsTyped(u.dirs) /\ u.fat = B
    BY <1>2, <1>3, <1>5, RowSet, BlankTyped DEF IsVolume, ClusterAdded
  <1>8. FreePlace(u, F, l)
    <2>1. l \in Places /\ At(s.dirs, l) = NoEntry /\ Holds(A, F, l[1])
      BY <1>1 DEF FreePlace
    <2>2. At(u.dirs, l) = NoEntry
      BY <1>6, <2>1 DEF SameEntries
    <2>3. Holds(u.fat, F, l[1])
      BY <1>1, <1>2, <1>40, <1>7, <2>1 DEF Holds, Claims
    <2> QED BY <2>1, <2>2, <2>3 DEF FreePlace
  <1>9. NewEntry(u, F, e)
    <2>1. e.name # NoName /\ e.dir /\ e.start = c
      BY <1>1
    <2>2. c \notin F
      BY <1>1, <1>2 DEF Linked, FatLinked
    <2>3. IsHead(B, c)
      <3>1. B[c] # FreeMark
        BY <1>40, MarkFacts DEF Claims
      <3>2. \A a \in Clusters : a # c => B[a] = A[a]
        BY <1>1, <1>4, <1>40 DEF Claims
      <3>3. \A a \in Clusters : A[a] # c
        BY <1>1, <1>2 DEF Linked, FatLinked
      <3>4. B[c] # c
        BY <1>2, <1>40 DEF Claims, EndIsNoCluster
      <3> QED BY <3>1, <3>2, <3>3, <3>4 DEF IsHead
    <2>4. ASSUME NEW m \in Places, At(u.dirs, m).start = c PROVE FALSE
      <3>1. At(s.dirs, m).start = c
        BY <1>6, <2>4 DEF SameEntries
      <3>2. EntryLinked(A, F, At(s.dirs, m))
        BY <1>1 DEF Linked, DirsLinked
      <3> QED BY <1>2, <3>1, <3>2 DEF EntryLinked, IsHead
    <2> QED BY <1>2, <1>7, <2>1, <2>2, <2>3, <2>4 DEF NewEntry
  <1>10. NewDirectoryAt(s, c, l, name) = WriteEntry(u, l, e)
    BY <1>1 DEF NewDirectoryAt
  <1> QED BY <1>6, <1>7, <1>8, <1>9, <1>10, WriteEntryLinked

LEMMA CreateDirectoryLinked ==
  ASSUME EndIsNoCluster, NEW s, IsVolume(s), Typed(s), NEW F, Linked(s, F),
         NEW d, IsDirAt(s, F, d), NEW name \in Names
  PROVE  Linked(CreateDirectory(s, d, name), F)
  <1>1. PICK place, c : place = FreeEntry(s, d) /\ c = AllocateCluster(place.fs)
    OBVIOUS
  <1>2. \/ CreateDirectory(s, d, name) = s
        \/ /\ place.loc # NoLocation /\ FreeClusters(place.fs) # {}
           /\ CreateDirectory(s, d, name) = NewDirectoryAt(place.fs, c, place.loc, name)
    BY <1>1 DEF CreateDirectory, NewDirectory
  <1>3. CASE place.loc # NoLocation /\ FreeClusters(place.fs) # {}
    <2>1. Linked(place.fs, F) /\ FreePlace(place.fs, F, place.loc)
      BY <1>1, <1>3, FreeEntryLinked
    <2>2. IsVolume(place.fs) /\ Typed(place.fs)
      BY <1>1, FreeEntryShape
    <2>3. Linked(NewDirectoryAt(place.fs, c, place.loc, name), F)
      BY <1>1, <1>3, <2>1, <2>2, NewDirectoryLinked
    <2> QED BY <1>2, <2>3
  <1> QED BY <1>2, <1>3

LEMMA SameFatChain ==
  ASSUME NEW s, NEW x, x.fat = s.fat, NEW c, c # NoCluster
  PROVE  Chain(x, c) = Chain(s, c)
  <1>1. PICK r : IsChain(r, s, c, ClusterCount) /\ Chain(s, c) = r[ClusterCount]
    BY ChainIsLast
  <1>2. PICK q : IsChain(q, x, c, ClusterCount) /\ Chain(x, c) = q[ClusterCount]
    BY ChainIsLast
  <1>3. \A b : Longer(x, b) = Longer(s, b)
    BY DEF Longer
  <1>4. PICK S : S = {k \in 0 .. ClusterCount : q[k] = r[k]}
    OBVIOUS
  <1>5. /\ \A k \in 0 .. ClusterCount : r[k] = IF k = 0 THEN <<c>> ELSE Longer(s, r[k - 1])
        /\ \A k \in 0 .. ClusterCount : q[k] = IF k = 0 THEN <<c>> ELSE Longer(x, q[k - 1])
    BY <1>1, <1>2 DEF IsChain
  <1>6. 0 \in S
    BY <1>4, <1>5
  <1>7. ASSUME NEW k \in 0 .. ClusterCount - 1, k \in S PROVE k + 1 \in S
    <2>1. PICK l \in 1 .. ClusterCount : l = k + 1
      OBVIOUS
    <2>2. r[l] = Longer(s, r[k]) /\ q[l] = Longer(x, q[k]) /\ q[k] = r[k]
      BY <1>4, <1>5, <1>7, <2>1
    <2>3. q[l] = r[l]
      BY <1>3, <2>2
    <2> QED BY <1>4, <2>1, <2>3
  <1>8. \A k \in 0 .. ClusterCount : k \in S
    BY <1>6, <1>7, UpInduction
  <1> QED BY <1>1, <1>2, <1>4, <1>8

(***************************************************************************)
(* The chain K that starts with c is freed: nothing outside it led into    *)
(* it, and no other entry starts in it.                                    *)
(***************************************************************************)
Freed(A, B, F, c, K) ==
  /\ ChainSet(A, F, c, K)
  /\ K # {} => \A a \in Clusters : A[a] # c
  /\ \A y \in Clusters : B[y] = IF y \in K THEN FreeMark ELSE A[y]

LEMMA NoneLeadsIn ==
  ASSUME NEW A, NEW B, NEW F, FatLinked(A, F), NEW c, NEW K, Freed(A, B, F, c, K),
         NEW a \in Clusters, a \notin K
  PROVE  A[a] \notin K
  <1> SUFFICES ASSUME A[a] \in K PROVE FALSE
    OBVIOUS
  <1>1. A[a] # c
    BY DEF Freed
  <1>2. PICK b \in K : A[b] = A[a]
    BY <1>1 DEF Freed, ChainSet
  <1>3. b \in Clusters /\ A[a] \in Clusters
    BY <1>2 DEF Freed, ChainSet
  <1> QED BY <1>2, <1>3 DEF FatLinked

LEMMA FreedFat ==
  ASSUME NEW A, NEW B, NEW F, FatLinked(A, F), NEW c, NEW K, Freed(A, B, F, c, K)
  PROVE  FatLinked(B, F \ K)
  <1>1. /\ \A y \in Clusters : B[y] = IF y \in K THEN FreeMark ELSE A[y]
        /\ FreeMark \notin Clusters
    BY RootNoCluster DEF Freed
  <1>2. ASSUME NEW a \in Clusters, B[a] \in Clusters
        PROVE  a \notin K /\ B[a] = A[a] /\ A[a] \notin K
    BY <1>1, <1>2, NoneLeadsIn
  <1>3. \A a, b \in Clusters : B[a] \in Clusters /\ B[a] = B[b] => a = b
    BY <1>2 DEF FatLinked
  <1>4. ASSUME NEW a \in Clusters, B[a] \in Clusters
        PROVE  B[B[a]] # FreeMark /\ (a \in F \ K <=> B[a] \in F \ K)
    <2>1. a \notin K /\ B[a] = A[a] /\ A[a] \notin K
      BY <1>2, <1>4
    <2>2. A[A[a]] # FreeMark /\ (a \in F <=> A[a] \in F)
      BY <1>4, <2>1 DEF FatLinked
    <2>3. B[B[a]] = A[A[a]]
      BY <1>1, <1>4, <2>1
    <2> QED BY <2>1, <2>2, <2>3
  <1>5. F \ K \subseteq Clusters /\ \A a \in F \ K : B[a] # FreeMark
    BY <1>1 DEF FatLinked
  <1> QED BY <1>3, <1>4, <1>5 DEF FatLinked

LEMMA FreedHead ==
  ASSUME NEW A, NEW B, NEW F, FatLinked(A, F), NEW c, NEW K, Freed(A, B, F, c, K),
         NEW x \in Clusters, x # c, IsHead(A, x)
  PROVE  IsHead(B, x) /\ x \notin K
  <1>1. x \notin K
    BY DEF Freed, ChainSet, IsHead
  <1>2. B[x] # FreeMark
    BY <1>1 DEF Freed, IsHead
  <1>3. \A a \in Clusters : B[a] # x
    BY RootNoCluster DEF Freed, IsHead
  <1> QED BY <1>1, <1>2, <1>3 DEF IsHead

LEMMA FreedDirs ==
  ASSUME NEW A, NEW B, NEW F, FatLinked(A, F), NEW c, NEW K, Freed(A, B, F, c, K),
         NEW D, DirsLinked(A, D, F), Empties(D, K \ F),
         NEW E, NEW l \in Places, CellIs(D, E, l, NoEntry), At(D, l).start = c
  PROVE  DirsLinked(B, E, F \ K)
  <1>1. At(E, l) = NoEntry /\ \A m \in Places : m # l => At(E, m) = At(D, m)
    BY DEF CellIs
  <1>2. ASSUME NEW m \in Places, m # l PROVE EntryLinked(B, F \ K, At(E, m))
    <2>1. PICK e : e = At(D, m)
      OBVIOUS
    <2>2. EntryLinked(A, F, e) /\ At(E, m) = e
      BY <1>1, <1>2, <2>1 DEF DirsLinked
    <2>3. e.start \in Clusters => e.start # c
      BY <1>2, <2>1 DEF DirsLinked, OneStart
    <2>4. e.start \in Clusters => IsHead(B, e.start) /\ e.start \notin K
      BY <2>2, <2>3, FreedHead DEF EntryLinked
    <2> QED BY <2>2, <2>4 DEF EntryLinked
  <1>3. EntryLinked(B, F \ K, At(E, l))
    BY <1>1, NoEntryFacts DEF EntryLinked
  <1>4. OneStart(E)
    <2> SUFFICES ASSUME NEW m \in Places, NEW k \in Places, At(E, m).start \in Clusters,
                        At(E, m).start = At(E, k).start
                 PROVE  m = k
      BY DEF OneStart
    <2>1. m # l /\ k # l
      BY <1>1, NoEntryFacts
    <2> QED BY <1>1, <2>1 DEF DirsLinked, OneStart
  <1>5. ASSUME NEW m \in Places, ~ Holds(B, F \ K, m[1]) PROVE At(E, m) = NoEntry
    <2>1. ~ Holds(A, F, m[1]) \/ m[1] \in K \ F
      BY <1>5 DEF Holds, Freed
    <2>2. At(D, m) = NoEntry
      BY <2>1 DEF DirsLinked, Empties
    <2> QED BY <1>1, <2>2
  <1>6. \A m \in Places : EntryLinked(B, F \ K, At(E, m))
    BY <1>2, <1>3
  <1> QED BY <1>4, <1>5, <1>6 DEF DirsLinked

(***************************************************************************)
(* remove() of a file and remove_directory() of an empty directory, which  *)
(* nobody else holds.                                                      *)
(***************************************************************************)
LEMMA DeleteLinked ==
  ASSUME NEW s, IsVolume(s), IsPool(s.inode), Typed(s), NEW F, Linked(s, F),
         NEW n \in Inodes, s.inode[n].ref = 1, s.inode[n].dir => IsDirEmpty(s, n)
  PROVE  Links(Delete(s, n))
  <1>1. PICK A, D, P, nd, l, c :
          /\ A = s.fat /\ D = s.dirs /\ P = s.inode
          /\ nd = P[n] /\ l = nd.loc /\ c = nd.start
    OBVIOUS
  <1>2. PICK E : E = [D EXCEPT ![l[1]][l[2]] = NoEntry]
    OBVIOUS
  <1>3. PICK x : x = [fat |-> A, dirs |-> E, inode |-> P]
    OBVIOUS
  <1>4. PICK K : K = Range(Chain(x, c))
    OBVIOUS
  <1>5. PICK B : B = [y \in Clusters |-> IF y \in K THEN FreeMark ELSE A[y]]
    OBVIOUS
  <1>6. PICK u : u = [fat |-> B, dirs |-> E, inode |-> P]
    OBVIOUS
  <1>7. Delete(s, n) = ReleaseInode(u, n)
    <2>1. [s EXCEPT !.dirs[l[1]][l[2]] = NoEntry] = x
      BY <1>1, <1>2, <1>3 DEF IsVolume
    <2>2. Delete(s, n) = ReleaseInode(FreeChain(x, c), n)
      BY <1>1, <2>1 DEF Delete
    <2>3. FreeChain(x, c) = u
      BY <1>3, <1>4, <1>5, <1>6 DEF FreeChain
    <2> QED BY <2>2, <2>3
  <1>8. FatLinked(A, F) /\ DirsLinked(A, D, F) /\ PoolLinked(D, P)
    BY <1>1 DEF Linked
  <1>9. nd.ref = 1 /\ OpenAt(D, nd)
    BY <1>1, <1>8 DEF PoolLinked
  <1>10. l \in Places /\ At(D, l).start = c /\ At(D, l).dir = nd.dir
    BY <1>1, <1>9 DEF OpenAt
  <1>11. CellIs(D, E, l, NoEntry)
    BY <1>1, <1>2, <1>10, CellSet DEF Typed
  <1>12. c \in Clusters \cup {NoCluster}
    BY <1>1 DEF Typed, FieldsTyped
  <1>13. EntryLinked(A, F, At(D, l))
    BY <1>8, <1>10 DEF DirsLinked
  <1>14. Freed(A, B, F, c, K) /\ Empties(D, K \ F)
    <2>1. CASE c = NoCluster
      <3>1. K = {}
        BY <1>4, <2>1 DEF Chain, Range
      <3> QED BY <1>5, <3>1 DEF Freed, ChainSet, Empties
    <2>2. CASE c \in Clusters
      <3>1. IsHead(A, c) /\ (c \in F <=> ~ nd.dir)
        BY <1>10, <1>13, <2>2 DEF EntryLinked
      <3>2. ChainSet(A, F, c, K)
        <4>1. x.fat = A
          BY <1>3
        <4> QED BY <1>4, <1>8, <2>2, <3>1, <4>1, ChainRange DEF IsHead
      <3>3. ASSUME NEW m \in Places, m[1] \in K \ F PROVE At(D, m) = NoEntry
        <4>1. c \notin F
          BY <3>2, <3>3 DEF ChainSet
        <4>2. IsDirEmpty(s, n)
          BY <1>1, <3>1, <4>1
        <4>3. DirCluster(s, n) = c
          BY <1>1, PointerFacts DEF DirCluster
        <4>4. c # NoCluster /\ x.fat = s.fat
          BY <1>1, <1>3, <2>2, RootNoCluster
        <4>5. K = Range(Chain(s, c))
          BY <1>4, <4>4, SameFatChain
        <4>6. m \in Range(Locations(s, c))
          BY <2>2, <3>3, <4>5, AllLocations
        <4>7. EntryAt(s, m) = NoEntry
          BY <4>2, <4>3, <4>6 DEF IsDirEmpty
        <4> QED BY <1>1, <4>7 DEF EntryAt, At
      <3> QED BY <1>5, <3>1, <3>2, <3>3 DEF Freed, IsHead, Empties
    <2> QED BY <1>12, <2>1, <2>2
  <1>15. FatLinked(B, F \ K)
    BY <1>8, <1>14, FreedFat
  <1>16. DirsLinked(B, E, F \ K)
    BY <1>8, <1>10, <1>11, <1>14, FreedDirs
  <1>17. PICK v : v = SetInode(u, n, FreeInode)
    OBVIOUS
  <1>18. ReleaseInode(u, n) = v
    <2>1. u.inode = P /\ IsPool(u.inode)
      BY <1>1, <1>6
    <2>2. Released(nd) = FreeInode
      BY <1>9 DEF Released
    <2> QED BY <1>1, <1>17, <2>1, <2>2, ReleaseIs
  <1>19. v.fat = B /\ v.dirs = E /\ InodeIs(u, v, n, FreeInode) /\ u.inode = P
    <2>1. IsVolume(u) /\ IsPool(u.inode) /\ u.inode = P
      BY <1>1, <1>6 DEF IsVolume
    <2>2. InodeIs(u, v, n, FreeInode)
      BY <1>17, <2>1, InodeSet, PointerFacts DEF SetInode
    <2> QED BY <1>6, <1>17, <2>1, <2>2 DEF SetInode
  <1>20. PICK Q : Q = v.inode
    OBVIOUS
  <1>21. Q[n] = FreeInode /\ \A m \in Inodes : m # n => Q[m] = P[m]
    BY <1>19, <1>20 DEF InodeIs
  <1>22. PoolLinked(D, Q)
    <2>1. Fits(D, P, n, FreeInode)
      BY PointerFacts DEF Fits
    <2> QED BY <1>8, <1>21, <2>1, PoolSet
  <1>23. Unused(Q, l)
    <2> SUFFICES ASSUME NEW m \in Inodes, Q[m].ref > 0, Q[m].loc = l PROVE FALSE
      BY DEF Unused
    <2>1. m # n /\ Q[m] = P[m]
      BY <1>21, PointerFacts
    <2> QED BY <1>1, <1>8, <1>9, <2>1 DEF PoolLinked
  <1>24. PoolLinked(E, Q)
    BY <1>11, <1>22, <1>23, PoolCell
  <1>25. Linked(v, F \ K)
    BY <1>15, <1>16, <1>19, <1>20, <1>24 DEF Linked
  <1> QED BY <1>7, <1>18, <1>25 DEF Links

(***************************************************************************)
(* remove() of what is no directory, and remove_directory().               *)
(***************************************************************************)
NotDirAt(s, d, name) ==
  Lookup(s, d, name).node # NullInode => ~ EntryAt(s, Target(s, d, name)).dir

LEMMA LookupGives ==
  ASSUME NEW s, NEW r, HasRefs(s, r), Typed(s), NEW F, Linked(s, F),
         NEW d \in FirstClusters, NEW name \in Names
  PROVE  LET l == Lookup(s, d, name)
         IN  /\ LookedUp(s, F, EntryAt(s, Target(s, d, name)), l)
             /\ IsVolume(l.fs) /\ IsPool(l.fs.inode) /\ Typed(l.fs) /\ Linked(l.fs, F)
             /\ l.node \in Pointers
  <1>1. IsVolume(s) /\ IsPool(s.inode)
    BY DEF HasRefs
  <1>2. LookedUp(s, F, EntryAt(s, Target(s, d, name)), Lookup(s, d, name))
    BY <1>1, LookupLinked
  <1>3. Takes(Lookup(s, d, name), r)
    BY LookupTakes
  <1>4. Typed(Lookup(s, d, name).fs)
    BY LookupTyped
  <1> QED BY <1>2, <1>3, <1>4 DEF LookedUp, Kept, Takes, HasRefs

LEMMA KeptLinks ==
  ASSUME NEW s, NEW F, NEW u, Kept(s, F, u)
  PROVE  Links(u)
  BY DEF Kept, Links

LEMMA FsRemoveLinked ==
  ASSUME NEW s, NEW r, HasRefs(s, r), Typed(s), NEW F, Linked(s, F),
         NEW d \in FirstClusters, NEW name \in Names, NotDirAt(s, d, name)
  PROVE  Links(FsRemove(s, d, name))
  <1>1. PICK l, n, x : l = Lookup(s, d, name) /\ n = l.node /\ x = l.fs
    OBVIOUS
  <1>2. /\ LookedUp(s, F, EntryAt(s, Target(s, d, name)), l)
        /\ IsVolume(x) /\ IsPool(x.inode) /\ Typed(x) /\ Linked(x, F) /\ n \in Pointers
    BY <1>1, LookupGives
  <1>3. n # NullInode => ~ x.inode[n].dir
    BY <1>1, <1>2 DEF LookedUp, NotDirAt
  <1>4. FsRemove(s, d, name) = RemoveInode(x, n)
    BY <1>1 DEF FsRemove
  <1>5. CASE n = NullInode
    BY <1>2, <1>4, <1>5 DEF RemoveInode, Links
  <1>6. CASE n # NullInode /\ x.inode[n].ref # 1
    <2>1. Kept(x, F, ReleaseInode(x, n))
      BY <1>2, ReleaseLinked
    <2> QED BY <1>4, <1>6, <2>1, KeptLinks DEF RemoveInode
  <1>7. CASE n # NullInode /\ x.inode[n].ref = 1
    <2>1. n \in Inodes
      BY <1>2, <1>7 DEF Pointers
    <2>2. Links(Delete(x, n))
      BY <1>2, <1>3, <1>7, <2>1, DeleteLinked
    <2> QED BY <1>4, <1>7, <2>2 DEF RemoveInode
  <1> QED BY <1>5, <1>6, <1>7

LEMMA RemoveDirectoryLinked ==
  ASSUME NEW s, NEW r, HasRefs(s, r), Typed(s), NEW F, Linked(s, F),
         NEW d \in FirstClusters, NEW name \in Names
  PROVE  Links(RemoveDirectory(s, d, name))
  <1>1. PICK l, n, x : l = Lookup(s, d, name) /\ n = l.node /\ x = l.fs
    OBVIOUS
  <1>2. IsVolume(x) /\ IsPool(x.inode) /\ Typed(x) /\ Linked(x, F) /\ n \in Pointers
    BY <1>1, LookupGives
  <1>3. RemoveDirectory(s, d, name) = RemoveDirInode(x, n)
    BY <1>1 DEF RemoveDirectory
  <1>4. CASE n = NullInode
    BY <1>2, <1>3, <1>4 DEF RemoveDirInode, Links
  <1>5. CASE n # NullInode /\ ~ (x.inode[n].dir /\ IsDirEmpty(x, n) /\ x.inode[n].ref = 1)
    <2>1. Kept(x, F, ReleaseInode(x, n))
      BY <1>2, ReleaseLinked
    <2>2. RemoveDirInode(x, n) = ReleaseInode(x, n)
      BY <1>5 DEF RemoveDirInode
    <2> QED BY <1>3, <2>1, <2>2, KeptLinks
  <1>6. CASE n # NullInode /\ x.inode[n].dir /\ IsDirEmpty(x, n) /\ x.inode[n].ref = 1
    <2>1. n \in Inodes
      BY <1>2, <1>6 DEF Pointers
    <2>2. Links(Delete(x, n))
      BY <1>2, <1>6, <2>1, DeleteLinked
    <2> QED BY <1>3, <1>6, <2>2 DEF RemoveDirInode
  <1> QED BY <1>4, <1>5, <1>6

(***************************************************************************)
(* An operation on a parent directory.                                     *)
(***************************************************************************)
LEMMA FsCallLinked ==
  ASSUME EndIsNoCluster, NEW s, NEW r, HasRefs(s, r), Typed(s), NEW F, Linked(s, F),
         NEW d, IsDirAt(s, F, d), NEW name \in Names, NEW call \in Calls,
         call = "remove" => NotDirAt(s, d, name)
  PROVE  Links(FsCall(call, s, d, name))
  <1>1. IsVolume(s) /\ IsPool(s.inode)
    BY DEF HasRefs
  <1>2. d \in FirstClusters
    BY DEF IsDirAt, FirstClusters, Blocks
  <1>3. CASE call = "create_file"
    <2>1. Linked(CreateFile(s, d, name), F)
      BY <1>1, CreateFileLinked
    <2> QED BY <1>3, <2>1 DEF FsCall, Links
  <1>4. CASE call = "remove"
    BY <1>2, <1>4, FsRemoveLinked DEF FsCall
  <1>5. CASE call = "create_directory"
    <2>1. Linked(CreateDirectory(s, d, name), F)
      BY <1>1, CreateDirectoryLinked
    <2> QED BY <1>5, <2>1 DEF FsCall, Links
  <1>6. CASE call = "remove_directory"
    BY <1>2, <1>6, RemoveDirectoryLinked DEF FsCall
  <1> QED BY <1>3, <1>4, <1>5, <1>6 DEF Calls

(***************************************************************************)
(* append() strings free clusters, the set S, together and hangs them on   *)
(* the cluster t of a file.                                                *)
(***************************************************************************)
Strung(A, B, F, S, t) ==
  /\ S \subseteq Clusters /\ \A a \in S : A[a] = FreeMark
  /\ \A a \in S : B[a] \in S \cup {EndOfChain}
  /\ \A a, b \in S : B[a] \in S /\ B[a] = B[b] => a = b
  /\ \A a \in Clusters : a \notin S =>
       \/ B[a] = A[a]
       \/ (a = t /\ t \in F /\ B[a] \in S /\ \A b \in S : B[b] # B[a])

LEMMA StrungLinks ==
  ASSUME EndIsNoCluster, NEW A, NEW F, FatLinked(A, F), NEW B, NEW S, NEW t,
         Strung(A, B, F, S, t)
  PROVE  /\ \A a \in Clusters : B[a] # FreeMark <=> (A[a] # FreeMark \/ a \in S)
         /\ \A a \in Clusters : A[a] \notin S
         /\ \A a \in Clusters : B[a] \in Clusters =>
              \/ (a \in S /\ B[a] \in S)
              \/ (a \notin S /\ B[a] = A[a] /\ B[a] \notin S)
              \/ (a \notin S /\ a = t /\ t \in F /\ B[a] \in S /\ \A b \in S : B[b] # B[a])
  <1>1. \A a \in S : a \in Clusters /\ a # FreeMark /\ A[a] = FreeMark
    BY RootNoCluster DEF Strung
  <1>2. \A a \in Clusters : A[a] \notin S
    BY <1>1 DEF FatLinked
  <1>3. ASSUME NEW a \in Clusters
        PROVE  B[a] # FreeMark <=> (A[a] # FreeMark \/ a \in S)
    <2>1. CASE a \in S
      BY <1>1, <2>1, MarkFacts DEF Strung
    <2>2. CASE a \notin S
      <3>1. A[t] # FreeMark \/ t \notin F
        BY DEF FatLinked
      <3> QED BY <1>1, <2>2, <3>1 DEF Strung
    <2> QED BY <2>1, <2>2
  <1>4. ASSUME NEW a \in Clusters, B[a] \in Clusters
        PROVE  \/ (a \in S /\ B[a] \in S)
               \/ (a \notin S /\ B[a] = A[a] /\ B[a] \notin S)
               \/ (a \notin S /\ a = t /\ t \in F /\ B[a] \in S /\ \A b \in S : B[b] # B[a])
    <2>1. CASE a \in S
      BY <1>4, <2>1 DEF Strung, EndIsNoCluster
    <2>2. CASE a \notin S
      BY <1>2, <2>2 DEF Strung
    <2> QED BY <2>1, <2>2
  <1> QED BY <1>2, <1>3, <1>4

LEMMA StrungFat ==
  ASSUME EndIsNoCluster, NEW A, NEW F, FatLinked(A, F), NEW B, NEW S, NEW t,
         Strung(A, B, F, S, t)
  PROVE  FatLinked(B, F \cup S)
  <1>1. /\ \A a \in Clusters : B[a] # FreeMark <=> (A[a] # FreeMark \/ a \in S)
        /\ \A a \in Clusters : A[a] \notin S
    BY StrungLinks
  <1>2. \A a \in Clusters : B[a] \in Clusters =>
              \/ (a \in S /\ B[a] \in S)
              \/ (a \notin S /\ B[a] = A[a] /\ B[a] \notin S)
              \/ (a \notin S /\ a = t /\ t \in F /\ B[a] \in S /\ \A b \in S : B[b] # B[a])
    BY StrungLinks
  <1>3. ASSUME NEW a \in Clusters, NEW b \in Clusters, B[a] \in Clusters, B[a] = B[b]
        PROVE  a = b
    <2>1. CASE B[a] \notin S
      <3>1. B[a] = A[a] /\ B[b] = A[b]
        BY <1>2, <1>3, <2>1
      <3> QED BY <1>3, <3>1 DEF FatLinked
    <2>2. CASE B[a] \in S /\ a \in S
      <3>1. b \in S
        BY <1>2, <1>3, <2>2
      <3> QED BY <1>3, <2>2, <3>1 DEF Strung
    <2>3. CASE B[a] \in S /\ a \notin S
      <3>1. a = t /\ \A c \in S : B[c] # B[a]
        BY <1>2, <1>3, <2>3
      <3>2. b \notin S
        BY <1>3, <3>1
      <3>3. b = t
        BY <1>2, <1>3, <2>3, <3>2
      <3> QED BY <3>1, <3>3
    <2> QED BY <2>1, <2>2, <2>3
  <1>4. ASSUME NEW a \in Clusters, B[a] \in Clusters
        PROVE  B[B[a]] # FreeMark /\ (a \in F \cup S <=> B[a] \in F \cup S)
    <2>1. CASE B[a] \in S
      <3>1. B[B[a]] # FreeMark
        BY <1>1, <1>4, <2>1
      <3>2. a \in F \cup S
        BY <1>2, <1>4, <2>1
      <3> QED BY <2>1, <3>1, <3>2
    <2>2. CASE B[a] \notin S
      <3>1. a \notin S /\ B[a] = A[a]
        BY <1>2, <1>4, <2>2
      <3>2. A[A[a]] # FreeMark /\ (a \in F <=> A[a] \in F)
        BY <1>4, <3>1 DEF FatLinked
      <3> QED BY <1>1, <1>4, <2>2, <3>1, <3>2
    <2> QED BY <2>1, <2>2
  <1>5. F \cup S \subseteq Clusters /\ \A a \in F \cup S : B[a] # FreeMark
    BY <1>1 DEF FatLinked, Strung
  <1> QED BY <1>3, <1>4, <1>5 DEF FatLinked

LEMMA StrungHead ==
  ASSUME EndIsNoCluster, NEW A, NEW F, FatLinked(A, F), NEW B, NEW S, NEW t,
         Strung(A, B, F, S, t), NEW x \in Clusters, IsHead(A, x)
  PROVE  IsHead(B, x) /\ x \notin S
  <1>1. x \notin S
    BY DEF Strung, IsHead
  <1>2. \A a \in Clusters : B[a] # FreeMark <=> (A[a] # FreeMark \/ a \in S)
    BY StrungLinks
  <1>3. \A a \in Clusters : B[a] \in Clusters => B[a] \in S \/ B[a] = A[a]
    BY StrungLinks
  <1> QED BY <1>1, <1>2, <1>3 DEF IsHead

LEMMA StrungDirs ==
  ASSUME EndIsNoCluster, NEW A, NEW F, FatLinked(A, F), NEW D, DirsLinked(A, D, F),
         NEW B, NEW S, NEW t, Strung(A, B, F, S, t)
  PROVE  DirsLinked(B, D, F \cup S)
  <1>1. \A a \in Clusters : B[a] # FreeMark <=> (A[a] # FreeMark \/ a \in S)
    BY StrungLinks
  <1>2. ASSUME NEW l \in Places PROVE EntryLinked(B, F \cup S, At(D, l))
    <2>1. EntryLinked(A, F, At(D, l))
      BY DEF DirsLinked
    <2> QED BY <2>1, StrungHead DEF EntryLinked
  <1>3. ASSUME NEW l \in Places, ~ Holds(B, F \cup S, l[1]) PROVE At(D, l) = NoEntry
    <2>1. ~ Holds(A, F, l[1])
      BY <1>1, <1>3 DEF Holds, Strung
    <2> QED BY <2>1 DEF DirsLinked
  <1> QED BY <1>2, <1>3 DEF DirsLinked

LEMMA StrungEmpty ==
  ASSUME NEW A, NEW D, NEW F, DirsLinked(A, D, F), NEW B, NEW S, NEW t,
         Strung(A, B, F, S, t)
  PROVE  Empties(D, S)
  BY DEF DirsLinked, Empties, Holds, Strung

(***************************************************************************)
(* The clusters a file gets, in the order of their numbers.                *)
(***************************************************************************)
LEMMA AppendStrings ==
  ASSUME EndIsNoCluster, NEW A, NEW F, FatLinked(A, F), NEW new, new \subseteq Clusters,
         \A a \in new : A[a] = FreeMark, NEW t \in F
  PROVE  Strung(A, AppendFat(A, new, t), F, new, t)
  <1>1. PICK B : B = AppendFat(A, new, t)
    OBVIOUS
  <1>2. ClusterCount \in Nat /\ new \in SUBSET (0 .. ClusterCount)
    BY DEF Clusters
  <1>0. \A x \in new : x \in Int
    BY DEF Clusters
  <1>3. ASSUME NEW S, S \subseteq new, S # {} PROVE Min(S) \in S /\ \A x \in S : Min(S) <= x
    <2>1. IsFiniteSet(0 .. ClusterCount)
      BY <1>2, FS_Interval
    <2>2. S \subseteq 0 .. ClusterCount /\ S \subseteq Int
      BY <1>0, <1>2, <1>3
    <2>3. IsFiniteSet(S)
      BY <2>1, <2>2, FS_Subset
    <2> QED BY <1>3, <2>2, <2>3, MinLeast
  <1>4. \A c \in Clusters :
          B[c] = IF c \in new
                 THEN IF \E x \in new : x > c THEN Min({x \in new : x > c}) ELSE EndOfChain
                 ELSE IF c = t /\ new # {} THEN Min(new) ELSE A[c]
    BY <1>1 DEF AppendFat
  <1>5. ASSUME NEW a \in new
        PROVE  \/ B[a] = EndOfChain
               \/ B[a] \in new /\ B[a] > a /\ \A x \in new : x > a => B[a] <= x
    <2>1. PICK S : S = {x \in new : x > a}
      OBVIOUS
    <2>2. CASE S = {}
      BY <1>4, <2>1, <2>2
    <2>3. CASE S # {}
      <3>1. B[a] = Min(S)
        BY <1>4, <2>1, <2>3
      <3>2. Min(S) \in S /\ \A x \in S : Min(S) <= x
        BY <1>3, <2>1, <2>3
      <3> QED BY <2>1, <3>1, <3>2
    <2> QED BY <2>2, <2>3
  <1>6. EndOfChain \notin new
    BY DEF EndIsNoCluster
  <1>7. ASSUME NEW a \in new, NEW b \in new, B[a] \in new, B[a] = B[b] PROVE a = b
    <2>1. a \in Int /\ b \in Int /\ B[a] \in Int
      BY <1>0, <1>7
    <2>2. B[a] > a /\ (b > a => B[a] <= b) /\ B[b] > b /\ (a > b => B[b] <= a)
      BY <1>5, <1>6, <1>7
    <2> QED BY <1>7, <2>1, <2>2
  <1>8. ASSUME NEW a \in Clusters, a \notin new, B[a] # A[a]
        PROVE  a = t /\ B[a] \in new /\ \A b \in new : B[b] # B[a]
    <2>1. a = t /\ new # {} /\ B[a] = Min(new)
      BY <1>4, <1>8
    <2>2. B[a] \in new /\ \A x \in new : B[a] <= x
      BY <1>3, <2>1
    <2>3. ASSUME NEW b \in new, B[b] = B[a] PROVE FALSE
      <3>1. B[b] > b
        BY <1>5, <1>6, <2>2, <2>3
      <3>2. b \in Int /\ B[a] \in Int /\ B[a] <= b
        BY <1>0, <2>2
      <3> QED BY <2>3, <3>1, <3>2
    <2> QED BY <2>1, <2>2, <2>3
  <1>9. \A a \in new : B[a] \in new \cup {EndOfChain}
    BY <1>5
  <1>10. Strung(A, B, F, new, t)
    BY <1>7, <1>8, <1>9 DEF Strung
  <1> QED BY <1>1, <1>10

(***************************************************************************)
(* The file gets its clusters before its entry says so: c is the first of  *)
(* them, and no other entry starts with it.                                *)
(***************************************************************************)
MayStart(A, D, F, l, c) ==
  /\ c \in Clusters /\ IsHead(A, c) /\ c \in F
  /\ \A m \in Places : At(D, m).start = c => m = l

FirstString(A, B, c) ==
  B[c] = EndOfChain /\ \A a \in Clusters : a # c => B[a] = A[a]

LEMMA FirstLinked ==
  ASSUME EndIsNoCluster, NEW A, NEW D, NEW F, FatLinked(A, F), DirsLinked(A, D, F),
         NEW c \in Clusters, A[c] = FreeMark, NEW B, FirstString(A, B, c), NEW l
  PROVE  /\ FatLinked(B, F \cup {c}) /\ DirsLinked(B, D, F \cup {c})
         /\ Empties(D, {c}) /\ MayStart(B, D, F \cup {c}, l, c)
  <1>1. PICK S : S = {c}
    OBVIOUS
  <1>2. Strung(A, B, F, S, NoCluster)
    BY <1>1 DEF Strung, FirstString
  <1>3. FatLinked(B, F \cup S) /\ DirsLinked(B, D, F \cup S) /\ Empties(D, S)
    BY <1>2, StrungFat, StrungDirs, StrungEmpty
  <1>4. IsHead(B, c)
    <2>1. B[c] # FreeMark /\ B[c] # c
      BY MarkFacts DEF FirstString, EndIsNoCluster
    <2>2. \A a \in Clusters : A[a] # c
      BY DEF FatLinked
    <2> QED BY <2>1, <2>2 DEF FirstString, IsHead
  <1>5. \A m \in Places : At(D, m).start # c
    BY DEF DirsLinked, EntryLinked, IsHead
  <1> QED BY <1>1, <1>3, <1>4, <1>5 DEF MayStart

LEMMA StrungMayStart ==
  ASSUME EndIsNoCluster, NEW A, NEW F, FatLinked(A, F), NEW B, NEW S, NEW t,
         Strung(A, B, F, S, t), NEW D, NEW l, NEW c, MayStart(A, D, F, l, c)
  PROVE  MayStart(B, D, F \cup S, l, c)
  BY StrungHead DEF MayStart

(***************************************************************************)
(* update_entry(): then the entry does.                                    *)
(***************************************************************************)
Updated(e, c, z) == [name |-> e.name, dir |-> e.dir, start |-> c, size |-> z]

LEMMA UpdateIs ==
  ASSUME NEW u, IsVolume(u), Typed(u), NEW n \in Inodes, NEW l \in Places,
         l = u.inode[n].loc
  PROVE  /\ UpdateEntry(u, n).fat = u.fat /\ UpdateEntry(u, n).inode = u.inode
         /\ CellIs(u.dirs, UpdateEntry(u, n).dirs, l,
                   Updated(At(u.dirs, l), u.inode[n].start, u.inode[n].size))
  <1>1. PICK a, b, z, c : /\ a = l[1] /\ b = l[2]
                          /\ z = u.inode[n].size /\ c = u.inode[n].start
    OBVIOUS
  <1>2. z \in 0 .. MaxSize /\ c \in Clusters \cup {NoCluster}
    BY <1>1 DEF Typed, FieldsTyped
  <1>3. PICK D, X, Y : /\ D = u.dirs
                       /\ X = [D EXCEPT ![a][b].size = z]
                       /\ Y = [X EXCEPT ![a][b].start = c]
    OBVIOUS
  <1>4. UpdateEntry(u, n) = [fat |-> u.fat, dirs |-> Y, inode |-> u.inode]
    <2>1. UpdateEntry(u, n) = [u EXCEPT !.dirs[a][b].size = z, !.dirs[a][b].start = c]
      BY <1>1 DEF UpdateEntry
    <2>2. [u EXCEPT !.dirs[a][b].size = z] = [fat |-> u.fat, dirs |-> X, inode |-> u.inode]
      BY <1>3, SMTT(30) DEF IsVolume
    <2> QED BY <1>3, <2>1, <2>2, ZenonT(30)
  <1>5. PICK e, f, g : /\ e = D[a][b] /\ f = [e EXCEPT !.size = z]
                       /\ g = [f EXCEPT !.start = c]
    OBVIOUS
  <1>6. a \in Blocks /\ b \in 1 .. Slots(a) /\ DirsTyped(D)
    BY <1>1, <1>3, PlaceFacts DEF Typed
  <1>7. e \in Entries
    BY <1>3, <1>5, <1>6 DEF DirsTyped, RowTyped
  <1>8. f \in Entries /\ g = Updated(e, c, z)
    <2>1. e = [name |-> e.name, dir |-> e.dir, start |-> e.start, size |-> e.size]
      BY <1>7 DEF Entries
    <2>2. f = [name |-> e.name, dir |-> e.dir, start |-> e.start, size |-> z]
      BY <1>5, <2>1
    <2>3. f \in Entries
      BY <1>2, <1>7, <2>2 DEF Entries
    <2>4. g = [name |-> e.name, dir |-> e.dir, start |-> c, size |-> z]
      BY <1>5, <2>2
    <2> QED BY <2>3, <2>4 DEF Updated
  <1>9. X = [D EXCEPT ![a][b] = f]
    BY <1>3, <1>5
  <1>10. DirsTyped(X) /\ CellIs(D, X, l, f)
    BY <1>1, <1>6, <1>8, <1>9, EntrySet, CellSet
  <1>11. X[a][b] = f
    BY <1>1, <1>10 DEF CellIs, At
  <1>12. Y = [X EXCEPT ![a][b] = g]
    BY <1>3, <1>5, <1>11
  <1>13. CellIs(X, Y, l, g)
    BY <1>1, <1>10, <1>12, CellSet
  <1>14. CellIs(D, Y, l, g)
    BY <1>10, <1>13 DEF CellIs
  <1>15. At(u.dirs, l) = e
    BY <1>1, <1>3, <1>5 DEF At
  <1>16. PICK v : v = UpdateEntry(u, n)
    OBVIOUS
  <1>17. v.fat = u.fat /\ v.inode = u.inode /\ v.dirs = Y
    BY <1>4, <1>16
  <1>18. CellIs(u.dirs, v.dirs, l, Updated(At(u.dirs, l), c, z))
    BY <1>3, <1>8, <1>14, <1>15, <1>17
  <1> QED BY <1>1, <1>16, <1>17, <1>18

LEMMA UpdateLinked ==
  ASSUME NEW A, NEW D, NEW P, NEW F, FatLinked(A, F), DirsLinked(A, D, F), PoolLinked(D, P),
         NEW n \in Inodes, P[n].ref > 0, ~ P[n].dir, NEW l, l = P[n].loc,
         NEW c, MayStart(A, D, F, l, c), NEW z,
         NEW E, CellIs(D, E, l, Updated(At(D, l), c, z)),
         NEW Q, \A m \in Inodes : m # n => Q[m] = P[m],
         Q[n] = [start |-> c, size |-> z, dir |-> P[n].dir, loc |-> l, ref |-> P[n].ref]
  PROVE  DirsLinked(A, E, F) /\ PoolLinked(E, Q)
  <1>1. PICK e, x : e = At(D, l) /\ x = Updated(e, c, z)
    OBVIOUS
  <1>2. l \in Places /\ e.name # NoName /\ ~ e.dir /\ OpenAt(D, P[n])
    BY <1>1 DEF PoolLinked, OpenAt
  <1>3. x.name = e.name /\ x.dir = e.dir /\ x.start = c /\ x.size = z
    BY <1>1 DEF Updated
  <1>4. At(E, l) = x /\ \A m \in Places : m # l => At(E, m) = At(D, m)
    BY <1>1 DEF CellIs
  <1>5. ASSUME NEW m \in Places PROVE EntryLinked(A, F, At(E, m))
    <2>1. CASE m = l
      BY <1>2, <1>3, <1>4, <2>1 DEF EntryLinked, MayStart
    <2>2. CASE m # l
      BY <1>4, <2>2 DEF DirsLinked
    <2> QED BY <2>1, <2>2
  <1>6. OneStart(E)
    <2> SUFFICES ASSUME NEW m \in Places, NEW k \in Places, At(E, m).start \in Clusters,
                        At(E, m).start = At(E, k).start
                 PROVE  m = k
      BY DEF OneStart
    <2>1. CASE m # l /\ k # l
      BY <1>4, <2>1 DEF DirsLinked, OneStart
    <2>2. CASE m = l /\ k # l
      BY <1>3, <1>4, <2>2 DEF MayStart
    <2>3. CASE m # l /\ k = l
      BY <1>3, <1>4, <2>3 DEF MayStart
    <2> QED BY <2>1, <2>2, <2>3
  <1>7. ASSUME NEW m \in Places, ~ Holds(A, F, m[1]) PROVE At(E, m) = NoEntry
    <2>1. At(D, m) = NoEntry
      BY <1>7 DEF DirsLinked
    <2>2. m # l
      BY <1>1, <1>2, <2>1, NoEntryFacts
    <2> QED BY <1>4, <2>1, <2>2
  <1>8. DirsLinked(A, E, F)
    BY <1>5, <1>6, <1>7 DEF DirsLinked
  <1>9. ASSUME NEW m \in Inodes, m # n, P[m].ref > 0 PROVE OpenAt(E, P[m])
    <2>1. OpenAt(D, P[m]) /\ P[m].loc # l
      BY <1>9 DEF PoolLinked
    <2> QED BY <1>4, <2>1 DEF OpenAt
  <1>10. PICK y : y = Q[n]
    OBVIOUS
  <1>11. y.start = c /\ y.size = z /\ y.dir = P[n].dir /\ y.loc = l /\ y.ref = P[n].ref
    BY <1>10
  <1>12. OpenAt(E, y)
    <2>1. e.dir = P[n].dir
      BY <1>1, <1>2 DEF OpenAt
    <2> QED BY <1>2, <1>3, <1>4, <1>11, <2>1 DEF OpenAt
  <1>13. \A m \in Inodes : Q[m].ref > 0 => OpenAt(E, Q[m])
    BY <1>9, <1>10, <1>12
  <1>14. \A m \in Inodes : Q[m].ref = P[m].ref /\ Q[m].loc = P[m].loc
    BY <1>10, <1>11
  <1>15. PoolLinked(E, Q)
    BY <1>13, <1>14 DEF PoolLinked
  <1> QED BY <1>8, <1>15

LEMMA FirstOfFile ==
  ASSUME EndIsNoCluster, NEW s, Typed(s), NEW F, Linked(s, F),
         NEW n \in Inodes, s.inode[n].ref > 0, ~ AppendFails(s, n),
         NEW A, NEW c,
         A = IF s.inode[n].start # NoCluster THEN s.fat
             ELSE [s.fat EXCEPT ![AllocateCluster(s)] = EndOfChain],
         c = IF s.inode[n].start # NoCluster THEN s.inode[n].start ELSE AllocateCluster(s)
  PROVE  /\ FatLinked(A, F \cup {c}) /\ DirsLinked(A, s.dirs, F \cup {c})
         /\ MayStart(A, s.dirs, F \cup {c}, s.inode[n].loc, c)
         /\ s.inode[n].start = NoCluster => Empties(s.dirs, {c})
  <1>1. PICK D, nd, l : D = s.dirs /\ nd = s.inode[n] /\ l = nd.loc
    OBVIOUS
  <1>2. FatLinked(s.fat, F) /\ DirsLinked(s.fat, D, F) /\ OpenAt(D, nd) /\ ~ nd.dir
    BY <1>1 DEF Linked, PoolLinked, AppendFails
  <1>3. l \in Places /\ At(D, l).start = nd.start /\ ~ At(D, l).dir
    BY <1>1, <1>2 DEF OpenAt
  <1>4. nd.start \in Clusters \cup {NoCluster}
    BY <1>1 DEF Typed, FieldsTyped
  <1>5. CASE nd.start \in Clusters
    <2>1. A = s.fat /\ c = nd.start
      BY <1>1, <1>5, RootNoCluster
    <2>2. EntryLinked(s.fat, F, At(D, l))
      BY <1>2, <1>3 DEF DirsLinked
    <2>3. IsHead(A, c) /\ c \in F
      BY <1>3, <1>5, <2>1, <2>2 DEF EntryLinked
    <2>4. F \cup {c} = F
      BY <2>3
    <2>5. \A m \in Places : At(D, m).start = c => m = l
      BY <1>2, <1>3, <1>5, <2>1 DEF DirsLinked, OneStart
    <2>6. MayStart(A, D, F, l, c)
      BY <1>5, <2>1, <2>3, <2>5 DEF MayStart
    <2>7. nd.start # NoCluster
      BY <1>5, RootNoCluster
    <2> QED BY <1>1, <1>2, <2>1, <2>4, <2>6, <2>7
  <1>6. CASE nd.start = NoCluster
    <2>1. A = [s.fat EXCEPT ![c] = EndOfChain] /\ c = AllocateCluster(s)
      BY <1>1, <1>6
    <2>2. FreeClusters(s) # {}
      BY <1>1, <1>6 DEF AppendFails
    <2>3. c \in Clusters /\ s.fat[c] = FreeMark
      BY <2>1, <2>2, FreeIsFree
    <2>4. FirstString(s.fat, A, c)
      BY <2>1, <2>3 DEF Typed, FatTyped, FirstString
    <2> QED BY <1>1, <1>2, <2>3, <2>4, FirstLinked
  <1> QED BY <1>4, <1>5, <1>6

LEMMA AppendLinked ==
  ASSUME EndIsNoCluster, NEW s, IsVolume(s), IsPool(s.inode), Typed(s),
         NEW F, Linked(s, F), NEW n \in Inodes, s.inode[n].ref > 0,
         NEW k \in Nat \ {0}, s.inode[n].size + k <= MaxSize, ~ AppendFails(s, n)
  PROVE  /\ ~ EntryLost(AppendData(s, n, k), n)
         /\ Links(UpdateEntry(AppendData(s, n, k), n))
  <1>1. PICK u, v : u = AppendData(s, n, k) /\ v = UpdateEntry(u, n)
    OBVIOUS
  <1>2. IsVolume(u) /\ Typed(u)
    BY <1>1, AppendGrows
  <1>3. PICK A, c, new, t, z : Appended(s, n, u, A, c, new, t, z)
    BY <1>1, AppendGrows
  <1>4. PICK D, P, nd, l : D = s.dirs /\ P = s.inode /\ nd = P[n] /\ l = nd.loc
    OBVIOUS
  <1>5. PICK B, E, Q, y :
          /\ B = u.fat /\ E = u.dirs /\ Q = u.inode
          /\ y = [start |-> c, size |-> z, dir |-> nd.dir, loc |-> l, ref |-> nd.ref]
    OBVIOUS
  <1>6. PICK s1 : s1 = [s EXCEPT !.fat = A]
    OBVIOUS
  <1>7. /\ A = IF nd.start # NoCluster THEN s.fat
               ELSE [s.fat EXCEPT ![AllocateCluster(s)] = EndOfChain]
        /\ c = IF nd.start # NoCluster THEN nd.start ELSE AllocateCluster(s)
        /\ new \subseteq FreeClusters(s1) /\ t = Last(Chain(s1, c))
        /\ B = AppendFat(A, new, t) /\ E = AppendDirs(D, nd, new, c)
        /\ InodeIs(s, u, n, y)
    BY <1>3, <1>4, <1>5, <1>6, Zenon DEF Appended
  <1>8. s1.fat = A
    BY <1>6 DEF IsVolume
  <1>9. PICK G : G = F \cup {c}
    OBVIOUS
  <1>10. /\ FatLinked(A, G) /\ DirsLinked(A, D, G) /\ MayStart(A, D, G, l, c)
         /\ nd.start = NoCluster => Empties(D, {c})
    BY <1>4, <1>7, <1>9, FirstOfFile
  <1>11. c \in Clusters /\ A[c] # FreeMark /\ c \in G
    BY <1>10 DEF MayStart, IsHead
  <1>12. t \in G
    <2>0. FatLinked(s1.fat, G) /\ c \in Clusters /\ s1.fat[c] # FreeMark
      BY <1>8, <1>10, <1>11
    <2>2. /\ ChainSet(s1.fat, G, c, Range(Chain(s1, c)))
          /\ Last(Chain(s1, c)) \in Range(Chain(s1, c))
      BY <2>0, ChainRange
    <2>3. t = Last(Chain(s1, c))
      BY <1>7
    <2>1. ChainSet(A, G, c, Range(Chain(s1, c))) /\ t \in Range(Chain(s1, c))
      BY <1>8, <2>2, <2>3
    <2> QED BY <1>11, <2>1 DEF ChainSet
  <1>13. new \subseteq Clusters /\ \A a \in new : A[a] = FreeMark
    BY <1>7, <1>8 DEF FreeClusters
  <1>14. Strung(A, B, G, new, t)
    BY <1>7, <1>10, <1>12, <1>13, AppendStrings
  <1>15. PICK H : H = G \cup new
    OBVIOUS
  <1>16. /\ FatLinked(B, H) /\ DirsLinked(B, D, H) /\ MayStart(B, D, H, l, c)
         /\ Empties(D, new)
    BY <1>10, <1>14, <1>15, StrungFat, StrungDirs, StrungMayStart, StrungEmpty
  <1>17. SameEntries(D, E)
    <2>1. PICK S : S = {a \in Clusters : a \in new \/ (nd.start = NoCluster /\ a = c)}
      OBVIOUS
    <2>2. Empties(D, S)
      BY <1>10, <1>16, <2>1 DEF Empties
    <2>3. DOMAIN D = Blocks
      BY <1>4 DEF Typed, DirsTyped
    <2>4. \A d \in Blocks : E[d] = IF d \in new \/ (nd.start = NoCluster /\ d = c)
                                   THEN Blank(EntriesPerCluster) ELSE D[d]
      BY <1>7, <2>3 DEF AppendDirs
    <2>5. \A d \in Blocks : d \in S <=> d \in new \/ (nd.start = NoCluster /\ d = c)
      BY <1>11, <1>13, <2>1
    <2>6. Cleared(D, E, S)
      BY <2>4, <2>5 DEF Cleared
    <2> QED BY <2>1, <2>2, <2>6, ClearedSame
  <1>18. PoolLinked(D, P) /\ nd.ref > 0 /\ ~ nd.dir
    BY <1>4 DEF Linked, AppendFails
  <1>19. /\ DirsLinked(B, E, H) /\ PoolLinked(E, P) /\ MayStart(B, E, H, l, c)
    <2>1. MayStart(B, E, H, l, c)
      BY <1>16, <1>17 DEF MayStart, SameEntries
    <2> QED BY <1>16, <1>17, <1>18, <2>1, DirsSame, PoolSame
  <1>20. OpenAt(E, nd) /\ l \in Places
    BY <1>4, <1>18, <1>19 DEF PoolLinked, OpenAt
  <1>21. /\ Q[n] = y /\ \A m \in Inodes : m # n => Q[m] = P[m]
    BY <1>4, <1>5, <1>7 DEF InodeIs
  <1>22. y.loc = l /\ y.start = c /\ y.size = z
    BY <1>5
  <1>23. ~ EntryLost(u, n)
    <2>1. EntryAt(u, u.inode[n].loc) = At(E, l)
      BY <1>5, <1>21, <1>22 DEF EntryAt, At
    <2>2. At(E, l) # NoEntry
      BY <1>4, <1>20, NoEntryFacts DEF OpenAt
    <2> QED BY <2>1, <2>2 DEF EntryLost
  <1>24. /\ v.fat = B /\ v.inode = Q
         /\ CellIs(E, v.dirs, l, Updated(At(E, l), c, z))
    <2>1. l = u.inode[n].loc /\ u.inode[n].start = c /\ u.inode[n].size = z
      BY <1>5, <1>21, <1>22
    <2> QED BY <1>1, <1>2, <1>5, <1>20, <2>1, UpdateIs
  <1>25. DirsLinked(B, v.dirs, H) /\ PoolLinked(v.dirs, Q)
    <2>1. P[n].ref > 0 /\ ~ P[n].dir /\ l = P[n].loc
      BY <1>4, <1>18
    <2>2. Q[n] = [start |-> c, size |-> z, dir |-> P[n].dir, loc |-> l, ref |-> P[n].ref]
      BY <1>4, <1>5, <1>21
    <2> QED BY <1>16, <1>19, <1>21, <1>24, <2>1, <2>2, UpdateLinked
  <1>26. Linked(v, H)
    BY <1>16, <1>24, <1>25 DEF Linked
  <1> QED BY <1>1, <1>23, <1>26 DEF Links

(***************************************************************************)
(* The last step of a walk: it finds a directory if the entry says so.     *)
(***************************************************************************)
LEMMA LastStepDir ==
  ASSUME NEW r \in Counts, NEW w, IsWalk(w, r), ~ w.lost, Typed(w.fs),
         NEW F, Linked(w.fs, F), NEW name \in Names,
         NEW d, d = DirCluster(w.fs, w.node), NEW v, v = WalkStep(w, name)
  PROVE  /\ v.lost <=> Lookup(w.fs, d, name).node = NullInode
         /\ ~ v.lost => v.fs.inode[v.node].dir = EntryAt(w.fs, Target(w.fs, d, name)).dir
  <1>1. PICK n, s, l, u, e : /\ n = w.node /\ s = w.fs /\ l = Lookup(s, d, name)
                             /\ u = ReleaseInode(l.fs, n)
                             /\ e = EntryAt(s, Target(s, d, name))
    OBVIOUS
  <1>2. v = [fs |-> u, node |-> l.node, lost |-> l.node = NullInode]
    BY <1>1 DEF WalkStep, StepInto
  <1>3. v.fs = u /\ v.node = l.node /\ v.lost = (l.node = NullInode)
    BY <1>2
  <1>4. PICK q : q = More(r, n)
    OBVIOUS
  <1>5. n \in Pointers /\ HasRefs(s, q)
    BY <1>1, <1>4 DEF IsWalk, Takes
  <1>6. d \in FirstClusters
    BY <1>1, <1>5, DirClusterFirst
  <1>7. LookedUp(s, F, e, l)
    BY <1>1, <1>5, <1>6, LookupGives
  <1>8. l.node \in Pointers /\ HasRefs(l.fs, More(q, l.node))
    BY <1>1, <1>5, LookupTakes DEF Takes
  <1>9. IsVolume(l.fs) /\ IsPool(l.fs.inode)
    BY <1>8 DEF HasRefs
  <1>10. ASSUME l.node # NullInode PROVE u.inode[l.node].dir = e.dir
    <2>1. l.node \in Inodes /\ l.fs.inode[l.node].dir = e.dir
      BY <1>7, <1>8, <1>10 DEF LookedUp, Pointers
    <2>2. CASE n = NullInode
      BY <1>1, <2>1, <2>2 DEF ReleaseInode
    <2>3. CASE n # NullInode
      <3>1. n \in Inodes
        BY <1>5, <2>3 DEF Pointers
      <3>2. PICK c, x : c = l.fs.inode[n] /\ x = Released(c)
        OBVIOUS
      <3>3. IsInode(c) /\ IsInode(x)
        <4>1. IsInode(c)
          BY <1>9, <3>1, <3>2 DEF IsPool
        <4>2. CASE c.ref > 1
          <5>1. x = [start |-> c.start, size |-> c.size, dir |-> c.dir,
                     loc |-> c.loc, ref |-> c.ref - 1] /\ c.ref \in Nat
            BY <3>2, <4>1, <4>2 DEF Released, IsInode
          <5>2. x.ref = c.ref - 1 /\ x.ref \in Nat
            BY <4>2, <5>1
          <5> QED BY <4>1, <5>1, <5>2 DEF IsInode
        <4>3. CASE ~ (c.ref > 1)
          BY <3>2, <4>1, <4>3, PointerFacts DEF Released
        <4> QED BY <4>1, <4>2, <4>3
      <3>4. InodeIs(l.fs, u, n, x)
        <4>1. u = SetInode(l.fs, n, x)
          BY <1>1, <1>9, <3>1, <3>2, ReleaseIs
        <4>2. u = [l.fs EXCEPT !.inode = [l.fs.inode EXCEPT ![n] = x]]
          BY <4>1 DEF SetInode
        <4>3. PICK s1 : s1 = l.fs
          OBVIOUS
        <4>4. InodeIs(s1, [s1 EXCEPT !.inode = [s1.inode EXCEPT ![n] = x]], n, x)
          BY <1>9, <3>1, <3>3, <4>3, InodeSet
        <4> QED BY <4>2, <4>3, <4>4, Zenon
      <3>5. CASE l.node # n
        BY <2>1, <3>4, <3>5 DEF InodeIs
      <3>6. CASE l.node = n
        <4>1. q[n] = r[n] + 1 /\ More(q, n)[n] = q[n] + 1 /\ r[n] \in Nat
          BY <1>4, <3>1 DEF More, Counts
        <4>2. c.ref = More(q, n)[n]
          BY <1>8, <3>1, <3>2, <3>6 DEF HasRefs
        <4>3. c.ref > 1
          BY <4>1, <4>2
        <4>4. x.dir = c.dir
          BY <3>2, <4>3 DEF Released
        <4>5. u.inode[n] = x
          BY <3>4 DEF InodeIs
        <4> QED BY <2>1, <3>2, <3>6, <4>4, <4>5
      <3> QED BY <3>5, <3>6
    <2> QED BY <2>2, <2>3
  <1> QED BY <1>1, <1>3, <1>10

(***************************************************************************)
(* A walk is a walk to the parent and a last step.                         *)
(***************************************************************************)
LEMMA FrontIs ==
  ASSUME NEW path \in Seq(Names), NEW N \in Nat, Len(path) = N + 1
  PROVE  /\ Front(path) \in Seq(Names) /\ Len(Front(path)) = N
         /\ \A k \in 1 .. N : Front(path)[k] = path[k]
  <1>1. PICK q : q = SubSeq(path, 1, N)
    OBVIOUS
  <1>2. Front(path) = q
    BY <1>1 DEF Front
  <1>3. \A i \in 1 .. N : path[i] \in Names
    BY ElementOfSeq
  <1>4. /\ q \in Seq(Names) /\ Len(q) = IF 1 <= N THEN N - 1 + 1 ELSE 0
        /\ \A i \in 1 .. N - 1 + 1 : q[i] = path[1 + i - 1]
    BY <1>1, <1>3, SubSeqProperties
  <1>5. Len(q) = N
    BY <1>4
  <1>6. \A i \in 1 .. N : i \in 1 .. N - 1 + 1 /\ 1 + i - 1 = i
    OBVIOUS
  <1>7. \A i \in 1 .. N : q[i] = path[i]
    BY <1>4, <1>6
  <1> QED BY <1>2, <1>4, <1>5, <1>7

LEMMA WalkLast ==
  ASSUME NEW s, NEW path \in Seq(Names), NEW N \in Nat, Len(path) = N + 1
  PROVE  /\ Walk(s, path) = WalkStep(Walk(s, Front(path)), Last(path))
         /\ N = 0 => Walk(s, Front(path)) = Start(s)
  <1>1. PICK q, M : q = Front(path) /\ M = N + 1
    OBVIOUS
  <1>2. Len(q) = N /\ \A k \in 1 .. N : q[k] = path[k]
    BY <1>1, FrontIs
  <1>3. PICK x : IsReach(x, s, path, M) /\ Walk(s, path) = x[M]
    BY <1>1, WalkIsReach
  <1>4. PICK y : IsReach(y, s, q, N) /\ Walk(s, q) = y[N]
    BY <1>2, WalkIsReach
  <1>5. /\ x[0] = Start(s) /\ \A k \in 1 .. M : x[k] = WalkStep(x[k - 1], path[k])
        /\ y[0] = Start(s) /\ \A k \in 1 .. N : y[k] = WalkStep(y[k - 1], q[k])
    BY <1>1, <1>3, <1>4 DEF IsReach
  <1>6. PICK S : S = {k \in 0 .. N : x[k] = y[k]}
    OBVIOUS
  <1>7. 0 \in S
    BY <1>5, <1>6
  <1>8. ASSUME NEW k \in 0 .. N - 1, k \in S PROVE k + 1 \in S
    <2>1. PICK l \in 1 .. N : l = k + 1
      OBVIOUS
    <2>2. l \in 1 .. M /\ l - 1 = k /\ l \in 0 .. N
      BY <1>1, <2>1
    <2>3. x[l] = WalkStep(x[k], path[l]) /\ y[l] = WalkStep(y[k], q[l])
      BY <1>5, <2>1, <2>2
    <2>4. x[k] = y[k] /\ q[l] = path[l]
      BY <1>2, <1>6, <1>8, <2>1
    <2> QED BY <1>6, <2>1, <2>2, <2>3, <2>4
  <1>9. \A k \in 0 .. N : k \in S
    BY <1>7, <1>8, UpInduction
  <1>10. x[N] = y[N]
    BY <1>6, <1>9
  <1>11. x[M] = WalkStep(x[N], path[M])
    <2>1. M \in 1 .. M /\ M - 1 = N
      BY <1>1
    <2> QED BY <1>5, <2>1
  <1>12. Last(path) = path[M]
    BY <1>1 DEF Last
  <1> QED BY <1>1, <1>3, <1>4, <1>5, <1>10, <1>11, <1>12

(***************************************************************************)
(* What lookup() answers depends on what is in use only.                   *)
(***************************************************************************)
Answer(shared, free) ==
  IF shared # {} THEN Min(shared) ELSE IF free = {} THEN NullInode ELSE Min(free)

LEMMA LookupAnswers ==
  ASSUME NEW s, NEW d, NEW name, Named(s, d, name) # {}, NEW l, l = Target(s, d, name)
  PROVE  Lookup(s, d, name).node = Answer(InodesFor(s, EntryAt(s, l), l), FreeInodes(s))
  <1>1. PICK shared, free, e : /\ e = EntryAt(s, l)
                               /\ shared = InodesFor(s, e, l) /\ free = FreeInodes(s)
    OBVIOUS
  <1>2. Lookup(s, d, name) = LookupEntry(s, e, l, shared)
    BY <1>1 DEF Lookup, LookupAmong, LookupAt, Target
  <1>3. LookupEntry(s, e, l, shared).node = Answer(shared, free)
    <2>1. CASE shared # {}
      BY <2>1 DEF LookupEntry, ShareInode, Answer
    <2>2. CASE shared = {} /\ free = {}
      BY <1>1, <2>2 DEF LookupEntry, NotFound, Answer
    <2>3. CASE shared = {} /\ free # {}
      BY <1>1, <2>3 DEF LookupEntry, LoadInode, Answer
    <2> QED BY <2>1, <2>2, <2>3
  <1> QED BY <1>1, <1>2, <1>3

LEMMA SameNamed ==
  ASSUME NEW s, NEW u, SameLive(s, u), NEW d, NEW name
  PROVE  /\ Named(u, d, name) = Named(s, d, name)
         /\ Target(u, d, name) = Target(s, d, name)
         /\ \A l : EntryAt(u, l) = EntryAt(s, l)
  <1>1. u.fat = s.fat /\ u.dirs = s.dirs
    BY DEF SameLive, SameDisk
  <1>2. Chain(u, d) = Chain(s, d)
    <2>1. CASE d = NoCluster
      BY <2>1 DEF Chain
    <2>2. CASE d # NoCluster
      BY <1>1, <2>2, SameFatChain
    <2> QED BY <2>1, <2>2
  <1>3. Locations(u, d) = Locations(s, d)
    BY <1>2 DEF Locations
  <1>4. \A l : EntryAt(u, l) = EntryAt(s, l)
    BY <1>1 DEF EntryAt
  <1>5. Named(u, d, name) = Named(s, d, name)
    BY <1>3, <1>4 DEF Named
  <1> QED BY <1>4, <1>5 DEF Target

LEMMA SameLookup ==
  ASSUME NEW s, NEW u, SameLive(s, u), IsPool(s.inode), IsPool(u.inode), NEW d, NEW name
  PROVE  Lookup(u, d, name).node = Lookup(s, d, name).node
  <1>1. PICK found, l, e : /\ found = Named(s, d, name) /\ l = Target(s, d, name)
                           /\ e = EntryAt(s, l)
    OBVIOUS
  <1>2. found = Named(u, d, name) /\ l = Target(u, d, name) /\ e = EntryAt(u, l)
    BY <1>1, SameNamed
  <1>3. CASE found = {}
    BY <1>1, <1>2, <1>3 DEF Lookup, LookupAmong, NotFound
  <1>4. CASE found # {}
    <2>1. InodesFor(u, e, l) = InodesFor(s, e, l)
      <3>1. ASSUME NEW n \in Inodes
            PROVE  (/\ u.inode[n].ref > 0 /\ u.inode[n].start = e.start
                    /\ e.start = NoCluster => u.inode[n].loc = l)
                   <=> (/\ s.inode[n].ref > 0 /\ s.inode[n].start = e.start
                        /\ e.start = NoCluster => s.inode[n].loc = l)
        BY DEF SameLive
      <3> QED BY <3>1 DEF InodesFor
    <2>2. FreeInodes(u) = FreeInodes(s)
      <3>1. ASSUME NEW n \in Inodes PROVE u.inode[n].ref = 0 <=> s.inode[n].ref = 0
        <4>1. u.inode[n].ref \in Nat /\ s.inode[n].ref \in Nat
          BY DEF IsPool, IsInode
        <4>2. u.inode[n].ref > 0 <=> s.inode[n].ref > 0
          BY DEF SameLive
        <4> QED BY <4>1, <4>2
      <3> QED BY <3>1 DEF FreeInodes
    <2>3. Lookup(u, d, name).node = Answer(InodesFor(u, e, l), FreeInodes(u))
      BY <1>2, <1>4, LookupAnswers
    <2>4. Lookup(s, d, name).node = Answer(InodesFor(s, e, l), FreeInodes(s))
      BY <1>1, <1>4, LookupAnswers
    <2> QED BY <2>1, <2>2, <2>3, <2>4
  <1> QED BY <1>3, <1>4

(***************************************************************************)
(* An operation on a parent.                                               *)
(***************************************************************************)
LEMMA DirInUse ==
  ASSUME NEW s, Typed(s), NEW F, Linked(s, F), NEW n \in Inodes, s.inode[n].ref > 0,
         s.inode[n].dir
  PROVE  IsDirAt(s, F, DirCluster(s, n))
  <1>1. PICK nd, l : nd = s.inode[n] /\ l = nd.loc
    OBVIOUS
  <1>2. OpenAt(s.dirs, nd)
    BY <1>1 DEF Linked, PoolLinked
  <1>3. PICK e : e = At(s.dirs, l)
    OBVIOUS
  <1>4. l \in Places /\ e.dir /\ e.start = nd.start
    BY <1>1, <1>2, <1>3 DEF OpenAt
  <1>5. EntryLinked(s.fat, F, e)
    BY <1>3, <1>4 DEF Linked, DirsLinked
  <1>6. DirCluster(s, n) = nd.start
    BY <1>1, PointerFacts DEF DirCluster
  <1> QED BY <1>4, <1>5, <1>6 DEF EntryLinked, IsHead, IsDirAt

LEMMA FsCallTablesLinked ==
  ASSUME EndIsNoCluster, NEW t, ExactTables(t), Typed(t.fs), NEW F, Linked(t.fs, F),
         NEW d, IsDirAt(t.fs, F, d), NEW name \in Names, NEW call \in Calls,
         call = "remove" => NotDirAt(t.fs, d, name)
  PROVE  Links([t EXCEPT !.fs = FsCall(call, t.fs, d, name)].fs)
  <1>1. PICK s : s = FsCall(call, t.fs, d, name)
    OBVIOUS
  <1>2. HasRefs(t.fs, Refs(t.openfile))
    BY DEF ExactTables, Exact
  <1>3. Links(s)
    BY <1>1, <1>2, FsCallLinked
  <1>4. [t EXCEPT !.fs = s].fs = s
    BY DEF ExactTables, IsTables
  <1> QED BY <1>1, <1>3, <1>4

NoDirAt(s, path) == LET w == Walk(s, path) IN ~ (~ w.lost /\ w.fs.inode[w.node].dir)

LEMMA RootCallLinked ==
  ASSUME EndIsNoCluster, NEW t, ExactTables(t), Typed(t.fs), NEW F, Linked(t.fs, F),
         NEW path \in Seq(Names), Len(path) = 1, NEW call \in Calls,
         call = "remove" => NoDirAt(t.fs, path)
  PROVE  Links([t EXCEPT !.fs = FsCall(call, t.fs, Root, Last(path))].fs)
  <1>1. PICK s, name, w, r : /\ s = t.fs /\ name = Last(path) /\ w = Start(s)
                             /\ r = Refs(t.openfile)
    OBVIOUS
  <1>2. name \in Names
    <2>1. name = path[1] /\ 1 \in 1 .. Len(path)
      BY <1>1 DEF Last
    <2>2. path[1] \in Names
      BY <2>1, ElementOfSeq
    <2> QED BY <2>1, <2>2
  <1>3. IsDirAt(s, F, Root)
    BY DEF IsDirAt
  <1>4. HasRefs(s, r) /\ r \in Counts
    BY <1>1 DEF ExactTables, Exact, HasRefs
  <1>5. IsWalk(w, r) /\ ~ w.lost /\ w.fs = s /\ DirCluster(w.fs, w.node) = Root
    BY <1>1, <1>4, MoreFacts DEF Start, IsWalk, Takes, Pointers, DirCluster
  <1>6. Walk(s, path) = WalkStep(w, name)
    <2>1. 0 \in Nat /\ Len(path) = 0 + 1
      OBVIOUS
    <2>2. Walk(s, path) = WalkStep(Walk(s, Front(path)), Last(path))
          /\ Walk(s, Front(path)) = Start(s)
      BY <2>1, WalkLast
    <2> QED BY <1>1, <2>2
  <1>7. PICK v : v = WalkStep(w, name)
    OBVIOUS
  <1>8. /\ v.lost <=> Lookup(s, Root, name).node = NullInode
        /\ ~ v.lost => v.fs.inode[v.node].dir = EntryAt(s, Target(s, Root, name)).dir
    <2>1. Typed(w.fs) /\ Linked(w.fs, F)
      BY <1>1, <1>5
    <2> QED BY <1>2, <1>4, <1>5, <1>7, <2>1, LastStepDir
  <1>9. call = "remove" => NotDirAt(s, Root, name)
    BY <1>1, <1>6, <1>7, <1>8 DEF NoDirAt, NotDirAt
  <1> QED BY <1>1, <1>2, <1>3, <1>9, FsCallTablesLinked

LEMMA AtParentLinked ==
  ASSUME EndIsNoCluster, NEW t, ExactTables(t), Typed(t.fs), NEW F, Linked(t.fs, F),
         NEW path \in Seq(Names), NEW N \in Nat \ {0}, Len(path) = N + 1,
         NEW call \in Calls, call = "remove" => NoDirAt(t.fs, path)
  PROVE  Links(AtParent(call, LookupPath(t, Front(path)), Last(path)).fs)
  <1>1. PICK s, q, name, w, l, r :
          /\ s = t.fs /\ q = Front(path) /\ name = Last(path) /\ w = Walk(s, q)
          /\ l = LookupPath(t, q) /\ r = Refs(t.openfile)
    OBVIOUS
  <1>2. q \in Seq(Names) /\ Len(q) = N /\ q # <<>>
    BY <1>1, FrontIs
  <1>3. name \in Names
    <2>1. name = path[N + 1]
      BY <1>1 DEF Last
    <2> QED BY <2>1, ElementOfSeq
  <1>4. HasRefs(s, r) /\ r \in Counts
    BY <1>1 DEF ExactTables, Exact, HasRefs
  <1>5. /\ Kept(s, F, l.t.fs)
        /\ l.file # NoFile => /\ ~ w.lost /\ l.t.openfile[l.file].node = w.node
                              /\ SameLive(w.fs, l.t.fs)
                              /\ w.node \in Inodes
    BY <1>1, <1>2, LookupPathLinked
  <1>6. ExactTables(l.t) /\ l.file \in Files \cup {NoFile} /\ Typed(l.t.fs)
    <2>1. Len(q) \in Nat \ {0}
      BY <1>2
    <2>2. \A z : Sized(s, {}, z)
      BY <1>1, SizedNone
    <2>3. \A z : Sized(l.t.fs, {}, z)
      BY <1>1, <2>1, <2>2, LookupPathSized
    <2> QED BY <1>1, <2>1, <2>3, LookupPathExact DEF Sized
  <1>7. PICK u : u = l.t.fs
    OBVIOUS
  <1>8. Linked(u, F) /\ Typed(u)
    BY <1>5, <1>6, <1>7 DEF Kept
  <1>9. CASE l.file = NoFile
    <2>1. AtParent(call, l, name) = l.t
      BY <1>9 DEF AtParent
    <2> QED BY <1>1, <1>7, <1>8, <2>1 DEF Links
  <1>10. CASE l.file # NoFile
    <2>1. PICK n, d, x : /\ n = w.node /\ d = DirCluster(u, n)
                         /\ x = [l.t EXCEPT !.fs = FsCall(call, u, d, name)]
      OBVIOUS
    <2>2. /\ n \in Inodes /\ ~ w.lost /\ l.t.openfile[l.file].node = n
          /\ SameLive(w.fs, u)
      BY <1>5, <1>7, <1>10, <2>1
    <2>3. AtParent(call, l, name) = ReleaseLookup(IF u.inode[n].dir THEN x ELSE l.t, l.file)
      BY <1>7, <1>10, <2>1, <2>2 DEF AtParent
    <2>4. ASSUME NEW y, ExactTables(y), Links(y.fs) PROVE Links(ReleaseLookup(y, l.file).fs)
      <3>1. PICK H : Linked(y.fs, H)
        BY <2>4 DEF Links
      <3>2. Kept(y.fs, H, ReleaseLookup(y, l.file).fs)
        BY <1>6, <2>4, <3>1, ReleaseLookupLinked
      <3> QED BY <3>2, KeptLinks
    <2>5. Links(l.t.fs)
      BY <1>7, <1>8 DEF Links
    <2>6. CASE ~ u.inode[n].dir
      BY <1>1, <1>6, <2>3, <2>4, <2>5, <2>6
    <2>7. CASE u.inode[n].dir
      <3>1. IsPool(u.inode) /\ HasRefs(u, Refs(l.t.openfile))
        BY <1>6, <1>7 DEF ExactTables, Exact, HasRefs
      <3>2. IsWalk(w, r) /\ IsPool(w.fs.inode) /\ HasRefs(w.fs, More(r, n))
        <4>1. IsWalk(w, r)
          BY <1>1, <1>2, <1>4, WalkTakes
        <4> QED BY <2>1, <4>1 DEF IsWalk, Takes, HasRefs
      <3>3. u.inode[n].ref > 0
        <4>1. u.inode[n].ref = Refs(l.t.openfile)[n]
          BY <2>2, <3>1 DEF HasRefs
        <4>2. Uses(l.t.openfile, n)
          BY <1>6, <1>10, <2>2 DEF Uses
        <4> QED BY <2>2, <4>1, <4>2, RefsFacts
      <3>4. IsDirAt(u, F, d)
        BY <1>8, <2>1, <2>2, <2>7, <3>3, DirInUse
      <3>5. d = DirCluster(w.fs, n)
        BY <2>1, <2>2, <3>3, PointerFacts DEF DirCluster, SameLive
      <3>6. Kept(s, F, w.fs) /\ Typed(w.fs) /\ Linked(w.fs, F)
        BY <1>1, <1>2, <1>4, WalkLinked DEF Kept
      <3>7. PICK v : v = WalkStep(w, name)
        OBVIOUS
      <3>8. Walk(s, path) = v
        BY <1>1, <3>7, WalkLast
      <3>9. /\ v.lost <=> Lookup(w.fs, d, name).node = NullInode
            /\ ~ v.lost => v.fs.inode[v.node].dir = EntryAt(w.fs, Target(w.fs, d, name)).dir
        <4>1. d = DirCluster(w.fs, w.node)
          BY <2>1, <3>5
        <4> QED BY <1>3, <1>4, <2>2, <3>2, <3>6, <3>7, <4>1, LastStepDir
      <3>10. /\ Lookup(u, d, name).node = Lookup(w.fs, d, name).node
             /\ EntryAt(u, Target(u, d, name)) = EntryAt(w.fs, Target(w.fs, d, name))
        BY <2>2, <3>1, <3>2, SameLookup, SameNamed
      <3>11. call = "remove" => NotDirAt(u, d, name)
        BY <1>1, <3>8, <3>9, <3>10 DEF NoDirAt, NotDirAt
      <3>12. ExactTables(x) /\ Links(x.fs)
        BY <1>3, <1>6, <1>7, <1>8, <2>1, <3>4, <3>11, FsCallExact, FsCallTablesLinked
      <3> QED BY <1>1, <2>3, <2>4, <2>7, <3>12
    <2> QED BY <2>6, <2>7
  <1> QED BY <1>9, <1>10

LEMMA InParentLinked ==
  ASSUME EndIsNoCluster, InodeInv, Typed(fs), NEW F, Linked(fs, F), NEW path \in Paths,
         NEW call \in Calls, call = "remove" => ~ LeadsToDir(path)
  PROVE  Links(InParent(call, path).fs)
  <1>1. PICK t, name : t = Tables /\ name = Last(path)
    OBVIOUS
  <1>2. ExactTables(t) /\ t.fs = fs
    BY <1>1, TablesExact DEF Tables
  <1>3. path \in Seq(Names) /\ Len(path) \in Nat \ {0}
    BY PathFacts
  <1>4. call = "remove" => NoDirAt(t.fs, path)
    BY <1>2 DEF LeadsToDir, NoDirAt
  <1>5. CASE Len(path) = 1
    <2>1. InParent(call, path) = [t EXCEPT !.fs = FsCall(call, t.fs, Root, name)]
      BY <1>1, <1>5 DEF InParent
    <2> QED BY <1>1, <1>2, <1>3, <1>4, <1>5, <2>1, RootCallLinked
  <1>6. CASE Len(path) # 1
    <2>1. InParent(call, path) = AtParent(call, LookupPath(t, Front(path)), name)
      BY <1>1, <1>6 DEF InParent
    <2>2. PICK N \in Nat \ {0} : Len(path) = N + 1
      <3>1. Len(path) - 1 \in Nat \ {0} /\ Len(path) = (Len(path) - 1) + 1
        BY <1>3, <1>6
      <3> QED BY <3>1
    <2> QED BY <1>1, <1>2, <1>3, <1>4, <2>1, <2>2, AtParentLinked
  <1> QED BY <1>5, <1>6

(***************************************************************************)
(* The actions.                                                            *)
(***************************************************************************)
LEMMA LinkLookup ==
  ASSUME InodeInv, Typed(fs), Links(fs), NEW path \in Paths
  PROVE  LET l == LookupPath(Tables, path)
         IN  Links(l.t.fs) /\ Links(ReleaseLookup(l.t, l.file).fs)
  <1>1. PICK t, l : t = Tables /\ l = LookupPath(t, path)
    OBVIOUS
  <1>2. PICK F : Linked(fs, F)
    BY DEF Links
  <1>3. ExactTables(t) /\ t.fs = fs
    BY <1>1, TablesExact DEF Tables
  <1>4. path \in Seq(Names) /\ path # <<>> /\ Len(path) \in Nat \ {0}
    BY PathFacts
  <1>5. Kept(t.fs, F, l.t.fs)
    BY <1>1, <1>2, <1>3, <1>4, LookupPathLinked
  <1>6. ExactTables(l.t) /\ l.file \in Files \cup {NoFile}
    BY <1>1, <1>3, <1>4, LookupPathExact
  <1>7. Kept(l.t.fs, F, ReleaseLookup(l.t, l.file).fs)
    BY <1>5, <1>6, ReleaseLookupLinked DEF Kept
  <1> QED BY <1>1, <1>5, <1>7, KeptLinks

LEMMA LinkOpen ==
  ASSUME InodeInv, Typed(fs), Links(fs), NEW p \in Procs, NEW path \in Paths,
         Open(p, path) \/ Visit(p, path)
  PROVE  Links(fs')
  <1>1. PICK l : l = LookupPath(Tables, path)
    OBVIOUS
  <1>2. Links(l.t.fs) /\ Links(ReleaseLookup(l.t, l.file).fs)
    BY <1>1, LinkLookup
  <1>3. CASE Become(ReleaseLookup(l.t, l.file))
    BY <1>2, <1>3 DEF Become
  <1>4. CASE Become([l.t EXCEPT !.openfile[l.file].ref = @ + 1])
    <2>1. PICK u : u = [l.t EXCEPT !.openfile[l.file].ref = @ + 1]
      OBVIOUS
    <2>2. ExactTables(l.t)
      BY <1>1, TablesExact, PathFacts, LookupPathExact
    <2>3. u.fs = l.t.fs
      BY <2>1, <2>2 DEF ExactTables, IsTables
    <2> QED BY <1>2, <1>4, <2>1, <2>3 DEF Become
  <1> QED BY <1>1, <1>3, <1>4 DEF Open, Visit

LEMMA LinkClose ==
  ASSUME InodeInv, Typed(fs), Links(fs), NEW p \in Procs, NEW i \in Fds, Close(p, i)
  PROVE  Links(fs')
  <1>1. PICK t, f : t = Tables /\ f = fdTable[p][i].file
    OBVIOUS
  <1>2. ExactTables(t) /\ IsNodes(t.openfile) /\ f \in Files \cup {NoFile}
    BY <1>1, TablesExact DEF InodeInv, CountInv, IsFds
  <1>3. Become(CloseFile(t, f)) /\ t.fs = fs
    BY <1>1 DEF Close, Tables
  <1>4. CASE f = NoFile
    BY <1>3, <1>4 DEF CloseFile, Become
  <1>5. CASE f # NoFile
    <2>1. PICK d, u : /\ d = t.openfile[f].ref - 1
                      /\ u = [t EXCEPT !.openfile[f].ref = d]
      OBVIOUS
    <2>2. ExactTables(u)
      BY <1>2, <1>5, <2>1, RefExact
    <2>3. u.fs = fs
      BY <1>2, <1>3, <2>1 DEF ExactTables, IsTables
    <2>4. CloseFile(t, f) = ReleaseLookup(u, f)
      BY <1>5, <2>1 DEF CloseFile, ReleaseLookup
    <2>5. PICK F : Linked(u.fs, F)
      BY <2>3 DEF Links
    <2>6. Kept(u.fs, F, ReleaseLookup(u, f).fs)
      BY <1>2, <2>2, <2>5, ReleaseLookupLinked
    <2> QED BY <1>3, <2>4, <2>6, KeptLinks DEF Become
  <1> QED BY <1>4, <1>5

LEMMA LinkAtParent ==
  ASSUME EndIsNoCluster, ~ RemoveDirs, InodeInv, Typed(fs), Links(fs),
         NEW p \in Procs, NEW path \in Paths,
         \/ Create(p, path) \/ RemoveFile(p, path)
         \/ Rmdir(p, path) \/ Mkdir(p, path)
  PROVE  Links(fs')
  <1>1. PICK call \in Calls : /\ Become(InParent(call, path))
                              /\ call = "remove" => ~ LeadsToDir(path)
    <2>1. CASE RemoveFile(p, path)
      BY <2>1 DEF RemoveFile, Calls
    <2>2. CASE Create(p, path) \/ Rmdir(p, path) \/ Mkdir(p, path)
      <3>1. PICK call \in Calls \ {"remove"} : Become(InParent(call, path))
        BY <2>2 DEF Create, Rmdir, Mkdir, Calls
      <3> QED BY <3>1
    <2> QED BY <2>1, <2>2
  <1>2. PICK F : Linked(fs, F)
    BY DEF Links
  <1>3. Links(InParent(call, path).fs)
    BY <1>1, <1>2, InParentLinked
  <1> QED BY <1>1, <1>3 DEF Become

LEMMA LinkRelease ==
  ASSUME InodeInv, Links(fs), NEW p \in Procs, Exit(p) \/ ReleasePCB(p)
  PROVE  Links(fs')
  <1>1. PICK t : t = ReleaseProcess(Tables, p)
    OBVIOUS
  <1>2. Become(t)
    BY <1>1 DEF Exit, ReleasePCB
  <1>3. PICK P : ReleasedPool(t, P)
    BY <1>1, ReleaseProcessExact
  <1>4. IsVolume(fs)
    BY DEF InodeInv, Exact, HasRefs
  <1>5. t.fs = [fat |-> fs.fat, dirs |-> fs.dirs, inode |-> P]
    BY <1>3, <1>4 DEF ReleasedPool, IsVolume
  <1>6. t.fs.fat = fs.fat /\ t.fs.dirs = fs.dirs /\ t.fs.inode = P
    BY <1>5
  <1>7. PICK F : Linked(fs, F)
    BY DEF Links
  <1>8. \A n \in Inodes : P[n].ref > 0 => P[n] = fs.inode[n]
    BY <1>3, PointerFacts DEF ReleasedPool
  <1>9. PoolLinked(fs.dirs, P)
    BY <1>7, <1>8 DEF Linked, PoolLinked
  <1>10. Linked(t.fs, F)
    BY <1>6, <1>7, <1>9 DEF Linked
  <1> QED BY <1>2, <1>10 DEF Become, Links

LEMMA LinkAppendTo ==
  ASSUME EndIsNoCluster, FileInv, Links(fs), ~ panicked,
         NEW p \in Procs, NEW i \in Fds, NEW k \in Amounts, AppendTo(p, i, k)
  PROVE  Links(fs') /\ ~ panicked'
  <1>1. PICK n, f, s : n = InodeOf(p, i) /\ f = fdTable[p][i].file /\ s = AppendData(fs, n, k)
    OBVIOUS
  <1>2. /\ fdTable[p][i] # Closed /\ fs.inode[n].size + k <= MaxSize
        /\ ~ AppendFails(fs, n)
        /\ \/ EntryLost(s, n) /\ fs' = fs
           \/ ~ EntryLost(s, n) /\ fs' = UpdateEntry(s, n) /\ panicked' = panicked
    BY <1>1 DEF AppendTo
  <1>3. f \in Files /\ n \in Inodes
    BY <1>1, <1>2, NotClosed, OpenWithin
  <1>4. openfile[f].node = n
    BY <1>1 DEF InodeOf
  <1>5. Uses(openfile, n)
    BY <1>3, <1>4 DEF Uses
  <1>6. Typed(fs) /\ IsVolume(fs) /\ IsPool(fs.inode) /\ fs.inode[n].ref = Refs(openfile)[n]
    BY <1>3 DEF FileInv, InodeInv, Exact, HasRefs
  <1>7. fs.inode[n].ref > 0
    BY <1>3, <1>5, <1>6, RefsFacts
  <1>8. PICK F : Linked(fs, F)
    BY DEF Links
  <1>9. k \in Nat \ {0}
    OBVIOUS
  <1>10. ~ EntryLost(s, n) /\ Links(UpdateEntry(s, n))
    BY <1>1, <1>2, <1>3, <1>6, <1>7, <1>8, <1>9, AppendLinked
  <1> QED BY <1>2, <1>10

(***************************************************************************)
(* The inductive invariant for OpenIsLinked.                               *)
(***************************************************************************)
LinkInv == FileInv /\ Links(fs) /\ ~ panicked

LEMMA LinkInit == Init => LinkInv
  <1> SUFFICES ASSUME Init PROVE LinkInv
    OBVIOUS
  <1>1. PICK s : s = EmptyVolume
    OBVIOUS
  <1>2. s.fat = [c \in Clusters |-> FreeMark] /\ s.inode = [n \in Inodes |-> FreeInode]
    BY <1>1 DEF EmptyVolume
  <1>3. \A l \in Places : At(s.dirs, l) = NoEntry
    <2>1. \A d \in Blocks : s.dirs[d] = Blank(Slots(d))
      BY <1>1 DEF EmptyVolume, Blocks, Slots
    <2>2. ASSUME NEW l \in Places PROVE At(s.dirs, l) = NoEntry
      <3>1. l[1] \in Blocks /\ l[2] \in 1 .. Slots(l[1])
        BY PlaceFacts
      <3>2. s.dirs[l[1]] = Blank(Slots(l[1]))
        BY <2>1, <3>1
      <3> QED BY <3>1, <3>2 DEF At, Blank
    <2> QED BY <2>2
  <1>4. FatLinked(s.fat, {})
    BY <1>2, RootNoCluster DEF FatLinked
  <1>5. DirsLinked(s.fat, s.dirs, {})
    <2>1. \A l \in Places : EntryLinked(s.fat, {}, At(s.dirs, l))
      BY <1>3, NoEntryFacts DEF EntryLinked
    <2>2. OneStart(s.dirs)
      BY <1>3, NoEntryFacts DEF OneStart
    <2> QED BY <1>3, <2>1, <2>2 DEF DirsLinked
  <1>6. PoolLinked(s.dirs, s.inode)
    BY <1>2, PointerFacts DEF PoolLinked
  <1>7. Linked(s, {})
    BY <1>4, <1>5, <1>6 DEF Linked
  <1>8. Links(s)
    BY <1>7 DEF Links
  <1>9. fs = s /\ ~ panicked
    BY <1>1 DEF Init
  <1> QED BY <1>8, <1>9, FileInit DEF LinkInv

LEMMA LinkNext ==
  ASSUME ~ RemoveDirs, EndIsNoCluster, LinkInv, [Next]_vars
  PROVE  LinkInv'
  <1>1. FileInv /\ InodeInv /\ Typed(fs) /\ Links(fs) /\ ~ panicked
    BY DEF LinkInv, FileInv
  <1> SUFFICES Links(fs') /\ ~ panicked'
    <2>1. FileInv'
      BY <1>1, FileNext
    <2> QED BY <2>1 DEF LinkInv, Links
  <1>2. ASSUME NEW p \in Procs, NEW path \in Paths, Open(p, path) \/ Visit(p, path)
        PROVE  Links(fs') /\ ~ panicked'
    <2>1. Links(fs')
      BY <1>1, <1>2, LinkOpen
    <2>2. panicked' = panicked
      BY <1>2 DEF Open, Visit
    <2> QED BY <1>1, <2>1, <2>2
  <1>3. ASSUME NEW p \in Procs, NEW path \in Paths,
               \/ Create(p, path) \/ RemoveFile(p, path)
               \/ Rmdir(p, path) \/ Mkdir(p, path)
        PROVE  Links(fs') /\ ~ panicked'
    <2>1. Links(fs')
      BY <1>1, <1>3, LinkAtParent
    <2>2. panicked' = panicked
      BY <1>3 DEF Create, RemoveFile, Rmdir, Mkdir
    <2> QED BY <1>1, <2>1, <2>2
  <1>4. ASSUME NEW p \in Procs, NEW i \in Fds, Close(p, i)
        PROVE  Links(fs') /\ ~ panicked'
    BY <1>1, <1>4, LinkClose DEF Close
  <1>5. ASSUME NEW p \in Procs, NEW i \in Fds, NEW k \in Amounts, AppendTo(p, i, k)
        PROVE  Links(fs') /\ ~ panicked'
    BY <1>1, <1>5, LinkAppendTo
  <1>6. ASSUME NEW p \in Procs, Exit(p) \/ ReleasePCB(p)
        PROVE  Links(fs') /\ ~ panicked'
    BY <1>1, <1>6, LinkRelease DEF Exit, ReleasePCB
  <1>7. ASSUME NEW p \in Procs, NEW i, NEW k,
               \/ Transfer(p, i, k) \/ Fseek(p, i, k) \/ Advance(p) \/ ExecveFails(p)
        PROVE  Links(fs') /\ ~ panicked'
    BY <1>1, <1>7 DEF Transfer, Fseek, Advance, ExecveFails
  <1>8. ASSUME NEW p \in Procs, NEW q \in Procs, Fork(p, q)
        PROVE  Links(fs') /\ ~ panicked'
    BY <1>1, <1>8 DEF Fork
  <1>9. CASE UNCHANGED vars
    BY <1>1, <1>9 DEF vars
  <1>10. DirPaths \subseteq Paths
    OBVIOUS
  <1> QED
    BY <1>2, <1>3, <1>4, <1>5, <1>6, <1>7, <1>8, <1>9, <1>10 DEF Next

LEMMA LinksOpen == LinkInv => OpenIsLinked
  <1> SUFFICES ASSUME LinkInv, NEW n \in Inodes, fs.inode[n].ref > 0
               PROVE  LET nd == fs.inode[n]
                          e == EntryAt(fs, nd.loc)
                      IN /\ e.name # NoName
                         /\ <<e.start, e.size, e.dir>> = <<nd.start, nd.size, nd.dir>>
                         /\ \A m \in Inodes :
                              fs.inode[m].ref > 0 /\ fs.inode[m].loc = nd.loc => m = n
    BY DEF OpenIsLinked
  <1>1. PICK F : Linked(fs, F)
    BY DEF LinkInv, Links
  <1>2. PICK nd, e : nd = fs.inode[n] /\ e = EntryAt(fs, nd.loc)
    OBVIOUS
  <1>3. OpenAt(fs.dirs, nd)
    BY <1>1, <1>2 DEF Linked, PoolLinked
  <1>4. e.name # NoName /\ e.start = nd.start /\ e.size = nd.size /\ e.dir = nd.dir
    BY <1>2, <1>3 DEF OpenAt, EntryAt, At
  <1>5. \A m \in Inodes : fs.inode[m].ref > 0 /\ fs.inode[m].loc = nd.loc => m = n
    BY <1>1, <1>2 DEF Linked, PoolLinked
  <1> QED BY <1>2, <1>4, <1>5

(***************************************************************************)
(* The entry of a file that is open is where its inode says, with the same *)
(* first cluster, size and type, and no other open inode was made from it, *)
(* whatever the other processes create, remove, append to and walk         *)
(* through meanwhile: get_inode() of fat12_fs.cpp finds what is open by    *)
(* the place of its entry, and append() stores the new size there.         *)
(* It needs programs that give remove() no directory, whose files would    *)
(* lose their clusters while they are open, and a disk with fewer clusters *)
(* than the mark that ends a chain, as every FAT12 disk has.               *)
(***************************************************************************)
THEOREM OpenFilesLinked ==
  ASSUME ~ RemoveDirs, EndOfChain \notin Clusters
  PROVE  Spec => []OpenIsLinked
  <1>1. EndIsNoCluster
    BY DEF EndIsNoCluster
  <1>2. LinkInv /\ [Next]_vars => LinkInv'
    BY <1>1, LinkNext
  <1> QED BY <1>2, LinkInit, LinksOpen, PTL DEF Spec

(***************************************************************************)
(* append() never reaches its PANIC: the entry that it must store the new  *)
(* size and first cluster in is in its directory until the last descriptor *)
(* is closed, though others may call remove() on the file or rmdir() on    *)
(* its directory, and that directory's cluster has not been given to a     *)
(* file.  With the same hypotheses.                                        *)
(***************************************************************************)
THEOREM NoPanic ==
  ASSUME ~ RemoveDirs, EndOfChain \notin Clusters
  PROVE  Spec => []~panicked
  <1>1. EndIsNoCluster
    BY DEF EndIsNoCluster
  <1>2. LinkInv /\ [Next]_vars => LinkInv'
    BY <1>1, LinkNext
  <1>3. LinkInv => ~ panicked
    BY DEF LinkInv
  <1> QED BY <1>2, <1>3, LinkInit, PTL DEF Spec
=============================================================================
