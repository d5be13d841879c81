-------------------------- MODULE UserMemoryProofs --------------------------
(***************************************************************************)
(* Proofs about UserMemory for every set of processes, frames and pages.   *)
(***************************************************************************)
EXTENDS UserMemory, FiniteSetTheorems, TLAPS

(***************************************************************************)
(* The inductive invariant: the five properties the runs check, and        *)
(*   - what each PTE says about the rest: a present page has a frame, only *)
(*     a live process has pages and only those it was given, a lazy page   *)
(*     has a page table, and of the pages mapped anonymously (whose cached *)
(*     translations fork does not flush) only data is writable;            *)
(*   - the text of a live process is mapped and not writable, so its page  *)
(*     table exists, and a dead one has no page tables;                    *)
(*   - all PTEs of a frame are for the same page;                          *)
(*   - a cached translation, stale or not, leads to the frame in the PTE;  *)
(*   - the page tables in use and those leaked are within the bound.       *)
(***************************************************************************)
PTEsSound ==
  \A q \in Procs : \A u \in Pages :
    /\ kind[q][u] \in PresentKinds => frame[q][u] \in AllFrames
    /\ kind[q][u] # "none" => q \in alive /\ u \in given[q]
    /\ kind[q][u] = "lazy" => table[q][TableOf(u)] # NoTable
    /\ kind[q][u] = "rw" /\ u \notin DataPages => ~ anon[q][u]

TextMapped ==
  \A q \in alive : \A u \in TextPages : kind[q][u] \in {"ro", "cow"}

DeadHaveNoTables ==
  \A q \in Procs \ alive : \A d \in Tables : table[q][d] = NoTable

WriterIsAlone ==
  \A q, r \in Procs : \A u, w \in Pages :
    /\ kind[q][u] = "rw" /\ kind[r][w] \in PresentKinds
    /\ frame[q][u] = frame[r][w]
    => q = r /\ u = w

SamePage ==
  \A q, r \in Procs : \A u, w \in Pages :
    /\ kind[q][u] \in PresentKinds /\ kind[r][w] \in PresentKinds
    /\ frame[q][u] = frame[r][w] /\ frame[q][u] \in Frames
    => u = w

TLBMapped ==
  \A e \in tlb : /\ kind[running][e[1]] \in PresentKinds
                 /\ frame[running][e[1]] = e[2]

TablesBounded == TablesUsed <= MaxTables

IInv ==
  /\ TypeOK /\ PTEsSound /\ TextMapped /\ DeadHaveNoTables
  /\ FramesExact /\ WriterIsAlone /\ SamePage
  /\ TLBMapped /\ TLBCoherent
  /\ CountsCover /\ TablesBounded

-----------------------------------------------------------------------------
(***************************************************************************)
(* Finite sets: everything counted is a set of pages, or of PTEs.          *)
(***************************************************************************)
PTEs == Procs \X Pages

LEMMA PagesCount ==
  ASSUME NEW S, S \subseteq Pages
  PROVE  /\ IsFiniteSet(S) /\ Cardinality(S) \in Nat
         /\ Cardinality(S) = 0 <=> S = {}
  <1>1. IsFiniteSet(S)
    BY FiniteAssumption, FS_Subset
  <1> QED BY <1>1, FS_CardinalityType, FS_EmptySet

LEMMA PTEsCount ==
  ASSUME NEW S, S \subseteq PTEs
  PROVE  /\ IsFiniteSet(S) /\ Cardinality(S) \in Nat
         /\ Cardinality(S) = 0 <=> S = {}
  <1>1. IsFiniteSet(PTEs)
    BY FiniteAssumption, FS_Product DEF PTEs
  <1>2. IsFiniteSet(S)
    BY <1>1, FS_Subset
  <1> QED BY <1>2, FS_CardinalityType, FS_EmptySet

(***************************************************************************)
(* Counting the PTEs of one process is counting its pages.                 *)
(***************************************************************************)
Row(p, S) == {<<p, u>> : u \in S}

LEMMA RowCount ==
  ASSUME NEW p, NEW S, IsFiniteSet(S)
  PROVE  Cardinality(Row(p, S)) = Cardinality(S)
  <1>1. /\ Cardinality(S) \in Nat
        /\ IsFiniteSet({p}) /\ Cardinality({p}) = 1
    BY FS_CardinalityType, FS_Singleton
  <1>2. Cardinality({p} \X S) = Cardinality({p}) * Cardinality(S)
    BY <1>1, FS_Product
  <1>3. {p} \X S = Row(p, S)
    BY DEF Row
  <1>4. Cardinality({p} \X S) = Cardinality(S)
    BY <1>1, <1>2
  <1> QED BY <1>3, <1>4, Zenon

(***************************************************************************)
(* Two sets of PTEs with the same members are equal.                       *)
(***************************************************************************)
LEMMA SamePTEs ==
  ASSUME NEW A, NEW B, A \subseteq PTEs, B \subseteq PTEs,
         \A q \in Procs : \A u \in Pages : <<q, u>> \in A <=> <<q, u>> \in B
  PROVE  A = B
  BY DEF PTEs

(***************************************************************************)
(* The PTEs that page tables k and r hold for frame f.                     *)
(***************************************************************************)
MapOf(k, r, f) == {e \in PTEs : /\ k[e[1]][e[2]] \in PresentKinds
                                /\ r[e[1]][e[2]] = f}

LEMMA MappersAre ==
  /\ \A f : Mappers(f) = MapOf(kind, frame, f)
  /\ \A f : Mappers(f)' = MapOf(kind', frame', f)
  BY DEF Mappers, MapOf, Present, PTEs

LEMMA MapOfFacts ==
  ASSUME NEW k, NEW r, NEW f
  PROVE  /\ MapOf(k, r, f) \subseteq PTEs
         /\ IsFiniteSet(MapOf(k, r, f))
         /\ Cardinality(MapOf(k, r, f)) \in Nat
         /\ Cardinality(MapOf(k, r, f)) = 0 <=> MapOf(k, r, f) = {}
         /\ \A q \in Procs : \A u \in Pages :
              <<q, u>> \in MapOf(k, r, f)
                <=> k[q][u] \in PresentKinds /\ r[q][u] = f
  <1>1. MapOf(k, r, f) \subseteq PTEs
    BY DEF MapOf
  <1>2. \A q \in Procs : \A u \in Pages :
          <<q, u>> \in MapOf(k, r, f)
            <=> k[q][u] \in PresentKinds /\ r[q][u] = f
    BY DEF MapOf, PTEs
  <1> QED BY <1>1, <1>2, PTEsCount

(***************************************************************************)
(* FramesExact over given page tables and books.                           *)
(***************************************************************************)
Books(k, r, fr, n, m) ==
  /\ \A f \in Frames : /\ m[f] = MapOf(k, r, f)
                       /\ n[f] = Cardinality(MapOf(k, r, f))
                       /\ f \in fr <=> MapOf(k, r, f) = {}
  /\ m[KFrame] = MapOf(k, r, KFrame)
  /\ n[KFrame] = 1 + Cardinality(MapOf(k, r, KFrame))

LEMMA BooksAre ==
  /\ FramesExact <=> Books(kind, frame, free, ref, rmap)
  /\ FramesExact' <=> Books(kind', frame', free', ref', rmap')
  BY MappersAre DEF FramesExact, Books

(***************************************************************************)
(* Changing one PTE.                                                       *)
(***************************************************************************)
LEMMA OnePTE ==
  ASSUME NEW T, NEW t \in [Procs -> [Pages -> T]], NEW p \in Procs,
         NEW v \in Pages, NEW x \in T
  PROVE  /\ [t EXCEPT ![p][v] = x] \in [Procs -> [Pages -> T]]
         /\ \A q \in Procs : \A u \in Pages :
              [t EXCEPT ![p][v] = x][q][u]
                = IF q = p /\ u = v THEN x ELSE t[q][u]
  OBVIOUS

-----------------------------------------------------------------------------
(***************************************************************************)
(* How the operations keep the books.  First: page tables with the same    *)
(* present pages in the same frames.                                       *)
(***************************************************************************)
LEMMA BooksSame ==
  ASSUME NEW k, NEW r, NEW fr, NEW n, NEW m, Books(k, r, fr, n, m),
         NEW k2, NEW r2,
         \A q \in Procs : \A u \in Pages :
           /\ k2[q][u] \in PresentKinds <=> k[q][u] \in PresentKinds
           /\ k[q][u] \in PresentKinds => r2[q][u] = r[q][u]
  PROVE  Books(k2, r2, fr, n, m)
  <1>1. ASSUME NEW f PROVE MapOf(k2, r2, f) = MapOf(k, r, f)
    <2>1. /\ MapOf(k2, r2, f) \subseteq PTEs /\ MapOf(k, r, f) \subseteq PTEs
          /\ \A q \in Procs : \A u \in Pages :
               <<q, u>> \in MapOf(k2, r2, f) <=> <<q, u>> \in MapOf(k, r, f)
      BY MapOfFacts
    <2> QED BY <2>1, SamePTEs
  <1> QED BY <1>1 DEF Books

(* A present page moves to a free frame (copy on write). *)
LEMMA BooksMove ==
  ASSUME NEW k, NEW r, NEW fr, NEW n \in [AllFrames -> Nat],
         NEW m \in [AllFrames -> SUBSET PTEs], Books(k, r, fr, n, m),
         NEW p \in Procs, NEW v \in Pages,
         k[p][v] \in PresentKinds, r[p][v] \in AllFrames, n[r[p][v]] # 1,
         NEW g \in fr, fr \subseteq Frames,
         NEW k2, NEW r2,
         \A q \in Procs : \A u \in Pages :
           k2[q][u] \in PresentKinds <=> k[q][u] \in PresentKinds,
         \A q \in Procs : \A u \in Pages :
           r2[q][u] = IF q = p /\ u = v THEN g ELSE r[q][u]
  PROVE  Books(k2, r2, fr \ {g}, [n EXCEPT ![r[p][v]] = @ - 1, ![g] = 1],
               [m EXCEPT ![r[p][v]] = @ \ {<<p, v>>}, ![g] = {<<p, v>>}])
  <1> DEFINE f == r[p][v]
             n2 == [n EXCEPT ![f] = @ - 1, ![g] = 1]
             m2 == [m EXCEPT ![f] = @ \ {<<p, v>>}, ![g] = {<<p, v>>}]
             M(h) == MapOf(k, r, h)
             M2(h) == MapOf(k2, r2, h)
  <1>1. /\ g \in Frames /\ g \in AllFrames /\ g # KFrame
        /\ M(g) = {} /\ <<p, v>> \in M(f) /\ f # g
    <2>1. g \in Frames /\ g \in AllFrames /\ g # KFrame
      BY FramesAssumption DEF AllFrames
    <2>2. M(g) = {}
      BY <2>1 DEF Books
    <2>3. <<p, v>> \in M(f)
      BY MapOfFacts
    <2> QED BY <2>1, <2>2, <2>3
  <1>2. M2(f) = M(f) \ {<<p, v>>}
    <2> DEFINE B == M(f) \ {<<p, v>>}
    <2>1. M2(f) \subseteq PTEs /\ B \subseteq PTEs
      BY MapOfFacts
    <2>2. ASSUME NEW q \in Procs, NEW u \in Pages
          PROVE  <<q, u>> \in M2(f) <=> <<q, u>> \in B
      <3>1. <<q, u>> \in M2(f)
              <=> k2[q][u] \in PresentKinds /\ r2[q][u] = f
        BY MapOfFacts
      <3>2. <<q, u>> \in M(f) <=> k[q][u] \in PresentKinds /\ r[q][u] = f
        BY MapOfFacts
      <3>3. <<q, u>> \in B <=> <<q, u>> \in M(f) /\ ~ (q = p /\ u = v)
        OBVIOUS
      <3> HIDE DEF B, M, M2
      <3> QED BY <1>1, <3>1, <3>2, <3>3
    <2> HIDE DEF M, M2, B
    <2>3. M2(f) = B
      BY <2>1, <2>2, SamePTEs
    <2> QED BY <2>3 DEF B
  <1>3. M2(g) = {<<p, v>>}
    <2>1. /\ M2(g) \subseteq PTEs /\ {<<p, v>>} \subseteq PTEs
          /\ \A q \in Procs : \A u \in Pages :
               <<q, u>> \in M2(g) <=> <<q, u>> \in {<<p, v>>}
      <3>1. \A q \in Procs : \A u \in Pages : <<q, u>> \notin M(g)
        BY <1>1
      <3> QED BY <3>1, MapOfFacts DEF PTEs
    <2> HIDE DEF M, M2
    <2> QED BY <2>1, SamePTEs
  <1>4. ASSUME NEW h, h # f, h # g PROVE M2(h) = M(h)
    <2>1. /\ M2(h) \subseteq PTEs /\ M(h) \subseteq PTEs
          /\ \A q \in Procs : \A u \in Pages :
               <<q, u>> \in M2(h) <=> <<q, u>> \in M(h)
      BY <1>4, MapOfFacts
    <2> HIDE DEF M, M2
    <2> QED BY <2>1, SamePTEs
  <1>5. /\ IsFiniteSet(M(f)) /\ Cardinality(M(f)) \in Nat
        /\ Cardinality(M(f)) # 0
        /\ Cardinality(M2(f)) = Cardinality(M(f)) - 1
        /\ Cardinality(M2(f)) = 0 <=> M2(f) = {}
        /\ Cardinality(M2(g)) = 1
    <2>1. /\ IsFiniteSet(M(f)) /\ Cardinality(M(f)) \in Nat
          /\ Cardinality(M(f)) = 0 <=> M(f) = {}
          /\ Cardinality(M2(f)) = 0 <=> M2(f) = {}
      BY MapOfFacts
    <2>2. Cardinality({<<p, v>>}) = 1
      BY FS_Singleton
    <2>3. Cardinality(M(f) \ {<<p, v>>}) = Cardinality(M(f)) - 1
      <3> DEFINE A == M(f)
                 x == <<p, v>>
      <3>1. x \in A /\ IsFiniteSet(A)
        BY <1>1, <2>1
      <3> HIDE DEF A, x
      <3>2. Cardinality(A \ {x}) = Cardinality(A) - 1
        BY <3>1, FS_RemoveElement
      <3> QED BY <3>2 DEF A, x
    <2> HIDE DEF M, M2
    <2> QED BY <1>1, <1>2, <1>3, <2>1, <2>2, <2>3
  <1>6. /\ n2[f] = n[f] - 1 /\ n2[g] = 1
        /\ m2[f] = m[f] \ {<<p, v>>} /\ m2[g] = {<<p, v>>}
        /\ \A h \in AllFrames \ {f, g} : n2[h] = n[h] /\ m2[h] = m[h]
    BY <1>1
  <1>7. /\ f \in Frames => m[f] = M(f) /\ n[f] = Cardinality(M(f))
        /\ f = KFrame => m[f] = M(f) /\ n[f] = 1 + Cardinality(M(f))
        /\ f \in Frames \/ f = KFrame
        /\ f \in Frames => f # KFrame
    BY FramesAssumption DEF Books, AllFrames
  <1>8. ASSUME NEW h \in Frames
        PROVE  /\ m2[h] = M2(h) /\ n2[h] = Cardinality(M2(h))
               /\ h \in fr \ {g} <=> M2(h) = {}
    <2>0. h \in AllFrames
      BY DEF AllFrames
    <2>1. CASE h = g
      <3> HIDE DEF M, M2, n2, m2
      <3> QED BY <1>3, <1>5, <1>6, <2>1
    <2>2. CASE h = f
      <3>1. f \notin fr
        BY <1>1, <2>2 DEF Books
      <3>2. M2(f) # {}
        <4> HIDE DEF M, M2, n2, m2, f
        <4>1. n[f] # 1
          BY DEF f
        <4> QED BY <1>5, <1>7, <2>2, <4>1
      <3> HIDE DEF M, M2, n2, m2, f
      <3> QED BY <1>2, <1>5, <1>6, <1>7, <2>2, <3>1, <3>2
    <2>3. CASE h # f /\ h # g
      <3>1. /\ m[h] = M(h) /\ n[h] = Cardinality(M(h))
            /\ h \in fr <=> M(h) = {}
        BY DEF Books
      <3>2. M2(h) = M(h)
        BY <1>4, <2>3
      <3> HIDE DEF M, M2, n2, m2, f
      <3> QED BY <1>6, <2>0, <2>3, <3>1, <3>2
    <2> QED BY <2>1, <2>2, <2>3
  <1>9. m2[KFrame] = M2(KFrame) /\ n2[KFrame] = 1 + Cardinality(M2(KFrame))
    <2>0. KFrame \in AllFrames
      BY DEF AllFrames
    <2>1. CASE KFrame = f
      <3>1. m2[f] = M2(f) /\ n2[f] = 1 + Cardinality(M2(f))
        <4>1. m[f] = M(f) /\ n[f] = 1 + Cardinality(M(f))
          BY <1>7, <2>1
        <4> HIDE DEF M, M2, n2, m2, f
        <4>2. m2[f] = M2(f)
          BY <1>2, <1>6, <4>1
        <4>3. n2[f] = 1 + Cardinality(M2(f))
          BY <1>5, <1>6, <4>1
        <4> QED BY <4>2, <4>3
      <3> QED BY <2>1, <3>1
    <2>2. CASE KFrame # f
      <3>1. m[KFrame] = M(KFrame) /\ n[KFrame] = 1 + Cardinality(M(KFrame))
        BY DEF Books
      <3>2. M2(KFrame) = M(KFrame)
        BY <1>1, <1>4, <2>2
      <3> HIDE DEF M, M2, n2, m2, f
      <3> QED BY <1>1, <1>6, <2>0, <2>2, <3>1, <3>2
    <2> QED BY <2>1, <2>2
  <1>10. Books(k2, r2, fr \ {g}, n2, m2)
    <2> HIDE DEF n2, m2
    <2> QED BY <1>8, <1>9 DEF Books
  <1> QED BY <1>10

(* Pages D of process p, not present before, get free frames of their own. *)
LEMMA BooksLoad ==
  ASSUME NEW k, NEW r, NEW fr, NEW n, NEW m, Books(k, r, fr, n, m),
         fr \subseteq Frames, NEW p \in Procs,
         NEW D, D \subseteq Pages, \A u \in D : k[p][u] \notin PresentKinds,
         NEW g \in [D -> fr], \A u, w \in D : g[u] = g[w] => u = w,
         NEW k2, NEW r2, NEW fr2, NEW n2, NEW m2,
         \A q \in Procs : \A u \in Pages :
           /\ k2[q][u] \in PresentKinds
                <=> k[q][u] \in PresentKinds \/ (q = p /\ u \in D)
           /\ k2[q][u] \in PresentKinds =>
                r2[q][u] = IF q = p /\ u \in D THEN g[u] ELSE r[q][u],
         fr2 = fr \ {g[u] : u \in D},
         \A f \in AllFrames :
           n2[f] = IF \E u \in D : g[u] = f THEN 1 ELSE n[f],
         \A f \in AllFrames : \A u \in D : g[u] = f =>
           m2[f] = m[f] \cup {<<p, u>>},
         \A f \in AllFrames : (\A u \in D : g[u] # f) => m2[f] = m[f]
  PROVE  Books(k2, r2, fr2, n2, m2)
  <1> DEFINE M(h) == MapOf(k, r, h)
             M2(h) == MapOf(k2, r2, h)
  <1>1. ASSUME NEW u \in D
        PROVE  /\ u \in Pages /\ g[u] \in Frames /\ g[u] \in fr
               /\ g[u] # KFrame /\ M(g[u]) = {}
    BY FramesAssumption DEF AllFrames, Books
  <1>2. ASSUME NEW u \in D PROVE M2(g[u]) = {<<p, u>>}
    <2> DEFINE f == g[u]
    <2>1. M2(f) \subseteq PTEs /\ {<<p, u>>} \subseteq PTEs
      BY <1>1, MapOfFacts DEF PTEs
    <2>2. ASSUME NEW q \in Procs, NEW w \in Pages
          PROVE  <<q, w>> \in M2(f) <=> <<q, w>> \in {<<p, u>>}
      <3>1. <<q, w>> \in M2(f)
              <=> k2[q][w] \in PresentKinds /\ r2[q][w] = f
        BY MapOfFacts
      <3>2. ~ (k[q][w] \in PresentKinds /\ r[q][w] = f)
        <4>1. <<q, w>> \notin M(f)
          BY <1>1
        <4> QED BY <4>1, MapOfFacts
      <3> HIDE DEF M, M2
      <3> QED BY <1>1, <3>1, <3>2
    <2> HIDE DEF M, M2
    <2> QED BY <2>1, <2>2, SamePTEs
  <1>3. ASSUME NEW f, \A u \in D : g[u] # f PROVE M2(f) = M(f)
    <2>1. M2(f) \subseteq PTEs /\ M(f) \subseteq PTEs
      BY MapOfFacts
    <2>2. ASSUME NEW q \in Procs, NEW w \in Pages
          PROVE  <<q, w>> \in M2(f) <=> <<q, w>> \in M(f)
      <3>1. <<q, w>> \in M2(f)
              <=> k2[q][w] \in PresentKinds /\ r2[q][w] = f
        BY MapOfFacts
      <3>2. <<q, w>> \in M(f) <=> k[q][w] \in PresentKinds /\ r[q][w] = f
        BY MapOfFacts
      <3> HIDE DEF M, M2
      <3> QED BY <1>3, <3>1, <3>2
    <2> HIDE DEF M, M2
    <2> QED BY <2>1, <2>2, SamePTEs
  <1>4. ASSUME NEW f \in Frames
        PROVE  /\ m2[f] = M2(f) /\ n2[f] = Cardinality(M2(f))
               /\ f \in fr2 <=> M2(f) = {}
    <2>0. /\ f \in AllFrames /\ m[f] = M(f) /\ n[f] = Cardinality(M(f))
          /\ f \in fr <=> M(f) = {}
      BY DEF AllFrames, Books
    <2>1. ASSUME NEW u \in D, g[u] = f
          PROVE  /\ m2[f] = M2(f) /\ n2[f] = Cardinality(M2(f))
                 /\ f \in fr2 <=> M2(f) = {}
      <3>1. M2(f) = {<<p, u>>} /\ M(f) = {}
        BY <1>1, <1>2, <2>1
      <3>2. Cardinality({<<p, u>>}) = 1
        BY FS_Singleton
      <3>3. f \notin fr2 /\ n2[f] = 1 /\ m2[f] = m[f] \cup {<<p, u>>}
        BY <2>0, <2>1
      <3> HIDE DEF M, M2
      <3>4. m2[f] = M2(f)
        BY <2>0, <3>1, <3>3
      <3>5. M2(f) # {}
        BY <3>1
      <3>6. Cardinality(M2(f)) = 1
        BY <3>1, <3>2
      <3> QED BY <3>3, <3>4, <3>5, <3>6
    <2>2. CASE \A u \in D : g[u] # f
      <3>1. M2(f) = M(f)
        BY <1>3, <2>2
      <3> HIDE DEF M, M2
      <3> QED BY <2>0, <2>2, <3>1
    <2> HIDE DEF M, M2
    <2> QED BY <2>1, <2>2
  <1>5. m2[KFrame] = M2(KFrame) /\ n2[KFrame] = 1 + Cardinality(M2(KFrame))
    <2>1. KFrame \in AllFrames /\ \A u \in D : g[u] # KFrame
      BY <1>1 DEF AllFrames
    <2>2. m[KFrame] = M(KFrame) /\ n[KFrame] = 1 + Cardinality(M(KFrame))
      BY DEF Books
    <2>3. M2(KFrame) = M(KFrame)
      BY <1>3, <2>1
    <2> HIDE DEF M, M2
    <2> QED BY <2>1, <2>2, <2>3
  <1> QED BY <1>4, <1>5 DEF Books

(* The frame's references by one process. *)
PagesIn(k, r, p, f) == {u \in Pages : k[p][u] \in PresentKinds /\ r[p][u] = f}

(* Process c, which had no pages, gets those of p in the same frames. *)
LEMMA BooksFork ==
  ASSUME NEW k, NEW r, NEW fr, NEW n, NEW m, Books(k, r, fr, n, m),
         NEW p \in Procs, NEW c \in Procs, c # p,
         \A u \in Pages : k[c][u] \notin PresentKinds,
         NEW k2, NEW r2, NEW n2, NEW m2,
         \A q \in Procs \ {c} : \A u \in Pages :
           /\ k2[q][u] \in PresentKinds <=> k[q][u] \in PresentKinds
           /\ r2[q][u] = r[q][u],
         \A u \in Pages :
           /\ k2[c][u] \in PresentKinds <=> k[p][u] \in PresentKinds
           /\ r2[c][u] = r[p][u],
         \A f \in AllFrames :
           /\ n2[f] = n[f] + Cardinality(PagesIn(k, r, p, f))
           /\ m2[f] = m[f] \cup Row(c, PagesIn(k, r, p, f))
  PROVE  Books(k2, r2, fr, n2, m2)
  <1> DEFINE M(h) == MapOf(k, r, h)
             M2(h) == MapOf(k2, r2, h)
             V(h) == PagesIn(k, r, p, h)
  <1>1. ASSUME NEW f
        PROVE  /\ M2(f) = M(f) \cup Row(c, V(f))
               /\ Cardinality(M2(f)) = Cardinality(M(f)) + Cardinality(V(f))
               /\ Cardinality(M(f)) \in Nat /\ Cardinality(V(f)) \in Nat
               /\ M2(f) = {} <=> M(f) = {}
    <2> DEFINE B == Row(c, V(f))
    <2>1. /\ M2(f) \subseteq PTEs /\ M(f) \subseteq PTEs /\ B \subseteq PTEs
          /\ V(f) \subseteq Pages
      BY MapOfFacts DEF PagesIn, PTEs, Row
    <2>2. ASSUME NEW q \in Procs, NEW u \in Pages
          PROVE  /\ <<q, u>> \in M2(f) <=> <<q, u>> \in M(f) \/ <<q, u>> \in B
                 /\ ~ (<<q, u>> \in M(f) /\ <<q, u>> \in B)
      <3>1. <<q, u>> \in M2(f)
              <=> k2[q][u] \in PresentKinds /\ r2[q][u] = f
        BY MapOfFacts
      <3>2. <<q, u>> \in M(f) <=> k[q][u] \in PresentKinds /\ r[q][u] = f
        BY MapOfFacts
      <3>3. <<q, u>> \in B <=> q = c /\ k[p][u] \in PresentKinds /\ r[p][u] = f
        BY DEF PagesIn, Row
      <3> HIDE DEF M, M2, B
      <3> QED BY <3>1, <3>2, <3>3
    <2>3. M2(f) = M(f) \cup B
      <3> DEFINE C == M(f) \cup B
      <3>1. /\ M2(f) \subseteq PTEs /\ C \subseteq PTEs
            /\ \A q \in Procs : \A u \in Pages :
                 <<q, u>> \in M2(f) <=> <<q, u>> \in C
        <4> HIDE DEF M, M2, B
        <4> QED BY <2>1, <2>2
      <3> HIDE DEF M, M2, C
      <3>2. M2(f) = C
        BY <3>1, SamePTEs
      <3> QED BY <3>2 DEF C
    <2>4. M(f) \cap B = {}
      <3> HIDE DEF M, M2, B
      <3> QED BY <2>1, <2>2 DEF PTEs
    <2>5. /\ IsFiniteSet(M(f)) /\ Cardinality(M(f)) \in Nat
          /\ Cardinality(V(f)) \in Nat
          /\ IsFiniteSet(B) /\ Cardinality(B) = Cardinality(V(f))
      <3>1. IsFiniteSet(M(f)) /\ Cardinality(M(f)) \in Nat
        BY MapOfFacts
      <3>2. Cardinality(V(f)) \in Nat
        BY <2>1, PagesCount
      <3>3. IsFiniteSet(B)
        BY <2>1, PTEsCount
      <3>4. Cardinality(B) = Cardinality(V(f))
        <4>1. IsFiniteSet(V(f))
          BY <2>1, PagesCount
        <4> HIDE DEF V
        <4> QED BY <4>1, RowCount
      <3> QED BY <3>1, <3>2, <3>3, <3>4
    <2>6. Cardinality(M(f) \cup B) = Cardinality(M(f)) + Cardinality(V(f))
      <3> HIDE DEF M, B, V
      <3>1. Cardinality(M(f) \cup B)
              = Cardinality(M(f)) + Cardinality(B) - Cardinality(M(f) \cap B)
        BY <2>5, FS_Union
      <3>2. Cardinality(M(f) \cap B) = 0
        BY <2>4, FS_EmptySet
      <3> QED BY <2>5, <3>1, <3>2
    <2>7. M2(f) = {} <=> M(f) = {}
      <3>1. ASSUME M(f) = {} PROVE V(f) = {}
        <4> SUFFICES ASSUME NEW u \in V(f) PROVE FALSE
          OBVIOUS
        <4>1. u \in Pages /\ k[p][u] \in PresentKinds /\ r[p][u] = f
          BY DEF PagesIn
        <4>2. <<p, u>> \in M(f)
          BY <4>1, MapOfFacts
        <4> QED BY <3>1, <4>2
      <3>2. V(f) = {} => B = {}
        BY DEF Row
      <3> HIDE DEF M, M2, B, V
      <3> QED BY <2>3, <3>1, <3>2
    <2> HIDE DEF M, M2, V
    <2> QED BY <2>3, <2>5, <2>6, <2>7
  <1>2. ASSUME NEW f \in Frames
        PROVE  /\ m2[f] = M2(f) /\ n2[f] = Cardinality(M2(f))
               /\ f \in fr <=> M2(f) = {}
    <2>0. /\ f \in AllFrames /\ m[f] = M(f) /\ n[f] = Cardinality(M(f))
          /\ f \in fr <=> M(f) = {}
      BY DEF AllFrames, Books
    <2>1. n2[f] = n[f] + Cardinality(V(f)) /\ m2[f] = m[f] \cup Row(c, V(f))
      BY <2>0
    <2> HIDE DEF M, M2, V
    <2> QED BY <1>1, <2>0, <2>1
  <1>3. m2[KFrame] = M2(KFrame) /\ n2[KFrame] = 1 + Cardinality(M2(KFrame))
    <2>0. /\ KFrame \in AllFrames /\ m[KFrame] = M(KFrame)
          /\ n[KFrame] = 1 + Cardinality(M(KFrame))
      BY DEF AllFrames, Books
    <2>1. /\ n2[KFrame] = n[KFrame] + Cardinality(V(KFrame))
          /\ m2[KFrame] = m[KFrame] \cup Row(c, V(KFrame))
      BY <2>0
    <2> HIDE DEF M, M2, V
    <2>2. /\ Cardinality(M2(KFrame))
               = Cardinality(M(KFrame)) + Cardinality(V(KFrame))
          /\ Cardinality(M(KFrame)) \in Nat /\ Cardinality(V(KFrame)) \in Nat
      BY <1>1
    <2> QED BY <1>1, <2>0, <2>1, <2>2
  <1> QED BY <1>2, <1>3 DEF Books

(* Process p loses all its pages (destroyUserVAPool). *)
LEMMA BooksDestroy ==
  ASSUME NEW k, NEW r, NEW fr, NEW n, NEW m, Books(k, r, fr, n, m),
         NEW p \in Procs, fr \subseteq Frames,
         NEW k2, NEW r2, NEW fr2, NEW n2, NEW m2,
         \A q \in Procs \ {p} : \A u \in Pages :
           k2[q][u] = k[q][u] /\ r2[q][u] = r[q][u],
         \A u \in Pages : k2[p][u] \notin PresentKinds,
         fr2 = fr \cup {f \in Frames :
                          /\ Cardinality(PagesIn(k, r, p, f)) > 0
                          /\ n[f] - Cardinality(PagesIn(k, r, p, f)) = 0},
         \A f \in AllFrames :
           /\ n2[f] = n[f] - Cardinality(PagesIn(k, r, p, f))
           /\ m2[f] = {e \in m[f] : e[1] # p}
  PROVE  Books(k2, r2, fr2, n2, m2)
  <1> DEFINE M(h) == MapOf(k, r, h)
             M2(h) == MapOf(k2, r2, h)
             V(h) == PagesIn(k, r, p, h)
  <1>1. ASSUME NEW f
        PROVE  /\ M2(f) = {e \in M(f) : e[1] # p}
               /\ Cardinality(M(f)) = Cardinality(M2(f)) + Cardinality(V(f))
               /\ Cardinality(M(f)) \in Nat /\ Cardinality(V(f)) \in Nat
               /\ Cardinality(M2(f)) \in Nat
               /\ Cardinality(M2(f)) = 0 <=> M2(f) = {}
               /\ Cardinality(M(f)) = 0 <=> M(f) = {}
    <2> DEFINE B == Row(p, V(f))
               C == {e \in M(f) : e[1] # p}
    <2>1. /\ M2(f) \subseteq PTEs /\ M(f) \subseteq PTEs /\ B \subseteq PTEs
          /\ V(f) \subseteq Pages /\ C \subseteq PTEs
      BY MapOfFacts DEF PagesIn, PTEs, Row
    <2>2. ASSUME NEW q \in Procs, NEW u \in Pages
          PROVE  /\ <<q, u>> \in M2(f) <=> <<q, u>> \in C
                 /\ <<q, u>> \in M(f) <=> <<q, u>> \in M2(f) \/ <<q, u>> \in B
                 /\ ~ (<<q, u>> \in M2(f) /\ <<q, u>> \in B)
      <3>1. <<q, u>> \in M2(f)
              <=> k2[q][u] \in PresentKinds /\ r2[q][u] = f
        BY MapOfFacts
      <3>2. <<q, u>> \in M(f) <=> k[q][u] \in PresentKinds /\ r[q][u] = f
        BY MapOfFacts
      <3>3. <<q, u>> \in B <=> q = p /\ k[p][u] \in PresentKinds /\ r[p][u] = f
        BY DEF PagesIn, Row
      <3>4. <<q, u>> \in C <=> <<q, u>> \in M(f) /\ q # p
        OBVIOUS
      <3> HIDE DEF M, M2, B, C
      <3> QED BY <3>1, <3>2, <3>3, <3>4
    <2>3. M2(f) = C
      <3> HIDE DEF M, M2, C
      <3> QED BY <2>1, <2>2, SamePTEs
    <2>4. M(f) = M2(f) \cup B
      <3> DEFINE A == M2(f) \cup B
      <3>1. /\ M(f) \subseteq PTEs /\ A \subseteq PTEs
            /\ \A q \in Procs : \A u \in Pages :
                 <<q, u>> \in M(f) <=> <<q, u>> \in A
        <4> HIDE DEF M, M2, B
        <4> QED BY <2>1, <2>2
      <3> HIDE DEF M, M2, A
      <3>2. M(f) = A
        BY <3>1, SamePTEs
      <3> QED BY <3>2 DEF A
    <2>5. M2(f) \cap B = {}
      <3> HIDE DEF M, M2, B
      <3> QED BY <2>1, <2>2 DEF PTEs
    <2>6. /\ IsFiniteSet(M2(f)) /\ Cardinality(M2(f)) \in Nat
          /\ Cardinality(M2(f)) = 0 <=> M2(f) = {}
          /\ Cardinality(M(f)) \in Nat
          /\ Cardinality(M(f)) = 0 <=> M(f) = {}
          /\ Cardinality(V(f)) \in Nat
          /\ IsFiniteSet(B) /\ Cardinality(B) = Cardinality(V(f))
      <3>1. /\ IsFiniteSet(M2(f)) /\ Cardinality(M2(f)) \in Nat
            /\ Cardinality(M2(f)) = 0 <=> M2(f) = {}
            /\ Cardinality(M(f)) \in Nat
            /\ Cardinality(M(f)) = 0 <=> M(f) = {}
        BY MapOfFacts
      <3>2. Cardinality(V(f)) \in Nat
        BY <2>1, PagesCount
      <3>3. IsFiniteSet(B)
        BY <2>1, PTEsCount
      <3>4. Cardinality(B) = Cardinality(V(f))
        <4>1. IsFiniteSet(V(f))
          BY <2>1, PagesCount
        <4> HIDE DEF V
        <4> QED BY <4>1, RowCount
      <3> QED BY <3>1, <3>2, <3>3, <3>4
    <2>7. Cardinality(M2(f) \cup B) = Cardinality(M2(f)) + Cardinality(V(f))
      <3> HIDE DEF M2, B, V
      <3>1. Cardinality(M2(f) \cup B)
              = Cardinality(M2(f)) + Cardinality(B) - Cardinality(M2(f) \cap B)
        BY <2>6, FS_Union
      <3>2. Cardinality(M2(f) \cap B) = 0
        BY <2>5, FS_EmptySet
      <3> QED BY <2>6, <3>1, <3>2
    <2> HIDE DEF M, M2, V, B
    <2> QED BY <2>3, <2>4, <2>6, <2>7
  <1>2. ASSUME NEW f \in Frames
        PROVE  /\ m2[f] = M2(f) /\ n2[f] = Cardinality(M2(f))
               /\ f \in fr2 <=> M2(f) = {}
    <2>0. /\ f \in AllFrames /\ m[f] = M(f) /\ n[f] = Cardinality(M(f))
          /\ f \in fr <=> M(f) = {}
      BY DEF AllFrames, Books
    <2>1. /\ n2[f] = n[f] - Cardinality(V(f))
          /\ m2[f] = {e \in m[f] : e[1] # p}
          /\ f \in fr2 <=>
               \/ f \in fr
               \/ Cardinality(V(f)) > 0 /\ n[f] - Cardinality(V(f)) = 0
      BY <2>0
    <2>2. /\ M2(f) = {e \in M(f) : e[1] # p}
          /\ Cardinality(M(f)) = Cardinality(M2(f)) + Cardinality(V(f))
          /\ Cardinality(M(f)) \in Nat /\ Cardinality(V(f)) \in Nat
          /\ Cardinality(M2(f)) \in Nat
          /\ Cardinality(M2(f)) = 0 <=> M2(f) = {}
          /\ Cardinality(M(f)) = 0 <=> M(f) = {}
      BY <1>1
    <2> HIDE DEF M, M2, V
    <2>3. n2[f] = Cardinality(M2(f))
      BY <2>0, <2>1, <2>2
    <2>4. f \in fr2 <=> Cardinality(M2(f)) = 0
      BY <2>0, <2>1, <2>2
    <2> QED BY <2>0, <2>1, <2>2, <2>3, <2>4
  <1>3. m2[KFrame] = M2(KFrame) /\ n2[KFrame] = 1 + Cardinality(M2(KFrame))
    <2>0. /\ KFrame \in AllFrames /\ m[KFrame] = M(KFrame)
          /\ n[KFrame] = 1 + Cardinality(M(KFrame))
      BY DEF AllFrames, Books
    <2>1. /\ n2[KFrame] = n[KFrame] - Cardinality(V(KFrame))
          /\ m2[KFrame] = {e \in m[KFrame] : e[1] # p}
      BY <2>0
    <2>2. /\ M2(KFrame) = {e \in M(KFrame) : e[1] # p}
          /\ Cardinality(M(KFrame))
               = Cardinality(M2(KFrame)) + Cardinality(V(KFrame))
          /\ Cardinality(M2(KFrame)) \in Nat /\ Cardinality(V(KFrame)) \in Nat
      BY <1>1
    <2> HIDE DEF M, M2, V
    <2> QED BY <2>0, <2>1, <2>2
  <1> QED BY <1>2, <1>3 DEF Books

-----------------------------------------------------------------------------
(***************************************************************************)
(* Page tables and their counts.                                           *)
(***************************************************************************)
LEMMA TableFacts ==
  /\ \A v : TableOf(v) \in Tables
  /\ \A v \in Image \cup HeapPages : TableOf(v) = TextTable
  /\ IsFiniteSet(Tables) /\ Cardinality(Tables) = 3
  /\ NoTable \notin Nat /\ TextTable \in Tables
  <1>1. \A v : TableOf(v) \in Tables
    BY DEF TableOf, Tables
  <1>2. \A v \in Image \cup HeapPages : TableOf(v) = TextTable
    BY SegmentsAssumption DEF TableOf
  <1>3. IsFiniteSet(Tables) /\ Cardinality(Tables) = 3
    <2>1. IsFiniteSet({TextTable}) /\ Cardinality({TextTable}) = 1
      BY FS_Singleton
    <2> DEFINE Two == {TextTable} \cup {LowStackTable}
    <2>2. IsFiniteSet(Two) /\ Cardinality(Two) = 2
      <3>1. LowStackTable \notin {TextTable}
        BY DEF TextTable, LowStackTable
      <3> QED BY <2>1, <3>1, FS_AddElement
    <2>3. StackTable \notin Two
      BY DEF TextTable, LowStackTable, StackTable
    <2>4. Tables = Two \cup {StackTable}
      BY DEF Tables
    <2> HIDE DEF Two
    <2>5. IsFiniteSet(Two \cup {StackTable})
            /\ Cardinality(Two \cup {StackTable}) = 3
      BY <2>2, <2>3, FS_AddElement
    <2> QED BY <2>4, <2>5
  <1>4. NoTable \notin Nat /\ TextTable \in Tables
    BY DEF NoTable, Tables
  <1> QED BY <1>1, <1>2, <1>3, <1>4

LEMMA PDEincFacts ==
  ASSUME NEW count \in 0 .. CountCap, NEW n \in Nat
  PROVE  /\ PDEinc(count, n) \in 0 .. CountCap
         /\ PDEinc(count, n) = CountCap \/ PDEinc(count, n) = count + n
  BY BoundsAssumption DEF PDEinc

(***************************************************************************)
(* The pages of p present under page table d, and the counts that cover    *)
(* them.                                                                   *)
(***************************************************************************)
Under(k, p, d) == {v \in Pages : k[p][v] \in PresentKinds /\ TableOf(v) = d}

Covers(count, S) ==
  IF count = NoTable THEN Cardinality(S) = 0
  ELSE count = CountCap \/ count >= Cardinality(S)

LEMMA UnderAre ==
  /\ CountsCover <=>
       \A p \in Procs : \A d \in Tables : Covers(table[p][d], Under(kind, p, d))
  /\ CountsCover' <=>
       \A p \in Procs : \A d \in Tables :
         Covers(table'[p][d], Under(kind', p, d))
  <1>1. \A p, d : Under(kind, p, d) = {v \in Present(p) : TableOf(v) = d}
    BY DEF Under, Present
  <1>2. \A p, d : Under(kind', p, d) = {v \in Present(p)' : TableOf(v) = d}
    BY DEF Under, Present
  <1>3. CountsCover <=>
          \A p \in Procs : \A d \in Tables :
            Covers(table[p][d], Under(kind, p, d))
    BY <1>1, Zenon DEF CountsCover, Covers
  <1>4. CountsCover' <=>
          \A p \in Procs : \A d \in Tables :
            Covers(table'[p][d], Under(kind', p, d))
    BY <1>2, Zenon DEF CountsCover, Covers
  <1> QED BY <1>3, <1>4

LEMMA UnderFacts ==
  ASSUME NEW k, NEW p, NEW d
  PROVE  /\ Under(k, p, d) \subseteq Pages
         /\ IsFiniteSet(Under(k, p, d))
         /\ Cardinality(Under(k, p, d)) \in Nat
         /\ Cardinality(Under(k, p, d)) = 0 <=> Under(k, p, d) = {}
  <1>1. Under(k, p, d) \subseteq Pages
    BY DEF Under
  <1> QED BY <1>1, PagesCount

(***************************************************************************)
(* The tables of a new address space cover every set of its pages.         *)
(***************************************************************************)
LEMMA NewTablesFacts ==
  ASSUME NEW S, S \subseteq Pages
  PROVE  /\ NewTables(S) \in [Tables -> {NoTable} \cup 0 .. CountCap]
         /\ \A d \in Tables : NewTables(S)[d] # NoTable <=> d \in NeededTables(S)
         /\ \A v \in S : NewTables(S)[TableOf(v)] # NoTable
         /\ \A d \in Tables : \A R : (R \subseteq S /\ \A v \in R : TableOf(v) = d)
              => Covers(NewTables(S)[d], R)
         /\ NeededTables(S) \subseteq Tables
  <1> DEFINE U(d) == {v \in S : TableOf(v) = d}
  <1>1. \A d : Cardinality(U(d)) \in Nat /\ IsFiniteSet(U(d))
    BY PagesCount
  <1>2. \A d \in Tables :
          /\ PDEinc(0, Cardinality(U(d))) \in 0 .. CountCap
          /\ \/ PDEinc(0, Cardinality(U(d))) = CountCap
             \/ PDEinc(0, Cardinality(U(d))) = Cardinality(U(d))
    <2>1. 0 \in 0 .. CountCap
      BY BoundsAssumption
    <2>2. ASSUME NEW n \in Nat
          PROVE  /\ PDEinc(0, n) \in 0 .. CountCap
                 /\ PDEinc(0, n) = CountCap \/ PDEinc(0, n) = n
      BY <2>1, PDEincFacts
    <2> HIDE DEF U
    <2> QED BY <1>1, <2>2
  <1>3. \A d \in Tables : NewTables(S)[d]
          = IF d \in NeededTables(S) THEN PDEinc(0, Cardinality(U(d)))
            ELSE NoTable
    BY DEF NewTables
  <1>4. NewTables(S) \in [Tables -> {NoTable} \cup 0 .. CountCap]
    BY <1>2 DEF NewTables
  <1>5. \A d \in Tables : NewTables(S)[d] # NoTable <=> d \in NeededTables(S)
    <2> HIDE DEF U
    <2> QED BY <1>2, <1>3 DEF NoTable
  <1>6. NeededTables(S) \subseteq Tables
    BY TableFacts DEF NeededTables
  <1>7. \A v \in S : TableOf(v) \in NeededTables(S)
    BY DEF NeededTables
  <1>8. ASSUME NEW d \in Tables, NEW R, R \subseteq S,
               \A v \in R : TableOf(v) = d
        PROVE  Covers(NewTables(S)[d], R)
    <2>1. R \subseteq U(d)
      BY <1>8
    <2>2. Cardinality(R) <= Cardinality(U(d)) /\ Cardinality(R) \in Nat
      <3>1. Cardinality(R) \in Nat
        BY <1>8, PagesCount
      <3> HIDE DEF U
      <3> QED BY <1>1, <2>1, <3>1, FS_Subset
    <2>3. CASE d \in NeededTables(S)
      <3> HIDE DEF U
      <3> QED BY <1>1, <1>2, <1>3, <2>2, <2>3 DEF Covers, NoTable
    <2>4. CASE d \notin NeededTables(S)
      <3>1. R = {}
        BY <1>7, <1>8, <2>4
      <3> QED BY <1>3, <2>4, <3>1, FS_EmptySet DEF Covers
    <2> QED BY <2>3, <2>4
  <1> HIDE DEF U
  <1> QED BY <1>4, <1>5, <1>6, <1>7, <1>8

(***************************************************************************)
(* The page tables in use, split into those of p and those of the others.  *)
(***************************************************************************)
InUse(t) == {e \in Procs \X Tables : t[e[1]][e[2]] # NoTable}
OthersInUse(t, p) == {e \in (Procs \ {p}) \X Tables : t[e[1]][e[2]] # NoTable}
OwnInUse(t, p) == {d \in Tables : t[p][d] # NoTable}

LEMMA InUseSplit ==
  ASSUME NEW t, NEW p \in Procs
  PROVE  /\ Cardinality(InUse(t))
              = Cardinality(OthersInUse(t, p)) + Cardinality(OwnInUse(t, p))
         /\ Cardinality(InUse(t)) \in Nat
         /\ Cardinality(OthersInUse(t, p)) \in Nat
         /\ Cardinality(OwnInUse(t, p)) \in Nat
         /\ IsFiniteSet(OwnInUse(t, p))
  <1> DEFINE A == OthersInUse(t, p)
             B == Row(p, OwnInUse(t, p))
  <1>1. IsFiniteSet(Procs \X Tables)
    BY FiniteAssumption, TableFacts, FS_Product
  <1>2. InUse(t) \subseteq Procs \X Tables /\ A \subseteq Procs \X Tables
    BY DEF InUse, OthersInUse
  <1>3. B \subseteq Procs \X Tables /\ OwnInUse(t, p) \subseteq Tables
    BY DEF Row, OwnInUse
  <1>4. InUse(t) = A \cup B /\ A \cap B = {}
    BY DEF InUse, OthersInUse, OwnInUse, Row
  <1>5. /\ IsFiniteSet(InUse(t)) /\ IsFiniteSet(A) /\ IsFiniteSet(B)
        /\ IsFiniteSet(OwnInUse(t, p))
    <2>1. IsFiniteSet(OwnInUse(t, p))
      BY <1>3, TableFacts, FS_Subset
    <2> HIDE DEF A, B
    <2>2. IsFiniteSet(InUse(t)) /\ IsFiniteSet(A) /\ IsFiniteSet(B)
      BY <1>1, <1>2, <1>3, FS_Subset
    <2> QED BY <2>1, <2>2
  <1>6. Cardinality(B) = Cardinality(OwnInUse(t, p))
    BY <1>5, RowCount
  <1> HIDE DEF A, B
  <1>7. Cardinality(A \cup B)
          = Cardinality(A) + Cardinality(B) - Cardinality(A \cap B)
    BY <1>5, FS_Union
  <1>8. /\ Cardinality(A) \in Nat /\ Cardinality(B) \in Nat
        /\ Cardinality(InUse(t)) \in Nat /\ Cardinality(A \cap B) = 0
    BY <1>4, <1>5, FS_CardinalityType, FS_EmptySet
  <1>9. Cardinality(InUse(t)) = Cardinality(A) + Cardinality(B)
    BY <1>4, <1>7, <1>8
  <1> QED BY <1>5, <1>6, <1>8, <1>9 DEF A

(***************************************************************************)
(* destroyUserVAPool leaks only tables that the process had.               *)
(***************************************************************************)
LEMMA LeakBound ==
  ASSUME NEW p \in Procs, leaked \in Nat
  PROVE  /\ LeakedBy(p) \in Nat
         /\ LeakedBy(p) <= Cardinality(OwnInUse(table, p))
         /\ TablesAfterDestroy(p)
              = leaked + LeakedBy(p) + Cardinality(OthersInUse(table, p))
         /\ TablesUsed = leaked + Cardinality(InUse(table))
         /\ TablesAfterDestroy(p) <= TablesUsed
         /\ TablesAfterDestroy(p) \in Nat
  <1> DEFINE L == {d \in TablesLeft(p) : d % SweepStep # 0}
  <1>1. L \subseteq OwnInUse(table, p)
    BY DEF TablesLeft, OwnInUse
  <1>2. IsFiniteSet(OwnInUse(table, p))
    BY InUseSplit
  <1>3. LeakedBy(p) = Cardinality(L)
    BY DEF LeakedBy
  <1> HIDE DEF L
  <1>4. Cardinality(L) \in Nat /\ Cardinality(L) <= Cardinality(OwnInUse(table, p))
    BY <1>1, <1>2, FS_Subset, FS_CardinalityType
  <1>5. TablesAfterDestroy(p)
          = leaked + LeakedBy(p) + Cardinality(OthersInUse(table, p))
    BY DEF TablesAfterDestroy, OthersInUse
  <1>6. TablesUsed = leaked + Cardinality(InUse(table))
    BY DEF TablesUsed, InUse
  <1>7. /\ Cardinality(InUse(table))
             = Cardinality(OthersInUse(table, p))
                 + Cardinality(OwnInUse(table, p))
        /\ Cardinality(OthersInUse(table, p)) \in Nat
        /\ Cardinality(OwnInUse(table, p)) \in Nat
    BY InUseSplit
  <1> QED BY <1>3, <1>4, <1>5, <1>6, <1>7

-----------------------------------------------------------------------------
(***************************************************************************)
(* The steps.  First: those that leave the page tables and the books.      *)
(***************************************************************************)
BookVars == <<alive, kind, frame, anon, given, free, ref, rmap, table, leaked>>

LEMMA SameBooks ==
  ASSUME IInv, UNCHANGED BookVars
  PROVE  /\ PTEsSound' /\ TextMapped' /\ DeadHaveNoTables' /\ FramesExact'
         /\ WriterIsAlone' /\ SamePage' /\ CountsCover' /\ TablesBounded'
  <1> USE DEF IInv, BookVars
  <1>1. PTEsSound' /\ TextMapped' /\ DeadHaveNoTables'
    BY DEF PTEsSound, TextMapped, DeadHaveNoTables
  <1>2. FramesExact'
    BY BooksAre DEF Books
  <1>3. WriterIsAlone' /\ SamePage'
    BY DEF WriterIsAlone, SamePage
  <1>4. CountsCover'
    BY UnderAre
  <1>5. TablesBounded'
    BY DEF TablesBounded, TablesUsed
  <1> QED BY <1>1, <1>2, <1>3, <1>4, <1>5

LEMMA DownInv ==
  ASSUME IInv, UNCHANGED <<alive, running, kind, frame, anon, given, free, ref,
                           rmap, content, tlb, table, leaked>>,
         down' \in BOOLEAN
  PROVE  IInv'
  <1>1. /\ PTEsSound' /\ TextMapped' /\ DeadHaveNoTables' /\ FramesExact'
        /\ WriterIsAlone' /\ SamePage' /\ CountsCover' /\ TablesBounded'
    BY SameBooks DEF BookVars
  <1>2. TypeOK' /\ TLBMapped' /\ TLBCoherent'
    BY DEF IInv, TypeOK, TLBMapped, TLBCoherent
  <1> QED BY <1>1, <1>2 DEF IInv

LEMMA SwitchInv ==
  ASSUME IInv, NEW q \in Procs, Switch(q)
  PROVE  IInv'
  <1>1. /\ PTEsSound' /\ TextMapped' /\ DeadHaveNoTables' /\ FramesExact'
        /\ WriterIsAlone' /\ SamePage' /\ CountsCover' /\ TablesBounded'
    BY SameBooks DEF BookVars, Switch
  <1>2. TypeOK' /\ TLBMapped' /\ TLBCoherent'
    BY DEF IInv, TypeOK, TLBMapped, TLBCoherent, Switch
  <1> QED BY <1>1, <1>2 DEF IInv

(***************************************************************************)
(* A write goes through a writable PTE or a cached translation, which      *)
(* leads to the frame in the PTE.                                          *)
(***************************************************************************)
LEMMA WriteInv ==
  ASSUME IInv, NEW p \in Procs, NEW v \in Pages, NEW x \in Values,
         Write(p, v, x)
  PROVE  IInv'
  <1>1. PICK f \in Frames :
          /\ <<v, f>> \in tlb \/ (kind[p][v] = "rw" /\ frame[p][v] = f)
          /\ WriteTo(p, v, f, x)
    BY DEF Write
  <1>2. running = p /\ running' = running
    BY <1>1 DEF Write, Runs, WriteTo
  <1>3. /\ PTEsSound' /\ TextMapped' /\ DeadHaveNoTables' /\ FramesExact'
        /\ WriterIsAlone' /\ SamePage' /\ CountsCover' /\ TablesBounded'
    BY <1>1, SameBooks DEF BookVars, WriteTo
  <1>4. TypeOK'
    <2>1. content' \in [AllFrames -> Values]
      BY <1>1 DEF IInv, TypeOK, WriteTo, AllFrames
    <2>2. tlb' \in SUBSET (Pages \X Frames)
      BY <1>1 DEF IInv, TypeOK, WriteTo, Invlpg
    <2> QED BY <1>1, <2>1, <2>2 DEF IInv, TypeOK, WriteTo
  <1>5. /\ kind[p][v] \in PresentKinds /\ frame[p][v] = f
        /\ v \notin DataPages => kind[p][v] = "rw"
    BY <1>1, <1>2 DEF IInv, TLBMapped, TLBCoherent, PresentKinds
  <1>6. \A e \in tlb' : e \in tlb \/ e = <<v, f>>
    BY <1>1 DEF WriteTo, Invlpg
  <1>7. kind' = kind /\ frame' = frame
    BY <1>1 DEF WriteTo
  <1>8. TLBMapped'
    BY <1>2, <1>5, <1>6, <1>7 DEF IInv, TLBMapped
  <1>9. TLBCoherent'
    BY <1>2, <1>5, <1>6, <1>7 DEF IInv, TLBCoherent
  <1> QED BY <1>3, <1>4, <1>8, <1>9 DEF IInv

(***************************************************************************)
(* One PTE of the running process changes and its translation is dropped.  *)
(* The parts of the invariant about one PTE and about pairs of them follow *)
(* from what the new PTE is: writable, and the only one of its frame.      *)
(***************************************************************************)
LEMMA NewPTE ==
  ASSUME IInv, NEW p \in Procs, NEW v \in Pages, p = running,
         kind[p][v] # "none", v \notin TextPages,
         NEW g \in AllFrames,
         \A r \in Procs : \A w \in Pages :
           kind[r][w] \in PresentKinds /\ frame[r][w] = g => r = p /\ w = v,
         \A q \in Procs : \A u \in Pages :
           kind'[q][u] = IF q = p /\ u = v THEN "rw" ELSE kind[q][u],
         \A q \in Procs : \A u \in Pages :
           frame'[q][u] = IF q = p /\ u = v THEN g ELSE frame[q][u],
         ~ anon'[p][v],
         \A q \in Procs : \A u \in Pages :
           (q # p \/ u # v) => anon'[q][u] = anon[q][u],
         tlb' = Invlpg(v), alive' = alive, running' = running, given' = given,
         \A q \in Procs : \A d \in Tables :
           table'[q][d] = NoTable <=> table[q][d] = NoTable
  PROVE  /\ tlb' \in SUBSET (Pages \X Frames)
         /\ PTEsSound' /\ TextMapped' /\ DeadHaveNoTables'
         /\ WriterIsAlone' /\ SamePage' /\ TLBMapped' /\ TLBCoherent'
  <1>1. /\ TypeOK /\ PTEsSound /\ TextMapped /\ DeadHaveNoTables
        /\ WriterIsAlone /\ SamePage /\ TLBMapped /\ TLBCoherent
    BY DEF IInv
  <1>5. /\ tlb' \in SUBSET (Pages \X Frames)
        /\ \A e \in tlb' : e \in tlb /\ e[1] # v /\ e[1] \in Pages
    BY <1>1 DEF TypeOK, Invlpg
  <1>6. PTEsSound'
    <2> SUFFICES ASSUME NEW q \in Procs, NEW u \in Pages
                 PROVE  /\ kind'[q][u] \in PresentKinds
                             => frame'[q][u] \in AllFrames
                        /\ kind'[q][u] # "none" => q \in alive /\ u \in given[q]
                        /\ kind'[q][u] = "lazy"
                             => table'[q][TableOf(u)] # NoTable
                        /\ kind'[q][u] = "rw" /\ u \notin DataPages
                             => ~ anon'[q][u]
      BY DEF PTEsSound
    <2>1. /\ kind[q][u] \in PresentKinds => frame[q][u] \in AllFrames
          /\ kind[q][u] # "none" => q \in alive /\ u \in given[q]
          /\ kind[q][u] = "lazy" => table[q][TableOf(u)] # NoTable
          /\ kind[q][u] = "rw" /\ u \notin DataPages => ~ anon[q][u]
          /\ TableOf(u) \in Tables
      BY <1>1, TableFacts DEF PTEsSound
    <2>2. CASE q = p /\ u = v
      BY <2>1, <2>2
    <2>3. CASE q # p \/ u # v
      BY <2>1, <2>3
    <2> QED BY <2>2, <2>3
  <1>7. TextMapped'
    BY <1>1, SegmentsAssumption DEF TextMapped, TypeOK, Pages, Image
  <1>8. DeadHaveNoTables'
    BY <1>1 DEF DeadHaveNoTables
  <1>9. WriterIsAlone'
    <2> SUFFICES ASSUME NEW q \in Procs, NEW r \in Procs,
                        NEW u \in Pages, NEW w \in Pages,
                        kind'[q][u] = "rw", kind'[r][w] \in PresentKinds,
                        frame'[q][u] = frame'[r][w]
                 PROVE  q = r /\ u = w
      BY DEF WriterIsAlone
    <2>1. /\ kind[q][u] = "rw" /\ kind[r][w] \in PresentKinds
          /\ frame[q][u] = frame[r][w]
          => q = r /\ u = w
      BY <1>1 DEF WriterIsAlone
    <2>2. kind[q][u] = "rw" => kind[q][u] \in PresentKinds
      BY DEF PresentKinds
    <2> QED BY <2>1, <2>2
  <1>10. SamePage'
    <2> SUFFICES ASSUME NEW q \in Procs, NEW r \in Procs,
                        NEW u \in Pages, NEW w \in Pages,
                        kind'[q][u] \in PresentKinds,
                        kind'[r][w] \in PresentKinds,
                        frame'[q][u] = frame'[r][w], frame'[q][u] \in Frames
                 PROVE  u = w
      BY DEF SamePage
    <2>1. /\ kind[q][u] \in PresentKinds /\ kind[r][w] \in PresentKinds
          /\ frame[q][u] = frame[r][w] /\ frame[q][u] \in Frames
          => u = w
      BY <1>1 DEF SamePage
    <2> QED BY <2>1
  <1>11. TLBMapped' /\ TLBCoherent'
    <2> SUFFICES ASSUME NEW e \in tlb'
                 PROVE  /\ kind'[running][e[1]] \in PresentKinds
                        /\ frame'[running][e[1]] = e[2]
                        /\ e[1] \notin DataPages
                             => kind'[running][e[1]] = "rw"
      BY DEF TLBMapped, TLBCoherent
    <2>1. /\ kind[running][e[1]] \in PresentKinds
          /\ frame[running][e[1]] = e[2]
          /\ e[1] \notin DataPages => kind[running][e[1]] = "rw"
          /\ e[1] # v /\ e[1] \in Pages /\ running \in Procs
      BY <1>1, <1>5 DEF TLBMapped, TLBCoherent
    <2> QED BY <2>1
  <1> QED BY <1>5, <1>6, <1>7, <1>8, <1>9, <1>10, <1>11

(***************************************************************************)
(* A frame with one reference has one PTE: the kernel's own frame, which   *)
(* counts one more, is not taken for a private one.                        *)
(***************************************************************************)
LEMMA LastReferenceAlone ==
  ASSUME IInv, NEW p \in Procs, NEW v \in Pages, kind[p][v] \in PresentKinds,
         LastReference(frame[p][v])
  PROVE  \A r \in Procs : \A w \in Pages :
           kind[r][w] \in PresentKinds /\ frame[r][w] = frame[p][v]
             => r = p /\ w = v
  <1> DEFINE f == frame[p][v]
             M == MapOf(kind, frame, f)
  <1>1. f \in AllFrames /\ Books(kind, frame, free, ref, rmap) /\ ref[f] = 1
    BY BooksAre DEF IInv, PTEsSound, LastReference
  <1>2. <<p, v>> \in M /\ IsFiniteSet(M) /\ Cardinality(M) \in Nat
          /\ Cardinality(M) # 0
    BY MapOfFacts
  <1>3. Cardinality(M) = 1
    <2>1. CASE f \in Frames
      BY <1>1, <2>1 DEF Books
    <2>2. CASE f = KFrame
      <3>1. ref[f] = 1 + Cardinality(M)
        BY <1>1, <2>2 DEF Books
      <3> HIDE DEF M
      <3> QED BY <1>1, <1>2, <3>1
    <2> QED BY <1>1, <2>1, <2>2 DEF AllFrames
  <1>4. PICK e : M = {e}
    <2> HIDE DEF M
    <2> QED BY <1>2, <1>3, FS_Singleton
  <1> SUFFICES ASSUME NEW r \in Procs, NEW w \in Pages,
                      kind[r][w] \in PresentKinds, frame[r][w] = f
               PROVE  r = p /\ w = v
    OBVIOUS
  <1>5. <<r, w>> \in M
    BY MapOfFacts
  <1>6. <<r, w>> = <<p, v>>
    <2> HIDE DEF M
    <2> QED BY <1>2, <1>4, <1>5
  <1> QED BY <1>6

(***************************************************************************)
(* Page tables in which the same pages are present have the same counts.   *)
(***************************************************************************)
LEMMA SameCounts ==
  ASSUME IInv, table' = table,
         \A q \in Procs : \A u \in Pages :
           kind'[q][u] \in PresentKinds <=> kind[q][u] \in PresentKinds
  PROVE  CountsCover'
  <1>1. \A q \in Procs : \A d : Under(kind', q, d) = Under(kind, q, d)
    BY DEF Under
  <1> QED BY <1>1, UnderAre DEF IInv

LEMMA CowFaultInv ==
  ASSUME IInv, NEW p \in Procs, NEW v \in Pages, CowFault(p, v)
  PROVE  IInv'
  <1> DEFINE f == frame[p][v]
  <1>1. /\ kind[p][v] = "cow" /\ kind[p][v] \in PresentKinds
        /\ kind[p][v] # "none" /\ p = running /\ v \notin TextPages
        /\ alive' = alive /\ running' = running /\ given' = given
        /\ table' = table /\ leaked' = leaked
        /\ \A q \in Procs : \A d \in Tables :
             table'[q][d] = NoTable <=> table[q][d] = NoTable
    BY DEF CowFault, Runs, PresentKinds
  <1>2. /\ TypeOK /\ PTEsSound /\ Books(kind, frame, free, ref, rmap)
        /\ f \in AllFrames /\ free \subseteq Frames
    BY <1>1, BooksAre DEF IInv, PTEsSound, TypeOK
  <1>3. TablesBounded'
    BY <1>1 DEF IInv, TablesBounded, TablesUsed
  <1>4. ASSUME kind' = [kind EXCEPT ![p][v] = "rw"],
               anon' = [anon EXCEPT ![p][v] = FALSE]
        PROVE  /\ kind' \in [Procs -> [Pages -> Kinds]]
               /\ \A q \in Procs : \A u \in Pages :
                    kind'[q][u] = IF q = p /\ u = v THEN "rw" ELSE kind[q][u]
               /\ \A q \in Procs : \A u \in Pages :
                    kind'[q][u] \in PresentKinds <=> kind[q][u] \in PresentKinds
               /\ anon' \in [Procs -> [Pages -> BOOLEAN]] /\ ~ anon'[p][v]
               /\ \A q \in Procs : \A u \in Pages :
                    (q # p \/ u # v) => anon'[q][u] = anon[q][u]
    <2>1. kind \in [Procs -> [Pages -> Kinds]] /\ "rw" \in Kinds
      BY <1>2 DEF TypeOK, Kinds
    <2>2. /\ kind' \in [Procs -> [Pages -> Kinds]]
          /\ \A q \in Procs : \A u \in Pages :
               kind'[q][u] = IF q = p /\ u = v THEN "rw" ELSE kind[q][u]
      BY <1>4, <2>1, OnePTE
    <2>3. \A q \in Procs : \A u \in Pages :
            kind'[q][u] \in PresentKinds <=> kind[q][u] \in PresentKinds
      BY <1>1, <2>2 DEF PresentKinds
    <2>4. /\ anon' \in [Procs -> [Pages -> BOOLEAN]] /\ ~ anon'[p][v]
          /\ \A q \in Procs : \A u \in Pages :
               (q # p \/ u # v) => anon'[q][u] = anon[q][u]
      BY <1>2, <1>4 DEF TypeOK
    <2> QED BY <2>2, <2>3, <2>4
  <1>5. CASE /\ LastReference(f)
             /\ kind' = [kind EXCEPT ![p][v] = "rw"]
             /\ anon' = [anon EXCEPT ![p][v] = FALSE]
             /\ tlb' = Invlpg(v)
             /\ UNCHANGED <<frame, free, ref, rmap, content, down>>
    <2>1. \A r \in Procs : \A w \in Pages :
            kind[r][w] \in PresentKinds /\ frame[r][w] = f => r = p /\ w = v
      BY <1>1, <1>5, LastReferenceAlone
    <2>2. \A q \in Procs : \A u \in Pages :
            frame'[q][u] = IF q = p /\ u = v THEN f ELSE frame[q][u]
      BY <1>5
    <2>3. /\ tlb' \in SUBSET (Pages \X Frames)
          /\ PTEsSound' /\ TextMapped' /\ DeadHaveNoTables'
          /\ WriterIsAlone' /\ SamePage' /\ TLBMapped' /\ TLBCoherent'
      <3>1. f \in AllFrames /\ tlb' = Invlpg(v)
        BY <1>2, <1>5
      <3>2. /\ \A q \in Procs : \A u \in Pages :
                 kind'[q][u] = IF q = p /\ u = v THEN "rw" ELSE kind[q][u]
            /\ ~ anon'[p][v]
            /\ \A q \in Procs : \A u \in Pages :
                 (q # p \/ u # v) => anon'[q][u] = anon[q][u]
        BY <1>4, <1>5
      <3> HIDE DEF f
      <3> QED BY <1>1, <2>1, <2>2, <3>1, <3>2, NewPTE, Zenon
    <2>4. TypeOK'
      BY <1>1, <1>2, <1>4, <1>5, <2>3 DEF TypeOK
    <2>5. Books(kind', frame', free', ref', rmap')
      BY <1>2, <1>4, <1>5, BooksSame, ZenonT(30)
    <2>6. CountsCover'
      BY <1>1, <1>4, <1>5, SameCounts
    <2> QED BY <1>3, <2>3, <2>4, <2>5, <2>6, BooksAre DEF IInv
  <1>6. ASSUME ~ LastReference(f), NEW g \in free,
               frame' = [frame EXCEPT ![p][v] = g],
               free' = free \ {g},
               ref' = MoveRef(f, g),
               rmap' = MoveRMap(f, g, p, v),
               content' = [content EXCEPT ![g] = content[f]],
               kind' = [kind EXCEPT ![p][v] = "rw"],
               anon' = [anon EXCEPT ![p][v] = FALSE],
               tlb' = Invlpg(v),
               UNCHANGED down
        PROVE  IInv'
    <2>1. g \in Frames /\ g \in AllFrames /\ MapOf(kind, frame, g) = {}
      BY <1>2 DEF Books, AllFrames
    <2>2. \A r \in Procs : \A w \in Pages :
            ~ (kind[r][w] \in PresentKinds /\ frame[r][w] = g)
      BY <2>1, MapOfFacts
    <2>7. /\ frame' \in [Procs -> [Pages -> AllFrames \cup {NoFrame}]]
          /\ \A q \in Procs : \A u \in Pages :
               frame'[q][u] = IF q = p /\ u = v THEN g ELSE frame[q][u]
      <3>1. /\ frame \in [Procs -> [Pages -> AllFrames \cup {NoFrame}]]
            /\ g \in AllFrames \cup {NoFrame}
        BY <1>2, <2>1 DEF TypeOK
      <3> QED BY <1>6, <3>1, OnePTE
    <2>3. /\ tlb' \in SUBSET (Pages \X Frames)
          /\ PTEsSound' /\ TextMapped' /\ DeadHaveNoTables'
          /\ WriterIsAlone' /\ SamePage' /\ TLBMapped' /\ TLBCoherent'
      <3>1. /\ \A q \in Procs : \A u \in Pages :
                 kind'[q][u] = IF q = p /\ u = v THEN "rw" ELSE kind[q][u]
            /\ ~ anon'[p][v]
            /\ \A q \in Procs : \A u \in Pages :
                 (q # p \/ u # v) => anon'[q][u] = anon[q][u]
        BY <1>4, <1>6
      <3>2. \A r \in Procs : \A w \in Pages :
              kind[r][w] \in PresentKinds /\ frame[r][w] = g => r = p /\ w = v
        BY <2>2
      <3>3. g \in AllFrames /\ tlb' = Invlpg(v)
        BY <1>6, <2>1
      <3>4. \A q \in Procs : \A u \in Pages :
              frame'[q][u] = IF q = p /\ u = v THEN g ELSE frame[q][u]
        BY <2>7
      <3> QED BY <1>1, <3>1, <3>2, <3>3, <3>4, NewPTE, Zenon
    <2>4. Books(kind', frame', free', ref', rmap')
      <3>1. /\ ref \in [AllFrames -> Nat]
            /\ rmap \in [AllFrames -> SUBSET PTEs]
        BY <1>2 DEF TypeOK, PTEs
      <3>2. ref[f] # 1
        BY <1>6 DEF LastReference
      <3>4. Books(kind', frame', free \ {g},
                  [ref EXCEPT ![f] = @ - 1, ![g] = 1],
                  [rmap EXCEPT ![f] = @ \ {<<p, v>>}, ![g] = {<<p, v>>}])
        BY <1>1, <1>2, <1>4, <1>6, <2>7, <3>1, <3>2, BooksMove, ZenonT(30)
      <3> QED BY <1>6, <3>4 DEF MoveRef, MoveRMap
    <2>5. TypeOK'
      <3>1. ref' \in [AllFrames -> Nat]
        <4>1. ref[f] \in Nat /\ ref[f] # 0
          <5>1. <<p, v>> \in MapOf(kind, frame, f)
            BY <1>1, MapOfFacts
          <5>2. /\ Cardinality(MapOf(kind, frame, f)) # 0
                /\ Cardinality(MapOf(kind, frame, f)) \in Nat
            BY <5>1, MapOfFacts
          <5>3. CASE f \in Frames
            BY <1>2, <5>2, <5>3 DEF Books
          <5>4. CASE f = KFrame
            <6>1. ref[f] = 1 + Cardinality(MapOf(kind, frame, f))
              BY <1>2, <5>4 DEF Books
            <6> HIDE DEF f
            <6> QED BY <5>2, <6>1
          <5> QED BY <1>2, <5>3, <5>4 DEF AllFrames
        <4>2. ref[f] - 1 \in Nat
          <5> HIDE DEF f
          <5> QED BY <4>1
        <4> QED BY <1>2, <1>6, <2>1, <4>2 DEF TypeOK, MoveRef
      <3>2. rmap' \in [AllFrames -> SUBSET (Procs \X Pages)]
        <4>1. rmap[f] \ {<<p, v>>} \in SUBSET (Procs \X Pages)
                /\ {<<p, v>>} \in SUBSET (Procs \X Pages)
          BY <1>2 DEF TypeOK
        <4>2. /\ rmap \in [AllFrames -> SUBSET (Procs \X Pages)]
              /\ rmap' = [rmap EXCEPT ![f] = rmap[f] \ {<<p, v>>},
                                      ![g] = {<<p, v>>}]
          BY <1>2, <1>6 DEF TypeOK, MoveRMap
        <4> HIDE DEF f
        <4> QED BY <4>1, <4>2
      <3>3. content' \in [AllFrames -> Values]
        BY <1>2, <1>6, <2>1 DEF TypeOK
      <3> QED BY <1>1, <1>2, <1>4, <1>6, <2>3, <2>7, <3>1, <3>2, <3>3 DEF TypeOK
    <2>6. CountsCover'
      BY <1>1, <1>4, <1>6, SameCounts
    <2> QED BY <1>3, <2>3, <2>4, <2>5, <2>6, BooksAre DEF IInv
  <1>7. CASE /\ down' = TRUE
             /\ UNCHANGED <<kind, frame, anon, free, ref, rmap, content, tlb>>
    BY <1>1, <1>7, DownInv
  <1> QED BY <1>5, <1>6, <1>7 DEF CowFault

(***************************************************************************)
(* Page tables with the same entries in use.                               *)
(***************************************************************************)
LEMMA SameTables ==
  ASSUME IInv, leaked' = leaked,
         \A q \in Procs : \A d \in Tables :
           table'[q][d] = NoTable <=> table[q][d] = NoTable
  PROVE  TablesBounded'
  <1>1. InUse(table') = InUse(table)
    BY DEF InUse
  <1>2. TablesUsed = leaked + Cardinality(InUse(table))
    BY DEF TablesUsed, InUse
  <1>3. TablesUsed' = leaked' + Cardinality(InUse(table'))
    BY DEF TablesUsed, InUse
  <1> QED BY <1>1, <1>2, <1>3 DEF IInv, TablesBounded

LEMMA OneCount ==
  ASSUME NEW T, NEW c \in [Procs -> [Tables -> T]], NEW p \in Procs,
         NEW t \in Tables, NEW x \in T
  PROVE  /\ [c EXCEPT ![p][t] = x] \in [Procs -> [Tables -> T]]
         /\ \A q \in Procs : \A d \in Tables :
              [c EXCEPT ![p][t] = x][q][d]
                = IF q = p /\ d = t THEN x ELSE c[q][d]
  OBVIOUS

(***************************************************************************)
(* One more entry under a page table that is there, and counted.           *)
(***************************************************************************)
LEMMA OneMoreEntry ==
  ASSUME IInv, NEW p \in Procs, NEW v \in Pages,
         table[p][TableOf(v)] # NoTable,
         table' = [table EXCEPT ![p][TableOf(v)] = PDEinc(@, 1)],
         \A q \in Procs : \A u \in Pages : (q # p \/ u # v) =>
           (kind'[q][u] \in PresentKinds <=> kind[q][u] \in PresentKinds)
  PROVE  /\ table' \in [Procs -> [Tables -> {NoTable} \cup 0 .. CountCap]]
         /\ \A q \in Procs : \A d \in Tables :
              table'[q][d] = NoTable <=> table[q][d] = NoTable
         /\ CountsCover'
  <1> DEFINE t == TableOf(v)
             n == table[p][t]
  <1>1. /\ table \in [Procs -> [Tables -> {NoTable} \cup 0 .. CountCap]]
        /\ t \in Tables /\ CountsCover
    BY TableFacts DEF IInv, TypeOK
  <1>2. n \in 0 .. CountCap /\ n # NoTable
    BY <1>1
  <1>3. /\ PDEinc(n, 1) \in 0 .. CountCap /\ PDEinc(n, 1) # NoTable
        /\ PDEinc(n, 1) = CountCap \/ PDEinc(n, 1) = n + 1
    <2> HIDE DEF n
    <2> QED BY <1>2, PDEincFacts DEF NoTable
  <1>4. table' = [table EXCEPT ![p][t] = PDEinc(n, 1)]
    OBVIOUS
  <1> HIDE DEF t
  <1>5. /\ table' \in [Procs -> [Tables -> {NoTable} \cup 0 .. CountCap]]
        /\ table'[p][t] = PDEinc(n, 1)
        /\ \A q \in Procs : \A d \in Tables :
             q # p \/ d # t => table'[q][d] = table[q][d]
    <2> DEFINE T == {NoTable} \cup 0 .. CountCap
    <2>1. PICK x : x = PDEinc(n, 1)
      OBVIOUS
    <2>2. /\ table \in [Procs -> [Tables -> T]] /\ x \in T /\ t \in Tables
          /\ table' = [table EXCEPT ![p][t] = x]
      BY <1>1, <1>3, <1>4, <2>1
    <2> HIDE DEF n, T
    <2>3. /\ [table EXCEPT ![p][t] = x] \in [Procs -> [Tables -> T]]
          /\ \A q \in Procs : \A d \in Tables :
               [table EXCEPT ![p][t] = x][q][d]
                 = IF q = p /\ d = t THEN x ELSE table[q][d]
      BY <2>2, OneCount
    <2>4. /\ table' \in [Procs -> [Tables -> T]]
          /\ \A q \in Procs : \A d \in Tables :
               table'[q][d] = IF q = p /\ d = t THEN x ELSE table[q][d]
      BY <2>2, <2>3, Zenon
    <2> QED BY <1>1, <2>1, <2>4 DEF T
  <1>6. \A q \in Procs : \A d \in Tables :
          table'[q][d] = NoTable <=> table[q][d] = NoTable
    <2> HIDE DEF n
    <2>1. table[p][t] = n
      BY DEF n
    <2> QED BY <1>2, <1>3, <1>5, <2>1
  <1>7. ASSUME NEW q \in Procs, NEW d \in Tables
        PROVE  Covers(table'[q][d], Under(kind', q, d))
    <2>1. Covers(table[q][d], Under(kind, q, d))
      BY <1>1, UnderAre
    <2>2. CASE q # p \/ d # t
      <3>1. Under(kind', q, d) = Under(kind, q, d)
        BY <2>2 DEF Under, t
      <3> QED BY <1>5, <2>1, <2>2, <3>1
    <2>3. CASE q = p /\ d = t
      <3> DEFINE A == Under(kind, p, t)
                 B == Under(kind', p, t)
      <3>1. B \subseteq A \cup {v}
        BY DEF Under
      <3>2. /\ IsFiniteSet(A) /\ Cardinality(A) \in Nat
            /\ IsFiniteSet(B) /\ Cardinality(B) \in Nat
        BY UnderFacts
      <3>3. n = CountCap \/ n >= Cardinality(A)
        BY <1>2, <2>1, <2>3 DEF Covers
      <3> HIDE DEF A, B, n
      <3>4. Cardinality(B) <= Cardinality(A) + 1
        <4>1. /\ IsFiniteSet(A \cup {v})
              /\ Cardinality(A \cup {v}) = IF v \in A THEN Cardinality(A)
                                           ELSE Cardinality(A) + 1
          BY <3>2, FS_AddElement
        <4>2. Cardinality(B) <= Cardinality(A \cup {v})
          BY <3>1, <4>1, FS_Subset
        <4> QED BY <3>2, <4>1, <4>2
      <3>5. PDEinc(n, 1) = CountCap \/ PDEinc(n, 1) >= Cardinality(B)
        <4>1. CASE n = CountCap
          BY <1>2, <1>3, <4>1, BoundsAssumption
        <4>2. CASE n >= Cardinality(A)
          BY <1>2, <1>3, <3>2, <3>4, <4>2, BoundsAssumption
        <4> QED BY <3>3, <4>1, <4>2
      <3> QED BY <1>3, <1>5, <2>3, <3>5 DEF Covers, B
    <2> QED BY <2>2, <2>3
  <1>8. CountsCover'
    BY <1>7, UnderAre
  <1> QED BY <1>5, <1>6, <1>8

LEMMA DemandZeroInv ==
  ASSUME IInv, NEW p \in Procs, NEW v \in Pages, DemandZero(p, v)
  PROVE  IInv'
  <1>1. /\ kind[p][v] = "lazy" /\ kind[p][v] \notin PresentKinds
        /\ kind[p][v] # "none" /\ p = running /\ p \in alive
        /\ alive' = alive /\ running' = running /\ given' = given
        /\ leaked' = leaked
    BY DEF DemandZero, Runs, PresentKinds
  <1>2. /\ TypeOK /\ PTEsSound /\ Books(kind, frame, free, ref, rmap)
        /\ free \subseteq Frames /\ v \notin TextPages
        /\ table[p][TableOf(v)] # NoTable
    BY <1>1, BooksAre DEF IInv, PTEsSound, TypeOK, TextMapped
  <1>3. ASSUME NEW g \in free,
               frame' = [frame EXCEPT ![p][v] = g],
               free' = free \ {g},
               ref' = [ref EXCEPT ![g] = 1],
               rmap' = [rmap EXCEPT ![g] = {<<p, v>>}],
               content' = [content EXCEPT ![g] = 0],
               kind' = [kind EXCEPT ![p][v] = "rw"],
               anon' = [anon EXCEPT ![p][v] = FALSE],
               table' = [table EXCEPT ![p][TableOf(v)] = PDEinc(@, 1)],
               tlb' = Invlpg(v),
               UNCHANGED down
        PROVE  IInv'
    <2>1. g \in Frames /\ g \in AllFrames /\ MapOf(kind, frame, g) = {}
      BY <1>2 DEF Books, AllFrames
    <2>2. \A r \in Procs : \A w \in Pages :
            kind[r][w] \in PresentKinds /\ frame[r][w] = g => r = p /\ w = v
      BY <2>1, MapOfFacts
    <2>3. /\ kind' \in [Procs -> [Pages -> Kinds]]
          /\ \A q \in Procs : \A u \in Pages :
               kind'[q][u] = IF q = p /\ u = v THEN "rw" ELSE kind[q][u]
      <3>1. kind \in [Procs -> [Pages -> Kinds]] /\ "rw" \in Kinds
        BY <1>2 DEF TypeOK, Kinds
      <3> QED BY <1>3, <3>1, OnePTE
    <2>4. /\ anon' \in [Procs -> [Pages -> BOOLEAN]] /\ ~ anon'[p][v]
          /\ \A q \in Procs : \A u \in Pages :
               (q # p \/ u # v) => anon'[q][u] = anon[q][u]
      BY <1>2, <1>3 DEF TypeOK
    <2>5. /\ frame' \in [Procs -> [Pages -> AllFrames \cup {NoFrame}]]
          /\ \A q \in Procs : \A u \in Pages :
               frame'[q][u] = IF q = p /\ u = v THEN g ELSE frame[q][u]
      <3>1. /\ frame \in [Procs -> [Pages -> AllFrames \cup {NoFrame}]]
            /\ g \in AllFrames \cup {NoFrame}
        BY <1>2, <2>1 DEF TypeOK
      <3> QED BY <1>3, <3>1, OnePTE
    <2>6. /\ table' \in [Procs -> [Tables -> {NoTable} \cup 0 .. CountCap]]
          /\ \A q \in Procs : \A d \in Tables :
               table'[q][d] = NoTable <=> table[q][d] = NoTable
          /\ CountsCover'
      <3>1. \A q \in Procs : \A u \in Pages : (q # p \/ u # v) =>
              (kind'[q][u] \in PresentKinds <=> kind[q][u] \in PresentKinds)
        BY <2>3
      <3>2. table[p][TableOf(v)] # NoTable
        BY <1>2
      <3>3. table' = [table EXCEPT ![p][TableOf(v)] = PDEinc(@, 1)]
        BY <1>3
      <3> QED BY <3>1, <3>2, <3>3, OneMoreEntry, Zenon
    <2>7. /\ tlb' \in SUBSET (Pages \X Frames)
          /\ PTEsSound' /\ TextMapped' /\ DeadHaveNoTables'
          /\ WriterIsAlone' /\ SamePage' /\ TLBMapped' /\ TLBCoherent'
      <3>1. \A q \in Procs : \A u \in Pages :
              kind'[q][u] = IF q = p /\ u = v THEN "rw" ELSE kind[q][u]
        BY <2>3
      <3>2. \A q \in Procs : \A u \in Pages :
              frame'[q][u] = IF q = p /\ u = v THEN g ELSE frame[q][u]
        BY <2>5
      <3>3. g \in AllFrames /\ tlb' = Invlpg(v) /\ v \notin TextPages
        BY <1>2, <1>3, <2>1
      <3>4. /\ ~ anon'[p][v]
            /\ \A q \in Procs : \A u \in Pages :
                 (q # p \/ u # v) => anon'[q][u] = anon[q][u]
        BY <2>4
      <3>5. \A q \in Procs : \A d \in Tables :
              table'[q][d] = NoTable <=> table[q][d] = NoTable
        BY <2>6
      <3> QED BY <1>1, <2>2, <3>1, <3>2, <3>3, <3>4, <3>5, NewPTE, Zenon
    <2>8. Books(kind', frame', free', ref', rmap')
      <3> DEFINE h == [u \in {v} |-> g]
      <3>1. /\ {v} \subseteq Pages /\ \A u \in {v} : kind[p][u] \notin PresentKinds
            /\ h \in [{v} -> free] /\ \A u, w \in {v} : h[u] = h[w] => u = w
        BY <1>1
      <3>2. \A q \in Procs : \A u \in Pages :
              /\ kind'[q][u] \in PresentKinds
                   <=> kind[q][u] \in PresentKinds \/ (q = p /\ u \in {v})
              /\ kind'[q][u] \in PresentKinds =>
                   frame'[q][u] = IF q = p /\ u \in {v} THEN h[u]
                                  ELSE frame[q][u]
        BY <2>3, <2>5 DEF PresentKinds
      <3>3. free' = free \ {h[u] : u \in {v}}
        BY <1>3
      <3>4. rmap[g] = {}
        BY <1>2, <2>1 DEF Books
      <3>5. \A x \in AllFrames :
              ref'[x] = IF \E u \in {v} : h[u] = x THEN 1 ELSE ref[x]
        BY <1>2, <1>3 DEF TypeOK
      <3>6. /\ \A x \in AllFrames : \A u \in {v} : h[u] = x =>
                 rmap'[x] = rmap[x] \cup {<<p, u>>}
            /\ \A x \in AllFrames : (\A u \in {v} : h[u] # x) =>
                 rmap'[x] = rmap[x]
        BY <1>2, <1>3, <2>1, <3>4 DEF TypeOK
      <3> DEFINE D == {v}
      <3> HIDE DEF h, D
      <3>7. /\ D \subseteq Pages /\ \A u \in D : kind[p][u] \notin PresentKinds
            /\ h \in [D -> free] /\ \A u, w \in D : h[u] = h[w] => u = w
        BY <3>1 DEF D
      <3>8. \A q \in Procs : \A u \in Pages :
              /\ kind'[q][u] \in PresentKinds
                   <=> kind[q][u] \in PresentKinds \/ (q = p /\ u \in D)
              /\ kind'[q][u] \in PresentKinds =>
                   frame'[q][u] = IF q = p /\ u \in D THEN h[u]
                                  ELSE frame[q][u]
        BY <3>2 DEF D
      <3>9. /\ free' = free \ {h[u] : u \in D}
            /\ \A x \in AllFrames :
                 ref'[x] = IF \E u \in D : h[u] = x THEN 1 ELSE ref[x]
            /\ \A x \in AllFrames : \A u \in D : h[u] = x =>
                 rmap'[x] = rmap[x] \cup {<<p, u>>}
            /\ \A x \in AllFrames : (\A u \in D : h[u] # x) =>
                 rmap'[x] = rmap[x]
        BY <3>3, <3>5, <3>6 DEF D
      <3> QED BY <1>2, <3>7, <3>8, <3>9, BooksLoad
    <2>9. TypeOK'
      <3>1. ref' \in [AllFrames -> Nat]
        BY <1>2, <1>3 DEF TypeOK
      <3>2. rmap' \in [AllFrames -> SUBSET (Procs \X Pages)]
        <4>1. {<<p, v>>} \in SUBSET (Procs \X Pages)
          OBVIOUS
        <4> QED BY <1>2, <1>3, <4>1 DEF TypeOK
      <3>3. content' \in [AllFrames -> Values]
        BY <1>2, <1>3, ValuesAssumption DEF TypeOK
      <3> QED BY <1>1, <1>2, <1>3, <2>3, <2>4, <2>5, <2>6, <2>7,
                 <3>1, <3>2, <3>3 DEF TypeOK
    <2>10. TablesBounded'
      BY <1>1, <2>6, SameTables
    <2> QED BY <2>6, <2>7, <2>8, <2>9, <2>10, BooksAre DEF IInv
  <1>4. CASE /\ down' = TRUE
             /\ UNCHANGED <<kind, frame, anon, free, ref, rmap, content, tlb,
                            table>>
    BY <1>1, <1>4, DownInv
  <1> QED BY <1>3, <1>4 DEF DemandZero

LEMMA GoDownInv ==
  ASSUME IInv, GoDown
  PROVE  IInv'
  BY DownInv DEF GoDown

(***************************************************************************)
(* expandHeap: a page the process was not given has no PTE and no cached   *)
(* translation, and the page table of its text is there.                   *)
(***************************************************************************)
LEMMA ExpandHeapInv ==
  ASSUME IInv, NEW p \in Procs, NEW v \in Pages, ExpandHeap(p, v)
  PROVE  IInv'
  <1>1. /\ p = running /\ p \in alive /\ v \in HeapPages /\ v \notin given[p]
        /\ given' = [given EXCEPT ![p] = @ \cup {v}]
        /\ kind' = [kind EXCEPT ![p][v] = "lazy"]
        /\ table' = [table EXCEPT ![p][TextTable] = PDEinc(@, 1)]
        /\ alive' = alive /\ running' = running /\ frame' = frame
        /\ anon' = anon /\ free' = free /\ ref' = ref /\ rmap' = rmap
        /\ content' = content /\ tlb' = tlb /\ leaked' = leaked /\ down' = down
    BY DEF ExpandHeap, Runs
  <1>2. /\ TypeOK /\ PTEsSound /\ TextMapped /\ DeadHaveNoTables
        /\ Books(kind, frame, free, ref, rmap) /\ CountsCover
        /\ WriterIsAlone /\ SamePage /\ TLBMapped /\ TLBCoherent
        /\ kind[p][v] = "none" /\ v \notin TextPages
    BY <1>1, BooksAre, SegmentsAssumption DEF IInv, PTEsSound, TypeOK, Image
  <1>3. TableOf(v) = TextTable /\ TextTable \in Tables
    BY <1>1, TableFacts
  <1>4. table[p][TextTable] # NoTable
    <2>1. PICK u \in TextPages : TRUE
      BY SegmentsAssumption
    <2>2. u \in Under(kind, p, TextTable)
      BY <1>1, <1>2, TableFacts DEF TextMapped, Under, PresentKinds, Pages, Image
    <2>3. Cardinality(Under(kind, p, TextTable)) # 0
      BY <2>2, UnderFacts
    <2>4. Covers(table[p][TextTable], Under(kind, p, TextTable))
      BY <1>2, <1>3, UnderAre
    <2> QED BY <2>3, <2>4 DEF Covers
  <1>5. /\ kind' \in [Procs -> [Pages -> Kinds]]
        /\ \A q \in Procs : \A u \in Pages :
             kind'[q][u] = IF q = p /\ u = v THEN "lazy" ELSE kind[q][u]
    <2>1. kind \in [Procs -> [Pages -> Kinds]] /\ "lazy" \in Kinds
      BY <1>2 DEF TypeOK, Kinds
    <2> QED BY <1>1, <2>1, OnePTE
  <1>6. \A q \in Procs : \A u \in Pages :
          /\ kind'[q][u] \in PresentKinds <=> kind[q][u] \in PresentKinds
          /\ kind'[q][u] \in PresentKinds => kind'[q][u] = kind[q][u]
    BY <1>2, <1>5 DEF PresentKinds
  <1>7. /\ table' \in [Procs -> [Tables -> {NoTable} \cup 0 .. CountCap]]
        /\ \A q \in Procs : \A d \in Tables :
             table'[q][d] = NoTable <=> table[q][d] = NoTable
        /\ CountsCover'
    <2>1. table[p][TableOf(v)] # NoTable
      BY <1>3, <1>4
    <2>2. table' = [table EXCEPT ![p][TableOf(v)] = PDEinc(@, 1)]
      BY <1>1, <1>3
    <2>3. \A q \in Procs : \A u \in Pages : (q # p \/ u # v) =>
            (kind'[q][u] \in PresentKinds <=> kind[q][u] \in PresentKinds)
      BY <1>6
    <2> QED BY <2>1, <2>2, <2>3, OneMoreEntry, Zenon
  <1>8. /\ given' \in [Procs -> SUBSET Pages]
        /\ \A q \in Procs : \A u \in given[q] : u \in given'[q]
        /\ v \in given'[p]
    BY <1>1, <1>2 DEF TypeOK
  <1>9. TypeOK'
    BY <1>1, <1>2, <1>5, <1>7, <1>8 DEF TypeOK
  <1>10. PTEsSound'
    <2> SUFFICES ASSUME NEW q \in Procs, NEW u \in Pages
                 PROVE  /\ kind'[q][u] \in PresentKinds
                             => frame[q][u] \in AllFrames
                        /\ kind'[q][u] # "none" => q \in alive /\ u \in given'[q]
                        /\ kind'[q][u] = "lazy"
                             => table'[q][TableOf(u)] # NoTable
                        /\ kind'[q][u] = "rw" /\ u \notin DataPages
                             => ~ anon[q][u]
      BY <1>1 DEF PTEsSound
    <2>1. /\ kind[q][u] \in PresentKinds => frame[q][u] \in AllFrames
          /\ kind[q][u] # "none" => q \in alive /\ u \in given[q]
          /\ kind[q][u] = "lazy" => table[q][TableOf(u)] # NoTable
          /\ kind[q][u] = "rw" /\ u \notin DataPages => ~ anon[q][u]
          /\ TableOf(u) \in Tables
      BY <1>2, TableFacts DEF PTEsSound
    <2>2. CASE q = p /\ u = v
      BY <1>1, <1>3, <1>4, <1>5, <1>7, <1>8, <2>2 DEF PresentKinds
    <2>3. CASE q # p \/ u # v
      <3>1. kind'[q][u] = kind[q][u]
        BY <1>5, <2>3
      <3>2. table'[q][TableOf(u)] = NoTable <=> table[q][TableOf(u)] = NoTable
        BY <1>7, <2>1
      <3>3. u \in given[q] => u \in given'[q]
        BY <1>8
      <3> QED BY <2>1, <3>1, <3>2, <3>3
    <2> QED BY <2>2, <2>3
  <1>11. TextMapped' /\ DeadHaveNoTables'
    BY <1>1, <1>2, <1>5, <1>7 DEF TextMapped, DeadHaveNoTables, TypeOK, Pages, Image
  <1>12. Books(kind', frame', free', ref', rmap')
    BY <1>1, <1>2, <1>6, BooksSame
  <1>13. WriterIsAlone' /\ SamePage'
    <2>1. \A q \in Procs : \A u \in Pages :
            /\ kind'[q][u] \in PresentKinds => kind[q][u] \in PresentKinds
            /\ kind'[q][u] = "rw" => kind[q][u] = "rw"
      BY <1>6 DEF PresentKinds
    <2> QED BY <1>1, <1>2, <2>1 DEF WriterIsAlone, SamePage
  <1>14. TLBMapped' /\ TLBCoherent'
    <2>1. \A e \in tlb : e[1] \in Pages /\ kind[p][e[1]] \in PresentKinds
      BY <1>1, <1>2 DEF TypeOK, TLBMapped
    <2>2. \A e \in tlb : kind'[p][e[1]] = kind[p][e[1]]
      BY <1>2, <1>5, <2>1 DEF PresentKinds
    <2> QED BY <1>1, <1>2, <2>2 DEF TLBMapped, TLBCoherent
  <1>15. TablesBounded'
    BY <1>1, <1>7, SameTables
  <1> QED BY <1>7, <1>9, <1>10, <1>11, <1>12, <1>13, <1>14, <1>15, BooksAre
          DEF IInv

-----------------------------------------------------------------------------
(***************************************************************************)
(* setCOW reaches every PTE of the frames the parent maps, by way of their *)
(* reverse maps, and no page that is not present.                          *)
(***************************************************************************)
LEMMA SharedAre ==
  ASSUME IInv, NEW p \in Procs, NEW q \in Procs, NEW u \in Pages
  PROVE  <<q, u>> \in SharedPTEs(p) <=>
           /\ kind[q][u] \in PresentKinds
           /\ \E w \in Pages : /\ kind[p][w] \in PresentKinds
                               /\ frame[q][u] = frame[p][w]
  <1>1. Books(kind, frame, free, ref, rmap) /\ PTEsSound
    BY BooksAre DEF IInv
  <1>2. <<q, u>> \in SharedPTEs(p) <=>
          \E w \in Pages : /\ kind[p][w] \in PresentKinds
                           /\ <<q, u>> \in rmap[frame[p][w]]
    BY DEF SharedPTEs, Present
  <1>3. ASSUME NEW w \in Pages, kind[p][w] \in PresentKinds
        PROVE  <<q, u>> \in rmap[frame[p][w]] <=>
                 kind[q][u] \in PresentKinds /\ frame[q][u] = frame[p][w]
    <2>1. frame[p][w] \in AllFrames
      BY <1>1, <1>3 DEF PTEsSound
    <2>2. rmap[frame[p][w]] = MapOf(kind, frame, frame[p][w])
      BY <1>1, <2>1 DEF Books, AllFrames
    <2> QED BY <2>2, MapOfFacts
  <1> QED BY <1>2, <1>3

(***************************************************************************)
(* The page tables of an address space that replaces an empty one.         *)
(***************************************************************************)
LEMMA NewSpaceTables ==
  ASSUME IInv, NEW c \in Procs, NEW S, S \subseteq Pages,
         NEW t \in [Tables -> {NoTable} \cup 0 .. CountCap], t = NewTables(S),
         \A q \in Procs \ {c} : table'[q] = table[q], table'[c] = t,
         \A q \in Procs \ {c} : \A u \in Pages :
           kind'[q][u] \in PresentKinds <=> kind[q][u] \in PresentKinds,
         \A u \in Pages : kind'[c][u] \in PresentKinds => u \in S,
         leaked' \in Nat
  PROVE  /\ CountsCover'
         /\ TablesUsed' = leaked' + Cardinality(OthersInUse(table, c))
                            + Cardinality(NeededTables(S))
  <1>1. /\ \A d \in Tables : t[d] # NoTable <=> d \in NeededTables(S)
        /\ \A d \in Tables : \A R :
             (R \subseteq S /\ \A v \in R : TableOf(v) = d) => Covers(t[d], R)
        /\ NeededTables(S) \subseteq Tables
    BY NewTablesFacts
  <1>2. ASSUME NEW q \in Procs, NEW d \in Tables
        PROVE  Covers(table'[q][d], Under(kind', q, d))
    <2>1. CASE q = c
      <3> DEFINE R == Under(kind', c, d)
      <3>1. R \subseteq S /\ \A v \in R : TableOf(v) = d
        BY DEF Under
      <3> HIDE DEF R
      <3>2. Covers(t[d], R)
        BY <1>1, <3>1
      <3> QED BY <2>1, <3>2 DEF R
    <2>2. CASE q # c
      <3>1. Under(kind', q, d) = Under(kind, q, d)
        BY <2>2 DEF Under
      <3>2. Covers(table[q][d], Under(kind, q, d))
        BY UnderAre DEF IInv
      <3> QED BY <2>2, <3>1, <3>2
    <2> QED BY <2>1, <2>2
  <1>3. CountsCover'
    BY <1>2, UnderAre
  <1>4. OthersInUse(table', c) = OthersInUse(table, c)
    BY DEF OthersInUse
  <1>5. OwnInUse(table', c) = NeededTables(S)
    BY <1>1 DEF OwnInUse
  <1>6. TablesUsed' = leaked' + Cardinality(InUse(table'))
    BY DEF TablesUsed, InUse
  <1>7. /\ Cardinality(InUse(table')) = Cardinality(OthersInUse(table', c))
                                          + Cardinality(OwnInUse(table', c))
        /\ Cardinality(OthersInUse(table', c)) \in Nat
        /\ Cardinality(OwnInUse(table', c)) \in Nat
    BY InUseSplit
  <1>8. TablesUsed' = leaked' + Cardinality(OthersInUse(table, c))
                        + Cardinality(NeededTables(S))
    BY <1>4, <1>5, <1>6, <1>7
  <1> QED BY <1>3, <1>8

(***************************************************************************)
(* fork: what changes, PTE by PTE.                                         *)
(***************************************************************************)
LEMMA ForkKinds ==
  ASSUME IInv, NEW p \in Procs, NEW c \in Procs, c # p,
         kind' = [SetCOW(p) EXCEPT ![c] =
                    [v \in Pages |-> IF v \in Present(p) THEN "cow" ELSE "none"]],
         frame' = [frame EXCEPT ![c] = frame[p]]
  PROVE  /\ kind' \in [Procs -> [Pages -> Kinds]]
         /\ frame' \in [Procs -> [Pages -> AllFrames \cup {NoFrame}]]
         /\ \A q \in Procs \ {c} : \A u \in Pages :
              /\ frame'[q][u] = frame[q][u]
              /\ \/ kind'[q][u] = "cow" /\ kind[q][u] \in PresentKinds
                 \/ kind'[q][u] = kind[q][u]
              /\ kind'[q][u] = "rw" =>
                   \A w \in Pages : kind[p][w] \in PresentKinds
                                      => frame[q][u] # frame[p][w]
         /\ \A u \in Pages :
              /\ frame'[c][u] = frame[p][u]
              /\ kind'[c][u] = IF kind[p][u] \in PresentKinds
                               THEN "cow" ELSE "none"
  <1>1. /\ kind \in [Procs -> [Pages -> Kinds]]
        /\ frame \in [Procs -> [Pages -> AllFrames \cup {NoFrame}]]
        /\ "cow" \in Kinds /\ "none" \in Kinds
    BY DEF IInv, TypeOK, Kinds
  <1>2. /\ SetCOW(p) \in [Procs -> [Pages -> Kinds]]
        /\ \A q \in Procs : \A u \in Pages :
             SetCOW(p)[q][u] = IF <<q, u>> \in SharedPTEs(p) THEN "cow"
                               ELSE kind[q][u]
    BY <1>1 DEF SetCOW
  <1>3. /\ kind' \in [Procs -> [Pages -> Kinds]]
        /\ \A q \in Procs \ {c} : \A u \in Pages :
             kind'[q][u] = SetCOW(p)[q][u]
        /\ \A u \in Pages : kind'[c][u] = IF kind[p][u] \in PresentKinds
                                          THEN "cow" ELSE "none"
    BY <1>1, <1>2 DEF Present
  <1>4. /\ frame' \in [Procs -> [Pages -> AllFrames \cup {NoFrame}]]
        /\ \A q \in Procs \ {c} : frame'[q] = frame[q]
        /\ frame'[c] = frame[p]
    BY <1>1
  <1>5. ASSUME NEW q \in Procs \ {c}, NEW u \in Pages
        PROVE  /\ \/ kind'[q][u] = "cow" /\ kind[q][u] \in PresentKinds
                  \/ kind'[q][u] = kind[q][u]
               /\ kind'[q][u] = "rw" =>
                    \A w \in Pages : kind[p][w] \in PresentKinds
                                       => frame[q][u] # frame[p][w]
    <2>1. <<q, u>> \in SharedPTEs(p) <=>
            /\ kind[q][u] \in PresentKinds
            /\ \E w \in Pages : /\ kind[p][w] \in PresentKinds
                                /\ frame[q][u] = frame[p][w]
      BY SharedAre
    <2>2. kind'[q][u] = IF <<q, u>> \in SharedPTEs(p) THEN "cow"
                        ELSE kind[q][u]
      BY <1>2, <1>3
    <2>3. CASE <<q, u>> \in SharedPTEs(p)
      BY <2>1, <2>2, <2>3
    <2>4. CASE <<q, u>> \notin SharedPTEs(p)
      <3>1. kind'[q][u] = "rw" => kind[q][u] \in PresentKinds
        BY <2>2, <2>4 DEF PresentKinds
      <3> QED BY <2>1, <2>2, <2>4, <3>1
    <2> QED BY <2>3, <2>4
  <1> QED BY <1>3, <1>4, <1>5

(* After fork the TLB holds no translation but those of data pages. *)
LEMMA ForkFlush ==
  ASSUME IInv, NEW e \in FlushShared(running)
  PROVE  e \in tlb /\ e[1] \in DataPages
  <1>1. /\ e \in tlb /\ e[1] \in Pages
        /\ e[1] \in Present(running) => anon[running][e[1]]
    BY DEF FlushShared, IInv, TypeOK
  <1>2. anon[running][e[1]]
    BY <1>1 DEF IInv, TLBMapped, Present
  <1>3. e[1] \notin DataPages => kind[running][e[1]] = "rw"
    BY <1>1 DEF IInv, TLBCoherent
  <1>4. kind[running][e[1]] = "rw" /\ e[1] \notin DataPages
          => ~ anon[running][e[1]]
    BY <1>1 DEF IInv, PTEsSound, TypeOK
  <1> QED BY <1>1, <1>2, <1>3, <1>4

LEMMA ForkInv ==
  ASSUME IInv, NEW p \in Procs, NEW c \in Procs, Fork(p, c)
  PROVE  IInv'
  <1>1. /\ p = running /\ p \in alive /\ c \notin alive /\ c # p
        /\ running' = running /\ free' = free /\ content' = content
        /\ leaked' = leaked
    BY DEF Fork, Runs
  <1>2. /\ TypeOK /\ PTEsSound /\ TextMapped /\ DeadHaveNoTables
        /\ Books(kind, frame, free, ref, rmap) /\ CountsCover
        /\ WriterIsAlone /\ SamePage /\ TLBMapped /\ TLBCoherent
        /\ TablesBounded
        /\ \A u \in Pages : kind[c][u] = "none"
        /\ \A u \in Pages : kind[c][u] \notin PresentKinds
        /\ \A d \in Tables : table[c][d] = NoTable
    BY <1>1, BooksAre DEF IInv, PTEsSound, DeadHaveNoTables, PresentKinds
  <1>3. PICK S : S = Present(p)
    OBVIOUS
  <1>4. S \subseteq Pages /\ \A u \in Pages : u \in S <=> kind[p][u] \in PresentKinds
    BY <1>3 DEF Present
  <1>5. ASSUME MaxTables - TablesUsed >= Cardinality(NeededTables(S)),
               alive' = alive \cup {c},
               kind' = [SetCOW(p) EXCEPT ![c] =
                          [v \in Pages |-> IF v \in S THEN "cow" ELSE "none"]],
               frame' = [frame EXCEPT ![c] = frame[p]],
               anon' = [anon EXCEPT ![c] = [v \in Pages |-> v \in S]],
               given' = [given EXCEPT ![c] = given[p]],
               ref' = [f \in AllFrames |->
                 ref[f] + Cardinality({v \in S : frame[p][v] = f})],
               rmap' = [f \in AllFrames |->
                 rmap[f] \cup {<<c, v>> : v \in {u \in S : frame[p][u] = f}}],
               tlb' = FlushShared(p),
               table' = [table EXCEPT ![c] = NewTables(S)],
               down' = down
        PROVE  IInv'
    <2>1. /\ kind' \in [Procs -> [Pages -> Kinds]]
          /\ frame' \in [Procs -> [Pages -> AllFrames \cup {NoFrame}]]
          /\ \A q \in Procs \ {c} : \A u \in Pages :
               /\ frame'[q][u] = frame[q][u]
               /\ \/ kind'[q][u] = "cow" /\ kind[q][u] \in PresentKinds
                  \/ kind'[q][u] = kind[q][u]
               /\ kind'[q][u] = "rw" =>
                    \A w \in Pages : kind[p][w] \in PresentKinds
                                       => frame[q][u] # frame[p][w]
          /\ \A u \in Pages :
               /\ frame'[c][u] = frame[p][u]
               /\ kind'[c][u] = IF kind[p][u] \in PresentKinds
                                THEN "cow" ELSE "none"
      <3>1. kind' = [SetCOW(p) EXCEPT ![c] =
                       [v \in Pages |-> IF v \in Present(p) THEN "cow"
                                        ELSE "none"]]
        BY <1>3, <1>5
      <3>2. c # p /\ frame' = [frame EXCEPT ![c] = frame[p]]
        BY <1>1, <1>5
      <3> QED BY <3>1, <3>2, ForkKinds, Zenon
    <2>2. /\ \A q \in Procs \ {c} : \A u \in Pages :
               kind'[q][u] \in PresentKinds <=> kind[q][u] \in PresentKinds
          /\ \A u \in Pages :
               kind'[c][u] \in PresentKinds <=> kind[p][u] \in PresentKinds
      BY <2>1 DEF PresentKinds
    <2>3. /\ anon' \in [Procs -> [Pages -> BOOLEAN]]
          /\ \A q \in Procs \ {c} : anon'[q] = anon[q]
          /\ given' \in [Procs -> SUBSET Pages]
          /\ \A q \in Procs \ {c} : given'[q] = given[q]
          /\ given'[c] = given[p]
      BY <1>2, <1>5 DEF TypeOK
    <2>4. PICK t : t = NewTables(S)
      OBVIOUS
    <2>5. /\ t \in [Tables -> {NoTable} \cup 0 .. CountCap]
          /\ table' \in [Procs -> [Tables -> {NoTable} \cup 0 .. CountCap]]
          /\ \A q \in Procs \ {c} : table'[q] = table[q]
          /\ table'[c] = t
      <3>1. t \in [Tables -> {NoTable} \cup 0 .. CountCap]
        BY <1>4, <2>4, NewTablesFacts
      <3>2. table' = [table EXCEPT ![c] = t]
        BY <1>5, <2>4
      <3> QED BY <1>2, <3>1, <3>2 DEF TypeOK
    <2>6. PTEsSound'
      <3> SUFFICES ASSUME NEW q \in Procs, NEW u \in Pages
                   PROVE  /\ kind'[q][u] \in PresentKinds
                               => frame'[q][u] \in AllFrames
                          /\ kind'[q][u] # "none"
                               => q \in alive' /\ u \in given'[q]
                          /\ kind'[q][u] = "lazy"
                               => table'[q][TableOf(u)] # NoTable
                          /\ kind'[q][u] = "rw" /\ u \notin DataPages
                               => ~ anon'[q][u]
        BY DEF PTEsSound
      <3>1. \A r \in Procs :
              /\ kind[r][u] \in PresentKinds => frame[r][u] \in AllFrames
              /\ kind[r][u] # "none" => r \in alive /\ u \in given[r]
              /\ kind[r][u] = "lazy" => table[r][TableOf(u)] # NoTable
              /\ kind[r][u] = "rw" /\ u \notin DataPages => ~ anon[r][u]
        BY <1>2 DEF PTEsSound
      <3>2. CASE q = c
        <4>1. /\ kind'[c][u] # "lazy" /\ kind'[c][u] # "rw"
              /\ kind'[c][u] # "none" => kind[p][u] \in PresentKinds
          BY <2>1
        <4>2. kind[p][u] \in PresentKinds => kind[p][u] # "none"
          BY DEF PresentKinds
        <4> QED BY <1>5, <2>1, <2>2, <2>3, <3>1, <3>2, <4>1, <4>2
      <3>3. CASE q # c
        <4>1. /\ \/ kind'[q][u] = "cow" /\ kind[q][u] \in PresentKinds
                 \/ kind'[q][u] = kind[q][u]
              /\ frame'[q][u] = frame[q][u] /\ anon'[q] = anon[q]
              /\ given'[q] = given[q] /\ table'[q] = table[q]
              /\ q \in alive => q \in alive'
          BY <1>5, <2>1, <2>3, <2>5, <3>3
        <4>2. /\ kind[q][u] \in PresentKinds => kind[q][u] # "none"
              /\ "cow" \in PresentKinds
          BY DEF PresentKinds
        <4> QED BY <3>1, <4>1, <4>2
      <3> QED BY <3>2, <3>3
    <2>7. TextMapped'
      <3> SUFFICES ASSUME NEW q \in alive', NEW u \in TextPages
                   PROVE  kind'[q][u] \in {"ro", "cow"}
        BY DEF TextMapped
      <3>1. \A r \in alive : kind[r][u] \in {"ro", "cow"}
        BY <1>2 DEF TextMapped
      <3>2. u \in Pages /\ alive \subseteq Procs
        BY <1>2 DEF Pages, Image, TypeOK
      <3>3. CASE q = c
        BY <1>1, <2>1, <3>1, <3>2, <3>3 DEF PresentKinds
      <3>4. CASE q # c
        BY <1>5, <2>1, <3>1, <3>2, <3>4
      <3> QED BY <3>3, <3>4
    <2>8. DeadHaveNoTables'
      BY <1>2, <1>5, <2>5 DEF DeadHaveNoTables
    <2>9. Books(kind', frame', free', ref', rmap')
      <3>1. \A f \in AllFrames :
              /\ ref'[f] = ref[f] + Cardinality(PagesIn(kind, frame, p, f))
              /\ rmap'[f] = rmap[f] \cup Row(c, PagesIn(kind, frame, p, f))
        <4>1. \A f : {v \in S : frame[p][v] = f} = PagesIn(kind, frame, p, f)
          BY <1>4 DEF PagesIn
        <4>2. \A f \in AllFrames :
                /\ ref'[f] = ref[f] + Cardinality({v \in S : frame[p][v] = f})
                /\ rmap'[f] = rmap[f] \cup Row(c, {v \in S : frame[p][v] = f})
          BY <1>5 DEF Row
        <4> QED BY <4>1, <4>2
      <3>2. \A q \in Procs \ {c} : \A u \in Pages :
              /\ kind'[q][u] \in PresentKinds <=> kind[q][u] \in PresentKinds
              /\ frame'[q][u] = frame[q][u]
        BY <2>1, <2>2
      <3>3. \A u \in Pages :
              /\ kind'[c][u] \in PresentKinds <=> kind[p][u] \in PresentKinds
              /\ frame'[c][u] = frame[p][u]
        BY <2>1, <2>2
      <3>4. Books(kind', frame', free, ref', rmap')
        BY <1>1, <1>2, <3>1, <3>2, <3>3, BooksFork
      <3> QED BY <1>1, <3>4
    <2>10. WriterIsAlone'
      <3> SUFFICES ASSUME NEW q \in Procs, NEW r \in Procs,
                          NEW u \in Pages, NEW w \in Pages,
                          kind'[q][u] = "rw", kind'[r][w] \in PresentKinds,
                          frame'[q][u] = frame'[r][w]
                   PROVE  q = r /\ u = w
        BY DEF WriterIsAlone
      <3>1. q # c
        <4>1. kind'[c][u] = "cow" \/ kind'[c][u] = "none"
          BY <2>1
        <4> QED BY <4>1
      <3>2. /\ kind[q][u] = "rw" /\ frame'[q][u] = frame[q][u]
            /\ \A x \in Pages : kind[p][x] \in PresentKinds
                                   => frame[q][u] # frame[p][x]
        <4>1. q \in Procs \ {c}
          BY <3>1
        <4> QED BY <2>1, <4>1
      <3>3. r # c
        <4>1. /\ frame'[c][w] = frame[p][w]
              /\ kind'[c][w] \in PresentKinds <=> kind[p][w] \in PresentKinds
          BY <2>1, <2>2
        <4> QED BY <3>2, <4>1
      <3>4. kind[r][w] \in PresentKinds /\ frame'[r][w] = frame[r][w]
        BY <2>1, <2>2, <3>3
      <3>5. frame[q][u] = frame[r][w]
        BY <3>2, <3>4
      <3> QED BY <1>2, <3>2, <3>4, <3>5 DEF WriterIsAlone
    <2>11. SamePage'
      <3> SUFFICES ASSUME NEW q \in Procs, NEW r \in Procs,
                          NEW u \in Pages, NEW w \in Pages,
                          kind'[q][u] \in PresentKinds,
                          kind'[r][w] \in PresentKinds,
                          frame'[q][u] = frame'[r][w], frame'[q][u] \in Frames
                   PROVE  u = w
        BY DEF SamePage
      <3>1. \A x \in Procs : \E y \in Procs : \A z \in Pages :
              /\ kind'[x][z] \in PresentKinds <=> kind[y][z] \in PresentKinds
              /\ frame'[x][z] = frame[y][z]
        BY <2>1, <2>2
      <3> QED BY <1>2, <3>1 DEF SamePage
    <2>12. /\ tlb' \in SUBSET (Pages \X Frames)
           /\ TLBMapped' /\ TLBCoherent'
      <3>1. \A e \in tlb' : e \in tlb /\ e[1] \in DataPages
        BY <1>1, <1>5, ForkFlush
      <3>2. \A e \in tlb' : /\ kind[p][e[1]] \in PresentKinds
                            /\ frame[p][e[1]] = e[2] /\ e[1] \in Pages
        BY <1>1, <1>2, <3>1 DEF TLBMapped, TypeOK
      <3>3. tlb' \in SUBSET (Pages \X Frames)
        BY <1>2, <3>1 DEF TypeOK
      <3>4. TLBMapped'
        BY <1>1, <2>1, <2>2, <3>2 DEF TLBMapped
      <3>5. TLBCoherent'
        BY <3>1 DEF TLBCoherent
      <3> QED BY <3>3, <3>4, <3>5
    <2>13. CountsCover' /\ TablesBounded'
      <3>1. leaked' \in Nat /\ leaked \in Nat
        BY <1>1, <1>2, BoundsAssumption DEF TypeOK
      <3>2. \A u \in Pages : kind'[c][u] \in PresentKinds => u \in S
        BY <1>4, <2>2
      <3>3. /\ CountsCover'
            /\ TablesUsed' = leaked' + Cardinality(OthersInUse(table, c))
                               + Cardinality(NeededTables(S))
        BY <1>4, <2>2, <2>4, <2>5, <3>1, <3>2, NewSpaceTables
      <3>4. OwnInUse(table, c) = {}
        BY <1>2 DEF OwnInUse
      <3>5. /\ Cardinality(InUse(table))
                 = Cardinality(OthersInUse(table, c))
                     + Cardinality(OwnInUse(table, c))
            /\ Cardinality(OthersInUse(table, c)) \in Nat
        BY InUseSplit
      <3>6. TablesUsed = leaked + Cardinality(OthersInUse(table, c))
        <4>1. TablesUsed = leaked + Cardinality(InUse(table))
          BY DEF TablesUsed, InUse
        <4> QED BY <3>4, <3>5, <4>1, FS_EmptySet
      <3>7. Cardinality(NeededTables(S)) \in Nat
        <4>1. NeededTables(S) \subseteq Tables
          BY <1>4, NewTablesFacts
        <4> QED BY <4>1, TableFacts, FS_Subset, FS_CardinalityType
      <3>8. TablesUsed' <= MaxTables
        BY <1>1, <1>5, <3>1, <3>3, <3>5, <3>6, <3>7, BoundsAssumption
      <3> QED BY <3>3, <3>8 DEF TablesBounded
    <2>14. TypeOK'
      <3>1. ref' \in [AllFrames -> Nat]
        <4>1. \A f : Cardinality({v \in S : frame[p][v] = f}) \in Nat
          <5>1. \A f : {v \in S : frame[p][v] = f} \subseteq Pages
            BY <1>4
          <5> QED BY <5>1, PagesCount
        <4> DEFINE N(f) == Cardinality({v \in S : frame[p][v] = f})
        <4>2. \A f : N(f) \in Nat
          BY <4>1
        <4>3. ref' = [f \in AllFrames |-> ref[f] + N(f)]
          BY <1>5
        <4>4. ref \in [AllFrames -> Nat]
          BY <1>2 DEF TypeOK
        <4> HIDE DEF N
        <4> QED BY <4>2, <4>3, <4>4
      <3>2. rmap' \in [AllFrames -> SUBSET (Procs \X Pages)]
        BY <1>2, <1>4, <1>5 DEF TypeOK
      <3>3. alive' \in SUBSET Procs
        BY <1>2, <1>5 DEF TypeOK
      <3> QED BY <1>1, <1>2, <1>5, <2>1, <2>3, <2>5, <2>12, <3>1, <3>2, <3>3
              DEF TypeOK
    <2> QED BY <2>6, <2>7, <2>8, <2>9, <2>10, <2>11, <2>12, <2>13, <2>14,
               BooksAre DEF IInv
  <1>6. CASE /\ down' = TRUE
             /\ UNCHANGED <<alive, kind, frame, anon, given, ref, rmap, tlb,
                            table>>
    BY <1>1, <1>6, DownInv
  <1> QED BY <1>3, <1>5, <1>6 DEF Fork

-----------------------------------------------------------------------------
(***************************************************************************)
(* The books after destroyUserVAPool, for any page tables that agree with  *)
(* the old ones on the other processes and map nothing of p.               *)
(***************************************************************************)
LEMMA DestroyBooks ==
  ASSUME IInv, NEW p \in Procs, NEW k,
         \A q \in Procs \ {p} : \A u \in Pages : k[q][u] = kind[q][u],
         \A u \in Pages : k[p][u] \notin PresentKinds
  PROVE  /\ Books(k, frame, FreeAfterDestroy(p), RefAfterDestroy(p),
                  RMapAfterDestroy(p))
         /\ FreeAfterDestroy(p) \subseteq Frames
         /\ RefAfterDestroy(p) \in [AllFrames -> Nat]
         /\ RMapAfterDestroy(p) \in [AllFrames -> SUBSET (Procs \X Pages)]
  <1>1. /\ Books(kind, frame, free, ref, rmap) /\ free \subseteq Frames
        /\ rmap \in [AllFrames -> SUBSET (Procs \X Pages)]
    BY BooksAre DEF IInv, TypeOK
  <1>2. \A f : RefsOf(p, f) = Cardinality(PagesIn(kind, frame, p, f))
    <2>1. \A f : {v \in Present(p) : frame[p][v] = f}
                   = PagesIn(kind, frame, p, f)
      BY DEF Present, PagesIn
    <2> QED BY <2>1 DEF RefsOf
  <1>3. PICK fr, n, m : /\ fr = FreeAfterDestroy(p) /\ n = RefAfterDestroy(p)
                        /\ m = RMapAfterDestroy(p)
    OBVIOUS
  <1>4. \A f \in AllFrames :
          /\ n[f] = ref[f] - Cardinality(PagesIn(kind, frame, p, f))
          /\ m[f] = {e \in rmap[f] : e[1] # p}
    BY <1>2, <1>3 DEF RefAfterDestroy, RMapAfterDestroy
  <1>5. fr = free \cup {f \in Frames :
                          /\ Cardinality(PagesIn(kind, frame, p, f)) > 0
                          /\ ref[f] - Cardinality(PagesIn(kind, frame, p, f)) = 0}
    <2>1. \A f \in Frames : RefAfterDestroy(p)[f]
            = ref[f] - Cardinality(PagesIn(kind, frame, p, f))
      BY <1>2 DEF RefAfterDestroy, AllFrames
    <2>2. {f \in Frames : RefsOf(p, f) > 0 /\ RefAfterDestroy(p)[f] = 0}
            = {f \in Frames :
                 /\ Cardinality(PagesIn(kind, frame, p, f)) > 0
                 /\ ref[f] - Cardinality(PagesIn(kind, frame, p, f)) = 0}
      BY <1>2, <2>1
    <2> QED BY <1>3, <2>2, Zenon DEF FreeAfterDestroy
  <1>6. Books(k, frame, fr, n, m)
    BY <1>1, <1>4, <1>5, BooksDestroy
  <1>7. fr \subseteq Frames
    BY <1>1, <1>5
  <1>8. n \in [AllFrames -> Nat]
    <2>1. \A f \in AllFrames : n[f] \in Nat
      <3>1. \A f : Cardinality(MapOf(k, frame, f)) \in Nat
        BY MapOfFacts
      <3>2. ASSUME NEW f \in AllFrames PROVE n[f] \in Nat
        <4>1. CASE f \in Frames
          BY <1>6, <3>1, <4>1 DEF Books
        <4>2. CASE f = KFrame
          <5>1. n[f] = 1 + Cardinality(MapOf(k, frame, f))
            BY <1>6, <4>2 DEF Books
          <5> QED BY <3>1, <5>1
        <4> QED BY <4>1, <4>2 DEF AllFrames
      <3> QED BY <3>2
    <2>2. n = [f \in AllFrames |-> ref[f] - RefsOf(p, f)]
      BY <1>3 DEF RefAfterDestroy
    <2> QED BY <2>1, <2>2
  <1>9. m \in [AllFrames -> SUBSET (Procs \X Pages)]
    BY <1>1, <1>3 DEF RMapAfterDestroy
  <1> QED BY <1>3, <1>6, <1>7, <1>8, <1>9

(***************************************************************************)
(* exit, and execve without the frames for its image.                      *)
(***************************************************************************)
LEMMA VanishInv ==
  ASSUME IInv, NEW p \in Procs, NEW lost \in Nat,
         TablesAfterDestroy(p) + lost <= MaxTables,
         Vanish(p, lost), content' = content
  PROVE  IInv'
  <1>1. /\ alive' = alive \ {p} /\ running' \in alive \ {p}
        /\ kind' = [kind EXCEPT ![p] = Empty("none")]
        /\ frame' = [frame EXCEPT ![p] = Empty(NoFrame)]
        /\ anon' = [anon EXCEPT ![p] = Empty(FALSE)]
        /\ given' = [given EXCEPT ![p] = {}]
        /\ free' = FreeAfterDestroy(p) /\ ref' = RefAfterDestroy(p)
        /\ rmap' = RMapAfterDestroy(p) /\ tlb' = {}
        /\ table' = [table EXCEPT ![p] = [d \in Tables |-> NoTable]]
        /\ leaked' = leaked + LeakedBy(p) + lost /\ down' = down
    BY DEF Vanish
  <1>2. /\ TypeOK /\ PTEsSound /\ TextMapped /\ DeadHaveNoTables
        /\ WriterIsAlone /\ SamePage
    BY DEF IInv
  <1>3. /\ kind' \in [Procs -> [Pages -> Kinds]]
        /\ frame' \in [Procs -> [Pages -> AllFrames \cup {NoFrame}]]
        /\ anon' \in [Procs -> [Pages -> BOOLEAN]]
        /\ given' \in [Procs -> SUBSET Pages]
    BY <1>1, <1>2 DEF TypeOK, Empty, Kinds
  <1>4. \A q \in Procs \ {p} :
          /\ kind'[q] = kind[q] /\ frame'[q] = frame[q] /\ anon'[q] = anon[q]
          /\ given'[q] = given[q] /\ table'[q] = table[q]
    BY <1>1, <1>2 DEF TypeOK
  <1>5. \A u \in Pages : kind'[p][u] = "none" /\ kind'[p][u] \notin PresentKinds
    BY <1>1, <1>2 DEF TypeOK, Empty, PresentKinds
  <1>6. /\ FramesExact'
        /\ free' \in SUBSET Frames /\ ref' \in [AllFrames -> Nat]
        /\ rmap' \in [AllFrames -> SUBSET (Procs \X Pages)]
    <2>1. \A q \in Procs \ {p} : \A u \in Pages : kind'[q][u] = kind[q][u]
      BY <1>4
    <2>2. /\ Books(kind', frame, free', ref', rmap')
          /\ free' \in SUBSET Frames /\ ref' \in [AllFrames -> Nat]
          /\ rmap' \in [AllFrames -> SUBSET (Procs \X Pages)]
      <3>1. \A u \in Pages : kind'[p][u] \notin PresentKinds
        BY <1>5
      <3>2. /\ Books(kind', frame, FreeAfterDestroy(p), RefAfterDestroy(p),
                     RMapAfterDestroy(p))
            /\ FreeAfterDestroy(p) \subseteq Frames
            /\ RefAfterDestroy(p) \in [AllFrames -> Nat]
            /\ RMapAfterDestroy(p) \in [AllFrames -> SUBSET (Procs \X Pages)]
        BY <2>1, <3>1, DestroyBooks, Zenon
      <3> QED BY <1>1, <3>2
    <2>3. \A q \in Procs : \A u \in Pages :
            kind'[q][u] \in PresentKinds => frame'[q][u] = frame[q][u]
      BY <1>4, <1>5
    <2>4. Books(kind', frame', free', ref', rmap')
      BY <2>2, <2>3, BooksSame
    <2> QED BY <2>2, <2>4, BooksAre
  <1>7. PTEsSound'
    <2> SUFFICES ASSUME NEW q \in Procs, NEW u \in Pages, q # p
                 PROVE  /\ kind[q][u] \in PresentKinds
                             => frame[q][u] \in AllFrames
                        /\ kind[q][u] # "none" => q \in alive' /\ u \in given[q]
                        /\ kind[q][u] = "lazy"
                             => table[q][TableOf(u)] # NoTable
                        /\ kind[q][u] = "rw" /\ u \notin DataPages
                             => ~ anon[q][u]
      BY <1>4, <1>5 DEF PTEsSound
    <2> QED BY <1>1, <1>2 DEF PTEsSound
  <1>8. TextMapped' /\ DeadHaveNoTables'
    <2>1. TextMapped'
      BY <1>1, <1>2, <1>4 DEF TextMapped, TypeOK
    <2>2. \A d \in Tables : table'[p][d] = NoTable
      BY <1>1, <1>2 DEF TypeOK
    <2> QED BY <1>1, <1>2, <1>4, <2>1, <2>2 DEF DeadHaveNoTables
  <1>9. WriterIsAlone' /\ SamePage'
    <2>1. \A q \in Procs : \A u \in Pages : kind'[q][u] \in PresentKinds =>
            kind'[q][u] = kind[q][u] /\ frame'[q][u] = frame[q][u]
      BY <1>4, <1>5
    <2>2. "rw" \in PresentKinds
      BY DEF PresentKinds
    <2> QED BY <1>2, <2>1, <2>2 DEF WriterIsAlone, SamePage
  <1>10. TLBMapped' /\ TLBCoherent'
    BY <1>1 DEF TLBMapped, TLBCoherent
  <1>11. /\ leaked \in Nat /\ leaked' \in Nat
         /\ leaked' + Cardinality(OthersInUse(table, p)) <= MaxTables
         /\ Cardinality(OthersInUse(table, p)) \in Nat
    <2>1. leaked \in Nat
      BY <1>2, BoundsAssumption DEF TypeOK
    <2>2. /\ LeakedBy(p) \in Nat
          /\ TablesAfterDestroy(p)
               = leaked + LeakedBy(p) + Cardinality(OthersInUse(table, p))
      BY <2>1, LeakBound
    <2>3. Cardinality(OthersInUse(table, p)) \in Nat
      BY InUseSplit
    <2> QED BY <1>1, <2>1, <2>2, <2>3, BoundsAssumption
  <1>12. /\ CountsCover'
         /\ TablesUsed' = leaked' + Cardinality(OthersInUse(table, p))
    <2>1. NeededTables({}) = {}
      BY DEF NeededTables
    <2>2. PICK t : t = NewTables({})
      OBVIOUS
    <2>3. t \in [Tables -> {NoTable} \cup 0 .. CountCap] /\ {} \subseteq Pages
      BY <2>2, NewTablesFacts
    <2>4. t = [d \in Tables |-> NoTable]
      BY <2>1, <2>2 DEF NewTables
    <2>5. table'[p] = t
      BY <1>1, <1>2, <2>4 DEF TypeOK
    <2>6. /\ \A q \in Procs \ {p} : table'[q] = table[q]
          /\ \A q \in Procs \ {p} : \A u \in Pages :
               kind'[q][u] \in PresentKinds <=> kind[q][u] \in PresentKinds
          /\ \A u \in Pages : kind'[p][u] \in PresentKinds => u \in {}
      BY <1>4, <1>5
    <2>7. PICK S : S = {}
      OBVIOUS
    <2>8. /\ CountsCover'
          /\ TablesUsed' = leaked' + Cardinality(OthersInUse(table, p))
                             + Cardinality(NeededTables(S))
      BY <1>11, <2>2, <2>3, <2>5, <2>6, <2>7, NewSpaceTables
    <2>9. Cardinality(NeededTables(S)) = 0
      BY <2>1, <2>7, FS_EmptySet
    <2> QED BY <1>11, <2>8, <2>9
  <1>13. TablesBounded'
    BY <1>11, <1>12 DEF TablesBounded
  <1>14. TypeOK'
    <2>1. leaked' \in 0 .. MaxTables
      BY <1>11, BoundsAssumption
    <2>2. table' \in [Procs -> [Tables -> {NoTable} \cup 0 .. CountCap]]
      BY <1>1, <1>2 DEF TypeOK
    <2>3. alive' \in SUBSET Procs /\ running' \in Procs
      BY <1>1, <1>2 DEF TypeOK
    <2> QED BY <1>1, <1>2, <1>3, <1>6, <2>1, <2>2, <2>3 DEF TypeOK
  <1> QED BY <1>6, <1>7, <1>8, <1>9, <1>10, <1>12, <1>13, <1>14 DEF IInv

LEMMA RoomAfterDestroy ==
  ASSUME IInv, NEW p \in Procs
  PROVE  TablesAfterDestroy(p) \in Nat /\ TablesAfterDestroy(p) <= MaxTables
  <1>1. leaked \in Nat /\ TablesUsed <= MaxTables
    BY BoundsAssumption DEF IInv, TypeOK, TablesBounded
  <1>2. /\ TablesAfterDestroy(p) <= TablesUsed /\ TablesAfterDestroy(p) \in Nat
        /\ TablesUsed = leaked + Cardinality(InUse(table))
    BY <1>1, LeakBound
  <1>3. Cardinality(InUse(table)) \in Nat
    BY InUseSplit
  <1> QED BY <1>1, <1>2, <1>3, BoundsAssumption

LEMMA ExitInv ==
  ASSUME IInv, NEW p \in Procs, Exit(p)
  PROVE  IInv'
  <1>1. Vanish(p, 0) /\ content' = content
    BY DEF Exit
  <1>2. TablesAfterDestroy(p) + 0 <= MaxTables
    BY RoomAfterDestroy
  <1> QED BY <1>1, <1>2, VanishInv

LEMMA ExecFailsInv ==
  ASSUME IInv, NEW p \in Procs, ExecFails(p)
  PROVE  IInv'
  <1> DEFINE room == MaxTables - TablesAfterDestroy(p)
             lost == IF room = 0 \/ Cardinality(FreeAfterDestroy(p)) = 0
                     THEN 0 ELSE 1
  <1>1. CASE Vanish(p, lost) /\ content' = content
    <2>1. lost \in Nat /\ TablesAfterDestroy(p) + lost <= MaxTables
      BY RoomAfterDestroy, BoundsAssumption
    <2> HIDE DEF lost
    <2> QED BY <1>1, <2>1, VanishInv
  <1>2. CASE GoDown
    BY <1>2, GoDownInv
  <1> QED BY <1>1, <1>2 DEF ExecFails

(***************************************************************************)
(* execve: the old address space goes, the new one gets frames of its own. *)
(***************************************************************************)
LEMMA ExecInv ==
  ASSUME IInv, NEW p \in Procs, Exec(p)
  PROVE  IInv'
  <1> DEFINE D == Image \cup {StackTop}
             S == Image \cup StackPages
  <1>1. /\ p = running /\ p \in alive /\ tlb' = {}
        /\ alive' = alive /\ running' = running /\ down' = down
        /\ MaxTables - TablesAfterDestroy(p) >= Cardinality(NeededTables(S))
        /\ kind' = [kind EXCEPT ![p] = [v \in Pages |->
                     CASE v \in TextPages -> "ro"
                       [] v \in DataPages -> "rw"
                       [] v = StackTop -> "rw"
                       [] v \in LazyStack -> "lazy"
                       [] OTHER -> "none"]]
        /\ anon' = [anon EXCEPT ![p] = [v \in Pages |-> v \in Image]]
        /\ given' = [given EXCEPT ![p] = S]
        /\ table' = [table EXCEPT ![p] = NewTables(S)]
        /\ leaked' = leaked + LeakedBy(p)
    BY DEF Exec, Runs
  <1>0. PICK g \in [Image \cup {StackTop} -> FreeAfterDestroy(p)] :
          /\ \A u, v \in DOMAIN g : g[u] = g[v] => u = v
          /\ frame' = [frame EXCEPT ![p] = [v \in Pages |->
                         IF v \in DOMAIN g THEN g[v] ELSE NoFrame]]
          /\ free' = FreeAfterDestroy(p) \ {g[v] : v \in DOMAIN g}
          /\ ref' = [f \in AllFrames |->
               IF \E v \in DOMAIN g : g[v] = f THEN 1
               ELSE RefAfterDestroy(p)[f]]
          /\ rmap' = [f \in AllFrames |->
               RMapAfterDestroy(p)[f]
                 \cup {<<p, v>> : v \in {u \in DOMAIN g : g[u] = f}}]
          /\ content' = [f \in AllFrames |->
               IF \E v \in Image : g[v] = f THEN 1 ELSE content[f]]
    BY Zenon DEF Exec
  <1>2. /\ g \in [D -> FreeAfterDestroy(p)]
        /\ \A u, v \in D : g[u] = g[v] => u = v
        /\ frame' = [frame EXCEPT ![p] = [v \in Pages |->
                       IF v \in D THEN g[v] ELSE NoFrame]]
        /\ free' = FreeAfterDestroy(p) \ {g[v] : v \in D}
        /\ ref' = [f \in AllFrames |->
             IF \E v \in D : g[v] = f THEN 1 ELSE RefAfterDestroy(p)[f]]
        /\ rmap' = [f \in AllFrames |->
             RMapAfterDestroy(p)[f]
               \cup {<<p, v>> : v \in {u \in D : g[u] = f}}]
        /\ content' = [f \in AllFrames |->
             IF \E v \in Image : g[v] = f THEN 1 ELSE content[f]]
    <2>1. DOMAIN g = D
      OBVIOUS
    <2> HIDE DEF D
    <2>2. g \in [D -> FreeAfterDestroy(p)]
      BY DEF D
    <2> QED BY <1>0, <2>1, <2>2, Zenon
  <1>3. /\ TypeOK /\ PTEsSound /\ TextMapped /\ DeadHaveNoTables
        /\ WriterIsAlone /\ SamePage
    BY DEF IInv
  <1>4. /\ D \subseteq Pages /\ S \subseteq Pages /\ D \subseteq S
        /\ StackTop \notin Image /\ LazyStack \subseteq S
        /\ LazyStack \cap D = {} /\ TextPages \cap DataPages = {}
        /\ StackTop \notin LazyStack
    BY SegmentsAssumption DEF Pages, LazyStack
  <1>5. /\ kind' \in [Procs -> [Pages -> Kinds]]
        /\ \A u \in Pages :
             /\ u \in TextPages => kind'[p][u] = "ro"
             /\ u \in DataPages \cup {StackTop} => kind'[p][u] = "rw"
             /\ u \in LazyStack => kind'[p][u] = "lazy"
             /\ u \notin D \cup LazyStack => kind'[p][u] = "none"
    <2> DEFINE K(v) == CASE v \in TextPages -> "ro"
                         [] v \in DataPages -> "rw"
                         [] v = StackTop -> "rw"
                         [] v \in LazyStack -> "lazy"
                         [] OTHER -> "none"
    <2>1. \A v \in Pages :
            /\ K(v) \in Kinds
            /\ v \in TextPages => K(v) = "ro"
            /\ v \in DataPages \cup {StackTop} => K(v) = "rw"
            /\ v \in LazyStack => K(v) = "lazy"
            /\ v \notin D \cup LazyStack => K(v) = "none"
      BY <1>4 DEF Kinds, Image
    <2>2. kind' = [kind EXCEPT ![p] = [v \in Pages |-> K(v)]]
      BY <1>1
    <2> HIDE DEF K, D
    <2>3. kind' \in [Procs -> [Pages -> Kinds]] /\ \A u \in Pages : kind'[p][u] = K(u)
      BY <1>3, <2>1, <2>2 DEF TypeOK
    <2> QED BY <2>1, <2>3
  <1>6. \A u \in Pages :
          /\ kind'[p][u] \in PresentKinds <=> u \in D
          /\ kind'[p][u] = "rw" => u \in DataPages \cup {StackTop}
          /\ kind'[p][u] = "lazy" => u \in LazyStack
          /\ kind'[p][u] # "none" => u \in S
    BY <1>4, <1>5 DEF PresentKinds, Image
  <1>7. /\ \A q \in Procs \ {p} :
             /\ kind'[q] = kind[q] /\ frame'[q] = frame[q]
             /\ anon'[q] = anon[q] /\ given'[q] = given[q]
             /\ table'[q] = table[q]
        /\ \A u \in D : frame'[p][u] = g[u]
        /\ \A u \in Pages : u \notin Image => ~ anon'[p][u]
        /\ given'[p] = S
    BY <1>1, <1>2, <1>3, <1>4 DEF TypeOK
  <1>8. /\ anon' \in [Procs -> [Pages -> BOOLEAN]]
        /\ given' \in [Procs -> SUBSET Pages]
    BY <1>1, <1>3, <1>4 DEF TypeOK
  <1>9. PICK k, fr, n, m :
          /\ k = [kind EXCEPT ![p] = Empty("none")]
          /\ fr = FreeAfterDestroy(p) /\ n = RefAfterDestroy(p)
          /\ m = RMapAfterDestroy(p)
    OBVIOUS
  <1>10. /\ \A q \in Procs \ {p} : \A u \in Pages : k[q][u] = kind[q][u]
         /\ \A u \in Pages : k[p][u] \notin PresentKinds
    BY <1>3, <1>9 DEF TypeOK, Empty, PresentKinds
  <1>11. /\ Books(k, frame, fr, n, m) /\ fr \subseteq Frames
         /\ n \in [AllFrames -> Nat]
         /\ m \in [AllFrames -> SUBSET (Procs \X Pages)]
    <2>1. \A q \in Procs \ {p} : \A u \in Pages : k[q][u] = kind[q][u]
      BY <1>10
    <2>2. \A u \in Pages : k[p][u] \notin PresentKinds
      BY <1>10
    <2>3. /\ Books(k, frame, FreeAfterDestroy(p), RefAfterDestroy(p),
                   RMapAfterDestroy(p))
          /\ FreeAfterDestroy(p) \subseteq Frames
          /\ RefAfterDestroy(p) \in [AllFrames -> Nat]
          /\ RMapAfterDestroy(p) \in [AllFrames -> SUBSET (Procs \X Pages)]
      BY <2>1, <2>2, DestroyBooks, Zenon
    <2> QED BY <1>9, <2>3
  <1>12. \A u \in D : g[u] \in fr /\ g[u] \in Frames /\ g[u] \in AllFrames
    BY <1>2, <1>9, <1>11 DEF AllFrames
  <1>13. \A q \in Procs \ {p} : \A w \in Pages : \A u \in D :
           kind[q][w] \in PresentKinds => frame[q][w] # g[u]
    <2> SUFFICES ASSUME NEW q \in Procs \ {p}, NEW w \in Pages, NEW u \in D,
                        kind[q][w] \in PresentKinds, frame[q][w] = g[u]
                 PROVE  FALSE
      OBVIOUS
    <2>1. MapOf(k, frame, g[u]) = {}
      BY <1>11, <1>12 DEF Books
    <2>2. <<q, w>> \in MapOf(k, frame, g[u])
      BY <1>10, MapOfFacts
    <2> QED BY <2>1, <2>2
  <1>14. FramesExact'
    <2>1. /\ \A u \in D : k[p][u] \notin PresentKinds
          /\ g \in [D -> fr] /\ \A u, w \in D : g[u] = g[w] => u = w
          /\ D \subseteq Pages
      BY <1>2, <1>4, <1>9, <1>10
    <2>2. \A q \in Procs : \A u \in Pages :
            /\ kind'[q][u] \in PresentKinds
                 <=> k[q][u] \in PresentKinds \/ (q = p /\ u \in D)
            /\ kind'[q][u] \in PresentKinds =>
                 frame'[q][u] = IF q = p /\ u \in D THEN g[u] ELSE frame[q][u]
      <3> HIDE DEF D
      <3> QED BY <1>6, <1>7, <1>10
    <2>3. /\ free' = fr \ {g[u] : u \in D}
          /\ \A f \in AllFrames :
               ref'[f] = IF \E u \in D : g[u] = f THEN 1 ELSE n[f]
      BY <1>2, <1>9
    <2>4. \A f \in AllFrames : \A u \in D : g[u] = f =>
            rmap'[f] = m[f] \cup {<<p, u>>}
      <3> SUFFICES ASSUME NEW f \in AllFrames, NEW u \in D, g[u] = f
                   PROVE  rmap'[f] = m[f] \cup {<<p, u>>}
        OBVIOUS
      <3>1. {w \in D : g[w] = f} = {u}
        BY <1>2
      <3>2. rmap'[f] = m[f] \cup {<<p, v>> : v \in {w \in D : g[w] = f}}
        BY <1>2, <1>9
      <3> HIDE DEF D
      <3> QED BY <3>1, <3>2
    <2>5. \A f \in AllFrames : (\A u \in D : g[u] # f) => rmap'[f] = m[f]
      BY <1>2, <1>9
    <2> HIDE DEF D
    <2>6. Books(kind', frame', free', ref', rmap')
      <3>1. Books(k, frame, fr, n, m) /\ fr \subseteq Frames
        BY <1>11
      <3>2. PICK k2, r2, fr2, n2, m2 : /\ k2 = kind' /\ r2 = frame'
                                       /\ fr2 = free' /\ n2 = ref' /\ m2 = rmap'
        OBVIOUS
      <3>3. \A q \in Procs : \A u \in Pages :
              /\ k2[q][u] \in PresentKinds
                   <=> k[q][u] \in PresentKinds \/ (q = p /\ u \in D)
              /\ k2[q][u] \in PresentKinds =>
                   r2[q][u] = IF q = p /\ u \in D THEN g[u] ELSE frame[q][u]
        BY <2>2, <3>2
      <3>4. /\ fr2 = fr \ {g[u] : u \in D}
            /\ \A f \in AllFrames :
                 n2[f] = IF \E u \in D : g[u] = f THEN 1 ELSE n[f]
            /\ \A f \in AllFrames : \A u \in D : g[u] = f =>
                 m2[f] = m[f] \cup {<<p, u>>}
            /\ \A f \in AllFrames : (\A u \in D : g[u] # f) => m2[f] = m[f]
        BY <2>3, <2>4, <2>5, <3>2
      <3>5. Books(k2, r2, fr2, n2, m2)
        BY <2>1, <3>1, <3>3, <3>4, BooksLoad
      <3> QED BY <3>2, <3>5
    <2> QED BY <2>6, BooksAre
  <1>15. \A q \in Procs : \A u \in Pages :
           kind'[q][u] \in PresentKinds =>
             \/ q = p /\ u \in D /\ frame'[q][u] = g[u]
             \/ /\ q # p /\ kind[q][u] = kind'[q][u]
                /\ frame'[q][u] = frame[q][u]
    <2> HIDE DEF D
    <2> QED BY <1>6, <1>7
  <1>16. WriterIsAlone'
    <2> SUFFICES ASSUME NEW q \in Procs, NEW r \in Procs,
                        NEW u \in Pages, NEW w \in Pages,
                        kind'[q][u] = "rw", kind'[r][w] \in PresentKinds,
                        frame'[q][u] = frame'[r][w]
                 PROVE  q = r /\ u = w
      BY DEF WriterIsAlone
    <2>1. kind'[q][u] \in PresentKinds
      BY DEF PresentKinds
    <2>2. CASE q # p /\ r # p
      BY <1>3, <1>15, <2>1, <2>2 DEF WriterIsAlone
    <2> HIDE DEF D
    <2>3. CASE q = p /\ r = p
      BY <1>2, <1>15, <2>1, <2>3
    <2>4. CASE q = p /\ r # p
      BY <1>13, <1>15, <2>1, <2>4
    <2>5. CASE q # p /\ r = p
      BY <1>13, <1>15, <2>1, <2>5
    <2> QED BY <2>2, <2>3, <2>4, <2>5
  <1>17. SamePage'
    <2> SUFFICES ASSUME NEW q \in Procs, NEW r \in Procs,
                        NEW u \in Pages, NEW w \in Pages,
                        kind'[q][u] \in PresentKinds,
                        kind'[r][w] \in PresentKinds,
                        frame'[q][u] = frame'[r][w], frame'[q][u] \in Frames
                 PROVE  u = w
      BY DEF SamePage
    <2>2. CASE q # p /\ r # p
      BY <1>3, <1>15, <2>2 DEF SamePage
    <2> HIDE DEF D
    <2>3. CASE q = p /\ r = p
      BY <1>2, <1>15, <2>3
    <2>4. CASE q = p /\ r # p
      BY <1>13, <1>15, <2>4
    <2>5. CASE q # p /\ r = p
      BY <1>13, <1>15, <2>5
    <2> QED BY <2>2, <2>3, <2>4, <2>5
  <1>18. PICK t : t = NewTables(S)
    OBVIOUS
  <1>19. /\ t \in [Tables -> {NoTable} \cup 0 .. CountCap]
         /\ \A u \in S : t[TableOf(u)] # NoTable
         /\ NeededTables(S) \subseteq Tables
         /\ table' \in [Procs -> [Tables -> {NoTable} \cup 0 .. CountCap]]
         /\ table'[p] = t
    <2> HIDE DEF S
    <2>1. /\ t \in [Tables -> {NoTable} \cup 0 .. CountCap]
          /\ \A u \in S : t[TableOf(u)] # NoTable
          /\ NeededTables(S) \subseteq Tables
      BY <1>4, <1>18, NewTablesFacts
    <2> QED BY <1>1, <1>3, <1>18, <2>1 DEF TypeOK
  <1>20. PTEsSound'
    <2> SUFFICES ASSUME NEW q \in Procs, NEW u \in Pages
                 PROVE  /\ kind'[q][u] \in PresentKinds
                             => frame'[q][u] \in AllFrames
                        /\ kind'[q][u] # "none" => q \in alive /\ u \in given'[q]
                        /\ kind'[q][u] = "lazy"
                             => table'[q][TableOf(u)] # NoTable
                        /\ kind'[q][u] = "rw" /\ u \notin DataPages
                             => ~ anon'[q][u]
      BY <1>1 DEF PTEsSound
    <2>1. CASE q = p
      <3>1. kind'[p][u] \in PresentKinds => frame'[p][u] \in AllFrames
        BY <1>6, <1>7, <1>12
      <3>2. kind'[p][u] # "none" => p \in alive /\ u \in given'[p]
        BY <1>1, <1>6, <1>7
      <3>3. kind'[p][u] = "lazy" => table'[p][TableOf(u)] # NoTable
        BY <1>4, <1>6, <1>19
      <3>4. kind'[p][u] = "rw" /\ u \notin DataPages => ~ anon'[p][u]
        BY <1>4, <1>6, <1>7
      <3> QED BY <2>1, <3>1, <3>2, <3>3, <3>4
    <2>2. CASE q # p
      BY <1>3, <1>7, <2>2 DEF PTEsSound
    <2> QED BY <2>1, <2>2
  <1>21. TextMapped' /\ DeadHaveNoTables'
    <2>1. TextMapped'
      <3> SUFFICES ASSUME NEW q \in alive, NEW u \in TextPages
                   PROVE  kind'[q][u] \in {"ro", "cow"}
        BY <1>1 DEF TextMapped
      <3>1. q \in Procs /\ u \in Pages
        BY <1>3 DEF TypeOK, Pages, Image
      <3>2. CASE q = p
        BY <1>5, <3>1, <3>2
      <3>3. CASE q # p
        BY <1>3, <1>7, <3>1, <3>3 DEF TextMapped
      <3> QED BY <3>2, <3>3
    <2>2. DeadHaveNoTables'
      BY <1>1, <1>3, <1>7 DEF DeadHaveNoTables
    <2> QED BY <2>1, <2>2
  <1>22. TLBMapped' /\ TLBCoherent'
    BY <1>1 DEF TLBMapped, TLBCoherent
  <1>23. CountsCover' /\ TablesBounded' /\ leaked' \in 0 .. MaxTables
    <2>1. leaked \in Nat
      BY <1>3, BoundsAssumption DEF TypeOK
    <2>2. /\ LeakedBy(p) \in Nat
          /\ TablesAfterDestroy(p)
               = leaked + LeakedBy(p) + Cardinality(OthersInUse(table, p))
      BY <2>1, LeakBound
    <2>3. Cardinality(OthersInUse(table, p)) \in Nat
      BY InUseSplit
    <2>4. leaked' \in Nat
      BY <1>1, <2>1, <2>2
    <2>5. \A q \in Procs \ {p} : \A u \in Pages :
            kind'[q][u] \in PresentKinds <=> kind[q][u] \in PresentKinds
      BY <1>7
    <2>6. \A u \in Pages : kind'[p][u] \in PresentKinds => u \in S
      BY <1>4, <1>6
    <2>7. /\ t \in [Tables -> {NoTable} \cup 0 .. CountCap]
          /\ t = NewTables(S) /\ table'[p] = t /\ S \subseteq Pages
          /\ \A q \in Procs \ {p} : table'[q] = table[q]
      BY <1>4, <1>7, <1>18, <1>19
    <2> HIDE DEF S
    <2>8. /\ CountsCover'
          /\ TablesUsed' = leaked' + Cardinality(OthersInUse(table, p))
                             + Cardinality(NeededTables(S))
      BY <2>4, <2>5, <2>6, <2>7, NewSpaceTables
    <2>9. Cardinality(NeededTables(S)) \in Nat
      BY <1>19, TableFacts, FS_Subset, FS_CardinalityType
    <2>10. TablesUsed' <= MaxTables /\ leaked' <= MaxTables
      BY <1>1, <2>1, <2>2, <2>3, <2>4, <2>8, <2>9, BoundsAssumption
    <2> QED BY <2>4, <2>8, <2>10, BoundsAssumption DEF TablesBounded
  <1>24. TypeOK'
    <2>1. frame' \in [Procs -> [Pages -> AllFrames \cup {NoFrame}]]
      <3> DEFINE F == [v \in Pages |-> IF v \in D THEN g[v] ELSE NoFrame]
      <3>1. F \in [Pages -> AllFrames \cup {NoFrame}]
        BY <1>12
      <3>2. frame' = [frame EXCEPT ![p] = F]
        BY <1>2
      <3> HIDE DEF F
      <3> QED BY <1>3, <3>1, <3>2 DEF TypeOK
    <2>2. free' \in SUBSET Frames
      BY <1>2, <1>9, <1>11
    <2>3. ref' \in [AllFrames -> Nat]
      BY <1>2, <1>9, <1>11
    <2>4. rmap' \in [AllFrames -> SUBSET (Procs \X Pages)]
      BY <1>2, <1>4, <1>9, <1>11
    <2>5. content' \in [AllFrames -> Values]
      BY <1>2, <1>3, ValuesAssumption DEF TypeOK
    <2> QED BY <1>1, <1>3, <1>5, <1>8, <1>19, <1>23, <2>1, <2>2, <2>3, <2>4,
               <2>5 DEF TypeOK
  <1> QED BY <1>14, <1>16, <1>17, <1>20, <1>21, <1>22, <1>23, <1>24 DEF IInv

-----------------------------------------------------------------------------
(***************************************************************************)
(* The first process.                                                      *)
(***************************************************************************)
LEMMA InitInv ==
  Init => IInv
  <1> SUFFICES ASSUME Init PROVE IInv
    OBVIOUS
  <1> DEFINE S == TextPages \cup StackPages
  <1>1. PICK f \in Frames :
          /\ alive = {InitProc} /\ running = InitProc
          /\ kind = [p \in Procs |-> [v \in Pages |->
                      CASE p = InitProc /\ v \in TextPages -> "cow"
                        [] p = InitProc /\ v = StackTop -> "rw"
                        [] p = InitProc /\ v \in LazyStack -> "lazy"
                        [] OTHER -> "none"]]
          /\ frame = [p \in Procs |-> [v \in Pages |->
                      CASE p = InitProc /\ v \in TextPages -> KFrame
                        [] p = InitProc /\ v = StackTop -> f
                        [] OTHER -> NoFrame]]
          /\ anon = [p \in Procs |-> [v \in Pages |->
                      p = InitProc /\ v \in TextPages]]
          /\ given = [p \in Procs |-> IF p = InitProc THEN S ELSE {}]
          /\ free = Frames \ {f}
          /\ ref = [g \in AllFrames |->
                      CASE g = f -> 1
                        [] g = KFrame -> 1 + Cardinality(TextPages)
                        [] OTHER -> 0]
          /\ rmap = [g \in AllFrames |->
                       CASE g = f -> {<<InitProc, StackTop>>}
                         [] g = KFrame -> {InitProc} \X TextPages
                         [] OTHER -> {}]
          /\ content = [g \in AllFrames |-> 0]
          /\ tlb = {}
          /\ table = [p \in Procs |->
                      NewTables(IF p = InitProc THEN S ELSE {})]
          /\ leaked = 0 /\ down = FALSE
    BY DEF Init
  <1>2. /\ InitProc \in Procs /\ f \in AllFrames /\ KFrame \in AllFrames
        /\ f # KFrame /\ NoFrame \notin AllFrames
        /\ StackTop \in Pages /\ StackTop \notin TextPages /\ S \subseteq Pages
        /\ TextPages \subseteq Pages /\ TextPages \cap StackPages = {}
        /\ LazyStack \subseteq StackPages /\ StackTop \notin LazyStack
        /\ StackTop \in StackPages
    BY InitProcAssumption, FramesAssumption, SegmentsAssumption
       DEF AllFrames, Pages, Image, LazyStack
  <1>3. /\ kind \in [Procs -> [Pages -> Kinds]]
        /\ \A q \in Procs : \A u \in Pages :
             /\ q # InitProc => kind[q][u] = "none"
             /\ q = InitProc /\ u \in TextPages => kind[q][u] = "cow"
             /\ q = InitProc /\ u = StackTop => kind[q][u] = "rw"
             /\ q = InitProc /\ u \in LazyStack => kind[q][u] = "lazy"
             /\ q = InitProc /\ u \notin S => kind[q][u] = "none"
    <2> DEFINE K(p, v) == CASE p = InitProc /\ v \in TextPages -> "cow"
                            [] p = InitProc /\ v = StackTop -> "rw"
                            [] p = InitProc /\ v \in LazyStack -> "lazy"
                            [] OTHER -> "none"
    <2>1. ASSUME NEW q \in Procs, NEW u \in Pages
          PROVE  /\ K(q, u) \in Kinds
                 /\ q # InitProc => K(q, u) = "none"
                 /\ q = InitProc /\ u \in TextPages => K(q, u) = "cow"
                 /\ q = InitProc /\ u = StackTop => K(q, u) = "rw"
                 /\ q = InitProc /\ u \in LazyStack => K(q, u) = "lazy"
                 /\ q = InitProc /\ u \notin S => K(q, u) = "none"
      <3>1. CASE q # InitProc
        BY <3>1 DEF Kinds
      <3>2. CASE q = InitProc /\ u \in TextPages
        BY <1>2, <3>2 DEF Kinds
      <3>3. CASE q = InitProc /\ u = StackTop
        BY <1>2, <3>3 DEF Kinds
      <3>4. CASE q = InitProc /\ u \in LazyStack
        BY <1>2, <3>4 DEF Kinds
      <3>5. CASE q = InitProc /\ u \notin TextPages \cup LazyStack \cup {StackTop}
        BY <1>2, <3>5 DEF Kinds, LazyStack
      <3> QED BY <3>1, <3>2, <3>3, <3>4, <3>5
    <2>2. kind = [p \in Procs |-> [v \in Pages |-> K(p, v)]]
      BY <1>1
    <2> HIDE DEF K, S
    <2> QED BY <2>1, <2>2
  <1>4. /\ frame \in [Procs -> [Pages -> AllFrames \cup {NoFrame}]]
        /\ \A q \in Procs : \A u \in Pages :
             /\ q = InitProc /\ u \in TextPages => frame[q][u] = KFrame
             /\ q = InitProc /\ u = StackTop => frame[q][u] = f
    <2> DEFINE F(p, v) == CASE p = InitProc /\ v \in TextPages -> KFrame
                            [] p = InitProc /\ v = StackTop -> f
                            [] OTHER -> NoFrame
    <2>1. ASSUME NEW q \in Procs, NEW u \in Pages
          PROVE  /\ F(q, u) \in AllFrames \cup {NoFrame}
                 /\ q = InitProc /\ u \in TextPages => F(q, u) = KFrame
                 /\ q = InitProc /\ u = StackTop => F(q, u) = f
      BY <1>2
    <2>2. frame = [p \in Procs |-> [v \in Pages |-> F(p, v)]]
      BY <1>1
    <2> HIDE DEF F
    <2> QED BY <2>1, <2>2
  <1>5. /\ anon \in [Procs -> [Pages -> BOOLEAN]]
        /\ \A q \in Procs : \A u \in Pages : u \notin TextPages => ~ anon[q][u]
        /\ given \in [Procs -> SUBSET Pages] /\ given[InitProc] = S
    BY <1>1, <1>2
  <1>6. \A q \in Procs : \A u \in Pages :
          /\ kind[q][u] # "none" => q = InitProc /\ u \in S
          /\ kind[q][u] \in PresentKinds =>
               /\ q = InitProc
               /\ \/ u \in TextPages /\ kind[q][u] = "cow" /\ frame[q][u] = KFrame
                  \/ u = StackTop /\ kind[q][u] = "rw" /\ frame[q][u] = f
          /\ q = InitProc /\ u \in TextPages => kind[q][u] \in PresentKinds
          /\ q = InitProc /\ u = StackTop => kind[q][u] \in PresentKinds
          /\ kind[q][u] = "lazy" => q = InitProc /\ u \in StackPages
          /\ kind[q][u] = "rw" => u = StackTop
    <2> SUFFICES ASSUME NEW q \in Procs, NEW u \in Pages
                 PROVE  /\ kind[q][u] # "none" => q = InitProc /\ u \in S
                        /\ kind[q][u] \in PresentKinds =>
                             /\ q = InitProc
                             /\ \/ /\ u \in TextPages /\ kind[q][u] = "cow"
                                   /\ frame[q][u] = KFrame
                                \/ /\ u = StackTop /\ kind[q][u] = "rw"
                                   /\ frame[q][u] = f
                        /\ q = InitProc /\ u \in TextPages
                             => kind[q][u] \in PresentKinds
                        /\ q = InitProc /\ u = StackTop
                             => kind[q][u] \in PresentKinds
                        /\ kind[q][u] = "lazy" => q = InitProc /\ u \in StackPages
                        /\ kind[q][u] = "rw" => u = StackTop
      OBVIOUS
    <2>1. u \notin S \/ u \in TextPages \/ u = StackTop \/ u \in LazyStack
      BY DEF LazyStack
    <2> QED BY <1>2, <1>3, <1>4, <2>1 DEF PresentKinds
  <1>7. ASSUME NEW p \in Procs
        PROVE  /\ table[p] \in [Tables -> {NoTable} \cup 0 .. CountCap]
               /\ p = InitProc => \A u \in S : table[p][TableOf(u)] # NoTable
               /\ p # InitProc => \A d \in Tables : table[p][d] = NoTable
               /\ \A d \in Tables : Covers(table[p][d], Under(kind, p, d))
    <2> DEFINE T == IF p = InitProc THEN S ELSE {}
    <2>1. T \subseteq Pages /\ table[p] = NewTables(T)
      BY <1>1, <1>2
    <2>2. \A u \in Pages : kind[p][u] \in PresentKinds => u \in T
      BY <1>2, <1>6
    <2>3. p = InitProc => T = S
      OBVIOUS
    <2>4. p # InitProc => NeededTables(T) = {}
      BY DEF NeededTables
    <2> HIDE DEF T
    <2>5. /\ NewTables(T) \in [Tables -> {NoTable} \cup 0 .. CountCap]
          /\ \A d \in Tables : NewTables(T)[d] # NoTable <=> d \in NeededTables(T)
          /\ \A v \in T : NewTables(T)[TableOf(v)] # NoTable
          /\ \A d \in Tables : \A R :
               (R \subseteq T /\ \A v \in R : TableOf(v) = d)
                 => Covers(NewTables(T)[d], R)
      BY <2>1, NewTablesFacts
    <2>6. ASSUME NEW d \in Tables PROVE Covers(table[p][d], Under(kind, p, d))
      <3>1. PICK R : R = Under(kind, p, d)
        OBVIOUS
      <3>2. R \subseteq T /\ \A v \in R : TableOf(v) = d
        BY <2>2, <3>1 DEF Under
      <3> QED BY <2>1, <2>5, <3>1, <3>2
    <2> QED BY <2>1, <2>3, <2>4, <2>5, <2>6
  <1>8. TypeOK
    <2>1. ref \in [AllFrames -> Nat]
      <3>1. Cardinality(TextPages) \in Nat
        BY <1>2, PagesCount
      <3> QED BY <1>1, <3>1
    <2>2. rmap \in [AllFrames -> SUBSET (Procs \X Pages)]
      <3>1. /\ {<<InitProc, StackTop>>} \in SUBSET (Procs \X Pages)
            /\ {InitProc} \X TextPages \in SUBSET (Procs \X Pages)
            /\ {} \in SUBSET (Procs \X Pages)
        BY <1>2
      <3> DEFINE R(g) == CASE g = f -> {<<InitProc, StackTop>>}
                           [] g = KFrame -> {InitProc} \X TextPages
                           [] OTHER -> {}
      <3>2. \A g \in AllFrames : R(g) \in SUBSET (Procs \X Pages)
        BY <3>1
      <3>3. rmap = [g \in AllFrames |-> R(g)]
        BY <1>1
      <3> HIDE DEF R
      <3> QED BY <3>2, <3>3
    <2>3. table \in [Procs -> [Tables -> {NoTable} \cup 0 .. CountCap]]
      BY <1>1, <1>7
    <2>4. leaked \in 0 .. MaxTables
      BY <1>1, BoundsAssumption
    <2>5. content \in [AllFrames -> Values]
      BY <1>1, ValuesAssumption
    <2> HIDE DEF S
    <2> QED BY <1>1, <1>2, <1>3, <1>4, <1>5, <2>1, <2>2, <2>3, <2>4, <2>5
            DEF TypeOK
  <1>9. PTEsSound
    <2> SUFFICES ASSUME NEW q \in Procs, NEW u \in Pages
                 PROVE  /\ kind[q][u] \in PresentKinds => frame[q][u] \in AllFrames
                        /\ kind[q][u] # "none" => q \in alive /\ u \in given[q]
                        /\ kind[q][u] = "lazy" => table[q][TableOf(u)] # NoTable
                        /\ kind[q][u] = "rw" /\ u \notin DataPages
                             => ~ anon[q][u]
      BY DEF PTEsSound
    <2>1. kind[q][u] \in PresentKinds => frame[q][u] \in AllFrames
      BY <1>2, <1>6
    <2>2. kind[q][u] # "none" => q \in alive /\ u \in given[q]
      BY <1>1, <1>5, <1>6
    <2>3. kind[q][u] = "lazy" => table[q][TableOf(u)] # NoTable
      BY <1>2, <1>6, <1>7
    <2>4. kind[q][u] = "rw" /\ u \notin DataPages => ~ anon[q][u]
      BY <1>2, <1>5, <1>6
    <2> QED BY <2>1, <2>2, <2>3, <2>4
  <1>10. TextMapped /\ DeadHaveNoTables
    BY <1>1, <1>2, <1>3, <1>7 DEF TextMapped, DeadHaveNoTables
  <1>11. WriterIsAlone /\ SamePage
    <2>1. "rw" \in PresentKinds
      BY DEF PresentKinds
    <2>2. WriterIsAlone
      BY <1>2, <1>6, <2>1 DEF WriterIsAlone
    <2>3. KFrame \notin Frames
      BY FramesAssumption
    <2>4. SamePage
      BY <1>6, <2>3 DEF SamePage
    <2> QED BY <2>2, <2>4
  <1>12. TLBMapped /\ TLBCoherent
    BY <1>1 DEF TLBMapped, TLBCoherent
  <1>13. CountsCover
    BY <1>7, UnderAre
  <1>14. TablesBounded
    <2>1. OthersInUse(table, InitProc) = {}
      BY <1>7 DEF OthersInUse
    <2>2. OwnInUse(table, InitProc) \subseteq Tables
      BY DEF OwnInUse
    <2>3. Cardinality(OwnInUse(table, InitProc)) <= 3
      BY <2>2, TableFacts, FS_Subset
    <2>4. /\ Cardinality(InUse(table)) =
               Cardinality(OthersInUse(table, InitProc))
                 + Cardinality(OwnInUse(table, InitProc))
          /\ Cardinality(OwnInUse(table, InitProc)) \in Nat
      BY <1>2, InUseSplit
    <2>5. TablesUsed = 0 + Cardinality(InUse(table))
      BY <1>1 DEF TablesUsed, InUse
    <2>6. Cardinality(OthersInUse(table, InitProc)) = 0
      BY <2>1, FS_EmptySet
    <2> QED BY <2>3, <2>4, <2>5, <2>6, BoundsAssumption DEF TablesBounded
  <1>15. FramesExact
    <2> DEFINE M(g) == MapOf(kind, frame, g)
               B == Row(InitProc, TextPages)
               x == <<InitProc, StackTop>>
    <2>1. M(f) = {x}
      <3>1. /\ M(f) \subseteq PTEs /\ {x} \subseteq PTEs
            /\ \A q \in Procs : \A u \in Pages :
                 <<q, u>> \in M(f) <=> kind[q][u] \in PresentKinds
                                         /\ frame[q][u] = f
        BY <1>2, MapOfFacts DEF PTEs
      <3>2. \A q \in Procs : \A u \in Pages :
              <<q, u>> \in {x} <=> q = InitProc /\ u = StackTop
        OBVIOUS
      <3> HIDE DEF M, x
      <3>3. \A q \in Procs : \A u \in Pages : <<q, u>> \in M(f) <=> <<q, u>> \in {x}
        <4> SUFFICES ASSUME NEW q \in Procs, NEW u \in Pages
                     PROVE  kind[q][u] \in PresentKinds /\ frame[q][u] = f
                              <=> q = InitProc /\ u = StackTop
          BY <3>1, <3>2
        <4> QED BY <1>2, <1>4, <1>6
      <3>4. PICK A, C : A = M(f) /\ C = {x}
        OBVIOUS
      <3>5. /\ A \subseteq PTEs /\ C \subseteq PTEs
            /\ \A q \in Procs : \A u \in Pages : <<q, u>> \in A <=> <<q, u>> \in C
        BY <3>1, <3>3, <3>4
      <3>6. A = C
        BY <3>5, SamePTEs
      <3> QED BY <3>4, <3>6
    <2>2. M(KFrame) = B
      <3>1. /\ M(KFrame) \subseteq PTEs /\ B \subseteq PTEs
            /\ \A q \in Procs : \A u \in Pages :
                 <<q, u>> \in M(KFrame) <=> kind[q][u] \in PresentKinds
                                              /\ frame[q][u] = KFrame
        BY <1>2, MapOfFacts DEF PTEs, Row
      <3>2. \A q \in Procs : \A u \in Pages :
              <<q, u>> \in B <=> q = InitProc /\ u \in TextPages
        BY DEF Row
      <3> HIDE DEF M, B
      <3>3. \A q \in Procs : \A u \in Pages :
              <<q, u>> \in M(KFrame) <=> <<q, u>> \in B
        <4> SUFFICES ASSUME NEW q \in Procs, NEW u \in Pages
                     PROVE  kind[q][u] \in PresentKinds /\ frame[q][u] = KFrame
                              <=> q = InitProc /\ u \in TextPages
          BY <3>1, <3>2
        <4> QED BY <1>2, <1>4, <1>6
      <3>4. PICK A, C : A = M(KFrame) /\ C = B
        OBVIOUS
      <3>5. /\ A \subseteq PTEs /\ C \subseteq PTEs
            /\ \A q \in Procs : \A u \in Pages : <<q, u>> \in A <=> <<q, u>> \in C
        BY <3>1, <3>3, <3>4
      <3>6. A = C
        BY <3>5, SamePTEs
      <3> QED BY <3>4, <3>6
    <2>3. ASSUME NEW g, g # f, g # KFrame PROVE M(g) = {}
      <3>1. /\ M(g) \subseteq PTEs
            /\ \A q \in Procs : \A u \in Pages :
                 <<q, u>> \in M(g) <=> kind[q][u] \in PresentKinds
                                         /\ frame[q][u] = g
        BY MapOfFacts
      <3> HIDE DEF M
      <3>2. \A q \in Procs : \A u \in Pages : <<q, u>> \notin M(g)
        <4> SUFFICES ASSUME NEW q \in Procs, NEW u \in Pages
                     PROVE  ~ (kind[q][u] \in PresentKinds /\ frame[q][u] = g)
          BY <3>1
        <4> QED BY <1>6, <2>3
      <3> QED BY <3>1, <3>2 DEF PTEs
    <2>4. /\ rmap[f] = {x} /\ ref[f] = 1
          /\ ref[KFrame] = 1 + Cardinality(TextPages)
      BY <1>1, <1>2
    <2>5. rmap[KFrame] = B
      <3>1. rmap[KFrame] = {InitProc} \X TextPages
        BY <1>1, <1>2
      <3>2. {InitProc} \X TextPages = B
        BY DEF Row
      <3> QED BY <3>1, <3>2, Zenon
    <2>6. \A g \in AllFrames : g # f /\ g # KFrame => rmap[g] = {} /\ ref[g] = 0
      BY <1>1
    <2>7. Cardinality({x}) = 1 /\ Cardinality({}) = 0
      BY FS_Singleton, FS_EmptySet
    <2>8. Cardinality(B) = Cardinality(TextPages)
      <3>1. IsFiniteSet(TextPages)
        BY <1>2, PagesCount
      <3> QED BY <3>1, RowCount
    <2> HIDE DEF M, B, x
    <2>9. ASSUME NEW g \in Frames
          PROVE  /\ rmap[g] = M(g) /\ ref[g] = Cardinality(M(g))
                 /\ g \in free <=> M(g) = {}
      <3>1. CASE g = f
        BY <1>1, <2>1, <2>4, <2>7, <3>1
      <3>2. CASE g # f
        <4>1. g # KFrame /\ g \in AllFrames /\ g \in free
          BY <1>1, <3>2, FramesAssumption DEF AllFrames
        <4> QED BY <2>3, <2>6, <2>7, <3>2, <4>1
      <3> QED BY <3>1, <3>2
    <2>10. rmap[KFrame] = M(KFrame) /\ ref[KFrame] = 1 + Cardinality(M(KFrame))
      BY <2>2, <2>4, <2>5, <2>8
    <2>11. Books(kind, frame, free, ref, rmap)
      BY <2>9, <2>10 DEF Books, M
    <2> QED BY <2>11, BooksAre
  <1> QED BY <1>8, <1>9, <1>10, <1>11, <1>12, <1>13, <1>14, <1>15 DEF IInv

LEMMA StutterInv ==
  ASSUME IInv, UNCHANGED vars
  PROVE  IInv'
  <1>1. /\ UNCHANGED <<alive, running, kind, frame, anon, given, free, ref,
                       rmap, content, tlb, table, leaked>>
        /\ down' \in BOOLEAN
    BY DEF vars, IInv, TypeOK
  <1> QED BY <1>1, DownInv

LEMMA StepInv ==
  IInv /\ [Next]_vars => IInv'
  <1> SUFFICES ASSUME IInv, [Next]_vars PROVE IInv'
    OBVIOUS
  <1>1. CASE UNCHANGED vars
    BY <1>1, StutterInv
  <1>2. ASSUME NEW p \in Procs, NEW v \in Pages, NEW x \in Values, Write(p, v, x)
        PROVE  IInv'
    BY <1>2, WriteInv
  <1>3. ASSUME NEW p \in Procs, NEW v \in Pages, CowFault(p, v)
        PROVE  IInv'
    BY <1>3, CowFaultInv
  <1>4. ASSUME NEW p \in Procs, NEW v \in Pages,
               KernelCow(p, v) \/ TouchUnmapped(p, v)
        PROVE  IInv'
    BY <1>4, GoDownInv DEF KernelCow, TouchUnmapped
  <1>5. ASSUME NEW p \in Procs, NEW v \in Pages, DemandZero(p, v)
        PROVE  IInv'
    BY <1>5, DemandZeroInv
  <1>6. ASSUME NEW p \in Procs, NEW v \in Pages, ExpandHeap(p, v)
        PROVE  IInv'
    BY <1>6, ExpandHeapInv
  <1>7. ASSUME NEW p \in Procs, NEW c \in Procs, Fork(p, c)
        PROVE  IInv'
    BY <1>7, ForkInv
  <1>8. ASSUME NEW p \in Procs, Exit(p) \/ Exec(p) \/ ExecFails(p) \/ Switch(p)
        PROVE  IInv'
    BY <1>8, ExitInv, ExecInv, ExecFailsInv, SwitchInv
  <1> QED BY <1>1, <1>2, <1>3, <1>4, <1>5, <1>6, <1>7, <1>8 DEF Next

(***************************************************************************)
(* The inductive invariant holds in every reachable state.                 *)
(***************************************************************************)
THEOREM MemoryInvariant == Spec => []IInv
  <1>1. Init => IInv
    BY InitInv
  <1>2. IInv /\ [Next]_vars => IInv'
    BY StepInv
  <1> QED BY <1>1, <1>2, PTL DEF Spec

(***************************************************************************)
(* Type correctness: no count in a PDE overflows its bits, no PTE names a  *)
(* frame that is not there, and the page tables stay within the pool.      *)
(***************************************************************************)
THEOREM MemoryTypeCorrect == Spec => []TypeOK
  <1>1. IInv => TypeOK
    BY DEF IInv
  <1> QED BY <1>1, MemoryInvariant, PTL

(***************************************************************************)
(* Over any sequence of faults, fork, exit and execve, failed ones         *)
(* included, reverse maps, reference counts and the free frames are exact. *)
(***************************************************************************)
THEOREM FrameBooksExact == Spec => []FramesExact
  <1>1. IInv => FramesExact
    BY DEF IInv
  <1> QED BY <1>1, MemoryInvariant, PTL

(***************************************************************************)
(* A frame that two PTEs map is writable through neither: setCOW reaches   *)
(* the PTEs of relatives other than parent and child, and the fault that   *)
(* makes a page writable again happens only with the last reference.       *)
(***************************************************************************)
THEOREM CopyOnWriteSafe == Spec => []SharedReadOnly
  <1>1. IInv => SharedReadOnly
    <2> SUFFICES ASSUME IInv, NEW f \in AllFrames, Cardinality(Mappers(f)) > 1,
                        NEW e \in Mappers(f), kind[e[1]][e[2]] = "rw"
                 PROVE  FALSE
      BY DEF SharedReadOnly
    <2> DEFINE M == Mappers(f)
    <2>1. \A x \in M : x = e
      <3> SUFFICES ASSUME NEW x \in M PROVE x = e
        OBVIOUS
      <3>1. /\ x \in Procs \X Pages /\ e \in Procs \X Pages
            /\ kind[x[1]][x[2]] \in PresentKinds
            /\ frame[x[1]][x[2]] = f /\ frame[e[1]][e[2]] = f
        BY DEF Mappers, Present
      <3>2. x[1] = e[1] /\ x[2] = e[2]
        BY <3>1 DEF IInv, WriterIsAlone
      <3> QED BY <3>1, <3>2
    <2>2. M = {e}
      BY <2>1
    <2>3. Cardinality({e}) = 1
      BY FS_Singleton
    <2> QED BY <2>2, <2>3
  <1> QED BY <1>1, MemoryInvariant, PTL

(***************************************************************************)
(* The count in a PDE covers the present entries of its page table, or has *)
(* saturated, so exit never frees a page table that still maps a page.     *)
(***************************************************************************)
THEOREM TableCountsCover == Spec => []CountsCover
  <1>1. IInv => CountsCover
    BY DEF IInv
  <1> QED BY <1>1, MemoryInvariant, PTL

(***************************************************************************)
(* Although fork leaves anonymous pages in the TLB, the CPU never writes   *)
(* through a translation its PTE no longer allows on the stack or heap.    *)
(***************************************************************************)
THEOREM StackAndHeapCoherent == Spec => []TLBCoherent
  <1>1. IInv => TLBCoherent
    BY DEF IInv
  <1> QED BY <1>1, MemoryInvariant, PTL

-----------------------------------------------------------------------------
(***************************************************************************)
(* The refinement: what PM's mem stands for, over given page tables.       *)
(***************************************************************************)
Own == Pages \ DataPages

ViewOf(k, r, c, p, v) ==
  IF k[p][v] \in PresentKinds THEN c[r[p][v]]
  ELSE IF k[p][v] = "lazy" THEN Fresh ELSE Unmapped

MemOf(k, r, c) == [p \in Procs |-> [v \in Own |-> ViewOf(k, r, c, p, v)]]

Mem == MemOf(kind, frame, content)

LEMMA ViewIs ==
  \A p \in Procs : \A v \in Pages :
    /\ View(p, v) = ViewOf(kind, frame, content, p, v)
    /\ View(p, v)' = ViewOf(kind', frame', content', p, v)
  BY DEF View, ViewOf, Present, PresentKinds

LEMMA MemIs ==
  /\ Mem = [p \in Procs |-> [v \in Pages \ DataPages |-> View(p, v)]]
  /\ Mem' = [p \in Procs |-> [v \in Pages \ DataPages |-> View(p, v)']]
  BY ViewIs DEF Mem, MemOf, Own

LEMMA PMSteps ==
  /\ \A p, v, x : PM!Write(p, v, x) <=>
       Mem[p][v] \in Values /\ Mem' = [Mem EXCEPT ![p][v] = x]
  /\ \A p, v : PM!Touch(p, v) <=>
       Mem[p][v] = Fresh /\ Mem' = [Mem EXCEPT ![p][v] = 0]
  /\ \A p, v : PM!Grow(p, v) <=>
       Mem[p][v] = Unmapped /\ Mem' = [Mem EXCEPT ![p][v] = Fresh]
  BY MemIs DEF PM!Write, PM!Touch, PM!Grow

LEMMA PMRows ==
  /\ \A p, c : PM!Fork(p, c) <=>
       /\ Mem[c] = [v \in Own |-> Unmapped]
       /\ Mem' = [Mem EXCEPT ![c] = [v \in Own |->
                    IF Mem[p][v] = Fresh THEN Unmapped ELSE Mem[p][v]]]
  /\ \A p : PM!Exit(p) <=> Mem' = [Mem EXCEPT ![p] = [v \in Own |-> Unmapped]]
  /\ \A p : PM!Exec(p) <=>
       /\ Mem' = [Mem EXCEPT ![p] = Mem'[p]]
       /\ \A v \in Own : Mem'[p][v] \in Loaded[v]
  /\ PM!Init <=> Mem \in [Procs -> [Own -> Values \cup {Fresh, Unmapped}]]
  BY MemIs DEF PM!Fork, PM!Exit, PM!Exec, PM!Init, PM!Nothing, Own

(***************************************************************************)
(* Changes of Mem, cell by cell.                                           *)
(***************************************************************************)
LEMMA MemCells ==
  /\ \A p \in Procs : \A v \in Own :
       /\ Mem[p][v] = ViewOf(kind, frame, content, p, v)
       /\ Mem'[p][v] = ViewOf(kind', frame', content', p, v)
  /\ Mem = [p \in Procs |-> [v \in Own |-> Mem[p][v]]]
  /\ Mem' = [p \in Procs |-> [v \in Own |-> Mem'[p][v]]]
  BY DEF Mem, MemOf

LEMMA SameMem ==
  ASSUME \A q \in Procs : \A u \in Own :
           ViewOf(kind', frame', content', q, u)
             = ViewOf(kind, frame, content, q, u)
  PROVE  Mem' = Mem
  BY DEF Mem, MemOf

LEMMA OneCell ==
  ASSUME NEW p \in Procs, NEW v \in Own, NEW x,
         ViewOf(kind', frame', content', p, v) = x,
         \A q \in Procs : \A u \in Own : (q # p \/ u # v) =>
           ViewOf(kind', frame', content', q, u)
             = ViewOf(kind, frame, content, q, u)
  PROVE  Mem' = [Mem EXCEPT ![p][v] = x]
  BY DEF Mem, MemOf

LEMMA OneRow ==
  ASSUME NEW p \in Procs,
         \A q \in Procs \ {p} : \A u \in Own :
           ViewOf(kind', frame', content', q, u)
             = ViewOf(kind, frame, content, q, u)
  PROVE  Mem' = [Mem EXCEPT ![p] = Mem'[p]]
  BY DEF Mem, MemOf

(***************************************************************************)
(* No contents of a frame are taken for a page that has none.              *)
(***************************************************************************)
LEMMA ViewFacts ==
  ASSUME IInv, NEW p \in Procs, NEW v \in Pages
  PROVE  /\ kind[p][v] \in PresentKinds =>
              /\ ViewOf(kind, frame, content, p, v) \in Values
              /\ ViewOf(kind, frame, content, p, v) # Fresh
         /\ kind[p][v] = "lazy" => ViewOf(kind, frame, content, p, v) = Fresh
         /\ kind[p][v] = "none" => ViewOf(kind, frame, content, p, v) = Unmapped
         /\ ViewOf(kind, frame, content, p, v) \in Values \cup {Fresh, Unmapped}
         /\ kind[p][v] \in PresentKinds \cup {"lazy", "none"}
  <1>1. /\ kind[p][v] \in PresentKinds => frame[p][v] \in AllFrames
        /\ content \in [AllFrames -> Values]
        /\ kind[p][v] \in Kinds
    BY DEF IInv, TypeOK, PTEsSound
  <1>2. \A x \in Values : x # Fresh
    BY ValuesAssumption DEF Fresh
  <1> QED BY <1>1, <1>2 DEF ViewOf, PresentKinds, Kinds

(***************************************************************************)
(* Every step is one of PrivateMemory or leaves every page as it was.  A   *)
(* write: nobody else maps a frame that is written through a page of       *)
(* stack or heap, and only data pages map one written through a data page. *)
(***************************************************************************)
PMStep == PM!Next \/ Mem' = Mem

LEMMA WriteStep ==
  ASSUME IInv, NEW p \in Procs, NEW v \in Pages, NEW x \in Values,
         Write(p, v, x)
  PROVE  PMStep
  <1>1. PICK f \in Frames :
          /\ <<v, f>> \in tlb \/ (kind[p][v] = "rw" /\ frame[p][v] = f)
          /\ WriteTo(p, v, f, x)
    BY DEF Write
  <1>2. running = p /\ kind' = kind /\ frame' = frame
        /\ content' = [content EXCEPT ![f] = x]
    BY <1>1 DEF Write, Runs, WriteTo
  <1>3. /\ kind[p][v] \in PresentKinds /\ frame[p][v] = f
        /\ v \notin DataPages => kind[p][v] = "rw"
        /\ content \in [AllFrames -> Values] /\ f \in AllFrames
    BY <1>1, <1>2 DEF IInv, TLBMapped, TLBCoherent, PresentKinds, TypeOK, AllFrames
  <1>4. /\ content'[f] = x
        /\ \A g \in AllFrames : g # f => content'[g] = content[g]
    BY <1>2, <1>3
  <1>5. ASSUME NEW q \in Procs, NEW u \in Own, q # p \/ u # v
        PROVE  ViewOf(kind', frame', content', q, u)
                 = ViewOf(kind, frame, content, q, u)
    <2>1. u \in Pages /\ u \notin DataPages
      BY DEF Own
    <2>2. CASE kind[q][u] \in PresentKinds
      <3>1. frame[q][u] \in AllFrames
        BY <2>1, <2>2 DEF IInv, PTEsSound
      <3>2. frame[q][u] # f
        <4>1. CASE v \notin DataPages
          BY <1>3, <1>5, <2>1, <2>2, <4>1 DEF IInv, WriterIsAlone
        <4>2. CASE v \in DataPages
          BY <1>3, <2>1, <2>2, <4>2 DEF IInv, SamePage
        <4> QED BY <4>1, <4>2
      <3> QED BY <1>2, <1>4, <2>2, <3>1, <3>2 DEF ViewOf
    <2>3. CASE kind[q][u] \notin PresentKinds
      BY <1>2, <2>3 DEF ViewOf
    <2> QED BY <2>2, <2>3
  <1>6. CASE v \in DataPages
    <2>1. \A q \in Procs : \A u \in Own : q # p \/ u # v
      BY <1>6 DEF Own
    <2>2. Mem' = Mem
      BY <1>5, <2>1, SameMem
    <2> QED BY <2>2 DEF PMStep
  <1>7. CASE v \notin DataPages
    <2>1. v \in Own
      BY <1>7 DEF Own
    <2>2. ViewOf(kind', frame', content', p, v) = x
      BY <1>2, <1>3, <1>4 DEF ViewOf
    <2>3. Mem' = [Mem EXCEPT ![p][v] = x]
      BY <1>5, <2>1, <2>2, OneCell
    <2>4. Mem[p][v] \in Values
      BY <1>3, <2>1, MemCells, ViewFacts
    <2>5. PM!Write(p, v, x)
      BY <2>3, <2>4, PMSteps
    <2> QED BY <2>1, <2>5 DEF PMStep, PM!Next, Own
  <1> QED BY <1>6, <1>7

(***************************************************************************)
(* A copy-on-write fault moves a page and not what it contains; a lazy     *)
(* page gets a zeroed frame that nobody maps.                              *)
(***************************************************************************)
LEMMA FreshFrame ==
  ASSUME IInv, NEW g \in free, NEW q \in Procs, NEW u \in Pages,
         kind[q][u] \in PresentKinds
  PROVE  frame[q][u] # g /\ frame[q][u] \in AllFrames /\ g \in AllFrames
  <1>1. Books(kind, frame, free, ref, rmap) /\ g \in Frames
    BY BooksAre DEF IInv, TypeOK
  <1>2. MapOf(kind, frame, g) = {}
    BY <1>1 DEF Books
  <1>3. <<q, u>> \notin MapOf(kind, frame, g)
    BY <1>2
  <1>4. frame[q][u] # g
    BY <1>3, MapOfFacts
  <1> QED BY <1>1, <1>4 DEF IInv, PTEsSound, AllFrames

LEMMA CowFaultStep ==
  ASSUME IInv, NEW p \in Procs, NEW v \in Pages, CowFault(p, v)
  PROVE  PMStep
  <1>1. kind[p][v] = "cow" /\ kind[p][v] \in PresentKinds
    BY DEF CowFault, PresentKinds
  <1>2. /\ kind \in [Procs -> [Pages -> Kinds]]
        /\ frame \in [Procs -> [Pages -> AllFrames \cup {NoFrame}]]
        /\ content \in [AllFrames -> Values]
    BY DEF IInv, TypeOK
  <1>3. ASSUME kind' = [kind EXCEPT ![p][v] = "rw"]
        PROVE  \A q \in Procs : \A u \in Pages :
                 /\ kind'[q][u] \in PresentKinds <=> kind[q][u] \in PresentKinds
                 /\ kind'[q][u] = "lazy" <=> kind[q][u] = "lazy"
    <2>1. "rw" \in Kinds
      BY DEF Kinds
    <2>2. \A q \in Procs : \A u \in Pages :
            kind'[q][u] = IF q = p /\ u = v THEN "rw" ELSE kind[q][u]
      BY <1>2, <1>3, <2>1, OnePTE
    <2> QED BY <1>1, <2>2 DEF PresentKinds
  <1>4. CASE kind' = [kind EXCEPT ![p][v] = "rw"] /\ UNCHANGED <<frame, content>>
    <2>1. Mem' = Mem
      BY <1>3, <1>4, SameMem DEF ViewOf, Own
    <2> QED BY <2>1 DEF PMStep
  <1>5. ASSUME NEW g \in free,
               kind' = [kind EXCEPT ![p][v] = "rw"],
               frame' = [frame EXCEPT ![p][v] = g],
               content' = [content EXCEPT ![g] = content[frame[p][v]]]
        PROVE  PMStep
    <2>1. g \in AllFrames
      BY <1>1, <1>5, FreshFrame
    <2>2. \A q \in Procs : \A u \in Pages :
            frame'[q][u] = IF q = p /\ u = v THEN g ELSE frame[q][u]
      <3>1. g \in AllFrames \cup {NoFrame}
        BY <2>1
      <3> QED BY <1>2, <1>5, <3>1, OnePTE
    <2>3. /\ content'[g] = content[frame[p][v]]
          /\ \A h \in AllFrames : h # g => content'[h] = content[h]
      BY <1>2, <1>5, <2>1
    <2>4. ASSUME NEW q \in Procs, NEW u \in Own
          PROVE  ViewOf(kind', frame', content', q, u)
                   = ViewOf(kind, frame, content, q, u)
      <3>1. u \in Pages
        BY DEF Own
      <3>2. CASE kind[q][u] \in PresentKinds
        <4>1. frame[q][u] # g /\ frame[q][u] \in AllFrames
          BY <1>5, <3>1, <3>2, FreshFrame
        <4>2. content'[frame'[q][u]] = content[frame[q][u]]
          BY <2>2, <2>3, <3>1, <4>1
        <4> QED BY <1>3, <1>5, <3>1, <3>2, <4>2 DEF ViewOf
      <3>3. CASE kind[q][u] \notin PresentKinds
        BY <1>3, <1>5, <3>1, <3>3 DEF ViewOf
      <3> QED BY <3>2, <3>3
    <2>5. Mem' = Mem
      BY <2>4, SameMem
    <2> QED BY <2>5 DEF PMStep
  <1>6. CASE UNCHANGED <<kind, frame, content>>
    BY <1>6 DEF PMStep, Mem
  <1> QED BY <1>4, <1>5, <1>6 DEF CowFault

LEMMA DemandZeroStep ==
  ASSUME IInv, NEW p \in Procs, NEW v \in Pages, DemandZero(p, v)
  PROVE  PMStep
  <1>1. kind[p][v] = "lazy"
    BY DEF DemandZero
  <1>2. /\ kind \in [Procs -> [Pages -> Kinds]]
        /\ frame \in [Procs -> [Pages -> AllFrames \cup {NoFrame}]]
        /\ content \in [AllFrames -> Values] /\ free \subseteq Frames
    BY DEF IInv, TypeOK
  <1>3. ASSUME NEW g \in free,
               kind' = [kind EXCEPT ![p][v] = "rw"],
               frame' = [frame EXCEPT ![p][v] = g],
               content' = [content EXCEPT ![g] = 0]
        PROVE  PMStep
    <2>1. g \in AllFrames /\ "rw" \in Kinds /\ g \in AllFrames \cup {NoFrame}
      BY <1>2 DEF AllFrames, Kinds
    <2>2. \A q \in Procs : \A u \in Pages :
            kind'[q][u] = IF q = p /\ u = v THEN "rw" ELSE kind[q][u]
      BY <1>2, <1>3, <2>1, OnePTE
    <2>3. \A q \in Procs : \A u \in Pages :
            frame'[q][u] = IF q = p /\ u = v THEN g ELSE frame[q][u]
      BY <1>2, <1>3, <2>1, OnePTE
    <2>4. /\ content'[g] = 0
          /\ \A h \in AllFrames : h # g => content'[h] = content[h]
      BY <1>2, <1>3, <2>1
    <2>5. ASSUME NEW q \in Procs, NEW u \in Own, q # p \/ u # v
          PROVE  ViewOf(kind', frame', content', q, u)
                   = ViewOf(kind, frame, content, q, u)
      <3>1. u \in Pages
        BY DEF Own
      <3>2. kind'[q][u] = kind[q][u] /\ frame'[q][u] = frame[q][u]
        BY <2>2, <2>3, <2>5, <3>1
      <3>3. CASE kind[q][u] \in PresentKinds
        <4>1. frame[q][u] # g /\ frame[q][u] \in AllFrames
          BY <1>3, <3>1, <3>3, FreshFrame
        <4> QED BY <2>4, <3>2, <3>3, <4>1 DEF ViewOf
      <3>4. CASE kind[q][u] \notin PresentKinds
        BY <3>2, <3>4 DEF ViewOf
      <3> QED BY <3>3, <3>4
    <2>6. CASE v \in DataPages
      <3>1. \A q \in Procs : \A u \in Own : q # p \/ u # v
        BY <2>6 DEF Own
      <3>2. Mem' = Mem
        BY <2>5, <3>1, SameMem
      <3> QED BY <3>2 DEF PMStep
    <2>7. CASE v \notin DataPages
      <3>1. v \in Own
        BY <2>7 DEF Own
      <3>2. ViewOf(kind', frame', content', p, v) = 0
        BY <2>2, <2>3, <2>4 DEF ViewOf, PresentKinds
      <3>3. Mem' = [Mem EXCEPT ![p][v] = 0]
        BY <2>5, <3>1, <3>2, OneCell
      <3>4. Mem[p][v] = Fresh
        BY <1>1, <3>1, MemCells, ViewFacts
      <3>5. PM!Touch(p, v)
        BY <3>3, <3>4, PMSteps
      <3> QED BY <3>1, <3>5 DEF PMStep, PM!Next, Own
    <2> QED BY <2>6, <2>7
  <1>4. CASE UNCHANGED <<kind, frame, content>>
    BY <1>4 DEF PMStep, Mem
  <1> QED BY <1>3, <1>4 DEF DemandZero

LEMMA ExpandHeapStep ==
  ASSUME IInv, NEW p \in Procs, NEW v \in Pages, ExpandHeap(p, v)
  PROVE  PMStep
  <1>1. /\ v \in HeapPages /\ v \notin given[p]
        /\ kind' = [kind EXCEPT ![p][v] = "lazy"]
        /\ frame' = frame /\ content' = content
    BY DEF ExpandHeap
  <1>2. /\ kind \in [Procs -> [Pages -> Kinds]] /\ "lazy" \in Kinds
        /\ kind[p][v] = "none" /\ v \in Own
    BY <1>1, SegmentsAssumption DEF IInv, TypeOK, PTEsSound, Kinds, Own, Image
  <1>3. \A q \in Procs : \A u \in Pages :
          kind'[q][u] = IF q = p /\ u = v THEN "lazy" ELSE kind[q][u]
    BY <1>1, <1>2, OnePTE
  <1>4. \A q \in Procs : \A u \in Own : (q # p \/ u # v) =>
          ViewOf(kind', frame', content', q, u)
            = ViewOf(kind, frame, content, q, u)
    BY <1>1, <1>3 DEF ViewOf, Own
  <1>5. ViewOf(kind', frame', content', p, v) = Fresh
    BY <1>3 DEF ViewOf, PresentKinds
  <1>6. Mem' = [Mem EXCEPT ![p][v] = Fresh]
    BY <1>2, <1>4, <1>5, OneCell
  <1>7. Mem[p][v] = Unmapped
    BY <1>2, MemCells, ViewFacts
  <1>8. PM!Grow(p, v)
    BY <1>6, <1>7, PMSteps
  <1> QED BY <1>2, <1>8 DEF PMStep, PM!Next, Own

(***************************************************************************)
(* fork: the child sees what the parent sees, except its lazy pages.       *)
(***************************************************************************)
LEMMA ForkStep ==
  ASSUME IInv, NEW p \in Procs, NEW c \in Procs, Fork(p, c)
  PROVE  PMStep
  <1>1. c \notin alive /\ c # p /\ content' = content
    BY DEF Fork, Runs
  <1>2. \A u \in Pages : kind[c][u] = "none"
    BY <1>1 DEF IInv, PTEsSound
  <1>3. ASSUME kind' = [SetCOW(p) EXCEPT ![c] =
                 [v \in Pages |-> IF v \in Present(p) THEN "cow" ELSE "none"]],
               frame' = [frame EXCEPT ![c] = frame[p]]
        PROVE  PMStep
    <2>1. /\ kind' \in [Procs -> [Pages -> Kinds]]
          /\ frame' \in [Procs -> [Pages -> AllFrames \cup {NoFrame}]]
          /\ \A q \in Procs \ {c} : \A u \in Pages :
               /\ frame'[q][u] = frame[q][u]
               /\ \/ kind'[q][u] = "cow" /\ kind[q][u] \in PresentKinds
                  \/ kind'[q][u] = kind[q][u]
               /\ kind'[q][u] = "rw" =>
                    \A w \in Pages : kind[p][w] \in PresentKinds
                                       => frame[q][u] # frame[p][w]
          /\ \A u \in Pages :
               /\ frame'[c][u] = frame[p][u]
               /\ kind'[c][u] = IF kind[p][u] \in PresentKinds
                                THEN "cow" ELSE "none"
      <3>1. c # p
        BY <1>1
      <3> QED BY <1>3, <3>1, ForkKinds, Zenon
    <2>2. \A q \in Procs \ {c} : \A u \in Own :
            ViewOf(kind', frame', content', q, u)
              = ViewOf(kind, frame, content, q, u)
      BY <1>1, <2>1 DEF ViewOf, Own, PresentKinds
    <2>3. ASSUME NEW u \in Own
          PROVE  Mem'[c][u] = IF Mem[p][u] = Fresh THEN Unmapped ELSE Mem[p][u]
      <3>1. u \in Pages
        BY DEF Own
      <3>2. /\ Mem'[c][u] = ViewOf(kind', frame', content', c, u)
            /\ Mem[p][u] = ViewOf(kind, frame, content, p, u)
        BY MemCells
      <3>3. CASE kind[p][u] \in PresentKinds
        <4>1. ViewOf(kind', frame', content', c, u)
                = ViewOf(kind, frame, content, p, u)
          BY <1>1, <2>1, <3>1, <3>3 DEF ViewOf, PresentKinds
        <4>2. ViewOf(kind, frame, content, p, u) # Fresh
          BY <3>1, <3>3, ViewFacts
        <4> QED BY <3>2, <4>1, <4>2
      <3>4. CASE kind[p][u] \notin PresentKinds
        <4>1. ViewOf(kind', frame', content', c, u) = Unmapped
          BY <2>1, <3>1, <3>4 DEF ViewOf, PresentKinds
        <4>2. \/ ViewOf(kind, frame, content, p, u) = Fresh
              \/ ViewOf(kind, frame, content, p, u) = Unmapped
          BY <3>4 DEF ViewOf
        <4> QED BY <3>2, <4>1, <4>2 DEF Fresh, Unmapped
      <3> QED BY <3>3, <3>4
    <2>4. Mem' = [Mem EXCEPT ![c] = [v \in Own |->
                    IF Mem[p][v] = Fresh THEN Unmapped ELSE Mem[p][v]]]
      <3>1. Mem' = [Mem EXCEPT ![c] = Mem'[c]]
        BY <2>2, OneRow
      <3>2. Mem'[c] = [v \in Own |->
                         IF Mem[p][v] = Fresh THEN Unmapped ELSE Mem[p][v]]
        <4>1. Mem'[c] = [v \in Own |-> Mem'[c][v]]
          BY DEF Mem, MemOf
        <4> QED BY <2>3, <4>1
      <3> QED BY <3>1, <3>2
    <2>5. Mem[c] = [v \in Own |-> Unmapped]
      <3>1. \A u \in Own : ViewOf(kind, frame, content, c, u) = Unmapped
        BY <1>2 DEF ViewOf, Own, PresentKinds
      <3> QED BY <3>1 DEF Mem, MemOf
    <2>6. PM!Fork(p, c)
      BY <2>4, <2>5, PMRows
    <2> QED BY <2>6 DEF PMStep, PM!Next
  <1>4. CASE UNCHANGED <<kind, frame>>
    BY <1>1, <1>4 DEF PMStep, Mem
  <1> QED BY <1>3, <1>4 DEF Fork

(***************************************************************************)
(* exit and execve: nothing of the other processes changes, and what the   *)
(* new program finds is its image.                                         *)
(***************************************************************************)
LEMMA VanishStep ==
  ASSUME IInv, NEW p \in Procs, NEW lost, Vanish(p, lost), content' = content
  PROVE  PMStep
  <1>1. /\ kind' = [kind EXCEPT ![p] = Empty("none")]
        /\ frame' = [frame EXCEPT ![p] = Empty(NoFrame)]
    BY DEF Vanish
  <1>2. /\ kind \in [Procs -> [Pages -> Kinds]]
        /\ frame \in [Procs -> [Pages -> AllFrames \cup {NoFrame}]]
    BY DEF IInv, TypeOK
  <1>3. /\ \A q \in Procs \ {p} : kind'[q] = kind[q] /\ frame'[q] = frame[q]
        /\ \A u \in Pages : kind'[p][u] = "none"
    BY <1>1, <1>2 DEF Empty
  <1>4. \A q \in Procs \ {p} : \A u \in Own :
          ViewOf(kind', frame', content', q, u)
            = ViewOf(kind, frame, content, q, u)
    BY <1>3 DEF ViewOf
  <1>5. Mem' = [Mem EXCEPT ![p] = Mem'[p]]
    BY <1>4, OneRow
  <1>6. Mem'[p] = [v \in Own |-> Unmapped]
    <2>1. \A u \in Own : ViewOf(kind', frame', content', p, u) = Unmapped
      BY <1>3 DEF ViewOf, Own, PresentKinds
    <2> QED BY <2>1 DEF Mem, MemOf
  <1>7. PM!Exit(p)
    BY <1>5, <1>6, PMRows
  <1> QED BY <1>7 DEF PMStep, PM!Next

LEMMA ExecStep ==
  ASSUME IInv, NEW p \in Procs, Exec(p)
  PROVE  PMStep
  <1> DEFINE D == Image \cup {StackTop}
  <1>1. PICK g \in [Image \cup {StackTop} -> FreeAfterDestroy(p)] :
          /\ frame' = [frame EXCEPT ![p] = [v \in Pages |->
                         IF v \in DOMAIN g THEN g[v] ELSE NoFrame]]
          /\ content' = [f \in AllFrames |->
               IF \E v \in Image : g[v] = f THEN 1 ELSE content[f]]
    BY Zenon DEF Exec
  <1>2. kind' = [kind EXCEPT ![p] = [v \in Pages |->
                   CASE v \in TextPages -> "ro"
                     [] v \in DataPages -> "rw"
                     [] v = StackTop -> "rw"
                     [] v \in LazyStack -> "lazy"
                     [] OTHER -> "none"]]
    BY DEF Exec
  <1>3. /\ kind \in [Procs -> [Pages -> Kinds]]
        /\ frame \in [Procs -> [Pages -> AllFrames \cup {NoFrame}]]
        /\ content \in [AllFrames -> Values] /\ DOMAIN g = D
    BY DEF IInv, TypeOK
  <1>4. \A q \in Procs \ {p} : kind'[q] = kind[q] /\ frame'[q] = frame[q]
    BY <1>1, <1>2, <1>3
  <1>5. \A u \in D : frame'[p][u] = g[u]
    BY <1>1, <1>3, SegmentsAssumption DEF Pages
  <1>6. /\ \A u \in D : g[u] \in Frames /\ g[u] \in AllFrames
        /\ \A q \in Procs \ {p} : \A w \in Pages : \A u \in D :
             kind[q][w] \in PresentKinds => frame[q][w] # g[u]
    <2>1. PICK k : k = [kind EXCEPT ![p] = Empty("none")]
      OBVIOUS
    <2>2. \A q \in Procs \ {p} : \A u \in Pages : k[q][u] = kind[q][u]
      BY <1>3, <2>1
    <2>3. \A u \in Pages : k[p][u] \notin PresentKinds
      BY <1>3, <2>1 DEF Empty, PresentKinds
    <2>4. /\ Books(k, frame, FreeAfterDestroy(p), RefAfterDestroy(p),
                   RMapAfterDestroy(p))
          /\ FreeAfterDestroy(p) \subseteq Frames
      BY <2>2, <2>3, DestroyBooks, Zenon
    <2>5. \A u \in D : g[u] \in FreeAfterDestroy(p) /\ g[u] \in Frames
      BY <2>4
    <2>6. ASSUME NEW q \in Procs \ {p}, NEW w \in Pages, NEW u \in D,
                 kind[q][w] \in PresentKinds, frame[q][w] = g[u]
          PROVE  FALSE
      <3>1. MapOf(k, frame, g[u]) = {}
        BY <2>4, <2>5 DEF Books
      <3>2. <<q, w>> \in MapOf(k, frame, g[u])
        BY <2>2, <2>6, MapOfFacts
      <3> QED BY <3>1, <3>2
    <2> QED BY <2>5, <2>6 DEF AllFrames
  <1>7. \A q \in Procs \ {p} : \A u \in Own :
          ViewOf(kind', frame', content', q, u)
            = ViewOf(kind, frame, content, q, u)
    <2> SUFFICES ASSUME NEW q \in Procs \ {p}, NEW u \in Own
                 PROVE  ViewOf(kind', frame', content', q, u)
                          = ViewOf(kind, frame, content, q, u)
      OBVIOUS
    <2>1. u \in Pages
      BY DEF Own
    <2>2. CASE kind[q][u] \in PresentKinds
      <3>1. /\ frame[q][u] \in AllFrames
            /\ \A w \in Image : frame[q][u] # g[w]
        BY <1>6, <2>1, <2>2 DEF IInv, PTEsSound
      <3>2. content'[frame[q][u]] = content[frame[q][u]]
        BY <1>1, <3>1
      <3> QED BY <1>4, <2>2, <3>2 DEF ViewOf
    <2>3. CASE kind[q][u] \notin PresentKinds
      BY <1>4, <2>3 DEF ViewOf
    <2> QED BY <2>2, <2>3
  <1>8. \A v \in Own : Mem'[p][v] \in Loaded[v]
    <2> SUFFICES ASSUME NEW v \in Own PROVE Mem'[p][v] \in Loaded[v]
      OBVIOUS
    <2> DEFINE K(u) == CASE u \in TextPages -> "ro"
                         [] u \in DataPages -> "rw"
                         [] u = StackTop -> "rw"
                         [] u \in LazyStack -> "lazy"
                         [] OTHER -> "none"
    <2>1. v \in Pages /\ v \notin DataPages
      BY DEF Own
    <2>2. kind'[p][v] = K(v)
      BY <1>2, <1>3, <2>1
    <2>3. Mem'[p][v] = ViewOf(kind', frame', content', p, v)
      BY MemCells
    <2>4. CASE v \in TextPages
      <3>1. K(v) = "ro" /\ v \in Image /\ Loaded[v] = {1}
        BY <2>1, <2>4, SegmentsAssumption DEF Image, LazyStack, Loaded
      <3>2. frame'[p][v] = g[v] /\ content'[g[v]] = 1
        BY <1>1, <1>5, <1>6, <3>1
      <3> HIDE DEF K
      <3> QED BY <2>2, <2>3, <3>1, <3>2 DEF ViewOf, PresentKinds
    <2>5. CASE v = StackTop
      <3>1. K(v) = "rw" /\ v \in D /\ Loaded[v] = Values
        BY <2>1, <2>5, SegmentsAssumption DEF Image, LazyStack, Loaded
      <3>2. frame'[p][v] = g[v] /\ content'[g[v]] \in Values
        BY <1>1, <1>3, <1>5, <1>6, <3>1, ValuesAssumption
      <3> HIDE DEF K
      <3> QED BY <2>2, <2>3, <3>1, <3>2 DEF ViewOf, PresentKinds
    <2>6. CASE v \in LazyStack
      <3>1. K(v) = "lazy" /\ Loaded[v] = {Fresh}
        BY <2>1, <2>6, SegmentsAssumption DEF Image, LazyStack, Loaded
      <3> HIDE DEF K
      <3> QED BY <2>2, <2>3, <3>1 DEF ViewOf, PresentKinds
    <2>7. CASE v \notin TextPages \cup {StackTop} \cup LazyStack
      <3>1. K(v) = "none" /\ Loaded[v] = {Unmapped}
        BY <2>1, <2>7 DEF Image, Loaded
      <3> HIDE DEF K
      <3> QED BY <2>2, <2>3, <3>1 DEF ViewOf, PresentKinds
    <2> QED BY <2>4, <2>5, <2>6, <2>7
  <1>9. Mem' = [Mem EXCEPT ![p] = Mem'[p]]
    BY <1>7, OneRow
  <1>10. PM!Exec(p)
    BY <1>8, <1>9, PMRows
  <1> QED BY <1>10 DEF PMStep, PM!Next

LEMMA StepRefines ==
  ASSUME IInv, [Next]_vars
  PROVE  PMStep
  <1>1. CASE UNCHANGED <<kind, frame, content>>
    BY <1>1 DEF PMStep, Mem
  <1>2. CASE UNCHANGED vars \/ GoDown
    BY <1>1, <1>2 DEF vars, GoDown
  <1>3. ASSUME NEW p \in Procs, NEW v \in Pages, NEW x \in Values, Write(p, v, x)
        PROVE  PMStep
    BY <1>3, WriteStep
  <1>4. ASSUME NEW p \in Procs, NEW v \in Pages,
               \/ CowFault(p, v) \/ KernelCow(p, v) \/ DemandZero(p, v)
               \/ TouchUnmapped(p, v) \/ ExpandHeap(p, v)
        PROVE  PMStep
    BY <1>2, <1>4, CowFaultStep, DemandZeroStep, ExpandHeapStep
       DEF KernelCow, TouchUnmapped
  <1>5. ASSUME NEW p \in Procs, NEW c \in Procs, Fork(p, c)
        PROVE  PMStep
    BY <1>5, ForkStep
  <1>6. ASSUME NEW p \in Procs, Exit(p) \/ ExecFails(p)
        PROVE  PMStep
    BY <1>2, <1>6, VanishStep DEF Exit, ExecFails
  <1>7. ASSUME NEW p \in Procs, Exec(p)
        PROVE  PMStep
    BY <1>7, ExecStep
  <1>8. ASSUME NEW p \in Procs, Switch(p)
        PROVE  PMStep
    BY <1>1, <1>8 DEF Switch
  <1> QED BY <1>2, <1>3, <1>4, <1>5, <1>6, <1>7, <1>8 DEF Next

(***************************************************************************)
(* Text, stack and heap of every process are its own: shared frames, the   *)
(* faults, the flushes fork makes and the ones it leaves out implement     *)
(* PrivateMemory, for any processes, frames and pages.                     *)
(***************************************************************************)
THEOREM PagesArePrivate == Spec => StackPrivate
  <1>1. Init => PM!Init
    <2> SUFFICES ASSUME Init PROVE PM!Init
      OBVIOUS
    <2>1. IInv
      BY InitInv
    <2>2. \A q \in Procs : \A u \in Own :
            ViewOf(kind, frame, content, q, u) \in Values \cup {Fresh, Unmapped}
      BY <2>1, ViewFacts DEF Own
    <2>3. Mem \in [Procs -> [Own -> Values \cup {Fresh, Unmapped}]]
      BY <2>2 DEF Mem, MemOf
    <2> QED BY <2>3, PMRows
  <1>2. IInv /\ [Next]_vars =>
          [PM!Next]_([p \in Procs |-> [v \in Pages \ DataPages |-> View(p, v)]])
    BY StepRefines, MemIs DEF PMStep
  <1> QED BY <1>1, <1>2, MemoryInvariant, PTL DEF Spec, StackPrivate, PM!Spec
=============================================================================
