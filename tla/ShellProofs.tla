---------------------------- MODULE ShellProofs ----------------------------
(***************************************************************************)
(* Proofs about Shell for every number of PCBs, jobs and job numbers: the  *)
(* variables keep their types, and the job table of every shell that       *)
(* execve started is exactly the set of its children.                      *)
(***************************************************************************)
EXTENDS Shell, FiniteSetTheorems, TLAPS

-----------------------------------------------------------------------------
(***************************************************************************)
(* The inductive invariant.  Besides the claim itself it says that only a  *)
(* live shell is anybody's parent (exit gave the children of every other   *)
(* process to init), so a shell born in a reused PCB has no children; that *)
(* the pid whose entry is being deleted was reaped or never a child; and   *)
(* that whoever is not a shell waits for nothing.                          *)
(***************************************************************************)
Kinds == {"osh", "copy", "program", "zombie", "free"}
Jobs == [pid : {0} \union Pids, jid : Nat, state : {"UNDEF", "FG", "BG"}]
Memories == [jobs : [Slots -> Jobs], next_jid : Nat]
Calls == [at : {"prompt", "listed", "unlisted", "delete"},
          pid : {0} \union Pids]

ShellTypeOK ==
  /\ kind \in [Pids -> Kinds]
  /\ parent \in [Pids -> Pids \union {InitPid, Adopted}]
  /\ mem \in [Pids -> Memories]
  /\ call \in [Pids -> Calls]
  /\ halted \in BOOLEAN

ParentsAreShells == \A p \in Pids : parent[p] \in Pids => IsShell(parent[p])

DeletedIsGone ==
  \A s \in Pids : call[s].at = "delete" => ~ IsChild(s, call[s].pid)

OthersIdle == \A p \in Pids : ~ IsShell(p) => call[p] = Prompt

(***************************************************************************)
(* The claim for one shell, as a relation between its table m, where it    *)
(* stands c and the set K of its children.  For all the shells that execve *)
(* started it is JobsAreChildren, and the job a full table left out has no *)
(* entry under its pid.                                                    *)
(***************************************************************************)
Children(s) == {p \in Pids : IsChild(s, p)}

Exact(m, c, K) ==
  /\ \A i, j \in Slots :
       m.jobs[i].pid # 0 /\ m.jobs[i].pid = m.jobs[j].pid => i = j
  /\ \A i \in Slots : m.jobs[i].pid # 0 =>
       \/ c.at = "delete" /\ m.jobs[i].pid = c.pid
       \/ m.jobs[i].pid \in K
  /\ \A i \in Slots : m.jobs[i].pid # 0 =>
       (m.jobs[i].state = "FG" <=> /\ c.at \in {"listed", "delete"}
                                   /\ c.pid = m.jobs[i].pid)
  /\ \A p \in K : \/ \E i \in Slots : m.jobs[i].pid = p
                  \/ c = [at |-> "unlisted", pid |-> p]
  /\ c.at = "unlisted" => \A i \in Slots : m.jobs[i].pid # c.pid

TablesExact ==
  \A s \in Pids : kind[s] = "osh" => Exact(mem[s], call[s], Children(s))

IInv ==
  ShellTypeOK /\ ParentsAreShells /\ DeletedIsGone /\ OthersIdle
    /\ TablesExact

LEMMA TablesExactMeans == TablesExact => JobsAreChildren
  <1>1. ASSUME NEW s \in Pids, NEW x
        PROVE  /\ x \in (IF call[s].at = "delete" THEN {call[s].pid} ELSE {})
                    <=> call[s].at = "delete" /\ x = call[s].pid
               /\ x \in Children(s) <=> IsChild(s, x)
               /\ x \in Listed(s) <=> x \in Slots /\ mem[s].jobs[x].pid # 0
               /\ IsChild(s, x) => x # 0
    BY DEF Children, IsChild, Pids, Listed
  <1> QED BY <1>1 DEF JobsAreChildren, TablesExact, Exact, Children

-----------------------------------------------------------------------------
(***************************************************************************)
(* A finite set of integers that is not empty has a greatest element: the  *)
(* smallest subset without one would have one.                             *)
(***************************************************************************)
LEMMA FiniteHasMax ==
  ASSUME NEW S, IsFiniteSet(S), S \subseteq Int, S # {}
  PROVE  Max(S) \in S
  <1> DEFINE HasMax(U) == \E m \in U : \A y \in U : m >= y
             Bad == {U \in SUBSET S : U # {} /\ ~ HasMax(U)}
  <1>1. SUFFICES ASSUME Bad # {} PROVE FALSE
    <2>1. HasMax(S)
      BY <1>1
    <2> QED BY <2>1 DEF Max
  <1>2. IsWellFoundedOn(StrictSubsetOrdering(S), SUBSET S)
    BY FS_StrictSubsetOrderingWellFounded, FS_FiniteSubsetsOfFinite
  <1>3. PICK U \in Bad : \A V \in Bad : <<V, U>> \notin StrictSubsetOrdering(S)
    <2>1. Bad \subseteq SUBSET S
      OBVIOUS
    <2> HIDE DEF Bad
    <2> QED BY <1>1, <1>2, <2>1, WFMin
  <1>4. PICK x \in U : TRUE
    BY <1>3
  <1> DEFINE V == U \ {x}
  <1>5. CASE V = {}
    <2>1. U = {x} /\ x \in Int
      BY <1>3, <1>4, <1>5
    <2>2. HasMax(U)
      BY <2>1
    <2> QED BY <1>3, <2>2
  <1>6. CASE V # {}
    <2>1. <<V, U>> \in StrictSubsetOrdering(S)
      BY <1>3, <1>4 DEF StrictSubsetOrdering
    <2>2. V \in SUBSET S /\ V \notin Bad
      BY <1>3, <2>1
    <2>3. PICK m \in V : \A y \in V : m >= y
      BY <1>6, <2>2
    <2>4. m \in Int /\ x \in Int /\ m \in U
      BY <1>3, <1>4, <2>3
    <2>5. CASE m >= x
      BY <1>3, <2>3, <2>4, <2>5
    <2>6. CASE ~ (m >= x)
      <3>1. \A y \in U : x >= y
        BY <1>3, <2>3, <2>4, <2>6
      <3> QED BY <1>3, <3>1, <1>4
    <2> QED BY <2>5, <2>6
  <1> QED BY <1>5, <1>6

LEMMA MaxJidType ==
  ASSUME NEW jobs \in [Slots -> Jobs]
  PROVE  max_jid(jobs) \in Nat
  <1> DEFINE f == [i \in Slots |-> jobs[i].jid]
             S == {jobs[i].jid : i \in Slots}
  <1>1. S \subseteq Nat /\ S \subseteq Int /\ S # {}
    BY MaxJobsAssumption DEF Jobs, Slots
  <1>2. IsFiniteSet(Slots)
    BY FS_Interval, MaxJobsAssumption DEF Slots
  <1>3. f \in Surjection(Slots, S)
    BY DEF Surjection
  <1>4. IsFiniteSet(S)
    BY <1>2, <1>3, FS_Surjection
  <1> HIDE DEF S
  <1>5. Max(S) \in S
    BY <1>1, <1>4, FiniteHasMax
  <1> QED BY <1>1, <1>5 DEF max_jid, S

(***************************************************************************)
(* First finds at most one slot, and the slot when only one matches.       *)
(***************************************************************************)
LEMMA FirstFacts ==
  ASSUME NEW S, S \subseteq Int
  PROVE  /\ First(S) \subseteq S
         /\ \A i, j \in First(S) : i = j
         /\ \A i \in S : (\A j \in S : j = i) => First(S) = {i}
  <1>1. First(S) \subseteq S
    BY DEF First
  <1>2. \A i, j \in First(S) : i = j
    BY DEF First
  <1>3. ASSUME NEW i \in S, \A j \in S : j = i
        PROVE  First(S) = {i}
    <2>1. i \in Int /\ i <= i
      OBVIOUS
    <2>2. i \in First(S)
      BY <1>3, <2>1 DEF First
    <2> QED BY <1>2, <2>2
  <1> QED BY <1>1, <1>2, <1>3

-----------------------------------------------------------------------------
(***************************************************************************)
(* What the operations on the table return, slot by slot.                  *)
(***************************************************************************)
LEMMA InitJobsFacts ==
  /\ init_jobs \in Memories
  /\ \A i \in Slots : init_jobs.jobs[i].pid = 0
  BY DEF init_jobs, clear_job, Memories, Jobs

LEMMA AddJobFacts ==
  ASSUME NEW m \in Memories, NEW pid \in Pids, NEW state \in {"FG", "BG"}
  PROVE  /\ add_job(m, pid, state) \in Memories
         /\ HasRoom(m) =>
              \E k \in Slots :
                /\ m.jobs[k].pid = 0
                /\ \A i \in Slots : add_job(m, pid, state).jobs[i] =
                     IF i = k THEN [pid |-> pid, jid |-> m.next_jid,
                                    state |-> state]
                     ELSE m.jobs[i]
  <1> DEFINE Z == {i \in Slots : m.jobs[i].pid = 0}
  <1>1. add_job(m, pid, state) \in Memories
    BY MaxJobsAssumption DEF add_job, Memories, Jobs
  <1>2. ASSUME HasRoom(m)
        PROVE  \E k \in Slots : First(Z) = {k} /\ m.jobs[k].pid = 0
    <2>1. Z \subseteq Int
      BY DEF Slots
    <2>2. First(Z) # {}
      BY <1>2 DEF HasRoom, get_job_pid
    <2>3. PICK k \in First(Z) : TRUE
      BY <2>2
    <2>4. First(Z) \subseteq Z /\ \A i, j \in First(Z) : i = j
      BY <2>1, FirstFacts
    <2>5. First(Z) = {k}
      BY <2>3, <2>4
    <2> QED BY <2>3, <2>4, <2>5
  <1>3. \A i \in Slots : add_job(m, pid, state).jobs[i] =
          IF i \in First(Z) THEN [pid |-> pid, jid |-> m.next_jid,
                                  state |-> state]
          ELSE m.jobs[i]
    BY DEF add_job, get_job_pid
  <1> HIDE DEF Z
  <1> QED BY <1>1, <1>2, <1>3

LEMMA SetStateFacts ==
  ASSUME NEW m \in Memories, NEW found, NEW state \in {"FG", "BG"}
  PROVE  /\ SetState(m, found, state) \in Memories
         /\ \A i \in Slots :
              LET job == SetState(m, found, state).jobs[i]
              IN  /\ job.pid = m.jobs[i].pid
                  /\ job.state = IF i \in found /\ m.jobs[i].pid # 0
                                 THEN state ELSE m.jobs[i].state
  BY DEF SetState, Memories, Jobs

(***************************************************************************)
(* delete_job empties one slot that holds the pid, when there is one, and  *)
(* leaves the others.                                                      *)
(***************************************************************************)
LEMMA DeleteJobFacts ==
  ASSUME NEW m \in Memories, NEW pid \in {0} \union Pids
  PROVE  /\ delete_job(m, pid) \in Memories
         /\ \A i \in Slots :
              \/ delete_job(m, pid).jobs[i] = m.jobs[i]
              \/ delete_job(m, pid).jobs[i] = clear_job /\ m.jobs[i].pid = pid
         /\ \A i \in Slots :
              (\A j \in Slots : m.jobs[j].pid = pid <=> j = i)
                => delete_job(m, pid).jobs[i].pid = 0
  <1> DEFINE Z == {i \in Slots : m.jobs[i].pid = pid}
             jobs == [i \in Slots |-> IF i \in First(Z) THEN clear_job
                                      ELSE m.jobs[i]]
  <1>1. First(Z) \subseteq Z /\ Z \subseteq Int
    BY FirstFacts DEF Slots
  <1>2. jobs \in [Slots -> Jobs]
    BY DEF clear_job, Jobs, Memories
  <1>3. max_jid(jobs) \in Nat
    BY <1>2, MaxJidType
  <1>4. delete_job(m, pid) = IF First(Z) = {} THEN m
                             ELSE [jobs |-> jobs,
                                   next_jid |-> max_jid(jobs) + 1]
    BY DEF delete_job, get_job_pid
  <1>5. ASSUME NEW i \in Slots, \A j \in Slots : m.jobs[j].pid = pid <=> j = i
        PROVE  First(Z) = {i}
    BY <1>1, <1>5, FirstFacts
  <1>6. delete_job(m, pid) \in Memories
    <2> HIDE DEF jobs, Z
    <2> QED BY <1>2, <1>3, <1>4 DEF Memories
  <1>7. \A i \in Slots :
          delete_job(m, pid).jobs[i]
            = IF i \in First(Z) THEN clear_job ELSE m.jobs[i]
    <2>1. CASE First(Z) = {}
      BY <1>4, <2>1
    <2>2. CASE First(Z) # {}
      <3>1. delete_job(m, pid) = [jobs |-> jobs,
                                  next_jid |-> max_jid(jobs) + 1]
        BY <1>4, <2>2
      <3>2. \A i \in Slots : delete_job(m, pid).jobs[i] = jobs[i]
        <4> HIDE DEF jobs
        <4> QED BY <3>1
      <3> QED BY <3>2
    <2> QED BY <2>1, <2>2
  <1>8. \A i \in First(Z) : m.jobs[i].pid = pid
    BY <1>1
  <1> HIDE DEF Z
  <1> QED BY <1>5, <1>6, <1>7, <1>8 DEF clear_job

-----------------------------------------------------------------------------
(***************************************************************************)
(* How each command and each return of waitpid keeps the table exact.      *)
(***************************************************************************)
LEMMA EmptyExact == Exact(init_jobs, Prompt, {})
  BY InitJobsFacts DEF Exact, Prompt

(* do_fg: at the prompt nothing is in the foreground. *)
LEMMA FgExact ==
  ASSUME NEW m \in Memories, NEW K, Exact(m, Prompt, K), NEW job \in Slots
  PROVE  Exact(SetState(m, {job}, "FG"),
               [at |-> "listed", pid |-> m.jobs[job].pid], K)
  <1> DEFINE n == SetState(m, {job}, "FG")
  <1>1. \A i \in Slots :
          /\ n.jobs[i].pid = m.jobs[i].pid
          /\ n.jobs[i].state = IF i = job /\ m.jobs[i].pid # 0 THEN "FG"
                               ELSE m.jobs[i].state
    BY SetStateFacts
  <1>2. Exact(n, [at |-> "listed", pid |-> m.jobs[job].pid], K)
    <2> HIDE DEF n
    <2> QED BY <1>1 DEF Exact, Prompt
  <1> QED BY <1>2

(* do_bg. *)
LEMMA BgExact ==
  ASSUME NEW m \in Memories, NEW K, Exact(m, Prompt, K), NEW job \in Slots
  PROVE  Exact(SetState(m, {job}, "BG"), Prompt, K)
  <1> DEFINE n == SetState(m, {job}, "BG")
  <1>1. \A i \in Slots :
          /\ n.jobs[i].pid = m.jobs[i].pid
          /\ n.jobs[i].state = IF i = job /\ m.jobs[i].pid # 0 THEN "BG"
                               ELSE m.jobs[i].state
    BY SetStateFacts
  <1>2. Exact(n, Prompt, K)
    <2> HIDE DEF n
    <2> QED BY <1>1 DEF Exact, Prompt
  <1> QED BY <1>2

(* A new entry for a new child, in the foreground or the background. *)
LEMMA EntryExact ==
  ASSUME NEW m, NEW K, Exact(m, Prompt, K), 0 \notin K,
         NEW child, child # 0, child \notin K,
         NEW n, NEW c,
         NEW k \in Slots, m.jobs[k].pid = 0,
         n.jobs[k].pid = child,
         \/ n.jobs[k].state = "FG" /\ c = [at |-> "listed", pid |-> child]
         \/ n.jobs[k].state = "BG" /\ c = Prompt,
         \A i \in Slots \ {k} : /\ n.jobs[i].pid = m.jobs[i].pid
                                /\ n.jobs[i].state = m.jobs[i].state
  PROVE  Exact(n, c, K \cup {child})
  <1>1. \A i \in Slots : m.jobs[i].pid # 0 =>
          m.jobs[i].pid \in K /\ m.jobs[i].state # "FG"
    BY DEF Exact, Prompt
  <1>2. \A i, j \in Slots :
          n.jobs[i].pid # 0 /\ n.jobs[i].pid = n.jobs[j].pid => i = j
    BY <1>1 DEF Exact
  <1>3. \A p \in K \cup {child} : \E i \in Slots : n.jobs[i].pid = p
    <2>1. \A p \in K : \E i \in Slots : m.jobs[i].pid = p
      BY DEF Exact, Prompt
    <2>2. \A p \in K : \E i \in Slots \ {k} : m.jobs[i].pid = p
      BY <2>1
    <2> QED BY <2>2
  <1>4. /\ c.at # "delete" /\ c.at # "unlisted"
        /\ n.jobs[k].state = "FG" => c.at = "listed" /\ c.pid = child
        /\ n.jobs[k].state # "FG" => c.at # "listed"
    BY DEF Prompt
  <1>5. \A i \in Slots : n.jobs[i].pid # 0 =>
          /\ n.jobs[i].pid \in K \cup {child}
          /\ n.jobs[i].state = "FG" <=>
               n.jobs[k].state = "FG" /\ n.jobs[i].pid = child
    BY <1>1
  <1> QED BY <1>2, <1>3, <1>4, <1>5 DEF Exact

(* run_program in the background: the child's pid is in no other entry. *)
LEMMA BackgroundExact ==
  ASSUME NEW m \in Memories, NEW K, Exact(m, Prompt, K), 0 \notin K,
         HasRoom(m), NEW child \in Pids, child \notin K
  PROVE  Exact(add_job(m, child, "BG"), Prompt, K \cup {child})
  <1> DEFINE n == add_job(m, child, "BG")
  <1>1. PICK k \in Slots :
          /\ m.jobs[k].pid = 0
          /\ \A i \in Slots : n.jobs[i] =
               IF i = k THEN [pid |-> child, jid |-> m.next_jid,
                              state |-> "BG"]
               ELSE m.jobs[i]
    BY AddJobFacts
  <1>2. child # 0
    BY DEF Pids
  <1>3. Exact(n, Prompt, K \cup {child})
    <2> HIDE DEF n
    <2>1. /\ n.jobs[k].pid = child /\ n.jobs[k].state = "BG"
          /\ \A i \in Slots \ {k} : /\ n.jobs[i].pid = m.jobs[i].pid
                                    /\ n.jobs[i].state = m.jobs[i].state
      BY <1>1
    <2> QED BY <1>1, <1>2, <2>1, EntryExact
  <1> QED BY <1>3

(* run_program in the foreground. *)
LEMMA ForegroundExact ==
  ASSUME NEW m \in Memories, NEW K, Exact(m, Prompt, K), 0 \notin K,
         HasRoom(m), NEW child \in Pids, child \notin K
  PROVE  LET n == add_job(m, child, "FG")
         IN  Exact(SetState(n, get_job_pid(n.jobs, child), "FG"),
                   [at |-> "listed", pid |-> child], K \cup {child})
  <1> DEFINE n == add_job(m, child, "FG")
             o == SetState(n, get_job_pid(n.jobs, child), "FG")
  <1>1. PICK k \in Slots :
          /\ m.jobs[k].pid = 0
          /\ \A i \in Slots : n.jobs[i] =
               IF i = k THEN [pid |-> child, jid |-> m.next_jid,
                              state |-> "FG"]
               ELSE m.jobs[i]
    BY AddJobFacts
  <1>2. n \in Memories /\ child # 0
    <2>1. child # 0
      BY DEF Pids
    <2> QED BY <2>1, AddJobFacts
  <1>3. \A i \in Slots : n.jobs[i].pid = child <=> i = k
    BY <1>1, <1>2 DEF Exact, Prompt
  <1> HIDE DEF n
  <1>4. get_job_pid(n.jobs, child) = {k}
    <2>1. {i \in Slots : n.jobs[i].pid = child} = {k} /\ {k} \subseteq Int
      BY <1>3 DEF Slots
    <2> QED BY <2>1, FirstFacts DEF get_job_pid
  <1>5. \A i \in Slots :
          /\ o.jobs[i].pid = n.jobs[i].pid
          /\ o.jobs[i].state = IF i = k THEN "FG" ELSE n.jobs[i].state
    BY <1>2, <1>3, <1>4, SetStateFacts
  <1>6. Exact(o, [at |-> "listed", pid |-> child], K \cup {child})
    <2> HIDE DEF o
    <2>1. /\ o.jobs[k].pid = child /\ o.jobs[k].state = "FG"
          /\ \A i \in Slots \ {k} : /\ o.jobs[i].pid = m.jobs[i].pid
                                    /\ o.jobs[i].state = m.jobs[i].state
      BY <1>1, <1>5
    <2> QED BY <1>1, <1>2, <2>1, EntryExact
  <1> QED BY <1>6 DEF n

(* run_program with a full table. *)
LEMMA FullTableExact ==
  ASSUME NEW m, NEW K, Exact(m, Prompt, K), NEW child \in Pids,
         child \notin K
  PROVE  Exact(m, [at |-> "unlisted", pid |-> child], K \cup {child})
  <1>1. child # 0
    BY DEF Pids
  <1> QED BY <1>1 DEF Exact, Prompt

(* waitpid returns: the child was reaped, or was none. *)
LEMMA WaitExact ==
  ASSUME NEW m, NEW c \in Calls, NEW K, Exact(m, c, K)
  PROVE  /\ c.at = "listed" =>
              Exact(m, [c EXCEPT !.at = "delete"], K \ {c.pid})
         /\ c.at = "unlisted" => Exact(m, Prompt, K \ {c.pid})
  <1>1. ASSUME c.at = "listed"
        PROVE  Exact(m, [c EXCEPT !.at = "delete"], K \ {c.pid})
    <2> DEFINE d == [c EXCEPT !.at = "delete"]
    <2>1. d.at = "delete" /\ d.pid = c.pid
      BY DEF Calls
    <2> HIDE DEF d
    <2> QED BY <1>1, <2>1 DEF Exact
  <1>2. ASSUME c.at = "unlisted" PROVE Exact(m, Prompt, K \ {c.pid})
    <2>1. \A p \in K \ {c.pid} : c # [at |-> "unlisted", pid |-> p]
      OBVIOUS
    <2>2. \A p \in K \ {c.pid} : \E i \in Slots : m.jobs[i].pid = p
      BY <2>1 DEF Exact
    <2>3. Prompt.at = "prompt"
      BY DEF Prompt
    <2>4. \A i \in Slots : m.jobs[i].pid # 0 =>
            m.jobs[i].pid \in K \ {c.pid} /\ m.jobs[i].state # "FG"
      BY <1>2 DEF Exact
    <2> QED BY <2>2, <2>3, <2>4 DEF Exact
  <1> QED BY <1>1, <1>2

(* delete_job after the wait. *)
LEMMA DeleteExact ==
  ASSUME NEW m \in Memories, NEW c \in Calls, NEW K, 0 \notin K,
         Exact(m, c, K), c.at = "delete", c.pid \notin K
  PROVE  Exact(delete_job(m, c.pid), Prompt, K)
  <1> DEFINE n == delete_job(m, c.pid)
  <1>0. c.pid \in {0} \union Pids
    BY DEF Calls
  <1>1. /\ \A i \in Slots : \/ n.jobs[i] = m.jobs[i]
                            \/ n.jobs[i].pid = 0 /\ m.jobs[i].pid = c.pid
        /\ \A i \in Slots : (\A j \in Slots : m.jobs[j].pid = c.pid <=> j = i)
                              => n.jobs[i].pid = 0
    <2>1. clear_job.pid = 0
      BY DEF clear_job
    <2> QED BY <1>0, <2>1, DeleteJobFacts, ZenonT(30)
  <1>2. \A i \in Slots : n.jobs[i].pid # 0 =>
          n.jobs[i] = m.jobs[i] /\ m.jobs[i].pid # c.pid
    <2> HIDE DEF n
    <2> QED BY <1>1 DEF Exact
  <1>3. \A p \in K : \E i \in Slots : m.jobs[i].pid = p
    BY DEF Exact
  <1>4. Exact(n, Prompt, K)
    <2> HIDE DEF n
    <2>1. \A p \in K : \E i \in Slots : n.jobs[i].pid = p
      BY <1>1, <1>3
    <2> QED BY <1>2, <2>1 DEF Exact, Prompt
  <1> QED BY <1>4

-----------------------------------------------------------------------------
(***************************************************************************)
(* The steps.  PidFacts is what they need of the numbers.                  *)
(***************************************************************************)
LEMMA PidFacts ==
  /\ 0 \notin Pids /\ InitPid \notin Pids /\ Adopted \notin Pids
  /\ \A s : 0 \notin Children(s)
  BY DEF Pids, InitPid, Adopted, Children

LEMMA InitInv == Init => IInv
  <1> SUFFICES ASSUME Init PROVE IInv
    OBVIOUS
  <1>1. ShellTypeOK
    BY InitJobsFacts, MaxProgramAssumption
    DEF Init, ShellTypeOK, Kinds, Calls, Prompt, FirstShell, Pids
  <1>2. ParentsAreShells
    BY PidFacts DEF Init, ParentsAreShells
  <1>3. DeletedIsGone
    BY DEF Init, DeletedIsGone, Prompt
  <1>4. OthersIdle
    BY DEF Init, OthersIdle
  <1>5. ASSUME NEW s \in Pids PROVE Exact(mem[s], call[s], Children(s))
    <2>1. Children(s) = {}
      BY PidFacts DEF Init, Children, IsChild
    <2> QED BY <2>1, EmptyExact DEF Init
  <1> QED BY <1>1, <1>2, <1>3, <1>4, <1>5 DEF IInv, TablesExact

LEMMA FgInv ==
  ASSUME IInv, NEW s \in Pids, NEW job \in Slots, do_fg(s, job)
  PROVE  IInv'
  <1> USE DEF IInv, do_fg
  <1>0. /\ mem[s] \in Memories /\ mem[s].jobs[job].pid \in {0} \union Pids
        /\ call[s] = Prompt /\ IsShell(s)
    BY DEF ShellTypeOK, Memories, Jobs, AtPrompt
  <1>1. SetState(mem[s], {job}, "FG") \in Memories
    BY <1>0, SetStateFacts
  <1>2. ShellTypeOK'
    BY <1>0, <1>1 DEF ShellTypeOK, Calls
  <1>3. ParentsAreShells'
    BY DEF ParentsAreShells, IsShell
  <1>4. DeletedIsGone'
    BY DEF DeletedIsGone, IsChild, ShellTypeOK
  <1>5. OthersIdle'
    BY <1>0 DEF OthersIdle, IsShell, ShellTypeOK
  <1>6. ASSUME NEW q \in Pids, kind'[q] = "osh"
        PROVE  Exact(mem'[q], call'[q], Children(q)')
    <2>1. Children(q)' = Children(q) /\ Exact(mem[q], call[q], Children(q))
      BY <1>6 DEF Children, IsChild, TablesExact
    <2>2. CASE q # s
      BY <2>1, <2>2 DEF ShellTypeOK
    <2>3. CASE q = s
      <3>1. /\ mem'[s] = SetState(mem[s], {job}, "FG")
            /\ call'[s] = [at |-> "listed", pid |-> mem[s].jobs[job].pid]
        BY DEF ShellTypeOK
      <3> QED BY <1>0, <2>1, <2>3, <3>1, FgExact
    <2> QED BY <2>2, <2>3
  <1> QED BY <1>2, <1>3, <1>4, <1>5, <1>6 DEF TablesExact

LEMMA BgInv ==
  ASSUME IInv, NEW s \in Pids, NEW job \in Slots, do_bg(s, job)
  PROVE  IInv'
  <1> USE DEF IInv, do_bg
  <1>0. mem[s] \in Memories /\ call[s] = Prompt
    BY DEF ShellTypeOK, AtPrompt
  <1>1. SetState(mem[s], {job}, "BG") \in Memories
    BY <1>0, SetStateFacts
  <1>2. ShellTypeOK'
    BY <1>1 DEF ShellTypeOK
  <1>3. ParentsAreShells' /\ DeletedIsGone' /\ OthersIdle'
    BY DEF ParentsAreShells, DeletedIsGone, OthersIdle, IsShell, IsChild
  <1>4. ASSUME NEW q \in Pids, kind'[q] = "osh"
        PROVE  Exact(mem'[q], call'[q], Children(q)')
    <2>1. Children(q)' = Children(q) /\ Exact(mem[q], call[q], Children(q))
      BY <1>4 DEF Children, IsChild, TablesExact
    <2>2. CASE q # s
      BY <2>1, <2>2 DEF ShellTypeOK
    <2>3. CASE q = s
      <3>1. mem'[s] = SetState(mem[s], {job}, "BG") /\ call'[s] = call[s]
        BY DEF ShellTypeOK
      <3> QED BY <1>0, <2>1, <2>3, <3>1, BgExact
    <2> QED BY <2>2, <2>3
  <1> QED BY <1>2, <1>3, <1>4 DEF TablesExact

(***************************************************************************)
(* The child is in a PCB that was free: nobody's child, and nobody's       *)
(* parent, for parents are live shells.                                    *)
(***************************************************************************)
LEMMA RunInv ==
  ASSUME IInv, NEW s \in Pids, NEW child \in Pids,
         NEW image \in {"osh", "copy", "program"}, NEW bg \in BOOLEAN,
         run_program(s, child, image, bg)
  PROVE  IInv'
  <1> DEFINE m == mem[s]
             state == IF bg THEN "BG" ELSE "FG"
             n == add_job(m, child, state)
             o == SetState(n, get_job_pid(n.jobs, child), "FG")
  <1>1. /\ ShellTypeOK /\ ParentsAreShells /\ DeletedIsGone /\ OthersIdle
        /\ TablesExact
    BY DEF IInv
  <1>2. /\ IsShell(s) /\ call[s] = Prompt
        /\ kind[child] = "free" /\ child # s
        /\ kind' = [kind EXCEPT ![child] = image]
        /\ parent' = [parent EXCEPT ![child] = s]
        /\ halted' = halted
    BY DEF run_program, AtPrompt, Fork, First, IsShell
  <1>3. /\ n \in Memories /\ m \in Memories
        /\ o \in Memories
        /\ ChildMemory(s, image) \in Memories
    <2>1. m \in Memories /\ state \in {"FG", "BG"}
      BY <1>1 DEF ShellTypeOK
    <2>2. n \in Memories
      BY <2>1, AddJobFacts
    <2>3. o \in Memories
      <3> HIDE DEF n
      <3> QED BY <2>2, SetStateFacts
    <2> QED BY <2>1, <2>2, <2>3, InitJobsFacts DEF ChildMemory
  <1>4. \/ /\ HasRoom(m) /\ bg
           /\ mem' = [mem EXCEPT ![s] = n, ![child] = ChildMemory(s, image)]
           /\ call' = call
        \/ /\ HasRoom(m) /\ ~ bg
           /\ mem' = [mem EXCEPT ![s] = o, ![child] = ChildMemory(s, image)]
           /\ call' = [call EXCEPT ![s] = [at |-> "listed", pid |-> child]]
        \/ /\ mem' = [mem EXCEPT ![child] = ChildMemory(s, image)]
           /\ call' = [call EXCEPT ![s] = [at |-> "unlisted", pid |-> child]]
    BY DEF run_program
  <1>5. /\ mem'[child] = ChildMemory(s, image)
        /\ \/ HasRoom(m) /\ bg /\ mem'[s] = n /\ call'[s] = Prompt
           \/ /\ HasRoom(m) /\ ~ bg /\ mem'[s] = o
              /\ call'[s] = [at |-> "listed", pid |-> child]
           \/ mem'[s] = m /\ call'[s] = [at |-> "unlisted", pid |-> child]
        /\ \A q \in Pids \ {s, child} : mem'[q] = mem[q]
        /\ \A q \in Pids \ {s} : call'[q] = call[q]
    <2> HIDE DEF n, o
    <2> QED BY <1>1, <1>2, <1>4 DEF ShellTypeOK
  <1>6. ShellTypeOK'
    <2>1. /\ kind' \in [Pids -> Kinds]
          /\ parent' \in [Pids -> Pids \union {InitPid, Adopted}]
          /\ halted' \in BOOLEAN
      BY <1>1, <1>2 DEF ShellTypeOK, Kinds
    <2>2. mem' \in [Pids -> Memories]
      <3> HIDE DEF n, o
      <3> QED BY <1>1, <1>3, <1>4 DEF ShellTypeOK
    <2>3. call' \in [Pids -> Calls]
      BY <1>1, <1>4 DEF ShellTypeOK, Calls
    <2> QED BY <2>1, <2>2, <2>3 DEF ShellTypeOK
  <1>7. ParentsAreShells'
    BY <1>1, <1>2 DEF ParentsAreShells, IsShell, ShellTypeOK
  <1>8. OthersIdle'
    BY <1>1, <1>2, <1>5 DEF OthersIdle, IsShell, ShellTypeOK
  <1>9. /\ child \notin Children(s)
        /\ Children(s)' = Children(s) \cup {child}
        /\ Children(child)' = {} /\ call[child] = Prompt
        /\ \A q \in Pids \ {s} : Children(q)' = Children(q)
    BY <1>1, <1>2 DEF Children, IsChild, ShellTypeOK, ParentsAreShells,
                      OthersIdle, IsShell
  <1>10. DeletedIsGone'
    <2> SUFFICES ASSUME NEW q \in Pids, call'[q].at = "delete"
                 PROVE  ~ IsChild(q, call[q].pid)'
      BY DEF DeletedIsGone
    <2>1. q # s /\ call'[q] = call[q]
      BY <1>5 DEF Prompt
    <2>2. ~ IsChild(q, call[q].pid)
      BY <1>1, <2>1 DEF DeletedIsGone
    <2>3. Children(q)' = Children(q)
      BY <1>9, <2>1
    <2> QED BY <2>1, <2>2, <2>3 DEF Children, IsChild
  <1>11. ASSUME NEW q \in Pids, kind'[q] = "osh"
         PROVE  Exact(mem'[q], call'[q], Children(q)')
    <2>1. CASE q = child
      <3>1. image = "osh" /\ call'[child] = Prompt
        BY <1>1, <1>2, <1>5, <1>9, <1>11, <2>1 DEF ShellTypeOK
      <3>2. mem'[child] = init_jobs
        BY <1>5, <3>1 DEF ChildMemory
      <3> QED BY <1>9, <2>1, <3>1, <3>2, EmptyExact
    <2>2. CASE q # child /\ q # s
      <3>1. Exact(mem[q], call[q], Children(q))
        BY <1>1, <1>2, <1>11, <2>2 DEF TablesExact, ShellTypeOK
      <3> QED BY <1>5, <1>9, <2>2, <3>1
    <2>3. CASE q = s
      <3> DEFINE K == Children(s)
      <3>1. Exact(m, Prompt, K)
        BY <1>1, <1>2, <1>11, <2>3 DEF TablesExact, ShellTypeOK
      <3>2. 0 \notin K /\ child \notin K /\ Children(s)' = K \cup {child}
        BY <1>9, PidFacts
      <3> HIDE DEF K
      <3>3. CASE HasRoom(m) /\ bg /\ mem'[s] = n /\ call'[s] = Prompt
        <4>1. Exact(n, Prompt, K \cup {child})
          BY <1>3, <3>1, <3>2, <3>3, BackgroundExact
        <4> QED BY <2>3, <3>2, <3>3, <4>1
      <3>4. CASE /\ HasRoom(m) /\ ~ bg /\ mem'[s] = o
                 /\ call'[s] = [at |-> "listed", pid |-> child]
        <4>1. Exact(o, [at |-> "listed", pid |-> child], K \cup {child})
          BY <1>3, <3>1, <3>2, <3>4, ForegroundExact
        <4> QED BY <2>3, <3>2, <3>4, <4>1
      <3>5. CASE mem'[s] = m /\ call'[s] = [at |-> "unlisted", pid |-> child]
        <4>1. Exact(m, [at |-> "unlisted", pid |-> child], K \cup {child})
          BY <3>1, <3>2, FullTableExact
        <4> QED BY <2>3, <3>2, <3>5, <4>1
      <3> QED BY <1>5, <3>3, <3>4, <3>5
    <2> QED BY <2>1, <2>2, <2>3
  <1> QED BY <1>6, <1>7, <1>8, <1>10, <1>11 DEF IInv, TablesExact

(***************************************************************************)
(* waitpid reaps a child of the caller or finds none: either way the pid   *)
(* is no child of the caller afterwards, and nobody else loses a child.    *)
(***************************************************************************)
LEMMA WaitInv ==
  ASSUME IInv, NEW s \in Pids, WaitReturns(s)
  PROVE  IInv'
  <1> DEFINE x == call[s].pid
  <1>1. /\ ShellTypeOK /\ ParentsAreShells /\ DeletedIsGone /\ OthersIdle
        /\ TablesExact
    BY DEF IInv
  <1>2. /\ IsShell(s) /\ call[s].at \in {"listed", "unlisted"}
        /\ mem' = mem /\ halted' = halted
        /\ call' = [call EXCEPT ![s] = IF @.at = "listed"
                                       THEN [@ EXCEPT !.at = "delete"]
                                       ELSE Prompt]
        /\ \/ ~ IsChild(s, x) /\ kind' = kind /\ parent' = parent
           \/ /\ x \in Pids /\ parent[x] = s /\ kind[x] = "zombie"
              /\ kind' = [kind EXCEPT ![x] = "free"]
              /\ parent' = [parent EXCEPT ![x] = InitPid]
    BY DEF WaitReturns, Waiting, waitpid, IsChild, Reap
  <1>3. /\ call[s] \in Calls /\ call'[s].at \in {"delete", "prompt"}
        /\ call'[s] = IF call[s].at = "listed"
                      THEN [call[s] EXCEPT !.at = "delete"] ELSE Prompt
        /\ call'[s].at = "delete" => call'[s].pid = x
        /\ \A q \in Pids \ {s} : call'[q] = call[q]
    BY <1>1, <1>2 DEF ShellTypeOK, Calls, Prompt
  <1>4. ShellTypeOK'
    <2>1. call' \in [Pids -> Calls]
      BY <1>1, <1>2, <1>3 DEF ShellTypeOK, Calls, Prompt
    <2> QED BY <1>1, <1>2, <2>1 DEF ShellTypeOK, Kinds
  <1>5. ParentsAreShells'
    BY <1>1, <1>2, PidFacts DEF ParentsAreShells, IsShell, ShellTypeOK
  <1>6. OthersIdle'
    BY <1>1, <1>2, <1>3 DEF OthersIdle, IsShell, ShellTypeOK
  <1>7. /\ Children(s)' = Children(s) \ {x}
        /\ \A q \in Pids \ {s} : Children(q)' = Children(q)
    <2>1. CASE ~ IsChild(s, x) /\ kind' = kind /\ parent' = parent
      BY <2>1 DEF Children, IsChild
    <2>2. CASE /\ x \in Pids /\ parent[x] = s /\ kind[x] = "zombie"
               /\ kind' = [kind EXCEPT ![x] = "free"]
               /\ parent' = [parent EXCEPT ![x] = InitPid]
      BY <1>1, <2>2 DEF Children, IsChild, ShellTypeOK
    <2> QED BY <1>2, <2>1, <2>2
  <1>8. DeletedIsGone'
    <2> SUFFICES ASSUME NEW q \in Pids, call'[q].at = "delete"
                 PROVE  ~ IsChild(q, call[q].pid)'
      BY DEF DeletedIsGone
    <2>1. call'[q].pid \notin Children(q)'
      <3>1. CASE q = s
        BY <1>3, <1>7, <3>1
      <3>2. CASE q # s
        BY <1>1, <1>3, <1>7, <3>2 DEF DeletedIsGone, Children
      <3> QED BY <3>1, <3>2
    <2> QED BY <2>1 DEF Children, IsChild
  <1>9. ASSUME NEW q \in Pids, kind'[q] = "osh"
        PROVE  Exact(mem'[q], call'[q], Children(q)')
    <2>1. Exact(mem[q], call[q], Children(q))
      BY <1>1, <1>2, <1>9 DEF TablesExact, ShellTypeOK
    <2>2. CASE q # s
      BY <1>2, <1>3, <1>7, <2>1, <2>2
    <2>3. CASE q = s
      BY <1>2, <1>3, <1>7, <2>1, <2>3, WaitExact
    <2> QED BY <2>2, <2>3
  <1> QED BY <1>4, <1>5, <1>6, <1>8, <1>9 DEF IInv, TablesExact

LEMMA DeleteInv ==
  ASSUME IInv, NEW s \in Pids, DeleteJob(s)
  PROVE  IInv'
  <1> USE DEF IInv, DeleteJob
  <1>1. /\ mem[s] \in Memories /\ call[s] \in Calls
        /\ call[s].pid \in {0} \union Pids
        /\ mem'[s] = delete_job(mem[s], call[s].pid) /\ call'[s] = Prompt
        /\ \A q \in Pids \ {s} : mem'[q] = mem[q] /\ call'[q] = call[q]
    BY DEF ShellTypeOK, Calls
  <1>2. delete_job(mem[s], call[s].pid) \in Memories
    BY <1>1, DeleteJobFacts
  <1>3. ShellTypeOK'
    BY <1>2 DEF ShellTypeOK, Calls, Prompt
  <1>4. ParentsAreShells'
    BY DEF ParentsAreShells, IsShell
  <1>5. OthersIdle'
    BY <1>1 DEF OthersIdle, IsShell
  <1>6. DeletedIsGone'
    BY <1>1 DEF DeletedIsGone, IsChild, Prompt
  <1>7. ASSUME NEW q \in Pids, kind'[q] = "osh"
        PROVE  Exact(mem'[q], call'[q], Children(q)')
    <2>1. Children(q)' = Children(q) /\ Exact(mem[q], call[q], Children(q))
      BY <1>7 DEF Children, IsChild, TablesExact
    <2>2. CASE q # s
      BY <1>1, <2>1, <2>2
    <2>3. CASE q = s
      <3>1. call[s].pid \notin Children(s) /\ 0 \notin Children(s)
        BY PidFacts DEF DeletedIsGone, Children
      <3> QED BY <1>1, <2>1, <2>3, <3>1, DeleteExact
    <2> QED BY <2>2, <2>3
  <1> QED BY <1>3, <1>4, <1>5, <1>6, <1>7 DEF TablesExact

(***************************************************************************)
(* exit takes the children of the process that ends, and of no other.      *)
(***************************************************************************)
LEMMA ExitInv ==
  ASSUME IInv, NEW p \in Pids, ProgramExit(p) \/ ShellExit(p)
  PROVE  IInv'
  <1> USE DEF IInv
  <1>1. /\ kind' = [kind EXCEPT ![p] = "zombie"]
        /\ parent' = [q \in Pids |-> IF parent[q] = p THEN Adopted
                                     ELSE parent[q]]
        /\ mem' = [mem EXCEPT ![p] = init_jobs]
        /\ call' = call /\ halted' = halted /\ call[p] = Prompt
    BY DEF ProgramExit, ShellExit, Exit, AtPrompt, OthersIdle, IsShell
  <1>2. ShellTypeOK'
    BY <1>1, InitJobsFacts DEF ShellTypeOK, Kinds
  <1>3. ParentsAreShells'
    BY <1>1, PidFacts DEF ParentsAreShells, IsShell, ShellTypeOK
  <1>4. OthersIdle'
    BY <1>1 DEF OthersIdle, IsShell, ShellTypeOK
  <1>5. \A q \in Pids \ {p} : Children(q)' = Children(q)
    <2> SUFFICES ASSUME NEW q \in Pids \ {p}, NEW r \in Pids
                 PROVE  IsChild(q, r)' <=> IsChild(q, r)
      BY DEF Children
    <2>1. kind'[r] # "free" <=> kind[r] # "free"
      <3>1. kind[p] # "free"
        BY DEF ProgramExit, ShellExit, AtPrompt, IsShell
      <3> QED BY <1>1, <3>1 DEF ShellTypeOK
    <2>2. parent'[r] = q <=> parent[r] = q
      BY <1>1, PidFacts
    <2> QED BY <2>1, <2>2 DEF IsChild
  <1>6. DeletedIsGone'
    <2> SUFFICES ASSUME NEW q \in Pids, call[q].at = "delete"
                 PROVE  ~ IsChild(q, call[q].pid)'
      BY <1>1 DEF DeletedIsGone
    <2>1. q # p
      BY <1>1 DEF Prompt
    <2>2. call[q].pid \notin Children(q)
      BY DEF DeletedIsGone, Children
    <2> QED BY <1>1, <1>5, <2>1, <2>2 DEF Children, IsChild
  <1>7. ASSUME NEW q \in Pids, kind'[q] = "osh"
        PROVE  Exact(mem'[q], call'[q], Children(q)')
    <2>1. q # p /\ kind[q] = "osh"
      BY <1>1, <1>7 DEF ShellTypeOK
    <2>2. mem'[q] = mem[q]
      BY <1>1, <2>1 DEF ShellTypeOK
    <2> QED BY <1>1, <1>5, <2>1, <2>2 DEF TablesExact
  <1> QED BY <1>2, <1>3, <1>4, <1>6, <1>7 DEF TablesExact

LEMMA InitReapsInv ==
  ASSUME IInv, NEW p \in Pids, InitReaps(p)
  PROVE  IInv'
  <1> USE DEF IInv
  <1>1. /\ mem' = mem /\ call' = call /\ halted' \in BOOLEAN
        /\ \/ kind' = kind /\ parent' = parent
           \/ /\ kind[p] = "zombie" /\ parent[p] = InitPid
              /\ kind' = [kind EXCEPT ![p] = "free"]
              /\ parent' = [parent EXCEPT ![p] = InitPid]
    BY DEF InitReaps, Reap, ShellTypeOK
  <1>2. ShellTypeOK'
    BY <1>1 DEF ShellTypeOK, Kinds
  <1>3. ParentsAreShells'
    BY <1>1, PidFacts DEF ParentsAreShells, IsShell, ShellTypeOK
  <1>4. OthersIdle'
    BY <1>1 DEF OthersIdle, IsShell, ShellTypeOK
  <1>5. \A q \in Pids : Children(q)' = Children(q)
    BY <1>1, PidFacts DEF Children, IsChild, ShellTypeOK
  <1>6. DeletedIsGone'
    <2> SUFFICES ASSUME NEW q \in Pids, call[q].at = "delete"
                 PROVE  ~ IsChild(q, call[q].pid)'
      BY <1>1 DEF DeletedIsGone
    <2>1. call[q].pid \notin Children(q)
      BY DEF DeletedIsGone, Children
    <2> QED BY <1>1, <1>5, <2>1 DEF Children, IsChild
  <1>7. ASSUME NEW q \in Pids, kind'[q] = "osh"
        PROVE  Exact(mem'[q], call'[q], Children(q)')
    <2>1. kind[q] = "osh"
      BY <1>1, <1>7 DEF ShellTypeOK
    <2> QED BY <1>1, <1>5, <2>1 DEF TablesExact
  <1> QED BY <1>2, <1>3, <1>4, <1>6, <1>7 DEF TablesExact

-----------------------------------------------------------------------------
LEMMA StepInv == IInv /\ [Next]_vars => IInv'
  <1> SUFFICES ASSUME IInv, [Next]_vars PROVE IInv'
    OBVIOUS
  <1>1. CASE UNCHANGED vars
    BY <1>1 DEF vars, IInv, ShellTypeOK, ParentsAreShells, DeletedIsGone,
       OthersIdle, TablesExact, IsShell, IsChild, Children
  <1>2. CASE Next
    BY <1>2, RunInv, FgInv, BgInv, WaitInv, DeleteInv, ExitInv, InitReapsInv,
       Zenon DEF Next
  <1> QED BY <1>1, <1>2

(***************************************************************************)
(* Every reachable state satisfies the inductive invariant.                *)
(***************************************************************************)
THEOREM ShellInvariant == Spec => []IInv
  BY InitInv, StepInv, PTL DEF Spec

(***************************************************************************)
(* The slots of the process table, the job tables and the waits keep their *)
(* types: a job's pid is 0 or a pid, job numbers never go below 0, and a   *)
(* shell waits only for what can be a pid.                                 *)
(***************************************************************************)
THEOREM ShellTypeCorrect == Spec => []ShellTypeOK
  BY ShellInvariant, PTL DEF IInv

(***************************************************************************)
(* The job table of every shell that execve started is exactly its         *)
(* children (JobsAreChildren), for any number of PCBs and of job slots.    *)
(***************************************************************************)
THEOREM JobTableExact == Spec => []JobsAreChildren
  <1>1. IInv => JobsAreChildren
    BY TablesExactMeans DEF IInv
  <1> QED BY <1>1, ShellInvariant, PTL
=============================================================================
