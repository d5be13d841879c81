--------------------------- MODULE ProgramProofs ---------------------------
(***************************************************************************)
(* Proofs about Program, for every number of PCB slots, either scheduler,  *)
(* and every set of failing allocations that leaves fork alone after the   *)
(* child has been enqueued.                                                *)
(***************************************************************************)
EXTENDS Program, TLAPS

-----------------------------------------------------------------------------
(* The three list operations the kernel uses, on lists without duplicates. *)

(***************************************************************************)
(* push_back of a new element.                                             *)
(***************************************************************************)
LEMMA AppendFacts ==
  ASSUME NEW S, NEW s \in Seq(S), NEW e \in S,
         NoDuplicates(s), e \notin Elements(s)
  PROVE  /\ Append(s, e) \in Seq(S)
         /\ NoDuplicates(Append(s, e))
         /\ Elements(Append(s, e)) = Elements(s) \cup {e}
<1> DEFINE t == Append(s, e)
<1>1. /\ t \in Seq(S) /\ Len(t) = Len(s) + 1 /\ t[Len(s) + 1] = e
      /\ \A i \in 1 .. Len(s) : t[i] = s[i]
      /\ Len(s) \in Nat /\ DOMAIN s = 1 .. Len(s) /\ DOMAIN t = 1 .. Len(s) + 1
  OBVIOUS
<1> HIDE DEF t
<1>2. NoDuplicates(t)
  BY <1>1 DEF NoDuplicates, Elements
<1>3. Elements(t) = Elements(s) \cup {e}
  BY <1>1 DEF Elements
<1> QED BY <1>1, <1>2, <1>3 DEF t

(***************************************************************************)
(* pop_front.                                                              *)
(***************************************************************************)
LEMMA TailFacts ==
  ASSUME NEW S, NEW s \in Seq(S), s # <<>>, NoDuplicates(s)
  PROVE  /\ Head(s) \in S /\ Head(s) \in Elements(s)
         /\ Tail(s) \in Seq(S)
         /\ NoDuplicates(Tail(s))
         /\ Elements(Tail(s)) = Elements(s) \ {Head(s)}
<1> DEFINE t == Tail(s)
<1>1. /\ Len(s) \in Nat \ {0} /\ DOMAIN s = 1 .. Len(s) /\ Head(s) = s[1]
      /\ s[1] \in S
  OBVIOUS
<1>2. /\ t \in Seq(S) /\ Len(t) = Len(s) - 1 /\ DOMAIN t = 1 .. Len(s) - 1
      /\ \A i \in 1 .. Len(s) - 1 : t[i] = s[i + 1]
  BY <1>1
<1> HIDE DEF t
<1>3. NoDuplicates(t)
  <2>1. SUFFICES ASSUME NEW i \in 1 .. Len(s) - 1, NEW j \in 1 .. Len(s) - 1,
                        t[i] = t[j]
                 PROVE  i = j
    BY <1>2 DEF NoDuplicates
  <2>2. s[i + 1] = s[j + 1] /\ i + 1 \in DOMAIN s /\ j + 1 \in DOMAIN s
    BY <1>1, <1>2, <2>1
  <2>3. i + 1 = j + 1
    BY <2>2 DEF NoDuplicates
  <2> QED BY <2>3
<1>4. Elements(t) = Elements(s) \ {s[1]}
  <2>1. ASSUME NEW x \in Elements(t) PROVE x \in Elements(s) \ {s[1]}
    BY <1>1, <1>2, SMTT(30) DEF Elements, NoDuplicates
  <2>2. ASSUME NEW x \in Elements(s) \ {s[1]} PROVE x \in Elements(t)
    <3>1. PICK i \in 2 .. Len(s) : x = s[i]
      BY <1>1 DEF Elements
    <3>2. i - 1 \in DOMAIN t /\ t[i - 1] = x
      BY <1>1, <1>2, <3>1
    <3> QED BY <3>2 DEF Elements
  <2> QED BY <2>1, <2>2
<1> QED BY <1>1, <1>2, <1>3, <1>4 DEF t, Elements

(***************************************************************************)
(* erase of an element of the list.                                        *)
(***************************************************************************)
LEMMA EraseFacts ==
  ASSUME NEW S, NEW s \in Seq(S), NEW p \in Elements(s), NoDuplicates(s)
  PROVE  /\ Erase(s, p) \in Seq(S)
         /\ NoDuplicates(Erase(s, p))
         /\ Elements(Erase(s, p)) = Elements(s) \ {p}
<1> DEFINE k == IndexIn(s, p)
           t == Erase(s, p)
<1>1. Len(s) \in Nat /\ DOMAIN s = 1 .. Len(s) /\ \A i \in 1 .. Len(s) : s[i] \in S
  OBVIOUS
<1>2. k \in 1 .. Len(s) /\ s[k] = p
  BY <1>1 DEF Elements, IndexIn
<1>3. /\ t = [i \in 1 .. Len(s) - 1 |-> IF i < k THEN s[i] ELSE s[i + 1]]
      /\ DOMAIN t = 1 .. Len(s) - 1
      /\ \A i \in 1 .. Len(s) - 1 : t[i] = IF i < k THEN s[i] ELSE s[i + 1]
  BY DEF Erase
<1> HIDE DEF k, t
<1>4. t \in Seq(S)
  <2>1. Len(s) - 1 \in Nat /\ \A i \in 1 .. Len(s) - 1 : t[i] \in S
    BY <1>1, <1>2, <1>3
  <2> QED BY <2>1, <1>3
<1>5. NoDuplicates(t)
  <2> DEFINE At0(i) == IF i < k THEN i ELSE i + 1
  <2>1. SUFFICES ASSUME NEW i \in 1 .. Len(s) - 1, NEW j \in 1 .. Len(s) - 1,
                        t[i] = t[j]
                 PROVE  i = j
    BY <1>3 DEF NoDuplicates
  <2>2. /\ At0(i) \in DOMAIN s /\ At0(j) \in DOMAIN s
        /\ t[i] = s[At0(i)] /\ t[j] = s[At0(j)]
    BY <1>1, <1>2, <1>3
  <2>3. At0(i) = At0(j)
    BY <2>1, <2>2 DEF NoDuplicates
  <2> QED BY <2>3, <1>1, <1>2
<1>6. Elements(t) = Elements(s) \ {p}
  <2>1. ASSUME NEW x \in Elements(t) PROVE x \in Elements(s) \ {p}
    BY <1>1, <1>2, <1>3 DEF Elements, NoDuplicates
  <2>2. ASSUME NEW x \in Elements(s) \ {p} PROVE x \in Elements(t)
    <3>1. PICK i \in 1 .. Len(s) : x = s[i]
      BY <1>1 DEF Elements
    <3>2. i # k
      BY <3>1, <1>2
    <3>3. CASE i < k
      <4>1. i \in DOMAIN t /\ t[i] = x
        BY <1>1, <1>2, <1>3, <3>1, <3>3
      <4> QED BY <4>1 DEF Elements
    <3>4. CASE i > k
      <4>1. i - 1 \in DOMAIN t /\ t[i - 1] = x
        BY <1>1, <1>2, <1>3, <3>1, <3>4
      <4> QED BY <4>1 DEF Elements
    <3> QED BY <3>1, <3>2, <3>3, <3>4, <1>2
  <2> QED BY <2>1, <2>2
<1> QED BY <1>4, <1>5, <1>6 DEF t

-----------------------------------------------------------------------------
(***************************************************************************)
(* What schedule() relies on, with the statuses st it is entered with.     *)
(***************************************************************************)
Schedulable(st) ==
  /\ st \in [Slots -> Statuses]
  /\ NoDuplicates(ready)
  /\ Elements(ready) = {p \in Slots : used[p] /\ st[p] = "READY"}
  /\ used[running]
  /\ st[running] \in {"RUNNING", "DEAD"}
  /\ \A p \in Slots : used[p] /\ st[p] = "RUNNING" => p = running

(***************************************************************************)
(* schedule() keeps the queue exact and the running process unique, also   *)
(* when the process that enters it has just died.                          *)
(***************************************************************************)
LEMMA ScheduleFacts ==
  ASSUME NEW st, TypeOK, Schedulable(st), Schedule(st, ready), used' = used
  PROVE  /\ status' \in [Slots -> Statuses] /\ ready' \in Seq(Slots)
         /\ running' \in Slots /\ panicked' \in BOOLEAN
         /\ ReadyQueueExact' /\ OneRunning'
<1> DEFINE q == ready
<1>1. q \in Seq(Slots) /\ running \in Slots /\ used \in [Slots -> BOOLEAN]
      /\ panicked \in BOOLEAN
  BY DEF TypeOK
<1>2. CASE q = <<>>
  <2>1. status' = st /\ ready' = ready /\ running' = running
        /\ panicked' = (st[running] = "DEAD")
    BY <1>2 DEF Schedule
  <2> QED BY <1>1, <2>1 DEF Schedulable, ReadyQueueExact, OneRunning
<1>3. CASE q # <<>>
  <2> DEFINE h == Head(q)
             t == Tail(q)
  <2>1. /\ h \in Slots /\ h \in Elements(q) /\ t \in Seq(Slots)
        /\ NoDuplicates(t) /\ Elements(t) = Elements(q) \ {h}
    BY <1>1, <1>3, TailFacts DEF Schedulable
  <2>2. used[h] /\ st[h] = "READY" /\ h # running
    BY <2>1 DEF Schedulable
  <2>3. running' = h /\ panicked' = panicked
    BY <1>3 DEF Schedule
  <2>4. CASE st[running] = "DEAD"
    <3>1. status' = [st EXCEPT ![h] = "RUNNING"] /\ ready' = t
      BY <1>3, <2>4 DEF Schedule
    <3> HIDE DEF q, h, t
    <3>2. status' \in [Slots -> Statuses] /\ OneRunning'
      BY <1>1, <2>1, <2>2, <2>3, <2>4, <3>1 DEF Schedulable, OneRunning, Statuses
    <3>3. ReadyQueueExact'
      BY <1>1, <2>1, <2>2, <2>3, <2>4, <3>1
      DEF Schedulable, ReadyQueueExact, q, Statuses
    <3> QED BY <1>1, <2>1, <2>3, <3>1, <3>2, <3>3
  <2>5. CASE st[running] # "DEAD"
    <3>1. /\ status' = [st EXCEPT ![h] = "RUNNING", ![running] = "READY"]
          /\ ready' = Append(t, running)
      BY <1>3, <2>5 DEF Schedule
    <3>2. st[running] = "RUNNING"
      BY <2>5 DEF Schedulable
    <3>3. running \notin Elements(t)
      BY <2>1, <3>2 DEF Schedulable
    <3> HIDE DEF q, h, t
    <3>4. /\ ready' \in Seq(Slots) /\ NoDuplicates(ready')
          /\ Elements(ready') = Elements(t) \cup {running}
      BY <1>1, <2>1, <3>1, <3>3, AppendFacts
    <3>5. status' \in [Slots -> Statuses] /\ OneRunning'
      BY <1>1, <2>1, <2>2, <2>3, <3>1, <3>2 DEF Schedulable, OneRunning, Statuses
    <3>6. ReadyQueueExact'
      BY <1>1, <2>1, <2>2, <2>3, <3>1, <3>2, <3>4
      DEF Schedulable, ReadyQueueExact, q, Statuses
    <3> QED BY <1>1, <2>1, <2>3, <3>4, <3>5, <3>6
  <2> QED BY <2>4, <2>5
<1> QED BY <1>2, <1>3

-----------------------------------------------------------------------------
(***************************************************************************)
(* The inductive invariant.  None of its conjuncts is inductive alone: the *)
(* queue is kept exact only because the running process is not in it, a    *)
(* slot taken by allocatePCB is new to both lists only because the lists   *)
(* hold no free slot, and waitpid erases a PCB that is listed and dead.    *)
(***************************************************************************)
Inv == TypeOK /\ ReadyQueueExact /\ OneRunning /\ AllListed

(***************************************************************************)
(* executeThread adds a free slot to allPrograms.                          *)
(***************************************************************************)
LEMMA ExecuteThreadFacts ==
  ASSUME Inv, NEW s \in FreeSlots, NEW slice \in 0 .. IdleTicks,
         ExecuteThread(s, slice)
  PROVE  /\ used' \in [Slots -> BOOLEAN] /\ parentPid' \in [Slots -> Slots]
         /\ argvOwner' \in [Slots -> Slots \cup {NoArgv}]
         /\ ticks' \in [Slots -> 0 .. IdleTicks]
         /\ allPrograms' \in Seq(Slots) /\ AllListed'
         /\ s \in Slots /\ ~ used[s] /\ s # running
         /\ s \notin Elements(ready)
<1>1. s \in Slots /\ ~ used[s]
  BY DEF FreeSlots
<1>2. s # running /\ s \notin Elements(ready) /\ s \notin Elements(allPrograms)
  BY <1>1 DEF Inv, OneRunning, ReadyQueueExact, AllListed
<1>3. /\ used' \in [Slots -> BOOLEAN] /\ parentPid' \in [Slots -> Slots]
      /\ argvOwner' \in [Slots -> Slots \cup {NoArgv}]
      /\ ticks' \in [Slots -> 0 .. IdleTicks]
  BY <1>1 DEF Inv, TypeOK, ExecuteThread
<1>4. /\ allPrograms' \in Seq(Slots) /\ NoDuplicates(allPrograms')
      /\ Elements(allPrograms') = Elements(allPrograms) \cup {s}
  BY <1>1, <1>2, AppendFacts DEF Inv, TypeOK, AllListed, ExecuteThread
<1>5. AllListed'
  BY <1>1, <1>4 DEF Inv, TypeOK, AllListed, ExecuteThread
<1> QED BY <1>1, <1>2, <1>3, <1>4, <1>5

(***************************************************************************)
(* A new process that is enqueued READY, or left DEAD outside the queue.   *)
(***************************************************************************)
LEMMA NewProcessFacts ==
  ASSUME Inv, NEW s \in FreeSlots, NEW slice \in 0 .. IdleTicks,
         ExecuteThread(s, slice), running' = running,
         \/ /\ status' = [status EXCEPT ![s] = "READY"]
            /\ ready' = Append(ready, s)
         \/ /\ status' = [status EXCEPT ![s] = "DEAD"]
            /\ ready' = ready
  PROVE  /\ status' \in [Slots -> Statuses] /\ ready' \in Seq(Slots)
         /\ ReadyQueueExact' /\ OneRunning'
<1>1. /\ s \in Slots /\ ~ used[s] /\ s # running /\ s \notin Elements(ready)
      /\ used' = [used EXCEPT ![s] = TRUE]
  BY ExecuteThreadFacts DEF ExecuteThread
<1>2. status' \in [Slots -> Statuses] /\ OneRunning'
  BY <1>1 DEF Inv, TypeOK, OneRunning, Statuses
<1>3. CASE /\ status' = [status EXCEPT ![s] = "READY"]
           /\ ready' = Append(ready, s)
  <2>1. /\ ready' \in Seq(Slots) /\ NoDuplicates(ready')
        /\ Elements(ready') = Elements(ready) \cup {s}
    BY <1>1, <1>3, AppendFacts DEF Inv, TypeOK, ReadyQueueExact
  <2>2. ReadyQueueExact'
    BY <1>1, <1>3, <2>1 DEF Inv, TypeOK, ReadyQueueExact, Statuses
  <2> QED BY <1>2, <2>1, <2>2
<1>4. CASE /\ status' = [status EXCEPT ![s] = "DEAD"]
           /\ ready' = ready
  <2>1. ReadyQueueExact'
    BY <1>1, <1>4 DEF Inv, TypeOK, ReadyQueueExact, Statuses
  <2> QED BY <1>2, <1>4, <2>1 DEF Inv, TypeOK
<1> QED BY <1>3, <1>4

(***************************************************************************)
(* An executeThread that fails touches a free slot only.                   *)
(***************************************************************************)
LEMMA ExecuteThreadFailsFacts ==
  ASSUME Inv, NEW s \in FreeSlots, ExecuteThreadFails(s), running' = running
  PROVE  /\ used' = used /\ ready' = ready /\ allPrograms' = allPrograms
         /\ status' \in [Slots -> Statuses] /\ parentPid' \in [Slots -> Slots]
         /\ argvOwner' \in [Slots -> Slots \cup {NoArgv}]
         /\ ticks' \in [Slots -> 0 .. IdleTicks]
         /\ ReadyQueueExact' /\ OneRunning' /\ AllListed'
<1>1. s \in Slots /\ ~ used[s]
  BY DEF FreeSlots
<1>2. s # running
  BY <1>1 DEF Inv, OneRunning
<1>3. /\ status' \in [Slots -> Statuses] /\ parentPid' \in [Slots -> Slots]
      /\ argvOwner' \in [Slots -> Slots \cup {NoArgv}]
      /\ ticks' \in [Slots -> 0 .. IdleTicks]
  BY <1>1, IdleTicksAssumption DEF Inv, TypeOK, ExecuteThreadFails, Statuses
<1>4. used' = used /\ ready' = ready /\ allPrograms' = allPrograms
  BY DEF ExecuteThreadFails
<1>5. \A p \in Slots : used[p] => status'[p] = status[p]
  BY <1>1 DEF Inv, TypeOK, ExecuteThreadFails
<1>6. ReadyQueueExact' /\ OneRunning' /\ AllListed'
  BY <1>4, <1>5 DEF Inv, TypeOK, ReadyQueueExact, OneRunning, AllListed
<1> QED BY <1>3, <1>4, <1>6

(***************************************************************************)
(* The processor-switching steps, in the form ScheduleFacts needs.         *)
(***************************************************************************)
LEMMA SchedulableFacts ==
  ASSUME Inv
  PROVE  /\ Schedulable(status)
         /\ status[running] = "RUNNING"
              => Schedulable([status EXCEPT ![running] = "DEAD"])
  BY DEF Inv, TypeOK, ReadyQueueExact, OneRunning, Schedulable, Statuses

-----------------------------------------------------------------------------
(***************************************************************************)
(* The boot state satisfies the invariant.                                 *)
(***************************************************************************)
LEMMA InitInv == Init => Inv
<1> SUFFICES ASSUME Init PROVE Inv
  OBVIOUS
<1>1. IdlePid \in Slots /\ AnyPid \in Slots \cup {AnyPid}
  BY MaxProgramAssumption DEF Slots, IdlePid
<1>2. TypeOK
  BY <1>1, IdleTicksAssumption DEF Init, TypeOK, Statuses, Locations, IdlePid
<1>3. ReadyQueueExact /\ OneRunning
  BY <1>1 DEF Init, ReadyQueueExact, OneRunning, NoDuplicates, Elements, IdlePid
<1>4. AllListed
  BY <1>1 DEF Init, AllListed, NoDuplicates, Elements, IdlePid
<1> QED BY <1>2, <1>3, <1>4 DEF Inv

(***************************************************************************)
(* Every step keeps the invariant, provided fork completes the child that  *)
(* it has enqueued.                                                        *)
(***************************************************************************)
LEMMA NextInv ==
  ASSUME "fork" \notin Failures, Inv, [Next]_vars
  PROVE  Inv'
<1>0. TypeOK /\ ReadyQueueExact /\ OneRunning /\ AllListed
  BY DEF Inv
<1>1. CASE StartInit
  <2>1. PICK s \in FreeSlots :
          \/ /\ ExecuteThread(s, 0)
             /\ \/ /\ status' = [status EXCEPT ![s] = "READY"]
                   /\ ready' = Append(ready, s)
                \/ /\ status' = [status EXCEPT ![s] = "DEAD"]
                   /\ ready' = ready
          \/ ExecuteThreadFails(s)
    BY <1>1 DEF StartInit
  <2>2. /\ UNCHANGED <<running, waitFor, panicked, asserted>>
        /\ pc' = [pc EXCEPT ![IdlePid] = "idle"]
    BY <1>1 DEF StartInit
  <2>3. pc' \in [Slots -> Locations]
    BY <1>0, <2>2 DEF TypeOK, Locations
  <2>4. CASE ExecuteThreadFails(s)
    BY <1>0, <2>2, <2>3, <2>4, ExecuteThreadFailsFacts DEF Inv, TypeOK
  <2>5. CASE ~ ExecuteThreadFails(s)
    <3>1. 0 \in 0 .. IdleTicks
      BY IdleTicksAssumption
    <3> QED
      BY <1>0, <2>1, <2>2, <2>3, <2>5, <3>1, ExecuteThreadFacts, NewProcessFacts
      DEF Inv, TypeOK
  <2> QED BY <2>4, <2>5
<1>2. ASSUME NEW p \in Slots, Fork(p) PROVE Inv'
  <2>1. UNCHANGED <<running, waitFor, panicked, asserted>>
    BY <1>2 DEF Fork
  <2>2. CASE FreeSlots = {}
    <3>1. /\ UNCHANGED <<used, status, parentPid, argvOwner, ticks, allPrograms,
                         ready>>
          /\ pc' = [pc EXCEPT ![p] = "run"]
      BY <1>2, <2>2 DEF Fork
    <3>2. pc' \in [Slots -> Locations]
      BY <1>0, <3>1 DEF TypeOK, Locations
    <3> QED
      BY <1>0, <2>1, <3>1, <3>2
      DEF Inv, TypeOK, ReadyQueueExact, OneRunning, AllListed
  <2>3. CASE FreeSlots # {}
    <3>1. PICK s \in FreeSlots :
            \/ /\ ExecuteThread(s, ticks[p])
               /\ ready' = Append(ready, s)
               /\ status' = [status EXCEPT ![s] = "READY"]
               /\ pc' = [pc EXCEPT ![p] = "run", ![s] = "run"]
            \/ /\ ExecuteThreadFails(s)
               /\ pc' = [pc EXCEPT ![p] = "run"]
      BY <1>2, <2>3 DEF Fork, ForkChild
    <3>2. pc' \in [Slots -> Locations]
      BY <1>0, <3>1 DEF TypeOK, Locations
    <3>3. CASE ExecuteThreadFails(s)
      BY <1>0, <2>1, <3>2, <3>3, ExecuteThreadFailsFacts DEF Inv, TypeOK
    <3>4. CASE ~ ExecuteThreadFails(s)
      <4>1. ticks[p] \in 0 .. IdleTicks
        BY <1>0 DEF TypeOK
      <4> QED
        BY <1>0, <2>1, <3>1, <3>2, <3>4, <4>1, ExecuteThreadFacts, NewProcessFacts
        DEF Inv, TypeOK
    <3> QED BY <3>3, <3>4
  <2> QED BY <2>2, <2>3
<1>3. ASSUME NEW p \in Slots, Exit(p) PROVE Inv'
  <2>1. /\ Schedule([status EXCEPT ![running] = "DEAD"], ready)
        /\ status[running] = "RUNNING" /\ parentPid' = Reparent(p)
        /\ UNCHANGED <<used, argvOwner, ticks, allPrograms, pc, waitFor, asserted>>
    BY <1>3 DEF Exit, At
  <2>2. InitPid \in Slots
    BY MaxProgramAssumption DEF Slots, InitPid
  <2>3. parentPid' \in [Slots -> Slots]
    BY <1>0, <2>1, <2>2 DEF TypeOK, Reparent
  <2> QED
    BY <1>0, <2>1, <2>3, SchedulableFacts, ScheduleFacts DEF Inv, TypeOK, AllListed
<1>4. ASSUME NEW p \in Slots, ExecveFails(p) PROVE Inv'
  <2>1. /\ running = p /\ status[running] = "RUNNING"
        /\ UNCHANGED <<used, parentPid, argvOwner, ticks, allPrograms, waitFor,
                       asserted>>
    BY <1>4 DEF ExecveFails, At
  <2>2. CASE /\ status' = [status EXCEPT ![p] = "DEAD"]
             /\ pc' = [pc EXCEPT ![p] = "gone"]
             /\ UNCHANGED <<ready, running, panicked>>
    BY <1>0, <2>1, <2>2
    DEF Inv, TypeOK, ReadyQueueExact, OneRunning, AllListed, Statuses, Locations
  <2>3. CASE Schedule([status EXCEPT ![p] = "DEAD"], ready) /\ UNCHANGED pc
    BY <1>0, <2>1, <2>3, SchedulableFacts, ScheduleFacts DEF Inv, TypeOK, AllListed
  <2> QED BY <1>4, <2>2, <2>3 DEF ExecveFails
<1>5. ASSUME NEW p \in Slots, PageTableBroken(p) PROVE Inv'
  BY <1>0, <1>5
  DEF PageTableBroken, Inv, TypeOK, ReadyQueueExact, OneRunning, AllListed
<1>6. ASSUME NEW p \in Slots, NEW target \in Slots \cup {AnyPid}, Waitpid(p, target)
      PROVE  Inv'
  BY <1>0, <1>6
  DEF Waitpid, Inv, TypeOK, ReadyQueueExact, OneRunning, AllListed, Locations
<1>7. ASSUME NEW p \in Slots, WaitNoChild(p) PROVE Inv'
  BY <1>0, <1>7
  DEF WaitNoChild, Inv, TypeOK, ReadyQueueExact, OneRunning, AllListed, Locations
<1>8. ASSUME NEW p \in Slots, WaitReap(p) PROVE Inv'
  <2>1. PICK z \in Children(p) : IsFirstZombie(p, z) /\ ReleasePCB(z)
    BY <1>8 DEF WaitReap
  <2>2. z \in Elements(allPrograms) /\ status[z] = "DEAD" /\ z \in Slots
    BY <1>0, <2>1 DEF Children, IsFirstZombie, AllListed
  <2>3. /\ running = p /\ status[p] = "RUNNING" /\ pc' = [pc EXCEPT ![p] = "run"]
        /\ waitFor' = [waitFor EXCEPT ![p] = AnyPid]
        /\ UNCHANGED <<status, parentPid, ticks, ready, running, panicked, asserted>>
        /\ argvOwner' = [argvOwner EXCEPT ![z] = NoArgv]
        /\ used' = [used EXCEPT ![z] = FALSE]
        /\ allPrograms' = Erase(allPrograms, z)
    BY <1>8, <2>1 DEF WaitReap, At, ReleasePCB
  <2>4. /\ allPrograms' \in Seq(Slots) /\ NoDuplicates(allPrograms')
        /\ Elements(allPrograms') = Elements(allPrograms) \ {z}
    BY <1>0, <2>2, <2>3, EraseFacts DEF TypeOK, AllListed
  <2>5. TypeOK'
    BY <1>0, <2>3, <2>4 DEF TypeOK, Locations
  <2>6. ReadyQueueExact' /\ OneRunning'
    BY <1>0, <2>2, <2>3 DEF TypeOK, ReadyQueueExact, OneRunning
  <2>7. AllListed'
    BY <1>0, <2>2, <2>3, <2>4 DEF TypeOK, AllListed
  <2> QED BY <2>5, <2>6, <2>7 DEF Inv
<1>9. ASSUME NEW p \in Slots, WaitNotYet(p) PROVE Inv'
  BY <1>0, <1>9
  DEF WaitNotYet, Inv, TypeOK, ReadyQueueExact, OneRunning, AllListed, Locations
<1>10. ASSUME NEW p \in Slots, WaitResched(p) \/ Yield(p) PROVE Inv'
  <2>1. /\ Schedule(status, ready)
        /\ UNCHANGED <<used, parentPid, argvOwner, ticks, allPrograms, waitFor,
                       asserted>>
        /\ \E l \in Locations : pc' = [pc EXCEPT ![p] = l]
    BY <1>10 DEF WaitResched, Yield, Locations
  <2>2. pc' \in [Slots -> Locations]
    BY <1>0, <2>1 DEF TypeOK
  <2> QED
    BY <1>0, <2>1, <2>2, SchedulableFacts, ScheduleFacts DEF Inv, TypeOK, AllListed
<1>11. CASE Tick
  <2>1. /\ ticks' = SpendTick
        /\ UNCHANGED <<used, parentPid, argvOwner, allPrograms, pc, waitFor,
                       asserted>>
    BY <1>11 DEF Tick
  <2>2. ticks' \in [Slots -> 0 .. IdleTicks]
    BY <1>0, <2>1, IdleTicksAssumption DEF TypeOK, SpendTick
  <2>3. CASE Schedule(status, ready)
    BY <1>0, <2>1, <2>2, <2>3, SchedulableFacts, ScheduleFacts
    DEF Inv, TypeOK, AllListed
  <2>4. CASE UNCHANGED <<status, ready, running, panicked>>
    BY <1>0, <2>1, <2>2, <2>4
    DEF Inv, TypeOK, ReadyQueueExact, OneRunning, AllListed
  <2> QED BY <1>11, <2>3, <2>4 DEF Tick
<1>12. ASSUME NEW p \in Slots, WaitAsserts(p) PROVE Inv'
  BY <1>0, <1>12
  DEF WaitAsserts, Inv, TypeOK, ReadyQueueExact, OneRunning, AllListed
<1>13. CASE UNCHANGED vars
  BY <1>0, <1>13 DEF vars, Inv, TypeOK, ReadyQueueExact, OneRunning, AllListed
<1> QED
  BY <1>1, <1>2, <1>3, <1>4, <1>5, <1>6, <1>7, <1>8, <1>9, <1>10, <1>11, <1>12,
     <1>13
  DEF Next, WaitStep

(***************************************************************************)
(* For any number of PCB slots and either scheduler, and with every        *)
(* failure allowed but one of fork after it has enqueued the child: the    *)
(* ready queue is exactly the READY processes, one process is running, and *)
(* allPrograms is exactly the PCBs in use.                                 *)
(***************************************************************************)
THEOREM QueuesCorrect ==
  ASSUME "fork" \notin Failures
  PROVE  Spec => [](TypeOK /\ ReadyQueueExact /\ OneRunning /\ AllListed)
<1>1. Init => Inv
  BY InitInv
<1>2. Inv /\ [Next]_vars => Inv'
  BY NextInv
<1>3. Inv => TypeOK /\ ReadyQueueExact /\ OneRunning /\ AllListed
  BY DEF Inv
<1> QED BY <1>1, <1>2, <1>3, PTL DEF Spec

(***************************************************************************)
(* The same, property by property.  Every field of the PCBs keeps its      *)
(* type: running and every list hold slot numbers, no tick count goes      *)
(* below 0 and no parent or argv owner lies outside the table.             *)
(***************************************************************************)
COROLLARY TypesCorrect ==
  ASSUME "fork" \notin Failures
  PROVE  Spec => []TypeOK
BY QueuesCorrect, PTL

(***************************************************************************)
(* running is in use and the only PCB marked RUNNING, for any number of    *)
(* slots and either scheduler.                                             *)
(***************************************************************************)
COROLLARY OneProcessRuns ==
  ASSUME "fork" \notin Failures
  PROVE  Spec => []OneRunning
BY QueuesCorrect, PTL

(***************************************************************************)
(* waitpid and exit, which walk allPrograms, see every child and no freed  *)
(* slot.                                                                   *)
(***************************************************************************)
COROLLARY ProgramsListed ==
  ASSUME "fork" \notin Failures
  PROVE  Spec => []AllListed
BY QueuesCorrect, PTL

-----------------------------------------------------------------------------
(***************************************************************************)
(* schedule() neither kills nor revives anyone.                            *)
(***************************************************************************)
LEMMA ScheduleDead ==
  ASSUME NEW st, TypeOK, Schedulable(st), Schedule(st, ready)
  PROVE  \A p \in Slots : used[p] => (status'[p] = "DEAD" <=> st[p] = "DEAD")
<1>1. CASE ready = <<>>
  BY <1>1 DEF Schedule
<1>2. CASE ready # <<>>
  <2> DEFINE h == Head(ready)
  <2>1. h \in Slots /\ h \in Elements(ready)
    BY <1>2, TailFacts DEF TypeOK, Schedulable
  <2>2. st[h] = "READY"
    BY <2>1 DEF Schedulable
  <2>3. \/ st[running] = "DEAD" /\ status' = [st EXCEPT ![h] = "RUNNING"]
        \/ /\ st[running] # "DEAD"
           /\ status' = [st EXCEPT ![h] = "RUNNING", ![running] = "READY"]
    BY <1>2 DEF Schedule
  <2> HIDE DEF h
  <2> QED BY <2>1, <2>2, <2>3 DEF Schedulable, TypeOK
<1> QED BY <1>1, <1>2

(***************************************************************************)
(* No step takes a used PCB out of the state DEAD.                         *)
(***************************************************************************)
LEMMA NextDead ==
  ASSUME "fork" \notin Failures, Inv, [Next]_vars,
         NEW x \in Slots, used[x], status[x] = "DEAD"
  PROVE  status'[x] = "DEAD"
<1>0. TypeOK /\ Schedulable(status) /\ status \in [Slots -> Statuses]
  BY SchedulableFacts DEF Inv, TypeOK
<1>1. CASE \E s \in FreeSlots : \/ status' = [status EXCEPT ![s] = "READY"]
                                \/ status' = [status EXCEPT ![s] = "DEAD"]
                                \/ status' = [status EXCEPT ![s] = "CREATED"]
  BY <1>0, <1>1 DEF FreeSlots
<1>2. CASE status' = status
  BY <1>2
<1>3. CASE Schedule(status, ready)
  BY <1>0, <1>3, ScheduleDead
<1>4. CASE /\ status[running] = "RUNNING"
           /\ \/ Schedule([status EXCEPT ![running] = "DEAD"], ready)
              \/ status' = [status EXCEPT ![running] = "DEAD"]
  <2>1. [status EXCEPT ![running] = "DEAD"][x] = "DEAD"
    BY <1>0
  <2> QED BY <1>0, <1>4, <2>1, SchedulableFacts, ScheduleDead
<1>5. StartInit \/ (\E p \in Slots : Fork(p)) => <1>1!1 \/ status' = status
  BY DEF StartInit, Fork, ForkChild, ExecuteThreadFails
<1> QED
  BY <1>1, <1>2, <1>3, <1>4, <1>5
  DEF Next, vars, Exit, ExecveFails, PageTableBroken, Waitpid, WaitStep,
      WaitNoChild, WaitReap, WaitAsserts, WaitNotYet, WaitResched, Yield, Tick, At

(***************************************************************************)
(* Nothing resumes a zombie, under the same condition.                     *)
(***************************************************************************)
THEOREM ZombiesStayDead ==
  ASSUME "fork" \notin Failures
  PROVE  Spec => NoResurrection
<1>1. Init => Inv
  BY InitInv
<1>2. Inv /\ [Next]_vars => Inv'
  BY NextInv
<1>3. Inv /\ [Next]_vars
        => [\A p \in Slots : used[p] /\ status[p] = "DEAD"
                              => status'[p] = "DEAD"]_vars
  BY NextDead
<1> QED BY <1>1, <1>2, <1>3, PTL DEF Spec, NoResurrection

-----------------------------------------------------------------------------
(***************************************************************************)
(* The family invariant behind ParentAlive.  Init adopts orphans, so it    *)
(* must be alive whenever anyone could leave some; idle is always          *)
(* schedulable, so a dying process always has a successor; and a process   *)
(* is not its own parent, or its death would orphan itself.                *)
(***************************************************************************)
IdleAlive == used[IdlePid] /\ status[IdlePid] # "DEAD"

BootFirst ==
  pc[IdlePid] = "boot" => \A p \in Slots \ {IdlePid} : ~ used[p]

InitAlive ==
  \A p \in Slots \ {IdlePid, InitPid} :
    used[p] => /\ used[InitPid] /\ status[InitPid] # "DEAD"
               /\ parentPid[p] # p

FamilyInv == Inv /\ ParentAlive /\ IdleAlive /\ BootFirst /\ InitAlive

LEMMA PidFacts == /\ IdlePid \in Slots /\ InitPid \in Slots /\ IdlePid # InitPid
                  /\ \A p \in Slots : p > InitPid <=> p \notin {IdlePid, InitPid}
                  /\ \A p \in Slots : p # IdlePid => p >= InitPid
  BY MaxProgramAssumption DEF Slots, IdlePid, InitPid

(***************************************************************************)
(* A step that changes no family tree and kills nobody.                    *)
(***************************************************************************)
LEMMA FamilyUnchanged ==
  ASSUME FamilyInv, Inv', UNCHANGED <<used, parentPid>>,
         pc'[IdlePid] = pc[IdlePid],
         \A p \in Slots : used[p] => (status'[p] = "DEAD" <=> status[p] = "DEAD")
  PROVE  FamilyInv'
  BY PidFacts
  DEF FamilyInv, Inv, TypeOK, ParentAlive, IdleAlive, BootFirst, InitAlive

(***************************************************************************)
(* A step that adds a live child s of the running process.                 *)
(***************************************************************************)
LEMMA FamilyNewChild ==
  ASSUME FamilyInv, Inv', NEW s \in FreeSlots,
         used' = [used EXCEPT ![s] = TRUE],
         parentPid' = [parentPid EXCEPT ![s] = running],
         status[running] = "RUNNING",
         \A p \in Slots \ {s} : status'[p] = status[p],
         pc'[IdlePid] # "boot",
         s = InitPid \/ (running # IdlePid /\ s # InitPid /\ status'[s] # "DEAD")
  PROVE  FamilyInv'
<1>1. /\ s \in Slots /\ ~ used[s] /\ s # running /\ used[running]
      /\ running \in Slots /\ s # IdlePid
  BY DEF FreeSlots, FamilyInv, Inv, TypeOK, OneRunning, IdleAlive
<1>2. IdleAlive' /\ BootFirst'
  BY <1>1, PidFacts DEF FamilyInv, IdleAlive, BootFirst, Inv, TypeOK
<1>3. ParentAlive'
  <2>1. SUFFICES ASSUME NEW p \in Slots \ {IdlePid}, used'[p]
                 PROVE  used'[parentPid'[p]] /\ status'[parentPid'[p]] # "DEAD"
    BY DEF ParentAlive
  <2>2. CASE p = s
    <3>1. parentPid'[p] = running
      BY <1>1, <2>2 DEF FamilyInv, Inv, TypeOK
    <3> QED BY <1>1, <3>1 DEF FamilyInv, Inv, TypeOK
  <2>3. CASE p # s
    <3>1. used[p] /\ parentPid'[p] = parentPid[p] /\ parentPid[p] \in Slots
      BY <1>1, <2>1, <2>3 DEF FamilyInv, Inv, TypeOK
    <3>2. used[parentPid[p]] /\ status[parentPid[p]] # "DEAD"
      BY <3>1 DEF FamilyInv, ParentAlive
    <3> QED BY <1>1, <3>1, <3>2, SMTT(30) DEF FamilyInv, Inv, TypeOK
  <2> QED BY <2>2, <2>3
<1>4. InitAlive'
  <2>1. CASE s = InitPid
    BY <1>1, <2>1, PidFacts DEF FamilyInv, InitAlive, Inv, TypeOK
  <2>2. CASE running # IdlePid /\ s # InitPid /\ status'[s] # "DEAD"
    <3>1. used[InitPid] /\ status[InitPid] # "DEAD"
      BY <1>1, <2>2, PidFacts DEF FamilyInv, InitAlive
    <3>2. used'[InitPid] /\ status'[InitPid] # "DEAD"
      BY <1>1, <2>2, <3>1, PidFacts DEF FamilyInv, Inv, TypeOK
    <3>3. \A p \in Slots \ {IdlePid, InitPid} : used'[p] => parentPid'[p] # p
      BY <1>1 DEF FamilyInv, InitAlive, Inv, TypeOK
    <3> QED BY <3>2, <3>3 DEF InitAlive
  <2> QED BY <2>1, <2>2
<1> QED BY <1>2, <1>3, <1>4 DEF FamilyInv

(***************************************************************************)
(* A failed executeThread changes a free PCB only.                         *)
(***************************************************************************)
LEMMA FamilyFailed ==
  ASSUME FamilyInv, Inv', NEW s \in FreeSlots, ExecuteThreadFails(s),
         pc'[IdlePid] = pc[IdlePid] \/ pc'[IdlePid] # "boot"
  PROVE  FamilyInv'
<1>1. /\ s \in Slots /\ ~ used[s] /\ used' = used
      /\ \A p \in Slots : used[p] => /\ status'[p] = status[p]
                                     /\ parentPid'[p] = parentPid[p]
  BY DEF FreeSlots, ExecuteThreadFails, FamilyInv, Inv, TypeOK
<1>2. \A p \in Slots : parentPid[p] \in Slots
  BY DEF FamilyInv, Inv, TypeOK
<1> QED
  BY <1>1, <1>2, PidFacts
  DEF FamilyInv, ParentAlive, IdleAlive, BootFirst, InitAlive

(***************************************************************************)
(* Every step keeps the family invariant, provided neither fork nor execve *)
(* can fail after the point of no return.                                  *)
(***************************************************************************)
LEMMA FamilyNext ==
  ASSUME Failures \cap {"fork", "execDir", "execPool"} = {},
         FamilyInv, [Next]_vars
  PROVE  FamilyInv'
<1>0. /\ TypeOK /\ Inv /\ Inv' /\ Schedulable(status) /\ used[running]
      /\ running \in Slots /\ "fork" \notin Failures
      /\ \A p \in Slots : parentPid[p] \in Slots
  BY NextInv, SchedulableFacts DEF FamilyInv, Inv, TypeOK, OneRunning
<1>1. CASE StartInit
  <2>1. PICK s \in FreeSlots :
          /\ IsFirstFree(s)
          /\ \/ /\ ExecuteThread(s, 0)
                /\ \/ status' = [status EXCEPT ![s] = "READY"]
                   \/ status' = [status EXCEPT ![s] = "DEAD"]
             \/ ExecuteThreadFails(s)
    BY <1>1 DEF StartInit
  <2>2. /\ running = IdlePid /\ status[running] = "RUNNING"
        /\ pc[IdlePid] = "boot" /\ pc' = [pc EXCEPT ![IdlePid] = "idle"]
    BY <1>1 DEF StartInit, At
  <2>3. pc'[IdlePid] # "boot"
    BY <1>0, <2>2, PidFacts DEF TypeOK
  <2>4. s = InitPid
    <3>1. InitPid \in FreeSlots /\ s # IdlePid
      BY <2>2, PidFacts DEF FamilyInv, BootFirst, IdleAlive, FreeSlots
    <3>2. s <= InitPid /\ s >= InitPid
      BY <2>1, <3>1, PidFacts DEF IsFirstFree, FreeSlots
    <3> QED BY <3>2, PidFacts DEF FreeSlots, Slots, InitPid
  <2>5. CASE ExecuteThreadFails(s)
    BY <1>0, <2>3, <2>5, FamilyFailed
  <2>6. CASE ~ ExecuteThreadFails(s)
    <3>1. /\ used' = [used EXCEPT ![s] = TRUE]
          /\ parentPid' = [parentPid EXCEPT ![s] = running]
          /\ \A p \in Slots \ {s} : status'[p] = status[p]
      BY <1>0, <2>1, <2>6 DEF ExecuteThread, TypeOK
    <3> QED BY <1>0, <2>2, <2>3, <2>4, <3>1, FamilyNewChild
  <2> QED BY <2>5, <2>6
<1>2. ASSUME NEW p \in Slots, Fork(p) PROVE FamilyInv'
  <2>1. /\ p # IdlePid /\ running = p /\ status[p] = "RUNNING"
    BY <1>2, PidFacts DEF Fork, At
  <2>2. pc[IdlePid] # "boot"
    BY <1>0, <2>1 DEF FamilyInv, BootFirst
  <2>3. CASE FreeSlots = {}
    <3>1. /\ UNCHANGED <<used, parentPid, status>>
          /\ pc' = [pc EXCEPT ![p] = "run"]
      BY <1>2, <2>3 DEF Fork
    <3>2. pc'[IdlePid] = pc[IdlePid]
      BY <1>0, <2>1, <3>1, PidFacts DEF TypeOK
    <3> QED BY <1>0, <3>1, <3>2, FamilyUnchanged
  <2>4. CASE FreeSlots # {}
    <3>1. PICK s \in FreeSlots :
            \/ /\ ExecuteThread(s, ticks[p])
               /\ status' = [status EXCEPT ![s] = "READY"]
               /\ pc' = [pc EXCEPT ![p] = "run", ![s] = "run"]
            \/ /\ ExecuteThreadFails(s)
               /\ pc' = [pc EXCEPT ![p] = "run"]
      BY <1>0, <1>2, <2>4 DEF Fork, ForkChild
    <3>2. s # IdlePid /\ s \in Slots /\ ~ used[s]
      BY DEF FreeSlots, FamilyInv, IdleAlive
    <3>3. pc'[IdlePid] = pc[IdlePid]
      BY <1>0, <2>1, <3>1, <3>2, PidFacts DEF TypeOK
    <3>4. CASE ExecuteThreadFails(s)
      BY <1>0, <3>3, <3>4, FamilyFailed
    <3>5. CASE ~ ExecuteThreadFails(s)
      <4>1. /\ used' = [used EXCEPT ![s] = TRUE]
            /\ parentPid' = [parentPid EXCEPT ![s] = running]
            /\ \A x \in Slots \ {s} : status'[x] = status[x]
            /\ status'[s] # "DEAD"
        BY <1>0, <3>1, <3>2, <3>5 DEF ExecuteThread, TypeOK
      <4>2. s # InitPid
        BY <1>0, <2>1, <3>2, PidFacts DEF FamilyInv, InitAlive
      <4> QED BY <1>0, <2>1, <2>2, <3>3, <4>1, <4>2, FamilyNewChild
    <3> QED BY <3>4, <3>5
  <2> QED BY <2>3, <2>4
<1>3. ASSUME NEW p \in Slots, Exit(p) PROVE FamilyInv'
  <2>1. /\ Schedule([status EXCEPT ![p] = "DEAD"], ready)
        /\ p = running /\ status[p] = "RUNNING" /\ parentPid' = Reparent(p)
        /\ UNCHANGED <<used, pc>> /\ p \notin {IdlePid, InitPid}
    BY <1>3, PidFacts DEF Exit, At
  <2>2. used[InitPid] /\ status[InitPid] # "DEAD" /\ parentPid[p] # p
    BY <1>0, <2>1 DEF FamilyInv, InitAlive
  <2>3. \A x \in Slots : used[x] =>
          (status'[x] = "DEAD" <=> x = p \/ status[x] = "DEAD")
    <3>1. Schedulable([status EXCEPT ![p] = "DEAD"])
      BY <1>0, <2>1, SchedulableFacts
    <3>2. \A x \in Slots : [status EXCEPT ![p] = "DEAD"][x] = "DEAD"
                            <=> x = p \/ status[x] = "DEAD"
      BY <1>0 DEF TypeOK
    <3> DEFINE st == [status EXCEPT ![p] = "DEAD"]
    <3>3. \A x \in Slots : used[x] => (status'[x] = "DEAD" <=> st[x] = "DEAD")
      <4> HIDE DEF st
      <4>1. Schedulable(st) /\ Schedule(st, ready)
        BY <2>1, <3>1 DEF st
      <4> QED BY <1>0, <4>1, ScheduleDead
    <3> QED BY <3>2, <3>3
  <2>4. \A x \in Slots : used[x] =>
          parentPid'[x] = IF x # p /\ parentPid[x] = p THEN InitPid ELSE parentPid[x]
    BY <1>0, <2>1 DEF Reparent, Inv, AllListed
  <2>5. ParentAlive'
    <3>1. SUFFICES ASSUME NEW x \in Slots \ {IdlePid}, used'[x]
                   PROVE  used'[parentPid'[x]] /\ status'[parentPid'[x]] # "DEAD"
      BY DEF ParentAlive
    <3>2. used[x] /\ used[parentPid[x]] /\ status[parentPid[x]] # "DEAD"
      BY <2>1, <3>1 DEF FamilyInv, ParentAlive
    <3>3. CASE x # p /\ parentPid[x] = p
      BY <2>1, <2>2, <2>3, <2>4, <3>2, <3>3, PidFacts
    <3>4. CASE ~ (x # p /\ parentPid[x] = p)
      <4>1. parentPid'[x] = parentPid[x] /\ parentPid[x] # p
        BY <2>2, <2>4, <3>2, <3>4
      <4> QED BY <1>0, <2>1, <2>3, <3>2, <4>1
    <3> QED BY <3>3, <3>4
  <2>6. IdleAlive' /\ BootFirst'
    BY <2>1, <2>3, PidFacts DEF FamilyInv, IdleAlive, BootFirst
  <2>7. InitAlive'
    BY <2>1, <2>2, <2>3, <2>4, PidFacts DEF FamilyInv, InitAlive
  <2> QED BY <1>0, <2>5, <2>6, <2>7 DEF FamilyInv
<1>4. ASSUME NEW p \in Slots, WaitReap(p) PROVE FamilyInv'
  <2>1. PICK z \in Children(p) : IsFirstZombie(p, z) /\ ReleasePCB(z)
    BY <1>4 DEF WaitReap
  <2>2. z \in Slots /\ used[z] /\ status[z] = "DEAD"
    BY <1>0, <2>1 DEF Children, IsFirstZombie, Inv, AllListed
  <2>3. /\ used' = [used EXCEPT ![z] = FALSE] /\ UNCHANGED <<status, parentPid>>
        /\ pc' = [pc EXCEPT ![p] = "run"]
    BY <1>4, <2>1 DEF WaitReap, ReleasePCB
  <2>4. pc[IdlePid] # "boot" /\ pc'[IdlePid] # "boot"
    <3>1. z # IdlePid
      BY <2>2 DEF FamilyInv, IdleAlive
    <3> QED BY <1>0, <2>2, <2>3, <3>1, PidFacts DEF FamilyInv, BootFirst, TypeOK
  <2>5. \A x \in Slots : used'[x] <=> used[x] /\ x # z
    BY <1>0, <2>2, <2>3 DEF TypeOK
  <2>6. ParentAlive' /\ IdleAlive' /\ BootFirst' /\ InitAlive'
    BY <1>0, <2>2, <2>3, <2>4, <2>5, PidFacts
    DEF FamilyInv, ParentAlive, IdleAlive, BootFirst, InitAlive
  <2> QED BY <1>0, <2>6 DEF FamilyInv
<1>5. ASSUME UNCHANGED <<used, parentPid>>, status' = status \/ Schedule(status, ready),
             pc'[IdlePid] = pc[IdlePid]
      PROVE  FamilyInv'
  <2>1. \A p \in Slots : used[p] => (status'[p] = "DEAD" <=> status[p] = "DEAD")
    BY <1>0, <1>5, ScheduleDead
  <2> QED BY <1>0, <1>5, <2>1, FamilyUnchanged
<1>6. ASSUME NEW p \in Slots, UNCHANGED <<used, parentPid>>,
             status' = status \/ Schedule(status, ready),
             running = p, pc[p] \in Locations \ {"boot", "idle"},
             \E l \in Locations \ {"boot"} : pc' = [pc EXCEPT ![p] = l]
      PROVE  FamilyInv'
  <2>1. CASE p # IdlePid
    BY <1>0, <1>5, <1>6, <2>1, PidFacts DEF TypeOK
  <2>2. CASE p = IdlePid
    <3>1. pc[IdlePid] # "boot" /\ pc'[IdlePid] # "boot"
      BY <1>0, <1>6, <2>2, PidFacts DEF TypeOK
    <3>2. \A x \in Slots : used[x] => (status'[x] = "DEAD" <=> status[x] = "DEAD")
      BY <1>0, <1>6, ScheduleDead
    <3> QED
      BY <1>0, <1>6, <3>1, <3>2, PidFacts
      DEF FamilyInv, ParentAlive, IdleAlive, BootFirst, InitAlive
  <2> QED BY <2>1, <2>2
<1>7. ASSUME NEW p \in Slots, NEW target \in Slots \cup {AnyPid}, Waitpid(p, target)
      PROVE  FamilyInv'
  BY <1>6, <1>7 DEF Waitpid, At, Locations
<1>8. ASSUME NEW p \in Slots,
             WaitNoChild(p) \/ WaitNotYet(p) \/ WaitResched(p)
      PROVE  FamilyInv'
  BY <1>6, <1>8 DEF WaitNoChild, WaitNotYet, WaitResched, At, Locations
<1>9. ASSUME NEW p \in Slots, Yield(p) PROVE FamilyInv'
  BY <1>6, <1>9 DEF Yield, At, Locations
<1>10. CASE Tick \/ UNCHANGED vars
  BY <1>5, <1>10 DEF Tick, vars
<1>11. ASSUME NEW p \in Slots, PageTableBroken(p) PROVE FamilyInv'
  BY <1>5, <1>11 DEF PageTableBroken
<1>12. ASSUME NEW p \in Slots PROVE ~ ExecveFails(p)
  BY DEF ExecveFails
<1>13. ASSUME NEW p \in Slots, WaitAsserts(p) PROVE FamilyInv'
  BY <1>5, <1>13 DEF WaitAsserts
<1> QED
  BY <1>1, <1>2, <1>3, <1>4, <1>7, <1>8, <1>9, <1>10, <1>11, <1>12,
     <1>13
  DEF Next, WaitStep

(***************************************************************************)
(* The parent of every process is alive, for any number of PCB slots, when *)
(* fork and execve do not fail half-way: orphans, zombies among them, are  *)
(* always handed to a live init, whatever the order of exits, waits and    *)
(* pid reuse.                                                              *)
(***************************************************************************)
THEOREM ParentsAlive ==
  ASSUME Failures \cap {"fork", "execDir", "execPool"} = {}
  PROVE  Spec => []ParentAlive
<1>1. Init => FamilyInv
  <2>1. Init => Inv
    BY InitInv
  <2> QED
    BY <2>1, PidFacts
    DEF Init, FamilyInv, ParentAlive, IdleAlive, BootFirst, InitAlive
<1>2. FamilyInv /\ [Next]_vars => FamilyInv'
  BY FamilyNext
<1>3. FamilyInv => ParentAlive
  BY DEF FamilyInv
<1> QED BY <1>1, <1>2, <1>3, PTL DEF Spec

-----------------------------------------------------------------------------
(***************************************************************************)
(* Why schedule() always finds a successor: the idle thread never dies, so *)
(* whenever another process enters schedule() idle is READY and queued.    *)
(***************************************************************************)
CalmInv ==
  /\ Inv
  /\ used[IdlePid]
  /\ status[IdlePid] \in {"RUNNING", "READY"}
  /\ \A p \in Slots : pc[p] # "gone"
  /\ panicked = FALSE

LEMMA CalmSchedule ==
  ASSUME CalmInv, NEW st, Schedulable(st), Schedule(st, ready),
         st[IdlePid] \in {"RUNNING", "READY"}
  PROVE  panicked' = FALSE /\ status'[IdlePid] \in {"RUNNING", "READY"}
<1>0. /\ TypeOK /\ used[IdlePid] /\ IdlePid \in Slots /\ running \in Slots
      /\ st \in [Slots -> Statuses] /\ panicked = FALSE
  BY PidFacts DEF CalmInv, Inv, TypeOK, Schedulable
<1>1. CASE ready # <<>>
  <2>1. panicked' = FALSE
    BY <1>0, <1>1 DEF Schedule
  <2>2. Head(ready) \in Slots
    BY <1>0, <1>1, TailFacts DEF TypeOK, Schedulable
  <2> DEFINE h == Head(ready)
  <2>3. \/ status' = [st EXCEPT ![h] = "RUNNING"]
        \/ status' = [st EXCEPT ![h] = "RUNNING", ![running] = "READY"]
    BY <1>1 DEF Schedule
  <2> HIDE DEF h
  <2>4. status'[IdlePid] \in {"RUNNING", "READY"}
    BY <1>0, <2>3
  <2> QED BY <2>1, <2>4
<1>2. CASE ready = <<>>
  <2>1. Elements(ready) = {}
    BY <1>2 DEF Elements
  <2>2. st[IdlePid] # "READY"
    BY <1>0, <2>1 DEF Schedulable
  <2>3. running = IdlePid /\ st[running] # "DEAD"
    BY <1>0, <2>2 DEF Schedulable
  <2> QED BY <1>2, <2>3 DEF Schedule
<1> QED BY <1>1, <1>2

(***************************************************************************)
(* schedule() never panics, for any number of PCB slots and either         *)
(* scheduler, as long as fork completes its children and execve gets its   *)
(* page directory.                                                         *)
(***************************************************************************)
THEOREM SchedulerNeverPanics ==
  ASSUME Failures \cap {"fork", "execDir"} = {}
  PROVE  Spec => []NeverPanics
<1>1. Init => CalmInv
  <2>1. Init => Inv
    BY InitInv
  <2> QED BY <2>1, PidFacts DEF Init, CalmInv
<1>2. ASSUME CalmInv, [Next]_vars PROVE CalmInv'
  <2>0. /\ TypeOK /\ Inv /\ Inv' /\ Schedulable(status) /\ used[IdlePid]
        /\ status[IdlePid] \in {"RUNNING", "READY"} /\ panicked = FALSE
        /\ IdlePid \in Slots /\ status \in [Slots -> Statuses]
        /\ used \in [Slots -> BOOLEAN] /\ pc \in [Slots -> Locations]
    BY <1>2, NextInv, SchedulableFacts, PidFacts DEF CalmInv, Inv, TypeOK
  <2>1. used'[IdlePid]
    <3>1. \A z \in Slots : status[z] = "DEAD" => z # IdlePid
      BY <2>0
    <3>2. ASSUME NEW p \in Slots, WaitReap(p) PROVE used'[IdlePid]
      BY <2>0, <3>1, <3>2 DEF WaitReap, ReleasePCB, IsFirstZombie
    <3>3. ASSUME NEW s \in FreeSlots, used' = [used EXCEPT ![s] = TRUE]
          PROVE  used'[IdlePid]
      BY <2>0, <3>3
    <3>4. StartInit \/ (\E p \in Slots : Fork(p)) => used'[IdlePid]
      BY <2>0, <3>3
      DEF StartInit, Fork, ForkChild, ExecuteThread, ExecuteThreadFails
    <3> QED
      BY <1>2, <2>0, <3>2, <3>4
      DEF Next, vars, Exit, ExecveFails, PageTableBroken, Waitpid, WaitStep,
          WaitNoChild, WaitAsserts, WaitNotYet, WaitResched, Yield, Tick
  <2>2. \A p \in Slots : pc'[p] # "gone"
    <3>1. \A p \in Slots : pc[p] # "gone"
      BY <1>2 DEF CalmInv
    <3>2. \/ pc' = pc
          \/ \E x \in Slots, l \in Locations \ {"gone"} : pc' = [pc EXCEPT ![x] = l]
          \/ \E x, y \in Slots : pc' = [pc EXCEPT ![x] = "run", ![y] = "run"]
      BY <1>2, <2>0
      DEF Next, vars, StartInit, Fork, Exit, ExecveFails, PageTableBroken, Waitpid,
          WaitStep, WaitNoChild, WaitReap, WaitAsserts, WaitNotYet, WaitResched,
          Yield, Tick, Locations, FreeSlots
    <3> QED BY <2>0, <3>1, <3>2
  <2>3. panicked' = FALSE /\ status'[IdlePid] \in {"RUNNING", "READY"}
    <3>1. CASE status' = status /\ panicked' = panicked
      BY <2>0, <3>1
    <3>2. CASE Schedule(status, ready)
      BY <1>2, <2>0, <3>2, CalmSchedule
    <3>3. CASE /\ status[running] = "RUNNING" /\ running > InitPid
               /\ Schedule([status EXCEPT ![running] = "DEAD"], ready)
      <4> DEFINE st == [status EXCEPT ![running] = "DEAD"]
      <4>1. running # IdlePid
        BY <3>3 DEF IdlePid, InitPid
      <4>2. Schedulable(st) /\ st[IdlePid] \in {"RUNNING", "READY"}
        BY <2>0, <3>3, <4>1, SchedulableFacts
      <4>3. Schedule(st, ready)
        BY <3>3
      <4> HIDE DEF st
      <4> QED BY <1>2, <4>2, <4>3, CalmSchedule
    <3>4. CASE panicked' = panicked /\
               \E s \in FreeSlots : \/ status' = [status EXCEPT ![s] = "READY"]
                                    \/ status' = [status EXCEPT ![s] = "DEAD"]
                                    \/ status' = [status EXCEPT ![s] = "CREATED"]
      BY <2>0, <3>4 DEF FreeSlots
    <3>5. StartInit \/ (\E p \in Slots : Fork(p))
            => <3>4!1 \/ (status' = status /\ panicked' = panicked)
      BY DEF StartInit, Fork, ForkChild, ExecuteThreadFails
    <3>6. \A p \in Slots : Exit(p) \/ ExecveFails(p) => <3>3!1
      BY DEF Exit, ExecveFails, At
    <3>7. \A p \in Slots : ~ PageTableBroken(p)
      BY <1>2 DEF PageTableBroken, CalmInv
    <3> QED
      BY <1>2, <3>1, <3>2, <3>3, <3>4, <3>5, <3>6, <3>7
      DEF Next, vars, Waitpid, WaitStep, WaitNoChild, WaitReap, WaitAsserts,
          WaitNotYet, WaitResched, Yield, Tick
  <2> QED BY <2>0, <2>1, <2>2, <2>3 DEF CalmInv
<1>3. CalmInv => NeverPanics
  BY DEF CalmInv, NeverPanics
<1> QED BY <1>1, <1>2, <1>3, PTL DEF Spec
=============================================================================
