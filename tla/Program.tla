------------------------------ MODULE Program ------------------------------
(***************************************************************************)
(* The process manager and the round-robin / FIFS schedulers of the        *)
(* kernel (program.cpp, schduler.cpp): PCB slots, the ready queue, the     *)
(* list of all programs, and fork, exit, waitpid, execve, yield and the    *)
(* timer tick as the processes of the running system issue them.           *)
(*                                                                         *)
(* One CPU: a step is taken by the running process or by the timer         *)
(* interrupt.  A handler that runs with interrupts off is one step;        *)
(* waitpid, which turns them on again before it calls schedule(), is two.  *)
(*                                                                         *)
(* An operator X_Variant is X with a plausible bug.  No specification uses *)
(* it: each shows that some property fails when X is written that way.     *)
(***************************************************************************)
EXTENDS Integers, Sequences

CONSTANTS
  MaxProgram,   \* MAX_PROGRAM_AMOUNT, the number of PCB slots
  IdleTicks,    \* the time slice the idle thread starts with
  SType,        \* the scheduler in use: "RR" or "FIFS"
  Failures      \* the steps of process creation whose allocation may fail

FailureKinds == {"argv", "initSpace", "fork", "execDir", "execPool"}

ASSUME MaxProgramAssumption == MaxProgram \in Nat /\ MaxProgram >= 2
ASSUME IdleTicksAssumption == IdleTicks \in Nat \ {0}
ASSUME STypeAssumption == SType \in {"RR", "FIFS"}
ASSUME FailuresAssumption == Failures \subseteq FailureKinds

VARIABLES
  used,          \* PCB_SET_STATUS
  status,        \* PCB::status
  parentPid,     \* PCB::parentPid
  argvOwner,     \* the pid the rmap entry of the PCB's argv page is filed under
  ticks,         \* PCB::ticks, kept at 0 once it is spent (only <= 0 is tested)
  allPrograms,   \* the list of all programs, in order of creation
  ready,         \* readyPrograms of the scheduler in use
  running,       \* the pid of programManager.running
  pc,            \* where each process stands between two of its steps
  waitFor,       \* the pid argument of the waitpid call in progress, if any
  panicked,      \* PANIC was reached: interrupts off, the machine halted
  asserted       \* the ASSERT in releasePages failed, with the same effect

vars == <<used, status, parentPid, argvOwner, ticks, allPrograms, ready,
          running, pc, waitFor, panicked, asserted>>

(***************************************************************************)
(* A pid is the index of the PCB slot.  The idle thread is created first   *)
(* and init second, so they have pids 0 and 1.                             *)
(***************************************************************************)
Slots == 0 .. MaxProgram - 1
IdlePid == 0
InitPid == 1
AnyPid == -1
NoArgv == -1   \* the owner of no argv page

Statuses == {"CREATED", "RUNNING", "READY", "DEAD"}

(***************************************************************************)
(* boot     idle before it starts init, init before its only fork          *)
(* run      in user mode                                                   *)
(* scan     in waitpid, about to look through allPrograms                  *)
(* resched  in waitpid, no zombie found, about to call schedule()          *)
(* yield    init after wait returned -1, about to call yield()             *)
(* idle     the idle thread counting, for ever                             *)
(* gone     execve destroyed the address space and returned to it          *)
(***************************************************************************)
Locations == {"boot", "run", "scan", "resched", "yield", "idle", "gone"}

Elements(s) == {s[i] : i \in DOMAIN s}

-----------------------------------------------------------------------------
(***************************************************************************)
(* allocatePCB takes the first free slot.                                  *)
(***************************************************************************)
FreeSlots_OffByOne == {i \in 0 .. MaxProgram : i \in Slots => ~used[i]}

FreeSlots == {i \in Slots : ~used[i]}

IsFirstFree(s) == s \in FreeSlots /\ \A j \in FreeSlots : s <= j

(***************************************************************************)
(* The list operations on allPrograms: push_back and erase.                *)
(***************************************************************************)
IndexIn(s, p) == CHOOSE i \in DOMAIN s : s[i] = p

Erase(s, p) ==
  [i \in 1 .. Len(s) - 1 |-> IF i < IndexIn(s, p) THEN s[i] ELSE s[i + 1]]

(***************************************************************************)
(* schedule(), entered with PCB statuses st and ready queue q: the head of *)
(* the queue becomes RUNNING, then the process that was running becomes    *)
(* READY and joins the tail, unless it is DEAD.  A DEAD process with no    *)
(* successor is the PANIC "Invalid Schedule".                              *)
(***************************************************************************)
Schedule_DeadRequeued(st, q) ==
  /\ IF q = <<>>
     THEN status' = st /\ UNCHANGED <<ready, running>>
     ELSE /\ running' = Head(q)
          /\ status' = [st EXCEPT ![Head(q)] = "RUNNING", ![running] = "READY"]
          /\ ready' = Append(Tail(q), running)
  /\ UNCHANGED panicked

Schedule_StatusKept(st, q) ==
  /\ IF q = <<>>
     THEN status' = st /\ UNCHANGED <<ready, running>>
     ELSE /\ running' = Head(q)
          /\ status' = [st EXCEPT ![Head(q)] = "RUNNING"]
          /\ ready' = IF st[running] = "DEAD" THEN Tail(q)
                      ELSE Append(Tail(q), running)
  /\ UNCHANGED panicked

Schedule_NotRequeued(st, q) ==
  IF q = <<>>
  THEN /\ status' = st
       /\ panicked' = (st[running] = "DEAD")
       /\ UNCHANGED <<ready, running>>
  ELSE /\ running' = Head(q)
       /\ status' = [st EXCEPT ![Head(q)] = "RUNNING", ![running] =
                        IF @ = "DEAD" THEN @ ELSE "READY"]
       /\ ready' = Tail(q)
       /\ UNCHANGED panicked

Schedule_PushFront(st, q) ==
  /\ IF q = <<>>
     THEN status' = st /\ UNCHANGED <<ready, running>>
     ELSE /\ running' = Head(q)
          /\ status' = [st EXCEPT ![Head(q)] = "RUNNING", ![running] =
                           IF @ = "DEAD" THEN @ ELSE "READY"]
          /\ ready' = IF st[running] = "DEAD" THEN Tail(q)
                      ELSE <<running>> \o Tail(q)
  /\ UNCHANGED panicked

Schedule(st, q) ==
  IF q = <<>>
  THEN /\ status' = st
       /\ ready' = q
       /\ panicked' = (st[running] = "DEAD")
       /\ UNCHANGED running
  ELSE /\ running' = Head(q)
       /\ UNCHANGED panicked
       /\ IF st[running] = "DEAD"
          THEN /\ status' = [st EXCEPT ![Head(q)] = "RUNNING"]
               /\ ready' = Tail(q)
          ELSE /\ status' = [st EXCEPT ![Head(q)] = "RUNNING",
                                       ![running] = "READY"]
               /\ ready' = Append(Tail(q), running)

(***************************************************************************)
(* executeThread's part in process creation, for slot s: the PCB is        *)
(* cleared, the running process is the parent and owns the rmap entry of   *)
(* the argv page, and the PCB joins allPrograms.  The caller decides the   *)
(* status and the queue.                                                   *)
(***************************************************************************)
ExecuteThread(s, slice) ==
  /\ used' = [used EXCEPT ![s] = TRUE]
  /\ parentPid' = [parentPid EXCEPT ![s] = running]
  /\ argvOwner' = [argvOwner EXCEPT ![s] = running]
  /\ ticks' = [ticks EXCEPT ![s] = slice]
  /\ allPrograms' = Append(allPrograms, s)

(***************************************************************************)
(* executeThread when the argv page cannot be allocated: the slot was      *)
(* cleared and is free again.                                              *)
(***************************************************************************)
ExecuteThreadFails(s) ==
  /\ "argv" \in Failures
  /\ status' = [status EXCEPT ![s] = "CREATED"]
  /\ parentPid' = [parentPid EXCEPT ![s] = running]
  /\ argvOwner' = [argvOwner EXCEPT ![s] = NoArgv]
  /\ ticks' = [ticks EXCEPT ![s] = 0]
  /\ UNCHANGED <<used, allPrograms, ready>>

-----------------------------------------------------------------------------
(***************************************************************************)
(* The state setup_kernel leaves: the idle thread was enqueued, picked and *)
(* made RUNNING.                                                           *)
(***************************************************************************)
Init ==
  /\ used = [i \in Slots |-> i = IdlePid]
  /\ status = [i \in Slots |-> IF i = IdlePid THEN "RUNNING" ELSE "CREATED"]
  /\ parentPid = [i \in Slots |-> 0]
  /\ argvOwner = [i \in Slots |-> IF i = IdlePid THEN 0 ELSE NoArgv]
  /\ ticks = [i \in Slots |-> IF i = IdlePid THEN IdleTicks ELSE 0]
  /\ allPrograms = <<IdlePid>>
  /\ ready = <<>>
  /\ running = IdlePid
  /\ pc = [i \in Slots |-> "boot"]
  /\ waitFor = [i \in Slots |-> AnyPid]
  /\ panicked = FALSE
  /\ asserted = FALSE

(***************************************************************************)
(* PANIC and assert_fail turn interrupts off and loop for ever.            *)
(***************************************************************************)
Halted == panicked \/ asserted

(***************************************************************************)
(* The running process is p, alive, and stands at l.                       *)
(***************************************************************************)
At(p, l) ==
  /\ ~ Halted
  /\ running = p
  /\ status[p] = "RUNNING"
  /\ pc[p] = l

(***************************************************************************)
(* idle_thread calls executeProcess(init).  Init joins the ready queue     *)
(* only when it is complete; when its address space cannot be made it is   *)
(* left DEAD, and the idle thread stays in asm_halt, a loop.               *)
(***************************************************************************)
StartInit ==
  /\ At(IdlePid, "boot")
  /\ \E s \in FreeSlots :
       /\ IsFirstFree(s)
       /\ \/ /\ ExecuteThread(s, 0)
             /\ status' = [status EXCEPT ![s] = "READY"]
             /\ ready' = Append(ready, s)
          \/ /\ "initSpace" \in Failures
             /\ ExecuteThread(s, 0)
             /\ status' = [status EXCEPT ![s] = "DEAD"]
             /\ UNCHANGED ready
          \/ ExecuteThreadFails(s)
  /\ pc' = [pc EXCEPT ![IdlePid] = "idle"]
  /\ UNCHANGED <<running, waitFor, panicked, asserted>>

(***************************************************************************)
(* fork() by p.  executeThread enqueues the child before the child has an  *)
(* address space; when one of the later steps fails the child is marked    *)
(* DEAD and stays where it is.  The child inherits the parent's slice.     *)
(***************************************************************************)
ForkChild_EnqueuedTwice(p, s) ==
  /\ ExecuteThread(s, ticks[p])
  /\ ready' = Append(Append(ready, s), s)
  /\ status' = [status EXCEPT ![s] = "READY"]

ForkChild(p, s) ==
  /\ ExecuteThread(s, ticks[p])
  /\ ready' = Append(ready, s)
  /\ \/ status' = [status EXCEPT ![s] = "READY"]
     \/ /\ "fork" \in Failures
        /\ status' = [status EXCEPT ![s] = "DEAD"]

Fork(p) ==
  /\ \/ p = InitPid /\ At(p, "boot")
     \/ p > InitPid /\ At(p, "run")
  /\ \/ \E s \in FreeSlots :
          /\ IsFirstFree(s)
          /\ \/ /\ ForkChild(p, s)
                /\ pc' = [pc EXCEPT ![p] = "run", ![s] = "run"]
             \/ /\ ExecuteThreadFails(s)
                /\ pc' = [pc EXCEPT ![p] = "run"]
     \/ /\ FreeSlots = {}
        /\ pc' = [pc EXCEPT ![p] = "run"]
        /\ UNCHANGED <<used, status, parentPid, argvOwner, ticks, allPrograms,
                       ready>>
  /\ UNCHANGED <<running, waitFor, panicked, asserted>>

(***************************************************************************)
(* exit() by p: p is DEAD, its children, the dead ones too, become         *)
(* children of init, and schedule() never comes back.                      *)
(***************************************************************************)
Reparent_LiveOnly(p) ==
  [c \in Slots |-> IF /\ c \in Elements(allPrograms)
                      /\ status[c] # "DEAD"
                      /\ c # p
                      /\ parentPid[c] = p
                   THEN InitPid ELSE parentPid[c]]

Reparent(p) ==
  [c \in Slots |-> IF /\ c \in Elements(allPrograms)
                      /\ c # p
                      /\ parentPid[c] = p
                   THEN InitPid ELSE parentPid[c]]

Exit(p) ==
  /\ p > InitPid
  /\ At(p, "run")
  /\ parentPid' = Reparent(p)
  /\ Schedule([status EXCEPT ![p] = "DEAD"], ready)
  /\ UNCHANGED <<used, argvOwner, ticks, allPrograms, pc, waitFor, asserted>>

(***************************************************************************)
(* execve() by p.  It changes no scheduling state unless the new address   *)
(* space cannot be made: without a page directory p is DEAD and returns to *)
(* the address space it has just destroyed; without segments or pools it   *)
(* is DEAD and schedules.                                                  *)
(***************************************************************************)
ExecveFails(p) ==
  /\ p > InitPid
  /\ At(p, "run")
  /\ \/ /\ "execDir" \in Failures
        /\ status' = [status EXCEPT ![p] = "DEAD"]
        /\ pc' = [pc EXCEPT ![p] = "gone"]
        /\ UNCHANGED <<ready, running, panicked>>
     \/ /\ "execPool" \in Failures
        /\ Schedule([status EXCEPT ![p] = "DEAD"], ready)
        /\ UNCHANGED pc
  /\ UNCHANGED <<used, parentPid, argvOwner, ticks, allPrograms, waitFor,
                 asserted>>

(***************************************************************************)
(* The page fault of a process whose address space is gone, unless a tick  *)
(* takes the CPU from it first: PANIC in c_page_fault_handler.             *)
(***************************************************************************)
PageTableBroken(p) ==
  /\ ~ Halted
  /\ running = p
  /\ pc[p] = "gone"
  /\ panicked' = TRUE
  /\ UNCHANGED <<used, status, parentPid, argvOwner, ticks, allPrograms, ready,
                 running, pc, waitFor, asserted>>

(***************************************************************************)
(* waitpid(target) by p: a call, then one pass over allPrograms that       *)
(* either returns -1 (no such child), or frees the first zombie child and  *)
(* returns, or goes on to call schedule() and look again.  Init only       *)
(* waits for any child, and yields after a -1.                             *)
(***************************************************************************)
Waitpid(p, target) ==
  /\ p > IdlePid
  /\ At(p, "run")
  /\ p = InitPid => target = AnyPid
  /\ pc' = [pc EXCEPT ![p] = "scan"]
  /\ waitFor' = [waitFor EXCEPT ![p] = target]
  /\ UNCHANGED <<used, status, parentPid, argvOwner, ticks, allPrograms, ready,
                 running, panicked, asserted>>

IsChild(p, c) ==
  /\ parentPid[c] = p
  /\ waitFor[p] = AnyPid \/ waitFor[p] = c

Children(p) == {c \in Elements(allPrograms) : IsChild(p, c)}

IsFirstZombie_SkipsLast(p, z) ==
  \E i \in 1 .. Len(allPrograms) - 1 :
    /\ z = allPrograms[i]
    /\ IsChild(p, z) /\ status[z] = "DEAD"
    /\ \A j \in 1 .. i - 1 : ~ ( /\ IsChild(p, allPrograms[j])
                                 /\ status[allPrograms[j]] = "DEAD" )

IsFirstZombie(p, z) ==
  \E i \in DOMAIN allPrograms :
    /\ z = allPrograms[i]
    /\ IsChild(p, z) /\ status[z] = "DEAD"
    /\ \A j \in 1 .. i - 1 : ~ ( /\ IsChild(p, allPrograms[j])
                                 /\ status[allPrograms[j]] = "DEAD" )

ReleasePCB_NotErased(z) ==
  /\ argvOwner' = [argvOwner EXCEPT ![z] = NoArgv]
  /\ used' = [used EXCEPT ![z] = FALSE]
  /\ UNCHANGED allPrograms

ReleasePCB_SlotKept(z) ==
  /\ argvOwner' = [argvOwner EXCEPT ![z] = NoArgv]
  /\ allPrograms' = Erase(allPrograms, z)
  /\ UNCHANGED used

ReleasePCB(z) ==
  /\ argvOwner' = [argvOwner EXCEPT ![z] = NoArgv]
  /\ used' = [used EXCEPT ![z] = FALSE]
  /\ allPrograms' = Erase(allPrograms, z)

WaitNoChild(p) ==
  /\ At(p, "scan")
  /\ Children(p) = {}
  /\ pc' = [pc EXCEPT ![p] = IF p = InitPid THEN "yield" ELSE "run"]
  /\ waitFor' = [waitFor EXCEPT ![p] = AnyPid]
  /\ UNCHANGED <<used, status, parentPid, argvOwner, ticks, allPrograms, ready,
                 running, panicked, asserted>>

WaitReap(p) ==
  /\ At(p, "scan")
  /\ \E z \in Children(p) :
       IsFirstZombie(p, z) /\ argvOwner[z] = p /\ ReleasePCB(z)
  /\ pc' = [pc EXCEPT ![p] = "run"]
  /\ waitFor' = [waitFor EXCEPT ![p] = AnyPid]
  /\ UNCHANGED <<status, parentPid, ticks, ready, running, panicked, asserted>>

(***************************************************************************)
(* releasePCB looks for the rmap entry of the argv page under the pid of   *)
(* the process that reaps.  An adopted zombie has it under the pid of its  *)
(* first parent: detach fails, and the ASSERT around it.                   *)
(***************************************************************************)
WaitAsserts(p) ==
  /\ At(p, "scan")
  /\ \E z \in Children(p) : IsFirstZombie(p, z) /\ argvOwner[z] # p
  /\ asserted' = TRUE
  /\ UNCHANGED <<used, status, parentPid, argvOwner, ticks, allPrograms, ready,
                 running, pc, waitFor, panicked>>

WaitNotYet(p) ==
  /\ At(p, "scan")
  /\ Children(p) # {}
  /\ \A c \in Children(p) : status[c] # "DEAD"
  /\ pc' = [pc EXCEPT ![p] = "resched"]
  /\ UNCHANGED <<used, status, parentPid, argvOwner, ticks, allPrograms, ready,
                 running, waitFor, panicked, asserted>>

WaitResched(p) ==
  /\ At(p, "resched")
  /\ pc' = [pc EXCEPT ![p] = "scan"]
  /\ Schedule(status, ready)
  /\ UNCHANGED <<used, parentPid, argvOwner, ticks, allPrograms, waitFor,
                 asserted>>

(***************************************************************************)
(* yield(): the system call is schedule().                                 *)
(***************************************************************************)
Yield(p) ==
  /\ \/ p = InitPid /\ At(p, "yield")
     \/ p > InitPid /\ At(p, "run")
  /\ pc' = [pc EXCEPT ![p] = "run"]
  /\ Schedule(status, ready)
  /\ UNCHANGED <<used, parentPid, argvOwner, ticks, allPrograms, waitFor,
                 asserted>>

(***************************************************************************)
(* The timer interrupt.  onTick spends a tick of a RUNNING process; the    *)
(* slice is never refilled, so once it is spent every tick reschedules.    *)
(* A process that is running but no longer RUNNING is always switched out. *)
(***************************************************************************)
SpendTick ==
  IF SType = "RR" /\ status[running] = "RUNNING" /\ ticks[running] > 0
  THEN [ticks EXCEPT ![running] = @ - 1]
  ELSE ticks

OnTick ==
  \/ status[running] # "RUNNING"
  \/ SType = "RR" /\ SpendTick[running] = 0

Tick ==
  /\ ~ Halted
  /\ ticks' = SpendTick
  /\ IF OnTick
     THEN Schedule(status, ready)
     ELSE UNCHANGED <<status, ready, running, panicked>>
  /\ UNCHANGED <<used, parentPid, argvOwner, allPrograms, pc, waitFor, asserted>>

-----------------------------------------------------------------------------
WaitStep(p) ==
  \/ WaitNoChild(p) \/ WaitReap(p) \/ WaitAsserts(p)
  \/ WaitNotYet(p) \/ WaitResched(p)

Next ==
  \/ StartInit
  \/ Tick
  \/ \E p \in Slots :
       \/ Fork(p)
       \/ Exit(p)
       \/ ExecveFails(p)
       \/ PageTableBroken(p)
       \/ \E target \in Slots \cup {AnyPid} : Waitpid(p, target)
       \/ WaitStep(p)
       \/ Yield(p)

Spec == Init /\ [][Next]_vars

(***************************************************************************)
(* The timer keeps firing, a process in waitpid that gets the CPU again    *)
(* and again completes its pass over the list (a pass is far shorter than  *)
(* a tick), and init keeps running its loop of wait and yield.             *)
(***************************************************************************)
Fairness ==
  /\ WF_vars(Tick)
  /\ \A p \in Slots : SF_vars(WaitStep(p))
  /\ SF_vars(StartInit)
  /\ SF_vars(Fork(InitPid) \/ Waitpid(InitPid, AnyPid) \/ Yield(InitPid))

FairSpec == Spec /\ Fairness

-----------------------------------------------------------------------------
(***************************************************************************)
(* Type correctness.                                                       *)
(***************************************************************************)
TypeOK ==
  /\ used \in [Slots -> BOOLEAN]
  /\ status \in [Slots -> Statuses]
  /\ parentPid \in [Slots -> Slots]
  /\ argvOwner \in [Slots -> Slots \cup {NoArgv}]
  /\ ticks \in [Slots -> 0 .. IdleTicks]
  /\ allPrograms \in Seq(Slots)
  /\ ready \in Seq(Slots)
  /\ running \in Slots
  /\ pc \in [Slots -> Locations]
  /\ waitFor \in [Slots -> Slots \cup {AnyPid}]
  /\ panicked \in BOOLEAN
  /\ asserted \in BOOLEAN

NoDuplicates(s) == \A i, j \in DOMAIN s : s[i] = s[j] => i = j

(***************************************************************************)
(* The ready queue holds every READY process exactly once and nothing      *)
(* else: schedule() never picks a freed, dead or running PCB, and no       *)
(* runnable process is forgotten.  The queue links the PCBs through a tag  *)
(* inside them, so a duplicate or a freed entry would corrupt the list.    *)
(***************************************************************************)
ReadyQueueExact ==
  /\ NoDuplicates(ready)
  /\ Elements(ready) = {p \in Slots : used[p] /\ status[p] = "READY"}

(***************************************************************************)
(* programManager.running is a PCB in use, and the only one marked         *)
(* RUNNING; it may be DEAD only between its death and the next schedule(). *)
(***************************************************************************)
OneRunning ==
  /\ used[running]
  /\ status[running] \in {"RUNNING", "DEAD"}
  /\ \A p \in Slots : used[p] /\ status[p] = "RUNNING" => p = running

(***************************************************************************)
(* allPrograms lists exactly the PCBs in use, once each, so that waitpid   *)
(* and exit see every child and never a freed slot.                        *)
(***************************************************************************)
AllListed ==
  /\ NoDuplicates(allPrograms)
  /\ Elements(allPrograms) = {p \in Slots : used[p]}

(***************************************************************************)
(* The parent of every process is alive: no process, running or zombie,    *)
(* names a freed or dead slot as its parent.  Pids are reused, so a stale  *)
(* parentPid would make an unrelated later process the parent.             *)
(***************************************************************************)
ParentAlive ==
  \A p \in Slots \ {IdlePid} :
    used[p] => used[parentPid[p]] /\ status[parentPid[p]] # "DEAD"

(***************************************************************************)
(* schedule() always finds a successor for a dying process.                *)
(***************************************************************************)
NeverPanics == ~panicked

(***************************************************************************)
(* A dead process stays dead until its parent frees its slot: nothing      *)
(* resumes a zombie (the PANIC "Zombie resumed" at the end of exit).       *)
(***************************************************************************)
NoResurrection ==
  [][\A p \in Slots : used[p] /\ status[p] = "DEAD"
        => status'[p] = "DEAD"]_vars

(***************************************************************************)
(* The zombies that exit hands over to init are freed like any other: no   *)
(* reaping halts the machine.                                              *)
(***************************************************************************)
OrphansReaped == ~asserted

(***************************************************************************)
(* Every READY process eventually runs, unless reaping an orphan has       *)
(* halted the machine.                                                     *)
(***************************************************************************)
ReadyRuns ==
  \A p \in Slots :
    used[p] /\ status[p] = "READY" ~> running = p \/ asserted

(***************************************************************************)
(* waitpid returns once a child it waits for is dead, with the same        *)
(* exception.                                                              *)
(***************************************************************************)
InWaitpid(p) == pc[p] \in {"scan", "resched"} /\ status[p] # "DEAD"

WaitReturns ==
  \A p \in Slots \ {IdlePid} :
    InWaitpid(p) /\ (\E c \in Children(p) : status[c] = "DEAD")
      ~> ~ InWaitpid(p) \/ asserted

(***************************************************************************)
(* Init gets round to every zombie that is its child, the adopted ones     *)
(* included: its PCB slot is freed, or the attempt halts the machine.      *)
(***************************************************************************)
InitReaps ==
  \A z \in Slots :
    used[z] /\ status[z] = "DEAD" /\ parentPid[z] = InitPid
      ~> ~ used[z] \/ asserted
=============================================================================
