------------------------------- MODULE Shell -------------------------------
(***************************************************************************)
(* The shell (bin/osh.cpp): its job table, programs in the foreground and  *)
(* in the background, fg, bg and exit, over the fork, execve, waitpid and  *)
(* exit of the kernel as the shell uses them.                              *)
(*                                                                         *)
(* There may be several shells: osh is a program a shell can run, and the  *)
(* child of a shell whose execve failed returns from run_program into      *)
(* main's loop, a second shell with its parent's job table.                *)
(*                                                                         *)
(* The steps of a command between the prompt and the call of waitpid touch *)
(* only the shell's own memory and are one step with the fork; the return  *)
(* of waitpid and the delete_job after it are two, because the pid is free *)
(* for others in between.  A line that changes nothing (pwd, cd, jobs, an  *)
(* unknown job, a fork that fails) is no step.                             *)
(*                                                                         *)
(* An operator X_Variant is X with a plausible bug.                        *)
(***************************************************************************)
EXTENDS Integers, FiniteSetsExt

CONSTANTS
  MaxProgram,   \* the number of PCB slots, 0 and 1 being idle and init
  MaxJobs,      \* SHELL_MAX_JOBS
  MaxJid        \* bound on next_jid, which the code lets grow without end

ASSUME MaxProgramAssumption == MaxProgram \in Nat /\ MaxProgram >= 3
ASSUME MaxJobsAssumption == MaxJobs \in Nat \ {0}
ASSUME MaxJidAssumption == MaxJid \in Nat /\ MaxJid >= MaxJobs

VARIABLES
  kind,     \* what runs in each PCB slot
  parent,   \* parentPid
  mem,      \* each shell's memory: its table of jobs, and next_jid
  call,     \* where each shell stands: the pid it waits for, and how
  halted    \* the ASSERT of releasePages failed: nothing runs any more

vars == <<kind, parent, mem, call, halted>>

InitPid == 1
Adopted == -1     \* parentPid is init's, but another process forked it
FirstShell == 2
Pids == 2 .. MaxProgram - 1
Slots == 1 .. MaxJobs

(***************************************************************************)
(* osh      a shell started by execve                                      *)
(* copy     a shell that is a fork whose execve failed                     *)
(* program  anything else a shell runs; it does not fork                   *)
(* zombie   DEAD, and not reaped yet                                       *)
(* free     no process                                                     *)
(***************************************************************************)
IsShell(p) == kind[p] \in {"osh", "copy"}

First(S) == {i \in S : \A j \in S : i <= j}

-----------------------------------------------------------------------------
(***************************************************************************)
(* The job table.  An empty slot has pid and jid 0; fg and bg find it      *)
(* under either.  A lookup is the set of the slot found, empty for null.   *)
(***************************************************************************)
clear_job == [pid |-> 0, jid |-> 0, state |-> "UNDEF"]

init_jobs == [jobs |-> [i \in Slots |-> clear_job], next_jid |-> 1]

max_jid(jobs) == Max({jobs[i].jid : i \in Slots})

get_job_pid(jobs, pid) == First({i \in Slots : jobs[i].pid = pid})

get_job_jid(jobs, jid) == First({i \in Slots : jobs[i].jid = jid})

HasRoom(m) == get_job_pid(m.jobs, 0) # {}

add_job(m, pid, state) ==
  [jobs |-> [i \in Slots |->
               IF i \in get_job_pid(m.jobs, 0)
               THEN [pid |-> pid, jid |-> m.next_jid, state |-> state]
               ELSE m.jobs[i]],
   next_jid |-> IF m.next_jid + 1 > MaxJobs THEN 1 ELSE m.next_jid + 1]

delete_job_ByJid(m, pid) ==
  LET jobs == [i \in Slots |-> IF i \in get_job_jid(m.jobs, pid)
                               THEN clear_job ELSE m.jobs[i]]
  IN [jobs |-> jobs, next_jid |-> max_jid(jobs) + 1]

delete_job(m, pid) ==
  LET found == get_job_pid(m.jobs, pid)
      jobs == [i \in Slots |-> IF i \in found THEN clear_job ELSE m.jobs[i]]
  IN IF found = {} THEN m
     ELSE [jobs |-> jobs, next_jid |-> max_jid(jobs) + 1]

(***************************************************************************)
(* The state of an empty slot is not kept: nothing reads it before add_job *)
(* sets it.                                                                *)
(***************************************************************************)
SetState(m, found, state) ==
  [m EXCEPT !.jobs = [i \in Slots |-> IF i \in found /\ m.jobs[i].pid # 0
                                      THEN [m.jobs[i] EXCEPT !.state = state]
                                      ELSE m.jobs[i]]]

-----------------------------------------------------------------------------
Prompt == [at |-> "prompt", pid |-> 0]

AtPrompt(s) == IsShell(s) /\ call[s] = Prompt /\ ~halted

Waiting(s) == IsShell(s) /\ call[s].at \in {"listed", "unlisted"} /\ ~halted

Init ==
  /\ kind = [p \in Pids |-> IF p = FirstShell THEN "osh" ELSE "free"]
  /\ parent = [p \in Pids |-> InitPid]
  /\ mem = [p \in Pids |-> init_jobs]
  /\ call = [p \in Pids |-> Prompt]
  /\ halted = FALSE

(***************************************************************************)
(* fork takes the first free PCB.  The child's memory is the shell's as it *)
(* was before add_job; an execve that succeeds replaces it.                *)
(***************************************************************************)
Fork(s, child, image) ==
  /\ child \in First({p \in Pids : kind[p] = "free"})
  /\ kind' = [kind EXCEPT ![child] = image]
  /\ parent' = [parent EXCEPT ![child] = s]

ChildMemory(s, image) == IF image = "copy" THEN mem[s] ELSE init_jobs

(***************************************************************************)
(* run_program, up to the call of waitpid.  When the table is full the     *)
(* shell waits, background or not, for a job it has not listed.            *)
(***************************************************************************)
run_program(s, child, image, bg) ==
  /\ AtPrompt(s)
  /\ mem[s].next_jid <= MaxJid
  /\ Fork(s, child, image)
  /\ UNCHANGED halted
  /\ LET m == add_job(mem[s], child, IF bg THEN "BG" ELSE "FG")
         job == get_job_pid(m.jobs, child)
     IN \/ /\ HasRoom(mem[s])
           /\ bg
           /\ mem' = [mem EXCEPT ![s] = m, ![child] = ChildMemory(s, image)]
           /\ UNCHANGED call
        \/ /\ HasRoom(mem[s])
           /\ ~bg
           /\ mem' = [mem EXCEPT ![s] = SetState(m, job, "FG"),
                                 ![child] = ChildMemory(s, image)]
           /\ call' = [call EXCEPT ![s] = [at |-> "listed", pid |-> child]]
        \/ /\ ~HasRoom(mem[s])
           /\ mem' = [mem EXCEPT ![child] = ChildMemory(s, image)]
           /\ call' = [call EXCEPT ![s] = [at |-> "unlisted", pid |-> child]]

(***************************************************************************)
(* fg and bg with a number, the pid or after a % the job number.  What is  *)
(* not a number is read as 0, and finds an empty slot.                     *)
(***************************************************************************)
parse_job_arg(m) ==
  UNION ({get_job_pid(m.jobs, n) : n \in {0} \union Pids}
           \union {get_job_jid(m.jobs, n) : n \in 0 .. MaxJid})

do_fg(s, job) ==
  /\ AtPrompt(s)
  /\ job \in parse_job_arg(mem[s])
  /\ mem' = [mem EXCEPT ![s] = SetState(@, {job}, "FG")]
  /\ call' = [call EXCEPT ![s] = [at |-> "listed",
                                 pid |-> mem[s].jobs[job].pid]]
  /\ UNCHANGED <<kind, parent, halted>>

do_bg(s, job) ==
  /\ AtPrompt(s)
  /\ job \in parse_job_arg(mem[s])
  /\ mem' = [mem EXCEPT ![s] = SetState(@, {job}, "BG")]
  /\ UNCHANGED <<kind, parent, call, halted>>

(***************************************************************************)
(* waitpid(pid) of the kernel: -1 at once when no child has this pid, the  *)
(* release of the child's PCB once it is dead, and polling until then.     *)
(***************************************************************************)
IsChild(s, pid) == pid \in Pids /\ kind[pid] # "free" /\ parent[pid] = s

Reap(pid) ==
  /\ kind' = [kind EXCEPT ![pid] = "free"]
  /\ parent' = [parent EXCEPT ![pid] = InitPid]

waitpid_Poll(s, pid) ==
  /\ IsChild(s, pid)
  /\ kind[pid] = "zombie"
  /\ Reap(pid)

waitpid(s, pid) ==
  \/ /\ ~IsChild(s, pid)
     /\ UNCHANGED <<kind, parent>>
  \/ /\ IsChild(s, pid)
     /\ kind[pid] = "zombie"
     /\ Reap(pid)

(***************************************************************************)
(* The two callers: wait_foreground goes on to delete_job whether the wait *)
(* failed or not, run_program with a full table returns to the prompt.     *)
(***************************************************************************)
WaitReturns(s) ==
  /\ Waiting(s)
  /\ waitpid(s, call[s].pid)
  /\ call' = [call EXCEPT ![s] = IF @.at = "listed"
                                 THEN [@ EXCEPT !.at = "delete"] ELSE Prompt]
  /\ UNCHANGED <<mem, halted>>

DeleteJob(s) ==
  /\ IsShell(s)
  /\ call[s].at = "delete"
  /\ ~halted
  /\ mem' = [mem EXCEPT ![s] = delete_job(@, call[s].pid)]
  /\ call' = [call EXCEPT ![s] = Prompt]
  /\ UNCHANGED <<kind, parent, halted>>

(***************************************************************************)
(* exit, of a program or of a shell at its prompt: the process is a zombie *)
(* and its children go to init.                                            *)
(***************************************************************************)
Exit(p) ==
  /\ kind' = [kind EXCEPT ![p] = "zombie"]
  /\ parent' = [q \in Pids |-> IF parent[q] = p THEN Adopted ELSE parent[q]]
  /\ mem' = [mem EXCEPT ![p] = init_jobs]
  /\ UNCHANGED <<call, halted>>

ProgramExit(p) == kind[p] = "program" /\ ~halted /\ Exit(p)

ShellExit(s) == AtPrompt(s) /\ Exit(s)

(***************************************************************************)
(* init waits for any child in a loop.  releasePCB frees the argv page of  *)
(* the zombie, which is filed under the pid of the process that forked it: *)
(* for a zombie another process left behind the assertion fails.           *)
(***************************************************************************)
InitReaps(p) ==
  /\ kind[p] = "zombie"
  /\ ~halted
  /\ \/ /\ parent[p] = InitPid
        /\ Reap(p)
        /\ UNCHANGED halted
     \/ /\ parent[p] = Adopted
        /\ halted' = TRUE
        /\ UNCHANGED <<kind, parent>>
  /\ UNCHANGED <<mem, call>>

Next ==
  \/ \E s, child \in Pids, image \in {"osh", "copy", "program"}, bg \in BOOLEAN :
       run_program(s, child, image, bg)
  \/ \E s \in Pids, job \in Slots : do_fg(s, job)
  \/ \E s \in Pids, job \in Slots : do_bg(s, job)
  \/ \E s \in Pids : WaitReturns(s)
  \/ \E s \in Pids : DeleteJob(s)
  \/ \E p \in Pids : ProgramExit(p)
  \/ \E s \in Pids : ShellExit(s)
  \/ \E p \in Pids : InitReaps(p)

(***************************************************************************)
(* A program ends by itself, and the processes that can run get the CPU:   *)
(* a process is at most one of the three below at a time.                  *)
(* Nothing makes the user type: there is no fairness of a shell's commands *)
(* or of its exit.                                                         *)
(***************************************************************************)
Fairness ==
  \A p \in Pids : WF_vars(ProgramExit(p) \/ WaitReturns(p) \/ DeleteJob(p))

Spec == Init /\ [][Next]_vars /\ Fairness

-----------------------------------------------------------------------------
Listed(s) == {i \in Slots : mem[s].jobs[i].pid # 0}

(***************************************************************************)
(* The table of a shell started by execve is exactly its children: no two  *)
(* slots hold one pid, every listed pid is a child that was not reaped     *)
(* (but for the one being deleted, whose pid may already be somebody       *)
(* else's), every child is listed or is what a full table made the shell   *)
(* wait for, and the job in the foreground is the one waited for.  A pid   *)
(* is a slot number and is used again at once, so a stale entry would make *)
(* fg wait for another shell's process.                                    *)
(***************************************************************************)
JobsAreChildren ==
  \A s \in Pids : kind[s] = "osh" =>
    LET table == mem[s].jobs
        deleting == IF call[s].at = "delete" THEN {call[s].pid} ELSE {}
    IN /\ \A i, j \in Listed(s) : table[i].pid = table[j].pid => i = j
       /\ \A i \in Listed(s) :
            /\ table[i].pid \in deleting \/ IsChild(s, table[i].pid)
            /\ table[i].state = "FG" <=>
                 /\ call[s].at \in {"listed", "delete"}
                 /\ call[s].pid = table[i].pid
       /\ \A p \in Pids : IsChild(s, p) =>
            \/ \E i \in Listed(s) : table[i].pid = p
            \/ call[s] = [at |-> "unlisted", pid |-> p]

(***************************************************************************)
(* A shell that waits, for a program or for nothing at all (fg of a stale  *)
(* or empty slot), gets back to its prompt.  One that waits for a shell    *)
(* does so until the user leaves that shell.  A halted machine is what     *)
(* init's assertion leaves (InitReaps).                                    *)
(***************************************************************************)
WaitsForShell(s) == IsChild(s, call[s].pid) /\ IsShell(call[s].pid)

PromptReturns ==
  \A s \in Pids : (Waiting(s) /\ ~WaitsForShell(s)) ~> (AtPrompt(s) \/ halted)
=============================================================================
