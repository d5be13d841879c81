--------------------------- MODULE PrivateMemory ---------------------------
(***************************************************************************)
(* What the memory manager promises a user process: an address space of    *)
(* its own.  A write changes one page of the writer and nothing else; fork *)
(* gives the child its own copy of every page the parent has touched, and  *)
(* execve replaces the pages by those of the new program.                  *)
(***************************************************************************)
CONSTANTS Procs, Pages, Values, Zero, Fresh, Unmapped,
          Loaded   \* what execve may leave in each page

VARIABLE mem   \* the contents of each page as its process sees it

Nothing == [v \in Pages |-> Unmapped]

Init == mem \in [Procs -> [Pages -> Values \cup {Fresh, Unmapped}]]

Write(p, v, x) ==
  /\ mem[p][v] \in Values
  /\ mem' = [mem EXCEPT ![p][v] = x]

Touch(p, v) ==
  /\ mem[p][v] = Fresh
  /\ mem' = [mem EXCEPT ![p][v] = Zero]

Grow(p, v) ==
  /\ mem[p][v] = Unmapped
  /\ mem' = [mem EXCEPT ![p][v] = Fresh]

Fork(p, c) ==
  /\ mem[c] = Nothing
  /\ mem' = [mem EXCEPT ![c] = [v \in Pages |->
               IF mem[p][v] = Fresh THEN Unmapped ELSE mem[p][v]]]

Exit(p) == mem' = [mem EXCEPT ![p] = Nothing]

Exec(p) ==
  /\ mem' = [mem EXCEPT ![p] = mem'[p]]
  /\ \A v \in Pages : mem'[p][v] \in Loaded[v]

Next ==
  \E p \in Procs :
    \/ \E v \in Pages : Touch(p, v) \/ Grow(p, v) \/ \E x \in Values : Write(p, v, x)
    \/ \E c \in Procs : Fork(p, c)
    \/ Exit(p)
    \/ Exec(p)

Spec == Init /\ [][Next]_mem
=============================================================================
