------------------------------ MODULE KeyQueue ------------------------------
(***************************************************************************)
(* What the keyboard promises its readers: a bounded first-in first-out    *)
(* queue of characters.  A character typed while the queue is full is      *)
(* lost; every other one goes to exactly one reader, in the order typed.   *)
(***************************************************************************)
EXTENDS Naturals, Sequences

CONSTANTS Chars, Capacity, Readers

VARIABLES
  queue,   \* the characters typed and not yet taken
  got      \* the characters each reader has taken in its current call

vars == <<queue, got>>

Init ==
  /\ queue = <<>>
  /\ got = [r \in Readers |-> <<>>]

Type(c) ==
  /\ Len(queue) < Capacity
  /\ queue' = Append(queue, c)
  /\ UNCHANGED got

Begin(r) ==
  /\ got' = [got EXCEPT ![r] = <<>>]
  /\ UNCHANGED queue

Take(r) ==
  /\ queue # <<>>
  /\ queue' = Tail(queue)
  /\ got' = [got EXCEPT ![r] = Append(@, Head(queue))]

Next ==
  \/ \E c \in Chars : Type(c)
  \/ \E r \in Readers : Begin(r) \/ Take(r)

Spec == Init /\ [][Next]_vars
=============================================================================
