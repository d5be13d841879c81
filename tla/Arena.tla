------------------------------- MODULE Arena -------------------------------
(***************************************************************************)
(* What malloc, free and realloc promise a program: a block is a range of  *)
(* granules nobody else has, and only its owner changes what is in it.     *)
(* full[p] is how many granules from p on hold data; a block is not        *)
(* cleared when it is given out.                                           *)
(***************************************************************************)
EXTENDS Integers

CONSTANT Top     \* granules are 1 .. Top

VARIABLES
  length,        \* the granules of every block in use
  full           \* how many of them, from the first on, hold data

arena == <<length, full>>

Fits(p, k, others) ==
  /\ p \in 1 .. Top /\ p + k - 1 <= Top
  /\ \A q \in DOMAIN others : p + k <= q \/ q + others[q] <= p \/ p = q

Without(f, p) == [q \in DOMAIN f \ {p} |-> f[q]]

With(f, p, k) == [q \in DOMAIN f \cup {p} |-> IF q = p THEN k ELSE f[q]]

Init ==
  /\ length = <<>>
  /\ full = <<>>

Take(p, k) ==
  /\ p \notin DOMAIN length
  /\ length' = With(length, p, k)
  /\ Fits(p, k, length)
  /\ \E n \in 0 .. k : full' = With(full, p, n)

Fill(p) ==
  /\ UNCHANGED length
  /\ full' = [full EXCEPT ![p] = length[p]]

Give(p) ==
  /\ length' = Without(length, p)
  /\ full' = Without(full, p)

(***************************************************************************)
(* The block moves to p2, or stays, and keeps the data that fits.          *)
(***************************************************************************)
Resize(p, p2, k) ==
  /\ p2 = p \/ p2 \notin DOMAIN length
  /\ length' = With(Without(length, p), p2, k)
  /\ Fits(p2, k, Without(length, p))
  /\ \E n \in 0 .. k :
       /\ n >= full[p] \/ n = k
       /\ full' = With(Without(full, p), p2, n)

Next ==
  \/ \E p \in 1 .. Top, k \in 1 .. Top : Take(p, k)
  \/ \E p \in DOMAIN length :
       \/ Fill(p) \/ Give(p)
       \/ \E p2 \in 1 .. Top, k \in 0 .. Top : Resize(p, p2, k)

Spec == Init /\ [][Next]_arena
=============================================================================
