------------------------------ MODULE Keyboard ------------------------------
(***************************************************************************)
(* The keyboard driver (keyboard.cpp): the interrupt handler that decodes  *)
(* scancodes into a ring buffer, and the processes that read lines from    *)
(* it.  A reader pops with interrupts off and edits its own line with them *)
(* on, so a pop and the edit that follows it are one step; a pop from an   *)
(* empty buffer calls schedule() and tries again, which changes nothing    *)
(* here.                                                                   *)
(*                                                                         *)
(* An operator X_Variant is X with a plausible bug.  No specification uses *)
(* it: each shows that some property fails when X is written that way.     *)
(***************************************************************************)
EXTENDS Integers, Sequences, FiniteSets

CONSTANTS
  BufferSize,   \* KEYBOARD_BUFFER_SIZE
  Readers,      \* the processes that read file descriptor STDIN
  Sizes,        \* the sizes read() is called with
  MaxPresses    \* bound: the number of keyboard interrupts

ASSUME BufferSizeAssumption == BufferSize \in Nat \ {0}
ASSUME SizesAssumption == Sizes \subseteq Nat \ {0}
ASSUME MaxPressesAssumption == MaxPresses \in Nat

VARIABLES
  buffer, head, tail, count, shift,   \* the fields of KeyboardManager
  reading,   \* the readers inside read()
  size,      \* the size of each reader's latest call
  line,      \* buf[0 .. n - 1] of each reader's latest call
  got,       \* history: the characters popped by each reader's latest call
  presses    \* the number of interrupts so far

vars == <<buffer, head, tail, count, shift, reading, size, line, got, presses>>

(***************************************************************************)
(* The classes of scancode the handler tells apart, and the two keymaps.   *)
(***************************************************************************)
Codes == {"shift", "letter", "enter", "back", "unmapped"}
NoChar == "none"
Newline == "newline"
Backspace == "backspace"
Chars == {"a", "A", Newline, Backspace}

Keymap == [letter |-> "a", enter |-> Newline, back |-> Backspace,
           unmapped |-> NoChar]
ShiftKeymap == [Keymap EXCEPT !.letter = "A"]

Decode(code) == IF shift THEN ShiftKeymap[code] ELSE Keymap[code]

-----------------------------------------------------------------------------
Init ==
  /\ buffer = [i \in 0 .. BufferSize - 1 |-> NoChar]
  /\ head = 0
  /\ tail = 0
  /\ count = 0
  /\ shift = FALSE
  /\ reading = {}
  /\ size \in [Readers -> Sizes]
  /\ line = [r \in Readers |-> <<>>]
  /\ got = [r \in Readers |-> <<>>]
  /\ presses = 0

(***************************************************************************)
(* push() drops the character when the buffer is full.                     *)
(***************************************************************************)
Push_Overwrites(c) ==
  /\ buffer' = [buffer EXCEPT ![tail] = c]
  /\ tail' = (tail + 1) % BufferSize
  /\ count' = IF count < BufferSize THEN count + 1 ELSE count

Push_PastTheEnd(c) ==
  IF count > BufferSize
  THEN UNCHANGED <<buffer, tail, count>>
  ELSE /\ buffer' = [buffer EXCEPT ![tail] = c]
       /\ tail' = (tail + 1) % BufferSize
       /\ count' = count + 1

Push(c) ==
  IF count >= BufferSize
  THEN UNCHANGED <<buffer, tail, count>>
  ELSE /\ buffer' = [buffer EXCEPT ![tail] = c]
       /\ tail' = (tail + 1) % BufferSize
       /\ count' = count + 1

(***************************************************************************)
(* handleScancode, the whole of the keyboard interrupt.                    *)
(***************************************************************************)
HandleScancode(code, released) ==
  /\ presses < MaxPresses
  /\ presses' = presses + 1
  /\ IF code = "shift"
     THEN /\ shift' = ~released
          /\ UNCHANGED <<buffer, tail, count>>
     ELSE /\ UNCHANGED shift
          /\ IF released \/ Decode(code) = NoChar
             THEN UNCHANGED <<buffer, tail, count>>
             ELSE Push(Decode(code))
  /\ UNCHANGED <<head, reading, size, line, got>>

(***************************************************************************)
(* read(): the call, with an empty line.                                   *)
(***************************************************************************)
BeginRead(r, n) ==
  /\ r \notin reading
  /\ reading' = reading \cup {r}
  /\ size' = [size EXCEPT ![r] = n]
  /\ line' = [line EXCEPT ![r] = <<>>]
  /\ got' = [got EXCEPT ![r] = <<>>]
  /\ UNCHANGED <<buffer, head, tail, count, shift, presses>>

(***************************************************************************)
(* One character applied to the line: backspace removes the last one, if   *)
(* there is one.                                                           *)
(***************************************************************************)
EditLine_BackspaceStored(s, c) == Append(s, c)

EditLine(s, c) ==
  IF c # Backspace THEN Append(s, c)
  ELSE IF s = <<>> THEN s ELSE SubSeq(s, 1, Len(s) - 1)

(***************************************************************************)
(* pop() in the loop of read(), and the return when the line is complete.  *)
(***************************************************************************)
CanPop_OffByOne == count > 1

CanPop == count > 0

LineComplete(r, c) == Len(line'[r]) = size[r] \/ c = Newline

Pop(r) ==
  /\ r \in reading
  /\ CanPop
  /\ LET c == buffer[head]
     IN  /\ line' = [line EXCEPT ![r] = EditLine(@, c)]
         /\ got' = [got EXCEPT ![r] = Append(@, c)]
         /\ reading' = IF LineComplete(r, c) THEN reading \ {r} ELSE reading
  /\ head' = (head + 1) % BufferSize
  /\ count' = count - 1
  /\ UNCHANGED <<buffer, tail, shift, size, presses>>

Next ==
  \/ \E code \in Codes, released \in BOOLEAN : HandleScancode(code, released)
  \/ \E r \in Readers : Pop(r) \/ \E n \in Sizes : BeginRead(r, n)

Spec == Init /\ [][Next]_vars

(***************************************************************************)
(* A reader spins through schedule(), so the round robin of Program keeps  *)
(* giving it the CPU; nothing makes anyone type or call read().            *)
(***************************************************************************)
FairSpec == Spec /\ \A r \in Readers : WF_vars(Pop(r))

-----------------------------------------------------------------------------
(***************************************************************************)
(* Type correctness; n never leaves 0 .. size, so buf is not overrun, and  *)
(* count never leaves the buffer.                                          *)
(***************************************************************************)
TypeOK ==
  /\ buffer \in [0 .. BufferSize - 1 -> Chars \cup {NoChar}]
  /\ head \in 0 .. BufferSize - 1
  /\ tail \in 0 .. BufferSize - 1
  /\ count \in 0 .. BufferSize
  /\ shift \in BOOLEAN
  /\ reading \in SUBSET Readers
  /\ size \in [Readers -> Sizes]
  /\ line \in [Readers -> Seq(Chars)]
  /\ got \in [Readers -> Seq(Chars)]
  /\ presses \in 0 .. MaxPresses
  /\ \A r \in Readers : Len(line[r]) <= size[r]

(***************************************************************************)
(* The characters in the ring, oldest first.                               *)
(***************************************************************************)
Queue == [i \in 1 .. count |-> buffer[(head + i - 1) % BufferSize]]

(***************************************************************************)
(* The ring buffer is the queue of KeyQueue: whatever the interleaving of  *)
(* interrupts and readers, characters are neither lost once accepted, nor  *)
(* duplicated, nor reordered.                                              *)
(***************************************************************************)
KQ == INSTANCE KeyQueue WITH queue <- Queue, Capacity <- BufferSize
ImplementsQueue == KQ!Spec

(***************************************************************************)
(* The line a reader has is what its popped characters leave when every    *)
(* backspace takes back the last character still standing: position i      *)
(* survives unless the backspaces after it outnumber the other characters  *)
(* on some stretch that starts right behind it.                            *)
(***************************************************************************)
Backspaces(s, i, j) == {k \in i .. j : s[k] = Backspace}

Survivors(s) ==
  {i \in DOMAIN s :
     /\ s[i] # Backspace
     /\ \A j \in i + 1 .. Len(s) :
          2 * Cardinality(Backspaces(s, i + 1, j)) <= j - i}

LineEdited ==
  \A r \in Readers :
    LET S == Survivors(got[r])
    IN  /\ Len(line[r]) = Cardinality(S)
        /\ \A i \in S :
             line[r][Cardinality({k \in S : k <= i})] = got[r][i]

(***************************************************************************)
(* A reader never spins for ever on a buffer that has characters: the      *)
(* buffer drains, or every reader returns.                                 *)
(***************************************************************************)
ReadersServed == count > 0 /\ reading # {} ~> count = 0 \/ reading = {}
=============================================================================
