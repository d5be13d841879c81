--------------------------- MODULE KeyboardProofs ---------------------------
(***************************************************************************)
(* Proofs about Keyboard for every buffer size, every set of readers and   *)
(* every number of keystrokes: type correctness (so no overrun of the ring *)
(* or of a reader's buf), and that the ring buffer implements KeyQueue.    *)
(***************************************************************************)
EXTENDS Keyboard, Counting, SequenceTheorems, TLAPS

USE BufferSizeAssumption, SizesAssumption, MaxPressesAssumption

-----------------------------------------------------------------------------
(***************************************************************************)
(* An index that has run at most once past the end wraps by subtraction.   *)
(***************************************************************************)
LEMMA ModFacts ==
  ASSUME NEW N \in Nat \ {0}, NEW x \in Nat, x < 2 * N
  PROVE  x % N = IF x < N THEN x ELSE x - N
  <1>1. x < N => x % N = x
    BY SMT
  <1>2. x >= N => x % N = x - N
    BY SMT
  <1> QED BY <1>1, <1>2

(***************************************************************************)
(* The slot of the ring that lies i places behind slot h.                  *)
(***************************************************************************)
Slot(h, i) == (h + i) % BufferSize

LEMMA SlotFacts ==
  ASSUME NEW h \in 0 .. BufferSize - 1, NEW i \in 0 .. BufferSize
  PROVE  /\ Slot(h, i) = IF h + i < BufferSize THEN h + i
                         ELSE h + i - BufferSize
         /\ Slot(h, i) \in 0 .. BufferSize - 1
  <1> DEFINE x == h + i
  <1>1. x \in Nat /\ x < 2 * BufferSize
    OBVIOUS
  <1> HIDE DEF x
  <1>2. x % BufferSize = IF x < BufferSize THEN x ELSE x - BufferSize
    BY <1>1, ModFacts
  <1>3. Slot(h, i) = IF h + i < BufferSize THEN h + i ELSE h + i - BufferSize
    BY <1>2 DEF x, Slot
  <1> QED BY <1>3

(***************************************************************************)
(* Append and Tail as functions.                                           *)
(***************************************************************************)
LEMMA AppendIs ==
  ASSUME NEW S, NEW q \in Seq(S), NEW e \in S
  PROVE  Append(q, e)
           = [i \in 1 .. Len(q) + 1 |-> IF i <= Len(q) THEN q[i] ELSE e]
  <1> DEFINE t == Append(q, e)
  <1>1. /\ t \in Seq(S) /\ Len(t) = Len(q) + 1 /\ Len(q) \in Nat
        /\ t[Len(q) + 1] = e
        /\ \A i \in 1 .. Len(q) : t[i] = q[i]
    OBVIOUS
  <1> HIDE DEF t
  <1>2. t = [i \in 1 .. Len(q) + 1 |-> t[i]]
    BY <1>1
  <1>3. \A i \in 1 .. Len(q) + 1 : t[i] = IF i <= Len(q) THEN q[i] ELSE e
    BY <1>1
  <1> QED BY <1>2, <1>3 DEF t

LEMMA TailIs ==
  ASSUME NEW S, NEW q \in Seq(S), q # <<>>
  PROVE  Tail(q) = [i \in 1 .. Len(q) - 1 |-> q[i + 1]]
  <1> DEFINE t == Tail(q)
  <1>1. Len(q) \in Nat \ {0}
    OBVIOUS
  <1>2. /\ t \in Seq(S) /\ Len(t) = Len(q) - 1
        /\ \A i \in 1 .. Len(q) - 1 : t[i] = q[i + 1]
    BY <1>1
  <1> HIDE DEF t
  <1>3. t = [i \in 1 .. Len(q) - 1 |-> t[i]]
    BY <1>1, <1>2
  <1> QED BY <1>2, <1>3 DEF t

-----------------------------------------------------------------------------
(***************************************************************************)
(* The inductive invariant: tail lies count places behind head, every slot *)
(* between them holds a character, and a reader inside read() still has    *)
(* room in its line.                                                       *)
(***************************************************************************)
RingInv ==
  /\ tail = Slot(head, count)
  /\ \A i \in 0 .. count - 1 : buffer[Slot(head, i)] \in Chars

RoomInv == \A r \in reading : Len(line[r]) < size[r]

Inv == TypeOK /\ RingInv /\ RoomInv

LEMMA InitInv == Init => Inv
  <1> SUFFICES ASSUME Init PROVE Inv
    OBVIOUS
  <1>1. TypeOK
    <2>1. \A r \in Readers : size[r] \in Nat /\ line[r] = <<>>
      BY DEF Init
    <2>2. \A r \in Readers : Len(line[r]) <= size[r]
      BY <2>1
    <2>3. /\ line \in [Readers -> Seq(Chars)]
          /\ got \in [Readers -> Seq(Chars)]
      BY DEF Init
    <2>4. buffer \in [0 .. BufferSize - 1 -> Chars \cup {NoChar}]
      BY DEF Init
    <2> QED BY <2>2, <2>3, <2>4 DEF Init, TypeOK
  <1>2. RingInv
    <2>1. Slot(0, 0) = 0
      BY SlotFacts
    <2> QED BY <2>1 DEF Init, RingInv
  <1>3. RoomInv
    BY DEF Init, RoomInv
  <1> QED BY <1>1, <1>2, <1>3 DEF Inv

(***************************************************************************)
(* push() into a ring that has room.                                       *)
(***************************************************************************)
LEMMA PushFacts ==
  ASSUME TypeOK, RingInv, NEW c \in Chars, Push(c), UNCHANGED head
  PROVE  /\ buffer' \in [0 .. BufferSize - 1 -> Chars \cup {NoChar}]
         /\ tail' \in 0 .. BufferSize - 1
         /\ count' \in 0 .. BufferSize
         /\ RingInv'
         /\ UNCHANGED <<buffer, count>> \/ Queue' = Append(Queue, c)
  <1>1. CASE count >= BufferSize
    BY <1>1 DEF TypeOK, RingInv, Push
  <1>2. CASE ~ (count >= BufferSize)
    <2>1. /\ buffer' = [buffer EXCEPT ![tail] = c]
          /\ tail' = Slot(tail, 1)
          /\ count' = count + 1
          /\ head' = head
      BY <1>2 DEF Push, Slot
    <2>2. /\ count \in 0 .. BufferSize - 1
          /\ count \in 0 .. BufferSize
          /\ head \in 0 .. BufferSize - 1
          /\ tail \in 0 .. BufferSize - 1
          /\ buffer \in [0 .. BufferSize - 1 -> Chars \cup {NoChar}]
      BY <1>2 DEF TypeOK
    <2>3. tail' = Slot(head, count + 1)
      <3>1. Slot(head, count) = IF head + count < BufferSize
                                THEN head + count
                                ELSE head + count - BufferSize
        BY <2>2, SlotFacts
      <3>2. Slot(head, count + 1) = IF head + (count + 1) < BufferSize
                                    THEN head + (count + 1)
                                    ELSE head + (count + 1) - BufferSize
        <4>1. count + 1 \in 0 .. BufferSize
          BY <2>2
        <4> QED BY <2>2, <4>1, SlotFacts
      <3>3. Slot(tail, 1) = IF tail + 1 < BufferSize THEN tail + 1
                            ELSE tail + 1 - BufferSize
        <4>1. 1 \in 0 .. BufferSize
          OBVIOUS
        <4> QED BY <2>2, <4>1, SlotFacts
      <3> QED BY <2>1, <2>2, <3>1, <3>2, <3>3 DEF RingInv
    <2>4. \A i \in 0 .. count - 1 : /\ Slot(head, i) \in 0 .. BufferSize - 1
                                    /\ Slot(head, i) # tail
      <3> SUFFICES ASSUME NEW i \in 0 .. count - 1
                   PROVE  /\ Slot(head, i) \in 0 .. BufferSize - 1
                          /\ Slot(head, i) # tail
        OBVIOUS
      <3>0. i \in 0 .. BufferSize
        BY <2>2
      <3>1. /\ Slot(head, i) \in 0 .. BufferSize - 1
            /\ Slot(head, i) = IF head + i < BufferSize THEN head + i
                               ELSE head + i - BufferSize
        BY <2>2, <3>0, SlotFacts
      <3>2. Slot(head, count) = IF head + count < BufferSize
                                THEN head + count
                                ELSE head + count - BufferSize
        BY <2>2, SlotFacts
      <3> QED BY <2>2, <3>1, <3>2 DEF RingInv
    <2>5. /\ \A i \in 0 .. count - 1 :
               buffer'[Slot(head, i)] = buffer[Slot(head, i)]
          /\ buffer'[Slot(head, count)] = c
      BY <2>1, <2>2, <2>4 DEF RingInv
    <2>6. RingInv'
      BY <2>1, <2>2, <2>3, <2>5 DEF RingInv
    <2>7. Queue' = Append(Queue, c)
      <3>1. Queue = [i \in 1 .. count |-> buffer[Slot(head, i - 1)]]
        BY <2>2 DEF Queue, Slot
      <3>2. Queue' = [i \in 1 .. count + 1 |-> buffer'[Slot(head, i - 1)]]
        BY <2>1, <2>2 DEF Queue, Slot
      <3>3. \A i \in 1 .. count : Slot(head, i - 1) \in 0 .. BufferSize - 1
                                  /\ buffer'[Slot(head, i - 1)]
                                       = buffer[Slot(head, i - 1)]
        BY <2>2, <2>4, <2>5
      <3>4. Queue \in Seq(Chars \cup {NoChar}) /\ Len(Queue) = count
        BY <2>2, <3>1, <3>3
      <3>5. Append(Queue, c)
              = [i \in 1 .. count + 1 |-> IF i <= count THEN Queue[i] ELSE c]
        BY <3>4, AppendIs
      <3>6. \A i \in 1 .. count + 1 :
              buffer'[Slot(head, i - 1)] = IF i <= count THEN Queue[i] ELSE c
        <4> SUFFICES ASSUME NEW i \in 1 .. count + 1
                     PROVE  buffer'[Slot(head, i - 1)]
                              = IF i <= count THEN Queue[i] ELSE c
          OBVIOUS
        <4>1. CASE i <= count
          BY <2>2, <3>1, <3>3, <4>1
        <4>2. CASE i = count + 1
          <5>1. i - 1 = count
            BY <2>2, <4>2
          <5> QED BY <2>2, <2>5, <4>2, <5>1
        <4> QED BY <2>2, <4>1, <4>2
      <3> QED BY <3>2, <3>5, <3>6
    <2> QED BY <2>1, <2>2, <2>3, <2>6, <2>7, SlotFacts DEF RingInv
  <1> QED BY <1>1, <1>2

(***************************************************************************)
(* pop() from a ring that has a character.                                 *)
(***************************************************************************)
LEMMA PopFacts ==
  ASSUME TypeOK, RingInv, count > 0,
         head' = (head + 1) % BufferSize, count' = count - 1,
         UNCHANGED <<buffer, tail>>
  PROVE  /\ head' \in 0 .. BufferSize - 1
         /\ count' \in 0 .. BufferSize
         /\ RingInv'
         /\ buffer[head] \in Chars
         /\ Queue # <<>> /\ Head(Queue) = buffer[head]
         /\ Queue' = Tail(Queue)
  <1>1. /\ count \in 1 .. BufferSize
        /\ count \in 0 .. BufferSize
        /\ count - 1 \in 0 .. BufferSize
        /\ 1 \in 0 .. BufferSize
        /\ 0 \in 0 .. BufferSize
        /\ head \in 0 .. BufferSize - 1
        /\ buffer \in [0 .. BufferSize - 1 -> Chars \cup {NoChar}]
    BY DEF TypeOK
  <1>2. head' = Slot(head, 1) /\ Slot(head, 1) \in 0 .. BufferSize - 1
    BY <1>1, SlotFacts DEF Slot
  <1>3. \A i \in 0 .. BufferSize - 1 : Slot(head', i) = Slot(head, i + 1)
    <2> SUFFICES ASSUME NEW i \in 0 .. BufferSize - 1
                 PROVE  Slot(head', i) = Slot(head, i + 1)
      OBVIOUS
    <2>1. i \in 0 .. BufferSize /\ i + 1 \in 0 .. BufferSize
      OBVIOUS
    <2>2. Slot(head', i) = IF head' + i < BufferSize THEN head' + i
                           ELSE head' + i - BufferSize
      BY <1>2, <2>1, SlotFacts
    <2>3. Slot(head, i + 1) = IF head + (i + 1) < BufferSize
                              THEN head + (i + 1)
                              ELSE head + (i + 1) - BufferSize
      BY <1>1, <2>1, SlotFacts
    <2>4. Slot(head, 1) = IF head + 1 < BufferSize THEN head + 1
                          ELSE head + 1 - BufferSize
      BY <1>1, SlotFacts
    <2> QED BY <1>1, <1>2, <2>2, <2>3, <2>4
  <1>4. Slot(head, 0) = head
    BY <1>1, SlotFacts
  <1>5. buffer[head] \in Chars
    BY <1>1, <1>4 DEF RingInv
  <1>6. RingInv'
    <2>1. count - 1 \in 0 .. BufferSize - 1 /\ (count - 1) + 1 = count
      BY <1>1
    <2>2. tail' = Slot(head', count')
      BY <1>3, <2>1 DEF RingInv
    <2>3. ASSUME NEW i \in 0 .. count' - 1
          PROVE  buffer'[Slot(head', i)] \in Chars
      <3>1. i \in 0 .. BufferSize - 1 /\ i + 1 \in 0 .. count - 1
        BY <1>1
      <3>2. Slot(head', i) = Slot(head, i + 1)
        BY <1>3, <3>1
      <3> QED BY <3>1, <3>2 DEF RingInv
    <2> QED BY <2>2, <2>3 DEF RingInv, Slot
  <1>7. /\ Queue = [i \in 1 .. count |-> buffer[Slot(head, i - 1)]]
        /\ Queue' = [i \in 1 .. count - 1 |-> buffer[Slot(head', i - 1)]]
    BY <1>1 DEF Queue, Slot
  <1>8. /\ Queue \in Seq(Chars \cup {NoChar}) /\ Len(Queue) = count
        /\ Queue # <<>> /\ Head(Queue) = buffer[head]
    <2>1. \A i \in 1 .. count : Slot(head, i - 1) \in 0 .. BufferSize - 1
      <3> SUFFICES ASSUME NEW i \in 1 .. count
                   PROVE  Slot(head, i - 1) \in 0 .. BufferSize - 1
        OBVIOUS
      <3>1. i - 1 \in 0 .. BufferSize
        BY <1>1
      <3> QED BY <1>1, <3>1, SlotFacts
    <2>2. Queue \in Seq(Chars \cup {NoChar}) /\ Len(Queue) = count
      BY <1>1, <1>7, <2>1
    <2>3. Queue[1] = buffer[Slot(head, 0)]
      BY <1>1, <1>7
    <2> QED BY <1>1, <1>4, <2>2, <2>3
  <1>9. Queue' = Tail(Queue)
    <2>1. Tail(Queue) = [i \in 1 .. count - 1 |-> Queue[i + 1]]
      BY <1>8, TailIs
    <2>2. \A i \in 1 .. count - 1 :
            Queue[i + 1] = buffer[Slot(head', i - 1)]
      <3> SUFFICES ASSUME NEW i \in 1 .. count - 1
                   PROVE  Queue[i + 1] = buffer[Slot(head', i - 1)]
        OBVIOUS
      <3>1. /\ i - 1 \in 0 .. BufferSize - 1 /\ (i - 1) + 1 = i
            /\ i + 1 \in 1 .. count /\ (i + 1) - 1 = i
        BY <1>1
      <3>2. Slot(head', i - 1) = Slot(head, i)
        BY <1>3, <3>1
      <3>3. Queue[i + 1] = buffer[Slot(head, i)]
        BY <1>7, <3>1
      <3> QED BY <3>2, <3>3
    <2> QED BY <1>7, <2>1, <2>2
  <1> QED BY <1>1, <1>2, <1>5, <1>6, <1>8, <1>9

(***************************************************************************)
(* A reader's line stays a line of characters, at most one longer.         *)
(***************************************************************************)
LEMMA EditFacts ==
  ASSUME NEW s \in Seq(Chars), NEW c \in Chars
  PROVE  /\ EditLine(s, c) \in Seq(Chars)
         /\ Len(EditLine(s, c)) \in Nat
         /\ Len(EditLine(s, c)) <= Len(s) + 1
  <1>1. CASE c # Backspace
    BY <1>1 DEF EditLine
  <1>2. CASE c = Backspace /\ s = <<>>
    BY <1>2 DEF EditLine
  <1>3. CASE c = Backspace /\ s # <<>>
    <2>1. Len(s) \in Nat \ {0}
      BY <1>3
    <2>2. 1 \in Int /\ Len(s) - 1 \in Int
          /\ \A i \in 1 .. Len(s) - 1 : s[i] \in Chars
      BY <2>1
    <2>3. /\ SubSeq(s, 1, Len(s) - 1) \in Seq(Chars)
          /\ Len(SubSeq(s, 1, Len(s) - 1))
               = IF 1 <= Len(s) - 1 THEN (Len(s) - 1) - 1 + 1 ELSE 0
      <3> DEFINE m == Len(s) - 1
      <3>1. m \in Int /\ 1 \in Int /\ \A i \in 1 .. m : s[i] \in Chars
        BY <2>2
      <3> HIDE DEF m
      <3>2. /\ SubSeq(s, 1, m) \in Seq(Chars)
            /\ Len(SubSeq(s, 1, m)) = IF 1 <= m THEN m - 1 + 1 ELSE 0
        BY <3>1, SubSeqProperties
      <3> QED BY <3>2 DEF m
    <2> QED BY <1>3, <2>1, <2>3 DEF EditLine
  <1> QED BY <1>1, <1>2, <1>3

-----------------------------------------------------------------------------
LEMMA NextInv ==
  ASSUME Inv, [Next]_vars
  PROVE  Inv'
  <1> USE DEF Inv
  <1>1. CASE UNCHANGED vars
    BY <1>1 DEF vars, TypeOK, RingInv, RoomInv, Slot
  <1>2. ASSUME NEW code \in Codes, NEW released \in BOOLEAN,
               HandleScancode(code, released)
        PROVE  Inv'
    <2>0. shift' \in BOOLEAN
      BY <1>2, Zenon DEF HandleScancode, TypeOK
    <2>1. /\ UNCHANGED <<head, reading, size, line, got>>
          /\ presses' \in 0 .. MaxPresses
      BY <1>2 DEF HandleScancode, TypeOK
    <2>2. CASE UNCHANGED <<buffer, tail, count>>
      BY <2>0, <2>1, <2>2 DEF TypeOK, RingInv, RoomInv, Slot
    <2>3. CASE ~ UNCHANGED <<buffer, tail, count>>
      <3>1. Push(Decode(code)) /\ code # "shift" /\ Decode(code) # NoChar
        BY <1>2, <2>3 DEF HandleScancode
      <3>2. Decode(code) \in Chars
        BY <3>1 DEF Decode, Keymap, ShiftKeymap, Codes, Chars, NoChar
      <3>3. /\ buffer' \in [0 .. BufferSize - 1 -> Chars \cup {NoChar}]
            /\ tail' \in 0 .. BufferSize - 1
            /\ count' \in 0 .. BufferSize
            /\ RingInv'
        BY <2>1, <3>1, <3>2, PushFacts
      <3> QED BY <2>0, <2>1, <3>3 DEF TypeOK, RoomInv
    <2> QED BY <2>2, <2>3
  <1>3. ASSUME NEW r \in Readers, NEW n \in Sizes, BeginRead(r, n)
        PROVE  Inv'
    <2>1. n \in Nat /\ n > 0
      OBVIOUS
    <2>2. RingInv'
      BY <1>3 DEF BeginRead, RingInv, Slot
    <2>3. /\ size' \in [Readers -> Sizes]
          /\ line' \in [Readers -> Seq(Chars)]
          /\ got' \in [Readers -> Seq(Chars)]
          /\ reading' \in SUBSET Readers
      BY <1>3 DEF BeginRead, TypeOK
    <2>4. \A q \in Readers : IF q = r THEN size'[q] = n /\ line'[q] = <<>>
                             ELSE size'[q] = size[q] /\ line'[q] = line[q]
      BY <1>3 DEF BeginRead, TypeOK
    <2>5. Len(<<>>) = 0
      OBVIOUS
    <2>6. \A q \in Readers : Len(line'[q]) <= size'[q]
      BY <2>1, <2>4, <2>5 DEF TypeOK
    <2>7. \A q \in reading' : Len(line'[q]) < size'[q]
      BY <1>3, <2>1, <2>3, <2>4, <2>5 DEF RoomInv, BeginRead
    <2> QED BY <1>3, <2>2, <2>3, <2>6, <2>7 DEF TypeOK, RoomInv, BeginRead
  <1>4. ASSUME NEW r \in Readers, Pop(r)
        PROVE  Inv'
    <2> DEFINE c == buffer[head]
    <2>1. /\ head' \in 0 .. BufferSize - 1
          /\ count' \in 0 .. BufferSize
          /\ RingInv'
          /\ c \in Chars
      BY <1>4, PopFacts DEF Pop, CanPop
    <2>2. /\ r \in reading
          /\ line' = [line EXCEPT ![r] = EditLine(@, c)]
          /\ got' = [got EXCEPT ![r] = Append(@, c)]
          /\ reading' = IF LineComplete(r, c) THEN reading \ {r} ELSE reading
          /\ UNCHANGED <<buffer, tail, shift, size, presses>>
      BY <1>4 DEF Pop
    <2> HIDE DEF c
    <2>3. /\ line[r] \in Seq(Chars) /\ Len(line[r]) \in Nat
          /\ got[r] \in Seq(Chars)
          /\ size[r] \in Nat
          /\ Len(line[r]) < size[r]
      <3>1. line[r] \in Seq(Chars) /\ got[r] \in Seq(Chars) /\ size[r] \in Sizes
        BY DEF TypeOK
      <3>2. Len(line[r]) \in Nat
        BY <3>1
      <3> QED BY <2>2, <3>1, <3>2 DEF RoomInv
    <2>4. /\ EditLine(line[r], c) \in Seq(Chars)
          /\ Len(EditLine(line[r], c)) \in Nat
          /\ Len(EditLine(line[r], c)) <= Len(line[r]) + 1
      BY <2>1, <2>3, EditFacts
    <2>5. /\ line' \in [Readers -> Seq(Chars)]
          /\ line'[r] = EditLine(line[r], c)
          /\ \A q \in Readers \ {r} : line'[q] = line[q]
      BY <2>2, <2>4 DEF TypeOK
    <2>6. Append(got[r], c) \in Seq(Chars)
      BY <2>1, <2>3
    <2>7. got' \in [Readers -> Seq(Chars)]
      BY <2>2, <2>6 DEF TypeOK
    <2>8. \A q \in Readers : Len(line'[q]) <= size'[q]
      <3>1. Len(line'[r]) <= size'[r]
        BY <2>2, <2>3, <2>4, <2>5
      <3> QED BY <2>2, <2>5, <3>1 DEF TypeOK
    <2>9. RoomInv'
      <3>1. r \in reading' => Len(line'[r]) # size[r]
        BY <2>2 DEF LineComplete
      <3>2. r \in reading' => Len(line'[r]) < size'[r]
        BY <2>2, <2>3, <2>4, <2>5, <3>1
      <3>3. \A q \in reading' \ {r} : Len(line'[q]) < size'[q]
        BY <2>2, <2>5 DEF RoomInv, TypeOK
      <3> QED BY <3>2, <3>3 DEF RoomInv
    <2> QED BY <2>1, <2>2, <2>5, <2>7, <2>8, <2>9 DEF TypeOK
  <1> QED BY <1>1, <1>2, <1>3, <1>4 DEF Next

(***************************************************************************)
(* Type correctness, and with it the bounds: the ring's indices stay in    *)
(* the buffer and no reader's line outgrows the buf it passed to read().   *)
(***************************************************************************)
THEOREM KeyboardTypes == Spec => []TypeOK
  <1>1. Init => Inv
    BY InitInv
  <1>2. Inv /\ [Next]_vars => Inv'
    BY NextInv
  <1>3. Inv => TypeOK
    BY DEF Inv
  <1> QED BY <1>1, <1>2, <1>3, PTL DEF Spec

(***************************************************************************)
(* The ring buffer with its interrupt handler and its readers implements   *)
(* the bounded queue: nothing accepted is lost, duplicated or reordered.   *)
(***************************************************************************)
THEOREM KeyboardIsQueue == Spec => ImplementsQueue
  <1>1. Init => KQ!Init
    BY DEF Init, KQ!Init, Queue
  <1>2. Inv /\ [Next]_vars => [KQ!Next]_KQ!vars
    <2> SUFFICES ASSUME Inv, [Next]_vars PROVE [KQ!Next]_KQ!vars
      OBVIOUS
    <2> USE DEF Inv
    <2>1. CASE UNCHANGED vars
      BY <2>1 DEF vars, KQ!vars, Queue
    <2>2. ASSUME NEW code \in Codes, NEW released \in BOOLEAN,
                 HandleScancode(code, released)
          PROVE  [KQ!Next]_KQ!vars
      <3>1. UNCHANGED <<head, got>>
        BY <2>2 DEF HandleScancode
      <3>2. CASE UNCHANGED <<buffer, tail, count>>
        BY <3>1, <3>2 DEF KQ!vars, Queue
      <3>3. CASE ~ UNCHANGED <<buffer, tail, count>>
        <4>1. Push(Decode(code)) /\ code # "shift" /\ Decode(code) # NoChar
          BY <2>2, <3>3 DEF HandleScancode
        <4>2. Decode(code) \in Chars
          BY <4>1 DEF Decode, Keymap, ShiftKeymap, Codes, Chars, NoChar
        <4>3. count < BufferSize
          BY <3>3, <4>1 DEF Push, TypeOK
        <4>4. count' = count + 1
          BY <4>1, <4>3 DEF Push, TypeOK
        <4>5. Queue' = Append(Queue, Decode(code))
          BY <3>1, <4>1, <4>2, <4>4, PushFacts DEF TypeOK
        <4>6. Len(Queue) = count
          BY DEF Queue, TypeOK
        <4>7. KQ!Type(Decode(code))
          BY <3>1, <4>3, <4>5, <4>6 DEF KQ!Type
        <4> QED BY <4>2, <4>7 DEF KQ!Next
      <3> QED BY <3>2, <3>3
    <2>3. ASSUME NEW r \in Readers, NEW n \in Sizes, BeginRead(r, n)
          PROVE  [KQ!Next]_KQ!vars
      <3>1. KQ!Begin(r)
        BY <2>3 DEF BeginRead, KQ!Begin, Queue
      <3> QED BY <3>1 DEF KQ!Next
    <2>4. ASSUME NEW r \in Readers, Pop(r)
          PROVE  [KQ!Next]_KQ!vars
      <3>1. /\ Queue # <<>> /\ Head(Queue) = buffer[head]
            /\ Queue' = Tail(Queue)
        BY <2>4, PopFacts DEF Pop, CanPop
      <3>2. got' = [got EXCEPT ![r] = Append(@, Head(Queue))]
        BY <2>4, <3>1 DEF Pop
      <3>3. KQ!Take(r)
        BY <3>1, <3>2 DEF KQ!Take
      <3> QED BY <3>3 DEF KQ!Next
    <2> QED BY <2>1, <2>2, <2>3, <2>4 DEF Next
  <1>3. Init => Inv
    BY InitInv
  <1>4. Inv /\ [Next]_vars => Inv'
    BY NextInv
  <1> QED BY <1>1, <1>2, <1>3, <1>4, PTL DEF Spec, ImplementsQueue, KQ!Spec
-----------------------------------------------------------------------------
(***************************************************************************)
(* The backspaces in a stretch of s can be counted.                        *)
(***************************************************************************)
LEMMA BackspacesFacts ==
  ASSUME NEW s, NEW i \in Int, NEW j \in Int
  PROVE  /\ IsFiniteSet(Backspaces(s, i, j))
         /\ Cardinality(Backspaces(s, i, j)) \in Nat
         /\ i > j => Cardinality(Backspaces(s, i, j)) = 0
  <1>1. Backspaces(s, i, j) \in SUBSET (i .. j)
    BY DEF Backspaces
  <1>2. IsFiniteSet(i .. j)
    BY FS_Interval
  <1>3. IsFiniteSet(Backspaces(s, i, j))
    BY <1>1, <1>2, FS_Subset
  <1>4. i > j => Backspaces(s, i, j) = {}
    BY DEF Backspaces
  <1> QED BY <1>3, <1>4, FS_CardinalityType, FS_EmptySet

LEMMA SurvivorsFacts ==
  ASSUME NEW s \in Seq(Chars)
  PROVE  /\ Survivors(s) \subseteq 1 .. Len(s)
         /\ Survivors(s) \subseteq Int
         /\ IsFiniteSet(Survivors(s))
         /\ Cardinality(Survivors(s)) \in Nat
  <1>1. Len(s) \in Nat /\ DOMAIN s = 1 .. Len(s)
    OBVIOUS
  <1>2. Survivors(s) \in SUBSET (1 .. Len(s))
    BY <1>1 DEF Survivors
  <1>3. IsFiniteSet(1 .. Len(s))
    BY <1>1, FS_Interval
  <1>4. IsFiniteSet(Survivors(s))
    BY <1>2, <1>3, FS_Subset
  <1>5. Survivors(s) \subseteq Int
    BY <1>1, <1>2
  <1> QED BY <1>2, <1>4, <1>5, FS_CardinalityType

(***************************************************************************)
(* What one more character does to the count of backspaces from i on.      *)
(***************************************************************************)
LEMMA AppendBackspaces ==
  ASSUME NEW s \in Seq(Chars), NEW c \in Chars, NEW i \in 1 .. Len(s) + 1
  PROVE  /\ \A j \in i - 1 .. Len(s) :
              Backspaces(Append(s, c), i, j) = Backspaces(s, i, j)
         /\ Cardinality(Backspaces(Append(s, c), i, Len(s) + 1))
              = Cardinality(Backspaces(s, i, Len(s)))
                  + (IF c = Backspace THEN 1 ELSE 0)
  <1>1. PICK t, n : t = Append(s, c) /\ n = Len(s)
    OBVIOUS
  <1>2. /\ n \in Nat
        /\ \A k \in 1 .. n : t[k] = s[k]
        /\ t[n + 1] = c
        /\ i \in 1 .. n + 1
    BY <1>1, AppendProperties
  <1>3. \A j \in i - 1 .. n : Backspaces(t, i, j) = Backspaces(s, i, j)
    <2> SUFFICES ASSUME NEW j \in i - 1 .. n
                 PROVE  Backspaces(t, i, j) = Backspaces(s, i, j)
      OBVIOUS
    <2>1. \A k \in i .. j : t[k] = s[k]
      BY <1>2
    <2> QED BY <2>1 DEF Backspaces
  <1> DEFINE A == Backspaces(s, i, n)
             B == Backspaces(t, i, n + 1)
  <1>4. /\ IsFiniteSet(A) /\ Cardinality(A) \in Nat
    BY <1>2, BackspacesFacts
  <1>5. n + 1 \notin A
    BY <1>2 DEF Backspaces
  <1>6. \A k \in i .. n + 1 : k = n + 1 \/ k \in i .. n
    BY <1>2
  <1>7. \A k \in i .. n : k \in i .. n + 1 /\ t[k] = s[k] /\ k # n + 1
    BY <1>2
  <1>8. n + 1 \in i .. n + 1
    BY <1>2
  <1>9. B = IF c = Backspace THEN A \cup {n + 1} ELSE A
    <2>1. \A k : k \in A <=> k \in i .. n /\ s[k] = Backspace
      BY DEF Backspaces
    <2>2. \A k : k \in B <=> k \in i .. n + 1 /\ t[k] = Backspace
      BY DEF Backspaces
    <2> HIDE DEF A, B
    <2> QED BY <1>2, <1>6, <1>7, <1>8, <2>1, <2>2
  <1> HIDE DEF A, B
  <1>10. Cardinality(B) = Cardinality(A) + (IF c = Backspace THEN 1 ELSE 0)
    <2>1. Cardinality(A \cup {n + 1}) = Cardinality(A) + 1
      BY <1>4, <1>5, FS_AddElement
    <2> QED BY <1>4, <1>9, <2>1
  <1> QED BY <1>1, <1>3, <1>10 DEF A, B

(***************************************************************************)
(* What one more character does to the survivors: it joins them unless it  *)
(* is a backspace, and the others have one more stretch to outlive.        *)
(***************************************************************************)
LEMMA AppendSurvivors ==
  ASSUME NEW s \in Seq(Chars), NEW c \in Chars
  PROVE  /\ Len(s) + 1 \in Survivors(Append(s, c)) <=> c # Backspace
         /\ \A i \in 1 .. Len(s) :
              i \in Survivors(Append(s, c)) <=>
                /\ i \in Survivors(s)
                /\ 2 * (Cardinality(Backspaces(s, i + 1, Len(s)))
                          + (IF c = Backspace THEN 1 ELSE 0)) <= (Len(s) + 1) - i
  <1>1. PICK t, n : t = Append(s, c) /\ n = Len(s)
    OBVIOUS
  <1>2. /\ n \in Nat /\ DOMAIN s = 1 .. n
        /\ \A k \in 1 .. n : t[k] = s[k]
        /\ t[n + 1] = c
        /\ t \in Seq(Chars) /\ Len(t) = n + 1
    BY <1>1, AppendProperties
  <1>3. DOMAIN t = 1 .. n + 1
    BY <1>2
  <1>4. n + 1 \in Survivors(t) <=> c # Backspace
    BY <1>2, <1>3 DEF Survivors
  <1>5. ASSUME NEW i \in 1 .. n
        PROVE  i \in Survivors(t) <=>
                 /\ i \in Survivors(s)
                 /\ 2 * (Cardinality(Backspaces(s, i + 1, n))
                           + (IF c = Backspace THEN 1 ELSE 0)) <= (n + 1) - i
    <2> DEFINE D(j) == Cardinality(Backspaces(t, i + 1, j))
               E(j) == Cardinality(Backspaces(s, i + 1, j))
    <2>1. i + 1 \in 1 .. n + 1 /\ (i + 1) - 1 = i /\ i \in 1 .. n + 1 /\ t[i] = s[i]
      BY <1>2
    <2>2. /\ \A j \in i .. n : Backspaces(t, i + 1, j) = Backspaces(s, i + 1, j)
          /\ D(n + 1) = E(n) + (IF c = Backspace THEN 1 ELSE 0)
      BY <1>1, <2>1, AppendBackspaces
    <2>3. i \in Survivors(s) <=>
            s[i] # Backspace /\ \A j \in i + 1 .. n : 2 * E(j) <= j - i
      BY <1>1, <1>2 DEF Survivors
    <2>4. i \in Survivors(t) <=>
            s[i] # Backspace /\ \A j \in i + 1 .. n + 1 : 2 * D(j) <= j - i
      BY <1>2, <1>3, <2>1 DEF Survivors
    <2>5. \A j \in Int : D(j) \in Nat /\ E(j) \in Nat
      BY BackspacesFacts
    <2>6. \A j \in i .. n : D(j) = E(j)
      BY <2>2
    <2> HIDE DEF D, E
    <2>7. i \in Survivors(t) <=>
            i \in Survivors(s)
              /\ 2 * (E(n) + (IF c = Backspace THEN 1 ELSE 0)) <= (n + 1) - i
      <3>1. PICK d : d = E(n) + (IF c = Backspace THEN 1 ELSE 0)
        OBVIOUS
      <3>2. D(n + 1) = d
        BY <2>2, <3>1
      <3>3. (\A j \in i + 1 .. n + 1 : 2 * D(j) <= j - i)
              <=> (\A j \in i + 1 .. n : 2 * D(j) <= j - i) /\ 2 * d <= (n + 1) - i
        BY <1>2, <3>2
      <3>4. (\A j \in i + 1 .. n : 2 * D(j) <= j - i)
              <=> (\A j \in i + 1 .. n : 2 * E(j) <= j - i)
        BY <1>2, <2>6
      <3>5. i \in Survivors(t) <=> i \in Survivors(s) /\ 2 * d <= (n + 1) - i
        BY <2>3, <2>4, <3>3, <3>4
      <3> QED BY <3>1, <3>5
    <2> QED BY <2>7 DEF E
  <1> QED BY <1>1, <1>4, <1>5
(***************************************************************************)
(* The survivors behind a survivor are the characters behind it less two   *)
(* for every backspace: the backspace itself and what it took back.  This  *)
(* is what makes LineEdited inductive: it tells which survivor the next    *)
(* backspace takes, the last one.                                          *)
(***************************************************************************)
Above(S, i) == {k \in S : k > i}

Balanced(s) ==
  \A i \in Survivors(s) :
    Cardinality(Above(Survivors(s), i))
      = Len(s) - i - 2 * Cardinality(Backspaces(s, i + 1, Len(s)))

UpTo(S, i) == {k \in S : k <= i}

Edited(l, s) ==
  /\ Len(l) = Cardinality(Survivors(s))
  /\ \A i \in Survivors(s) : l[Cardinality(UpTo(Survivors(s), i))] = s[i]

LEMMA UpToFacts ==
  ASSUME NEW S, S \subseteq Int, IsFiniteSet(S), NEW i \in Int
  PROVE  /\ IsFiniteSet(Above(S, i)) /\ Cardinality(Above(S, i)) \in Nat
         /\ IsFiniteSet(UpTo(S, i)) /\ Cardinality(UpTo(S, i)) \in Nat
         /\ Cardinality(UpTo(S, i)) <= Cardinality(S)
  <1>1. Above(S, i) \in SUBSET S /\ UpTo(S, i) \in SUBSET S
    BY DEF Above, UpTo
  <1>2. IsFiniteSet(Above(S, i))
    BY <1>1, FS_Subset
  <1>3. IsFiniteSet(UpTo(S, i)) /\ Cardinality(UpTo(S, i)) <= Cardinality(S)
    BY <1>1, FS_Subset
  <1> QED BY <1>2, <1>3, FS_CardinalityType

(***************************************************************************)
(* A character that is not a backspace: one more survivor, the last.       *)
(***************************************************************************)
LEMMA TypedStep ==
  ASSUME NEW s \in Seq(Chars), NEW l \in Seq(Chars), NEW c \in Chars,
         c # Backspace, Edited(l, s), Balanced(s)
  PROVE  Edited(Append(l, c), Append(s, c)) /\ Balanced(Append(s, c))
  <1>1. PICK t, n, S, T : /\ t = Append(s, c) /\ n = Len(s)
                          /\ S = Survivors(s) /\ T = Survivors(t)
    OBVIOUS
  <1>2. /\ n \in Nat /\ t \in Seq(Chars) /\ Len(t) = n + 1 /\ t[n + 1] = c
        /\ \A k \in 1 .. n : t[k] = s[k]
    BY <1>1, AppendProperties
  <1>3. /\ S \subseteq 1 .. n /\ S \subseteq Int /\ IsFiniteSet(S)
        /\ Cardinality(S) \in Nat
    BY <1>1, SurvivorsFacts
  <1>4. T \subseteq 1 .. n + 1
    BY <1>1, <1>2, SurvivorsFacts
  <1>5. /\ n + 1 \in T
        /\ \A i \in 1 .. n : i \in T <=>
             i \in S /\ 2 * (Cardinality(Backspaces(s, i + 1, n)) + 0) <= (n + 1) - i
    BY <1>1, AppendSurvivors
  <1>6. ASSUME NEW i \in S
        PROVE  2 * (Cardinality(Backspaces(s, i + 1, n)) + 0) <= (n + 1) - i
    <2>1. PICK b : b = Cardinality(Backspaces(s, i + 1, n))
      OBVIOUS
    <2>2. /\ i \in 1 .. n
          /\ b \in Nat
          /\ i + 1 > n => b = 0
      <3>1. i \in 1 .. n /\ i + 1 \in Int /\ n \in Int
        BY <1>2, <1>3
      <3> QED BY <2>1, <3>1, BackspacesFacts
    <2>3. i < n => 2 * b <= n - i
      <3>1. \A j \in i + 1 .. n : 2 * Cardinality(Backspaces(s, i + 1, j)) <= j - i
        BY <1>1 DEF Survivors
      <3> QED BY <1>2, <2>1, <2>2, <3>1
    <2> QED BY <1>2, <2>1, <2>2, <2>3
  <1>7. T = S \cup {n + 1}
    <2>1. \A i \in 1 .. n + 1 : i = n + 1 \/ i \in 1 .. n
      BY <1>2
    <2> QED BY <1>3, <1>4, <1>5, <1>6, <2>1
  <1>8. n + 1 \notin S
    BY <1>2, <1>3
  <1>9. Cardinality(T) = Cardinality(S) + 1
    BY <1>3, <1>7, <1>8, FS_AddElement
  <1>10. PICK m : m = Append(l, c)
    OBVIOUS
  <1>11. /\ Len(l) \in Nat /\ Len(m) = Len(l) + 1
         /\ \A k \in 1 .. Len(l) : m[k] = l[k]
         /\ m[Len(l) + 1] = c
    BY <1>10, AppendProperties
  <1>12. Len(l) = Cardinality(S)
    BY <1>1 DEF Edited
  <1>13. Edited(m, t)
    <2>1. ASSUME NEW i \in S PROVE m[Cardinality(UpTo(T, i))] = t[i]
      <3>1. UpTo(T, i) = UpTo(S, i)
        BY <1>2, <1>3, <1>7 DEF UpTo
      <3>2. PICK k : k = Cardinality(UpTo(S, i))
        OBVIOUS
      <3>3. k \in Nat /\ k <= Cardinality(S)
        BY <1>3, <3>2, UpToFacts
      <3>4. k # 0
        <4>1. i \in UpTo(S, i)
          BY <1>3 DEF UpTo
        <4>2. IsFiniteSet(UpTo(S, i))
          BY <1>3, UpToFacts
        <4> QED BY <3>2, <4>1, <4>2, FS_EmptySet
      <3>5. l[k] = s[i]
        BY <1>1, <3>2 DEF Edited
      <3>6. k \in 1 .. Len(l) /\ i \in 1 .. n
        BY <1>3, <1>12, <3>3, <3>4
      <3> QED BY <1>2, <1>11, <3>1, <3>2, <3>5, <3>6
    <2>2. m[Cardinality(UpTo(T, n + 1))] = t[n + 1]
      <3>1. UpTo(T, n + 1) = T
        <4>1. \A k \in T : k <= n + 1
          BY <1>2, <1>4
        <4> QED BY <4>1, Zenon DEF UpTo
      <3> QED BY <1>2, <1>9, <1>11, <1>12, <3>1
    <2>3. \A i \in T : m[Cardinality(UpTo(T, i))] = t[i]
      BY <1>7, <2>1, <2>2
    <2>4. Len(m) = Cardinality(T)
      BY <1>9, <1>11, <1>12
    <2> QED BY <1>1, <2>3, <2>4 DEF Edited
  <1>14. Balanced(t)
    <2>1. ASSUME NEW i \in S
          PROVE  Cardinality(Above(T, i))
                   = (n + 1) - i - 2 * Cardinality(Backspaces(t, i + 1, n + 1))
      <3>1. i \in 1 .. n /\ i + 1 \in 1 .. n + 1 /\ i \in Int /\ n + 1 > i
        BY <1>2, <1>3
      <3>2. Above(T, i) = Above(S, i) \cup {n + 1} /\ n + 1 \notin Above(S, i)
        BY <1>7, <1>8, <3>1 DEF Above
      <3>3. IsFiniteSet(Above(S, i)) /\ Cardinality(Above(S, i)) \in Nat
        BY <1>3, <3>1, UpToFacts
      <3>4. Cardinality(Above(T, i)) = Cardinality(Above(S, i)) + 1
        BY <3>2, <3>3, FS_AddElement
      <3>5. Cardinality(Backspaces(t, i + 1, n + 1))
              = Cardinality(Backspaces(s, i + 1, n)) + 0
        BY <1>1, <3>1, AppendBackspaces
      <3>6. Cardinality(Backspaces(s, i + 1, n)) \in Nat
        BY <1>2, <3>1, BackspacesFacts
      <3>7. Cardinality(Above(S, i))
              = n - i - 2 * Cardinality(Backspaces(s, i + 1, n))
        BY <1>1 DEF Balanced
      <3> QED BY <1>2, <3>1, <3>4, <3>5, <3>6, <3>7
    <2>2. Cardinality(Above(T, n + 1))
            = (n + 1) - (n + 1) - 2 * Cardinality(Backspaces(t, n + 1 + 1, n + 1))
      <3>1. Above(T, n + 1) = {}
        <4>1. \A k \in T : ~ (k > n + 1)
          BY <1>2, <1>4
        <4> QED BY <4>1, Zenon DEF Above
      <3>2. /\ n + 1 + 1 \in Int /\ n + 1 \in Int /\ n + 1 + 1 > n + 1
            /\ (n + 1) - (n + 1) = 0
        BY <1>2
      <3>3. Cardinality(Backspaces(t, n + 1 + 1, n + 1)) = 0
        BY <3>2, BackspacesFacts
      <3>4. Cardinality(Above(T, n + 1)) = 0
        BY <3>1, FS_EmptySet
      <3>5. 0 = 0 - 2 * 0
        OBVIOUS
      <3> QED BY <3>2, <3>3, <3>4, <3>5, Zenon
    <2>3. \A i \in T : Cardinality(Above(T, i))
                   = (n + 1) - i - 2 * Cardinality(Backspaces(t, i + 1, n + 1))
      BY <1>7, <2>1, <2>2
    <2> QED BY <1>1, <1>2, <2>3, Zenon DEF Balanced
  <1> QED BY <1>1, <1>10, <1>13, <1>14
(***************************************************************************)
(* A backspace: the last survivor goes, and nobody else.                   *)
(***************************************************************************)
LEMMA ErasedSurvivor ==
  ASSUME NEW s \in Seq(Chars), Balanced(s), NEW m \in Survivors(s),
         \A k \in Survivors(s) : k <= m
  PROVE  /\ Survivors(Append(s, Backspace)) = Survivors(s) \ {m}
         /\ Balanced(Append(s, Backspace))
  <1>0. PICK c : c = Backspace
    OBVIOUS
  <1>1. PICK t, n, S, T : /\ t = Append(s, c) /\ n = Len(s)
                          /\ S = Survivors(s) /\ T = Survivors(t)
    OBVIOUS
  <1>c. c \in Chars
    BY <1>0 DEF Chars
  <1>2. /\ n \in Nat /\ t \in Seq(Chars) /\ Len(t) = n + 1
        /\ m \in S /\ \A k \in S : k <= m
    BY <1>1, <1>c, AppendProperties
  <1>3. /\ S \subseteq 1 .. n /\ S \subseteq Int /\ IsFiniteSet(S)
    BY <1>1, SurvivorsFacts
  <1>4. T \subseteq 1 .. n + 1
    BY <1>1, <1>2, SurvivorsFacts
  <1>5. /\ n + 1 \notin T
        /\ \A i \in 1 .. n : i \in T <=>
             i \in S /\ 2 * (Cardinality(Backspaces(s, i + 1, n)) + 1) <= (n + 1) - i
    BY <1>0, <1>1, <1>c, AppendSurvivors
  <1>6. ASSUME NEW i \in S
        PROVE  /\ i \in 1 .. n /\ i \in Int
               /\ IsFiniteSet(Above(S, i))
               /\ Cardinality(Above(S, i)) \in Nat
               /\ Cardinality(Backspaces(s, i + 1, n)) \in Nat
               /\ Cardinality(Above(S, i))
                    = n - i - 2 * Cardinality(Backspaces(s, i + 1, n))
               /\ Cardinality(Above(S, i)) = 0 <=> i = m
    <2>1. i \in 1 .. n /\ i \in Int /\ i + 1 \in Int /\ n \in Int /\ m \in Int
      BY <1>2, <1>3
    <2>2. IsFiniteSet(Above(S, i)) /\ Cardinality(Above(S, i)) \in Nat
      BY <1>3, <2>1, UpToFacts
    <2>3. Cardinality(Above(S, i)) = 0 <=> Above(S, i) = {}
      BY <2>2, FS_EmptySet
    <2>4. Above(S, i) = {} <=> i = m
      <3>1. i # m => m > i
        BY <1>2, <2>1
      <3>2. i = m => \A k \in S : ~ (k > i)
        BY <1>2, <1>3, <2>1
      <3> QED BY <1>2, <3>1, <3>2, Zenon DEF Above
    <2>5. Cardinality(Above(S, i)) = n - i - 2 * Cardinality(Backspaces(s, i + 1, n))
      BY <1>1 DEF Balanced
    <2>6. Cardinality(Backspaces(s, i + 1, n)) \in Nat
      BY <2>1, BackspacesFacts
    <2> QED BY <2>1, <2>2, <2>3, <2>4, <2>5, <2>6
  <1>7. T = S \ {m}
    <2>1. ASSUME NEW i \in S PROVE i \in T <=> i # m
      <3>1. PICK a, b : /\ a = Cardinality(Above(S, i))
                        /\ b = Cardinality(Backspaces(s, i + 1, n))
        OBVIOUS
      <3>2. /\ i \in 1 .. n /\ a \in Nat /\ b \in Nat /\ a = n - i - 2 * b
            /\ a = 0 <=> i = m
        BY <1>6, <3>1
      <3>3. i \in T <=> 2 * (b + 1) <= (n + 1) - i
        BY <1>5, <3>1, <3>2
      <3> QED BY <1>2, <3>2, <3>3
    <2>2. \A i \in 1 .. n + 1 : i = n + 1 \/ i \in 1 .. n
      BY <1>2
    <2> QED BY <1>3, <1>4, <1>5, <2>1, <2>2
  <1>8. ASSUME NEW i \in T
        PROVE  Cardinality(Above(T, i))
                 = (n + 1) - i - 2 * Cardinality(Backspaces(t, i + 1, n + 1))
    <2>1. i \in S /\ i # m
      BY <1>7
    <2>2. PICK a, b : /\ a = Cardinality(Above(S, i))
                      /\ b = Cardinality(Backspaces(s, i + 1, n))
      OBVIOUS
    <2>3. /\ i \in 1 .. n /\ a \in Nat /\ b \in Nat /\ a = n - i - 2 * b
          /\ IsFiniteSet(Above(S, i))
      BY <1>6, <2>1, <2>2
    <2>4. Above(T, i) = Above(S, i) \ {m}
      BY <1>7 DEF Above
    <2>5. m \in Above(S, i)
      <3>1. m > i
        BY <1>2, <1>3, <2>1
      <3> QED BY <1>2, <3>1 DEF Above
    <2>6. Cardinality(Above(T, i)) = a - 1
      BY <2>2, <2>3, <2>4, <2>5, FS_RemoveElement, ZenonT(30)
    <2>7. i + 1 \in 1 .. n + 1
      BY <1>2, <2>3
    <2>8. Cardinality(Backspaces(t, i + 1, n + 1)) = b + 1
      BY <1>0, <1>1, <1>c, <2>2, <2>7, AppendBackspaces
    <2> QED BY <1>2, <2>3, <2>6, <2>8
  <1>9. Balanced(t)
    BY <1>1, <1>2, <1>8, Zenon DEF Balanced
  <1> QED BY <1>0, <1>1, <1>7, <1>9

LEMMA ErasedStep ==
  ASSUME NEW s \in Seq(Chars), NEW l \in Seq(Chars), Edited(l, s), Balanced(s)
  PROVE  /\ Edited(EditLine(l, Backspace), Append(s, Backspace))
         /\ Balanced(Append(s, Backspace))
  <1>0. PICK c : c = Backspace
    OBVIOUS
  <1>1. PICK t, n, S, T, e : /\ t = Append(s, c) /\ n = Len(s)
                             /\ S = Survivors(s) /\ T = Survivors(t)
                             /\ e = EditLine(l, c)
    OBVIOUS
  <1>c. c \in Chars
    BY <1>0 DEF Chars
  <1>2. /\ n \in Nat /\ t \in Seq(Chars) /\ Len(t) = n + 1
        /\ \A k \in 1 .. n : t[k] = s[k]
    BY <1>1, <1>c, AppendProperties
  <1>3. /\ S \subseteq 1 .. n /\ S \subseteq Int /\ IsFiniteSet(S)
        /\ Cardinality(S) \in Nat
    BY <1>1, SurvivorsFacts
  <1>4. Len(l) \in Nat /\ Len(l) = Cardinality(S)
    BY <1>1 DEF Edited
  <1>5. CASE S = {}
    <2>1. T = {}
      <3>1. T \subseteq 1 .. n + 1
        BY <1>1, <1>2, SurvivorsFacts
      <3>2. n + 1 \notin T /\ \A i \in 1 .. n : i \in T => i \in S
        BY <1>0, <1>1, <1>c, AppendSurvivors
      <3>3. \A i \in 1 .. n + 1 : i = n + 1 \/ i \in 1 .. n
        BY <1>2
      <3> QED BY <1>5, <3>1, <3>2, <3>3
    <2>2. Len(l) = 0
      BY <1>4, <1>5, FS_EmptySet
    <2>3. l = <<>>
      BY <2>2
    <2>4. e = l
      BY <1>0, <1>1, <2>3 DEF EditLine
    <2>5. Edited(e, t)
      BY <1>1, <2>1, <2>2, <2>4, FS_EmptySet DEF Edited
    <2>6. Balanced(t)
      BY <1>1, <2>1 DEF Balanced
    <2> QED BY <1>0, <1>1, <2>5, <2>6
  <1>6. CASE S # {}
    <2>1. PICK m \in S : \A k \in S : k <= m
      BY <1>3, <1>6, GreatestElement
    <2>2. T = S \ {m} /\ Balanced(t)
      BY <1>0, <1>1, <2>1, ErasedSurvivor
    <2>3. Cardinality(T) = Cardinality(S) - 1
      BY <1>3, <2>1, <2>2, FS_RemoveElement
    <2>4. Cardinality(S) # 0
      BY <1>3, <1>6, FS_EmptySet
    <2>5. e = SubSeq(l, 1, Len(l) - 1)
      <3>1. l # <<>>
        BY <1>4, <2>4
      <3> QED BY <1>0, <1>1, <3>1 DEF EditLine
    <2>6. PICK p : p = Len(l) - 1
      OBVIOUS
    <2>7. /\ p \in Nat /\ p = Cardinality(T) /\ \A k \in 1 .. p : l[k] \in Chars
      BY <1>3, <1>4, <2>3, <2>4, <2>6
    <2>8. Len(e) = p /\ \A k \in 1 .. p : e[k] = l[k]
      <3>1. 1 \in Int /\ p \in Int /\ (1 <= p \/ p = 0)
            /\ p - 1 + 1 = p /\ \A k \in 1 .. p : 1 + k - 1 = k
        BY <2>7
      <3>2. /\ Len(SubSeq(l, 1, p)) = IF 1 <= p THEN p - 1 + 1 ELSE 0
            /\ \A k \in 1 .. p - 1 + 1 : SubSeq(l, 1, p)[k] = l[1 + k - 1]
        BY <2>7, <3>1, SubSeqProperties
      <3> QED BY <2>5, <2>6, <3>1, <3>2
    <2>9. ASSUME NEW i \in T PROVE e[Cardinality(UpTo(T, i))] = t[i]
      <3>1. i \in S /\ i # m /\ i \in 1 .. n /\ i \in Int
        BY <1>3, <2>2
      <3>2. m > i
        BY <1>3, <2>1, <3>1
      <3>3. UpTo(T, i) = UpTo(S, i)
        <4>1. ~ (m <= i)
          BY <1>3, <2>1, <3>1, <3>2
        <4> QED BY <2>2, <4>1, Zenon DEF UpTo
      <3>4. PICK k : k = Cardinality(UpTo(T, i))
        OBVIOUS
      <3>5. IsFiniteSet(T) /\ T \subseteq Int
        BY <1>3, <2>2, FS_RemoveElement
      <3>6. /\ IsFiniteSet(UpTo(T, i)) /\ k \in Nat /\ k <= Cardinality(T)
        BY <3>1, <3>4, <3>5, UpToFacts
      <3>7. k # 0
        <4>1. i \in UpTo(T, i)
          BY <3>1 DEF UpTo
        <4> QED BY <3>4, <3>6, <4>1, FS_EmptySet
      <3>8. l[k] = s[i]
        BY <1>1, <3>1, <3>3, <3>4 DEF Edited
      <3>9. k \in 1 .. p
        BY <2>7, <3>6, <3>7
      <3> QED BY <1>2, <2>8, <3>1, <3>4, <3>8, <3>9
    <2>10. Edited(e, t)
      BY <1>1, <2>7, <2>8, <2>9 DEF Edited
    <2> QED BY <1>0, <1>1, <2>2, <2>10
  <1> QED BY <1>5, <1>6
(***************************************************************************)
(* Every reader's line is its edited characters, and these are balanced.   *)
(***************************************************************************)
LineInv == \A r \in Readers : Edited(line[r], got[r]) /\ Balanced(got[r])

LEMMA EmptyLine == Edited(<<>>, <<>>) /\ Balanced(<<>>)
  <1>1. Survivors(<<>>) = {}
    BY DEF Survivors
  <1> QED BY <1>1, FS_EmptySet DEF Edited, Balanced

LEMMA NextLineInv ==
  ASSUME Inv, LineInv, [Next]_vars
  PROVE  LineInv'
  <1> USE DEF Inv
  <1>1. CASE UNCHANGED <<line, got>>
    BY <1>1 DEF LineInv
  <1>2. ASSUME NEW r \in Readers, NEW n \in Sizes, BeginRead(r, n)
        PROVE  LineInv'
    <2>1. \A q \in Readers :
            IF q = r THEN line'[q] = <<>> /\ got'[q] = <<>>
                     ELSE line'[q] = line[q] /\ got'[q] = got[q]
      BY <1>2 DEF BeginRead, TypeOK
    <2> QED BY <2>1, EmptyLine DEF LineInv
  <1>3. ASSUME NEW r \in Readers, Pop(r)
        PROVE  LineInv'
    <2>1. PICK c, l, s : c = buffer[head] /\ l = line[r] /\ s = got[r]
      OBVIOUS
    <2>2. c \in Chars
      BY <1>3, <2>1, PopFacts DEF Pop, CanPop
    <2>3. l \in Seq(Chars) /\ s \in Seq(Chars) /\ Edited(l, s) /\ Balanced(s)
      BY <2>1 DEF TypeOK, LineInv
    <2>4. Edited(EditLine(l, c), Append(s, c)) /\ Balanced(Append(s, c))
      <3>1. CASE c = Backspace
        BY <2>3, <3>1, ErasedStep
      <3>2. CASE c # Backspace
        <4>1. EditLine(l, c) = Append(l, c)
          BY <3>2 DEF EditLine
        <4> QED BY <2>2, <2>3, <3>2, <4>1, TypedStep
      <3> QED BY <3>1, <3>2
    <2>5. \A q \in Readers :
            IF q = r THEN line'[q] = EditLine(l, c) /\ got'[q] = Append(s, c)
                     ELSE line'[q] = line[q] /\ got'[q] = got[q]
      BY <1>3, <2>1 DEF Pop, TypeOK
    <2> QED BY <2>4, <2>5 DEF LineInv
  <1>4. ASSUME NEW code \in Codes, NEW released \in BOOLEAN,
               HandleScancode(code, released)
        PROVE  LineInv'
    BY <1>1, <1>4 DEF HandleScancode
  <1> QED BY <1>1, <1>2, <1>3, <1>4 DEF Next, vars

(***************************************************************************)
(* A reader gets what was typed as its backspaces left it, for any number  *)
(* of keystrokes: the stack discipline of read(), which edits buf one      *)
(* character at a time, is the editing of the whole line.                  *)
(***************************************************************************)
THEOREM LinesEdited == Spec => []LineEdited
  <1>1. Init => Inv /\ LineInv
    <2>1. Init => LineInv
      BY EmptyLine DEF Init, LineInv
    <2> QED BY <2>1, InitInv
  <1>2. Inv /\ LineInv /\ [Next]_vars => (Inv /\ LineInv)'
    BY NextInv, NextLineInv
  <1>3. LineInv => LineEdited
    BY DEF LineInv, LineEdited, Edited, UpTo
  <1> QED BY <1>1, <1>2, <1>3, PTL DEF Spec
=============================================================================
