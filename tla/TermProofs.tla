----------------------------- MODULE TermProofs -----------------------------
(***************************************************************************)
(* The two rings of the terminal: the console is a line editor, and the    *)
(* serial port sends what it was given, in order.                          *)
(***************************************************************************)
EXTENDS RingProofs, Console, Uart

(***************************************************************************)
(* The console.                                                            *)
(***************************************************************************)
\* A read() has room for what it has got, and starts with nothing.
ConsCalls == \A p \in ConsReaders :
  /\ want[p] + got[p] <= MaxRead
  /\ reader[p] = "user" => got[p] = 0

\* The line being edited follows the ended ones, all fit, and it has no end yet.
ConsRingInv ==
  /\ Dist(ConsMod, ce, cr) = Dist(ConsMod, cw, cr) + Dist(ConsMod, ce, cw)
  /\ Dist(ConsMod, ce, cr) <= INPUT_BUF_SIZE
  /\ \A i \in 0 .. Dist(ConsMod, ce, cw) - 1 : cbuf[At(INPUT_BUF_SIZE, cw, i)] \in Plain

ConsInv == ConsReadable /\ ConsCalls /\ ConsRingInv

LEMMA ConsConstants ==
  /\ ConsMod \in Nat \ {0} /\ INPUT_BUF_SIZE \in Nat \ {0} /\ INPUT_BUF_SIZE < ConsMod
  /\ Sizes(INPUT_BUF_SIZE, ConsMod) /\ MaxRead \in Nat
  /\ NoReader \notin ConsReaders
  /\ "newline" \notin Plain /\ "eof" \notin Plain /\ Plain \subseteq Stored
BY ConsAssumption DEF Sizes, Stored

LEMMA MinusIs == \A a, b : Minus(a, b) = Dist(ConsMod, a, b)
BY DEF Minus, Dist

\* The three indices and how far they are apart.
LEMMA Indices ==
  ASSUME ConsInv
  PROVE  /\ cr \in 0 .. ConsMod - 1 /\ cw \in 0 .. ConsMod - 1 /\ ce \in 0 .. ConsMod - 1
         /\ Buffer(INPUT_BUF_SIZE, Stored, cbuf)
         /\ Dist(ConsMod, cw, cr) \in 0 .. INPUT_BUF_SIZE
         /\ Dist(ConsMod, ce, cw) \in 0 .. INPUT_BUF_SIZE
         /\ Dist(ConsMod, ce, cr) \in 0 .. INPUT_BUF_SIZE
         /\ Dist(ConsMod, cw, cr) = 0 <=> cw = cr
         /\ Dist(ConsMod, ce, cw) = 0 <=> ce = cw
<1>1. cr \in 0 .. ConsMod - 1 /\ cw \in 0 .. ConsMod - 1 /\ ce \in 0 .. ConsMod - 1
  BY DEF ConsInv, ConsReadable, ConsTypeOK
<1>2. Buffer(INPUT_BUF_SIZE, Stored, cbuf)
  BY DEF ConsInv, ConsReadable, ConsTypeOK, Buffer
<1>3. Dist(ConsMod, cw, cr) \in 0 .. ConsMod - 1 /\ (Dist(ConsMod, cw, cr) = 0 <=> cw = cr)
  BY <1>1, ConsConstants, Ahead
<1>4. Dist(ConsMod, ce, cw) \in 0 .. ConsMod - 1 /\ (Dist(ConsMod, ce, cw) = 0 <=> ce = cw)
  BY <1>1, ConsConstants, Ahead
<1>5. /\ Dist(ConsMod, ce, cr) = Dist(ConsMod, cw, cr) + Dist(ConsMod, ce, cw)
      /\ Dist(ConsMod, ce, cr) <= INPUT_BUF_SIZE
  BY DEF ConsInv, ConsRingInv
<1>6. PICK a \in Nat, b \in Nat, c \in Nat :
        a = Dist(ConsMod, cw, cr) /\ b = Dist(ConsMod, ce, cw) /\ c = Dist(ConsMod, ce, cr)
  <2>1. Dist(ConsMod, ce, cr) \in 0 .. ConsMod - 1
    BY <1>1, ConsConstants, Ahead
  <2> QED
    BY <1>3, <1>4, <2>1, ConsConstants
<1>7. a \in 0 .. INPUT_BUF_SIZE /\ b \in 0 .. INPUT_BUF_SIZE /\ c \in 0 .. INPUT_BUF_SIZE
  BY <1>5, <1>6, ConsConstants
<1> QED
  BY <1>1, <1>2, <1>3, <1>4, <1>6, <1>7

\* Control-U finds no newline: it takes the whole line.
LEMMA KillToIs ==
  ASSUME ConsInv
  PROVE  KillTo = Dist(ConsMod, ce, cw)
<1>1. /\ cr \in 0 .. ConsMod - 1 /\ cw \in 0 .. ConsMod - 1 /\ ce \in 0 .. ConsMod - 1
      /\ Dist(ConsMod, ce, cw) \in 0 .. INPUT_BUF_SIZE
  BY Indices
<1>2. PICK n \in Nat : n = Dist(ConsMod, ce, cw)
  BY <1>1
<1>3. ASSUME NEW j \in 1 .. n PROVE CharAt(Minus(ce, j)) # "newline"
  <2>1. j \in 0 .. Dist(ConsMod, ce, cw)
    BY <1>2
  <2>2. Dist(ConsMod, ce, j) % INPUT_BUF_SIZE = At(INPUT_BUF_SIZE, cw, Dist(ConsMod, ce, cw) - j)
    BY <1>1, <2>1, ConsConstants, BackSlot
  <2>3. n - j \in 0 .. n - 1
    OBVIOUS
  <2>4. cbuf[At(INPUT_BUF_SIZE, cw, n - j)] \in Plain
    BY <1>2, <2>3 DEF ConsInv, ConsRingInv
  <2> QED
    BY <1>2, <2>2, <2>4, MinusIs, ConsConstants DEF CharAt
<1> DEFINE P(k) == /\ \A j \in 1 .. k : CharAt(Minus(ce, j)) # "newline"
                   /\ k = n \/ CharAt(Minus(ce, k + 1)) = "newline"
<1>4. P(n)
  BY <1>3
<1>5. ASSUME NEW k \in 0 .. n, P(k) PROVE k = n
  <2>1. SUFFICES ASSUME k # n PROVE FALSE
    OBVIOUS
  <2>2. k + 1 \in 1 .. n
    BY <2>1
  <2>3. CharAt(Minus(ce, k + 1)) # "newline"
    BY <2>2, <1>3
  <2> QED
    BY <1>5, <2>1, <2>3
<1>6. KillTo = CHOOSE k \in 0 .. n : P(k)
  BY <1>2, MinusIs DEF KillTo
<1> HIDE DEF P
<1>7. n \in 0 .. n
  OBVIOUS
<1>8. (CHOOSE k \in 0 .. n : P(k)) = n
  BY <1>4, <1>5, <1>7, Zenon
<1> QED
  BY <1>2, <1>6, <1>8

\* consoleintr() stores a character at the end.
LEMMA CharRing ==
  ASSUME ConsInv, NEW c \in Stored, Char(c)
  PROVE  /\ ce' = Moved(ConsMod, ce, 1) /\ ce' \in 0 .. ConsMod - 1
         /\ Dist(ConsMod, ce', cr) = Dist(ConsMod, ce, cr) + 1
         /\ Dist(ConsMod, ce', cw) = Dist(ConsMod, ce, cw) + 1
         /\ Dist(ConsMod, ce, cr) < INPUT_BUF_SIZE /\ Dist(ConsMod, ce, cw) < INPUT_BUF_SIZE
         /\ EndsLine(c) <=> c \in {"newline", "eof"} \/ Dist(ConsMod, ce', cr) = INPUT_BUF_SIZE
         /\ Stores(INPUT_BUF_SIZE, cbuf, cbuf', ce, c) /\ Buffer(INPUT_BUF_SIZE, Stored, cbuf')
         /\ Keeps(INPUT_BUF_SIZE, cbuf, cbuf', cr, 0, Dist(ConsMod, cw, cr))
         /\ Keeps(INPUT_BUF_SIZE, cbuf, cbuf', cw, 0, Dist(ConsMod, ce, cw))
         /\ cbuf'[At(INPUT_BUF_SIZE, cw, Dist(ConsMod, ce, cw))] = c
<1>1. /\ cr \in 0 .. ConsMod - 1 /\ cw \in 0 .. ConsMod - 1 /\ ce \in 0 .. ConsMod - 1
      /\ Buffer(INPUT_BUF_SIZE, Stored, cbuf)
  BY Indices
<1>2. PICK a \in Nat, b \in Nat, d \in Nat :
        /\ a = Dist(ConsMod, cw, cr) /\ b = Dist(ConsMod, ce, cw) /\ d = Dist(ConsMod, ce, cr)
        /\ d = a + b
  BY Indices DEF ConsInv, ConsRingInv
<1>3. d < INPUT_BUF_SIZE
  BY <1>2, MinusIs DEF Char, Room
<1>4. b < INPUT_BUF_SIZE /\ d + 1 < ConsMod /\ b + 1 < ConsMod
  BY <1>2, <1>3, ConsConstants
<1>5. ce' = Moved(ConsMod, ce, 1) /\ Stores(INPUT_BUF_SIZE, cbuf, cbuf', ce, c)
  BY DEF Char, Moved, Stores
<1>6. Moved(ConsMod, ce, 1) \in 0 .. ConsMod - 1 /\ Dist(ConsMod, Moved(ConsMod, ce, 1), cr) = d + 1
  <2>1. Dist(ConsMod, ce, cr) + 1 < ConsMod
    BY <1>2, <1>4
  <2>2. Moved(ConsMod, ce, 1) \in 0 .. ConsMod - 1
    BY <1>1, <2>1, ConsConstants, MoveEnd
  <2>3. Dist(ConsMod, Moved(ConsMod, ce, 1), cr) = Dist(ConsMod, ce, cr) + 1
    BY <1>1, <2>1, ConsConstants, MoveEnd
  <2> QED
    BY <1>2, <2>2, <2>3
<1>7. Dist(ConsMod, Moved(ConsMod, ce, 1), cw) = b + 1
  BY <1>1, <1>2, <1>4, ConsConstants, MoveEnd
<1>8. EndsLine(c) <=> c \in {"newline", "eof"} \/ d + 1 = INPUT_BUF_SIZE
  <2>1. Dist(ConsMod, ce + 1, cr) = Dist(ConsMod, Moved(ConsMod, ce, 1), cr)
    BY <1>1, ConsConstants, DistNext
  <2> QED
    BY <1>6, <2>1, MinusIs DEF EndsLine
<1>9. /\ Buffer(INPUT_BUF_SIZE, Stored, cbuf')
      /\ Keeps(INPUT_BUF_SIZE, cbuf, cbuf', cr, 0, Dist(ConsMod, ce, cr))
  BY <1>1, <1>2, <1>3, <1>5, ConsConstants, StoreKeeps
<1>10. /\ Keeps(INPUT_BUF_SIZE, cbuf, cbuf', cw, 0, Dist(ConsMod, ce, cw))
       /\ cbuf'[At(INPUT_BUF_SIZE, cw, Dist(ConsMod, ce, cw))] = c
  <2>1. Dist(ConsMod, ce, cw) < INPUT_BUF_SIZE
    BY <1>2, <1>4
  <2>2. Keeps(INPUT_BUF_SIZE, cbuf, cbuf', cw, 0, Dist(ConsMod, ce, cw))
    BY <1>1, <1>5, <2>1, ConsConstants, StoreKeeps
  <2>3. cbuf'[At(INPUT_BUF_SIZE, cw, Dist(ConsMod, ce, cw))] = c
    <3>1. ce % INPUT_BUF_SIZE = At(INPUT_BUF_SIZE, cw, Dist(ConsMod, ce, cw))
      BY <1>1, ConsConstants, EndSlot
    <3>2. ce % INPUT_BUF_SIZE \in 0 .. INPUT_BUF_SIZE - 1
      BY <1>1, ConsConstants
    <3> QED
      BY <1>1, <1>5, <3>1, <3>2 DEF Stores, Buffer
  <2> QED
    BY <2>2, <2>3
<1>11. Keeps(INPUT_BUF_SIZE, cbuf, cbuf', cr, 0, Dist(ConsMod, cw, cr))
  BY <1>2, <1>9 DEF Keeps
<1> QED
  BY <1>2, <1>3, <1>4, <1>5, <1>6, <1>7, <1>8, <1>9, <1>10, <1>11

\* Backspace and Control-U take back the end by k.
LEMMA BackRing ==
  ASSUME ConsInv, NEW k \in 0 .. Dist(ConsMod, ce, cw), ce' = Minus(ce, k)
  PROVE  /\ ce' = Dist(ConsMod, ce, k) /\ ce' \in 0 .. ConsMod - 1
         /\ Dist(ConsMod, ce', cr) = Dist(ConsMod, ce, cr) - k
         /\ Dist(ConsMod, ce', cw) = Dist(ConsMod, ce, cw) - k
<1>1. /\ cr \in 0 .. ConsMod - 1 /\ cw \in 0 .. ConsMod - 1 /\ ce \in 0 .. ConsMod - 1
  BY Indices
<1>2. PICK a \in Nat, b \in Nat, d \in Nat :
        /\ a = Dist(ConsMod, cw, cr) /\ b = Dist(ConsMod, ce, cw) /\ d = Dist(ConsMod, ce, cr)
        /\ d = a + b
  BY Indices DEF ConsInv, ConsRingInv
<1>3. k \in 0 .. Dist(ConsMod, ce, cr)
  BY <1>2
<1>4. ce' = Dist(ConsMod, ce, k)
  BY MinusIs
<1>5. /\ Dist(ConsMod, ce, k) \in 0 .. ConsMod - 1
      /\ Dist(ConsMod, Dist(ConsMod, ce, k), cr) = Dist(ConsMod, ce, cr) - k
  BY <1>1, <1>3, ConsConstants, MoveBack
<1>6. Dist(ConsMod, Dist(ConsMod, ce, k), cw) = Dist(ConsMod, ce, cw) - k
  BY <1>1, ConsConstants, MoveBack
<1> QED
  BY <1>4, <1>5, <1>6

\* consoleread() takes the first character.
LEMMA TakeRing ==
  ASSUME ConsInv, cr # cw, cr' = (cr + 1) % ConsMod
  PROVE  /\ cr' = Moved(ConsMod, cr, 1) /\ cr' \in 0 .. ConsMod - 1
         /\ 1 \in 0 .. Dist(ConsMod, cw, cr)
         /\ Dist(ConsMod, cw, cr') = Dist(ConsMod, cw, cr) - 1
         /\ Dist(ConsMod, ce, cr') = Dist(ConsMod, ce, cr) - 1
<1>1. /\ cr \in 0 .. ConsMod - 1 /\ cw \in 0 .. ConsMod - 1 /\ ce \in 0 .. ConsMod - 1
      /\ Dist(ConsMod, cw, cr) # 0
  BY Indices
<1>2. PICK a \in Nat, b \in Nat, d \in Nat :
        /\ a = Dist(ConsMod, cw, cr) /\ b = Dist(ConsMod, ce, cw) /\ d = Dist(ConsMod, ce, cr)
        /\ d = a + b
  BY Indices DEF ConsInv, ConsRingInv
<1>3. 1 \in 0 .. Dist(ConsMod, cw, cr) /\ 1 \in 0 .. Dist(ConsMod, ce, cr)
  BY <1>1, <1>2
<1>4. cr' = Moved(ConsMod, cr, 1)
  BY DEF Moved
<1>5. /\ Moved(ConsMod, cr, 1) \in 0 .. ConsMod - 1
      /\ Dist(ConsMod, cw, Moved(ConsMod, cr, 1)) = Dist(ConsMod, cw, cr) - 1
  BY <1>1, <1>3, ConsConstants, MoveStart
<1>6. Dist(ConsMod, ce, Moved(ConsMod, cr, 1)) = Dist(ConsMod, ce, cr) - 1
  BY <1>1, <1>3, ConsConstants, MoveStart
<1> QED
  BY <1>3, <1>4, <1>5, <1>6

LEMMA ConsInvInit == ConsInit => ConsInv
<1> SUFFICES ASSUME ConsInit PROVE ConsInv
  OBVIOUS
<1>1. 0 \in 0 .. ConsMod - 1 /\ 0 \in 0 .. MaxRead
  BY ConsConstants
<1>2. ConsTypeOK
  <2>1. cbuf \in [0 .. INPUT_BUF_SIZE - 1 -> Stored]
    BY DEF ConsInit, Stored
  <2> QED
    BY <1>1, <2>1 DEF ConsInit, ConsTypeOK
<1>3. Dist(ConsMod, 0, 0) = 0
  BY <1>1, ConsConstants, Ahead
<1>4. ConsReadable
  BY <1>2, <1>3, ConsConstants, MinusIs DEF ConsReadable, ConsInit, Room
<1>5. ConsCalls
  BY <1>1, ConsConstants DEF ConsCalls, ConsInit
<1>6. ConsRingInv
  BY <1>3, ConsConstants DEF ConsRingInv, ConsInit
<1> QED
  BY <1>4, <1>5, <1>6 DEF ConsInv

\* What the invariant says of the readers is about them alone, but for the sleepers.
LEMMA ConsFrame ==
  ASSUME ConsInv,
         cr' \in 0 .. ConsMod - 1, cw' \in 0 .. ConsMod - 1, ce' \in 0 .. ConsMod - 1,
         cbuf' \in [0 .. INPUT_BUF_SIZE - 1 -> Stored], consLock' = consLock,
         \/ reader' = reader \/ reader' = ConsWake, UNCHANGED <<want, got>>,
         cr' = cw' \/ \A p \in ConsReaders : reader'[p] # "asleep",
         ConsRingInv', Dist(ConsMod, ce', cr') < INPUT_BUF_SIZE \/ cw' = ce'
  PROVE  ConsInv'
<1>1. reader' \in [ConsReaders -> {"user", "lock", "loop", "asleep"}]
  BY DEF ConsInv, ConsReadable, ConsTypeOK, ConsWake
<1>2. ConsTypeOK'
  BY <1>1 DEF ConsInv, ConsReadable, ConsTypeOK
<1>3. \A p \in ConsReaders : reader'[p] = "user" => reader[p] = "user"
  BY DEF ConsWake
<1>4. ConsCalls'
  BY <1>3 DEF ConsInv, ConsCalls
<1>5. (~Room => cw = ce)'
  BY MinusIs DEF Room
<1>6. ConsReadable'
  BY <1>2, <1>5 DEF ConsReadable
<1> QED
  BY <1>4, <1>6 DEF ConsInv

LEMMA CharStep ==
  ASSUME ConsInv, NEW c \in Stored, Char(c)
  PROVE  ConsInv'
<1>1. /\ cr \in 0 .. ConsMod - 1 /\ cw \in 0 .. ConsMod - 1 /\ ce \in 0 .. ConsMod - 1
      /\ Dist(ConsMod, ce, cw) \in 0 .. INPUT_BUF_SIZE
      /\ Dist(ConsMod, ce, cr) \in 0 .. INPUT_BUF_SIZE
  BY Indices
<1>2. /\ ce' \in 0 .. ConsMod - 1 /\ cr' = cr /\ cbuf' \in [0 .. INPUT_BUF_SIZE - 1 -> Stored]
      /\ Dist(ConsMod, ce', cr) = Dist(ConsMod, ce, cr) + 1
      /\ Dist(ConsMod, ce', cw) = Dist(ConsMod, ce, cw) + 1
      /\ Dist(ConsMod, ce, cr) < INPUT_BUF_SIZE
      /\ UNCHANGED <<consLock, want, got>>
  BY CharRing DEF Buffer, Char
<1>3. CASE EndsLine(c)
  <2>1. cw' = ce' /\ reader' = ConsWake
    BY <1>3 DEF Char
  <2>2. Dist(ConsMod, ce', cw') = 0
    BY <1>2, <2>1, ConsConstants, Ahead
  <2>3. ConsRingInv'
    <3>1. Dist(ConsMod, ce', cr') = Dist(ConsMod, cw', cr') + Dist(ConsMod, ce', cw')
      BY <1>1, <1>2, <2>1, <2>2
    <3>2. Dist(ConsMod, ce', cr') <= INPUT_BUF_SIZE
      BY <1>1, <1>2, ConsConstants
    <3> QED
      BY <2>2, <3>1, <3>2 DEF ConsRingInv
  <2>4. \A p \in ConsReaders : reader'[p] # "asleep"
    BY <2>1 DEF ConsWake
  <2> QED
    BY <1>1, <1>2, <2>1, <2>3, <2>4, ConsFrame
<1>4. CASE ~EndsLine(c)
  <2>1. cw' = cw /\ reader' = reader
    BY <1>4 DEF Char
  <2>2. c \in Plain /\ Dist(ConsMod, ce', cr) # INPUT_BUF_SIZE
    BY <1>4, CharRing DEF Stored
  <2>3. ConsRingInv'
    <3>1. Dist(ConsMod, ce', cr') = Dist(ConsMod, cw', cr') + Dist(ConsMod, ce', cw')
      BY <1>1, <1>2, <2>1, Indices DEF ConsInv, ConsRingInv
    <3>2. Dist(ConsMod, ce', cr') <= INPUT_BUF_SIZE
      BY <1>1, <1>2, ConsConstants
    <3>3. ASSUME NEW i \in 0 .. Dist(ConsMod, ce', cw) - 1
          PROVE  cbuf'[At(INPUT_BUF_SIZE, cw, i)] \in Plain
      <4>1. PICK n \in Nat : n = Dist(ConsMod, ce, cw) /\ i \in 0 .. n
        BY <1>1, <1>2
      <4>2. CASE i = n
        BY <2>2, <4>1, <4>2, CharRing
      <4>3. CASE i # n
        <5>1. i \in 0 .. n - 1
          BY <4>1, <4>3
        <5>2. Keeps(INPUT_BUF_SIZE, cbuf, cbuf', cw, 0, n)
          BY <4>1, CharRing
        <5>3. cbuf'[At(INPUT_BUF_SIZE, cw, i)] = cbuf[At(INPUT_BUF_SIZE, cw, i)]
          BY <5>1, <5>2 DEF Keeps
        <5>4. cbuf[At(INPUT_BUF_SIZE, cw, i)] \in Plain
          BY <4>1, <5>1 DEF ConsInv, ConsRingInv
        <5> QED
          BY <5>3, <5>4
      <4> QED
        BY <4>2, <4>3
    <3> QED
      BY <2>1, <3>1, <3>2, <3>3 DEF ConsRingInv
  <2>4. Dist(ConsMod, ce', cr') < INPUT_BUF_SIZE
    BY <1>1, <1>2, <2>2, ConsConstants
  <2>5. cr' = cw' \/ \A p \in ConsReaders : reader'[p] # "asleep"
    BY <1>2, <2>1 DEF ConsInv, ConsReadable
  <2> QED
    BY <1>1, <1>2, <2>1, <2>3, <2>4, <2>5, ConsFrame
<1> QED
  BY <1>3, <1>4

LEMMA BackStep ==
  ASSUME ConsInv, NEW k \in 0 .. Dist(ConsMod, ce, cw), ce' = Minus(ce, k),
         UNCHANGED <<cr, cw, cbuf, consLock, reader, want, got>>
  PROVE  ConsInv'
<1>1. /\ cr \in 0 .. ConsMod - 1 /\ cw \in 0 .. ConsMod - 1 /\ ce \in 0 .. ConsMod - 1
      /\ Buffer(INPUT_BUF_SIZE, Stored, cbuf)
  BY Indices
<1>2. PICK a \in Nat, b \in Nat, d \in Nat :
        /\ a = Dist(ConsMod, cw, cr) /\ b = Dist(ConsMod, ce, cw) /\ d = Dist(ConsMod, ce, cr)
        /\ d = a + b /\ d <= INPUT_BUF_SIZE
  BY Indices DEF ConsInv, ConsRingInv
<1>3. /\ ce' \in 0 .. ConsMod - 1
      /\ Dist(ConsMod, ce', cr) = d - k /\ Dist(ConsMod, ce', cw) = b - k
  BY <1>2, BackRing
<1>4. ConsRingInv'
  <2>1. d - k = a + (b - k) /\ d - k <= INPUT_BUF_SIZE
    BY <1>2, ConsConstants
  <2>2. \A i \in 0 .. (b - k) - 1 : cbuf[At(INPUT_BUF_SIZE, cw, i)] \in Plain
    <3>1. \A i \in 0 .. (b - k) - 1 : i \in 0 .. b - 1
      BY <1>2
    <3> QED
      BY <1>2, <3>1 DEF ConsInv, ConsRingInv
  <2> QED
    BY <1>2, <1>3, <2>1, <2>2 DEF ConsRingInv
<1>5. Dist(ConsMod, ce', cr) < INPUT_BUF_SIZE \/ cw = ce'
  <2>1. CASE k = 0
    <3>1. ce' = ce
      <4>1. Dist(ConsMod, ce, 0) = ce
        BY <1>1, ConsConstants DEF Dist
      <4> QED
        BY <2>1, <4>1, MinusIs
    <3>2. d < INPUT_BUF_SIZE \/ cw = ce
      BY <1>2, MinusIs DEF ConsInv, ConsReadable, Room
    <3> QED
      BY <1>2, <3>1, <3>2
  <2>2. CASE k # 0
    BY <1>2, <1>3, <2>2, ConsConstants
  <2> QED
    BY <2>1, <2>2
<1>6. cr = cw \/ \A p \in ConsReaders : reader[p] # "asleep"
  BY DEF ConsInv, ConsReadable
<1> QED
  BY <1>1, <1>3, <1>4, <1>5, <1>6, ConsFrame DEF Buffer

LEMMA TakeStep ==
  ASSUME ConsInv, NEW p \in ConsReaders, ConsTake(p)
  PROVE  ConsInv'
<1>1. /\ cr \in 0 .. ConsMod - 1 /\ cw \in 0 .. ConsMod - 1 /\ ce \in 0 .. ConsMod - 1
  BY Indices
<1>2. /\ cr # cw /\ want[p] > 0 /\ consLock = p /\ reader[p] = "loop" /\ UNCHANGED <<cw, ce, cbuf>>
      /\ cr' = cr \/ cr' = (cr + 1) % ConsMod
  BY DEF ConsTake
<1>3. \/ ConsReturn(p)
      \/ /\ want' = [want EXCEPT ![p] = want[p] - 1] /\ got' = [got EXCEPT ![p] = got[p] + 1]
         /\ UNCHANGED <<consLock, reader>>
  BY DEF ConsTake
<1>4. cr' \in 0 .. ConsMod - 1 /\ ConsRingInv' /\ (Dist(ConsMod, ce, cr') < INPUT_BUF_SIZE \/ cw = ce)
  <2>1. CASE cr' = cr
    BY <1>1, <1>2, <2>1, MinusIs DEF ConsInv, ConsReadable, ConsRingInv, Room
  <2>2. CASE cr' = (cr + 1) % ConsMod
    <3>1. PICK a \in Nat, b \in Nat, d \in Nat :
            /\ a = Dist(ConsMod, cw, cr) /\ b = Dist(ConsMod, ce, cw) /\ d = Dist(ConsMod, ce, cr)
            /\ d = a + b /\ d <= INPUT_BUF_SIZE
      BY Indices DEF ConsInv, ConsRingInv
    <3>2. /\ cr' \in 0 .. ConsMod - 1
          /\ Dist(ConsMod, cw, cr') = a - 1 /\ Dist(ConsMod, ce, cr') = d - 1
      BY <1>2, <2>2, <3>1, TakeRing
    <3>3. d - 1 = (a - 1) + b /\ d - 1 < INPUT_BUF_SIZE /\ d - 1 <= INPUT_BUF_SIZE
      BY <3>1, ConsConstants
    <3> QED
      BY <1>2, <3>1, <3>2, <3>3 DEF ConsInv, ConsRingInv
  <2> QED
    BY <1>2, <2>1, <2>2
<1>5. /\ want \in [ConsReaders -> 0 .. MaxRead] /\ got \in [ConsReaders -> 0 .. MaxRead]
      /\ reader \in [ConsReaders -> {"user", "lock", "loop", "asleep"}]
      /\ consLock \in ConsReaders \cup {NoReader} /\ cbuf \in [0 .. INPUT_BUF_SIZE - 1 -> Stored]
      /\ \A q \in ConsReaders : reader[q] # "asleep"
      /\ ConsCalls
  BY <1>2 DEF ConsInv, ConsReadable, ConsTypeOK
<1>6. /\ reader' \in [ConsReaders -> {"user", "lock", "loop", "asleep"}]
      /\ consLock' \in ConsReaders \cup {NoReader}
      /\ \A q \in ConsReaders : reader'[q] # "asleep"
  BY <1>3, <1>5 DEF ConsReturn
<1>7. /\ want' \in [ConsReaders -> 0 .. MaxRead] /\ got' \in [ConsReaders -> 0 .. MaxRead]
      /\ ConsCalls'
  <2>1. CASE ConsReturn(p)
    <3>1. 0 \in 0 .. MaxRead
      BY ConsConstants
    <3>2. /\ want' = [want EXCEPT ![p] = 0] /\ got' = [got EXCEPT ![p] = 0]
          /\ reader' = [reader EXCEPT ![p] = "user"]
      BY <2>1 DEF ConsReturn
    <3>3. ASSUME NEW q \in ConsReaders
          PROVE  want'[q] + got'[q] <= MaxRead /\ (reader'[q] = "user" => got'[q] = 0)
      <4>1. CASE q = p
        BY <1>5, <3>2, <4>1, ConsConstants
      <4>2. CASE q # p
        BY <1>5, <3>2, <4>2 DEF ConsCalls
      <4> QED
        BY <4>1, <4>2
    <3> QED
      BY <1>5, <3>1, <3>2, <3>3 DEF ConsCalls
  <2>2. CASE /\ want' = [want EXCEPT ![p] = want[p] - 1] /\ got' = [got EXCEPT ![p] = got[p] + 1]
             /\ UNCHANGED <<consLock, reader>>
    <3>1. want[p] + got[p] <= MaxRead
      BY <1>5 DEF ConsCalls
    <3>2. want[p] - 1 \in 0 .. MaxRead /\ got[p] + 1 \in 0 .. MaxRead
          /\ (want[p] - 1) + (got[p] + 1) <= MaxRead
      BY <1>2, <1>5, <3>1, ConsConstants
    <3>3. ASSUME NEW q \in ConsReaders
          PROVE  want'[q] + got'[q] <= MaxRead /\ (reader'[q] = "user" => got'[q] = 0)
      <4>1. CASE q = p
        BY <1>2, <1>5, <2>2, <3>2, <4>1
      <4>2. CASE q # p
        BY <1>5, <2>2, <4>2 DEF ConsCalls
      <4> QED
        BY <4>1, <4>2
    <3> QED
      BY <1>5, <2>2, <3>2, <3>3 DEF ConsCalls
  <2> QED
    BY <1>3, <2>1, <2>2
<1>8. ConsTypeOK'
  BY <1>1, <1>2, <1>4, <1>5, <1>6, <1>7 DEF ConsTypeOK
<1>9. (~Room => cw = ce)'
  BY <1>2, <1>4, MinusIs DEF Room
<1> QED
  BY <1>4, <1>6, <1>7, <1>8, <1>9 DEF ConsInv, ConsReadable

\* The other steps of a reader leave the ring alone.
LEMMA ReaderStep ==
  ASSUME ConsInv, NEW p \in ConsReaders, UNCHANGED consRing,
         \/ \E n \in 0 .. MaxRead : ConsRead(p, n)
         \/ ConsAcquire(p) \/ ConsWait(p) \/ ConsFull(p) \/ RouseReader(p)
  PROVE  ConsInv'
<1>1. /\ want \in [ConsReaders -> 0 .. MaxRead] /\ got \in [ConsReaders -> 0 .. MaxRead]
      /\ reader \in [ConsReaders -> {"user", "lock", "loop", "asleep"}]
      /\ consLock \in ConsReaders \cup {NoReader}
      /\ \A q \in ConsReaders : reader[q] = "asleep" => cr = cw
  BY DEF ConsInv, ConsReadable, ConsTypeOK
<1>2. ConsRingInv' /\ (~Room => cw = ce)'
  BY DEF consRing, ConsInv, ConsRingInv, ConsReadable, Room, Minus
<1>3. 0 \in 0 .. MaxRead
  BY ConsConstants
<1>4. /\ want' \in [ConsReaders -> 0 .. MaxRead] /\ got' \in [ConsReaders -> 0 .. MaxRead]
      /\ reader' \in [ConsReaders -> {"user", "lock", "loop", "asleep"}]
      /\ consLock' \in ConsReaders \cup {NoReader}
  BY <1>1, <1>3 DEF ConsRead, ConsAcquire, ConsWait, ConsFull, RouseReader, ConsReturn
<1>5. \A q \in ConsReaders : reader'[q] = "asleep" => cr = cw
  BY <1>1 DEF ConsRead, ConsAcquire, ConsWait, ConsFull, RouseReader, ConsReturn
<1>6. ConsReadable'
  <2>1. ConsTypeOK'
    BY <1>4 DEF consRing, ConsInv, ConsReadable, ConsTypeOK
  <2> QED
    BY <1>2, <1>5, <2>1 DEF consRing, ConsReadable
<1>7. ConsCalls'
  <2> SUFFICES ASSUME NEW q \in ConsReaders
               PROVE  want'[q] + got'[q] <= MaxRead /\ (reader'[q] = "user" => got'[q] = 0)
    BY DEF ConsCalls
  <2>1. want[q] + got[q] <= MaxRead /\ (reader[q] = "user" => got[q] = 0)
    BY DEF ConsInv, ConsCalls
  <2>2. CASE q # p
    BY <1>1, <2>1, <2>2 DEF ConsRead, ConsAcquire, ConsWait, ConsFull, RouseReader, ConsReturn
  <2>3. CASE q = p
    <3>1. ASSUME NEW n \in 0 .. MaxRead, ConsRead(p, n)
          PROVE  want'[q] + got'[q] <= MaxRead /\ (reader'[q] = "user" => got'[q] = 0)
      BY <1>1, <2>1, <2>3, <3>1, ConsConstants DEF ConsRead
    <3>2. CASE ConsReturn(p)
      BY <1>1, <2>3, <3>2, ConsConstants DEF ConsReturn
    <3>3. CASE UNCHANGED <<want, got>> /\ reader'[p] # "user"
      BY <2>1, <2>3, <3>3
    <3>4. \/ \E n \in 0 .. MaxRead : ConsRead(p, n)
          \/ ConsReturn(p)
          \/ UNCHANGED <<want, got>> /\ reader'[p] # "user"
      BY <1>1 DEF ConsAcquire, ConsWait, ConsFull, RouseReader
    <3> QED
      BY <3>1, <3>2, <3>3, <3>4
  <2> QED
    BY <2>2, <2>3
<1> QED
  BY <1>2, <1>6, <1>7 DEF ConsInv

LEMMA ConsInvStep == ConsInv /\ [ConsNext]_consVars => ConsInv'
<1> SUFFICES ASSUME ConsInv, [ConsNext]_consVars PROVE ConsInv'
  OBVIOUS
<1>1. CASE UNCHANGED consVars
  BY <1>1 DEF consVars, ConsInv, ConsReadable, ConsTypeOK, ConsCalls, ConsRingInv, Room, Minus
<1>2. ASSUME NEW c \in Stored, Char(c) PROVE ConsInv'
  BY <1>2, CharStep
<1>3. CASE Backspace
  <2>1. 1 \in 0 .. Dist(ConsMod, ce, cw)
    BY <1>3, Indices, ConsConstants DEF Backspace
  <2> QED
    BY <1>3, <2>1, BackStep DEF Backspace
<1>4. CASE ControlU
  <2>1. KillTo = Dist(ConsMod, ce, cw) /\ KillTo \in 0 .. Dist(ConsMod, ce, cw)
    BY KillToIs, Indices
  <2> QED
    BY <1>4, <2>1, BackStep DEF ControlU
<1>5. ASSUME NEW p \in ConsReaders, ConsTake(p) PROVE ConsInv'
  BY <1>5, TakeStep
<1>6. ASSUME NEW p \in ConsReaders,
             \/ \E n \in 0 .. MaxRead : ConsRead(p, n)
             \/ ConsAcquire(p) \/ ConsWait(p) \/ ConsFull(p) \/ RouseReader(p)
      PROVE  ConsInv'
  <2>1. UNCHANGED consRing
    BY <1>6 DEF ConsRead, ConsAcquire, ConsWait, ConsFull, RouseReader
  <2> QED
    BY <1>6, <2>1, ReaderStep
<1> QED
  BY <1>1, <1>2, <1>3, <1>4, <1>5, <1>6 DEF ConsNext

LEMMA ConsInvariant == ConsSpec => []ConsInv
BY ConsInvInit, ConsInvStep, PTL DEF ConsSpec

(***************************************************************************)
(* Nobody sleeps in consoleread() beside a line it could read, and a full  *)
(* buffer can be read (consoleintr()).                                     *)
(***************************************************************************)
THEOREM ConsoleReadable == ConsSpec => []ConsReadable
<1>1. ConsInv => ConsReadable
  BY DEF ConsInv
<1> QED
  BY <1>1, ConsInvariant, PTL

\* The two parts of the ring.
LEMMA LinesAre ==
  ConsInv => /\ Between(cr, cw) = Held(cbuf, ConsMod, INPUT_BUF_SIZE, cr, cw)
             /\ Between(cw, ce) = Held(cbuf, ConsMod, INPUT_BUF_SIZE, cw, ce)
             /\ Between(cr, cw) \in Seq(Stored) /\ Len(Between(cr, cw)) = Dist(ConsMod, cw, cr)
             /\ Between(cw, ce) \in Seq(Stored) /\ Len(Between(cw, ce)) = Dist(ConsMod, ce, cw)
<1> SUFFICES ASSUME ConsInv
             PROVE  /\ Between(cr, cw) = Held(cbuf, ConsMod, INPUT_BUF_SIZE, cr, cw)
                    /\ Between(cw, ce) = Held(cbuf, ConsMod, INPUT_BUF_SIZE, cw, ce)
                    /\ Between(cr, cw) \in Seq(Stored) /\ Len(Between(cr, cw)) = Dist(ConsMod, cw, cr)
                    /\ Between(cw, ce) \in Seq(Stored) /\ Len(Between(cw, ce)) = Dist(ConsMod, ce, cw)
  OBVIOUS
<1>1. /\ cr \in 0 .. ConsMod - 1 /\ cw \in 0 .. ConsMod - 1 /\ ce \in 0 .. ConsMod - 1
      /\ Buffer(INPUT_BUF_SIZE, Stored, cbuf)
  BY Indices
<1>2. /\ Between(cr, cw) = Held(cbuf, ConsMod, INPUT_BUF_SIZE, cr, cw)
      /\ Between(cw, ce) = Held(cbuf, ConsMod, INPUT_BUF_SIZE, cw, ce)
  BY DEF Between, Held, CharAt, Minus, Dist
<1>3. Reads(Held(cbuf, ConsMod, INPUT_BUF_SIZE, cr, cw), Stored, cbuf, INPUT_BUF_SIZE, cr,
            Dist(ConsMod, cw, cr))
  BY <1>1, ConsConstants, HeldIs
<1>4. Reads(Held(cbuf, ConsMod, INPUT_BUF_SIZE, cw, ce), Stored, cbuf, INPUT_BUF_SIZE, cw,
            Dist(ConsMod, ce, cw))
  BY <1>1, ConsConstants, HeldIs
<1> QED
  BY <1>2, <1>3, <1>4 DEF Reads

LEMMA LinesAreNext ==
  ConsInv' => (/\ Between(cr, cw) = Held(cbuf, ConsMod, INPUT_BUF_SIZE, cr, cw)
               /\ Between(cw, ce) = Held(cbuf, ConsMod, INPUT_BUF_SIZE, cw, ce)
               /\ Between(cr, cw) \in Seq(Stored) /\ Len(Between(cr, cw)) = Dist(ConsMod, cw, cr)
               /\ Between(cw, ce) \in Seq(Stored) /\ Len(Between(cw, ce)) = Dist(ConsMod, ce, cw))'
BY LinesAre, PTL

LEMMA LinesStay ==
  ASSUME UNCHANGED consRing
  PROVE  UNCHANGED <<Between(cr, cw), Between(cw, ce)>>
BY DEF consRing, Between, CharAt, Minus

\* A character is typed: it extends the line or ends it.
LEMMA CharTypes ==
  ASSUME ConsInv, ConsInv', NEW c \in Stored, Char(c)
  PROVE  Line!Typed(c)
<1>1. /\ cr \in 0 .. ConsMod - 1 /\ cw \in 0 .. ConsMod - 1 /\ ce \in 0 .. ConsMod - 1
      /\ Buffer(INPUT_BUF_SIZE, Stored, cbuf)
  BY Indices
<1>2. PICK ready, edited :
        /\ ready = Between(cr, cw) /\ ready = Held(cbuf, ConsMod, INPUT_BUF_SIZE, cr, cw)
        /\ edited = Between(cw, ce) /\ edited = Held(cbuf, ConsMod, INPUT_BUF_SIZE, cw, ce)
        /\ ready \in Seq(Stored) /\ Len(ready) = Dist(ConsMod, cw, cr)
        /\ edited \in Seq(Stored) /\ Len(edited) = Dist(ConsMod, ce, cw)
  BY LinesAre
<1>3. /\ Between(cr, cw)' = Held(cbuf', ConsMod, INPUT_BUF_SIZE, cr', cw')
      /\ Between(cw, ce)' = Held(cbuf', ConsMod, INPUT_BUF_SIZE, cw', ce')
  BY LinesAreNext
<1>4. PICK line : line = Append(edited, c)
  OBVIOUS
<1>5. line \in Seq(Stored) /\ Len(line) = Len(edited) + 1
  BY <1>2, <1>4, AppendProperties
<1>6. Len(ready) + Len(edited) = Dist(ConsMod, ce, cr) /\ Len(ready) + Len(line) = Dist(ConsMod, ce', cr)
  <2>1. Dist(ConsMod, ce, cr) = Len(ready) + Len(edited)
    BY <1>2 DEF ConsInv, ConsRingInv
  <2>2. Dist(ConsMod, ce', cr) = Dist(ConsMod, ce, cr) + 1
    BY CharRing
  <2>3. Len(ready) \in Nat /\ Len(edited) \in Nat
    BY <1>2
  <2> QED
    BY <1>5, <2>1, <2>2, <2>3
<1>7. Len(ready) + Len(edited) < INPUT_BUF_SIZE
  BY <1>6, CharRing
<1>8. EndsLine(c) <=> c \in {"newline", "eof"} \/ Len(ready) + Len(line) = INPUT_BUF_SIZE
  BY <1>6, CharRing
<1>9. cr' = cr /\ ce' = Moved(ConsMod, ce, 1) /\ ce' \in 0 .. ConsMod - 1
  BY CharRing DEF Char
<1>10. CASE EndsLine(c)
  <2>1. cw' = ce'
    BY <1>10 DEF Char
  <2>2. Between(cw, ce)' = <<>>
    <3>1. Dist(ConsMod, ce', ce') = 0
      BY <1>9, ConsConstants, Ahead
    <3> QED
      BY <1>3, <2>1, <3>1 DEF Held
  <2>3. Between(cr, cw)' = ready \o line
    <3>1. PICK all : all = Held(cbuf, ConsMod, INPUT_BUF_SIZE, cr, ce)
      OBVIOUS
    <3>2. IsPut(Held(cbuf', ConsMod, INPUT_BUF_SIZE, cr, Moved(ConsMod, ce, 1)), all, c)
      BY <1>1, <3>1, CharRing, ConsConstants, HeldPut
    <3>3. IsJoin(all, ready, edited)
      BY <1>1, <1>2, <3>1, ConsConstants, HeldJoin DEF ConsInv, ConsRingInv
    <3>4. Append(ready \o edited, c) = ready \o Append(edited, c)
      BY <1>2
    <3> QED
      BY <1>3, <1>4, <1>9, <2>1, <3>2, <3>3, <3>4 DEF IsPut, IsJoin
  <2> QED
    BY <1>2, <1>4, <1>7, <1>8, <1>10, <2>2, <2>3 DEF Line!Typed, Line!Enders
<1>11. CASE ~EndsLine(c)
  <2>1. cw' = cw
    BY <1>11 DEF Char
  <2>2. Between(cr, cw)' = ready
    <3>1. Held(cbuf', ConsMod, INPUT_BUF_SIZE, cr, cw) = Held(cbuf, ConsMod, INPUT_BUF_SIZE, cr, cw)
      BY <1>1, CharRing, ConsConstants, HeldSame
    <3> QED
      BY <1>2, <1>3, <1>9, <2>1, <3>1
  <2>3. Between(cw, ce)' = line
    <3>1. IsPut(Held(cbuf', ConsMod, INPUT_BUF_SIZE, cw, Moved(ConsMod, ce, 1)),
                Held(cbuf, ConsMod, INPUT_BUF_SIZE, cw, ce), c)
      BY <1>1, CharRing, ConsConstants, HeldPut
    <3> QED
      BY <1>2, <1>3, <1>4, <1>9, <2>1, <3>1 DEF IsPut
  <2> QED
    BY <1>2, <1>4, <1>7, <1>8, <1>11, <2>2, <2>3 DEF Line!Typed, Line!Enders
<1> QED
  BY <1>10, <1>11

\* Backspace erases the last character, Control-U the line.
LEMMA BackErases ==
  ASSUME ConsInv, ConsInv', NEW k \in 0 .. Dist(ConsMod, ce, cw), ce' = Minus(ce, k),
         UNCHANGED <<cr, cw, cbuf>>
  PROVE  /\ Between(cr, cw)' = Between(cr, cw)
         /\ Between(cw, ce)' = SubSeq(Between(cw, ce), 1, Len(Between(cw, ce)) - k)
<1>1. /\ cw \in 0 .. ConsMod - 1 /\ ce \in 0 .. ConsMod - 1
      /\ Buffer(INPUT_BUF_SIZE, Stored, cbuf)
  BY Indices
<1>2. IsBack(Held(cbuf, ConsMod, INPUT_BUF_SIZE, cw, Dist(ConsMod, ce, k)),
             Held(cbuf, ConsMod, INPUT_BUF_SIZE, cw, ce), k)
  BY <1>1, ConsConstants, HeldBack
<1>3. Between(cw, ce) = Held(cbuf, ConsMod, INPUT_BUF_SIZE, cw, ce)
  BY LinesAre
<1>4. Between(cw, ce)' = Held(cbuf, ConsMod, INPUT_BUF_SIZE, cw, ce')
  BY LinesAreNext
<1>5. ce' = Dist(ConsMod, ce, k)
  BY MinusIs
<1>6. Between(cw, ce)' = SubSeq(Between(cw, ce), 1, Len(Between(cw, ce)) - k)
  BY <1>2, <1>3, <1>4, <1>5 DEF IsBack
<1>7. Between(cr, cw)' = Between(cr, cw)
  BY DEF Between, CharAt, Minus
<1> QED
  BY <1>6, <1>7

\* consoleread() takes the first character of the ended lines, or leaves an end of file.
LEMMA TakeReads ==
  ASSUME ConsInv, ConsInv', NEW p \in ConsReaders, ConsTake(p)
  PROVE  Line!ReadOne \/ UNCHANGED <<Between(cr, cw), Between(cw, ce)>>
<1>1. cr # cw /\ UNCHANGED <<cw, ce, cbuf>> /\ (cr' = cr \/ cr' = (cr + 1) % ConsMod)
  BY DEF ConsTake
<1>2. Between(cw, ce)' = Between(cw, ce)
  BY <1>1 DEF Between, CharAt, Minus
<1>3. CASE cr' = cr
  BY <1>1, <1>3, LinesStay DEF consRing
<1>4. CASE cr' = (cr + 1) % ConsMod
  <2>1. /\ cr \in 0 .. ConsMod - 1 /\ cw \in 0 .. ConsMod - 1
        /\ Buffer(INPUT_BUF_SIZE, Stored, cbuf)
    BY Indices
  <2>2. cr' = Moved(ConsMod, cr, 1) /\ 1 \in 0 .. Dist(ConsMod, cw, cr)
    BY <1>1, <1>4, TakeRing
  <2>3. Keeps(INPUT_BUF_SIZE, cbuf, cbuf, cr, 1, Dist(ConsMod, cw, cr))
    BY DEF Keeps
  <2>4. IsTake(Held(cbuf, ConsMod, INPUT_BUF_SIZE, Moved(ConsMod, cr, 1), cw),
               Held(cbuf, ConsMod, INPUT_BUF_SIZE, cr, cw), 1)
    BY <2>1, <2>2, <2>3, ConsConstants, HeldTake
  <2>5. PICK ready : /\ ready = Between(cr, cw) /\ ready = Held(cbuf, ConsMod, INPUT_BUF_SIZE, cr, cw)
                     /\ ready \in Seq(Stored) /\ Len(ready) = Dist(ConsMod, cw, cr)
    BY LinesAre
  <2>6. Between(cr, cw)' = Held(cbuf, ConsMod, INPUT_BUF_SIZE, cr', cw)
    BY <1>1, LinesAreNext
  <2>7. Between(cr, cw)' = SubSeq(ready, 2, Len(ready))
    BY <2>2, <2>4, <2>5, <2>6 DEF IsTake
  <2>8. ready # <<>>
    <3>1. Len(ready) # 0
      BY <2>2, <2>5
    <3> QED
      BY <3>1
  <2>9. Tail(ready) = SubSeq(ready, 2, Len(ready))
    BY <2>5, <2>8, TailIsSubSeq
  <2> QED
    BY <1>2, <2>5, <2>7, <2>8, <2>9 DEF Line!ReadOne
<1> QED
  BY <1>1, <1>3, <1>4

LEMMA LineStep == ConsInv /\ ConsInv' /\ [ConsNext]_consVars => [Line!LineNext]_Line!lineVars
<1> SUFFICES ASSUME ConsInv, ConsInv', [ConsNext]_consVars
             PROVE  Line!LineNext \/ UNCHANGED <<Between(cr, cw), Between(cw, ce)>>
  BY DEF Line!lineVars
<1>1. CASE UNCHANGED consVars
  BY <1>1, LinesStay DEF consVars, consRing
<1>2. ASSUME NEW c \in Stored, Char(c) PROVE Line!LineNext
  BY <1>2, CharTypes DEF Line!LineNext, Line!Enders, Stored
<1>3. Between(cw, ce) \in Seq(Stored) /\ Len(Between(cw, ce)) = Dist(ConsMod, ce, cw)
  BY LinesAre
<1>4. CASE Backspace
  <2>1. 1 \in 0 .. Dist(ConsMod, ce, cw)
    BY <1>4, Indices, ConsConstants DEF Backspace
  <2>2. /\ Between(cr, cw)' = Between(cr, cw)
        /\ Between(cw, ce)' = SubSeq(Between(cw, ce), 1, Len(Between(cw, ce)) - 1)
    BY <1>4, <2>1, BackErases DEF Backspace
  <2>3. Between(cw, ce) # <<>>
    <3>1. Len(Between(cw, ce)) # 0
      BY <1>3, <2>1
    <3> QED
      BY <3>1
  <2> QED
    BY <2>2, <2>3 DEF Line!LineNext, Line!Erase
<1>5. CASE ControlU
  <2>1. KillTo = Dist(ConsMod, ce, cw) /\ KillTo \in 0 .. Dist(ConsMod, ce, cw)
    BY KillToIs, Indices
  <2>2. /\ Between(cr, cw)' = Between(cr, cw)
        /\ Between(cw, ce)' = SubSeq(Between(cw, ce), 1, Len(Between(cw, ce)) - KillTo)
    BY <1>5, <2>1, BackErases DEF ControlU
  <2>3. Len(Between(cw, ce)) - KillTo = 0
    BY <1>3, <2>1, Indices
  <2>4. Between(cw, ce)' = <<>>
    BY <2>2, <2>3, SubSeqEmpty
  <2> QED
    BY <2>2, <2>4 DEF Line!LineNext, Line!KillLine
<1>6. ASSUME NEW p \in ConsReaders, ConsTake(p)
      PROVE  Line!LineNext \/ UNCHANGED <<Between(cr, cw), Between(cw, ce)>>
  BY <1>6, TakeReads DEF Line!LineNext
<1>7. CASE UNCHANGED consRing
  BY <1>7, LinesStay
<1> QED
  BY <1>1, <1>2, <1>4, <1>5, <1>6, <1>7
     DEF ConsNext, ConsRead, ConsAcquire, ConsWait, ConsFull, RouseReader

(***************************************************************************)
(* The console's ring with its three wrapping indices is a line editor:    *)
(* what consoleintr() has ended consoleread() reads once and in order,     *)
(* what it has not can be erased.                                          *)
(***************************************************************************)
THEOREM ConsoleImplementsLine == ConsSpec => ImplementsLine
<1>1. ConsInit => Line!LineInit
  <2> SUFFICES ASSUME ConsInit PROVE Between(cr, cw) = <<>> /\ Between(cw, ce) = <<>>
    BY DEF Line!LineInit
  <2>1. Minus(0, 0) = 0
    BY ConsConstants DEF Minus
  <2> QED
    BY <2>1 DEF ConsInit, Between
<1> QED
  BY <1>1, ConsInvariant, LineStep, PTL DEF ConsSpec, ImplementsLine, Line!LineSpec

(***************************************************************************)
(* The transmit side of the serial port.                                   *)
(***************************************************************************)
TxInv == TxOrder /\ Dist(TxMod, txw, txr) <= UART_TX_BUF_SIZE

LEMMA UartConstants ==
  /\ TxMod \in Nat \ {0} /\ UART_TX_BUF_SIZE \in Nat \ {0} /\ UART_TX_BUF_SIZE \in 0 .. TxMod - 1
  /\ Sizes(UART_TX_BUF_SIZE, TxMod)
  /\ TxBytes # {} /\ "sync" \notin TxBytes
BY UartAssumption DEF Sizes

LEMMA TxIndices ==
  ASSUME TxInv
  PROVE  /\ txw \in 0 .. TxMod - 1 /\ txr \in 0 .. TxMod - 1
         /\ Buffer(UART_TX_BUF_SIZE, TxBytes, txbuf)
         /\ Dist(TxMod, txw, txr) \in 0 .. UART_TX_BUF_SIZE
         /\ TxFull <=> Dist(TxMod, txw, txr) = UART_TX_BUF_SIZE
<1>1. txw \in 0 .. TxMod - 1 /\ txr \in 0 .. TxMod - 1 /\ Buffer(UART_TX_BUF_SIZE, TxBytes, txbuf)
  BY DEF TxInv, TxOrder, UartTypeOK, Buffer
<1>2. Dist(TxMod, txw, txr) \in 0 .. TxMod - 1
  BY <1>1, UartConstants, Ahead
<1>3. Dist(TxMod, txw, txr) \in 0 .. UART_TX_BUF_SIZE
  BY <1>2, UartConstants DEF TxInv
<1>4. TxFull <=> txw = Moved(TxMod, txr, UART_TX_BUF_SIZE)
  BY DEF TxFull, Moved
<1>5. Dist(TxMod, Moved(TxMod, txr, UART_TX_BUF_SIZE), txr) = UART_TX_BUF_SIZE
  BY <1>1, UartConstants, AheadBy
<1>6. txw = Moved(TxMod, txr, Dist(TxMod, txw, txr))
  BY <1>1, UartConstants, Ahead
<1> QED
  BY <1>1, <1>3, <1>4, <1>5, <1>6

LEMMA HeadAndTail ==
  ASSUME NEW S, NEW s \in Seq(S), s # <<>>
  PROVE  <<s[1]>> \o Tail(s) = s
<1>1. Tail(s) \in Seq(S) /\ Len(Tail(s)) = Len(s) - 1
      /\ \A i \in 1 .. Len(Tail(s)) : Tail(s)[i] = s[i + 1]
  BY HeadTailProperties
<1>2. Len(s) \in Nat /\ Len(s) # 0 /\ s[1] \in S
  OBVIOUS
<1>3. PICK h : h = <<s[1]>> /\ h \in Seq(S) /\ Len(h) = 1 /\ h[1] = s[1]
  <2>1. <<s[1]>> \in Seq(S) /\ Len(<<s[1]>>) = 1 /\ <<s[1]>>[1] = s[1]
    BY <1>2
  <2> QED
    BY <2>1, Zenon
<1>4. /\ h \o Tail(s) \in Seq(S) /\ Len(h \o Tail(s)) = Len(s)
      /\ \A i \in 1 .. Len(s) : (h \o Tail(s))[i] = IF i <= 1 THEN h[i] ELSE Tail(s)[i - 1]
  BY <1>1, <1>2, <1>3, ConcatProperties
<1>5. ASSUME NEW i \in 1 .. Len(s) PROVE (h \o Tail(s))[i] = s[i]
  <2>1. CASE i = 1
    BY <1>2, <1>3, <1>4, <2>1
  <2>2. CASE i # 1
    <3>1. i - 1 \in 1 .. Len(Tail(s)) /\ (i - 1) + 1 = i
      BY <1>1, <1>2, <2>2
    <3>2. (h \o Tail(s))[i] = Tail(s)[i - 1]
      BY <1>2, <1>4, <2>2
    <3> QED
      BY <1>1, <3>1, <3>2
  <2> QED
    BY <2>1, <2>2
<1>6. h \o Tail(s) = s
  BY <1>4, <1>5, SeqEqual
<1> QED
  BY <1>3, <1>6

LEMMA InUartTyped ==
  ASSUME TxInv
  PROVE  InUart \in Seq(TxBytes)
<1>1. thr \in Seq(TxBytes \cup {"sync"})
  BY DEF TxInv, TxOrder, UartTypeOK
<1>2. CASE thr # <<>> /\ thr[1] # "sync"
  <2>1. thr[1] \in TxBytes
    BY <1>1, <1>2
  <2> QED
    BY <1>2, <2>1 DEF InUart
<1>3. CASE ~(thr # <<>> /\ thr[1] # "sync")
  BY <1>3 DEF InUart
<1> QED
  BY <1>2, <1>3

\* What uartstart() does to what is owed: nothing.  It writes to an idle UART and
\* wakes every sleeper.
LEMMA StartRight ==
  ASSUME TxInv, NEW at, Uartstart(txbuf', txw', at), Buffer(UART_TX_BUF_SIZE, TxBytes, txbuf'),
         txw' \in 0 .. TxMod - 1, Dist(TxMod, txw', txr) \in 0 .. UART_TX_BUF_SIZE,
         owed' = InUart \o Held(txbuf', TxMod, UART_TX_BUF_SIZE, txr, txw')
  PROVE  /\ txr' \in 0 .. TxMod - 1 /\ Dist(TxMod, txw', txr') <= UART_TX_BUF_SIZE
         /\ thr' \in Seq(TxBytes \cup {"sync"}) /\ \A i \in 2 .. Len(thr') : thr'[i] = "sync"
         /\ owed' = InUart' \o Ring' /\ owed' \in Seq(TxBytes)
         /\ txw' # txr' => ~Idle'
<1>1. txr \in 0 .. TxMod - 1
  BY TxIndices
<1>2. PICK held : held = Held(txbuf', TxMod, UART_TX_BUF_SIZE, txr, txw')
  OBVIOUS
<1>3. Reads(held, TxBytes, txbuf', UART_TX_BUF_SIZE, txr, Dist(TxMod, txw', txr))
  BY <1>1, <1>2, UartConstants, HeldIs
<1>4. held \in Seq(TxBytes) /\ Len(held) = Dist(TxMod, txw', txr)
  BY <1>3 DEF Reads
<1>5. Ring' = Held(txbuf', TxMod, UART_TX_BUF_SIZE, txr', txw')
  BY DEF Ring, Held, TxUsed, Dist
<1>6. thr \in Seq(TxBytes \cup {"sync"}) /\ \A i \in 2 .. Len(thr) : thr[i] = "sync"
  BY DEF TxInv, TxOrder, UartTypeOK
<1>7. InUart \in Seq(TxBytes)
  BY InUartTyped
<1>8. owed' \in Seq(TxBytes)
  BY <1>2, <1>4, <1>7, ConcatProperties
<1>9. CASE TxUsed(txw', txr) > 0 /\ Idle
  <2>1. thr' = <<txbuf'[txr % UART_TX_BUF_SIZE]>> /\ txr' = Moved(TxMod, txr, 1) /\ thr = <<>>
    BY <1>9 DEF Uartstart, Moved, Idle
  <2>2. 1 \in 0 .. Dist(TxMod, txw', txr)
    BY <1>9 DEF TxUsed, Dist
  <2>3. /\ txr' \in 0 .. TxMod - 1
        /\ Dist(TxMod, txw', txr') = Dist(TxMod, txw', txr) - 1
    BY <1>1, <2>1, <2>2, UartConstants, MoveStart
  <2>4. held # <<>>
    <3>1. Len(held) # 0
      BY <1>4, <2>2
    <3> QED
      BY <3>1
  <2>5. held[1] = txbuf'[txr % UART_TX_BUF_SIZE] /\ held[1] \in TxBytes
    <3>1. held[1] = txbuf'[At(UART_TX_BUF_SIZE, txr, 1 - 1)]
      <4>1. 1 \in 1 .. Dist(TxMod, txw', txr)
        BY <2>2
      <4> QED
        BY <1>3, <4>1, Zenon DEF Reads
    <3>2. At(UART_TX_BUF_SIZE, txr, 1 - 1) = txr % UART_TX_BUF_SIZE
      <4>1. txr + (1 - 1) = txr
        BY <1>1, UartConstants
      <4> QED
        BY <4>1 DEF At
    <3>3. held[1] \in TxBytes
      BY <1>4, <2>2
    <3> QED
      BY <3>1, <3>2, <3>3
  <2>6. Ring' = Tail(held)
    <3>1. Keeps(UART_TX_BUF_SIZE, txbuf', txbuf', txr, 1, Dist(TxMod, txw', txr))
      BY DEF Keeps
    <3>2. IsTake(Held(txbuf', TxMod, UART_TX_BUF_SIZE, Moved(TxMod, txr, 1), txw'), held, 1)
      BY <1>1, <1>2, <2>2, <3>1, UartConstants, HeldTake
    <3>3. Tail(held) = SubSeq(held, 2, Len(held))
      BY <1>4, <2>4, TailIsSubSeq
    <3>4. Held(txbuf', TxMod, UART_TX_BUF_SIZE, Moved(TxMod, txr, 1), txw') = SubSeq(held, 2, Len(held))
      BY <3>2 DEF IsTake
    <3> QED
      BY <1>5, <2>1, <3>3, <3>4
  <2>7. thr' = <<held[1]>> /\ held[1] # "sync"
    BY <2>1, <2>5, UartConstants
  <2>8. InUart' = <<held[1]>>
    BY <2>7 DEF InUart
  <2>9. owed' = InUart' \o Ring'
    <3>1. InUart = <<>>
      BY <2>1 DEF InUart
    <3>2. owed' = held
      BY <1>2, <1>4, <3>1, ConcatEmptySeq
    <3> QED
      BY <1>4, <2>4, <2>6, <2>8, <3>2, HeadAndTail
  <2>10. thr' \in Seq(TxBytes \cup {"sync"}) /\ Len(thr') = 1 /\ ~Idle'
    BY <2>5, <2>7 DEF Idle
  <2>11. Dist(TxMod, txw', txr') <= UART_TX_BUF_SIZE
    BY <2>2, <2>3, UartConstants
  <2> QED
    BY <1>8, <2>3, <2>9, <2>10, <2>11
<1>10. CASE ~(TxUsed(txw', txr) > 0 /\ Idle)
  <2>1. thr' = thr /\ txr' = txr
    BY <1>10 DEF Uartstart
  <2>2. InUart' = InUart
    BY <2>1 DEF InUart
  <2>3. Dist(TxMod, txw', txr) = 0 => txw' = txr
    BY <1>1, UartConstants, Ahead
  <2>4. txw' # txr' => ~Idle'
    BY <1>10, <2>1, <2>3 DEF Idle, TxUsed, Dist
  <2>5. Dist(TxMod, txw', txr') <= UART_TX_BUF_SIZE
    BY <2>1, UartConstants
  <2> QED
    BY <1>1, <1>5, <1>6, <1>8, <2>1, <2>2, <2>4, <2>5
<1> QED
  BY <1>9, <1>10

LEMMA TxInvInit == UartInit => TxInv
<1> SUFFICES ASSUME UartInit PROVE TxInv
  OBVIOUS
<1>1. 0 \in 0 .. TxMod - 1 /\ (CHOOSE b \in TxBytes : TRUE) \in TxBytes
  BY UartConstants
<1>2. UartTypeOK
  <2>1. txbuf \in [0 .. UART_TX_BUF_SIZE - 1 -> TxBytes] /\ char \in [Printers -> TxBytes]
    BY <1>1 DEF UartInit
  <2>2. thr \in Seq(TxBytes \cup {"sync"}) /\ owed \in Seq(TxBytes)
    BY DEF UartInit
  <2> QED
    BY <1>1, <2>1, <2>2 DEF UartInit, UartTypeOK
<1>3. Dist(TxMod, txw, txr) = 0 /\ TxUsed(txw, txr) = 0
  <2>1. Dist(TxMod, txw, txr) = 0
    BY <1>1, UartConstants, Ahead DEF UartInit
  <2> QED
    BY <2>1 DEF Dist, TxUsed
<1>4. owed = InUart \o Ring /\ \A i \in 2 .. Len(thr) : thr[i] = "sync"
  <2>1. InUart = <<>> /\ Ring = <<>> /\ owed = <<>> /\ Len(thr) = 0
    BY <1>3 DEF UartInit, InUart, Ring
  <2> QED
    BY <2>1
<1>5. TxOrder
  BY <1>2, <1>4 DEF TxOrder, UartInit
<1> QED
  BY <1>3, <1>5, UartConstants DEF TxInv

\* The steps that leave the ring and the UART alone.
LEMMA PrinterStep ==
  ASSUME TxInv, UNCHANGED <<txbuf, txw, txr, thr, txirq, owed>>, syncing' \in BOOLEAN,
         putc' \in [Printers -> {"user", "go", "asleep"}], char' \in [Printers -> TxBytes],
         \A p \in Printers : putc'[p] = "asleep" => putc[p] = "asleep" \/ TxFull
  PROVE  TxInv'
<1>1. UartTypeOK'
  BY DEF TxInv, TxOrder, UartTypeOK
<1>2. InUart' = InUart /\ Ring' = Ring /\ (TxFull' <=> TxFull) /\ (Idle' <=> Idle)
  BY DEF InUart, Ring, TxUsed, TxFull, Idle
<1> QED
  BY <1>1, <1>2 DEF TxInv, TxOrder

LEMMA SyncStep ==
  ASSUME TxInv, SyncWrites
  PROVE  TxInv'
<1>1. thr \in Seq(TxBytes \cup {"sync"}) /\ \A i \in 2 .. Len(thr) : thr[i] = "sync"
  BY DEF TxInv, TxOrder, UartTypeOK
<1>2. thr' = Append(thr, "sync") /\ syncing' = FALSE /\ UNCHANGED <<txbuf, txw, txr, txirq, putc, char, owed>>
  BY DEF SyncWrites
<1>3. /\ thr' \in Seq(TxBytes \cup {"sync"}) /\ thr' # <<>> /\ Len(thr') = Len(thr) + 1
      /\ \A i \in 1 .. Len(thr) : thr'[i] = thr[i]
      /\ thr'[Len(thr) + 1] = "sync"
  BY <1>1, <1>2, AppendProperties
<1>4. ASSUME NEW i \in 2 .. Len(thr') PROVE thr'[i] = "sync"
  <2>1. CASE i = Len(thr) + 1
    BY <1>3, <2>1
  <2>2. CASE i # Len(thr) + 1
    <3>1. i \in 2 .. Len(thr) /\ i \in 1 .. Len(thr)
      BY <1>1, <1>3, <2>2
    <3> QED
      BY <1>1, <1>3, <3>1
  <2> QED
    BY <2>1, <2>2
<1>5. InUart' = InUart
  <2>1. CASE thr = <<>>
    <3>1. thr'[1] = "sync"
      <4>1. Len(thr) = 0
        BY <2>1
      <4> QED
        BY <1>3, <4>1
    <3> QED
      BY <2>1, <3>1 DEF InUart
  <2>2. CASE thr # <<>>
    <3>1. 1 \in 1 .. Len(thr)
      BY <1>1, <2>2
    <3>2. thr'[1] = thr[1]
      BY <1>3, <3>1
    <3> QED
      BY <1>3, <2>2, <3>2 DEF InUart
  <2> QED
    BY <2>1, <2>2
<1>6. Ring' = Ring /\ (TxFull' <=> TxFull) /\ ~Idle'
  BY <1>2, <1>3 DEF Ring, TxUsed, TxFull, Idle
<1>7. UartTypeOK'
  BY <1>2, <1>3 DEF TxInv, TxOrder, UartTypeOK
<1> QED
  BY <1>2, <1>4, <1>5, <1>6, <1>7 DEF TxInv, TxOrder

LEMMA RingTyped ==
  ASSUME TxInv
  PROVE  /\ Ring = Held(txbuf, TxMod, UART_TX_BUF_SIZE, txr, txw)
         /\ Ring \in Seq(TxBytes)
<1>1. Ring = Held(txbuf, TxMod, UART_TX_BUF_SIZE, txr, txw)
  BY DEF Ring, Held, TxUsed, Dist
<1>2. Reads(Held(txbuf, TxMod, UART_TX_BUF_SIZE, txr, txw), TxBytes, txbuf, UART_TX_BUF_SIZE, txr,
            Dist(TxMod, txw, txr))
  BY TxIndices, UartConstants, HeldIs
<1> QED
  BY <1>1, <1>2 DEF Reads

LEMMA SentStep ==
  ASSUME TxInv, Sent
  PROVE  TxInv'
<1>1. /\ thr \in Seq(TxBytes \cup {"sync"}) /\ \A i \in 2 .. Len(thr) : thr[i] = "sync"
      /\ owed = InUart \o Ring /\ owed \in Seq(TxBytes) /\ txirq \in BOOLEAN
  BY DEF TxInv, TxOrder, UartTypeOK
<1>2. /\ thr # <<>> /\ thr' = Tail(thr)
      /\ owed' = IF Head(thr) = "sync" THEN owed ELSE Tail(owed)
      /\ UNCHANGED <<txbuf, txw, txr, syncing, putc, char>>
      /\ txirq' = (txirq \/ thr' = <<>>)
  BY DEF Sent
<1>3. /\ thr' \in Seq(TxBytes \cup {"sync"}) /\ Len(thr') = Len(thr) - 1
      /\ \A i \in 1 .. Len(thr') : thr'[i] = thr[i + 1]
  BY <1>1, <1>2, HeadTailProperties
<1>4. ASSUME NEW i \in 1 .. Len(thr') PROVE thr'[i] = "sync"
  <2>1. i + 1 \in 2 .. Len(thr)
    BY <1>1, <1>3
  <2> QED
    BY <1>1, <1>3, <2>1
<1>5. InUart' = <<>>
  <2>1. CASE thr' = <<>>
    BY <2>1 DEF InUart
  <2>2. CASE thr' # <<>>
    <3>1. 1 \in 1 .. Len(thr')
      BY <1>3, <2>2
    <3>2. thr'[1] = "sync"
      BY <1>4, <3>1
    <3> QED
      BY <3>2 DEF InUart
  <2> QED
    BY <2>1, <2>2
<1>6. Ring' = Ring /\ (TxFull' <=> TxFull) /\ Ring \in Seq(TxBytes)
  BY <1>2, RingTyped DEF Ring, TxUsed, TxFull
<1>7. owed' = Ring
  <2>1. Head(thr) = thr[1]
    BY <1>1, <1>2
  <2>2. CASE thr[1] = "sync"
    <3>1. InUart = <<>>
      BY <2>2 DEF InUart
    <3>2. owed = Ring
      BY <1>1, <1>6, <3>1, ConcatEmptySeq
    <3> QED
      BY <1>2, <2>1, <2>2, <3>2
  <2>3. CASE thr[1] # "sync"
    <3>1. InUart = <<thr[1]>> /\ thr[1] \in TxBytes
      <4>1. thr[1] \in TxBytes \cup {"sync"}
        BY <1>1, <1>2
      <4> QED
        BY <1>2, <2>3, <4>1 DEF InUart
    <3>2. Tail(<<thr[1]>> \o Ring) = Ring
      BY <1>6, <3>1
    <3> QED
      BY <1>1, <1>2, <2>1, <2>3, <3>1, <3>2
  <2> QED
    BY <2>2, <2>3
<1>8. owed' = InUart' \o Ring'
  BY <1>5, <1>6, <1>7, ConcatEmptySeq
<1>9. \A i \in 2 .. Len(thr') : thr'[i] = "sync"
  BY <1>3, <1>4
<1>10. UartTypeOK'
  <2>1. txirq' \in BOOLEAN
    BY <1>1, <1>2
  <2> QED
    BY <1>2, <1>3, <1>6, <1>7, <2>1 DEF TxInv, TxOrder, UartTypeOK
<1>11. txw' # txr' => ~Idle' \/ txirq'
  BY <1>1, <1>2 DEF Idle
<1> QED
  BY <1>2, <1>6, <1>8, <1>9, <1>10, <1>11 DEF TxInv, TxOrder

\* uartputc() and uartintr() end in uartstart(), which wakes whoever could sleep.
LEMMA StartTypes ==
  ASSUME TxInv, NEW buf, NEW w, NEW at, \A q \in DOMAIN at : at[q] = "user", Uartstart(buf, w, at)
  PROVE  /\ putc' \in [Printers -> {"user", "go", "asleep"}]
         /\ \A p \in Printers : putc'[p] = "asleep" => putc[p] = "asleep" /\ txr' = txr
<1>1. putc \in [Printers -> {"user", "go", "asleep"}]
  BY DEF TxInv, TxOrder, UartTypeOK
<1>2. CASE TxUsed(w, txr) > 0 /\ Idle
  BY <1>1, <1>2 DEF Uartstart, StartWakes
<1>3. CASE ~(TxUsed(w, txr) > 0 /\ Idle)
  BY <1>1, <1>3 DEF Uartstart
<1> QED
  BY <1>2, <1>3

LEMMA StoreStep ==
  ASSUME TxInv, NEW p \in Printers, PutcStore(p)
  PROVE  TxInv'
<1>1. /\ txw \in 0 .. TxMod - 1 /\ txr \in 0 .. TxMod - 1
      /\ Buffer(UART_TX_BUF_SIZE, TxBytes, txbuf)
      /\ Dist(TxMod, txw, txr) \in 0 .. UART_TX_BUF_SIZE
      /\ Dist(TxMod, txw, txr) # UART_TX_BUF_SIZE
  BY TxIndices DEF PutcStore
<1>2. char[p] \in TxBytes /\ char \in [Printers -> TxBytes] /\ syncing \in BOOLEAN /\ txirq \in BOOLEAN
  BY DEF TxInv, TxOrder, UartTypeOK
<1>3. Dist(TxMod, txw, txr) < UART_TX_BUF_SIZE /\ Dist(TxMod, txw, txr) + 1 < TxMod
  BY <1>1, UartConstants
<1>4. /\ Stores(UART_TX_BUF_SIZE, txbuf, txbuf', txw, char[p]) /\ txw' = Moved(TxMod, txw, 1)
      /\ owed' = Append(owed, char[p]) /\ UNCHANGED <<syncing, txirq, char>>
      /\ Uartstart(txbuf', txw', [q \in {p} |-> "user"])
  BY DEF PutcStore, Stores, Moved
<1>5. Buffer(UART_TX_BUF_SIZE, TxBytes, txbuf')
  BY <1>1, <1>2, <1>3, <1>4, UartConstants, StoreKeeps
<1>6. txw' \in 0 .. TxMod - 1
  BY <1>1, <1>3, <1>4, UartConstants, MoveEnd
<1>7. Dist(TxMod, txw', txr) \in 0 .. UART_TX_BUF_SIZE
  <2>1. Dist(TxMod, Moved(TxMod, txw, 1), txr) = Dist(TxMod, txw, txr) + 1
    BY <1>1, <1>3, UartConstants, MoveEnd
  <2> QED
    BY <1>1, <1>3, <1>4, <2>1, UartConstants
<1>8. owed' = InUart \o Held(txbuf', TxMod, UART_TX_BUF_SIZE, txr, txw')
  <2>1. IsPut(Held(txbuf', TxMod, UART_TX_BUF_SIZE, txr, Moved(TxMod, txw, 1)),
              Held(txbuf, TxMod, UART_TX_BUF_SIZE, txr, txw), char[p])
    BY <1>1, <1>2, <1>3, <1>4, UartConstants, HeldPut
  <2>2. Held(txbuf', TxMod, UART_TX_BUF_SIZE, txr, txw') = Append(Ring, char[p])
    BY <1>4, <2>1, RingTyped DEF IsPut
  <2>3. owed = InUart \o Ring /\ Ring \in Seq(TxBytes) /\ InUart \in Seq(TxBytes)
    BY RingTyped, InUartTyped DEF TxInv, TxOrder
  <2>4. PICK b \in TxBytes : b = char[p]
    BY <1>2
  <2>5. PICK f \in Seq(TxBytes), g \in Seq(TxBytes) : f = InUart /\ g = Ring
    BY <2>3
  <2>6. Append(f \o g, b) = f \o Append(g, b)
    OBVIOUS
  <2> QED
    BY <1>4, <2>2, <2>3, <2>4, <2>5, <2>6
<1>9. /\ txr' \in 0 .. TxMod - 1 /\ Dist(TxMod, txw', txr') <= UART_TX_BUF_SIZE
      /\ thr' \in Seq(TxBytes \cup {"sync"}) /\ \A i \in 2 .. Len(thr') : thr'[i] = "sync"
      /\ owed' = InUart' \o Ring' /\ owed' \in Seq(TxBytes)
      /\ txw' # txr' => ~Idle'
  BY <1>4, <1>5, <1>6, <1>7, <1>8, StartRight
<1>10. /\ putc' \in [Printers -> {"user", "go", "asleep"}]
       /\ \A q \in Printers : putc'[q] # "asleep"
  <2>1. \A q \in Printers : putc[q] # "asleep"
    BY <1>1, TxIndices DEF TxInv, TxOrder
  <2>2. PICK at : at = [q \in {p} |-> "user"]
    OBVIOUS
  <2>3. \A q \in DOMAIN at : at[q] = "user"
    BY <2>2
  <2> QED
    BY <1>4, <2>1, <2>2, <2>3, StartTypes
<1>11. UartTypeOK'
  BY <1>2, <1>4, <1>5, <1>6, <1>9, <1>10 DEF UartTypeOK, Buffer
<1> QED
  BY <1>9, <1>10, <1>11 DEF TxInv, TxOrder

LEMMA IntrStep ==
  ASSUME TxInv, Uartintr
  PROVE  TxInv'
<1>1. /\ txw \in 0 .. TxMod - 1 /\ Buffer(UART_TX_BUF_SIZE, TxBytes, txbuf)
      /\ Dist(TxMod, txw, txr) \in 0 .. UART_TX_BUF_SIZE
  BY TxIndices
<1>2. /\ UNCHANGED <<txbuf, txw, syncing, char, owed>> /\ txirq' = FALSE
      /\ Uartstart(txbuf', txw', [q \in {} |-> "user"])
  BY DEF Uartintr, Uartstart
<1>3. owed' = InUart \o Held(txbuf', TxMod, UART_TX_BUF_SIZE, txr, txw')
  BY <1>2, RingTyped DEF TxInv, TxOrder
<1>4. /\ txr' \in 0 .. TxMod - 1 /\ Dist(TxMod, txw', txr') <= UART_TX_BUF_SIZE
      /\ thr' \in Seq(TxBytes \cup {"sync"}) /\ \A i \in 2 .. Len(thr') : thr'[i] = "sync"
      /\ owed' = InUart' \o Ring' /\ owed' \in Seq(TxBytes)
      /\ txw' # txr' => ~Idle'
  BY <1>1, <1>2, <1>3, StartRight
<1>5. /\ putc' \in [Printers -> {"user", "go", "asleep"}]
      /\ \A q \in Printers : putc'[q] = "asleep" => putc[q] = "asleep" /\ txr' = txr
  <2>1. PICK at : at = [q \in {} |-> "user"] /\ \A q \in DOMAIN at : at[q] = "user"
    OBVIOUS
  <2> QED
    BY <1>2, <2>1, StartTypes
<1>6. \A q \in Printers : putc'[q] = "asleep" => TxFull'
  BY <1>2, <1>5 DEF TxInv, TxOrder, TxFull
<1>7. UartTypeOK'
  BY <1>1, <1>2, <1>4, <1>5 DEF TxInv, TxOrder, UartTypeOK
<1> QED
  BY <1>4, <1>6, <1>7 DEF TxInv, TxOrder

LEMMA TxInvStep == TxInv /\ [UartNext]_uartVars => TxInv'
<1> SUFFICES ASSUME TxInv, [UartNext]_uartVars PROVE TxInv'
  OBVIOUS
<1>0. /\ putc \in [Printers -> {"user", "go", "asleep"}] /\ char \in [Printers -> TxBytes]
      /\ syncing \in BOOLEAN
  BY DEF TxInv, TxOrder, UartTypeOK
<1>1. CASE UNCHANGED uartVars
  BY <1>0, <1>1, PrinterStep DEF uartVars
<1>2. ASSUME NEW p \in Printers, NEW b \in TxBytes, Putc(p, b) PROVE TxInv'
  BY <1>0, <1>2, PrinterStep DEF Putc
<1>3. ASSUME NEW p \in Printers, PutcWait(p) PROVE TxInv'
  BY <1>0, <1>3, PrinterStep DEF PutcWait
<1>4. ASSUME NEW p \in Printers, RousePrinter(p) PROVE TxInv'
  BY <1>0, <1>4, PrinterStep DEF RousePrinter
<1>5. CASE SyncWaits
  BY <1>0, <1>5, PrinterStep DEF SyncWaits
<1> QED
  BY <1>1, <1>2, <1>3, <1>4, <1>5, StoreStep, SyncStep, SentStep, IntrStep DEF UartNext

(***************************************************************************)
(* Every byte that uartputc() has taken is still on its way, in order, a   *)
(* writer sleeps only on a full ring, and while the ring holds anything    *)
(* the UART is busy or its interrupt is due (uartstart(), uartintr()).     *)
(***************************************************************************)
THEOREM TransmitInOrder == UartSpec => []TxOrder
<1>1. TxInv => TxOrder
  BY DEF TxInv
<1> QED
  BY <1>1, TxInvInit, TxInvStep, PTL DEF UartSpec
=============================================================================
