------------------------------ MODULE Console -------------------------------
(***************************************************************************)
(* The input side of kernel/console.c: the ring cons.buf with its read,    *)
(* write and edit indices, which count for ever in ConsWidth bits;         *)
(* consoleintr() for each character and consoleread() by several           *)
(* processes, which may be killed.                                         *)
(*                                                                         *)
(* consoleintr() holds cons.lock throughout and is one step.               *)
(* consoleread() holds it between sleeps and takes one step per character. *)
(***************************************************************************)
EXTENDS Naturals, Sequences

CONSTANTS
  ConsReaders, NoReader,
  Plain,              \* ordinary characters
  INPUT_BUF_SIZE,
  ConsWidth,          \* bits of cons.r, cons.w, cons.e (32)
  MaxRead             \* bound: the largest n of a read()

ConsMod == 2 ^ ConsWidth
Stored == Plain \cup {"newline", "eof"}

\* The indices can tell a full buffer from an empty one, and wrap where the ring does
\* (128 divides 2^32).
ASSUME ConsAssumption ==
  /\ ConsWidth \in Nat /\ ConsMod \in Nat /\ INPUT_BUF_SIZE \in Nat \ {0} /\ MaxRead \in Nat
  /\ INPUT_BUF_SIZE < ConsMod /\ ConsMod % INPUT_BUF_SIZE = 0
  /\ NoReader \notin ConsReaders /\ Plain \cap {"newline", "eof"} = {}

VARIABLES
  cr, cw, ce, cbuf,   \* cons.r, cons.w, cons.e, cons.buf
  consLock,           \* the reader that holds cons.lock
  reader,             \* where each process is
  want, got           \* n still to read, bytes read

consVars == <<cr, cw, ce, cbuf, consLock, reader, want, got>>
consRing == <<cr, cw, ce, cbuf>>

ConsInit ==
  /\ cr = 0 /\ cw = 0 /\ ce = 0
  /\ cbuf = [k \in 0 .. INPUT_BUF_SIZE - 1 |-> "newline"]
  /\ consLock = NoReader
  /\ reader = [p \in ConsReaders |-> "user"]
  /\ want = [p \in ConsReaders |-> 0]
  /\ got = [p \in ConsReaders |-> 0]

Minus(a, b) == (a - b + ConsMod) % ConsMod
CharAt(i) == cbuf[i % INPUT_BUF_SIZE]

\* the readers asleep on cons.r
ConsWake == [p \in ConsReaders |-> IF reader[p] = "asleep" THEN "lock" ELSE reader[p]]

\* Mutant of Room: one character too many is taken in.
RoomOneMore == Minus(ce, cr) <= INPUT_BUF_SIZE

Room == Minus(ce, cr) < INPUT_BUF_SIZE

\* evaluated after cons.e++
EndsLine(c) == c \in {"newline", "eof"} \/ Minus(ce + 1, cr) = INPUT_BUF_SIZE

\* the default case of consoleintr(); \r has been turned into a newline
Char(c) ==
  /\ consLock = NoReader /\ Room
  /\ cbuf' = [cbuf EXCEPT ![ce % INPUT_BUF_SIZE] = c]
  /\ ce' = (ce + 1) % ConsMod
  /\ IF EndsLine(c) THEN cw' = ce' /\ reader' = ConsWake
                    ELSE UNCHANGED <<cw, reader>>
  /\ UNCHANGED <<cr, consLock, want, got>>

\* Control-H or Delete
Backspace ==
  /\ consLock = NoReader /\ ce # cw
  /\ ce' = Minus(ce, 1)
  /\ UNCHANGED <<cr, cw, cbuf, consLock, reader, want, got>>

\* Control-U goes back to the write index or to a newline, whichever is first
KillTo == CHOOSE k \in 0 .. Minus(ce, cw) :
  /\ \A j \in 1 .. k : CharAt(Minus(ce, j)) # "newline"
  /\ k = Minus(ce, cw) \/ CharAt(Minus(ce, k + 1)) = "newline"

ControlU ==
  /\ consLock = NoReader
  /\ ce' = Minus(ce, KillTo)
  /\ UNCHANGED <<cr, cw, cbuf, consLock, reader, want, got>>

\* consoleread() is called
ConsRead(p, n) ==
  /\ reader[p] = "user"
  /\ reader' = [reader EXCEPT ![p] = "lock"]
  /\ want' = [want EXCEPT ![p] = n]
  /\ UNCHANGED <<consRing, consLock, got>>

\* acquire(&cons.lock), also at the end of sleep()
ConsAcquire(p) ==
  /\ reader[p] = "lock" /\ consLock = NoReader
  /\ consLock' = p /\ reader' = [reader EXCEPT ![p] = "loop"]
  /\ UNCHANGED <<consRing, want, got>>

ConsReturn(p) ==
  /\ consLock' = NoReader /\ reader' = [reader EXCEPT ![p] = "user"]
  /\ want' = [want EXCEPT ![p] = 0] /\ got' = [got EXCEPT ![p] = 0]

\* nothing to read: sleep(&cons.r), or return -1 when killed
ConsWait(p) ==
  /\ consLock = p /\ reader[p] = "loop" /\ want[p] > 0 /\ cr = cw
  /\ \/ /\ consLock' = NoReader /\ reader' = [reader EXCEPT ![p] = "asleep"]
        /\ UNCHANGED <<want, got>>
     \/ ConsReturn(p)
  /\ UNCHANGED consRing

\* n < target
Pushback(p) == got[p] > 0

\* one character: the end of file ends the read, and is left for the next one
\* unless this one returns 0; copyout() may fail; a newline ends the read
ConsTake(p) ==
  /\ consLock = p /\ reader[p] = "loop" /\ want[p] > 0 /\ cr # cw
  /\ LET c == CharAt(cr)
     IN /\ cr' = IF c = "eof" /\ Pushback(p) THEN cr ELSE (cr + 1) % ConsMod
        /\ \/ ConsReturn(p)
           \/ /\ c \notin {"eof", "newline"}
              /\ want' = [want EXCEPT ![p] = @ - 1]
              /\ got' = [got EXCEPT ![p] = @ + 1]
              /\ UNCHANGED <<consLock, reader>>
  /\ UNCHANGED <<cw, ce, cbuf>>

\* n bytes have been read
ConsFull(p) ==
  /\ consLock = p /\ reader[p] = "loop" /\ want[p] = 0
  /\ ConsReturn(p)
  /\ UNCHANGED consRing

\* kill() or unfreeze()
RouseReader(p) ==
  /\ reader[p] = "asleep"
  /\ reader' = [reader EXCEPT ![p] = "lock"]
  /\ UNCHANGED <<consRing, consLock, want, got>>

ConsNext ==
  \/ Backspace \/ ControlU \/ \E c \in Stored : Char(c)
  \/ \E p \in ConsReaders : \/ \E n \in 0 .. MaxRead : ConsRead(p, n)
                            \/ ConsAcquire(p) \/ ConsWait(p) \/ ConsTake(p)
                            \/ ConsFull(p) \/ RouseReader(p)

ConsSpec == ConsInit /\ [][ConsNext]_consVars

(***************************************************************************)
(* Properties.                                                             *)
(***************************************************************************)
\* Every variable has its type.
ConsTypeOK ==
  /\ {cr, cw, ce} \subseteq 0 .. ConsMod - 1
  /\ cbuf \in [0 .. INPUT_BUF_SIZE - 1 -> Stored]
  /\ consLock \in ConsReaders \cup {NoReader}
  /\ reader \in [ConsReaders -> {"user", "lock", "loop", "asleep"}]
  /\ want \in [ConsReaders -> 0 .. MaxRead] /\ got \in [ConsReaders -> 0 .. MaxRead]

Between(a, b) == [k \in 1 .. Minus(b, a) |-> CharAt(a + k - 1)]

Line == INSTANCE LineInput WITH
  Size <- INPUT_BUF_SIZE, ready <- Between(cr, cw), edited <- Between(cw, ce)

\* The ring with its three indices is a line editor: what has been ended can be
\* read once and in order, what has not can still be erased, across the wrap of
\* the indices and with several readers.
ImplementsLine == Line!LineSpec

\* Nobody sleeps beside a line that can be read, and a full buffer can always be
\* read, so a line longer than the buffer does not block the keyboard for good.
ConsReadable ==
  /\ ConsTypeOK
  /\ \A p \in ConsReaders : reader[p] = "asleep" => cr = cw
  /\ ~Room => cw = ce
=============================================================================
