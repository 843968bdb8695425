------------------------------ MODULE PipeFifo ------------------------------
(***************************************************************************)
(* What a pipe promises: a bounded queue of bytes with two ends that can   *)
(* be closed.  Bytes come out in the order in which they went in.          *)
(***************************************************************************)
EXTENDS Naturals, Sequences

CONSTANTS Bytes, Capacity

VARIABLES queue, readable, writable

fifoVars == <<queue, readable, writable>>

FifoInit == queue = <<>> /\ readable = TRUE /\ writable = TRUE

\* nobody writes to a pipe that nobody can read
Put(b) ==
  /\ readable /\ writable /\ Len(queue) < Capacity
  /\ queue' = Append(queue, b)
  /\ UNCHANGED <<readable, writable>>

\* a read takes bytes from the front
Take(k) ==
  /\ readable /\ k <= Len(queue)
  /\ queue' = SubSeq(queue, k + 1, Len(queue))
  /\ UNCHANGED <<readable, writable>>

CloseWrite == writable /\ writable' = FALSE /\ UNCHANGED <<queue, readable>>

CloseRead == readable /\ readable' = FALSE /\ UNCHANGED <<queue, writable>>

FifoNext ==
  \/ \E b \in Bytes : Put(b)
  \/ \E k \in 1 .. Capacity : Take(k)
  \/ CloseWrite \/ CloseRead

FifoSpec == FifoInit /\ [][FifoNext]_fifoVars
=============================================================================
