-------------------------------- MODULE Uart --------------------------------
(***************************************************************************)
(* The output side of kernel/uart.c: the transmit ring filled by write()   *)
(* through uartputc() and emptied by uartstart(), called from both halves; *)
(* the bytes that printf() and the echo send past the ring with            *)
(* uartputc_sync(); and a UART with its FIFO enabled that says when it is  *)
(* idle and interrupts when it becomes so.                                 *)
(*                                                                         *)
(* A section under uart_tx_lock is one step.  uartputc_sync() does not     *)
(* take that lock: a hart in it may find the UART idle and write when it   *)
(* no longer is.  The ring indices have TxWidth bits.                      *)
(***************************************************************************)
EXTENDS Naturals, Sequences

CONSTANTS
  Printers,              \* processes in consolewrite()
  TxBytes,
  UART_TX_BUF_SIZE,
  TxWidth                \* bits of uart_tx_r and uart_tx_w (64)

TxMod == 2 ^ TxWidth

\* The indices can tell a full ring from an empty one, and wrap where the ring does
\* (32 divides 2^64).
ASSUME UartAssumption ==
  /\ TxWidth \in Nat /\ TxMod \in Nat /\ UART_TX_BUF_SIZE \in Nat \ {0}
  /\ UART_TX_BUF_SIZE < TxMod /\ TxMod % UART_TX_BUF_SIZE = 0
  /\ TxBytes # {} /\ "sync" \notin TxBytes

VARIABLES
  txbuf, txw, txr,       \* uart_tx_buf, uart_tx_w, uart_tx_r
  thr,                   \* the FIFO of the UART: bytes not yet sent
  syncing,               \* a hart in uartputc_sync() has seen the UART idle
  txirq,                 \* its transmitter interrupt
  putc,                  \* where each process is
  char,                  \* what it has to send
  owed                   \* bytes accepted by uartputc() and not yet sent (history)

uartVars == <<txbuf, txw, txr, thr, syncing, txirq, putc, char, owed>>

UartInit ==
  /\ txbuf = [k \in 0 .. UART_TX_BUF_SIZE - 1 |-> CHOOSE b \in TxBytes : TRUE]
  /\ txw = 0 /\ txr = 0
  /\ thr = <<>> /\ syncing = FALSE /\ txirq = FALSE
  /\ putc = [p \in Printers |-> "user"]
  /\ char = [p \in Printers |-> CHOOSE b \in TxBytes : TRUE]
  /\ owed = <<>>

TxUsed(w, r) == (w - r + TxMod) % TxMod

\* Mutant of TxFull: the ring may be overrun by one.
TxFullLate == txw = (txr + UART_TX_BUF_SIZE + 1) % TxMod

TxFull == txw = (txr + UART_TX_BUF_SIZE) % TxMod

Idle == thr = <<>>          \* LSR_TX_IDLE

\* Mutant of StartWakes: uartstart() does not wake the writers.
StartWakesNobody == putc

\* wakeup(&uart_tx_r)
StartWakes == [p \in Printers |-> IF putc[p] = "asleep" THEN "go" ELSE putc[p]]

\* uartstart() on a ring whose write index is w: one byte when the UART is idle,
\* after which it is idle no more; at places the caller
Uartstart(buf, w, at) ==
  IF TxUsed(w, txr) > 0 /\ Idle
  THEN /\ thr' = <<buf[txr % UART_TX_BUF_SIZE]>>
       /\ txr' = (txr + 1) % TxMod
       /\ putc' = [p \in Printers |-> IF p \in DOMAIN at THEN at[p] ELSE StartWakes[p]]
  ELSE /\ UNCHANGED <<thr, txr>>
       /\ putc' = [p \in Printers |-> IF p \in DOMAIN at THEN at[p] ELSE putc[p]]

\* consolewrite() has a byte
Putc(p, b) ==
  /\ putc[p] = "user"
  /\ putc' = [putc EXCEPT ![p] = "go"] /\ char' = [char EXCEPT ![p] = b]
  /\ UNCHANGED <<txbuf, txw, txr, thr, syncing, txirq, owed>>

\* uartputc() sleeps on a full ring ...
PutcWait(p) ==
  /\ putc[p] = "go" /\ TxFull
  /\ putc' = [putc EXCEPT ![p] = "asleep"]
  /\ UNCHANGED <<txbuf, txw, txr, thr, syncing, txirq, char, owed>>

\* ... or stores the byte and calls uartstart()
PutcStore(p) ==
  /\ putc[p] = "go" /\ ~TxFull
  /\ txbuf' = [txbuf EXCEPT ![txw % UART_TX_BUF_SIZE] = char[p]]
  /\ txw' = (txw + 1) % TxMod
  /\ owed' = Append(owed, char[p])
  /\ Uartstart(txbuf', txw', [q \in {p} |-> "user"])
  /\ UNCHANGED <<syncing, txirq, char>>

\* uartputc_sync(): wait until the UART is idle, then write
SyncWaits ==
  /\ ~syncing /\ Idle
  /\ syncing' = TRUE
  /\ UNCHANGED <<txbuf, txw, txr, thr, txirq, putc, char, owed>>

SyncWrites ==
  /\ syncing
  /\ thr' = Append(thr, "sync") /\ syncing' = FALSE
  /\ UNCHANGED <<txbuf, txw, txr, txirq, putc, char, owed>>

\* the UART sends a byte; when it has no more it interrupts
Sent ==
  /\ thr # <<>>
  /\ owed' = IF Head(thr) = "sync" THEN owed ELSE Tail(owed)
  /\ thr' = Tail(thr) /\ txirq' = (txirq \/ thr' = <<>>)
  /\ UNCHANGED <<txbuf, txw, txr, syncing, putc, char>>

\* the transmit half of uartintr()
Uartintr ==
  /\ txirq
  /\ txirq' = FALSE
  /\ Uartstart(txbuf, txw, [q \in {} |-> "user"])
  /\ UNCHANGED <<txbuf, txw, syncing, char, owed>>

\* kill() or unfreeze()
RousePrinter(p) ==
  /\ putc[p] = "asleep"
  /\ putc' = [putc EXCEPT ![p] = "go"]
  /\ UNCHANGED <<txbuf, txw, txr, thr, syncing, txirq, char, owed>>

UartNext ==
  \/ \E p \in Printers : \/ \E b \in TxBytes : Putc(p, b)
                         \/ PutcWait(p) \/ PutcStore(p) \/ RousePrinter(p)
  \/ SyncWaits \/ SyncWrites \/ Sent \/ Uartintr

\* The UART sends what it has been given, and its interrupt is not taken too late
\* for ever: the kernel's own output does not keep the UART busy each time.
UartFairness == WF_uartVars(Sent) /\ SF_uartVars(Uartintr /\ Idle)

UartSpec == UartInit /\ [][UartNext]_uartVars /\ UartFairness

(***************************************************************************)
(* Properties.                                                             *)
(***************************************************************************)
\* Every variable has its type.
UartTypeOK ==
  /\ txbuf \in [0 .. UART_TX_BUF_SIZE - 1 -> TxBytes]
  /\ {txw, txr} \subseteq 0 .. TxMod - 1 /\ {txirq, syncing} \subseteq BOOLEAN
  /\ thr \in Seq(TxBytes \cup {"sync"}) /\ owed \in Seq(TxBytes)
  /\ putc \in [Printers -> {"user", "go", "asleep"}] /\ char \in [Printers -> TxBytes]

\* the byte of the ring that the UART has: only the first of its FIFO can be one,
\* because uartstart() writes to an idle UART
InUart == IF thr # <<>> /\ thr[1] # "sync" THEN <<thr[1]>> ELSE <<>>
Ring == [k \in 1 .. TxUsed(txw, txr) |-> txbuf[(txr + k - 1) % UART_TX_BUF_SIZE]]

\* What write() has handed over is still on its way, in order: the byte in the
\* UART and then the ring, across the wrap of the indices.  A writer sleeps only
\* on a full ring, and while the ring holds anything the UART is busy or an
\* interrupt is due that will find it idle.
TxOrder ==
  /\ UartTypeOK
  /\ owed = InUart \o Ring /\ \A i \in 2 .. Len(thr) : thr[i] = "sync"
  /\ \A p \in Printers : putc[p] = "asleep" => TxFull
  /\ txw # txr => ~Idle \/ txirq

\* The ring drains: a writer that sleeps on a full ring is woken.
WriterWakes == \A p \in Printers : putc[p] = "asleep" ~> putc[p] # "asleep"
=============================================================================
