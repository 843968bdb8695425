------------------------------- MODULE MCIo ---------------------------------
(***************************************************************************)
(* Where callers of the file system and of the devices sleep, for TLC in one  *)
(* run: the log's begin_op(), sleep locks, the disk and the serial port.      *)
(* They share no state: part says which of them runs, and the others stay as  *)
(* they were initialised.                                                   *)
(***************************************************************************)
EXTENDS Log, SleepLock, VirtioDisk, Uart

VARIABLE part

ioVars == <<vars, slVars, vdVars, uartVars, part>>

IoInit ==
  /\ part \in {"log", "sleeplock", "disk", "uart"}
  /\ Init /\ SlInit /\ VdInit /\ UartInit

\* the log stops after MaxOps calls
IoNext ==
  \/ part = "log" /\ Next /\ UNCHANGED <<slVars, vdVars, uartVars, part>>
  \/ part = "sleeplock" /\ SlNext /\ UNCHANGED <<vars, vdVars, uartVars, part>>
  \/ part = "disk" /\ VdNext /\ UNCHANGED <<vars, slVars, uartVars, part>>
  \/ part = "uart" /\ UartNext /\ UNCHANGED <<vars, slVars, vdVars, part>>
  \/ part = "log" /\ ops = MaxOps /\ UNCHANGED ioVars

\* the fairness of the one that runs
IoFairness ==
  \/ []<>(part = "log") /\ Fairness
  \/ []<>(part = "sleeplock") /\ SlFairness
  \/ []<>(part = "disk") /\ VdFairness
  \/ []<>(part = "uart") /\ UartFairness

IoSpec == IoInit /\ [][IoNext]_ioVars /\ IoFairness
=============================================================================
