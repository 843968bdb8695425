----------------------------- MODULE LineInput ------------------------------
(***************************************************************************)
(* What the console promises its readers: characters are edited until the  *)
(* line is ended, by a newline, an end of file or a full buffer, and can   *)
(* be read only then, once each and in order.                              *)
(***************************************************************************)
EXTENDS Naturals, Sequences

CONSTANTS Plain, Size       \* ordinary characters; room for characters

VARIABLES ready, edited     \* ended lines, the line being edited

lineVars == <<ready, edited>>

Enders == {"newline", "eof"}

LineInit == ready = <<>> /\ edited = <<>>

Typed(c) ==
  /\ Len(ready) + Len(edited) < Size
  /\ LET line == Append(edited, c)
     IN IF c \in Enders \/ Len(ready) + Len(line) = Size
        THEN ready' = ready \o line /\ edited' = <<>>
        ELSE ready' = ready /\ edited' = line

Erase ==
  /\ edited # <<>>
  /\ edited' = SubSeq(edited, 1, Len(edited) - 1)
  /\ UNCHANGED ready

KillLine == edited # <<>> /\ edited' = <<>> /\ UNCHANGED ready

\* a character is read; an end of file may also be left for the next read()
ReadOne == ready # <<>> /\ ready' = Tail(ready) /\ UNCHANGED edited

LineNext == Erase \/ KillLine \/ ReadOne \/ \E c \in Plain \cup Enders : Typed(c)

LineSpec == LineInit /\ [][LineNext]_lineVars
=============================================================================
