------------------------------ MODULE LogProofs -----------------------------
(***************************************************************************)
(* The log keeps to its room on the disk and implements LogAtomic, for any *)
(* number of processes, blocks, crashes and calls and any size of the log. *)
(***************************************************************************)
EXTENDS Log, FiniteSetTheorems, SequenceTheorems, TLAPS

Calls == {p \in Procs : pc[p] = "op"}
CommitStages == {"wlog", "head", "install", "clear", "done"}
RecoverStages == {"boot", "rinstall", "rclear"}

Distinct(head) == \A i, j \in DOMAIN head : head[i] = head[j] => i = j

\* log.outstanding counts the calls exactly, and while commit() runs there is
\* none: this is what lets it run without log.lock.
CallInv ==
  /\ IsFiniteSet(Calls) /\ outstanding = Cardinality(Calls)
  /\ committing <=> stage \in CommitStages
  /\ committing \/ stage \in RecoverStages => Calls = {}

\* The headers fit, hold each block once, and agree once the commit point is
\* passed; the loops stay inside the header.
HeadInv ==
  /\ LogFits /\ Distinct(dhead)
  /\ stage \in {"up", "wlog", "head", "done", "panic"} => dhead = <<>>
  /\ stage \in {"install", "clear", "rinstall", "rclear"} => dhead = lh
  /\ stage = "done" => lh = <<>>
  /\ stage = "head" => lh # <<>>
  /\ IF stage \in {"wlog", "install", "rinstall"} THEN tail < Len(lh) ELSE tail = 0

\* The pinned buffers are the logged blocks that are not yet installed; every
\* other buffer holds what the disk does.
CacheInv ==
  /\ stage \in {"up", "wlog", "head"} => pinned = Logged(lh)
  /\ stage = "install" => pinned = {lh[i] : i \in (tail + 1)..Len(lh)}
  /\ stage \in {"clear", "done"} \cup RecoverStages => pinned = {}
  /\ stage # "panic" => \A b \in Blocks \ pinned : cache[b] = home[b]

\* What write_log() and install_trans() have copied so far.
CopyInv ==
  /\ stage = "wlog" => \A i \in 1..tail : dlog[i] = cache[lh[i]]
  /\ stage \in {"head", "install", "clear"} =>
       \A i \in 1..Len(lh) : dlog[i] = cache[lh[i]]
  /\ stage \in {"install", "rinstall"} =>
       \A i \in 1..tail : home[lh[i]] = dlog[i]
  /\ stage \in {"clear", "rclear"} =>
       \A i \in 1..Len(lh) : home[lh[i]] = dlog[i]

LogInv == TypeOK /\ CallInv /\ HeadInv /\ CacheInv /\ CopyInv

(***************************************************************************)
(* The inductive invariant, conjunct by conjunct.                          *)
(***************************************************************************)
LEMMA LogInvInit == Init => LogInv
<1> SUFFICES ASSUME Init PROVE LogInv
  OBVIOUS
<1> USE LogAssumption DEF Init
<1>1. Calls = {}
  BY DEF Calls
<1>2. TypeOK
  <2>1. <<>> \in Seq(Blocks)
    OBVIOUS
  <2>2. /\ pc \in [Procs -> {"idle", "begin", "asleep", "op", "commit"}]
        /\ wrote \in [Procs -> SUBSET Blocks]
    OBVIOUS
  <2>3. ops \in 0..MaxOps /\ crashes \in 0..MaxCrashes
    OBVIOUS
  <2> QED
    BY <2>1, <2>2, <2>3 DEF TypeOK
<1>3. CallInv
  BY <1>1, FS_EmptySet DEF CallInv, CommitStages, RecoverStages
<1>4. HeadInv
  BY DEF HeadInv, LogFits, Distinct
<1>5. CacheInv
  BY DEF CacheInv, RecoverStages, Logged
<1>6. CopyInv
  BY DEF CopyInv
<1> QED
  BY <1>2, <1>3, <1>4, <1>5, <1>6 DEF LogInv

\* A call that has begun is counted.
LEMMA Counted ==
  ASSUME LogInv, NEW p \in Procs, pc[p] = "op"
  PROVE  outstanding \in Nat \ {0} /\ ~committing /\ stage \notin RecoverStages
<1>1. p \in Calls /\ IsFiniteSet(Calls) /\ outstanding = Cardinality(Calls)
  BY DEF Calls, LogInv, CallInv
<1>2. Cardinality(Calls) # 0
  BY <1>1, FS_EmptySet
<1> QED
  BY <1>1, <1>2 DEF LogInv, CallInv, TypeOK

LEMMA TypeStep == LogInv /\ [Next]_vars => TypeOK'
<1> SUFFICES ASSUME LogInv, [Next]_vars PROVE TypeOK'
  OBVIOUS
<1> USE LogAssumption DEF TypeOK
<1>0. TypeOK /\ HeadInv
  BY DEF LogInv
<1>1. ASSUME NEW p \in Procs, BeginOp(p) PROVE TypeOK'
  BY <1>0, <1>1 DEF BeginOp, Reserve, disk
<1>2. ASSUME NEW p \in Procs, Rouse(p) PROVE TypeOK'
  BY <1>0, <1>2 DEF Rouse, disk, logmem
<1>3. ASSUME NEW p \in Procs, EndOp(p) PROVE TypeOK'
  <2>1. outstanding - 1 \in Nat
    BY <1>3, Counted DEF EndOp
  <2>2. Woken \in [Procs -> {"idle", "begin", "asleep", "op", "commit"}]
    BY <1>0 DEF Woken
  <2>3. /\ pc' \in [Procs -> {"idle", "begin", "asleep", "op", "commit"}]
        /\ wrote' \in [Procs -> SUBSET Blocks]
    BY <1>0, <1>3, <2>2 DEF EndOp
  <2>4. /\ stage' \in {stage, "panic", "wlog", "done"} /\ tail' \in Nat
        /\ committing' \in BOOLEAN
    <3>1. committing' = TRUE \/ committing' = committing
      BY <1>3 DEF EndOp
    <3>2. committing' \in BOOLEAN
      BY <1>0, <3>1
    <3>3. stage' \in {stage, "panic", "wlog", "done"} /\ tail' \in {0, tail}
      BY <1>3 DEF EndOp
    <3> QED
      BY <1>0, <3>2, <3>3
  <2>5. UNCHANGED <<disk, cache, pinned, lh, ops, crashes>>
        /\ outstanding' = outstanding - 1
    BY <1>3 DEF EndOp
  <2> QED
    BY <1>0, <2>1, <2>3, <2>4, <2>5 DEF disk
<1>4. ASSUME NEW p \in Procs, NEW b \in Blocks, NEW v \in Vals, LogWrite(p, b, v)
      PROVE  TypeOK'
  <2>1. cache' \in [Blocks -> Vals] /\ wrote' \in [Procs -> SUBSET Blocks]
    BY <1>0, <1>4 DEF LogWrite
  <2>2. lh' \in Seq(Blocks) /\ pinned' \subseteq Blocks
    <3>1. Append(lh, b) \in Seq(Blocks)
      BY <1>0, AppendProperties
    <3> QED
      BY <1>0, <1>4, <3>1 DEF LogWrite
  <2> QED
    BY <1>0, <1>4, <2>1, <2>2 DEF LogWrite, disk
<1>5. ASSUME NEW p \in Procs, Commit(p) PROVE TypeOK'
  <2>1. CASE WriteLog
    <3>1. tail + 1 \in 1..Len(lh)
      BY <1>0, <2>1 DEF WriteLog, HeadInv
    <3>2. dlog' \in [1..LOGSIZE -> Vals]
      <4>1. cache[lh[tail + 1]] \in Vals
        BY <1>0, <3>1
      <4> QED
        BY <1>0, <2>1, <4>1 DEF WriteLog
    <3> QED
      BY <1>0, <2>1, <3>2 DEF WriteLog, Step, logmem
  <2>2. CASE WriteHead
    BY <1>0, <2>2 DEF WriteHead, logmem
  <2>3. CASE InstallTrans
    <3>1. tail + 1 \in 1..Len(lh) /\ tail + 1 \in 1..LOGSIZE
      BY <1>0, <2>3 DEF InstallTrans, HeadInv, LogFits
    <3> QED
      BY <1>0, <2>3, <3>1 DEF InstallTrans, InstallBlock, Step, logmem
  <2>4. CASE Clear
    BY <1>0, <2>4 DEF Clear, ClearLog
  <2>5. CASE CommitDone(p)
    BY <1>0, <2>5 DEF CommitDone, Woken, disk
  <2> QED
    BY <1>5, <2>1, <2>2, <2>3, <2>4, <2>5 DEF Commit
<1>6. ASSUME NEW b \in Blocks, Refetch(b) PROVE TypeOK'
  BY <1>0, <1>6 DEF Refetch, disk, logmem
<1>7. CASE ReadHead
  BY <1>0, <1>7 DEF ReadHead, disk
<1>8. CASE RecoverTrans
  <2>1. tail + 1 \in 1..Len(lh) /\ tail + 1 \in 1..LOGSIZE
    BY <1>0, <1>8 DEF RecoverTrans, HeadInv, LogFits
  <2> QED
    BY <1>0, <1>8, <2>1 DEF RecoverTrans, InstallBlock, Step, logmem
<1>9. CASE RecoverClear
  BY <1>0, <1>9 DEF RecoverClear, ClearLog
<1>10. CASE Crash
  <2>1. /\ pc' \in [Procs -> {"idle", "begin", "asleep", "op", "commit"}]
        /\ wrote' \in [Procs -> SUBSET Blocks] /\ lh' \in Seq(Blocks)
    BY <1>10 DEF Crash
  <2>2. ops' \in 0..MaxOps /\ crashes' \in 0..MaxCrashes
    BY <1>0, <1>10 DEF Crash
  <2> QED
    BY <1>0, <1>10, <2>1, <2>2 DEF Crash, disk
<1>11. CASE UNCHANGED vars
  BY <1>0, <1>11 DEF vars, disk, logmem
<1> QED
  BY <1>1, <1>2, <1>3, <1>4, <1>5, <1>6, <1>7, <1>8, <1>9, <1>10, <1>11
     DEF Next, Recover

LEMMA CallStep == LogInv /\ [Next]_vars => CallInv'
<1> SUFFICES ASSUME LogInv, [Next]_vars PROVE CallInv'
  OBVIOUS
<1> USE DEF CommitStages, RecoverStages
<1>0. /\ CallInv /\ pc \in [Procs -> {"idle", "begin", "asleep", "op", "commit"}]
      /\ outstanding \in Nat /\ committing \in BOOLEAN
      /\ stage \in CommitStages \cup RecoverStages \cup {"up", "panic"}
  BY DEF LogInv, TypeOK
\* a step that begins and ends no call
<1>1. ASSUME Calls' = Calls, UNCHANGED <<outstanding, committing>>,
             committing' <=> stage' \in CommitStages,
             stage' \in RecoverStages => stage \in RecoverStages
      PROVE  CallInv'
  BY <1>0, <1>1 DEF CallInv
<1>2. ASSUME NEW p \in Procs, BeginOp(p) PROVE CallInv'
  <2>1. CASE MustWait
    <3>1. Calls' = Calls
      BY <1>0, <1>2, <2>1 DEF BeginOp, Calls
    <3> QED
      BY <1>0, <1>1, <1>2, <2>1, <3>1 DEF BeginOp, CallInv
  <2>2. CASE ~MustWait
    <3>1. Calls' = Calls \cup {p} /\ p \notin Calls
      BY <1>0, <1>2, <2>2 DEF BeginOp, Calls
    <3>2. outstanding' = outstanding + 1 /\ UNCHANGED <<committing, stage>>
          /\ ~committing /\ stage \notin RecoverStages
      BY <1>2, <2>2 DEF BeginOp, Reserve, MustWait, Running
    <3>3. IsFiniteSet(Calls') /\ Cardinality(Calls') = Cardinality(Calls) + 1
      BY <1>0, <3>1, FS_AddElement DEF CallInv
    <3> QED
      BY <1>0, <3>2, <3>3 DEF CallInv
  <2> QED
    BY <2>1, <2>2
<1>3. ASSUME NEW p \in Procs, Rouse(p) PROVE CallInv'
  <2>1. Calls' = Calls
    BY <1>0, <1>3 DEF Rouse, Calls
  <2> QED
    BY <1>0, <1>1, <1>3, <2>1 DEF Rouse, CallInv, logmem
<1>4. ASSUME NEW p \in Procs, EndOp(p) PROVE CallInv'
  <2>1. ~committing /\ stage \notin RecoverStages
    BY <1>4, Counted DEF EndOp
  <2>2. Calls' = Calls \ {p} /\ p \in Calls
    BY <1>0, <1>4 DEF EndOp, Calls, Woken
  <2>3. IsFiniteSet(Calls') /\ Cardinality(Calls') = Cardinality(Calls) - 1
    BY <1>0, <2>2, FS_RemoveElement DEF CallInv
  <2>4. outstanding' = Cardinality(Calls')
    BY <1>0, <1>4, <2>3 DEF EndOp, CallInv
  <2>5. CASE outstanding = 1
    <3>1. Calls' = {}
      BY <1>0, <2>3, <2>5, FS_EmptySet DEF CallInv
    <3>2. committing' /\ stage' \in CommitStages
      BY <1>4, <2>1, <2>5 DEF EndOp
    <3> QED
      BY <2>3, <2>4, <3>1, <3>2 DEF CallInv
  <2>6. CASE outstanding # 1
    <3>1. UNCHANGED <<committing, stage>>
      BY <1>4, <2>1, <2>6 DEF EndOp
    <3> QED
      BY <1>0, <2>1, <2>3, <2>4, <3>1 DEF CallInv
  <2> QED
    BY <2>5, <2>6
<1>5. ASSUME NEW p \in Procs, NEW b \in Blocks, NEW v \in Vals, LogWrite(p, b, v)
      PROVE  CallInv'
  <2>1. ~committing /\ stage \notin RecoverStages
    BY <1>5, Counted DEF LogWrite
  <2>2. Calls' = Calls
    BY <1>5 DEF LogWrite, Calls
  <2> QED
    BY <1>0, <1>1, <1>5, <2>1, <2>2 DEF LogWrite, CallInv
<1>6. ASSUME NEW p \in Procs, Commit(p) PROVE CallInv'
  <2>1. CASE WriteLog \/ WriteHead \/ InstallTrans \/ Clear
    <3>1. Calls' = Calls
      BY <2>1 DEF WriteLog, WriteHead, InstallTrans, Clear, ClearLog, Calls
    <3> QED
      BY <1>0, <1>1, <2>1, <3>1 DEF WriteLog, WriteHead, InstallTrans, Clear,
           ClearLog, Step, CallInv, logmem
  <2>2. CASE CommitDone(p)
    <3>1. Calls' = Calls
      BY <1>0, <2>2 DEF CommitDone, Calls, Woken
    <3> QED
      BY <1>0, <2>2, <3>1 DEF CommitDone, CallInv
  <2> QED
    BY <1>6, <2>1, <2>2 DEF Commit
<1>7. ASSUME NEW b \in Blocks, Refetch(b) PROVE CallInv'
  <2>1. Calls' = Calls
    BY <1>7 DEF Refetch, Calls
  <2> QED
    BY <1>0, <1>1, <1>7, <2>1 DEF Refetch, CallInv, logmem
<1>8. CASE Recover
  <2>1. Calls' = Calls
    BY <1>8 DEF Recover, ReadHead, RecoverTrans, RecoverClear, ClearLog, Calls
  <2> QED
    BY <1>0, <1>1, <1>8, <2>1 DEF Recover, ReadHead, RecoverTrans, RecoverClear,
         ClearLog, Step, CallInv, logmem
<1>9. CASE Crash
  <2>1. Calls' = {}
    BY <1>9 DEF Crash, Calls
  <2> QED
    BY <1>9, <2>1, FS_EmptySet DEF Crash, CallInv
<1>10. CASE UNCHANGED vars
  BY <1>0, <1>10 DEF vars, CallInv, Calls, logmem
<1> QED
  BY <1>2, <1>3, <1>4, <1>5, <1>6, <1>7, <1>8, <1>9, <1>10 DEF Next

\* Entering a block that is not in the header keeps the blocks distinct.
LEMMA EnterBlock ==
  ASSUME NEW head \in Seq(Blocks), Distinct(head), NEW b \in Blocks,
         b \notin Logged(head)
  PROVE  /\ Append(head, b) \in Seq(Blocks) /\ Distinct(Append(head, b))
         /\ Len(Append(head, b)) = Len(head) + 1
         /\ Logged(Append(head, b)) = Logged(head) \cup {b}
<1> DEFINE new == Append(head, b)
<1>1. /\ new \in Seq(Blocks) /\ Len(new) = Len(head) + 1
      /\ \A i \in 1..Len(head) : new[i] = head[i]
      /\ new[Len(head) + 1] = b
  BY AppendProperties
<1>2. DOMAIN new = 1..(Len(head) + 1) /\ DOMAIN head = 1..Len(head) /\ Len(head) \in Nat
  BY <1>1
<1> HIDE DEF new
<1>3. \A i \in 1..Len(head) : new[i] # b
  BY <1>1, <1>2 DEF Logged
<1>4. Distinct(new)
  BY <1>1, <1>2, <1>3 DEF Distinct
<1>5. Logged(new) = Logged(head) \cup {b}
  BY <1>1, <1>2 DEF Logged
<1> QED
  BY <1>1, <1>4, <1>5 DEF new

LEMMA HeadStep == LogInv /\ [Next]_vars => HeadInv'
<1> SUFFICES ASSUME LogInv, [Next]_vars PROVE HeadInv'
  OBVIOUS
<1>0. /\ HeadInv /\ LogFits /\ CallInv
      /\ lh \in Seq(Blocks) /\ dhead \in Seq(Blocks) /\ tail \in Nat
      /\ Len(lh) \in Nat /\ Len(dhead) \in Nat
      /\ Distinct(lh) /\ Distinct(dhead)
      /\ stage \in CommitStages \cup RecoverStages \cup {"up", "panic"}
  BY DEF LogInv, TypeOK, CommitStages, RecoverStages, HeadInv, LogFits, Distinct
<1>a. Len(<<>>) <= nlog - 1 /\ Distinct(<<>>)
  BY LogAssumption DEF Distinct
\* a step that leaves the headers and the stage alone
<1>1. ASSUME UNCHANGED <<lh, dhead, stage, tail>> PROVE HeadInv'
  BY <1>0, <1>1 DEF HeadInv, LogFits, Distinct
<1>2. ASSUME NEW p \in Procs, BeginOp(p) \/ Rouse(p) PROVE HeadInv'
  BY <1>1, <1>2 DEF BeginOp, Rouse, disk, logmem
<1>3. ASSUME NEW p \in Procs, EndOp(p) PROVE HeadInv'
  <2>1. ~committing /\ stage = "up"
    BY <1>0, <1>3, Counted DEF EndOp, CallInv, CommitStages, RecoverStages, Running
  <2>2. UNCHANGED <<lh, dhead>> /\ dhead = <<>> /\ tail = 0
    BY <1>0, <1>3, <2>1 DEF EndOp, disk, HeadInv
  <2>3. CASE outstanding = 1
    <3>1. /\ tail' = 0
          /\ stage' = IF Len(lh) > 0 THEN "wlog" ELSE "done"
      BY <1>3, <2>1, <2>3 DEF EndOp
    <3>2. Len(lh) > 0 \/ lh = <<>>
      BY <1>0, EmptySeq
    <3> QED
      BY <1>0, <2>2, <3>1, <3>2 DEF HeadInv, LogFits, Distinct
  <2>4. CASE outstanding # 1
    BY <1>1, <1>3, <2>1, <2>2, <2>4 DEF EndOp
  <2> QED
    BY <2>3, <2>4
<1>4. ASSUME NEW p \in Procs, NEW b \in Blocks, NEW v \in Vals, LogWrite(p, b, v)
      PROVE  HeadInv'
  <2>1. stage = "up" /\ dhead = <<>> /\ tail = 0
    BY <1>0, <1>4, Counted DEF LogWrite, CallInv, HeadInv, CommitStages,
         RecoverStages, Running
  <2>2. UNCHANGED <<dhead, tail>>
    BY <1>4 DEF LogWrite, disk
  <2>3. CASE lh' = lh /\ stage' \in {"up", "panic"}
    BY <1>0, <2>1, <2>2, <2>3 DEF HeadInv, LogFits, Distinct
  <2>4. CASE /\ ~TooBig /\ b \notin Logged(lh)
             /\ lh' = Append(lh, b) /\ stage' = stage
    <3>1. Distinct(lh') /\ Len(lh') <= nlog - 1
      BY <1>0, <2>4, EnterBlock, LogAssumption DEF TooBig
    <3> QED
      BY <1>0, <2>1, <2>2, <2>4, <3>1 DEF HeadInv, LogFits, Distinct
  <2> QED
    BY <1>4, <2>1, <2>3, <2>4 DEF LogWrite
<1>5. ASSUME NEW p \in Procs, Commit(p) PROVE HeadInv'
  <2>1. CASE WriteLog
    BY <1>0, <2>1 DEF WriteLog, Step, HeadInv, LogFits, Distinct, logmem
  <2>2. CASE WriteHead
    <3>1. lh # <<>> => Len(lh) > 0
      BY <1>0, EmptySeq
    <3> QED
      BY <1>0, <2>2, <3>1 DEF WriteHead, HeadInv, LogFits, Distinct, logmem
  <2>3. CASE InstallTrans
    BY <1>0, <2>3 DEF InstallTrans, Step, HeadInv, LogFits, Distinct, logmem
  <2>4. CASE Clear
    BY <1>0, <1>a, <2>4 DEF Clear, ClearLog, HeadInv, LogFits, Distinct
  <2>5. CASE CommitDone(p)
    BY <1>0, <2>5 DEF CommitDone, HeadInv, LogFits, Distinct, disk
  <2> QED
    BY <1>5, <2>1, <2>2, <2>3, <2>4, <2>5 DEF Commit
<1>6. ASSUME NEW b \in Blocks, Refetch(b) PROVE HeadInv'
  BY <1>1, <1>6 DEF Refetch, disk, logmem
<1>7. CASE ReadHead
  BY <1>0, <1>7 DEF ReadHead, HeadInv, LogFits, Distinct, disk
<1>8. CASE RecoverTrans
  BY <1>0, <1>8 DEF RecoverTrans, Step, HeadInv, LogFits, Distinct, logmem
<1>9. CASE RecoverClear
  BY <1>0, <1>a, <1>9 DEF RecoverClear, ClearLog, HeadInv, LogFits, Distinct
<1>10. CASE Crash
  BY <1>0, <1>a, <1>10 DEF Crash, HeadInv, LogFits, Distinct, disk
<1>11. CASE UNCHANGED vars
  BY <1>1, <1>11 DEF vars, disk, logmem
<1> QED
  BY <1>2, <1>3, <1>4, <1>5, <1>6, <1>7, <1>8, <1>9, <1>10, <1>11
     DEF Next, Recover

LEMMA CacheStep == LogInv /\ [Next]_vars => CacheInv'
<1> SUFFICES ASSUME LogInv, [Next]_vars PROVE CacheInv'
  OBVIOUS
<1> USE DEF RecoverStages
<1>0. /\ HeadInv /\ LogFits /\ CallInv /\ CacheInv /\ CopyInv
      /\ lh \in Seq(Blocks) /\ tail \in Nat /\ Len(lh) \in Nat
      /\ DOMAIN lh = 1..Len(lh) /\ Distinct(lh)
      /\ home \in [Blocks -> Vals] /\ cache \in [Blocks -> Vals]
      /\ stage \in CommitStages \cup RecoverStages \cup {"up", "panic"}
  BY DEF LogInv, TypeOK, CommitStages, HeadInv, LogFits, Distinct
\* a step that leaves the memory of the log and the buffers alone
<1>1. ASSUME UNCHANGED <<home, cache, pinned, lh, stage, tail>> PROVE CacheInv'
  BY <1>0, <1>1 DEF CacheInv, Logged
<1>2. ASSUME NEW p \in Procs, BeginOp(p) \/ Rouse(p) PROVE CacheInv'
  BY <1>1, <1>2 DEF BeginOp, Rouse, disk, logmem
<1>3. ASSUME NEW p \in Procs, EndOp(p) PROVE CacheInv'
  <2>1. ~committing /\ stage = "up" /\ tail = 0
    BY <1>0, <1>3, Counted DEF EndOp, CallInv, HeadInv, CommitStages, Running
  <2>2. UNCHANGED <<home, cache, pinned, lh>>
    BY <1>3 DEF EndOp, disk
  <2>3. stage' \in {"up", "wlog", "done"} /\ (stage' = "done" => Len(lh) = 0)
    BY <1>0, <1>3, <2>1 DEF EndOp
  <2>4. Len(lh) = 0 => pinned = {}
    BY <1>0, <2>1 DEF CacheInv, Logged
  <2> QED
    BY <1>0, <2>1, <2>2, <2>3, <2>4 DEF CacheInv, Logged
<1>4. ASSUME NEW p \in Procs, NEW b \in Blocks, NEW v \in Vals, LogWrite(p, b, v)
      PROVE  CacheInv'
  <2>1. stage = "up" /\ tail = 0
    BY <1>0, <1>4, Counted DEF LogWrite, CallInv, HeadInv, CommitStages, Running
  <2>2. cache' = [cache EXCEPT ![b] = v] /\ UNCHANGED home
    BY <1>4 DEF LogWrite, disk
  <2>3. CASE stage' = "panic"
    BY <2>3 DEF CacheInv
  <2>4. CASE /\ stage' = stage /\ pinned' = Logged(lh') /\ b \in Logged(lh')
             /\ Logged(lh) \subseteq Logged(lh')
    BY <1>0, <2>1, <2>2, <2>4 DEF CacheInv
  <2>5. CASE stage' = stage /\ b \in Logged(lh) /\ UNCHANGED <<lh, pinned>>
    BY <1>0, <2>1, <2>4, <2>5 DEF CacheInv, Logged
  <2>6. CASE /\ stage' = stage /\ b \notin Logged(lh)
             /\ lh' = Append(lh, b) /\ pinned' = pinned \cup {b}
    <3>1. Logged(lh') = Logged(lh) \cup {b}
      <4>1. Logged(Append(lh, b)) = Logged(lh) \cup {b}
        BY <1>0, <2>6, EnterBlock
      <4> QED
        BY <2>6, <4>1 DEF Logged
    <3> QED
      BY <1>0, <2>1, <2>4, <2>6, <3>1 DEF CacheInv
  <2> QED
    BY <1>4, <2>3, <2>5, <2>6 DEF LogWrite
<1>5. ASSUME NEW p \in Procs, Commit(p) PROVE CacheInv'
  <2>1. CASE WriteLog
    BY <1>0, <2>1 DEF WriteLog, Step, CacheInv, Logged, logmem
  <2>2. CASE WriteHead
    BY <1>0, <2>2 DEF WriteHead, CacheInv, HeadInv, Logged, logmem
  <2>3. CASE InstallTrans
    <3> DEFINE b == lh[tail + 1]
    <3>1. /\ stage = "install" /\ tail + 1 \in 1..Len(lh) /\ b \in Blocks
      BY <1>0, <2>3 DEF InstallTrans, HeadInv
    <3>2. /\ home' = [home EXCEPT ![b] = dlog[tail + 1]]
          /\ cache' = [cache EXCEPT ![b] = dlog[tail + 1]]
          /\ pinned' = pinned \ {b} /\ UNCHANGED lh
      BY <2>3 DEF InstallTrans, InstallBlock, logmem
    <3>3. \A c \in Blocks \ pinned' : cache'[c] = home'[c]
      BY <1>0, <3>1, <3>2 DEF CacheInv
    <3>4. pinned' = {lh[i] : i \in (tail + 2)..Len(lh)}
      <4>1. pinned = {lh[i] : i \in (tail + 1)..Len(lh)}
        BY <1>0, <3>1 DEF CacheInv
      <4>2. \A i \in (tail + 1)..Len(lh) : lh[i] = b <=> i = tail + 1
        BY <1>0, <3>1 DEF Distinct
      <4>3. \A i : i \in (tail + 2)..Len(lh)
                    <=> i \in (tail + 1)..Len(lh) /\ i # tail + 1
        BY <1>0
      <4> QED
        BY <3>2, <4>1, <4>2, <4>3
    <3>5. CASE tail + 1 < Len(lh)
      BY <1>0, <2>3, <3>1, <3>2, <3>3, <3>4, <3>5 DEF InstallTrans, Step, CacheInv
    <3>6. CASE ~(tail + 1 < Len(lh))
      <4>1. pinned' = {} /\ stage' = "clear"
        BY <1>0, <2>3, <3>4, <3>6 DEF InstallTrans, Step
      <4> QED
        BY <3>3, <4>1 DEF CacheInv
    <3> QED
      BY <3>5, <3>6
  <2>4. CASE Clear
    BY <1>0, <2>4 DEF Clear, ClearLog, CacheInv
  <2>5. CASE CommitDone(p)
    <3>1. lh = <<>>
      BY <1>0, <2>5 DEF CommitDone, HeadInv
    <3> QED
      BY <1>0, <2>5, <3>1 DEF CommitDone, CacheInv, Logged, disk
  <2> QED
    BY <1>5, <2>1, <2>2, <2>3, <2>4, <2>5 DEF Commit
<1>6. ASSUME NEW b \in Blocks, Refetch(b) PROVE CacheInv'
  BY <1>0, <1>6 DEF Refetch, CacheInv, Logged, Running, disk, logmem
<1>7. CASE ReadHead
  BY <1>0, <1>7 DEF ReadHead, CacheInv, disk
<1>8. CASE RecoverTrans
  <2>1. tail + 1 \in 1..Len(lh) /\ lh[tail + 1] \in Blocks
    BY <1>0, <1>8 DEF RecoverTrans, HeadInv
  <2> QED
    BY <1>0, <1>8, <2>1 DEF RecoverTrans, InstallBlock, Step, CacheInv, logmem
<1>9. CASE RecoverClear
  BY <1>0, <1>9 DEF RecoverClear, ClearLog, CacheInv, Logged
<1>10. CASE Crash
  BY <1>10 DEF Crash, CacheInv, disk
<1>11. CASE UNCHANGED vars
  BY <1>1, <1>11 DEF vars, disk, logmem
<1> QED
  BY <1>2, <1>3, <1>4, <1>5, <1>6, <1>7, <1>8, <1>9, <1>10, <1>11
     DEF Next, Recover

LEMMA CopyStep == LogInv /\ [Next]_vars => CopyInv'
<1> SUFFICES ASSUME LogInv, [Next]_vars PROVE CopyInv'
  OBVIOUS
<1>0. /\ HeadInv /\ LogFits /\ CallInv /\ CopyInv
      /\ lh \in Seq(Blocks) /\ tail \in Nat /\ Len(lh) \in Nat
      /\ Len(lh) <= LOGSIZE /\ LOGSIZE \in Nat
      /\ \A i \in 1..Len(lh) : lh[i] \in Blocks
      /\ \A i, j \in 1..Len(lh) : lh[i] = lh[j] => i = j
      /\ home \in [Blocks -> Vals] /\ cache \in [Blocks -> Vals]
      /\ dlog \in [1..LOGSIZE -> Vals]
      /\ stage \in CommitStages \cup RecoverStages \cup {"up", "panic"}
  BY LogAssumption DEF LogInv, TypeOK, CommitStages, RecoverStages, HeadInv, LogFits
<1>1. ASSUME UNCHANGED <<home, dlog, cache, lh, stage, tail>> PROVE CopyInv'
  BY <1>0, <1>1 DEF CopyInv
\* a step to a stage where nothing is being copied
<1>2. ASSUME stage' \in {"up", "done", "boot", "panic"} PROVE CopyInv'
  BY <1>2 DEF CopyInv
<1>3. ASSUME NEW p \in Procs, BeginOp(p) \/ Rouse(p) PROVE CopyInv'
  BY <1>1, <1>3 DEF BeginOp, Rouse, disk, logmem
<1>4. ASSUME NEW p \in Procs, EndOp(p) PROVE CopyInv'
  <2>1. stage = "up"
    BY <1>0, <1>4, Counted DEF EndOp, CallInv, CommitStages, RecoverStages, Running
  <2>2. stage' \in {"up", "done", "panic"} \/ (stage' = "wlog" /\ tail' = 0)
    BY <1>4, <2>1 DEF EndOp
  <2> QED
    BY <1>2, <2>2 DEF CopyInv
<1>5. ASSUME NEW p \in Procs, NEW b \in Blocks, NEW v \in Vals, LogWrite(p, b, v)
      PROVE  CopyInv'
  <2>1. stage = "up"
    BY <1>0, <1>5, Counted DEF LogWrite, CallInv, CommitStages, RecoverStages, Running
  <2> QED
    BY <1>2, <1>5, <2>1 DEF LogWrite
<1>6. ASSUME NEW p \in Procs, Commit(p) PROVE CopyInv'
  <2>1. CASE WriteLog
    <3>1. stage = "wlog" /\ tail + 1 \in 1..Len(lh) /\ tail + 1 \in 1..LOGSIZE
      BY <1>0, <2>1 DEF WriteLog, HeadInv
    <3>2. dlog' = [dlog EXCEPT ![tail + 1] = cache[lh[tail + 1]]]
          /\ UNCHANGED <<cache, lh>>
      BY <2>1 DEF WriteLog, logmem
    <3>3. \A i \in 1..(tail + 1) : dlog'[i] = cache'[lh'[i]]
      BY <1>0, <3>1, <3>2 DEF CopyInv
    <3>4. \/ stage' = "wlog" /\ tail' = tail + 1
          \/ stage' = "head" /\ tail + 1 = Len(lh)
      BY <1>0, <2>1, <3>1 DEF WriteLog, Step
    <3> QED
      BY <1>0, <3>2, <3>3, <3>4 DEF CopyInv
  <2>2. CASE WriteHead
    BY <1>0, <2>2 DEF WriteHead, CopyInv, HeadInv, logmem
  <2>3. CASE InstallTrans
    <3> DEFINE b == lh[tail + 1]
    <3>1. /\ stage = "install" /\ tail + 1 \in 1..Len(lh) /\ b \in Blocks
          /\ dlog[tail + 1] = cache[b]
      BY <1>0, <2>3 DEF InstallTrans, HeadInv, CopyInv
    <3>2. /\ home' = [home EXCEPT ![b] = dlog[tail + 1]] /\ cache' = cache
          /\ UNCHANGED <<dlog, lh>>
      BY <1>0, <2>3, <3>1 DEF InstallTrans, InstallBlock, logmem
    <3>3. \A i \in 1..(tail + 1) : home'[lh'[i]] = dlog'[i]
      BY <1>0, <3>1, <3>2 DEF CopyInv
    <3>4. \/ stage' = "install" /\ tail' = tail + 1
          \/ stage' = "clear" /\ tail + 1 = Len(lh)
      BY <1>0, <2>3, <3>1 DEF InstallTrans, Step
    <3> QED
      BY <1>0, <3>1, <3>2, <3>3, <3>4 DEF CopyInv
  <2>4. CASE Clear \/ CommitDone(p)
    BY <1>2, <2>4 DEF Clear, ClearLog, CommitDone
  <2> QED
    BY <1>6, <2>1, <2>2, <2>3, <2>4 DEF Commit
<1>7. ASSUME NEW b \in Blocks, Refetch(b) PROVE CopyInv'
  <2>1. cache' = cache
    BY <1>0, <1>7 DEF Refetch, LogInv, CacheInv, Running
  <2> QED
    BY <1>1, <1>7, <2>1 DEF Refetch, disk, logmem
<1>8. CASE ReadHead
  <2>1. /\ stage' = "rclear" => Len(lh') = 0
        /\ stage' \in {"rinstall", "rclear"} /\ tail' = 0
    BY <1>0, <1>8 DEF ReadHead, LogInv, TypeOK, HeadInv
  <2> QED
    BY <2>1 DEF CopyInv
<1>9. CASE RecoverTrans
  <2> DEFINE b == lh[tail + 1]
  <2>1. /\ stage = "rinstall" /\ tail + 1 \in 1..Len(lh) /\ b \in Blocks
    BY <1>0, <1>9 DEF RecoverTrans, HeadInv
  <2>2. /\ home' = [home EXCEPT ![b] = dlog[tail + 1]]
        /\ UNCHANGED <<dlog, lh>>
    BY <1>9 DEF RecoverTrans, InstallBlock, logmem
  <2>3. \A i \in 1..(tail + 1) : home'[lh'[i]] = dlog'[i]
    BY <1>0, <2>1, <2>2 DEF CopyInv
  <2>4. \/ stage' = "rinstall" /\ tail' = tail + 1
        \/ stage' = "rclear" /\ tail + 1 = Len(lh)
    BY <1>0, <1>9, <2>1 DEF RecoverTrans, Step
  <2> QED
    BY <1>0, <2>2, <2>3, <2>4 DEF CopyInv
<1>10. CASE RecoverClear \/ Crash
  BY <1>2, <1>10 DEF RecoverClear, ClearLog, Crash
<1>11. CASE UNCHANGED vars
  BY <1>1, <1>11 DEF vars, disk, logmem
<1> QED
  BY <1>3, <1>4, <1>5, <1>6, <1>7, <1>8, <1>9, <1>10, <1>11 DEF Next, Recover

\* The invariant is inductive.
LEMMA LogInvariant == Spec => []LogInv
<1>1. LogInv /\ [Next]_vars => LogInv'
  BY TypeStep, CallStep, HeadStep, CacheStep, CopyStep DEF LogInv
<1> QED
  BY <1>1, LogInvInit, PTL DEF Spec

\* Every variable of the log keeps its type, through crashes and recoveries
\* at any point of commit().
THEOREM LogTypes == Spec => []TypeOK
BY LogInvariant, PTL DEF LogInv

\* A transaction has at most nlog - 1 blocks, which log_write()'s own test sees
\* to, and each of them once, however often and by however many calls it is
\* written; so has the header on disk that commit() writes and recovery reads.
\* (That begin_op()'s reservation keeps log_write() from its panic is not
\* claimed: see ReservationHolds.)
THEOREM TransactionFits == Spec => []LogFits
<1>1. LogInv => LogFits
  BY DEF LogInv, HeadInv
<1> QED
  BY <1>1, LogInvariant, PTL

(***************************************************************************)
(* The refinement.                                                         *)
(***************************************************************************)
\* What recovery would make of the disk, block by block.
RecoveredIs ==
  /\ \A b \in Blocks \ Logged(dhead) : Recovered[b] = home[b]
  /\ \A i \in 1..Len(dhead) : Recovered[dhead[i]] = dlog[i]
  /\ Recovered \in [Blocks -> Vals]

\* A block entered once has one copy in the log, so the CHOOSE finds it.
LEMMA RecoveredFacts == LogInv => RecoveredIs
<1> SUFFICES ASSUME LogInv PROVE RecoveredIs
  OBVIOUS
<1>0. /\ dhead \in Seq(Blocks) /\ DOMAIN dhead = 1..Len(dhead) /\ Distinct(dhead)
      /\ Len(dhead) \in Nat /\ Len(dhead) <= LOGSIZE /\ LOGSIZE \in Nat
      /\ home \in [Blocks -> Vals] /\ dlog \in [1..LOGSIZE -> Vals]
  BY LogAssumption DEF LogInv, TypeOK, HeadInv, LogFits
<1>1. ASSUME NEW b \in Blocks \ Logged(dhead) PROVE Recovered[b] = home[b]
  BY DEF Recovered, Logged
<1>2. ASSUME NEW i \in 1..Len(dhead) PROVE Recovered[dhead[i]] = dlog[i]
  <2>1. (CHOOSE j \in DOMAIN dhead : dhead[j] = dhead[i]) = i
    BY <1>0, <1>2 DEF Distinct
  <2>2. dhead[i] \in Blocks /\ \E j \in DOMAIN dhead : dhead[j] = dhead[i]
    BY <1>0, <1>2
  <2> QED
    BY <2>1, <2>2 DEF Recovered
<1>3. ASSUME NEW b \in Blocks PROVE Recovered[b] \in Vals
  <2>1. CASE b \in Logged(dhead)
    <3>1. PICK i \in 1..Len(dhead) : dhead[i] = b
      BY <1>0, <2>1 DEF Logged
    <3>2. Recovered[b] = dlog[i] /\ i \in 1..LOGSIZE
      BY <1>0, <1>2, <3>1
    <3> QED
      BY <1>0, <3>2
  <2>2. CASE b \notin Logged(dhead)
    BY <1>0, <1>1, <2>2
  <2> QED
    BY <2>1, <2>2
<1> QED
  BY <1>1, <1>2, <1>3 DEF Recovered, RecoveredIs

LEMMA RecoveredFactsNext == LogInv' => RecoveredIs'
BY RecoveredFacts, PTL

\* Without a header on the disk, recovery changes nothing; nor does it once
\* every logged block is installed.
LEMMA RecoveredHome ==
  ASSUME LogInv, stage \in {"up", "wlog", "head", "done", "panic", "clear", "rclear"}
  PROVE  Recovered = home
<1>0. RecoveredIs /\ home \in [Blocks -> Vals] /\ dhead \in Seq(Blocks)
      /\ DOMAIN dhead = 1..Len(dhead)
  BY RecoveredFacts DEF LogInv, TypeOK
<1>1. CASE dhead = <<>>
  BY <1>0, <1>1 DEF RecoveredIs, Logged
<1>2. CASE stage \in {"clear", "rclear"}
  <2>1. \A i \in 1..Len(dhead) : home[dhead[i]] = dlog[i]
    BY <1>2 DEF LogInv, HeadInv, CopyInv
  <2>2. \A b \in Blocks : Recovered[b] = home[b]
    BY <1>0, <2>1 DEF RecoveredIs, Logged
  <2> QED
    BY <1>0, <2>2 DEF RecoveredIs
<1> QED
  BY <1>1, <1>2 DEF LogInv, HeadInv

LEMMA RecoveredHomeNext ==
  (LogInv /\ stage \in {"up", "wlog", "head", "done", "panic", "clear", "rclear"})'
    => (Recovered = home)'
<1>1. LogInv /\ stage \in {"up", "wlog", "head", "done", "panic", "clear", "rclear"}
        => Recovered = home
  BY RecoveredHome
<1> QED
  BY <1>1, PTL

\* install_trans() leaves what recovery would make of the disk as it is.
LEMMA InstallKeepsRecovered ==
  ASSUME LogInv, stage \in {"install", "rinstall"}, InstallBlock(lh[tail + 1]),
         UNCHANGED <<dlog, dhead>>
  PROVE  Recovered' = Recovered
<1>1. tail + 1 \in DOMAIN dhead /\ lh = dhead
  BY DEF LogInv, HeadInv, TypeOK
<1>2. home' = [home EXCEPT ![dhead[tail + 1]] = dlog[tail + 1]]
      /\ home \in [Blocks -> Vals]
  BY <1>1 DEF InstallBlock, LogInv, TypeOK
<1> QED
  BY <1>1, <1>2 DEF Recovered

View == IF stage \in {"boot", "rinstall", "rclear"} THEN Recovered ELSE cache

LEMMA AtomicStep ==
  LogInv /\ LogInv' /\ [Next]_vars => [Atomic!Next]_(Atomic!atomvars)
<1> SUFFICES ASSUME LogInv, LogInv', [Next]_vars
             PROVE  [Atomic!Next]_(Atomic!atomvars)
  OBVIOUS
<1>0. /\ TypeOK /\ CallInv /\ HeadInv /\ CacheInv /\ CopyInv
      /\ pc \in [Procs -> {"idle", "begin", "asleep", "op", "commit"}]
      /\ cache \in [Blocks -> Vals] /\ home \in [Blocks -> Vals]
      /\ stage \in CommitStages \cup RecoverStages \cup {"up", "panic"}
  BY DEF LogInv, TypeOK, CommitStages, RecoverStages
<1>a. UNCHANGED disk => Recovered' = Recovered
  BY DEF disk, Recovered
\* a step of the log that the file system does not see
<1>1. ASSUME View' = View, Recovered' = Recovered, Calls' = Calls
      PROVE  UNCHANGED Atomic!atomvars
  BY <1>1 DEF Atomic!atomvars, View, Calls
<1>2. ASSUME NEW p \in Procs, BeginOp(p) PROVE [Atomic!Next]_(Atomic!atomvars)
  <2>1. View' = View /\ Recovered' = Recovered
    BY <1>2, <1>a DEF BeginOp, View, Running
  <2>2. CASE MustWait
    <3>1. Calls' = Calls
      BY <1>0, <1>2, <2>2 DEF BeginOp, Calls
    <3> QED
      BY <1>1, <2>1, <3>1
  <2>3. CASE ~MustWait
    <3>1. p \notin Calls /\ Calls' = Calls \cup {p}
      BY <1>0, <1>2, <2>3 DEF BeginOp, Calls
    <3>2. Atomic!Begin(p)
      BY <2>1, <3>1 DEF Atomic!Begin, View, Calls
    <3> QED
      BY <3>2 DEF Atomic!Next
  <2> QED
    BY <2>2, <2>3
<1>3. ASSUME NEW p \in Procs, Rouse(p) PROVE UNCHANGED Atomic!atomvars
  <2>1. Calls' = Calls
    BY <1>0, <1>3 DEF Rouse, Calls
  <2>2. View' = View /\ Recovered' = Recovered
    BY <1>3, <1>a DEF Rouse, View
  <2> QED
    BY <1>1, <2>1, <2>2
<1>4. ASSUME NEW p \in Procs, EndOp(p) PROVE [Atomic!Next]_(Atomic!atomvars)
  <2>1. stage \notin RecoverStages
    BY <1>4, Counted DEF EndOp
  <2>2. View' = View /\ Recovered' = Recovered
    BY <1>4, <1>a, <2>1 DEF EndOp, View, RecoverStages
  <2>3. p \in Calls /\ Calls' = Calls \ {p}
    BY <1>0, <1>4 DEF EndOp, Calls, Woken
  <2>4. Atomic!End(p)
    BY <2>2, <2>3 DEF Atomic!End, View, Calls
  <2> QED
    BY <2>4 DEF Atomic!Next
<1>5. ASSUME NEW p \in Procs, NEW b \in Blocks, NEW v \in Vals, LogWrite(p, b, v)
      PROVE  [Atomic!Next]_(Atomic!atomvars)
  <2>1. stage \notin RecoverStages
    BY <1>5, Counted DEF LogWrite
  <2>2. /\ View' = [View EXCEPT ![b] = v] /\ Recovered' = Recovered
        /\ Calls' = Calls /\ p \in Calls
    BY <1>5, <1>a, <2>1 DEF LogWrite, View, Calls, RecoverStages
  <2>3. Atomic!Write(p, b, v)
    BY <2>2 DEF Atomic!Write, View, Calls
  <2> QED
    BY <2>3 DEF Atomic!Next
<1>6. ASSUME NEW p \in Procs, Commit(p) PROVE [Atomic!Next]_(Atomic!atomvars)
  <2>1. CASE WriteLog
    <3>1. /\ stage = "wlog" /\ stage' \in {"wlog", "head"} /\ UNCHANGED <<home, cache, pc>>
      BY <2>1 DEF WriteLog, Step
    <3>2. Recovered' = Recovered
      BY <3>1, RecoveredHome, RecoveredHomeNext
    <3> QED
      BY <1>1, <3>1, <3>2 DEF View, Calls
  <2>2. CASE WriteHead
    <3>1. /\ stage = "head" /\ stage' = "install" /\ dhead' = lh
          /\ UNCHANGED <<home, dlog, cache, pc>>
      BY <2>2 DEF WriteHead
    <3>2. \A b \in Blocks : Recovered'[b] = cache[b]
      <4>1. RecoveredIs'
        BY RecoveredFactsNext
      <4>2. \A i \in 1..Len(lh) : dlog[i] = cache[lh[i]]
        BY <1>0, <3>1 DEF CopyInv
      <4>3. \A b \in Blocks \ Logged(lh) : cache[b] = home[b]
        BY <1>0, <3>1 DEF CacheInv
      <4>4. lh \in Seq(Blocks) /\ DOMAIN lh = 1..Len(lh)
        BY <1>0 DEF TypeOK
      <4> QED
        BY <3>1, <4>1, <4>2, <4>3, <4>4 DEF RecoveredIs, Logged
    <3>3. Recovered' = cache
      BY <1>0, <3>2, RecoveredFactsNext DEF RecoveredIs
    <3>4. Calls = {} /\ Calls' = Calls
      BY <1>0, <3>1 DEF CallInv, CommitStages, Calls
    <3>5. Atomic!Commit
      BY <3>1, <3>3, <3>4 DEF Atomic!Commit, Calls
    <3> QED
      BY <3>5 DEF Atomic!Next
  <2>3. CASE InstallTrans
    <3>1. stage = "install" /\ stage' \in {"install", "clear"} /\ UNCHANGED pc
      BY <2>3 DEF InstallTrans, Step
    <3>2. tail + 1 \in 1..Len(lh) /\ lh[tail + 1] \in Blocks
      BY <1>0, <3>1 DEF HeadInv, TypeOK
    <3>3. cache' = cache
      BY <1>0, <2>3, <3>1, <3>2 DEF InstallTrans, InstallBlock, CopyInv
    <3>4. Recovered' = Recovered
      BY <2>3, <3>1, InstallKeepsRecovered DEF InstallTrans
    <3> QED
      BY <1>1, <3>1, <3>3, <3>4 DEF View, Calls
  <2>4. CASE Clear
    <3>1. stage = "clear" /\ stage' = "done" /\ UNCHANGED <<home, cache, pc>>
      BY <2>4 DEF Clear, ClearLog
    <3>2. Recovered' = Recovered
      BY <3>1, RecoveredHome, RecoveredHomeNext
    <3> QED
      BY <1>1, <3>1, <3>2 DEF View, Calls
  <2>5. CASE CommitDone(p)
    <3>1. Calls' = Calls
      BY <1>0, <2>5 DEF CommitDone, Woken, Calls
    <3>2. View' = View /\ Recovered' = Recovered
      BY <2>5, <1>a DEF CommitDone, View
    <3> QED
      BY <1>1, <3>1, <3>2
  <2> QED
    BY <1>6, <2>1, <2>2, <2>3, <2>4, <2>5 DEF Commit
<1>7. ASSUME NEW b \in Blocks, Refetch(b) PROVE UNCHANGED Atomic!atomvars
  <2>1. cache' = cache
    BY <1>0, <1>7 DEF Refetch, CacheInv, Running
  <2>2. View' = View /\ Recovered' = Recovered /\ Calls' = Calls
    BY <1>7, <1>a, <2>1 DEF Refetch, View, Calls
  <2> QED
    BY <1>1, <2>2
<1>8. CASE ReadHead
  <2>1. Recovered' = Recovered
    BY <1>8, <1>a DEF ReadHead
  <2> QED
    BY <1>1, <1>8, <2>1 DEF ReadHead, View, Calls
<1>9. CASE RecoverTrans
  <2>1. stage = "rinstall" /\ stage' \in {"rinstall", "rclear"} /\ UNCHANGED pc
    BY <1>9 DEF RecoverTrans, Step
  <2>2. Recovered' = Recovered
    BY <1>9, <2>1, InstallKeepsRecovered DEF RecoverTrans
  <2> QED
    BY <1>1, <2>1, <2>2 DEF View, Calls
<1>10. CASE RecoverClear
  <2>1. stage = "rclear" /\ stage' = "up" /\ UNCHANGED <<home, cache, pc>>
    BY <1>10 DEF RecoverClear, ClearLog
  <2>2. Recovered = home /\ Recovered' = home
    BY <2>1, RecoveredHome, RecoveredHomeNext
  <2>3. cache = home
    BY <1>0, <2>1 DEF CacheInv, RecoverStages
  <2> QED
    BY <1>1, <2>1, <2>2, <2>3 DEF View, Calls
<1>11. CASE Crash
  <2>1. /\ Recovered' = Recovered /\ View' = Recovered' /\ Calls' = {}
    BY <1>11, <1>a DEF Crash, View, Calls
  <2>2. Atomic!Crash
    BY <2>1 DEF Atomic!Crash, View, Calls
  <2> QED
    BY <2>2 DEF Atomic!Next
<1>12. CASE UNCHANGED vars
  <2>1. View' = View /\ Recovered' = Recovered /\ Calls' = Calls
    BY <1>12, <1>a DEF vars, View, Calls
  <2> QED
    BY <1>1, <2>1
<1> QED
  BY <1>2, <1>3, <1>4, <1>5, <1>6, <1>7, <1>8, <1>9, <1>10, <1>11, <1>12
     DEF Next, Recover

\* The write-ahead log is an atomic one: begin_op() to end_op() of all calls
\* between two commits reach the disk together, at the write of the header,
\* or not at all, wherever commit() or recovery is cut short.
THEOREM LogImplementsAtomic == Spec => ImplementsAtomic
<1>1. Init => Atomic!Init
  <2> SUFFICES ASSUME Init PROVE Atomic!Init
    OBVIOUS
  <2>1. Recovered = home /\ home \in [Blocks -> Vals] /\ cache = home
    BY LogInvInit, RecoveredHome DEF Init
  <2> QED
    BY <2>1 DEF Init, Atomic!Init
<1>2. LogInv /\ LogInv' /\ [Next]_vars => [Atomic!Next]_(Atomic!atomvars)
  BY AtomicStep
<1> QED
  BY <1>1, <1>2, LogInvariant, PTL DEF Spec, ImplementsAtomic, Atomic!Spec
=============================================================================
