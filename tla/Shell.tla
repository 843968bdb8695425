------------------------------- MODULE Shell --------------------------------
(***************************************************************************)
(* user/sh.c: the parser, and runcmd() with the processes, descriptors and   *)
(* pipes it makes.                                                          *)
(*                                                                         *)
(* A line is a sequence of tokens, as gettoken() cuts it.  A program that   *)
(* exec() starts is abstracted to one that reads its standard input to the   *)
(* end if that is a pipe, as cat and wc do, or ends earlier.  What a child   *)
(* does to its own descriptors before it runs its command is part of fork().  *)
(***************************************************************************)
EXTENDS Integers, Sequences, FiniteSets, FiniteSetsExt

CONSTANTS
  MAXARGS,
  Words,          \* tokens that are not symbols
  MaxTokens,      \* bound: length of the lines that are only parsed
  Scripts,        \* the lines that are run
  Pids,           \* processes beside the shell, 1 .. n
  MaxFails        \* bound: fork1() and open() that fail

VARIABLES
  line,           \* the line typed so far
  prompt,         \* the shell is in getcmd()
  proc,           \* each process: what it does, its command, descriptors, parent
  script,         \* the line that is run
  fails

shVars == <<line, prompt, proc, script, fails>>

Redirs == {"<", ">", ">>"}
Symbols == Redirs \cup {"|", "&", ";", "(", ")"}

(***************************************************************************)
(* The parser: an operator takes what is left of the line and returns the   *)
(* tree and the rest; ok is FALSE once panic() was called.                  *)
(***************************************************************************)
Peek(s, toks) == s # <<>> /\ Head(s) \in toks
Parsed(cmd, rest) == [ok |-> TRUE, cmd |-> cmd, rest |-> rest]
Syntax == [ok |-> FALSE, cmd |-> <<>>, rest |-> <<>>]

\* redircmd() around cmd, one for each of the redirections rs
RECURSIVE Redircmds(_, _)
Redircmds(cmd, rs) ==
  IF rs = <<>> THEN cmd ELSE Redircmds(<<"redir", cmd, Head(rs)[1], Head(rs)[2]>>, Tail(rs))

\* parseredirs(): the redirections found are added to x.redirs
RECURSIVE Parseredirs(_)
Parseredirs(x) ==
  IF ~x.ok \/ ~Peek(x.rest, Redirs) THEN x
  ELSE IF Len(x.rest) < 2 \/ x.rest[2] \in Symbols THEN [x EXCEPT !.ok = FALSE]
  ELSE Parseredirs([x EXCEPT !.redirs = Append(@, <<x.rest[1], x.rest[2]>>),
                             !.rest = SubSeq(@, 3, Len(@))])

\* the loop of parseexec()
RECURSIVE Parseargs(_)
Parseargs(x) ==
  IF ~x.ok \/ x.rest = <<>> \/ Peek(x.rest, {"|", ")", "&", ";"}) THEN x
  ELSE IF Head(x.rest) \in Symbols \/ Len(x.args) + 1 >= MAXARGS THEN [x EXCEPT !.ok = FALSE]
  ELSE Parseargs(Parseredirs([x EXCEPT !.args = Append(@, Head(x.rest)), !.rest = Tail(@)]))

Start(s) == [ok |-> TRUE, args |-> <<>>, redirs |-> <<>>, rest |-> s]
Around(x, cmd) == IF x.ok THEN Parsed(Redircmds(cmd, x.redirs), x.rest) ELSE Syntax

RECURSIVE Backcmds(_)
Backcmds(r) ==
  IF r.ok /\ Peek(r.rest, {"&"}) THEN Backcmds(Parsed(<<"back", r.cmd>>, Tail(r.rest))) ELSE r

Join(kind, l, r) == IF r.ok THEN Parsed(<<kind, l.cmd, r.cmd>>, r.rest) ELSE Syntax

RECURSIVE Parseline(_)
RECURSIVE Parsepipe(_)
Parseblock(r) ==
  IF r.ok /\ Peek(r.rest, {")"}) THEN Around(Parseredirs(Start(Tail(r.rest))), r.cmd) ELSE Syntax
Parsewords(x) == Around(x, <<"exec", x.args>>)
Parseexec(s) ==
  IF Peek(s, {"("}) THEN Parseblock(Parseline(Tail(s)))
  ELSE Parsewords(Parseargs(Parseredirs(Start(s))))

\* Mutant of PipeTail: the right side of a pipe is a line.
PipeTailLine(s) == Parseline(s)

\* the right side of a pipe
PipeTail(s) == Parsepipe(s)
PipeRest(l) ==
  IF l.ok /\ Peek(l.rest, {"|"}) THEN Join("pipe", l, PipeTail(Tail(l.rest))) ELSE l
Parsepipe(s) == PipeRest(Parseexec(s))

ListRest(l) ==
  IF l.ok /\ Peek(l.rest, {";"}) THEN Join("list", l, Parseline(Tail(l.rest))) ELSE l
Parseline(s) == ListRest(Backcmds(Parsepipe(s)))

\* parsecmd(): leftovers are an error
NoLeftovers(r) == IF r.ok /\ r.rest = <<>> THEN r ELSE Syntax
Parsecmd(s) == NoLeftovers(Parseline(s))

(***************************************************************************)
(* Descriptors.                                                            *)
(***************************************************************************)
Closed == <<"closed", 0>>
Console == <<"console", 0>>
FdNos == 0 .. 4
Close(fds, d) == [fds EXCEPT ![d] = Closed]
Lowest(fds) == Min({d \in FdNos : fds[d] = Closed})
Dup(fds, d) == [fds EXCEPT ![Lowest(fds)] = fds[d]]
RedirFd(sym) == IF sym = "<" THEN 0 ELSE 1
Openfile(fds, sym, f) ==
  LET g == Close(fds, RedirFd(sym)) IN [g EXCEPT ![Lowest(g)] = <<sym, f>>]

\* pipe(), named by the process that made it: p[0], then p[1]
Readend(p) == <<"r", p>>
Writeend(p) == <<"w", p>>
Pipefds(fds, p) ==
  LET g == [fds EXCEPT ![Lowest(fds)] = Readend(p)] IN [g EXCEPT ![Lowest(g)] = Writeend(p)]
P0(fds, p) == CHOOSE d \in FdNos : fds[d] = Readend(p)
P1(fds, p) == CHOOSE d \in FdNos : fds[d] = Writeend(p)
CloseBoth(fds, d0, d1) == Close(Close(fds, d0), d1)

\* close(1); dup(p[1]); close(p[0]); close(p[1]), and the same for 0
LeftFds(fds, d0, d1) == CloseBoth(Dup(Close(fds, 1), d1), d0, d1)
RightFds(fds, d0, d1) == CloseBoth(Dup(Close(fds, 0), d0), d0, d1)

\* Mutant of ParentFds: the parent keeps the end to write to.
ParentFdsOpen(fds, d0, d1) == Close(fds, d0)

\* close(p[0]); close(p[1]) in the parent
ParentFds(fds, d0, d1) == CloseBoth(fds, d0, d1)

(***************************************************************************)
(* runcmd()                                                                *)
(***************************************************************************)
NoProc == [at |-> "free", cmd |-> <<>>, fds |-> [d \in FdNos |-> Closed], parent |-> 0]
NewProc(cmd, fds, p) == [at |-> "run", cmd |-> cmd, fds |-> fds, parent |-> p]
\* a name is free again once nobody has an end of its pipe
FreePids == {p \in Pids : proc[p].at = "free" /\
  \A q \in Pids, d \in FdNos : proc[q].fds[d] \notin {Readend(p), Writeend(p)}}
Runs(p, kind) == proc[p].at = "run" /\ proc[p].cmd[1] = kind

\* exit(): the descriptors are closed, init takes the children and collects its own
Gone(f, p) == [q \in Pids |->
  IF q = p THEN IF f[p].parent = -1 THEN NoProc ELSE [NoProc EXCEPT !.at = "zombie", !.parent = f[p].parent]
  ELSE IF f[q].parent = p /\ f[q].at = "zombie" THEN NoProc
  ELSE IF f[q].parent = p /\ f[q].at # "free" THEN [f[q] EXCEPT !.parent = -1]
  ELSE f[q]]
Forked(p, at, child, fds) ==
  LET c == Min(FreePids) IN [proc EXCEPT ![p].at = at, ![c] = NewProc(child, fds, p)]
Keep == UNCHANGED <<line, prompt, script>>

\* the exec() of a program; a missing one, and an empty command, exit
RunExec(p) ==
  /\ Runs(p, "exec")
  /\ \/ proc[p].cmd[2] # <<>> /\ proc' = [proc EXCEPT ![p].at = "program"] /\ UNCHANGED fails
     \/ proc[p].cmd[2] = <<>> /\ proc' = Gone(proc, p) /\ UNCHANGED fails
     \/ proc[p].cmd[2] # <<>> /\ fails < MaxFails /\ fails' = fails + 1 /\ proc' = Gone(proc, p)
  /\ Keep

RunRedir(p) ==
  /\ Runs(p, "redir")
  /\ LET c == proc[p].cmd
     IN \/ /\ proc' = [proc EXCEPT ![p].fds = Openfile(@, c[3], c[4]), ![p].cmd = c[2]]
           /\ UNCHANGED fails
        \/ fails < MaxFails /\ fails' = fails + 1 /\ proc' = Gone(proc, p)
  /\ Keep

RunList(p) ==
  /\ Runs(p, "list") /\ FreePids # {}
  /\ proc' = Forked(p, "listwait", proc[p].cmd[2], proc[p].fds)
  /\ UNCHANGED fails /\ Keep

\* pipe() and the first fork1()
RunPipe(p) ==
  /\ Runs(p, "pipe") /\ FreePids # {}
  /\ LET g == Pipefds(proc[p].fds, p)
         c == Min(FreePids)
     IN proc' = [proc EXCEPT ![p].at = "pipe2", ![p].fds = g,
                             ![c] = NewProc(proc[p].cmd[2], LeftFds(g, P0(g, p), P1(g, p)), p)]
  /\ UNCHANGED fails /\ Keep

\* the second fork1(), and both ends closed
RunPipe2(p) ==
  /\ proc[p].at = "pipe2" /\ FreePids # {}
  /\ LET g == proc[p].fds
         c == Min(FreePids)
     IN proc' = [proc EXCEPT ![p].at = "pipewait2", ![p].fds = ParentFds(g, P0(g, p), P1(g, p)),
                             ![c] = NewProc(proc[p].cmd[3], RightFds(g, P0(g, p), P1(g, p)), p)]
  /\ UNCHANGED fails /\ Keep

RunBack(p) ==
  /\ Runs(p, "back") /\ FreePids # {}
  /\ proc' = Gone(Forked(p, "run", proc[p].cmd[2], proc[p].fds), p)
  /\ UNCHANGED fails /\ Keep

\* fork1(): panic("fork")
ForkFails(p) ==
  /\ Runs(p, "list") \/ Runs(p, "pipe") \/ Runs(p, "back") \/ proc[p].at = "pipe2"
  /\ fails < MaxFails /\ fails' = fails + 1
  /\ proc' = Gone(proc, p)
  /\ Keep

\* wait(0), and what runcmd() does after it
Waited(p, f) ==
  CASE f[p].at = "listwait"  -> [f EXCEPT ![p].at = "run", ![p].cmd = f[p].cmd[3]]
    [] f[p].at = "pipewait2" -> [f EXCEPT ![p].at = "pipewait"]
    [] f[p].at = "pipewait"  -> Gone(f, p)
WaitChild(p, c) ==
  /\ proc[p].at \in {"listwait", "pipewait", "pipewait2"}
  /\ proc[c].at = "zombie" /\ proc[c].parent = p
  /\ proc' = Waited(p, [proc EXCEPT ![c] = NoProc])
  /\ UNCHANGED fails /\ Keep

\* the program ends; AtEof: its input, if a pipe, has nobody left to write to it
AtEof(p) == \A m \in Pids : proc[p].fds[0] = Readend(m) =>
  \A q \in Pids, d \in FdNos : proc[q].fds[d] # Writeend(m)
Ends(p) ==
  /\ proc[p].at = "program"
  /\ proc' = Gone(proc, p)
  /\ UNCHANGED fails /\ Keep

(***************************************************************************)
(* main()                                                                  *)
(***************************************************************************)
ShellFds == [d \in FdNos |-> IF d <= 2 THEN Console ELSE Closed]

\* a line that is only parsed, token by token
Type(t) ==
  /\ prompt /\ script = <<>> /\ Len(line) < MaxTokens
  /\ line' = Append(line, t)
  /\ UNCHANGED <<prompt, proc, script, fails>>

\* getcmd() returns a line; cd is done by the shell, the rest by a child
Enter(s) ==
  /\ prompt /\ line = <<>> /\ FreePids # {} /\ script = <<>>
  /\ script' = s
  /\ IF Head(s) = "cd" THEN UNCHANGED <<prompt, proc>>
     ELSE \E r \in {Parsecmd(s)}, c \in {Min(FreePids)} :
            /\ prompt' = FALSE
            /\ proc' = [proc EXCEPT ![c] =
                 IF r.ok THEN NewProc(r.cmd, ShellFds, 0) ELSE [NoProc EXCEPT !.at = "zombie"]]
  /\ UNCHANGED <<line, fails>>

\* fork1() fails in main(): the shell exits and init starts another
EnterFails(s) ==
  /\ prompt /\ line = <<>> /\ script = <<>> /\ fails < MaxFails
  /\ script' = s /\ fails' = fails + 1
  /\ UNCHANGED <<line, prompt, proc>>

\* wait(0) in main()
MainWait(c) ==
  /\ ~prompt /\ proc[c].at = "zombie" /\ proc[c].parent = 0
  /\ proc' = [proc EXCEPT ![c] = NoProc]
  /\ prompt' = TRUE
  /\ UNCHANGED <<line, script, fails>>

ShInit ==
  /\ line = <<>> /\ prompt = TRUE /\ script = <<>> /\ fails = 0
  /\ proc = [p \in Pids |-> NoProc]

RunStep(p) ==
  \/ RunExec(p) \/ RunRedir(p) \/ RunList(p) \/ RunPipe(p) \/ RunPipe2(p) \/ RunBack(p)
  \/ MainWait(p) \/ \E c \in Pids : WaitChild(p, c)
ShNext ==
  \/ \E t \in Words \cup Symbols : Type(t)
  \/ \E s \in Scripts : Enter(s) \/ EnterFails(s)
  \/ \E p \in Pids : RunStep(p) \/ ForkFails(p) \/ Ends(p)

\* Every process runs, and a program ends once its input has.
ShFairness == \A p \in Pids : WF_shVars(RunStep(p)) /\ WF_shVars(AtEof(p) /\ Ends(p))
ShSpec == ShInit /\ [][ShNext]_shVars
ShFairSpec == ShSpec /\ ShFairness

(***************************************************************************)
(* What a line means: by cutting it at the symbols outside parentheses.     *)
(***************************************************************************)
Sub(s, a, b) == SubSeq(s, a, b)
Depth(s, i) == Cardinality({k \in 1 .. i - 1 : s[k] = "("}) - Cardinality({k \in 1 .. i - 1 : s[k] = ")"})
Outer(s, t) == {i \in 1 .. Len(s) : s[i] = t /\ Depth(s, i) = 0}
Match(s) == {i \in 1 .. Len(s) : s[i] = ")" /\ Depth(s, i) = 1}
Amps(s) == Len(s) - Max({0} \cup {i \in 1 .. Len(s) : s[i] # "&"})
Files(s) == {i \in 2 .. Len(s) : s[i - 1] \in Redirs}
Picked(s, is) == [k \in 1 .. Cardinality(is) |-> s[CHOOSE i \in is : Cardinality({j \in is : j < i}) = k - 1]]
Redirections(s) == [k \in 1 .. Cardinality(Files(s)) |->
  LET i == CHOOSE i \in Files(s) : Cardinality({j \in Files(s) : j < i}) = k - 1 IN <<s[i - 1], s[i]>>]
Plain(s) ==
  \A i \in 1 .. Len(s) : s[i] \in Symbols => s[i] \in Redirs /\ i < Len(s) /\ s[i + 1] \notin Symbols
Args(s) == {i \in 1 .. Len(s) : s[i] \notin Symbols /\ i \notin Files(s)}

Bad == <<"bad">>
RECURSIVE Backs(_, _)
Backs(c, n) == IF n = 0 THEN c ELSE Backs(<<"back", c>>, n - 1)
Both(kind, l, r) == IF l = Bad \/ r = Bad THEN Bad ELSE <<kind, l, r>>

RECURSIVE Meaning(_)
MeaningSimple(s) ==
  IF Peek(s, {"("})
  THEN IF Match(s) = {} THEN Bad
       ELSE LET e == Min(Match(s))
                inner == Meaning(Sub(s, 2, e - 1))
                after == Sub(s, e + 1, Len(s))
            IN IF inner = Bad \/ ~Plain(after) \/ Args(after) # {} THEN Bad
               ELSE Redircmds(inner, Redirections(after))
  ELSE IF Plain(s) /\ Cardinality(Args(s)) < MAXARGS
       THEN Redircmds(<<"exec", Picked(s, Args(s))>>, Redirections(s)) ELSE Bad
RECURSIVE MeaningPipe(_)
MeaningPipe(s) ==
  IF Outer(s, "|") = {} THEN MeaningSimple(s)
  ELSE LET i == Min(Outer(s, "|"))
       IN Both("pipe", MeaningSimple(Sub(s, 1, i - 1)), MeaningPipe(Sub(s, i + 1, Len(s))))
MeaningBack(s) ==
  LET c == MeaningPipe(Sub(s, 1, Len(s) - Amps(s))) IN IF c = Bad THEN Bad ELSE Backs(c, Amps(s))
Meaning(s) ==
  IF Outer(s, ";") = {} THEN MeaningBack(s)
  ELSE LET i == Min(Outer(s, ";"))
       IN Both("list", MeaningBack(Sub(s, 1, i - 1)), Meaning(Sub(s, i + 1, Len(s))))

\* the descriptors 0 and 1 of the programs of a tree run with i and o
RECURSIVE Wiring(_, _, _)
Wiring(c, i, o) ==
  CASE c[1] = "exec"  -> {<<c[2], i, o>>}
    [] c[1] = "redir" -> IF c[3] = "<" THEN Wiring(c[2], "f", o) ELSE Wiring(c[2], i, "f")
    [] c[1] = "pipe"  -> Wiring(c[2], i, "p") \cup Wiring(c[3], "p", o)
    [] c[1] = "list"  -> Wiring(c[2], i, o) \cup Wiring(c[3], i, o)
    [] c[1] = "back"  -> Wiring(c[2], i, o)
Sort(x) == IF x = Console THEN "c" ELSE IF x = Closed THEN "x" ELSE IF x[1] \in Redirs THEN "f" ELSE "p"

(***************************************************************************)
(* Properties.                                                             *)
(***************************************************************************)
\* Every variable has its type.
ShTypeOK ==
  /\ \A i \in 1 .. Len(line) : line[i] \in Words \cup Symbols
  /\ prompt \in BOOLEAN /\ fails \in 0 .. MaxFails
  /\ \A p \in Pids : DOMAIN proc[p].fds = FdNos /\ proc[p].parent \in Pids \cup {-1, 0}

\* the tree: parsecmd() accepts exactly the lines that make sense and gives them the tree the
\* symbols outside parentheses call for: pipes bind tighter than &, & tighter than ;.
ParseRight == \A s \in {line, script} :
  LET r == Parsecmd(s) IN IF r.ok THEN r.cmd = Meaning(s) ELSE Meaning(s) = Bad

\* the descriptors: a program starts with the input and output its place in the line
\* gives it, the console as descriptor 2, and nothing else: no stray end of a pipe, its own or that of
\* a pipe around it, keeps a reader from seeing the end of its input.
ExecFds == \A p \in Pids : proc[p].at = "program" =>
  LET g == proc[p].fds
  IN /\ <<proc[p].cmd[2], Sort(g[0]), Sort(g[1])>> \in Wiring(Parsecmd(script).cmd, "c", "c")
     /\ g[2] = Console /\ \A d \in FdNos : d > 2 => g[d] = Closed

\* A line runs as it is written: parsecmd() builds the tree its symbols call for, and
\* every program runcmd() starts under it has exactly the input and output it should.
RunsAsWritten == ShTypeOK /\ ParseRight /\ ExecFds

\* The shell comes back: every line that is run gives the prompt again, whatever fails.
LineEnds == ~prompt ~> prompt
=============================================================================
