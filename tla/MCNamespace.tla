---------------------------- MODULE MCNamespace ----------------------------
(* Paths and trees for Namespace, for TLC. *)
EXTENDS Namespace

\* paths from the root and from the current directory
Path(a, e) == [abs |-> a, elems |-> e]
NsPaths == {Path(TRUE, <<"a">>), Path(FALSE, <<"..", "b">>), Path(FALSE, <<"b">>)}

\* trees: /a; /a/b, a file; /a/b, a directory removed while it is the current one;
\* and a file removed while it is open
Din(t, n) == [type |-> t, nlink |-> n]
Dir(up, e) == [n \in Entries |-> IF n = ".." THEN up ELSE IF n \in DOMAIN e THEN e[n] ELSE 0]
Tree(di, de, dir, file) ==
  [dino |-> di, dents |-> de, cwd |-> [p \in Callers |-> dir], fd |-> [p \in Callers |-> file]]
Root2 == Dir(1, [a |-> 2])
NsTrees == {
  Tree(<<Din("dir", 2), Din("dir", 1), Din("free", 0)>>, <<Root2, Dir(1, <<>>), NoEntries>>, 1, 0),
  Tree(<<Din("dir", 2), Din("dir", 1), Din("file", 1)>>, <<Root2, Dir(1, [b |-> 3]), NoEntries>>, 2, 0),
  Tree(<<Din("dir", 2), Din("dir", 1), Din("dir", 0)>>, <<Root2, Dir(1, <<>>), Dir(2, <<>>)>>, 3, 0),
  Tree(<<Din("dir", 1), Din("file", 0), Din("free", 0)>>, <<Dir(1, <<>>), NoEntries, NoEntries>>, 1, 2) }

\* the directory /a/b, which is the current one
NsDeepTrees == {
  Tree(<<Din("dir", 2), Din("dir", 2), Din("dir", 1)>>,
       <<Root2, Dir(1, [b |-> 3]), Dir(2, <<>>)>>, 3, 0) }
=============================================================================
