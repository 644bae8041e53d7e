------------------------------ MODULE MCCopyCmd ------------------------------
(* Instances of CopyCmd for TLC.                                            *)
EXTENDS CopyCmd

\* Names: two directories, two files, and a destination.
d == 1
e == 2
x == 3
y == 4
t == 5

Root == <<>> :> "dir"

\* d/x, d/y, d/e/x and, beside d, the file y.
Full(k) ==
  Root @@ <<d>> :> "dir" @@ <<d, x>> :> "dx" @@ <<d, y>> :> "dy"
       @@ <<d, e>> :> k @@ <<d, e, x>> :> "dex" @@ <<y>> :> "y"

\* An empty directory and a file.
Sparse == Root @@ <<d>> :> "dir" @@ <<y>> :> "y"

\* Where a copy may go: nothing, a directory with a file in it, the directories
\* of d without the files, a file that is no longer than what is copied, a
\* directory that may not be written.
Targets ==
  {Root, Root @@ <<t>> :> "dir" @@ <<t, y>> :> "old",
   Root @@ <<t>> :> "dir" @@ <<t, d>> :> "dir" @@ <<t, d, e>> :> "dir",
   Root @@ <<t>> :> "short", Root @@ <<t>> :> "ro" @@ <<t, y>> :> "old"}

UpWorlds == {[local |-> s, remote |-> r] : s \in {Full("dir"), Sparse},
                                           r \in Targets}
DownWorlds == {[local |-> l, remote |-> s] :
                 s \in {Full("dir"), Full("ro"), Sparse}, l \in Targets}

AllWorlds == UpWorlds \cup DownWorlds

Mk(r, p, s, g) == [remote |-> r, path |-> p, slash |-> s, glob |-> g]

\* What is copied: a file, a directory, a pattern, two files, one of them from
\* below, a pattern and a file.
SourceLists(r) ==
  { <<Mk(r, <<y>>, FALSE, {})>>, <<Mk(r, <<d>>, FALSE, {})>>,
    <<Mk(r, <<d>>, FALSE, {x, y})>>, <<Mk(r, <<>>, FALSE, {d, y})>>,
    <<Mk(r, <<y>>, FALSE, {}), Mk(r, <<d, x>>, FALSE, {})>>,
    <<Mk(r, <<d>>, FALSE, {x}), Mk(r, <<y>>, FALSE, {})>> }

Dests(r) == {Mk(r, <<t>>, FALSE, {}), Mk(r, <<t>>, TRUE, {}),
             Mk(r, <<t, d>>, FALSE, {}), Mk(r, <<>>, TRUE, {})}

AllCommands ==
  UNION {{[sources |-> s, dst |-> q, recursive |-> b, dryRun |-> m = "dry",
           verify |-> m = "verify"] :
            s \in SourceLists(r), q \in Dests(~r), b \in BOOLEAN,
            m \in {"dry", "plain", "verify"}} : r \in BOOLEAN}
  \cup {[sources |-> s, dst |-> Mk(TRUE, <<t>>, FALSE, {}),
         recursive |-> FALSE, dryRun |-> FALSE, verify |-> FALSE] :
          s \in {<<Mk(TRUE, <<y>>, FALSE, {})>>,
                 <<Mk(FALSE, <<y>>, FALSE, {}), Mk(TRUE, <<y>>, FALSE, {})>>}}

NoIdentity == <<>>

\* Everything else is as long as what is copied, or shorter.
LongerOnes == {"old", "mixed"} \X {"dx", "dy", "dex", "y"}
=============================================================================
