------------------------------- MODULE CopyCmd -------------------------------
(***************************************************************************)
(* gcp cp from its arguments to its exit: the expansion of the sources     *)
(* (glob.go), the destination of each of them and the router copySingle    *)
(* (cp.go), and the walks that copy a directory file by file (cp_dir.go,   *)
(* cp_from_host_dir.go).  The first error ends the command.                *)
(*                                                                         *)
(* A file system is a tree of directories and files: a function on the     *)
(* paths that exist, a path being a sequence of names.  A file transfer is *)
(* one step here, and one that fails leaves a partial file; FileTransfer   *)
(* has the detail.  The program reads and writes a state file only where   *)
(* there is one already, and here there is none.  Names are numbers, so    *)
(* that they have an order.  Addresses, users and ports are left out.      *)
(***************************************************************************)
EXTENDS Integers, SequencesExt

CONSTANTS
  Worlds,     \* pairs of a local and a remote tree to start from
  Commands,   \* the commands that may be given
  Identity,   \* the base name of the IdentityFile that the SSH configuration
              \* has for the host: <<>> (none) or <<name>>
  Longer,     \* the pairs of contents whose first is longer than the second
  MaxFaults   \* bound: lost connections, full disks, interrupts

\* "dir", or "ro" for one that the user may not write; anything else is the
\* content of a regular file, "empty", "partial" (some chunks are missing) and
\* "mixed" (behind the new content is what was left of a longer one) among them.
DirKinds == {"dir", "ro"}

\* An argument: path, with slash if it is empty or ends with one.  A pattern
\* is the directory it stands in and the names it matches.  Paths are absolute:
\* <<>> is "/".  An address without a path (host:) or directory (host:*.go),
\* which some of the code takes for "/" and some for the home, is not a case.
Arg == [remote : BOOLEAN, path : Seq(Nat), slash : BOOLEAN, glob : SUBSET Nat]

ASSUME CopyAssumption ==
  /\ \A w \in Worlds : \A side \in {"local", "remote"} :
       /\ <<>> \in DOMAIN w[side] /\ DOMAIN w[side] \subseteq Seq(Nat)
       /\ IsFiniteSet(DOMAIN w[side])
       /\ \A p \in DOMAIN w[side] : w[side][p] # "absent"
       /\ \A p \in DOMAIN w[side] :
            p # <<>> => /\ Front(p) \in DOMAIN w[side]
                        /\ w[side][Front(p)] \in DirKinds
  /\ \A w \in Worlds : w = [local |-> w.local, remote |-> w.remote]
  /\ \A c \in Commands : c.sources # <<>> /\ c.sources \in Seq(Arg)
                         /\ c.dst \in Arg
  /\ \A c \in Commands : c.verify \in BOOLEAN
  /\ Identity \in Seq(Nat) /\ Len(Identity) <= 1 /\ MaxFaults \in Nat
  /\ \A x \in Longer : /\ x[1] # x[2]
                       /\ x[1] \notin {"absent", "empty"} \cup DirKinds

VARIABLES
  cmd,      \* the command line
  tree,     \* the two file systems
  work,     \* what remains to be copied, the next item first
  pc,       \* "expand", "copy" or "exit"
  outcome,  \* "none", "ok" or "err"
  faults,
  interrupted,  \* SIGINT or SIGTERM has cancelled the context
  tree0     \* the file systems before the command (history)

vars == <<cmd, tree, work, pc, outcome, faults, interrupted, tree0>>

-----------------------------------------------------------------------------
(* File systems                                                            *)

Node(t, p) == IF p \in DOMAIN t THEN t[p] ELSE "absent"

IsDir(t, p) == Node(t, p) \in DirKinds

IsFile(t, p) == Node(t, p) \notin DirKinds \cup {"absent"}

\* The order of filepath.Walk, Glob and ReadDir.
Before(p, q) ==
  \E i \in 1 .. Len(q) :
    /\ \A j \in 1 .. i - 1 : j <= Len(p) /\ p[j] = q[j]
    /\ i > Len(p) \/ p[i] < q[i]

Sorted(paths) ==
  CHOOSE ps \in [1 .. Cardinality(paths) -> paths] :
    \A i, j \in DOMAIN ps : i < j => ps[i] # ps[j] /\ ~Before(ps[j], ps[i])

Children(t, p) ==
  {q \in DOMAIN t : Len(q) = Len(p) + 1 /\ IsPrefix(p, q)}

FilesBelow(t, p) == {q \in DOMAIN t : IsPrefix(p, q) /\ IsFile(t, q)}

Base(p) == IF p = <<>> THEN <<>> ELSE <<Last(p)>>

\* Mutation: only the last directory of the path may be missing.
CanMkdir(t, p) ==
  /\ Node(t, p) \in DirKinds \cup {"absent"}
  /\ p = <<>> \/ IsDir(t, Front(p))

\* os.MkdirAll works if the existing part of the path are directories and the
\* last of them may be written, unless all of it exists.
CanMkdirAll(t, p) ==
  /\ \A q \in Prefixes(p) : Node(t, q) \in DirKinds \cup {"absent"}
  /\ \A q \in Prefixes(p) :
       q # <<>> /\ q \notin DOMAIN t => Node(t, Front(q)) # "ro"

MkdirAll(t, p) ==
  [q \in DOMAIN t \cup Prefixes(p) |-> IF q \in DOMAIN t THEN t[q] ELSE "dir"]

\* The tree with this node at p.
With(t, p, node) ==
  [q \in DOMAIN t \cup {p} |-> IF q = p THEN node ELSE t[q]]

\* The server's create: an empty file where there is none.
OpenFile(t, p) == IF p \in DOMAIN t THEN t ELSE With(t, p, "empty")

-----------------------------------------------------------------------------
(* The sources and their destinations                                      *)

SrcRemote == cmd.sources[1].remote

From == IF SrcRemote THEN "remote" ELSE "local"
To == IF SrcRemote THEN "local" ELSE "remote"

Multiple == Len(cmd.sources) > 1

Matches(s) ==
  {q \in Children(tree[From], s.path) : Last(q) \in s.glob}

\* expandLocalSource: with -r a directory that the pattern matches stands for
\* all the files below it.
ExpandLocal(s) ==
  IF s.glob = {} THEN {s.path}
  ELSE UNION {IF cmd.recursive /\ IsDir(tree.local, q)
                THEN FilesBelow(tree.local, q) ELSE {q} : q \in Matches(s)}

\* expandRemoteSources: entries of the parent directory.
ExpandRemote(s) == IF s.glob = {} THEN {s.path} ELSE Matches(s)

Expand(s) == IF SrcRemote THEN ExpandRemote(s) ELSE ExpandLocal(s)

\* Mutation: the destination of several sources is not a directory.
SourceTargetSame(p) == [path |-> cmd.dst.path, slash |-> cmd.dst.slash]

\* The destination of each of several sources is inside dst.  For remote ones
\* the base name is that of the identity file, the fourth and not the third
\* result of parseRemoteAddr.
SourceTarget(p) ==
  IF Multiple
    THEN [path |-> cmd.dst.path \o (IF SrcRemote THEN Identity ELSE Base(p)),
          slash |-> FALSE]
    ELSE [path |-> cmd.dst.path, slash |-> cmd.dst.slash]

\* What to do: copySingle, a walk that has come to a directory, or a file.
Item(op, from, to, slash) ==
  [op |-> op, from |-> from, to |-> to, slash |-> slash]

Single(p) ==
  Item("single", p, SourceTarget(p).path, SourceTarget(p).slash)

Init ==
  /\ cmd \in Commands
  /\ tree \in Worlds /\ tree0 = tree
  /\ work = <<>> /\ pc = "expand" /\ outcome = "none" /\ faults = 0
  /\ interrupted = FALSE

Exit(r) == pc' = "exit" /\ outcome' = r /\ work' = <<>>

BadArgs ==
  \/ \E i \in 1 .. Len(cmd.sources) : cmd.sources[i].remote # SrcRemote
  \/ cmd.dst.remote = SrcRemote

\* The Action of cpCmd up to the loop over the expanded sources.
ExpandSources ==
  /\ pc = "expand"
  /\ IF \/ BadArgs
        \/ \E s \in ToSet(cmd.sources) : s.glob # {} /\ Matches(s) = {}
        \/ \A s \in ToSet(cmd.sources) : Expand(s) = {}
       THEN Exit("err")
     ELSE IF cmd.dryRun
       THEN Exit("ok")
     ELSE /\ pc' = "copy" /\ UNCHANGED outcome
          /\ LET list(s) == LET ps == Sorted(Expand(s))
                            IN [i \in DOMAIN ps |-> Single(ps[i])]
             IN work' = FlattenSeq([i \in DOMAIN cmd.sources |->
                                      list(cmd.sources[i])])
  /\ UNCHANGED <<cmd, tree, faults, interrupted, tree0>>

-----------------------------------------------------------------------------
(* Copying                                                                 *)

Current(op) == pc = "copy" /\ work # <<>> /\ Head(work).op = op

\* The walk or the transfer that the current item turns into.
Replace(op, to) ==
  work' = <<Item(op, Head(work).from, to, FALSE)>> \o Tail(work)

\* copySingle: a directory needs -r; a target that ends with a slash is the
\* directory to copy into.
CopySingle ==
  /\ Current("single")
  /\ LET p == Head(work).from
         to == Head(work).to \o (IF Head(work).slash THEN Base(p) ELSE <<>>)
     IN IF ~IsDir(tree[From], p)
          THEN Replace("file", to) /\ UNCHANGED <<pc, outcome>>
        ELSE IF cmd.recursive
          THEN Replace("walk", to) /\ UNCHANGED <<pc, outcome>>
        ELSE Exit("err")
  /\ UNCHANGED <<cmd, tree, faults, interrupted, tree0>>

\* Mutation: the entries of a directory are copied beside it.
DescendBeside(p, to) ==
  LET ps == Sorted(Children(tree[From], p))
  IN work' = [i \in DOMAIN ps |->
                Item(IF IsDir(tree[From], ps[i]) THEN "walk" ELSE "file",
                     ps[i], Front(to) \o Base(ps[i]), FALSE)] \o Tail(work)

\* The entries of the directory p come next, in order.
Descend(p, to) ==
  LET ps == Sorted(Children(tree[From], p))
  IN work' = [i \in DOMAIN ps |->
                Item(IF IsDir(tree[From], ps[i]) THEN "walk" ELSE "file",
                     ps[i], to \o Base(ps[i]), FALSE)] \o Tail(work)

\* The server's create for a path that is not to be a directory, and is none.
\* It opens a file only where there is none.
CanCreate(t, p) ==
  /\ CanMkdirAll(t, Front(p)) /\ ~IsDir(t, p)
  /\ IsFile(t, p) \/ Node(t, Front(p)) # "ro"

\* Mutation: the parents are not made.
CreateAlone(t, p) == OpenFile(t, p)

Create(t, p) == OpenFile(MkdirAll(t, Front(p)), p)

\* cpDirToHost at a directory: cc.Create does not say that it is one, and
\* whether it succeeded is not looked at.
WalkLocal ==
  /\ Current("walk") /\ ~SrcRemote
  /\ LET to == Head(work).to
     IN /\ tree' = IF to # <<>> /\ CanCreate(tree.remote, to)
                     THEN [tree EXCEPT !.remote = Create(@, to)] ELSE tree
        /\ Descend(Head(work).from, to)
  /\ UNCHANGED <<cmd, pc, outcome, faults, interrupted, tree0>>

\* walkRemoteDir: make the directory, give it the remote mode, list the remote
\* one.
WalkRemote ==
  /\ Current("walk") /\ SrcRemote
  /\ LET p == Head(work).from
         to == Head(work).to
     IN IF CanMkdirAll(tree.local, to)
          THEN /\ tree' = [tree EXCEPT !.local =
                             With(MkdirAll(@, to), to, tree.remote[p])]
               /\ Descend(p, to)
               /\ UNCHANGED <<pc, outcome>>
          ELSE Exit("err") /\ UNCHANGED tree
  /\ UNCHANGED <<cmd, faults, interrupted, tree0>>

\* uploadFile and its Create; downloadFile and its OpenFile, which makes no
\* directory.
CanPut(to) ==
  IF SrcRemote
    THEN /\ ~IsDir(tree.local, to)
         /\ IsDir(tree.local, Front(to))
         /\ IsFile(tree.local, to) \/ Node(tree.local, Front(to)) # "ro"
    ELSE to # <<>> /\ CanCreate(tree.remote, to)

Put(to, content) ==
  tree' = [tree EXCEPT ![To] =
             With(IF SrcRemote THEN @ ELSE Create(@, to), to, content)]

\* What is at the target when all of c has been written there.  downloadFile
\* opens it with O_TRUNC; the server's create leaves a file that exists as it
\* is, and the end of a longer one stays.
Written(to, c) ==
  IF ~SrcRemote /\ <<Node(tree.remote, to), c>> \in Longer THEN "mixed" ELSE c

\* The current item is a transfer that can begin.
Transferring == /\ Current("file") /\ IsFile(tree[From], Head(work).from)
                /\ CanPut(Head(work).to)

\* The digests are compared, with --sha256.
CopyFile ==
  /\ Transferring
  /\ LET to == Head(work).to
         c == Node(tree[From], Head(work).from)
     IN /\ Put(to, Written(to, c))
        /\ IF cmd.verify /\ Written(to, c) # c
             THEN Exit("err")
             ELSE work' = Tail(work) /\ UNCHANGED <<pc, outcome>>
  /\ UNCHANGED <<cmd, faults, interrupted, tree0>>

\* There is no such source, or the target cannot be opened.
CopyFileFails ==
  /\ Current("file") /\ ~Transferring
  /\ Exit("err")
  /\ UNCHANGED <<cmd, tree, faults, interrupted, tree0>>

\* The goroutines of chunks that are still waiting return without an error
\* when the context is cancelled, so the transfer may end well.
CopyFileCut ==
  /\ Transferring /\ interrupted /\ ~cmd.verify
  /\ Put(Head(work).to, "partial")
  /\ work' = Tail(work)
  /\ UNCHANGED <<cmd, pc, outcome, faults, interrupted, tree0>>

\* The loop over the sources is over.
Finish ==
  /\ pc = "copy" /\ work = <<>>
  /\ Exit("ok")
  /\ UNCHANGED <<cmd, tree, faults, interrupted, tree0>>

\* Anything may fail, more so after an interrupt; a file may be there in part
\* by then.
StepFails ==
  /\ pc # "exit"
  /\ \/ interrupted /\ UNCHANGED faults
     \/ faults < MaxFaults /\ faults' = faults + 1
  /\ \/ UNCHANGED tree
     \/ Transferring /\ Put(Head(work).to, "partial")
  /\ Exit("err")
  /\ UNCHANGED <<cmd, interrupted, tree0>>

\* A signal.
Interrupt ==
  /\ pc # "exit" /\ ~interrupted /\ faults < MaxFaults
  /\ interrupted' = TRUE /\ faults' = faults + 1
  /\ UNCHANGED <<cmd, tree, work, pc, outcome, tree0>>

Next ==
  \/ ExpandSources \/ CopySingle \/ WalkLocal \/ WalkRemote \/ CopyFile
  \/ CopyFileFails \/ CopyFileCut \/ Finish \/ StepFails \/ Interrupt

Spec == Init /\ [][Next]_vars

-----------------------------------------------------------------------------
(* Correctness                                                             *)

\* Types; both trees remain trees.
TypeOK ==
  /\ cmd \in Commands
  /\ pc \in {"expand", "copy", "exit"} /\ outcome \in {"none", "ok", "err"}
  /\ faults \in 0 .. MaxFaults /\ interrupted \in BOOLEAN
  /\ \A i \in DOMAIN work : work[i].op \in {"single", "walk", "file"}
  /\ \A side \in {"local", "remote"} : \A p \in DOMAIN tree[side] :
       p # <<>> => IsDir(tree[side], Front(p))

\* "When copying multiple sources, the destination is treated as a directory",
\* and so it is when it ends with a slash.  The files that the arguments
\* denote, each with the path it is to have.
AsDirectory == Multiple \/ cmd.dst.slash

Dest(p) == cmd.dst.path \o (IF AsDirectory THEN Base(p) ELSE <<>>)

Denoted ==
  LET old == tree0[From]
      roots(s) == IF s.glob = {} THEN {s.path}
                  ELSE {q \in Children(old, s.path) : Last(q) \in s.glob}
      flat(s) == s.glob # {} /\ ~SrcRemote
      below(s, r) ==
        {[from |-> q,
          to |-> IF flat(s) THEN Dest(q)
                 ELSE Dest(r) \o SubSeq(q, Len(r) + 1, Len(q))] :
           q \in FilesBelow(old, r)}
  IN UNION {UNION {below(s, r) : r \in roots(s)} : s \in ToSet(cmd.sources)}

\* The copy of f has to be exact: its digest was compared, or the command ran
\* to its end and nothing longer was in the way of an upload.
MustBeExact(f) ==
  \/ cmd.verify
  \/ /\ ~interrupted
     /\ SrcRemote \/ <<Node(tree0[To], f.to), Node(tree0[From], f.from)>> \notin Longer

\* A command that reports success has put a file where each file that its
\* arguments denote belongs, and its content is that of the source with
\* --sha256, and without it unless the command was interrupted or uploads over
\* a longer file; unless two of them belong in the same place, or there are
\* several remote sources, whose names are lost.
SuccessMeansCopied ==
  outcome = "ok" /\ ~cmd.dryRun /\ ~(Multiple /\ SrcRemote) =>
    \A f \in Denoted :
      (\A g \in Denoted : g.to = f.to => g = f)
        => /\ IsFile(tree[To], f.to)
           /\ MustBeExact(f) => Node(tree[To], f.to) = Node(tree0[From], f.from)

\* However the command ends, the side it copies from is as it was, and on the
\* other side nothing has gone, no directory has become a file or a file a
\* directory, and nothing outside dst has changed but for missing parents of
\* it.  A dry run changes nothing.
OnlyBelowDst ==
  /\ ~BadArgs => tree[From] = tree0[From]
  /\ cmd.dryRun => tree = tree0
  /\ \A p \in DOMAIN tree0[To] :
       p \in DOMAIN tree[To] /\ (IsDir(tree[To], p) <=> IsDir(tree0[To], p))
  /\ \A p \in DOMAIN tree[To] :
       Node(tree[To], p) # Node(tree0[To], p) =>
         \/ IsPrefix(cmd.dst.path, p)
         \/ IsDir(tree[To], p) /\ IsPrefix(p, cmd.dst.path)

\* The plain cases: one source that exists, copied to a place that does not;
\* for a directory, a download with -r none of whose directories is read-only.
Feasible ==
  LET Makeable(f, p) == \A q \in Prefixes(p) : Node(f, q) \in {"dir", "absent"}
      s == cmd.sources[1]
      to == Dest(s.path)
  IN /\ ~BadArgs /\ ~Multiple /\ s.glob = {}
     /\ to \notin DOMAIN tree0[To]
     /\ \/ /\ SrcRemote /\ cmd.recursive /\ IsDir(tree0.remote, s.path)
           /\ \A q \in DOMAIN tree0.remote :
                IsPrefix(s.path, q) => tree0.remote[q] # "ro"
           /\ Makeable(tree0.local, to)
        \/ /\ SrcRemote /\ IsFile(tree0.remote, s.path)
           /\ Node(tree0.local, Front(to)) = "dir"
        \/ /\ ~SrcRemote /\ IsFile(tree0.local, s.path)
           /\ Makeable(tree0.remote, Front(to))

\* They fail only if something breaks on the way.
FeasibleSucceeds == outcome = "err" /\ Feasible => faults > 0
=============================================================================
