------------------------- MODULE FileTransferProofs -------------------------
(***************************************************************************)
(* A verified copy tells the truth, and an unverified one that nobody has  *)
(* disturbed is complete, for files, versions, chunk sizes and numbers of  *)
(* failures and edits of any kind.                                         *)
(*                                                                         *)
(* The first part shows that FileTransfer implements Copy.  The second part*)
(* is type correctness; it needs that the local file is there while the    *)
(* command has it open.  The third part follows what the resume state says:*)
(* a state file lists only chunks that the target has, and what a command  *)
(* has no longer on its list has arrived.                                  *)
(***************************************************************************)
EXTENDS FileTransfer, SequenceTheorems, TLAPS

\* The command's flags, and how a command can have ended.
FlagInv ==
  /\ sha \in BOOLEAN /\ swapped \in BOOLEAN
  /\ outcome \in {"none", "ok", "err"}

\* Only a command that knows of a replaced file may meet such a descriptor.
HeldInv == held = "unlinked" => swapped

\* Between the two hashes the remote file of an upload is what was hashed.  A
\* download has agreed if its file, which only it writes, is.
DigestInv ==
  pc = "compare" /\ ~swapped =>
    IF Up THEN digest = remote ELSE local = digest => agreed

\* A verified command that is about to report success has agreed.
CleanInv == pc = "clean" /\ sha /\ ~swapped => agreed

IInv == FlagInv /\ HeldInv /\ DigestInv /\ CleanInv

allVars == <<dir, local, remote, held, orphan, disk, pc, size, chunk, sha,
             todo, st, digest, outcome, faults, edits, interrupted, ignored,
             swapped, agreed>>

\* What a stuttering step leaves alone.
LEMMA Stutter == UNCHANGED vars => UNCHANGED allVars
  BY DEF vars, fileVars, argVars, cmdVars, histVars, allVars

\* The history variable `agreed`: it is kept while a command runs, and set
\* whenever the files are identical.
LEMMA AgreedStep ==
  ASSUME Next
  PROVE  /\ local' = remote' => agreed'
         /\ pc # "idle" /\ agreed => agreed'
  BY DEF Next

USE DEF fileVars, argVars, cmdVars, histVars, Return, Goto, Fault, Edit

\* Each kind of step keeps the invariant.
LEMMA InvStep == IInv /\ [Next]_vars => IInv'
  <1> SUFFICES ASSUME IInv, [Next]_vars PROVE IInv'
    OBVIOUS
  <1>1. CASE UNCHANGED vars
    BY <1>1, Stutter
    DEF allVars, IInv, FlagInv, HeldInv, DigestInv, CleanInv, Up
  <1>2. CASE Next
    <2> USE AgreedStep, <1>2
    <2>1. CASE Begin
      BY <2>1 DEF Begin, IInv, FlagInv, HeldInv, DigestInv, CleanInv
    <2>2. CASE Open
      BY <2>2 DEF Open, IInv, FlagInv, HeldInv, DigestInv, CleanInv
    <2>3. ASSUME NEW o \in todo, TransferChunk(o) PROVE IInv'
      BY <2>3 DEF TransferChunk, ServerWrite, Hold, IInv, FlagInv, HeldInv,
                  DigestInv, CleanInv
    <2>4. CASE ChunkImpossible
      BY <2>4 DEF ChunkImpossible, IInv, FlagInv, HeldInv, DigestInv, CleanInv
    <2>5. CASE ChunksDone
      BY <2>5 DEF ChunksDone, IInv, FlagInv, HeldInv, DigestInv, CleanInv
    <2>6. CASE HashRemote
      BY <2>6 DEF HashRemote, ServerFile, IInv, FlagInv, HeldInv, DigestInv,
                  CleanInv, Up
    <2>7. CASE CompareLocal
      BY <2>7 DEF CompareLocal, IInv, FlagInv, HeldInv, DigestInv, CleanInv, Up
    <2>8. CASE Clean
      BY <2>8 DEF Clean, IInv, FlagInv, HeldInv, DigestInv, CleanInv
    <2>9. CASE StepFails
      BY <2>9 DEF StepFails, IInv, FlagInv, HeldInv, DigestInv, CleanInv
    <2>10. CASE Interrupt
      BY <2>10 DEF Interrupt, IInv, FlagInv, HeldInv, DigestInv, CleanInv
    <2>11. CASE Crash
      BY <2>11 DEF Crash, IInv, FlagInv, HeldInv, DigestInv, CleanInv
    <2>12. CASE RemoveLocal
      BY <2>12 DEF RemoveLocal, IInv, FlagInv, HeldInv, DigestInv, CleanInv
    <2>13. CASE Sweep
      BY <2>13 DEF Sweep, IInv, FlagInv, HeldInv, DigestInv, CleanInv, Up
    <2>14. ASSUME NEW v \in Versions, EditSource(v) PROVE IInv'
      BY <2>14 DEF EditSource, IInv, FlagInv, HeldInv, DigestInv, CleanInv, Up
    <2>15. ASSUME NEW f \in Versions \cup {Absent}, ReplaceRemote(f)
           PROVE  IInv'
      BY <2>15 DEF ReplaceRemote, IInv, FlagInv, HeldInv, DigestInv, CleanInv,
                   Up
    <2> QED
      BY <2>1, <2>2, <2>3, <2>4, <2>5, <2>6, <2>7, <2>8, <2>9, <2>10, <2>11,
         <2>12, <2>13, <2>14, <2>15 DEF Next, Command, Environment
  <1> QED BY <1>1, <1>2

\* The inductive invariant holds.
THEOREM InvariantHolds == Spec => []IInv
  <1>1. Init => IInv
    BY DEF Init, IInv, FlagInv, HeldInv, DigestInv, CleanInv
  <1> QED BY <1>1, InvStep, PTL DEF Spec

phase == IF pc = "idle" THEN outcome ELSE "running"

\* A step that neither starts nor ends a command is a Change of Copy.
LEMMA IsChange ==
  ASSUME IInv, Next, dir' = dir, phase' = phase,
         sha' /\ ~swapped' => sha /\ ~swapped
  PROVE  Abstract!Next
  BY DEF Abstract!Next, Abstract!Change, Next, phase, Source, Target, Up,
         IInv, FlagInv

\* A step that ends one without success, and touches no file, is an End.
LEMMA IsFailure ==
  ASSUME IInv, Next, pc # "idle", pc' = "idle", outcome' \in {"none", "err"},
         UNCHANGED <<dir, local, remote, sha, swapped>>
  PROVE  Abstract!Next
  BY DEF Abstract!Next, Abstract!End, Next, Source, Target, Up, IInv, FlagInv

\* A transfer with --sha256 that reports success has had source and target
\* identical at some instant of the command, unless the remote file was
\* replaced under it: uploadFile and downloadFile with verifyFileHash
\* implement Copy.
THEOREM Refinement == Spec => ImplementsCopy
  <1>1. Init => Abstract!Init
    BY DEF Init, Abstract!Init, Source, Target, Up
  <1>2. IInv /\ [Next]_vars => [Abstract!Next]_Abstract!vars
    <2> SUFFICES ASSUME IInv, [Next]_vars
                 PROVE  [Abstract!Next]_Abstract!vars
      OBVIOUS
    <2>1. CASE UNCHANGED vars
      <3> UNCHANGED allVars BY <2>1, Stutter
      <3> QED BY DEF allVars, Abstract!vars, Source, Target, Up
    <2>2. CASE Next
      <3> USE <2>2
      <3>1. CASE Begin
        <4>1. /\ pc = "idle" /\ outcome # "running"
              /\ UNCHANGED <<dir, local, remote>>
              /\ \/ pc' = "open"
                 \/ pc' = "idle" /\ outcome' = "err"
          BY <3>1 DEF Begin, IInv, FlagInv
        <4>2. agreed' = (local' = remote')
          BY <4>1 DEF Next
        <4> QED BY <4>1, <4>2 DEF Abstract!Next, Abstract!Begin, Source,
                                  Target, Up
      <3>2. CASE Open
        BY <3>2, IsChange, IsFailure DEF Open, phase
      <3>3. ASSUME NEW o \in todo, TransferChunk(o) PROVE Abstract!Next
        BY <3>3, IsChange DEF TransferChunk, phase
      <3>4. CASE ChunkImpossible
        BY <3>4, IsFailure DEF ChunkImpossible
      <3>5. CASE ChunksDone
        BY <3>5, IsChange DEF ChunksDone, phase
      <3>6. CASE HashRemote
        BY <3>6, IsChange, IsFailure DEF HashRemote, phase
      <3>7. CASE CompareLocal
        BY <3>7, IsChange, IsFailure DEF CompareLocal, phase
      <3>8. CASE Clean
        <4>1. /\ pc = "clean" /\ pc' = "idle" /\ outcome' = "ok"
              /\ UNCHANGED <<dir, local, remote, sha, swapped>>
          BY <3>8 DEF Clean
        <4>2. sha /\ ~swapped => agreed
          BY <4>1 DEF IInv, CleanInv
        <4> QED BY <4>1, <4>2 DEF Abstract!Next, Abstract!End, Next, Source,
                                  Target, Up
      <3>9. CASE StepFails
        BY <3>9, IsFailure DEF StepFails
      <3>10. CASE Interrupt
        BY <3>10, IsChange, IsFailure DEF Interrupt, phase
      <3>11. CASE Crash
        BY <3>11, IsFailure DEF Crash
      <3>12. CASE RemoveLocal
        BY <3>12, IsChange DEF RemoveLocal, phase
      <3>13. CASE Sweep
        BY <3>13, IsChange DEF Sweep, phase
      <3>14. ASSUME NEW v \in Versions, EditSource(v) PROVE Abstract!Next
        BY <3>14, IsChange DEF EditSource, phase
      <3>15. ASSUME NEW f \in Versions \cup {Absent}, ReplaceRemote(f)
             PROVE  Abstract!Next
        BY <3>15, IsChange DEF ReplaceRemote, phase, IInv, FlagInv
      <3> QED
        BY <3>1, <3>2, <3>3, <3>4, <3>5, <3>6, <3>7, <3>8, <3>9, <3>10,
           <3>11, <3>12, <3>13, <3>14, <3>15 DEF Next, Command, Environment
    <2> QED BY <2>1, <2>2
  <1> QED BY <1>1, <1>2, InvariantHolds, PTL
          DEF Spec, ImplementsCopy, Abstract!Spec

-----------------------------------------------------------------------------
(* What writing a chunk does to a file                                     *)

\* Every position lies in one of the chunks.
LEMMA ChunksCover ==
  ASSUME NEW n \in Nat, NEW c \in Nat \ {0}, NEW i \in 1 .. n
  PROVE  \E o \in Offsets(n, c) : i \in o + 1 .. Least(o + c, n)
  <1>1. PICK x \in 0 .. n - 1 : x = i - 1
    OBVIOUS
  <1>2. /\ (x % c) \in 0 .. c - 1 /\ x = c * (x \div c) + (x % c)
        /\ x \div c \in Nat
    OBVIOUS
  <1>3. PICK q \in Nat, r \in 0 .. c - 1 : x = c * q + r
    BY <1>2
  <1>4. PICK o \in Int : o = c * q
    OBVIOUS
  <1>5. (o % c) = 0
    BY <1>4
  <1>6. 0 <= o /\ o <= x /\ x < o + c
    BY <1>3, <1>4
  <1>7. o \in 0 .. n - 1 /\ i \in o + 1 .. Least(o + c, n)
    BY <1>1, <1>6 DEF Least
  <1> QED BY <1>5, <1>7 DEF Offsets

\* Intervals from 1 of the same elements are equally long.
LEMMA SameInterval ==
  ASSUME NEW m \in Nat, NEW n \in Nat, 1 .. m = 1 .. n
  PROVE  m = n
  <1>1. \A i \in Nat \ {0} : i <= m <=> i <= n
    OBVIOUS
  <1>2. m > 0 => m <= n
    BY <1>1
  <1>3. n > 0 => n <= m
    BY <1>1
  <1> QED BY <1>2, <1>3

\* d is the part o + 1 .. e of g.
Part(d, g, o, e) ==
  d \in File /\ Len(d) = e - o /\ \A i \in o + 1 .. e : d[i - o] = g[i]

\* The file f has become p: the blocks o + 1 .. e are those of g now, and no
\* other block of f that agreed with g was lost.
Copied(f, g, p, o, e) ==
  /\ Len(p) \in Nat /\ Len(p) >= e /\ Len(p) >= Len(f)
  /\ \A i \in o + 1 .. e : p[i] = g[i]
  /\ \A i \in 1 .. Len(f) : f[i] = g[i] => p[i] = g[i]

\* The data of a chunk are those blocks of the source.
LEMMA SubSeqIsPart ==
  ASSUME NEW g \in File, NEW o \in Nat, NEW e \in Nat, o < e, e <= Len(g)
  PROVE  Part(SubSeq(g, o + 1, e), g, o, e)
  <1>1. PICK d : d = SubSeq(g, o + 1, e)
    OBVIOUS
  <1>2. o + 1 \in 1 .. Len(g) + 1 /\ e \in (o + 1) - 1 .. Len(g)
    BY LenProperties DEF File
  <1>3. /\ d \in Seq(Blocks) /\ Len(d) = e - (o + 1) + 1
        /\ \A i \in 1 .. e - (o + 1) + 1 : d[i] = g[(o + 1) + i - 1]
    BY <1>1, <1>2, SubSeqProperties DEF File
  <1>4. ASSUME NEW i \in o + 1 .. e PROVE d[i - o] = g[i]
    <2>1. i - o \in 1 .. e - (o + 1) + 1 /\ (o + 1) + (i - o) - 1 = i
      OBVIOUS
    <2> QED BY <1>3, <2>1
  <1>5. d \in File /\ Len(d) = e - o
    BY <1>3 DEF File
  <1> QED BY <1>1, <1>4, <1>5 DEF Part

\* Writing them copies these blocks and leaves the others alone.
LEMMA PatchCopies ==
  ASSUME NEW f \in File, NEW g \in File, NEW o \in Nat, NEW e \in Nat,
         o < e, e <= Len(g), NEW d, Part(d, g, o, e)
  PROVE  Patch(f, o, d) \in File /\ Copied(f, g, Patch(f, o, d), o, e)
  <1>1. Len(f) \in Nat /\ Len(g) \in Nat
    BY LenProperties DEF File
  <1>2. Len(d) = e - o
    BY DEF Part
  <1>3. \A i \in o + 1 .. e : d[i - o] = g[i]
    BY DEF Part
  <1>4. PICK n \in Nat : /\ n >= e /\ n >= Len(f)
                         /\ n = IF Len(f) < e THEN e ELSE Len(f)
    BY <1>1
  <1>5. PICK p : p = Patch(f, o, d)
    OBVIOUS
  <1>6. p = [i \in 1 .. n |-> IF i > o /\ i <= e THEN d[i - o]
                              ELSE IF i <= Len(f) THEN f[i] ELSE Hole]
    <2>1. o + Len(d) = e
      BY <1>2
    <2> QED BY <1>4, <1>5, <2>1 DEF Patch
  <1>7. /\ \A i \in 1 .. Len(f) : f[i] \in Blocks
        /\ \A i \in 1 .. Len(g) : g[i] \in Blocks
        /\ Hole \in Blocks
    <2>1. Hole \in Blocks
      BY DEF Blocks
    <2> QED BY <2>1, ElementOfSeq DEF File
  <1>8. \A i \in 1 .. n : p[i] \in Blocks
    <2> SUFFICES ASSUME NEW i \in 1 .. n PROVE p[i] \in Blocks
      OBVIOUS
    <2>1. CASE i > o /\ i <= e
      <3>1. i \in o + 1 .. e /\ i \in 1 .. Len(g)
        BY <1>1, <2>1
      <3>2. p[i] = d[i - o]
        BY <1>6, <2>1
      <3> QED BY <1>3, <1>7, <3>1, <3>2
    <2>2. CASE ~(i > o /\ i <= e)
      <3>1. p[i] = IF i <= Len(f) THEN f[i] ELSE Hole
        BY <1>6, <2>2
      <3>2. i <= Len(f) => i \in 1 .. Len(f)
        BY <1>1
      <3> QED BY <1>7, <3>1, <3>2
    <2> QED BY <2>1, <2>2
  <1>9. p \in [1 .. n -> Blocks]
    BY <1>6, <1>8
  <1>10. p \in File /\ Len(p) = n
    <2>1. p \in Seq(Blocks)
      BY <1>9, SeqDef
    <2>2. Len(p) \in Nat /\ DOMAIN p = 1 .. Len(p) /\ DOMAIN p = 1 .. n
      BY <1>9, <2>1, LenProperties
    <2>3. Len(p) = n
      BY <2>2, SameInterval
    <2> QED BY <2>1, <2>3 DEF File
  <1>11. \A i \in o + 1 .. e : p[i] = g[i]
    BY <1>3, <1>4, <1>6
  <1>12. \A i \in 1 .. Len(f) : f[i] = g[i] => p[i] = g[i]
    <2> SUFFICES ASSUME NEW i \in 1 .. Len(f), f[i] = g[i] PROVE p[i] = g[i]
      OBVIOUS
    <2>1. i \in 1 .. n
      BY <1>1, <1>4
    <2>2. CASE i > o /\ i <= e
      BY <1>11, <2>2
    <2>3. CASE ~(i > o /\ i <= e)
      BY <1>1, <1>6, <2>1, <2>3
    <2> QED BY <2>2, <2>3
  <1> QED BY <1>4, <1>5, <1>10, <1>11, <1>12 DEF Copied

-----------------------------------------------------------------------------
(* Types                                                                   *)

\* An upload's source is there, and a download has its target open.
LocalInv == Up \/ pc = "chunks" => local # Absent

TypeInv == TypeOK /\ LocalInv

FileTypes ==
  /\ dir \in Directions
  /\ local \in File \cup {Absent} /\ remote \in File \cup {Absent}
  /\ held \in {"none", "named", "unlinked"} /\ orphan \in File \cup {Absent}
  /\ digest \in File \cup {Absent}

StateTypes ==
  /\ disk # NoState => /\ disk.size \in Nat /\ disk.chunk \in ChunkSizes
                       /\ disk.completed \subseteq Offsets(disk.size, disk.chunk)
  /\ size \in Nat /\ chunk \in ChunkSizes
  /\ todo \subseteq Offsets(size, chunk)
  /\ st # NoState => st \subseteq Offsets(size, chunk)

FlagTypes ==
  /\ pc \in {"idle", "open", "chunks", "hash", "compare", "clean"}
  /\ sha \in BOOLEAN /\ outcome \in {"none", "ok", "err"}
  /\ faults \in 0 .. MaxFaults /\ edits \in 0 .. MaxEdits
  /\ interrupted \in BOOLEAN /\ ignored \in BOOLEAN /\ swapped \in BOOLEAN
  /\ agreed \in BOOLEAN

\* The type invariant in the parts that the steps disturb.
LEMMA TypeParts == TypeOK <=> FileTypes /\ StateTypes /\ FlagTypes
  BY DEF TypeOK, FileTypes, StateTypes, FlagTypes

\* The same for the next state.
LEMMA NewTypes == (FileTypes /\ StateTypes /\ FlagTypes)' => TypeOK'
  BY DEF TypeOK, FileTypes, StateTypes, FlagTypes

\* A version of the source is a file, and every file has a length.
LEMMA FileFacts ==
  /\ Versions \subseteq File
  /\ \A f \in File : Len(f) \in Nat
  /\ \A n \in Nat : Holes(n) \in File
  /\ <<>> \in File
  <1>1. Versions \subseteq File
    <2> SUFFICES ASSUME NEW v \in Versions PROVE v \in File
      OBVIOUS
    <2>1. v \in Seq(Blocks \ {Hole})
      BY TransferAssumption
    <2>2. Len(v) \in Nat /\ v \in [1 .. Len(v) -> Blocks \ {Hole}]
      BY <2>1, LenProperties
    <2>3. v \in [1 .. Len(v) -> Blocks]
      BY <2>2
    <2> QED BY <2>2, <2>3, SeqDef DEF File
  <1>2. \A f \in File : Len(f) \in Nat
    BY LenProperties DEF File
  <1>3. ASSUME NEW n \in Nat PROVE Holes(n) \in File
    <2>1. Holes(n) \in [1 .. n -> Blocks]
      BY DEF Holes, Blocks
    <2> QED BY <2>1, SeqDef DEF File
  <1>4. <<>> \in File
    BY EmptySeq DEF File
  <1> QED BY <1>1, <1>2, <1>3, <1>4

\* The chunk at o is not empty and ends within the file.
LEMMA ChunkBounds ==
  ASSUME StateTypes, NEW o \in todo
  PROVE  /\ o \in Nat /\ o < size /\ ChunkEnd(o) \in Nat
         /\ o < ChunkEnd(o) /\ ChunkEnd(o) <= size /\ chunk \in Nat \ {0}
  <1>1. o \in 0 .. size - 1 /\ size \in Nat /\ chunk \in Nat \ {0}
    BY TransferAssumption DEF StateTypes, Offsets
  <1> QED BY <1>1 DEF ChunkEnd, Least

\* What a chunk is copied from and to, in either direction.
LEMMA ChunkCopied ==
  ASSUME TypeInv, NEW o \in todo, TransferChunk(o)
  PROVE  \E f \in File, g \in File, p \in File, e \in Nat :
           /\ o \in Nat /\ o < e /\ e <= Len(g) /\ Copied(f, g, p, o, e)
           /\ Up => /\ g = local /\ f = ServerFile /\ e = ChunkEnd(o)
                    /\ ServerWrite(p) /\ local' = local
           /\ ~Up => /\ g = ServerFile /\ f = local
                     /\ e = Least(ChunkEnd(o), Len(g))
                     /\ local' = p /\ Hold /\ UNCHANGED <<remote, orphan>>
  <1>1. FileTypes /\ StateTypes /\ FlagTypes /\ LocalInv
    BY TypeParts DEF TypeInv
  <1>2. /\ o \in Nat /\ ChunkEnd(o) \in Nat /\ o < ChunkEnd(o)
    BY <1>1, ChunkBounds
  <1>3. pc = "chunks" /\ CanTransfer(o) /\ local \in File
    BY <1>1 DEF TransferChunk, FileTypes, LocalInv
  <1>4. ServerFile \in File
    BY <1>1, <1>3 DEF CanTransfer, ServerFile, FileTypes
  <1>5. CASE Up
    <2>1. ChunkEnd(o) <= Len(local)
      BY <1>2, <1>3, <1>5, FileFacts DEF CanTransfer
    <2>2. PICK d : d = SubSeq(local, o + 1, ChunkEnd(o)) /\ Part(d, local, o, ChunkEnd(o))
      BY <1>2, <1>3, <2>1, SubSeqIsPart
    <2>3. PICK p : p = Patch(ServerFile, o, d)
      OBVIOUS
    <2>4. p \in File /\ Copied(ServerFile, local, p, o, ChunkEnd(o))
      BY <1>2, <1>3, <1>4, <2>1, <2>2, <2>3, PatchCopies
    <2>5. ServerWrite(p) /\ local' = local
      BY <1>5, <2>2, <2>3 DEF TransferChunk
    <2> QED BY <1>2, <1>3, <1>4, <1>5, <2>1, <2>4, <2>5
  <1>6. CASE ~Up
    <2>1. PICK e \in Nat : /\ e = Least(ChunkEnd(o), Len(ServerFile))
                           /\ o < e /\ e <= Len(ServerFile)
      <3>1. Len(ServerFile) \in Nat /\ Len(ServerFile) > o
        BY <1>3, <1>4, <1>6, FileFacts DEF CanTransfer
      <3> QED BY <1>2, <3>1 DEF Least
    <2>2. PICK d : d = SubSeq(ServerFile, o + 1, e) /\ Part(d, ServerFile, o, e)
      BY <1>2, <1>4, <2>1, SubSeqIsPart
    <2>3. PICK p : p = Patch(local, o, d)
      OBVIOUS
    <2>4. p \in File /\ Copied(local, ServerFile, p, o, e)
      BY <1>2, <1>3, <1>4, <2>1, <2>2, <2>3, PatchCopies
    <2>5. local' = p /\ Hold /\ UNCHANGED <<remote, orphan>>
      BY <1>6, <2>1, <2>2, <2>3 DEF TransferChunk
    <2> QED BY <1>2, <1>3, <1>4, <1>6, <2>1, <2>4, <2>5
  <1> QED BY <1>5, <1>6

\* Every step keeps the types.
LEMMA TypeStep == TypeInv /\ [Next]_vars => TypeInv'
  <1> SUFFICES ASSUME TypeInv, [Next]_vars PROVE TypeInv'
    OBVIOUS
  <1>0. FileTypes /\ StateTypes /\ FlagTypes /\ LocalInv
    BY TypeParts DEF TypeInv
  <1> USE <1>0, NewTypes
  <1>1. CASE UNCHANGED vars
    <2>1. UNCHANGED allVars
      BY <1>1, Stutter
    <2>2. FileTypes' /\ StateTypes' /\ FlagTypes'
      BY <2>1 DEF allVars, FileTypes, StateTypes, FlagTypes
    <2>3. LocalInv'
      BY <2>1 DEF allVars, LocalInv, Up
    <2> QED BY <2>2, <2>3 DEF TypeInv
  <1>2. CASE Next
    <2>1. agreed' \in BOOLEAN
      BY <1>2 DEF Next
    <2> USE <2>1
    <2>2. CASE Begin
      <3>1. FileTypes' /\ LocalInv'
        BY <2>2 DEF Begin, FileTypes, LocalInv, Up
      <3>2. StateTypes'
        <4>1. chunk' \in ChunkSizes /\ disk' = disk
          BY <2>2 DEF Begin
        <4>2. CASE /\ Source # Absent /\ size' = Len(Source)
                   /\ st' = LoadResumeState(size', chunk')
                   /\ todo' = Offsets(size', chunk') \ (IF st' = NoState THEN {} ELSE st')
          <5>1. Source \in File
            BY <4>2 DEF Source, FileTypes
          <5>2. size' \in Nat
            BY <4>2, <5>1, FileFacts
          <5> QED BY <4>1, <4>2, <5>2 DEF StateTypes, LoadResumeState
        <4>3. CASE size' = 0 /\ st' = NoState /\ todo' = {}
          BY <4>1, <4>3 DEF StateTypes
        <4> QED BY <2>2, <4>2, <4>3 DEF Begin
      <3>3. FlagTypes'
        BY <2>2 DEF Begin, FlagTypes
      <3> QED BY <3>1, <3>2, <3>3 DEF TypeInv
    <2>3. CASE Open
      <3>1. FileTypes'
        BY <2>3, FileFacts DEF Open, FileTypes, StateTypes
      <3>2. StateTypes'
        BY <2>3 DEF Open, StateTypes
      <3>3. FlagTypes'
        BY <2>3 DEF Open, FlagTypes
      <3>4. LocalInv'
        BY <2>3, FileFacts, TransferAssumption DEF Open, LocalInv, Up
      <3> QED BY <3>1, <3>2, <3>3, <3>4 DEF TypeInv
    <2>4. ASSUME NEW o \in todo, TransferChunk(o) PROVE TypeInv'
      <3>1. PICK p \in File :
              /\ Up => ServerWrite(p) /\ local' = local
              /\ ~Up => local' = p /\ Hold /\ UNCHANGED <<remote, orphan>>
        BY <2>4, ChunkCopied
      <3>2. /\ pc = "chunks" /\ todo' = todo \ {o}
            /\ st' = IF st = NoState THEN NoState ELSE st \cup {o}
            /\ MaybeSave
            /\ UNCHANGED <<dir, pc, outcome, size, chunk, sha, digest, faults, edits,
                           interrupted, ignored, swapped>>
        BY <2>4 DEF TransferChunk
      <3>3. FileTypes'
        BY <3>1, <3>2 DEF ServerWrite, Hold, FileTypes
      <3>4. StateTypes'
        <4>1. todo' \subseteq Offsets(size', chunk')
          BY <3>2 DEF StateTypes
        <4>2. st' # NoState => st' \subseteq Offsets(size', chunk')
          BY <3>2 DEF StateTypes
        <4> QED BY <3>2, <4>1, <4>2 DEF StateTypes, MaybeSave
      <3>5. FlagTypes'
        BY <3>2 DEF FlagTypes
      <3>6. LocalInv'
        BY <3>1, <3>2, TransferAssumption DEF LocalInv, Up
      <3> QED BY <3>3, <3>4, <3>5, <3>6 DEF TypeInv
    <2>5. CASE ChunksDone
      <3>1. FileTypes' /\ FlagTypes' /\ LocalInv'
        BY <2>5 DEF ChunksDone, FileTypes, FlagTypes, LocalInv, Up
      <3>2. StateTypes'
        BY <2>5 DEF ChunksDone, MaybeSave, StateTypes
      <3> QED BY <3>1, <3>2 DEF TypeInv
    <2>6. CASE HashRemote
      <3>1. FileTypes'
        BY <2>6 DEF HashRemote, ServerFile, FileTypes
      <3>2. StateTypes' /\ FlagTypes' /\ LocalInv'
        BY <2>6 DEF HashRemote, StateTypes, FlagTypes, LocalInv, Up
      <3> QED BY <3>1, <3>2 DEF TypeInv
    <2>7. CASE CompareLocal \/ ChunkImpossible
      <3>1. FileTypes' /\ StateTypes' /\ FlagTypes' /\ LocalInv'
        BY <2>7 DEF CompareLocal, ChunkImpossible, FileTypes, StateTypes, FlagTypes,
                    LocalInv, Up
      <3> QED BY <3>1 DEF TypeInv
    <2>8. CASE Clean
      <3>1. FileTypes' /\ StateTypes' /\ FlagTypes' /\ LocalInv'
        BY <2>8 DEF Clean, FileTypes, StateTypes, FlagTypes, LocalInv, Up
      <3> QED BY <3>1 DEF TypeInv
    <2>9. CASE StepFails \/ Interrupt \/ Crash
      <3>1. FileTypes' /\ StateTypes'
        BY <2>9 DEF StepFails, Interrupt, Crash, FileTypes, StateTypes
      <3>2. FlagTypes'
        <4>1. faults < MaxFaults /\ faults' = faults + 1 /\ edits' = edits
          BY <2>9 DEF StepFails, Interrupt, Crash
        <4>2. faults' \in 0 .. MaxFaults
          BY <4>1, TransferAssumption DEF FlagTypes
        <4>3. /\ pc' \in {"idle", "clean"} /\ outcome' \in {"none", "ok", "err"}
              /\ interrupted' = interrupted \/ interrupted' = TRUE
              /\ UNCHANGED <<sha, ignored, swapped>>
          BY <2>9 DEF StepFails, Interrupt, Crash, FlagTypes
        <4> QED BY <4>1, <4>2, <4>3 DEF FlagTypes
      <3>3. LocalInv'
        BY <2>9 DEF StepFails, Interrupt, Crash, LocalInv, Up
      <3> QED BY <3>1, <3>2, <3>3 DEF TypeInv
    <2>10. CASE RemoveLocal \/ Sweep
      <3>1. FileTypes' /\ StateTypes' /\ LocalInv'
        BY <2>10 DEF RemoveLocal, Sweep, FileTypes, StateTypes, LocalInv, Up
      <3>2. FlagTypes'
        BY <2>10, TransferAssumption DEF RemoveLocal, Sweep, FlagTypes
      <3> QED BY <3>1, <3>2 DEF TypeInv
    <2>11. ASSUME NEW v \in Versions, EditSource(v) PROVE TypeInv'
      <3>1. v \in File /\ v # Absent
        BY FileFacts, TransferAssumption
      <3>2. FileTypes' /\ StateTypes' /\ LocalInv'
        BY <2>11, <3>1 DEF EditSource, FileTypes, StateTypes, LocalInv, Up
      <3>3. FlagTypes'
        BY <2>11, TransferAssumption DEF EditSource, FlagTypes
      <3> QED BY <3>2, <3>3 DEF TypeInv
    <2>12. ASSUME NEW f \in Versions \cup {Absent}, ReplaceRemote(f) PROVE TypeInv'
      <3>1. f \in File \cup {Absent}
        BY FileFacts
      <3>2. FileTypes' /\ StateTypes' /\ LocalInv'
        BY <2>12, <3>1 DEF ReplaceRemote, FileTypes, StateTypes, LocalInv, Up
      <3>3. FlagTypes'
        BY <2>12, TransferAssumption DEF ReplaceRemote, FlagTypes
      <3> QED BY <3>2, <3>3 DEF TypeInv
    <2> QED
      BY <1>2, <2>2, <2>3, <2>4, <2>5, <2>6, <2>7, <2>8, <2>9, <2>10, <2>11, <2>12
      DEF Next, Command, Environment
  <1> QED BY <1>1, <1>2

\* The types hold at the start.
LEMMA InitTypes == Init => TypeInv
  <1> SUFFICES ASSUME Init PROVE TypeInv
    OBVIOUS
  <1>1. local \in File \cup {Absent} /\ remote \in File \cup {Absent}
    BY FileFacts DEF Init
  <1>2. Source \in File /\ (Up => local # Absent)
    BY FileFacts, TransferAssumption DEF Init, Source
  <1>3. FileTypes
    BY <1>1 DEF Init, FileTypes
  <1>4. StateTypes
    <2>1. Len(Source) \in Nat
      BY <1>2, FileFacts
    <2>2. disk # NoState => disk \in LeftoverStates
      BY DEF Init
    <2>3. disk # NoState => /\ disk.size \in Nat /\ disk.chunk \in ChunkSizes
                            /\ disk.completed \subseteq Offsets(disk.size, disk.chunk)
      BY <2>1, <2>2 DEF LeftoverStates
    <2> QED BY <2>3 DEF Init, StateTypes
  <1>5. FlagTypes
    <2>1. agreed \in BOOLEAN
      BY DEF Init
    <2>2. faults \in 0 .. MaxFaults /\ edits \in 0 .. MaxEdits
      BY TransferAssumption DEF Init
    <2> QED BY <2>1, <2>2 DEF Init, FlagTypes
  <1>6. LocalInv
    BY <1>2 DEF Init, LocalInv
  <1> QED BY <1>3, <1>4, <1>5, <1>6, TypeParts DEF TypeInv

\* Types, and with them: a state that is used was written for these very
\* offsets, and neither file is ever written at a path that holds none.
THEOREM TransferTypeOK == Spec => []TypeOK
  <1>1. TypeInv => TypeOK
    BY DEF TypeInv
  <1> QED BY <1>1, InitTypes, TypeStep, PTL DEF Spec

-----------------------------------------------------------------------------
(* Crashes and resumed commands lose nothing                               *)

\* The target t has the chunks of the source s at the offsets in S.
Has(t, s, o, c) ==
  \A i \in o + 1 .. Least(o + c, Len(s)) : i <= Len(t) /\ t[i] = s[i]
HasAll(t, s, S, c) == \A o \in S : Has(t, s, o, c)

\* Nobody else has changed the files, and no state file was left unread.
Undisturbed == edits = 0 /\ ~ignored

\* The state file lists only chunks that the target has.
StateInv ==
  /\ Source # Absent /\ held # "unlinked"
  /\ disk # NoState => /\ Target # Absent
                       /\ HasAll(Target, Source, disk.completed, disk.chunk)

\* What the command no longer has to do, the target has; a fresh one, which
\* may truncate the target, has found no state file.
ProgressInv ==
  /\ pc # "idle" => /\ size = Len(Source)
                    /\ HasAll(Target, Source, Offsets(size, chunk) \ todo, chunk)
                    /\ st # NoState => st \cap todo = {}
  /\ pc = "open" /\ st = NoState => disk = NoState /\ todo = Offsets(size, chunk)
  /\ pc = "open" /\ st # NoState => Target # Absent
  /\ pc \notin {"idle", "open"} => Target # Absent
  /\ pc \in {"hash", "compare"} => todo = {}
  /\ pc = "clean" /\ ~interrupted => todo = {}
  /\ outcome = "ok" => pc = "idle"

ResumeInv ==
  /\ TypeInv /\ UnchangedIsCopied
  /\ Undisturbed => StateInv /\ ProgressInv

\* A target that agrees with the source in more places has as many chunks.
LEMMA HasMore ==
  ASSUME NEW t, NEW u, NEW s \in File, NEW S \in SUBSET Nat, NEW c \in Nat,
         HasAll(t, s, S, c),
         \A i \in 1 .. Len(s) : i <= Len(t) /\ t[i] = s[i] => i <= Len(u) /\ u[i] = s[i]
  PROVE  HasAll(u, s, S, c)
  <1>1. Len(s) \in Nat
    BY FileFacts
  <1>2. \A o \in S : \A i \in o + 1 .. Least(o + c, Len(s)) : i \in 1 .. Len(s)
    BY <1>1 DEF Least
  <1> QED BY <1>2 DEF HasAll, Has

\* A target with all the chunks has every block.
LEMMA HasEveryBlock ==
  ASSUME NEW t, NEW s \in File, NEW c \in Nat \ {0},
         HasAll(t, s, Offsets(Len(s), c), c)
  PROVE  \A i \in 1 .. Len(s) : i <= Len(t) /\ t[i] = s[i]
  <1> SUFFICES ASSUME NEW i \in 1 .. Len(s) PROVE i <= Len(t) /\ t[i] = s[i]
    OBVIOUS
  <1>1. Len(s) \in Nat
    BY FileFacts
  <1>2. PICK o \in Offsets(Len(s), c) : i \in o + 1 .. Least(o + c, Len(s))
    BY <1>1, ChunksCover
  <1> QED BY <1>2 DEF HasAll, Has

\* The steps that leave the two files alone.
LEMMA StillFiles ==
  UNCHANGED <<dir, local, remote>> => Source' = Source /\ Target' = Target
  BY DEF Source, Target, Up

\* A chunk arrives: nothing that was there is lost.
LEMMA ChunkArrives ==
  ASSUME TypeInv, StateInv, ProgressInv, NEW o \in todo, TransferChunk(o)
  PROVE  /\ Source' = Source /\ Target' \in File /\ held' # "unlinked"
         /\ Has(Target', Source, o, chunk)
         /\ \A i \in 1 .. Len(Source) :
              i <= Len(Target) /\ Target[i] = Source[i] =>
                i <= Len(Target') /\ Target'[i] = Source[i]
  <1>1. FileTypes /\ StateTypes
    BY TypeParts DEF TypeInv
  <1>2. /\ pc = "chunks" /\ size = Len(Source) /\ ServerFile = remote /\ dir' = dir
        /\ held # "unlinked"
    BY DEF TransferChunk, ProgressInv, StateInv, ServerFile
  <1>3. PICK f \in File, g \in File, p \in File, e \in Nat :
          /\ o \in Nat /\ o < e /\ e <= Len(g) /\ Copied(f, g, p, o, e)
          /\ Up => /\ g = local /\ f = ServerFile /\ e = ChunkEnd(o)
                   /\ ServerWrite(p) /\ local' = local
          /\ ~Up => /\ g = ServerFile /\ f = local /\ e = Least(ChunkEnd(o), Len(g))
                    /\ local' = p /\ Hold /\ UNCHANGED <<remote, orphan>>
    BY ChunkCopied
  <1>4. /\ Source = g /\ Source' = g /\ Target = f /\ Target' = p /\ held' # "unlinked"
    BY <1>2, <1>3 DEF Source, Target, Up, ServerWrite, Hold
  <1>5. Len(g) \in Nat /\ Len(f) \in Nat
    BY FileFacts
  <1>6. e = Least(o + chunk, Len(g))
    <2>1. ChunkEnd(o) = Least(o + chunk, Len(g)) /\ ChunkEnd(o) \in Nat
          /\ ChunkEnd(o) <= Len(g)
      BY <1>1, <1>2, <1>4, ChunkBounds DEF ChunkEnd
    <2>2. Least(ChunkEnd(o), Len(g)) = ChunkEnd(o)
      BY <1>5, <2>1 DEF Least
    <2> QED BY <1>3, <2>1, <2>2
  <1>7. Has(p, g, o, chunk)
    <2>1. \A i \in o + 1 .. e : i <= Len(p) /\ p[i] = g[i]
      BY <1>3 DEF Copied
    <2> QED BY <1>6, <2>1 DEF Has
  <1>8. \A i \in 1 .. Len(g) : i <= Len(f) /\ f[i] = g[i] => i <= Len(p) /\ p[i] = g[i]
    BY <1>3, <1>5 DEF Copied
  <1> QED BY <1>4, <1>7, <1>8

\* Every step keeps what a resumed command relies on.
LEMMA ResumeStep == ResumeInv /\ [Next]_vars => ResumeInv'
  <1> SUFFICES ASSUME ResumeInv, [Next]_vars PROVE ResumeInv'
    OBVIOUS
  <1>0. TypeInv' /\ FileTypes /\ StateTypes /\ FlagTypes
    BY TypeStep, TypeParts DEF ResumeInv, TypeInv
  <1> SUFFICES ASSUME Undisturbed'
               PROVE  StateInv' /\ ProgressInv' /\ UnchangedIsCopied'
    BY <1>0 DEF ResumeInv, Undisturbed, UnchangedIsCopied
  <1>1. CASE UNCHANGED vars
    <2>1. UNCHANGED allVars
      BY <1>1, Stutter
    <2>2. Source' = Source /\ Target' = Target
      BY <2>1, StillFiles DEF allVars
    <2>3. Undisturbed
      BY <2>1 DEF allVars, Undisturbed
    <2>4. StateInv' /\ ProgressInv'
      BY <2>1, <2>2, <2>3 DEF allVars, ResumeInv, StateInv, ProgressInv
    <2>5. UnchangedIsCopied'
      BY <2>1, <2>2 DEF allVars, ResumeInv, UnchangedIsCopied
    <2> QED BY <2>4, <2>5
  <1>2. CASE Next
    <2>1. Undisturbed
      <3>1. edits' = edits \/ edits' = edits + 1
        BY <1>2 DEF Next, Command, Environment, Begin, Open, TransferChunk,
          ChunkImpossible, ChunksDone, HashRemote, CompareLocal, Clean, StepFails,
          Interrupt, Crash, RemoveLocal, Sweep, EditSource, ReplaceRemote
      <3>2. edits = 0
        <4>1. edits \in Nat /\ edits' = 0
          BY <1>0, TransferAssumption DEF FlagTypes, Undisturbed
        <4> QED BY <3>1, <4>1
      <3>3. ignored => ignored'
        BY <1>2 DEF Next, Command, Environment, Begin, Open, TransferChunk,
          ChunkImpossible, ChunksDone, HashRemote, CompareLocal, Clean, StepFails,
          Interrupt, Crash, RemoveLocal, Sweep, EditSource, ReplaceRemote
      <3> QED BY <3>2, <3>3 DEF Undisturbed
    <2>2. /\ StateInv /\ ProgressInv /\ TypeInv /\ UnchangedIsCopied
          /\ edits = 0 /\ edits' = 0 /\ ~ignored /\ ~ignored'
      BY <2>1 DEF ResumeInv, Undisturbed
    <2> USE <1>0, <2>2
    <2>3. CASE Begin
      <3>1. /\ pc = "idle" /\ chunk' \in ChunkSizes /\ disk' = disk /\ held' = held
            /\ disk # NoState => st' # NoState
            /\ Source' = Source /\ Target' = Target
        BY <2>3, StillFiles DEF Begin
      <3>2. /\ size' = Len(Source) /\ st' = LoadResumeState(size', chunk')
            /\ todo' = Offsets(size', chunk') \ (IF st' = NoState THEN {} ELSE st')
            /\ pc' = "open" /\ outcome' = "none"
        BY <2>3 DEF Begin, StateInv
      <3>3. StateInv'
        BY <3>1 DEF StateInv
      <3>4. st' # NoState => disk # NoState /\ st' = disk.completed /\ chunk' = disk.chunk
        BY <3>2 DEF LoadResumeState
      <3>5. HasAll(Target, Source, Offsets(size', chunk') \ todo', chunk')
        BY <3>2, <3>4 DEF HasAll, StateInv
      <3>6. ProgressInv'
        BY <3>1, <3>2, <3>4, <3>5 DEF ProgressInv, StateInv
      <3>7. UnchangedIsCopied'
        BY <3>2 DEF UnchangedIsCopied
      <3> QED BY <3>3, <3>6, <3>7
    <2>4. CASE Open
      <3>1. /\ pc = "open" /\ dir' = dir
            /\ UNCHANGED <<held, disk, size, chunk, todo, st, interrupted>>
        BY <2>4 DEF Open
      <3>2. CASE st = NoState
        <4>1. pc' = "chunks" /\ outcome' = outcome /\ outcome # "ok"
          BY <2>4, <3>1, <3>2 DEF Open, ProgressInv
        <4>2. Source' = Source
          BY <2>4, <3>1, <3>2 DEF Open, Source, Up
        <4>3. Target' # Absent
          BY <2>4, <3>1, <3>2, FileFacts, TransferAssumption
          DEF Open, Target, Up, StateTypes
        <4>4. disk = NoState /\ todo = Offsets(size, chunk)
          BY <3>1, <3>2 DEF ProgressInv
        <4>5. HasAll(Target', Source', Offsets(size', chunk') \ todo', chunk')
          BY <3>1, <4>4 DEF HasAll
        <4>6. StateInv'
          BY <3>1, <4>2, <4>4 DEF StateInv
        <4>7. ProgressInv'
          BY <3>1, <3>2, <4>1, <4>2, <4>3, <4>5 DEF ProgressInv
        <4>8. UnchangedIsCopied'
          BY <4>1 DEF UnchangedIsCopied
        <4> QED BY <4>6, <4>7, <4>8
      <3>3. CASE st # NoState
        <4>1. Source' = Source /\ Target' = Target
          BY <2>4, <3>1, <3>3, StillFiles DEF Open
        <4>2. /\ pc' \in {"idle", "chunks"} /\ outcome' # "ok"
          BY <2>4, <3>1, <3>3 DEF Open, ProgressInv
        <4>3. StateInv'
          BY <3>1, <4>1 DEF StateInv
        <4>4. ProgressInv'
          BY <3>1, <3>3, <4>1, <4>2 DEF ProgressInv
        <4>5. UnchangedIsCopied'
          BY <4>2 DEF UnchangedIsCopied
        <4> QED BY <4>3, <4>4, <4>5
      <3> QED BY <3>2, <3>3
    <2>5. ASSUME NEW o \in todo, TransferChunk(o)
          PROVE  StateInv' /\ ProgressInv' /\ UnchangedIsCopied'
      <3>1. /\ pc = "chunks" /\ todo' = todo \ {o}
            /\ st' = IF st = NoState THEN NoState ELSE st \cup {o}
            /\ MaybeSave
            /\ UNCHANGED <<pc, outcome, size, chunk, interrupted>>
        BY <2>5 DEF TransferChunk
      <3>2. /\ Source' = Source /\ Target' \in File /\ held' # "unlinked"
            /\ Has(Target', Source, o, chunk)
            /\ \A i \in 1 .. Len(Source) :
                 i <= Len(Target) /\ Target[i] = Source[i] =>
                   i <= Len(Target') /\ Target'[i] = Source[i]
        BY <2>5, ChunkArrives
      <3>3. PICK t, u, s : t = Target /\ u = Target' /\ s = Source /\ s \in File
        BY DEF StateInv, FileTypes, Source
      <3>4. PICK n \in Nat, c \in Nat \ {0} : n = size /\ c = chunk
        BY TransferAssumption DEF StateTypes
      <3>5. \A i \in 1 .. Len(s) : i <= Len(t) /\ t[i] = s[i] => i <= Len(u) /\ u[i] = s[i]
        BY <3>2, <3>3
      <3>6. HasAll(u, s, Offsets(n, c) \ todo', c)
        <4>1. HasAll(t, s, Offsets(n, c) \ todo, c)
          BY <3>1, <3>3, <3>4 DEF ProgressInv
        <4>2. Offsets(n, c) \ todo \in SUBSET Nat
          BY DEF Offsets
        <4>3. HasAll(u, s, Offsets(n, c) \ todo, c)
          BY <3>3, <3>5, <4>1, <4>2, HasMore
        <4> QED BY <3>1, <3>2, <3>3, <3>4, <4>3 DEF HasAll
      <3>7. st' # NoState => st' \subseteq Offsets(n, c) \ todo'
        BY <3>1, <3>4 DEF StateTypes, ProgressInv
      <3>8. st' # NoState => HasAll(u, s, st', c)
        BY <3>6, <3>7 DEF HasAll
      <3>9. disk # NoState => HasAll(u, s, disk.completed, disk.chunk)
        <4> SUFFICES ASSUME disk # NoState PROVE HasAll(u, s, disk.completed, disk.chunk)
          OBVIOUS
        <4>1. /\ disk.completed \subseteq 0 .. disk.size - 1 /\ disk.size \in Nat
              /\ disk.chunk \in ChunkSizes
          BY DEF StateTypes, Offsets
        <4>3. disk.completed \in SUBSET Nat /\ disk.chunk \in Nat
          BY <4>1, TransferAssumption
        <4>2. HasAll(t, s, disk.completed, disk.chunk)
          BY <3>3 DEF StateInv
        <4> QED BY <3>3, <3>5, <4>2, <4>3, HasMore
      <3>10. disk' # NoState => HasAll(u, s, disk'.completed, disk'.chunk)
        BY <3>1, <3>4, <3>8, <3>9 DEF MaybeSave
      <3>11. Target' # Absent
        BY <3>2, TransferAssumption
      <3>12. StateInv'
        BY <3>2, <3>3, <3>10, <3>11 DEF StateInv
      <3>13. ProgressInv'
        BY <3>1, <3>2, <3>3, <3>4, <3>6, <3>7, <3>11 DEF ProgressInv
      <3>14. UnchangedIsCopied'
        BY <3>1 DEF UnchangedIsCopied, ProgressInv
      <3> QED BY <3>12, <3>13, <3>14
    <2>6. CASE ChunksDone
      <3>1. /\ pc = "chunks" /\ todo = {} /\ todo' = {} /\ st' = st /\ MaybeSave
            /\ pc' \in {"hash", "clean"} /\ outcome' = outcome
            /\ UNCHANGED <<held, size, chunk, interrupted>>
            /\ Source' = Source /\ Target' = Target
        BY <2>6, StillFiles DEF ChunksDone
      <3>2. st # NoState => HasAll(Target, Source, st, chunk)
        BY <3>1 DEF ProgressInv, StateTypes, HasAll
      <3>3. Target # Absent
        BY <3>1 DEF ProgressInv
      <3>4. StateInv'
        BY <3>1, <3>2, <3>3 DEF StateInv, MaybeSave
      <3>5. ProgressInv'
        BY <3>1 DEF ProgressInv
      <3>6. UnchangedIsCopied'
        BY <3>1 DEF UnchangedIsCopied, ProgressInv
      <3> QED BY <3>4, <3>5, <3>6
    <2>7. CASE Clean
      <3>1. /\ pc = "clean" /\ pc' = "idle" /\ disk' \in {disk, NoState}
            /\ UNCHANGED <<held, interrupted>>
            /\ Source' = Source /\ Target' = Target
        BY <2>7, StillFiles DEF Clean
      <3>2. StateInv' /\ ProgressInv'
        BY <3>1 DEF StateInv, ProgressInv
      <3>3. ASSUME ~interrupted
            PROVE  \A i \in 1 .. Len(Source) : i <= Len(Target) /\ Target[i] = Source[i]
        <4>1. HasAll(Target, Source, Offsets(size, chunk), chunk) /\ size = Len(Source)
          BY <3>1, <3>3 DEF ProgressInv, HasAll
        <4>2. Source \in File /\ chunk \in Nat \ {0}
          BY TransferAssumption DEF StateInv, FileTypes, StateTypes, Source
        <4> QED BY <4>1, <4>2, HasEveryBlock
      <3>4. Target # Absent
        BY <3>1 DEF ProgressInv
      <3>5. UnchangedIsCopied'
        BY <3>1, <3>3, <3>4 DEF UnchangedIsCopied
      <3> QED BY <3>2, <3>5
    <2>8. CASE \/ ChunkImpossible \/ HashRemote \/ CompareLocal \/ StepFails
               \/ Interrupt \/ Crash
      <3>1. /\ pc # "idle" /\ outcome' # "ok" /\ disk' = disk
            /\ UNCHANGED <<size, chunk, todo, st>>
            /\ held' \in {held, "none"}
        BY <2>8 DEF ChunkImpossible, HashRemote, CompareLocal, StepFails, Interrupt,
                    Crash, ProgressInv
      <3>2. Source' = Source /\ Target' = Target
        BY <2>8, StillFiles DEF ChunkImpossible, HashRemote, CompareLocal, StepFails,
                                Interrupt, Crash
      <3>3. \/ pc' = "idle"
            \/ pc \in {"hash", "compare"} /\ pc' \in {"compare", "clean"}
            \/ pc = "chunks" /\ pc' = "clean" /\ interrupted'
        BY <2>8 DEF ChunkImpossible, HashRemote, CompareLocal, StepFails, Interrupt,
                    Crash
      <3>4. StateInv'
        BY <3>1, <3>2 DEF StateInv
      <3>5. ProgressInv'
        BY <3>1, <3>2, <3>3 DEF ProgressInv
      <3>6. UnchangedIsCopied'
        BY <3>1 DEF UnchangedIsCopied
      <3> QED BY <3>4, <3>5, <3>6
    <2>9. CASE Sweep
      <3>1. /\ UNCHANGED <<disk, pc, size, chunk, todo, st, outcome, interrupted>>
            /\ held' = "none" /\ Source' = Source /\ Target' = Target
        BY <2>9, StillFiles DEF Sweep
      <3>2. StateInv' /\ ProgressInv'
        BY <3>1 DEF StateInv, ProgressInv
      <3>3. UnchangedIsCopied'
        BY <3>1 DEF UnchangedIsCopied
      <3> QED BY <3>2, <3>3
    <2>10. ~RemoveLocal /\ (\A v \in Versions : ~EditSource(v))
           /\ \A f \in Versions \cup {Absent} : ~ReplaceRemote(f)
      BY DEF RemoveLocal, EditSource, ReplaceRemote
    <2> QED
      BY <1>2, <2>3, <2>4, <2>5, <2>6, <2>7, <2>8, <2>9, <2>10
      DEF Next, Command, Environment
  <1> QED BY <1>1, <1>2

\* A command that reports success and was not interrupted has transferred
\* every block, with or without --sha256, as long as nobody else has changed
\* the files and no state file was left unread: whatever crashes, failures
\* and resumed commands came before.
THEOREM NothingIsLost == Spec => []UnchangedIsCopied
  <1>1. Init => ResumeInv
    <2> SUFFICES ASSUME Init PROVE ResumeInv
      OBVIOUS
    <2>1. TypeInv
      BY InitTypes
    <2>2. Source # Absent
      BY FileFacts, TransferAssumption DEF Init, Source
    <2>3. disk # NoState => /\ Target # Absent
                            /\ HasAll(Target, Source, disk.completed, disk.chunk)
      BY DEF Init, LeftoverStates, Arrived, HasAll, Has
    <2>4. StateInv /\ ProgressInv
      BY <2>2, <2>3 DEF Init, StateInv, ProgressInv
    <2> QED BY <2>1, <2>4 DEF Init, ResumeInv, UnchangedIsCopied
  <1>2. ResumeInv => UnchangedIsCopied
    BY DEF ResumeInv
  <1> QED BY <1>1, <1>2, ResumeStep, PTL DEF Spec
=============================================================================
