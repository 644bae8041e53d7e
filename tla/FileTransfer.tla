---------------------------- MODULE FileTransfer ----------------------------
(***************************************************************************)
(* Copying one file over several commands: uploadFile (cp_to_host.go) or   *)
(* downloadFile (cp_from_host.go) from the stat of the source to the       *)
(* deletion of the resume state, with crashes between any two steps and    *)
(* other programs changing the files meanwhile.                            *)
(*                                                                         *)
(* A file is a sequence of blocks, a chunk one or more of them.  The chunk *)
(* phase is abstracted to what ProcessChunks establishes: chunks arrive    *)
(* one by one in any order, the state file lists only chunks that have     *)
(* arrived, nil means all of them have unless the command was interrupted. *)
(* Of the server this keeps the file at the remote path and the descriptor *)
(* that fdCache holds for that path, which FileServer has in detail.       *)
(* Modes, retries and what the checksums cover are left out.               *)
(***************************************************************************)
EXTENDS Integers, Sequences, FiniteSets

CONSTANTS
  Directions,  \* a subset of {"up", "down"}
  Versions,    \* the contents a source file may have
  Hole,        \* a block that was never written
  ChunkSizes,  \* --chunk, in blocks
  Leftover,    \* a state file may have been left in the temporary directory
  MaxFaults,   \* bound: failed steps, interrupts and crashes
  MaxEdits,    \* bound: changes made by other programs
  Absent,      \* no file at a path
  NoState      \* no state file; a nil *resumeState

\* The contents of a file, of whatever length.
Blocks == (UNION {{v[i] : i \in 1 .. Len(v)} : v \in Versions}) \cup {Hole}
File == Seq(Blocks)

ASSUME TransferAssumption ==
  /\ Directions \subseteq {"up", "down"}
  /\ Versions # {} /\ Versions \subseteq Seq(Blocks \ {Hole})
  /\ ChunkSizes \subseteq Nat \ {0} /\ ChunkSizes # {}
  /\ Leftover \in BOOLEAN
  /\ MaxFaults \in Nat /\ MaxEdits \in Nat
  /\ Absent \notin File

VARIABLES
  dir,          \* the direction of the copy
  local,        \* the local file
  remote,       \* the file at the remote path
  held,         \* the server's cached descriptor of that path
  orphan,       \* the contents behind it, when it has lost its name
  disk,         \* the resume state file
  pc,           \* where the command is
  size, chunk,  \* the size found by Stat, and --chunk
  sha,          \* --sha256
  todo,         \* the offsets of the chunks still to transfer
  st,           \* the completed set in memory, or nil
  digest,       \* what the server has hashed
  outcome,      \* how the last command ended
  faults, edits,
  interrupted,  \* the last command was interrupted (history)
  ignored,      \* a command has left a state file unread (history)
  swapped,      \* the last command met a replaced remote file (history)
  agreed        \* local and remote were identical during it (history)

fileVars == <<local, remote, held, orphan>>
argVars == <<size, chunk, sha>>
cmdVars == <<pc, argVars, todo, st, digest, outcome>>
histVars == <<faults, edits, interrupted, ignored, swapped>>
vars == <<dir, fileVars, disk, cmdVars, histVars, agreed>>

Up == dir = "up"
Source == IF Up THEN local ELSE remote
Target == IF Up THEN remote ELSE local

\* The offsets of the chunks of a file of n blocks.
Offsets(n, c) == {o \in 0 .. n - 1 : o % c = 0}

Least(a, b) == IF a < b THEN a ELSE b

Holes(n) == [i \in 1 .. n |-> Hole]

\* WriteAt of data at offset o: the file grows, with holes, when it must.
Patch(f, o, data) ==
  [i \in 1 .. (IF Len(f) < o + Len(data) THEN o + Len(data) ELSE Len(f)) |->
     IF i > o /\ i <= o + Len(data) THEN data[i - o]
     ELSE IF i <= Len(f) THEN f[i] ELSE Hole]

\* The target holds the chunk at o of the source.
Arrived(o, c) ==
  \A i \in o + 1 .. Least(o + c, Len(Source)) :
    i <= Len(Target) /\ Target[i] = Source[i]

\* A left-over state file lists chunks that have arrived.
LeftoverStates ==
  {s \in [size : {Len(Source)}, chunk : ChunkSizes,
          completed : SUBSET (0 .. Len(Source))] :
     /\ s.completed \subseteq Offsets(s.size, s.chunk)
     /\ Target # Absent
     /\ \A o \in s.completed : Arrived(o, s.chunk)}

Init ==
  /\ dir \in Directions
  /\ \E v \in Versions, f \in Versions \cup {Absent} :
       /\ local = IF Up THEN v ELSE f
       /\ remote = IF Up THEN f ELSE v
  /\ held = "none" /\ orphan = Absent
  /\ disk \in {NoState} \cup (IF Leftover THEN LeftoverStates ELSE {})
  /\ pc = "idle" /\ outcome = "none"
  /\ size = 0 /\ chunk \in ChunkSizes /\ sha = FALSE
  /\ todo = {} /\ st = NoState /\ digest = Absent
  /\ faults = 0 /\ edits = 0
  /\ interrupted = FALSE /\ ignored = FALSE /\ swapped = FALSE
  /\ agreed = (local = remote)

-----------------------------------------------------------------------------
(* Steps that any part of a command may take                               *)

Fault == faults < MaxFaults /\ faults' = faults + 1

Goto(l) == pc' = l /\ UNCHANGED outcome

\* The command returns; cp reports nil or an error.
Return(r) == pc' = "idle" /\ outcome' = r

\* fdCache.get: the file behind the cached descriptor, or the one at the path.
ServerFile == IF held = "unlinked" THEN orphan ELSE remote

\* The descriptor is now in the cache.
Hold == held' = (IF held = "none" THEN "named" ELSE held)

ServerWrite(f) ==
  /\ Hold
  /\ IF held = "unlinked" THEN orphan' = f /\ UNCHANGED remote
                          ELSE remote' = f /\ UNCHANGED orphan

-----------------------------------------------------------------------------
(* The command                                                             *)

\* Mutation: a state of another source size is accepted.
LoadAnySize(n, c) ==
  IF disk # NoState /\ disk.chunk = c THEN disk.completed ELSE NoState

\* nil unless the state file is for this source size and chunk size.
LoadResumeState(n, c) ==
  IF disk # NoState /\ disk.size = n /\ disk.chunk = c
    THEN disk.completed ELSE NoState

\* Stat of the source, by path, and loadResumeState.
Begin ==
  /\ pc = "idle"
  /\ \E c \in ChunkSizes, b \in BOOLEAN : chunk' = c /\ sha' = b
  /\ \/ /\ Source # Absent
        /\ size' = Len(Source)
        /\ st' = LoadResumeState(size', chunk')
        /\ todo' = Offsets(size', chunk')
                     \ (IF st' = NoState THEN {} ELSE st')
        /\ pc' = "open" /\ outcome' = "none"
     \/ /\ Source = Absent
        /\ size' = 0 /\ st' = NoState /\ todo' = {}
        /\ Return("err")
  /\ interrupted' = FALSE /\ swapped' = (held = "unlinked")
  /\ ignored' = (ignored \/ (disk # NoState /\ st' = NoState))
  /\ UNCHANGED <<dir, fileVars, disk, digest, faults, edits>>

\* Mutation: an existing target is never truncated.
OpenKeepsContent ==
  /\ pc = "open"
  /\ \/ /\ st = NoState
        /\ IF Up THEN /\ remote' = IF remote = Absent THEN Holes(size)
                                                      ELSE remote
                      /\ UNCHANGED local
                 ELSE /\ local' = IF local = Absent THEN <<>> ELSE local
                      /\ UNCHANGED remote
        /\ Goto("chunks")
     \/ /\ st # NoState
        /\ IF ~Up /\ local = Absent THEN Return("err") ELSE Goto("chunks")
        /\ UNCHANGED <<local, remote>>
  /\ UNCHANGED <<dir, held, orphan, disk, argVars, todo, st, digest, histVars>>

\* A fresh transfer creates the target: the server leaves an existing file as
\* it is, a download truncates it.  A resumed one expects it: a download
\* opens it without O_CREATE, an upload finds out when it writes.
Open ==
  /\ pc = "open"
  /\ \/ /\ st = NoState
        /\ IF Up THEN /\ remote' = IF remote = Absent THEN Holes(size)
                                                      ELSE remote
                      /\ UNCHANGED local
                 ELSE local' = <<>> /\ UNCHANGED remote
        /\ Goto("chunks")
     \/ /\ st # NoState
        /\ IF ~Up /\ local = Absent THEN Return("err") ELSE Goto("chunks")
        /\ UNCHANGED <<local, remote>>
  /\ UNCHANGED <<dir, held, orphan, disk, argVars, todo, st, digest, histVars>>

\* The end of the chunk at o.
ChunkEnd(o) == Least(o + chunk, size)

\* An upload reads the whole chunk of its open source and needs a file on the
\* server; a read beyond the end fails, one across the end is short.
CanTransfer(o) ==
  IF Up THEN Len(local) >= ChunkEnd(o) /\ ServerFile # Absent
        ELSE ServerFile # Absent /\ Len(ServerFile) > o

\* Mutation: every chunk of the file is recorded as completed.
SaveAll ==
  disk' \in {disk} \cup
    (IF st' = NoState THEN {}
     ELSE {[size |-> size, chunk |-> chunk,
            completed |-> Offsets(size, chunk)]})

\* addCompletedOffset and flushResumeState: the state file may follow the
\* completed set, at once or later or, when saving fails, never.
MaybeSave ==
  disk' \in {disk} \cup
    (IF st' = NoState THEN {}
     ELSE {[size |-> size, chunk |-> chunk, completed |-> st']})

\* uploadFileChunk, or the closure of downloadFile, succeeds.
TransferChunk(o) ==
  /\ pc = "chunks" /\ CanTransfer(o)
  /\ IF Up
       THEN /\ ServerWrite(Patch(ServerFile, o,
                                 SubSeq(local, o + 1, ChunkEnd(o))))
            /\ UNCHANGED local
       ELSE /\ local' = Patch(local, o,
                 SubSeq(ServerFile, o + 1,
                        Least(ChunkEnd(o), Len(ServerFile))))
            /\ Hold
            /\ UNCHANGED <<remote, orphan>>
  /\ todo' = todo \ {o}
  /\ st' = IF st = NoState THEN NoState ELSE st \cup {o}
  /\ MaybeSave
  /\ UNCHANGED <<dir, pc, outcome, argVars, digest, histVars>>

\* processChunks returns nil: verify, or not.
ChunksDone ==
  /\ pc = "chunks" /\ todo = {}
  /\ UNCHANGED st /\ MaybeSave
  /\ Goto(IF sha THEN "hash" ELSE "clean")
  /\ UNCHANGED <<dir, fileVars, argVars, todo, digest, histVars>>

\* A chunk that cannot be transferred fails the command; the state stays.
ChunkImpossible ==
  /\ pc = "chunks"
  /\ \E o \in todo : ~CanTransfer(o)
  /\ Return("err")
  /\ UNCHANGED <<dir, fileVars, disk, argVars, todo, st, digest, histVars>>

\* verifyFileHash: the server hashes its file, and evicts the descriptor.
HashRemote ==
  /\ pc = "hash"
  /\ IF ServerFile = Absent THEN Return("err") /\ UNCHANGED digest
                            ELSE Goto("compare") /\ digest' = ServerFile
  /\ held' = "none" /\ orphan' = Absent
  /\ UNCHANGED <<dir, local, remote, disk, argVars, todo, st, histVars>>

\* Mutation: only the lengths of the files are compared.
CompareLengths ==
  /\ pc = "compare"
  /\ IF local # Absent /\ Len(local) = Len(digest) THEN Goto("clean")
                                                   ELSE Return("err")
  /\ UNCHANGED <<dir, fileVars, disk, argVars, todo, st, digest, histVars>>

\* verifyFileHash: hash the local file and compare.  A mismatch leaves the
\* state file in place.
CompareLocal ==
  /\ pc = "compare"
  /\ IF local = digest THEN Goto("clean") ELSE Return("err")
  /\ UNCHANGED <<dir, fileVars, disk, argVars, todo, st, digest, histVars>>

\* deleteResumeState, which does nothing for a nil state.
Clean ==
  /\ pc = "clean"
  /\ disk' = IF st = NoState THEN disk ELSE NoState
  /\ Return("ok")
  /\ UNCHANGED <<dir, fileVars, argVars, todo, st, digest, histVars>>

Command ==
  \/ Begin \/ Open \/ \E o \in todo : TransferChunk(o)
  \/ ChunkImpossible \/ ChunksDone \/ HashRemote \/ CompareLocal \/ Clean

-----------------------------------------------------------------------------
(* Failures and other programs                                             *)

\* Stat, Create, opening a file, a chunk after its retries, or Hash fails.
StepFails ==
  /\ pc \in {"open", "chunks", "hash"}
  /\ Fault
  /\ Return("err")
  /\ UNCHANGED <<dir, fileVars, disk, argVars, todo, st, digest, edits,
                 interrupted, ignored, swapped>>

\* SIGINT during the chunk phase.  processChunks returns an error, or nil
\* with chunks missing; the RPC of a verification then fails.
Interrupt ==
  /\ pc = "chunks" /\ ~interrupted
  /\ Fault
  /\ interrupted' = TRUE
  /\ \/ Return("err")
     \/ IF sha THEN Return("err") ELSE Goto("clean")
  /\ UNCHANGED <<dir, fileVars, disk, argVars, todo, st, digest, edits, ignored,
                 swapped>>

\* The process is killed.
Crash ==
  /\ pc # "idle"
  /\ Fault
  /\ Return("none")
  /\ UNCHANGED <<dir, fileVars, disk, argVars, todo, st, digest, edits,
                 interrupted, ignored, swapped>>

Edit == edits < MaxEdits /\ edits' = edits + 1

\* Someone changes the source in place.
EditSource(v) ==
  /\ Edit /\ Source \notin {Absent, v}
  /\ IF Up THEN local' = v /\ UNCHANGED remote
           ELSE remote' = v /\ UNCHANGED local
  /\ UNCHANGED <<dir, held, orphan, disk, cmdVars, faults, interrupted,
                 ignored, swapped>>

\* Someone unlinks the remote file, or renames another one over it.
ReplaceRemote(f) ==
  /\ Edit /\ remote # f
  /\ remote' = f
  /\ held' = (IF held = "named" THEN "unlinked" ELSE held)
  /\ orphan' = (IF held = "named" THEN remote ELSE orphan)
  /\ swapped' = (swapped \/ held = "named" \/ (Up /\ pc = "compare"))
  /\ UNCHANGED <<dir, local, disk, cmdVars, faults, interrupted, ignored>>

\* Someone removes the downloaded file between two commands.
RemoveLocal ==
  /\ ~Up /\ pc = "idle" /\ Edit
  /\ local' = Absent
  /\ UNCHANGED <<dir, remote, held, orphan, disk, cmdVars, faults,
                 interrupted, ignored, swapped>>

\* The sweep of fdCache closes the descriptor after its idle timeout.
Sweep ==
  /\ held # "none"
  /\ held' = "none" /\ orphan' = Absent
  /\ UNCHANGED <<dir, local, remote, disk, cmdVars, histVars>>

Environment ==
  \/ StepFails \/ Interrupt \/ Crash \/ RemoveLocal \/ Sweep
  \/ \E v \in Versions : EditSource(v)
  \/ \E f \in Versions \cup {Absent} : ReplaceRemote(f)

Next ==
  /\ Command \/ Environment
  /\ agreed' = ((local' = remote') \/ (pc # "idle" /\ agreed))

Spec == Init /\ [][Next]_vars

\* A command takes its steps, and the user repeats it.  Nothing has to fail.
FairSpec == Spec /\ WF_vars(Command /\ Next)

-----------------------------------------------------------------------------
(* Correctness                                                             *)

\* Types; a state that is used was written for these very offsets.
TypeOK ==
  /\ dir \in Directions
  /\ local \in File \cup {Absent} /\ remote \in File \cup {Absent}
  /\ held \in {"none", "named", "unlinked"} /\ orphan \in File \cup {Absent}
  /\ disk # NoState => /\ disk.size \in Nat /\ disk.chunk \in ChunkSizes
                       /\ disk.completed \subseteq
                            Offsets(disk.size, disk.chunk)
  /\ pc \in {"idle", "open", "chunks", "hash", "compare", "clean"}
  /\ size \in Nat /\ chunk \in ChunkSizes /\ sha \in BOOLEAN
  /\ todo \subseteq Offsets(size, chunk)
  /\ st # NoState => st \subseteq Offsets(size, chunk)
  /\ digest \in File \cup {Absent}
  /\ outcome \in {"none", "ok", "err"}
  /\ faults \in 0 .. MaxFaults /\ edits \in 0 .. MaxEdits
  /\ {interrupted, ignored, swapped, agreed} \subseteq BOOLEAN

\* The transfer implements Copy: with --sha256 it reports success only if
\* source and target were identical at some instant of the command, whatever
\* crashes, left-over states and concurrent edits came before.  The exception
\* is a remote file replaced while the server has it open, when the server
\* writes and hashes what has lost its name, or between the two hashes.
Abstract == INSTANCE Copy WITH
  source <- Source, target <- Target,
  phase <- IF pc = "idle" THEN outcome ELSE "running",
  strict <- sha /\ ~swapped, agreed <- agreed

ImplementsCopy == Abstract!Spec

\* Without verification, too, a command that reports success and was not
\* interrupted has transferred every block, as long as nobody else has
\* changed the files and no command has started afresh beside a state file
\* of other parameters: crashes and resumed commands lose nothing.
UnchangedIsCopied ==
  outcome = "ok" /\ edits = 0 /\ ~interrupted /\ ~ignored =>
    /\ Target # Absent
    /\ \A i \in 1 .. Len(Source) : i <= Len(Target) /\ Target[i] = Source[i]

\* Repeating a fresh command succeeds once failures and edits have stopped,
\* unless the source is gone, the server keeps a descriptor without a name, or
\* an upload finds a longer file, which it never shortens.
RetrySucceeds ==
  [](/\ disk = NoState /\ Source # Absent /\ held # "unlinked"
     /\ Up /\ remote # Absent => Len(remote) <= Len(local))
    => []<>(outcome = "ok")
=============================================================================
