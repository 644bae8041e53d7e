---------------------------- MODULE ProcessChunks ----------------------------
(***************************************************************************)
(* processChunks (transfer.go), the scheduler of every file transfer: one  *)
(* goroutine per chunk, bounded by the semaphore channel `sem`, reporting  *)
(* failures on `errChan` and bytes on `progressChan`.  The goroutine's fn  *)
(* is the closure of uploadFile with uploadFileChunk (Direction "up") or   *)
(* the closure of downloadFile (Direction "down"), retries included.       *)
(*                                                                         *)
(* A chunk is named by its offset.  The RPC under fn answers, fails, or    *)
(* never returns: RpcClient says when that is.  Chunk data are abstracted  *)
(* to whether the receiver holds them (`done`).                            *)
(***************************************************************************)
EXTENDS Integers, Sequences, FiniteSets

CONSTANTS
  FileSize,       \* bytes to transfer
  ChunkSize,      \* --chunk
  Batch,          \* --batch
  MaxRetries,     \* --retry
  Direction,      \* "up" or "down"
  Quiet,          \* --quiet: drainProgress instead of the progress bar
  Resuming,       \* loadResumeState returned a state, not nil
  SaveFails,      \* saveResumeState may return an error
  Interruptible,  \* SIGINT or SIGTERM may cancel the parent context
  Lossy,          \* connections may break with requests on them
  Faulty          \* the offsets whose transfer may fail

\* The multiples of ChunkSize below FileSize.
Offsets == {o \in 0 .. FileSize - 1 : \E k \in 0 .. o : o = k * ChunkSize}

ASSUME ChunksAssumption ==
  /\ FileSize \in Nat
  /\ ChunkSize \in Nat \ {0}
  /\ Batch \in Nat \ {0}
  /\ MaxRetries \in Nat
  /\ Direction \in {"up", "down"}
  /\ Quiet \in BOOLEAN /\ Resuming \in BOOLEAN
  /\ SaveFails \in BOOLEAN /\ Interruptible \in BOOLEAN /\ Lossy \in BOOLEAN
  /\ Faulty \subseteq Offsets

VARIABLES
  mpc,           \* where the caller of processChunks is
  offset,        \* next offset to dispatch; remainSize is FileSize - offset
  result,        \* what processChunks returned
  pc,            \* where the goroutine of each offset is
  attempt,       \* its retry counter
  sem,           \* the offsets whose goroutine has a token in sem
  errChan,       \* the offsets whose error is in errChan
  progressChan,  \* byte counts in progressChan
  bar,           \* whether the reader of progressChan still runs
  sent,          \* bytes it has counted
  ctxDone,       \* the context of processChunks is cancelled
  interrupted,   \* ... because its parent was
  done,          \* the offsets whose data the receiver confirmed
  completed,     \* resumeState.completedSet
  pending,       \* len(resumeState.pending)
  disk,          \* the offsets in the state file
  saveLost       \* a save has failed (history)

mainVars == <<mpc, offset, result>>
barVars == <<progressChan, bar, sent>>
ctxVars == <<ctxDone, interrupted>>
fileVars == <<disk, saveLost>>
stateVars == <<completed, pending, fileVars>>
vars == <<mainVars, pc, attempt, sem, errChan, barVars, ctxVars, done,
          stateVars>>

\* The chunk at o has ChunkSize bytes, the last one what remains.
Size(o) == IF FileSize - o < ChunkSize THEN FileSize - o ELSE ChunkSize

ChunkPC == {"none", "sem", "read", "try", "rpc", "lost", "stuck", "backoff",
            "apply", "progress", "complete", "save", "fail", "release", "exit"}

\* The goroutine of o is past `sem <- struct{}{}` and not past `<-sem`.
Holding == ChunkPC \ {"none", "sem", "exit"}

-----------------------------------------------------------------------------
\* A resuming transfer has loaded completedSet from the state file; the
\* receiver holds what the file says.  progressChan <- startOffset (0) fits
\* in the buffer, so it has happened.
Init ==
  /\ mpc = "loop" /\ offset = 0 /\ result = "none"
  /\ pc = [o \in Offsets |-> "none"]
  /\ attempt = [o \in Offsets |-> 0]
  /\ sem = {} /\ errChan = {}
  /\ progressChan = <<0>> /\ bar = "run" /\ sent = 0
  /\ ctxDone = FALSE /\ interrupted = FALSE
  /\ completed \in IF Resuming THEN SUBSET Offsets ELSE {{}}
  /\ done = completed /\ disk = completed
  /\ pending = 0 /\ saveLost = FALSE

-----------------------------------------------------------------------------
(* The dispatch loop and the return of processChunks                       *)

\* case err := <-errChan: cancel and return without waiting for anyone.
LoopErr ==
  /\ mpc = "loop" /\ offset < FileSize
  /\ \E e \in errChan : errChan' = errChan \ {e}
  /\ ctxDone' = TRUE
  /\ mpc' = "done" /\ result' = "err"
  /\ UNCHANGED <<offset, pc, attempt, sem, barVars, interrupted, done,
                 stateVars>>

\* Mutation: the last chunk is dispatched at full size.
SpawnUnclamped ==
  /\ mpc = "loop" /\ offset < FileSize /\ errChan = {}
  /\ offset \notin completed
  /\ pc' = [pc EXCEPT ![offset] = "sem"]
  /\ offset' = offset + ChunkSize
  /\ UNCHANGED <<mpc, result, attempt, sem, errChan, barVars, ctxVars, done,
                 stateVars>>

\* No error yet, and the chunk is not completed: go func(off, sz int64).
Spawn ==
  /\ mpc = "loop" /\ offset < FileSize /\ errChan = {}
  /\ offset \notin completed
  /\ pc' = [pc EXCEPT ![offset] = "sem"]
  /\ offset' = offset + Size(offset)
  /\ UNCHANGED <<mpc, result, attempt, sem, errChan, barVars, ctxVars, done,
                 stateVars>>

\* No error yet, and isCompleted: the loop is now at progressChan <- size,
\* which blocks while the buffer of batch+1 is full.
LoopSkip ==
  /\ mpc = "loop" /\ offset < FileSize /\ errChan = {}
  /\ offset \in completed
  /\ mpc' = "skip"
  /\ UNCHANGED <<offset, result, pc, attempt, sem, errChan, barVars, ctxVars,
                 done, stateVars>>

SkipSend ==
  /\ mpc = "skip"
  /\ Len(progressChan) < Batch + 1
  /\ progressChan' = Append(progressChan, Size(offset))
  /\ offset' = offset + Size(offset)
  /\ mpc' = "loop"
  /\ UNCHANGED <<result, pc, attempt, sem, errChan, bar, sent, ctxVars, done,
                 stateVars>>

\* saveResumeState writes completedSet as a whole (under mu, to a .tmp file
\* that is then renamed), or fails and leaves the old file.
SaveResumeState ==
  \/ disk' = completed /\ UNCHANGED saveLost
  \/ SaveFails /\ saveLost' = TRUE /\ UNCHANGED disk

\* Mutation: no wg.Wait before the flush.
FlushWithoutWait ==
  /\ mpc = "loop" /\ offset = FileSize
  /\ IF pending > 0 THEN SaveResumeState ELSE UNCHANGED fileVars
  /\ mpc' = "check"
  /\ UNCHANGED <<offset, result, pc, attempt, sem, errChan, barVars, ctxVars,
                 done, completed, pending>>

\* The loop is over and wg.Wait returns; flushResumeState, errors ignored.
WaitAndFlush ==
  /\ mpc = "loop" /\ offset = FileSize
  /\ \A o \in Offsets : pc[o] \in {"none", "exit"}
  /\ IF pending > 0 THEN SaveResumeState ELSE UNCHANGED fileVars
  /\ mpc' = "check"
  /\ UNCHANGED <<offset, result, pc, attempt, sem, errChan, barVars, ctxVars,
                 done, completed, pending>>

\* The final select on errChan, and the deferred cancel.
Return ==
  /\ mpc = "check"
  /\ mpc' = "done"
  /\ result' = IF errChan = {} THEN "nil" ELSE "err"
  /\ \/ errChan = {} /\ UNCHANGED errChan
     \/ \E e \in errChan : errChan' = errChan \ {e}
  /\ ctxDone' = TRUE
  /\ UNCHANGED <<offset, pc, attempt, sem, barVars, interrupted, done,
                 stateVars>>

Main == LoopErr \/ Spawn \/ LoopSkip \/ SkipSend \/ WaitAndFlush \/ Return

-----------------------------------------------------------------------------
(* The goroutine of the chunk at o                                         *)

Goto(o, from, to) == pc[o] = from /\ pc' = [pc EXCEPT ![o] = to]

\* Mutation: the semaphore admits one goroutine too many.
AcquireSemOffByOne(o) ==
  /\ Goto(o, "sem", IF Direction = "up" THEN "read" ELSE "try")
  /\ Cardinality(sem) <= Batch
  /\ sem' = sem \cup {o}
  /\ UNCHANGED <<mainVars, attempt, errChan, barVars, ctxVars, done,
                 stateVars>>

\* case sem <- struct{}{}: enter fn.
AcquireSem(o) ==
  /\ Goto(o, "sem", IF Direction = "up" THEN "read" ELSE "try")
  /\ Cardinality(sem) < Batch
  /\ sem' = sem \cup {o}
  /\ UNCHANGED <<mainVars, attempt, errChan, barVars, ctxVars, done,
                 stateVars>>

\* case <-ctx.Done(): return without an error and without running fn.
GiveUpSem(o) ==
  /\ Goto(o, "sem", "exit")
  /\ ctxDone
  /\ UNCHANGED <<mainVars, attempt, sem, errChan, barVars, ctxVars, done,
                 stateVars>>

\* Upload: sfd.ReadAt.  It fails for a bad chunk, and once processChunks has
\* returned and its caller closed the file.
ReadChunk(o) ==
  /\ \/ Goto(o, "read", "try")
     \/ Goto(o, "read", "fail") /\ (o \in Faulty \/ result # "none")
  /\ UNCHANGED <<mainVars, attempt, sem, errChan, barVars, ctxVars, done,
                 stateVars>>

\* The top of the retry loop: ctx.Done() wins over the default case.
Try(o) ==
  /\ Goto(o, "try", IF ctxDone THEN "fail" ELSE "rpc")
  /\ UNCHANGED <<mainVars, attempt, sem, errChan, barVars, ctxVars, done,
                 stateVars>>

\* cc.Write or cc.Read answered Success with a good checksum.
RpcOK(o) ==
  /\ Goto(o, "rpc", IF Direction = "up" THEN "progress" ELSE "apply")
  /\ done' = IF Direction = "up" THEN done \cup {o} ELSE done
  /\ UNCHANGED <<mainVars, attempt, sem, errChan, barVars, ctxVars, stateVars>>

\* The client's context (a child of the same parent) is cancelled, or the
\* copy is over and the client is closed.
ClientDone == interrupted \/ result # "none"

\* The answer is a failure; or the client is done, and a call that waits for
\* its answer, even a lost one, returns.
RpcFailed(o) ==
  /\ LET retry == IF attempt[o] < MaxRetries THEN "backoff" ELSE "fail"
     IN \/ Goto(o, "rpc", retry) /\ (o \in Faulty \/ ClientDone)
        \/ Goto(o, "lost", retry) /\ ClientDone
  /\ UNCHANGED <<mainVars, attempt, sem, errChan, barVars, ctxVars, done,
                 stateVars>>

\* No answer will come: the request or its reply is gone with its connection
\* ("lost"), or the hub, which has ended or waits for a sender for ever, does
\* not take the request from cc.msgIn <- ..., which has no alternative
\* ("stuck").
RpcLost(o) ==
  /\ \/ Goto(o, "rpc", "lost") /\ Lossy
     \/ Goto(o, "rpc", "stuck") /\ (Lossy \/ ClientDone)
  /\ UNCHANGED <<mainVars, attempt, sem, errChan, barVars, ctxVars, done,
                 stateVars>>

\* select of ctx.Done() and time.After(backoff)
Backoff(o) ==
  /\ \/ /\ Goto(o, "backoff", "try")
        /\ attempt' = [attempt EXCEPT ![o] = @ + 1]
     \/ /\ Goto(o, "backoff", "fail")
        /\ ctxDone
        /\ UNCHANGED attempt
  /\ UNCHANGED <<mainVars, sem, errChan, barVars, ctxVars, done, stateVars>>

\* Download: decrypt, decompress, tfd.WriteAt.  None of them is retried.
ApplyChunk(o) ==
  /\ \/ Goto(o, "apply", "progress") /\ done' = done \cup {o}
     \/ /\ Goto(o, "apply", "fail")
        /\ o \in Faulty \/ result # "none"
        /\ UNCHANGED done
  /\ UNCHANGED <<mainVars, attempt, sem, errChan, barVars, ctxVars, stateVars>>

\* Mutation: a full chunk is reported for the last one too.
ReportWholeChunk(o) ==
  /\ Goto(o, "progress", "complete")
  /\ \/ /\ Len(progressChan) < Batch + 1
        /\ progressChan' = Append(progressChan, ChunkSize)
     \/ ctxDone /\ UNCHANGED progressChan
  /\ UNCHANGED <<mainVars, attempt, sem, errChan, bar, sent, ctxVars, done,
                 stateVars>>

\* progressChan <- size, unless the context is cancelled.
ReportProgress(o) ==
  /\ Goto(o, "progress", "complete")
  /\ \/ /\ Len(progressChan) < Batch + 1
        /\ progressChan' = Append(progressChan, Size(o))
     \/ ctxDone /\ UNCHANGED progressChan
  /\ UNCHANGED <<mainVars, attempt, sem, errChan, bar, sent, ctxVars, done,
                 stateVars>>

\* Mutation: the threshold is tested before the offset is appended.
AddCompletedLate(o) ==
  /\ Goto(o, "complete",
          IF Resuming /\ pending > Batch THEN "save" ELSE "release")
  /\ completed' = IF Resuming THEN completed \cup {o} ELSE completed
  /\ pending' = IF Resuming THEN pending + 1 ELSE pending
  /\ UNCHANGED <<mainVars, attempt, sem, errChan, barVars, ctxVars, done,
                 fileVars>>

\* addCompletedOffset up to s.mu.Unlock(): nothing for a nil state.  pending
\* is appended to and never cleared.
AddCompletedOffset(o) ==
  /\ Goto(o, "complete",
          IF Resuming /\ pending + 1 >= Batch THEN "save" ELSE "release")
  /\ completed' = IF Resuming THEN completed \cup {o} ELSE completed
  /\ pending' = IF Resuming THEN pending + 1 ELSE pending
  /\ UNCHANGED <<mainVars, attempt, sem, errChan, barVars, ctxVars, done,
                 fileVars>>

\* Mutation: everything dispatched so far is recorded as completed.
SaveDispatched(o) ==
  /\ Goto(o, "save", "release")
  /\ disk' = {p \in Offsets : p < offset}
  /\ UNCHANGED <<mainVars, attempt, sem, errChan, barVars, ctxVars, done,
                 completed, pending, saveLost>>

\* addCompletedOffset reached the threshold: saveResumeState, errors logged.
SaveCompleted(o) ==
  /\ Goto(o, "save", "release")
  /\ SaveResumeState
  /\ UNCHANGED <<mainVars, attempt, sem, errChan, barVars, ctxVars, done,
                 completed, pending>>

\* Mutation: the error of a failed chunk is not sent.
FailSilently(o) ==
  /\ Goto(o, "fail", "release")
  /\ UNCHANGED <<mainVars, attempt, sem, errChan, barVars, ctxVars, done,
                 stateVars>>

\* Mutation: the send has no ctx.Done() alternative.
FailBlocking(o) ==
  /\ Goto(o, "fail", "release")
  /\ Cardinality(errChan) < Batch
  /\ errChan' = errChan \cup {o}
  /\ UNCHANGED <<mainVars, attempt, sem, barVars, ctxVars, done, stateVars>>

\* fn returned an error: errChan <- err, or drop it once ctx is done.  The
\* channel holds batch errors; the send blocks when it is full.
Fail(o) ==
  /\ Goto(o, "fail", "release")
  /\ \/ Cardinality(errChan) < Batch /\ errChan' = errChan \cup {o}
     \/ ctxDone /\ UNCHANGED errChan
  /\ UNCHANGED <<mainVars, attempt, sem, barVars, ctxVars, done, stateVars>>

\* The deferred <-sem and wg.Done().
Release(o) ==
  /\ Goto(o, "release", "exit")
  /\ sem' = sem \ {o}
  /\ UNCHANGED <<mainVars, attempt, errChan, barVars, ctxVars, done, stateVars>>

Chunk(o) ==
  \/ AcquireSem(o) \/ GiveUpSem(o) \/ ReadChunk(o) \/ Try(o)
  \/ RpcOK(o) \/ RpcFailed(o) \/ RpcLost(o) \/ Backoff(o) \/ ApplyChunk(o)
  \/ ReportProgress(o) \/ AddCompletedOffset(o) \/ SaveCompleted(o)
  \/ Fail(o) \/ Release(o)

-----------------------------------------------------------------------------
(* The reader of progressChan, and the parent context                      *)

\* progressbar.Progress counts and returns at the total; drainProgress
\* discards for ever.
BarReceive ==
  /\ bar = "run"
  /\ progressChan # <<>>
  /\ progressChan' = Tail(progressChan)
  /\ sent' = IF Quiet THEN sent ELSE sent + Head(progressChan)
  /\ bar' = IF ~Quiet /\ sent' = FileSize THEN "stopped" ELSE "run"
  /\ UNCHANGED <<mainVars, pc, attempt, sem, errChan, ctxVars, done, stateVars>>

BarCancelled ==
  /\ bar = "run" /\ ctxDone
  /\ bar' = "stopped"
  /\ UNCHANGED <<mainVars, pc, attempt, sem, errChan, progressChan, sent,
                 ctxVars, done, stateVars>>

Bar == BarReceive \/ BarCancelled

\* signal.NotifyContext cancels the parent while processChunks runs.
Interrupt ==
  /\ Interruptible /\ ~interrupted /\ result = "none"
  /\ interrupted' = TRUE /\ ctxDone' = TRUE
  /\ UNCHANGED <<mainVars, pc, attempt, sem, errChan, barVars, done, stateVars>>

Next == Main \/ (\E o \in Offsets : Chunk(o)) \/ Bar \/ Interrupt

Spec == Init /\ [][Next]_vars

\* The Go scheduler runs every goroutine that can take a step, a timer fires,
\* and an RPC is answered unless it is lost.  Nobody has to press Ctrl-C.
Fairness ==
  /\ WF_vars(Main) /\ WF_vars(Bar)
  /\ \A o \in Offsets : WF_vars(Chunk(o))

FairSpec == Spec /\ Fairness

-----------------------------------------------------------------------------
(* Correctness                                                             *)

\* Types, and the capacities of the two buffered channels.
TypeOK ==
  /\ mpc \in {"loop", "skip", "check", "done"}
  /\ offset \in Offsets \cup {FileSize}
  /\ result \in {"none", "nil", "err"}
  /\ pc \in [Offsets -> ChunkPC]
  /\ attempt \in [Offsets -> 0 .. MaxRetries]
  /\ sem \subseteq Offsets
  /\ errChan \subseteq Offsets /\ Cardinality(errChan) <= Batch
  /\ progressChan \in Seq(Nat) /\ Len(progressChan) <= Batch + 1
  /\ bar \in {"run", "stopped"} /\ sent \in Nat
  /\ ctxDone \in BOOLEAN /\ interrupted \in BOOLEAN
  /\ done \subseteq Offsets /\ completed \subseteq Offsets
  /\ pending \in Nat /\ disk \subseteq Offsets
  /\ saveLost \in BOOLEAN

\* --batch is the "max concurrent chunk transfers": never more than Batch
\* goroutines are inside fn, and exactly those hold a token of sem.
SemBound ==
  /\ sem = {o \in Offsets : pc[o] \in Holding}
  /\ Cardinality(sem) <= Batch

\* When processChunks returns nil and nobody interrupted it, the receiver
\* has confirmed every chunk: no error of any goroutine was lost between fn,
\* errChan and the two places that read it.
NilMeansComplete == result = "nil" /\ ~interrupted => done = Offsets

\* When processChunks returns nil no goroutine is left that could still write
\* the file: the hash verification that follows sees the final content.
QuietAfterSuccess ==
  result = "nil" => \A o \in Offsets : pc[o] \in {"none", "exit"}

\* The state file never lists a chunk that the receiver has not confirmed: a
\* later run that skips it loses nothing.
SavedIsConfirmed == disk \subseteq done

\* The confirmed chunks that the state file does not list are fewer than two
\* batches, those included that a goroutine still has to record or save: this
\* is what a crash at this instant loses, as long as every save has succeeded.
ConfirmedSurvives == ~saveLost => Cardinality(done \ disk) < 2 * Batch

\* The bytes of the chunks in S.
Bytes(S) == {b \in 0 .. FileSize - 1 : \E o \in S : o <= b /\ b < o + Size(o)}

\* The progress bar never shows more bytes than the receiver has confirmed,
\* the short last chunk and the skipped chunks of a resumed run included.
BarHonest == sent <= Cardinality(Bytes(done))

\* A call of the client does not return.
Unanswered == \E o \in Offsets : pc[o] \in {"lost", "stuck"}

\* The loop skips a chunk, the channel is full and its reader has stopped.
SkipBlocked ==
  mpc = "skip" /\ Len(progressChan) = Batch + 1 /\ bar = "stopped"

\* processChunks returns, interrupted or not and whatever the order of failures
\* and cancellation, if no more chunks fail than errChan has room for.  There
\* are two excuses: a call that stays unanswered, and a resumed transfer
\* that is interrupted while it skips more chunks than progressChan holds.
Returns ==
  Cardinality(Faulty) <= Batch =>
    <>(result # "none") \/ <>[]Unanswered \/ <>[]SkipBlocked

\* The first error of any goroutine ends the transfer: it is returned, and
\* every goroutine that is still in flight gives up.
FirstErrorCancels ==
  \A o \in Offsets : pc[o] = "fail" ~> (ctxDone /\ result # "none")
=============================================================================
