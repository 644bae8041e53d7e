------------------------ MODULE ProcessChunksProofs ------------------------
(***************************************************************************)
(* Proofs about ProcessChunks for every file size, chunk size, batch,      *)
(* retry count, set of faulty chunks and resume state.                     *)
(***************************************************************************)
EXTENDS ProcessChunks, FiniteSetTheorems, TLAPS

USE DEF mainVars, barVars, ctxVars, fileVars, stateVars

-----------------------------------------------------------------------------
(* The arithmetic of the dispatch loop                                     *)

\* Multiplication by a natural is monotonic.
LEMMA MultMonotonic ==
  ASSUME NEW c \in Nat, NEW i \in Nat, NEW j \in Nat, i <= j
  PROVE  i * c <= j * c
PROOF
  <1>1. PICK d \in Nat : j = i + d
    <2>1. j - i \in Nat /\ j = i + (j - i)
      OBVIOUS
    <2> QED BY <2>1
  <1>2. d * c \in Nat
    OBVIOUS
  <1>3. j * c = i * c + d * c
    BY <1>1
  <1> QED BY <1>2, <1>3

\* The chunks are a finite set.
LEMMA OffsetsFinite == IsFiniteSet(Offsets)
PROOF
  <1>1. IsFiniteSet(0 .. FileSize - 1)
    BY FS_Interval, ChunksAssumption
  <1> QED BY <1>1, FS_Subset DEF Offsets

\* offset + size, the loop's step: it lands on the next chunk or on the end
\* of the file, and skips no chunk.
LEMMA OffsetStep ==
  ASSUME NEW o \in Offsets
  PROVE  /\ o \in Nat /\ o < FileSize
         /\ Size(o) \in Nat \ {0}
         /\ o + Size(o) \in Offsets \cup {FileSize}
         /\ \A p \in Offsets : p < o + Size(o) => p <= o
PROOF
  <1> USE ChunksAssumption
  <1>1. o \in Nat /\ o < FileSize
    BY DEF Offsets
  <1>2. PICK k \in 0 .. o : o = k * ChunkSize
    BY DEF Offsets
  <1>3. Size(o) \in Nat \ {0}
    BY <1>1 DEF Size
  <1>4. o + ChunkSize = (k + 1) * ChunkSize /\ k + 1 \in 0 .. o + ChunkSize
    BY <1>1, <1>2
  <1>5. o + Size(o) \in Offsets \cup {FileSize}
    <2>1. CASE FileSize - o < ChunkSize
      BY <1>1, <2>1 DEF Size
    <2>2. CASE o + ChunkSize = FileSize
      BY <1>1, <2>2 DEF Size
    <2>3. CASE o + ChunkSize < FileSize
      <3>1. Size(o) = ChunkSize
        BY <1>1, <2>3 DEF Size
      <3>2. o + ChunkSize \in 0 .. FileSize - 1
        BY <1>1, <2>3
      <3>3. \E i \in 0 .. o + ChunkSize : o + ChunkSize = i * ChunkSize
        BY <1>4
      <3> QED BY <3>1, <3>2, <3>3 DEF Offsets
    <2> QED BY <1>1, <2>1, <2>2, <2>3
  <1>6. ASSUME NEW p \in Offsets, p < o + Size(o)
        PROVE  p <= o
    <2>1. PICK j \in 0 .. p : p = j * ChunkSize
      BY DEF Offsets
    <2>2. p \in Nat /\ p < (k + 1) * ChunkSize
      BY <1>1, <1>4, <1>6 DEF Size, Offsets
    <2>3. ~(k + 1 <= j)
      BY <2>1, <2>2, MultMonotonic
    <2>4. j <= k
      BY <2>3, <1>1, <2>2
    <2> QED BY <2>1, <2>4, <1>1, <1>2, <2>2, MultMonotonic
  <1> QED BY <1>1, <1>3, <1>5, <1>6

-----------------------------------------------------------------------------
(* The inductive invariant                                                 *)

\* Where the dispatch loop is: past the loop everything is dispatched, and
\* past wg.Wait every goroutine has ended.
LoopInv ==
  /\ mpc = "skip" => offset \in completed
  /\ mpc = "check" \/ result = "nil"
       => offset = FileSize /\ \A o \in Offsets : pc[o] \in {"none", "exit"}
  /\ mpc = "done" <=> result # "none"
  /\ ctxDone => interrupted \/ result # "none"

\* What the place of a goroutine says about its chunk: one that ended without
\* confirming it has left an error, or was cancelled.
ChunkInv ==
  \A o \in Offsets :
    /\ pc[o] # "none" => o < offset
    /\ pc[o] = "none" /\ o < offset => o \in done
    /\ pc[o] = "backoff" => attempt[o] < MaxRetries
    /\ pc[o] \in {"progress", "complete", "save"} => o \in done
    /\ pc[o] \in {"release", "exit"} => o \in done \/ o \in errChan \/ ctxDone

\* The state file lags completedSet, which lags the receiver.
SaveInv == disk \subseteq completed /\ completed \subseteq done

IInv ==
  TypeOK /\ SemBound /\ LoopInv /\ ChunkInv /\ SaveInv /\ NilMeansComplete

\* Every step keeps LoopInv.
LEMMA LoopStep == IInv /\ [Next]_vars => LoopInv'
PROOF
  <1> SUFFICES ASSUME IInv, [Next]_vars PROVE LoopInv'
    OBVIOUS
  <1> USE ChunksAssumption DEF IInv, LoopInv, TypeOK, ChunkPC
  <1>1. CASE LoopErr
    BY <1>1 DEF LoopErr
  <1>2. CASE Spawn
    BY <1>2 DEF Spawn
  <1>3. CASE LoopSkip
    BY <1>3 DEF LoopSkip
  <1>4. CASE SkipSend
    BY <1>4 DEF SkipSend
  <1>5. CASE WaitAndFlush
    BY <1>5 DEF WaitAndFlush, SaveResumeState
  <1>6. CASE Return
    BY <1>6 DEF Return
  <1>7. CASE BarReceive
    BY <1>7 DEF BarReceive
  <1>8. CASE BarCancelled
    BY <1>8 DEF BarCancelled
  <1>9. CASE Interrupt
    BY <1>9 DEF Interrupt
  <1>10. CASE UNCHANGED vars
    BY <1>10 DEF vars
  <1>11. ASSUME NEW o \in Offsets, AcquireSem(o) PROVE LoopInv'
    BY <1>11 DEF AcquireSem, Goto
  <1>12. ASSUME NEW o \in Offsets, GiveUpSem(o) PROVE LoopInv'
    BY <1>12 DEF GiveUpSem, Goto
  <1>13. ASSUME NEW o \in Offsets, ReadChunk(o) PROVE LoopInv'
    BY <1>13 DEF ReadChunk, Goto
  <1>14. ASSUME NEW o \in Offsets, Try(o) PROVE LoopInv'
    BY <1>14 DEF Try, Goto
  <1>15. ASSUME NEW o \in Offsets, RpcOK(o) PROVE LoopInv'
    BY <1>15 DEF RpcOK, Goto
  <1>16. ASSUME NEW o \in Offsets, RpcFailed(o) PROVE LoopInv'
    BY <1>16 DEF RpcFailed, Goto
  <1>17. ASSUME NEW o \in Offsets, Backoff(o) PROVE LoopInv'
    BY <1>17 DEF Backoff, Goto
  <1>18. ASSUME NEW o \in Offsets, ApplyChunk(o) PROVE LoopInv'
    BY <1>18 DEF ApplyChunk, Goto
  <1>19. ASSUME NEW o \in Offsets, ReportProgress(o) PROVE LoopInv'
    BY <1>19 DEF ReportProgress, Goto
  <1>20. ASSUME NEW o \in Offsets, AddCompletedOffset(o) PROVE LoopInv'
    BY <1>20 DEF AddCompletedOffset, Goto
  <1>21. ASSUME NEW o \in Offsets, SaveCompleted(o) PROVE LoopInv'
    BY <1>21 DEF SaveCompleted, Goto, SaveResumeState
  <1>22. ASSUME NEW o \in Offsets, Fail(o) PROVE LoopInv'
    BY <1>22 DEF Fail, Goto
  <1>23. ASSUME NEW o \in Offsets, Release(o) PROVE LoopInv'
    BY <1>23 DEF Release, Goto
  <1>24. ASSUME NEW o \in Offsets, RpcLost(o) PROVE LoopInv'
    BY <1>24 DEF RpcLost, Goto
  <1> QED
    BY <1>1, <1>2, <1>3, <1>4, <1>5, <1>6, <1>7, <1>8, <1>9, <1>10, <1>11,
       <1>12, <1>13, <1>14, <1>15, <1>16, <1>17, <1>18, <1>19, <1>20, <1>21,
       <1>22, <1>23, <1>24 DEF Next, Main, Chunk, Bar

\* Every step keeps ChunkInv.
LEMMA ChunkStep == IInv /\ [Next]_vars => ChunkInv'
PROOF
  <1> SUFFICES ASSUME IInv, [Next]_vars PROVE ChunkInv'
    OBVIOUS
  <1> USE ChunksAssumption DEF IInv, ChunkInv, TypeOK, SaveInv, LoopInv, ChunkPC
  <1>1. CASE LoopErr
    BY <1>1 DEF LoopErr
  <1>2. CASE Spawn
    <2>1. offset \in Offsets
      BY <1>2 DEF Spawn
    <2>2. offset' = offset + Size(offset) /\ offset < offset'
      BY <1>2, <2>1, OffsetStep DEF Spawn
    <2>3. \A p \in Offsets : p \in Nat /\ (p < offset' => p <= offset)
      BY <2>1, <2>2, OffsetStep
    <2> QED BY <1>2, <2>1, <2>2, <2>3 DEF Spawn
  <1>3. CASE LoopSkip
    BY <1>3 DEF LoopSkip
  <1>4. CASE SkipSend
    <2>1. offset \in Offsets /\ offset \in done
      BY <1>4 DEF SkipSend
    <2>2. offset' = offset + Size(offset) /\ offset < offset'
      BY <1>4, <2>1, OffsetStep DEF SkipSend
    <2>3. \A p \in Offsets : p \in Nat /\ (p < offset' => p <= offset)
      BY <2>1, <2>2, OffsetStep
    <2> QED BY <1>4, <2>1, <2>2, <2>3 DEF SkipSend
  <1>5. CASE WaitAndFlush
    BY <1>5 DEF WaitAndFlush, SaveResumeState
  <1>6. CASE Return
    BY <1>6 DEF Return
  <1>7. CASE BarReceive
    BY <1>7 DEF BarReceive
  <1>8. CASE BarCancelled
    BY <1>8 DEF BarCancelled
  <1>9. CASE Interrupt
    BY <1>9 DEF Interrupt
  <1>10. CASE UNCHANGED vars
    BY <1>10 DEF vars
  <1>11. ASSUME NEW o \in Offsets, AcquireSem(o) PROVE ChunkInv'
    BY <1>11 DEF AcquireSem, Goto
  <1>12. ASSUME NEW o \in Offsets, GiveUpSem(o) PROVE ChunkInv'
    BY <1>12 DEF GiveUpSem, Goto
  <1>13. ASSUME NEW o \in Offsets, ReadChunk(o) PROVE ChunkInv'
    BY <1>13 DEF ReadChunk, Goto
  <1>14. ASSUME NEW o \in Offsets, Try(o) PROVE ChunkInv'
    BY <1>14 DEF Try, Goto
  <1>15. ASSUME NEW o \in Offsets, RpcOK(o) PROVE ChunkInv'
    BY <1>15 DEF RpcOK, Goto
  <1>16. ASSUME NEW o \in Offsets, RpcFailed(o) PROVE ChunkInv'
    BY <1>16 DEF RpcFailed, Goto
  <1>17. ASSUME NEW o \in Offsets, Backoff(o) PROVE ChunkInv'
    BY <1>17 DEF Backoff, Goto
  <1>18. ASSUME NEW o \in Offsets, ApplyChunk(o) PROVE ChunkInv'
    BY <1>18 DEF ApplyChunk, Goto
  <1>19. ASSUME NEW o \in Offsets, ReportProgress(o) PROVE ChunkInv'
    BY <1>19 DEF ReportProgress, Goto
  <1>20. ASSUME NEW o \in Offsets, AddCompletedOffset(o) PROVE ChunkInv'
    BY <1>20 DEF AddCompletedOffset, Goto
  <1>21. ASSUME NEW o \in Offsets, SaveCompleted(o) PROVE ChunkInv'
    BY <1>21 DEF SaveCompleted, Goto, SaveResumeState
  <1>22. ASSUME NEW o \in Offsets, Fail(o) PROVE ChunkInv'
    BY <1>22 DEF Fail, Goto
  <1>23. ASSUME NEW o \in Offsets, Release(o) PROVE ChunkInv'
    BY <1>23 DEF Release, Goto
  <1>24. ASSUME NEW o \in Offsets, RpcLost(o) PROVE ChunkInv'
    BY <1>24 DEF RpcLost, Goto
  <1> QED
    BY <1>1, <1>2, <1>3, <1>4, <1>5, <1>6, <1>7, <1>8, <1>9, <1>10, <1>11,
       <1>12, <1>13, <1>14, <1>15, <1>16, <1>17, <1>18, <1>19, <1>20, <1>21,
       <1>22, <1>23, <1>24 DEF Next, Main, Chunk, Bar

\* Every step keeps SaveInv.
LEMMA SaveStep == IInv /\ [Next]_vars => SaveInv'
PROOF
  <1> SUFFICES ASSUME IInv, [Next]_vars PROVE SaveInv'
    OBVIOUS
  <1> USE ChunksAssumption DEF IInv, SaveInv, TypeOK, ChunkInv
  <1>1. CASE LoopErr
    BY <1>1 DEF LoopErr
  <1>2. CASE Spawn
    BY <1>2 DEF Spawn
  <1>3. CASE LoopSkip
    BY <1>3 DEF LoopSkip
  <1>4. CASE SkipSend
    BY <1>4 DEF SkipSend
  <1>5. CASE WaitAndFlush
    BY <1>5 DEF WaitAndFlush, SaveResumeState
  <1>6. CASE Return
    BY <1>6 DEF Return
  <1>7. CASE BarReceive
    BY <1>7 DEF BarReceive
  <1>8. CASE BarCancelled
    BY <1>8 DEF BarCancelled
  <1>9. CASE Interrupt
    BY <1>9 DEF Interrupt
  <1>10. CASE UNCHANGED vars
    BY <1>10 DEF vars
  <1>11. ASSUME NEW o \in Offsets, AcquireSem(o) PROVE SaveInv'
    BY <1>11 DEF AcquireSem, Goto
  <1>12. ASSUME NEW o \in Offsets, GiveUpSem(o) PROVE SaveInv'
    BY <1>12 DEF GiveUpSem, Goto
  <1>13. ASSUME NEW o \in Offsets, ReadChunk(o) PROVE SaveInv'
    BY <1>13 DEF ReadChunk, Goto
  <1>14. ASSUME NEW o \in Offsets, Try(o) PROVE SaveInv'
    BY <1>14 DEF Try, Goto
  <1>15. ASSUME NEW o \in Offsets, RpcOK(o) PROVE SaveInv'
    BY <1>15 DEF RpcOK, Goto
  <1>16. ASSUME NEW o \in Offsets, RpcFailed(o) PROVE SaveInv'
    BY <1>16 DEF RpcFailed, Goto
  <1>17. ASSUME NEW o \in Offsets, Backoff(o) PROVE SaveInv'
    BY <1>17 DEF Backoff, Goto
  <1>18. ASSUME NEW o \in Offsets, ApplyChunk(o) PROVE SaveInv'
    BY <1>18 DEF ApplyChunk, Goto
  <1>19. ASSUME NEW o \in Offsets, ReportProgress(o) PROVE SaveInv'
    BY <1>19 DEF ReportProgress, Goto
  <1>20. ASSUME NEW o \in Offsets, AddCompletedOffset(o) PROVE SaveInv'
    BY <1>20 DEF AddCompletedOffset, Goto
  <1>21. ASSUME NEW o \in Offsets, SaveCompleted(o) PROVE SaveInv'
    BY <1>21 DEF SaveCompleted, Goto, SaveResumeState
  <1>22. ASSUME NEW o \in Offsets, Fail(o) PROVE SaveInv'
    BY <1>22 DEF Fail, Goto
  <1>23. ASSUME NEW o \in Offsets, Release(o) PROVE SaveInv'
    BY <1>23 DEF Release, Goto
  <1>24. ASSUME NEW o \in Offsets, RpcLost(o) PROVE SaveInv'
    BY <1>24 DEF RpcLost, Goto
  <1> QED
    BY <1>1, <1>2, <1>3, <1>4, <1>5, <1>6, <1>7, <1>8, <1>9, <1>10, <1>11,
       <1>12, <1>13, <1>14, <1>15, <1>16, <1>17, <1>18, <1>19, <1>20, <1>21,
       <1>22, <1>23, <1>24 DEF Next, Main, Chunk, Bar

\* Every step keeps NilMeansComplete.
LEMMA NilStep == IInv /\ [Next]_vars => NilMeansComplete'
PROOF
  <1> SUFFICES ASSUME IInv, [Next]_vars PROVE NilMeansComplete'
    OBVIOUS
  <1> USE ChunksAssumption DEF IInv, NilMeansComplete, TypeOK, LoopInv, ChunkInv
  <1>1. CASE LoopErr
    BY <1>1 DEF LoopErr
  <1>2. CASE Spawn
    BY <1>2 DEF Spawn
  <1>3. CASE LoopSkip
    BY <1>3 DEF LoopSkip
  <1>4. CASE SkipSend
    BY <1>4 DEF SkipSend
  <1>5. CASE WaitAndFlush
    BY <1>5 DEF WaitAndFlush, SaveResumeState
  <1>6. CASE Return
    <2>1. \A o \in Offsets : o < FileSize
      BY OffsetStep
    <2>2. mpc = "check" /\ result = "none" /\ done' = done
      BY <1>6 DEF Return
    <2>3. ASSUME errChan = {}, ~interrupted, NEW o \in Offsets
          PROVE  o \in done
      <3>1. ~ctxDone /\ o < offset /\ pc[o] \in {"none", "exit"}
        BY <2>1, <2>2, <2>3
      <3> QED BY <3>1, <2>3
    <2>4. errChan = {} /\ ~interrupted => done = Offsets
      BY <2>3
    <2> QED BY <1>6, <2>2, <2>4 DEF Return
  <1>7. CASE BarReceive
    BY <1>7 DEF BarReceive
  <1>8. CASE BarCancelled
    BY <1>8 DEF BarCancelled
  <1>9. CASE Interrupt
    BY <1>9 DEF Interrupt
  <1>10. CASE UNCHANGED vars
    BY <1>10 DEF vars
  <1>11. ASSUME NEW o \in Offsets, AcquireSem(o) PROVE NilMeansComplete'
    BY <1>11 DEF AcquireSem, Goto
  <1>12. ASSUME NEW o \in Offsets, GiveUpSem(o) PROVE NilMeansComplete'
    BY <1>12 DEF GiveUpSem, Goto
  <1>13. ASSUME NEW o \in Offsets, ReadChunk(o) PROVE NilMeansComplete'
    BY <1>13 DEF ReadChunk, Goto
  <1>14. ASSUME NEW o \in Offsets, Try(o) PROVE NilMeansComplete'
    BY <1>14 DEF Try, Goto
  <1>15. ASSUME NEW o \in Offsets, RpcOK(o) PROVE NilMeansComplete'
    BY <1>15 DEF RpcOK, Goto
  <1>16. ASSUME NEW o \in Offsets, RpcFailed(o) PROVE NilMeansComplete'
    BY <1>16 DEF RpcFailed, Goto
  <1>17. ASSUME NEW o \in Offsets, Backoff(o) PROVE NilMeansComplete'
    BY <1>17 DEF Backoff, Goto
  <1>18. ASSUME NEW o \in Offsets, ApplyChunk(o) PROVE NilMeansComplete'
    BY <1>18 DEF ApplyChunk, Goto
  <1>19. ASSUME NEW o \in Offsets, ReportProgress(o) PROVE NilMeansComplete'
    BY <1>19 DEF ReportProgress, Goto
  <1>20. ASSUME NEW o \in Offsets, AddCompletedOffset(o) PROVE NilMeansComplete'
    BY <1>20 DEF AddCompletedOffset, Goto
  <1>21. ASSUME NEW o \in Offsets, SaveCompleted(o) PROVE NilMeansComplete'
    BY <1>21 DEF SaveCompleted, Goto, SaveResumeState
  <1>22. ASSUME NEW o \in Offsets, Fail(o) PROVE NilMeansComplete'
    BY <1>22 DEF Fail, Goto
  <1>23. ASSUME NEW o \in Offsets, Release(o) PROVE NilMeansComplete'
    BY <1>23 DEF Release, Goto
  <1>24. ASSUME NEW o \in Offsets, RpcLost(o) PROVE NilMeansComplete'
    BY <1>24 DEF RpcLost, Goto
  <1> QED
    BY <1>1, <1>2, <1>3, <1>4, <1>5, <1>6, <1>7, <1>8, <1>9, <1>10, <1>11,
       <1>12, <1>13, <1>14, <1>15, <1>16, <1>17, <1>18, <1>19, <1>20, <1>21,
       <1>22, <1>23, <1>24 DEF Next, Main, Chunk, Bar

\* errChan loses or gains one error.
LEMMA ErrCardinality ==
  ASSUME TypeOK, NEW o \in Offsets
  PROVE  /\ Cardinality(errChan \ {o}) <= Batch
         /\ Cardinality(errChan) < Batch
              => Cardinality(errChan \cup {o}) <= Batch
PROOF
  <1>1. IsFiniteSet(errChan) /\ Cardinality(errChan) \in Nat
    BY OffsetsFinite, FS_Subset, FS_CardinalityType DEF TypeOK
  <1>2. Cardinality(errChan \ {o})
          \in {Cardinality(errChan), Cardinality(errChan) - 1}
    BY <1>1, FS_RemoveElement
  <1>3. Cardinality(errChan \cup {o})
          \in {Cardinality(errChan), Cardinality(errChan) + 1}
    BY <1>1, FS_AddElement
  <1> QED BY <1>1, <1>2, <1>3, ChunksAssumption DEF TypeOK

\* progressChan gains a byte count.
LEMMA ChanAppend ==
  ASSUME progressChan \in Seq(Nat), Len(progressChan) < Batch + 1, NEW n \in Nat
  PROVE  /\ Append(progressChan, n) \in Seq(Nat)
         /\ Len(Append(progressChan, n)) <= Batch + 1
PROOF
  BY ChunksAssumption

\* Every step keeps TypeOK.
LEMMA TypeStep == IInv /\ [Next]_vars => TypeOK'
PROOF
  <1> SUFFICES ASSUME IInv, [Next]_vars PROVE TypeOK'
    OBVIOUS
  <1> USE ChunksAssumption DEF IInv, TypeOK, ChunkPC
  <1>1. CASE LoopErr
    BY <1>1, ErrCardinality DEF LoopErr
  <1>2. CASE Spawn
    <2>1. offset \in Offsets
      BY <1>2 DEF Spawn, LoopInv
    <2>2. offset' \in Offsets \cup {FileSize} /\ Size(offset) \in Nat
      BY <1>2, <2>1, OffsetStep DEF Spawn
    <2> QED BY <1>2, <2>1, <2>2 DEF Spawn
  <1>3. CASE LoopSkip
    BY <1>3 DEF LoopSkip
  <1>4. CASE SkipSend
    <2>1. offset \in Offsets
      BY <1>4 DEF SkipSend, LoopInv
    <2>2. offset' \in Offsets \cup {FileSize} /\ Size(offset) \in Nat
      BY <1>4, <2>1, OffsetStep DEF SkipSend
    <2> QED BY <1>4, <2>1, <2>2, ChanAppend DEF SkipSend
  <1>5. CASE WaitAndFlush
    BY <1>5 DEF WaitAndFlush, SaveResumeState
  <1>6. CASE Return
    BY <1>6, ErrCardinality DEF Return
  <1>7. CASE BarReceive
    BY <1>7 DEF BarReceive
  <1>8. CASE BarCancelled
    BY <1>8 DEF BarCancelled
  <1>9. CASE Interrupt
    BY <1>9 DEF Interrupt
  <1>10. CASE UNCHANGED vars
    BY <1>10 DEF vars
  <1>11. ASSUME NEW o \in Offsets, AcquireSem(o) PROVE TypeOK'
    BY <1>11 DEF AcquireSem, Goto
  <1>12. ASSUME NEW o \in Offsets, GiveUpSem(o) PROVE TypeOK'
    BY <1>12 DEF GiveUpSem, Goto
  <1>13. ASSUME NEW o \in Offsets, ReadChunk(o) PROVE TypeOK'
    BY <1>13 DEF ReadChunk, Goto
  <1>14. ASSUME NEW o \in Offsets, Try(o) PROVE TypeOK'
    BY <1>14 DEF Try, Goto
  <1>15. ASSUME NEW o \in Offsets, RpcOK(o) PROVE TypeOK'
    BY <1>15 DEF RpcOK, Goto
  <1>16. ASSUME NEW o \in Offsets, RpcFailed(o) PROVE TypeOK'
    BY <1>16 DEF RpcFailed, Goto
  <1>17. ASSUME NEW o \in Offsets, Backoff(o) PROVE TypeOK'
    <2>1. attempt[o] \in 0 .. MaxRetries
      OBVIOUS
    <2>2. pc[o] = "backoff" /\ attempt[o] + 1 \in 0 .. MaxRetries
      BY <1>17, <2>1 DEF Backoff, Goto, ChunkInv
    <2>3. attempt' \in [Offsets -> 0 .. MaxRetries]
      BY <1>17, <2>2 DEF Backoff
    <2> QED BY <1>17, <2>3 DEF Backoff, Goto
  <1>18. ASSUME NEW o \in Offsets, ApplyChunk(o) PROVE TypeOK'
    BY <1>18 DEF ApplyChunk, Goto
  <1>19. ASSUME NEW o \in Offsets, ReportProgress(o) PROVE TypeOK'
    <2>1. Size(o) \in Nat
      BY OffsetStep
    <2> QED BY <1>19, <2>1, ChanAppend DEF ReportProgress, Goto
  <1>20. ASSUME NEW o \in Offsets, AddCompletedOffset(o) PROVE TypeOK'
    BY <1>20 DEF AddCompletedOffset, Goto
  <1>21. ASSUME NEW o \in Offsets, SaveCompleted(o) PROVE TypeOK'
    BY <1>21 DEF SaveCompleted, Goto, SaveResumeState
  <1>22. ASSUME NEW o \in Offsets, Fail(o) PROVE TypeOK'
    BY <1>22, ErrCardinality DEF Fail, Goto
  <1>23. ASSUME NEW o \in Offsets, Release(o) PROVE TypeOK'
    BY <1>23 DEF Release, Goto
  <1>24. ASSUME NEW o \in Offsets, RpcLost(o) PROVE TypeOK'
    BY <1>24 DEF RpcLost, Goto
  <1> QED
    BY <1>1, <1>2, <1>3, <1>4, <1>5, <1>6, <1>7, <1>8, <1>9, <1>10, <1>11,
       <1>12, <1>13, <1>14, <1>15, <1>16, <1>17, <1>18, <1>19, <1>20, <1>21,
       <1>22, <1>23, <1>24 DEF Next, Main, Chunk, Bar

\* sem gains or loses one token.
LEMMA SemCardinality ==
  ASSUME TypeOK, SemBound, NEW o \in Offsets
  PROVE  /\ Cardinality(sem \ {o}) <= Batch
         /\ Cardinality(sem) < Batch => Cardinality(sem \cup {o}) <= Batch
PROOF
  <1>1. IsFiniteSet(sem) /\ Cardinality(sem) \in Nat
    BY OffsetsFinite, FS_Subset, FS_CardinalityType DEF TypeOK
  <1>2. Cardinality(sem \ {o}) \in {Cardinality(sem), Cardinality(sem) - 1}
    BY <1>1, FS_RemoveElement
  <1>3. Cardinality(sem \cup {o}) \in {Cardinality(sem), Cardinality(sem) + 1}
    BY <1>1, FS_AddElement
  <1> QED BY <1>1, <1>2, <1>3, ChunksAssumption DEF SemBound

\* Every step keeps SemBound.
LEMMA SemStep == IInv /\ [Next]_vars => SemBound'
PROOF
  <1> SUFFICES ASSUME IInv, [Next]_vars PROVE SemBound'
    OBVIOUS
  <1> USE ChunksAssumption DEF IInv, SemBound, TypeOK, ChunkPC, Holding
  <1>1. CASE LoopErr
    BY <1>1 DEF LoopErr
  <1>2. CASE Spawn
    <2>1. offset \in Offsets /\ pc[offset] = "none"
      BY <1>2, OffsetStep DEF Spawn, ChunkInv
    <2> QED BY <1>2, <2>1 DEF Spawn
  <1>3. CASE LoopSkip
    BY <1>3 DEF LoopSkip
  <1>4. CASE SkipSend
    BY <1>4 DEF SkipSend
  <1>5. CASE WaitAndFlush
    BY <1>5 DEF WaitAndFlush, SaveResumeState
  <1>6. CASE Return
    BY <1>6 DEF Return
  <1>7. CASE BarReceive
    BY <1>7 DEF BarReceive
  <1>8. CASE BarCancelled
    BY <1>8 DEF BarCancelled
  <1>9. CASE Interrupt
    BY <1>9 DEF Interrupt
  <1>10. CASE UNCHANGED vars
    BY <1>10 DEF vars
  <1>11. ASSUME NEW o \in Offsets, AcquireSem(o) PROVE SemBound'
    BY <1>11, SemCardinality DEF AcquireSem, Goto
  <1>12. ASSUME NEW o \in Offsets, GiveUpSem(o) PROVE SemBound'
    BY <1>12 DEF GiveUpSem, Goto
  <1>13. ASSUME NEW o \in Offsets, ReadChunk(o) PROVE SemBound'
    BY <1>13 DEF ReadChunk, Goto
  <1>14. ASSUME NEW o \in Offsets, Try(o) PROVE SemBound'
    BY <1>14 DEF Try, Goto
  <1>15. ASSUME NEW o \in Offsets, RpcOK(o) PROVE SemBound'
    BY <1>15 DEF RpcOK, Goto
  <1>16. ASSUME NEW o \in Offsets, RpcFailed(o) PROVE SemBound'
    BY <1>16 DEF RpcFailed, Goto
  <1>17. ASSUME NEW o \in Offsets, Backoff(o) PROVE SemBound'
    BY <1>17 DEF Backoff, Goto
  <1>18. ASSUME NEW o \in Offsets, ApplyChunk(o) PROVE SemBound'
    BY <1>18 DEF ApplyChunk, Goto
  <1>19. ASSUME NEW o \in Offsets, ReportProgress(o) PROVE SemBound'
    BY <1>19 DEF ReportProgress, Goto
  <1>20. ASSUME NEW o \in Offsets, AddCompletedOffset(o) PROVE SemBound'
    BY <1>20 DEF AddCompletedOffset, Goto
  <1>21. ASSUME NEW o \in Offsets, SaveCompleted(o) PROVE SemBound'
    BY <1>21 DEF SaveCompleted, Goto, SaveResumeState
  <1>22. ASSUME NEW o \in Offsets, Fail(o) PROVE SemBound'
    BY <1>22 DEF Fail, Goto
  <1>23. ASSUME NEW o \in Offsets, Release(o) PROVE SemBound'
    BY <1>23, SemCardinality DEF Release, Goto
  <1>24. ASSUME NEW o \in Offsets, RpcLost(o) PROVE SemBound'
    BY <1>24 DEF RpcLost, Goto
  <1> QED
    BY <1>1, <1>2, <1>3, <1>4, <1>5, <1>6, <1>7, <1>8, <1>9, <1>10, <1>11,
       <1>12, <1>13, <1>14, <1>15, <1>16, <1>17, <1>18, <1>19, <1>20, <1>21,
       <1>22, <1>23, <1>24 DEF Next, Main, Chunk, Bar

-----------------------------------------------------------------------------
(* The theorems                                                            *)

\* The inductive invariant holds of every behaviour of processChunks.
THEOREM InvariantHolds == Spec => []IInv
PROOF
  <1>1. Init => IInv
    <2> SUFFICES ASSUME Init PROVE IInv
      OBVIOUS
    <2> USE ChunksAssumption DEF Init
    <2>1. \A o \in Offsets : o \in Nat /\ 0 <= o /\ 0 < FileSize
      BY OffsetStep
    <2>2. 0 \in Offsets \cup {FileSize}
      BY DEF Offsets
    <2>3. Cardinality({}) = 0
      BY FS_EmptySet
    <2>4. TypeOK
      <3>1. progressChan \in Seq(Nat) /\ Len(progressChan) <= Batch + 1
        OBVIOUS
      <3>2. completed \subseteq Offsets
        OBVIOUS
      <3>3. /\ pc \in [Offsets -> ChunkPC]
            /\ attempt \in [Offsets -> 0 .. MaxRetries]
        BY DEF ChunkPC
      <3>4. Cardinality(errChan) <= Batch
        BY <2>3
      <3> QED BY <2>2, <3>1, <3>2, <3>3, <3>4 DEF TypeOK
    <2>5. SemBound
      BY <2>3 DEF SemBound, Holding, ChunkPC
    <2> QED BY <2>1, <2>4, <2>5
            DEF IInv, LoopInv, ChunkInv, SaveInv, NilMeansComplete
  <1>2. IInv /\ [Next]_vars => IInv'
    BY TypeStep, SemStep, LoopStep, ChunkStep, SaveStep, NilStep DEF IInv
  <1> QED BY <1>1, <1>2, PTL DEF Spec

\* Type correctness, the capacities of errChan and progressChan included.
THEOREM TypeCorrect == Spec => []TypeOK
PROOF
  BY InvariantHolds, PTL DEF IInv

\* --batch bounds the goroutines inside fn, and tokens and holders agree.
THEOREM SemaphoreBound == Spec => []SemBound
PROOF
  BY InvariantHolds, PTL DEF IInv

\* A nil result of an uninterrupted processChunks means a complete file: no
\* error is lost on the way from a goroutine to the caller.
THEOREM NoErrorIsLost == Spec => []NilMeansComplete
PROOF
  BY InvariantHolds, PTL DEF IInv

\* A nil result leaves no goroutine behind, interrupted or not.
THEOREM NothingInFlight == Spec => []QuietAfterSuccess
PROOF
  <1>1. IInv => QuietAfterSuccess
    BY DEF IInv, LoopInv, QuietAfterSuccess
  <1> QED BY <1>1, InvariantHolds, PTL

\* A crash at any point leaves a state file that lists only chunks which the
\* receiver has confirmed, whichever saves failed.
THEOREM CrashSafe == Spec => []SavedIsConfirmed
PROOF
  <1>1. IInv => SavedIsConfirmed
    BY DEF IInv, SaveInv, SavedIsConfirmed
  <1> QED BY <1>1, InvariantHolds, PTL

-----------------------------------------------------------------------------
(* What a crash can lose                                                   *)

\* The recorded chunks that the state file does not list and that nobody is
\* about to save.
Unsaved == {o \in completed \ disk : pc[o] # "save"}

\* Between its confirmation and its record a chunk has a goroutine.  A record
\* that is not followed by a save is one of the first Batch - 1.
KeepInv ==
  /\ \A o \in done \ completed : pc[o] \in {"progress", "complete"}
  /\ ~saveLost => Cardinality(Unsaved) <= pending /\ Cardinality(Unsaved) < Batch

\* A step that records and saves nothing.
LEMMA KeepQuiet ==
  ASSUME TypeOK, KeepInv,
         UNCHANGED <<completed, pending, disk, saveLost>>,
         \A o \in Offsets : pc'[o] = "save" <=> pc[o] = "save",
         \A o \in done' \ completed : pc'[o] \in {"progress", "complete"}
  PROVE  KeepInv'
PROOF
  <1>1. completed \subseteq Offsets
    BY DEF TypeOK
  <1>2. Unsaved' = Unsaved
    BY <1>1 DEF Unsaved
  <1>3. pending' = pending /\ saveLost' = saveLost /\ completed' = completed
    OBVIOUS
  <1> QED BY <1>2, <1>3 DEF KeepInv

\* A save, whether it succeeds or not.
LEMMA KeepSave ==
  ASSUME TypeOK, KeepInv, SaveResumeState, UNCHANGED <<done, completed, pending>>,
         \A o \in done \ completed : pc'[o] = pc[o]
  PROVE  KeepInv'
PROOF
  <1>1. \A o \in done' \ completed' : pc'[o] \in {"progress", "complete"}
    BY DEF KeepInv
  <1>2. CASE disk' = completed
    <2>1. Unsaved' = {}
      BY <1>2 DEF Unsaved
    <2>2. Cardinality(Unsaved') = 0
      BY <2>1, FS_EmptySet
    <2>3. pending' \in Nat /\ Batch \in Nat \ {0}
      BY ChunksAssumption DEF TypeOK
    <2>4. Cardinality(Unsaved') <= pending' /\ Cardinality(Unsaved') < Batch
      BY <2>2, <2>3
    <2> QED BY <1>1, <2>4 DEF KeepInv
  <1>3. CASE saveLost' = TRUE
    BY <1>1, <1>3 DEF KeepInv
  <1> QED BY <1>2, <1>3 DEF SaveResumeState

\* addCompletedOffset: below the threshold pending bounds the records.
LEMMA KeepAdd ==
  ASSUME Resuming, TypeOK, KeepInv, NEW o \in Offsets, AddCompletedOffset(o)
  PROVE  KeepInv'
PROOF
  <1>1. /\ pc[o] = "complete" /\ completed' = completed \cup {o}
        /\ pending' = pending + 1 /\ done' = done /\ disk' = disk
        /\ saveLost' = saveLost
        /\ pc' = [pc EXCEPT ![o] = IF pending + 1 >= Batch THEN "save"
                                                         ELSE "release"]
    BY DEF AddCompletedOffset, Goto
  <1>2. /\ pc \in [Offsets -> ChunkPC] /\ done \subseteq Offsets
        /\ completed \subseteq Offsets /\ pending \in Nat
        /\ Batch \in Nat \ {0}
    BY ChunksAssumption DEF TypeOK
  <1>3. \A p \in Offsets \ {o} : pc'[p] = pc[p]
    BY <1>1, <1>2
  <1>4. \A p \in done' \ completed' : pc'[p] \in {"progress", "complete"}
    BY <1>1, <1>2, <1>3 DEF KeepInv
  <1>5. Unsaved \subseteq Offsets /\ IsFiniteSet(Unsaved)
    BY <1>2, OffsetsFinite, FS_Subset DEF Unsaved
  <1>6. Cardinality(Unsaved) \in Nat
    BY <1>5, FS_CardinalityType
  <1>7. CASE pending + 1 >= Batch
    <2>1. pc'[o] = "save"
      BY <1>1, <1>2, <1>7
    <2>2. Unsaved' \subseteq Unsaved
      BY <1>1, <1>2, <1>3, <2>1 DEF Unsaved
    <2>3. Cardinality(Unsaved') <= Cardinality(Unsaved)
          /\ Cardinality(Unsaved') \in Nat
      BY <1>5, <2>2, FS_Subset, FS_CardinalityType
    <2>4. ~saveLost' => /\ Cardinality(Unsaved') <= pending'
                        /\ Cardinality(Unsaved') < Batch
      BY <1>1, <1>2, <1>6, <2>3 DEF KeepInv
    <2> QED BY <1>4, <2>4 DEF KeepInv
  <1>8. CASE ~(pending + 1 >= Batch)
    <2>1. Unsaved' \subseteq Unsaved \cup {o}
      BY <1>1, <1>2, <1>3 DEF Unsaved
    <2>2. /\ IsFiniteSet(Unsaved \cup {o})
          /\ Cardinality(Unsaved \cup {o}) <= Cardinality(Unsaved) + 1
          /\ Cardinality(Unsaved \cup {o}) \in Nat
      <3>1. /\ IsFiniteSet(Unsaved \cup {o})
            /\ Cardinality(Unsaved \cup {o})
                 \in {Cardinality(Unsaved), Cardinality(Unsaved) + 1}
        BY <1>5, FS_AddElement
      <3> QED BY <1>6, <3>1
    <2>3. /\ Cardinality(Unsaved') <= Cardinality(Unsaved \cup {o})
          /\ Cardinality(Unsaved') \in Nat
      BY <2>1, <2>2, FS_Subset, FS_CardinalityType
    <2>4. ~saveLost' => /\ Cardinality(Unsaved') <= pending'
                        /\ Cardinality(Unsaved') < Batch
      BY <1>1, <1>2, <1>6, <1>8, <2>2, <2>3 DEF KeepInv
    <2> QED BY <1>4, <2>4 DEF KeepInv
  <1> QED BY <1>7, <1>8

\* Every step keeps KeepInv.
LEMMA KeepStep ==
  ASSUME Resuming, IInv, KeepInv, [Next]_vars
  PROVE  KeepInv'
PROOF
  <1>0. TypeOK /\ pc \in [Offsets -> ChunkPC] /\ done \subseteq Offsets
    BY DEF IInv, TypeOK
  <1> USE DEF KeepInv
  <1>1. CASE LoopErr
    BY <1>0, <1>1, KeepQuiet DEF LoopErr
  <1>2. CASE Spawn
    <2>1. offset \in Offsets /\ pc[offset] = "none"
      BY <1>2, OffsetStep, ChunksAssumption
         DEF Spawn, IInv, ChunkInv, TypeOK, ChunkPC
    <2> QED BY <1>0, <1>2, <2>1, KeepQuiet DEF Spawn
  <1>3. CASE LoopSkip
    BY <1>0, <1>3, KeepQuiet DEF LoopSkip
  <1>4. CASE SkipSend
    BY <1>0, <1>4, KeepQuiet DEF SkipSend
  <1>5. CASE Return
    BY <1>0, <1>5, KeepQuiet DEF Return
  <1>6. CASE BarReceive
    BY <1>0, <1>6, KeepQuiet DEF BarReceive
  <1>7. CASE BarCancelled
    BY <1>0, <1>7, KeepQuiet DEF BarCancelled
  <1>8. CASE Interrupt
    BY <1>0, <1>8, KeepQuiet DEF Interrupt
  <1>9. CASE UNCHANGED vars
    BY <1>0, <1>9, KeepQuiet DEF vars
  <1>10. CASE WaitAndFlush
    <2>1. CASE pending > 0
      BY <1>0, <1>10, <2>1, KeepSave DEF WaitAndFlush
    <2>2. CASE ~(pending > 0)
      BY <1>0, <1>10, <2>2, KeepQuiet DEF WaitAndFlush
    <2> QED BY <2>1, <2>2
  <1>11. ASSUME NEW o \in Offsets, AcquireSem(o) PROVE KeepInv'
    BY <1>0, <1>11, KeepQuiet DEF AcquireSem, Goto
  <1>12. ASSUME NEW o \in Offsets, GiveUpSem(o) PROVE KeepInv'
    BY <1>0, <1>12, KeepQuiet DEF GiveUpSem, Goto
  <1>13. ASSUME NEW o \in Offsets, ReadChunk(o) PROVE KeepInv'
    BY <1>0, <1>13, KeepQuiet DEF ReadChunk, Goto
  <1>14. ASSUME NEW o \in Offsets, Try(o) PROVE KeepInv'
    BY <1>0, <1>14, KeepQuiet DEF Try, Goto
  <1>15. ASSUME NEW o \in Offsets, RpcOK(o) PROVE KeepInv'
    BY <1>0, <1>15, KeepQuiet DEF RpcOK, Goto
  <1>16. ASSUME NEW o \in Offsets, RpcFailed(o) PROVE KeepInv'
    BY <1>0, <1>16, KeepQuiet DEF RpcFailed, Goto
  <1>17. ASSUME NEW o \in Offsets, Backoff(o) PROVE KeepInv'
    BY <1>0, <1>17, KeepQuiet DEF Backoff, Goto
  <1>18. ASSUME NEW o \in Offsets, ApplyChunk(o) PROVE KeepInv'
    BY <1>0, <1>18, KeepQuiet DEF ApplyChunk, Goto
  <1>19. ASSUME NEW o \in Offsets, ReportProgress(o) PROVE KeepInv'
    BY <1>0, <1>19, KeepQuiet DEF ReportProgress, Goto
  <1>20. ASSUME NEW o \in Offsets, Fail(o) PROVE KeepInv'
    BY <1>0, <1>20, KeepQuiet DEF Fail, Goto
  <1>21. ASSUME NEW o \in Offsets, Release(o) PROVE KeepInv'
    BY <1>0, <1>21, KeepQuiet DEF Release, Goto
  <1>22. ASSUME NEW o \in Offsets, AddCompletedOffset(o) PROVE KeepInv'
    BY <1>0, <1>22, KeepAdd
  <1>23. ASSUME NEW o \in Offsets, SaveCompleted(o) PROVE KeepInv'
    <2>1. \A p \in done \ completed : pc'[p] = pc[p]
      BY <1>0, <1>23 DEF SaveCompleted, Goto
    <2> QED BY <1>0, <1>23, <2>1, KeepSave DEF SaveCompleted
  <1>24. ASSUME NEW o \in Offsets, RpcLost(o) PROVE KeepInv'
    BY <1>0, <1>24, KeepQuiet DEF RpcLost, Goto
  <1> QED
    BY <1>1, <1>2, <1>3, <1>4, <1>5, <1>6, <1>7, <1>8, <1>9, <1>10,
       <1>11, <1>12, <1>13, <1>14, <1>15, <1>16, <1>17, <1>18, <1>19,
       <1>20, <1>21, <1>22, <1>23, <1>24 DEF Next, Main, Chunk, Bar

\* With a resume state, a crash loses fewer than two batches of confirmed
\* chunks, as long as saveResumeState has not failed: although pending is never
\* cleared and the last save of a batch may race others.  What is lost was
\* recorded since the last save, or its goroutine still holds a token of sem.
THEOREM LessThanTwoBatches ==
  ASSUME Resuming
  PROVE  Spec => []ConfirmedSurvives
PROOF
  <1>1. Init => KeepInv
    <2> SUFFICES ASSUME Init PROVE KeepInv
      OBVIOUS
    <2>1. Unsaved = {} /\ done \ completed = {} /\ pending = 0
      BY DEF Init, Unsaved
    <2>2. Cardinality(Unsaved) = 0
      BY <2>1, FS_EmptySet
    <2> QED BY <2>1, <2>2, ChunksAssumption DEF KeepInv
  <1>2. IInv /\ KeepInv /\ [Next]_vars => KeepInv'
    BY KeepStep
  <1>3. IInv /\ KeepInv => ConfirmedSurvives
    <2> SUFFICES ASSUME IInv, KeepInv, ~saveLost
                 PROVE  Cardinality(done \ disk) < 2 * Batch
      BY DEF ConfirmedSurvives
    <2>1. done \ disk \subseteq Unsaved \cup sem
      BY DEF KeepInv, Unsaved, IInv, TypeOK, SemBound, Holding, ChunkPC
    <2>2. IsFiniteSet(Unsaved) /\ IsFiniteSet(sem)
      BY OffsetsFinite, FS_Subset DEF IInv, TypeOK, Unsaved
    <2>3. /\ IsFiniteSet(Unsaved \cup sem)
          /\ Cardinality(Unsaved \cup sem)
               = Cardinality(Unsaved) + Cardinality(sem)
                   - Cardinality(Unsaved \cap sem)
      BY <2>2, FS_Union
    <2>4. IsFiniteSet(Unsaved \cap sem)
      BY <2>2, FS_Subset
    <2>5. /\ Cardinality(Unsaved) \in Nat /\ Cardinality(sem) \in Nat
          /\ Cardinality(Unsaved \cap sem) \in Nat
      BY <2>2, <2>4, FS_CardinalityType
    <2>6. Cardinality(done \ disk) <= Cardinality(Unsaved \cup sem)
          /\ Cardinality(done \ disk) \in Nat
      BY <2>1, <2>3, FS_Subset, FS_CardinalityType
    <2>7. /\ Cardinality(Unsaved) < Batch /\ Cardinality(sem) <= Batch
          /\ Batch \in Nat
      BY ChunksAssumption DEF KeepInv, IInv, SemBound
    <2> QED BY <2>3, <2>5, <2>6, <2>7
  <1> QED BY <1>1, <1>2, <1>3, InvariantHolds, PTL DEF Spec

-----------------------------------------------------------------------------
(* What the progress bar shows                                             *)

\* More chunks have no fewer bytes, and the bytes are finitely many.
LEMMA BytesMore ==
  ASSUME NEW R, NEW T, R \subseteq T
  PROVE  /\ IsFiniteSet(Bytes(R)) /\ Cardinality(Bytes(R)) \in Nat
         /\ Cardinality(Bytes(R)) <= Cardinality(Bytes(T))
PROOF
  <1>1. IsFiniteSet(0 .. FileSize - 1)
    BY FS_Interval, ChunksAssumption
  <1>2. Bytes(R) \subseteq Bytes(T) /\ Bytes(T) \subseteq 0 .. FileSize - 1
    BY DEF Bytes
  <1>3. IsFiniteSet(Bytes(T))
    BY <1>1, <1>2, FS_Subset
  <1>4. IsFiniteSet(Bytes(R)) /\ Cardinality(Bytes(R)) <= Cardinality(Bytes(T))
    BY <1>2, <1>3, FS_Subset
  <1> QED BY <1>4, FS_CardinalityType

\* Chunks do not overlap: one more adds exactly its size.
LEMMA BytesAdd ==
  ASSUME NEW R, R \subseteq Offsets, NEW o \in Offsets, o \notin R
  PROVE  Cardinality(Bytes(R \cup {o})) = Cardinality(Bytes(R)) + Size(o)
PROOF
  <1> USE ChunksAssumption
  <1>1. PICK n : n = Size(o)
    OBVIOUS
  <1>2. /\ o \in Nat /\ n \in Nat \ {0} /\ o + n <= FileSize
        /\ \A p \in Offsets : p < o + n => p <= o
    BY <1>1, OffsetStep
  <1>3. PICK I : I = o .. o + n - 1
    OBVIOUS
  <1>4. IsFiniteSet(I) /\ Cardinality(I) = n
    <2>1. o + n - 1 \in Int /\ o \in Int /\ ~(o > o + n - 1)
      BY <1>2
    <2>2. /\ IsFiniteSet(o .. o + n - 1)
          /\ Cardinality(o .. o + n - 1) = (o + n - 1) - o + 1
      BY <2>1, FS_Interval
    <2> QED BY <1>2, <1>3, <2>2
  <1>5. Bytes(R \cup {o}) = Bytes(R) \cup I
    <2>1. \A b \in 0 .. FileSize - 1 : o <= b /\ b < o + n <=> b \in I
      BY <1>2, <1>3
    <2>2. I \subseteq 0 .. FileSize - 1
      BY <1>2, <1>3
    <2> QED BY <1>1, <2>1, <2>2 DEF Bytes
  <1>6. Bytes(R) \cap I = {}
    <2> SUFFICES ASSUME NEW b \in 0 .. FileSize - 1, NEW p \in R,
                        p <= b, b < p + Size(p), b \in I
                 PROVE  FALSE
      BY DEF Bytes
    <2>1. PICK m : m = Size(p)
      OBVIOUS
    <2>2. /\ p \in Offsets /\ p \in Nat /\ m \in Nat \ {0} /\ p # o
          /\ \A q \in Offsets : q < p + m => q <= p
      BY <2>1, OffsetStep
    <2>3. o <= b /\ b < o + n /\ b \in Nat
      BY <1>2, <1>3
    <2>4. p <= o
      BY <1>2, <2>2, <2>3
    <2>5. o <= p
      BY <1>2, <2>1, <2>2, <2>3
    <2> QED BY <1>2, <2>2, <2>4, <2>5
  <1>7. IsFiniteSet(Bytes(R)) /\ Cardinality(Bytes(R)) \in Nat
    BY BytesMore
  <1>8. Cardinality(Bytes(R) \cup I)
          = Cardinality(Bytes(R)) + Cardinality(I) - Cardinality(Bytes(R) \cap I)
    BY <1>4, <1>7, FS_Union
  <1>9. Cardinality(Bytes(R) \cap I) = 0
    BY <1>6, FS_EmptySet
  <1>10. PICK x \in Nat : x = Cardinality(Bytes(R))
    BY <1>7
  <1>11. Cardinality(Bytes(R \cup {o})) = x + n - 0
    BY <1>4, <1>5, <1>8, <1>9, <1>10
  <1> QED BY <1>1, <1>2, <1>10, <1>11

\* f runs from s over the byte counts of q, and ends at no more than t.
IsTally(f, s, q, t) ==
  /\ f \in [0 .. Len(q) -> Nat]
  /\ f[0] = s
  /\ \A i \in 1 .. Len(q) : f[i] = f[i - 1] + q[i]
  /\ \A i, j \in 0 .. Len(q) : i <= j => f[i] <= f[j]
  /\ f[Len(q)] <= t

\* A count is sent that the total gains as well.
LEMMA TallyAppend ==
  ASSUME NEW f, NEW s, NEW q \in Seq(Nat), NEW t \in Nat, NEW n \in Nat,
         IsTally(f, s, q, t)
  PROVE  \E g : IsTally(g, s, Append(q, n), t + n)
PROOF
  <1>1. PICK l \in Nat : l = Len(q)
    OBVIOUS
  <1>2. PICK r : r = Append(q, n)
    OBVIOUS
  <1>3. Len(r) = l + 1 /\ r[l + 1] = n /\ \A i \in 1 .. l : r[i] = q[i]
    BY <1>1, <1>2
  <1>4. /\ f \in [0 .. l -> Nat] /\ f[0] = s /\ f[l] <= t
        /\ \A i \in 1 .. l : f[i] = f[i - 1] + q[i]
        /\ \A i, j \in 0 .. l : i <= j => f[i] <= f[j]
    BY <1>1 DEF IsTally
  <1>5. PICK g : g = [i \in 0 .. l + 1 |-> IF i = l + 1 THEN f[l] + n ELSE f[i]]
    OBVIOUS
  <1>6. f[l] \in Nat
    BY <1>4
  <1>7. g[l + 1] = f[l] + n /\ \A i \in 0 .. l : g[i] = f[i]
    BY <1>5
  <1>8. g \in [0 .. l + 1 -> Nat]
    BY <1>4, <1>5, <1>6
  <1>9. \A i \in 1 .. l + 1 : g[i] = g[i - 1] + r[i]
    <2> SUFFICES ASSUME NEW i \in 1 .. l + 1 PROVE g[i] = g[i - 1] + r[i]
      OBVIOUS
    <2>1. CASE i = l + 1
      <3>1. i - 1 = l /\ l \in 0 .. l
        BY <2>1
      <3>2. g[i - 1] = f[l]
        BY <1>7, <3>1
      <3> QED BY <2>1, <3>2, <1>3, <1>7
    <2>2. CASE i \in 1 .. l
      <3>1. i - 1 \in 0 .. l /\ i \in 0 .. l
        BY <2>2
      <3> QED BY <2>2, <3>1, <1>3, <1>4, <1>7
    <2> QED BY <2>1, <2>2
  <1>10. \A i, j \in 0 .. l + 1 : i <= j => g[i] <= g[j]
    <2> SUFFICES ASSUME NEW i \in 0 .. l + 1, NEW j \in 0 .. l + 1, i <= j
                 PROVE  g[i] <= g[j]
      OBVIOUS
    <2>1. CASE j \in 0 .. l
      <3>1. i \in 0 .. l
        BY <2>1
      <3>2. f[i] <= f[j] /\ g[i] = f[i] /\ g[j] = f[j]
        BY <2>1, <3>1, <1>4, <1>7
      <3> QED BY <3>2
    <2>2. CASE j = l + 1 /\ i = l + 1
      BY <2>2, <1>6, <1>7
    <2>3. CASE j = l + 1 /\ i \in 0 .. l
      <3>1. f[i] \in Nat /\ f[i] <= f[l]
        BY <2>3, <1>4
      <3> QED BY <2>3, <3>1, <1>6, <1>7
    <2> QED BY <2>1, <2>2, <2>3
  <1>11. g[0] = s
    BY <1>4, <1>7
  <1>12. g[l + 1] <= t + n
    BY <1>4, <1>6, <1>7
  <1> QED BY <1>2, <1>3, <1>8, <1>9, <1>10, <1>11, <1>12 DEF IsTally

\* A count is received and added.
LEMMA TallyTail ==
  ASSUME NEW f, NEW s, NEW q \in Seq(Nat), NEW t, q # <<>>,
         IsTally(f, s, q, t)
  PROVE  \E g : IsTally(g, s + Head(q), Tail(q), t)
PROOF
  <1>1. PICK l \in Nat : l = Len(q) /\ l # 0
    OBVIOUS
  <1>2. PICK r : r = Tail(q)
    OBVIOUS
  <1>3. Len(r) = l - 1 /\ Head(q) = q[1] /\ \A i \in 1 .. l - 1 : r[i] = q[i + 1]
    BY <1>1, <1>2
  <1>4. /\ f \in [0 .. l -> Nat] /\ f[0] = s /\ f[l] <= t
        /\ \A i \in 1 .. l : f[i] = f[i - 1] + q[i]
        /\ \A i, j \in 0 .. l : i <= j => f[i] <= f[j]
    BY <1>1 DEF IsTally
  <1>5. PICK g : g = [i \in 0 .. l - 1 |-> f[i + 1]]
    OBVIOUS
  <1>6. g \in [0 .. l - 1 -> Nat]
    BY <1>4, <1>5
  <1>7. g[0] = s + Head(q)
    <2>1. g[0] = f[1] /\ 1 \in 1 .. l /\ 1 - 1 = 0
      BY <1>1, <1>5
    <2> QED BY <2>1, <1>3, <1>4
  <1>8. \A i \in 1 .. l - 1 : g[i] = g[i - 1] + r[i]
    <2> SUFFICES ASSUME NEW i \in 1 .. l - 1 PROVE g[i] = g[i - 1] + r[i]
      OBVIOUS
    <2>1. /\ g[i] = f[i + 1] /\ g[i - 1] = f[i] /\ i + 1 \in 1 .. l
          /\ (i + 1) - 1 = i
      BY <1>1, <1>5
    <2> QED BY <2>1, <1>3, <1>4
  <1>9. \A i, j \in 0 .. l - 1 : i <= j => g[i] <= g[j]
    BY <1>4, <1>5
  <1>10. g[l - 1] <= t
    BY <1>1, <1>4, <1>5
  <1> QED BY <1>2, <1>3, <1>6, <1>7, <1>8, <1>9, <1>10 DEF IsTally

\* The chunks whose bytes may have been sent on progressChan: those skipped,
\* and those whose goroutine is past the send.
Reported ==
  {o \in done : o < offset /\ pc[o] \in {"none", "complete", "save", "release",
                                         "exit"}}

\* What is shown and what is under way is at most what has been reported.
BarInv ==
  /\ Quiet => sent = 0
  /\ ~Quiet => \E f : IsTally(f, sent, progressChan,
                              Cardinality(Bytes(Reported)))

\* A step that sends and receives nothing.
LEMMA BarQuiet ==
  ASSUME BarInv, TypeOK, UNCHANGED <<sent, progressChan>>,
         Reported \subseteq Reported'
  PROVE  BarInv'
PROOF
  <1>1. PICK t, u : /\ t = Cardinality(Bytes(Reported))
                    /\ u = Cardinality(Bytes(Reported'))
    OBVIOUS
  <1>2. t \in Nat /\ u \in Nat /\ t <= u
    BY <1>1, BytesMore
  <1>3. ASSUME NEW f, IsTally(f, sent, progressChan, t)
        PROVE  IsTally(f, sent, progressChan, u)
    <2>1. PICK l : l = Len(progressChan)
      OBVIOUS
    <2>2. f[l] \in Nat /\ f[l] <= t
      BY <1>3, <2>1 DEF IsTally, TypeOK
    <2>3. f[l] <= u
      BY <1>2, <2>2
    <2> QED BY <1>3, <2>1, <2>3 DEF IsTally
  <1> QED BY <1>1, <1>3 DEF BarInv

\* A step that sends the size of a chunk not reported before.
LEMMA BarSend ==
  ASSUME BarInv, TypeOK, NEW o \in Offsets, o \notin Reported, sent' = sent,
         progressChan' = Append(progressChan, Size(o)),
         Reported \cup {o} \subseteq Reported'
  PROVE  BarInv'
PROOF
  <1>1. PICK t, u, n : /\ t = Cardinality(Bytes(Reported))
                       /\ u = Cardinality(Bytes(Reported'))
                       /\ n = Size(o)
    OBVIOUS
  <1>2. Reported \subseteq Offsets
    BY DEF Reported, TypeOK
  <1>3. t \in Nat /\ n \in Nat /\ u \in Nat
    BY <1>1, BytesMore, OffsetStep
  <1>4. t + n <= u
    <2>1. Cardinality(Bytes(Reported \cup {o})) = t + n
      BY <1>1, <1>2, BytesAdd
    <2>2. Cardinality(Bytes(Reported \cup {o})) <= Cardinality(Bytes(Reported'))
      BY BytesMore
    <2> QED BY <1>1, <2>1, <2>2
  <1>5. ASSUME ~Quiet
        PROVE  \E g : IsTally(g, sent', progressChan', u)
    <2>1. PICK f : IsTally(f, sent, progressChan, t)
      BY <1>1, <1>5 DEF BarInv
    <2>2. progressChan \in Seq(Nat)
      BY DEF TypeOK
    <2>3. PICK g : IsTally(g, sent, Append(progressChan, n), t + n)
      BY <1>3, <2>1, <2>2, TallyAppend
    <2>4. IsTally(g, sent', progressChan', t + n)
      BY <1>1, <2>3
    <2>5. PICK c : c = progressChan'
      OBVIOUS
    <2>6. PICK l : l = Len(c)
      OBVIOUS
    <2>7. l \in Nat
      BY <2>2, <2>5, <2>6, <1>1, <1>3
    <2>8. IsTally(g, sent', c, u)
      <3>1. g \in [0 .. l -> Nat] /\ g[l] <= t + n
        BY <2>4, <2>5, <2>6 DEF IsTally
      <3>2. g[l] \in Nat
        BY <2>7, <3>1
      <3>3. g[l] <= u
        BY <1>3, <1>4, <3>1, <3>2
      <3> QED BY <2>4, <2>5, <2>6, <3>3 DEF IsTally
    <2> QED BY <2>5, <2>8
  <1> QED BY <1>1, <1>5 DEF BarInv

\* Every step keeps BarInv.
LEMMA BarStep ==
  ASSUME IInv, BarInv, [Next]_vars
  PROVE  BarInv'
PROOF
  <1>0. /\ TypeOK /\ pc \in [Offsets -> ChunkPC] /\ done \subseteq Offsets
        /\ progressChan \in Seq(Nat)
    BY DEF IInv, TypeOK
  <1> USE DEF Reported
  <1>1. CASE LoopErr
    BY <1>0, <1>1, BarQuiet DEF LoopErr
  <1>2. CASE Spawn
    <2>1. offset \in Offsets
      BY <1>2, ChunksAssumption DEF Spawn, IInv, TypeOK
    <2>2. /\ offset' = offset + Size(offset) /\ offset < offset'
          /\ pc' = [pc EXCEPT ![offset] = "sem"] /\ done' = done
          /\ UNCHANGED <<sent, progressChan>>
      BY <1>2, <2>1, OffsetStep DEF Spawn
    <2>3. \A p \in Offsets : p \in Nat /\ (p < offset => p < offset' /\ p # offset)
      BY <2>1, <2>2, OffsetStep
    <2>4. Reported \subseteq Reported'
      BY <1>0, <2>2, <2>3
    <2> QED BY <1>0, <2>2, <2>4, BarQuiet
  <1>3. CASE LoopSkip
    BY <1>0, <1>3, BarQuiet DEF LoopSkip
  <1>4. CASE SkipSend
    <2>1. offset \in Offsets /\ offset \in done /\ pc[offset] = "none"
      <3>1. offset \in completed /\ completed \subseteq Offsets
        BY <1>4 DEF SkipSend, IInv, LoopInv, TypeOK
      <3>2. offset \in Offsets /\ offset \in done
        BY <3>1 DEF IInv, SaveInv
      <3> QED BY <1>0, <3>2, OffsetStep DEF IInv, ChunkInv, ChunkPC
    <2>2. /\ offset' = offset + Size(offset) /\ offset < offset'
          /\ pc' = pc /\ done' = done /\ sent' = sent
          /\ progressChan' = Append(progressChan, Size(offset))
      BY <1>4, <2>1, OffsetStep DEF SkipSend
    <2>3. \A p \in Offsets : p \in Nat /\ (p < offset => p < offset')
      <3>1. offset \in Nat /\ offset' \in Nat
        BY <2>1, <2>2, OffsetStep
      <3>2. \A p \in Offsets : p \in Nat
        BY OffsetStep
      <3> QED BY <2>2, <3>1, <3>2
    <2>4. Reported \cup {offset} \subseteq Reported' /\ offset \notin Reported
      <3>1. offset \in Nat
        BY <2>1, <2>3
      <3>2. ~(offset < offset)
        BY <3>1
      <3>3. offset \notin Reported
        BY <3>2
      <3> QED BY <1>0, <2>1, <2>2, <2>3, <3>3
    <2> QED BY <1>0, <2>1, <2>2, <2>4, BarSend
  <1>5. CASE WaitAndFlush
    BY <1>0, <1>5, BarQuiet DEF WaitAndFlush
  <1>6. CASE Return
    BY <1>0, <1>6, BarQuiet DEF Return
  <1>7. CASE BarReceive
    <2>1. Reported' = Reported
      BY <1>7 DEF BarReceive
    <2>2. CASE Quiet
      <3>1. sent' = sent
        BY <1>7, <2>2 DEF BarReceive
      <3> QED BY <2>2, <3>1 DEF BarInv
    <2>3. CASE ~Quiet
      <3>1. /\ progressChan # <<>> /\ progressChan' = Tail(progressChan)
            /\ sent' = sent + Head(progressChan)
        BY <1>7, <2>3 DEF BarReceive
      <3>2. PICK t : t = Cardinality(Bytes(Reported))
        OBVIOUS
      <3>3. PICK f : IsTally(f, sent, progressChan, t)
        BY <2>3, <3>2 DEF BarInv
      <3>4. PICK g : IsTally(g, sent + Head(progressChan), Tail(progressChan), t)
        BY <1>0, <3>1, <3>3, TallyTail
      <3> QED BY <2>1, <2>3, <3>1, <3>2, <3>4 DEF BarInv
    <2> QED BY <2>2, <2>3
  <1>8. CASE BarCancelled
    BY <1>0, <1>8, BarQuiet DEF BarCancelled
  <1>9. CASE Interrupt
    BY <1>0, <1>9, BarQuiet DEF Interrupt
  <1>10. CASE UNCHANGED vars
    BY <1>0, <1>10, BarQuiet DEF vars
  <1>11. ASSUME NEW o \in Offsets, AcquireSem(o) PROVE BarInv'
    BY <1>0, <1>11, BarQuiet DEF AcquireSem, Goto
  <1>12. ASSUME NEW o \in Offsets, GiveUpSem(o) PROVE BarInv'
    BY <1>0, <1>12, BarQuiet DEF GiveUpSem, Goto
  <1>13. ASSUME NEW o \in Offsets, ReadChunk(o) PROVE BarInv'
    BY <1>0, <1>13, BarQuiet DEF ReadChunk, Goto
  <1>14. ASSUME NEW o \in Offsets, Try(o) PROVE BarInv'
    BY <1>0, <1>14, BarQuiet DEF Try, Goto
  <1>15. ASSUME NEW o \in Offsets, RpcOK(o) PROVE BarInv'
    BY <1>0, <1>15, BarQuiet DEF RpcOK, Goto
  <1>16. ASSUME NEW o \in Offsets, RpcFailed(o) PROVE BarInv'
    BY <1>0, <1>16, BarQuiet DEF RpcFailed, Goto
  <1>17. ASSUME NEW o \in Offsets, Backoff(o) PROVE BarInv'
    BY <1>0, <1>17, BarQuiet DEF Backoff, Goto
  <1>18. ASSUME NEW o \in Offsets, ApplyChunk(o) PROVE BarInv'
    BY <1>0, <1>18, BarQuiet DEF ApplyChunk, Goto
  <1>19. ASSUME NEW o \in Offsets, ReportProgress(o) PROVE BarInv'
    <2>1. /\ pc[o] = "progress" /\ pc' = [pc EXCEPT ![o] = "complete"]
          /\ done' = done /\ offset' = offset /\ sent' = sent
      BY <1>19 DEF ReportProgress, Goto
    <2>2. o \in done /\ o < offset
      BY <2>1 DEF IInv, ChunkInv
    <2>3. Reported \cup {o} \subseteq Reported' /\ o \notin Reported
      BY <1>0, <2>1, <2>2
    <2>4. CASE progressChan' = progressChan
      BY <1>0, <2>1, <2>3, <2>4, BarQuiet
    <2>5. CASE progressChan' = Append(progressChan, Size(o))
      BY <1>0, <2>1, <2>3, <2>5, BarSend
    <2> QED BY <1>19, <2>4, <2>5 DEF ReportProgress
  <1>20. ASSUME NEW o \in Offsets, AddCompletedOffset(o) PROVE BarInv'
    BY <1>0, <1>20, BarQuiet DEF AddCompletedOffset, Goto
  <1>21. ASSUME NEW o \in Offsets, SaveCompleted(o) PROVE BarInv'
    BY <1>0, <1>21, BarQuiet DEF SaveCompleted, Goto
  <1>22. ASSUME NEW o \in Offsets, Fail(o) PROVE BarInv'
    BY <1>0, <1>22, BarQuiet DEF Fail, Goto
  <1>23. ASSUME NEW o \in Offsets, Release(o) PROVE BarInv'
    BY <1>0, <1>23, BarQuiet DEF Release, Goto
  <1>24. ASSUME NEW o \in Offsets, RpcLost(o) PROVE BarInv'
    BY <1>0, <1>24, BarQuiet DEF RpcLost, Goto
  <1> QED
    BY <1>1, <1>2, <1>3, <1>4, <1>5, <1>6, <1>7, <1>8, <1>9, <1>10, <1>11,
       <1>12, <1>13, <1>14, <1>15, <1>16, <1>17, <1>18, <1>19, <1>20, <1>21,
       <1>22, <1>23, <1>24 DEF Next, Main, Chunk, Bar

\* The bar never shows more than the receiver holds: each confirmed chunk is
\* counted at most once and with its own size, whether a goroutine reports it
\* or the loop skips it, however the reports and the receiver interleave.
THEOREM BarNeverAhead == Spec => []BarHonest
PROOF
  <1>1. Init => BarInv
    <2> SUFFICES ASSUME Init PROVE BarInv
      OBVIOUS
    <2>1. sent = 0 /\ progressChan = <<0>>
      BY DEF Init
    <2>2. PICK t : t = Cardinality(Bytes(Reported))
      OBVIOUS
    <2>3. t \in Nat
      BY <2>2, BytesMore
    <2>4. PICK f : f = [i \in 0 .. 1 |-> 0]
      OBVIOUS
    <2>5. IsTally(f, 0, <<0>>, t)
      BY <2>3, <2>4 DEF IsTally
    <2> QED BY <2>1, <2>2, <2>5 DEF BarInv
  <1>2. IInv /\ BarInv /\ [Next]_vars => BarInv'
    BY BarStep
  <1>3. IInv /\ BarInv => BarHonest
    <2> SUFFICES ASSUME IInv, BarInv PROVE sent <= Cardinality(Bytes(done))
      BY DEF BarHonest
    <2>1. PICK t, u : /\ t = Cardinality(Bytes(Reported))
                      /\ u = Cardinality(Bytes(done))
      OBVIOUS
    <2>2. t \in Nat /\ u \in Nat /\ t <= u
      BY <2>1, BytesMore DEF Reported
    <2>3. CASE Quiet
      BY <2>1, <2>2, <2>3 DEF BarInv
    <2>4. CASE ~Quiet
      <3>1. PICK f : IsTally(f, sent, progressChan, t)
        BY <2>1, <2>4 DEF BarInv
      <3>2. PICK l \in Nat : l = Len(progressChan)
        BY DEF IInv, TypeOK
      <3>3. /\ f \in [0 .. l -> Nat] /\ f[0] = sent /\ f[0] <= f[l] /\ f[l] <= t
        BY <3>1, <3>2 DEF IsTally
      <3>4. f[0] \in Nat /\ f[l] \in Nat
        BY <3>2, <3>3
      <3> QED BY <2>1, <2>2, <3>3, <3>4
    <2> QED BY <2>3, <2>4
  <1> QED BY <1>1, <1>2, <1>3, InvariantHolds, PTL DEF Spec
=============================================================================
