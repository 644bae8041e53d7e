-------------------------- MODULE MCProcessChunks --------------------------
(* Instances of ProcessChunks for TLC: sizes and faults.                   *)
EXTENDS ProcessChunks, FiniteSetsExt

\* The first and the last chunk may fail: as many errors as errChan holds
\* when Batch is 2.
FirstAndLast == {0, Max(Offsets)}

AllOffsets == Offsets

NoOffsets == {}
=============================================================================
