-------------------------------- MODULE Copy --------------------------------
(***************************************************************************)
(* What a copy command promises its user, whatever happened in earlier     *)
(* commands and whoever else changes the two files meanwhile: a verified   *)
(* command reports success only if source and target were identical at     *)
(* some instant while it ran.                                              *)
(***************************************************************************)
VARIABLES
  source, target,  \* the contents of the two files
  phase,           \* "running", or how the last command ended
  strict,          \* the command verifies the copy
  agreed           \* source and target were identical during this command

vars == <<source, target, phase, strict, agreed>>

Init ==
  /\ phase = "none" /\ strict = FALSE
  /\ agreed = (source = target)

\* A command starts, or is refused at once.
Begin ==
  /\ phase # "running"
  /\ phase' \in {"running", "err"} /\ strict' \in BOOLEAN
  /\ UNCHANGED <<source, target>>

\* The command, or anyone else, changes the files in any way.  What others do
\* may release a command from its promise.
Change == phase' = phase /\ (strict' => strict)

\* Killed ("none"), failed or succeeded.
End ==
  /\ phase = "running"
  /\ \/ phase' \in {"none", "err"}
     \/ phase' = "ok" /\ (strict => agreed)
  /\ UNCHANGED <<source, target, strict>>

Next ==
  /\ Begin \/ Change \/ End
  /\ agreed' = ((source' = target') \/ (phase = "running" /\ agreed))

Spec == Init /\ [][Next]_vars
=============================================================================
