--------------------------------- MODULE Rpc ---------------------------------
(***************************************************************************)
(* What the RPC client promises its callers, whatever the network does: a  *)
(* request is executed by the server at most once, and a call returns a    *)
(* response only after its own request was executed.                       *)
(***************************************************************************)
EXTENDS Naturals

CONSTANT Callers

VARIABLES
  phase,   \* of each call: "idle", "failed", "pending", "ok" or "err"
  served   \* how often the server has executed each call

vars == <<phase, served>>

Init ==
  /\ phase = [c \in Callers |-> "idle"]
  /\ served = [c \in Callers |-> 0]

Invoke(c) ==
  /\ phase[c] = "idle"
  /\ phase' = [phase EXCEPT ![c] = "pending"]
  /\ UNCHANGED served

\* A call may fail before its request is sent, and is then never executed.
Reject(c) ==
  /\ phase[c] = "idle"
  /\ phase' = [phase EXCEPT ![c] = "failed"]
  /\ UNCHANGED served

\* A call that has been given up may still be executed.
Execute(c) ==
  /\ phase[c] \in {"pending", "err"}
  /\ served[c] = 0
  /\ served' = [served EXCEPT ![c] = 1]
  /\ UNCHANGED phase

Respond(c) ==
  /\ phase[c] = "pending"
  /\ served[c] = 1
  /\ phase' = [phase EXCEPT ![c] = "ok"]
  /\ UNCHANGED served

GiveUp(c) ==
  /\ phase[c] = "pending"
  /\ phase' = [phase EXCEPT ![c] = "err"]
  /\ UNCHANGED served

Next ==
  \E c \in Callers :
    Invoke(c) \/ Reject(c) \/ Execute(c) \/ Respond(c) \/ GiveUp(c)

Spec == Init /\ [][Next]_vars
=============================================================================
