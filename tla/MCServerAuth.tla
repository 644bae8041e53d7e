---------------------------- MODULE MCServerAuth ----------------------------
(* Instances of ServerAuth for TLC.                                         *)
EXTENDS ServerAuth

CONSTANTS alice, bob, a, b, w1, w2

OneClient == {alice}
Bob == {bob}
TwoClients == {alice, bob}
TwoConns == {a, b}
TwoWorkers == {w1, w2}
=============================================================================
