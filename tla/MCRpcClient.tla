---------------------------- MODULE MCRpcClient ----------------------------
(* Instances of RpcClient for TLC.                                          *)
EXTENDS RpcClient

CONSTANTS c1, c2, c3, k1, k2

TwoCallers == {c1, c2}
ThreeCallers == {c1, c2, c3}
OneConn == {k1}
TwoConns == {k1, k2}
=============================================================================
