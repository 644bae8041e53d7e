--------------------------- MODULE MCFileTransfer ---------------------------
(* Instances of FileTransfer for TLC.                                       *)
EXTENDS FileTransfer

CONSTANTS a, b

Both == {"up", "down"}
OnlyUp == {"up"}
OneOrTwo == {1, 2}

\* Two contents of the same size and a shorter one.
ThreeVersions == {<<a, a, a>>, <<a, b, a>>, <<b>>}
=============================================================================
