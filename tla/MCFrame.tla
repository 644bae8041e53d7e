------------------------------- MODULE MCFrame -------------------------------
(* Instances of Frame for TLC.                                              *)
EXTENDS Frame

CONSTANTS w1, w2

Frm(i, t, m, d, e) == [id |-> i, type |-> t, msg |-> m, data |-> d, enc |-> e]

\* An AuthRes, a message and a payload at their limits, a reply without data.
Fits == <<Frm(1, 13, 1, 0, FALSE), Frm(2, 5, 2, 2, TRUE),
          Frm(3, 3, 1, 0, TRUE)>>

\* Encryption takes the second chunk over the limit; a listing is too long.
ChunkTooLong == <<Frm(1, 13, 1, 0, FALSE), Frm(2, 5, 2, 3, FALSE),
                  Frm(3, 5, 1, 3, TRUE), Frm(4, 3, 1, 0, FALSE)>>
ListTooLong == <<Frm(1, 13, 2, 0, FALSE), Frm(2, 9, 3, 0, FALSE)>>

OneWriter == {[w \in Writers |-> s] : s \in {Fits, ChunkTooLong, ListTooLong}}

\* Two workers answer two reads of a client that has authenticated.
TwoWorkers ==
  {[w \in Writers |-> IF w = w1 THEN <<Frm(1, 13, 1, 0, FALSE),
                                       Frm(2, 5, 1, 2, FALSE)>>
                                ELSE <<Frm(3, 5, 1, 2, FALSE)>>]}

BothEnds == {"server", "client"}
ClientEnd == {"client"}
=============================================================================
