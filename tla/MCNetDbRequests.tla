-------------------------- MODULE MCNetDbRequests --------------------------
(* Small instances of NetDbRequests for TLC.                                *)
EXTENDS NetDbRequests

CONSTANTS c1, c2, n1, i1, i2, f1, f2

MCOneIdent == {i1}
MCTwoIdents == {i1, i2}
MCFloodfills == {f1, f2}
MCOneClient == {c1}
MCTwoClients == {c1, c2}
MCNetDbCalls == {n1}
MCNoNetDbCalls == {}
=============================================================================
