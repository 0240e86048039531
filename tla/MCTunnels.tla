----------------------------- MODULE MCTunnels -----------------------------
(* Small instances of Tunnels for TLC.                                      *)
EXTENDS Tunnels

MCIn == {1, 2}
MCOut == {3}
=============================================================================
