----------------------------- MODULE MCSSUData -----------------------------
(* Small instances of SSUData for TLC.                                      *)
EXTENDS SSUData

CONSTANTS alice, bob, status, storeA, storeB, d1

MCStore == [x \in {alice, bob} |-> IF x = alice THEN storeA ELSE storeB]
MCData == {d1}
=============================================================================
