---------------------------- MODULE MCTransports ---------------------------
EXTENDS Transports
CONSTANT peer1
MCMaxMsgs == [i \in Targets |-> IF i = Self THEN 1 ELSE 2]
=============================================================================
