---------------------------- MODULE MCStreaming ----------------------------
(* Small instances of Streaming for TLC.                                    *)
EXTENDS Streaming

MCOneIncoming == {2}
MCAccepting == {TRUE}
MCAnyAcceptor == BOOLEAN
=============================================================================
