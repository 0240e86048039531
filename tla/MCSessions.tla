---------------------------- MODULE MCSessions -----------------------------
(* The two kinds of transport session.  They share no state (each tells     *)
(* Transports of itself, see Transports.tla), so a behaviour follows one.   *)
EXTENDS NTCPSession, SSUSession
CONSTANTS routerA, routerB, routerC
VARIABLE part

MCBlocks == <<1, 2, 3>>
MCDialer == <<"A", "B">>
MCSenders == {<<1, "client">>}
MCDials == {<<routerA, routerB>>, <<routerA, routerC>>}
MCTesters == {<<routerA, routerB>>}

Init ==
  /\ part \in {"ntcp", "ssu"}
  /\ NTCPInit /\ SSUInit
  /\ part = "ssu" \/ dial = <<routerA, routerB>>

Next ==
  /\ UNCHANGED part
  /\ \/ part = "ntcp" /\ NTCPNext /\ UNCHANGED ssuVars
     \/ part = "ssu" /\ SSUNext /\ UNCHANGED ntcpVars

Spec == Init /\ [][Next]_<<part, ntcpVars, ssuVars>>
=============================================================================
