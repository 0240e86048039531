----------------------------- MODULE MCClients -----------------------------
(* The client interfaces.  They share destinations but none of the state    *)
(* modelled here, so a behaviour follows one of them.                       *)
EXTENDS SAM, BOB, Proxies, I2PTunnel, TLC
VARIABLE part

MCSAMCommands == [k \in SAMSockets |->
  CASE k = 1 -> {"create", "naming", "datagram"}
    [] k = 2 -> {"create", "connect", "other"}
    [] OTHER -> {"accept", "connect", "generate"}]
MCBobCommands == [s \in BobSessions |->
  IF s = 1 THEN {"port", "start", "stop", "lookup", "list", "zap"}
  ELSE {"setnick", "getnick", "start", "clear", "quit", "get"}]
MCMaxHeard == (0 :> 8) @@ (4 :> 8) @@ (5 :> 10)
MCTunKind == [s \in TunSockets |-> CASE s = 1 -> "client" [] s = 2 -> "http" [] OTHER -> "server"]

Init ==
  /\ part \in {"sam", "bob", "proxies", "tunnels"}
  /\ SAMInit /\ BobInit /\ ProxyInit /\ TunInit
  /\ part # "proxies" => proxy = "http"
  /\ part # "tunnels" => endpoint = "address" /\ identHash

Next ==
  /\ UNCHANGED part
  /\ \/ part = "sam" /\ SAMNext /\ UNCHANGED <<bobVars, proxyVars, tunVars>>
     \/ part = "bob" /\ BobNext /\ UNCHANGED <<samVars, proxyVars, tunVars>>
     \/ part = "proxies" /\ ProxyNext /\ UNCHANGED <<samVars, bobVars, tunVars>>
     \/ part = "tunnels" /\ TunNext /\ UNCHANGED <<samVars, bobVars, proxyVars>>

Spec == Init /\ [][Next]_<<part, samVars, bobVars, proxyVars, tunVars>>
=============================================================================
