------------------------------ MODULE MCRouter ------------------------------
EXTENDS TunnelMessages, NetDb, Profiles, RouterContext, TLC

\* 997 leaves 3 bytes of a tunnel message, 1997 needs 1 byte more than two of
\* them, 1000 fills one, 2500 needs three, 500 fits but not behind 997; message
\* 0 has the ID 0.
MCMsgLen == (0 :> 1100) @@ (1 :> 997) @@ (2 :> 1997) @@ (3 :> 2500) @@ (4 :> 1000) @@ (5 :> 500)
MCMsgDelivery == (0 :> "local") @@ (1 :> "local") @@ (2 :> "local") @@ (3 :> "tunnel") @@ (4 :> "router")
                 @@ (5 :> "tunnel")
MCOwnBlocks == {<<4, 3>>, <<1, 0>>, <<3, 1, 2>>, <<1, 5>>}

\* Router 1 stops being a floodfill and goes behind a firewall, and what is left
\* of its first version, cut short, has lost the caps; router 2 loses its
\* addresses; router 3 never changes.
Version(f, fw, u, a) == [floodfill |-> f, firewalled |-> fw, usable |-> u, at |-> a]
MCDbPublished ==
  (1 :> <<Version(TRUE, FALSE, TRUE, 1), Version(FALSE, TRUE, TRUE, 1), Version(FALSE, FALSE, TRUE, 1)>>)
  @@ (2 :> <<Version(TRUE, FALSE, TRUE, 1), Version(TRUE, TRUE, FALSE, 0)>>)
  @@ (3 :> <<Version(TRUE, FALSE, TRUE, 0)>>)
MCDbCuts == (1 :> {3}) @@ (2 :> {}) @@ (3 :> {})
\* The versions under the router's own key, one with a bad signature, and router 3
\* under the key of router 2.
Store(k, i, v, s) == [key |-> k, ident |-> i, version |-> v, signed |-> s]
MCDbStores ==
  {Store(1, 1, 1, TRUE), Store(1, 1, 2, TRUE), Store(2, 2, 2, TRUE), Store(3, 3, 1, FALSE), Store(2, 3, 1, TRUE)}
MCDbDistance == (1 :> 2) @@ (2 :> 3) @@ (3 :> 1)

\* The parts share nothing at this level, so a behaviour follows one of them:
\* the tunnel messages of a transit or an own tunnel, the network database, the
\* profile of a router, or the router's own router info.
VARIABLE part
Init ==
  /\ part \in Tunneled \cup {"netdb", "profile", "context"}
  /\ TMsgInit /\ ProfInit
  /\ CtxInit /\ (part # "context" => ~supportsV6 /\ ours = NewRouterInfo(FALSE))
  /\ DbInit /\ (part # "netdb" => Known = {} /\ ~weFlood)
Next ==
  /\ UNCHANGED part
  /\ \/ /\ part \in Tunneled
        /\ (part = "transit" /\ TransitNext) \/ (part = "own" /\ OwnNext) \/ WireNext
        /\ UNCHANGED <<dbVars, profVars, ctxVars>>
     \/ part = "netdb" /\ DbNext /\ UNCHANGED <<tmsgVars, profVars, ctxVars>>
     \/ part = "profile" /\ ProfNext /\ UNCHANGED <<tmsgVars, dbVars, ctxVars>>
     \/ part = "context" /\ CtxNext /\ UNCHANGED <<tmsgVars, dbVars, profVars>>
Spec == Init /\ [][Next]_<<part, tmsgVars, dbVars, profVars, ctxVars>>
=============================================================================
