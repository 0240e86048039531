------------------------------ MODULE Tunnels ------------------------------
(***************************************************************************)
(* The life of the router's own tunnels and of a tunnel pool                *)
(* (core/tunnel/Tunnel.cpp, core/tunnel/TunnelPool.cpp).                    *)
(*                                                                          *)
(* The tunnels thread handles build replies, test replies and tunnel data,  *)
(* and every 15 seconds goes through ManageTunnels; the thread of a client  *)
(* destination stops and starts the pool meanwhile.  One unit of time is    *)
(* one such round.  A step is what runs between two points at which the     *)
(* other thread can take the pool's mutexes or m_IsActive.                  *)
(*                                                                          *)
(* DetachTunnels clears what TestTunnels walks through without a lock: when *)
(* the two overlap the outcome is undefined, and the process may crash.     *)
(***************************************************************************)
EXTENDS Naturals, FiniteSets

CONSTANTS
  In, Out,                        \* bound: tunnels there may be at one time
  TUNNEL_CREATION_TIMEOUT,
  TUNNEL_EXPIRATION_TIMEOUT,
  TUNNEL_EXPIRATION_THRESHOLD,
  TUNNEL_RECREATION_THRESHOLD,
  MinTunnels,                     \* 5: tunnels that Tunnels keeps for itself
  NumTunnels,                     \* m_NumInboundTunnels, m_NumOutboundTunnels
  None

Tunnel == In \cup Out

VARIABLES
  tunnel,           \* [Tunnel -> the tunnel's fields, or None]
  pending,          \* m_PendingInboundTunnels, m_PendingOutboundTunnels
  listed,           \* m_InboundTunnels, m_OutboundTunnels of Tunnels
  members,          \* m_InboundTunnels, m_OutboundTunnels of the pool
  m_Tests,          \* the pool's tests, <<outbound, inbound>>
  m_IsActive,
  client,           \* where the client thread is in Stop
  pc,               \* where the tunnels thread is in Run
  adding,           \* the tunnel TunnelCreated is called for
  due,              \* 15 seconds have passed since ManageTunnels
  crashed

vars == <<tunnel, pending, listed, members, m_Tests, m_IsActive, client, pc,
          adding, due, crashed>>

States == {"Pending", "BuildFailed", "Established", "TestFailed", "Failed",
           "Expiring"}

(* A tunnel.  m_Pool is the pool or null.  strikes, how often its tests have *)
(* failed since the last one that passed, is not part of the program.       *)
Fields == [state : States, age : 0..TUNNEL_EXPIRATION_TIMEOUT + 1, pool : BOOLEAN,
           recreated : BOOLEAN, strikes : 0..2]

(* A build request is given up long before a tunnel expires.                *)
ASSUME ConstantsAssumption ==
  /\ In \subseteq Nat /\ Out \subseteq Nat /\ In \cap Out = {}
  /\ {TUNNEL_CREATION_TIMEOUT, TUNNEL_EXPIRATION_TIMEOUT,
      TUNNEL_EXPIRATION_THRESHOLD, TUNNEL_RECREATION_THRESHOLD,
      MinTunnels, NumTunnels} \subseteq Nat
  /\ TUNNEL_CREATION_TIMEOUT <= TUNNEL_EXPIRATION_TIMEOUT
  /\ None \notin Nat /\ None \notin Fields

NewTunnel(pool) == [state |-> "Pending", age |-> 0, pool |-> pool,
                    recreated |-> FALSE, strikes |-> 0]

IsEstablished(t) == tunnel[t] # None /\ tunnel[t].state = "Established"
IsFailed(tun, t) == tun[t].state = "Failed"
SetState(tun, T, s) ==
  [t \in Tunnel |-> IF t \in T THEN [tun[t] EXCEPT !.state = s] ELSE tun[t]]
SetTunnelPool(tun, T, pool) ==
  [t \in Tunnel |-> IF t \in T THEN [tun[t] EXCEPT !.pool = pool] ELSE tun[t]]

Free(S) == {t \in S : tunnel[t] = None}
First(n, S) == {t \in S : Cardinality({u \in S : u < t}) < n}

(* CreateTunnel, and SetTunnelPool when the pool calls it.                  *)
Create(tun, T, pool) ==
  [t \in Tunnel |-> IF t \in T THEN NewTunnel(pool) ELSE tun[t]]

(* A tunnel is destroyed with the last container that points to it.         *)
Tested == UNION {{p[1], p[2]} : p \in m_Tests}
Referenced == pending \cup listed \cup members \cup Tested
Release(tun) ==
  tunnel' = [t \in Tunnel |-> IF t \in Referenced' THEN tun[t] ELSE None]

-----------------------------------------------------------------------------
(* Build replies                                                            *)

NotBusy == pc = "idle"

Listed(t) == listed \cup {t}

(* AddInboundTunnel, AddOutboundTunnel up to TunnelCreated.  An inbound     *)
(* tunnel of no pool gets an outbound one of the same hops, if there is     *)
(* room for it.                                                             *)
AddTunnel(t) ==
  LET accepted == SetState(tunnel, {t}, "Established")
      paired == First(1, IF t \in In /\ ~tunnel[t].pool THEN Free(Out) ELSE {})
  IN /\ listed' = Listed(t)
     /\ pending' = pending \cup paired
     /\ IF tunnel[t].pool /\ m_IsActive
        THEN /\ pc' = "add" /\ adding' = t
             /\ tunnel' = accepted
        ELSE /\ tunnel' = Create(SetTunnelPool(accepted, {t}, FALSE), paired, FALSE)
             /\ UNCHANGED <<pc, adding>>

(* GetPendingTunnel takes an unanswered request only.                       *)
GetPendingTunnel(t) == t \in pending /\ tunnel[t].state = "Pending"

(* HandleTunnelBuildResponse: all hops accept, or some decline.             *)
HandleTunnelBuildResponse(t) ==
  /\ NotBusy /\ GetPendingTunnel(t)
  /\ \/ AddTunnel(t)
     \/ /\ tunnel' = SetState(tunnel, {t}, "BuildFailed")
        /\ UNCHANGED <<pending, listed, pc, adding>>
  /\ UNCHANGED <<members, m_Tests, m_IsActive, client, due, crashed>>

HandleVariableTunnelBuildMsg == \E t \in In : HandleTunnelBuildResponse(t)
HandleVariableTunnelBuildReplyMsg == \E t \in Out : HandleTunnelBuildResponse(t)

(* TunnelPool::TunnelCreated: the check, and the insertion.                 *)
TunnelCreated ==
  /\ pc = "add"
  /\ IF m_IsActive THEN pc' = "insert" /\ adding' = adding
                   ELSE pc' = "idle" /\ adding' = None
  /\ UNCHANGED <<tunnel, pending, listed, members, m_Tests, m_IsActive, client,
                 due, crashed>>

InsertCreated ==
  /\ pc = "insert"
  /\ members' = members \cup {adding}
  /\ pc' = "idle" /\ adding' = None
  /\ UNCHANGED <<tunnel, pending, listed, m_Tests, m_IsActive, client, due, crashed>>

-----------------------------------------------------------------------------
(* Tunnel tests and incoming data                                           *)

(* restore from test failed state if any                                    *)
Restored(p) == {t \in {p[1], p[2]} : tunnel[t].state = "TestFailed"}

(* The reply of test p comes through its inbound tunnel.                    *)
ProcessDeliveryStatus(p) ==
  /\ NotBusy /\ p \in m_Tests
  /\ p[2] = None \/ (p[2] \in listed /\ tunnel[p[2]].pool)
  /\ IF None \in {p[1], p[2]}
     THEN crashed' = TRUE /\ m_Tests' = m_Tests
     ELSE crashed' = FALSE /\ m_Tests' = m_Tests \ {p}
  /\ UNCHANGED <<pending, listed, members, m_IsActive, client, pc, adding, due>>
  /\ Release([t \in Tunnel |->
       IF t \in {p[1], p[2]} /\ ~crashed'
       THEN [SetState(tunnel, Restored(p), "Established")[t] EXCEPT !.strikes = 0]
       ELSE tunnel[t]])

(* incoming messages means a tunnel is alive                                *)
HandleTunnelDataMsg(t) ==
  /\ NotBusy /\ t \in listed /\ IsFailed(tunnel, t)
  /\ tunnel' = [SetState(tunnel, {t}, "Established") EXCEPT ![t].strikes = 0]
  /\ UNCHANGED <<pending, listed, members, m_Tests, m_IsActive, client, pc, adding,
                 due, crashed>>

-----------------------------------------------------------------------------
(* ManageTunnels                                                            *)

(* Variant: a declined build request is not deleted.                        *)
PendingOverAccepted(t) ==
  /\ tunnel[t].state # "BuildFailed"
  /\ tunnel[t].state = "Pending" => tunnel[t].age > TUNNEL_CREATION_TIMEOUT

(* delete failed or timeout, or succeeded                                   *)
PendingOver(t) ==
  tunnel[t].state = "Pending" => tunnel[t].age > TUNNEL_CREATION_TIMEOUT

ManagePendingTunnels ==
  /\ NotBusy /\ due
  /\ pc' = "inbound" /\ due' = FALSE
  /\ pending' = {t \in pending : ~PendingOver(t)}
  /\ UNCHANGED <<listed, members, m_Tests, m_IsActive, client, adding, crashed>>
  /\ Release(tunnel)

Ends(t, threshold) == tunnel[t].age + threshold > TUNNEL_EXPIRATION_TIMEOUT
Expired(S) == {t \in listed \cap S : Ends(t, 0)}
Kept(S) == (listed \cap S) \ Expired(S)
RecreationDue(S) == {t \in Kept(S) : /\ IsEstablished(t) /\ ~tunnel[t].recreated
                                     /\ Ends(t, TUNNEL_RECREATION_THRESHOLD)}
ExpirationNear(S) == {t \in Kept(S) : IsEstablished(t) /\ Ends(t, TUNNEL_EXPIRATION_THRESHOLD)}

(* Those TunnelExpired is called for.                                       *)
LeavingPool(S) == {t \in Expired(S) : tunnel[t].pool}

(* The loop of TunnelExpired assigns to a copy of each entry of m_Tests.    *)
RemainingTests(E) == m_Tests

(* The loop of ManageInboundTunnels and ManageOutboundTunnels; the pool     *)
(* re-creates n tunnels, and Tunnels creates m of its own, if there is room *)
(* for them.                                                                *)
ManageTunnels(S, n, m) ==
  LET forPool == First(n, Free(S))
      own == First(m, Free(S) \ forPool)
      aged == [t \in Tunnel |-> IF t \in RecreationDue(S)
                                THEN [tunnel[t] EXCEPT !.recreated = TRUE]
                                ELSE tunnel[t]]
      left == SetTunnelPool(SetState(aged, ExpirationNear(S), "Expiring"),
                            LeavingPool(S), FALSE)
  IN /\ listed' = listed \ Expired(S)
     /\ members' = members \ LeavingPool(S)
     /\ m_Tests' = RemainingTests(LeavingPool(S))
     /\ pending' = pending \cup forPool \cup own
     /\ Release(Create(Create(left, forPool, TRUE), own, FALSE))
     /\ UNCHANGED <<m_IsActive, client, adding, due, crashed>>

OfPool(T) == {t \in T : tunnel[t].pool}
RecreateInboundTunnel == Cardinality(OfPool(RecreationDue(In)))

(* A zero hops tunnel when there is none, else a one hop tunnel.            *)
ManageInboundTunnels ==
  /\ pc = "inbound" /\ pc' = "outbound"
  /\ ManageTunnels(In, RecreateInboundTunnel,
       IF \/ Kept(In) = {} \/ listed \cap Out = {} \/ Cardinality(Kept(In)) < MinTunnels
       THEN 1 ELSE 0)

(* GetNextInboundTunnel of the pool, or else of Tunnels.                    *)
NextInboundTunnel(T) == \E t \in T \cap In : IsEstablished(t)

RecreateOutboundTunnel == IF NextInboundTunnel(members \cup listed)
                          THEN Cardinality(OfPool(RecreationDue(Out))) ELSE 0

(* Needs an inbound tunnel for the reply; router may be null.               *)
ManageOutboundTunnels ==
  /\ pc = "outbound" /\ pc' = "create"
  /\ \E router \in BOOLEAN :
       ManageTunnels(Out, RecreateOutboundTunnel,
         IF Cardinality(Kept(Out)) < MinTunnels /\ NextInboundTunnel(listed) /\ router
         THEN 1 ELSE 0)

(* TunnelPool::CreateTunnels, which may find no peers for any of them.      *)
Missing(S) == LET num == Cardinality({t \in members \cap S : IsEstablished(t)})
              IN IF num < NumTunnels THEN NumTunnels - num ELSE 0

CreateInboundTunnel(i) == First(i, Free(In))
CreateOutboundTunnel(o) == IF NextInboundTunnel(members \cup listed)
                           THEN First(o, Free(Out)) ELSE {}

CreateTunnels ==
  /\ pc = "create"
  /\ IF m_IsActive
     THEN /\ \E i \in 0..Missing(In), o \in 0..Missing(Out) :
               LET new == CreateInboundTunnel(i) \cup CreateOutboundTunnel(o)
               IN /\ pending' = pending \cup new
                  /\ tunnel' = Create(tunnel, new, TRUE)
          /\ pc' = "test"
     ELSE pc' = "idle" /\ UNCHANGED <<tunnel, pending>>
  /\ UNCHANGED <<listed, members, m_Tests, m_IsActive, client, adding, due, crashed>>

(* Pool tunnels in the order of the pool's sets, recent tunnels first.      *)
Before(t, u) == \/ tunnel[t].age < tunnel[u].age
                \/ tunnel[t].age = tunnel[u].age /\ t < u
Place(t, T) == Cardinality({u \in T : Before(u, t)})
NewTests(T) == {p \in (T \cap Out) \X (T \cap In) :
                  Place(p[1], T \cap Out) = Place(p[2], T \cap In)}

(* Variant: failed tunnels stay in the pool.                                *)
StayInPool(T) == {}

(* Variant: any tunnel that is not established counts as failed before.     *)
AfterFailedTestStrict(state) == IF state # "Established" THEN "Failed" ELSE "TestFailed"

AfterFailedTest(state) == IF state = "TestFailed" THEN "Failed" ELSE "TestFailed"

(* Those whose second test in a row has failed.                             *)
FailAgain(T) == {t \in T : AfterFailedTest(tunnel[t].state) = "Failed"}

TestTunnels ==
  LET failing == Tested \ {None}
      tested == [t \in Tunnel |->
        IF t \in failing
        THEN [tunnel[t] EXCEPT
                !.state = AfterFailedTest(@),
                !.strikes = IF @ < 2 THEN @ + 1 ELSE @]
        ELSE tunnel[t]]
  IN /\ pc = "test" /\ pc' = "idle"
     /\ members' = members \ FailAgain(failing)
     /\ m_Tests' = NewTests({t \in members' : ~IsFailed(tested, t)})
     /\ UNCHANGED <<pending, listed, m_IsActive, client, adding, due, crashed>>
     /\ Release(tested)

Age(n) == IF n > TUNNEL_EXPIRATION_TIMEOUT THEN n ELSE n + 1

Tick ==
  /\ NotBusy /\ ~due /\ due' = TRUE
  /\ tunnel' = [t \in Tunnel |-> IF tunnel[t] = None THEN None
                                 ELSE [tunnel[t] EXCEPT !.age = Age(@)]]
  /\ UNCHANGED <<pending, listed, members, m_Tests, m_IsActive, client, pc, adding,
                 crashed>>

-----------------------------------------------------------------------------
(* The client thread: ClientDestination::Start and Stop                     *)

SetActive(from, to, active) ==
  /\ client = from /\ client' = to /\ m_IsActive' = active
  /\ UNCHANGED <<tunnel, pending, listed, members, m_Tests, pc, adding, due, crashed>>

Start == SetActive("stopped", "running", TRUE)

(* Variant: the pool is detached and stays active.                          *)
StopActive == SetActive("running", "detachIn", TRUE)

Stop == SetActive("running", "detachIn", FALSE)

(* DetachTunnels: each container in turn.                                   *)
Detach(from, to, S) ==
  /\ client = from /\ client' = to
  /\ tunnel' = SetTunnelPool(tunnel, members \cap S, FALSE)
  /\ members' = members \ S
  /\ crashed' \in {FALSE, pc = "test" /\ members \cap S # {}}
  /\ UNCHANGED <<pending, listed, m_Tests, m_IsActive, pc, adding, due>>

DetachInbound == Detach("detachIn", "detachOut", In)
DetachOutbound == Detach("detachOut", "clearTests", Out)

ClearTests ==
  /\ client = "clearTests" /\ client' = "stopped"
  /\ m_Tests' = {}
  /\ crashed' \in {FALSE, m_Tests # {}}
  /\ UNCHANGED <<pending, listed, members, m_IsActive, pc, adding, due>>
  /\ Release(tunnel)

-----------------------------------------------------------------------------
Init ==
  /\ tunnel = [t \in Tunnel |-> None]
  /\ pending = {} /\ listed = {} /\ members = {} /\ m_Tests = {}
  /\ m_IsActive = TRUE /\ client = "running"
  /\ pc = "idle" /\ adding = None /\ due = TRUE
  /\ crashed = FALSE

TunnelsThread ==
  \/ TunnelCreated \/ InsertCreated
  \/ ManagePendingTunnels \/ ManageInboundTunnels \/ ManageOutboundTunnels
  \/ CreateTunnels \/ TestTunnels \/ Tick

DetachTunnels == DetachInbound \/ DetachOutbound \/ ClearTests

Next ==
  /\ ~crashed
  /\ \/ HandleVariableTunnelBuildMsg \/ HandleVariableTunnelBuildReplyMsg
     \/ \E t \in In : HandleTunnelDataMsg(t)
     \/ \E p \in m_Tests : ProcessDeliveryStatus(p)
     \/ TunnelsThread
     \/ Start \/ Stop \/ DetachTunnels

(* The loop of Run comes to ManageTunnels again and again, as long as the   *)
(* message queue runs empty at times; DetachTunnels waits for no one.       *)
Fairness == /\ WF_vars(~crashed /\ TunnelsThread)
            /\ WF_vars(~crashed /\ DetachTunnels)

Spec == Init /\ [][Next]_vars /\ Fairness
-----------------------------------------------------------------------------
(* Properties                                                               *)

(* The containers hold tunnels that exist, and an answered build request is *)
(* in the lists of Tunnels by the time it is inserted into the pool.        *)
TypeOK ==
  /\ tunnel \in [Tunnel -> Fields \cup {None}]
  /\ pending \subseteq Tunnel /\ listed \subseteq Tunnel /\ members \subseteq Tunnel
  /\ m_Tests \subseteq Out \X In
  /\ \A t \in Tunnel : tunnel[t] # None <=> t \in Referenced
  /\ m_IsActive \in BOOLEAN /\ due \in BOOLEAN /\ crashed \in BOOLEAN
  /\ client \in {"running", "detachIn", "detachOut", "clearTests", "stopped"}
  /\ pc \in {"idle", "add", "insert", "inbound", "outbound", "create", "test"}
  /\ adding \in IF pc \in {"add", "insert"} THEN listed ELSE {None}

(* A tunnel of the pool is a listed tunnel that points back to the pool (so *)
(* that its expiration takes it out again), is built, has not failed, and   *)
(* has not expired when ManageTunnels is over, however creation, tests,     *)
(* expiration and DetachTunnels interleave.                                 *)
PoolSound ==
  \A t \in members :
    /\ t \in listed /\ tunnel[t].pool
    /\ tunnel[t].state \in {"Established", "TestFailed", "Expiring"}
    /\ NotBusy /\ ~due => ~Ends(t, 0)

(* A tunnel fails only after two failed tests in a row; a test that passes  *)
(* in between clears both of its tunnels.                                   *)
TwoStrikes ==
  \A t \in Tunnel : tunnel[t] # None /\ IsFailed(tunnel, t) => tunnel[t].strikes = 2

(* Every build request is answered or given up in the end, and leaves the   *)
(* pending tunnels.                                                         *)
PendingResolved == \A t \in Tunnel : t \in pending ~> t \notin pending \/ crashed

(* The pool of a stopped destination is empty in the end, also when a       *)
(* tunnel was inserted behind DetachTunnels.                                *)
StoppedPoolDrains == client = "stopped" ~> members = {} \/ client = "running" \/ crashed
=============================================================================
