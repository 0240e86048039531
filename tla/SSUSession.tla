----------------------------- MODULE SSUSession -----------------------------
(* SSU sessions and the server that owns them (src/core/transport/SSU.cpp,  *)
(* SSUSession.cpp): the handshake over datagrams that may be lost or        *)
(* overtaken, introduction through a third router, peer tests, timers and   *)
(* the table of sessions.  Keys are named, not computed: a session key is   *)
(* the pair of DH keys it comes from, an intro key the router it belongs    *)
(* to.  An endpoint is the router behind it.  SSUData.tla has the data      *)
(* layer; of it only the DeliveryStatus that completes a handshake is here. *)
EXTENDS Naturals, Sequences, FiniteSets, FiniteSetsExt

CONSTANTS
  Routers,        \* routers that speak SSU
  Introducers,    \* routers that introduce others (IsIntroducer)
  Hidden,         \* routers that are reached through Via (UsesIntroducer)
  Via,            \* the introducer of the Hidden routers
  Dials,          \* pairs <<r, p>>: r calls GetSession for p, one pair in a behaviour
  Testers,        \* those of Dials made for a peer test
  NoSession,
  MaxSessions,    \* bound: session objects alive at a time
  MaxKeys,        \* bound: DH keys ever used
  MaxNet,         \* bound: datagrams in flight
  MaxHops,        \* bound: peer test datagrams that are not lost (a whole test has seven)
  Batch           \* packets HandleReceivedPackets may get at once

ASSUME SSUAssumption ==
  /\ Introducers \cup Hidden \subseteq Routers /\ Hidden # {} /\ Via \in Routers \ Hidden
  /\ Dials \subseteq Routers \X Routers
  /\ {MaxSessions, MaxKeys, MaxNet, MaxHops, Batch} \subseteq Nat /\ MaxSessions >= 2

VARIABLES
  objs,       \* session objects by number
  table,      \* m_Sessions of each router: endpoint -> number, 0 for none
  tests,      \* m_PeerTests of each router: its role in the one test
  status,     \* context.GetStatus of each router
  cur,        \* per router: the session and the packets left of a batch
  net,        \* datagrams in flight
  keys,       \* DH keys used so far
  hops,       \* peer test datagrams that were not lost
  dial,       \* the one of Dials that is followed
  proven      \* session keys with which a server side got established

ssuVars == <<objs, table, tests, status, cur, net, keys, hops, dial, proven>>

Numbers == 1..MaxSessions
Idle == [session |-> 0, left |-> 0]
NoTest == [role |-> "unknown", session |-> 0]
NoKey == <<0, 0>>

(* A session object of r with its m_State, m_RemoteEndpoint, m_RemoteRouter *)
(* (r itself when there is none), DH key, session key, m_Timer, m_RelayTag, *)
(* m_PeerTest and the keys of the DeliveryStatus messages that m_Data may   *)
(* send again.                                                              *)
Session(r, remote, router, test) ==
  [owner |-> r, state |-> "Unknown", remote |-> remote, router |-> router, dh |-> 0,
   key |-> NoKey, timer |-> "none", tag |-> FALSE, test |-> test, kept |-> {}]

Outgoing(s) == s.router # s.owner
InTable(i) == \E r, e \in Routers : table[r][e] = i

(* A world is what the handlers change; out is what they send.              *)
World == [objs |-> objs, table |-> table, tests |-> tests, status |-> status,
          keys |-> keys, out |-> {}, proven |-> proven]

(* An object lives as long as a table, a batch or a peer test points to it. *)
Referenced(w, c, i) ==
  \/ \E r, e \in Routers : w.table[r][e] = i
  \/ \E r \in Routers : c[r].session = i \/ w.tests[r].session = i

Becomes(w, c, rest) ==
  /\ objs' = [i \in Numbers |-> IF Referenced(w, c, i) THEN w.objs[i] ELSE NoSession]
  /\ table' = w.table /\ tests' = w.tests /\ status' = w.status
  /\ keys' = w.keys /\ proven' = w.proven /\ cur' = c /\ UNCHANGED dial
  /\ \E arriving \in SUBSET w.out :                    \* the others are lost
       /\ net' = rest \cup arriving
       /\ hops' = hops + Cardinality({d \in arriving : d.type = "test"})
       /\ hops' <= MaxHops
       /\ Cardinality(net') <= MaxNet

Datagram(type, from, to, enc, body) == [type |-> type, from |-> from, to |-> to, enc |-> enc, body |-> body]
Intro(r) == <<0, r>>

(* What a datagram carries: a DH key or the kind of a data message, an      *)
(* address and the router whose intro key to use.                           *)
Body(n, addr, ikey) == [n |-> n, addr |-> addr, ikey |-> ikey]
Empty == Body(0, NoSession, NoSession)
Status == Body(1, NoSession, NoSession)
Sent(w, d) == [w EXCEPT !.out = @ \cup {d}]
With(w, i, s) == [w EXCEPT !.objs[i] = s]

(* FillHeaderAndEncrypt with the session key, and Send to m_RemoteEndpoint. *)
SendOwn(w, i, type, body) ==
  Sent(w, Datagram(type, w.objs[i].owner, w.objs[i].remote, w.objs[i].key, body))

GetIntroKey(s) == Intro(s.router)

----------------------------------------------------------------------------
(* Closing.  Close tells the other side if there is a session key, tells    *)
(* Transports and stops the timer; DeleteSession then erases the entry of   *)
(* the endpoint the session has now.                                        *)
Close(w, i) ==
  LET s == w.objs[i]
      v == With(w, i, [s EXCEPT !.state = "Closed", !.timer = "none"])
  IN IF s.key = NoKey THEN v ELSE SendOwn(v, i, "destroyed", Empty)

DeleteSession(w, i) ==
  LET s == w.objs[i]
  IN [Close(w, i) EXCEPT !.table[s.owner][s.remote] = 0]

Failed(w, i) ==
  IF w.objs[i].state = "Failed" THEN w
  ELSE DeleteSession(With(w, i, [w.objs[i] EXCEPT !.state = "Failed"]), i)

----------------------------------------------------------------------------
(* The handshake.                                                           *)
CreateAESandMacKey(s, x, y) == [s EXCEPT !.key = <<x, y>>]

(* GetNextDHKeysPair for object i.                                          *)
NextKey(w, i) == [w EXCEPT !.keys = @ + 1, !.objs[i].dh = w.keys + 1]

SendSessionRequest(w, i) ==
  LET s == w.objs[i]
  IN Sent(w, Datagram("request", s.owner, s.remote, GetIntroKey(s), Body(s.dh, NoSession, NoSession)))

(* Variant: the connect timer is left out.                                  *)
ScheduleConnectTimerNot(s) == s
ScheduleConnectTimer(s) == [s EXCEPT !.timer = "connect"]

Connect(w, i) ==
  IF w.objs[i].state # "Unknown" THEN w
  ELSE SendSessionRequest(NextKey(With(w, i, ScheduleConnectTimer(w.objs[i])), i), i)

WaitForConnect(s) == IF Outgoing(s) THEN s ELSE ScheduleConnectTimer(s)

(* Variant: the server does not wait for the client's confirmation.         *)
SendSessionCreatedAtOnce(w, i) ==
  LET s == w.objs[i]
  IN SendOwn(Sent(w, Datagram("created", s.owner, s.remote, GetIntroKey(s),
                              Body(s.dh, NoSession, NoSession))), i, "data", Status)
SendSessionCreated(w, i) ==
  LET s == w.objs[i]
  IN Sent(w, Datagram("created", s.owner, s.remote, GetIntroKey(s),
                      Body(s.dh, NoSession, NoSession)))

(* The remote endpoint is taken from the packet; an established session     *)
(* gets a new key and stays established.                                    *)
ProcessSessionRequest(w, i, d) ==
  LET v == With(w, i, [w.objs[i] EXCEPT !.remote = d.from])
      k == IF v.objs[i].dh = 0 THEN NextKey(v, i) ELSE v
      u == With(k, i, CreateAESandMacKey(k.objs[i], d.body.n, k.objs[i].dh))
  IN SendSessionCreated(u, i)

SendSessionConfirmed(w, i) == SendOwn(w, i, "confirmed", Empty)

(* The signature covers x: a stale answer does not verify, which is logged  *)
(* and nothing more.  The connect timer is cancelled for good.              *)
ProcessSessionCreated(w, i, d) ==
  LET s == w.objs[i]
  IN IF ~Outgoing(s) \/ s.dh = 0 THEN w
     ELSE SendSessionConfirmed(
            With(w, i, [CreateAESandMacKey(s, s.dh, d.body.n) EXCEPT
                          !.timer = "none", !.tag = (d.from \in Introducers)]), i)

ScheduleTerminationSSU(s) == [s EXCEPT !.timer = "term"]

(* Alice starts a peer test through this session.                           *)
StartPeerTest(w, i) ==
  LET r == w.objs[i].owner
      v == [w EXCEPT !.objs[i].test = FALSE, !.tests[r] = [role |-> "Alice1", session |-> 0]]
  IN SendOwn(v, i, "test", Body(0, NoSession, r))

Established(w, i) ==
  LET s == w.objs[i]
      v == SendOwn(With(w, i, ScheduleTerminationSSU([s EXCEPT !.state = "Established", !.dh = 0])),
                   i, "data", Empty)
  IN IF s.test /\ Outgoing(s) THEN StartPeerTest(v, i) ELSE v

SendDeliveryStatus(w, i) ==
  SendOwn([w EXCEPT !.objs[i].kept = @ \cup {w.objs[i].key}], i, "data", Status)

ProcessSessionConfirmed(w, i) ==
  Established(SendDeliveryStatus([w EXCEPT !.proven = @ \cup {w.objs[i].key}], i), i)

(* SSUData hands up a DeliveryStatus or another message.                    *)
ProcessData(w, i, d) ==
  IF w.objs[i].state # "Established" /\ d.body = Status THEN Established(w, i) ELSE w

----------------------------------------------------------------------------
(* Introduction: Alice asks Bob (Via), who answers her and tells Charlie.   *)
SendRelayRequest(w, i, to) ==
  LET s == w.objs[i]
      enc == IF s.state = "Established" THEN s.key ELSE Intro(s.remote)
  IN Sent(w, Datagram("relayreq", s.owner, s.remote, enc, Body(0, to, s.owner)))

SendRelayResponse(w, i, d) ==
  IF w.objs[i].state = "Established"
  THEN SendOwn(w, i, "relayresp", Empty)
  ELSE Sent(w, Datagram("relayresp", w.objs[i].owner, d.from, Intro(d.body.ikey), Empty))

SendRelayIntro(w, j, alice) ==
  LET s == w.objs[j] IN Sent(w, Datagram("relayintro", s.owner, s.remote, s.key, Body(0, alice, NoSession)))

(* A relay tag stands for the endpoint it was given to; FindRelaySession.   *)
ProcessRelayRequest(w, i, d) ==
  LET r == w.objs[i].owner
      j == w.table[r][d.body.addr]
  IN IF j = 0 \/ r \notin Introducers THEN w
     ELSE SendRelayIntro(SendRelayResponse(w, i, d), j, d.from)

(* Only the router's own address is learnt from a response.                 *)
ProcessRelayResponse(w, i) ==
  IF w.objs[i].state = "Established" THEN w ELSE DeleteSession(w, i)

HolePunch(from, to) == Datagram("punch", from, to, NoKey, Empty)

ProcessRelayIntro(w, i, d) == Sent(w, HolePunch(w.objs[i].owner, d.body.addr))

(* Introduce and WaitForIntroduction.                                       *)
Introduce(w, i, to) ==
  LET s == w.objs[i]
  IN SendRelayRequest(IF s.state = "Unknown" THEN With(w, i, ScheduleConnectTimer(s)) ELSE w, i, to)

WaitForIntroduction(s) == [s EXCEPT !.state = "Introduced", !.timer = "connect"]

----------------------------------------------------------------------------
(* Peer test: Alice asks Bob, Bob picks Charlie, Charlie answers both.      *)
EstablishedSessions(w, r, excluded) ==
  {w.table[r][e] : e \in {e \in Routers : w.table[r][e] \notin {0, excluded}
                                          /\ w.objs[w.table[r][e]].state = "Established"}}

SetTest(w, r, role, i) == [w EXCEPT !.tests[r] = [role |-> role, session |-> i]]
RemovePeerTest(w, r) == [w EXCEPT !.tests[r] = NoTest]

(* SendPeerTest to an address, with that router's intro key and our own.    *)
SendPeerTestTo(w, r, addr, ikey, body) ==
  Sent(w, Datagram("test", r, addr, Intro(ikey), [body EXCEPT !.ikey = r]))

TestAlice(w, i, d) ==
  LET s == w.objs[i]
      r == s.owner
      ok == [w EXCEPT !.status[r] = "OK"]
      first == w.tests[r].role = "Alice1"
  IN CASE s.state = "Established" /\ first /\ w.status[r] = "Testing" -> [w EXCEPT !.status[r] = "Firewalled"]
       [] s.state # "Established" /\ first ->
            SendPeerTestTo(SetTest(ok, r, "Alice2", 0), r, d.from, d.body.ikey, Body(0, NoSession, r))
       [] s.state # "Established" /\ ~first -> RemovePeerTest(ok, r)
       [] OTHER -> w

TestBob(w, i, d) ==
  LET r == w.objs[i].owner
      j == w.tests[r].session
      v == RemovePeerTest(w, r)
  IN IF j # 0 /\ w.objs[j].state = "Established" THEN SendOwn(v, j, "test", d.body) ELSE v

TestCharlie(w, i, d) ==
  LET r == w.objs[i].owner
  IN RemovePeerTest(SendPeerTestTo(w, r, d.from, d.body.ikey, Body(0, d.from, r)), r)

TestNew(w, i, d) ==
  LET r == w.objs[i].owner
  IN IF w.objs[i].state # "Established" THEN {w}
     ELSE IF d.body.addr # NoSession
     THEN {SendPeerTestTo(SendOwn(SetTest(w, r, "Charlie", 0), i, "test", d.body),
                          r, d.body.addr, d.body.ikey, d.body)}
     ELSE LET others == EstablishedSessions(w, r, i)
          IN {SendOwn(SetTest(w, r, "Bob", i), j, "test", [d.body EXCEPT !.addr = d.from]) : j \in others}
             \cup (IF others = {} THEN {w} ELSE {})

ProcessPeerTest(w, i, d) ==
  CASE w.tests[w.objs[i].owner].role \in {"Alice1", "Alice2"} -> {TestAlice(w, i, d)}
    [] w.tests[w.objs[i].owner].role = "Bob" -> {TestBob(w, i, d)}
    [] w.tests[w.objs[i].owner].role = "Charlie" -> {TestCharlie(w, i, d)}
    [] OTHER -> TestNew(w, i, d)

----------------------------------------------------------------------------
(* Receiving.                                                               *)
ProcessMessage(w, i, d) ==
  CASE d.type = "data" -> {ProcessData(w, i, d)}
    [] d.type = "request" -> {ProcessSessionRequest(w, i, d)}
    [] d.type = "created" -> {ProcessSessionCreated(w, i, d)}
    [] d.type = "confirmed" -> {ProcessSessionConfirmed(w, i)}
    [] d.type = "test" -> ProcessPeerTest(w, i, d)
    [] d.type = "destroyed" -> {DeleteSession(w, i)}
    [] d.type = "relayresp" -> {ProcessRelayResponse(w, i)}
    [] d.type = "relayreq" -> {ProcessRelayRequest(w, i, d)}
    [] d.type = "relayintro" -> {ProcessRelayIntro(w, i, d)}

Validate(s, d) ==
  \/ s.key # NoKey /\ d.enc = s.key
  \/ d.enc \in {GetIntroKey(s), Intro(s.owner)}

(* The first packet for an introduced session is taken for the hole punch.  *)
ProcessNextMessage(w, i, d) ==
  LET s == w.objs[i]
      v == IF s.state = "Established" THEN With(w, i, ScheduleTerminationSSU(s)) ELSE w
  IN CASE s.state = "Introduced" -> {Connect(With(w, i, [s EXCEPT !.state = "Unknown"]), i)}
       [] s.state # "Introduced" /\ d.type = "punch" -> {w}
       [] s.state # "Introduced" /\ d.type # "punch" /\ Validate(s, d) -> ProcessMessage(v, i, d)
       [] OTHER -> {DeleteSession(v, i)}

Free == {i \in Numbers : objs[i] = NoSession}

(* Which session gets a packet: that of the previous packet of the batch if *)
(* it has the packet's endpoint, else the one in the table, else again that *)
(* of the previous packet, else a new one.                                  *)
SessionFor(r, d) ==
  LET previous == cur[r].session
      entry == table[r][d.from]
  IN IF previous # 0 /\ objs[previous].remote = d.from THEN previous
     ELSE IF entry # 0 THEN entry ELSE previous

HandleReceivedPackets(r, d) ==
  LET known == SessionFor(r, d)
      left == (IF cur[r].left = 0 THEN Batch ELSE cur[r].left) - 1
      i == IF known # 0 THEN known ELSE Min(Free)
      w == IF known # 0 THEN World
           ELSE [World EXCEPT !.objs[i] = WaitForConnect(Session(r, d.from, r, FALSE)),
                              !.table[r][d.from] = i]
  IN /\ d.to = r
     /\ known # 0 \/ Free # {}
     /\ d.type \in {"request", "punch"} => keys < MaxKeys
     /\ \E v \in ProcessNextMessage(w, i, d), last \in BOOLEAN :
          Becomes(v, [cur EXCEPT ![r] = IF left = 0 \/ last THEN Idle ELSE [session |-> i, left |-> left]],
                  net \ {d})

(* Between batches, the other handlers of the server's thread.              *)
Ready(r) == cur[r].left = 0

----------------------------------------------------------------------------
(* GetSession, called for Transports.                                       *)
Direct(w, r, p, i) ==
  Connect([w EXCEPT !.objs[i] = Session(r, p, p, <<r, p>> \in Testers), !.table[r][p] = i], i)

ThroughIntroducer(w, r, p, i, j) ==
  LET v == [w EXCEPT !.objs[i] = WaitForIntroduction(Session(r, p, p, FALSE)), !.table[r][p] = i]
      u == IF table[r][Via] # 0 THEN v
           ELSE [v EXCEPT !.objs[j] = Session(r, Via, p, FALSE), !.table[r][Via] = j]
      x == IF r \in Hidden THEN Sent(u, HolePunch(r, p)) ELSE u
  IN Introduce(x, j, p)

GetSession(r, p) ==
  /\ <<r, p>> = dial /\ table[r][p] = 0 /\ keys < MaxKeys
  /\ Free # {}
  /\ LET i == Min(Free)
     IN \/ /\ p \notin Hidden
           /\ Becomes(Direct(World, r, p, i), cur, net)
        \/ /\ p \in Hidden
           /\ table[r][Via] # 0 \/ Cardinality(Free) > 1
           /\ LET j == IF table[r][Via] # 0 THEN table[r][Via] ELSE Min(Free \ {i})
              IN Becomes(ThroughIntroducer(World, r, p, i, j), cur, net)

(* HandleConnectTimer and HandleTerminationTimer.                           *)
Timeout(i) ==
  /\ objs[i] # NoSession /\ objs[i].timer # "none" /\ Ready(objs[i].owner)
  /\ Becomes(Failed(World, i), cur, net)

(* The data layer sends a DeliveryStatus once more, encrypted as it was.    *)
Resend(i) ==
  /\ objs[i] # NoSession /\ objs[i].state = "Established" /\ InTable(i)
  /\ net = {}                                           \* bound
  /\ \E key \in objs[i].kept :
       Becomes(Sent(World, Datagram("data", objs[i].owner, objs[i].remote, key, Status)), cur, net)

HandlePeerTestsCleanupTimer(r) ==
  /\ tests[r] # NoTest
  /\ Becomes(RemovePeerTest(World, r), cur, net)

(* DetectExternalIP asks for another test.                                  *)
DetectExternalIP(r, p) ==
  /\ <<r, p>> = dial /\ dial \in Testers /\ status[r] = "Firewalled"
  /\ Becomes([World EXCEPT !.status[r] = "Testing"], cur, net)

(* Via and the hidden routers have a session to begin with.                 *)
Start(n, r, e, router) ==
  [Session(r, e, router, FALSE) EXCEPT !.state = "Established", !.key = <<1, 2>>, !.timer = "term", !.tag = (router # r)]

SSUInit ==
  LET c == CHOOSE c \in Hidden : TRUE
  IN /\ objs = [i \in Numbers |-> CASE i = 1 -> Start(1, c, Via, Via)
                                    [] i = 2 -> Start(2, Via, c, Via)
                                    [] OTHER -> NoSession]
     /\ table = [r \in Routers |-> [e \in Routers |->
          CASE r = c /\ e = Via -> 1 [] r = Via /\ e = c -> 2 [] OTHER -> 0]]
     /\ tests = [r \in Routers |-> NoTest]
     /\ status = [r \in Routers |-> "Testing"]
     /\ cur = [r \in Routers |-> Idle]
     /\ net = {}
     /\ keys = 2
     /\ hops = 0
     /\ dial \in Dials
     /\ proven = {<<1, 2>>}

SSUNext ==
  \/ \E r \in Routers, d \in net : HandleReceivedPackets(r, d)
  \/ \E r \in Routers : HandlePeerTestsCleanupTimer(r)
  \/ \E r, p \in Routers : GetSession(r, p) \/ DetectExternalIP(r, p)
  \/ \E i \in Numbers : Timeout(i) \/ Resend(i)

SSUSpec == SSUInit /\ [][SSUNext]_ssuVars

----------------------------------------------------------------------------
(* Every session in a table has a timer that ends it when nothing happens,  *)
(* but for a client that has sent SessionConfirmed and waits for the first  *)
(* data: ProcessSessionCreated cancels the connect timer.                   *)
SessionTimed ==
  \A i \in Numbers : InTable(i) /\ objs[i].timer = "none" =>
    Outgoing(objs[i]) /\ objs[i].state = "Unknown" /\ objs[i].key # NoKey

(* A client session is established only with a key the server side has      *)
(* proven too: SessionConfirmed got through before the first data came.     *)
ClientAfterServer ==
  \A i \in Numbers : objs[i] # NoSession /\ objs[i].state = "Established" /\ Outgoing(objs[i])
                     /\ objs[i].dh = 0 =>              \* not while it gets a new key
    objs[i].key \in proven

(* The entry of an endpoint in m_Sessions is a session with that endpoint.  *)
(* The code does not keep this once a batch has two packets.                *)
TableMatches ==
  \A r, e \in Routers : table[r][e] # 0 => objs[table[r][e]].remote = e
=============================================================================
