--------------------------- MODULE ClientsProofs ---------------------------
(***************************************************************************)
(* For any number of sockets, commands and nicknames: in a client or server *)
(* tunnel exactly one handler owns an open local socket, and a BOB session  *)
(* works on one answer at a time, or on none once a handler dropped it.     *)
(* Every handler works on what it owns or owes, so each proof says what one *)
(* socket, or one session, may look like, and that a handler leaves the     *)
(* others alone.                                                            *)
(* In the SAM bridge a socket that had one of the three commands and has a  *)
(* stream is in the list of a session that exists, and an acceptor that had *)
(* one of them waits for a stream.  The invariant keeps the sockets, the    *)
(* sessions' lists and the table of ids in step for these sockets, and      *)
(* says of the others only what their lists need; a socket that looks a     *)
(* destination up is in no list yet, and its session may be gone by the     *)
(* time the answer comes.                                                   *)
(* The state of a proxy's parser tells how much of a request it has heard   *)
(* and what is still to come, for SOCKS4, SOCKS5 and HTTP.  Every octet     *)
(* moves it to the state of the octets heard so far, or turns down what can *)
(* no longer become a request; the octets of a piece follow by induction.   *)
(***************************************************************************)
EXTENDS BOB, I2PTunnel, SAM, Proxies, FiniteSetTheorems, SequenceTheorems, WellFoundedInduction, TLAPS

(* The tunnels: one socket with its handlers.                               *)
Connections ==
  [front : {"none", "creating", "dead"}, conn : {"none", "connecting", "open", "dead"},
   listed : SUBSET {"front", "conn"}, sock : BOOLEAN, stream : BOOLEAN,
   localOp : {"none", "read", "sending"}, streamOp : {"none", "receive", "write"},
   headerSent : BOOLEAN]

Joined(t) == t.conn \in {"connecting", "open"}

(* Only an open connection has operations under way.                        *)
ConnectionInv(s, t) ==
  /\ t.front = "creating" => t.conn = "none"
  /\ t.sock <=> t.front = "creating" \/ Joined(t)
  /\ "front" \in t.listed => t.front = "creating"
  /\ "conn" \in t.listed => Joined(t)
  /\ t.localOp # "none" \/ t.streamOp # "none" => t.conn = "open"
  /\ t.conn = "open" =>
       /\ t.localOp # "none"
       /\ t.streamOp # "none" \/ (TunKind[s] = "http" /\ ~t.headerSent)

TunInv ==
  /\ tun \in [TunSockets -> Connections]
  /\ \A s \in TunSockets : ConnectionInv(s, tun[s])

-----------------------------------------------------------------------------
(* What becomes of one socket.                                              *)
LEMMA Unowing ==
  ASSUME TunInv, NEW s \in TunSockets, NEW t \in Connections, ConnectionInv(s, t),
         tun' = [tun EXCEPT ![s] = t]
  PROVE  TunInv'
  BY DEF TunInv, ConnectionInv, Joined

LEMMA OwnerSettled ==
  ASSUME TunInv, NEW s \in TunSockets, NEW t \in Connections, ConnectionInv(s, t),
         ByOwner(s, t) \/ TunSet(s, t)
  PROVE  TunInv'
<1>1. CASE tun' = tun
  BY <1>1 DEF TunInv, ConnectionInv, Joined
<1>2. CASE tun' = [tun EXCEPT ![s] = t]
  BY <1>2, Unowing
<1> QED
  BY <1>1, <1>2 DEF ByOwner, TunSet, TunCrash

LEMMA TerminatedFacts ==
  ASSUME NEW s \in TunSockets, NEW t \in Connections, ConnectionInv(s, t), t.conn # "none"
  PROVE  Terminated(t) \in Connections /\ ConnectionInv(s, Terminated(t))
<1>1. Terminated(t) \in Connections
  BY DEF Terminated, Connections
<1>2. /\ Terminated(t).front = t.front /\ Terminated(t).conn = "dead"
      /\ ~Terminated(t).sock /\ Terminated(t).listed = t.listed \ {"conn"}
      /\ Terminated(t).localOp = "none" /\ Terminated(t).streamOp = "none"
  BY DEF Terminated, Connections
<1> QED
  BY <1>1, <1>2 DEF ConnectionInv, Joined

(* Write keeps what there is to read from.                                  *)
LEMMA WrittenFacts ==
  ASSUME NEW s \in TunSockets, NEW t \in Connections, NEW endOfHeader \in BOOLEAN,
         ConnectionInv(s, [t EXCEPT !.streamOp = "receive"]), t.conn = "open"
  PROVE  Written(s, t, endOfHeader) \in Connections
         /\ ConnectionInv(s, Written(s, t, endOfHeader))
  BY DEF Written, Connections, ConnectionInv, Joined

-----------------------------------------------------------------------------
(* Every handler keeps the sockets owned.                                   *)
LEMMA TunStep == TunInv /\ [TunNext]_tunVars => TunInv'
<1> SUFFICES ASSUME TunInv, [TunNext]_tunVars
             PROVE  TunInv'
  OBVIOUS
<1>1. ASSUME NEW s \in TunSockets
      PROVE  tun[s] \in Connections /\ ConnectionInv(s, tun[s])
  BY DEF TunInv
<1>2. ASSUME NEW s \in TunSockets, tun[s].conn # "none",
             ByOwner(s, Terminated(tun[s]))
      PROVE  TunInv'
  BY <1>1, <1>2, TerminatedFacts, OwnerSettled
<1>3. ASSUME NEW s \in TunSockets, TunHandleReceived(s)
      PROVE  TunInv'
  <2>1. CASE TunSet(s, [tun[s] EXCEPT !.localOp = "sending"])
    <3> DEFINE t == [tun[s] EXCEPT !.localOp = "sending"]
    <3>1. t \in Connections /\ ConnectionInv(s, t)
      BY <1>1, <1>3 DEF TunHandleReceived, Connections, ConnectionInv, Joined
    <3> QED
      BY <2>1, <3>1, OwnerSettled
  <2>2. CASE ByOwner(s, Terminated(tun[s]))
    BY <1>2, <1>3, <2>2 DEF TunHandleReceived
  <2> QED
    BY <1>3, <2>1, <2>2 DEF TunHandleReceived
<1>4. ASSUME NEW s \in TunSockets, TunSendComplete(s)
      PROVE  TunInv'
  <2>0. tun[s].conn = "open"
    BY <1>1, <1>4 DEF TunSendComplete, ConnectionInv
  <2>1. CASE TunSet(s, [tun[s] EXCEPT !.localOp = "read"])
    <3> DEFINE t == [tun[s] EXCEPT !.localOp = "read"]
    <3>1. t \in Connections /\ ConnectionInv(s, t)
      BY <1>1, <2>0 DEF Connections, ConnectionInv, Joined
    <3> QED
      BY <2>1, <3>1, OwnerSettled
  <2>2. CASE ByOwner(s, Terminated(tun[s]))
    BY <1>2, <2>0, <2>2
  <2> QED
    BY <1>4, <2>1, <2>2 DEF TunSendComplete
<1>5. ASSUME NEW s \in TunSockets, HandleStreamReceive(s)
      PROVE  TunInv'
  <2>0. tun[s].conn = "open"
    BY <1>1, <1>5 DEF HandleStreamReceive, ConnectionInv
  <2>1. ASSUME NEW endOfHeader \in BOOLEAN, TunSet(s, Written(s, tun[s], endOfHeader))
        PROVE  TunInv'
    <3>1. ConnectionInv(s, [tun[s] EXCEPT !.streamOp = "receive"])
      BY <1>1, <2>0 DEF Connections, ConnectionInv, Joined
    <3> QED
      BY <1>1, <2>0, <2>1, <3>1, WrittenFacts, OwnerSettled
  <2>2. CASE ByOwner(s, Terminated(tun[s]))
    BY <1>2, <2>0, <2>2
  <2> QED
    BY <1>5, <2>1, <2>2 DEF HandleStreamReceive
<1>6. ASSUME NEW s \in TunSockets, HandleWrite(s)
      PROVE  TunInv'
  <2>0. tun[s].conn = "open"
    BY <1>1, <1>6 DEF HandleWrite, ConnectionInv
  <2>1. CASE TunSet(s, [tun[s] EXCEPT !.streamOp = "receive"])
    <3> DEFINE t == [tun[s] EXCEPT !.streamOp = "receive"]
    <3>1. t \in Connections /\ ConnectionInv(s, t)
      BY <1>1, <2>0 DEF Connections, ConnectionInv, Joined
    <3> QED
      BY <2>1, <3>1, OwnerSettled
  <2>2. CASE ByOwner(s, Terminated(tun[s]))
    BY <1>2, <2>0, <2>2
  <2> QED
    BY <1>6, <2>1, <2>2 DEF HandleWrite
<1>7. ASSUME NEW s \in TunSockets, HandleConnect(s)
      PROVE  TunInv'
  <2> DEFINE t == [tun[s] EXCEPT !.conn = "open", !.localOp = "read", !.streamOp = "receive"]
  <2>0. tun[s].conn = "connecting"
    BY <1>7 DEF HandleConnect
  <2>1. t \in Connections /\ ConnectionInv(s, t) /\ t.conn = "open"
        /\ ConnectionInv(s, [t EXCEPT !.streamOp = "receive"])
    BY <1>1, <2>0 DEF Connections, ConnectionInv, Joined
  <2>2. CASE TunSet(s, t)
    BY <2>1, <2>2, OwnerSettled
  <2>3. CASE TunSet(s, Written(s, t, FALSE))
    <3>1. Written(s, t, FALSE) \in Connections /\ ConnectionInv(s, Written(s, t, FALSE))
      BY <2>1, WrittenFacts
    <3> QED
      BY <2>3, <3>1, OwnerSettled
  <2>4. CASE ByOwner(s, Terminated(tun[s]))
    BY <1>2, <2>0, <2>4
  <2> QED
    BY <1>7, <2>2, <2>3, <2>4 DEF HandleConnect
<1>8. ASSUME NEW s \in TunSockets, TunHandleAccept(s)
      PROVE  TunInv'
  <2>1. CASE tun' = [tun EXCEPT ![s] = [Tun EXCEPT !.front = "creating", !.sock = TRUE,
                                                   !.listed = {"front"}]]
    <3> DEFINE t == [Tun EXCEPT !.front = "creating", !.sock = TRUE, !.listed = {"front"}]
    <3>1. t \in Connections /\ ConnectionInv(s, t)
      BY DEF Tun, Connections, ConnectionInv, Joined
    <3> QED
      BY <2>1, <3>1, Unowing
  <2>2. CASE tun' = [tun EXCEPT ![s].front = "dead"]
    <3> DEFINE t == [tun[s] EXCEPT !.front = "dead"]
    <3>1. t \in Connections /\ ConnectionInv(s, t)
      BY <1>1, <1>8 DEF TunHandleAccept, Tun, Connections, ConnectionInv, Joined
    <3>2. tun' = [tun EXCEPT ![s] = t]
      BY <2>2
    <3> QED
      BY <3>1, <3>2, Unowing
  <2> QED
    BY <1>8, <2>1, <2>2 DEF TunHandleAccept
<1>9. ASSUME NEW s \in TunSockets, TunStreamRequestComplete(s)
      PROVE  TunInv'
  <2> DEFINE done == [tun[s] EXCEPT !.front = "dead", !.listed = @ \ {"front"}]
  <2>0. tun[s].front = "creating" /\ tun[s].conn = "none"
    BY <1>1, <1>9 DEF TunStreamRequestComplete, ConnectionInv
  <2>1. CASE ByOwner(s, I2PConnected(done))
    <3>1. I2PConnected(done) \in Connections /\ ConnectionInv(s, I2PConnected(done))
      BY <1>1, <2>0 DEF I2PConnected, Connections, ConnectionInv, Joined
    <3> QED
      BY <2>1, <3>1, OwnerSettled
  <2>2. CASE ByOwner(s, [done EXCEPT !.sock = FALSE])
    <3> DEFINE t == [done EXCEPT !.sock = FALSE]
    <3>1. t \in Connections /\ ConnectionInv(s, t)
      BY <1>1, <2>0 DEF Connections, ConnectionInv, Joined
    <3> QED
      BY <2>2, <3>1, OwnerSettled
  <2> QED
    BY <1>9, <2>1, <2>2 DEF TunStreamRequestComplete
<1>10. ASSUME NEW s \in TunSockets, ServerHandleAccept(s)
       PROVE  TunInv'
  <2>0. tun[s] = Tun
    BY <1>10 DEF ServerHandleAccept
  <2>1. CASE ByOwner(s, [tun[s] EXCEPT !.conn = "connecting", !.stream = TRUE, !.sock = TRUE,
                                       !.listed = {"conn"}])
    <3> DEFINE t == [Tun EXCEPT !.conn = "connecting", !.stream = TRUE, !.sock = TRUE,
                                !.listed = {"conn"}]
    <3>1. t \in Connections /\ ConnectionInv(s, t)
      BY DEF Tun, Connections, ConnectionInv, Joined
    <3>2. ByOwner(s, t)
      BY <2>0, <2>1
    <3> QED
      BY <3>1, <3>2, OwnerSettled
  <2>2. CASE ByOwner(s, [tun[s] EXCEPT !.conn = "dead"])
    <3> DEFINE t == [tun[s] EXCEPT !.conn = "dead"]
    <3>1. t \in Connections /\ ConnectionInv(s, t)
      BY <1>1, <2>0 DEF Tun, Connections, ConnectionInv, Joined
    <3> QED
      BY <2>2, <3>1, OwnerSettled
  <2> QED
    BY <1>10, <2>1, <2>2 DEF ServerHandleAccept
<1>11. ASSUME TunStop
       PROVE  TunInv'
  <2>1. tun' = [s \in TunSockets |-> [tun[s] EXCEPT !.listed = {}]]
    BY <1>11 DEF TunStop
  <2>2. ASSUME NEW s \in TunSockets
        PROVE  [tun[s] EXCEPT !.listed = {}] \in Connections
               /\ ConnectionInv(s, [tun[s] EXCEPT !.listed = {}])
    BY <1>1 DEF Connections, ConnectionInv, Joined
  <2>3. \A s \in TunSockets : tun'[s] = [tun[s] EXCEPT !.listed = {}]
    BY <2>1
  <2>4. \A s \in TunSockets : tun'[s] \in Connections /\ ConnectionInv(s, tun'[s])
    BY <2>2, <2>3
  <2>5. tun' \in [TunSockets -> Connections]
    BY <2>1, <2>2
  <2> QED
    BY <2>4, <2>5 DEF TunInv, ConnectionInv, Joined
<1>12. CASE HandleResolve \/ TunDelete \/ DestinationsStop \/ UNCHANGED tunVars
  BY <1>12 DEF HandleResolve, TunDelete, DestinationsStop, tunVars, TunInv, ConnectionInv, Joined
<1> QED
  BY <1>3, <1>4, <1>5, <1>6, <1>7, <1>8, <1>9, <1>10, <1>11, <1>12 DEF TunNext

(* A socket has one owner, who goes on reading it, whenever the service is  *)
(* stopped or deleted (TunnelOwned).                                        *)
THEOREM SpecTunnelOwned == TunSpec => []TunnelOwned
<1>1. TunInit => TunInv
  BY DEF TunInit, TunInv, Tun, Connections, ConnectionInv, Joined
<1>2. TunInv => TunnelOwned
  BY DEF TunInv, ConnectionInv, Joined, TunnelOwned, Connections
<1> QED
  BY <1>1, <1>2, TunStep, PTL DEF TunSpec

-----------------------------------------------------------------------------
(* The sessions of the BOB command channel.                                 *)
CommandSessions ==
  [socket : {"none", "up", "closed"}, reads : Nat, writes : Nat, lookups : Nat, extra : Nat,
   dropped : Nat, rest : Nat, open : BOOLEAN, nick : Nicks, inPort : BOOLEAN, outPort : BOOLEAN,
   current : BobObjects \cup {0}]

(* A session that has due answers to come besides the operations under way: *)
(* none between two handlers, one inside a handler.                         *)
SessionInv(v, due) ==
  /\ v.socket = "none" => v.reads = 0 /\ v.writes = 0 /\ v.lookups = 0 /\ v.extra = 0 /\ v.dropped = 0
  /\ v.socket = "up" => v.reads + v.writes + v.lookups + v.dropped + due = 1 + v.extra

SessionsType(S, T) ==
  S \in [BobSessions -> CommandSessions] /\ T \in [Nicks -> BobObjects \cup {0}]

BobInv ==
  /\ bobUp \in {"running", "stopped", "down"}
  /\ bobUp = "running" =>
       SessionsType(bobSess, bobTable) /\ \A s \in BobSessions : SessionInv(bobSess[s], 0)

Channel(S, D, T, R) == [sess |-> S, dests |-> D, table |-> T, recvs |-> R]

IsChannel(w) ==
  w = Channel(w.sess, w.dests, w.table, w.recvs) /\ SessionsType(w.sess, w.table)

(* Every session waits for what it asked for.                               *)
Answered(w) == IsChannel(w) /\ \A s \in BobSessions : SessionInv(w.sess[s], 0)

(* A handler of session s has taken an operation and started none.          *)
Owes(w, s) ==
  /\ IsChannel(w) /\ w.sess[s].socket # "none"
  /\ \A r \in BobSessions \ {s} : SessionInv(w.sess[r], 0)
  /\ SessionInv(w.sess[s], 1)

LEMMA ChannelFacts ==
  ASSUME NEW S, NEW D, NEW T, NEW R
  PROVE  /\ Channel(S, D, T, R).sess = S /\ Channel(S, D, T, R).dests = D
         /\ Channel(S, D, T, R).table = T /\ Channel(S, D, T, R).recvs = R
  BY DEF Channel

(* A handler changes its own session.                                       *)
LEMMA PutSession ==
  ASSUME NEW w, IsChannel(w), NEW s \in BobSessions, NEW v \in CommandSessions,
         \A r \in BobSessions \ {s} : SessionInv(w.sess[r], 0),
         NEW u, u = Channel([w.sess EXCEPT ![s] = v], w.dests, w.table, w.recvs)
  PROVE  /\ SessionInv(v, 0) => Answered(u)
         /\ SessionInv(v, 1) /\ v.socket # "none" => Owes(u, s)
<1>1. /\ u.sess = [w.sess EXCEPT ![s] = v] /\ u.dests = w.dests
      /\ u.table = w.table /\ u.recvs = w.recvs
  BY ChannelFacts
<1>2. w.sess \in [BobSessions -> CommandSessions] /\ w.table \in [Nicks -> BobObjects \cup {0}]
  BY DEF IsChannel, SessionsType
<1>3. u.sess \in [BobSessions -> CommandSessions] /\ u.sess[s] = v
      /\ \A r \in BobSessions \ {s} : u.sess[r] = w.sess[r]
  BY <1>1, <1>2
<1>4. IsChannel(u)
  BY <1>1, <1>2, <1>3 DEF IsChannel, SessionsType
<1> QED
  BY <1>3, <1>4 DEF Answered, Owes

LEMMA OwesFacts ==
  ASSUME NEW w, NEW s \in BobSessions, Owes(w, s)
  PROVE  /\ IsChannel(w) /\ w.sess[s] \in CommandSessions
         /\ w.sess[s].socket # "none" /\ SessionInv(w.sess[s], 1)
         /\ \A r \in BobSessions \ {s} : SessionInv(w.sess[r], 0)
         /\ w.sess \in [BobSessions -> CommandSessions] /\ w.table \in [Nicks -> BobObjects \cup {0}]
  BY DEF Owes, IsChannel, SessionsType

-----------------------------------------------------------------------------
(* Each way to end a handler pays what is due.                              *)
LEMMA SendPays ==
  ASSUME NEW w, NEW s \in BobSessions, Owes(w, s)
  PROVE  Answered(BobSend(w, s))
<1> DEFINE v == [w.sess[s] EXCEPT !.writes = @ + 1]
<1>1. v \in CommandSessions /\ SessionInv(v, 0)
  <2>1. PICK x \in CommandSessions : x = w.sess[s] /\ SessionInv(x, 1) /\ x.socket # "none"
    BY OwesFacts
  <2>2. ASSUME NEW y, y = [x EXCEPT !.writes = @ + 1]
        PROVE  y \in CommandSessions /\ SessionInv(y, 0)
    <3>1. /\ y \in CommandSessions /\ y.socket = x.socket /\ y.reads = x.reads
          /\ y.writes = x.writes + 1 /\ y.lookups = x.lookups /\ y.extra = x.extra /\ y.dropped = x.dropped
      BY <2>2 DEF CommandSessions
    <3> QED
      BY <2>1, <3>1 DEF CommandSessions, SessionInv
  <2> QED
    BY <2>1, <2>2
<1>2. ASSUME NEW u, u = BobSend(w, s)
      PROVE  u = Channel([w.sess EXCEPT ![s] = v], w.dests, w.table, w.recvs)
  BY <1>2, OwesFacts DEF BobSend, Channel, IsChannel
<1> HIDE DEF v
<1> QED
  BY <1>1, <1>2, OwesFacts, PutSession

LEMMA TerminatePays ==
  ASSUME NEW w, NEW s \in BobSessions, Owes(w, s)
  PROVE  Answered(BobTerminate(w, s))
<1> DEFINE v == [w.sess[s] EXCEPT !.socket = "closed", !.open = FALSE, !.reads = 0, !.writes = 0]
<1>1. v \in CommandSessions /\ SessionInv(v, 0)
  <2>1. PICK x \in CommandSessions : x = w.sess[s]
    BY OwesFacts
  <2>2. ASSUME NEW y, y = [x EXCEPT !.socket = "closed", !.open = FALSE, !.reads = 0, !.writes = 0]
        PROVE  y \in CommandSessions /\ y.socket = "closed"
    BY <2>2 DEF CommandSessions
  <2> QED
    BY <2>1, <2>2 DEF SessionInv
<1>2. ASSUME NEW u, u = BobTerminate(w, s)
      PROVE  u = Channel([w.sess EXCEPT ![s] = v], w.dests, w.table, w.recvs)
  BY <1>2, OwesFacts DEF BobTerminate, Channel, IsChannel
<1> HIDE DEF v
<1> QED
  BY <1>1, <1>2, OwesFacts, PutSession

LEMMA DropPays ==
  ASSUME NEW w, NEW s \in BobSessions, Owes(w, s)
  PROVE  Answered(BobDropped(w, s))
<1>1. PICK z \in CommandSessions : z = w.sess[s] /\ SessionInv(z, 1) /\ z.socket # "none"
  BY OwesFacts
<1>2. PICK v : v = [z EXCEPT !.dropped = @ + 1]
  OBVIOUS
<1>3. /\ v \in CommandSessions /\ v.socket = z.socket /\ v.reads = z.reads
      /\ v.writes = z.writes /\ v.lookups = z.lookups /\ v.extra = z.extra
      /\ v.dropped = z.dropped + 1
  BY <1>2 DEF CommandSessions
<1>4. SessionInv(v, 0)
  BY <1>1, <1>3 DEF SessionInv, CommandSessions
<1>5. PICK u : u = BobDropped(w, s)
  OBVIOUS
<1>6. u = Channel([w.sess EXCEPT ![s] = v], w.dests, w.table, w.recvs)
  BY <1>1, <1>2, <1>5, OwesFacts DEF BobDropped, Channel, IsChannel
<1>7. Answered(u)
  BY <1>3, <1>4, <1>6, OwesFacts, PutSession
<1> QED
  BY <1>5, <1>7

-----------------------------------------------------------------------------
(* What the commands do before they answer.                                 *)
LEMMA OwesElsewhere ==
  ASSUME NEW w, NEW s \in BobSessions, Owes(w, s),
         NEW D, NEW T \in [Nicks -> BobObjects \cup {0}], NEW R,
         NEW u, u = Channel(w.sess, D, T, R)
  PROVE  Owes(u, s) /\ u.sess = w.sess /\ u.table = T
<1>1. u.sess = w.sess /\ u.dests = D /\ u.table = T /\ u.recvs = R
  BY ChannelFacts
<1>2. IsChannel(u)
  BY <1>1, OwesFacts DEF IsChannel, SessionsType
<1> QED
  BY <1>1, <1>2 DEF Owes

LEMMA StopTunnelsOwes ==
  ASSUME NEW w, NEW s \in BobSessions, Owes(w, s), NEW n
  PROVE  /\ Owes(StopTunnels(w, n), s)
         /\ StopTunnels(w, n).sess = w.sess /\ StopTunnels(w, n).table = w.table
<1> ASSUME NEW u, u = StopTunnels(w, n)
    PROVE  Owes(u, s) /\ u.sess = w.sess /\ u.table = w.table
  <2>1. w = Channel(w.sess, w.dests, w.table, w.recvs)
    BY OwesFacts DEF IsChannel
  <2>2. PICK z : z = [w EXCEPT !.dests[n] = WithoutTunnels(@)]
    OBVIOUS
  <2>3. z = Channel(w.sess, [w.dests EXCEPT ![n] = WithoutTunnels(@)], w.table, w.recvs)
    BY <2>1, <2>2 DEF Channel
  <2>4. u = [z EXCEPT !.recvs = Orphaned(w.recvs, n)]
    BY <2>1, <2>2 DEF StopTunnels, Channel
  <2>5. u = Channel(w.sess, [w.dests EXCEPT ![n] = WithoutTunnels(@)], w.table, Orphaned(w.recvs, n))
    BY <2>3, <2>4 DEF Channel
  <2> QED
    BY <2>5, OwesFacts, OwesElsewhere
<1> QED
  OBVIOUS

LEMMA DeleteOwes ==
  ASSUME NEW w, NEW s \in BobSessions, Owes(w, s), NEW x \in Nicks
  PROVE  Owes(DeleteDestination(w, x), s)
<1>1. CASE w.table[x] = 0
  BY <1>1 DEF DeleteDestination
<1>2. CASE w.table[x] # 0
  <2>1. PICK n : n = w.table[x]
    OBVIOUS
  <2>2. PICK y : y = StopTunnels(w, n)
    OBVIOUS
  <2>3. Owes(y, s)
    BY <2>2, StopTunnelsOwes
  <2>4. [y.table EXCEPT ![x] = 0] \in [Nicks -> BobObjects \cup {0}]
    BY <2>3, OwesFacts
  <2>5. ASSUME NEW u, u = DeleteDestination(w, x)
        PROVE  Owes(u, s)
    <3>1. u = [y EXCEPT !.dests[n] = [BobDest EXCEPT !.made = TRUE], !.table[x] = 0]
      BY <1>2, <2>1, <2>2, <2>5 DEF DeleteDestination
    <3>2. PICK b : b = [BobDest EXCEPT !.made = TRUE]
      OBVIOUS
    <3>3. u = [y EXCEPT !.dests[n] = b, !.table[x] = 0]
      BY <3>1, <3>2
    <3>4. y = Channel(y.sess, y.dests, y.table, y.recvs)
      BY <2>3, OwesFacts DEF IsChannel
    <3>5. PICK z : z = [y EXCEPT !.dests[n] = b]
      OBVIOUS
    <3>6. z = Channel(y.sess, [y.dests EXCEPT ![n] = b], y.table, y.recvs)
      BY <3>4, <3>5 DEF Channel
    <3>7. u = [z EXCEPT !.table[x] = 0]
      BY <3>3, <3>5
    <3>8. u = Channel(y.sess, [y.dests EXCEPT ![n] = b], [y.table EXCEPT ![x] = 0], y.recvs)
      BY <3>6, <3>7 DEF Channel
    <3> QED
      BY <2>3, <2>4, <3>8, OwesElsewhere
  <2> QED
    BY <2>5
<1> QED
  BY <1>1, <1>2

(* A change of the session that leaves its count alone.                     *)
LEMMA OwesStill ==
  ASSUME NEW w, NEW s \in BobSessions, Owes(w, s), NEW v \in CommandSessions,
         v.socket = w.sess[s].socket, v.reads = w.sess[s].reads, v.writes = w.sess[s].writes,
         v.lookups = w.sess[s].lookups, v.extra = w.sess[s].extra, v.dropped = w.sess[s].dropped,
         NEW T \in [Nicks -> BobObjects \cup {0}], NEW D, NEW R,
         NEW u, u = Channel([w.sess EXCEPT ![s] = v], D, T, R)
  PROVE  Owes(u, s)
<1>1. PICK y : y = Channel(w.sess, D, T, R)
  OBVIOUS
<1>2. Owes(y, s) /\ y.sess = w.sess
  BY <1>1, OwesElsewhere
<1>3. y.dests = D /\ y.table = T /\ y.recvs = R
  BY <1>1, ChannelFacts
<1>4. SessionInv(v, 1) /\ v.socket # "none"
  BY OwesFacts DEF SessionInv
<1> QED
  BY <1>2, <1>3, <1>4, OwesFacts, PutSession

(* START makes a destination for the session that has none.                 *)
LEMMA WithDestinationOwes ==
  ASSUME NEW w, NEW s \in BobSessions, Owes(w, s), NEW n \in BobObjects,
         NEW local
  PROVE  Owes(WithDestination(w, s, n, local), s)
<1> DEFINE v == [w.sess[s] EXCEPT !.current = n]
           x == w.sess[s].nick
<1>1. /\ v \in CommandSessions /\ v.socket = w.sess[s].socket /\ v.reads = w.sess[s].reads
      /\ v.writes = w.sess[s].writes /\ v.lookups = w.sess[s].lookups
      /\ v.extra = w.sess[s].extra /\ v.dropped = w.sess[s].dropped /\ x \in Nicks
  BY OwesFacts DEF CommandSessions
<1>2. [w.table EXCEPT ![x] = n] \in [Nicks -> BobObjects \cup {0}]
  BY <1>1, OwesFacts
<1>3. w = Channel(w.sess, w.dests, w.table, w.recvs)
  BY OwesFacts DEF IsChannel
<1>4. PICK b : b = [w.dests[n] EXCEPT !.live = TRUE, !.made = TRUE, !.local = local]
  OBVIOUS
<1>5. PICK y : y = [w EXCEPT !.sess[s].current = n]
  OBVIOUS
<1>6. y = Channel([w.sess EXCEPT ![s] = v], w.dests, w.table, w.recvs)
  BY <1>3, <1>5 DEF Channel
<1>7. PICK z : z = [y EXCEPT !.table[x] = n]
  OBVIOUS
<1> HIDE DEF v
<1>8. z = Channel([w.sess EXCEPT ![s] = v], w.dests, [w.table EXCEPT ![x] = n], w.recvs)
  BY <1>6, <1>7 DEF Channel
<1>9. ASSUME NEW u, u = WithDestination(w, s, n, local)
      PROVE  Owes(u, s)
  <2>1. u = [z EXCEPT !.dests[n] = b]
    BY <1>4, <1>5, <1>7, <1>8, <1>9 DEF WithDestination, Channel
  <2>2. u = Channel([w.sess EXCEPT ![s] = v], [w.dests EXCEPT ![n] = b],
                    [w.table EXCEPT ![x] = n], w.recvs)
    BY <1>8, <2>1 DEF Channel
  <2> QED
    BY <1>1, <1>2, <2>2, OwesStill
<1> QED
  BY <1>9

LEMMA WithDestOwes ==
  ASSUME NEW w, NEW s \in BobSessions, Owes(w, s), NEW n, NEW d
  PROVE  Owes([w EXCEPT !.dests[n] = d], s)
<1>1. w = Channel(w.sess, w.dests, w.table, w.recvs)
  BY OwesFacts DEF IsChannel
<1>2. PICK u : u = [w EXCEPT !.dests[n] = d]
  OBVIOUS
<1>3. u = Channel(w.sess, [w.dests EXCEPT ![n] = d], w.table, w.recvs)
  BY <1>1, <1>2 DEF Channel
<1>4. PICK D, T, R : D = [w.dests EXCEPT ![n] = d] /\ T = w.table /\ R = w.recvs
  OBVIOUS
<1>5. T \in [Nicks -> BobObjects \cup {0}] /\ u = Channel(w.sess, D, T, R)
  BY <1>3, <1>4, OwesFacts
<1>6. Owes(u, s)
  BY <1>5, OwesElsewhere
<1> QED
  BY <1>2, <1>6

-----------------------------------------------------------------------------
(* The commands.                                                            *)
Paid == BobCrash \/ \E u : Answered(u) /\ BobSettle(u)

LEMMA StartedPays ==
  ASSUME NEW w, NEW s \in BobSessions, Owes(w, s), NEW n, StartDestination(w, s, n)
  PROVE  Paid
<1>1. PICK v, in : v = w.sess[s] /\ in = WithInbound(w.dests[n], v)
  OBVIOUS
<1>2. PICK d : d = StartTunnels(WithOutbound(in, v))
  OBVIOUS
<1>3. PICK u, y : u = [w EXCEPT !.dests[n] = d] /\ y = [w EXCEPT !.dests[n] = in]
  OBVIOUS
<1>4. Owes(u, s) /\ Owes(y, s)
  BY <1>3, WithDestOwes
<1>5. Answered(BobSend(u, s)) /\ Answered(BobDropped(w, s)) /\ Answered(BobDropped(y, s))
  BY <1>4, SendPays, DropPays
<1>6. BobCrash \/ BobSettle(BobSend(u, s)) \/ BobSettle(BobDropped(w, s)) \/ BobSettle(BobDropped(y, s))
  BY <1>1, <1>2, <1>3, Zenon DEF StartDestination
<1> QED
  BY <1>5, <1>6 DEF Paid

LEMMA StartPays ==
  ASSUME NEW w, NEW s \in BobSessions, Owes(w, s), StartCommandHandler(w, s)
  PROVE  Paid
<1>1. CASE w.sess[s].current # 0
  <2>1. StartDestination(w, s, w.sess[s].current)
    BY <1>1, Zenon DEF StartCommandHandler
  <2> QED
    BY <2>1, StartedPays
<1>2. CASE w.sess[s].current = 0
  <2>1. PICK local \in BOOLEAN :
          StartDestination(WithDestination(w, s, NewDestination, local), s, NewDestination)
    BY <1>2, Zenon DEF StartCommandHandler
  <2>2. Unmade # {}
    BY <1>2, Zenon DEF StartCommandHandler
  <2>3. NewDestination \in BobObjects
    BY <2>2 DEF NewDestination, Unmade
  <2>4. PICK u : u = WithDestination(w, s, NewDestination, local)
    OBVIOUS
  <2>5. Owes(u, s)
    BY <2>3, <2>4, WithDestinationOwes
  <2> QED
    BY <2>1, <2>4, <2>5, StartedPays
<1> QED
  BY <1>1, <1>2

LEMMA SessionPays ==
  ASSUME NEW w, NEW s \in BobSessions, Owes(w, s), NEW v \in CommandSessions,
         v.socket = w.sess[s].socket, v.reads = w.sess[s].reads, v.writes = w.sess[s].writes,
         v.lookups = w.sess[s].lookups, v.extra = w.sess[s].extra, v.dropped = w.sess[s].dropped,
         NEW u, u = Channel([w.sess EXCEPT ![s] = v], w.dests, w.table, w.recvs)
  PROVE  Answered(BobSend(u, s))
<1>1. PICK D, T, R : D = w.dests /\ T = w.table /\ R = w.recvs
  OBVIOUS
<1>2. T \in [Nicks -> BobObjects \cup {0}] /\ u = Channel([w.sess EXCEPT ![s] = v], D, T, R)
  BY <1>1, OwesFacts
<1>3. Owes(u, s)
  BY <1>2, OwesStill
<1> QED
  BY <1>3, SendPays

LEMMA SetNickPays ==
  ASSUME NEW w, NEW s \in BobSessions, Owes(w, s), NEW x \in BobNicks
  PROVE  Answered(SetNickCommandHandler(w, s, x))
<1> DEFINE v == [w.sess[s] EXCEPT !.nick = x]
<1>1. /\ v \in CommandSessions /\ v.socket = w.sess[s].socket /\ v.reads = w.sess[s].reads
      /\ v.writes = w.sess[s].writes /\ v.lookups = w.sess[s].lookups
      /\ v.extra = w.sess[s].extra /\ v.dropped = w.sess[s].dropped
  BY OwesFacts DEF CommandSessions, Nicks
<1>2. w = Channel(w.sess, w.dests, w.table, w.recvs)
  BY OwesFacts DEF IsChannel
<1>3. PICK u : u = [w EXCEPT !.sess[s].nick = x]
  OBVIOUS
<1>4. u = Channel([w.sess EXCEPT ![s] = v], w.dests, w.table, w.recvs)
  BY <1>2, <1>3 DEF Channel
<1> HIDE DEF v
<1> QED
  BY <1>1, <1>3, <1>4, SessionPays DEF SetNickCommandHandler

LEMMA GetNickPays ==
  ASSUME NEW w, NEW s \in BobSessions, Owes(w, s), NEW x \in BobNicks,
         GetNickCommandHandler(w, s, x)
  PROVE  Paid
<1>1. PICK n \in BobObjects \cup {0} : n = w.table[x]
  BY OwesFacts DEF Nicks
<1>2. PICK z \in CommandSessions : z = w.sess[s]
  BY OwesFacts
<1>3. PICK v : v = Turned(z, n, x)
  OBVIOUS
<1>4. /\ v \in CommandSessions /\ v.socket = z.socket /\ v.reads = z.reads
      /\ v.writes = z.writes /\ v.lookups = z.lookups /\ v.extra = z.extra /\ v.dropped = z.dropped
  <2>1. CASE n = 0
    BY <1>3, <2>1 DEF Turned, CommandSessions
  <2>2. CASE n # 0
    BY <1>3, <2>2 DEF Turned, CommandSessions, Nicks
  <2> QED
    BY <2>1, <2>2
<1>5. w = Channel(w.sess, w.dests, w.table, w.recvs)
  BY OwesFacts DEF IsChannel
<1>6. PICK u : u = [w EXCEPT !.sess[s] = Turned(@, n, x)]
  OBVIOUS
<1>7. u = Channel([w.sess EXCEPT ![s] = v], w.dests, w.table, w.recvs)
  BY <1>2, <1>3, <1>5, <1>6 DEF Channel
<1>8. Answered(BobSend(u, s))
  BY <1>1, <1>2, <1>4, <1>7, SessionPays
<1>9. BobCrash \/ BobSettle(BobSend(u, s))
  BY <1>1, <1>6, Zenon DEF GetNickCommandHandler
<1> QED
  BY <1>8, <1>9 DEF Paid

LEMMA PortPays ==
  ASSUME NEW w, NEW s \in BobSessions, Owes(w, s), PortCommandHandler(w, s)
  PROVE  Paid
<1> DEFINE v == [w.sess[s] EXCEPT !.inPort = TRUE]
           x == [w.sess[s] EXCEPT !.outPort = TRUE]
<1>1. w = Channel(w.sess, w.dests, w.table, w.recvs)
  BY OwesFacts DEF IsChannel
<1>2. PICK u, y : u = [w EXCEPT !.sess[s].inPort = TRUE] /\ y = [w EXCEPT !.sess[s].outPort = TRUE]
  OBVIOUS
<1>3. u = Channel([w.sess EXCEPT ![s] = v], w.dests, w.table, w.recvs)
  BY <1>1, <1>2 DEF Channel
<1>4. y = Channel([w.sess EXCEPT ![s] = x], w.dests, w.table, w.recvs)
  BY <1>1, <1>2 DEF Channel
<1>5. /\ v \in CommandSessions /\ v.socket = w.sess[s].socket /\ v.reads = w.sess[s].reads
      /\ v.writes = w.sess[s].writes /\ v.lookups = w.sess[s].lookups
      /\ v.extra = w.sess[s].extra /\ v.dropped = w.sess[s].dropped
  BY OwesFacts DEF CommandSessions
<1>6. /\ x \in CommandSessions /\ x.socket = w.sess[s].socket /\ x.reads = w.sess[s].reads
      /\ x.writes = w.sess[s].writes /\ x.lookups = w.sess[s].lookups
      /\ x.extra = w.sess[s].extra /\ x.dropped = w.sess[s].dropped
  BY OwesFacts DEF CommandSessions
<1> HIDE DEF v, x
<1>7. Answered(BobSend(u, s)) /\ Answered(BobSend(y, s)) /\ Answered(BobDropped(w, s))
  BY <1>3, <1>4, <1>5, <1>6, SessionPays, DropPays
<1>8. BobSettle(BobSend(u, s)) \/ BobSettle(BobSend(y, s)) \/ BobSettle(BobDropped(w, s))
  BY <1>2, Zenon DEF PortCommandHandler
<1> QED
  BY <1>7, <1>8 DEF Paid

(* A lookup under way takes the place of the answer, QUIT's is the last.    *)
LEMMA OneMorePays ==
  ASSUME NEW w, NEW s \in BobSessions, Owes(w, s)
  PROVE  /\ Answered([w EXCEPT !.sess[s].lookups = @ + 1])
         /\ Answered(BobSend([w EXCEPT !.sess[s].open = FALSE], s))
<1>1. PICK z \in CommandSessions : z = w.sess[s] /\ SessionInv(z, 1) /\ z.socket # "none"
  BY OwesFacts
<1>2. w = Channel(w.sess, w.dests, w.table, w.recvs)
  BY OwesFacts DEF IsChannel
<1>3. PICK v, x : v = [z EXCEPT !.lookups = @ + 1] /\ x = [z EXCEPT !.open = FALSE]
  OBVIOUS
<1>4. /\ v \in CommandSessions /\ v.socket = z.socket /\ v.reads = z.reads
      /\ v.writes = z.writes /\ v.lookups = z.lookups + 1 /\ v.extra = z.extra /\ v.dropped = z.dropped
  BY <1>3 DEF CommandSessions
<1>5. SessionInv(v, 0)
  BY <1>1, <1>4 DEF SessionInv, CommandSessions
<1>6. /\ x \in CommandSessions /\ x.socket = z.socket /\ x.reads = z.reads
      /\ x.writes = z.writes /\ x.lookups = z.lookups /\ x.extra = z.extra /\ x.dropped = z.dropped
  BY <1>3 DEF CommandSessions
<1>7. PICK u, y : u = [w EXCEPT !.sess[s].lookups = @ + 1] /\ y = [w EXCEPT !.sess[s].open = FALSE]
  OBVIOUS
<1>8. u = Channel([w.sess EXCEPT ![s] = v], w.dests, w.table, w.recvs)
  BY <1>1, <1>2, <1>3, <1>7 DEF Channel
<1>9. y = Channel([w.sess EXCEPT ![s] = x], w.dests, w.table, w.recvs)
  BY <1>1, <1>2, <1>3, <1>7 DEF Channel
<1>10. Answered(u)
  BY <1>4, <1>5, <1>8, OwesFacts, PutSession
<1>11. Answered(BobSend(y, s))
  BY <1>1, <1>6, <1>9, SessionPays
<1> QED
  BY <1>7, <1>10, <1>11

(* LIST sends one reply for each nickname besides its own.                  *)
LEMMA ListPays ==
  ASSUME NEW w, NEW s \in BobSessions, Owes(w, s), ListCommandHandler(w, s)
  PROVE  Paid
<1>1. PICK n : n = Cardinality({x \in Nicks : w.table[x] # 0})
  OBVIOUS
<1>2. n \in Nat
  <2>1. IsFiniteSet(Nicks)
    BY BobAssumption, FS_AddElement, FS_Singleton, FS_Union DEF Nicks
  <2>2. IsFiniteSet({x \in Nicks : w.table[x] # 0})
    BY <2>1, FS_Subset
  <2> QED
    BY <1>1, <2>2, FS_CardinalityType
<1>3. PICK z \in CommandSessions : z = w.sess[s] /\ SessionInv(z, 1) /\ z.socket # "none"
  BY OwesFacts
<1>4. w = Channel(w.sess, w.dests, w.table, w.recvs)
  BY OwesFacts DEF IsChannel
<1>5. PICK v : v = Listing(z, n)
  OBVIOUS
<1>6. /\ v \in CommandSessions /\ v.socket = z.socket /\ v.reads = z.reads
      /\ v.writes = z.writes + n + 1 /\ v.lookups = z.lookups /\ v.extra = z.extra + n /\ v.dropped = z.dropped
  <2>1. z.writes + n + 1 \in Nat /\ z.extra + n \in Nat
    BY <1>2 DEF CommandSessions
  <2> QED
    BY <1>5, <2>1 DEF Listing, CommandSessions
<1>7. SessionInv(v, 0)
  BY <1>2, <1>3, <1>6 DEF SessionInv, CommandSessions
<1>8. PICK u : u = [w EXCEPT !.sess[s] = Listing(@, n)]
  OBVIOUS
<1>10. u = Channel([w.sess EXCEPT ![s] = v], w.dests, w.table, w.recvs)
  BY <1>3, <1>4, <1>5, <1>8 DEF Channel
<1>11. Answered(u)
  BY <1>6, <1>7, <1>10, OwesFacts, PutSession
<1>12. BobSettle(u)
  BY <1>1, <1>8 DEF ListCommandHandler
<1> QED
  BY <1>11, <1>12 DEF Paid

LEMMA LookupPays ==
  ASSUME NEW w, NEW s \in BobSessions, Owes(w, s), LookupCommandHandler(w, s)
  PROVE  Paid
<1>1. Answered(BobSend(w, s)) /\ Answered([w EXCEPT !.sess[s].lookups = @ + 1])
  BY SendPays, OneMorePays
<1>2. BobSettle(BobSend(w, s)) \/ BobSettle([w EXCEPT !.sess[s].lookups = @ + 1]) \/ BobCrash
  BY Zenon DEF LookupCommandHandler
<1> QED
  BY <1>1, <1>2 DEF Paid

LEMMA CommandPays ==
  ASSUME NEW w, NEW s \in BobSessions, Owes(w, s), NEW command, BobCommand(w, s, command)
  PROVE  Paid
<1>1. \/ BobSettle(BobTerminate(w, s))
      \/ BobSettle(BobSend([w EXCEPT !.sess[s].open = FALSE], s))
      \/ StartCommandHandler(w, s)
      \/ BobSettle(StopCommandHandler(w, s))
      \/ \E x \in BobNicks : BobSettle(SetNickCommandHandler(w, s, x))
      \/ \E x \in BobNicks : GetNickCommandHandler(w, s, x)
      \/ PortCommandHandler(w, s)
      \/ LookupCommandHandler(w, s)
      \/ ClearCommandHandler(w, s)
      \/ ListCommandHandler(w, s)
      \/ BobSettle(BobSend(w, s))
  BY DEF BobCommand
<1>2. /\ Answered(BobTerminate(w, s)) /\ Answered(BobSend(w, s))
      /\ Answered(BobSend([w EXCEPT !.sess[s].open = FALSE], s))
  BY TerminatePays, SendPays, OneMorePays
<1>3. Answered(StopCommandHandler(w, s))
  <2>1. CASE w.table[w.sess[s].nick] = 0
    BY <2>1, SendPays DEF StopCommandHandler
  <2>2. CASE w.table[w.sess[s].nick] # 0
    BY <2>2, SendPays, StopTunnelsOwes DEF StopCommandHandler
  <2> QED
    BY <2>1, <2>2
<1>4. ASSUME ClearCommandHandler(w, s)
      PROVE  Paid
  <2>1. PICK x \in Nicks : x = w.sess[s].nick
    BY OwesFacts DEF CommandSessions
  <2>2. Answered(BobSend(DeleteDestination(w, x), s))
    BY <2>1, DeleteOwes, SendPays
  <2>3. BobCrash \/ BobSettle(BobSend(DeleteDestination(w, x), s))
    BY <1>4, <2>1, Zenon DEF ClearCommandHandler
  <2> QED
    BY <2>2, <2>3 DEF Paid
<1>5. \A x \in BobNicks : /\ Answered(SetNickCommandHandler(w, s, x))
                          /\ GetNickCommandHandler(w, s, x) => Paid
  BY SetNickPays, GetNickPays
<1>6. StartCommandHandler(w, s) \/ PortCommandHandler(w, s) \/ LookupCommandHandler(w, s)
        \/ ListCommandHandler(w, s) => Paid
  BY StartPays, PortPays, LookupPays, ListPays
<1> QED
  BY <1>1, <1>2, <1>3, <1>4, <1>5, <1>6 DEF Paid

-----------------------------------------------------------------------------
(* The handlers.                                                            *)
LEMMA PaidKeeps ==
  ASSUME BobInv, bobUp = "running", Paid
  PROVE  BobInv'
<1>1. CASE BobCrash
  BY <1>1 DEF BobCrash, BobInv, SessionsType, SessionInv
<1>2. ASSUME NEW u, Answered(u), BobSettle(u)
      PROVE  BobInv'
  <2>1. bobSess' = u.sess /\ bobTable' = u.table /\ bobUp' = bobUp
    BY <1>2 DEF BobSettle
  <2>2. SessionsType(bobSess', bobTable') /\ \A s \in BobSessions : SessionInv(bobSess'[s], 0)
    BY <1>2, <2>1 DEF Answered, IsChannel
  <2> QED
    BY <2>1, <2>2 DEF BobInv, SessionsType, SessionInv
<1> QED
  BY <1>1, <1>2 DEF Paid

LEMMA BobFacts ==
  ASSUME BobInv, bobUp = "running"
  PROVE  /\ IsChannel(BobWorld) /\ BobWorld = Channel(bobSess, dests, bobTable, recvs)
         /\ BobWorld.sess = bobSess /\ BobWorld.dests = dests /\ BobWorld.table = bobTable
         /\ BobWorld.recvs = recvs
         /\ \A s \in BobSessions : bobSess[s] \in CommandSessions /\ SessionInv(bobSess[s], 0)
<1>1. BobWorld = Channel(bobSess, dests, bobTable, recvs)
  BY DEF BobWorld, Channel
<1>2. /\ BobWorld.sess = bobSess /\ BobWorld.dests = dests /\ BobWorld.table = bobTable
      /\ BobWorld.recvs = recvs
  BY <1>1, ChannelFacts
<1> QED
  BY <1>1, <1>2 DEF IsChannel, BobInv, SessionsType

(* A handler of session s begins: with an operation less, or as the first.  *)
LEMMA HandlerOwes ==
  ASSUME BobInv, bobUp = "running", NEW s \in BobSessions,
         NEW v \in CommandSessions, SessionInv(v, 1), v.socket # "none",
         NEW u, u = Channel([bobSess EXCEPT ![s] = v], dests, bobTable, recvs)
  PROVE  Owes(u, s)
<1>1. PICK w : w = BobWorld
  OBVIOUS
<1>2. /\ IsChannel(w) /\ \A r \in BobSessions \ {s} : SessionInv(w.sess[r], 0)
      /\ u = Channel([w.sess EXCEPT ![s] = v], w.dests, w.table, w.recvs)
  BY <1>1, BobFacts
<1> QED
  BY <1>2, PutSession

LEMMA BobStep == BobInv /\ [BobNext]_bobVars => BobInv'
<1> SUFFICES ASSUME BobInv, [BobNext]_bobVars
             PROVE  BobInv'
  OBVIOUS
<1>1. ASSUME NEW s \in BobSessions, BobHandleAccept(s)
      PROVE  BobInv'
  <2>0. bobUp = "running" /\ bobSess[s].socket = "none"
    BY <1>1 DEF BobHandleAccept
  <2>1. PICK z \in CommandSessions : z = bobSess[s] /\ SessionInv(z, 0)
    BY <2>0, BobFacts
  <2>2. PICK v : v = [z EXCEPT !.socket = "up"]
    OBVIOUS
  <2>3. /\ v \in CommandSessions /\ v.socket = "up" /\ v.reads = z.reads
        /\ v.writes = z.writes /\ v.lookups = z.lookups /\ v.extra = z.extra /\ v.dropped = z.dropped
    BY <2>2 DEF CommandSessions
  <2>4. SessionInv(v, 1)
    BY <2>0, <2>1, <2>3 DEF SessionInv
  <2>5. PICK u : u = [BobWorld EXCEPT !.sess[s].socket = "up"]
    OBVIOUS
  <2>6. u = Channel([bobSess EXCEPT ![s] = v], dests, bobTable, recvs)
    BY <2>1, <2>2, <2>5 DEF BobWorld, Channel
  <2>7. Answered(BobSend(u, s))
    BY <2>0, <2>3, <2>4, <2>6, HandlerOwes, SendPays
  <2>8. BobSettle(BobSend(u, s))
    BY <1>1, <2>5 DEF BobHandleAccept
  <2> QED
    BY <2>0, <2>7, <2>8, PaidKeeps DEF Paid
<1>2. ASSUME NEW s \in BobSessions, BobHandleSent(s)
      PROVE  BobInv'
  <2>0. bobUp = "running" /\ bobSess[s].socket # "none" /\ bobSess[s].writes > 0
    BY <1>2 DEF BobHandleSent, BobRuns
  <2>1. PICK z \in CommandSessions : z = bobSess[s] /\ SessionInv(z, 0)
    BY <2>0, BobFacts
  <2>2. PICK v : v = [z EXCEPT !.writes = @ - 1]
    OBVIOUS
  <2>3. /\ v \in CommandSessions /\ v.socket = z.socket /\ v.reads = z.reads
        /\ v.writes = z.writes - 1 /\ v.lookups = z.lookups /\ v.extra = z.extra /\ v.dropped = z.dropped
    BY <2>0, <2>1, <2>2 DEF CommandSessions
  <2>4. SessionInv(v, 1) /\ v.socket # "none"
    BY <2>0, <2>1, <2>3 DEF SessionInv, CommandSessions
  <2>5. PICK u : u = [BobWorld EXCEPT !.sess[s].writes = @ - 1]
    OBVIOUS
  <2>6. u = Channel([bobSess EXCEPT ![s] = v], dests, bobTable, recvs)
    BY <2>1, <2>2, <2>5 DEF BobWorld, Channel
  <2>7. Owes(u, s)
    BY <2>0, <2>3, <2>4, <2>6, HandlerOwes
  <2>8. Answered(BobTerminate(u, s))
    BY <2>7, TerminatePays
  <2>9. Answered([u EXCEPT !.sess[s].reads = @ + 1])
    <3>1. PICK y \in CommandSessions : y = u.sess[s] /\ SessionInv(y, 1)
      BY <2>7, OwesFacts
    <3>2. PICK q : q = [y EXCEPT !.reads = @ + 1]
      OBVIOUS
    <3>3. /\ q \in CommandSessions /\ q.socket = y.socket /\ q.reads = y.reads + 1
          /\ q.writes = y.writes /\ q.lookups = y.lookups /\ q.extra = y.extra /\ q.dropped = y.dropped
      BY <3>2 DEF CommandSessions
    <3>4. SessionInv(q, 0)
      BY <2>7, <3>1, <3>3, OwesFacts DEF SessionInv, CommandSessions
    <3>5. u = Channel(u.sess, u.dests, u.table, u.recvs)
      BY <2>7, OwesFacts DEF IsChannel
    <3>6. PICK r : r = [u EXCEPT !.sess[s].reads = @ + 1]
      OBVIOUS
    <3>7. r = Channel([u.sess EXCEPT ![s] = q], u.dests, u.table, u.recvs)
      BY <3>1, <3>2, <3>5, <3>6 DEF Channel
    <3>8. IsChannel(u) /\ \A t \in BobSessions \ {s} : SessionInv(u.sess[t], 0)
      BY <2>7, OwesFacts
    <3>9. Answered(r)
      BY <3>3, <3>4, <3>7, <3>8, PutSession
    <3> QED
      BY <3>6, <3>9
  <2>10. BobSettle(BobTerminate(u, s)) \/ BobSettle([u EXCEPT !.sess[s].reads = @ + 1])
    BY <1>2, <2>5, Zenon DEF BobHandleSent
  <2> QED
    BY <2>0, <2>8, <2>9, <2>10, PaidKeeps DEF Paid
<1>3. ASSUME NEW s \in BobSessions, BobLookupComplete(s)
      PROVE  BobInv'
  <2>0. bobUp = "running" /\ bobSess[s].lookups > 0
    BY <1>3 DEF BobLookupComplete
  <2>1. PICK z \in CommandSessions : z = bobSess[s] /\ SessionInv(z, 0)
    BY <2>0, BobFacts
  <2>2. PICK v : v = [z EXCEPT !.lookups = @ - 1]
    OBVIOUS
  <2>3. /\ v \in CommandSessions /\ v.socket = z.socket /\ v.reads = z.reads
        /\ v.writes = z.writes /\ v.lookups = z.lookups - 1 /\ v.extra = z.extra /\ v.dropped = z.dropped
    BY <2>0, <2>1, <2>2 DEF CommandSessions
  <2>4. SessionInv(v, 1) /\ v.socket # "none"
    BY <2>0, <2>1, <2>3 DEF SessionInv, CommandSessions
  <2>5. PICK u : u = [BobWorld EXCEPT !.sess[s].lookups = @ - 1]
    OBVIOUS
  <2>6. u = Channel([bobSess EXCEPT ![s] = v], dests, bobTable, recvs)
    BY <2>1, <2>2, <2>5 DEF BobWorld, Channel
  <2>7. Answered(BobSend(u, s)) /\ Answered(BobDropped(u, s))
    BY <2>0, <2>3, <2>4, <2>6, HandlerOwes, SendPays, DropPays
  <2>8. BobSettle(BobSend(u, s)) \/ BobSettle(BobDropped(u, s))
    BY <1>3, <2>5, Zenon DEF BobLookupComplete
  <2> QED
    BY <2>0, <2>7, <2>8, PaidKeeps DEF Paid
<1>4. ASSUME NEW s \in BobSessions, NEW lines \in 0..BobPending, BobHandleReceived(s, lines)
      PROVE  BobInv'
  <2>0. bobUp = "running" /\ bobSess[s].socket # "none" /\ bobSess[s].reads > 0
    BY <1>4 DEF BobHandleReceived, BobRuns
  <2>1. PICK z \in CommandSessions : z = bobSess[s] /\ SessionInv(z, 0)
    BY <2>0, BobFacts
  <2>2. PICK v : v = [z EXCEPT !.reads = @ - 1]
    OBVIOUS
  <2>3. /\ v \in CommandSessions /\ v.socket = z.socket /\ v.reads = z.reads - 1
        /\ v.writes = z.writes /\ v.lookups = z.lookups /\ v.extra = z.extra /\ v.dropped = z.dropped
    BY <2>0, <2>1, <2>2 DEF CommandSessions
  <2>4. SessionInv(v, 1) /\ v.socket # "none"
    BY <2>0, <2>1, <2>3 DEF SessionInv, CommandSessions
  <2>5. PICK u : u = [BobWorld EXCEPT !.sess[s].reads = @ - 1]
    OBVIOUS
  <2>6. u = Channel([bobSess EXCEPT ![s] = v], dests, bobTable, recvs)
    BY <2>1, <2>2, <2>5 DEF BobWorld, Channel
  <2>7. Owes(u, s)
    BY <2>0, <2>3, <2>4, <2>6, HandlerOwes
  <2>8. Answered(BobTerminate(u, s)) /\ Answered(BobDropped(u, s))
    BY <2>7, TerminatePays, DropPays
  <2>9. PICK have : have = bobSess[s].rest + lines
    OBVIOUS
  <2>10. ASSUME NEW command, have > 0,
                BobCommand([u EXCEPT !.sess[s].rest = have - 1], s, command)
         PROVE  Paid
    <3>1. PICK y \in CommandSessions : y = u.sess[s]
      BY <2>7, OwesFacts
    <3>2. PICK q : q = [y EXCEPT !.rest = have - 1]
      OBVIOUS
    <3>3. have - 1 \in Nat
      BY <2>1, <2>9, <2>10, BobAssumption DEF CommandSessions
    <3>4. /\ q \in CommandSessions /\ q.socket = y.socket /\ q.reads = y.reads
          /\ q.writes = y.writes /\ q.lookups = y.lookups /\ q.extra = y.extra /\ q.dropped = y.dropped
      BY <3>2, <3>3 DEF CommandSessions
    <3>5. u = Channel(u.sess, u.dests, u.table, u.recvs)
      BY <2>7, OwesFacts DEF IsChannel
    <3>6. PICK r : r = [u EXCEPT !.sess[s].rest = have - 1]
      OBVIOUS
    <3>7. r = Channel([u.sess EXCEPT ![s] = q], u.dests, u.table, u.recvs)
      BY <3>1, <3>2, <3>5, <3>6 DEF Channel
    <3>8. PICK D, T, R : D = u.dests /\ T = u.table /\ R = u.recvs
      OBVIOUS
    <3>9. T \in [Nicks -> BobObjects \cup {0}] /\ r = Channel([u.sess EXCEPT ![s] = q], D, T, R)
      BY <2>7, <3>7, <3>8, OwesFacts
    <3>10. Owes(r, s)
      BY <2>7, <3>1, <3>4, <3>9, OwesStill
    <3> QED
      BY <2>10, <3>6, <3>10, CommandPays
  <2>11. \/ BobSettle(BobTerminate(u, s)) \/ BobSettle(BobDropped(u, s))
         \/ have > 0 /\ \E command \in BobCommands[s] :
                          BobCommand([u EXCEPT !.sess[s].rest = have - 1], s, command)
    BY <1>4, <2>5, <2>9, Zenon DEF BobHandleReceived
  <2>12. Paid
    BY <2>8, <2>10, <2>11 DEF Paid
  <2> QED
    BY <2>0, <2>12, PaidKeeps
<1>5. ASSUME bobUp = "running", bobSess' = bobSess, bobTable' = bobTable,
             bobUp' \in {"running", "down"}
      PROVE  BobInv'
  BY <1>5 DEF BobInv, SessionsType, SessionInv
<1>6. ASSUME NEW n \in BobObjects, NEW c \in BobClients, BobInboundAccept(n, c)
      PROVE  BobInv'
  <2>1. PICK u : u = [BobWorld EXCEPT !.recvs[c].phase = "reading", !.recvs[c].of = n]
    OBVIOUS
  <2>2. u.sess = bobSess /\ u.table = bobTable
    BY <2>1 DEF BobWorld
  <2>3. bobUp = "running" /\ BobSettle(u)
    BY <1>6, <2>1 DEF BobInboundAccept
  <2> QED
    BY <1>5, <2>2, <2>3 DEF BobSettle
<1>7. ASSUME NEW c \in BobClients, HandleReceivedAddress(c) \/ HandleDestinationRequestComplete(c)
      PROVE  BobInv'
  <2>1. ASSUME NEW p, NEW u, u = [BobWorld EXCEPT !.recvs[c].phase = p]
        PROVE  u.sess = bobSess /\ u.table = bobTable
    BY <2>1 DEF BobWorld
  <2>2. bobUp = "running"
        /\ (BobCrash \/ \E p : BobSettle([BobWorld EXCEPT !.recvs[c].phase = p]))
    BY <1>7, Zenon DEF HandleReceivedAddress, HandleDestinationRequestComplete
  <2> QED
    BY <1>5, <2>1, <2>2 DEF BobSettle, BobCrash
<1>8. ASSUME NEW n \in BobObjects, BobOutboundAccept(n)
      PROVE  BobInv'
  BY <1>5, <1>8 DEF BobOutboundAccept, BobCrash, bobVars
<1>9. ASSUME BobStop
      PROVE  BobInv'
  <2>1. CASE BobCrash
    BY <1>9, <1>5, <2>1 DEF BobCrash, BobStop
  <2>2. CASE bobUp' = "stopped"
    BY <2>2 DEF BobInv
  <2> QED
    BY <1>9, <2>1, <2>2, Zenon DEF BobStop
<1>10. CASE UNCHANGED bobVars
  BY <1>10 DEF bobVars, BobInv, SessionsType, SessionInv
<1> QED
  BY <1>1, <1>2, <1>3, <1>4, <1>6, <1>7, <1>8, <1>9, <1>10 DEF BobNext

(* Whatever the commands and whoever deletes its destination, a session has *)
(* at most one operation under way unless LIST sent several replies, and    *)
(* none only after a handler that started none (BobSerial).                 *)
THEOREM SpecBobSerial == BobSpec => []BobSerial
<1>1. BobInit => BobInv
  BY DEF BobInit, BobInv, SessionsType, SessionInv, BobSession, CommandSessions, Nicks
<1>2. BobInv => BobSerial
  <2> SUFFICES ASSUME BobInv, bobUp = "running", NEW s \in BobSessions, bobSess[s].socket = "up",
                      NEW k, k = bobSess[s].reads + bobSess[s].writes + bobSess[s].lookups
               PROVE  /\ bobSess[s].extra = 0 => k <= 1
                      /\ k = 0 => bobSess[s].dropped > 0
    BY DEF BobSerial
  <2> QED
    BY BobFacts DEF SessionInv, CommandSessions
<1> QED
  BY <1>1, <1>2, BobStep, PTL DEF BobSpec

----------------------------------------------------------------------------
(* The SAM bridge.                                                          *)
Sockets ==
  [type : {"Unknown", "Session", "UDPForward", "Stream", "Acceptor", "Terminated"},
   op : {"accept", "handshake", "handshakeReply", "message", "reply", "timer", "lookup", "name",
         "data", "sending", "none"},
   close : BOOLEAN, silent : BOOLEAN, id : SAMIds \cup {NoId}, session : SAMObjects \cup {0},
   stream : BOOLEAN, streamOp : {"none", "receive", "write"}, closed : BOOLEAN, left : BOOLEAN,
   reused : BOOLEAN]
Objects == [live : BOOLEAN, sockets : SUBSET SAMSockets, acceptor : SUBSET SAMSockets,
            receiver : SUBSET SAMSockets, made : BOOLEAN]

Listed(s) == s.type \in {"Stream", "Acceptor"}

(* One socket that had one of the commands, among objects O and table T.    *)
SocketInv(s, O, T) == ~s.reused =>
  /\ Listed(s) => s.id \in SAMIds /\ s.session # 0 /\ T[s.id] = s.session
  /\ s.stream => s.type = "Stream"
  /\ s.streamOp # "none" => s.stream
  /\ s.session # 0 => O[s.session].made
  /\ s.op = "lookup" => /\ ~Listed(s) /\ s.id \in SAMIds /\ s.session # 0
                        /\ O[s.session].live => T[s.id] = s.session

WorldType(S, O, T) ==
  /\ S \in [SAMSockets -> Sockets]
  /\ O \in [SAMObjects -> Objects]
  /\ T \in [SAMIds -> SAMObjects \cup {0}]

Single(S) == \A k \in SAMSockets : ~S[k].reused

(* What the lists of a session, o, say of such a socket, s.                 *)
ListInv(k, s, n, o) == ~s.reused =>
  /\ k \in o.sockets <=> Listed(s) /\ s.session = n
  /\ k \in o.acceptor => s.type = "Acceptor" /\ s.session = n

ListsInv(S, O) ==
  /\ \A n \in SAMObjects, k \in SAMSockets : ListInv(k, S[k], n, O[n])
  /\ \A n \in SAMObjects : \A j, k \in O[n].acceptor : j = k
  /\ Single(S) => \A n \in SAMObjects, k \in SAMSockets :
                    S[k].type = "Acceptor" /\ S[k].session = n => k \in O[n].acceptor

(* The table has the sessions that exist, each under one id.                *)
TableInv(O, T) ==
  /\ \A i \in SAMIds : T[i] # 0 => O[T[i]].live
  /\ \A i, j \in SAMIds : T[i] # 0 /\ T[i] = T[j] => i = j
  /\ \A n \in SAMObjects : O[n].live => O[n].made

World(S, O, T) ==
  /\ WorldType(S, O, T) /\ ListsInv(S, O) /\ TableInv(O, T)
  /\ \A k \in SAMSockets : SocketInv(S[k], O, T)

TypeInv == samUp \in {"running", "stopped", "down"}
RunningInv == samUp = "running" => World(socks, objects, samTable)

IInv == TypeInv /\ RunningInv

-----------------------------------------------------------------------------
(* What may become of one socket and of the lists it is in.  The acceptor   *)
(* of a session may change to the socket, or to none.                       *)
LEMMA Change ==
  ASSUME NEW S, NEW O, NEW T, World(S, O, T), NEW k \in SAMSockets, NEW s \in Sockets,
         NEW O1 \in [SAMObjects -> Objects], SocketInv(s, O, T),
         \A n \in SAMObjects :
           /\ O1[n].live = O[n].live /\ O1[n].made = O[n].made
           /\ \A j \in SAMSockets \ {k} :
                /\ j \in O1[n].sockets <=> j \in O[n].sockets
                /\ j \in O1[n].acceptor => j \in O[n].acceptor
                /\ Single(S) /\ j \in O[n].acceptor => j \in O1[n].acceptor \/ s.reused
           /\ O1[n].acceptor \in {O[n].acceptor, {}, {k}}
           /\ ListInv(k, s, n, O1[n])
           /\ ~s.reused /\ Single(S) => (s.type = "Acceptor" /\ s.session = n => k \in O1[n].acceptor),
         s.reused \/ ~S[k].reused
  PROVE  World([S EXCEPT ![k] = s], O1, T)
<1> DEFINE S1 == [S EXCEPT ![k] = s]
<1>1. /\ S \in [SAMSockets -> Sockets] /\ O \in [SAMObjects -> Objects]
      /\ T \in [SAMIds -> SAMObjects \cup {0}]
  BY DEF World, WorldType
<1>2. S1 \in [SAMSockets -> Sockets] /\ S1[k] = s /\ \A j \in SAMSockets \ {k} : S1[j] = S[j]
  BY <1>1
<1> HIDE DEF S1
<1>3. \A m \in SAMObjects : O1[m].live = O[m].live /\ O1[m].made = O[m].made
  OBVIOUS
<1>4. TableInv(O1, T)
  BY <1>1, <1>3 DEF World, TableInv
<1>5. ASSUME NEW j \in SAMSockets
      PROVE  SocketInv(S1[j], O1, T)
  <2>1. SocketInv(S1[j], O, T)
    BY <1>2 DEF World
  <2>2. S1[j].session \in SAMObjects \cup {0}
    BY <1>2 DEF Sockets
  <2> QED
    BY <1>3, <2>1, <2>2 DEF SocketInv
<1>6. ASSUME NEW n \in SAMObjects, NEW j \in SAMSockets
      PROVE  ListInv(j, S1[j], n, O1[n])
  <2>1. CASE j = k
    BY <1>2, <2>1
  <2>2. CASE j # k
    <3>1. S1[j] = S[j] /\ ListInv(j, S[j], n, O[n])
      BY <1>2, <2>2 DEF World, ListsInv
    <3>2. /\ j \in O1[n].sockets <=> j \in O[n].sockets
          /\ j \in O1[n].acceptor => j \in O[n].acceptor
      BY <2>2
    <3> QED
      BY <3>1, <3>2 DEF ListInv
  <2> QED
    BY <2>1, <2>2
<1>7. ASSUME NEW n \in SAMObjects
      PROVE  \A i, j \in O1[n].acceptor : i = j
  <2>1. \A i, j \in O[n].acceptor : i = j
    BY DEF World, ListsInv
  <2> QED
    BY <2>1
<1>8. ASSUME Single(S1), NEW n \in SAMObjects, NEW j \in SAMSockets,
             S1[j].type = "Acceptor", S1[j].session = n
      PROVE  j \in O1[n].acceptor
  <2>1. ~s.reused /\ Single(S)
    BY <1>2, <1>8 DEF Single
  <2>2. CASE j = k
    BY <1>2, <1>8, <2>1, <2>2
  <2>3. CASE j # k
    <3>1. S[j].type = "Acceptor" /\ S[j].session = n
      BY <1>2, <1>8, <2>3
    <3>2. j \in O[n].acceptor
      BY <2>1, <3>1 DEF World, ListsInv
    <3> QED
      BY <2>1, <2>3, <3>2
  <2> QED
    BY <2>2, <2>3
<1>9. ListsInv(S1, O1)
  BY <1>6, <1>7, <1>8 DEF ListsInv
<1> QED
  BY <1>1, <1>2, <1>4, <1>5, <1>9 DEF World, WorldType, S1

(* The lists are not concerned.                                             *)
LEMMA SetSocket ==
  ASSUME NEW S, NEW O, NEW T, World(S, O, T), NEW k \in SAMSockets, NEW s \in Sockets,
         SocketInv(s, O, T),
         \/ s.reused
         \/ ~S[k].reused /\ s.type = S[k].type /\ s.session = S[k].session
         \/ ~S[k].reused /\ ~Listed(s) /\ ~Listed(S[k])
  PROVE  World([S EXCEPT ![k] = s], O, T)
<1>1. O \in [SAMObjects -> Objects]
  BY DEF World, WorldType
<1>2. ASSUME NEW n \in SAMObjects, ~s.reused
      PROVE  /\ ListInv(k, s, n, O[n])
             /\ s.type = "Acceptor" /\ s.session = n => k \in O[n].acceptor \/ ~Single(S)
  <2>1. ListInv(k, S[k], n, O[n])
    BY DEF World, ListsInv
  <2>2. S[k].type = "Acceptor" /\ S[k].session = n => k \in O[n].acceptor \/ ~Single(S)
    BY DEF World, ListsInv
  <2> QED
    BY <1>2, <2>1, <2>2 DEF ListInv, Listed
<1> QED
  BY <1>1, <1>2, Change DEF ListInv

-----------------------------------------------------------------------------
(* The session under an id is deleted, its sockets being told.              *)
LEMMA Close ==
  ASSUME NEW S, NEW O, NEW T, World(S, O, T), NEW i \in SAMIds, T[i] # 0,
         NEW S1 \in [SAMSockets -> Sockets],
         \A k \in SAMSockets :
           IF k \in O[T[i]].sockets
           THEN S1[k] = [CloseStream(S[k]) EXCEPT !.type = "Terminated"]
           ELSE S1[k] = S[k]
  PROVE  World(S1, [O EXCEPT ![T[i]] = [SAMSession EXCEPT !.made = TRUE]], [T EXCEPT ![i] = 0])
<1> DEFINE n == T[i]
           o == [SAMSession EXCEPT !.made = TRUE]
           O1 == [O EXCEPT ![n] = o]
           T1 == [T EXCEPT ![i] = 0]
<1>1. /\ S \in [SAMSockets -> Sockets] /\ O \in [SAMObjects -> Objects]
      /\ T \in [SAMIds -> SAMObjects \cup {0}] /\ n \in SAMObjects
  BY DEF World, WorldType
<1>2. /\ o \in Objects /\ o.live = FALSE /\ o.made = TRUE /\ o.sockets = {} /\ o.acceptor = {}
  BY DEF Objects, SAMSession
<1> HIDE DEF o
<1>3. /\ O1 \in [SAMObjects -> Objects] /\ O1[n] = o
      /\ \A m \in SAMObjects \ {n} : O1[m] = O[m]
      /\ T1 \in [SAMIds -> SAMObjects \cup {0}] /\ T1[i] = 0
      /\ \A j \in SAMIds \ {i} : T1[j] = T[j]
  BY <1>1, <1>2
<1> HIDE DEF O1, T1, n
<1>4. \A j \in SAMIds \ {i} : T1[j] # n
  BY <1>1, <1>3 DEF World, TableInv, n
<1>5. TableInv(O1, T1)
  <2>1. \A j \in SAMIds : T1[j] # 0 => j # i /\ T1[j] \in SAMObjects \ {n} /\ T1[j] = T[j]
    BY <1>3, <1>4
  <2>2. \A j \in SAMIds : T1[j] # 0 => O1[T1[j]].live
    BY <1>3, <2>1 DEF World, TableInv
  <2>3. \A j, k \in SAMIds : T1[j] # 0 /\ T1[j] = T1[k] => j = k
    BY <2>1 DEF World, TableInv
  <2>4. \A m \in SAMObjects : O1[m].live => O1[m].made
    BY <1>2, <1>3 DEF World, TableInv
  <2> QED
    BY <2>2, <2>3, <2>4 DEF TableInv
<1>6. \A k \in SAMSockets, m \in SAMObjects : ListInv(k, S[k], m, O[m])
  BY DEF World, ListsInv
<1>7. ASSUME NEW k \in SAMSockets, k \in O[n].sockets
      PROVE  /\ S1[k].type = "Terminated" /\ S1[k].reused = S[k].reused
             /\ SocketInv(S1[k], O1, T1)
  <2>1. S1[k] = [CloseStream(S[k]) EXCEPT !.type = "Terminated"]
    BY <1>7 DEF n
  <2>2. S[k] \in Sockets
    BY <1>1
  <2>3. /\ S1[k].type = "Terminated" /\ ~S1[k].stream /\ S1[k].streamOp = "none"
        /\ S1[k].session = S[k].session /\ S1[k].op = S[k].op /\ S1[k].reused = S[k].reused
    BY <2>1, <2>2 DEF CloseStream, Sockets
  <2>4. ~S[k].reused => S[k].op # "lookup" /\ S[k].session = n
    BY <1>1, <1>6, <1>7 DEF World, SocketInv, ListInv
  <2> QED
    BY <1>2, <1>3, <2>3, <2>4 DEF SocketInv, Listed
<1>8. ASSUME NEW k \in SAMSockets, k \notin O[n].sockets
      PROVE  S1[k] = S[k] /\ SocketInv(S1[k], O1, T1)
  <2>1. S1[k] = S[k] /\ SocketInv(S[k], O, T) /\ S[k].session \in SAMObjects \cup {0}
    BY <1>1, <1>8 DEF World, n, Sockets
  <2> SUFFICES ASSUME ~S[k].reused
               PROVE  SocketInv(S[k], O1, T1)
    BY <2>1 DEF SocketInv
  <2>2. ~(Listed(S[k]) /\ S[k].session = n)
    BY <1>1, <1>6, <1>8 DEF ListInv
  <2>3. S[k].session # 0 => O1[S[k].session].made
    BY <1>2, <1>3, <2>1 DEF SocketInv
  <2>4. ASSUME Listed(S[k])
        PROVE  T1[S[k].id] = S[k].session
    <3>1. S[k].id # i
      BY <2>1, <2>2, <2>4 DEF SocketInv, n
    <3> QED
      BY <1>3, <2>1, <2>4, <3>1 DEF SocketInv
  <2>5. ASSUME S[k].op = "lookup", O1[S[k].session].live
        PROVE  T1[S[k].id] = S[k].session
    <3>1. S[k].session # n /\ S[k].session \in SAMObjects /\ S[k].id \in SAMIds
      BY <1>2, <1>3, <2>1, <2>5 DEF SocketInv
    <3>2. T[S[k].id] = S[k].session
      BY <1>3, <2>1, <2>5, <3>1 DEF SocketInv
    <3> QED
      BY <1>3, <3>1, <3>2 DEF n
  <2> QED
    BY <2>1, <2>3, <2>4, <2>5 DEF SocketInv
<1>9. ListsInv(S1, O1)
  <2>1. ASSUME NEW m \in SAMObjects, NEW k \in SAMSockets
        PROVE  ListInv(k, S1[k], m, O1[m])
    <3>1. CASE m = n
      <4>1. O1[m].sockets = {} /\ O1[m].acceptor = {}
        BY <1>2, <1>3, <3>1
      <4>2. ~S1[k].reused => ~(Listed(S1[k]) /\ S1[k].session = m)
        BY <1>1, <1>6, <1>7, <1>8, <3>1 DEF Listed, ListInv
      <4> QED
        BY <4>1, <4>2 DEF ListInv
    <3>2. CASE m # n
      <4>1. O1[m] = O[m] /\ ListInv(k, S[k], m, O[m]) /\ ListInv(k, S[k], n, O[n])
        BY <1>1, <1>3, <1>6, <3>2
      <4>2. CASE k \in O[n].sockets
        BY <1>7, <3>2, <4>1, <4>2 DEF ListInv, Listed
      <4>3. CASE k \notin O[n].sockets
        BY <1>8, <4>1, <4>3
      <4> QED
        BY <4>2, <4>3
    <3> QED
      BY <3>1, <3>2
  <2>2. ASSUME NEW m \in SAMObjects
        PROVE  \A j, k \in O1[m].acceptor : j = k
    <3>1. CASE m = n
      BY <1>2, <1>3, <3>1
    <3>2. CASE m # n
      <4>1. O1[m] = O[m]
        BY <1>3, <3>2
      <4>2. \A h, j \in O[m].acceptor : h = j
        BY DEF World, ListsInv
      <4> QED
        BY <4>1, <4>2
    <3> QED
      BY <3>1, <3>2
  <2>3. ASSUME Single(S1), NEW m \in SAMObjects, NEW k \in SAMSockets,
               S1[k].type = "Acceptor", S1[k].session = m
        PROVE  k \in O1[m].acceptor
    <3>1. Single(S)
      BY <1>7, <1>8, <2>3 DEF Single
    <3>2. k \notin O[n].sockets /\ S1[k] = S[k]
      BY <1>7, <1>8, <2>3
    <3>3. m # n
      BY <1>1, <1>6, <2>3, <3>1, <3>2 DEF ListInv, Listed, Single
    <3> QED
      BY <1>3, <2>3, <3>1, <3>2, <3>3 DEF World, ListsInv
  <2> QED
    BY <2>1, <2>2, <2>3 DEF ListsInv
<1> QED
  BY <1>1, <1>3, <1>5, <1>7, <1>8, <1>9 DEF World, WorldType, n, o, O1, T1

(* A session is made under a free id, for a socket that is in no list.      *)
LEMMA Create ==
  ASSUME NEW S, NEW O, NEW T, World(S, O, T), NEW i \in SAMIds, T[i] = 0,
         NEW n \in SAMObjects, ~O[n].made,
         NEW o \in Objects, o.live, o.made, o.sockets = {}, o.acceptor = {},
         NEW k \in SAMSockets, NEW s \in Sockets,
         \/ s.reused
         \/ /\ ~S[k].reused /\ ~Listed(S[k]) /\ ~Listed(s)
            /\ ~s.stream /\ s.streamOp = "none" /\ s.session = n /\ s.op # "lookup"
  PROVE  World([S EXCEPT ![k] = s], [O EXCEPT ![n] = o], [T EXCEPT ![i] = n])
<1> DEFINE S1 == [S EXCEPT ![k] = s]
           O1 == [O EXCEPT ![n] = o]
           T1 == [T EXCEPT ![i] = n]
<1>1. /\ S \in [SAMSockets -> Sockets] /\ O \in [SAMObjects -> Objects]
      /\ T \in [SAMIds -> SAMObjects \cup {0}] /\ n # 0
  BY SAMAssumption DEF World, WorldType
<1>3. /\ O1 \in [SAMObjects -> Objects] /\ O1[n] = o
      /\ \A m \in SAMObjects \ {n} : O1[m] = O[m]
      /\ T1 \in [SAMIds -> SAMObjects \cup {0}] /\ T1[i] = n
      /\ \A j \in SAMIds \ {i} : T1[j] = T[j]
      /\ S1 \in [SAMSockets -> Sockets] /\ S1[k] = s
      /\ \A j \in SAMSockets \ {k} : S1[j] = S[j]
  BY <1>1
<1> HIDE DEF O1, T1, S1
<1>4. ~O[n].live /\ \A j \in SAMIds : T[j] # n
  BY <1>1 DEF World, TableInv
<1>5. TableInv(O1, T1)
  <2>1. \A j \in SAMIds : T1[j] # 0 => O1[T1[j]].live
    <3> SUFFICES ASSUME NEW j \in SAMIds, T1[j] # 0 PROVE O1[T1[j]].live
      OBVIOUS
    <3>1. CASE j = i
      BY <1>3, <3>1
    <3>2. CASE j # i
      <4>1. T1[j] = T[j] /\ T[j] \in SAMObjects \ {n}
        BY <1>1, <1>3, <1>4, <3>2
      <4> QED
        BY <1>3, <4>1 DEF World, TableInv
    <3> QED
      BY <3>1, <3>2
  <2>2. \A j, h \in SAMIds : T1[j] # 0 /\ T1[j] = T1[h] => j = h
    BY <1>3, <1>4 DEF World, TableInv
  <2>3. \A m \in SAMObjects : O1[m].live => O1[m].made
    BY <1>3 DEF World, TableInv
  <2> QED
    BY <2>1, <2>2, <2>3 DEF TableInv
<1>6. \A j \in SAMSockets : ~S[j].reused => S[j].session # n
  BY <1>1 DEF World, SocketInv
<1>7. SocketInv(s, O1, T1)
  BY <1>1, <1>3 DEF SocketInv, Listed
<1>8. ASSUME NEW j \in SAMSockets, j # k
      PROVE  S1[j] = S[j] /\ SocketInv(S1[j], O1, T1)
  <2>1. S1[j] = S[j] /\ SocketInv(S[j], O, T) /\ S[j].session \in SAMObjects \cup {0}
    BY <1>1, <1>3, <1>8 DEF World, Sockets
  <2> SUFFICES ASSUME ~S[j].reused
               PROVE  SocketInv(S[j], O1, T1)
    BY <2>1 DEF SocketInv
  <2>2. S[j].session # 0 => O1[S[j].session] = O[S[j].session]
    BY <1>3, <1>6, <2>1
  <2>3. \A h \in SAMIds : T[h] # 0 => T1[h] = T[h]
    BY <1>3
  <2> QED
    BY <2>1, <2>2, <2>3 DEF SocketInv
<1>9. ListsInv(S1, O1)
  <2>1. ASSUME NEW m \in SAMObjects, NEW j \in SAMSockets
        PROVE  ListInv(j, S1[j], m, O1[m])
    <3> SUFFICES ASSUME ~S1[j].reused
                 PROVE  ListInv(j, S1[j], m, O1[m])
      BY DEF ListInv
    <3>1. ~S[j].reused /\ ListInv(j, S[j], m, O[m])
      BY <1>3 DEF World, ListsInv
    <3>2. CASE m = n
      <4>1. ~(Listed(S1[j]) /\ S1[j].session = m)
        BY <1>3, <1>6, <3>1, <3>2
      <4> QED
        BY <1>3, <3>2, <4>1 DEF ListInv
    <3>3. CASE m # n /\ j # k
      BY <1>3, <3>1, <3>3
    <3>4. CASE m # n /\ j = k
      <4>1. s.session = n /\ ~Listed(s) /\ S1[j] = s /\ O1[m] = O[m]
        BY <1>3, <3>4
      <4>2. S[k].reused = FALSE /\ SocketInv(S[k], O, T) /\ ListInv(k, S[k], m, O[m])
        BY <1>1, <3>1, <3>4 DEF World, Sockets
      <4> QED
        BY <3>1, <3>4, <4>1, <4>2 DEF ListInv, Listed
    <3> QED
      BY <3>2, <3>3, <3>4
  <2>2. ASSUME NEW m \in SAMObjects
        PROVE  \A h, j \in O1[m].acceptor : h = j
    <3>1. CASE m = n
      BY <1>3, <3>1
    <3>2. CASE m # n
      <4>1. O1[m] = O[m]
        BY <1>3, <3>2
      <4>2. \A h, j \in O[m].acceptor : h = j
        BY DEF World, ListsInv
      <4> QED
        BY <4>1, <4>2
    <3> QED
      BY <3>1, <3>2
  <2>3. ASSUME Single(S1), NEW m \in SAMObjects, NEW j \in SAMSockets,
               S1[j].type = "Acceptor", S1[j].session = m
        PROVE  j \in O1[m].acceptor
    <3>0. ~s.reused /\ ~S[k].reused /\ ~Listed(s)
      BY <1>3, <2>3 DEF Single
    <3>1. ~s.reused /\ Single(S) /\ j # k
      BY <1>3, <2>3, <3>0 DEF Single, Listed
    <3>2. S1[j] = S[j]
      BY <1>3, <3>1
    <3>3. m # n
      BY <1>6, <2>3, <3>1, <3>2 DEF Single
    <3> QED
      BY <1>3, <2>3, <3>1, <3>2, <3>3 DEF World, ListsInv
  <2> QED
    BY <2>1, <2>2, <2>3 DEF ListsInv
<1> QED
  BY <1>1, <1>3, <1>5, <1>7, <1>8, <1>9 DEF World, WorldType, S1, O1, T1

-----------------------------------------------------------------------------
(* The handlers' operators, from one world to another.  A world in which a  *)
(* session was used that is no more takes the bridge down.                  *)

Made(S, O, T) == [socks |-> S, objects |-> O, table |-> T, up |-> "running"]
IsWorld(w) == w = Made(w.socks, w.objects, w.table) /\ World(w.socks, w.objects, w.table)
Result(w) == w.up = "down" \/ IsWorld(w)

LEMMA WorldFacts ==
  ASSUME NEW S, NEW O, NEW T, World(S, O, T)
  PROVE  IsWorld(Made(S, O, T)) /\ Result(Made(S, O, T))
BY DEF IsWorld, Made, Result

LEMMA PutFacts ==
  ASSUME NEW w, w = Made(w.socks, w.objects, w.table), NEW k \in SAMSockets, NEW s
  PROVE  [w EXCEPT !.socks[k] = s] = Made([w.socks EXCEPT ![k] = s], w.objects, w.table)
BY DEF Made

LEMMA ObjectFacts ==
  ASSUME NEW w, w = Made(w.socks, w.objects, w.table), NEW n, NEW o
  PROVE  [w EXCEPT !.objects[n] = o] = Made(w.socks, [w.objects EXCEPT ![n] = o], w.table)
BY DEF Made

LEMMA SockFacts ==
  ASSUME NEW w, IsWorld(w), NEW k \in SAMSockets
  PROVE  /\ w.socks[k] \in Sockets /\ SocketInv(w.socks[k], w.objects, w.table)
         /\ w.socks \in [SAMSockets -> Sockets] /\ w.objects \in [SAMObjects -> Objects]
         /\ w.table \in [SAMIds -> SAMObjects \cup {0}]
BY DEF IsWorld, World, WorldType

(* A socket's operation, and what it says when it replies, are its own.     *)
Ops == {"accept", "handshake", "handshakeReply", "message", "reply", "timer", "name", "data",
        "sending", "none"}

(* Neither the type nor the session of the socket changes.                  *)
SameSocket(s, r) ==
  /\ r \in Sockets /\ r.type = s.type /\ r.session = s.session /\ r.id = s.id
  /\ r.stream = s.stream /\ r.streamOp = s.streamOp /\ r.op # "lookup" /\ r.reused = s.reused

LEMMA PutSame ==
  ASSUME NEW w, IsWorld(w), NEW k \in SAMSockets, NEW s, SameSocket(w.socks[k], s)
  PROVE  IsWorld([w EXCEPT !.socks[k] = s])
<1>1. /\ w.socks[k] \in Sockets /\ SocketInv(w.socks[k], w.objects, w.table) /\ s \in Sockets
  BY SockFacts DEF SameSocket
<1>2. SocketInv(s, w.objects, w.table)
  BY <1>1 DEF SocketInv, Listed, SameSocket
<1>3. World([w.socks EXCEPT ![k] = s], w.objects, w.table) /\ w = Made(w.socks, w.objects, w.table)
  BY <1>1, <1>2, SetSocket DEF IsWorld, SameSocket, Sockets
<1>4. [w EXCEPT !.socks[k] = s] = Made([w.socks EXCEPT ![k] = s], w.objects, w.table)
  BY <1>3, PutFacts
<1> QED
  BY <1>3, <1>4, WorldFacts

LEMMA SetOp ==
  ASSUME NEW w, IsWorld(w), NEW k \in SAMSockets, NEW op \in Ops
  PROVE  IsWorld([w EXCEPT !.socks[k].op = op])
<1> DEFINE s == [w.socks[k] EXCEPT !.op = op]
<1>1. w.socks[k] \in Sockets
  BY SockFacts
<1>2. SameSocket(w.socks[k], s)
  BY <1>1 DEF Sockets, Ops, SameSocket
<1>3. [w EXCEPT !.socks[k].op = op] = [w EXCEPT !.socks[k] = s]
  OBVIOUS
<1> HIDE DEF s
<1> QED
  BY <1>2, <1>3, PutSame

LEMMA ReceiveFacts ==
  ASSUME NEW w, IsWorld(w), NEW k \in SAMSockets
  PROVE  IsWorld(SAMReceive(w, k))
<1> DEFINE op == IF w.socks[k].type = "Stream" THEN "data" ELSE "message"
<1>1. op \in Ops
  BY DEF Ops
<1>2. SAMReceive(w, k) = [w EXCEPT !.socks[k].op = op]
  BY DEF SAMReceive
<1> HIDE DEF op
<1> QED
  BY <1>1, <1>2, SetOp

LEMMA CloseSessionFacts ==
  ASSUME NEW w, IsWorld(w), NEW id \in SAMIds \cup {NoId}
  PROVE  /\ IsWorld(CloseSession(w, id))
         /\ \A k \in SAMSockets :
              LET s == CloseSession(w, id).socks[k]
              IN /\ s.reused = w.socks[k].reused
                 /\ ~s.reused /\ ~Listed(w.socks[k]) => s = w.socks[k]
<1> DEFINE n == IF id = NoId THEN 0 ELSE w.table[id]
           o == [SAMSession EXCEPT !.made = TRUE]
           S1 == [k \in SAMSockets |->
                    IF k \in w.objects[n].sockets
                    THEN [CloseStream(w.socks[k]) EXCEPT !.type = "Terminated"] ELSE w.socks[k]]
<1>1. CASE n = 0
  BY <1>1 DEF CloseSession
<1>2. CASE n # 0
  <2>1. id \in SAMIds /\ n = w.table[id] /\ w.table[id] # 0
    BY <1>2
  <2>2. n \in SAMObjects
    BY <2>1 DEF IsWorld, World, WorldType
  <2>3. CloseSession(w, id) = [socks |-> S1, objects |-> [w.objects EXCEPT ![n] = o],
                               table |-> [w.table EXCEPT ![id] = 0], up |-> w.up]
    BY <1>2 DEF CloseSession
  <2> HIDE DEF n, o
  <2>4. \A k \in SAMSockets : w.socks[k] \in Sockets
    BY SockFacts
  <2>5. ASSUME NEW k \in SAMSockets
        PROVE  LET s == [CloseStream(w.socks[k]) EXCEPT !.type = "Terminated"]
               IN s \in Sockets /\ s.reused = w.socks[k].reused
    <3>1. w.socks[k] \in Sockets
      BY <2>4
    <3> QED
      BY <3>1 DEF CloseStream, Sockets
  <2>6. S1 \in [SAMSockets -> Sockets]
    BY <2>4, <2>5
  <2>7. \A k \in SAMSockets :
          IF k \in w.objects[n].sockets
          THEN S1[k] = [CloseStream(w.socks[k]) EXCEPT !.type = "Terminated"]
          ELSE S1[k] = w.socks[k]
    OBVIOUS
  <2> HIDE DEF S1
  <2>8. World(S1, [w.objects EXCEPT ![n] = o], [w.table EXCEPT ![id] = 0])
    BY <2>1, <2>6, <2>7, Close DEF IsWorld, o
  <2>9. CloseSession(w, id) = Made(S1, [w.objects EXCEPT ![n] = o], [w.table EXCEPT ![id] = 0])
    <3>1. w.up = "running"
      BY DEF IsWorld, Made
    <3> QED
      BY <2>3, <3>1 DEF Made
  <2>10. IsWorld(CloseSession(w, id)) /\ CloseSession(w, id).socks = S1
    BY <2>8, <2>9, WorldFacts DEF Made
  <2>11. \A k \in SAMSockets : ~w.socks[k].reused /\ k \in w.objects[n].sockets => Listed(w.socks[k])
    BY <2>2 DEF IsWorld, World, ListsInv, ListInv
  <2>12. \A k \in SAMSockets : S1[k].reused = w.socks[k].reused
    BY <2>5, <2>7
  <2> QED
    BY <2>7, <2>10, <2>11, <2>12
<1> QED
  BY <1>1, <1>2

(* Terminate takes the socket out of its list, or ends its session.         *)
LEMMA EndedFacts ==
  ASSUME NEW s \in Sockets
  PROVE  LET r == EndedSocket(s)
         IN /\ r \in Sockets /\ r.type = "Terminated" /\ ~Listed(r) /\ r.reused = s.reused
            /\ \A O, T : SocketInv(s, O, T) /\ (~s.reused /\ Listed(s) => s.op # "lookup")
                           => SocketInv(r, O, T)
<1> DEFINE r == EndedSocket(s)
<1>1. /\ r \in Sockets /\ r.type = "Terminated" /\ r.op \in {s.op, "none"}
      /\ ~r.stream /\ r.streamOp = "none" /\ r.session = s.session /\ r.id = s.id
      /\ r.reused = s.reused
  BY ZenonT(60) DEF EndedSocket, CloseStream, Sockets
<1> HIDE DEF r
<1> QED
  BY <1>1 DEF SocketInv, Listed, r

LEMMA TerminateFacts ==
  ASSUME NEW w, IsWorld(w), NEW k \in SAMSockets
  PROVE  Result(SAMTerminate(w, k))
<1> DEFINE s == w.socks[k]
<1>1. s \in Sockets /\ SocketInv(s, w.objects, w.table)
  BY SockFacts
<1>2. ASSUME NEW v, IsWorld(v), v.socks[k].reused \/ ~Listed(v.socks[k])
      PROVE  Result([v EXCEPT !.socks[k] = EndedSocket(@)])
  <2> DEFINE r == EndedSocket(v.socks[k])
  <2>1. v.socks[k] \in Sockets /\ SocketInv(v.socks[k], v.objects, v.table)
    BY <1>2, SockFacts
  <2>2. /\ r \in Sockets /\ ~Listed(r) /\ r.reused = v.socks[k].reused
        /\ SocketInv(r, v.objects, v.table)
    BY <1>2, <2>1, EndedFacts
  <2>3. [v EXCEPT !.socks[k] = EndedSocket(@)] = [v EXCEPT !.socks[k] = r]
    OBVIOUS
  <2> HIDE DEF r
  <2>4. r.reused \/ (~v.socks[k].reused /\ ~Listed(r) /\ ~Listed(v.socks[k]))
    BY <1>2, <2>2, Zenon
  <2>5. World([v.socks EXCEPT ![k] = r], v.objects, v.table)
    BY <1>2, <2>2, <2>4, SetSocket DEF IsWorld
  <2> QED
    BY <1>2, <2>3, <2>5, PutFacts, WorldFacts DEF IsWorld
<1>3. CASE s.type \in {"Session", "UDPForward"}
  <2> DEFINE v == CloseSession(w, s.id)
  <2>1. SAMTerminate(w, k) = [v EXCEPT !.socks[k] = EndedSocket(@)]
    BY <1>3 DEF SAMTerminate
  <2>2. ~Listed(s) /\ s.id \in SAMIds \cup {NoId}
    BY <1>1, <1>3 DEF Listed, Sockets
  <2>3. IsWorld(v) /\ (v.socks[k].reused \/ ~Listed(v.socks[k]))
    BY <2>2, CloseSessionFacts
  <2> HIDE DEF v
  <2> QED
    BY <1>2, <2>1, <2>3
<1>4. CASE s.type \in {"Stream", "Acceptor"} /\ s.session # 0
  <2>1. Listed(s) /\ s.session # 0 /\ s.session \in SAMObjects
    BY <1>1, <1>4 DEF Listed, Sockets
  <2> DEFINE n == s.session
             o == [w.objects[n] EXCEPT !.sockets = @ \ {k},
                     !.acceptor = IF s.type = "Acceptor" THEN {} ELSE @]
             r == EndedSocket(s)
  <2>2. w.objects[n] \in Objects
    BY <2>1, SockFacts
  <2>3. LeaveSession(w, k) = [w EXCEPT !.objects[n] = o, !.up = IF w.objects[n].live THEN @ ELSE "down"]
    BY <2>1, <2>2 DEF LeaveSession, IsWorld, Made, World, WorldType
  <2>4. SAMTerminate(w, k) = [LeaveSession(w, k) EXCEPT !.socks[k] = EndedSocket(@)]
    BY <1>4, <2>1 DEF SAMTerminate
  <2>5. CASE ~w.objects[n].live
    <3>1. LeaveSession(w, k).up = "down"
      BY <2>3, <2>5 DEF IsWorld, Made
    <3> QED
      BY <2>3, <2>4, <2>5 DEF Result, IsWorld, Made
  <2>6. CASE w.objects[n].live
    <3>1. /\ o \in Objects /\ o.live = w.objects[n].live /\ o.made = w.objects[n].made
          /\ o.sockets = w.objects[n].sockets \ {k}
          /\ s.type = "Acceptor" => o.acceptor = {}
          /\ s.type # "Acceptor" => o.acceptor = w.objects[n].acceptor
      BY <2>2 DEF Objects
    <3>2. SAMTerminate(w, k) = Made([w.socks EXCEPT ![k] = r], [w.objects EXCEPT ![n] = o], w.table)
      <4> HIDE DEF o, r
      <4>1. LeaveSession(w, k) = [w EXCEPT !.objects[n] = o]
        BY <2>3, <2>6 DEF IsWorld, Made
      <4>2. SAMTerminate(w, k) = [LeaveSession(w, k) EXCEPT !.socks[k] = EndedSocket(s)]
        BY <2>4, <4>1
      <4>3. LeaveSession(w, k) = Made(w.socks, [w.objects EXCEPT ![n] = o], w.table)
        BY <4>1, ObjectFacts DEF IsWorld
      <4> DEFINE u == LeaveSession(w, k)
      <4>4. u.socks = w.socks /\ u.objects = [w.objects EXCEPT ![n] = o] /\ u.table = w.table
        BY <4>3 DEF Made
      <4> HIDE DEF u
      <4>5. [u EXCEPT !.socks[k] = r] = Made([u.socks EXCEPT ![k] = r], u.objects, u.table)
        BY <4>3, <4>4, PutFacts DEF u
      <4> QED
        BY <4>2, <4>4, <4>5 DEF u, r
    <3> HIDE DEF o
    <3>3. /\ r \in Sockets /\ r.type = "Terminated" /\ ~Listed(r) /\ r.reused = s.reused
          /\ SocketInv(r, w.objects, w.table)
      <4>1. SocketInv(s, w.objects, w.table) /\ (~s.reused /\ Listed(s) => s.op # "lookup")
        BY <1>1, <2>1 DEF SocketInv
      <4> QED
        BY <1>1, <4>1, EndedFacts
    <3> HIDE DEF r
    <3> DEFINE O1 == [w.objects EXCEPT ![n] = o]
    <3>4. /\ w.objects \in [SAMObjects -> Objects] /\ O1 \in [SAMObjects -> Objects] /\ O1[n] = o
          /\ \A m \in SAMObjects \ {n} : O1[m] = w.objects[m]
      BY <2>1, <3>1, SockFacts
    <3> HIDE DEF O1
    <3>5. ASSUME NEW m \in SAMObjects
          PROVE  /\ O1[m].live = w.objects[m].live /\ O1[m].made = w.objects[m].made
                 /\ \A j \in SAMSockets \ {k} :
                      /\ j \in O1[m].sockets <=> j \in w.objects[m].sockets
                      /\ j \in O1[m].acceptor => j \in w.objects[m].acceptor
                      /\ Single(w.socks) /\ j \in w.objects[m].acceptor
                           => j \in O1[m].acceptor \/ r.reused
                 /\ O1[m].acceptor \in {w.objects[m].acceptor, {}, {k}}
                 /\ ListInv(k, r, m, O1[m])
      <4>1. ListInv(k, s, m, w.objects[m])
        BY DEF IsWorld, World, ListsInv
      <4>2. CASE m = n
        <5>1. ASSUME NEW j \in SAMSockets \ {k}, Single(w.socks), j \in w.objects[m].acceptor
              PROVE  j \in O1[m].acceptor
          <6>1. s.type # "Acceptor"
            <7>1. SUFFICES ASSUME s.type = "Acceptor" PROVE FALSE
              OBVIOUS
            <7>2. k \in w.objects[m].acceptor
              BY <4>2, <5>1, <7>1 DEF IsWorld, World, ListsInv
            <7> QED
              BY <5>1, <7>2 DEF IsWorld, World, ListsInv
          <6> QED
            BY <3>1, <3>4, <4>2, <5>1, <6>1
        <5>2. ListInv(k, r, m, O1[m])
          BY <3>1, <3>3, <3>4, <4>1, <4>2 DEF ListInv
        <5> QED
          BY <3>1, <3>4, <4>2, <5>1, <5>2
      <4>3. CASE m # n
        <5>1. O1[m] = w.objects[m]
          BY <3>4, <4>3
        <5>2. ListInv(k, r, m, O1[m])
          BY <3>3, <4>1, <4>3, <5>1 DEF ListInv
        <5> QED
          BY <5>1, <5>2
      <4> QED
        BY <4>2, <4>3
    <3>6. World([w.socks EXCEPT ![k] = r], O1, w.table)
      <4>1. r.reused \/ ~w.socks[k].reused
        BY <1>1, <3>3 DEF Sockets
      <4>2. World(w.socks, w.objects, w.table)
        BY DEF IsWorld
      <4> QED
        BY <3>3, <3>4, <3>5, <4>1, <4>2, Change
    <3> QED
      BY <3>2, <3>6, WorldFacts DEF O1
  <2> QED
    BY <2>5, <2>6
<1>5. CASE s.type \notin {"Session", "UDPForward"} /\ ~(s.type \in {"Stream", "Acceptor"} /\ s.session # 0)
  <2>1. SAMTerminate(w, k) = [w EXCEPT !.socks[k] = EndedSocket(@)]
    BY <1>5 DEF SAMTerminate
  <2>2. s.reused \/ ~Listed(s)
    BY <1>1, <1>5 DEF SocketInv, Listed
  <2> QED
    BY <1>2, <2>1, <2>2
<1> QED
  BY <1>3, <1>4, <1>5

(* A reply: the socket writes, reads on, or ends.                           *)
ReplyOn(w, k) == SendMessageReply(w, k, FALSE)
Put(S, k, s) == [S EXCEPT ![k] = s]
PutIn(w, k, s) == [w EXCEPT !.socks[k] = s]

LEMMA ReplyFacts ==
  ASSUME NEW w, NEW k \in SAMSockets, w.socks[k] \in Sockets
  PROVE  \E s : SameSocket(w.socks[k], s) /\ ReplyOn(w, k) = PutIn(w, k, s)
<1>1. CASE w.socks[k].silent
  <2> DEFINE op == IF w.socks[k].type = "Stream" THEN "data" ELSE "message"
             s == [w.socks[k] EXCEPT !.op = op]
  <2>1. SameSocket(w.socks[k], s)
    BY DEF SameSocket, Sockets
  <2>2. ReplyOn(w, k) = PutIn(w, k, s)
    BY <1>1 DEF PutIn, ReplyOn, SendMessageReply, SAMReceive
  <2> HIDE DEF s
  <2> QED
    BY <2>1, <2>2, Zenon
<1>2. CASE ~w.socks[k].silent
  <2> DEFINE s == [w.socks[k] EXCEPT !.op = "reply", !.close = FALSE]
  <2>1. SameSocket(w.socks[k], s)
    BY DEF SameSocket, Sockets
  <2>2. ReplyOn(w, k) = PutIn(w, k, s)
    BY <1>2 DEF PutIn, ReplyOn, SendMessageReply
  <2> HIDE DEF s
  <2> QED
    BY <2>1, <2>2, Zenon
<1> QED
  BY <1>1, <1>2

LEMMA ReplyMade ==
  ASSUME NEW S \in [SAMSockets -> Sockets], NEW O, NEW T, NEW k \in SAMSockets, NEW s \in Sockets,
         NEW w, w = Made(Put(S, k, s), O, T)
  PROVE  \E r : SameSocket(s, r) /\ ReplyOn(w, k) = Made(Put(S, k, r), O, T)
<1> DEFINE S1 == Put(S, k, s)
<1>1. S1[k] = s /\ \A r : Put(S1, k, r) = Put(S, k, r)
  BY DEF Put
<1>2. w.socks = S1 /\ w.objects = O /\ w.table = T /\ w = Made(w.socks, w.objects, w.table)
  BY DEF Made
<1> HIDE DEF S1
<1>3. w.socks[k] = s /\ w.socks[k] \in Sockets
  BY <1>1, <1>2
<1>4. PICK r : SameSocket(w.socks[k], r) /\ ReplyOn(w, k) = PutIn(w, k, r)
  BY <1>3, ReplyFacts
<1>5. PutIn(w, k, r) = Made(Put(w.socks, k, r), w.objects, w.table)
  <2>1. w = Made(w.socks, w.objects, w.table)
    BY <1>2
  <2>2. PutIn(w, k, r) = [w EXCEPT !.socks[k] = r]
    BY DEF PutIn
  <2>3. [w EXCEPT !.socks[k] = r] = Made([w.socks EXCEPT ![k] = r], w.objects, w.table)
    BY <2>1, PutFacts
  <2> QED
    BY <2>2, <2>3 DEF Put
<1>6. SameSocket(s, r)
  BY <1>3, <1>4
<1>7. Put(w.socks, k, r) = Put(S, k, r)
  BY <1>1, <1>2
<1>8. ReplyOn(w, k) = Made(Put(S, k, r), O, T)
  BY <1>2, <1>4, <1>5, <1>7
<1> QED
  BY <1>6, <1>8, Zenon

LEMMA ReplyOnFacts ==
  ASSUME NEW w, IsWorld(w), NEW k \in SAMSockets
  PROVE  IsWorld(ReplyOn(w, k)) /\ Result(ReplyOn(w, k))
<1>1. w.socks[k] \in Sockets
  BY SockFacts
<1>2. PICK s : SameSocket(w.socks[k], s) /\ ReplyOn(w, k) = PutIn(w, k, s)
  BY <1>1, ReplyFacts, Zenon
<1>3. IsWorld(PutIn(w, k, s))
  BY <1>2, PutSame DEF PutIn
<1> QED
  BY <1>2, <1>3 DEF Result

LEMMA ReplyCloseFacts ==
  ASSUME NEW w, IsWorld(w), NEW k \in SAMSockets
  PROVE  Result(SendMessageReply(w, k, TRUE))
<1>1. w.socks[k] \in Sockets
  BY SockFacts
<1>2. CASE w.socks[k].silent
  BY <1>2, TerminateFacts DEF SendMessageReply
<1>3. CASE ~w.socks[k].silent
  <2> DEFINE s == [w.socks[k] EXCEPT !.op = "reply", !.close = TRUE]
  <2>1. SameSocket(w.socks[k], s)
    BY <1>1 DEF SameSocket, Sockets
  <2>2. SendMessageReply(w, k, TRUE) = [w EXCEPT !.socks[k] = s]
    BY <1>3 DEF SendMessageReply
  <2> HIDE DEF s
  <2>3. IsWorld([w EXCEPT !.socks[k] = s])
    BY <2>1, PutSame
  <2> QED
    BY <2>2, <2>3 DEF Result
<1> QED
  BY <1>2, <1>3

(* A handler that throws lets the socket go.                                *)
LEMMA LetGoFacts ==
  ASSUME NEW w, IsWorld(w), NEW k \in SAMSockets
  PROVE  Result(LetGo(w, k))
<1>1. Result([w EXCEPT !.socks[k].op = "none"])
  <2>1. "none" \in Ops
    BY DEF Ops
  <2> QED
    BY <2>1, SetOp DEF Result
<1>2. Result(SAMTerminate(w, k))
  BY TerminateFacts
<1> QED
  BY <1>1, <1>2 DEF LetGo

(* A socket joins its session: it is connected, or waits for a stream.  One *)
(* that had a command before may be anything.                               *)
LEMMA JoinFacts ==
  ASSUME NEW S, NEW O, NEW T, World(S, O, T), NEW k \in SAMSockets,
         S[k].session # 0, NEW s \in Sockets, NEW o \in Objects,
         s.session = S[k].session, s.id = S[k].id, s.reused = S[k].reused,
         \/ s.type = "Stream" /\ s.stream
         \/ s.type = "Acceptor" /\ s.stream = S[k].stream /\ s.streamOp = S[k].streamOp,
         \/ S[k].reused
         \/ ~Listed(S[k]) /\ S[k].id \in SAMIds /\ T[S[k].id] = S[k].session,
         s.op # "lookup" \/ s.reused,
         o.live = O[S[k].session].live, o.made = O[S[k].session].made,
         o.sockets = O[S[k].session].sockets \cup {k},
         \/ s.type = "Stream" /\ o.acceptor = O[S[k].session].acceptor
         \/ s.type = "Acceptor" /\ O[S[k].session].acceptor = {} /\ o.acceptor = {k}
  PROVE  World([S EXCEPT ![k] = s], [O EXCEPT ![S[k].session] = o], T)
<1> DEFINE n == S[k].session
           O1 == [O EXCEPT ![n] = o]
<1>1. /\ S \in [SAMSockets -> Sockets] /\ O \in [SAMObjects -> Objects]
      /\ T \in [SAMIds -> SAMObjects \cup {0}] /\ S[k] \in Sockets /\ SocketInv(S[k], O, T)
  BY DEF World, WorldType
<1>2. n \in SAMObjects
  BY <1>1 DEF Sockets
<1>3. /\ O1 \in [SAMObjects -> Objects] /\ O1[n] = o
      /\ \A m \in SAMObjects \ {n} : O1[m] = O[m]
  BY <1>1, <1>2
<1> HIDE DEF O1, n
<1>4. SocketInv(s, O, T)
  BY <1>1 DEF SocketInv, Listed
<1>5. ASSUME NEW m \in SAMObjects
      PROVE  /\ O1[m].live = O[m].live /\ O1[m].made = O[m].made
             /\ \A j \in SAMSockets \ {k} :
                  /\ j \in O1[m].sockets <=> j \in O[m].sockets
                  /\ j \in O1[m].acceptor => j \in O[m].acceptor
                  /\ Single(S) /\ j \in O[m].acceptor => j \in O1[m].acceptor \/ s.reused
             /\ O1[m].acceptor \in {O[m].acceptor, {}, {k}}
  <2>1. CASE m = n
    BY <1>3, <2>1 DEF n
  <2>2. CASE m # n
    BY <1>3, <2>2
  <2> QED
    BY <2>1, <2>2
<1>6. ASSUME NEW m \in SAMObjects
      PROVE  /\ ListInv(k, s, m, O1[m])
             /\ ~s.reused /\ Single(S) => (s.type = "Acceptor" /\ s.session = m => k \in O1[m].acceptor)
  <2> SUFFICES ASSUME ~s.reused
               PROVE  /\ ListInv(k, s, m, O1[m])
                      /\ s.type = "Acceptor" /\ s.session = m => k \in O1[m].acceptor
    BY DEF ListInv
  <2>1. ListInv(k, S[k], m, O[m]) /\ ~S[k].reused /\ ~Listed(S[k])
    BY DEF World, ListsInv
  <2>2. k \notin O[m].sockets /\ k \notin O[m].acceptor
    BY <2>1 DEF ListInv, Listed
  <2>3. CASE m = n
    BY <1>3, <2>2, <2>3 DEF n, ListInv, Listed
  <2>4. CASE m # n
    BY <1>3, <2>2, <2>4 DEF n, ListInv
  <2> QED
    BY <2>3, <2>4
<1>7. World([S EXCEPT ![k] = s], O1, T)
  <2>1. s.reused \/ ~S[k].reused
    BY <1>1 DEF Sockets
  <2> QED
    BY <1>3, <1>4, <1>5, <1>6, <2>1, Change
<1> QED
  BY <1>7 DEF n, O1

(* It is answered then.                                                     *)
LEMMA JoinedFacts ==
  ASSUME NEW S, NEW O, NEW T, World(S, O, T), NEW k \in SAMSockets,
         S[k].session # 0, NEW s \in Sockets, NEW o \in Objects,
         s.session = S[k].session, s.id = S[k].id, s.reused = S[k].reused,
         \/ s.type = "Stream" /\ s.stream
         \/ s.type = "Acceptor" /\ s.stream = S[k].stream /\ s.streamOp = S[k].streamOp,
         \/ S[k].reused
         \/ ~Listed(S[k]) /\ S[k].id \in SAMIds /\ T[S[k].id] = S[k].session,
         o.live = O[S[k].session].live, o.made = O[S[k].session].made,
         o.sockets = O[S[k].session].sockets \cup {k},
         \/ s.type = "Stream" /\ o.acceptor = O[S[k].session].acceptor
         \/ s.type = "Acceptor" /\ O[S[k].session].acceptor = {} /\ o.acceptor = {k},
         NEW w, w = Made([S EXCEPT ![k] = s], [O EXCEPT ![S[k].session] = o], T)
  PROVE  IsWorld(ReplyOn(w, k)) /\ Result(ReplyOn(w, k))
<1> DEFINE O1 == [O EXCEPT ![S[k].session] = o]
<1>1. S \in [SAMSockets -> Sockets]
  BY DEF World, WorldType
<1>0. w = Made(Put(S, k, s), O1, T)
  BY DEF Put
<1>2. PICK r : SameSocket(s, r) /\ ReplyOn(w, k) = Made(Put(S, k, r), O1, T)
  BY <1>0, <1>1, ReplyMade
<1>3. World(Put(S, k, r), O1, T)
  BY <1>2, JoinFacts DEF SameSocket, Put
<1> HIDE DEF O1
<1> QED
  BY <1>2, <1>3, WorldFacts

LEMMA ConnectFacts ==
  ASSUME NEW S, NEW O, NEW T, World(S, O, T), NEW k \in SAMSockets, S[k].session # 0,
         \/ S[k].reused
         \/ ~Listed(S[k]) /\ S[k].id \in SAMIds /\ T[S[k].id] = S[k].session,
         NEW w, w = Made(S, O, T)
  PROVE  Result(SAMConnect(w, k))
<1> DEFINE n == S[k].session
           s == WithStream(S[k])
           o == [O[n] EXCEPT !.sockets = @ \cup {k}]
<1>1. /\ S \in [SAMSockets -> Sockets] /\ O \in [SAMObjects -> Objects]
      /\ S[k] \in Sockets /\ n \in SAMObjects /\ O[n] \in Objects
  BY DEF World, WorldType, Sockets
<1>2. /\ s \in Sockets /\ s.type = "Stream" /\ s.session = n /\ s.id = S[k].id /\ s.stream
      /\ s.reused = S[k].reused
  BY <1>1 DEF Sockets, WithStream
<1>3. /\ o \in Objects /\ o.live = O[n].live /\ o.made = O[n].made
      /\ o.sockets = O[n].sockets \cup {k} /\ o.acceptor = O[n].acceptor
  BY <1>1 DEF Objects
<1> DEFINE v == [w EXCEPT !.socks[k] = WithStream(@), !.objects[w.socks[k].session].sockets = @ \cup {k}]
<1>4. SAMConnect(w, k) = ReplyOn(v, k)
  BY Zenon DEF SAMConnect, ReplyOn
<1>5. ASSUME NEW u, u = v
      PROVE  u = Made([S EXCEPT ![k] = s], [O EXCEPT ![n] = o], T)
  <2>1. w.socks = S /\ w.objects = O /\ w.table = T
    BY DEF Made
  <2>2. u = [w EXCEPT !.socks[k] = s, !.objects[n].sockets = @ \cup {k}]
    BY <1>5, <2>1
  <2> HIDE DEF s, v, n
  <2> QED
    BY <2>1, <2>2 DEF Made
<1> HIDE DEF s, o, v
<1> QED
  BY <1>2, <1>3, <1>4, <1>5, JoinedFacts

LEMMA AcceptFacts ==
  ASSUME NEW S, NEW O, NEW T, World(S, O, T), NEW k \in SAMSockets, S[k].session # 0,
         \/ S[k].reused
         \/ ~Listed(S[k]) /\ S[k].id \in SAMIds /\ T[S[k].id] = S[k].session,
         O[S[k].session].acceptor = {}, NEW n, n = S[k].session,
         NEW w, w = Made(S, O, T)
  PROVE  Result(ReplyOn([w EXCEPT !.socks[k].type = "Acceptor", !.objects[n] = Accepting(@, k)], k))
<1> DEFINE s == [S[k] EXCEPT !.type = "Acceptor"]
           o == Accepting(O[n], k)
<1>1. /\ S \in [SAMSockets -> Sockets] /\ O \in [SAMObjects -> Objects]
      /\ S[k] \in Sockets /\ n \in SAMObjects /\ O[n] \in Objects
  BY DEF World, WorldType, Sockets
<1>2. /\ s \in Sockets /\ s.type = "Acceptor" /\ s.session = n /\ s.id = S[k].id
      /\ s.stream = S[k].stream /\ s.streamOp = S[k].streamOp /\ s.reused = S[k].reused
  BY <1>1 DEF Sockets
<1>3. /\ o \in Objects /\ o.live = O[n].live /\ o.made = O[n].made
      /\ o.sockets = O[n].sockets \cup {k} /\ o.acceptor = {k}
  BY <1>1 DEF Objects, Accepting
<1> DEFINE v == [w EXCEPT !.socks[k].type = "Acceptor", !.objects[n] = Accepting(@, k)]
<1>4. ASSUME NEW u, u = v
      PROVE  u = Made([S EXCEPT ![k] = s], [O EXCEPT ![n] = o], T)
  <2>1. w.socks = S /\ w.objects = O /\ w.table = T
    BY DEF Made
  <2>2. u = [w EXCEPT !.socks[k] = s, !.objects[n] = o]
    BY <1>4, <2>1
  <2> HIDE DEF s, o, v
  <2> QED
    BY <2>1, <2>2 DEF Made
<1> HIDE DEF s, o, v
<1>5. Result(ReplyOn(v, k))
  BY <1>2, <1>3, <1>4, JoinedFacts
<1> QED
  BY <1>5 DEF v

(* What a command does before it works on the session: it notes the id, the *)
(* session it found and how the client wants to be answered.                *)
LEMMA NoteFacts ==
  ASSUME NEW S, NEW O, NEW T, World(S, O, T), NEW k \in SAMSockets, NEW s \in Sockets,
         \/ s.reused
         \/ /\ Unused(S[k]) /\ ~S[k].reused /\ s.type = "Unknown" /\ s.op # "lookup"
            /\ s.stream = S[k].stream /\ s.streamOp = S[k].streamOp,
         NEW i \in SAMIds, s.session \in {T[i], S[k].session, 0}
  PROVE  World([S EXCEPT ![k] = s], O, T)
<1>1. /\ S[k] \in Sockets /\ SocketInv(S[k], O, T) /\ s.session \in SAMObjects \cup {0}
      /\ S \in [SAMSockets -> Sockets]
  BY DEF World, WorldType, Sockets
<1>2. ASSUME ~s.reused
      PROVE  s.session # 0 => O[s.session].made
  BY <1>1, <1>2 DEF World, TableInv, SocketInv
<1>3. SocketInv(s, O, T)
  BY <1>1, <1>2 DEF SocketInv, Listed, Unused
<1>4. \/ s.reused
      \/ ~S[k].reused /\ ~Listed(s) /\ ~Listed(S[k])
  BY DEF Unused, Listed
<1> QED
  BY <1>3, <1>4, SetSocket

-----------------------------------------------------------------------------
(* The handlers themselves.                                                 *)

LEMMA Running ==
  ASSUME IInv, samUp = "running"
  PROVE  /\ World(socks, objects, samTable) /\ SAMWorld = Made(socks, objects, samTable)
         /\ IsWorld(SAMWorld)
         /\ SAMWorld.socks = socks /\ SAMWorld.objects = objects /\ SAMWorld.table = samTable
         /\ socks \in [SAMSockets -> Sockets] /\ objects \in [SAMObjects -> Objects]
         /\ samTable \in [SAMIds -> SAMObjects \cup {0}]
<1>1. World(socks, objects, samTable)
  BY DEF IInv, RunningInv
<1>2. SAMWorld = Made(socks, objects, samTable)
  BY DEF SAMWorld, Made
<1> QED
  BY <1>1, <1>2, WorldFacts DEF Made, World, WorldType

LEMMA Settled ==
  ASSUME NEW v, Result(v), Settle(v)
  PROVE  IInv'
<1>1. CASE v.up = "down"
  BY <1>1 DEF Settle, IInv, TypeInv, RunningInv
<1>2. CASE IsWorld(v)
  <2>1. v.up = "running" /\ World(v.socks, v.objects, v.table)
    BY <1>2 DEF IsWorld, Made
  <2> QED
    BY <2>1 DEF Settle, IInv, TypeInv, RunningInv
<1> QED
  BY <1>1, <1>2 DEF Result

LEMMA Crashed ==
  ASSUME Crash \/ SAMStop
  PROVE  IInv'
BY DEF Crash, SAMStop, IInv, TypeInv, RunningInv

(* A socket only changes what it does next, or ends.                        *)
LEMMA OpStep ==
  ASSUME IInv, NEW k \in SAMSockets,
         \/ SAMHandleAccept(k) \/ HandleHandshakeReceived(k) \/ HandleHandshakeReplySent(k)
         \/ HandleMessageReplySent(k) \/ SocketFails(k) \/ HandleSessionReadinessCheckTimer(k)
         \/ ProcessNamingLookup(k) \/ HandleNamingLookupLeaseSetRequestComplete(k)
         \/ ProcessDatagramSend(k) \/ UnexpectedMessage(k) \/ SAMHandleReceived(k)
         \/ SAMSendComplete(k) \/ HandleI2PDatagramReceive(k)
  PROVE  IInv'
<1>1. samUp = "running"
  BY DEF SAMHandleAccept, HandleHandshakeReceived, HandleHandshakeReplySent,
     HandleMessageReplySent, SocketFails, HandleSessionReadinessCheckTimer,
     ProcessNamingLookup, HandleNamingLookupLeaseSetRequestComplete, ProcessDatagramSend,
     UnexpectedMessage, SAMHandleReceived, SAMSendComplete, HandleI2PDatagramReceive, Doing, Done, Says
<1>2. IsWorld(SAMWorld)
  BY <1>1, Running
<1>3. ASSUME NEW op \in Ops, Settle([SAMWorld EXCEPT !.socks[k].op = op])
      PROVE  IInv'
  <2>1. Result([SAMWorld EXCEPT !.socks[k].op = op])
    BY <1>2, SetOp DEF Result
  <2> QED
    BY <1>3, <2>1, Settled
<1>4. ASSUME Settle(SAMTerminate(SAMWorld, k))
      PROVE  IInv'
  BY <1>2, <1>4, TerminateFacts, Settled
<1>5. ASSUME Settle(SAMReceive(SAMWorld, k))
      PROVE  IInv'
  BY <1>2, <1>5, ReceiveFacts, Settled DEF Result
<1>6. ASSUME Settle(SendMessageReply(SAMWorld, k, TRUE))
      PROVE  IInv'
  BY <1>2, <1>6, ReplyCloseFacts, Settled
<1>7. ASSUME Settle(ReplyOn(SAMWorld, k))
      PROVE  IInv'
  BY <1>2, <1>7, ReplyOnFacts, Settled
<1>8. ASSUME Settle(LetGo(SAMWorld, k))
      PROVE  IInv'
  BY <1>2, <1>8, LetGoFacts, Settled
<1>9. \/ Crash \/ Settle(LetGo(SAMWorld, k))
      \/ Settle(SAMTerminate(SAMWorld, k)) \/ Settle(SAMReceive(SAMWorld, k))
      \/ Settle(SendMessageReply(SAMWorld, k, TRUE)) \/ Settle(ReplyOn(SAMWorld, k))
      \/ \E op \in Ops : Settle([SAMWorld EXCEPT !.socks[k].op = op])
  <2>1. /\ "handshake" \in Ops /\ "handshakeReply" \in Ops /\ "message" \in Ops /\ "name" \in Ops
        /\ "sending" \in Ops /\ "none" \in Ops
    BY DEF Ops
  <2>2. CASE SAMHandleAccept(k) \/ HandleHandshakeReplySent(k)
    BY <2>1, <2>2, Zenon DEF SAMHandleAccept, HandleHandshakeReplySent
  <2>3. CASE HandleHandshakeReceived(k)
    BY <2>1, <2>3, Zenon DEF HandleHandshakeReceived
  <2>4. CASE HandleMessageReplySent(k) \/ SocketFails(k) \/ UnexpectedMessage(k)
             \/ SAMSendComplete(k) \/ HandleI2PDatagramReceive(k)
    BY <2>4, Zenon DEF HandleMessageReplySent, SocketFails, UnexpectedMessage, SAMSendComplete,
       HandleI2PDatagramReceive
  <2>5. CASE HandleSessionReadinessCheckTimer(k) \/ ProcessDatagramSend(k)
             \/ HandleNamingLookupLeaseSetRequestComplete(k)
    BY <2>5, Zenon DEF HandleSessionReadinessCheckTimer, ProcessDatagramSend, ReplyOn,
       HandleNamingLookupLeaseSetRequestComplete
  <2>6. CASE ProcessNamingLookup(k)
    BY <2>1, <2>6, Zenon DEF ProcessNamingLookup, ReplyOn
  <2>7. CASE SAMHandleReceived(k)
    <3>1. \/ Settle([SAMWorld EXCEPT !.socks[k].op = "sending"])
          \/ Settle([SAMWorld EXCEPT !.socks[k].op = "none"])
      BY <2>7, Zenon DEF SAMHandleReceived
    <3> QED
      BY <2>1, <3>1
  <2> QED
    BY <2>2, <2>3, <2>4, <2>5, <2>6, <2>7
<1> QED
  BY <1>3, <1>4, <1>5, <1>6, <1>7, <1>8, <1>9, Crashed

(* The stream of a socket is read or written, or its end ends the socket.   *)
LEMMA StreamStep ==
  ASSUME IInv, NEW k \in SAMSockets,
         HandleI2PReceive(k) \/ HandleWriteI2PData(k) \/ LeftStreamEnds(k)
  PROVE  IInv'
<1>1. samUp = "running"
  BY DEF HandleI2PReceive, HandleWriteI2PData, LeftStreamEnds
<1>2. World(socks, objects, samTable) /\ SAMWorld = Made(socks, objects, samTable)
      /\ IsWorld(SAMWorld) /\ socks \in [SAMSockets -> Sockets]
  BY <1>1, Running
<1>3. CASE Settle(SAMTerminate(SAMWorld, k))
  BY <1>2, <1>3, TerminateFacts, Settled
(* It keeps its stream, so the invariant says nothing new of it.            *)
<1>4. ASSUME NEW s \in Sockets, s.type = socks[k].type, s.session = socks[k].session,
             s.id = socks[k].id, s.op = socks[k].op, s.stream = socks[k].stream,
             s.reused = socks[k].reused, s.streamOp = socks[k].streamOp \/ socks[k].streamOp # "none"
      PROVE  IsWorld(Made([socks EXCEPT ![k] = s], objects, samTable))
  <2>1. socks[k] \in Sockets /\ SocketInv(socks[k], objects, samTable)
    BY <1>2 DEF World
  <2>2. SocketInv(s, objects, samTable)
    BY <1>4, <2>1 DEF SocketInv, Listed
  <2>3. World([socks EXCEPT ![k] = s], objects, samTable)
    BY <1>2, <1>4, <2>1, <2>2, SetSocket DEF Sockets
  <2> QED
    BY <2>3, WorldFacts
<1>5. ASSUME NEW op \in {"receive", "write"}, socks[k].streamOp # "none",
             Settle([SAMWorld EXCEPT !.socks[k].streamOp = op])
      PROVE  IInv'
  <2> DEFINE s == [socks[k] EXCEPT !.streamOp = op]
  <2>1. socks[k] \in Sockets
    BY <1>2
  <2>2. /\ s \in Sockets /\ s.type = socks[k].type /\ s.session = socks[k].session
        /\ s.id = socks[k].id /\ s.op = socks[k].op /\ s.stream = socks[k].stream
        /\ s.reused = socks[k].reused
    BY <2>1 DEF Sockets
  <2>3. ASSUME NEW u, u = [SAMWorld EXCEPT !.socks[k].streamOp = op]
        PROVE  u = Made([socks EXCEPT ![k] = s], objects, samTable)
    BY <1>2, <2>3 DEF Made
  <2> HIDE DEF s
  <2>4. IsWorld(Made([socks EXCEPT ![k] = s], objects, samTable))
    BY <1>4, <1>5, <2>2
  <2> QED
    BY <1>5, <2>3, <2>4, Settled DEF Result
<1>6. CASE Settle(SAMTerminate([SAMWorld EXCEPT !.socks[k].left = FALSE], k))
  <2> DEFINE s == [socks[k] EXCEPT !.left = FALSE]
  <2>1. socks[k] \in Sockets
    BY <1>2
  <2>2. /\ s \in Sockets /\ s.type = socks[k].type /\ s.session = socks[k].session
        /\ s.id = socks[k].id /\ s.op = socks[k].op /\ s.stream = socks[k].stream
        /\ s.reused = socks[k].reused /\ s.streamOp = socks[k].streamOp
    BY <2>1 DEF Sockets
  <2>3. ASSUME NEW u, u = [SAMWorld EXCEPT !.socks[k].left = FALSE]
        PROVE  u = Made([socks EXCEPT ![k] = s], objects, samTable)
    BY <1>2, <2>3 DEF Made
  <2> HIDE DEF s
  <2>4. IsWorld(Made([socks EXCEPT ![k] = s], objects, samTable))
    BY <1>4, <2>2
  <2> DEFINE v == [SAMWorld EXCEPT !.socks[k].left = FALSE]
  <2>5. IsWorld(v)
    BY <2>3, <2>4
  <2> HIDE DEF v
  <2>6. Result(SAMTerminate(v, k))
    BY <2>5, TerminateFacts
  <2> QED
    BY <1>6, <2>6, Settled DEF v
<1>7. \/ Settle(SAMTerminate(SAMWorld, k))
      \/ socks[k].streamOp # "none" /\ Settle([SAMWorld EXCEPT !.socks[k].streamOp = "write"])
      \/ socks[k].streamOp # "none" /\ Settle([SAMWorld EXCEPT !.socks[k].streamOp = "receive"])
      \/ Settle(SAMTerminate([SAMWorld EXCEPT !.socks[k].left = FALSE], k))
  <2>1. CASE LeftStreamEnds(k)
    BY <2>1, Zenon DEF LeftStreamEnds
  <2>2. CASE HandleI2PReceive(k)
    <3>1. socks[k].streamOp # "none"
      BY <2>2 DEF HandleI2PReceive
    <3> QED
      BY <2>2, <3>1, Zenon DEF HandleI2PReceive
  <2>3. CASE HandleWriteI2PData(k)
    <3>1. socks[k].streamOp # "none"
      BY <2>3 DEF HandleWriteI2PData
    <3> QED
      BY <2>3, <3>1, Zenon DEF HandleWriteI2PData
  <2> QED
    BY <2>1, <2>2, <2>3
<1> QED
  BY <1>3, <1>5, <1>6, <1>7

(* The socket of a command once it is noted, and the world then.            *)
Noted(s, k, id) ==
  /\ s \in Sockets /\ s.id = id /\ s.op = "message"
  /\ s.type = socks[k].type /\ s.session = socks[k].session
  /\ s.stream = socks[k].stream /\ s.streamOp = socks[k].streamOp
  /\ s.reused \/ (Unused(socks[k]) /\ ~socks[k].reused)

LEMMA NamedFacts ==
  ASSUME IInv, samUp = "running", NEW k \in SAMSockets, socks[k].op = "message", NEW id \in SAMIds
  PROVE  \E s : Noted(s, k, id) /\ Named(k, id) = Made([socks EXCEPT ![k] = s], objects, samTable)
<1>1. SAMWorld = Made(socks, objects, samTable) /\ socks \in [SAMSockets -> Sockets]
  BY Running
<1> DEFINE s == [socks[k] EXCEPT !.id = id, !.reused = @ \/ ~Unused(socks[k])]
<1>2. socks[k] \in Sockets
  BY <1>1
<1>3. SAMWorld.socks = socks /\ SAMWorld.objects = objects /\ SAMWorld.table = samTable
  BY <1>1 DEF Made
<1>4. Named(k, id) = PutIn(SAMWorld, k, s)
  BY Zenon DEF Named, PutIn
<1>5. /\ s \in Sockets /\ s.id = id /\ s.op = "message"
      /\ s.type = socks[k].type /\ s.session = socks[k].session
      /\ s.stream = socks[k].stream /\ s.streamOp = socks[k].streamOp
  <2>1. PICK b : b = (socks[k].reused \/ ~Unused(socks[k]))
    OBVIOUS
  <2>2. b \in BOOLEAN
    BY <2>1, Zenon
  <2>3. s = [socks[k] EXCEPT !.id = id, !.reused = b]
    BY <2>1, Zenon
  <2> HIDE DEF s
  <2> QED
    BY <1>2, <2>2, <2>3 DEF Sockets
<1>6. s.reused \/ (Unused(socks[k]) /\ ~socks[k].reused)
  <2>1. "reused" \in DOMAIN [socks[k] EXCEPT !.id = id]
    BY <1>2 DEF Sockets
  <2>2. s.reused = (socks[k].reused \/ ~Unused(socks[k]))
    BY <2>1, Zenon
  <2> HIDE DEF s
  <2> QED
    BY <2>2, Zenon
<1> HIDE DEF s
<1>7. PutIn(SAMWorld, k, s) = Made([socks EXCEPT ![k] = s], objects, samTable)
  BY <1>1, <1>3 DEF PutIn, Made
<1>8. Noted(s, k, id)
  BY <1>5, <1>6, Zenon DEF Noted
<1> QED
  BY <1>4, <1>7, <1>8, Zenon

(* A socket that had none of the commands is in no list.                    *)
LEMMA FreshFacts ==
  ASSUME IInv, samUp = "running", NEW k \in SAMSockets, Unused(socks[k]), ~socks[k].reused
  PROVE  ~Listed(socks[k]) /\ ~socks[k].stream /\ socks[k].streamOp = "none"
<1>1. SocketInv(socks[k], objects, samTable)
  BY Running DEF World
<1> QED
  BY <1>1 DEF SocketInv, Listed, Unused

(* The noted socket, given a session or none, is as good as it was.         *)
LEMMA GivenFacts ==
  ASSUME IInv, samUp = "running", NEW k \in SAMSockets, NEW id \in SAMIds,
         NEW s, Noted(s, k, id), NEW r \in Sockets,
         r.session \in {samTable[id], socks[k].session, 0},
         r.type = s.type, r.op = s.op, r.stream = s.stream, r.streamOp = s.streamOp,
         r.reused = s.reused
  PROVE  (r.reused \/ ~Listed(r)) /\ World([socks EXCEPT ![k] = r], objects, samTable)
<1>1. World(socks, objects, samTable)
  BY Running
<1>2. \/ r.reused
      \/ /\ Unused(socks[k]) /\ ~socks[k].reused /\ r.type = "Unknown" /\ r.op # "lookup"
         /\ r.stream = socks[k].stream /\ r.streamOp = socks[k].streamOp
  BY DEF Unused, Noted
<1>3. World([socks EXCEPT ![k] = r], objects, samTable)
  BY <1>1, <1>2, NoteFacts
<1> QED
  BY <1>2, <1>3 DEF Listed

(* SESSION CREATE: under an id that is free a session is made, perhaps with *)
(* a receiver of its datagrams.                                             *)
CreatedAs(w, k, id, n, type, receiver) ==
  [CreateSession(w, id, n) EXCEPT !.socks[k].session = n, !.socks[k].type = type,
                                  !.objects[n].receiver = receiver]
NewSession == [SAMSession EXCEPT !.live = TRUE, !.made = TRUE]
Receiving(o, receiver) == [o EXCEPT !.receiver = receiver]
Owner(s, n, type) == [s EXCEPT !.session = n, !.type = type]

LEMMA CreatedFacts ==
  ASSUME IInv, samUp = "running", NEW k \in SAMSockets, NEW id \in SAMIds, samTable[id] = 0,
         NEW n \in SAMObjects, ~objects[n].made, NEW s, Noted(s, k, id),
         NEW type \in {"Session", "UDPForward"}, NEW receiver \in SUBSET SAMSockets,
         NEW w, w = Made(Put(socks, k, s), objects, samTable)
  PROVE  IsWorld(CreatedAs(w, k, id, n, type, receiver))
<1>1. /\ World(socks, objects, samTable) /\ samTable \in [SAMIds -> SAMObjects \cup {0}]
      /\ socks \in [SAMSockets -> Sockets] /\ objects \in [SAMObjects -> Objects]
  BY Running
<1> DEFINE r == Owner(s, n, type)
           o == Receiving(NewSession, receiver)
           T == [samTable EXCEPT ![id] = n]
<1>3. /\ r \in Sockets /\ r.session = n /\ r.type = type /\ r.op = "message"
      /\ r.stream = socks[k].stream /\ r.streamOp = socks[k].streamOp /\ r.reused = s.reused
  BY DEF Sockets, Noted, Owner
<1>4. \/ r.reused
      \/ /\ ~socks[k].reused /\ ~Listed(socks[k]) /\ ~Listed(r)
         /\ ~r.stream /\ r.streamOp = "none" /\ r.session = n /\ r.op # "lookup"
  BY <1>3, FreshFacts DEF Listed, Noted
<1>6. /\ o \in Objects /\ o.live /\ o.made /\ o.sockets = {} /\ o.acceptor = {}
  BY DEF SAMSession, Objects, NewSession, Receiving
<1> HIDE DEF r, o
<1>7. World([socks EXCEPT ![k] = r], [objects EXCEPT ![n] = o], T)
  BY <1>1, <1>3, <1>4, <1>6, Create
<1>8. CreatedAs(w, k, id, n, type, receiver) = Made(Put(socks, k, r), [objects EXCEPT ![n] = o], T)
  <2>1. PICK a : a = CreateSession(w, id, n)
    OBVIOUS
  <2>2. a = Made(Put(socks, k, s), [objects EXCEPT ![n] = NewSession], T)
    BY <2>1 DEF CreateSession, Made, NewSession
  <2>3. CreatedAs(w, k, id, n, type, receiver)
          = [a EXCEPT !.socks[k].session = n, !.socks[k].type = type, !.objects[n].receiver = receiver]
    BY <2>1, Zenon DEF CreatedAs
  <2>4. PICK b : b = [a EXCEPT !.socks[k].session = n]
    OBVIOUS
  <2>5. PICK q : q = [s EXCEPT !.session = n]
    OBVIOUS
  <2>6. b = Made(Put(socks, k, q), [objects EXCEPT ![n] = NewSession], T)
    BY <1>1, <2>2, <2>4, <2>5 DEF Made, Put, Noted
  <2>7. r = [q EXCEPT !.type = type]
    BY <2>5 DEF r, Owner, Noted, Sockets
  <2>8. PICK c : c = [b EXCEPT !.socks[k].type = type]
    OBVIOUS
  <2>9. c = Made(Put(socks, k, r), [objects EXCEPT ![n] = NewSession], T)
    BY <1>1, <2>6, <2>7, <2>8 DEF Made, Put
  <2>10. CreatedAs(w, k, id, n, type, receiver) = [c EXCEPT !.objects[n].receiver = receiver]
    BY <2>3, <2>4, <2>8
  <2>11. o = [NewSession EXCEPT !.receiver = receiver]
    BY DEF o, Receiving
  <2> QED
    BY <1>1, <2>9, <2>10, <2>11 DEF Made
<1> HIDE DEF T
<1> QED
  BY <1>7, <1>8, WorldFacts DEF Put

LEMMA CreateStep ==
  ASSUME IInv, NEW k \in SAMSockets, NEW id \in SAMIds, ProcessSessionCreate(k, id)
  PROVE  IInv'
<1> DEFINE n == NewObject
           w == Named(k, id)
           Opened(type, receiver) == CreatedAs(w, k, id, n, type, receiver)
           none == [w EXCEPT !.socks[k].session = 0]
<1>1. samUp = "running" /\ socks[k].op = "message"
  BY DEF ProcessSessionCreate, Says, Done, Doing
<1>2. /\ World(socks, objects, samTable) /\ samTable \in [SAMIds -> SAMObjects \cup {0}]
      /\ socks \in [SAMSockets -> Sockets]
  BY <1>1, Running
<1>3. PICK s : Noted(s, k, id) /\ w = Made([socks EXCEPT ![k] = s], objects, samTable)
  BY <1>1, NamedFacts, Zenon
<1>4. w = Made(Put(socks, k, s), objects, samTable)
  BY <1>3 DEF Put
<1>5. \/ Settle(SendMessageReply(w, k, TRUE))
      \/ /\ samTable[id] = 0 /\ Spare # {}
         /\ \/ \E v \in {Opened("Session", {}), Opened("Session", {k}), Opened("UDPForward", {k})} :
                 Settle(ReplyOn(v, k)) \/ Settle([v EXCEPT !.socks[k].op = "timer"])
            \/ Settle(LetGo(Opened("Session", {}), k))
      \/ Settle(SendMessageReply(none, k, TRUE))
      \/ Settle(LetGo(w, k))
  BY Zenon DEF ProcessSessionCreate, ReplyOn, CreatedAs
<1> HIDE DEF w
<1>6. IsWorld(w)
  BY <1>1, <1>3, GivenFacts, WorldFacts DEF Noted
<1>7. IsWorld(none)
  <2>1. PICK r : r = [s EXCEPT !.session = 0]
    OBVIOUS
  <2>2. /\ r \in Sockets /\ r.session = 0 /\ r.type = s.type /\ r.op = s.op
        /\ r.stream = s.stream /\ r.streamOp = s.streamOp /\ r.reused = s.reused
    BY <1>3, <2>1 DEF Noted, Sockets
  <2>3. World([socks EXCEPT ![k] = r], objects, samTable)
    BY <1>1, <1>3, <2>2, GivenFacts
  <2>4. none = Made([socks EXCEPT ![k] = r], objects, samTable)
    BY <1>2, <1>4, <2>1 DEF Made, Put
  <2> QED
    BY <2>3, <2>4, WorldFacts
<1>8. ASSUME samTable[id] = 0, Spare # {},
             NEW v \in {Opened("Session", {}), Opened("Session", {k}), Opened("UDPForward", {k})}
      PROVE  IsWorld(v)
  <2>1. /\ n \in SAMObjects /\ ~objects[n].made
        /\ {k} \in SUBSET SAMSockets /\ {} \in SUBSET SAMSockets
    BY <1>8 DEF NewObject, Spare
  <2> HIDE DEF n
  <2> QED
    BY <1>1, <1>3, <1>4, <1>8, <2>1, CreatedFacts
<1> HIDE DEF Opened, none
<1>9. CASE Settle(SendMessageReply(none, k, TRUE))
  BY <1>7, <1>9, ReplyCloseFacts, Settled
<1>10. ASSUME samTable[id] = 0, Spare # {},
              NEW v \in {Opened("Session", {}), Opened("Session", {k}), Opened("UDPForward", {k})},
              \/ Settle(ReplyOn(v, k)) \/ Settle([v EXCEPT !.socks[k].op = "timer"])
              \/ Settle(LetGo(v, k))
       PROVE  IInv'
  <2>1. IsWorld(v)
    BY <1>8, <1>10
  <2>2. CASE Settle(ReplyOn(v, k))
    BY <2>1, <2>2, ReplyOnFacts, Settled
  <2>3. CASE Settle([v EXCEPT !.socks[k].op = "timer"])
    BY <2>1, <2>3, SetOp, Settled DEF Ops, Result
  <2>4. CASE Settle(LetGo(v, k))
    BY <2>1, <2>4, LetGoFacts, Settled
  <2> QED
    BY <1>10, <2>2, <2>3, <2>4
<1>11. CASE Settle(SendMessageReply(w, k, TRUE)) \/ Settle(LetGo(w, k))
  BY <1>6, <1>11, ReplyCloseFacts, LetGoFacts, Settled
<1> QED
  BY <1>5, <1>9, <1>10, <1>11

(* STREAM CONNECT: at once, or after a lookup.                              *)
LEMMA ConnectStep ==
  ASSUME IInv, NEW k \in SAMSockets, NEW id \in SAMIds, ProcessStreamConnect(k, id)
  PROVE  IInv'
<1> DEFINE n == samTable[id]
           w(silent) == [Named(k, id) EXCEPT !.socks[k].session = n, !.socks[k].silent = @ \/ silent]
<1>1. samUp = "running" /\ socks[k].op = "message"
  BY DEF ProcessStreamConnect, Says, Done, Doing
<1>2. /\ World(socks, objects, samTable) /\ samTable \in [SAMIds -> SAMObjects \cup {0}]
      /\ socks \in [SAMSockets -> Sockets]
  BY <1>1, Running
<1>3. PICK s : Noted(s, k, id) /\ Named(k, id) = Made([socks EXCEPT ![k] = s], objects, samTable)
  BY <1>1, NamedFacts, Zenon
<1>4. PICK silent \in BOOLEAN :
        \/ Settle(SendMessageReply(w(silent), k, TRUE))
        \/ n # 0 /\ Settle(SAMConnect(w(silent), k))
        \/ n # 0 /\ Settle([w(silent) EXCEPT !.socks[k].op = "lookup"])
  BY Zenon DEF ProcessStreamConnect
<1>5. PICK quiet : quiet = (s.silent \/ silent)
  OBVIOUS
<1>6. quiet \in BOOLEAN
  BY <1>5, Zenon
<1>7. PICK r : r = [s EXCEPT !.session = n, !.silent = quiet]
  OBVIOUS
<1>8. /\ r \in Sockets /\ r.session = n /\ r.id = id /\ r.op = "message" /\ r.type = s.type
      /\ r.stream = s.stream /\ r.streamOp = s.streamOp /\ r.reused = s.reused
  BY <1>2, <1>3, <1>6, <1>7 DEF Noted, Sockets
<1> DEFINE S == [socks EXCEPT ![k] = r]
<1>9. World(S, objects, samTable) /\ (r.reused \/ ~Listed(r))
  BY <1>1, <1>3, <1>8, GivenFacts DEF Noted
<1>10. S[k] = r
  BY <1>2
<1>11. PICK v : v = w(silent)
  OBVIOUS
<1>12. v = Made(S, objects, samTable)
  <2>1. PICK a : a = Named(k, id)
    OBVIOUS
  <2>2. PICK b : b = [a EXCEPT !.socks[k].session = n]
    OBVIOUS
  <2>3. PICK q : q = [s EXCEPT !.session = n]
    OBVIOUS
  <2>4. b = Made([socks EXCEPT ![k] = q], objects, samTable)
    BY <1>2, <1>3, <2>1, <2>2, <2>3 DEF Made
  <2>5. q.silent = s.silent /\ "silent" \in DOMAIN q /\ r = [q EXCEPT !.silent = quiet]
    BY <1>3, <1>7, <2>3 DEF Noted, Sockets
  <2>6. v = [b EXCEPT !.socks[k].silent = b.socks[k].silent \/ silent]
    BY <1>11, <2>1, <2>2, Zenon
  <2>7. b.socks[k] = q
    BY <1>2, <2>4 DEF Made
  <2>8. (b.socks[k].silent \/ silent) = quiet
    BY <1>5, <2>5, <2>7, Zenon
  <2>9. v = [b EXCEPT !.socks[k].silent = quiet]
    BY <2>6, <2>8, Zenon
  <2> QED
    BY <1>2, <2>4, <2>5, <2>9 DEF Made
<1> HIDE DEF S, w
<1>13. IsWorld(v)
  BY <1>9, <1>12, WorldFacts
<1>14. CASE Settle(SendMessageReply(v, k, TRUE))
  BY <1>13, <1>14, ReplyCloseFacts, Settled
<1>15. CASE n # 0 /\ Settle(SAMConnect(v, k))
  <2>1. \/ S[k].reused
        \/ ~Listed(S[k]) /\ S[k].id \in SAMIds /\ samTable[S[k].id] = S[k].session
    BY <1>8, <1>9, <1>10
  <2>2. Result(SAMConnect(v, k))
    BY <1>8, <1>9, <1>10, <1>12, <1>15, <2>1, ConnectFacts
  <2> QED
    BY <1>15, <2>2, Settled
<1>16. CASE n # 0 /\ Settle([v EXCEPT !.socks[k].op = "lookup"])
  <2>1. PICK q : q = [r EXCEPT !.op = "lookup"]
    OBVIOUS
  <2>2. /\ q \in Sockets /\ q.type = r.type /\ q.op = "lookup" /\ q.session = n /\ q.id = id
        /\ q.stream = r.stream /\ q.streamOp = r.streamOp /\ q.reused = r.reused
    BY <1>8, <2>1 DEF Sockets
  <2>3. SocketInv(r, objects, samTable)
    BY <1>9, <1>10 DEF World
  <2>4. SocketInv(q, objects, samTable)
    <3> SUFFICES ASSUME ~q.reused
                 PROVE  SocketInv(q, objects, samTable)
      BY DEF SocketInv
    <3>1. ~r.reused
      BY <2>2
    <3>2. ~Listed(r) /\ ~Listed(q)
      BY <1>9, <2>2, <3>1 DEF Listed
    <3> QED
      BY <1>8, <1>16, <2>2, <2>3, <3>1, <3>2 DEF SocketInv
  <2>5. \/ q.reused
        \/ ~S[k].reused /\ q.type = S[k].type /\ q.session = S[k].session
    BY <1>8, <1>10, <2>2 DEF Sockets
  <2>6. World([S EXCEPT ![k] = q], objects, samTable)
    BY <1>9, <2>2, <2>4, <2>5, SetSocket
  <2>7. [v EXCEPT !.socks[k].op = "lookup"] = Made([S EXCEPT ![k] = q], objects, samTable)
    BY <1>10, <1>12, <2>1 DEF Made
  <2>8. Result([v EXCEPT !.socks[k].op = "lookup"])
    BY <2>6, <2>7, WorldFacts DEF Result
  <2> QED
    BY <1>16, <2>8, Settled
<1> QED
  BY <1>4, <1>11, <1>14, <1>15, <1>16, Zenon

(* The lookup is answered; the session may be gone.                         *)
LEMMA LookupStep ==
  ASSUME IInv, NEW k \in SAMSockets, HandleConnectLeaseSetRequestComplete(k)
  PROVE  IInv'
<1>1. samUp = "running" /\ socks[k].op = "lookup"
  BY DEF HandleConnectLeaseSetRequestComplete, Doing
<1>2. /\ World(socks, objects, samTable) /\ SAMWorld = Made(socks, objects, samTable)
      /\ IsWorld(SAMWorld)
  BY <1>1, Running
<1>3. SocketInv(socks[k], objects, samTable)
  BY <1>2 DEF World
<1>4. \/ Crash
      \/ Alive(socks[k].session) /\ Settle(SAMConnect(SAMWorld, k))
      \/ Settle(SendMessageReply(SAMWorld, k, TRUE))
  BY Zenon DEF HandleConnectLeaseSetRequestComplete
<1>5. CASE Alive(socks[k].session) /\ Settle(SAMConnect(SAMWorld, k))
  <2>1. socks[k].session # 0
    BY <1>5 DEF Alive
  <2>2. \/ socks[k].reused
        \/ /\ ~Listed(socks[k]) /\ socks[k].id \in SAMIds
           /\ samTable[socks[k].id] = socks[k].session
    BY <1>1, <1>3, <1>5 DEF SocketInv, Alive
  <2>3. Result(SAMConnect(SAMWorld, k))
    BY <1>2, <2>1, <2>2, ConnectFacts
  <2> QED
    BY <1>5, <2>3, Settled
<1>6. CASE Settle(SendMessageReply(SAMWorld, k, TRUE))
  BY <1>2, <1>6, ReplyCloseFacts, Settled
<1> QED
  BY <1>4, <1>5, <1>6, Crashed

(* STREAM ACCEPT: one socket of a session at a time.                        *)
LEMMA AcceptStep ==
  ASSUME IInv, NEW k \in SAMSockets, NEW id \in SAMIds, ProcessStreamAccept(k, id)
  PROVE  IInv'
<1> DEFINE n == samTable[id]
           w == [Named(k, id) EXCEPT !.socks[k].session = n]
<1>1. samUp = "running" /\ socks[k].op = "message"
  BY DEF ProcessStreamAccept, Says, Done, Doing
<1>2. /\ World(socks, objects, samTable) /\ samTable \in [SAMIds -> SAMObjects \cup {0}]
      /\ socks \in [SAMSockets -> Sockets]
  BY <1>1, Running
<1>3. PICK s : Noted(s, k, id) /\ Named(k, id) = Made([socks EXCEPT ![k] = s], objects, samTable)
  BY <1>1, NamedFacts, Zenon
<1>4. \/ Settle(SendMessageReply(w, k, TRUE))
      \/ /\ n # 0 /\ objects[n].acceptor = {}
         /\ Settle(ReplyOn([w EXCEPT !.socks[k].type = "Acceptor", !.objects[n] = Accepting(@, k)], k))
  BY Zenon DEF ProcessStreamAccept, ReplyOn
<1>5. PICK r : r = [s EXCEPT !.session = n]
  OBVIOUS
<1>6. /\ r \in Sockets /\ r.session = n /\ r.id = id /\ r.op = "message" /\ r.type = s.type
      /\ r.stream = s.stream /\ r.streamOp = s.streamOp /\ r.reused = s.reused
  BY <1>2, <1>3, <1>5 DEF Noted, Sockets
<1> DEFINE S == [socks EXCEPT ![k] = r]
<1>7. World(S, objects, samTable) /\ (r.reused \/ ~Listed(r))
  BY <1>1, <1>3, <1>6, GivenFacts DEF Noted
<1>8. S[k] = r
  BY <1>2
<1>9. PICK v : v = w
  OBVIOUS
<1>10. v = Made(S, objects, samTable)
  <2>1. PICK a : a = Named(k, id)
    OBVIOUS
  <2>2. v = [a EXCEPT !.socks[k].session = n]
    BY <1>9, <2>1
  <2> QED
    BY <1>2, <1>3, <1>5, <2>1, <2>2 DEF Made
<1> HIDE DEF S, w
<1>11. IsWorld(v)
  BY <1>7, <1>10, WorldFacts
<1>12. CASE Settle(SendMessageReply(v, k, TRUE))
  BY <1>11, <1>12, ReplyCloseFacts, Settled
<1>13. CASE /\ n # 0 /\ objects[n].acceptor = {}
            /\ Settle(ReplyOn([v EXCEPT !.socks[k].type = "Acceptor", !.objects[n] = Accepting(@, k)], k))
  <2>1. \/ S[k].reused
        \/ ~Listed(S[k]) /\ S[k].id \in SAMIds /\ samTable[S[k].id] = S[k].session
    BY <1>6, <1>7, <1>8
  <2>2. n = S[k].session
    BY <1>6, <1>8
  <2>3. PICK m : m = n
    OBVIOUS
  <2> HIDE DEF n
  <2>4. Result(ReplyOn([v EXCEPT !.socks[k].type = "Acceptor", !.objects[m] = Accepting(@, k)], k))
    BY <1>7, <1>10, <1>13, <2>1, <2>2, <2>3, AcceptFacts
  <2> QED
    BY <1>13, <2>3, <2>4, Settled
<1> QED
  BY <1>4, <1>9, <1>12, <1>13, Zenon

(* A stream comes in for the acceptor, which keeps its place in the list of *)
(* its session; the session that the socket names now accepts no more.      *)
LEMMA StreamComesStep ==
  ASSUME IInv, NEW k \in SAMSockets, NEW n \in SAMObjects, HandleI2PAccept(n, k)
  PROVE  IInv'
<1> DEFINE op == IF socks[k].silent THEN "receive" ELSE "write"
           s == [WithStream(socks[k]) EXCEPT !.streamOp = op]
           O == [m \in SAMObjects |->
                   IF m = samTable[socks[k].id] THEN [objects[m] EXCEPT !.acceptor = {}] ELSE objects[m]]
<1>1. samUp = "running" /\ k \in objects[n].acceptor
  BY DEF HandleI2PAccept
<1>2. /\ World(socks, objects, samTable) /\ SAMWorld = Made(socks, objects, samTable)
      /\ socks \in [SAMSockets -> Sockets] /\ objects \in [SAMObjects -> Objects]
  BY <1>1, Running
<1>3. /\ socks[k] \in Sockets /\ SocketInv(socks[k], objects, samTable)
      /\ \A m \in SAMObjects : ListInv(k, socks[k], m, objects[m])
  BY <1>2 DEF World, ListsInv
<1>4. ~socks[k].reused => /\ socks[k].type = "Acceptor" /\ socks[k].session = n
                          /\ samTable[socks[k].id] = n
  BY <1>1, <1>3 DEF ListInv, SocketInv, Listed
<1>5. op \in {"receive", "write"}
  OBVIOUS
<1>6. Settle([SAMWorld EXCEPT !.socks[k] = [WithStream(@) EXCEPT !.streamOp = op], !.objects = O])
  BY Zenon DEF HandleI2PAccept
<1> HIDE DEF op
<1>7. /\ s \in Sockets /\ s.type = "Stream" /\ s.session = socks[k].session /\ s.id = socks[k].id
      /\ s.stream /\ s.op = socks[k].op /\ s.reused = socks[k].reused
  <2>1. PICK left : left = (socks[k].left \/ socks[k].stream)
    OBVIOUS
  <2>2. left \in BOOLEAN
    BY <2>1, Zenon
  <2>3. WithStream(socks[k]) = [socks[k] EXCEPT !.type = "Stream", !.left = left, !.stream = TRUE,
                                                !.streamOp = "receive"]
    BY <2>1, Zenon DEF WithStream
  <2> QED
    BY <1>3, <1>5, <2>2, <2>3 DEF Sockets
<1>8. /\ O \in [SAMObjects -> Objects]
      /\ \A m \in SAMObjects :
           /\ O[m].live = objects[m].live /\ O[m].made = objects[m].made
           /\ O[m].sockets = objects[m].sockets
           /\ O[m].acceptor \in {objects[m].acceptor, {}}
           /\ m = samTable[socks[k].id] => O[m].acceptor = {}
           /\ m # samTable[socks[k].id] => O[m].acceptor = objects[m].acceptor
  BY <1>2 DEF Objects
<1>9. ASSUME NEW u, u = [SAMWorld EXCEPT !.socks[k] = [WithStream(@) EXCEPT !.streamOp = op], !.objects = O]
      PROVE  u = Made([socks EXCEPT ![k] = s], O, samTable)
  <2> HIDE DEF O
  <2> QED
    BY <1>2, <1>9 DEF Made
<1> HIDE DEF s, O
<1>10. SocketInv(s, objects, samTable)
  BY <1>3, <1>4, <1>7 DEF SocketInv, Listed
<1>11. ASSUME NEW m \in SAMObjects
       PROVE  /\ ListInv(k, s, m, O[m])
              /\ \A j \in SAMSockets \ {k} :
                   Single(socks) /\ j \in objects[m].acceptor => j \in O[m].acceptor \/ s.reused
  <2> SUFFICES ASSUME ~s.reused
               PROVE  /\ ListInv(k, s, m, O[m])
                      /\ \A j \in SAMSockets \ {k} : j \in objects[m].acceptor => j \in O[m].acceptor
    BY DEF ListInv
  <2>1. /\ socks[k].type = "Acceptor" /\ socks[k].session = n /\ samTable[socks[k].id] = n
        /\ ListInv(k, socks[k], m, objects[m]) /\ ~socks[k].reused
    BY <1>3, <1>4, <1>7
  <2>2. CASE m = n
    <3>1. \A j \in SAMSockets \ {k} : j \notin objects[m].acceptor
      BY <1>1, <1>2, <2>2 DEF World, ListsInv
    <3>2. O[m].acceptor = {} /\ O[m].sockets = objects[m].sockets
      BY <1>8, <2>1, <2>2
    <3> QED
      BY <1>7, <2>1, <3>1, <3>2 DEF ListInv, Listed
  <2>3. CASE m # n
    <3>1. O[m].acceptor = objects[m].acceptor /\ O[m].sockets = objects[m].sockets
      BY <1>8, <2>1, <2>3
    <3> QED
      BY <1>7, <2>1, <2>3, <3>1 DEF ListInv, Listed
  <2> QED
    BY <2>2, <2>3
<1>12. s.reused \/ ~socks[k].reused
  BY <1>3, <1>7 DEF Sockets
<1>13. World([socks EXCEPT ![k] = s], O, samTable)
  <2>1. ASSUME NEW m \in SAMObjects
        PROVE  /\ O[m].live = objects[m].live /\ O[m].made = objects[m].made
               /\ \A j \in SAMSockets \ {k} :
                    /\ j \in O[m].sockets <=> j \in objects[m].sockets
                    /\ j \in O[m].acceptor => j \in objects[m].acceptor
                    /\ Single(socks) /\ j \in objects[m].acceptor => j \in O[m].acceptor \/ s.reused
               /\ O[m].acceptor \in {objects[m].acceptor, {}, {k}}
               /\ ListInv(k, s, m, O[m])
               /\ ~s.reused /\ Single(socks) => (s.type = "Acceptor" /\ s.session = m => k \in O[m].acceptor)
    BY <1>7, <1>8, <1>11
  <2> QED
    BY <1>2, <1>7, <1>8, <1>10, <1>12, <2>1, Change
<1>14. IsWorld(Made([socks EXCEPT ![k] = s], O, samTable))
  BY <1>13, WorldFacts
<1> QED
  BY <1>6, <1>9, <1>14, Settled DEF Result

-----------------------------------------------------------------------------
LEMMA StepInv ==
  IInv /\ [SAMNext]_samVars => IInv'
<1> SUFFICES ASSUME IInv, [SAMNext]_samVars
             PROVE  IInv'
  OBVIOUS
<1>1. CASE SAMNext
  BY <1>1, OpStep, StreamStep, CreateStep, ConnectStep, LookupStep, AcceptStep,
     StreamComesStep, Crashed DEF SAMNext
<1>2. CASE UNCHANGED samVars
  BY <1>2 DEF samVars, IInv, TypeInv, RunningInv
<1> QED
  BY <1>1, <1>2

LEMMA InitInv ==
  SAMInit => IInv
<1> SUFFICES ASSUME SAMInit
             PROVE  IInv
  OBVIOUS
<1>1. /\ SAMSocket \in Sockets /\ ~Listed(SAMSocket) /\ SAMSocket.type = "Unknown"
      /\ ~SAMSocket.stream /\ SAMSocket.streamOp = "none" /\ SAMSocket.session = 0
      /\ SAMSocket.op = "accept"
  BY DEF SAMSocket, Sockets, Listed
<1>2. /\ SAMSession \in Objects /\ ~SAMSession.live /\ SAMSession.sockets = {}
      /\ SAMSession.acceptor = {}
  BY DEF SAMSession, Objects
<1>3. WorldType(socks, objects, samTable)
  BY <1>1, <1>2 DEF SAMInit, WorldType
<1>4. ListsInv(socks, objects)
  BY <1>1, <1>2 DEF SAMInit, ListsInv, ListInv
<1>5. TableInv(objects, samTable)
  BY <1>2 DEF SAMInit, TableInv
<1>6. \A k \in SAMSockets : SocketInv(socks[k], objects, samTable)
  BY <1>1 DEF SAMInit, SocketInv
<1> QED
  BY <1>3, <1>4, <1>5, <1>6 DEF SAMInit, World, IInv, TypeInv, RunningInv

LEMMA SpecInv == SAMSpec => []IInv
<1>1. SAMInit => IInv
  BY InitInv
<1>2. IInv /\ [SAMNext]_samVars => IInv'
  BY StepInv
<1> QED
  BY <1>1, <1>2, PTL DEF SAMSpec

(* The stream of a socket that had one of the three commands belongs to a   *)
(* session that lists the socket and exists: CloseSession reaches every     *)
(* such stream, also one connected after a lookup that outlived the         *)
(* session's creation, and whatever commands the other sockets were given a *)
(* second time (SAM.cpp).                                                   *)
THEOREM SpecStreamsOwned == SAMSpec => []SAMStreamsOwned
<1>1. IInv => SAMStreamsOwned
  <2> SUFFICES ASSUME IInv, samUp = "running", NEW k \in SAMSockets, socks[k].stream, ~socks[k].reused
               PROVE  /\ socks[k].type = "Stream" /\ Alive(socks[k].session)
                      /\ k \in objects[socks[k].session].sockets
    BY DEF SAMStreamsOwned
  <2>1. World(socks, objects, samTable)
    BY Running
  <2>2. SocketInv(socks[k], objects, samTable) /\ socks[k].session \in SAMObjects \cup {0}
    BY <2>1 DEF World, WorldType, Sockets
  <2>3. socks[k].type = "Stream" /\ Listed(socks[k])
    BY <2>2 DEF SocketInv, Listed
  <2>4. /\ socks[k].session \in SAMObjects /\ socks[k].id \in SAMIds
        /\ samTable[socks[k].id] = socks[k].session /\ socks[k].session # 0
    BY <2>2, <2>3 DEF SocketInv
  <2>5. objects[socks[k].session].live
    BY <2>1, <2>4 DEF World, TableInv
  <2>6. ListInv(k, socks[k], socks[k].session, objects[socks[k].session])
    BY <2>1, <2>4 DEF World, ListsInv
  <2> QED
    BY <2>3, <2>4, <2>5, <2>6 DEF Alive, ListInv
<1> QED
  BY <1>1, SpecInv, PTL

(* The acceptor of a session's destination, if it had one of the three      *)
(* commands, is a socket that waits for a stream of that session: one that  *)
(* ended, or whose stream came, does not keep the next STREAM ACCEPT out.   *)
(* While no socket had two of them, each socket that waits is the acceptor  *)
(* (SAM.cpp).                                                               *)
THEOREM SpecAcceptorLive == SAMSpec => []SAMAcceptorLive
<1>1. IInv => SAMAcceptorLive
  <2> SUFFICES ASSUME IInv, samUp = "running", NEW n \in SAMObjects, NEW k \in SAMSockets
               PROVE  LET waits == objects[n].live /\ socks[k].type = "Acceptor" /\ socks[k].session = n
                      IN /\ k \in objects[n].acceptor => waits \/ socks[k].reused
                         /\ waits => k \in objects[n].acceptor \/ \E j \in SAMSockets : socks[j].reused
    BY DEF SAMAcceptorLive
  <2>1. World(socks, objects, samTable)
    BY Running
  <2>2. /\ k \in objects[n].acceptor =>
             socks[k].reused \/ (socks[k].type = "Acceptor" /\ socks[k].session = n)
        /\ socks[k].type = "Acceptor" /\ socks[k].session = n =>
             k \in objects[n].acceptor \/ \E j \in SAMSockets : socks[j].reused
    BY <2>1 DEF World, ListsInv, ListInv, Single
  <2>3. ASSUME socks[k].type = "Acceptor", socks[k].session = n, ~socks[k].reused
        PROVE  objects[n].live
    <3>1. SocketInv(socks[k], objects, samTable)
      BY <2>1 DEF World
    <3>2. socks[k].id \in SAMIds /\ samTable[socks[k].id] = n /\ n # 0
      BY <2>3, <3>1 DEF SocketInv, Listed
    <3> QED
      BY <2>1, <3>2 DEF World, TableInv
  <2> QED
    BY <2>2, <2>3
<1> QED
  BY <1>1, SpecInv, PTL

-----------------------------------------------------------------------------
(* Induction for a set of numbers.                                          *)
LEMMA NatSetInduction ==
  ASSUME NEW S, 0 \in S, \A m \in Nat : m \in S => m + 1 \in S
  PROVE  \A m \in Nat : m \in S
<1> DEFINE R == {ss \in Nat \X Nat : ss[1] < ss[2]}
           T == {m \in Nat : m \notin S}
<1>1. IsWellFoundedOn(R, Nat)
  BY NatLessThanWellFounded DEF OpToRel
<1>2. CASE T = {}
  BY <1>2
<1>3. CASE T # {}
  <2>1. PICK x \in T : \A y \in T : ~(<<y, x>> \in R)
    <3>1. T \subseteq Nat
      OBVIOUS
    <3> HIDE DEF R, T
    <3> QED
      BY <1>1, <1>3, <3>1, WFMin
  <2>2. \A y \in T : ~(y < x)
    BY <2>1
  <2>3. x \in Nat /\ x # 0
    OBVIOUS
  <2>4. x - 1 \in Nat /\ x - 1 < x /\ x - 1 + 1 = x
    BY <2>3
  <2>5. x - 1 \in S
    BY <2>2, <2>4
  <2> QED
    BY <2>4, <2>5
<1> QED
  BY <1>2, <1>3

----------------------------------------------------------------------------
(* The parsers of the proxies.                                              *)
IsParser(p) ==
  /\ p = [state |-> p.state, left |-> p.left, v |-> p.v, cmd |-> p.cmd, auth |-> p.auth,
          chosen |-> p.chosen, addr |-> p.addr, ip |-> p.ip, host |-> p.host,
          verdict |-> p.verdict, heard |-> p.heard, rest |-> p.rest]
  /\ p.left \in 0..Octets - 1 /\ p.ip \in Nat /\ p.auth \in BOOLEAN

LEMMA SizeFacts ==
  /\ Octets \in Nat /\ Octets > 1
  /\ PortSize \in 1..Octets - 1 /\ IPv4Size \in 1..Octets - 1 /\ IPv6Size \in 1..Octets - 1
BY ProxyAssumption

LEMMA EnterFacts ==
  ASSUME NEW p, IsParser(p), NEW s, NEW l \in 0..Octets - 1
  PROVE  LET r == EnterState(p, s, l)
         IN /\ IsParser(r) /\ r.state = s /\ r.v = p.v /\ r.heard = p.heard
            /\ r.verdict = p.verdict /\ r.auth = p.auth
            /\ s = "GET_PORT" => r.left = PortSize
            /\ s = "GET_IPV4" => r.left = IPv4Size
            /\ s = "GET5_IPV6" => r.left = IPv6Size
            /\ s \notin {"GET_PORT", "GET_IPV4", "GET5_IPV6"} => r.left = l
            /\ r.ip = IF s = "GET_IPV4" THEN 0 ELSE p.ip
<1> DEFINE left == CASE s = "GET_PORT" -> PortSize [] s = "GET_IPV4" -> IPv4Size [] s = "GET5_IPV6" -> IPv6Size [] OTHER -> l
           addr == CASE s = "GET_IPV4" -> "IPV4" [] s \in {"GET4A_HOST", "GET5_HOST"} -> "DNS" [] s = "GET5_IPV6" -> "IPV6" [] OTHER -> p.addr
<1>1. /\ s = "GET_PORT" => left = PortSize
      /\ s = "GET_IPV4" => left = IPv4Size
      /\ s = "GET5_IPV6" => left = IPv6Size
      /\ s \notin {"GET_PORT", "GET_IPV4", "GET5_IPV6"} => left = l
  BY Zenon
<1>2. EnterState(p, s, l) =
        [p EXCEPT !.state = s, !.left = left, !.addr = addr,
                  !.ip = IF s = "GET_IPV4" THEN 0 ELSE @,
                  !.host = IF s \in {"GET4A_HOST", "GET5_HOST"} THEN 0 ELSE @]
  BY Zenon DEF EnterState
<1> HIDE DEF left, addr
<1>3. PICK ip, host : /\ ip = IF s = "GET_IPV4" THEN 0 ELSE p.ip
                      /\ host = IF s \in {"GET4A_HOST", "GET5_HOST"} THEN 0 ELSE p.host
  OBVIOUS
<1>4. EnterState(p, s, l) = [p EXCEPT !.state = s, !.left = left, !.addr = addr, !.ip = ip, !.host = host]
  BY <1>2, <1>3, Zenon
<1>5. EnterState(p, s, l) =
        [state |-> s, left |-> left, v |-> p.v, cmd |-> p.cmd, auth |-> p.auth,
         chosen |-> p.chosen, addr |-> addr, ip |-> ip, host |-> host,
         verdict |-> p.verdict, heard |-> p.heard, rest |-> p.rest]
  BY <1>4 DEF IsParser
<1>6. left \in 0..Octets - 1 /\ ip \in Nat
  BY <1>1, <1>3, SizeFacts DEF IsParser
<1> QED
  BY <1>1, <1>3, <1>5, <1>6 DEF IsParser

LEMMA FewerModulus ==
  ASSUME NEW l \in 0..Octets - 1
  PROVE  (l + Octets - 1) % Octets = IF l = 0 THEN Octets - 1 ELSE l - 1
<1>1. CASE l = 0
  BY <1>1, SizeFacts
<1>2. CASE l # 0
  <2> DEFINE m == l - 1
  <2>1. m \in 0..Octets - 1 /\ l + Octets - 1 = Octets + m
    BY <1>2, SizeFacts
  <2> HIDE DEF m
  <2>2. (Octets + m) % Octets = m
    BY <2>1, SizeFacts
  <2> QED
    BY <1>2, <2>1, <2>2, SizeFacts DEF m
<1> QED
  BY <1>1, <1>2

LEMMA LeftFacts ==
  ASSUME NEW p, IsParser(p), NEW n \in 0..Octets - 1
  PROVE  LET r == [p EXCEPT !.left = n]
         IN /\ IsParser(r) /\ r.left = n /\ r.state = p.state /\ r.v = p.v /\ r.heard = p.heard
            /\ r.verdict = p.verdict /\ r.auth = p.auth /\ r.ip = p.ip
BY DEF IsParser

(* What is left after this octet.                                           *)
Fewer(n) == IF n = 0 THEN Octets - 1 ELSE n - 1

LEMMA CountedFacts ==
  ASSUME NEW p, IsParser(p), NEW next
  PROVE  LET r == Counted(p, next)
         IN /\ IsParser(r) /\ r.v = p.v /\ r.heard = p.heard /\ r.verdict = p.verdict /\ r.auth = p.auth
            /\ p.left # 1 => r.state = p.state /\ r.left = Fewer(p.left) /\ r.ip = p.ip
            /\ p.left = 1 => /\ r.state = next
                             /\ next = "GET_PORT" => r.left = PortSize
                             /\ next = "GET_IPV4" => r.left = IPv4Size /\ r.ip = 0
                             /\ next # "GET_IPV4" => r.ip = p.ip
<1> DEFINE left == (p.left + Octets - 1) % Octets
<1>0. p.left \in 0..Octets - 1
  BY DEF IsParser
<1>1. left = Fewer(p.left)
  BY <1>0, FewerModulus DEF Fewer
<1>2. Counted(p, next) = IF left = 0 THEN EnterState(p, next, 1) ELSE [p EXCEPT !.left = left]
  BY Zenon DEF Counted
<1>3. (left = 0 <=> p.left = 1) /\ left \in 0..Octets - 1
  BY <1>0, <1>1, SizeFacts DEF Fewer
<1> HIDE DEF left
<1>4. CASE p.left = 1
  <2>1. Counted(p, next) = EnterState(p, next, 1)
    BY <1>2, <1>3, <1>4
  <2>2. 1 \in 0..Octets - 1
    BY SizeFacts
  <2> QED
    BY <1>4, <2>1, <2>2, EnterFacts
<1>5. CASE p.left # 1
  <2>1. Counted(p, next) = [p EXCEPT !.left = left]
    BY <1>2, <1>3, <1>5
  <2> QED
    BY <1>1, <1>3, <1>5, <2>1, LeftFacts
<1> QED
  BY <1>4, <1>5

(* What has been heard of a SOCKS4 request, state by state.                 *)
Fixed4 == 2 + PortSize + IPv4Size
AsksHost4(h) == h[Fixed4] # 0 /\ \A j \in 3 + PortSize..Fixed4 - 1 : h[j] = 0

Sound4(p, h) ==
  /\ p.v = 4 /\ h[1] = 4
  /\ p.state \in {"GET_COMMAND", "GET_PORT", "GET_IPV4", "GET4_IDENT", "GET4A_HOST", "DONE"}
  /\ p.state = "GET_COMMAND" => Len(h) = 1
  /\ p.state # "GET_COMMAND" => Len(h) > 1 /\ h[2] \in {1, 2}
  /\ p.state = "GET_PORT" => p.left \in 1..PortSize /\ Len(h) = 2 + PortSize - p.left
  /\ p.state = "GET_IPV4" =>
       /\ p.left \in 1..IPv4Size /\ Len(h) = Fixed4 - p.left
       /\ p.ip = 0 <=> \A j \in 3 + PortSize..Len(h) : h[j] = 0
  /\ p.state = "GET4_IDENT" =>
       /\ Len(h) >= Fixed4 /\ \A j \in Fixed4 + 1..Len(h) : h[j] # 0
       /\ Is4a(p.ip) <=> AsksHost4(h)
  /\ p.state = "GET4A_HOST" =>
       /\ AsksHost4(h)
       /\ \E e \in Fixed4 + 1..Len(h) :
            FirstZeroAfter(h, Fixed4, e) /\ \A j \in e + 1..Len(h) : h[j] # 0
  /\ p.state = "DONE" => Socks4Request(h)

(* A SOCKS5 request as the parser counts: a length of 0 takes the full      *)
(* range of m_parseleft.                                                    *)
Wide(n) == IF n = 0 THEN Octets ELSE n

CountedRequest(h) ==
  /\ Len(h) > 2 /\ h[1] = 5
  /\ LET n == Wide(h[2])
     IN /\ Len(h) > 7 + n
        /\ \E j \in 3..2 + n : h[j] = 0
        /\ h[3 + n] = 5 /\ h[4 + n] \in {1, 2, 3} /\ h[5 + n] = 0
        /\ \/ h[6 + n] = 1 /\ Len(h) = 6 + n + IPv4Size + PortSize
           \/ h[6 + n] = 4 /\ Len(h) = 6 + n + IPv6Size + PortSize
           \/ h[6 + n] = 3 /\ Len(h) = 7 + n + Wide(h[7 + n]) + PortSize

(* Without a length of 0 that is the request.                               *)
LEMMA RequestCounted ==
  ASSUME NEW h \in Seq(0..Octets - 1), ~ZeroLength(h)
  PROVE  Socks5Request(h) <=> CountedRequest(h)
<1>1. CASE Len(h) > 2 /\ h[1] = 5
  <2>1. PICK n : n = h[2]
    OBVIOUS
  <2>2. n \in Nat /\ n # 0 /\ Wide(h[2]) = n /\ Len(h) \in Nat
    <3>1. h[2] \in 0..Octets - 1 /\ Octets \in Nat /\ Len(h) \in Nat
      BY <1>1, SizeFacts
    <3>2. h[2] # 0
      BY <1>1 DEF ZeroLength
    <3> QED
      BY <2>1, <3>1, <3>2 DEF Wide
  <2>3. ASSUME Len(h) > 7 + n, h[6 + n] = 3
        PROVE  Wide(h[7 + n]) = h[7 + n]
    <3>1. Len(h) > 6 + n
      BY <2>2, <2>3
    <3>2. h[7 + n] # 0
      <4>1. ~(Len(h) > 1 /\ h[1] = 5 /\ Len(h) > 6 + h[2] /\ h[6 + h[2]] = 3 /\ h[7 + h[2]] = 0)
        BY Zenon DEF ZeroLength
      <4> QED
        BY <1>1, <2>1, <2>2, <2>3, <3>1, <4>1
    <3> QED
      BY <3>2 DEF Wide
  <2>4. Socks5Request(h) <=>
          /\ Len(h) > 7 + n
          /\ \E j \in 3..2 + n : h[j] = 0
          /\ h[3 + n] = 5 /\ h[4 + n] \in {1, 2, 3} /\ h[5 + n] = 0
          /\ \/ h[6 + n] = 1 /\ Len(h) = 6 + n + IPv4Size + PortSize
             \/ h[6 + n] = 4 /\ Len(h) = 6 + n + IPv6Size + PortSize
             \/ h[6 + n] = 3 /\ Len(h) = 7 + n + h[7 + n] + PortSize
    BY <1>1, <2>1, Zenon DEF Socks5Request
  <2>5. CountedRequest(h) <=>
          /\ Len(h) > 7 + n
          /\ \E j \in 3..2 + n : h[j] = 0
          /\ h[3 + n] = 5 /\ h[4 + n] \in {1, 2, 3} /\ h[5 + n] = 0
          /\ \/ h[6 + n] = 1 /\ Len(h) = 6 + n + IPv4Size + PortSize
             \/ h[6 + n] = 4 /\ Len(h) = 6 + n + IPv6Size + PortSize
             \/ h[6 + n] = 3 /\ Len(h) = 7 + n + Wide(h[7 + n]) + PortSize
    BY <1>1, <2>2, Zenon DEF CountedRequest
  <2> QED
    BY <2>3, <2>4, <2>5, Zenon
<1>2. CASE ~(Len(h) > 2 /\ h[1] = 5)
  BY <1>2 DEF Socks5Request, CountedRequest
<1> QED
  BY <1>1, <1>2

(* The same of a SOCKS5 request.                                            *)
MethodsEnd(h) == 2 + Wide(h[2])
MethodsHeard(h) == \E j \in 3..MethodsEnd(h) : h[j] = 0
CommandHeard(h) == /\ MethodsHeard(h) /\ h[MethodsEnd(h) + 1] = 5
              /\ h[MethodsEnd(h) + 2] \in {1, 2, 3}
ReservedHeard(h) == CommandHeard(h) /\ h[MethodsEnd(h) + 3] = 0
AddrType(h) == h[MethodsEnd(h) + 4]
HostStart(h) == MethodsEnd(h) + 5
AddrEnd(h) ==
  MethodsEnd(h) + 4 + IF AddrType(h) = 1 THEN IPv4Size
                      ELSE IF AddrType(h) = 4 THEN IPv6Size ELSE 1 + Wide(h[HostStart(h)])

Sound5(p, h) ==
  /\ p.v = 5 /\ h[1] = 5
  /\ p.state \in {"GET5_AUTHNUM", "GET5_AUTH", "GET5_REQUESTV", "GET_COMMAND", "GET5_GETRSV",
                  "GET5_GETADDRTYPE", "GET_IPV4", "GET5_IPV6", "GET5_HOST_SIZE", "GET5_HOST",
                  "GET_PORT", "DONE"}
  /\ p.state = "GET5_AUTHNUM" => Len(h) = 1 /\ p.auth = FALSE
  /\ p.state # "GET5_AUTHNUM" => Len(h) > 1
  /\ p.state = "GET5_AUTH" =>
       /\ Len(h) = MethodsEnd(h) - Wide(p.left)
       /\ p.auth = TRUE <=> \E j \in 3..Len(h) : h[j] = 0
  /\ p.state = "GET5_REQUESTV" => Len(h) = MethodsEnd(h) /\ MethodsHeard(h)
  /\ p.state = "GET_COMMAND" =>
       Len(h) = MethodsEnd(h) + 1 /\ MethodsHeard(h) /\ h[MethodsEnd(h) + 1] = 5
  /\ p.state = "GET5_GETRSV" => Len(h) = MethodsEnd(h) + 2 /\ CommandHeard(h)
  /\ p.state = "GET5_GETADDRTYPE" => Len(h) = MethodsEnd(h) + 3 /\ ReservedHeard(h)
  /\ p.state = "GET_IPV4" =>
       /\ ReservedHeard(h) /\ AddrType(h) = 1
       /\ p.left \in 1..IPv4Size /\ Len(h) = AddrEnd(h) - p.left
  /\ p.state = "GET5_IPV6" =>
       /\ ReservedHeard(h) /\ AddrType(h) = 4
       /\ p.left \in 1..IPv6Size /\ Len(h) = AddrEnd(h) - p.left
  /\ p.state = "GET5_HOST_SIZE" =>
       ReservedHeard(h) /\ AddrType(h) = 3 /\ Len(h) = MethodsEnd(h) + 4
  /\ p.state = "GET5_HOST" =>
       /\ ReservedHeard(h) /\ AddrType(h) = 3
       /\ Len(h) >= HostStart(h) /\ Len(h) = AddrEnd(h) - Wide(p.left)
  /\ p.state = "GET_PORT" =>
       /\ ReservedHeard(h) /\ AddrType(h) \in {1, 3, 4} /\ Len(h) >= HostStart(h)
       /\ p.left \in 1..PortSize /\ Len(h) = AddrEnd(h) + PortSize - p.left
  /\ p.state = "DONE" => CountedRequest(h)

SocksState(p, h) ==
  /\ IsParser(p)
  /\ \/ p.state = "GET_SOCKSV" /\ Len(h) = 0 /\ p.auth = FALSE
     \/ Len(h) > 0 /\ (Sound4(p, h) \/ Sound5(p, h))

NoSocksRequest(h) == ~Socks4Request(h) /\ ~CountedRequest(h)

(* What an octet makes of it.                                               *)
Outcome(r, g) ==
  \/ r.verdict = "more" /\ SocksState(r, g)
  \/ r.verdict # "more" /\ r.state # "DONE" /\ NoSocksRequest(g)

LEMMA RefusedFacts ==
  ASSUME NEW p, IsParser(p)
  PROVE  Refused(p).verdict = "fail" /\ Refused(p).state = p.state
BY DEF IsParser, Refused

(* g is h and one octet more.                                               *)
Heard(h, g, o) ==
  /\ Len(h) \in Nat /\ Len(g) = Len(h) + 1 /\ g[Len(h) + 1] = o
  /\ \A j \in 1..Len(h) : g[j] = h[j] /\ h[j] \in Nat

LEMMA HeardFacts ==
  ASSUME NEW S, S \subseteq Nat, NEW h \in Seq(S), NEW o \in S
  PROVE  Append(h, o) \in Seq(S) /\ Heard(h, Append(h, o), o)
<1>1. PICK g : g = Append(h, o)
  OBVIOUS
<1>2. g \in Seq(S) /\ Len(h) \in Nat /\ Len(g) = Len(h) + 1 /\ g[Len(h) + 1] = o
  BY <1>1
<1>3. \A j \in 1..Len(h) : g[j] = h[j]
  BY <1>1
<1>4. \A j \in 1..Len(h) : h[j] \in S
  OBVIOUS
<1> QED
  BY <1>1, <1>2, <1>3, <1>4 DEF Heard


LEMMA Outcome4 ==
  ASSUME NEW r, IsParser(r), r.verdict = "more", NEW g, Len(g) \in Nat, Len(g) > 0, Sound4(r, g)
  PROVE  Outcome(r, g)
BY DEF Outcome, SocksState

LEMMA Outcome5 ==
  ASSUME NEW r, IsParser(r), r.verdict = "more", NEW g, Len(g) \in Nat, Len(g) > 0, Sound5(r, g)
  PROVE  Outcome(r, g)
BY DEF Outcome, SocksState

LEMMA Refused4 ==
  ASSUME NEW p, IsParser(p), p.state # "DONE", NEW g, g[1] = 4, ~Socks4Request(g)
  PROVE  Outcome(Refused(p), g)
<1>1. ~CountedRequest(g)
  BY DEF CountedRequest
<1>2. Refused(p).verdict = "fail" /\ Refused(p).state # "DONE"
  BY RefusedFacts
<1> QED
  BY <1>1, <1>2 DEF Outcome, NoSocksRequest

LEMMA Refused5 ==
  ASSUME NEW p, IsParser(p), p.state # "DONE", NEW g, g[1] = 5, ~CountedRequest(g)
  PROVE  Outcome(Refused(p), g)
<1>1. ~Socks4Request(g)
  BY DEF Socks4Request
<1>2. Refused(p).verdict = "fail" /\ Refused(p).state # "DONE"
  BY RefusedFacts
<1> QED
  BY <1>1, <1>2 DEF Outcome, NoSocksRequest

LEMMA Command4 ==
  ASSUME NEW p, NEW h, IsParser(p), Sound4(p, h), p.verdict = "more",
         NEW o \in 0..Octets - 1, NEW g, Heard(h, g, o), g[1] = 4, Len(g) > 1, p.state = "GET_COMMAND"
  PROVE  Outcome(SocksOctet(p, o), g)
<1>0. p.v = 4 /\ Len(g) = 2 /\ g[2] = o /\ Len(g) \in Nat /\ Len(g) > 0
  <2>1. p.v = 4 /\ Len(h) = 1
    BY DEF Sound4
  <2> QED
    BY <2>1 DEF Heard
<1>1. SocksOctet(p, o) =
        IF o \in {1, 2} \/ (o = 3 /\ p.v = 5)
        THEN EnterState([p EXCEPT !.cmd = o], IF p.v = 5 THEN "GET5_GETRSV" ELSE "GET_PORT", 1)
        ELSE Refused(p)
  BY Zenon DEF SocksOctet
<1>2. CASE o \in {1, 2}
  <2>1. PICK q : q = [p EXCEPT !.cmd = o]
    OBVIOUS
  <2>2. IsParser(q) /\ q.v = 4 /\ q.verdict = "more"
    BY <1>0, <2>1 DEF IsParser
  <2>3. PICK r : r = EnterState(q, "GET_PORT", 1)
    OBVIOUS
  <2>4. /\ IsParser(r) /\ r.state = "GET_PORT" /\ r.v = 4 /\ r.verdict = "more" /\ r.left = PortSize
    BY <2>2, <2>3, EnterFacts, SizeFacts
  <2>5. Sound4(r, g)
    BY <1>0, <1>2, <2>4, SizeFacts DEF Sound4
  <2>6. SocksOctet(p, o) = r
    BY <1>0, <1>1, <1>2, <2>1, <2>3
  <2> QED
    BY <1>0, <2>4, <2>5, <2>6, Outcome4
<1>3. CASE o \notin {1, 2}
  <2>1. SocksOctet(p, o) = Refused(p)
    BY <1>0, <1>1, <1>3
  <2>2. ~Socks4Request(g)
    BY <1>0, <1>3 DEF Socks4Request
  <2> QED
    BY <2>1, <2>2, Refused4
<1> QED
  BY <1>2, <1>3

LEMMA Port4 ==
  ASSUME NEW p, NEW h, IsParser(p), Sound4(p, h), p.verdict = "more",
         NEW o \in 0..Octets - 1, NEW g, Heard(h, g, o), g[1] = 4, Len(g) > 1, p.state = "GET_PORT"
  PROVE  Outcome(SocksOctet(p, o), g)
<1>0. /\ p.v = 4 /\ Len(h) > 1 /\ p.left \in 1..PortSize /\ Len(h) = 2 + PortSize - p.left
      /\ Len(h) \in Nat /\ Len(g) = Len(h) + 1 /\ g[2] \in {1, 2}
  BY DEF Sound4, Heard
<1>1. SocksOctet(p, o) = Counted(p, "GET_IPV4")
  <2>1. SocksOctet(p, o) = Counted(p, IF p.v = 5 THEN "DONE" ELSE "GET_IPV4")
    BY Zenon DEF SocksOctet
  <2> QED
    BY <1>0, <2>1
<1>2. PICK r : r = Counted(p, "GET_IPV4")
  OBVIOUS
<1>3. /\ IsParser(r) /\ r.v = 4 /\ r.verdict = "more"
      /\ p.left # 1 => r.state = "GET_PORT" /\ r.left = Fewer(p.left)
      /\ p.left = 1 => r.state = "GET_IPV4" /\ r.left = IPv4Size /\ r.ip = 0
  BY <1>0, <1>2, CountedFacts
<1>4. Sound4(r, g)
  <2>1. CASE p.left = 1
    BY <1>0, <1>3, <2>1, SizeFacts DEF Sound4, Fixed4
  <2>2. CASE p.left # 1
    <3>1. p.left - 1 \in 1..PortSize /\ Len(g) = 2 + PortSize - (p.left - 1) /\ Fewer(p.left) = p.left - 1
      <4>0. PortSize \in Nat
        BY SizeFacts
      <4>a. p.left \in 1..PortSize
        BY <1>0
      <4>1. p.left \in Nat /\ p.left > 1
        BY <2>2, <4>0, <4>a
      <4>2. Fewer(p.left) = p.left - 1
        BY <4>1 DEF Fewer
      <4>3. Len(g) = 2 + PortSize - (p.left - 1)
        BY <1>0, <4>0, <4>1
      <4>4. p.left - 1 \in 1..PortSize
        BY <4>0, <4>a, <4>1
      <4> QED
        BY <4>2, <4>3, <4>4
    <3> QED
      BY <1>0, <1>3, <2>2, <3>1 DEF Sound4
  <2> QED
    BY <2>1, <2>2
<1> QED
  BY <1>0, <1>1, <1>2, <1>3, <1>4, Outcome4

LEMMA Address4 ==
  ASSUME NEW p, NEW h, IsParser(p), Sound4(p, h), p.verdict = "more",
         NEW o \in 0..Octets - 1, NEW g, Heard(h, g, o), g[1] = 4, Len(g) > 1, p.state = "GET_IPV4"
  PROVE  Outcome(SocksOctet(p, o), g)
<1>0. /\ p.v = 4 /\ Len(h) > 1 /\ p.left \in 1..IPv4Size /\ Len(h) = Fixed4 - p.left
      /\ p.ip = 0 <=> \A j \in 3 + PortSize..Len(h) : h[j] = 0
      /\ Len(h) \in Nat /\ Len(g) = Len(h) + 1 /\ g[2] \in {1, 2}
      /\ g[Len(h) + 1] = o /\ \A j \in 1..Len(h) : g[j] = h[j] /\ h[j] \in Nat
  BY DEF Sound4, Heard
<1> DEFINE ip == p.ip * Octets + o
<1>1. PICK q : q = [p EXCEPT !.ip = ip]
  OBVIOUS
<1>2. SocksOctet(p, o) = Counted(q, "GET4_IDENT")
  <2>1. SocksOctet(p, o) = Counted([p EXCEPT !.ip = @ * Octets + o], IF p.v = 5 THEN "GET_PORT" ELSE "GET4_IDENT")
    BY Zenon DEF SocksOctet
  <2> QED
    BY <1>0, <1>1, <2>1
<1>3. ip \in Nat /\ (ip = 0 <=> p.ip = 0 /\ o = 0) /\ (ip < Octets <=> p.ip = 0)
  <2>1. p.ip \in Nat /\ Octets \in Nat /\ o \in Nat /\ o < Octets
    BY SizeFacts DEF IsParser
  <2>2. CASE p.ip = 0
    BY <2>1, <2>2
  <2>3. CASE p.ip > 0
    <3>1. p.ip * Octets >= Octets /\ p.ip * Octets \in Nat
      BY <2>1, <2>3
    <3> QED
      BY <2>1, <2>3, <3>1, SizeFacts
  <2> QED
    BY <2>1, <2>2, <2>3
<1> HIDE DEF ip
<1>4. IsParser(q) /\ q.state = "GET_IPV4" /\ q.v = 4 /\ q.verdict = "more" /\ q.ip = ip /\ q.left = p.left
  BY <1>0, <1>1, <1>3 DEF IsParser
<1>5. PICK r : r = Counted(q, "GET4_IDENT")
  OBVIOUS
<1>6. /\ IsParser(r) /\ r.v = 4 /\ r.verdict = "more" /\ r.ip = ip
      /\ p.left # 1 => r.state = "GET_IPV4" /\ r.left = Fewer(p.left)
      /\ p.left = 1 => r.state = "GET4_IDENT"
  BY <1>4, <1>5, CountedFacts
<1>7. Sound4(r, g)
  <2>1. CASE p.left = 1
    <3>1. Len(g) = Fixed4 /\ Fixed4 \in Nat /\ Fixed4 - 1 = Len(h) /\ 3 + PortSize > 0
      BY <1>0, <2>1, SizeFacts DEF Fixed4
    <3>2. \A j \in 3 + PortSize..Len(h) : g[j] = h[j]
      BY <1>0, SizeFacts
    <3>3. (\A j \in 3 + PortSize..Len(h) : g[j] = 0) <=> p.ip = 0
      BY <1>0, <3>2
    <3>4. g[Fixed4] = o
      BY <1>0, <3>1
    <3>5. Is4a(ip) <=> AsksHost4(g)
      BY <1>3, <3>1, <3>3, <3>4 DEF Is4a, AsksHost4
    <3> QED
      BY <1>0, <1>6, <2>1, <3>1, <3>5 DEF Sound4
  <2>2. CASE p.left # 1
    <3>1. \A j \in 3 + PortSize..Len(h) : g[j] = h[j]
      BY <1>0, SizeFacts
    <3>2. Len(h) + 1 \in 3 + PortSize..Len(g)
      BY <1>0, SizeFacts DEF Fixed4
    <3>3. ip = 0 <=> \A j \in 3 + PortSize..Len(g) : g[j] = 0
      <4>1. ASSUME ip = 0, NEW j \in 3 + PortSize..Len(g)
            PROVE  g[j] = 0
        <5>1. j = Len(h) + 1 \/ j \in 3 + PortSize..Len(h)
          BY <1>0, SizeFacts
        <5> QED
          BY <1>0, <1>3, <3>1, <4>1, <5>1
      <4>2. ASSUME \A j \in 3 + PortSize..Len(g) : g[j] = 0
            PROVE  ip = 0
        <5>1. \A j \in 3 + PortSize..Len(h) : j \in 3 + PortSize..Len(g)
          BY <1>0, SizeFacts
        <5>2. \A j \in 3 + PortSize..Len(h) : h[j] = 0
          BY <3>1, <4>2, <5>1
        <5> QED
          BY <1>0, <1>3, <3>2, <4>2, <5>2
      <4> QED
        BY <4>1, <4>2
    <3>4. p.left - 1 \in 1..IPv4Size /\ Len(g) = Fixed4 - (p.left - 1) /\ Fewer(p.left) = p.left - 1
      <4>1. IPv4Size \in Nat /\ Fixed4 \in Nat
        BY SizeFacts DEF Fixed4
      <4>2. p.left \in Nat /\ p.left > 1 /\ p.left <= IPv4Size
        BY <1>0, <2>2, <4>1
      <4>3. p.left - 1 \in 1..IPv4Size
        BY <4>1, <4>2
      <4>4. Len(g) = Fixed4 - p.left + 1
        BY <1>0
      <4>5. Len(g) = Fixed4 - (p.left - 1)
        BY <4>1, <4>2, <4>4
      <4>6. Fewer(p.left) = p.left - 1
        BY <4>2 DEF Fewer
      <4> QED
        BY <4>3, <4>5, <4>6
    <3>5. r.state = "GET_IPV4" /\ r.v = 4 /\ r.ip = ip /\ r.left = p.left - 1
      BY <1>6, <2>2, <3>4
    <3>6. r.left \in 1..IPv4Size /\ Len(g) = Fixed4 - r.left
      BY <3>4, <3>5
    <3>7. r.ip = 0 <=> \A j \in 3 + PortSize..Len(g) : g[j] = 0
      BY <3>3, <3>5
    <3>8. g[1] = 4 /\ Len(g) > 1 /\ g[2] \in {1, 2}
      BY <1>0
    <3> QED
      BY <3>5, <3>6, <3>7, <3>8 DEF Sound4
  <2> QED
    BY <2>1, <2>2
<1> QED
  BY <1>0, <1>2, <1>5, <1>6, <1>7, Outcome4

LEMMA Ident4 ==
  ASSUME NEW p, NEW h, IsParser(p), Sound4(p, h), p.verdict = "more",
         NEW o \in 0..Octets - 1, NEW g, Heard(h, g, o), g[1] = 4, Len(g) > 1, p.state = "GET4_IDENT"
  PROVE  Outcome(SocksOctet(p, o), g)
<1>0. /\ p.v = 4 /\ Len(h) > 1 /\ Len(h) >= Fixed4
      /\ \A j \in Fixed4 + 1..Len(h) : h[j] # 0
      /\ Is4a(p.ip) <=> AsksHost4(h)
      /\ Len(h) \in Nat /\ Len(g) = Len(h) + 1 /\ g[2] \in {1, 2}
      /\ g[Len(h) + 1] = o /\ \A j \in 1..Len(h) : g[j] = h[j]
  BY DEF Sound4, Heard
<1>1. SocksOctet(p, o) =
        IF o # 0 THEN p ELSE EnterState(p, IF Is4a(p.ip) THEN "GET4A_HOST" ELSE "DONE", 1)
  BY Zenon DEF SocksOctet
<1>2. Fixed4 \in Nat /\ Fixed4 > 3 /\ 3 + PortSize > 0
  BY SizeFacts DEF Fixed4
<1>3. AsksHost4(g) <=> AsksHost4(h)
  <2>1. \A j \in 3 + PortSize..Fixed4 - 1 : g[j] = h[j]
    BY <1>0, <1>2, SizeFacts
  <2>2. g[Fixed4] = h[Fixed4]
    BY <1>0, <1>2
  <2> QED
    BY <2>1, <2>2 DEF AsksHost4
<1>4. \A j \in Fixed4 + 1..Len(h) : g[j] # 0
  BY <1>0, <1>2
<1>5. CASE o # 0
  <2>1. \A j \in Fixed4 + 1..Len(g) : g[j] # 0
    BY <1>0, <1>2, <1>4, <1>5
  <2>2. Sound4(p, g)
    BY <1>0, <1>2, <1>3, <2>1 DEF Sound4
  <2> QED
    BY <1>0, <1>1, <1>5, <2>2, Outcome4
<1>6. CASE o = 0
  <2>1. PICK s : s = IF Is4a(p.ip) THEN "GET4A_HOST" ELSE "DONE"
    OBVIOUS
  <2>2. PICK r : r = EnterState(p, s, 1)
    OBVIOUS
  <2>3. IsParser(r) /\ r.state = s /\ r.v = 4 /\ r.verdict = "more"
    BY <1>0, <2>1, <2>2, EnterFacts, SizeFacts
  <2>4. FirstZeroAfter(g, Fixed4, Len(g)) /\ Len(g) \in Fixed4 + 1..Len(g)
    BY <1>0, <1>2, <1>4, <1>6 DEF FirstZeroAfter
  <2>5. CASE Is4a(p.ip)
    <3>1. AsksHost4(g) /\ s = "GET4A_HOST" /\ \A j \in Len(g) + 1..Len(g) : g[j] # 0
      BY <1>0, <1>3, <2>1, <2>5
    <3>2. \E e \in Fixed4 + 1..Len(g) :
             FirstZeroAfter(g, Fixed4, e) /\ \A j \in e + 1..Len(g) : g[j] # 0
      BY <2>4, <3>1, Zenon
    <3>3. Sound4(r, g)
      BY <1>0, <2>3, <3>1, <3>2 DEF Sound4
    <3> QED
      BY <1>0, <1>1, <1>6, <2>1, <2>2, <2>3, <3>3, Outcome4
  <2>6. CASE ~Is4a(p.ip)
    <3>1. ~AsksHost4(g) /\ s = "DONE"
      BY <1>0, <1>3, <2>1, <2>6
    <3>2. Socks4Request(g)
      <4>1. Len(g) > Fixed4
        BY <1>0, <1>2
      <4> QED
        BY <1>0, <2>4, <3>1, <4>1, Zenon DEF Socks4Request, AsksHost4, Fixed4
    <3>3. Sound4(r, g)
      BY <1>0, <2>3, <3>1, <3>2 DEF Sound4
    <3> QED
      BY <1>0, <1>1, <1>6, <2>1, <2>2, <2>3, <3>3, Outcome4
  <2> QED
    BY <2>5, <2>6
<1> QED
  BY <1>5, <1>6

(* The first zero after a place is the only one that is.                    *)
LEMMA FirstZeroOnce ==
  ASSUME NEW h, Len(h) \in Nat, NEW i \in Nat, NEW d, NEW e,
         FirstZeroAfter(h, i, d), FirstZeroAfter(h, i, e)
  PROVE  d = e
<1>1. d \in Nat /\ e \in Nat /\ d > i /\ e > i /\ h[d] = 0 /\ h[e] = 0
  BY DEF FirstZeroAfter
<1>2. ~(d < e)
  BY <1>1 DEF FirstZeroAfter
<1>3. ~(e < d)
  BY <1>1 DEF FirstZeroAfter
<1> QED
  BY <1>1, <1>2, <1>3

(* A request for a host has two zeros at the end of its parts.              *)
LEMMA HostRequest4 ==
  ASSUME NEW h, Len(h) \in Nat, Socks4Request(h), AsksHost4(h), NEW e, FirstZeroAfter(h, Fixed4, e)
  PROVE  FirstZeroAfter(h, e, Len(h))
<1>1. PICK d \in Fixed4 + 1..Len(h) : FirstZeroAfter(h, Fixed4, d) /\ FirstZeroAfter(h, d, Len(h))
  BY Zenon DEF Socks4Request, AsksHost4, Fixed4
<1>2. d = e
  BY <1>1, FirstZeroOnce, SizeFacts DEF Fixed4
<1> QED
  BY <1>1, <1>2

LEMMA Host4 ==
  ASSUME NEW p, NEW h, IsParser(p), Sound4(p, h), p.verdict = "more",
         NEW o \in 0..Octets - 1, NEW g, Heard(h, g, o), g[1] = 4, Len(g) > 1, p.state = "GET4A_HOST"
  PROVE  Outcome(SocksOctet(p, o), g)
<1>0. /\ p.v = 4 /\ Len(h) > 1 /\ AsksHost4(h)
      /\ Len(h) \in Nat /\ Len(g) = Len(h) + 1 /\ g[2] \in {1, 2}
      /\ g[Len(h) + 1] = o /\ \A j \in 1..Len(h) : g[j] = h[j]
  BY DEF Sound4, Heard
<1>1. SocksOctet(p, o) =
        CASE o = 0 -> EnterState(p, "DONE", 1)
          [] o # 0 /\ p.host >= Octets - 1 -> Refused(p)
          [] OTHER -> [p EXCEPT !.host = @ + 1]
  BY Zenon DEF SocksOctet
<1>2. PICK e \in Fixed4 + 1..Len(h) :
        FirstZeroAfter(h, Fixed4, e) /\ \A j \in e + 1..Len(h) : h[j] # 0
  BY DEF Sound4
<1>3. Fixed4 \in Nat /\ Fixed4 > 3 /\ 3 + PortSize > 0 /\ e \in Nat /\ e > Fixed4 /\ e <= Len(h)
  BY <1>0, <1>2, SizeFacts DEF Fixed4
<1>4. FirstZeroAfter(g, Fixed4, e) /\ e \in Fixed4 + 1..Len(g)
  BY <1>0, <1>2, <1>3 DEF FirstZeroAfter
<1>5. AsksHost4(g)
  <2>1. \A j \in 3 + PortSize..Fixed4 - 1 : g[j] = h[j]
    BY <1>0, <1>3, SizeFacts
  <2>2. g[Fixed4] = h[Fixed4]
    BY <1>0, <1>3
  <2> QED
    BY <1>0, <2>1, <2>2 DEF AsksHost4
<1>6. \A j \in e + 1..Len(h) : g[j] # 0
  BY <1>0, <1>2, <1>3
<1>7. CASE o = 0
  <2>1. PICK r : r = EnterState(p, "DONE", 1)
    OBVIOUS
  <2>2. IsParser(r) /\ r.state = "DONE" /\ r.v = 4 /\ r.verdict = "more"
    BY <1>0, <2>1, EnterFacts, SizeFacts
  <2>3. FirstZeroAfter(g, e, Len(g))
    BY <1>0, <1>3, <1>6, <1>7 DEF FirstZeroAfter
  <2>4. Socks4Request(g)
    <3>1. Len(g) > Fixed4
      BY <1>0, <1>3
    <3> QED
      BY <1>0, <1>4, <1>5, <2>3, <3>1, Zenon DEF Socks4Request, AsksHost4, Fixed4
  <2>5. Sound4(r, g)
    BY <1>0, <2>2, <2>4 DEF Sound4
  <2>6. SocksOctet(p, o) = r
    BY <1>1, <1>7, <2>1, Zenon
  <2> QED
    BY <1>0, <2>2, <2>5, <2>6, Outcome4
<1>8. CASE o # 0
  <2>1. \A j \in e + 1..Len(g) : g[j] # 0
    BY <1>0, <1>3, <1>6, <1>8
  <2>2. CASE p.host >= Octets - 1
    <3>1. SocksOctet(p, o) = Refused(p)
      BY <1>1, <1>8, <2>2, Zenon
    <3>2. ~Socks4Request(g)
      <4>1. ~FirstZeroAfter(g, e, Len(g))
        BY <1>0, <1>8 DEF FirstZeroAfter
      <4> QED
        BY <1>0, <1>4, <1>5, <4>1, HostRequest4
    <3> QED
      BY <3>1, <3>2, Refused4
  <2>3. CASE ~(p.host >= Octets - 1)
    <3>1. PICK n : n = p.host + 1
      OBVIOUS
    <3>2. PICK r : r = [p EXCEPT !.host = n]
      OBVIOUS
    <3>3. SocksOctet(p, o) = r
      BY <1>1, <1>8, <2>3, <3>1, <3>2, Zenon
    <3>4. IsParser(r) /\ r.state = "GET4A_HOST" /\ r.v = 4 /\ r.verdict = "more"
      BY <1>0, <3>2 DEF IsParser
    <3>5. Sound4(r, g)
      BY <1>0, <1>4, <1>5, <2>1, <3>4 DEF Sound4
    <3> QED
      BY <1>0, <3>3, <3>4, <3>5, Outcome4
  <2> QED
    BY <2>2, <2>3
<1> QED
  BY <1>7, <1>8

(* A parser that is not done has not heard a request.                       *)
LEMMA NotYet4 ==
  ASSUME NEW p, NEW h, Len(h) \in Nat, Sound4(p, h)
  PROVE  /\ p.state = "DONE" <=> Socks4Request(h)
         /\ ~CountedRequest(h)
<1>0. h[1] = 4 /\ ~CountedRequest(h)
  BY DEF Sound4, CountedRequest
<1>1. Socks4Request(h) => Len(h) > Fixed4 /\ \E e \in Fixed4 + 1..Len(h) : FirstZeroAfter(h, Fixed4, e)
  BY Zenon DEF Socks4Request, Fixed4
<1>2. CASE p.state \in {"GET_COMMAND", "GET_PORT", "GET_IPV4"}
  <2>1. p.state = "GET_COMMAND" => Len(h) = 1
    BY DEF Sound4
  <2>2. p.state = "GET_PORT" => p.left \in 1..PortSize /\ Len(h) = 2 + PortSize - p.left
    BY DEF Sound4
  <2>3. p.state = "GET_IPV4" => p.left \in 1..IPv4Size /\ Len(h) = Fixed4 - p.left
    BY DEF Sound4
  <2>4. Len(h) <= Fixed4
    <3>0. PortSize \in Nat /\ IPv4Size \in Nat
      BY SizeFacts
    <3>1. Fixed4 \in Nat /\ Fixed4 > 1 /\ Fixed4 = 2 + PortSize + IPv4Size
      BY <3>0 DEF Fixed4
    <3>2. CASE p.state = "GET_COMMAND"
      <4>1. Len(h) = 1
        BY <2>1, <3>2
      <4> QED
        BY <3>1, <4>1
    <3>3. CASE p.state = "GET_PORT"
      BY <2>2, <3>0, <3>1, <3>3
    <3>4. CASE p.state = "GET_IPV4"
      BY <2>3, <3>0, <3>1, <3>4
    <3> QED
      BY <1>2, <3>2, <3>3, <3>4
  <2>5. ~(Len(h) > Fixed4)
    BY <2>4, SizeFacts DEF Fixed4
  <2> QED
    BY <1>0, <1>1, <1>2, <2>5
<1>3. CASE p.state = "GET4_IDENT"
  BY <1>0, <1>1, <1>3 DEF Sound4, FirstZeroAfter
<1>4. CASE p.state = "GET4A_HOST"
  <2>1. PICK e \in Fixed4 + 1..Len(h) :
          FirstZeroAfter(h, Fixed4, e) /\ \A j \in e + 1..Len(h) : h[j] # 0
    BY <1>4 DEF Sound4
  <2>2. AsksHost4(h)
    BY <1>4 DEF Sound4
  <2>3. ~FirstZeroAfter(h, e, Len(h))
    BY <2>1 DEF FirstZeroAfter
  <2> QED
    BY <1>0, <1>4, <2>1, <2>2, <2>3, HostRequest4
<1>5. CASE p.state = "DONE"
  BY <1>0, <1>5 DEF Sound4
<1> QED
  BY <1>2, <1>3, <1>4, <1>5 DEF Sound4

----------------------------------------------------------------------------
(* SOCKS5.  What was heard of a part that is over stays so.                 *)
LEMMA WideFacts ==
  ASSUME NEW n \in 0..Octets - 1
  PROVE  Wide(n) \in 1..Octets /\ (n # 1 => Wide(Fewer(n)) = Wide(n) - 1) /\ (n = 1 => Wide(n) = 1)
BY SizeFacts DEF Wide, Fewer

LEMMA Longer5 ==
  ASSUME NEW h, NEW g, NEW o \in 0..Octets - 1, Heard(h, g, o), Len(h) > 1, h[2] \in 0..Octets - 1
  PROVE  /\ g[2] = h[2] /\ MethodsEnd(g) = MethodsEnd(h) /\ MethodsEnd(h) \in Nat /\ MethodsEnd(h) > 2
         /\ Len(h) >= MethodsEnd(h) => (MethodsHeard(g) <=> MethodsHeard(h))
         /\ Len(h) >= MethodsEnd(h) + 2 => (CommandHeard(g) <=> CommandHeard(h))
         /\ Len(h) >= MethodsEnd(h) + 3 => (ReservedHeard(g) <=> ReservedHeard(h))
         /\ Len(h) >= MethodsEnd(h) + 4 => AddrType(g) = AddrType(h)
         /\ Len(h) >= MethodsEnd(h) + 5 => AddrEnd(g) = AddrEnd(h)
<1>1. /\ Len(h) \in Nat /\ Len(g) = Len(h) + 1 /\ g[Len(h) + 1] = o
      /\ \A j \in 1..Len(h) : g[j] = h[j]
  BY DEF Heard
<1>2. g[2] = h[2]
  BY <1>1
<1>3. MethodsEnd(g) = MethodsEnd(h) /\ MethodsEnd(h) \in Nat /\ MethodsEnd(h) > 2
  <2>1. PICK w \in Nat : w = Wide(h[2]) /\ w > 0
    BY WideFacts, SizeFacts
  <2> QED
    BY <1>2, <2>1 DEF MethodsEnd
<1>4. PICK m \in Nat : m = MethodsEnd(h) /\ m > 2
  BY <1>3
<1>5. /\ MethodsHeard(g) <=> \E j \in 3..m : g[j] = 0
      /\ MethodsHeard(h) <=> \E j \in 3..m : h[j] = 0
  BY <1>3, <1>4 DEF MethodsHeard
<1>6. Len(h) >= m => (MethodsHeard(g) <=> MethodsHeard(h))
  <2> SUFFICES ASSUME Len(h) >= m PROVE MethodsHeard(g) <=> MethodsHeard(h)
    OBVIOUS
  <2>1. \A j \in 3..m : g[j] = h[j]
    BY <1>1, <1>4
  <2> QED
    BY <1>5, <2>1
<1>7. Len(h) >= m + 2 => (CommandHeard(g) <=> CommandHeard(h))
  <2> SUFFICES ASSUME Len(h) >= m + 2 PROVE CommandHeard(g) <=> CommandHeard(h)
    OBVIOUS
  <2>1. g[m + 1] = h[m + 1] /\ g[m + 2] = h[m + 2] /\ Len(h) >= m
    BY <1>1, <1>4
  <2> QED
    BY <1>3, <1>4, <1>6, <2>1 DEF CommandHeard
<1>8. Len(h) >= m + 3 => (ReservedHeard(g) <=> ReservedHeard(h))
  <2> SUFFICES ASSUME Len(h) >= m + 3 PROVE ReservedHeard(g) <=> ReservedHeard(h)
    OBVIOUS
  <2>1. g[m + 3] = h[m + 3] /\ Len(h) >= m + 2
    BY <1>1, <1>4
  <2> QED
    BY <1>3, <1>4, <1>7, <2>1 DEF ReservedHeard
<1>9. Len(h) >= m + 4 => AddrType(g) = AddrType(h)
  BY <1>1, <1>3, <1>4 DEF AddrType
<1>10. Len(h) >= m + 5 => AddrEnd(g) = AddrEnd(h)
  <2> SUFFICES ASSUME Len(h) >= m + 5 PROVE AddrEnd(g) = AddrEnd(h)
    OBVIOUS
  <2>1. g[m + 5] = h[m + 5] /\ AddrType(g) = AddrType(h) /\ HostStart(h) = m + 5 /\ HostStart(g) = m + 5
    BY <1>1, <1>3, <1>4, <1>9 DEF HostStart
  <2> QED
    BY <1>3, <1>4, <2>1 DEF AddrEnd
<1> QED
  BY <1>2, <1>3, <1>4, <1>6, <1>7, <1>8, <1>9, <1>10

LEMMA Authnum5 ==
  ASSUME NEW p, NEW h, IsParser(p), Sound5(p, h), p.verdict = "more",
         NEW o \in 0..Octets - 1, NEW g, Heard(h, g, o), g[1] = 5, p.state = "GET5_AUTHNUM"
  PROVE  Outcome(SocksOctet(p, o), g)
<1>0. p.v = 5 /\ Len(h) = 1 /\ p.auth = FALSE /\ Len(h) \in Nat
  BY DEF Sound5, Heard
<1>1. Len(g) = 2 /\ g[2] = o
  BY <1>0 DEF Heard
<1>2. SocksOctet(p, o) = EnterState(p, "GET5_AUTH", o)
  BY Zenon DEF SocksOctet
<1>3. PICK r : r = EnterState(p, "GET5_AUTH", o)
  OBVIOUS
<1>4. IsParser(r) /\ r.state = "GET5_AUTH" /\ r.v = 5 /\ r.verdict = "more" /\ r.left = o /\ r.auth = FALSE
  BY <1>0, <1>3, EnterFacts
<1>5. Len(g) = MethodsEnd(g) - Wide(o) /\ ~\E j \in 3..Len(g) : g[j] = 0
  <2>1. PICK w \in Nat : w = Wide(o) /\ w > 0
    BY WideFacts, SizeFacts
  <2>2. MethodsEnd(g) = 2 + w
    BY <1>1, <2>1 DEF MethodsEnd
  <2> QED
    BY <1>1, <2>1, <2>2
<1>6. Sound5(r, g)
  <2>1. Len(g) > 1 /\ (r.auth = TRUE <=> \E j \in 3..Len(g) : g[j] = 0)
    BY <1>1, <1>4, <1>5
  <2> QED
    BY <1>4, <1>5, <2>1 DEF Sound5
<1> QED
  <2>1. Len(g) \in Nat /\ Len(g) > 0
    BY <1>1
  <2> QED
    BY <1>2, <1>3, <1>4, <1>6, <2>1, Outcome5

LEMMA Auth5 ==
  ASSUME NEW p, NEW h, IsParser(p), Sound5(p, h), p.verdict = "more", Len(h) > 1, h[2] \in 0..Octets - 1,
         NEW o \in 0..Octets - 1, NEW g, Heard(h, g, o), g[1] = 5, p.state = "GET5_AUTH"
  PROVE  Outcome(SocksOctet(p, o), g)
<1>0. /\ p.v = 5 /\ Len(h) = MethodsEnd(h) - Wide(p.left) /\ Len(h) \in Nat /\ p.left \in 0..Octets - 1
      /\ p.auth = TRUE <=> \E j \in 3..Len(h) : h[j] = 0
      /\ Len(g) = Len(h) + 1 /\ g[Len(h) + 1] = o /\ \A j \in 1..Len(h) : g[j] = h[j]
  BY DEF Sound5, Heard, IsParser
<1>1. MethodsEnd(g) = MethodsEnd(h) /\ MethodsEnd(h) \in Nat /\ MethodsEnd(h) > 2
  BY Longer5
<1>2. PICK auth : auth = (p.auth \/ o = 0)
  OBVIOUS
<1>3. PICK q : q = [p EXCEPT !.auth = auth]
  OBVIOUS
<1>4. SocksOctet(p, o) = Authenticated(Counted(q, "GET5_REQUESTV"))
  <2>1. SocksOctet(p, o) = Authenticated(Counted([p EXCEPT !.auth = @ \/ o = 0], "GET5_REQUESTV"))
    BY Zenon DEF SocksOctet
  <2> QED
    BY <1>2, <1>3, <2>1
<1>5. auth \in BOOLEAN /\ (auth = TRUE <=> \E j \in 3..Len(g) : g[j] = 0)
  <2>1. auth \in BOOLEAN /\ (auth = TRUE <=> p.auth = TRUE \/ o = 0)
    BY <1>2 DEF IsParser
  <2>2. ASSUME p.auth = TRUE
        PROVE  \E j \in 3..Len(g) : g[j] = 0
    <3>1. PICK j \in 3..Len(h) : h[j] = 0
      BY <1>0, <2>2
    <3>2. j \in 3..Len(g) /\ g[j] = 0
      BY <1>0, <3>1
    <3> QED
      BY <3>2
  <2>3. ASSUME o = 0
        PROVE  \E j \in 3..Len(g) : g[j] = 0
    <3>1. Len(g) \in 3..Len(g) /\ g[Len(g)] = 0
      BY <1>0, <2>3
    <3> QED
      BY <3>1
  <2>4. ASSUME NEW j \in 3..Len(g), g[j] = 0
        PROVE  p.auth = TRUE \/ o = 0
    <3>1. j = Len(h) + 1 \/ (j \in 3..Len(h) /\ h[j] = 0)
      BY <1>0, <2>4
    <3> QED
      BY <1>0, <2>4, <3>1
  <2> QED
    BY <2>1, <2>2, <2>3, <2>4
<1>6. IsParser(q) /\ q.state = "GET5_AUTH" /\ q.v = 5 /\ q.verdict = "more" /\ q.auth = auth /\ q.left = p.left
  BY <1>0, <1>3, <1>5 DEF IsParser
<1>7. PICK r : r = Counted(q, "GET5_REQUESTV")
  OBVIOUS
<1>8. /\ IsParser(r) /\ r.v = 5 /\ r.verdict = "more" /\ r.auth = auth
      /\ p.left # 1 => r.state = "GET5_AUTH" /\ r.left = Fewer(p.left)
      /\ p.left = 1 => r.state = "GET5_REQUESTV"
  BY <1>6, <1>7, CountedFacts
<1>9. Authenticated(r) =
        IF r.state = "GET5_AUTH" THEN r ELSE IF r.auth THEN [r EXCEPT !.chosen = TRUE] ELSE Refused(r)
  BY DEF Authenticated
<1>10. CASE p.left # 1
  <2>1. Len(g) = MethodsEnd(g) - Wide(Fewer(p.left))
    <3>0. Wide(p.left) \in 1..Octets /\ Wide(Fewer(p.left)) = Wide(p.left) - 1
      BY <1>0, <1>10, WideFacts
    <3>1. PICK w \in Nat : w = Wide(p.left) /\ Wide(Fewer(p.left)) = w - 1
      BY <3>0, SizeFacts
    <3> QED
      BY <1>0, <1>1, <3>1
  <2>2. Sound5(r, g)
    BY <1>0, <1>5, <1>8, <1>10, <2>1 DEF Sound5
  <2> QED
    BY <1>0, <1>4, <1>7, <1>8, <1>9, <1>10, <2>2, Outcome5
<1>11. CASE p.left = 1
  <2>1. Len(g) = MethodsEnd(g)
    BY <1>0, <1>1, <1>11, WideFacts, SizeFacts
  <2>2. MethodsHeard(g) <=> auth = TRUE
    BY <1>5, <2>1 DEF MethodsHeard
  <2>3. CASE auth = TRUE
    <3>1. PICK t : t = [r EXCEPT !.chosen = TRUE]
      OBVIOUS
    <3>2. IsParser(t) /\ t.state = "GET5_REQUESTV" /\ t.v = 5 /\ t.verdict = "more"
      BY <1>8, <1>11, <3>1 DEF IsParser
    <3>3. Sound5(t, g)
      <4>1. Len(g) > 1
        BY <1>0
      <4> QED
        BY <2>1, <2>2, <2>3, <3>2, <4>1 DEF Sound5
    <3>4. Authenticated(r) = t
      BY <1>8, <1>9, <1>11, <2>3, <3>1
    <3> QED
      BY <1>0, <1>4, <1>7, <3>2, <3>3, <3>4, Outcome5
  <2>4. CASE auth # TRUE
    <3>1. Authenticated(r) = Refused(r)
      BY <1>5, <1>8, <1>9, <1>11, <2>4
    <3>2. ~CountedRequest(g)
      <4>1. CountedRequest(g) => MethodsHeard(g)
        BY Zenon DEF CountedRequest, MethodsHeard, MethodsEnd
      <4> QED
        BY <2>2, <2>4, <4>1
    <3> QED
      BY <1>4, <1>7, <1>8, <1>11, <3>1, <3>2, Refused5
  <2> QED
    BY <2>3, <2>4
<1> QED
  BY <1>10, <1>11

IsOctets(h) == Len(h) \in Nat /\ \A j \in 1..Len(h) : h[j] \in 0..Octets - 1

(* A request, by its parts.                                                 *)
LEMMA Request5 ==
  ASSUME NEW h, IsOctets(h), h[1] = 5, Len(h) > 1
  PROVE  CountedRequest(h) <=>
           /\ Len(h) > MethodsEnd(h) + 5 /\ ReservedHeard(h) /\ AddrType(h) \in {1, 3, 4}
           /\ Len(h) = AddrEnd(h) + PortSize
<1>1. PICK n : n = Wide(h[2])
  OBVIOUS
<1>2. n \in Nat /\ n > 0
  BY <1>1, WideFacts, SizeFacts DEF IsOctets
<1>3. MethodsEnd(h) = 2 + n /\ HostStart(h) = 7 + n
  BY <1>1, <1>2 DEF MethodsEnd, HostStart
<1>4. ReservedHeard(h) <=> /\ \E j \in 3..2 + n : h[j] = 0
                      /\ h[3 + n] = 5 /\ h[4 + n] \in {1, 2, 3} /\ h[5 + n] = 0
  <2>1. (2 + n) + 1 = 3 + n /\ (2 + n) + 2 = 4 + n /\ (2 + n) + 3 = 5 + n
    BY <1>2
  <2> QED
    BY <1>3, <2>1, Zenon DEF ReservedHeard, CommandHeard, MethodsHeard
<1>5. AddrType(h) = h[6 + n]
  <2>1. (2 + n) + 4 = 6 + n
    BY <1>2
  <2> QED
    BY <1>3, <2>1 DEF AddrType
<1>6. CountedRequest(h) <=>
        /\ Len(h) > 2 /\ Len(h) > 7 + n /\ ReservedHeard(h)
        /\ \/ h[6 + n] = 1 /\ Len(h) = 6 + n + IPv4Size + PortSize
           \/ h[6 + n] = 4 /\ Len(h) = 6 + n + IPv6Size + PortSize
           \/ h[6 + n] = 3 /\ Len(h) = 7 + n + Wide(h[7 + n]) + PortSize
  <2> HIDE <1>5
  <2> QED
    BY <1>1, <1>4, Zenon DEF CountedRequest
<1>7. Len(h) > 7 + n => Len(h) > 2 /\ Len(h) > MethodsEnd(h) + 5
  BY <1>2, <1>3 DEF IsOctets
<1>8. Len(h) > MethodsEnd(h) + 5 => Len(h) > 7 + n
  BY <1>2, <1>3 DEF IsOctets
<1>9. ASSUME Len(h) > 7 + n
      PROVE  /\ h[6 + n] = 1 => AddrEnd(h) + PortSize = 6 + n + IPv4Size + PortSize
             /\ h[6 + n] = 4 => AddrEnd(h) + PortSize = 6 + n + IPv6Size + PortSize
             /\ h[6 + n] = 3 => AddrEnd(h) + PortSize = 7 + n + Wide(h[7 + n]) + PortSize
  <2>1. PICK w : w = Wide(h[7 + n])
    OBVIOUS
  <2>2. w \in Nat
    <3>1. 7 + n \in 1..Len(h)
      BY <1>2, <1>9 DEF IsOctets
    <3>2. h[7 + n] \in 0..Octets - 1
      BY <3>1 DEF IsOctets
    <3> QED
      BY <2>1, <3>2, WideFacts, SizeFacts
  <2>3. AddrEnd(h) = (2 + n) + 4 + IF h[6 + n] = 1 THEN IPv4Size ELSE IF h[6 + n] = 4 THEN IPv6Size ELSE 1 + w
    BY <1>3, <1>5, <2>1 DEF AddrEnd
  <2>4. IPv4Size \in Nat /\ IPv6Size \in Nat /\ PortSize \in Nat
    BY SizeFacts
  <2>5. h[6 + n] = 1 => AddrEnd(h) + PortSize = 6 + n + IPv4Size + PortSize
    BY <1>2, <2>3, <2>4
  <2>6. h[6 + n] = 4 => AddrEnd(h) + PortSize = 6 + n + IPv6Size + PortSize
    BY <1>2, <2>3, <2>4
  <2>7. h[6 + n] = 3 => AddrEnd(h) + PortSize = 7 + n + w + PortSize
    BY <1>2, <2>2, <2>3, <2>4
  <2> QED
    BY <2>1, <2>5, <2>6, <2>7
<1> QED
  BY <1>5, <1>6, <1>7, <1>8, <1>9

(* What has not the parts of a request is none.                             *)
LEMMA Short5 ==
  ASSUME NEW h, IsOctets(h), h[1] = 5, Len(h) > 1,
         \/ ~(Len(h) > MethodsEnd(h) + 5) \/ ~ReservedHeard(h) \/ AddrType(h) \notin {1, 3, 4}
         \/ Len(h) # AddrEnd(h) + PortSize
  PROVE  ~CountedRequest(h)
BY Request5

LEMMA Requestv5 ==
  ASSUME NEW p, NEW h, IsParser(p), Sound5(p, h), p.verdict = "more", Len(h) > 1, h[2] \in 0..Octets - 1,
         NEW o \in 0..Octets - 1, NEW g, Heard(h, g, o), IsOctets(g), g[1] = 5, p.state = "GET5_REQUESTV"
  PROVE  Outcome(SocksOctet(p, o), g)
<1>0. p.v = 5 /\ Len(h) = MethodsEnd(h) /\ MethodsHeard(h)
  BY DEF Sound5
<1>1. PICK m \in Nat : m = MethodsEnd(h) /\ MethodsEnd(g) = m /\ m > 2
  BY Longer5
<1>2. Len(g) = m + 1 /\ Len(g) > 1 /\ g[m + 1] = o /\ MethodsHeard(g)
  BY <1>0, <1>1, Longer5 DEF Heard
<1>3. SocksOctet(p, o) = IF o = 5 THEN EnterState(p, "GET_COMMAND", 1) ELSE Refused(p)
  BY Zenon DEF SocksOctet
<1>4. CASE o = 5
  <2>1. PICK r : r = EnterState(p, "GET_COMMAND", 1)
    OBVIOUS
  <2>2. IsParser(r) /\ r.state = "GET_COMMAND" /\ r.v = 5 /\ r.verdict = "more"
    BY <1>0, <2>1, EnterFacts, SizeFacts
  <2>3. Sound5(r, g)
    BY <1>1, <1>2, <1>4, <2>2 DEF Sound5
  <2> QED
    BY <1>2, <1>3, <1>4, <2>1, <2>2, <2>3, Outcome5 DEF IsOctets
<1>5. CASE o # 5
  <2>1. ~ReservedHeard(g)
    BY <1>1, <1>2, <1>5 DEF ReservedHeard, CommandHeard
  <2> QED
    BY <1>2, <1>3, <1>5, <2>1, Short5, Refused5
<1> QED
  BY <1>4, <1>5

LEMMA Command5 ==
  ASSUME NEW p, NEW h, IsParser(p), Sound5(p, h), p.verdict = "more", Len(h) > 1, h[2] \in 0..Octets - 1,
         NEW o \in 0..Octets - 1, NEW g, Heard(h, g, o), IsOctets(g), g[1] = 5, p.state = "GET_COMMAND"
  PROVE  Outcome(SocksOctet(p, o), g)
<1>0. p.v = 5 /\ Len(h) = MethodsEnd(h) + 1 /\ MethodsHeard(h) /\ h[MethodsEnd(h) + 1] = 5
  BY DEF Sound5
<1>1. PICK m \in Nat : m = MethodsEnd(h) /\ MethodsEnd(g) = m /\ m > 2
  BY Longer5
<1>2. Len(g) = m + 2 /\ Len(g) > 1 /\ g[m + 2] = o /\ g[m + 1] = 5 /\ MethodsHeard(g)
  BY <1>0, <1>1, Longer5 DEF Heard
<1>3. SocksOctet(p, o) =
        IF o \in {1, 2} \/ (o = 3 /\ p.v = 5)
        THEN EnterState([p EXCEPT !.cmd = o], IF p.v = 5 THEN "GET5_GETRSV" ELSE "GET_PORT", 1)
        ELSE Refused(p)
  BY Zenon DEF SocksOctet
<1>4. CASE o \in {1, 2, 3}
  <2>0. PICK q : q = [p EXCEPT !.cmd = o]
    OBVIOUS
  <2>1. PICK r : r = EnterState(q, "GET5_GETRSV", 1)
    OBVIOUS
  <2>2. IsParser(q) /\ q.v = 5 /\ q.verdict = "more"
    BY <1>0, <2>0 DEF IsParser
  <2>3. IsParser(r) /\ r.state = "GET5_GETRSV" /\ r.v = 5 /\ r.verdict = "more"
    BY <2>1, <2>2, EnterFacts, SizeFacts
  <2>4. Sound5(r, g)
    BY <1>1, <1>2, <1>4, <2>3 DEF Sound5, CommandHeard
  <2>5. SocksOctet(p, o) = r
    BY <1>0, <1>3, <1>4, <2>0, <2>1
  <2> QED
    BY <1>2, <2>3, <2>4, <2>5, Outcome5 DEF IsOctets
<1>5. CASE o \notin {1, 2, 3}
  <2>1. ~ReservedHeard(g)
    BY <1>1, <1>2, <1>5 DEF ReservedHeard, CommandHeard
  <2>2. SocksOctet(p, o) = Refused(p)
    BY <1>3, <1>5
  <2> QED
    BY <1>2, <2>1, <2>2, Short5, Refused5
<1> QED
  BY <1>4, <1>5

LEMMA Reserved5 ==
  ASSUME NEW p, NEW h, IsParser(p), Sound5(p, h), p.verdict = "more", Len(h) > 1, h[2] \in 0..Octets - 1,
         NEW o \in 0..Octets - 1, NEW g, Heard(h, g, o), IsOctets(g), g[1] = 5, p.state = "GET5_GETRSV"
  PROVE  Outcome(SocksOctet(p, o), g)
<1>0. p.v = 5 /\ Len(h) = MethodsEnd(h) + 2 /\ CommandHeard(h)
  BY DEF Sound5
<1>1. PICK m \in Nat : m = MethodsEnd(h) /\ MethodsEnd(g) = m /\ m > 2
  BY Longer5
<1>2. Len(g) = m + 3 /\ Len(g) > 1 /\ g[m + 3] = o /\ CommandHeard(g)
  BY <1>0, <1>1, Longer5 DEF Heard
<1>3. SocksOctet(p, o) = IF o = 0 THEN EnterState(p, "GET5_GETADDRTYPE", 1) ELSE Refused(p)
  BY Zenon DEF SocksOctet
<1>4. CASE o = 0
  <2>1. PICK r : r = EnterState(p, "GET5_GETADDRTYPE", 1)
    OBVIOUS
  <2>2. IsParser(r) /\ r.state = "GET5_GETADDRTYPE" /\ r.v = 5 /\ r.verdict = "more"
    BY <1>0, <2>1, EnterFacts, SizeFacts
  <2>3. Sound5(r, g)
    BY <1>1, <1>2, <1>4, <2>2 DEF Sound5, ReservedHeard
  <2> QED
    BY <1>2, <1>3, <1>4, <2>1, <2>2, <2>3, Outcome5 DEF IsOctets
<1>5. CASE o # 0
  <2>1. ~ReservedHeard(g)
    BY <1>1, <1>2, <1>5 DEF ReservedHeard
  <2> QED
    BY <1>2, <1>3, <1>5, <2>1, Short5, Refused5
<1> QED
  BY <1>4, <1>5

LEMMA AddrType5 ==
  ASSUME NEW p, NEW h, IsParser(p), Sound5(p, h), p.verdict = "more", Len(h) > 1, h[2] \in 0..Octets - 1,
         NEW o \in 0..Octets - 1, NEW g, Heard(h, g, o), IsOctets(g), g[1] = 5, p.state = "GET5_GETADDRTYPE"
  PROVE  Outcome(SocksOctet(p, o), g)
<1>0. p.v = 5 /\ Len(h) = MethodsEnd(h) + 3 /\ ReservedHeard(h)
  BY DEF Sound5
<1>1. PICK m \in Nat : m = MethodsEnd(h) /\ MethodsEnd(g) = m /\ m > 2
  BY Longer5
<1>2. Len(g) = m + 4 /\ Len(g) > 1 /\ AddrType(g) = o /\ ReservedHeard(g)
  <2>1. Len(h) = m + 3 /\ Len(g) = Len(h) + 1 /\ g[Len(h) + 1] = o
    BY <1>0, <1>1 DEF Heard
  <2>2. Len(g) = m + 4 /\ Len(g) > 1 /\ g[m + 4] = o
    BY <1>1, <2>1
  <2>3. AddrType(g) = o
    BY <1>1, <2>2 DEF AddrType
  <2>4. ReservedHeard(g) <=> ReservedHeard(h)
    <3>1. Len(h) >= MethodsEnd(h) + 3
      BY <1>1, <2>1
    <3> QED
      BY <3>1, Longer5
  <2> QED
    BY <1>0, <2>2, <2>3, <2>4
<1>3. SocksOctet(p, o) =
        CASE o = 1 -> EnterState(p, "GET_IPV4", 1)
          [] o = 4 -> EnterState(p, "GET5_IPV6", 1)
          [] o = 3 -> EnterState(p, "GET5_HOST_SIZE", 1)
          [] OTHER -> Refused(p)
  BY Zenon DEF SocksOctet
<1>4. 1 # 4 /\ 1 # 3 /\ 3 # 4
  OBVIOUS
<1>5. CASE o = 1
  <2>1. PICK r : r = EnterState(p, "GET_IPV4", 1)
    OBVIOUS
  <2>2. IsParser(r) /\ r.state = "GET_IPV4" /\ r.v = 5 /\ r.verdict = "more" /\ r.left = IPv4Size
    BY <1>0, <2>1, EnterFacts, SizeFacts
  <2>3. Len(g) = AddrEnd(g) - r.left /\ r.left \in 1..IPv4Size
    BY <1>1, <1>2, <1>5, <2>2, SizeFacts DEF AddrEnd
  <2>4. Sound5(r, g)
    BY <1>2, <1>5, <2>2, <2>3 DEF Sound5
  <2>5. SocksOctet(p, o) = r
    BY <1>3, <1>4, <1>5, <2>1, Zenon
  <2> QED
    BY <1>2, <2>2, <2>4, <2>5, Outcome5 DEF IsOctets
<1>6. CASE o = 4
  <2>1. PICK r : r = EnterState(p, "GET5_IPV6", 1)
    OBVIOUS
  <2>2. IsParser(r) /\ r.state = "GET5_IPV6" /\ r.v = 5 /\ r.verdict = "more" /\ r.left = IPv6Size
    BY <1>0, <2>1, EnterFacts, SizeFacts
  <2>3. Len(g) = AddrEnd(g) - r.left /\ r.left \in 1..IPv6Size
    BY <1>1, <1>2, <1>6, <2>2, SizeFacts DEF AddrEnd
  <2>4. Sound5(r, g)
    BY <1>2, <1>6, <2>2, <2>3 DEF Sound5
  <2>5. SocksOctet(p, o) = r
    BY <1>3, <1>4, <1>6, <2>1, Zenon
  <2> QED
    BY <1>2, <2>2, <2>4, <2>5, Outcome5 DEF IsOctets
<1>7. CASE o = 3
  <2>1. PICK r : r = EnterState(p, "GET5_HOST_SIZE", 1)
    OBVIOUS
  <2>2. IsParser(r) /\ r.state = "GET5_HOST_SIZE" /\ r.v = 5 /\ r.verdict = "more"
    BY <1>0, <2>1, EnterFacts, SizeFacts
  <2>3. Sound5(r, g)
    BY <1>1, <1>2, <1>7, <2>2 DEF Sound5
  <2>4. SocksOctet(p, o) = r
    BY <1>3, <1>4, <1>7, <2>1, Zenon
  <2> QED
    BY <1>2, <2>2, <2>3, <2>4, Outcome5 DEF IsOctets
<1>8. CASE o \notin {1, 3, 4}
  <2>1. SocksOctet(p, o) = Refused(p)
    BY <1>3, <1>8, Zenon
  <2> QED
    BY <1>2, <1>8, <2>1, Short5, Refused5
<1> QED
  BY <1>5, <1>6, <1>7, <1>8

LEMMA WideNat ==
  ASSUME NEW n \in 0..Octets - 1
  PROVE  Wide(n) \in Nat /\ Wide(n) > 0
BY WideFacts, SizeFacts

(* The address and the port are counted down.                               *)
LEMMA FewerLeft ==
  ASSUME NEW n \in Nat, NEW left \in 1..n, left # 1
  PROVE  left - 1 \in 1..n /\ Fewer(left) = left - 1
<1>1. left \in Nat /\ left > 1 /\ left <= n
  OBVIOUS
<1> QED
  BY <1>1 DEF Fewer

LEMMA CountdownFacts ==
  ASSUME NEW m \in Nat, NEW s \in Nat, NEW l \in Nat, l > 0, l <= s,
         NEW x \in Nat, NEW a, a = m + 4 + s, x = a - l
  PROVE  x >= m + 3 /\ x >= m + 4 /\ x + 1 >= m + 5 /\ x + 1 = a - (l - 1) /\ (l = 1 => x + 1 = a)
OBVIOUS

LEMMA IPv4Address5 ==
  ASSUME NEW p, NEW h, IsParser(p), Sound5(p, h), p.verdict = "more", Len(h) > 1, h[2] \in 0..Octets - 1,
         NEW o \in 0..Octets - 1, NEW g, Heard(h, g, o), IsOctets(g), g[1] = 5, p.state = "GET_IPV4"
  PROVE  Outcome(SocksOctet(p, o), g)
<1>0. /\ p.v = 5 /\ ReservedHeard(h) /\ AddrType(h) = 1
      /\ p.left \in 1..IPv4Size /\ Len(h) = AddrEnd(h) - p.left
  BY DEF Sound5
<1>1. PICK m \in Nat : m = MethodsEnd(h) /\ MethodsEnd(g) = m /\ m > 2
  BY Longer5
<1>2. IPv4Size \in Nat /\ PortSize \in Nat /\ PortSize > 0
  BY SizeFacts
<1>a. PICK l \in Nat : l = p.left /\ l > 0 /\ l <= IPv4Size
  BY <1>0, <1>2
<1>b. Len(h) = AddrEnd(h) - l /\ Len(h) \in Nat /\ Len(g) = Len(h) + 1
  BY <1>0, <1>a DEF Heard
<1>c. AddrEnd(h) = m + 4 + IPv4Size
  BY <1>0, <1>1 DEF AddrEnd
<1>3. /\ Len(h) >= m + 3 /\ Len(h) >= m + 4 /\ Len(h) + 1 >= m + 5
      /\ Len(h) + 1 = AddrEnd(h) - (l - 1) /\ (l = 1 => Len(h) + 1 = AddrEnd(h))
  BY <1>2, <1>a, <1>b, <1>c, CountdownFacts
<1>4. Len(g) >= m + 5 /\ Len(g) > 1 /\ Len(g) = AddrEnd(h) - (l - 1) /\ (l = 1 => Len(g) = AddrEnd(h))
  BY <1>1, <1>3, <1>b
<1>5. ReservedHeard(g) /\ AddrType(g) = 1
  BY <1>0, <1>1, <1>3, Longer5
<1>6. AddrEnd(g) = AddrEnd(h)
  BY <1>1, <1>5, <1>c DEF AddrEnd
<1>7. PICK q : q = [p EXCEPT !.ip = @ * Octets + o]
  OBVIOUS
<1>8. IsParser(q) /\ q.v = 5 /\ q.verdict = "more" /\ q.state = "GET_IPV4" /\ q.left = p.left
  <2>1. PICK ip : ip = p.ip * Octets + o
    OBVIOUS
  <2>2. ip \in Nat
    <3>1. p.ip \in Nat /\ Octets \in Nat /\ o \in Nat
      BY SizeFacts DEF IsParser
    <3>2. PICK i \in Nat, w \in Nat, k \in Nat : ip = i * w + k
      BY <2>1, <3>1
    <3> QED
      BY <3>2
  <2>3. q = [p EXCEPT !.ip = ip]
    BY <1>7, <2>1
  <2> QED
    BY <1>0, <2>2, <2>3 DEF IsParser
<1>9. PICK r : r = Counted(q, "GET_PORT")
  OBVIOUS
<1>10. SocksOctet(p, o) = r
  <2>1. SocksOctet(p, o) = Counted([p EXCEPT !.ip = @ * Octets + o], IF p.v = 5 THEN "GET_PORT" ELSE "GET4_IDENT")
    BY Zenon DEF SocksOctet
  <2> QED
    BY <1>0, <1>7, <1>9, <2>1
<1>11. /\ IsParser(r) /\ r.v = 5 /\ r.verdict = "more"
       /\ p.left # 1 => r.state = "GET_IPV4" /\ r.left = Fewer(p.left)
       /\ p.left = 1 => r.state = "GET_PORT" /\ r.left = PortSize
  BY <1>8, <1>9, CountedFacts
<1>12. Sound5(r, g)
  <2>1. CASE p.left # 1
    <3>a. p.left \in 1..IPv4Size /\ p.left \in Nat
      BY <1>0, <1>2
    <3>1. r.left \in 1..IPv4Size /\ r.left = p.left - 1 /\ p.left \in Nat
      BY <1>2, <1>11, <2>1, <3>a, FewerLeft
    <3>2. Len(g) = AddrEnd(g) - (l - 1)
      BY <1>4, <1>6
    <3>3. Len(g) = AddrEnd(g) - r.left
      BY <1>a, <3>1, <3>2
    <3> QED
      BY <1>4, <1>5, <1>11, <2>1, <3>1, <3>3 DEF Sound5
  <2>2. CASE p.left = 1
    <3>0. r.left = PortSize /\ l = 1 /\ HostStart(g) = m + 5
      BY <1>1, <1>11, <1>a, <2>2 DEF HostStart
    <3>a. PortSize \in 1..PortSize
      BY <1>2
    <3>b. Len(g) = AddrEnd(g) + PortSize - PortSize /\ Len(g) >= m + 5
      <4>1. Len(g) = AddrEnd(g) /\ Len(g) \in Nat
        BY <1>4, <1>6, <1>b, <3>0
      <4>2. Len(g) + PortSize - PortSize = Len(g)
        BY <1>2, <4>1
      <4> QED
        BY <1>4, <4>1, <4>2
    <3>1. r.left \in 1..PortSize /\ Len(g) = AddrEnd(g) + PortSize - r.left /\ Len(g) >= HostStart(g)
      BY <3>0, <3>a, <3>b
    <3> QED
      BY <1>4, <1>5, <1>11, <2>2, <3>1 DEF Sound5
  <2> QED
    BY <2>1, <2>2
<1> QED
  BY <1>4, <1>10, <1>11, <1>12, Outcome5 DEF IsOctets

LEMMA IPv6Address5 ==
  ASSUME NEW p, NEW h, IsParser(p), Sound5(p, h), p.verdict = "more", Len(h) > 1, h[2] \in 0..Octets - 1,
         NEW o \in 0..Octets - 1, NEW g, Heard(h, g, o), IsOctets(g), g[1] = 5, p.state = "GET5_IPV6"
  PROVE  Outcome(SocksOctet(p, o), g)
<1>0. /\ p.v = 5 /\ ReservedHeard(h) /\ AddrType(h) = 4
      /\ p.left \in 1..IPv6Size /\ Len(h) = AddrEnd(h) - p.left
  BY DEF Sound5
<1>1. PICK m \in Nat : m = MethodsEnd(h) /\ MethodsEnd(g) = m /\ m > 2
  BY Longer5
<1>2. IPv6Size \in Nat /\ PortSize \in Nat /\ PortSize > 0
  BY SizeFacts
<1>a. PICK l \in Nat : l = p.left /\ l > 0 /\ l <= IPv6Size
  BY <1>0, <1>2
<1>b. Len(h) = AddrEnd(h) - l /\ Len(h) \in Nat /\ Len(g) = Len(h) + 1
  BY <1>0, <1>a DEF Heard
<1>c. AddrEnd(h) = m + 4 + IPv6Size
  BY <1>0, <1>1 DEF AddrEnd
<1>3. /\ Len(h) >= m + 3 /\ Len(h) >= m + 4 /\ Len(h) + 1 >= m + 5
      /\ Len(h) + 1 = AddrEnd(h) - (l - 1) /\ (l = 1 => Len(h) + 1 = AddrEnd(h))
  BY <1>2, <1>a, <1>b, <1>c, CountdownFacts
<1>4. Len(g) >= m + 5 /\ Len(g) > 1 /\ Len(g) = AddrEnd(h) - (l - 1) /\ (l = 1 => Len(g) = AddrEnd(h))
  BY <1>1, <1>3, <1>b
<1>5. ReservedHeard(g) /\ AddrType(g) = 4
  BY <1>0, <1>1, <1>3, Longer5
<1>6. AddrEnd(g) = AddrEnd(h)
  BY <1>1, <1>5, <1>c DEF AddrEnd
<1>9. PICK r : r = Counted(p, "GET_PORT")
  OBVIOUS
<1>10. SocksOctet(p, o) = r
  BY <1>9, Zenon DEF SocksOctet
<1>11. /\ IsParser(r) /\ r.v = 5 /\ r.verdict = "more"
       /\ p.left # 1 => r.state = "GET5_IPV6" /\ r.left = Fewer(p.left)
       /\ p.left = 1 => r.state = "GET_PORT" /\ r.left = PortSize
  BY <1>0, <1>9, CountedFacts
<1>12. Sound5(r, g)
  <2>1. CASE p.left # 1
    <3>a. p.left \in 1..IPv6Size /\ p.left \in Nat
      BY <1>0, <1>2
    <3>1. r.left \in 1..IPv6Size /\ r.left = p.left - 1 /\ p.left \in Nat
      BY <1>2, <1>11, <2>1, <3>a, FewerLeft
    <3>2. Len(g) = AddrEnd(g) - (l - 1)
      BY <1>4, <1>6
    <3>3. Len(g) = AddrEnd(g) - r.left
      BY <1>a, <3>1, <3>2
    <3> QED
      BY <1>4, <1>5, <1>11, <2>1, <3>1, <3>3 DEF Sound5
  <2>2. CASE p.left = 1
    <3>0. r.left = PortSize /\ l = 1 /\ HostStart(g) = m + 5
      BY <1>1, <1>11, <1>a, <2>2 DEF HostStart
    <3>a. PortSize \in 1..PortSize
      BY <1>2
    <3>b. Len(g) = AddrEnd(g) + PortSize - PortSize /\ Len(g) >= m + 5
      <4>1. Len(g) = AddrEnd(g) /\ Len(g) \in Nat
        BY <1>4, <1>6, <1>b, <3>0
      <4>2. Len(g) + PortSize - PortSize = Len(g)
        BY <1>2, <4>1
      <4> QED
        BY <1>4, <4>1, <4>2
    <3>1. r.left \in 1..PortSize /\ Len(g) = AddrEnd(g) + PortSize - r.left /\ Len(g) >= HostStart(g)
      BY <3>0, <3>a, <3>b
    <3> QED
      BY <1>4, <1>5, <1>11, <2>2, <3>1 DEF Sound5
  <2> QED
    BY <2>1, <2>2
<1> QED
  BY <1>4, <1>10, <1>11, <1>12, Outcome5 DEF IsOctets

LEMMA HostSize5 ==
  ASSUME NEW p, NEW h, IsParser(p), Sound5(p, h), p.verdict = "more", Len(h) > 1, h[2] \in 0..Octets - 1,
         NEW o \in 0..Octets - 1, NEW g, Heard(h, g, o), IsOctets(g), g[1] = 5, p.state = "GET5_HOST_SIZE"
  PROVE  Outcome(SocksOctet(p, o), g)
<1>0. p.v = 5 /\ ReservedHeard(h) /\ AddrType(h) = 3 /\ Len(h) = MethodsEnd(h) + 4
  BY DEF Sound5
<1>1. PICK m \in Nat : m = MethodsEnd(h) /\ MethodsEnd(g) = m /\ m > 2
  BY Longer5
<1>2. Len(h) >= m + 3 /\ Len(h) >= m + 4 /\ Len(g) = m + 5 /\ Len(g) > 1 /\ g[m + 5] = o
  BY <1>0, <1>1 DEF Heard
<1>3. ReservedHeard(g) /\ AddrType(g) = 3
  BY <1>0, <1>1, <1>2, Longer5
<1>4. PICK w \in Nat : w = Wide(o) /\ w > 0
  BY WideFacts, SizeFacts
<1>5. AddrEnd(g) = m + 5 + w /\ HostStart(g) = m + 5
  BY <1>1, <1>2, <1>3, <1>4 DEF AddrEnd, HostStart
<1>6. PICK r : r = EnterState(p, "GET5_HOST", o)
  OBVIOUS
<1>7. IsParser(r) /\ r.state = "GET5_HOST" /\ r.v = 5 /\ r.verdict = "more" /\ r.left = o
  BY <1>0, <1>6, EnterFacts
<1>8. Len(g) >= HostStart(g) /\ Len(g) = AddrEnd(g) - Wide(r.left)
  BY <1>1, <1>2, <1>4, <1>5, <1>7
<1>9. Sound5(r, g)
  BY <1>2, <1>3, <1>7, <1>8 DEF Sound5
<1>10. SocksOctet(p, o) = r
  BY <1>6, Zenon DEF SocksOctet
<1> QED
  BY <1>2, <1>7, <1>9, <1>10, Outcome5 DEF IsOctets

LEMMA Host5 ==
  ASSUME NEW p, NEW h, IsParser(p), Sound5(p, h), p.verdict = "more", Len(h) > 1, h[2] \in 0..Octets - 1,
         IsOctets(h),
         NEW o \in 0..Octets - 1, NEW g, Heard(h, g, o), IsOctets(g), g[1] = 5, p.state = "GET5_HOST"
  PROVE  Outcome(SocksOctet(p, o), g)
<1>0. /\ p.v = 5 /\ ReservedHeard(h) /\ AddrType(h) = 3
      /\ Len(h) >= HostStart(h) /\ Len(h) = AddrEnd(h) - Wide(p.left) /\ p.left \in 0..Octets - 1
  BY DEF Sound5, IsParser
<1>1. PICK m \in Nat : m = MethodsEnd(h) /\ MethodsEnd(g) = m /\ m > 2
  BY Longer5
<1>2. HostStart(h) = m + 5 /\ HostStart(g) = m + 5
  BY <1>1 DEF HostStart
<1>3. Len(h) >= m + 5 /\ Len(h) >= m + 4 /\ Len(h) >= m + 3 /\ Len(g) = Len(h) + 1 /\ Len(g) > 1 /\ Len(g) >= m + 5
  BY <1>0, <1>1, <1>2 DEF Heard
<1>4. ReservedHeard(g) /\ AddrType(g) = 3 /\ AddrEnd(g) = AddrEnd(h)
  BY <1>0, <1>1, <1>3, Longer5
<1>5. PICK a \in Nat : a = AddrEnd(h)
  <2>1. m + 5 \in 1..Len(h)
    BY <1>1, <1>3 DEF IsOctets
  <2>2. h[m + 5] \in 0..Octets - 1
    BY <2>1 DEF IsOctets
  <2>3. PICK w \in Nat : w = Wide(h[m + 5])
    BY <2>2, WideNat
  <2>4. AddrEnd(h) = m + 4 + (1 + w)
    BY <1>0, <1>1, <1>2, <2>3 DEF AddrEnd
  <2> QED
    BY <2>3, <2>4
<1>6. PICK q : q = [p EXCEPT !.host = @ + 1]
  OBVIOUS
<1>7. IsParser(q) /\ q.v = 5 /\ q.verdict = "more" /\ q.state = "GET5_HOST" /\ q.left = p.left
  <2>1. PICK n : n = p.host + 1
    OBVIOUS
  <2>2. q = [p EXCEPT !.host = n]
    BY <1>6, <2>1
  <2> QED
    BY <1>0, <2>2 DEF IsParser
<1>8. PICK r : r = Counted(q, "GET_PORT")
  OBVIOUS
<1>9. SocksOctet(p, o) = r
  BY <1>6, <1>8, Zenon DEF SocksOctet
<1>10. /\ IsParser(r) /\ r.v = 5 /\ r.verdict = "more"
       /\ p.left # 1 => r.state = "GET5_HOST" /\ r.left = Fewer(p.left)
       /\ p.left = 1 => r.state = "GET_PORT" /\ r.left = PortSize
  BY <1>7, <1>8, CountedFacts
<1>11. Sound5(r, g)
  <2>0. PICK w \in Nat : w = Wide(p.left)
    BY <1>0, WideNat
  <2>1. CASE p.left # 1
    <3>1. Wide(r.left) = w - 1
      BY <1>0, <1>10, <2>0, <2>1, WideFacts
    <3>2. Len(g) = AddrEnd(g) - Wide(r.left)
      BY <1>0, <1>3, <1>4, <1>5, <2>0, <3>1
    <3> QED
      BY <1>2, <1>3, <1>4, <1>10, <2>1, <3>2 DEF Sound5
  <2>2. CASE p.left = 1
    <3>0. PortSize \in Nat /\ PortSize > 0 /\ w = 1
      BY <1>0, <2>0, <2>2, WideFacts, SizeFacts
    <3>1. Len(h) = a - 1 /\ Len(g) = Len(h) + 1 /\ r.left = PortSize
      BY <1>0, <1>3, <1>5, <1>10, <2>0, <2>2, <3>0
    <3>2. PortSize \in 1..PortSize /\ Len(g) = a + PortSize - PortSize
      BY <1>5, <3>0, <3>1
    <3>3. r.left \in 1..PortSize /\ Len(g) = AddrEnd(g) + PortSize - r.left /\ Len(g) >= HostStart(g)
      BY <1>2, <1>3, <1>4, <1>5, <3>1, <3>2
    <3> QED
      BY <1>3, <1>4, <1>10, <2>2, <3>3 DEF Sound5
  <2> QED
    BY <2>1, <2>2
<1> QED
  BY <1>3, <1>9, <1>10, <1>11, Outcome5 DEF IsOctets

LEMMA AddrEnds ==
  ASSUME NEW h, Len(h) > 1, IsOctets(h), ReservedHeard(h), AddrType(h) \in {1, 3, 4},
         NEW m \in Nat, m = MethodsEnd(h), Len(h) >= m + 5
  PROVE  AddrEnd(h) \in Nat /\ AddrEnd(h) >= m + 5
<1>1. IPv4Size \in Nat /\ IPv4Size > 0 /\ IPv6Size \in Nat /\ IPv6Size > 0
  BY SizeFacts
<1>2. m + 5 \in 1..Len(h) /\ HostStart(h) = m + 5
  BY DEF IsOctets, HostStart
<1>3. PICK w \in Nat : w = Wide(h[m + 5])
  BY <1>2, WideFacts, SizeFacts DEF IsOctets
<1>4. AddrEnd(h) = m + 4 + IF AddrType(h) = 1 THEN IPv4Size ELSE IF AddrType(h) = 4 THEN IPv6Size ELSE 1 + w
  BY <1>2, <1>3 DEF AddrEnd
<1> QED
  BY <1>1, <1>3, <1>4

LEMMA Port5 ==
  ASSUME NEW p, NEW h, IsParser(p), Sound5(p, h), p.verdict = "more", Len(h) > 1, h[2] \in 0..Octets - 1,
         IsOctets(h), h[1] = 5,
         NEW o \in 0..Octets - 1, NEW g, Heard(h, g, o), IsOctets(g), g[1] = 5, p.state = "GET_PORT"
  PROVE  Outcome(SocksOctet(p, o), g)
<1>0. /\ p.v = 5 /\ ReservedHeard(h) /\ AddrType(h) \in {1, 3, 4} /\ Len(h) >= HostStart(h)
      /\ p.left \in 1..PortSize /\ Len(h) = AddrEnd(h) + PortSize - p.left
  BY DEF Sound5
<1>1. PICK m \in Nat : m = MethodsEnd(h) /\ MethodsEnd(g) = m /\ m > 2
  BY Longer5
<1>2. Len(h) >= m + 5 /\ Len(h) >= m + 4 /\ Len(h) >= m + 3 /\ Len(g) = Len(h) + 1 /\ Len(g) > 1 /\ Len(g) > m + 5
      /\ HostStart(g) = m + 5
  <2>1. HostStart(g) = m + 5 /\ HostStart(h) = m + 5
    BY <1>1 DEF HostStart
  <2>2. Len(h) >= m + 5 /\ Len(h) \in Nat /\ Len(g) = Len(h) + 1
    BY <1>0, <2>1 DEF Heard
  <2> QED
    BY <1>1, <2>1, <2>2
<1>3. ReservedHeard(g) /\ AddrType(g) = AddrType(h) /\ AddrEnd(g) = AddrEnd(h)
  BY <1>0, <1>1, <1>2, Longer5
<1>4. PICK a \in Nat : a = AddrEnd(h)
  BY <1>0, <1>1, <1>2, AddrEnds
<1>5. PICK r : r = Counted(p, "DONE")
  OBVIOUS
<1>6. SocksOctet(p, o) = r
  <2>1. SocksOctet(p, o) = Counted(p, IF p.v = 5 THEN "DONE" ELSE "GET_IPV4")
    BY Zenon DEF SocksOctet
  <2> QED
    BY <1>0, <1>5, <2>1
<1>7. /\ IsParser(r) /\ r.v = 5 /\ r.verdict = "more"
      /\ p.left # 1 => r.state = "GET_PORT" /\ r.left = Fewer(p.left)
      /\ p.left = 1 => r.state = "DONE"
  BY <1>0, <1>5, CountedFacts
<1>8. PortSize \in Nat
  BY SizeFacts
<1>9. Sound5(r, g)
  <2>1. CASE p.left # 1
    <3>a. p.left \in 1..PortSize /\ p.left \in Nat
      BY <1>0, <1>8
    <3>1. r.left \in 1..PortSize /\ r.left = p.left - 1 /\ p.left \in Nat
      BY <1>7, <1>8, <2>1, <3>a, FewerLeft
    <3>2. Len(g) = AddrEnd(g) + PortSize - r.left
      BY <1>0, <1>2, <1>3, <1>4, <1>8, <3>1
    <3>3. Len(g) >= HostStart(g)
      BY <1>1, <1>2
    <3> QED
      BY <1>0, <1>2, <1>3, <1>7, <2>1, <3>1, <3>2, <3>3 DEF Sound5
  <2>2. CASE p.left = 1
    <3>1. Len(g) = AddrEnd(g) + PortSize
      BY <1>0, <1>2, <1>3, <1>4, <1>8, <2>2
    <3>2. CountedRequest(g)
      BY <1>0, <1>1, <1>2, <1>3, <3>1, Request5
    <3> QED
      BY <1>2, <1>7, <2>2, <3>2 DEF Sound5
  <2> QED
    BY <2>1, <2>2
<1>10. Len(g) \in Nat /\ Len(g) > 0
  BY <1>2 DEF IsOctets
<1> QED
  BY <1>6, <1>7, <1>9, <1>10, Outcome5

LEMMA NotYet5 ==
  ASSUME NEW p, NEW h, IsParser(p), IsOctets(h), Len(h) > 0, Sound5(p, h)
  PROVE  /\ p.state = "DONE" <=> CountedRequest(h)
         /\ ~Socks4Request(h)
<1>0. h[1] = 5 /\ ~Socks4Request(h)
  BY DEF Sound5, Socks4Request
<1>1. CASE p.state = "DONE"
  BY <1>0, <1>1 DEF Sound5
<1>2. CASE p.state = "GET5_AUTHNUM"
  <2>1. Len(h) = 1
    BY <1>2 DEF Sound5
  <2> QED
    BY <1>0, <1>2, <2>1 DEF CountedRequest
<1>3. CASE p.state \notin {"DONE", "GET5_AUTHNUM"}
  <2>0. p.left \in 0..Octets - 1
    BY DEF IsParser
  <2>1. Len(h) > 1 /\ Len(h) \in Nat
    BY <1>3 DEF Sound5, IsOctets
  <2>2. h[2] \in 0..Octets - 1
    <3>1. 2 \in 1..Len(h)
      BY <2>1
    <3> QED
      BY <3>1 DEF IsOctets
  <2>3. PICK m \in Nat : m = MethodsEnd(h)
    <3>1. PICK w \in Nat : w = Wide(h[2])
      BY <2>2, WideNat
    <3> QED
      BY <3>1 DEF MethodsEnd
  <2>4. HostStart(h) = m + 5
    BY <2>3 DEF HostStart
  <2>5. CASE p.state = "GET5_AUTH"
    <3>1. PICK w \in Nat : w = Wide(p.left)
      BY <2>0, WideNat
    <3>2. Len(h) = m - w
      BY <2>3, <2>5, <3>1 DEF Sound5
    <3>3. ~(Len(h) > MethodsEnd(h) + 5)
      BY <2>1, <2>3, <3>1, <3>2
    <3> QED
      BY <1>0, <1>3, <2>1, <3>3, Short5
  <2>6. CASE p.state \in {"GET5_REQUESTV", "GET_COMMAND", "GET5_GETRSV", "GET5_GETADDRTYPE", "GET5_HOST_SIZE"}
    <3>1. \E i \in {0, 1, 2, 3, 4} : Len(h) = m + i
      <4>1. /\ p.state = "GET5_REQUESTV" => Len(h) = m
            /\ p.state = "GET_COMMAND" => Len(h) = m + 1
            /\ p.state = "GET5_GETRSV" => Len(h) = m + 2
            /\ p.state = "GET5_GETADDRTYPE" => Len(h) = m + 3
            /\ p.state = "GET5_HOST_SIZE" => Len(h) = m + 4
        BY <2>3 DEF Sound5
      <4> QED
        BY <2>3, <2>6, <4>1
    <3>2. ~(Len(h) > m + 5)
      BY <2>3, <3>1
    <3> QED
      BY <1>0, <1>3, <2>1, <2>3, <3>2, Short5
  <2>7. CASE p.state \in {"GET_IPV4", "GET5_IPV6"}
    <3>0. ReservedHeard(h) /\ AddrType(h) \in {1, 4} /\ Len(h) = AddrEnd(h) - p.left
      BY <2>7 DEF Sound5
    <3>1. PICK a \in Nat : a = AddrEnd(h)
      BY <2>3, <3>0, SizeFacts DEF AddrEnd
    <3>2. PICK l \in Nat : l = p.left
      BY <2>0, SizeFacts
    <3>3. PICK s \in Nat : s = PortSize /\ s > 0
      BY SizeFacts
    <3>4. Len(h) # AddrEnd(h) + PortSize
      BY <3>0, <3>1, <3>2, <3>3
    <3> QED
      BY <1>0, <1>3, <2>1, <3>4, Short5
  <2>8. CASE p.state \in {"GET5_HOST", "GET_PORT"}
    <3>0. ReservedHeard(h) /\ AddrType(h) \in {1, 3, 4} /\ Len(h) >= m + 5
      BY <2>4, <2>8 DEF Sound5
    <3>1. PICK a \in Nat : a = AddrEnd(h)
      BY <2>1, <2>3, <3>0, AddrEnds
    <3>2. PICK s \in Nat : s = PortSize /\ s > 0
      BY SizeFacts
    <3>3. PICK w \in Nat : w = Wide(p.left) /\ w > 0
      BY <2>0, WideNat
    <3>4. PICK l \in Nat : l = p.left /\ (p.state = "GET_PORT" => l > 0)
      <4>1. p.state = "GET_PORT" => p.left \in 1..PortSize
        BY DEF Sound5
      <4> QED
        BY <2>0, <4>1, SizeFacts
    <3>5. p.state = "GET5_HOST" => Len(h) = a - w
      BY <3>1, <3>3 DEF Sound5
    <3>6. p.state = "GET_PORT" => Len(h) = a + s - l
      BY <3>1, <3>2, <3>4 DEF Sound5
    <3>7. Len(h) # a + s
      <4>1. CASE p.state = "GET5_HOST"
        BY <3>1, <3>2, <3>3, <3>5, <4>1
      <4>2. CASE p.state = "GET_PORT"
        BY <3>1, <3>2, <3>4, <3>6, <4>2
      <4> QED
        BY <2>8, <4>1, <4>2
    <3> QED
      BY <1>0, <1>3, <2>1, <3>1, <3>2, <3>7, Short5
  <2> QED
    BY <1>3, <2>5, <2>6, <2>7, <2>8 DEF Sound5
<1> QED
  BY <1>1, <1>2, <1>3

----------------------------------------------------------------------------
LEMMA Octet4 ==
  ASSUME NEW p, NEW h, IsParser(p), Sound4(p, h), p.verdict = "more", p.state # "DONE",
         NEW o \in 0..Octets - 1, NEW g, Heard(h, g, o), Len(h) > 0
  PROVE  Outcome(SocksOctet(p, o), g)
<1>1. g[1] = 4 /\ Len(g) > 1
  <2>1. Len(h) \in Nat /\ Len(g) = Len(h) + 1 /\ g[1] = h[1]
    BY DEF Heard
  <2>2. h[1] = 4
    BY DEF Sound4
  <2> QED
    BY <2>1, <2>2
<1>2. p.state \in {"GET_COMMAND", "GET_PORT", "GET_IPV4", "GET4_IDENT", "GET4A_HOST"}
  BY DEF Sound4
<1> QED
  BY <1>1, <1>2, Command4, Port4, Address4, Ident4, Host4

LEMMA Octet5 ==
  ASSUME NEW p, NEW h, IsParser(p), Sound5(p, h), p.verdict = "more", p.state # "DONE",
         NEW o \in 0..Octets - 1, NEW g, Heard(h, g, o), Len(h) > 0, IsOctets(h), IsOctets(g)
  PROVE  Outcome(SocksOctet(p, o), g)
<1>1. g[1] = 5 /\ h[1] = 5
  <2>1. Len(h) \in Nat /\ Len(g) = Len(h) + 1 /\ g[1] = h[1]
    BY DEF Heard
  <2>2. h[1] = 5
    BY DEF Sound5
  <2> QED
    BY <2>1, <2>2
<1>2. CASE p.state = "GET5_AUTHNUM"
  BY <1>1, <1>2, Authnum5
<1>3. CASE p.state # "GET5_AUTHNUM"
  <2>1. Len(h) > 1
    BY <1>3 DEF Sound5
  <2>2. h[2] \in 0..Octets - 1
    <3>1. 2 \in 1..Len(h)
      BY <2>1 DEF IsOctets
    <3> QED
      BY <3>1 DEF IsOctets
  <2>3. CASE p.state \in {"GET5_AUTH", "GET5_REQUESTV", "GET_COMMAND", "GET5_GETRSV", "GET5_GETADDRTYPE"}
    BY <1>1, <2>1, <2>2, <2>3, Auth5, Requestv5, Command5, Reserved5, AddrType5
  <2>4. CASE p.state \in {"GET_IPV4", "GET5_IPV6", "GET5_HOST_SIZE", "GET5_HOST", "GET_PORT"}
    BY <1>1, <2>1, <2>2, <2>4, IPv4Address5, IPv6Address5, HostSize5, Host5, Port5
  <2> QED
    BY <1>3, <2>3, <2>4 DEF Sound5
<1> QED
  BY <1>2, <1>3

LEMMA Version ==
  ASSUME NEW p, IsParser(p), p.verdict = "more", p.state = "GET_SOCKSV", p.auth = FALSE,
         NEW o \in 0..Octets - 1, NEW g, Len(g) = 1, g[1] = o
  PROVE  Outcome(SocksOctet(p, o), g)
<1>1. SocksOctet(p, o) =
        CASE o = 4 -> EnterState([p EXCEPT !.v = 4], "GET_COMMAND", 1)
          [] o = 5 -> EnterState([p EXCEPT !.v = 5], "GET5_AUTHNUM", 1)
          [] OTHER -> [p EXCEPT !.verdict = "terminate"]
  BY Zenon DEF SocksOctet
<1>2. 4 # 5
  OBVIOUS
<1>3. CASE o = 4
  <2>1. PICK q : q = [p EXCEPT !.v = 4]
    OBVIOUS
  <2>2. IsParser(q) /\ q.v = 4 /\ q.verdict = "more"
    BY <2>1 DEF IsParser
  <2>3. PICK r : r = EnterState(q, "GET_COMMAND", 1)
    OBVIOUS
  <2>4. IsParser(r) /\ r.state = "GET_COMMAND" /\ r.v = 4 /\ r.verdict = "more"
    BY <2>2, <2>3, EnterFacts, SizeFacts
  <2>5. Sound4(r, g)
    BY <1>3, <2>4 DEF Sound4
  <2>6. SocksOctet(p, o) = r
    BY <1>1, <1>2, <1>3, <2>1, <2>3, Zenon
  <2> QED
    <3>1. Len(g) \in Nat /\ Len(g) > 0
      OBVIOUS
    <3> QED
      BY <2>4, <2>5, <2>6, <3>1, Outcome4
<1>4. CASE o = 5
  <2>1. PICK q : q = [p EXCEPT !.v = 5]
    OBVIOUS
  <2>2. IsParser(q) /\ q.v = 5 /\ q.verdict = "more" /\ q.auth = FALSE
    BY <2>1 DEF IsParser
  <2>3. PICK r : r = EnterState(q, "GET5_AUTHNUM", 1)
    OBVIOUS
  <2>4. IsParser(r) /\ r.state = "GET5_AUTHNUM" /\ r.v = 5 /\ r.verdict = "more" /\ r.auth = FALSE
    BY <2>2, <2>3, EnterFacts, SizeFacts
  <2>5. Sound5(r, g)
    BY <1>4, <2>4 DEF Sound5
  <2>6. SocksOctet(p, o) = r
    BY <1>1, <1>2, <1>4, <2>1, <2>3, Zenon
  <2> QED
    <3>1. Len(g) \in Nat /\ Len(g) > 0
      OBVIOUS
    <3> QED
      BY <2>4, <2>5, <2>6, <3>1, Outcome5
<1>5. CASE o \notin {4, 5}
  <2>1. PICK r : r = [p EXCEPT !.verdict = "terminate"]
    OBVIOUS
  <2>2. SocksOctet(p, o) = r
    BY <1>1, <1>5, <2>1, Zenon
  <2>3. r.verdict = "terminate" /\ r.state = "GET_SOCKSV"
    BY <2>1 DEF IsParser
  <2>4. NoSocksRequest(g)
    BY <1>5 DEF NoSocksRequest, Socks4Request, CountedRequest
  <2> QED
    BY <2>2, <2>3, <2>4 DEF Outcome
<1> QED
  BY <1>3, <1>4, <1>5

LEMMA SeqMembers ==
  ASSUME NEW S, NEW h \in Seq(S)
  PROVE  Len(h) \in Nat /\ \A j \in 1..Len(h) : h[j] \in S
OBVIOUS

LEMMA AllOctets ==
  ASSUME NEW h \in Seq(0..Octets - 1)
  PROVE  IsOctets(h)
<1>1. PICK S : S = 0..Octets - 1
  OBVIOUS
<1>2. h \in Seq(S)
  BY <1>1
<1>3. Len(h) \in Nat /\ \A j \in 1..Len(h) : h[j] \in S
  BY <1>2, SeqMembers
<1> QED
  BY <1>1, <1>3 DEF IsOctets

LEMMA OctetFacts ==
  ASSUME NEW h \in Seq(0..Octets - 1), NEW o \in 0..Octets - 1
  PROVE  /\ Append(h, o) \in Seq(0..Octets - 1) /\ Heard(h, Append(h, o), o)
         /\ IsOctets(h) /\ IsOctets(Append(h, o))
<1>1. PICK S : S = 0..Octets - 1
  OBVIOUS
<1>2. S \subseteq Nat
  BY <1>1, SizeFacts
<1>3. h \in Seq(S) /\ o \in S
  BY <1>1
<1>4. Append(h, o) \in Seq(S) /\ Heard(h, Append(h, o), o)
  BY <1>2, <1>3, HeardFacts
<1>5. Append(h, o) \in Seq(0..Octets - 1)
  BY <1>1, <1>4
<1> QED
  BY <1>4, <1>5, AllOctets

LEMMA SocksStep ==
  ASSUME NEW p, NEW h \in Seq(0..Octets - 1), SocksState(p, h), p.verdict = "more", p.state # "DONE",
         NEW o \in 0..Octets - 1
  PROVE  Outcome(SocksOctet(p, o), Append(h, o))
<1>1. PICK g : g = Append(h, o)
  OBVIOUS
<1>2. Heard(h, g, o) /\ IsOctets(h) /\ IsOctets(g)
  BY <1>1, OctetFacts
<1>3. IsParser(p)
  BY DEF SocksState
<1>4. CASE p.state = "GET_SOCKSV" /\ Len(h) = 0 /\ p.auth = FALSE
  <2>1. Len(g) = 1 /\ g[1] = o
    BY <1>2, <1>4 DEF Heard
  <2> QED
    BY <1>1, <1>3, <1>4, <2>1, Version
<1>5. CASE Len(h) > 0 /\ Sound4(p, h)
  BY <1>1, <1>2, <1>3, <1>5, Octet4
<1>6. CASE Len(h) > 0 /\ Sound5(p, h)
  BY <1>1, <1>2, <1>3, <1>6, Octet5
<1> QED
  BY <1>4, <1>5, <1>6 DEF SocksState

(* A SOCKS parser acts when it has heard a request.                         *)
LEMMA SocksExact ==
  ASSUME NEW p, NEW h \in Seq(0..Octets - 1), Outcome(p, h)
  PROVE  p.state = "DONE" <=> Socks4Request(h) \/ CountedRequest(h)
<1>1. IsOctets(h)
  BY AllOctets
<1>2. CASE p.verdict # "more" /\ p.state # "DONE" /\ NoSocksRequest(h)
  BY <1>2 DEF NoSocksRequest
<1>3. CASE SocksState(p, h)
  <2>1. CASE p.state = "GET_SOCKSV" /\ Len(h) = 0
    <3>1. ~CountedRequest(h)
      BY <2>1 DEF CountedRequest
    <3>2. ~Socks4Request(h)
      <4>1. Socks4Request(h) => Len(h) > Fixed4
        BY Zenon DEF Socks4Request, Fixed4
      <4>2. ~(Len(h) > Fixed4)
        BY <2>1, SizeFacts DEF Fixed4
      <4> QED
        BY <4>1, <4>2
    <3> QED
      BY <2>1, <3>1, <3>2
  <2>2. CASE Sound4(p, h)
    BY <1>1, <2>2, NotYet4 DEF IsOctets
  <2>3. CASE Len(h) > 0 /\ Sound5(p, h)
    BY <1>1, <1>3, <2>3, NotYet5 DEF SocksState
  <2> QED
    BY <1>3, <2>1, <2>2, <2>3 DEF SocksState
<1> QED
  BY <1>2, <1>3 DEF Outcome

(* Every octet leaves a parser a parser, and what it heard before alone.    *)
LEMMA SocksKeeps ==
  ASSUME NEW p, IsParser(p), NEW o \in 0..Octets - 1
  PROVE  IsParser(SocksOctet(p, o)) /\ SocksOctet(p, o).heard = p.heard
<1> DEFINE Kept(r) == IsParser(r) /\ r.heard = p.heard
<1>0. 1 \in 0..Octets - 1
  BY SizeFacts
<1>1. Kept(p)
  OBVIOUS
<1>2. ASSUME NEW q, Kept(q)
      PROVE  /\ \A s : \A l \in 0..Octets - 1 : Kept(EnterState(q, s, l))
             /\ \A s : Kept(Counted(q, s))
             /\ Kept(Refused(q))
             /\ Kept(Authenticated(q))
             /\ \A x : /\ Kept([q EXCEPT !.v = x]) /\ Kept([q EXCEPT !.cmd = x])
                       /\ Kept([q EXCEPT !.host = x]) /\ Kept([q EXCEPT !.verdict = x])
             /\ \A x \in BOOLEAN : Kept([q EXCEPT !.auth = x])
             /\ \A x \in Nat : Kept([q EXCEPT !.ip = x])
  <2>1. \A s : \A l \in 0..Octets - 1 : Kept(EnterState(q, s, l))
    BY <1>2, EnterFacts
  <2>2. \A s : Kept(Counted(q, s))
    BY <1>2, CountedFacts
  <2>3. Kept(Refused(q))
    BY <1>2 DEF Refused, IsParser
  <2>a. \A x : Kept([q EXCEPT !.chosen = x])
    BY <1>2 DEF IsParser
  <2>4. Kept([q EXCEPT !.chosen = TRUE])
    BY <2>a
  <2>5. Kept(Authenticated(q))
    BY <1>2, <2>3, <2>4 DEF Authenticated
  <2>6. \A x : /\ Kept([q EXCEPT !.v = x]) /\ Kept([q EXCEPT !.cmd = x])
               /\ Kept([q EXCEPT !.host = x]) /\ Kept([q EXCEPT !.verdict = x])
    BY <1>2 DEF IsParser
  <2>7. \A x \in BOOLEAN : Kept([q EXCEPT !.auth = x])
    BY <1>2 DEF IsParser
  <2>8. \A x \in Nat : Kept([q EXCEPT !.ip = x])
    BY <1>2 DEF IsParser
  <2> HIDE DEF Kept
  <2> QED
    BY <2>1, <2>2, <2>3, <2>5, <2>6, <2>7, <2>8
<1>3. (p.auth \/ o = 0) \in BOOLEAN /\ p.ip * Octets + o \in Nat
  <2>1. p.ip \in Nat /\ Octets \in Nat /\ o \in Nat /\ p.auth \in BOOLEAN
    BY SizeFacts DEF IsParser
  <2>2. PICK i \in Nat, w \in Nat, k \in Nat : i = p.ip /\ w = Octets /\ k = o
    BY <2>1
  <2>3. i * w + k \in Nat
    OBVIOUS
  <2> QED
    BY <2>1, <2>2, <2>3
<1> HIDE DEF Kept
<1> DEFINE ip == [p EXCEPT !.ip = @ * Octets + o]
           auth == [p EXCEPT !.auth = @ \/ o = 0]
<1>4. Kept(ip) /\ Kept(auth) /\ Kept([p EXCEPT !.host = @ + 1]) /\ Kept([p EXCEPT !.cmd = o])
      /\ Kept([p EXCEPT !.v = 4]) /\ Kept([p EXCEPT !.v = 5]) /\ Kept([p EXCEPT !.verdict = "terminate"])
  BY <1>1, <1>2, <1>3, Zenon
<1>5. Kept(SocksOctet(p, o))
  <2>1. CASE p.state = "GET_SOCKSV"
    <3>1. SocksOctet(p, o) \in {EnterState([p EXCEPT !.v = 4], "GET_COMMAND", 1),
                          EnterState([p EXCEPT !.v = 5], "GET5_AUTHNUM", 1), [p EXCEPT !.verdict = "terminate"]}
      BY <2>1, Zenon DEF SocksOctet
    <3> QED
      BY <1>0, <1>1, <1>2, <1>4, <3>1
  <2>2. CASE p.state = "GET5_AUTHNUM"
    <3>1. SocksOctet(p, o) \in {EnterState(p, "GET5_AUTH", o)}
      BY <2>2, Zenon DEF SocksOctet
    <3> QED
      BY <1>0, <1>1, <1>2, <1>4, <3>1
  <2>3. CASE p.state = "GET5_AUTH"
    <3>1. SocksOctet(p, o) \in {Authenticated(Counted(auth, "GET5_REQUESTV"))}
      BY <2>3, Zenon DEF SocksOctet
    <3> QED
      BY <1>0, <1>1, <1>2, <1>4, <3>1
  <2>4. CASE p.state = "GET5_REQUESTV"
    <3>1. SocksOctet(p, o) \in {EnterState(p, "GET_COMMAND", 1), Refused(p)}
      BY <2>4, Zenon DEF SocksOctet
    <3> QED
      BY <1>0, <1>1, <1>2, <1>4, <3>1
  <2>5. CASE p.state = "GET_COMMAND"
    <3>1. SocksOctet(p, o) \in {EnterState([p EXCEPT !.cmd = o], "GET5_GETRSV", 1),
                          EnterState([p EXCEPT !.cmd = o], "GET_PORT", 1), Refused(p)}
      BY <2>5, Zenon DEF SocksOctet
    <3> QED
      BY <1>0, <1>1, <1>2, <1>4, <3>1
  <2>6. CASE p.state = "GET5_GETRSV"
    <3>1. SocksOctet(p, o) \in {EnterState(p, "GET5_GETADDRTYPE", 1), Refused(p)}
      BY <2>6, Zenon DEF SocksOctet
    <3> QED
      BY <1>0, <1>1, <1>2, <1>4, <3>1
  <2>7. CASE p.state = "GET5_GETADDRTYPE"
    <3>1. SocksOctet(p, o) \in {EnterState(p, "GET_IPV4", 1), EnterState(p, "GET5_IPV6", 1),
                          EnterState(p, "GET5_HOST_SIZE", 1), Refused(p)}
      BY <2>7, Zenon DEF SocksOctet
    <3> QED
      BY <1>0, <1>1, <1>2, <1>4, <3>1
  <2>8. CASE p.state = "GET_IPV4"
    <3>1. SocksOctet(p, o) \in {Counted(ip, "GET_PORT"), Counted(ip, "GET4_IDENT")}
      BY <2>8, Zenon DEF SocksOctet
    <3> QED
      BY <1>0, <1>1, <1>2, <1>4, <3>1
  <2>9. CASE p.state = "GET5_IPV6"
    <3>1. SocksOctet(p, o) \in {Counted(p, "GET_PORT")}
      BY <2>9, Zenon DEF SocksOctet
    <3> QED
      BY <1>0, <1>1, <1>2, <1>4, <3>1
  <2>10. CASE p.state = "GET5_HOST_SIZE"
    <3>1. SocksOctet(p, o) \in {EnterState(p, "GET5_HOST", o)}
      BY <2>10, Zenon DEF SocksOctet
    <3> QED
      BY <1>0, <1>1, <1>2, <1>4, <3>1
  <2>11. CASE p.state = "GET5_HOST"
    <3>1. SocksOctet(p, o) \in {Counted([p EXCEPT !.host = @ + 1], "GET_PORT")}
      BY <2>11, Zenon DEF SocksOctet
    <3> QED
      BY <1>0, <1>1, <1>2, <1>4, <3>1
  <2>12. CASE p.state = "GET_PORT"
    <3>1. SocksOctet(p, o) \in {Counted(p, "DONE"), Counted(p, "GET_IPV4")}
      BY <2>12, Zenon DEF SocksOctet
    <3> QED
      BY <1>0, <1>1, <1>2, <1>4, <3>1
  <2>13. CASE p.state = "GET4_IDENT"
    <3>1. SocksOctet(p, o) \in {p, EnterState(p, "GET4A_HOST", 1), EnterState(p, "DONE", 1)}
      BY <2>13, Zenon DEF SocksOctet
    <3> QED
      BY <1>0, <1>1, <1>2, <1>4, <3>1
  <2>14. CASE p.state \notin {"GET_SOCKSV", "GET5_AUTHNUM", "GET5_AUTH", "GET5_REQUESTV", "GET_COMMAND", "GET5_GETRSV", "GET5_GETADDRTYPE", "GET_IPV4", "GET5_IPV6", "GET5_HOST_SIZE", "GET5_HOST", "GET_PORT", "GET4_IDENT"}
    <3>1. SocksOctet(p, o) \in {EnterState(p, "DONE", 1), Refused(p), [p EXCEPT !.host = @ + 1]}
      BY <2>14, Zenon DEF SocksOctet
    <3> QED
      BY <1>0, <1>1, <1>2, <1>4, <3>1
  <2> QED
    BY <2>1, <2>2, <2>3, <2>4, <2>5, <2>6, <2>7, <2>8, <2>9, <2>10, <2>11, <2>12, <2>13, <2>14
<1> QED
  BY <1>5 DEF Kept

----------------------------------------------------------------------------
(* The HTTP parser.  The two spaces of the request line are at i and j.     *)
OneSpace(h, i) == i \in 1..Len(h) /\ \A l \in 1..Len(h) : h[l] = SP <=> l = i
TwoSpaces(h, i, j) ==
  i \in 1..Len(h) /\ j \in 1..Len(h) /\ i < j /\ \A l \in 1..j : h[l] = SP <=> l \in {i, j}

HTTPState(p, h) ==
  /\ IsParser(p)
  /\ \/ p.state = "GET_METHOD" /\ \A l \in 1..Len(h) : h[l] # SP
     \/ p.state = "GET_HOSTNAME" /\ \E i \in Nat : OneSpace(h, i)
     \/ p.state = "GET_HTTPV" /\ \E i, j \in Nat : TwoSpaces(h, i, j) /\ \A l \in j + 1..Len(h) : h[l] # CR
     \/ /\ p.state = "GET_HTTPVNL"
        /\ \E i, j \in Nat :
             TwoSpaces(h, i, j) /\ j < Len(h) /\ \A l \in j + 1..Len(h) : h[l] = CR <=> l = Len(h)
     \/ p.state = "DONE" /\ HTTPRequest(h)

HTTPOutcome(r, g) ==
  \/ r.verdict = "more" /\ HTTPState(r, g)
  \/ r.verdict # "more" /\ r.state # "DONE" /\ ~HTTPRequest(g)

LEMMA RequestSpaces ==
  ASSUME NEW h, Len(h) \in Nat, HTTPRequest(h)
  PROVE  \E i, j, k \in Nat :
           /\ TwoSpaces(h, i, j) /\ j < k /\ k = Len(h) - 1 /\ h[Len(h)] = LF
           /\ \A l \in j + 1..k : h[l] = CR <=> l = k
<1>1. PICK i \in 1..Len(h), j \in 1..Len(h), k \in 1..Len(h) :
        /\ i < j /\ j < k /\ k = Len(h) - 1
        /\ \A l \in 1..j : h[l] = SP <=> l \in {i, j}
        /\ \A l \in j + 1..k : h[l] = CR <=> l = k
        /\ h[k + 1] = LF
  BY DEF HTTPRequest
<1>2. TwoSpaces(h, i, j)
  BY <1>1 DEF TwoSpaces
<1>3. k + 1 = Len(h) /\ i \in Nat /\ j \in Nat /\ k \in Nat
  BY <1>1
<1> QED
  BY <1>1, <1>2, <1>3

LEMMA SpacesRequest ==
  ASSUME NEW h, Len(h) \in Nat, NEW i \in Nat, NEW j \in Nat, NEW k \in Nat,
         TwoSpaces(h, i, j), j < k, k = Len(h) - 1, h[Len(h)] = LF,
         \A l \in j + 1..k : h[l] = CR <=> l = k
  PROVE  HTTPRequest(h)
<1>1. k \in 1..Len(h) /\ k + 1 = Len(h)
  OBVIOUS
<1>2. /\ i \in 1..Len(h) /\ j \in 1..Len(h) /\ i < j
      /\ \A l \in 1..j : h[l] = SP <=> l \in {i, j}
  BY DEF TwoSpaces
<1>3. h[k + 1] = LF
  BY <1>1
<1> QED
  BY <1>1, <1>2, <1>3, Zenon DEF HTTPRequest

(* There is one second space.                                               *)
LEMMA SecondSpaceOnce ==
  ASSUME NEW h, Len(h) \in Nat, NEW i \in Nat, NEW j \in Nat, NEW a \in Nat, NEW b \in Nat,
         TwoSpaces(h, i, j), TwoSpaces(h, a, b)
  PROVE  ~(j < b)
<1> SUFFICES ASSUME j < b
             PROVE  FALSE
  OBVIOUS
<1>1. i < j /\ i \in 1..j /\ j \in 1..j /\ h[i] = SP /\ h[j] = SP
  BY DEF TwoSpaces
<1>2. i \in 1..b /\ j \in 1..b
  BY <1>1
<1>3. i \in {a, b} /\ j \in {a, b}
  BY <1>1, <1>2 DEF TwoSpaces
<1> QED
  BY <1>1, <1>3

LEMMA HTTPExact ==
  ASSUME NEW p, NEW h, Len(h) \in Nat, HTTPOutcome(p, h)
  PROVE  p.state = "DONE" <=> HTTPRequest(h)
<1>1. CASE p.verdict # "more" /\ p.state # "DONE" /\ ~HTTPRequest(h)
  BY <1>1
<1>2. CASE HTTPState(p, h)
  <2>1. CASE p.state = "DONE" /\ HTTPRequest(h)
    BY <2>1
  <2>2. ASSUME HTTPRequest(h), p.state # "DONE"
        PROVE  FALSE
    <3>1. PICK i \in Nat, j \in Nat, k \in Nat :
            /\ TwoSpaces(h, i, j) /\ j < k /\ k = Len(h) - 1
            /\ \A l \in j + 1..k : h[l] = CR <=> l = k
      BY <2>2, RequestSpaces
    <3>2. i \in 1..Len(h) /\ j \in 1..Len(h) /\ i < j /\ h[i] = SP /\ h[j] = SP
      <4>1. i \in 1..Len(h) /\ j \in 1..Len(h) /\ i < j
        BY <3>1 DEF TwoSpaces
      <4>2. i \in 1..j /\ j \in 1..j
        BY <4>1
      <4> QED
        BY <3>1, <4>1, <4>2 DEF TwoSpaces
    <3>3. CASE \A l \in 1..Len(h) : h[l] # SP
      BY <3>2, <3>3
    <3>4. CASE \E a \in Nat : OneSpace(h, a)
      BY <3>2, <3>4 DEF OneSpace
    <3>5. CASE \E a, b \in Nat : TwoSpaces(h, a, b) /\ \A l \in b + 1..Len(h) : h[l] # CR
      <4>1. PICK a \in Nat, b \in Nat : TwoSpaces(h, a, b) /\ \A l \in b + 1..Len(h) : h[l] # CR
        BY <3>5
      <4>2. j = b
        <5>1. ~(j < b) /\ ~(b < j)
          BY <3>1, <4>1, SecondSpaceOnce
        <5> QED
          BY <5>1
      <4>3. k \in j + 1..k /\ k \in b + 1..Len(h)
        BY <3>1, <4>2
      <4> QED
        BY <3>1, <4>1, <4>3
    <3>6. CASE \E a, b \in Nat :
                 TwoSpaces(h, a, b) /\ b < Len(h) /\ \A l \in b + 1..Len(h) : h[l] = CR <=> l = Len(h)
      <4>1. PICK a \in Nat, b \in Nat :
              TwoSpaces(h, a, b) /\ \A l \in b + 1..Len(h) : h[l] = CR <=> l = Len(h)
        BY <3>6
      <4>2. j = b
        <5>1. ~(j < b) /\ ~(b < j)
          BY <3>1, <4>1, SecondSpaceOnce
        <5> QED
          BY <5>1
      <4>3. k \in j + 1..k /\ k \in b + 1..Len(h) /\ k # Len(h)
        BY <3>1, <4>2
      <4> QED
        BY <3>1, <4>1, <4>3
    <3> QED
      BY <1>2, <2>2, <3>3, <3>4, <3>5, <3>6 DEF HTTPState
  <2> QED
    BY <1>2, <2>1, <2>2 DEF HTTPState
<1> QED
  BY <1>1, <1>2 DEF HTTPOutcome

LEMMA StateFacts ==
  ASSUME NEW p, IsParser(p), NEW s
  PROVE  LET r == [p EXCEPT !.state = s]
         IN IsParser(r) /\ r.state = s /\ r.verdict = p.verdict /\ r.heard = p.heard
BY DEF IsParser

LEMMA HTTPStep ==
  ASSUME NEW p, NEW h, HTTPState(p, h), p.verdict = "more", p.state # "DONE",
         NEW o \in Nat, NEW g, Heard(h, g, o)
  PROVE  HTTPOutcome(HTTPOctet(p, o), g)
<1>0. /\ Len(h) \in Nat /\ Len(g) = Len(h) + 1 /\ g[Len(h) + 1] = o /\ g[Len(g)] = o
      /\ \A l \in 1..Len(h) : g[l] = h[l]
  BY DEF Heard
<1>a. IsParser(p)
  BY DEF HTTPState
<1>1. CASE p.state = "GET_METHOD" /\ \A l \in 1..Len(h) : h[l] # SP
  <2>1. HTTPOctet(p, o) = IF o = SP THEN [p EXCEPT !.state = "GET_HOSTNAME"] ELSE p
    BY <1>1, Zenon DEF HTTPOctet
  <2>2. CASE o = SP
    <3>1. OneSpace(g, Len(g)) /\ Len(g) \in Nat
      <4>1. \A l \in 1..Len(g) : l = Len(g) \/ l \in 1..Len(h)
        BY <1>0
      <4> QED
        BY <1>0, <1>1, <2>2, <4>1 DEF OneSpace
    <3>2. PICK r : r = [p EXCEPT !.state = "GET_HOSTNAME"]
      OBVIOUS
    <3>3. IsParser(r) /\ r.state = "GET_HOSTNAME" /\ r.verdict = "more"
      BY <1>a, <3>2, StateFacts
    <3> QED
      BY <2>1, <2>2, <3>1, <3>2, <3>3 DEF HTTPOutcome, HTTPState
  <2>3. CASE o # SP
    <3>1. \A l \in 1..Len(g) : g[l] # SP
      <4>1. \A l \in 1..Len(g) : l = Len(h) + 1 \/ l \in 1..Len(h)
        BY <1>0
      <4> QED
        BY <1>0, <1>1, <2>3, <4>1
    <3> QED
      BY <1>1, <1>a, <2>1, <2>3, <3>1 DEF HTTPOutcome, HTTPState
  <2> QED
    BY <2>2, <2>3
<1>2. CASE p.state = "GET_HOSTNAME" /\ \E i \in Nat : OneSpace(h, i)
  <2>0. PICK i \in Nat : OneSpace(h, i)
    BY <1>2
  <2>1. HTTPOctet(p, o) = IF o = SP THEN [p EXCEPT !.state = "GET_HTTPV"] ELSE p
    BY <1>2, Zenon DEF HTTPOctet
  <2>a. \A l \in 1..Len(g) : l = Len(g) \/ l \in 1..Len(h)
    BY <1>0
  <2>2. CASE o = SP
    <3>1. TwoSpaces(g, i, Len(g)) /\ Len(g) \in Nat
      BY <1>0, <2>0, <2>2, <2>a DEF OneSpace, TwoSpaces
    <3>b. \A l \in Len(g) + 1..Len(g) : g[l] # CR
      BY <3>1
    <3>2. PICK r : r = [p EXCEPT !.state = "GET_HTTPV"]
      OBVIOUS
    <3>3. IsParser(r) /\ r.state = "GET_HTTPV" /\ r.verdict = "more"
      BY <1>a, <3>2, StateFacts
    <3>4. \E a, b \in Nat : TwoSpaces(g, a, b) /\ \A l \in b + 1..Len(g) : g[l] # CR
      BY <2>0, <3>1, <3>b
    <3> QED
      BY <2>1, <2>2, <3>2, <3>3, <3>4 DEF HTTPOutcome, HTTPState
  <2>3. CASE o # SP
    <3>1. OneSpace(g, i)
      BY <1>0, <2>0, <2>3, <2>a DEF OneSpace
    <3> QED
      BY <1>2, <1>a, <2>0, <2>1, <2>3, <3>1 DEF HTTPOutcome, HTTPState
  <2> QED
    BY <2>2, <2>3
<1>b. ASSUME NEW i \in Nat, NEW j \in Nat, TwoSpaces(h, i, j)
      PROVE  TwoSpaces(g, i, j) /\ j <= Len(h)
  <2>1. /\ i \in 1..Len(h) /\ j \in 1..Len(h) /\ i < j /\ \A l \in 1..j : h[l] = SP <=> l \in {i, j}
    BY <1>b DEF TwoSpaces
  <2>2. \A l \in 1..j : g[l] = h[l]
    BY <1>0, <2>1
  <2>3. i \in 1..Len(g) /\ j \in 1..Len(g) /\ j <= Len(h)
    BY <1>0, <2>1
  <2> QED
    BY <2>1, <2>2, <2>3 DEF TwoSpaces
<1>3. CASE /\ p.state = "GET_HTTPV"
           /\ \E i, j \in Nat : TwoSpaces(h, i, j) /\ \A l \in j + 1..Len(h) : h[l] # CR
  <2>0. PICK i \in Nat, j \in Nat : TwoSpaces(h, i, j) /\ \A l \in j + 1..Len(h) : h[l] # CR
    BY <1>3
  <2>1. HTTPOctet(p, o) = IF o = CR THEN [p EXCEPT !.state = "GET_HTTPVNL"] ELSE p
    BY <1>3, Zenon DEF HTTPOctet
  <2>a. TwoSpaces(g, i, j) /\ j <= Len(h)
    BY <1>b, <2>0
  <2>b. \A l \in j + 1..Len(g) : l = Len(g) \/ (l # Len(g) /\ l \in j + 1..Len(h) /\ l \in 1..Len(h))
    BY <1>0
  <2>2. CASE o = CR
    <3>1. \A l \in j + 1..Len(g) : g[l] = CR <=> l = Len(g)
      BY <1>0, <2>0, <2>2, <2>b
    <3>2. PICK r : r = [p EXCEPT !.state = "GET_HTTPVNL"]
      OBVIOUS
    <3>3. IsParser(r) /\ r.state = "GET_HTTPVNL" /\ r.verdict = "more"
      BY <1>a, <3>2, StateFacts
    <3>4. j < Len(g)
      BY <1>0, <2>a
    <3> QED
      BY <2>1, <2>2, <2>a, <3>1, <3>2, <3>3, <3>4 DEF HTTPOutcome, HTTPState
  <2>3. CASE o # CR
    <3>1. \A l \in j + 1..Len(g) : g[l] # CR
      BY <1>0, <2>0, <2>3, <2>b
    <3> QED
      BY <1>3, <1>a, <2>1, <2>3, <2>a, <3>1 DEF HTTPOutcome, HTTPState
  <2> QED
    BY <2>2, <2>3
<1>4. CASE /\ p.state = "GET_HTTPVNL"
           /\ \E i, j \in Nat :
                TwoSpaces(h, i, j) /\ j < Len(h) /\ \A l \in j + 1..Len(h) : h[l] = CR <=> l = Len(h)
  <2>0. PICK i \in Nat, j \in Nat :
          TwoSpaces(h, i, j) /\ j < Len(h) /\ \A l \in j + 1..Len(h) : h[l] = CR <=> l = Len(h)
    BY <1>4
  <2>1. HTTPOctet(p, o) = IF o = LF THEN [p EXCEPT !.state = "DONE"] ELSE Refused(p)
    BY <1>4, Zenon DEF HTTPOctet
  <2>2. CASE o = LF
    <3>1. TwoSpaces(g, i, j) /\ Len(h) = Len(g) - 1 /\ Len(g) \in Nat
      BY <1>0, <1>b, <2>0
    <3>2. \A l \in j + 1..Len(h) : g[l] = CR <=> l = Len(h)
      BY <1>0, <2>0
    <3>3. HTTPRequest(g)
      BY <1>0, <2>0, <2>2, <3>1, <3>2, SpacesRequest
    <3>4. PICK r : r = [p EXCEPT !.state = "DONE"]
      OBVIOUS
    <3>5. IsParser(r) /\ r.state = "DONE" /\ r.verdict = "more"
      BY <1>a, <3>4, StateFacts
    <3> QED
      BY <2>1, <2>2, <3>3, <3>4, <3>5 DEF HTTPOutcome, HTTPState
  <2>3. CASE o # LF
    <3>1. ~HTTPRequest(g)
      BY <1>0, <2>3, RequestSpaces
    <3>2. Refused(p).verdict = "fail" /\ Refused(p).state = p.state
      BY <1>a, RefusedFacts
    <3> QED
      BY <2>1, <2>3, <3>1, <3>2 DEF HTTPOutcome
  <2> QED
    BY <2>2, <2>3
<1> QED
  BY <1>1, <1>2, <1>3, <1>4 DEF HTTPState

LEMMA HTTPKeeps ==
  ASSUME NEW p, IsParser(p), NEW o
  PROVE  IsParser(HTTPOctet(p, o)) /\ HTTPOctet(p, o).heard = p.heard
<1>1. HTTPOctet(p, o) \in {p, Refused(p)} \cup {[p EXCEPT !.state = s] : s \in {"GET_HOSTNAME", "GET_HTTPV", "GET_HTTPVNL", "DONE"}}
  BY Zenon DEF HTTPOctet
<1>2. IsParser(Refused(p)) /\ Refused(p).heard = p.heard
  BY DEF Refused, IsParser
<1>3. \A s : IsParser([p EXCEPT !.state = s]) /\ [p EXCEPT !.state = s].heard = p.heard
  BY StateFacts
<1> QED
  BY <1>1, <1>2, <1>3

----------------------------------------------------------------------------
(* A piece of what the client sends.                                        *)
ParserSound(q) ==
  /\ IsParser(q)
  /\ \/ proxy = "socks" /\ q.heard \in Seq(0..Octets - 1) /\ Outcome(q, q.heard)
     \/ proxy = "http" /\ q.heard \in Seq(Nat) /\ HTTPOutcome(q, q.heard)

SameParser(p, r) ==
  /\ r.state = p.state /\ r.left = p.left /\ r.v = p.v /\ r.ip = p.ip /\ r.auth = p.auth /\ r.verdict = p.verdict

LEMMA SameOutcome ==
  ASSUME NEW p, NEW r, SameParser(p, r), IsParser(r), NEW h, Outcome(p, h)
  PROVE  Outcome(r, h)
<1>1. Sound4(p, h) => Sound4(r, h)
  BY DEF SameParser, Sound4
<1>2. Sound5(p, h) => Sound5(r, h)
  BY DEF SameParser, Sound5
<1> QED
  BY <1>1, <1>2 DEF Outcome, SocksState, SameParser

LEMMA SameHTTPOutcome ==
  ASSUME NEW p, NEW r, SameParser(p, r), IsParser(r), NEW h, HTTPOutcome(p, h)
  PROVE  HTTPOutcome(r, h)
BY DEF HTTPOutcome, HTTPState, SameParser

LEMMA HeardSet ==
  ASSUME NEW p, IsParser(p), NEW h
  PROVE  LET r == [p EXCEPT !.heard = h] IN IsParser(r) /\ SameParser(p, r) /\ r.heard = h
BY DEF IsParser, SameParser

LEMMA RestSet ==
  ASSUME NEW p, IsParser(p), NEW n
  PROVE  LET r == [p EXCEPT !.rest = n] IN IsParser(r) /\ SameParser(p, r) /\ r.heard = p.heard
BY DEF IsParser, SameParser

LEMMA HandleOctetSound ==
  ASSUME NEW q, ParserSound(q), NEW o \in Nat, proxy = "socks" => o \in 0..Octets - 1
  PROVE  ParserSound(HandleOctet(q, o))
<1>0. IsParser(q)
  BY DEF ParserSound
<1>1. CASE q.verdict # "more" \/ q.state = "DONE"
  <2>1. PICK n : n = q.rest + 1
    OBVIOUS
  <2>2. PICK r : r = [q EXCEPT !.rest = n]
    OBVIOUS
  <2>3. HandleOctet(q, o) = r
    BY <1>1, <2>1, <2>2, Zenon DEF HandleOctet
  <2>4. IsParser(r) /\ SameParser(q, r) /\ r.heard = q.heard
    BY <1>0, <2>2, RestSet
  <2>5. /\ Outcome(q, q.heard) => Outcome(r, q.heard)
        /\ HTTPOutcome(q, q.heard) => HTTPOutcome(r, q.heard)
    BY <2>4, SameOutcome, SameHTTPOutcome
  <2> QED
    BY <2>3, <2>4, <2>5 DEF ParserSound
<1>2. CASE q.verdict = "more" /\ q.state # "DONE" /\ proxy = "socks"
  <2>1. PICK p : p = SocksOctet(q, o)
    OBVIOUS
  <2>2. IsParser(p) /\ p.heard = q.heard
    BY <1>0, <1>2, <2>1, SocksKeeps
  <2>3. q.heard \in Seq(0..Octets - 1) /\ SocksState(q, q.heard) /\ o \in 0..Octets - 1
    BY <1>2 DEF ParserSound, Outcome
  <2>4. PICK g : g = Append(q.heard, o)
    OBVIOUS
  <2>5. Outcome(p, g) /\ g \in Seq(0..Octets - 1)
    BY <1>2, <2>1, <2>3, <2>4, SocksStep, OctetFacts
  <2>6. PICK r : r = [p EXCEPT !.heard = g]
    OBVIOUS
  <2>7. IsParser(r) /\ SameParser(p, r) /\ r.heard = g
    BY <2>2, <2>6, HeardSet
  <2>8. HandleOctet(q, o) = r
    <3>1. HandleOctet(q, o) = [p EXCEPT !.heard = Append(@, o)]
      BY <1>2, <2>1, Zenon DEF HandleOctet
    <3> QED
      BY <2>2, <2>4, <2>6, <3>1
  <2>9. Outcome(r, g)
    BY <2>5, <2>7, SameOutcome
  <2> QED
    BY <1>2, <2>5, <2>7, <2>8, <2>9 DEF ParserSound
<1>3. CASE q.verdict = "more" /\ q.state # "DONE" /\ proxy = "http"
  <2>1. PICK p : p = HTTPOctet(q, o)
    OBVIOUS
  <2>2. IsParser(p) /\ p.heard = q.heard
    BY <1>0, <2>1, HTTPKeeps
  <2>3. q.heard \in Seq(Nat) /\ HTTPState(q, q.heard)
    BY <1>3 DEF ParserSound, HTTPOutcome
  <2>4. PICK g : g = Append(q.heard, o)
    OBVIOUS
  <2>5. HTTPOutcome(p, g) /\ g \in Seq(Nat)
    <3>1. g \in Seq(Nat) /\ Heard(q.heard, g, o)
      BY <2>3, <2>4, HeardFacts
    <3> QED
      BY <1>3, <2>1, <2>3, <3>1, HTTPStep
  <2>6. PICK r : r = [p EXCEPT !.heard = g]
    OBVIOUS
  <2>7. IsParser(r) /\ SameParser(p, r) /\ r.heard = g
    BY <2>2, <2>6, HeardSet
  <2>8. HandleOctet(q, o) = r
    <3>1. HandleOctet(q, o) = [p EXCEPT !.heard = Append(@, o)]
      BY <1>3, <2>1, Zenon DEF HandleOctet
    <3> QED
      BY <2>2, <2>4, <2>6, <3>1
  <2>9. HTTPOutcome(r, g)
    BY <2>5, <2>7, SameHTTPOutcome
  <2> QED
    BY <1>3, <2>5, <2>7, <2>8, <2>9 DEF ParserSound
<1> QED
  BY <1>1, <1>2, <1>3 DEF ParserSound

(* The parsers of the first octets of a piece, one after the other.         *)
IsParsing(f, p, piece, n) ==
  f = [i \in 0..n |-> IF i = 0 THEN p ELSE HandleOctet(f[i - 1], piece[i])]

LEMMA ParsingExists ==
  ASSUME NEW p, NEW piece, NEW n \in Nat
  PROVE  \E f : IsParsing(f, p, piece, n)
<1> DEFINE S == {m \in Nat : \E f : IsParsing(f, p, piece, m)}
<1>1. 0 \in S
  <2>1. PICK f : f = [i \in 0..0 |-> p]
    OBVIOUS
  <2>2. IsParsing(f, p, piece, 0)
    BY <2>1 DEF IsParsing
  <2> QED
    BY <2>2
<1>2. \A m \in Nat : m \in S => m + 1 \in S
  <2> SUFFICES ASSUME NEW m \in Nat, m \in S
               PROVE  m + 1 \in S
    OBVIOUS
  <2>1. PICK f : IsParsing(f, p, piece, m)
    OBVIOUS
  <2>2. PICK g : g = [i \in 0..m + 1 |-> IF i = m + 1 THEN HandleOctet(f[m], piece[m + 1]) ELSE f[i]]
    OBVIOUS
  <2>3. ASSUME NEW i \in 0..m + 1
        PROVE  g[i] = IF i = 0 THEN p ELSE HandleOctet(g[i - 1], piece[i])
    <3>1. CASE i = m + 1
      BY <2>2, <3>1
    <3>2. CASE i # m + 1
      <4>1. i \in 0..m /\ g[i] = f[i] /\ (i # 0 => g[i - 1] = f[i - 1])
        BY <2>2, <3>2
      <4> QED
        BY <2>1, <4>1 DEF IsParsing
    <3> QED
      BY <3>1, <3>2
  <2>4. IsParsing(g, p, piece, m + 1)
    BY <2>2, <2>3 DEF IsParsing
  <2> QED
    BY <2>4
<1> HIDE DEF S
<1>3. n \in S
  BY <1>1, <1>2, NatSetInduction
<1> QED
  BY <1>3 DEF S

LEMMA HandleDataSound ==
  ASSUME NEW p, ParserSound(p), NEW n \in Nat, NEW piece, Len(piece) = n,
         \A i \in 1..n : piece[i] \in Nat /\ (proxy = "socks" => piece[i] \in 0..Octets - 1)
  PROVE  ParserSound(HandleData(p, piece))
<1>1. PICK f : IsParsing(f, p, piece, n) /\ HandleData(p, piece) = f[n]
  <2>1. \E f : f = [i \in 0..Len(piece) |-> IF i = 0 THEN p ELSE HandleOctet(f[i - 1], piece[i])]
    <3>1. PICK f : IsParsing(f, p, piece, n)
      BY ParsingExists
    <3>2. f = [i \in 0..n |-> IF i = 0 THEN p ELSE HandleOctet(f[i - 1], piece[i])]
      BY <3>1 DEF IsParsing
    <3> QED
      BY <3>2
  <2>2. \E f : f = [i \in 0..Len(piece) |-> IF i = 0 THEN p ELSE HandleOctet(f[i - 1], piece[i])]
               /\ HandleData(p, piece) = f[Len(piece)]
    BY <2>1 DEF HandleData
  <2> QED
    BY <2>2 DEF IsParsing
<1> DEFINE S == {m \in Nat : m <= n => ParserSound(f[m])}
<1>2. 0 \in S
  BY <1>1 DEF IsParsing
<1>3. \A m \in Nat : m \in S => m + 1 \in S
  <2> SUFFICES ASSUME NEW m \in Nat, m \in S, m + 1 <= n
               PROVE  ParserSound(f[m + 1])
    OBVIOUS
  <2>1. ParserSound(f[m])
    OBVIOUS
  <2>2. f[m + 1] = HandleOctet(f[m], piece[m + 1])
    <3>1. m + 1 \in 0..n /\ m + 1 # 0 /\ (m + 1) - 1 = m
      OBVIOUS
    <3> QED
      BY <1>1, <3>1 DEF IsParsing
  <2>3. piece[m + 1] \in Nat /\ (proxy = "socks" => piece[m + 1] \in 0..Octets - 1)
    <3>1. m + 1 \in 1..n
      OBVIOUS
    <3> QED
      BY <3>1
  <2> QED
    BY <2>1, <2>2, <2>3, HandleOctetSound
<1> HIDE DEF S
<1>4. n \in S
  BY <1>2, <1>3, NatSetInduction
<1> QED
  BY <1>1, <1>4 DEF S

----------------------------------------------------------------------------
ParserInv == ParserSound(px)

LEMMA ParserInvInit == ProxyInit => ParserInv
<1> SUFFICES ASSUME ProxyInit
             PROVE  ParserInv
  OBVIOUS
<1>1. PICK s : s = IF proxy = "socks" THEN "GET_SOCKSV" ELSE "GET_METHOD"
  OBVIOUS
<1>2. px = [state |-> s, left |-> 1, v |-> 0, cmd |-> 0, auth |-> FALSE, chosen |-> FALSE,
            addr |-> "IPV4", ip |-> 0, host |-> 0, verdict |-> "more", heard |-> << >>, rest |-> 0]
  BY <1>1 DEF ProxyInit, Parser
<1>3. /\ IsParser(px) /\ px.state = s /\ px.auth = FALSE /\ px.verdict = "more"
      /\ px.heard = << >>
  BY <1>2, SizeFacts DEF IsParser
<1>4. Len(px.heard) = 0 /\ px.heard \in Seq(0..Octets - 1) /\ px.heard \in Seq(Nat)
  BY <1>3
<1>5. CASE proxy = "socks"
  BY <1>1, <1>3, <1>4, <1>5 DEF ParserInv, ParserSound, Outcome, SocksState
<1>6. CASE proxy = "http"
  <2>1. \A l \in 1..Len(px.heard) : px.heard[l] # SP
    BY <1>4
  <2> QED
    BY <1>1, <1>3, <1>4, <1>6, <2>1 DEF ParserInv, ParserSound, HTTPOutcome, HTTPState
<1> QED
  BY <1>5, <1>6 DEF ProxyInit

LEMMA ParserInvStep == ParserInv /\ [ProxyNext]_proxyVars => ParserInv'
<1> SUFFICES ASSUME ParserInv, [ProxyNext]_proxyVars
             PROVE  ParserInv'
  OBVIOUS
<1>1. ASSUME NEW n \in 1..ProxyChunk, NEW piece \in [1..n -> ProxyAlphabet], HandleSockRecv(piece)
      PROVE  ParserInv'
  <2>1. px' = HandleData(px, piece) /\ proxy' = proxy
    BY <1>1, Zenon DEF HandleSockRecv
  <2>2. n \in Nat
    BY ProxyAssumption
  <2>3. Len(piece) = n /\ \A i \in 1..n : piece[i] \in ProxyAlphabet
    BY <2>2
  <2>4. \A o \in ProxyAlphabet : o \in Nat /\ (proxy = "socks" => o \in 0..Octets - 1)
    BY ProxyAssumption DEF ProxyAlphabet
  <2>5. ParserSound(HandleData(px, piece))
    BY <2>2, <2>3, <2>4, HandleDataSound DEF ParserInv
  <2> QED
    BY <2>1, <2>5 DEF ParserInv, ParserSound
<1>2. CASE proxy' = proxy /\ px' = px
  BY <1>2 DEF ParserInv, ParserSound
<1>3. CASE ProxyError \/ SentSocksResponse \/ HandleStreamRequestComplete \/ SentSocksDone \/ UNCHANGED proxyVars
  BY <1>2, <1>3 DEF ProxyError, SentSocksResponse, HandleStreamRequestComplete, SentSocksDone, proxyVars
<1> QED
  BY <1>1, <1>3 DEF ProxyNext

LEMMA ParserInvExact == ParserInv => RequestExact
<1> SUFFICES ASSUME ParserInv
             PROVE  RequestExact
  OBVIOUS
<1>1. CASE proxy = "socks" /\ px.heard \in Seq(0..Octets - 1) /\ Outcome(px, px.heard)
  BY <1>1, SocksExact, RequestCounted DEF RequestExact
<1>2. CASE proxy = "http" /\ px.heard \in Seq(Nat) /\ HTTPOutcome(px, px.heard)
  BY <1>2, HTTPExact DEF RequestExact
<1> QED
  BY <1>1, <1>2 DEF ParserInv, ParserSound

(* However a request is cut into pieces, the proxy acts on it at its last   *)
(* octet, never earlier or later, and on nothing else (SOCKS.cpp,           *)
(* HTTPProxy.cpp, HandleData), for requests of any length; only a SOCKS5    *)
(* request with a length of 0 is left out.                                  *)
THEOREM SpecRequestExact == ProxySpec => []RequestExact
<1>1. ParserInv /\ UNCHANGED proxyVars => ParserInv'
  BY ParserInvStep
<1> QED
  BY ParserInvInit, ParserInvStep, ParserInvExact, PTL DEF ProxySpec
=============================================================================
