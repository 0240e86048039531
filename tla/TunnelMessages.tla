--------------------------- MODULE TunnelMessages ---------------------------
(* What travels inside a tunnel: the gateway that packs I2NP messages into   *)
(* tunnel data messages (TunnelGateway.cpp), the thread of Tunnels::Run that *)
(* feeds a transit gateway and a transit participant and flushes them, the   *)
(* wire, and the endpoint that puts fragments together again                 *)
(* (TunnelEndpoint.cpp).  Two tunnels begin at this router: a transit        *)
(* tunnel of somebody else ("transit", its endpoint is inbound) and an       *)
(* outbound tunnel of our own ("own").  Bytes are ranges of the message they *)
(* were cut from and lengths are the real ones; encryption, padding and the  *)
(* checksum keep a tunnel data message whole or drop it, which is Lose.      *)
EXTENDS Integers, Sequences, FiniteSets

CONSTANTS
  I2NPMsgs,      \* the messages given to gateways, numbers that are message IDs too
  MsgLen,        \* length of each message
  MsgDelivery,   \* [I2NPMsgs -> {"local", "tunnel", "router"}]
  OwnBlocks,     \* sequences of messages our own destinations send at once
  MaxPosted,     \* bound: messages that reach the tunnels' queue
  MaxSent,       \* bound: vectors of messages our destinations send
  MaxLost, MaxDuplicated, MaxOvertaken  \* bounds: faults of the wire

Tunneled == {"transit", "own"}
TUNNEL_DATA_MAX_PAYLOAD_SIZE == 1003
I2NP_MAX_MESSAGE_SIZE == 32768

ASSUME TunnelMessagesAssumption ==
  /\ I2NPMsgs \subseteq Nat
  /\ MsgLen \in [I2NPMsgs -> 1..I2NP_MAX_MESSAGE_SIZE]
  /\ MsgDelivery \in [I2NPMsgs -> {"local", "tunnel", "router"}]
  /\ \A ms \in OwnBlocks : /\ ms \in Seq(I2NPMsgs)
                           /\ \A i, j \in DOMAIN ms : ms[i] = ms[j] => i = j

VARIABLES
  gateway,   \* m_Buffer of each gateway: the open message, its room, the complete ones
  given,     \* history: messages put into each gateway
  endpoint,  \* TunnelEndpoint of each tunnel
  wire,      \* tunnel data messages between the two, oldest first
  msgQueue,  \* m_Queue of Tunnels
  run,       \* locals of Run: msg taken, previous tunnel ID and tunnel
  held,      \* m_TunnelDataMsgs of the transit participant
  posted, sentOwn, lost, duplicated, overtaken,
  behindBuild  \* history: tunnels that a build message followed before their flush

tmsgVars == <<gateway, given, endpoint, wire, msgQueue, run, held, posted, sentOwn,
              lost, duplicated, overtaken, behindBuild>>
faultVars == <<lost, duplicated, overtaken>>

----------------------------------------------------------------------------
(* The gateway.                                                              *)

\* The length of the delivery instructions: flag, tunnel ID and hash.
DiLen(m) == CASE MsgDelivery[m] = "local" -> 1
              [] MsgDelivery[m] = "router" -> 1 + 32
              [] MsgDelivery[m] = "tunnel" -> 1 + 4 + 32
FullMsgLen(m) == DiLen(m) + MsgLen[m] + 2

EmptyBuffer == [open |-> FALSE, current |-> <<>>, room |-> 0, complete |-> <<>>]

CreateCurrentTunnelDataMessage(g) ==
  [g EXCEPT !.open = TRUE, !.current = <<>>, !.room = TUNNEL_DATA_MAX_PAYLOAD_SIZE]

CompleteCurrentTunnelDataMessage(g) ==
  IF g.open
  THEN [g EXCEPT !.open = FALSE, !.current = <<>>, !.complete = Append(@, g.current)]
  ELSE g

\* A fragment in the open message, which is complete once it has no room left.
Added(g, fragment, length) ==
  LET h == [g EXCEPT !.current = Append(@, fragment), !.room = @ - length]
  IN IF h.room = 0 THEN CompleteCurrentTunnelDataMessage(h) ELSE h

PutWhole(g, m) ==
  Added(g, [msg |-> m, num |-> 0, from |-> 0, size |-> MsgLen[m], last |-> TRUE],
        FullMsgLen(m))

\* The first fragment fills the open message; follow-on fragments of at most
\* 996 bytes go into messages of their own, the last of which stays open.  An
\* open message made in between may have room for all of m: then the first
\* fragment goes beyond its end, and none follows that is marked as the last.
PutFragments(g, m) ==
  LET size == g.room - DiLen(m) - 6
      most == TUNNEL_DATA_MAX_PAYLOAD_SIZE - 7
      rest == MsgLen[m] - size
      count == (rest + most - 1) \div most
      first == [msg |-> m, num |-> 0, from |-> 0, size |-> size, last |-> FALSE]
      FollowOn(n) == [msg |-> m, num |-> n, from |-> size + (n - 1) * most,
                      size |-> IF n = count THEN rest - (n - 1) * most ELSE most,
                      last |-> n = count]
      filled == CompleteCurrentTunnelDataMessage([g EXCEPT !.current = Append(@, first)])
      middle == [n \in 1..(count - 1) |-> <<FollowOn(n)>>]
  IN IF rest <= 0 THEN filled
     ELSE Added(CreateCurrentTunnelDataMessage([filled EXCEPT !.complete = @ \o middle]),
                FollowOn(count), FollowOn(count).size + 7)

\* Whether what is left of the message after full ones does not fit the open one.
ShouldComplete(m, room) ==
  LET followOn == FullMsgLen(m) \div TUNNEL_DATA_MAX_PAYLOAD_SIZE
      nonFit == (FullMsgLen(m) + followOn * 7) % TUNNEL_DATA_MAX_PAYLOAD_SIZE
  IN nonFit = 0 \/ nonFit > room

\* PutI2NPMsg with an open message; created says that it was opened for this one.
PutIntoOpen(g, m, created) ==
  LET h == IF ~created /\ ShouldComplete(m, g.room)
           THEN CreateCurrentTunnelDataMessage(CompleteCurrentTunnelDataMessage(g))
           ELSE g
      fresh == CreateCurrentTunnelDataMessage(CompleteCurrentTunnelDataMessage(h))
  IN CASE FullMsgLen(m) <= g.room -> PutWhole(g, m)
       [] FullMsgLen(m) > g.room /\ DiLen(m) + 6 <= h.room -> PutFragments(h, m)
       [] FullMsgLen(m) > g.room /\ DiLen(m) + 6 > h.room ->
            IF FullMsgLen(m) <= fresh.room THEN PutWhole(fresh, m) ELSE PutFragments(fresh, m)

PutI2NPMsg(g, m) ==
  IF g.open THEN PutIntoOpen(g, m, FALSE)
  ELSE PutIntoOpen(CreateCurrentTunnelDataMessage(g), m, TRUE)

PutAll(g, ms) ==
  LET put[i \in 0..Len(ms)] == IF i = 0 THEN g ELSE PutI2NPMsg(put[i - 1], ms[i])
  IN put[Len(ms)]

\* SendBuffer: what goes to the transports, and the buffer left behind.
Packed(g) == CompleteCurrentTunnelDataMessage(g).complete
SendBuffer(g) == [CompleteCurrentTunnelDataMessage(g) EXCEPT !.complete = <<>>]

----------------------------------------------------------------------------
(* The thread of Tunnels::Run.  A batch lasts until the queue is empty.      *)

NoTunnel == "none"
Idle == [msg |-> [type |-> "none", body |-> 0], prevID |-> NoTunnel, prev |-> NoTunnel]

\* The tunnel a queued message names; "gone" has no entry in the tables.
TunnelOf(q) == CASE q.type = "gateway" -> "transit"
                 [] q.type = "data" -> "participant"
                 [] q.type = "unknown" -> "gone"
                 [] OTHER -> NoTunnel
Found(id) == IF id = "gone" THEN NoTunnel ELSE id

\* What a flush of tunnel t leaves in the gateway, the participant and the wire.
FlushTunnelDataMsgs(t, g, h, w) ==
  CASE t = "transit" ->
         [g |-> [g EXCEPT !["transit"] = SendBuffer(@)], h |-> h,
          w |-> [w EXCEPT !["transit"] = @ \o Packed(g["transit"])]]
    [] t = "participant" -> [g |-> g, h |-> 0, w |-> w]
    [] OTHER -> [g |-> g, h |-> h, w |-> w]

\* The transports' threads put a message into the queue.  A message has an ID of
\* its own, so it reaches the gateway once.
PostTunnelData(q) ==
  /\ posted < MaxPosted
  /\ q.type = "gateway" => /\ q # run.msg
                           /\ \A i \in DOMAIN msgQueue : msgQueue[i] # q
                           /\ \A i \in DOMAIN given["transit"] : given["transit"][i] # q.body
  /\ posted' = posted + 1
  /\ msgQueue' = Append(msgQueue, q)
  /\ UNCHANGED <<gateway, given, endpoint, wire, run, held, sentOwn, faultVars, behindBuild>>

\* GetNextWithTimeout returns a message and a batch begins.
BeginBatch ==
  /\ run.msg.type = "none" /\ msgQueue # <<>>
  /\ run' = [Idle EXCEPT !.msg = Head(msgQueue)]
  /\ msgQueue' = Tail(msgQueue)
  /\ UNCHANGED <<gateway, given, endpoint, wire, held, posted, sentOwn, faultVars, behindBuild>>

\* Variant: the tunnel of the message before is not flushed when another follows.
FlushPreviousNot(id, tunnel) == NoTunnel
\* The tunnel to flush before a message for tunnel id: the one before it in the batch.
FlushPrevious(id, tunnel) ==
  IF id # NoTunnel /\ run.prevID # id THEN run.prev ELSE NoTunnel

\* One turn of the loop: the tunnel is looked up, the message handled, the next
\* one taken; the tunnel is flushed when there is none.
HandleQueued ==
  /\ run.msg.type # "none"
  /\ LET q == run.msg
         id == TunnelOf(q)
         tunnelID == IF id = NoTunnel THEN run.prevID ELSE id
         tunnel == Found(id)
         before == FlushTunnelDataMsgs(FlushPrevious(id, tunnel), gateway, held, wire)
         put == IF tunnel = "transit"
                THEN [before.g EXCEPT !["transit"] = PutI2NPMsg(@, q.body)] ELSE before.g
         kept == IF tunnel = "participant" THEN before.h + 1 ELSE before.h
         ends == msgQueue = <<>>
         after == FlushTunnelDataMsgs(IF ends THEN tunnel ELSE NoTunnel, put, kept, before.w)
     IN /\ gateway' = after.g /\ held' = after.h /\ wire' = after.w
        /\ given' = IF tunnel = "transit"
                    THEN [given EXCEPT !["transit"] = Append(@, q.body)] ELSE given
        /\ run' = IF ends THEN Idle
                  ELSE [msg |-> Head(msgQueue), prevID |-> tunnelID, prev |-> tunnel]
        /\ msgQueue' = IF ends THEN <<>> ELSE Tail(msgQueue)
        /\ behindBuild' =
             (behindBuild \cup IF id = NoTunnel /\ run.prev # NoTunnel THEN {run.prev} ELSE {})
               \ {t \in {"transit", "participant"} : t = tunnel}
  /\ UNCHANGED <<endpoint, posted, sentOwn, faultVars>>

\* OutboundTunnel::SendTunnelDataMsg: our own blocks are put and sent at once.
SendTunnelDataMsgs(ms) ==
  /\ sentOwn < MaxSent
  /\ \A i \in DOMAIN given["own"], j \in DOMAIN ms : given["own"][i] # ms[j]
  /\ sentOwn' = sentOwn + 1
  /\ LET g == PutAll(gateway["own"], ms)
     IN /\ gateway' = [gateway EXCEPT !["own"] = SendBuffer(g)]
        /\ wire' = [wire EXCEPT !["own"] = @ \o Packed(g)]
  /\ given' = [given EXCEPT !["own"] = @ \o ms]
  /\ UNCHANGED <<endpoint, msgQueue, run, held, posted, faultVars, behindBuild>>

----------------------------------------------------------------------------
(* The endpoint.  A message under assembly is the ranges it was made from.   *)

EmptyEndpoint == [incomplete |-> <<>>, outOfSequence |-> <<>>, handed |-> <<>>]
Put(f, k, v) == [x \in DOMAIN f \cup {k} |-> IF x = k THEN v ELSE f[x]]
Without(f, k) == [x \in DOMAIN f \ {k} |-> f[x]]
Bytes(f) == <<f.from, f.size>>
Length(data) ==
  LET sum[i \in 0..Len(data)] == IF i = 0 THEN 0 ELSE sum[i - 1] + data[i][2] IN sum[Len(data)]

\* HandleNextMessage: what happens to a whole message.  One for another router
\* is not sent on from an inbound tunnel.
HandleNextMessage(e, m, data, inbound) ==
  LET how == CASE MsgDelivery[m] = "local" -> "handled"
               [] MsgDelivery[m] = "tunnel" -> "tunnel"
               [] MsgDelivery[m] = "router" -> IF inbound THEN "dropped" ELSE "router"
  IN [e EXCEPT !.handed = Append(@, [msg |-> m, data |-> data, how |-> how])]

\* Variant: a fragment that waits is never looked for.
HandleOutOfSequenceFragmentNot(e, m, inbound) == e
\* The one fragment that waits for message m joins it when it is the next.
HandleOutOfSequenceFragment(e, m, inbound) ==
  LET waits == e.outOfSequence[m]
      data == Append(e.incomplete[m].data, Bytes(waits))
      rest == [e EXCEPT !.outOfSequence = Without(@, m)]
  IN IF m \notin DOMAIN e.outOfSequence \/ waits.num # e.incomplete[m].next THEN e
     ELSE IF waits.last
     THEN HandleNextMessage([rest EXCEPT !.incomplete = Without(@, m)], m, data, inbound)
     ELSE [rest EXCEPT !.incomplete[m] = [next |-> @.next + 1, data |-> data]]

\* Only one fragment of a message may wait: the first that came too early.
AddOutOfSequenceFragment(e, f) ==
  IF f.msg \in DOMAIN e.outOfSequence THEN e
  ELSE [e EXCEPT !.outOfSequence = Put(@, f.msg, f)]

\* Variant: a follow-on fragment joins the message whatever its number.
NextFragmentAny(e, f) == f.msg \in DOMAIN e.incomplete
NextFragment(e, f) ==
  f.msg \in DOMAIN e.incomplete /\ f.num = e.incomplete[f.msg].next

\* What is assembled lies two bytes behind the start of its buffer.
HandleFollowOnFragment(e, f, inbound) ==
  LET m == f.msg
      data == Append(e.incomplete[m].data, Bytes(f))
  IN IF ~NextFragment(e, f) THEN AddOutOfSequenceFragment(e, f)
     ELSE IF Length(data) + 2 >= I2NP_MAX_MESSAGE_SIZE
     THEN [e EXCEPT !.incomplete = Without(@, m)]
     ELSE IF f.last
     THEN HandleNextMessage([e EXCEPT !.incomplete = Without(@, m)], m, data, inbound)
     ELSE HandleOutOfSequenceFragment(
            [e EXCEPT !.incomplete[m] = [next |-> @.next + 1, data |-> data]], m, inbound)

\* A first fragment of a message already under assembly is ignored.
HandleFirstFragment(e, f, inbound) ==
  IF f.msg \in DOMAIN e.incomplete THEN e
  ELSE HandleOutOfSequenceFragment(
         [e EXCEPT !.incomplete = Put(@, f.msg, [next |-> 1, data |-> <<Bytes(f)>>])],
         f.msg, inbound)

\* The fragments of a tunnel data message one after the other; a fragment whose
\* message ID is 0 is dropped.
HandleFragment(e, f, inbound) ==
  CASE f.num = 0 /\ f.last -> HandleNextMessage(e, f.msg, <<Bytes(f)>>, inbound)
    [] ~(f.num = 0 /\ f.last) /\ f.msg = 0 -> e
    [] f.num = 0 /\ ~f.last /\ f.msg # 0 -> HandleFirstFragment(e, f, inbound)
    [] f.num # 0 /\ f.msg # 0 -> HandleFollowOnFragment(e, f, inbound)

HandleDecryptedTunnelDataMsg(e, fs, inbound) ==
  LET done[i \in 0..Len(fs)] == IF i = 0 THEN e ELSE HandleFragment(done[i - 1], fs[i], inbound)
  IN done[Len(fs)]

\* The wire delivers its i-th message; one that is not the oldest overtakes.
Deliver(t, i) ==
  /\ overtaken + (i - 1) <= MaxOvertaken
  /\ overtaken' = overtaken + (i - 1)
  /\ endpoint' = [endpoint EXCEPT ![t] =
                    HandleDecryptedTunnelDataMsg(@, wire[t][i], t = "transit")]
  /\ wire' = [wire EXCEPT ![t] = SubSeq(@, 1, i - 1) \o SubSeq(@, i + 1, Len(@))]
  /\ UNCHANGED <<gateway, given, msgQueue, run, held, posted, sentOwn, lost, duplicated, behindBuild>>

Lose(t) ==
  /\ lost < MaxLost /\ wire[t] # <<>>
  /\ lost' = lost + 1
  /\ wire' = [wire EXCEPT ![t] = Tail(@)]
  /\ UNCHANGED <<gateway, given, endpoint, msgQueue, run, held, posted, sentOwn,
                 duplicated, overtaken, behindBuild>>

Duplicate(t) ==
  /\ duplicated < MaxDuplicated /\ wire[t] # <<>>
  /\ duplicated' = duplicated + 1
  /\ wire' = [wire EXCEPT ![t] = Append(@, Head(@))]
  /\ UNCHANGED <<gateway, given, endpoint, msgQueue, run, held, posted, sentOwn,
                 lost, overtaken, behindBuild>>

Queued == {[type |-> "gateway", body |-> m] : m \in {n \in I2NPMsgs : MsgDelivery[n] = "local"}}
          \cup {[type |-> k, body |-> 0] : k \in {"data", "unknown", "build"}}

TMsgInit ==
  /\ gateway = [t \in Tunneled |-> EmptyBuffer]
  /\ given = [t \in Tunneled |-> <<>>]
  /\ endpoint = [t \in Tunneled |-> EmptyEndpoint]
  /\ wire = [t \in Tunneled |-> <<>>]
  /\ msgQueue = <<>> /\ run = Idle /\ held = 0
  /\ posted = 0 /\ sentOwn = 0 /\ lost = 0 /\ duplicated = 0 /\ overtaken = 0
  /\ behindBuild = {}

TransitNext == (\E q \in Queued : PostTunnelData(q)) \/ BeginBatch \/ HandleQueued
OwnNext == \E ms \in OwnBlocks : SendTunnelDataMsgs(ms)
WireNext == \E t \in Tunneled : (\E i \in DOMAIN wire[t] : Deliver(t, i)) \/ Lose(t) \/ Duplicate(t)

TMsgNext == TransitNext \/ OwnNext \/ WireNext

TMsgSpec == TMsgInit /\ [][TMsgNext]_tmsgVars

----------------------------------------------------------------------------
\* The ranges lie end to end from the first byte of message m to its last.
Covers(m, data) ==
  /\ data # <<>> /\ data[1][1] = 0
  /\ \A i \in DOMAIN data : data[i][2] >= 0
  /\ \A i \in 2..Len(data) : data[i][1] = data[i - 1][1] + data[i - 1][2]
  /\ data[Len(data)][1] + data[Len(data)][2] = MsgLen[m]

\* The endpoint passes on nothing but messages a gateway was given, with every
\* byte at its place, whatever the wire loses, repeats or reorders
\* (TunnelEndpoint::HandleFollowOnFragment, HandleOutOfSequenceFragment).
HandedInFull ==
  \A t \in Tunneled : \A i \in DOMAIN endpoint[t].handed :
    LET h == endpoint[t].handed[i]
    IN Covers(h.msg, h.data) /\ \E j \in DOMAIN given[t] : given[t][j] = h.msg

\* A tunnel data message overtaken by the next one costs nothing: when no more
\* than that happened, and nothing is on its way, every message was passed on.
\* The exceptions are a fragmented message with ID 0, one that is too long for
\* the endpoint, and one that was cut up although it fits, of which the endpoint
\* has one fragment that is not the last (TunnelGatewayBuffer::PutI2NPMsg,
\* TunnelEndpoint::HandleFollowOnFragment, AddOutOfSequenceFragment).
CutWhole(t, m) ==
  m \in DOMAIN endpoint[t].incomplete /\ endpoint[t].incomplete[m].data[1][2] >= MsgLen[m]
OneOvertakenHarmless ==
  \A t \in Tunneled :
    /\ lost = 0 /\ duplicated = 0 /\ overtaken <= 1
    /\ wire[t] = <<>> /\ ~gateway[t].open /\ gateway[t].complete = <<>>
    => \A m \in I2NPMsgs \ {0} : MsgLen[m] + 2 < I2NP_MAX_MESSAGE_SIZE /\ ~CutWhole(t, m) =>
         Cardinality({i \in DOMAIN given[t] : given[t][i] = m}) =
           Cardinality({i \in DOMAIN endpoint[t].handed : endpoint[t].handed[i].msg = m})

\* A message that is cut up has a last fragment ("last fragment" in
\* TunnelGatewayBuffer::PutI2NPMsg), so it arrives when the wire does its part.
\* The code does not keep this.
CutUpArrives ==
  \A t \in Tunneled :
    /\ lost = 0 /\ duplicated = 0 /\ overtaken = 0
    /\ wire[t] = <<>> /\ ~gateway[t].open /\ gateway[t].complete = <<>>
    => \A j \in DOMAIN given[t] : given[t][j] # 0 =>
         \E i \in DOMAIN endpoint[t].handed : endpoint[t].handed[i].msg = given[t][j]

\* When Run has emptied its queue, a transit tunnel that still holds messages is
\* one that a build message followed in the batch: the last message for it put
\* prevTunnel aside and nothing flushed it (Tunnels::Run).
HeldOnlyBehindBuild ==
  run.msg.type = "none" =>
    /\ held > 0 => "participant" \in behindBuild
    /\ gateway["transit"].open \/ gateway["transit"].complete # <<>> => "transit" \in behindBuild
=============================================================================
