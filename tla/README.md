# TLA+ models of i2pd

Specifications, TLC configurations and TLAPS proofs for the stateful parts of
the i2pd router in `src/core` and `src/client`. Every definition that models
code names the lines it models in `PROJECT.json` ("map").

To check a run: `tlc -config Tunnels_pass.cfg MCTunnels`; to check the proofs of
a module: `tlapm TransportsProofs.tla`. `TransportsProofs`, `RouterProofs`,
`StreamProofs` and `StreamingProofs` take about ten to fifteen minutes each, the
others one to five.

## 1. The system

i2pd is an I2P router: it keeps encrypted sessions with other routers, builds
one-way tunnels through them, looks routers and destinations up in a
distributed database, and offers local programs streams and datagrams between
destinations. Each part has a thread of its own (or a boost::asio service run
by one thread), and they talk through message queues, posted closures and
direct calls guarded by mutexes.

| Component | State | Operations | Talks to | What is hard |
|---|---|---|---|---|
| NetDb lookup table (`NetDbRequests`) | map from router hash to RequestedDestination: excluded peers, creation time, callback | CreateRequest, RequestComplete, ManageRequests, Stop | called by NetDb and by any thread that needs a RouterInfo | callbacks outside the mutex, lost replies, retries, several places that may complete a request |
| NetDb store (`NetworkDatabase`) | RouterInfos, floodfills, LeaseSets | store, flood, look up, explore, publish, save, expire | queue from the transports; tunnels for exploratory traffic | NTCP threads while SaveUpdated runs, files after a crash, exclusion lists |
| Streaming (`Streaming`) | per stream: sequence numbers, saved and sent packets, window, timers, status | AsyncSend, Receive, Close, HandleNextPacket, the resend and ack timers | destination's service thread; garlic and tunnels below | loss, reordering, duplication, congestion window, closing with data in flight |
| SSU data (`SSUData`) | sent and incomplete messages, received ids, three timers | Send, ProcessMessage, resend, decay, cleanup | one SSUSession at either end | fragments and ack bitfields over UDP, shared timers |
| SSU sessions (`SSUSession`, `SSU`) | session table, keys, introducers, peer tests | four-message handshake, relay, peer test, termination | transports, SSU data | timeouts racing late answers |
| NTCP sessions (`NTCPSession`) | handshake phase, cipher state, send queue | connect, accept, four phases, framing, terminate | transports | callbacks after termination |
| Transports (`Transports`) | peers with sessions and delayed messages, DH keys | SendMessages, ConnectToPeer, PeerConnected, PeerDisconnected | NTCP, SSU, NetDb lookups | NTCP then SSU then give up; answers that come late |
| Tunnels and pools (`Tunnel`, `TunnelPool`) | pending, inbound, outbound, transit tunnels; pool sets and tests | build, reply, manage every 15 s, test, re-create, expire, stop pool | I2NP replies, NetDb for hops, destinations | two threads on the pool, tests spanning expirations |
| Tunnel gateway and endpoint | tunnel messages under way, out of sequence fragments | fragment, reassemble, deliver | tunnels above and below | reordering, size limits |
| Garlic | session tags, confirmed and unconfirmed, per destination | wrap, unwrap, confirm, expire tags | destinations, NetDb | lost confirmations, tags used twice |
| Client destinations | remote LeaseSets, LeaseSet requests, publication | RequestDestination, Publish, timers | pools, NetDb, streaming | retries, confirmations, callbacks |
| Datagrams | receivers by port | send, dispatch | destinations | - |
| SAM, BOB, SOCKS, HTTP proxy, I2PTunnel | sockets, sessions and their protocol state | commands, relays | streams, destinations | socket callbacks after close |
| Address book | hosts, subscriptions | lookup, download, retry | destinations | timers |
| Router context | own router info, status | options of a start, SetReachable, SetUnreachable, introducers | peer tests, SSU server, NTCP | address lists over restarts and changes of status |
| Peer profiles | counters per router, files | build answers, IsBad, save, load | hop selection | counters that decide for good |
| RouterInfo, LeaseSet, identities | the records and their files | parse, sign, update | everything | parsing |
| Message queue (`util/Queue.h`) | deque, condition variable | Put, GetNext, WakeUp | tunnels and NetDb threads | lost wake-ups |
| Reseed, UPnP, crypto, HTTP, logging, daemon, web console, I2PControl | - | I/O, conversions and glue | - | - |

What makes them correct, in short: a lookup's callback runs exactly once; a
stream's reader gets a prefix of what was written and nothing is forgotten
before it has arrived; an I2NP message is put together whole; everything that
waits for an answer is answered or given up; a pool contains only tunnels that
work; no stop, timeout or late answer leaves something behind for good.

## 2. Modules

| Module | Models | Checked by |
|---|---|---|
| `NetDbRequests` | `core/NetDbRequests.*` and its users in `core/NetworkDatabase.cpp` | `MCNetDbRequests` |
| `Streaming` | `core/Streaming.*` | `MCResending`, `MCStreaming` |
| `SSUData` | `core/transport/SSUData.*`, establishment and Close of `SSUSession.cpp` | `MCResending`, `MCSSUData` |
| `Tunnels` | `core/tunnel/Tunnel.*`, `core/tunnel/TunnelPool.*`, build replies of `I2NPProtocol.cpp`, start and stop of a pool by `Destination.cpp` | `MCTunnels` |
| `TunnelMessages` | `core/tunnel/TunnelGateway.*`, `TunnelEndpoint.*`, `TransitTunnel.*`, the loop of `Tunnels::Run` | `MCRouter` |
| `OrderedDelivery` | nothing of the code: the abstract specification of a layer that sends | refined by `Transports` and `NTCPSession` |
| `Transports` | the peer table of `core/transport/Transports.*` | `MCTransports` |
| `NTCPSession` | `core/transport/NTCPSession.*` | `MCSessions` |
| `SSUSession` | `core/transport/SSUSession.*`, `core/transport/SSU.*` | `MCSessions` |
| `Destination` | `core/Destination.*`, `core/LeaseSet.cpp`, `core/Datagram.cpp` as far as LeaseSets go | `MCDestination` |
| `Garlic` | `core/Garlic.*` | `MCDestination` |
| `NetDb` | the store of `core/NetworkDatabase.*`, with `core/RouterInfo.cpp` | `MCRouter` |
| `Profiles` | `core/Profiling.*` | `MCRouter` |
| `RouterContext` | `core/RouterContext.*`, the setters of `core/RouterInfo.cpp`, the introducers timer of `SSU.cpp` | `MCRouter` |
| `SAM`, `BOB` | `client/SAM.*`, `client/BOB.*` | `MCClients` |
| `Proxies` | the request handlers of `client/SOCKS.cpp` and `client/HTTPProxy.cpp` | `MCClients` |
| `I2PTunnel` | `client/I2PTunnel.*`, `client/I2PService.*`, their shutdown in `client/ClientContext.cpp` | `MCClients` |

The theorems about a module are in a module of their own, which extends it:

| Proofs | About |
|---|---|
| `NetDbProofs` | `NetDbRequests`, `NetDb` |
| `StreamProofs` | `Streaming`: what the handlers that send do to one stream |
| `StreamingProofs` | `Streaming`: the handlers that receive, and the theorems |
| `TransportsProofs` | `SSUSession`, `NTCPSession`, and `Transports` with its refinement of `OrderedDelivery` |
| `ResendingProofs` | `SSUData` |
| `DestinationProofs` | `Destination`, `Garlic` |
| `ClientsProofs` | `I2PTunnel`, `BOB`, `SAM`, `Proxies` |
| `RouterProofs` | `Tunnels`, `Profiles`, `RouterContext`, `TunnelMessages` |

Every module names its bounds in CONSTANTS ("bound:") and keeps the variants
of a definition that the mutants use ("Variant:") beside it; no specification
uses a variant.

How they compose. A module that needs another part has that part's interface
as actions of its own: `Transports` has sessions that connect, send and end
whenever they like, `NTCPSession` and `SSUSession` show what a session does;
`Destination` has a NetDb and a pool that answer or stay silent, `NetDbRequests`
and `Tunnels` show theirs; `Streaming` and `SSUData` have a network. Both
`Transports` and `NTCPSession` are shown to implement `OrderedDelivery`, so what
the upper one assumes of the lower one is the same promise it gives itself.
`MCResending`, `MCSessions`, `MCDestination`, `MCClients` and `MCRouter` check
several modules in one run. Their parts share no state at this level, so a
behaviour picks a part at the beginning and follows it; nothing is said about
interleavings of two parts, which would only repeat each part's states.

### NetDbRequests

A call stands for one `RequestDestination` and the RequestedDestination it
makes. Client calls run on any thread and have a callback; NetDb calls are the
NetDb thread's own. `m_RequestedDestinations`, `m_ExcludedPeers`,
`m_IsExploratory` and `m_RequestComplete` are the code's fields. `age` is what
ManageRequests can tell apart of `now - m_CreationTime`: `zero` before the
lookup message is made (the field is 0), `fresh` for five seconds, `late` to a
minute, `stale`. `rc` is where a thread is inside RequestComplete, which finds
the request, runs the callback, resets it and erases it in steps that the
mutex does not join. `dangling` says that an erased iterator was used, after
which nothing is claimed. `outcomes` records the callback's calls.

### Streaming

Both ends of a stream; each method is an operator from a stream record to the
next, and a handler is one step because a destination has one service thread.
Closures a handler posts are kept in `.posted` and run later. `net` is the set
of packets under way, from which any may be taken, dropped for good or (within
`MaxDups`) taken twice. A timer that is set may go off at any time, so
timeouts race with every late answer. Sequence numbers, the window, NACKs,
the NO_ACK, SYN, CLOSE and RESET flags and the saved packets are those of the
code. Signatures, leases, routing paths and RTT estimation are left out: a
packet that is not routed is a lost packet.

### SSUData

Both ends of a session. It starts either with Bob established and Alice about
to be (Bob's DeliveryStatus and DatabaseStore are under way) or in an idle
session. Clock values are kept as the time left or passed; `Tick` is one
second and waits for due timers. `m_ResendTimer` has the set of handlers that
wait on it, since the code's decay waits on it too. Ack bitfields are
sequences of bytes of `BitsPerByte` bits (7 in the code), so that the byte
boundary is within reach: in both runs a message needs bitfields of several
bytes. `got` and `handed` are records of what has arrived
and what was handed on.

### Tunnels and TunnelMessages

`Tunnels` has the tunnels thread and a client destination's thread. `pending`,
`listed` and `members` are the pending maps, the lists of Tunnels and the sets
of the pool; `m_Tests` has the pairs of tunnels under test. A tunnel object
lives as long as one of them points to it. ManageTunnels is five steps and
TunnelCreated two, between which the client thread may set `m_IsActive`, detach
the inbound and the outbound tunnels and clear the tests. `age` counts 15
second rounds. DetachTunnels clears containers that the tunnels thread walks
through without a lock: the overlap is undefined behaviour, here a possible
crash. `strikes` is a record of failed tests in a row.

`TunnelMessages` has what flows through a tunnel: the tunnels thread takes
messages from its queue in batches, puts them into a transit gateway, hands
tunnel messages to a transit participant and flushes the tunnel of the message
before (`run`, `held`, `behindBuild`); our own outbound tunnel packs a vector
of blocks and sends it at once; the wire loses, repeats and reorders; the
endpoint puts fragments together. Bytes are ranges <<start, length>> of the
message they were cut from, with the lengths of the code, so the places where
packing changes its mind are the real ones. One of them is wrong in the code:
PutI2NPMsg measures the room of the open tunnel message, may complete it while it
looks for room for the first fragment, and then cuts up a message that fits the
new one (`PutFragments`, see findings).

### Transports, NTCPSession, SSUSession

`Transports` is the peer table on its one thread: `service` is the queue of
posted handlers, in order, `links` are transport sessions, `asked` the lookups
and resolutions under way. ConnectToPeer tries NTCP, then SSU, then gives up;
`PeerLate` lets an entry pass the age at which HandlePeerCleanupTimer drops it.

`NTCPSession` has the two ends of up to two connections, dialled by either
router. `op` is the outstanding read or handshake write and `sending` the
outstanding message write. The termination timer may go off whenever it is
set; a faulty connection may break or fail to verify at any phase.

`SSUSession` has three routers, one of them the introducer of another that is
hidden. The DeliveryStatus that answers SessionConfirmed may be sent again by the data
layer, encrypted with the key it was first sent with (`kept`). A datagram may be lost and be overtaken by others; keys are named by
the DH keys they come from. Handshake, relay and hole punch, peer tests with their roles,
timers and the table of sessions follow the handlers of the code.

### Destination and Garlic

`Destination` is a client destination's requests for remote LeaseSets
(`requests`, `remote`), the handlers posted to its thread (`tasks`), and
publication (`publish`). Time passes in steps of LEASESET_REQUEST_TIMEOUT.
`Garlic` is the pair of a sender and a receiver of session tags, each with its
own way of forgetting them; a tag is named by the message that carried it.

### NetDb, Profiles, RouterContext

`NetDb`: `infos` are RouterInfo objects, `table` and `floodfills` refer to
them, `files` is what is on disk. A store has a key, the identity of the router
info it carries, and a signature that verifies or not; the key is looked up,
a new router is filed under its identity, and one with a bad signature is
unreachable until it is saved. SaveUpdated goes on router by router
(`saving`), so an NTCP thread's SetUnreachable falls between two of them;
other messages wait for the NetDb thread. A write leaves the new file, the old
one (it could not be opened), a torn one or what a shorter file reads as
(`Written`), and the code goes on as if it had succeeded. A crash keeps the
files only, and Restart is Load. `dbMixed` (identities that came under another's
key, and those keys), `failed` (a save of the object failed), `entered` (it entered the list of
floodfills when it came) and `replaced` (the table's entry went to another
object) are records that the properties use to name what the code does not keep. The answers to lookups, flooding, publication and the choice
of a random router are operators on the state, checked in every state against
what "nearest" means.

`Profiles`: the counters in memory and on disk. A save may fail or be cut at any
place, a load may find a file that expired or cannot be read. `profRejectedInARow`
is a record of rejections in a row, which begins anew where the counters are lost.

`RouterContext`: `ours` is the own router info with the order of its
addresses, `ourFile` the file as it reads back; every setter saves. Peer tests set
`status`, the introducers timer publishes and removes introducers, a start
applies its options in the order of the daemon. The `-host` of the first start
is of IPv4 or IPv6. An introducer is a router and the tag it gave; it is
published at the SSU address of its router info and taken away by the endpoint
of its session, which for the routers in `CtxElsewhere` is another one.

### SAM, BOB, Proxies, I2PTunnel

The client interfaces with their sockets and the objects these share. Each
keeps plain pointers (a SAM socket to its session, a BOB session to its
destination, an acceptor to a tunnel): a use of a deleted one is undefined
behaviour, here the end of the process (`samUp`, `bobUp`, `svc`), after which
nothing is claimed. A socket lives by its outstanding operations, as in the
code. A SAM socket may repeat its session commands in any order, as nothing in
`HandleMessage` stops it; `reused` records that it did, and `left` that one of its
streams was replaced without being closed. A BOB session is let go when a
handler starts no operation (`dropped` counts these). `Proxies` are the octet parsers of SOCKS4, 4a, 5 and HTTP with the
counters' width (`Octets` stands for 256), fed in pieces of any size;
`Socks4Request`, `Socks5Request` and `HTTPRequest` say independently what a
whole request is. A SOCKS5 request with a length of 0 is none of them:
the code counts such a length down through 256 (`ZeroLength`).

## 3. Runs

States are distinct states with the shipped configurations.

| Run | Shows | States |
|---|---|---|
| `netdb_requests` | a client call and a NetDb call, two hashes, two floodfills, at most two attempts; replies, search replies, exploration, lost replies, Stop: no callback is lost (`NoLostCallback`); none runs twice unless some call found no floodfill (`SingleCompletion`); only an answer or Stop removes a fresh lookup (`FreshKept`); every callback runs (`EventuallyAnswered`) | 129 k |
| `netdb_requests_new_kept` | violation, see findings | |
| `resending_safety` | a stream of three packets and an SSU session with messages of three fragments, over loss, reordering and repetition: a reader gets every byte once and in order (`ServerInOrder`), a message is handed on whole (`HandedWhole`), nothing a stream sent leaves resending before it has arrived (`AckSound`), a fragment that does is one of the first byte's and stands for one that has arrived (`FirstByteAcked`), data in the buffer has a way to be sent (`NoStall`), a close waits for the data (`GracefulClose`) | 621 k |
| `resending_live` | the same with two packets or fragments, everything may be lost: `SendResolves`, `CloseCompletes`, `SentResolves`, `IncompleteResolves` | 32 k |
| `streaming_reply`, `ssu_data_bitfield` | violations, see findings | |
| `tunnels` | up to two inbound and one outbound tunnel at a time, a pool of one each, expiration after three rounds: the pool holds only tunnels that work (`PoolSound`), a tunnel fails on its second failed test in a row (`TwoStrikes`), a pending tunnel is resolved (`PendingResolved`), a stopped pool drains (`StoppedPoolDrains`) | 131 k |
| `transports` | one peer, two links, one of them opened by the peer, and messages to ourselves: the layer implements `OrderedDelivery` (`TransportsInOrder`), and no message waits for good (`DelayedResolves`) | 84 k |
| `sessions` | two NTCP connections between two routers that dial each other, one of them faulty; an SSU handshake, an introduction and a peer test among three routers: `NTCPInOrder` (implements `OrderedDelivery`), queued messages are always under way (`SendQueueMoves`), SSU sessions have a timer, but for a client after SessionCreated (`SessionTimed`), an SSU client is established only with a proven key (`ClientAfterServer`) | 403 k |
| `destination` | two callers, two floodfills, redirections, timeouts, publication; tags of a session through loss and expiry: `CallbackOnce`, `DecryptableInTime` | 2976 k |
| `clients` | three SAM sockets with any order of their commands, two BOB sessions, both parsers on every short input in every cut, three relayed sockets: `SAMStreamsOwned`, `SAMAcceptorLive`, `BobSerial`, `RequestExact`, `TunnelOwned` | 2557 k |
| `router` | tunnel messages at the edges of packing (`HandedInFull`, `OneOvertakenHarmless`, `HeldOnlyBehindBuild`); three routers in the database with their files, stores under the wrong key, bad signatures and failed writes (`FloodfillKnown`, `FileKept`, `AnswersNearest`); a profile (`NotShunned`); our router info over three starts (`PublishedConsistent`) | 846 k |

### Why the bounds are enough

* `netdb_requests`: the races are between one caller and the NetDb thread, on
  one hash; the second hash and the NetDb call let search replies and
  exploration interfere. Two attempts reach retry, give-up and exhaustion.
  More callers are covered by the proofs, not by this run.
* `resending_*`, streams: three packets and a first window of two make the
  window fill, grow and halve, leave data in the buffer, and leave a hole that
  a NACK names. One resend attempt reaches both a resend and the reset after
  it. One incoming stream at a time means that a copy of the client's SYN does
  not open a second stream beside the first. SSU data: three fragments allow a
  first, a middle and a last one out of order; the received ids overflow at
  once. `BitsPerByte` is 2 for three fragments in `resending_safety` and 1 for two in
  `resending_live`, so a bitfield has bytes beyond the first, and empty bytes
  before the last, in both.
* `tunnels`: three rounds let a tunnel be tested, fail twice, near its end and
  expire; the second inbound tunnel is its replacement. There is no room for a
  second outbound tunnel; outbound tunnels differ from inbound ones only in
  needing an inbound tunnel for the reply and not being revived by data.
* `transports`: entries of different peers touch only through the queue of
  handlers, so one peer and the router itself are followed; two messages and
  two links make order and the change of session matter.
* `sessions`: the second NTCP connection is the other side's dial, which is
  where the tables collide; with both dialed, sessions are followed until they
  are established and end (`Together`), which the proof does not need. Messages
  take one, two and three blocks, the third too long, so that reads
  end within and between messages. SSU needs three routers for an
  introduction or a peer test; a client and its server can both be rekeyed
  within four DH keys.
* `destination`: with two floodfills a request can be redirected, exhausted
  and started again; three garlic messages are tags that are made, confirmed
  and used, and the clock passes both sides' expirations.
* `clients`: commands of a socket are chosen so that two sockets meet in one
  session; the parsers see every string over the octets that matter up to
  eight (SOCKS4, HTTP) or ten (SOCKS5).
* `router`: message lengths are those at which the gateway opens, fills or
  splits a tunnel message, and one that fits an empty tunnel message and not the
  open one. Three routers, two of which change what they
  publish, and two closest floodfills make the sorted set overflow; thresholds
  and ages are scaled down so that every branch of expiry is taken. One store in
  the run carries another router's info than its key says and one has a bad
  signature. Five refusals and one use let a profile be pardoned. Of two
  routers that introduce us one has its session elsewhere, and two tags let
  them give the same one or different ones.

CHECK_DEADLOCK is off everywhere because all the systems may come to rest: all
calls have returned, streams are deleted, sessions closed, the client
interface stopped, the process crashed, or a bound is reached.

### Fairness

* NetDbRequests: threads go on; time passes; ManageRequests runs again and
  again (strong fairness: the NetDb thread is busy with messages in between,
  but its loop leaves the queue after 100 messages and looks at the clock).
* Streaming: posted closures run and set resend timers go off, as the
  service thread is always running. Nothing is assumed of the network, nor of
  the ack timer.
* SSUData: time passes, and timers that are due go off. Nothing is assumed of
  the network.
* Tunnels: the tunnels thread goes on and comes to ManageTunnels every round,
  and DetachTunnels, once begun, finishes. The first assumes that the message
  queue runs empty at times: the loop of `Tunnels::Run` drains it without a
  limit. Nothing is assumed of replies.
* Transports: its thread runs posted handlers, the peer cleanup timer goes off
  again and again, and time passes for a peer's entry. Nothing is assumed of
  NetDb, the resolver, or of sessions.

The other modules are checked for safety only and assume no fairness.

## 4. Findings

Three runs end in a state the repository's own words exclude:

* `netdb_requests_new_kept`: ManageRequests deletes a request that another
  thread has just inserted, because its creation time is still 0.
* `streaming_reply`: a repeated SYN of the accepting side, which carries no
  data, is processed again and sets the sequence number back to 0, so a
  follow-on packet that was delivered is delivered again when it is repeated.
* `ssu_data_bitfield`: the ack of fragment 7 and later is read as that of an
  earlier one, which is then no longer resent.

Further disagreements have their property in the module, marked "The code does
not keep this", and no run of their own. To see one, put the property into the
configuration named here in place of its own:

| Property | Configuration | What happens |
|---|---|---|
| `ReplyAckSound` (Streaming) | `Streaming_reply.cfg` | a follow-on packet sent before the SYN reply is processed carries -1 as its ack, which acknowledges everything (`Streaming.cpp:338`) |
| `DuplicatesFiltered` (SSUData) | `Resending_safety.cfg` | the received ids are dropped with the resend timer, not after DECAY_INTERVAL, so a resent message is handed on again (`SSUData.cpp:468`) |
| `CleanupPatient` (SSUData) | `Resending_safety.cfg` | incomplete messages whose fragments came in order have an insert time of 0 and go with the next cleanup, not after 30 seconds (`SSUData.cpp:494`) |
| `ClosedTerminates` (NTCPSession) | `Sessions_pass.cfg` | during the handshake the termination timer closes the socket, the aborted operation does not call Terminate, and the session stays in the table (`NTCPSession.cpp:702`) |
| `TableMatches` (SSUSession) | `Sessions_pass.cfg` with `Batch = 2` | the session of the previous packet of a batch takes one from an unknown endpoint and changes its own endpoint (`SSU.cpp:230`) |
| `CutUpArrives` (TunnelMessages) | `Router_pass.cfg` | a message that does not fit the open tunnel message, but does fit an empty one, is given a first fragment in the new one and nothing after it: the last fragment is never made, and the endpoint waits for it (`TunnelGateway.cpp:84`) |
| `RequestInTime` (Destination) | `Destination_pass.cfg` | the time of a request starts anew with every floodfill, so MAX_LEASESET_REQUEST_TIMEOUT does not end it (`Destination.cpp:579`) |
| `LeaseSetConfirmed` (Garlic) | `Destination_pass.cfg` | the confirmation of an older LeaseSet marks the newer one as up to date (`Garlic.cpp:55`) |
| `DeletedWhenEmpty` (Garlic) | `Destination_pass.cfg` | CleanupExpiredTags reports something left when nothing is unconfirmed, so idle sessions stay and those that wait for a confirmation go (`Garlic.cpp:106`) |
| `NTCPRemoved` (RouterContext) | `Router_pass.cfg` | SetUnreachable removes the first NTCP address, which may be the one over IPv6 (`RouterContext.cpp:157`) |

Hazards the models do not settle, at their lines: `NetworkDatabase.cpp:147`
divides by the size of a table that may be empty, and `:872` draws an index
below it minus one; `NetworkDatabase.cpp:69` clears the tables before the NetDb
thread has ended; `NetworkDatabase.cpp:499` sends three copies of a flooded
store to the same floodfill, as its list of excluded ones is never added to
(`AnswersNearest` says only where each copy goes); `NetworkDatabase.cpp:361`
counts a router as saved whose file could not be written; `:186` enters a router
info that came under an unknown key over the entry of a router that is known;
`:188` does not list a router that becomes a floodfill by an update;
`RouterInfo.cpp:104` marks a router of a bad signature unreachable, which the next
SaveUpdated undoes; `RouterInfo.cpp:70` leaves the identity of a torn file unread;
`Streaming.cpp:581` does not
resend the FIN of a closed stream; `Streaming.cpp:819` opens another stream for
a repeated SYN; `SSUData.cpp:234` acknowledges a message that comes before the
session is established, and drops it; `TunnelPool.cpp:61` clears containers
another thread walks through (a crash in `Tunnels`); `TunnelPool.cpp:283` turns
an expiring tunnel into an established one on a test reply; `Tunnel.cpp:410`
starves ManageTunnels under a steady load; `TunnelEndpoint.cpp:112` keeps what
never completes for the life of the tunnel; `Destination.cpp:536` never calls
back without a floodfill; `Destination.cpp:293` keeps the cached LeaseSet when a
store of another type comes; `SAM.cpp:417` lets a second command of a socket take
its acceptor or stream out of reach, so that later STREAM ACCEPTs are refused;
`SAM.cpp:397` connects through a session that may be deleted (the end of the
process in `SAM`); `SOCKS.cpp:468` counts a length of 0 as 256; `SAM.cpp:570` takes the first data after STREAM
ACCEPT for a command; `BOB.cpp:496` and `ClientContext.cpp:130` delete objects
others still point to (the end of the process in `BOB` and `I2PTunnel`);
`I2PTunnel.cpp:203` waits for good for the rest of a split header;
`SSU.cpp:452` leaves a router that can be reached published as unreachable
until the next start; `SSU.cpp:468` never takes away an introducer whose
session is at another endpoint than its published address.

## 5. Proofs

Every theorem is about the specification of a component, for any values of its
constants that satisfy the module's named assumption: sets of routers, calls,
messages and sockets are arbitrary, finite or not unless an assumption says so,
and bounds are arbitrary numbers. The assumptions are weak: sets that play
different roles are disjoint, numbers are naturals, a window or a room is not
empty. A theorem about `X` has the form `XSpec => []P`, from an inductive
invariant `I` with `Init => I`, `I /\ [Next]_vars => I'` and `I => P`. Each step
lemma has one case per action. Where one handler changes several tables at
once, the invariant is stated of a *world*, the record the handler's operators
work on, so that each operator is shown to keep it on its own.

### NetDbProofs (`ConstantsAssumption` of `NetDbRequests`, `DbAssumption`)

* `SpecTypeOK`; `NoCallbackLost`: `Spec => [](TypeOK /\ NoLostCallback)`.
  `NoLostCallback` is not inductive: nothing in it says that a request still in
  the table has its callback. `LostInv` adds `TableInv` (the table maps a hash
  to a call that asked for it; a call that has not begun has no hash, no
  callback and no outcome; a thread inside RequestComplete holds a request that
  was begun) and `CallbackInv` (a begun client call has its callback set or has
  had it run; a thread that has run the callback and not reset it has recorded
  an outcome).
* `CompletedOnce`: `Spec => []SingleCompletion`. `OnceInv` says that while no
  client call has found itself without a floodfill, only the NetDb thread is
  inside RequestComplete, the request it holds is still in the table, and a
  callback that is set has not run, except between its run and its reset.
  `RoutedBackward` shows that the hypothesis, once false, stays false, so that
  it may be used before the step as well.
* `FreshLookupKept`: `Spec => FreshKept`, an action property, from the type
  and table invariants.
* `SpecFileKept`, `SpecFloodfillKnown`. The table, the list of floodfills and
  the files are in step with the objects, also in the middle of SaveUpdated,
  where the routers still to be saved are known. What the code does not keep
  is in the statements: a router no store mixed with another (`dbMixed`) and no
  save of which failed is on disk as in memory; a listed object that can be
  chosen is in the table unless its entry was replaced; one that `entered` the
  list is still there, between rounds, unless a save of it failed.
* `SpecAnswersNearest`. GetClosestFloodfills goes through a list in the order
  of arrival and keeps a set of at most m; `BestOf` says what it has after any
  part of the list: the nearest so far, in order of distance (`InsertedFacts`,
  `SortedWithBest`, `FloodfillsBest`); GetClosestFloodfill called in turn comes
  to the same (`BestMore`, `InTurnBest`). What has fewer than n nearer ones is
  then a count (`BestCounts`, by the pigeonhole principle). It needs that no
  object is listed twice, which is inductive with the invariant of `FileKept`
  (`ListOnceKept`), that a listed object that can be chosen is the one in the
  table, so that no two of one identity count, and of `DbAssumption` that two
  routers are never equally far, as they are not by XOR. It is about the
  entries of `m_Floodfills`, which are not all the routers that say they are
  floodfills, and about histories without stores under another router's key;
  that excluded routers are dropped after the choice is part of the statement.

### StreamProofs, StreamingProofs (`ConstantsAssumption`)

The theorems are in `StreamingProofs`, for any number of streams, packets and
units, any window and any bound on what is written, sent again or delivered
twice.

* `SpecServerInOrder`, `SpecNoStall`. The sequence numbers a stream has used cut
  what it wrote into pieces. No variable holds the places of the cuts, so the
  invariant `World` says that there are some: each packet the stream keeps, has
  posted or has on the network holds the piece of its number (`Sends`,
  `Carried`), and what the other side has delivered is the pieces up to its last
  number, with the packets it saved beyond (`Listens`). `Sends` also says what
  an established stream with data left waits for, which is `NoStall`. A
  handler is a chain of records, each of which may only add numbers behind
  the old ones (`Later`); `Acts`, `Receives` and `Accepts` say what a whole
  handler may change, and every step of the specification is one of the three
  (`NextHappens`). The loop over the saved packets is a function on numbers,
  followed from `st.last` on.
* `SpecAckSound`, `SpecGracefulClose`, under `MAX_WINDOW_SIZE + 1 < MaxNacks`
  (128 and 256 in the code): a quick ack can then name all the packets of a
  window that are missing, as a longer list is cut off and the ack says less
  than it should. The second invariant is `Heeds`: while the stream that was
  opened is in its table, all its packets but the SYN go to one peer, that peer
  has each number that was used or the packet is still kept, what a packet of
  the peer acknowledges the peer has, and the numbers that are missing fit a
  window. What was once given up stays with the peer (`Safe`), which gives
  `AckSound`; `GracefulClose` follows because Close waits until nothing is kept
  and nothing is in the buffer. For the accepting side's data neither holds:
  its packets are taken for acknowledged by any packet without NO_ACK
  (section 4, run `streaming_reply`).

### TransportsProofs (`SSUAssumption`, `NTCPAssumption`, `TransportsAssumption`)

* `SpecClientAfterServer`. The invariant says that every key a session has kept
  for a DeliveryStatus is proven, that a DeliveryStatus under way is encrypted
  with a proven key, and that an established outgoing session that is not
  getting a new key has a proven one; with it goes what makes the numbers of
  sessions mean something: a table, a batch or a peer test points to a live
  session. `kept` belongs to the model because of this proof: resending the
  DeliveryStatus with the session's *current* key, as an earlier version of the
  module had it, is not what SSUData does (it resends the encrypted datagram).
* `SpecSendQueueMoves`. A session that is established or has messages queued has
  its read outstanding, so that a session whose connection is gone will be
  terminated by it; a new message starts a write or finds one under way.
* `SpecInOrder` is the refinement `TransportsSpec => TransportsInOrder`, for any
  number of routers, sessions and messages. Messages for a router wait in two
  places behind each other, delayed in its entry and posted to the service.
  `OrderInv`: each place is in order, everything delayed is older than everything
  posted, everything sent is older than both, and an entry with a session has
  nothing delayed (`SpecSessionsTake`). Every step is then shown to be a step of
  `OrderedDelivery` or a stutter: PostMessages and PeerConnected hand on a batch
  in order, a disconnection or a give-up drops.
* `SpecNTCPInOrder` is the refinement `NTCPSpec => NTCPInOrder`, for any number
  of connections and messages of any number of blocks. A session's messages wait
  on the wire, in blocks, and behind them in the send queue; `Lane` says of the
  messages the wire completes and of the queue what `OrderInv` says of the two
  places of Transports, and the two share the lemmas about sequences and steps.
  `QuietInv` is needed besides: a session is given nothing before it is
  established, and the session whose connection is being made has given the
  other side nothing, as Connected starts the numbers and HandleConnect the
  wire anew. What a read completes (`Complete`) and what a write frames
  (`Frames`) are functions on numbers, so that induction over a set of numbers
  reaches them: framing messages and completing them again gives them back, and
  a stream of blocks completes the same messages however it is cut.

### ResendingProofs (`SSUDataAssumption`)

* `SpecHandedWhole`. An incomplete message has got every fragment before the
  expected one and every fragment it saved; fragments under way exist; a
  message that is handed on had all its fragments. Nothing is said of once: see
  `DuplicatesFiltered`.
* `SpecFirstByteAcked`, for any number of fragments and of bits in a byte. A bit of
  an ack under way stands for a fragment that has arrived, at its place in its
  byte; what ProcessAcks reads of it is a place in the first byte
  (`ReadInFirstByte`). So the misreading of `ssu_data_bitfield` never costs a
  fragment of a later byte.

### DestinationProofs (`DestinationAssumption`, `GarlicAssumption`)

* `SpecCallbackOnce`. A call is posted at most once; a posted call has no
  request; a request belongs to a call that waits for its destination and its
  timer runs; a call is answered once when it is over, and not before.
* `SpecDecryptableInTime`. Messages are numbered by their age, a tag is held in
  one place only (a session's usable tags or one of its unconfirmed sets) and
  not in a message under way, and the receiver has, or had long enough ago,
  every tag the sender may use: confirmation of a message says that it arrived.
  The one relation between timeouts it needs is `Outgoing < Incoming`.

### ClientsProofs (`TunAssumption`, `BobAssumption`, `SAMAssumption`, `ProxyAssumption`)

* `SpecTunnelOwned`. What one socket may look like (`ConnectionInv`): only an
  open connection has operations under way, and an open one reads both sides,
  or waits for the header of an HTTP request.
* `SpecBobSerial`. A session has as many operations under way as it was asked
  for, with those LIST added and without those a handler dropped; each handler
  takes one and starts one (`Owes`, `Answered`). So there are never two without
  LIST, and none only after a drop.
* `SpecStreamsOwned`, `SpecAcceptorLive`. The sockets, the sessions' lists and
  the table of ids are kept in step (`World`); a socket that looks up a
  destination is in no list yet, and its session may be gone when the answer
  comes. Sockets that repeat a session command may hold anything; both theorems
  are about the others, which the reused ones never disturb.
* `SpecRequestExact`. The state of a parser and its countdown tell which parts
  of a request the octets heard so far make up and how many are missing
  (`Sound4`, `Sound5`, `HTTPState`), so only the state DONE goes with a whole
  request. An octet moves the parser to the state of one octet more, or turns
  down what can no longer become a request (one lemma per state); then any
  piece does, as the parsers along a piece are the values of a function on
  numbers (`ParsingExists`, `NatSetInduction`). The countdown is an octet wide:
  that needs ports and addresses shorter than `Octets`, as `ProxyAssumption`
  says, while the length 0 of a host or a list of methods runs to `Octets` in
  the code and is excluded from the statement.

### RouterProofs (`ConstantsAssumption` of `Tunnels`, `TunnelMessagesAssumption`)

* `SpecTypeOK`, `SpecPoolSound` and `SpecTwoStrikes` share one invariant.
  `PoolInv`: whatever is listed is built, a pool tunnel is listed, points back and
  has not failed, nor has a tunnel under test; the tunnel TunnelCreated is about
  to insert is like a pool tunnel and not yet one. `AgeInv` follows ManageTunnels
  through its five steps: what the step has passed has not expired, and a
  creation that is left is within its time. That is why `PoolSound` speaks of
  expiry only when a round is over. `StrikesInv` ties the state of a tunnel to
  its failed tests.
  The assumption is that the creation timeout is no longer than the expiration
  timeout.
* `SpecNotShunned`. The run of rejections is bounded by the counter of
  rejections and by the uses, in memory while the profile is loaded and on
  disk otherwise. It begins anew where the counters are lost: by a crash, a
  failed or cut save, an expired or unreadable file.
* `SpecPublishedConsistent`. The published record and the file satisfy the same
  condition on the order of addresses, capabilities and introducers: either
  all addresses are of IPv6, or the first of SSU is of IPv4 and NTCP comes
  back at its host. Each published introducer whose session is at its address
  is on the list of the SSU server.
* `SpecHandedInFull`. For every tunnel and message there *is* a size of the
  first fragment such that all of the message in the gateway's buffer and on
  the wire was cut with that size, follow-on fragments have 996 bytes, and the
  last one ends with the message (`Sound`); then whatever the endpoint puts
  together in order, from fragments lost, repeated or overtaken, has each byte
  at its place. A message waits once for a gateway and is given to it once.
  The size is a witness of an existential quantifier, not a variable of the
  model. The proof needs nothing of the lengths of messages but that they are
  not empty and within I2NP_MAX_MESSAGE_SIZE; trying it on every length is what
  found the message that is cut up without a last fragment (section 4).
* `SpecOneOvertakenHarmless`. The rows on the wire and those the gateway has not
  sent form one line (`Line`), and each message the endpoint can take has one of
  five lives in it (`Story`): its next fragments are ahead in order and the
  endpoint has put together those before them (`Ahead`); one fragment has
  overtaken the one before it and waits for it (`Gap`); the message was passed
  on (`PassedOn`); or it is one that is cut up although it fits, whose single
  fragment is on its way (`Beyond`) or has arrived (`Stuck`). The induction
  needs that a tunnel message carries at most one fragment of a message
  (`Sole`), so that two rows that change places are of one message only if they
  follow each other; that giving a message to the gateway adds its rows behind
  the others (`PutsWell`); and that each message is given once (`GivenOnce`).
  `OvertakenInv` is inductive together with the invariant of `HandedInFull`. When
  nothing is left on the line, `Story` leaves only messages passed on once and
  the one cut up although it fits. The proof found where the endpoint's limit
  lies: a message that grows towards it has been copied to a buffer where it
  starts at offset 2, so what is too long for the endpoint is so two bytes
  earlier (`HandleFollowOnFragment`).
* `SpecHeldOnlyBehindBuild`. Within a batch, a tunnel that holds something and
  has not been left behind a build message is the tunnel of the message before.

### Only model-checked

* All liveness (`EventuallyAnswered`, `SendResolves`, `CloseCompletes`,
  `SentResolves`, `IncompleteResolves`, `PendingResolved`, `StoppedPoolDrains`,
  `DelayedResolves`): it rests on ENABLED, which the prover does not reason
  about.
* `SessionTimed` is not kept for arbitrary `Dials` and `Batch`; the run checks
  one dialing pair and batches of one packet.

## 6. Not modelled

* Cryptography, signatures, identities, parsing and serialisation of records
  (and with them most of `RouterInfo.cpp`, `Identity.cpp`, `TunnelCrypto.cpp`
  and `crypto/`, a good third of the lines of `src/core`): taken as correct; outside
  `NetDb`, which stores router infos with bad signatures, a record that does not
  verify would not arrive. There is no state in them to check.
* The router that a file of less than 40 bytes makes, as its identity is never
  read; writes of our own `router.info` are whole; two RouterInfo objects of one
  router may each have a profile, of which one is followed.
* Reseed, UPnP, configuration, HTTP and base64 helpers, logging, the daemon on
  its platforms, the web console and I2PControl: I/O, formatting and glue.
* The address book: a map with a file, and a sequence of downloads on one
  timer.
* Within the modelled parts: AsyncReceive and RTT estimation in streaming,
  packet sizes in SSU data, the V6 thread of the SSU server, Stop of the
  transports and of NetDb, bandwidth and DH key supply, hop selection, the
  life of transit tunnels, acceptors and ports of a destination, the UDP side
  of SAM, header rewriting in the proxies, hosts and ports of our own
  addresses.
* Parts in one run do not interleave (section 2). Where one part calls
  another, the module has the other's interface instead of its module.

## 7. Plan

The modules of the system's stateful parts are written, and most of the safety
properties the runs check are proved. What is left, in this order:

1. `SessionTimed` of `SSUSession` for one dialing pair and batches of one packet,
   from the invariant of `SpecClientAfterServer` and the states each timer
   belongs to.
2. `TypeOK` for the modules that have a type invariant only inside their proofs,
   as a property of their runs where it says something of its own.
