---------------------------- MODULE NTCPSession ----------------------------
(* NTCP sessions between two routers (src/core/transport/NTCPSession.cpp):  *)
(* the four phase handshake over a TCP connection, the send queue, framing  *)
(* of messages into cipher blocks, the termination timer, the table of      *)
(* sessions and the ban list.  Each session has one outstanding read or     *)
(* handshake write (op) and maybe one outstanding message write (sending);  *)
(* handlers run on the router's one NTCP thread.  A TCP connection keeps    *)
(* the order of bytes and may break.  Keys are not modelled (a phase either *)
(* verifies or does not), nor NetDb's unreachable mark.                     *)
EXTENDS Integers, Sequences, FiniteSets, SequencesExt

CONSTANTS
  Nodes,        \* the two routers
  LongIdents,   \* those whose identity needs the extra read of phase 3
  Conns,        \* bound: TCP connections ever dialed
  Faulty,       \* bound: those the network may cut or where the handshake may fail
  Dialer,       \* who dials each of them
  Blocks,       \* cipher blocks of each message, our router info first;
                \* bound: Len(Blocks) messages per session
  Senders,      \* bound: sessions that are given messages
  Together,     \* bound: connections dialed while messages are followed
  MaxBlocks     \* NTCP_MAX_MESSAGE_SIZE in blocks

ASSUME NTCPAssumption ==
  /\ Cardinality(Nodes) = 2 /\ LongIdents \subseteq Nodes
  /\ Blocks \in Seq(Nat \ {0}) /\ Blocks # <<>> /\ MaxBlocks \in Nat /\ Together \in Nat
  /\ Senders \subseteq Conns \X {"client", "server"}

VARIABLES
  dialed,     \* connections dialed so far
  broken,     \* connections the network has cut
  sess,       \* session objects: <<connection, side>>
  wire,       \* blocks a session has written and the other not read
  sessions,   \* m_NTCPSessions of each router: the session with the other
  banned,     \* m_BanList of each router: is the other router's address in it
  given,      \* messages given to a session
  got         \* messages of a session that the other side's m_Handler was given

ntcpVars == <<dialed, broken, sess, wire, sessions, banned, given, got>>

Ids == Conns \X {"client", "server"}
Nobody == <<0, "client">>
Peer(i) == <<i[1], IF i[2] = "client" THEN "server" ELSE "client">>
Other(n) == CHOOSE x \in Nodes : x # n
Owner(i) == IF i[2] = "client" THEN Dialer[i[1]] ELSE Other(Dialer[i[1]])

NewSession(op) ==
  [op |-> op, open |-> TRUE, timer |-> FALSE, terminated |-> FALSE, established |-> FALSE,
   ident |-> FALSE, sending |-> FALSE, sendQueue |-> <<>>, received |-> FALSE]

NTCPInit ==
  /\ dialed = {}
  /\ broken = {}
  /\ sess = [i \in Ids |-> NewSession("none")]
  /\ wire = [i \in Ids |-> <<>>]
  /\ sessions = [n \in Nodes |-> Nobody]
  /\ banned = [n \in Nodes |-> FALSE]
  /\ given = [i \in Ids |-> <<>>]
  /\ got = [i \in Ids |-> <<>>]

(* An operation of session i may fail; what it writes is lost if it must.   *)
MayFail(i) == i[1] \in broken \/ ~sess[Peer(i)].open
Write(i, blocks) ==
  wire' = IF MayFail(i) \/ ~sess[i].open THEN wire ELSE [wire EXCEPT ![i] = @ \o blocks]

(* A phase, the time sync and a message of so many cipher blocks; only      *)
(* messages have positive numbers.                                          *)
Block(what, left) == [what |-> what, left |-> left]
DbStore == 1
CreateMsgBuffer(m) == [k \in 1..Blocks[m] |-> Block(m, Blocks[m] - k)]
Phase(p) == Block(-p, 0)
PhaseExtra == Block(-5, 0)
TimeSync == Block(-6, 0)
IsMessage(b) == b.what > 0

----------------------------------------------------------------------------
(* Terminate, given the session after the handler's other assignments; the  *)
(* entry of the remote identity is erased, whichever session it is.         *)
Without(i) ==
  IF sess[i].ident /\ ~sess[i].terminated THEN [sessions EXCEPT ![Owner(i)] = Nobody] ELSE sessions

(* A write that is still outstanding has no more effect.                    *)
ClosedSession(s) ==
  [NewSession(s.op) EXCEPT !.terminated = TRUE, !.open = FALSE, !.received = s.received]

Terminate(i, s) ==
  /\ sess' = [sess EXCEPT ![i] = ClosedSession(s)]
  /\ sessions' = Without(i)
  /\ wire' = [wire EXCEPT ![Peer(i)] = <<>>]               \* nobody reads it any more

Set(i, s) == sess' = [sess EXCEPT ![i] = s]
Op(i, op) == Set(i, [sess[i] EXCEPT !.op = op])
ScheduleTermination(s) == [s EXCEPT !.timer = TRUE]

----------------------------------------------------------------------------
(* NTCPServer::Connect, for Transports, and its outcome.                    *)
ConnectNTCP(c) ==
  /\ c \notin dialed
  /\ \/ Cardinality(dialed) < Together
     \/ \A i \in Ids : got[i] = <<>> /\ Len(given[i]) <= 1      \* bound: see Followed
  /\ dialed' = dialed \cup {c}
  /\ Set(<<c, "client">>, [NewSession("connect") EXCEPT !.ident = TRUE])
  /\ sessions' = [sessions EXCEPT ![Dialer[c]] = <<c, "client">>]
  /\ UNCHANGED <<broken, wire, banned, given, got>>

(* ClientLogin sends phase 1.                                               *)
HandleConnect(i) ==
  /\ sess[i].op = "connect" /\ sess[i].open
  /\ \/ /\ sess' = [sess EXCEPT ![i] = ScheduleTermination([@ EXCEPT !.op = "r2"]),
                                ![Peer(i)] = NewSession("accept")]
        /\ wire' = [wire EXCEPT ![i] = <<Phase(1)>>]
        /\ UNCHANGED sessions
     \/ Terminate(i, [sess[i] EXCEPT !.op = "none"])
  /\ UNCHANGED <<dialed, broken, banned, given, got>>

(* HandleAccept and HandleAcceptV6; an address is banned for a while.       *)
HandleAccept(i) ==
  /\ sess[i].op = "accept"
  /\ UNCHANGED <<dialed, broken, given, got>>
  /\ \/ /\ banned[Owner(i)]                                  \* conn is dropped
        /\ Set(i, [sess[i] EXCEPT !.op = "none", !.open = FALSE])
        /\ wire' = [wire EXCEPT ![Peer(i)] = <<>>]
        /\ UNCHANGED <<sessions, banned>>
     \/ /\ banned' = [banned EXCEPT ![Owner(i)] = FALSE]     \* not, or not any more
        /\ IF MayFail(i)
           THEN /\ Set(i, [sess[i] EXCEPT !.op = "none", !.open = FALSE])    \* no remote_endpoint
                /\ wire' = [wire EXCEPT ![Peer(i)] = <<>>]
           ELSE /\ Set(i, ScheduleTermination([sess[i] EXCEPT !.op = "r1"]))     \* ServerLogin
                /\ UNCHANGED wire
        /\ UNCHANGED sessions

(* A handshake write is followed at once by the read of the next phase:     *)
(* HandlePhase1Sent, 2 and 3 only start it, and fail like it.               *)
(* The next block for session i is b.                                       *)
Arrived(i, op, b) ==
  /\ sess[i].op = op /\ sess[i].open
  /\ wire[Peer(i)] # <<>> /\ Head(wire[Peer(i)]) = b

(* Session i reads one block and writes some.                               *)
ReadWrite(i, blocks) ==
  wire' = [wire EXCEPT ![Peer(i)] = IF sess[i].open THEN Tail(@) ELSE <<>>,
                       ![i] = IF MayFail(i) THEN @ ELSE @ \o blocks]

HandlePhase1Received(i) ==
  /\ Arrived(i, "r1", Phase(1))
  /\ Op(i, "r3")
  /\ ReadWrite(i, <<Phase(2)>>)
  /\ UNCHANGED <<dialed, broken, sessions, banned, given, got>>

HandlePhase2Received(i) ==
  /\ Arrived(i, "r2", Phase(2))
  /\ Op(i, "r4")
  /\ ReadWrite(i, <<Phase(3)>> \o (IF Owner(i) \in LongIdents THEN <<PhaseExtra>> ELSE <<>>))
  /\ UNCHANGED <<dialed, broken, sessions, banned, given, got>>

(* An identity with a session already: the new session is terminated (and   *)
(* the old one erased from the table), and goes on to a write that fails.   *)
HandlePhase3Received(i) ==
  LET s == [sess[i] EXCEPT !.ident = TRUE, !.op = IF Dialer[i[1]] \in LongIdents THEN "r3x" ELSE "w4"]
  IN /\ Arrived(i, "r3", Phase(3))
     /\ IF sessions[Owner(i)] # Nobody
        THEN /\ Set(i, ClosedSession(s))
             /\ sessions' = [sessions EXCEPT ![Owner(i)] = Nobody]
             /\ wire' = [wire EXCEPT ![Peer(i)] = <<>>]
        ELSE /\ Set(i, s)
             /\ UNCHANGED sessions
             /\ ReadWrite(i, IF s.op = "w4" THEN <<Phase(4)>> ELSE <<>>)
     /\ UNCHANGED <<dialed, broken, banned, given, got>>

HandlePhase3ExtraReceived(i) ==
  /\ Arrived(i, "r3x", PhaseExtra)
  /\ Op(i, "w4")
  /\ ReadWrite(i, <<Phase(4)>>)
  /\ UNCHANGED <<dialed, broken, sessions, banned, given, got>>

(* Connected sends the time sync, queues our router info behind it and      *)
(* tells Transports; then the first read.                                   *)
Connected(i) ==
  /\ Set(i, [sess[i] EXCEPT !.established = TRUE, !.op = "recv", !.sending = TRUE,
                            !.sendQueue = Append(@, DbStore)])
  /\ given' = [given EXCEPT ![i] = <<DbStore>>]

AddNTCPSession(i) == [sessions EXCEPT ![Owner(i)] = i]

HandlePhase4Sent(i) ==
  /\ sess[i].op = "w4" /\ sess[i].open
  /\ sessions' = AddNTCPSession(i)
  /\ Connected(i)
  /\ Write(i, <<TimeSync>>)
  /\ UNCHANGED <<dialed, broken, banned, got>>

HandlePhase4Received(i) ==
  /\ Arrived(i, "r4", Phase(4))
  /\ Connected(i)
  /\ ReadWrite(i, <<TimeSync>>)
  /\ UNCHANGED <<dialed, broken, sessions, banned, got>>

(* What came does not verify: wrong ident, hash or signature.               *)
PhaseRefused(i) ==
  /\ i[1] \in Faulty /\ sess[i].op \in {"r1", "r2", "r3", "r3x", "r4"} /\ sess[i].open /\ wire[Peer(i)] # <<>>
  /\ Terminate(i, [sess[i] EXCEPT !.op = "none"])
  /\ UNCHANGED <<dialed, broken, banned, given, got>>

(* A phase is not sent or read because the connection is gone.              *)
PhaseFailed(i) ==
  /\ sess[i].op \in {"w4", "r1", "r2", "r3", "r3x", "r4"} /\ sess[i].open /\ MayFail(i)
  /\ Terminate(i, [sess[i] EXCEPT !.op = "none"])
  /\ UNCHANGED <<dialed, broken, banned, given, got>>

----------------------------------------------------------------------------
(* Messages.                                                                *)
Frames(msgs) ==
  LET frames[k \in 0..Len(msgs)] ==
        IF k = 0 THEN <<>> ELSE frames[k - 1] \o CreateMsgBuffer(msgs[k])
  IN frames[Len(msgs)]

(* Bound: with more connections sessions are followed only until they are   *)
(* established, and then until they terminate.                              *)
Followed == Cardinality(dialed) <= Together

(* SendI2NPMessages and the PostI2NPMessages it posts.                      *)
PostI2NPMessages(i) ==
  LET m == Len(given[i]) + 1
      s == sess[i]
  IN /\ i \in Senders /\ s.established /\ m <= Len(Blocks)
     /\ Followed
     /\ given' = [given EXCEPT ![i] = Append(@, m)]
     /\ IF s.sending
        THEN Set(i, [s EXCEPT !.sendQueue = Append(@, m)]) /\ UNCHANGED wire
        ELSE Set(i, [s EXCEPT !.sending = TRUE]) /\ Write(i, CreateMsgBuffer(m))
     /\ UNCHANGED <<dialed, broken, sessions, banned, got>>

(* Variant: the next messages wait for the next call of Send.               *)
AfterSentIdle(s) == [s EXCEPT !.sending = FALSE]
(* Variant: the queue is not cleared.                                       *)
AfterSentKept(s) == [s EXCEPT !.sending = s.sendQueue # <<>>]
AfterSent(s) ==
  IF s.sendQueue # <<>> THEN [s EXCEPT !.sendQueue = <<>>] ELSE ScheduleTermination([s EXCEPT !.sending = FALSE])

HandleSent(i) ==
  /\ sess[i].sending /\ Followed
  /\ \/ /\ sess[i].open
        /\ Set(i, AfterSent(sess[i]))
        /\ Write(i, Frames(sess[i].sendQueue))
     \/ /\ ~sess[i].open \/ MayFail(i)
        /\ Set(i, [sess[i] EXCEPT !.sending = FALSE])
        /\ UNCHANGED wire
  /\ UNCHANGED <<dialed, broken, sessions, banned, given, got>>

(* DecryptNextBlock over the blocks read: messages end with their last      *)
(* block, a header that announces too long a message ends the session.      *)
TooLong(b) == IsMessage(b) /\ b.left >= MaxBlocks
Complete(blocks) ==
  LET read[k \in 0..Len(blocks)] ==
        IF k = 0 THEN <<>>
        ELSE IF IsMessage(blocks[k]) /\ blocks[k].left = 0 THEN Append(read[k - 1], blocks[k].what)
        ELSE read[k - 1]
  IN read[Len(blocks)]

HandleReceived(i, k) ==
  /\ Followed /\ sess[i].op = "recv" /\ sess[i].open /\ k \in 1..Len(wire[Peer(i)])
  /\ LET new == SubSeq(wire[Peer(i)], 1, k)
         bad == {j \in 1..k : TooLong(new[j])}
         good == IF bad = {} THEN new ELSE SubSeq(new, 1, (CHOOSE j \in bad : \A x \in bad : j <= x) - 1)
         s == [sess[i] EXCEPT !.received = TRUE]
     IN /\ got' = [got EXCEPT ![Peer(i)] = @ \o Complete(good)]
        /\ IF bad = {}
           THEN /\ Set(i, ScheduleTermination(s))
                /\ wire' = [wire EXCEPT ![Peer(i)] = SubSeq(@, k + 1, Len(@))]
                /\ UNCHANGED sessions
           ELSE Terminate(i, [s EXCEPT !.op = "none"])
  /\ UNCHANGED <<dialed, broken, banned, given>>

(* A server session that never got a byte bans the address.                 *)
Ban(i) ==
  banned' = IF ~sess[i].received /\ i[2] = "server" THEN [banned EXCEPT ![Owner(i)] = TRUE] ELSE banned

ReceiveFailed(i) ==
  /\ sess[i].op = "recv" /\ (MayFail(i) \/ ~sess[i].open)
  /\ Ban(i)
  /\ Terminate(i, [sess[i] EXCEPT !.op = "none"])
  /\ UNCHANGED <<dialed, broken, given, got>>

(* A handshake operation on a socket closed here: operation_aborted, on     *)
(* which the phases do nothing; HandleConnect terminates.                   *)
Aborted(i) ==
  /\ ~sess[i].open /\ sess[i].op \notin {"none", "recv"}
  /\ IF sess[i].op = "connect" THEN Terminate(i, [sess[i] EXCEPT !.op = "none"])
                               ELSE Op(i, "none") /\ UNCHANGED <<wire, sessions>>
  /\ UNCHANGED <<dialed, broken, banned, given, got>>

HandleTerminationTimer(i) ==
  /\ sess[i].timer /\ sess[i].open
  /\ Set(i, [sess[i] EXCEPT !.open = FALSE, !.timer = FALSE])
  /\ wire' = [wire EXCEPT ![Peer(i)] = <<>>]
  /\ UNCHANGED <<dialed, broken, sessions, banned, given, got>>

(* Done, called by Transports for a session it was told of.                 *)
NTCPDone(i) ==
  /\ sess[i].established
  /\ Terminate(i, sess[i])
  /\ UNCHANGED <<dialed, broken, banned, given, got>>

(* The network cuts a connection.                                           *)
Cut(c) ==
  /\ c \in Faulty \ broken /\ sess[<<c, "server">>].op # "none"
  /\ broken' = broken \cup {c}
  /\ wire' = [wire EXCEPT ![<<c, "client">>] = <<>>, ![<<c, "server">>] = <<>>]
  /\ UNCHANGED <<dialed, sess, sessions, banned, given, got>>

BanExpires(n) ==
  /\ banned[n]
  /\ banned' = [banned EXCEPT ![n] = FALSE]
  /\ UNCHANGED <<dialed, broken, sess, wire, sessions, given, got>>

NTCPNext ==
  \/ \E c \in Conns : Cut(c) \/ ConnectNTCP(c)
  \/ \E n \in Nodes : BanExpires(n)
  \/ \E i \in Ids :
       \/ HandleConnect(i) \/ HandleAccept(i)
       \/ HandlePhase1Received(i) \/ HandlePhase2Received(i)
       \/ HandlePhase3Received(i) \/ HandlePhase3ExtraReceived(i)
       \/ HandlePhase4Sent(i) \/ HandlePhase4Received(i)
       \/ PhaseRefused(i) \/ PhaseFailed(i) \/ Aborted(i)
       \/ PostI2NPMessages(i) \/ HandleSent(i)
       \/ ReceiveFailed(i) \/ HandleTerminationTimer(i) \/ NTCPDone(i)
       \/ \E k \in 1..Len(wire[Peer(i)]) : HandleReceived(i, k)

NTCPSpec == NTCPInit /\ [][NTCPNext]_ntcpVars

----------------------------------------------------------------------------
(* Messages on their way from session i: those not read to their last       *)
(* block, then the send queue.                                              *)
Underway(i) == Complete(wire[i]) \o sess[i].sendQueue

(* What HandleReceived gives to the handler is what was given to the other  *)
(* side's session, in order and once, however the stream of blocks is cut   *)
(* and whichever of m_SendQueue and Send a message takes.                   *)
NTCPDelivery == INSTANCE OrderedDelivery WITH
  Channels <- Senders,
  accepted <- [i \in Senders |-> Len(given[i])],
  pending <- [i \in Senders |-> Range(Underway(i))],
  handed <- got
NTCPInOrder == NTCPDelivery!Spec

(* Messages in m_SendQueue are always on their way: a write is outstanding  *)
(* whose HandleSent takes them, or the connection is gone and HandleReceived*)
(* will terminate the session (the comment in HandleSent).                  *)
SendQueueMoves ==
  \A i \in Ids : sess[i].sendQueue # <<>> =>
    sess[i].sending \/ (sess[i].op = "recv" /\ (MayFail(i) \/ ~sess[i].open))

(* HandleTerminationTimer closes the socket to "invoke Terminate () from    *)
(* HandleReceive": a session in the table whose socket is closed has an     *)
(* operation outstanding that will terminate it.  The code does not keep    *)
(* this.                                                                    *)
ClosedTerminates ==
  \A n \in Nodes : sessions[n] # Nobody =>
    sess[sessions[n]].open \/ sess[sessions[n]].op # "none"
=============================================================================
