----------------------------- MODULE Streaming -----------------------------
(***************************************************************************)
(* The streaming protocol (core/Streaming.cpp, core/Streaming.h): reliable  *)
(* byte streams between two destinations over I2P data messages, which may  *)
(* be lost, delayed, reordered and duplicated.                              *)
(*                                                                          *)
(* One destination opens the stream Outgoing, the other one accepts.  Every *)
(* method of Stream is an operator from the stream's record to its new      *)
(* record; the packets it hands to SendPackets are collected in .out and    *)
(* put on the network by the action.  A destination's handlers all run on   *)
(* its one service thread, so every handler is one step; what a handler     *)
(* posts to the service runs later, in order (.posted).                     *)
(*                                                                          *)
(* Data is a sequence of units; a follow-on packet has room for MTU units,  *)
(* a SYN packet for SynMTU.  Time is abstracted: a timer that is set may go *)
(* off at any moment, and any of the unacknowledged packets may be old      *)
(* enough to be sent again.  SendPackets without a lease, a LeaseSet or a   *)
(* tunnel is a loss on the network.  Signatures always verify.              *)
(***************************************************************************)
EXTENDS Integers, Sequences, SequencesExt, FiniteSetsExt

CONSTANTS
  Incoming,                 \* ids the accepting destination can give streams
  MTU, SynMTU,              \* units that fit a follow-on packet, a SYN packet
  WINDOW_SIZE,              \* slow start ends here
  MAX_WINDOW_SIZE,
  MAX_NUM_RESEND_ATTEMPTS,
  MaxNacks,                 \* 256
  AcceptorSet,              \* may the accepting side have an acceptor: values
  Closers,                  \* bound: streams whose application calls Close
  WriteSizes,               \* bound: units an application sends at a time
  MaxUnits,                 \* bound: units written to the outgoing stream
  MaxReplyUnits,            \* bound: units written to an incoming stream
  MaxDups                   \* bound: packets delivered twice

Outgoing == 1               \* the stream of CreateNewOutgoingStream
NoID == 0                   \* m_SendStreamID before the peer is known
StreamIDs == {Outgoing} \cup Incoming

MIN_WINDOW_SIZE == 1

ASSUME ConstantsAssumption ==
  /\ Incoming \subseteq Nat \ {NoID, Outgoing}
  /\ {MTU, SynMTU, WINDOW_SIZE, MAX_NUM_RESEND_ATTEMPTS, MaxNacks}
       \subseteq Nat \ {0}
  /\ MAX_WINDOW_SIZE \in Nat /\ MAX_WINDOW_SIZE >= WINDOW_SIZE
  /\ AcceptorSet \subseteq BOOLEAN
  /\ Closers \subseteq StreamIDs
  /\ WriteSizes \cup {MaxUnits, MaxReplyUnits, MaxDups} \subseteq Nat

VARIABLES
  streams,                  \* streams[s]: the Stream object with that id
  net,                      \* packets under way
  dups                      \* how many were duplicated so far

vars == <<streams, net, dups>>

(* The ack field of a sender that has received nothing holds -1, which the  *)
(* receiver reads as the largest uint32_t.                                  *)
AllOnes == 1000
AckField(last) == IF last < 0 THEN AllOnes ELSE last

NewStream == [
  status |-> "New",         \* m_Status
  peer |-> NoID,            \* m_SendStreamID
  seqn |-> 0,               \* m_SequenceNumber
  last |-> -1,              \* m_LastReceivedSequenceNumber
  sent |-> {},              \* m_SentPackets
  saved |-> {},             \* m_SavedPackets
  buf |-> <<>>,             \* m_SendBuffer
  eof |-> FALSE,            \* m_SendBuffer.eof ()
  window |-> MIN_WINDOW_SIZE,
  attempts |-> 0,           \* m_NumResendAttempts
  acks |-> 0,               \* waits on m_AckSendTimer, while m_IsAckSendScheduled
  resendSet |-> FALSE,      \* m_ResendTimer is waiting
  handler |-> FALSE,        \* m_SendHandler is set
  posted |-> <<>>,          \* what was posted to the service
  inTable |-> TRUE,         \* in m_Streams of its destination
  closing |-> FALSE,        \* Close was called, or no application has it
  written |-> <<>>,         \* everything the application has sent
  delivered |-> <<>>,       \* everything put into m_ReceiveQueue
  out |-> {}]

NoStream == [NewStream EXCEPT !.status = "None", !.inTable = FALSE]

IsOpen(st) == st.status = "Open"
IsEstablished(st) == st.peer # NoID
Exists(s) == streams[s].status # "None"

-----------------------------------------------------------------------------
(* Sending                                                                  *)

Packet(s, st, n, ack) ==
  [to |-> st.peer, from |-> s, seqn |-> n, ack |-> ack, noAck |-> FALSE,
   nacks |-> {}, syn |-> FALSE, fin |-> FALSE, data |-> <<>>]

(* SendClose: the FIN packet is made now and posted; it takes a sequence    *)
(* number.                                                                  *)
SendClose(s, st) ==
  [st EXCEPT !.seqn = @ + 1,
             !.posted = Append(@,
                [task |-> "SendPacket",
                 packet |-> [Packet(s, st, st.seqn, AckField(st.last))
                               EXCEPT !.fin = TRUE]])]

(* A read of up to n units of the send buffer sets eof if there were fewer. *)
ReadSyn(s, st) ==
  LET n == Min({SynMTU, Len(st.buf)})
      p == [Packet(s, st, st.seqn, IF st.last < 0 THEN AllOnes ELSE 0)
              EXCEPT !.syn = TRUE, !.noAck = st.last < 0,
                     !.data = SubSeq(st.buf, 1, n)]
  IN [packets |-> {p},
      st |-> [st EXCEPT !.status = "Open", !.seqn = @ + 1,
                        !.buf = SubSeq(@, n + 1, Len(@)),
                        !.eof = @ \/ n < SynMTU]]

(* Follow-on packets until the window is full or eof: the last read comes   *)
(* back short, with no data at all if the buffer held whole packets.  The   *)
(* ack field is not filled in once anything has been received.              *)
ReadFollowOn(s, st, numMsgs, isNoAck) ==
  LET need == Len(st.buf) \div MTU + 1
      count == IF IsEstablished(st) /\ ~st.eof /\ numMsgs > 0
               THEN Min({numMsgs, need}) ELSE 0
      Chunk(i) == SubSeq(st.buf, (i - 1) * MTU + 1, Min({i * MTU, Len(st.buf)}))
  IN [packets |-> {[Packet(s, st, st.seqn + i - 1, IF isNoAck THEN AllOnes ELSE 0)
                      EXCEPT !.data = Chunk(i)] : i \in 1..count},
      st |-> [st EXCEPT !.seqn = @ + count,
                        !.buf = SubSeq(@, count * MTU + 1, Len(@)),
                        !.eof = @ \/ count = need]]

SendBuffer(s, st) ==
  LET numMsgs == st.window - Cardinality(st.sent)
      first == IF st.status = "New" THEN ReadSyn(s, st)
               ELSE [packets |-> {}, st |-> st]
      rest == ReadFollowOn(s, first.st, numMsgs - Cardinality(first.packets),
                           st.last < 0)
      packets == first.packets \cup rest.packets
      read == [rest.st EXCEPT !.handler = @ /\ ~rest.st.eof]
      tracked == [read EXCEPT !.acks = 0,
                              !.sent = @ \cup packets,
                              !.out = @ \cup packets,
                              !.resendSet = @ \/ st.sent = {}]
  IN IF numMsgs <= 0 THEN st
     ELSE IF packets = {} THEN read
     ELSE IF tracked.status = "Closing" /\ tracked.eof THEN SendClose(s, tracked)
     ELSE tracked

(* SendQuickAck: a plain ack through the highest packet received, with      *)
(* NACKs for the missing ones.                                              *)
(* Variant: no NACKs.                                                      *)
MissingForgotten(st, n) == {}

Missing(st, n) == (st.last + 1 .. n) \ {p.seqn : p \in st.saved}

SendQuickAck(s, st) ==
  LET seqns == {p.seqn : p \in st.saved}
      high == Max(seqns \cup {st.last})
      fit == {n \in seqns : Cardinality(Missing(st, n)) < MaxNacks}
      cut == Max(fit \cup {st.last})
  IN IF high < 0 THEN st
     ELSE [st EXCEPT !.out = @ \cup
             {[Packet(s, st, 0, IF fit = seqns THEN high ELSE cut + 1)
                 EXCEPT !.nacks = Missing(st, cut)]}]

-----------------------------------------------------------------------------
(* Closing                                                                  *)

(* Terminate cancels the timers and aborts a waiting send; DeleteStream     *)
(* takes the stream out of the destination's table.                         *)
TerminateAndDelete(st) ==
  [st EXCEPT !.resendSet = FALSE, !.handler = FALSE, !.inTable = FALSE]

(* Variant: packets not acknowledged yet do not delay the close.           *)
NothingUnread(st) == st.eof

NothingToSend(st) == st.sent = {} /\ st.eof

Close(s, st) ==
  LET closing == IF st.status = "Open" THEN [st EXCEPT !.status = "Closing"] ELSE st
  IN CASE st.status = "Reset" -> TerminateAndDelete(SendClose(s, st))
       [] closing.status = "Closing" /\ NothingToSend(st) ->
            TerminateAndDelete(SendClose(s, [closing EXCEPT !.status = "Closed"]))
       [] st.status = "Closed" -> TerminateAndDelete(st)
       [] OTHER -> closing

-----------------------------------------------------------------------------
(* Receiving                                                                *)

CancelResend(left) == left.sent = {}

(* Variant: an ack does not send what waits in the buffer.                 *)
KeepQuiet(s, left, acknowledged) == left

(* An ack makes room in the window.                                         *)
RefillWindow(s, left, acknowledged) ==
  IF acknowledged THEN SendBuffer(s, [left EXCEPT !.attempts = 0]) ELSE left

(* Variant: a closing stream is not looked at after an ack.                *)
StayClosing(s, st) == st

(* All outgoing messages may have been sent by now.                         *)
FinishClosing(s, st) == IF st.status = "Closing" THEN Close(s, st) ELSE st

(* ProcessAck.  grow: the linear growth of the window is due (RTT).         *)
ProcessAck(s, st, p, grow) ==
  LET acked == {q \in st.sent : q.seqn <= p.ack /\ q.seqn \notin p.nacks}
      slow == Min({st.window + Cardinality(acked), WINDOW_SIZE})
      window == IF acked = {} THEN st.window
                ELSE IF st.window + Cardinality(acked) <= WINDOW_SIZE \/ ~grow
                THEN Max({slow, st.window})
                ELSE Min({Max({slow, st.window}) + 1, MAX_WINDOW_SIZE})
      left == [st EXCEPT !.sent = @ \ acked, !.window = window]
      timed == [left EXCEPT !.resendSet = @ /\ ~CancelResend(left)]
  IN FinishClosing(s, RefillWindow(s, timed, acked # {}))

ProcessPacket(s, st, p) ==
  LET got == [st EXCEPT !.delivered = @ \o p.data, !.last = p.seqn]
  IN IF p.fin THEN Close(s, [got EXCEPT !.status = "Reset"]) ELSE got

(* The loop over m_SavedPackets stops at the first one not next in line.    *)
LastInLine(st) ==
  LET seqns == {p.seqn : p \in st.saved}
  IN IF \E k \in seqns : k <= st.last THEN st.last
     ELSE CHOOSE n \in seqns \cup {st.last} :
            n + 1 \notin seqns /\ st.last + 1 .. n \subseteq seqns

SavedPacket(st, n) == CHOOSE p \in st.saved : p.seqn = n

EraseInLine(st) ==
  [st EXCEPT !.saved = {p \in @ : p.seqn \notin st.last + 1 .. LastInLine(st)}]

ProcessSaved(s, st) ==
  LET processed[n \in st.last .. LastInLine(st)] ==
        IF n = st.last THEN EraseInLine(st)
        ELSE ProcessPacket(s, processed[n - 1], SavedPacket(st, n))
  IN processed[LastInLine(st)]

(* std::set: a packet with a number already saved is not inserted.          *)
SavePacket(st, p) ==
  IF \E q \in st.saved : q.seqn = p.seqn THEN st
  ELSE [st EXCEPT !.saved = @ \cup {p}]

(* Variant: any later packet is taken for the next one.                    *)
AfterLast(st, p) == p.syn \/ p.seqn > st.last

InSequence(st, p) == p.syn \/ p.seqn = st.last + 1

ProcessInSequence(s, st, p) ==
  LET done == ProcessSaved(s, ProcessPacket(s, st, p))
  IN CASE done.status = "Open" -> [done EXCEPT !.acks = Max({@, 1})]
       [] done.status # "Open" /\ p.syn -> SendBuffer(s, done)
       [] OTHER -> done

ProcessOutOfSequence(s, st, p) ==
  CASE p.seqn <= st.last -> SendQuickAck(s, st)
    [] p.seqn > st.last /\ st.last >= 0 ->
         SendQuickAck(s, [SavePacket(st, p) EXCEPT !.acks = 0])
    [] OTHER -> [SavePacket(st, p) EXCEPT !.acks = @ + 1]

(* Stream::HandleNextPacket                                                 *)
HandleNextPacket(s, st, p, grow) ==
  LET known == [st EXCEPT !.peer = IF @ = NoID THEN p.from ELSE @]
      acked == IF p.noAck THEN known ELSE ProcessAck(s, known, p, grow)
  IN CASE p.seqn = 0 /\ ~p.syn -> acked
       [] p.seqn # 0 \/ p.syn ->
            IF InSequence(acked, p) THEN ProcessInSequence(s, acked, p)
            ELSE ProcessOutOfSequence(s, acked, p)

-----------------------------------------------------------------------------
(* Timers                                                                   *)

HalfWindow(st) == Max({st.window \div 2, MIN_WINDOW_SIZE})

(* Variant: resend attempts are not counted.                               *)
NotCounted(st) == st.attempts

NextAttempt(st) == st.attempts + 1

(* HandleResendTimer: old are the packets whose RTO is over.                *)
HandleResendTimer(s, st, old) ==
  IF st.attempts >= MAX_NUM_RESEND_ATTEMPTS
  THEN Close(s, [st EXCEPT !.status = "Reset", !.resendSet = FALSE])
  ELSE IF old = {} THEN st
  ELSE [st EXCEPT !.attempts = NextAttempt(st), !.out = @ \cup old,
                  !.window = IF st.attempts = 0 THEN HalfWindow(st) ELSE @]

(* The handler runs for a cancelled wait too, since it ignores the error    *)
(* code: a wait set again before the SYN came resets the stream at once.    *)
HandleAckSendTimer(s, st) ==
  IF st.last < 0 THEN Close(s, [st EXCEPT !.status = "Reset", !.acks = @ - 1])
  ELSE [(IF IsOpen(st) THEN SendQuickAck(s, st) ELSE st) EXCEPT !.acks = 0]

(* SendPacket, which runs a posted FIN; it is kept for resending only while *)
(* the stream is open.                                                      *)
SendPacket(st, p) ==
  LET sent == [st EXCEPT !.acks = 0, !.out = @ \cup {p}]
  IN IF IsOpen(st)
     THEN [sent EXCEPT !.sent = @ \cup {p}, !.resendSet = @ \/ st.sent = {}]
     ELSE sent

-----------------------------------------------------------------------------
(* Actions                                                                  *)

(* Replace the record of stream s; what it sent goes on the network, on top *)
(* of rest.  A packet to a deleted stream, which would be dropped when it   *)
(* arrives, is dropped at once.                                             *)
Update(s, st, rest) ==
  /\ streams' = [streams EXCEPT ![s] = [st EXCEPT !.out = {}]]
  /\ net' = {p \in rest \cup st.out : p.to # NoID => streams'[p.to].inTable}

Init ==
  /\ streams = [s \in StreamIDs |-> IF s = Outgoing THEN NewStream ELSE NoStream]
  /\ net = {}
  /\ dups = 0

(* AsyncSend of n units by an application that waits for its handler.       *)
(* Sending nothing is how an application only connects.                     *)
AsyncSend(s, n) ==
  LET st == streams[s]
      units == [k \in 1..n |-> <<s, Len(st.written) + k>>]
  IN /\ Exists(s) /\ ~st.closing /\ ~st.handler /\ st.inTable
     /\ n = 0 => st.status = "New"
     /\ Len(st.written) + n <= (IF s = Outgoing THEN MaxUnits ELSE MaxReplyUnits)
     /\ Update(s, [st EXCEPT !.handler = TRUE,
                             !.written = @ \o units,
                             !.buf = @ \o units,
                             !.eof = @ /\ n = 0,
                             !.posted = Append(@, [task |-> "SendBuffer"])], net)
     /\ UNCHANGED dups

(* The application closes its stream.                                       *)
AppClose(s) ==
  /\ Exists(s) /\ s \in Closers /\ ~streams[s].closing
  /\ Update(s, Close(s, [streams[s] EXCEPT !.closing = TRUE]), net)
  /\ UNCHANGED dups

(* The service thread runs the next posted task of a stream.                *)
RunPosted(s) ==
  LET st == streams[s]
      rest == [st EXCEPT !.posted = Tail(@)]
  IN /\ st.posted # <<>>
     /\ Update(s, IF Head(st.posted).task = "SendBuffer" THEN SendBuffer(s, rest)
                  ELSE SendPacket(rest, Head(st.posted).packet), net)
     /\ UNCHANGED dups

ResendTimer(s) ==
  /\ streams[s].resendSet
  /\ \E old \in SUBSET streams[s].sent :
       Update(s, HandleResendTimer(s, streams[s], old), net)
  /\ UNCHANGED dups

AckSendTimer(s) ==
  /\ streams[s].acks > 0
  /\ Update(s, HandleAckSendTimer(s, streams[s]), net)
  /\ UNCHANGED dups

(* Which destination a packet goes to, and its streams.                     *)
Local(p) == IF p.from = Outgoing THEN Incoming ELSE {Outgoing}

(* StreamingDestination::HandleNextPacket finds the stream: by its id, or,  *)
(* for a follow-on packet sent before the sender knew it, by the sender's.  *)
Target(p) ==
  IF p.to # NoID THEN {s \in Local(p) : s = p.to /\ streams[s].inTable}
  ELSE {s \in Local(p) : streams[s].inTable /\ streams[s].peer = p.from}

IsNewStream(p) == p.to = NoID /\ p.syn /\ p.seqn = 0

(* A packet for a known stream, or for none (then it is dropped).           *)
Receive(p, rest) ==
  \/ /\ ~IsNewStream(p)
     /\ \E s \in Target(p), grow \in BOOLEAN :
          Update(s, HandleNextPacket(s, streams[s], p, grow), rest)
  \/ /\ ~IsNewStream(p) /\ Target(p) = {}
     /\ net' = rest
     /\ UNCHANGED streams

(* A SYN makes a new incoming stream every time, accepted or deleted.       *)
Accept(p, rest) ==
  LET free == {s \in Incoming : ~Exists(s)}
      s == Min(free)
      st == HandleNextPacket(s, NewStream, p, FALSE)
  IN /\ IsNewStream(p)
     /\ free # {}                               \* bound: ids of the model
     /\ \E accept \in AcceptorSet :
          Update(s, [st EXCEPT !.inTable = @ /\ accept, !.closing = ~accept], rest)

Deliver ==
  /\ \E p \in net : Receive(p, net \ {p}) \/ Accept(p, net \ {p})
  /\ UNCHANGED dups

DeliverTwice ==
  /\ dups < MaxDups
  /\ \E p \in net : Receive(p, net) \/ Accept(p, net)
  /\ dups' = dups + 1

Next ==
  \/ \E s \in StreamIDs :
       \/ \E n \in WriteSizes : AsyncSend(s, n)
       \/ AppClose(s) \/ RunPosted(s) \/ ResendTimer(s) \/ AckSendTimer(s)
  \/ Deliver \/ DeliverTwice

(* The service threads run what is posted and timers go off.                *)
Fairness ==
  \A s \in StreamIDs :
    /\ WF_vars(RunPosted(s))
    /\ WF_vars(ResendTimer(s))

Spec == Init /\ [][Next]_vars /\ Fairness

-----------------------------------------------------------------------------
(* Properties                                                               *)

Seqns == -1 .. 4 * (MaxUnits + MaxReplyUnits) + 8

(* Every stream's fields are in range; the window never closes completely,  *)
(* sequence numbers of unacknowledged packets are distinct.                 *)
TypeOK ==
  \A s \in StreamIDs : LET st == streams[s] IN
    /\ st.status \in {"None", "New", "Open", "Reset", "Closing", "Closed"}
    /\ st.peer \in StreamIDs \cup {NoID}
    /\ st.seqn \in Seqns /\ st.last \in Seqns
    /\ st.window \in MIN_WINDOW_SIZE .. MAX_WINDOW_SIZE
    /\ st.attempts \in 0 .. MAX_NUM_RESEND_ATTEMPTS
    /\ \A p, q \in st.sent : p.seqn = q.seqn => p = q
    /\ st.out = {}

(* What an accepted stream hands to its reader is, in order and without     *)
(* gaps or repetitions, a prefix of what the other side wrote, however its  *)
(* packets are lost, delayed, resent and duplicated.                        *)
ServerInOrder ==
  \A s \in Incoming : IsPrefix(streams[s].delivered, streams[Outgoing].written)

(* The same for the side that opened the stream, once it knows its peer:    *)
(* HandleNextPacket says of what it hands on that "we have received next in *)
(* sequence message".  It takes every SYN for that.                         *)
ClientInOrder ==
  LET st == streams[Outgoing]
  IN IsEstablished(st) => IsPrefix(st.delivered, streams[st.peer].written)

(* Stream t has got this unit, for its reader or waiting for earlier ones.  *)
Received(t, unit) ==
  \/ Contains(streams[t].delivered, unit)
  \/ \E p \in streams[t].saved : Contains(p.data, unit)

(* Every unit that has left the send buffer is in a packet still kept for   *)
(* resending or has been received.                                          *)
AckedOnlyIfReceived(s, peers) ==
  LET st == streams[s] IN
  \A i \in 1 .. Len(st.written) - Len(st.buf) :
    \/ \E p \in st.sent : Contains(p.data, st.written[i])
    \/ \E t \in peers : Received(t, st.written[i])

(* ProcessAck gives up resending data only when the other side has it, with *)
(* NACKs and late, duplicated and reordered acks: the opening side's data.  *)
AckSound == AckedOnlyIfReceived(Outgoing, Incoming)

(* The same for the accepting side's data.  Its packets are taken for       *)
(* acknowledged by any packet without the NO_ACK flag ("ack received").  The *)
(* code does not keep this.                                                 *)
ReplyAckSound == \A s \in Incoming : AckedOnlyIfReceived(s, {Outgoing})

(* An established stream with data left to send has an unacknowledged       *)
(* packet, whose ack will send more, or a posted SendBuffer.                *)
NoStall ==
  \A s \in StreamIDs : LET st == streams[s] IN
    st.status \in {"Open", "Closing"} /\ IsEstablished(st) /\ ~st.eof
      => \/ st.sent # {}
         \/ \E i \in DOMAIN st.posted : st.posted[i].task = "SendBuffer"

(* A stream becomes Closed only after the other side has received all that  *)
(* its application wrote ("all outgoing messages have been sent").          *)
GracefulClose ==
  LET st == streams[Outgoing] IN
  st.status = "Closed" =>
    \A i \in 1..Len(st.written) : \E t \in Incoming : Received(t, st.written[i])

(* Unacknowledged packets do not stay so forever: they are acknowledged or, *)
(* after MAX_NUM_RESEND_ATTEMPTS, the stream is reset and deleted.          *)
SendResolves ==
  \A s \in StreamIDs :
    streams[s].sent # {} ~> streams[s].sent = {} \/ ~streams[s].inTable

(* A stream its application closes after sending does leave the table, even *)
(* if the other side never answers.                                         *)
CloseCompletes ==
  \A s \in StreamIDs : streams[s].status = "Closing" ~> ~streams[s].inTable
=============================================================================
