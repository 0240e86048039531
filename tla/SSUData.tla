------------------------------ MODULE SSUData ------------------------------
(***************************************************************************)
(* Fragmentation, acknowledgement and resending of I2NP messages over an    *)
(* SSU session (core/transport/SSUData.cpp), at both ends of the session.   *)
(* It starts when Bob has received SessionConfirmed: Bob is established,    *)
(* Alice will be once she has received his DeliveryStatus.  Or it starts    *)
(* in a session that has been idle for a while.                             *)
(*                                                                          *)
(* A datagram may be delivered never, late, or more than once.  All of an   *)
(* SSUData runs on one thread, so a handler is a step.  Every clock value   *)
(* is kept relative to now, as the seconds left until it or since it; a     *)
(* timer that is due goes off before the next second passes.                *)
(***************************************************************************)
EXTENDS Integers, Sequences, FiniteSets, FiniteSetsExt

CONSTANTS
  Alice, Bob,
  Status,                     \* Bob's DeliveryStatus
  Store,                      \* Store[x]: the DatabaseStore x sends
  Data,                       \* Alice's messages
  NumFragments,               \* fragments of each message of Data
  BitsPerByte,                \* 7: bits of a byte of an ACK bitfield
  RESEND_INTERVAL,
  MAX_NUM_RESENDS,
  DECAY_INTERVAL,
  MAX_NUM_RECEIVED_MESSAGES,
  INCOMPLETE_MESSAGES_CLEANUP_TIMEOUT,
  Starts,                     \* TRUE: begin with the session's establishment
  MaxSends,                   \* bound: messages Alice is given to send
  None                        \* no entry

Sides == {Alice, Bob}
Msgs == {Status, Store[Alice], Store[Bob]} \cup Data

ASSUME SSUDataAssumption ==
  /\ Alice # Bob
  /\ {NumFragments, BitsPerByte, RESEND_INTERVAL, DECAY_INTERVAL,
      INCOMPLETE_MESSAGES_CLEANUP_TIMEOUT} \subseteq Nat \ {0}
  /\ Starts \subseteq BOOLEAN
  /\ {MAX_NUM_RESENDS, MAX_NUM_RECEIVED_MESSAGES, MaxSends}
       \subseteq Nat

VARIABLES
  established,                \* m_Session.GetState ()
  closed,                     \* SSUSession::Close has stopped the SSUData
  m_SentMessages,             \* [side -> [its messages -> SentMessage or None]]
  m_IncompleteMessages,       \* [side -> [messages to it -> IncompleteMessage]]
  m_ReceivedMessages,         \* [side -> ids kept for the duplicates check]
  m_ResendTimer,              \* [side -> [left, waits]]
  cleanup,                    \* [side -> seconds to the cleanup, or None]
  datagrams,                  \* datagrams sent so far
  sends,                      \* how many messages Alice was given
  got,                        \* [message -> fragments that have ever arrived]
  handed                      \* [message -> how it was handed on, or None]

ssuDataVars == <<established, closed, m_SentMessages, m_IncompleteMessages,
                 m_ReceivedMessages, m_ResendTimer, cleanup, datagrams, sends, got, handed>>

Other(x) == IF x = Alice THEN Bob ELSE Alice
From(m) == IF m \in {Status, Store[Bob]} THEN Bob ELSE Alice
MsgsOf(x) == {m \in Msgs : From(m) = x}

Count(m) == IF m \in Data THEN NumFragments ELSE 1
Fragments(m) == 0 .. Count(m) - 1

(* nextResendTime, lastFragmentInsertTime and the age of an entry.  An      *)
(* insert time of 0 is longer ago than any timeout.                         *)
SentMessage(m) == [fragments |-> Fragments(m), due |-> RESEND_INTERVAL,
                   numResends |-> 0]
LongAgo == INCOMPLETE_MESSAGES_CLEANUP_TIMEOUT + 1
IncompleteMessage == [nextFragmentNum |-> 0, saved |-> {}, inserted |-> LongAgo,
                      age |-> 0]

FragmentPacket(m, k) == [kind |-> "fragment", msg |-> m, num |-> k]
MsgAck(m) == [kind |-> "ack", msg |-> m]
BitfieldAck(m, f) == [kind |-> "bitfield", msg |-> m, fields |-> f]
To(p) == IF p.kind = "fragment" THEN Other(From(p.msg)) ELSE From(p.msg)

-----------------------------------------------------------------------------
(* Sending: Send of the messages in M, in any order.  The resend timer is   *)
(* set when there was nothing to resend; a message that is still being sent *)
(* is not sent again.                                                       *)

NewSends(x, M) == {m \in M : m_SentMessages[x][m] = None}
Packets(M) == UNION {{FragmentPacket(m, k) : k \in Fragments(m)} : m \in M}

AddSent(x, M) ==
  [m_SentMessages EXCEPT ![x] =
     [m \in MsgsOf(x) |-> IF m \in NewSends(x, M) THEN SentMessage(m) ELSE @[m]]]

NoneSent(x) == \A m \in MsgsOf(x) : m_SentMessages[x][m] = None

(* cancel () ends the waits and leaves the expiry time alone.               *)
Cancelled(timer) == [timer EXCEPT !.waits = {}]
ScheduleResend == [left |-> RESEND_INTERVAL, waits |-> {"resend"}]

(* PostI2NPMessages                                                         *)
Send(m) ==
  /\ established[Alice] /\ ~closed[Alice]
  /\ sends < MaxSends
  /\ sends' = sends + 1
  /\ m_SentMessages' = AddSent(Alice, {m})
  /\ m_ResendTimer' = IF NoneSent(Alice)
                      THEN [m_ResendTimer EXCEPT ![Alice] = ScheduleResend]
                      ELSE m_ResendTimer
  /\ datagrams' = datagrams \cup Packets(NewSends(Alice, {m}))
  /\ UNCHANGED <<established, closed, m_IncompleteMessages, m_ReceivedMessages,
                 cleanup, got, handed>>

-----------------------------------------------------------------------------
(* Acknowledgements                                                         *)

AllAcked(x, sent) == \A m \in MsgsOf(x) : sent[x][m] = None

ProcessSentMessageAck(x, m) ==
  LET rest == [m_SentMessages EXCEPT ![x][m] = None]
  IN /\ m_SentMessages' = rest
     /\ m_ResendTimer' =
          IF m_SentMessages[x][m] # None /\ AllAcked(x, rest)
          THEN [m_ResendTimer EXCEPT ![x] = Cancelled(@)]
          ELSE m_ResendTimer

(* SendFragmentAck: fragment k as a bitfield, one set of bits for a byte.   *)
SendFragmentAck(m, k) ==
  {BitfieldAck(m, [i \in 1 .. k \div BitsPerByte + 1 |->
                     IF i = k \div BitsPerByte + 1 THEN {k % BitsPerByte} ELSE {}]) :
     j \in {k} \cap 0..64}

(* Variant: fragments are counted from one.                                 *)
FirstBitFromOne(fields, i) ==
  BitsPerByte * Cardinality({j \in 1 .. i - 1 : fields[j] # {}}) + 1

(* The number of the fragment that the first bit of byte i stands for: the  *)
(* counter moves on in the loop over the bits, which a byte without any bit *)
(* skips.                                                                   *)
FirstBit(fields, i) ==
  BitsPerByte * Cardinality({j \in 1 .. i - 1 : fields[j] # {}})

AckedFragments(fields) ==
  UNION {{FirstBit(fields, i) + b : b \in fields[i]} : i \in DOMAIN fields}

(* ProcessAcks: acked fragments are not resent; the message stays.          *)
ProcessBitfield(x, m, fields) ==
  /\ m_SentMessages' = IF m_SentMessages[x][m] = None THEN m_SentMessages
                       ELSE [m_SentMessages EXCEPT ![x][m].fragments =
                               @ \ AckedFragments(fields)]
  /\ UNCHANGED m_ResendTimer

ReceiveAck(p) ==
  LET x == To(p) IN
  /\ ~closed[x]
  /\ \/ p.kind = "ack" /\ ProcessSentMessageAck(x, p.msg)
     \/ p.kind = "bitfield" /\ ProcessBitfield(x, p.msg, p.fields)
  /\ UNCHANGED <<established, closed, m_IncompleteMessages, m_ReceivedMessages,
                 cleanup, datagrams, sends, got, handed>>

-----------------------------------------------------------------------------
(* ProcessFragments                                                         *)

IsLast(m, k) == k = Count(m) - 1

(* AttachNextFragment, for the expected fragment and the saved ones that    *)
(* follow it: the next number expected then.                                *)
AttachRun(inc, k) ==
  Min({n \in k + 1 .. k + 1 + Cardinality(inc.saved) : n \notin inc.saved})

(* The entry of message m after fragment k, and whether that completes it.  *)
(* Nothing follows the last fragment, so isLast is set when the run ends    *)
(* with it.                                                                 *)
Insert(m, inc, k) ==
  LET next == AttachRun(inc, k)
  IN CASE k = inc.nextFragmentNum ->
            [inc EXCEPT !.nextFragmentNum = next, !.saved = {n \in @ : n >= next}]
       [] k > inc.nextFragmentNum /\ k \notin inc.saved ->
            [inc EXCEPT !.saved = @ \cup {k}, !.inserted = 0]
       [] OTHER -> inc

(* Variant: a last fragment completes the message wherever it comes.        *)
CompletesAnywhere(m, inc, k) == IsLast(m, k)

Completes(m, inc, k) ==
  k = inc.nextFragmentNum /\ IsLast(m, AttachRun(inc, k) - 1)

(* The ids kept for the duplicates check.                                   *)
Remember(ids, m) ==
  IF Cardinality(ids) > MAX_NUM_RECEIVED_MESSAGES THEN {m} ELSE ids \cup {m}

(* ScheduleDecay waits on m_ResendTimer, not on m_DecayTimer.               *)
ScheduleDecay(ids, timer) ==
  IF Cardinality(ids) > MAX_NUM_RECEIVED_MESSAGES THEN timer
  ELSE [timer EXCEPT !.waits = @ \cup {"decay"}]

(* The message goes to the I2NP handler with the fragments it has; gap is   *)
(* the time since it did the last time.                                     *)
HandOn(m, parts) ==
  handed' = [handed EXCEPT ![m] =
    [parts |-> parts, since |-> 0,
     gap |-> IF @ = None THEN DECAY_INTERVAL ELSE @.since]]

(* A complete message in an established session.                            *)
PutNextMessage(x, m, parts) ==
  /\ established[x]
  /\ IF m \in m_ReceivedMessages[x]
     THEN UNCHANGED <<m_ReceivedMessages, m_ResendTimer, handed>>
     ELSE /\ m_ReceivedMessages' = [m_ReceivedMessages EXCEPT ![x] = Remember(@, m)]
          /\ m_ResendTimer' = [m_ResendTimer EXCEPT ![x] =
                                 ScheduleDecay(m_ReceivedMessages[x], @)]
          /\ HandOn(m, parts)
  /\ UNCHANGED <<established, m_SentMessages, cleanup>>

(* SSUSession::Established, on the DeliveryStatus that Alice waits for.     *)
Established(x, m) ==
  /\ ~established[x] /\ m = Status
  /\ established' = [established EXCEPT ![x] = TRUE]
  /\ cleanup' = [cleanup EXCEPT ![x] = INCOMPLETE_MESSAGES_CLEANUP_TIMEOUT]
  /\ m_SentMessages' = AddSent(x, {Store[x]})
  /\ m_ResendTimer' = [m_ResendTimer EXCEPT ![x] = ScheduleResend]
  /\ UNCHANGED <<m_ReceivedMessages, handed>>

(* "SSU unexpected message": acknowledged, and dropped.                     *)
Unexpected(x, m) ==
  /\ ~established[x] /\ m # Status
  /\ UNCHANGED <<established, m_SentMessages, m_ReceivedMessages, m_ResendTimer,
                 cleanup, handed>>

ReceiveFragment(p) ==
  LET x == To(p)
      m == p.msg
      old == m_IncompleteMessages[x][m]
      inc == IF old = None THEN IncompleteMessage ELSE old
      new == Insert(m, inc, p.num)
  IN /\ p.kind = "fragment" /\ ~closed[x]
     /\ got' = [got EXCEPT ![m] = @ \cup {p.num}]
     /\ IF Completes(m, inc, p.num)
        THEN /\ m_IncompleteMessages' = [m_IncompleteMessages EXCEPT ![x][m] = None]
             /\ \/ PutNextMessage(x, m, new.nextFragmentNum) /\ datagrams' = datagrams \cup {MsgAck(m)}
                \/ Established(x, m) /\ datagrams' = datagrams \cup {MsgAck(m)} \cup Packets({Store[x]})
                \/ Unexpected(x, m) /\ datagrams' = datagrams \cup {MsgAck(m)}
        ELSE /\ m_IncompleteMessages' = [m_IncompleteMessages EXCEPT ![x][m] = new]
             /\ datagrams' = datagrams \cup SendFragmentAck(m, p.num)
             /\ UNCHANGED <<established, m_SentMessages, m_ReceivedMessages,
                            m_ResendTimer, cleanup, handed>>
     /\ UNCHANGED <<closed, sends>>

-----------------------------------------------------------------------------
(* Timers                                                                   *)

ResendDue(x) == m_ResendTimer[x].left = 0 /\ m_ResendTimer[x].waits # {}

Due(x) == {m \in MsgsOf(x) : m_SentMessages[x][m] # None /\ m_SentMessages[x][m].due <= 0}

Expired(s) == s.numResends >= MAX_NUM_RESENDS

Resent(s) ==
  IF Expired(s) THEN None
  ELSE [s EXCEPT !.numResends = @ + 1,
                 !.due = @ + (s.numResends + 1) * RESEND_INTERVAL]

(* Variant: the resend timer is not set again.                              *)
ResendOnce(x) == Cancelled(m_ResendTimer[x])

Rescheduled(x) == ScheduleResend

(* Everything that waits on m_ResendTimer: HandleResendTimer and            *)
(* HandleDecayTimer.                                                        *)
HandleSSUResendTimer(x) ==
  /\ ~closed[x] /\ ResendDue(x)
  /\ m_ReceivedMessages' = [m_ReceivedMessages EXCEPT ![x] =
                              IF "decay" \in m_ResendTimer[x].waits THEN {} ELSE @]
  /\ IF "resend" \in m_ResendTimer[x].waits
     THEN /\ m_SentMessages' = [m_SentMessages EXCEPT ![x] = [m \in MsgsOf(x) |->
                                  IF m \in Due(x) THEN Resent(@[m]) ELSE @[m]]]
          /\ datagrams' = datagrams \cup UNION
               {{FragmentPacket(m, k) : k \in m_SentMessages[x][m].fragments} :
                  m \in {m \in Due(x) : ~Expired(m_SentMessages[x][m])}}
          /\ m_ResendTimer' = [m_ResendTimer EXCEPT ![x] = Rescheduled(x)]
     ELSE /\ m_ResendTimer' = [m_ResendTimer EXCEPT ![x] = Cancelled(@)]
          /\ UNCHANGED <<m_SentMessages, datagrams>>
  /\ UNCHANGED <<established, closed, m_IncompleteMessages, cleanup, sends,
                 got, handed>>

(* Variant: only entries with saved fragments are looked at.                *)
OutdatedSaved(inc) ==
  inc.saved # {} /\ inc.inserted > INCOMPLETE_MESSAGES_CLEANUP_TIMEOUT

Outdated(inc) == inc.inserted > INCOMPLETE_MESSAGES_CLEANUP_TIMEOUT

HandleIncompleteMessagesCleanupTimer(x) ==
  /\ ~closed[x] /\ cleanup[x] = 0
  /\ m_IncompleteMessages' = [m_IncompleteMessages EXCEPT ![x] =
       [m \in MsgsOf(Other(x)) |-> IF @[m] # None /\ Outdated(@[m]) THEN None ELSE @[m]]]
  /\ cleanup' = [cleanup EXCEPT ![x] = INCOMPLETE_MESSAGES_CLEANUP_TIMEOUT]
  /\ UNCHANGED <<established, closed, m_SentMessages, m_ReceivedMessages,
                 m_ResendTimer, datagrams, sends, got, handed>>

(* SSUSession::Close: SSUData::Stop.                                        *)
CloseSession(x) ==
  /\ ~closed[x]
  /\ closed' = [closed EXCEPT ![x] = TRUE]
  /\ m_ResendTimer' = [m_ResendTimer EXCEPT ![x] = Cancelled(@)]
  /\ cleanup' = [cleanup EXCEPT ![x] = None]
  /\ UNCHANGED <<established, m_SentMessages, m_IncompleteMessages,
                 m_ReceivedMessages, datagrams, sends, got, handed>>

Aged(n, bound) == Min({n + 1, bound})

(* A second passes.  The timer goes off every RESEND_INTERVAL, so a message *)
(* is never overdue for longer than that.                                   *)
Tick ==
  /\ \A x \in Sides : ~closed[x] => ~ResendDue(x) /\ cleanup[x] # 0
  /\ m_ResendTimer' = [x \in Sides |-> [m_ResendTimer[x] EXCEPT !.left = Max({@ - 1, 0})]]
  /\ cleanup' = [x \in Sides |-> IF cleanup[x] = None THEN None ELSE cleanup[x] - 1]
  /\ m_SentMessages' = [x \in Sides |-> [m \in MsgsOf(x) |->
       IF m_SentMessages[x][m] = None \/ closed[x] THEN m_SentMessages[x][m]
       ELSE [m_SentMessages[x][m] EXCEPT !.due = Max({@ - 1, -RESEND_INTERVAL})]]]
  /\ m_IncompleteMessages' = [x \in Sides |-> [m \in MsgsOf(Other(x)) |->
       IF m_IncompleteMessages[x][m] = None THEN None
       ELSE [m_IncompleteMessages[x][m] EXCEPT
               !.inserted = Aged(@, LongAgo),
               !.age = Aged(@, INCOMPLETE_MESSAGES_CLEANUP_TIMEOUT)]]]
  /\ handed' = [m \in Msgs |-> IF handed[m] = None THEN None
                               ELSE [handed[m] EXCEPT !.since = Aged(@, DECAY_INTERVAL)]]
  /\ UNCHANGED <<established, closed, m_ReceivedMessages, datagrams, sends, got>>

(* Bob has called Send (DeliveryStatus) and Established.                    *)
SessionConfirmed(fresh, x) == fresh /\ x = Bob

(* A run that begins with the establishment has the handshake's messages    *)
(* for its traffic; the others have MaxSends messages of the I2NP layer.    *)
InitSession(fresh) ==
  /\ established = [x \in Sides |-> ~fresh \/ x = Bob]
  /\ closed = [x \in Sides |-> FALSE]
  /\ m_SentMessages = [x \in Sides |-> [m \in MsgsOf(x) |->
                         IF SessionConfirmed(fresh, x) THEN SentMessage(m) ELSE None]]
  /\ m_IncompleteMessages = [x \in Sides |-> [m \in MsgsOf(Other(x)) |-> None]]
  /\ m_ReceivedMessages = [x \in Sides |-> {}]
  /\ m_ResendTimer = [x \in Sides |-> IF SessionConfirmed(fresh, x) THEN ScheduleResend
                                      ELSE [left |-> 0, waits |-> {}]]
  /\ cleanup = [x \in Sides |-> IF fresh /\ x = Alice THEN None
                                ELSE INCOMPLETE_MESSAGES_CLEANUP_TIMEOUT]
  /\ datagrams = IF fresh THEN Packets(MsgsOf(Bob)) ELSE {}
  /\ sends = IF fresh THEN MaxSends ELSE 0
  /\ got = [m \in Msgs |-> {}]
  /\ handed = [m \in Msgs |-> None]

SSUDataInit == \E fresh \in Starts : InitSession(fresh)

SSUDataNext ==
  \/ \E m \in Data : Send(m)
  \/ \E p \in datagrams : ReceiveAck(p) \/ ReceiveFragment(p)
  \/ \E x \in Sides :
       \/ HandleSSUResendTimer(x) \/ HandleIncompleteMessagesCleanupTimer(x)
       \/ CloseSession(x)
  \/ Tick

(* Time passes whatever else goes on, and timers that are due go off.       *)
SSUDataFairness ==
  /\ SF_ssuDataVars(Tick)
  /\ \A x \in Sides : /\ WF_ssuDataVars(HandleSSUResendTimer(x))
                      /\ WF_ssuDataVars(HandleIncompleteMessagesCleanupTimer(x))

SSUDataSpec == SSUDataInit /\ [][SSUDataNext]_ssuDataVars /\ SSUDataFairness
-----------------------------------------------------------------------------
(* Properties                                                               *)

(* Every message is where its direction puts it, resend counters stay       *)
(* within MAX_NUM_RESENDS, and a saved fragment is later than the expected  *)
(* one.                                                                     *)
SSUDataTypeOK ==
  /\ established \in [Sides -> BOOLEAN] /\ closed \in [Sides -> BOOLEAN]
  /\ \A x \in Sides :
       /\ m_ReceivedMessages[x] \subseteq MsgsOf(Other(x))
       /\ m_ResendTimer[x].left \in 0..RESEND_INTERVAL
       /\ m_ResendTimer[x].waits \subseteq {"resend", "decay"}
       /\ \A m \in MsgsOf(x) : m_SentMessages[x][m] # None =>
            /\ m_SentMessages[x][m].fragments \subseteq Fragments(m)
            /\ m_SentMessages[x][m].numResends \in 0..MAX_NUM_RESENDS
       /\ \A m \in MsgsOf(Other(x)) : LET inc == m_IncompleteMessages[x][m] IN
            inc # None => inc.saved \subseteq inc.nextFragmentNum + 1 .. Count(m) - 1

(* A message handed to the I2NP handler is whole: every fragment of it was  *)
(* put together, in whatever order the fragments and their copies came.     *)
HandedWhole ==
  \A m \in Msgs : handed[m] # None =>
    handed[m].parts = Count(m) /\ got[m] = Fragments(m)

(* A fragment is taken out of resending only when it has arrived: "set      *)
(* corresponding bit" in SendFragmentAck is the bit ProcessAcks reads.      *)
FragmentAckSound ==
  \A x \in Sides : \A m \in MsgsOf(x) :
    m_SentMessages[x][m] # None =>
      Fragments(m) \ m_SentMessages[x][m].fragments \subseteq got[m]

(* What a misread bitfield can cost: a fragment taken out of resending is   *)
(* one of the bitfield's first byte, and one at its place in some byte has  *)
(* arrived.  Fragments of later bytes are resent until the whole message is *)
(* acknowledged; a message that fits in a byte loses none.                  *)
FirstByteAcked ==
  \A x \in Sides : \A m \in MsgsOf(x) : m_SentMessages[x][m] # None =>
    \A f \in Fragments(m) \ m_SentMessages[x][m].fragments :
      \E k \in got[m] : f = k % BitsPerByte

(* Every message sent is acknowledged or given up in the end.               *)
SentResolves ==
  \A x \in Sides : \A m \in MsgsOf(x) :
    m_SentMessages[x][m] # None ~> m_SentMessages[x][m] = None \/ closed[x]

(* Every incomplete message is completed or deleted in the end, also the    *)
(* ones that copies of a completed message's fragments leave behind.        *)
IncompleteResolves ==
  \A x \in Sides : \A m \in MsgsOf(Other(x)) :
    (m_IncompleteMessages[x][m] # None /\ established[x])
      ~> m_IncompleteMessages[x][m] = None \/ closed[x]

(* The duplicates check covers DECAY_INTERVAL: a message is not handed on   *)
(* twice in less ("DECAY_INTERVAL = 20; // in seconds").  The code does not *)
(* keep this.                                                               *)
DuplicatesFiltered ==
  \A m \in Msgs : handed[m] # None => handed[m].gap >= DECAY_INTERVAL

(* The cleanup deletes a message only if it "was not completed in 30        *)
(* seconds".  The code does not keep this.                                  *)
CleanupPatient ==
  [][\A x \in Sides : HandleIncompleteMessagesCleanupTimer(x) =>
       \A m \in MsgsOf(Other(x)) :
         m_IncompleteMessages[x][m] # None /\ m_IncompleteMessages'[x][m] = None
           => m_IncompleteMessages[x][m].age >= INCOMPLETE_MESSAGES_CLEANUP_TIMEOUT]_ssuDataVars
=============================================================================
