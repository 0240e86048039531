-------------------------- MODULE ResendingProofs --------------------------
(* Proofs about the protocol that resends until it is acknowledged: the     *)
(* fragments of SSU messages (SSUData.tla).                                 *)
EXTENDS SSUData, FiniteSetTheorems, WellFoundedInduction, TLAPS

(* The least of a set of numbers, and the greater of two.                   *)
LEMMA NatMin ==
  ASSUME NEW T, T \subseteq Nat, T # {}
  PROVE  Min(T) \in T /\ \A y \in T : Min(T) <= y
<1> DEFINE R == {ss \in Nat \X Nat : ss[1] < ss[2]}
<1>1. IsWellFoundedOn(R, Nat)
  BY NatLessThanWellFounded DEF OpToRel
<1>2. PICK x \in T : \A y \in T : ~(<<y, x>> \in R)
  <2> HIDE DEF R
  <2> QED
    BY <1>1, WFMin
<1>3. \A y \in T : ~(y < x)
  BY <1>2
<1>4. \A y \in T : x <= y
  BY <1>3
<1> QED
  BY <1>4 DEF Min

LEMMA TwoFacts ==
  ASSUME NEW a \in Int, NEW b \in Int
  PROVE  Min({a, b}) \in {a, b} /\ Max({a, b}) \in {a, b}
<1>1. \E x \in {a, b} : \A y \in {a, b} : x <= y
  OBVIOUS
<1>2. \E x \in {a, b} : \A y \in {a, b} : x >= y
  OBVIOUS
<1> QED
  BY <1>1, <1>2 DEF Min, Max

-----------------------------------------------------------------------------
(* Every message has a sender and a receiver, and at least one fragment.    *)
LEMMA SideFacts ==
  /\ \A x \in Sides : Other(x) \in Sides /\ Other(Other(x)) = x
  /\ \A x \in Sides : Store[x] \in Msgs
  /\ Status \in Msgs /\ Data \subseteq Msgs
  /\ \A m \in Msgs : From(m) \in Sides /\ m \in MsgsOf(From(m)) /\ Count(m) \in Nat \ {0}
  /\ \A x \in Sides : \A m \in MsgsOf(x) : m \in Msgs /\ From(m) = x
BY SSUDataAssumption DEF Sides, Other, Msgs, From, MsgsOf, Count

IncType == [nextFragmentNum : Nat, saved : SUBSET Nat, inserted : Nat, age : Nat]
SentType == [fragments : SUBSET Nat, due : Int, numResends : Nat]
HandedType == [parts : Nat, since : Nat, gap : Nat]

SSUShape ==
  /\ DOMAIN m_IncompleteMessages = Sides /\ DOMAIN m_SentMessages = Sides
  /\ \A x \in Sides : /\ DOMAIN m_IncompleteMessages[x] = MsgsOf(Other(x))
                      /\ DOMAIN m_SentMessages[x] = MsgsOf(x)
  /\ got \in [Msgs -> SUBSET Nat] /\ DOMAIN handed = Msgs

(* Only fragments that exist are under way, and only they arrive.           *)
FragmentsReal ==
  /\ \A p \in datagrams : p.msg \in Msgs /\ (p.kind = "fragment" => p.num \in Fragments(p.msg))
  /\ \A m \in Msgs : got[m] \subseteq Fragments(m)

(* An incomplete message has got what comes before the expected fragment,   *)
(* and what it saved.                                                       *)
Collected(inc, have) ==
  inc \in IncType /\ inc.saved \subseteq have /\ \A n \in Nat : n < inc.nextFragmentNum => n \in have
Assembled ==
  \A x \in Sides : \A m \in MsgsOf(Other(x)) :
    m_IncompleteMessages[x][m] # None => Collected(m_IncompleteMessages[x][m], got[m])

Whole(h, m, have) == h \in HandedType /\ h.parts = Count(m) /\ have = Fragments(m)
HandedInv == \A m \in Msgs : handed[m] # None => Whole(handed[m], m, got[m])

(* Only fragments of the message are to be resent.                          *)
SentReal(s, m) == s \in SentType /\ s.fragments \subseteq Fragments(m)
SentInv == \A x \in Sides : \A m \in MsgsOf(x) :
  m_SentMessages[x][m] # None => SentReal(m_SentMessages[x][m], m)

SSUInv == SSUShape /\ FragmentsReal /\ Assembled /\ HandedInv /\ SentInv

(* A step takes fragments out of resending only for a bitfield, and a       *)
(* bitfield is made for a fragment that has arrived.                        *)
AckedOnly ==
  \A x \in Sides : \A m \in MsgsOf(x) : m_SentMessages'[x][m] # None =>
    \A f \in Fragments(m) : f \notin m_SentMessages'[x][m].fragments =>
      \/ m_SentMessages[x][m] # None /\ f \notin m_SentMessages[x][m].fragments
      \/ \E p \in datagrams : p.kind = "bitfield" /\ p.msg = m /\ f \in AckedFragments(p.fields)
NewBitfields ==
  /\ \A m \in Msgs : got[m] \subseteq got'[m]
  /\ \A p \in datagrams' : p \notin datagrams /\ p.kind = "bitfield" =>
       /\ p.msg \in Msgs
       /\ \E k \in got'[p.msg] : p \in SendFragmentAck(p.msg, k)

(* The run of saved fragments ends somewhere, and everything in it is there. *)
LEMMA AttachFacts ==
  ASSUME NEW inc \in IncType, IsFiniteSet(inc.saved), NEW k \in Nat
  PROVE  /\ AttachRun(inc, k) \in Nat /\ AttachRun(inc, k) > k
         /\ \A n \in Nat : k < n /\ n < AttachRun(inc, k) => n \in inc.saved
<1>1. PICK c : c = Cardinality(inc.saved)
  OBVIOUS
<1>2. c \in Nat
  BY <1>1, FS_CardinalityType
<1>3. PICK T : T = {n \in k + 1 .. k + 1 + c : n \notin inc.saved}
  OBVIOUS
<1>4. T # {}
  <2> SUFFICES ASSUME T = {}
               PROVE  FALSE
    OBVIOUS
  <2>1. (k + 1 .. k + 1 + c) \subseteq inc.saved
    BY <1>3
  <2>2. Cardinality(k + 1 .. k + 1 + c) = c + 1
    BY <1>2, FS_Interval
  <2>3. Cardinality(k + 1 .. k + 1 + c) <= c
    BY <1>1, <2>1, FS_Subset
  <2> QED
    BY <1>2, <2>2, <2>3
<1>5. T \subseteq Nat /\ \A n \in T : n > k /\ n <= k + 1 + c
  BY <1>2, <1>3
<1>6. PICK a : a = Min(T)
  OBVIOUS
<1>7. a \in T /\ \A n \in T : a <= n
  BY <1>4, <1>5, <1>6, NatMin
<1>8. ASSUME NEW n \in Nat, k < n, n < a
      PROVE  n \in inc.saved
  <2>1. a \in Nat /\ a <= k + 1 + c
    BY <1>5, <1>7
  <2>2. n \in k + 1 .. k + 1 + c
    BY <1>2, <1>8, <2>1
  <2>3. n \notin T
    BY <1>7, <1>8, <2>1
  <2> QED
    BY <1>3, <2>2, <2>3
<1>9. AttachRun(inc, k) = a
  BY <1>1, <1>3, <1>6 DEF AttachRun
<1> QED
  BY <1>5, <1>7, <1>8, <1>9

(* An entry after a fragment has what it had and the fragment, and a        *)
(* message that is complete has them all.                                   *)
LEMMA InsertFacts ==
  ASSUME NEW m \in Msgs, NEW have, have \subseteq Fragments(m), NEW inc, Collected(inc, have),
         NEW k \in Fragments(m)
  PROVE  /\ Collected(Insert(m, inc, k), have \cup {k})
         /\ Completes(m, inc, k) => /\ Insert(m, inc, k).nextFragmentNum = Count(m)
                                    /\ have \cup {k} = Fragments(m)
<1>1. k \in Nat /\ Count(m) \in Nat /\ Fragments(m) = 0 .. Count(m) - 1
  BY SideFacts DEF Fragments
<1>2. inc \in IncType /\ inc.saved \subseteq have /\ inc.nextFragmentNum \in Nat /\ inc.saved \subseteq Nat
  BY DEF Collected, IncType
<1>3. IsFiniteSet(inc.saved)
  <2>1. IsFiniteSet(0 .. Count(m) - 1)
    BY <1>1, FS_Interval
  <2> QED
    BY <1>1, <1>2, <2>1, FS_Subset
<1>4. PICK next : next = AttachRun(inc, k)
  OBVIOUS
<1>5. next \in Nat /\ next > k /\ \A n \in Nat : k < n /\ n < next => n \in inc.saved
  BY <1>1, <1>2, <1>3, <1>4, AttachFacts
<1>6. PICK new : new = Insert(m, inc, k)
  OBVIOUS
<1>7. CASE k = inc.nextFragmentNum
  <2>8. new = [inc EXCEPT !.nextFragmentNum = next, !.saved = {n \in @ : n >= next}]
    BY <1>1, <1>2, <1>4, <1>6, <1>7 DEF Insert
  <2>1. PICK left : left = {n \in inc.saved : n >= next}
    OBVIOUS
  <2>2. new = [inc EXCEPT !.nextFragmentNum = next, !.saved = left]
    BY <2>1, <2>8
  <2>3. left \subseteq inc.saved /\ left \subseteq Nat
    BY <1>2, <2>1
  <2>4. new \in IncType /\ new.nextFragmentNum = next /\ new.saved = left
    BY <1>2, <1>5, <2>2, <2>3 DEF IncType
  <2>5. \A n \in Nat : n < next => n \in have \cup {k}
    <3>1. ASSUME NEW n \in Nat, n < next
          PROVE  n \in have \cup {k}
      <4>1. CASE n < k
        BY <1>7, <4>1 DEF Collected
      <4>2. CASE n = k
        BY <4>2
      <4>3. CASE n > k
        BY <1>2, <1>5, <3>1, <4>3
      <4> QED
        BY <1>1, <4>1, <4>2, <4>3
    <3> QED
      BY <3>1
  <2>6. Collected(new, have \cup {k})
    BY <1>2, <2>3, <2>4, <2>5 DEF Collected
  <2>7. ASSUME Completes(m, inc, k)
        PROVE  new.nextFragmentNum = Count(m) /\ have \cup {k} = Fragments(m)
    <3>1. next - 1 = Count(m) - 1
      BY <1>4, <2>7 DEF Completes, IsLast
    <3>2. next = Count(m)
      BY <1>1, <1>5, <3>1
    <3>3. Fragments(m) \subseteq have \cup {k}
      BY <1>1, <2>5, <3>2
    <3> QED
      BY <2>4, <3>2, <3>3
  <2> QED
    BY <1>6, <2>6, <2>7
<1>8. CASE k # inc.nextFragmentNum
  <2>1. ~Completes(m, inc, k)
    BY <1>8 DEF Completes
  <2>2. PICK more : more = inc.saved \cup {k}
    OBVIOUS
  <2>3. new \in {inc, [inc EXCEPT !.saved = more, !.inserted = 0]}
    BY <1>6, <1>8, <2>2 DEF Insert
  <2>7. PICK a : a = [inc EXCEPT !.saved = more]
    OBVIOUS
  <2>4. more \subseteq Nat /\ more \subseteq have \cup {k}
    BY <1>1, <1>2, <2>2
  <2>5. new \in IncType /\ new.nextFragmentNum = inc.nextFragmentNum /\ new.saved \subseteq more
    <3>1. a \in IncType /\ a.nextFragmentNum = inc.nextFragmentNum /\ a.saved = more
      BY <1>2, <2>4, <2>7 DEF IncType
    <3>2. new \in {inc, [a EXCEPT !.inserted = 0]}
      BY <2>3, <2>7
    <3> QED
      BY <1>2, <2>2, <3>1, <3>2 DEF IncType
  <2>6. Collected(new, have \cup {k})
    BY <2>4, <2>5 DEF Collected
  <2> QED
    BY <1>6, <2>1, <2>6
<1> QED
  BY <1>7, <1>8

LEMMA PacketFacts ==
  /\ \A m, k : /\ FragmentPacket(m, k).kind = "fragment"
               /\ FragmentPacket(m, k).msg = m /\ FragmentPacket(m, k).num = k
  /\ \A m : MsgAck(m).kind = "ack" /\ MsgAck(m).msg = m
  /\ \A m, k : \A p \in SendFragmentAck(m, k) : p.kind = "bitfield" /\ p.msg = m
BY DEF FragmentPacket, MsgAck, SendFragmentAck, BitfieldAck

LEMMA PacketsFacts ==
  ASSUME NEW M, M \subseteq Msgs, NEW p \in Packets(M)
  PROVE  p.kind = "fragment" /\ p.msg \in Msgs /\ p.num \in Fragments(p.msg)
<1>1. PICK m \in M : \E k \in Fragments(m) : p = FragmentPacket(m, k)
  BY DEF Packets
<1> QED
  BY <1>1, PacketFacts

(* A new entry of m_SentMessages, and those of AddSent.                     *)
LEMMA SentMessageFacts ==
  ASSUME NEW m \in Msgs
  PROVE  SentReal(SentMessage(m), m) /\ SentMessage(m).fragments = Fragments(m)
<1>1. Fragments(m) \subseteq Nat /\ RESEND_INTERVAL \in Int
  BY SideFacts, SSUDataAssumption DEF Fragments
<1>2. PICK F : F = Fragments(m)
  OBVIOUS
<1> QED
  BY <1>1, <1>2 DEF SentMessage, SentReal, SentType

LEMMA AddSentFacts ==
  ASSUME SSUInv, NEW y \in Sides, NEW M, NEW new, new = AddSent(y, M)
  PROVE  /\ DOMAIN new = Sides /\ \A x \in Sides : DOMAIN new[x] = MsgsOf(x)
         /\ \A x \in Sides : \A m \in MsgsOf(x) :
              new[x][m] = m_SentMessages[x][m] \/ new[x][m] = SentMessage(m)
BY DEF AddSent, SSUInv, SSUShape

(* A datagram that is not the acknowledgement of a fragment.                *)
Unacked(p) == p.kind # "bitfield" /\ p.msg \in Msgs
                /\ (p.kind = "fragment" => p.num \in Fragments(p.msg))

(* A step that only begins, resends or drops messages.                      *)
LEMMA SentKeeps ==
  ASSUME SSUInv, NEW sentNow, sentNow = m_SentMessages',
         \A x \in Sides : \A m \in MsgsOf(x) :
           sentNow[x][m] \in {None, m_SentMessages[x][m], SentMessage(m)}
  PROVE  SentInv' /\ AckedOnly
<1>1. \A x \in Sides : \A m \in MsgsOf(x) : m \in Msgs
  BY SideFacts
<1>2. SentInv'
  BY <1>1, SentMessageFacts DEF SSUInv, SentInv
<1>3. AckedOnly
  BY <1>1, SentMessageFacts DEF AckedOnly
<1> QED
  BY <1>2, <1>3

(* And that leaves alone what arrives.                                      *)
LEMMA SSUKeeps ==
  ASSUME SSUInv, NEW sentNow, sentNow = m_SentMessages',
         DOMAIN sentNow = Sides, \A x \in Sides : DOMAIN sentNow[x] = MsgsOf(x),
         \A x \in Sides : \A m \in MsgsOf(x) :
           sentNow[x][m] \in {None, m_SentMessages[x][m], SentMessage(m)},
         \A p \in datagrams' : p \in datagrams \/ Unacked(p),
         got' = got, m_IncompleteMessages' = m_IncompleteMessages, handed' = handed
  PROVE  SSUInv' /\ AckedOnly /\ NewBitfields
<1>1. SSUShape' /\ FragmentsReal' /\ Assembled' /\ HandedInv'
  BY DEF SSUInv, SSUShape, FragmentsReal, Assembled, HandedInv, Unacked
<1>2. SentInv' /\ AckedOnly
  BY SentKeeps
<1>3. NewBitfields
  BY DEF NewBitfields, Unacked
<1> QED
  BY <1>1, <1>2, <1>3 DEF SSUInv

LEMMA SendStep ==
  ASSUME SSUInv, NEW m \in Data, Send(m)
  PROVE  SSUInv' /\ AckedOnly /\ NewBitfields
<1>1. /\ m_SentMessages' = AddSent(Alice, {m})
      /\ datagrams' = datagrams \cup Packets(NewSends(Alice, {m}))
      /\ UNCHANGED <<got, m_IncompleteMessages, handed>>
  BY DEF Send
<1>2. Alice \in Sides
  BY DEF Sides
<1>3. NewSends(Alice, {m}) \subseteq Msgs
  BY SideFacts DEF NewSends
<1>4. PICK new : new = m_SentMessages'
  OBVIOUS
<1>5. /\ DOMAIN new = Sides /\ \A x \in Sides : DOMAIN new[x] = MsgsOf(x)
      /\ \A x \in Sides : \A k \in MsgsOf(x) :
           new[x][k] = m_SentMessages[x][k] \/ new[x][k] = SentMessage(k)
  BY <1>1, <1>2, <1>4, AddSentFacts
<1>6. ASSUME NEW p \in datagrams'
      PROVE  p \in datagrams \/ Unacked(p)
  <2>1. p \in datagrams \/ p \in Packets(NewSends(Alice, {m}))
    BY <1>1, <1>6
  <2>2. ASSUME p \in Packets(NewSends(Alice, {m}))
        PROVE  Unacked(p)
    <3>1. p.kind = "fragment" /\ p.msg \in Msgs /\ p.num \in Fragments(p.msg)
      BY <1>3, <2>2, PacketsFacts
    <3> QED
      BY <3>1 DEF Unacked
  <2> QED
    BY <2>1, <2>2
<1>7. \A x \in Sides : \A k \in MsgsOf(x) :
        new[x][k] \in {None, m_SentMessages[x][k], SentMessage(k)}
  BY <1>5
<1>8. got' = got /\ m_IncompleteMessages' = m_IncompleteMessages /\ handed' = handed
  BY <1>1
<1> QED
  BY <1>4, <1>5, <1>6, <1>7, <1>8, SSUKeeps

LEMMA ReceiveAckStep ==
  ASSUME SSUInv, NEW p \in datagrams, ReceiveAck(p)
  PROVE  SSUInv' /\ AckedOnly /\ NewBitfields
<1>1. PICK y : y = To(p)
  OBVIOUS
<1>2. PICK m : m = p.msg
  OBVIOUS
<1>3. UNCHANGED <<got, m_IncompleteMessages, handed, datagrams>>
  BY DEF ReceiveAck
<1>4. p.kind \in {"ack", "bitfield"} /\ y = From(m) /\ m \in Msgs /\ y \in Sides /\ m \in MsgsOf(y)
  BY <1>1, <1>2, SideFacts DEF ReceiveAck, To, SSUInv, FragmentsReal
<1>5. PICK new : new = m_SentMessages'
  OBVIOUS
<1>6. CASE p.kind = "ack" \/ m_SentMessages[y][m] = None
  <2>1. new = [m_SentMessages EXCEPT ![y][m] = None] \/ new = m_SentMessages
    BY <1>1, <1>2, <1>5, <1>6 DEF ReceiveAck, ProcessSentMessageAck, ProcessBitfield
  <2>2. /\ DOMAIN new = Sides /\ \A x \in Sides : DOMAIN new[x] = MsgsOf(x)
        /\ \A x \in Sides : \A k \in MsgsOf(x) : new[x][k] \in {None, m_SentMessages[x][k]}
    BY <1>4, <2>1 DEF SSUInv, SSUShape
  <2>3. \A x \in Sides : \A k \in MsgsOf(x) :
          new[x][k] \in {None, m_SentMessages[x][k], SentMessage(k)}
    BY <2>2
  <2>4. \A q \in datagrams' : q \in datagrams \/ Unacked(q)
    BY <1>3
  <2>5. got' = got /\ m_IncompleteMessages' = m_IncompleteMessages /\ handed' = handed
    BY <1>3
  <2> QED
    BY <1>5, <2>2, <2>3, <2>4, <2>5, SSUKeeps
<1>7. CASE p.kind = "bitfield" /\ m_SentMessages[y][m] # None
  <2>1. PICK acked : acked = AckedFragments(p.fields)
    OBVIOUS
  <2>2. PICK s : s = [m_SentMessages[y][m] EXCEPT !.fragments = @ \ acked]
    OBVIOUS
  <2>3. new = [m_SentMessages EXCEPT ![y][m] = s]
    BY <1>1, <1>2, <1>5, <1>7, <2>1, <2>2 DEF ReceiveAck, ProcessBitfield
  <2>4. SentReal(m_SentMessages[y][m], m)
    BY <1>4, <1>7 DEF SSUInv, SentInv
  <2>5. SentReal(s, m) /\ s.fragments = m_SentMessages[y][m].fragments \ acked
    BY <2>2, <2>4 DEF SentReal, SentType
  <2>6. /\ DOMAIN new = Sides /\ \A x \in Sides : DOMAIN new[x] = MsgsOf(x)
        /\ \A x \in Sides : \A k \in MsgsOf(x) :
             new[x][k] = m_SentMessages[x][k] \/ (k = m /\ x = y /\ new[x][k] = s)
    BY <1>4, <2>3 DEF SSUInv, SSUShape
  <2>7. SSUShape' /\ FragmentsReal' /\ Assembled' /\ HandedInv'
    BY <1>3, <1>5, <2>6 DEF SSUInv, SSUShape, FragmentsReal, Assembled, HandedInv
  <2>8. SentInv'
    BY <1>5, <2>5, <2>6 DEF SSUInv, SentInv
  <2>9. AckedOnly
    BY <1>2, <1>5, <1>7, <2>1, <2>5, <2>6 DEF AckedOnly
  <2>10. NewBitfields
    BY <1>3 DEF NewBitfields
  <2> QED
    BY <2>7, <2>8, <2>9, <2>10 DEF SSUInv
<1> QED
  BY <1>4, <1>6, <1>7

(* What a fragment does to the other tables.                                *)
LEMMA FragmentFacts ==
  ASSUME SSUInv, NEW p \in datagrams, ReceiveFragment(p),
         NEW m, m = p.msg, NEW x, x = Other(From(m)),
         NEW k, k = p.num, NEW inc,
         inc = IF m_IncompleteMessages[x][m] = None THEN IncompleteMessage
               ELSE m_IncompleteMessages[x][m]
  PROVE  /\ m \in Msgs /\ k \in Fragments(m) /\ x \in Sides /\ m \in MsgsOf(Other(x))
         /\ got' = [got EXCEPT ![m] = @ \cup {k}]
         /\ \E entry \in {None, Insert(m, inc, k)} :
              m_IncompleteMessages' = [m_IncompleteMessages EXCEPT ![x][m] = entry]
         /\ \/ handed' = handed
            \/ Completes(m, inc, k) /\ HandOn(m, Insert(m, inc, k).nextFragmentNum)
         /\ m_SentMessages' = m_SentMessages \/ m_SentMessages' = AddSent(x, {Store[x]})
         /\ \A q \in datagrams' : q \in datagrams \/ Unacked(q) \/ q \in SendFragmentAck(m, k)
<1>1. p.kind = "fragment" /\ x = To(p)
  BY DEF ReceiveFragment, To
<1>2. m \in Msgs /\ k \in Fragments(m)
  BY <1>1 DEF SSUInv, FragmentsReal
<1>3. x \in Sides /\ m \in MsgsOf(Other(x))
  BY <1>2, SideFacts
<1>4. got' = [got EXCEPT ![m] = @ \cup {k}]
  BY <1>1 DEF ReceiveFragment
<1>5. Unacked(MsgAck(m))
  BY <1>2, PacketFacts DEF Unacked
<1>6. \A q \in Packets({Store[x]}) : Unacked(q)
  <2>1. {Store[x]} \subseteq Msgs
    BY <1>3, SideFacts
  <2>2. ASSUME NEW q \in Packets({Store[x]})
        PROVE  Unacked(q)
    <3>1. q.kind = "fragment" /\ q.msg \in Msgs /\ q.num \in Fragments(q.msg)
      BY <2>1, <2>2, PacketsFacts
    <3> QED
      BY <3>1 DEF Unacked
  <2> QED
    BY <2>2
<1>7. CASE Completes(m, inc, k)
  <2>1. /\ m_IncompleteMessages' = [m_IncompleteMessages EXCEPT ![x][m] = None]
        /\ \/ PutNextMessage(x, m, Insert(m, inc, k).nextFragmentNum) /\ datagrams' = datagrams \cup {MsgAck(m)}
           \/ Established(x, m) /\ datagrams' = datagrams \cup {MsgAck(m)} \cup Packets({Store[x]})
           \/ Unexpected(x, m) /\ datagrams' = datagrams \cup {MsgAck(m)}
    BY <1>1, <1>7 DEF ReceiveFragment
  <2>2. \/ handed' = handed
        \/ HandOn(m, Insert(m, inc, k).nextFragmentNum)
    BY <2>1 DEF PutNextMessage, Established, Unexpected
  <2>3. m_SentMessages' = m_SentMessages \/ m_SentMessages' = AddSent(x, {Store[x]})
    BY <2>1 DEF PutNextMessage, Established, Unexpected
  <2>4. \A q \in datagrams' : q \in datagrams \/ q = MsgAck(m) \/ q \in Packets({Store[x]})
    BY <2>1
  <2> QED
    BY <1>2, <1>3, <1>4, <1>5, <1>6, <1>7, <2>1, <2>2, <2>3, <2>4
<1>8. CASE ~Completes(m, inc, k)
  <2>1. /\ m_IncompleteMessages' = [m_IncompleteMessages EXCEPT ![x][m] = Insert(m, inc, k)]
        /\ datagrams' = datagrams \cup SendFragmentAck(m, k)
        /\ m_SentMessages' = m_SentMessages /\ handed' = handed
    BY <1>1, <1>8 DEF ReceiveFragment
  <2> QED
    BY <1>2, <1>3, <1>4, <2>1
<1> QED
  BY <1>7, <1>8

LEMMA ReceiveFragmentStep ==
  ASSUME SSUInv, NEW p \in datagrams, ReceiveFragment(p)
  PROVE  SSUInv' /\ AckedOnly /\ NewBitfields
<1>1. PICK m, k : m = p.msg /\ k = p.num
  OBVIOUS
<1>2. PICK x : x = Other(From(m))
  OBVIOUS
<1>3. PICK inc : inc = IF m_IncompleteMessages[x][m] = None THEN IncompleteMessage
                       ELSE m_IncompleteMessages[x][m]
  OBVIOUS
<1>4. /\ m \in Msgs /\ k \in Fragments(m) /\ x \in Sides /\ m \in MsgsOf(Other(x))
      /\ got' = [got EXCEPT ![m] = @ \cup {k}]
      /\ \E entry \in {None, Insert(m, inc, k)} :
           m_IncompleteMessages' = [m_IncompleteMessages EXCEPT ![x][m] = entry]
      /\ \/ handed' = handed
         \/ Completes(m, inc, k) /\ HandOn(m, Insert(m, inc, k).nextFragmentNum)
      /\ m_SentMessages' = m_SentMessages \/ m_SentMessages' = AddSent(x, {Store[x]})
      /\ \A q \in datagrams' : q \in datagrams \/ Unacked(q) \/ q \in SendFragmentAck(m, k)
  BY <1>1, <1>2, <1>3, FragmentFacts
<1>5. got[m] \subseteq Fragments(m) /\ Fragments(m) \subseteq Nat
  BY <1>4, SideFacts DEF SSUInv, FragmentsReal, Fragments
<1>6. Collected(inc, got[m])
  <2>1. CASE m_IncompleteMessages[x][m] # None
    BY <1>3, <1>4, <2>1 DEF SSUInv, Assembled
  <2>2. CASE m_IncompleteMessages[x][m] = None
    BY <1>3, <2>2, SSUDataAssumption DEF IncompleteMessage, Collected, IncType, LongAgo
  <2> QED
    BY <2>1, <2>2
<1>7. PICK new : new = Insert(m, inc, k)
  OBVIOUS
<1>8. PICK have : have = got[m] \cup {k}
  OBVIOUS
<1>9. /\ Collected(new, have)
      /\ Completes(m, inc, k) => new.nextFragmentNum = Count(m) /\ have = Fragments(m)
  <2>1. PICK had : had = got[m]
    OBVIOUS
  <2>2. had \subseteq Fragments(m) /\ Collected(inc, had)
    BY <1>5, <1>6, <2>1
  <2>3. m \in Msgs /\ k \in Fragments(m)
    BY <1>4
  <2>4. /\ Collected(Insert(m, inc, k), had \cup {k})
        /\ Completes(m, inc, k) => /\ Insert(m, inc, k).nextFragmentNum = Count(m)
                                   /\ had \cup {k} = Fragments(m)
    BY <2>2, <2>3, InsertFacts
  <2> QED
    BY <1>7, <1>8, <2>1, <2>4
<1>10. got' = [got EXCEPT ![m] = have]
  BY <1>4, <1>8
<1>11. have \subseteq Fragments(m) /\ have \subseteq Nat /\ k \in have
  BY <1>4, <1>5, <1>8
<1>12. got' \in [Msgs -> SUBSET Nat] /\ \A q \in Msgs : got'[q] = IF q = m THEN have ELSE got[q]
  BY <1>4, <1>10, <1>11 DEF SSUInv, SSUShape
<1>13. PICK entry \in {None, new} :
         m_IncompleteMessages' = [m_IncompleteMessages EXCEPT ![x][m] = entry]
  BY <1>4, <1>7
<1>14. PICK incs : incs = m_IncompleteMessages'
  OBVIOUS
<1>15. /\ DOMAIN incs = Sides /\ \A y \in Sides : DOMAIN incs[y] = MsgsOf(Other(y))
       /\ \A y \in Sides : \A q \in MsgsOf(Other(y)) :
            incs[y][q] = IF y = x /\ q = m THEN entry ELSE m_IncompleteMessages[y][q]
  BY <1>4, <1>13, <1>14 DEF SSUInv, SSUShape
<1>16. \A y \in Sides : \A q \in MsgsOf(Other(y)) : q \in Msgs
  BY SideFacts
<1>17. \A y \in Sides : \A q \in MsgsOf(Other(y)) :
         (q = m /\ y # x) \/ incs[y][q] = None \/ Collected(incs[y][q], got'[q])
  BY <1>9, <1>12, <1>13, <1>15, <1>16 DEF SSUInv, Assembled
<1>18. Assembled'
  <2>1. \A y \in Sides : \A q \in MsgsOf(Other(y)) : q = m => y = x
    BY <1>4, SideFacts
  <2> QED
    BY <1>14, <1>17, <2>1 DEF Assembled
<1>19. PICK sent : sent = m_SentMessages'
  OBVIOUS
<1>20. /\ DOMAIN sent = Sides /\ \A y \in Sides : DOMAIN sent[y] = MsgsOf(y)
       /\ \A y \in Sides : \A q \in MsgsOf(y) :
            sent[y][q] = m_SentMessages[y][q] \/ sent[y][q] = SentMessage(q)
  <2>1. CASE sent = m_SentMessages
    BY <2>1 DEF SSUInv, SSUShape
  <2>2. CASE sent = AddSent(x, {Store[x]})
    BY <1>4, <2>2, AddSentFacts
  <2> QED
    BY <1>4, <1>19, <2>1, <2>2
<1>21. \A y \in Sides : \A q \in MsgsOf(y) :
         sent[y][q] \in {None, m_SentMessages[y][q], SentMessage(q)}
  BY <1>20
<1>22. SentInv' /\ AckedOnly
  BY <1>19, <1>21, SentKeeps
<1>23. FragmentsReal'
  <2>1. \A q \in Msgs : got'[q] \subseteq Fragments(q)
    BY <1>11, <1>12 DEF SSUInv, FragmentsReal
  <2>2. ASSUME NEW q \in datagrams'
        PROVE  q.msg \in Msgs /\ (q.kind = "fragment" => q.num \in Fragments(q.msg))
    <3>1. CASE q \in datagrams
      BY <3>1 DEF SSUInv, FragmentsReal
    <3>2. CASE Unacked(q)
      BY <3>2 DEF Unacked
    <3>3. CASE q \in SendFragmentAck(m, k)
      <4>1. q.kind = "bitfield" /\ q.msg = m
        BY <3>3, PacketFacts
      <4> QED
        BY <1>4, <4>1
    <3> QED
      BY <1>4, <2>2, <3>1, <3>2, <3>3
  <2> QED
    BY <2>1, <2>2 DEF FragmentsReal
<1>24. NewBitfields
  <2>1. \A q \in Msgs : got[q] \subseteq got'[q]
    BY <1>8, <1>12
  <2>2. ASSUME NEW q \in datagrams', q \notin datagrams, q.kind = "bitfield"
        PROVE  q.msg \in Msgs /\ \E n \in got'[q.msg] : q \in SendFragmentAck(q.msg, n)
    <3>1. q \in SendFragmentAck(m, k)
      BY <1>4, <2>2 DEF Unacked
    <3>2. q.msg = m
      BY <3>1, PacketFacts
    <3> QED
      BY <1>4, <1>11, <1>12, <3>1, <3>2
  <2> QED
    BY <2>1, <2>2 DEF NewBitfields
<1>25. DOMAIN handed' = Msgs /\ HandedInv'
  <2>1. CASE handed' = handed
    <3>1. ASSUME NEW q \in Msgs, handed[q] # None
          PROVE  Whole(handed[q], q, got'[q])
      <4>1. Whole(handed[q], q, got[q])
        BY <3>1 DEF SSUInv, HandedInv
      <4>2. got'[q] = got[q]
        BY <1>8, <1>11, <1>12, <4>1 DEF Whole
      <4> QED
        BY <4>1, <4>2
    <3> QED
      BY <2>1, <3>1 DEF SSUInv, SSUShape, HandedInv
  <2>2. CASE Completes(m, inc, k) /\ HandOn(m, new.nextFragmentNum)
    <3>1. PICK gap : gap = IF handed[m] = None THEN DECAY_INTERVAL ELSE handed[m].since
      OBVIOUS
    <3>2. gap \in Nat
      BY <1>4, <3>1, SSUDataAssumption DEF SSUInv, HandedInv, Whole, HandedType
    <3>3. PICK h : h = [parts |-> Count(m), since |-> 0, gap |-> gap]
      OBVIOUS
    <3>4. handed' = [handed EXCEPT ![m] = h]
      BY <1>9, <2>2, <3>1, <3>3 DEF HandOn
    <3>5. Whole(h, m, have)
      BY <1>4, <1>9, <2>2, <3>2, <3>3, SideFacts DEF Whole, HandedType
    <3>6. DOMAIN handed' = Msgs /\ \A q \in Msgs : handed'[q] = IF q = m THEN h ELSE handed[q]
      BY <1>4, <3>4 DEF SSUInv, SSUShape
    <3> QED
      BY <1>12, <3>5, <3>6 DEF SSUInv, HandedInv
  <2> QED
    BY <1>4, <1>7, <2>1, <2>2
<1>26. SSUShape'
  BY <1>12, <1>14, <1>15, <1>19, <1>20, <1>25 DEF SSUShape
<1> QED
  BY <1>18, <1>22, <1>23, <1>24, <1>25, <1>26 DEF SSUInv

LEMMA ResendStep ==
  ASSUME SSUInv, NEW x \in Sides, HandleSSUResendTimer(x)
  PROVE  SSUInv' /\ AckedOnly /\ NewBitfields
<1>1. got' = got /\ m_IncompleteMessages' = m_IncompleteMessages /\ handed' = handed
  BY DEF HandleSSUResendTimer
<1>2. CASE ~("resend" \in m_ResendTimer[x].waits)
  <2>1. m_SentMessages' = m_SentMessages /\ datagrams' = datagrams
    BY <1>2 DEF HandleSSUResendTimer
  <2>2. PICK sent : sent = m_SentMessages'
    OBVIOUS
  <2>3. /\ DOMAIN sent = Sides /\ \A y \in Sides : DOMAIN sent[y] = MsgsOf(y)
        /\ \A y \in Sides : \A m \in MsgsOf(y) :
             sent[y][m] \in {None, m_SentMessages[y][m], SentMessage(m)}
    BY <2>1, <2>2 DEF SSUInv, SSUShape
  <2>4. \A q \in datagrams' : q \in datagrams \/ Unacked(q)
    BY <2>1
  <2> QED
    BY <1>1, <2>2, <2>3, <2>4, SSUKeeps
<1>3. CASE "resend" \in m_ResendTimer[x].waits
  <2>1. PICK after : after = [m \in MsgsOf(x) |-> IF m \in Due(x) THEN Resent(m_SentMessages[x][m])
                                                  ELSE m_SentMessages[x][m]]
    OBVIOUS
  <2>2. /\ m_SentMessages' = [m_SentMessages EXCEPT ![x] = after]
        /\ \A p \in datagrams' : p \in datagrams \/ \E m \in Due(x) :
             \E k \in m_SentMessages[x][m].fragments : p = FragmentPacket(m, k)
    BY <1>3, <2>1 DEF HandleSSUResendTimer
  <2>3. PICK sent : sent = m_SentMessages'
    OBVIOUS
  <2>4. /\ DOMAIN sent = Sides /\ \A y \in Sides : DOMAIN sent[y] = MsgsOf(y)
        /\ \A y \in Sides : \A m \in MsgsOf(y) :
             \/ sent[y][m] = m_SentMessages[y][m]
             \/ m_SentMessages[y][m] # None /\ sent[y][m] = Resent(m_SentMessages[y][m])
    <3>1. \A m \in MsgsOf(x) : \/ after[m] = m_SentMessages[x][m]
                               \/ m_SentMessages[x][m] # None /\ after[m] = Resent(m_SentMessages[x][m])
      <4>1. \A m \in Due(x) : m_SentMessages[x][m] # None
        BY DEF Due
      <4>2. \A m \in MsgsOf(x) : after[m] = IF m \in Due(x) THEN Resent(m_SentMessages[x][m])
                                            ELSE m_SentMessages[x][m]
        BY <2>1
      <4> QED
        BY <4>1, <4>2
    <3>2. DOMAIN after = MsgsOf(x)
      BY <2>1
    <3>3. DOMAIN sent = Sides /\ \A y \in Sides : sent[y] = IF y = x THEN after ELSE m_SentMessages[y]
      BY <2>2, <2>3 DEF SSUInv, SSUShape
    <3>4. \A y \in Sides : DOMAIN sent[y] = MsgsOf(y)
      BY <3>2, <3>3 DEF SSUInv, SSUShape
    <3> QED
      BY <3>1, <3>3, <3>4
  <2>5. ASSUME NEW y \in Sides, NEW m \in MsgsOf(y), m_SentMessages[y][m] # None,
               sent[y][m] = Resent(m_SentMessages[y][m]), sent[y][m] # None
        PROVE  /\ SentReal(sent[y][m], m)
               /\ sent[y][m].fragments = m_SentMessages[y][m].fragments
    <3>1. PICK s : s = m_SentMessages[y][m]
      OBVIOUS
    <3>2. SentReal(s, m)
      BY <2>5, <3>1 DEF SSUInv, SentInv
    <3>3. PICK n, due : n = s.numResends + 1 /\ due = s.due + (s.numResends + 1) * RESEND_INTERVAL
      OBVIOUS
    <3>4. sent[y][m] = [s EXCEPT !.numResends = n, !.due = due]
      BY <2>5, <3>1, <3>3 DEF Resent
    <3>5. n \in Nat /\ due \in Int
      BY <3>2, <3>3, SSUDataAssumption DEF SentReal, SentType
    <3>6. PICK s1 : s1 = [s EXCEPT !.numResends = n]
      OBVIOUS
    <3>7. s1 \in SentType /\ s1.fragments = s.fragments
      BY <3>2, <3>5, <3>6 DEF SentReal, SentType
    <3>8. sent[y][m] = [s1 EXCEPT !.due = due]
      BY <3>4, <3>6
    <3>9. sent[y][m] \in SentType /\ sent[y][m].fragments = s.fragments
      BY <3>5, <3>7, <3>8 DEF SentType
    <3> QED
      BY <3>1, <3>2, <3>9 DEF SentReal
  <2>6. SentInv'
    BY <2>3, <2>4, <2>5 DEF SSUInv, SentInv
  <2>7. AckedOnly
    BY <2>3, <2>4, <2>5 DEF AckedOnly
  <2>8. ASSUME NEW p \in datagrams'
        PROVE  p \in datagrams \/ Unacked(p)
    <3>1. ASSUME NEW m \in Due(x), NEW k \in m_SentMessages[x][m].fragments, p = FragmentPacket(m, k)
          PROVE  Unacked(p)
      <4>1. m \in MsgsOf(x) /\ m_SentMessages[x][m] # None
        BY <3>1 DEF Due
      <4>2. m \in Msgs /\ k \in Fragments(m)
        BY <3>1, <4>1, SideFacts DEF SSUInv, SentInv, SentReal
      <4> QED
        BY <3>1, <4>2, PacketFacts DEF Unacked
    <3> QED
      BY <2>2, <2>8, <3>1
  <2>9. SSUShape' /\ FragmentsReal' /\ Assembled' /\ HandedInv'
    BY <1>1, <2>3, <2>4, <2>8 DEF SSUInv, SSUShape, FragmentsReal, Assembled, HandedInv, Unacked
  <2>10. NewBitfields
    BY <1>1, <2>8 DEF NewBitfields, Unacked
  <2> QED
    BY <2>6, <2>7, <2>9, <2>10 DEF SSUInv
<1> QED
  BY <1>2, <1>3

LEMMA CleanupStep ==
  ASSUME SSUInv, NEW x \in Sides, HandleIncompleteMessagesCleanupTimer(x)
  PROVE  SSUInv' /\ AckedOnly /\ NewBitfields
<1>1. got' = got /\ m_SentMessages' = m_SentMessages /\ handed' = handed /\ datagrams' = datagrams
  BY DEF HandleIncompleteMessagesCleanupTimer
<1>2. PICK after : after = [m \in MsgsOf(Other(x)) |->
         IF m_IncompleteMessages[x][m] # None /\ Outdated(m_IncompleteMessages[x][m])
         THEN None ELSE m_IncompleteMessages[x][m]]
  OBVIOUS
<1>3. m_IncompleteMessages' = [m_IncompleteMessages EXCEPT ![x] = after]
  BY <1>2 DEF HandleIncompleteMessagesCleanupTimer
<1>4. PICK incs : incs = m_IncompleteMessages'
  OBVIOUS
<1>5. /\ DOMAIN incs = Sides /\ \A y \in Sides : DOMAIN incs[y] = MsgsOf(Other(y))
      /\ \A y \in Sides : \A m \in MsgsOf(Other(y)) :
           incs[y][m] = None \/ incs[y][m] = m_IncompleteMessages[y][m]
  BY <1>2, <1>3, <1>4 DEF SSUInv, SSUShape
<1>6. SSUShape' /\ FragmentsReal' /\ HandedInv' /\ SentInv'
  BY <1>1, <1>4, <1>5 DEF SSUInv, SSUShape, FragmentsReal, HandedInv, SentInv
<1>7. Assembled'
  BY <1>1, <1>4, <1>5 DEF SSUInv, Assembled
<1>8. AckedOnly
  BY <1>1 DEF AckedOnly
<1>9. NewBitfields
  BY <1>1 DEF NewBitfields
<1> QED
  BY <1>6, <1>7, <1>8, <1>9 DEF SSUInv

LEMMA StillStep ==
  ASSUME SSUInv,
         UNCHANGED <<got, m_SentMessages, m_IncompleteMessages, handed, datagrams>>
  PROVE  SSUInv' /\ AckedOnly /\ NewBitfields
<1>1. SSUInv'
  BY DEF SSUInv, SSUShape, FragmentsReal, Assembled, HandedInv, SentInv
<1> QED
  BY <1>1 DEF AckedOnly, NewBitfields

(* A second later, an entry differs in its times only.                      *)
LEMMA TickStep ==
  ASSUME SSUInv, Tick
  PROVE  SSUInv' /\ AckedOnly /\ NewBitfields
<1>1. got' = got /\ datagrams' = datagrams
  BY DEF Tick
<1>2. PICK sent : sent = m_SentMessages'
  OBVIOUS
<1>3. PICK incs : incs = m_IncompleteMessages'
  OBVIOUS
<1>4. PICK hand : hand = handed'
  OBVIOUS
<1>5. /\ DOMAIN sent = Sides /\ \A x \in Sides : DOMAIN sent[x] = MsgsOf(x)
      /\ \A x \in Sides : \A m \in MsgsOf(x) :
           IF m_SentMessages[x][m] = None \/ closed[x] THEN sent[x][m] = m_SentMessages[x][m]
           ELSE sent[x][m] = [m_SentMessages[x][m] EXCEPT !.due = Max({@ - 1, -RESEND_INTERVAL})]
  BY <1>2 DEF Tick
<1>6. /\ DOMAIN incs = Sides /\ \A x \in Sides : DOMAIN incs[x] = MsgsOf(Other(x))
      /\ \A x \in Sides : \A m \in MsgsOf(Other(x)) :
           IF m_IncompleteMessages[x][m] = None THEN incs[x][m] = None
           ELSE incs[x][m] = [m_IncompleteMessages[x][m] EXCEPT
                   !.inserted = Aged(@, LongAgo),
                   !.age = Aged(@, INCOMPLETE_MESSAGES_CLEANUP_TIMEOUT)]
  BY <1>3 DEF Tick
<1>7. /\ DOMAIN hand = Msgs
      /\ \A m \in Msgs : IF handed[m] = None THEN hand[m] = None
                         ELSE hand[m] = [handed[m] EXCEPT !.since = Aged(@, DECAY_INTERVAL)]
  BY <1>4 DEF Tick
<1>8. \A n, bound \in Nat : Aged(n, bound) \in Nat
  <2>1. ASSUME NEW n \in Nat, NEW bound \in Nat
        PROVE  Aged(n, bound) \in Nat
    <3>1. n + 1 \in Int /\ bound \in Int
      OBVIOUS
    <3>2. Min({n + 1, bound}) \in {n + 1, bound}
      BY <3>1, TwoFacts
    <3> QED
      BY <3>2 DEF Aged
  <2> QED
    BY <2>1
<1>9. ASSUME NEW x \in Sides, NEW m \in MsgsOf(x), m_SentMessages[x][m] # None
      PROVE  SentReal(sent[x][m], m) /\ sent[x][m].fragments = m_SentMessages[x][m].fragments
  <2>1. PICK s : s = m_SentMessages[x][m]
    OBVIOUS
  <2>2. SentReal(s, m)
    BY <1>9, <2>1 DEF SSUInv, SentInv
  <2>3. CASE closed[x]
    BY <1>5, <2>1, <2>2, <2>3
  <2>4. CASE ~closed[x]
    <3>1. PICK due : due = Max({s.due - 1, -RESEND_INTERVAL})
      OBVIOUS
    <3>2. sent[x][m] = [s EXCEPT !.due = due]
      BY <1>5, <1>9, <2>1, <2>4, <3>1
    <3>3. s.due - 1 \in Int /\ -RESEND_INTERVAL \in Int
      BY <2>2, SSUDataAssumption DEF SentReal, SentType
    <3>4. due \in Int
      BY <3>1, <3>3, TwoFacts
    <3> QED
      BY <2>1, <2>2, <3>2, <3>4 DEF SentReal, SentType
  <2> QED
    BY <2>3, <2>4
<1>10. ASSUME NEW x \in Sides, NEW m \in MsgsOf(Other(x)), m_IncompleteMessages[x][m] # None
       PROVE  Collected(incs[x][m], got[m])
  <2>1. PICK inc : inc = m_IncompleteMessages[x][m]
    OBVIOUS
  <2>2. Collected(inc, got[m])
    BY <1>10, <2>1 DEF SSUInv, Assembled
  <2>3. PICK inserted, age : inserted = Aged(inc.inserted, LongAgo)
                             /\ age = Aged(inc.age, INCOMPLETE_MESSAGES_CLEANUP_TIMEOUT)
    OBVIOUS
  <2>4. incs[x][m] = [inc EXCEPT !.inserted = inserted, !.age = age]
    BY <1>6, <1>10, <2>1, <2>3
  <2>5. inserted \in Nat /\ age \in Nat
    BY <1>8, <2>2, <2>3, SSUDataAssumption DEF Collected, IncType, LongAgo
  <2>6. PICK inc1 : inc1 = [inc EXCEPT !.inserted = inserted]
    OBVIOUS
  <2>7. inc1 \in IncType /\ inc1.saved = inc.saved /\ inc1.nextFragmentNum = inc.nextFragmentNum
    BY <2>2, <2>5, <2>6 DEF Collected, IncType
  <2>8. incs[x][m] = [inc1 EXCEPT !.age = age]
    BY <2>4, <2>6
  <2>9. incs[x][m] \in IncType /\ incs[x][m].saved = inc.saved
        /\ incs[x][m].nextFragmentNum = inc.nextFragmentNum
    BY <2>5, <2>7, <2>8 DEF IncType
  <2> QED
    BY <2>2, <2>9 DEF Collected
<1>11. ASSUME NEW m \in Msgs, handed[m] # None
       PROVE  Whole(hand[m], m, got[m])
  <2>1. PICK h : h = handed[m]
    OBVIOUS
  <2>2. Whole(h, m, got[m])
    BY <1>11, <2>1 DEF SSUInv, HandedInv
  <2>3. PICK since : since = Aged(h.since, DECAY_INTERVAL)
    OBVIOUS
  <2>4. hand[m] = [h EXCEPT !.since = since]
    BY <1>7, <1>11, <2>1, <2>3
  <2>5. since \in Nat
    BY <1>8, <2>2, <2>3, SSUDataAssumption DEF Whole, HandedType
  <2>6. h \in HandedType
    BY <2>2 DEF Whole
  <2>7. hand[m] \in HandedType /\ hand[m].parts = h.parts
    BY <2>4, <2>5, <2>6 DEF HandedType
  <2> QED
    BY <2>2, <2>7 DEF Whole
<1>12. SentInv'
  <2>1. \A x \in Sides : \A m \in MsgsOf(x) : m_SentMessages[x][m] = None => sent[x][m] = None
    BY <1>5
  <2> QED
    BY <1>2, <1>9, <2>1 DEF SentInv
<1>13. AckedOnly
  BY <1>2, <1>5, <1>9 DEF AckedOnly
<1>14. Assembled'
  BY <1>1, <1>3, <1>6, <1>10 DEF Assembled
<1>15. HandedInv'
  BY <1>1, <1>4, <1>7, <1>11 DEF HandedInv
<1>16. SSUShape' /\ FragmentsReal'
  BY <1>1, <1>2, <1>3, <1>4, <1>5, <1>6, <1>7 DEF SSUInv, SSUShape, FragmentsReal
<1>17. NewBitfields
  BY <1>1 DEF NewBitfields
<1> QED
  BY <1>12, <1>13, <1>14, <1>15, <1>16, <1>17 DEF SSUInv

LEMMA SSUStep ==
  ASSUME SSUInv, SSUDataNext
  PROVE  SSUInv' /\ AckedOnly /\ NewBitfields
<1>1. ASSUME NEW m \in Data, Send(m)
      PROVE  SSUInv' /\ AckedOnly /\ NewBitfields
  BY <1>1, SendStep
<1>2. ASSUME NEW p \in datagrams, ReceiveAck(p)
      PROVE  SSUInv' /\ AckedOnly /\ NewBitfields
  BY <1>2, ReceiveAckStep
<1>3. ASSUME NEW p \in datagrams, ReceiveFragment(p)
      PROVE  SSUInv' /\ AckedOnly /\ NewBitfields
  BY <1>3, ReceiveFragmentStep
<1>4. ASSUME NEW x \in Sides, HandleSSUResendTimer(x)
      PROVE  SSUInv' /\ AckedOnly /\ NewBitfields
  BY <1>4, ResendStep
<1>5. ASSUME NEW x \in Sides, HandleIncompleteMessagesCleanupTimer(x)
      PROVE  SSUInv' /\ AckedOnly /\ NewBitfields
  BY <1>5, CleanupStep
<1>6. ASSUME NEW x \in Sides, CloseSession(x)
      PROVE  SSUInv' /\ AckedOnly /\ NewBitfields
  BY <1>6, StillStep DEF CloseSession
<1>7. ASSUME Tick
      PROVE  SSUInv' /\ AckedOnly /\ NewBitfields
  BY <1>7, TickStep
<1> QED
  BY <1>1, <1>2, <1>3, <1>4, <1>5, <1>6, <1>7 DEF SSUDataNext

LEMMA SSUStart ==
  ASSUME SSUDataInit
  PROVE  /\ SSUInv
         /\ \A p \in datagrams : p.kind # "bitfield"
         /\ \A x \in Sides : \A m \in MsgsOf(x) : m_SentMessages[x][m] # None =>
              m_SentMessages[x][m].fragments = Fragments(m)
<1>1. PICK fresh \in Starts : InitSession(fresh)
  BY DEF SSUDataInit
<1>2. PICK sent, incs : sent = m_SentMessages /\ incs = m_IncompleteMessages
  OBVIOUS
<1>3. /\ DOMAIN sent = Sides /\ \A x \in Sides : DOMAIN sent[x] = MsgsOf(x)
      /\ \A x \in Sides : \A m \in MsgsOf(x) : sent[x][m] \in {None, SentMessage(m)}
  BY <1>1, <1>2 DEF InitSession
<1>4. /\ DOMAIN incs = Sides /\ \A x \in Sides : DOMAIN incs[x] = MsgsOf(Other(x))
      /\ \A x \in Sides : \A m \in MsgsOf(Other(x)) : incs[x][m] = None
  BY <1>1, <1>2 DEF InitSession
<1>5. got = [m \in Msgs |-> {}] /\ handed = [m \in Msgs |-> None]
  BY <1>1 DEF InitSession
<1>6. ASSUME NEW p \in datagrams
      PROVE  p.kind = "fragment" /\ p.msg \in Msgs /\ p.num \in Fragments(p.msg)
  <2>1. p \in Packets(MsgsOf(Bob))
    BY <1>1, <1>6 DEF InitSession
  <2>2. MsgsOf(Bob) \subseteq Msgs
    BY DEF MsgsOf
  <2> QED
    BY <2>1, <2>2, PacketsFacts
<1>7. SSUShape /\ FragmentsReal /\ HandedInv
  BY <1>2, <1>3, <1>4, <1>5, <1>6 DEF SSUShape, FragmentsReal, HandedInv
<1>8. Assembled
  BY <1>2, <1>4 DEF Assembled
<1>9. ASSUME NEW x \in Sides, NEW m \in MsgsOf(x), sent[x][m] # None
      PROVE  SentReal(sent[x][m], m) /\ sent[x][m].fragments = Fragments(m)
  BY <1>3, <1>9, SideFacts, SentMessageFacts
<1>10. SentInv
  BY <1>2, <1>9 DEF SentInv
<1> QED
  BY <1>2, <1>6, <1>7, <1>8, <1>9, <1>10 DEF SSUInv

(* Whatever is lost, late or twice, a message that is handed to the I2NP    *)
(* handler has all its fragments (MessageReceived, ProcessFragments).       *)
THEOREM SpecHandedWhole == SSUDataSpec => []HandedWhole
<1>1. SSUDataInit => SSUInv
  BY SSUStart
<1>2. SSUInv /\ [SSUDataNext]_ssuDataVars => SSUInv'
  BY SSUStep, StillStep DEF ssuDataVars
<1>3. SSUInv => HandedWhole
  BY DEF SSUInv, HandedInv, Whole, HandedWhole
<1> QED
  BY <1>1, <1>2, <1>3, PTL DEF SSUDataSpec

-----------------------------------------------------------------------------
(* The bitfield of a fragment is read as the one at the same place of the   *)
(* first byte: the bytes before the fragment's own have no bit.             *)
LEMMA ReadInFirstByte ==
  ASSUME NEW m \in Msgs, NEW k \in Fragments(m), NEW p \in SendFragmentAck(m, k)
  PROVE  AckedFragments(p.fields) \subseteq {k % BitsPerByte}
<1>1. k \in Nat /\ BitsPerByte \in Nat \ {0}
  BY SSUDataAssumption DEF Fragments, Count
<1>2. PICK q : q = k \div BitsPerByte
  OBVIOUS
<1>3. PICK b : b = k % BitsPerByte
  OBVIOUS
<1>4. q \in Nat /\ b \in Nat
  BY <1>1, <1>2, <1>3, SMTT(30)
<1>5. PICK fields : fields = [i \in 1 .. q + 1 |-> IF i = q + 1 THEN {b} ELSE {}]
  OBVIOUS
<1>6. p.fields = fields
  BY <1>2, <1>3, <1>5 DEF SendFragmentAck, BitfieldAck
<1>7. FirstBit(fields, q + 1) = 0
  <2>1. {j \in 1 .. (q + 1) - 1 : fields[j] # {}} = {}
    BY <1>4, <1>5
  <2>2. BitsPerByte * Cardinality({}) = 0
    BY <1>1, FS_EmptySet
  <2> QED
    BY <2>1, <2>2 DEF FirstBit
<1>8. DOMAIN fields = 1 .. q + 1 /\ fields[q + 1] = {b}
      /\ \A i \in 1 .. q + 1 : i # q + 1 => fields[i] = {}
  BY <1>4, <1>5
<1>9. ASSUME NEW f \in AckedFragments(fields)
      PROVE  f = b
  <2>1. PICK i \in DOMAIN fields : \E n \in fields[i] : f = FirstBit(fields, i) + n
    BY <1>9 DEF AckedFragments
  <2>2. i = q + 1
    BY <1>8, <2>1
  <2>3. f = 0 + b
    BY <1>7, <1>8, <2>1, <2>2
  <2> QED
    BY <1>4, <2>3
<1> QED
  BY <1>3, <1>6, <1>9

(* Every bitfield under way is read as fragments of the first byte, each at *)
(* the place of one that has arrived.                                       *)
BitfieldsArrived ==
  \A p \in datagrams : p.kind = "bitfield" =>
    p.msg \in Msgs /\ AckedFragments(p.fields) \subseteq {k % BitsPerByte : k \in got[p.msg]}

(* Whatever the number of fragments, bitfields take only fragments of the   *)
(* first byte out of resending, each at the place in its byte of one that   *)
(* has arrived (SendFragmentAck, ProcessAcks): the misreading costs no      *)
(* fragment of a later byte, and none of a message that fits in a byte.     *)
THEOREM SpecFirstByteAcked == SSUDataSpec => []FirstByteAcked
<1> DEFINE AckInv == SSUInv /\ BitfieldsArrived /\ FirstByteAcked
<1>1. ASSUME SSUDataInit
      PROVE  AckInv
  <2>1. /\ SSUInv
        /\ \A p \in datagrams : p.kind # "bitfield"
        /\ \A x \in Sides : \A m \in MsgsOf(x) : m_SentMessages[x][m] # None =>
             m_SentMessages[x][m].fragments = Fragments(m)
    BY <1>1, SSUStart
  <2> QED
    BY <2>1 DEF BitfieldsArrived, FirstByteAcked
<1>2. ASSUME AckInv, [SSUDataNext]_ssuDataVars
      PROVE  AckInv'
  <2>1. SSUInv' /\ AckedOnly /\ NewBitfields
    BY <1>2, SSUStep, StillStep DEF ssuDataVars
  <2>2. \A m \in Msgs : got[m] \subseteq got'[m]
    BY <2>1 DEF NewBitfields
  <2>3. ASSUME NEW p \in datagrams', p.kind = "bitfield"
        PROVE  p.msg \in Msgs /\ AckedFragments(p.fields) \subseteq {k % BitsPerByte : k \in got'[p.msg]}
    <3>1. CASE p \in datagrams
      BY <1>2, <2>2, <2>3, <3>1 DEF BitfieldsArrived
    <3>2. CASE p \notin datagrams
      <4>1. p.msg \in Msgs
        BY <2>1, <2>3, <3>2 DEF NewBitfields
      <4>2. PICK k \in got'[p.msg] : p \in SendFragmentAck(p.msg, k)
        BY <2>1, <2>3, <3>2 DEF NewBitfields
      <4>3. k \in Fragments(p.msg)
        BY <2>1, <4>1, <4>2 DEF SSUInv, FragmentsReal
      <4>4. AckedFragments(p.fields) \subseteq {k % BitsPerByte}
        BY <4>1, <4>2, <4>3, ReadInFirstByte
      <4> QED
        BY <4>1, <4>2, <4>4
    <3> QED
      BY <3>1, <3>2
  <2>4. BitfieldsArrived'
    BY <2>3 DEF BitfieldsArrived
  <2>5. ASSUME NEW x \in Sides, NEW m \in MsgsOf(x), m_SentMessages'[x][m] # None,
               NEW f \in Fragments(m), f \notin m_SentMessages'[x][m].fragments
        PROVE  \E k \in got'[m] : f = k % BitsPerByte
    <3>1. m \in Msgs
      BY SideFacts
    <3>2. \/ m_SentMessages[x][m] # None /\ f \notin m_SentMessages[x][m].fragments
          \/ \E p \in datagrams : p.kind = "bitfield" /\ p.msg = m /\ f \in AckedFragments(p.fields)
      BY <2>1, <2>5 DEF AckedOnly
    <3>3. \E k \in got[m] : f = k % BitsPerByte
      BY <1>2, <2>5, <3>2 DEF FirstByteAcked, BitfieldsArrived
    <3> QED
      BY <2>2, <3>1, <3>3
  <2>6. FirstByteAcked'
    BY <2>5 DEF FirstByteAcked
  <2> QED
    BY <2>1, <2>4, <2>6
<1>3. AckInv => FirstByteAcked
  OBVIOUS
<1> HIDE DEF AckInv
<1> QED
  BY <1>1, <1>2, <1>3, PTL DEF SSUDataSpec
=============================================================================
