--------------------------- MODULE StreamingProofs --------------------------
(***************************************************************************)
(* Streams, for any number of them, of packets and of units, however the    *)
(* packets are lost, delayed, resent and duplicated: what an accepted       *)
(* stream hands to its reader is a prefix of what was written, data is      *)
(* given up only when the other side has it, no stream is left with data    *)
(* and nothing to wait for, and a stream that was closed in order has       *)
(* delivered everything.                                                    *)
(*                                                                          *)
(* The sequence numbers a stream has used cut what it wrote into pieces:    *)
(* pos[n] units are before packet n.  No variable holds these places, so    *)
(* the invariant says that there are some: every packet the stream keeps,   *)
(* has posted or has on the network holds the piece of its number (Sends),  *)
(* and what the other side has delivered is the pieces up to its last       *)
(* number (Listens).  A handler is a chain of records; what one may change  *)
(* is Acts, Receives and Accepts, and a step of the specification is one of *)
(* them (NextHappens).  The second invariant, Heeds, is about acks: while   *)
(* the stream that was opened is in its table, all its packets but the SYN  *)
(* go to one peer, that peer has each of its numbers or the packet is still *)
(* kept, and what a packet of a peer acknowledges the peer has.             *)
(***************************************************************************)
EXTENDS StreamProofs

-----------------------------------------------------------------------------
(* Taking packets: ProcessPacket, and the loop over m_SavedPackets.         *)

(* A record after packets were taken: what it then has not received yet is  *)
(* no concern of its sending side.                                          *)
Takes(s, st, pos, r, pos2) ==
  /\ Sends(s, r, pos2)
  /\ \A i \in Nat : i <= st.seqn => pos2[i] = pos[i]
  /\ st.seqn <= r.seqn
  /\ r.written = st.written /\ r.peer = st.peer
  /\ st.sent \subseteq r.sent
  /\ \A p \in Own(r) : p \in Own(st) \/ ((p.seqn # 0 => p.to = st.peer) /\ AckHeld(r, p))
  /\ \A n \in Nat : st.seqn <= n /\ n < r.seqn => pos2[n + 1] = pos2[n] \/ Tracked(r, n)
  /\ r.inTable => /\ st.inTable /\ r.status = st.status /\ r.seqn = st.seqn
                  /\ r.sent = st.sent /\ r.eof = st.eof
  /\ r.status = "New" <=> st.status = "New"
  /\ Waits(st) => Waits(r)

(* Packets taken one after the other.                                       *)
LEMMA TakesTrans ==
  ASSUME NEW s, NEW st, NEW pos, NEW r, NEW pos2, NEW q, NEW pos3, Sends(s, st, pos),
         Takes(s, st, pos, r, pos2), Takes(s, r, pos2, q, pos3), Has(r) \subseteq Has(q)
  PROVE  Takes(s, st, pos, q, pos3)
<1>1. PICK a \in Nat, b \in Nat, c \in Nat : a = st.seqn /\ b = r.seqn /\ c = q.seqn
  <2>1. st.seqn \in Nat /\ r.seqn \in Nat /\ q.seqn \in Nat
    BY SendsFacts DEF Takes
  <2> QED
    BY <2>1
<1>2. a <= b /\ b <= c /\ (\A i \in Nat : i <= a => pos2[i] = pos[i])
      /\ \A i \in Nat : i <= b => pos3[i] = pos2[i]
  BY <1>1 DEF Takes
<1>3. a <= c /\ \A i \in Nat : i <= a => pos3[i] = pos[i]
  BY <1>1, <1>2
<1>4. r.peer = st.peer /\ r.sent \subseteq q.sent
  BY DEF Takes
<1>5. \A p : AckHeld(r, p) => AckHeld(q, p)
  BY DEF AckHeld
<1>6. \A p \in Own(q) : p \in Own(st) \/ ((p.seqn # 0 => p.to = st.peer) /\ AckHeld(q, p))
  BY <1>4, <1>5 DEF Takes
<1>7. ASSUME NEW n \in Nat, a <= n, n < c
      PROVE  pos3[n + 1] = pos3[n] \/ Tracked(q, n)
  <2>1. CASE b <= n
    BY <1>1, <1>7, <2>1 DEF Takes
  <2>2. CASE ~(b <= n)
    <3>1. PICK m \in Nat : m = n + 1
      OBVIOUS
    <3>2. n < b /\ m <= b /\ n <= b
      BY <2>2, <3>1, <1>1
    <3>3. pos3[m] = pos2[m] /\ pos3[n] = pos2[n]
      BY <1>2, <3>2
    <3>4. pos2[m] = pos2[n] \/ Tracked(r, n)
      BY <1>1, <1>7, <3>1, <3>2 DEF Takes
    <3>5. Tracked(r, n) => Tracked(q, n)
      BY <1>4 DEF Tracked
    <3> QED
      BY <3>1, <3>3, <3>4, <3>5
  <2> QED
    BY <2>1, <2>2
<1> QED
  BY <1>1, <1>3, <1>6, <1>7 DEF Takes

(* The record with other received data.                                     *)
GotFrom(st, l, d, S, got) ==
  /\ got.last = l /\ got.delivered = d /\ got.saved = S
  /\ got.seqn = st.seqn /\ got.written = st.written /\ got.buf = st.buf
  /\ got.eof = st.eof /\ got.status = st.status /\ got.sent = st.sent /\ got.peer = st.peer
  /\ got.closing = st.closing /\ got.inTable = st.inTable /\ got.out = st.out
  /\ got.posted = st.posted /\ got.window = st.window
  /\ got.resendSet = st.resendSet

(* A record that differs in what was received.                              *)
LEMMA GotTakes ==
  ASSUME NEW s \in StreamIDs, NEW st, NEW pos, Sends(s, st, pos), NEW l, NEW d, NEW S,
         NEW got \in StreamType, GotFrom(st, l, d, S, got), IsFiniteSet(S),
         st.status = "New" => S = {} /\ got.acks = 0
  PROVE  Takes(s, st, pos, got, pos)
<1>1. Own(got) = Own(st)
  BY DEF GotFrom, Own, PostedFin
<1>2. Stages(s, got)
  BY DEF GotFrom, Sends, Stages, PostedFin
<1>3. Sends(s, got, pos)
  <2>1. /\ \A p \in Own(st) : OwnPacket(s, st.seqn, st.written, pos, p)
        /\ \A p \in st.sent : p.seqn # 0 \/ p.syn
        /\ IsFiniteSet(st.sent) /\ Cardinality(st.sent) <= MAX_WINDOW_SIZE
        /\ st.window >= 1 /\ st.window <= MAX_WINDOW_SIZE
    BY SendsFacts
  <2>2. IsFiniteSet(got.saved)
    BY DEF GotFrom
  <2> QED
    BY <1>1, <1>2, <2>1, <2>2, SendsKept DEF GotFrom
<1>4. st.seqn <= got.seqn /\ \A n \in Nat : ~(st.seqn <= n /\ n < got.seqn)
  BY SendsFacts DEF GotFrom
<1>5. Waits(st) => Waits(got)
  BY DEF Waits, GotFrom
<1> QED
  BY <1>1, <1>3, <1>4, <1>5 DEF Takes, GotFrom

(* ProcessPacket.                                                           *)
LEMMA ProcessPacketTakes ==
  ASSUME NEW s \in StreamIDs, NEW st, NEW pos, Sends(s, st, pos), NEW p \in PacketType,
         st.status = "New" => ~p.fin
  PROVE  /\ \E pos2 : Takes(s, st, pos, ProcessPacket(s, st, p), pos2)
         /\ ProcessPacket(s, st, p).last = p.seqn
         /\ ProcessPacket(s, st, p).delivered = st.delivered \o p.data
         /\ ProcessPacket(s, st, p).saved = st.saved
<1> SUFFICES ASSUME NEW r, r = ProcessPacket(s, st, p)
    PROVE  /\ \E pos2 : Takes(s, st, pos, r, pos2)
           /\ r.last = p.seqn /\ r.delivered = st.delivered \o p.data /\ r.saved = st.saved
  OBVIOUS
<1>1. st \in StreamType /\ st.delivered \in Seq(Units) /\ IsFiniteSet(st.saved)
  BY SendsFacts
<1>2. p.seqn \in Nat /\ p.data \in Seq(Units) /\ p.fin \in BOOLEAN
  BY DEF PacketType
<1>3. PICK d \in Seq(Units) : d = st.delivered \o p.data
  <2>1. st.delivered \o p.data \in Seq(Units)
    BY <1>1, <1>2, ConcatProperties
  <2> QED
    BY <2>1
<1>4. PICK l \in Int : l = p.seqn
  BY <1>2
<1>5. PICK got : got = [st EXCEPT !.delivered = @ \o p.data, !.last = p.seqn]
  OBVIOUS
<1>6. got = [st EXCEPT !.delivered = d, !.last = l] /\ d \in Seq(Units) /\ l \in Int
  BY <1>3, <1>4, <1>5
<1>7. got \in StreamType /\ GotFrom(st, l, d, st.saved, got) /\ got.acks = st.acks
  <2>1. /\ got \in StreamType /\ got.acks = st.acks
        /\ got.last = l /\ got.delivered = d /\ got.saved = st.saved
        /\ got.seqn = st.seqn /\ got.written = st.written /\ got.buf = st.buf
        /\ got.eof = st.eof /\ got.status = st.status /\ got.sent = st.sent /\ got.peer = st.peer
        /\ got.closing = st.closing /\ got.inTable = st.inTable /\ got.out = st.out
        /\ got.posted = st.posted /\ got.window = st.window
        /\ got.resendSet = st.resendSet
    BY <1>1, <1>6 DEF StreamType
  <2> QED
    BY <2>1 DEF GotFrom
<1>8. Takes(s, st, pos, got, pos)
  <2>1. st.status = "New" => st.saved = {} /\ got.acks = 0
    BY <1>7 DEF Sends, Stages
  <2> QED
    BY <1>1, <1>7, <2>1, GotTakes
<1>9. CASE ~p.fin
  <2>1. r = got
    BY <1>5, <1>9 DEF ProcessPacket
  <2> QED
    BY <1>3, <1>4, <1>7, <1>8, <2>1 DEF GotFrom
<1>10. CASE p.fin
  <2>1. PICK x \in {"Closing", "Closed", "Reset"} : x = "Reset"
    OBVIOUS
  <2>2. PICK q : q = [got EXCEPT !.status = x]
    OBVIOUS
  <2>3. r = Close(s, q)
    BY <1>5, <1>10, <2>1, <2>2 DEF ProcessPacket
  <2>4. Sends(s, got, pos) /\ got.status # "New"
    BY <1>7, <1>8, <1>10 DEF Takes, GotFrom
  <2>5. Later(s, got, pos, q, pos) /\ q.status = "Reset"
    BY <2>1, <2>2, <2>4, StatusLater
  <2>6. Sends(s, q, pos) /\ q \in StreamType
    BY <2>5, SendsFacts DEF Later
  <2>7. r = TerminateAndDelete(SendClose(s, q))
    BY <2>3, <2>5, <2>6, CloseCases
  <2>8. (\E pos2 : Later(s, q, pos, r, pos2)) /\ r.status = "Reset" /\ ~r.inTable
    BY <2>5, <2>6, <2>7, DeleteLater
  <2>9. PICK pos2 : Later(s, q, pos, r, pos2)
    BY <2>8
  <2>10. Later(s, got, pos, r, pos2)
    BY <2>4, <2>5, <2>9, LaterTrans
  <2>11. r.last = l /\ r.delivered = d /\ r.saved = st.saved /\ l >= 0
    BY <1>2, <1>4, <1>7, <2>10 DEF Later, GotFrom
  <2>12. Has(r) = Has(got)
    BY <2>10 DEF Later, Has
  <2>13. got.last >= 0
    BY <1>7, <2>11 DEF GotFrom
  <2>14. \A y : Fresh(got, y) => (y.seqn # 0 => y.to = got.peer) /\ AckHeld(r, y)
    BY <2>12, <2>13 DEF Fresh, AckTrue, AckHeld
  <2>15. Own(got) = Own(st) /\ got.peer = st.peer /\ got.seqn = st.seqn /\ got.sent = st.sent
         /\ got.written = st.written
    BY <1>7 DEF GotFrom, Own, PostedFin
  <2>16. Takes(s, st, pos, r, pos2)
    <3>1. Waits(r)
      BY <2>8 DEF Waits
    <3>2. r.status # "New" /\ st.status # "New"
      BY <1>10, <2>8
    <3>3. \A y \in Own(r) : y \in Own(st) \/ ((y.seqn # 0 => y.to = st.peer) /\ AckHeld(r, y))
      BY <2>10, <2>14, <2>15 DEF Later
    <3> QED
      BY <2>8, <2>10, <2>15, <3>1, <3>2, <3>3 DEF Later, Takes
  <2> QED
    BY <1>3, <1>4, <2>11, <2>16
<1> QED
  BY <1>9, <1>10

(* Induction for a set of numbers.                                          *)
LEMMA NatSetInduction ==
  ASSUME NEW S, 0 \in S, \A m \in Nat : m \in S => m + 1 \in S
  PROVE  \A m \in Nat : m \in S
<1> DEFINE R == {ss \in Nat \X Nat : ss[1] < ss[2]}
           T == {m \in Nat : m \notin S}
<1>1. IsWellFoundedOn(R, Nat)
  BY NatLessThanWellFounded DEF OpToRel
<1>2. CASE T = {}
  BY <1>2
<1>3. CASE T # {}
  <2>1. PICK x \in T : \A y \in T : ~(<<y, x>> \in R)
    <3>1. T \subseteq Nat
      OBVIOUS
    <3> HIDE DEF R, T
    <3> QED
      BY <1>1, <1>3, <3>1, WFMin
  <2>2. \A y \in T : ~(y < x)
    BY <2>1
  <2>3. x \in Nat /\ x # 0
    OBVIOUS
  <2>4. x - 1 \in Nat /\ x - 1 < x /\ x - 1 + 1 = x
    BY <2>3
  <2>5. x - 1 \in S
    BY <2>2, <2>4
  <2> QED
    BY <2>4, <2>5
<1> QED
  BY <1>2, <1>3

(* Where the loop over the saved packets stops.                             *)
Stop(S, l) ==
  IF \E k \in S : k <= l THEN l
  ELSE CHOOSE n \in S \cup {l} : n + 1 \notin S /\ l + 1 .. n \subseteq S

(* Where the loop over m_SavedPackets stops.                                *)
LEMMA StopIs ==
  ASSUME NEW st
  PROVE  LastInLine(st) = Stop(Saved(st), st.last)
BY DEF LastInLine, Stop, Saved

(* The loop stops where the next number is missing.                         *)
LEMMA StopFacts ==
  ASSUME NEW S \in SUBSET Nat, IsFiniteSet(S), NEW l \in Nat
  PROVE  /\ Stop(S, l) \in Nat /\ l <= Stop(S, l)
         /\ l + 1 .. Stop(S, l) \subseteq S
         /\ Stop(S, l) = l \/ Stop(S, l) \in S
<1>1. CASE \E k \in S : k <= l
  BY <1>1 DEF Stop
<1>2. CASE ~(\E k \in S : k <= l)
  <2> DEFINE T == {m \in Nat : m > l /\ m \notin S}
  <2>1. T # {}
    <3>1. CASE S = {}
      <4>1. l + 1 \in T
        BY <3>1
      <4> QED
        BY <4>1
    <3>2. CASE S # {}
      <4>1. S \in SUBSET Int
        OBVIOUS
      <4>2. PICK m \in Nat : \A y \in S : y <= m
        <5>1. Max(S) \in S /\ \A y \in S : y <= Max(S)
          BY <3>2, <4>1, FiniteMax
        <5> QED
          BY <5>1
      <4>3. l + m + 1 \in Nat /\ l + m + 1 > l /\ l + m + 1 > m
        OBVIOUS
      <4>4. l + m + 1 \notin S
        BY <4>2, <4>3
      <4> QED
        BY <4>3, <4>4
    <3> QED
      BY <3>1, <3>2
  <2>2. PICK m \in T : \A y \in T : m <= y
    <3>1. T \subseteq Nat
      OBVIOUS
    <3> HIDE DEF T
    <3> QED
      BY <2>1, <3>1, NatMin
  <2>3. m \in Nat /\ m > l /\ m \notin S
    OBVIOUS
  <2>4. PICK n \in Nat : n + 1 = m
    BY <2>3
  <2>5. n >= l
    BY <2>3, <2>4
  <2>6. ASSUME NEW k \in l + 1 .. n
        PROVE  k \in S
    <3>1. k \in Nat /\ k > l /\ ~(m <= k)
      BY <2>4
    <3>2. k \notin T
      BY <2>2, <3>1
    <3> QED
      BY <3>1, <3>2
  <2>7. n \in S \cup {l}
    <3>1. CASE n = l
      BY <3>1
    <3>2. CASE n # l
      <4>1. n \in l + 1 .. n
        BY <2>5, <3>2
      <4> QED
        BY <2>6, <4>1
    <3> QED
      BY <3>1, <3>2
  <2>8. n + 1 \notin S /\ l + 1 .. n \subseteq S
    BY <2>3, <2>4, <2>6
  <2>9. Stop(S, l) = CHOOSE x \in S \cup {l} : x + 1 \notin S /\ l + 1 .. x \subseteq S
    BY <1>2 DEF Stop
  <2>10. Stop(S, l) \in S \cup {l} /\ l + 1 .. Stop(S, l) \subseteq S
    BY <2>7, <2>8, <2>9
  <2>11. \A k \in S : k > l
    BY <1>2
  <2>12. PICK x : x = Stop(S, l)
    OBVIOUS
  <2>13. CASE x = l
    BY <2>10, <2>12, <2>13
  <2>14. CASE x \in S
    <3>1. x \in Nat /\ x > l
      BY <2>11, <2>14
    <3> QED
      BY <2>10, <2>12, <2>14, <3>1
  <2> QED
    BY <2>10, <2>12, <2>13, <2>14
<1> QED
  BY <1>1, <1>2

(* The records of the loop: after each packet it takes.                     *)
IsTaking(f, s, st, a, b) ==
  f = [n \in a .. b |-> IF n = a THEN EraseInLine(st)
                        ELSE ProcessPacket(s, f[n - 1], SavedPacket(st, n))]

(* The records of the loop, one for each number.                            *)
LEMMA TakingExists ==
  ASSUME NEW s, NEW st, NEW a \in Nat, NEW b \in Nat, a <= b
  PROVE  \E f : IsTaking(f, s, st, a, b)
<1> DEFINE S == {m \in Nat : \E f : IsTaking(f, s, st, a, a + m)}
<1>1. 0 \in S
  <2>1. PICK f : f = [i \in a .. a + 0 |-> EraseInLine(st)]
    OBVIOUS
  <2>2. \A i \in a .. a + 0 : i = a
    OBVIOUS
  <2>3. f = [i \in a .. a + 0 |-> IF i = a THEN EraseInLine(st) ELSE ProcessPacket(s, f[i - 1], SavedPacket(st, i))]
    BY <2>1, <2>2
  <2>4. IsTaking(f, s, st, a, a + 0)
    BY <2>3 DEF IsTaking
  <2> QED
    BY <2>4
<1>2. \A m \in Nat : m \in S => m + 1 \in S
  <2> SUFFICES ASSUME NEW m \in Nat, m \in S
               PROVE  m + 1 \in S
    OBVIOUS
  <2>1. PICK f : IsTaking(f, s, st, a, a + m)
    OBVIOUS
  <2>2. PICK c \in Nat : c = a + m
    OBVIOUS
  <2>3. a + (m + 1) = c + 1 /\ a <= c
    BY <2>2
  <2>4. PICK g : g = [i \in a .. c + 1 |-> IF i = c + 1 THEN ProcessPacket(s, f[c], SavedPacket(st, c + 1)) ELSE f[i]]
    OBVIOUS
  <2>5. ASSUME NEW i \in a .. c + 1
        PROVE  g[i] = IF i = a THEN EraseInLine(st) ELSE ProcessPacket(s, g[i - 1], SavedPacket(st, i))
    <3>1. CASE i = c + 1
      <4>1. i # a /\ i - 1 = c /\ c \in a .. c + 1 /\ c # c + 1
        BY <2>3, <3>1
      <4>2. g[c] = f[c] /\ g[i] = ProcessPacket(s, f[c], SavedPacket(st, c + 1))
        BY <2>4, <3>1, <4>1
      <4> QED
        BY <3>1, <4>1, <4>2
    <3>2. CASE i # c + 1
      <4>1. i \in a .. c /\ (i # a => i - 1 \in a .. c + 1 /\ i - 1 # c + 1)
        BY <2>3, <3>2
      <4>2. g[i] = f[i] /\ (i # a => g[i - 1] = f[i - 1])
        BY <2>4, <3>2, <4>1
      <4>3. f[i] = IF i = a THEN EraseInLine(st) ELSE ProcessPacket(s, f[i - 1], SavedPacket(st, i))
        BY <2>1, <2>2, <4>1 DEF IsTaking
      <4> QED
        BY <4>2, <4>3
    <3> QED
      BY <3>1, <3>2
  <2>6. IsTaking(g, s, st, a, c + 1)
    BY <2>4, <2>5 DEF IsTaking
  <2> QED
    BY <2>3, <2>6
<1> HIDE DEF S
<1>3. PICK n \in Nat : b = a + n
  <2>1. b - a \in Nat /\ b = a + (b - a)
    OBVIOUS
  <2> QED
    BY <2>1
<1>4. n \in S
  BY <1>1, <1>2, NatSetInduction
<1> QED
  BY <1>3, <1>4 DEF S

(* ProcessSaved is the last of them.                                        *)
LEMMA ProcessSavedIs ==
  ASSUME NEW s, NEW st, st.last \in Nat, LastInLine(st) \in Nat, st.last <= LastInLine(st)
  PROVE  \E f : IsTaking(f, s, st, st.last, LastInLine(st))
                /\ ProcessSaved(s, st) = f[LastInLine(st)]
<1>1. \E f : f = [n \in st.last .. LastInLine(st) |->
                    IF n = st.last THEN EraseInLine(st)
                    ELSE ProcessPacket(s, f[n - 1], SavedPacket(st, n))]
  <2>1. PICK f : IsTaking(f, s, st, st.last, LastInLine(st))
    BY TakingExists
  <2> QED
    BY <2>1 DEF IsTaking
<1>2. \E f : /\ f = [n \in st.last .. LastInLine(st) |->
                    IF n = st.last THEN EraseInLine(st)
                    ELSE ProcessPacket(s, f[n - 1], SavedPacket(st, n))]
             /\ ProcessSaved(s, st) = f[LastInLine(st)]
  BY <1>1 DEF ProcessSaved
<1> QED
  BY <1>2 DEF IsTaking

(* The packets carry what their numbers stand for, of w; what has been      *)
(* delivered is what the numbers up to last stand for.                      *)
Carried(n, w, cut, P) ==
  \A p \in P : p.seqn < n /\ p.data = SubSeq(w, cut[p.seqn] + 1, cut[p.seqn + 1])

InOrder(w, cut, x) == x.delivered = SubSeq(w, 1, cut[x.last + 1])

(* Two parts that meet.                                                     *)
LEMMA PartsJoin ==
  ASSUME NEW S, NEW w \in Seq(S), NEW a \in Nat, NEW b \in Nat, a <= b, b <= Len(w)
  PROVE  SubSeq(w, 1, a) \o SubSeq(w, a + 1, b) = SubSeq(w, 1, b)
<1>1. PICK x : x = SubSeq(w, 1, a)
  OBVIOUS
<1>2. PICK y : y = SubSeq(w, a + 1, b)
  OBVIOUS
<1>3. PICK z : z = SubSeq(w, 1, b)
  OBVIOUS
<1>4. Len(w) \in Nat /\ a <= Len(w) /\ 0 \in Nat /\ 0 + 1 = 1
  OBVIOUS
<1>5. x \in Seq(S) /\ Len(x) = a /\ \A i \in 1 .. a : x[i] = w[i]
  <2>1. PICK o \in Nat : o = 0
    OBVIOUS
  <2>2. /\ SubSeq(w, o + 1, a) \in Seq(S)
        /\ Len(SubSeq(w, o + 1, a)) = IF o < a THEN a - o ELSE 0
        /\ \A i \in 1 .. a - o : SubSeq(w, o + 1, a)[i] = w[o + i]
    BY <1>4, PartOf
  <2> QED
    BY <1>1, <2>1, <2>2
<1>6. z \in Seq(S) /\ Len(z) = b /\ \A i \in 1 .. b : z[i] = w[i]
  <2>1. PICK o \in Nat : o = 0
    OBVIOUS
  <2>2. /\ SubSeq(w, o + 1, b) \in Seq(S)
        /\ Len(SubSeq(w, o + 1, b)) = IF o < b THEN b - o ELSE 0
        /\ \A i \in 1 .. b - o : SubSeq(w, o + 1, b)[i] = w[o + i]
    BY <1>4, PartOf
  <2> QED
    BY <1>3, <2>1, <2>2
<1>7. y \in Seq(S) /\ Len(y) = b - a /\ \A i \in 1 .. b - a : y[i] = w[a + i]
  <2>1. /\ SubSeq(w, a + 1, b) \in Seq(S)
        /\ Len(SubSeq(w, a + 1, b)) = IF a < b THEN b - a ELSE 0
        /\ \A i \in 1 .. b - a : SubSeq(w, a + 1, b)[i] = w[a + i]
    BY PartOf
  <2>2. Len(y) = b - a
    BY <1>2, <2>1
  <2> QED
    BY <1>2, <2>1, <2>2
<1>8. PICK v : v = x \o y
  OBVIOUS
<1>9. /\ v \in Seq(S) /\ Len(v) = Len(x) + Len(y)
      /\ \A i \in 1 .. Len(x) + Len(y) : v[i] = IF i <= Len(x) THEN x[i] ELSE y[i - Len(x)]
  BY <1>5, <1>7, <1>8, ConcatProperties
<1>10. Len(v) = b
  BY <1>5, <1>7, <1>9
<1>11. ASSUME NEW i \in 1 .. b
       PROVE  v[i] = z[i]
  <2>1. v[i] = IF i <= a THEN x[i] ELSE y[i - a]
    BY <1>5, <1>7, <1>9
  <2>2. CASE i <= a
    BY <1>5, <1>6, <2>1, <2>2
  <2>3. CASE ~(i <= a)
    <3>1. i - a \in 1 .. b - a /\ a + (i - a) = i
      BY <2>3
    <3>2. y[i - a] = w[i]
      BY <1>7, <3>1
    <3> QED
      BY <1>6, <2>1, <2>3, <3>2
  <2> QED
    BY <2>2, <2>3
<1>12. v = z
  BY <1>6, <1>9, <1>10, <1>11, SameSeq
<1> QED
  BY <1>1, <1>2, <1>3, <1>8, <1>12

(* The next piece is delivered.                                             *)
LEMMA TakeInOrder ==
  ASSUME NEW n \in Nat, NEW w \in Seq(Units), NEW cut, Cut(n, w, cut), NEW x, NEW p, NEW y,
         x.last \in Int, p.seqn = x.last + 1, p.seqn \in Nat, Carried(n, w, cut, {p}),
         InOrder(w, cut, x), y.delivered = x.delivered \o p.data, y.last = p.seqn
  PROVE  InOrder(w, cut, y)
<1>1. PICK m \in Nat : m = p.seqn
  OBVIOUS
<1>2. m < n /\ m + 1 <= n /\ m + 1 \in Nat /\ m <= m + 1
  BY <1>1 DEF Carried
<1>3. PICK a \in Nat : a = cut[m]
  BY CutFacts
<1>4. PICK b \in Nat : b = cut[m + 1] /\ a <= b /\ b <= cut[n]
  <2>1. PICK k \in Nat : k = m + 1
    OBVIOUS
  <2>2. m <= k /\ k <= n
    BY <1>2, <2>1
  <2>3. cut[k] \in Nat /\ cut[m] <= cut[k] /\ cut[k] <= cut[n]
    BY <2>2, CutFacts
  <2> QED
    BY <1>3, <2>1, <2>3
<1>5. b <= Len(w)
  <2>1. PICK c \in Nat : c = cut[n] /\ c <= Len(w)
    BY CutFacts
  <2>2. Len(w) \in Nat
    OBVIOUS
  <2> QED
    BY <1>4, <2>1, <2>2
<1>6. x.delivered = SubSeq(w, 1, a) /\ p.data = SubSeq(w, a + 1, b)
  BY <1>1, <1>3, <1>4 DEF InOrder, Carried
<1>7. y.delivered = SubSeq(w, 1, b)
  <2>1. SubSeq(w, 1, a) \o SubSeq(w, a + 1, b) = SubSeq(w, 1, b)
    BY <1>4, <1>5, PartsJoin, Zenon
  <2> QED
    BY <1>6, <2>1
<1> QED
  BY <1>1, <1>4, <1>7 DEF InOrder

(* Erasing what is in line.                                                 *)
LEMMA EraseTakes ==
  ASSUME NEW s \in StreamIDs, NEW st, NEW pos, Sends(s, st, pos)
  PROVE  /\ Takes(s, st, pos, EraseInLine(st), pos)
         /\ EraseInLine(st).last = st.last /\ EraseInLine(st).delivered = st.delivered
         /\ EraseInLine(st).saved = {p \in st.saved : p.seqn \notin st.last + 1 .. LastInLine(st)}
<1>1. st \in StreamType /\ IsFiniteSet(st.saved) /\ st.saved \subseteq PacketType
  BY SendsFacts
<1>2. PICK S \in SUBSET PacketType :
        S = {p \in st.saved : p.seqn \notin st.last + 1 .. LastInLine(st)}
  BY <1>1
<1>3. PICK e : e = [st EXCEPT !.saved = S]
  OBVIOUS
<1>4. /\ e \in StreamType /\ e.acks = st.acks
      /\ e.last = st.last /\ e.delivered = st.delivered /\ e.saved = S
      /\ e.seqn = st.seqn /\ e.written = st.written /\ e.buf = st.buf
      /\ e.eof = st.eof /\ e.status = st.status /\ e.sent = st.sent /\ e.peer = st.peer
      /\ e.closing = st.closing /\ e.inTable = st.inTable /\ e.out = st.out
      /\ e.posted = st.posted /\ e.window = st.window
      /\ e.resendSet = st.resendSet
  BY <1>1, <1>2, <1>3 DEF StreamType
<1>5. EraseInLine(st) = e
  <2>1. EraseInLine(st) =
          [st EXCEPT !.saved = {p \in st.saved : p.seqn \notin st.last + 1 .. LastInLine(st)}]
    BY Zenon DEF EraseInLine
  <2> QED
    BY <1>2, <1>3, <2>1
<1>6. GotFrom(st, st.last, st.delivered, S, e)
  BY <1>4 DEF GotFrom
<1>7. IsFiniteSet(S) /\ (st.status = "New" => S = {} /\ e.acks = 0)
  <2>1. S \subseteq st.saved
    BY <1>2
  <2>2. IsFiniteSet(S)
    BY <1>1, <2>1, FS_Subset
  <2>3. st.status = "New" => st.saved = {} /\ st.acks = 0
    BY DEF Sends, Stages
  <2> QED
    BY <1>4, <2>1, <2>2, <2>3
<1>8. Takes(s, st, pos, e, pos)
  BY <1>4, <1>6, <1>7, GotTakes
<1> QED
  BY <1>2, <1>4, <1>5, <1>8

(* A record of the loop, that of the number l.                              *)
TakenTo(s, st, pos, n, w, cut, l, x) ==
  /\ \E pos2 : Takes(s, st, pos, x, pos2)
  /\ x.last = l /\ x.saved = EraseInLine(st).saved
  /\ Carried(n, w, cut, st.saved) /\ InOrder(w, cut, st) => InOrder(w, cut, x)

(* One round of the loop.                                                   *)
LEMMA TakeOne ==
  ASSUME NEW s \in StreamIDs, NEW st, NEW pos, Sends(s, st, pos), st.status # "New",
         NEW n \in Nat, NEW w \in Seq(Units), NEW cut, Cut(n, w, cut), NEW l \in Nat,
         NEW x, TakenTo(s, st, pos, n, w, cut, l, x), l + 1 \in Saved(st)
  PROVE  TakenTo(s, st, pos, n, w, cut, l + 1, ProcessPacket(s, x, SavedPacket(st, l + 1)))
<1>1. PICK pos2 : Takes(s, st, pos, x, pos2)
  BY DEF TakenTo
<1>2. PICK p : p = SavedPacket(st, l + 1)
  OBVIOUS
<1>3. p \in st.saved /\ p.seqn = l + 1
  <2>1. \E q \in st.saved : q.seqn = l + 1
    BY DEF Saved
  <2> QED
    BY <1>2, <2>1 DEF SavedPacket
<1>4. p \in PacketType
  BY <1>3, SendsFacts
<1>5. PICK y : y = ProcessPacket(s, x, p)
  OBVIOUS
<1>6. Sends(s, x, pos2) /\ x.status # "New"
  BY <1>1 DEF Takes
<1>7. /\ \E pos3 : Takes(s, x, pos2, y, pos3)
      /\ y.last = p.seqn /\ y.delivered = x.delivered \o p.data /\ y.saved = x.saved
  <2>1. x.status = "New" => ~p.fin
    BY <1>6
  <2> QED
    BY <1>4, <1>5, <1>6, <2>1, ProcessPacketTakes
<1>8. PICK pos3 : Takes(s, x, pos2, y, pos3)
  BY <1>7
<1>9. x.last = l /\ x.saved = EraseInLine(st).saved
  BY DEF TakenTo
<1>10. Has(x) \subseteq Has(y)
  <2>1. y.last = l + 1
    BY <1>3, <1>7
  <2>2. 0 .. l \subseteq 0 .. l + 1
    OBVIOUS
  <2> QED
    BY <1>7, <1>9, <2>1, <2>2 DEF Has
<1>11. Takes(s, st, pos, y, pos3)
  BY <1>1, <1>8, <1>10, TakesTrans
<1>12. ASSUME Carried(n, w, cut, st.saved), InOrder(w, cut, st)
       PROVE  InOrder(w, cut, y)
  <2>1. InOrder(w, cut, x)
    BY <1>12 DEF TakenTo
  <2>2. Carried(n, w, cut, {p})
    BY <1>3, <1>12 DEF Carried
  <2>3. x.last \in Int /\ p.seqn = x.last + 1 /\ p.seqn \in Nat
    BY <1>3, <1>9
  <2> QED
    BY <1>7, <2>1, <2>2, <2>3, TakeInOrder
<1>13. y.last = l + 1 /\ y.saved = EraseInLine(st).saved
  BY <1>3, <1>7, <1>9
<1>14. TakenTo(s, st, pos, n, w, cut, l + 1, y)
  BY <1>11, <1>12, <1>13 DEF TakenTo
<1> QED
  BY <1>2, <1>5, <1>14

(* The loop delivers pieces in order and loses none.                        *)
LEMMA ProcessSavedTakes ==
  ASSUME NEW s \in StreamIDs, NEW st, NEW pos, Sends(s, st, pos), st.last \in Nat,
         NEW n \in Nat, NEW w \in Seq(Units), NEW cut, Cut(n, w, cut),
         NEW r, r = ProcessSaved(s, st)
  PROVE  /\ \E pos2 : Takes(s, st, pos, r, pos2)
         /\ Has(st) \subseteq Has(r) /\ r.saved \subseteq st.saved
         /\ r.last \in Nat /\ st.last <= r.last /\ (r.last = st.last \/ r.last \in Saved(st))
         /\ Carried(n, w, cut, st.saved) /\ InOrder(w, cut, st) => InOrder(w, cut, r)
<1>1. st \in StreamType /\ IsFiniteSet(st.saved) /\ st.saved \subseteq PacketType
  BY SendsFacts
<1>2. Saved(st) \in SUBSET Nat /\ IsFiniteSet(Saved(st))
  BY <1>1, SavedFinite
<1>3. PICK a \in Nat : a = st.last
  OBVIOUS
<1>4. PICK b : b = LastInLine(st)
  OBVIOUS
<1>5. b \in Nat /\ a <= b /\ a + 1 .. b \subseteq Saved(st) /\ (b = a \/ b \in Saved(st))
  <2>1. b = Stop(Saved(st), a)
    BY <1>3, <1>4, StopIs
  <2> QED
    BY <1>2, <2>1, StopFacts
<1>6. PICK f : IsTaking(f, s, st, a, b) /\ r = f[b]
  BY <1>3, <1>4, <1>5, ProcessSavedIs
<1>7. /\ Takes(s, st, pos, EraseInLine(st), pos)
      /\ EraseInLine(st).last = st.last /\ EraseInLine(st).delivered = st.delivered
      /\ EraseInLine(st).saved = {p \in st.saved : p.seqn \notin st.last + 1 .. LastInLine(st)}
  BY EraseTakes
<1> DEFINE S == {m \in Nat : a + m <= b => TakenTo(s, st, pos, n, w, cut, a + m, f[a + m])}
<1>8. 0 \in S
  <2>1. a \in a .. b /\ a + 0 = a
    BY <1>5
  <2>2. f[a] = EraseInLine(st)
    BY <1>6, <2>1 DEF IsTaking
  <2>3. InOrder(w, cut, st) => InOrder(w, cut, EraseInLine(st))
    BY <1>7 DEF InOrder
  <2>4. TakenTo(s, st, pos, n, w, cut, a, f[a])
    BY <1>3, <1>7, <2>2, <2>3 DEF TakenTo
  <2> QED
    BY <2>1, <2>4
<1>9. \A m \in Nat : m \in S => m + 1 \in S
  <2> SUFFICES ASSUME NEW m \in Nat, m \in S, a + (m + 1) <= b
               PROVE  TakenTo(s, st, pos, n, w, cut, a + (m + 1), f[a + (m + 1)])
    OBVIOUS
  <2>1. PICK l \in Nat : l = a + m
    OBVIOUS
  <2>2. a + (m + 1) = l + 1 /\ l + 1 <= b /\ a + m <= b
    BY <1>5, <2>1
  <2>3. TakenTo(s, st, pos, n, w, cut, l, f[l])
    BY <2>1, <2>2
  <2>4. l + 1 \in a .. b /\ l + 1 # a /\ l + 1 - 1 = l /\ l + 1 \in a + 1 .. b
    BY <1>5, <2>1, <2>2
  <2>5. f[l + 1] = ProcessPacket(s, f[l], SavedPacket(st, l + 1))
    <3>1. PICK k \in a .. b : k = l + 1
      BY <2>4
    <3>2. f[k] = IF k = a THEN EraseInLine(st) ELSE ProcessPacket(s, f[k - 1], SavedPacket(st, k))
      BY <1>6, Zenon DEF IsTaking
    <3> QED
      BY <2>4, <3>1, <3>2
  <2>6. l + 1 \in Saved(st)
    BY <1>5, <2>4
  <2>7. st.status # "New"
    BY <2>6 DEF Sends, Stages, Saved
  <2>8. TakenTo(s, st, pos, n, w, cut, l + 1, ProcessPacket(s, f[l], SavedPacket(st, l + 1)))
    BY <2>3, <2>6, <2>7, TakeOne
  <2> QED
    BY <2>2, <2>5, <2>8
<1> HIDE DEF S
<1>10. PICK m \in Nat : b = a + m
  <2>1. b - a \in Nat /\ b = a + (b - a)
    BY <1>5
  <2> QED
    BY <2>1
<1>11. m \in S
  BY <1>8, <1>9, NatSetInduction
<1>12. TakenTo(s, st, pos, n, w, cut, b, r)
  BY <1>5, <1>6, <1>10, <1>11 DEF S
<1>13. r.last = b /\ r.saved = {p \in st.saved : p.seqn \notin a + 1 .. b}
  BY <1>3, <1>4, <1>7, <1>12 DEF TakenTo
<1>14. ASSUME NEW k \in Has(st)
       PROVE  k \in Has(r)
  <2>1. CASE k \in 0 .. a
    <3>1. k \in 0 .. b
      BY <1>5, <2>1
    <3> QED
      BY <1>13, <3>1 DEF Has
  <2>2. CASE k \notin 0 .. a
    <3>1. PICK q \in st.saved : k = q.seqn
      BY <1>3, <1>14, <2>2 DEF Has
    <3>2. CASE k \in a + 1 .. b
      <4>1. k \in 0 .. b
        BY <1>5, <3>2
      <4> QED
        BY <1>13, <4>1 DEF Has
    <3>3. CASE k \notin a + 1 .. b
      <4>1. q \in r.saved
        BY <1>13, <3>1, <3>3
      <4> QED
        BY <3>1, <4>1 DEF Has
    <3> QED
      BY <3>2, <3>3
  <2> QED
    BY <2>1, <2>2
<1> QED
  BY <1>3, <1>5, <1>12, <1>13, <1>14 DEF TakenTo

-----------------------------------------------------------------------------
(* Packets in and out of sequence.                                          *)

(* The sending side of a stream moves on; its new acks are true.            *)
Moves(s, st, pos, r, pos2) ==
  /\ Sends(s, r, pos2)
  /\ \A i \in Nat : i <= st.seqn => pos2[i] = pos[i]
  /\ st.seqn <= r.seqn
  /\ r.peer = st.peer /\ r.written = st.written
  /\ r.inTable => st.inTable
  /\ st.sent \subseteq r.sent
  /\ \A p \in Own(r) : p \in Own(st) \/ (p.seqn # 0 => p.to = st.peer)
  /\ \A n \in Nat : st.seqn <= n /\ n < r.seqn => pos2[n + 1] = pos2[n] \/ Tracked(r, n)

AcksTrue(st, r) == \A p \in Own(r) : p \in Own(st) \/ Answers(r, p)

(* What was reached without receiving.                                      *)
LEMMA GoesMoves ==
  ASSUME NEW s, NEW st, NEW pos, NEW r, NEW pos2, Goes(s, st, pos, r, pos2), Quiet(st, r),
         r.written = st.written
  PROVE  Moves(s, st, pos, r, pos2) /\ AcksTrue(st, r)
BY DEF Goes, Quiet, Moves, AcksTrue

(* Moves is transitive.                                                     *)
LEMMA MovesTrans ==
  ASSUME NEW s, NEW st, NEW pos, NEW r, NEW pos2, NEW q, NEW pos3, Sends(s, st, pos),
         Moves(s, st, pos, r, pos2), Moves(s, r, pos2, q, pos3)
  PROVE  Moves(s, st, pos, q, pos3)
<1>1. PICK a \in Nat, b \in Nat, c \in Nat : a = st.seqn /\ b = r.seqn /\ c = q.seqn
  <2>1. st.seqn \in Nat /\ r.seqn \in Nat /\ q.seqn \in Nat
    BY SendsFacts DEF Moves
  <2> QED
    BY <2>1
<1>2. a <= b /\ b <= c /\ (\A i \in Nat : i <= a => pos2[i] = pos[i])
      /\ \A i \in Nat : i <= b => pos3[i] = pos2[i]
  BY <1>1 DEF Moves
<1>3. a <= c /\ \A i \in Nat : i <= a => pos3[i] = pos[i]
  BY <1>1, <1>2
<1>4. r.peer = st.peer /\ r.sent \subseteq q.sent
  BY DEF Moves
<1>5. \A p \in Own(q) : p \in Own(st) \/ (p.seqn # 0 => p.to = st.peer)
  BY <1>4 DEF Moves
<1>6. ASSUME NEW n \in Nat, a <= n, n < c
      PROVE  pos3[n + 1] = pos3[n] \/ Tracked(q, n)
  <2>1. CASE b <= n
    BY <1>1, <1>6, <2>1 DEF Moves
  <2>2. CASE ~(b <= n)
    <3>1. PICK m \in Nat : m = n + 1
      OBVIOUS
    <3>2. n < b /\ m <= b /\ n <= b
      BY <2>2, <3>1, <1>1
    <3>3. pos3[m] = pos2[m] /\ pos3[n] = pos2[n]
      BY <1>2, <3>2
    <3>4. pos2[m] = pos2[n] \/ Tracked(r, n)
      BY <1>1, <1>6, <3>1, <3>2 DEF Moves
    <3>5. Tracked(r, n) => Tracked(q, n)
      BY <1>4 DEF Tracked
    <3> QED
      BY <3>1, <3>3, <3>4, <3>5
  <2> QED
    BY <2>1, <2>2
<1> QED
  BY <1>1, <1>3, <1>5, <1>6 DEF Moves

(* What was reached by taking packets.                                      *)
LEMMA TakesMoves ==
  ASSUME NEW s, NEW st, NEW pos, Sends(s, st, pos), NEW r, NEW pos2,
         Takes(s, st, pos, r, pos2)
  PROVE  Moves(s, st, pos, r, pos2) /\ AcksTrue(st, r) /\ Numbers(st, r)
         /\ \A p \in Own(r) : p \in Own(st) \/ AckHeld(r, p)
<1>1. st.seqn \in Nat /\ r.seqn \in Nat
  BY SendsFacts DEF Takes
<1>2. r.inTable => r.seqn = st.seqn /\ r.status = st.status /\ r.eof = st.eof
  BY DEF Takes
<1>3. Numbers(st, r)
  BY <1>1, <1>2 DEF Numbers
<1>4. \A p \in Own(r) : p \in Own(st) \/ ((p.seqn # 0 => p.to = st.peer) /\ AckHeld(r, p))
  BY DEF Takes
<1>5. AcksTrue(st, r)
  BY <1>4 DEF AcksTrue, Answers
<1>6. \A p \in Own(r) : p \in Own(st) \/ (p.seqn # 0 => p.to = st.peer)
  BY <1>4
<1> QED
  BY <1>3, <1>4, <1>5, <1>6 DEF Takes, Moves

(* Packets are taken, then something is sent.                               *)
LEMMA TakesGoes ==
  ASSUME NEW s, NEW st, NEW pos, Sends(s, st, pos), NEW b, NEW pos2,
         Takes(s, st, pos, b, pos2), NEW r, NEW pos3, Goes(s, b, pos2, r, pos3), Quiet(b, r),
         r.written = b.written, Numbers(b, r)
  PROVE  Moves(s, st, pos, r, pos3) /\ AcksTrue(st, r) /\ Numbers(st, r)
<1>1. Moves(s, st, pos, b, pos2) /\ \A p \in Own(b) : p \in Own(st) \/ AckHeld(b, p)
  BY TakesMoves
<1>2. Moves(s, b, pos2, r, pos3) /\ AcksTrue(b, r)
  BY GoesMoves
<1>3. Moves(s, st, pos, r, pos3)
  BY <1>1, <1>2, MovesTrans
<1>4. Has(r) = Has(b)
  BY DEF Quiet, Has
<1>5. AcksTrue(st, r)
  BY <1>1, <1>2, <1>4 DEF AcksTrue, Answers, AckHeld
<1>6. r.inTable => b.inTable /\ b.seqn = st.seqn /\ b.status = st.status /\ b.eof = st.eof
  <2>1. r.inTable => b.inTable
    BY DEF Goes
  <2> QED
    BY <2>1 DEF Takes
<1>7. Numbers(st, r)
  BY <1>6 DEF Numbers
<1> QED
  BY <1>3, <1>5, <1>7

(* What the receiving side makes of a packet: of a sender that has used n   *)
(* numbers, written w and cut it at cut.                                    *)
Hears(st, p, r, n, w, cut) ==
  /\ r.saved \subseteq st.saved \cup {q \in {p} : q.seqn # 0 /\ ~q.syn}
  /\ r.last = st.last \/ (r.last = p.seqn /\ (p.seqn # 0 \/ p.syn)) \/ r.last \in Saved(st)
  /\ Has(st) \subseteq Has(r)
  /\ /\ Carried(n, w, cut, st.saved) /\ InOrder(w, cut, st)
     /\ p.seqn # 0 \/ p.syn => Carried(n, w, cut, {p})
     => InOrder(w, cut, r)

(* What a record has received.                                              *)
LEMMA SameHears ==
  ASSUME NEW st, NEW p, NEW a, NEW r, NEW n, NEW w, NEW cut, Hears(st, p, a, n, w, cut),
         r.last = a.last, r.saved = a.saved, r.delivered = a.delivered
  PROVE  Hears(st, p, r, n, w, cut)
BY DEF Hears, Has, InOrder

(* A packet in sequence and those saved behind it.                          *)
LEMMA TakenHears ==
  ASSUME NEW s \in StreamIDs, NEW st, NEW pos, Sends(s, st, pos), Waits(st),
         NEW p \in PacketType, st.status = "New" => ~p.fin, p.seqn # 0 \/ p.syn,
         NEW n \in Nat, NEW w \in Seq(Units), NEW cut, Cut(n, w, cut)
  PROVE  /\ \E pos2 : Takes(s, st, pos, ProcessSaved(s, ProcessPacket(s, st, p)), pos2)
         /\ ProcessSaved(s, ProcessPacket(s, st, p)).last \in Nat
         /\ p.seqn = st.last + 1 =>
              Hears(st, p, ProcessSaved(s, ProcessPacket(s, st, p)), n, w, cut)
<1>1. PICK a : a = ProcessPacket(s, st, p)
  OBVIOUS
<1>2. /\ \E pos2 : Takes(s, st, pos, a, pos2)
      /\ a.last = p.seqn /\ a.delivered = st.delivered \o p.data /\ a.saved = st.saved
  BY <1>1, ProcessPacketTakes
<1>3. PICK pos2 : Takes(s, st, pos, a, pos2)
  BY <1>2
<1>4. Sends(s, a, pos2) /\ a.last \in Nat
  BY <1>2, <1>3 DEF Takes, PacketType
<1>5. PICK b : b = ProcessSaved(s, a)
  OBVIOUS
<1>6. /\ \E pos3 : Takes(s, a, pos2, b, pos3)
      /\ Has(a) \subseteq Has(b) /\ b.saved \subseteq a.saved
      /\ b.last \in Nat /\ a.last <= b.last /\ (b.last = a.last \/ b.last \in Saved(a))
      /\ Carried(n, w, cut, a.saved) /\ InOrder(w, cut, a) => InOrder(w, cut, b)
  BY <1>4, <1>5, ProcessSavedTakes
<1>7. PICK pos3 : Takes(s, a, pos2, b, pos3)
  BY <1>6
<1>8. Takes(s, st, pos, b, pos3)
  BY <1>3, <1>6, <1>7, TakesTrans
<1>9. st.last \in Int /\ p.seqn \in Nat
  BY SendsFacts DEF PacketType
<1>10. p.seqn = st.last + 1 => Has(st) \subseteq Has(a)
  <2> HAVE p.seqn = st.last + 1
  <2>1. 0 .. st.last \subseteq 0 .. a.last
    BY <1>2, <1>9
  <2> QED
    BY <1>2, <2>1 DEF Has
<1>11. ASSUME p.seqn = st.last + 1, Carried(n, w, cut, st.saved), InOrder(w, cut, st), Carried(n, w, cut, {p})
       PROVE  InOrder(w, cut, b)
  <2>1. InOrder(w, cut, a)
    BY <1>2, <1>9, <1>11, TakeInOrder
  <2> QED
    BY <1>2, <1>6, <1>11, <2>1
<1>12. p.seqn = st.last + 1 => Hears(st, p, b, n, w, cut)
  <2> HAVE p.seqn = st.last + 1
  <2>1. b.saved \subseteq st.saved /\ Has(st) \subseteq Has(b)
    BY <1>2, <1>6, <1>10
  <2>2. b.last = p.seqn \/ b.last \in Saved(st)
    BY <1>2, <1>6 DEF Saved
  <2> QED
    BY <1>11, <2>1, <2>2 DEF Hears
<1> QED
  BY <1>1, <1>5, <1>6, <1>8, <1>12

(* The packets in line are processed; an ack is due.                        *)
Done(s, st, p) == ProcessSaved(s, ProcessPacket(s, st, p))

Answered(done) == [done EXCEPT !.acks = Max({@, 1})]

(* ProcessInSequence, by cases.                                             *)
LEMMA InSequenceIs ==
  ASSUME NEW s, NEW st, NEW p
  PROVE  /\ Done(s, st, p).status = "Open" => ProcessInSequence(s, st, p) = Answered(Done(s, st, p))
         /\ Done(s, st, p).status # "Open" /\ p.syn =>
              ProcessInSequence(s, st, p) = SendBuffer(s, Done(s, st, p))
         /\ Done(s, st, p).status # "Open" /\ ~p.syn => ProcessInSequence(s, st, p) = Done(s, st, p)
<1>1. CASE Done(s, st, p).status = "Open"
  BY <1>1, Zenon DEF ProcessInSequence, Done, Answered
<1>2. CASE Done(s, st, p).status # "Open" /\ p.syn
  BY <1>2, Zenon DEF ProcessInSequence, Done
<1>3. CASE Done(s, st, p).status # "Open" /\ ~p.syn
  BY <1>3, Zenon DEF ProcessInSequence, Done
<1> QED
  BY <1>1, <1>2, <1>3

(* A packet is saved and acks are given at once; or the timer waits again.  *)
SavedNow(st, p) == [SavePacket(st, p) EXCEPT !.acks = 0]

SavedAgain(st, p) == [SavePacket(st, p) EXCEPT !.acks = @ + 1]

(* ProcessOutOfSequence, by cases.                                          *)
LEMMA OutOfSequenceIs ==
  ASSUME NEW s, NEW st, st.last \in Int, NEW p, p.seqn \in Nat
  PROVE  /\ p.seqn <= st.last => ProcessOutOfSequence(s, st, p) = SendQuickAck(s, st)
         /\ p.seqn > st.last /\ st.last >= 0 =>
              ProcessOutOfSequence(s, st, p) = SendQuickAck(s, SavedNow(st, p))
         /\ p.seqn > st.last /\ ~(st.last >= 0) =>
              ProcessOutOfSequence(s, st, p) = SavedAgain(st, p)
<1>1. p.seqn <= st.last => ~(p.seqn > st.last)
  OBVIOUS
<1>2. CASE p.seqn <= st.last
  BY <1>1, <1>2, Zenon DEF ProcessOutOfSequence, SavedNow, SavedAgain
<1>3. CASE p.seqn > st.last /\ st.last >= 0
  BY <1>1, <1>3, Zenon DEF ProcessOutOfSequence, SavedNow, SavedAgain
<1>4. CASE p.seqn > st.last /\ ~(st.last >= 0)
  BY <1>1, <1>4, Zenon DEF ProcessOutOfSequence, SavedNow, SavedAgain
<1> QED
  BY <1>1, <1>2, <1>3, <1>4

(* An ack is due.                                                           *)
LEMMA MaxAcks ==
  ASSUME NEW done \in StreamType, done.status # "New", NEW s \in StreamIDs, NEW pos,
         Sends(s, done, pos)
  PROVE  /\ Takes(s, done, pos, Answered(done), pos)
         /\ Answered(done).last = done.last
         /\ Answered(done).saved = done.saved
         /\ Answered(done).delivered = done.delivered
<1>1. done.acks \in Int /\ IsFiniteSet(done.saved)
  BY SendsFacts
<1>2. PICK m \in Int : m = Max({done.acks, 1})
  <2>1. PICK a \in Int : a = done.acks
    BY <1>1
  <2>2. PICK o \in Int : o = 1
    OBVIOUS
  <2>3. Max({a, o}) \in Int
    BY MaxOf
  <2> QED
    BY <2>1, <2>2, <2>3
<1>3. PICK got : got = [done EXCEPT !.acks = m]
  OBVIOUS
<1>4. /\ got \in StreamType
      /\ got.last = done.last /\ got.delivered = done.delivered /\ got.saved = done.saved
      /\ got.seqn = done.seqn /\ got.written = done.written /\ got.buf = done.buf
      /\ got.eof = done.eof /\ got.status = done.status /\ got.sent = done.sent
      /\ got.peer = done.peer
      /\ got.closing = done.closing /\ got.inTable = done.inTable /\ got.out = done.out
      /\ got.posted = done.posted /\ got.window = done.window
      /\ got.resendSet = done.resendSet
  BY <1>2, <1>3 DEF StreamType
<1>5. GotFrom(done, done.last, done.delivered, done.saved, got)
  BY <1>4 DEF GotFrom
<1>6. Takes(s, done, pos, got, pos)
  BY <1>1, <1>4, <1>5, GotTakes
<1>7. Answered(done) = got
  BY <1>2, <1>3 DEF Answered
<1> QED
  BY <1>4, <1>6, <1>7

(* A packet in sequence.                                                    *)
LEMMA InSequenceMoves ==
  ASSUME NEW s \in StreamIDs, NEW st, NEW pos, Sends(s, st, pos), Waits(st),
         NEW p \in PacketType, st.status = "New" => ~p.fin /\ p.syn, p.seqn # 0 \/ p.syn,
         NEW n \in Nat, NEW w \in Seq(Units), NEW cut, Cut(n, w, cut)
  PROVE  /\ \E pos2 : Moves(s, st, pos, ProcessInSequence(s, st, p), pos2)
         /\ AcksTrue(st, ProcessInSequence(s, st, p))
         /\ Numbers(st, ProcessInSequence(s, st, p)) /\ Waits(ProcessInSequence(s, st, p))
         /\ p.seqn = st.last + 1 => Hears(st, p, ProcessInSequence(s, st, p), n, w, cut)
         /\ ProcessInSequence(s, st, p).status # "New"
         /\ st.status = "New" => ProcessInSequence(s, st, p).status = "Open"
         /\ ProcessInSequence(s, st, p).last \in Nat
<1>1. PICK done : done = Done(s, st, p)
  OBVIOUS
<1>2. (\E pos2 : Takes(s, st, pos, done, pos2)) /\ done.last \in Nat
      /\ (p.seqn = st.last + 1 => Hears(st, p, done, n, w, cut))
  BY <1>1, TakenHears DEF Done
<1>3. PICK pos2 : Takes(s, st, pos, done, pos2)
  BY <1>2
<1>4. Sends(s, done, pos2) /\ Waits(done) /\ done \in StreamType
  BY <1>3, SendsFacts DEF Takes
<1>5. PICK r : r = ProcessInSequence(s, st, p)
  OBVIOUS
<1>6. CASE done.status = "Open"
  <2>1. r = Answered(done)
    BY <1>1, <1>5, <1>6, InSequenceIs
  <2>2. /\ Takes(s, done, pos2, r, pos2)
        /\ r.last = done.last /\ r.saved = done.saved /\ r.delivered = done.delivered
    <3>1. done.status # "New"
      BY <1>6
    <3> QED
      BY <1>4, <2>1, <3>1, MaxAcks
  <2>3. p.seqn = st.last + 1 => Hears(st, p, r, n, w, cut)
    BY <1>2, <2>2, SameHears
  <2>4. Takes(s, st, pos, r, pos2)
    <3>1. Has(done) \subseteq Has(r)
      BY <2>2 DEF Has
    <3> QED
      BY <1>3, <2>2, <3>1, TakesTrans
  <2>5. Moves(s, st, pos, r, pos2) /\ AcksTrue(st, r) /\ Numbers(st, r)
    BY <2>4, TakesMoves
  <2>6. Waits(r) /\ r.status # "New" /\ st.status # "New"
    BY <1>3, <1>4, <1>6, <2>2 DEF Takes
  <2> QED
    BY <1>2, <1>5, <2>2, <2>3, <2>5, <2>6
<1>7. CASE done.status # "Open" /\ p.syn
  <2>1. r = SendBuffer(s, done)
    BY <1>1, <1>5, <1>7, InSequenceIs
  <2>2. Waiting(done)
    BY <1>4 DEF Waits, Waiting
  <2>3. /\ \E pos3 : Later(s, done, pos2, r, pos3)
        /\ done.status # "New" => Waits(r) /\ r.status = done.status
        /\ done.status = "New" => r.status = "Open" /\ r.sent # {}
        /\ Numbers(done, r) /\ r.inTable = done.inTable
    BY <1>4, <2>1, <2>2, SendBufferLater
  <2>4. PICK pos3 : Later(s, done, pos2, r, pos3)
    BY <2>3
  <2>5. r.status # "New"
    BY <2>3
  <2>6. Goes(s, done, pos2, r, pos3) /\ Quiet(done, r) /\ r.written = done.written
    BY <2>4, <2>5, LaterGoes
  <2>7. Moves(s, st, pos, r, pos3) /\ AcksTrue(st, r) /\ Numbers(st, r)
    BY <1>3, <2>3, <2>6, TakesGoes
  <2>8. p.seqn = st.last + 1 => Hears(st, p, r, n, w, cut)
    BY <1>2, <2>6, SameHears DEF Quiet
  <2>9. Waits(r)
    BY <2>3 DEF Waits
  <2>10. st.status = "New" => r.status = "Open"
    BY <1>3, <2>3 DEF Takes
  <2>11. r.last \in Nat
    BY <1>2, <2>6 DEF Quiet
  <2> QED
    BY <1>5, <2>5, <2>7, <2>8, <2>9, <2>10, <2>11
<1>8. CASE done.status # "Open" /\ ~p.syn
  <2>1. r = done
    BY <1>1, <1>5, <1>8, InSequenceIs
  <2>2. Moves(s, st, pos, done, pos2) /\ AcksTrue(st, done) /\ Numbers(st, done)
    BY <1>3, TakesMoves
  <2>3. done.status # "New" /\ st.status # "New"
    BY <1>3, <1>8 DEF Takes
  <2> QED
    BY <1>2, <1>4, <1>5, <2>1, <2>2, <2>3
<1> QED
  BY <1>6, <1>7, <1>8

(* A saved packet, and how many acks are due.                               *)
SavedAs(st, S, a) == [st EXCEPT !.saved = S, !.acks = a]

(* A packet is saved.                                                       *)
LEMMA SavedAsTakes ==
  ASSUME NEW s \in StreamIDs, NEW st, NEW pos, Sends(s, st, pos), st.status # "New",
         NEW S \in SUBSET PacketType, IsFiniteSet(S), NEW a \in Int
  PROVE  /\ Takes(s, st, pos, SavedAs(st, S, a), pos)
         /\ SavedAs(st, S, a).last = st.last /\ SavedAs(st, S, a).saved = S
         /\ SavedAs(st, S, a).delivered = st.delivered /\ SavedAs(st, S, a).status = st.status
<1>1. st \in StreamType
  BY SendsFacts
<1>2. PICK got : got = SavedAs(st, S, a)
  OBVIOUS
<1>3. /\ got \in StreamType
      /\ got.last = st.last /\ got.delivered = st.delivered /\ got.saved = S
      /\ got.seqn = st.seqn /\ got.written = st.written /\ got.buf = st.buf
      /\ got.eof = st.eof /\ got.status = st.status /\ got.sent = st.sent
      /\ got.peer = st.peer
      /\ got.closing = st.closing /\ got.inTable = st.inTable /\ got.out = st.out
      /\ got.posted = st.posted /\ got.window = st.window
      /\ got.resendSet = st.resendSet
  BY <1>1, <1>2 DEF StreamType, SavedAs
<1>4. GotFrom(st, st.last, st.delivered, S, got)
  BY <1>3 DEF GotFrom
<1>5. Takes(s, st, pos, got, pos)
  BY <1>3, <1>4, GotTakes
<1> QED
  BY <1>2, <1>3, <1>5

(* A packet that came early is answered at once.                            *)
LEMMA SavedNowIs ==
  ASSUME NEW s, NEW st, NEW p, st.last \in Int, p.seqn \in Nat,
         p.seqn > st.last /\ st.last >= 0
  PROVE  ProcessOutOfSequence(s, st, p) = SendQuickAck(s, SavedNow(st, p))
BY OutOfSequenceIs

(* SavePacket keeps what is saved.                                          *)
LEMMA SavePacketIs ==
  ASSUME NEW st \in StreamType, IsFiniteSet(st.saved), NEW p \in PacketType
  PROVE  \E S \in SUBSET PacketType :
           /\ IsFiniteSet(S) /\ st.saved \subseteq S /\ S \subseteq st.saved \cup {p}
           /\ SavedNow(st, p) = SavedAs(st, S, 0)
           /\ SavedAgain(st, p) = SavedAs(st, S, st.acks + 1)
<1>1. st.saved \in SUBSET PacketType /\ st.acks \in Int
  BY DEF StreamType
<1>2. CASE \E q \in st.saved : q.seqn = p.seqn
  <2>1. SavePacket(st, p) = st
    BY <1>2 DEF SavePacket
  <2>2. PICK S \in SUBSET PacketType : S = st.saved
    BY <1>1
  <2>3. \A a \in Int : [st EXCEPT !.acks = a] = [st EXCEPT !.saved = S, !.acks = a]
    BY <2>2 DEF StreamType
  <2>4. [st EXCEPT !.acks = @ + 1] = SavedAs(st, S, st.acks + 1)
    <3>1. PICK a \in Int : a = st.acks + 1
      BY <1>1
    <3>2. [st EXCEPT !.acks = a] = SavedAs(st, S, a)
      BY <2>3 DEF SavedAs
    <3> QED
      BY <3>1, <3>2
  <2> QED
    BY <2>1, <2>2, <2>3, <2>4 DEF SavedAs, SavedNow, SavedAgain
<1>3. CASE ~(\E q \in st.saved : q.seqn = p.seqn)
  <2>1. SavePacket(st, p) = [st EXCEPT !.saved = @ \cup {p}]
    BY <1>3 DEF SavePacket
  <2>2. PICK S \in SUBSET PacketType : S = st.saved \cup {p}
    BY <1>1
  <2>3. IsFiniteSet(S)
    BY <2>2, FS_AddElement
  <2>4. PICK x : x = SavePacket(st, p)
    OBVIOUS
  <2>5. x = [st EXCEPT !.saved = S]
    BY <2>1, <2>2, <2>4
  <2>6. \A a \in Int : [x EXCEPT !.acks = a] = [st EXCEPT !.saved = S, !.acks = a]
    BY <2>5 DEF StreamType
  <2>7. x.acks = st.acks
    BY <2>5 DEF StreamType
  <2>8. [x EXCEPT !.acks = @ + 1] = SavedAs(st, S, st.acks + 1)
    <3>1. PICK a \in Int : a = st.acks + 1
      BY <1>1
    <3>2. [x EXCEPT !.acks = a] = SavedAs(st, S, a)
      BY <2>6 DEF SavedAs
    <3> QED
      BY <2>7, <3>1, <3>2
  <2> QED
    BY <2>2, <2>3, <2>4, <2>6, <2>8 DEF SavedAs, SavedNow, SavedAgain
<1> QED
  BY <1>2, <1>3

(* A packet that is not next in line.                                       *)
LEMMA OutOfSequenceMoves ==
  ASSUME NEW s \in StreamIDs, NEW st, NEW pos, Sends(s, st, pos), Waits(st),
         NEW p \in PacketType, st.status # "New", p.syn = FALSE, p.seqn # 0,
         NEW n \in Nat, NEW w \in Seq(Units), NEW cut
  PROVE  /\ Moves(s, st, pos, ProcessOutOfSequence(s, st, p), pos)
         /\ AcksTrue(st, ProcessOutOfSequence(s, st, p))
         /\ Numbers(st, ProcessOutOfSequence(s, st, p)) /\ Waits(ProcessOutOfSequence(s, st, p))
         /\ Hears(st, p, ProcessOutOfSequence(s, st, p), n, w, cut)
         /\ ProcessOutOfSequence(s, st, p).status # "New"
<1>1. PICK r : r = ProcessOutOfSequence(s, st, p)
  OBVIOUS
<1>2. st \in StreamType /\ IsFiniteSet(st.saved) /\ st.last \in Int /\ p.seqn \in Nat
      /\ st.acks \in Int
  BY SendsFacts DEF PacketType
<1>3. PICK S \in SUBSET PacketType :
           /\ IsFiniteSet(S) /\ st.saved \subseteq S /\ S \subseteq st.saved \cup {p}
           /\ SavedNow(st, p) = SavedAs(st, S, 0)
           /\ SavedAgain(st, p) = SavedAs(st, S, st.acks + 1)
  BY <1>2, SavePacketIs
<1>4. ASSUME NEW T \in SUBSET PacketType, st.saved \subseteq T, T \subseteq st.saved \cup {p},
             NEW x, x.last = st.last, x.saved = T, x.delivered = st.delivered
      PROVE  Hears(st, p, x, n, w, cut)
  <2>1. Has(st) \subseteq Has(x)
    BY <1>4 DEF Has
  <2>2. x.saved \subseteq st.saved \cup {q \in {p} : q.seqn # 0 /\ ~q.syn}
    BY <1>4
  <2> QED
    BY <1>4, <2>1, <2>2 DEF Hears, InOrder
<1>5. CASE p.seqn <= st.last
  <2>1. r = SendQuickAck(s, st)
    BY <1>1, <1>2, <1>5, OutOfSequenceIs
  <2>2. /\ Goes(s, st, pos, r, pos) /\ Quiet(st, r) /\ r.written = st.written
        /\ Waits(r) /\ Numbers(st, r) /\ r.status = st.status
    BY <2>1, QuickGoes
  <2>3. Moves(s, st, pos, r, pos) /\ AcksTrue(st, r)
    BY <2>2, GoesMoves
  <2>4. st.saved \in SUBSET PacketType /\ st.saved \subseteq st.saved \cup {p}
    BY SendsFacts
  <2>5. Hears(st, p, r, n, w, cut)
    BY <1>4, <2>2, <2>4 DEF Quiet
  <2> QED
    BY <1>1, <2>2, <2>3, <2>5
<1>6. CASE p.seqn > st.last /\ st.last >= 0
  <2>1. PICK a \in Int : a = 0
    OBVIOUS
  <2>2. PICK b : b = SavedAs(st, S, a)
    OBVIOUS
  <2>3. Takes(s, st, pos, b, pos) /\ b.last = st.last /\ b.saved = S
        /\ b.delivered = st.delivered /\ b.status = st.status
    BY <1>3, <2>1, <2>2, SavedAsTakes
  <2>4. r = SendQuickAck(s, b)
    <3>1. r = SendQuickAck(s, SavedNow(st, p))
      <4>0. st.last \in Int /\ p.seqn \in Nat
        BY <1>2
      <4>1. ProcessOutOfSequence(s, st, p) = SendQuickAck(s, SavedNow(st, p))
        BY <1>6, <4>0, SavedNowIs, Zenon
      <4> QED
        BY <1>1, <4>1
    <3> QED
      BY <1>3, <2>1, <2>2, <3>1
  <2>5. Sends(s, b, pos) /\ Waits(b)
    BY <2>3 DEF Takes
  <2>6. /\ Goes(s, b, pos, r, pos) /\ Quiet(b, r) /\ r.written = b.written
        /\ Waits(r) /\ Numbers(b, r) /\ r.status = b.status
    BY <2>4, <2>5, QuickGoes
  <2>7. Moves(s, st, pos, r, pos) /\ AcksTrue(st, r) /\ Numbers(st, r)
    BY <2>3, <2>6, TakesGoes
  <2>8. Hears(st, p, r, n, w, cut)
    BY <1>3, <1>4, <2>3, <2>6 DEF Quiet
  <2> QED
    BY <1>1, <2>3, <2>6, <2>7, <2>8
<1>7. CASE p.seqn > st.last /\ ~(st.last >= 0)
  <2>1. PICK a \in Int : a = st.acks + 1
    BY <1>2
  <2>2. r = SavedAs(st, S, a)
    <3>1. r = SavedAgain(st, p)
      BY <1>1, <1>2, <1>7, OutOfSequenceIs
    <3> QED
      BY <1>3, <2>1, <3>1
  <2>3. Takes(s, st, pos, r, pos) /\ r.last = st.last /\ r.saved = S
        /\ r.delivered = st.delivered /\ r.status = st.status
    BY <1>3, <2>1, <2>2, SavedAsTakes
  <2>4. Moves(s, st, pos, r, pos) /\ AcksTrue(st, r) /\ Numbers(st, r) /\ Waits(r)
    BY <2>3, TakesMoves DEF Takes
  <2>5. Hears(st, p, r, n, w, cut)
    BY <1>3, <1>4, <2>3
  <2> QED
    BY <1>1, <2>3, <2>4, <2>5
<1> QED
  BY <1>2, <1>5, <1>6, <1>7

-----------------------------------------------------------------------------
(* HandleNextPacket.                                                        *)

(* The acks of a packet are taken, then the packet.                         *)
AckTaken(s, st, p, grow) == IF p.noAck THEN st ELSE ProcessAck(s, st, p, grow)

HandleKnown(s, st, p, grow) ==
  IF p.seqn = 0 /\ ~p.syn THEN AckTaken(s, st, p, grow)
  ELSE IF InSequence(AckTaken(s, st, p, grow), p)
  THEN ProcessInSequence(s, AckTaken(s, st, p, grow), p)
  ELSE ProcessOutOfSequence(s, AckTaken(s, st, p, grow), p)

Known(st, p) == [st EXCEPT !.peer = IF @ = NoID THEN p.from ELSE @]

(* HandleNextPacket learns the peer first.                                  *)
LEMMA HandleNextIs ==
  ASSUME NEW s, NEW st, NEW p, NEW grow
  PROVE  HandleNextPacket(s, st, p, grow) = HandleKnown(s, Known(st, p), p, grow)
<1>1. CASE p.seqn = 0 /\ ~p.syn
  <2>1. ~(p.seqn # 0 \/ p.syn)
    BY <1>1, Zenon
  <2> QED
    BY <1>1, <2>1, Zenon DEF HandleNextPacket, HandleKnown, AckTaken, Known
<1>2. CASE ~(p.seqn = 0 /\ ~p.syn)
  <2>1. p.seqn # 0 \/ p.syn
    BY <1>2, Zenon
  <2> QED
    BY <1>2, <2>1, Zenon DEF HandleNextPacket, HandleKnown, AckTaken, Known
<1> QED
  BY <1>1, <1>2

Heard(st, p, left) ==
  \/ p.noAck = TRUE /\ left = st
  \/ p.noAck = FALSE /\ Left(st, p, left)

(* The ack of a packet.                                                     *)
LEMMA AckTakenMoves ==
  ASSUME NEW s \in StreamIDs, NEW st, NEW pos, Sends(s, st, pos), st.peer # NoID, Waits(st),
         NEW p \in PacketType, NEW grow
  PROVE  \E left, pos2 :
           /\ Sends(s, left, pos) /\ Heard(st, p, left)
           /\ Moves(s, left, pos, AckTaken(s, st, p, grow), pos2)
           /\ st.last >= 0 \/ st.status = "New" =>
                \A q \in Own(AckTaken(s, st, p, grow)) :
                  q \in Own(left) \/ AckHeld(AckTaken(s, st, p, grow), q)
           /\ Numbers(left, AckTaken(s, st, p, grow)) /\ Waits(AckTaken(s, st, p, grow))
           /\ Quiet(left, AckTaken(s, st, p, grow))
           /\ AckTaken(s, st, p, grow).status = "New" <=> st.status = "New"
<1>1. PICK r : r = AckTaken(s, st, p, grow)
  OBVIOUS
<1>2. p.noAck \in BOOLEAN
  BY DEF PacketType
<1>3. CASE p.noAck = TRUE
  <2>1. r = st
    BY <1>1, <1>3 DEF AckTaken
  <2>2. Heard(st, p, st)
    BY <1>3 DEF Heard
  <2>3. st.seqn \in Nat
    BY SendsFacts
  <2>4. Moves(s, st, pos, st, pos) /\ Numbers(st, st) /\ Quiet(st, st)
    BY <2>3 DEF Moves, Numbers, Quiet
  <2>5. \E left, pos2 :
           /\ Sends(s, left, pos) /\ Heard(st, p, left) /\ Moves(s, left, pos, r, pos2)
           /\ st.last >= 0 \/ st.status = "New" =>
                \A q \in Own(r) : q \in Own(left) \/ AckHeld(r, q)
           /\ Numbers(left, r) /\ Waits(r) /\ Quiet(left, r)
           /\ r.status = "New" <=> st.status = "New"
    BY <2>1, <2>2, <2>4
  <2> QED
    BY <1>1, <2>5
<1>4. CASE p.noAck = FALSE
  <2>1. r = ProcessAck(s, st, p, grow)
    BY <1>1, <1>4 DEF AckTaken
  <2>2. PICK left, pos2 :
           /\ Sends(s, left, pos) /\ Left(st, p, left)
           /\ Later(s, left, pos, r, pos2)
           /\ Waits(r) /\ Numbers(left, r)
           /\ r.status = "New" <=> st.status = "New"
           /\ st.status = "New" => r = left
    BY <2>1, ProcessAckLater
  <2>3. left.status = st.status /\ left.last = st.last
    BY <2>2 DEF Left
  <2>4. Goes(s, left, pos, r, pos2) /\ Quiet(left, r) /\ r.written = left.written
    BY <2>2, <2>3, LaterGoes
  <2>5. Moves(s, left, pos, r, pos2)
    BY <2>4, GoesMoves
  <2>6. Has(r) = Has(left) /\ r.last = st.last
    BY <2>3, <2>4 DEF Quiet, Has
  <2>7. ASSUME st.last >= 0 \/ st.status = "New", NEW q \in Own(r)
        PROVE  q \in Own(left) \/ AckHeld(r, q)
    <3>1. CASE st.last >= 0
      <4>1. q \in Own(left) \/ Fresh(left, q)
        BY <2>2, <2>7 DEF Later
      <4> QED
        BY <2>3, <2>6, <3>1, <4>1 DEF Fresh, AckTrue, AckHeld
    <3>2. CASE st.status = "New"
      BY <2>2, <2>7, <3>2
    <3> QED
      BY <2>7, <3>1, <3>2
  <2>8. Heard(st, p, left)
    BY <1>4, <2>2 DEF Heard
  <2>9. \E l, pos3 :
           /\ Sends(s, l, pos) /\ Heard(st, p, l) /\ Moves(s, l, pos, r, pos3)
           /\ st.last >= 0 \/ st.status = "New" =>
                \A q \in Own(r) : q \in Own(l) \/ AckHeld(r, q)
           /\ Numbers(l, r) /\ Waits(r) /\ Quiet(l, r)
           /\ r.status = "New" <=> st.status = "New"
    BY <2>2, <2>4, <2>5, <2>7, <2>8
  <2> QED
    BY <1>1, <2>9
<1> QED
  BY <1>2, <1>3, <1>4

(* Numbers used one after the other.                                        *)
LEMMA MovesNumbers ==
  ASSUME NEW s, NEW st, NEW pos, Sends(s, st, pos), NEW r, NEW pos2, Moves(s, st, pos, r, pos2),
         NEW q, NEW pos3, Moves(s, r, pos2, q, pos3), Numbers(st, r), Numbers(r, q)
  PROVE  Numbers(st, q)
<1>1. PICK a \in Nat, b \in Nat, c \in Nat : a = st.seqn /\ b = r.seqn /\ c = q.seqn
  <2>1. st.seqn \in Nat /\ r.seqn \in Nat /\ q.seqn \in Nat
    BY SendsFacts DEF Moves
  <2> QED
    BY <2>1
<1> SUFFICES ASSUME q.inTable
             PROVE  /\ \A n \in Nat : a <= n /\ n < c =>
                         Tracked(q, n) \/ (q.status = "Closing" /\ q.eof /\ n + 1 = c)
                    /\ st.status = "Closing" /\ st.eof =>
                         q.status = "Closing" /\ q.eof /\ c = a
  BY <1>1 DEF Numbers
<1>2. r.inTable /\ r.sent \subseteq q.sent
  BY DEF Moves
<1>3. /\ \A n \in Nat : a <= n /\ n < b =>
           Tracked(r, n) \/ (r.status = "Closing" /\ r.eof /\ n + 1 = b)
      /\ st.status = "Closing" /\ st.eof => r.status = "Closing" /\ r.eof /\ b = a
  BY <1>1, <1>2 DEF Numbers
<1>4. /\ \A n \in Nat : b <= n /\ n < c =>
           Tracked(q, n) \/ (q.status = "Closing" /\ q.eof /\ n + 1 = c)
      /\ r.status = "Closing" /\ r.eof => q.status = "Closing" /\ q.eof /\ c = b
  BY <1>1 DEF Numbers
<1>5. ASSUME NEW n \in Nat, a <= n, n < c
      PROVE  Tracked(q, n) \/ (q.status = "Closing" /\ q.eof /\ n + 1 = c)
  <2>1. CASE b <= n
    BY <1>4, <1>5, <2>1
  <2>2. CASE n < b
    <3>1. Tracked(r, n) \/ (r.status = "Closing" /\ r.eof /\ n + 1 = b)
      BY <1>3, <1>5, <2>2
    <3>2. Tracked(r, n) => Tracked(q, n)
      BY <1>2 DEF Tracked
    <3> QED
      BY <1>4, <3>1, <3>2
  <2> QED
    BY <2>1, <2>2
<1> QED
  BY <1>3, <1>4, <1>5

(* What a packet makes of a stream that knows its peer.                     *)
Outcome(s, st, pos, p, left, r, pos2) ==
  /\ Sends(s, left, pos) /\ Heard(st, p, left)
  /\ Moves(s, left, pos, r, pos2) /\ Numbers(left, r) /\ Waits(r)
  /\ r.status # "New"

InTurn(st, p) == p.syn = TRUE => p.seqn = st.last + 1

(* A packet of a known peer.                                                *)
LEMMA HandleKnownMoves ==
  ASSUME NEW s \in StreamIDs, NEW st, NEW pos, Sends(s, st, pos), st.peer # NoID, Waits(st),
         NEW p \in PacketType, st.status = "New" => p.fin = FALSE /\ p.syn = TRUE, NEW grow,
         NEW n \in Nat, NEW w \in Seq(Units), NEW cut, Cut(n, w, cut)
  PROVE  /\ \E left, pos2 :
              /\ Outcome(s, st, pos, p, left, HandleKnown(s, st, p, grow), pos2)
              /\ InTurn(st, p) /\ (st.last >= 0 \/ st.status = "New") =>
                   AcksTrue(left, HandleKnown(s, st, p, grow))
         /\ InTurn(st, p) => Hears(st, p, HandleKnown(s, st, p, grow), n, w, cut)
         /\ st.status = "New" => HandleKnown(s, st, p, grow).status = "Open"
                                 /\ HandleKnown(s, st, p, grow).last \in Nat
<1>1. PICK a : a = AckTaken(s, st, p, grow)
  OBVIOUS
<1>2. PICK left, pos1 :
           /\ Sends(s, left, pos) /\ Heard(st, p, left) /\ Moves(s, left, pos, a, pos1)
           /\ st.last >= 0 \/ st.status = "New" =>
                \A q \in Own(a) : q \in Own(left) \/ AckHeld(a, q)
           /\ Numbers(left, a) /\ Waits(a) /\ Quiet(left, a)
           /\ a.status = "New" <=> st.status = "New"
  BY <1>1, AckTakenMoves
<1>3. Sends(s, a, pos1)
  BY <1>2 DEF Moves
<1>4. a.last = st.last /\ a.saved = st.saved /\ a.delivered = st.delivered
  BY <1>2 DEF Quiet, Heard, Left
<1>5. p.seqn \in Nat /\ p.syn \in BOOLEAN /\ p.fin \in BOOLEAN
  BY DEF PacketType
<1>6. PICK r : r = HandleKnown(s, st, p, grow)
  OBVIOUS
<1>7. ASSUME NEW pos2, Moves(s, a, pos1, r, pos2), AcksTrue(a, r), Numbers(a, r), Waits(r),
             InTurn(st, p) => Hears(a, p, r, n, w, cut), r.status # "New"
      PROVE  /\ \E l, pos3 : /\ Outcome(s, st, pos, p, l, r, pos3)
                             /\ InTurn(st, p) /\ (st.last >= 0 \/ st.status = "New") =>
                                  AcksTrue(l, r)
             /\ InTurn(st, p) => Hears(st, p, r, n, w, cut)
  <2>1. Moves(s, left, pos, r, pos2)
    BY <1>2, <1>7, MovesTrans
  <2>2. Numbers(left, r)
    BY <1>2, <1>7, MovesNumbers
  <2>3. Outcome(s, st, pos, p, left, r, pos2)
    BY <1>2, <1>7, <2>1, <2>2 DEF Outcome
  <2>4. InTurn(st, p) => Hears(st, p, r, n, w, cut)
    BY <1>4, <1>7 DEF Hears, Has, Saved, InOrder
  <2>5. ASSUME InTurn(st, p), st.last >= 0 \/ st.status = "New"
        PROVE  AcksTrue(left, r)
    <3>1. Has(a) \subseteq Has(r)
      BY <1>7, <2>5 DEF Hears
    <3>2. \A q \in Own(a) : q \in Own(left) \/ AckHeld(a, q)
      BY <1>2, <2>5
    <3>3. \A q : AckHeld(a, q) => AckHeld(r, q)
      BY <3>1 DEF AckHeld
    <3> QED
      BY <1>7, <3>2, <3>3 DEF AcksTrue, Answers
  <2> QED
    BY <2>3, <2>4, <2>5
<1>8. ASSUME p.seqn = 0, p.syn = FALSE
      PROVE  /\ r = a
             /\ Moves(s, a, pos1, r, pos1) /\ AcksTrue(a, r) /\ Numbers(a, r) /\ Waits(r)
             /\ Hears(a, p, r, n, w, cut) /\ r.status # "New"
  <2>1. r = a
    BY <1>1, <1>6, <1>8 DEF HandleKnown
  <2>2. a.seqn \in Nat
    BY <1>3, SendsFacts
  <2>3. Moves(s, a, pos1, a, pos1) /\ Numbers(a, a) /\ AcksTrue(a, a)
    BY <1>3, <2>2 DEF Moves, Numbers, AcksTrue
  <2>4. Hears(a, p, a, n, w, cut)
    BY DEF Hears
  <2>5. a.status # "New"
    BY <1>2, <1>8
  <2> QED
    BY <1>2, <2>1, <2>3, <2>4, <2>5
<1>9. ASSUME p.seqn # 0 \/ p.syn = TRUE
      PROVE  /\ \E pos2 : Moves(s, a, pos1, r, pos2)
             /\ AcksTrue(a, r) /\ Numbers(a, r) /\ Waits(r)
             /\ InTurn(st, p) => Hears(a, p, r, n, w, cut)
             /\ r.status # "New" /\ (st.status = "New" => r.status = "Open" /\ r.last \in Nat)
  <2>1. CASE InSequence(a, p)
    <3>1. r = ProcessInSequence(s, a, p)
      BY <1>1, <1>5, <1>6, <1>9, <2>1 DEF HandleKnown
    <3>2. InTurn(st, p) => p.seqn = a.last + 1
      BY <1>4, <1>5, <2>1 DEF InTurn, InSequence
    <3>3. (a.status = "New" => ~p.fin /\ p.syn) /\ (p.seqn # 0 \/ p.syn)
      BY <1>2, <1>9
    <3>4. /\ \E pos2 : Moves(s, a, pos1, ProcessInSequence(s, a, p), pos2)
          /\ AcksTrue(a, ProcessInSequence(s, a, p))
          /\ Numbers(a, ProcessInSequence(s, a, p)) /\ Waits(ProcessInSequence(s, a, p))
          /\ p.seqn = a.last + 1 => Hears(a, p, ProcessInSequence(s, a, p), n, w, cut)
          /\ ProcessInSequence(s, a, p).status # "New"
          /\ a.status = "New" => ProcessInSequence(s, a, p).status = "Open"
          /\ ProcessInSequence(s, a, p).last \in Nat
      BY <1>2, <1>3, <3>3, InSequenceMoves
    <3> QED
      BY <1>2, <3>1, <3>2, <3>4
  <2>2. CASE ~InSequence(a, p)
    <3>1. r = ProcessOutOfSequence(s, a, p)
      BY <1>1, <1>5, <1>6, <1>9, <2>2 DEF HandleKnown
    <3>2. p.syn = FALSE /\ p.seqn # 0
      BY <1>5, <1>9, <2>2 DEF InSequence
    <3>3. a.status # "New"
      BY <1>2, <3>2
    <3>4. /\ Moves(s, a, pos1, ProcessOutOfSequence(s, a, p), pos1)
          /\ AcksTrue(a, ProcessOutOfSequence(s, a, p))
          /\ Numbers(a, ProcessOutOfSequence(s, a, p)) /\ Waits(ProcessOutOfSequence(s, a, p))
          /\ Hears(a, p, ProcessOutOfSequence(s, a, p), n, w, cut)
          /\ ProcessOutOfSequence(s, a, p).status # "New"
      BY <1>2, <1>3, <3>2, <3>3, OutOfSequenceMoves
    <3> QED
      BY <1>2, <3>1, <3>3, <3>4
  <2> QED
    BY <2>1, <2>2
<1>10. CASE p.seqn = 0 /\ p.syn = FALSE
  <2>1. /\ Moves(s, a, pos1, r, pos1) /\ AcksTrue(a, r) /\ Numbers(a, r) /\ Waits(r)
        /\ Hears(a, p, r, n, w, cut) /\ r.status # "New"
    BY <1>8, <1>10
  <2> QED
    BY <1>6, <1>7, <1>10, <2>1
<1>11. CASE ~(p.seqn = 0 /\ p.syn = FALSE)
  <2>1. p.seqn # 0 \/ p.syn = TRUE
    BY <1>5, <1>11
  <2>2. /\ \E pos2 : Moves(s, a, pos1, r, pos2)
        /\ AcksTrue(a, r) /\ Numbers(a, r) /\ Waits(r)
        /\ InTurn(st, p) => Hears(a, p, r, n, w, cut)
        /\ r.status # "New" /\ (st.status = "New" => r.status = "Open" /\ r.last \in Nat)
    BY <1>9, <2>1
  <2> QED
    BY <1>6, <1>7, <2>2
<1> QED
  BY <1>10, <1>11

(* A step of stream s: what it may have given up are the numbers in D.      *)
Turn(s, st, pos, r, pos2, D) ==
  /\ Sends(s, r, pos2) /\ Waits(r)
  /\ \A i \in Nat : i <= st.seqn => pos2[i] = pos[i]
  /\ st.seqn <= r.seqn
  /\ \E u \in Seq(Units) : r.written = st.written \o u
  /\ r.peer = st.peer \/ st.peer = NoID
  /\ r.inTable => st.inTable
  /\ \A q \in st.sent : q \in r.sent \/ q.seqn \in D
  /\ \A p \in Own(r) : p \in Own(st) \/ (p.seqn # 0 => p.to = r.peer)
  /\ \A n \in Nat : st.seqn <= n /\ n < r.seqn => pos2[n + 1] = pos2[n] \/ Tracked(r, n)
  /\ Numbers(st, r)

(* Nothing was written.                                                     *)
LEMMA NothingAdded ==
  ASSUME NEW w \in Seq(Units)
  PROVE  \E u \in Seq(Units) : w = w \o u
<1>1. <<>> \in Seq(Units) /\ w \o <<>> = w
  BY ConcatEmptySeq
<1> QED
  BY <1>1

(* A step that receives nothing.                                            *)
LEMMA GoesTurn ==
  ASSUME NEW s, NEW st, NEW pos, NEW r, NEW pos2, Goes(s, st, pos, r, pos2), Quiet(st, r),
         Waits(r), Numbers(st, r), \E u \in Seq(Units) : r.written = st.written \o u
  PROVE  Turn(s, st, pos, r, pos2, {}) /\ AcksTrue(st, r)
BY DEF Goes, Quiet, Turn, AcksTrue

(* A stream that hears from its peer knows it.                              *)
PeerSet(st, k, t) ==
  /\ k.last = st.last /\ k.delivered = st.delivered /\ k.saved = st.saved
  /\ k.seqn = st.seqn /\ k.written = st.written /\ k.buf = st.buf
  /\ k.eof = st.eof /\ k.status = st.status /\ k.sent = st.sent
  /\ k.closing = st.closing /\ k.inTable = st.inTable /\ k.out = st.out
  /\ k.posted = st.posted /\ k.window = st.window /\ k.acks = st.acks
  /\ k.resendSet = st.resendSet
  /\ k.peer = IF st.peer = NoID THEN t ELSE st.peer

(* The peer is learnt.                                                      *)
LEMMA KnownIs ==
  ASSUME NEW st \in StreamType, NEW p, p.from \in Nat
  PROVE  Known(st, p) \in StreamType /\ PeerSet(st, Known(st, p), p.from)
<1>1. PICK t \in Nat : t = p.from
  OBVIOUS
<1>2. PICK k : k = Known(st, p)
  OBVIOUS
<1>3. CASE st.peer = NoID
  <2>1. k = [st EXCEPT !.peer = t]
    BY <1>1, <1>2, <1>3 DEF Known
  <2>2. k \in StreamType /\ k.peer = t
    BY <1>1, <2>1 DEF StreamType
  <2>3. PeerSet(st, k, t)
    BY <1>3, <2>1, <2>2 DEF PeerSet, StreamType
  <2> QED
    BY <1>1, <1>2, <2>2, <2>3
<1>4. CASE st.peer # NoID
  <2>1. PICK t2 \in Nat : t2 = st.peer
    BY DEF StreamType
  <2>2. k = [st EXCEPT !.peer = t2]
    BY <1>2, <1>4, <2>1 DEF Known
  <2>3. k \in StreamType /\ k.peer = t2
    BY <2>1, <2>2 DEF StreamType
  <2>4. PeerSet(st, k, t)
    BY <1>4, <2>1, <2>2, <2>3 DEF PeerSet, StreamType
  <2> QED
    BY <1>1, <1>2, <2>3, <2>4
<1> QED
  BY <1>3, <1>4

(* A stream that learns its peer.                                           *)
LEMMA KnownSends ==
  ASSUME NEW s \in StreamIDs, NEW st, NEW pos, Sends(s, st, pos), Waits(st),
         st.status # "New", NEW p, p.from \in Nat, p.from # NoID
  PROVE  /\ Sends(s, Known(st, p), pos) /\ Waits(Known(st, p)) /\ Known(st, p).peer # NoID
         /\ PeerSet(st, Known(st, p), p.from) /\ Own(Known(st, p)) = Own(st)
<1>1. st \in StreamType
  BY SendsFacts
<1>2. PICK k : k = Known(st, p)
  OBVIOUS
<1>3. k \in StreamType /\ PeerSet(st, k, p.from)
  BY <1>1, <1>2, KnownIs
<1>4. k.peer # NoID /\ Own(k) = Own(st)
  BY <1>3 DEF PeerSet, Own, PostedFin
<1>5. Stages(s, k)
  <2>1. s # Outgoing => st.peer = Outgoing
    BY DEF Sends, Stages
  <2>2. s # Outgoing => k.peer = Outgoing
    BY <1>3, <2>1 DEF PeerSet, Outgoing, NoID
  <2>3. /\ st.status # "New" => st.seqn >= 1
        /\ (\E x \in PacketType : PostedFin(st, x)) => st.status \in {"Reset", "Closing", "Closed"}
        /\ st.status = "Closing" => st.closing
        /\ st.status = "Closed" => st.closing /\ st.eof /\ st.sent = {}
    BY DEF Sends, Stages
  <2> QED
    BY <1>3, <2>2, <2>3 DEF PeerSet, Stages, PostedFin
<1>6. Sends(s, k, pos)
  <2>1. /\ \A q \in st.sent : q.seqn # 0 \/ q.syn
        /\ IsFiniteSet(st.sent) /\ Cardinality(st.sent) <= MAX_WINDOW_SIZE
        /\ st.window >= 1 /\ st.window <= MAX_WINDOW_SIZE /\ IsFiniteSet(st.saved)
    BY SendsFacts
  <2> QED
    BY <1>3, <1>4, <1>5, <2>1, SendsKept DEF PeerSet
<1>7. Waits(k)
  BY <1>3, <1>4 DEF Waits, PeerSet
<1> QED
  BY <1>2, <1>3, <1>4, <1>6, <1>7

AckedBy(p) == IF p.noAck = TRUE THEN {} ELSE (0 .. p.ack) \ p.nacks

(* An ack gives up what it acknowledges and changes nothing else.           *)
LEMMA HeardKeeps ==
  ASSUME NEW k \in StreamType, NEW p \in PacketType, NEW left, Heard(k, p, left)
  PROVE  /\ left.seqn = k.seqn /\ left.written = k.written /\ left.peer = k.peer
         /\ left.inTable = k.inTable /\ left.status = k.status /\ left.eof = k.eof
         /\ left.last = k.last
         /\ Own(left) \subseteq Own(k)
         /\ \A q \in k.sent : q \in left.sent \/ q.seqn \in AckedBy(p)
<1>1. CASE left = k
  BY <1>1
<1>2. CASE Left(k, p, left) /\ p.noAck = FALSE
  <2>1. Own(left) \subseteq Own(k)
    BY <1>2 DEF Left, Own, PostedFin
  <2>2. ASSUME NEW q \in k.sent, q \notin left.sent
        PROVE  q.seqn \in AckedBy(p)
    <3>1. q \in Acked(k, p)
      BY <1>2, <2>2 DEF Left
    <3>2. q.seqn \in Nat /\ p.ack \in Int /\ q.seqn <= p.ack /\ q.seqn \notin p.nacks
      BY <3>1 DEF Acked, StreamType, PacketType
    <3>3. q.seqn \in 0 .. p.ack
      BY <3>2
    <3> QED
      BY <1>2, <3>2, <3>3 DEF AckedBy
  <2> QED
    BY <1>2, <2>1, <2>2 DEF Left
<1> QED
  BY <1>1, <1>2 DEF Heard

(* A step that takes a packet.                                              *)
LEMMA OutcomeTurn ==
  ASSUME NEW s, NEW st, NEW k, NEW t, PeerSet(st, k, t), Own(k) = Own(st), k \in StreamType,
         st.written \in Seq(Units), NEW pos, NEW p \in PacketType, NEW left, NEW r, NEW pos2,
         Outcome(s, k, pos, p, left, r, pos2)
  PROVE  /\ Turn(s, st, pos, r, pos2, AckedBy(p)) /\ r.status # "New" /\ r.peer = k.peer
         /\ AcksTrue(left, r) => AcksTrue(st, r)
<1>1. Heard(k, p, left) /\ Moves(s, left, pos, r, pos2) /\ Numbers(left, r) /\ Waits(r)
      /\ r.status # "New"
  BY DEF Outcome
<1>2. /\ left.seqn = k.seqn /\ left.written = k.written /\ left.peer = k.peer
      /\ left.inTable = k.inTable /\ left.status = k.status /\ left.eof = k.eof
      /\ Own(left) \subseteq Own(k)
      /\ \A q \in k.sent : q \in left.sent \/ q.seqn \in AckedBy(p)
  BY <1>1, HeardKeeps
<1>3. /\ k.seqn = st.seqn /\ k.written = st.written /\ k.sent = st.sent
      /\ k.inTable = st.inTable /\ k.status = st.status /\ k.eof = st.eof
      /\ k.peer = st.peer \/ st.peer = NoID
  BY DEF PeerSet
<1>4. /\ left.seqn = st.seqn /\ left.written = st.written
      /\ left.inTable = st.inTable /\ left.status = st.status /\ left.eof = st.eof
      /\ left.peer = k.peer
      /\ Own(left) \subseteq Own(st)
      /\ \A q \in st.sent : q \in left.sent \/ q.seqn \in AckedBy(p)
  BY <1>2, <1>3
<1>5. Numbers(st, r)
  BY <1>1, <1>4 DEF Numbers
<1>6. \E u \in Seq(Units) : r.written = st.written \o u
  <2>1. r.written = st.written
    BY <1>1, <1>4 DEF Moves
  <2> QED
    BY <2>1, NothingAdded
<1>7. /\ Sends(s, r, pos2)
      /\ \A i \in Nat : i <= st.seqn => pos2[i] = pos[i]
      /\ st.seqn <= r.seqn
      /\ r.peer = k.peer
      /\ r.inTable => st.inTable
      /\ left.sent \subseteq r.sent
      /\ \A x \in Own(r) : x \in Own(left) \/ (x.seqn # 0 => x.to = r.peer)
      /\ \A n \in Nat : st.seqn <= n /\ n < r.seqn => pos2[n + 1] = pos2[n] \/ Tracked(r, n)
  BY <1>1, <1>4 DEF Moves
<1>8. Turn(s, st, pos, r, pos2, AckedBy(p))
  <2>1. \A q \in st.sent : q \in r.sent \/ q.seqn \in AckedBy(p)
    BY <1>4, <1>7
  <2>2. \A x \in Own(r) : x \in Own(st) \/ (x.seqn # 0 => x.to = r.peer)
    BY <1>4, <1>7
  <2>3. r.peer = st.peer \/ st.peer = NoID
    BY <1>3, <1>7
  <2> QED
    BY <1>1, <1>5, <1>6, <1>7, <2>1, <2>2, <2>3 DEF Turn
<1> QED
  BY <1>1, <1>4, <1>7, <1>8 DEF AcksTrue

(* The streams a SYN and CreateNewOutgoingStream make.                      *)
LEMMA NewStreamType ==
  /\ NewStream \in StreamType
  /\ NewStream.status = "New" /\ NewStream.peer = NoID /\ NewStream.seqn = 0
  /\ NewStream.last = -1 /\ NewStream.sent = {} /\ NewStream.saved = {}
  /\ NewStream.buf = <<>> /\ NewStream.eof = FALSE /\ NewStream.window = MIN_WINDOW_SIZE
  /\ NewStream.acks = 0 /\ NewStream.resendSet = FALSE /\ NewStream.posted = <<>>
  /\ NewStream.inTable = TRUE /\ NewStream.closing = FALSE /\ NewStream.written = <<>>
  /\ NewStream.delivered = <<>> /\ NewStream.out = {}
<1>1. /\ NewStream.status = "New" /\ NewStream.peer = NoID /\ NewStream.seqn = 0
      /\ NewStream.last = -1 /\ NewStream.sent = {} /\ NewStream.saved = {}
      /\ NewStream.buf = <<>> /\ NewStream.eof = FALSE /\ NewStream.window = MIN_WINDOW_SIZE
      /\ NewStream.acks = 0 /\ NewStream.resendSet = FALSE /\ NewStream.posted = <<>>
      /\ NewStream.inTable = TRUE /\ NewStream.closing = FALSE /\ NewStream.written = <<>>
      /\ NewStream.delivered = <<>> /\ NewStream.out = {}
  BY DEF NewStream
<1>2. PICK u \in Seq(Units) : u = <<>>
  <2>1. <<>> \in Seq(Units)
    OBVIOUS
  <2> QED
    BY <2>1
<1>3. PICK q \in Seq(TaskType) : q = <<>>
  <2>1. <<>> \in Seq(TaskType)
    OBVIOUS
  <2> QED
    BY <2>1
<1>4. PICK z \in Nat : z = 0
  OBVIOUS
<1>5. PICK m \in Nat : m = MIN_WINDOW_SIZE
  BY DEF MIN_WINDOW_SIZE
<1>6. PICK f \in BOOLEAN : f = FALSE
  OBVIOUS
<1>7. PICK l \in Int : l = -1
  OBVIOUS
<1>8. PICK e \in SUBSET PacketType : e = {}
  OBVIOUS
<1>9. PICK b \in BOOLEAN : b = TRUE
  OBVIOUS
<1>10. NewStream = [status |-> "New", peer |-> z, seqn |-> z, last |-> l, sent |-> e,
                    saved |-> e, buf |-> u, eof |-> f, window |-> m, attempts |-> z,
                    acks |-> z, resendSet |-> f, handler |-> f, posted |-> q, inTable |-> b,
                    closing |-> f, written |-> u, delivered |-> u, out |-> e]
  BY <1>2, <1>3, <1>4, <1>5, <1>6, <1>7, <1>8, <1>9 DEF NewStream, NoID
<1>11. NewStream \in StreamType
  BY <1>10 DEF StreamType
<1> QED
  BY <1>1, <1>11

-----------------------------------------------------------------------------
(* The streams and the network.  World is the first invariant.              *)

(* A new stream sends nothing.                                              *)
LEMMA NewStreamSends ==
  ASSUME NEW s \in StreamIDs, NEW pos \in [Nat -> Nat], pos[0] = 0, NEW k \in StreamType, NEW t,
         PeerSet(NewStream, k, t), s = Outgoing => k.peer = NoID, s # Outgoing => t = Outgoing
  PROVE  Sends(s, k, pos) /\ Waits(k) /\ Own(k) = {}
<1>1. /\ k.last = -1 /\ k.delivered = <<>> /\ k.saved = {} /\ k.seqn = 0 /\ k.written = <<>>
      /\ k.buf = <<>> /\ k.eof = FALSE /\ k.status = "New" /\ k.sent = {} /\ k.out = {}
      /\ k.posted = <<>> /\ k.window = MIN_WINDOW_SIZE /\ k.acks = 0 /\ k.resendSet = FALSE
      /\ k.peer = t
  BY NewStreamType DEF PeerSet
<1>2. Range(<<>>) = {}
  BY DEF Range
<1>3. Own(k) = {}
  BY <1>1, <1>2 DEF Own, PostedFin
<1>4. k.written \in Seq(Units) /\ Len(k.written) = 0 /\ k.buf \in Seq(Units)
  BY <1>1 DEF StreamType
<1>5. Cut(k.seqn, k.written, pos)
  <2>1. \A i \in Nat : i <= 0 => i = 0
    OBVIOUS
  <2>2. ASSUME NEW i \in Nat, NEW j \in Nat, i <= j, j <= 0
        PROVE  pos[i] <= pos[j]
    <3>1. i = 0 /\ j = 0
      BY <2>2
    <3> QED
      BY <3>1
  <2> QED
    BY <1>1, <1>4, <2>2 DEF Cut
<1>6. Bytes(k, pos)
  <2>1. SubSeq(<<>>, 1, 0) = <<>>
    OBVIOUS
  <2>2. SubSeq(k.written, pos[k.seqn] + 1, Len(k.written)) = SubSeq(<<>>, 1, 0)
    BY <1>1, <1>4
  <2> QED
    BY <1>1, <1>5, <2>1, <2>2 DEF Bytes
<1>7. Window(k)
  <2>1. IsFiniteSet({}) /\ Cardinality({}) = 0
    BY FS_EmptySet
  <2>2. MAX_WINDOW_SIZE \in Nat /\ MAX_WINDOW_SIZE >= 1
    <3>1. WINDOW_SIZE \in Nat /\ WINDOW_SIZE # 0
      BY ConstantsAssumption
    <3> QED
      BY <3>1, ConstantsAssumption
  <2> QED
    BY <1>1, <2>1, <2>2 DEF Window, MIN_WINDOW_SIZE
<1>8. Stages(s, k)
  <2>1. ~(\E p \in PacketType : PostedFin(k, p))
    BY <1>1, <1>2 DEF PostedFin
  <2> QED
    BY <1>1, <2>1 DEF Stages
<1>9. Waits(k)
  BY <1>1 DEF Waits
<1> QED
  BY <1>3, <1>6, <1>7, <1>8, <1>9 DEF Sends, Owns

(* What was to be sent has been put on the network.                         *)
Sent(r) == [r EXCEPT !.out = {}]

SameButOut(r, c) ==
  /\ c.last = r.last /\ c.delivered = r.delivered /\ c.saved = r.saved
  /\ c.seqn = r.seqn /\ c.written = r.written /\ c.buf = r.buf
  /\ c.eof = r.eof /\ c.status = r.status /\ c.sent = r.sent
  /\ c.closing = r.closing /\ c.inTable = r.inTable
  /\ c.posted = r.posted /\ c.window = r.window /\ c.acks = r.acks
  /\ c.resendSet = r.resendSet /\ c.peer = r.peer /\ c.out = {}

(* What was sent goes on the network.                                       *)
LEMMA SentIs ==
  ASSUME NEW s \in StreamIDs, NEW r, NEW pos, Sends(s, r, pos), Waits(r)
  PROVE  /\ Sends(s, Sent(r), pos) /\ Waits(Sent(r)) /\ SameButOut(r, Sent(r))
         /\ Own(Sent(r)) \subseteq Own(r)
<1>1. r \in StreamType
  BY SendsFacts
<1>2. PICK e \in SUBSET PacketType : e = {}
  OBVIOUS
<1>3. PICK c : c = [r EXCEPT !.out = e]
  OBVIOUS
<1>4. c = Sent(r)
  BY <1>2, <1>3 DEF Sent
<1>5. c \in StreamType /\ SameButOut(r, c)
  BY <1>1, <1>2, <1>3 DEF StreamType, SameButOut
<1>6. Own(c) \subseteq Own(r)
  BY <1>5 DEF SameButOut, Own, PostedFin
<1>7. Stages(s, c)
  BY <1>5 DEF SameButOut, Sends, Stages, PostedFin
<1>8. Sends(s, c, pos)
  <2>1. /\ \A q \in r.sent : q.seqn # 0 \/ q.syn
        /\ IsFiniteSet(r.sent) /\ Cardinality(r.sent) <= MAX_WINDOW_SIZE
        /\ r.window >= 1 /\ r.window <= MAX_WINDOW_SIZE /\ IsFiniteSet(r.saved)
    BY SendsFacts
  <2> QED
    BY <1>5, <1>6, <1>7, <2>1, SendsKept DEF SameButOut
<1>9. Waits(c)
  BY <1>5 DEF Waits, SameButOut
<1> QED
  BY <1>4, <1>5, <1>6, <1>8, <1>9

(* What the accepting side has of a sender that has used n numbers, written *)
(* w and cut it at cut.                                                     *)
Listens(st, n, w, cut) ==
  /\ st.last \in Nat /\ st.last < n
  /\ Carried(n, w, cut, st.saved) /\ InOrder(w, cut, st)

Is(S, s) == S[s].status # "None"

World(S, N, pos) ==
  /\ S \in [StreamIDs -> StreamType \cup {NoStream}]
  /\ pos \in [StreamIDs -> [Nat -> Nat]] /\ \A s \in StreamIDs : pos[s][0] = 0
  /\ \A s \in StreamIDs :
       Is(S, s) => Sends(s, S[s], pos[s]) /\ Waits(S[s]) /\ S[s].out = {}
  /\ Is(S, Outgoing)
  /\ S[Outgoing].status = "New" => N = {} /\ \A t \in Incoming : ~Is(S, t)
  /\ \A t \in Incoming : Is(S, t) =>
       /\ S[t].status # "New"
       /\ Listens(S[t], S[Outgoing].seqn, S[Outgoing].written, pos[Outgoing])
  /\ \A p \in N : /\ p \in PacketType /\ p.from \in StreamIDs /\ Is(S, p.from)
                  /\ OwnPacket(p.from, S[p.from].seqn, S[p.from].written, pos[p.from], p)

(* st grows into r.                                                         *)
Grows(st, pos, r, pos2) ==
  /\ \A i \in Nat : i <= st.seqn => pos2[i] = pos[i]
  /\ st.seqn <= r.seqn
  /\ \E u \in Seq(Units) : r.written = st.written \o u

(* Pieces stay what they are as the stream grows.                           *)
LEMMA CarriedGrows ==
  ASSUME NEW s, NEW st, NEW pos, Sends(s, st, pos), NEW r, NEW pos2, r.seqn \in Nat,
         Grows(st, pos, r, pos2), NEW P \in SUBSET PacketType,
         Carried(st.seqn, st.written, pos, P)
  PROVE  Carried(r.seqn, r.written, pos2, P)
<1>1. PICK n \in Nat, n2 \in Nat : n = st.seqn /\ n2 = r.seqn
  BY SendsFacts
<1>2. PICK w \in Seq(Units), u \in Seq(Units) : w = st.written /\ r.written = w \o u
  BY SendsFacts DEF Grows
<1>3. Cut(n, w, pos)
  BY <1>1, <1>2, SendsFacts
<1>4. n <= n2 /\ \A i \in Nat : i <= n => pos2[i] = pos[i]
  BY <1>1 DEF Grows
<1>5. ASSUME NEW p \in P
      PROVE  p.seqn < n2 /\ p.data = SubSeq(w \o u, pos2[p.seqn] + 1, pos2[p.seqn + 1])
  <2>1. PICK m \in Nat : m = p.seqn
    BY DEF PacketType
  <2>2. m < n /\ p.data = SubSeq(w, pos[m] + 1, pos[m + 1])
    BY <1>1, <1>2, <2>1 DEF Carried
  <2>3. PICK k \in Nat : k = m + 1
    OBVIOUS
  <2>4. k <= n /\ m <= n /\ m < n2
    BY <1>4, <2>2, <2>3
  <2>5. pos2[m] = pos[m] /\ pos2[k] = pos[k]
    BY <1>4, <2>4
  <2>6. PICK a \in Nat, b \in Nat : a = pos[m] /\ b = pos[k]
    BY <1>3, CutFacts
  <2>7. b <= Len(w)
    <3>1. PICK c \in Nat : c = pos[n] /\ c <= Len(w)
      BY <1>3, CutFacts
    <3>2. pos[k] <= pos[n]
      BY <1>3, <2>4, CutFacts
    <3>3. Len(w) \in Nat
      OBVIOUS
    <3> QED
      BY <2>6, <3>1, <3>2, <3>3
  <2>8. SubSeq(w \o u, a + 1, b) = SubSeq(w, a + 1, b)
    BY <2>7, PartKept
  <2> QED
    BY <2>1, <2>2, <2>3, <2>4, <2>5, <2>6, <2>8
<1> QED
  BY <1>1, <1>2, <1>5 DEF Carried

(* So does what was received.                                               *)
LEMMA ListensGrows ==
  ASSUME NEW s, NEW st, NEW pos, Sends(s, st, pos), NEW r, NEW pos2, r.seqn \in Nat,
         Grows(st, pos, r, pos2), NEW x, x.saved \in SUBSET PacketType,
         Listens(x, st.seqn, st.written, pos)
  PROVE  Listens(x, r.seqn, r.written, pos2)
<1>1. PICK n \in Nat, n2 \in Nat : n = st.seqn /\ n2 = r.seqn
  BY SendsFacts
<1>2. PICK w \in Seq(Units), u \in Seq(Units) : w = st.written /\ r.written = w \o u
  BY SendsFacts DEF Grows
<1>3. Cut(n, w, pos)
  BY <1>1, <1>2, SendsFacts
<1>4. n <= n2 /\ \A i \in Nat : i <= n => pos2[i] = pos[i]
  BY <1>1 DEF Grows
<1>5. PICK m \in Nat : m = x.last /\ m < n
  BY <1>1 DEF Listens
<1>6. PICK k \in Nat : k = m + 1 /\ k <= n
  BY <1>5
<1>7. PICK o \in Nat, b \in Nat : o = 0 /\ b = pos[k]
  BY <1>3, CutFacts
<1>8. b <= Len(w)
  <2>1. PICK c \in Nat : c = pos[n] /\ c <= Len(w)
    BY <1>3, CutFacts
  <2>2. pos[k] <= pos[n]
    BY <1>3, <1>6, CutFacts
  <2>3. Len(w) \in Nat
    OBVIOUS
  <2> QED
    BY <1>7, <2>1, <2>2, <2>3
<1>9. SubSeq(w \o u, o + 1, b) = SubSeq(w, o + 1, b)
  BY <1>8, PartKept
<1>10. o + 1 = 1
  BY <1>7
<1>11. x.delivered = SubSeq(w, 1, b)
  BY <1>2, <1>5, <1>6, <1>7 DEF Listens, InOrder
<1>12. InOrder(w \o u, pos2, x)
  <2>1. pos2[k] = b
    BY <1>4, <1>6, <1>7
  <2> QED
    BY <1>5, <1>6, <1>9, <1>10, <1>11, <2>1 DEF InOrder
<1>13. Carried(r.seqn, r.written, pos2, x.saved)
  <2>1. Carried(st.seqn, st.written, pos, x.saved)
    BY DEF Listens
  <2> QED
    BY <2>1, CarriedGrows
<1>14. m < n2
  BY <1>4, <1>5
<1> QED
  BY <1>1, <1>2, <1>5, <1>12, <1>13, <1>14 DEF Listens

(* So do the packets.                                                       *)
LEMMA OwnGrows ==
  ASSUME NEW s, NEW st, NEW pos, Sends(s, st, pos), NEW r, NEW pos2, r.seqn \in Nat,
         Grows(st, pos, r, pos2), NEW p \in PacketType,
         OwnPacket(s, st.seqn, st.written, pos, p)
  PROVE  OwnPacket(s, r.seqn, r.written, pos2, p)
<1>1. PICK n \in Nat, n2 \in Nat : n = st.seqn /\ n2 = r.seqn
  BY SendsFacts
<1>2. PICK w \in Seq(Units), u \in Seq(Units) : w = st.written /\ r.written = w \o u
  BY SendsFacts DEF Grows
<1>3. Cut(n, w, pos)
  BY <1>1, <1>2, SendsFacts
<1>4. n <= n2 /\ \A i \in Nat : i <= n => pos2[i] = pos[i]
  BY <1>1 DEF Grows
<1>5. OwnPacket(s, n, w \o u, pos, p)
  BY <1>1, <1>2, <1>3, OwnLonger
<1>6. OwnPacket(s, n2, w \o u, pos2, p)
  BY <1>4, <1>5, OwnLater
<1> QED
  BY <1>1, <1>2, <1>6

(* Stream s becomes r, cut at pos2.                                         *)
Becomes(S, N, pos, s, r, pos2, S2, N2, pos3) ==
  /\ S2 = [S EXCEPT ![s] = Sent(r)]
  /\ pos3 = [pos EXCEPT ![s] = pos2]
  /\ N2 \subseteq N \cup r.out
  /\ Sends(s, r, pos2) /\ Waits(r)
  /\ Is(S, s) => Grows(S[s], pos[s], r, pos2)
  /\ ~Is(S, s) => s \in Incoming /\ S[Outgoing].status # "New"
  /\ r.status = "New" => Is(S, s) /\ S[s].status = "New" /\ r.out = {}
  /\ s \in Incoming =>
       /\ r.status # "New"
       /\ Listens(r, S[Outgoing].seqn, S[Outgoing].written, pos[Outgoing])

(* The names of the streams.                                                *)
LEMMA IDs ==
  /\ Outgoing \in StreamIDs /\ Outgoing \notin Incoming /\ Incoming \subseteq StreamIDs
  /\ StreamIDs \subseteq Nat /\ NoID \notin StreamIDs
  /\ \A s \in StreamIDs : s \in Incoming \/ s = Outgoing
  /\ NoStream.status = "None"
  /\ \A x \in StreamType : x.status # "None"
<1>1. NoStream.status = "None"
  BY DEF NoStream, NewStream
<1>2. \A x \in StreamType : x.status # "None"
  BY DEF StreamType
<1> QED
  BY <1>1, <1>2, ConstantsAssumption DEF StreamIDs, Outgoing, NoID

(* What a step of one stream changes.                                       *)
LEMMA Becoming ==
  ASSUME NEW S, NEW N, NEW pos, World(S, N, pos), NEW s \in StreamIDs, NEW r, NEW pos2,
         NEW S2, NEW N2, NEW pos3, Becomes(S, N, pos, s, r, pos2, S2, N2, pos3)
  PROVE  /\ S2 \in [StreamIDs -> StreamType \cup {NoStream}]
         /\ pos3 \in [StreamIDs -> [Nat -> Nat]] /\ \A t \in StreamIDs : pos3[t][0] = 0
         /\ S2[s] = Sent(r) /\ pos3[s] = pos2 /\ Is(S2, s)
         /\ \A t \in StreamIDs : t # s => S2[t] = S[t] /\ pos3[t] = pos[t]
         /\ Sends(s, S2[s], pos3[s]) /\ Waits(S2[s]) /\ SameButOut(r, S2[s])
         /\ Own(S2[s]) \subseteq Own(r) /\ Own(r) \subseteq PacketType
<1>1. Sends(s, Sent(r), pos2) /\ Waits(Sent(r)) /\ SameButOut(r, Sent(r))
      /\ Own(Sent(r)) \subseteq Own(r)
  BY SentIs DEF Becomes
<1>2. Sent(r) \in StreamType /\ pos2 \in [Nat -> Nat] /\ pos2[0] = 0
  <2>1. Sent(r) \in StreamType /\ Cut(Sent(r).seqn, Sent(r).written, pos2)
    BY <1>1, SendsFacts
  <2> QED
    BY <2>1 DEF Cut
<1>3. /\ S \in [StreamIDs -> StreamType \cup {NoStream}]
      /\ pos \in [StreamIDs -> [Nat -> Nat]] /\ \A t \in StreamIDs : pos[t][0] = 0
  BY DEF World
<1>4. S2 = [S EXCEPT ![s] = Sent(r)] /\ pos3 = [pos EXCEPT ![s] = pos2]
  BY DEF Becomes
<1>5. S2 \in [StreamIDs -> StreamType \cup {NoStream}] /\ S2[s] = Sent(r)
      /\ \A t \in StreamIDs : t # s => S2[t] = S[t]
  BY <1>2, <1>3, <1>4
<1>6. pos3 \in [StreamIDs -> [Nat -> Nat]] /\ pos3[s] = pos2
      /\ \A t \in StreamIDs : t # s => pos3[t] = pos[t]
  BY <1>2, <1>3, <1>4
<1>7. \A t \in StreamIDs : pos3[t][0] = 0
  BY <1>2, <1>3, <1>6
<1>8. Is(S2, s)
  BY <1>2, <1>5, IDs DEF Is
<1> QED
  BY <1>1, <1>5, <1>6, <1>7, <1>8 DEF Own

(* The first invariant is kept.                                             *)
LEMMA WorldStep ==
  ASSUME NEW S, NEW N, NEW pos, World(S, N, pos), NEW s \in StreamIDs, NEW r, NEW pos2,
         NEW S2, NEW N2, NEW pos3, Becomes(S, N, pos, s, r, pos2, S2, N2, pos3)
  PROVE  World(S2, N2, pos3)
<1>1. /\ S2 \in [StreamIDs -> StreamType \cup {NoStream}]
      /\ pos3 \in [StreamIDs -> [Nat -> Nat]] /\ \A t \in StreamIDs : pos3[t][0] = 0
      /\ S2[s] = Sent(r) /\ pos3[s] = pos2 /\ Is(S2, s)
      /\ \A t \in StreamIDs : t # s => S2[t] = S[t] /\ pos3[t] = pos[t]
      /\ Sends(s, S2[s], pos3[s]) /\ Waits(S2[s]) /\ SameButOut(r, S2[s])
      /\ Own(S2[s]) \subseteq Own(r) /\ Own(r) \subseteq PacketType
  BY Becoming
<1>2. \A t \in StreamIDs : Is(S, t) => Is(S2, t)
  BY <1>1 DEF Is
<1>3. \A t \in StreamIDs : t # s => (Is(S2, t) <=> Is(S, t))
  BY <1>1 DEF Is
<1>4. ASSUME NEW t \in StreamIDs, Is(S2, t)
      PROVE  Sends(t, S2[t], pos3[t]) /\ Waits(S2[t]) /\ S2[t].out = {}
  <2>1. CASE t = s
    BY <1>1, <2>1 DEF SameButOut
  <2>2. CASE t # s
    BY <1>1, <1>3, <1>4, <2>2 DEF World
  <2> QED
    BY <2>1, <2>2
<1>5. Is(S2, Outgoing)
  BY <1>2, IDs DEF World
<1>6. ASSUME S2[Outgoing].status = "New"
      PROVE  N2 = {} /\ \A t \in Incoming : ~Is(S2, t)
  <2>1. S[Outgoing].status = "New" /\ (s = Outgoing => r.out = {}) /\ s = Outgoing
    <3>1. CASE s = Outgoing
      <4>1. r.status = "New"
        BY <1>1, <1>6, <3>1 DEF SameButOut
      <4> QED
        BY <3>1, <4>1 DEF Becomes
    <3>2. CASE s # Outgoing
      <4>1. S[Outgoing].status = "New"
        BY <1>1, <1>6, <3>2, IDs
      <4>2. s \in Incoming /\ ~Is(S, s)
        BY <3>2, <4>1, IDs DEF World
      <4> QED
        BY <4>1, <4>2 DEF Becomes
    <3> QED
      BY <3>1, <3>2
  <2>2. N = {} /\ \A t \in Incoming : ~Is(S, t)
    BY <2>1 DEF World
  <2>3. N2 = {}
    BY <2>1, <2>2 DEF Becomes
  <2> QED
    BY <1>3, <2>1, <2>2, <2>3, IDs
<1>7. Is(S, s) => Grows(S[s], pos[s], S2[s], pos3[s])
  <2>1. Is(S, s) => Grows(S[s], pos[s], r, pos2)
    BY DEF Becomes
  <2>2. S2[s].seqn = r.seqn /\ S2[s].written = r.written
    BY <1>1 DEF SameButOut
  <2>3. ASSUME NEW a, NEW b, Grows(a, b, r, pos2)
        PROVE  Grows(a, b, S2[s], pos2)
    BY <2>2, <2>3 DEF Grows
  <2> QED
    BY <1>1, <2>1, <2>3
<1>8. r.seqn \in Nat /\ S2[s].seqn \in Nat
  <2>1. Sends(s, r, pos2)
    BY DEF Becomes
  <2>2. r.seqn \in Nat
    BY <2>1, SendsFacts
  <2>3. S2[s].seqn = r.seqn
    BY <1>1 DEF SameButOut
  <2> QED
    BY <2>2, <2>3
<1>9. ASSUME NEW t \in Incoming, Is(S2, t)
      PROVE  /\ S2[t].status # "New"
             /\ Listens(S2[t], S2[Outgoing].seqn, S2[Outgoing].written, pos3[Outgoing])
  <2>1. t \in StreamIDs /\ t # Outgoing
    BY IDs
  <2>2. CASE s = Outgoing
    <3>1. S2[t] = S[t] /\ Is(S, t)
      BY <1>1, <1>3, <1>9, <2>1, <2>2
    <3>2. S[t].status # "New" /\ Listens(S[t], S[s].seqn, S[s].written, pos[s])
      BY <2>2, <3>1 DEF World
    <3>3. S[t].saved \in SUBSET PacketType
      BY <2>1, <3>1, SendsFacts DEF World
    <3>4. Is(S, s) /\ Sends(s, S[s], pos[s])
      BY <2>2, IDs DEF World
    <3>5. Listens(S[t], S2[s].seqn, S2[s].written, pos3[s])
      BY <1>7, <1>8, <3>2, <3>3, <3>4, ListensGrows
    <3> QED
      BY <2>2, <3>1, <3>2, <3>5
  <2>3. CASE s # Outgoing
    <3>1. S2[Outgoing] = S[Outgoing] /\ pos3[Outgoing] = pos[Outgoing]
      BY <1>1, <2>3, IDs
    <3>2. CASE t = s
      <4>1. r.status # "New"
            /\ Listens(r, S[Outgoing].seqn, S[Outgoing].written, pos[Outgoing])
        BY <3>2 DEF Becomes
      <4> QED
        BY <1>1, <3>1, <3>2, <4>1 DEF SameButOut, Listens, InOrder
    <3>3. CASE t # s
      <4>1. S2[t] = S[t] /\ Is(S, t)
        BY <1>1, <1>3, <1>9, <2>1, <3>3
      <4> QED
        BY <3>1, <4>1 DEF World
    <3> QED
      BY <3>2, <3>3
  <2> QED
    BY <2>2, <2>3
<1>10. ASSUME NEW p \in N2
       PROVE  /\ p \in PacketType /\ p.from \in StreamIDs /\ Is(S2, p.from)
              /\ OwnPacket(p.from, S2[p.from].seqn, S2[p.from].written, pos3[p.from], p)
  <2>1. p \in N \/ p \in r.out
    BY DEF Becomes
  <2>2. CASE p \in r.out
    <3>1. Sends(s, r, pos2) /\ r.out \subseteq PacketType
      BY SendsFacts DEF Becomes
    <3>2. p \in PacketType /\ p \in Own(r)
      BY <2>2, <3>1 DEF Own
    <3>3. OwnPacket(s, r.seqn, r.written, pos2, p)
      BY <3>1, <3>2, SendsFacts
    <3>4. p.from = s
      BY <3>3 DEF OwnPacket
    <3> QED
      BY <1>1, <3>2, <3>3, <3>4 DEF SameButOut
  <2>3. CASE p \in N
    <3>1. /\ p \in PacketType /\ p.from \in StreamIDs /\ Is(S, p.from)
          /\ OwnPacket(p.from, S[p.from].seqn, S[p.from].written, pos[p.from], p)
      BY <2>3 DEF World
    <3>2. CASE p.from = s
      <4>1. Sends(s, S[s], pos[s]) /\ Grows(S[s], pos[s], S2[s], pos3[s])
        BY <1>7, <3>1, <3>2 DEF World
      <4>2. OwnPacket(s, S2[s].seqn, S2[s].written, pos3[s], p)
        BY <1>8, <3>1, <3>2, <4>1, OwnGrows
      <4> QED
        BY <1>1, <3>1, <3>2, <4>2
    <3>3. CASE p.from # s
      BY <1>1, <1>2, <3>1, <3>3
    <3> QED
      BY <3>2, <3>3
  <2> QED
    BY <2>1, <2>2, <2>3
<1> QED
  BY <1>1, <1>4, <1>5, <1>6, <1>9, <1>10 DEF World

-----------------------------------------------------------------------------
(* What a step does to a stream: it acts, receives a packet or is accepted. *)

(* The application, a timer or a posted task moves a stream.                *)
Acts(s, st, pos, r, pos2) ==
  /\ Turn(s, st, pos, r, pos2, {}) /\ AcksTrue(st, r) /\ Quiet(st, r)
  /\ r.peer = st.peer /\ Short(st, r)
  /\ r.status = "New" => st.status = "New" /\ r.out = {}

(* A step that receives nothing, in short.                                  *)
LEMMA GoesActs ==
  ASSUME NEW s, NEW st, NEW pos, NEW r, \E pos2 : Goes(s, st, pos, r, pos2), Quiet(st, r),
         \E u \in Seq(Units) : r.written = st.written \o u, Waits(r), Numbers(st, r),
         Short(st, r), r.status = "New" => r.out = {}
  PROVE  \E pos2 : Acts(s, st, pos, r, pos2)
<1>1. PICK pos2 : Goes(s, st, pos, r, pos2)
  OBVIOUS
<1>2. Turn(s, st, pos, r, pos2, {}) /\ AcksTrue(st, r)
  BY <1>1, GoesTurn
<1> QED
  BY <1>1, <1>2 DEF Acts, Goes

(* Nothing was written.                                                     *)
LEMMA SameWritten ==
  ASSUME NEW s, NEW st, NEW pos, Sends(s, st, pos), NEW r, r.written = st.written
  PROVE  \E u \in Seq(Units) : r.written = st.written \o u
<1>1. PICK w \in Seq(Units) : w = st.written
  BY SendsFacts
<1>2. \E u \in Seq(Units) : w = w \o u
  BY NothingAdded
<1> QED
  BY <1>1, <1>2

(* A stream that Close leaves in the table has used no number.              *)
LEMMA CloseShort ==
  ASSUME NEW s \in StreamIDs, NEW st \in StreamType
  PROVE  /\ Close(s, st).inTable = TRUE => Close(s, st).seqn = st.seqn
         /\ st.status = "New" => Close(s, st) = st
         /\ st.status = "Reset" => Close(s, st).inTable = FALSE
<1>1. /\ st.status = "Reset" => Close(s, st) = TerminateAndDelete(SendClose(s, st))
      /\ st.status \in {"Open", "Closing"} /\ NothingToSend(st) =>
           Close(s, st) = TerminateAndDelete(SendClose(s, [st EXCEPT !.status = "Closed"]))
      /\ st.status \in {"Open", "Closing"} /\ ~NothingToSend(st) =>
           Close(s, st) = [st EXCEPT !.status = "Closing"]
      /\ st.status = "Closed" => Close(s, st) = TerminateAndDelete(st)
      /\ st.status = "New" => Close(s, st) = st
  BY CloseCases
<1>2. st.status \in {"New", "Open", "Reset", "Closing", "Closed"}
  BY DEF StreamType
<1>3. PICK a, b : a = SendClose(s, st) /\ b = SendClose(s, [st EXCEPT !.status = "Closed"])
  OBVIOUS
<1>4. PICK c, d : c = TerminateAndDelete(a) /\ d = TerminateAndDelete(b)
  OBVIOUS
<1>5. \A x : TerminateAndDelete([st EXCEPT !.posted = x]).inTable = FALSE
  BY DEF TerminateAndDelete, StreamType
<1>6. c.inTable = FALSE
  <2>1. PICK x, y : a = [st EXCEPT !.seqn = x, !.posted = y]
    BY <1>3 DEF SendClose
  <2> QED
    BY <1>4, <2>1 DEF TerminateAndDelete, StreamType
<1>7. d.inTable = FALSE
  <2>1. PICK x, y, z : b = [st EXCEPT !.status = z, !.seqn = x, !.posted = y]
    <3>1. PICK z : z = "Closed"
      OBVIOUS
    <3>2. PICK e : e = [st EXCEPT !.status = z]
      OBVIOUS
    <3>3. b = SendClose(s, e)
      BY <1>3, <3>1, <3>2, Zenon
    <3>4. PICK x, y : b = [e EXCEPT !.seqn = x, !.posted = y]
      BY <3>3 DEF SendClose
    <3>5. b = [st EXCEPT !.status = z, !.seqn = x, !.posted = y]
      BY <3>2, <3>4 DEF StreamType
    <3> QED
      BY <3>5
  <2> QED
    BY <1>4, <2>1 DEF TerminateAndDelete, StreamType
<1>8. TerminateAndDelete(st).inTable = FALSE
  BY DEF TerminateAndDelete, StreamType
<1>9. [st EXCEPT !.status = "Closing"].seqn = st.seqn
  BY DEF StreamType
<1> QED
  BY <1>1, <1>2, <1>3, <1>4, <1>6, <1>7, <1>8, <1>9

(* AsyncSend.                                                               *)
LEMMA AsyncSendActs ==
  ASSUME NEW s \in StreamIDs, NEW st, NEW pos, Sends(s, st, pos), Waits(st),
         NEW n \in Nat, ~st.closing
  PROVE  st.out = {} => \E pos2 : Acts(s, st, pos, AsyncSent(s, st, n), pos2)
<1> SUFFICES ASSUME NEW r, r = AsyncSent(s, st, n)
             PROVE  st.out = {} => \E pos2 : Acts(s, st, pos, r, pos2)
  OBVIOUS
<1>1. /\ Goes(s, st, pos, r, pos) /\ r.seqn = st.seqn /\ Own(r) = Own(st)
      /\ Quiet(st, r) /\ Waits(r) /\ Numbers(st, r)
      /\ \E u \in Seq(Units) : r.written = st.written \o u
  BY AsyncSendGoes
<1>2. Short(st, r)
  BY <1>1 DEF Short
<1>3. r.status = "New" /\ st.out = {} => r.out = {}
  <2>1. ASSUME r.status = "New", st.out = {}
        PROVE  r.out = {}
    <3>1. st.status = "New" /\ Sends(s, r, pos)
      BY <1>1, <2>1 DEF Goes
    <3>2. st.sent = {} /\ ~(\E p \in PacketType : PostedFin(st, p))
      BY <3>1 DEF Sends, Stages
    <3>3. r.out \subseteq Own(r)
      BY <3>1, SendsFacts DEF Own
    <3>4. Own(st) \subseteq st.out
      BY <3>2 DEF Own
    <3> QED
      BY <1>1, <2>1, <3>3, <3>4
  <2> QED
    BY <2>1
<1> QED
  BY <1>1, <1>2, <1>3, GoesActs

(* AppClose.                                                                *)
LEMMA AppCloseActs ==
  ASSUME NEW s \in StreamIDs, NEW st, NEW pos, Sends(s, st, pos), Waits(st), st.out = {}
  PROVE  \E pos2 : Acts(s, st, pos, AppClosed(s, st), pos2)
<1> SUFFICES ASSUME NEW r, r = AppClosed(s, st)
             PROVE  \E pos2 : Acts(s, st, pos, r, pos2)
  OBVIOUS
<1>1. /\ \E pos2 : Goes(s, st, pos, r, pos2)
      /\ Quiet(st, r) /\ r.written = st.written /\ Waits(r) /\ Numbers(st, r)
  BY AppCloseGoes
<1>2. PICK c : c = [st EXCEPT !.closing = TRUE]
  OBVIOUS
<1>3. c \in StreamType /\ c.seqn = st.seqn /\ c.out = {} /\ c.status = st.status
  <2>1. PICK x \in BOOLEAN : x = TRUE
    OBVIOUS
  <2>2. c = [st EXCEPT !.closing = x] /\ x \in BOOLEAN
    BY <1>2, <2>1
  <2>3. st \in StreamType
    BY SendsFacts
  <2> QED
    BY <2>2, <2>3 DEF StreamType
<1>4. r = Close(s, c)
  BY <1>2 DEF AppClosed
<1>5. /\ r.inTable = TRUE => r.seqn = c.seqn
      /\ c.status = "New" => r = c
  BY <1>3, <1>4, CloseShort
<1>6. r.inTable \in BOOLEAN
  BY <1>1, SendsFacts DEF Goes
<1>7. Short(st, r)
  BY <1>3, <1>5, <1>6 DEF Short
<1>8. r.status = "New" => r.out = {}
  BY <1>1, <1>3, <1>5 DEF Goes
<1>9. \E u \in Seq(Units) : r.written = st.written \o u
  BY <1>1, SameWritten
<1> QED
  BY <1>1, <1>7, <1>8, <1>9, GoesActs

(* RunPosted.                                                               *)
LEMMA RunPostedActs ==
  ASSUME NEW s \in StreamIDs, NEW st, NEW pos, Sends(s, st, pos), Waits(st), st.posted # <<>>
  PROVE  \E pos2 : Acts(s, st, pos, RanPosted(s, st), pos2)
<1> SUFFICES ASSUME NEW r, r = RanPosted(s, st)
             PROVE  \E pos2 : Acts(s, st, pos, r, pos2)
  OBVIOUS
<1>1. /\ \E pos2 : Goes(s, st, pos, r, pos2)
      /\ Quiet(st, r) /\ r.written = st.written /\ Waits(r) /\ Numbers(st, r)
      /\ r.status # "New" /\ Short(st, r)
  BY RunPostedGoes
<1>2. \E u \in Seq(Units) : r.written = st.written \o u
  BY <1>1, SameWritten
<1> QED
  BY <1>1, <1>2, GoesActs

(* ResendTimer.                                                             *)
LEMMA ResendTimerActs ==
  ASSUME NEW s \in StreamIDs, NEW st, NEW pos, Sends(s, st, pos), Waits(st),
         st.status # "New", NEW old \in SUBSET st.sent
  PROVE  \E pos2 : Acts(s, st, pos, HandleResendTimer(s, st, old), pos2)
<1> SUFFICES ASSUME NEW r, r = HandleResendTimer(s, st, old)
             PROVE  \E pos2 : Acts(s, st, pos, r, pos2)
  OBVIOUS
<1>1. /\ \E pos2 : Goes(s, st, pos, r, pos2)
      /\ Quiet(st, r) /\ r.written = st.written /\ Waits(r) /\ Numbers(st, r)
  BY ResendTimerGoes
<1>2. \E u \in Seq(Units) : r.written = st.written \o u
  BY <1>1, SameWritten
<1>3. r.status # "New"
  BY <1>1 DEF Goes
<1>4. st \in StreamType /\ r.inTable \in BOOLEAN
  BY <1>1, SendsFacts DEF Goes
<1>5. Short(st, r)
  <2>1. CASE st.attempts >= MAX_NUM_RESEND_ATTEMPTS
    <3>1. PICK q : q = [st EXCEPT !.status = "Reset", !.resendSet = FALSE]
      OBVIOUS
    <3>2. r = Close(s, q)
      BY <2>1, <3>1, Zenon DEF HandleResendTimer
    <3>3. PICK b \in BOOLEAN : b = FALSE
      OBVIOUS
    <3>4. q \in StreamType /\ q.status = "Reset"
      BY <1>4, <3>1, <3>3 DEF StreamType
    <3>5. Close(s, q).inTable = FALSE
      BY <3>4, CloseShort
    <3> QED
      BY <3>2, <3>5 DEF Short
  <2>2. CASE ~(st.attempts >= MAX_NUM_RESEND_ATTEMPTS) /\ old = {}
    BY <2>2, Zenon DEF HandleResendTimer, Short
  <2>3. CASE ~(st.attempts >= MAX_NUM_RESEND_ATTEMPTS) /\ old # {}
    <3>1. r = [st EXCEPT !.attempts = NextAttempt(st), !.out = @ \cup old,
                  !.window = IF st.attempts = 0 THEN HalfWindow(st) ELSE @]
      BY <2>3, Zenon DEF HandleResendTimer
    <3>2. PICK x, y, z : r = [st EXCEPT !.attempts = x, !.out = y, !.window = z]
      BY <3>1
    <3>3. r.seqn = st.seqn
      BY <1>4, <3>2 DEF StreamType
    <3> QED
      BY <3>3 DEF Short
  <2> QED
    BY <2>1, <2>2, <2>3
<1> QED
  BY <1>1, <1>2, <1>3, <1>5, GoesActs

(* AckSendTimer.                                                            *)
LEMMA AckSendTimerActs ==
  ASSUME NEW s \in StreamIDs, NEW st, NEW pos, Sends(s, st, pos), Waits(st), st.acks # 0
  PROVE  \E pos2 : Acts(s, st, pos, HandleAckSendTimer(s, st), pos2)
<1> SUFFICES ASSUME NEW r, r = HandleAckSendTimer(s, st)
             PROVE  \E pos2 : Acts(s, st, pos, r, pos2)
  OBVIOUS
<1>1. /\ \E pos2 : Goes(s, st, pos, r, pos2)
      /\ Quiet(st, r) /\ r.written = st.written /\ Waits(r) /\ Numbers(st, r)
  BY AckSendTimerGoes
<1>2. \E u \in Seq(Units) : r.written = st.written \o u
  BY <1>1, SameWritten
<1>3. st.status # "New"
  BY DEF Sends, Stages
<1>8. r.status # "New"
  BY <1>1, <1>3 DEF Goes
<1>4. st \in StreamType /\ st.acks \in Int
  BY SendsFacts
<1>5. Short(st, r)
  <2>1. CASE st.last < 0
    <3>1. PICK q : q = [st EXCEPT !.status = "Reset", !.acks = @ - 1]
      OBVIOUS
    <3>2. r = Close(s, q)
      BY <2>1, <3>1, Zenon DEF HandleAckSendTimer
    <3>3. PICK x \in Int : x = st.acks - 1
      BY <1>4
    <3>6. q = [st EXCEPT !.status = "Reset", !.acks = x] /\ x \in Int
      BY <3>1, <3>3
    <3>4. q \in StreamType /\ q.status = "Reset"
      BY <1>4, <3>6 DEF StreamType
    <3>5. Close(s, q).inTable = FALSE
      BY <3>4, CloseShort
    <3> QED
      BY <3>2, <3>5 DEF Short
  <2>2. CASE ~(st.last < 0)
    <3>1. PICK a : a = IF IsOpen(st) THEN SendQuickAck(s, st) ELSE st
      OBVIOUS
    <3>2. r = [a EXCEPT !.acks = 0]
      BY <2>2, <3>1, Zenon DEF HandleAckSendTimer
    <3>3. a.seqn = st.seqn /\ a \in StreamType
      <4>1. CASE IsOpen(st)
        <5>1. a = SendQuickAck(s, st)
          BY <3>1, <4>1
        <5>2. Sends(s, a, pos) /\ a.seqn = st.seqn
          BY <5>1, QuickFacts
        <5> QED
          BY <5>2, SendsFacts
      <4>2. CASE ~IsOpen(st)
        BY <1>4, <3>1, <4>2
      <4> QED
        BY <4>1, <4>2
    <3>4. r.seqn = a.seqn
      BY <3>2, <3>3 DEF StreamType
    <3> QED
      BY <3>3, <3>4 DEF Short
  <2> QED
    BY <2>1, <2>2
<1> QED
  BY <1>1, <1>2, <1>5, <1>8, GoesActs

(* A stream takes a packet; n, w and cut are those of the packet's sender.  *)
Receives(s, st, pos, p, r, pos2, n, w, cut) ==
  /\ Turn(s, st, pos, r, pos2, AckedBy(p)) /\ r.status # "New"
  /\ r.peer = IF st.peer = NoID THEN p.from ELSE st.peer
  /\ InTurn(st, p) => Hears(st, p, r, n, w, cut)
  /\ InTurn(st, p) /\ st.last >= 0 => AcksTrue(st, r)

(* HandleNextPacket of a stream there is.                                   *)
LEMMA HandleReceives ==
  ASSUME NEW s \in StreamIDs, NEW st, NEW pos, Sends(s, st, pos), Waits(st),
         st.status # "New", NEW p \in PacketType, p.from \in Nat, p.from # NoID, NEW grow,
         NEW n \in Nat, NEW w \in Seq(Units), NEW cut, Cut(n, w, cut)
  PROVE  \E pos2 : Receives(s, st, pos, p, HandleNextPacket(s, st, p, grow), pos2, n, w, cut)
<1>1. PICK k : k = Known(st, p)
  OBVIOUS
<1>2. /\ Sends(s, k, pos) /\ Waits(k) /\ k.peer # NoID
      /\ PeerSet(st, k, p.from) /\ Own(k) = Own(st)
  BY <1>1, KnownSends
<1>3. k.status # "New" /\ k.last = st.last /\ k.saved = st.saved /\ k.delivered = st.delivered
      /\ k.peer = IF st.peer = NoID THEN p.from ELSE st.peer
  BY <1>2 DEF PeerSet
<1>4. PICK r : r = HandleKnown(s, k, p, grow)
  OBVIOUS
<1>5. r = HandleNextPacket(s, st, p, grow)
  BY <1>1, <1>4, HandleNextIs
<1>6. k.status = "New" => p.fin = FALSE /\ p.syn = TRUE
  BY <1>3
<1>7. /\ \E left, pos2 :
              /\ Outcome(s, k, pos, p, left, r, pos2)
              /\ InTurn(k, p) /\ (k.last >= 0 \/ k.status = "New") => AcksTrue(left, r)
      /\ InTurn(k, p) => Hears(k, p, r, n, w, cut)
  <2>1. k.peer # NoID
    BY <1>2
  <2> QED
    BY <1>2, <1>4, <1>6, <2>1, HandleKnownMoves
<1>8. PICK left, pos2 :
              /\ Outcome(s, k, pos, p, left, r, pos2)
              /\ InTurn(k, p) /\ (k.last >= 0 \/ k.status = "New") => AcksTrue(left, r)
  BY <1>7
<1>9. /\ Turn(s, st, pos, r, pos2, AckedBy(p)) /\ r.status # "New" /\ r.peer = k.peer
      /\ AcksTrue(left, r) => AcksTrue(st, r)
  <2>1. k \in StreamType /\ st.written \in Seq(Units)
    BY <1>2, SendsFacts
  <2> QED
    BY <1>2, <1>8, <2>1, OutcomeTurn
<1>10. InTurn(st, p) <=> InTurn(k, p)
  BY <1>3 DEF InTurn
<1>11. Hears(k, p, r, n, w, cut) => Hears(st, p, r, n, w, cut)
  BY <1>3 DEF Hears, Has, Saved, InOrder
<1>12. InTurn(st, p) /\ st.last >= 0 => AcksTrue(st, r)
  BY <1>3, <1>8, <1>9, <1>10
<1> QED
  BY <1>3, <1>5, <1>7, <1>9, <1>10, <1>11, <1>12 DEF Receives

Begun(a, accept) == [a EXCEPT !.inTable = @ /\ accept, !.closing = ~accept]

(* A SYN begins stream s.                                                   *)
Accepts(s, p, r, pos2, n, w, cut) ==
  /\ Sends(s, r, pos2) /\ Waits(r) /\ r.status = "Open"
  /\ r.last \in Nat /\ Hears(NewStream, p, r, n, w, cut)
  /\ \A q \in Own(r) : Answers(r, q)

(* A stream that is accepted, or not.                                       *)
LEMMA BegunIs ==
  ASSUME NEW s \in StreamIDs, NEW a, NEW pos, Sends(s, a, pos), Waits(a), a.status = "Open",
         NEW accept \in BOOLEAN
  PROVE  /\ Sends(s, Begun(a, accept), pos) /\ Waits(Begun(a, accept))
         /\ Begun(a, accept).status = "Open" /\ Own(Begun(a, accept)) = Own(a)
         /\ Begun(a, accept).last = a.last /\ Begun(a, accept).saved = a.saved
         /\ Begun(a, accept).delivered = a.delivered
<1>1. a \in StreamType /\ a.inTable \in BOOLEAN
  BY SendsFacts
<1>2. PICK b \in BOOLEAN, c \in BOOLEAN : b = (a.inTable /\ accept) /\ c = (~accept)
  <2>1. (a.inTable /\ accept) \in BOOLEAN /\ (~accept) \in BOOLEAN
    BY <1>1
  <2> QED
    BY <2>1
<1>3. PICK r : r = Begun(a, accept)
  OBVIOUS
<1>4. r = [a EXCEPT !.inTable = b, !.closing = c] /\ b \in BOOLEAN /\ c \in BOOLEAN
  BY <1>2, <1>3, Zenon DEF Begun
<1>5. /\ r \in StreamType /\ r.posted = a.posted
      /\ r.seqn = a.seqn /\ r.written = a.written /\ r.buf = a.buf
      /\ r.eof = a.eof /\ r.status = a.status /\ r.sent = a.sent
      /\ r.peer = a.peer /\ r.last = a.last
      /\ r.delivered = a.delivered /\ r.saved = a.saved
      /\ r.out = a.out /\ r.window = a.window /\ r.acks = a.acks /\ r.resendSet = a.resendSet
  BY <1>1, <1>4 DEF StreamType
<1>6. Own(r) = Own(a)
  BY <1>5 DEF Own, PostedFin
<1>7. Stages(s, r)
  BY <1>5 DEF Sends, Stages, PostedFin
<1>8. Sends(s, r, pos)
  <2>1. /\ \A q \in a.sent : q.seqn # 0 \/ q.syn
        /\ IsFiniteSet(a.sent) /\ Cardinality(a.sent) <= MAX_WINDOW_SIZE
        /\ a.window >= 1 /\ a.window <= MAX_WINDOW_SIZE /\ IsFiniteSet(a.saved)
    BY SendsFacts
  <2>2. \A q \in Own(r) : q \in Own(a)
    BY <1>6
  <2> QED
    BY <1>5, <1>7, <2>1, <2>2, SendsKept
<1>9. Waits(r)
  BY <1>5 DEF Waits
<1> QED
  BY <1>3, <1>5, <1>6, <1>8, <1>9

(* HandleNextPacket of a new stream.                                        *)
LEMMA HandleAccepts ==
  ASSUME NEW s \in StreamIDs, s # Outgoing, NEW pos \in [Nat -> Nat], pos[0] = 0,
         NEW p \in PacketType, p.from = Outgoing, p.syn = TRUE, p.fin = FALSE, p.seqn = 0,
         NEW accept \in BOOLEAN,
         NEW n \in Nat, NEW w \in Seq(Units), NEW cut, Cut(n, w, cut)
  PROVE  \E pos2 : Accepts(s, p, Begun(HandleNextPacket(s, NewStream, p, FALSE), accept), pos2,
                           n, w, cut)
<1>1. PICK k : k = Known(NewStream, p)
  OBVIOUS
<1>2. k \in StreamType /\ PeerSet(NewStream, k, Outgoing)
  <2>1. p.from \in Nat
    BY DEF Outgoing
  <2> QED
    BY <1>1, <2>1, NewStreamType, KnownIs
<1>3. Sends(s, k, pos) /\ Waits(k) /\ Own(k) = {}
  BY <1>2, NewStreamSends
<1>4. /\ k.status = "New" /\ k.last = -1 /\ k.saved = {} /\ k.delivered = NewStream.delivered
      /\ k.peer # NoID /\ k.last = NewStream.last /\ k.saved = NewStream.saved
  BY <1>2, NewStreamType DEF PeerSet, Outgoing, NoID
<1>5. InTurn(k, p)
  BY <1>4 DEF InTurn
<1>6. PICK a : a = HandleKnown(s, k, p, FALSE)
  OBVIOUS
<1>7. a = HandleNextPacket(s, NewStream, p, FALSE)
  BY <1>1, <1>6, HandleNextIs
<1>8. /\ \E left, pos2 :
              /\ Outcome(s, k, pos, p, left, a, pos2)
              /\ InTurn(k, p) /\ (k.last >= 0 \/ k.status = "New") => AcksTrue(left, a)
      /\ InTurn(k, p) => Hears(k, p, a, n, w, cut)
      /\ k.status = "New" => a.status = "Open" /\ a.last \in Nat
  <2>1. k.peer # NoID /\ (k.status = "New" => p.fin = FALSE /\ p.syn = TRUE)
    BY <1>4
  <2> QED
    BY <1>3, <1>6, <2>1, HandleKnownMoves
<1>9. PICK left, pos2 : Outcome(s, k, pos, p, left, a, pos2) /\ AcksTrue(left, a)
  BY <1>4, <1>5, <1>8
<1>10. Own(left) = {}
  BY <1>2, <1>3, <1>9, HeardKeeps DEF Outcome
<1>11. \A q \in Own(a) : Answers(a, q)
  BY <1>9, <1>10 DEF AcksTrue
<1>12. Sends(s, a, pos2) /\ Waits(a) /\ a.status = "Open" /\ a.last \in Nat
  BY <1>4, <1>8, <1>9 DEF Outcome, Moves
<1>13. Hears(NewStream, p, a, n, w, cut)
  BY <1>4, <1>5, <1>8 DEF Hears, Has, Saved, InOrder
<1>14. PICK r : r = Begun(a, accept)
  OBVIOUS
<1>15. /\ Sends(s, r, pos2) /\ Waits(r) /\ r.status = "Open" /\ Own(r) = Own(a)
       /\ r.last = a.last /\ r.saved = a.saved /\ r.delivered = a.delivered
  BY <1>12, <1>14, BegunIs
<1>16. Hears(NewStream, p, r, n, w, cut)
  BY <1>13, <1>15, SameHears
<1>17. \A q \in Own(r) : Answers(r, q)
  BY <1>11, <1>15 DEF Answers, AckHeld, FewMissing, Missing, Has, Saved
<1> QED
  BY <1>7, <1>12, <1>14, <1>15, <1>16, <1>17 DEF Accepts

(* The part before the first unit.                                          *)
LEMMA EmptyPart ==
  ASSUME NEW w \in Seq(Units)
  PROVE  SubSeq(w, 1, 0) = <<>>
<1>1. PICK o \in Nat : o = 0
  OBVIOUS
<1>2. /\ SubSeq(w, o + 1, o) \in Seq(Units) /\ Len(SubSeq(w, o + 1, o)) = 0
  <2>1. o <= Len(w)
    BY <1>1
  <2> QED
    BY <1>1, <2>1, PartOf
<1>3. o + 1 = 1
  BY <1>1
<1>4. SubSeq(w, 1, 0) \in Seq(Units) /\ Len(SubSeq(w, 1, 0)) = 0
  BY <1>1, <1>2, <1>3
<1> QED
  BY <1>4

(* What was received is still in order.                                     *)
LEMMA HearsListens ==
  ASSUME NEW st, NEW p \in PacketType, NEW r, NEW n \in Nat, NEW w, NEW cut,
         Hears(st, p, r, n, w, cut), NEW s, OwnPacket(s, n, w, cut, p),
         Carried(n, w, cut, st.saved), InOrder(w, cut, st), r.last \in Nat, st.last \in Int,
         st.last < n, st.saved \subseteq PacketType
  PROVE  Listens(r, n, w, cut)
<1>1. p.seqn # 0 \/ p.syn => Carried(n, w, cut, {p})
  BY DEF OwnPacket, Carried
<1>2. InOrder(w, cut, r)
  BY <1>1 DEF Hears
<1>3. Carried(n, w, cut, r.saved)
  <2>1. ASSUME NEW q \in r.saved
        PROVE  q.seqn < n /\ q.data = SubSeq(w, cut[q.seqn] + 1, cut[q.seqn + 1])
    <3>1. CASE q \in st.saved
      BY <3>1 DEF Carried
    <3>2. CASE q \notin st.saved
      <4>1. q = p /\ q.seqn # 0
        BY <2>1, <3>2 DEF Hears
      <4> QED
        BY <1>1, <4>1 DEF Carried
    <3> QED
      BY <3>1, <3>2
  <2> QED
    BY <2>1 DEF Carried
<1>4. r.last < n
  <2>1. CASE r.last = st.last
    BY <2>1
  <2>2. CASE r.last = p.seqn /\ (p.seqn # 0 \/ p.syn)
    BY <1>1, <2>2 DEF Carried
  <2>3. CASE r.last \in Saved(st)
    <3>1. PICK q \in st.saved : r.last = q.seqn
      BY <2>3 DEF Saved
    <3> QED
      BY <3>1 DEF Carried
  <2> QED
    BY <2>1, <2>2, <2>3 DEF Hears
<1> QED
  BY <1>2, <1>3, <1>4 DEF Listens

(* A step only adds.                                                        *)
LEMMA TurnGrows ==
  ASSUME NEW s, NEW st, NEW pos, NEW r, NEW pos2, NEW D, Turn(s, st, pos, r, pos2, D)
  PROVE  Grows(st, pos, r, pos2) /\ Sends(s, r, pos2) /\ Waits(r)
BY DEF Turn, Grows

(* Stream s becomes r and sends what it put aside.                          *)
Moved(S, N, s, r, S2, N2) ==
  S2 = [S EXCEPT ![s] = Sent(r)] /\ N2 \subseteq N \cup r.out

Placed(pos, s, pos2) == [pos EXCEPT ![s] = pos2]

(* Acts keeps what World asks of a step.                                    *)
LEMMA ActsBecomes ==
  ASSUME NEW S, NEW N, NEW pos, World(S, N, pos), NEW s \in StreamIDs, Is(S, s), NEW r, NEW pos2,
         Acts(s, S[s], pos[s], r, pos2), NEW S2, NEW N2, Moved(S, N, s, r, S2, N2)
  PROVE  Becomes(S, N, pos, s, r, pos2, S2, N2, Placed(pos, s, pos2))
<1>1. PICK st : st = S[s]
  OBVIOUS
<1>2. Turn(s, st, pos[s], r, pos2, {}) /\ Quiet(st, r)
      /\ (r.status = "New" => st.status = "New" /\ r.out = {})
  BY <1>1 DEF Acts
<1>3. Grows(st, pos[s], r, pos2) /\ Sends(s, r, pos2) /\ Waits(r)
  BY <1>2, TurnGrows
<1>4. ASSUME s \in Incoming
      PROVE  /\ r.status # "New"
             /\ Listens(r, S[Outgoing].seqn, S[Outgoing].written, pos[Outgoing])
  <2>1. /\ st.status # "New"
        /\ Listens(st, S[Outgoing].seqn, S[Outgoing].written, pos[Outgoing])
    BY <1>1, <1>4 DEF World
  <2> QED
    BY <1>2, <2>1 DEF Quiet, Listens, InOrder
<1> QED
  BY <1>1, <1>2, <1>3, <1>4 DEF Becomes, Moved, Placed

(* So does Receives.                                                        *)
LEMMA ReceivesBecomes ==
  ASSUME NEW S, NEW N, NEW pos, World(S, N, pos), NEW s \in StreamIDs, Is(S, s),
         NEW p \in N, s \in Incoming => p.from = Outgoing /\ p.syn = FALSE, NEW r, NEW pos2,
         Receives(s, S[s], pos[s], p, r, pos2,
                  S[Outgoing].seqn, S[Outgoing].written, pos[Outgoing]),
         NEW S2, NEW N2, Moved(S, N, s, r, S2, N2)
  PROVE  Becomes(S, N, pos, s, r, pos2, S2, N2, Placed(pos, s, pos2))
<1>1. PICK st, n, w, cut : st = S[s] /\ n = S[Outgoing].seqn /\ w = S[Outgoing].written
                           /\ cut = pos[Outgoing]
  OBVIOUS
<1>2. /\ Turn(s, st, pos[s], r, pos2, AckedBy(p)) /\ r.status # "New"
      /\ InTurn(st, p) => Hears(st, p, r, n, w, cut)
  BY <1>1 DEF Receives
<1>3. Grows(st, pos[s], r, pos2) /\ Sends(s, r, pos2) /\ Waits(r)
  BY <1>2, TurnGrows
<1>4. ASSUME s \in Incoming
      PROVE  Listens(r, n, w, cut)
  <2>1. Listens(st, n, w, cut)
    BY <1>1, <1>4 DEF World
  <2>2. Sends(Outgoing, S[Outgoing], cut) /\ OwnPacket(Outgoing, n, w, cut, p) /\ p \in PacketType
    BY <1>1, <1>4, IDs DEF World
  <2>3. n \in Nat
    BY <1>1, <2>2, SendsFacts
  <2>4. Hears(st, p, r, n, w, cut)
    BY <1>2, <1>4 DEF InTurn
  <2>5. st.saved \subseteq PacketType
    <3>1. Sends(s, st, pos[s])
      BY <1>1 DEF World
    <3> QED
      BY <3>1, SendsFacts
  <2>6. st.last \in Int /\ st.last < n /\ Carried(n, w, cut, st.saved) /\ InOrder(w, cut, st)
    BY <2>1 DEF Listens
  <2>7. r.last \in Nat
    <3>1. p.seqn \in Nat
      BY <2>2 DEF PacketType
    <3>2. Saved(st) \subseteq Nat
      BY <2>5 DEF Saved, PacketType
    <3> QED
      BY <2>1, <2>4, <3>1, <3>2 DEF Hears, Listens
  <2> QED
    BY <2>2, <2>3, <2>4, <2>5, <2>6, <2>7, HearsListens
<1> QED
  BY <1>1, <1>2, <1>3, <1>4 DEF Becomes, Moved, Placed

(* So does Accepts.                                                         *)
LEMMA AcceptsBecomes ==
  ASSUME NEW S, NEW N, NEW pos, World(S, N, pos), NEW s \in Incoming, ~Is(S, s),
         NEW p \in N, p.from = Outgoing, NEW r, NEW pos2,
         Accepts(s, p, r, pos2, S[Outgoing].seqn, S[Outgoing].written, pos[Outgoing]),
         NEW S2, NEW N2, Moved(S, N, s, r, S2, N2)
  PROVE  Becomes(S, N, pos, s, r, pos2, S2, N2, Placed(pos, s, pos2))
<1>1. PICK n, w, cut : n = S[Outgoing].seqn /\ w = S[Outgoing].written /\ cut = pos[Outgoing]
  OBVIOUS
<1>2. /\ Sends(s, r, pos2) /\ Waits(r) /\ r.status = "Open"
      /\ r.last \in Nat /\ Hears(NewStream, p, r, n, w, cut)
  BY <1>1 DEF Accepts
<1>3. S[Outgoing].status # "New"
  BY DEF World
<1>4. Sends(Outgoing, S[Outgoing], cut) /\ OwnPacket(Outgoing, n, w, cut, p) /\ p \in PacketType
  BY <1>1, IDs DEF World
<1>5. n \in Nat /\ w \in Seq(Units) /\ Cut(n, w, cut) /\ n >= 1
  <2>1. n >= 1
    BY <1>1, <1>3, <1>4 DEF Sends, Stages
  <2> QED
    BY <1>1, <1>4, <2>1, SendsFacts
<1>6. Carried(n, w, cut, NewStream.saved) /\ NewStream.saved \subseteq PacketType
      /\ NewStream.last \in Int /\ NewStream.last < n
  BY <1>5, NewStreamType DEF Carried
<1>7. InOrder(w, cut, NewStream)
  <2>1. cut[0] = 0 /\ NewStream.last + 1 = 0
    BY <1>5, NewStreamType DEF Cut
  <2>2. cut[NewStream.last + 1] = 0
    BY <2>1, Zenon
  <2>3. SubSeq(w, 1, cut[NewStream.last + 1]) = <<>>
    BY <1>5, <2>2, EmptyPart, Zenon
  <2> QED
    BY <2>3, NewStreamType, Zenon DEF InOrder
<1>8. Listens(r, n, w, cut)
  BY <1>2, <1>4, <1>5, <1>6, <1>7, HearsListens
<1> QED
  BY <1>1, <1>2, <1>3, <1>8, IDs DEF Becomes, Moved, Placed

(* The packet p finds stream s.                                             *)
Finds(S, p, s) ==
  /\ S[s].inTable = TRUE
  /\ s \in Incoming => p.from = Outgoing /\ p.syn = FALSE
  /\ s = Outgoing => p.from \in Incoming
  /\ p.to # NoID => s = p.to
  /\ p.to = NoID => S[s].peer = p.from

Event(S, N, pos, s, r, pos2) ==
  \/ Is(S, s) /\ Acts(s, S[s], pos[s], r, pos2)
  \/ Is(S, s) /\ \E p \in N : /\ Finds(S, p, s)
                              /\ Receives(s, S[s], pos[s], p, r, pos2, S[Outgoing].seqn,
                                          S[Outgoing].written, pos[Outgoing])
  \/ ~Is(S, s) /\ s \in Incoming /\
       \E p \in N : /\ p.from = Outgoing /\ p.seqn = 0
                    /\ Accepts(s, p, r, pos2, S[Outgoing].seqn, S[Outgoing].written,
                               pos[Outgoing])

(* So does every step of a stream.                                          *)
LEMMA EventBecomes ==
  ASSUME NEW S, NEW N, NEW pos, World(S, N, pos), NEW s \in StreamIDs, NEW r, NEW pos2,
         Event(S, N, pos, s, r, pos2), NEW S2, NEW N2, Moved(S, N, s, r, S2, N2)
  PROVE  Becomes(S, N, pos, s, r, pos2, S2, N2, Placed(pos, s, pos2))
<1>1. CASE Is(S, s) /\ Acts(s, S[s], pos[s], r, pos2)
  BY <1>1, ActsBecomes
<1>2. CASE Is(S, s) /\ \E p \in N : /\ Finds(S, p, s)
                              /\ Receives(s, S[s], pos[s], p, r, pos2, S[Outgoing].seqn,
                                          S[Outgoing].written, pos[Outgoing])
  <2>1. PICK p \in N : /\ Finds(S, p, s)
                       /\ Receives(s, S[s], pos[s], p, r, pos2, S[Outgoing].seqn,
                                   S[Outgoing].written, pos[Outgoing])
    BY <1>2
  <2>2. s \in Incoming => p.from = Outgoing /\ p.syn = FALSE
    BY <2>1 DEF Finds
  <2> QED
    BY <1>2, <2>1, <2>2, ReceivesBecomes
<1>3. CASE ~Is(S, s) /\ s \in Incoming /\
       \E p \in N : /\ p.from = Outgoing /\ p.seqn = 0
                    /\ Accepts(s, p, r, pos2, S[Outgoing].seqn, S[Outgoing].written,
                               pos[Outgoing])
  BY <1>3, AcceptsBecomes
<1> QED
  BY <1>1, <1>2, <1>3 DEF Event

(* What Update does.                                                        *)
LEMMA UpdateMoved ==
  ASSUME NEW s, NEW st, NEW rest, rest \subseteq net, Update(s, st, rest)
  PROVE  Moved(streams, net, s, st, streams', net')
BY DEF Update, Moved, Sent

(* A stream there is, and one there is not.                                 *)
LEMMA IsOrNot ==
  ASSUME NEW S, NEW N, NEW pos, World(S, N, pos), NEW s \in StreamIDs
  PROVE  /\ Is(S, s) => Sends(s, S[s], pos[s]) /\ Waits(S[s]) /\ S[s].out = {}
         /\ ~Is(S, s) => /\ S[s] = NoStream /\ S[s].inTable = FALSE /\ S[s].posted = <<>>
                         /\ S[s].resendSet = FALSE /\ S[s].acks = 0 /\ S[s].delivered = <<>>
                         /\ S[s].peer = NoID
<1>1. Is(S, s) => Sends(s, S[s], pos[s]) /\ Waits(S[s]) /\ S[s].out = {}
  BY DEF World
<1>2. ~Is(S, s) => S[s] = NoStream
  BY IDs DEF World, Is
<1>3. /\ NoStream.inTable = FALSE /\ NoStream.posted = <<>> /\ NoStream.resendSet = FALSE
      /\ NoStream.acks = 0 /\ NoStream.delivered = <<>> /\ NoStream.peer = NoID
  BY DEF NoStream, NewStream
<1> QED
  BY <1>1, <1>2, <1>3

Happens(S, N, pos, S2, N2) ==
  \/ S2 = S /\ N2 \subseteq N
  \/ \E s \in StreamIDs : \E r, pos2 : /\ Event(S, N, pos, s, r, pos2)
                                       /\ Moved(S, N, s, r, S2, N2)

(* A step that acts.                                                        *)
LEMMA ActHappens ==
  ASSUME NEW pos, NEW s \in StreamIDs, Is(streams, s), NEW r,
         \E pos2 : Acts(s, streams[s], pos[s], r, pos2), Update(s, r, net)
  PROVE  Happens(streams, net, pos, streams', net')
<1>1. Moved(streams, net, s, r, streams', net')
  BY UpdateMoved
<1> QED
  BY <1>1 DEF Happens, Event

(* The actions that take no packet.                                         *)
LEMMA ActionsHappen ==
  ASSUME NEW pos, World(streams, net, pos), NEW s \in StreamIDs
  PROVE  /\ (\E n \in WriteSizes : AsyncSend(s, n)) => Happens(streams, net, pos, streams', net')
         /\ AppClose(s) => Happens(streams, net, pos, streams', net')
         /\ RunPosted(s) => Happens(streams, net, pos, streams', net')
         /\ ResendTimer(s) => Happens(streams, net, pos, streams', net')
         /\ AckSendTimer(s) => Happens(streams, net, pos, streams', net')
<1>1. PICK st : st = streams[s]
  OBVIOUS
<1>2. Is(streams, s) => Sends(s, st, pos[s]) /\ Waits(st) /\ st.out = {}
  BY <1>1, IsOrNot
<1>3. ~Is(streams, s) => /\ st.posted = <<>> /\ st.resendSet = FALSE /\ st.acks = 0
  BY <1>1, IsOrNot
<1>4. ASSUME NEW n \in WriteSizes, AsyncSend(s, n)
      PROVE  Happens(streams, net, pos, streams', net')
  <2>1. Is(streams, s) /\ ~st.closing /\ n \in Nat
    BY <1>1, <1>4, ConstantsAssumption DEF AsyncSend, Exists, Is
  <2>2. Update(s, AsyncSent(s, st, n), net)
    BY <1>1, <1>4, Zenon DEF AsyncSend, AsyncSent, UnitsOf
  <2>3. \E pos2 : Acts(s, st, pos[s], AsyncSent(s, st, n), pos2)
    BY <1>2, <2>1, AsyncSendActs
  <2> QED
    BY <1>1, <2>1, <2>2, <2>3, ActHappens
<1>5. ASSUME AppClose(s)
      PROVE  Happens(streams, net, pos, streams', net')
  <2>1. Is(streams, s)
    BY <1>5 DEF AppClose, Exists, Is
  <2>2. Update(s, AppClosed(s, st), net)
    BY <1>1, <1>5, Zenon DEF AppClose, AppClosed
  <2>3. \E pos2 : Acts(s, st, pos[s], AppClosed(s, st), pos2)
    BY <1>2, <2>1, AppCloseActs
  <2> QED
    BY <1>1, <2>1, <2>2, <2>3, ActHappens
<1>6. ASSUME RunPosted(s)
      PROVE  Happens(streams, net, pos, streams', net')
  <2>1. st.posted # <<>>
    BY <1>1, <1>6 DEF RunPosted
  <2>2. Is(streams, s)
    BY <1>3, <2>1
  <2>3. Update(s, RanPosted(s, st), net)
    BY <1>1, <1>6, Zenon DEF RunPosted, RanPosted
  <2>4. \E pos2 : Acts(s, st, pos[s], RanPosted(s, st), pos2)
    BY <1>2, <2>1, <2>2, RunPostedActs
  <2> QED
    BY <1>1, <2>2, <2>3, <2>4, ActHappens
<1>7. ASSUME ResendTimer(s)
      PROVE  Happens(streams, net, pos, streams', net')
  <2>1. st.resendSet
    BY <1>1, <1>7 DEF ResendTimer
  <2>2. Is(streams, s)
    BY <1>3, <2>1
  <2>3. st.status # "New"
    BY <1>2, <2>1, <2>2 DEF Sends, Stages
  <2>4. PICK old \in SUBSET st.sent : Update(s, HandleResendTimer(s, st, old), net)
    BY <1>1, <1>7 DEF ResendTimer
  <2>5. \E pos2 : Acts(s, st, pos[s], HandleResendTimer(s, st, old), pos2)
    BY <1>2, <2>2, <2>3, ResendTimerActs
  <2> QED
    BY <1>1, <2>2, <2>4, <2>5, ActHappens
<1>8. ASSUME AckSendTimer(s)
      PROVE  Happens(streams, net, pos, streams', net')
  <2>1. st.acks > 0
    BY <1>1, <1>8 DEF AckSendTimer
  <2>2. st.acks # 0
    BY <2>1
  <2>3. Is(streams, s)
    BY <1>3, <2>2
  <2>4. Update(s, HandleAckSendTimer(s, st), net)
    BY <1>1, <1>8 DEF AckSendTimer
  <2>5. \E pos2 : Acts(s, st, pos[s], HandleAckSendTimer(s, st), pos2)
    BY <1>2, <2>2, <2>3, AckSendTimerActs
  <2> QED
    BY <1>1, <2>3, <2>4, <2>5, ActHappens
<1> QED
  BY <1>4, <1>5, <1>6, <1>7, <1>8

(* Receive.                                                                 *)
LEMMA ReceiveHappens ==
  ASSUME NEW pos, World(streams, net, pos), NEW p \in net, NEW rest, rest \subseteq net,
         Receive(p, rest)
  PROVE  Happens(streams, net, pos, streams', net')
<1>1. /\ p \in PacketType /\ p.from \in StreamIDs /\ Is(streams, p.from)
      /\ OwnPacket(p.from, streams[p.from].seqn, streams[p.from].written, pos[p.from], p)
  BY DEF World
<1>2. p.syn \in BOOLEAN
  BY <1>1 DEF PacketType
<1>3. CASE ~IsNewStream(p) /\ Target(p) = {} /\ net' = rest /\ UNCHANGED streams
  BY <1>3 DEF Happens
<1>4. CASE ~IsNewStream(p) /\ \E s \in Target(p), grow \in BOOLEAN :
          Update(s, HandleNextPacket(s, streams[s], p, grow), rest)
  <2>1. PICK s \in Target(p), grow \in BOOLEAN :
          Update(s, HandleNextPacket(s, streams[s], p, grow), rest)
    BY <1>4
  <2>2. /\ s \in Local(p) /\ streams[s].inTable
        /\ p.to # NoID => s = p.to
        /\ p.to = NoID => streams[s].peer = p.from
    BY <2>1 DEF Target
  <2>3. /\ p.from = Outgoing => s \in Incoming
        /\ p.from # Outgoing => s = Outgoing
        /\ s \in StreamIDs
    BY <2>2, IDs DEF Local
  <2>4. Is(streams, s) /\ streams[s].inTable = TRUE
    <3>1. Is(streams, s)
      BY <2>2, <2>3, IsOrNot
    <3>2. streams[s].inTable \in BOOLEAN
      BY <2>3, <3>1, IsOrNot, SendsFacts
    <3> QED
      BY <2>2, <3>1, <3>2
  <2>5. s \in Incoming => p.from = Outgoing /\ p.syn = FALSE
    <3>1. ASSUME s \in Incoming, p.syn = TRUE
          PROVE  FALSE
      <4>1. p.from = Outgoing
        BY <2>3, <3>1, IDs
      <4>2. p.seqn = 0 /\ p.to = NoID
        BY <1>1, <3>1, <4>1 DEF OwnPacket
      <4> QED
        BY <1>4, <3>1, <4>2 DEF IsNewStream
    <3>2. s \in Incoming => p.from = Outgoing
      BY <2>3, IDs
    <3> QED
      BY <1>2, <3>1, <3>2
  <2>6. s = Outgoing => p.from \in Incoming
    BY <1>1, <2>3, IDs
  <2>7. Finds(streams, p, s)
    BY <2>2, <2>4, <2>5, <2>6 DEF Finds
  <2>8. PICK st, n, w, cut : st = streams[s] /\ n = streams[Outgoing].seqn
                             /\ w = streams[Outgoing].written /\ cut = pos[Outgoing]
    OBVIOUS
  <2>9. n \in Nat /\ w \in Seq(Units) /\ Cut(n, w, cut)
    <3>1. Sends(Outgoing, streams[Outgoing], cut)
      BY <2>8, IDs DEF World
    <3> QED
      BY <2>8, <3>1, SendsFacts
  <2>10. Sends(s, st, pos[s]) /\ Waits(st)
    BY <2>3, <2>4, <2>8, IsOrNot
  <2>11. st.status # "New"
    <3>1. s \in Incoming => st.status # "New"
      BY <2>4, <2>8 DEF World
    <3>2. s = Outgoing => st.status # "New"
      BY <2>8 DEF World
    <3> QED
      BY <2>3, <3>1, <3>2, IDs
  <2>12. p.from \in Nat /\ p.from # NoID
    BY <1>1, IDs
  <2>13. PICK r : r = HandleNextPacket(s, st, p, grow)
    OBVIOUS
  <2>14. PICK pos2 : Receives(s, st, pos[s], p, r, pos2, n, w, cut)
    BY <1>1, <2>3, <2>9, <2>10, <2>11, <2>12, <2>13, HandleReceives
  <2>15. Moved(streams, net, s, r, streams', net')
    BY <2>1, <2>8, <2>13, UpdateMoved
  <2>16. Event(streams, net, pos, s, r, pos2)
    BY <2>4, <2>7, <2>8, <2>14 DEF Event
  <2> QED
    BY <2>3, <2>15, <2>16 DEF Happens
<1> QED
  BY <1>3, <1>4 DEF Receive

(* Accept.                                                                  *)
LEMMA AcceptHappens ==
  ASSUME NEW pos, World(streams, net, pos), NEW p \in net, NEW rest, rest \subseteq net,
         Accept(p, rest)
  PROVE  Happens(streams, net, pos, streams', net')
<1>1. /\ p \in PacketType /\ p.from \in StreamIDs /\ Is(streams, p.from)
      /\ OwnPacket(p.from, streams[p.from].seqn, streams[p.from].written, pos[p.from], p)
  BY DEF World
<1>2. p.syn \in BOOLEAN /\ p.fin \in BOOLEAN
  BY <1>1 DEF PacketType
<1>3. p.to = NoID /\ p.syn /\ p.seqn = 0
  BY DEF Accept, IsNewStream
<1>4. p.from = Outgoing
  BY <1>1, <1>3 DEF OwnPacket, NoID, Outgoing
<1>5. p.syn = TRUE /\ p.fin = FALSE
  BY <1>1, <1>2, <1>3 DEF OwnPacket
<1>6. PICK s : s = Min({t \in Incoming : ~Exists(t)})
  OBVIOUS
<1>7. s \in Incoming /\ ~Is(streams, s)
  <2>1. {t \in Incoming : ~Exists(t)} # {}
    BY DEF Accept
  <2>2. {t \in Incoming : ~Exists(t)} \subseteq Nat
    BY IDs
  <2>3. s \in {t \in Incoming : ~Exists(t)}
    BY <1>6, <2>1, <2>2, NatMin
  <2> QED
    BY <2>3 DEF Exists, Is
<1>8. PICK accept \in AcceptorSet :
        Update(s, Begun(HandleNextPacket(s, NewStream, p, FALSE), accept), rest)
  BY <1>6, Zenon DEF Accept, Begun
<1>9. accept \in BOOLEAN
  BY ConstantsAssumption
<1>10. PICK n, w, cut : n = streams[Outgoing].seqn
                        /\ w = streams[Outgoing].written /\ cut = pos[Outgoing]
  OBVIOUS
<1>11. n \in Nat /\ w \in Seq(Units) /\ Cut(n, w, cut)
  <2>1. Sends(Outgoing, streams[Outgoing], cut)
    BY <1>10, IDs DEF World
  <2> QED
    BY <1>10, <2>1, SendsFacts
<1>12. s \in StreamIDs /\ s # Outgoing /\ pos[s] \in [Nat -> Nat] /\ pos[s][0] = 0
  BY <1>7, IDs DEF World
<1>13. PICK r : r = Begun(HandleNextPacket(s, NewStream, p, FALSE), accept)
  OBVIOUS
<1>14. PICK pos2 : Accepts(s, p, r, pos2, n, w, cut)
  BY <1>1, <1>3, <1>4, <1>5, <1>9, <1>11, <1>12, <1>13, HandleAccepts
<1>15. Moved(streams, net, s, r, streams', net')
  BY <1>8, <1>13, UpdateMoved
<1>16. Event(streams, net, pos, s, r, pos2)
  BY <1>3, <1>4, <1>7, <1>10, <1>14 DEF Event
<1> QED
  BY <1>12, <1>15, <1>16 DEF Happens

(* Every step of the specification.                                         *)
LEMMA NextHappens ==
  ASSUME NEW pos, World(streams, net, pos), [Next]_vars
  PROVE  Happens(streams, net, pos, streams', net')
<1>1. CASE UNCHANGED vars
  BY <1>1 DEF vars, Happens
<1>2. CASE \E s \in StreamIDs :
             \/ \E n \in WriteSizes : AsyncSend(s, n)
             \/ AppClose(s) \/ RunPosted(s) \/ ResendTimer(s) \/ AckSendTimer(s)
  BY <1>2, ActionsHappen
<1>3. CASE Deliver
  <2>1. PICK p \in net : Receive(p, net \ {p}) \/ Accept(p, net \ {p})
    BY <1>3 DEF Deliver
  <2>2. net \ {p} \subseteq net
    OBVIOUS
  <2> QED
    BY <2>1, <2>2, ReceiveHappens, AcceptHappens
<1>4. CASE DeliverTwice
  <2>1. PICK p \in net : Receive(p, net) \/ Accept(p, net)
    BY <1>4 DEF DeliverTwice
  <2>2. net \subseteq net
    OBVIOUS
  <2> QED
    BY <2>1, <2>2, ReceiveHappens, AcceptHappens
<1> QED
  BY <1>1, <1>2, <1>3, <1>4 DEF Next

(* The first invariant is kept by every step.                               *)
LEMMA WorldKept ==
  ASSUME NEW S, NEW N, NEW pos, World(S, N, pos), NEW S2, NEW N2, Happens(S, N, pos, S2, N2)
  PROVE  \E pos3 : World(S2, N2, pos3)
<1>1. CASE S2 = S /\ N2 \subseteq N
  <2>1. World(S2, N2, pos)
    BY <1>1 DEF World
  <2> QED
    BY <2>1
<1>2. CASE \E s \in StreamIDs : \E r, pos2 : /\ Event(S, N, pos, s, r, pos2)
                                             /\ Moved(S, N, s, r, S2, N2)
  <2>0. PICK s \in StreamIDs : \E r, pos2 : /\ Event(S, N, pos, s, r, pos2)
                                           /\ Moved(S, N, s, r, S2, N2)
    BY <1>2
  <2>1. PICK r, pos2 : Event(S, N, pos, s, r, pos2) /\ Moved(S, N, s, r, S2, N2)
    BY <2>0
  <2>2. Becomes(S, N, pos, s, r, pos2, S2, N2, Placed(pos, s, pos2))
    BY <2>1, EventBecomes
  <2>3. World(S2, N2, Placed(pos, s, pos2))
    BY <2>2, WorldStep
  <2> QED
    BY <2>3
<1> QED
  BY <1>1, <1>2 DEF Happens

-----------------------------------------------------------------------------
(* The invariant holds, and what follows from it.                           *)

SomeWorld == \E pos : World(streams, net, pos)

(* The places are all 0 at first.                                           *)
LEMMA InitWorld == Init => SomeWorld
<1> SUFFICES ASSUME Init
             PROVE  SomeWorld
  OBVIOUS
<1>1. PICK none \in [Nat -> Nat] : none[0] = 0
  <2>1. [i \in Nat |-> 0] \in [Nat -> Nat] /\ [i \in Nat |-> 0][0] = 0
    OBVIOUS
  <2> QED
    BY <2>1
<1>2. PICK pos : pos = [s \in StreamIDs |-> none]
  OBVIOUS
<1>3. pos \in [StreamIDs -> [Nat -> Nat]] /\ \A s \in StreamIDs : pos[s] = none
  BY <1>1, <1>2
<1>4. streams = [s \in StreamIDs |-> IF s = Outgoing THEN NewStream ELSE NoStream] /\ net = {}
  BY DEF Init
<1>5. streams[Outgoing] = NewStream /\ \A s \in Incoming : streams[s] = NoStream
  BY <1>4, IDs
<1>6. streams \in [StreamIDs -> StreamType \cup {NoStream}]
  BY <1>4, NewStreamType
<1>7. \A s \in Incoming : ~Is(streams, s)
  BY <1>5, IDs DEF Is
<1>8. Is(streams, Outgoing) /\ streams[Outgoing].status = "New"
  BY <1>5, NewStreamType DEF Is
<1>9. Sends(Outgoing, NewStream, none) /\ Waits(NewStream) /\ NewStream.out = {}
  <2>1. PeerSet(NewStream, NewStream, NoID)
    BY NewStreamType DEF PeerSet
  <2> QED
    BY <1>1, <2>1, IDs, NewStreamType, NewStreamSends
<1>10. \A s \in StreamIDs :
         Is(streams, s) => Sends(s, streams[s], pos[s]) /\ Waits(streams[s]) /\ streams[s].out = {}
  BY <1>3, <1>5, <1>7, <1>9, IDs
<1>11. World(streams, net, pos)
  BY <1>1, <1>3, <1>4, <1>6, <1>7, <1>8, <1>10 DEF World
<1> QED
  BY <1>11 DEF SomeWorld

(* A step moves the places.                                                 *)
LEMMA StepWorld == SomeWorld /\ [Next]_vars => SomeWorld'
<1> SUFFICES ASSUME SomeWorld, [Next]_vars
             PROVE  SomeWorld'
  OBVIOUS
<1>1. PICK pos : World(streams, net, pos)
  BY DEF SomeWorld
<1>2. Happens(streams, net, pos, streams', net')
  BY <1>1, NextHappens
<1>3. \E pos3 : World(streams', net', pos3)
  BY <1>1, <1>2, WorldKept
<1> QED
  BY <1>3 DEF SomeWorld

(* The part before any unit is a prefix.                                    *)
LEMMA PrefixOf ==
  ASSUME NEW w \in Seq(Units), NEW b \in Nat, b <= Len(w)
  PROVE  IsPrefix(SubSeq(w, 1, b), w)
<1>1. PICK o \in Nat : o = 0
  OBVIOUS
<1>2. PICK x : x = SubSeq(w, o + 1, b)
  OBVIOUS
<1>3. x \in Seq(Units) /\ Len(x) = b /\ \A i \in 1 .. b : x[i] = w[i]
  BY <1>1, <1>2, PartOf
<1>4. x = SubSeq(w, 1, b)
  BY <1>1, <1>2
<1>5. Len(x) <= Len(w) /\ \A i \in 1 .. Len(x) : x[i] = w[i]
  BY <1>3
<1> QED
  BY <1>3, <1>4, <1>5 DEF IsPrefix

(* What is delivered is a part from the first unit on.                      *)
LEMMA WorldServerInOrder == SomeWorld => ServerInOrder
<1> SUFFICES ASSUME SomeWorld, NEW s \in Incoming
             PROVE  IsPrefix(streams[s].delivered, streams[Outgoing].written)
  BY DEF ServerInOrder
<1>1. PICK pos : World(streams, net, pos)
  BY DEF SomeWorld
<1>2. PICK n, w, cut : n = streams[Outgoing].seqn
                       /\ w = streams[Outgoing].written /\ cut = pos[Outgoing]
  OBVIOUS
<1>3. n \in Nat /\ w \in Seq(Units) /\ Cut(n, w, cut)
  <2>1. Sends(Outgoing, streams[Outgoing], cut)
    BY <1>1, <1>2, IDs DEF World
  <2> QED
    BY <1>2, <2>1, SendsFacts
<1>4. CASE Is(streams, s)
  <2>1. PICK l \in Nat : l = streams[s].last /\ l < n
    BY <1>1, <1>2, <1>4 DEF World, Listens
  <2>2. streams[s].delivered = SubSeq(w, 1, cut[l + 1])
    BY <1>1, <1>2, <1>4, <2>1 DEF World, Listens, InOrder
  <2>3. PICK k \in Nat : k = l + 1 /\ k <= n
    BY <1>3, <2>1
  <2>4. PICK b \in Nat : b = cut[k] /\ b <= Len(w)
    <3>1. cut[k] \in Nat /\ cut[n] \in Nat /\ cut[n] <= Len(w) /\ cut[k] <= cut[n]
      BY <1>3, <2>3, CutFacts, Zenon
    <3>2. PICK c \in Nat, d \in Nat, m \in Nat : c = cut[k] /\ d = cut[n] /\ m = Len(w)
      BY <1>3, <3>1
    <3>3. d <= m /\ c <= d
      BY <3>1, <3>2
    <3>4. c <= m
      BY <3>3
    <3> QED
      BY <3>2, <3>4
  <2>5. IsPrefix(SubSeq(w, 1, b), w)
    BY <1>3, <2>4, PrefixOf
  <2> QED
    BY <1>2, <2>2, <2>3, <2>4, <2>5
<1>5. CASE ~Is(streams, s)
  <2>1. streams[s].delivered = <<>>
    BY <1>1, <1>5, IDs, IsOrNot
  <2>2. PICK o \in Nat : o = 0
    OBVIOUS
  <2>3. SubSeq(w, 1, o) = <<>> /\ o <= Len(w)
    BY <1>3, <2>2, EmptyPart
  <2>4. IsPrefix(SubSeq(w, 1, o), w)
    BY <1>3, <2>2, <2>3, PrefixOf
  <2> QED
    BY <1>2, <2>1, <2>3, <2>4
<1> QED
  BY <1>4, <1>5

(* The first invariant says what a stream waits for.                        *)
LEMMA WorldNoStall == SomeWorld => NoStall
<1> SUFFICES ASSUME SomeWorld, NEW s \in StreamIDs,
                    streams[s].status \in {"Open", "Closing"}, ~streams[s].eof,
                    streams[s].sent = {}
             PROVE  \E i \in DOMAIN streams[s].posted :
                      streams[s].posted[i].task = "SendBuffer"
  BY DEF NoStall
<1>1. PICK pos : World(streams, net, pos)
  BY DEF SomeWorld
<1>2. Is(streams, s)
  BY DEF Is
<1>3. Waits(streams[s])
  BY <1>1, <1>2, IsOrNot
<1>4. [task |-> "SendBuffer"] \in Range(streams[s].posted)
  BY <1>3 DEF Waits
<1>5. PICK i \in DOMAIN streams[s].posted : streams[s].posted[i] = [task |-> "SendBuffer"]
  BY <1>4 DEF Range
<1> QED
  BY <1>5

(* The first invariant.                                                     *)
LEMMA SpecWorld == Spec => []SomeWorld
<1>1. Init => SomeWorld
  BY InitWorld
<1>2. SomeWorld /\ [Next]_vars => SomeWorld'
  BY StepWorld
<1> QED
  BY <1>1, <1>2, PTL DEF Spec

(* What an accepted stream hands to its reader is a prefix of what the      *)
(* opening side wrote: HandleNextPacket, SavePacket and ProcessPacket keep  *)
(* the order however packets are lost, delayed, resent and duplicated.      *)
THEOREM SpecServerInOrder == Spec => []ServerInOrder
  BY SpecWorld, WorldServerInOrder, PTL

(* An established stream with data left in its buffer has a packet that     *)
(* waits for its ack or a SendBuffer posted: no step of SendBuffer,         *)
(* ProcessAck, the timers or Close leaves it with neither.                  *)
THEOREM SpecNoStall == Spec => []NoStall
  BY SpecWorld, WorldNoStall, PTL

-----------------------------------------------------------------------------
(* Acks.  Heeds and Safe are the second invariant.                          *)

(* What the other side has of the packets of the stream that was opened,    *)
(* while that stream is in its table.                                       *)
Unheard(S) ==
  S[Outgoing].peer = NoID =>
    S[Outgoing].seqn <= 1 /\ \A n \in Nat : n < S[Outgoing].seqn => Tracked(S[Outgoing], n)

(* Only the stream that answered first is sent more than the SYN.           *)
Spare(S) ==
  \A t \in Incoming : Is(S, t) /\ t # S[Outgoing].peer => S[t].last = 0 /\ S[t].saved = {}

OutPackets(S, N) == {p \in PacketType : p \in Own(S[Outgoing]) \/ (p \in N /\ p.from = Outgoing)}
Addressed(S, N) ==
  \A p \in OutPackets(S, N) : p.seqn # 0 => p.to = S[Outgoing].peer /\ p.to # NoID

Kept(S) ==
  S[Outgoing].peer # NoID =>
    /\ S[Outgoing].peer \in Incoming /\ Is(S, S[Outgoing].peer)
    /\ \A n \in Nat : n < S[Outgoing].seqn =>
         \/ n \in Has(S[S[Outgoing].peer])
         \/ Tracked(S[Outgoing], n)
         \/ /\ n + 1 = S[Outgoing].seqn
            /\ S[Outgoing].status = "Closing" /\ S[Outgoing].eof

InPackets(S, N, t) == {p \in PacketType : p \in Own(S[t]) \/ (p \in N /\ p.from = t)}
AcksHeld(S, N) ==
  \A t \in Incoming : Is(S, t) => \A p \in InPackets(S, N, t) : AckHeld(S[t], p)

Heeds(S, N) ==
  S[Outgoing].inTable =>
    Unheard(S) /\ Spare(S) /\ Addressed(S, N) /\ Kept(S) /\ AcksHeld(S, N)

(* What was sent is kept or has been received, or was nothing.              *)
Safe(S, pos) ==
  \A n \in Nat : n < S[Outgoing].seqn =>
    \/ pos[Outgoing][n + 1] = pos[Outgoing][n]
    \/ Tracked(S[Outgoing], n)
    \/ \E t \in Incoming : Is(S, t) /\ n \in Has(S[t])

(* The packets that are missing before one that is saved are still kept by  *)
(* their sender, up to one.                                                 *)
LEMMA MissingFew ==
  ASSUME MAX_WINDOW_SIZE + 1 < MaxNacks, NEW o, NEW pos, Sends(Outgoing, o, pos),
         NEW x, x.last \in Nat, \A q \in x.saved : q.seqn \in Nat /\ q.seqn < o.seqn,
         \A n \in Nat : n < o.seqn => n \in Has(x) \/ Tracked(o, n) \/ n + 1 = o.seqn
  PROVE  FewMissing(x)
<1> SUFFICES ASSUME NEW n \in Saved(x)
             PROVE  Cardinality(Missing(x, n)) < MaxNacks
  BY DEF FewMissing
<1>1. o \in StreamType /\ o.seqn \in Nat /\ IsFiniteSet(o.sent)
      /\ Cardinality(o.sent) <= MAX_WINDOW_SIZE
  BY DEF Sends, Window, StreamType
<1>2. n \in Nat /\ n < o.seqn
  BY DEF Saved
<1>3. PICK P, T : P = o.sent /\ T = {q.seqn : q \in P}
  OBVIOUS
<1>4. IsFiniteSet(T) /\ Cardinality(T) <= Cardinality(P)
  <2>1. PICK g : g = [q \in P |-> q.seqn]
    OBVIOUS
  <2>2. g \in Surjection(P, T)
    BY <1>3, <2>1 DEF Surjection
  <2> QED
    BY <1>1, <1>3, <2>2, FS_Surjection
<1>5. PICK e \in Nat : e = o.seqn
  BY <1>1
<1>6. PICK U : U = T \cup {e - 1}
  OBVIOUS
<1>7. IsFiniteSet(U) /\ Cardinality(U) <= Cardinality(T) + 1
  <2>1. PICK y : y = e - 1
    OBVIOUS
  <2>2. IsFiniteSet(T \cup {y}) /\ Cardinality(T \cup {y}) =
          IF y \in T THEN Cardinality(T) ELSE Cardinality(T) + 1
    BY <1>4, FS_AddElement, Zenon
  <2>3. Cardinality(T) \in Nat
    BY <1>4, FS_CardinalityType
  <2> QED
    BY <1>6, <2>1, <2>2, <2>3
<1>8. Missing(x, n) \subseteq U
  <2>1. SUFFICES ASSUME NEW m \in Missing(x, n)
                 PROVE  m \in U
    OBVIOUS
  <2>2. PICK l \in Nat : l = x.last
    OBVIOUS
  <2>3. m \in l + 1 .. n /\ m \notin {q.seqn : q \in x.saved}
    BY <2>1, <2>2 DEF Missing
  <2>4. m \in Nat /\ m > l /\ m < e
    BY <1>2, <1>5, <2>2, <2>3
  <2>5. m \notin 0 .. x.last
    BY <2>2, <2>4
  <2>6. m \notin Has(x)
    BY <2>3, <2>5 DEF Has
  <2>7. Tracked(o, m) \/ m + 1 = e
    BY <1>5, <2>4, <2>6
  <2>8. Tracked(o, m) => m \in T
    BY <1>3 DEF Tracked
  <2>9. m + 1 = e => m = e - 1
    BY <2>4
  <2> QED
    BY <1>6, <2>7, <2>8, <2>9
<1>9. IsFiniteSet(Missing(x, n)) /\ Cardinality(Missing(x, n)) <= Cardinality(U)
  BY <1>7, <1>8, FS_Subset
<1>10. PICK a, b, c, d : /\ a = Cardinality(Missing(x, n)) /\ b = Cardinality(U)
                         /\ c = Cardinality(T) /\ d = Cardinality(P)
  OBVIOUS
<1>11. a \in Nat /\ b \in Nat /\ c \in Nat /\ d \in Nat
  BY <1>1, <1>3, <1>4, <1>7, <1>9, <1>10, FS_CardinalityType
<1>12. a <= b /\ b <= c + 1 /\ c <= d /\ d <= MAX_WINDOW_SIZE
  BY <1>1, <1>3, <1>4, <1>7, <1>9, <1>10
<1>13. MAX_WINDOW_SIZE \in Nat /\ MaxNacks \in Nat
  BY ConstantsAssumption
<1>14. a < MaxNacks
  BY <1>11, <1>12, <1>13
<1> QED
  BY <1>10, <1>14

(* A step of the stream that was opened: it gives up what a packet of an    *)
(* accepted stream acknowledges, or nothing.                                *)
OutEvent(S, N, pos, r, pos2, D) ==
  /\ Turn(Outgoing, S[Outgoing], pos[Outgoing], r, pos2, D)
  /\ \/ D = {} /\ r.peer = S[Outgoing].peer /\ Short(S[Outgoing], r)
     \/ /\ S[Outgoing].inTable
        /\ \E t \in Incoming : \E p \in N :
             /\ Is(S, t) /\ p \in PacketType /\ p.from = t /\ D = AckedBy(p)
             /\ r.peer = IF S[Outgoing].peer = NoID THEN t ELSE S[Outgoing].peer

(* Every step of the stream that was opened is one of these.                *)
LEMMA OutEvents ==
  ASSUME NEW S, NEW N, NEW pos, World(S, N, pos), NEW r, NEW pos2,
         Event(S, N, pos, Outgoing, r, pos2)
  PROVE  \E D : OutEvent(S, N, pos, r, pos2, D)
<1>1. CASE Acts(Outgoing, S[Outgoing], pos[Outgoing], r, pos2)
  <2>1. /\ Turn(Outgoing, S[Outgoing], pos[Outgoing], r, pos2, {})
        /\ r.peer = S[Outgoing].peer /\ Short(S[Outgoing], r)
    BY <1>1 DEF Acts
  <2> QED
    BY <2>1, Zenon DEF OutEvent
<1>2. CASE \E p \in N : /\ Finds(S, p, Outgoing)
                        /\ Receives(Outgoing, S[Outgoing], pos[Outgoing], p, r, pos2,
                                    S[Outgoing].seqn, S[Outgoing].written, pos[Outgoing])
  <2>1. PICK p \in N : /\ Finds(S, p, Outgoing)
                       /\ Receives(Outgoing, S[Outgoing], pos[Outgoing], p, r, pos2,
                                   S[Outgoing].seqn, S[Outgoing].written, pos[Outgoing])
    BY <1>2
  <2>2. p \in PacketType /\ Is(S, p.from)
    BY DEF World
  <2>3. p.from \in Incoming /\ S[Outgoing].inTable
    BY <2>1, IDs DEF Finds
  <2>4. /\ Turn(Outgoing, S[Outgoing], pos[Outgoing], r, pos2, AckedBy(p))
        /\ r.peer = IF S[Outgoing].peer = NoID THEN p.from ELSE S[Outgoing].peer
    BY <2>1 DEF Receives
  <2> QED
    BY <2>2, <2>3, <2>4, Zenon DEF OutEvent
<1> QED
  BY <1>1, <1>2, IDs, Zenon DEF Event

(* What has been received is in two fields.                                 *)
LEMMA SameHas ==
  ASSUME NEW x, NEW y, y.last = x.last, y.saved = x.saved
  PROVE  Has(y) = Has(x) /\ FewMissing(y) = FewMissing(x) /\ \A p : AckHeld(y, p) = AckHeld(x, p)
BY DEF Has, AckHeld, FewMissing, Saved, Missing

(* An accepted stream forgets nothing.                                      *)
LEMMA HasMore ==
  ASSUME NEW S, NEW N, NEW pos, World(S, N, pos), NEW t \in Incoming, Is(S, t), NEW r, NEW pos2,
         Event(S, N, pos, t, r, pos2)
  PROVE  Has(S[t]) \subseteq Has(r) /\ AcksTrue(S[t], r)
<1>1. CASE Acts(t, S[t], pos[t], r, pos2)
  <2>1. Quiet(S[t], r) /\ AcksTrue(S[t], r)
    BY <1>1 DEF Acts
  <2>2. Has(r) = Has(S[t])
    BY <2>1, SameHas DEF Quiet
  <2> QED
    BY <2>1, <2>2
<1>2. CASE \E p \in N : /\ Finds(S, p, t)
                        /\ Receives(t, S[t], pos[t], p, r, pos2, S[Outgoing].seqn,
                                    S[Outgoing].written, pos[Outgoing])
  <2>1. PICK p \in N : /\ Finds(S, p, t)
                       /\ Receives(t, S[t], pos[t], p, r, pos2, S[Outgoing].seqn,
                                   S[Outgoing].written, pos[Outgoing])
    BY <1>2
  <2>2. p.syn = FALSE
    BY <2>1 DEF Finds
  <2>3. InTurn(S[t], p)
    BY <2>2 DEF InTurn
  <2>4. S[t].last >= 0
    BY DEF World, Listens
  <2>5. Hears(S[t], p, r, S[Outgoing].seqn, S[Outgoing].written, pos[Outgoing])
        /\ AcksTrue(S[t], r)
    BY <2>1, <2>3, <2>4 DEF Receives
  <2> QED
    BY <2>5 DEF Hears
<1> QED
  BY <1>1, <1>2, Zenon DEF Event

(* A stream that only the SYN reached.                                      *)
LEMMA SpareStays ==
  ASSUME NEW S, NEW N, NEW pos, World(S, N, pos), NEW t \in Incoming, NEW r, NEW pos2,
         Event(S, N, pos, t, r, pos2), Spare(S), Addressed(S, N),
         t # S[Outgoing].peer
  PROVE  r.last = 0 /\ r.saved = {}
<1>1. CASE Is(S, t) /\ Acts(t, S[t], pos[t], r, pos2)
  <2>1. Quiet(S[t], r)
    BY <1>1 DEF Acts
  <2>2. S[t].last = 0 /\ S[t].saved = {}
    BY <1>1 DEF Spare
  <2> QED
    BY <2>1, <2>2 DEF Quiet
<1>2. CASE Is(S, t) /\ \E p \in N : /\ Finds(S, p, t)
                                   /\ Receives(t, S[t], pos[t], p, r, pos2, S[Outgoing].seqn,
                                               S[Outgoing].written, pos[Outgoing])
  <2>1. PICK p \in N : /\ Finds(S, p, t)
                       /\ Receives(t, S[t], pos[t], p, r, pos2, S[Outgoing].seqn,
                                   S[Outgoing].written, pos[Outgoing])
    BY <1>2
  <2>2. p.syn = FALSE /\ p.from = Outgoing /\ (p.to # NoID => t = p.to) /\ p \in PacketType
    BY <2>1 DEF Finds, World
  <2>3. InTurn(S[t], p)
    BY <2>2 DEF InTurn
  <2>4. Hears(S[t], p, r, S[Outgoing].seqn, S[Outgoing].written, pos[Outgoing])
    BY <2>1, <2>3 DEF Receives
  <2>5. p \in OutPackets(S, N)
    BY <2>1, <2>2 DEF OutPackets
  <2>6. p.seqn = 0
    BY <2>2, <2>5 DEF Addressed
  <2>7. S[t].last = 0 /\ S[t].saved = {}
    BY <1>2 DEF Spare
  <2>8. r.saved = {}
    BY <2>4, <2>6, <2>7 DEF Hears
  <2>9. r.last = 0
    <3>1. Saved(S[t]) = {}
      BY <2>7 DEF Saved
    <3> QED
      BY <2>2, <2>4, <2>6, <2>7, <3>1 DEF Hears
  <2> QED
    BY <2>8, <2>9
<1>3. CASE ~Is(S, t) /\ \E p \in N : /\ p.from = Outgoing /\ p.seqn = 0
                                     /\ Accepts(t, p, r, pos2, S[Outgoing].seqn,
                                                S[Outgoing].written, pos[Outgoing])
  <2>1. PICK p \in N : /\ p.from = Outgoing /\ p.seqn = 0
                       /\ Accepts(t, p, r, pos2, S[Outgoing].seqn,
                                  S[Outgoing].written, pos[Outgoing])
    BY <1>3
  <2>2. r.last \in Nat /\ Hears(NewStream, p, r, S[Outgoing].seqn, S[Outgoing].written, pos[Outgoing])
    BY <2>1 DEF Accepts
  <2>3. NewStream.last = -1 /\ NewStream.saved = {}
    BY NewStreamType
  <2>4. r.saved = {}
    BY <2>1, <2>2, <2>3 DEF Hears
  <2>5. Saved(NewStream) = {}
    BY <2>3 DEF Saved
  <2>6. r.last = 0
    BY <2>1, <2>2, <2>3, <2>5 DEF Hears
  <2> QED
    BY <2>4, <2>6
<1> QED
  BY <1>1, <1>2, <1>3, Zenon DEF Event

(* What is given up, an accepted stream has.                                *)
LEMMA GivenUp ==
  ASSUME NEW S, NEW N, NEW pos, World(S, N, pos), Heeds(S, N), NEW r, NEW pos2, NEW D,
         OutEvent(S, N, pos, r, pos2, D)
  PROVE  \/ D = {} /\ r.peer = S[Outgoing].peer /\ Short(S[Outgoing], r)
         \/ \E t \in Incoming :
              /\ Is(S, t) /\ D \subseteq Has(S[t])
              /\ r.peer = IF S[Outgoing].peer = NoID THEN t ELSE S[Outgoing].peer
<1>1. CASE D = {} /\ r.peer = S[Outgoing].peer /\ Short(S[Outgoing], r)
  BY <1>1
<1>2. CASE /\ S[Outgoing].inTable
           /\ \E t \in Incoming : \E p \in N :
                /\ Is(S, t) /\ p \in PacketType /\ p.from = t /\ D = AckedBy(p)
                /\ r.peer = IF S[Outgoing].peer = NoID THEN t ELSE S[Outgoing].peer
  <2>1. PICK t \in Incoming : \E p \in N :
          /\ Is(S, t) /\ p \in PacketType /\ p.from = t /\ D = AckedBy(p)
          /\ r.peer = IF S[Outgoing].peer = NoID THEN t ELSE S[Outgoing].peer
    BY <1>2
  <2>2. PICK p \in N :
          /\ Is(S, t) /\ p \in PacketType /\ p.from = t /\ D = AckedBy(p)
          /\ r.peer = IF S[Outgoing].peer = NoID THEN t ELSE S[Outgoing].peer
    BY <2>1
  <2>3. AcksHeld(S, N)
    BY <1>2 DEF Heeds
  <2>4. p \in InPackets(S, N, t)
    BY <2>2 DEF InPackets
  <2>5. AckHeld(S[t], p)
    BY <2>2, <2>3, <2>4 DEF AcksHeld
  <2>6. D \subseteq Has(S[t])
    BY <2>2, <2>5 DEF AckHeld, AckedBy
  <2> QED
    BY <2>2, <2>6
<1> QED
  BY <1>1, <1>2, Zenon DEF OutEvent

(* The number 0 is that of the SYN.                                         *)
LEMMA HasSyn ==
  ASSUME NEW S, NEW N, NEW pos, World(S, N, pos), NEW t \in Incoming, Is(S, t)
  PROVE  S[t].last \in Nat /\ 0 \in Has(S[t])
<1>1. S[t].last \in Nat
  BY DEF World, Listens
<1> QED
  BY <1>1 DEF Has

(* Nothing but the SYN.                                                     *)
LEMMA OnlySyn ==
  ASSUME NEW x, x.last = 0, x.saved = {}, NEW n \in Has(x)
  PROVE  n = 0
BY DEF Has

(* What is tracked stays so or has been received.                           *)
LEMMA TrackedOrHeld ==
  ASSUME NEW S, NEW N, NEW pos, World(S, N, pos), Heeds(S, N), NEW r, NEW pos2, NEW D,
         OutEvent(S, N, pos, r, pos2, D), NEW n \in Nat, Tracked(S[Outgoing], n)
  PROVE  \/ Tracked(r, n)
         \/ \E t \in Incoming : Is(S, t) /\ n \in Has(S[t])
<1>1. PICK q \in S[Outgoing].sent : q.seqn = n
  BY DEF Tracked
<1>2. q \in r.sent \/ n \in D
  BY <1>1 DEF OutEvent, Turn
<1>3. q \in r.sent => Tracked(r, n)
  BY <1>1 DEF Tracked
<1>4. n \in D => \E t \in Incoming : Is(S, t) /\ n \in Has(S[t])
  BY GivenUp
<1> QED
  BY <1>2, <1>3, <1>4

(* What the packets of a step of Outgoing are.                              *)
LEMMA OutSends ==
  ASSUME NEW S, NEW N, NEW pos, World(S, N, pos), NEW r, NEW pos2, NEW D,
         OutEvent(S, N, pos, r, pos2, D), NEW S2, NEW N2, S2[Outgoing] = Sent(r),
         N2 \subseteq N \cup r.out, Own(Sent(r)) \subseteq Own(r),
         \A t \in Incoming : S2[t] = S[t]
  PROVE  /\ \A p \in OutPackets(S2, N2) :
              p \in OutPackets(S, N) \/ (p \in Own(r) /\ (p.seqn # 0 => p.to = r.peer))
         /\ \A t \in Incoming : InPackets(S2, N2, t) \subseteq InPackets(S, N, t)
<1>1. Sends(Outgoing, r, pos2)
  BY DEF OutEvent, Turn
<1>2. r.out \subseteq Own(r)
  BY <1>1 DEF Sends, StreamType, Own
<1>3. ASSUME NEW p \in Own(r)
      PROVE  p \in PacketType /\ p.from = Outgoing
             /\ (p \in Own(S[Outgoing]) \/ (p.seqn # 0 => p.to = r.peer))
  <2>1. p \in PacketType
    BY <1>3 DEF Own
  <2>2. p.from = Outgoing
    BY <1>1, <1>3 DEF Sends, Owns, OwnPacket
  <2>3. p \in Own(S[Outgoing]) \/ (p.seqn # 0 => p.to = r.peer)
    BY <1>3 DEF OutEvent, Turn
  <2> QED
    BY <2>1, <2>2, <2>3
<1>4. ASSUME NEW p \in OutPackets(S2, N2)
      PROVE  p \in OutPackets(S, N) \/ (p \in Own(r) /\ (p.seqn # 0 => p.to = r.peer))
  <2>1. p \in PacketType /\ (p \in Own(r) \/ (p \in N2 /\ p.from = Outgoing))
    BY <1>4 DEF OutPackets
  <2>2. p \in Own(r) \/ (p \in N /\ p.from = Outgoing)
    BY <1>2, <2>1
  <2>3. p \in N /\ p.from = Outgoing => p \in OutPackets(S, N)
    BY <2>1 DEF OutPackets
  <2>4. p \in Own(S[Outgoing]) => p \in OutPackets(S, N)
    BY <2>1 DEF OutPackets
  <2> QED
    BY <1>3, <2>2, <2>3, <2>4
<1>5. ASSUME NEW t \in Incoming, NEW p \in InPackets(S2, N2, t)
      PROVE  p \in InPackets(S, N, t)
  <2>1. p \in PacketType /\ (p \in Own(S[t]) \/ (p \in N2 /\ p.from = t))
    BY <1>5 DEF InPackets
  <2>2. p.from = t => p \notin Own(r)
    BY <1>3, IDs
  <2> QED
    BY <1>2, <2>1, <2>2 DEF InPackets
<1> QED
  BY <1>4, <1>5

(* A step of Outgoing that leaves it in its table.                          *)
OutStep(S, N, pos, r, pos2, D, S2, N2) ==
  /\ OutEvent(S, N, pos, r, pos2, D)
  /\ S2[Outgoing] = Sent(r) /\ N2 \subseteq N \cup r.out
  /\ \A t \in Incoming : S2[t] = S[t]

(* A step of the stream that was opened.                                    *)
LEMMA OutStepFacts ==
  ASSUME NEW S, NEW N, NEW pos, World(S, N, pos), NEW r, NEW pos2, NEW D, NEW S2, NEW N2,
         OutStep(S, N, pos, r, pos2, D, S2, N2)
  PROVE  /\ Sends(Outgoing, r, pos2) /\ Waits(r) /\ SameButOut(r, S2[Outgoing])
         /\ S[Outgoing].seqn \in Nat /\ r.seqn \in Nat /\ S[Outgoing].seqn <= r.seqn
         /\ r.inTable => S[Outgoing].inTable
         /\ Numbers(S[Outgoing], r)
         /\ \A i \in Nat : i <= S[Outgoing].seqn => pos2[i] = pos[Outgoing][i]
         /\ \A n \in Nat : S[Outgoing].seqn <= n /\ n < r.seqn =>
              pos2[n + 1] = pos2[n] \/ Tracked(r, n)
         /\ \A n : Tracked(S2[Outgoing], n) <=> Tracked(r, n)
         /\ \A p \in OutPackets(S2, N2) :
              p \in OutPackets(S, N) \/ (p \in Own(r) /\ (p.seqn # 0 => p.to = r.peer))
         /\ \A t \in Incoming : InPackets(S2, N2, t) \subseteq InPackets(S, N, t)
         /\ \A t \in Incoming : Is(S2, t) = Is(S, t)
<1>1. Sends(Outgoing, r, pos2) /\ Waits(r)
  BY DEF OutStep, OutEvent, Turn
<1>2. SameButOut(r, Sent(r)) /\ Own(Sent(r)) \subseteq Own(r)
  BY <1>1, SentIs, IDs
<1>3. r.seqn \in Nat
  BY <1>1 DEF Sends, StreamType
<1>4. S[Outgoing].seqn \in Nat
  <2>1. Sends(Outgoing, S[Outgoing], pos[Outgoing])
    BY IDs DEF World
  <2> QED
    BY <2>1 DEF Sends, StreamType
<1>5. /\ S[Outgoing].seqn <= r.seqn
      /\ r.inTable => S[Outgoing].inTable
      /\ Numbers(S[Outgoing], r)
      /\ \A i \in Nat : i <= S[Outgoing].seqn => pos2[i] = pos[Outgoing][i]
      /\ \A n \in Nat : S[Outgoing].seqn <= n /\ n < r.seqn =>
           pos2[n + 1] = pos2[n] \/ Tracked(r, n)
  BY DEF OutStep, OutEvent, Turn
<1>6. SameButOut(r, S2[Outgoing])
  BY <1>2 DEF OutStep
<1>7. \A n : Tracked(S2[Outgoing], n) <=> Tracked(r, n)
  BY <1>6 DEF Tracked, SameButOut
<1>8. /\ \A p \in OutPackets(S2, N2) :
           p \in OutPackets(S, N) \/ (p \in Own(r) /\ (p.seqn # 0 => p.to = r.peer))
      /\ \A t \in Incoming : InPackets(S2, N2, t) \subseteq InPackets(S, N, t)
  BY <1>2, OutSends DEF OutStep
<1>9. \A t \in Incoming : Is(S2, t) = Is(S, t)
  BY DEF OutStep, Is
<1> QED
  BY <1>1, <1>3, <1>4, <1>5, <1>6, <1>7, <1>8, <1>9

(* The only packet a stream keeps that has used one number is the SYN.      *)
LEMMA SynTracked ==
  ASSUME NEW r, NEW pos2, Sends(Outgoing, r, pos2), Waits(r), r.status = "Closing",
         r.peer = NoID, r.seqn <= 1
  PROVE  Tracked(r, 0)
<1>1. r.sent # {}
  BY DEF Waits
<1>2. PICK q \in r.sent : TRUE
  BY <1>1
<1>3. q \in PacketType /\ (q.seqn # 0 \/ q.syn)
  BY <1>2 DEF Sends, Window, StreamType
<1>4. q \in Own(r)
  BY <1>2, <1>3 DEF Own
<1>5. q.seqn < r.seqn /\ q.seqn \in Nat /\ r.seqn \in Nat
  BY <1>3, <1>4 DEF Sends, Owns, OwnPacket, PacketType, StreamType
<1>6. q.seqn = 0
  BY <1>5
<1> QED
  BY <1>2, <1>6 DEF Tracked

(* A stream nobody answered yet.                                            *)
LEMMA OutUnheard ==
  ASSUME NEW S, NEW N, NEW pos, World(S, N, pos), Heeds(S, N), NEW r, NEW pos2, NEW D,
         NEW S2, NEW N2, OutStep(S, N, pos, r, pos2, D, S2, N2), r.inTable, r.peer = NoID
  PROVE  /\ S[Outgoing].peer = NoID
         /\ r.seqn <= 1 /\ \A n \in Nat : n < r.seqn => Tracked(r, n)
<1> DEFINE o == S[Outgoing]
<1>1. D = {} /\ o.peer = NoID /\ Short(o, r)
  <2>1. OutEvent(S, N, pos, r, pos2, D)
    BY DEF OutStep
  <2>2. \A t \in Incoming : t # NoID
    BY IDs
  <2> QED
    BY <2>1, <2>2, GivenUp
<1>2. /\ Sends(Outgoing, r, pos2) /\ Waits(r) /\ o.seqn \in Nat /\ r.seqn \in Nat
      /\ o.inTable /\ Numbers(o, r)
  BY OutStepFacts
<1>3. o.seqn <= 1 /\ \A n \in Nat : n < o.seqn => Tracked(o, n)
  BY <1>1, <1>2 DEF Heeds, Unheard
<1>4. r.seqn = o.seqn \/ (o.seqn = 0 /\ r.seqn = 1)
  BY <1>1 DEF Short
<1>5. r.seqn <= 1
  BY <1>3, <1>4
<1>6. ASSUME NEW n \in Nat, n < r.seqn
      PROVE  Tracked(r, n)
  <2>1. CASE n < o.seqn
    <3>1. PICK q \in o.sent : q.seqn = n
      BY <1>3, <2>1 DEF Tracked
    <3>2. q \in r.sent
      BY <1>1, <3>1 DEF OutStep, OutEvent, Turn
    <3> QED
      BY <3>1, <3>2 DEF Tracked
  <2>2. CASE ~(n < o.seqn)
    <3>1. o.seqn <= n /\ n = 0
      BY <1>2, <1>5, <1>6, <2>2
    <3>2. Tracked(r, n) \/ r.status = "Closing"
      BY <1>2, <1>6, <3>1 DEF Numbers
    <3>3. r.status = "Closing" => Tracked(r, 0)
      BY <1>2, <1>5, SynTracked
    <3> QED
      BY <3>1, <3>2, <3>3
  <2> QED
    BY <2>1, <2>2
<1> QED
  BY <1>1, <1>5, <1>6

(* The peer of Outgoing has every number or it is tracked, but for the FIN. *)
LEMMA OutKept ==
  ASSUME NEW S, NEW N, NEW pos, World(S, N, pos), Heeds(S, N), NEW r, NEW pos2, NEW D,
         NEW S2, NEW N2, OutStep(S, N, pos, r, pos2, D, S2, N2), r.inTable, r.peer # NoID
  PROVE  /\ S[Outgoing].peer # NoID => r.peer = S[Outgoing].peer
         /\ r.peer \in Incoming /\ Is(S, r.peer)
         /\ \A n \in Nat : n < r.seqn =>
              \/ n \in Has(S[r.peer])
              \/ Tracked(r, n)
              \/ n + 1 = r.seqn /\ r.status = "Closing" /\ r.eof
<1> DEFINE o == S[Outgoing]
<1>1. OutEvent(S, N, pos, r, pos2, D)
  BY DEF OutStep
<1>2. /\ o.seqn \in Nat /\ r.seqn \in Nat /\ o.inTable /\ Numbers(o, r)
  BY OutStepFacts
<1>3. Unheard(S) /\ Spare(S) /\ Kept(S)
  BY <1>2 DEF Heeds
<1>4. \/ D = {} /\ r.peer = o.peer
      \/ \E t \in Incoming : /\ Is(S, t) /\ D \subseteq Has(S[t])
                             /\ r.peer = IF o.peer = NoID THEN t ELSE o.peer
  BY <1>1, GivenUp
<1>5. o.peer # NoID => r.peer = o.peer
  BY <1>4
<1>6. r.peer \in Incoming /\ Is(S, r.peer)
  <2>1. CASE o.peer # NoID
    BY <1>3, <1>5, <2>1 DEF Kept
  <2>2. CASE o.peer = NoID
    BY <1>4, <2>2
  <2> QED
    BY <2>1, <2>2
<1>7. 0 \in Has(S[r.peer])
  BY <1>6, HasSyn
<1>8. ASSUME NEW n \in D, n \in Nat
      PROVE  n \in Has(S[r.peer])
  <2>1. PICK t \in Incoming : /\ Is(S, t) /\ n \in Has(S[t])
                             /\ r.peer = IF o.peer = NoID THEN t ELSE o.peer
    BY <1>4, <1>8
  <2>2. CASE t = r.peer
    BY <2>1, <2>2
  <2>3. CASE t # r.peer
    <3>1. o.peer = r.peer
      BY <2>1, <2>3
    <3>2. S[t].last = 0 /\ S[t].saved = {}
      BY <1>3, <2>1, <2>3, <3>1 DEF Spare
    <3>3. n = 0
      BY <2>1, <3>2, OnlySyn
    <3> QED
      BY <1>7, <3>3
  <2> QED
    BY <2>2, <2>3
<1>9. ASSUME NEW n \in Nat, Tracked(o, n)
      PROVE  Tracked(r, n) \/ n \in Has(S[r.peer])
  <2>1. PICK q \in o.sent : q.seqn = n
    BY <1>9 DEF Tracked
  <2>2. q \in r.sent \/ n \in D
    BY <1>1, <2>1 DEF OutEvent, Turn
  <2>3. q \in r.sent => Tracked(r, n)
    BY <2>1 DEF Tracked
  <2> QED
    BY <1>8, <2>2, <2>3
<1>10. ASSUME NEW n \in Nat, n < r.seqn
       PROVE  \/ n \in Has(S[r.peer])
              \/ Tracked(r, n)
              \/ n + 1 = r.seqn /\ r.status = "Closing" /\ r.eof
  <2>1. CASE ~(n < o.seqn)
    <3>1. o.seqn <= n
      BY <1>2, <2>1
    <3> QED
      BY <1>2, <1>10, <3>1 DEF Numbers
  <2>2. CASE n < o.seqn /\ o.peer = NoID
    <3>1. Tracked(o, n)
      BY <1>3, <2>2 DEF Unheard
    <3> QED
      BY <1>9, <3>1
  <2>3. CASE n < o.seqn /\ o.peer # NoID
    <3>1. \/ n \in Has(S[o.peer])
          \/ Tracked(o, n)
          \/ n + 1 = o.seqn /\ o.status = "Closing" /\ o.eof
      BY <1>3, <2>3 DEF Kept
    <3>2. n \in Has(S[o.peer]) => n \in Has(S[r.peer])
      BY <1>5, <2>3
    <3>3. o.status = "Closing" /\ o.eof => r.status = "Closing" /\ r.eof /\ r.seqn = o.seqn
      BY <1>2 DEF Numbers
    <3> QED
      BY <1>9, <3>1, <3>2, <3>3
  <2> QED
    BY <2>1, <2>2, <2>3
<1> QED
  BY <1>5, <1>6, <1>10

(* The second invariant, for that stream.                                   *)
LEMMA OutHeeds ==
  ASSUME NEW S, NEW N, NEW pos, World(S, N, pos), Heeds(S, N), NEW r, NEW pos2, NEW D,
         NEW S2, NEW N2, OutStep(S, N, pos, r, pos2, D, S2, N2)
  PROVE  Heeds(S2, N2)
<1>1. SameButOut(r, S2[Outgoing]) /\ Sends(Outgoing, r, pos2)
  BY OutStepFacts
<1>2. /\ S2[Outgoing].inTable = r.inTable /\ S2[Outgoing].peer = r.peer
      /\ S2[Outgoing].seqn = r.seqn /\ S2[Outgoing].status = r.status
      /\ S2[Outgoing].eof = r.eof
  BY <1>1 DEF SameButOut
<1> SUFFICES ASSUME r.inTable
             PROVE  Unheard(S2) /\ Spare(S2) /\ Addressed(S2, N2) /\ Kept(S2) /\ AcksHeld(S2, N2)
  BY <1>2 DEF Heeds
<1>3. /\ S[Outgoing].inTable
      /\ \A n : Tracked(S2[Outgoing], n) <=> Tracked(r, n)
      /\ \A p \in OutPackets(S2, N2) :
           p \in OutPackets(S, N) \/ (p \in Own(r) /\ (p.seqn # 0 => p.to = r.peer))
      /\ \A t \in Incoming : InPackets(S2, N2, t) \subseteq InPackets(S, N, t)
      /\ \A t \in Incoming : Is(S2, t) = Is(S, t)
  BY OutStepFacts
<1>4. Unheard(S) /\ Spare(S) /\ Addressed(S, N) /\ Kept(S) /\ AcksHeld(S, N)
  BY <1>3 DEF Heeds
<1>5. \A t \in Incoming : S2[t] = S[t]
  BY DEF OutStep
<1>6. r.peer = NoID => /\ S[Outgoing].peer = NoID
                       /\ r.seqn <= 1 /\ \A n \in Nat : n < r.seqn => Tracked(r, n)
  BY OutUnheard
<1>7. r.peer # NoID =>
        /\ S[Outgoing].peer # NoID => r.peer = S[Outgoing].peer
        /\ r.peer \in Incoming /\ Is(S, r.peer)
        /\ \A n \in Nat : n < r.seqn =>
             \/ n \in Has(S[r.peer])
             \/ Tracked(r, n)
             \/ n + 1 = r.seqn /\ r.status = "Closing" /\ r.eof
  BY OutKept
<1>8. Unheard(S2)
  BY <1>2, <1>3, <1>6 DEF Unheard
<1>9. Spare(S2)
  <2>1. ASSUME NEW t \in Incoming, Is(S2, t), t # r.peer
        PROVE  S2[t].last = 0 /\ S2[t].saved = {}
    <3>1. t # S[Outgoing].peer
      BY <1>6, <1>7, <2>1, IDs
    <3> QED
      BY <1>3, <1>4, <1>5, <2>1, <3>1 DEF Spare
  <2> QED
    BY <1>2, <2>1 DEF Spare
<1>10. Addressed(S2, N2)
  <2>1. ASSUME NEW p \in OutPackets(S2, N2), p.seqn # 0
        PROVE  p.to = r.peer /\ p.to # NoID
    <3>1. CASE p \in OutPackets(S, N)
      <4>1. p.to = S[Outgoing].peer /\ p.to # NoID
        BY <1>4, <2>1, <3>1 DEF Addressed
      <4> QED
        BY <1>6, <1>7, <4>1
    <3>2. CASE p \in Own(r) /\ (p.seqn # 0 => p.to = r.peer)
      <4>1. p \in PacketType
        BY <3>2 DEF Own
      <4>2. p.seqn < r.seqn /\ p.seqn \in Nat /\ r.seqn \in Nat
        BY <1>1, <2>1, <3>2, <4>1 DEF Sends, Owns, OwnPacket, PacketType, StreamType
      <4>3. ~(r.seqn <= 1)
        BY <2>1, <4>2
      <4> QED
        BY <1>6, <2>1, <3>2, <4>3
    <3> QED
      BY <1>3, <3>1, <3>2
  <2> QED
    BY <1>2, <2>1 DEF Addressed
<1>11. Kept(S2)
  <2>1. ASSUME r.peer # NoID
        PROVE  /\ r.peer \in Incoming /\ Is(S2, r.peer)
               /\ \A n \in Nat : n < r.seqn =>
                    \/ n \in Has(S2[r.peer])
                    \/ Tracked(S2[Outgoing], n)
                    \/ n + 1 = r.seqn /\ r.status = "Closing" /\ r.eof
    BY <1>3, <1>5, <1>7, <2>1
  <2> QED
    BY <1>2, <2>1 DEF Kept
<1>12. AcksHeld(S2, N2)
  BY <1>3, <1>4, <1>5 DEF AcksHeld
<1> QED
  BY <1>8, <1>9, <1>10, <1>11, <1>12

(* What is given up has been received.                                      *)
LEMMA OutSafe ==
  ASSUME NEW S, NEW N, NEW pos, World(S, N, pos), Heeds(S, N), Safe(S, pos), NEW r, NEW pos2,
         NEW D, NEW S2, NEW N2, OutStep(S, N, pos, r, pos2, D, S2, N2), NEW pos3,
         pos3[Outgoing] = pos2
  PROVE  Safe(S2, pos3)
<1>1. /\ S2[Outgoing].seqn = r.seqn
      /\ S[Outgoing].seqn \in Nat /\ r.seqn \in Nat
      /\ \A i \in Nat : i <= S[Outgoing].seqn => pos2[i] = pos[Outgoing][i]
      /\ \A n \in Nat : S[Outgoing].seqn <= n /\ n < r.seqn =>
           pos2[n + 1] = pos2[n] \/ Tracked(r, n)
      /\ \A n : Tracked(S2[Outgoing], n) <=> Tracked(r, n)
      /\ \A t \in Incoming : Is(S2, t) = Is(S, t)
  BY OutStepFacts DEF SameButOut
<1>2. \A t \in Incoming : S2[t] = S[t]
  BY DEF OutStep
<1>3. OutEvent(S, N, pos, r, pos2, D)
  BY DEF OutStep
<1> SUFFICES ASSUME NEW n \in Nat, n < r.seqn
             PROVE  \/ pos2[n + 1] = pos2[n]
                    \/ Tracked(r, n)
                    \/ \E t \in Incoming : Is(S, t) /\ n \in Has(S[t])
  BY <1>1, <1>2 DEF Safe
<1>4. CASE ~(n < S[Outgoing].seqn)
  BY <1>1, <1>4
<1>5. CASE n < S[Outgoing].seqn
  <2>1. pos2[n] = pos[Outgoing][n] /\ pos2[n + 1] = pos[Outgoing][n + 1]
    BY <1>1, <1>5
  <2>2. \/ pos[Outgoing][n + 1] = pos[Outgoing][n]
        \/ Tracked(S[Outgoing], n)
        \/ \E t \in Incoming : Is(S, t) /\ n \in Has(S[t])
    BY <1>5 DEF Safe
  <2>3. Tracked(S[Outgoing], n) =>
          Tracked(r, n) \/ \E t \in Incoming : Is(S, t) /\ n \in Has(S[t])
    BY <1>3, TrackedOrHeld
  <2> QED
    BY <2>1, <2>2, <2>3
<1> QED
  BY <1>4, <1>5

(* A step of an accepted stream.                                            *)
InStep(S, N, pos, t, r, pos2, S2, N2) ==
  t \in Incoming /\ Event(S, N, pos, t, r, pos2) /\ Moved(S, N, t, r, S2, N2)

(* A step of an accepted stream.                                            *)
LEMMA InStepFacts ==
  ASSUME NEW S, NEW N, NEW pos, World(S, N, pos), NEW t, NEW r, NEW pos2, NEW S2, NEW N2,
         InStep(S, N, pos, t, r, pos2, S2, N2)
  PROVE  /\ S2[t].last = r.last /\ S2[t].saved = r.saved /\ Is(S2, t)
         /\ Has(S2[t]) = Has(r) /\ \A p : AckHeld(S2[t], p) = AckHeld(r, p)
         /\ \A u \in StreamIDs : u # t => S2[u] = S[u] /\ Is(S2, u) = Is(S, u)
         /\ S2[Outgoing] = S[Outgoing]
         /\ r \in StreamType /\ Listens(r, S[Outgoing].seqn, S[Outgoing].written, pos[Outgoing])
         /\ \A p \in r.out : p \in Own(r)
         /\ \A p \in Own(r) : p.from = t
         /\ Own(S2[t]) \subseteq Own(r) /\ N2 \subseteq N \cup r.out
<1>1. t \in Incoming /\ t \in StreamIDs /\ t # Outgoing
  BY IDs DEF InStep
<1>2. Becomes(S, N, pos, t, r, pos2, S2, N2, Placed(pos, t, pos2))
  BY <1>1, EventBecomes DEF InStep
<1>3. /\ S2[t] = Sent(r) /\ Is(S2, t)
      /\ \A u \in StreamIDs : u # t => S2[u] = S[u]
      /\ SameButOut(r, S2[t]) /\ Own(S2[t]) \subseteq Own(r)
  BY <1>1, <1>2, Becoming
<1>4. /\ Sends(t, r, pos2) /\ N2 \subseteq N \cup r.out
      /\ Listens(r, S[Outgoing].seqn, S[Outgoing].written, pos[Outgoing])
  BY <1>1, <1>2 DEF Becomes
<1>5. S2[t].last = r.last /\ S2[t].saved = r.saved
  BY <1>3 DEF SameButOut
<1>6. Has(S2[t]) = Has(r) /\ \A p : AckHeld(S2[t], p) = AckHeld(r, p)
  BY <1>5, SameHas
<1>7. \A u \in StreamIDs : u # t => S2[u] = S[u] /\ Is(S2, u) = Is(S, u)
  BY <1>3 DEF Is
<1>8. S2[Outgoing] = S[Outgoing]
  BY <1>1, <1>3, IDs
<1>9. r \in StreamType
  BY <1>4 DEF Sends
<1>10. \A p \in r.out : p \in Own(r)
  BY <1>9 DEF StreamType, Own
<1>11. \A p \in Own(r) : p.from = t
  BY <1>4 DEF Sends, Owns, OwnPacket
<1> QED
  BY <1>3, <1>4, <1>5, <1>6, <1>7, <1>8, <1>9, <1>10, <1>11

(* No stream forgets what it has.                                           *)
LEMMA InHasMore ==
  ASSUME NEW S, NEW N, NEW pos, World(S, N, pos), NEW t, NEW r, NEW pos2, NEW S2, NEW N2,
         InStep(S, N, pos, t, r, pos2, S2, N2), NEW u \in Incoming, Is(S, u)
  PROVE  Is(S2, u) /\ Has(S[u]) \subseteq Has(S2[u])
<1>1. CASE u = t
  BY <1>1, InStepFacts, HasMore DEF InStep
<1>2. CASE u # t
  BY <1>2, InStepFacts, IDs
<1> QED
  BY <1>1, <1>2

(* Nor does what is safe change.                                            *)
LEMMA InSafe ==
  ASSUME NEW S, NEW N, NEW pos, World(S, N, pos), Safe(S, pos), NEW t, NEW r, NEW pos2, NEW S2,
         NEW N2, InStep(S, N, pos, t, r, pos2, S2, N2), NEW pos3, pos3[Outgoing] = pos[Outgoing]
  PROVE  Safe(S2, pos3)
<1>1. S2[Outgoing] = S[Outgoing]
  BY InStepFacts
<1>2. ASSUME NEW n \in Nat, NEW u \in Incoming, Is(S, u), n \in Has(S[u])
      PROVE  \E v \in Incoming : Is(S2, v) /\ n \in Has(S2[v])
  BY <1>2, InHasMore
<1> QED
  BY <1>1, <1>2 DEF Safe

(* What a quick ack names fits.                                             *)
LEMMA InFewMissing ==
  ASSUME MAX_WINDOW_SIZE + 1 < MaxNacks,
         NEW S, NEW N, NEW pos, World(S, N, pos), NEW t, NEW r, NEW pos2, NEW S2, NEW N2,
         InStep(S, N, pos, t, r, pos2, S2, N2), Spare(S), Addressed(S, N), Kept(S)
  PROVE  FewMissing(r)
<1>1. /\ t \in Incoming /\ t \in StreamIDs /\ t # NoID /\ Event(S, N, pos, t, r, pos2)
  BY IDs DEF InStep
<1>2. CASE t # S[Outgoing].peer
  <2>1. r.saved = {}
    BY <1>1, <1>2, SpareStays
  <2> QED
    BY <2>1 DEF FewMissing, Saved
<1>3. CASE t = S[Outgoing].peer
  <2>1. PICK o : o = S[Outgoing]
    OBVIOUS
  <2>2. Sends(Outgoing, o, pos[Outgoing]) /\ o.seqn \in Nat
    <3>1. Sends(Outgoing, o, pos[Outgoing])
      BY <2>1, IDs DEF World
    <3> QED
      BY <3>1 DEF Sends, StreamType
  <2>3. /\ Is(S, t)
        /\ \A n \in Nat : n < o.seqn => n \in Has(S[t]) \/ Tracked(o, n) \/ n + 1 = o.seqn
    BY <1>1, <1>3, <2>1 DEF Kept
  <2>4. Has(S[t]) \subseteq Has(r)
    BY <1>1, <2>3, HasMore
  <2>5. \A n \in Nat : n < o.seqn => n \in Has(r) \/ Tracked(o, n) \/ n + 1 = o.seqn
    BY <2>3, <2>4
  <2>6. r \in StreamType /\ Listens(r, o.seqn, o.written, pos[Outgoing])
    BY <2>1, InStepFacts
  <2>7. r.last \in Nat /\ \A q \in r.saved : q.seqn \in Nat /\ q.seqn < o.seqn
    BY <2>6 DEF Listens, Carried, StreamType, PacketType
  <2> QED
    BY <2>2, <2>5, <2>7, MissingFew
<1> QED
  BY <1>2, <1>3

(* The acks of an accepted stream are true.                                 *)
LEMMA InAcks ==
  ASSUME MAX_WINDOW_SIZE + 1 < MaxNacks,
         NEW S, NEW N, NEW pos, World(S, N, pos), NEW t, NEW r, NEW pos2, NEW S2, NEW N2,
         InStep(S, N, pos, t, r, pos2, S2, N2), Spare(S), Addressed(S, N), Kept(S),
         AcksHeld(S, N)
  PROVE  AcksHeld(S2, N2)
<1>1. /\ t \in Incoming /\ t \in StreamIDs /\ Event(S, N, pos, t, r, pos2)
  BY IDs DEF InStep
<1>2. FewMissing(r)
  BY InFewMissing
<1>3. r.last >= 0
  BY InStepFacts DEF Listens
<1>4. ASSUME NEW p, Answers(r, p)
      PROVE  AckHeld(r, p)
  BY <1>2, <1>3, <1>4 DEF Answers
<1>5. ASSUME NEW p \in PacketType, p \in Own(r) \/ (p \in N /\ p.from = t)
      PROVE  AckHeld(r, p)
  <2>1. CASE Is(S, t)
    <3>1. Has(S[t]) \subseteq Has(r) /\ AcksTrue(S[t], r)
      BY <1>1, <2>1, HasMore
    <3>2. p \in InPackets(S, N, t) => AckHeld(S[t], p)
      BY <1>1, <2>1 DEF AcksHeld
    <3>3. AckHeld(S[t], p) => AckHeld(r, p)
      BY <3>1 DEF AckHeld
    <3>4. p \in Own(r) => p \in Own(S[t]) \/ Answers(r, p)
      BY <3>1 DEF AcksTrue
    <3> QED
      BY <1>4, <1>5, <3>2, <3>3, <3>4 DEF InPackets
  <2>2. CASE ~Is(S, t)
    <3>1. PICK q \in N : Accepts(t, q, r, pos2, S[Outgoing].seqn, S[Outgoing].written, pos[Outgoing])
      BY <1>1, <2>2 DEF Event
    <3>2. \A x \in Own(r) : Answers(r, x)
      BY <3>1 DEF Accepts
    <3>3. ~(p \in N /\ p.from = t)
      BY <2>2 DEF World
    <3> QED
      BY <1>4, <1>5, <3>2, <3>3
  <2> QED
    BY <2>1, <2>2
<1>6. ASSUME NEW u \in Incoming, Is(S2, u), NEW p \in InPackets(S2, N2, u)
      PROVE  AckHeld(S2[u], p)
  <2>1. p \in PacketType /\ (p \in Own(S2[u]) \/ (p \in N2 /\ p.from = u))
    BY <1>6 DEF InPackets
  <2>2. CASE u = t
    <3>1. p \in Own(r) \/ (p \in N /\ p.from = t)
      BY <2>1, <2>2, InStepFacts
    <3> QED
      BY <1>5, <2>1, <2>2, <3>1, InStepFacts
  <2>3. CASE u # t
    <3>1. S2[u] = S[u] /\ Is(S, u)
      BY <1>6, <2>3, InStepFacts, IDs
    <3>2. p \in InPackets(S, N, u)
      <4>1. p.from = u => p \notin r.out
        BY <2>3, InStepFacts
      <4> QED
        BY <2>1, <3>1, <4>1, InStepFacts DEF InPackets
    <3> QED
      BY <3>1, <3>2 DEF AcksHeld
  <2> QED
    BY <2>2, <2>3
<1> QED
  BY <1>6 DEF AcksHeld

(* The second invariant, for an accepted stream.                            *)
LEMMA InHeeds ==
  ASSUME MAX_WINDOW_SIZE + 1 < MaxNacks,
         NEW S, NEW N, NEW pos, World(S, N, pos), Heeds(S, N), NEW t, NEW r, NEW pos2, NEW S2,
         NEW N2, InStep(S, N, pos, t, r, pos2, S2, N2)
  PROVE  Heeds(S2, N2)
<1>1. S2[Outgoing] = S[Outgoing] /\ t \in Incoming /\ t \in StreamIDs /\ t # Outgoing
      /\ Event(S, N, pos, t, r, pos2)
  BY InStepFacts, IDs DEF InStep
<1> SUFFICES ASSUME S[Outgoing].inTable
             PROVE  Unheard(S2) /\ Spare(S2) /\ Addressed(S2, N2) /\ Kept(S2) /\ AcksHeld(S2, N2)
  BY <1>1 DEF Heeds
<1>2. Unheard(S) /\ Spare(S) /\ Addressed(S, N) /\ Kept(S) /\ AcksHeld(S, N)
  BY DEF Heeds
<1>3. Unheard(S2)
  BY <1>1, <1>2 DEF Unheard
<1>4. Spare(S2)
  <2>1. ASSUME NEW u \in Incoming, Is(S2, u), u # S[Outgoing].peer
        PROVE  S2[u].last = 0 /\ S2[u].saved = {}
    <3>1. CASE u = t
      <4>1. r.last = 0 /\ r.saved = {}
        BY <1>1, <1>2, <2>1, <3>1, SpareStays
      <4> QED
        BY <3>1, <4>1, InStepFacts
    <3>2. CASE u # t
      <4>1. S2[u] = S[u] /\ Is(S, u)
        BY <2>1, <3>2, InStepFacts, IDs
      <4> QED
        BY <1>2, <2>1, <4>1 DEF Spare
    <3> QED
      BY <3>1, <3>2
  <2> QED
    BY <1>1, <2>1 DEF Spare
<1>5. Addressed(S2, N2)
  <2>1. OutPackets(S2, N2) \subseteq OutPackets(S, N)
    <3>1. ASSUME NEW p \in OutPackets(S2, N2)
          PROVE  p \in OutPackets(S, N)
      <4>1. p \in PacketType /\ (p \in Own(S[Outgoing]) \/ (p \in N2 /\ p.from = Outgoing))
        BY <1>1, <3>1 DEF OutPackets
      <4>2. p.from = Outgoing => p \notin r.out
        BY <1>1, InStepFacts
      <4> QED
        BY <4>1, <4>2, InStepFacts DEF OutPackets
    <3> QED
      BY <3>1
  <2> QED
    BY <1>1, <1>2, <2>1 DEF Addressed
<1>6. Kept(S2)
  BY <1>1, <1>2, InHasMore DEF Kept
<1>7. AcksHeld(S2, N2)
  BY <1>2, InAcks
<1> QED
  BY <1>3, <1>4, <1>5, <1>6, <1>7

(* Both invariants are kept by every step.                                  *)
LEMMA HeedsKept ==
  ASSUME MAX_WINDOW_SIZE + 1 < MaxNacks,
         NEW S, NEW N, NEW pos, World(S, N, pos), Heeds(S, N), Safe(S, pos), NEW S2, NEW N2,
         Happens(S, N, pos, S2, N2)
  PROVE  \E pos3 : World(S2, N2, pos3) /\ Heeds(S2, N2) /\ Safe(S2, pos3)
<1>1. CASE S2 = S /\ N2 \subseteq N
  <2>1. World(S2, N2, pos)
    BY <1>1 DEF World
  <2>2. OutPackets(S2, N2) \subseteq OutPackets(S, N)
    BY <1>1 DEF OutPackets
  <2>3. \A t \in Incoming : InPackets(S2, N2, t) \subseteq InPackets(S, N, t)
    BY <1>1 DEF InPackets
  <2>4. Addressed(S, N) => Addressed(S2, N2)
    BY <1>1, <2>2 DEF Addressed
  <2>5. AcksHeld(S, N) => AcksHeld(S2, N2)
    BY <1>1, <2>3 DEF AcksHeld
  <2>6. Heeds(S2, N2)
    BY <1>1, <2>4, <2>5 DEF Heeds
  <2>7. Safe(S2, pos)
    BY <1>1
  <2> QED
    BY <2>1, <2>6, <2>7
<1>2. CASE \E s \in StreamIDs : \E r, pos2 : /\ Event(S, N, pos, s, r, pos2)
                                             /\ Moved(S, N, s, r, S2, N2)
  <2>1. PICK s \in StreamIDs : \E r, pos2 : /\ Event(S, N, pos, s, r, pos2)
                                           /\ Moved(S, N, s, r, S2, N2)
    BY <1>2
  <2>2. PICK r, pos2 : Event(S, N, pos, s, r, pos2) /\ Moved(S, N, s, r, S2, N2)
    BY <2>1
  <2>3. PICK pos3 : pos3 = Placed(pos, s, pos2)
    OBVIOUS
  <2>4. Becomes(S, N, pos, s, r, pos2, S2, N2, pos3)
    BY <2>2, <2>3, EventBecomes
  <2>5. World(S2, N2, pos3)
    BY <2>4, WorldStep
  <2>6. /\ S2[s] = Sent(r) /\ pos3[s] = pos2 /\ Own(S2[s]) \subseteq Own(r)
        /\ \A t \in StreamIDs : t # s => S2[t] = S[t] /\ pos3[t] = pos[t]
    BY <2>4, Becoming
  <2>7. CASE s = Outgoing
    <3>1. PICK D : OutEvent(S, N, pos, r, pos2, D)
      BY <2>2, <2>7, OutEvents
    <3>2. \A t \in Incoming : S2[t] = S[t]
      BY <2>6, <2>7, IDs
    <3>3. OutStep(S, N, pos, r, pos2, D, S2, N2)
      BY <2>2, <2>6, <2>7, <3>1, <3>2 DEF OutStep, Moved
    <3>4. pos3[Outgoing] = pos2
      BY <2>6, <2>7
    <3> QED
      BY <2>5, <3>3, <3>4, OutHeeds, OutSafe
  <2>8. CASE s \in Incoming
    <3>1. InStep(S, N, pos, s, r, pos2, S2, N2)
      BY <2>2, <2>8 DEF InStep
    <3>2. pos3[Outgoing] = pos[Outgoing]
      BY <2>6, <2>8, IDs
    <3> QED
      BY <2>5, <3>1, <3>2, InHeeds, InSafe
  <2> QED
    BY <2>7, <2>8, IDs
<1> QED
  BY <1>1, <1>2 DEF Happens

(* A unit that was cut off is in one of the packets.                        *)
LEMMA PieceOf ==
  ASSUME NEW m \in Nat, NEW w, NEW cut, Cut(m, w, cut), NEW i \in Nat, i >= 1, i <= cut[m]
  PROVE  \E n \in Nat : n < m /\ cut[n] < i /\ i <= cut[n + 1]
<1>1. /\ \A k \in Nat : cut[k] \in Nat
      /\ cut[0] = 0
  BY CutFacts
<1>2. PICK T : T = {k \in Nat : i <= cut[k]}
  OBVIOUS
<1>3. T \subseteq Nat /\ m \in T
  BY <1>2
<1>4. PICK k \in Nat : k = Min(T) /\ k \in T /\ k <= m
  BY <1>3, NatMin
<1>5. \A y \in T : k <= y
  BY <1>3, <1>4, NatMin
<1>6. k # 0
  BY <1>1, <1>2, <1>4
<1>7. PICK n \in Nat : k = n + 1
  BY <1>6
<1>8. n \notin T
  BY <1>5, <1>7
<1>9. ~(i <= cut[n])
  BY <1>2, <1>8
<1>10. cut[n] < i /\ i <= cut[n + 1] /\ n < m
  BY <1>1, <1>2, <1>4, <1>7, <1>9
<1> QED
  BY <1>10

(* A unit of a piece.                                                       *)
LEMMA UnitIn ==
  ASSUME NEW w \in Seq(Units), NEW a \in Nat, NEW b \in Nat, NEW i \in Nat,
         a < i, i <= b, b <= Len(w)
  PROVE  Contains(SubSeq(w, a + 1, b), w[i])
<1>1. PICK x : x = SubSeq(w, a + 1, b)
  OBVIOUS
<1>2. Len(x) = b - a /\ \A k \in 1 .. b - a : x[k] = w[a + k]
  BY <1>1, PartOf
<1>3. PICK k \in Nat : k = i - a
  OBVIOUS
<1>4. k \in 1 .. b - a /\ a + k = i
  BY <1>3
<1>5. k \in 1 .. Len(x) /\ x[k] = w[i]
  BY <1>2, <1>4
<1> QED
  BY <1>1, <1>5 DEF Contains

(* What stream t has of the number n.                                       *)
LEMMA HasUnit ==
  ASSUME NEW m \in Nat, NEW w \in Seq(Units), NEW cut, Cut(m, w, cut), NEW t,
         Listens(streams[t], m, w, cut), NEW n \in Nat, n \in Has(streams[t]), n < m,
         NEW i \in Nat, cut[n] < i, i <= cut[n + 1]
  PROVE  Received(t, w[i])
<1>1. /\ \A k \in Nat : cut[k] \in Nat
      /\ \A k, l \in Nat : k <= l /\ l <= m => cut[k] <= cut[l]
      /\ cut[m] <= Len(w)
  BY CutFacts
<1>2. n + 1 \in Nat /\ n + 1 <= m
  OBVIOUS
<1>3. cut[n + 1] <= Len(w)
  BY <1>1, <1>2
<1>4. PICK l \in Nat : l = streams[t].last
  BY DEF Listens
<1>5. CASE n \in 0 .. streams[t].last
  <2>1. n <= l /\ l < m
    BY <1>4, <1>5 DEF Listens
  <2>2. l + 1 \in Nat /\ n + 1 <= l + 1 /\ l + 1 <= m
    BY <2>1
  <2>3. cut[n + 1] <= cut[l + 1] /\ cut[l + 1] <= Len(w)
    BY <1>1, <1>2, <2>2
  <2>4. PICK o \in Nat : o = 0
    OBVIOUS
  <2>5. PICK b \in Nat : b = cut[l + 1]
    BY <1>1, <2>2
  <2>6. o < i /\ i <= b /\ b <= Len(w)
    BY <1>1, <1>2, <2>3, <2>4, <2>5
  <2>7. Contains(SubSeq(w, o + 1, b), w[i])
    BY <2>6, UnitIn
  <2>8. streams[t].delivered = SubSeq(w, 1, cut[l + 1])
    BY <1>4 DEF Listens, InOrder
  <2>9. streams[t].delivered = SubSeq(w, o + 1, b)
    BY <2>4, <2>5, <2>8
  <2>10. Contains(streams[t].delivered, w[i])
    BY <2>7, <2>9
  <2> QED
    BY <2>10 DEF Received
<1>6. CASE n \in {q.seqn : q \in streams[t].saved}
  <2>1. PICK q \in streams[t].saved : q.seqn = n
    BY <1>6
  <2>2. q.data = SubSeq(w, cut[n] + 1, cut[n + 1])
    BY <2>1 DEF Listens, Carried
  <2>3. Contains(SubSeq(w, cut[n] + 1, cut[n + 1]), w[i])
    BY <1>1, <1>2, <1>3, UnitIn
  <2>4. Contains(q.data, w[i])
    BY <2>2, <2>3
  <2> QED
    BY <2>1, <2>4 DEF Received
<1> QED
  BY <1>5, <1>6 DEF Has

SafeWorld ==
  \E pos : World(streams, net, pos) /\ Heeds(streams, net) /\ Safe(streams, pos)

(* Both invariants hold at first.                                           *)
LEMMA InitSafe == Init => SafeWorld
<1> SUFFICES ASSUME Init
             PROVE  SafeWorld
  OBVIOUS
<1>1. PICK pos : World(streams, net, pos)
  BY InitWorld DEF SomeWorld
<1>2. streams[Outgoing] = NewStream /\ net = {} /\ \A t \in Incoming : streams[t] = NoStream
  BY IDs DEF Init
<1>3. NewStream.peer = NoID /\ NewStream.seqn = 0
  BY NewStreamType
<1>4. \A t \in Incoming : ~Is(streams, t)
  BY <1>2, IDs DEF Is
<1>5. PICK z \in Nat : z = 0 /\ streams[Outgoing].seqn = z
  BY <1>2, <1>3
<1>6. \A n \in Nat : ~(n < streams[Outgoing].seqn)
  BY <1>5
<1>7. Unheard(streams)
  BY <1>5, <1>6 DEF Unheard
<1>8. Spare(streams) /\ AcksHeld(streams, net) /\ Safe(streams, pos)
  BY <1>4, <1>6 DEF Spare, AcksHeld, Safe
<1>9. Kept(streams)
  BY <1>2, <1>3 DEF Kept
<1>10. Addressed(streams, net)
  <2>1. SUFFICES ASSUME NEW p \in OutPackets(streams, net)
                 PROVE  p.seqn = 0
    BY DEF Addressed
  <2>2. Sends(Outgoing, streams[Outgoing], pos[Outgoing])
    BY <1>1, <1>2, IDs, IsOrNot, NewStreamType DEF Is
  <2>3. p \in PacketType /\ p \in Own(streams[Outgoing])
    BY <1>2, <2>1 DEF OutPackets
  <2>4. p.seqn \in Nat /\ (p.seqn # 0 => p.seqn < streams[Outgoing].seqn)
    BY <2>2, <2>3 DEF Sends, Owns, OwnPacket, PacketType
  <2> QED
    BY <1>6, <2>4
<1> QED
  BY <1>1, <1>7, <1>8, <1>9, <1>10 DEF SafeWorld, Heeds

(* And after every step.                                                    *)
LEMMA StepSafe ==
  ASSUME MAX_WINDOW_SIZE + 1 < MaxNacks
  PROVE  SafeWorld /\ [Next]_vars => SafeWorld'
<1> SUFFICES ASSUME SafeWorld, [Next]_vars
             PROVE  SafeWorld'
  OBVIOUS
<1>1. PICK pos : World(streams, net, pos) /\ Heeds(streams, net) /\ Safe(streams, pos)
  BY DEF SafeWorld
<1>2. Happens(streams, net, pos, streams', net')
  BY <1>1, NextHappens
<1>3. \E pos3 : World(streams', net', pos3) /\ Heeds(streams', net') /\ Safe(streams', pos3)
  BY <1>1, <1>2, HeedsKept
<1> QED
  BY <1>3 DEF SafeWorld

(* A unit that has left the buffer is tracked or has been received.         *)
LEMMA UnitSafe ==
  ASSUME NEW pos, World(streams, net, pos), Safe(streams, pos), NEW i \in Nat, i >= 1,
         i <= pos[Outgoing][streams[Outgoing].seqn]
  PROVE  \/ \E p \in streams[Outgoing].sent : Contains(p.data, streams[Outgoing].written[i])
         \/ \E t \in Incoming : Received(t, streams[Outgoing].written[i])
<1>1. PICK o, m, w, cut : /\ o = streams[Outgoing] /\ m = o.seqn
                          /\ w = o.written /\ cut = pos[Outgoing]
  OBVIOUS
<1>2. Sends(Outgoing, o, cut)
  BY <1>1, IDs DEF World
<1>3. m \in Nat /\ w \in Seq(Units) /\ Cut(m, w, cut)
  BY <1>1, <1>2, SendsFacts
<1>4. PICK n \in Nat : n < m /\ cut[n] < i /\ i <= cut[n + 1]
  BY <1>1, <1>3, PieceOf
<1>5. /\ cut[n] \in Nat /\ n + 1 \in Nat /\ n + 1 <= m /\ cut[n + 1] \in Nat
      /\ cut[n + 1] <= Len(w)
  <2>1. n + 1 \in Nat /\ n + 1 <= m
    BY <1>3, <1>4
  <2>2. cut[n + 1] <= cut[m] /\ cut[m] <= Len(w)
    BY <1>3, <2>1, CutFacts
  <2>3. cut[n] \in Nat /\ cut[n + 1] \in Nat /\ cut[m] \in Nat /\ Len(w) \in Nat
    BY <1>3, <2>1, CutFacts
  <2>4. PICK a, b, c \in Nat : a = cut[n + 1] /\ b = cut[m] /\ c = Len(w)
    BY <2>3
  <2>5. a <= b /\ b <= c
    BY <2>2, <2>4
  <2>6. a <= c
    BY <2>5
  <2> QED
    BY <2>1, <2>3, <2>4, <2>6
<1>6. cut[n + 1] # cut[n]
  BY <1>4, <1>5
<1>7. Tracked(o, n) \/ \E t \in Incoming : Is(streams, t) /\ n \in Has(streams[t])
  BY <1>1, <1>4, <1>6 DEF Safe
<1>8. CASE Tracked(o, n)
  <2>1. PICK p \in o.sent : p.seqn = n
    BY <1>8 DEF Tracked
  <2>2. p \in PacketType /\ (p.seqn # 0 \/ p.syn) /\ p \in Own(o)
    BY <1>2, <2>1 DEF Sends, Window, StreamType, Own
  <2>3. p.data = SubSeq(w, cut[n] + 1, cut[n + 1])
    BY <1>1, <1>2, <2>1, <2>2 DEF Sends, Owns, OwnPacket
  <2>4. Contains(SubSeq(w, cut[n] + 1, cut[n + 1]), w[i])
    BY <1>3, <1>4, <1>5, UnitIn
  <2> QED
    BY <1>1, <2>1, <2>3, <2>4
<1>9. CASE \E t \in Incoming : Is(streams, t) /\ n \in Has(streams[t])
  <2>1. PICK t \in Incoming : Is(streams, t) /\ n \in Has(streams[t])
    BY <1>9
  <2>2. Listens(streams[t], m, w, cut)
    BY <1>1, <2>1 DEF World
  <2>3. Received(t, w[i])
    BY <1>3, <1>4, <2>1, <2>2, HasUnit
  <2> QED
    BY <1>1, <2>3
<1> QED
  BY <1>7, <1>8, <1>9

(* How much has left the buffer.                                            *)
LEMMA LeftBuffer ==
  ASSUME NEW s, NEW st, NEW pos, Sends(s, st, pos)
  PROVE  /\ Len(st.written) \in Nat /\ Len(st.buf) \in Nat /\ pos[st.seqn] \in Nat
         /\ Len(st.written) - Len(st.buf) = pos[st.seqn]
         /\ st.eof => pos[st.seqn] = Len(st.written)
<1>1. /\ st.seqn \in Nat /\ st.written \in Seq(Units) /\ Cut(st.seqn, st.written, pos)
      /\ st.buf \in Seq(Units)
      /\ st.buf = SubSeq(st.written, pos[st.seqn] + 1, Len(st.written))
      /\ st.eof => st.buf = <<>>
  BY DEF Sends, Bytes, StreamType
<1>2. PICK a \in Nat, b \in Nat : a = pos[st.seqn] /\ b = Len(st.written) /\ a <= b
  BY <1>1, CutFacts
<1>3. PICK w \in Seq(Units) : w = st.written
  BY <1>1
<1>4. Len(SubSeq(w, a + 1, b)) = IF a < b THEN b - a ELSE 0
  BY <1>2, <1>3, PartOf
<1>5. st.buf = SubSeq(w, a + 1, b)
  BY <1>1, <1>2, <1>3
<1>6. PICK c \in Nat : c = Len(st.buf)
  BY <1>1
<1>7. c = IF a < b THEN b - a ELSE 0
  BY <1>4, <1>5, <1>6
<1>8. c = b - a
  BY <1>2, <1>7
<1>9. st.eof => c = 0
  <2>1. PICK x \in Seq(Units) : x = st.buf
    BY <1>1
  <2>2. x = <<>> => Len(x) = 0
    OBVIOUS
  <2> QED
    BY <1>1, <1>6, <2>1, <2>2
<1>10. b - c = a /\ (st.eof => a = b)
  BY <1>8, <1>9
<1> QED
  BY <1>2, <1>6, <1>10

(* AckSound follows.                                                        *)
LEMMA SafeAckSound == SafeWorld => AckSound
<1> SUFFICES ASSUME SafeWorld,
                    NEW i \in 1 .. Len(streams[Outgoing].written) - Len(streams[Outgoing].buf)
             PROVE  \/ \E p \in streams[Outgoing].sent :
                         Contains(p.data, streams[Outgoing].written[i])
                    \/ \E t \in Incoming : Received(t, streams[Outgoing].written[i])
  BY DEF AckSound, AckedOnlyIfReceived
<1>1. PICK pos : World(streams, net, pos) /\ Safe(streams, pos)
  BY DEF SafeWorld
<1>2. Sends(Outgoing, streams[Outgoing], pos[Outgoing])
  BY <1>1, IDs DEF World
<1>3. PICK o, cut : o = streams[Outgoing] /\ cut = pos[Outgoing]
  OBVIOUS
<1>4. /\ Len(o.written) \in Nat /\ Len(o.buf) \in Nat /\ cut[o.seqn] \in Nat
      /\ Len(o.written) - Len(o.buf) = cut[o.seqn]
  BY <1>2, <1>3, LeftBuffer, Zenon
<1>5. i \in 1 .. cut[o.seqn]
  BY <1>3, <1>4
<1>6. i \in Nat /\ i >= 1 /\ i <= cut[o.seqn]
  BY <1>4, <1>5
<1> QED
  BY <1>1, <1>3, <1>6, UnitSafe

(* GracefulClose follows.                                                   *)
LEMMA SafeGracefulClose == SafeWorld => GracefulClose
<1> SUFFICES ASSUME SafeWorld, streams[Outgoing].status = "Closed",
                    NEW i \in 1 .. Len(streams[Outgoing].written)
             PROVE  \E t \in Incoming : Received(t, streams[Outgoing].written[i])
  BY DEF GracefulClose
<1>1. PICK pos : World(streams, net, pos) /\ Safe(streams, pos)
  BY DEF SafeWorld
<1>2. Sends(Outgoing, streams[Outgoing], pos[Outgoing])
  BY <1>1, IDs DEF World
<1>3. streams[Outgoing].sent = {} /\ streams[Outgoing].eof
  BY <1>2 DEF Sends, Stages
<1>4. PICK o, cut : o = streams[Outgoing] /\ cut = pos[Outgoing]
  OBVIOUS
<1>5. cut[o.seqn] \in Nat /\ cut[o.seqn] = Len(o.written)
  <2>1. Sends(Outgoing, o, cut) /\ o.eof
    BY <1>2, <1>3, <1>4
  <2> QED
    BY <2>1, LeftBuffer, Zenon
<1>6. i \in Nat /\ i >= 1 /\ i <= cut[o.seqn]
  BY <1>4, <1>5
<1> QED
  BY <1>1, <1>3, <1>4, <1>6, UnitSafe

(* The invariants.                                                          *)
LEMMA SpecSafe ==
  ASSUME MAX_WINDOW_SIZE + 1 < MaxNacks
  PROVE  Spec => []SafeWorld
<1>1. Init => SafeWorld
  BY InitSafe
<1>2. SafeWorld /\ [Next]_vars => SafeWorld'
  BY StepSafe
<1> QED
  BY <1>1, <1>2, PTL DEF Spec

(* The opening side gives up resending data only when the accepting side    *)
(* has it: ProcessAck, with NACKs and late, repeated and reordered acks,    *)
(* erases no packet but those SendQuickAck had received.  The hypothesis is *)
(* that one quick ack can name all the packets of a window that are         *)
(* missing: MAX_WINDOW_SIZE is 128 in the code, and the NACK count is a     *)
(* byte.                                                                    *)
THEOREM SpecAckSound ==
  ASSUME MAX_WINDOW_SIZE + 1 < MaxNacks
  PROVE  Spec => []AckSound
  BY SpecSafe, SafeAckSound, PTL

(* A stream the opening side closes becomes Closed only after the accepting *)
(* side has received all that was written: Close waits until SendBuffer has *)
(* emptied the buffer and ProcessAck has emptied the packets sent.          *)
THEOREM SpecGracefulClose ==
  ASSUME MAX_WINDOW_SIZE + 1 < MaxNacks
  PROVE  Spec => []GracefulClose
  BY SpecSafe, SafeGracefulClose, PTL
=============================================================================
